-------------------------- MODULE SyncServerProofs --------------------------
(***************************************************************************)
(* Proofs about SyncServer for any connections, client ids and channel     *)
(* capacity: its type invariant, and that the notifier's table and the     *)
(* state of the channels agree.                                            *)
(***************************************************************************)
EXTENDS SyncServer, TLAPS

\* Connections are among the actors.
LEMMA ConnIsActor == \A c \in Conn : c \in Actor
BY DEF Actor

-----------------------------------------------------------------------------
(***************************************************************************)
(* Types.                                                                  *)
(***************************************************************************)

\* A send to an open channel keeps the types of what it touches.
LEMMA OfferTypes ==
  ASSUME TypeOK, NEW c \in Conn, NEW m \in Nat \union {Note}, Offer(c, m)
  PROVE  /\ chan' \in [Conn -> Seq(Nat \union {Note})]
         /\ newest' \in [Conn -> Nat]
         /\ missed' \in [Conn -> BOOLEAN]
<1>1. CASE Len(chan[c]) < Cap
  <2>1. chan[c] \in Seq(Nat \union {Note}) /\ newest[c] \in Nat
    BY DEF TypeOK
  <2>2. Append(chan[c], m) \in Seq(Nat \union {Note})
    BY <2>1
  <2>3. chan' = [chan EXCEPT ![c] = Append(@, m)] /\ missed' = missed
    BY <1>1 DEF Offer
  <2>4. newest' = [newest EXCEPT ![c] = IF m = Note \/ m < @ THEN @ ELSE m]
    BY <1>1 DEF Offer
  <2>5. (IF m = Note \/ m < newest[c] THEN newest[c] ELSE m) \in Nat
    BY <2>1
  <2> QED BY <2>2, <2>3, <2>4, <2>5 DEF TypeOK
<1>2. CASE ~(Len(chan[c]) < Cap)
  BY <1>2 DEF Offer, TypeOK
<1> QED BY <1>1, <1>2

\* So does a panic.
LEMMA PanicTypes ==
  ASSUME TypeOK, NEW a \in Actor, Panic(a)
  PROVE  /\ pc' \in [Actor -> {"new", "read", "reply", "loop", "merge", "echo",
                               "copy", "fan", "wait", "unsub", "close", "done"}]
         /\ targets' \in [Actor -> SUBSET Conn]
         /\ missed' \in [Conn -> BOOLEAN]
         /\ panicked' \in [Actor -> BOOLEAN]
         /\ UNCHANGED <<chan, newest>>
BY DEF TypeOK, Panic

\* TypeOK holds initially.
LEMMA TypeInit == Init => TypeOK
<1> SUFFICES ASSUME Init PROVE TypeOK
  OBVIOUS
<1>1. <<>> \in Seq(Nat \union {Note}) /\ <<>> \in Seq(ClientId)
  OBVIOUS
<1> QED BY <1>1, ServerAssumption DEF Init, TypeOK

\* Every step keeps TypeOK.
LEMMA TypeStep == TypeOK /\ [Next]_vars => TypeOK'
<1> SUFFICES ASSUME TypeOK, [Next]_vars PROVE TypeOK'
  OBVIOUS
<1> USE ServerAssumption, ConnIsActor
<1>1. ASSUME NEW a \in Actor, Merge(a) PROVE TypeOK'
  <2>1. Append(by, ClientOf[a]) \in Seq(ClientId) /\ Len(by) + 1 \in Nat
    BY DEF TypeOK
  <2>2. /\ UNCHANGED <<targets, listeners, closed, writer, peer, frames, panicked,
                       chan, newest, missed>>
        /\ by' \in Seq(ClientId)
    BY <1>1, <2>1 DEF TypeOK, Merge, notifier, delivery
  <2>3. out' \in [Actor -> Nat \union {Note}]
    BY <1>1, <2>1 DEF TypeOK, Merge
  <2>4. pc' = [pc EXCEPT ![a] = IF a \in Conn THEN "echo" ELSE "copy"]
        \/ pc' = [pc EXCEPT ![a] = IF a \in Conn THEN "reply" ELSE "done"]
    BY <1>1 DEF Merge
  <2> QED BY <2>2, <2>3, <2>4 DEF TypeOK
<1>2. ASSUME NEW a \in Actor, CopyListeners(a) PROVE TypeOK'
  BY <1>2 DEF TypeOK, CopyListeners, notifier, delivery
<1>3. ASSUME NEW a \in Actor, FanDone(a) PROVE TypeOK'
  BY <1>3 DEF TypeOK, FanDone, notifier, delivery
<1>4. ASSUME NEW a \in Actor, NEW t \in Conn, FanOut(a, t) PROVE TypeOK'
  <2>1. UNCHANGED <<out, listeners, closed, writer, peer, by, frames>>
    BY <1>4 DEF FanOut, notifier
  <2>2. CASE closed[t]
    <3>1. Panic(a)
      BY <1>4, <2>2 DEF FanOut
    <3>2. /\ pc' \in [Actor -> {"new", "read", "reply", "loop", "merge", "echo",
                                "copy", "fan", "wait", "unsub", "close", "done"}]
          /\ targets' \in [Actor -> SUBSET Conn]
          /\ missed' \in [Conn -> BOOLEAN]
          /\ panicked' \in [Actor -> BOOLEAN]
          /\ UNCHANGED <<chan, newest>>
      BY <3>1, PanicTypes
    <3> QED BY <2>1, <3>2 DEF TypeOK
  <2>3. CASE ~closed[t]
    <3>1. Offer(t, out[a]) /\ out[a] \in Nat \union {Note}
      BY <1>4, <2>3 DEF FanOut, TypeOK
    <3>2. /\ targets' = [targets EXCEPT ![a] = @ \ {t}]
          /\ UNCHANGED <<pc, panicked>>
      BY <1>4, <2>3 DEF FanOut
    <3>3. /\ chan' \in [Conn -> Seq(Nat \union {Note})]
          /\ newest' \in [Conn -> Nat]
          /\ missed' \in [Conn -> BOOLEAN]
      BY <3>1, OfferTypes
    <3> QED BY <2>1, <3>2, <3>3 DEF TypeOK
  <2> QED BY <2>2, <2>3
<1>5. ASSUME NEW c \in Conn, ReadSnapshot(c) PROVE TypeOK'
  <2>1. Len(by) \in Nat
    BY DEF TypeOK
  <2>2. out' \in [Actor -> Nat \union {Note}] /\ missed' \in [Conn -> BOOLEAN]
    <3>1. \/ out' = [out EXCEPT ![c] = Len(by)] /\ missed' = missed
          \/ /\ out' = [out EXCEPT ![c] = Note]
             /\ missed' = [missed EXCEPT ![c] = TRUE]
      BY <1>5 DEF ReadSnapshot
    <3>2. \E m \in Nat \union {Note} : out' = [out EXCEPT ![c] = m]
      BY <2>1, <3>1
    <3>3. out' \in [Actor -> Nat \union {Note}]
      BY <3>2 DEF TypeOK
    <3>4. missed' \in [Conn -> BOOLEAN]
      BY <3>1 DEF TypeOK
    <3> QED BY <3>3, <3>4
  <2> QED BY <1>5, <2>2 DEF TypeOK, ReadSnapshot, notifier
<1>6. ASSUME NEW c \in Conn, Reply(c) \/ Echo(c) PROVE TypeOK'
  <2>1. /\ UNCHANGED <<listeners, closed, writer, peer, by, frames>>
        /\ out' \in [Actor -> Nat \union {Note}]
    BY <1>6 DEF Reply, Echo, notifier, TypeOK
  <2>2. CASE closed[c]
    <3>1. Panic(c)
      BY <1>6, <2>2 DEF Reply, Echo
    <3>2. /\ pc' \in [Actor -> {"new", "read", "reply", "loop", "merge", "echo",
                                "copy", "fan", "wait", "unsub", "close", "done"}]
          /\ targets' \in [Actor -> SUBSET Conn]
          /\ missed' \in [Conn -> BOOLEAN]
          /\ panicked' \in [Actor -> BOOLEAN]
          /\ UNCHANGED <<chan, newest>>
      BY <3>1, PanicTypes
    <3> QED BY <2>1, <3>2 DEF TypeOK
  <2>3. CASE ~closed[c]
    <3>1. Offer(c, out[c]) /\ out[c] \in Nat \union {Note}
      BY <1>6, <2>3 DEF Reply, Echo, TypeOK
    <3>2. /\ pc' = [pc EXCEPT ![c] = "loop"] \/ pc' = [pc EXCEPT ![c] = "copy"]
          /\ UNCHANGED <<targets, panicked>>
      BY <1>6, <2>3 DEF Reply, Echo
    <3>3. /\ chan' \in [Conn -> Seq(Nat \union {Note})]
          /\ newest' \in [Conn -> Nat]
          /\ missed' \in [Conn -> BOOLEAN]
      BY <3>1, OfferTypes
    <3> QED BY <2>1, <3>2, <3>3 DEF TypeOK
  <2> QED BY <2>2, <2>3
<1>7. ASSUME NEW c \in Conn, AwaitWriter(c) \/ CloseSocket(c) PROVE TypeOK'
  BY <1>7 DEF TypeOK, AwaitWriter, CloseSocket, notifier, delivery
<1>8. ASSUME NEW c \in Conn, Unsubscribe(c) PROVE TypeOK'
  BY <1>8 DEF TypeOK, Unsubscribe, delivery
<1>9. ASSUME NEW c \in Conn, WriterStep(c) PROVE TypeOK'
  <2>1. chan[c] \in Seq(Nat \union {Note})
    BY DEF TypeOK
  <2>2. chan[c] # <<>> => Tail(chan[c]) \in Seq(Nat \union {Note})
    BY <2>1
  <2>3. chan' \in [Conn -> Seq(Nat \union {Note})]
    BY <1>9, <2>2 DEF TypeOK, WriterStep, WriterSend, WriterFail, WriterEnd, delivery
  <2>4. /\ writer' \in [Conn -> {"none", "running", "ended"}]
        /\ UNCHANGED <<pc, out, targets, listeners, closed, peer, by, frames,
                       newest, missed, panicked>>
    BY <1>9 DEF TypeOK, WriterStep, WriterSend, WriterFail, WriterEnd, notifier, delivery
  <2> QED BY <2>3, <2>4 DEF TypeOK
<1>10. ASSUME NEW c \in Conn, Subscribe(c) PROVE TypeOK'
  BY <1>10 DEF TypeOK, Subscribe, delivery
<1>11. ASSUME NEW c \in Conn, Receive(c) \/ ReceiveError(c) \/ PeerLeaves(c)
       PROVE  TypeOK'
  <2>1. CASE Receive(c)
    BY <2>1 DEF TypeOK, Receive, notifier, delivery
  <2>2. CASE ReceiveError(c)
    BY <2>2 DEF TypeOK, ReceiveError, notifier, delivery
  <2>3. CASE PeerLeaves(c)
    BY <2>3 DEF TypeOK, PeerLeaves, notifier, delivery
  <2> QED BY <1>11, <2>1, <2>2, <2>3
<1>12. CASE UNCHANGED vars
  BY <1>12 DEF TypeOK, vars
<1> QED BY <1>1, <1>2, <1>3, <1>4, <1>5, <1>6, <1>7, <1>8, <1>9, <1>10, <1>11, <1>12
        DEF Next, HandlerStep, PeerStep

\* Every variable keeps its type; in particular only channels are ever sent
\* to. (the handlers of sync_api.go)
THEOREM TypeCorrect == Spec => []TypeOK
BY TypeInit, TypeStep, PTL DEF Spec

-----------------------------------------------------------------------------
(***************************************************************************)
(* The notifier's table.                                                   *)
(***************************************************************************)

\* A connection that has not subscribed is not listed, and its channel is open.
NewIsUnlisted ==
  \A c \in Conn : pc[c] = "new" =>
    ~closed[c] /\ \A i \in ClientId : listeners[i] # c

Notifier == NewIsUnlisted /\ ListedIsOpen /\ UniqueStaysListed

\* Notifier holds initially.
LEMMA NotifierInit == Init => Notifier
<1> SUFFICES ASSUME Init PROVE Notifier
  OBVIOUS
<1>1. \A c \in Conn : pc[c] = "new" /\ ~closed[c]
  BY ConnIsActor DEF Init
<1>2. \A i \in ClientId : listeners[i] = None
  BY DEF Init
<1> QED BY <1>1, <1>2, ServerAssumption
        DEF Notifier, NewIsUnlisted, ListedIsOpen, UniqueStaysListed, Unique

\* A step that leaves the table and the channels open or closed as they are,
\* and takes no handler over its subscription or its Unsubscribe.
Quiet ==
  /\ UNCHANGED <<listeners, closed>>
  /\ \A c \in Conn : /\ (pc'[c] = "new") <=> (pc[c] = "new")
                     /\ Over(c)' <=> Over(c)

\* All steps but those two are quiet.
LEMMA QuietSteps ==
  ASSUME TypeOK, [Next]_vars,
         \A c \in Conn : ~Subscribe(c) /\ ~Unsubscribe(c)
  PROVE  Quiet
<1> USE ServerAssumption, ConnIsActor
<1> DEFINE Move(a) == /\ UNCHANGED <<listeners, closed>>
                      /\ \A b \in Actor \ {a} : pc'[b] = pc[b]
                      /\ a \in Conn => /\ pc[a] # "new" /\ pc'[a] # "new"
                                       /\ Over(a)' <=> Over(a)
<1>1. ASSUME NEW a \in Actor, Move(a) PROVE Quiet
  BY <1>1 DEF Quiet, Over
<1>2. ASSUME NEW a \in Actor, Merge(a) \/ CopyListeners(a) \/ FanDone(a)
      PROVE  Move(a)
  BY <1>2 DEF TypeOK, Merge, CopyListeners, FanDone, notifier, Over
<1>3. ASSUME NEW a \in Actor, NEW t \in Conn, FanOut(a, t)
      PROVE  Move(a)
  BY <1>3 DEF TypeOK, FanOut, Panic, notifier, Over
<1>4. ASSUME NEW c \in Conn,
             \/ ReadSnapshot(c) \/ Reply(c) \/ Echo(c)
             \/ AwaitWriter(c) \/ CloseSocket(c)
             \/ Receive(c) \/ ReceiveError(c)
      PROVE  Move(c)
  BY <1>4 DEF TypeOK, ReadSnapshot, Reply, Echo, AwaitWriter, CloseSocket,
              Receive, ReceiveError, Panic, notifier, Over
<1>5. ASSUME NEW c \in Conn, WriterStep(c) \/ PeerLeaves(c)
      PROVE  Quiet
  BY <1>5 DEF WriterStep, WriterSend, WriterFail, WriterEnd, PeerLeaves,
              notifier, Quiet, Over
<1>6. CASE UNCHANGED vars
  BY <1>6 DEF vars, Quiet, Over
<1> HIDE DEF Move
<1> QED BY <1>1, <1>2, <1>3, <1>4, <1>5, <1>6 DEF Next, HandlerStep, PeerStep

\* Every step keeps Notifier.
LEMMA NotifierStep == TypeOK /\ Notifier /\ [Next]_vars => Notifier'
<1> SUFFICES ASSUME TypeOK, Notifier, [Next]_vars PROVE Notifier'
  OBVIOUS
<1> USE ServerAssumption, ConnIsActor
<1>1. ASSUME NEW c \in Conn, Subscribe(c) PROVE Notifier'
  <2>1. /\ listeners' = [listeners EXCEPT ![ClientOf[c]] = c]
        /\ pc' = [pc EXCEPT ![c] = "read"]
        /\ closed' = closed
        /\ pc[c] = "new" /\ ~closed[c]
    BY <1>1 DEF Subscribe, Notifier, NewIsUnlisted
  <2>2. NewIsUnlisted'
    BY <2>1 DEF TypeOK, Notifier, NewIsUnlisted
  <2>3. ListedIsOpen'
    BY <2>1 DEF TypeOK, Notifier, ListedIsOpen, Over
  <2>4. UniqueStaysListed'
    BY <2>1 DEF TypeOK, Notifier, UniqueStaysListed, Unique, Over
  <2> QED BY <2>2, <2>3, <2>4 DEF Notifier
<1>2. ASSUME NEW c \in Conn, Unsubscribe(c) PROVE Notifier'
  <2> DEFINE i == ClientOf[c]
             d == listeners[i]
  <2>1. /\ listeners' = [listeners EXCEPT ![i] = None]
        /\ closed' = IF d = None THEN closed ELSE [closed EXCEPT ![d] = TRUE]
        /\ pc' = [pc EXCEPT ![c] = "close"]
        /\ pc[c] = "unsub"
    BY <1>2 DEF Unsubscribe
  <2>2. i \in ClientId /\ d \in Conn \union {None}
    BY DEF TypeOK
  \* Nobody else's channel is closed, and d is listed nowhere else.
  <2>3. \A e \in Conn : e # d => closed'[e] = closed[e]
    BY <2>1, <2>2 DEF TypeOK
  <2>4. \A j \in ClientId \ {i} : listeners'[j] = listeners[j]
    BY <2>1, <2>2 DEF TypeOK
  <2>5. \A j \in ClientId \ {i} : d # None => listeners[j] # d
    BY <2>2 DEF Notifier, ListedIsOpen
  <2>6. listeners'[i] = None /\ \A e \in Conn \ {c} : pc'[e] = pc[e]
    BY <2>1, <2>2 DEF TypeOK
  <2>7. pc'[c] = "close"
    BY <2>1 DEF TypeOK
  <2>8. NewIsUnlisted'
    BY <2>2, <2>3, <2>4, <2>6, <2>7 DEF Notifier, NewIsUnlisted
  <2>9. ListedIsOpen'
    <3> SUFFICES ASSUME NEW j \in ClientId, NEW e, e = listeners'[j], e # None
                 PROVE  ~closed'[e] /\ ~Over(e)' /\ ClientOf[e] = j
      BY DEF ListedIsOpen
    <3>1. j # i /\ e = listeners[j] /\ e \in Conn
      BY <2>4, <2>6 DEF TypeOK
    <3>2. e # d /\ ~closed[e] /\ ~Over(e) /\ ClientOf[e] = j
      BY <2>5, <3>1 DEF Notifier, ListedIsOpen
    <3>3. e # c
      BY <3>1, <3>2
    <3> QED BY <2>3, <2>6, <3>1, <3>2, <3>3 DEF Over
  <2>10. UniqueStaysListed'
    <3> SUFFICES ASSUME NEW u \in Unique, pc'[u] # "new", ~Over(u)'
                 PROVE  listeners'[ClientOf[u]] = u /\ ~closed'[u]
      BY DEF UniqueStaysListed
    <3>1. u \in Conn /\ u # c /\ ClientOf[u] # i
      BY <2>7 DEF Unique, Over
    <3>2. pc[u] # "new" /\ ~Over(u)
      BY <2>6, <3>1 DEF Over
    <3>3. listeners[ClientOf[u]] = u /\ ~closed[u]
      BY <3>2 DEF Notifier, UniqueStaysListed
    <3>4. u # d
      BY <2>2, <3>1 DEF Notifier, ListedIsOpen
    <3> QED BY <2>3, <2>4, <3>1, <3>3, <3>4
  <2> QED BY <2>8, <2>9, <2>10 DEF Notifier
<1>3. CASE \A c \in Conn : ~Subscribe(c) /\ ~Unsubscribe(c)
  <2>1. Quiet
    BY <1>3, QuietSteps
  <2>2. NewIsUnlisted'
    BY <2>1 DEF Quiet, Notifier, NewIsUnlisted
  <2>3. ListedIsOpen'
    <3> SUFFICES ASSUME NEW j \in ClientId, NEW e, e = listeners'[j], e # None
                 PROVE  ~closed'[e] /\ ~Over(e)' /\ ClientOf[e] = j
      BY DEF ListedIsOpen
    <3>1. e = listeners[j] /\ e \in Conn /\ closed'[e] = closed[e]
      BY <2>1 DEF TypeOK, Quiet
    <3>2. ~closed[e] /\ ~Over(e) /\ ClientOf[e] = j
      BY <3>1 DEF Notifier, ListedIsOpen
    <3> QED BY <2>1, <3>1, <3>2 DEF Quiet
  <2>4. UniqueStaysListed'
    BY <2>1 DEF Quiet, Notifier, UniqueStaysListed, Unique
  <2> QED BY <2>2, <2>3, <2>4 DEF Notifier
<1> QED BY <1>1, <1>2, <1>3

\* Notifier is an invariant.
LEMMA NotifierCorrect == Spec => []Notifier
<1>1. Init => TypeOK /\ Notifier
  BY TypeInit, NotifierInit
<1>2. TypeOK /\ Notifier /\ [Next]_vars => (TypeOK /\ Notifier)'
  BY TypeStep, NotifierStep
<1> QED BY <1>1, <1>2, PTL DEF Spec

\* The notifier lists only open channels of handlers that have yet to
\* unsubscribe: its close never hits a closed channel. (Unsubscribe)
THEOREM ListedIsOpenCorrect == Spec => []ListedIsOpen
<1>1. Notifier => ListedIsOpen
  BY DEF Notifier
<1> QED BY <1>1, NotifierCorrect, PTL

\* A connection with a client id of its own is listed, its channel open, for
\* as long as its handler may send to it. (handleWS)
THEOREM UniqueStaysListedCorrect == Spec => []UniqueStaysListed
<1>1. Notifier => UniqueStaysListed
  BY DEF Notifier
<1> QED BY <1>1, NotifierCorrect, PTL

-----------------------------------------------------------------------------
(***************************************************************************)
(* No commit is missed.                                                    *)
(***************************************************************************)

\* c's channel is listed, and no message for it has been lost.
Listening(c) == pc[c] # "new" /\ listeners[ClientOf[c]] = c /\ ~missed[c]

\* The broadcast that a has under way will still try c's channel with a
\* snapshot that holds commit v.
Announces(a, c, v) ==
  /\ pc[a] \in {"echo", "copy"} \/ (pc[a] = "fan" /\ c \in targets[a])
  /\ ClientOf[a] # ClientOf[c]
  /\ out[a] # Note /\ out[a] >= v

\* The handler of c is about to read or to send a snapshot that holds v.
Answers(c, v) ==
  pc[c] = "read" \/ (pc[c] = "reply" /\ out[c] # Note /\ out[c] >= v)

OnTheWay(c, v) == Answers(c, v) \/ \E a \in Actor : Announces(a, c, v)

\* The inductive form of NoCommitMissed: whatever a listening connection has
\* not been sent is on its way to it.
Delivered ==
  \A c \in Conn : Listening(c) =>
    \A v \in 1..Len(by) :
      by[v] # ClientOf[c] => newest[c] >= v \/ OnTheWay(c, v)

\* A send is recorded as new or as missed, and forgets neither.
LEMMA OfferDelivers ==
  ASSUME TypeOK, NEW c \in Conn, NEW m \in Nat \union {Note}, Offer(c, m)
  PROVE  /\ \A d \in Conn : newest'[d] >= newest[d] /\ (missed[d] => missed'[d])
         /\ m # Note => newest'[c] >= m \/ missed'[c]
<1> USE ServerAssumption
<1>1. CASE Len(chan[c]) < Cap
  <2>1. missed' = missed
    BY <1>1 DEF Offer
  <2>2. newest' = [newest EXCEPT ![c] = IF m = Note \/ m < @ THEN @ ELSE m]
    BY <1>1 DEF Offer
  <2> QED BY <2>1, <2>2 DEF TypeOK
<1>2. CASE ~(Len(chan[c]) < Cap)
  <2>1. newest' = newest
    BY <1>2 DEF Offer
  <2>2. missed' = [missed EXCEPT ![c] = @ \/ m # Note]
    BY <1>2 DEF Offer
  <2>3. missed'[c] <=> missed[c] \/ m # Note
    BY <2>2 DEF TypeOK
  <2>4. \A d \in Conn \ {c} : missed'[d] = missed[d]
    BY <2>2 DEF TypeOK
  <2>5. \A d \in Conn : newest'[d] >= newest[d]
    BY <2>1 DEF TypeOK
  <2> QED BY <2>3, <2>4, <2>5
<1> QED BY <1>1, <1>2

\* A step in which at most one handler moves, that commits nothing and lists
\* nobody, delivers or keeps under way what that handler had to send.
LEMMA OneMoves ==
  ASSUME Delivered, by' = by, NEW a \in Actor,
         \A b \in Actor \ {a} : /\ pc'[b] = pc[b] /\ out'[b] = out[b]
                                /\ targets'[b] = targets[b],
         \A c \in Conn : Listening(c)' => Listening(c),
         \A c \in Conn : newest[c] \in Nat /\ newest'[c] \in Nat
                           /\ newest'[c] >= newest[c],
         \A c \in Conn : \A v \in 1..Len(by) :
           Listening(c)' /\ Announces(a, c, v) =>
             newest'[c] >= v \/ Announces(a, c, v)',
         a \in Conn => \A v \in 1..Len(by) :
           Listening(a)' /\ Answers(a, v) => newest'[a] >= v \/ Answers(a, v)'
  PROVE  Delivered'
<1> SUFFICES ASSUME NEW c \in Conn, Listening(c)',
                    NEW v \in 1..Len(by), by[v] # ClientOf[c]
             PROVE  newest'[c] >= v \/ OnTheWay(c, v)'
  BY DEF Delivered
<1>1. newest[c] >= v \/ OnTheWay(c, v)
  BY DEF Delivered
<1>2. CASE newest[c] >= v
  BY <1>2
<1>3. CASE Answers(c, v)
  <2>1. c # a => Answers(c, v)'
    BY <1>3, ConnIsActor DEF Answers
  <2> QED BY <1>3, <2>1 DEF OnTheWay
<1>4. ASSUME NEW b \in Actor, Announces(b, c, v)
      PROVE  newest'[c] >= v \/ OnTheWay(c, v)'
  <2>1. b # a => Announces(b, c, v)'
    BY <1>4 DEF Announces
  <2> QED BY <1>4, <2>1 DEF OnTheWay
<1> QED BY <1>1, <1>2, <1>3, <1>4 DEF OnTheWay

\* Delivered holds initially.
LEMMA DeliveredInit == Init => Delivered
<1> SUFFICES ASSUME Init PROVE Delivered
  OBVIOUS
<1>1. \A c \in Conn : pc[c] = "new"
  BY ConnIsActor DEF Init
<1> QED BY <1>1 DEF Delivered, Listening

\* A handler that stumbles over a closed channel records whom it leaves out.
LEMMA PanicMisses ==
  ASSUME TypeOK, NEW a \in Actor, Panic(a), pc[a] # "new",
         listeners' = listeners, NEW c \in Conn, Listening(c)'
  PROVE  /\ Listening(c)
         /\ pc[a] # "echo" /\ c \notin targets[a]
         /\ newest' = newest
<1>1. /\ missed' = [d \in Conn |-> missed[d] \/ d \in targets[a] \/ pc[a] = "echo"]
      /\ pc' = [pc EXCEPT ![a] = IF a \in Conn THEN "unsub" ELSE "done"]
      /\ newest' = newest
  BY DEF Panic
<1>2. missed'[c] <=> missed[c] \/ c \in targets[a] \/ pc[a] = "echo"
  BY <1>1
<1>3. pc'[c] # "new" => pc[c] # "new"
  BY <1>1, ConnIsActor DEF TypeOK
<1> QED BY <1>1, <1>2, <1>3 DEF Listening

\* Every step keeps Delivered.
LEMMA DeliveredStep ==
  TypeOK /\ Notifier /\ Delivered /\ [Next]_vars => Delivered'
<1> SUFFICES ASSUME TypeOK, Notifier, Delivered, [Next]_vars PROVE Delivered'
  OBVIOUS
<1> USE ServerAssumption, ConnIsActor
<1>t. TypeOK'
  BY TypeStep
<1>n. \A c \in Conn : newest[c] \in Nat /\ newest'[c] \in Nat
  BY <1>t DEF TypeOK
<1>1. ASSUME NEW a \in Actor, Merge(a) PROVE Delivered'
  <2>1. /\ pc[a] = "merge"
        /\ \A c \in Conn : Listening(c)' => Listening(c)
        /\ newest' = newest
        /\ \A b \in Actor \ {a} : /\ pc'[b] = pc[b] /\ out'[b] = out[b]
                                  /\ targets'[b] = targets[b]
    BY <1>1 DEF TypeOK, Merge, notifier, delivery, Listening
  <2>2. CASE by' = by
    <3>1. \A c \in Conn : \A v : ~Announces(a, c, v) /\ (c = a => ~Answers(c, v))
      BY <2>1 DEF Announces, Answers
    <3> QED BY <1>n, <2>1, <2>2, <3>1, OneMoves
  <2>3. CASE by' # by
    <3>1. /\ by' = Append(by, ClientOf[a]) /\ out'[a] = Len(by) + 1
          /\ pc'[a] \in {"echo", "copy"}
      BY <1>1, <2>3 DEF TypeOK, Merge
    <3>2. /\ Len(by') = Len(by) + 1
          /\ \A v \in 1..Len(by) : by'[v] = by[v]
          /\ by'[Len(by) + 1] = ClientOf[a]
          /\ Len(by) \in Nat
      BY <3>1 DEF TypeOK
    <3> SUFFICES ASSUME NEW c \in Conn, Listening(c)',
                        NEW v \in 1..Len(by'), by'[v] # ClientOf[c]
                 PROVE  newest'[c] >= v \/ OnTheWay(c, v)'
      BY DEF Delivered
    <3>3. CASE v = Len(by) + 1
      <4>1. Announces(a, c, v)'
        BY <3>1, <3>2, <3>3 DEF Announces
      <4> QED BY <4>1 DEF OnTheWay
    <3>4. CASE v \in 1..Len(by)
      <4>1. newest[c] >= v \/ OnTheWay(c, v)
        BY <2>1, <3>2, <3>4 DEF Delivered
      <4>2. Answers(c, v) => Answers(c, v)'
        BY <2>1 DEF Answers
      <4>3. ASSUME NEW b \in Actor, Announces(b, c, v) PROVE Announces(b, c, v)'
        BY <2>1, <4>3 DEF Announces
      <4> QED BY <2>1, <4>1, <4>2, <4>3 DEF OnTheWay
    <3> QED BY <3>2, <3>3, <3>4
  <2> QED BY <2>2, <2>3
<1>2. ASSUME NEW a \in Actor, CopyListeners(a) PROVE Delivered'
  <2>1. /\ pc[a] = "copy" /\ pc'[a] = "fan"
        /\ \A c \in Conn : Listening(c)' => Listening(c)
        /\ UNCHANGED <<newest, by, out, listeners>>
        /\ \A b \in Actor \ {a} : pc'[b] = pc[b] /\ targets'[b] = targets[b]
        /\ targets'[a] = {listeners[i] : i \in ClientId \ {ClientOf[a]}} \ {None}
    BY <1>2 DEF TypeOK, CopyListeners, notifier, delivery, Listening
  <2>2. ASSUME NEW c \in Conn, NEW v \in 1..Len(by), Listening(c)',
               Announces(a, c, v)
        PROVE  Announces(a, c, v)'
    <3>1. ClientOf[c] \in ClientId /\ ClientOf[c] # ClientOf[a] /\ c # None
      BY <2>2 DEF Announces
    <3>2. listeners[ClientOf[c]] = c
      BY <2>1, <2>2 DEF Listening
    <3>3. c \in targets'[a]
      BY <2>1, <3>1, <3>2
    <3> QED BY <2>1, <2>2, <3>3 DEF Announces
  <2>3. \A v : ~Answers(a, v)
    BY <2>1 DEF Answers
  <2> QED BY <1>n, <2>1, <2>2, <2>3, OneMoves
<1>3. ASSUME NEW a \in Actor, FanDone(a) PROVE Delivered'
  <2>1. /\ pc[a] = "fan" /\ targets[a] = {}
        /\ \A c \in Conn : Listening(c)' => Listening(c)
        /\ UNCHANGED <<newest, by, targets>>
        /\ \A b \in Actor \ {a} : pc'[b] = pc[b] /\ out'[b] = out[b]
    BY <1>3 DEF TypeOK, FanDone, notifier, delivery, Listening
  <2>2. \A c \in Conn : \A v : ~Announces(a, c, v) /\ ~Answers(a, v)
    BY <2>1 DEF Announces, Answers
  <2> QED BY <1>n, <2>1, <2>2, OneMoves
<1>4. ASSUME NEW a \in Actor, NEW t \in Conn, FanOut(a, t) PROVE Delivered'
  <2>1. /\ pc[a] = "fan" /\ UNCHANGED <<out, by, listeners>>
    BY <1>4 DEF FanOut, notifier
  <2>2. \A v : ~Answers(a, v)
    BY <2>1 DEF Answers
  <2>3. CASE Panic(a)
    <3>1. \A b \in Actor \ {a} : pc'[b] = pc[b] /\ targets'[b] = targets[b]
      BY <2>3 DEF Panic, TypeOK
    <3>2. \A c \in Conn : Listening(c)' =>
             Listening(c) /\ c \notin targets[a]
      BY <2>1, <2>3, PanicMisses
    <3>3. newest' = newest
      BY <2>3 DEF Panic
    <3>4. \A c \in Conn : \A v : Listening(c)' => ~Announces(a, c, v)
      BY <2>1, <3>2 DEF Announces
    <3> QED BY <1>n, <2>1, <2>2, <3>1, <3>2, <3>3, <3>4, OneMoves
  <2>4. CASE ~Panic(a)
    <3>1. /\ Offer(t, out[a]) /\ pc' = pc
          /\ targets' = [targets EXCEPT ![a] = @ \ {t}]
          /\ out[a] \in Nat \union {Note}
      BY <1>4, <2>4 DEF FanOut, TypeOK
    <3>2. /\ \A d \in Conn : newest'[d] >= newest[d] /\ (missed[d] => missed'[d])
          /\ out[a] # Note => newest'[t] >= out[a] \/ missed'[t]
      BY <3>1, OfferDelivers
    <3>3. \A c \in Conn : Listening(c)' => Listening(c)
      BY <2>1, <3>1, <3>2 DEF Listening
    <3>4. ASSUME NEW c \in Conn, NEW v \in 1..Len(by), Listening(c)',
                 Announces(a, c, v)
          PROVE  newest'[c] >= v \/ Announces(a, c, v)'
      <4>1. CASE c = t
        <5>1. out[a] \in Nat /\ out[a] >= v /\ newest'[t] >= out[a]
          BY <3>1, <3>2, <3>4, <4>1 DEF Announces, Listening
        <5> QED BY <1>n, <4>1, <5>1
      <4>2. CASE c # t
        BY <2>1, <3>1, <3>4, <4>2 DEF Announces, TypeOK
      <4> QED BY <4>1, <4>2
    <3>5. \A b \in Actor \ {a} : targets'[b] = targets[b]
      BY <3>1 DEF TypeOK
    <3> QED BY <1>n, <2>1, <2>2, <3>1, <3>2, <3>3, <3>4, <3>5, OneMoves
  <2> QED BY <2>3, <2>4
<1>5. ASSUME NEW c \in Conn, ReadSnapshot(c) PROVE Delivered'
  <2>1. /\ pc[c] = "read" /\ pc'[c] = "reply"
        /\ UNCHANGED <<newest, by, listeners, targets>>
        /\ \A b \in Actor \ {c} : pc'[b] = pc[b] /\ out'[b] = out[b]
    BY <1>5 DEF TypeOK, ReadSnapshot, notifier
  <2>2. \/ out'[c] = Len(by) /\ missed' = missed
        \/ missed'[c] /\ \A d \in Conn \ {c} : missed'[d] = missed[d]
    BY <1>5 DEF TypeOK, ReadSnapshot
  <2>3. \A d \in Conn : missed[d] => missed'[d]
    BY <2>2
  <2>4. \A d \in Conn : Listening(d)' => Listening(d)
    BY <2>1, <2>3 DEF Listening
  <2>5. \A d \in Conn : \A v : ~Announces(c, d, v)
    BY <2>1 DEF Announces
  <2>6. ASSUME NEW v \in 1..Len(by), Listening(c)' PROVE Answers(c, v)'
    <3>1. out'[c] = Len(by) /\ Len(by) \in Nat
      BY <2>2, <2>6 DEF Listening, TypeOK
    <3> QED BY <2>1, <3>1 DEF Answers
  <2> QED BY <1>n, <2>1, <2>4, <2>5, <2>6, OneMoves
<1>6. ASSUME NEW c \in Conn, Reply(c) PROVE Delivered'
  <2>1. /\ pc[c] = "reply" /\ UNCHANGED <<by, listeners>>
        /\ \A b \in Actor \ {c} : out'[b] = out[b]
    BY <1>6 DEF Reply, notifier, TypeOK
  <2>2. \A d \in Conn : \A v : ~Announces(c, d, v)
    BY <2>1 DEF Announces
  <2>3. CASE closed[c]
    <3>1. Panic(c)
      BY <1>6, <2>3 DEF Reply
    <3>2. \A b \in Actor \ {c} : pc'[b] = pc[b] /\ targets'[b] = targets[b]
      BY <3>1 DEF Panic, TypeOK
    <3>3. \A d \in Conn : Listening(d)' => Listening(d)
      BY <2>1, <3>1, PanicMisses
    <3>4. ~Listening(c)
      BY <2>3 DEF Listening, Notifier, ListedIsOpen
    <3>5. newest' = newest
      BY <3>1 DEF Panic
    <3> QED BY <1>n, <2>1, <2>2, <3>2, <3>3, <3>4, <3>5, OneMoves
  <2>4. CASE ~closed[c]
    <3>1. /\ Offer(c, out[c]) /\ pc' = [pc EXCEPT ![c] = "loop"]
          /\ targets' = targets /\ out[c] \in Nat \union {Note}
      BY <1>6, <2>4 DEF Reply, TypeOK
    <3>2. /\ \A d \in Conn : newest'[d] >= newest[d] /\ (missed[d] => missed'[d])
          /\ out[c] # Note => newest'[c] >= out[c] \/ missed'[c]
      BY <3>1, OfferDelivers
    <3>3. \A b \in Actor \ {c} : pc'[b] = pc[b]
      BY <3>1 DEF TypeOK
    <3>4. \A d \in Conn : Listening(d)' => Listening(d)
      BY <2>1, <3>2, <3>3 DEF Listening
    <3>5. ASSUME NEW v \in 1..Len(by), Listening(c)', Answers(c, v)
          PROVE  newest'[c] >= v
      <4>1. out[c] \in Nat /\ out[c] >= v /\ newest'[c] >= out[c]
        BY <2>1, <3>1, <3>2, <3>5 DEF Answers, Listening
      <4> QED BY <1>n, <4>1
    <3> QED BY <1>n, <2>1, <2>2, <3>1, <3>2, <3>3, <3>4, <3>5, OneMoves
  <2> QED BY <2>3, <2>4
<1>7. ASSUME NEW c \in Conn, Echo(c) PROVE Delivered'
  <2>1. /\ pc[c] = "echo" /\ UNCHANGED <<out, by, listeners>>
    BY <1>7 DEF Echo, notifier
  <2>2. \A v : ~Answers(c, v)
    BY <2>1 DEF Answers
  <2>3. CASE closed[c]
    <3>1. Panic(c)
      BY <1>7, <2>3 DEF Echo
    <3>2. \A b \in Actor \ {c} : pc'[b] = pc[b] /\ targets'[b] = targets[b]
      BY <3>1 DEF Panic, TypeOK
    <3>3. \A d \in Conn : ~Listening(d)'
      BY <2>1, <3>1, PanicMisses
    <3>4. newest' = newest
      BY <3>1 DEF Panic
    <3> QED BY <1>n, <2>1, <2>2, <3>2, <3>3, <3>4, OneMoves
  <2>4. CASE ~closed[c]
    <3>1. /\ Offer(c, out[c]) /\ pc' = [pc EXCEPT ![c] = "copy"]
          /\ targets' = targets /\ out[c] \in Nat \union {Note}
      BY <1>7, <2>4 DEF Echo, TypeOK
    <3>2. \A d \in Conn : newest'[d] >= newest[d] /\ (missed[d] => missed'[d])
      BY <3>1, OfferDelivers
    <3>3. pc'[c] = "copy" /\ \A b \in Actor \ {c} : pc'[b] = pc[b]
      BY <3>1 DEF TypeOK
    <3>4. \A d \in Conn : Listening(d)' => Listening(d)
      BY <2>1, <3>2, <3>3 DEF Listening
    <3>5. \A d \in Conn : \A v : Announces(c, d, v) => Announces(c, d, v)'
      BY <2>1, <3>3 DEF Announces
    <3> QED BY <1>n, <2>1, <2>2, <3>1, <3>2, <3>3, <3>4, <3>5, OneMoves
  <2> QED BY <2>3, <2>4
<1>8. ASSUME NEW c \in Conn, Unsubscribe(c) PROVE Delivered'
  <2>1. /\ pc[c] = "unsub"
        /\ UNCHANGED <<newest, missed, by, targets, out>>
        /\ \A b \in Actor \ {c} : pc'[b] = pc[b]
        /\ \A i \in ClientId : listeners'[i] \in {listeners[i], None}
    BY <1>8 DEF TypeOK, Unsubscribe, delivery
  <2>2. ASSUME NEW d \in Conn, Listening(d)' PROVE Listening(d)
    <3>1. ClientOf[d] \in ClientId /\ d # None
      OBVIOUS
    <3> QED BY <2>1, <2>2, <3>1 DEF Listening
  <2>3. \A d \in Conn : \A v : ~Announces(c, d, v) /\ ~Answers(c, v)
    BY <2>1 DEF Announces, Answers
  <2> QED BY <1>n, <2>1, <2>2, <2>3, OneMoves
<1>9. ASSUME NEW c \in Conn,
             \/ AwaitWriter(c) \/ CloseSocket(c)
             \/ Receive(c) \/ ReceiveError(c)
      PROVE  Delivered'
  <2>1. /\ pc[c] \in {"wait", "close", "loop"}
        /\ UNCHANGED <<newest, missed, by, targets, out, listeners>>
        /\ \A b \in Actor \ {c} : pc'[b] = pc[b]
    BY <1>9 DEF TypeOK, AwaitWriter, CloseSocket, Receive, ReceiveError,
                notifier, delivery
  <2>2. \A d \in Conn : Listening(d)' => Listening(d)
    BY <2>1 DEF Listening
  <2>3. \A d \in Conn : \A v : ~Announces(c, d, v) /\ ~Answers(c, v)
    BY <2>1 DEF Announces, Answers
  <2> QED BY <1>n, <2>1, <2>2, <2>3, OneMoves
<1>10. ASSUME NEW c \in Conn, Subscribe(c) PROVE Delivered'
  <2>1. /\ pc'[c] = "read" /\ listeners' = [listeners EXCEPT ![ClientOf[c]] = c]
        /\ UNCHANGED <<newest, missed, by, targets, out>>
        /\ \A b \in Actor \ {c} : pc'[b] = pc[b]
        /\ pc[c] = "new"
    BY <1>10 DEF TypeOK, Subscribe, delivery
  <2> SUFFICES ASSUME NEW d \in Conn, Listening(d)',
                      NEW v \in 1..Len(by), by[v] # ClientOf[d]
               PROVE  newest'[d] >= v \/ OnTheWay(d, v)'
    BY <2>1 DEF Delivered
  <2>2. CASE d = c
    BY <2>1, <2>2 DEF OnTheWay, Answers
  <2>3. CASE d # c
    <3>1. Listening(d)
      BY <2>1, <2>3 DEF Listening, TypeOK
    <3>2. newest[d] >= v \/ OnTheWay(d, v)
      BY <3>1 DEF Delivered
    <3>3. Answers(d, v) => Answers(d, v)'
      BY <2>1, <2>3 DEF Answers
    <3>4. ASSUME NEW b \in Actor, Announces(b, d, v) PROVE Announces(b, d, v)'
      BY <2>1, <3>4 DEF Announces
    <3> QED BY <2>1, <3>2, <3>3, <3>4 DEF OnTheWay
  <2> QED BY <2>2, <2>3
<1>11. CASE UNCHANGED <<pc, out, targets, listeners, by, newest, missed>>
  BY <1>11 DEF Delivered, Listening, OnTheWay, Answers, Announces
<1>12. ASSUME NEW c \in Conn, WriterStep(c) \/ PeerLeaves(c) PROVE Delivered'
  <2>1. UNCHANGED <<pc, out, targets, listeners, by, newest, missed>>
    BY <1>12 DEF WriterStep, WriterSend, WriterFail, WriterEnd, PeerLeaves,
                 notifier, delivery
  <2> QED BY <1>11, <2>1
<1>13. CASE UNCHANGED vars
  BY <1>11, <1>13 DEF vars
<1> QED BY <1>1, <1>2, <1>3, <1>4, <1>5, <1>6, <1>7, <1>8, <1>9, <1>10,
           <1>12, <1>13 DEF Next, HandlerStep, PeerStep

\* Once no sync is under way, every listening connection that lost no message
\* has been sent every commit of the other client ids.
\* (handleWS, BroadcastSnapshot)
THEOREM NoCommitMissedCorrect == Spec => []NoCommitMissed
<1>1. Init => TypeOK /\ Notifier /\ Delivered
  BY TypeInit, NotifierInit, DeliveredInit
<1>2. TypeOK /\ Notifier /\ Delivered /\ [Next]_vars
        => (TypeOK /\ Notifier /\ Delivered)'
  BY TypeStep, NotifierStep, DeliveredStep
<1>3. Delivered => NoCommitMissed
  <2> SUFFICES ASSUME Delivered, Announcing = {},
                      NEW c \in Conn, pc[c] = "loop", Listening(c),
                      NEW v \in 1..Len(by), by[v] # ClientOf[c]
               PROVE  newest[c] >= v
    BY DEF NoCommitMissed, Listening
  <2>1. newest[c] >= v \/ OnTheWay(c, v)
    BY DEF Delivered
  <2>2. \A a \in Actor : ~Announces(a, c, v)
    BY DEF Announces, Announcing
  <2> QED BY <2>1, <2>2 DEF OnTheWay, Answers
<1> QED BY <1>1, <1>2, <1>3, PTL DEF Spec
=============================================================================
