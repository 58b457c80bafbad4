---------------------------- MODULE PrefillProofs ----------------------------
(***************************************************************************)
(* Proofs about PrefillTracker, for any streams, messages, sessions,       *)
(* events and ages: its type invariant, that nothing at rest is left open, *)
(* and that the pushes follow the records.  Then about PrefillPush, the    *)
(* tracker wired to the hub, for any listeners and any capacity of their   *)
(* channels: the hub's types and its table of clients, and that what a     *)
(* listener was last told is not a progress that nobody will follow up.    *)
(***************************************************************************)
EXTENDS PrefillPush, TLAPS

-----------------------------------------------------------------------------
(***************************************************************************)
(* What the steps of a stream do.                                          *)
(***************************************************************************)

Reads(s) == pc[s] \in {"reading", "eof"}

\* Stream s, that is being read, stores r under its key; if it ends with that,
\* r is done.
Stores(s, r) ==
  /\ Store(s, r) /\ latest' = latest
  /\ Reads(s) /\ push[s] = Absent
  /\ pc'[s] \in {"reading", "eof", "ended"}
  /\ \A t \in Stream \ {s} : pc'[t] = pc[t]
  /\ pc'[s] = "ended" => r.done

\* The record after MarkDone is done and no longer started.
LEMMA MarkedDoneIsDone ==
  ASSUME TypeOK, NEW k \in Key
  PROVE  MarkedDone(k) \in Record /\ MarkedDone(k).done /\ ~MarkedDone(k).started
<1>1. Current(k) \in [total : Nat, cache : Nat, processed : Nat,
                      started : BOOLEAN, done : BOOLEAN]
  BY DEF TypeOK, Current, ZeroRecord, Record
<1> DEFINE d == [Current(k) EXCEPT !.done = TRUE]
<1>2. /\ d \in [total : Nat, cache : Nat, processed : Nat,
                started : BOOLEAN, done : BOOLEAN]
      /\ d.done
  BY <1>1
<1>3. /\ [d EXCEPT !.started = FALSE] \in [total : Nat, cache : Nat,
                processed : Nat, started : BOOLEAN, done : BOOLEAN]
      /\ [d EXCEPT !.started = FALSE].done
      /\ ~[d EXCEPT !.started = FALSE].started
  BY <1>2
<1>4. MarkedDone(k) = [d EXCEPT !.started = FALSE]
  BY DEF MarkedDone
<1> QED BY <1>3, <1>4 DEF Record

\* The record after Update is a record.
LEMMA UpdatedIsRecord ==
  ASSUME NEW e \in Event
  PROVE  Updated(e) \in Record
<1>1. e.total \in Nat /\ e.cache \in Nat /\ e.processed \in Nat
  BY TrackerAssumption
<1>2. IsDone(e) \in BOOLEAN
  BY DEF IsDone
<1> QED BY <1>1, <1>2 DEF Updated, Record

\* Every event, the end of the body and its close store a record.
LEMMA WritesStore ==
  ASSUME TypeOK, NEW s \in Stream, Write(s)
  PROVE  Open(s) \/ \E r \in Record : Stores(s, r)
<1> USE TrackerAssumption
<1>1. KeyOf[s] \in Key
  OBVIOUS
<1>2. ASSUME NEW e \in Event, Update(s, e) PROVE Stores(s, Updated(e))
  BY <1>2 DEF TypeOK, Update, Stores, Reads
<1>3. CASE DoneEvent(s)
  <2>1. Stores(s, MarkedDone(KeyOf[s]))
    BY <1>3 DEF TypeOK, DoneEvent, Stores, Reads
  <2> QED BY <1>1, <2>1, MarkedDoneIsDone
<1>4. CASE Eof(s) \/ Close(s)
  <2>1. MarkedDone(KeyOf[s]).done
    BY <1>1, MarkedDoneIsDone
  <2>2. Stores(s, MarkedDone(KeyOf[s]))
    BY <1>4, <2>1 DEF TypeOK, Eof, Close, Stores, Reads
  <2> QED BY <1>1, <2>2, MarkedDoneIsDone
<1> QED BY <1>2, <1>3, <1>4, UpdatedIsRecord DEF Write

\* A record that is stored is what the table and the pending push say.
LEMMA StoreEffect ==
  ASSUME TypeOK, NEW s \in Stream, NEW r \in Record, Store(s, r)
  PROVE  /\ rec' \in [Key -> Record \union {Absent}]
         /\ rec'[KeyOf[s]] = r
         /\ \A k \in Key \ {KeyOf[s]} : rec'[k] = rec[k]
         /\ age' \in [Key -> 0..TTL + 1]
         /\ push' \in [Stream -> Push \union {Absent}]
         /\ push'[s] # Absent /\ push'[s].record = r
         /\ \A t \in Stream \ {s} : push'[t] = push[t]
<1> USE TrackerAssumption
<1>1. KeyOf[s] \in Key /\ [key |-> KeyOf[s], record |-> r] \in Push
  BY DEF Push
<1>2. push' = [push EXCEPT ![s] = [key |-> KeyOf[s], record |-> r]]
  BY DEF Store
<1>3. /\ push' \in [Stream -> Push \union {Absent}]
      /\ push'[s] = [key |-> KeyOf[s], record |-> r]
      /\ \A t \in Stream \ {s} : push'[t] = push[t]
  BY <1>1, <1>2 DEF TypeOK
<1>4. push'[s] # Absent /\ push'[s].record = r
  BY <1>1, <1>3, AbsentAssumption
<1>5. /\ rec' \in [Key -> Record \union {Absent}]
      /\ rec'[KeyOf[s]] = r
      /\ \A k \in Key \ {KeyOf[s]} : rec'[k] = rec[k]
  BY <1>1 DEF Store, TypeOK
<1>6. age' \in [Key -> 0..TTL + 1]
  BY <1>1 DEF Store, TypeOK
<1> QED BY <1>3, <1>4, <1>5, <1>6

-----------------------------------------------------------------------------
(***************************************************************************)
(* Types.                                                                  *)
(***************************************************************************)

\* TypeOK holds initially.
LEMMA TypeInit == Init => TypeOK
BY TrackerAssumption DEF Init, TypeOK

\* Every step keeps TypeOK.
LEMMA TypeStep == TypeOK /\ [Next]_vars => TypeOK'
<1> SUFFICES ASSUME TypeOK, [Next]_vars PROVE TypeOK'
  OBVIOUS
<1> USE TrackerAssumption
<1>1. ASSUME NEW s \in Stream, Write(s) PROVE TypeOK'
  <2>1. pc' \in [Stream -> {"new", "reading", "eof", "ended"}]
    BY <1>1 DEF TypeOK, Write, Open, Update, DoneEvent, Eof, Close
  <2>2. events' \in [Stream -> 0..MaxEvents]
    BY <1>1 DEF TypeOK, Write, Open, Update, DoneEvent, Eof, Close
  <2>3. CASE Open(s)
    BY <2>1, <2>2, <2>3 DEF TypeOK, Open
  <2>4. ASSUME NEW r \in Record, Stores(s, r) PROVE TypeOK'
    <3>1. /\ rec' \in [Key -> Record \union {Absent}]
          /\ age' \in [Key -> 0..TTL + 1]
          /\ push' \in [Stream -> Push \union {Absent}]
      BY <2>4, StoreEffect DEF Stores
    <3>2. latest' = latest
      BY <2>4 DEF Stores
    <3> QED BY <2>1, <2>2, <3>1, <3>2 DEF TypeOK
  <2> QED BY <1>1, <2>3, <2>4, WritesStore
<1>2. ASSUME NEW s \in Stream, Notify(s) PROVE TypeOK'
  BY <1>2 DEF TypeOK, Notify
<1>3. CASE Tick
  BY <1>3 DEF TypeOK, Tick
<1>4. CASE EvictExpired
  BY <1>4 DEF TypeOK, EvictExpired
<1>5. CASE UNCHANGED vars
  BY <1>5 DEF TypeOK, vars
<1> QED BY <1>1, <1>2, <1>3, <1>4, <1>5 DEF Next

\* Every variable keeps its type: in particular no record, stored or pushed, is
\* both under way and done.
\* (prefill_progress.go)
THEOREM TypeCorrect == Spec => []TypeOK
BY TypeInit, TypeStep, PTL DEF Spec

-----------------------------------------------------------------------------
(***************************************************************************)
(* Nothing at rest is left open.                                           *)
(***************************************************************************)

\* A stream has nothing to notify of before it is opened, and nothing but a
\* done record after it was closed.
NewIsSilent == \A s \in Stream : pc[s] = "new" => push[s] = Absent
EndedIsDone ==
  \A s \in Stream : pc[s] = "ended" /\ push[s] # Absent => push[s].record.done

\* An open record is still written to.
OpenIsRead ==
  \A k \in Key : rec[k] # Absent /\ ~rec[k].done =>
    \E s \in Stream : KeyOf[s] = k /\ Reads(s)

\* A session whose listeners were left waiting will hear more.
WaitingIsActive ==
  \A e \in Session : latest[e] # Absent /\ ~latest[e].record.done =>
    \E s \in StreamsOf(e) : Active(s)

\* The only stream a session has had is about to notify of its record, or has.
SoloFollows ==
  \A e \in Session : \A s \in StreamsOf(e) :
    (\A t \in StreamsOf(e) \ {s} : pc[t] = "new") /\ rec[KeyOf[s]] # Absent =>
      \/ push[s] # Absent /\ push[s].record = rec[KeyOf[s]]
      \/ /\ push[s] = Absent /\ latest[e] # Absent
         /\ latest[e].record = rec[KeyOf[s]]

Tracked ==
  NewIsSilent /\ EndedIsDone /\ OpenIsRead /\ WaitingIsActive /\ SoloFollows

\* Tracked holds initially.
LEMMA TrackedInit == Init => Tracked
BY TrackerAssumption
   DEF Init, Tracked, NewIsSilent, EndedIsDone, OpenIsRead, WaitingIsActive,
       SoloFollows, StreamsOf

\* A write keeps the pending pushes of ended streams done.
LEMMA StoresKeepTracked ==
  ASSUME TypeOK, Tracked, NEW s \in Stream, NEW r \in Record, Stores(s, r)
  PROVE  Tracked'
<1> USE TrackerAssumption
<1>1. /\ rec'[KeyOf[s]] = r
      /\ \A k \in Key \ {KeyOf[s]} : rec'[k] = rec[k]
      /\ push'[s] # Absent /\ push'[s].record = r
      /\ \A t \in Stream \ {s} : push'[t] = push[t]
  BY StoreEffect DEF Stores
<1>2. /\ latest' = latest
      /\ Reads(s) /\ push[s] = Absent
      /\ pc'[s] \in {"reading", "eof", "ended"}
      /\ \A t \in Stream \ {s} : pc'[t] = pc[t]
      /\ pc'[s] = "ended" => r.done
  BY DEF Stores
<1>3. NewIsSilent' /\ EndedIsDone'
  BY <1>1, <1>2 DEF Tracked, NewIsSilent, EndedIsDone
<1>4. OpenIsRead'
  <2> SUFFICES ASSUME NEW k \in Key, rec'[k] # Absent, ~rec'[k].done
               PROVE  \E t \in Stream : KeyOf[t] = k /\ Reads(t)'
    BY DEF OpenIsRead
  <2>1. CASE k = KeyOf[s]
    <3>1. Reads(s)'
      BY <1>1, <1>2, <2>1 DEF Reads
    <3> QED BY <2>1, <3>1
  <2>2. CASE k # KeyOf[s]
    <3>1. PICK t \in Stream : KeyOf[t] = k /\ Reads(t)
      BY <1>1, <2>2 DEF Tracked, OpenIsRead
    <3>2. Reads(t)'
      BY <1>2, <2>2, <3>1 DEF Reads
    <3> QED BY <3>1, <3>2
  <2> QED BY <2>1, <2>2
<1>5. WaitingIsActive'
  <2>1. \A t \in Stream : Active(t) => Active(t)'
    BY <1>1, <1>2 DEF Active
  <2> QED BY <1>2, <2>1 DEF Tracked, WaitingIsActive, StreamsOf
<1>6. SoloFollows'
  <2> SUFFICES ASSUME NEW e \in Session, NEW t \in StreamsOf(e),
                      \A u \in StreamsOf(e) \ {t} : pc'[u] = "new",
                      rec'[KeyOf[t]] # Absent
               PROVE  \/ push'[t] # Absent /\ push'[t].record = rec'[KeyOf[t]]
                      \/ /\ push'[t] = Absent /\ latest'[e] # Absent
                         /\ latest'[e].record = rec'[KeyOf[t]]
    BY DEF SoloFollows
  <2>1. CASE t = s
    BY <1>1, <2>1
  <2>2. CASE t # s
    <3>1. s \notin StreamsOf(e)
      BY <1>2, <2>2
    <3>2. KeyOf[t] # KeyOf[s] /\ KeyOf[t] \in Key
      BY <3>1 DEF StreamsOf
    <3>3. \A u \in StreamsOf(e) \ {t} : pc[u] = "new"
      BY <1>2, <3>1 DEF StreamsOf
    <3> QED BY <1>1, <1>2, <2>2, <3>2, <3>3 DEF Tracked, SoloFollows, StreamsOf
  <2> QED BY <2>1, <2>2
<1> QED BY <1>3, <1>4, <1>5, <1>6 DEF Tracked

\* A notification of progress comes from a stream that is still being read.
LEMMA ProgressIsRead ==
  ASSUME Tracked, TypeOK, NEW s \in Stream, push[s] # Absent,
         ~push[s].record.done
  PROVE  Reads(s)
BY DEF Tracked, NewIsSilent, EndedIsDone, Reads, TypeOK

\* A notification keeps Tracked.
LEMMA NotifyKeepsTracked ==
  ASSUME TypeOK, Tracked, NEW s \in Stream, Notify(s)
  PROVE  Tracked'
<1> USE TrackerAssumption
<1> DEFINE a == SessionOf[KeyOf[s]]
<1>1. /\ push[s] # Absent /\ push'[s] = Absent
      /\ \A t \in Stream \ {s} : push'[t] = push[t]
      /\ a \in Session /\ latest'[a] = push[s]
      /\ \A e \in Session \ {a} : latest'[e] = latest[e]
      /\ UNCHANGED <<pc, rec>>
  BY DEF TypeOK, Notify
<1>2. s \in StreamsOf(a) /\ \A e \in Session \ {a} : s \notin StreamsOf(e)
  BY DEF StreamsOf
<1> HIDE DEF a
<1>3. NewIsSilent' /\ EndedIsDone'
  BY <1>1 DEF Tracked, NewIsSilent, EndedIsDone
<1>4. OpenIsRead'
  BY <1>1 DEF Tracked, OpenIsRead, Reads
<1>5. WaitingIsActive'
  <2> SUFFICES ASSUME NEW e \in Session, latest'[e] # Absent,
                      ~latest'[e].record.done
               PROVE  \E t \in StreamsOf(e) : Active(t)'
    BY DEF WaitingIsActive, StreamsOf
  <2>1. CASE e = a
    <3>1. Reads(s)
      BY <1>1, <2>1, ProgressIsRead
    <3>2. Active(s)'
      BY <1>1, <3>1 DEF Reads, Active
    <3> QED BY <1>2, <2>1, <3>2
  <2>2. CASE e # a
    <3>1. PICK t \in StreamsOf(e) : Active(t)
      BY <1>1, <2>2 DEF Tracked, WaitingIsActive
    <3>2. t # s /\ t \in Stream
      BY <1>2, <2>2 DEF StreamsOf
    <3>3. Active(t)'
      BY <1>1, <3>1, <3>2 DEF Active
    <3> QED BY <3>3
  <2> QED BY <2>1, <2>2
<1>6. SoloFollows'
  <2> SUFFICES ASSUME NEW e \in Session, NEW t \in StreamsOf(e),
                      \A u \in StreamsOf(e) \ {t} : pc[u] = "new",
                      rec[KeyOf[t]] # Absent
               PROVE  \/ push'[t] # Absent /\ push'[t].record = rec[KeyOf[t]]
                      \/ /\ push'[t] = Absent /\ latest'[e] # Absent
                         /\ latest'[e].record = rec[KeyOf[t]]
    BY <1>1 DEF SoloFollows, StreamsOf
  <2>1. \/ push[t] # Absent /\ push[t].record = rec[KeyOf[t]]
        \/ /\ push[t] = Absent /\ latest[e] # Absent
           /\ latest[e].record = rec[KeyOf[t]]
    BY DEF Tracked, SoloFollows
  <2>2. CASE t = s
    <3>1. e = a
      BY <1>2, <2>2
    <3> QED BY <1>1, <2>1, <2>2, <3>1
  <2>3. CASE t # s
    \* A stream that has a push pending is not new.
    <3>1. e # a
      BY <1>1, <1>2, <2>3 DEF Tracked, NewIsSilent
    <3> QED BY <1>1, <2>1, <2>3, <3>1 DEF StreamsOf
  <2> QED BY <2>2, <2>3
<1> QED BY <1>3, <1>4, <1>5, <1>6 DEF Tracked

\* Every step keeps Tracked.
LEMMA TrackedStep == TypeOK /\ Tracked /\ [Next]_vars => Tracked'
<1> SUFFICES ASSUME TypeOK, Tracked, [Next]_vars PROVE Tracked'
  OBVIOUS
<1>1. ASSUME NEW s \in Stream, Write(s) PROVE Tracked'
  <2>1. CASE Open(s)
    <3>1. /\ pc[s] = "new" /\ pc'[s] = "reading"
          /\ \A t \in Stream \ {s} : pc'[t] = pc[t]
          /\ UNCHANGED <<push, rec, latest>>
      BY <2>1 DEF TypeOK, Open
    <3>2. \A t \in Stream : (Active(t) => Active(t)') /\ (Reads(t) => Reads(t)')
      BY <3>1 DEF Active, Reads
    <3>3. \A t \in Stream : pc'[t] = "new" => pc[t] = "new"
      BY <3>1
    <3>4. NewIsSilent' /\ EndedIsDone'
      BY <3>1 DEF Tracked, NewIsSilent, EndedIsDone
    <3>5. OpenIsRead' /\ WaitingIsActive'
      BY <3>1, <3>2 DEF Tracked, OpenIsRead, WaitingIsActive, StreamsOf
    <3>6. SoloFollows'
      BY <3>1, <3>3 DEF Tracked, SoloFollows, StreamsOf
    <3> QED BY <3>4, <3>5, <3>6 DEF Tracked
  <2> QED BY <1>1, <2>1, WritesStore, StoresKeepTracked
<1>2. ASSUME NEW s \in Stream, Notify(s) PROVE Tracked'
  BY <1>2, NotifyKeepsTracked
<1>3. ASSUME UNCHANGED <<pc, push, latest>>,
             \A k \in Key : rec'[k] \in {rec[k], Absent}
      PROVE  Tracked'
  <2>1. NewIsSilent' /\ EndedIsDone'
    BY <1>3 DEF Tracked, NewIsSilent, EndedIsDone
  <2>2. OpenIsRead' /\ WaitingIsActive'
    BY <1>3 DEF Tracked, OpenIsRead, WaitingIsActive, Active, Reads, StreamsOf
  <2>3. SoloFollows'
    BY <1>3, TrackerAssumption DEF Tracked, SoloFollows, StreamsOf
  <2> QED BY <2>1, <2>2, <2>3 DEF Tracked
<1>4. CASE Tick
  BY <1>3, <1>4 DEF Tick
<1>5. CASE EvictExpired
  <2>1. \A k \in Key : rec'[k] \in {rec[k], Absent}
    BY <1>5 DEF EvictExpired
  <2> QED BY <1>3, <1>5, <2>1 DEF EvictExpired
<1>6. CASE UNCHANGED vars
  BY <1>3, <1>6 DEF vars
<1> QED BY <1>1, <1>2, <1>4, <1>5, <1>6 DEF Next

\* Tracked is an invariant.
LEMMA TrackedCorrect == Spec => []Tracked
<1>1. Init => TypeOK /\ Tracked
  BY TypeInit, TrackedInit
<1>2. TypeOK /\ Tracked /\ [Next]_vars => (TypeOK /\ Tracked)'
  BY TypeStep, TrackedStep
<1> QED BY <1>1, <1>2, PTL DEF Spec

\* Once no stream of a session has anything more to write or to notify of, the
\* last push on it was a done one. (Update, MarkDone, Close)
THEOREM RestingSessionIsDoneCorrect == Spec => []RestingSessionIsDone
<1>1. Tracked => RestingSessionIsDone
  BY DEF Tracked, WaitingIsActive, RestingSessionIsDone
<1> QED BY <1>1, TrackedCorrect, PTL

\* A record no stream is writing to is done, and so has the shorter life.
\* (MarkDone, Close)
THEOREM RestingRecordIsDoneCorrect == Spec => []RestingRecordIsDone
<1>1. TypeOK /\ Tracked => RestingRecordIsDone
  <2> SUFFICES ASSUME TypeOK, Tracked, NEW k \in Key,
                      \A s \in Stream : KeyOf[s] = k => pc[s] \in {"new", "ended"},
                      rec[k] # Absent
               PROVE  rec[k].done /\ ~rec[k].started
    BY DEF RestingRecordIsDone
  <2>1. rec[k].done
    BY DEF Tracked, OpenIsRead, Reads
  <2>2. rec[k] \in Record
    BY DEF TypeOK
  <2> QED BY <2>1, <2>2 DEF Record
<1> QED BY <1>1, TypeCorrect, TrackedCorrect, PTL

\* What was last pushed on a session that has had one stream is its record,
\* except between the stream's write and its notification.
\* (Update, MarkDone)
THEOREM PushFollowsRecordCorrect == Spec => []PushFollowsRecord
<1>1. Tracked => PushFollowsRecord
  BY DEF Tracked, SoloFollows, PushFollowsRecord
<1> QED BY <1>1, TrackedCorrect, PTL

-----------------------------------------------------------------------------
(***************************************************************************)
(* The tracker within the composition.                                     *)
(***************************************************************************)

\* The composition takes the tracker's steps, or none.
LEMMA TrackerStep == [PushNext]_allVars => [Next]_vars
BY DEF PushNext, allVars, NotifyAll, Next

\* The tracker's invariants hold of the composition.
LEMMA TrackerHolds == PushSpec => [](TypeOK /\ Tracked)
<1>1. PushInit => TypeOK /\ Tracked
  BY TypeInit, TrackedInit DEF PushInit
<1>2. TypeOK /\ Tracked /\ [PushNext]_allVars => (TypeOK /\ Tracked)'
  BY TrackerStep, TypeStep, TrackedStep
<1> QED BY <1>1, <1>2, PTL DEF PushSpec

-----------------------------------------------------------------------------
(***************************************************************************)
(* The hub.                                                                *)
(***************************************************************************)

\* What is queued in a channel fits it.
LEMMA AppendFits ==
  ASSUME NEW q \in Seq(Message), Len(q) < SendCap, NEW m \in Message
  PROVE  Append(q, m) \in Seq(Message) /\ Len(Append(q, m)) <= SendCap
BY HubAssumption

\* What is broadcast on a notification is a message of the hub.
LEMMA NotifiesMessage ==
  ASSUME TypeOK, NEW s \in Stream, push[s] # Absent
  PROVE  MessageOf(s) \in Message
<1>1. push[s].record.done \in BOOLEAN
  BY DEF TypeOK, Push, Record
<1>2. SessionOf[KeyOf[s]] \in Session
  BY TrackerAssumption
<1> QED BY <1>1, <1>2, PushAssumption DEF MessageOf, PushMessage

\* A broadcast keeps the types of the hub.
LEMMA BroadcastTypes ==
  ASSUME HubTypeOK, NEW m \in Message, Broadcast(m)
  PROVE  HubTypeOK'
<1>1. ASSUME NEW c \in Client
      PROVE  /\ (IF c \in HasRoom THEN Append(send[c], m) ELSE send[c]) \in Seq(Message)
             /\ Len(IF c \in HasRoom THEN Append(send[c], m) ELSE send[c]) <= SendCap
  <2>1. send[c] \in Seq(Message) /\ Len(send[c]) <= SendCap
    BY DEF HubTypeOK
  <2>2. c \in HasRoom => Len(send[c]) < SendCap
    BY DEF HasRoom
  <2> QED BY <2>1, <2>2, AppendFits
<1>2. send' = [c \in Client |-> IF c \in HasRoom THEN Append(send[c], m) ELSE send[c]]
  BY DEF Broadcast
<1>3. send' \in [Client -> Seq(Message)] /\ \A c \in Client : Len(send'[c]) <= SendCap
  BY <1>1, <1>2
<1>4. lagged' \in [Client -> BOOLEAN]
  BY DEF Broadcast
<1> QED BY <1>3, <1>4 DEF HubTypeOK, Broadcast

\* Nobody is registered or has been told anything before it connected.
Unconnected ==
  \A c \in Client : conn[c] = "none" =>
    c \notin clients /\ \A e \in Session : heard[c][e] = "nothing"

HeardTypeOK == heard \in [Client -> [Session -> {"nothing", "progress", "done"}]]

Hub == HubTypeOK /\ HeardTypeOK /\ Unconnected

\* Hub holds initially.
LEMMA HubInitially == PushInit => Hub
<1> SUFFICES ASSUME PushInit PROVE Hub
  OBVIOUS
<1>1. <<>> \in Seq(Message) /\ Len(<<>>) <= SendCap
  BY HubAssumption
<1> QED BY <1>1 DEF PushInit, HubInit, Hub, HubTypeOK,
                    HeardTypeOK, Unconnected

\* A notification queues and records, and registers nobody.
LEMMA NotifyKeepsHub ==
  ASSUME TypeOK, Hub, NEW s \in Stream, NotifyAll(s)
  PROVE  Hub'
<1> DEFINE m == MessageOf(s)
<1>1. m \in Message /\ Broadcast(m) /\ m.session \in Session
  BY NotifiesMessage, TrackerAssumption DEF NotifyAll, Notify, MessageOf
<1>2. heard' = [c \in Client |->
        IF c \in HasRoom
        THEN [heard[c] EXCEPT ![m.session] = IF m.done THEN "done" ELSE "progress"]
        ELSE heard[c]]
  BY DEF NotifyAll
<1> HIDE DEF m
<1>3. HubTypeOK'
  BY <1>1, BroadcastTypes DEF Hub
<1>4. UNCHANGED <<clients, conn, reader>>
  BY <1>1 DEF Broadcast
<1>5. HeardTypeOK'
  BY <1>1, <1>2 DEF Hub, HeardTypeOK
<1>6. Unconnected'
  <2>1. \A c \in Client : c \notin clients => heard'[c] = heard[c]
    BY <1>2 DEF HasRoom
  <2> QED BY <1>4, <2>1 DEF Hub, Unconnected
<1> QED BY <1>3, <1>5, <1>6 DEF Hub

\* The hub's own steps keep Hub.
LEMMA HubStepKeepsHub ==
  ASSUME Hub, HubStep, heard' = heard
  PROVE  Hub'
<1> PICK c \in Client :
      Connect(c) \/ ReaderStep(c) \/ WritePump(c) \/ WriterDone(c) \/ PeerLeaves(c)
  BY DEF HubStep
<1>1. CASE WritePump(c)
  <2>1. send[c] \in Seq(Message) /\ send[c] # <<>> /\ Len(send[c]) <= SendCap
    BY <1>1 DEF Hub, HubTypeOK, WritePump
  <2>2. Tail(send[c]) \in Seq(Message) /\ Len(Tail(send[c])) <= SendCap
    BY <2>1, HubAssumption
  <2>3. send' = [send EXCEPT ![c] = Tail(@)]
    BY <1>1 DEF WritePump
  <2>4. send' \in [Client -> Seq(Message)]
        /\ \A d \in Client : Len(send'[d]) <= SendCap
    BY <2>2, <2>3 DEF Hub, HubTypeOK
  <2>5. writer' \in [Client -> {"none", "running", "ended"}]
    BY <1>1 DEF Hub, HubTypeOK, WritePump
  <2>6. UNCHANGED <<clients, conn, reader, lagged>>
    BY <1>1 DEF WritePump
  <2> QED BY <2>4, <2>5, <2>6
          DEF Hub, HubTypeOK, HeardTypeOK, Unconnected
<1>2. CASE Connect(c)
  <2>1. HubTypeOK'
    BY <1>2 DEF Hub, HubTypeOK, Connect
  <2>2. Unconnected'
    BY <1>2 DEF Hub, HubTypeOK, Unconnected, Connect
  <2> QED BY <2>1, <2>2 DEF Hub, HeardTypeOK
<1>3. CASE ReaderStep(c)
  <2>1. send' = send
    BY <1>3 DEF ReaderStep, Unregister, SignalDone, CloseConn
  <2>2. HubTypeOK'
    BY <1>3 DEF Hub, HubTypeOK, ReaderStep, Unregister,
                SignalDone, CloseConn
  <2>3. Unconnected'
    BY <1>3 DEF Hub, HubTypeOK, Unconnected, ReaderStep, Unregister,
                SignalDone, CloseConn
  <2> QED BY <2>2, <2>3 DEF Hub, HeardTypeOK
<1>4. CASE WriterDone(c) \/ PeerLeaves(c)
  <2>1. HubTypeOK'
    BY <1>4 DEF Hub, HubTypeOK, WriterDone, PeerLeaves
  <2>2. Unconnected'
    BY <1>4 DEF Hub, HubTypeOK, Unconnected, WriterDone, PeerLeaves
  <2> QED BY <2>1, <2>2 DEF Hub, HeardTypeOK
<1> QED BY <1>1, <1>2, <1>3, <1>4

\* Every step of the composition keeps Hub.
LEMMA HubNext == TypeOK /\ Hub /\ [PushNext]_allVars => Hub'
<1> SUFFICES ASSUME TypeOK, Hub, [PushNext]_allVars PROVE Hub'
  OBVIOUS
<1>1. CASE UNCHANGED <<hubVars, heard>>
  BY <1>1 DEF hubVars, Hub, HubTypeOK, HeardTypeOK, Unconnected
<1>2. ASSUME NEW s \in Stream, NotifyAll(s) PROVE Hub'
  BY <1>2, NotifyKeepsHub
<1>3. CASE HubStep /\ heard' = heard
  BY <1>3, HubStepKeepsHub
<1> QED BY <1>1, <1>2, <1>3 DEF PushNext, allVars

\* Hub is an invariant of the composition.
LEMMA HubHolds == PushSpec => []Hub
BY HubInitially, HubNext, TrackerHolds, PTL DEF PushSpec

\* The hub's variables keep their types: no channel is filled over its
\* capacity. (prefill_ws.go)
THEOREM HubTypeCorrect == PushSpec => []HubTypeOK
<1>1. Hub => HubTypeOK
  BY DEF Hub
<1> QED BY <1>1, HubHolds, PTL

-----------------------------------------------------------------------------
(***************************************************************************)
(* What the listeners are told.                                            *)
(***************************************************************************)

\* A listener left with a progress will hear more of the session.
HeardIsActive ==
  \A c \in clients, e \in Session :
    heard[c][e] = "progress" /\ ~lagged[c] => \E s \in StreamsOf(e) : Active(s)

\* A write leaves every stream active that was.
LEMMA WriteKeepsActive ==
  ASSUME TypeOK, NEW s \in Stream, Write(s)
  PROVE  \A t \in Stream : Active(t) => Active(t)'
<1>1. CASE Open(s)
  BY <1>1 DEF TypeOK, Open, Active
<1>2. ASSUME NEW r \in Record, Stores(s, r)
      PROVE  \A t \in Stream : Active(t) => Active(t)'
  <2>1. push'[s] # Absent /\ \A t \in Stream \ {s} : push'[t] = push[t]
    BY <1>2, StoreEffect DEF Stores
  <2>2. \A t \in Stream \ {s} : pc'[t] = pc[t]
    BY <1>2 DEF Stores
  <2> QED BY <2>1, <2>2 DEF Active
<1> QED BY <1>1, <1>2, WritesStore

\* HeardIsActive holds initially.
LEMMA HeardInitially == PushInit => HeardIsActive
BY DEF PushInit, HubInit, HeardIsActive

\* A notification of progress comes from a stream that goes on; one of done
\* reaches every registered client or makes it lag.
LEMMA NotifyKeepsHeard ==
  ASSUME TypeOK, Tracked, Hub, HeardIsActive, NEW s \in Stream, NotifyAll(s)
  PROVE  HeardIsActive'
<1> DEFINE a == SessionOf[KeyOf[s]]
           done == push[s].record.done
<1>1. /\ push[s] # Absent /\ push'[s] = Absent /\ pc' = pc
      /\ \A t \in Stream \ {s} : push'[t] = push[t]
  BY DEF NotifyAll, Notify, TypeOK
<1>2. a \in Session /\ s \in StreamsOf(a)
      /\ \A e \in Session \ {a} : s \notin StreamsOf(e)
  BY TrackerAssumption DEF StreamsOf
<1>3. heard' = [c \in Client |->
        IF c \in HasRoom
        THEN [heard[c] EXCEPT ![a] = IF done THEN "done" ELSE "progress"]
        ELSE heard[c]]
  BY DEF NotifyAll, MessageOf
<1>4. lagged' = [c \in Client |-> lagged[c] \/ c \in clients \ HasRoom]
      /\ clients' = clients
  BY DEF NotifyAll, Broadcast
<1> HIDE DEF a, done
<1> SUFFICES ASSUME NEW c \in clients, NEW e \in Session,
                    heard'[c][e] = "progress", ~lagged'[c]
             PROVE  \E t \in StreamsOf(e) : Active(t)'
  BY <1>4 DEF HeardIsActive, StreamsOf
<1>5. c \in Client /\ heard[c] \in [Session -> {"nothing", "progress", "done"}]
  BY DEF Hub, HubTypeOK, HeardTypeOK
<1>6. c \in HasRoom /\ ~lagged[c]
  BY <1>4, <1>5
<1>7. heard'[c] = [heard[c] EXCEPT ![a] = IF done THEN "done" ELSE "progress"]
  BY <1>3, <1>5, <1>6
<1>8. CASE e = a
  <2>1. ~done
    BY <1>2, <1>5, <1>7, <1>8
  <2>2. Reads(s)
    BY <1>1, <2>1, ProgressIsRead DEF done
  <2>3. Active(s)'
    BY <1>1, <2>2 DEF Reads, Active
  <2> QED BY <1>2, <1>8, <2>3
<1>9. CASE e # a
  <2>1. heard[c][e] = "progress"
    BY <1>5, <1>7, <1>9
  <2>2. PICK t \in StreamsOf(e) : Active(t)
    BY <1>6, <2>1 DEF HeardIsActive
  <2>3. t # s /\ t \in Stream
    BY <1>2, <1>9, <2>2 DEF StreamsOf
  <2>4. Active(t)'
    BY <1>1, <2>2, <2>3 DEF Active
  <2> QED BY <2>4
<1> QED BY <1>8, <1>9

\* Every step of the composition keeps HeardIsActive.
LEMMA HeardNext ==
  TypeOK /\ Tracked /\ Hub /\ HeardIsActive /\ [PushNext]_allVars => HeardIsActive'
<1> SUFFICES ASSUME TypeOK, Tracked, Hub, HeardIsActive, [PushNext]_allVars
             PROVE  HeardIsActive'
  OBVIOUS
\* A step that tells nobody and registers no client told before.
<1>1. ASSUME UNCHANGED <<heard, lagged>>,
             \A c \in clients' \ clients, e \in Session : heard[c][e] # "progress",
             \A t \in Stream : Active(t) => Active(t)'
      PROVE  HeardIsActive'
  <2> SUFFICES ASSUME NEW c \in clients', NEW e \in Session,
                      heard[c][e] = "progress", ~lagged[c]
               PROVE  \E t \in StreamsOf(e) : Active(t)'
    BY <1>1 DEF HeardIsActive, StreamsOf
  <2>1. c \in clients
    BY <1>1
  <2>2. PICK t \in StreamsOf(e) : Active(t)
    BY <2>1 DEF HeardIsActive
  <2> QED BY <1>1, <2>2 DEF StreamsOf
<1>2. ASSUME NEW s \in Stream, NotifyAll(s) PROVE HeardIsActive'
  BY <1>2, NotifyKeepsHeard
<1>3. ASSUME NEW s \in Stream, Write(s), UNCHANGED <<hubVars, heard>>
      PROVE  HeardIsActive'
  BY <1>1, <1>3, WriteKeepsActive DEF hubVars
<1>4. CASE (Tick \/ EvictExpired) /\ UNCHANGED <<hubVars, heard>>
  <2>1. \A t \in Stream : Active(t) => Active(t)'
    BY <1>4 DEF Tick, EvictExpired, Active
  <2> QED BY <1>1, <1>4, <2>1 DEF hubVars
<1>5. CASE HubStep /\ UNCHANGED <<vars, heard>>
  <2>1. \A t \in Stream : Active(t) => Active(t)'
    BY <1>5 DEF vars, Active
  <2>2. PICK c \in Client :
          Connect(c) \/ ReaderStep(c) \/ WritePump(c) \/ WriterDone(c) \/ PeerLeaves(c)
    BY <1>5 DEF HubStep
  <2>3. lagged' = lagged
    BY <2>2 DEF Connect, ReaderStep, Unregister, SignalDone, CloseConn,
                WritePump, WriterDone, PeerLeaves
  <2>4. \A d \in clients' \ clients : d = c /\ Connect(c)
    BY <2>2 DEF Connect, ReaderStep, Unregister, SignalDone, CloseConn,
                WritePump, WriterDone, PeerLeaves
  <2>5. \A d \in clients' \ clients, e \in Session : heard[d][e] # "progress"
    BY <2>4 DEF Connect, Hub, Unconnected
  <2> QED BY <1>1, <1>5, <2>1, <2>3, <2>5
<1>6. CASE UNCHANGED allVars
  <2>1. \A t \in Stream : Active(t) => Active(t)'
    BY <1>6 DEF allVars, vars, Active
  <2> QED BY <1>1, <1>6, <2>1 DEF allVars, hubVars
<1> QED BY <1>2, <1>3, <1>4, <1>5, <1>6 DEF PushNext

\* A connected listener is not left with a progress once the session is at
\* rest, unless a push to it was dropped.
\* (Update, MarkDone, broadcastJSON)
THEOREM ClientLearnsDoneCorrect == PushSpec => []ClientLearnsDone
<1>1. PushInit => HeardIsActive
  BY HeardInitially
<1>2. TypeOK /\ Tracked /\ Hub /\ HeardIsActive /\ [PushNext]_allVars
        => HeardIsActive'
  BY HeardNext
<1>3. HeardIsActive => ClientLearnsDone
  BY DEF HeardIsActive, ClientLearnsDone, AtRest
<1> QED BY <1>1, <1>2, <1>3, TrackerHolds, HubHolds, PTL DEF PushSpec
=============================================================================
