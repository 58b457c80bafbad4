----------------------------- MODULE SyncServer -----------------------------
(***************************************************************************)
(* SyncServer and SessionNotifier (sync_api.go) for one (user, scope):     *)
(* WebSocket handlers (handleWS) with their writer goroutines, HTTP sync   *)
(* requests (handleSync), and the notifier's table of channels.            *)
(*                                                                         *)
(* The session store is its sequence of commits: a snapshot is the number  *)
(* of commits it was read or written at (what a commit keeps of earlier    *)
(* ones is the subject of SessionStore).  A channel is named by the        *)
(* connection whose handler created it, as each handler creates one.       *)
(***************************************************************************)
EXTENDS Naturals, Sequences

CONSTANTS Conn,      \* the WebSocket connections
          Post,      \* the HTTP sync requests
          ClientId,  \* the clientId parameters
          ClientOf,  \* the clientId each of them carries
          None,      \* no connection
          Note,      \* a message without a snapshot: an error or a pong
          Cap,       \* the capacity of a channel (8 in the code)
          MaxFrames  \* bound: frames the peers send

Actor == Conn \union Post

ASSUME ServerAssumption ==
  /\ Conn \intersect Post = {}
  /\ ClientOf \in [Actor -> ClientId]
  /\ None \notin Conn
  /\ Note \notin Nat
  /\ Cap \in Nat \ {0}
  /\ MaxFrames \in Nat

VARIABLES
  pc,        \* pc[a]: where the handler of a is
  out,       \* out[a]: the message it is about to send
  targets,   \* targets[a]: channels BroadcastSnapshot copied and has yet to try
  listeners, \* listeners[i]: whose channel the notifier lists for client id i
  chan,      \* chan[c]: the buffer of c's channel
  closed,    \* closed[c]: c's channel is closed
  writer,    \* writer[c]: c's writer goroutine
  peer,      \* peer[c]: the browser at the other end
  by,        \* by[v]: the client id that made commit v of the store
  frames,    \* frames received so far (for the bound)
  newest,    \* history: newest[c] is the newest snapshot put into c's channel
  missed,    \* history: missed[c] when a message for c was dropped or failed
  panicked   \* history: panicked[a] when a sent on a closed channel

vars == <<pc, out, targets, listeners, chan, closed, writer, peer, by, frames,
          newest, missed, panicked>>

notifier == <<listeners, closed>>
delivery == <<chan, newest, missed>>

\* The connections whose clientId no other connection carries.
Unique == {c \in Conn : \A d \in Conn \ {c} : ClientOf[d] # ClientOf[c]}

\* After Unsubscribe the handler only closes the socket and returns.
Over(c) == pc[c] \in {"close", "done"}

Init ==
  /\ pc = [a \in Actor |-> IF a \in Conn THEN "new" ELSE "merge"]
  /\ out = [a \in Actor |-> Note]
  /\ targets = [a \in Actor |-> {}]
  /\ listeners = [i \in ClientId |-> None]
  /\ chan = [c \in Conn |-> <<>>]
  /\ closed = [c \in Conn |-> FALSE]
  /\ writer = [c \in Conn |-> "none"]
  /\ peer = [c \in Conn |-> "up"]
  /\ by = <<>>
  /\ frames = 0
  /\ newest = [c \in Conn |-> 0]
  /\ missed = [c \in Conn |-> FALSE]
  /\ panicked = [a \in Actor |-> FALSE]

-----------------------------------------------------------------------------
(***************************************************************************)
(* select { case ch <- message: default: } on an open channel.             *)
(***************************************************************************)

\* Mutant: a plain send, which waits for room.
MutantOffer(c, m) ==
  /\ Len(chan[c]) < Cap
  /\ chan' = [chan EXCEPT ![c] = Append(@, m)]
  /\ newest' = [newest EXCEPT ![c] = IF m = Note \/ m < @ THEN @ ELSE m]
  /\ UNCHANGED missed

Offer(c, m) ==
  IF Len(chan[c]) < Cap
  THEN /\ chan' = [chan EXCEPT ![c] = Append(@, m)]
       /\ newest' = [newest EXCEPT ![c] = IF m = Note \/ m < @ THEN @ ELSE m]
       /\ UNCHANGED missed
  ELSE /\ missed' = [missed EXCEPT ![c] = @ \/ m # Note]
       /\ UNCHANGED <<chan, newest>>

\* A send on a closed channel panics: the deferred Unsubscribe and Close of a
\* WebSocket handler run, and net/http recovers.  Targets not yet tried are
\* never tried; after a panic of the echo, nobody is.
Panic(a) ==
  /\ panicked' = [panicked EXCEPT ![a] = TRUE]
  /\ missed' = [c \in Conn |-> missed[c] \/ c \in targets[a] \/ pc[a] = "echo"]
  /\ pc' = [pc EXCEPT ![a] = IF a \in Conn THEN "unsub" ELSE "done"]
  /\ targets' = [targets EXCEPT ![a] = {}]
  /\ UNCHANGED <<chan, newest>>

-----------------------------------------------------------------------------
(***************************************************************************)
(* handleWS.                                                               *)
(***************************************************************************)

\* Mutant: the greeting is read before the handler subscribes.
MutantSubscribe(c) ==
  /\ \/ /\ pc[c] = "new"
        /\ pc' = [pc EXCEPT ![c] = "late"]
        /\ out' = [out EXCEPT ![c] = Len(by)]
        /\ UNCHANGED <<listeners, writer>>
     \/ /\ pc[c] = "late"
        /\ listeners' = [listeners EXCEPT ![ClientOf[c]] = c]
        /\ writer' = [writer EXCEPT ![c] = "running"]
        /\ pc' = [pc EXCEPT ![c] = "reply"]
        /\ UNCHANGED out
  /\ UNCHANGED <<targets, closed, peer, by, frames, panicked, delivery>>

\* The handler lists its channel, over any channel listed for the same client
\* id, and starts the writer.
Subscribe(c) ==
  /\ pc[c] = "new"
  /\ listeners' = [listeners EXCEPT ![ClientOf[c]] = c]
  /\ writer' = [writer EXCEPT ![c] = "running"]
  /\ pc' = [pc EXCEPT ![c] = "read"]
  /\ UNCHANGED <<out, targets, closed, peer, by, frames, panicked, delivery>>

\* GetSnapshot, for the greeting or a get-snapshot frame; it may fail.
ReadSnapshot(c) ==
  /\ pc[c] = "read"
  /\ pc' = [pc EXCEPT ![c] = "reply"]
  /\ \/ /\ out' = [out EXCEPT ![c] = Len(by)]
        /\ UNCHANGED missed
     \/ /\ out' = [out EXCEPT ![c] = Note]
        /\ missed' = [missed EXCEPT ![c] = TRUE]
  /\ UNCHANGED <<targets, notifier, chan, writer, peer, by, frames, newest, panicked>>

\* The answer goes into the handler's own channel; then the next frame.
Reply(c) ==
  /\ pc[c] = "reply"
  /\ IF closed[c]
     THEN Panic(c)
     ELSE /\ Offer(c, out[c])
          /\ pc' = [pc EXCEPT ![c] = "loop"]
          /\ UNCHANGED <<targets, panicked>>
  /\ out' = [out EXCEPT ![c] = Note]
  /\ UNCHANGED <<notifier, writer, peer, by, frames>>

\* A frame: a sync with a payload, a get-snapshot, or a ping (or a sync
\* without payload), which is answered at once.
Receive(c) ==
  /\ pc[c] = "loop" /\ peer[c] = "up"
  /\ frames < MaxFrames
  /\ frames' = frames + 1
  /\ \E next \in {"merge", "read", "reply"} : pc' = [pc EXCEPT ![c] = next]
  /\ UNCHANGED <<out, targets, notifier, writer, peer, by, panicked, delivery>>

\* Receive fails: the peer is gone, or its frame is malformed or too large.
ReceiveError(c) ==
  /\ pc[c] = "loop"
  /\ \/ peer[c] = "gone" /\ UNCHANGED frames
     \/ peer[c] = "up" /\ frames < MaxFrames /\ frames' = frames + 1
  /\ pc' = [pc EXCEPT ![c] = "wait"]
  /\ UNCHANGED <<out, targets, notifier, writer, peer, by, panicked, delivery>>

\* <-writerDone.
AwaitWriter(c) ==
  /\ pc[c] = "wait" /\ writer[c] = "ended"
  /\ pc' = [pc EXCEPT ![c] = "unsub"]
  /\ UNCHANGED <<out, targets, notifier, writer, peer, by, frames, panicked, delivery>>

\* Mutant: the channel is closed but stays listed.
MutantUnsubscribe(c) ==
  LET d == listeners[ClientOf[c]] IN
  /\ pc[c] = "unsub"
  /\ closed' = IF d = None THEN closed ELSE [closed EXCEPT ![d] = TRUE]
  /\ pc' = [pc EXCEPT ![c] = "close"]
  /\ UNCHANGED <<out, targets, listeners, writer, peer, by, frames, panicked, delivery>>

\* Mutant: the key is deleted while other client ids are listed under it.
MutantUnsubscribeAll(c) ==
  LET d == listeners[ClientOf[c]] IN
  /\ pc[c] = "unsub"
  /\ listeners' = [i \in ClientId |-> None]
  /\ closed' = IF d = None THEN closed ELSE [closed EXCEPT ![d] = TRUE]
  /\ pc' = [pc EXCEPT ![c] = "close"]
  /\ UNCHANGED <<out, targets, writer, peer, by, frames, panicked, delivery>>

\* The deferred Unsubscribe removes and closes what is listed for the client
\* id, which need not be the handler's own channel.
Unsubscribe(c) ==
  LET d == listeners[ClientOf[c]] IN
  /\ pc[c] = "unsub"
  /\ listeners' = [listeners EXCEPT ![ClientOf[c]] = None]
  /\ closed' = IF d = None THEN closed ELSE [closed EXCEPT ![d] = TRUE]
  /\ pc' = [pc EXCEPT ![c] = "close"]
  /\ UNCHANGED <<out, targets, writer, peer, by, frames, panicked, delivery>>

\* The deferred ws.Close.
CloseSocket(c) ==
  /\ pc[c] = "close"
  /\ pc' = [pc EXCEPT ![c] = "done"]
  /\ UNCHANGED <<out, targets, notifier, writer, peer, by, frames, panicked, delivery>>

-----------------------------------------------------------------------------
(***************************************************************************)
(* A sync, over WebSocket or HTTP.                                         *)
(***************************************************************************)

\* Mutant: an HTTP sync is not announced.
MutantMerge(a) ==
  /\ pc[a] = "merge"
  /\ by' = Append(by, ClientOf[a])
  /\ out' = [out EXCEPT ![a] = Len(by) + 1]
  /\ pc' = [pc EXCEPT ![a] = IF a \in Conn THEN "echo" ELSE "done"]
  /\ UNCHANGED <<targets, notifier, writer, peer, frames, panicked, delivery>>

\* MergeAndSave commits, or fails (a WebSocket peer is told, an HTTP client
\* gets a 500).
Merge(a) ==
  /\ pc[a] = "merge"
  /\ \/ /\ by' = Append(by, ClientOf[a])
        /\ out' = [out EXCEPT ![a] = Len(by) + 1]
        /\ pc' = [pc EXCEPT ![a] = IF a \in Conn THEN "echo" ELSE "copy"]
     \/ /\ out' = [out EXCEPT ![a] = Note]
        /\ pc' = [pc EXCEPT ![a] = IF a \in Conn THEN "reply" ELSE "done"]
        /\ UNCHANGED by
  /\ UNCHANGED <<targets, notifier, writer, peer, frames, panicked, delivery>>

\* The merged snapshot goes back to the sender ...
Echo(c) ==
  /\ pc[c] = "echo"
  /\ IF closed[c]
     THEN Panic(c)
     ELSE /\ Offer(c, out[c])
          /\ pc' = [pc EXCEPT ![c] = "copy"]
          /\ UNCHANGED <<targets, panicked>>
  /\ UNCHANGED <<out, notifier, writer, peer, by, frames>>

\* Mutant: client ids that list no channel are not left out.
MutantCopyListeners(a) ==
  /\ pc[a] = "copy"
  /\ targets' = [targets EXCEPT ![a] =
       {listeners[i] : i \in ClientId \ {ClientOf[a]}}]
  /\ pc' = [pc EXCEPT ![a] = "fan"]
  /\ UNCHANGED <<out, notifier, writer, peer, by, frames, panicked, delivery>>

\* ... and to the channels listed for other client ids, which BroadcastSnapshot
\* copies under the lock
CopyListeners(a) ==
  /\ pc[a] = "copy"
  /\ targets' = [targets EXCEPT ![a] =
       {listeners[i] : i \in ClientId \ {ClientOf[a]}} \ {None}]
  /\ pc' = [pc EXCEPT ![a] = "fan"]
  /\ UNCHANGED <<out, notifier, writer, peer, by, frames, panicked, delivery>>

\* and tries one by one without it.
FanOut(a, t) ==
  /\ pc[a] = "fan" /\ t \in targets[a]
  /\ IF closed[t]
     THEN Panic(a)
     ELSE /\ Offer(t, out[a])
          /\ targets' = [targets EXCEPT ![a] = @ \ {t}]
          /\ UNCHANGED <<pc, panicked>>
  /\ UNCHANGED <<out, notifier, writer, peer, by, frames>>

\* All were tried: the next frame, or the HTTP response.
FanDone(a) ==
  /\ pc[a] = "fan" /\ targets[a] = {}
  /\ pc' = [pc EXCEPT ![a] = IF a \in Conn THEN "loop" ELSE "done"]
  /\ out' = [out EXCEPT ![a] = Note]
  /\ UNCHANGED <<targets, notifier, writer, peer, by, frames, panicked, delivery>>

-----------------------------------------------------------------------------
(***************************************************************************)
(* The writer goroutine of handleWS, and the peer.                         *)
(***************************************************************************)

\* A message is written; a socket whose peer is gone may still swallow it.
WriterSend(c) ==
  /\ writer[c] = "running" /\ chan[c] # <<>>
  /\ pc[c] # "done"
  /\ chan' = [chan EXCEPT ![c] = Tail(@)]
  /\ UNCHANGED <<pc, out, targets, notifier, writer, peer, by, frames,
                 newest, missed, panicked>>

\* The write fails: the peer is gone, or the handler has closed the socket.
WriterFail(c) ==
  /\ writer[c] = "running" /\ chan[c] # <<>>
  /\ peer[c] = "gone" \/ pc[c] = "done"
  /\ chan' = [chan EXCEPT ![c] = Tail(@)]
  /\ writer' = [writer EXCEPT ![c] = "ended"]
  /\ UNCHANGED <<pc, out, targets, notifier, peer, by, frames,
                 newest, missed, panicked>>

\* The channel is closed and drained.
WriterEnd(c) ==
  /\ writer[c] = "running" /\ chan[c] = <<>> /\ closed[c]
  /\ writer' = [writer EXCEPT ![c] = "ended"]
  /\ UNCHANGED <<pc, out, targets, notifier, peer, by, frames, panicked, delivery>>

\* The browser closes its page or loses its connection.
PeerLeaves(c) ==
  /\ pc[c] # "new" /\ peer[c] = "up"
  /\ peer' = [peer EXCEPT ![c] = "gone"]
  /\ UNCHANGED <<pc, out, targets, notifier, writer, by, frames, panicked, delivery>>

-----------------------------------------------------------------------------
\* What the handler of a does without waiting for anybody.
HandlerStep(a) ==
  \/ Merge(a) \/ CopyListeners(a) \/ FanDone(a)
  \/ \E t \in Conn : FanOut(a, t)
  \/ /\ a \in Conn
     /\ \/ ReadSnapshot(a) \/ Reply(a) \/ Echo(a)
        \/ AwaitWriter(a) \/ Unsubscribe(a) \/ CloseSocket(a)

WriterStep(c) == WriterSend(c) \/ WriterFail(c) \/ WriterEnd(c)

PeerStep(c) ==
  Subscribe(c) \/ Receive(c) \/ ReceiveError(c) \/ PeerLeaves(c)

Next == \/ \E a \in Actor : HandlerStep(a)
        \/ \E c \in Conn : WriterStep(c) \/ PeerStep(c)

\* Go runs every goroutine that can run.  On a connection whose peer is gone
\* or that the handler has closed, reads fail and writes do not block.
\* Nothing makes a live peer send, read what is written to it, or leave.
Fairness ==
  /\ \A a \in Actor : WF_vars(HandlerStep(a))
  /\ \A c \in Conn :
       /\ WF_vars(peer[c] = "gone" /\ ReceiveError(c))
       /\ WF_vars((peer[c] = "gone" \/ pc[c] = "done") /\ WriterStep(c))
       /\ WF_vars(WriterEnd(c))

Spec == Init /\ [][Next]_vars
FairSpec == Spec /\ Fairness

-----------------------------------------------------------------------------
TypeOK ==
  /\ pc \in [Actor -> {"new", "read", "reply", "loop", "merge", "echo", "copy",
                       "fan", "wait", "unsub", "close", "done"}]
  /\ out \in [Actor -> Nat \union {Note}]
  /\ targets \in [Actor -> SUBSET Conn]
  /\ listeners \in [ClientId -> Conn \union {None}]
  /\ chan \in [Conn -> Seq(Nat \union {Note})]
  /\ closed \in [Conn -> BOOLEAN]
  /\ writer \in [Conn -> {"none", "running", "ended"}]
  /\ peer \in [Conn -> {"up", "gone"}]
  /\ by \in Seq(ClientId)
  /\ frames \in 0..MaxFrames
  /\ newest \in [Conn -> Nat]
  /\ missed \in [Conn -> BOOLEAN]
  /\ panicked \in [Actor -> BOOLEAN]

\* A listed channel is open and its handler has yet to unsubscribe, so no
\* channel is closed twice, even when a reconnecting browser reuses its client
\* id and one handler unsubscribes the channel of another.
\* (Subscribe, Unsubscribe)
ListedIsOpen ==
  \A i \in ClientId : LET c == listeners[i] IN
    c # None => ~closed[c] /\ ~Over(c) /\ ClientOf[c] = i

\* A connection whose client id no other connection reuses stays listed from
\* its subscription to its own Unsubscribe, so its handler never panics on its
\* own channel. (handleWS)
UniqueStaysListed ==
  \A c \in Unique :
    pc[c] # "new" /\ ~Over(c) => listeners[ClientOf[c]] = c /\ ~closed[c]

\* The syncs that have committed and not yet told everybody.
Announcing == {a \in Actor : pc[a] \in {"echo", "copy", "fan"}}

\* When no sync is under way, a listening connection has been sent a snapshot
\* at least as new as every commit of another client id, unless a message for
\* it was dropped, failed or lost to a panic: between its Subscribe and its
\* first GetSnapshot, and between a commit and its broadcast, no commit falls
\* through. (handleWS, BroadcastSnapshot)
NoCommitMissed ==
  Announcing = {} =>
    \A c \in Conn :
      pc[c] = "loop" /\ listeners[ClientOf[c]] = c /\ ~missed[c] =>
        \A v \in 1..Len(by) : by[v] # ClientOf[c] => newest[c] >= v

\* Whatever its peers do, a sync ends: slow or dead listeners never block the
\* handler that commits and announces. (BroadcastSnapshot's select/default)
SyncReturns ==
  \A a \in Actor :
    pc[a] \in {"merge", "echo", "copy", "fan"} ~>
      pc[a] \in {"loop", "reply", "unsub", "done"}

\* "fan out to other clients" (sync_api.go, above BroadcastSnapshot's call in
\* handleWS): a sync of a connection with a client id of its own gets to every
\* listener.
FanOutCompletes == \A a \in Unique \union Post : ~panicked[a]

\* "Opens WebSocket notifications for near-real-time refresh" (readme.md): a
\* connected browser that is being served is listed for notifications, unless
\* a newer connection of the same browser is.
ConnectedIsListed ==
  \A c \in Conn :
    pc[c] = "loop" /\ peer[c] = "up" => listeners[ClientOf[c]] # None
=============================================================================
