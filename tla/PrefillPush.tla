---------------------------- MODULE PrefillPush -----------------------------
(***************************************************************************)
(* The tracker wired to the hub (SetNotifyFunc in main.go): a notification *)
(* broadcasts in the goroutine that reads the stream, a full push or, for  *)
(* a done record, a short done signal.                                     *)
(***************************************************************************)
EXTENDS PrefillTracker, PrefillHub

VARIABLE heard  \* history: heard[c][e]: the last push on session e queued for c

allVars == <<vars, hubVars, heard>>

\* The messages that reach the listeners: the session, and whether it is done.
\* (Their numbers are the record's and decide nothing here.)
PushMessage == [session : Session, done : BOOLEAN]

ASSUME PushAssumption == PushMessage \subseteq Message

MessageOf(s) == [session |-> SessionOf[KeyOf[s]], done |-> push[s].record.done]

PushInit == Init /\ HubInit /\ heard = [c \in Client |-> [e \in Session |-> "nothing"]]

\* notifyFn runs to its end before the stream is read on.
NotifyAll(s) ==
  /\ Notify(s)
  /\ LET m == MessageOf(s) IN
     /\ Broadcast(m)
     /\ heard' = [c \in Client |->
          IF c \in HasRoom
          THEN [heard[c] EXCEPT ![m.session] = IF m.done THEN "done" ELSE "progress"]
          ELSE heard[c]]

PushNext ==
  \/ \E s \in Stream : NotifyAll(s)
  \/ \E s \in Stream : Write(s) /\ UNCHANGED <<hubVars, heard>>
  \/ Tick /\ UNCHANGED <<hubVars, heard>>
  \/ EvictExpired /\ UNCHANGED <<hubVars, heard>>
  \/ HubStep /\ UNCHANGED <<vars, heard>>

PushSpec == PushInit /\ [][PushNext]_allVars

\* The stream's goroutine goes on; the pumps are as in HubFairness.
PushFairness == /\ \A s \in Stream : WF_allVars(NotifyAll(s))
                /\ HubFairness
FairPushSpec == PushSpec /\ PushFairness

-----------------------------------------------------------------------------
AtRest(e) == \A s \in StreamsOf(e) : ~Active(s)

\* However the streams of a session interleave and end, and whenever a client
\* connects, the last push on the session that was queued for a connected
\* client is, once the session is at rest, a done signal, unless a push to
\* that client was dropped. (Update, MarkDone, Broadcast, BroadcastDone)
ClientLearnsDone ==
  \A c \in clients, e \in Session :
    AtRest(e) /\ ~lagged[c] => heard[c][e] # "progress"

\* Clients that neither read nor leave do not hold up a stream: its
\* notification returns. (broadcastJSON's select/default)
StreamGoesOn == \A s \in Stream : push[s] # Absent ~> push[s] = Absent
=============================================================================
