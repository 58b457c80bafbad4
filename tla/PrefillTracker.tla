--------------------------- MODULE PrefillTracker ---------------------------
(***************************************************************************)
(* PrefillProgressTracker (prefill_progress.go) and the response bodies    *)
(* wrapped by prefillTrackingReadCloser that feed it.  A tracked stream is *)
(* a streaming completion whose request names a session and a message; it  *)
(* is read by one goroutine.  An SSE event writes the record of the key    *)
(* under the lock and then, outside of any lock, notifies: other streams,  *)
(* of the same key or session, may act in between.  A push to the          *)
(* listeners names the session only.                                       *)
(***************************************************************************)
EXTENDS Naturals

CONSTANTS Stream,     \* the tracked streams
          Key,        \* (session, message) pairs
          KeyOf,      \* the key of each stream
          Session,    \* the sessions
          SessionOf,  \* the session of each key
          Event,      \* prompt_progress objects: [total, cache, processed]
          Absent,     \* no record, no push
          TTL,        \* age over which a record is evicted (180 s)
          DoneTTL,    \* the same for a done record (30 s)
          MaxEvents   \* bound: events of one stream

ASSUME TrackerAssumption ==
  /\ KeyOf \in [Stream -> Key]
  /\ SessionOf \in [Key -> Session]
  /\ Event \subseteq [total : Nat, cache : Nat, processed : Nat]
  /\ TTL \in Nat /\ DoneTTL \in Nat /\ MaxEvents \in Nat
  /\ DoneTTL <= TTL

VARIABLES
  pc,      \* pc[s]: "new", "reading", "eof" (read to its end), "ended" (closed)
  push,    \* push[s]: the record s has written and not yet notified of
  events,  \* events[s]: events read (for the bound)
  rec,     \* rec[k]: the record of key k
  age,     \* age[k]: time since its UpdatedAt
  latest   \* latest[e]: the last push that named session e

vars == <<pc, push, events, rec, age, latest>>

\* A record is never both under way and done.
Record == {r \in [total : Nat, cache : Nat, processed : Nat,
                  started : BOOLEAN, done : BOOLEAN] : ~(r.started /\ r.done)}
Push == [key : Key, record : Record]

ASSUME AbsentAssumption == Absent \notin Record \union Push

\* A map read of a key that is not there yields the zero record.
ZeroRecord == [total |-> 0, cache |-> 0, processed |-> 0,
               started |-> FALSE, done |-> FALSE]
Current(k) == IF rec[k] = Absent THEN ZeroRecord ELSE rec[k]

Init ==
  /\ pc = [s \in Stream |-> "new"]
  /\ push = [s \in Stream |-> Absent]
  /\ events = [s \in Stream |-> 0]
  /\ rec = [k \in Key |-> Absent]
  /\ age = [k \in Key |-> 0]
  /\ latest = [e \in Session |-> Absent]

-----------------------------------------------------------------------------
(***************************************************************************)
(* Update and MarkDone.                                                    *)
(***************************************************************************)

IsDone(e) == e.total > 0 /\ e.processed >= e.total
IsStartSignal(e) == e.processed = e.cache /\ ~IsDone(e)

\* The record after Update: both of its branches store the numbers.
Updated(e) == [total |-> e.total, cache |-> e.cache, processed |-> e.processed,
               started |-> ~IsDone(e), done |-> IsDone(e)]

\* Mutant: a done record keeps its started flag.
MutantMarkedDone(k) == [Current(k) EXCEPT !.done = TRUE]

\* The record after MarkDone.
MarkedDone(k) == [Current(k) EXCEPT !.done = TRUE, !.started = FALSE]

\* Mutant: the notification carries the record that was overwritten.
MutantStore(s, r) ==
  /\ rec' = [rec EXCEPT ![KeyOf[s]] = r]
  /\ age' = [age EXCEPT ![KeyOf[s]] = 0]
  /\ push' = [push EXCEPT ![s] = [key |-> KeyOf[s], record |-> Current(KeyOf[s])]]

\* Stream s stores record r under its key and has yet to notify of it.
Store(s, r) ==
  /\ rec' = [rec EXCEPT ![KeyOf[s]] = r]
  /\ age' = [age EXCEPT ![KeyOf[s]] = 0]
  /\ push' = [push EXCEPT ![s] = [key |-> KeyOf[s], record |-> r]]

-----------------------------------------------------------------------------
(***************************************************************************)
(* A stream.                                                               *)
(***************************************************************************)

\* ModifyResponse wraps the body of an event-stream response.
Open(s) ==
  /\ pc[s] = "new"
  /\ pc' = [pc EXCEPT ![s] = "reading"]
  /\ UNCHANGED <<push, events, rec, age, latest>>

\* Read returns a chunk that completes an event with prompt_progress ...
Update(s, e) ==
  /\ pc[s] = "reading" /\ push[s] = Absent
  /\ events[s] < MaxEvents
  /\ events' = [events EXCEPT ![s] = @ + 1]
  /\ Store(s, Updated(e))
  /\ UNCHANGED <<pc, latest>>

\* ... or the event [DONE].
DoneEvent(s) ==
  /\ pc[s] = "reading" /\ push[s] = Absent
  /\ events[s] < MaxEvents
  /\ events' = [events EXCEPT ![s] = @ + 1]
  /\ Store(s, MarkedDone(KeyOf[s]))
  /\ UNCHANGED <<pc, latest>>

\* Read returns io.EOF.
Eof(s) ==
  /\ pc[s] = "reading" /\ push[s] = Absent
  /\ pc' = [pc EXCEPT ![s] = "eof"]
  /\ Store(s, MarkedDone(KeyOf[s]))
  /\ UNCHANGED <<events, latest>>

\* Mutant: only a body read to its end is marked done.
MutantClose(s) ==
  /\ pc[s] \in {"reading", "eof"} /\ push[s] = Absent
  /\ pc' = [pc EXCEPT ![s] = "ended"]
  /\ UNCHANGED <<push, rec, age, events, latest>>

\* The reverse proxy closes the body, at its end or when the client or the
\* upstream is gone.
Close(s) ==
  /\ pc[s] \in {"reading", "eof"} /\ push[s] = Absent
  /\ pc' = [pc EXCEPT ![s] = "ended"]
  /\ Store(s, MarkedDone(KeyOf[s]))
  /\ UNCHANGED <<events, latest>>

\* notifyFn, called after the lock is released.
Notify(s) ==
  /\ push[s] # Absent
  /\ latest' = [latest EXCEPT ![SessionOf[KeyOf[s]]] = push[s]]
  /\ push' = [push EXCEPT ![s] = Absent]
  /\ UNCHANGED <<pc, events, rec, age>>

-----------------------------------------------------------------------------
\* Time passes.
Tick ==
  /\ \E k \in Key : rec[k] # Absent /\ age[k] <= TTL
  /\ age' = [k \in Key |-> IF rec[k] # Absent /\ age[k] <= TTL
                           THEN age[k] + 1 ELSE age[k]]
  /\ UNCHANGED <<pc, push, events, rec, latest>>

\* Mutant: a done record has no limit.
MutantExpired(k) == rec[k] # Absent /\ ~rec[k].done /\ age[k] > TTL

\* Older than the limit that applies.
Expired(k) ==
  /\ rec[k] # Absent
  /\ age[k] > TTL \/ (rec[k].done /\ age[k] > DoneTTL)

\* The janitor, every 15 seconds.
EvictExpired ==
  /\ \E k \in Key : Expired(k)
  /\ rec' = [k \in Key |-> IF Expired(k) THEN Absent ELSE rec[k]]
  /\ age' = [k \in Key |-> IF Expired(k) THEN 0 ELSE age[k]]
  /\ UNCHANGED <<pc, push, events, latest>>

-----------------------------------------------------------------------------
Write(s) == \/ Open(s) \/ DoneEvent(s) \/ Eof(s) \/ Close(s)
            \/ \E e \in Event : Update(s, e)

Next == \/ \E s \in Stream : Write(s) \/ Notify(s)
        \/ Tick \/ EvictExpired

Spec == Init /\ [][Next]_vars

\* A goroutine that has written its record goes on to notify, time passes and
\* the janitor's ticker fires.  Nothing makes an upstream send or end.
Fairness == /\ \A s \in Stream : WF_vars(Notify(s))
            /\ WF_vars(Tick) /\ WF_vars(EvictExpired)
FairSpec == Spec /\ Fairness

-----------------------------------------------------------------------------
TypeOK ==
  /\ pc \in [Stream -> {"new", "reading", "eof", "ended"}]
  /\ push \in [Stream -> Push \union {Absent}]
  /\ events \in [Stream -> 0..MaxEvents]
  /\ rec \in [Key -> Record \union {Absent}]
  /\ age \in [Key -> 0..TTL + 1]
  /\ latest \in [Session -> Push \union {Absent}]

Active(s) == pc[s] \in {"reading", "eof"} \/ push[s] # Absent
StreamsOf(e) == {s \in Stream : SessionOf[KeyOf[s]] = e}

\* A session at rest has been pushed a final done: however streams of one
\* session, or of one key, interleave their writes and their notifications,
\* and however they end, the last push is not a progress that would leave the
\* listeners waiting. (Update, MarkDone, Close)
RestingSessionIsDone ==
  \A e \in Session :
    (\A s \in StreamsOf(e) : ~Active(s)) /\ latest[e] # Absent
      => latest[e].record.done

\* No stream at rest leaves an open record: it would never be evicted by the
\* shorter limit. (MarkDone, Close)
RestingRecordIsDone ==
  \A k \in Key :
    (\A s \in Stream : KeyOf[s] = k => pc[s] \in {"new", "ended"})
      => rec[k] = Absent \/ (rec[k].done /\ ~rec[k].started)

\* While a session has had a single stream, what was last pushed is what the
\* record says, except between the stream's write and its notification.
\* (Update and MarkDone notify with the record they stored)
PushFollowsRecord ==
  \A e \in Session : \A s \in StreamsOf(e) :
    /\ \A t \in StreamsOf(e) \ {s} : pc[t] = "new"
    /\ push[s] = Absent /\ rec[KeyOf[s]] # Absent
    => latest[e] # Absent /\ latest[e].record = rec[KeyOf[s]]

\* The table does not leak: a record no stream is writing to goes away.
\* (evictExpired)
RecordsGoAway ==
  \A k \in Key :
    rec[k] # Absent ~> \/ rec[k] = Absent
                       \/ \E s \in Stream : KeyOf[s] = k /\ pc[s] \in {"reading", "eof"}
=============================================================================
