------------------------------ MODULE MergeLog ------------------------------
(***************************************************************************)
(* What the centralized session store promises, without requests, locks or *)
(* transactions.  Each space (a user and a scope) has a log of the rows    *)
(* that were ever current; the last one is what a reader gets.  A save     *)
(* publishes some earlier row overridden by what a client sent, and only   *)
(* when every attachment the client sent along is stored with it.          *)
(*                                                                         *)
(* A save that always starts from the last row would be a serial upsert;   *)
(* the store is free to start from an older one, which is what overlapping *)
(* syncs make it do.                                                       *)
(***************************************************************************)
EXTENDS Naturals, Sequences

CONSTANTS Space,             \* the (user, scope) pairs
          Delta,             \* what a client may upload
          Blob,              \* the attachments
          Uploads(_),        \* the attachments that come with an upload
          Override(_, _)     \* a row overridden by an upload, its attachments extracted

VARIABLES log,      \* log[s]: the rows of s, oldest first; the last is current
          kept      \* kept[s]: the attachments stored for s

vars == <<log, kept>>

EmptyRow == [x \in {} |-> x]

Init == /\ log = [s \in Space |-> <<EmptyRow>>]
        /\ kept = [s \in Space |-> {}]

\* The upload d is merged over the row that was current at position b.
Save(s, d, b) ==
  /\ log' = [log EXCEPT ![s] = Append(@, Override(@[b], d))]
  /\ kept' = [kept EXCEPT ![s] = @ \union Uploads(d)]

Next == \E s \in Space, d \in Delta : \E b \in 1..Len(log[s]) : Save(s, d, b)

Spec == Init /\ [][Next]_vars
=============================================================================
