-------------------------- MODULE MCPrefillTracker --------------------------
(***************************************************************************)
(* PrefillTracker with a message that is retried: two streams of one key.  *)
(* (Two messages of one session are in MCPrefillPush.)                     *)
(***************************************************************************)
EXTENDS PrefillTracker

CONSTANTS first, retry, a1, a

MCKeyOf == [s \in Stream |-> a1]
MCSessionOf == [k \in Key |-> a]

\* A start signal, progress, and the end of a prompt of two tokens,
\* and a prompt that is in the cache as a whole.
Ev(t, c, p) == [total |-> t, cache |-> c, processed |-> p]
MCEvent == {Ev(2, 0, 0), Ev(2, 0, 1), Ev(2, 0, 2), Ev(2, 2, 2)}
=============================================================================
