--------------------------- MODULE MCPrefillPush ----------------------------
(***************************************************************************)
(* PrefillPush with two messages of one session and a client.               *)
(***************************************************************************)
EXTENDS PrefillPush

CONSTANTS first, second, a1, a2, a

MCKeyOf == [s \in Stream |-> IF s = first THEN a1 ELSE a2]
MCSessionOf == [k \in Key |-> a]
MCEvent == {[total |-> 2, cache |-> 0, processed |-> 1]}
=============================================================================
