--------------------------- MODULE MCSessionStore ---------------------------
(***************************************************************************)
(* SessionStore on a small instance: three calls over two spaces, one      *)
(* localStorage key and two IndexedDB cells.                               *)
(***************************************************************************)
EXTENDS SessionStore, TLC

CONSTANTS k, c1, c2, v1, v2, b1

\* Plain writes, an overlapping pair, one blob behind two cells, a blob in
\* localStorage (never extracted) and a reference sent back by a browser.
MCPayload == {k :> v1, k :> v2,
              c1 :> v1, c1 :> b1, c1 :> b1 @@ c2 :> b1,
              k :> b1, c2 :> Ref(b1) @@ k :> v1}

RequestSymmetry == Permutations(Request)
=============================================================================
