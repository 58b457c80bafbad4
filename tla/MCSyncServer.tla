---------------------------- MODULE MCSyncServer ----------------------------
(***************************************************************************)
(* SyncServer with a browser that reconnects under its client id (old and  *)
(* new share "tab"), an HTTP sync of it, and another browser.              *)
(***************************************************************************)
EXTENDS SyncServer

CONSTANTS old, new, other, post, tab, laptop

MCClientOf == [a \in Actor |-> IF a = other THEN laptop ELSE tab]
=============================================================================
