-------------------------- MODULE MCBackendGuesser --------------------------
(***************************************************************************)
(* BackendGuesser with a request for /sdcpp and one that asks for the type *)
(* of a llama.cpp model, next to a stable-diffusion model.                 *)
(***************************************************************************)
EXTENDS BackendGuesser

CONSTANTS image, chat, painter, writer

MCTypeOf == [m \in Model |-> IF m = painter THEN "sd" ELSE "llm"]
MCAsks == [r \in Request |-> IF r = chat THEN writer ELSE FindSD]
=============================================================================
