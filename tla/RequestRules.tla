---------------------------- MODULE RequestRules ----------------------------
(***************************************************************************)
(* What becomes of a request on its way to llama-swap (main.go,            *)
(* return_progress.go, request_model.go, prefill_progress.go): the         *)
(* injection of return_progress, and the correlation for the tracker.      *)
(*                                                                         *)
(* A request states the length of its body and has bytes of it; one whose  *)
(* client breaks off (cut) has fewer.  A body is Raw or a JSON object.     *)
(* One field of the object is a number, which passes through a float64     *)
(* when the object is marshalled anew.                                     *)
(***************************************************************************)
EXTENDS Integers

CONSTANTS Exact,    \* 2^53: the integers up to here are float64s
          Grown     \* the bytes that return_progress adds to a body

ASSUME RulesAssumption == {Exact, Grown} \subseteq Nat \ {0}

None == "none"                    \* no such field, header, or model
Raw == [json |-> FALSE]           \* no JSON object

\* Requests with texts from T: one that breaks off has fewer bytes than stated.
Ids(T) == [session : T, message : T]
Body(T) == {Raw} \union
  [json : {TRUE}, stream : T, return_progress : T, model : T, number : Nat, headers : Ids(T)]
Request(T) ==
  {r \in [route : {"upstream", "other"}, segment : T, body : Body(T), length : Nat,
          bytes : Nat, cut : BOOLEAN, header : Ids(T)]
     : IF r.cut THEN r.bytes < r.length ELSE r.bytes = r.length}

\* An integer as a float64 (from Exact to 2 * Exact, every other one is).
Float(n) == IF n > Exact THEN 2 * (n \div 2) ELSE n

\* resolveRequestModelID: the field of the body, else the /upstream/ segment.
ModelOf(req) ==
  IF req.body.model # None THEN req.body.model
  ELSE IF req.route = "upstream" THEN req.segment ELSE None

\* The whole body is read and put back; of one that breaks off, what there is.
ReadAll(req) ==
  IF req.cut THEN [req EXCEPT !.body = Raw, !.cut = FALSE] ELSE req

\* Mutant: an explicit false is not respected.
MutantInjectable(req) ==
  req.body.json /\ req.body.stream = "true" /\ req.body.return_progress # "true"

\* The body asks for a stream and leaves return_progress to the proxy.
Injectable(req) ==
  req.body.json /\ req.body.stream = "true" /\ req.body.return_progress = None

\* maybeInjectReturnProgress; llamaCpp: the models known to run on llama.cpp.
Inject(client, llamaCpp) ==
  LET req == ReadAll(client) IN
  IF Injectable(req) /\ ModelOf(req) \in llamaCpp
  THEN [req EXCEPT !.body.return_progress = "true", !.body.number = Float(@),
                   !.bytes = @ + Grown, !.length = req.bytes + Grown]
  ELSE req

\* readJSONRequestBodyAsMap: the length becomes that of what there is.
Reread(req) == [ReadAll(req) EXCEPT !.length = req.bytes]

\* The handler of "/" and the director of its proxy, for requests that are not
\* sent to a Stable Diffusion server (those are in BackendGuesser).
Forwarded(req, llamaCpp, enabled) ==
  IF req.route = "upstream" THEN req
  ELSE Reread(IF enabled THEN Inject(req, llamaCpp) ELSE req)

\* An id of a request: the header, else the entry of the body's "headers".
IdOf(req, id) ==
  IF req.header[id] # None THEN req.header[id]
  ELSE IF req.body.json THEN req.body.headers[id] ELSE None

\* Mutant: stream is not looked at.
MutantCorrelated(req) ==
  req.body.json /\ IdOf(req, "session") # None /\ IdOf(req, "message") # None

\* derivePrefillCorrelationFromRequest: a stream with both ids.
Correlated(req) ==
  /\ req.body.json /\ req.body.stream = "true"
  /\ IdOf(req, "session") # None /\ IdOf(req, "message") # None

\* ModifyResponse: the event stream that answers it is tracked.
Tracked(req, contentType) ==
  req.route # "upstream" /\ Correlated(req) /\ contentType = "text/event-stream"

-----------------------------------------------------------------------------
\* The body of a request arrives as it was sent, but for a return_progress
\* where the client asked for a stream and said nothing of it, then with some
\* number for one that a float64 may not hold, and has the length that is stated.
AsSent(req, llamaCpp, enabled) ==
  LET out == Forwarded(req, llamaCpp, enabled)
      sent == req.body
  IN /\ out.length = out.bytes
     /\ \/ out.body = sent /\ out.bytes = req.bytes
        \/ /\ sent.json /\ sent.stream = "true" /\ sent.return_progress = None
           /\ out.body = [sent EXCEPT !.return_progress = "true",
                            !.number = IF @ <= Exact THEN @ ELSE out.body.number]

\* If the answer to a request is tracked, and its model runs on llama.cpp, it
\* has a return_progress.
Reports(req, llamaCpp) ==
  LET out == Forwarded(req, llamaCpp, TRUE) IN
  Tracked(out, "text/event-stream") /\ out.body.model \in llamaCpp =>
    out.body.return_progress # None
=============================================================================
