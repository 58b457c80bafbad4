------------------------------ MODULE WebUiGate ------------------------------
(***************************************************************************)
(* The rewriting of a WebUI page (webui_inject.go) and how the injected    *)
(* script runs the page's own scripts in the end (runDeferredScripts of    *)
(* webui_bootstrap.js).  A page is a sequence of pieces: script elements,  *)
(* and the end of the head.                                                *)
(***************************************************************************)
EXTENDS Selection

NoType == ""                       \* a script element without a type
Deferred == "application/llama-sync-deferred"
HeadEnd == [piece |-> "head end"]

\* A script: its type, whether it has a src and is marked nomodule, what the
\* pattern for the type finds before the type, if anything (an attribute that
\* ends in "-type", or a "type=" in the src), and the marks of the rewriting.
Script(n, type, src, nomodule, other) ==
  [piece |-> "script", n |-> n, type |-> type, src |-> src, nomodule |-> nomodule,
   other |-> other, mark |-> "none", was |-> NoType]

\* The pieces of pages before they are rewritten, with texts from T.
Element(T) ==
  [piece : {"script"}, n : Nat, type : T, src : BOOLEAN, nomodule : BOOLEAN, other : T,
   mark : {"none"}, was : {NoType}]
Piece(T) == Element(T) \union {HeadEnd}

Bootstrap == [Script(0, NoType, FALSE, FALSE, NoType) EXCEPT !.mark = "bootstrap"]

\* Mutant: the original type is not kept.
MutantRewriteTag(s) ==
  IF s.mark # "none" THEN s ELSE [s EXCEPT !.type = Deferred, !.mark = "deferred"]

\* rewriteScriptTagsForSyncGate, one tag.  What the pattern for the type finds
\* first is taken for the type, and all that it finds is replaced.
RewriteTag(s) ==
  CASE s.mark # "none" -> s
    [] s.mark = "none" /\ s.other # NoType ->
         [s EXCEPT !.mark = "deferred", !.was = s.other, !.other = Deferred,
                   !.type = IF @ = NoType THEN @ ELSE Deferred]
    [] OTHER -> [s EXCEPT !.mark = "deferred", !.was = s.type, !.type = Deferred]

Rewrite(page) ==
  [i \in 1..Len(page) |-> IF page[i].piece = "script" THEN RewriteTag(page[i]) ELSE page[i]]

\* The place of the first end of a head, or 0.
EndOfHead(page) == SelectInSeq(page, LAMBDA x : x = HeadEnd)

\* injectWebUISync: a page of HTML from a model that is not known to run on
\* something else; a page without the end of a head is left alone.
Served(page, html, other) ==
  IF ~html \/ other \/ ~Contains(page, HeadEnd) THEN page
  ELSE InsertAt(Rewrite(page), EndOfHead(page), Bootstrap)

ScriptAt(page) == {i \in 1..Len(page) : page[i].piece = "script"}
Scripts(page) == Picked(page, ScriptAt(page))

JavaScript == {NoType, "text/javascript", "module"}

\* The scripts a browser runs: no data blocks, and of those marked nomodule
\* only modules.
Executable(s) == s.type \in JavaScript /\ (s.nomodule => s.type = "module")

\* The scripts a browser runs as it parses the page.
RunByParser(page) == Picked(page, {i \in ScriptAt(page) : Executable(page[i])})

\* A script that runDeferredScripts has put back.
Restored(s) == [n |-> s.n, type |-> s.was, src |-> s.src, nomodule |-> s.nomodule]

\* It waits for the load or error event of scripts with a src and of modules.
Awaits(s) == s.src \/ s.type = "module"

\* Such an event comes from a script that is run and has a src, and from an
\* inline module if the browser signals those.
Signalled(s, signals) == Executable(s) /\ (s.src \/ signals)

\* runDeferredScripts, with what is parsed of the page when it asks for the
\* scripts: they are put back, in order, up to one whose event never comes.
RunDeferred(parsed, signals) ==
  LET all == Picked(parsed, {i \in ScriptAt(parsed) : parsed[i].mark = "deferred"})
      stuck == SelectInSeq(all, LAMBDA s :
                 Awaits(Restored(s)) /\ ~Signalled(Restored(s), signals))
  IN [i \in 1..(IF stuck = 0 THEN Len(all) ELSE stuck) |-> Restored(all[i])]

-----------------------------------------------------------------------------
\* A script as it was in the page.
AsItWas(s) == [n |-> s.n, type |-> s.type, src |-> s.src, nomodule |-> s.nomodule]

\* A script that is awaited for ever: a data block or a script for old browsers
\* that has a src, or an inline module that the browser does not signal.
Silent(s, signals) ==
  \/ s.src /\ s.type \notin JavaScript
  \/ s.src /\ s.nomodule /\ s.type # "module"
  \/ ~s.src /\ s.type = "module" /\ ~signals

\* A page is held back by the bootstrap: it is the page with the bootstrap put
\* in at the end of the head, at n, whose scripts keep what runDeferredScripts
\* needs and are not run by the parser.
Gated(page, out, n) ==
  /\ n \in 1..Len(page) /\ page[n] = HeadEnd
  /\ out[n] = Bootstrap /\ Len(out) = Len(page) + 1
  /\ \A i \in 1..Len(page) :
       LET put == out[IF i < n THEN i ELSE i + 1] IN
       IF page[i].piece = "script"
       THEN /\ put.piece = "script" /\ put.mark = "deferred" /\ put.type \notin JavaScript
            /\ Restored(put) = AsItWas(page[i])
       ELSE put = page[i]
=============================================================================
