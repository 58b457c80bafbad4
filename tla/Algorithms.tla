----------------------------- MODULE Algorithms -----------------------------
(***************************************************************************)
(* The sequential parts of the program: uploaded snapshots, event streams, *)
(* requests, pages and their names, the listing of models, macros, and     *)
(* GGUF files, each run on inputs from a set.  A behaviour takes one input *)
(* of one part; the invariants compare what the code makes of it with what *)
(* it should be.                                                           *)
(***************************************************************************)
EXTENDS MergeValue, SseReader, RequestRules, WebUiGate, Namespaces, OpenCode, Macros,
        GgufReader

CONSTANTS Texts,         \* texts, and the characters of names
          Snapshots,     \* IndexedDB snapshots that browsers upload
          Streams,       \* the characters of event streams
          MaxStream,     \* bound: the length of a stream
          Requests,      \* requests of clients
          Pages,         \* pages before they are rewritten
          Visits,        \* pages by user and model
          MacroSets,     \* macros
          Files,         \* GGUF files
          Defs           \* entries of llama-swap's configuration

ASSUME TextsAssumption ==
  {"true", Slash, Bar, "global", "model:", "sync", "ws"} \subseteq Texts
\* A key is unique in its store, in a browser.
ASSUME SnapshotsAssumption == \A s \in Snapshots : IsSnapshot(s, Texts) /\ KeysDiffer(s)
ASSUME MaxStreamAssumption == MaxStream \in Nat
ASSUME RequestsAssumption == Requests \subseteq Request(Texts)
ASSUME PagesAssumption == Pages \subseteq Seq(Piece(Texts))
ASSUME VisitsAssumption == Visits \subseteq Page(Texts)
ASSUME MacrosAssumption ==
  EnvName \union {"set"} \subseteq Texts /\ \A f \in MacroSets : IsMacros(f, Texts)
ASSUME FilesAssumption == \A f \in Files : IsFile(f, Texts)
ASSUME DefsAssumption ==
  \A defs \in Defs : /\ IsFiniteSet(DOMAIN defs)
                     /\ \A n \in DOMAIN defs : defs[n] \in Model(Texts)

VARIABLES part,   \* the part that is run
          input   \* what it is run on

vars == <<part, input>>

Init == part = "none" /\ input = <<>>

Take(p, i) == part' = p /\ input' = i

\* The row has one snapshot, a browser uploads the other.
TakeMerge == \E e, p \in Snapshots : Take("merge", [existing |-> e, incoming |-> p])

\* A stream comes in up to three chunks.
TakeStream ==
  \E s \in BoundedSeq(Streams, MaxStream) : \E m \in 0..Len(s) : \E n \in m..Len(s) :
    Take("stream", <<SubSeq(s, 1, m), SubSeq(s, m + 1, n), SubSeq(s, n + 1, Len(s))>>)

TakeRequest == \E r \in Requests, enabled \in BOOLEAN :
  \E llamaCpp \in SUBSET {"m1", "m2"} :
    Take("request", [req |-> r, enabled |-> enabled, llamaCpp |-> llamaCpp])

\* A page, of which at least the head is parsed when the scripts are asked for.
TakePage == \E p \in Pages : \E html, other, signals \in BOOLEAN :
  \E n \in EndOfHead(p)..Len(p) :
    Take("page", [page |-> p, html |-> html, other |-> other, signals |-> signals,
                  parsed |-> n])

TakeVisit == \E v \in Visits : Take("visit", v)

\* A configuration, with lists of types to include and to exclude.
TakeModels ==
  \E defs \in Defs : \E include, exclude \in SUBSET {"llm", "sd"} :
    Take("models", [defs |-> defs, include |-> include, exclude |-> exclude])

\* A command that is one macro, with some variables set.
TakeMacros == \E f \in MacroSets : \E S \in SUBSET EnvName : \E m \in DOMAIN f :
  Take("macros", [cmd |-> <<m>>, macros |-> f, env |-> [e \in S |-> <<"set">>]])

\* A file, cut off anywhere.
TakeFile == \E f \in Files : \E cut \in 0..FileSize(f) :
  Take("file", [file |-> f, cut |-> cut])

Next ==
  /\ part = "none"
  /\ \/ TakeMerge \/ TakeStream \/ TakeRequest \/ TakePage
     \/ TakeVisit \/ TakeModels \/ TakeMacros \/ TakeFile

Spec == Init /\ [][Next]_vars

-----------------------------------------------------------------------------
\* Syncing comes to rest: neither what a browser uploaded before, nor the
\* merged snapshot that it was sent back, changes the row when uploaded again;
\* and no record is doubled.  (mergeIndexedDB)
MergeSettles ==
  part = "merge" =>
    LET m == MergeIndexedDB(input.existing, input.incoming) IN
    /\ MergeIndexedDB(m, input.incoming) = m
    /\ MergeIndexedDB(m, m) = m
    /\ KeysDiffer(m)

\* SessionStore's picture of the merge is right: on leaves, the incoming ones
\* override the others, as long as both have objects at the same places.
\* (mergeIndexedDB)
MergeIsOverride ==
  part = "merge" /\ AgreeInShape(input.existing, input.incoming) =>
    Leaves(MergeIndexedDB(input.existing, input.incoming))
      = Overridden(Leaves(input.existing), Leaves(input.incoming))

\* However the network cuts a stream into chunks, the events read are those of
\* the stream: none doubled, joined or torn.  (feed)
EventsAreTheStreams ==
  part = "stream" => EventsRead(input) = EventsOf(FlattenSeq(input))

\* llama-swap gets the client's body, with a return_progress only where the
\* client asked for a stream and said nothing of it, and a length that is the
\* body's, if the client does not break off; only an integer beyond those of a
\* float64 need not be as it was, and only with a return_progress.
\* (maybeInjectReturnProgress, readJSONRequestBodyAsMap)
ForwardedAsSent ==
  part = "request" /\ ~input.req.cut =>
    AsSent(input.req, input.llamaCpp, input.enabled)

\* A stream that is tracked has progress to report: if its model runs on
\* llama.cpp, return_progress is what the client said or TRUE.  (two readings
\* of one body: maybeInjectReturnProgress, derivePrefillCorrelationFromRequest)
TrackedStreamsReport ==
  part = "request" /\ input.enabled => Reports(input.req, input.llamaCpp)

\* The page of the input as it is served, and whether it is rewritten (scripts
\* with another "type=" before their type are left aside).
ServedPage == Served(input.page, input.html, input.other)
IsRewritten ==
  ServedPage # input.page /\ \A i \in ScriptAt(input.page) : input.page[i].other = NoType

\* What runDeferredScripts puts back of the part that is parsed.
PutBack == RunDeferred(SubSeq(ServedPage, 1, input.parsed + 1), input.signals)

\* On a page that is rewritten, no script runs before the bootstrap; then those
\* that are parsed by the time the bootstrap asks for them are put back, each
\* once, in the order of the page, as they were, up to one that is awaited for
\* ever.  (rewriteScriptTagsForSyncGate, runDeferredScripts)
ScriptsRunInOrder ==
  part = "page" /\ IsRewritten =>
    LET all == Scripts(SubSeq(input.page, 1, input.parsed)) IN
    /\ Gated(input.page, ServedPage, EndOfHead(input.page))
    /\ RunByParser(ServedPage) = <<Bootstrap>>
    /\ \A i \in 1..Len(PutBack) : PutBack[i] = AsItWas(all[i])
    /\ Len(PutBack) = Len(all) \/ Silent(all[Len(PutBack)], input.signals)

\* A page's requests reach the row of its user and scope, and two pages share
\* a channel just if they share a row, which isolated pages do just if the
\* first segments of their models are the same; for users without slash and
\* bar.  (resolveUser, resolveScope, sessionChannelKey, apiBase)
PagesKeepToTheirRow ==
  part = "visit" /\ PlainUser(input.user) =>
    /\ ReachesItsRow(input, <<"sync">>)
    /\ \A v \in Visits :
         PlainUser(v.user) /\ v.isolate = input.isolate => SharesByRow(input, v)

\* In every order of the models the listing is the one of the readme's rules,
\* unless two models share a name; but a vision that --mmproj gives is listed
\* also if the metadata deny it, which by the readme they may.
\* (opencodeHandler)
ListingIsUnique ==
  part = "models" /\ NamesDiffer(input.defs) =>
    \A L \in Listings(input.defs, input.include, input.exclude) :
      IsListing(L, input.defs, input.include, input.exclude)

\* The order of Go's maps does not show: macros that nest less deep than there
\* are rounds, with variables whose values are literal, are expanded to the end,
\* and to the same end in every order.  (expandMacros)
ExpansionIsUnique ==
  part = "macros" /\ Acyclic(input.macros) /\ Literal(input.env, input.macros) =>
    Expansions(input.cmd, input.macros, input.env)
      = {Expanded(input.cmd, input.macros, input.env)}

\* A file is read for what it says or refused: a whole one gives its metadata,
\* unless it has a longer text than is read; one that is cut off anywhere, or
\* states lengths beyond its end, an error.  (readGGUFMeta)
HeaderIsReadOrRefused ==
  part = "file" =>
    LET file == input.file
        read == ReadMeta(file, input.cut)
        whole == input.cut = FileSize(file)
    IN /\ WellFormed(file) /\ (~whole \/ ~TextsFit(file)) => read.is = Failed
       /\ WellFormed(file) /\ whole /\ TextsFit(file) /\ ContextsFit(file) =>
            read = MetaOf(file)
       /\ Overstated(file) => read.is = Failed
=============================================================================
