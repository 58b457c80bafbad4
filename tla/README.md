# TLA+ verification of llama-swap-proxy

llama-swap-proxy is one Go process between browsers (or opencode) and a
[llama-swap](https://github.com/mostlygeek/llama-swap) instance. Most of it
forwards requests; what it keeps itself is shared by many goroutines and by the
script it puts into WebUI pages, and this directory models that part: the
session store and its notifications, the script at the other end, the prefill
progress, and the cache that routes requests. The sequential parts (merging,
parsing, rewriting) are functions that are checked against references.

Check a module with `tlc -config X.cfg M` (the table of runs below names both)
and a proof with `tlapm M.tla`.

## Inventory

| Component | State | Operations | Interacts with | Hard behaviour |
| --- | --- | --- | --- | --- |
| **SessionStore** (`sync_store.go`) | SQLite tables `session_states`, `attachments` | `GetSnapshot`, `MergeAndSave` (read, merge, upsert, insert attachments, commit) | called by every sync handler | overlapping calls, failures between statements, crash |
| **SyncServer, SessionNotifier** (`sync_api.go`) | `listeners[user\|scope][clientId]`: a channel of 8 messages per WebSocket | `handleWS` with its writer goroutine, `handleSync`, `handleSnapshot`, `Subscribe`, `Unsubscribe`, `BroadcastSnapshot` | the store; browsers | sends outside the lock, closed channels, reused client ids, slow or dead peers |
| **Injected script** (`webui_bootstrap.js`) | the page's storage, `suppressPush`, `lastSyncSignature`, timers, one WebSocket | dump and push, apply, reconnect, periodic push | SyncServer | async handlers that interleave, echoes that overwrite |
| **PrefillProgressTracker** (`prefill_progress.go`) | a record per (session, message) | `Update`, `MarkDone`, `Get`, `evictExpired`; the response body wrapper | reads SSE of proxied streams; notifies the hub | notification outside the lock, retries of one message, cut streams, eviction |
| **PrefillWSHub** (`prefill_ws.go`) | the clients, a channel of 64 messages each | `register`, `unregister`, `broadcastJSON`, `readPump`, `writePump` | the tracker (wired in `main.go`), clients | full buffers, teardown of two pumps |
| **BackendGuesser** (`backend_guess.go`) | two maps and an expiry under an RWMutex | `IsLlamaCppModel`, `FindRunningSDProxy`, `ensureFresh` | llama-swap's `/v1/models` and `/running` | double-checked refresh with an early `now`, failing and slow fetches, swaps meanwhile |
| WebUI injection (`webui_inject.go`) | none | rewrites one HTML response | the script | the page's scripts must run after the snapshot, in order, once |
| return_progress injection (`return_progress.go`, `request_model.go`) | none | decides over one request body | BackendGuesser; the tracker reads the same body again | bodies that break off, numbers, lengths |
| `/opencode`, `/cmd`, `/v1/models` (`main.go`) | none | read configuration and llama-swap, format JSON | GGUF reader | macros and models in the order of Go maps |
| GGUF reader (`gguf.go`) | none | parses a file header | | lengths and offsets from the file |

What makes each of them correct:

- store: an acknowledged upload is not lost by anything but a later write;
  a row never refers to a blob that was not stored; failed calls leave nothing;
- server: a connected page is told of every commit of others; channels are
  closed once and not used afterwards; a listener cannot hold up a sync;
- tracker and hub: what listeners see last of a session is that it is done;
  records and clients go away; a client cannot hold up a stream;
- guesser: an answer is true of a recent moment; lookups end;
- script: pushes are suppressed only while a snapshot is applied and skipped
  only for content that is uploaded; every write is uploaded in the end or
  replaced; the page's own scripts run whatever becomes of the network;
- sequential parts: the result is that of a plain reference, on all inputs and
  in every order of a map.

`PROJECT.json` lists the hazards line by line, with the properties that cover
each one and, where none does, the reason.

## Modules

### SessionStore (`sync_store.go`)

`SessionStore.tla` has one action per step of `MergeAndSave`: `ReadExisting`
(`GetSnapshot` and the merge in memory, before any transaction), `Upsert`
(takes SQLite's write lock; a second transaction does not wait, it can only
`Fail`), `StoreAttachment` per blob, `Commit`, and `Fail` and `Crash` at any
point. `history[s]` holds the rows ever committed for a (user, scope), so a
call's read is a position in it and "overlapped" is a comparison of positions.

Documents are flattened to leaves: `localStorage` keys and IndexedDB cells
(database, store, record key, path in the value; an element of an array is a
cell, as arrays merge as unions). On leaves, `mergeLocalStorage`,
`mergeIndexedDB` and the functions below them are one operator, `Override`.
The abstraction assumes that two uploads agree on the shape of a record: where
one has an object and the other a scalar, the code replaces the whole subtree.
`Sanitize` and `Uploads` are `sanitizeAndExtractIndexedDB`: base64 content of
IndexedDB cells, and not of localStorage, becomes a reference to its hash.
`updated_at` is left out, as nothing reads it.

`MergeLog.tla` is the abstract specification: per space a log of rows, where a
save appends *some earlier* row overridden by the upload. The instance `Log`
in `SessionStore` maps `log <- history`, `kept <- att`; `ImplementsLog` says
that the store is such a log. That the earlier row need not be the last one is
the store's real promise; that it is the last one is refuted by
`SessionStoreUnion`.

### SyncServer (`sync_api.go`)

`SyncServer.tla` models one `user|scope` key: WebSocket handlers (`pc`, with a
step for each point where another goroutine can get in between), their writers
and peers, HTTP syncs, the table `listeners`, and the channels. A channel is
named by the connection that made it, which is how the model sees a handler
unsubscribe a channel that is not its own. The store appears as the sequence
`by` of commits, and a snapshot as the number of commits it contains; what a
commit keeps of earlier ones is `SessionStore`'s subject, and the two models
meet there: a snapshot number is a position in that model's `history`.
`Offer` is Go's `select` with `default`, `Panic` a send on a closed channel
with the deferred functions that follow. `newest`, `missed` and `panicked` are
history variables that the actions do not read.

### PrefillTracker, PrefillHub, PrefillPush

`PrefillTracker.tla`: a stream (a wrapped response body, read and closed by
one goroutine) stores a record (`Update`, `DoneEvent`, `Eof`, `Close`) and
only then, as another step, notifies (`Notify`). `Tick` and `EvictExpired` are
the janitor; the record's time stamp is its `age`.
`PrefillHub.tla`: `Connect` registers and starts both pumps; `Broadcast` is
`broadcastJSON`; `Unregister`, `SignalDone`, `CloseConn` are the deferred
function of `readPump`, `WritePump` and `WriterDone` the select of `writePump`.
`PrefillPush.tla` extends both and replaces `Notify` by `NotifyAll`, the
function `main.go` gives to `SetNotifyFunc`.

### BackendGuesser

`BackendGuesser.tla`: requests go through `ensureFresh` (`Check` under the read
lock, `Lock` with the second check, the two fetches with the lock held,
`Store` or `FetchFails`) and `Look`. `now` is read once on arrival, as in the
code. `Swap` is llama-swap loading or unloading a model, at any time. A fetch
fails, returns what llama-swap lists, or returns nothing (`Reply`): the code does
not look at the status, and an error that comes as a JSON object has no list. A
clock of intervals bounds a fetch by `Timeout` (the http.Client's limit) and
counts `TTL`; work that waits for nobody takes no time. `ran` and `idle` are
history: per interval, the sd models that ran, and those that did not or that a
reply left out.

### SyncClient (`webui_bootstrap.js`)

`SyncClient.tla` has the script of a page and, in one step per frame or
request, the server. JavaScript runs to completion between awaits, so an action
is the code from one await, timer or event to the next. The page's storage is
one localStorage key and one IndexedDB store with one record; `QueuePush`,
`Fire` (the dump of localStorage), `Dumped` (IndexedDB is read, the signature
compared, the payload sent), `PostDone` and `PostFails` are a push; `Receive`
or `ApplyPulled`, `PutRecords` and `FinishApply` an apply, of which several
overlap and finish in the order they began, but for one without an IndexedDB
store, which waits for nothing (`Overtakes`); `Open`, `Close`, `Reconnect`, `RaceTimeout`, `PullFails` the connection
and the startup. `AppWrite` is the page's application behind the hooks.
`Over` is `SessionStore`'s merge for these two slots, and `Frame`, `Sync` and
`Offered` are `SyncServer`'s handler, with echo, fan-out and full channels;
`SyncServer` has the interleavings inside of a frame. `own`, `merged` and
`fate` are history variables: the page's last writes, what was ever merged,
and whether frames were lost or refused since the last apply.

What the code turns out to do, and the model shows on the way: the race of
startup ends with `onopen`, before any snapshot can be applied, so the snapshot
is always pulled over HTTP too, and up to three applies overlap at startup; the
first one to finish releases `suppressPush` for all, and the puts of the others
then queue pushes, whose echoes are applied again; removals never reach the
server, because the merge keeps what an upload lacks.

### Sequential parts (`Algorithms`)

Eight modules of operators, each with a reference definition after the code's
own, and `Algorithms.tla`, whose behaviours take one input of one of them:

| Module | Code | Reference |
| --- | --- | --- |
| `MergeValue` | `mergeIndexedDB`, `mergeIDBRecords`, `mergeJSONValue` on whole documents | `Override` on leaves, which is `SessionStore`'s merge |
| `SseReader` | `feed`, `handleLine`, `finalizeEvent` | lines and events of the uncut stream |
| `Macros` | `expandMacros`, `expandEnvMacros` | each macro replaced by its meaning |
| `OpenCode` | `shouldIncludeOpenCodeModel`, the loop of `opencodeHandler` | the rules of `readme.md`, first match |
| `GgufReader` | `readGGUFMeta`, `ggufDiscard`, `ggufReadStr`, by the bytes they take | true sizes of the values |
| `RequestRules` | `maybeInjectReturnProgress`, `resolveRequestModelID`, `readJSONRequestBodyAsMap`, `derivePrefillCorrelationFromRequest`, the handler of `/` | the client's request |
| `WebUiGate` | `injectWebUISync`, `rewriteScriptTagsForSyncGate`, `runDeferredScripts` | the page before the rewriting |
| `Namespaces` | scopes, `apiBase`, `HandleSessions`, `resolveUser`, `resolveScope`, `sessionChannelKey` | user and first segment of the model |

A loop over a Go map is the set of its outcomes over all orders
(`Macros!Expansions`, `OpenCode!Listings`). The loop of `feed` is a recursive
function over the number of rounds, at most one per character of the buffer.
`mergeJSONValue` calls itself on the fields of objects: `Level[n]` has the
values that nest up to `n` levels and the merge of two of them as a function,
made from that of `Level[n - 1]`, and `MergeJSON` is the merge at `Depth`.
`ggufDiscard`, which calls itself on the elements of arrays, has the same form
(`Nested[n]`, up to `Nesting`). No module declares a RECURSIVE operator, so that
theorems can be stated of all of them.
`RunDeferred` of `WebUiGate` is given the part of the page that is parsed when the
bootstrap asks for its scripts, which may be any (`input.parsed`), and whether
the browser signals inline modules (`input.signals`); which scripts a browser
runs and which have a load event (`Executable`, `Signalled`) are external.
`Picked` of `Selection.tla` (the elements of a sequence at given positions)
stands for loops that skip elements.

### Proof modules

One per component with state (`SessionStoreProofs`, `SyncServerProofs`,
`PrefillProofs` for the tracker and its composition with the hub,
`BackendGuesserProofs`, `SyncClientProofs`), `NestingProofs` for the operators of
`MergeValue`, `GgufReader` and `Macros`, `AlgorithmProofs` for those of the other
sequential parts and for `Algorithms`, and `SequenceLemmas` with what these two
need of numbers and sequences; see *Proofs*.

## Runs

| Run | Instance | Shows |
| --- | --- | --- |
| `SessionStore` | 3 calls, 2 spaces, 1 key, 2 cells, 1 blob; symmetry on calls | `LastWriteWins`, `RefsBacked`, `OnlyCommittedData`, `ImplementsLog` |
| `SessionStoreUnion` | the same | **violated**: `UnionKeepsAcked` |
| `SyncServer` | 3 WebSockets, 2 of them one client id; channels of 1; 1 frame | `ListedIsOpen`, `UniqueStaysListed`, `NoCommitMissed` |
| `SyncServerLive` | 2 WebSockets and 1 HTTP sync, fair | `NoCommitMissed`, `SyncReturns` |
| `SyncServerFanOut` | as `SyncServer`, smaller | **violated**: `FanOutCompletes` |
| `SyncServerReconnect` | as `SyncServer`, smaller | **violated**: `ConnectedIsListed` |
| `PrefillTracker` | 2 streams of one message, 2 events each, fair | `RestingSessionIsDone`, `RestingRecordIsDone`, `PushFollowsRecord`, `RecordsGoAway` |
| `PrefillPush` | 2 messages of one session, 1 client, buffer of 1, fair | `ClientLearnsDone`, `StreamGoesOn`, `GoneIsReleased` |
| `BackendGuesser` | 2 lookups, an sd and an llm model, 4 intervals, fair | `RoutedToRunning`, `NotFoundIsTrue`, `RequestsEnd` |
| `SyncClient` | 1 page with 1 write, 1 write elsewhere, 1 fault; channels of 1; fair | `SuppressedOnlyWhileApplying`, `SkippedIsUploaded`, `EveryWriteSettles`, `ScriptsRun` |
| `SyncClientLost` | 1 page with 2 writes, no faults, nobody else | **violated**: `WriteSurvives` |
| `Algorithms` | 225 184 inputs | `MergeSettles`, `MergeIsOverride`, `EventsAreTheStreams`, `ExpansionIsUnique`, `ListingIsUnique`, `HeaderIsReadOrRefused`, `ForwardedAsSent`, `TrackedStreamsReport`, `ScriptsRunInOrder`, `PagesKeepToTheirRow` |

The first run of each module with state also checks its type invariant. What
they say:

- An acknowledged upload stays unless the same slot is uploaded later or the
  call was *overtaken*: another call had read before it committed and committed
  after it (`LastWriteWins`). The second case is a lost update, and it
  contradicts the union `readme.md` promises (`SessionStoreUnion`).
- Row and blobs appear together or not at all, whatever fails
  (`RefsBacked`, `OnlyCommittedData`). A reference may stand for a blob stored
  for another scope, because the browser's storage is per origin.
- Between a handler's subscription, its greeting, and the copying of the
  table by broadcasts, no commit is lost (`NoCommitMissed`), unless a channel
  was full, a read failed, or a panic cut a broadcast short. Panics do happen:
  a channel copied by `BroadcastSnapshot` may be closed before the send
  (`SyncServerFanOut`), and a page that reconnects before its old handler has
  ended is unsubscribed by it (`SyncServerReconnect`). What cannot happen is a
  channel closed twice (`ListedIsOpen`), or either of these for a handler's own
  channel when its client id is not reused (`UniqueStaysListed`).
- Sync handlers always get through, also with peers that read nothing
  (`SyncReturns`).
- Whatever the order of writes and pushes, a session at rest has been reported
  done (`RestingSessionIsDone`, and per client `ClientLearnsDone`), except to a
  client whose buffer was full.
- An answer of the guesser is about a moment less than `TTL + Timeout` before
  the request came (2 s + 5 s in the code), also when refreshes fail, are slow,
  or were done by another request while this one waited. "No sd model runs" may
  come of a reply that told of an error instead (`NotFoundIsTrue` speaks of
  models that did not run or that a reply left out).
- Pushes are suppressed only while a snapshot is being applied, however applies
  overlap (`SuppressedOnlyWhileApplying`), and a push is skipped only for
  content that the server has or is about to get, unless a frame was lost or
  refused since the last apply (`SkippedIsUploaded`). A write that stays in
  the page's storage is uploaded in the end (`EveryWriteSettles`), thanks to the
  periodic push, except one the server refused: its signature is taken for
  uploaded, so the periodic push skips it too until a snapshot is applied. The
  page's scripts run in the end (`ScriptsRun`).
- A write need not stay in the storage, though: a snapshot read before it may be
  applied over it before a push has taken it along, the page's own echo included
  (`SyncClientLost`). One page with nobody else is enough.
- A merge repeated, or fed its own result, changes nothing (`MergeSettles`), and
  `SessionStore`'s flattened merge is the code's where both documents have
  objects at the same places (`MergeIsOverride`).
- `/opencode` lists a model with the limits and capabilities that the readme's
  rules give, the first that applies (`ListingIsUnique`). One case differs from
  the readme, and the property says how: metadata with `vision: false` do not
  override `--mmproj` (`VisionIgnored`).
- Events do not depend on how the network cuts the stream
  (`EventsAreTheStreams`); expansions and listings do not depend on map orders
  (`ExpansionIsUnique`, `ListingIsUnique`), unless macros are cyclic or two
  models share a name; a GGUF header is read for what it says or refused
  (`HeaderIsReadOrRefused`), with the exceptions named there.
- A body reaches llama-swap as sent, with at most `return_progress` added and
  the right length (`ForwardedAsSent`), but for integers beyond 2^53, which may
  change with it; and a tracked stream of a llama.cpp
  model does report progress or was told not to (`TrackedStreamsReport`).
- No script of a rewritten page runs before the bootstrap; then those that are
  parsed by the time the bootstrap asks for them are put back once, in order, as
  they were, up to one whose event never comes (`ScriptsRunInOrder`). So not
  every script of an application runs: the snapshot may be
  in before the page is parsed, and the code asks once; and it awaits a load or
  error event of whatever has a src, which data blocks and `nomodule` scripts
  never have. A page's requests reach the row of
  its user and scope, and pages share a channel just if they share a row
  (`PagesKeepToTheirRow`).

What these properties exempt, each needed (without it the run finds a
violation): values that are an object on one side only (the subtree is
replaced); macros that are cyclic or nest as deep as there are rounds, and
variables whose values name variables or macros; models that share a name or alias (the one visited
last wins, in random order); lengths of a GGUF file with the sign bit set and
products that wrap (`io.CopyN` skips nothing, without an error), and contexts
beyond a `uint32` (a text longer than `MaxText` is refused, as the code means it); bodies that break off (what was read is forwarded with its
own length); integers beyond 2^53 in a body that is marshalled anew (the other
fields of such a body are not exempt); script tags
with an attribute such as `data-type`, or a `type=` within their src, before
`type` or alone (the pattern takes it for the type); the scripts that are not
parsed yet when the bootstrap asks for them, and what follows a data block or
`nomodule` script with a src, or an inline module whose browser fires no load
event for it; users with `/` or `|` in their names. Model ids with a `/` share
the scope of their first segment.

Noted besides, in code that the models have but without a run of its own:

- the start-signal branch of `Update` assigns the numbers (lines 158-161 of
  `prefill_progress.go`), while its comment (line 151) says it leaves them alone;
- `vision: false` in `metadata.capabilities` is ignored for a model with
  `--mmproj` (`main.go:548`), while `readme.md:64-78` says that any capability can
  be overridden there, with this very example;
- the scripts of a page that are parsed after the bootstrap has asked for them
  (`webui_bootstrap.js:396`), or come after one whose load event never comes
  (line 427), stay deferred for ever, while `readme.md:179` speaks of a snapshot
  "before app scripts run";
- a client of `/prefill-ws` whose buffer was full for the last done signal gets
  no later update, while the comment at `prefill_ws.go:70-71` says it will;
- an integer beyond 2^53 is changed when `return_progress` is injected
  (`return_progress.go:82`), while `return_progress_test.go:163-164` says that
  unknown fields survive (it tries 42);
- `baseURL` of `/opencode` is made of the Host header, also when
  `--opencode-hostname` is set (`main.go:437`);
- `jsEscaped` replaces within raw strings and so doubles the backslashes it
  means to add (`webui_inject.go:158-165`): names with quotes do not survive;
- the place of `</head>` is found in the lower-cased page (`webui_inject.go:138`)
  and used in the original, which differ where a letter changes its length.

### Bounds

- `SessionStore`: three calls are the least for an overtaking pair and a third
  party (a reader of an overwritten row, or a call on another space). The
  payloads include one blob behind two cells, a base64 string in localStorage
  and a reference sent back. The history has at most four rows per space.
- `SyncServer`: channels of 1 instead of 8 make full channels frequent.
  `MaxFrames` bounds the frames received together; one frame besides the
  greetings already makes commits, drops and panics, as each connection also
  has its unbounded teardown. Three connections are a reconnecting browser and
  a witness.
- `PrefillTracker`: two streams of one key, each with a start signal,
  progress, end or full cache hit, then `[DONE]`, EOF or a cut. `TTL` 2 and
  `DoneTTL` 1 keep the order of the real limits (180 s and 30 s). Two keys of
  one session are in `PrefillPush`, where `TTL` is 0: only the pushes matter
  there.
- `PrefillPush`: a buffer of 1 instead of 64.
- `BackendGuesser`: `TTL` and `Timeout` of one interval; four intervals are
  enough for an entry to be sampled, stored an interval later, expire, and be
  refreshed. `Swap` is unbounded within an interval, of the models in `Loads`:
  the sd model, as nothing asks whether the other one runs.
- `SyncClient`: one page, since what another page does reaches it only as
  uploads of others (`Elsewhere`), which the server turns into snapshots. One
  write, one write elsewhere and one fault leave 357 000 states
  with startup's three applies. `Cap` 1 instead of 8, one frame
  under way to the server, one unfinished dump, one apply of a received snapshot
  beside the pulled one, and one HTTP sync at a time are bounds. The lost write
  needs two writes of the page: one to be echoed, one to be overwritten.
- `Algorithms`: snapshots of up to two records with values that nest up to
  `Depth` 3 levels; streams of up to five characters in up to three chunks; three macros that refer to each
  other in any way, with `Rounds` 4 for the code's 8 (a chain as long as the
  rounds, in the worst order, is not expanded to the end; with three macros and
  four rounds there is none, as with seven and eight); two models; files of up
  to two entries, with words of 8 bits for 64 and arrays that nest up to
  `Nesting` 3 levels, cut at each byte; requests with
  every mixture of ids; pages of up to three pieces, of which any number is parsed
  when the bootstrap asks; names of up to two
  characters, and longer ones that collide.

### Fairness

Only what the runtime gives: goroutines that can run do run (`WF` on the steps
of handlers, pumps, requests), time passes and the janitor's ticker fires. A
peer that is gone makes reads and writes of its connection fail in the end. No
peer, upstream or model is assumed to send, read, end or leave. In
`SyncClient`, timers fire, promises settle and the server answers what reaches
it, the snapshot request included (`fetch` has no timeout: without an answer the
page's scripts do not run). The periodic push has strong fairness: a 30 s
interval does not find an apply under way each time. That a closed socket opens
again is no fairness of the specification but the premise of
`EveryWriteSettles`; `ScriptsRun` does without it. A `select` with
several ready cases is assumed not to avoid one of them for ever, which Go's
random choice justifies. `CHECK_DEADLOCK FALSE` is set where everything may be
over: all frames used, all streams ended, all requests answered.

## Proofs

For every value of the constants that satisfies the modules' named
assumptions (sets of requests, connections, documents of any size):

**SessionStoreProofs.** `TypeCorrect`; `StructureCorrect` (`TypeOK`,
`Positions`, `SingleWriter`): what a call read and committed are positions of
the history of its space, and the call that is saving holds the lock. On this
base:

- `LastWriteWinsCorrect`. The property is not inductive: a commit may start
  from an older row, so one has to know what *every* row since the commit
  holds. `Lasting` says it for each position `i` from `at[r]` on: the row `i`
  holds the upload, or it was overwritten or overtaken by `i`. A commit
  appends one row. If its base lies at or after `at[r]`, the case for that row
  carries over to the new one; if it lies before, the committing call has
  overtaken `r`.
- `RefsBackedCorrect`, by `Backed`: the references of all rows and of
  all documents in flight are stored; attachments are never deleted.
- `OnlyCommittedCorrect`, by `Traced`, the same property of all rows.
- `ImplementsLogCorrect`: each step maps to a step of `MergeLog` or a stutter
  (`Commit` to `Save` with the call's document and base), by `Structure` and
  `InHand` (a call under way carries a payload).

**SyncServerProofs.** `TypeCorrect`, and by the invariant `Notifier`
(`NewIsUnlisted`, `ListedIsOpen`, `UniqueStaysListed`): `ListedIsOpenCorrect`,
`UniqueStaysListedCorrect`. `NewIsUnlisted` (a connection that has not
subscribed is not listed and its channel is open) is what a `Subscribe` needs,
and `TypeOK` what every step does.

`NoCommitMissedCorrect`. The property speaks of the moments without a sync, so
it says nothing of the steps that lead there. `Delivered` does: whatever commit
a listening connection has not been sent is *on its way*, because its own
handler is about to read or to reply (`Answers`), or because a broadcast has
yet to copy the table or to come to it (`Announces`). `Subscribe` comes before
the greeting's read, so everything older is on its way; a commit announces
itself; a broadcast may drop a connection from its targets only by offering to
it, and a full channel, a failed read or a panic sets `missed`.

**PrefillProofs**, of the tracker. `TypeCorrect`, and by the invariant `Tracked`:

- `RestingSessionIsDoneCorrect`, by `WaitingIsActive` (listeners that were left
  with a progress will hear more: a stream of the session is active) and
  `EndedIsDone` (all that an ended stream may still push is a done record). A
  late progress of one stream after the done of another is possible, but only
  by a stream that is still read, and its end pushes done again.
- `RestingRecordIsDoneCorrect`, by `OpenIsRead`: an open record has a reader.
- `PushFollowsRecordCorrect`, by `SoloFollows` and `NewIsSilent`: the record of
  the only stream is what it is about to push or has pushed. An eviction takes
  the record away and with it the claim.

Of the tracker and the hub. The composition extends the tracker's `Next` by the hub:
the tracker's lemmas are used for its steps. `HubTypeCorrect` by `Hub`
(`Unconnected`: who has not connected is not registered and was told nothing), and `ClientLearnsDoneCorrect` by
`HeardIsActive`, which is `WaitingIsActive` per client: what a client heard
last may differ from what was pushed last, by its buffer and by when it came.

**BackendGuesserProofs.** `TypeCorrect`, and by the invariant `Timely`:
`RoutedToRunningCorrect`, `NotFoundIsTrueCorrect`. `SampledSince(F, lo)` says
that one moment since `lo` explains all of `F`. A fetch in time is sampled since
it was sent (`FetchInTime`), the cache since its expiry less `TTL + Timeout`
(`CacheIsSample`), and a request only looks at a cache whose expiry is after
its arrival (`LooksFresh`), also when another request has stored a newer one
since. `Witnessed` ties the history of the world to the world. A reply that left
models out is a moment of their history as well, so a fetch explains what it did
not return whatever the reply was.

**SyncClientProofs.** `TypeCorrect`; `SuppressedOnlyWhileApplyingCorrect`, from
the type invariant alone; and `SkippedIsUploadedCorrect`, for which two facts
are needed of the rest of the system: documents that come from the server, and
those it took over HTTP, hold merged writes only (`Learnt`, through rows,
channels, pulls and applies), and only an open socket has frames under way
(`WireIsUp`). `Covered` is then the property itself with fewer cases: the
signature is set together with the frame, or after the answer.

**AlgorithmProofs.** For requests, pages, names, streams and configurations of
any size:

- `ForwardedAsSentCorrect` and `TrackedStreamsReportCorrect`, by theorems about
  a single request (`AsSentCorrect`, `ReportsCorrect`).
- `PagesKeepToTheirRowCorrect`, by `ReachesItsRowCorrect` and
  `SharesByRowCorrect`: a path that is put together from a plain user and an
  endpoint is taken apart again into them, and a bar separates user and scope in
  one way only if the user has none.
- `ScriptsRunInOrderCorrect`: `GatedCorrect` says that the served page is the
  page with the bootstrap in it, and each script is held back and keeps its
  number, type, src and `nomodule`; `DeferredRunInOrderCorrect`, that the scripts
  put back are then those of the parsed part, one for one, all of them or up to
  one that is `Silent` (`StuckIsSilent`). The served page up to a piece is the page up to
  that piece, held back in the same way (`GatedPart`). The scripts of the page and the held
  ones are picked at positions of two pages that differ by one piece, so the
  proof needs that what is picked along an increasing map of positions is the
  same (`PickedAlong`).
- `EventsAreTheStreamsCorrect`, in two steps. `CutsDoNotShowCorrect`: for every
  stream and all its cuts into chunks, the reader finds the same events as in
  the uncut stream. `feed` leaves characters in the buffer, so the proof shows
  that lines may be taken before or after more characters arrive
  (`LinesTakenFirst`): a line that is there is the same line of any longer
  buffer (`LineTaken`), and as many rounds as there are characters are enough
  (`StepsSettle`). `EventsReadCorrect`: in a stream that comes in one piece the
  reader finds what the positions of its line ends say; the invariant is that
  after the n-th line end the events, and the data lines since the last empty
  line, are those of the first n lines (`LineHandled`).
- `ListingIsUniqueCorrect`, by `ListingCorrect`: the listing is right for the
  models the loop has visited (`RightFor`), which a round keeps
  (`RightAfterModel`), since no two models share a name; an order of a finite
  set visits all of it (`OrderIsOnto`). The code's assignments, of which the
  last wins, come to the readme's rules, of which the first decides
  (`CapabilitiesByRule`, with the one deviation, `VisionIgnored`).

**NestingProofs**, of data of any size and depth:

- `SnapshotsSettle`, and from it `MergeSettlesCorrect`. A
  merge that *settles* keeps to the values and is repeated without effect. Lists
  are joined into one that has all elements of both, so that a second union adds
  none (`JoinedWith`); an object settles if the merge of its fields does, which
  gives the step from one level to the next (`LevelsSettle`). For records the
  invariant of the loop is that the store has every incoming record handled so
  far (`HasMerged`): merging it once more would change nothing, and no later
  record undoes this, as long as the records of a store have different keys
  (`MergeRecordsHas`, `MergeRecordsStays`). That is why `KeysDiffer` is part of what is uploaded
  and of what is proved of the merged snapshot.
- `SnapshotsOverridden`, and from it `MergeIsOverrideCorrect`: on leaves the
  merge is `Overridden`. The union of leaves below different keys can be
  overridden key by key (`PutApart`, `AllOverridden`); with that the claim goes
  up from values (`PicturesOverridden`, by induction over levels) to records,
  stores, databases and snapshots. `AgreeInShape` is what it needs of values:
  where one has an object, so has the other.
- `HeaderIs`, and from it `HeaderIsReadOrRefusedCorrect`. For values, by induction
  over the levels of arrays (`NestsSound`): if a value's lengths are true, and an
  int64 can hold its size, the reader takes just its bytes. For the loop
  (`LoopGoes`): after n entries the reader is at the place of the next one and
  knows what the entries so far say (`Knows`), or it has failed because an entry
  ended beyond the cut, had too long a text, or a length that is not true. A
  length beyond the end, which an int64 holds, makes the reader take more bytes
  than there are or refuse the text (`OverTakes`).
- `ExpansionIs`, and from it `ExpansionIsUniqueCorrect`. What a text stands for
  (`Full`: its meaning, with the values of variables) is the same before and after
  each replacement, in whatever order (`FullKept`), and a round leaves no macro of
  the highest rank that was left (`AppliedKeeps`); so after i rounds a command
  waits with lower ranks, or is done with what it stands for, or lacks a variable
  that its meaning has (`RoundGoes`). That a round changes nothing ends the loop:
  then there are no macros, since a text that a round leaves as it is could be
  lowered for ever (`UnchangedIsBare`).

The proofs found two faults of earlier forms of the model: arms of a `CASE`
that overlapped, of which TLC takes the first and TLA+ any. They are disjoint
now, or an `IF`.

The inductions over data here (lines of a stream, models of a configuration,
levels of values, records of a store, entries of a file, tokens of a text, rounds
of an expansion) are carried out on sets, as the theorems of the library take
operators: `Induction` of `SequenceLemmas` says that a set with 0, and with the successors of its elements, has all
numbers, which follows from least elements (`LeastIsMin`). A function that is
recursive over numbers is shown to be well defined on the way (`StepsAre`,
`LevelsAre`, `MergesAre`, and in general `Recursion`).

Assumptions on the constants, beside types and bounds: `AbsentAssumption` (no
record or push is the value for "none"), `NotADocument` (nor is a request for a
snapshot, nor the signature before the first upload, a document),
`GuesserAssumption` (names of models are none of the other answers),
`PushAssumption` (each message is one of the hub's), `TextsAssumption` (the
program's own names are texts), and for `Algorithms` that requests and pages are
such (`RequestsAssumption`: one that does not break off has as many bytes as it
states; `PagesAssumption`, `VisitsAssumption`), that a stream has a length
(`MaxStreamAssumption`), that values have a depth (`DepthAssumption`) and
uploaded snapshots are such, with keys that are unique in a store, as in
IndexedDB (`SnapshotsAssumption`), that configurations and sets of macros are
finite and variables are no macros (`DefsAssumption`, `MacrosAssumption`), that
there is a round (`RoundsAssumption`), and that files are such, with fewer bytes
than an int64 counts (`FilesAssumption`, `GgufAssumption`). TLC evaluates them in
the runs.

Only model-checked is liveness (`SyncReturns`, `RecordsGoAway`, `StreamGoesOn`,
`GoneIsReleased`, `RequestsEnd`, `EveryWriteSettles`, `ScriptsRun`): the prover
does not reason about `ENABLED`. Every invariant that the passing runs check is
proved.

## Not modelled

- Applies in the script that fail half way (a transaction that aborts, a full
  storage); the script goes on as after a successful one for that store. Hooks
  assigned to the `localStorage` object are taken to be called, which depends on
  the browser; where they are not, the periodic push is what is left.
- A script whose own text is only partly parsed when the bootstrap asks for the
  scripts: it is there with the text it has, or it is not there yet.
- Attachments in the script: the echo replaces base64 content by references
  (`SessionStore`), and the page keeps those.
- `/v1/models` and `/cmd`, which copy fields; `ggufReadValue`, which nothing
  calls; the regular expressions for flags, comment lines in commands, the
  phrases by which pages are recognised, `numToInt64`.
- A peer that stops reading with its connection up: its writer blocks, which
  the model has as a `WriterSend` that is never taken.
- The handler of a WebSocket whose peer is gone waits for its writer, and the
  writer for a message or for the channel's close, which that handler's own
  deferred `Unsubscribe` would do. The model has this wait (`AwaitWriter`,
  `WriterEnd`); there is no promise in the repository to check it against.
- Which of two snapshots a listener gets last when two syncs commit and
  broadcast in different orders: the code promises none.
- `Get` of the tracker, `Close` of the store: a read and shutdown.
- JSON, base64, percent-encoding, formatting, logging, packaging.

## Plan

Done, in order of importance: the store with its abstract log, the server, the
prefill tracker, hub and their composition, the guesser, the injected script
with the server's answers, the sequential parts; the proofs above.

Next: a snapshot number of `SyncServer` as a position of `SessionStore`'s
history, as a refinement of both by their composition.
