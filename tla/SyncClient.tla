----------------------------- MODULE SyncClient -----------------------------
(***************************************************************************)
(* The script that is injected into WebUI pages (webui_bootstrap.js) and   *)
(* what the server does with its messages.  A page has storage of its own, *)
(* reduced to one localStorage key and one IndexedDB store of one record.  *)
(* JavaScript runs to completion between awaits, so an action is the code  *)
(* from one await (or timer, or event) to the next.                        *)
(*                                                                         *)
(* The server handles a frame in one step: it merges it into the row of    *)
(* the scope, echoes the row to the sender and offers it to the channels   *)
(* of the other pages.  SyncServer and SessionStore have the steps inside. *)
(***************************************************************************)
EXTENDS Naturals, SequencesExt

CONSTANTS Page,       \* the browsers
          NoStore,    \* a document without the IndexedDB store
          Unlike,     \* a signature that no dump has
          Get,        \* the get-snapshot frame
          NoPost,     \* no HTTP sync is under way
          Cap,        \* capacity of a connection's channel at the server
          MaxWire,    \* bound: frames under way to the server per page
          MaxDumps,   \* bound: unfinished dumps per page
          MaxApplies, \* bound: unfinished applies of received snapshots per page
          MaxWrites,  \* bound: writes of the pages' applications
          MaxOther,   \* bound: writes of other clients of the scope
          MaxFaults   \* bound: broken connections, failed and refused requests

ASSUME ClientAssumption ==
  /\ {Cap, MaxWire, MaxDumps, MaxApplies} \subseteq Nat \ {0}
  /\ {MaxWrites, MaxOther, MaxFaults} \subseteq Nat
  /\ NoStore \notin Nat

Absent == 0                  \* no such key, or no record in the store
Slot == {"local", "db"}
Write == 1..(MaxWrites + MaxOther) \* every write writes something new

Document == [local : Write \union {Absent}, db : Write \union {Absent, NoStore}]
Blank == [local |-> Absent, db |-> NoStore]

ASSUME NotADocument == Get \notin Document /\ Unlike \notin Document

\* The merge of document d into row r (MergeAndSave).
Over(r, d) ==
  [local |-> IF d.local = Absent THEN r.local ELSE d.local,
   db    |-> IF d.db \in Write \/ r.db = NoStore THEN d.db ELSE r.db]

VARIABLES
  store,    \* store[p]: localStorage and IndexedDB
  suppress, \* suppress[p]: suppressPush
  timer,    \* timer[p]: pushTimer is set
  sig,      \* sig[p]: the document whose text lastSyncSignature is, or Unlike
  dumps,    \* dumps[p]: localStorage parts of the dumps that await IndexedDB
  post,     \* post[p]: the HTTP sync of pushSnapshot
  applies,  \* applies[p]: the snapshots being applied
  boot,     \* boot[p]: where the startup function is
  pulled,   \* pulled[p]: the answer of pullSnapshotHTTP
  ws,       \* ws[p]: the socket
  wire,     \* wire[p]: frames under way to the server
  chan,     \* chan[p]: snapshots under way to the page
  row,      \* the row of the scope at the server
  writes,   \* number of writes of the applications so far
  others,   \* number of writes of other clients so far
  faults,   \* number of faults so far
  own,      \* history: own[p][s] is p's last write to slot s
  merged,   \* history: the writes that have ever been merged
  fate      \* history: what became of p's frames since p last applied a
            \* snapshot: some were "lost" or "refused", or all is "well"

vars == <<store, suppress, timer, sig, dumps, post, applies, boot, pulled, ws,
          wire, chan, row, writes, others, faults, own, merged, fate>>

network == <<ws, wire, chan>>
server == <<row, merged>>
application == <<writes, others, own>>

Init ==
  /\ store = [p \in Page |-> Blank]
  /\ suppress = [p \in Page |-> FALSE]
  /\ timer = [p \in Page |-> FALSE]
  /\ sig = [p \in Page |-> Unlike]
  /\ dumps = [p \in Page |-> <<>>]
  /\ post = [p \in Page |-> NoPost]
  /\ applies = [p \in Page |-> <<>>]
  /\ boot = [p \in Page |-> "race"]
  /\ pulled = [p \in Page |-> Blank]
  /\ ws = [p \in Page |-> "connecting"]
  /\ wire = [p \in Page |-> <<>>]
  /\ chan = [p \in Page |-> <<>>]
  /\ row = Blank
  /\ writes = 0 /\ others = 0 /\ faults = 0
  /\ own = [p \in Page |-> [s \in Slot |-> Absent]]
  /\ merged = {}
  /\ fate = [p \in Page |-> "well"]

-----------------------------------------------------------------------------
(***************************************************************************)
(* The server.                                                             *)
(***************************************************************************)

\* Mutant: the capacity is not looked at.
MutantOffered(c, d) == Append(c, d)

\* BroadcastSnapshot: a full channel drops the snapshot.
Offered(c, d) == IF Len(c) < Cap THEN Append(c, d) ELSE c

\* A sync is merged; to says whose channels the row is put into.
Sync(d, to) ==
  LET r == Over(row, d) IN
  /\ row' = r
  /\ merged' = merged \union ({d.local, d.db} \intersect Write)
  /\ chan' = [q \in Page |-> IF q \in to /\ ws[q] = "open"
                             THEN Offered(chan[q], r) ELSE chan[q]]

\* The next frame of p: a sync is echoed and fanned out, get-snapshot answered.
Frame(p) ==
  /\ ws[p] = "open" /\ wire[p] # <<>>
  /\ LET f == Head(wire[p]) IN
       IF f = Get
       THEN /\ chan' = [chan EXCEPT ![p] = Offered(@, row)]
            /\ UNCHANGED server
       ELSE Sync(f, Page)
  /\ wire' = [wire EXCEPT ![p] = Tail(@)]
  /\ UNCHANGED <<store, suppress, timer, sig, dumps, post, applies, boot,
                 pulled, ws, faults, fate, application>>

\* The server fails to merge a sync (SQLite is busy): the page gets an error
\* message, which it logs.
Refuse(p) ==
  /\ ws[p] = "open" /\ wire[p] # <<>> /\ Head(wire[p]) # Get
  /\ faults < MaxFaults
  /\ faults' = faults + 1
  /\ wire' = [wire EXCEPT ![p] = Tail(@)]
  /\ fate' = [fate EXCEPT ![p] = "refused"]
  /\ UNCHANGED <<store, suppress, timer, sig, dumps, post, applies, boot,
                 pulled, ws, chan, server, application>>

\* A client that is not among the pages uploads a write to slot s.
Elsewhere(s) ==
  /\ others < MaxOther
  /\ others' = others + 1
  /\ Sync([Blank EXCEPT ![s] = MaxWrites + others + 1], Page)
  /\ UNCHANGED <<store, suppress, timer, sig, dumps, post, applies, boot,
                 pulled, ws, wire, writes, faults, own, fate>>

\* An HTTP sync is merged, and announced to the other pages.
PostHandled(p) ==
  /\ post[p] # NoPost /\ ~post[p].handled
  /\ Sync(post[p].doc, Page \ {p})
  /\ post' = [post EXCEPT ![p].handled = TRUE]
  /\ UNCHANGED <<store, suppress, timer, sig, dumps, applies, boot, pulled, ws,
                 wire, faults, fate, application>>

\* A snapshot request over HTTP is answered.
PullHandled(p) ==
  /\ boot[p] = "pull"
  /\ pulled' = [pulled EXCEPT ![p] = row]
  /\ boot' = [boot EXCEPT ![p] = "answered"]
  /\ UNCHANGED <<store, suppress, timer, sig, dumps, post, applies, network,
                 faults, fate, server, application>>

-----------------------------------------------------------------------------
(***************************************************************************)
(* Pushing.                                                                *)
(***************************************************************************)

\* queuePush: the timer is set, anew if it was, unless pushes are suppressed.
QueuePush(p) == timer' = [timer EXCEPT ![p] = @ \/ ~suppress[p]]

\* The application writes or removes the key or the record, through the hooks.
AppWrite(p, s) ==
  /\ boot[p] = "run" /\ writes < MaxWrites
  /\ writes' = writes + 1
  /\ \E v \in {writes + 1, Absent} :
       /\ store' = [store EXCEPT ![p][s] = v]
       /\ own' = [own EXCEPT ![p][s] = v]
  /\ QueuePush(p)
  /\ UNCHANGED <<suppress, sig, dumps, post, applies, boot, pulled, network,
                 others, faults, fate, server>>

\* Mutant: there is no periodic push.
MutantPeriodic(p) == FALSE /\ UNCHANGED vars

\* The 30 s interval: queuePush(0).
Periodic(p) ==
  /\ boot[p] = "run" /\ ~suppress[p] /\ ~timer[p]
  /\ QueuePush(p)
  /\ UNCHANGED <<store, suppress, sig, dumps, post, applies, boot, pulled,
                 network, faults, fate, server, application>>

\* The timer fires: pushSnapshot dumps localStorage and then awaits IndexedDB;
\* if pushes are suppressed by now, it returns.
Fire(p) ==
  /\ timer[p]
  /\ timer' = [timer EXCEPT ![p] = FALSE]
  /\ IF suppress[p]
     THEN UNCHANGED dumps
     ELSE /\ Len(dumps[p]) < MaxDumps
          /\ dumps' = [dumps EXCEPT ![p] = Append(@, store[p].local)]
  /\ UNCHANGED <<store, suppress, sig, post, applies, boot, pulled, network,
                 faults, fate, server, application>>

\* What the first unfinished dump amounts to once IndexedDB is read.
Dump(p) == [local |-> Head(dumps[p]), db |-> store[p].db]

\* Mutant: the signature is taken before the request succeeds.
MutantDumped(p) ==
  /\ dumps[p] # <<>>
  /\ dumps' = [dumps EXCEPT ![p] = Tail(@)]
  /\ sig' = [sig EXCEPT ![p] = Dump(p)]
  /\ \/ Dump(p) = sig[p] /\ UNCHANGED <<post, wire>>
     \/ /\ Dump(p) # sig[p] /\ ws[p] = "open" /\ Len(wire[p]) < MaxWire
        /\ wire' = [wire EXCEPT ![p] = Append(@, Dump(p))]
        /\ UNCHANGED post
     \/ /\ Dump(p) # sig[p] /\ ws[p] # "open" /\ post[p] = NoPost
        /\ post' = [post EXCEPT ![p] = [doc |-> Dump(p), handled |-> FALSE]]
        /\ UNCHANGED wire
  /\ UNCHANGED <<store, suppress, timer, applies, boot, pulled, ws, chan,
                 faults, fate, server, application>>

\* The dump is complete: nothing is sent if its text is the last signature;
\* otherwise it goes over the open socket, or over HTTP, whose answer is
\* awaited.
Dumped(p) ==
  /\ dumps[p] # <<>>
  /\ dumps' = [dumps EXCEPT ![p] = Tail(@)]
  /\ \/ /\ Dump(p) = sig[p]
        /\ UNCHANGED <<sig, post, wire>>
     \/ /\ Dump(p) # sig[p] /\ ws[p] = "open" /\ Len(wire[p]) < MaxWire
        /\ wire' = [wire EXCEPT ![p] = Append(@, Dump(p))]
        /\ sig' = [sig EXCEPT ![p] = Dump(p)]
        /\ UNCHANGED post
     \/ /\ Dump(p) # sig[p] /\ ws[p] # "open" /\ post[p] = NoPost
        /\ post' = [post EXCEPT ![p] = [doc |-> Dump(p), handled |-> FALSE]]
        /\ UNCHANGED <<sig, wire>>
  /\ UNCHANGED <<store, suppress, timer, applies, boot, pulled, ws, chan,
                 faults, fate, server, application>>

\* The HTTP sync was answered ...
PostDone(p) ==
  /\ post[p] # NoPost /\ post[p].handled
  /\ sig' = [sig EXCEPT ![p] = post[p].doc]
  /\ post' = [post EXCEPT ![p] = NoPost]
  /\ UNCHANGED <<store, suppress, timer, dumps, applies, boot, pulled, network,
                 faults, fate, server, application>>

\* ... or it failed, before or after the server handled it.
PostFails(p) ==
  /\ post[p] # NoPost /\ faults < MaxFaults
  /\ faults' = faults + 1
  /\ post' = [post EXCEPT ![p] = NoPost]
  /\ UNCHANGED <<store, suppress, timer, sig, dumps, applies, boot, pulled,
                 network, fate, server, application>>

-----------------------------------------------------------------------------
(***************************************************************************)
(* Applying snapshots.                                                     *)
(***************************************************************************)

\* Up to the first await: localStorage is overwritten key by key.
StartApply(p, d, http) ==
  /\ applies' = [applies EXCEPT ![p] =
       Append(@, [doc |-> d, http |-> http, put |-> FALSE])]
  /\ suppress' = [suppress EXCEPT ![p] = TRUE]
  /\ store' = [store EXCEPT ![p].local = IF d.local = Absent THEN @ ELSE d.local]

\* onmessage, with a snapshot.
Receive(p) ==
  /\ ws[p] = "open" /\ chan[p] # <<>>
  /\ Len(SelectSeq(applies[p], LAMBDA a : ~a.http)) < MaxApplies
  /\ StartApply(p, Head(chan[p]), FALSE)
  /\ chan' = [chan EXCEPT ![p] = Tail(@)]
  /\ UNCHANGED <<timer, sig, dumps, post, boot, pulled, ws, wire, faults, fate,
                 server, application>>

\* The startup function, with the snapshot it has pulled.
ApplyPulled(p) ==
  /\ boot[p] = "answered"
  /\ StartApply(p, pulled[p], TRUE)
  /\ boot' = [boot EXCEPT ![p] = "apply"]
  /\ pulled' = [pulled EXCEPT ![p] = Blank]
  /\ UNCHANGED <<timer, sig, dumps, post, network, faults, fate, server,
                 application>>

\* An apply without a store awaits nothing of IndexedDB and does not wait for
\* an earlier one that does.
Overtakes(a, b) == a.doc.db = NoStore /\ b.doc.db # NoStore

\* applyIndexedDB clears each store of the snapshot and puts its records, in
\* one transaction, through the hooks.  Transactions run in order.
PutRecords(p) ==
  \E i \in 1..Len(applies[p]) :
    /\ ~applies[p][i].put
    /\ \A j \in 1..(i - 1) :
         applies[p][j].put \/ Overtakes(applies[p][i], applies[p][j])
    /\ applies' = [applies EXCEPT ![p][i].put = TRUE]
    /\ LET d == applies[p][i].doc IN
         IF d.db = NoStore
         THEN UNCHANGED <<store, timer>>
         ELSE /\ store' = [store EXCEPT ![p].db = d.db]
              /\ QueuePush(p)
    /\ UNCHANGED <<suppress, sig, dumps, post, boot, pulled, network, faults,
                   fate, server, application>>

\* Mutant: suppressPush is released only by the startup function.
MutantFinishApply(p) ==
  \E i \in 1..Len(applies[p]) :
    /\ applies[p][i].put
    /\ \A j \in 1..(i - 1) : Overtakes(applies[p][i], applies[p][j])
    /\ LET a == applies[p][i] IN
         /\ \E t \in {a.doc, Unlike} : sig' = [sig EXCEPT ![p] = t]
         /\ suppress' = [suppress EXCEPT ![p] = @ /\ ~a.http]
         /\ boot' = [boot EXCEPT ![p] = IF a.http THEN "run" ELSE @]
         /\ timer' = [timer EXCEPT ![p] = @ \/ a.http]
    /\ applies' = [applies EXCEPT ![p] = RemoveAt(@, i)]
    /\ fate' = [fate EXCEPT ![p] = "well"]
    /\ UNCHANGED <<store, dumps, post, pulled, network, faults, server,
                   application>>

\* An apply has finished.  The signature is the snapshot's text, which the
\* text of an equal dump may or may not be (the order of keys differs).
\* After the pulled snapshot, startup queues a push and runs the page's scripts.
FinishApply(p) ==
  \E i \in 1..Len(applies[p]) :
    /\ applies[p][i].put
    /\ \A j \in 1..(i - 1) : Overtakes(applies[p][i], applies[p][j])
    /\ LET a == applies[p][i] IN
         /\ \E t \in {a.doc, Unlike} : sig' = [sig EXCEPT ![p] = t]
         /\ boot' = [boot EXCEPT ![p] = IF a.http THEN "run" ELSE @]
         /\ timer' = [timer EXCEPT ![p] = @ \/ a.http]
    /\ suppress' = [suppress EXCEPT ![p] = FALSE]
    /\ applies' = [applies EXCEPT ![p] = RemoveAt(@, i)]
    /\ fate' = [fate EXCEPT ![p] = "well"]
    /\ UNCHANGED <<store, dumps, post, pulled, network, faults, server,
                   application>>

-----------------------------------------------------------------------------
(***************************************************************************)
(* The connection and the startup.                                         *)
(***************************************************************************)

\* The race of startup is over; no snapshot was applied yet, as none can
\* arrive before onopen.
EndRace(p) == boot' = [boot EXCEPT ![p] = IF @ = "race" THEN "pull" ELSE @]

\* onopen: the page asks for a snapshot; the server sends one unasked as well.
Open(p) ==
  /\ ws[p] = "connecting"
  /\ ws' = [ws EXCEPT ![p] = "open"]
  /\ wire' = [wire EXCEPT ![p] = <<Get>>]
  /\ chan' = [chan EXCEPT ![p] = <<row>>]
  /\ EndRace(p)
  /\ UNCHANGED <<store, suppress, timer, sig, dumps, post, applies, pulled,
                 faults, fate, server, application>>

\* onclose, of a socket that was open or never opened: what is under way is
\* lost.
Close(p) ==
  /\ ws[p] # "closed" /\ faults < MaxFaults
  /\ faults' = faults + 1
  /\ ws' = [ws EXCEPT ![p] = "closed"]
  /\ fate' = [fate EXCEPT ![p] =
       IF \E i \in 1..Len(wire[p]) : wire[p][i] # Get THEN "lost" ELSE @]
  /\ wire' = [wire EXCEPT ![p] = <<>>]
  /\ chan' = [chan EXCEPT ![p] = <<>>]
  /\ EndRace(p)
  /\ UNCHANGED <<store, suppress, timer, sig, dumps, post, applies, pulled,
                 server, application>>

\* The 2 s timer of onclose.
Reconnect(p) ==
  /\ ws[p] = "closed"
  /\ ws' = [ws EXCEPT ![p] = "connecting"]
  /\ UNCHANGED <<store, suppress, timer, sig, dumps, post, applies, boot,
                 pulled, wire, chan, faults, fate, server, application>>

\* Mutant: startup waits for the socket only.
MutantRaceTimeout(p) == FALSE /\ UNCHANGED vars

\* The 1.5 s of the race.
RaceTimeout(p) ==
  /\ boot[p] = "race"
  /\ EndRace(p)
  /\ UNCHANGED <<store, suppress, timer, sig, dumps, post, applies, pulled,
                 network, faults, fate, server, application>>

\* The snapshot request fails: startup goes on without.
PullFails(p) ==
  /\ boot[p] \in {"pull", "answered"} /\ faults < MaxFaults
  /\ faults' = faults + 1
  /\ boot' = [boot EXCEPT ![p] = "run"]
  /\ suppress' = [suppress EXCEPT ![p] = FALSE]
  /\ timer' = [timer EXCEPT ![p] = TRUE]
  /\ pulled' = [pulled EXCEPT ![p] = Blank]
  /\ UNCHANGED <<store, sig, dumps, post, applies, network, fate, server,
                 application>>

-----------------------------------------------------------------------------
\* What happens by itself: continuations, timers, and the server's answers.
Progress(p) ==
  \/ Frame(p) \/ PostHandled(p) \/ PullHandled(p)
  \/ Fire(p) \/ Dumped(p) \/ PostDone(p)
  \/ Receive(p) \/ ApplyPulled(p) \/ PutRecords(p) \/ FinishApply(p)
  \/ Reconnect(p) \/ RaceTimeout(p)

Fault(p) == PostFails(p) \/ Close(p) \/ PullFails(p) \/ Refuse(p)

Next == \/ \E p \in Page : \/ Progress(p) \/ Fault(p) \/ Periodic(p) \/ Open(p)
                           \/ \E s \in Slot : AppWrite(p, s)
        \/ \E s \in Slot : Elsewhere(s)

\* Timers fire, promises settle and the server answers, one of them not for
\* ever at the cost of another.
Fairness ==
  \A p \in Page :
    /\ WF_vars(Frame(p)) /\ WF_vars(PostHandled(p)) /\ WF_vars(PullHandled(p))
    /\ WF_vars(Fire(p)) /\ WF_vars(Dumped(p)) /\ WF_vars(PostDone(p))
    /\ WF_vars(Receive(p)) /\ WF_vars(ApplyPulled(p)) /\ WF_vars(PutRecords(p))
    /\ WF_vars(FinishApply(p)) /\ WF_vars(Reconnect(p)) /\ WF_vars(RaceTimeout(p))
    /\ SF_vars(Periodic(p))

Spec == Init /\ [][Next]_vars
FairSpec == Spec /\ Fairness

-----------------------------------------------------------------------------
TypeOK ==
  /\ store \in [Page -> Document]
  /\ suppress \in [Page -> BOOLEAN]
  /\ timer \in [Page -> BOOLEAN]
  /\ sig \in [Page -> Document \union {Unlike}]
  /\ dumps \in [Page -> Seq(Write \union {Absent})]
  /\ post \in [Page -> [doc : Document, handled : BOOLEAN] \union {NoPost}]
  /\ applies \in [Page -> Seq([doc : Document, http : BOOLEAN, put : BOOLEAN])]
  /\ boot \in [Page -> {"race", "pull", "answered", "apply", "run"}]
  /\ pulled \in [Page -> Document]
  /\ ws \in [Page -> {"connecting", "open", "closed"}]
  /\ wire \in [Page -> Seq(Document \union {Get})]
  /\ chan \in [Page -> Seq(Document)] /\ \A p \in Page : Len(chan[p]) <= Cap
  /\ row \in Document
  /\ writes \in 0..MaxWrites /\ others \in 0..MaxOther /\ faults \in 0..MaxFaults
  /\ own \in [Page -> [Slot -> Write \union {Absent}]]
  /\ merged \in SUBSET Write
  /\ fate \in [Page -> {"well", "lost", "refused"}]

\* Write w of page p is on its way to the server.
InTransit(p, w) ==
  \/ \E i \in 1..Len(dumps[p]) : dumps[p][i] = w
  \/ post[p] # NoPost /\ w \in {post[p].doc.local, post[p].doc.db}
  \/ \E i \in 1..Len(wire[p]) :
       LET f == wire[p][i] IN f # Get /\ w \in {f.local, f.db}

\* suppressPush never outlives what it is for: pushes are suppressed only
\* while a snapshot is being applied, however applies overlap.
\* (onmessage, the startup function)
SuppressedOnlyWhileApplying ==
  \A p \in Page : suppress[p] => applies[p] # <<>>

\* A push is skipped only for content that was uploaded: what the last
\* signature stands for has been merged or is on its way, unless frames were
\* lost or refused since.  (pushSnapshot)
SkippedIsUploaded ==
  \A p \in Page : sig[p] # Unlike /\ fate[p] = "well" =>
    \A w \in {sig[p].local, sig[p].db} \intersect Write :
      w \in merged \/ InTransit(p, w)

\* The safety net: a write that stays in the page's storage is uploaded in the
\* end, also when it was made while pushes were suppressed, its request failed,
\* or its frame was lost, provided a socket that closed is opened again.  What
\* the server refuses is not uploaded until the page applies a snapshot.
\* (queuePush, the interval of startup, startWebSocket)
EveryWriteSettles ==
  (\A p \in Page : WF_vars(Open(p))) =>
    \A p \in Page, s \in Slot, w \in 1..MaxWrites :
      own[p][s] = w ~>
        w \in merged \/ store[p][s] # w \/ fate[p] = "refused"

\* The page's scripts run in the end, whatever becomes of the WebSocket.
\* (the race of startup, its catch and finally)
ScriptsRun == \A p \in Page : <>(boot[p] = "run")

\* "Hooks browser writes to trigger sync uploads" (readme.md): a write of the
\* application that it has not itself replaced is uploaded, is on its way, or
\* is at least still in the page's storage.
WriteSurvives ==
  \A p \in Page, s \in Slot : LET w == own[p][s] IN
    w # Absent => w \in merged \/ store[p][s] = w \/ InTransit(p, w)
=============================================================================
