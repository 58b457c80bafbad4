---------------------------- MODULE SessionStore ----------------------------
(***************************************************************************)
(* SessionStore (sync_store.go): the SQLite store of the browser state that*)
(* the injected WebUI script uploads, and concurrent calls of its          *)
(* MergeAndSave.  A call reads the current row outside any transaction,    *)
(* merges in memory, and then writes row and attachments in one            *)
(* transaction.  SQLite (WAL mode) admits one writing transaction, and a   *)
(* second one fails at its first write instead of waiting.                 *)
(*                                                                         *)
(* A document (localStorage plus IndexedDB) is flattened to its leaves: a  *)
(* partial function from slots to content.  A slot is a localStorage key   *)
(* or an IndexedDB cell: a database, store, record key and path, where an  *)
(* element of an array is a cell of its own, since arrays merge as unions. *)
(***************************************************************************)
EXTENDS Naturals, Sequences

CONSTANTS Request,    \* the calls of MergeAndSave
          Space,      \* the (user, scope) pairs, the primary key of the tables
          LocalKey,   \* the localStorage keys
          Cell,       \* the IndexedDB cells
          Value,      \* plain content
          Blob,       \* base64 content, identified by its hash
          Payload,    \* what a browser may upload
          NoRequest   \* nobody holds the write lock

Slot == LocalKey \union Cell

\* {"__attachment_ref": hash, ...}, what replaces a base64 string.
Ref(b) == [hash |-> b]

Content == Value \union Blob \union {Ref(b) : b \in Blob}
Document == UNION {[S -> Content] : S \in SUBSET Slot}
EmptyDocument == [x \in {} |-> x]

ASSUME StoreAssumption ==
  /\ LocalKey \intersect Cell = {}
  /\ Payload \subseteq Document
  /\ NoRequest \notin Request

(***************************************************************************)
(* Pure functions of sync_store.go.                                        *)
(***************************************************************************)

\* Mutant: existing leaves win.
MutantOverrideExistingWins(existing, incoming) ==
  [x \in DOMAIN existing \union DOMAIN incoming |->
     IF x \in DOMAIN existing THEN existing[x] ELSE incoming[x]]

\* mergeLocalStorage and mergeIndexedDB: incoming leaves win, the others stay.
Override(existing, incoming) ==
  [x \in DOMAIN existing \union DOMAIN incoming |->
     IF x \in DOMAIN incoming THEN incoming[x] ELSE existing[x]]

\* Mutant: every string of IndexedDB is taken for base64.
MutantSanitizeAnyString(p) ==
  [x \in DOMAIN p |-> IF x \in Cell THEN Ref(p[x]) ELSE p[x]]

\* sanitizeAndExtractIndexedDB: base64 content of IndexedDB, and of nothing
\* else, becomes a reference.
Sanitize(p) ==
  [x \in DOMAIN p |-> IF x \in Cell /\ p[x] \in Blob THEN Ref(p[x]) ELSE p[x]]

\* The merge of a payload into a row.
Merge(existing, p) == Override(existing, Sanitize(p))

\* The uploads Sanitize collects, one per hash.
Uploads(p) == {b \in Blob : \E x \in DOMAIN p \intersect Cell : p[x] = b}

\* The attachments a document refers to.
Refs(d) == {b \in Blob : \E x \in DOMAIN d : d[x] = Ref(b)}

-----------------------------------------------------------------------------
VARIABLES
  pc,       \* pc[r]: where call r is
  doc,      \* doc[r]: the uploaded document, as decoded
  space,    \* space[r]: the row it goes to
  base,     \* base[r]: position in the history of the row GetSnapshot returned
  at,       \* at[r]: position of the row r committed, 0 before that
  history,  \* history[s]: rows committed for s; the last one is in the database
  att,      \* att[s]: hashes in table attachments
  writer,   \* the call that holds SQLite's write lock
  stored    \* hashes inserted by the writer's open transaction

vars == <<pc, doc, space, base, at, history, att, writer, stored>>

Row(s) == history[s][Len(history[s])]

Committed(r) == at[r] > 0
CommittedIn(s) == {r \in Request : Committed(r) /\ space[r] = s}

\* Mutant: the payload is merged before its attachments are extracted.
MutantMergedRaw(r) == Override(history[space[r]][base[r]], doc[r])

\* The row r writes: what it read, overridden by what was uploaded.
Merged(r) == Merge(history[space[r]][base[r]], doc[r])

Init ==
  /\ pc = [r \in Request |-> "idle"]
  /\ doc = [r \in Request |-> EmptyDocument]
  /\ space \in [Request -> Space]
  /\ base = [r \in Request |-> 1]
  /\ at = [r \in Request |-> 0]
  /\ history = [s \in Space |-> <<EmptyDocument>>]
  /\ att = [s \in Space |-> {}]
  /\ writer = NoRequest
  /\ stored = {}

-----------------------------------------------------------------------------
\* The call starts: GetSnapshot returns the current row (no row is an empty
\* document), which is merged in memory.  A browser can only send references
\* it was given, in any space: its storage is per origin, not per scope.
ReadExisting(r, p) ==
  /\ pc[r] = "idle"
  /\ Refs(p) \subseteq UNION {att[s] : s \in Space}
  /\ pc' = [pc EXCEPT ![r] = "merged"]
  /\ doc' = [doc EXCEPT ![r] = p]
  /\ base' = [base EXCEPT ![r] = Len(history[space[r]])]
  /\ UNCHANGED <<space, at, history, att, writer, stored>>

\* Begin and the upsert of session_states, which takes the write lock.
Upsert(r) ==
  /\ pc[r] = "merged"
  /\ writer = NoRequest
  /\ pc' = [pc EXCEPT ![r] = "saving"]
  /\ writer' = r
  /\ stored' = {}
  /\ UNCHANGED <<doc, space, base, at, history, att>>

\* Mutant: attachments are inserted outside the transaction.
MutantStoreAttachmentNow(r, b) ==
  /\ pc[r] = "saving"
  /\ b \in Uploads(doc[r]) \ stored
  /\ stored' = stored \union {b}
  /\ att' = [att EXCEPT ![space[r]] = @ \union {b}]
  /\ UNCHANGED <<pc, doc, space, base, at, history, writer>>

\* One INSERT OR IGNORE INTO attachments.
StoreAttachment(r, b) ==
  /\ pc[r] = "saving"
  /\ b \in Uploads(doc[r]) \ stored
  /\ stored' = stored \union {b}
  /\ UNCHANGED <<pc, doc, space, base, at, history, att, writer>>

\* Mutant: the transaction is committed before the uploads are inserted.
MutantCommitEarly(r) ==
  LET s == space[r] IN
  /\ pc[r] = "saving"
  /\ history' = [history EXCEPT ![s] = Append(@, Merged(r))]
  /\ att' = [att EXCEPT ![s] = @ \union stored]
  /\ at' = [at EXCEPT ![r] = Len(history[s]) + 1]
  /\ pc' = [pc EXCEPT ![r] = "done"]
  /\ writer' = NoRequest
  /\ stored' = {}
  /\ UNCHANGED <<doc, space, base>>

\* tx.Commit: the row and the attachments become visible together.
Commit(r) ==
  LET s == space[r] IN
  /\ pc[r] = "saving"
  /\ Uploads(doc[r]) \subseteq stored
  /\ history' = [history EXCEPT ![s] = Append(@, Merged(r))]
  /\ att' = [att EXCEPT ![s] = @ \union stored]
  /\ at' = [at EXCEPT ![r] = Len(history[s]) + 1]
  /\ pc' = [pc EXCEPT ![r] = "done"]
  /\ writer' = NoRequest
  /\ stored' = {}
  /\ UNCHANGED <<doc, space, base>>

\* Any error return: a failed read, a malformed payload, a busy database, a
\* failed insert or commit.  The deferred Rollback drops the transaction.
Fail(r) ==
  /\ pc[r] \in {"idle", "merged", "saving"}
  /\ pc' = [pc EXCEPT ![r] = "failed"]
  /\ IF writer = r THEN writer' = NoRequest /\ stored' = {}
                   ELSE UNCHANGED <<writer, stored>>
  /\ UNCHANGED <<doc, space, base, at, history, att>>

\* The process dies: calls in flight and the open transaction are lost, what
\* was committed stays.
Crash ==
  /\ pc' = [r \in Request |->
              IF pc[r] \in {"merged", "saving"} THEN "failed" ELSE pc[r]]
  /\ writer' = NoRequest
  /\ stored' = {}
  /\ UNCHANGED <<doc, space, base, at, history, att>>

Next == \/ \E r \in Request : \/ \E p \in Payload : ReadExisting(r, p)
                              \/ Upsert(r)
                              \/ \E b \in Blob : StoreAttachment(r, b)
                              \/ Commit(r)
                              \/ Fail(r)
        \/ Crash

Spec == Init /\ [][Next]_vars

-----------------------------------------------------------------------------
TypeOK ==
  /\ pc \in [Request -> {"idle", "merged", "saving", "done", "failed"}]
  /\ doc \in [Request -> Document]
  /\ space \in [Request -> Space]
  /\ base \in [Request -> Nat \ {0}]
  /\ at \in [Request -> Nat]
  /\ history \in [Space -> Seq(Document)]
  /\ att \in [Space -> SUBSET Blob]
  /\ writer \in Request \union {NoRequest}
  /\ stored \in SUBSET Blob

\* The content call r uploaded for slot x is what row d holds there.
Holds(d, r, x) == x \in DOMAIN d /\ d[x] = Sanitize(doc[r])[x]

\* By position i a later call of the same space uploaded slot x itself ...
Overwritten(r, x, i) ==
  \E w \in CommittedIn(space[r]) :
    at[r] < at[w] /\ at[w] <= i /\ x \in DOMAIN doc[w]

\* ... or a call that had read before r committed has committed after it.
Overtaken(r, i) ==
  \E w \in CommittedIn(space[r]) :
    base[w] < at[r] /\ at[r] < at[w] /\ at[w] <= i

\* Last write wins per slot: what a committed call uploaded is still in the
\* row unless a later call uploaded the same slot, or a call that overlapped
\* it (read before, committed after) wrote the whole row over it.  Nothing
\* else, no failure, crash or call on another space, ever loses an upload.
\* (MergeAndSave, mergeLocalStorage, mergeIndexedDB)
LastWriteWins ==
  \A r \in Request : Committed(r) =>
    LET s == space[r] IN
    \A x \in DOMAIN doc[r] :
      \/ Holds(Row(s), r, x)
      \/ Overwritten(r, x, Len(history[s]))
      \/ Overtaken(r, Len(history[s]))

\* A reference in any row stands for an attachment that some space has stored:
\* the row and its uploads are one transaction, and what a browser sends back
\* it was given.  The space need not be the row's own: a browser keeps one
\* storage for all scopes.  (MergeAndSave, extractAttachmentReference)
RefsBacked ==
  \A s \in Space : Refs(Row(s)) \subseteq UNION {att[t] : t \in Space}

\* Failed, crashed and unfinished calls leave no trace: each slot of a row
\* was uploaded for that space by a call that committed, and so was each
\* stored attachment.  (the transaction and its deferred Rollback)
OnlyCommittedData ==
  \A s \in Space :
    /\ \A x \in DOMAIN Row(s) :
         \E r \in CommittedIn(s) : x \in DOMAIN doc[r] /\ Holds(Row(s), r, x)
    /\ att[s] \subseteq UNION {Uploads(doc[r]) : r \in CommittedIn(s)}

\* The store implements the abstract log of merged rows: a commit saves over
\* the row the call had read, every other step is invisible.
Log == INSTANCE MergeLog WITH Delta <- Payload, log <- history, kept <- att,
         Override <- Merge
ImplementsLog == Log!Spec

\* What readme.md promises of a sync, "union/upsert behavior for record-like
\* structures": a cell some acknowledged sync uploaded is in the merged state
\* from then on.
UnionKeepsAcked ==
  \A s \in Space : \A r \in CommittedIn(s) :
    DOMAIN doc[r] \intersect Cell \subseteq DOMAIN Row(s)
=============================================================================
