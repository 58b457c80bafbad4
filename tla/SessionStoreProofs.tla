------------------------- MODULE SessionStoreProofs -------------------------
(***************************************************************************)
(* Proofs about SessionStore, for any number of calls, spaces, slots and   *)
(* contents: its type invariant, the four safety properties its run checks *)
(* and that it implements MergeLog.                                        *)
(***************************************************************************)
EXTENDS SessionStore, SequenceTheorems, TLAPS

\* Where positions in the histories point.
Positions ==
  /\ \A s \in Space : Len(history[s]) >= 1
  /\ \A r \in Request : /\ base[r] <= Len(history[space[r]])
                        /\ at[r] <= Len(history[space[r]])
                        /\ pc[r] # "done" => at[r] = 0

\* Only the holder of the write lock is saving, and it has inserted nothing
\* but its own uploads.
SingleWriter ==
  \A r \in Request :
    pc[r] = "saving" => writer = r /\ stored \subseteq Uploads(doc[r])

Structure == TypeOK /\ Positions /\ SingleWriter

\* A call that is under way carries a payload.
InHand == \A r \in Request : pc[r] \in {"merged", "saving"} => doc[r] \in Payload

\* LastWriteWins of every row since the commit, not only of the last one: a
\* later call may still have read any of them.
Lasting ==
  \A r \in Request : Committed(r) =>
    \A i \in at[r]..Len(history[space[r]]), x \in DOMAIN doc[r] :
      \/ Holds(history[space[r]][i], r, x)
      \/ Overwritten(r, x, i)
      \/ Overtaken(r, i)

AllStored == UNION {att[t] : t \in Space}

\* RefsBacked of every row there was, and of what calls have in hand.
Backed ==
  /\ \A s \in Space : \A i \in 1..Len(history[s]) :
       Refs(history[s][i]) \subseteq AllStored
  /\ \A r \in Request : Refs(doc[r]) \subseteq AllStored

\* OnlyCommittedData of every row there was.
Traced ==
  \A s \in Space :
    /\ \A i \in 1..Len(history[s]) : \A x \in DOMAIN history[s][i] :
         \E r \in CommittedIn(s) :
           x \in DOMAIN doc[r] /\ Holds(history[s][i], r, x)
    /\ att[s] \subseteq UNION {Uploads(doc[r]) : r \in CommittedIn(s)}

-----------------------------------------------------------------------------
(***************************************************************************)
(* The pure functions.                                                     *)
(***************************************************************************)

\* A document is a function from some slots to content.
LEMMA DocumentMember ==
  \A d : d \in Document <=> \E S \in SUBSET Slot : d \in [S -> Content]
BY DEF Document

\* Extraction keeps the slots, and yields a document.
LEMMA SanitizeDocument ==
  ASSUME NEW p \in Document
  PROVE  Sanitize(p) \in Document /\ DOMAIN Sanitize(p) = DOMAIN p
<1>1. PICK S \in SUBSET Slot : p \in [S -> Content]
  BY DocumentMember
<1>2. \A x \in S : Sanitize(p)[x] \in Content
  BY <1>1 DEF Sanitize, Content
<1>3. DOMAIN Sanitize(p) = S /\ Sanitize(p) \in [S -> Content]
  BY <1>1, <1>2 DEF Sanitize
<1> QED BY <1>1, <1>3, DocumentMember

\* A merge has the slots of both sides; the payload's content wins.
LEMMA MergeDocument ==
  ASSUME NEW e \in Document, NEW p \in Document
  PROVE  /\ Merge(e, p) \in Document
         /\ DOMAIN Merge(e, p) = DOMAIN e \union DOMAIN p
         /\ \A x \in DOMAIN p : Merge(e, p)[x] = Sanitize(p)[x]
         /\ \A x \in DOMAIN e \ DOMAIN p : Merge(e, p)[x] = e[x]
<1>1. PICK S \in SUBSET Slot : e \in [S -> Content]
  BY DocumentMember
<1>2. PICK T \in SUBSET Slot : Sanitize(p) \in [T -> Content]
  BY SanitizeDocument, DocumentMember
<1>3. DOMAIN p = T
  BY <1>2, SanitizeDocument
<1>4. Merge(e, p) = [x \in S \union T |->
                       IF x \in T THEN Sanitize(p)[x] ELSE e[x]]
  BY <1>1, <1>2 DEF Merge, Override
<1>5. Merge(e, p) \in [S \union T -> Content]
  BY <1>1, <1>2, <1>4
<1>6. Merge(e, p) \in Document
  BY <1>5, DocumentMember
<1> QED BY <1>1, <1>3, <1>4, <1>6

\* A merged row refers to nothing the old row and the payload do not bring.
LEMMA RefsOfMerge ==
  ASSUME NEW e \in Document, NEW p \in Document
  PROVE  Refs(Merge(e, p)) \subseteq Refs(e) \union Refs(p) \union Uploads(p)
<1> SUFFICES ASSUME NEW b \in Refs(Merge(e, p))
             PROVE  b \in Refs(e) \union Refs(p) \union Uploads(p)
  OBVIOUS
<1>1. PICK x \in DOMAIN e \union DOMAIN p : Merge(e, p)[x] = Ref(b)
  BY MergeDocument DEF Refs
<1>0. b \in Blob
  BY DEF Refs
<1>2. CASE x \notin DOMAIN p
  <2>1. x \in DOMAIN e \ DOMAIN p
    BY <1>2
  <2>2. Merge(e, p)[x] = e[x]
    BY <2>1, MergeDocument
  <2>3. x \in DOMAIN e /\ e[x] = Ref(b)
    BY <1>1, <2>1, <2>2
  <2> QED BY <1>0, <2>3 DEF Refs
<1>3. CASE x \in DOMAIN p
  <2>1. Sanitize(p)[x] = Ref(b)
    BY <1>1, <1>3, MergeDocument
  <2>2. CASE x \in Cell /\ p[x] \in Blob
    <3>1. Ref(p[x]) = Ref(b)
      BY <1>3, <2>1, <2>2 DEF Sanitize
    <3>2. p[x] = b
      BY <3>1 DEF Ref
    <3> QED BY <1>0, <1>3, <2>2, <3>2 DEF Uploads
  <2>3. CASE ~(x \in Cell /\ p[x] \in Blob)
    BY <1>0, <1>3, <2>1, <2>3 DEF Sanitize, Refs
  <2> QED BY <2>2, <2>3
<1> QED BY <1>2, <1>3

-----------------------------------------------------------------------------
(***************************************************************************)
(* Structure.                                                              *)
(***************************************************************************)

\* A call that has the lock commits: its space gets one more row, the merge.
LEMMA CommitStep ==
  ASSUME Structure, NEW r \in Request, Commit(r)
  PROVE  /\ space[r] \in Space
         /\ Merged(r) \in Document
         /\ Len(history[space[r]]) \in Nat
         /\ at' = [at EXCEPT ![r] = Len(history[space[r]]) + 1]
         /\ history' = [history EXCEPT ![space[r]] = Append(@, Merged(r))]
         /\ history' \in [Space -> Seq(Document)]
         /\ Len(history'[space[r]]) = Len(history[space[r]]) + 1
         /\ \A i \in 1..Len(history[space[r]]) :
              history'[space[r]][i] = history[space[r]][i]
         /\ history'[space[r]][Len(history[space[r]]) + 1] = Merged(r)
         /\ \A s \in Space \ {space[r]} : history'[s] = history[s]
<1> DEFINE s == space[r]
<1>1. s \in Space /\ history \in [Space -> Seq(Document)]
  BY DEF Structure, TypeOK
<1>2. base[r] \in 1..Len(history[s])
  BY <1>1 DEF Structure, TypeOK, Positions
<1>3. history[s][base[r]] \in Document /\ doc[r] \in Document
  BY <1>1, <1>2 DEF Structure, TypeOK
<1>4. Merged(r) \in Document
  BY <1>3, MergeDocument DEF Merged
<1>5. /\ history' = [history EXCEPT ![s] = Append(@, Merged(r))]
      /\ at' = [at EXCEPT ![r] = Len(history[s]) + 1]
  BY DEF Commit
<1>6. history'[s] = Append(history[s], Merged(r))
  BY <1>1, <1>5
<1>7. /\ Append(history[s], Merged(r)) \in Seq(Document)
      /\ Len(Append(history[s], Merged(r))) = Len(history[s]) + 1
      /\ \A i \in 1..Len(history[s]) :
           Append(history[s], Merged(r))[i] = history[s][i]
      /\ Append(history[s], Merged(r))[Len(history[s]) + 1] = Merged(r)
  BY <1>1, <1>4
<1> QED BY <1>1, <1>4, <1>5, <1>6, <1>7

\* What the committed row holds, slot by slot.
LEMMA MergedRow ==
  ASSUME Structure, NEW r \in Request,
         NEW old, old = history[space[r]][base[r]]
  PROVE  /\ old \in Document /\ doc[r] \in Document
         /\ DOMAIN Merged(r) = DOMAIN old \union DOMAIN doc[r]
         /\ \A x \in DOMAIN doc[r] : Merged(r)[x] = Sanitize(doc[r])[x]
         /\ \A x \in DOMAIN old \ DOMAIN doc[r] : Merged(r)[x] = old[x]
<1>1. old \in Document /\ doc[r] \in Document
  BY DEF Structure, TypeOK, Positions
<1>2. Merged(r) = Merge(old, doc[r])
  BY DEF Merged
<1>3. /\ DOMAIN Merge(old, doc[r]) = DOMAIN old \union DOMAIN doc[r]
      /\ \A x \in DOMAIN doc[r] : Merge(old, doc[r])[x] = Sanitize(doc[r])[x]
      /\ \A x \in DOMAIN old \ DOMAIN doc[r] : Merge(old, doc[r])[x] = old[x]
  BY <1>1, MergeDocument
<1> QED BY <1>1, <1>2, <1>3

\* Structure holds initially.
LEMMA StructureInit == Init => Structure
<1> SUFFICES ASSUME Init PROVE Structure
  OBVIOUS
<1>1. EmptyDocument \in Document
  <2>1. EmptyDocument \in [{} -> Content]
    BY DEF EmptyDocument
  <2> QED BY <2>1, DocumentMember
<1>2. <<EmptyDocument>> \in Seq(Document) /\ Len(<<EmptyDocument>>) = 1
  BY <1>1
<1>3. TypeOK
  BY <1>1, <1>2 DEF Init, TypeOK
<1>4. Positions
  BY <1>2, <1>3 DEF Init, TypeOK, Positions
<1>5. SingleWriter
  BY DEF Init, SingleWriter
<1> QED BY <1>3, <1>4, <1>5 DEF Structure

\* Every step keeps Structure.
LEMMA StructureStep == Structure /\ [Next]_vars => Structure'
<1> SUFFICES ASSUME Structure, [Next]_vars PROVE Structure'
  OBVIOUS
<1> USE DEF Structure
<1>1. ASSUME NEW r \in Request, NEW p \in Payload, ReadExisting(r, p)
      PROVE  Structure'
  <2>1. p \in Document
    BY StoreAssumption
  <2>2. Len(history[space[r]]) \in Nat \ {0}
    BY DEF TypeOK, Positions
  <2>3. TypeOK'
    BY <1>1, <2>1, <2>2 DEF TypeOK, ReadExisting
  <2>4. Positions'
    BY <1>1, <2>2 DEF TypeOK, ReadExisting, Positions
  <2>5. SingleWriter'
    BY <1>1 DEF TypeOK, ReadExisting, SingleWriter
  <2> QED BY <2>3, <2>4, <2>5
<1>2. ASSUME NEW r \in Request, Upsert(r)
      PROVE  Structure'
  <2>1. TypeOK'
    BY <1>2 DEF TypeOK, Upsert
  <2>2. Positions'
    BY <1>2 DEF TypeOK, Upsert, Positions
  <2>3. SingleWriter'
    BY <1>2, StoreAssumption DEF TypeOK, Upsert, SingleWriter
  <2> QED BY <2>1, <2>2, <2>3
<1>3. ASSUME NEW r \in Request, NEW b \in Blob, StoreAttachment(r, b)
      PROVE  Structure'
  <2>1. TypeOK'
    BY <1>3 DEF TypeOK, StoreAttachment
  <2>2. Positions'
    BY <1>3 DEF StoreAttachment, Positions
  <2>3. SingleWriter'
    BY <1>3 DEF StoreAttachment, SingleWriter
  <2> QED BY <2>1, <2>2, <2>3
<1>4. ASSUME NEW r \in Request, Commit(r)
      PROVE  Structure'
  <2>1. /\ at' = [at EXCEPT ![r] = Len(history[space[r]]) + 1]
        /\ Len(history[space[r]]) \in Nat
        /\ history' \in [Space -> Seq(Document)]
    BY <1>4, CommitStep
  <2>2. at' \in [Request -> Nat] /\ history' \in [Space -> Seq(Document)]
    BY <2>1 DEF TypeOK
  <2>3. TypeOK'
    BY <1>4, <2>2 DEF TypeOK, Commit
  <2>4. Positions'
    BY <1>4, CommitStep DEF TypeOK, Commit, Positions
  <2>5. SingleWriter'
    BY <1>4 DEF TypeOK, Commit, SingleWriter
  <2> QED BY <2>3, <2>4, <2>5
<1>5. ASSUME NEW r \in Request, Fail(r)
      PROVE  Structure'
  <2>1. TypeOK'
    BY <1>5 DEF TypeOK, Fail
  <2>2. Positions'
    BY <1>5 DEF TypeOK, Fail, Positions
  <2>3. SingleWriter'
    BY <1>5 DEF TypeOK, Fail, SingleWriter
  <2> QED BY <2>1, <2>2, <2>3
<1>6. ASSUME Crash PROVE Structure'
  <2>1. TypeOK'
    BY <1>6 DEF TypeOK, Crash
  <2>2. Positions'
    BY <1>6 DEF TypeOK, Crash, Positions
  <2>3. SingleWriter'
    BY <1>6 DEF TypeOK, Crash, SingleWriter
  <2> QED BY <2>1, <2>2, <2>3
<1>7. ASSUME UNCHANGED vars PROVE Structure'
  BY <1>7 DEF vars, TypeOK, Positions, SingleWriter
<1> QED BY <1>1, <1>2, <1>3, <1>4, <1>5, <1>6, <1>7 DEF Next

\* Every variable keeps its type, and positions and the lock are consistent.
THEOREM StructureCorrect == Spec => []Structure
BY StructureInit, StructureStep, PTL DEF Spec

\* The type invariant the run checks: rows stay documents, whatever is merged
\* into them. (MergeAndSave)
THEOREM TypeCorrect == Spec => []TypeOK
<1>1. Structure => TypeOK
  BY DEF Structure
<1> QED BY <1>1, StructureCorrect, PTL

-----------------------------------------------------------------------------
(***************************************************************************)
(* Last write wins.                                                        *)
(***************************************************************************)

\* Steps other than a commit change nothing of committed calls and of rows.
LEMMA QuietStep ==
  ASSUME Structure, [Next]_vars, \A r \in Request : ~Commit(r)
  PROVE  /\ history' = history /\ att' = att /\ at' = at /\ space' = space
         /\ \A r \in Request : Committed(r) =>
              doc'[r] = doc[r] /\ base'[r] = base[r]
         /\ \A r \in Request :
              doc'[r] = doc[r] \/ Refs(doc'[r]) \subseteq AllStored
<1>1. ASSUME NEW r \in Request, NEW p \in Payload, ReadExisting(r, p)
      PROVE  /\ history' = history /\ att' = att /\ at' = at /\ space' = space
             /\ at[r] = 0
             /\ doc' = [doc EXCEPT ![r] = p]
             /\ base' = [base EXCEPT ![r] = Len(history[space[r]])]
             /\ Refs(p) \subseteq AllStored
  BY <1>1 DEF Structure, Positions, ReadExisting, AllStored
<1>2. ASSUME NEW r \in Request, NEW p \in Payload, ReadExisting(r, p)
      PROVE  /\ \A q \in Request : Committed(q) =>
                  doc'[q] = doc[q] /\ base'[q] = base[q]
             /\ \A q \in Request :
                  doc'[q] = doc[q] \/ Refs(doc'[q]) \subseteq AllStored
  BY <1>1, <1>2 DEF Structure, TypeOK, Committed
<1>3. CASE \E r \in Request, p \in Payload : ReadExisting(r, p)
  BY <1>1, <1>2, <1>3
<1>4. CASE UNCHANGED <<history, att, at, space, doc, base>>
  BY <1>4
<1> QED BY <1>3, <1>4
        DEF Next, vars, Upsert, StoreAttachment, Fail, Crash

\* The calls committed in a space, and what is on record about them, survive
\* every step; only a commit adds one.
LEMMA CommittedPersist ==
  ASSUME Structure, [Next]_vars,
         NEW s \in Space, NEW r \in CommittedIn(s)
  PROVE  /\ r \in CommittedIn(s)'
         /\ at'[r] = at[r] /\ base'[r] = base[r] /\ doc'[r] = doc[r]
         /\ space'[r] = space[r]
<1>1. ASSUME NEW c \in Request, Commit(c)
      PROVE  /\ space' = space /\ doc' = doc /\ base' = base
             /\ c # r
             /\ at'[r] = at[r]
  <2>1. at[c] = 0 /\ at[r] > 0 /\ r \in Request
    BY <1>1 DEF Commit, Structure, Positions, CommittedIn, Committed
  <2>2. at' = [at EXCEPT ![c] = Len(history[space[c]]) + 1]
    BY <1>1 DEF Commit
  <2>3. c # r /\ at'[r] = at[r]
    BY <2>1, <2>2 DEF Structure, TypeOK
  <2> QED BY <1>1, <2>3 DEF Commit
<1>2. CASE \E c \in Request : Commit(c)
  BY <1>1, <1>2 DEF CommittedIn, Committed
<1>3. CASE \A c \in Request : ~Commit(c)
  BY <1>3, QuietStep DEF CommittedIn, Committed
<1> QED BY <1>2, <1>3

\* A loss that has been accounted for stays accounted for.
LEMMA AccountedPersist ==
  ASSUME Structure, [Next]_vars, NEW s \in Space, NEW r \in CommittedIn(s),
         NEW x, NEW i \in Nat, NEW j \in Nat, i <= j
  PROVE  /\ Overwritten(r, x, i) => Overwritten(r, x, j)'
         /\ Overtaken(r, i) => Overtaken(r, j)'
<1>1. /\ r \in Request /\ space[r] = s
      /\ at'[r] = at[r] /\ space'[r] = s
  BY CommittedPersist DEF CommittedIn
<1>2. ASSUME NEW w \in CommittedIn(s)
      PROVE  /\ w \in CommittedIn(s)'
             /\ at'[w] = at[w] /\ base'[w] = base[w] /\ doc'[w] = doc[w]
             /\ at[w] \in Nat
  <2>1. at[w] \in Nat
    BY DEF CommittedIn, Structure, TypeOK
  <2> QED BY <2>1, CommittedPersist
<1>3. ASSUME NEW w \in CommittedIn(s), at[w] <= i
      PROVE  at'[w] <= j
  BY <1>2, <1>3
<1>4. ASSUME Overwritten(r, x, i) PROVE Overwritten(r, x, j)'
  BY <1>1, <1>2, <1>3, <1>4 DEF Overwritten
<1>5. ASSUME Overtaken(r, i) PROVE Overtaken(r, j)'
  BY <1>1, <1>2, <1>3, <1>5 DEF Overtaken
<1> QED BY <1>4, <1>5

\* Lasting holds initially.
LEMMA LastingInit == Init => Lasting
BY DEF Init, Lasting, Committed

\* Every step keeps Lasting.
LEMMA LastingStep == Structure /\ Lasting /\ [Next]_vars => Lasting'
<1> SUFFICES ASSUME Structure, Lasting, [Next]_vars,
                    NEW r \in Request, Committed(r)',
                    NEW i \in (at[r]..Len(history[space[r]]))',
                    NEW x \in DOMAIN doc'[r]
             PROVE  \/ Holds(history[space[r]][i], r, x)'
                    \/ Overwritten(r, x, i)'
                    \/ Overtaken(r, i)'
  BY DEF Lasting
<1> DEFINE s == space[r]
<1>0. space' = space /\ s \in Space /\ at[r] \in Nat /\ at'[r] \in Nat
  <2>1. TypeOK'
    BY StructureStep DEF Structure
  <2>2. space' = space
    BY DEF Next, vars, ReadExisting, Upsert, StoreAttachment, Commit, Fail, Crash
  <2> QED BY <2>1, <2>2 DEF Structure, TypeOK
\* Rows that were there before.
<1>1. CASE /\ Committed(r)
           /\ i \in at[r]..Len(history[s])
           /\ history'[s][i] = history[s][i]
  <2>1. r \in CommittedIn(s)
    BY <1>1 DEF CommittedIn
  <2>2. doc'[r] = doc[r] /\ i \in Nat
    BY <1>0, <1>1, <2>1, CommittedPersist
  <2>3. \/ Holds(history[s][i], r, x)
        \/ Overwritten(r, x, i)
        \/ Overtaken(r, i)
    BY <1>1, <2>2 DEF Lasting
  <2>4. Holds(history[s][i], r, x) => Holds(history[s][i], r, x)'
    BY <1>0, <1>1, <2>2 DEF Holds
  <2>5. /\ Overwritten(r, x, i) => Overwritten(r, x, i)'
        /\ Overtaken(r, i) => Overtaken(r, i)'
    BY <1>0, <2>1, <2>2, AccountedPersist
  <2> QED BY <2>3, <2>4, <2>5
<1>2. CASE \A c \in Request : ~Commit(c)
  BY <1>0, <1>1, <1>2, QuietStep DEF Committed
<1>3. ASSUME NEW c \in Request, Commit(c)
      PROVE  \/ Holds(history[s][i], r, x)'
             \/ Overwritten(r, x, i)'
             \/ Overtaken(r, i)'
  <2> DEFINE n == Len(history[space[c]])
  <2>1. /\ n \in Nat
        /\ at' = [at EXCEPT ![c] = n + 1]
        /\ Len(history'[space[c]]) = n + 1
        /\ \A j \in 1..n : history'[space[c]][j] = history[space[c]][j]
        /\ history'[space[c]][n + 1] = Merged(c)
        /\ \A t \in Space \ {space[c]} : history'[t] = history[t]
        /\ doc' = doc /\ base' = base
    BY <1>3, CommitStep DEF Commit
  <2>2. /\ base[c] \in 1..n
        /\ history[space[c]][base[c]] \in Document
        /\ doc[c] \in Document
        /\ c \in CommittedIn(space[c])'
        /\ at'[c] = n + 1
    BY <1>0, <2>1 DEF Structure, TypeOK, Positions, CommittedIn, Committed
  <2>3. CASE r = c
    <3>1. i = n + 1
      BY <1>0, <2>1, <2>2, <2>3
    <3>2. x \in DOMAIN Merged(c) /\ Merged(c)[x] = Sanitize(doc[c])[x]
      BY <2>1, <2>3, MergedRow
    <3> QED BY <1>0, <2>1, <2>3, <3>1, <3>2 DEF Holds
  <2>4. CASE r # c
    <3>1. at'[r] = at[r] /\ Committed(r) /\ r \in CommittedIn(s)
      BY <1>0, <2>1, <2>4 DEF Structure, TypeOK, Committed, CommittedIn
    <3>2. CASE s # space[c] \/ i \in 1..n
      <4>1. i \in at[r]..Len(history[s]) /\ history'[s][i] = history[s][i]
        BY <1>0, <2>1, <3>1, <3>2 DEF Committed
      <4> QED BY <1>1, <3>1, <4>1
    <3>3. CASE s = space[c] /\ i = n + 1
      <4>1. at[r] <= n
        BY <3>3 DEF Structure, Positions
      <4>2. CASE base[c] < at[r]
        BY <1>0, <2>1, <2>2, <3>1, <3>3, <4>1, <4>2 DEF Overtaken
      <4>3. CASE ~(base[c] < at[r])
        <5>1. base[c] \in at[r]..Len(history[s]) /\ base[c] \in Nat
          BY <1>0, <2>1, <2>2, <3>3, <4>3
        <5>2. \/ Holds(history[s][base[c]], r, x)
              \/ Overwritten(r, x, base[c])
              \/ Overtaken(r, base[c])
          BY <2>1, <3>1, <5>1 DEF Lasting
        <5>3. /\ Overwritten(r, x, base[c]) => Overwritten(r, x, i)'
              /\ Overtaken(r, base[c]) => Overtaken(r, i)'
          <6>1. i \in Nat /\ base[c] <= i
            BY <2>1, <2>2, <3>3
          <6> QED BY <1>0, <3>1, <5>1, <6>1, AccountedPersist
        <5>4. CASE Holds(history[s][base[c]], r, x) /\ x \in DOMAIN doc[c]
          BY <1>0, <2>1, <2>2, <3>1, <3>3, <4>1, <5>4 DEF Overwritten
        <5>5. CASE Holds(history[s][base[c]], r, x) /\ x \notin DOMAIN doc[c]
          <6> DEFINE old == history[space[c]][base[c]]
          <6>1. x \in DOMAIN old /\ old[x] = Sanitize(doc[r])[x]
            BY <3>3, <5>5 DEF Holds
          <6>2. /\ DOMAIN Merged(c) = DOMAIN old \union DOMAIN doc[c]
                /\ \A y \in DOMAIN old \ DOMAIN doc[c] : Merged(c)[y] = old[y]
            BY MergedRow
          <6> HIDE DEF old
          <6>3. x \in DOMAIN Merged(c) /\ Merged(c)[x] = Sanitize(doc[r])[x]
            BY <5>5, <6>1, <6>2
          <6> QED BY <1>0, <2>1, <3>3, <6>3 DEF Holds
        <5> QED BY <5>2, <5>3, <5>4, <5>5
      <4> QED BY <4>2, <4>3
    <3>4. i \in 1..n \/ i = n + 1 \/ s # space[c]
      BY <1>0, <2>1, <3>1 DEF Committed
    <3> QED BY <3>2, <3>3, <3>4
  <2> QED BY <2>3, <2>4
<1> QED BY <1>0, <1>2, <1>3

\* An upload a call has been acknowledged for is lost only to a later upload
\* of the same slot or to an overlapping call. (MergeAndSave)
THEOREM LastWriteWinsCorrect == Spec => []LastWriteWins
<1>1. Structure /\ Lasting => LastWriteWins
  <2> SUFFICES ASSUME Structure, Lasting, NEW r \in Request, Committed(r),
                      NEW x \in DOMAIN doc[r]
               PROVE  \/ Holds(Row(space[r]), r, x)
                      \/ Overwritten(r, x, Len(history[space[r]]))
                      \/ Overtaken(r, Len(history[space[r]]))
    BY DEF LastWriteWins
  <2>1. Len(history[space[r]]) \in at[r]..Len(history[space[r]])
    BY DEF Structure, TypeOK, Positions, Committed
  <2> QED BY <2>1 DEF Lasting, Row
<1>2. Init => Structure /\ Lasting
  BY StructureInit, LastingInit
<1>3. Structure /\ Lasting /\ [Next]_vars => (Structure /\ Lasting)'
  BY StructureStep, LastingStep
<1> QED BY <1>1, <1>2, <1>3, PTL DEF Spec

-----------------------------------------------------------------------------
(***************************************************************************)
(* References and attachments.                                             *)
(***************************************************************************)

\* What a commit does to the attachments, and what it may have stored.
LEMMA CommitAttachments ==
  ASSUME Structure, NEW c \in Request, Commit(c)
  PROVE  /\ stored = Uploads(doc[c])
         /\ att' = [att EXCEPT ![space[c]] = @ \union stored]
         /\ att'[space[c]] = att[space[c]] \union stored
         /\ \A s \in Space \ {space[c]} : att'[s] = att[s]
         /\ doc' = doc /\ space' = space
<1>1. stored = Uploads(doc[c])
  BY DEF Commit, Structure, SingleWriter
<1>2. att' = [att EXCEPT ![space[c]] = @ \union stored]
  BY DEF Commit
<1> QED BY <1>1, <1>2 DEF Structure, TypeOK, Commit

\* Attachments are never removed.
LEMMA StoredGrows == Structure /\ [Next]_vars => AllStored \subseteq AllStored'
<1> SUFFICES ASSUME Structure, [Next]_vars PROVE AllStored \subseteq AllStored'
  OBVIOUS
<1>1. CASE \E c \in Request : Commit(c)
  BY <1>1, CommitAttachments DEF AllStored
<1>2. CASE \A c \in Request : ~Commit(c)
  BY <1>2, QuietStep DEF AllStored
<1> QED BY <1>1, <1>2

\* An empty document refers to nothing.
LEMMA EmptyRefs == Refs(EmptyDocument) = {}
BY DEF Refs, EmptyDocument

\* Backed holds initially.
LEMMA BackedInit == Init => Backed
<1> SUFFICES ASSUME Init PROVE Backed
  OBVIOUS
<1>1. \A s \in Space : /\ Len(history[s]) = 1
                       /\ history[s][1] = EmptyDocument
  BY DEF Init
<1>2. \A r \in Request : doc[r] = EmptyDocument
  BY DEF Init
<1> QED BY <1>1, <1>2, EmptyRefs DEF Backed

\* Every step keeps Backed.
LEMMA BackedStep == Structure /\ Backed /\ [Next]_vars => Backed'
<1> SUFFICES ASSUME Structure, Backed, [Next]_vars PROVE Backed'
  OBVIOUS
<1>1. AllStored \subseteq AllStored'
  BY StoredGrows
<1>2. CASE \A c \in Request : ~Commit(c)
  <2>1. history' = history
    BY <1>2, QuietStep
  <2>2. \A r \in Request : Refs(doc'[r]) \subseteq AllStored
    BY <1>2, QuietStep DEF Backed
  <2> QED BY <1>1, <2>1, <2>2 DEF Backed, Refs
<1>3. ASSUME NEW c \in Request, Commit(c)
      PROVE  Backed'
  <2> DEFINE n == Len(history[space[c]])
             old == history[space[c]][base[c]]
  <2>1. /\ n \in Nat
        /\ Len(history'[space[c]]) = n + 1
        /\ \A i \in 1..n : history'[space[c]][i] = history[space[c]][i]
        /\ history'[space[c]][n + 1] = Merged(c)
        /\ \A s \in Space \ {space[c]} : history'[s] = history[s]
        /\ space[c] \in Space
    BY <1>3, CommitStep
  <2>2. base[c] \in 1..n /\ old \in Document /\ doc[c] \in Document
    BY <2>1 DEF Structure, TypeOK, Positions
  <2>3. Refs(Merged(c)) \subseteq Refs(old) \union Refs(doc[c]) \union Uploads(doc[c])
    BY <2>2, RefsOfMerge DEF Merged
  <2>4. Refs(old) \subseteq AllStored /\ Refs(doc[c]) \subseteq AllStored
    BY <2>1, <2>2 DEF Backed
  <2>5. Uploads(doc[c]) \subseteq AllStored'
    <3>1. att'[space[c]] = att[space[c]] \union Uploads(doc[c])
      BY <1>3, CommitAttachments
    <3> QED BY <2>1, <3>1 DEF AllStored
  <2>6. Refs(Merged(c)) \subseteq AllStored'
    BY <1>1, <2>3, <2>4, <2>5
  <2>7. ASSUME NEW s \in Space, NEW i \in 1..Len(history'[s])
        PROVE  Refs(history'[s][i]) \subseteq AllStored'
    <3>1. CASE s = space[c] /\ i = n + 1
      BY <2>1, <2>6, <3>1
    <3>2. CASE ~(s = space[c] /\ i = n + 1)
      <4>1. i \in 1..Len(history[s]) /\ history'[s][i] = history[s][i]
        BY <2>1, <3>2
      <4>2. Refs(history[s][i]) \subseteq AllStored
        BY <4>1 DEF Backed
      <4> QED BY <1>1, <4>1, <4>2
    <3> QED BY <3>1, <3>2
  <2>8. ASSUME NEW r \in Request
        PROVE  Refs(doc'[r]) \subseteq AllStored'
    <3>1. doc' = doc
      BY <1>3, CommitAttachments
    <3> QED BY <1>1, <3>1 DEF Backed
  <2> QED BY <2>7, <2>8 DEF Backed, Refs
<1> QED BY <1>2, <1>3

\* Every reference in a current row stands for a stored attachment.
\* (MergeAndSave, extractAttachmentReference)
THEOREM RefsBackedCorrect == Spec => []RefsBacked
<1>1. Structure /\ Backed => RefsBacked
  <2> SUFFICES ASSUME Structure, Backed, NEW s \in Space
               PROVE  Refs(Row(s)) \subseteq AllStored
    BY DEF RefsBacked, AllStored
  <2>1. Len(history[s]) \in 1..Len(history[s])
    BY DEF Structure, TypeOK, Positions
  <2> QED BY <2>1 DEF Backed, Row
<1>2. Init => Structure /\ Backed
  BY StructureInit, BackedInit
<1>3. Structure /\ Backed /\ [Next]_vars => (Structure /\ Backed)'
  BY StructureStep, BackedStep
<1> QED BY <1>1, <1>2, <1>3, PTL DEF Spec

-----------------------------------------------------------------------------
(***************************************************************************)
(* Nothing but committed data.                                             *)
(***************************************************************************)

\* Traced holds initially.
LEMMA TracedInit == Init => Traced
<1> SUFFICES ASSUME Init PROVE Traced
  OBVIOUS
<1>1. \A s \in Space : /\ Len(history[s]) = 1
                       /\ history[s][1] = EmptyDocument
                       /\ att[s] = {}
  BY DEF Init
<1>2. DOMAIN EmptyDocument = {}
  BY DEF EmptyDocument
<1> QED BY <1>1, <1>2 DEF Traced

\* What is traced to a committed call stays so.
LEMMA TracedPersist ==
  ASSUME Structure, [Next]_vars, NEW s \in Space
  PROVE  /\ \A d, x :
              (\E r \in CommittedIn(s) :
                 x \in DOMAIN doc[r] /\ x \in DOMAIN d
                 /\ d[x] = Sanitize(doc[r])[x])
              => \E r \in CommittedIn(s)' :
                   x \in DOMAIN doc'[r] /\ x \in DOMAIN d
                   /\ d[x] = Sanitize(doc'[r])[x]
         /\ \A b : b \in UNION {Uploads(doc[r]) : r \in CommittedIn(s)}
                   => b \in UNION {Uploads(doc'[r]) : r \in CommittedIn(s)'}
<1>1. \A r \in CommittedIn(s) : r \in CommittedIn(s)' /\ doc'[r] = doc[r]
  BY CommittedPersist
<1>2. ASSUME NEW d, NEW x, NEW r \in CommittedIn(s),
             x \in DOMAIN doc[r], x \in DOMAIN d, d[x] = Sanitize(doc[r])[x]
      PROVE  \E q \in CommittedIn(s)' :
               x \in DOMAIN doc'[q] /\ x \in DOMAIN d
               /\ d[x] = Sanitize(doc'[q])[x]
  <2>1. r \in CommittedIn(s)' /\ doc'[r] = doc[r]
    BY <1>1
  <2> QED BY <1>2, <2>1
<1>3. ASSUME NEW b, NEW r \in CommittedIn(s), b \in Uploads(doc[r])
      PROVE  \E q \in CommittedIn(s)' : b \in Uploads(doc'[q])
  BY <1>1, <1>3
<1> QED BY <1>2, <1>3

\* Every step keeps Traced.
LEMMA TracedStep == Structure /\ Traced /\ [Next]_vars => Traced'
<1> SUFFICES ASSUME Structure, Traced, [Next]_vars, NEW s \in Space
             PROVE  /\ \A i \in 1..Len(history'[s]) :
                         \A x \in DOMAIN history'[s][i] :
                           \E r \in CommittedIn(s)' :
                             /\ x \in DOMAIN doc'[r]
                             /\ x \in DOMAIN history'[s][i]
                             /\ history'[s][i][x] = Sanitize(doc'[r])[x]
                    /\ \A b \in att'[s] :
                         b \in UNION {Uploads(doc'[r]) : r \in CommittedIn(s)'}
  BY DEF Traced, Holds, Sanitize, Uploads
\* Rows and attachments that were there before.
<1>1. ASSUME NEW i \in 1..Len(history[s]), NEW x \in DOMAIN history[s][i]
      PROVE  \E r \in CommittedIn(s)' :
               /\ x \in DOMAIN doc'[r]
               /\ x \in DOMAIN history[s][i]
               /\ history[s][i][x] = Sanitize(doc'[r])[x]
  <2>1. \E r \in CommittedIn(s) :
          x \in DOMAIN doc[r] /\ x \in DOMAIN history[s][i]
          /\ history[s][i][x] = Sanitize(doc[r])[x]
    BY DEF Traced, Holds
  <2> QED BY <2>1, TracedPersist
<1>2. \A b \in att[s] : b \in UNION {Uploads(doc'[r]) : r \in CommittedIn(s)'}
  BY TracedPersist DEF Traced
<1>3. CASE \A c \in Request : ~Commit(c)
  BY <1>1, <1>2, <1>3, QuietStep
<1>4. ASSUME NEW c \in Request, Commit(c), s # space[c]
      PROVE  history'[s] = history[s] /\ att'[s] = att[s]
  BY <1>4, CommitStep, CommitAttachments
<1>5. ASSUME NEW c \in Request, Commit(c), s = space[c]
      PROVE  /\ \A i \in 1..Len(history'[s]) :
                  \A x \in DOMAIN history'[s][i] :
                    \E r \in CommittedIn(s)' :
                      /\ x \in DOMAIN doc'[r]
                      /\ x \in DOMAIN history'[s][i]
                      /\ history'[s][i][x] = Sanitize(doc'[r])[x]
             /\ \A b \in att'[s] :
                  b \in UNION {Uploads(doc'[r]) : r \in CommittedIn(s)'}
  <2> DEFINE n == Len(history[s])
             old == history[s][base[c]]
  <2>1. /\ n \in Nat
        /\ at' = [at EXCEPT ![c] = n + 1]
        /\ Len(history'[s]) = n + 1
        /\ \A i \in 1..n : history'[s][i] = history[s][i]
        /\ history'[s][n + 1] = Merged(c)
    BY <1>5, CommitStep
  <2>2. doc' = doc /\ space' = space /\ att'[s] = att[s] \union Uploads(doc[c])
    BY <1>5, CommitAttachments
  <2>3. c \in CommittedIn(s)'
    BY <1>5, <2>1, <2>2 DEF Structure, TypeOK, CommittedIn, Committed
  <2>4. base[c] \in 1..n
    BY <1>5, <2>1 DEF Structure, TypeOK, Positions
  <2>5. /\ DOMAIN Merged(c) = DOMAIN old \union DOMAIN doc[c]
        /\ \A x \in DOMAIN doc[c] : Merged(c)[x] = Sanitize(doc[c])[x]
        /\ \A x \in DOMAIN old \ DOMAIN doc[c] : Merged(c)[x] = old[x]
    BY <1>5, MergedRow
  <2>6. ASSUME NEW x \in DOMAIN Merged(c)
        PROVE  \E r \in CommittedIn(s)' :
                 /\ x \in DOMAIN doc'[r]
                 /\ x \in DOMAIN Merged(c)
                 /\ Merged(c)[x] = Sanitize(doc'[r])[x]
    <3>1. CASE x \in DOMAIN doc[c]
      BY <2>2, <2>3, <2>5, <3>1
    <3>2. CASE x \notin DOMAIN doc[c]
      <4>1. x \in DOMAIN old /\ Merged(c)[x] = old[x]
        BY <2>5, <3>2
      <4>2. \E r \in CommittedIn(s)' :
              x \in DOMAIN doc'[r] /\ old[x] = Sanitize(doc'[r])[x]
        BY <1>1, <2>4, <4>1
      <4> QED BY <4>1, <4>2
    <3> QED BY <3>1, <3>2
  <2>7. \A b \in Uploads(doc[c]) :
          b \in UNION {Uploads(doc'[r]) : r \in CommittedIn(s)'}
    BY <2>2, <2>3
  <2>8. ASSUME NEW i \in 1..Len(history'[s])
        PROVE  \/ i = n + 1 /\ history'[s][i] = Merged(c)
               \/ i \in 1..Len(history[s]) /\ history'[s][i] = history[s][i]
    BY <2>1
  <2> QED BY <1>1, <1>2, <2>2, <2>6, <2>7, <2>8
<1>6. CASE \E c \in Request : Commit(c) /\ s # space[c]
  BY <1>1, <1>2, <1>4, <1>6
<1>7. CASE \E c \in Request : Commit(c) /\ s = space[c]
  BY <1>5, <1>7
<1> QED BY <1>3, <1>6, <1>7

\* Rows and attachments hold only what committed calls uploaded: a call that
\* failed or died leaves no trace. (the transaction and its Rollback)
THEOREM OnlyCommittedCorrect == Spec => []OnlyCommittedData
<1>1. Structure /\ Traced => OnlyCommittedData
  <2> SUFFICES ASSUME Structure, Traced, NEW s \in Space
               PROVE  Len(history[s]) \in 1..Len(history[s])
    BY DEF Traced, OnlyCommittedData, Row
  <2> QED BY DEF Structure, TypeOK, Positions
<1>2. Init => Structure /\ Traced
  BY StructureInit, TracedInit
<1>3. Structure /\ Traced /\ [Next]_vars => (Structure /\ Traced)'
  BY StructureStep, TracedStep
<1> QED BY <1>1, <1>2, <1>3, PTL DEF Spec

-----------------------------------------------------------------------------
(***************************************************************************)
(* Refinement.                                                             *)
(***************************************************************************)

\* A commit saves the call's payload over the row the call had read.
LEMMA CommitSaves ==
  ASSUME Structure, NEW r \in Request, Commit(r), doc[r] \in Payload
  PROVE  Log!Next
<1>1. space[r] \in Space /\ base[r] \in 1..Len(history[space[r]])
  BY DEF Structure, TypeOK, Positions
<1>2. Log!Save(space[r], doc[r], base[r])
  BY CommitAttachments, CommitStep DEF Log!Save, Merged
<1> QED BY <1>1, <1>2 DEF Log!Next

\* Every step keeps InHand.
LEMMA InHandStep == Structure /\ InHand /\ [Next]_vars => InHand'
<1> SUFFICES ASSUME Structure, InHand, [Next]_vars PROVE InHand'
  OBVIOUS
<1>1. pc \in [Request -> {"idle", "merged", "saving", "done", "failed"}]
      /\ doc \in [Request -> Document]
  BY DEF Structure, TypeOK
<1>2. ASSUME NEW r \in Request, NEW p \in Payload, ReadExisting(r, p)
      PROVE  InHand'
  BY <1>1, <1>2 DEF InHand, ReadExisting
<1>3. ASSUME NEW r \in Request, Upsert(r) PROVE InHand'
  BY <1>1, <1>3 DEF InHand, Upsert
<1>4. ASSUME NEW r \in Request, NEW b \in Blob, StoreAttachment(r, b)
      PROVE  InHand'
  BY <1>4 DEF InHand, StoreAttachment
<1>5. ASSUME NEW r \in Request, Commit(r) PROVE InHand'
  BY <1>1, <1>5 DEF InHand, Commit
<1>6. ASSUME NEW r \in Request, Fail(r) PROVE InHand'
  BY <1>1, <1>6 DEF InHand, Fail
<1>7. ASSUME Crash PROVE InHand'
  BY <1>1, <1>7 DEF InHand, Crash
<1>8. ASSUME UNCHANGED vars PROVE InHand'
  BY <1>8 DEF InHand, vars
<1> QED BY <1>2, <1>3, <1>4, <1>5, <1>6, <1>7, <1>8 DEF Next

\* The store implements the abstract log: whatever calls interleave, fail or
\* die, each row ever published is an earlier row of the space merged with one
\* payload, published together with that payload's attachments. (MergeAndSave)
THEOREM ImplementsLogCorrect == Spec => ImplementsLog
<1>1. Init => Log!Init
  BY DEF Init, Log!Init, EmptyDocument, Log!EmptyRow
<1>2. Structure /\ InHand /\ [Next]_vars => [Log!Next]_(Log!vars)
  <2> SUFFICES ASSUME Structure, InHand, [Next]_vars
               PROVE  Log!Next \/ UNCHANGED Log!vars
    OBVIOUS
  <2>1. CASE \A c \in Request : ~Commit(c)
    BY <2>1, QuietStep DEF Log!vars
  <2>2. ASSUME NEW c \in Request, Commit(c) PROVE Log!Next
    <3>1. doc[c] \in Payload
      BY <2>2 DEF InHand, Commit
    <3> QED BY <2>2, <3>1, CommitSaves
  <2> QED BY <2>1, <2>2
<1>3. Init => Structure /\ InHand
  BY StructureInit DEF Init, InHand
<1>4. Structure /\ InHand /\ [Next]_vars => (Structure /\ InHand)'
  BY StructureStep, InHandStep
<1> QED BY <1>1, <1>2, <1>3, <1>4, PTL DEF Spec, ImplementsLog, Log!Spec
=============================================================================
