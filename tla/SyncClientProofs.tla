-------------------------- MODULE SyncClientProofs --------------------------
(***************************************************************************)
(* Proofs about SyncClient for any pages, capacities and numbers of writes *)
(* and faults: its type invariant, that pushes are suppressed only while a *)
(* snapshot is applied, and that a push is skipped only for what was       *)
(* uploaded.                                                               *)
(***************************************************************************)
EXTENDS SyncClient, TLAPS

\* An unfinished apply: the snapshot, whether startup pulled it, and whether its
\* records are in.
Apply == [doc : Document, http : BOOLEAN, put : BOOLEAN]

-----------------------------------------------------------------------------
(***************************************************************************)
(* Documents.                                                              *)
(***************************************************************************)

\* What a sequence of S holds and what it becomes.
LEMMA ElementOf ==
  ASSUME NEW S, NEW q \in Seq(S), NEW i \in 1..Len(q)
  PROVE  q[i] \in S
OBVIOUS

\* A queue that is appended to is a queue.
LEMMA AppendedTo ==
  ASSUME NEW S, NEW q \in Seq(S), NEW e \in S
  PROVE  Append(q, e) \in Seq(S)
OBVIOUS

\* What a queue keeps when one of its elements is taken out was in it.
LEMMA TakenOut ==
  ASSUME NEW S, NEW q \in Seq(S), NEW i \in 1..Len(q)
  PROVE  /\ RemoveAt(q, i) \in Seq(S)
         /\ \A j \in 1..Len(RemoveAt(q, i)) :
              \E k \in 1..Len(q) : RemoveAt(q, i)[j] = q[k]
<1> DEFINE a == SubSeq(q, 1, i - 1)
           b == SubSeq(q, i + 1, Len(q))
<1>1. /\ Len(q) \in Nat /\ i \in Nat /\ 1 <= i /\ i <= Len(q)
  OBVIOUS
<1>2. /\ a \in Seq(S) /\ Len(a) = i - 1
      /\ \A j \in 1..(i - 1) : a[j] = q[j]
  BY <1>1
<1>3. /\ b \in Seq(S) /\ Len(b) = Len(q) - i
      /\ \A j \in 1..(Len(q) - i) : b[j] = q[j + i]
  BY <1>1
<1>4. RemoveAt(q, i) = a \o b
  BY DEF RemoveAt
<1> HIDE DEF a, b
<1>5. a \o b \in Seq(S) /\ Len(a \o b) = Len(q) - 1
  <2>1. a \in Seq(S) /\ b \in Seq(S)
    BY <1>2, <1>3
  <2>2. a \o b \in Seq(S) /\ Len(a \o b) = Len(a) + Len(b)
    BY <2>1
  <2> QED BY <1>1, <1>2, <1>3, <2>2
<1>6. ASSUME NEW j \in 1..(Len(q) - 1)
      PROVE  \E k \in 1..Len(q) : (a \o b)[j] = q[k]
  <2>1. CASE j <= i - 1
    <3>1. (a \o b)[j] = a[j] /\ a[j] = q[j] /\ j \in 1..Len(q)
      BY <1>1, <1>2, <1>3, <2>1
    <3> QED BY <3>1
  <2>2. CASE j > i - 1
    <3>1. j - (i - 1) \in 1..(Len(q) - i)
      BY <1>1, <2>2
    <3>2. (a \o b)[j] = b[j - (i - 1)]
      BY <1>1, <1>2, <1>3, <2>2
    <3>3. b[j - (i - 1)] = q[j + 1] /\ j + 1 \in 1..Len(q)
      BY <1>1, <1>3, <3>1
    <3> QED BY <3>2, <3>3
  <2>3. j <= i - 1 \/ j > i - 1
    BY <1>1
  <2> QED BY <2>1, <2>2, <2>3
<1> QED BY <1>4, <1>5, <1>6

\* It is not empty.
LEMMA AppendedIsNotEmpty ==
  ASSUME NEW S, NEW q \in Seq(S), NEW e \in S
  PROVE  Append(q, e) # <<>>
<1>1. Len(Append(q, e)) = Len(q) + 1 /\ Len(q) \in Nat
  OBVIOUS
<1>2. Len(<<>>) = 0
  OBVIOUS
<1> QED BY <1>1, <1>2

\* The bounds are numbers.
LEMMA Bounds ==
  /\ Cap \in Nat /\ Cap > 0 /\ MaxWrites \in Nat /\ MaxOther \in Nat
  /\ MaxFaults \in Nat
BY ClientAssumption

\* Zero stands for no value and is no write.
LEMMA AbsentIsNoWrite == Write \subseteq Nat /\ Absent \notin Write
BY Bounds DEF Write, Absent

\* A document is made of its two slots.
LEMMA DocumentSlots ==
  ASSUME NEW l \in Write \union {Absent}, NEW d \in Write \union {Absent, NoStore}
  PROVE  [local |-> l, db |-> d] \in Document
BY DEF Document

\* The empty storage is a document.
LEMMA BlankIsDocument == Blank \in Document
BY DEF Blank, Document

\* Merging documents makes a document.
LEMMA OverIsDocument ==
  ASSUME NEW r \in Document, NEW d \in Document
  PROVE  Over(r, d) \in Document
BY DEF Over, Document

\* Writing a slot of a page's storage leaves a document.
LEMMA SlotWritten ==
  ASSUME NEW d \in Document, NEW s \in Slot, NEW v \in Write \union {Absent}
  PROVE  [d EXCEPT ![s] = v] \in Document
BY DEF Document, Slot

\* A snapshot that is offered to a channel fits it.
LEMMA OfferedTypes ==
  ASSUME NEW c \in Seq(Document), Len(c) <= Cap, NEW d \in Document
  PROVE  Offered(c, d) \in Seq(Document) /\ Len(Offered(c, d)) <= Cap
BY Bounds DEF Offered

\* A merge keeps the types of the row, of what is known of it and of the
\* channels it is put into.
LEMMA SyncTypes ==
  ASSUME TypeOK, NEW d \in Document, NEW to, Sync(d, to)
  PROVE  /\ row' \in Document /\ merged' \in SUBSET Write
         /\ chan' \in [Page -> Seq(Document)]
         /\ \A p \in Page : Len(chan'[p]) <= Cap
<1>1. Over(row, d) \in Document
  BY OverIsDocument DEF TypeOK
<1>2. row' = Over(row, d) /\ merged' \in SUBSET Write
  BY DEF Sync, TypeOK
<1>3. ASSUME NEW q \in Page
      PROVE  /\ Offered(chan[q], Over(row, d)) \in Seq(Document)
             /\ Len(Offered(chan[q], Over(row, d))) <= Cap
  BY <1>1, OfferedTypes DEF TypeOK
<1>4. chan' = [q \in Page |-> IF q \in to /\ ws[q] = "open"
                              THEN Offered(chan[q], Over(row, d)) ELSE chan[q]]
  BY DEF Sync
<1> QED BY <1>1, <1>2, <1>3, <1>4 DEF TypeOK

\* The start of an apply keeps the types of what it touches.
LEMMA StartApplyTypes ==
  ASSUME TypeOK, NEW p \in Page, NEW d \in Document, NEW h \in BOOLEAN,
         StartApply(p, d, h)
  PROVE  /\ applies' \in [Page -> Seq([doc : Document, http : BOOLEAN, put : BOOLEAN])]
         /\ suppress' \in [Page -> BOOLEAN]
         /\ store' \in [Page -> Document]
<1>1. [doc |-> d, http |-> h, put |-> FALSE]
        \in [doc : Document, http : BOOLEAN, put : BOOLEAN]
  OBVIOUS
<1>2. Append(applies[p], [doc |-> d, http |-> h, put |-> FALSE])
        \in Seq([doc : Document, http : BOOLEAN, put : BOOLEAN])
  <2>1. applies[p] \in Seq([doc : Document, http : BOOLEAN, put : BOOLEAN])
    BY DEF TypeOK
  <2> QED BY <1>1, <2>1, AppendedTo
<1>3. applies' \in [Page -> Seq([doc : Document, http : BOOLEAN, put : BOOLEAN])]
  BY <1>2 DEF StartApply, TypeOK
<1>4. suppress' \in [Page -> BOOLEAN]
  BY DEF StartApply, TypeOK
<1> DEFINE l == IF d.local = Absent THEN store[p].local ELSE d.local
<1>5. l \in Write \union {Absent}
  BY DEF TypeOK, Document
<1>6. store' = [store EXCEPT ![p] = [store[p] EXCEPT !.local = l]]
  BY DEF StartApply
<1>7. [store[p] EXCEPT !.local = l] \in Document
  BY <1>5 DEF TypeOK, Document
<1> HIDE DEF l
<1>8. store' \in [Page -> Document]
  BY <1>6, <1>7 DEF TypeOK
<1> QED BY <1>3, <1>4, <1>8

-----------------------------------------------------------------------------
(***************************************************************************)
(* Types.                                                                  *)
(***************************************************************************)

\* TypeOK holds initially.
LEMMA TypeInit == Init => TypeOK
<1> SUFFICES ASSUME Init PROVE TypeOK
  OBVIOUS
<1>1. /\ <<>> \in Seq(Document) /\ <<>> \in Seq(Document \union {Get})
      /\ <<>> \in Seq(Write \union {Absent})
      /\ <<>> \in Seq([doc : Document, http : BOOLEAN, put : BOOLEAN])
      /\ Len(<<>>) <= Cap
  BY Bounds
<1>2. own \in [Page -> [Slot -> Write \union {Absent}]]
  BY DEF Init
<1> QED BY <1>1, <1>2, Bounds, BlankIsDocument DEF Init, TypeOK

\* A frame that the server handles keeps the types.
LEMMA FrameTypes ==
  ASSUME TypeOK, NEW p \in Page, Frame(p)
  PROVE  TypeOK'
<1>1. wire[p] \in Seq(Document \union {Get}) /\ wire[p] # <<>>
  BY DEF TypeOK, Frame
<1>2. Head(wire[p]) \in Document \union {Get} /\ Tail(wire[p]) \in Seq(Document \union {Get})
  BY <1>1
<1>3. wire' \in [Page -> Seq(Document \union {Get})]
  BY <1>2 DEF TypeOK, Frame
<1>4. /\ row' \in Document /\ merged' \in SUBSET Write
      /\ chan' \in [Page -> Seq(Document)]
      /\ \A q \in Page : Len(chan'[q]) <= Cap
  <2>1. CASE Head(wire[p]) = Get
    <3>1. chan' = [chan EXCEPT ![p] = Offered(@, row)] /\ UNCHANGED <<row, merged>>
      BY <2>1 DEF Frame, server
    <3>2. Offered(chan[p], row) \in Seq(Document) /\ Len(Offered(chan[p], row)) <= Cap
      BY OfferedTypes DEF TypeOK
    <3> QED BY <3>1, <3>2 DEF TypeOK
  <2>2. CASE Head(wire[p]) # Get
    <3>1. Sync(Head(wire[p]), Page) /\ Head(wire[p]) \in Document
      BY <1>2, <2>2 DEF Frame
    <3> QED BY <3>1, SyncTypes
  <2> QED BY <2>1, <2>2
<1>5. UNCHANGED <<store, suppress, timer, sig, dumps, post, applies, boot, pulled,
                  ws, faults, fate, writes, others, own>>
  BY DEF Frame, application
<1> QED BY <1>3, <1>4, <1>5 DEF TypeOK

\* So does a sync elsewhere.
LEMMA ElsewhereTypes ==
  ASSUME TypeOK, NEW s \in Slot, Elsewhere(s)
  PROVE  TypeOK'
<1>1. MaxWrites + others + 1 \in Write /\ others' \in 0..MaxOther
  BY Bounds DEF Elsewhere, TypeOK, Write
<1>2. [Blank EXCEPT ![s] = MaxWrites + others + 1] \in Document
  BY <1>1, BlankIsDocument, SlotWritten
<1>3. Sync([Blank EXCEPT ![s] = MaxWrites + others + 1], Page)
  BY DEF Elsewhere
<1>4. /\ row' \in Document /\ merged' \in SUBSET Write
      /\ chan' \in [Page -> Seq(Document)]
      /\ \A q \in Page : Len(chan'[q]) <= Cap
  BY <1>2, <1>3, SyncTypes
<1>5. UNCHANGED <<store, suppress, timer, sig, dumps, post, applies, boot, pulled,
                  ws, wire, writes, faults, own, fate>>
  BY DEF Elsewhere
<1> QED BY <1>1, <1>4, <1>5 DEF TypeOK

\* So does a write of the page.
LEMMA AppWriteTypes ==
  ASSUME TypeOK, NEW p \in Page, NEW s \in Slot, AppWrite(p, s)
  PROVE  TypeOK'
<1>1. PICK v \in {writes + 1, Absent} :
        store' = [store EXCEPT ![p][s] = v] /\ own' = [own EXCEPT ![p][s] = v]
  BY DEF AppWrite
<1>2. v \in Write \union {Absent} /\ writes' \in 0..MaxWrites
  BY Bounds DEF AppWrite, TypeOK, Write
<1>3. store' \in [Page -> Document]
  <2>1. store' = [store EXCEPT ![p] = [store[p] EXCEPT ![s] = v]]
    BY <1>1
  <2>2. [store[p] EXCEPT ![s] = v] \in Document
    BY <1>2, SlotWritten DEF TypeOK
  <2> QED BY <2>1, <2>2 DEF TypeOK
<1>4. own' \in [Page -> [Slot -> Write \union {Absent}]]
  BY <1>1, <1>2 DEF TypeOK
<1>5. timer' \in [Page -> BOOLEAN]
  BY DEF AppWrite, QueuePush, TypeOK
<1>6. UNCHANGED <<suppress, sig, dumps, post, applies, boot, pulled, ws, wire, chan,
                  others, faults, fate, row, merged>>
  BY DEF AppWrite, network, server
<1> QED BY <1>2, <1>3, <1>4, <1>5, <1>6 DEF TypeOK

\* A dump is a document.
LEMMA DumpIsDocument ==
  ASSUME TypeOK, NEW p \in Page, dumps[p] # <<>>
  PROVE  Dump(p) \in Document /\ Tail(dumps[p]) \in Seq(Write \union {Absent})
<1>1. dumps[p] \in Seq(Write \union {Absent})
  BY DEF TypeOK
<1>2. Head(dumps[p]) \in Write \union {Absent}
  BY <1>1
<1>3. store[p].db \in Write \union {Absent, NoStore}
  BY DEF TypeOK, Document
<1> QED BY <1>1, <1>2, <1>3 DEF Dump, Document

\* The steps of a push keep the types.
LEMMA PushTypes ==
  ASSUME TypeOK, NEW p \in Page, Fire(p) \/ Dumped(p)
  PROVE  TypeOK'
<1>1. CASE Fire(p)
  <2>1. store[p].local \in Write \union {Absent}
    BY DEF TypeOK, Document
  <2>2. Append(dumps[p], store[p].local) \in Seq(Write \union {Absent})
    BY <2>1 DEF TypeOK
  <2>3. dumps' \in [Page -> Seq(Write \union {Absent})]
    BY <1>1, <2>2 DEF TypeOK, Fire
  <2>4. timer' \in [Page -> BOOLEAN]
    BY <1>1 DEF TypeOK, Fire
  <2>5. UNCHANGED <<store, suppress, sig, post, applies, boot, pulled, ws, wire,
                    chan, row, merged, writes, others, own, faults, fate>>
    BY <1>1 DEF Fire, network, server, application
  <2> QED BY <2>3, <2>4, <2>5 DEF TypeOK
<1>2. CASE Dumped(p)
  <2>1. Dump(p) \in Document /\ Tail(dumps[p]) \in Seq(Write \union {Absent})
    BY <1>2, DumpIsDocument DEF Dumped
  <2>2. dumps' \in [Page -> Seq(Write \union {Absent})]
    BY <1>2, <2>1 DEF TypeOK, Dumped
  <2>3. Append(wire[p], Dump(p)) \in Seq(Document \union {Get})
    BY <2>1 DEF TypeOK
  <2>4. wire' = wire \/ wire' = [wire EXCEPT ![p] = Append(@, Dump(p))]
    BY <1>2 DEF Dumped
  <2>5. wire' \in [Page -> Seq(Document \union {Get})]
    BY <2>3, <2>4 DEF TypeOK
  <2>6. sig' = sig \/ sig' = [sig EXCEPT ![p] = Dump(p)]
    BY <1>2 DEF Dumped
  <2>7. sig' \in [Page -> Document \union {Unlike}]
    BY <2>1, <2>6 DEF TypeOK
  <2>8. post' = post
        \/ post' = [post EXCEPT ![p] = [doc |-> Dump(p), handled |-> FALSE]]
    BY <1>2 DEF Dumped
  <2>9. post' \in [Page -> [doc : Document, handled : BOOLEAN] \union {NoPost}]
    <3>1. [doc |-> Dump(p), handled |-> FALSE] \in [doc : Document, handled : BOOLEAN]
      BY <2>1
    <3>2. CASE post' = post
      BY <3>2 DEF TypeOK
    <3>3. CASE post' # post
      <4>1. PICK r \in [doc : Document, handled : BOOLEAN] :
              post' = [post EXCEPT ![p] = r]
        BY <2>8, <3>1, <3>3
      <4>2. post \in [Page -> [doc : Document, handled : BOOLEAN] \union {NoPost}]
        BY DEF TypeOK
      <4> QED BY <4>1, <4>2
    <3> QED BY <3>2, <3>3
  <2>10. UNCHANGED <<store, suppress, timer, applies, boot, pulled, ws, chan, row,
                     merged, writes, others, own, faults, fate>>
    BY <1>2 DEF Dumped, server, application
  <2> QED BY <2>2, <2>5, <2>7, <2>9, <2>10 DEF TypeOK
<1> QED BY <1>1, <1>2

\* So do those of a push over HTTP.
LEMMA PostTypes ==
  ASSUME TypeOK, NEW p \in Page, PostHandled(p) \/ PostDone(p) \/ PostFails(p)
  PROVE  TypeOK'
<1>1. post[p] \in [doc : Document, handled : BOOLEAN]
  BY DEF TypeOK, PostHandled, PostDone, PostFails
<1>2. CASE PostHandled(p)
  <2>1. post[p].doc \in Document /\ Sync(post[p].doc, Page \ {p})
    BY <1>1, <1>2 DEF PostHandled
  <2>2. /\ row' \in Document /\ merged' \in SUBSET Write
        /\ chan' \in [Page -> Seq(Document)]
        /\ \A q \in Page : Len(chan'[q]) <= Cap
    BY <2>1, SyncTypes
  <2>3. post' \in [Page -> [doc : Document, handled : BOOLEAN] \union {NoPost}]
    BY <1>1, <1>2 DEF TypeOK, PostHandled
  <2>4. UNCHANGED <<store, suppress, timer, sig, dumps, applies, boot, pulled, ws,
                    wire, faults, fate, writes, others, own>>
    BY <1>2 DEF PostHandled, application
  <2> QED BY <2>2, <2>3, <2>4 DEF TypeOK
<1>3. CASE PostDone(p) \/ PostFails(p)
  <2>1. post' \in [Page -> [doc : Document, handled : BOOLEAN] \union {NoPost}]
    BY <1>3 DEF TypeOK, PostDone, PostFails
  <2>2. sig' = sig \/ sig' = [sig EXCEPT ![p] = post[p].doc]
    BY <1>3 DEF PostDone, PostFails
  <2>3. sig' \in [Page -> Document \union {Unlike}]
    BY <1>1, <2>2 DEF TypeOK
  <2>4. faults' \in 0..MaxFaults
    BY <1>3, Bounds DEF TypeOK, PostDone, PostFails
  <2>5. UNCHANGED <<store, suppress, timer, dumps, applies, boot, pulled, ws, wire,
                    chan, row, merged, writes, others, own, fate>>
    BY <1>3 DEF PostDone, PostFails, network, server, application
  <2> QED BY <2>1, <2>3, <2>4, <2>5 DEF TypeOK
<1> QED BY <1>2, <1>3

\* So do those of an apply.
LEMMA ApplyTypes ==
  ASSUME TypeOK, NEW p \in Page,
         Receive(p) \/ ApplyPulled(p) \/ PutRecords(p) \/ FinishApply(p)
  PROVE  TypeOK'
<1>0. applies \in [Page -> Seq(Apply)]
  BY DEF TypeOK, Apply
<1>1. CASE Receive(p)
  <2>1. chan[p] \in Seq(Document) /\ chan[p] # <<>> /\ Len(chan[p]) <= Cap
    BY <1>1 DEF TypeOK, Receive
  <2>2. /\ Head(chan[p]) \in Document /\ Tail(chan[p]) \in Seq(Document)
        /\ Len(Tail(chan[p])) <= Cap
    BY <2>1, Bounds
  <2>3. StartApply(p, Head(chan[p]), FALSE)
    BY <1>1 DEF Receive
  <2>4. /\ applies' \in [Page -> Seq([doc : Document, http : BOOLEAN, put : BOOLEAN])]
        /\ suppress' \in [Page -> BOOLEAN]
        /\ store' \in [Page -> Document]
    BY <2>2, <2>3, StartApplyTypes
  <2>5. chan' = [chan EXCEPT ![p] = Tail(@)]
    BY <1>1 DEF Receive
  <2>6. chan' \in [Page -> Seq(Document)] /\ \A q \in Page : Len(chan'[q]) <= Cap
    BY <2>2, <2>5 DEF TypeOK
  <2>7. UNCHANGED <<timer, sig, dumps, post, boot, pulled, ws, wire, faults, fate,
                    row, merged, writes, others, own>>
    BY <1>1 DEF Receive, server, application
  <2> QED BY <2>4, <2>6, <2>7 DEF TypeOK
<1>2. CASE ApplyPulled(p)
  <2>1. pulled[p] \in Document /\ StartApply(p, pulled[p], TRUE)
    BY <1>2 DEF TypeOK, ApplyPulled
  <2>2. /\ applies' \in [Page -> Seq([doc : Document, http : BOOLEAN, put : BOOLEAN])]
        /\ suppress' \in [Page -> BOOLEAN]
        /\ store' \in [Page -> Document]
    BY <2>1, StartApplyTypes
  <2>3. boot' \in [Page -> {"race", "pull", "answered", "apply", "run"}]
    BY <1>2 DEF TypeOK, ApplyPulled
  <2>4. pulled' \in [Page -> Document]
    BY <1>2, BlankIsDocument DEF TypeOK, ApplyPulled
  <2>5. UNCHANGED <<timer, sig, dumps, post, ws, wire, chan, faults, fate, row,
                    merged, writes, others, own>>
    BY <1>2 DEF ApplyPulled, network, server, application
  <2> QED BY <2>2, <2>3, <2>4, <2>5 DEF TypeOK
<1>3. CASE PutRecords(p)
  <2>1. PICK i \in 1..Len(applies[p]) :
          /\ applies' = [applies EXCEPT ![p][i].put = TRUE]
          /\ IF applies[p][i].doc.db = NoStore
             THEN UNCHANGED <<store, timer>>
             ELSE /\ store' = [store EXCEPT ![p].db = applies[p][i].doc.db]
                  /\ QueuePush(p)
    BY <1>3 DEF PutRecords
  <2>2. applies[p] \in Seq(Apply) /\ applies[p][i] \in Apply
    BY <1>0, ElementOf
  <2>3. [applies[p][i] EXCEPT !.put = TRUE] \in Apply
    BY <2>2 DEF Apply
  <2>4. [applies[p] EXCEPT ![i] = [applies[p][i] EXCEPT !.put = TRUE]] \in Seq(Apply)
    BY <2>2, <2>3
  <2>5. applies' = [applies EXCEPT ![p] =
                      [applies[p] EXCEPT ![i] = [applies[p][i] EXCEPT !.put = TRUE]]]
    BY <2>1
  <2>6. applies' \in [Page -> Seq(Apply)]
    BY <1>0, <2>4, <2>5
  <2>7. applies[p][i].doc.db \in Write \union {Absent, NoStore}
    BY <2>2 DEF Apply, Document
  <2>8. [store[p] EXCEPT !.db = applies[p][i].doc.db] \in Document
    BY <2>7 DEF TypeOK, Document
  <2>9. store' = store \/ store' =
          [store EXCEPT ![p] = [store[p] EXCEPT !.db = applies[p][i].doc.db]]
    BY <2>1
  <2>10. store' \in [Page -> Document]
    BY <2>8, <2>9 DEF TypeOK
  <2>11. timer' = timer \/ timer' = [timer EXCEPT ![p] = @ \/ ~suppress[p]]
    BY <2>1 DEF QueuePush
  <2>12. timer' \in [Page -> BOOLEAN]
    BY <2>11 DEF TypeOK
  <2>13. UNCHANGED <<suppress, sig, dumps, post, boot, pulled, ws, wire, chan,
                     faults, fate, row, merged, writes, others, own>>
    BY <1>3 DEF PutRecords, network, server, application
  <2> QED BY <2>6, <2>10, <2>12, <2>13 DEF TypeOK, Apply
<1>4. CASE FinishApply(p)
  <2>1. PICK i \in 1..Len(applies[p]) :
          /\ \E t \in {applies[p][i].doc, Unlike} : sig' = [sig EXCEPT ![p] = t]
          /\ timer' = [timer EXCEPT ![p] = @ \/ applies[p][i].http]
          /\ applies' = [applies EXCEPT ![p] = RemoveAt(@, i)]
    BY <1>4 DEF FinishApply
  <2>2. applies[p][i] \in Apply /\ RemoveAt(applies[p], i) \in Seq(Apply)
    BY <1>0, ElementOf, TakenOut
  <2>3. applies' \in [Page -> Seq(Apply)]
    BY <1>0, <2>1, <2>2
  <2>4. applies[p][i].doc \in Document /\ applies[p][i].http \in BOOLEAN
    BY <2>2 DEF Apply
  <2>5. PICK t \in {applies[p][i].doc, Unlike} : sig' = [sig EXCEPT ![p] = t]
    BY <2>1
  <2>6. sig' \in [Page -> Document \union {Unlike}]
    BY <2>4, <2>5 DEF TypeOK
  <2>7. /\ boot' \in [Page -> {"race", "pull", "answered", "apply", "run"}]
        /\ suppress' \in [Page -> BOOLEAN]
        /\ fate' \in [Page -> {"well", "lost", "refused"}]
    BY <1>4 DEF TypeOK, FinishApply
  <2>8. timer' = [timer EXCEPT ![p] = @ \/ applies[p][i].http]
    BY <2>1
  <2>9. timer' \in [Page -> BOOLEAN]
    BY <2>8 DEF TypeOK
  <2>10. UNCHANGED <<store, dumps, post, pulled, ws, wire, chan, faults, row, merged,
                     writes, others, own>>
    BY <1>4 DEF FinishApply, network, server, application
  <2> QED BY <2>3, <2>6, <2>7, <2>9, <2>10 DEF TypeOK, Apply
<1> QED BY <1>1, <1>2, <1>3, <1>4

\* So do those of the connection and the startup.
LEMMA ConnectionTypes ==
  ASSUME TypeOK, NEW p \in Page,
         \/ Refuse(p) \/ PullHandled(p) \/ Periodic(p) \/ Open(p) \/ Close(p)
         \/ Reconnect(p) \/ RaceTimeout(p) \/ PullFails(p)
  PROVE  TypeOK'
<1> USE Bounds
<1>1. CASE Refuse(p)
  <2>1. wire[p] \in Seq(Document \union {Get}) /\ wire[p] # <<>>
    BY <1>1 DEF TypeOK, Refuse
  <2>2. Tail(wire[p]) \in Seq(Document \union {Get})
    BY <2>1
  <2>3. wire' \in [Page -> Seq(Document \union {Get})]
    BY <1>1, <2>2 DEF TypeOK, Refuse
  <2>4. faults' \in 0..MaxFaults /\ fate' \in [Page -> {"well", "lost", "refused"}]
    BY <1>1 DEF TypeOK, Refuse
  <2>5. UNCHANGED <<store, suppress, timer, sig, dumps, post, applies, boot, pulled,
                    ws, chan, row, merged, writes, others, own>>
    BY <1>1 DEF Refuse, server, application
  <2> QED BY <2>3, <2>4, <2>5 DEF TypeOK
<1>2. CASE PullHandled(p)
  <2>1. /\ pulled' \in [Page -> Document]
        /\ boot' \in [Page -> {"race", "pull", "answered", "apply", "run"}]
    BY <1>2 DEF TypeOK, PullHandled
  <2>2. UNCHANGED <<store, suppress, timer, sig, dumps, post, applies, ws, wire, chan,
                    faults, fate, row, merged, writes, others, own>>
    BY <1>2 DEF PullHandled, network, server, application
  <2> QED BY <2>1, <2>2 DEF TypeOK
<1>3. CASE Periodic(p)
  <2>1. timer' \in [Page -> BOOLEAN]
    BY <1>3 DEF TypeOK, Periodic, QueuePush
  <2>2. UNCHANGED <<store, suppress, sig, dumps, post, applies, boot, pulled, ws, wire,
                    chan, faults, fate, row, merged, writes, others, own>>
    BY <1>3 DEF Periodic, network, server, application
  <2> QED BY <2>1, <2>2 DEF TypeOK
<1>4. CASE Open(p)
  <2>1. /\ <<Get>> \in Seq(Document \union {Get})
        /\ <<row>> \in Seq(Document) /\ Len(<<row>>) <= Cap
    BY DEF TypeOK
  <2>2. wire' \in [Page -> Seq(Document \union {Get})]
    BY <1>4, <2>1 DEF TypeOK, Open
  <2>3. chan' \in [Page -> Seq(Document)] /\ \A q \in Page : Len(chan'[q]) <= Cap
    BY <1>4, <2>1 DEF TypeOK, Open
  <2>4. /\ ws' \in [Page -> {"connecting", "open", "closed"}]
        /\ boot' \in [Page -> {"race", "pull", "answered", "apply", "run"}]
    BY <1>4 DEF TypeOK, Open, EndRace
  <2>5. UNCHANGED <<store, suppress, timer, sig, dumps, post, applies, pulled, faults,
                    fate, row, merged, writes, others, own>>
    BY <1>4 DEF Open, server, application
  <2> QED BY <2>2, <2>3, <2>4, <2>5 DEF TypeOK
<1>5. CASE Close(p)
  <2>1. <<>> \in Seq(Document \union {Get}) /\ <<>> \in Seq(Document) /\ Len(<<>>) <= Cap
    OBVIOUS
  <2>2. wire' \in [Page -> Seq(Document \union {Get})]
    BY <1>5, <2>1 DEF TypeOK, Close
  <2>3. chan' \in [Page -> Seq(Document)] /\ \A q \in Page : Len(chan'[q]) <= Cap
    BY <1>5, <2>1 DEF TypeOK, Close
  <2>4. /\ ws' \in [Page -> {"connecting", "open", "closed"}]
        /\ boot' \in [Page -> {"race", "pull", "answered", "apply", "run"}]
        /\ faults' \in 0..MaxFaults
    BY <1>5 DEF TypeOK, Close, EndRace
  <2>5. \E v \in {"lost", fate[p]} : fate' = [fate EXCEPT ![p] = v]
    BY <1>5 DEF Close
  <2>6. fate' \in [Page -> {"well", "lost", "refused"}]
    BY <2>5 DEF TypeOK
  <2>7. UNCHANGED <<store, suppress, timer, sig, dumps, post, applies, pulled, row,
                    merged, writes, others, own>>
    BY <1>5 DEF Close, server, application
  <2> QED BY <2>2, <2>3, <2>4, <2>6, <2>7 DEF TypeOK
<1>6. CASE Reconnect(p) \/ RaceTimeout(p)
  <2>1. /\ ws' \in [Page -> {"connecting", "open", "closed"}]
        /\ boot' \in [Page -> {"race", "pull", "answered", "apply", "run"}]
    BY <1>6 DEF TypeOK, Reconnect, RaceTimeout, EndRace, network
  <2>2. UNCHANGED <<store, suppress, timer, sig, dumps, post, applies, pulled, wire,
                    chan, faults, fate, row, merged, writes, others, own>>
    BY <1>6 DEF Reconnect, RaceTimeout, network, server, application
  <2> QED BY <2>1, <2>2 DEF TypeOK
<1>7. CASE PullFails(p)
  <2>1. /\ faults' \in 0..MaxFaults
        /\ boot' \in [Page -> {"race", "pull", "answered", "apply", "run"}]
        /\ suppress' \in [Page -> BOOLEAN] /\ timer' \in [Page -> BOOLEAN]
    BY <1>7 DEF TypeOK, PullFails
  <2>2. pulled' \in [Page -> Document]
    BY <1>7, BlankIsDocument DEF TypeOK, PullFails
  <2>3. UNCHANGED <<store, sig, dumps, post, applies, ws, wire, chan, fate, row, merged,
                    writes, others, own>>
    BY <1>7 DEF PullFails, network, server, application
  <2> QED BY <2>1, <2>2, <2>3 DEF TypeOK
<1> QED BY <1>1, <1>2, <1>3, <1>4, <1>5, <1>6, <1>7

\* Every step keeps TypeOK.
LEMMA TypeStep == TypeOK /\ [Next]_vars => TypeOK'
<1> SUFFICES ASSUME TypeOK, [Next]_vars PROVE TypeOK'
  OBVIOUS
<1>1. ASSUME NEW p \in Page, Progress(p) \/ Fault(p) \/ Periodic(p) \/ Open(p)
      PROVE  TypeOK'
  BY <1>1, FrameTypes, PushTypes, PostTypes, ApplyTypes, ConnectionTypes
     DEF Progress, Fault
<1>2. CASE UNCHANGED vars
  BY <1>2 DEF vars, TypeOK
<1> QED BY <1>1, <1>2, AppWriteTypes, ElsewhereTypes DEF Next

\* Every variable keeps its type; in particular a channel never holds more than
\* its capacity and what the pages store and send are documents.
\* (webui_bootstrap.js)
THEOREM TypeCorrect == Spec => []TypeOK
BY TypeInit, TypeStep, PTL DEF Spec

-----------------------------------------------------------------------------
(***************************************************************************)
(* Pushes are suppressed only while a snapshot is applied.                 *)
(***************************************************************************)

\* Every step keeps SuppressedOnlyWhileApplying.
LEMMA SuppressedStep ==
  TypeOK /\ SuppressedOnlyWhileApplying /\ [Next]_vars
    => SuppressedOnlyWhileApplying'
<1> SUFFICES ASSUME TypeOK, SuppressedOnlyWhileApplying, [Next]_vars
             PROVE  SuppressedOnlyWhileApplying'
  OBVIOUS
<1>1. CASE UNCHANGED <<suppress, applies>>
  BY <1>1 DEF SuppressedOnlyWhileApplying
<1>2. ASSUME NEW p \in Page, NEW d \in Document, NEW h \in BOOLEAN,
             StartApply(p, d, h)
      PROVE  SuppressedOnlyWhileApplying'
  <2>1. Append(applies[p], [doc |-> d, http |-> h, put |-> FALSE]) # <<>>
    <3>1. applies[p] \in Seq(Apply)
      BY DEF TypeOK, Apply
    <3>2. [doc |-> d, http |-> h, put |-> FALSE] \in Apply
      BY DEF Apply
    <3> QED BY <3>1, <3>2, AppendedIsNotEmpty
  <2>2. applies'[p] # <<>> /\ \A q \in Page \ {p} : applies'[q] = applies[q]
    BY <1>2, <2>1 DEF StartApply, TypeOK
  <2>3. \A q \in Page \ {p} : suppress'[q] = suppress[q]
    BY <1>2 DEF StartApply, TypeOK
  <2> QED BY <2>2, <2>3 DEF SuppressedOnlyWhileApplying
<1>3. ASSUME NEW p \in Page, PutRecords(p) PROVE SuppressedOnlyWhileApplying'
  <2>1. PICK i \in 1..Len(applies[p]) :
          applies' = [applies EXCEPT ![p][i].put = TRUE]
    BY <1>3 DEF PutRecords
  <2>2. applies \in [Page -> Seq(Apply)] /\ applies[p] \in Seq(Apply)
    BY DEF TypeOK, Apply
  <2>3. [applies[p] EXCEPT ![i].put = TRUE] # <<>>
    BY <2>2
  <2>4. applies'[p] # <<>> /\ \A q \in Page \ {p} : applies'[q] = applies[q]
    BY <2>1, <2>2, <2>3
  <2>5. suppress' = suppress
    BY <1>3 DEF PutRecords
  <2> QED BY <2>4, <2>5 DEF SuppressedOnlyWhileApplying
<1>4. ASSUME NEW p \in Page, FinishApply(p) \/ PullFails(p)
      PROVE  SuppressedOnlyWhileApplying'
  <2>1. /\ ~suppress'[p]
        /\ \A q \in Page \ {p} : suppress'[q] = suppress[q] /\ applies'[q] = applies[q]
    BY <1>4 DEF FinishApply, PullFails, TypeOK
  <2> QED BY <2>1 DEF SuppressedOnlyWhileApplying
<1>5. ASSUME NEW p \in Page, Receive(p) \/ ApplyPulled(p)
      PROVE  SuppressedOnlyWhileApplying'
  <2>1. CASE Receive(p)
    <3>1. chan[p] \in Seq(Document) /\ chan[p] # <<>>
      BY <2>1 DEF Receive, TypeOK
    <3>2. Head(chan[p]) \in Document
      BY <3>1
    <3>3. StartApply(p, Head(chan[p]), FALSE)
      BY <2>1 DEF Receive
    <3> QED BY <1>2, <3>2, <3>3
  <2>2. CASE ApplyPulled(p)
    <3>1. pulled[p] \in Document /\ StartApply(p, pulled[p], TRUE)
      BY <2>2 DEF ApplyPulled, TypeOK
    <3> QED BY <1>2, <3>1
  <2> QED BY <1>5, <2>1, <2>2
<1>6. ASSUME NEW p \in Page,
             \/ Frame(p) \/ PostHandled(p) \/ PullHandled(p) \/ Fire(p) \/ Dumped(p)
             \/ PostDone(p) \/ Reconnect(p) \/ RaceTimeout(p) \/ PostFails(p)
             \/ Close(p) \/ Refuse(p) \/ Periodic(p) \/ Open(p)
             \/ \E s \in Slot : AppWrite(p, s)
      PROVE  UNCHANGED <<suppress, applies>>
  BY <1>6 DEF Frame, PostHandled, PullHandled, Fire, Dumped, PostDone, Reconnect,
              RaceTimeout, PostFails, Close, Refuse, Periodic, Open, AppWrite
<1>7. ASSUME NEW s \in Slot, Elsewhere(s) PROVE UNCHANGED <<suppress, applies>>
  BY <1>7 DEF Elsewhere
<1>8. CASE UNCHANGED vars
  BY <1>1, <1>8 DEF vars
<1> QED BY <1>1, <1>3, <1>4, <1>5, <1>6, <1>7, <1>8 DEF Next, Progress, Fault

\* suppressPush is released whenever the apply that set it ends, also when
\* applies overlap or the startup's request fails.
\* (onmessage, the startup function)
THEOREM SuppressedOnlyWhileApplyingCorrect == Spec => []SuppressedOnlyWhileApplying
<1>1. Init => SuppressedOnlyWhileApplying
  BY DEF Init, SuppressedOnlyWhileApplying
<1> QED BY <1>1, SuppressedStep, TypeCorrect, PTL DEF Spec

-----------------------------------------------------------------------------
(***************************************************************************)
(* What the server sends was merged.                                       *)
(***************************************************************************)

\* The writes of document d are among M.
Within(d, M) == {d.local, d.db} \intersect Write \subseteq M

\* All the documents that come from the server, and those it has taken over
\* HTTP, hold merged writes only.
Learnt ==
  /\ Within(row, merged)
  /\ \A p \in Page :
       /\ Within(pulled[p], merged)
       /\ \A i \in 1..Len(chan[p]) : Within(chan[p][i], merged)
       /\ \A i \in 1..Len(applies[p]) : Within(applies[p][i].doc, merged)
       /\ post[p] # NoPost /\ post[p].handled => Within(post[p].doc, merged)

\* A document of each of these kinds comes from one of the kind before, or from
\* the row as it is after the step.
FromServer ==
  /\ merged \subseteq merged' /\ Within(row', merged')
  /\ \A p \in Page :
       /\ pulled'[p] \in {pulled[p], row, Blank}
       /\ \A i \in 1..Len(chan'[p]) :
            chan'[p][i] = row' \/ \E j \in 1..Len(chan[p]) : chan'[p][i] = chan[p][j]
       /\ \A i \in 1..Len(applies'[p]) :
            \/ applies'[p][i].doc = pulled[p]
            \/ \E j \in 1..Len(chan[p]) : applies'[p][i].doc = chan[p][j]
            \/ \E j \in 1..Len(applies[p]) : applies'[p][i].doc = applies[p][j].doc
       /\ post'[p] # NoPost /\ post'[p].handled =>
            post'[p] = post[p] \/ Within(post'[p].doc, merged')

\* Learnt is kept if what is new comes from the server.
LEMMA LearntFromServer ==
  ASSUME Learnt, FromServer
  PROVE  Learnt'
<1>1. merged \subseteq merged' /\ Within(row', merged')
  BY DEF FromServer
<1>2. \A d : Within(d, merged) => Within(d, merged')
  BY <1>1 DEF Within
<1>3. Within(Blank, merged')
  BY AbsentIsNoWrite, ClientAssumption, Bounds DEF Within, Blank, Write
<1>4. ASSUME NEW p \in Page
      PROVE  /\ Within(pulled'[p], merged')
             /\ \A i \in 1..Len(chan'[p]) : Within(chan'[p][i], merged')
             /\ \A i \in 1..Len(applies'[p]) : Within(applies'[p][i].doc, merged')
             /\ post'[p] # NoPost /\ post'[p].handled => Within(post'[p].doc, merged')
  <2>1. Within(pulled'[p], merged')
    BY <1>2, <1>3 DEF FromServer, Learnt
  <2>2. \A i \in 1..Len(chan'[p]) : Within(chan'[p][i], merged')
    BY <1>1, <1>2 DEF FromServer, Learnt
  <2>3. \A i \in 1..Len(applies'[p]) : Within(applies'[p][i].doc, merged')
    BY <1>2 DEF FromServer, Learnt
  <2>4. post'[p] # NoPost /\ post'[p].handled => Within(post'[p].doc, merged')
    BY <1>2 DEF FromServer, Learnt
  <2> QED BY <2>1, <2>2, <2>3, <2>4
<1> QED BY <1>1, <1>4 DEF Learnt

\* Learnt holds initially.
LEMMA LearntInit == Init => Learnt
<1> SUFFICES ASSUME Init PROVE Learnt
  OBVIOUS
<1>1. Within(Blank, merged)
  BY AbsentIsNoWrite, ClientAssumption, Bounds DEF Within, Blank, Write
<1> QED BY <1>1 DEF Init, Learnt

\* An offer adds at most what is offered.
LEMMA OfferedElement ==
  ASSUME NEW c \in Seq(Document), NEW d \in Document,
         NEW i \in 1..Len(Offered(c, d))
  PROVE  Offered(c, d)[i] = d \/ \E j \in 1..Len(c) : Offered(c, d)[i] = c[j]
BY DEF Offered

\* A merge sends the merged row, whose writes are the row's or the document's.
LEMMA SyncFromServer ==
  ASSUME TypeOK, Learnt, NEW d \in Document, NEW to, Sync(d, to),
         UNCHANGED <<pulled, applies>>,
         \A p \in Page : post'[p] # NoPost /\ post'[p].handled =>
                           post'[p] = post[p] \/ post'[p].doc = d
  PROVE  FromServer
<1>1. /\ row' = Over(row, d)
      /\ merged' = merged \union ({d.local, d.db} \intersect Write)
      /\ chan' = [q \in Page |-> IF q \in to /\ ws[q] = "open"
                                 THEN Offered(chan[q], row') ELSE chan[q]]
  BY DEF Sync
<1>2. Within(d, merged') /\ merged \subseteq merged'
  BY <1>1 DEF Within
<1>3. Within(row', merged')
  <2>1. Over(row, d).local \in {row.local, d.local} /\ Over(row, d).db \in {row.db, d.db}
    BY DEF Over
  <2> QED BY <1>1, <2>1 DEF Within, Learnt
<1>4. row' \in Document
  BY <1>1, OverIsDocument DEF TypeOK
<1>5. ASSUME NEW p \in Page, NEW i \in 1..Len(chan'[p])
      PROVE  chan'[p][i] = row' \/ \E j \in 1..Len(chan[p]) : chan'[p][i] = chan[p][j]
  <2>1. chan[p] \in Seq(Document)
    BY DEF TypeOK
  <2>2. CASE chan'[p] = chan[p]
    BY <2>2
  <2>3. CASE chan'[p] = Offered(chan[p], row')
    BY <1>4, <2>1, <2>3, OfferedElement
  <2> QED BY <1>1, <2>2, <2>3
<1>6. ASSUME NEW p \in Page, NEW i \in 1..Len(applies'[p])
      PROVE  \E j \in 1..Len(applies[p]) : applies'[p][i].doc = applies[p][j].doc
  OBVIOUS
<1> QED BY <1>2, <1>3, <1>5, <1>6 DEF FromServer

\* So does a step that merges nothing.
LEMMA QuietFromServer ==
  ASSUME Learnt, UNCHANGED <<row, merged>>,
         \A p \in Page :
           /\ pulled'[p] \in {pulled[p], row, Blank}
           /\ \A i \in 1..Len(chan'[p]) :
                chan'[p][i] = row \/ \E j \in 1..Len(chan[p]) : chan'[p][i] = chan[p][j]
           /\ \A i \in 1..Len(applies'[p]) :
                \/ applies'[p][i].doc = pulled[p]
                \/ \E j \in 1..Len(chan[p]) : applies'[p][i].doc = chan[p][j]
                \/ \E j \in 1..Len(applies[p]) : applies'[p][i].doc = applies[p][j].doc
           /\ post'[p] # NoPost /\ post'[p].handled => post'[p] = post[p]
  PROVE  FromServer
<1>1. Within(row, merged)
  BY DEF Learnt
<1> QED BY <1>1 DEF FromServer

\* An apply that starts is of the document given to it.
LEMMA StartedElement ==
  ASSUME TypeOK, NEW p \in Page, NEW d \in Document, NEW h \in BOOLEAN,
         StartApply(p, d, h)
  PROVE  /\ \A q \in Page \ {p} : applies'[q] = applies[q]
         /\ \A i \in 1..Len(applies'[p]) :
              \/ applies'[p][i].doc = d
              \/ \E j \in 1..Len(applies[p]) : applies'[p][i].doc = applies[p][j].doc
<1> DEFINE a == [doc |-> d, http |-> h, put |-> FALSE]
<1>1. a \in Apply /\ a.doc = d
  BY DEF Apply
<1> HIDE DEF a
<1>2. applies \in [Page -> Seq(Apply)] /\ applies[p] \in Seq(Apply)
  BY DEF TypeOK, Apply
<1>3. applies' = [applies EXCEPT ![p] = Append(@, a)]
  BY DEF StartApply, a
<1>4. applies'[p] = Append(applies[p], a) /\ \A q \in Page \ {p} : applies'[q] = applies[q]
  BY <1>2, <1>3
<1>5. /\ Len(applies'[p]) = Len(applies[p]) + 1
      /\ applies'[p][Len(applies[p]) + 1] = a
      /\ \A i \in 1..Len(applies[p]) : applies'[p][i] = applies[p][i]
  BY <1>1, <1>2, <1>4
<1>6. Len(applies[p]) \in Nat
  BY <1>2
<1>7. ASSUME NEW i \in 1..Len(applies'[p])
      PROVE  \/ applies'[p][i].doc = d
             \/ \E j \in 1..Len(applies[p]) : applies'[p][i].doc = applies[p][j].doc
  <2>1. i = Len(applies[p]) + 1 \/ i \in 1..Len(applies[p])
    BY <1>5, <1>6
  <2> QED BY <1>1, <1>5, <2>1
<1> QED BY <1>4, <1>7

\* The first element of a sequence and those of its rest are its elements.
LEMMA HeadAndTail ==
  ASSUME NEW S, NEW q \in Seq(S), q # <<>>
  PROVE  /\ 1 \in 1..Len(q) /\ Head(q) = q[1]
         /\ Tail(q) \in Seq(S) /\ Len(Tail(q)) = Len(q) - 1
         /\ \A i \in 1..Len(Tail(q)) : i + 1 \in 1..Len(q) /\ Tail(q)[i] = q[i + 1]
<1>1. Len(q) \in Nat /\ Len(q) > 0
  OBVIOUS
<1>2. Tail(q) \in Seq(S) /\ Len(Tail(q)) = Len(q) - 1
  BY <1>1
<1>3. \A i \in 1..Len(Tail(q)) : i + 1 \in 1..Len(q) /\ Tail(q)[i] = q[i + 1]
  BY <1>1, <1>2
<1> QED BY <1>1, <1>2, <1>3

\* The steps of an apply bring nothing but what the server sent.
LEMMA ApplyFromServer ==
  ASSUME TypeOK, Learnt, NEW p \in Page,
         Receive(p) \/ ApplyPulled(p) \/ PutRecords(p) \/ FinishApply(p)
  PROVE  FromServer
<1>0. applies \in [Page -> Seq(Apply)] /\ applies[p] \in Seq(Apply)
  BY DEF TypeOK, Apply
<1>1. CASE Receive(p)
  <2>1. /\ chan' = [chan EXCEPT ![p] = Tail(@)] /\ chan[p] # <<>>
        /\ StartApply(p, Head(chan[p]), FALSE)
        /\ UNCHANGED <<row, merged, pulled, post>>
    BY <1>1 DEF Receive, server
  <2>2. chan[p] \in Seq(Document) /\ chan \in [Page -> Seq(Document)]
    BY DEF TypeOK
  <2>3. /\ 1 \in 1..Len(chan[p]) /\ Head(chan[p]) = chan[p][1]
        /\ \A i \in 1..Len(Tail(chan[p])) :
             i + 1 \in 1..Len(chan[p]) /\ Tail(chan[p])[i] = chan[p][i + 1]
    BY <2>1, <2>2, HeadAndTail
  <2>4. Head(chan[p]) \in Document
    BY <2>2, <2>3, ElementOf
  <2>5. /\ \A q \in Page \ {p} : applies'[q] = applies[q]
        /\ \A i \in 1..Len(applies'[p]) :
             \/ applies'[p][i].doc = chan[p][1]
             \/ \E j \in 1..Len(applies[p]) : applies'[p][i].doc = applies[p][j].doc
    BY <2>1, <2>3, <2>4, StartedElement
  <2>6. chan'[p] = Tail(chan[p]) /\ \A q \in Page \ {p} : chan'[q] = chan[q]
    BY <2>1, <2>2
  <2>7. ASSUME NEW q \in Page, NEW i \in 1..Len(chan'[q])
        PROVE  \E j \in 1..Len(chan[q]) : chan'[q][i] = chan[q][j]
    <3>1. CASE q = p
      <4>1. i \in 1..Len(Tail(chan[p]))
        BY <2>6, <3>1
      <4>2. i + 1 \in 1..Len(chan[p]) /\ chan'[p][i] = chan[p][i + 1]
        BY <2>3, <2>6, <4>1
      <4> QED BY <3>1, <4>2
    <3>2. CASE q # p
      BY <2>6, <3>2
    <3> QED BY <3>1, <3>2
  <2>8. ASSUME NEW q \in Page, NEW i \in 1..Len(applies'[q])
        PROVE  \/ \E j \in 1..Len(chan[q]) : applies'[q][i].doc = chan[q][j]
               \/ \E j \in 1..Len(applies[q]) : applies'[q][i].doc = applies[q][j].doc
    <3>1. CASE q = p
      BY <2>3, <2>5, <3>1
    <3>2. CASE q # p
      BY <2>5, <3>2
    <3> QED BY <3>1, <3>2
  <2> QED BY <2>1, <2>7, <2>8, QuietFromServer
<1>2. CASE ApplyPulled(p)
  <2>1. /\ StartApply(p, pulled[p], TRUE) /\ pulled[p] \in Document
        /\ pulled' = [pulled EXCEPT ![p] = Blank]
        /\ UNCHANGED <<row, merged, chan, post>>
    BY <1>2 DEF ApplyPulled, network, server, TypeOK
  <2>2. /\ \A q \in Page \ {p} : applies'[q] = applies[q]
        /\ \A i \in 1..Len(applies'[p]) :
             \/ applies'[p][i].doc = pulled[p]
             \/ \E j \in 1..Len(applies[p]) : applies'[p][i].doc = applies[p][j].doc
    BY <2>1, StartedElement
  <2>3. \A q \in Page : pulled'[q] \in {pulled[q], Blank}
    BY <2>1 DEF TypeOK
  <2>4. ASSUME NEW q \in Page, NEW i \in 1..Len(applies'[q])
        PROVE  \/ applies'[q][i].doc = pulled[q]
               \/ \E j \in 1..Len(applies[q]) : applies'[q][i].doc = applies[q][j].doc
    <3>1. CASE q = p
      BY <2>2, <3>1
    <3>2. CASE q # p
      BY <2>2, <3>2
    <3> QED BY <3>1, <3>2
  <2> QED BY <2>1, <2>3, <2>4, QuietFromServer
<1>3. CASE PutRecords(p)
  <2>1. PICK i \in 1..Len(applies[p]) :
          applies' = [applies EXCEPT ![p][i].put = TRUE]
    BY <1>3 DEF PutRecords
  <2>2. UNCHANGED <<row, merged, pulled, chan, post>>
    BY <1>3 DEF PutRecords, network, server
  <2>3. applies[p][i] \in Apply
    BY <1>0, ElementOf
  <2>4. [applies[p][i] EXCEPT !.put = TRUE].doc = applies[p][i].doc
    BY <2>3 DEF Apply
  <2>5. applies'[p] = [applies[p] EXCEPT ![i] = [applies[p][i] EXCEPT !.put = TRUE]]
        /\ \A q \in Page \ {p} : applies'[q] = applies[q]
    BY <1>0, <2>1
  <2>6. Len(applies'[p]) = Len(applies[p])
        /\ \A j \in 1..Len(applies[p]) : applies'[p][j].doc = applies[p][j].doc
    BY <1>0, <2>4, <2>5
  <2>7. ASSUME NEW q \in Page, NEW j \in 1..Len(applies'[q])
        PROVE  \E k \in 1..Len(applies[q]) : applies'[q][j].doc = applies[q][k].doc
    <3>1. CASE q = p
      BY <2>6, <3>1
    <3>2. CASE q # p
      BY <2>5, <3>2
    <3> QED BY <3>1, <3>2
  <2> QED BY <2>2, <2>7, QuietFromServer
<1>4. CASE FinishApply(p)
  <2>1. PICK i \in 1..Len(applies[p]) :
          /\ applies' = [applies EXCEPT ![p] = RemoveAt(@, i)]
          /\ UNCHANGED <<row, merged, pulled, chan, post>>
    BY <1>4 DEF FinishApply, network, server
  <2>2. \A j \in 1..Len(RemoveAt(applies[p], i)) :
          \E k \in 1..Len(applies[p]) : RemoveAt(applies[p], i)[j] = applies[p][k]
    BY <1>0, TakenOut
  <2>3. /\ applies'[p] = RemoveAt(applies[p], i)
        /\ \A q \in Page \ {p} : applies'[q] = applies[q]
    BY <1>0, <2>1
  <2>4. ASSUME NEW q \in Page, NEW j \in 1..Len(applies'[q])
        PROVE  \E k \in 1..Len(applies[q]) : applies'[q][j].doc = applies[q][k].doc
    <3>1. CASE q = p
      BY <2>2, <2>3, <3>1
    <3>2. CASE q # p
      BY <2>3, <3>2
    <3> QED BY <3>1, <3>2
  <2> QED BY <2>1, <2>4, QuietFromServer
<1> QED BY <1>1, <1>2, <1>3, <1>4

\* The server's documents hold merged writes.
LEMMA ServerFromServer ==
  ASSUME TypeOK, Learnt, NEW p \in Page, Frame(p) \/ PostHandled(p)
  PROVE  FromServer
<1>1. CASE Frame(p)
  <2>1. UNCHANGED <<pulled, applies, post>>
    BY <1>1 DEF Frame
  <2>2. CASE Head(wire[p]) = Get
    <3>1. chan' = [chan EXCEPT ![p] = Offered(@, row)] /\ UNCHANGED <<row, merged>>
      BY <1>1, <2>2 DEF Frame, server
    <3>2. chan \in [Page -> Seq(Document)] /\ chan[p] \in Seq(Document) /\ row \in Document
      BY DEF TypeOK
    <3>3. chan'[p] = Offered(chan[p], row) /\ \A q \in Page \ {p} : chan'[q] = chan[q]
      BY <3>1, <3>2
    <3>4. ASSUME NEW q \in Page, NEW i \in 1..Len(chan'[q])
          PROVE  chan'[q][i] = row \/ \E j \in 1..Len(chan[q]) : chan'[q][i] = chan[q][j]
      <4>1. CASE q = p
        BY <3>2, <3>3, <4>1, OfferedElement
      <4>2. CASE q # p
        BY <3>3, <4>2
      <4> QED BY <4>1, <4>2
    <3> QED BY <2>1, <3>1, <3>4, QuietFromServer
  <2>3. CASE Head(wire[p]) # Get
    <3>1. wire[p] \in Seq(Document \union {Get}) /\ wire[p] # <<>>
      BY <1>1 DEF Frame, TypeOK
    <3>2. Head(wire[p]) \in Document /\ Sync(Head(wire[p]), Page)
      BY <1>1, <2>3, <3>1 DEF Frame
    <3> QED BY <2>1, <3>2, SyncFromServer
  <2> QED BY <2>2, <2>3
<1>2. CASE PostHandled(p)
  <2>1. post \in [Page -> [doc : Document, handled : BOOLEAN] \union {NoPost}]
    BY DEF TypeOK
  <2>2. /\ post[p] # NoPost /\ Sync(post[p].doc, Page \ {p})
        /\ post' = [post EXCEPT ![p].handled = TRUE]
        /\ UNCHANGED <<pulled, applies>>
    BY <1>2 DEF PostHandled
  <2>3. post[p] \in [doc : Document, handled : BOOLEAN]
    BY <2>1, <2>2
  <2>4. post[p].doc \in Document /\ [post[p] EXCEPT !.handled = TRUE].doc = post[p].doc
    BY <2>3
  <2>5. post'[p].doc = post[p].doc /\ \A q \in Page \ {p} : post'[q] = post[q]
    BY <2>1, <2>2, <2>4
  <2>6. \A q \in Page : post'[q] = post[q] \/ post'[q].doc = post[p].doc
    BY <2>5
  <2> QED BY <2>2, <2>4, <2>6, SyncFromServer
<1> QED BY <1>1, <1>2

\* The other steps of a page bring no documents from elsewhere.
LEMMA RestFromServer ==
  ASSUME TypeOK, Learnt, NEW p \in Page,
         \/ Refuse(p) \/ PullHandled(p) \/ Periodic(p) \/ Fire(p) \/ Dumped(p)
         \/ PostDone(p) \/ PostFails(p) \/ Open(p) \/ Close(p) \/ Reconnect(p)
         \/ RaceTimeout(p) \/ PullFails(p) \/ \E s \in Slot : AppWrite(p, s)
  PROVE  FromServer
<1>1. UNCHANGED <<row, merged, applies>>
  BY DEF Refuse, PullHandled, Periodic, Fire, Dumped, PostDone, PostFails, Open,
         Close, Reconnect, RaceTimeout, PullFails, AppWrite, server
<1>2. \A q \in Page : pulled'[q] \in {pulled[q], row, Blank}
  <2>1. \/ pulled' = pulled
        \/ \E d \in {row, Blank} : pulled' = [pulled EXCEPT ![p] = d]
    BY DEF Refuse, PullHandled, Periodic, Fire, Dumped, PostDone, PostFails, Open,
           Close, Reconnect, RaceTimeout, PullFails, AppWrite
  <2> QED BY <2>1 DEF TypeOK
<1>3. ASSUME NEW q \in Page, NEW i \in 1..Len(chan'[q])
      PROVE  chan'[q][i] = row \/ \E j \in 1..Len(chan[q]) : chan'[q][i] = chan[q][j]
  <2>1. \/ chan' = chan
        \/ \E c \in {<<row>>, <<>>} : chan' = [chan EXCEPT ![p] = c]
    BY DEF Refuse, PullHandled, Periodic, Fire, Dumped, PostDone, PostFails, Open,
           Close, Reconnect, RaceTimeout, PullFails, AppWrite, network
  <2>2. \/ chan'[q] = chan[q] \/ chan'[q] = <<row>> \/ chan'[q] = <<>>
    BY <2>1 DEF TypeOK
  <2>3. CASE chan'[q] = chan[q]
    BY <2>3
  <2>4. CASE chan'[q] = <<row>>
    BY <2>4
  <2>5. CASE chan'[q] = <<>>
    BY <2>5
  <2> QED BY <2>2, <2>3, <2>4, <2>5
<1>4. \A q \in Page : post'[q] # NoPost /\ post'[q].handled => post'[q] = post[q]
  <2>1. post' = post \/ \E r \in {NoPost, [doc |-> Dump(p), handled |-> FALSE]} :
                          post' = [post EXCEPT ![p] = r]
    BY DEF Refuse, PullHandled, Periodic, Fire, Dumped, PostDone, PostFails, Open,
           Close, Reconnect, RaceTimeout, PullFails, AppWrite
  <2>2. ~[doc |-> Dump(p), handled |-> FALSE].handled
    OBVIOUS
  <2> QED BY <2>1, <2>2 DEF TypeOK
<1> QED BY <1>1, <1>2, <1>3, <1>4, QuietFromServer

\* A sync elsewhere is merged.
LEMMA ElsewhereFromServer ==
  ASSUME TypeOK, Learnt, NEW s \in Slot, Elsewhere(s)
  PROVE  FromServer
<1>1. MaxWrites + others + 1 \in Write
  BY Bounds DEF Elsewhere, TypeOK, Write
<1>2. [Blank EXCEPT ![s] = MaxWrites + others + 1] \in Document
  BY <1>1, BlankIsDocument, SlotWritten
<1>3. /\ Sync([Blank EXCEPT ![s] = MaxWrites + others + 1], Page)
      /\ UNCHANGED <<pulled, applies, post>>
  BY DEF Elsewhere
<1> QED BY <1>2, <1>3, SyncFromServer

\* Every step keeps what comes from the server merged, and forgets no merge.
LEMMA LearntStep ==
  ASSUME TypeOK, Learnt, [Next]_vars
  PROVE  Learnt' /\ merged \subseteq merged'
<1>1. ASSUME FromServer PROVE Learnt' /\ merged \subseteq merged'
  BY <1>1, LearntFromServer DEF FromServer
<1>2. ASSUME NEW p \in Page,
             \/ Progress(p) \/ Fault(p) \/ Periodic(p) \/ Open(p)
             \/ \E s \in Slot : AppWrite(p, s)
      PROVE  FromServer
  BY <1>2, ServerFromServer, ApplyFromServer, RestFromServer DEF Progress, Fault
<1>3. CASE UNCHANGED vars
  BY <1>3 DEF vars, Learnt
<1> QED BY <1>1, <1>2, <1>3, ElsewhereFromServer DEF Next

-----------------------------------------------------------------------------
(***************************************************************************)
(* What the last signature stands for was uploaded.                        *)
(***************************************************************************)

\* Write w is in a frame on the socket of page p.
OnWire(p, w) ==
  \E i \in 1..Len(wire[p]) :
    wire[p][i] # Get /\ w \in {wire[p][i].local, wire[p][i].db}

\* Only an open socket has frames under way: what is lost is lost at onclose.
WireIsUp == \A p \in Page : ws[p] # "open" => wire[p] = <<>>

\* SkippedIsUploaded without the detours: a dump and an HTTP sync take no part,
\* as pushSnapshot takes the signature with the frame or after the answer.
Covered(p) ==
  sig[p] # Unlike /\ fate[p] = "well" =>
    \A w \in {sig[p].local, sig[p].db} \intersect Write :
      w \in merged \/ OnWire(p, w)

Uploaded == WireIsUp /\ \A p \in Page : Covered(p)

\* Uploaded holds initially.
LEMMA UploadedInit == Init => Uploaded
BY DEF Init, Uploaded, WireIsUp, Covered

\* A page whose signature and frames stay as they are stays covered, and one
\* with the signature of a document that was merged is.
LEMMA StaysCovered ==
  ASSUME NEW p \in Page, Covered(p), merged \subseteq merged',
         sig'[p] = sig[p], fate'[p] = fate[p], wire'[p] = wire[p]
  PROVE  Covered(p)'
<1>1. \A w : OnWire(p, w)' <=> OnWire(p, w)
  BY DEF OnWire
<1> QED BY <1>1 DEF Covered

\* A page whose signature was merged is covered.
LEMMA MergedIsCovered ==
  ASSUME NEW p \in Page, sig'[p] # Unlike => Within(sig'[p], merged')
  PROVE  Covered(p)'
BY DEF Covered, Within

\* The server takes a frame: what it merges need not be on the wire any more.
LEMMA FrameCovered ==
  ASSUME TypeOK, Uploaded, merged \subseteq merged', NEW p \in Page, Frame(p)
  PROVE  Uploaded'
<1>1. /\ wire \in [Page -> Seq(Document \union {Get})]
      /\ wire[p] \in Seq(Document \union {Get}) /\ wire[p] # <<>>
      /\ ws[p] = "open"
  BY DEF TypeOK, Frame
<1>2. UNCHANGED <<sig, fate, ws>> /\ wire' = [wire EXCEPT ![p] = Tail(@)]
  BY DEF Frame
<1>3. wire'[p] = Tail(wire[p]) /\ \A q \in Page \ {p} : wire'[q] = wire[q]
  BY <1>1, <1>2
<1>4. /\ Head(wire[p]) = wire[p][1] /\ Len(Tail(wire[p])) = Len(wire[p]) - 1
      /\ Len(wire[p]) \in Nat /\ Tail(wire[p]) \in Seq(Document \union {Get})
      /\ \A i \in 1..Len(Tail(wire[p])) : Tail(wire[p])[i] = wire[p][i + 1]
  BY <1>1, HeadAndTail
<1>5. ASSUME NEW w \in Write, OnWire(p, w)
      PROVE  w \in merged' \/ OnWire(p, w)'
  <2>1. PICK i \in 1..Len(wire[p]) :
          wire[p][i] # Get /\ w \in {wire[p][i].local, wire[p][i].db}
    BY <1>5 DEF OnWire
  <2>2. CASE i = 1
    <3>1. Sync(wire[p][1], Page)
      BY <1>4, <2>1, <2>2 DEF Frame
    <3> QED BY <2>1, <2>2, <3>1 DEF Sync
  <2>3. CASE i # 1
    <3>1. i - 1 \in 1..Len(wire'[p]) /\ wire'[p][i - 1] = wire[p][i]
      BY <1>3, <1>4, <2>3
    <3> QED BY <2>1, <3>1 DEF OnWire
  <2> QED BY <2>2, <2>3
<1>6. Covered(p)'
  BY <1>2, <1>5 DEF Covered, Uploaded
<1>7. \A q \in Page \ {p} : Covered(q)'
  BY <1>2, <1>3, StaysCovered DEF Uploaded
<1>8. WireIsUp'
  BY <1>1, <1>2, <1>3 DEF WireIsUp, Uploaded
<1> QED BY <1>6, <1>7, <1>8 DEF Uploaded

\* A dump goes onto the wire together with its signature.
LEMMA DumpedCovered ==
  ASSUME TypeOK, Uploaded, NEW p \in Page, Dumped(p)
  PROVE  Uploaded'
<1>1. /\ wire \in [Page -> Seq(Document \union {Get})]
      /\ wire[p] \in Seq(Document \union {Get})
      /\ sig \in [Page -> Document \union {Unlike}]
  BY DEF TypeOK
<1>2. UNCHANGED <<fate, ws, merged>>
  BY DEF Dumped, server
<1>3. CASE UNCHANGED <<sig, wire>>
  BY <1>2, <1>3, StaysCovered DEF Uploaded, WireIsUp
<1>4. CASE /\ ws[p] = "open"
           /\ wire' = [wire EXCEPT ![p] = Append(@, Dump(p))]
           /\ sig' = [sig EXCEPT ![p] = Dump(p)]
  <2>1. Dump(p) \in Document /\ Dump(p) # Get
    BY DumpIsDocument, NotADocument DEF Dumped
  <2> DEFINE d == Dump(p)
  <2> HIDE DEF d
  <2>2. /\ wire'[p] = Append(wire[p], d) /\ sig'[p] = d
        /\ \A q \in Page \ {p} : wire'[q] = wire[q] /\ sig'[q] = sig[q]
    BY <1>1, <1>4 DEF d
  <2>3. Len(wire'[p]) = Len(wire[p]) + 1 /\ wire'[p][Len(wire[p]) + 1] = d
    BY <1>1, <2>1, <2>2 DEF d
  <2>4. Len(wire[p]) + 1 \in 1..Len(wire'[p])
    BY <1>1, <2>3
  <2>5. \A w \in {sig'[p].local, sig'[p].db} : OnWire(p, w)'
    BY <2>1, <2>2, <2>3, <2>4 DEF OnWire, d
  <2>6. Covered(p)'
    BY <2>5 DEF Covered
  <2>7. \A q \in Page \ {p} : Covered(q)'
    BY <1>2, <2>2, StaysCovered DEF Uploaded
  <2>8. WireIsUp'
    BY <1>2, <1>4, <2>2 DEF WireIsUp, Uploaded
  <2> QED BY <2>6, <2>7, <2>8 DEF Uploaded
<1> QED BY <1>3, <1>4 DEF Dumped

\* The answer to an HTTP sync, or a snapshot that was applied: either was
\* merged, and the wire is left alone.
LEMMA SignatureCovered ==
  ASSUME TypeOK, Learnt, Uploaded, NEW p \in Page, PostDone(p) \/ FinishApply(p)
  PROVE  Uploaded'
<1>1. UNCHANGED <<ws, wire, merged>>
  BY DEF PostDone, FinishApply, network, server
<1>2. \E d \in Document \union {Unlike} :
        sig' = [sig EXCEPT ![p] = d] /\ (d # Unlike => Within(d, merged))
  <2>1. CASE PostDone(p)
    <3>1. /\ post[p] # NoPost /\ post[p].handled
          /\ sig' = [sig EXCEPT ![p] = post[p].doc]
      BY <2>1 DEF PostDone
    <3>2. post[p].doc \in Document
      BY <3>1 DEF TypeOK
    <3> QED BY <3>1, <3>2 DEF Learnt
  <2>2. CASE FinishApply(p)
    <3>1. applies[p] \in Seq(Apply)
      BY DEF TypeOK, Apply
    <3>2. PICK i \in 1..Len(applies[p]) :
            \E t \in {applies[p][i].doc, Unlike} : sig' = [sig EXCEPT ![p] = t]
      BY <2>2 DEF FinishApply
    <3>3. applies[p][i] \in Apply
      BY <3>1, ElementOf
    <3>4. applies[p][i].doc \in Document /\ Within(applies[p][i].doc, merged)
      BY <3>3 DEF Apply, Learnt
    <3>5. \E t \in {applies[p][i].doc, Unlike} : sig' = [sig EXCEPT ![p] = t]
      BY <3>2
    <3> QED BY <3>4, <3>5
  <2> QED BY <2>1, <2>2
<1>3. /\ sig'[p] # Unlike => Within(sig'[p], merged')
      /\ \A q \in Page \ {p} : sig'[q] = sig[q]
  BY <1>1, <1>2 DEF TypeOK
<1>4. \A q \in Page \ {p} : fate'[q] = fate[q]
  BY DEF PostDone, FinishApply, TypeOK
<1>5. Covered(p)'
  BY <1>3, MergedIsCovered
<1>6. \A q \in Page \ {p} : Covered(q)'
  BY <1>1, <1>3, <1>4, StaysCovered DEF Uploaded
<1>7. WireIsUp'
  BY <1>1 DEF WireIsUp, Uploaded
<1> QED BY <1>5, <1>6, <1>7 DEF Uploaded

\* A frame that is refused, or lost with its connection, is on record; a new
\* connection starts with nothing under way.
LEMMA ConnectionCovered ==
  ASSUME TypeOK, Uploaded, NEW p \in Page,
         Refuse(p) \/ Close(p) \/ Open(p) \/ Reconnect(p)
  PROVE  Uploaded'
<1>1. UNCHANGED <<sig, merged>>
  BY DEF Refuse, Close, Open, Reconnect, server
<1>2. \A q \in Page \ {p} :
        fate'[q] = fate[q] /\ wire'[q] = wire[q] /\ ws'[q] = ws[q]
  BY DEF Refuse, Close, Open, Reconnect, TypeOK
<1>3. \A q \in Page \ {p} : Covered(q)'
  BY <1>1, <1>2, StaysCovered DEF Uploaded
<1>4. ws'[p] # "open" => wire'[p] = <<>>
  BY DEF Refuse, Close, Open, Reconnect, TypeOK, Uploaded, WireIsUp
<1>5. Covered(p)'
  <2>1. CASE fate'[p] = fate[p] /\ \A w : ~OnWire(p, w)
    BY <1>1, <2>1 DEF Covered, Uploaded
  <2>2. CASE fate'[p] # "well"
    BY <2>2 DEF Covered
  <2>3. CASE Reconnect(p)
    BY <1>1, <2>3, StaysCovered DEF Uploaded, Reconnect
  <2>4. CASE Refuse(p)
    <3>1. fate'[p] = "refused"
      BY <2>4 DEF Refuse, TypeOK
    <3> QED BY <2>2, <3>1
  <2>5. CASE Open(p)
    <3>1. wire[p] = <<>> /\ fate' = fate
      BY <2>5 DEF Open, Uploaded, WireIsUp
    <3>2. \A w : ~OnWire(p, w)
      BY <3>1 DEF OnWire
    <3> QED BY <2>1, <3>1, <3>2
  <2>6. CASE Close(p)
    <3>1. CASE \E i \in 1..Len(wire[p]) : wire[p][i] # Get
      <4>1. fate'[p] = "lost"
        BY <2>6, <3>1 DEF Close, TypeOK
      <4> QED BY <2>2, <4>1
    <3>2. CASE ~\E i \in 1..Len(wire[p]) : wire[p][i] # Get
      <4>1. fate'[p] = fate[p]
        BY <2>6, <3>2 DEF Close, TypeOK
      <4>2. \A w : ~OnWire(p, w)
        BY <3>2 DEF OnWire
      <4> QED BY <2>1, <4>1, <4>2
    <3> QED BY <3>1, <3>2
  <2> QED BY <2>3, <2>4, <2>5, <2>6
<1>6. WireIsUp'
  BY <1>2, <1>4 DEF WireIsUp, Uploaded
<1> QED BY <1>3, <1>5, <1>6 DEF Uploaded

\* Every step keeps Uploaded.
LEMMA UploadedStep ==
  TypeOK /\ Learnt /\ Uploaded /\ [Next]_vars => Uploaded'
<1> SUFFICES ASSUME TypeOK, Learnt, Uploaded, [Next]_vars PROVE Uploaded'
  OBVIOUS
<1>1. merged \subseteq merged'
  BY LearntStep
<1>2. CASE UNCHANGED <<ws, wire, sig, fate>>
  BY <1>1, <1>2, StaysCovered DEF Uploaded, WireIsUp
<1>3. ASSUME NEW p \in Page,
             \/ PostHandled(p) \/ PullHandled(p) \/ Fire(p) \/ Receive(p)
             \/ ApplyPulled(p) \/ PutRecords(p) \/ RaceTimeout(p) \/ PostFails(p)
             \/ PullFails(p) \/ Periodic(p) \/ \E s \in Slot : AppWrite(p, s)
      PROVE  UNCHANGED <<ws, wire, sig, fate>>
  BY <1>3 DEF PostHandled, PullHandled, Fire, Receive, ApplyPulled, PutRecords,
              RaceTimeout, PostFails, PullFails, Periodic, AppWrite, network
<1>4. ASSUME NEW s \in Slot, Elsewhere(s) PROVE UNCHANGED <<ws, wire, sig, fate>>
  BY <1>4 DEF Elsewhere
<1>5. CASE UNCHANGED vars
  BY <1>2, <1>5 DEF vars
<1> QED BY <1>1, <1>2, <1>3, <1>4, <1>5, FrameCovered, DumpedCovered,
           SignatureCovered, ConnectionCovered DEF Next, Progress, Fault

\* pushSnapshot skips a push only for content that the server has merged or
\* that is on its way to it, unless frames were lost or refused since the page
\* last applied a snapshot.  (pushSnapshot, applySnapshot)
THEOREM SkippedIsUploadedCorrect == Spec => []SkippedIsUploaded
<1>1. Uploaded => SkippedIsUploaded
  BY DEF Uploaded, Covered, OnWire, SkippedIsUploaded, InTransit
<1>2. TypeOK /\ Learnt /\ [Next]_vars => Learnt'
  BY LearntStep
<1> QED BY <1>1, <1>2, TypeCorrect, LearntInit, UploadedInit, UploadedStep, PTL DEF Spec

=============================================================================
