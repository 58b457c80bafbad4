----------------------------- MODULE MergeValue -----------------------------
(***************************************************************************)
(* The merge of IndexedDB snapshots (sync_store.go), on the documents as   *)
(* they are: databases, stores, records and JSON values.  SessionStore     *)
(* has the same documents flattened to leaves; Leaves is that flattening.  *)
(***************************************************************************)
EXTENDS Selection

CONSTANTS Scalars,       \* strings, numbers, booleans, null
          Fields,        \* the names of fields
          Depth          \* bound: how deep values nest

ASSUME DepthAssumption == Depth \in Nat

\* JSON values.  An object has all fields, of which some are absent.
Absent == [kind |-> "absent"]
Atom(a) == [kind |-> "atom", is |-> a]
Object(f) ==
  [kind |-> "object", of |-> [k \in Fields |-> IF k \in DOMAIN f THEN f[k] ELSE Absent]]
List(s) == [kind |-> "list", of |-> s]

NoKey == "no key"        \* a record of a store whose keys are not dumped
NoKeyPath == "no path"

Both(e, i, kind) == e.kind = kind /\ i.kind = kind

\* Mutant: lists are concatenated.
MutantJoined(e, i) == e \o i

\* e, and what of i is not in it or earlier in i.
Joined(e, i) ==
  e \o Picked(i, {n \in 1..Len(i) : /\ ~Contains(e, i[n])
                                    /\ \A m \in 1..(n - 1) : i[m] # i[n]})

\* mergeJSONValue, whose calls of itself are the function merge: objects field
\* by field, lists as unions in order; otherwise the incoming value.
MergeWith(merge, e, i) ==
  CASE Both(e, i, "object") ->
         Object([k \in Fields |-> IF i.of[k] = Absent THEN e.of[k]
                                  ELSE IF e.of[k] = Absent THEN i.of[k]
                                  ELSE merge[e.of[k]][i.of[k]]])
    [] Both(e, i, "list") -> List(Joined(e.of, i.of))
    [] OTHER -> i

\* The values whose parts are in S.
ValuesOver(S) ==
  [kind : {"atom"}, is : Scalars]
  \union [kind : {"object"}, of : [Fields -> S \union {Absent}]]
  \union [kind : {"list"}, of : Seq(S)]

\* The values that nest up to n levels, and the merge of two.
Level[n \in 0..Depth] ==
  IF n = 0 THEN [values |-> {}, merge |-> <<>>]
  ELSE LET V == ValuesOver(Level[n - 1].values)
       IN [values |-> V,
           merge |-> [e \in V |-> [i \in V |-> MergeWith(Level[n - 1].merge, e, i)]]]

JSON == Level[Depth].values
MergeJSON(e, i) == Level[Depth].merge[e][i]

\* Mutant: a record replaces the one of its key.
MutantMergeRecord(out, rec) ==
  LET at == SelectLastInSeq(out, LAMBDA r : r.key = rec.key) IN
  IF at > 0 THEN [out EXCEPT ![at] = rec] ELSE Append(out, rec)

\* One incoming record: merged into the record of its key, else added, unless
\* the same record is there.
MergeRecord(out, rec) ==
  LET at == SelectLastInSeq(out, LAMBDA r : r.key = rec.key) IN
  IF rec.key # NoKey /\ at > 0
  THEN [out EXCEPT ![at] = [key |-> rec.key, value |-> MergeJSON(out[at].value, rec.value)]]
  ELSE IF Contains(out, rec) THEN out ELSE Append(out, rec)

\* mergeIDBRecords.
MergeRecords(e, i) ==
  LET out[n \in 0..Len(i)] == IF n = 0 THEN e ELSE MergeRecord(out[n - 1], i[n])
  IN out[Len(i)]

\* The entries of either map; those of both are combined by Op.
Union(e, i, Op(_, _)) ==
  [x \in DOMAIN e \union DOMAIN i |->
     IF x \notin DOMAIN i THEN e[x]
     ELSE IF x \notin DOMAIN e THEN i[x] ELSE Op(e[x], i[x])]

MergeStore(e, i) ==
  [keyPath |-> IF e.keyPath = NoKeyPath THEN i.keyPath ELSE e.keyPath,
   autoIncrement |-> e.autoIncrement \/ i.autoIncrement,
   records |-> MergeRecords(e.records, i.records)]

MergeDatabase(e, i) ==
  [version |-> Max({e.version, i.version}),
   stores |-> Union(e.stores, i.stores, MergeStore)]

\* mergeIndexedDB.
MergeIndexedDB(e, i) == Union(e, i, MergeDatabase)

-----------------------------------------------------------------------------
(***************************************************************************)
(* Reference: leaves, pairs of a path and an atom.  An element of a list,  *)
(* and a record without a key, is a path of its own.                       *)
(***************************************************************************)
\* A leaf, and those of L, one step further down.
Put(k, l) == <<<<Atom(k)>> \o l[1], l[2]>>
Under(k, L) == {Put(k, l) : l \in L}

Present(v) == {k \in Fields : v.of[k] # Absent}

\* Of the values that nest up to n levels: their leaves, and which two have
\* objects at the same places.
Picture[n \in 0..Depth] ==
  IF n = 0 THEN [leaves |-> <<>>, alike |-> <<>>]
  ELSE LET V == Level[n].values
           below == Picture[n - 1]
       IN [leaves |-> [v \in V |->
             CASE v.kind = "atom" -> {<<<<>>, v>>}
               [] v.kind = "object" ->
                    UNION {Under(k, below.leaves[v.of[k]]) : k \in Present(v)}
               [] v.kind = "list" -> {<<<<x>>, x>> : x \in ToSet(v.of)}],
           alike |-> [e \in V |-> [i \in V |->
             /\ e.kind = i.kind
             /\ e.kind = "object" =>
                  \A k \in Present(e) \intersect Present(i) : below.alike[e.of[k]][i.of[k]]]]]

SameShape(e, i) == Picture[Depth].alike[e][i]

RecordLeaves(r) ==
  IF r.key = NoKey THEN {<<<<r>>, r>>} ELSE Under(r.key, Picture[Depth].leaves[r.value])

StoreLeaves(t) == UNION {RecordLeaves(r) : r \in ToSet(t.records)}

DatabaseLeaves(db) == UNION {Under(s, StoreLeaves(db.stores[s])) : s \in DOMAIN db.stores}

Leaves(db) == UNION {Under(d, DatabaseLeaves(db[d])) : d \in DOMAIN db}

\* SessionStore's Override, on leaves as pairs.
Overridden(E, I) == {l \in E : \A m \in I : m[1] # l[1]} \union I

AgreeInShape(e, i) ==
  \A d \in DOMAIN e \intersect DOMAIN i :
    \A s \in DOMAIN e[d].stores \intersect DOMAIN i[d].stores :
      \A r \in ToSet(e[d].stores[s].records), q \in ToSet(i[d].stores[s].records) :
        r.key = q.key /\ r.key # NoKey => SameShape(r.value, q.value)

\* The records whose keys are known have different keys: in a store, in all.
OwnKeys(rs) ==
  \A m, n \in 1..Len(rs) : rs[m].key = rs[n].key /\ rs[m].key # NoKey => m = n

KeysDiffer(db) ==
  \A d \in DOMAIN db : \A s \in DOMAIN db[d].stores : OwnKeys(db[d].stores[s].records)

\* Snapshots, whose names and keys are in T.
Record(T) == [key : T \union {NoKey}, value : JSON]
Store(T) ==
  [keyPath : T \union {NoKeyPath}, autoIncrement : BOOLEAN, records : Seq(Record(T))]

IsMap(f, T) == DOMAIN f \subseteq T /\ f = [x \in DOMAIN f |-> f[x]]

IsDatabase(db, T) ==
  /\ db \in [version : Nat, stores : {db.stores}] /\ IsMap(db.stores, T)
  /\ \A s \in DOMAIN db.stores : db.stores[s] \in Store(T)

IsSnapshot(db, T) == IsMap(db, T) /\ \A d \in DOMAIN db : IsDatabase(db[d], T)
=============================================================================
