----------------------------- MODULE GgufReader -----------------------------
(***************************************************************************)
(* The reader of GGUF metadata (gguf.go).  A file is its version, the      *)
(* stated number of its entries, and the entries; an entry is a key, a     *)
(* value with a type, and what the value says.  Strings and arrays of      *)
(* scalars state a length next to the one they have; other arrays state    *)
(* the one they have.  What matters is how many bytes the reader takes:    *)
(* once it is astray, what it reads is anything.                           *)
(***************************************************************************)
EXTENDS SequencesExt

CONSTANTS Word,    \* 2^64: the number of values of a length
          Half,    \* 2^32: the number of values of a uint32
          MaxText, \* 2^24: the longest string that is read
          KeySize, \* the bytes of a key with its length
          Nesting  \* bound: how deep arrays nest

ASSUME GgufAssumption ==
  {Word, Half, MaxText, KeySize} \subseteq Nat \ {0} /\ Nesting \in Nat

String == 8
Array == 9

\* A uint64 as an int64.
Signed(n) == IF 2 * n >= Word THEN n - Word ELSE n

\* ggufScalarSize
ScalarSize(typ) ==
  CASE typ \in {0, 1, 7} -> 1
    [] typ \in {2, 3} -> 2
    [] typ \in {4, 5, 6} -> 4
    [] typ \in {10, 11, 12} -> 8
    [] OTHER -> -1

\* What becomes of a reader; one that goes on at a wrong place is astray.
Read == "read"
Failed == "failed"
Astray == "astray"

\* In place of a number of bytes: there is a type that is not known, or a
\* string that is too long.
Refused == -1

\* The bytes of parts, which are at places 1 to n, after start bytes.
Together(parts, n, start) ==
  LET upTo[m \in 0..n] ==
        IF m = 0 THEN start
        ELSE IF upTo[m - 1] = Refused \/ parts[m] = Refused THEN Refused
        ELSE upTo[m - 1] + parts[m]
  IN upTo[n]

\* io.CopyN takes no bytes if n is negative.
Skipped(n) == IF n > 0 THEN n ELSE 0

\* ggufDiscard: the bytes that it takes for a value.  The function taken is
\* what it takes, called by itself, for the elements of arrays.
DiscardArray(taken, v) ==
  CASE ScalarSize(v.elem) > 0 -> 12 + Skipped(Signed((v.n * ScalarSize(v.elem)) % Word))
    [] v.elem \in {String, Array} ->
         Together([m \in 1..Len(v.items) |-> taken[v.items[m]]], Len(v.items), 12)
    [] OTHER -> IF v.n = 0 THEN 12 ELSE Refused

DiscardWith(taken, v) ==
  CASE ScalarSize(v.typ) > 0 -> ScalarSize(v.typ)
    [] v.typ = String -> 8 + Skipped(Signed(v.n))
    [] v.typ = Array -> DiscardArray(taken, v)
    [] OTHER -> Refused

\* The values, where elements of arrays that are not scalars are in S.
OtherType == Nat \ {String, Array}
NestedOver(S) ==
  [typ : OtherType] \union [typ : {String}, n : Nat, len : Nat]
  \union [typ : {Array}, elem : OtherType, n : Nat, len : Nat]
  \union {a \in [typ : {Array}, elem : {String, Array}, items : Seq(S)] :
            \A m \in 1..Len(a.items) : a.items[m].typ = a.elem}

\* The true size of a value, and whether its stated lengths are true (the GGUF
\* format); size and stated are those of its elements.
SizeWith(size, v) ==
  CASE v.typ \in OtherType -> Skipped(ScalarSize(v.typ))
    [] v.typ = String -> 8 + v.len
    [] v.typ = Array /\ v.elem \in OtherType -> 12 + v.len * Skipped(ScalarSize(v.elem))
    [] v.typ = Array /\ v.elem \in {String, Array} ->
         Together([m \in 1..Len(v.items) |-> size[v.items[m]]], Len(v.items), 12)

StatedWith(stated, v) ==
  CASE v.typ \in OtherType -> ScalarSize(v.typ) > 0
    [] v.typ = String -> v.n = v.len
    [] v.typ = Array /\ v.elem \in OtherType ->
         v.n = v.len /\ (ScalarSize(v.elem) > 0 \/ v.n = 0)
    [] v.typ = Array /\ v.elem \in {String, Array} ->
         \A m \in 1..Len(v.items) : stated[v.items[m]]

\* The values whose arrays nest up to n levels.
Nested[n \in 0..Nesting] ==
  IF n = 0 THEN [values |-> {}, taken |-> <<>>, size |-> <<>>, stated |-> <<>>]
  ELSE LET V == NestedOver(Nested[n - 1].values)
       IN [values |-> V,
           taken |-> [v \in V |-> DiscardWith(Nested[n - 1].taken, v)],
           size |-> [v \in V |-> SizeWith(Nested[n - 1].size, v)],
           stated |-> [v \in V |-> StatedWith(Nested[n - 1].stated, v)]]

Value == Nested[Nesting].values
Discard(v) == Nested[Nesting].taken[v]
SizeOf(v) == Nested[Nesting].size[v]
TrueLengths(v) == Nested[Nesting].stated[v]

\* ggufReadStr: the bytes of a string; a long one is refused.
ReadStr(v) == IF v.n > MaxText THEN Refused ELSE 8 + v.n

\* The entries whose values are kept.
IsArchitecture(e) == e.key = "general.architecture" /\ e.v.typ = String
IsTemplate(e) == e.key = "tokenizer.chat_template" /\ e.v.typ = String
IsContext(e) == e.key = "context_length" /\ e.v.typ \in {4, 10}

\* What the reader knows: the fields of GGUFMeta, and contextByArch.
Nothing == [arch |-> "", template |-> "", context |-> <<>>]

Set(map, key, value) ==
  [k \in DOMAIN map \union {key} |-> IF k = key THEN value ELSE map[k]]

Noted(meta, e) ==
  CASE IsArchitecture(e) -> [meta EXCEPT !.arch = e.text]
    [] IsTemplate(e) -> [meta EXCEPT !.template = e.text]
    [] IsContext(e) -> [meta EXCEPT !.context = Set(@, e.arch, e.number % Half)]
    [] OTHER -> meta

\* Mutant: a value that is kept is not skipped.
MutantTakes(e) ==
  IF IsArchitecture(e) \/ IsTemplate(e) \/ IsContext(e) THEN 0 ELSE Discard(e.v)

\* The bytes that are taken for the value of entry e.
Takes(e) == IF IsArchitecture(e) \/ IsTemplate(e) THEN ReadStr(e.v) ELSE Discard(e.v)

\* An entry's value, if it is kept, is a text or a number.
KeyValue(T) == [key : T, arch : T, v : Value, text : T, number : Nat]

EntrySize(e) == KeySize + 4 + SizeOf(e.v)

\* One round of the loop of readGGUFMeta, in a file that ends at cut.  The
\* reader is astray when it is not where the next entry starts.
ReadEntry(r, e, cut) ==
  LET pos == r.pos + KeySize + 4 + Takes(e) IN
  IF r.is # "reading" THEN r
  ELSE IF Takes(e) = Refused \/ pos > cut THEN [r EXCEPT !.is = Failed]
  ELSE IF Takes(e) # SizeOf(e.v) THEN [r EXCEPT !.is = Astray]
  ELSE [r EXCEPT !.pos = pos, !.meta = Noted(@, e)]

HeaderSize == 24             \* magic, version, n_tensors, n_kv

\* The loop.
ReadEntries(file, cut) ==
  LET after[n \in 0..Len(file.entries)] ==
        IF n = 0 THEN [is |-> "reading", pos |-> HeaderSize, meta |-> Nothing]
        ELSE IF n > file.count THEN after[n - 1]
        ELSE ReadEntry(after[n - 1], file.entries[n], cut)
  IN after[Len(file.entries)]

\* readGGUFMeta: Failed, Astray, or the metadata.
ReadMeta(file, cut) ==
  LET r == ReadEntries(file, cut)
      known == r.meta.arch \in DOMAIN r.meta.context /\ r.meta.arch # ""
  IN IF cut < HeaderSize \/ file.version < 2 THEN [is |-> Failed]
     ELSE IF r.is # "reading" THEN [is |-> r.is]
     ELSE IF file.count > Len(file.entries) THEN [is |-> Failed]
     ELSE [is |-> Read, arch |-> r.meta.arch, template |-> r.meta.template,
           context |-> IF known THEN r.meta.context[r.meta.arch] ELSE 0]

-----------------------------------------------------------------------------
(***************************************************************************)
(* Reference.                                                              *)
(***************************************************************************)
FileSize(file) ==
  LET es == file.entries
  IN Together([n \in 1..Len(es) |-> EntrySize(es[n])], Len(es), HeaderSize)

\* Files, with texts from T, that an int64 can count the bytes of.
IsFile(file, T) ==
  /\ file \in [version : Nat, count : Nat, entries : Seq(KeyValue(T))]
  /\ FileSize(file) < Word \div 2

AllTrue(file) == \A n \in 1..Len(file.entries) : TrueLengths(file.entries[n].v)

WellFormed(file) ==
  file.version >= 2 /\ file.count = Len(file.entries) /\ AllTrue(file)

\* The last of the entries at the places in I.
LastOf(entries, I) == IF I = {} THEN [text |-> "", number |-> 0] ELSE entries[Max(I)]

MetaOf(file) ==
  LET es == file.entries
      arch == LastOf(es, {n \in 1..Len(es) : IsArchitecture(es[n])}).text
      own == {n \in 1..Len(es) : IsContext(es[n]) /\ es[n].arch = arch /\ arch # ""}
  IN [is |-> Read, arch |-> arch, context |-> LastOf(es, own).number,
      template |-> LastOf(es, {n \in 1..Len(es) : IsTemplate(es[n])}).text]

\* Some value states a length that it does not have, and each that does
\* states more bytes than the file has, in a number that an int64 holds.
Overstates(v, file) ==
  LET size == IF v.typ = String THEN 1 ELSE ScalarSize(v.elem) IN
  /\ v.typ \in {String, Array} /\ size > 0
  /\ v.n * size \in FileSize(file)..((Word \div 2) - 1)

Overstated(file) ==
  /\ file.version >= 2 /\ file.count >= Len(file.entries) /\ ~AllTrue(file)
  /\ \A n \in 1..Len(file.entries) :
       TrueLengths(file.entries[n].v) \/ Overstates(file.entries[n].v, file)

\* Contexts that a uint32 holds, and texts that are not refused.
ContextsFit(file) ==
  \A n \in 1..Len(file.entries) : IsContext(file.entries[n]) => file.entries[n].number < Half
TextsFit(file) ==
  \A n \in 1..Len(file.entries) :
    LET e == file.entries[n] IN IsArchitecture(e) \/ IsTemplate(e) => e.v.n <= MaxText
=============================================================================
