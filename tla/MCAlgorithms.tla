---------------------------- MODULE MCAlgorithms ----------------------------
(***************************************************************************)
(* Inputs for Algorithms.                                                  *)
(***************************************************************************)
EXTENDS Algorithms

\* Snapshots with at most one store of at most two records, over values that
\* nest a list in an object and an object in an object.
MCValues == {Atom("x"), Object("a" :> List(<<Atom("x")>>)),
             Object(("a" :> List(<<Atom("y"), Atom("x")>>)) @@ ("b" :> Atom("x"))),
             Object("b" :> Object("c" :> Atom("y")))}
MCRecords == [key : {NoKey, "k1", "k2"}, value : MCValues]
MCStores == [keyPath : {NoKeyPath}, autoIncrement : {FALSE},
             records : BoundedSeq(MCRecords, 2)]
MCSnapshots ==
  {s \in {<<>>, "db" :> [version |-> 1, stores |-> <<>>]}
         \union {"db" :> [version |-> 2, stores |-> "st" :> t] : t \in MCStores}
     : KeysDiffer(s)}

MCStrings == STRING
MCStreams == {"data:", "x", " ", "lf", "cr"}

\* Three macros, each of which may refer to any and to the environment.
MCTexts == {<<"x">>, <<"E">>, <<"A">>, <<"B">>, <<"C">>, <<"B", "C">>, <<"C", "E">>, <<"x", "B">>}
MCMacroSets == [{"A", "B", "C"} -> MCTexts]

\* A model of each kind.
Plain(type, aliases) ==
  [type |-> type, expands |-> TRUE, flags |-> {}, context |-> 0, gguf |-> NoFile,
   caps |-> <<>>, aliases |-> aliases]
Thinker == [context |-> 8, tools |-> TRUE, thinks |-> TRUE]
MCFlags == {"chat-template", "no-jinja", "reasoning on", "reasoning off", "mmproj"}
MCCaps == {<<>>, "reasoning" :> FALSE, ("tool_call" :> TRUE) @@ ("vision" :> FALSE),
           "vision" :> TRUE}
MCCapable ==
  {[Plain("llm", {"alias"}) EXCEPT !.flags = f, !.gguf = g, !.caps = c, !.context = n]
     : f \in SUBSET MCFlags, g \in {NoFile, Thinker}, c \in MCCaps, n \in {0, 4}}
MCOthers == {Plain("sd", {}), Plain("sd", {"alias"}), [Plain("sd", {}) EXCEPT !.expands = FALSE],
             Plain("", {"m1"}), [Plain("llm", {}) EXCEPT !.flags = {"embedding"}]}
MCDefs == {("m1" :> d) @@ ("m2" :> e) : d \in MCCapable, e \in MCOthers}

\* Files of up to two entries.
Scalar(typ) == [typ |-> typ]
Text(n, len) == [typ |-> String, n |-> n, len |-> len]
Numbers(elem, n, len) == [typ |-> Array, elem |-> elem, n |-> n, len |-> len]
ListOf(elem, items) == [typ |-> Array, elem |-> elem, items |-> items]
Keyed(key, v, text) == [key |-> key, arch |-> "", v |-> v, text |-> text, number |-> 0]
MCEntries ==
  {Keyed("general.architecture", v, "llama")
     : v \in {Text(2, 2), Scalar(4), Text(100, 2), Text(41, 41)}}
  \union {Keyed("tokenizer.chat_template", Text(1, 1), "t")}
  \union {[key |-> "context_length", arch |-> a, v |-> Scalar(t), text |-> "", number |-> 4 * t]
            : a \in {"llama", "clip"}, t \in {4, 10, 7}}
  \union {Keyed("other", v, "") :
            v \in {Scalar(13), Scalar(2), Text(3, 3), Text(250, 3), Text(120, 3),
                   Numbers(6, 3, 3), Numbers(12, 32, 1), Numbers(3, 60, 1),
                   Numbers(13, 0, 0), Numbers(13, 1, 1),
                   ListOf(String, <<Text(1, 1), Text(2, 2)>>),
                   ListOf(Array, <<Numbers(0, 2, 2), ListOf(String, <<Text(1, 1)>>)>>)}}
MCFiles ==
  {f \in [version : {3}, count : {2}, entries : BoundedSeq(MCEntries, 2)]
         \union [version : {1, 2}, count : {1}, entries : BoundedSeq(MCEntries, 1)]
     : FileSize(f) < 128}

\* Requests: any mixture of ids in headers and body, and bodies of all kinds.
MCBodies ==
  {Raw} \union
  [json : {TRUE}, stream : {None, "false", "true"}, return_progress : {None, "true", "false"},
   model : {None, "m1"}, number : {5, 9}, headers : {[session |-> None, message |-> "b"],
                                                     [session |-> "s", message |-> "b"]}]
MCRequests ==
  {[route |-> t, segment |-> "m2", body |-> b, length |-> 10, bytes |-> n, cut |-> n < 10,
    header |-> [session |-> h, message |-> None]]
     : t \in {"upstream", "other"}, b \in MCBodies, n \in {4, 10}, h \in {None, "t"}}

\* Pages of up to three pieces.
MCPieces == {HeadEnd} \union
  {Script(0, t, src, FALSE, NoType) : t \in {NoType, "module", "application/json"},
                                      src \in BOOLEAN}
  \union {Script(0, NoType, src, TRUE, NoType) : src \in BOOLEAN}
  \union {Script(0, t, FALSE, FALSE, "k") : t \in {NoType, "module"}}
MCPages ==
  {[i \in 1..Len(s) |-> IF s[i] = HeadEnd THEN HeadEnd ELSE [s[i] EXCEPT !.n = i]]
     : s \in BoundedSeq(MCPieces, 3)}

\* Users and models, some with the characters that have a meaning.
MCOdd == <<"a", "|", "model:", "a">>
MCUsers == {<<>>, <<"a">>, <<"b">>, <<"default">>, <<"|">>, <<"a", "/">>, <<"/", "a">>, MCOdd}
MCVisits == [user : MCUsers, model : BoundedSeq({"a", "/", "|"}, 2) \union {MCOdd},
             isolate : BOOLEAN]
=============================================================================
