------------------------------- MODULE Macros -------------------------------
(***************************************************************************)
(* The expansion of macros in the commands of llama-swap's configuration   *)
(* (main.go).  A text is a sequence of tokens: names of macros, names of   *)
(* environment variables, and literals.  The macros are applied in the     *)
(* order of a Go map, which is any order, so that an expansion has a set   *)
(* of possible outcomes.                                                   *)
(***************************************************************************)
EXTENDS SequencesExt

CONSTANTS Rounds,        \* 8 in expandMacros
          EnvName        \* the names of environment variables

ASSUME RoundsAssumption == Rounds \in Nat \ {0}

MissingEnv == <<"missing env macro">>

\* One pass over s: the tokens of f's domain are replaced by their texts.
Substitute(s, f) ==
  FlattenSeq([i \in 1..Len(s) |-> IF s[i] \in DOMAIN f THEN f[s[i]] ELSE <<s[i]>>])

Misses(s, env) == (ToSet(s) \intersect EnvName) \ DOMAIN env # {}

\* ReplaceAll for each macro, in the order of the sequence names.
ApplyMacros(s, macros, names) ==
  LET after[n \in 0..Len(names)] ==
        IF n = 0 THEN s ELSE Substitute(after[n - 1], [m \in {names[n]} |-> macros[m]])
  IN after[Len(names)]

\* What a round makes of a command, if the loop goes on with it: environment
\* macros come first, and the loop ends if the macros change nothing.
Round(c, macros, env) ==
  IF ~c.runs THEN {c}
  ELSE IF Misses(c.text, env) THEN {[text |-> MissingEnv, runs |-> FALSE]}
  ELSE LET e == Substitute(c.text, env) IN
       {[text |-> t, runs |-> t # e]
          : t \in {ApplyMacros(e, macros, names) : names \in SetToSeqs(DOMAIN macros)}}

\* Mutant: there is one round less.
MutantExpansions(s, macros, env) ==
  LET after[n \in 0..Rounds] ==
        IF n = 0 THEN {[text |-> s, runs |-> TRUE]}
        ELSE UNION {Round(c, macros, env) : c \in after[n - 1]}
  IN {c.text : c \in after[Rounds - 1]}

\* expandMacros
Expansions(s, macros, env) ==
  LET after[n \in 0..Rounds] ==
        IF n = 0 THEN {[text |-> s, runs |-> TRUE]}
        ELSE UNION {Round(c, macros, env) : c \in after[n - 1]}
  IN {c.text : c \in after[Rounds]}

-----------------------------------------------------------------------------
(***************************************************************************)
(* Reference: macros that do not depend on themselves, each replaced by    *)
(* its text until none is left.                                            *)
(***************************************************************************)
\* Macros nest, less deep than there are rounds: each has a rank, higher than
\* those of the macros in its text.
Ranks(rank, macros) ==
  \A m, x \in DOMAIN macros : Contains(macros[m], x) => rank[x] < rank[m]

Acyclic(macros) == \E rank \in [DOMAIN macros -> 1..(Rounds - 1)] : Ranks(rank, macros)

\* The values of variables name no others and no macros.
Literal(env, macros) ==
  \A e \in DOMAIN env : \A x \in EnvName \union DOMAIN macros : ~Contains(env[e], x)

\* The text that s stands for, if the macros are acyclic.
Meaning(s, macros) ==
  LET after[n \in 0..Rounds] == IF n = 0 THEN s ELSE Substitute(after[n - 1], macros)
  IN after[Rounds]

\* A missing variable is an error if the text leads to it.
Expanded(s, macros, env) ==
  LET m == Meaning(s, macros) IN
  IF Misses(m, env) THEN MissingEnv ELSE Substitute(m, env)

\* Macros, with tokens from T.
IsMacros(f, T) ==
  /\ IsFiniteSet(DOMAIN f) /\ DOMAIN f \subseteq T \ EnvName
  /\ \A m \in DOMAIN f : f[m] \in Seq(T)
=============================================================================
