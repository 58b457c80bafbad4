------------------------------ MODULE OpenCode ------------------------------
(***************************************************************************)
(* The listing that /opencode derives from llama-swap's configuration      *)
(* (main.go).  A command is the set of its flags, its context size and the *)
(* GGUF file it names.  The models come in the order of a Go map, which is *)
(* any order.                                                              *)
(***************************************************************************)
EXTENDS SequencesExt

\* A command without a (readable) model file.
NoFile == [context |-> 0, tools |-> FALSE, thinks |-> FALSE]

\* Models in the configuration, with names and flags from T.
Capabilities == UNION {[S -> BOOLEAN] : S \in SUBSET {"vision", "tool_call", "reasoning"}}
Model(T) ==
  [type : T, expands : BOOLEAN, flags : SUBSET T, context : Nat,
   gguf : [context : Nat, tools : BOOLEAN, thinks : BOOLEAN],
   caps : Capabilities, aliases : SUBSET T]

NoModels == [failed |-> FALSE, models |-> <<>>]
Error == [failed |-> TRUE, models |-> <<>>]      \* the answer is an error

\* shouldIncludeOpenCodeModel
ShouldInclude(type, include, exclude) ==
  CASE include = {} /\ exclude = {} -> TRUE
    [] include # {} /\ exclude = {} -> type \in include
    [] include = {} /\ exclude # {} -> type \notin exclude
    [] OTHER -> type \notin exclude

Has(def, flags) == def.flags \intersect flags # {}

\* The later of a sequence of optional assignments wins: v, then f[x] if x is
\* there.
Assign(v, f, x) == IF x \in DOMAIN f THEN f[x] ELSE v

\* Mutant: --reasoning on is looked at before what turns it off.
MutantReasoning(def) ==
  LET template == def.gguf.thinks /\ ~Has(def, {"chat-template", "chat-template-file"})
      on == template \/ Has(def, {"reasoning on"})
  IN Assign(on /\ ~Has(def, {"skip-chat-parsing", "no-jinja", "reasoning off",
                             "reasoning-format none"}), def.caps, "reasoning")

\* From the template, unless replaced; then the flags; then the metadata.
Reasoning(def) ==
  LET template == def.gguf.thinks /\ ~Has(def, {"chat-template", "chat-template-file"})
      parsed == template /\ ~Has(def, {"skip-chat-parsing", "no-jinja"})
      notOff == parsed /\ ~Has(def, {"reasoning off", "reasoning-format none"})
      orOn == notOff \/ Has(def, {"reasoning on"})
  IN Assign(orOn, def.caps, "reasoning")

ToolCall(def) ==
  LET template == def.gguf.tools /\ ~Has(def, {"chat-template", "chat-template-file"})
      parsed == template /\ ~Has(def, {"skip-chat-parsing", "no-jinja"})
  IN Assign(parsed, def.caps, "tool_call")

\* Only a vision capability that is true is taken from the metadata.
Vision(def) == Has(def, {"mmproj"}) \/ ("vision" \in DOMAIN def.caps /\ def.caps["vision"])

\* The configured context, or else that of the file; none if both are 0.
Limit(def) ==
  [context |-> IF def.context > 0 THEN def.context ELSE def.gguf.context,
   input   |-> def.gguf.context]

Entry(name, def) ==
  [name |-> name, limit |-> Limit(def), vision |-> Vision(def),
   tool_call |-> ToolCall(def), reasoning |-> Reasoning(def)]

\* What a model adds to the listing: itself and its aliases.
Entries(name, def) == [x \in {name} \union def.aliases |-> Entry(x, def)]

\* Entries replace those of the same name.
Over(new, old) ==
  [x \in DOMAIN new \union DOMAIN old |-> IF x \in DOMAIN new THEN new[x] ELSE old[x]]

\* One round of the loop over the models.
AddModel(listing, name, def, include, exclude) ==
  LET looked == ~listing.failed /\ ShouldInclude(def.type, include, exclude)
  IN CASE ~looked -> listing
       [] looked /\ ~def.expands -> Error
       [] looked /\ def.expands /\ Has(def, {"embedding"}) -> listing
       [] OTHER -> [failed |-> FALSE, models |-> Over(Entries(name, def), listing.models)]

\* opencodeHandler, with the models in the given order.
Listing(names, defs, include, exclude) ==
  LET after[n \in 0..Len(names)] ==
        IF n = 0 THEN NoModels
        ELSE AddModel(after[n - 1], names[n], defs[names[n]], include, exclude)
  IN after[Len(names)]

Listings(defs, include, exclude) ==
  {Listing(names, defs, include, exclude) : names \in SetToSeqs(DOMAIN defs)}

-----------------------------------------------------------------------------
(***************************************************************************)
(* Reference: the readme's rules.                                          *)
(***************************************************************************)
\* An excluded type is left out; of the others all are taken, unless there is
\* only a list of types to include.
Wanted(type, include, exclude) ==
  type \notin exclude /\ (include = {} \/ exclude # {} \/ type \in include)

\* The first rule that applies decides.
FirstOf(rules, default) ==
  LET n == SelectInSeq(rules, LAMBDA r : r[1]) IN IF n = 0 THEN default ELSE rules[n][2]

Metadata(def, x) ==
  <<x \in DOMAIN def.caps, IF x \in DOMAIN def.caps THEN def.caps[x] ELSE FALSE>>

NoParsing(def) ==
  <<Has(def, {"skip-chat-parsing", "no-jinja", "chat-template", "chat-template-file"}), FALSE>>

ReasoningByRule(def) ==
  FirstOf(<<Metadata(def, "reasoning"),
            <<"reasoning on" \in def.flags, TRUE>>,
            <<"reasoning off" \in def.flags, FALSE>>,
            <<"reasoning-format none" \in def.flags, FALSE>>,
            NoParsing(def)>>, def.gguf.thinks)

ToolCallByRule(def) ==
  FirstOf(<<Metadata(def, "tool_call"), NoParsing(def)>>, def.gguf.tools)

VisionByRule(def) == FirstOf(<<Metadata(def, "vision")>>, "mmproj" \in def.flags)

\* The metadata deny a vision that the command has.  By the readme they override
\* it, but opencodeHandler does not look at them.
VisionIgnored(def) ==
  "mmproj" \in def.flags /\ "vision" \in DOMAIN def.caps /\ ~def.caps["vision"]

\* Without a configured context, of which the readme does not speak, the limit
\* is that of the file.
LimitByRule(def) ==
  [context |-> FirstOf(<<<<def.context > 0, def.context>>>>, def.gguf.context),
   input   |-> def.gguf.context]

\* Entry e tells of def, under the name x, what the rules say, but for a vision
\* that is listed though the metadata deny it.
Tells(e, def, x) ==
  /\ e.name = x
  /\ e.limit = LimitByRule(def)
  /\ e.reasoning = ReasoningByRule(def)
  /\ e.tool_call = ToolCallByRule(def)
  /\ e.vision = (VisionByRule(def) \/ VisionIgnored(def))

\* No name is given to two models.
NamesDiffer(defs) ==
  \A m, n \in DOMAIN defs :
    m # n => ({m} \union defs[m].aliases) \intersect ({n} \union defs[n].aliases) = {}

\* L is the listing: every model that is wanted and can chat, once under each
\* of its names, with its limits and capabilities; an error if one that is
\* wanted cannot be expanded.
IsListing(L, defs, include, exclude) ==
  LET wanted == {n \in DOMAIN defs : Wanted(defs[n].type, include, exclude)}
      chat == {n \in wanted : "embedding" \notin defs[n].flags}
  IN IF \E n \in wanted : ~defs[n].expands THEN L = Error
     ELSE /\ ~L.failed
          /\ DOMAIN L.models = UNION {{n} \union defs[n].aliases : n \in chat}
          /\ \A n \in chat : \A x \in {n} \union defs[n].aliases :
               Tells(L.models[x], defs[n], x)
=============================================================================
