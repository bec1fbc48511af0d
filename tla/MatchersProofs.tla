--------------------------- MODULE MatchersProofs --------------------------
(***************************************************************************)
(* Matchers, for every set of rules, scripts and values: a silent deny or  *)
(* ask rule has nothing to hide, and a definite match decides.             *)
(***************************************************************************)
EXTENDS Matchers, TLAPS

States == {"match", "uncertain", "no-match"}

(* A filled sequence differs from the sequence in its dynamic words only.  *)
LEMMA FillSeqSound ==
    ASSUME NEW s \in Seq(Values \cup {DYNAMIC}), NEW t \in FillSeq(s)
    PROVE  /\ t \in Seq(Values) /\ Len(t) = Len(s) /\ DOMAIN t = DOMAIN s
           /\ \A i \in DOMAIN s : s[i] # DYNAMIC => t[i] = s[i]
  BY DEF FillSeq

LEMMA FillSame ==
    ASSUME NEW s \in Seq(Values \cup {DYNAMIC}), NEW t \in FillSeq(s), DYNAMIC \notin SetOf(s)
    PROVE  SetOf(t) = SetOf(s)
  <1>1. DOMAIN t = DOMAIN s /\ \A i \in DOMAIN s : t[i] = s[i]
    BY FillSeqSound DEF SetOf
  <1> QED BY <1>1 DEF SetOf

LEMMA FillValuesSound ==
    ASSUME NEW values, NEW v \in FillValues(values), NEW f \in DOMAIN values
    PROVE  /\ DYNAMIC \notin values[f] => v[f] = values[f]
           /\ v[f] = {} <=> values[f] = {}
  BY DEF FillValues

(* The three-state operators, as their answers are used below.             *)
LEMMA NoWordMatches ==
    ASSUME NEW words, NEW pattern
    PROVE  /\ WordsState(words, pattern) \in States
           /\ WordsState(words, pattern) = "no-match" <=>
                 DYNAMIC \notin words /\ words \cap pattern = {}
           /\ WordsState(words, pattern) = "match" =>
                 words \cap pattern # {}
  BY DEF WordsState, Three, States

LEMMA OneStateFails ==
    ASSUME NEW S \in SUBSET States
    PROVE  /\ CombineStates(S) \in States
           /\ CombineStates(S) = "no-match" <=> "no-match" \in S
           /\ CombineStates(S) = "match" <=> S \subseteq {"match"}
           /\ AnyState(S) = "no-match" <=> S \subseteq {"no-match"}
           /\ AnyState(S) = "match" <=> "match" \in S
  BY DEF CombineStates, AnyState, Three, States

----------------------------------------------------------------------------
(* One lemma per builder: no-match is no-match in every run. *)

LEMMA RunOfVisible ==
    ASSUME NEW call, call.args \in Seq(Values \cup {DYNAMIC}), ~Unknown(call),
           NEW run \in RunsOfCall(call)
    PROVE  /\ run.kind = call.kind /\ run.name = call.name /\ run.typed = call.typed
           /\ run.flags = call.flags /\ run.ddash = call.ddash
           /\ run.args \in FillSeq(call.args) /\ run.values \in FillValues(call.values)
           /\ run.operands \in FillOperands(call.operands)
  BY DEF RunsOfCall

(* Everything one needs to know of an item's run.                          *)
Certain(r, item) == \A run \in Runs(item) : State(r, run) # "match"

LEMMA FlagState ==
    ASSUME NEW p, NEW tokens
    PROVE  /\ FlagValueState(p, tokens) \in States
           /\ ~p.skip /\ FlagValueState(p, tokens) = "no-match" => DYNAMIC \notin tokens
  <1>1. CASE p.kind = "dynamic"
    BY <1>1 DEF FlagValueState, Three, States
  <1>2. CASE p.kind # "dynamic"
    BY <1>2, NoWordMatches DEF FlagValueState
  <1> QED BY <1>1, <1>2

LEMMA ArgsState ==
    ASSUME NEW args, NEW patterns
    PROVE  /\ ArgMatchesState(args, patterns) \in States
           /\ ArgMatchesState(args, patterns) = "no-match" =>
                 \E p \in patterns : WordsState(SetOf(args), p) = "no-match"
  <1>1. {WordsState(SetOf(args), p) : p \in patterns} \in SUBSET States
    BY NoWordMatches
  <1> QED BY <1>1, OneStateFails DEF ArgMatchesState

LEMMA FlagsState ==
    ASSUME NEW predicates, NEW call
    PROVE  /\ FlagValuesState(predicates, call) \in States
           /\ FlagValuesState(predicates, call) = "no-match" <=>
                 \E p \in predicates : FlagValueState(p, call.values[p.flag]) = "no-match"
  <1>1. {FlagValueState(p, call.values[p.flag]) : p \in predicates} \in SUBSET States
    BY FlagState
  <1> QED BY <1>1, OneStateFails DEF FlagValuesState

LEMMA CmdNoMatch ==
    ASSUME NEW r, NEW call
    PROVE  CmdState(r, call) = "no-match" <=>
             /\ call.kind # "dynamic"
             /\ ~(IsCalled(r, call) /\ ExpandThrows(call))
             /\ \/ ~PassesGates(r, call)
                \/ ArgMatchesState(call.args, r.patterns) = "no-match"
                \/ FlagValuesState(r.predicates, call) = "no-match"
  <1> DEFINE S == {ArgMatchesState(call.args, r.patterns), FlagValuesState(r.predicates, call)}
  <1>1. S \in SUBSET States
    BY ArgsState, FlagsState
  <1>2. CombineStates(S) = "no-match" <=> "no-match" \in S
    BY <1>1, OneStateFails
  <1> QED BY <1>2 DEF CmdState

LEMMA CmdNoMatchIsNoMatch ==
    ASSUME NEW r, NEW call,
           \/ ~PassesGates(r, call)
           \/ ArgMatchesState(call.args, r.patterns) = "no-match"
           \/ FlagValuesState(r.predicates, call) = "no-match"
    PROVE  CmdState(r, call) # "match"
  <1> DEFINE S == {ArgMatchesState(call.args, r.patterns), FlagValuesState(r.predicates, call)}
  <1>1. S \in SUBSET States
    BY ArgsState, FlagsState
  <1>2. CombineStates(S) = "no-match" <=> "no-match" \in S
    BY <1>1, OneStateFails
  <1> QED BY <1>2 DEF CmdState

LEMMA CmdCertain ==
    ASSUME NEW r, NEW item, r.builder = "cmd", WellFormed(r, item), Visible(r, item),
           State(r, item) = "no-match"
    PROVE  Certain(r, item)
  <1> SUFFICES ASSUME NEW run \in Runs(item) PROVE CmdState(r, run) # "match"
    BY DEF Certain, State
  <1>1. item.is = "call" /\ item.args \in Seq(Values \cup {DYNAMIC})
    BY DEF WellFormed
  <1>a. \A p \in r.predicates : p.flag \in DOMAIN item.values
    BY DEF WellFormed
  <1>2. CmdState(r, item) = "no-match"
    BY DEF State
  <1>3. ~Unknown(item)
    BY <1>2, CmdNoMatch DEF Visible, Unknown
  <1>4. run \in RunsOfCall(item)
    BY <1>1 DEF Runs
  <1>5. /\ run.kind = item.kind /\ run.name = item.name /\ run.typed = item.typed
        /\ run.flags = item.flags /\ run.ddash = item.ddash
        /\ run.args \in FillSeq(item.args) /\ run.values \in FillValues(item.values)
    BY <1>1, <1>3, <1>4, RunOfVisible
  <1>6. DYNAMIC \notin SetOf(item.args) => SetOf(run.args) = SetOf(item.args)
    BY <1>1, <1>5, FillSame
  <1>7. CASE ~PassesGates(r, item)
    <2>1. /\ DOMAIN run.args = DOMAIN item.args
          /\ \A i \in DOMAIN item.args : item.args[i] # DYNAMIC => run.args[i] = item.args[i]
      BY <1>1, <1>5, FillSeqSound
    <2>2. (\A i \in DOMAIN r.sub : i \in DOMAIN run.args /\ run.args[i] = r.sub[i])
            => (\A i \in DOMAIN r.sub : i \in DOMAIN item.args /\ item.args[i] = r.sub[i])
      BY <2>1 DEF Visible
    <2>3. r.includes \subseteq SetOf(run.args) => r.includes \subseteq SetOf(item.args)
      BY <1>6 DEF Visible
    <2>4. ~PassesGates(r, run)
      BY <1>5, <1>7, <2>2, <2>3 DEF PassesGates, IsCalled, UnwrappedName
    <2> QED BY <2>4, CmdNoMatchIsNoMatch
  <1>8. CASE ArgMatchesState(item.args, r.patterns) = "no-match"
    <2>1. PICK p \in r.patterns : WordsState(SetOf(item.args), p) = "no-match"
      BY <1>8, ArgsState
    <2>2. SetOf(run.args) = SetOf(item.args)
      BY <2>1, NoWordMatches, <1>6
    <2>3. ArgMatchesState(run.args, r.patterns) = "no-match"
      BY <2>2, <1>8 DEF ArgMatchesState
    <2> QED BY <2>3, CmdNoMatchIsNoMatch
  <1>9. CASE FlagValuesState(r.predicates, item) = "no-match"
    <2>1. PICK p \in r.predicates : FlagValueState(p, item.values[p.flag]) = "no-match"
      BY <1>9, FlagsState
    <2>2. run.values[p.flag] = item.values[p.flag]
      BY <2>1, <1>a, FlagState, <1>5, FillValuesSound DEF Visible
    <2>3. FlagValuesState(r.predicates, run) = "no-match"
      BY <2>1, <2>2, FlagsState
    <2> QED BY <2>3, CmdNoMatchIsNoMatch
  <1> QED BY <1>2, <1>7, <1>8, <1>9, CmdNoMatch

LEMMA AllowCertain ==
    ASSUME NEW r, NEW item, r.builder = "allowOnly", WellFormed(r, item),
           State(r, item) = "no-match"
    PROVE  Certain(r, item)
  <1>1. item.is = "call" /\ item.args \in Seq(Values \cup {DYNAMIC})
    BY DEF WellFormed
  <1>2. ~Unknown(item) /\ item.name \in r.allowed
    BY DEF State, AllowState, Three, Unknown
  <1> SUFFICES ASSUME NEW run \in Runs(item) PROVE AllowState(r, run) # "match"
    BY DEF Certain, State
  <1>3. run.kind = item.kind /\ run.name = item.name
    BY <1>1, <1>2, RunOfVisible DEF Runs
  <1> QED BY <1>2, <1>3 DEF AllowState, Three

LEMMA StageCertain ==
    ASSUME NEW stage, stage.kind # "opaque", StageName(stage) # DYNAMIC,
           NEW run \in RunsOfStage(stage)
    PROVE  StageName(run) = StageName(stage)
  <1>1. CASE stage.kind = "none"
    BY <1>1 DEF RunsOfStage
  <1>2. CASE stage.kind # "none"
    <2>1. ~Unknown(stage)
      BY <1>2 DEF StageName, Unknown
    <2>2. run.kind = stage.kind /\ run.name = stage.name
      BY <1>2, <2>1 DEF RunsOfStage, RunsOfCall
    <2> QED BY <2>2, <1>2, <2>1 DEF StageName, UnwrappedName, Unknown
  <1> QED BY <1>1, <1>2

LEMMA PipeCertain ==
    ASSUME NEW r, NEW item, r.builder = "pipe", WellFormed(r, item), Visible(r, item),
           State(r, item) = "no-match"
    PROVE  Certain(r, item)
  <1> DEFINE X(pipe) == WordsState({StageName(pipe.x)}, r.sources)
             Y(pipe) == WordsState({StageName(pipe.y)}, r.sinks)
  <1>1. \A pipe : /\ {X(pipe), Y(pipe)} \in SUBSET States
                  /\ PipeState(r, pipe) = CombineStates({X(pipe), Y(pipe)})
    BY NoWordMatches DEF PipeState
  <1>2. \A pipe : PipeState(r, pipe) = "no-match" <=> X(pipe) = "no-match" \/ Y(pipe) = "no-match"
    <2> TAKE pipe
    <2> DEFINE S == {X(pipe), Y(pipe)}
    <2>1. S \in SUBSET States /\ PipeState(r, pipe) = CombineStates(S)
      BY <1>1
    <2>2. CombineStates(S) = "no-match" <=> "no-match" \in S
      BY <2>1, OneStateFails
    <2> QED BY <2>1, <2>2
  <1>3. PipeState(r, item) = "no-match"
    BY DEF State
  <1> SUFFICES ASSUME NEW run \in Runs(item) PROVE PipeState(r, run) = "no-match"
    BY DEF Certain, State
  <1>4. run.x \in RunsOfStage(item.x) /\ run.y \in RunsOfStage(item.y)
    BY DEF Runs, WellFormed
  <1>5. item.x.kind # "opaque" /\ item.y.kind # "opaque"
    BY DEF Visible
  <1>6. CASE X(item) = "no-match"
    <2>1. StageName(run.x) = StageName(item.x)
      BY <1>4, <1>5, <1>6, NoWordMatches, StageCertain
    <2> QED BY <2>1, <1>2, <1>6
  <1>7. CASE Y(item) = "no-match"
    <2>1. StageName(run.y) = StageName(item.y)
      BY <1>4, <1>5, <1>7, NoWordMatches, StageCertain
    <2> QED BY <2>1, <1>2, <1>7
  <1> QED BY <1>2, <1>3, <1>6, <1>7

LEMMA RedirectCertain ==
    ASSUME NEW r, NEW item, r.builder = "redirect", WellFormed(r, item),
           State(r, item) = "no-match"
    PROVE  Certain(r, item)
  <1>1. ~r.any /\ WordsState({item.target}, r.pattern) = "no-match"
    BY DEF State, RedirectState
  <1> SUFFICES ASSUME NEW run \in Runs(item) PROVE RedirectState(r, run) # "match"
    BY DEF Certain, State
  <1>2. run.target = item.target
    BY <1>1, NoWordMatches DEF Runs, WellFormed
  <1> QED BY <1>1, <1>2 DEF RedirectState

LEMMA PathCertain ==
    ASSUME NEW r, NEW item, r.builder = "path", WellFormed(r, item),
           State(r, item) = "no-match"
    PROVE  Certain(r, item)
  BY DEF Certain, Runs, WellFormed

(* The protected slots of a call hold the same words in every run.         *)
LEMMA OperandsSame ==
    ASSUME NEW call, NEW run, run.kind = call.kind, run.operands \in FillOperands(call.operands),
           \A o \in call.operands : o.value # PARTIAL, NEW prefix
    PROVE  /\ PrefixCandidates(run, prefix) = {} <=> PrefixCandidates(call, prefix) = {}
           /\ DYNAMIC \notin PrefixCandidates(call, prefix) =>
                 PrefixCandidates(run, prefix) = PrefixCandidates(call, prefix)
  <1> DEFINE filled(o, v) == IF o.value \in {DYNAMIC, PARTIAL} THEN v ELSE o.value
  <1>1. PICK v \in Values :
          run.operands = {[prefix |-> o.prefix, value |-> filled(o, v)] : o \in call.operands}
    BY DEF FillOperands
  <1>2. v # PARTIAL /\ v # DYNAMIC
    BY MatchersConstants
  <1>3. \A w : w \in PrefixCandidates(run, prefix) <=>
                 /\ call.kind \in {"plain", "wrapped"}
                 /\ \E o \in call.operands : o.prefix = prefix /\ w = IF o.value = DYNAMIC THEN v ELSE o.value
    <2>1. \A w : w \in PrefixCandidates(run, prefix) <=>
                   /\ call.kind \in {"plain", "wrapped"}
                   /\ \E q \in run.operands : q.prefix = prefix /\ q.value # PARTIAL /\ w = q.value
      BY DEF PrefixCandidates
    <2>2. \A o \in call.operands :
             filled(o, v) # PARTIAL /\ filled(o, v) = IF o.value = DYNAMIC THEN v ELSE o.value
      BY <1>2
    <2> HIDE DEF filled
    <2>3. \A w : (\E q \in run.operands : q.prefix = prefix /\ q.value # PARTIAL /\ w = q.value)
                   <=> (\E o \in call.operands : o.prefix = prefix /\ filled(o, v) # PARTIAL /\ w = filled(o, v))
      <3> DEFINE image(o) == [prefix |-> o.prefix, value |-> filled(o, v)]
      <3>1. \A o : image(o).prefix = o.prefix /\ image(o).value = filled(o, v)
        OBVIOUS
      <3>2. run.operands = {image(o) : o \in call.operands}
        BY <1>1
      <3> HIDE DEF image
      <3> QED BY <3>1, <3>2
    <2> QED BY <2>1, <2>2, <2>3
  <1>4. \A w : w \in PrefixCandidates(call, prefix) <=>
                 /\ call.kind \in {"plain", "wrapped"}
                 /\ \E o \in call.operands : o.prefix = prefix /\ w = o.value
    BY DEF PrefixCandidates
  <1>5. PrefixCandidates(run, prefix) = {} <=> PrefixCandidates(call, prefix) = {}
    BY <1>3, <1>4
  <1>6. ASSUME DYNAMIC \notin PrefixCandidates(call, prefix)
        PROVE  PrefixCandidates(run, prefix) = PrefixCandidates(call, prefix)
    BY <1>3, <1>4, <1>6
  <1> QED BY <1>5, <1>6

LEMMA SlotsSame ==
    ASSUME NEW call, call.args \in Seq(Values \cup {DYNAMIC}), "-t" \in DOMAIN call.values,
           ~Unknown(call), \A o \in call.operands : o.value # PARTIAL,
           NEW run \in RunsOfCall(call)
    PROVE  /\ SelectorsFor(run) = SelectorsFor(call)
           /\ \A slot : DYNAMIC \notin SelectorCandidates(call, slot) =>
                          SelectorCandidates(run, slot) = SelectorCandidates(call, slot)
  <1>1. /\ run.kind = call.kind /\ run.name = call.name
        /\ run.args \in FillSeq(call.args) /\ run.values \in FillValues(call.values)
        /\ run.operands \in FillOperands(call.operands)
    BY RunOfVisible
  <1>2. \A prefix : /\ PrefixCandidates(run, prefix) = {} <=> PrefixCandidates(call, prefix) = {}
                    /\ DYNAMIC \notin PrefixCandidates(call, prefix) =>
                          PrefixCandidates(run, prefix) = PrefixCandidates(call, prefix)
    BY <1>1, OperandsSame
  <1>3. /\ run.values["-t"] = {} <=> call.values["-t"] = {}
        /\ DYNAMIC \notin call.values["-t"] => run.values["-t"] = call.values["-t"]
    BY <1>1, FillValuesSound
  <1>4. /\ TargetDirValues(run) = {} <=> TargetDirValues(call) = {}
        /\ DYNAMIC \notin TargetDirValues(call) => TargetDirValues(run) = TargetDirValues(call)
    BY <1>2, <1>3 DEF TargetDirValues
  <1>5. /\ Len(run.args) = Len(call.args) /\ DOMAIN run.args = DOMAIN call.args
        /\ \A i \in DOMAIN call.args : call.args[i] # DYNAMIC => run.args[i] = call.args[i]
    BY <1>1, FillSeqSound
  <1>6. SelectorsFor(run) = SelectorsFor(call)
    BY <1>1, <1>4 DEF SelectorsFor
  <1>7. ASSUME NEW slot, DYNAMIC \notin SelectorCandidates(call, slot)
        PROVE  SelectorCandidates(run, slot) = SelectorCandidates(call, slot)
    <2>1. CASE slot = "all"
      BY <2>1, <1>7, <1>5 DEF SelectorCandidates, SetOf
    <2>2. CASE slot = "last"
      BY <2>2, <1>7, <1>5 DEF SelectorCandidates
    <2>3. CASE slot = "allButLast"
      BY <2>3, <1>7, <1>5 DEF SelectorCandidates
    <2>4. CASE slot = "targetDir"
      BY <2>4, <1>7, <1>4 DEF SelectorCandidates
    <2>5. CASE slot \notin {"all", "last", "allButLast", "targetDir"}
      BY <2>5, <1>7, <1>2 DEF SelectorCandidates
    <2> QED BY <2>1, <2>2, <2>3, <2>4, <2>5
  <1> QED BY <1>6, <1>7

LEMMA ProtectCertain ==
    ASSUME NEW r, NEW item, r.builder = "protectPath", WellFormed(r, item), Visible(r, item),
           State(r, item) = "no-match"
    PROVE  Certain(r, item)
  <1> SUFFICES ASSUME NEW run \in Runs(item) PROVE ProtectState(r, run) # "match"
    BY DEF Certain, State
  <1>1. ProtectState(r, item) = "no-match"
    BY DEF State
  <1>2. CASE item.is = "redirect"
    <2>1. WordsState({item.target}, r.pattern) = "no-match"
      BY <1>1, <1>2 DEF ProtectState
    <2>2. run.is = "redirect" /\ run.target = item.target
      BY <1>2, <2>1, NoWordMatches DEF Runs
    <2> QED BY <2>1, <2>2 DEF ProtectState
  <1>3. CASE item.is = "call"
    <2> DEFINE Slots(call) == {t \in SelectorsFor(call) : ModeIncludes(r.mode, t.role)}
               S(call) == {WordsState(SelectorCandidates(call, s.slot), r.pattern) : s \in Slots(call)}
    <2>1. /\ ~Unknown(item) /\ run \in RunsOfCall(item) /\ run.is = "call" /\ run.kind = item.kind
          /\ \A o \in item.operands : o.value # PARTIAL
          /\ item.args \in Seq(Values \cup {DYNAMIC}) /\ "-t" \in DOMAIN item.values
      BY <1>3 DEF Visible, Unknown, WellFormed, Runs, RunsOfCall
    <2>a. item.name \notin ObjectMembers /\ run.name = item.name
      BY <1>1, <1>3, <2>1, RunOfVisible DEF ProtectState, Unknown
    <2>2. AnyState(S(item)) = "no-match"
      BY <2>a, <1>1, <1>3, <2>1 DEF ProtectState, CallPathState, Unknown
    <2>3. S(item) \in SUBSET States
      BY NoWordMatches
    <2>4. \A s \in Slots(item) : WordsState(SelectorCandidates(item, s.slot), r.pattern) = "no-match"
      BY <2>2, <2>3, OneStateFails
    <2>5. \A s \in Slots(item) : SelectorCandidates(run, s.slot) = SelectorCandidates(item, s.slot)
      BY <2>1, <2>4, NoWordMatches, SlotsSame
    <2>6. S(run) = S(item)
      BY <2>1, <2>5, SlotsSame
    <2> QED BY <2>1, <2>a, <2>2, <2>6 DEF ProtectState, CallPathState, Unknown
  <1> QED BY <1>2, <1>3 DEF WellFormed

(* The lemmas of this section together: what a matcher that sees a whole   *)
(* item calls a no-match is none, whatever the shell fills in.             *)
THEOREM NoMatchIsCertain ==
    ASSUME NEW r, NEW item, r.builder \in Builders, WellFormed(r, item), Visible(r, item),
           State(r, item) = "no-match"
    PROVE  Certain(r, item)
  BY CmdCertain, AllowCertain, PipeCertain, RedirectCertain, PathCertain, ProtectCertain DEF Builders

----------------------------------------------------------------------------
(* One lemma per builder: a match is a match in every run. *)

LEMMA WordMatches ==
    ASSUME NEW words, NEW pattern
    PROVE  WordsState(words, pattern) = "match" <=> \E w \in words : w # DYNAMIC /\ w \in pattern
  BY DEF WordsState, Three

LEMMA WordKept ==
    ASSUME NEW words, NEW filled, words \ {DYNAMIC} \subseteq filled, NEW pattern,
           WordsState(words, pattern) = "match"
    PROVE  WordsState(filled, pattern) = "match"
  BY WordMatches

LEMMA FillKeeps ==
    ASSUME NEW s \in Seq(Values \cup {DYNAMIC}), NEW t \in FillSeq(s)
    PROVE  SetOf(s) \ {DYNAMIC} \subseteq SetOf(t)
  BY FillSeqSound DEF SetOf

LEMMA FillValuesKeep ==
    ASSUME NEW values, NEW v \in FillValues(values), NEW f \in DOMAIN values
    PROVE  values[f] \ {DYNAMIC} \subseteq v[f]
  BY DEF FillValues

(* The rules of flagValueDynamic match the dynamic value itself.           *)
Plain(r) == r.builder = "cmd" => \A p \in r.predicates : p.kind # "dynamic"

Sure(r, item) == \A run \in Runs(item) : State(r, run) = "match"

LEMMA CmdMatch ==
    ASSUME NEW r, NEW call
    PROVE  CmdState(r, call) = "match" <=>
             /\ call.kind # "dynamic" /\ PassesGates(r, call) /\ ~ExpandThrows(call)
             /\ \A p \in r.patterns : WordsState(SetOf(call.args), p) = "match"
             /\ \A p \in r.predicates : FlagValueState(p, call.values[p.flag]) = "match"
  <1> DEFINE A == {WordsState(SetOf(call.args), p) : p \in r.patterns}
             F == {FlagValueState(p, call.values[p.flag]) : p \in r.predicates}
             S == {ArgMatchesState(call.args, r.patterns), FlagValuesState(r.predicates, call)}
  <1>1. A \in SUBSET States /\ F \in SUBSET States /\ S \in SUBSET States
    BY NoWordMatches, FlagState, ArgsState, FlagsState
  <1>2. ArgMatchesState(call.args, r.patterns) = "match" <=> A \subseteq {"match"}
    BY <1>1, OneStateFails DEF ArgMatchesState
  <1>3. FlagValuesState(r.predicates, call) = "match" <=> F \subseteq {"match"}
    BY <1>1, OneStateFails DEF FlagValuesState
  <1>4. CombineStates(S) = "match" <=> S \subseteq {"match"}
    BY <1>1, OneStateFails
  <1>5. CombineStates(S) = "match" <=>
          /\ \A p \in r.patterns : WordsState(SetOf(call.args), p) = "match"
          /\ \A p \in r.predicates : FlagValueState(p, call.values[p.flag]) = "match"
    BY <1>2, <1>3, <1>4
  <1>6. PassesGates(r, call) => IsCalled(r, call)
    BY Zenon DEF PassesGates
  <1> QED BY <1>5, <1>6 DEF CmdState

LEMMA CmdSure ==
    ASSUME NEW r, NEW item, r.builder = "cmd", WellFormed(r, item), Visible(r, item), Plain(r),
           State(r, item) = "match"
    PROVE  Sure(r, item)
  <1> SUFFICES ASSUME NEW run \in Runs(item) PROVE CmdState(r, run) = "match"
    BY DEF Sure, State
  <1>1. item.is = "call" /\ item.args \in Seq(Values \cup {DYNAMIC})
    BY DEF WellFormed
  <1>2. CmdState(r, item) = "match"
    BY DEF State
  <1>3. ~Unknown(item)
    BY <1>2, CmdMatch DEF Visible, Unknown
  <1>4. /\ run.kind = item.kind /\ run.name = item.name /\ run.typed = item.typed
        /\ run.flags = item.flags /\ run.ddash = item.ddash
        /\ run.args \in FillSeq(item.args) /\ run.values \in FillValues(item.values)
    BY <1>1, <1>3, RunOfVisible DEF Runs
  <1>5. PassesGates(r, run)
    <2>1. PassesGates(r, item)
      BY <1>2, CmdMatch
    <2>2. /\ DOMAIN run.args = DOMAIN item.args
          /\ \A i \in DOMAIN item.args : item.args[i] # DYNAMIC => run.args[i] = item.args[i]
      BY <1>1, <1>4, FillSeqSound
    <2>3. \A i \in DOMAIN r.sub : i \in DOMAIN run.args /\ run.args[i] = r.sub[i]
      BY <2>1, <2>2 DEF PassesGates, IsCalled, Visible
    <2>4. r.includes \subseteq SetOf(run.args)
      BY <1>1, <1>4, <2>1, FillSame DEF PassesGates, Visible
    <2> QED BY <1>4, <2>1, <2>3, <2>4 DEF PassesGates, IsCalled, UnwrappedName
  <1>6. ASSUME NEW p \in r.patterns
        PROVE  WordsState(SetOf(run.args), p) = "match"
    <2>1. WordsState(SetOf(item.args), p) = "match"
      BY <1>2, CmdMatch
    <2>2. SetOf(item.args) \ {DYNAMIC} \subseteq SetOf(run.args)
      BY <1>1, <1>4, FillKeeps
    <2> QED BY <2>1, <2>2, WordKept
  <1>7. ASSUME NEW p \in r.predicates
        PROVE  FlagValueState(p, run.values[p.flag]) = "match"
    <2>1. FlagValueState(p, item.values[p.flag]) = "match"
      BY <1>2, CmdMatch
    <2>2. p.kind # "dynamic" /\ ~p.skip /\ p.flag \in DOMAIN item.values
      BY <1>1 DEF Plain, Visible, WellFormed
    <2>3. item.values[p.flag] \ {DYNAMIC} \subseteq run.values[p.flag]
      BY <1>4, <2>2, FillValuesKeep
    <2>4. WordsState(item.values[p.flag], p.test) = "match"
      BY <2>1, <2>2 DEF FlagValueState
    <2>5. WordsState(run.values[p.flag], p.test) = "match"
      BY <2>3, <2>4, WordKept
    <2> QED BY <2>2, <2>5 DEF FlagValueState
  <1>8. ~ExpandThrows(run)
    BY <1>2, <1>4, CmdMatch DEF ExpandThrows
  <1> QED BY <1>3, <1>4, <1>5, <1>6, <1>7, <1>8, CmdMatch DEF Unknown

LEMMA AllowSure ==
    ASSUME NEW r, NEW item, r.builder = "allowOnly", WellFormed(r, item),
           State(r, item) = "match"
    PROVE  Sure(r, item)
  <1>1. item.is = "call" /\ item.args \in Seq(Values \cup {DYNAMIC})
    BY DEF WellFormed
  <1>2. ~Unknown(item) /\ item.name \notin r.allowed
    BY DEF State, AllowState, Three, Unknown
  <1> SUFFICES ASSUME NEW run \in Runs(item) PROVE AllowState(r, run) = "match"
    BY DEF Sure, State
  <1>3. run.kind = item.kind /\ run.name = item.name
    BY <1>1, <1>2, RunOfVisible DEF Runs
  <1> QED BY <1>2, <1>3 DEF AllowState, Three, Unknown

LEMMA PipeSure ==
    ASSUME NEW r, NEW item, r.builder = "pipe", WellFormed(r, item), Visible(r, item),
           State(r, item) = "match"
    PROVE  Sure(r, item)
  <1> SUFFICES ASSUME NEW run \in Runs(item) PROVE PipeState(r, run) = "match"
    BY DEF Sure, State
  <1> DEFINE S == {WordsState({StageName(item.x)}, r.sources), WordsState({StageName(item.y)}, r.sinks)}
  <1>1. CombineStates(S) = "match" /\ S \in SUBSET States
    BY NoWordMatches DEF State, PipeState
  <1>2. S \subseteq {"match"}
    BY <1>1, OneStateFails
  <1>3. StageName(item.x) # DYNAMIC /\ StageName(item.y) # DYNAMIC
    BY <1>2, WordMatches
  <1>4. run.x \in RunsOfStage(item.x) /\ run.y \in RunsOfStage(item.y)
    BY DEF Runs, WellFormed
  <1>5. StageName(run.x) = StageName(item.x) /\ StageName(run.y) = StageName(item.y)
    BY <1>3, <1>4, StageCertain DEF Visible
  <1> QED BY <1>1, <1>5 DEF PipeState

LEMMA RedirectSure ==
    ASSUME NEW r, NEW item, r.builder = "redirect", WellFormed(r, item),
           State(r, item) = "match"
    PROVE  Sure(r, item)
  <1> SUFFICES ASSUME NEW run \in Runs(item) PROVE RedirectState(r, run) = "match"
    BY DEF Sure, State
  <1>1. r.any \/ WordsState({item.target}, r.pattern) = "match"
    BY DEF State, RedirectState
  <1>2. r.any \/ (item.target # DYNAMIC /\ run.target = item.target)
    BY <1>1, WordMatches DEF Runs, WellFormed
  <1> QED BY <1>1, <1>2 DEF RedirectState

LEMMA PathSure ==
    ASSUME NEW r, NEW item, r.builder = "path", WellFormed(r, item), State(r, item) = "match"
    PROVE  Sure(r, item)
  BY DEF Sure, Runs, WellFormed

LEMMA OperandsKept ==
    ASSUME NEW call, NEW run, run.kind = call.kind, run.operands \in FillOperands(call.operands),
           NEW prefix
    PROVE  PrefixCandidates(call, prefix) \ {DYNAMIC} \subseteq PrefixCandidates(run, prefix)
  <1> SUFFICES ASSUME NEW w, w \in PrefixCandidates(call, prefix), w # DYNAMIC
               PROVE  w \in PrefixCandidates(run, prefix)
    OBVIOUS
  <1>1. PICK v \in Values :
          run.operands = {[prefix |-> o.prefix, value |-> IF o.value \in {DYNAMIC, PARTIAL} THEN v ELSE o.value] :
                            o \in call.operands}
    BY DEF FillOperands
  <1>2. PICK o \in call.operands : /\ call.kind \in {"plain", "wrapped"}
                                   /\ o.prefix = prefix /\ o.value # PARTIAL /\ w = o.value
    BY DEF PrefixCandidates
  <1>3. [prefix |-> prefix, value |-> w] \in run.operands
    BY <1>1, <1>2
  <1>4. \E q \in run.operands : q.prefix = prefix /\ q.value # PARTIAL /\ w = q.value
    BY <1>2, <1>3
  <1> QED BY <1>2, <1>4 DEF PrefixCandidates

LEMMA SlotsKept ==
    ASSUME NEW call, call.args \in Seq(Values \cup {DYNAMIC}), "-t" \in DOMAIN call.values,
           ~Unknown(call), NEW run \in RunsOfCall(call), NEW slot
    PROVE  SelectorCandidates(call, slot) \ {DYNAMIC} \subseteq SelectorCandidates(run, slot)
  <1>1. /\ run.kind = call.kind
        /\ run.args \in FillSeq(call.args) /\ run.values \in FillValues(call.values)
        /\ run.operands \in FillOperands(call.operands)
    BY RunOfVisible
  <1>2. \A prefix : PrefixCandidates(call, prefix) \ {DYNAMIC} \subseteq PrefixCandidates(run, prefix)
    BY <1>1, OperandsKept
  <1>3. call.values["-t"] \ {DYNAMIC} \subseteq run.values["-t"]
    BY <1>1, FillValuesKeep
  <1>4. /\ Len(run.args) = Len(call.args) /\ DOMAIN run.args = DOMAIN call.args
        /\ \A i \in DOMAIN call.args : call.args[i] # DYNAMIC => run.args[i] = call.args[i]
    BY <1>1, FillSeqSound
  <1>5. CASE slot = "all"
    BY <1>5, <1>1, FillKeeps DEF SelectorCandidates
  <1>6. CASE slot = "last"
    BY <1>6, <1>4 DEF SelectorCandidates
  <1>7. CASE slot = "allButLast"
    BY <1>7, <1>4 DEF SelectorCandidates
  <1>8. CASE slot = "targetDir"
    BY <1>8, <1>2, <1>3 DEF SelectorCandidates, TargetDirValues
  <1>9. CASE slot \notin {"all", "last", "allButLast", "targetDir"}
    BY <1>9, <1>2 DEF SelectorCandidates
  <1> QED BY <1>5, <1>6, <1>7, <1>8, <1>9

LEMMA ProtectSure ==
    ASSUME NEW r, NEW item, r.builder = "protectPath", WellFormed(r, item), Visible(r, item),
           State(r, item) = "match"
    PROVE  Sure(r, item)
  <1> SUFFICES ASSUME NEW run \in Runs(item) PROVE ProtectState(r, run) = "match"
    BY DEF Sure, State
  <1>1. ProtectState(r, item) = "match"
    BY DEF State
  <1>2. CASE item.is = "redirect"
    <2>1. item.target # DYNAMIC
      BY <1>1, <1>2, WordMatches DEF ProtectState
    <2>2. run.is = "redirect" /\ run.target = item.target
      BY <1>2, <2>1 DEF Runs
    <2> QED BY <1>1, <1>2, <2>2 DEF ProtectState
  <1>3. CASE item.is = "call"
    <2> DEFINE Slots(call) == {t \in SelectorsFor(call) : ModeIncludes(r.mode, t.role)}
               S(call) == {WordsState(SelectorCandidates(call, s.slot), r.pattern) : s \in Slots(call)}
    <2>1. /\ ~Unknown(item) /\ run \in RunsOfCall(item) /\ run.is = "call" /\ run.kind = item.kind
          /\ \A o \in item.operands : o.value # PARTIAL
          /\ item.args \in Seq(Values \cup {DYNAMIC}) /\ "-t" \in DOMAIN item.values
      BY <1>3 DEF Visible, Unknown, WellFormed, Runs, RunsOfCall
    <2>a. item.name \notin ObjectMembers /\ run.name = item.name
      BY <1>1, <1>3, <2>1, RunOfVisible DEF ProtectState, Unknown
    <2>2. AnyState(S(item)) = "match" /\ S(item) \in SUBSET States /\ S(run) \in SUBSET States
      BY <2>a, <1>1, <1>3, <2>1, NoWordMatches DEF ProtectState, CallPathState, Unknown
    <2>3. PICK s \in Slots(item) : WordsState(SelectorCandidates(item, s.slot), r.pattern) = "match"
      BY <2>2, OneStateFails
    <2>4. SelectorCandidates(item, s.slot) \ {DYNAMIC} \subseteq SelectorCandidates(run, s.slot)
      BY <2>1, SlotsKept
    <2>5. WordsState(SelectorCandidates(run, s.slot), r.pattern) = "match"
      BY <2>3, <2>4, WordKept
    <2>6. s \in Slots(run)
      BY <2>1, SlotsSame
    <2>7. AnyState(S(run)) = "match"
      BY <2>2, <2>5, <2>6, OneStateFails
    <2> QED BY <2>1, <2>a, <2>7 DEF ProtectState, CallPathState, Unknown
  <1> QED BY <1>2, <1>3 DEF WellFormed

(* The lemmas of this section together.                                    *)
LEMMA MatchIsSure ==
    ASSUME NEW r, NEW item, r.builder \in Builders, WellFormed(r, item), Visible(r, item), Plain(r),
           State(r, item) = "match"
    PROVE  Sure(r, item)
  BY CmdSure, AllowSure, PipeSure, RedirectSure, PathSure, ProtectSure DEF Builders

----------------------------------------------------------------------------
(* One lemma per builder: what it is uncertain of matches in some run. *)

(* The run that puts v in the place of every dynamic word and n in that of *)
(* an unknown command's name.                                              *)
Filled(call, v, n) ==
    [is |-> "call", kind |-> IF Unknown(call) THEN "plain" ELSE call.kind, name |-> n,
     typed |-> IF Unknown(call) THEN n ELSE call.typed, flags |-> call.flags, ddash |-> call.ddash,
     args |-> [i \in DOMAIN call.args |-> IF call.args[i] = DYNAMIC THEN v ELSE call.args[i]],
     values |-> [f \in DOMAIN call.values |->
                   IF DYNAMIC \in call.values[f] THEN (call.values[f] \ {DYNAMIC}) \cup {v}
                   ELSE call.values[f]],
     operands |-> {[prefix |-> o.prefix, value |-> IF o.value \in {DYNAMIC, PARTIAL} THEN v ELSE o.value] :
                     o \in call.operands}]

LEMMA FilledIsRun ==
    ASSUME NEW call, call.args \in Seq(Values \cup {DYNAMIC}), NEW v \in Values,
           NEW n \in IF Unknown(call) THEN Names ELSE {call.name}
    PROVE  Filled(call, v, n) \in RunsOfCall(call)
  <1> DEFINE run == Filled(call, v, n)
  <1>1. run.args \in FillSeq(call.args)
    <2>1. \A i \in DOMAIN call.args : call.args[i] \in Values \cup {DYNAMIC}
      OBVIOUS
    <2>2. run.args = [i \in DOMAIN call.args |-> IF call.args[i] = DYNAMIC THEN v ELSE call.args[i]]
      BY DEF Filled
    <2> HIDE DEF run
    <2> QED BY <2>1, <2>2 DEF FillSeq
  <1>2. run.values \in FillValues(call.values)
    <2> DEFINE choice == [f \in DOMAIN call.values |-> v]
    <2>1. choice \in [DOMAIN call.values -> Values]
      OBVIOUS
    <2>2. run.values = [f \in DOMAIN call.values |->
                          IF DYNAMIC \in call.values[f] THEN (call.values[f] \ {DYNAMIC}) \cup {choice[f]}
                          ELSE call.values[f]]
      BY DEF Filled
    <2> QED BY <2>1, <2>2 DEF FillValues
  <1>3. run.operands \in FillOperands(call.operands)
    BY DEF Filled, FillOperands
  <1>4. run = [is |-> "call", kind |-> IF Unknown(call) THEN "plain" ELSE call.kind, name |-> n,
               typed |-> IF Unknown(call) THEN n ELSE call.typed, flags |-> call.flags, ddash |-> call.ddash,
               args |-> run.args, values |-> run.values, operands |-> run.operands]
    BY DEF Filled
  <1> HIDE DEF run
  <1>5. \E a \in FillSeq(call.args), w \in FillValues(call.values), o \in FillOperands(call.operands) :
           run = [is |-> "call", kind |-> IF Unknown(call) THEN "plain" ELSE call.kind, name |-> n,
                  typed |-> IF Unknown(call) THEN n ELSE call.typed, flags |-> call.flags,
                  ddash |-> call.ddash, args |-> a, values |-> w, operands |-> o]
    BY <1>1, <1>2, <1>3, <1>4
  <1>6. run \in RunsOfCall(call)
    BY <1>5 DEF RunsOfCall
  <1> QED BY <1>6 DEF run

Real(r, item) == \E run \in Runs(item) : State(r, run) = "match"

LEMMA OneDoubt ==
    ASSUME NEW S \in SUBSET States
    PROVE  /\ CombineStates(S) = "uncertain" => S \subseteq {"match", "uncertain"} /\ "uncertain" \in S
           /\ AnyState(S) = "uncertain" => "uncertain" \in S
  BY DEF CombineStates, AnyState, Three, States

LEMMA WordInDoubt ==
    ASSUME NEW words, NEW pattern
    PROVE  WordsState(words, pattern) = "uncertain" <=> DYNAMIC \in words /\ (words \ {DYNAMIC}) \cap pattern = {}
  BY DEF WordsState, Three

LEMMA FilledMatches ==
    ASSUME NEW words, NEW pattern, NEW v \in pattern \cap Values, v \in words
    PROVE  WordsState(words, pattern) = "match"
  BY MatchersConstants, WordMatches

LEMMA CmdDoubt ==
    ASSUME NEW r, NEW item, r.builder = "cmd", WellFormed(r, item), CanMatch(r, item),
           r.patterns = {} \/ r.predicates = {},
           \A p, q \in r.patterns : p = q, \A p, q \in r.predicates : p = q,
           State(r, item) = "uncertain"
    PROVE  Real(r, item)
  <1>1. item.is = "call" /\ item.args \in Seq(Values \cup {DYNAMIC})
        /\ \A p \in r.predicates : p.flag \in DOMAIN item.values
    BY DEF WellFormed
  <1> DEFINE A == ArgMatchesState(item.args, r.patterns)
             F == FlagValuesState(r.predicates, item)
  <1>2. /\ item.kind # "dynamic" /\ PassesGates(r, item) /\ ~ExpandThrows(item)
        /\ A \in States /\ F \in States /\ (A = "uncertain" \/ F = "uncertain")
    <2>1. CmdState(r, item) = "uncertain"
      BY DEF State
    <2>2. item.kind # "dynamic" /\ PassesGates(r, item) /\ CombineStates({A, F}) = "uncertain"
      BY <2>1 DEF CmdState
    <2>a. ~ExpandThrows(item)
      BY <2>1, <2>2 DEF CmdState, PassesGates
    <2>3. {A, F} \in SUBSET States /\ A \in States /\ F \in States
      BY ArgsState, FlagsState
    <2>4. "uncertain" \in {A, F}
      BY <2>2, <2>3, OneDoubt
    <2> QED BY <2>2, <2>a, <2>3, <2>4
  <1>3. \/ \E p \in r.patterns : /\ r.predicates = {} /\ r.patterns = {p}
                                 /\ WordsState(SetOf(item.args), p) = "uncertain"
        \/ \E p \in r.predicates : /\ r.patterns = {} /\ r.predicates = {p}
                                   /\ FlagValueState(p, item.values[p.flag]) = "uncertain"
    <2>1. CASE A = "uncertain"
      <3> DEFINE S == {WordsState(SetOf(item.args), p) : p \in r.patterns}
      <3>1. S \in SUBSET States /\ CombineStates(S) = "uncertain"
        BY <2>1, NoWordMatches DEF ArgMatchesState
      <3>2. "uncertain" \in S
        BY <3>1, OneDoubt
      <3> QED BY <3>2
    <2>2. CASE F = "uncertain"
      <3> DEFINE S == {FlagValueState(p, item.values[p.flag]) : p \in r.predicates}
      <3>1. S \in SUBSET States /\ CombineStates(S) = "uncertain"
        BY <2>2, FlagState DEF FlagValuesState
      <3>2. "uncertain" \in S
        BY <3>1, OneDoubt
      <3> QED BY <3>2
    <2> QED BY <1>2, <2>1, <2>2
  <1>4. ~Unknown(item)
    <2>1. item.kind # "opaque"
      BY <1>2, <1>3 DEF CanMatch, PassesGates, IsCalled
    <2> QED BY <1>2, <2>1 DEF Unknown
  <1>5. ASSUME NEW v \in Values
        PROVE  /\ PassesGates(r, Filled(item, v, item.name)) /\ ~ExpandThrows(Filled(item, v, item.name))
               /\ Filled(item, v, item.name).kind = item.kind
               /\ Filled(item, v, item.name) \in RunsOfCall(item)
    <2> DEFINE run == Filled(item, v, item.name)
    <2>1. /\ run.kind = item.kind /\ run.name = item.name /\ run.typed = item.typed
          /\ run.flags = item.flags /\ run.ddash = item.ddash
      BY <1>4 DEF Filled
    <2>2. DOMAIN run.args = DOMAIN item.args /\ \A i \in DOMAIN item.args : item.args[i] # DYNAMIC => run.args[i] = item.args[i]
      BY DEF Filled
    <2>3. run \in RunsOfCall(item)
      BY <1>1, <1>4, FilledIsRun
    <2> HIDE DEF run
    <2>4. DYNAMIC \notin r.includes /\ \A i \in DOMAIN r.sub : r.sub[i] # DYNAMIC
      BY DEF CanMatch, SetOf
    <2>5. \A i \in DOMAIN r.sub : i \in DOMAIN run.args /\ run.args[i] = r.sub[i]
      BY <1>2, <2>2, <2>4 DEF PassesGates, IsCalled
    <2>6. r.includes \subseteq SetOf(run.args)
      BY <1>2, <2>2, <2>4 DEF PassesGates, SetOf
    <2>7. PassesGates(r, run)
      BY <1>2, <2>1, <2>5, <2>6 DEF PassesGates, IsCalled, UnwrappedName
    <2>8. ~ExpandThrows(run)
      BY <1>2, <2>1 DEF ExpandThrows
    <2> QED BY <2>1, <2>3, <2>7, <2>8 DEF run
  <1>6. CASE \E p \in r.patterns : /\ r.predicates = {} /\ r.patterns = {p}
                                   /\ WordsState(SetOf(item.args), p) = "uncertain"
    <2>1. PICK p \in r.patterns : /\ r.predicates = {} /\ r.patterns = {p}
                                  /\ WordsState(SetOf(item.args), p) = "uncertain"
      BY <1>6
    <2>2. PICK v \in p \cap Values : TRUE
      BY DEF CanMatch
    <2>3. DYNAMIC \in SetOf(item.args)
      BY <2>1, WordInDoubt
    <2>4. v \in SetOf(Filled(item, v, item.name).args)
      BY <2>3 DEF SetOf, Filled
    <2>5. WordsState(SetOf(Filled(item, v, item.name).args), p) = "match"
      BY <2>4, FilledMatches
    <2>6. CmdState(r, Filled(item, v, item.name)) = "match"
      BY <1>2, <1>5, <2>1, <2>5, CmdMatch
    <2> QED BY <1>1, <1>5, <2>6 DEF Real, Runs, State
  <1>7. CASE \E p \in r.predicates : /\ r.patterns = {} /\ r.predicates = {p}
                                     /\ FlagValueState(p, item.values[p.flag]) = "uncertain"
    <2>1. PICK p \in r.predicates : /\ r.patterns = {} /\ r.predicates = {p}
                                    /\ FlagValueState(p, item.values[p.flag]) = "uncertain"
      BY <1>7
    <2>2. p.kind # "dynamic" /\ ~p.skip /\ DYNAMIC \in item.values[p.flag]
      <3>1. p.kind # "dynamic"
        BY <2>1 DEF FlagValueState, Three
      <3>2. DYNAMIC \in IF p.skip THEN item.values[p.flag] \ {DYNAMIC} ELSE item.values[p.flag]
        BY <2>1, <3>1, WordInDoubt DEF FlagValueState
      <3> QED BY <3>1, <3>2
    <2>3. PICK v \in p.test \cap Values : TRUE
      BY <2>2 DEF CanMatch
    <2>4. v \in Filled(item, v, item.name).values[p.flag]
      BY <1>1, <2>2 DEF Filled
    <2>5. FlagValueState(p, Filled(item, v, item.name).values[p.flag]) = "match"
      BY <2>2, <2>4, FilledMatches DEF FlagValueState
    <2>6. CmdState(r, Filled(item, v, item.name)) = "match"
      BY <1>2, <1>5, <2>1, <2>5, CmdMatch
    <2> QED BY <1>1, <1>5, <2>6 DEF Real, Runs, State
  <1> QED BY <1>3, <1>6, <1>7

LEMMA AllowDoubt ==
    ASSUME NEW r, NEW item, r.builder = "allowOnly", WellFormed(r, item), CanMatch(r, item),
           State(r, item) = "uncertain"
    PROVE  Real(r, item)
  <1>1. item.is = "call" /\ item.args \in Seq(Values \cup {DYNAMIC})
    BY DEF WellFormed
  <1>2. Unknown(item)
    BY DEF State, AllowState, Three, Unknown
  <1>3. PICK v \in Values, n \in Names : n \notin r.allowed
    BY DEF CanMatch
  <1>4. Filled(item, v, n) \in Runs(item)
    BY <1>1, <1>2, FilledIsRun DEF Runs
  <1>5. State(r, Filled(item, v, n)) = "match"
    BY <1>2, <1>3 DEF State, AllowState, Three, Filled
  <1> QED BY <1>4, <1>5 DEF Real

(* A stage whose command is known or open: a name that is wanted comes out.*)
LEMMA StageDoubt ==
    ASSUME NEW stage, NEW wanted, NEW v \in Values, NEW n \in wanted \cap Names,
           stage.kind # "none" => stage.args \in Seq(Values \cup {DYNAMIC}) /\ stage.name # DYNAMIC,
           WordsState({StageName(stage)}, wanted) # "no-match"
    PROVE  \E run \in RunsOfStage(stage) : WordsState({StageName(run)}, wanted) = "match"
  <1>a. NotACommandName # DYNAMIC
    BY MatchersConstants
  <1>1. CASE stage.kind = "none" \/ ~Unknown(stage)
    <2>1. StageName(stage) # DYNAMIC
      BY <1>1, <1>a DEF StageName, UnwrappedName, Unknown
    <2>2. StageName(stage) \in wanted
      BY <2>1, NoWordMatches
    <2>3. \E run \in RunsOfStage(stage) : StageName(run) = StageName(stage)
      <3>1. CASE stage.kind = "none"
        BY <3>1 DEF RunsOfStage
      <3>2. CASE stage.kind # "none"
        <4>1. Filled(stage, v, stage.name) \in RunsOfStage(stage)
          BY <1>1, <3>2, FilledIsRun DEF RunsOfStage
        <4>2. StageName(Filled(stage, v, stage.name)) = StageName(stage)
          BY <1>1, <3>2 DEF StageName, UnwrappedName, Unknown, Filled
        <4> QED BY <4>1, <4>2
      <3> QED BY <3>1, <3>2
    <2> QED BY <2>1, <2>2, <2>3, WordMatches
  <1>2. CASE stage.kind # "none" /\ Unknown(stage)
    <2>1. Filled(stage, v, n) \in RunsOfStage(stage)
      BY <1>2, FilledIsRun DEF RunsOfStage
    <2>2. StageName(Filled(stage, v, n)) = n
      BY <1>2 DEF StageName, UnwrappedName, Filled
    <2>3. n # DYNAMIC /\ n \in wanted
      BY MatchersConstants
    <2> QED BY <2>1, <2>2, <2>3, WordMatches
  <1> QED BY <1>1, <1>2

LEMMA PipeDoubt ==
    ASSUME NEW r, NEW item, r.builder = "pipe", WellFormed(r, item), CanMatch(r, item),
           State(r, item) = "uncertain"
    PROVE  Real(r, item)
  <1> DEFINE X(pipe) == WordsState({StageName(pipe.x)}, r.sources)
             Y(pipe) == WordsState({StageName(pipe.y)}, r.sinks)
  <1>1. X(item) # "no-match" /\ Y(item) # "no-match"
    <2>1. {X(item), Y(item)} \in SUBSET States
      BY NoWordMatches
    <2>2. CombineStates({X(item), Y(item)}) = "uncertain"
      BY DEF State, PipeState
    <2>3. {X(item), Y(item)} \subseteq {"match", "uncertain"}
      BY <2>1, <2>2, OneDoubt
    <2> QED BY <2>3
  <1>2. PICK v \in Values, n \in r.sources \cap Names, m \in r.sinks \cap Names : TRUE
    BY DEF CanMatch
  <1>3. \A stage \in {item.x, item.y} :
           stage.kind # "none" => stage.args \in Seq(Values \cup {DYNAMIC}) /\ stage.name # DYNAMIC
    BY DEF WellFormed
  <1>4. PICK x \in RunsOfStage(item.x) : WordsState({StageName(x)}, r.sources) = "match"
    BY <1>1, <1>2, <1>3, StageDoubt
  <1>5. PICK y \in RunsOfStage(item.y) : WordsState({StageName(y)}, r.sinks) = "match"
    BY <1>1, <1>2, <1>3, StageDoubt
  <1> DEFINE run == [is |-> "pipe", x |-> x, y |-> y]
  <1>6. run \in Runs(item)
    BY DEF Runs, WellFormed
  <1>7. PipeState(r, run) = "match"
    BY <1>4, <1>5 DEF PipeState, CombineStates, Three
  <1> QED BY <1>6, <1>7 DEF Real, State

LEMMA TargetDoubt ==
    ASSUME NEW item, item.is = "redirect", NEW pattern, pattern \cap Values # {},
           WordsState({item.target}, pattern) = "uncertain"
    PROVE  \E run \in Runs(item) : run.is = "redirect" /\ WordsState({run.target}, pattern) = "match"
  <1>1. PICK v \in pattern \cap Values : TRUE
    OBVIOUS
  <1>2. item.target = DYNAMIC
    BY WordInDoubt
  <1>3. [is |-> "redirect", target |-> v] \in Runs(item)
    BY <1>2 DEF Runs
  <1>4. WordsState({v}, pattern) = "match"
    BY FilledMatches
  <1> QED BY <1>3, <1>4

LEMMA RedirectDoubt ==
    ASSUME NEW r, NEW item, r.builder = "redirect", WellFormed(r, item), CanMatch(r, item),
           State(r, item) = "uncertain"
    PROVE  Real(r, item)
  <1>1. item.is = "redirect" /\ ~r.any /\ WordsState({item.target}, r.pattern) = "uncertain"
    BY DEF WellFormed, State, RedirectState
  <1>2. r.pattern \cap Values # {}
    BY <1>1 DEF CanMatch
  <1> QED BY <1>1, <1>2, TargetDoubt DEF Real, State, RedirectState

LEMMA PathDoubt ==
    ASSUME NEW r, NEW item, r.builder = "path"
    PROVE  State(r, item) # "uncertain"
  BY DEF State, PathState, Three

(* Dynamic words of a slot are v in that slot.                             *)
LEMMA SlotFilled ==
    ASSUME NEW call, "-t" \in DOMAIN call.values, ~Unknown(call), call.args \in Seq(Values \cup {DYNAMIC}),
           NEW v \in Values, NEW slot, DYNAMIC \in SelectorCandidates(call, slot)
    PROVE  v \in SelectorCandidates(Filled(call, v, call.name), slot)
  <1> DEFINE run == Filled(call, v, call.name)
  <1>1. /\ run.kind = call.kind
        /\ run.args = [i \in DOMAIN call.args |-> IF call.args[i] = DYNAMIC THEN v ELSE call.args[i]]
        /\ DYNAMIC \in call.values["-t"] => v \in run.values["-t"]
    BY DEF Filled
  <1>2. DOMAIN run.args = DOMAIN call.args /\ Len(run.args) = Len(call.args)
    BY <1>1
  <1>3. ASSUME NEW prefix, DYNAMIC \in PrefixCandidates(call, prefix)
        PROVE  v \in PrefixCandidates(run, prefix)
    <2>1. PICK o \in call.operands : /\ call.kind \in {"plain", "wrapped"}
                                     /\ o.prefix = prefix /\ o.value = DYNAMIC
      BY <1>3 DEF PrefixCandidates
    <2>2. [prefix |-> prefix, value |-> v] \in run.operands
      BY <2>1 DEF Filled
    <2>3. v # PARTIAL
      BY MatchersConstants
    <2>4. \E q \in run.operands : q.prefix = prefix /\ q.value # PARTIAL /\ v = q.value
      BY <2>2, <2>3
    <2> QED BY <1>1, <2>1, <2>4 DEF PrefixCandidates
  <1> SUFFICES v \in SelectorCandidates(run, slot)
    OBVIOUS
  <1> HIDE DEF run
  <1>4. CASE slot = "all"
    BY <1>4, <1>1 DEF SelectorCandidates, SetOf
  <1>5. CASE slot = "last"
    BY <1>5, <1>1, <1>2 DEF SelectorCandidates
  <1>6. CASE slot = "allButLast"
    BY <1>6, <1>1, <1>2 DEF SelectorCandidates
  <1>7. CASE slot = "targetDir"
    BY <1>7, <1>1, <1>3 DEF SelectorCandidates, TargetDirValues
  <1>8. CASE slot \notin {"all", "last", "allButLast", "targetDir"}
    BY <1>8, <1>3 DEF SelectorCandidates
  <1> QED BY <1>4, <1>5, <1>6, <1>7, <1>8

(* A target directory that is literal only at its start appears in a run,  *)
(* and with it another table; the word in doubt is in its slots as well.   *)
LEMMA TableChanges ==
    ASSUME NEW call, "-t" \in DOMAIN call.values, ~Unknown(call), call.args \in Seq(Values \cup {DYNAMIC}),
           NEW v \in Values, SelectorsFor(Filled(call, v, call.name)) # SelectorsFor(call),
           NEW s \in SelectorsFor(call), DYNAMIC \in SelectorCandidates(call, s.slot)
    PROVE  \E t \in SelectorsFor(Filled(call, v, call.name)) :
              t.role = s.role /\ v \in SelectorCandidates(Filled(call, v, call.name), t.slot)
  <1> DEFINE run == Filled(call, v, call.name)
  <1>1. run.name = call.name /\ run.kind = call.kind
    BY DEF Filled
  <1>2. /\ call.name \in {"cp", "mv", "install"}
        /\ TargetDirValues(run) # {} <=> TargetDirValues(call) = {}
    BY <1>1 DEF SelectorsFor
  <1>3. TargetDirValues(call) # {} => TargetDirValues(run) # {}
    <2>1. run.values["-t"] = {} => call.values["-t"] = {}
      BY DEF Filled
    <2>2. ASSUME NEW w \in PrefixCandidates(call, "--target-directory=")
          PROVE  TargetDirValues(run) # {}
      <3>1. PICK o \in call.operands : /\ call.kind \in {"plain", "wrapped"}
                                       /\ o.prefix = "--target-directory=" /\ o.value = w /\ w # PARTIAL
        BY <2>2 DEF PrefixCandidates
      <3>2. [prefix |-> o.prefix, value |-> IF o.value \in {DYNAMIC, PARTIAL} THEN v ELSE o.value] \in run.operands
        BY DEF Filled
      <3>3. v # PARTIAL
        BY MatchersConstants
      <3>4. PICK q \in run.operands : q.prefix = "--target-directory=" /\ q.value # PARTIAL
        BY <3>1, <3>2, <3>3
      <3>5. run.kind \in {"plain", "wrapped"}
        BY <1>1, <3>1
      <3> HIDE DEF run
      <3>6. q.value \in PrefixCandidates(run, "--target-directory=")
        BY <3>4, <3>5 DEF PrefixCandidates
      <3> QED BY <3>6 DEF TargetDirValues
    <2> QED BY <2>1, <2>2 DEF TargetDirValues
  <1>4. TargetDirValues(run) # {} /\ TargetDirValues(call) = {}
    BY <1>2, <1>3
  <1>5. SelectorsFor(run) = {Selector("write", "targetDir"), Selector("read", "all")}
    BY <1>1, <1>2, <1>4 DEF SelectorsFor
  <1>6. s \in {Selector("read", "allButLast"), Selector("write", "allButLast"), Selector("write", "last")}
    BY <1>2, <1>4 DEF SelectorsFor, FileCommands
  <1>7. v \in TargetDirValues(run)
    <2>1. call.values["-t"] = {} /\ PrefixCandidates(call, "--target-directory=") = {}
      BY <1>4 DEF TargetDirValues
    <2>2. run.values["-t"] = {}
      BY <2>1 DEF Filled
    <2>3. PICK w \in PrefixCandidates(run, "--target-directory=") : TRUE
      BY <1>4, <2>2 DEF TargetDirValues
    <2>4. PICK q \in run.operands : /\ run.kind \in {"plain", "wrapped"}
                                    /\ q.prefix = "--target-directory=" /\ q.value = w
      BY <2>3 DEF PrefixCandidates
    <2>5. PICK o \in call.operands :
             q = [prefix |-> o.prefix, value |-> IF o.value \in {DYNAMIC, PARTIAL} THEN v ELSE o.value]
      BY DEF Filled
    <2>6. o.prefix = "--target-directory=" /\ w = IF o.value \in {DYNAMIC, PARTIAL} THEN v ELSE o.value
      BY <2>4, <2>5
    <2>7. o.value = PARTIAL
      <3>1. call.kind \in {"plain", "wrapped"}
        BY <1>1, <2>4
      <3>2. o.value # PARTIAL => o.value \in PrefixCandidates(call, "--target-directory=")
        BY <2>6, <3>1 DEF PrefixCandidates
      <3> QED BY <2>1, <3>2
    <2> QED BY <2>3, <2>6, <2>7 DEF TargetDirValues
  <1>8. DYNAMIC \in SelectorCandidates(call, "all")
    <2>1. s.slot \in {"allButLast", "last"}
      BY <1>6 DEF Selector
    <2>2. SelectorCandidates(call, s.slot) \subseteq {call.args[i] : i \in DOMAIN call.args}
      BY <2>1 DEF SelectorCandidates
    <2> QED BY <2>2 DEF SelectorCandidates, SetOf
  <1>9. v \in SelectorCandidates(run, "all")
    BY <1>8, SlotFilled
  <1>10. v \in SelectorCandidates(run, "targetDir")
    BY <1>7 DEF SelectorCandidates
  <1> HIDE DEF run
  <1>11. CASE s.role = "write"
    BY <1>5, <1>10, <1>11 DEF Selector, run
  <1>12. CASE s.role = "read"
    BY <1>5, <1>9, <1>12 DEF Selector, run
  <1> QED BY <1>6, <1>11, <1>12 DEF Selector

LEMMA ProtectDoubt ==
    ASSUME NEW r, NEW item, r.builder = "protectPath", WellFormed(r, item), CanMatch(r, item),
           State(r, item) = "uncertain"
    PROVE  Real(r, item)
  <1>a. item.is \in {"call", "redirect"} /\ ProtectState(r, item) = "uncertain" /\ r.pattern \cap Values # {}
    BY DEF WellFormed, State, CanMatch
  <1>1. CASE item.is = "redirect"
    <2>1. WordsState({item.target}, r.pattern) = "uncertain"
      BY <1>1, <1>a DEF ProtectState
    <2>2. PICK run \in Runs(item) : run.is = "redirect" /\ WordsState({run.target}, r.pattern) = "match"
      BY <1>1, <1>a, <2>1, TargetDoubt
    <2> QED BY <2>2 DEF Real, State, ProtectState
  <1>2. CASE item.is = "call"
    <2> DEFINE Slots(call) == {t \in SelectorsFor(call) : ModeIncludes(r.mode, t.role)}
               S(call) == {WordsState(SelectorCandidates(call, s.slot), r.pattern) : s \in Slots(call)}
    <2>1. /\ item.kind # "dynamic" /\ CallPathState(r, item) = "uncertain"
          /\ item.name \notin ObjectMembers
          /\ item.args \in Seq(Values \cup {DYNAMIC}) /\ "-t" \in DOMAIN item.values
          /\ item.kind = "opaque" => FileCommands(item.name) = {}
      BY <1>2, <1>a DEF ProtectState, WellFormed
    <2>2. AnyState(S(item)) = "uncertain" /\ S(item) \in SUBSET States
      BY <2>1, NoWordMatches DEF CallPathState
    <2>3. PICK s \in Slots(item) : WordsState(SelectorCandidates(item, s.slot), r.pattern) = "uncertain"
      BY <2>2, OneDoubt
    <2>4. DYNAMIC \in SelectorCandidates(item, s.slot)
      BY <2>3, WordInDoubt
    <2>5. ~Unknown(item)
      <3>1. item.kind = "opaque" => FALSE
        <4> SUFFICES ASSUME item.kind = "opaque" PROVE FALSE
          OBVIOUS
        <4>1. FileCommands(item.name) = {}
          BY <2>1
        <4>2. item.name \notin {"cp", "mv", "install"}
          BY <4>1 DEF FileCommands
        <4>3. SelectorsFor(item) = {}
          BY <4>1, <4>2 DEF SelectorsFor
        <4> QED BY <2>3, <4>3
      <3> QED BY <2>1, <3>1 DEF Unknown
    <2>6. PICK v \in r.pattern \cap Values : TRUE
      BY <1>a
    <2> DEFINE run == Filled(item, v, item.name)
    <2>7. run \in Runs(item) /\ run.is = "call" /\ run.kind = item.kind /\ run.name = item.name
      <3>1. run \in RunsOfCall(item)
        BY <2>1, <2>5, FilledIsRun
      <3>2. run.is = "call" /\ run.kind = item.kind /\ run.name = item.name
        BY <2>5 DEF Filled
      <3> QED BY <1>2, <3>1, <3>2 DEF Runs
    <2>8. \E t \in SelectorsFor(run) : t.role = s.role /\ v \in SelectorCandidates(run, t.slot)
      <3>1. CASE SelectorsFor(run) = SelectorsFor(item)
        <4>1. v \in SelectorCandidates(run, s.slot)
          BY <2>1, <2>4, <2>5, <2>6, SlotFilled
        <4> QED BY <3>1, <4>1
      <3>2. CASE SelectorsFor(run) # SelectorsFor(item)
        BY <2>1, <2>4, <2>5, <3>2, TableChanges
      <3> QED BY <3>1, <3>2
    <2> HIDE DEF run
    <2>9. PICK t \in Slots(run) : v \in SelectorCandidates(run, t.slot)
      BY <2>8
    <2>10. WordsState(SelectorCandidates(run, t.slot), r.pattern) = "match"
      BY <2>6, <2>9, FilledMatches
    <2>11. S(run) \in SUBSET States /\ "match" \in S(run)
      BY <2>9, <2>10, NoWordMatches
    <2>12. CallPathState(r, run) = "match"
      BY <2>11, OneStateFails DEF CallPathState
    <2>13. ProtectState(r, run) = "match"
      BY <2>1, <2>7, <2>12 DEF ProtectState
    <2> QED BY <2>7, <2>13 DEF Real, State
  <1> QED BY <1>a, <1>1, <1>2

(* The lemmas of this section together.                                    *)
LEMMA DoubtCanMatch ==
    ASSUME NEW r, NEW item, r.builder \in Builders, WellFormed(r, item), CanMatch(r, item),
           r.builder = "cmd" => /\ r.patterns = {} \/ r.predicates = {}
                                /\ \A p, q \in r.patterns : p = q
                                /\ \A p, q \in r.predicates : p = q,
           State(r, item) = "uncertain"
    PROVE  Real(r, item)
  BY CmdDoubt, AllowDoubt, PipeDoubt, RedirectDoubt, PathDoubt, ProtectDoubt DEF Builders

----------------------------------------------------------------------------
(* Flags: the members of a group of aliases are matched alike. *)

LEMMA BareFlag ==
    ASSUME NEW names, NEW h \in Bare(names)
    PROVE  h = <<h[1], "">> /\ h[1] \in names
  <1>1. PICK n \in names : h = <<n, "">>
    BY DEF Bare
  <1>2. h[1] = n
    BY <1>1
  <1> QED BY <1>1, <1>2

(* The groups of a command are sets of bare flags, no two of which share   *)
(* one.                                                                    *)
LEMMA AliasGroups ==
    ASSUME NEW name, NEW group \in Aliases(name), NEW f \in group
    PROVE  /\ f = <<f[1], "">>
           /\ \A other \in Aliases(name) : f \in other => other = group
  <1>1. \A names : \A h \in Bare(names) : h = <<h[1], "">> /\ h[1] \in names
    BY BareFlag
  <1>2. f = <<f[1], "">>
    BY <1>1 DEF Aliases
  <1>3. ASSUME NEW other \in Aliases(name), f \in other
        PROVE  other = group
    <2>1. CASE name \in {"rm", "cp"}
      <3>1. Bare({"-r", "-R", "--recursive"}) \cap Bare({"-f", "--force"}) = {}
        BY <1>1
      <3> QED BY <2>1, <1>3, <3>1 DEF Aliases
    <2>2. CASE name \notin {"rm", "cp"}
      BY <2>2, <1>3 DEF Aliases
    <2> QED BY <2>1, <2>2
  <1> QED BY <1>2, <1>3

(* Flags that carry no value and that the directional table does not know. *)
Simple(flags, name) ==
    \A h \in flags : h = <<h[1], h[2]>> /\ h[2] = "" /\ Expansions(name, h) = {}

LEMMA HasFlagOfGroup ==
    ASSUME NEW flags, NEW name, Simple(flags, name), NEW group \in Aliases(name), NEW f \in group
    PROVE  HasFlag(ExpandFlags(flags, name), f) <=> group \cap flags # {}
  <1> DEFINE expanded == ExpandFlags(flags, name)
  <1>1. \A h : h \in expanded <=>
                h \in flags \/ \E g \in Aliases(name) : h \in g /\ g \cap flags # {}
    <2>1. \A h \in flags : Expansions(name, h) = {}
      BY DEF Simple
    <2>2. UNION {Expansions(name, h) : h \in flags} = {}
      BY <2>1
    <2> QED BY <2>2 DEF ExpandFlags
  <1> HIDE DEF expanded
  <1>2. ASSUME NEW h \in expanded
        PROVE  h = <<h[1], "">>
    <2>1. CASE h \in flags
      <3>1. h = <<h[1], h[2]>> /\ h[2] = ""
        BY <2>1 DEF Simple
      <3> QED BY <3>1, Zenon
    <2>2. CASE \E g \in Aliases(name) : h \in g /\ g \cap flags # {}
      BY <2>2, AliasGroups
    <2> QED BY <1>1, <2>1, <2>2
  <1>3. f = <<f[1], "">> /\ \A other \in Aliases(name) : f \in other => other = group
    BY AliasGroups
  <1>4. f \in expanded <=> group \cap flags # {}
    BY <1>1, <1>3
  <1>5. \A h \in expanded : h[1] = f[1] => h = f
    BY <1>2, <1>3
  <1>6. HasFlag(expanded, f) <=> f \in expanded
    BY <1>5 DEF HasFlag
  <1> QED BY <1>4, <1>6 DEF expanded

(* A rule that is written with the one flag is the rule written with the   *)
(* other.                                                                  *)
LEMMA SwapIsSilent ==
    ASSUME NEW r, NEW item, r.builder = "cmd", WellFormed(r, item), Simple(item.flags, item.name),
           NEW group \in Aliases(item.name), NEW f \in group, NEW g \in group
    PROVE  State(Swapped(r, f, g), item) = State(r, item)
  <1> DEFINE q == Swapped(r, f, g)
             swap(h) == IF h = f THEN g ELSE h
             expanded == ExpandFlags(item.flags, item.name)
  <1>1. {"builder", "command", "sub", "flags", "noFlags", "anyOf", "patterns", "includes", "ddash",
         "strictPath", "predicates"} \subseteq DOMAIN r
    BY DEF WellFormed, CmdRule
  <1>2. /\ q.builder = r.builder /\ q.command = r.command /\ q.sub = r.sub /\ q.patterns = r.patterns
        /\ q.includes = r.includes /\ q.ddash = r.ddash /\ q.strictPath = r.strictPath
        /\ q.predicates = r.predicates
    BY <1>1 DEF Swapped
  <1>3. /\ q.flags = {swap(h) : h \in r.flags} /\ q.noFlags = {swap(h) : h \in r.noFlags}
        /\ q.anyOf = {{swap(h) : h \in s} : s \in r.anyOf}
    BY <1>1 DEF Swapped
  <1>4. HasFlag(expanded, f) <=> HasFlag(expanded, g)
    BY HasFlagOfGroup
  <1>5. \A h : HasFlag(expanded, swap(h)) <=> HasFlag(expanded, h)
    BY <1>4
  <1> HIDE DEF q, swap, expanded
  <1>6. /\ (\A h \in q.flags : HasFlag(expanded, h)) <=> (\A h \in r.flags : HasFlag(expanded, h))
        /\ (\A h \in q.noFlags : ~HasFlag(expanded, h)) <=> (\A h \in r.noFlags : ~HasFlag(expanded, h))
    BY <1>3, <1>5
  <1>7. (\A s \in q.anyOf : \E h \in s : HasFlag(expanded, h))
          <=> (\A s \in r.anyOf : \E h \in s : HasFlag(expanded, h))
    <2>1. \A s : (\E h \in {swap(k) : k \in s} : HasFlag(expanded, h)) <=> (\E h \in s : HasFlag(expanded, h))
      BY <1>5
    <2> QED BY <1>3, <2>1
  <1>a. IsCalled(q, item) <=> IsCalled(r, item)
    BY <1>2 DEF IsCalled
  <1>8. PassesGates(q, item) <=> PassesGates(r, item)
    BY <1>2, <1>6, <1>7, <1>a DEF PassesGates, expanded
  <1> QED BY <1>2, <1>8, <1>a DEF State, CmdState, q

----------------------------------------------------------------------------
(* What a builder answers *)

LEMMA StateRange ==
    ASSUME NEW r, NEW item, r.builder \in Builders
    PROVE  State(r, item) \in States \cup {"word", "error"}
  <1> USE DEF States
  <1>1. CASE r.builder = "cmd"
    <2>1. {ArgMatchesState(item.args, r.patterns), FlagValuesState(r.predicates, item)} \in SUBSET States
      BY ArgsState, FlagsState
    <2>2. CombineStates({ArgMatchesState(item.args, r.patterns), FlagValuesState(r.predicates, item)}) \in States
      BY <2>1, OneStateFails
    <2> QED BY <1>1, <2>2 DEF State, CmdState
  <1>2. CASE r.builder \in {"allowOnly", "redirect", "path"}
    BY <1>2, NoWordMatches DEF State, AllowState, RedirectState, PathState, Three
  <1>3. CASE r.builder = "pipe"
    BY <1>3 DEF State, PipeState, CombineStates, Three
  <1>4. CASE r.builder = "protectPath"
    BY <1>4, NoWordMatches DEF State, ProtectState, CallPathState, AnyState, Three
  <1> QED BY <1>1, <1>2, <1>3, <1>4 DEF Builders

----------------------------------------------------------------------------
(* The loop *)

(* The items passed over did not match and did not make the rule throw,    *)
(* what was uncertain is remembered, and a dynamic word was let pass       *)
(* because nothing escalates.                                              *)
PassedOver ==
    \A j \in 1 .. next - 1 :
        /\ Answer(j) \notin {"match", "error"}
        /\ Answer(j) = "uncertain" => sawUncertain
        /\ Answer(j) = "word" => EscalateUncertain(rule.decision) = Silent

(* Why evaluate returned.                                                  *)
Returned ==
    /\ result = Silent /\ script.ast =>
          next = Len(Items) + 1 /\ (sawUncertain => EscalateUncertain(rule.decision) = Silent)
    /\ result.from = "uncertainty" => next = Len(Items) + 1 \/ Answer(next) = "word"
    /\ result = Failed => Answer(next) = "error"

OwnMatched == result = Own => next \in DOMAIN Items /\ Answer(next) = "match"

Inv == TypeOK /\ PassedOver /\ Returned /\ OwnMatched

LEMMA InputsKnown ==
    ASSUME rule \in Rules, script \in Scripts[rule.builder]
    PROVE  /\ rule.builder \in Builders
           /\ Len(Items) \in Nat /\ DOMAIN Items = 1 .. Len(Items)
           /\ \A i \in DOMAIN Items : WellFormed(rule, Items[i])
  <1>1. /\ rule.builder \in Builders
        /\ Items \in Seq({Items[i] : i \in DOMAIN Items})
        /\ \A i \in DOMAIN Items : WellFormed(rule, Items[i])
    BY MatchersInputs, Zenon DEF Items
  <1>2. \A S : Items \in Seq(S) => Len(Items) \in Nat /\ DOMAIN Items = 1 .. Len(Items)
    OBVIOUS
  <1> QED BY <1>1, <1>2, Zenon

LEMMA InvInit == Init => Inv
  <1> SUFFICES ASSUME Init PROVE Inv
    OBVIOUS
  <1>1. Len(Items) \in Nat
    BY InputsKnown DEF Init
  <1>2. TypeOK
    <2>1. 1 \in 1 .. Len(Items) + 1
      BY <1>1
    <2> QED BY <2>1, Zenon DEF Init, TypeOK
  <1>3. PassedOver
    BY DEF Init, PassedOver
  <1>4. Returned
    BY DEF Init, Returned, Pending, Silent, Failed
  <1>5. OwnMatched
    BY DEF Init, OwnMatched, Own, Pending
  <1> QED BY <1>2, <1>3, <1>4, <1>5 DEF Inv

LEMMA InvStep == Inv /\ [Next]_vars => Inv'
  <1> SUFFICES ASSUME Inv, [Next]_vars PROVE Inv'
    OBVIOUS
  <1> USE DEF Inv
  <1>1. /\ Len(Items) \in Nat /\ TypeOK
        /\ rule' = rule /\ script' = script /\ security' = security
    BY InputsKnown DEF TypeOK, Next, NoAst, Fire, Throw, EscalateWord, Skip, Doubt, Finish, vars
  <1>2. Items' = Items /\ Own' = Own /\ EscalateUncertain(rule.decision)' = EscalateUncertain(rule.decision)
    BY <1>1 DEF Items, Own, EscalateUncertain
  <1>3. \A j : Answer(j)' = Answer(j)
    BY <1>1, <1>2 DEF Answer
  <1>4. EscalateUncertain(rule.decision) \in {Silent} \cup [kind : Terminals, from : {"uncertainty"}]
    BY <1>1 DEF TypeOK, EscalateUncertain, Terminals
  <1>5. ASSUME next' = next, sawUncertain' = sawUncertain
        PROVE  PassedOver'
    BY <1>1, <1>2, <1>3, <1>5 DEF PassedOver
  <1>o. OwnMatched'
    <2>1. Pending # Own /\ Silent # Own /\ Failed # Own /\ EscalateUncertain(rule.decision) # Own
      BY <1>4 DEF Pending, Silent, Failed, Own
    <2>2. CASE Fire
      BY <1>1, <1>2, <1>3, <2>2, InputsKnown DEF Fire, Examining, OwnMatched, TypeOK
    <2>3. CASE NoAst \/ Throw \/ EscalateWord \/ Finish
      BY <1>2, <2>1, <2>3 DEF NoAst, Throw, EscalateWord, Finish, OwnMatched
    <2>4. CASE Skip \/ Doubt
      BY <1>2, <2>1, <2>4 DEF Skip, Doubt, Examining, Running, OwnMatched
    <2>5. CASE UNCHANGED vars
      BY <1>2, <1>3, <2>5 DEF vars, OwnMatched
    <2> QED BY <2>2, <2>3, <2>4, <2>5 DEF Next
  <1> USE DEF Failed
  <1>6. CASE NoAst
    BY <1>o, <1>1, <1>2, <1>5, <1>6 DEF NoAst, TypeOK, Returned, Silent, Pending
  <1>7. CASE Fire
    BY <1>o, <1>1, <1>2, <1>5, <1>7 DEF Fire, TypeOK, Returned, Silent, Own
  <1>t. CASE Throw
    BY <1>o, <1>1, <1>2, <1>3, <1>5, <1>t DEF Throw, Examining, TypeOK, Returned, Silent
  <1>8. CASE EscalateWord
    BY <1>o, <1>1, <1>2, <1>3, <1>4, <1>5, <1>8 DEF EscalateWord, TypeOK, Returned, Examining, Silent
  <1>9. CASE Skip
    <2>1. TypeOK' /\ Returned'
      BY <1>1, <1>2, <1>9 DEF Skip, Examining, Running, TypeOK, Returned, Pending, Silent
    <2>2. PassedOver'
      BY <1>1, <1>2, <1>3, <1>9 DEF Skip, Examining, TypeOK, PassedOver
    <2> QED BY <1>o, <2>1, <2>2
  <1>10. CASE Doubt
    <2>1. TypeOK' /\ Returned'
      BY <1>1, <1>2, <1>10 DEF Doubt, Examining, Running, TypeOK, Returned, Pending, Silent
    <2>2. PassedOver'
      BY <1>1, <1>2, <1>3, <1>10 DEF Doubt, Examining, TypeOK, PassedOver
    <2> QED BY <1>o, <2>1, <2>2
  <1>11. CASE Finish
    BY <1>o, <1>1, <1>2, <1>4, <1>5, <1>11 DEF Finish, Running, TypeOK, Returned, Silent
  <1>12. CASE UNCHANGED vars
    BY <1>o, <1>1, <1>2, <1>3, <1>5, <1>12 DEF vars, TypeOK, Returned
  <1> QED BY <1>o, <1>6, <1>7, <1>t, <1>8, <1>9, <1>10, <1>11, <1>12 DEF Next

LEMMA InvHolds == Spec => []Inv
  BY InvInit, InvStep, PTL DEF Spec

(* Why evaluate escalates: an item it passed over was in doubt, or the one *)
(* it looks at has a dynamic command word.                                 *)
DoubtSeen ==
    /\ sawUncertain => \E j \in 1 .. next - 1 : Answer(j) = "uncertain"
    /\ result.from = "uncertainty" =>
          /\ rule.decision \in Terminals
          /\ sawUncertain \/ (next <= Len(Items) /\ Answer(next) = "word")

LEMMA DoubtSeenStep == Inv /\ DoubtSeen /\ [Next]_vars => DoubtSeen'
  <1> SUFFICES ASSUME Inv, DoubtSeen, [Next]_vars PROVE DoubtSeen'
    OBVIOUS
  <1>1. /\ TypeOK /\ next \in Nat \ {0} /\ Len(Items) \in Nat
        /\ rule' = rule /\ script' = script /\ security' = security
    BY InputsKnown DEF Inv, TypeOK, Next, NoAst, Fire, Throw, EscalateWord, Skip, Doubt, Finish, vars
  <1>2. Items' = Items
    BY <1>1 DEF Items
  <1>3. \A j : Answer(j)' = Answer(j)
    BY <1>1, <1>2 DEF Answer
  <1>4. EscalateUncertain(rule.decision).from = "uncertainty" => rule.decision \in Terminals
    BY DEF EscalateUncertain, Silent
  <1>5. /\ Silent.from # "uncertainty" /\ Own.from # "uncertainty" /\ Pending.from # "uncertainty"
    BY DEF Silent, Own, Pending
  <1>6. CASE NoAst \/ Fire \/ Throw
    BY <1>1, <1>2, <1>3, <1>5, <1>6 DEF NoAst, Fire, Throw, Own, Failed, DoubtSeen
  <1>7. CASE EscalateWord
    BY <1>1, <1>2, <1>3, <1>4, <1>7 DEF EscalateWord, Examining, DoubtSeen
  <1>8. CASE Skip
    BY <1>1, <1>2, <1>3, <1>5, <1>8 DEF Skip, Examining, Running, DoubtSeen
  <1>9. CASE Doubt
    <2>1. next \in 1 .. next' - 1 /\ Answer(next) = "uncertain" /\ result' = Pending
      BY <1>1, <1>9 DEF Doubt, Examining, Running
    <2> QED BY <1>3, <1>5, <2>1 DEF DoubtSeen
  <1>10. CASE Finish
    BY <1>1, <1>2, <1>3, <1>4, <1>5, <1>10 DEF Finish, DoubtSeen
  <1>11. CASE UNCHANGED vars
    BY <1>1, <1>2, <1>3, <1>11 DEF vars, DoubtSeen
  <1> QED BY <1>6, <1>7, <1>8, <1>9, <1>10, <1>11 DEF Next

----------------------------------------------------------------------------
(* The theorems *)

(* Type correctness of the loop, its index within the items included.      *)
THEOREM MatchersTypes == Spec => []TypeOK
  <1>1. Inv => TypeOK
    BY DEF Inv
  <1> QED BY <1>1, InvHolds, PTL

(* A definite match is never lost to an uncertain item, wherever it stands *)
(* in the script, but only to a dynamic command word before it, which is   *)
(* escalated, or to a call before it at which the rule throws: the loops   *)
(* of evaluate in command.ts, pipe.ts, redirect.ts, allow-only.ts and      *)
(* protect-path.ts.                                                        *)
THEOREM MatchDecides == Spec => []DefiniteMatchWins
  <1>1. Inv => DefiniteMatchWins
    <2> SUFFICES ASSUME Inv, result # Pending, script.ast,
                        NEW i \in DOMAIN Items, Answer(i) = "match", result # Own
                 PROVE  \E j \in 1 .. i - 1 : Answer(j) = IF result = Failed THEN "error" ELSE "word"
      BY DEF DefiniteMatchWins
    <2>1. /\ Len(Items) \in Nat /\ DOMAIN Items = 1 .. Len(Items) /\ next \in 1 .. Len(Items) + 1
          /\ result = Silent \/ result = Failed \/ result.from = "uncertainty"
          /\ result = Silent \/ result.from = "uncertainty" => result # Failed
      BY InputsKnown DEF Inv, TypeOK, Silent, Failed
    <2>2. i >= next
      BY <2>1 DEF Inv, PassedOver
    <2>3. Answer(next) = IF result = Failed THEN "error" ELSE "word"
      BY <2>1, <2>2 DEF Inv, Returned
    <2> QED BY <2>1, <2>2, <2>3
  <1> QED BY <1>1, InvHolds, PTL

(* No silent allow of what a deny or ask rule could not certify, within    *)
(* what its matcher sees (core/security.ts, escalateUncertain).            *)
THEOREM SilenceHidesNothing == Spec => []SilenceIsCertain
  <1>1. Inv => SilenceIsCertain
    <2> SUFFICES ASSUME Inv, result = Silent, Gate,
                        NEW i \in DOMAIN Items, Visible(rule, Items[i])
                 PROVE  Certain(rule, Items[i])
      BY DEF SilenceIsCertain, Certain
    <2>1. /\ rule.builder \in Builders /\ WellFormed(rule, Items[i])
          /\ Len(Items) \in Nat /\ i \in 1 .. Len(Items)
      BY InputsKnown DEF Inv, TypeOK
    <2>2. EscalateUncertain(rule.decision) # Silent
      BY DEF Gate, EscalateUncertain, Silent
    <2>3. next = Len(Items) + 1 /\ ~sawUncertain
      BY <2>2 DEF Inv, Returned, Gate
    <2>4. Answer(i) \notin {"match", "uncertain", "word", "error"}
      BY <2>1, <2>2, <2>3 DEF Inv, PassedOver
    <2>5. State(rule, Items[i]) = "no-match"
      BY <2>1, <2>4, StateRange DEF Answer, States
    <2> QED BY <2>1, <2>5, NoMatchIsCertain
  <1> QED BY <1>1, InvHolds, PTL

(* A rule gives its own decision only for what it sees and would see after *)
(* the shell has filled in the rest, in each of the six builders.          *)
THEOREM OwnIsCertain == Spec => []MatchIsCertain
  <1>1. Inv => MatchIsCertain
    <2> SUFFICES ASSUME Inv, result = Own, Visible(rule, Items[next]), Plain(rule)
                 PROVE  Sure(rule, Items[next])
      BY DEF MatchIsCertain, Sure, Plain
    <2>1. /\ rule.builder \in Builders
          /\ next \in DOMAIN Items /\ WellFormed(rule, Items[next])
          /\ State(rule, Items[next]) = "match"
      BY InputsKnown DEF Inv, TypeOK, OwnMatched, Answer
    <2> QED BY <2>1, MatchIsSure
  <1> QED BY <1>1, InvHolds, PTL

(* An escalation is called for, in each of the six builders: some value of *)
(* the dynamic words makes the rule match, provided that there are values  *)
(* that satisfy what the rules ask of words.                               *)
THEOREM DoubtsAreReal ==
    ASSUME RulesCanMatch
    PROVE  Spec => []DoubtIsReal
  <1>1. Init => DoubtSeen
    BY DEF Init, DoubtSeen, Pending
  <1>2. Inv /\ DoubtSeen => DoubtIsReal
    <2> SUFFICES ASSUME Inv, DoubtSeen, result.from = "uncertainty", OneConstraint
                 PROVE  /\ rule.decision \in Terminals
                        /\ \E i \in DOMAIN Items : Answer(i) = "word" \/ Real(rule, Items[i])
      BY DEF DoubtIsReal, Real
    <2>1. /\ rule \in Rules /\ script \in Scripts[rule.builder] /\ rule.builder \in Builders
          /\ Len(Items) \in Nat /\ DOMAIN Items = 1 .. Len(Items) /\ next \in 1 .. Len(Items) + 1
          /\ \A i \in DOMAIN Items : WellFormed(rule, Items[i])
      BY InputsKnown DEF Inv, TypeOK
    <2>2. CASE next <= Len(Items) /\ Answer(next) = "word"
      BY <2>1, <2>2 DEF DoubtSeen
    <2>3. CASE sawUncertain
      <3>1. PICK j \in DOMAIN Items : Answer(j) = "uncertain"
        BY <2>1, <2>3 DEF DoubtSeen
      <3>2. CanMatch(rule, Items[j])
        BY <2>1, Zenon DEF RulesCanMatch, Items
      <3>3. Real(rule, Items[j])
        BY <2>1, <3>1, <3>2, DoubtCanMatch DEF OneConstraint, Answer
      <3> QED BY <3>3 DEF DoubtSeen
    <2> QED BY <2>2, <2>3 DEF DoubtSeen
  <1> QED BY <1>1, <1>2, InvHolds, DoubtSeenStep, PTL DEF Spec

(* helpers.ts: matching one member of a group of aliases matches the rest, *)
(* for all rules and calls.                                                *)
THEOREM AliasesAreOne == Spec => []AliasesAreInterchangeable
  <1>1. Inv => AliasesAreInterchangeable
    <2> SUFFICES ASSUME Inv, rule.builder = "cmd", NEW i \in DOMAIN Items,
                        \A f \in Items[i].flags : f[2] = "" /\ Expansions(Items[i].name, f) = {},
                        NEW group \in Aliases(Items[i].name), NEW f \in group, NEW g \in group
                 PROVE  State(Swapped(rule, f, g), Items[i]) = State(rule, Items[i])
      BY DEF AliasesAreInterchangeable, Answer
    <2>1. WellFormed(rule, Items[i])
      BY InputsKnown DEF Inv, TypeOK
    <2>2. Simple(Items[i].flags, Items[i].name)
      BY <2>1 DEF WellFormed, Simple
    <2> QED BY <2>1, <2>2, SwapIsSilent
  <1> QED BY <1>1, InvHolds, PTL
============================================================================
