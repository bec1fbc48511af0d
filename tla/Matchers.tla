------------------------------ MODULE Matchers -----------------------------
(***************************************************************************)
(* The rule builders: one rule is evaluated on one hook event.  Words of   *)
(* the script that the shell fills in only when it runs ($X, $(cmd)) are   *)
(* DYNAMIC, so a matcher answers match, no-match or uncertain.             *)
(*                                                                         *)
(* What the parser returns is the input: the calls, pipes and redirects of *)
(* a script, each call already unwrapped.  A regular expression is the set *)
(* of values it matches; the repeated values of a flag are a set.          *)
(***************************************************************************)
EXTENDS Naturals, Sequences

CONSTANTS
    DYNAMIC,     \* a word, or the whole value of an operand, left to the shell
    PARTIAL,     \* an operand's value that starts literally: of=/etc/$X
    Values,      \* what an argument, a flag's value or a target can be
    Names,       \* command names
    Rules,       \* the rules evaluated
    Scripts      \* Scripts[builder]: the events its rules are evaluated on

(* What stmtToCmdName says of a stage that is no command.                  *)
NotACommandName == "not a command"

ASSUME MatchersConstants ==
    {DYNAMIC, PARTIAL} \cap (Values \cup Names \cup {NotACommandName}) = {}

VARIABLES
    rule, script,
    security,        \* ctx.security.uncertaintyDecision
    next,            \* the index of the item examined next
    sawUncertain,
    result           \* what evaluate returns, Pending before it

vars == <<rule, script, security, next, sawUncertain, result>>

Pending == [kind |-> "none", from |-> "pending"]
Silent == [kind |-> "none", from |-> "silence"]
Failed == [kind |-> "none", from |-> "error"]   \* evaluate has thrown

Terminals == {"deny", "ask"}
Annotations == {"warning", "note"}

EscalateUncertainBug(decision) ==   \* the knob's allow becomes a decision
    IF decision \in Terminals
      THEN [kind |-> security, from |-> "uncertainty"]
      ELSE Silent

(* escalateUncertain                                                       *)
EscalateUncertain(decision) ==
    IF decision \in Terminals /\ security # "allow"
      THEN [kind |-> security, from |-> "uncertainty"]
      ELSE Silent

----------------------------------------------------------------------------
(* Three-state answers *)

SetOf(s) == {s[i] : i \in DOMAIN s}

Three(certain, possible) ==
    IF certain THEN "match" ELSE IF possible THEN "uncertain" ELSE "no-match"

(* AND: no-match dominates, then uncertain.                                *)
CombineStates(states) ==
    Three(states \subseteq {"match"}, states \subseteq {"match", "uncertain"})

(* OR: a match returns at once, a dynamic value is remembered.             *)
AnyState(states) == Three("match" \in states, "uncertain" \in states)

WordsStateEager(words, pattern) ==   \* dynamic words match
    Three(words \cap (pattern \cup {DYNAMIC}) # {}, FALSE)

WordsStateBug(words, pattern) ==   \* dynamic words cannot match
    Three((words \ {DYNAMIC}) \cap pattern # {}, FALSE)

(* Some resolved word, or failing that some dynamic word, may satisfy it.  *)
WordsState(words, pattern) ==
    Three((words \ {DYNAMIC}) \cap pattern # {}, DYNAMIC \in words)

----------------------------------------------------------------------------
(* The tables of commands are plain objects: under one of these names they *)
(* hold what every object inherits, which cannot be iterated over.         *)
ObjectMembers ==
    {"constructor", "hasOwnProperty", "isPrototypeOf", "propertyIsEnumerable", "toLocaleString",
     "toString", "valueOf", "__proto__", "__defineGetter__", "__defineSetter__",
     "__lookupGetter__", "__lookupSetter__"}

----------------------------------------------------------------------------
(* Flags: a pair of name and value, "" without one *)

Bare(names) == {<<n, "">> : n \in names}

Aliases(command) ==
    CASE command \in {"rm", "cp"} ->
           {Bare({"-r", "-R", "--recursive"}), Bare({"-f", "--force"})}
      [] command \in {"git", "mv", "ln"} -> {Bare({"-f", "--force"})}
      [] command \in {"chmod", "chown", "chgrp"} -> {Bare({"-R", "--recursive"})}
      [] OTHER -> {}

Expansions(command, flag) ==
    CASE command = "git" /\ flag = <<"-D", "">> -> Bare({"--delete", "--force"})
      [] command = "git" /\ flag = <<"-d", "">> -> Bare({"--delete"})
      [] OTHER -> {}

(* addAliasGroups looks at the groups of the command flag by flag.         *)
ExpandThrows(call) == call.name \in ObjectMembers /\ call.flags # {}

ExpandFlagsBug(flags, command) ==   \* aliases are not expanded
    flags \cup UNION {Expansions(command, f) : f \in flags}

ExpandFlags(flags, command) ==
    flags \cup UNION {g \in Aliases(command) : g \cap flags # {}}
          \cup UNION {Expansions(command, f) : f \in flags}

(* f === wanted || f.startsWith(wanted + "=")                              *)
HasFlag(expanded, wanted) ==
    \/ wanted \in expanded
    \/ wanted[2] = "" /\ \E f \in expanded : f[1] = wanted[1]

----------------------------------------------------------------------------
(* cmd() *)

(* cmd(command, ...sub) before its chained calls, each of which adds to a  *)
(* field: withFlag, withoutFlag, requireOneOf, argMatches, argIncludes,    *)
(* withDdash, flagValue*.  A command given as a path is matched as typed.  *)
CmdRule(command, sub, isPath, decision) ==
    [builder |-> "cmd", decision |-> decision, command |-> command, sub |-> sub, flags |-> {},
     noFlags |-> {}, anyOf |-> {}, patterns |-> {}, includes |-> {}, ddash |-> FALSE,
     strictPath |-> isPath, predicates |-> {}]

(* unwrappedName: the name as typed under strictPath, else its basename;   *)
(* the wrapper's when what it wraps is a script or is dynamic.             *)
UnwrappedName(call, strictPath) == IF strictPath THEN call.typed ELSE call.name

ArgMatchesState(args, patterns) ==
    CombineStates({WordsState(SetOf(args), p) : p \in patterns})

FlagValueState(predicate, tokens) ==
    IF predicate.kind = "dynamic" THEN Three(DYNAMIC \in tokens, FALSE)
    ELSE WordsState(IF predicate.skip THEN tokens \ {DYNAMIC} ELSE tokens, predicate.test)

FlagValuesState(predicates, call) ==
    CombineStates({FlagValueState(p, call.values[p.flag]) : p \in predicates})

(* The rule's command and subcommands, which are looked at first.          *)
IsCalled(r, call) ==
    /\ UnwrappedName(call, r.strictPath) = r.command
    /\ \A i \in DOMAIN r.sub : i \in DOMAIN call.args /\ call.args[i] = r.sub[i]

(* The gates every call passes before its values are looked at.            *)
PassesGates(r, call) ==
    LET expanded == ExpandFlags(call.flags, call.name) IN
    /\ IsCalled(r, call)
    /\ \A f \in r.flags : HasFlag(expanded, f)
    /\ \A f \in r.noFlags : ~HasFlag(expanded, f)
    /\ \A group \in r.anyOf : \E f \in group : HasFlag(expanded, f)
    /\ r.includes \subseteq SetOf(call.args)
    /\ r.ddash => call.ddash

(* "word": unwrapCall is null, the command word itself is dynamic.         *)
CmdState(r, call) ==
    IF call.kind = "dynamic" THEN "word"
    ELSE IF IsCalled(r, call) /\ ExpandThrows(call) THEN "error"
    ELSE IF ~PassesGates(r, call) THEN "no-match"
    ELSE CombineStates({ArgMatchesState(call.args, r.patterns),
                        FlagValuesState(r.predicates, call)})

----------------------------------------------------------------------------
(* allowOnly(), pipe(), redirect(), path() *)

(* scanAllowlist                                                           *)
AllowState(r, call) ==
    IF call.kind \in {"dynamic", "opaque"} THEN "uncertain"
    ELSE Three(call.name \notin r.allowed, FALSE)

(* stmtToCmdName                                                           *)
StageName(stage) ==
    CASE stage.kind = "none" -> NotACommandName
      [] stage.kind = "dynamic" -> DYNAMIC
      [] OTHER -> UnwrappedName(stage, FALSE)

(* classifyPipeStage                                                       *)
PipeState(r, pipe) ==
    CombineStates({WordsState({StageName(pipe.x)}, r.sources),
                   WordsState({StageName(pipe.y)}, r.sinks)})

RedirectState(r, redirect) ==
    IF r.any THEN "match" ELSE WordsState({redirect.target}, r.pattern)

WriteTools == {"Write", "Edit", "NotebookEdit"}
ReadTools == {"Read"}

(* extractFilePath, "" when the event has none.                            *)
FilePath(event) ==
    LET present == {i \in DOMAIN event.paths : event.paths[i] # ""} IN
    IF present = {} THEN ""
    ELSE event.paths[CHOOSE i \in present : \A j \in present : i <= j]

PathState(r, event) ==
    LET tools == CASE r.mode = "write" -> WriteTools
                   [] r.mode = "read"  -> ReadTools
                   [] r.mode = "both"  -> WriteTools \cup ReadTools
    IN Three(event.tool \in tools /\ FilePath(event) # "" /\ FilePath(event) \in r.pattern, FALSE)

----------------------------------------------------------------------------
(* protectPath() *)

ModeIncludes(mode, role) == mode \in {"both", role}

Selector(role, slot) == [role |-> role, slot |-> slot]

FileCommands(name) ==
    CASE name \in {"cp", "install", "ln"} ->
           {Selector("read", "allButLast"), Selector("write", "last")}
      [] name = "mv" ->
           {Selector("read", "allButLast"), Selector("write", "allButLast"), Selector("write", "last")}
      [] name \in {"tee", "rm"} -> {Selector("write", "all")}
      [] name = "cat" -> {Selector("read", "all")}
      [] name = "dd" -> {Selector("read", "if="), Selector("write", "of=")}
      [] OTHER -> {}

PrefixCandidatesBug(call, prefix) ==   \* any dynamic operand is a candidate
    {o.value : o \in {p \in call.operands : /\ call.kind \in {"plain", "wrapped"}
                                             /\ (p.prefix = prefix \/ p.value = DYNAMIC)
                                             /\ p.value # PARTIAL}}

(* prefixCandidates: of the operands <prefix>value of a resolved call.     *)
PrefixCandidates(call, prefix) ==
    {o.value : o \in {p \in call.operands : /\ call.kind \in {"plain", "wrapped"}
                                             /\ p.prefix = prefix
                                             /\ p.value # PARTIAL}}

TargetDirValues(call) ==
    call.values["-t"] \cup PrefixCandidates(call, "--target-directory=")

SelectorsFor(call) ==
    IF call.name \in {"cp", "mv", "install"} /\ TargetDirValues(call) # {}
      THEN {Selector("write", "targetDir"), Selector("read", "all")}
      ELSE FileCommands(call.name)

SelectorCandidates(call, slot) ==
    CASE slot = "all" -> SetOf(call.args)
      [] slot = "last" -> {call.args[i] : i \in DOMAIN call.args \cap {Len(call.args)}}
      [] slot = "allButLast" -> {call.args[i] : i \in DOMAIN call.args \ {Len(call.args)}}
      [] slot = "targetDir" -> TargetDirValues(call)
      [] OTHER -> PrefixCandidates(call, slot)

(* scanCall                                                                *)
CallPathState(r, call) ==
    AnyState({WordsState(SelectorCandidates(call, s.slot), r.pattern) :
                s \in {t \in SelectorsFor(call) : ModeIncludes(r.mode, t.role)}})

(* scanRedirects and scanCommands; a dynamic command word is skipped, and  *)
(* FILE_COMMANDS holds no selectors, but something, under ObjectMembers.   *)
ProtectState(r, item) ==
    CASE item.is = "redirect" -> WordsState({item.target}, r.pattern)
      [] item.is = "call" /\ item.kind = "dynamic" -> "no-match"
      [] item.is = "call" /\ item.kind # "dynamic" /\ item.name \in ObjectMembers -> "error"
      [] OTHER -> CallPathState(r, item)

----------------------------------------------------------------------------
(* evaluate: the builders' loops are alike, each over its own items *)

(* The redirects protectPath looks at, those that read first.              *)
ProtectedRedirects(r, s) ==
    (IF ModeIncludes(r.mode, "read") THEN s.redirects["read"] ELSE << >>)
      \o (IF ModeIncludes(r.mode, "write") THEN s.redirects["write"] ELSE << >>)

(* What the builder's evaluate walks over, in its order.                   *)
ItemsOf(r, s) ==
    CASE r.builder \in {"cmd", "allowOnly"} -> s.calls
      [] r.builder = "pipe" -> s.pipes
      [] r.builder = "redirect" -> s.redirects["write"]
      [] r.builder = "path" -> <<s.event>>
      [] r.builder = "protectPath" -> ProtectedRedirects(r, s) \o s.calls

State(r, item) ==
    CASE r.builder = "cmd" -> CmdState(r, item)
      [] r.builder = "allowOnly" -> AllowState(r, item)
      [] r.builder = "pipe" -> PipeState(r, item)
      [] r.builder = "redirect" -> RedirectState(r, item)
      [] r.builder = "path" -> PathState(r, item)
      [] r.builder = "protectPath" -> ProtectState(r, item)

(* The items a builder is given are of the kind it inspects.               *)
WellFormed(r, item) ==
    /\ item.is = CASE r.builder \in {"cmd", "allowOnly"} -> "call"
                   [] r.builder = "pipe" -> "pipe"
                   [] r.builder = "redirect" -> "redirect"
                   [] r.builder = "path" -> "event"
                   [] r.builder = "protectPath" -> IF item.is = "call" THEN "call" ELSE "redirect"
    /\ item.is = "call" => item.args \in Seq(Values \cup {DYNAMIC}) /\ "-t" \in DOMAIN item.values
    /\ item.is = "call" => \A f \in item.flags : f = <<f[1], f[2]>>
    /\ item.is = "call" => (item.kind = "opaque" =>   \* a wrapper
                             FileCommands(item.name) = {} /\ item.name \notin ObjectMembers)
    /\ item.is = "pipe" => \A stage \in {item.x, item.y} : stage.kind # "none" =>
                             stage.args \in Seq(Values \cup {DYNAMIC}) /\ stage.name # DYNAMIC
    /\ r.builder = "cmd" => /\ DOMAIN CmdRule("", << >>, FALSE, "") \subseteq DOMAIN r
                            /\ \A p \in r.predicates : p.flag \in DOMAIN item.values

Builders == {"cmd", "allowOnly", "pipe", "redirect", "path", "protectPath"}

ASSUME MatchersInputs ==
    \A r \in Rules : \A s \in Scripts[r.builder] :
        LET items == ItemsOf(r, s) IN
        /\ r.builder \in Builders
        /\ items \in Seq({items[i] : i \in DOMAIN items})
        /\ \A i \in DOMAIN items : WellFormed(r, items[i])

Items == ItemsOf(rule, script)
Answer(i) == State(rule, Items[i])
Own == [kind |-> rule.decision, from |-> "rule"]

TypeOK ==
    /\ rule \in Rules /\ script \in Scripts[rule.builder]
    /\ security \in {"ask", "deny", "allow"}
    /\ next \in 1 .. Len(Items) + 1
    /\ sawUncertain \in BOOLEAN
    /\ result \in {Pending, Silent, Failed, Own} \cup [kind : Terminals, from : {"uncertainty"}]

Init ==
    /\ rule \in Rules /\ script \in Scripts[rule.builder]
    /\ security \in {"ask", "deny", "allow"}
    /\ next = 1 /\ sawUncertain = FALSE
    /\ result = Pending

Running == result = Pending /\ (script.ast \/ rule.builder = "path")
Examining == Running /\ next <= Len(Items)

(* getBashAst() is null: the rule has nothing to say.                      *)
NoAst ==
    /\ result = Pending /\ ~script.ast /\ rule.builder # "path"
    /\ result' = Silent
    /\ UNCHANGED <<rule, script, security, next, sawUncertain>>

Fire ==
    /\ Examining /\ Answer(next) = "match"
    /\ result' = Own
    /\ UNCHANGED <<rule, script, security, next, sawUncertain>>

(* evaluate rejects; the engine notes the error and goes on to the next    *)
(* rule.                                                                   *)
Throw ==
    /\ Examining /\ Answer(next) = "error"
    /\ result' = Failed
    /\ UNCHANGED <<rule, script, security, next, sawUncertain>>

(* SA-01: a dynamic command word ends a terminal rule's evaluation.        *)
EscalateWord ==
    /\ Examining /\ Answer(next) = "word"
    /\ EscalateUncertain(rule.decision) # Silent
    /\ result' = EscalateUncertain(rule.decision)
    /\ UNCHANGED <<rule, script, security, next, sawUncertain>>

Skip ==
    /\ Examining
    /\ \/ Answer(next) = "no-match"
       \/ Answer(next) = "word" /\ EscalateUncertain(rule.decision) = Silent
    /\ next' = next + 1
    /\ UNCHANGED <<rule, script, security, sawUncertain, result>>

DoubtBug ==   \* escalates before the later items are seen
    /\ Examining /\ Answer(next) = "uncertain"
    /\ result' = EscalateUncertain(rule.decision)
    /\ UNCHANGED <<rule, script, security, next, sawUncertain>>

Doubt ==
    /\ Examining /\ Answer(next) = "uncertain"
    /\ next' = next + 1
    /\ sawUncertain' = TRUE
    /\ UNCHANGED <<rule, script, security, result>>

Finish ==
    /\ Running /\ next > Len(Items)
    /\ result' = IF sawUncertain THEN EscalateUncertain(rule.decision) ELSE Silent
    /\ UNCHANGED <<rule, script, security, next, sawUncertain>>

Next == NoAst \/ Fire \/ Throw \/ EscalateWord \/ Skip \/ Doubt \/ Finish

Spec == Init /\ [][Next]_vars

----------------------------------------------------------------------------
(* What the answers promise.  Runs(item) are the items an item may turn    *)
(* out to be when the shell fills in its dynamic words: a word is replaced *)
(* by one word, so neither flags nor further arguments come out of it.     *)

FillSeq(s) ==
    {t \in [DOMAIN s -> Values] : \A i \in DOMAIN s : s[i] # DYNAMIC => t[i] = s[i]}

Fill(words) ==
    IF DYNAMIC \in words THEN {(words \ {DYNAMIC}) \cup {v} : v \in Values} ELSE {words}

FillValues(values) ==
    {[f \in DOMAIN values |-> IF DYNAMIC \in values[f]
                               THEN (values[f] \ {DYNAMIC}) \cup {choice[f]} ELSE values[f]] :
       choice \in [DOMAIN values -> Values]}

FillOperands(operands) ==
    {{[prefix |-> o.prefix, value |-> IF o.value \in {DYNAMIC, PARTIAL} THEN v ELSE o.value] :
        o \in operands} : v \in Values}

Unknown(call) == call.kind \in {"dynamic", "opaque"}

RunsOfCall(call) ==
    {[is |-> "call", kind |-> IF Unknown(call) THEN "plain" ELSE call.kind, name |-> n,
      typed |-> IF Unknown(call) THEN n ELSE call.typed, flags |-> call.flags,
      ddash |-> call.ddash, args |-> a, values |-> v, operands |-> o] :
        n \in IF Unknown(call) THEN Names ELSE {call.name},
        a \in FillSeq(call.args), v \in FillValues(call.values), o \in FillOperands(call.operands)}

RunsOfStage(stage) == IF stage.kind = "none" THEN {stage} ELSE RunsOfCall(stage)

Runs(item) ==
    CASE item.is = "call" -> RunsOfCall(item)
      [] item.is = "pipe" -> {[is |-> "pipe", x |-> x, y |-> y] :
                                x \in RunsOfStage(item.x), y \in RunsOfStage(item.y)}
      [] item.is = "redirect" -> {[is |-> "redirect", target |-> t] :
                                    t \in IF item.target = DYNAMIC THEN Values ELSE {item.target}}
      [] item.is = "event" -> {item}

(* The matcher answers uncertain, and not no-match, for what it sees here  *)
(* and cannot resolve.  Outside of it the code answers no-match: a dynamic *)
(* subcommand, argIncludes with a dynamic argument, onDynamic: "skip", a   *)
(* wrapper whose command is dynamic, a partly literal operand.             *)
Visible(r, item) ==
    CASE r.builder = "cmd" ->
           /\ item.kind # "opaque"
           /\ \A i \in DOMAIN r.sub \cap DOMAIN item.args : item.args[i] # DYNAMIC
           /\ DYNAMIC \in SetOf(item.args) => r.includes = {}
           /\ \A p \in r.predicates : ~p.skip
      [] r.builder = "pipe" -> item.x.kind # "opaque" /\ item.y.kind # "opaque"
      [] r.builder = "protectPath" /\ item.is = "call" ->
           /\ item.kind \notin {"dynamic", "opaque"}
           /\ \A o \in item.operands : o.value # PARTIAL
      [] OTHER -> TRUE

Gate == rule.decision \in Terminals /\ security # "allow" /\ script.ast

(* The promise of the uncertainty path (core/security.ts: a dynamic value  *)
(* escalates and is not a silent allow): when a deny or ask rule stays     *)
(* silent, no value the shell may put into the words it could see makes it *)
(* match.                                                                  *)
SilenceIsCertain ==
    result = Silent /\ Gate =>
        \A i \in DOMAIN Items : Visible(rule, Items[i]) =>
            \A run \in Runs(Items[i]) : State(rule, run) # "match"

(* A rule gives its own decision only for an item that matches whatever    *)
(* the shell fills in; flagValueDynamic, which fires on the dynamic value  *)
(* itself, is not meant.                                                   *)
MatchIsCertain ==
    result = Own /\ Visible(rule, Items[next]) =>
        \/ rule.builder = "cmd" /\ \E p \in rule.predicates : p.kind = "dynamic"
        \/ \A run \in Runs(Items[next]) : State(rule, run) = "match"

(* At most one constraint on values: two may each be open and yet exclude  *)
(* each other.                                                             *)
OneConstraint ==
    rule.builder = "cmd" =>
        /\ rule.patterns = {} \/ rule.predicates = {}
        /\ \A p, q \in rule.patterns : p = q
        /\ \A p, q \in rule.predicates : p = q

(* Some value satisfies what the rule asks of a dynamic word.  A rule for a *)
(* wrapper itself looks at no values: `sudo $X $Y` is a call of $X once it  *)
(* is known, and no longer one of sudo.                                     *)
CanMatch(r, item) ==
    CASE r.builder = "cmd" ->
           /\ DYNAMIC \notin r.includes \cup SetOf(r.sub)
           /\ \A p \in r.patterns : p \cap Values # {}
           /\ \A p \in r.predicates : p.kind # "dynamic" => p.test \cap Values # {}
           /\ item.kind = "opaque" /\ UnwrappedName(item, r.strictPath) = r.command =>
                 r.patterns = {} /\ r.predicates = {}
      [] r.builder = "allowOnly" -> Values # {} /\ ~(Names \subseteq r.allowed)
      [] r.builder = "pipe" ->
           Values # {} /\ r.sources \cap Names # {} /\ r.sinks \cap Names # {}
      [] r.builder = "redirect" -> r.any \/ r.pattern \cap Values # {}
      [] r.builder = "path" -> TRUE
      [] r.builder = "protectPath" -> r.pattern \cap Values # {}

RulesCanMatch ==
    \A r \in Rules : \A s \in Scripts[r.builder] :
        \A i \in DOMAIN ItemsOf(r, s) : CanMatch(r, ItemsOf(r, s)[i])

(* An unrelated dynamic word never costs an ask (protect-path.ts, `dd      *)
(* bs=$N of=/tmp/x`): some value of the dynamic words would have matched.  *)
(* A dynamic command word escalates whatever follows it and is not meant.  *)
(* A warning or a note is never promoted to a gate.                        *)
DoubtIsReal ==
    result.from = "uncertainty" /\ OneConstraint =>
        /\ rule.decision \in Terminals
        /\ \E i \in DOMAIN Items :
              \/ Answer(i) = "word"
              \/ \E run \in Runs(Items[i]) : State(rule, run) = "match"

(* A match anywhere in the script decides, wherever an uncertain item      *)
(* stands (redirect.ts: a resolved sibling that matches still wins) - but  *)
(* not after a dynamic command word, which replaces it by the escalation,  *)
(* and not after a call that makes the rule throw.                         *)
DefiniteMatchWins ==
    result # Pending /\ script.ast =>
        \A i \in DOMAIN Items :
            Answer(i) = "match" =>
                \/ result = Own
                \/ \E j \in 1 .. i - 1 : Answer(j) = IF result = Failed THEN "error" ELSE "word"

Swapped(r, f, g) ==
    LET swap(flags) == {IF h = f THEN g ELSE h : h \in flags} IN
    [r EXCEPT !.flags = swap(@), !.noFlags = swap(@), !.anyOf = {swap(h) : h \in @}]

(* helpers.ts: "matching one matches the rest".  A rule may be written with *)
(* any flag of a group of aliases.  Flags that carry a value and the short  *)
(* flags of the directional table are left out: `git branch -D` matches     *)
(* withFlag("--force") and not withFlag("-f").                              *)
AliasesAreInterchangeable ==
    rule.builder = "cmd" =>
        \A i \in DOMAIN Items :
            (\A f \in Items[i].flags : f[2] = "" /\ Expansions(Items[i].name, f) = {}) =>
                \A group \in Aliases(Items[i].name) : \A f, g \in group :
                    State(Swapped(rule, f, g), Items[i]) = Answer(i)

(* protect-path.ts says of mv: the move destroys the original, "so a       *)
(* write-mode rule must catch it too".                                     *)
MovedSourceIsCaught ==
    result = Silent /\ script.ast /\ rule.builder = "protectPath" /\ rule.mode # "read" =>
        \A i \in DOMAIN script.calls :
            LET call == script.calls[i]
                last == IF TargetDirValues(call) = {} THEN {Len(call.args)} ELSE {}
            IN call.kind \in {"plain", "wrapped"} /\ call.name = "mv" =>
                 \A j \in DOMAIN call.args \ last : call.args[j] \notin rule.pattern

============================================================================
