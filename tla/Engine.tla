------------------------------- MODULE Engine ------------------------------
(***************************************************************************)
(* evaluateInternal: one hook event through all rules, then through the    *)
(* scripts hidden in inline shells, by recursion.  A frame is one call of  *)
(* evaluateInternal; frames[0] is the command the harness wants to run.    *)
(*                                                                         *)
(* Rules, the parser, the unwrapper, the state store and the observers are *)
(* the environment: each may do anything its caller is prepared for.  A    *)
(* decision is its kind and the position at which it was emitted, an error *)
(* annotation is counted, a warning or note is its position.               *)
(***************************************************************************)
EXTENDS Naturals, Sequences

CONSTANTS
    MAX_RECURSE_DEPTH,
    Policies,      \* the EvaluateOptions under which the engine runs
    MaxRules,      \* bound: rules that apply to one frame
    MaxCalls,      \* bound: calls with an inline shell in one script
    Observers      \* the number of observers, each may throw

Kinds == {"deny", "ask", "allow"}
Policy == [uncertaintyDecision : Kinds, onUnparsable : Kinds, onDepthExceeded : Kinds,
           onEngineUnavailable : {"deny-all", "allow-all"}, recurse : BOOLEAN]

ASSUME EngineConstants ==
    /\ MAX_RECURSE_DEPTH \in Nat /\ MaxRules \in Nat /\ MaxCalls \in Nat /\ Observers \in Nat
    /\ Policies \subseteq Policy

VARIABLES
    policy,      \* options of this evaluation (recurse: and the tool is Bash)
    frames,      \* frames[d]: the call of evaluateInternal at depth d
    top,         \* the depth of the innermost call
    emitted,     \* history: terminals emitted so far, by rules or the engine
    firstAsk,    \* history: the position of the first ask, 0 before it
    denial,      \* history: the position of the deny, 0 before it
    noted,       \* history: warnings and notes emitted so far
    raised,      \* history: errors that occurred so far
    dead,        \* history: the shell-AST engine has failed under deny-all
    limited      \* history: a script has been returned at the depth limit

history == <<emitted, firstAsk, denial, noted, raised, dead>>
vars == <<policy, limited, frames, top, history>>

Depths == 0 .. MAX_RECURSE_DEPTH

NoTerminal == [kind |-> "none", at |-> 0]
Terminal == [kind : {"none", "ask", "deny"}, at : Nat]

Frame == [pc : {"rules", "inspect", "calls", "final", "returned"},
          rules : 0 .. MaxRules, calls : 0 .. MaxCalls,
          parse : {"none", "ast", "empty", "unparsable", "unavailable", "unexpected"},
          ctxErrors : Nat, terminal : Terminal, errors : Nat, notes : Seq(Nat)]

NewFrame == [pc |-> "rules", rules |-> 0, calls |-> 0, parse |-> "none",
             ctxErrors |-> 0, terminal |-> NoTerminal, errors |-> 0, notes |-> << >>]

TypeOK ==
    /\ policy \in Policies
    /\ top \in Depths
    /\ frames \in [Depths -> Frame]
    /\ emitted \in Nat /\ firstAsk \in Nat /\ denial \in Nat
    /\ noted \in Nat /\ raised \in Nat /\ dead \in BOOLEAN /\ limited \in BOOLEAN

Init ==
    /\ policy \in Policies
    /\ top = 0
    /\ frames = [d \in Depths |-> NewFrame]
    /\ emitted = 0 /\ firstAsk = 0 /\ denial = 0
    /\ noted = 0 /\ raised = 0 /\ dead = FALSE /\ limited = FALSE

----------------------------------------------------------------------------
(* Emitting *)

F == frames[top]
Becomes(frame) == frames' = [frames EXCEPT ![top] = frame]

(* The terminal this step emits, and its record in the history.            *)
Emission(kind) == [kind |-> kind, at |-> emitted + 1]

Emit(kind) ==
    /\ emitted' = emitted + 1
    /\ firstAsk' = IF kind = "ask" /\ firstAsk = 0 THEN emitted + 1 ELSE firstAsk
    /\ denial' = IF kind = "deny" THEN emitted + 1 ELSE denial

EmitNothing == UNCHANGED <<emitted, firstAsk, denial>>

(* terminal ??= t                                                          *)
OrElse(terminal, t) == IF terminal.kind = "none" THEN t ELSE terminal

(* notifyObservers: each observer that throws adds an error annotation.    *)
Thrown == 0 .. Observers

(* drainContextErrors and flushState before an exit: the errors captured   *)
(* while parsing, one more when flush() rejects, and what observers throw  *)
(* when they are notified of each.                                         *)
ExitErrors == F.ctxErrors .. (F.ctxErrors + 1) * (1 + Observers)

(* return {terminal, annotations}, n errors later.                         *)
Return(terminal, n) ==
    Becomes([F EXCEPT !.pc = "returned", !.terminal = terminal,
                      !.errors = @ + n, !.ctxErrors = 0])

(* return {terminal: deny, annotations: keepOnlyErrors(annotations)}       *)
ReturnDeny(terminal, n) ==
    Becomes([F EXCEPT !.pc = "returned", !.terminal = terminal,
                      !.errors = @ + n, !.ctxErrors = 0, !.notes = << >>])

----------------------------------------------------------------------------
(* The rules *)

(* ctx.getBashAst(): the first caller parses, the result is kept.  A dead  *)
(* engine and an unexpected throw leave an error with the context.         *)
ParseCommand ==
    /\ F.parse = "none"
    /\ \/ F.pc = "inspect"
       \/ F.pc = "rules" /\ F.rules < MaxRules
    /\ \E p \in {"ast", "empty", "unparsable", "unavailable", "unexpected"} :
          LET failed == IF p \in {"unavailable", "unexpected"} THEN 1 ELSE 0 IN
          /\ Becomes([F EXCEPT !.parse = p, !.ctxErrors = failed])
          /\ raised' = raised + failed
          /\ dead' = (dead \/ (p = "unavailable" /\ policy.onEngineUnavailable = "deny-all"))
    /\ UNCHANGED <<policy, limited, top, emitted, firstAsk, denial, noted>>

RuleReady == F.pc = "rules" /\ F.rules < MaxRules

RuleIsSilent ==
    /\ RuleReady
    /\ Becomes([F EXCEPT !.rules = @ + 1])
    /\ UNCHANGED <<policy, limited, top, history>>

RuleThrows ==
    /\ RuleReady
    /\ \E k \in Thrown :
          /\ Becomes([F EXCEPT !.rules = @ + 1, !.errors = @ + 1 + k])
          /\ raised' = raised + 1 + k
    /\ UNCHANGED <<policy, limited, top, emitted, firstAsk, denial, noted, dead>>

RuleDeniesBug ==   \* leaves the context's errors behind
    /\ RuleReady
    /\ \E k \in Thrown :
          /\ ReturnDeny(Emission("deny"), k)
          /\ raised' = raised + k
    /\ Emit("deny")
    /\ UNCHANGED <<policy, limited, top, noted, dead>>

RuleDenies ==
    /\ RuleReady
    /\ \E k \in Thrown, e \in ExitErrors :
          /\ ReturnDeny(Emission("deny"), k + e)
          /\ raised' = raised + k + e - F.ctxErrors
    /\ Emit("deny")
    /\ UNCHANGED <<policy, limited, top, noted, dead>>

RuleAsks ==
    /\ RuleReady
    /\ \E k \in Thrown :
          /\ Becomes([F EXCEPT !.rules = @ + 1, !.errors = @ + k,
                               !.terminal = OrElse(@, Emission("ask"))])
          /\ raised' = raised + k
    /\ Emit("ask")
    /\ UNCHANGED <<policy, limited, top, noted, dead>>

(* A warning or a note.                                                    *)
RuleAnnotates ==
    /\ RuleReady
    /\ \E k \in Thrown :
          /\ Becomes([F EXCEPT !.rules = @ + 1, !.errors = @ + k,
                               !.notes = Append(@, noted + 1)])
          /\ raised' = raised + k
    /\ noted' = noted + 1
    /\ UNCHANGED <<policy, limited, top, emitted, firstAsk, denial, dead>>

EndOfRulesBug ==   \* the depth limit is seen one level too late
    /\ F.pc = "rules"
    /\ policy.recurse => top <= MAX_RECURSE_DEPTH
    /\ Becomes([F EXCEPT !.pc = IF policy.recurse THEN "inspect" ELSE "final"])
    /\ UNCHANGED <<policy, limited, top, history>>

(* The module loop ends; are inline shells to be looked into?              *)
EndOfRules ==
    /\ F.pc = "rules"
    /\ policy.recurse => top < MAX_RECURSE_DEPTH
    /\ Becomes([F EXCEPT !.pc = IF policy.recurse THEN "inspect" ELSE "final"])
    /\ UNCHANGED <<policy, limited, top, history>>

----------------------------------------------------------------------------
(* Inline shells *)

(* depth >= MAX_RECURSE_DEPTH: return {terminal: esc ?? terminal}.         *)
DepthExceeded ==
    LET esc == policy.onDepthExceeded IN
    /\ F.pc = "rules" /\ policy.recurse /\ top = MAX_RECURSE_DEPTH
    /\ \E e \in ExitErrors, k \in Thrown :
          /\ esc = "allow" => k = 0
          /\ CASE esc = "deny"  -> ReturnDeny(Emission("deny"), e + k) /\ Emit("deny")
               [] esc = "ask"   -> Return(Emission("ask"), e + k) /\ Emit("ask")
               [] esc = "allow" -> Return(F.terminal, e) /\ EmitNothing
          /\ raised' = raised + k + e - F.ctxErrors
    /\ limited' = TRUE
    /\ UNCHANGED <<policy, top, noted, dead>>

(* findCalls(ast), or no AST and nothing to look into.                     *)
Inspect ==
    /\ F.pc = "inspect" /\ F.parse # "none"
    /\ Becomes([F EXCEPT !.pc = IF F.parse = "ast" THEN "calls" ELSE "final"])
    /\ UNCHANGED <<policy, limited, top, history>>

CallReady == F.pc = "calls" /\ F.calls < MaxCalls

(* unwrapDeepParsed throws.  A dead engine denies, anything else skips the *)
(* call; a ParseSyntaxError does so without an annotation.                 *)
UnwrapFails ==
    /\ CallReady
    /\ \/ /\ policy.onEngineUnavailable = "deny-all"
          /\ \E k \in Thrown, j \in Thrown, e \in 0 .. 1 + Observers :
                /\ ReturnDeny(Emission("deny"), 1 + k + j + e)
                /\ raised' = raised + 1 + k + j + e
          /\ Emit("deny") /\ dead' = TRUE
       \/ /\ \E k \in Thrown :
                /\ Becomes([F EXCEPT !.calls = @ + 1, !.errors = @ + 1 + k])
                /\ raised' = raised + 1 + k
          /\ EmitNothing /\ UNCHANGED dead
       \/ /\ Becomes([F EXCEPT !.calls = @ + 1])
          /\ EmitNothing /\ UNCHANGED <<raised, dead>>
    /\ UNCHANGED <<policy, limited, top, noted>>

OpaqueShellBug ==   \* the later ask replaces the first
    /\ CallReady /\ policy.uncertaintyDecision = "ask"
    /\ Becomes([F EXCEPT !.calls = @ + 1, !.terminal = Emission("ask")])
    /\ Emit("ask")
    /\ UNCHANGED <<policy, limited, top, noted, raised, dead>>

(* eval "$X": the body cannot be inspected.                                *)
OpaqueShell ==
    LET esc == policy.uncertaintyDecision IN
    /\ CallReady
    /\ \E k \in Thrown, e \in ExitErrors :
          CASE esc = "deny" ->
                 /\ ReturnDeny(Emission("deny"), k + e) /\ Emit("deny")
                 /\ raised' = raised + k + e - F.ctxErrors
            [] esc = "ask" ->
                 /\ Becomes([F EXCEPT !.calls = @ + 1, !.errors = @ + k,
                                      !.terminal = OrElse(@, Emission("ask"))])
                 /\ Emit("ask") /\ raised' = raised + k
            [] esc = "allow" ->
                 /\ Becomes([F EXCEPT !.calls = @ + 1])
                 /\ EmitNothing /\ UNCHANGED raised
    /\ UNCHANGED <<policy, limited, top, noted, dead>>

(* bash -c '...': evaluateInternal on the script.                          *)
InlineScript ==
    /\ CallReady
    /\ top' = top + 1
    /\ frames' = [frames EXCEPT ![top].calls = @ + 1, ![top + 1] = NewFrame]
    /\ UNCHANGED <<policy, limited, history>>

(* ... has returned: its deny is returned, its ask and its annotations are *)
(* adopted.                                                                *)
Outer == frames[top - 1]

ResumeDeniedBug ==   \* an ask of the outer script outranks the inner deny
    /\ top > 0 /\ F.pc = "returned" /\ F.terminal.kind = "deny"
    /\ frames' = [frames EXCEPT ![top] = NewFrame,
                    ![top - 1] = [Outer EXCEPT !.pc = "returned", !.terminal = OrElse(@, F.terminal),
                                           !.errors = @ + F.errors, !.notes = << >>]]
    /\ top' = top - 1
    /\ UNCHANGED <<policy, limited, history>>

ResumeDenied ==
    /\ top > 0 /\ F.pc = "returned" /\ F.terminal.kind = "deny"
    /\ \E e \in 0 .. 1 + Observers :
          /\ frames' = [frames EXCEPT ![top] = NewFrame,
                          ![top - 1] = [Outer EXCEPT !.pc = "returned", !.terminal = F.terminal,
                                                 !.errors = @ + F.errors + e, !.notes = << >>]]
          /\ raised' = raised + e
    /\ top' = top - 1
    /\ UNCHANGED <<policy, limited, emitted, firstAsk, denial, noted, dead>>

ResumeBug ==   \* adopts the inner outcome, whatever it is
    /\ top > 0 /\ F.pc = "returned" /\ F.terminal.kind # "deny"
    /\ frames' = [frames EXCEPT ![top] = NewFrame,
                    ![top - 1] = [Outer EXCEPT !.terminal = F.terminal, !.errors = @ + F.errors,
                                           !.notes = @ \o F.notes]]
    /\ top' = top - 1
    /\ UNCHANGED <<policy, limited, history>>

ResumeOrderBug ==   \* prepends the inner annotations
    /\ top > 0 /\ F.pc = "returned" /\ F.terminal.kind # "deny"
    /\ frames' = [frames EXCEPT ![top] = NewFrame,
                    ![top - 1] = [Outer EXCEPT !.terminal = OrElse(@, F.terminal),
                                           !.errors = @ + F.errors, !.notes = F.notes \o @]]
    /\ top' = top - 1
    /\ UNCHANGED <<policy, limited, history>>

Resume ==
    /\ top > 0 /\ F.pc = "returned" /\ F.terminal.kind # "deny"
    /\ frames' = [frames EXCEPT ![top] = NewFrame,
                    ![top - 1] = [Outer EXCEPT !.terminal = OrElse(@, F.terminal),
                                           !.errors = @ + F.errors, !.notes = @ \o F.notes]]
    /\ top' = top - 1
    /\ UNCHANGED <<policy, limited, history>>

EndOfCalls ==
    /\ F.pc = "calls"
    /\ Becomes([F EXCEPT !.pc = "final"])
    /\ UNCHANGED <<policy, limited, top, history>>

----------------------------------------------------------------------------
(* The exit *)

VerdictBug(parse) ==   \* an ask that is already there is thought to be enough
    CASE F.terminal.kind # "none" -> "allow"
      [] parse = "unavailable" /\ policy.onEngineUnavailable = "deny-all" -> "deny"
      [] parse = "unparsable" -> policy.onUnparsable
      [] OTHER -> "allow"

(* The policy for a command that could not be parsed comes last.           *)
Verdict(parse) ==
    CASE parse = "unavailable" /\ policy.onEngineUnavailable = "deny-all" -> "deny"
      [] parse = "unparsable" -> policy.onUnparsable
      [] OTHER -> "allow"

Finish ==
    /\ F.pc = "final"
    /\ \E e \in ExitErrors, k \in Thrown :
          /\ CASE Verdict(F.parse) = "deny"  -> ReturnDeny(Emission("deny"), e + k) /\ Emit("deny")
               [] Verdict(F.parse) = "ask"   -> Return(OrElse(F.terminal, Emission("ask")), e + k) /\ Emit("ask")
               [] Verdict(F.parse) = "allow" -> k = 0 /\ Return(F.terminal, e) /\ EmitNothing
          /\ raised' = raised + k + e - F.ctxErrors
    /\ UNCHANGED <<policy, limited, top, noted, dead>>

Next ==
    \/ ParseCommand
    \/ RuleIsSilent \/ RuleThrows \/ RuleDenies \/ RuleAsks \/ RuleAnnotates \/ EndOfRules
    \/ DepthExceeded \/ Inspect \/ UnwrapFails \/ OpaqueShell \/ InlineScript
    \/ ResumeDenied \/ Resume \/ EndOfCalls
    \/ Finish

Spec == Init /\ [][Next]_vars

----------------------------------------------------------------------------
(* The merge contract (evaluate's comment, docs/SPEC.md Engine 4 and 5)    *)

Done == top = 0 /\ F.pc = "returned"

(* deny short-circuits: however deep the frame that denied, nothing is     *)
(* decided after it, and it is what the harness gets.  Nobody denies       *)
(* unless a rule or the policy did.                                        *)
DenyShortCircuits ==
    /\ denial # 0 => emitted = denial
    /\ Done => (F.terminal.kind = "deny" <=> denial # 0)
    /\ Done /\ denial # 0 => F.terminal.at = denial

(* An ask, wherever it was emitted, is never lost to a silent run.         *)
AskSurvives == Done /\ firstAsk # 0 /\ denial = 0 => F.terminal.kind = "ask"

(* ... and it is the first one that is put to the user, unless a script    *)
(* was returned at a depth limit that asks too: its ask is returned there  *)
(* in place of an earlier one of the same script.                          *)
FirstAskWins ==
    policy.onDepthExceeded # "ask" \/ ~limited =>
        (Done /\ firstAsk # 0 /\ denial = 0 => F.terminal.at = firstAsk)

(* Errors are never swallowed: each one that occurred, in whatever frame,  *)
(* is annotated once, on a deny too.                                       *)
ErrorsSurvive == Done => F.errors = raised

(* Warnings and notes come out in the order they were emitted in, all of   *)
(* them, unless the command is denied.                                     *)
NotesInOrder == Done => F.notes = IF denial # 0 THEN << >> ELSE [n \in 1 .. noted |-> n]

(* A dead engine fails closed: when the parser or the unwrapper dies under *)
(* deny-all, in whatever frame, the command is denied (index.ts:693) ...   *)
DeadEngineDenies == Done /\ dead => denial # 0

(* ... which the code keeps where no script is returned at the depth limit *)
(* or the limit denies as well: a script at the limit is returned before   *)
(* anybody looks at its failed parse.                                      *)
DeadEngineDeniesAboveLimit ==
    policy.onDepthExceeded = "deny" \/ ~limited => DeadEngineDenies
============================================================================
