------------------------------- MODULE HookRun ------------------------------
(***************************************************************************)
(* One compiled hook, from its generated entrypoint to its exit: run() with *)
(* the Claude Code adapter, which has an ask decided by the askpass child  *)
(* first, or the shell wrapper hk, which runs the command itself.          *)
(*                                                                         *)
(* The askpass child is any program: it may print anything, leave a        *)
(* process behind that holds (and writes to) its pipes, exit with any code *)
(* or never.  The promise race in callAskpass is between its exit and a    *)
(* timer; the streams are read afterwards, when there is no timer any more. *)
(***************************************************************************)
EXTENDS Naturals

CONSTANTS
    Surfaces,    \* "claude-code", "shell"
    TimedAsk,    \* the values of "opts.timeoutMs was given"; the adapter gives none
    MayFork      \* whether the child may leave a process behind

ASSUME HookConstants ==
    /\ Surfaces \subseteq {"claude-code", "shell"}
    /\ TimedAsk \subseteq BOOLEAN
    /\ MayFork \in BOOLEAN

VARIABLES
    surface, event, timed,
    enrich,     \* HOOK_KIT_ENRICH_GIT is set
    pc,         \* where the process is
    outcome,    \* what evaluate returned
    response,   \* what callAskpass returned
    result,     \* what the harness or the shell's caller sees
    child,      \* the askpass child
    exitZero,   \* its exit code
    printed,    \* what is in its stdout pipe
    holder,     \* whether another process holds that pipe open
    gits,       \* git processes that are running
    timer,      \* the timer of the race
    coldStart,  \* history: the error the WASM parser's preload rejected with
    timedOut    \* history: the timer has won

input == <<surface, event, timed, enrich>>
askpass == <<child, exitZero, printed, holder>>
processes == <<askpass, gits>>
history == <<coldStart, timedOut>>
vars == <<input, pc, outcome, response, result, processes, timer, history>>

Outcome == [terminal : {"none", "ask", "deny"}, notes : BOOLEAN, errors : BOOLEAN]
NoOutcome == [terminal |-> "none", notes |-> FALSE, errors |-> FALSE]

Decisions == {"allow", "deny", "harness-ask"}

(* ran: hk has spawned the command.  A verdict on stdout is JSON for the   *)
(* harness, "review" hk's line about an ask, "usage" its help or version.  *)
Result == [stdout : {"empty", "context", "ask", "block", "review", "usage"},
           stderr : SUBSET {"reason", "errors", "preload", "git"}, exit : {0, 1, 2}, ran : BOOLEAN]
EMPTY == [stdout |-> "empty", stderr |-> {}, exit |-> 0, ran |-> FALSE]
Complaint(code) == [EMPTY EXCEPT !.stderr = {"reason"}, !.exit = code]

(* What is written joins what is on stderr already.                        *)
Written(output) == [output EXCEPT !.stderr = @ \cup result.stderr]

InputTypeOK ==
    /\ surface \in Surfaces /\ timed \in TimedAsk /\ enrich \in BOOLEAN
    /\ event \in {"PreToolUse", "PostToolUse"}

HookTypeOK ==
    /\ pc \in {"load", "preload", "start", "evaluate", "enrich", "commit", "fields", "decide",
               "race", "streams", "render", "exec", "running", "exited", "killed"}
    /\ outcome \in Outcome
    /\ response \in {"none"} \cup Decisions
    /\ result \in Result
    /\ coldStart \in {"none", "wasm", "other"} /\ timedOut \in BOOLEAN

ProcessTypeOK ==
    /\ gits \in 0 .. 3
    /\ child \in {"none", "running", "exited", "killed"}
    /\ exitZero \in BOOLEAN /\ holder \in BOOLEAN
    /\ printed \in {"nothing", "unparsable", "other id"} \cup Decisions
    /\ timer \in {"off", "armed"}

TypeOK == InputTypeOK /\ HookTypeOK /\ ProcessTypeOK

Init ==
    /\ surface \in Surfaces /\ timed \in TimedAsk /\ enrich \in BOOLEAN
    /\ event \in {"PreToolUse", "PostToolUse"}
    /\ surface = "shell" => event = "PreToolUse" /\ ~enrich
    /\ pc = "load" /\ outcome = NoOutcome /\ response = "none" /\ result = EMPTY
    /\ child = "none" /\ exitZero = FALSE /\ printed = "nothing" /\ holder = FALSE
    /\ gits = 0
    /\ timer = "off" /\ coldStart = "none" /\ timedOut = FALSE

----------------------------------------------------------------------------
(* The generated entrypoint, run and runShell *)

(* The user's module is imported and, where its default export is a        *)
(* function, that is called; either may fail.                              *)
LoadFails ==
    /\ pc = "load"
    /\ result' = Complaint(1)
    /\ pc' = "exited"
    /\ UNCHANGED <<input, outcome, response, processes, timer, history>>

Load ==
    /\ pc = "load"
    /\ pc' = "preload"
    /\ UNCHANGED <<input, outcome, response, result, processes, timer, history>>

(* preloadWasm: there is no outcome yet that could carry the error.  A     *)
(* WasmLoadError or WasmRuntimeError is written to stderr; a rejection of  *)
(* any other class is caught and not mentioned.                            *)
Preload ==
    /\ pc = "preload"
    /\ coldStart' \in {"none", "wasm", "other"}
    /\ result' = IF coldStart' = "wasm" THEN [EMPTY EXCEPT !.stderr = {"preload"}] ELSE EMPTY
    /\ pc' = "start"
    /\ UNCHANGED <<input, outcome, response, processes, timer, timedOut>>

(* handleError of the adapter: exit 0 and nothing said.                    *)
HandleError == Written(EMPTY)

(* Standard input is empty, no JSON, or not of the schema.                 *)
ReadInputFails ==
    /\ pc = "start" /\ surface = "claude-code"
    /\ result' = HandleError
    /\ pc' = "exited"
    /\ UNCHANGED <<input, outcome, response, processes, timer, history>>

(* parseArgs: --help, --version, or no such option.                        *)
ArgsAnswers == {[EMPTY EXCEPT !.stdout = "usage"], Complaint(2)}

NoCommand ==
    /\ pc = "start" /\ surface = "shell"
    /\ \E answer \in ArgsAnswers : result' = Written(answer)
    /\ pc' = "exited"
    /\ UNCHANGED <<input, outcome, response, processes, timer, history>>

ReadInput ==
    /\ pc = "start"
    /\ pc' = "evaluate"
    /\ UNCHANGED <<input, outcome, response, result, processes, timer, history>>

(* The adapter lets the command pass; hk dies of the rejection.            *)
EvaluateThrows ==
    /\ pc = "evaluate"
    /\ result' = IF surface = "claude-code" THEN HandleError ELSE Written(Complaint(1))
    /\ pc' = "exited"
    /\ UNCHANGED <<input, outcome, response, processes, timer, history>>

Evaluate ==
    /\ pc = "evaluate"
    /\ outcome' \in Outcome
    /\ pc' = CASE surface = "shell" \/ outcome'.terminal # "ask" -> "render"
              [] OTHER -> IF enrich THEN "enrich" ELSE "decide"
    /\ UNCHANGED <<input, response, result, processes, timer, history>>

----------------------------------------------------------------------------
(* enrichGit, before the ask is made *)

(* git rev-parse HEAD.                                                     *)
AskGit ==
    /\ pc = "enrich"
    /\ gits' = 1 /\ pc' = "commit"
    /\ UNCHANGED <<input, outcome, response, result, askpass, timer, history>>

(* Without a commit there is no context; else three more, in parallel.     *)
CommitKnown ==
    /\ pc = "commit" /\ gits = 0
    /\ \/ gits' = 0 /\ pc' = "decide"
       \/ gits' = 3 /\ pc' = "fields"
    /\ UNCHANGED <<input, outcome, response, result, askpass, timer, history>>

FieldsKnown ==
    /\ pc = "fields" /\ gits = 0
    /\ pc' = "decide"
    /\ UNCHANGED <<input, outcome, response, result, processes, timer, history>>

(* One ends, or could not be spawned, which is said on stderr.             *)
GitEnds ==
    /\ gits > 0 /\ pc \in {"commit", "fields"}
    /\ gits' = gits - 1
    /\ result' \in {result, [result EXCEPT !.stderr = @ \cup {"git"}]}
    /\ UNCHANGED <<input, pc, outcome, response, askpass, timer, history>>

----------------------------------------------------------------------------
(* callAskpass *)

(* $HOOK_KIT_ASKPASS is unset: the harness asks.  It cannot be spawned:    *)
(* deny.                                                                   *)
NoAskpass ==
    /\ pc = "decide"
    /\ response' \in {"harness-ask", "deny"}
    /\ pc' = "render"
    /\ UNCHANGED <<input, outcome, result, processes, timer, history>>

SpawnBug ==   \* arms no timer
    /\ pc = "decide"
    /\ child' = "running" /\ pc' = "race"
    /\ UNCHANGED <<input, outcome, response, result, exitZero, printed, holder, gits, timer, history>>

Spawn ==
    /\ pc = "decide"
    /\ child' = "running"
    /\ timer' = IF timed THEN "armed" ELSE "off"
    /\ pc' = "race"
    /\ UNCHANGED <<input, outcome, response, result, exitZero, printed, holder, gits, history>>

(* proc.exited: the timer is cleared.                                      *)
ExitWins ==
    /\ pc = "race" /\ child = "exited"
    /\ timer' = "off"
    /\ pc' = "streams"
    /\ UNCHANGED <<input, outcome, response, result, processes, history>>

TimeoutWinsBug ==   \* leaves the child running
    /\ pc = "race" /\ timer = "armed"
    /\ response' = "deny"
    /\ timer' = "off" /\ timedOut' = TRUE
    /\ pc' = "render"
    /\ UNCHANGED <<input, outcome, result, processes, coldStart>>

(* The child may have exited too, its exit not been noticed yet.           *)
TimeoutWins ==
    /\ pc = "race" /\ timer = "armed"
    /\ child' = IF child = "running" THEN "killed" ELSE child
    /\ response' = "deny"
    /\ timer' = "off" /\ timedOut' = TRUE
    /\ pc' = "render"
    /\ UNCHANGED <<input, outcome, result, exitZero, printed, holder, gits, coldStart>>

AnswerBug ==   \* the exit code is not looked at
    IF printed \in Decisions THEN printed ELSE "deny"

AnswerRawBug == IF exitZero THEN printed ELSE "deny"   \* the output is not parsed

(* A response of an exit 0, for this request; everything else is deny.     *)
Answer == IF exitZero /\ printed \in Decisions THEN printed ELSE "deny"

(* Both streams are read to their end, however long that takes.            *)
StreamsEnd ==
    /\ pc = "streams" /\ ~holder
    /\ response' = Answer
    /\ pc' = "render"
    /\ UNCHANGED <<input, outcome, result, processes, timer, history>>

----------------------------------------------------------------------------
(* The askpass child *)

(* Two prints in one pipe do not parse.                                    *)
ChildPrints ==
    /\ child = "running" \/ holder
    /\ printed' \in IF printed = "nothing" THEN {"unparsable", "other id"} \cup Decisions
                    ELSE {"unparsable"}
    /\ UNCHANGED <<input, pc, outcome, response, result, child, exitZero, holder, gits, timer, history>>

Fork ==
    /\ MayFork /\ child = "running"
    /\ holder' = TRUE
    /\ UNCHANGED <<input, pc, outcome, response, result, child, exitZero, printed, gits, timer, history>>

HolderExits ==
    /\ holder
    /\ holder' = FALSE
    /\ UNCHANGED <<input, pc, outcome, response, result, child, exitZero, printed, gits, timer, history>>

ChildExits ==
    /\ child = "running"
    /\ child' = "exited" /\ exitZero' \in BOOLEAN
    /\ UNCHANGED <<input, pc, outcome, response, result, printed, holder, gits, timer, history>>

----------------------------------------------------------------------------
(* Rendering *)

Deny == IF event = "PreToolUse" THEN [EMPTY EXCEPT !.stdout = "block"]
        ELSE [EMPTY EXCEPT !.stderr = {"reason"}, !.exit = 2]

Annotations == IF outcome.notes THEN [EMPTY EXCEPT !.stdout = "context"] ELSE EMPTY

(* Only PreToolUse knows an "ask"; elsewhere the question is context.      *)
HarnessAsk == [EMPTY EXCEPT !.stdout = IF event = "PreToolUse" THEN "ask" ELSE "context"]

(* decideCcOutput: what needs no one's answer.                             *)
Decided == IF outcome.terminal = "deny" THEN Deny ELSE Annotations

CcOutput ==
    IF outcome.terminal # "ask" THEN Decided
    ELSE CASE response = "allow" -> Annotations
           [] response = "harness-ask" -> HarnessAsk
           [] OTHER -> Deny

ShellOutput ==
    CASE outcome.terminal = "deny" -> Complaint(2)
      [] outcome.terminal = "ask"  -> [EMPTY EXCEPT !.stdout = "review", !.exit = 1]
      [] outcome.terminal = "none" -> Annotations

WithErrorsBug(output) ==   \* stderr is for the errors or for the reason
    IF outcome.errors /\ output.stderr = {} THEN [output EXCEPT !.stderr = {"errors"}] ELSE output

WithErrors(output) ==
    IF outcome.errors THEN [output EXCEPT !.stderr = @ \cup {"errors"}] ELSE output

Render ==
    /\ pc = "render"
    /\ result' = Written(WithErrors(IF surface = "shell" THEN ShellOutput ELSE CcOutput))
    /\ pc' = IF surface = "shell" /\ outcome.terminal = "none" THEN "exec" ELSE "exited"
    /\ UNCHANGED <<input, outcome, response, processes, timer, history>>

(* execCommand spawns the command, or hk dies because there is none of     *)
(* that name.                                                              *)
Exec ==
    /\ pc = "exec"
    /\ \/ result' = [result EXCEPT !.ran = TRUE] /\ pc' = "running"
       \/ result' = [result EXCEPT !.stderr = @ \cup {"reason"}, !.exit = 1] /\ pc' = "exited"
    /\ UNCHANGED <<input, outcome, response, processes, timer, history>>

(* The user's command ends, if ever, and hk with it and as it did.         *)
CommandEnds ==
    /\ pc = "running"
    /\ \E code \in {0, 1, 2} : result' = [result EXCEPT !.exit = code]
    /\ pc' = "exited"
    /\ UNCHANGED <<input, outcome, response, processes, timer, history>>

(* The harness's own limit on a hook.                                      *)
Killed ==
    /\ pc \notin {"exited", "killed"} /\ surface = "claude-code"
    /\ pc' = "killed"
    /\ UNCHANGED <<input, outcome, response, result, processes, timer, history>>

HookStep ==
    \/ Load \/ LoadFails \/ Preload
    \/ ReadInput \/ ReadInputFails \/ NoCommand \/ Evaluate \/ EvaluateThrows
    \/ AskGit \/ CommitKnown \/ FieldsKnown
    \/ NoAskpass \/ Spawn \/ ExitWins \/ TimeoutWins \/ StreamsEnd \/ Render \/ Exec

Next ==
    \/ HookStep \/ GitEnds \/ ChildPrints \/ Fork \/ HolderExits \/ ChildExits
    \/ CommandEnds \/ Killed

Spec == Init /\ [][Next]_vars

(* The event loop runs on, an armed timer fires.  The other processes owe  *)
(* nothing, the user's own command least of all.                           *)
FairSpec == Spec /\ WF_vars(HookStep)

----------------------------------------------------------------------------
(* Properties *)

(* The harness or the caller has what the hook has to say: it has exited,  *)
(* or hk has handed over to the command.                                   *)
Answered == pc \in {"running", "exited"}

(* What a harness makes of a hook's result, and hk's caller of hk's.       *)
Proceeds == result.ran \/ (surface = "claude-code" /\ result.exit = 0
                                                   /\ result.stdout \in {"empty", "context"})
Blocks == ~result.ran /\ (result.stdout = "block" \/ result.exit = 2)

(* Never a silent allow: an ask goes through only if the child has exited  *)
(* with 0 before any deadline, and all its pipe held when the last writer  *)
(* closed it is one "allow" for this request - or where the event has no   *)
(* way to ask, in words.  Who wrote that and when is not looked at, by the *)
(* code neither: a process the child has left behind may print it after    *)
(* the child's exit, which disarmed the timer, however late.  A deny never *)
(* goes through.                                                           *)
NothingProceedsUndecided ==
    Answered /\ outcome.terminal # "none" =>
        /\ Proceeds => /\ outcome.terminal = "ask" /\ ~timedOut
                       /\ \/ printed = "allow" /\ ~holder /\ child = "exited" /\ exitZero
                          \/ event # "PreToolUse" /\ response = "harness-ask"
        /\ outcome.terminal = "deny" => Blocks

(* A deadline that wins is final: the child is gone and the ask is denied, *)
(* whatever its pipe holds.                                                *)
TimeoutIsFinal == timedOut => child # "running" /\ (Answered => Blocks)

(* Errors reach stderr on every way out, and before a command of the user  *)
(* runs: the engine's on each that has an outcome, and on all of them that *)
(* of a parser that did not load, where it is of one of the two classes    *)
(* the entrypoints report.                                                 *)
ErrorsReachStderr ==
    Answered => /\ outcome.errors => "errors" \in result.stderr
                /\ coldStart = "wasm" => "preload" \in result.stderr

(* With a deadline, or a child that exits, an ask is answered - unless     *)
(* somebody keeps the child's pipes open for ever, or git does not end: it *)
(* is waited for before the deadline is armed.  How long a command that hk *)
(* runs then takes is the command's affair.                                *)
HookReturns ==
    /\ []<>~holder /\ []<>(gits = 0)
    /\ timed \/ []<>(child # "running")
    => (pc = "evaluate" ~> Answered \/ pc = "killed")
============================================================================
