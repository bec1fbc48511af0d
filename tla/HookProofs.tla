----------------------------- MODULE HookProofs ----------------------------
(***************************************************************************)
(* The safety of a compiled hook, for any child and any outcome of the     *)
(* engine.  What makes it inductive is what each part of the process knows *)
(* of the parts before it: nothing is answered before the engine has an    *)
(* outcome, only an ask of the adapter goes to the child, and an "allow"   *)
(* is held only once the child has ended and nobody is left on its pipe.   *)
(***************************************************************************)
EXTENDS HookRun, TLAPS

BeforeOutcome == {"load", "preload", "start", "evaluate"}
AskingChild == {"enrich", "commit", "fields", "decide", "race", "streams"}
Ended == {"exited", "killed"}

(* Before evaluate has returned there is no outcome.                       *)
OutcomeIsLate == pc \in BeforeOutcome => outcome = NoOutcome

(* Only asks of the adapter are put to a child, and until it has answered  *)
(* there is no response.                                                   *)
ChildIsForAsks ==
    /\ pc \in BeforeOutcome \cup AskingChild => response = "none" /\ ~timedOut
    /\ pc \in AskingChild => surface = "claude-code" /\ outcome.terminal = "ask"

(* A held "allow" is all there is in the pipe, which nobody holds any more, *)
(* of a child that has exited with 0.                                      *)
AllowIsEarned ==
    /\ pc = "streams" => child = "exited"
    /\ response = "allow" => printed = "allow" /\ child = "exited" /\ exitZero /\ ~holder

(* What a finished process with an outcome has told the outside.           *)
VerdictIsKept ==
    Answered /\ outcome.terminal # "none" =>
        /\ Proceeds => /\ outcome.terminal = "ask"
                       /\ \/ response = "allow"
                          \/ event # "PreToolUse" /\ response = "harness-ask"
        /\ outcome.terminal = "deny" => Blocks

(* hk runs only what nobody objects to.                                    *)
ExecIsFree ==
    pc \in {"exec", "running"} =>
        /\ surface = "shell" /\ outcome.terminal = "none"
        /\ outcome.errors => "errors" \in result.stderr

(* After the timer has won the response stays a deny.                      *)
TimeoutDenies ==
    timedOut => /\ surface = "claude-code" /\ outcome.terminal = "ask" /\ response = "deny"
                /\ child # "running" /\ pc \in {"render"} \cup Ended
                /\ Answered => Blocks

(* What was said on stderr stays there.                                    *)
StderrGrows ==
    /\ coldStart = "wasm" => pc \notin {"load", "preload"} /\ "preload" \in result.stderr
    /\ Answered /\ outcome.errors => "errors" \in result.stderr

Inv == /\ TypeOK /\ OutcomeIsLate /\ ChildIsForAsks /\ AllowIsEarned
       /\ VerdictIsKept /\ ExecIsFree /\ TimeoutDenies /\ StderrGrows

----------------------------------------------------------------------------
(* Results *)

LEMMA EmptyResult == EMPTY \in Result /\ NoOutcome \in Outcome
  BY DEF EMPTY, Result, NoOutcome, Outcome

LEMMA ComplaintResult == \A code \in {0, 1, 2} : Complaint(code) \in Result
  BY DEF Complaint, EMPTY, Result

LEMMA WrittenResult ==
    ASSUME result \in Result, NEW output \in Result
    PROVE  /\ Written(output) \in Result
           /\ Written(output).stdout = output.stdout
           /\ Written(output).exit = output.exit
           /\ Written(output).ran = output.ran
           /\ Written(output).stderr = output.stderr \cup result.stderr
  BY DEF Written, Result

LEMMA WithErrorsResult ==
    ASSUME TypeOK, NEW output \in Result
    PROVE  /\ WithErrors(output) \in Result
           /\ WithErrors(output).stdout = output.stdout
           /\ WithErrors(output).exit = output.exit
           /\ WithErrors(output).ran = output.ran
           /\ outcome.errors => "errors" \in WithErrors(output).stderr
  BY DEF WithErrors, Result

(* What is rendered of an outcome, on both surfaces.                       *)
LEMMA ShellOutputResult ==
    ASSUME TypeOK
    PROVE  /\ ShellOutput \in Result
           /\ ~ShellOutput.ran
           /\ outcome.terminal = "deny" => ShellOutput.exit = 2
  <1>1. outcome.terminal \in {"none", "ask", "deny"}
    BY DEF TypeOK, InputTypeOK, HookTypeOK, ProcessTypeOK, Outcome
  <1>2. CASE outcome.terminal = "deny"
    BY <1>2 DEF ShellOutput, Complaint, EMPTY, Result
  <1>3. CASE outcome.terminal = "ask"
    BY <1>3 DEF ShellOutput, EMPTY, Result
  <1>4. CASE outcome.terminal = "none"
    BY <1>4 DEF ShellOutput, Annotations, EMPTY, Result
  <1> QED BY <1>1, <1>2, <1>3, <1>4

LEMMA DenyBlocks ==
    /\ Deny \in Result /\ ~Deny.ran
    /\ Deny.stdout = "block" \/ Deny.exit = 2
    /\ ~(Deny.exit = 0 /\ Deny.stdout \in {"empty", "context"})
  <1>1. CASE event = "PreToolUse"
    BY <1>1 DEF Deny, EMPTY, Result
  <1>2. CASE event # "PreToolUse"
    <2>1. Deny = Complaint(2)
      BY <1>2 DEF Deny, Complaint
    <2>2. Complaint(2).exit = 2 /\ ~Complaint(2).ran
      BY DEF Complaint, EMPTY
    <2> QED BY <2>1, <2>2, ComplaintResult
  <1> QED BY <1>1, <1>2

LEMMA CcOutputResult ==
    ASSUME TypeOK
    PROVE  /\ CcOutput \in Result
           /\ ~CcOutput.ran
           /\ outcome.terminal = "deny" => CcOutput = Deny
           /\ outcome.terminal = "ask" /\ response \notin {"allow", "harness-ask"} => CcOutput = Deny
           /\ outcome.terminal = "ask" /\ response = "harness-ask" /\ event = "PreToolUse"
                => CcOutput.stdout = "ask"
  <1>1. Annotations \in Result /\ ~Annotations.ran
    BY DEF Annotations, EMPTY, Result
  <1>2. HarnessAsk \in Result /\ ~HarnessAsk.ran /\ (event = "PreToolUse" => HarnessAsk.stdout = "ask")
    BY DEF HarnessAsk, EMPTY, Result
  <1>3. CASE outcome.terminal # "ask"
    <2>1. CcOutput = IF outcome.terminal = "deny" THEN Deny ELSE Annotations
      BY <1>3 DEF CcOutput, Decided
    <2> QED BY <1>1, <1>3, <2>1, DenyBlocks
  <1>4. CASE outcome.terminal = "ask" /\ response = "allow"
    BY <1>1, <1>4 DEF CcOutput
  <1>5. CASE outcome.terminal = "ask" /\ response = "harness-ask"
    BY <1>2, <1>5 DEF CcOutput
  <1>6. CASE outcome.terminal = "ask" /\ response \notin {"allow", "harness-ask"}
    BY <1>6, DenyBlocks DEF CcOutput
  <1> QED BY <1>3, <1>4, <1>5, <1>6

----------------------------------------------------------------------------
(* Types that a step leaves alone.                                         *)
LEMMA InputKept == ASSUME InputTypeOK, UNCHANGED input PROVE InputTypeOK'
  BY DEF InputTypeOK, input

LEMMA ProcessKept == ASSUME ProcessTypeOK, UNCHANGED <<processes, timer>> PROVE ProcessTypeOK'
  BY DEF ProcessTypeOK, processes, askpass

LEMMA InitInv == Init => Inv
<1> SUFFICES ASSUME Init PROVE Inv
  OBVIOUS
<1>1. TypeOK
  <2>1. gits \in 0 .. 3
    BY DEF Init
  <2> QED BY <2>1, EmptyResult DEF Init, TypeOK, InputTypeOK, HookTypeOK, ProcessTypeOK
<1>2. OutcomeIsLate /\ ChildIsForAsks /\ AllowIsEarned /\ VerdictIsKept
  BY DEF Init, OutcomeIsLate, ChildIsForAsks, AllowIsEarned, VerdictIsKept, Answered, BeforeOutcome, AskingChild
<1>3. ExecIsFree /\ TimeoutDenies /\ StderrGrows
  BY DEF Init, ExecIsFree, TimeoutDenies, Answered, StderrGrows
<1> QED BY <1>1, <1>2, <1>3 DEF Inv

Safe == /\ OutcomeIsLate /\ ChildIsForAsks /\ AllowIsEarned
        /\ VerdictIsKept /\ ExecIsFree /\ TimeoutDenies /\ StderrGrows

(* What stays true of a process that has no outcome yet.                   *)
LEMMA StillLoading ==
    ASSUME Inv, pc \in BeforeOutcome, pc' \in BeforeOutcome \cup {"exited"}, result' \in Result,
           UNCHANGED <<input, outcome, response, processes, timer, timedOut>>, coldStart' \in {"none", "wasm", "other"},
           coldStart' = "wasm" => pc' \notin {"load", "preload"} /\ "preload" \in result'.stderr
    PROVE  Inv'
<1>1. outcome = NoOutcome /\ response = "none" /\ ~timedOut
      /\ NoOutcome.terminal = "none" /\ ~NoOutcome.errors
  BY DEF Inv, OutcomeIsLate, ChildIsForAsks, NoOutcome
<1>2. HookTypeOK'
  BY DEF Inv, TypeOK, HookTypeOK, BeforeOutcome
<1>3. TypeOK'
  BY <1>2, InputKept, ProcessKept DEF Inv, TypeOK
<1>4. (OutcomeIsLate /\ ChildIsForAsks /\ AllowIsEarned)'
  BY <1>1 DEF OutcomeIsLate, ChildIsForAsks, AllowIsEarned, BeforeOutcome, AskingChild
<1>5. (VerdictIsKept /\ ExecIsFree /\ TimeoutDenies /\ StderrGrows)'
  BY <1>1 DEF VerdictIsKept, ExecIsFree, TimeoutDenies, Answered, StderrGrows, BeforeOutcome
<1> QED BY <1>3, <1>4, <1>5 DEF Inv

(* The steps before the engine has an outcome.                             *)
LEMMA EarlySteps ==
    ASSUME Inv, LoadFails \/ Load \/ Preload \/ ReadInputFails \/ NoCommand \/ ReadInput
                \/ EvaluateThrows \/ Evaluate
    PROVE  Inv'
<1>a. /\ coldStart \in {"none", "wasm", "other"} /\ result \in Result
      /\ coldStart = "wasm" => pc \notin {"load", "preload"} /\ "preload" \in result.stderr
  BY DEF Inv, TypeOK, HookTypeOK, StderrGrows, Answered
<1>b. \A output \in Result : Written(output) \in Result /\ result.stderr \subseteq Written(output).stderr
  BY <1>a, WrittenResult
<1>1. CASE LoadFails
  BY <1>1, <1>a, ComplaintResult, StillLoading DEF LoadFails, BeforeOutcome, history
<1>2. CASE Load
  BY <1>2, <1>a, StillLoading DEF Load, BeforeOutcome, history
<1>3. CASE Preload
  <2>1. result' \in Result /\ (coldStart' = "wasm" => "preload" \in result'.stderr)
    BY <1>3, EmptyResult DEF Preload, EMPTY, Result
  <2> QED BY <1>3, <2>1, StillLoading DEF Preload, BeforeOutcome
<1>4. CASE ReadInputFails
  <2>1. result' \in Result /\ result.stderr \subseteq result'.stderr
    BY <1>4, <1>b, EmptyResult DEF ReadInputFails, HandleError
  <2> QED BY <1>4, <1>a, <2>1, StillLoading DEF ReadInputFails, BeforeOutcome, history
<1>5. CASE NoCommand
  <2>1. ArgsAnswers \subseteq Result
    BY ComplaintResult, EmptyResult DEF ArgsAnswers, EMPTY, Result
  <2>2. result' \in Result /\ result.stderr \subseteq result'.stderr
    BY <1>5, <1>b, <2>1 DEF NoCommand
  <2> QED BY <1>5, <1>a, <2>2, StillLoading DEF NoCommand, BeforeOutcome, history
<1>6. CASE ReadInput
  BY <1>6, <1>a, StillLoading DEF ReadInput, BeforeOutcome, history
<1>7. CASE EvaluateThrows
  <2>1. result' \in Result /\ result.stderr \subseteq result'.stderr
    BY <1>7, <1>b, EmptyResult, ComplaintResult DEF EvaluateThrows, HandleError
  <2> QED BY <1>7, <1>a, <2>1, StillLoading DEF EvaluateThrows, BeforeOutcome, history
<1>8. CASE Evaluate
  <2>1. pc = "evaluate" /\ outcome' \in Outcome
        /\ UNCHANGED <<input, response, result, processes, timer, history>>
    BY <1>8 DEF Evaluate
  <2>2. \/ pc' = "render"
        \/ pc' \in {"enrich", "decide"} /\ surface # "shell" /\ outcome'.terminal = "ask"
    BY <1>8 DEF Evaluate
  <2>3. surface # "shell" => surface = "claude-code"
    BY HookConstants DEF Inv, TypeOK, InputTypeOK
  <2>4. HookTypeOK'
    BY <2>1, <2>2 DEF Inv, TypeOK, HookTypeOK, history
  <2>5. TypeOK'
    BY <2>1, <2>4, InputKept, ProcessKept DEF Inv, TypeOK
  <2>6. response = "none" /\ ~timedOut
    BY <2>1 DEF Inv, ChildIsForAsks, BeforeOutcome
  <2>7. (OutcomeIsLate /\ ChildIsForAsks /\ AllowIsEarned)'
    BY <2>1, <2>2, <2>3, <2>6 DEF OutcomeIsLate, ChildIsForAsks, AllowIsEarned, BeforeOutcome, AskingChild,
       input, history
  <2>8. (VerdictIsKept /\ ExecIsFree /\ TimeoutDenies /\ StderrGrows)'
    BY <2>1, <2>2, <2>6 DEF Inv, VerdictIsKept, ExecIsFree, TimeoutDenies, Answered, StderrGrows, history
  <2> QED BY <2>5, <2>7, <2>8 DEF Inv
<1> QED BY <1>1, <1>2, <1>3, <1>4, <1>5, <1>6, <1>7, <1>8

(* git and the askpass child, and what they leave behind.                  *)
LEMMA ChildSteps ==
    ASSUME Inv, GitEnds \/ ChildPrints \/ Fork \/ HolderExits \/ ChildExits
    PROVE  Inv'
<1>1. CASE GitEnds
  <2>1. gits' = gits - 1 /\ gits > 0 /\ gits \in 0 .. 3
    BY <1>1 DEF GitEnds, Inv, TypeOK, InputTypeOK, HookTypeOK, ProcessTypeOK
  <2>2. result' \in Result /\ result.stderr \subseteq result'.stderr
    BY <1>1 DEF GitEnds, Inv, TypeOK, InputTypeOK, HookTypeOK, ProcessTypeOK, Result
  <2>3. TypeOK'
    <3>1. gits' \in 0 .. 3
      BY <2>1
    <3>2. ProcessTypeOK'
      BY <1>1, <3>1 DEF GitEnds, askpass, Inv, TypeOK, ProcessTypeOK
    <3>3. HookTypeOK'
      BY <1>1, <2>2 DEF GitEnds, history, Inv, TypeOK, HookTypeOK
    <3> QED BY <1>1, <3>2, <3>3, InputKept DEF GitEnds, Inv, TypeOK
  <2>4. pc \in {"commit", "fields"} /\ ~timedOut
    BY <1>1 DEF GitEnds, Inv, ChildIsForAsks, AskingChild
  <2>5. Safe'
    BY <1>1, <2>2, <2>4 DEF GitEnds, input, askpass, history, Inv, Safe, OutcomeIsLate, ChildIsForAsks,
       AllowIsEarned, VerdictIsKept, ExecIsFree, TimeoutDenies, StderrGrows, Answered, BeforeOutcome, AskingChild
  <2> QED BY <2>3, <2>5 DEF Inv, Safe
<1>2. CASE ChildPrints \/ Fork \/ HolderExits \/ ChildExits
  <2>0. /\ UNCHANGED <<input, pc, outcome, response, result, gits, timer, history>>
        /\ child' \in {"none", "running", "exited", "killed"}
        /\ exitZero' \in BOOLEAN /\ holder' \in BOOLEAN
        /\ printed' \in {"nothing", "unparsable", "other id"} \cup Decisions
        /\ child' # child => child = "running" /\ child' = "exited"
        /\ child = "exited" /\ ~holder => UNCHANGED <<child, exitZero, printed, holder>>
    BY <1>2 DEF ChildPrints, Fork, HolderExits, ChildExits, Inv, TypeOK, InputTypeOK, HookTypeOK, ProcessTypeOK, Decisions
  <2>1. TypeOK'
    BY <2>0 DEF Inv, TypeOK, InputTypeOK, HookTypeOK, ProcessTypeOK, input, history
  <2>2. AllowIsEarned'
    <3>1. child = "exited" => child' = "exited"
      BY <2>0
    <3>2. child = "exited" /\ ~holder => UNCHANGED <<child, exitZero, printed, holder>>
      BY <2>0
    <3> QED BY <2>0, <3>1, <3>2 DEF Inv, AllowIsEarned
  <2>3. (OutcomeIsLate /\ ChildIsForAsks /\ ExecIsFree /\ StderrGrows)'
    BY <2>0 DEF Inv, OutcomeIsLate, ChildIsForAsks, ExecIsFree, StderrGrows, Answered, input, history
  <2>4. (VerdictIsKept /\ TimeoutDenies)'
    BY <2>0 DEF Inv, VerdictIsKept, TimeoutDenies, Answered, Proceeds, Blocks, input, history
  <2> QED BY <2>1, <2>2, <2>3, <2>4 DEF Inv
<1> QED BY <1>1, <1>2

(* What stays true of a process that goes on before it renders.            *)
LEMMA StillAsking ==
    ASSUME Inv, pc \in AskingChild, pc' \in AskingChild \cup {"render", "killed"},
           UNCHANGED <<input, outcome, result, coldStart>>, TypeOK',
           pc' \in AskingChild => UNCHANGED <<response, timedOut>>,
           timedOut' => response' = "deny" /\ child' # "running" /\ pc' \notin AskingChild,
           AllowIsEarned'
    PROVE  Inv'
  BY DEF Inv, OutcomeIsLate, ChildIsForAsks, VerdictIsKept, ExecIsFree, TimeoutDenies, Answered, StderrGrows,
     BeforeOutcome, AskingChild, Ended, input

(* The steps of an ask on its way to its answer.                           *)
LEMMA AskSteps ==
    ASSUME Inv, AskGit \/ CommitKnown \/ FieldsKnown \/ NoAskpass \/ Spawn
                \/ ExitWins \/ TimeoutWins \/ StreamsEnd
    PROVE  Inv'
<1>1. pc \in AskingChild /\ response = "none" /\ ~timedOut
  BY DEF AskGit, CommitKnown, FieldsKnown, NoAskpass, Spawn, ExitWins, TimeoutWins, StreamsEnd,
     AskingChild, Inv, ChildIsForAsks
<1>2. CASE AskGit \/ CommitKnown \/ FieldsKnown
  <2>1. /\ pc' \in {"commit", "fields", "decide"} /\ gits' \in {0, 1, 3}
        /\ UNCHANGED <<input, outcome, response, result, askpass, timer, history>>
    BY <1>2 DEF AskGit, CommitKnown, FieldsKnown, processes, Inv, TypeOK, InputTypeOK, HookTypeOK, ProcessTypeOK
  <2>2. gits' \in 0 .. 3
    BY <2>1
  <2>3. TypeOK'
    <3>1. ProcessTypeOK'
      BY <2>1, <2>2 DEF askpass, Inv, TypeOK, ProcessTypeOK
    <3>2. HookTypeOK'
      BY <2>1 DEF history, Inv, TypeOK, HookTypeOK
    <3> QED BY <2>1, <3>1, <3>2, InputKept DEF Inv, TypeOK
  <2>4. AllowIsEarned'
    BY <1>1, <2>1 DEF AllowIsEarned
  <2> QED BY <1>1, <2>1, <2>3, <2>4, StillAsking DEF AskingChild, history
<1>3. CASE NoAskpass
  <2>1. TypeOK'
    <3>1. HookTypeOK'
      BY <1>3 DEF NoAskpass, Inv, TypeOK, HookTypeOK, Decisions, history
    <3> QED BY <1>3, <3>1, InputKept, ProcessKept DEF NoAskpass, Inv, TypeOK
  <2>2. AllowIsEarned'
    BY <1>3 DEF NoAskpass, AllowIsEarned
  <2> QED BY <1>1, <1>3, <2>1, <2>2, StillAsking DEF NoAskpass, AskingChild, history
<1>4. CASE Spawn
  <2>1. TypeOK' /\ AllowIsEarned'
    BY <1>1, <1>4 DEF Spawn, Inv, TypeOK, InputTypeOK, HookTypeOK, ProcessTypeOK, AllowIsEarned, input, history
  <2> QED BY <1>1, <1>4, <2>1, StillAsking DEF Spawn, AskingChild, history
<1>5. CASE ExitWins
  <2>1. TypeOK' /\ AllowIsEarned'
    BY <1>1, <1>5 DEF ExitWins, Inv, TypeOK, InputTypeOK, HookTypeOK, ProcessTypeOK, AllowIsEarned, input, processes, askpass, history
  <2> QED BY <1>1, <1>5, <2>1, StillAsking DEF ExitWins, AskingChild, history
<1>6. CASE TimeoutWins
  <2>1. TypeOK' /\ AllowIsEarned'
    BY <1>6 DEF TimeoutWins, Inv, TypeOK, InputTypeOK, HookTypeOK, ProcessTypeOK, AllowIsEarned, Decisions, input
  <2> QED BY <1>1, <1>6, <2>1, StillAsking DEF TimeoutWins, AskingChild
<1>7. CASE StreamsEnd
  <2>1. child = "exited" /\ ~holder
    BY <1>7 DEF StreamsEnd, Inv, AllowIsEarned
  <2>2. TypeOK'
    <3>1. HookTypeOK'
      BY <1>7 DEF StreamsEnd, Answer, Inv, TypeOK, HookTypeOK, Decisions, history
    <3> QED BY <1>7, <3>1, InputKept, ProcessKept DEF StreamsEnd, Inv, TypeOK
  <2>3. AllowIsEarned'
    BY <1>7, <2>1 DEF StreamsEnd, Answer, AllowIsEarned, processes, askpass
  <2> QED BY <1>1, <1>7, <2>2, <2>3, StillAsking DEF StreamsEnd, AskingChild, history
<1> QED BY <1>2, <1>3, <1>4, <1>5, <1>6, <1>7

(* Rendering, the command of hk, and the harness's limit.                  *)
LEMMA LateSteps ==
    ASSUME Inv, Render \/ Exec \/ CommandEnds \/ Killed
    PROVE  Inv'
<1>1. CASE Render
  <2> DEFINE shown == IF surface = "shell" THEN ShellOutput ELSE CcOutput
             output == WithErrors(shown)
  <2>1. /\ shown \in Result /\ ~shown.ran
        /\ surface # "shell" => surface = "claude-code"
    BY HookConstants, ShellOutputResult, CcOutputResult DEF Inv, TypeOK, InputTypeOK, HookTypeOK, ProcessTypeOK
  <2>2. /\ output \in Result /\ output.stdout = shown.stdout /\ output.exit = shown.exit
        /\ output.ran = shown.ran /\ (outcome.errors => "errors" \in output.stderr)
    BY <2>1, WithErrorsResult DEF Inv
  <2>3. /\ result' \in Result
        /\ result'.stdout = shown.stdout /\ result'.exit = shown.exit /\ ~result'.ran
        /\ output.stderr \cup result.stderr = result'.stderr
    BY <1>1, <2>1, <2>2, WrittenResult DEF Render, Inv, TypeOK, InputTypeOK, HookTypeOK, ProcessTypeOK
  <2>4. /\ pc = "render" /\ UNCHANGED <<input, outcome, response, processes, timer, history>>
        /\ pc' = IF surface = "shell" /\ outcome.terminal = "none" THEN "exec" ELSE "exited"
    BY <1>1 DEF Render
  <2>5. TypeOK'
    <3>1. HookTypeOK'
      BY <2>3, <2>4 DEF Inv, TypeOK, HookTypeOK, history
    <3> QED BY <2>4, <3>1, InputKept, ProcessKept DEF Inv, TypeOK
  <2>6. VerdictIsKept'
    <3>1. CASE surface = "shell"
      BY <2>3, <2>4, <3>1, ShellOutputResult DEF VerdictIsKept, Answered, Proceeds, Blocks, Inv, input
    <3>2. CASE surface # "shell" /\ outcome.terminal = "deny"
      BY <2>3, <2>4, <3>2, CcOutputResult, DenyBlocks DEF VerdictIsKept, Answered, Proceeds, Blocks, Inv, input
    <3>3. CASE surface # "shell" /\ outcome.terminal = "ask"
      BY <2>3, <2>4, <3>3, CcOutputResult, DenyBlocks DEF VerdictIsKept, Answered, Proceeds, Blocks, Inv, input
    <3>4. CASE outcome.terminal = "none"
      BY <2>4, <3>4 DEF VerdictIsKept, Answered
    <3> QED BY <3>1, <3>2, <3>3, <3>4 DEF Inv, TypeOK, InputTypeOK, HookTypeOK, ProcessTypeOK, Outcome
  <2>7. TimeoutDenies'
    <3>1. ASSUME timedOut PROVE shown = Deny
      BY <3>1, CcOutputResult DEF Inv, TimeoutDenies, Answered
    <3> QED BY <2>3, <2>4, <3>1, DenyBlocks
            DEF Inv, TimeoutDenies, Blocks, Ended, input, processes, askpass, history
  <2>8. (ExecIsFree /\ StderrGrows)'
    BY <2>2, <2>3, <2>4 DEF ExecIsFree, StderrGrows, Answered, Inv, input, history
  <2>9. (OutcomeIsLate /\ ChildIsForAsks /\ AllowIsEarned)'
    BY <2>4 DEF Inv, OutcomeIsLate, ChildIsForAsks, AllowIsEarned, BeforeOutcome, AskingChild,
       input, processes, askpass, history
  <2> QED BY <2>5, <2>6, <2>7, <2>8, <2>9 DEF Inv
<1>2. CASE Exec \/ CommandEnds
  <2>1. /\ result' \in Result /\ result.stderr \subseteq result'.stderr
        /\ pc \in {"exec", "running"} /\ pc' \in {"running", "exited"}
        /\ UNCHANGED <<input, outcome, response, processes, timer, history>>
    BY <1>2 DEF Exec, CommandEnds, Inv, TypeOK, HookTypeOK, Result
  <2>2. surface = "shell" /\ outcome.terminal = "none" /\ ~timedOut /\ (outcome.errors => "errors" \in result.stderr)
    BY <2>1 DEF Inv, ExecIsFree, TimeoutDenies, Answered, Ended
  <2>3. TypeOK'
    <3>1. HookTypeOK'
      BY <2>1 DEF Inv, TypeOK, HookTypeOK, history
    <3> QED BY <2>1, <3>1, InputKept, ProcessKept DEF Inv, TypeOK
  <2>4. Safe'
    BY <2>1, <2>2 DEF Inv, Safe, OutcomeIsLate, ChildIsForAsks, AllowIsEarned, VerdictIsKept, Answered, ExecIsFree,
       TimeoutDenies, StderrGrows, Answered, BeforeOutcome, AskingChild, input, processes, askpass, history
  <2> QED BY <2>3, <2>4 DEF Inv, Safe
<1>3. CASE Killed
  <2>1. TypeOK'
    <3>1. HookTypeOK'
      BY <1>3 DEF Killed, Inv, TypeOK, HookTypeOK, history
    <3> QED BY <1>3, <3>1, InputKept, ProcessKept DEF Killed, Inv, TypeOK
  <2>2. Safe'
    BY <1>3 DEF Killed, Inv, Safe, OutcomeIsLate, ChildIsForAsks, AllowIsEarned, VerdictIsKept, Answered, ExecIsFree,
       TimeoutDenies, StderrGrows, Answered, BeforeOutcome, AskingChild, Ended, input, processes, askpass, history
  <2> QED BY <2>1, <2>2 DEF Inv, Safe
<1> QED BY <1>1, <1>2, <1>3

LEMMA StepInv == Inv /\ [Next]_vars => Inv'
<1> SUFFICES ASSUME Inv, [Next]_vars PROVE Inv'
  OBVIOUS
<1>1. CASE UNCHANGED vars
  <2>1. TypeOK'
    <3>1. HookTypeOK'
      BY <1>1 DEF vars, history, Inv, TypeOK, HookTypeOK
    <3> QED BY <1>1, <3>1, InputKept, ProcessKept DEF vars, Inv, TypeOK
  <2>2. (OutcomeIsLate /\ ChildIsForAsks /\ AllowIsEarned /\ VerdictIsKept)'
    BY <1>1 DEF vars, input, processes, askpass, history, Inv, OutcomeIsLate, ChildIsForAsks,
       AllowIsEarned, VerdictIsKept, Answered, Proceeds, Blocks
  <2>3. (ExecIsFree /\ TimeoutDenies /\ StderrGrows)'
    BY <1>1 DEF vars, input, processes, askpass, history, Inv, ExecIsFree, TimeoutDenies, Answered, StderrGrows, Blocks
  <2> QED BY <2>1, <2>2, <2>3 DEF Inv
<1>2. CASE Next
  BY <1>2, EarlySteps, AskSteps, ChildSteps, LateSteps DEF Next, HookStep
<1> QED BY <1>1, <1>2

LEMMA Invariant == Spec => []Inv
  BY InitInv, StepInv, PTL DEF Spec

----------------------------------------------------------------------------
(* The variables of a hook keep their types, whatever its child does.      *)
THEOREM HookTypes == Spec => []TypeOK
  BY Invariant, PTL DEF Inv

(* Never a silent allow (docs/SPEC.md, the askpass client and the adapter): *)
(* an ask goes through only after a child's exit 0 before any deadline, on *)
(* a pipe that held one "allow" for this request and nothing else, whoever *)
(* wrote it; a deny never.                                                 *)
THEOREM NoSilentPass == Spec => []NothingProceedsUndecided
<1>1. Inv => NothingProceedsUndecided
  <2>1. Blocks => ~Proceeds
    BY DEF Blocks, Proceeds
  <2> QED BY <2>1 DEF Inv, NothingProceedsUndecided, VerdictIsKept, AllowIsEarned, TimeoutDenies
<1> QED BY <1>1, Invariant, PTL

(* A deadline that wins in callAskpass is final.                           *)
THEOREM DeadlineIsFinal == Spec => []TimeoutIsFinal
<1>1. Inv => TimeoutIsFinal
  BY DEF Inv, TimeoutIsFinal, TimeoutDenies, Answered
<1> QED BY <1>1, Invariant, PTL

(* Error annotations and the preload error are on stderr at every exit.    *)
THEOREM ErrorsAreShown == Spec => []ErrorsReachStderr
<1>1. Inv => ErrorsReachStderr
  BY DEF Inv, ErrorsReachStderr, StderrGrows, Answered
<1> QED BY <1>1, Invariant, PTL
============================================================================
