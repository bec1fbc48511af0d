------------------------------- MODULE Bundle -------------------------------
(***************************************************************************)
(* hook-kit build: compiles the user's entrypoint into a hook binary in a  *)
(* work directory of its own and, with --hooks-json, loads the entrypoint  *)
(* again to tell the harness which calls to hand to that binary.  The      *)
(* binary routes each call to its modules by itself (EngineLooks), so the  *)
(* two must agree: a call the harness does not hand over is judged by no   *)
(* rule.                                                                   *)
(*                                                                         *)
(* Any of its system calls may fail, it may be killed, and the entrypoint  *)
(* may be edited while it runs.                                            *)
(***************************************************************************)
EXTENDS Naturals

CONSTANTS
    Event, Tool,
    Sources      \* what the entrypoint may be

(* A matcher is the set of its alternatives ("Edit|Write"), {} if it is "". *)
HookModule == [enabled : BOOLEAN, events : SUBSET Event, matchers : SUBSET SUBSET Tool]

(* What the default export is: modules, a function that returns them,      *)
(* nothing; or importing throws; or the compiler rejects the file.         *)
Source == [exports : {"modules", "function", "nothing", "throws", "invalid"},
           modules : SUBSET HookModule]

ASSUME BundleConstants ==
    /\ Sources \subseteq Source
    /\ \A s \in Sources : s.exports = "nothing" => s.modules = {}

VARIABLES
    options,   \* the command line
    source,    \* the entrypoint
    bpc,       \* where the build is
    code,      \* its exit code, once that is decided
    work,      \* the work directory exists
    binary,    \* the source the binary was compiled from
    entries,   \* the hooks of generateHooksJson
    hooksJson, \* the file
    compiled,  \* history: this build has compiled its binary
    steady,    \* history: the entrypoint is what was compiled
    stuck      \* history: the work directory could not be removed

outputs == <<binary, hooksJson>>
buildVars == <<options, source, bpc, code, work, binary, entries, hooksJson, compiled, steady, stuck>>

(* --out may be missing, or name a file in the root of the plugin or in a  *)
(* directory of it; --binary-command, if given, says where that is.        *)
Place == {"root", "dist"}
Options == [entrypoint : BOOLEAN, out : Place \cup {"missing"},
            adapter : {"shell", "cc-tools", "unsupported"}, binaryCommand : BOOLEAN,
            hooksJson : BOOLEAN, timeout : {"missing", "invalid", "valid"}]

(* One entry of hooks.json: the event and the matcher it stands under; all *)
(* entries run one command.                                                *)
Entry == Event \X SUBSET Tool
JsonFile == [st : {"absent", "torn", "whole", "old"}, entries : SUBSET Entry, command : Place]
NoJson(st) == [st |-> st, entries |-> {}, command |-> "root"]

BuildTypeOK ==
    /\ options \in Options /\ source \in Sources
    /\ bpc \in {"args", "mkdtemp", "wrapper", "compile", "clean", "timeout", "import", "write",
                "fill", "exited", "killed"}
    /\ code \in 0 .. 1
    /\ work \in BOOLEAN /\ compiled \in BOOLEAN /\ steady \in BOOLEAN /\ stuck \in BOOLEAN
    /\ binary \in Sources
    /\ entries \subseteq Entry /\ hooksJson \in JsonFile

----------------------------------------------------------------------------
(* hooks.json and the engine's filter *)

JoinedBug(mod) ==   \* its first matcher
    IF mod.matchers = {} THEN {} ELSE CHOOSE m \in mod.matchers : TRUE

(* mod.matchers?.join("|") ?? "": the alternatives of all matchers.        *)
Joined(mod) == UNION mod.matchers

GenerateHooksJson(mods) ==
    {e \in Entry : \E mod \in mods : mod.enabled /\ e[1] \in mod.events /\ e[2] = Joined(mod)}

(* The filter at the head of the engine's loop over the modules.           *)
Applies(mod, event, tool) ==
    /\ mod.enabled
    /\ event \in mod.events
    /\ mod.matchers # {} => \E m \in mod.matchers : tool \in m

(* Without --binary-command it is the last part of --out, in the root of   *)
(* the plugin.                                                             *)
BinaryCommand == IF options.binaryCommand THEN options.out ELSE "root"

(* The harness hands a call to the binary: there is an entry of the event  *)
(* whose matcher is empty or names the tool, and the command is there.     *)
Covers(hooks, event, tool) == \E e \in hooks : e[1] = event /\ (e[2] = {} \/ tool \in e[2])

HarnessCalls(event, tool) ==
    hooksJson.command = options.out /\ Covers(hooksJson.entries, event, tool)

----------------------------------------------------------------------------
(* The build *)

BuildInit ==
    /\ options \in Options /\ source \in Sources
    /\ bpc = "args" /\ code = 0
    /\ work = FALSE /\ compiled = FALSE /\ steady = TRUE /\ stuck = FALSE
    /\ binary \in Sources    \* an earlier build's
    /\ entries = {}
    /\ \/ hooksJson = NoJson("absent")
       \/ hooksJson = [st |-> "old", entries |-> GenerateHooksJson(binary.modules), command |-> "root"]

Exit(c) == bpc' = "exited" /\ code' = c

(* A missing entrypoint or --out, an adapter that does not exist.          *)
CheckArgs ==
    /\ bpc = "args"
    /\ IF options.entrypoint /\ options.out # "missing" /\ options.adapter # "unsupported"
       THEN bpc' = "mkdtemp" /\ UNCHANGED code
       ELSE Exit(1)
    /\ UNCHANGED <<options, source, work, outputs, entries, compiled, steady, stuck>>

(* mkdtempSync stands before the try: if it throws, nothing is to remove.  *)
MakeWorkDir ==
    /\ bpc = "mkdtemp"
    /\ \/ work' = TRUE /\ bpc' = "wrapper" /\ UNCHANGED code
       \/ Exit(1) /\ UNCHANGED work
    /\ UNCHANGED <<options, source, outputs, entries, compiled, steady, stuck>>

FailsBug == bpc' = "clean" /\ code' \in 1 .. 2   \* the compiler's own code

(* From here on every way out leads through the finally.                   *)
Fails == bpc' = "clean" /\ code' = 1

WriteWrapper ==
    /\ bpc = "wrapper"
    /\ (bpc' = "compile" /\ UNCHANGED code) \/ Fails
    /\ UNCHANGED <<options, source, work, outputs, entries, compiled, steady, stuck>>

(* bun build reads the entrypoint as it is now; it may fail for any        *)
(* reason, and then the old binary is still there.                         *)
Compile ==
    /\ bpc = "compile"
    /\ \/ /\ source.exports # "invalid"
          /\ binary' = source /\ compiled' = TRUE /\ steady' = TRUE
          /\ bpc' = "clean" /\ UNCHANGED code
       \/ Fails /\ UNCHANGED <<binary, compiled, steady>>
    /\ UNCHANGED <<options, source, work, entries, hooksJson, stuck>>

RemoveWorkDirBug ==   \* not in a finally
    /\ bpc = "clean"
    /\ \/ work' = (code = 1) /\ UNCHANGED stuck
          /\ IF code = 0 /\ options.hooksJson THEN bpc' = "timeout" /\ UNCHANGED code ELSE Exit(code)
       \/ stuck' = TRUE /\ Exit(1) /\ UNCHANGED work
    /\ UNCHANGED <<options, source, outputs, entries, compiled, steady>>

(* The finally.  What rmSync throws takes the place of what the try        *)
(* returns.  Then the build is over, unless hooks.json is wanted.          *)
RemoveWorkDir ==
    /\ bpc = "clean"
    /\ \/ work' = FALSE /\ UNCHANGED stuck
          /\ IF code = 0 /\ options.hooksJson THEN bpc' = "timeout" /\ UNCHANGED code ELSE Exit(code)
       \/ stuck' = TRUE /\ Exit(1) /\ UNCHANGED work
    /\ UNCHANGED <<options, source, outputs, entries, compiled, steady>>

(* writeHooksJson: --hook-timeout is looked at when the binary is there.   *)
CheckTimeout ==
    /\ bpc = "timeout"
    /\ IF options.timeout = "valid" THEN bpc' = "import" /\ UNCHANGED code ELSE Exit(1)
    /\ UNCHANGED <<options, source, work, outputs, entries, compiled, steady, stuck>>

(* The entrypoint is imported as it is now.  No default export has no      *)
(* hooks, a function cannot be iterated and throws.                        *)
ImportEntry ==
    /\ bpc = "import"
    /\ IF source.exports \in {"modules", "nothing"}
       THEN /\ entries' = IF source.exports = "modules" THEN GenerateHooksJson(source.modules) ELSE {}
            /\ bpc' = "write" /\ UNCHANGED code
       ELSE Exit(1) /\ UNCHANGED entries
    /\ UNCHANGED <<options, source, work, outputs, compiled, steady, stuck>>

(* writeFileSync: opened and truncated, or not ...                         *)
WriteHooksJson ==
    /\ bpc = "write"
    /\ \/ hooksJson' = NoJson("torn") /\ bpc' = "fill" /\ UNCHANGED code
       \/ Exit(1) /\ UNCHANGED hooksJson
    /\ UNCHANGED <<options, source, work, binary, entries, compiled, steady, stuck>>

(* ... and filled, or not.                                                 *)
FillHooksJson ==
    /\ bpc = "fill"
    /\ \/ /\ hooksJson' = [st |-> "whole", entries |-> entries, command |-> BinaryCommand]
          /\ Exit(0)
       \/ Exit(1) /\ UNCHANGED hooksJson
    /\ UNCHANGED <<options, source, work, binary, entries, compiled, steady, stuck>>

(* A compiler that is running may finish what it does.                     *)
BuildKilled ==
    /\ bpc \notin {"args", "exited", "killed"}
    /\ bpc' = "killed"
    /\ \/ UNCHANGED binary
       \/ bpc = "compile" /\ source.exports # "invalid" /\ binary' = source
    /\ UNCHANGED <<options, source, code, work, entries, hooksJson, compiled, steady, stuck>>

(* The environment: somebody edits the entrypoint.                         *)
Edit ==
    /\ bpc \notin {"exited", "killed"}
    /\ source' \in Sources \ {source}
    /\ steady' = FALSE
    /\ UNCHANGED <<options, bpc, code, work, outputs, entries, compiled, stuck>>

BuildNext ==
    \/ CheckArgs \/ MakeWorkDir \/ WriteWrapper \/ Compile \/ RemoveWorkDir
    \/ CheckTimeout \/ ImportEntry \/ WriteHooksJson \/ FillHooksJson
    \/ BuildKilled \/ Edit

BuildSpec == BuildInit /\ [][BuildNext]_buildVars

----------------------------------------------------------------------------
(* The default command names the binary only if --out has no directory.    *)
Located == options.binaryCommand \/ options.out = "root"

(* When a build says that it has succeeded, every call one of the binary's *)
(* modules applies to is one the harness hands over to it ("wires the      *)
(* binary into CC", docs/SPEC.md:575), if the entrypoint was left alone    *)
(* between the compiler's look at it and the import.                       *)
WiredAsCompiled ==
    bpc = "exited" /\ code = 0 /\ options.hooksJson /\ steady /\ Located =>
        \A event \in Event, tool \in Tool, mod \in binary.modules :
            Applies(mod, event, tool) => HarnessCalls(event, tool)

(* A build that ends leaves nothing in the user's tree but its outputs,    *)
(* unless it could not; hooks.json is rewritten only for a binary that is  *)
(* there, and a torn one is never called a success.                        *)
FailureIsContained ==
    bpc = "exited" =>
        /\ work => stuck /\ code = 1
        /\ hooksJson.st \in {"torn", "whole"} => compiled
        /\ hooksJson.st = "torn" => code = 1
============================================================================
