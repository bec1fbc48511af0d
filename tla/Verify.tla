------------------------------- MODULE Verify ------------------------------
(***************************************************************************)
(* scripts/verify: runs the checks of the repository one after the other,  *)
(* collects their results and exits with 0 only if all that were selected  *)
(* have passed.  Some make sense only against a base ref, which is given   *)
(* or found out from git.  One check, the scan for suppressions without a  *)
(* reason, is modelled by SuppressScan; the others may pass or fail.       *)
(***************************************************************************)
EXTENDS SuppressScan

CONSTANTS
    CoreChecks, PrOnlyChecks,   \* sequences of names
    ScanCheck,                  \* the one that SuppressScan is
    Name                        \* what --only and --skip may name

Core == ToSet(CoreChecks)
AllCheckNames == Core \cup ToSet(PrOnlyChecks)

(* base: "" is an empty argument.  restricted: --only was given.           *)
Args == [usage : {"ok", "help", "error"}, base : {"none", "", "ref"}, restricted : BOOLEAN, only : SUBSET Name, skip : SUBSET Name]
File == [listed : BOOLEAN, readable : BOOLEAN, lines : Seq(Seq(Token))]

ASSUME VerifyConstants ==
    /\ CoreChecks \in Seq(Name) /\ PrOnlyChecks \in Seq(Name)
    /\ ScanCheck \in Core

(* What git says: where HEAD is, what origin/HEAD is a name for, and       *)
(* whether that name (or origin/main) can be resolved.                     *)
Git == [head : {"unknown", "at default", "elsewhere"}, originHead : {"unknown", "named", "blank"},
        default : {"unknown", "known"}]

VARIABLES
    args, file, git,
    vpc,       \* where verify is
    base,      \* a base ref was found
    left,      \* the checks that are still to be looked at
    results,   \* those that have run, with what they said
    vcode      \* the exit code

verifyVars == <<args, file, git, vpc, base, left, results, vcode>>
inputs == <<args, file, git>>

VerifyTypeOK ==
    /\ args \in Args /\ file \in File /\ git \in Git
    /\ vpc \in {"args", "names", "base", "run", "exited"}
    /\ base \in BOOLEAN
    /\ left \in Seq(AllCheckNames)
    /\ results \in Seq([name : AllCheckNames, ok : BOOLEAN])
    /\ vcode \in 0 .. 2

VerifyStart ==
    /\ vpc = "args" /\ base = FALSE /\ left = << >> /\ results = << >> /\ vcode = 0

VerifyExit(c) == vpc' = "exited" /\ vcode' = c
Goto(where) == vpc' = where /\ UNCHANGED vcode

(* parseArgs throws an ArgError, with code 0 for --help.                   *)
ParseArgs ==
    /\ vpc = "args"
    /\ CASE args.usage = "ok" -> Goto("names")
         [] args.usage = "help" -> VerifyExit(0)
         [] args.usage = "error" -> VerifyExit(2)
    /\ UNCHANGED <<inputs, base, left, results>>

(* Unknown names are an error whether or not a base will be found.         *)
CheckNames ==
    /\ vpc = "names"
    /\ IF args.only \cup args.skip \subseteq AllCheckNames THEN Goto("base") ELSE VerifyExit(2)
    /\ UNCHANGED <<inputs, base, left, results>>

(* resolveBase: off the default branch, if that can be told.               *)
BaseFound ==
    \/ args.base = "ref"
    \/ git.originHead # "blank" /\ git.default = "known" /\ git.head # "at default"

ResolveBase ==
    /\ vpc = "base"
    /\ base' = BaseFound
    /\ left' = IF base' THEN CoreChecks \o PrOnlyChecks ELSE CoreChecks
    /\ Goto("run")
    /\ UNCHANGED <<inputs, results>>

Selected(name) == (args.restricted => name \in args.only) /\ name \notin args.skip

PassOver ==
    /\ vpc = "run" /\ left # << >> /\ ~Selected(Head(left))
    /\ left' = Tail(left)
    /\ UNCHANGED <<inputs, vpc, base, results, vcode>>

(* All checks are run, whatever the ones before have said.                 *)
RunCheck ==
    /\ vpc = "run" /\ left # << >> /\ Selected(Head(left))
    /\ left' = Tail(left)
    /\ \E ok \in BOOLEAN :
          /\ Head(left) = ScanCheck => ok = (ScanExit(file) = 0)
          /\ results' = Append(results, [name |-> Head(left), ok |-> ok])
    /\ UNCHANGED <<inputs, vpc, base, vcode>>

SummarizeBug ==   \* nothing ran, nothing failed
    /\ vpc = "run" /\ left = << >>
    /\ VerifyExit(IF \E n \in DOMAIN results : ~results[n].ok THEN 1 ELSE 0)
    /\ UNCHANGED <<inputs, base, left, results>>

(* Nothing that ran is never a success.                                    *)
Summarize ==
    /\ vpc = "run" /\ left = << >>
    /\ VerifyExit(IF results = << >> THEN 2 ELSE IF \E n \in DOMAIN results : ~results[n].ok THEN 1 ELSE 0)
    /\ UNCHANGED <<inputs, base, left, results>>

VerifyInit == args \in Args /\ git \in Git /\ file \in File /\ VerifyStart

VerifyNext == ParseArgs \/ CheckNames \/ ResolveBase \/ PassOver \/ RunCheck \/ Summarize

----------------------------------------------------------------------------
(* A green run has checked something, and all it was to check: the core,   *)
(* and on a branch with a base what is for pull requests only; and if the  *)
(* scan was among it, every directive in a file it has read has its        *)
(* reason, as long as the file is Plain: the scan misses directives in     *)
(* forms it does not know.                                                 *)
GreenMeansChecked ==
    vpc = "exited" /\ vcode = 0 /\ args.usage = "ok" =>
        /\ results # << >>
        /\ \A name \in IF BaseFound THEN AllCheckNames ELSE Core :
              Selected(name) => [name |-> name, ok |-> TRUE] \in ToSet(results)
        /\ Selected(ScanCheck) /\ file.listed /\ Plain(file.lines) => AllJustified(file.lines)

(* In a file with no opening of a block comment in a literal or behind     *)
(* slashes, the scan takes no inside of a block comment for code, and      *)
(* reports a line only for a directive without a reason, unless something  *)
(* on it just looks like a directive.  (The comment on                     *)
(* advanceBlockCommentState has it that an opening in a string can only    *)
(* hide something.  It can also reveal: behind it an opening that overlaps *)
(* a close is taken for the close.)                                        *)
RedMeansDirective == OnlyDirectives(file.lines)
============================================================================
