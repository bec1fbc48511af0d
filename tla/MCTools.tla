------------------------------ MODULE MCTools ------------------------------
(***************************************************************************)
(* Tools with eight entrypoints and with files of up to three short lines. *)
(***************************************************************************)
EXTENDS Tools

CONSTANTS pre, post, edit, bash

Mod(on, events, matchers) == [enabled |-> on, events |-> events, matchers |-> matchers]
Export(exports, modules) == [exports |-> exports, modules |-> modules]

(* A guard for all tools; one with two matchers, one of two alternatives   *)
(* or the other; one that is off; the same events for different tools.     *)
MCSources ==
    {Export("modules", {Mod(TRUE, {pre, post}, {})}),
     Export("modules", {Mod(TRUE, {pre}, {{bash}, {edit}}), Mod(FALSE, {post}, {})}),
     Export("modules", {Mod(TRUE, {pre}, {{bash}}), Mod(TRUE, {pre, post}, {{edit}})}),
     Export("modules", {Mod(TRUE, {post}, {{bash, edit}}), Mod(TRUE, {pre}, {{}})}),
     Export("function", {Mod(TRUE, {pre}, {{bash}})}),
     Export("throws", {Mod(TRUE, {pre}, {})}),
     Export("nothing", {}), Export("invalid", {})}

T(is) == [is |-> is, reason |-> FALSE]
Justifying(is) == [is |-> is, reason |-> TRUE]

Upto(n, S) == UNION {[1 .. m -> S] : m \in 0 .. n}

(* Lines are put together from these.  A file has one line of up to three  *)
(* pieces, two lines of two, or three lines of up to two of fewer pieces.  *)
LineComment == <<T("/"), T("/")>>
Opening == <<T("/"), T("*")>>
Close == <<T("*"), T("/")>>
FewPieces == {LineComment, Opening, Close, <<T("eslint-disable")>>, <<T("ts-ignore")>>, <<Justifying("text")>>}
MCPieces == FewPieces \cup {<<T(is)>> : is \in {"/", "*", "quote", "text", "biome-ignore"}}
                      \cup {<<Justifying("eslint-disable")>>, <<Justifying("biome-ignore-all")>>}
Lines(n, pieces) == {FlattenSeq(line) : line \in Upto(n, pieces)}
Plainly(lines) == [listed |-> TRUE, readable |-> TRUE, lines |-> lines]
Bare == <<LineComment \o <<T("eslint-disable")>>>>

MCFewFiles ==
    {Plainly(<<Opening \o <<Justifying("text")>> \o Close>>)}
        \cup {[Plainly(Bare) EXCEPT !.listed = l, !.readable = r] : l, r \in BOOLEAN}
MCFiles ==
    MCFewFiles \cup {Plainly(lines) :
                        lines \in Upto(1, Lines(3, MCPieces)) \cup Upto(2, Lines(2, MCPieces))
                                     \cup Upto(3, Lines(2, FewPieces))}

MCCore == <<"typecheck", "scan">>
MCPrOnly == <<"changelog">>
MCName == {"typecheck", "scan", "changelog", "typo"}
AllChecks == [usage |-> "ok", base |-> "none", restricted |-> FALSE, only |-> {}, skip |-> {}]
OnlyScan == [AllChecks EXCEPT !.restricted = TRUE, !.only = {"scan"}]
MCCommandLines ==
    {[AllChecks EXCEPT !.base = b, !.restricted = TRUE, !.only = o, !.skip = s] :
        b \in {"none", "", "ref"}, o \in SUBSET MCName, s \in {{}, {"typo"}, {"changelog"}, {"scan"}}}
        \cup {[AllChecks EXCEPT !.base = b, !.skip = s] :
                  b \in {"none", "", "ref"}, s \in {{}, {"typo"}, {"changelog"}, {"scan"}, {"typecheck", "scan"}}}
        \cup {[AllChecks EXCEPT !.usage = u] : u \in {"help", "error"}}

NoGit == [head |-> "unknown", originHead |-> "unknown", default |-> "unknown"]
NoBuild == [entrypoint |-> FALSE, out |-> "missing", adapter |-> "shell", binaryCommand |-> FALSE,
            hooksJson |-> FALSE, timeout |-> "missing"]

(* A run of verify has any command line and few files, or any file and one *)
(* command line.                                                           *)
MCInit ==
    \/ /\ tool = "build"
       /\ BuildInit
       /\ args = AllChecks /\ git = NoGit /\ file = Plainly(Bare) /\ VerifyStart
    \/ /\ tool = "verify"
       /\ options = NoBuild /\ source = Export("nothing", {}) /\ binary = source
       /\ hooksJson = NoJson("absent") /\ BuildInit
       /\ \/ args \in MCCommandLines /\ git \in Git /\ file \in MCFewFiles
          \/ args = OnlyScan /\ git = NoGit /\ file \in MCFiles
       /\ VerifyStart

MCSpec == MCInit /\ [][Next]_vars
============================================================================
