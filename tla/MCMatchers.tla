----------------------------- MODULE MCMatchers ----------------------------
(***************************************************************************)
(* Scripts of one or two calls, one pipe, up to two redirects, or a file   *)
(* tool's event; rules of every builder over the same few names and paths. *)
(***************************************************************************)
EXTENDS Matchers

MCValues == {"push", "etc", "tmp", "key=value"}
MCNames == {"toString", "git", "rm", "cp", "mv", "curl", "bash", "ls"}

NoValues == [f \in {"-t", "-o"} |-> {}]

Call(name, args) ==
    [is |-> "call", kind |-> "plain", typed |-> name, name |-> name, args |-> args,
     flags |-> {}, values |-> NoValues, ddash |-> FALSE, operands |-> {}]

WithFlags(call, flags) == [call EXCEPT !.flags = flags]
WithValues(call, flag, values) ==
    [call EXCEPT !.flags = @ \cup {<<flag, "">>}, !.values[flag] = values]
Dd(prefix, value, word) ==
    [Call("dd", <<word>>) EXCEPT !.operands = {[prefix |-> prefix, value |-> value]}]

DynamicWord == [Call("", <<"etc">>) EXCEPT !.kind = "dynamic", !.typed = ""]      \* $X etc
SudoDynamic == [Call("sudo", <<"etc">>) EXCEPT !.kind = "opaque"]                 \* sudo $X etc

Calls ==
    {DynamicWord, SudoDynamic,
     Call("toString", << >>), WithFlags(Call("toString", << >>), {<<"-f", "">>}),
     [Call("bash", << >>) EXCEPT !.kind = "script"],                              \* bash -c '...'
     [Call("rm", <<"etc">>) EXCEPT !.kind = "wrapped"],                           \* sudo rm etc
     [Call("git", <<"push">>) EXCEPT !.typed = "/usr/bin/git"],
     [Call("git", <<"push", "etc">>) EXCEPT !.ddash = TRUE],                      \* git push -- etc
     Call("git", <<"push", DYNAMIC>>), Call("git", <<DYNAMIC, "etc">>),
     WithFlags(Call("git", <<"push">>), {<<"--force", "">>}),
     WithFlags(Call("git", <<"push">>), {<<"-f", "">>, <<"--mode", "all">>}),
     WithFlags(Call("git", <<"push">>), {<<"-D", "">>}),
     WithValues(Call("git", <<"push">>), "-o", {"etc", DYNAMIC}),
     WithValues(Call("git", <<"push">>), "-o", {"tmp", DYNAMIC}),
     WithValues(Call("git", <<"push", "tmp">>), "-o", {"tmp"}),
     WithFlags(Call("rm", <<"tmp">>), {<<"-r", "">>}),
     WithFlags(Call("rm", <<DYNAMIC>>), {<<"--recursive", "">>, <<"--force", "">>}),
     Call("cp", <<"etc", "tmp">>), Call("cp", <<"tmp", DYNAMIC>>), Call("cp", <<DYNAMIC, "tmp">>),
     WithValues(Call("cp", <<"etc">>), "-t", {"tmp"}),
     WithValues(Call("cp", <<"tmp">>), "-t", {DYNAMIC}),
     [Call("cp", <<"tmp", DYNAMIC>>) EXCEPT                                       \* cp tmp --target-directory=$D
        !.operands = {[prefix |-> "--target-directory=", value |-> DYNAMIC]}],
     Call("mv", <<"etc", "tmp">>), WithValues(Call("mv", <<"etc">>), "-t", {"tmp"}),
     Call("cat", <<"etc">>),
     Dd("of=", "etc", "key=value"), Dd("if=", DYNAMIC, DYNAMIC), Dd("of=", PARTIAL, DYNAMIC),
     [Dd("of=", "tmp", "key=value") EXCEPT                                        \* dd of=tmp bs=$N
        !.operands = @ \cup {[prefix |-> "bs=", value |-> DYNAMIC]}, !.args = Append(@, DYNAMIC)]}

Bash == [is |-> "event", tool |-> "Bash", paths |-> <<"", "", "">>]
NoRedirects == [read |-> << >>, write |-> << >>]
Script(calls) ==
    [ast |-> TRUE, calls |-> calls, pipes |-> << >>, redirects |-> NoRedirects, event |-> Bash]

Paired == {c \in Calls : c.kind # "plain" \/ c.name \in {"mv", "toString"} \/ DYNAMIC \in UNION {c.values["-o"], SetOf(c.args)}}
CallScripts == {Script(<<c>>) : c \in Calls} \cup {Script(<<c, d>>) : c, d \in Paired}

NotACommand == [kind |-> "none"]                                                  \* ( ... ) | sh
Stages == {Call("curl", <<"tmp">>), Call("bash", << >>), Call("ls", << >>), DynamicWord, SudoDynamic}
Pipe(x, y) == [is |-> "pipe", x |-> x, y |-> y]
PipeScripts ==
    {[Script(<<x, y>>) EXCEPT !.pipes = <<Pipe(x, y)>>] : x, y \in Stages}
    \cup {[Script(<<x, y, z>>) EXCEPT !.pipes = <<Pipe(x, y), Pipe(z, y)>>] : x, y, z \in Stages}
    \cup {[Script(<<y>>) EXCEPT !.pipes = <<Pipe(NotACommand, y)>>] : y \in Stages}

Targets == UNION {[1 .. n -> {[is |-> "redirect", target |-> t] : t \in {"etc", "tmp", DYNAMIC}}] : n \in 0 .. 2}
RedirectScripts ==
    {[Script(<<Call("ls", << >>)>>) EXCEPT !.redirects = [read |-> r, write |-> w]] : r, w \in Targets}

EventScripts ==
    {[Script(<< >>) EXCEPT !.ast = FALSE, !.event = [is |-> "event", tool |-> tool, paths |-> paths]] :
       tool \in {"Bash", "Read", "Write"}, paths \in [1 .. 3 -> {"", "etc", "tmp"}]}

NoScript == [Script(<< >>) EXCEPT !.ast = FALSE]
MCScripts ==
    [builder \in Builders |->
        CASE builder \in {"cmd", "allowOnly"} -> CallScripts \cup {NoScript}
          [] builder = "pipe" -> PipeScripts
          [] builder = "redirect" -> RedirectScripts
          [] builder = "path" -> EventScripts
          [] builder = "protectPath" -> CallScripts \cup RedirectScripts]

Match(flag, skip) == [kind |-> "match", flag |-> flag, test |-> {"etc"}, skip |-> skip]
GitPush == CmdRule("git", <<"push">>, FALSE, "deny")

CmdRules ==
    {CmdRule("git", <<"push">>, FALSE, d) : d \in Terminals \cup Annotations}
    \cup {CmdRule("toString", << >>, FALSE, "deny"), CmdRule("sudo", << >>, FALSE, "ask"), CmdRule("/usr/bin/git", << >>, TRUE, "deny")}
    \cup {[GitPush EXCEPT !.flags = {<<f, "">>}] : f \in {"--force", "-f", "--delete"}}
    \cup {[GitPush EXCEPT !.noFlags = {<<"--force", "">>}, !.flags = {<<"--mode", "all">>}],
          [GitPush EXCEPT !.noFlags = {<<"-f", "">>}, !.patterns = {{"etc"}}],
          [GitPush EXCEPT !.patterns = {{"etc"}, {"tmp", "push"}}, !.decision = "ask"],
          [GitPush EXCEPT !.includes = {"etc"}, !.ddash = TRUE],
          [GitPush EXCEPT !.predicates = {Match("-o", FALSE)}],
          [GitPush EXCEPT !.predicates = {Match("-o", TRUE)}],
          [GitPush EXCEPT !.predicates = {[Match("-o", FALSE) EXCEPT !.kind = "dynamic"]}],
          [CmdRule("rm", << >>, FALSE, "ask") EXCEPT !.anyOf = {{<<"-R", "">>, <<"--dir", "">>}}, !.patterns = {{"etc"}}]}

PathRules(builder) ==
    {[builder |-> builder, decision |-> d, mode |-> m, pattern |-> {"etc"}] :
       d \in {"deny", "note"}, m \in {"read", "write", "both"}}

MCRules ==
    CmdRules
    \cup {[builder |-> "allowOnly", decision |-> d, allowed |-> {"git", "ls", "sudo"}] : d \in {"deny", "warning"}}
    \cup {[builder |-> "pipe", decision |-> d, sources |-> {"curl"}, sinks |-> {"bash"}] : d \in {"deny", "ask", "note"}}
    \cup {[builder |-> "redirect", decision |-> d, any |-> a, pattern |-> {"etc"}] : d \in {"deny", "note"}, a \in BOOLEAN}
    \cup PathRules("path") \cup PathRules("protectPath")

(* What the theorem on DoubtIsReal takes for granted.                      *)
ASSUME MCRulesCanMatch == RulesCanMatch

============================================================================
