---------------------------- MODULE SuppressScan ----------------------------
(***************************************************************************)
(* check-suppress-comments: each suppression of a linter needs a reason.   *)
(* The scanner works line by line, with one bit carried from a line to the *)
(* next: whether a block comment is open.  Beside it stands what a lexer   *)
(* of the language makes of the same lines.                                *)
(*                                                                         *)
(* A line is a sequence of the characters that comments are made of, of    *)
(* quotes, which begin and end a literal, and of markers and other text.   *)
(* A marker is the name of a directive with what follows its separator;    *)
(* "reason" says whether that, or a text, passes the policy.  Blanks are   *)
(* left out.                                                               *)
(***************************************************************************)
EXTENDS Naturals, Sequences, SequencesExt

Priority == <<"biome-ignore-all", "biome-ignore", "eslint-disable", "ts-ignore">>
Marker == [is : ToSet(Priority), reason : BOOLEAN]
Token == Marker \cup [is : {"text"}, reason : BOOLEAN] \cup [is : {"/", "*", "quote"}, reason : {FALSE}]

(* What f makes of start, element by element: Along(f, start, s)[n] is the *)
(* state behind the first n elements of s.                                 *)
Along(f(_, _), start, s) ==
    LET after[n \in 0 .. Len(s)] == IF n = 0 THEN start ELSE f(after[n - 1], s[n])
    IN  after

----------------------------------------------------------------------------
(* The scanner *)

(* advanceBlockCommentState looks for the next opening outside a block and *)
(* for the next close inside one; literals and line comments are not told  *)
(* apart.  "/" and "*" in a state stand for a first half that was read.    *)
Step(state, token) ==
    CASE state \in {"out", "out/"} -> IF state = "out/" /\ token.is = "*" THEN "in"
                                      ELSE IF token.is = "/" THEN "out/" ELSE "out"
      [] state \in {"in", "in*"} -> IF state = "in*" /\ token.is = "/" THEN "out"
                                    ELSE IF token.is = "*" THEN "in*" ELSE "in"

AdvanceBug(open, line) ==   \* one opening or close is all that is looked for
    LET Has(a, b) == \E i \in 2 .. Len(line) : line[i - 1].is = a /\ line[i].is = b
    IN  IF open THEN ~Has("*", "/") ELSE Has("/", "*")

AdvanceBlockCommentState(open, line) ==
    Along(Step, IF open THEN "in" ELSE "out", line)[Len(line)] \in {"in", "in*"}

(* Where the regular expressions match: directly behind what opens a       *)
(* comment, whether or not it does so here.  Those of TypeScript need //.  *)
MarkersAt(line) ==
    {i \in 3 .. Len(line) :
        /\ line[i] \in Marker
        /\ line[i - 2].is = "/"
        /\ line[i - 1].is \in IF line[i].is = "ts-ignore" THEN {"/"} ELSE {"/", "*"}}

(* findMarker: the first marker of the first kind that is on the line.     *)
FoundAt(line) ==
    LET kinds == {k \in 1 .. 4 : \E i \in MarkersAt(line) : line[i].is = Priority[k]}
        kind == Priority[CHOOSE k \in kinds : \A m \in kinds : k <= m]
        those == {i \in MarkersAt(line) : line[i].is = kind}
    IN  IF kinds = {} THEN 0 ELSE CHOOSE i \in those : \A j \in those : i <= j

(* extractAboveReason: the line above is a comment from its beginning, of  *)
(* either form, without a marker of its own.                               *)
AboveReason(line) ==
    /\ FoundAt(line) = 0
    /\ Len(line) > 1 /\ line[1].is = "/"
    /\ \/ line[2].is = "/"
       \/ line[2].is = "*" /\ Len(line) > 3 /\ line[Len(line) - 1].is = "*" /\ Last(line).is = "/"
    /\ \E i \in DOMAIN line : line[i].reason

(* resolveReason and validateReason.                                       *)
Justified(lines, n, marker) ==
    marker.reason \/ (marker.is = "ts-ignore" /\ n > 1 /\ AboveReason(lines[n - 1]))

(* scanContent: the lines that are reported.  A line that begins in a      *)
(* block is passed over.                                                   *)
Violations(lines) ==
    LET open == Along(AdvanceBlockCommentState, FALSE, lines)
    IN  {n \in DOMAIN lines :
            /\ ~open[n - 1]
            /\ FoundAt(lines[n]) # 0
            /\ ~Justified(lines, n, lines[n][FoundAt(lines[n])])}

(* main with --all, for a tree with one file.  A directory that cannot be  *)
(* listed is passed over, a file that cannot be read is an error.          *)
ScanExit(file) ==
    IF ~file.listed THEN 0
    ELSE IF ~file.readable THEN 2
    ELSE IF Violations(file.lines) = {} THEN 0 ELSE 1

----------------------------------------------------------------------------
(* The language *)

(* "slash" and "star" are the first halves, outside and inside a block.    *)
Lex(state, token) ==
    CASE state \in {"code", "slash"} /\ token.is = "quote" -> "string"
      [] state = "code" /\ token.is = "/" -> "slash"
      [] state = "slash" /\ token.is = "/" -> "line"
      [] state = "slash" /\ token.is = "*" -> "block"
      [] state = "slash" /\ token.is \notin {"/", "*", "quote"} -> "code"
      [] state \in {"block", "star"} /\ token.is = "*" -> "star"
      [] state = "star" /\ token.is = "/" -> "code"
      [] state = "star" /\ token.is \notin {"/", "*"} -> "block"
      [] state = "string" /\ token.is = "quote" -> "code"
      [] OTHER -> state

(* The lexer's state after a line: a line comment ends with it, a block    *)
(* comment and a template do not.                                          *)
LexLine(state, line) ==
    LET end == Along(Lex, state, line)[Len(line)]
    IN  IF end \in {"block", "star"} THEN "block" ELSE IF end = "string" THEN "string" ELSE "code"

StartOf(lines, n) == Along(LexLine, "code", lines)[n - 1]

(* Where one of the linters may honour a directive: at the beginning of a  *)
(* comment of either form, or of a later line of a block comment; further  *)
(* slashes and stars do not count.                                         *)
Directives(lines, n) ==
    LET line == lines[n]
        states == Along(Lex, StartOf(lines, n), line)
        Opened(i) == \/ i = 0 /\ states[0] = "block"
                     \/ i > 1 /\ states[i - 1] = "slash" /\ states[i] \in {"line", "block"}
    IN  {i \in DOMAIN line :
            /\ line[i] \in Marker
            /\ states[i - 1] \in {"line", "block", "star"}
            /\ \E o \in 0 .. i - 1 : Opened(o) /\ \A k \in o + 1 .. i - 1 : line[k].is \in {"/", "*"}}

(* No opening of a block comment stands in a literal or behind //.         *)
Candid(lines) ==
    \A n \in DOMAIN lines :
        LET states == Along(Lex, StartOf(lines, n), lines[n])
        IN  \A i \in 2 .. Len(lines[n]) :
                lines[n][i - 1].is = "/" /\ lines[n][i].is = "*" => states[i - 1] \notin {"line", "string"}

(* Moreover, each directive is in a form the scanner knows (no TypeScript  *)
(* in a block comment, no further slash or star, no later line of a block, *)
(* none on the line where a block ends), and is all that looks like one on *)
(* its line.                                                               *)
Plain(lines) ==
    /\ Candid(lines)
    /\ \A n \in DOMAIN lines :
          /\ Directives(lines, n) \subseteq MarkersAt(lines[n])
          /\ Directives(lines, n) # {} => \A i, j \in MarkersAt(lines[n]) : i = j
          /\ StartOf(lines, n) = "block" => Directives(lines, n) = {}

----------------------------------------------------------------------------
(* In a candid file what is reported is no documentation: its line does    *)
(* not begin inside a block comment.  And if all that looks like a         *)
(* directive on the line is one, one of them has no reason.                *)
OnlyDirectives(lines) ==
    Candid(lines) =>
        \A n \in Violations(lines) :
            /\ StartOf(lines, n) # "block"
            /\ MarkersAt(lines[n]) \subseteq Directives(lines, n) =>
                  \E i \in Directives(lines, n) : ~Justified(lines, n, lines[n][i])

(* Every directive has its reason.                                         *)
AllJustified(lines) ==
    \A n \in DOMAIN lines : \A i \in Directives(lines, n) : Justified(lines, n, lines[n][i])
============================================================================
