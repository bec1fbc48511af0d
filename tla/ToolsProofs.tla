---------------------------- MODULE ToolsProofs ----------------------------
(***************************************************************************)
(* What the two tools of the repository promise, for every set of modules  *)
(* and of checks and for every file the scan reads: the build wires what   *)
(* it compiled and contains its failures, the gate is green only of what   *)
(* it checked.                                                             *)
(*                                                                         *)
(* The scan of a file is a run along the characters of its lines.  The     *)
(* first part shows that such a run exists and satisfies its equation; the *)
(* facts about lines then go by induction, as Climb of NatFacts.           *)
(***************************************************************************)
EXTENDS Tools, NatFacts

----------------------------------------------------------------------------
(* The states along a sequence *)

(* A function that takes a step for each element has a run over any        *)
(* sequence.                                                               *)
IsRun(g, F, start, s) ==
    g[0] = start /\ \A n \in 1 .. Len(s) : g[n] = F[g[n - 1]][s[n]]

LEMMA RunExists ==
    ASSUME NEW V, NEW E, NEW F \in [V -> [E -> V]], NEW start \in V, NEW s \in Seq(E)
    PROVE  \E g \in [0 .. Len(s) -> V] : IsRun(g, F, start, s)
<1>. DEFINE Runs(m) == {g \in [0 .. m -> V] :
                          g[0] = start /\ \A n \in 1 .. m : g[n] = F[g[n - 1]][s[n]]}
            T == {m \in Nat : Runs(m) # {}}
<1>1. 0 \in T
    <2>1. [i \in 0 .. 0 |-> start] \in Runs(0)
        OBVIOUS
    <2>. QED BY <2>1
<1>2. ASSUME NEW m \in 0 .. Len(s) - 1, m \in T
      PROVE  m + 1 \in T
    <2>1. PICK g \in [0 .. m -> V] : g[0] = start /\ \A n \in 1 .. m : g[n] = F[g[n - 1]][s[n]]
        BY <1>2
    <2>. DEFINE h == [i \in 0 .. m + 1 |-> IF i <= m THEN g[i] ELSE F[g[m]][s[m + 1]]]
    <2>2. m \in Nat /\ m + 1 \in 1 .. Len(s) /\ s[m + 1] \in E /\ g[m] \in V
        OBVIOUS
    <2>3. F[g[m]][s[m + 1]] \in V
        BY <2>2
    <2>4. h \in [0 .. m + 1 -> V]
        BY <2>1, <2>2, <2>3
    <2>5. ASSUME NEW n \in 1 .. m + 1
          PROVE  h[n] = F[h[n - 1]][s[n]]
        <3>1. CASE n = m + 1
            <4>1. n - 1 = m /\ n \in 0 .. m + 1 /\ m \in 0 .. m + 1 /\ m <= m /\ ~(n <= m)
                BY <2>2, <3>1
            <4>2. h[n - 1] = g[m] /\ h[n] = F[g[m]][s[m + 1]]
                BY <4>1
            <4>. QED BY <3>1, <4>2
        <3>2. CASE n # m + 1
            <4>1. n \in 1 .. m /\ n - 1 \in 0 .. m /\ n <= m /\ n - 1 <= m
                BY <2>2, <3>2
            <4>2. h[n] = g[n] /\ h[n - 1] = g[n - 1]
                BY <2>2, <4>1
            <4>. QED BY <2>1, <4>1, <4>2
        <3>. QED BY <3>1, <3>2
    <2>6. h[0] = start
        BY <2>1, <2>2
    <2>7. h \in Runs(m + 1)
        BY <2>4, <2>5, <2>6
    <2>8. m + 1 \in Nat
        BY <2>2
    <2>. HIDE DEF Runs
    <2>. QED BY <2>7, <2>8
<1>3. Len(s) \in T
    <2>1. Len(s) \in Nat
        OBVIOUS
    <2>2. \A m \in 0 .. Len(s) : m \in T
        <3>. HIDE DEF T
        <3>. QED BY <1>1, <1>2, <2>1, Climb
    <2>. HIDE DEF T
    <2>. QED BY <2>1, <2>2
<1>4. PICK g \in [0 .. Len(s) -> V] :
          g[0] = start /\ \A n \in 1 .. Len(s) : g[n] = F[g[n - 1]][s[n]]
    BY <1>3
<1>. QED BY <1>4 DEF IsRun

(* What holds at the start and is kept by each step holds all along.       *)
LEMMA AllAlong ==
    ASSUME NEW length \in Nat, NEW S, 0 \in S,
           \A n \in 1 .. length : n - 1 \in S => n \in S
    PROVE  \A n \in 0 .. length : n \in S
<1>1. ASSUME NEW n \in 0 .. length - 1, n \in S
      PROVE  n + 1 \in S
    <2>1. n + 1 \in 1 .. length /\ (n + 1) - 1 = n
        OBVIOUS
    <2>. QED BY <1>1, <2>1
<1>. QED BY <1>1, Climb

(* The four runs of the model are such runs: they satisfy the equation     *)
(* that defines them.                                                      *)
ScanState == {"out", "out/", "in", "in*"}

LEMMA StepAlong ==
    ASSUME NEW state \in ScanState, NEW line \in Seq(Token)
    PROVE  /\ Along(Step, state, line) \in [0 .. Len(line) -> ScanState]
           /\ Along(Step, state, line)[0] = state
           /\ \A n \in 1 .. Len(line) :
                 Along(Step, state, line)[n] = Step(Along(Step, state, line)[n - 1], line[n])
<1>. DEFINE F == [a \in ScanState |-> [e \in Token |-> Step(a, e)]]
            after == Along(Step, state, line)
            T == {n \in 0 .. Len(line) : after[n] \in ScanState}
<1>1. ASSUME NEW a \in ScanState, NEW e \in Token
      PROVE  Step(a, e) \in ScanState /\ F[a][e] = Step(a, e)
    BY DEF Step, ScanState
<1>2. Len(line) \in Nat /\ \A n \in 1 .. Len(line) : line[n] \in Token /\ n \in 0 .. Len(line) /\ n # 0
    OBVIOUS
<1>3. F \in [ScanState -> [Token -> ScanState]]
    BY <1>1
<1>. HIDE DEF F
<1>4. PICK g \in [0 .. Len(line) -> ScanState] :
          g[0] = state /\ \A n \in 1 .. Len(line) : g[n] = Step(g[n - 1], line[n])
    <2>1. \E g \in [0 .. Len(line) -> ScanState] : IsRun(g, F, state, line)
        BY <1>3, RunExists
    <2>2. PICK g \in [0 .. Len(line) -> ScanState] : IsRun(g, F, state, line)
        BY <2>1
    <2>3. ASSUME NEW n \in 1 .. Len(line)
          PROVE  g[n] = Step(g[n - 1], line[n])
        <3>1. n - 1 \in 0 .. Len(line)
            BY <1>2
        <3>2. g[n - 1] \in ScanState /\ line[n] \in Token
            BY <1>2, <3>1
        <3>3. g[n] = F[g[n - 1]][line[n]]
            BY <2>2 DEF IsRun
        <3>. QED BY <1>1, <3>2, <3>3
    <2>. QED BY <2>2, <2>3 DEF IsRun
<1>5. g = [n \in 0 .. Len(line) |-> IF n = 0 THEN state ELSE Step(g[n - 1], line[n])]
    <2>1. ASSUME NEW n \in 0 .. Len(line)
          PROVE  g[n] = IF n = 0 THEN state ELSE Step(g[n - 1], line[n])
        BY <1>4
    <2>. QED BY <2>1
<1>6. after = [n \in 0 .. Len(line) |-> IF n = 0 THEN state ELSE Step(after[n - 1], line[n])]
    BY <1>5 DEF Along
<1>. HIDE DEF after
<1>7. ASSUME NEW n \in 0 .. Len(line)
      PROVE  after[n] = IF n = 0 THEN state ELSE Step(after[n - 1], line[n])
    BY <1>6, Zenon
<1>8. after[0] = state /\ \A n \in 1 .. Len(line) : after[n] = Step(after[n - 1], line[n])
    <2>1. 0 \in 0 .. Len(line)
        BY <1>2
    <2>. QED BY <1>2, <1>7, <2>1, Zenon
<1>9. \A n \in 0 .. Len(line) : n \in T
    <2>1. 0 \in T
        BY <1>2, <1>8
    <2>2. ASSUME NEW n \in 1 .. Len(line), n - 1 \in T
          PROVE  n \in T
        <3>1. after[n - 1] \in ScanState /\ line[n] \in Token /\ n \in 0 .. Len(line)
            BY <1>2, <2>2
        <3>2. after[n] = Step(after[n - 1], line[n])
            BY <1>8
        <3>. QED BY <1>1, <3>1, <3>2
    <2>. HIDE DEF T
    <2>. QED BY <1>2, <2>1, <2>2, AllAlong
<1>10. after \in [0 .. Len(line) -> ScanState]
    BY <1>6, <1>9
<1>. QED BY <1>8, <1>10 DEF after

LexState == {"code", "slash", "line", "block", "star", "string"}

LEMMA LexAlong ==
    ASSUME NEW state \in LexState, NEW line \in Seq(Token)
    PROVE  /\ Along(Lex, state, line) \in [0 .. Len(line) -> LexState]
           /\ Along(Lex, state, line)[0] = state
           /\ \A n \in 1 .. Len(line) :
                 Along(Lex, state, line)[n] = Lex(Along(Lex, state, line)[n - 1], line[n])
<1>. DEFINE F == [a \in LexState |-> [e \in Token |-> Lex(a, e)]]
            after == Along(Lex, state, line)
            T == {n \in 0 .. Len(line) : after[n] \in LexState}
<1>1. ASSUME NEW a \in LexState, NEW e \in Token
      PROVE  Lex(a, e) \in LexState /\ F[a][e] = Lex(a, e)
    BY DEF Lex, LexState
<1>2. Len(line) \in Nat /\ \A n \in 1 .. Len(line) : line[n] \in Token /\ n \in 0 .. Len(line) /\ n # 0
    OBVIOUS
<1>3. F \in [LexState -> [Token -> LexState]]
    BY <1>1
<1>. HIDE DEF F
<1>4. PICK g \in [0 .. Len(line) -> LexState] :
          g[0] = state /\ \A n \in 1 .. Len(line) : g[n] = Lex(g[n - 1], line[n])
    <2>1. \E g \in [0 .. Len(line) -> LexState] : IsRun(g, F, state, line)
        BY <1>3, RunExists
    <2>2. PICK g \in [0 .. Len(line) -> LexState] : IsRun(g, F, state, line)
        BY <2>1
    <2>3. ASSUME NEW n \in 1 .. Len(line)
          PROVE  g[n] = Lex(g[n - 1], line[n])
        <3>1. n - 1 \in 0 .. Len(line)
            BY <1>2
        <3>2. g[n - 1] \in LexState /\ line[n] \in Token
            BY <1>2, <3>1
        <3>3. g[n] = F[g[n - 1]][line[n]]
            BY <2>2 DEF IsRun
        <3>. QED BY <1>1, <3>2, <3>3
    <2>. QED BY <2>2, <2>3 DEF IsRun
<1>5. g = [n \in 0 .. Len(line) |-> IF n = 0 THEN state ELSE Lex(g[n - 1], line[n])]
    <2>1. ASSUME NEW n \in 0 .. Len(line)
          PROVE  g[n] = IF n = 0 THEN state ELSE Lex(g[n - 1], line[n])
        BY <1>4
    <2>. QED BY <2>1
<1>6. after = [n \in 0 .. Len(line) |-> IF n = 0 THEN state ELSE Lex(after[n - 1], line[n])]
    BY <1>5 DEF Along
<1>. HIDE DEF after
<1>7. ASSUME NEW n \in 0 .. Len(line)
      PROVE  after[n] = IF n = 0 THEN state ELSE Lex(after[n - 1], line[n])
    BY <1>6, Zenon
<1>8. after[0] = state /\ \A n \in 1 .. Len(line) : after[n] = Lex(after[n - 1], line[n])
    <2>1. 0 \in 0 .. Len(line)
        BY <1>2
    <2>. QED BY <1>2, <1>7, <2>1, Zenon
<1>9. \A n \in 0 .. Len(line) : n \in T
    <2>1. 0 \in T
        BY <1>2, <1>8
    <2>2. ASSUME NEW n \in 1 .. Len(line), n - 1 \in T
          PROVE  n \in T
        <3>1. after[n - 1] \in LexState /\ line[n] \in Token /\ n \in 0 .. Len(line)
            BY <1>2, <2>2
        <3>2. after[n] = Lex(after[n - 1], line[n])
            BY <1>8
        <3>. QED BY <1>1, <3>1, <3>2
    <2>. HIDE DEF T
    <2>. QED BY <1>2, <2>1, <2>2, AllAlong
<1>10. after \in [0 .. Len(line) -> LexState]
    BY <1>6, <1>9
<1>. QED BY <1>8, <1>10 DEF after

Line == Seq(Token)

LEMMA AdvanceAlong ==
    ASSUME NEW open \in BOOLEAN, NEW lines \in Seq(Line)
    PROVE  /\ Along(AdvanceBlockCommentState, open, lines) \in [0 .. Len(lines) -> BOOLEAN]
           /\ Along(AdvanceBlockCommentState, open, lines)[0] = open
           /\ \A n \in 1 .. Len(lines) :
                 Along(AdvanceBlockCommentState, open, lines)[n] = AdvanceBlockCommentState(Along(AdvanceBlockCommentState, open, lines)[n - 1], lines[n])
<1>. DEFINE F == [a \in BOOLEAN |-> [e \in Line |-> AdvanceBlockCommentState(a, e)]]
            after == Along(AdvanceBlockCommentState, open, lines)
            T == {n \in 0 .. Len(lines) : after[n] \in BOOLEAN}
<1>1. ASSUME NEW a \in BOOLEAN, NEW e \in Line
      PROVE  AdvanceBlockCommentState(a, e) \in BOOLEAN /\ F[a][e] = AdvanceBlockCommentState(a, e)
    BY DEF AdvanceBlockCommentState
<1>2. Len(lines) \in Nat /\ \A n \in 1 .. Len(lines) : lines[n] \in Line /\ n \in 0 .. Len(lines) /\ n # 0
    OBVIOUS
<1>3. F \in [BOOLEAN -> [Line -> BOOLEAN]]
    BY <1>1
<1>. HIDE DEF F
<1>4. PICK g \in [0 .. Len(lines) -> BOOLEAN] :
          g[0] = open /\ \A n \in 1 .. Len(lines) : g[n] = AdvanceBlockCommentState(g[n - 1], lines[n])
    <2>1. \E g \in [0 .. Len(lines) -> BOOLEAN] : IsRun(g, F, open, lines)
        BY <1>3, RunExists
    <2>2. PICK g \in [0 .. Len(lines) -> BOOLEAN] : IsRun(g, F, open, lines)
        BY <2>1
    <2>3. ASSUME NEW n \in 1 .. Len(lines)
          PROVE  g[n] = AdvanceBlockCommentState(g[n - 1], lines[n])
        <3>1. n - 1 \in 0 .. Len(lines)
            BY <1>2
        <3>2. g[n - 1] \in BOOLEAN /\ lines[n] \in Line
            BY <1>2, <3>1
        <3>3. g[n] = F[g[n - 1]][lines[n]]
            BY <2>2 DEF IsRun
        <3>. QED BY <1>1, <3>2, <3>3
    <2>. QED BY <2>2, <2>3 DEF IsRun
<1>5. g = [n \in 0 .. Len(lines) |-> IF n = 0 THEN open ELSE AdvanceBlockCommentState(g[n - 1], lines[n])]
    <2>1. ASSUME NEW n \in 0 .. Len(lines)
          PROVE  g[n] = IF n = 0 THEN open ELSE AdvanceBlockCommentState(g[n - 1], lines[n])
        BY <1>4
    <2>. QED BY <2>1
<1>6. after = [n \in 0 .. Len(lines) |-> IF n = 0 THEN open ELSE AdvanceBlockCommentState(after[n - 1], lines[n])]
    BY <1>5 DEF Along
<1>. HIDE DEF after
<1>7. ASSUME NEW n \in 0 .. Len(lines)
      PROVE  after[n] = IF n = 0 THEN open ELSE AdvanceBlockCommentState(after[n - 1], lines[n])
    BY <1>6, Zenon
<1>8. after[0] = open /\ \A n \in 1 .. Len(lines) : after[n] = AdvanceBlockCommentState(after[n - 1], lines[n])
    <2>1. 0 \in 0 .. Len(lines)
        BY <1>2
    <2>. QED BY <1>2, <1>7, <2>1, Zenon
<1>9. \A n \in 0 .. Len(lines) : n \in T
    <2>1. 0 \in T
        BY <1>2, <1>8
    <2>2. ASSUME NEW n \in 1 .. Len(lines), n - 1 \in T
          PROVE  n \in T
        <3>1. after[n - 1] \in BOOLEAN /\ lines[n] \in Line /\ n \in 0 .. Len(lines)
            BY <1>2, <2>2
        <3>2. after[n] = AdvanceBlockCommentState(after[n - 1], lines[n])
            BY <1>8
        <3>. QED BY <1>1, <3>1, <3>2
    <2>. HIDE DEF T
    <2>. QED BY <1>2, <2>1, <2>2, AllAlong
<1>10. after \in [0 .. Len(lines) -> BOOLEAN]
    BY <1>6, <1>9
<1>. QED BY <1>8, <1>10 DEF after

LineStart == {"code", "block", "string"}

LEMMA LexLineAlong ==
    ASSUME NEW state \in LineStart, NEW lines \in Seq(Line)
    PROVE  /\ Along(LexLine, state, lines) \in [0 .. Len(lines) -> LineStart]
           /\ Along(LexLine, state, lines)[0] = state
           /\ \A n \in 1 .. Len(lines) :
                 Along(LexLine, state, lines)[n] = LexLine(Along(LexLine, state, lines)[n - 1], lines[n])
<1>. DEFINE F == [a \in LineStart |-> [e \in Line |-> LexLine(a, e)]]
            after == Along(LexLine, state, lines)
            T == {n \in 0 .. Len(lines) : after[n] \in LineStart}
<1>1. ASSUME NEW a \in LineStart, NEW e \in Line
      PROVE  LexLine(a, e) \in LineStart /\ F[a][e] = LexLine(a, e)
    BY DEF LexLine, LineStart
<1>2. Len(lines) \in Nat /\ \A n \in 1 .. Len(lines) : lines[n] \in Line /\ n \in 0 .. Len(lines) /\ n # 0
    OBVIOUS
<1>3. F \in [LineStart -> [Line -> LineStart]]
    BY <1>1
<1>. HIDE DEF F
<1>4. PICK g \in [0 .. Len(lines) -> LineStart] :
          g[0] = state /\ \A n \in 1 .. Len(lines) : g[n] = LexLine(g[n - 1], lines[n])
    <2>1. \E g \in [0 .. Len(lines) -> LineStart] : IsRun(g, F, state, lines)
        BY <1>3, RunExists
    <2>2. PICK g \in [0 .. Len(lines) -> LineStart] : IsRun(g, F, state, lines)
        BY <2>1
    <2>3. ASSUME NEW n \in 1 .. Len(lines)
          PROVE  g[n] = LexLine(g[n - 1], lines[n])
        <3>1. n - 1 \in 0 .. Len(lines)
            BY <1>2
        <3>2. g[n - 1] \in LineStart /\ lines[n] \in Line
            BY <1>2, <3>1
        <3>3. g[n] = F[g[n - 1]][lines[n]]
            BY <2>2 DEF IsRun
        <3>. QED BY <1>1, <3>2, <3>3
    <2>. QED BY <2>2, <2>3 DEF IsRun
<1>5. g = [n \in 0 .. Len(lines) |-> IF n = 0 THEN state ELSE LexLine(g[n - 1], lines[n])]
    <2>1. ASSUME NEW n \in 0 .. Len(lines)
          PROVE  g[n] = IF n = 0 THEN state ELSE LexLine(g[n - 1], lines[n])
        BY <1>4
    <2>. QED BY <2>1
<1>6. after = [n \in 0 .. Len(lines) |-> IF n = 0 THEN state ELSE LexLine(after[n - 1], lines[n])]
    BY <1>5 DEF Along
<1>. HIDE DEF after
<1>7. ASSUME NEW n \in 0 .. Len(lines)
      PROVE  after[n] = IF n = 0 THEN state ELSE LexLine(after[n - 1], lines[n])
    BY <1>6, Zenon
<1>8. after[0] = state /\ \A n \in 1 .. Len(lines) : after[n] = LexLine(after[n - 1], lines[n])
    <2>1. 0 \in 0 .. Len(lines)
        BY <1>2
    <2>. QED BY <1>2, <1>7, <2>1, Zenon
<1>9. \A n \in 0 .. Len(lines) : n \in T
    <2>1. 0 \in T
        BY <1>2, <1>8
    <2>2. ASSUME NEW n \in 1 .. Len(lines), n - 1 \in T
          PROVE  n \in T
        <3>1. after[n - 1] \in LineStart /\ lines[n] \in Line /\ n \in 0 .. Len(lines)
            BY <1>2, <2>2
        <3>2. after[n] = LexLine(after[n - 1], lines[n])
            BY <1>8
        <3>. QED BY <1>1, <3>1, <3>2
    <2>. HIDE DEF T
    <2>. QED BY <1>2, <2>1, <2>2, AllAlong
<1>10. after \in [0 .. Len(lines) -> LineStart]
    BY <1>6, <1>9
<1>. QED BY <1>8, <1>10 DEF after

----------------------------------------------------------------------------
(* The scanner and the lexer *)

(* Where the two are at the same time, as long as the file is candid.      *)
Paired == {<<"code", "out">>, <<"slash", "out/">>, <<"line", "out">>, <<"line", "out/">>,
           <<"string", "out">>, <<"string", "out/">>, <<"block", "in">>, <<"star", "in*">>}

LEMMA CandidLineIsExact ==
    ASSUME NEW open \in BOOLEAN, NEW state \in LineStart, open <=> state = "block", NEW line \in Line,
           \A i \in 2 .. Len(line) :
              line[i - 1].is = "/" /\ line[i].is = "*" => Along(Lex, state, line)[i - 1] \notin {"line", "string"}
    PROVE  AdvanceBlockCommentState(open, line) <=> LexLine(state, line) = "block"
<1>. DEFINE bit == IF open THEN "in" ELSE "out"
            lex == Along(Lex, state, line)
            scan == Along(Step, bit, line)
            S == {n \in 0 .. Len(line) : <<lex[n], scan[n]>> \in Paired /\ (scan[n] = "out/" => n > 0 /\ line[n].is = "/")}
<1>1. line \in Seq(Token) /\ bit \in ScanState /\ state \in LexState
    BY DEF Line, ScanState, LexState, LineStart
<1>4. <<state, bit>> \in Paired /\ bit # "out/"
    BY DEF Paired, LineStart
<1>b. AdvanceBlockCommentState(open, line) <=> scan[Len(line)] \in {"in", "in*"}
    BY DEF AdvanceBlockCommentState
<1>. HIDE DEF bit
<1>2. scan[0] = bit /\ \A n \in 1 .. Len(line) : scan[n] = Step(scan[n - 1], line[n])
    BY <1>1, StepAlong
<1>3. lex[0] = state /\ \A n \in 1 .. Len(line) : lex[n] = Lex(lex[n - 1], line[n])
    BY <1>1, LexAlong
<1>a. \A i \in 2 .. Len(line) : line[i - 1].is = "/" /\ line[i].is = "*" => lex[i - 1] \notin {"line", "string"}
    OBVIOUS
<1>c. LexLine(state, line) = "block" <=> lex[Len(line)] \in {"block", "star"}
    BY DEF LexLine
<1>. HIDE DEF lex, scan
<1>5. Len(line) \in Nat /\ \A n \in 1 .. Len(line) : n \in 0 .. Len(line) /\ n - 1 \in 0 .. Len(line)
    BY <1>1
<1>6. 0 \in S
    BY <1>2, <1>3, <1>4, <1>5
<1>7. ASSUME NEW n \in 1 .. Len(line), n - 1 \in S
      PROVE  n \in S
    <2>1. <<lex[n - 1], scan[n - 1]>> \in Paired /\ (scan[n - 1] = "out/" => n - 1 > 0 /\ line[n - 1].is = "/")
        BY <1>7
    <2>2. lex[n] = Lex(lex[n - 1], line[n]) /\ scan[n] = Step(scan[n - 1], line[n])
        BY <1>2, <1>3
    <2>3. scan[n - 1] = "out/" /\ line[n].is = "*" => lex[n - 1] \notin {"line", "string"}
        <3>1. scan[n - 1] = "out/" => n \in 2 .. Len(line) /\ line[n - 1].is = "/"
            BY <1>5, <2>1
        <3>. QED BY <1>a, <3>1
    <2>. DEFINE l == lex[n - 1]
                c == scan[n - 1]
                t == line[n].is
    <2>4. <<Lex(l, line[n]), Step(c, line[n])>> \in Paired
        <3>1. <<l, c>> \in Paired /\ (c = "out/" /\ t = "*" => l \notin {"line", "string"})
            BY <2>1, <2>3
        <3>. HIDE DEF l, c
        <3>2. CASE t = "*"
            BY <3>1, <3>2 DEF Lex, Step, Paired
        <3>3. CASE t = "/"
            BY <3>1, <3>3 DEF Lex, Step, Paired
        <3>4. CASE t = "quote"
            BY <3>1, <3>4 DEF Lex, Step, Paired
        <3>5. CASE t \notin {"*", "/", "quote"}
            BY <3>1, <3>5 DEF Lex, Step, Paired
        <3>. QED BY <3>2, <3>3, <3>4, <3>5
    <2>5. Step(c, line[n]) = "out/" => t = "/"
        <3>1. c \in ScanState
            BY <2>1 DEF Paired, ScanState
        <3>. HIDE DEF c
        <3>. QED BY <3>1 DEF Step, ScanState
    <2>. QED BY <1>5, <2>2, <2>4, <2>5
<1>8. \A n \in 0 .. Len(line) : n \in S
    <2>. HIDE DEF S
    <2>. QED BY <1>5, <1>6, <1>7, AllAlong
<1>9. <<lex[Len(line)], scan[Len(line)]>> \in Paired
    <2>1. Len(line) \in 0 .. Len(line)
        BY <1>5
    <2>. QED BY <1>8, <2>1
<1>. QED BY <1>b, <1>c, <1>9 DEF Paired

(* So the scanner's bit is set where a line begins in a block comment.     *)
LEMMA CandidIsExact ==
    ASSUME NEW lines \in Seq(Line), Candid(lines)
    PROVE  \A n \in 0 .. Len(lines) :
              Along(AdvanceBlockCommentState, FALSE, lines)[n] <=> Along(LexLine, "code", lines)[n] = "block"
<1>. DEFINE start == Along(LexLine, "code", lines)
            open == Along(AdvanceBlockCommentState, FALSE, lines)
            S == {n \in 0 .. Len(lines) : open[n] <=> start[n] = "block"}
<1>1. /\ open[0] = FALSE /\ open \in [0 .. Len(lines) -> BOOLEAN]
      /\ \A n \in 1 .. Len(lines) : open[n] = AdvanceBlockCommentState(open[n - 1], lines[n])
    BY AdvanceAlong
<1>2. /\ start[0] = "code" /\ start \in [0 .. Len(lines) -> LineStart]
      /\ \A n \in 1 .. Len(lines) : start[n] = LexLine(start[n - 1], lines[n])
    BY LexLineAlong DEF LineStart
<1>a. \A n \in 1 .. Len(lines) : StartOf(lines, n) = start[n - 1]
    BY DEF StartOf
<1>b. \A n \in 1 .. Len(lines) : \A i \in 2 .. Len(lines[n]) :
          lines[n][i - 1].is = "/" /\ lines[n][i].is = "*" =>
              Along(Lex, StartOf(lines, n), lines[n])[i - 1] \notin {"line", "string"}
    <2>1. DOMAIN lines = 1 .. Len(lines)
        OBVIOUS
    <2>. QED BY <2>1, Zenon DEF Candid
<1>. HIDE DEF start, open
<1>3. Len(lines) \in Nat /\ \A n \in 1 .. Len(lines) : n \in 0 .. Len(lines) /\ n - 1 \in 0 .. Len(lines) /\ lines[n] \in Line
    OBVIOUS
<1>4. 0 \in S
    BY <1>1, <1>2, <1>3
<1>5. ASSUME NEW n \in 1 .. Len(lines), n - 1 \in S
      PROVE  n \in S
    <2>1. /\ open[n - 1] \in BOOLEAN /\ start[n - 1] \in LineStart /\ lines[n] \in Line
          /\ open[n - 1] <=> start[n - 1] = "block"
        BY <1>1, <1>2, <1>3, <1>5
    <2>2. \A i \in 2 .. Len(lines[n]) :
             lines[n][i - 1].is = "/" /\ lines[n][i].is = "*" =>
                 Along(Lex, start[n - 1], lines[n])[i - 1] \notin {"line", "string"}
        BY <1>a, <1>b
    <2>3. AdvanceBlockCommentState(open[n - 1], lines[n]) <=> LexLine(start[n - 1], lines[n]) = "block"
        BY <2>1, <2>2, CandidLineIsExact
    <2>. QED BY <1>1, <1>2, <1>3, <2>3
<1>6. \A n \in 0 .. Len(lines) : n \in S
    <2>. HIDE DEF S
    <2>. QED BY <1>3, <1>4, <1>5, AllAlong
<1>. QED BY <1>6 DEF start, open

(* What findMarker finds is a marker.                                      *)
LEMMA FoundIsMarker ==
    ASSUME NEW line \in Line, FoundAt(line) # 0
    PROVE  FoundAt(line) \in MarkersAt(line)
<1>. DEFINE kinds == {k \in 1 .. 4 : \E i \in MarkersAt(line) : line[i].is = Priority[k]}
            those(kind) == {i \in MarkersAt(line) : line[i].is = kind}
            k == CHOOSE c \in kinds : \A m \in kinds : c <= m
            found == CHOOSE c \in those(Priority[k]) : \A m \in those(Priority[k]) : c <= m
<1>1. kinds # {} /\ FoundAt(line) = found
    <2>1. FoundAt(line) = IF kinds = {} THEN 0 ELSE found
        BY Zenon DEF FoundAt
    <2>. HIDE DEF kinds, found
    <2>. QED BY <2>1
<1>2. MarkersAt(line) \subseteq Nat
    BY DEF MarkersAt, Line
<1>3. k \in kinds
    <2>1. kinds \subseteq Nat
        OBVIOUS
    <2>. HIDE DEF kinds
    <2>. QED BY <1>1, <2>1, LeastNatural
<1>4. those(Priority[k]) # {} /\ those(Priority[k]) \subseteq Nat
    <2>. HIDE DEF k
    <2>. QED BY <1>2, <1>3
<1>5. found \in those(Priority[k])
    <2>. HIDE DEF those, k
    <2>. QED BY <1>4, LeastNatural
<1>. HIDE DEF k, found
<1>. QED BY <1>1, <1>5

(* A line that is reported begins outside comments, and for a reason.      *)
LEMMA ReportsAreDirectives ==
    ASSUME NEW lines \in Seq(Line)
    PROVE  OnlyDirectives(lines)
<1>. SUFFICES ASSUME Candid(lines), NEW n \in Violations(lines)
              PROVE  /\ StartOf(lines, n) # "block"
                     /\ MarkersAt(lines[n]) \subseteq Directives(lines, n) =>
                           \E i \in Directives(lines, n) : ~Justified(lines, n, lines[n][i])
    BY DEF OnlyDirectives
<1>1. /\ n \in DOMAIN lines /\ ~Along(AdvanceBlockCommentState, FALSE, lines)[n - 1]
      /\ FoundAt(lines[n]) # 0 /\ ~Justified(lines, n, lines[n][FoundAt(lines[n])])
    BY Zenon DEF Violations
<1>2. n - 1 \in 0 .. Len(lines) /\ lines[n] \in Line
    <2>1. n \in DOMAIN lines
        BY <1>1
    <2>. QED BY <2>1
<1>3. StartOf(lines, n) # "block"
    BY <1>1, <1>2, CandidIsExact DEF StartOf
<1>4. FoundAt(lines[n]) \in MarkersAt(lines[n])
    BY <1>1, <1>2, FoundIsMarker
<1>. QED BY <1>1, <1>3, <1>4, Zenon

(* Plain, without its abbreviations.                                       *)
LEMMA PlainAt ==
    ASSUME NEW lines \in Seq(Line), Plain(lines), NEW n \in 1 .. Len(lines), NEW i \in Directives(lines, n)
    PROVE  /\ Candid(lines) /\ i \in MarkersAt(lines[n])
           /\ \A j \in MarkersAt(lines[n]) : j = i
           /\ StartOf(lines, n) # "block"
<1>1. n \in DOMAIN lines
    OBVIOUS
<1>. QED BY <1>1, Zenon DEF Plain

(* The only marker on a line is the one that findMarker finds.             *)
LEMMA OnlyMarkerIsFound ==
    ASSUME NEW line \in Line, NEW i \in MarkersAt(line), \A j \in MarkersAt(line) : j = i
    PROVE  FoundAt(line) = i /\ FoundAt(line) # 0
<1>. DEFINE kinds == {k \in 1 .. 4 : \E j \in MarkersAt(line) : line[j].is = Priority[k]}
            those(kind) == {j \in MarkersAt(line) : line[j].is = kind}
<1>1. i \in 3 .. Len(line) /\ line[i] \in Marker
    BY DEF MarkersAt
<1>2. PICK k \in 1 .. 4 : line[i].is = Priority[k]
    <2>1. line[i].is \in {"biome-ignore-all", "biome-ignore", "eslint-disable", "ts-ignore"}
        BY <1>1 DEF Marker, Priority, ToSet
    <2>. QED BY <2>1 DEF Priority
<1>3. \A m \in kinds : m = k
    BY <1>2 DEF Priority
<1>4. k \in kinds /\ k <= k
    BY <1>2
<1>5. (CHOOSE c \in kinds : \A m \in kinds : c <= m) = k
    <2>. HIDE DEF kinds
    <2>. QED BY <1>3, <1>4
<1>6. those(Priority[k]) = {i}
    BY <1>2
<1>7. (CHOOSE c \in {i} : \A m \in {i} : c <= m) = i
    BY <1>1
<1>8. FoundAt(line) = i
    <2>1. FoundAt(line) = LET kind == Priority[CHOOSE c \in kinds : \A m \in kinds : c <= m]
                          IN  IF kinds = {} THEN 0 ELSE CHOOSE c \in those(kind) : \A m \in those(kind) : c <= m
        BY Zenon DEF FoundAt
    <2>. HIDE DEF kinds, those
    <2>. QED BY <1>4, <1>5, <1>6, <1>7, <2>1
<1>. QED BY <1>1, <1>8

(* When nothing is reported, every directive has its reason.               *)
LEMMA SilenceIsJustified ==
    ASSUME NEW lines \in Seq(Line), Plain(lines), Violations(lines) = {}
    PROVE  AllJustified(lines)
<1>. SUFFICES ASSUME NEW n \in DOMAIN lines, NEW i \in Directives(lines, n)
              PROVE  Justified(lines, n, lines[n][i])
    BY DEF AllJustified
<1>1. n \in 1 .. Len(lines) /\ n - 1 \in 0 .. Len(lines) /\ lines[n] \in Line
    OBVIOUS
<1>2. /\ i \in MarkersAt(lines[n]) /\ \A j \in MarkersAt(lines[n]) : j = i
      /\ Candid(lines) /\ StartOf(lines, n) # "block"
    BY <1>1, PlainAt
<1>4. ~Along(AdvanceBlockCommentState, FALSE, lines)[n - 1]
    BY <1>1, <1>2, CandidIsExact DEF StartOf
<1>5. FoundAt(lines[n]) = i /\ FoundAt(lines[n]) # 0
    BY <1>1, <1>2, OnlyMarkerIsFound
<1>6. n \notin Violations(lines)
    OBVIOUS
<1>7. Justified(lines, n, lines[n][FoundAt(lines[n])])
    BY <1>4, <1>5, <1>6, Zenon DEF Violations
<1>. QED BY <1>5, <1>7

----------------------------------------------------------------------------
(* verify *)

(* A result of the scan is what the scan said of the file.                 *)
ScanIsTold ==
    \A r \in ToSet(results) : r.name = ScanCheck /\ r.ok => ScanExit(file) = 0

(* What is selected and not to be run any more has run.                    *)
ToCheck == IF BaseFound THEN AllCheckNames ELSE Core

NoneIsLost ==
    vpc = "run" =>
        \A name \in ToCheck :
            Selected(name) => name \in ToSet(left) \/ \E r \in ToSet(results) : r.name = name

(* A green end was reached in run, when all checks had said yes.           *)
GreenIsGreen ==
    vpc = "exited" /\ vcode = 0 /\ args.usage = "ok" =>
        /\ results # << >>
        /\ \A r \in ToSet(results) : r.ok
        /\ \A name \in ToCheck : Selected(name) => \E r \in ToSet(results) : r.name = name

VerifyInv == VerifyTypeOK /\ ScanIsTold /\ NoneIsLost /\ GreenIsGreen

(* Sequences, as far as they are needed.                                   *)
LEMMA HeadOrTail ==
    ASSUME NEW S, NEW s \in Seq(S), s # << >>
    PROVE  /\ Head(s) \in S /\ Tail(s) \in Seq(S)
           /\ \A e \in ToSet(s) : e = Head(s) \/ e \in ToSet(Tail(s))
<1>1. Head(s) \in S /\ Tail(s) \in Seq(S)
    OBVIOUS
<1>2. ASSUME NEW e \in ToSet(s), e # Head(s)
      PROVE  e \in ToSet(Tail(s))
    <2>1. PICK i \in 1 .. Len(s) : s[i] = e
        BY DEF ToSet
    <2>2. i - 1 \in 1 .. Len(Tail(s)) /\ Tail(s)[i - 1] = e
        BY <1>2, <2>1
    <2>3. i - 1 \in DOMAIN Tail(s)
        BY <1>1, <2>2
    <2>. QED BY <2>2, <2>3, Zenon DEF ToSet
<1>. QED BY <1>1, <1>2

LEMMA AppendAdds ==
    ASSUME NEW S, NEW s \in Seq(S), NEW e \in S
    PROVE  Append(s, e) \in Seq(S) /\ ToSet(Append(s, e)) = ToSet(s) \cup {e}
<1>1. Append(s, e) \in Seq(S) /\ Len(Append(s, e)) = Len(s) + 1 /\ Len(s) \in Nat
    OBVIOUS
<1>2. \A i \in 1 .. Len(s) : Append(s, e)[i] = s[i]
    OBVIOUS
<1>3. Append(s, e)[Len(s) + 1] = e
    OBVIOUS
<1>4. ASSUME NEW x \in ToSet(Append(s, e))
      PROVE  x \in ToSet(s) \cup {e}
    <2>1. PICK i \in 1 .. Len(s) + 1 : Append(s, e)[i] = x
        BY <1>1 DEF ToSet
    <2>2. CASE i = Len(s) + 1
        BY <1>3, <2>1, <2>2
    <2>3. CASE i # Len(s) + 1
        <3>1. i \in 1 .. Len(s)
            BY <1>1, <2>3
        <3>. QED BY <1>2, <2>1, <3>1 DEF ToSet
    <2>. QED BY <2>2, <2>3
<1>5. ASSUME NEW x \in ToSet(s)
      PROVE  x \in ToSet(Append(s, e))
    <2>1. PICK i \in 1 .. Len(s) : s[i] = x
        BY DEF ToSet
    <2>2. i \in 1 .. Len(s) + 1 /\ Append(s, e)[i] = x
        BY <1>1, <1>2, <2>1
    <2>. QED BY <1>1, <2>2 DEF ToSet
<1>6. e \in ToSet(Append(s, e))
    <2>1. Len(s) + 1 \in 1 .. Len(Append(s, e))
        BY <1>1
    <2>. QED BY <1>3, <2>1 DEF ToSet
<1>. QED BY <1>1, <1>4, <1>5, <1>6

LEMMA EmptyHasNone == ToSet(<< >>) = {}
BY DEF ToSet

LEMMA ChecksType ==
    /\ CoreChecks \in Seq(AllCheckNames) /\ CoreChecks \o PrOnlyChecks \in Seq(AllCheckNames)
    /\ ToSet(CoreChecks) = Core /\ ToSet(CoreChecks \o PrOnlyChecks) = AllCheckNames
<1>1. CoreChecks \in Seq(Name) /\ PrOnlyChecks \in Seq(Name)
    BY VerifyConstants
<1>2. CoreChecks \in Seq(AllCheckNames)
    BY <1>1 DEF AllCheckNames, Core, ToSet
<1>3. PrOnlyChecks \in Seq(AllCheckNames)
    BY <1>1 DEF AllCheckNames, ToSet
<1>4. CoreChecks \o PrOnlyChecks \in Seq(AllCheckNames)
    BY <1>2, <1>3
<1>5. ToSet(CoreChecks \o PrOnlyChecks) = ToSet(CoreChecks) \cup ToSet(PrOnlyChecks)
    <2>. DEFINE both == CoreChecks \o PrOnlyChecks
                m == Len(CoreChecks)
                n == Len(PrOnlyChecks)
    <2>1. m \in Nat /\ n \in Nat /\ Len(both) = m + n
        BY <1>1
    <2>2. /\ \A i \in 1 .. m : both[i] = CoreChecks[i]
          /\ \A i \in 1 .. n : both[m + i] = PrOnlyChecks[i]
        BY <1>1
    <2>3. ASSUME NEW i \in 1 .. Len(both)
          PROVE  both[i] \in ToSet(CoreChecks) \cup ToSet(PrOnlyChecks)
        <3>1. CASE i \in 1 .. m
            BY <2>2, <3>1 DEF ToSet
        <3>2. CASE i \notin 1 .. m
            <4>1. i - m \in 1 .. n /\ m + (i - m) = i
                BY <2>1, <3>2
            <4>2. both[i] = PrOnlyChecks[i - m]
                BY <2>2, <4>1
            <4>. QED BY <4>1, <4>2 DEF ToSet
        <3>. QED BY <3>1, <3>2
    <2>4. ASSUME NEW i \in 1 .. m
          PROVE  CoreChecks[i] \in ToSet(both)
        <3>1. i \in 1 .. Len(both)
            BY <2>1
        <3>. QED BY <2>2, <3>1 DEF ToSet
    <2>5. ASSUME NEW i \in 1 .. n
          PROVE  PrOnlyChecks[i] \in ToSet(both)
        <3>1. m + i \in 1 .. Len(both)
            BY <2>1
        <3>. QED BY <2>2, <3>1 DEF ToSet
    <2>6. ToSet(both) \subseteq ToSet(CoreChecks) \cup ToSet(PrOnlyChecks)
        <3>1. DOMAIN both = 1 .. Len(both)
            BY <1>1
        <3>. HIDE DEF both
        <3>2. ASSUME NEW x \in ToSet(both)
              PROVE  x \in ToSet(CoreChecks) \cup ToSet(PrOnlyChecks)
            <4>1. PICK i \in DOMAIN both : x = both[i]
                BY Zenon DEF ToSet
            <4>. QED BY <2>3, <3>1, <4>1, Zenon
        <3>. QED BY <3>2, Zenon
    <2>7. \A x \in ToSet(CoreChecks) : x \in ToSet(both)
        <3>1. DOMAIN CoreChecks = 1 .. m
            BY <1>1
        <3>2. \A x \in ToSet(CoreChecks) : \E i \in 1 .. m : x = CoreChecks[i]
            BY <3>1 DEF ToSet
        <3>. QED BY <2>4, <3>2
    <2>8. \A x \in ToSet(PrOnlyChecks) : x \in ToSet(both)
        <3>1. DOMAIN PrOnlyChecks = 1 .. n
            BY <1>1
        <3>2. \A x \in ToSet(PrOnlyChecks) : \E i \in 1 .. n : x = PrOnlyChecks[i]
            BY <3>1 DEF ToSet
        <3>. QED BY <2>5, <3>2
    <2>9. ToSet(both) = ToSet(CoreChecks) \cup ToSet(PrOnlyChecks)
        <3>. HIDE DEF both
        <3>. QED BY <2>6, <2>7, <2>8
    <2>. QED BY <2>9
<1>. QED BY <1>2, <1>4, <1>5 DEF Core, AllCheckNames

LEMMA VerifyInvInit == VerifyInit => VerifyInv
<1>. SUFFICES ASSUME VerifyInit PROVE VerifyInv
    OBVIOUS
<1>1. VerifyTypeOK
    <2>1. args \in Args /\ git \in Git /\ file \in File
        BY DEF VerifyInit
    <2>2. vpc = "args" /\ base \in BOOLEAN /\ vcode \in 0 .. 2
        <3>1. vpc = "args" /\ base = FALSE /\ vcode = 0
            BY Zenon DEF VerifyInit, VerifyStart
        <3>2. base \in BOOLEAN
            BY <3>1, Zenon
        <3>3. vcode \in 0 .. 2
            BY <3>1
        <3>. QED BY <3>1, <3>2, <3>3
    <2>3. left \in Seq(AllCheckNames) /\ results \in Seq([name : AllCheckNames, ok : BOOLEAN])
        <3>1. left = << >> /\ results = << >>
            BY Zenon DEF VerifyInit, VerifyStart
        <3>2. \A S : << >> \in Seq(S)
            OBVIOUS
        <3>. QED BY <3>1, <3>2, Zenon
    <2>. QED BY <2>1, <2>2, <2>3 DEF VerifyTypeOK
<1>2. ScanIsTold /\ NoneIsLost /\ GreenIsGreen
    BY EmptyHasNone DEF VerifyInit, VerifyStart, ScanIsTold, NoneIsLost, GreenIsGreen
<1>. QED BY <1>1, <1>2 DEF VerifyInv

LEMMA VerifyInvStep == VerifyInv /\ [VerifyNext]_verifyVars => VerifyInv'
<1>. SUFFICES ASSUME VerifyInv, [VerifyNext]_verifyVars PROVE VerifyInv'
    OBVIOUS
<1>. USE DEF VerifyInv
<1>a. UNCHANGED inputs => /\ ToCheck' = ToCheck /\ UNCHANGED <<args, file, git>>
                          /\ \A name : Selected(name)' <=> Selected(name)
    BY DEF inputs, ToCheck, BaseFound, Selected
<1>b. UNCHANGED <<file, results>> => ScanIsTold'
    BY DEF ScanIsTold
<1>1. CASE ParseArgs \/ CheckNames
    <2>0. vcode \in 0 .. 2 /\ args.usage \in {"ok", "help", "error"}
        BY DEF VerifyTypeOK, Args
    <2>1. UNCHANGED inputs /\ UNCHANGED <<base, left, results>> /\ vpc' \in {"names", "base", "exited"}
          /\ vcode' \in 0 .. 2 /\ ~(vpc' = "exited" /\ vcode' = 0 /\ args.usage = "ok")
        <3>1. CASE ParseArgs
            <4>1. CASE args.usage = "ok"
                BY <2>0, <3>1, <4>1 DEF ParseArgs, Goto
            <4>2. CASE args.usage = "help"
                BY <3>1, <4>2 DEF ParseArgs, VerifyExit
            <4>3. CASE args.usage = "error"
                BY <3>1, <4>3 DEF ParseArgs, VerifyExit
            <4>. QED BY <2>0, <4>1, <4>2, <4>3
        <3>2. CASE CheckNames
            BY <2>0, <3>2 DEF CheckNames, Goto, VerifyExit
        <3>. QED BY <1>1, <3>1, <3>2
    <2>2. VerifyTypeOK'
        BY <1>a, <2>1 DEF VerifyTypeOK
    <2>. QED BY <1>a, <1>b, <2>1, <2>2 DEF NoneIsLost, GreenIsGreen
<1>2. CASE ResolveBase
    <2>1. UNCHANGED inputs /\ vpc = "base" /\ vpc' = "run" /\ UNCHANGED <<vcode, results>>
          /\ base' = BaseFound /\ left' = (IF base' THEN CoreChecks \o PrOnlyChecks ELSE CoreChecks)
        BY <1>2 DEF ResolveBase, Goto
    <2>2. BaseFound \in BOOLEAN
        BY DEF BaseFound
    <2>3. left' \in Seq(AllCheckNames) /\ ToSet(left') = ToCheck
        BY <2>1, ChecksType DEF ToCheck
    <2>4. VerifyTypeOK'
        BY <1>a, <2>1, <2>2, <2>3 DEF VerifyTypeOK
    <2>. QED BY <1>a, <1>b, <2>1, <2>3, <2>4 DEF NoneIsLost, GreenIsGreen
<1>3. CASE PassOver
    <2>1. /\ UNCHANGED inputs /\ UNCHANGED <<vpc, base, results, vcode>> /\ vpc = "run"
          /\ left # << >> /\ ~Selected(Head(left)) /\ left' = Tail(left)
        BY <1>3 DEF PassOver
    <2>2. left \in Seq(AllCheckNames)
        BY DEF VerifyTypeOK
    <2>3. left' \in Seq(AllCheckNames) /\ \A e \in ToSet(left) : e = Head(left) \/ e \in ToSet(left')
        BY <2>1, <2>2, HeadOrTail
    <2>4. VerifyTypeOK'
        BY <1>a, <2>1, <2>3 DEF VerifyTypeOK
    <2>5. NoneIsLost'
        BY <1>a, <2>1, <2>3 DEF NoneIsLost
    <2>. QED BY <1>b, <2>1, <2>4, <2>5, <1>a DEF GreenIsGreen
<1>4. CASE RunCheck
    <2>1. /\ UNCHANGED inputs /\ UNCHANGED <<vpc, base, vcode>> /\ vpc = "run"
          /\ left # << >> /\ left' = Tail(left)
        BY <1>4 DEF RunCheck
    <2>2. PICK ok \in BOOLEAN :
              /\ Head(left) = ScanCheck => ok = (ScanExit(file) = 0)
              /\ results' = Append(results, [name |-> Head(left), ok |-> ok])
        BY <1>4 DEF RunCheck
    <2>. DEFINE R == [name : AllCheckNames, ok : BOOLEAN]
                r == [name |-> Head(left), ok |-> ok]
    <2>3. left \in Seq(AllCheckNames) /\ results \in Seq(R)
        BY DEF VerifyTypeOK
    <2>4. /\ Head(left) \in AllCheckNames /\ left' \in Seq(AllCheckNames)
          /\ \A e \in ToSet(left) : e = Head(left) \/ e \in ToSet(left')
        BY <2>1, <2>3, HeadOrTail
    <2>5. r \in R
        BY <2>4
    <2>6. results' \in Seq(R) /\ ToSet(results') = ToSet(results) \cup {r}
        <3>. HIDE DEF R, r
        <3>1. results' = Append(results, r)
            BY <2>2 DEF r
        <3>. QED BY <2>3, <2>5, <3>1, AppendAdds
    <2>7. VerifyTypeOK'
        BY <1>a, <2>1, <2>4, <2>6 DEF VerifyTypeOK
    <2>8. ScanIsTold'
        BY <1>a, <2>1, <2>2, <2>6 DEF ScanIsTold
    <2>9. NoneIsLost'
        <3>. SUFFICES ASSUME NEW name \in ToCheck, Selected(name)
                      PROVE  name \in ToSet(left') \/ \E q \in ToSet(results') : q.name = name
            BY <1>a, <2>1 DEF NoneIsLost
        <3>1. CASE name \in ToSet(left)
            <4>1. r.name = Head(left) /\ r \in ToSet(results')
                BY <2>6
            <4>. HIDE DEF r
            <4>. QED BY <2>4, <3>1, <4>1
        <3>2. CASE \E q \in ToSet(results) : q.name = name
            BY <2>6, <3>2
        <3>. QED BY <2>1, <3>1, <3>2 DEF NoneIsLost
    <2>. QED BY <1>a, <2>1, <2>7, <2>8, <2>9 DEF GreenIsGreen
<1>5. CASE Summarize
    <2>1. /\ UNCHANGED inputs /\ UNCHANGED <<base, left, results>> /\ vpc = "run" /\ vpc' = "exited"
          /\ left = << >>
          /\ vcode' = IF results = << >> THEN 2 ELSE IF \E n \in DOMAIN results : ~results[n].ok THEN 1 ELSE 0
        BY <1>5 DEF Summarize, VerifyExit
    <2>2. VerifyTypeOK'
        <3>1. vcode' \in 0 .. 2
            BY <2>1
        <3>. QED BY <1>a, <2>1, <3>1 DEF VerifyTypeOK
    <2>3. GreenIsGreen'
        <3>. SUFFICES ASSUME vcode' = 0
                      PROVE  /\ results # << >> /\ \A r \in ToSet(results) : r.ok
                             /\ \A name \in ToCheck : Selected(name) => \E r \in ToSet(results) : r.name = name
            BY <1>a, <2>1 DEF GreenIsGreen
        <3>1. results # << >> /\ \A n \in DOMAIN results : results[n].ok
            BY <2>1
        <3>2. \A r \in ToSet(results) : r.ok
            BY <3>1 DEF ToSet
        <3>. QED BY <2>1, <3>1, <3>2, EmptyHasNone DEF NoneIsLost
    <2>. QED BY <1>b, <1>a, <2>1, <2>2, <2>3 DEF NoneIsLost
<1>6. CASE UNCHANGED verifyVars
    BY <1>6, <1>a, <1>b DEF verifyVars, inputs, VerifyTypeOK, NoneIsLost, GreenIsGreen
<1>. QED BY <1>1, <1>2, <1>3, <1>4, <1>5, <1>6 DEF VerifyNext

(* A run of verify that exits with 0 has run all that it was to run, with  *)
(* success, and the scan has read what it says of the file.                *)
LEMMA VerifyInvGreen == VerifyInv => GreenMeansChecked
<1>. SUFFICES ASSUME VerifyInv, vpc = "exited", vcode = 0, args.usage = "ok"
              PROVE  /\ results # << >>
                     /\ \A name \in ToCheck : Selected(name) => [name |-> name, ok |-> TRUE] \in ToSet(results)
                     /\ Selected(ScanCheck) /\ file.listed /\ Plain(file.lines) => AllJustified(file.lines)
    BY DEF GreenMeansChecked, ToCheck
<1>1. /\ results # << >>
      /\ \A r \in ToSet(results) : r.ok
      /\ \A name \in ToCheck : Selected(name) => \E r \in ToSet(results) : r.name = name
    BY DEF VerifyInv, GreenIsGreen
<1>2. ASSUME NEW r \in ToSet(results)
      PROVE  r = [name |-> r.name, ok |-> TRUE]
    <2>1. results \in Seq([name : AllCheckNames, ok : BOOLEAN])
        BY DEF VerifyInv, VerifyTypeOK
    <2>2. r \in [name : AllCheckNames, ok : BOOLEAN]
        <3>1. PICK i \in DOMAIN results : r = results[i]
            BY DEF ToSet
        <3>2. \A R : results \in Seq(R) => results[i] \in R
            BY <3>1
        <3>. QED BY <2>1, <3>1, <3>2, Zenon
    <2>3. r.ok = TRUE
        BY <1>1, <2>2
    <2>. QED BY <2>2, <2>3
<1>3. ASSUME NEW name \in ToCheck, Selected(name)
      PROVE  [name |-> name, ok |-> TRUE] \in ToSet(results)
    <2>1. PICK r \in ToSet(results) : r.name = name
        BY <1>1, <1>3
    <2>2. r = [name |-> name, ok |-> TRUE]
        BY <1>2, <2>1
    <2>. QED BY <2>2, Zenon
<1>4. ASSUME Selected(ScanCheck), file.listed, Plain(file.lines)
      PROVE  AllJustified(file.lines)
    <2>1. ScanCheck \in ToCheck
        BY VerifyConstants DEF ToCheck, AllCheckNames
    <2>2. PICK r \in ToSet(results) : r.name = ScanCheck /\ r.ok
        BY <1>1, <1>4, <2>1
    <2>3. ScanExit(file) = 0
        BY <2>2 DEF VerifyInv, ScanIsTold
    <2>4. Violations(file.lines) = {}
        BY <1>4, <2>3 DEF ScanExit
    <2>5. file.lines \in Seq(Line)
        BY DEF VerifyInv, VerifyTypeOK, File, Line
    <2>. QED BY <1>4, <2>4, <2>5, SilenceIsJustified
<1>. QED BY <1>1, <1>3, <1>4

LEMMA VerifyInvRed == VerifyInv => RedMeansDirective
<1>. SUFFICES ASSUME VerifyInv PROVE OnlyDirectives(file.lines)
    BY DEF RedMeansDirective
<1>1. file.lines \in Seq(Line)
    BY DEF VerifyInv, VerifyTypeOK, File, Line
<1>. QED BY <1>1, ReportsAreDirectives

----------------------------------------------------------------------------
(* Build: hooks.json and the filter of the engine agree on the modules.    *)

LEMMA JoinedCovers ==
    ASSUME NEW mods \in SUBSET HookModule, NEW mod \in mods,
           NEW event \in Event, NEW t \in Tool, Applies(mod, event, t)
    PROVE  Covers(GenerateHooksJson(mods), event, t)
<1>1. /\ mod.enabled /\ event \in mod.events
      /\ mod.matchers # {} => \E m \in mod.matchers : t \in m
    BY DEF Applies
<1>2. Joined(mod) \in SUBSET Tool
    BY DEF Joined, HookModule
<1>3. Joined(mod) = {} \/ t \in Joined(mod)
    BY <1>1 DEF Joined
<1>4. <<event, Joined(mod)>> \in GenerateHooksJson(mods)
    BY <1>1, <1>2 DEF GenerateHooksJson, Entry
<1>5. QED
    BY <1>3, <1>4 DEF Covers

----------------------------------------------------------------------------
(* What the build knows where. *)

(* The hooks an import of the entrypoint yields.                           *)
HooksOf(s) == IF s.exports = "modules" THEN GenerateHooksJson(s.modules) ELSE {}

(* The binary is the entrypoint of the compile step, until somebody edits. *)
BinaryIsSource ==
    /\ compiled => bpc \in {"clean", "timeout", "import", "write", "fill", "exited", "killed"}
    /\ compiled /\ steady /\ bpc # "killed" => binary = source
    /\ bpc \in {"timeout", "import", "write", "fill"} => compiled
    /\ bpc = "clean" /\ code = 0 => compiled

(* What was imported and what was written are the hooks of that source.    *)
EntriesAreItsHooks ==
    /\ bpc \in {"write", "fill"} /\ steady =>
          entries = HooksOf(source) /\ source.exports \in {"modules", "nothing"}
    /\ bpc = "exited" /\ code = 0 /\ options.hooksJson =>
          /\ compiled /\ hooksJson.command = BinaryCommand
          /\ steady => /\ hooksJson.entries = HooksOf(source)
                       /\ source.exports \in {"modules", "nothing"}

(* The work directory stands only inside the try, a torn file only until   *)
(* it is filled.                                                           *)
LeftBehind ==
    /\ work => \/ bpc \in {"wrapper", "compile", "clean", "killed"}
               \/ bpc = "exited" /\ stuck /\ code = 1
    /\ hooksJson.st \in {"torn", "whole"} => compiled
    /\ hooksJson.st = "torn" => bpc \in {"fill", "killed"} \/ (bpc = "exited" /\ code = 1)

BuildInv ==
    source \in Sources /\ code \in 0 .. 1 /\ BinaryIsSource /\ EntriesAreItsHooks /\ LeftBehind

LEMMA BuildInvInit == BuildInit => BuildInv
  BY DEF BuildInit, BuildInv, BinaryIsSource, EntriesAreItsHooks, LeftBehind, NoJson

LEMMA BuildInvStep == BuildInv /\ [BuildNext]_buildVars => BuildInv'
<1> SUFFICES ASSUME BuildInv, [BuildNext]_buildVars PROVE BuildInv'
    OBVIOUS
<1> USE DEF BuildInv, BinaryIsSource, EntriesAreItsHooks, LeftBehind, BinaryCommand, outputs
<1>1. CASE CheckArgs
    BY <1>1 DEF CheckArgs, Exit
<1>2. CASE MakeWorkDir
    BY <1>2 DEF MakeWorkDir, Exit
<1>3. CASE WriteWrapper
    BY <1>3 DEF WriteWrapper, Fails
<1>4. CASE Compile
    BY <1>4 DEF Compile, Fails
<1>5. CASE RemoveWorkDir
    BY <1>5 DEF RemoveWorkDir, Exit
<1>6. CASE CheckTimeout
    BY <1>6 DEF CheckTimeout, Exit
<1>7. CASE ImportEntry
    BY <1>7 DEF ImportEntry, Exit, HooksOf
<1>8. CASE WriteHooksJson
    <2>1. CASE hooksJson' = NoJson("torn") /\ bpc' = "fill" /\ UNCHANGED code
        <3>1. hooksJson'.st = "torn" /\ compiled
            BY <1>8, <2>1 DEF WriteHooksJson, NoJson
        <3>2. /\ bpc = "write" /\ bpc' = "fill"
              /\ UNCHANGED <<options, source, code, work, binary, entries, compiled, steady, stuck>>
            BY <1>8, <2>1 DEF WriteHooksJson
        <3>3. EntriesAreItsHooks'
            BY <3>2 DEF HooksOf
        <3>4. BinaryIsSource' /\ LeftBehind'
            BY <3>1, <3>2
        <3>5. QED
            BY <3>2, <3>3, <3>4
    <2>2. CASE Exit(1) /\ UNCHANGED hooksJson
        BY <1>8, <2>2 DEF WriteHooksJson, Exit
    <2>3. QED
        BY <1>8, <2>1, <2>2 DEF WriteHooksJson
<1>9. CASE FillHooksJson
    BY <1>9 DEF FillHooksJson, Exit
<1>10. CASE BuildKilled
    BY <1>10 DEF BuildKilled
<1>11. CASE Edit
    BY <1>11 DEF Edit
<1>12. CASE UNCHANGED buildVars
    BY <1>12 DEF buildVars
<1>13. QED
    BY <1>1, <1>2, <1>3, <1>4, <1>5, <1>6, <1>7, <1>8, <1>9, <1>10, <1>11, <1>12 DEF BuildNext

LEMMA BuildInvWired == BuildInv => WiredAsCompiled
<1> SUFFICES ASSUME BuildInv, bpc = "exited", code = 0, options.hooksJson, steady, Located,
                    NEW event \in Event, NEW t \in Tool, NEW mod \in binary.modules,
                    Applies(mod, event, t)
             PROVE  HarnessCalls(event, t)
    BY DEF WiredAsCompiled
<1>1. /\ binary = source /\ source \in Sources
      /\ hooksJson.entries = HooksOf(source)
      /\ source.exports \in {"modules", "nothing"}
    BY DEF BuildInv, BinaryIsSource, EntriesAreItsHooks
<1>2. source.exports = "modules" /\ source.modules \in SUBSET HookModule
    BY <1>1, BundleConstants DEF Source
<1>3. hooksJson.entries = GenerateHooksJson(source.modules) /\ mod \in source.modules
    BY <1>1, <1>2 DEF HooksOf
<1>4. Covers(GenerateHooksJson(source.modules), event, t)
    BY <1>2, <1>3, JoinedCovers
<1>5. QED
    BY <1>3, <1>4 DEF HarnessCalls, BuildInv, EntriesAreItsHooks, BinaryCommand, Located

LEMMA BuildInvContained == BuildInv => FailureIsContained
BY DEF BuildInv, LeftBehind, FailureIsContained

(* A build that is under way has an --out, which is where its binary goes. *)
BuildTypeInv == BuildTypeOK /\ (bpc \notin {"args", "exited"} => options.out \in Place)

LEMMA EntriesType ==
    ASSUME NEW mods
    PROVE  GenerateHooksJson(mods) \subseteq Entry
BY DEF GenerateHooksJson

LEMMA BuildTypeInit == BuildInit => BuildTypeInv
<1>. SUFFICES ASSUME BuildInit PROVE BuildTypeInv
    OBVIOUS
<1>1. hooksJson \in JsonFile
    <2>1. CASE hooksJson = NoJson("absent")
        BY <2>1 DEF NoJson, JsonFile, Place
    <2>2. CASE hooksJson = [st |-> "old", entries |-> GenerateHooksJson(binary.modules), command |-> "root"]
        BY <2>2, EntriesType DEF JsonFile, Place
    <2>. QED BY <2>1, <2>2 DEF BuildInit
<1>2. options \in Options /\ source \in Sources /\ bpc = "args" /\ binary \in Sources /\ entries = {}
    BY Zenon DEF BuildInit
<1>3. work \in BOOLEAN /\ compiled \in BOOLEAN /\ steady \in BOOLEAN /\ stuck \in BOOLEAN
    BY Zenon DEF BuildInit
<1>4. code \in 0 .. 1
    BY DEF BuildInit
<1>. QED BY <1>1, <1>2, <1>3, <1>4 DEF BuildTypeOK, BuildTypeInv

LEMMA BuildTypeStep == BuildTypeInv /\ [BuildNext]_buildVars => BuildTypeInv'
<1>. SUFFICES ASSUME BuildTypeInv, [BuildNext]_buildVars PROVE BuildTypeInv'
    OBVIOUS
<1>. DEFINE Flags == /\ work \in BOOLEAN /\ compiled \in BOOLEAN
                     /\ steady \in BOOLEAN /\ stuck \in BOOLEAN
            Others == /\ options \in Options /\ source \in Sources
                      /\ bpc \in {"args", "mkdtemp", "wrapper", "compile", "clean", "timeout",
                                  "import", "write", "fill", "exited", "killed"}
                      /\ code \in 0 .. 1 /\ binary \in Sources
                      /\ entries \subseteq Entry /\ hooksJson \in JsonFile
                      /\ bpc \notin {"args", "exited"} => options.out \in Place
<1>a. Flags /\ Others
    BY Zenon DEF BuildTypeInv, BuildTypeOK
<1>b. Flags' /\ Others' => BuildTypeInv'
    BY Zenon DEF BuildTypeInv, BuildTypeOK
<1>1. Flags'
    <2>1. CASE CheckArgs \/ CheckTimeout \/ ImportEntry \/ WriteHooksJson \/ FillHooksJson
        BY <1>a, <2>1, Zenon DEF CheckArgs, CheckTimeout, ImportEntry, WriteHooksJson, FillHooksJson
    <2>2. CASE MakeWorkDir \/ WriteWrapper
        BY <1>a, <2>2, Zenon DEF MakeWorkDir, WriteWrapper
    <2>3. CASE Compile
        BY <1>a, <2>3, Zenon DEF Compile
    <2>4. CASE RemoveWorkDir
        BY <1>a, <2>4, Zenon DEF RemoveWorkDir
    <2>5. CASE BuildKilled \/ Edit \/ UNCHANGED buildVars
        BY <1>a, <2>5, Zenon DEF BuildKilled, Edit, buildVars
    <2>. QED BY <2>1, <2>2, <2>3, <2>4, <2>5 DEF BuildNext
<1>2. Others'
    <2>. USE DEF outputs, Exit
    <2>1. CASE CheckArgs
        <3>1. options.out \in Place \cup {"missing"}
            BY <1>a DEF Options
        <3>. QED BY <1>a, <2>1, <3>1 DEF CheckArgs
    <2>2. CASE MakeWorkDir
        BY <1>a, <2>2 DEF MakeWorkDir
    <2>3. CASE WriteWrapper
        BY <1>a, <2>3 DEF WriteWrapper, Fails
    <2>4. CASE Compile
        BY <1>a, <2>4 DEF Compile, Fails
    <2>5. CASE RemoveWorkDir
        BY <1>a, <2>5 DEF RemoveWorkDir
    <2>6. CASE CheckTimeout
        BY <1>a, <2>6 DEF CheckTimeout
    <2>7. CASE ImportEntry
        BY <1>a, <2>7, EntriesType DEF ImportEntry
    <2>8. CASE WriteHooksJson
        <3>1. NoJson("torn") \in JsonFile
            BY DEF NoJson, JsonFile, Place
        <3>. QED BY <1>a, <2>8, <3>1 DEF WriteHooksJson
    <2>9. CASE FillHooksJson
        <3>1. BinaryCommand \in Place
            BY <1>a, <2>9 DEF FillHooksJson, BinaryCommand, Place
        <3>2. [st |-> "whole", entries |-> entries, command |-> BinaryCommand] \in JsonFile
            BY <1>a, <3>1 DEF JsonFile
        <3>. QED BY <1>a, <2>9, <3>2 DEF FillHooksJson
    <2>10. CASE BuildKilled
        BY <1>a, <2>10 DEF BuildKilled
    <2>11. CASE Edit
        BY <1>a, <2>11 DEF Edit
    <2>12. CASE UNCHANGED buildVars
        BY <1>a, <2>12 DEF buildVars
    <2>. QED
        BY <2>1, <2>2, <2>3, <2>4, <2>5, <2>6, <2>7, <2>8, <2>9, <2>10, <2>11, <2>12 DEF BuildNext
<1>. QED BY <1>1, <1>2, <1>b

----------------------------------------------------------------------------
(* Theorems: a behaviour is a run of one of the tools *)

Inv == BuildTypeInv /\ BuildInv /\ VerifyInv

(* No step of runBuild, of verify's main or of the suppression scan leaves *)
(* the invariants of the build and of the gate.                            *)
THEOREM InvHolds == Spec => []Inv
<1>1. Init => Inv
    BY BuildTypeInit, BuildInvInit, VerifyInvInit DEF Init, Inv
<1>2. Inv /\ [Next]_vars => Inv'
    <2>1. [Next]_vars => [BuildNext]_buildVars /\ [VerifyNext]_verifyVars
        BY DEF Next, vars
    <2>. QED BY <2>1, BuildTypeStep, BuildInvStep, VerifyInvStep DEF Inv
<1>. QED BY <1>1, <1>2, PTL DEF Spec

(* Both tools keep their variables in their types; an exit code is one of  *)
(* those the tool has.                                                     *)
THEOREM TypeCorrect == Spec => []TypeOK
<1>1. Inv => TypeOK
    BY DEF Inv, BuildTypeInv, VerifyInv, TypeOK
<1>. QED BY <1>1, InvHolds, PTL

(* A build that reports success hands every call over that a module of its *)
(* binary applies to (generateHooksJson in bundle.ts against the filter of *)
(* the engine), if nobody edited the entrypoint since it was compiled.     *)
THEOREM HooksCoverTheBinary == Spec => []WiredAsCompiled
<1>1. Inv => WiredAsCompiled
    BY BuildInvWired DEF Inv
<1>. QED BY <1>1, InvHolds, PTL

(* Whatever fails in runBuild and writeHooksJson, the work directory is    *)
(* removed if it can be, and no hooks.json is rewritten without a binary   *)
(* or called whole when it is torn.                                        *)
THEOREM FailuresAreContained == Spec => []FailureIsContained
<1>1. Inv => FailureIsContained
    BY BuildInvContained DEF Inv
<1>. QED BY <1>1, InvHolds, PTL

(* If verify exits with 0, every check that was selected has run and said  *)
(* yes; and if the scan was one, each directive in the file has its        *)
(* reason, for every file that is Plain: no opening of a block in literals *)
(* or behind slashes, and directives only in forms the scan knows.         *)
THEOREM GreenIsChecked == Spec => []GreenMeansChecked
<1>1. Inv => GreenMeansChecked
    BY VerifyInvGreen DEF Inv
<1>. QED BY <1>1, InvHolds, PTL

(* Of a candid file of any length the scan reports no line that begins in  *)
(* a block comment, and none without a directive that lacks its reason,    *)
(* unless something on it looks like a directive and is none.              *)
THEOREM RedIsDirective == Spec => []RedMeansDirective
<1>1. Inv => RedMeansDirective
    BY VerifyInvRed DEF Inv
<1>. QED BY <1>1, InvHolds, PTL
============================================================================
