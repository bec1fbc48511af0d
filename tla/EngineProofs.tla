---------------------------- MODULE EngineProofs ---------------------------
(***************************************************************************)
(* The merge contract of evaluate, for every depth limit, every set of     *)
(* policies, any number of rules, calls and observers.                     *)
(***************************************************************************)
EXTENDS Engine, Integers, TLAPS, SequenceTheorems

(* Only a script above the depth limit is looked into.                     *)
ShallowInspection ==
    \A d \in Depths : frames[d].pc \in {"inspect", "calls"} => d < MAX_RECURSE_DEPTH

(* A deny is in the innermost frame only, which has returned with it.      *)
DenyIsInnermost ==
    \A d \in 0 .. top : frames[d].terminal.kind = "deny" =>
        d = top /\ frames[d].pc = "returned" /\ denial # 0 /\ frames[d].terminal.at = denial

(* Once a deny is emitted, it is the last terminal, and it is on its way   *)
(* out.                                                                    *)
DenialIsLast ==
    denial # 0 => emitted = denial /\ F.pc = "returned" /\ F.terminal.kind = "deny"

(* As long as nobody denied, some frame holds an ask, if there was one.    *)
AskIsHeld ==
    firstAsk # 0 /\ denial = 0 => \E d \in 0 .. top : frames[d].terminal.kind = "ask"

Inv == TypeOK /\ ShallowInspection /\ DenyIsInnermost /\ DenialIsLast /\ AskIsHeld

----------------------------------------------------------------------------
(* The pieces of an action *)

LEMMA PolicyType == TypeOK => policy \in Policy
BY EngineConstants DEF TypeOK

LEMMA FrameType == TypeOK => F \in Frame
BY DEF TypeOK, F

LEMMA NewFrameType == NewFrame \in Frame
BY EngineConstants DEF NewFrame, Frame, NoTerminal, Terminal

(* The frame that replaces the innermost one.                              *)
LEMMA BecomesType ==
    ASSUME TypeOK, NEW frame \in Frame, Becomes(frame)
    PROVE  frames' \in [Depths -> Frame] /\ frames'[top] = frame
           /\ \A d \in Depths : d # top => frames'[d] = frames[d]
BY DEF TypeOK, Becomes

LEMMA ProductType == \A a, b \in Int : a * b \in Int
OBVIOUS

LEMMA ExitErrorsType ==
    ASSUME TypeOK, NEW e \in ExitErrors
    PROVE  e \in Nat /\ e - F.ctxErrors \in Nat
<1>1. F.ctxErrors \in Nat
  BY FrameType DEF Frame
<1>. DEFINE last == (F.ctxErrors + 1) * (1 + Observers)
<1>2. last \in Int
  <2>1. F.ctxErrors + 1 \in Int /\ 1 + Observers \in Int
    BY <1>1, EngineConstants
  <2>. QED BY <2>1, ProductType
<1>3. e \in F.ctxErrors .. last
  BY DEF ExitErrors
<1>. HIDE DEF last
<1>. QED BY <1>1, <1>2, <1>3

LEMMA ThrownType == \A k \in Thrown : k \in Nat
BY EngineConstants DEF Thrown

LEMMA EmissionType ==
    ASSUME TypeOK, NEW kind \in {"ask", "deny"}
    PROVE  Emission(kind) \in Terminal /\ Emission(kind).kind = kind
           /\ Emission(kind).at = emitted + 1
BY DEF TypeOK, Emission, Terminal

LEMMA EmitType ==
    ASSUME TypeOK, NEW kind \in {"ask", "deny"}, Emit(kind)
    PROVE  /\ emitted' \in Nat /\ firstAsk' \in Nat /\ denial' \in Nat
           /\ emitted' = emitted + 1 
           /\ kind = "deny" => denial' = emitted + 1 /\ denial' # 0
           /\ kind = "ask" => denial' = denial
BY DEF TypeOK, Emit

(* A frame that has returned.                                              *)
LEMMA ReturnedFrame ==
    ASSUME NEW f \in Frame, NEW t \in Terminal, NEW m \in Nat
    PROVE  LET g == [f EXCEPT !.pc = "returned", !.terminal = t, !.errors = m, !.ctxErrors = 0]
           IN  g \in Frame /\ g.pc = "returned" /\ g.terminal = t
<1>. DEFINE h == [f EXCEPT !.pc = "returned", !.terminal = t]
<1>1. h \in Frame /\ h.pc = "returned" /\ h.terminal = t
  BY DEF Frame
<1>. HIDE DEF h
<1>. DEFINE g == [h EXCEPT !.errors = m, !.ctxErrors = 0]
<1>2. g \in Frame /\ g.pc = "returned" /\ g.terminal = t
  BY <1>1 DEF Frame
<1>. QED BY <1>2 DEF h

LEMMA DeniedFrame ==
    ASSUME NEW f \in Frame, NEW t \in Terminal, NEW m \in Nat
    PROVE  LET g == [f EXCEPT !.pc = "returned", !.terminal = t, !.errors = m,
                              !.ctxErrors = 0, !.notes = << >>]
           IN  g \in Frame /\ g.pc = "returned" /\ g.terminal = t
<1>. DEFINE h == [f EXCEPT !.pc = "returned", !.terminal = t]
<1>1. h \in Frame /\ h.pc = "returned" /\ h.terminal = t
  BY DEF Frame
<1>. HIDE DEF h
<1>. DEFINE g == [h EXCEPT !.errors = m, !.ctxErrors = 0]
<1>2. g \in Frame /\ g.pc = "returned" /\ g.terminal = t
  BY <1>1 DEF Frame
<1>. HIDE DEF g
<1>. DEFINE s == << >>
<1>4. s \in Seq(Nat)
  OBVIOUS
<1>. HIDE DEF s
<1>3. [g EXCEPT !.notes = s] \in Frame /\ [g EXCEPT !.notes = s].pc = "returned"
      /\ [g EXCEPT !.notes = s].terminal = t
  BY <1>2, <1>4 DEF Frame
<1>. QED BY <1>3 DEF g, h, s

LEMMA ErrorsType == ASSUME TypeOK, NEW n \in Nat PROVE F.errors + n \in Nat
BY FrameType DEF Frame

(* What a return and a deny leave in the innermost frame.                  *)
LEMMA ReturnFrame ==
    ASSUME TypeOK, NEW t \in Terminal, NEW n \in Nat, Return(t, n)
    PROVE  /\ frames' \in [Depths -> Frame]
           /\ frames'[top].pc = "returned" /\ frames'[top].terminal = t
           /\ \A d \in Depths : d # top => frames'[d] = frames[d]
<1>. DEFINE m == F.errors + n
            frame == [F EXCEPT !.pc = "returned", !.terminal = t, !.errors = m, !.ctxErrors = 0]
<1>1. m \in Nat
  BY ErrorsType
<1>2. Becomes(frame)
  BY DEF Return
<1>. HIDE DEF m
<1>3. frame \in Frame /\ frame.pc = "returned" /\ frame.terminal = t
  BY FrameType, <1>1, ReturnedFrame
<1>. HIDE DEF frame
<1>. QED BY <1>2, <1>3, BecomesType

LEMMA ReturnDenyFrame ==
    ASSUME TypeOK, NEW t \in Terminal, NEW n \in Nat, ReturnDeny(t, n)
    PROVE  /\ frames' \in [Depths -> Frame]
           /\ frames'[top].pc = "returned" /\ frames'[top].terminal = t
           /\ \A d \in Depths : d # top => frames'[d] = frames[d]
<1>. DEFINE m == F.errors + n
            frame == [F EXCEPT !.pc = "returned", !.terminal = t, !.errors = m,
                               !.ctxErrors = 0, !.notes = << >>]
<1>1. m \in Nat
  BY ErrorsType
<1>2. Becomes(frame)
  BY DEF ReturnDeny
<1>. HIDE DEF m
<1>3. frame \in Frame /\ frame.pc = "returned" /\ frame.terminal = t
  BY FrameType, <1>1, DeniedFrame
<1>. HIDE DEF frame
<1>. QED BY <1>2, <1>3, BecomesType

----------------------------------------------------------------------------
(* The shapes of a step *)

Decisions == DenyIsInnermost /\ DenialIsLast /\ AskIsHeld

OnlyInnermost ==
    /\ top' = top /\ policy' = policy
    /\ frames' \in [Depths -> Frame]
    /\ \A d \in Depths : d # top => frames'[d] = frames[d]

LEMMA TopType == TypeOK => top \in Depths /\ 0 .. top \subseteq Depths /\ top \in 0 .. top
                           /\ MAX_RECURSE_DEPTH \in Nat
BY EngineConstants DEF TypeOK, Depths

(* While the innermost frame runs, nobody has denied.                      *)
LEMMA NobodyDenied ==
    ASSUME Inv, F.pc # "returned"
    PROVE  denial = 0 /\ \A d \in 0 .. top : frames[d].terminal.kind # "deny"
BY TopType DEF Inv, DenyIsInnermost, DenialIsLast, F

LEMMA QuietStep ==
    ASSUME Inv, F.pc # "returned", OnlyInnermost,
           frames'[top].terminal = F.terminal, EmitNothing
    PROVE  Decisions'
<1>1. denial = 0 /\ denial' = 0 /\ firstAsk' = firstAsk
  BY NobodyDenied DEF EmitNothing
<1>2. \A d \in 0 .. top : frames'[d].terminal = frames[d].terminal
  BY TopType DEF Inv, OnlyInnermost, F
<1>3. top' = top
  BY DEF OnlyInnermost
<1>4. DenyIsInnermost'
  BY <1>2, <1>3, NobodyDenied DEF DenyIsInnermost
<1>5. DenialIsLast'
  BY <1>1 DEF DenialIsLast
<1>6. AskIsHeld'
  BY <1>1, <1>2, <1>3 DEF AskIsHeld, Inv
<1>. QED BY <1>4, <1>5, <1>6 DEF Decisions

LEMMA AskStep ==
    ASSUME Inv, F.pc # "returned", OnlyInnermost,
           frames'[top].terminal.kind = "ask", Emit("ask")
    PROVE  Decisions'
<1>1. denial = 0 /\ denial' = 0
  BY NobodyDenied, EmitType DEF Inv
<1>2. \A d \in 0 .. top : frames'[d].terminal.kind # "deny"
  BY NobodyDenied, TopType DEF Inv, OnlyInnermost
<1>3. top' = top /\ top \in 0 .. top
  BY TopType DEF OnlyInnermost, Inv
<1>4. DenyIsInnermost'
  BY <1>2, <1>3 DEF DenyIsInnermost
<1>5. DenialIsLast'
  BY <1>1 DEF DenialIsLast
<1>6. AskIsHeld'
  BY <1>3 DEF AskIsHeld
<1>. QED BY <1>4, <1>5, <1>6 DEF Decisions

LEMMA DenyStep ==
    ASSUME Inv, F.pc # "returned", OnlyInnermost, frames'[top].pc = "returned",
           frames'[top].terminal = Emission("deny"), Emit("deny")
    PROVE  Decisions'
<1>1. denial' = emitted + 1 /\ emitted' = emitted + 1 /\ denial' # 0
  BY EmitType DEF Inv
<1>2. frames'[top].terminal.kind = "deny" /\ frames'[top].terminal.at = denial'
  BY <1>1, EmissionType DEF Inv
<1>3. \A d \in 0 .. top : d # top => frames'[d].terminal.kind # "deny"
  BY NobodyDenied, TopType DEF Inv, OnlyInnermost
<1>4. top' = top /\ top \in 0 .. top
  BY TopType DEF OnlyInnermost, Inv
<1>5. DenyIsInnermost'
  BY <1>1, <1>2, <1>3, <1>4 DEF DenyIsInnermost
<1>6. DenialIsLast'
  BY <1>1, <1>2, <1>4 DEF DenialIsLast, F
<1>7. AskIsHeld'
  BY <1>1 DEF AskIsHeld
<1>. QED BY <1>5, <1>6, <1>7 DEF Decisions

----------------------------------------------------------------------------
(* The actions *)

LEMMA InnermostStep ==
    ASSUME TypeOK, NEW g \in Frame, Becomes(g), UNCHANGED <<policy, top>>
    PROVE  OnlyInnermost /\ frames'[top] = g
BY BecomesType DEF OnlyInnermost

LEMMA ShallowStep ==
    ASSUME Inv, OnlyInnermost,
           frames'[top].pc \in {"inspect", "calls"} => top < MAX_RECURSE_DEPTH
    PROVE  ShallowInspection'
BY DEF Inv, ShallowInspection, OnlyInnermost

LEMMA TypeStep ==
    ASSUME TypeOK, OnlyInnermost, emitted' \in Nat, firstAsk' \in Nat, denial' \in Nat,
           noted' \in Nat, raised' \in Nat, dead' \in BOOLEAN /\ limited' \in BOOLEAN
    PROVE  TypeOK'
BY DEF TypeOK, OnlyInnermost

LEMMA EmitNothingType ==
    ASSUME TypeOK, EmitNothing
    PROVE  emitted' \in Nat /\ firstAsk' \in Nat /\ denial' \in Nat
BY DEF TypeOK, EmitNothing

(* A step of the innermost frame that emits nothing.                       *)
LEMMA QuietInv ==
    ASSUME Inv, F.pc # "returned", NEW g \in Frame, Becomes(g), UNCHANGED <<policy, top>>,
           g.terminal = F.terminal, EmitNothing,
           g.pc \in {"inspect", "calls"} => top < MAX_RECURSE_DEPTH,
           noted' \in Nat, raised' \in Nat, dead' \in BOOLEAN /\ limited' \in BOOLEAN
    PROVE  Inv'
<1>1. OnlyInnermost /\ frames'[top] = g
  BY InnermostStep DEF Inv
<1>2. TypeOK'
  BY <1>1, TypeStep, EmitNothingType DEF Inv
<1>3. ShallowInspection'
  BY <1>1, ShallowStep
<1>4. Decisions'
  BY <1>1, QuietStep
<1>. QED BY <1>2, <1>3, <1>4 DEF Inv, Decisions

(* ... that asks.                                                          *)
LEMMA AskInv ==
    ASSUME Inv, F.pc # "returned", NEW g \in Frame, Becomes(g), UNCHANGED <<policy, top>>,
           g.terminal.kind = "ask", Emit("ask"),
           g.pc \in {"inspect", "calls"} => top < MAX_RECURSE_DEPTH,
           noted' \in Nat, raised' \in Nat, dead' \in BOOLEAN /\ limited' \in BOOLEAN
    PROVE  Inv'
<1>1. OnlyInnermost /\ frames'[top] = g
  BY InnermostStep DEF Inv
<1>2. TypeOK'
  BY <1>1, TypeStep, EmitType DEF Inv
<1>3. ShallowInspection'
  BY <1>1, ShallowStep
<1>4. Decisions'
  BY <1>1, AskStep
<1>. QED BY <1>2, <1>3, <1>4 DEF Inv, Decisions

(* The three ways out of a frame.                                          *)
LEMMA ReturnInv ==
    ASSUME Inv, F.pc # "returned", NEW n \in Nat, UNCHANGED <<policy, top, noted, dead>>,
           raised' \in Nat, limited' \in BOOLEAN,
           \/ Return(F.terminal, n) /\ EmitNothing
           \/ \E t \in Terminal : t.kind = "ask" /\ Return(t, n) /\ Emit("ask")
           \/ ReturnDeny(Emission("deny"), n) /\ Emit("deny")
    PROVE  Inv'
<1>0. TypeOK /\ F.terminal \in Terminal /\ noted' \in Nat /\ dead' \in BOOLEAN /\ limited' \in BOOLEAN
  BY FrameType DEF Inv, TypeOK, Frame
<1>1. CASE Return(F.terminal, n) /\ EmitNothing
  <2>1. OnlyInnermost /\ frames'[top].pc = "returned" /\ frames'[top].terminal = F.terminal
    BY <1>0, <1>1, ReturnFrame DEF OnlyInnermost
  <2>2. TypeOK'
    BY <1>0, <1>1, <2>1, TypeStep, EmitNothingType
  <2>. QED BY <1>1, <2>1, <2>2, ShallowStep, QuietStep DEF Inv, Decisions
<1>2. ASSUME NEW t \in Terminal, t.kind = "ask", Return(t, n), Emit("ask")
      PROVE  Inv'
  <2>1. OnlyInnermost /\ frames'[top].pc = "returned" /\ frames'[top].terminal = t
    BY <1>0, <1>2, ReturnFrame DEF OnlyInnermost
  <2>2. TypeOK'
    BY <1>0, <1>2, <2>1, TypeStep, EmitType
  <2>. QED BY <1>2, <2>1, <2>2, ShallowStep, AskStep DEF Inv, Decisions
<1>3. CASE ReturnDeny(Emission("deny"), n) /\ Emit("deny")
  <2>1. Emission("deny") \in Terminal
    BY <1>0, EmissionType
  <2>2. OnlyInnermost /\ frames'[top].pc = "returned"
        /\ frames'[top].terminal = Emission("deny")
    BY <1>0, <1>3, <2>1, ReturnDenyFrame DEF OnlyInnermost
  <2>3. TypeOK'
    BY <1>0, <1>3, <2>2, TypeStep, EmitType
  <2>. QED BY <1>3, <2>2, <2>3, ShallowStep, DenyStep DEF Inv, Decisions
<1>. QED BY <1>1, <1>2, <1>3

LEMMA OrElseType ==
    ASSUME TypeOK
    PROVE  /\ OrElse(F.terminal, Emission("ask")) \in Terminal
           /\ F.terminal.kind # "deny" => OrElse(F.terminal, Emission("ask")).kind = "ask"
<1>1. F.terminal \in Terminal
  BY FrameType DEF Frame
<1>. QED BY <1>1, EmissionType DEF OrElse, Terminal

(* The innermost frame never holds a deny while it runs.                   *)
LEMMA NoDenyHere == ASSUME Inv, F.pc # "returned" PROVE F.terminal.kind # "deny"
BY NobodyDenied, TopType DEF Inv, F

LEMMA HistoryType ==
    TypeOK => /\ emitted \in Nat /\ firstAsk \in Nat /\ denial \in Nat
              /\ noted \in Nat /\ raised \in Nat /\ dead \in BOOLEAN /\ limited \in BOOLEAN
BY DEF TypeOK

LEMMA FrameFields ==
    TypeOK => /\ F.pc \in {"rules", "inspect", "calls", "final", "returned"}
              /\ F.rules \in 0 .. MaxRules /\ F.calls \in 0 .. MaxCalls
              /\ F.ctxErrors \in Nat /\ F.terminal \in Terminal /\ F.errors \in Nat
              /\ F.notes \in Seq(Nat)
BY FrameType DEF Frame

LEMMA ShallowHere ==
    ASSUME Inv, F.pc \in {"inspect", "calls"} PROVE top < MAX_RECURSE_DEPTH
BY TopType DEF Inv, ShallowInspection, F

LEMMA LimitedKept == ASSUME Inv, UNCHANGED limited PROVE limited' \in BOOLEAN
BY DEF Inv, TypeOK

LEMMA ParseCommandInv == ASSUME Inv, ParseCommand PROVE Inv'
<1>1. PICK p \in {"ast", "empty", "unparsable", "unavailable", "unexpected"} :
          LET failed == IF p \in {"unavailable", "unexpected"} THEN 1 ELSE 0 IN
          /\ Becomes([F EXCEPT !.parse = p, !.ctxErrors = failed])
          /\ raised' = raised + failed
          /\ dead' = (dead \/ (p = "unavailable" /\ policy.onEngineUnavailable = "deny-all"))
  BY DEF ParseCommand
<1>. DEFINE failed == IF p \in {"unavailable", "unexpected"} THEN 1 ELSE 0
            g == [F EXCEPT !.parse = p, !.ctxErrors = failed]
<1>2. failed \in Nat
  OBVIOUS
<1>3. Becomes(g) /\ raised' = raised + failed /\ dead' \in BOOLEAN /\ UNCHANGED limited
  BY <1>1 DEF ParseCommand
<1>. HIDE DEF failed
<1>4. g \in Frame /\ g.terminal = F.terminal /\ g.pc = F.pc
  BY FrameType, <1>2 DEF Inv, Frame
<1>5. F.pc \in {"rules", "inspect"} /\ UNCHANGED <<policy, limited, top, noted>> /\ EmitNothing
  BY DEF ParseCommand, EmitNothing
<1>6. raised' \in Nat /\ noted' \in Nat
  BY <1>2, <1>3, <1>5, HistoryType DEF Inv
<1>7. g.pc \in {"inspect", "calls"} => top < MAX_RECURSE_DEPTH
  BY <1>4, <1>5, ShallowHere
<1>. HIDE DEF g
<1>. QED BY <1>3, <1>4, <1>5, <1>6, <1>7, LimitedKept, QuietInv

LEMMA RuleIsSilentInv == ASSUME Inv, RuleIsSilent PROVE Inv'
<1>. DEFINE g == [F EXCEPT !.rules = @ + 1]
<1>1. F.pc = "rules" /\ F.rules < MaxRules /\ Becomes(g) /\ UNCHANGED <<policy, limited, top, history>>
  BY DEF RuleIsSilent, RuleReady
<1>2. F.rules + 1 \in 0 .. MaxRules
  BY <1>1, FrameFields, EngineConstants DEF Inv
<1>3. g \in Frame /\ g.terminal = F.terminal /\ g.pc = "rules"
  BY <1>1, <1>2, FrameType DEF Inv, Frame
<1>. HIDE DEF g
<1>4. EmitNothing /\ noted' \in Nat /\ raised' \in Nat /\ dead' \in BOOLEAN /\ limited' \in BOOLEAN
  BY <1>1, HistoryType DEF history, EmitNothing, Inv
<1>. QED BY <1>1, <1>3, <1>4, QuietInv

LEMMA RuleThrowsInv == ASSUME Inv, RuleThrows PROVE Inv'
<1>1. PICK k \in Thrown : /\ Becomes([F EXCEPT !.rules = @ + 1, !.errors = @ + 1 + k])
                          /\ raised' = raised + 1 + k
  BY DEF RuleThrows
<1>. DEFINE r == F.rules + 1  m == F.errors + 1 + k
            g == [F EXCEPT !.rules = r, !.errors = m]
<1>2. F.pc = "rules" /\ F.rules < MaxRules
      /\ UNCHANGED <<policy, limited, top, noted, dead>> /\ EmitNothing
  BY DEF RuleThrows, RuleReady, EmitNothing
<1>3. r \in 0 .. MaxRules /\ m \in Nat
  BY <1>2, FrameFields, ThrownType, EngineConstants DEF Inv
<1>4. Becomes(g)
  BY <1>1
<1>. HIDE DEF r, m
<1>5. g \in Frame /\ g.terminal = F.terminal /\ g.pc = "rules"
  BY <1>2, <1>3, FrameType DEF Inv, Frame
<1>. HIDE DEF g
<1>6. noted' \in Nat /\ raised' \in Nat /\ dead' \in BOOLEAN /\ limited' \in BOOLEAN
  BY <1>1, <1>2, HistoryType, ThrownType DEF Inv
<1>. QED BY <1>2, <1>4, <1>5, <1>6, QuietInv

LEMMA RuleDeniesInv == ASSUME Inv, RuleDenies PROVE Inv'
<1>1. PICK k \in Thrown, e \in ExitErrors :
          ReturnDeny(Emission("deny"), k + e) /\ raised' = raised + k + e - F.ctxErrors
  BY DEF RuleDenies
<1>2. F.pc # "returned" /\ Emit("deny") /\ UNCHANGED <<policy, limited, top, noted, dead>>
  BY DEF RuleDenies, RuleReady
<1>3. k \in Nat /\ e \in Nat /\ e - F.ctxErrors \in Nat /\ F.ctxErrors \in Nat /\ raised \in Nat
  BY ThrownType, ExitErrorsType, FrameFields, HistoryType DEF Inv
<1>4. k + e \in Nat /\ raised' \in Nat
  BY <1>1, <1>3
<1>. QED BY <1>1, <1>2, <1>4, LimitedKept, ReturnInv

LEMMA RuleAsksInv == ASSUME Inv, RuleAsks PROVE Inv'
<1>1. PICK k \in Thrown :
          /\ Becomes([F EXCEPT !.rules = @ + 1, !.errors = @ + k,
                               !.terminal = OrElse(@, Emission("ask"))])
          /\ raised' = raised + k
  BY DEF RuleAsks
<1>. DEFINE r == F.rules + 1  m == F.errors + k  t == OrElse(F.terminal, Emission("ask"))
            g == [F EXCEPT !.rules = r, !.errors = m, !.terminal = t]
<1>2. F.pc = "rules" /\ F.rules < MaxRules
      /\ UNCHANGED <<policy, limited, top, noted, dead>> /\ Emit("ask")
  BY DEF RuleAsks, RuleReady
<1>3. r \in 0 .. MaxRules /\ m \in Nat
  BY <1>2, FrameFields, ThrownType, EngineConstants DEF Inv
<1>4. t \in Terminal /\ t.kind = "ask"
  BY <1>2, OrElseType, NoDenyHere DEF Inv
<1>5. Becomes(g)
  BY <1>1
<1>. HIDE DEF r, m, t
<1>6. g \in Frame /\ g.terminal = t /\ g.pc = "rules"
  BY <1>2, <1>3, <1>4, FrameType DEF Inv, Frame
<1>. HIDE DEF g
<1>7. noted' \in Nat /\ raised' \in Nat /\ dead' \in BOOLEAN /\ limited' \in BOOLEAN
  BY <1>1, <1>2, HistoryType, ThrownType DEF Inv
<1>. QED BY <1>2, <1>4, <1>5, <1>6, <1>7, AskInv

LEMMA RuleAnnotatesInv == ASSUME Inv, RuleAnnotates PROVE Inv'
<1>1. PICK k \in Thrown :
          /\ Becomes([F EXCEPT !.rules = @ + 1, !.errors = @ + k,
                               !.notes = Append(@, noted + 1)])
          /\ raised' = raised + k
  BY DEF RuleAnnotates
<1>. DEFINE r == F.rules + 1  m == F.errors + k  q == Append(F.notes, noted + 1)
            g == [F EXCEPT !.rules = r, !.errors = m, !.notes = q]
<1>2. F.pc = "rules" /\ F.rules < MaxRules /\ noted' = noted + 1
      /\ UNCHANGED <<policy, limited, top, dead>> /\ EmitNothing
  BY DEF RuleAnnotates, RuleReady, EmitNothing
<1>3. r \in 0 .. MaxRules /\ m \in Nat /\ q \in Seq(Nat)
  <2>1. r \in 0 .. MaxRules /\ m \in Nat
    BY <1>2, FrameFields, ThrownType, EngineConstants DEF Inv
  <2>2. F.notes \in Seq(Nat) /\ noted + 1 \in Nat
    BY FrameFields, HistoryType DEF Inv
  <2>3. q \in Seq(Nat)
    BY <2>2
  <2>. QED BY <2>1, <2>3
<1>4. Becomes(g)
  BY <1>1
<1>. HIDE DEF r, m, q
<1>5. g \in Frame /\ g.terminal = F.terminal /\ g.pc = "rules"
  BY <1>2, <1>3, FrameType DEF Inv, Frame
<1>. HIDE DEF g
<1>6. noted' \in Nat /\ raised' \in Nat /\ dead' \in BOOLEAN /\ limited' \in BOOLEAN
  BY <1>1, <1>2, HistoryType, ThrownType DEF Inv
<1>. QED BY <1>2, <1>4, <1>5, <1>6, QuietInv

LEMMA EndOfRulesInv == ASSUME Inv, EndOfRules PROVE Inv'
<1>. DEFINE to == IF policy.recurse THEN "inspect" ELSE "final"
            g == [F EXCEPT !.pc = to]
<1>1. F.pc = "rules" /\ Becomes(g) /\ UNCHANGED <<policy, limited, top, history>>
      /\ (policy.recurse => top < MAX_RECURSE_DEPTH)
  BY DEF EndOfRules
<1>2. to \in {"inspect", "final"} /\ (to = "inspect" => top < MAX_RECURSE_DEPTH)
  BY <1>1
<1>. HIDE DEF to
<1>3. g \in Frame /\ g.terminal = F.terminal /\ g.pc = to
  BY <1>2, FrameType DEF Inv, Frame
<1>. HIDE DEF g
<1>4. EmitNothing /\ noted' \in Nat /\ raised' \in Nat /\ dead' \in BOOLEAN /\ limited' \in BOOLEAN
  BY <1>1, HistoryType DEF history, EmitNothing, Inv
<1>. QED BY <1>1, <1>2, <1>3, <1>4, QuietInv

LEMMA DepthExceededInv == ASSUME Inv, DepthExceeded PROVE Inv'
<1>. DEFINE esc == policy.onDepthExceeded
<1>1. PICK e \in ExitErrors, k \in Thrown :
          /\ esc = "allow" => k = 0
          /\ CASE esc = "deny"  -> ReturnDeny(Emission("deny"), e + k) /\ Emit("deny")
               [] esc = "ask"   -> Return(Emission("ask"), e + k) /\ Emit("ask")
               [] esc = "allow" -> Return(F.terminal, e) /\ EmitNothing
          /\ raised' = raised + k + e - F.ctxErrors
  BY DEF DepthExceeded
<1>2. F.pc # "returned" /\ UNCHANGED <<policy, top, noted, dead>> /\ limited' = TRUE
  BY DEF DepthExceeded
<1>3. k \in Nat /\ e \in Nat /\ e - F.ctxErrors \in Nat /\ F.ctxErrors \in Nat /\ raised \in Nat
  BY ThrownType, ExitErrorsType, FrameFields, HistoryType DEF Inv
<1>4. e + k \in Nat /\ raised' \in Nat
  BY <1>1, <1>3
<1>5. esc \in {"deny", "ask", "allow"}
  BY PolicyType DEF Inv, Policy, Kinds
<1>6. CASE esc = "deny"
  BY <1>1, <1>2, <1>4, <1>6, ReturnInv
<1>7. CASE esc = "ask"
  <2>1. Emission("ask") \in Terminal /\ Emission("ask").kind = "ask"
    BY EmissionType DEF Inv
  <2>. QED BY <1>1, <1>2, <1>4, <1>7, <2>1, ReturnInv
<1>8. CASE esc = "allow"
  BY <1>1, <1>2, <1>3, <1>4, <1>8, ReturnInv
<1>. QED BY <1>5, <1>6, <1>7, <1>8

LEMMA InspectInv == ASSUME Inv, Inspect PROVE Inv'
<1>. DEFINE to == IF F.parse = "ast" THEN "calls" ELSE "final"
            g == [F EXCEPT !.pc = to]
<1>1. F.pc = "inspect" /\ Becomes(g) /\ UNCHANGED <<policy, limited, top, history>>
  BY DEF Inspect
<1>2. to \in {"calls", "final"} /\ top < MAX_RECURSE_DEPTH
  BY <1>1, ShallowHere
<1>. HIDE DEF to
<1>3. g \in Frame /\ g.terminal = F.terminal /\ g.pc = to
  BY <1>2, FrameType DEF Inv, Frame
<1>. HIDE DEF g
<1>4. EmitNothing /\ noted' \in Nat /\ raised' \in Nat /\ dead' \in BOOLEAN /\ limited' \in BOOLEAN
  BY <1>1, HistoryType DEF history, EmitNothing, Inv
<1>. QED BY <1>1, <1>2, <1>3, <1>4, QuietInv

LEMMA UnwrapFailsInv == ASSUME Inv, UnwrapFails PROVE Inv'
<1>1. CallReady /\ F.pc = "calls" /\ UNCHANGED <<policy, limited, top, noted>>
  BY DEF UnwrapFails, CallReady
<1>2. F.errors \in Nat /\ F.terminal \in Terminal /\ raised \in Nat /\ noted' \in Nat
      /\ dead \in BOOLEAN /\ limited \in BOOLEAN /\ top < MAX_RECURSE_DEPTH
  BY <1>1, FrameFields, HistoryType, ShallowHere DEF Inv
<1>3. CASE /\ policy.onEngineUnavailable = "deny-all"
           /\ \E k \in Thrown, j \in Thrown, e \in 0 .. 1 + Observers :
                /\ ReturnDeny(Emission("deny"), 1 + k + j + e)
                /\ raised' = raised + 1 + k + j + e
           /\ Emit("deny") /\ dead' = TRUE
  <2>1. PICK k \in Thrown, j \in Thrown, e \in 0 .. 1 + Observers :
                /\ ReturnDeny(Emission("deny"), 1 + k + j + e)
                /\ raised' = raised + 1 + k + j + e
    BY <1>3
  <2>2. 1 + k + j + e \in Nat /\ raised' \in Nat
    BY <1>2, <2>1, ThrownType, EngineConstants
  <2>3. TypeOK' /\ ShallowInspection' /\ Decisions'
    <3>1. Emission("deny") \in Terminal /\ TypeOK
      BY EmissionType DEF Inv
    <3>2. OnlyInnermost /\ frames'[top].pc = "returned"
          /\ frames'[top].terminal = Emission("deny")
      BY <1>1, <2>1, <2>2, <3>1, ReturnDenyFrame DEF OnlyInnermost
    <3>3. TypeOK'
      BY <1>1, <1>2, <1>3, <2>2, <3>1, <3>2, LimitedKept, TypeStep, EmitType
    <3>. QED BY <1>1, <1>3, <3>2, <3>3, ShallowStep, DenyStep
  <2>. QED BY <2>3 DEF Inv, Decisions
<1>4. CASE /\ \E k \in Thrown :
                /\ Becomes([F EXCEPT !.calls = @ + 1, !.errors = @ + 1 + k])
                /\ raised' = raised + 1 + k
           /\ EmitNothing /\ UNCHANGED dead
  <2>1. PICK k \in Thrown : /\ Becomes([F EXCEPT !.calls = @ + 1, !.errors = @ + 1 + k])
                            /\ raised' = raised + 1 + k
    BY <1>4
  <2>. DEFINE c == F.calls + 1  m == F.errors + 1 + k
              g == [F EXCEPT !.calls = c, !.errors = m]
  <2>2. c \in 0 .. MaxCalls /\ m \in Nat /\ raised' \in Nat
    <3>1. c \in 0 .. MaxCalls
      BY <1>1, FrameFields, EngineConstants DEF CallReady, Inv
    <3>2. m \in Nat /\ raised' \in Nat
      BY <1>2, <2>1, ThrownType
    <3>. QED BY <3>1, <3>2
  <2>3. Becomes(g)
    BY <2>1
  <2>. HIDE DEF c, m
  <2>4. g \in Frame /\ g.terminal = F.terminal /\ g.pc = "calls"
    BY <1>1, <2>2, FrameType DEF Inv, Frame
  <2>. HIDE DEF g
  <2>5. dead' \in BOOLEAN /\ limited' \in BOOLEAN
    BY <1>1, <1>2, <1>4, LimitedKept
  <2>. QED BY <1>1, <1>2, <1>4, <2>2, <2>3, <2>4, <2>5, QuietInv
<1>5. CASE /\ Becomes([F EXCEPT !.calls = @ + 1])
           /\ EmitNothing /\ UNCHANGED <<raised, dead>>
  <2>. DEFINE c == F.calls + 1  g == [F EXCEPT !.calls = c]
  <2>1. c \in 0 .. MaxCalls
    BY <1>1, FrameFields, EngineConstants DEF CallReady, Inv
  <2>2. Becomes(g)
    BY <1>5
  <2>. HIDE DEF c
  <2>3. g \in Frame /\ g.terminal = F.terminal /\ g.pc = "calls"
    BY <1>1, <2>1, FrameType DEF Inv, Frame
  <2>. HIDE DEF g
  <2>4. dead' \in BOOLEAN /\ limited' \in BOOLEAN /\ raised' \in Nat
    BY <1>1, <1>2, <1>5, LimitedKept
  <2>. QED BY <1>1, <1>2, <1>5, <2>2, <2>3, <2>4, QuietInv
<1>. QED BY <1>3, <1>4, <1>5 DEF UnwrapFails

LEMMA OpaqueShellInv == ASSUME Inv, OpaqueShell PROVE Inv'
<1>. DEFINE esc == policy.uncertaintyDecision
<1>1. PICK k \in Thrown, e \in ExitErrors :
          CASE esc = "deny" ->
                 /\ ReturnDeny(Emission("deny"), k + e) /\ Emit("deny")
                 /\ raised' = raised + k + e - F.ctxErrors
            [] esc = "ask" ->
                 /\ Becomes([F EXCEPT !.calls = @ + 1, !.errors = @ + k,
                                      !.terminal = OrElse(@, Emission("ask"))])
                 /\ Emit("ask") /\ raised' = raised + k
            [] esc = "allow" ->
                 /\ Becomes([F EXCEPT !.calls = @ + 1])
                 /\ EmitNothing /\ UNCHANGED raised
  BY DEF OpaqueShell
<1>2. CallReady /\ F.pc = "calls" /\ UNCHANGED <<policy, limited, top, noted, dead>>
  BY DEF OpaqueShell, CallReady
<1>3. k \in Nat /\ e \in Nat /\ e - F.ctxErrors \in Nat /\ F.ctxErrors \in Nat
  BY ThrownType, ExitErrorsType, FrameFields DEF Inv
<1>4. F.errors \in Nat /\ raised \in Nat /\ noted' \in Nat /\ dead' \in BOOLEAN /\ limited' \in BOOLEAN
      /\ top < MAX_RECURSE_DEPTH
  BY <1>2, FrameFields, HistoryType, ShallowHere DEF Inv
<1>5. F.calls + 1 \in 0 .. MaxCalls
  BY <1>2, FrameFields, EngineConstants DEF CallReady, Inv
<1>6. esc \in {"deny", "ask", "allow"}
  BY PolicyType DEF Inv, Policy, Kinds
<1>7. CASE esc = "deny"
  <2>1. ReturnDeny(Emission("deny"), k + e) /\ Emit("deny")
        /\ raised' = raised + k + e - F.ctxErrors
    BY <1>1, <1>7
  <2>2. k + e \in Nat /\ raised' \in Nat
    BY <1>3, <1>4, <2>1
  <2>. QED BY <1>2, <2>1, <2>2, LimitedKept, ReturnInv
<1>8. CASE esc = "ask"
  <2>. DEFINE c == F.calls + 1  m == F.errors + k  t == OrElse(F.terminal, Emission("ask"))
              g == [F EXCEPT !.calls = c, !.errors = m, !.terminal = t]
  <2>1. Becomes(g) /\ Emit("ask") /\ raised' = raised + k
    BY <1>1, <1>8
  <2>2. c \in 0 .. MaxCalls /\ m \in Nat /\ raised' \in Nat
    BY <1>3, <1>4, <1>5, <2>1
  <2>3. t \in Terminal /\ t.kind = "ask"
    BY <1>2, OrElseType, NoDenyHere DEF Inv
  <2>. HIDE DEF c, m, t
  <2>4. g \in Frame /\ g.terminal = t /\ g.pc = "calls"
    BY <1>2, <2>2, <2>3, FrameType DEF Inv, Frame
  <2>. HIDE DEF g
  <2>. QED BY <1>2, <1>4, <2>1, <2>2, <2>3, <2>4, AskInv
<1>9. CASE esc = "allow"
  <2>. DEFINE c == F.calls + 1  g == [F EXCEPT !.calls = c]
  <2>1. Becomes(g) /\ EmitNothing /\ raised' = raised
    BY <1>1, <1>9
  <2>2. c \in 0 .. MaxCalls
    BY <1>5
  <2>. HIDE DEF c
  <2>3. g \in Frame /\ g.terminal = F.terminal /\ g.pc = "calls"
    BY <1>2, <2>2, FrameType DEF Inv, Frame
  <2>. HIDE DEF g
  <2>. QED BY <1>2, <1>4, <2>1, <2>3, QuietInv
<1>. QED BY <1>6, <1>7, <1>8, <1>9

LEMMA InlineScriptInv == ASSUME Inv, InlineScript PROVE Inv'
<1>. DEFINE c == F.calls + 1  g == [F EXCEPT !.calls = c]
<1>1. CallReady /\ F.pc = "calls" /\ top' = top + 1 /\ UNCHANGED <<policy, limited, history>>
      /\ frames' = [frames EXCEPT ![top].calls = @ + 1, ![top + 1] = NewFrame]
  BY DEF InlineScript, CallReady
<1>2. top \in Nat /\ top + 1 \in Depths /\ top \in Depths /\ MAX_RECURSE_DEPTH \in Nat
  BY <1>1, ShallowHere, TopType DEF Inv, Depths
<1>3. c \in 0 .. MaxCalls
  BY <1>1, FrameFields, EngineConstants DEF CallReady, Inv
<1>4. frames' = [frames EXCEPT ![top] = g, ![top + 1] = NewFrame]
  BY <1>1, <1>2 DEF F, Inv, TypeOK
<1>. HIDE DEF c
<1>5. g \in Frame /\ g.terminal = F.terminal /\ g.pc = F.pc
  BY <1>3, FrameType DEF Inv, Frame
<1>. HIDE DEF g
<1>6. /\ frames' \in [Depths -> Frame]
      /\ frames'[top] = g /\ frames'[top + 1] = NewFrame
      /\ \A d \in Depths : d # top /\ d # top + 1 => frames'[d] = frames[d]
  BY <1>2, <1>4, <1>5, NewFrameType DEF Inv, TypeOK
<1>7. TypeOK'
  BY <1>1, <1>2, <1>6, HistoryType DEF Inv, TypeOK, history
<1>8. NewFrame.pc = "rules" /\ NewFrame.terminal.kind = "none"
  BY DEF NewFrame, NoTerminal
<1>9. ShallowInspection'
  <2>1. \A d \in Depths : frames'[d].pc = frames[d].pc \/ d = top + 1
    BY <1>2, <1>5, <1>6 DEF F
  <2>. QED BY <1>6, <1>8, <2>1 DEF Inv, ShallowInspection
<1>10. \A d \in 0 .. top : frames'[d].terminal = frames[d].terminal
  BY <1>2, <1>5, <1>6 DEF F, Depths
<1>11. denial = 0 /\ \A d \in 0 .. top : frames[d].terminal.kind # "deny"
  BY <1>1, NobodyDenied
<1>12. emitted' = emitted /\ firstAsk' = firstAsk /\ denial' = denial
  BY <1>1 DEF history
<1>13. DenyIsInnermost'
  <2>1. \A d \in 0 .. top + 1 : d \in 0 .. top \/ d = top + 1
    BY <1>2
  <2>. QED BY <1>1, <1>6, <1>8, <1>10, <1>11, <2>1 DEF DenyIsInnermost
<1>14. DenialIsLast'
  BY <1>11, <1>12 DEF DenialIsLast
<1>15. AskIsHeld'
  <2>1. 0 .. top \subseteq 0 .. top + 1
    BY <1>2
  <2>. QED BY <1>1, <1>10, <1>12, <2>1 DEF AskIsHeld, Inv
<1>. QED BY <1>7, <1>9, <1>13, <1>14, <1>15 DEF Inv

LEMMA EndOfCallsInv == ASSUME Inv, EndOfCalls PROVE Inv'
<1>. DEFINE g == [F EXCEPT !.pc = "final"]
<1>1. F.pc = "calls" /\ Becomes(g) /\ UNCHANGED <<policy, limited, top, history>>
  BY DEF EndOfCalls
<1>2. g \in Frame /\ g.terminal = F.terminal /\ g.pc = "final"
  BY FrameType DEF Inv, Frame
<1>. HIDE DEF g
<1>3. EmitNothing /\ noted' \in Nat /\ raised' \in Nat /\ dead' \in BOOLEAN /\ limited' \in BOOLEAN
  BY <1>1, HistoryType DEF history, EmitNothing, Inv
<1>. QED BY <1>1, <1>2, <1>3, QuietInv

LEMMA FinishInv == ASSUME Inv, Finish PROVE Inv'
<1>. DEFINE v == Verdict(F.parse)
<1>1. PICK e \in ExitErrors, k \in Thrown :
          /\ CASE v = "deny"  -> ReturnDeny(Emission("deny"), e + k) /\ Emit("deny")
               [] v = "ask"   -> Return(OrElse(F.terminal, Emission("ask")), e + k) /\ Emit("ask")
               [] v = "allow" -> k = 0 /\ Return(F.terminal, e) /\ EmitNothing
          /\ raised' = raised + k + e - F.ctxErrors
  BY DEF Finish
<1>2. F.pc # "returned" /\ UNCHANGED <<policy, limited, top, noted, dead>>
  BY DEF Finish
<1>3. k \in Nat /\ e \in Nat /\ e - F.ctxErrors \in Nat /\ F.ctxErrors \in Nat /\ raised \in Nat
  BY ThrownType, ExitErrorsType, FrameFields, HistoryType DEF Inv
<1>4. e + k \in Nat /\ raised' \in Nat
  BY <1>1, <1>3
<1>5. v \in {"deny", "ask", "allow"}
  BY PolicyType DEF Inv, Policy, Kinds, Verdict
<1>. HIDE DEF v
<1>6. CASE v = "deny"
  BY <1>1, <1>2, <1>4, <1>6, LimitedKept, ReturnInv
<1>7. CASE v = "ask"
  <2>1. OrElse(F.terminal, Emission("ask")) \in Terminal
        /\ OrElse(F.terminal, Emission("ask")).kind = "ask"
    BY <1>2, OrElseType, NoDenyHere DEF Inv
  <2>. QED BY <1>1, <1>2, <1>4, <1>7, <2>1, LimitedKept, ReturnInv
<1>8. CASE v = "allow"
  BY <1>1, <1>2, <1>3, <1>4, <1>8, LimitedKept, ReturnInv
<1>. QED BY <1>5, <1>6, <1>7, <1>8

(* A return to the outer frame.                                            *)
LEMMA OuterStep ==
    ASSUME TypeOK, top > 0, top' = top - 1, NEW g \in Frame,
           frames' = [frames EXCEPT ![top] = NewFrame, ![top - 1] = g]
    PROVE  /\ frames' \in [Depths -> Frame] /\ top' \in Depths /\ top - 1 \in 0 .. top
           /\ frames'[top] = NewFrame /\ frames'[top - 1] = g
           /\ \A d \in Depths : d # top /\ d # top - 1 => frames'[d] = frames[d]
           /\ 0 .. top' \subseteq 0 .. top
           /\ \A d \in 0 .. top : d = top \/ d \in 0 .. top'
           /\ \A d \in 0 .. top' : d = top' \/ frames'[d] = frames[d]
<1>1. top \in Nat /\ top \in Depths /\ top - 1 \in Depths /\ top - 1 # top
      /\ 0 .. top \subseteq Depths
  BY TopType DEF Depths
<1>. QED BY <1>1, NewFrameType DEF TypeOK

LEMMA OuterFields ==
    ASSUME TypeOK, top > 0
    PROVE  /\ frames[top - 1] \in Frame /\ frames[top - 1].errors \in Nat
           /\ frames[top - 1].notes \in Seq(Nat) /\ frames[top - 1].terminal \in Terminal
           /\ top - 1 \in 0 .. top /\ top - 1 # top /\ top - 1 \in Depths
<1>1. top - 1 \in Depths /\ top - 1 \in 0 .. top /\ top - 1 # top
  BY TopType DEF Depths
<1>. QED BY <1>1 DEF TypeOK, Frame

LEMMA OuterShallow ==
    ASSUME Inv, top > 0, top' = top - 1, NEW g \in Frame,
           frames' = [frames EXCEPT ![top] = NewFrame, ![top - 1] = g],
           g.pc \in {"inspect", "calls"} => g.pc = frames[top - 1].pc
    PROVE  ShallowInspection'
<1>1. NewFrame.pc = "rules"
  BY DEF NewFrame
<1>2. \A d \in Depths : frames'[d].pc \in {"inspect", "calls"} => frames'[d].pc = frames[d].pc
  BY <1>1, OuterStep, OuterFields DEF Inv
<1>. QED BY <1>2 DEF Inv, ShallowInspection

LEMMA ResumeDeniedInv == ASSUME Inv, ResumeDenied PROVE Inv'
<1>1. top > 0 /\ F.pc = "returned" /\ F.terminal.kind = "deny" /\ top' = top - 1
      /\ UNCHANGED <<policy, limited, emitted, firstAsk, denial, noted, dead>>
  BY DEF ResumeDenied
<1>2. PICK e \in 0 .. 1 + Observers :
          /\ frames' = [frames EXCEPT ![top] = NewFrame,
                          ![top - 1] = [Outer EXCEPT !.pc = "returned", !.terminal = F.terminal,
                                                 !.errors = @ + F.errors + e, !.notes = << >>]]
          /\ raised' = raised + e
  BY DEF ResumeDenied
<1>. DEFINE f == frames[top - 1]  t == F.terminal  m == f.errors + F.errors + e  q == << >>
            h == [f EXCEPT !.pc = "returned", !.terminal = t]
            g == [h EXCEPT !.errors = m, !.notes = q]
<1>3. t \in Terminal /\ q \in Seq(Nat) /\ f \in Frame
  BY <1>1, OuterFields, FrameFields DEF Inv
<1>4. m \in Nat /\ raised' \in Nat
  <2>1. f.errors \in Nat /\ F.errors \in Nat /\ e \in Nat /\ raised \in Nat
    BY <1>1, OuterFields, FrameFields, HistoryType, EngineConstants DEF Inv
  <2>. QED BY <1>2, <2>1
<1>5. frames' = [frames EXCEPT ![top] = NewFrame, ![top - 1] = g]
  BY <1>2 DEF Outer
<1>. HIDE DEF f, t, m, q
<1>6. h \in Frame /\ h.pc = "returned" /\ h.terminal = t
  BY <1>3 DEF Frame
<1>. HIDE DEF h
<1>7. g \in Frame /\ g.pc = "returned" /\ g.terminal = t
  BY <1>3, <1>4, <1>6 DEF Frame
<1>. HIDE DEF g
<1>8. TypeOK'
  BY <1>1, <1>4, <1>5, <1>7, OuterStep, HistoryType DEF Inv, TypeOK
<1>9. ShallowInspection'
  BY <1>1, <1>5, <1>7, OuterShallow
<1>10. denial # 0 /\ denial' = denial /\ t.kind = "deny" /\ t.at = denial
  BY <1>1, TopType DEF Inv, DenyIsInnermost, F, t
<1>11. \A d \in 0 .. top : d # top => frames[d].terminal.kind # "deny"
  BY DEF Inv, DenyIsInnermost
<1>12. frames'[top'] = g
  BY <1>1, <1>5, <1>7, OuterStep DEF Inv
<1>13. DenyIsInnermost'
  <2>1. \A d \in 0 .. top' : d # top' => frames'[d].terminal.kind # "deny"
    <3>1. \A d \in 0 .. top' : d # top' => frames'[d] = frames[d]
      BY <1>1, <1>5, <1>7, OuterStep DEF Inv
    <3>2. \A d \in 0 .. top' : d # top /\ d \in 0 .. top
      BY <1>1, TopType DEF Inv, Depths
    <3>. QED BY <1>11, <3>1, <3>2
  <2>. QED BY <1>7, <1>10, <1>12, <2>1 DEF DenyIsInnermost
<1>14. DenialIsLast'
  BY <1>1, <1>7, <1>10, <1>12 DEF Inv, DenialIsLast, F
<1>15. AskIsHeld'
  BY <1>10 DEF AskIsHeld
<1>. QED BY <1>8, <1>9, <1>13, <1>14, <1>15 DEF Inv

LEMMA ResumeInv == ASSUME Inv, Resume PROVE Inv'
<1>1. top > 0 /\ F.pc = "returned" /\ F.terminal.kind # "deny" /\ top' = top - 1
      /\ UNCHANGED <<policy, limited, history>>
      /\ frames' = [frames EXCEPT ![top] = NewFrame,
                      ![top - 1] = [Outer EXCEPT !.terminal = OrElse(@, F.terminal),
                                             !.errors = @ + F.errors, !.notes = @ \o F.notes]]
  BY DEF Resume
<1>. DEFINE f == frames[top - 1]  t == OrElse(f.terminal, F.terminal)
            m == f.errors + F.errors  q == f.notes \o F.notes
            g == [f EXCEPT !.terminal = t, !.errors = m, !.notes = q]
<1>2. f \in Frame /\ m \in Nat /\ q \in Seq(Nat) /\ t \in Terminal
  <2>1. f.errors \in Nat /\ F.errors \in Nat /\ f.notes \in Seq(Nat) /\ F.notes \in Seq(Nat)
        /\ f.terminal \in Terminal /\ F.terminal \in Terminal /\ f \in Frame
    BY <1>1, OuterFields, FrameFields DEF Inv
  <2>. QED BY <2>1 DEF OrElse
<1>3. frames' = [frames EXCEPT ![top] = NewFrame, ![top - 1] = g]
  BY <1>1 DEF Outer
<1>4. denial = 0 /\ \A d \in 0 .. top : frames[d].terminal.kind # "deny"
  BY <1>1, TopType DEF Inv, DenyIsInnermost, DenialIsLast, F
<1>5. f.terminal \in Terminal /\ F.terminal \in Terminal
      /\ f.terminal.kind # "deny" /\ F.terminal.kind # "deny"
  BY <1>1, <1>4, OuterFields, FrameFields DEF Inv
<1>6. t.kind # "deny" /\ (f.terminal.kind = "ask" \/ F.terminal.kind = "ask" => t.kind = "ask")
  BY <1>5 DEF OrElse, Terminal
<1>. HIDE DEF t, m, q
<1>7. g \in Frame /\ g.pc = f.pc /\ g.terminal = t
  BY <1>2 DEF Frame
<1>. HIDE DEF g
<1>8. TypeOK'
  BY <1>1, <1>3, <1>7, OuterStep, HistoryType DEF Inv, TypeOK, history
<1>9. ShallowInspection'
  BY <1>1, <1>3, <1>7, OuterShallow
<1>10. frames'[top'] = g /\ top' \in 0 .. top'
       /\ \A d \in 0 .. top' : d = top' \/ frames'[d] = frames[d]
  BY <1>1, <1>3, <1>7, OuterStep, TopType DEF Inv, Depths
<1>11. denial' = 0 /\ firstAsk' = firstAsk
  BY <1>1, <1>4 DEF history
<1>12. DenyIsInnermost'
  <2>1. \A d \in 0 .. top' : d \in 0 .. top
    BY <1>1, <1>3, <1>7, OuterStep DEF Inv
  <2>. QED BY <1>4, <1>6, <1>7, <1>10, <2>1 DEF DenyIsInnermost
<1>13. DenialIsLast'
  BY <1>11 DEF DenialIsLast
<1>14. AskIsHeld'
  <2>1. SUFFICES ASSUME firstAsk # 0 PROVE \E d \in 0 .. top' : frames'[d].terminal.kind = "ask"
    BY <1>11 DEF AskIsHeld
  <2>2. PICK d \in 0 .. top : frames[d].terminal.kind = "ask"
    BY <1>4, <2>1 DEF Inv, AskIsHeld
  <2>3. CASE d = top \/ d = top - 1
    BY <1>6, <1>7, <1>10, <2>2, <2>3 DEF F
  <2>4. CASE d # top /\ d # top - 1
    <3>1. d \in 0 .. top' /\ d # top'
      BY <1>1, <2>4, TopType DEF Inv, Depths
    <3>. QED BY <1>10, <2>2, <3>1
  <2>. QED BY <2>3, <2>4
<1>. QED BY <1>8, <1>9, <1>12, <1>13, <1>14 DEF Inv

----------------------------------------------------------------------------
(* The theorems *)

LEMMA InitInv == Init => Inv
<1>. SUFFICES ASSUME Init PROVE Inv
  OBVIOUS
<1>1. TypeOK
  <2>1. frames \in [Depths -> Frame] /\ top \in Depths
    BY NewFrameType, EngineConstants DEF Init, Depths
  <2>. QED BY <2>1 DEF Init, TypeOK
<1>2. \A d \in Depths : frames[d] = NewFrame
  BY DEF Init
<1>3. NewFrame.pc = "rules" /\ NewFrame.terminal.kind = "none"
  BY DEF NewFrame, NoTerminal
<1>4. ShallowInspection
  BY <1>2, <1>3 DEF ShallowInspection
<1>5. DenyIsInnermost
  BY <1>1, <1>2, <1>3, TopType DEF DenyIsInnermost
<1>6. DenialIsLast /\ AskIsHeld
  BY DEF Init, DenialIsLast, AskIsHeld
<1>. QED BY <1>1, <1>4, <1>5, <1>6 DEF Inv

LEMMA NextInv == Inv /\ [Next]_vars => Inv'
<1>. SUFFICES ASSUME Inv, [Next]_vars PROVE Inv'
  OBVIOUS
<1>1. CASE ParseCommand
  BY <1>1, ParseCommandInv
<1>2. CASE RuleIsSilent
  BY <1>2, RuleIsSilentInv
<1>3. CASE RuleThrows
  BY <1>3, RuleThrowsInv
<1>4. CASE RuleDenies
  BY <1>4, RuleDeniesInv
<1>5. CASE RuleAsks
  BY <1>5, RuleAsksInv
<1>6. CASE RuleAnnotates
  BY <1>6, RuleAnnotatesInv
<1>7. CASE EndOfRules
  BY <1>7, EndOfRulesInv
<1>8. CASE DepthExceeded
  BY <1>8, DepthExceededInv
<1>9. CASE Inspect
  BY <1>9, InspectInv
<1>10. CASE UnwrapFails
  BY <1>10, UnwrapFailsInv
<1>11. CASE OpaqueShell
  BY <1>11, OpaqueShellInv
<1>12. CASE InlineScript
  BY <1>12, InlineScriptInv
<1>13. CASE ResumeDenied
  BY <1>13, ResumeDeniedInv
<1>14. CASE Resume
  BY <1>14, ResumeInv
<1>15. CASE EndOfCalls
  BY <1>15, EndOfCallsInv
<1>16. CASE Finish
  BY <1>16, FinishInv
<1>17. CASE UNCHANGED vars
  BY <1>17 DEF vars, history, Inv, TypeOK, ShallowInspection, DenyIsInnermost, DenialIsLast,
               AskIsHeld, F
<1>. QED BY <1>1, <1>2, <1>3, <1>4, <1>5, <1>6, <1>7, <1>8, <1>9, <1>10, <1>11, <1>12, <1>13,
            <1>14, <1>15, <1>16, <1>17 DEF Next

(* Every engine state is well typed: frames never outgrow the depth limit. *)
THEOREM EngineTypes == Spec => []TypeOK
BY InitInv, NextInv, PTL DEF Spec, Inv

(* A deny is final: wherever in the recursion it is emitted, no rule and   *)
(* no policy decides after it, and it is what evaluate returns; and        *)
(* evaluate returns no deny that was not emitted.                          *)
THEOREM DenyIsFinal == Spec => []DenyShortCircuits
<1>1. Inv => DenyShortCircuits
  <2>. SUFFICES ASSUME Inv PROVE DenyShortCircuits
    OBVIOUS
  <2>1. denial # 0 => emitted = denial
    BY DEF Inv, DenialIsLast
  <2>2. F.terminal.kind = "deny" => denial # 0 /\ F.terminal.at = denial
    BY TopType DEF Inv, DenyIsInnermost, F
  <2>3. denial # 0 => F.terminal.kind = "deny"
    BY DEF Inv, DenialIsLast
  <2>. QED BY <2>1, <2>2, <2>3 DEF DenyShortCircuits
<1>. QED BY <1>1, InitInv, NextInv, PTL DEF Spec

(* An ask is never lost: if a rule or a policy asked, in whatever frame,   *)
(* and nobody denied, evaluate returns an ask, not silence.                *)
THEOREM AskIsKept == Spec => []AskSurvives
<1>1. Inv => AskSurvives
  <2>. SUFFICES ASSUME Inv, Done, firstAsk # 0, denial = 0 PROVE F.terminal.kind = "ask"
    BY DEF AskSurvives
  <2>1. PICK d \in 0 .. top : frames[d].terminal.kind = "ask"
    BY DEF Inv, AskIsHeld
  <2>2. d = top
    BY DEF Done
  <2>. QED BY <2>1, <2>2 DEF F
<1>. QED BY <1>1, InitInv, NextInv, PTL DEF Spec

----------------------------------------------------------------------------
(***************************************************************************)
(* What evaluate merges from all frames of the recursion: errors, notes    *)
(* and asks, and the denial a dead parser owes, for every depth limit,     *)
(* every set of policies, any number of rules, calls and observers.        *)
(*                                                                         *)
(* Every step is one of four: something happens in the innermost frame, a  *)
(* frame is pushed, or one is popped, with or without a deny.  Each action *)
(* is shown to be one of these once, then every invariant is shown to      *)
(* survive the four.                                                       *)
(***************************************************************************)

(* The errors a frame has annotated or still has to.                       *)
Errs(f) == f.errors + f.ctxErrors

(* Only a script that was parsed is searched for calls, and what the parse *)
(* has left is drained on the way out.                                     *)
Settled(f) ==
    /\ f.pc = "calls" => f.parse = "ast"
    /\ f.pc = "returned" \/ f.parse \notin {"unavailable", "unexpected"} => f.ctxErrors = 0

(* All frames but the innermost wait for a call in their script.           *)
Stacked ==
    /\ \A d \in Depths : d < top => frames[d].pc = "calls"
    /\ \A d \in Depths : Settled(frames[d])

(* A frame that found the parser dead, under the policy that denies then.  *)
Doomed(f) == f.parse = "unavailable" /\ policy.onEngineUnavailable = "deny-all"

(* No script at the depth limit has put its own ask before an earlier one, *)
(* and none has hidden that its parser died.                               *)
AsksAreKept == policy.onDepthExceeded # "ask" \/ ~limited
DeathIsSeen == policy.onDepthExceeded = "deny" \/ ~limited

----------------------------------------------------------------------------
(* The four steps *)

After == frames'[top]

(* The limit asks, in this step.                                           *)
LimitAsks == policy.onDepthExceeded = "ask" /\ limited'

SameNotes == After.notes = F.notes /\ noted' = noted

EmitsHere ==
    \/ /\ EmitNothing /\ After.terminal = F.terminal
       /\ SameNotes \/ (After.notes = Append(F.notes, noted + 1) /\ noted' = noted + 1)
    \/ /\ Emit("ask") /\ SameNotes
       /\ After.terminal = OrElse(F.terminal, Emission("ask")) \/ LimitAsks
    \/ Emit("deny") /\ After.notes = << >> /\ noted' = noted

DiesHere ==
    /\ dead' => dead \/ denial' # 0 \/ (Doomed(After) /\ After.pc # "returned")
    /\ Doomed(F) /\ DeathIsSeen' =>
          denial' # 0 \/ (Doomed(After) /\ After.pc # "returned")

LocalStep ==
    /\ F.pc # "returned" /\ OnlyInnermost /\ Settled(After)
    /\ raised' + Errs(F) = raised + Errs(After)
    /\ EmitsHere /\ DiesHere

Push ==
    /\ F.pc = "calls" /\ top' = top + 1 /\ top + 1 \in Depths
    /\ frames' \in [Depths -> Frame]
    /\ After = [F EXCEPT !.calls = @ + 1] /\ frames'[top + 1] = NewFrame
    /\ \A d \in Depths : d # top /\ d # top + 1 => frames'[d] = frames[d]
    /\ UNCHANGED <<policy, history>>

Pop(g) ==
    /\ F.pc = "returned" /\ top > 0 /\ top' = top - 1
    /\ frames' \in [Depths -> Frame]
    /\ After = NewFrame /\ frames'[top - 1] = g
    /\ \A d \in Depths : d # top /\ d # top - 1 => frames'[d] = frames[d]
    /\ UNCHANGED <<policy, emitted, firstAsk, denial, noted, dead>>

PopAdopt ==
    /\ Pop([Outer EXCEPT !.terminal = OrElse(@, F.terminal), !.errors = @ + F.errors,
                         !.notes = @ \o F.notes])
    /\ F.terminal.kind # "deny" /\ raised' = raised

PopDeny ==
    \E e \in 0 .. 1 + Observers :
        /\ Pop([Outer EXCEPT !.pc = "returned", !.terminal = F.terminal,
                             !.errors = @ + F.errors + e, !.notes = << >>])
        /\ F.terminal.kind = "deny" /\ raised' = raised + e

----------------------------------------------------------------------------
(* Every action is one of the four steps *)

(* The fields of the innermost frame, and of the one that replaces it.     *)
LEMMA ReturnFields ==
    ASSUME TypeOK, NEW t \in Terminal, NEW n \in Nat, UNCHANGED <<policy, top>>, Return(t, n)
    PROVE  /\ OnlyInnermost /\ After.pc = "returned" /\ After.terminal = t
           /\ After.errors = F.errors + n /\ After.ctxErrors = 0
           /\ After.notes = F.notes /\ Settled(After)
<1>. DEFINE m == F.errors + n
            g == [F EXCEPT !.pc = "returned", !.terminal = t, !.errors = m, !.ctxErrors = 0]
<1>1. m \in Nat /\ Becomes(g)
  BY ErrorsType DEF Return
<1>. HIDE DEF m
<1>2. /\ g \in Frame /\ g.pc = "returned" /\ g.terminal = t /\ g.errors = m
      /\ g.ctxErrors = 0 /\ g.notes = F.notes
  BY <1>1, FrameType DEF Frame
<1>. HIDE DEF g
<1>3. OnlyInnermost /\ After = g
  BY <1>1, <1>2, InnermostStep DEF After
<1>. QED BY <1>2, <1>3 DEF Settled, m

LEMMA ReturnDenyFields ==
    ASSUME TypeOK, NEW n \in Nat, UNCHANGED <<policy, top>>, ReturnDeny(Emission("deny"), n)
    PROVE  /\ OnlyInnermost /\ After.pc = "returned"
           /\ After.errors = F.errors + n /\ After.ctxErrors = 0
           /\ After.notes = << >> /\ Settled(After)
<1>. DEFINE m == F.errors + n  t == Emission("deny")  q == << >>
            g == [F EXCEPT !.pc = "returned", !.terminal = t, !.errors = m, !.ctxErrors = 0,
                           !.notes = q]
<1>1. m \in Nat /\ t \in Terminal /\ q \in Seq(Nat) /\ Becomes(g)
  BY ErrorsType, EmissionType DEF ReturnDeny
<1>. HIDE DEF m, t, q
<1>2. /\ g \in Frame /\ g.pc = "returned" /\ g.errors = m /\ g.ctxErrors = 0 /\ g.notes = q
  BY <1>1, FrameType DEF Frame
<1>. HIDE DEF g
<1>3. OnlyInnermost /\ After = g
  BY <1>1, <1>2, InnermostStep DEF After
<1>. QED BY <1>2, <1>3 DEF Settled, m, q

(* A return accounts for the errors the context holds.                     *)
LEMMA ReturnLocal ==
    ASSUME Inv, F.pc # "returned", NEW n \in Nat, UNCHANGED <<policy, top, noted, dead>>,
           raised' \in Nat, raised' + F.ctxErrors = raised + n,
           DeathIsSeen' => ~Doomed(F),
           \/ Return(F.terminal, n) /\ EmitNothing
           \/ \E t \in Terminal : /\ Return(t, n) /\ Emit("ask")
                                  /\ t = OrElse(F.terminal, Emission("ask"))
                                     \/ LimitAsks
    PROVE  LocalStep
<1>0. F.terminal \in Terminal /\ F.errors \in Nat /\ F.ctxErrors \in Nat /\ raised \in Nat
  BY FrameFields, HistoryType DEF Inv
<1>1. DiesHere
  BY DEF DiesHere
<1>2. CASE Return(F.terminal, n) /\ EmitNothing
  <2>1. /\ OnlyInnermost /\ Settled(After) /\ After.errors = F.errors + n /\ After.ctxErrors = 0
        /\ After.notes = F.notes /\ After.terminal = F.terminal
    BY <1>0, <1>2, ReturnFields DEF Inv
  <2>2. raised' + Errs(F) = raised + Errs(After)
    BY <1>0, <2>1 DEF Errs
  <2>. QED BY <1>1, <1>2, <2>1, <2>2 DEF LocalStep, EmitsHere, SameNotes
<1>3. ASSUME NEW t \in Terminal, Return(t, n), Emit("ask"),
             t = OrElse(F.terminal, Emission("ask")) \/ LimitAsks
      PROVE  LocalStep
  <2>1. /\ OnlyInnermost /\ Settled(After) /\ After.errors = F.errors + n /\ After.ctxErrors = 0
        /\ After.notes = F.notes /\ After.terminal = t
    BY <1>3, ReturnFields DEF Inv
  <2>2. raised' + Errs(F) = raised + Errs(After)
    BY <1>0, <2>1 DEF Errs
  <2>. QED BY <1>1, <1>3, <2>1, <2>2 DEF LocalStep, EmitsHere, SameNotes
<1>. QED BY <1>2, <1>3

LEMMA ReturnDenyLocal ==
    ASSUME Inv, F.pc # "returned", NEW n \in Nat, UNCHANGED <<policy, top, noted>>,
           raised' \in Nat, raised' + F.ctxErrors = raised + n, ReturnDeny(Emission("deny"), n), Emit("deny")
    PROVE  LocalStep
<1>1. F.errors \in Nat /\ F.ctxErrors \in Nat /\ raised \in Nat
  BY FrameFields, HistoryType DEF Inv
<1>2. /\ OnlyInnermost /\ Settled(After) /\ After.errors = F.errors + n /\ After.ctxErrors = 0
      /\ After.notes = << >>
  BY ReturnDenyFields DEF Inv
<1>3. raised' + Errs(F) = raised + Errs(After)
  BY <1>1, <1>2 DEF Errs
<1>4. denial' # 0
  BY EmitType DEF Inv
<1>. QED BY <1>2, <1>3, <1>4 DEF LocalStep, EmitsHere, DiesHere

(* A step that stays in the frame and emits no deny.                       *)
LEMMA StayLocal ==
    ASSUME Inv, F.pc # "returned", NEW g \in Frame, Becomes(g), UNCHANGED <<policy, top>>,
           Settled(g), raised' + Errs(F) = raised + Errs(g),
           \/ /\ EmitNothing /\ g.terminal = F.terminal
              /\ \/ g.notes = F.notes /\ noted' = noted
                 \/ g.notes = Append(F.notes, noted + 1) /\ noted' = noted + 1
           \/ /\ Emit("ask") /\ g.terminal = OrElse(F.terminal, Emission("ask"))
              /\ g.notes = F.notes /\ noted' = noted,
           dead' => dead \/ Doomed(g), g.pc # "returned", Doomed(F) => Doomed(g)
    PROVE  LocalStep
<1>1. OnlyInnermost /\ After = g
  BY InnermostStep DEF Inv, After
<1>2. EmitsHere
  BY <1>1 DEF EmitsHere, SameNotes
<1>3. DiesHere
  BY <1>1 DEF DiesHere
<1>. QED BY <1>1, <1>2, <1>3 DEF LocalStep

LEMMA SettledHere ==
    ASSUME Inv, Stacked
    PROVE  /\ Settled(F)
           /\ F.pc = "calls" => F.parse = "ast" /\ F.ctxErrors = 0
BY TopType DEF Inv, Stacked, Settled, F

LEMMA ParseLocal == ASSUME Inv, Stacked, ParseCommand PROVE LocalStep
<1>1. PICK p \in {"ast", "empty", "unparsable", "unavailable", "unexpected"} :
          LET failed == IF p \in {"unavailable", "unexpected"} THEN 1 ELSE 0 IN
          /\ Becomes([F EXCEPT !.parse = p, !.ctxErrors = failed])
          /\ raised' = raised + failed
          /\ dead' = (dead \/ (p = "unavailable" /\ policy.onEngineUnavailable = "deny-all"))
  BY DEF ParseCommand
<1>. DEFINE failed == IF p \in {"unavailable", "unexpected"} THEN 1 ELSE 0
            g == [F EXCEPT !.parse = p, !.ctxErrors = failed]
<1>2. /\ Becomes(g) /\ raised' = raised + failed
      /\ dead' = (dead \/ (p = "unavailable" /\ policy.onEngineUnavailable = "deny-all"))
  BY <1>1
<1>3. failed \in Nat /\ (p \notin {"unavailable", "unexpected"} => failed = 0)
  OBVIOUS
<1>4. F.pc \in {"rules", "inspect"} /\ F.parse = "none" /\ EmitNothing
      /\ UNCHANGED <<policy, limited, top, noted>>
  BY DEF ParseCommand, EmitNothing
<1>5. F.ctxErrors = 0 /\ F.errors \in Nat /\ raised \in Nat
  BY <1>4, SettledHere, FrameFields, HistoryType DEF Inv, Settled
<1>. HIDE DEF failed
<1>6. /\ g \in Frame /\ g.pc = F.pc /\ g.parse = p /\ g.errors = F.errors /\ g.ctxErrors = failed
      /\ g.terminal = F.terminal /\ g.notes = F.notes
  BY <1>3, FrameType DEF Inv, Frame
<1>. HIDE DEF g
<1>7. Settled(g)
  BY <1>3, <1>4, <1>6 DEF Settled
<1>8. raised' + Errs(F) = raised + Errs(g)
  BY <1>2, <1>3, <1>5, <1>6 DEF Errs
<1>9. (dead' => dead \/ Doomed(g)) /\ ~Doomed(F)
  BY <1>2, <1>4, <1>6 DEF Doomed
<1>. QED BY <1>2, <1>4, <1>6, <1>7, <1>8, <1>9, StayLocal

LEMMA Counts ==
    TypeOK => /\ F.errors \in Nat /\ raised \in Nat
              /\ F.rules < MaxRules => F.rules + 1 \in 0 .. MaxRules
              /\ F.calls < MaxCalls => F.calls + 1 \in 0 .. MaxCalls
<1>1. TypeOK => F.errors \in Nat /\ raised \in Nat
  BY FrameFields, HistoryType
<1>2. TypeOK => F.rules \in 0 .. MaxRules /\ F.calls \in 0 .. MaxCalls
  BY FrameFields
<1>3. MaxRules \in Nat /\ MaxCalls \in Nat
  BY EngineConstants
<1>. QED BY <1>1, <1>2, <1>3

(* A step of a rule or a call that goes on to the next one: no parse, no   *)
(* change of the context's errors.                                         *)
LEMMA GoesOnLocal ==
    ASSUME Inv, Stacked, F.pc # "returned", NEW g \in Frame, Becomes(g),
           UNCHANGED <<policy, top, dead>>, NEW k \in Nat,
           g.pc # "returned", g.pc = "calls" => F.parse = "ast",
           g.parse = F.parse, g.ctxErrors = F.ctxErrors,
           g.errors = F.errors + k, raised' = raised + k,
           \/ /\ EmitNothing /\ g.terminal = F.terminal
              /\ \/ g.notes = F.notes /\ noted' = noted
                 \/ g.notes = Append(F.notes, noted + 1) /\ noted' = noted + 1
           \/ /\ Emit("ask") /\ g.terminal = OrElse(F.terminal, Emission("ask"))
              /\ g.notes = F.notes /\ noted' = noted
    PROVE  LocalStep
<1>1. F.errors \in Nat /\ F.ctxErrors \in Nat /\ raised \in Nat
  BY FrameFields, HistoryType DEF Inv
<1>2. Settled(g)
  BY SettledHere DEF Settled
<1>3. raised' + Errs(F) = raised + Errs(g)
  BY <1>1 DEF Errs
<1>4. (dead' => dead \/ Doomed(g)) /\ (Doomed(F) => Doomed(g))
  BY DEF Doomed
<1>. QED BY <1>2, <1>3, <1>4, StayLocal

LEMMA RuleIsSilentLocal == ASSUME Inv, Stacked, RuleIsSilent PROVE LocalStep
<1>. DEFINE r == F.rules + 1  g == [F EXCEPT !.rules = r]
<1>1. F.pc = "rules" /\ F.rules < MaxRules /\ Becomes(g) /\ UNCHANGED <<policy, limited, top, history>>
  BY DEF RuleIsSilent, RuleReady
<1>2. r \in 0 .. MaxRules /\ F.errors \in Nat /\ raised \in Nat
  BY <1>1, Counts DEF Inv
<1>. HIDE DEF r
<1>3. /\ g \in Frame /\ g.pc = "rules" /\ g.parse = F.parse /\ g.ctxErrors = F.ctxErrors
      /\ g.errors = F.errors /\ g.terminal = F.terminal /\ g.notes = F.notes
  BY <1>1, <1>2, FrameType DEF Inv, Frame
<1>. HIDE DEF g
<1>4. EmitNothing /\ UNCHANGED <<policy, top, dead, noted, raised>>
  BY <1>1 DEF history, EmitNothing
<1>5. g.errors = F.errors + 0 /\ raised' = raised + 0 /\ 0 \in Nat
  BY <1>2, <1>3, <1>4
<1>. QED BY <1>1, <1>3, <1>4, <1>5, GoesOnLocal

LEMMA RuleThrowsLocal == ASSUME Inv, Stacked, RuleThrows PROVE LocalStep
<1>1. PICK k \in Thrown : /\ Becomes([F EXCEPT !.rules = @ + 1, !.errors = @ + 1 + k])
                          /\ raised' = raised + 1 + k
  BY DEF RuleThrows
<1>. DEFINE r == F.rules + 1  n == 1 + k  m == F.errors + 1 + k
            g == [F EXCEPT !.rules = r, !.errors = m]
<1>2. F.pc = "rules" /\ F.rules < MaxRules
      /\ UNCHANGED <<policy, limited, top, noted, dead>> /\ EmitNothing
  BY DEF RuleThrows, RuleReady, EmitNothing
<1>3. r \in 0 .. MaxRules /\ m \in Nat /\ n \in Nat /\ m = F.errors + n /\ raised' = raised + n
  <2>1. k \in Nat /\ F.errors \in Nat /\ raised \in Nat
    BY FrameFields, HistoryType, ThrownType DEF Inv
  <2>2. r \in 0 .. MaxRules
    BY <1>2, Counts DEF Inv
  <2>. QED BY <1>1, <2>1, <2>2
<1>4. Becomes(g)
  BY <1>1
<1>. HIDE DEF r, m, n
<1>5. /\ g \in Frame /\ g.pc = "rules" /\ g.parse = F.parse /\ g.ctxErrors = F.ctxErrors
      /\ g.errors = m /\ g.terminal = F.terminal /\ g.notes = F.notes
  BY <1>2, <1>3, FrameType DEF Inv, Frame
<1>. HIDE DEF g
<1>6. g.errors = F.errors + n
  BY <1>3, <1>5
<1>. QED BY <1>2, <1>3, <1>4, <1>5, <1>6, GoesOnLocal

LEMMA RuleDeniesLocal == ASSUME Inv, RuleDenies PROVE LocalStep
<1>1. PICK k \in Thrown, e \in ExitErrors :
          ReturnDeny(Emission("deny"), k + e) /\ raised' = raised + k + e - F.ctxErrors
  BY DEF RuleDenies
<1>2. F.pc # "returned" /\ Emit("deny") /\ UNCHANGED <<policy, limited, top, noted, dead>>
  BY DEF RuleDenies, RuleReady
<1>3. k \in Nat /\ e \in Nat /\ e - F.ctxErrors \in Nat /\ F.ctxErrors \in Nat /\ raised \in Nat
  BY ThrownType, ExitErrorsType, FrameFields, HistoryType DEF Inv
<1>4. k + e \in Nat /\ raised' \in Nat /\ raised' + F.ctxErrors = raised + (k + e)
  BY <1>1, <1>3
<1>. QED BY <1>1, <1>2, <1>4, ReturnDenyLocal

LEMMA RuleAsksLocal == ASSUME Inv, Stacked, RuleAsks PROVE LocalStep
<1>1. PICK k \in Thrown :
          /\ Becomes([F EXCEPT !.rules = @ + 1, !.errors = @ + k,
                               !.terminal = OrElse(@, Emission("ask"))])
          /\ raised' = raised + k
  BY DEF RuleAsks
<1>. DEFINE r == F.rules + 1  m == F.errors + k  t == OrElse(F.terminal, Emission("ask"))
            g == [F EXCEPT !.rules = r, !.errors = m, !.terminal = t]
<1>2. F.pc = "rules" /\ F.rules < MaxRules
      /\ UNCHANGED <<policy, limited, top, noted, dead>> /\ Emit("ask")
  BY DEF RuleAsks, RuleReady
<1>3. r \in 0 .. MaxRules /\ m \in Nat /\ k \in Nat
  BY <1>2, Counts, ThrownType DEF Inv
<1>4. t \in Terminal /\ Becomes(g)
  BY <1>1, OrElseType DEF Inv
<1>. HIDE DEF r, m, t
<1>5. /\ g \in Frame /\ g.pc = "rules" /\ g.parse = F.parse /\ g.ctxErrors = F.ctxErrors
      /\ g.errors = m /\ g.terminal = t /\ g.notes = F.notes
  BY <1>2, <1>3, <1>4, FrameType DEF Inv, Frame
<1>. HIDE DEF g
<1>6. g.errors = F.errors + k /\ g.terminal = OrElse(F.terminal, Emission("ask"))
  BY <1>5 DEF m, t
<1>. QED BY <1>1, <1>2, <1>3, <1>4, <1>5, <1>6, GoesOnLocal

LEMMA RuleAnnotatesLocal == ASSUME Inv, Stacked, RuleAnnotates PROVE LocalStep
<1>1. PICK k \in Thrown :
          /\ Becomes([F EXCEPT !.rules = @ + 1, !.errors = @ + k,
                               !.notes = Append(@, noted + 1)])
          /\ raised' = raised + k
  BY DEF RuleAnnotates
<1>. DEFINE r == F.rules + 1  m == F.errors + k  q == Append(F.notes, noted + 1)
            g == [F EXCEPT !.rules = r, !.errors = m, !.notes = q]
<1>2. F.pc = "rules" /\ F.rules < MaxRules /\ noted' = noted + 1
      /\ UNCHANGED <<policy, limited, top, dead>> /\ EmitNothing
  BY DEF RuleAnnotates, RuleReady, EmitNothing
<1>3. r \in 0 .. MaxRules /\ m \in Nat /\ k \in Nat
  BY <1>2, Counts, ThrownType DEF Inv
<1>4. q \in Seq(Nat)
  <2>1. F.notes \in Seq(Nat) /\ noted + 1 \in Nat
    BY FrameFields, HistoryType DEF Inv
  <2>. QED BY <2>1
<1>5. Becomes(g)
  BY <1>1
<1>. HIDE DEF r, m, q
<1>6. /\ g \in Frame /\ g.pc = "rules" /\ g.parse = F.parse /\ g.ctxErrors = F.ctxErrors
      /\ g.errors = m /\ g.terminal = F.terminal /\ g.notes = q
  BY <1>2, <1>3, <1>4, FrameType DEF Inv, Frame
<1>. HIDE DEF g
<1>7. g.errors = F.errors + k /\ g.notes = Append(F.notes, noted + 1)
  BY <1>6 DEF m, q
<1>. QED BY <1>1, <1>2, <1>3, <1>5, <1>6, <1>7, GoesOnLocal

LEMMA EndOfRulesLocal == ASSUME Inv, Stacked, EndOfRules PROVE LocalStep
<1>. DEFINE to == IF policy.recurse THEN "inspect" ELSE "final"
            g == [F EXCEPT !.pc = to]
<1>1. F.pc = "rules" /\ Becomes(g) /\ UNCHANGED <<policy, limited, top, history>>
  BY DEF EndOfRules
<1>2. to \in {"inspect", "final"}
  OBVIOUS
<1>. HIDE DEF to
<1>3. /\ g \in Frame /\ g.pc = to /\ g.parse = F.parse /\ g.ctxErrors = F.ctxErrors
      /\ g.errors = F.errors /\ g.terminal = F.terminal /\ g.notes = F.notes
  BY <1>2, FrameType DEF Inv, Frame
<1>. HIDE DEF g
<1>4. EmitNothing /\ UNCHANGED <<policy, top, dead, noted, raised>>
  BY <1>1 DEF history, EmitNothing
<1>5. g.errors = F.errors + 0 /\ raised' = raised + 0 /\ 0 \in Nat
  BY <1>3, <1>4, FrameFields, HistoryType DEF Inv
<1>. QED BY <1>1, <1>2, <1>3, <1>4, <1>5, GoesOnLocal

LEMMA InspectLocal == ASSUME Inv, Stacked, Inspect PROVE LocalStep
<1>. DEFINE to == IF F.parse = "ast" THEN "calls" ELSE "final"
            g == [F EXCEPT !.pc = to]
<1>1. F.pc = "inspect" /\ Becomes(g) /\ UNCHANGED <<policy, limited, top, history>>
  BY DEF Inspect
<1>2. to \in {"calls", "final"} /\ (to = "calls" => F.parse = "ast")
  OBVIOUS
<1>. HIDE DEF to
<1>3. /\ g \in Frame /\ g.pc = to /\ g.parse = F.parse /\ g.ctxErrors = F.ctxErrors
      /\ g.errors = F.errors /\ g.terminal = F.terminal /\ g.notes = F.notes
  BY <1>2, FrameType DEF Inv, Frame
<1>. HIDE DEF g
<1>4. EmitNothing /\ UNCHANGED <<policy, top, dead, noted, raised>>
  BY <1>1 DEF history, EmitNothing
<1>5. g.errors = F.errors + 0 /\ raised' = raised + 0 /\ 0 \in Nat
  BY <1>3, <1>4, FrameFields, HistoryType DEF Inv
<1>. QED BY <1>1, <1>2, <1>3, <1>4, <1>5, GoesOnLocal

LEMMA EndOfCallsLocal == ASSUME Inv, Stacked, EndOfCalls PROVE LocalStep
<1>. DEFINE g == [F EXCEPT !.pc = "final"]
<1>1. F.pc = "calls" /\ Becomes(g) /\ UNCHANGED <<policy, limited, top, history>>
  BY DEF EndOfCalls
<1>2. /\ g \in Frame /\ g.pc = "final" /\ g.parse = F.parse /\ g.ctxErrors = F.ctxErrors
      /\ g.errors = F.errors /\ g.terminal = F.terminal /\ g.notes = F.notes
  BY FrameType DEF Inv, Frame
<1>. HIDE DEF g
<1>3. EmitNothing /\ UNCHANGED <<policy, top, dead, noted, raised>>
  BY <1>1 DEF history, EmitNothing
<1>4. g.errors = F.errors + 0 /\ raised' = raised + 0 /\ 0 \in Nat
  BY <1>2, <1>3, FrameFields, HistoryType DEF Inv
<1>. QED BY <1>1, <1>2, <1>3, <1>4, GoesOnLocal

LEMMA DepthExceededLocal == ASSUME Inv, DepthExceeded PROVE LocalStep
<1>. DEFINE esc == policy.onDepthExceeded
<1>1. PICK e \in ExitErrors, k \in Thrown :
          /\ esc = "allow" => k = 0
          /\ CASE esc = "deny"  -> ReturnDeny(Emission("deny"), e + k) /\ Emit("deny")
               [] esc = "ask"   -> Return(Emission("ask"), e + k) /\ Emit("ask")
               [] esc = "allow" -> Return(F.terminal, e) /\ EmitNothing
          /\ raised' = raised + k + e - F.ctxErrors
  BY DEF DepthExceeded
<1>2. F.pc # "returned" /\ UNCHANGED <<policy, top, noted, dead>> /\ limited' = TRUE
  BY DEF DepthExceeded
<1>3. k \in Nat /\ e \in Nat /\ e - F.ctxErrors \in Nat /\ F.ctxErrors \in Nat /\ raised \in Nat
  BY ThrownType, ExitErrorsType, FrameFields, HistoryType DEF Inv
<1>4. e + k \in Nat /\ raised' \in Nat /\ raised' + F.ctxErrors = raised + (e + k)
  BY <1>1, <1>3
<1>5. esc \in {"deny", "ask", "allow"}
  BY PolicyType DEF Inv, Policy, Kinds
<1>6. CASE esc = "deny"
  BY <1>1, <1>2, <1>4, <1>6, ReturnDenyLocal
<1>9. DeathIsSeen' => esc = "deny"
  BY <1>2 DEF DeathIsSeen
<1>7. CASE esc = "ask"
  <2>1. Emission("ask") \in Terminal /\ LimitAsks /\ ~DeathIsSeen'
    BY <1>2, <1>7, <1>9, EmissionType DEF Inv, LimitAsks
  <2>. QED BY <1>1, <1>2, <1>4, <1>7, <2>1, ReturnLocal
<1>8. CASE esc = "allow"
  <2>1. raised' + F.ctxErrors = raised + e
    BY <1>1, <1>3, <1>8
  <2>. QED BY <1>1, <1>2, <1>3, <1>4, <1>8, <1>9, <2>1, ReturnLocal
<1>. QED BY <1>5, <1>6, <1>7, <1>8

LEMMA FinishLocal == ASSUME Inv, Finish PROVE LocalStep
<1>. DEFINE v == Verdict(F.parse)
<1>1. PICK e \in ExitErrors, k \in Thrown :
          /\ CASE v = "deny"  -> ReturnDeny(Emission("deny"), e + k) /\ Emit("deny")
               [] v = "ask"   -> Return(OrElse(F.terminal, Emission("ask")), e + k) /\ Emit("ask")
               [] v = "allow" -> k = 0 /\ Return(F.terminal, e) /\ EmitNothing
          /\ raised' = raised + k + e - F.ctxErrors
  BY DEF Finish
<1>2. F.pc # "returned" /\ UNCHANGED <<policy, limited, top, noted, dead>>
  BY DEF Finish
<1>3. k \in Nat /\ e \in Nat /\ e - F.ctxErrors \in Nat /\ F.ctxErrors \in Nat /\ raised \in Nat
  BY ThrownType, ExitErrorsType, FrameFields, HistoryType DEF Inv
<1>4. e + k \in Nat /\ raised' \in Nat /\ raised' + F.ctxErrors = raised + (e + k)
  BY <1>1, <1>3
<1>5. v \in {"deny", "ask", "allow"}
  BY PolicyType DEF Inv, Policy, Kinds, Verdict
<1>6. Doomed(F) => v = "deny"
  BY DEF Doomed, Verdict
<1>. HIDE DEF v
<1>7. CASE v = "deny"
  BY <1>1, <1>2, <1>4, <1>7, ReturnDenyLocal
<1>8. CASE v = "ask"
  <2>1. OrElse(F.terminal, Emission("ask")) \in Terminal
    BY OrElseType DEF Inv
  <2>. QED BY <1>1, <1>2, <1>4, <1>6, <1>8, <2>1, ReturnLocal
<1>9. CASE v = "allow"
  <2>1. raised' + F.ctxErrors = raised + e
    BY <1>1, <1>3, <1>9
  <2>. QED BY <1>1, <1>2, <1>3, <1>4, <1>6, <1>9, <2>1, ReturnLocal
<1>. QED BY <1>5, <1>7, <1>8, <1>9

(* The step to the next call, with n new errors.                           *)
LEMMA NextCallLocal ==
    ASSUME Inv, Stacked, CallReady, NEW n \in Nat,
           Becomes([F EXCEPT !.calls = @ + 1, !.errors = F.errors + n]), EmitNothing,
           raised' = raised + n, UNCHANGED <<policy, top, noted, dead>>
    PROVE  LocalStep
<1>. DEFINE c == F.calls + 1  m == F.errors + n  g == [F EXCEPT !.calls = c, !.errors = m]
<1>1. F.pc = "calls" /\ Becomes(g) /\ F.parse = "ast"
  BY SettledHere DEF CallReady
<1>2. c \in 0 .. MaxCalls /\ m \in Nat
  BY Counts DEF CallReady, Inv
<1>. HIDE DEF c, m
<1>3. /\ g \in Frame /\ g.pc = "calls" /\ g.parse = F.parse /\ g.ctxErrors = F.ctxErrors
      /\ g.errors = m /\ g.terminal = F.terminal /\ g.notes = F.notes
  BY <1>1, <1>2, FrameType DEF Inv, Frame
<1>. HIDE DEF g
<1>4. g.errors = F.errors + n
  BY <1>3 DEF m
<1>. QED BY <1>1, <1>3, <1>4, GoesOnLocal

(* ... with none.                                                          *)
LEMMA SkipCallLocal ==
    ASSUME Inv, Stacked, CallReady, Becomes([F EXCEPT !.calls = @ + 1]), EmitNothing,
           UNCHANGED <<policy, top, noted, dead, raised>>
    PROVE  LocalStep
<1>. DEFINE c == F.calls + 1  g == [F EXCEPT !.calls = c]
<1>1. F.pc = "calls" /\ Becomes(g) /\ F.parse = "ast"
  BY SettledHere DEF CallReady
<1>2. c \in 0 .. MaxCalls /\ F.errors \in Nat /\ raised \in Nat
  BY Counts DEF CallReady, Inv
<1>. HIDE DEF c
<1>3. /\ g \in Frame /\ g.pc = "calls" /\ g.parse = F.parse /\ g.ctxErrors = F.ctxErrors
      /\ g.errors = F.errors /\ g.terminal = F.terminal /\ g.notes = F.notes
  BY <1>1, <1>2, FrameType DEF Inv, Frame
<1>. HIDE DEF g
<1>4. g.errors = F.errors + 0 /\ raised' = raised + 0 /\ 0 \in Nat
  BY <1>2, <1>3
<1>. QED BY <1>1, <1>3, <1>4, GoesOnLocal

LEMMA UnwrapFailsLocal == ASSUME Inv, Stacked, UnwrapFails PROVE LocalStep
<1>1. CallReady /\ F.pc = "calls" /\ UNCHANGED <<policy, limited, top, noted>> /\ F.ctxErrors = 0
      /\ raised \in Nat /\ F.errors \in Nat
  BY SettledHere, HistoryType, FrameFields DEF UnwrapFails, CallReady, Inv
<1>2. CASE /\ policy.onEngineUnavailable = "deny-all"
           /\ \E k \in Thrown, j \in Thrown, e \in 0 .. 1 + Observers :
                /\ ReturnDeny(Emission("deny"), 1 + k + j + e)
                /\ raised' = raised + 1 + k + j + e
           /\ Emit("deny") /\ dead' = TRUE
  <2>1. PICK k \in Thrown, j \in Thrown, e \in 0 .. 1 + Observers :
                /\ ReturnDeny(Emission("deny"), 1 + k + j + e)
                /\ raised' = raised + 1 + k + j + e
    BY <1>2
  <2>. DEFINE n == 1 + k + j + e
  <2>2. n \in Nat /\ raised' \in Nat /\ raised' + F.ctxErrors = raised + n
    BY <1>1, <2>1, ThrownType, EngineConstants
  <2>3. ReturnDeny(Emission("deny"), n)
    BY <2>1
  <2>. HIDE DEF n
  <2>. QED BY <1>1, <1>2, <2>2, <2>3, ReturnDenyLocal
<1>3. CASE /\ \E k \in Thrown :
                /\ Becomes([F EXCEPT !.calls = @ + 1, !.errors = @ + 1 + k])
                /\ raised' = raised + 1 + k
           /\ EmitNothing /\ UNCHANGED dead
  <2>1. PICK k \in Thrown : /\ Becomes([F EXCEPT !.calls = @ + 1, !.errors = @ + 1 + k])
                            /\ raised' = raised + 1 + k
    BY <1>3
  <2>. DEFINE n == 1 + k  m == F.errors + 1 + k
  <2>2. n \in Nat /\ m = F.errors + n /\ raised' = raised + n
    BY <1>1, <2>1, ThrownType
  <2>3. Becomes([F EXCEPT !.calls = @ + 1, !.errors = m])
    BY <2>1
  <2>. HIDE DEF n, m
  <2>4. Becomes([F EXCEPT !.calls = @ + 1, !.errors = F.errors + n])
    BY <2>2, <2>3
  <2>. QED BY <1>1, <1>3, <2>2, <2>4, NextCallLocal
<1>4. CASE /\ Becomes([F EXCEPT !.calls = @ + 1])
           /\ EmitNothing /\ UNCHANGED <<raised, dead>>
  BY <1>1, <1>4, SkipCallLocal
<1>. QED BY <1>2, <1>3, <1>4 DEF UnwrapFails

LEMMA OpaqueShellLocal == ASSUME Inv, Stacked, OpaqueShell PROVE LocalStep
<1>. DEFINE esc == policy.uncertaintyDecision
<1>1. PICK k \in Thrown, e \in ExitErrors :
          CASE esc = "deny" ->
                 /\ ReturnDeny(Emission("deny"), k + e) /\ Emit("deny")
                 /\ raised' = raised + k + e - F.ctxErrors
            [] esc = "ask" ->
                 /\ Becomes([F EXCEPT !.calls = @ + 1, !.errors = @ + k,
                                      !.terminal = OrElse(@, Emission("ask"))])
                 /\ Emit("ask") /\ raised' = raised + k
            [] esc = "allow" ->
                 /\ Becomes([F EXCEPT !.calls = @ + 1])
                 /\ EmitNothing /\ UNCHANGED raised
  BY DEF OpaqueShell
<1>2. CallReady /\ F.pc = "calls" /\ UNCHANGED <<policy, limited, top, noted, dead>> /\ F.parse = "ast"
  BY SettledHere DEF OpaqueShell, CallReady
<1>3. k \in Nat /\ e \in Nat /\ e - F.ctxErrors \in Nat /\ F.ctxErrors \in Nat /\ raised \in Nat
      /\ F.errors \in Nat
  BY ThrownType, ExitErrorsType, FrameFields, HistoryType DEF Inv
<1>4. esc \in {"deny", "ask", "allow"}
  BY PolicyType DEF Inv, Policy, Kinds
<1>5. CASE esc = "deny"
  <2>1. ReturnDeny(Emission("deny"), k + e) /\ Emit("deny")
        /\ raised' = raised + k + e - F.ctxErrors
    BY <1>1, <1>5
  <2>2. k + e \in Nat /\ raised' \in Nat /\ raised' + F.ctxErrors = raised + (k + e)
    BY <1>3, <2>1
  <2>. QED BY <1>2, <2>1, <2>2, ReturnDenyLocal
<1>6. CASE esc = "ask"
  <2>. DEFINE c == F.calls + 1  m == F.errors + k  t == OrElse(F.terminal, Emission("ask"))
              g == [F EXCEPT !.calls = c, !.errors = m, !.terminal = t]
  <2>1. Becomes(g) /\ Emit("ask") /\ raised' = raised + k
    BY <1>1, <1>6
  <2>2. c \in 0 .. MaxCalls /\ m \in Nat /\ t \in Terminal
    <3>1. c \in 0 .. MaxCalls
      BY <1>2, Counts DEF CallReady, Inv
    <3>2. t \in Terminal
      BY OrElseType DEF Inv
    <3>. HIDE DEF t
    <3>. QED BY <1>3, <3>1, <3>2
  <2>. HIDE DEF c, m, t
  <2>3. /\ g \in Frame /\ g.pc = "calls" /\ g.parse = F.parse /\ g.ctxErrors = F.ctxErrors
        /\ g.errors = m /\ g.terminal = t /\ g.notes = F.notes
    BY <1>2, <2>2, FrameType DEF Inv, Frame
  <2>. HIDE DEF g
  <2>4. g.errors = F.errors + k /\ g.terminal = OrElse(F.terminal, Emission("ask"))
    BY <2>3 DEF m, t
  <2>. QED BY <1>2, <1>3, <2>1, <2>3, <2>4, GoesOnLocal
<1>7. CASE esc = "allow"
  BY <1>1, <1>2, <1>7, SkipCallLocal
<1>. QED BY <1>4, <1>5, <1>6, <1>7

LEMMA InlineScriptPush == ASSUME Inv, InlineScript PROVE Push
<1>. DEFINE c == F.calls + 1  g == [F EXCEPT !.calls = c]
<1>1. F.calls < MaxCalls /\ F.pc = "calls" /\ top' = top + 1 /\ UNCHANGED <<policy, limited, history>>
      /\ frames' = [frames EXCEPT ![top].calls = @ + 1, ![top + 1] = NewFrame]
  BY DEF InlineScript, CallReady
<1>2. top \in Nat /\ top + 1 \in Depths /\ top \in Depths
  BY <1>1, ShallowHere, TopType DEF Inv, Depths
<1>3. c \in 0 .. MaxCalls
  BY <1>1, Counts DEF Inv
<1>4. frames' = [frames EXCEPT ![top] = g, ![top + 1] = NewFrame]
  BY <1>1, <1>2 DEF F, Inv, TypeOK
<1>. HIDE DEF c
<1>5. g \in Frame
  BY <1>3, FrameType DEF Inv, Frame
<1>. HIDE DEF g
<1>6. /\ frames' \in [Depths -> Frame]
      /\ frames'[top] = g /\ frames'[top + 1] = NewFrame
      /\ \A d \in Depths : d # top /\ d # top + 1 => frames'[d] = frames[d]
  BY <1>2, <1>4, <1>5, NewFrameType DEF Inv, TypeOK
<1>. QED BY <1>1, <1>2, <1>6 DEF Push, After, g, c

LEMMA PopStep ==
    ASSUME Inv, NEW g \in Frame, F.pc = "returned", top > 0, top' = top - 1,
           frames' = [frames EXCEPT ![top] = NewFrame, ![top - 1] = g],
           UNCHANGED <<policy, emitted, firstAsk, denial, noted, dead>>
    PROVE  Pop(g)
BY OuterStep DEF Inv, Pop, After

LEMMA ResumePop == ASSUME Inv, Resume PROVE PopAdopt
<1>. DEFINE t == OrElse(Outer.terminal, F.terminal)  m == Outer.errors + F.errors
            q == Outer.notes \o F.notes
            g == [Outer EXCEPT !.terminal = t, !.errors = m, !.notes = q]
<1>1. top > 0 /\ F.pc = "returned" /\ F.terminal.kind # "deny" /\ top' = top - 1
      /\ UNCHANGED <<policy, limited, history>>
      /\ frames' = [frames EXCEPT ![top] = NewFrame, ![top - 1] = g]
  BY DEF Resume
<1>2. Outer \in Frame /\ m \in Nat /\ q \in Seq(Nat) /\ t \in Terminal
  <2>1. Outer \in Frame /\ Outer.errors \in Nat /\ F.errors \in Nat /\ Outer.notes \in Seq(Nat)
        /\ F.notes \in Seq(Nat) /\ Outer.terminal \in Terminal /\ F.terminal \in Terminal
    BY <1>1, OuterFields, FrameFields DEF Inv, Outer
  <2>. QED BY <2>1 DEF OrElse
<1>. HIDE DEF t, m, q
<1>3. g \in Frame
  BY <1>2 DEF Frame
<1>. HIDE DEF g
<1>4. Pop(g)
  BY <1>1, <1>3, PopStep DEF history
<1>. QED BY <1>1, <1>4 DEF PopAdopt, g, t, m, q, history

LEMMA ResumeDeniedPop == ASSUME Inv, ResumeDenied PROVE PopDeny
<1>1. top > 0 /\ F.pc = "returned" /\ F.terminal.kind = "deny" /\ top' = top - 1
      /\ UNCHANGED <<policy, limited, emitted, firstAsk, denial, noted, dead>>
  BY DEF ResumeDenied
<1>2. PICK e \in 0 .. 1 + Observers :
          /\ frames' = [frames EXCEPT ![top] = NewFrame,
                          ![top - 1] = [Outer EXCEPT !.pc = "returned", !.terminal = F.terminal,
                                                 !.errors = @ + F.errors + e, !.notes = << >>]]
          /\ raised' = raised + e
  BY DEF ResumeDenied
<1>. DEFINE t == F.terminal  m == Outer.errors + F.errors + e  q == << >>
            g == [Outer EXCEPT !.pc = "returned", !.terminal = t, !.errors = m, !.notes = q]
<1>3. frames' = [frames EXCEPT ![top] = NewFrame, ![top - 1] = g]
  BY <1>2
<1>4. Outer \in Frame /\ m \in Nat /\ q \in Seq(Nat) /\ t \in Terminal
  <2>1. Outer \in Frame /\ Outer.errors \in Nat /\ F.errors \in Nat /\ e \in Nat
    BY <1>1, OuterFields, FrameFields, EngineConstants DEF Inv, Outer
  <2>. QED BY <2>1, FrameFields DEF Inv
<1>. HIDE DEF t, m, q
<1>5. g \in Frame
  BY <1>4 DEF Frame
<1>. HIDE DEF g
<1>6. Pop(g)
  BY <1>1, <1>3, <1>5, PopStep
<1>. QED BY <1>1, <1>2, <1>6 DEF PopDeny, g, t, m, q

LEMMA FourSteps ==
    ASSUME Inv, Stacked, [Next]_vars
    PROVE  LocalStep \/ Push \/ PopAdopt \/ PopDeny \/ UNCHANGED vars
BY ParseLocal, RuleIsSilentLocal, RuleThrowsLocal, RuleDeniesLocal, RuleAsksLocal,
   RuleAnnotatesLocal, EndOfRulesLocal, DepthExceededLocal, InspectLocal, UnwrapFailsLocal,
   OpaqueShellLocal, InlineScriptPush, ResumeDeniedPop, ResumePop, EndOfCallsLocal,
   FinishLocal DEF Next

----------------------------------------------------------------------------
(* The stack *)

(* The depth limit is not forgotten.                                       *)
LEMMA LimitedStays == ASSUME [Next]_vars, limited PROVE limited'
BY DEF Next, vars, ParseCommand, RuleIsSilent, RuleThrows, RuleDenies, RuleAsks, RuleAnnotates,
       EndOfRules, DepthExceeded, Inspect, UnwrapFails, OpaqueShell, InlineScript, ResumeDenied,
       Resume, EndOfCalls, Finish

LEMMA PremisesStay ==
    ASSUME [Next]_vars, policy' = policy
    PROVE  (AsksAreKept' => AsksAreKept) /\ (DeathIsSeen' => DeathIsSeen)
BY LimitedStays DEF AsksAreKept, DeathIsSeen

LEMMA LocalFrames ==
    ASSUME Inv, LocalStep
    PROVE  /\ top' = top /\ policy' = policy
           /\ frames' \in [Depths -> Frame] /\ After \in Frame
           /\ \A d \in Depths : d # top => frames'[d] = frames[d]
BY TopType DEF Inv, LocalStep, OnlyInnermost, After

LEMMA NewFrameFields ==
    /\ NewFrame.pc = "rules" /\ NewFrame.parse = "none" /\ Errs(NewFrame) = 0
    /\ NewFrame.notes = << >> /\ NewFrame.terminal.kind = "none" /\ Settled(NewFrame)
BY DEF NewFrame, NoTerminal, Errs, Settled

LEMMA PushFields ==
    ASSUME Inv, Push
    PROVE  /\ After.pc = F.pc /\ After.parse = F.parse /\ After.notes = F.notes
           /\ After.terminal = F.terminal /\ After.ctxErrors = F.ctxErrors
           /\ Errs(After) = Errs(F)
<1>. DEFINE c == F.calls + 1  g == [F EXCEPT !.calls = c]
<1>1. After = g
  BY DEF Push
<1>. HIDE DEF c
<1>2. /\ g.pc = F.pc /\ g.parse = F.parse /\ g.notes = F.notes /\ g.terminal = F.terminal
      /\ g.ctxErrors = F.ctxErrors /\ g.errors = F.errors
  BY FrameType DEF Inv, Frame
<1>. HIDE DEF g
<1>. QED BY <1>1, <1>2 DEF Errs

LEMMA AdoptFields ==
    ASSUME Inv, PopAdopt
    PROVE  LET g == frames'[top - 1] IN
           /\ g.pc = Outer.pc /\ g.parse = Outer.parse /\ g.ctxErrors = Outer.ctxErrors
           /\ g.terminal = OrElse(Outer.terminal, F.terminal)
           /\ g.errors = Outer.errors + F.errors /\ g.notes = Outer.notes \o F.notes
<1>. DEFINE t == OrElse(Outer.terminal, F.terminal)  m == Outer.errors + F.errors
            q == Outer.notes \o F.notes
            g == [Outer EXCEPT !.terminal = t, !.errors = m, !.notes = q]
<1>1. top > 0 /\ frames'[top - 1] = g
  BY DEF PopAdopt, Pop
<1>2. Outer \in Frame
  BY <1>1, OuterFields DEF Inv, Outer
<1>. HIDE DEF t, m, q
<1>3. /\ g.pc = Outer.pc /\ g.parse = Outer.parse /\ g.ctxErrors = Outer.ctxErrors
      /\ g.terminal = t /\ g.errors = m /\ g.notes = q
  BY <1>2 DEF Frame
<1>. HIDE DEF g
<1>. QED BY <1>1, <1>3 DEF t, m, q

LEMMA DenyFields ==
    ASSUME Inv, Stacked, PopDeny
    PROVE  \E e \in Nat : LET g == frames'[top - 1] IN
              /\ Pop(g) /\ raised' = raised + e /\ F.terminal.kind = "deny"
              /\ g.pc = "returned" /\ g.parse = Outer.parse
              /\ g.ctxErrors = 0 /\ Outer.ctxErrors = 0
              /\ g.errors = Outer.errors + F.errors + e /\ g.notes = << >>
<1>1. PICK e \in 0 .. 1 + Observers :
        /\ Pop([Outer EXCEPT !.pc = "returned", !.terminal = F.terminal,
                             !.errors = @ + F.errors + e, !.notes = << >>])
        /\ F.terminal.kind = "deny" /\ raised' = raised + e
  BY DEF PopDeny
<1>. DEFINE t == F.terminal  m == Outer.errors + F.errors + e  q == << >>
            g == [Outer EXCEPT !.pc = "returned", !.terminal = t, !.errors = m, !.notes = q]
<1>2. top > 0 /\ frames'[top - 1] = g /\ Pop(g)
  BY <1>1 DEF Pop
<1>3. Outer \in Frame /\ Outer.ctxErrors = 0 /\ e \in Nat
  <2>1. Outer \in Frame /\ top - 1 \in Depths /\ top - 1 < top
    BY <1>2, OuterFields, TopType DEF Inv, Outer, Depths
  <2>. QED BY <2>1, EngineConstants DEF Stacked, Settled, Outer
<1>. HIDE DEF t, m, q
<1>4. /\ g.pc = "returned" /\ g.parse = Outer.parse /\ g.ctxErrors = Outer.ctxErrors
      /\ g.errors = m /\ g.notes = q
  BY <1>3 DEF Frame
<1>. HIDE DEF g
<1>. QED BY <1>1, <1>2, <1>3, <1>4 DEF m, q

LEMMA StackedKept == ASSUME Inv, Stacked, [Next]_vars PROVE Stacked'
<1>1. CASE LocalStep
  <2>1. Settled(After)
    BY <1>1 DEF LocalStep
  <2>2. \A d \in Depths : Settled(frames'[d])
    BY <1>1, <2>1, LocalFrames DEF Stacked, After
  <2>3. \A d \in Depths : d < top' => frames'[d].pc = "calls"
    BY <1>1, LocalFrames, TopType DEF Stacked, Inv, Depths
  <2>. QED BY <2>2, <2>3 DEF Stacked, Settled
<1>2. CASE Push
  <2>1. Settled(After) /\ After.pc = "calls"
    BY <1>2, PushFields, SettledHere DEF Settled, Push
  <2>2. \A d \in Depths : Settled(frames'[d])
    <3>1. \A d \in Depths : d = top \/ d = top + 1 \/ frames'[d] = frames[d]
      BY <1>2 DEF Push
    <3>2. frames'[top + 1] = NewFrame /\ frames'[top] = After
      BY <1>2 DEF Push, After
    <3>. QED BY <2>1, <3>1, <3>2, NewFrameFields DEF Stacked
  <2>3. \A d \in Depths : d < top' => frames'[d].pc = "calls"
    <3>1. \A d \in Depths : d < top' => d = top \/ (d < top /\ frames'[d] = frames[d])
      BY <1>2, TopType DEF Push, Inv, Depths
    <3>. QED BY <2>1, <3>1 DEF Stacked, After
  <2>. QED BY <2>2, <2>3 DEF Stacked, Settled
<1>3. CASE PopAdopt \/ PopDeny
  <2>1. /\ Settled(frames'[top - 1]) /\ top > 0 /\ top' = top - 1 /\ After = NewFrame
        /\ \A d \in Depths : d # top /\ d # top - 1 => frames'[d] = frames[d]
    <3>1. top > 0 => top - 1 \in Depths /\ top - 1 < top
      BY TopType DEF Inv, Depths
    <3>2. CASE PopAdopt
      <4>1. /\ top > 0 /\ top' = top - 1 /\ After = NewFrame
            /\ \A d \in Depths : d # top /\ d # top - 1 => frames'[d] = frames[d]
        BY <3>2 DEF PopAdopt, Pop
      <4>2. Settled(Outer)
        BY <3>1, <4>1 DEF Stacked, Outer
      <4>. QED BY <3>2, <4>1, <4>2, AdoptFields DEF Settled
    <3>3. CASE PopDeny
      <4>1. PICK e \in Nat : LET g == frames'[top - 1] IN
              /\ Pop(g) /\ g.pc = "returned" /\ g.ctxErrors = 0
        BY <3>3, DenyFields
      <4>. QED BY <4>1 DEF Pop, Settled
    <3>. QED BY <1>3, <3>2, <3>3
  <2>2. \A d \in Depths : Settled(frames'[d])
    BY <2>1, NewFrameFields DEF Stacked, After
  <2>3. \A d \in Depths : d < top' => frames'[d].pc = "calls"
    <3>1. \A d \in Depths : d < top' => d # top /\ d # top - 1 /\ d < top
      BY <2>1, TopType DEF Inv, Depths
    <3>. QED BY <2>1, <3>1 DEF Stacked
  <2>. QED BY <2>2, <2>3 DEF Stacked, Settled
<1>4. CASE UNCHANGED vars
  BY <1>4 DEF vars, Stacked, Settled
<1>. QED BY <1>1, <1>2, <1>3, <1>4, FourSteps

----------------------------------------------------------------------------
(* Errors: the frames of the stack hold what was raised *)

(* sums[d] is what the frames up to d hold.                                *)
ErrorsHeld ==
    \E sums \in [Depths -> Nat] :
        /\ sums[0] = Errs(frames[0]) /\ sums[top] = raised
        /\ \A d \in Depths \ {0} : d <= top => sums[d] = sums[d - 1] + Errs(frames[d])

LEMMA ErrsType == ASSUME TypeOK PROVE \A d \in Depths : Errs(frames[d]) \in Nat
<1>1. \A d \in Depths : frames[d] \in Frame
  BY DEF TypeOK
<1>. QED BY <1>1 DEF Errs, Frame

LEMMA DepthFacts ==
    ASSUME TypeOK
    PROVE  /\ 0 \in Depths /\ top \in Depths /\ top \in Nat /\ Depths \subseteq Nat
           /\ \A d \in Depths : d \in Nat /\ (d # 0 => d - 1 \in Depths)
BY TopType DEF Depths

LEMMA ErrorsHeldKept ==
    ASSUME Inv, Inv', Stacked, ErrorsHeld, [Next]_vars PROVE ErrorsHeld'
<1>1. PICK sums \in [Depths -> Nat] :
        /\ sums[0] = Errs(frames[0]) /\ sums[top] = raised
        /\ \A d \in Depths \ {0} : d <= top => sums[d] = sums[d - 1] + Errs(frames[d])
  BY DEF ErrorsHeld
<1>2. raised' \in Nat /\ raised \in Nat /\ top' \in Depths
      /\ (\A d \in Depths : Errs(frames[d]) \in Nat /\ Errs(frames'[d]) \in Nat)
  <2>1. raised \in Nat /\ raised' \in Nat /\ top' \in Depths
    BY DEF Inv, TypeOK
  <2>2. \A d \in Depths : Errs(frames[d]) \in Nat
    BY ErrsType DEF Inv
  <2>3. \A d \in Depths : frames'[d] \in Frame
    BY DEF Inv, TypeOK
  <2>4. \A d \in Depths : Errs(frames'[d]) \in Nat
    BY <2>3 DEF Errs, Frame
  <2>. QED BY <2>1, <2>2, <2>4
<1>. DEFINE new == [sums EXCEPT ![top'] = raised']
<1>3. /\ new \in [Depths -> Nat] /\ new[top'] = raised'
      /\ \A d \in Depths : d # top' => new[d] = sums[d]
  BY <1>2
<1>. HIDE DEF new
<1>4. SUFFICES /\ new[0] = Errs(frames'[0])
               /\ \A d \in Depths \ {0} : d <= top' => new[d] = new[d - 1] + Errs(frames'[d])
  BY <1>2, <1>3 DEF ErrorsHeld, Errs
<1>5. CASE LocalStep
  <2>1. /\ top' = top /\ raised' + Errs(frames[top]) = raised + Errs(frames'[top])
        /\ \A d \in Depths : d # top => Errs(frames'[d]) = Errs(frames[d])
    BY <1>5, LocalFrames DEF LocalStep, F, After, Errs
  <2>2. new[0] = Errs(frames'[0])
    BY <1>1, <1>2, <1>3, <2>1, DepthFacts DEF Inv
  <2>3. ASSUME NEW d \in Depths \ {0}, d <= top'
        PROVE  new[d] = new[d - 1] + Errs(frames'[d])
    <3>1. d - 1 \in Depths /\ d - 1 # top /\ d \in Nat /\ top \in Depths
      BY <2>1, <2>3, DepthFacts DEF Inv
    <3>2. new[d - 1] = sums[d - 1] /\ sums[d - 1] \in Nat
      BY <1>3, <2>1, <3>1
    <3>3. sums[d] = sums[d - 1] + Errs(frames[d])
      BY <1>1, <2>1, <2>3
    <3>4. CASE d = top
      BY <1>1, <1>2, <1>3, <2>1, <3>1, <3>2, <3>3, <3>4
    <3>5. CASE d # top
      BY <1>3, <2>1, <3>2, <3>3, <3>5
    <3>. QED BY <3>4, <3>5
  <2>. QED BY <2>2, <2>3
<1>6. CASE Push
  <2>1. /\ top' = top + 1 /\ raised' = raised /\ Errs(frames'[top + 1]) = 0
        /\ \A d \in Depths : d # top + 1 => Errs(frames'[d]) = Errs(frames[d])
    <3>1. /\ top' = top + 1 /\ raised' = raised /\ frames'[top + 1] = NewFrame
          /\ \A d \in Depths : d # top /\ d # top + 1 => frames'[d] = frames[d]
      BY <1>6 DEF Push, history
    <3>2. Errs(frames'[top]) = Errs(frames[top])
      BY <1>6, PushFields DEF After, F
    <3>. QED BY <3>1, <3>2, NewFrameFields
  <2>2. new[0] = Errs(frames'[0])
    BY <1>1, <1>2, <1>3, <2>1, DepthFacts DEF Inv
  <2>3. ASSUME NEW d \in Depths \ {0}, d <= top'
        PROVE  new[d] = new[d - 1] + Errs(frames'[d])
    <3>1. d - 1 \in Depths /\ d - 1 # top' /\ d \in Nat /\ top \in Nat
      BY <2>1, <2>3, DepthFacts DEF Inv
    <3>2. new[d - 1] = sums[d - 1] /\ sums[d - 1] \in Nat
      BY <1>3, <3>1
    <3>3. CASE d = top'
      BY <1>1, <1>2, <1>3, <2>1, <3>1, <3>2, <3>3
    <3>4. CASE d # top'
      <4>1. d <= top /\ d # top + 1
        BY <2>1, <2>3, <3>1, <3>4
      <4>. QED BY <1>1, <1>3, <2>1, <3>2, <3>4, <4>1
    <3>. QED BY <3>3, <3>4
  <2>. QED BY <2>2, <2>3
<1>7. CASE PopAdopt \/ PopDeny
  <2>1. /\ top > 0 /\ top' = top - 1
        /\ raised' + Errs(frames[top - 1]) + Errs(frames[top]) = raised + Errs(frames'[top - 1])
        /\ \A d \in Depths : d # top /\ d # top - 1 => frames'[d] = frames[d]
    <3>1. CASE PopAdopt
      <4>1. /\ top > 0 /\ top' = top - 1 /\ F.pc = "returned" /\ raised' = raised
            /\ \A d \in Depths : d # top /\ d # top - 1 => frames'[d] = frames[d]
        BY <3>1 DEF PopAdopt, Pop
      <4>2. F.ctxErrors = 0 /\ F.errors \in Nat
        BY <4>1, SettledHere, FrameFields DEF Settled, Inv
      <4>3. Outer.errors \in Nat /\ Outer.ctxErrors \in Nat
        BY <4>1, OuterFields DEF Inv, Outer, Frame
      <4>4. Errs(frames'[top - 1]) = Errs(Outer) + Errs(F)
        BY <3>1, <4>2, <4>3, AdoptFields DEF Errs
      <4>. QED BY <1>2, <4>1, <4>2, <4>3, <4>4 DEF Errs, F, Outer
    <3>2. CASE PopDeny
      <4>1. PICK e \in Nat : LET g == frames'[top - 1] IN
              /\ Pop(g) /\ raised' = raised + e
              /\ g.ctxErrors = 0 /\ Outer.ctxErrors = 0
              /\ g.errors = Outer.errors + F.errors + e
        BY <3>2, DenyFields
      <4>2. /\ top > 0 /\ top' = top - 1 /\ F.pc = "returned"
            /\ \A d \in Depths : d # top /\ d # top - 1 => frames'[d] = frames[d]
        BY <4>1 DEF Pop
      <4>3. F.ctxErrors = 0 /\ F.errors \in Nat
        BY <4>2, SettledHere, FrameFields DEF Settled, Inv
      <4>4. Outer.errors \in Nat
        BY <4>2, OuterFields DEF Inv, Outer, Frame
      <4>5. Errs(frames'[top - 1]) = Errs(Outer) + Errs(F) + e
        BY <4>1, <4>3, <4>4 DEF Errs
      <4>. QED BY <1>2, <4>1, <4>2, <4>3, <4>4, <4>5 DEF Errs, F, Outer
    <3>. QED BY <1>7, <3>1, <3>2
  <2>2. top \in Depths \ {0} /\ top - 1 \in Depths /\ top \in Nat
    BY <2>1, DepthFacts DEF Inv
  <2>3. raised = sums[top - 1] + Errs(frames[top]) /\ sums[top - 1] \in Nat
    BY <1>1, <2>2
  <2>4. raised' + Errs(frames[top - 1]) = sums[top - 1] + Errs(frames'[top - 1])
    BY <1>2, <2>1, <2>2, <2>3
  <2>5. new[0] = Errs(frames'[0])
    <3>1. CASE top - 1 = 0
      BY <1>1, <1>2, <1>3, <2>1, <2>2, <2>4, <3>1
    <3>2. CASE top - 1 # 0
      <4>1. 0 # top /\ 0 # top - 1 /\ 0 \in Depths
        BY <2>2, <3>2, DepthFacts DEF Inv
      <4>. QED BY <1>1, <1>3, <2>1, <4>1
    <3>. QED BY <3>1, <3>2
  <2>6. ASSUME NEW d \in Depths \ {0}, d <= top'
        PROVE  new[d] = new[d - 1] + Errs(frames'[d])
    <3>1. d - 1 \in Depths /\ d - 1 # top' /\ d \in Nat /\ d <= top /\ d # top
      BY <2>1, <2>2, <2>6, DepthFacts DEF Inv
    <3>2. new[d - 1] = sums[d - 1] /\ sums[d - 1] \in Nat
      BY <1>3, <3>1
    <3>3. sums[d] = sums[d - 1] + Errs(frames[d])
      BY <1>1, <3>1
    <3>4. CASE d = top'
      BY <1>1, <1>2, <1>3, <2>1, <2>2, <2>4, <3>1, <3>2, <3>3, <3>4
    <3>5. CASE d # top'
      BY <1>3, <2>1, <3>1, <3>2, <3>3, <3>5
    <3>. QED BY <3>4, <3>5
  <2>. QED BY <2>5, <2>6
<1>8. CASE UNCHANGED vars
  <2>1. top' = top /\ raised' = raised /\ frames' = frames
    BY <1>8 DEF vars, history
  <2>2. \A d \in Depths : new[d] = sums[d]
    BY <1>1, <1>3, <2>1
  <2>. QED BY <1>1, <2>1, <2>2, DepthFacts DEF Inv
<1>. QED BY <1>5, <1>6, <1>7, <1>8, FourSteps

----------------------------------------------------------------------------
(* Notes: the frames of the stack hold them in order *)

UpTo(n) == [i \in 1 .. n |-> i]

(* texts[d] is what the frames up to d say, outermost first.               *)
NotesHeld ==
    /\ denial # 0 => F.notes = << >>
    /\ denial = 0 =>
         \E texts \in [Depths -> Seq(Nat)] :
            /\ texts[0] = frames[0].notes /\ texts[top] = UpTo(noted)
            /\ \A d \in Depths \ {0} : d <= top => texts[d] = texts[d - 1] \o frames[d].notes

LEMMA UpToType == ASSUME NEW n \in Nat PROVE UpTo(n) \in Seq(Nat) /\ Len(UpTo(n)) = n
<1>1. UpTo(n) \in [1 .. n -> Nat]
  BY DEF UpTo
<1>. QED BY <1>1

LEMMA UpToNext == ASSUME NEW n \in Nat PROVE UpTo(n + 1) = Append(UpTo(n), n + 1)
<1>1. UpTo(n) \in Seq(Nat) /\ Len(UpTo(n)) = n
  BY UpToType
<1>2. UpTo(n + 1) \in Seq(Nat) /\ Len(UpTo(n + 1)) = n + 1
  BY UpToType
<1>3. Append(UpTo(n), n + 1) \in Seq(Nat) /\ Len(Append(UpTo(n), n + 1)) = n + 1
  BY <1>1
<1>4. \A i \in 1 .. n + 1 : UpTo(n + 1)[i] = i
  BY DEF UpTo
<1>5. ASSUME NEW i \in 1 .. n + 1 PROVE Append(UpTo(n), n + 1)[i] = i
  <2>1. CASE i = n + 1
    BY <1>1, <2>1, AppendProperties
  <2>2. CASE i # n + 1
    <3>1. i \in 1 .. n
      BY <2>2
    <3>2. Append(UpTo(n), n + 1)[i] = UpTo(n)[i]
      BY <1>1, <3>1, AppendProperties
    <3>. QED BY <3>1, <3>2 DEF UpTo
  <2>. QED BY <2>1, <2>2
<1>. QED BY <1>2, <1>3, <1>4, <1>5, SeqEqual

LEMMA AppendLast ==
    ASSUME NEW s \in Seq(Nat), NEW t \in Seq(Nat), NEW n \in Nat
    PROVE  s \o Append(t, n) = Append(s \o t, n)
<1>1. Append(t, n) = t \o <<n>> /\ <<n>> \in Seq(Nat)
  BY AppendIsConcat
<1>2. s \o t \in Seq(Nat)
  BY ConcatProperties
<1>3. Append(s \o t, n) = (s \o t) \o <<n>>
  BY <1>2, AppendIsConcat
<1>4. (s \o t) \o <<n>> = s \o (t \o <<n>>)
  BY <1>1, ConcatAssociative
<1>. QED BY <1>1, <1>3, <1>4, Zenon

LEMMA ConcatRegroups == \A r, s, t \in Seq(Nat) : (r \o s) \o t = r \o (s \o t)
<1>1. ASSUME NEW r \in Seq(Nat), NEW s \in Seq(Nat), NEW t \in Seq(Nat)
      PROVE  (r \o s) \o t = r \o (s \o t)
  BY ConcatAssociative
<1>. QED BY <1>1, Zenon

LEMMA NotesType == ASSUME TypeOK PROVE \A d \in Depths : frames[d].notes \in Seq(Nat)
<1>1. \A d \in Depths : frames[d] \in Frame
  BY DEF TypeOK
<1>. QED BY <1>1 DEF Frame

(* What a local step adds is added at the end.                             *)
LEMMA NotesGrow ==
    ASSUME Inv, LocalStep, denial' = 0
    PROVE  /\ \A s \in Seq(Nat) : s \o F.notes = UpTo(noted) => s \o After.notes = UpTo(noted')
           /\ F.notes = UpTo(noted) => After.notes = UpTo(noted')
<1>1. \/ After.notes = F.notes /\ noted' = noted
      \/ After.notes = Append(F.notes, noted + 1) /\ noted' = noted + 1
  <2>1. ~Emit("deny")
    BY EmitType DEF Inv
  <2>. QED BY <2>1 DEF LocalStep, EmitsHere, SameNotes
<1>2. F.notes \in Seq(Nat) /\ noted \in Nat /\ noted + 1 \in Nat
  BY FrameFields, HistoryType DEF Inv
<1>3. CASE After.notes = F.notes /\ noted' = noted
  BY <1>3
<1>4. CASE After.notes = Append(F.notes, noted + 1) /\ noted' = noted + 1
  BY <1>2, <1>4, UpToNext, AppendLast
<1>. QED BY <1>1, <1>3, <1>4

LEMMA DenialStays == ASSUME Inv, LocalStep PROVE denial = 0 /\ (denial' # 0 => Emit("deny"))
<1>1. denial = 0
  BY NobodyDenied DEF LocalStep
<1>2. Emit("ask") \/ EmitNothing => denial' = denial
  BY EmitType DEF EmitNothing, Inv
<1>. QED BY <1>1, <1>2 DEF LocalStep, EmitsHere

LEMMA NotesHeldKept ==
    ASSUME Inv, Inv', Stacked, NotesHeld, [Next]_vars PROVE NotesHeld'
<1>0. /\ noted' \in Nat /\ noted \in Nat /\ top' \in Depths
      /\ \A d \in Depths : frames[d].notes \in Seq(Nat)
  BY NotesType, HistoryType DEF Inv, TypeOK
<1>1. CASE LocalStep
  <2>1. top' = top /\ F' = After /\ (\A d \in Depths : d # top => frames'[d] = frames[d])
    BY <1>1, LocalFrames DEF F, After
  <2>2. denial' # 0 => After.notes = << >>
    <3>1. denial' # 0 => Emit("deny")
      BY <1>1, DenialStays
    <3>2. denial' # 0 => ~Emit("ask") /\ ~EmitNothing
      BY <1>1, DenialStays, EmitType DEF EmitNothing, Inv
    <3>. QED BY <1>1, <3>1, <3>2 DEF LocalStep, EmitsHere
  <2>3. ASSUME denial' = 0
        PROVE  \E texts \in [Depths -> Seq(Nat)] :
            /\ texts[0] = frames'[0].notes /\ texts[top'] = UpTo(noted')
            /\ \A d \in Depths \ {0} : d <= top' => texts[d] = texts[d - 1] \o frames'[d].notes
    <3>1. PICK texts \in [Depths -> Seq(Nat)] :
            /\ texts[0] = frames[0].notes /\ texts[top] = UpTo(noted)
            /\ \A d \in Depths \ {0} : d <= top => texts[d] = texts[d - 1] \o frames[d].notes
      BY <1>1, DenialStays DEF NotesHeld
    <3>. DEFINE u == UpTo(noted')  new == [texts EXCEPT ![top] = u]
    <3>2. u \in Seq(Nat) /\ top \in Depths
      BY <1>0, <2>1, UpToType
    <3>. HIDE DEF u
    <3>3. /\ new \in [Depths -> Seq(Nat)] /\ new[top] = u
          /\ \A d \in Depths : d # top => new[d] = texts[d]
      BY <3>2
    <3>. HIDE DEF new
    <3>4. new[0] = frames'[0].notes
      <4>1. CASE top = 0
        <5>1. F.notes = UpTo(noted)
          BY <3>1, <4>1 DEF F
        <5>2. After.notes = u
          BY <1>1, <2>3, <5>1, NotesGrow DEF u
        <5>. QED BY <3>3, <4>1, <5>2 DEF After
      <4>2. CASE top # 0
        BY <2>1, <3>1, <3>3, <4>2, DepthFacts DEF Inv
      <4>. QED BY <4>1, <4>2
    <3>5. ASSUME NEW d \in Depths \ {0}, d <= top
          PROVE  new[d] = new[d - 1] \o frames'[d].notes
      <4>1. d - 1 \in Depths /\ d - 1 # top /\ new[d - 1] = texts[d - 1]
            /\ texts[d - 1] \in Seq(Nat)
        BY <3>3, <3>5, DepthFacts DEF Inv
      <4>2. texts[d] = texts[d - 1] \o frames[d].notes
        BY <3>1, <3>5
      <4>3. CASE d = top
        <5>1. texts[d - 1] \o F.notes = UpTo(noted)
          BY <3>1, <4>2, <4>3 DEF F
        <5>2. texts[d - 1] \o After.notes = u
          BY <1>1, <2>3, <4>1, <5>1, NotesGrow DEF u
        <5>. QED BY <3>3, <4>1, <4>3, <5>2 DEF After
      <4>4. CASE d # top
        BY <2>1, <3>3, <4>1, <4>2, <4>4
      <4>. QED BY <4>3, <4>4
    <3>. QED BY <2>1, <3>3, <3>4, <3>5 DEF u
  <2>. QED BY <2>1, <2>2, <2>3 DEF NotesHeld
<1>2. CASE Push
  <2>1. /\ top' = top + 1 /\ frames'[top + 1].notes = << >> /\ noted' = noted /\ denial' = denial
        /\ \A d \in Depths : d # top + 1 => frames'[d].notes = frames[d].notes
    <3>1. /\ top' = top + 1 /\ frames'[top + 1] = NewFrame /\ noted' = noted /\ denial' = denial
          /\ \A d \in Depths : d # top /\ d # top + 1 => frames'[d] = frames[d]
      BY <1>2 DEF Push, history
    <3>. QED BY <1>2, <3>1, PushFields, NewFrameFields DEF After, F
  <2>2. denial = 0 /\ denial' = 0
    BY <1>2, <2>1, NobodyDenied DEF Push
  <2>3. PICK texts \in [Depths -> Seq(Nat)] :
          /\ texts[0] = frames[0].notes /\ texts[top] = UpTo(noted)
          /\ \A d \in Depths \ {0} : d <= top => texts[d] = texts[d - 1] \o frames[d].notes
    BY <2>2 DEF NotesHeld
  <2>. DEFINE u == UpTo(noted)  new == [texts EXCEPT ![top'] = u]
  <2>4. u \in Seq(Nat)
    BY <1>0, UpToType
  <2>5. texts[top] = u
    BY <2>3
  <2>. HIDE DEF u
  <2>6. /\ new \in [Depths -> Seq(Nat)] /\ new[top'] = u
        /\ \A d \in Depths : d # top' => new[d] = texts[d]
    BY <1>0, <2>4
  <2>. HIDE DEF new
  <2>7. new[0] = frames'[0].notes
    <3>1. 0 \in Depths /\ 0 # top + 1
      BY DepthFacts DEF Inv
    <3>. QED BY <2>1, <2>3, <2>6, <3>1
  <2>8. ASSUME NEW d \in Depths \ {0}, d <= top'
        PROVE  new[d] = new[d - 1] \o frames'[d].notes
    <3>1. d - 1 \in Depths /\ d - 1 # top' /\ d \in Nat /\ top \in Nat
      BY <2>1, <2>8, DepthFacts DEF Inv
    <3>2. new[d - 1] = texts[d - 1]
      BY <2>6, <3>1
    <3>3. CASE d = top'
      <4>1. d - 1 = top /\ frames'[d].notes = << >>
        BY <2>1, <3>1, <3>3
      <4>2. new[d - 1] = u /\ new[d] = u
        BY <2>5, <2>6, <3>2, <3>3, <4>1
      <4>. QED BY <2>4, <4>1, <4>2, ConcatEmptySeq
    <3>4. CASE d # top'
      <4>1. d <= top /\ d # top + 1
        BY <2>1, <2>8, <3>1, <3>4
      <4>2. texts[d] = texts[d - 1] \o frames[d].notes
        BY <2>3, <4>1
      <4>. QED BY <2>1, <2>6, <3>2, <3>4, <4>1, <4>2
    <3>. QED BY <3>3, <3>4
  <2>. QED BY <2>1, <2>2, <2>6, <2>7, <2>8 DEF NotesHeld, u
<1>3. CASE PopAdopt
  <2>1. /\ top > 0 /\ top' = top - 1 /\ noted' = noted /\ denial' = denial
        /\ F.terminal.kind # "deny" /\ frames'[top - 1].notes = frames[top - 1].notes \o frames[top].notes
        /\ \A d \in Depths : d # top /\ d # top - 1 => frames'[d] = frames[d]
    BY <1>3, AdoptFields DEF PopAdopt, Pop, F, Outer
  <2>2. denial = 0 /\ denial' = 0
    BY <2>1 DEF Inv, DenialIsLast
  <2>3. PICK texts \in [Depths -> Seq(Nat)] :
          /\ texts[0] = frames[0].notes /\ texts[top] = UpTo(noted)
          /\ \A d \in Depths \ {0} : d <= top => texts[d] = texts[d - 1] \o frames[d].notes
    BY <2>2 DEF NotesHeld
  <2>. DEFINE u == UpTo(noted)  new == [texts EXCEPT ![top - 1] = u]
  <2>4. u \in Seq(Nat) /\ top \in Depths \ {0} /\ top - 1 \in Depths /\ top \in Nat
    <3>1. u \in Seq(Nat)
      BY <1>0, UpToType
    <3>. HIDE DEF u
    <3>. QED BY <2>1, <3>1, DepthFacts DEF Inv
  <2>a. u = texts[top]
    BY <2>3, Zenon
  <2>. HIDE DEF u
  <2>5. u = texts[top - 1] \o frames[top].notes
    <3>1. top <= top
      BY <2>4
    <3>2. texts[top] = texts[top - 1] \o frames[top].notes
      BY <2>3, <2>4, <3>1, Zenon
    <3>. QED BY <2>a, <3>2
  <2>6. /\ new \in [Depths -> Seq(Nat)] /\ new[top - 1] = u
        /\ \A d \in Depths : d # top - 1 => new[d] = texts[d]
    BY <2>4
  <2>. HIDE DEF new
  <2>7. new[0] = frames'[0].notes
    <3>1. CASE top - 1 = 0
      BY <2>1, <2>3, <2>5, <2>6, <3>1
    <3>2. CASE top - 1 # 0
      <4>1. 0 # top /\ 0 # top - 1 /\ 0 \in Depths
        BY <2>4, <3>2, DepthFacts DEF Inv
      <4>. QED BY <2>1, <2>3, <2>6, <4>1
    <3>. QED BY <3>1, <3>2
  <2>8. ASSUME NEW d \in Depths \ {0}, d <= top - 1
        PROVE  new[d] = new[d - 1] \o frames'[d].notes
    <3>1. d - 1 \in Depths /\ d - 1 # top - 1 /\ d <= top /\ d # top
      BY <2>4, <2>8, DepthFacts DEF Inv
    <3>2. new[d - 1] = texts[d - 1] /\ texts[d - 1] \in Seq(Nat)
      BY <2>6, <3>1
    <3>3. texts[d] = texts[d - 1] \o frames[d].notes
      BY <2>3, <3>1
    <3>4. CASE d = top - 1
      <4>1. u = (texts[d - 1] \o frames[d].notes) \o frames[top].notes
        BY <2>5, <3>3, <3>4
      <4>2. u = texts[d - 1] \o (frames[d].notes \o frames[top].notes)
        <5>1. frames[d].notes \in Seq(Nat) /\ frames[top].notes \in Seq(Nat)
          BY <1>0, <2>4
        <5>2. (texts[d - 1] \o frames[d].notes) \o frames[top].notes
              = texts[d - 1] \o (frames[d].notes \o frames[top].notes)
          BY <3>2, <5>1, ConcatRegroups, Zenon
        <5>. QED BY <4>1, <5>2
      <4>. QED BY <2>1, <2>6, <3>2, <3>4, <4>2
    <3>5. CASE d # top - 1
      BY <2>1, <2>6, <3>1, <3>2, <3>3, <3>5
    <3>. QED BY <3>4, <3>5
  <2>. QED BY <2>1, <2>2, <2>6, <2>7, <2>8 DEF NotesHeld, u
<1>4. CASE PopDeny
  <2>1. PICK e \in Nat : LET g == frames'[top - 1] IN
          Pop(g) /\ F.terminal.kind = "deny" /\ g.notes = << >>
    BY <1>4, DenyFields
  <2>2. top' = top - 1 /\ denial' = denial /\ frames'[top - 1].notes = << >>
    BY <2>1 DEF Pop
  <2>3. denial # 0
    BY <2>1, TopType DEF Inv, DenyIsInnermost, F
  <2>. QED BY <2>2, <2>3 DEF NotesHeld, F
<1>5. CASE UNCHANGED vars
  BY <1>5 DEF vars, history, NotesHeld, F
<1>. QED BY <1>1, <1>2, <1>3, <1>4, <1>5, FourSteps

----------------------------------------------------------------------------
(* The first ask, and the denial a dead parser owes *)

(* The first ask is held by the outermost frame that holds one.            *)
FirstAskHeld ==
    AsksAreKept /\ firstAsk # 0 /\ denial = 0 =>
        \E d \in 0 .. top : /\ frames[d].terminal.kind # "none" /\ frames[d].terminal.at = firstAsk
                           /\ \A c \in 0 .. d - 1 : frames[c].terminal.kind = "none"

(* Before there is an ask, no frame holds one.                             *)
NoAskYet == firstAsk = 0 /\ denial = 0 => \A d \in 0 .. top : frames[d].terminal.kind = "none"

(* The terminals of all frames are what they were.                         *)
LEMMA SameTerminals ==
    ASSUME Inv, NoAskYet, FirstAskHeld, top' = top, UNCHANGED <<policy, firstAsk, denial>>,
           AsksAreKept' => AsksAreKept,
           \A d \in 0 .. top : frames'[d].terminal = frames[d].terminal
    PROVE  NoAskYet' /\ FirstAskHeld'
<1>1. NoAskYet'
  BY DEF NoAskYet
<1>2. \A d \in 0 .. top : \A c \in 0 .. d - 1 : c \in 0 .. top
  BY DepthFacts DEF Inv
<1>3. FirstAskHeld'
  BY <1>2 DEF FirstAskHeld
<1>. QED BY <1>1, <1>3

LEMMA FirstAskKept ==
    ASSUME Inv, Stacked, NoAskYet, FirstAskHeld, [Next]_vars PROVE NoAskYet' /\ FirstAskHeld'
<1>0. top \in Nat /\ (\A d \in 0 .. top : d \in Depths /\ d \in Nat /\ 0 .. d - 1 \subseteq 0 .. top)
      /\ emitted \in Nat /\ firstAsk \in Nat
  BY TopType, HistoryType DEF Inv, Depths
<1>6. AsksAreKept' => AsksAreKept
  <2>1. policy' = policy
    BY FourSteps, LocalFrames DEF Push, PopAdopt, PopDeny, Pop, vars
  <2>. QED BY <2>1, PremisesStay
<1>1. CASE LocalStep
  <2>1. top' = top /\ policy' = policy /\ denial = 0
        /\ \A d \in 0 .. top : d # top => frames'[d] = frames[d]
    BY <1>0, <1>1, LocalFrames, DenialStays
  <2>2. CASE EmitNothing /\ After.terminal = F.terminal
    <3>1. \A d \in 0 .. top : frames'[d].terminal = frames[d].terminal
      BY <2>1, <2>2 DEF After, F
    <3>. QED BY <1>6, <2>1, <2>2, <3>1, SameTerminals DEF EmitNothing
  <2>3. CASE Emit("ask")
    <3>1. denial' = denial /\ firstAsk' = (IF firstAsk = 0 THEN emitted + 1 ELSE firstAsk)
      BY <2>3 DEF Emit
    <3>2. firstAsk' # 0
      BY <1>0, <3>1
    <3>3. NoAskYet'
      BY <3>2 DEF NoAskYet
    <3>4. ASSUME AsksAreKept' PROVE FirstAskHeld'
      <4>1. After.terminal = OrElse(F.terminal, Emission("ask"))
        <5>1. ~EmitNothing /\ ~Emit("deny")
          BY <1>0, <2>1, <2>3, <3>1, EmitType DEF EmitNothing, Emit, Inv
        <5>2. ~LimitAsks
          BY <2>1, <3>4 DEF AsksAreKept, LimitAsks
        <5>. QED BY <1>1, <5>1, <5>2 DEF LocalStep, EmitsHere
      <4>2. CASE firstAsk = 0
        <5>1. \A d \in 0 .. top : frames[d].terminal.kind = "none"
          BY <2>1, <4>2 DEF NoAskYet
        <5>2. frames'[top].terminal = Emission("ask")
          BY <1>0, <4>1, <5>1 DEF OrElse, After, F
        <5>3. frames'[top].terminal.kind # "none" /\ frames'[top].terminal.at = firstAsk'
          BY <3>1, <4>2, <5>2 DEF Emission
        <5>4. \A c \in 0 .. top - 1 : frames'[c].terminal.kind = "none"
          BY <1>0, <2>1, <5>1
        <5>. QED BY <1>0, <2>1, <5>3, <5>4 DEF FirstAskHeld
      <4>3. CASE firstAsk # 0
        <5>1. PICK d \in 0 .. top :
                 /\ frames[d].terminal.kind # "none" /\ frames[d].terminal.at = firstAsk
                 /\ \A c \in 0 .. d - 1 : frames[c].terminal.kind = "none"
          BY <1>6, <2>1, <3>4, <4>3 DEF FirstAskHeld
        <5>2. frames'[d].terminal = frames[d].terminal
          BY <2>1, <4>1, <5>1 DEF OrElse, After, F
        <5>3. \A c \in 0 .. d - 1 : frames'[c].terminal.kind = "none"
          <6>1. \A c \in 0 .. d - 1 : c \in 0 .. top /\ c # top
            BY <1>0
          <6>. QED BY <2>1, <5>1, <6>1
        <5>. QED BY <2>1, <3>1, <4>3, <5>1, <5>2, <5>3 DEF FirstAskHeld
      <4>. QED BY <4>2, <4>3
    <3>5. ~AsksAreKept' => FirstAskHeld'
      BY DEF FirstAskHeld
    <3>. QED BY <3>3, <3>4, <3>5
  <2>4. CASE Emit("deny")
    <3>1. denial' # 0
      BY <2>4, EmitType DEF Inv
    <3>. QED BY <3>1 DEF NoAskYet, FirstAskHeld
  <2>. QED BY <1>1, <2>2, <2>3, <2>4 DEF LocalStep, EmitsHere
<1>2. CASE Push
  <2>1. /\ top' = top + 1 /\ UNCHANGED <<policy, firstAsk, denial>>
        /\ frames'[top + 1].terminal.kind = "none"
        /\ \A d \in 0 .. top : frames'[d].terminal = frames[d].terminal
    <3>1. /\ top' = top + 1 /\ UNCHANGED <<policy, firstAsk, denial>> /\ frames'[top + 1] = NewFrame
          /\ \A d \in Depths : d # top /\ d # top + 1 => frames'[d] = frames[d]
      BY <1>2 DEF Push, history
    <3>2. \A d \in 0 .. top : d # top + 1 /\ d \in Depths
      BY <1>0
    <3>. QED BY <1>2, <3>1, <3>2, PushFields, NewFrameFields DEF After, F
  <2>2. \A d \in 0 .. top + 1 : d \in 0 .. top \/ d = top + 1
    BY <1>0
  <2>3. NoAskYet'
    BY <2>1, <2>2 DEF NoAskYet
  <2>4. FirstAskHeld'
    <3>1. SUFFICES ASSUME AsksAreKept, firstAsk # 0, denial = 0
                   PROVE  \E d \in 0 .. top + 1 :
                             /\ frames'[d].terminal.kind # "none" /\ frames'[d].terminal.at = firstAsk
                             /\ \A c \in 0 .. d - 1 : frames'[c].terminal.kind = "none"
      BY <1>6, <2>1 DEF FirstAskHeld
    <3>2. PICK d \in 0 .. top :
             /\ frames[d].terminal.kind # "none" /\ frames[d].terminal.at = firstAsk
             /\ \A c \in 0 .. d - 1 : frames[c].terminal.kind = "none"
      BY <3>1 DEF FirstAskHeld
    <3>3. d \in 0 .. top + 1
      BY <1>0
    <3>. QED BY <1>0, <2>1, <3>2, <3>3
  <2>. QED BY <2>3, <2>4
<1>3. CASE PopAdopt
  <2>1. /\ top > 0 /\ top' = top - 1 /\ UNCHANGED <<policy, firstAsk, denial>>
        /\ frames'[top - 1].terminal = OrElse(frames[top - 1].terminal, frames[top].terminal)
        /\ \A d \in 0 .. top : d # top /\ d # top - 1 => frames'[d] = frames[d]
    BY <1>0, <1>3, AdoptFields DEF PopAdopt, Pop, F, Outer
  <2>2. \A d \in 0 .. top - 1 : d \in 0 .. top /\ d # top
    BY <1>0
  <2>3. NoAskYet'
    <3>1. SUFFICES ASSUME firstAsk = 0, denial = 0, NEW d \in 0 .. top - 1
                   PROVE  frames'[d].terminal.kind = "none"
      BY <2>1 DEF NoAskYet
    <3>2. \A c \in 0 .. top : frames[c].terminal.kind = "none"
      BY <3>1 DEF NoAskYet
    <3>. QED BY <1>0, <2>1, <2>2, <3>2 DEF OrElse
  <2>4. FirstAskHeld'
    <3>1. SUFFICES ASSUME AsksAreKept, firstAsk # 0, denial = 0
                   PROVE  \E d \in 0 .. top - 1 :
                             /\ frames'[d].terminal.kind # "none" /\ frames'[d].terminal.at = firstAsk
                             /\ \A c \in 0 .. d - 1 : frames'[c].terminal.kind = "none"
      BY <1>6, <2>1 DEF FirstAskHeld
    <3>2. PICK d \in 0 .. top :
             /\ frames[d].terminal.kind # "none" /\ frames[d].terminal.at = firstAsk
             /\ \A c \in 0 .. d - 1 : frames[c].terminal.kind = "none"
      BY <3>1 DEF FirstAskHeld
    <3>3. CASE d = top
      <4>1. frames[top - 1].terminal.kind = "none" /\ top - 1 \in 0 .. top - 1
        BY <1>0, <2>1, <3>2, <3>3
      <4>2. frames'[top - 1].terminal = frames[top].terminal
        BY <2>1, <4>1 DEF OrElse
      <4>3. \A c \in 0 .. top - 1 - 1 : c \in 0 .. top - 1 /\ c \in 0 .. top /\ c # top /\ c # top - 1
        BY <1>0
      <4>. QED BY <2>1, <3>2, <3>3, <4>1, <4>2, <4>3
    <3>4. CASE d # top
      <4>1. d \in 0 .. top - 1 /\ (\A c \in 0 .. d - 1 : c \in 0 .. top /\ c # top /\ c # top - 1)
        BY <1>0, <3>4
      <4>2. frames'[d].terminal = frames[d].terminal
        BY <2>1, <3>2, <3>4 DEF OrElse
      <4>. QED BY <2>1, <3>2, <4>1, <4>2
    <3>. QED BY <3>3, <3>4
  <2>. QED BY <2>3, <2>4
<1>4. CASE PopDeny
  <2>1. denial # 0 /\ denial' = denial
    BY <1>4, TopType DEF PopDeny, Pop, Inv, DenyIsInnermost, F
  <2>. QED BY <2>1 DEF NoAskYet, FirstAskHeld
<1>5. CASE UNCHANGED vars
  BY <1>5, <1>6, SameTerminals DEF vars, history
<1>. QED BY <1>1, <1>2, <1>3, <1>4, <1>5, FourSteps

(* Until it is denied, the script whose parser died is the innermost.      *)
DeadIsDoomed ==
    DeathIsSeen /\ dead /\ denial = 0 => Doomed(F) /\ F.pc # "returned"

LEMMA DeadIsDoomedKept ==
    ASSUME Inv, Inv', Stacked, DeadIsDoomed, [Next]_vars PROVE DeadIsDoomed'
<1>5. DeathIsSeen' => DeathIsSeen
  <2>1. policy' = policy
    BY FourSteps, LocalFrames DEF Push, PopAdopt, PopDeny, Pop, vars
  <2>. QED BY <2>1, PremisesStay
<1>1. CASE LocalStep
  <2>1. F' = After /\ policy' = policy /\ denial = 0
    BY <1>1, LocalFrames, DenialStays DEF F, After
  <2>. QED BY <1>1, <1>5, <2>1 DEF DeadIsDoomed, LocalStep, DiesHere, Doomed
<1>2. CASE Push
  <2>1. F.pc = "calls" /\ F.parse = "ast"
    BY <1>2, SettledHere DEF Push
  <2>. QED BY <1>2, <1>5, <2>1 DEF DeadIsDoomed, Push, history, Doomed
<1>3. CASE PopAdopt \/ PopDeny
  <2>1. F.pc = "returned" /\ UNCHANGED <<policy, denial, dead>>
    BY <1>3 DEF PopAdopt, PopDeny, Pop
  <2>. QED BY <1>5, <2>1 DEF DeadIsDoomed
<1>4. CASE UNCHANGED vars
  BY <1>4, <1>5 DEF vars, history, DeadIsDoomed, Doomed, F
<1>. QED BY <1>1, <1>2, <1>3, <1>4, FourSteps

----------------------------------------------------------------------------
(* The theorems *)

MergeInv == Inv /\ Stacked /\ ErrorsHeld /\ NotesHeld /\ NoAskYet /\ FirstAskHeld /\ DeadIsDoomed

LEMMA MergeInit == Init => MergeInv
<1>. SUFFICES ASSUME Init PROVE MergeInv
  OBVIOUS
<1>1. Inv
  BY InitInv
<1>2. top = 0 /\ (\A d \in Depths : frames[d] = NewFrame) /\ 0 \in Depths
      /\ noted = 0 /\ raised = 0 /\ firstAsk = 0 /\ denial = 0 /\ dead = FALSE
  BY <1>1, DepthFacts DEF Init, Inv
<1>3. Stacked
  <2>1. \A d \in Depths : ~(d < top)
    BY <1>1, <1>2, DepthFacts DEF Inv
  <2>. QED BY <1>2, <2>1, NewFrameFields DEF Stacked
<1>4. ErrorsHeld
  <2>. DEFINE sums == [d \in Depths |-> 0]
  <2>1. sums \in [Depths -> Nat] /\ sums[0] = Errs(frames[0]) /\ sums[top] = raised
    BY <1>2, NewFrameFields
  <2>2. \A d \in Depths \ {0} : ~(d <= top)
    BY <1>1, <1>2, DepthFacts DEF Inv
  <2>. HIDE DEF sums
  <2>. QED BY <2>1, <2>2 DEF ErrorsHeld
<1>5. NotesHeld
  <2>. DEFINE none == UpTo(0)  texts == [d \in Depths |-> none]
  <2>1. none = << >> /\ none \in Seq(Nat)
    BY UpToType
  <2>2. UpTo(noted) = none
    BY <1>2
  <2>. HIDE DEF none
  <2>3. texts \in [Depths -> Seq(Nat)] /\ texts[0] = frames[0].notes /\ texts[top] = UpTo(noted)
    BY <1>2, <2>1, <2>2, NewFrameFields
  <2>4. \A d \in Depths \ {0} : ~(d <= top)
    BY <1>1, <1>2, DepthFacts DEF Inv
  <2>. HIDE DEF texts
  <2>. QED BY <1>2, <2>3, <2>4 DEF NotesHeld
<1>6. NoAskYet /\ FirstAskHeld /\ DeadIsDoomed
  <2>1. \A d \in 0 .. top : d \in Depths
    BY <1>1, TopType DEF Inv
  <2>. QED BY <1>2, <2>1, NewFrameFields DEF NoAskYet, FirstAskHeld, DeadIsDoomed
<1>. QED BY <1>1, <1>3, <1>4, <1>5, <1>6 DEF MergeInv

LEMMA MergeNext == MergeInv /\ [Next]_vars => MergeInv'
BY NextInv, StackedKept, ErrorsHeldKept, NotesHeldKept, FirstAskKept, DeadIsDoomedKept
   DEF MergeInv

(* Errors are never swallowed: however deep the script in which one came   *)
(* up, and whatever is decided, evaluate annotates each exactly once.      *)
THEOREM ErrorsAreKept == Spec => []ErrorsSurvive
<1>1. MergeInv => ErrorsSurvive
  <2>. SUFFICES ASSUME MergeInv, Done PROVE F.errors = raised
    BY DEF ErrorsSurvive
  <2>1. raised = Errs(frames[0]) /\ F = frames[0] /\ F.pc = "returned"
    BY DEF MergeInv, ErrorsHeld, Done, F
  <2>2. F.ctxErrors = 0 /\ F.errors \in Nat
    BY <2>1, SettledHere, FrameFields DEF MergeInv, Inv, Settled
  <2>. QED BY <2>1, <2>2 DEF Errs
<1>. QED BY <1>1, MergeInit, MergeNext, PTL DEF Spec

(* Warnings and notes leave evaluate in the order of their emission, those *)
(* of inner scripts between those of the outer; a deny drops them all.     *)
THEOREM NotesKeepOrder == Spec => []NotesInOrder
<1>1. MergeInv => NotesInOrder
  BY DEF MergeInv, NotesHeld, NotesInOrder, Done, F, UpTo
<1>. QED BY <1>1, MergeInit, MergeNext, PTL DEF Spec

(* The ask put to the user is the first that was emitted, in whatever      *)
(* script, unless the depth limit asks and a script has reached it.        *)
THEOREM FirstAskIsReturned == Spec => []FirstAskWins
<1>1. MergeInv => FirstAskWins
  <2>. SUFFICES ASSUME MergeInv, AsksAreKept, Done, firstAsk # 0, denial = 0
                PROVE  F.terminal.at = firstAsk
    BY DEF FirstAskWins, AsksAreKept
  <2>1. PICK d \in 0 .. top : frames[d].terminal.at = firstAsk
    BY DEF MergeInv, FirstAskHeld
  <2>2. d = top
    BY DEF Done
  <2>. QED BY <2>1, <2>2 DEF F
<1>. QED BY <1>1, MergeInit, MergeNext, PTL DEF Spec

(* A parser or unwrapper that dies under deny-all, in whatever script,     *)
(* denies the command, unless a script has reached the depth limit and the *)
(* limit does not deny.                                                    *)
THEOREM DeadEngineIsDenied == Spec => []DeadEngineDeniesAboveLimit
<1>1. MergeInv => DeadEngineDeniesAboveLimit
  BY DEF MergeInv, DeadIsDoomed, DeathIsSeen, DeadEngineDeniesAboveLimit, DeadEngineDenies, Done
<1>. QED BY <1>1, MergeInit, MergeNext, PTL DEF Spec
============================================================================
