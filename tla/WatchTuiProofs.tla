--------------------------- MODULE WatchTuiProofs --------------------------
(***************************************************************************)
(* Proofs about WatchTui, for any number of pending files and asks: the    *)
(* index highlights a row, and Enter hits the ask the user picked.         *)
(***************************************************************************)
EXTENDS WatchTui, NatFacts

(* The index is on the list, if there is one.                              *)
IndexOnList == rows # {} => selectedIndex < Cardinality(rows)

(* While the prompt is open and nothing has shifted, the ask picked is the *)
(* one highlighted.                                                        *)
PickIsHighlighted ==
    mode # "list" /\ ~moved /\ picked # NoAsk => SelectedAsk = picked

Inv == TypeOK /\ IndexOnList /\ PickIsHighlighted /\ SteadyPromptsHitTheirAsk

----------------------------------------------------------------------------
(* Counting rows *)

(* Sets of files are finite, with up to as many elements.                  *)
LEMMA FilesAreFinite ==
    ASSUME NEW S \in SUBSET File
    PROVE  IsFiniteSet(S) /\ Cardinality(S) \in 0 .. Files
<1>1. IsFiniteSet(File) /\ Cardinality(File) = Files
    BY FS_Interval, WatchConstants DEF File
<1>2. IsFiniteSet(S) /\ Cardinality(S) <= Cardinality(File) /\ Cardinality(S) \in Nat
    BY <1>1, FS_Subset, FS_CardinalityType
<1>. QED BY <1>1, <1>2, WatchConstants

(* The rows that are listed before f.                                      *)
Above(f) == {g \in rows : Before(g, f)}

LEMMA BeforeIsOrder ==
    ASSUME TypeOK
    PROVE  /\ \A f \in File : ~Before(f, f)
           /\ \A f, g \in File : f # g => Before(f, g) \/ Before(g, f)
           /\ \A f, g, h \in File : Before(f, g) /\ Before(g, h) => Before(f, h)
<1>1. \A f \in File : f \in Nat /\ observedAt[f] \in Nat
    BY WatchConstants DEF TypeOK, File
<1>2. ASSUME NEW f \in File
      PROVE  ~Before(f, f)
    BY <1>1 DEF Before
<1>3. ASSUME NEW f \in File, NEW g \in File, f # g
      PROVE  Before(f, g) \/ Before(g, f)
    BY <1>1, <1>3 DEF Before
<1>4. ASSUME NEW f \in File, NEW g \in File, NEW h \in File, Before(f, g), Before(g, h)
      PROVE  Before(f, h)
    BY <1>1, <1>4 DEF Before
<1>. QED BY <1>2, <1>3, <1>4

(* A row has fewer rows above it than there are, and fewer than a row that *)
(* comes after it.                                                         *)
LEMMA AboveGrows ==
    ASSUME TypeOK, NEW f \in rows
    PROVE  /\ Cardinality(Above(f)) \in Nat /\ Cardinality(Above(f)) < Cardinality(rows)
           /\ \A g \in rows : Before(f, g) => Cardinality(Above(f)) < Cardinality(Above(g))
<1>1. rows \in SUBSET File /\ f \in File
    BY DEF TypeOK
<1>2. f \notin Above(f) /\ Above(f) \in SUBSET rows
    BY <1>1, BeforeIsOrder DEF Above
<1>3. IsFiniteSet(rows) /\ IsFiniteSet(Above(f)) /\ Cardinality(rows) \in Nat /\ Cardinality(Above(f)) \in Nat
    BY <1>1, <1>2, FilesAreFinite
<1>4. Cardinality(Above(f)) < Cardinality(rows)
    BY <1>2, <1>3, FS_Subset
<1>5. ASSUME NEW g \in rows, Before(f, g)
      PROVE  Cardinality(Above(f)) < Cardinality(Above(g))
    <2>1. g \in File /\ Above(g) \in SUBSET File
        BY <1>1 DEF Above
    <2>2. f \in Above(g)
        BY <1>5 DEF Above
    <2>3. Above(f) \in SUBSET Above(g)
        BY <1>1, <1>5, <2>1, BeforeIsOrder DEF Above
    <2>4. IsFiniteSet(Above(g)) /\ Cardinality(Above(g)) \in Nat
        BY <2>1, FilesAreFinite
    <2>. QED BY <1>2, <1>3, <2>2, <2>3, <2>4, FS_Subset
<1>. QED BY <1>3, <1>4, <1>5

(* At most one row is highlighted ...                                      *)
SelectedIsRow ==
    \A f \in Selected : SelectedAsk = AskOf[f] /\ f \in rows /\ AskOf[f] \in Ask

LEMMA SelectedIsOne == TypeOK => SelectedIsRow
<1>. SUFFICES ASSUME TypeOK, NEW f \in Selected
              PROVE  SelectedAsk = AskOf[f] /\ f \in rows /\ AskOf[f] \in Ask
    BY DEF SelectedIsRow
<1>1. \A g \in Selected : g \in rows /\ g \in File /\ Cardinality(Above(g)) = selectedIndex
    BY DEF Selected, Above, TypeOK
<1>2. ASSUME NEW g \in Selected, g # f
      PROVE  FALSE
    <2>1. g \in rows /\ f \in rows /\ Cardinality(Above(g)) = Cardinality(Above(f))
        BY <1>1
    <2>2. Cardinality(Above(g)) \in Nat
        BY <2>1, AboveGrows
    <2>3. ~Before(f, g) /\ ~Before(g, f)
        BY <2>1, <2>2, AboveGrows
    <2>. QED BY <1>1, <1>2, <2>3, BeforeIsOrder
<1>3. (CHOOSE g \in Selected : TRUE) = f
    BY <1>2
<1>. QED BY <1>1, <1>2, <1>3, WatchConstants DEF SelectedAsk

(* ... and each index on the list is one row's: the rows have different    *)
(* numbers of rows above them, so these numbers are all that there are.    *)
LEMMA EveryIndexHasARow ==
    ASSUME TypeOK, NEW i \in Nat, i < Cardinality(rows)
    PROVE  \E f \in rows : Cardinality(Above(f)) = i
<1>. DEFINE n == Cardinality(rows)
            index == [f \in rows |-> Cardinality(Above(f))]
<1>1. n \in Nat /\ IsFiniteSet(rows)
    BY FilesAreFinite DEF TypeOK
<1>2. index \in [rows -> 0 .. n - 1]
    BY <1>1, AboveGrows
<1>3. ASSUME NEW f \in rows, NEW g \in rows, index[f] = index[g]
      PROVE  f = g
    <2>1. f \in File /\ g \in File
        BY DEF TypeOK
    <2>2. Cardinality(Above(f)) = Cardinality(Above(g)) /\ Cardinality(Above(g)) \in Nat
        BY <1>3, AboveGrows
    <2>3. ~Before(f, g) /\ ~Before(g, f)
        BY <2>2, AboveGrows
    <2>. QED BY <2>1, <2>3, BeforeIsOrder
<1>4. index \in Injection(rows, 0 .. n - 1)
    BY <1>2, <1>3 DEF Injection, IsInjective
<1>5. IsFiniteSet(0 .. n - 1) /\ Cardinality(0 .. n - 1) = n
    <2>. HIDE DEF n
    <2>1. 0 \in Int /\ n - 1 \in Int /\ (n = 0 <=> 0 > n - 1)
        BY <1>1
    <2>. QED BY <1>1, <2>1, FS_Interval
<1>6. index \in Surjection(rows, 0 .. n - 1)
    <2>. HIDE DEF index
    <2>. QED BY <1>4, <1>5, FS_Injection
<1>7. \A k \in 0 .. n - 1 : \E f \in rows : index[f] = k
    BY <1>6 DEF Surjection
<1>8. i \in 0 .. n - 1
    BY <1>1
<1>. QED BY <1>7, <1>8

----------------------------------------------------------------------------
(* The list is drawn again *)

(* No row has a stamp later than the latest.                               *)
LEMMA LatestIsLatest ==
    ASSUME TypeOK
    PROVE  Latest \in Nat /\ \A f \in rows : observedAt[f] <= Latest
<1>. DEFINE stamp == [f \in rows |-> observedAt[f]]
            R == {stamp[f] : f \in rows}
            S == {0} \cup R
<1>1. IsFiniteSet(rows) /\ rows \subseteq File
    BY FilesAreFinite DEF TypeOK
<1>2. IsFiniteSet(R)
    <2>1. stamp \in Surjection(rows, R)
        BY DEF Surjection
    <2>. HIDE DEF R, stamp
    <2>. QED BY <1>1, <2>1, FS_Surjection
<1>3. IsFiniteSet(S)
    <2>. HIDE DEF R
    <2>. QED BY <1>2, FS_AddElement
<1>4. S \subseteq Nat /\ 0 \in S /\ \A f \in rows : observedAt[f] \in S
    BY <1>1 DEF TypeOK
<1>5. Latest = Max(S)
    BY DEF Latest
<1>6. Max(S) \in S /\ \A x \in S : x <= Max(S)
    <2>. HIDE DEF S
    <2>. QED BY <1>3, <1>4, MaxOfFinite
<1>. HIDE DEF S
<1>. QED BY <1>4, <1>5, <1>6

(* An ask in the list has a first row, whose stamp it lends.               *)
LEMMA LentIsAStamp ==
    ASSUME TypeOK, NEW a \in AsksIn(rows)
    PROVE  Lent(a) \in Nat
<1>. DEFINE S == {observedAt[f] : f \in {g \in rows : AskOf[g] = a}}
<1>1. S \subseteq Nat /\ S # {}
    BY DEF TypeOK, AsksIn
<1>2. Lent(a) = Min(S)
    BY DEF Lent
<1>. HIDE DEF S
<1>3. \E m \in S : \A k \in S : m <= k
    BY <1>1, LeastNatural
<1>4. Min(S) \in S
    BY <1>3 DEF Min
<1>. QED BY <1>1, <1>2, <1>4

LEMMA StampsType ==
    ASSUME TypeOK, NEW now \in Readings
    PROVE  Stamps(now) \in [File -> Nat]
<1>1. \A f \in Fresh : now[f] \in Nat
    BY LatestIsLatest DEF Readings
<1>2. \A f \in Listed \ Fresh : Lent(AskOf[f]) \in Nat
    BY LentIsAStamp DEF Fresh
<1>. QED BY <1>1, <1>2 DEF Stamps

(* Wherever a handler leaves the index, it ends on the list.               *)
LEMMA ClampedOnList ==
    ASSUME NEW index \in -1 .. Files
    PROVE  /\ Clamped(index) \in -1 .. Files
           /\ Listed # {} => Clamped(index) < Cardinality(Listed)
           /\ index < Cardinality(Listed) => Clamped(index) = index
<1>1. IsFiniteSet(Listed) /\ Cardinality(Listed) \in 0 .. Files
    BY FilesAreFinite DEF Listed
<1>2. Listed # {} => Cardinality(Listed) # 0
    BY <1>1, FS_EmptySet
<1>. QED BY <1>1, <1>2, WatchConstants DEF Clamped

(* What every handler ends with.                                           *)
LEMMA RenderStep ==
    ASSUME TypeOK, NEW index \in -1 .. Files, Render(index)
    PROVE  /\ rows' \subseteq File /\ observedAt' \in [File -> Nat] /\ selectedIndex' \in -1 .. Files
           /\ IndexOnList'
<1>1. Listed \subseteq File
    BY DEF Listed
<1>2. rows' = Listed /\ selectedIndex' = Clamped(index)
    BY DEF Render
<1>4. observedAt' \in [File -> Nat]
    BY StampsType DEF Render
<1>5. IndexOnList'
    BY <1>2, ClampedOnList DEF IndexOnList
<1>. QED BY <1>1, <1>2, <1>4, <1>5, ClampedOnList

(* An index on an unshifted list goes on highlighting the same ask: rows   *)
(* that were there keep their stamps, those that are new have later ones.  *)
LEMMA HighlightStays ==
    ASSUME TypeOK, TypeOK', IndexOnList, Render(selectedIndex), ~Shifts, SelectedAsk # NoAsk
    PROVE  SelectedAsk' = SelectedAsk
<1>1. PICK f \in Selected : TRUE
    BY DEF SelectedAsk
<1>2. /\ SelectedAsk = AskOf[f] /\ AskOf[f] \in Ask /\ f \in rows /\ rows \subseteq File
      /\ selectedIndex \in -1 .. Files
    BY SelectedIsOne DEF TypeOK, SelectedIsRow
<1>3. Cardinality(Above(f)) = selectedIndex
    BY <1>1 DEF Selected, Above
<1>4. /\ rows' = Listed /\ selectedIndex' = Clamped(selectedIndex)
      /\ \E now \in Readings : observedAt' = Stamps(now)
    BY DEF Render
<1>n. PICK now \in Readings : observedAt' = Stamps(now)
    BY <1>4
<1>5. rows \subseteq Listed /\ Listed \subseteq File
    BY DEF Shifts, Listed
<1>t. \A g \in File : observedAt[g] \in Nat /\ observedAt'[g] \in Nat
    BY DEF TypeOK
<1>6. ASSUME NEW g \in rows
      PROVE  observedAt'[g] = observedAt[g]
    <2>1. g \in File /\ g \in Listed /\ g \notin Fresh
        BY <1>2, <1>5 DEF Fresh, AsksIn
    <2>2. observedAt'[g] = Lent(AskOf[g])
        BY <1>n, <2>1 DEF Stamps
    <2>. QED BY <2>2 DEF Shifts
<1>7. ASSUME NEW g \in Listed \ rows
      PROVE  observedAt[f] < observedAt'[g]
    <2>1. g \in File /\ g \in Fresh
        BY <1>5 DEF Shifts, Fresh
    <2>2. observedAt'[g] = now[g] /\ Latest <= now[g]
        BY <1>n, <2>1, LatestIsLatest DEF Stamps, Readings
    <2>3. observedAt'[g] # observedAt[f] /\ observedAt[f] <= Latest
        BY <1>2, <2>1, LatestIsLatest DEF Shifts
    <2>. QED BY <1>2, <1>t, <2>1, <2>2, <2>3, LatestIsLatest
<1>8. Above(f)' = Above(f)
    <2>1. Above(f)' = {g \in Listed : Before(g, f)'}
        BY <1>4 DEF Above
    <2>2. ASSUME NEW g \in rows
          PROVE  Before(g, f)' <=> Before(g, f)
        BY <1>2, <1>6 DEF Before
    <2>3. ASSUME NEW g \in Listed \ rows
          PROVE  ~Before(g, f)'
        <3>1. observedAt'[f] < observedAt'[g]
            BY <1>2, <1>6, <1>7
        <3>2. observedAt'[f] \in Nat /\ observedAt'[g] \in Nat
            BY <1>2, <1>5, <1>t
        <3>. QED BY <3>1, <3>2 DEF Before
    <2>. QED BY <1>5, <2>1, <2>2, <2>3 DEF Above
<1>9. selectedIndex' = selectedIndex
    <2>1. IsFiniteSet(Listed) /\ Cardinality(Listed) \in Nat /\ Cardinality(rows) \in Nat
          /\ Cardinality(rows) <= Cardinality(Listed)
        BY <1>2, <1>5, FilesAreFinite, FS_Subset
    <2>2. selectedIndex < Cardinality(rows)
        BY <1>2 DEF IndexOnList
    <2>3. selectedIndex < Cardinality(Listed)
        BY <1>2, <2>1, <2>2
    <2>. QED BY <1>2, <1>4, <2>3, ClampedOnList
<1>10. f \in Selected'
    BY <1>2, <1>3, <1>4, <1>5, <1>8, <1>9 DEF Selected, Above
<1>11. TypeOK' => SelectedIsRow'
    BY SelectedIsOne, PTL
<1>. QED BY <1>2, <1>10, <1>11 DEF SelectedIsRow

----------------------------------------------------------------------------
(* Types *)

LEMMA SelectedAskType == ASSUME TypeOK PROVE SelectedAsk \in Ask \cup {NoAsk}
BY SelectedIsOne DEF SelectedAsk, SelectedIsRow

(* The index that each of the keys leaves to refreshRows.                  *)
LEMMA KeyIndexType ==
    ASSUME TypeOK
    PROVE  /\ (IF selectedIndex + 1 < Cardinality(rows) THEN selectedIndex + 1
               ELSE Cardinality(rows) - 1) \in -1 .. Files
           /\ (IF selectedIndex > 0 THEN selectedIndex - 1 ELSE 0) \in -1 .. Files
<1>1. Cardinality(rows) \in 0 .. Files /\ selectedIndex \in -1 .. Files
    BY FilesAreFinite DEF TypeOK
<1>. QED BY <1>1, WatchConstants

(* Every handler draws the list again, from an index in range; the spool   *)
(* leaves the list alone.                                                  *)
LEMMA HandlersRender ==
    ASSUME TypeOK, Next
    PROVE  \/ \E index \in -1 .. Files : Render(index) /\ UNCHANGED disk
           \/ UNCHANGED <<tui, history>> /\ \E f \in File : Appear(f) \/ Vanish(f)
<1>1. selectedIndex \in -1 .. Files
    BY DEF TypeOK
<1>2. CASE TimerRender \/ KeyEscape \/ KeyEnter \/ KeyPick
    BY <1>1, <1>2 DEF TimerRender, KeyEscape, KeyEnter, KeyPick
<1>3. CASE KeyDown \/ KeyUp
    BY <1>3, KeyIndexType DEF KeyDown, KeyUp
<1>4. CASE \E f \in File : Appear(f) \/ Vanish(f)
    BY <1>4 DEF Appear, Vanish
<1>. QED BY <1>2, <1>3, <1>4 DEF Next

LEMMA TypeInit == Init => TypeOK
<1>. SUFFICES ASSUME Init PROVE TypeOK
    OBVIOUS
<1>1. disk \in [File -> {"before", "pending", "gone"}] /\ rows \subseteq File /\ observedAt \in [File -> Nat]
    BY DEF Init
<1>2. selectedIndex \in -1 .. Files
    BY WatchConstants DEF Init
<1>3. mode = "list" /\ picked = NoAsk /\ moved = FALSE
    BY DEF Init
<1>4. commit \in Commit
    BY DEF Init, Commit, NoCommit
<1>. QED BY <1>1, <1>2, <1>3, <1>4 DEF TypeOK

(* What is kept about the prompt.                                          *)
PromptTypeOK ==
    /\ mode \in {"list", "prompt"} /\ picked \in Ask \cup {NoAsk}
    /\ moved \in BOOLEAN /\ commit \in Commit

LEMMA PromptType == ASSUME TypeOK, Next PROVE PromptTypeOK'
<1>1. /\ mode \in {"list", "prompt"} /\ picked \in Ask \cup {NoAsk}
      /\ moved \in BOOLEAN /\ commit \in Commit
      /\ NoCommit \in Commit /\ Shifts \in BOOLEAN /\ SelectedAsk \in Ask \cup {NoAsk}
    BY SelectedAskType DEF TypeOK, Commit, NoCommit, Shifts
<1>2. CASE TimerRender \/ KeyDown \/ KeyUp \/ KeyEscape
    BY <1>1, <1>2 DEF TimerRender, KeyDown, KeyUp, KeyEscape, history, PromptTypeOK
<1>3. CASE KeyEnter
    BY <1>1, <1>3 DEF KeyEnter, Commit, PromptTypeOK
<1>4. CASE KeyPick
    BY <1>1, <1>4 DEF KeyPick, PromptTypeOK
<1>5. ASSUME NEW f \in File, Appear(f) \/ Vanish(f)
      PROVE  PromptTypeOK'
    BY <1>1, <1>5 DEF Appear, Vanish, tui, history, PromptTypeOK
<1>. QED BY <1>2, <1>3, <1>4, <1>5 DEF Next

LEMMA TypeStep == ASSUME TypeOK, [Next]_vars PROVE TypeOK'
<1>1. CASE UNCHANGED vars
    BY <1>1 DEF vars, tui, history, TypeOK
<1>2. CASE Next
    <2>1. PromptTypeOK'
        BY <1>2, PromptType
    <2>2. ASSUME NEW index \in -1 .. Files, Render(index), UNCHANGED disk
          PROVE  TypeOK'
        <3>1. rows' \subseteq File /\ observedAt' \in [File -> Nat] /\ selectedIndex' \in -1 .. Files
            BY <2>2, RenderStep
        <3>. QED BY <2>1, <2>2, <3>1 DEF TypeOK, PromptTypeOK
    <2>3. ASSUME UNCHANGED <<tui, history>>, NEW f \in File, Appear(f) \/ Vanish(f)
          PROVE  TypeOK'
        <3>1. disk' \in [File -> {"before", "pending", "gone"}]
            BY <2>3 DEF Appear, Vanish, TypeOK
        <3>. QED BY <2>3, <3>1 DEF tui, history, TypeOK
    <2>. QED BY <1>2, <2>2, <2>3, HandlersRender
<1>. QED BY <1>1, <1>2

----------------------------------------------------------------------------
(* The list and the prompt *)

LEMMA ListStep == ASSUME TypeOK, IndexOnList, [Next]_vars PROVE IndexOnList'
<1>1. CASE UNCHANGED <<rows, observedAt, selectedIndex>>
    BY <1>1 DEF IndexOnList
<1>2. ASSUME NEW index \in -1 .. Files, Render(index)
      PROVE  IndexOnList'
    BY <1>2, RenderStep
<1>3. CASE UNCHANGED vars
    BY <1>1, <1>3 DEF vars, tui
<1>4. CASE Next
    BY <1>1, <1>2, <1>4, HandlersRender DEF tui
<1>. QED BY <1>3, <1>4

(* What Enter is about to hit is what it was to hit.                       *)
LEMMA PromptStep ==
    ASSUME Inv, TypeOK', [Next]_vars
    PROVE  PickIsHighlighted' /\ SteadyPromptsHitTheirAsk'
<1>. USE DEF Inv
<1>a. UNCHANGED <<rows, observedAt, selectedIndex>> => SelectedAsk' = SelectedAsk
    BY DEF SelectedAsk, Selected, Before
<1>1. CASE UNCHANGED <<tui, history>>
    BY <1>1, <1>a DEF tui, history, PickIsHighlighted, SteadyPromptsHitTheirAsk
<1>2. CASE TimerRender
    <2>1. Render(selectedIndex) /\ UNCHANGED <<mode, picked, commit>> /\ moved' = (moved \/ (mode # "list" /\ Shifts))
        BY <1>2 DEF TimerRender
    <2>2. ASSUME mode' # "list", ~moved', picked' # NoAsk
          PROVE  SelectedAsk' = picked'
        <3>1. mode # "list" /\ ~moved /\ ~Shifts /\ picked # NoAsk
            BY <2>1, <2>2
        <3>2. SelectedAsk = picked
            BY <3>1 DEF PickIsHighlighted
        <3>. QED BY <2>1, <3>1, <3>2, HighlightStays
    <2>3. commit.moved \/ commit.picked = NoAsk \/ commit.ask = commit.picked
        BY DEF SteadyPromptsHitTheirAsk
    <2>. QED BY <2>1, <2>2, <2>3 DEF PickIsHighlighted, SteadyPromptsHitTheirAsk
<1>3. CASE KeyDown \/ KeyUp
    BY <1>3 DEF KeyDown, KeyUp, history, PickIsHighlighted, SteadyPromptsHitTheirAsk
<1>4. CASE KeyEscape
    BY <1>4 DEF KeyEscape, PickIsHighlighted, SteadyPromptsHitTheirAsk
<1>5. CASE KeyEnter
    <2>1. mode # "list" /\ mode' = "list" /\ commit' = [ask |-> SelectedAsk, picked |-> picked, moved |-> moved]
        BY <1>5 DEF KeyEnter
    <2>2. moved \/ picked = NoAsk \/ SelectedAsk = picked
        BY <2>1 DEF PickIsHighlighted, TypeOK
    <2>3. commit'.moved = moved /\ commit'.picked = picked /\ commit'.ask = SelectedAsk
        BY <2>1
    <2>. QED BY <2>1, <2>2, <2>3 DEF PickIsHighlighted, SteadyPromptsHitTheirAsk
<1>6. CASE KeyPick
    <2>1. Render(selectedIndex) /\ picked' = SelectedAsk /\ moved' = Shifts /\ commit' = NoCommit
        BY <1>6 DEF KeyPick
    <2>2. ~moved' /\ picked' # NoAsk => SelectedAsk' = picked'
        BY <2>1, HighlightStays
    <2>3. commit'.picked = NoAsk
        BY <2>1 DEF NoCommit
    <2>. QED BY <2>2, <2>3 DEF PickIsHighlighted, SteadyPromptsHitTheirAsk
<1>7. ASSUME NEW f \in File, Appear(f) \/ Vanish(f)
      PROVE  UNCHANGED <<tui, history>>
    BY <1>7 DEF Appear, Vanish
<1>8. CASE UNCHANGED vars
    BY <1>1, <1>8 DEF vars
<1>9. CASE Next
    BY <1>1, <1>2, <1>3, <1>4, <1>5, <1>6, <1>7, <1>9 DEF Next
<1>. QED BY <1>8, <1>9

----------------------------------------------------------------------------
(* Theorems *)

(* The variables of the watch screen have their types: no handler leaves   *)
(* the index below -1 or beyond the files there are.                       *)
THEOREM TypeCorrect == Spec => []TypeOK
<1>. QED BY TypeInit, TypeStep, PTL DEF Spec

(* The types, the order of the listed rows and what an open prompt stands  *)
(* on hold at every step of the watch loop.                                *)
THEOREM InvHolds == Spec => []Inv
<1>1. Init => Inv
    <2>. SUFFICES ASSUME Init PROVE Inv
        OBVIOUS
    <2>1. IndexOnList
        BY DEF Init, IndexOnList
    <2>2. PickIsHighlighted /\ SteadyPromptsHitTheirAsk
        BY DEF Init, PickIsHighlighted, SteadyPromptsHitTheirAsk, NoCommit
    <2>. QED BY <2>1, <2>2, TypeInit DEF Inv
<1>2. Inv /\ [Next]_vars => Inv'
    BY TypeStep, ListStep, PromptStep DEF Inv
<1>. QED BY <1>1, <1>2, PTL DEF Spec

(* Enter hits the ask that the user picked, if the list has not shifted    *)
(* under the prompt, however many asks have arrived at its end.            *)
THEOREM PromptsHitTheirAsk == Spec => []SteadyPromptsHitTheirAsk
<1>1. Inv => SteadyPromptsHitTheirAsk
    BY DEF Inv
<1>. QED BY <1>1, InvHolds, PTL

(* However many rows leave at once, one of those that are left is          *)
(* highlighted, if the index is not -1: "down" on an empty list has put it *)
(* there, and no row is highlighted until a key moves it.                  *)
THEOREM ARowIsHighlighted == Spec => []SomeRowIsHighlighted
<1>1. Inv => SomeRowIsHighlighted
    <2>. SUFFICES ASSUME Inv, rows # {}, selectedIndex >= 0
                  PROVE  Selected # {}
        BY DEF SomeRowIsHighlighted
    <2>1. selectedIndex \in Nat /\ selectedIndex < Cardinality(rows)
        BY DEF Inv, TypeOK, IndexOnList
    <2>2. PICK f \in rows : Cardinality(Above(f)) = selectedIndex
        BY <2>1, EveryIndexHasARow DEF Inv
    <2>. QED BY <2>2 DEF Selected, Above
<1>. QED BY <1>1, InvHolds, PTL
============================================================================
