---------------------------- MODULE StoreProofs ----------------------------
(***************************************************************************)
(* TmpdirStore implements DurableMap, for any number of hooks, keys and    *)
(* values.  What makes it inductive: a hook that has been alone is not     *)
(* disturbed in its reading and writing, and finds the file as its own     *)
(* flush has left it.                                                      *)
(***************************************************************************)
EXTENDS TmpdirStore, TLAPS

AloneUnlessShared == ~shared => \A s, t \in InUse : s = t
AloneIsUndisturbed == ~shared => \A s \in Store : spc[s] \notin {"torn", "clashing"}
AloneFindsEmpty == ~shared /\ Writers # {} => file.st = "empty"

Alone == AloneUnlessShared /\ AloneIsUndisturbed /\ AloneFindsEmpty
Inv == TypeOK /\ Alone

PC == {"new", "reading", "torn", "open", "writing", "clashing", "closed"}
Using == {"reading", "torn", "open", "writing", "clashing"}

LEMMA EmptyIsMap == Empty \in Map
  BY DEF Empty, Map

LEMMA LoadIsMap == \A f \in File : LoadOrEmpty(f) \in Map
  BY EmptyIsMap DEF File, LoadOrEmpty

LEMMA WholeLoads ==
    \A m \in Map : Whole(m) \in File /\ Whole(m).st = "whole" /\ LoadOrEmpty(Whole(m)) = m
  BY DEF Whole, File, LoadOrEmpty

LEMMA BrokenLoadsNothing ==
    \A st \in {"empty", "mixed"} :
        NotWhole(st) \in File /\ NotWhole(st).st = st /\ LoadOrEmpty(NotWhole(st)) = Empty
  BY DEF NotWhole, File, LoadOrEmpty

LEMMA ClashIsFile == Clash \subseteq File
  BY WholeLoads, BrokenLoadsNothing DEF Clash

LEMMA DurableIsMap == ASSUME TypeOK PROVE Durable \in Map
  BY LoadIsMap DEF TypeOK, Durable

LEMMA UsingIsInUse == InUse = {s \in Store : spc[s] \in Using}
  BY DEF InUse, Readers, Writers, Using

(* Who reads and who writes after a step of s that leaves the file alone,  *)
(* and after one that does not.                                            *)
LEMMA GotoMoves ==
    ASSUME TypeOK, NEW s \in Store, NEW pc \in PC, Goto(s, pc)
    PROVE  /\ InUse' = IF pc \in Using THEN InUse \cup {s} ELSE InUse \ {s}
           /\ Readers' = IF pc \in {"reading", "torn"} THEN Readers \cup {s} ELSE Readers \ {s}
           /\ Writers' = IF pc \in {"writing", "clashing"} THEN Writers \cup {s} ELSE Writers \ {s}
           /\ spc' \in [Store -> PC] /\ spc'[s] = pc
           /\ \A t \in Store \ {s} : spc'[t] = spc[t]
<1>1. spc' = [spc EXCEPT ![s] = pc] /\ spc \in [Store -> PC]
  BY DEF Goto, TypeOK, PC
<1>2. spc' \in [Store -> PC] /\ spc'[s] = pc /\ \A t \in Store \ {s} : spc'[t] = spc[t]
  BY <1>1
<1>3. InUse' = {t \in Store : spc'[t] \in Using}
  BY DEF InUse, Readers, Writers, Using
<1>4. InUse' = IF pc \in Using THEN InUse \cup {s} ELSE InUse \ {s}
  BY <1>2, <1>3, UsingIsInUse
<1> QED BY <1>2, <1>4 DEF Readers, Writers

LEMMA DisturbMoves ==
    ASSUME TypeOK, NEW s \in Store, NEW pc \in {"open", "writing", "clashing", "closed"}, Disturb(s, pc)
    PROVE  /\ InUse' = IF pc = "closed" THEN InUse \ {s} ELSE InUse \cup {s}
           /\ Readers' = Readers \ {s}
           /\ Writers' = IF pc \in {"writing", "clashing"} THEN Writers \cup {s} ELSE Writers \ {s}
           /\ spc' \in [Store -> PC] /\ spc'[s] = pc
           /\ \A t \in Store \ {s} : spc'[t] \in {"torn", "clashing"} => t \in InUse
<1>1. spc' = [t \in Store |-> CASE t = s -> pc
                                [] t \in Readers \ {s} -> "torn"
                                [] t \in Writers \ {s} -> "clashing"
                                [] OTHER -> spc[t]]
      /\ spc \in [Store -> PC]
  BY DEF Disturb, TypeOK, PC
<1>2. spc'[s] = pc
  BY <1>1
<1>3. ASSUME NEW t \in Store \ {s}
      PROVE  /\ t \in Readers => spc'[t] = "torn"
             /\ t \in Writers => spc'[t] = "clashing"
             /\ t \notin Readers \cup Writers => spc'[t] = spc[t]
  BY <1>1 DEF Readers, Writers
<1>4. \A t \in Store \ {s} :
          /\ spc'[t] \in {"reading", "torn"} <=> t \in Readers
          /\ spc'[t] \in {"writing", "clashing"} <=> t \in Writers
          /\ spc'[t] = "open" <=> spc[t] = "open"
          /\ spc'[t] \in PC
  BY <1>1, <1>3 DEF Readers, Writers, PC
<1>5. Readers' = Readers \ {s}
  BY <1>2, <1>4 DEF Readers
<1>6. Writers' = IF pc \in {"writing", "clashing"} THEN Writers \cup {s} ELSE Writers \ {s}
  BY <1>2, <1>4 DEF Writers
<1>7. InUse' = IF pc = "closed" THEN InUse \ {s} ELSE InUse \cup {s}
  BY <1>2, <1>4, <1>5, <1>6 DEF InUse
<1>8. spc' \in [Store -> PC]
  <2>1. \A t \in Store : spc'[t] \in PC
    BY <1>2, <1>4 DEF PC
  <2> QED BY <1>1, <2>1
<1>9. \A t \in Store \ {s} : spc'[t] \in {"torn", "clashing"} => t \in InUse
  BY <1>4 DEF InUse
<1> QED BY <1>2, <1>5, <1>6, <1>7, <1>8, <1>9

LEMMA InitInv == Init => Inv
<1> SUFFICES ASSUME Init PROVE Inv
  OBVIOUS
<1>1. TypeOK
  BY EmptyIsMap DEF Init, TypeOK, File, NotWhole
<1>2. InUse = {} /\ Writers = {}
  BY UsingIsInUse DEF Init, Using, Writers
<1>3. Alone
  BY <1>2 DEF Init, Alone, AloneUnlessShared, AloneIsUndisturbed, AloneFindsEmpty
<1> QED BY <1>1, <1>3 DEF Inv

----------------------------------------------------------------------------
(* Each action: its types, then what it does to the file in use.           *)

LEMMA OpenInv == ASSUME Inv, NEW s \in Store, Open(s) PROVE Inv'
<1>1. /\ InUse' = InUse \cup {s} /\ Writers' = Writers \ {s} /\ s \notin Writers
      /\ spc' \in [Store -> PC] /\ spc'[s] = "reading" /\ \A t \in Store \ {s} : spc'[t] = spc[t]
  BY GotoMoves DEF Open, Inv, Writers, PC, Using
<1>2. TypeOK'
  BY <1>1 DEF Open, Inv, TypeOK, PC
<1>3. ASSUME ~shared' PROVE InUse = {} /\ Writers' = {}
  BY <1>1, <1>3 DEF Open, InUse
<1>4. AloneUnlessShared'
  BY <1>1, <1>3 DEF AloneUnlessShared
<1>5. AloneIsUndisturbed'
  <2>1. \A t \in Store : spc[t] \in {"torn", "clashing"} => t \in InUse
    BY UsingIsInUse DEF Using
  <2> QED BY <1>1, <1>3, <2>1 DEF AloneIsUndisturbed
<1> QED BY <1>2, <1>3, <1>4, <1>5 DEF Inv, Alone, AloneFindsEmpty

LEMMA LoadInv == ASSUME Inv, NEW s \in Store, Load(s) PROVE Inv'
<1>1. spc[s] \in {"reading", "torn"} /\ s \in Readers
  BY DEF Load, Readers
<1>2. /\ InUse' = InUse \cup {s} /\ Writers' = Writers \ {s} /\ s \notin Writers /\ s \in InUse
      /\ spc' \in [Store -> PC] /\ spc'[s] = "open" /\ \A t \in Store \ {s} : spc'[t] = spc[t]
  BY <1>1, GotoMoves DEF Load, Inv, Writers, InUse, PC, Using
<1>3. data' \in [Store -> Map]
  <2>1. LoadOrEmpty(file) \in Map
    BY LoadIsMap DEF Inv, TypeOK
  <2> QED BY <2>1 DEF Load, Inv, TypeOK
<1>4. TypeOK'
  BY <1>2, <1>3 DEF Load, Inv, TypeOK, PC
<1> QED BY <1>2, <1>4 DEF Load, Inv, Alone, AloneUnlessShared, AloneIsUndisturbed, AloneFindsEmpty

LEMMA PutInv ==
    ASSUME Inv, NEW s \in Store, NEW k \in Key, NEW v \in Value \cup {Unset},
           Set(s, k, v) \/ (v = Unset /\ Delete(s, k))
    PROVE  Inv'
<1>1. data' = [data EXCEPT ![s][k] = v] /\ UNCHANGED <<file, spc, before, shared, told>>
  BY DEF Set, Delete
<1>2. data' \in [Store -> Map]
  BY <1>1 DEF Inv, TypeOK, Map
<1>3. TypeOK'
  BY <1>1, <1>2 DEF Inv, TypeOK
<1> QED BY <1>1, <1>3
        DEF Inv, Alone, InUse, Readers, Writers, AloneUnlessShared, AloneIsUndisturbed, AloneFindsEmpty

(* A step on the file of one who is alone disturbs nobody.                 *)
LEMMA NobodyDisturbed ==
    ASSUME Inv, NEW s \in InUse, ~shared, NEW pc \in {"open", "writing", "closed"}, Disturb(s, pc)
    PROVE  /\ \A t \in Store : spc'[t] \notin {"torn", "clashing"}
           /\ \A t, u \in InUse' : t = u
           /\ Writers' \subseteq {s} /\ (pc # "writing" => Writers' = {})
<1>1. \A t \in InUse : t = s
  BY DEF Inv, Alone, AloneUnlessShared
<1>2. s \in Store /\ Writers \subseteq {s}
  BY <1>1 DEF InUse, Readers, Writers
<1>3. /\ InUse' \subseteq InUse \cup {s} /\ spc'[s] = pc
      /\ Writers' = IF pc = "writing" THEN Writers \cup {s} ELSE Writers \ {s}
      /\ \A t \in Store \ {s} : spc'[t] \in {"torn", "clashing"} => t \in InUse
  BY <1>2, DisturbMoves DEF Inv
<1> QED BY <1>1, <1>2, <1>3

LEMMA FlushStartsInv == ASSUME Inv, NEW s \in Store, FlushStarts(s) PROVE Inv'
<1> DEFINE pc == IF Writers = {} THEN "writing" ELSE "clashing"
<1>1. s \in InUse /\ Disturb(s, pc) /\ file' = NotWhole("empty") /\ UNCHANGED shared
  BY DEF FlushStarts, InUse
<1>2. TypeOK'
  <2>1. spc' \in [Store -> PC]
    BY <1>1, DisturbMoves DEF Inv
  <2> QED BY <2>1, DurableIsMap, BrokenLoadsNothing DEF FlushStarts, Inv, TypeOK, PC
<1>3. ASSUME ~shared PROVE pc = "writing"
  BY <1>3 DEF FlushStarts, Inv, Alone, AloneUnlessShared, InUse, Writers
<1>4. Alone'
  BY <1>1, <1>3, NobodyDisturbed, BrokenLoadsNothing
     DEF Alone, AloneUnlessShared, AloneIsUndisturbed, AloneFindsEmpty
<1> QED BY <1>2, <1>4 DEF Inv

LEMMA FlushEndsInv == ASSUME Inv, NEW s \in Store, FlushEnds(s) PROVE Inv'
<1>1. s \in InUse /\ Disturb(s, "open") /\ UNCHANGED shared
  BY DEF FlushEnds, InUse, Writers
<1>2. file' \in File
  BY WholeLoads, ClashIsFile DEF FlushEnds, Inv, TypeOK
<1>3. TypeOK'
  <2>1. spc' \in [Store -> PC]
    BY <1>1, DisturbMoves DEF Inv
  <2> QED BY <1>2, <2>1, LoadIsMap DEF FlushEnds, Inv, TypeOK, PC
<1>4. Alone'
  BY <1>1, NobodyDisturbed DEF Alone, AloneUnlessShared, AloneIsUndisturbed, AloneFindsEmpty
<1> QED BY <1>3, <1>4 DEF Inv

LEMMA UnfinishedKeeps ==
    ASSUME Inv, NEW s \in Store, Unfinished(s)
    PROVE  file' \in File /\ before' \in Map /\ s \in Writers /\ s \in InUse
<1>1. file' \in File
  BY BrokenLoadsNothing, ClashIsFile DEF Unfinished, Inv, TypeOK
<1> QED BY <1>1, LoadIsMap DEF Unfinished, Writers, InUse

LEMMA FlushFailsInv == ASSUME Inv, NEW s \in Store, FlushFails(s) PROVE Inv'
<1>1. CASE Unfinished(s) /\ Disturb(s, "open")
  <2>1. TypeOK'
    <3>1. spc' \in [Store -> PC]
      BY <1>1, DisturbMoves DEF Inv
    <3> QED BY <1>1, <3>1, UnfinishedKeeps DEF FlushFails, Inv, TypeOK, PC
  <2>2. Alone'
    BY <1>1, UnfinishedKeeps, NobodyDisturbed
       DEF FlushFails, Alone, AloneUnlessShared, AloneIsUndisturbed, AloneFindsEmpty
  <2> QED BY <2>1, <2>2 DEF Inv
<1>2. CASE UNCHANGED <<file, spc, before>>
  BY <1>2 DEF FlushFails, Inv, TypeOK, Alone, AloneUnlessShared, AloneIsUndisturbed, AloneFindsEmpty,
     InUse, Readers, Writers
<1> QED BY <1>1, <1>2 DEF FlushFails

LEMMA EndInv == ASSUME Inv, NEW s \in Store, End(s) PROVE Inv'
<1>0. s \in InUse /\ shared' = (shared /\ InUse # {s}) /\ data' = data /\ shared' \in BOOLEAN
  BY DEF End, Unfinished, InUse, Writers, Inv, TypeOK
<1>1. /\ InUse' = InUse \ {s} /\ Writers' = Writers \ {s}
      /\ spc' \in [Store -> PC] /\ spc'[s] = "closed"
      /\ \A t \in Store \ {s} : spc'[t] \in {"torn", "clashing"} => t \in InUse'
  <2>1. CASE s \in InUse \ Writers /\ Goto(s, "closed")
    BY <2>1, GotoMoves, UsingIsInUse DEF Inv, PC, Using
  <2>2. CASE Disturb(s, "closed")
    BY <2>2, DisturbMoves DEF Inv
  <2> QED BY <2>1, <2>2 DEF End
<1>2. TypeOK'
  BY <1>0, <1>1, UnfinishedKeeps DEF End, Inv, TypeOK, PC
<1>3. ASSUME ~shared' PROVE InUse' = {}
  BY <1>0, <1>1, <1>3 DEF Inv, Alone, AloneUnlessShared
<1>4. Writers' \subseteq InUse'
  BY DEF InUse
<1> QED BY <1>1, <1>2, <1>3, <1>4 DEF Inv, Alone, AloneUnlessShared, AloneIsUndisturbed, AloneFindsEmpty

LEMMA StepInv == Inv /\ [Next]_vars => Inv'
<1> SUFFICES ASSUME Inv, [Next]_vars PROVE Inv'
  OBVIOUS
<1>1. CASE UNCHANGED vars
  BY <1>1 DEF vars, Inv, Alone, TypeOK, InUse, Readers, Writers,
     AloneUnlessShared, AloneIsUndisturbed, AloneFindsEmpty
<1>2. CASE Next
  BY <1>2, OpenInv, LoadInv, PutInv, FlushStartsInv, FlushEndsInv, FlushFailsInv, EndInv DEF Next
<1> QED BY <1>1, <1>2

LEMMA Invariant == Spec => []Inv
  BY InitInv, StepInv, PTL DEF Spec

(* Types of the file, the maps and the program counters.                   *)
THEOREM StoreTypes == Spec => []TypeOK
  BY Invariant, PTL DEF Inv

----------------------------------------------------------------------------
(* Refinement *)

LEMMA InitMaps == Init => Contract!DInit
  BY UsingIsInUse DEF Init, Contract!DInit, Contract!EmptyMap, Empty, Using, Readers, Writers, Durable,
     LoadOrEmpty, NotWhole

LEMMA SameMaps == Contract!EmptyMap = Empty /\ Contract!AnyMap = Map
  BY DEF Contract!EmptyMap, Contract!AnyMap, Empty, Map

(* A flush that breaks off leaves what was durable, or nothing - unless    *)
(* there was more than one.                                                *)
LEMMA UnfinishedMaps ==
    ASSUME Inv, Inv', NEW s \in Store, Unfinished(s), Writers' = Writers \ {s}
    PROVE  Contract!Broken
<1>1. s \in Writers /\ Durable' \in Map
  BY UnfinishedKeeps, LoadIsMap DEF Inv, TypeOK, Durable
<1>2. CASE shared
  BY <1>1, <1>2, SameMaps DEF Contract!Broken
<1>3. CASE ~shared
  <2>1. file.st = "empty" /\ spc[s] = "writing"
    BY <1>1, <1>3 DEF Inv, Alone, AloneFindsEmpty, AloneIsUndisturbed, Writers
  <2>2. Writers' = {}
    BY <1>1, <1>3 DEF Inv, Alone, AloneUnlessShared, InUse
  <2>3. LoadOrEmpty(file') = Empty
    BY <2>1, BrokenLoadsNothing DEF Unfinished, LoadOrEmpty
  <2> QED BY <2>2, <2>3, SameMaps DEF Durable, Contract!Broken
<1> QED BY <1>2, <1>3 DEF Inv, TypeOK

view == <<Durable, data, InUse, Readers, shared, told>>

LEMMA OpenMaps == ASSUME Inv, NEW s \in Store, Open(s) PROVE Contract!DOpen(s)
<1>1. /\ InUse' = InUse \cup {s} /\ Readers' = Readers \cup {s} /\ Writers' = Writers
      /\ s \notin InUse
  BY GotoMoves, UsingIsInUse DEF Open, Inv, Writers, PC, Using
<1>2. Durable' = Durable
  BY <1>1 DEF Open, Durable
<1> QED BY <1>1, <1>2 DEF Open, Contract!DOpen

LEMMA LoadMaps == ASSUME Inv, NEW s \in Store, Load(s) PROVE Contract!DLoad(s)
<1>1. s \in Readers /\ s \in InUse
  BY DEF Load, Readers, InUse
<1>2. InUse' = InUse /\ Readers' = Readers \ {s} /\ Writers' = Writers
  BY <1>1, GotoMoves DEF Load, Inv, InUse, Readers, Writers, PC, Using
<1>3. Durable' = Durable
  BY <1>2 DEF Load, Durable
<1>4. LoadOrEmpty(file) \in Map
  BY LoadIsMap DEF Inv, TypeOK
<1>5. ASSUME ~shared PROVE data' = [data EXCEPT ![s] = Durable]
  <2>1. spc[s] = "reading"
    BY <1>5 DEF Load, Inv, Alone, AloneIsUndisturbed
  <2>2. Writers = {}
    BY <1>1, <1>5, <2>1 DEF Inv, Alone, AloneUnlessShared, InUse, Writers
  <2> QED BY <2>1, <2>2 DEF Load, Durable
<1>6. \E m \in Map : data' = [data EXCEPT ![s] = m]
  BY <1>4 DEF Load
<1>7. \/ data' = [data EXCEPT ![s] = Durable]
      \/ shared /\ \E m \in Contract!AnyMap : data' = [data EXCEPT ![s] = m]
  BY <1>5, <1>6, SameMaps DEF Inv, TypeOK
<1> QED BY <1>1, <1>2, <1>3, <1>7 DEF Load, Contract!DLoad

LEMMA PutMaps ==
    ASSUME Inv, NEW s \in Store, NEW k \in Key, NEW v \in Value \cup {Unset},
           Set(s, k, v) \/ (v = Unset /\ Delete(s, k))
    PROVE  Contract!DPut(s, k, v)
<1>1. /\ data' = [data EXCEPT ![s][k] = v] /\ UNCHANGED <<file, spc, before, shared, told>>
      /\ s \in InUse \ Readers
  BY DEF Set, Delete, InUse, Readers
<1>2. Durable' = Durable /\ InUse' = InUse /\ Readers' = Readers
  BY <1>1 DEF Durable, Writers, Readers, InUse
<1> QED BY <1>1, <1>2 DEF Contract!DPut

LEMMA FlushStartsMaps == ASSUME Inv, NEW s \in Store, FlushStarts(s) PROVE UNCHANGED view
<1>1. s \in InUse /\ s \notin Readers
  BY DEF FlushStarts, InUse, Readers
<1>2. InUse' = InUse /\ Readers' = Readers /\ Writers' # {}
  BY <1>1, DisturbMoves DEF FlushStarts, Inv
<1>3. Durable' = Durable
  BY <1>2 DEF FlushStarts, Durable
<1> QED BY <1>2, <1>3 DEF FlushStarts, view

LEMMA FlushEndsMaps == ASSUME Inv, Inv', NEW s \in Store, FlushEnds(s) PROVE Contract!DFlush(s)
<1>1. s \in InUse /\ s \notin Readers /\ s \in Writers
  BY DEF FlushEnds, InUse, Readers, Writers
<1>2. InUse' = InUse /\ Readers' = Readers
  BY <1>1, DisturbMoves DEF FlushEnds, Inv
<1>3. CASE shared
  <2>1. Durable' \in Contract!AnyMap
    BY LoadIsMap, SameMaps DEF Inv, TypeOK, Durable
  <2> QED BY <1>1, <1>2, <1>3, <2>1 DEF FlushEnds, Contract!DFlush
<1>4. CASE ~shared
  <2>1. file' = Whole(data[s])
    BY <1>4 DEF FlushEnds, Inv, Alone, AloneIsUndisturbed
  <2>2. Durable' = data[s]
    BY <2>1, WholeLoads DEF FlushEnds, Durable, Inv, TypeOK
  <2> QED BY <1>1, <1>2, <2>2 DEF FlushEnds, Contract!DFlush
<1> QED BY <1>3, <1>4 DEF Inv, TypeOK

LEMMA FlushFailsMaps == ASSUME Inv, Inv', NEW s \in Store, FlushFails(s) PROVE Contract!DLose(s)
<1>1. s \in InUse /\ s \notin Readers
  BY DEF FlushFails, Unfinished, InUse, Readers, Writers
<1>2. CASE Unfinished(s) /\ Disturb(s, "open")
  <2>1. InUse' = InUse /\ Readers' = Readers /\ Writers' = Writers \ {s}
    BY <1>1, <1>2, DisturbMoves DEF Inv
  <2> QED BY <1>1, <1>2, <2>1, UnfinishedMaps DEF FlushFails, Contract!DLose
<1>3. CASE UNCHANGED <<file, spc, before>>
  <2>1. InUse' = InUse /\ Readers' = Readers /\ Durable' = Durable
    BY <1>3 DEF InUse, Readers, Writers, Durable
  <2> QED BY <1>1, <2>1 DEF FlushFails, Contract!DLose, Contract!Broken
<1> QED BY <1>2, <1>3 DEF FlushFails

LEMMA EndMaps == ASSUME Inv, Inv', NEW s \in Store, End(s) PROVE Contract!DClose(s)
<1>1. s \in InUse /\ UNCHANGED data
  BY DEF End, Unfinished, InUse, Writers
<1>2. CASE s \in InUse \ Writers /\ Goto(s, "closed") /\ UNCHANGED <<file, before, told>>
  <2>1. InUse' = InUse \ {s} /\ Readers' = Readers \ {s} /\ Writers' = Writers
    BY <1>2, GotoMoves DEF Inv, PC, Using
  <2>2. Durable' = Durable /\ shared' = (shared /\ InUse' # {})
    BY <1>1, <1>2, <2>1 DEF Durable, End
  <2> QED BY <1>1, <1>2, <2>1, <2>2 DEF Contract!DClose
<1>3. CASE Unfinished(s) /\ Disturb(s, "closed") /\ told' = "nothing"
  <2>1. InUse' = InUse \ {s} /\ Readers' = Readers \ {s} /\ Writers' = Writers \ {s}
    BY <1>3, DisturbMoves DEF Inv
  <2>2. Contract!Broken /\ s \notin Readers
    BY <1>3, <2>1, UnfinishedMaps DEF Unfinished, Readers
  <2>3. shared' = (shared /\ InUse' # {})
    BY <1>1, <2>1 DEF End
  <2> QED BY <1>1, <1>3, <2>1, <2>2, <2>3 DEF Contract!DClose
<1> QED BY <1>2, <1>3 DEF End

(* Every step maps to a step of DurableMap or to none.                     *)
LEMMA StepMaps == Inv /\ Inv' /\ [Next]_vars => [Contract!DNext]_view
<1> SUFFICES ASSUME Inv, Inv', [Next]_vars PROVE Contract!DNext \/ UNCHANGED view
  OBVIOUS
<1>1. CASE UNCHANGED vars
  BY <1>1 DEF vars, view, Durable, Readers, Writers, LoadOrEmpty, InUse
<1>2. CASE Next
  BY <1>2, OpenMaps, LoadMaps, PutMaps, FlushStartsMaps, FlushEndsMaps, FlushFailsMaps, EndMaps
     DEF Next, Contract!DNext
<1> QED BY <1>1, <1>2

(* Hooks that are killed in the middle of a flush, full disks and fresh    *)
(* processes included, the one file is to hooks that follow each other a   *)
(* durable map that is replaced as a whole, or lost as a whole by a flush  *)
(* that has not returned (docs/STATE.md, guarantees 1 and 2).  To hooks    *)
(* that overlap, until all of them have ended, it may be any map.          *)
THEOREM StoreImplements == Spec => ImplementsDurableMap
<1>1. Inv /\ Inv' /\ [Next]_vars => [Contract!DNext]_<<Durable, data, InUse, Readers, shared, told>>
  BY StepMaps DEF view
<1> QED BY InitMaps, Invariant, <1>1, PTL DEF Spec, ImplementsDurableMap, Contract!DSpec
============================================================================
