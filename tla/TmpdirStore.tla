----------------------------- MODULE TmpdirStore ---------------------------
(***************************************************************************)
(* TmpdirStore: a map in memory, loaded from one JSON file by the          *)
(* constructor and written back as a whole by flush.  Each hook is a       *)
(* process, may be killed at any point, and finds what the one before it   *)
(* has left.  One process at a time is the scope the documents give to the *)
(* store; nothing in the code keeps a second one out, so hooks may overlap *)
(* here, and "shared" records that they have.                              *)
(*                                                                         *)
(* writeFileSync truncates the file and then writes it from its start,     *)
(* whatever another process has written there in between; readFileSync     *)
(* reads it in pieces.  So the bytes of two maps may end up in one file or *)
(* in one reading, and may then be JSON of a third.                        *)
(***************************************************************************)
CONSTANTS Store, Key, Value, Unset

ASSUME StoreConstants == Unset \notin Value

VARIABLES
    file,    \* the JSON file
    data,    \* data[s]: the Map of instance s
    spc,     \* spc[s]: where instance s is
    before,  \* history: what was durable before the flushes in progress
    shared,  \* history: two instances were open at once, since none was
    told     \* history: what the flush that ended last has told its caller

vars == <<file, data, spc, before, shared, told>>

Map == [Key -> Value \cup {Unset}]
Empty == [k \in Key |-> Unset]

(* "empty": truncated and not written.  "mixed": cut off, or of two maps,  *)
(* and no JSON object.                                                     *)
File == [st : {"absent", "empty", "mixed"}, map : {Empty}] \cup [st : {"whole"}, map : Map]
NotWhole(st) == [st |-> st, map |-> Empty]
Whole(map) == [st |-> "whole", map |-> map]

(* "torn": the file has changed under the reading.  "clashing": somebody   *)
(* else has had the file open for writing since the instance opened it.    *)
TypeOK ==
    /\ file \in File
    /\ data \in [Store -> Map]
    /\ spc \in [Store -> {"new", "reading", "torn", "open", "writing", "clashing", "closed"}]
    /\ before \in Map
    /\ shared \in BOOLEAN /\ told \in {"nothing", "done", "failed"}

Init ==
    /\ file = NotWhole("absent")
    /\ data = [s \in Store |-> Empty]
    /\ spc = [s \in Store |-> "new"]
    /\ before = Empty
    /\ shared = FALSE /\ told = "nothing"

Readers == {s \in Store : spc[s] \in {"reading", "torn"}}
Writers == {s \in Store : spc[s] \in {"writing", "clashing"}}
InUse == {s \in Store : spc[s] = "open"} \cup Readers \cup Writers

(* s goes on, and leaves the file alone.                                   *)
Goto(s, pc) == spc' = [spc EXCEPT ![s] = pc]

(* s goes on, having done something to the file.                           *)
Disturb(s, pc) ==
    spc' = [t \in Store |-> CASE t = s -> pc
                              [] t \in Readers \ {s} -> "torn"
                              [] t \in Writers \ {s} -> "clashing"
                              [] OTHER -> spc[t]]

(* loadOrEmpty: no file, or one that does not parse, is an empty map.      *)
LoadOrEmpty(f) == IF f.st = "whole" THEN f.map ELSE Empty

(* What is durable: a flush in progress has not happened yet.              *)
Durable == IF Writers = {} THEN LoadOrEmpty(file) ELSE before

(* The constructor begins to read ...                                      *)
Open(s) ==
    /\ spc[s] = "new"
    /\ shared' = (InUse # {})
    /\ Goto(s, "reading")
    /\ UNCHANGED <<file, data, before, told>>

LoadBug(s) ==   \* what a broken file parses to is not looked at
    /\ spc[s] \in {"reading", "torn"}
    /\ data' = [data EXCEPT ![s] = IF file.st = "mixed" THEN [k \in Key |-> file] ELSE LoadOrEmpty(file)]
    /\ Goto(s, "open")
    /\ UNCHANGED <<file, before, shared, told>>

(* ... and has read the file, or pieces of what it was and what it is.     *)
Load(s) ==
    /\ \/ spc[s] = "reading" /\ data' = [data EXCEPT ![s] = LoadOrEmpty(file)]
       \/ spc[s] = "torn" /\ \E m \in Map : data' = [data EXCEPT ![s] = m]
    /\ Goto(s, "open")
    /\ UNCHANGED <<file, before, shared, told>>

Set(s, k, v) ==
    /\ spc[s] = "open"
    /\ data' = [data EXCEPT ![s][k] = v]
    /\ UNCHANGED <<file, spc, before, shared, told>>

Delete(s, k) ==
    /\ spc[s] = "open"
    /\ data' = [data EXCEPT ![s][k] = Unset]
    /\ UNCHANGED <<file, spc, before, shared, told>>

(* flush: open(2) empties the file (or fails and changes nothing) ...      *)
FlushStarts(s) ==
    /\ spc[s] = "open"
    /\ before' = Durable
    /\ file' = NotWhole("empty")
    /\ Disturb(s, IF Writers = {} THEN "writing" ELSE "clashing")
    /\ UNCHANGED <<data, shared, told>>

FlushEndsBug(s) ==   \* writes over what was there, so deletes do not last
    /\ s \in Writers
    /\ file' = Whole([k \in Key |-> IF data[s][k] = Unset THEN before[k] ELSE data[s][k]])
    /\ before' = LoadOrEmpty(file')
    /\ told' = "done"
    /\ Disturb(s, "open")
    /\ UNCHANGED <<data, shared>>

(* What bytes of several writers make of the file: no JSON, or anything.   *)
Clash == {NotWhole("mixed")} \cup {Whole(m) : m \in Map}

(* ... and write(2) fills it with the map of this instance, whatever the   *)
(* file has said before.                                                   *)
FlushEnds(s) ==
    /\ \/ spc[s] = "writing" /\ file' = Whole(data[s])
       \/ spc[s] = "clashing" /\ file' \in Clash
    /\ before' = LoadOrEmpty(file')
    /\ told' = "done"
    /\ Disturb(s, "open")
    /\ UNCHANGED <<data, shared>>

(* What is left by a write that did not happen, or stopped in the middle.  *)
Unfinished(s) ==
    /\ \/ spc[s] = "writing" /\ file' \in {file, NotWhole("mixed")}
       \/ spc[s] = "clashing" /\ file' \in {file} \cup Clash
    /\ before' = LoadOrEmpty(file')

(* The disk is full, or the file was not to be opened: flush throws, the   *)
(* engine notes it and goes on.                                            *)
FlushFails(s) ==
    /\ \/ Unfinished(s) /\ Disturb(s, "open")
       \/ spc[s] = "open" /\ UNCHANGED <<file, spc, before>>
    /\ told' = "failed"
    /\ UNCHANGED <<data, shared>>

(* The hook ends or is killed, reading, between two flushes or in one.     *)
End(s) ==
    /\ \/ s \in InUse \ Writers /\ Goto(s, "closed") /\ UNCHANGED <<file, before, told>>
       \/ Unfinished(s) /\ Disturb(s, "closed") /\ told' = "nothing"
    /\ shared' = (shared /\ InUse # {s})
    /\ UNCHANGED data

Next ==
    \E s \in Store :
        \/ Open(s) \/ Load(s) \/ FlushStarts(s) \/ FlushEnds(s) \/ FlushFails(s) \/ End(s)
        \/ \E k \in Key : Delete(s, k) \/ \E v \in Value : Set(s, k, v)

Spec == Init /\ [][Next]_vars

----------------------------------------------------------------------------
Contract == INSTANCE DurableMap
    WITH durable <- Durable, view <- data, using <- InUse, loading <- Readers

(* Two system calls of a flush, kills and full disks between them, fresh   *)
(* processes that load what they find: hooks that follow each other see a  *)
(* durable map that is replaced as a whole, or lost as a whole by a flush  *)
(* that has not returned, and never gets lost by one that has.  Hooks that *)
(* overlap may find and leave anything, but each has its own updates; and  *)
(* when all of them have ended, what they have left is such a map again.   *)
ImplementsDurableMap == Contract!DSpec
============================================================================
