----------------------------- MODULE DurableMap ----------------------------
(***************************************************************************)
(* What the hooks of one session may expect of a persistent StateStore     *)
(* (docs/STATE.md, guarantees 1 and 2): each starts from what the last     *)
(* flush made durable, sees its own mutations at once, and a flush that    *)
(* returns has made them durable together.  One that throws or is cut      *)
(* short may lose the map, but only as a whole.                            *)
(*                                                                         *)
(* Guarantee 3 is not given (docs/decisions/tmpdir-store-decision.md).     *)
(* Hooks that use the map at the same time may find any map at all, one    *)
(* nobody has flushed among them, and leave any map, though their flushes  *)
(* have returned.  It ends when all of them have.                          *)
(***************************************************************************)
CONSTANTS Store, Key, Value, Unset

VARIABLES
    durable,   \* what a new hook starts from
    view,      \* view[s]: what s reads
    using,     \* who uses the map
    loading,   \* those of them that have not read it yet
    shared,    \* whether two have, since nobody did
    told       \* what the flush that ended last has told its caller

AnyMap == [Key -> Value \cup {Unset}]
EmptyMap == [k \in Key |-> Unset]

DInit ==
    /\ durable = EmptyMap
    /\ view = [s \in Store |-> EmptyMap]
    /\ using = {} /\ loading = {} /\ shared = FALSE /\ told = "nothing"

DOpen(s) ==
    /\ s \notin using
    /\ using' = using \cup {s} /\ loading' = loading \cup {s}
    /\ shared' = (using # {})
    /\ UNCHANGED <<durable, view, told>>

DLoad(s) ==
    /\ s \in loading
    /\ loading' = loading \ {s}
    /\ \/ view' = [view EXCEPT ![s] = durable]
       \/ shared /\ \E m \in AnyMap : view' = [view EXCEPT ![s] = m]
    /\ UNCHANGED <<durable, using, shared, told>>

DPut(s, k, v) ==
    /\ s \in using \ loading
    /\ view' = [view EXCEPT ![s][k] = v]
    /\ UNCHANGED <<durable, using, loading, shared, told>>

(* Unless others' flushes have spoilt it, the view of s becomes durable.   *)
DFlush(s) ==
    /\ s \in using \ loading
    /\ \/ durable' = view[s]
       \/ shared /\ durable' \in AnyMap
    /\ told' = "done"
    /\ UNCHANGED <<view, using, loading, shared>>

(* A flush breaks off, having done nothing or lost the map.                *)
Broken ==
    \/ durable' \in {durable, EmptyMap}
    \/ shared /\ durable' \in AnyMap

(* It throws.                                                              *)
DLose(s) ==
    /\ s \in using \ loading
    /\ Broken /\ told' = "failed"
    /\ UNCHANGED <<view, using, loading, shared>>

(* s ends, or dies in a flush.                                             *)
DClose(s) ==
    /\ s \in using
    /\ using' = using \ {s} /\ loading' = loading \ {s}
    /\ shared' = (shared /\ using' # {})
    /\ \/ UNCHANGED <<durable, told>>
       \/ s \notin loading /\ Broken /\ told' = "nothing"
    /\ UNCHANGED view

DNext ==
    \E s \in Store :
        \/ DOpen(s) \/ DLoad(s) \/ DFlush(s) \/ DLose(s) \/ DClose(s)
        \/ \E k \in Key, v \in Value \cup {Unset} : DPut(s, k, v)

DSpec == DInit /\ [][DNext]_<<durable, view, using, loading, shared, told>>
============================================================================
