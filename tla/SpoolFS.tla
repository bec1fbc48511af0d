------------------------------ MODULE SpoolFS ------------------------------
(***************************************************************************)
(* The filesystem spool every escalation process shares:                   *)
(*                                                                         *)
(*   <session>/meta.json          lineage, written by ensureSession        *)
(*   <session>/pending/<id>.json  an ask that waits for a verdict          *)
(*   <session>/decided/<id>.json  its verdict                              *)
(*   <session>/listeners/<pid>.lock   "somebody watches this session"      *)
(*                                                                         *)
(* and the host's process table, which kill(pid, 0) consults.  No process  *)
(* talks to another except through this state.                             *)
(*                                                                         *)
(* writeFileSync is open(2) followed by write(2), so a file that has just  *)
(* been created (or truncated) is visible to others while it is still      *)
(* empty: st = "empty".  Its bytes arrive in a later step of its writer,   *)
(* through the descriptor of the file it opened: when that file has been   *)
(* unlinked meanwhile, or unlinked and created anew by somebody else, the  *)
(* write reaches nothing a reader can see.  `by' stands for the inode.     *)
(***************************************************************************)
EXTENDS Naturals, FiniteSets

CONSTANTS
    Session,      \* session ids: the directories of the spool
    Id,           \* request ids (UUIDs)
    Broker,       \* askpass processes, one per ask (two may carry one id)
    Listener,     \* subscribe / watch processes
    Forwarder,    \* runs of forwardUp
    None,         \* undefined: no parent, no writer
    Envelope,     \* Envelope[i]: the session and the parent in ask i's envelope
    IdOf          \* IdOf[b]: the id of the envelope broker b reads from stdin

Process == Broker \cup Listener \cup Forwarder

ASSUME SpoolConstants ==
    /\ None \notin Session /\ None \notin Process
    /\ Envelope \in [Id -> [session : Session, parent : Session \cup {None}]]
    /\ IdOf \in [Broker -> Id]

ASSUME DistinctProcesses ==
    /\ Broker \cap Listener = {}
    /\ Broker \cap Forwarder = {}
    /\ Listener \cap Forwarder = {}

VARIABLES
    meta,      \* meta[s]: <s>/meta.json
    pending,   \* pending[s][i]: <s>/pending/<i>.json
    decided,   \* decided[s][i]: <s>/decided/<i>.json
    marker,    \* marker[s][l]: <s>/listeners/<pid of l>.lock
    alive      \* the listeners kill(pid, 0) finds

spool == <<meta, pending, decided, marker, alive>>

SourceOf(i) == Envelope[i].session

----------------------------------------------------------------------------
(* Contents *)

Decisions == {"allow", "deny", "harness-ask"}

(* What an AskResponse says and who says it (its `by').                    *)
Response == [decision : Decisions, by : Process]
NoResponse == [decision |-> "none", by |-> None]

Answer(d, p) == [decision |-> d, by |-> p]

(* The envelope in a pending file is determined by its name, so only the   *)
(* decided files carry a `resp'.                                           *)
NoFile == [st |-> "absent", by |-> None, resp |-> NoResponse]
Created(p) == [st |-> "empty", by |-> p, resp |-> NoResponse]
Written(p, r) == [st |-> "full", by |-> p, resp |-> r]

File == {NoFile} \cup {Created(p) : p \in Process}
          \cup {Written(p, r) : p \in Process, r \in Response \cup {NoResponse}}

Exists(file) == file.st # "absent"
Readable(file) == file.st = "full"

(* "garbled": the tail of a longer meta.json sticks out behind a shorter   *)
(* one written over it; JSON.parse refuses it as it refuses an empty file. *)
Meta == [st : {"absent", "empty", "garbled"}, parent : {None}]
          \cup [st : {"full"}, parent : Session \cup {None}]
NoMeta == [st |-> "absent", parent |-> None]
EmptyMeta == [st |-> "empty", parent |-> None]
GarbledMeta == [st |-> "garbled", parent |-> None]
FullMeta(p) == [st |-> "full", parent |-> p]

Marker == {"absent", "empty", "full"}

----------------------------------------------------------------------------
(* Operations *)

(* The second half of writeFileSync(path, data, {flag: "wx"}): the bytes.  *)
Fill(file, p, r) == IF file = Created(p) THEN Written(p, r) ELSE file

(* The bytes of a meta.json written without "wx": both writers truncated   *)
(* the one file and each writes at offset 0.  A parent link makes the text *)
(* longer by more than a pid or a time stamp can; two texts of one shape   *)
(* may differ by a digit of the pid.                                       *)
MetaAfterWrite(old, parent) ==
    CASE old.st = "full" /\ parent # None /\ old.parent = None -> {FullMeta(parent)}
      [] old.st = "full" /\ parent = None /\ old.parent # None -> {GarbledMeta}
      [] old.st = "absent" \/ old.st = "empty"                 -> {FullMeta(parent)}
      [] OTHER                                                 -> {FullMeta(parent), GarbledMeta}

(* readParentId: a missing or malformed meta.json ends the chain.          *)
ReadParentId(s) == IF meta[s].st = "full" THEN meta[s].parent ELSE None

SpoolTypeOK ==
    /\ meta \in [Session -> Meta]
    /\ pending \in [Session -> [Id -> File]]
    /\ decided \in [Session -> [Id -> File]]
    /\ marker \in [Session -> [Listener -> Marker]]
    /\ alive \subseteq Listener

(* lineage: the sessions whose own hooks asked before, and their links.    *)
SpoolInit(lineage) ==
    /\ meta = lineage
    /\ pending = [s \in Session |-> [i \in Id |-> NoFile]]
    /\ decided = [s \in Session |-> [i \in Id |-> NoFile]]
    /\ marker = [s \in Session |-> [l \in Listener |-> "absent"]]
    /\ alive = Listener
============================================================================
