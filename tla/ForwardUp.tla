------------------------------ MODULE ForwardUp ----------------------------
(***************************************************************************)
(* forwardUp: one hop of "escalate-up".  A listener that does not want to  *)
(* decide an ask has it republished in the parent session's spool; the     *)
(* forwarder waits there and copies the verdict down.  Without a parent it *)
(* answers harness-ask itself.                                             *)
(***************************************************************************)
EXTENDS SpoolFS

CONSTANTS
    TimedForwarder,     \* the runs that were given opts.timeoutMs
    KillableForwarder   \* the runs whose process may die

ASSUME ForwarderConstants ==
    /\ TimedForwarder \subseteq Forwarder
    /\ KillableForwarder \subseteq Forwarder

VARIABLE
    fwd    \* fwd[f]: where run f is, its arguments, its parent, its response

ForwarderPC == {"idle", "read", "lookup", "ensure", "metaOpen", "metaFill", "publish",
                "publishFill", "poll", "take", "copy", "copyFill",
                "done", "missing", "failed", "killed"}

ForwarderTypeOK ==
    /\ fwd \in [Forwarder -> [pc : ForwarderPC,
                              session : Session \cup {None}, id : Id \cup {None},
                              parent : Session \cup {None},
                              resp : Response \cup {NoResponse}]]
    /\ \A f \in Forwarder :
          /\ fwd[f].pc # "idle" => fwd[f].session \in Session /\ fwd[f].id \in Id
          /\ fwd[f].pc \in {"ensure", "metaOpen", "metaFill", "publish", "publishFill",
                            "poll", "take"} => fwd[f].parent \in Session

ForwarderInit ==
    fwd = [f \in Forwarder |-> [pc |-> "idle", session |-> None, id |-> None,
                                parent |-> None, resp |-> NoResponse]]

----------------------------------------------------------------------------
FGoto(f, pc) == fwd' = [fwd EXCEPT ![f].pc = pc]
SourcePending(f) == pending[fwd[f].session][fwd[f].id]
SourceDecidedBug(f) == decided[fwd[f].parent][fwd[f].id]   \* the wrong level
SourceDecided(f) == decided[fwd[f].session][fwd[f].id]
ParentPending(f) == pending[fwd[f].parent][fwd[f].id]
ParentDecided(f) == decided[fwd[f].parent][fwd[f].id]

(* forwardUp(s, i): nothing pending under that name, nothing to do.        *)
ForwardStart(f, s, i) ==
    /\ fwd[f].pc = "idle"
    /\ fwd' = [fwd EXCEPT ![f].session = s, ![f].id = i,
                          ![f].pc = IF Exists(pending[s][i]) THEN "read" ELSE "missing"]
    /\ UNCHANGED spool

(* parseAskRequest(readFileSync(...)) throws when the broker has removed   *)
(* the file since, or has not filled it yet; nobody catches it.            *)
ReadPending(f) ==
    /\ fwd[f].pc = "read"
    /\ FGoto(f, IF Readable(SourcePending(f)) THEN "lookup" ELSE "failed")
    /\ UNCHANGED spool

(* readParentId; no parent: the response is harness-ask and goes straight  *)
(* to the source's decided file.                                           *)
LookupParent(f) ==
    LET p == ReadParentId(fwd[f].session) IN
    /\ fwd[f].pc = "lookup"
    /\ fwd' = IF p = None
              THEN [fwd EXCEPT ![f].pc = "copy", ![f].resp = Answer("harness-ask", f)]
              ELSE [fwd EXCEPT ![f].pc = "ensure", ![f].parent = p]
    /\ UNCHANGED spool

(* ensureSession(parent) without a parentSessionId: a parent that has not  *)
(* asked yet gets a meta.json without a link of its own.                   *)
EnsureParent(f) ==
    /\ fwd[f].pc = "ensure"
    /\ FGoto(f, IF meta[fwd[f].parent].st = "absent" THEN "metaOpen" ELSE "publish")
    /\ UNCHANGED spool

OpenParentMeta(f) ==
    /\ fwd[f].pc = "metaOpen"
    /\ meta' = [meta EXCEPT ![fwd[f].parent] = EmptyMeta]
    /\ FGoto(f, "metaFill")
    /\ UNCHANGED <<pending, decided, marker, alive>>

FillParentMeta(f) ==
    /\ fwd[f].pc = "metaFill"
    /\ \E m \in MetaAfterWrite(meta[fwd[f].parent], None) :
          meta' = [meta EXCEPT ![fwd[f].parent] = m]
    /\ FGoto(f, "publish")
    /\ UNCHANGED <<pending, decided, marker, alive>>

(* writeIfAbsent(parent pending): a copy that is already there serves.     *)
Publish(f) ==
    /\ fwd[f].pc = "publish"
    /\ IF Exists(ParentPending(f))
       THEN FGoto(f, "poll") /\ UNCHANGED pending
       ELSE /\ pending' = [pending EXCEPT ![fwd[f].parent][fwd[f].id] = Created(f)]
            /\ FGoto(f, "publishFill")
    /\ UNCHANGED <<meta, decided, marker, alive>>

FillPublished(f) ==
    /\ fwd[f].pc = "publishFill"
    /\ pending' = [pending EXCEPT ![fwd[f].parent][fwd[f].id] = Fill(@, f, NoResponse)]
    /\ FGoto(f, "poll")
    /\ UNCHANGED <<meta, decided, marker, alive>>

(* The poll loop looks at the parent's decided file and the clock, at      *)
(* nothing else: not at the source's pending file, not at the broker.      *)
ParentHit(f) ==
    /\ fwd[f].pc = "poll" /\ Exists(ParentDecided(f))
    /\ FGoto(f, "take")
    /\ UNCHANGED spool

ForwardTimeoutBug(f) ==   \* a late parent counts as no parent
    /\ fwd[f].pc = "poll" /\ ~Exists(ParentDecided(f)) /\ f \in TimedForwarder
    /\ fwd' = [fwd EXCEPT ![f].pc = "copy", ![f].resp = Answer("harness-ask", f)]
    /\ UNCHANGED spool

ForwardTimeoutOpenBug(f) ==   \* fails open
    /\ fwd[f].pc = "poll" /\ ~Exists(ParentDecided(f)) /\ f \in TimedForwarder
    /\ fwd' = [fwd EXCEPT ![f].pc = "copy", ![f].resp = Answer("allow", f)]
    /\ UNCHANGED spool

ForwardTimeout(f) ==
    /\ fwd[f].pc = "poll" /\ ~Exists(ParentDecided(f)) /\ f \in TimedForwarder
    /\ fwd' = [fwd EXCEPT ![f].pc = "copy", ![f].resp = Answer("deny", f)]
    /\ UNCHANGED spool

(* parseAskResponse throws on a verdict whose bytes are not there yet; the *)
(* source then stays without an answer.                                    *)
TakeVerdict(f) ==
    /\ fwd[f].pc = "take"
    /\ IF Readable(ParentDecided(f))
       THEN fwd' = [fwd EXCEPT ![f].pc = "copy", ![f].resp = ParentDecided(f).resp]
       ELSE FGoto(f, "failed")
    /\ UNCHANGED spool

(* writeIfAbsent(source decided): whoever was there first wins.            *)
CopyDown(f) ==
    /\ fwd[f].pc = "copy"
    /\ IF Exists(SourceDecided(f))
       THEN FGoto(f, "done") /\ UNCHANGED decided
       ELSE /\ decided' = [decided EXCEPT ![fwd[f].session][fwd[f].id] = Created(f)]
            /\ FGoto(f, "copyFill")
    /\ UNCHANGED <<meta, pending, marker, alive>>

FillCopy(f) ==
    /\ fwd[f].pc = "copyFill"
    /\ decided' = [decided EXCEPT ![fwd[f].session][fwd[f].id] = Fill(@, f, fwd[f].resp)]
    /\ FGoto(f, "done")
    /\ UNCHANGED <<meta, pending, marker, alive>>

ForwarderStep(f) ==
    \/ ReadPending(f) \/ LookupParent(f)
    \/ EnsureParent(f) \/ OpenParentMeta(f) \/ FillParentMeta(f)
    \/ Publish(f) \/ FillPublished(f)
    \/ ParentHit(f) \/ ForwardTimeout(f) \/ TakeVerdict(f)
    \/ CopyDown(f) \/ FillCopy(f)

ForwarderKilled(f) ==
    /\ f \in KillableForwarder
    /\ fwd[f].pc \notin {"idle", "done", "missing", "failed", "killed"}
    /\ FGoto(f, "killed")
    /\ UNCHANGED spool
============================================================================
