------------------------------- MODULE Broker ------------------------------
(***************************************************************************)
(* brokerAskpass: the process a hook spawns to have an ask decided.        *)
(*                                                                         *)
(* A broker makes its session known (ensureSession), refuses the ask when  *)
(* nobody watches any session of the parent chain, stages the envelope in  *)
(* pending/, polls decided/ until a verdict is there, and removes both     *)
(* files.  Each system call another process can observe is one step.       *)
(***************************************************************************)
EXTENDS SpoolFS

CONSTANTS
    TimedBroker,     \* the brokers that run with opts.timeoutMs
    KillableBroker,  \* the brokers whose hook may be killed while they run
    RmMayFail        \* whether rmSync may fail

ASSUME BrokerConstants ==
    /\ TimedBroker \subseteq Broker
    /\ KillableBroker \subseteq Broker
    /\ RmMayFail \in BOOLEAN

VARIABLES
    bpc,    \* bpc[b]: where broker b is in brokerAskpass
    walk,   \* walk[b]: hasParentListener's `current' and `visited', and
            \* liveListeners' entries still unread, whether a live one was
            \* found, the marker about to be removed and what was read of it
    out     \* out[b]: the response b holds and, once "done", returned

brokerVars == <<bpc, walk, out>>

BrokerPC == {"idle", "ensure", "metaOpen", "metaFill", "scan", "look", "prune",
             "climb", "stage", "stageFill", "poll", "read", "autoDeny", "autoFill",
             "rmPending", "rmDecided", "done", "killed"}

Walk == [current : Session, visited : SUBSET Session, unread : SUBSET Listener,
         live : BOOLEAN, stale : Listener \cup {None}, saw : Marker]

BrokerTypeOK ==
    /\ bpc \in [Broker -> BrokerPC]
    /\ walk \in [Broker -> Walk]
    /\ out \in [Broker -> Response \cup {NoResponse}]

BrokerInit ==
    /\ bpc = [b \in Broker |-> "idle"]
    /\ walk = [b \in Broker |-> [current |-> SourceOf(IdOf[b]), visited |-> {}, unread |-> {},
                                 live |-> FALSE, stale |-> None, saw |-> "absent"]]
    /\ out = [b \in Broker |-> NoResponse]

----------------------------------------------------------------------------
(* The actions.  A definition named ...Bug is the one that follows it with *)
(* a mistake in it: no action uses it, and the property it is paired with  *)
(* in PROJECT.json fails when it takes the place of the right one.         *)
Src(b) == SourceOf(IdOf[b])
Pending(b) == pending[Src(b)][IdOf[b]]
Decided(b) == decided[Src(b)][IdOf[b]]

Goto(b, pc) == bpc' = [bpc EXCEPT ![b] = pc]
SetPending(b, file) == pending' = [pending EXCEPT ![Src(b)][IdOf[b]] = file]
SetDecided(b, file) == decided' = [decided EXCEPT ![Src(b)][IdOf[b]] = file]

(* createAskResponse({decision: "deny"}) by the broker itself.             *)
Deny(b) == out' = [out EXCEPT ![b] = Answer("deny", b)]

(* stdin does not parse, or speaks another protocol version.               *)
RejectStdin(b) ==
    /\ bpc[b] = "idle"
    /\ Deny(b)
    /\ Goto(b, "done")
    /\ UNCHANGED <<spool, walk>>

(* stdin parsed; ensureSession starts (the two mkdirs).                    *)
Accept(b) ==
    /\ bpc[b] = "idle"
    /\ Goto(b, "ensure")
    /\ UNCHANGED <<spool, walk, out>>

(* existsSync(meta.json): an existing one is never touched again.          *)
EnsureSession(b) ==
    /\ bpc[b] = "ensure"
    /\ Goto(b, IF meta[Src(b)].st = "absent" THEN "metaOpen" ELSE "scan")
    /\ UNCHANGED <<spool, walk, out>>

(* writeFileSync(meta.json) without O_EXCL: truncate ...                   *)
OpenMeta(b) ==
    /\ bpc[b] = "metaOpen"
    /\ meta' = [meta EXCEPT ![Src(b)] = EmptyMeta]
    /\ Goto(b, "metaFill")
    /\ UNCHANGED <<pending, decided, marker, alive, walk, out>>

(* ... then write.                                                         *)
FillMeta(b) ==
    /\ bpc[b] = "metaFill"
    /\ \E m \in MetaAfterWrite(meta[Src(b)], Envelope[IdOf[b]].parent) :
          meta' = [meta EXCEPT ![Src(b)] = m]
    /\ Goto(b, "scan")
    /\ UNCHANGED <<pending, decided, marker, alive, walk, out>>

LiveListeners(s) == {l \in Listener : marker[s][l] = "full" /\ l \in alive}

(* The next entry of the directory, or the end of liveListeners.           *)
GoOn(b, w) ==
    /\ walk' = [walk EXCEPT ![b] = w]
    /\ Goto(b, IF w.unread # {} THEN "look" ELSE IF w.live THEN "stage" ELSE "climb")

(* liveListeners: readdirSync.  An entry made later is not in the listing. *)
Scan(b) ==
    LET s == walk[b].current IN
    /\ bpc[b] = "scan"
    /\ GoOn(b, [walk[b] EXCEPT !.visited = @ \cup {s}, !.live = FALSE,
                               !.unread = {l \in Listener : marker[s][l] # "absent"}])
    /\ UNCHANGED <<spool, out>>

(* readFileSync, JSON.parse and isAlive of the next entry.  A marker that  *)
(* is empty, gone, or names a dead process is to be removed.               *)
ReadMarker(b) ==
    LET s == walk[b].current IN
    /\ bpc[b] = "look"
    /\ \E l \in walk[b].unread :
          \/ /\ l \in LiveListeners(s)
             /\ GoOn(b, [walk[b] EXCEPT !.unread = @ \ {l}, !.live = TRUE])
          \/ /\ l \notin LiveListeners(s)
             /\ walk' = [walk EXCEPT ![b].unread = @ \ {l}, ![b].stale = l, ![b].saw = marker[s][l]]
             /\ Goto(b, "prune")
    /\ UNCHANGED <<spool, out>>

(* rmSync(force) removes what is there by now: the marker its listener has *)
(* filled since it was read empty as well.  A failure is only logged.      *)
PruneMarker(b) ==
    /\ bpc[b] = "prune"
    /\ \/ marker' = [marker EXCEPT ![walk[b].current][walk[b].stale] = "absent"]
       \/ RmMayFail /\ UNCHANGED marker
    /\ GoOn(b, [walk[b] EXCEPT !.stale = None, !.saw = "absent"])
    /\ UNCHANGED <<meta, pending, decided, alive, out>>

ClimbBug(b) ==   \* follows an undefined parent
    /\ bpc[b] = "climb"
    /\ walk' = [walk EXCEPT ![b].current = ReadParentId(@)]
    /\ Goto(b, "scan")
    /\ UNCHANGED <<spool, out>>

(* One level up the chain, or NO PARENT ATTACHED.                          *)
Climb(b) ==
    LET p == ReadParentId(walk[b].current) IN
    /\ bpc[b] = "climb"
    /\ \/ /\ p # None /\ p \notin walk[b].visited
          /\ walk' = [walk EXCEPT ![b].current = p]
          /\ Goto(b, "scan")
          /\ UNCHANGED out
       \/ /\ p = None \/ p \in walk[b].visited
          /\ Deny(b)
          /\ Goto(b, "done")
          /\ UNCHANGED walk
    /\ UNCHANGED spool

StageBug(b) ==   \* no O_EXCL
    /\ bpc[b] = "stage"
    /\ SetPending(b, Created(b)) /\ Goto(b, "stageFill")
    /\ UNCHANGED <<meta, decided, marker, alive, walk, out>>

(* atomicWriteIfAbsent(pending): a second broker with this id is refused.  *)
Stage(b) ==
    /\ bpc[b] = "stage"
    /\ IF Exists(Pending(b))
       THEN Deny(b) /\ Goto(b, "done") /\ UNCHANGED pending
       ELSE SetPending(b, Created(b)) /\ Goto(b, "stageFill") /\ UNCHANGED out
    /\ UNCHANGED <<meta, decided, marker, alive, walk>>

FillPending(b) ==
    /\ bpc[b] = "stageFill"
    /\ SetPending(b, Fill(Pending(b), b, NoResponse))
    /\ Goto(b, "poll")
    /\ UNCHANGED <<meta, decided, marker, alive, walk, out>>

(* The poll loop: existsSync finds the decided file ...                    *)
PollHit(b) ==
    /\ bpc[b] = "poll" /\ Exists(Decided(b))
    /\ Goto(b, "read")
    /\ UNCHANGED <<spool, walk, out>>

(* ... or does not, and the opt-in deadline has passed.                    *)
PollTimeout(b) ==
    /\ bpc[b] = "poll" /\ ~Exists(Decided(b)) /\ b \in TimedBroker
    /\ Goto(b, "autoDeny")
    /\ UNCHANGED <<spool, walk, out>>

ReadDecidedBug(b) ==   \* takes what it finds without parsing it
    /\ bpc[b] = "read"
    /\ out' = [out EXCEPT ![b] = Decided(b).resp] /\ Goto(b, "rmPending")
    /\ UNCHANGED <<spool, walk>>

ReadDecidedRetryBug(b) ==   \* throws a malformed verdict away and polls again
    /\ bpc[b] = "read"
    /\ IF Readable(Decided(b))
       THEN out' = [out EXCEPT ![b] = Decided(b).resp] /\ Goto(b, "rmPending") /\ UNCHANGED decided
       ELSE UNCHANGED out /\ Goto(b, "poll") /\ SetDecided(b, NoFile)
    /\ UNCHANGED <<meta, pending, marker, alive, walk>>

(* readFileSync and parseAskResponse: an empty or vanished file breaks     *)
(* into the auto-deny.                                                     *)
ReadDecided(b) ==
    /\ bpc[b] = "read"
    /\ IF Readable(Decided(b))
       THEN out' = [out EXCEPT ![b] = Decided(b).resp] /\ Goto(b, "rmPending")
       ELSE UNCHANGED out /\ Goto(b, "autoDeny")
    /\ UNCHANGED <<spool, walk>>

AutoDenyBug(b) ==   \* no O_EXCL
    /\ bpc[b] = "autoDeny"
    /\ Deny(b)
    /\ SetDecided(b, Created(b)) /\ Goto(b, "autoFill")
    /\ UNCHANGED <<meta, pending, marker, alive, walk>>

(* atomicWriteIfAbsent(decided, autoDeny): its result is not looked at.    *)
AutoDeny(b) ==
    /\ bpc[b] = "autoDeny"
    /\ Deny(b)
    /\ IF Exists(Decided(b))
       THEN Goto(b, "rmPending") /\ UNCHANGED decided
       ELSE SetDecided(b, Created(b)) /\ Goto(b, "autoFill")
    /\ UNCHANGED <<meta, pending, marker, alive, walk>>

FillAutoDenyBug(b) ==   \* returns without cleaning up
    /\ bpc[b] = "autoFill"
    /\ SetDecided(b, Fill(Decided(b), b, out[b]))
    /\ Goto(b, "done")
    /\ UNCHANGED <<meta, pending, marker, alive, walk, out>>

FillAutoDeny(b) ==
    /\ bpc[b] = "autoFill"
    /\ SetDecided(b, Fill(Decided(b), b, out[b]))
    /\ Goto(b, "rmPending")
    /\ UNCHANGED <<meta, pending, marker, alive, walk, out>>

RemovePending(b) ==
    /\ bpc[b] = "rmPending"
    /\ SetPending(b, NoFile)
    /\ Goto(b, "rmDecided")
    /\ UNCHANGED <<meta, decided, marker, alive, walk, out>>

RemoveDecided(b) ==
    /\ bpc[b] = "rmDecided"
    /\ SetDecided(b, NoFile)
    /\ Goto(b, "done")
    /\ UNCHANGED <<meta, pending, marker, alive, walk, out>>

(* Either rmSync throws: one catch for both, logged, the answer returned.  *)
RemoveFails(b) ==
    /\ RmMayFail
    /\ bpc[b] \in {"rmPending", "rmDecided"}
    /\ Goto(b, "done")
    /\ UNCHANGED <<spool, walk, out>>

BrokerStep(b) ==
    \/ Accept(b) \/ EnsureSession(b) \/ OpenMeta(b) \/ FillMeta(b)
    \/ Scan(b) \/ ReadMarker(b) \/ PruneMarker(b) \/ Climb(b) \/ Stage(b) \/ FillPending(b)
    \/ PollHit(b) \/ PollTimeout(b) \/ ReadDecided(b)
    \/ AutoDeny(b) \/ FillAutoDeny(b)
    \/ RemovePending(b) \/ RemoveDecided(b) \/ RemoveFails(b)

(* The harness's hook timeout kills the hook and its askpass child.        *)
BrokerKilled(b) ==
    /\ b \in KillableBroker
    /\ bpc[b] \notin {"idle", "done", "killed"}
    /\ Goto(b, "killed")
    /\ UNCHANGED <<spool, walk, out>>

BrokerNext(b) == RejectStdin(b) \/ BrokerStep(b) \/ BrokerKilled(b)

(* b has staged its ask and has not yet taken the verdict's file away.     *)
Waiting(b) == bpc[b] \in {"stageFill", "poll", "read"}
============================================================================
