-------------------------- MODULE EscalationProofs -------------------------
(***************************************************************************)
(* Proofs about Escalation, for any number of sessions, asks and processes.*)
(***************************************************************************)
EXTENDS Escalation, TLAPS

----------------------------------------------------------------------------
(* Files *)

(* What the file operations produce is a file, and what a file holds is a  *)
(* response.                                                               *)
LEMMA FileTypes ==
    ASSUME NEW p \in Process, NEW r \in Response \cup {NoResponse}, NEW file \in File
    PROVE  /\ NoFile \in File /\ Created(p) \in File /\ Written(p, r) \in File
           /\ Fill(file, p, r) \in File
           /\ file.resp \in Response \cup {NoResponse}
<1>1. NoFile \in File /\ Created(p) \in File /\ Written(p, r) \in File
    BY DEF File
<1>2. Fill(file, p, r) \in File
    BY <1>1 DEF Fill
<1>3. file.resp \in Response \cup {NoResponse}
    BY DEF File, NoFile, Created, Written
<1>4. QED
    BY <1>1, <1>2, <1>3

(* Every outcome of a raced meta.json write is a meta.json.                *)
LEMMA MetaTypes ==
    ASSUME NEW old \in Meta, NEW p \in Session \cup {None}, NEW m \in MetaAfterWrite(old, p)
    PROVE  m \in Meta
BY DEF MetaAfterWrite, Meta, FullMeta, GarbledMeta

LEMMA MetaValues == EmptyMeta \in Meta /\ NoMeta \in Meta /\ \A p \in Session \cup {None} : FullMeta(p) \in Meta
BY DEF Meta, EmptyMeta, NoMeta, FullMeta

(* readParentId returns a session or undefined.                            *)
LEMMA ParentType ==
    ASSUME meta \in [Session -> Meta], NEW s \in Session
    PROVE  ReadParentId(s) \in Session \cup {None}
BY DEF ReadParentId, Meta

(* The responses processes make up themselves.                             *)
LEMMA AnswerTypes ==
    ASSUME NEW p \in Process, NEW d \in Decisions
    PROVE  Answer(d, p) \in Response
BY DEF Answer, Response

LEMMA Processes ==
    /\ \A b \in Broker : b \in Process /\ b \notin Listener /\ b \notin Forwarder
    /\ \A l \in Listener : l \in Process /\ l \notin Broker /\ l \notin Forwarder
    /\ \A f \in Forwarder : f \in Process /\ f \notin Broker /\ f \notin Listener
BY DistinctProcesses DEF Process

LEMMA Sources == \A b \in Broker : IdOf[b] \in Id /\ Src(b) \in Session
BY SpoolConstants DEF Src, SourceOf

----------------------------------------------------------------------------
(* Type correctness *)

LEMMA TypeInit == Init => TypeOK
<1> SUFFICES ASSUME Init PROVE TypeOK
    OBVIOUS
<1>1. SpoolTypeOK
    <2>1. NoFile \in File
        BY DEF File
    <2>2. \A s \in Session : Lineage[s] \in Meta
        BY LineageConstants, MetaValues
    <2>3. QED
        BY <2>1, <2>2, LineageConstants DEF Init, SpoolInit, SpoolTypeOK, Marker
<1>2. BrokerTypeOK
    BY Sources, SpoolConstants DEF Init, BrokerInit, BrokerTypeOK, BrokerPC, Src, Walk, Marker
<1>3. ListenerTypeOK
    BY ListenerConstants DEF Init, ListenerInit, ListenerTypeOK, NoTarget
<1>4. ForwarderTypeOK
    BY DEF Init, ForwarderInit, ForwarderTypeOK, ForwarderPC
<1>5. QED
    BY <1>1, <1>2, <1>3, <1>4 DEF TypeOK

(* The steps of liveListeners touch nothing but markers.                   *)
LEMMA ScanSteps ==
    ASSUME NEW b \in Broker, Scan(b) \/ ReadMarker(b) \/ PruneMarker(b)
    PROVE  /\ \E pc \in {"look", "prune", "stage", "climb"} : Goto(b, pc)
           /\ bpc[b] \in {"scan", "look", "prune"}
           /\ UNCHANGED <<meta, pending, decided, alive, out>>
<1>1. CASE Scan(b)
    BY <1>1, Zenon DEF Scan, GoOn, spool
<1>2. CASE ReadMarker(b)
    BY <1>2, Zenon DEF ReadMarker, GoOn, spool
<1>3. CASE PruneMarker(b)
    BY <1>3, Zenon DEF PruneMarker, GoOn
<1>. QED
    BY <1>1, <1>2, <1>3

LEMMA BrokerStepType ==
    ASSUME TypeOK, NEW b \in Broker, BrokerNext(b)
    PROVE  SpoolTypeOK' /\ BrokerTypeOK'
<1> USE DEF TypeOK
<1>a. b \in Process /\ IdOf[b] \in Id /\ Src(b) \in Session
    BY Processes, Sources
<1>b. Answer("deny", b) \in Response
    BY <1>a, AnswerTypes DEF Decisions
<1>c. \A s \in Session, i \in Id :
          pending[s][i] \in File /\ decided[s][i] \in File
    BY DEF SpoolTypeOK
<1>d. /\ NoFile \in File /\ Created(b) \in File
      /\ Pending(b) \in File /\ Decided(b) \in File
    BY <1>a, <1>c, FileTypes DEF Pending, Decided
<1>1. CASE RejectStdin(b) \/ Accept(b) \/ EnsureSession(b) \/ PollHit(b) \/ PollTimeout(b)
           \/ RemoveFails(b) \/ BrokerKilled(b)
    BY <1>1, <1>b DEF RejectStdin, Accept, EnsureSession, PollHit, PollTimeout, RemoveFails,
         BrokerKilled, Deny, Goto, spool, SpoolTypeOK, BrokerTypeOK, BrokerPC
<1>2. CASE OpenMeta(b)
    BY <1>2, <1>a, MetaValues DEF OpenMeta, Goto, SpoolTypeOK, BrokerTypeOK, BrokerPC
<1>3. CASE FillMeta(b)
    <2>1. Envelope[IdOf[b]].parent \in Session \cup {None}
        BY <1>a, SpoolConstants
    <2>2. meta[Src(b)] \in Meta
        BY <1>a DEF SpoolTypeOK
    <2>3. QED
        BY <1>3, <1>a, <2>1, <2>2, MetaTypes DEF FillMeta, Goto, SpoolTypeOK, BrokerTypeOK, BrokerPC
<1>w. walk \in [Broker -> Walk] /\ walk[b] \in Walk /\ bpc \in [Broker -> BrokerPC]
    BY DEF BrokerTypeOK
<1>4. CASE Scan(b)
    <2> DEFINE w == [walk[b] EXCEPT !.visited = @ \cup {walk[b].current}, !.live = FALSE,
                        !.unread = {l \in Listener : marker[walk[b].current][l] # "absent"}]
    <2>1. w \in Walk
        BY <1>w DEF Walk
    <2>2. GoOn(b, w) /\ UNCHANGED <<spool, out>>
        BY <1>4, Zenon DEF Scan
    <2> HIDE DEF w
    <2>3. QED
        BY <1>w, <2>1, <2>2 DEF GoOn, Goto, spool, SpoolTypeOK, BrokerTypeOK, BrokerPC
<1>r. CASE ReadMarker(b)
    <2>1. PICK l \in walk[b].unread :
              \/ GoOn(b, [walk[b] EXCEPT !.unread = @ \ {l}, !.live = TRUE])
              \/ /\ walk' = [walk EXCEPT ![b].unread = @ \ {l}, ![b].stale = l,
                                        ![b].saw = marker[walk[b].current][l]]
                 /\ Goto(b, "prune")
        BY <1>r, Zenon DEF ReadMarker
    <2>2. UNCHANGED <<spool, out>>
        BY <1>r DEF ReadMarker
    <2>3. CASE GoOn(b, [walk[b] EXCEPT !.unread = @ \ {l}, !.live = TRUE])
        <3> DEFINE w == [walk[b] EXCEPT !.unread = @ \ {l}, !.live = TRUE]
        <3>1. w \in Walk
            BY <1>w DEF Walk
        <3>2. GoOn(b, w)
            BY <2>3
        <3> HIDE DEF w
        <3>3. QED
            BY <1>w, <2>2, <3>1, <3>2 DEF GoOn, Goto, spool, SpoolTypeOK, BrokerTypeOK, BrokerPC
    <2>4. CASE /\ walk' = [walk EXCEPT ![b].unread = @ \ {l}, ![b].stale = l,
                                     ![b].saw = marker[walk[b].current][l]]
               /\ Goto(b, "prune")
        <3>1. l \in Listener /\ marker[walk[b].current][l] \in Marker
            BY <1>w DEF Walk, SpoolTypeOK
        <3>2. walk' \in [Broker -> Walk]
            BY <1>w, <2>4, <3>1 DEF Walk
        <3>3. QED
            BY <1>w, <2>2, <2>4, <3>2 DEF Goto, spool, SpoolTypeOK, BrokerTypeOK, BrokerPC
    <2>5. QED
        BY <2>1, <2>3, <2>4
<1>p. CASE PruneMarker(b)
    <2> DEFINE w == [walk[b] EXCEPT !.stale = None, !.saw = "absent"]
    <2>1. w \in Walk
        BY <1>w DEF Walk, Marker
    <2>2. GoOn(b, w) /\ UNCHANGED <<meta, pending, decided, alive, out>>
        BY <1>p, Zenon DEF PruneMarker
    <2>3. marker' \in [Session -> [Listener -> Marker]]
        <3>1. marker \in [Session -> [Listener -> Marker]] /\ walk[b].current \in Session /\ "absent" \in Marker
            BY <1>w DEF SpoolTypeOK, Walk, Marker
        <3>2. \/ UNCHANGED marker
              \/ marker' = [marker EXCEPT ![walk[b].current][walk[b].stale] = "absent"]
            BY <1>p, Zenon DEF PruneMarker
        <3>. QED BY <3>1, <3>2
    <2> HIDE DEF w
    <2>4. QED
        BY <1>w, <2>1, <2>2, <2>3 DEF GoOn, Goto, SpoolTypeOK, BrokerTypeOK, BrokerPC
<1>5. CASE Climb(b)
    <2> DEFINE p == ReadParentId(walk[b].current)
    <2>1. walk[b].current \in Session
        BY DEF BrokerTypeOK, Walk
    <2>2. p \in Session \cup {None}
        BY <2>1, ParentType DEF SpoolTypeOK
    <2>3. CASE p # None /\ p \notin walk[b].visited
        <3>1. walk' = [walk EXCEPT ![b].current = p] /\ UNCHANGED <<spool, out>> /\ Goto(b, "scan")
            BY <1>5, <2>3 DEF Climb
        <3>2. p \in Session
            BY <2>2, <2>3
        <3> HIDE DEF p
        <3>3. QED
            BY <3>1, <3>2 DEF Goto, spool, SpoolTypeOK, BrokerTypeOK, BrokerPC, Walk
    <2>4. CASE ~(p # None /\ p \notin walk[b].visited)
        <3>1. Deny(b) /\ UNCHANGED <<spool, walk>> /\ Goto(b, "done")
            BY <1>5, <2>4 DEF Climb
        <3>2. QED
            BY <3>1, <1>b DEF Deny, Goto, spool, SpoolTypeOK, BrokerTypeOK, BrokerPC
    <2>5. QED
        BY <2>3, <2>4
<1>6. CASE Stage(b)
    <2>1. CASE Exists(Pending(b))
        <3>1. Deny(b) /\ Goto(b, "done") /\ UNCHANGED <<spool, walk>>
            BY <1>6, <2>1 DEF Stage, spool
        <3>2. QED
            BY <3>1, <1>b DEF Deny, Goto, spool, SpoolTypeOK, BrokerTypeOK, BrokerPC
    <2>2. CASE ~Exists(Pending(b))
        <3>1. /\ SetPending(b, Created(b)) /\ Goto(b, "stageFill")
              /\ UNCHANGED <<meta, decided, marker, alive, walk, out>>
            BY <1>6, <2>2 DEF Stage
        <3>2. QED
            BY <3>1, <1>a, <1>d DEF SetPending, Goto, SpoolTypeOK, BrokerTypeOK, BrokerPC
    <2>3. QED
        BY <2>1, <2>2
<1>7. CASE FillPending(b)
    <2>1. Fill(Pending(b), b, NoResponse) \in File
        BY <1>a, <1>d, FileTypes
    <2>2. QED
        BY <1>7, <1>a, <2>1 DEF FillPending, SetPending, Goto, SpoolTypeOK, BrokerTypeOK, BrokerPC
<1>8. CASE ReadDecided(b)
    <2>1. Decided(b).resp \in Response \cup {NoResponse}
        BY <1>a, <1>d, FileTypes
    <2>2. CASE Readable(Decided(b))
        BY <1>8, <2>1, <2>2 DEF ReadDecided, Goto, spool, SpoolTypeOK, BrokerTypeOK, BrokerPC
    <2>3. CASE ~Readable(Decided(b))
        BY <1>8, <2>3 DEF ReadDecided, Goto, spool, SpoolTypeOK, BrokerTypeOK, BrokerPC
    <2>4. QED
        BY <2>2, <2>3
<1>9. CASE AutoDeny(b)
    <2>1. CASE Exists(Decided(b))
        <3>1. Deny(b) /\ Goto(b, "rmPending") /\ UNCHANGED <<spool, walk>>
            BY <1>9, <2>1 DEF AutoDeny, spool
        <3>2. QED
            BY <3>1, <1>b DEF Deny, Goto, spool, SpoolTypeOK, BrokerTypeOK, BrokerPC
    <2>2. CASE ~Exists(Decided(b))
        <3>1. /\ Deny(b) /\ SetDecided(b, Created(b)) /\ Goto(b, "autoFill")
              /\ UNCHANGED <<meta, pending, marker, alive, walk>>
            BY <1>9, <2>2 DEF AutoDeny
        <3>2. QED
            BY <3>1, <1>a, <1>b, <1>d DEF Deny, SetDecided, Goto, SpoolTypeOK, BrokerTypeOK, BrokerPC
    <2>3. QED
        BY <2>1, <2>2
<1>10. CASE FillAutoDeny(b)
    <2>1. out[b] \in Response \cup {NoResponse}
        BY DEF BrokerTypeOK
    <2>2. Fill(Decided(b), b, out[b]) \in File
        BY <1>a, <1>d, <2>1, FileTypes
    <2>3. QED
        BY <1>10, <1>a, <2>2 DEF FillAutoDeny, SetDecided, Goto, SpoolTypeOK, BrokerTypeOK, BrokerPC
<1>11. CASE RemovePending(b)
    BY <1>11, <1>a, <1>d DEF RemovePending, SetPending, Goto, SpoolTypeOK, BrokerTypeOK, BrokerPC
<1>12. CASE RemoveDecided(b)
    BY <1>12, <1>a, <1>d DEF RemoveDecided, SetDecided, Goto, SpoolTypeOK, BrokerTypeOK, BrokerPC
<1>13. QED
    BY <1>1, <1>2, <1>3, <1>4, <1>r, <1>p, <1>5, <1>6, <1>7, <1>8, <1>9, <1>10, <1>11, <1>12
       DEF BrokerNext, BrokerStep

LEMMA ListenerStepType ==
    ASSUME TypeOK, NEW l \in Listener, ListenerNext(l)
    PROVE  SpoolTypeOK' /\ ListenerTypeOK'
<1> USE DEF TypeOK
<1>a. l \in Process
    BY Processes
<1>b. \A s \in Session, i \in Id : decided[s][i] \in File
    BY DEF SpoolTypeOK
<1>1. ASSUME NEW s \in Session, OpenMarker(l, s)
      PROVE  SpoolTypeOK' /\ ListenerTypeOK'
    BY <1>1 DEF OpenMarker, Running, SpoolTypeOK, ListenerTypeOK, Marker, NoTarget
<1>2. CASE FillMarker(l)
    <2>1. at[l].session \in Session
        BY <1>2 DEF FillMarker, ListenerTypeOK
    <2>2. SpoolTypeOK'
        BY <1>2, <2>1 DEF FillMarker, SpoolTypeOK, Marker
    <2>3. ListenerTypeOK'
        BY <1>2, <2>1 DEF FillMarker, ListenerTypeOK
    <2>4. QED
        BY <2>2, <2>3
<1>3. ASSUME NEW s \in Session, NEW i \in Id, ListPending(l, s, i)
      PROVE  SpoolTypeOK' /\ ListenerTypeOK'
    <2>1. [session |-> s, id |-> i] \in Row
        BY DEF Row
    <2>2. QED
        BY <1>3, <2>1 DEF ListPending, spool, SpoolTypeOK, ListenerTypeOK
<1>4. ASSUME NEW row \in rows[l], NEW s \in Session, NEW d \in UserDecisions,
             SubmitDecision(l, row, s, d)
      PROVE  SpoolTypeOK' /\ ListenerTypeOK'
    <2>1. row.id \in Id
        BY DEF ListenerTypeOK, Row
    <2>2. [session |-> s, id |-> row.id, decision |-> d] \in Target /\ Created(l) \in File
        BY <1>a, <2>1, FileTypes DEF Target, File
    <2>3. submits' \in [Listener -> [Id -> 0 .. MaxSubmits]]
        <3>1. submits[l][row.id] \in 0 .. MaxSubmits /\ submits[l][row.id] < MaxSubmits
            BY <1>4, <2>1 DEF SubmitDecision, ListenerTypeOK
        <3>2. submits[l][row.id] + 1 \in 0 .. MaxSubmits
            BY <3>1, ListenerConstants
        <3>3. QED
            BY <1>4, <2>1, <3>2 DEF SubmitDecision, ListenerTypeOK
    <2>4. CASE Exists(decided[s][row.id])
        BY <1>4, <2>3, <2>4 DEF SubmitDecision, SpoolTypeOK, ListenerTypeOK
    <2>5. CASE ~Exists(decided[s][row.id])
        <3> DEFINE a == [session |-> s, id |-> row.id, decision |-> d]
        <3>1. /\ decided' = [decided EXCEPT ![s][row.id] = Created(l)]
              /\ lpc' = [lpc EXCEPT ![l] = "submit"]
              /\ at' = [at EXCEPT ![l] = a]
              /\ UNCHANGED <<meta, pending, marker, alive, registered, rows, told>>
            BY <1>4, <2>5 DEF SubmitDecision
        <3>2. a \in Target /\ a \in [session : Session \cup {None}, id : Id \cup {None},
                                     decision : Decisions \cup {"none"}]
            BY <2>2 DEF Target, UserDecisions, Decisions
        <3>3. SpoolTypeOK'
            BY <3>1, <2>1, <2>2 DEF SpoolTypeOK
        <3> HIDE DEF a
        <3>4. ListenerTypeOK'
            BY <3>1, <3>2, <2>3 DEF ListenerTypeOK
        <3>5. QED
            BY <3>3, <3>4
    <2>6. QED
        BY <2>4, <2>5
<1>5. CASE FillDecision(l)
    <2> DEFINE a == at[l]
               v == [by |-> l, session |-> a.session, id |-> a.id, decision |-> a.decision]
    <2>1. a.session \in Session /\ a.id \in Id /\ a.decision \in UserDecisions
        BY <1>5 DEF FillDecision, ListenerTypeOK, Target
    <2>a. a.decision \in Decisions
        BY <2>1 DEF UserDecisions, Decisions
    <2>2. v \in Verdict
        BY <2>1 DEF Verdict
    <2>3. Fill(decided[a.session][a.id], l, Answer(a.decision, l)) \in File
        BY <1>a, <1>b, <2>1, <2>a, AnswerTypes, FileTypes
    <2>4. SpoolTypeOK'
        BY <1>5, <2>1, <2>3 DEF FillDecision, SpoolTypeOK
    <2>5. ListenerTypeOK'
        BY <1>5, <2>2 DEF FillDecision, ListenerTypeOK
    <2>6. QED
        BY <2>4, <2>5
<1>6. CASE ListenerExit(l) \/ ListenerCrash(l)
    <2>1. ListenerTypeOK'
        BY <1>6 DEF ListenerExit, ListenerCrash, listenerVars, ListenerTypeOK
    <2>2. marker' \in [Session -> [Listener -> Marker]]
        <3>1. \A s \in Session :
                  [marker[s] EXCEPT ![l] = IF s \in registered[l] THEN "absent" ELSE @]
                      \in [Listener -> Marker]
            BY DEF SpoolTypeOK, Marker
        <3>2. CASE ListenerExit(l)
            BY <3>1, <3>2 DEF ListenerExit
        <3>3. CASE ListenerCrash(l)
            BY <3>3 DEF ListenerCrash, SpoolTypeOK
        <3>4. QED
            BY <1>6, <3>2, <3>3
    <2>3. SpoolTypeOK'
        BY <1>6, <2>2 DEF ListenerExit, ListenerCrash, SpoolTypeOK
    <2>4. QED
        BY <2>1, <2>3
<1>7. QED
    BY <1>1, <1>2, <1>3, <1>4, <1>5, <1>6 DEF ListenerNext, ListenerPoll, SubmitFor

(* A step that leaves the files alone keeps their types.                   *)
LEMMA SpoolKept == ASSUME SpoolTypeOK, UNCHANGED spool PROVE SpoolTypeOK'
BY DEF spool, SpoolTypeOK

(* Moving a run to its next position keeps the types when the position     *)
(* asks for nothing the run has not got.                                   *)
LEMMA ForwarderMoves ==
    ASSUME ForwarderTypeOK, NEW f \in Forwarder, NEW pc \in ForwarderPC, FGoto(f, pc),
           fwd[f].pc # "idle",
           pc \in {"ensure", "metaOpen", "metaFill", "publish", "publishFill", "poll", "take"}
              => fwd[f].parent \in Session
    PROVE  ForwarderTypeOK'
<1> DEFINE R == [pc : ForwarderPC, session : Session \cup {None}, id : Id \cup {None},
                 parent : Session \cup {None}, resp : Response \cup {NoResponse}]
<1>1. fwd \in [Forwarder -> R]
    BY DEF ForwarderTypeOK
<1>2. fwd' = [fwd EXCEPT ![f].pc = pc]
    BY DEF FGoto
<1>3. fwd' \in [Forwarder -> R]
    <2>1. [fwd[f] EXCEPT !.pc = pc] \in R
        BY <1>1
    <2> HIDE DEF R
    <2>2. QED
        BY <1>1, <1>2, <2>1
<1>4. ASSUME NEW g \in Forwarder
      PROVE  /\ fwd'[g].pc = (IF g = f THEN pc ELSE fwd[g].pc)
             /\ fwd'[g].session = fwd[g].session /\ fwd'[g].id = fwd[g].id
             /\ fwd'[g].parent = fwd[g].parent
    BY <1>1, <1>2
<1>5. QED
    BY <1>3, <1>4 DEF ForwarderTypeOK

(* So does giving it a response to copy down.                              *)
LEMMA ForwarderAnswers ==
    ASSUME ForwarderTypeOK, NEW f \in Forwarder, NEW r \in Response \cup {NoResponse},
           fwd' = [fwd EXCEPT ![f].pc = "copy", ![f].resp = r], fwd[f].pc # "idle"
    PROVE  ForwarderTypeOK'
<1> DEFINE R == [pc : ForwarderPC, session : Session \cup {None}, id : Id \cup {None},
                 parent : Session \cup {None}, resp : Response \cup {NoResponse}]
<1>1. fwd \in [Forwarder -> R]
    BY DEF ForwarderTypeOK
<1>2. fwd' \in [Forwarder -> R]
    <2>1. [fwd[f] EXCEPT !.pc = "copy", !.resp = r] \in R
        BY <1>1 DEF ForwarderPC
    <2>2. fwd' = [fwd EXCEPT ![f] = [fwd[f] EXCEPT !.pc = "copy", !.resp = r]]
        BY <1>1
    <2> HIDE DEF R
    <2>3. QED
        BY <1>1, <2>1, <2>2
<1>3. ASSUME NEW g \in Forwarder
      PROVE  /\ fwd'[g].pc = (IF g = f THEN "copy" ELSE fwd[g].pc)
             /\ fwd'[g].session = fwd[g].session /\ fwd'[g].id = fwd[g].id
             /\ fwd'[g].parent = fwd[g].parent
    BY <1>1
<1>4. QED
    BY <1>2, <1>3 DEF ForwarderTypeOK

(* So does learning the parent to ask next.                                *)
LEMMA ForwarderFindsParent ==
    ASSUME ForwarderTypeOK, NEW f \in Forwarder, NEW p \in Session, fwd[f].pc = "lookup",
           fwd' = [fwd EXCEPT ![f].pc = "ensure", ![f].parent = p]
    PROVE  ForwarderTypeOK'
<1> DEFINE R == [pc : ForwarderPC, session : Session \cup {None}, id : Id \cup {None},
                 parent : Session \cup {None}, resp : Response \cup {NoResponse}]
<1>1. fwd \in [Forwarder -> R]
    BY DEF ForwarderTypeOK
<1>2. fwd' \in [Forwarder -> R]
    <2>1. [fwd[f] EXCEPT !.pc = "ensure", !.parent = p] \in R
        BY <1>1 DEF ForwarderPC
    <2>2. fwd' = [fwd EXCEPT ![f] = [fwd[f] EXCEPT !.pc = "ensure", !.parent = p]]
        BY <1>1
    <2> HIDE DEF R
    <2>3. QED
        BY <1>1, <2>1, <2>2
<1>3. ASSUME NEW g \in Forwarder
      PROVE  /\ fwd'[g].session = fwd[g].session /\ fwd'[g].id = fwd[g].id
             /\ IF g = f THEN fwd'[g].parent = p
                ELSE fwd'[g].pc = fwd[g].pc /\ fwd'[g].parent = fwd[g].parent
    BY <1>1
<1>4. QED
    BY <1>2, <1>3 DEF ForwarderTypeOK

LEMMA ForwarderStepType ==
    ASSUME TypeOK, NEW f \in Forwarder, ForwarderStep(f) \/ ForwarderKilled(f)
    PROVE  SpoolTypeOK' /\ ForwarderTypeOK'
<1> USE DEF TypeOK
<1>a. f \in Process
    BY Processes
<1>b. \A s \in Session, i \in Id : decided[s][i] \in File /\ pending[s][i] \in File
    BY DEF SpoolTypeOK
<1>c. /\ fwd[f].resp \in Response \cup {NoResponse}
      /\ fwd[f].pc # "idle" => fwd[f].session \in Session /\ fwd[f].id \in Id
      /\ fwd[f].pc \in {"ensure", "metaOpen", "metaFill", "publish", "publishFill", "poll", "take"}
            => fwd[f].parent \in Session
    BY DEF ForwarderTypeOK
<1>d. Created(f) \in File
    BY <1>a DEF File
<1>e. \A d \in Decisions : Answer(d, f) \in Response
    BY <1>a, AnswerTypes
<1>1. CASE ReadPending(f) \/ EnsureParent(f) \/ ParentHit(f) \/ ForwarderKilled(f)
    <2>1. PICK pc \in ForwarderPC \ {"idle"} :
              /\ FGoto(f, pc) /\ UNCHANGED spool /\ fwd[f].pc # "idle"
              /\ pc \in {"metaOpen", "publish", "take"} => fwd[f].parent \in Session
              /\ pc \notin {"ensure", "metaFill", "publishFill", "poll"}
        BY <1>1, <1>c DEF ReadPending, EnsureParent, ParentHit, ForwarderKilled, ForwarderPC
    <2>2. QED
        BY <2>1, SpoolKept, ForwarderMoves
<1>2. CASE LookupParent(f)
    <2> DEFINE p == ReadParentId(fwd[f].session)
    <2>1. p \in Session \cup {None} /\ fwd[f].pc = "lookup" /\ SpoolTypeOK'
        BY <1>2, <1>c, ParentType, SpoolKept DEF LookupParent, SpoolTypeOK
    <2>2. CASE p = None
        BY <1>2, <2>1, <2>2, <1>e, ForwarderAnswers DEF LookupParent, Decisions
    <2>3. CASE p # None
        <3>1. fwd' = [fwd EXCEPT ![f].pc = "ensure", ![f].parent = p]
            BY <1>2, <2>3 DEF LookupParent
        <3>2. p \in Session
            BY <2>1, <2>3
        <3> HIDE DEF p
        <3>3. QED
            BY <3>1, <3>2, <2>1, ForwarderFindsParent
    <2>4. QED
        BY <2>2, <2>3
<1>3. CASE OpenParentMeta(f)
    <2>1. fwd[f].parent \in Session
        BY <1>3, <1>c DEF OpenParentMeta
    <2>2. SpoolTypeOK'
        BY <1>3, <2>1, MetaValues DEF OpenParentMeta, SpoolTypeOK
    <2>3. ForwarderTypeOK'
        BY <1>3, <2>1, ForwarderMoves DEF OpenParentMeta, ForwarderPC
    <2>4. QED
        BY <2>2, <2>3
<1>4. CASE FillParentMeta(f)
    <2>1. fwd[f].parent \in Session
        BY <1>4, <1>c DEF FillParentMeta
    <2>2. PICK m \in MetaAfterWrite(meta[fwd[f].parent], None) : meta' = [meta EXCEPT ![fwd[f].parent] = m]
        BY <1>4 DEF FillParentMeta
    <2>3. m \in Meta
        BY <2>1, <2>2, MetaTypes DEF SpoolTypeOK
    <2>4. SpoolTypeOK'
        BY <1>4, <2>1, <2>2, <2>3 DEF FillParentMeta, SpoolTypeOK
    <2>5. ForwarderTypeOK'
        BY <1>4, <2>1, ForwarderMoves DEF FillParentMeta, ForwarderPC
    <2>6. QED
        BY <2>4, <2>5
<1>5. CASE Publish(f)
    <2>1. ForwarderTypeOK'
        <3>1. PICK pc \in {"poll", "publishFill"} : FGoto(f, pc)
            BY <1>5 DEF Publish
        <3>2. QED
            BY <1>5, <3>1, <1>c, ForwarderMoves DEF Publish, ForwarderPC
    <2>2. SpoolTypeOK'
        <3>1. fwd[f].parent \in Session /\ fwd[f].id \in Id
            BY <1>5, <1>c DEF Publish
        <3>2. pending' \in [Session -> [Id -> File]]
            <4>1. CASE Exists(ParentPending(f))
                BY <1>5, <4>1 DEF Publish, SpoolTypeOK
            <4>2. CASE ~Exists(ParentPending(f))
                <5>1. pending' = [pending EXCEPT ![fwd[f].parent][fwd[f].id] = Created(f)]
                    BY <1>5, <4>2 DEF Publish
                <5>2. QED
                    BY <5>1, <3>1, <1>d DEF SpoolTypeOK
            <4>3. QED
                BY <4>1, <4>2
        <3>3. QED
            BY <1>5, <3>2 DEF Publish, SpoolTypeOK
    <2>3. QED
        BY <2>1, <2>2
<1>6. CASE FillPublished(f)
    <2>1. Fill(pending[fwd[f].parent][fwd[f].id], f, NoResponse) \in File
        BY <1>6, <1>a, <1>b, <1>c, FileTypes DEF FillPublished
    <2>2. SpoolTypeOK'
        BY <1>6, <1>c, <2>1 DEF FillPublished, SpoolTypeOK
    <2>3. ForwarderTypeOK'
        BY <1>6, <1>c, ForwarderMoves DEF FillPublished, ForwarderPC
    <2>4. QED
        BY <2>2, <2>3
<1>7. CASE ForwardTimeout(f)
    BY <1>7, <1>e, SpoolKept, ForwarderAnswers DEF ForwardTimeout, Decisions
<1>8. CASE TakeVerdict(f)
    <2>1. ParentDecided(f).resp \in Response \cup {NoResponse}
        BY <1>8, <1>a, <1>b, <1>c, FileTypes DEF TakeVerdict, ParentDecided
    <2>2. SpoolTypeOK'
        BY <1>8, SpoolKept DEF TakeVerdict
    <2>3. ForwarderTypeOK'
        BY <1>8, <2>1, ForwarderAnswers, ForwarderMoves DEF TakeVerdict, ForwarderPC
    <2>4. QED
        BY <2>2, <2>3
<1>9. CASE CopyDown(f)
    <2>1. ForwarderTypeOK'
        <3>1. PICK pc \in {"done", "copyFill"} : FGoto(f, pc)
            BY <1>9 DEF CopyDown
        <3>2. QED
            BY <1>9, <3>1, ForwarderMoves DEF CopyDown, ForwarderPC
    <2>2. SpoolTypeOK'
        <3>1. fwd[f].session \in Session /\ fwd[f].id \in Id
            BY <1>9, <1>c DEF CopyDown
        <3>2. decided' \in [Session -> [Id -> File]]
            <4>1. CASE Exists(SourceDecided(f))
                BY <1>9, <4>1 DEF CopyDown, SpoolTypeOK
            <4>2. CASE ~Exists(SourceDecided(f))
                <5>1. decided' = [decided EXCEPT ![fwd[f].session][fwd[f].id] = Created(f)]
                    BY <1>9, <4>2 DEF CopyDown
                <5>2. QED
                    BY <5>1, <3>1, <1>d DEF SpoolTypeOK
            <4>3. QED
                BY <4>1, <4>2
        <3>3. QED
            BY <1>9, <3>2 DEF CopyDown, SpoolTypeOK
    <2>3. QED
        BY <2>1, <2>2
<1>10. CASE FillCopy(f)
    <2>1. Fill(decided[fwd[f].session][fwd[f].id], f, fwd[f].resp) \in File
        BY <1>10, <1>a, <1>b, <1>c, FileTypes DEF FillCopy
    <2>2. SpoolTypeOK'
        BY <1>10, <1>c, <2>1 DEF FillCopy, SpoolTypeOK
    <2>3. ForwarderTypeOK'
        BY <1>10, ForwarderMoves DEF FillCopy, ForwarderPC
    <2>4. QED
        BY <2>2, <2>3
<1>11. QED
    BY <1>1, <1>2, <1>3, <1>4, <1>5, <1>6, <1>7, <1>8, <1>9, <1>10 DEF ForwarderStep

LEMMA EscalateUpType ==
    ASSUME TypeOK, NEW l \in Listener, NEW f \in Forwarder, NEW row \in rows[l], NEW s \in Session,
           EscalateUp(l, f, row, s)
    PROVE  SpoolTypeOK' /\ ForwarderTypeOK'
<1>1. row.id \in Id
    BY DEF TypeOK, ListenerTypeOK, Row
<1>2. SpoolTypeOK'
    BY DEF TypeOK, EscalateUp, ForwardStart, spool, SpoolTypeOK
<1>3. ForwarderTypeOK'
    BY <1>1 DEF TypeOK, EscalateUp, ForwardStart, ForwarderTypeOK, ForwarderPC
<1>4. QED
    BY <1>2, <1>3

(* Every variable keeps its type: no process walks to a session that is    *)
(* undefined, writes a file for one, or holds half a response.             *)
THEOREM TypeCorrect == Spec => []TypeOK
<1>1. TypeOK /\ [Next]_vars => TypeOK'
    <2> SUFFICES ASSUME TypeOK, [Next]_vars PROVE TypeOK'
        OBVIOUS
    <2>1. ASSUME NEW b \in Broker, BrokerNext(b), UNCHANGED <<listenerVars, fwd>> PROVE TypeOK'
        <3>1. SpoolTypeOK' /\ BrokerTypeOK'
            BY <2>1, BrokerStepType
        <3>2. ListenerTypeOK' /\ ForwarderTypeOK'
            BY <2>1 DEF TypeOK, listenerVars, ListenerTypeOK, ForwarderTypeOK
        <3>3. QED
            BY <3>1, <3>2 DEF TypeOK
    <2>2. ASSUME NEW l \in Listener, ListenerNext(l), UNCHANGED <<brokerVars, fwd>> PROVE TypeOK'
        <3>1. SpoolTypeOK' /\ ListenerTypeOK'
            BY <2>2, ListenerStepType
        <3>2. BrokerTypeOK' /\ ForwarderTypeOK'
            BY <2>2 DEF TypeOK, brokerVars, BrokerTypeOK, ForwarderTypeOK
        <3>3. QED
            BY <3>1, <3>2 DEF TypeOK
    <2>3. ASSUME SpoolTypeOK', ForwarderTypeOK', UNCHANGED <<brokerVars, listenerVars>> PROVE TypeOK'
        BY <2>3 DEF TypeOK, brokerVars, listenerVars, BrokerTypeOK, ListenerTypeOK
    <2>4. CASE UNCHANGED vars
        BY <2>4 DEF vars, spool, brokerVars, listenerVars, TypeOK, SpoolTypeOK, BrokerTypeOK,
             ListenerTypeOK, ForwarderTypeOK
    <2>5. QED
        BY <2>1, <2>2, <2>3, <2>4, ForwarderStepType, EscalateUpType DEF Next
<1>2. QED
    BY TypeInit, <1>1, PTL DEF Spec

----------------------------------------------------------------------------
(***************************************************************************)
(* Safety theorems about Escalation: who holds an ask, what happens to a   *)
(* verdict file, which verdict is taken, what becomes of the prompts,      *)
(* where an answer comes from, who is seen to listen, and that all of it   *)
(* implements AskChannel.                                                  *)
(***************************************************************************)

----------------------------------------------------------------------------
(* One broker per ask.                                                     *)

(* From the O_EXCL create until the removal, the file is b's own inode.    *)
Holding(b) == bpc[b] \in {"stageFill", "poll", "read", "autoDeny", "autoFill", "rmPending"}

HeldPending ==
    \A b \in Broker : Holding(b) => Exists(Pending(b)) /\ Pending(b).by = b

(* A late write of bytes never moves a file to another owner.              *)
LEMMA FillKeepsOwner ==
    ASSUME NEW p, NEW r, NEW file
    PROVE  /\ Exists(file) /\ file.by # p => Fill(file, p, r) = file
           /\ Exists(file) => Exists(Fill(file, p, r)) /\ Fill(file, p, r).by = file.by
           /\ Readable(file) => Fill(file, p, r) = file
           /\ Fill(file, p, r) # file => file = Created(p) /\ Fill(file, p, r) = Written(p, r)
BY DEF Fill, Created, Written, Exists, Readable

LEMMA HeldPendingStep == TypeOK /\ HeldPending /\ [Next]_vars => HeldPending'
<1> SUFFICES ASSUME TypeOK, HeldPending, [Next]_vars, NEW c \in Broker, Holding(c)'
             PROVE  (Exists(Pending(c)) /\ Pending(c).by = c)'
    BY DEF HeldPending
<1>a. /\ IdOf[c] \in Id /\ Src(c) \in Session /\ c \in Process /\ c \notin Forwarder
      /\ pending \in [Session -> [Id -> File]] /\ bpc \in [Broker -> BrokerPC]
    BY Sources, Processes DEF TypeOK, SpoolTypeOK, BrokerTypeOK
<1>b. Holding(c) => Exists(Pending(c)) /\ Pending(c).by = c
    BY DEF HeldPending
<1>c. UNCHANGED <<bpc, pending>> => (Exists(Pending(c)) /\ Pending(c).by = c)'
    BY <1>b DEF Holding, Pending
<1>1. ASSUME NEW b \in Broker, BrokerNext(b)
      PROVE  (Exists(Pending(c)) /\ Pending(c).by = c)'
    <2>a. IdOf[b] \in Id /\ Src(b) \in Session
        BY Sources
    <2>1. CASE Stage(b)
        <3>1. CASE Exists(Pending(b))
            BY <1>a, <1>b, <2>1, <3>1 DEF Stage, Goto, Holding, Pending
        <3>2. CASE ~Exists(Pending(b)) /\ b = c
            <4>1. pending' = [pending EXCEPT ![Src(c)][IdOf[c]] = Created(c)]
                BY <2>1, <3>2 DEF Stage, SetPending
            <4>2. Pending(c)' = Created(c)
                BY <1>a, <4>1 DEF Pending
            <4>3. QED
                BY <4>2 DEF Created, Exists
        <3>3. CASE ~Exists(Pending(b)) /\ b # c
            <4>1. pending' = [pending EXCEPT ![Src(b)][IdOf[b]] = Created(b)] /\ Holding(c)
                BY <1>a, <2>1, <3>3 DEF Stage, SetPending, Goto, Holding
            <4>2. ~(Src(b) = Src(c) /\ IdOf[b] = IdOf[c])
                BY <1>b, <3>3, <4>1 DEF Pending
            <4>3. Pending(c)' = Pending(c)
                BY <1>a, <2>a, <4>1, <4>2 DEF Pending
            <4>4. QED
                BY <1>b, <4>1, <4>3
        <3>4. QED
            BY <3>1, <3>2, <3>3
    <2>2. CASE FillPending(b)
        <3>1. pending' = [pending EXCEPT ![Src(b)][IdOf[b]] = Fill(Pending(b), b, NoResponse)] /\ Holding(c)
            BY <1>a, <2>2 DEF FillPending, SetPending, Goto, Holding
        <3>2. Pending(c)' = Pending(c) \/ Pending(c)' = Fill(Pending(c), b, NoResponse)
            BY <1>a, <2>a, <3>1 DEF Pending
        <3>3. QED
            BY <1>b, <3>1, <3>2, FillKeepsOwner DEF Exists
    <2>3. CASE RemovePending(b)
        <3>1. /\ pending' = [pending EXCEPT ![Src(b)][IdOf[b]] = NoFile]
              /\ Holding(b) /\ Holding(c) /\ b # c
            BY <1>a, <2>3 DEF RemovePending, SetPending, Goto, Holding
        <3>2. Pending(b).by = b
            BY <3>1 DEF HeldPending
        <3>3. ~(Src(b) = Src(c) /\ IdOf[b] = IdOf[c])
            BY <1>b, <3>1, <3>2 DEF Pending
        <3>4. Pending(c)' = Pending(c)
            BY <1>a, <2>a, <3>1, <3>3 DEF Pending
        <3>5. QED
            BY <1>b, <3>1, <3>4
    <2>4. ASSUME UNCHANGED pending, Holding(c)' => Holding(c)
          PROVE  (Exists(Pending(c)) /\ Pending(c).by = c)'
        BY <1>b, <2>4 DEF Pending
    <2>5. CASE ~(Stage(b) \/ FillPending(b) \/ RemovePending(b))
        <3>1. UNCHANGED pending
            BY <1>1, <2>5 DEF BrokerNext, BrokerStep, RejectStdin, Accept, EnsureSession, OpenMeta, FillMeta,
                 Scan, GoOn, ReadMarker, PruneMarker, Climb, PollHit, PollTimeout, ReadDecided, AutoDeny, FillAutoDeny, RemoveDecided,
                 RemoveFails, BrokerKilled, spool
        <3>2. \E pc : Goto(b, pc) /\ (pc \in {"stageFill", "poll", "read", "autoDeny", "autoFill", "rmPending"}
                                        => Holding(b))
            BY <1>1, <2>5, ScanSteps DEF BrokerNext, BrokerStep, RejectStdin, Accept, EnsureSession, OpenMeta,
                 FillMeta, Climb, PollHit, PollTimeout, ReadDecided, AutoDeny, FillAutoDeny, RemoveDecided,
                 RemoveFails, BrokerKilled, Holding
        <3>3. Holding(c)' => Holding(c)
            BY <1>a, <3>2 DEF Goto, Holding
        <3>4. QED
            BY <2>4, <3>1, <3>3
    <2>6. QED
        BY <2>1, <2>2, <2>3, <2>5
<1>2. ASSUME NEW l \in Listener, ListenerNext(l), UNCHANGED <<brokerVars, fwd>>
      PROVE  (Exists(Pending(c)) /\ Pending(c).by = c)'
    BY <1>2, <1>c DEF ListenerNext, ListenerPoll, SubmitFor, OpenMarker, FillMarker, ListPending,
         SubmitDecision, FillDecision, ListenerExit, ListenerCrash, spool, brokerVars
<1>3. ASSUME NEW f \in Forwarder, ForwarderStep(f) \/ ForwarderKilled(f), UNCHANGED <<brokerVars, listenerVars>>
      PROVE  (Exists(Pending(c)) /\ Pending(c).by = c)'
    <2>a. Holding(c) /\ Exists(Pending(c)) /\ Pending(c).by = c /\ f # c
        BY <1>3, <1>a, <1>b DEF brokerVars, Holding
    <2>1. CASE Publish(f) /\ ~Exists(ParentPending(f))
        <3>1. pending' = [pending EXCEPT ![fwd[f].parent][fwd[f].id] = Created(f)]
            BY <2>1 DEF Publish
        <3>2. ~(fwd[f].parent = Src(c) /\ fwd[f].id = IdOf[c])
            BY <2>a, <2>1 DEF Pending, ParentPending
        <3>3. fwd[f].parent \in Session /\ fwd[f].id \in Id
            BY <2>1 DEF Publish, TypeOK, ForwarderTypeOK
        <3>4. Pending(c)' = Pending(c)
            BY <1>a, <3>1, <3>2, <3>3 DEF Pending
        <3>5. QED
            BY <2>a, <3>4
    <2>2. CASE FillPublished(f)
        <3>1. pending' = [pending EXCEPT ![fwd[f].parent][fwd[f].id] = Fill(@, f, NoResponse)]
            BY <2>2 DEF FillPublished
        <3>2. fwd[f].parent \in Session /\ fwd[f].id \in Id
            BY <2>2 DEF FillPublished, TypeOK, ForwarderTypeOK
        <3>3. Pending(c)' = Pending(c) \/ Pending(c)' = Fill(Pending(c), f, NoResponse)
            BY <1>a, <3>1, <3>2 DEF Pending
        <3>4. QED
            BY <2>a, <3>3, FillKeepsOwner
    <2>3. CASE ~(Publish(f) /\ ~Exists(ParentPending(f))) /\ ~FillPublished(f)
        BY <1>3, <1>c, <2>3 DEF ForwarderStep, ForwarderKilled, ReadPending, LookupParent, EnsureParent,
             OpenParentMeta, FillParentMeta, Publish, ParentHit, ForwardTimeout, TakeVerdict, CopyDown,
             FillCopy, spool, brokerVars
    <2>4. QED
        BY <2>1, <2>2, <2>3
<1>4. ASSUME NEW l \in Listener, NEW f \in Forwarder, NEW row \in rows[l], NEW s \in Session,
             EscalateUp(l, f, row, s), UNCHANGED <<brokerVars, listenerVars>>
      PROVE  (Exists(Pending(c)) /\ Pending(c).by = c)'
    BY <1>4, <1>c DEF EscalateUp, ForwardStart, spool, brokerVars
<1>5. CASE UNCHANGED vars
    BY <1>5, <1>c DEF vars, spool, brokerVars
<1>6. QED
    BY <1>1, <1>2, <1>3, <1>4, <1>5 DEF Next

(* At most one broker waits for an id at a time, whatever brokers with the *)
(* same id, forwarders into the same session and failing removals do: the  *)
(* pending file's inode belongs to one of them.                            *)
THEOREM BrokersExclude == Spec => []OneBrokerPerAsk
<1>1. Init => HeldPending
    BY DEF Init, BrokerInit, HeldPending, Holding
<1>2. HeldPending => OneBrokerPerAsk
    <2> SUFFICES ASSUME HeldPending, NEW b \in Broker, NEW c \in Broker, b # c, IdOf[b] = IdOf[c],
                        Waiting(b), Waiting(c)
                 PROVE  FALSE
        BY DEF OneBrokerPerAsk
    <2>1. Holding(b) /\ Holding(c)
        BY DEF Waiting, Holding
    <2>2. Pending(b).by = b /\ Pending(c).by = c /\ Pending(b) = Pending(c)
        BY <2>1 DEF HeldPending, Pending, Src
    <2>3. QED
        BY <2>2
<1>3. QED
    BY <1>1, <1>2, TypeCorrect, HeldPendingStep, PTL DEF Spec

----------------------------------------------------------------------------
(* A verdict file is written once.                                         *)

(* All that any step does to one decided file.                             *)
LEMMA DecidedStep ==
    ASSUME TypeOK, [Next]_vars, NEW s \in Session, NEW i \in Id
    PROVE  \/ decided'[s][i] = decided[s][i]
           \/ /\ ~Exists(decided[s][i])
              /\ \E p \in Process : decided'[s][i] = Created(p)
           \/ \E p \in Process : \E r : decided'[s][i] = Fill(decided[s][i], p, r)
           \/ \E b \in Broker : /\ IdOf[b] = i /\ Src(b) = s /\ bpc[b] = "rmDecided"
                                /\ decided'[s][i] = NoFile
<1>a. decided \in [Session -> [Id -> File]]
    BY DEF TypeOK, SpoolTypeOK
<1>1. ASSUME NEW b \in Broker, BrokerNext(b)
      PROVE  \/ decided'[s][i] = decided[s][i]
             \/ ~Exists(decided[s][i]) /\ decided'[s][i] = Created(b)
             \/ \E r : decided'[s][i] = Fill(decided[s][i], b, r)
             \/ /\ IdOf[b] = i /\ Src(b) = s /\ bpc[b] = "rmDecided"
                /\ decided'[s][i] = NoFile
    <2>a. IdOf[b] \in Id /\ Src(b) \in Session
        BY Sources
    <2>1. CASE AutoDeny(b)
        BY <1>a, <2>a, <2>1 DEF AutoDeny, SetDecided, Decided
    <2>2. CASE FillAutoDeny(b)
        BY <1>a, <2>a, <2>2 DEF FillAutoDeny, SetDecided, Decided
    <2>3. CASE RemoveDecided(b)
        BY <1>a, <2>a, <2>3 DEF RemoveDecided, SetDecided
    <2>4. CASE ~(AutoDeny(b) \/ FillAutoDeny(b) \/ RemoveDecided(b))
        BY <1>1, <2>4 DEF BrokerNext, BrokerStep, RejectStdin, Accept, EnsureSession, OpenMeta, FillMeta,
             Scan, GoOn, ReadMarker, PruneMarker, Climb, Stage, FillPending, PollHit, PollTimeout, ReadDecided, RemovePending,
             RemoveFails, BrokerKilled, spool
    <2>5. QED
        BY <2>1, <2>2, <2>3, <2>4
<1>2. ASSUME NEW l \in Listener, ListenerNext(l)
      PROVE  \/ decided'[s][i] = decided[s][i]
             \/ ~Exists(decided[s][i]) /\ decided'[s][i] = Created(l)
             \/ \E r : decided'[s][i] = Fill(decided[s][i], l, r)
    <2>1. ASSUME NEW row \in rows[l], NEW t \in Session, NEW d \in UserDecisions,
                 SubmitDecision(l, row, t, d)
          PROVE  \/ decided'[s][i] = decided[s][i]
                 \/ ~Exists(decided[s][i]) /\ decided'[s][i] = Created(l)
        <3>1. row.id \in Id
            BY DEF TypeOK, ListenerTypeOK, Row
        <3>2. QED
            BY <1>a, <2>1, <3>1 DEF SubmitDecision
    <2>2. CASE FillDecision(l)
        <3>1. at[l].session \in Session /\ at[l].id \in Id
            BY <2>2 DEF FillDecision, TypeOK, ListenerTypeOK, Target
        <3>2. QED
            BY <1>a, <2>2, <3>1 DEF FillDecision
    <2>3. ASSUME UNCHANGED decided PROVE decided'[s][i] = decided[s][i]
        BY <2>3
    <2>4. QED
        BY <1>2, <2>1, <2>2, <2>3 DEF ListenerNext, ListenerPoll, SubmitFor, OpenMarker, FillMarker,
             ListPending, ListenerExit, ListenerCrash, spool
<1>3. ASSUME NEW f \in Forwarder, ForwarderStep(f) \/ ForwarderKilled(f)
      PROVE  \/ decided'[s][i] = decided[s][i]
             \/ ~Exists(decided[s][i]) /\ decided'[s][i] = Created(f)
             \/ \E r : decided'[s][i] = Fill(decided[s][i], f, r)
    <2>1. fwd[f].pc \in {"copy", "copyFill"} => fwd[f].session \in Session /\ fwd[f].id \in Id
        BY DEF TypeOK, ForwarderTypeOK
    <2>2. CASE CopyDown(f)
        BY <1>a, <2>1, <2>2 DEF CopyDown, SourceDecided
    <2>3. CASE FillCopy(f)
        BY <1>a, <2>1, <2>3 DEF FillCopy
    <2>4. CASE ~(CopyDown(f) \/ FillCopy(f))
        BY <1>3, <2>4 DEF ForwarderStep, ForwarderKilled, ReadPending, LookupParent, EnsureParent,
             OpenParentMeta, FillParentMeta, Publish, FillPublished, ParentHit, ForwardTimeout,
             TakeVerdict, spool
    <2>5. QED
        BY <2>2, <2>3, <2>4
<1>4. ASSUME NEW l \in Listener, NEW f \in Forwarder, NEW row \in rows[l], NEW t \in Session,
             EscalateUp(l, f, row, t)
      PROVE  decided'[s][i] = decided[s][i]
    BY <1>4 DEF EscalateUp, ForwardStart, spool
<1>5. CASE UNCHANGED vars
    BY <1>5 DEF vars, spool
<1>6. QED
    BY <1>1, <1>2, <1>3, <1>4, <1>5, Processes DEF Next

(* Once a verdict is readable it never changes; only a broker of its ask   *)
(* takes it away.                                                          *)
THEOREM VerdictsFinal == Spec => VerdictsAreFinal
<1> DEFINE A == \A s \in Session, i \in Id :
                    Readable(decided[s][i]) /\ decided'[s][i] # decided[s][i] =>
                        \E b \in Broker : /\ IdOf[b] = i /\ Src(b) = s
                                          /\ bpc[b] = "rmDecided" /\ ~Exists(decided'[s][i])
<1>1. TypeOK /\ [Next]_vars => A
    <2> SUFFICES ASSUME TypeOK, [Next]_vars, NEW s \in Session, NEW i \in Id,
                        Readable(decided[s][i]), decided'[s][i] # decided[s][i]
                 PROVE  \E b \in Broker : /\ IdOf[b] = i /\ Src(b) = s
                                          /\ bpc[b] = "rmDecided" /\ ~Exists(decided'[s][i])
        OBVIOUS
    <2>1. Exists(decided[s][i]) /\ ~Exists(NoFile)
        BY DEF Readable, Exists, NoFile
    <2>2. \A p, r : Fill(decided[s][i], p, r) = decided[s][i]
        BY FillKeepsOwner
    <2>3. QED
        BY <2>1, <2>2, DecidedStep
<1>2. QED
    BY <1>1, TypeCorrect, PTL DEF Spec, VerdictsAreFinal

----------------------------------------------------------------------------
(* Accepted verdicts.                                                      *)

(* Request ids are UUIDs: no two hooks ask under one.                      *)
OneBrokerPerId == \A b, c \in Broker : IdOf[b] = IdOf[c] => b = c

(* b has not settled on a response; nobody has removed a verdict for it.   *)
Undecided(b) ==
    bpc[b] \in {"idle", "ensure", "metaOpen", "metaFill", "scan", "look", "prune",
               "climb", "stage", "stageFill", "poll", "read"}

For(target, b) == target.id = IdOf[b] /\ target.session = Src(b)

(* While an ask is undecided, an accepted verdict is what its file says,   *)
(* and the file of a verdict on its way is the listener's own inode.       *)
AcceptedStands ==
    \A b \in Broker : Undecided(b) =>
        /\ \A v \in told : For(v, b) => Decided(b) = Written(v.by, Answer(v.decision, v.by))
        /\ \A l \in Listener : lpc[l] = "submit" /\ For(at[l], b) => Decided(b) = Created(l)

LEMMA FileStates ==
    /\ ~Exists(NoFile)
    /\ \A p : Exists(Created(p))
    /\ \A p, r : Exists(Written(p, r))
    /\ \A p, q, r : Created(p) # Written(q, r)
    /\ \A p, q : Created(p) = Created(q) => p = q
    /\ \A p, r : Written(p, r).resp = r /\ Fill(Created(p), p, r) = Written(p, r)
BY DEF NoFile, Created, Written, Exists, Fill

LEMMA AcceptedStandsStep ==
    ASSUME OneBrokerPerId, TypeOK, AcceptedStands, [Next]_vars
    PROVE  AcceptedStands'
<1> SUFFICES ASSUME NEW c \in Broker, Undecided(c)'
             PROVE  /\ \A v \in told' : For(v, c) => Decided(c)' = Written(v.by, Answer(v.decision, v.by))
                    /\ \A l \in Listener : lpc'[l] = "submit" /\ For(at'[l], c) => Decided(c)' = Created(l)
    BY DEF AcceptedStands, For, Src
<1> DEFINE Verdicts == \A v \in told' : For(v, c) => Decided(c)' = Written(v.by, Answer(v.decision, v.by))
           Writes == \A l \in Listener : lpc'[l] = "submit" /\ For(at'[l], c) => Decided(c)' = Created(l)
<1>a. /\ IdOf[c] \in Id /\ Src(c) \in Session
      /\ decided \in [Session -> [Id -> File]] /\ bpc \in [Broker -> BrokerPC]
    BY Sources DEF TypeOK, SpoolTypeOK, BrokerTypeOK
<1>b. Undecided(c) => /\ \A v \in told : For(v, c) => Decided(c) = Written(v.by, Answer(v.decision, v.by))
                      /\ \A l \in Listener : lpc[l] = "submit" /\ For(at[l], c) => Decided(c) = Created(l)
    BY DEF AcceptedStands
<1>c. UNCHANGED bpc => Undecided(c)
    BY DEF Undecided
<1>d. Undecided(c) /\ Decided(c)' = Decided(c) /\ UNCHANGED <<told, lpc, at>> => Verdicts /\ Writes
    BY <1>b
<1> HIDE DEF Verdicts, Writes
<1>1. ASSUME NEW b \in Broker, BrokerNext(b), UNCHANGED <<listenerVars, fwd>>
      PROVE  Verdicts /\ Writes
    <2>1. CASE b # c
        <3>1. IdOf[b] # IdOf[c] /\ IdOf[b] \in Id /\ Src(b) \in Session
            BY <2>1, Sources DEF OneBrokerPerId
        <3>2. UNCHANGED decided \/ \E file : SetDecided(b, file)
            BY <1>1 DEF BrokerNext, BrokerStep, RejectStdin, Accept, EnsureSession, OpenMeta, FillMeta, Scan, GoOn, ReadMarker, PruneMarker, Climb,
                 Stage, FillPending, PollHit, PollTimeout, ReadDecided, AutoDeny, FillAutoDeny, RemovePending,
                 RemoveDecided, RemoveFails, BrokerKilled, spool
        <3>3. Decided(c)' = Decided(c)
            BY <1>a, <3>1, <3>2 DEF SetDecided, Decided
        <3>4. \E pc : Goto(b, pc)
            BY <1>1 DEF BrokerNext, BrokerStep, RejectStdin, Accept, EnsureSession, OpenMeta, FillMeta, Scan, GoOn, ReadMarker, PruneMarker, Climb,
                 Stage, FillPending, PollHit, PollTimeout, ReadDecided, AutoDeny, FillAutoDeny, RemovePending,
                 RemoveDecided, RemoveFails, BrokerKilled
        <3>5. Undecided(c)
            BY <1>a, <2>1, <3>4 DEF Goto, Undecided
        <3>6. QED
            BY <1>1, <1>d, <3>3, <3>5 DEF listenerVars
    <2>2. CASE b = c
        <3>1. Undecided(c) /\ UNCHANGED decided
            <4>1. CASE Scan(b) \/ ReadMarker(b) \/ PruneMarker(b)
                BY <1>a, <2>2, <4>1, ScanSteps DEF Goto, Undecided
            <4>2. CASE ~(Scan(b) \/ ReadMarker(b) \/ PruneMarker(b))
                BY <1>1, <1>a, <2>2, <4>2 DEF BrokerNext, BrokerStep, RejectStdin, Accept, EnsureSession,
                     OpenMeta, FillMeta, Climb, Stage, FillPending, PollHit, PollTimeout, ReadDecided, AutoDeny,
                     FillAutoDeny, RemovePending, RemoveDecided, RemoveFails, BrokerKilled, Goto, Undecided, spool
            <4>3. QED
                BY <4>1, <4>2
        <3>2. QED
            BY <1>1, <1>d, <3>1 DEF listenerVars, Decided
    <2>3. QED
        BY <2>1, <2>2
<1>2. ASSUME NEW l \in Listener, ListenerNext(l), UNCHANGED <<brokerVars, fwd>>
      PROVE  Verdicts /\ Writes
    <2>a. Undecided(c)
        BY <1>2, <1>c DEF brokerVars
    <2>b. /\ \A v \in told : For(v, c) => Decided(c) = Written(v.by, Answer(v.decision, v.by))
          /\ \A k \in Listener : lpc[k] = "submit" /\ For(at[k], c) => Decided(c) = Created(k)
        BY <1>b, <2>a
    <2>c. /\ lpc \in [Listener -> {"run", "mark", "submit"}]
          /\ at \in [Listener -> [session : Session \cup {None}, id : Id \cup {None},
                                  decision : Decisions \cup {"none"}]]
        BY DEF TypeOK, ListenerTypeOK
    <2>1. ASSUME NEW row \in rows[l], NEW s \in Session, NEW d \in UserDecisions,
                 SubmitDecision(l, row, s, d), ~Exists(decided[s][row.id])
          PROVE  Verdicts /\ Writes
        <3>1. /\ row.id \in Id /\ UNCHANGED told
              /\ decided' = [decided EXCEPT ![s][row.id] = Created(l)]
              /\ \A k \in Listener : k # l => lpc'[k] = lpc[k] /\ at'[k] = at[k]
              /\ at'[l].session = s /\ at'[l].id = row.id
            BY <2>1, <2>c DEF SubmitDecision, TypeOK, ListenerTypeOK, Row
        <3>2. CASE s = Src(c) /\ row.id = IdOf[c]
            <4>1. Decided(c)' = Created(l) /\ ~Exists(Decided(c))
                BY <1>a, <2>1, <3>1, <3>2 DEF Decided
            <4>2. /\ \A v \in told : ~For(v, c)
                  /\ \A k \in Listener : ~(lpc[k] = "submit" /\ For(at[k], c))
                BY <2>b, <4>1, FileStates
            <4>3. QED
                BY <3>1, <4>1, <4>2 DEF Verdicts, Writes
        <3>3. CASE ~(s = Src(c) /\ row.id = IdOf[c])
            <4>1. Decided(c)' = Decided(c)
                BY <1>a, <3>1, <3>3 DEF Decided
            <4>2. ~For(at'[l], c)
                BY <3>1, <3>3 DEF For
            <4>3. QED
                BY <2>b, <3>1, <4>1, <4>2 DEF Verdicts, Writes
        <3>4. QED
            BY <3>2, <3>3
    <2>2. ASSUME NEW row \in rows[l], NEW s \in Session, NEW d \in UserDecisions,
                 SubmitDecision(l, row, s, d), Exists(decided[s][row.id])
          PROVE  Verdicts /\ Writes
        BY <1>d, <2>a, <2>2 DEF SubmitDecision, Decided
    <2>3. CASE FillDecision(l)
        <3> DEFINE a == at[l]
                   v == [by |-> l, session |-> a.session, id |-> a.id, decision |-> a.decision]
        <3>1. /\ a.session \in Session /\ a.id \in Id
              /\ lpc[l] = "submit" /\ lpc'[l] = "run" /\ UNCHANGED at
              /\ \A k \in Listener : k # l => lpc'[k] = lpc[k]
              /\ decided' = [decided EXCEPT ![a.session][a.id] = Fill(@, l, Answer(a.decision, l))]
              /\ told' = told \cup {v}
            BY <2>3, <2>c DEF FillDecision, TypeOK, ListenerTypeOK, Target
        <3>2. For(v, c) <=> For(a, c)
            BY DEF For
        <3>3. CASE For(a, c)
            <4>1. Decided(c) = Created(l) /\ Decided(c)' = Fill(Decided(c), l, Answer(a.decision, l))
                BY <1>a, <2>b, <3>1, <3>3 DEF Decided, For
            <4>2. Decided(c)' = Written(l, Answer(a.decision, l))
                BY <4>1, FileStates
            <4>3. /\ \A w \in told : ~For(w, c)
                  /\ \A k \in Listener : lpc[k] = "submit" /\ For(at[k], c) => k = l
                BY <2>b, <4>1, FileStates
            <4>4. QED
                BY <3>1, <4>2, <4>3 DEF Verdicts, Writes
        <3>4. CASE ~For(a, c)
            <4>1. Decided(c)' = Decided(c)
                BY <1>a, <3>1, <3>4 DEF Decided, For
            <4>2. QED
                BY <2>b, <3>1, <3>2, <3>4, <4>1 DEF Verdicts, Writes
        <3>5. QED
            BY <3>3, <3>4
    <2>4. ASSUME UNCHANGED <<decided, told>>, lpc'[l] = "submit" => lpc'[l] = lpc[l] /\ at'[l] = at[l],
                 \A k \in Listener : k # l => lpc'[k] = lpc[k] /\ at'[k] = at[k]
          PROVE  Verdicts /\ Writes
        BY <2>b, <2>4 DEF Decided, Verdicts, Writes
    <2>5. CASE ListenerExit(l) \/ ListenerCrash(l) \/ FillMarker(l)
               \/ \E s \in Session : OpenMarker(l, s) \/ \E i \in Id : ListPending(l, s, i)
        <3>1. CASE ListenerExit(l) \/ ListenerCrash(l)
            BY <3>1, <2>4 DEF ListenerExit, ListenerCrash, listenerVars
        <3>2. CASE FillMarker(l)
            BY <3>2, <2>4, <2>c DEF FillMarker
        <3>3. ASSUME NEW s \in Session, OpenMarker(l, s) PROVE Verdicts /\ Writes
            <4>1. /\ UNCHANGED <<decided, told>> /\ lpc' = [lpc EXCEPT ![l] = "mark"]
                  /\ \E target : at' = [at EXCEPT ![l] = target]
                BY <3>3 DEF OpenMarker
            <4>2. lpc'[l] = "submit" => lpc'[l] = lpc[l] /\ at'[l] = at[l]
                BY <4>1, <2>c
            <4>3. \A k \in Listener : k # l => lpc'[k] = lpc[k] /\ at'[k] = at[k]
                BY <4>1, <2>c
            <4>4. UNCHANGED <<decided, told>>
                BY <4>1
            <4>5. QED
                BY <4>2, <4>3, <4>4, <2>4
        <3>4. ASSUME NEW s \in Session, NEW i \in Id, ListPending(l, s, i) PROVE Verdicts /\ Writes
            BY <3>4, <2>4 DEF ListPending, spool
        <3>5. QED
            BY <2>5, <3>1, <3>2, <3>3, <3>4
    <2>6. QED
        BY <1>2, <2>1, <2>2, <2>3, <2>5 DEF ListenerNext, ListenerPoll, SubmitFor
<1>3. ASSUME NEW f \in Forwarder, ForwarderStep(f) \/ ForwarderKilled(f), UNCHANGED <<brokerVars, listenerVars>>
      PROVE  Verdicts /\ Writes
    <2>a. Undecided(c)
        BY <1>3, <1>c DEF brokerVars
    <2>1. CASE (CopyDown(f) /\ ~Exists(SourceDecided(f))) \/ FillCopy(f)
        <3>1. /\ fwd[f].session \in Session /\ fwd[f].id \in Id
              /\ \/ /\ ~Exists(SourceDecided(f))
                    /\ decided' = [decided EXCEPT ![fwd[f].session][fwd[f].id] = Created(f)]
                 \/ decided' = [decided EXCEPT ![fwd[f].session][fwd[f].id] = Fill(@, f, fwd[f].resp)]
            BY <2>1 DEF CopyDown, FillCopy, TypeOK, ForwarderTypeOK
        <3>2. Decided(c)' = Decided(c) \/ ~Exists(Decided(c)) \/ Decided(c)' = Fill(Decided(c), f, fwd[f].resp)
            BY <1>a, <3>1 DEF Decided, SourceDecided
        <3>3. Decided(c)' = Decided(c) \/ ~Exists(Decided(c)) \/ Decided(c) = Created(f)
            BY <3>2, FillKeepsOwner
        <3>4. CASE ~Exists(Decided(c)) \/ Decided(c) = Created(f)
            <4>1. /\ \A v \in told : ~For(v, c)
                  /\ \A k \in Listener : ~(lpc[k] = "submit" /\ For(at[k], c))
                BY <1>b, <2>a, <3>4, FileStates, Processes
            <4>2. QED
                BY <1>3, <4>1 DEF Verdicts, Writes, listenerVars
        <3>5. QED
            BY <1>3, <1>d, <2>a, <3>3, <3>4 DEF listenerVars
    <2>2. CASE ~(CopyDown(f) /\ ~Exists(SourceDecided(f))) /\ ~FillCopy(f)
        <3>1. UNCHANGED decided
            BY <1>3, <2>2 DEF ForwarderStep, ForwarderKilled, ReadPending, LookupParent, EnsureParent,
                 OpenParentMeta, FillParentMeta, Publish, FillPublished, ParentHit, ForwardTimeout, TakeVerdict,
                 CopyDown, spool
        <3>2. QED
            BY <1>3, <1>d, <2>a, <3>1 DEF Decided, listenerVars
    <2>3. QED
        BY <2>1, <2>2
<1>4. ASSUME NEW l \in Listener, NEW f \in Forwarder, NEW row \in rows[l], NEW s \in Session,
             EscalateUp(l, f, row, s), UNCHANGED <<brokerVars, listenerVars>>
      PROVE  Verdicts /\ Writes
    BY <1>4, <1>c, <1>d DEF EscalateUp, ForwardStart, Decided, brokerVars, listenerVars, spool
<1>5. ASSUME UNCHANGED vars PROVE Verdicts /\ Writes
    <2>1. UNCHANGED <<bpc, decided, told, lpc, at>>
        BY <1>5 DEF vars, brokerVars, listenerVars, spool
    <2>2. QED
        BY <2>1, <1>c, <1>d DEF Decided
<1>6. Verdicts /\ Writes
    BY <1>1, <1>2, <1>3, <1>4, <1>5 DEF Next
<1>7. QED
    BY <1>6 DEF Verdicts, Writes

(* First writer wins, end to end (submitDecision, brokerAskpass): provided *)
(* that ids are unique, the verdict a broker takes is the only one that    *)
(* was accepted, whoever else wrote, copied down or died writing.          *)
THEOREM AcceptedTaken ==
    ASSUME OneBrokerPerId
    PROVE  Spec => AcceptedIsTaken
<1> DEFINE A == \A b \in Broker :
                    bpc[b] = "read" /\ bpc'[b] = "rmPending" =>
                        \A v \in told : v.id = IdOf[b] /\ v.session = Src(b) =>
                            out'[b] = Answer(v.decision, v.by)
<1>1. Init => AcceptedStands
    BY DEF Init, ListenerInit, AcceptedStands
<1>2. TypeOK /\ AcceptedStands /\ [Next]_vars => AcceptedStands'
    BY AcceptedStandsStep
<1>3. TypeOK /\ AcceptedStands /\ [Next]_vars => A
    <2> SUFFICES ASSUME TypeOK, AcceptedStands, [Next]_vars, NEW b \in Broker,
                        bpc[b] = "read", bpc'[b] = "rmPending",
                        NEW v \in told, For(v, b)
                 PROVE  out'[b] = Answer(v.decision, v.by)
        BY DEF For
    <2>1. Decided(b) = Written(v.by, Answer(v.decision, v.by))
        BY DEF AcceptedStands, Undecided
    <2>2. /\ bpc \in [Broker -> BrokerPC] /\ out \in [Broker -> Response \cup {NoResponse}]
        BY DEF TypeOK, BrokerTypeOK
    <2>3. BrokerNext(b)
        <3>1. ASSUME NEW c \in Broker, c # b, BrokerNext(c) PROVE bpc'[b] = bpc[b]
            BY <3>1, <2>2 DEF BrokerNext, BrokerStep, RejectStdin, Accept, EnsureSession, OpenMeta, FillMeta, Scan, GoOn, ReadMarker, PruneMarker,
                 Climb, Stage, FillPending, PollHit, PollTimeout, ReadDecided, AutoDeny, FillAutoDeny,
                 RemovePending, RemoveDecided, RemoveFails, BrokerKilled, Goto
        <3>2. QED
            BY <3>1 DEF Next, vars, brokerVars
    <2>4. out'[b] = Decided(b).resp
        BY <2>2, <2>3 DEF BrokerNext, BrokerStep, RejectStdin, Accept, EnsureSession, OpenMeta, FillMeta, Scan, GoOn, ReadMarker, PruneMarker,
             Climb, Stage, FillPending, PollHit, PollTimeout, ReadDecided, AutoDeny, FillAutoDeny,
             RemovePending, RemoveDecided, RemoveFails, BrokerKilled, Goto
    <2>5. QED
        BY <2>1, <2>4, FileStates
<1>4. QED
    BY <1>1, <1>2, <1>3, TypeCorrect, PTL DEF Spec, AcceptedIsTaken

----------------------------------------------------------------------------
(* Finished asks.                                                          *)

(* Links lead towards a root: no session is its own ancestor.              *)
Descends(depth) ==
    /\ \A s \in Session : Lineage[s].parent # None => depth[Lineage[s].parent] < depth[s]
    /\ \A i \in Id : Envelope[i].parent # None => depth[Envelope[i].parent] < depth[SourceOf(i)]

(* A prompt in its own session is held by a broker or left by a killed one.*)
PromptIsHeld ==
    \A i \in Id : Exists(pending[SourceOf(i)][i]) =>
        RmMayFail \/ \E b \in Broker : IdOf[b] = i /\ (Holding(b) \/ bpc[b] = "killed")

(* So are the links on disk, ...                                           *)
LinksDescend(depth) ==
    \A s \in Session : meta[s].parent # None => depth[meta[s].parent] < depth[s]

(* ... and a copy of an ask is nearer to the root than the ask.            *)
Above(depth, s, i) == s = SourceOf(i) \/ depth[s] < depth[SourceOf(i)]

Climbing == {"ensure", "metaOpen", "metaFill", "publish", "publishFill"}

CopiesDescend(depth) ==
    /\ \A s \in Session, i \in Id : Exists(pending[s][i]) => Above(depth, s, i)
    /\ \A f \in Forwarder :
          /\ fwd[f].pc \notin {"idle", "missing"} => Above(depth, fwd[f].session, fwd[f].id)
          /\ fwd[f].pc \in Climbing => depth[fwd[f].parent] < depth[fwd[f].session]

LEMMA LinksStep ==
    ASSUME NEW depth \in [Session -> Nat], Descends(depth), TypeOK, LinksDescend(depth), [Next]_vars
    PROVE  LinksDescend(depth)'
<1>a. meta \in [Session -> Meta]
    BY DEF TypeOK, SpoolTypeOK
<1>b. \A old, p : \A m \in MetaAfterWrite(old, p) : m.parent \in {None, p}
    BY DEF MetaAfterWrite, FullMeta, GarbledMeta
<1>c. UNCHANGED meta => LinksDescend(depth)'
    BY DEF LinksDescend
<1>1. ASSUME NEW s \in Session, NEW m, m.parent # None => depth[m.parent] < depth[s],
             meta' = [meta EXCEPT ![s] = m]
      PROVE  LinksDescend(depth)'
    BY <1>1, <1>a DEF LinksDescend
<1>2. ASSUME NEW b \in Broker, BrokerNext(b)
      PROVE  LinksDescend(depth)'
    <2>a. IdOf[b] \in Id /\ Src(b) \in Session /\ Src(b) = SourceOf(IdOf[b])
        BY Sources DEF Src
    <2>1. CASE OpenMeta(b)
        BY <2>1, <2>a, <1>1 DEF OpenMeta, EmptyMeta
    <2>2. CASE FillMeta(b)
        <3>1. PICK m \in MetaAfterWrite(meta[Src(b)], Envelope[IdOf[b]].parent) :
                  meta' = [meta EXCEPT ![Src(b)] = m]
            BY <2>2 DEF FillMeta
        <3>2. m.parent # None => depth[m.parent] < depth[Src(b)]
            BY <1>b, <2>a, <3>1 DEF Descends
        <3>3. QED
            BY <1>1, <2>a, <3>1, <3>2
    <2>3. CASE ~OpenMeta(b) /\ ~FillMeta(b)
        BY <1>2, <1>c, <2>3 DEF BrokerNext, BrokerStep, RejectStdin, Accept, EnsureSession, Scan, GoOn, ReadMarker, PruneMarker, Climb, Stage,
             FillPending, PollHit, PollTimeout, ReadDecided, AutoDeny, FillAutoDeny, RemovePending,
             RemoveDecided, RemoveFails, BrokerKilled, spool
    <2>4. QED
        BY <2>1, <2>2, <2>3
<1>3. ASSUME NEW l \in Listener, ListenerNext(l)
      PROVE  LinksDescend(depth)'
    BY <1>3, <1>c DEF ListenerNext, ListenerPoll, SubmitFor, OpenMarker, FillMarker, ListPending,
         SubmitDecision, FillDecision, ListenerExit, ListenerCrash, spool
<1>4. ASSUME NEW f \in Forwarder, ForwarderStep(f) \/ ForwarderKilled(f)
      PROVE  LinksDescend(depth)'
    <2>a. fwd[f].pc \in {"metaOpen", "metaFill"} => fwd[f].parent \in Session
        BY DEF TypeOK, ForwarderTypeOK
    <2>1. CASE OpenParentMeta(f)
        BY <2>1, <2>a, <1>1 DEF OpenParentMeta, EmptyMeta
    <2>2. CASE FillParentMeta(f)
        <3>1. PICK m \in MetaAfterWrite(meta[fwd[f].parent], None) :
                  meta' = [meta EXCEPT ![fwd[f].parent] = m]
            BY <2>2 DEF FillParentMeta
        <3>2. m.parent = None
            BY <1>b, <3>1
        <3>3. QED
            BY <1>1, <2>2, <2>a, <3>1, <3>2 DEF FillParentMeta
    <2>3. CASE ~OpenParentMeta(f) /\ ~FillParentMeta(f)
        BY <1>4, <1>c, <2>3 DEF ForwarderStep, ForwarderKilled, ReadPending, LookupParent, EnsureParent, Publish,
             FillPublished, ParentHit, ForwardTimeout, TakeVerdict, CopyDown, FillCopy, spool
    <2>4. QED
        BY <2>1, <2>2, <2>3
<1>5. ASSUME NEW l \in Listener, NEW f \in Forwarder, NEW row \in rows[l], NEW s \in Session,
             EscalateUp(l, f, row, s)
      PROVE  LinksDescend(depth)'
    BY <1>5, <1>c DEF EscalateUp, ForwardStart, spool
<1>6. CASE UNCHANGED vars
    BY <1>6, <1>c DEF vars, spool
<1>7. QED
    BY <1>2, <1>3, <1>4, <1>5, <1>6 DEF Next

(* A prompt appears where a broker stages it or a forwarder publishes it.  *)
LEMMA PromptAppears ==
    ASSUME TypeOK, [Next]_vars, NEW s \in Session, NEW i \in Id, Exists(pending'[s][i])
    PROVE  \/ Exists(pending[s][i])
           \/ \E b \in Broker : IdOf[b] = i /\ Src(b) = s /\ bpc'[b] = "stageFill"
           \/ \E f \in Forwarder : fwd[f].pc = "publish" /\ fwd[f].parent = s /\ fwd[f].id = i
<1> DEFINE Goal == \/ Exists(pending[s][i])
                   \/ \E b \in Broker : IdOf[b] = i /\ Src(b) = s /\ bpc'[b] = "stageFill"
                   \/ \E f \in Forwarder : fwd[f].pc = "publish" /\ fwd[f].parent = s /\ fwd[f].id = i
<1>a. pending \in [Session -> [Id -> File]] /\ bpc \in [Broker -> BrokerPC]
    BY DEF TypeOK, SpoolTypeOK, BrokerTypeOK
<1>b. \A p, r, file : Exists(Fill(file, p, r)) => Exists(file)
    BY DEF Fill, Created, Exists
<1>c. ~Exists(NoFile)
    BY FileStates
<1>1. ASSUME NEW b \in Broker, BrokerNext(b)
      PROVE  Goal
    <2>a. IdOf[b] \in Id /\ Src(b) \in Session
        BY Sources
    <2>1. CASE Stage(b) /\ ~Exists(Pending(b))
        <3>1. pending' = [pending EXCEPT ![Src(b)][IdOf[b]] = Created(b)] /\ bpc'[b] = "stageFill"
            BY <1>a, <2>1 DEF Stage, SetPending, Goto
        <3>2. QED
            BY <1>a, <2>a, <3>1
    <2>2. CASE FillPending(b)
        <3>1. pending' = [pending EXCEPT ![Src(b)][IdOf[b]] = Fill(Pending(b), b, NoResponse)]
            BY <2>2 DEF FillPending, SetPending
        <3>2. pending'[s][i] = pending[s][i] \/ pending'[s][i] = Fill(pending[s][i], b, NoResponse)
            BY <1>a, <2>a, <3>1 DEF Pending
        <3>3. QED
            BY <1>b, <3>2
    <2>3. CASE RemovePending(b)
        BY <1>a, <1>c, <2>a, <2>3 DEF RemovePending, SetPending
    <2>4. CASE ~(Stage(b) /\ ~Exists(Pending(b))) /\ ~FillPending(b) /\ ~RemovePending(b)
        <3>1. UNCHANGED pending
            BY <1>1, <2>4 DEF BrokerNext, BrokerStep, RejectStdin, Accept, EnsureSession, OpenMeta, FillMeta,
                 Scan, GoOn, ReadMarker, PruneMarker, Climb, Stage, PollHit, PollTimeout, ReadDecided, AutoDeny, FillAutoDeny, RemoveDecided,
                 RemoveFails, BrokerKilled, spool
        <3>2. QED
            BY <3>1
    <2>5. QED
        BY <2>1, <2>2, <2>3, <2>4
<1>2. ASSUME NEW l \in Listener, ListenerNext(l)
      PROVE  UNCHANGED pending
    BY <1>2 DEF ListenerNext, ListenerPoll, SubmitFor, OpenMarker, FillMarker, ListPending,
         SubmitDecision, FillDecision, ListenerExit, ListenerCrash, spool
<1>3. ASSUME NEW f \in Forwarder, ForwarderStep(f) \/ ForwarderKilled(f)
      PROVE  Goal
    <2>a. fwd[f].pc \in {"publish", "publishFill"} => fwd[f].parent \in Session /\ fwd[f].id \in Id
        BY DEF TypeOK, ForwarderTypeOK
    <2>1. CASE Publish(f) /\ ~Exists(ParentPending(f))
        <3>1. pending' = [pending EXCEPT ![fwd[f].parent][fwd[f].id] = Created(f)] /\ fwd[f].pc = "publish"
            BY <2>1 DEF Publish
        <3>2. QED
            BY <1>a, <2>a, <3>1
    <2>2. CASE FillPublished(f)
        <3>1. pending' = [pending EXCEPT ![fwd[f].parent][fwd[f].id] = Fill(@, f, NoResponse)]
            BY <2>2 DEF FillPublished
        <3>2. fwd[f].parent \in Session /\ fwd[f].id \in Id
            BY <2>2, <2>a DEF FillPublished
        <3>3. pending'[s][i] = pending[s][i] \/ pending'[s][i] = Fill(pending[s][i], f, NoResponse)
            BY <1>a, <3>1, <3>2
        <3>4. QED
            BY <1>b, <3>3
    <2>3. CASE ~(Publish(f) /\ ~Exists(ParentPending(f))) /\ ~FillPublished(f)
        <3>1. UNCHANGED pending
            BY <1>3, <2>3 DEF ForwarderStep, ForwarderKilled, ReadPending, LookupParent, EnsureParent,
                 OpenParentMeta, FillParentMeta, Publish, ParentHit, ForwardTimeout, TakeVerdict, CopyDown,
                 FillCopy, spool
        <3>2. QED
            BY <3>1
    <2>4. QED
        BY <2>1, <2>2, <2>3
<1>4. ASSUME NEW l \in Listener, NEW f \in Forwarder, NEW row \in rows[l], NEW t \in Session,
             EscalateUp(l, f, row, t)
      PROVE  UNCHANGED pending
    BY <1>4 DEF EscalateUp, ForwardStart, spool
<1>5. UNCHANGED pending => Goal
    OBVIOUS
<1> HIDE DEF Goal
<1>6. Goal
    BY <1>1, <1>2, <1>3, <1>4, <1>5 DEF Next, vars, spool
<1>7. QED
    BY <1>6 DEF Goal

LEMMA CopiesStep ==
    ASSUME NEW depth \in [Session -> Nat], TypeOK, LinksDescend(depth), CopiesDescend(depth), [Next]_vars
    PROVE  CopiesDescend(depth)'
<1>a. /\ fwd \in [Forwarder -> [pc : ForwarderPC, session : Session \cup {None}, id : Id \cup {None},
                                parent : Session \cup {None}, resp : Response \cup {NoResponse}]]
      /\ \A f \in Forwarder :
            /\ fwd[f].pc # "idle" => fwd[f].session \in Session /\ fwd[f].id \in Id
            /\ fwd[f].pc \in Climbing => fwd[f].parent \in Session
    BY DEF TypeOK, ForwarderTypeOK, Climbing
<1>b. \A i \in Id : SourceOf(i) \in Session
    BY SpoolConstants DEF SourceOf
<1>1. ASSUME NEW s \in Session, NEW i \in Id, Exists(pending'[s][i])
      PROVE  Above(depth, s, i)
    <2>1. CASE Exists(pending[s][i])
        BY <2>1 DEF CopiesDescend
    <2>2. ASSUME NEW b \in Broker, IdOf[b] = i, Src(b) = s PROVE Above(depth, s, i)
        BY <2>2 DEF Above, Src
    <2>3. ASSUME NEW f \in Forwarder, fwd[f].pc = "publish", fwd[f].parent = s, fwd[f].id = i
          PROVE  Above(depth, s, i)
        <3>1. /\ depth[s] < depth[fwd[f].session] /\ fwd[f].session \in Session
              /\ fwd[f].session = SourceOf(i) \/ depth[fwd[f].session] < depth[SourceOf(i)]
            BY <1>a, <2>3 DEF CopiesDescend, Climbing, Above
        <3>2. depth[s] \in Nat /\ depth[fwd[f].session] \in Nat /\ depth[SourceOf(i)] \in Nat
            BY <1>b, <3>1
        <3>3. QED
            BY <3>1, <3>2 DEF Above
    <2>4. QED
        BY <1>1, <2>1, <2>2, <2>3, PromptAppears
<1> DEFINE Run(r) == /\ r.pc \notin {"idle", "missing"} => Above(depth, r.session, r.id)
                     /\ r.pc \in Climbing => depth[r.parent] < depth[r.session]
<1>2. \A f \in Forwarder : Run(fwd[f])
    BY DEF CopiesDescend
<1>3. ASSUME NEW f \in Forwarder, ForwarderStep(f) \/ ForwarderKilled(f)
      PROVE  \A g \in Forwarder : Run(fwd'[g])
    <2>1. CASE LookupParent(f)
        <3> DEFINE p == ReadParentId(fwd[f].session)
        <3>1. fwd[f].pc = "lookup" /\ fwd[f].session \in Session
            BY <1>a, <2>1 DEF LookupParent
        <3>2. p # None => depth[p] < depth[fwd[f].session]
            BY <3>1 DEF ReadParentId, LinksDescend
        <3>3. \/ p = None /\ fwd' = [fwd EXCEPT ![f].pc = "copy", ![f].resp = Answer("harness-ask", f)]
              \/ p # None /\ fwd' = [fwd EXCEPT ![f].pc = "ensure", ![f].parent = p]
            BY <2>1 DEF LookupParent
        <3> HIDE DEF p
        <3>4. QED
            BY <1>2, <1>a, <3>1, <3>2, <3>3 DEF Climbing
    <2>2. CASE ~LookupParent(f)
        <3>1. CASE ForwardTimeout(f)
            BY <1>2, <1>a, <3>1 DEF ForwardTimeout, Climbing
        <3>2. CASE TakeVerdict(f)
            <4>1. \/ fwd' = [fwd EXCEPT ![f].pc = "failed"]
                  \/ fwd' = [fwd EXCEPT ![f].pc = "copy", ![f].resp = ParentDecided(f).resp]
                BY <3>2 DEF TakeVerdict, FGoto
            <4>2. fwd[f].pc = "take"
                BY <3>2 DEF TakeVerdict
            <4>3. QED
                BY <1>2, <1>a, <4>1, <4>2 DEF Climbing
        <3>3. CASE ~ForwardTimeout(f) /\ ~TakeVerdict(f)
            <4>1. \E pc : /\ FGoto(f, pc)
                          /\ pc \in Climbing => fwd[f].pc \in Climbing
                          /\ fwd[f].pc \notin {"idle", "missing"}
                BY <1>3, <2>2, <3>3 DEF ForwarderStep, ForwarderKilled, ReadPending, EnsureParent, OpenParentMeta,
                     FillParentMeta, Publish, FillPublished, ParentHit, CopyDown, FillCopy, Climbing
            <4>2. QED
                BY <1>2, <1>a, <4>1 DEF FGoto
        <3>4. QED
            BY <3>1, <3>2, <3>3
    <2>3. QED
        BY <2>1, <2>2
<1>4. ASSUME NEW l \in Listener, NEW f \in Forwarder, NEW row \in rows[l], NEW s \in Session,
             EscalateUp(l, f, row, s)
      PROVE  \A g \in Forwarder : Run(fwd'[g])
    <2>1. row.id \in Id
        BY DEF TypeOK, ListenerTypeOK, Row
    <2>2. Exists(pending[s][row.id]) => Above(depth, s, row.id)
        BY <2>1 DEF CopiesDescend
    <2>3. fwd' = [fwd EXCEPT ![f].session = s, ![f].id = row.id,
                             ![f].pc = IF Exists(pending[s][row.id]) THEN "read" ELSE "missing"]
        BY <1>4 DEF EscalateUp, ForwardStart
    <2>4. QED
        BY <1>2, <1>a, <2>2, <2>3 DEF Climbing
<1>5. UNCHANGED fwd => \A g \in Forwarder : Run(fwd'[g])
    BY <1>2
<1> HIDE DEF Run
<1>6. \A g \in Forwarder : Run(fwd'[g])
    BY <1>3, <1>4, <1>5 DEF Next, vars
<1>7. QED
    BY <1>1, <1>6 DEF CopiesDescend, Run, Above

LEMMA PromptIsHeldStep ==
    ASSUME NEW depth \in [Session -> Nat], TypeOK, CopiesDescend(depth), PromptIsHeld, [Next]_vars
    PROVE  PromptIsHeld'
<1> SUFFICES ASSUME NEW i \in Id, Exists(pending'[SourceOf(i)][i]), ~RmMayFail
             PROVE  \E b \in Broker : IdOf[b] = i /\ (Holding(b)' \/ bpc'[b] = "killed")
    BY DEF PromptIsHeld, SourceOf
<1>a. SourceOf(i) \in Session /\ bpc \in [Broker -> BrokerPC] /\ pending \in [Session -> [Id -> File]]
    BY SpoolConstants DEF SourceOf, TypeOK, SpoolTypeOK, BrokerTypeOK
<1>1. CASE Exists(pending[SourceOf(i)][i])
    <2>1. PICK c \in Broker : IdOf[c] = i /\ (Holding(c) \/ bpc[c] = "killed")
        BY <1>1 DEF PromptIsHeld
    <2>2. ASSUME NEW b \in Broker, BrokerNext(b) PROVE Holding(c)' \/ bpc'[c] = "killed"
        <3>1. ~(RemovePending(b) /\ b = c)
            <4>1. ASSUME RemovePending(c) PROVE pending'[SourceOf(i)][i] = NoFile
                BY <1>a, <2>1, <4>1 DEF RemovePending, SetPending, Src
            <4>2. QED
                BY <4>1, FileStates
        <3>2. QED
            BY <1>a, <2>1, <2>2, <3>1 DEF BrokerNext, BrokerStep, RejectStdin, Accept, EnsureSession, OpenMeta,
                 FillMeta, Scan, GoOn, ReadMarker, PruneMarker, Climb, Stage, FillPending, PollHit, PollTimeout, ReadDecided, AutoDeny,
                 FillAutoDeny, RemovePending, RemoveDecided, RemoveFails, BrokerKilled, Goto, Holding
    <2>3. UNCHANGED bpc => Holding(c)' \/ bpc'[c] = "killed"
        BY <2>1 DEF Holding
    <2>4. QED
        BY <2>1, <2>2, <2>3 DEF Next, brokerVars, vars
<1>2. ASSUME NEW b \in Broker, IdOf[b] = i, bpc'[b] = "stageFill"
      PROVE  \E c \in Broker : IdOf[c] = i /\ (Holding(c)' \/ bpc'[c] = "killed")
    BY <1>2 DEF Holding
<1>3. ASSUME NEW f \in Forwarder, fwd[f].pc = "publish", fwd[f].parent = SourceOf(i), fwd[f].id = i
      PROVE  FALSE
    <2>1. fwd[f].session \in Session
        BY <1>3 DEF TypeOK, ForwarderTypeOK
    <2>2. /\ depth[SourceOf(i)] < depth[fwd[f].session]
          /\ fwd[f].session = SourceOf(i) \/ depth[fwd[f].session] < depth[SourceOf(i)]
        BY <1>3 DEF CopiesDescend, Climbing, Above
    <2>3. depth[SourceOf(i)] \in Nat /\ depth[fwd[f].session] \in Nat
        BY <1>a, <2>1
    <2>4. QED
        BY <2>2, <2>3
<1>4. QED
    BY <1>1, <1>2, <1>3, <1>a, PromptAppears

(* However its brokers came to their answer - a verdict, a deadline, a     *)
(* malformed file - no prompt stays behind in the session of a finished    *)
(* ask, as long as no session is its own ancestor: a copy that travelled   *)
(* round a cycle of links would outlive the ask.                           *)
THEOREM FinishedGone ==
    ASSUME NEW depth \in [Session -> Nat], Descends(depth)
    PROVE  Spec => []FinishedAsksAreGone
<1> DEFINE Inv == LinksDescend(depth) /\ CopiesDescend(depth) /\ PromptIsHeld
<1>1. Init => Inv
    <2> SUFFICES ASSUME Init PROVE Inv
        OBVIOUS
    <2>1. LinksDescend(depth)
        BY DEF Init, SpoolInit, LinksDescend, Descends
    <2>2. \A s \in Session, i \in Id : ~Exists(pending[s][i])
        BY FileStates DEF Init, SpoolInit
    <2>3. \A i \in Id : SourceOf(i) \in Session
        BY SpoolConstants DEF SourceOf
    <2>4. \A f \in Forwarder : fwd[f].pc = "idle"
        BY DEF Init, ForwarderInit
    <2>5. QED
        BY <2>1, <2>2, <2>3, <2>4 DEF CopiesDescend, PromptIsHeld, Climbing
<1>2. TypeOK /\ Inv /\ [Next]_vars => Inv'
    BY LinksStep, CopiesStep, PromptIsHeldStep
<1>3. Inv => FinishedAsksAreGone
    BY DEF PromptIsHeld, FinishedAsksAreGone, Holding
<1> HIDE DEF Inv
<1>4. QED
    BY <1>1, <1>2, <1>3, TypeCorrect, PTL DEF Spec

----------------------------------------------------------------------------
(* Where answers come from.                                                *)

(* Every response anywhere - in a file, in a broker's hands, in a          *)
(* forwarder's hands - is whole and backed.  AnswersAreBacked alone is not *)
(* inductive: a broker answers what it finds in a file, which a forwarder  *)
(* copied from another.                                                    *)
FilesBacked ==
    \A s \in Session, i \in Id :
        Readable(decided[s][i]) =>
            decided[s][i].resp \in Response /\ Backed(told, fwd, i, decided[s][i].resp)

HeldBacked ==
    \A b \in Broker : bpc[b] \in {"autoFill", "rmPending", "rmDecided", "done"} =>
        out[b] \in Response /\ Backed(told, fwd, IdOf[b], out[b])

ForwardedBacked ==
    \A f \in Forwarder : fwd[f].pc \in {"copy", "copyFill"} =>
        fwd[f].resp \in Response /\ Backed(told, fwd, fwd[f].id, fwd[f].resp)

Provenance == FilesBacked /\ HeldBacked /\ ForwardedBacked

(* A run of forwardUp has no response before it settles on one, and then   *)
(* never another: needed for the responses others hold in its name.        *)
FreshResponse ==
    \A f \in Forwarder :
        fwd[f].pc \in {"idle", "read", "lookup", "ensure", "metaOpen", "metaFill", "publish",
                      "publishFill", "poll", "take"} => fwd[f].resp = NoResponse

Grows ==
    /\ told \subseteq told'
    /\ \A f \in Forwarder : fwd[f].resp # NoResponse =>
          fwd'[f].resp = fwd[f].resp /\ fwd'[f].id = fwd[f].id

(* A run's step leaves the other runs alone.                               *)
LEMMA OneRunSteps ==
    ASSUME TypeOK, NEW f \in Forwarder, ForwarderStep(f) \/ ForwarderKilled(f),
           NEW g \in Forwarder, g # f
    PROVE  fwd'[g] = fwd[g]
<1>a. \A r : [fwd EXCEPT ![f] = r][g] = fwd[g]
    BY DEF TypeOK, ForwarderTypeOK
<1>b. \A pc : FGoto(f, pc) => fwd'[g] = fwd[g]
    BY <1>a DEF FGoto
<1>1. CASE LookupParent(f)
    BY <1>1, <1>a DEF LookupParent
<1>2. CASE ForwardTimeout(f)
    BY <1>2, <1>a DEF ForwardTimeout
<1>3. CASE TakeVerdict(f)
    BY <1>3, <1>a, <1>b DEF TakeVerdict
<1>4. CASE ~LookupParent(f) /\ ~ForwardTimeout(f) /\ ~TakeVerdict(f)
    BY <1>4, <1>b DEF ForwarderStep, ForwarderKilled, ReadPending, EnsureParent, OpenParentMeta, FillParentMeta,
         Publish, FillPublished, ParentHit, CopyDown, FillCopy
<1>5. QED
    BY <1>1, <1>2, <1>3, <1>4

LEMMA FreshResponseStep == TypeOK /\ FreshResponse /\ [Next]_vars => FreshResponse'
<1> SUFFICES ASSUME TypeOK, FreshResponse, [Next]_vars PROVE FreshResponse'
    OBVIOUS
<1>a. fwd \in [Forwarder -> [pc : ForwarderPC, session : Session \cup {None}, id : Id \cup {None},
                             parent : Session \cup {None}, resp : Response \cup {NoResponse}]]
    BY DEF TypeOK, ForwarderTypeOK
<1>1. ASSUME NEW f \in Forwarder, ForwarderStep(f) \/ ForwarderKilled(f)
      PROVE  FreshResponse'
    <2>1. \A g \in Forwarder : g # f => fwd'[g] = fwd[g]
        BY <1>1, OneRunSteps
    <2>2. fwd'[f].pc \in {"idle", "read", "lookup", "ensure", "metaOpen", "metaFill", "publish",
                          "publishFill", "poll", "take"} => fwd'[f].resp = NoResponse
        BY <1>1, <1>a DEF FreshResponse, ForwarderStep, ForwarderKilled, ReadPending, LookupParent, EnsureParent,
             OpenParentMeta, FillParentMeta, Publish, FillPublished, ParentHit, ForwardTimeout, TakeVerdict,
             CopyDown, FillCopy, FGoto
    <2>3. QED
        BY <2>1, <2>2 DEF FreshResponse
<1>2. ASSUME NEW l \in Listener, NEW f \in Forwarder, NEW row \in rows[l], NEW s \in Session,
             EscalateUp(l, f, row, s)
      PROVE  FreshResponse'
    BY <1>2, <1>a DEF FreshResponse, EscalateUp, ForwardStart
<1>3. CASE UNCHANGED fwd
    BY <1>3 DEF FreshResponse
<1>4. QED
    BY <1>1, <1>2, <1>3 DEF Next, vars

LEMMA GrowsStep == TypeOK /\ FreshResponse /\ [Next]_vars => Grows
<1> SUFFICES ASSUME TypeOK, FreshResponse, [Next]_vars PROVE Grows
    OBVIOUS
<1>a. fwd \in [Forwarder -> [pc : ForwarderPC, session : Session \cup {None}, id : Id \cup {None},
                             parent : Session \cup {None}, resp : Response \cup {NoResponse}]]
    BY DEF TypeOK, ForwarderTypeOK
<1>1. told \subseteq told'
    <2>1. ASSUME NEW l \in Listener, ListenerNext(l) PROVE told \subseteq told'
        BY <2>1 DEF ListenerNext, ListenerPoll, SubmitFor, OpenMarker, FillMarker, ListPending,
             SubmitDecision, FillDecision, ListenerExit, ListenerCrash, listenerVars
    <2>2. QED
        BY <2>1 DEF Next, listenerVars, vars
<1>2. ASSUME NEW g \in Forwarder, fwd[g].resp # NoResponse
      PROVE  fwd'[g].resp = fwd[g].resp /\ fwd'[g].id = fwd[g].id
    <2>1. ASSUME NEW f \in Forwarder, ForwarderStep(f) \/ ForwarderKilled(f)
          PROVE  fwd'[g].resp = fwd[g].resp /\ fwd'[g].id = fwd[g].id
        <3>1. CASE g # f
            BY <2>1, <3>1, OneRunSteps
        <3>2. CASE g = f
            BY <2>1, <3>2, <1>2, <1>a DEF FreshResponse, ForwarderStep, ForwarderKilled, ReadPending, LookupParent,
                 EnsureParent, OpenParentMeta, FillParentMeta, Publish, FillPublished, ParentHit, ForwardTimeout,
                 TakeVerdict, CopyDown, FillCopy, FGoto
        <3>3. QED
            BY <3>1, <3>2
    <2>2. ASSUME NEW l \in Listener, NEW f \in Forwarder, NEW row \in rows[l], NEW s \in Session,
                 EscalateUp(l, f, row, s)
          PROVE  fwd'[g].resp = fwd[g].resp /\ fwd'[g].id = fwd[g].id
        BY <2>2, <1>2, <1>a DEF FreshResponse, EscalateUp, ForwardStart
    <2>3. QED
        BY <2>1, <2>2 DEF Next, vars
<1>3. QED
    BY <1>1, <1>2 DEF Grows

(* Verdicts are only ever added and runs keep their word, so what is       *)
(* backed stays backed.                                                    *)
LEMMA BackedGrows ==
    ASSUME Grows, NEW i, NEW r \in Response, Backed(told, fwd, i, r)
    PROVE  Backed(told', fwd', i, r)
<1>1. r # NoResponse
    BY DEF Response, NoResponse, Decisions
<1>2. QED
    BY <1>1 DEF Backed, Grows

(* A broker makes up denies only, a forwarder never an allow.              *)
LEMMA OwnAnswers ==
    \A verdicts, runs, i :
        /\ \A b \in Broker :
              Answer("deny", b) \in Response /\ Backed(verdicts, runs, i, Answer("deny", b))
        /\ \A f \in Forwarder, d \in {"deny", "harness-ask"} :
              /\ Answer(d, f) \in Response
              /\ runs[f].id = i /\ runs[f].resp = Answer(d, f) => Backed(verdicts, runs, i, Answer(d, f))
<1>1. \A b \in Broker : Answer("deny", b) \in Response
    BY Processes, AnswerTypes DEF Decisions
<1>2. \A f \in Forwarder, d \in {"deny", "harness-ask"} : Answer(d, f) \in Response
    BY Processes, AnswerTypes DEF Decisions
<1>3. \A p, d : Answer(d, p).by = p /\ Answer(d, p).decision = d
    BY DEF Answer
<1>4. QED
    BY <1>1, <1>2, <1>3, Processes DEF Backed

LEMMA ProvenanceBroker ==
    ASSUME TypeOK, Provenance, Grows, NEW b \in Broker, BrokerNext(b), UNCHANGED fwd
    PROVE  HeldBacked' /\ ForwardedBacked'
<1>a. IdOf[b] \in Id /\ Src(b) \in Session
    BY Sources
<1>b. bpc \in [Broker -> BrokerPC] /\ out \in [Broker -> Response \cup {NoResponse}]
    BY DEF TypeOK, BrokerTypeOK
<1>1. ForwardedBacked'
    BY BackedGrows DEF Provenance, ForwardedBacked
<1>2. ASSUME NEW c \in Broker, c # b, bpc'[c] \in {"autoFill", "rmPending", "rmDecided", "done"}
      PROVE  out'[c] \in Response /\ Backed(told', fwd', IdOf[c], out'[c])
    <2>1. bpc'[c] = bpc[c] /\ out'[c] = out[c]
        BY <1>2, <1>b DEF BrokerNext, BrokerStep, RejectStdin, Accept, EnsureSession, OpenMeta, FillMeta,
             Scan, GoOn, ReadMarker, PruneMarker, Climb, Stage, FillPending, PollHit, PollTimeout, ReadDecided, AutoDeny, FillAutoDeny,
             RemovePending, RemoveDecided, RemoveFails, BrokerKilled, Goto, Deny
    <2>2. QED
        BY <1>2, <2>1, BackedGrows DEF Provenance, HeldBacked
<1>3. ASSUME bpc'[b] \in {"autoFill", "rmPending", "rmDecided", "done"}
      PROVE  out'[b] \in Response /\ Backed(told', fwd', IdOf[b], out'[b])
    <2>1. CASE Deny(b)
        <3>1. out'[b] = Answer("deny", b)
            BY <2>1, <1>b DEF Deny
        <3>2. QED
            BY <3>1, <1>a, OwnAnswers, BackedGrows
    <2>2. CASE ReadDecided(b) /\ Readable(Decided(b))
        <3>1. out'[b] = Decided(b).resp
            BY <2>2, <1>b DEF ReadDecided
        <3>2. QED
            BY <3>1, <2>2, <1>a, BackedGrows DEF Provenance, FilesBacked, Decided
    <2>3. CASE ReadDecided(b) /\ ~Readable(Decided(b))
        BY <2>3, <1>3, <1>b DEF ReadDecided, Goto
    <2>4. CASE FillAutoDeny(b) \/ RemovePending(b) \/ RemoveDecided(b) \/ RemoveFails(b)
        <3>1. bpc[b] \in {"autoFill", "rmPending", "rmDecided", "done"} /\ out'[b] = out[b]
            BY <2>4 DEF FillAutoDeny, RemovePending, RemoveDecided, RemoveFails
        <3>2. QED
            BY <3>1, BackedGrows DEF Provenance, HeldBacked
    <2>5. CASE ~Deny(b) /\ ~ReadDecided(b) /\ ~FillAutoDeny(b) /\ ~RemovePending(b)
               /\ ~RemoveDecided(b) /\ ~RemoveFails(b)
        BY <2>5, <1>3, <1>b DEF BrokerNext, BrokerStep, RejectStdin, Accept, EnsureSession, OpenMeta,
             FillMeta, Scan, GoOn, ReadMarker, PruneMarker, Climb, Stage, FillPending, PollHit, PollTimeout, AutoDeny, BrokerKilled, Goto
    <2>6. QED
        BY <2>1, <2>2, <2>3, <2>4, <2>5
<1>4. QED
    BY <1>1, <1>2, <1>3 DEF HeldBacked

LEMMA ProvenanceForwarder ==
    ASSUME TypeOK, Provenance, Grows, NEW f \in Forwarder,
           ForwarderStep(f) \/ ForwarderKilled(f), UNCHANGED brokerVars
    PROVE  HeldBacked' /\ ForwardedBacked'
<1>a. fwd[f].pc # "idle" => fwd[f].session \in Session /\ fwd[f].id \in Id
    BY DEF TypeOK, ForwarderTypeOK
<1>b. \A g \in Forwarder : g # f => fwd'[g] = fwd[g]
    BY OneRunSteps
<1>1. HeldBacked'
    BY BackedGrows DEF Provenance, HeldBacked, brokerVars
<1>2. ASSUME NEW g \in Forwarder, g # f, fwd'[g].pc \in {"copy", "copyFill"}
      PROVE  fwd'[g].resp \in Response /\ Backed(told', fwd', fwd'[g].id, fwd'[g].resp)
    BY <1>2, <1>b, BackedGrows DEF Provenance, ForwardedBacked
<1>3. ASSUME fwd'[f].pc \in {"copy", "copyFill"}
      PROVE  fwd'[f].resp \in Response /\ Backed(told', fwd', fwd'[f].id, fwd'[f].resp)
    <2>a. fwd \in [Forwarder -> [pc : ForwarderPC, session : Session \cup {None}, id : Id \cup {None},
                                 parent : Session \cup {None}, resp : Response \cup {NoResponse}]]
        BY DEF TypeOK, ForwarderTypeOK
    <2>1. CASE LookupParent(f)
        <3>1. fwd'[f].id = fwd[f].id /\ fwd'[f].resp = Answer("harness-ask", f) /\ fwd[f].id \in Id
            BY <1>3, <1>a, <2>a, <2>1 DEF LookupParent
        <3>2. QED
            BY <3>1, OwnAnswers, BackedGrows
    <2>2. CASE ForwardTimeout(f)
        <3>1. fwd'[f].id = fwd[f].id /\ fwd'[f].resp = Answer("deny", f) /\ fwd[f].id \in Id
            BY <1>a, <2>a, <2>2 DEF ForwardTimeout
        <3>2. QED
            BY <3>1, OwnAnswers, BackedGrows
    <2>3. CASE TakeVerdict(f)
        <3>1. /\ Readable(ParentDecided(f)) /\ fwd'[f].id = fwd[f].id
              /\ fwd'[f].resp = ParentDecided(f).resp
            BY <1>3, <2>a, <2>3 DEF TakeVerdict, FGoto
        <3>2. fwd[f].parent \in Session /\ fwd[f].id \in Id
            BY <2>3 DEF TakeVerdict, TypeOK, ForwarderTypeOK
        <3>3. QED
            BY <3>1, <3>2, BackedGrows DEF Provenance, FilesBacked, ParentDecided
    <2>4. CASE CopyDown(f)
        <3>1. fwd[f].pc = "copy" /\ fwd'[f].id = fwd[f].id /\ fwd'[f].resp = fwd[f].resp
            BY <2>a, <2>4 DEF CopyDown, FGoto
        <3>2. QED
            BY <3>1, BackedGrows DEF Provenance, ForwardedBacked
    <2>5. CASE ~(LookupParent(f) \/ ForwardTimeout(f) \/ TakeVerdict(f) \/ CopyDown(f))
        BY <1>3, <2>a, <2>5 DEF ForwarderStep, ForwarderKilled, ReadPending, EnsureParent, OpenParentMeta,
             FillParentMeta, Publish, FillPublished, ParentHit, FillCopy, FGoto
    <2>6. QED
        BY <2>1, <2>2, <2>3, <2>4, <2>5
<1>4. QED
    BY <1>1, <1>2, <1>3 DEF ForwardedBacked

(* A readable file is one whose bytes have just been written, or the one   *)
(* that was there.                                                         *)
LEMMA ReadableAfter ==
    /\ ~Readable(NoFile)
    /\ \A p : ~Readable(Created(p))
    /\ \A file, p, r : Fill(file, p, r) = file \/ Fill(file, p, r).resp = r
BY DEF Readable, NoFile, Created, Fill, Written

LEMMA ProvenanceFiles ==
    ASSUME TypeOK, Provenance, Grows, [Next]_vars
    PROVE  FilesBacked'
<1> SUFFICES ASSUME NEW s \in Session, NEW i \in Id, Readable(decided'[s][i])
             PROVE  decided'[s][i].resp \in Response /\ Backed(told', fwd', i, decided'[s][i].resp)
    BY DEF FilesBacked
<1>a. decided \in [Session -> [Id -> File]]
    BY DEF TypeOK, SpoolTypeOK
<1>b. ASSUME decided'[s][i] = decided[s][i]
      PROVE  decided'[s][i].resp \in Response /\ Backed(told', fwd', i, decided'[s][i].resp)
    BY <1>b, BackedGrows DEF Provenance, FilesBacked
<1>1. ASSUME NEW b \in Broker, FillAutoDeny(b)
      PROVE  decided'[s][i].resp \in Response /\ Backed(told', fwd', i, decided'[s][i].resp)
    <2>1. out[b] \in Response /\ Backed(told', fwd', IdOf[b], out[b])
        BY <1>1, BackedGrows DEF FillAutoDeny, Provenance, HeldBacked
    <2>2. \/ decided'[s][i] = decided[s][i]
          \/ i = IdOf[b] /\ decided'[s][i] = Fill(decided[s][i], b, out[b])
        BY <1>a, <1>1, Sources DEF FillAutoDeny, SetDecided, Decided
    <2>3. QED
        BY <1>b, <2>1, <2>2, ReadableAfter
<1>2. ASSUME NEW f \in Forwarder, FillCopy(f)
      PROVE  decided'[s][i].resp \in Response /\ Backed(told', fwd', i, decided'[s][i].resp)
    <2>1. fwd[f].resp \in Response /\ Backed(told', fwd', fwd[f].id, fwd[f].resp)
        BY <1>2, BackedGrows DEF FillCopy, Provenance, ForwardedBacked
    <2>2. fwd[f].session \in Session /\ fwd[f].id \in Id
        BY <1>2 DEF FillCopy, TypeOK, ForwarderTypeOK
    <2>3. \/ decided'[s][i] = decided[s][i]
          \/ i = fwd[f].id /\ decided'[s][i] = Fill(decided[s][i], f, fwd[f].resp)
        BY <1>a, <1>2, <2>2 DEF FillCopy
    <2>4. QED
        BY <1>b, <2>1, <2>3, ReadableAfter
<1>3. ASSUME NEW l \in Listener, FillDecision(l)
      PROVE  decided'[s][i].resp \in Response /\ Backed(told', fwd', i, decided'[s][i].resp)
    <2> DEFINE a == at[l]
               r == Answer(a.decision, l)
               v == [by |-> l, session |-> a.session, id |-> a.id, decision |-> a.decision]
    <2>1. a.session \in Session /\ a.id \in Id /\ a.decision \in Decisions
        BY <1>3 DEF FillDecision, TypeOK, ListenerTypeOK, Target, UserDecisions, Decisions
    <2>2. r \in Response /\ r.by = l /\ r.decision = a.decision
        BY <2>1, Processes, AnswerTypes DEF Answer
    <2>3. v \in told' /\ v.by = l /\ v.id = a.id /\ v.decision = a.decision
        BY <1>3 DEF FillDecision
    <2>4. Backed(told', fwd', a.id, r)
        BY <2>2, <2>3, Processes DEF Backed
    <2>5. \/ decided'[s][i] = decided[s][i]
          \/ i = a.id /\ decided'[s][i] = Fill(decided[s][i], l, r)
        BY <1>a, <1>3, <2>1 DEF FillDecision
    <2>6. QED
        BY <1>b, <2>2, <2>4, <2>5, ReadableAfter
<1>4. ASSUME decided'[s][i] = NoFile \/ \E p : decided'[s][i] = Created(p)
      PROVE  FALSE
    BY <1>4, ReadableAfter
<1>5. ASSUME NEW b \in Broker, BrokerNext(b), ~FillAutoDeny(b)
      PROVE  decided'[s][i] = decided[s][i] \/ decided'[s][i] = NoFile \/ decided'[s][i] = Created(b)
    <2>1. CASE AutoDeny(b)
        BY <2>1, <1>a, Sources DEF AutoDeny, SetDecided, spool
    <2>2. CASE RemoveDecided(b)
        BY <2>2, <1>a, Sources DEF RemoveDecided, SetDecided
    <2>3. ASSUME ~AutoDeny(b), ~RemoveDecided(b)
          PROVE  decided' = decided
        BY <1>5, <2>3 DEF BrokerNext, BrokerStep, RejectStdin, Accept, EnsureSession, OpenMeta, FillMeta, Scan, GoOn, ReadMarker, PruneMarker,
             Climb, Stage, FillPending, PollHit, PollTimeout, ReadDecided, RemovePending, RemoveFails,
             BrokerKilled, spool
    <2>4. QED
        BY <2>1, <2>2, <2>3
<1>6. ASSUME NEW f \in Forwarder, ForwarderStep(f) \/ ForwarderKilled(f), ~FillCopy(f)
      PROVE  decided'[s][i] = decided[s][i] \/ decided'[s][i] = Created(f)
    <2>1. CASE CopyDown(f)
        BY <2>1, <1>a DEF CopyDown
    <2>2. CASE ~CopyDown(f)
        BY <1>6, <2>2 DEF ForwarderStep, ForwarderKilled, ReadPending, LookupParent, EnsureParent,
             OpenParentMeta, FillParentMeta, Publish, FillPublished, ParentHit, ForwardTimeout, TakeVerdict, spool
    <2>3. QED
        BY <2>1, <2>2
<1>7. ASSUME NEW l \in Listener, ListenerNext(l), ~FillDecision(l)
      PROVE  decided'[s][i] = decided[s][i] \/ decided'[s][i] = Created(l)
    <2>1. ASSUME NEW row \in rows[l], NEW t \in Session, NEW d \in UserDecisions,
                 SubmitDecision(l, row, t, d)
          PROVE  decided'[s][i] = decided[s][i] \/ decided'[s][i] = Created(l)
        BY <2>1, <1>a DEF SubmitDecision
    <2>2. ASSUME UNCHANGED decided
          PROVE  decided'[s][i] = decided[s][i]
        BY <2>2
    <2>3. QED
        BY <1>7, <2>1, <2>2 DEF ListenerNext, ListenerPoll, SubmitFor, OpenMarker, FillMarker, ListPending,
             ListenerExit, ListenerCrash, spool
<1>8. ASSUME NEW l \in Listener, NEW f \in Forwarder, NEW row \in rows[l], NEW t \in Session,
             EscalateUp(l, f, row, t)
      PROVE  decided'[s][i] = decided[s][i]
    BY <1>8 DEF EscalateUp, ForwardStart, spool
<1>9. CASE UNCHANGED vars
    BY <1>9, <1>b DEF vars, spool
<1>10. QED
    BY <1>b, <1>1, <1>2, <1>3, <1>4, <1>5, <1>6, <1>7, <1>8, <1>9 DEF Next

LEMMA ProvenanceStep == TypeOK /\ Provenance /\ FreshResponse /\ [Next]_vars => Provenance'
<1> SUFFICES ASSUME TypeOK, Provenance, FreshResponse, [Next]_vars PROVE Provenance'
    OBVIOUS
<1>1. Grows
    BY GrowsStep
<1>2. FilesBacked'
    BY <1>1, ProvenanceFiles
<1>3. HeldBacked' /\ ForwardedBacked'
    <2>1. ASSUME NEW b \in Broker, BrokerNext(b), UNCHANGED <<listenerVars, fwd>>
          PROVE  HeldBacked' /\ ForwardedBacked'
        BY <2>1, <1>1, ProvenanceBroker
    <2>2. ASSUME NEW f \in Forwarder, ForwarderStep(f) \/ ForwarderKilled(f),
                 UNCHANGED <<brokerVars, listenerVars>>
          PROVE  HeldBacked' /\ ForwardedBacked'
        BY <2>2, <1>1, ProvenanceForwarder
    <2>3. ASSUME UNCHANGED <<brokerVars, fwd>>
          PROVE  HeldBacked' /\ ForwardedBacked'
        BY <2>3, <1>1, BackedGrows DEF Provenance, HeldBacked, ForwardedBacked, brokerVars
    <2>4. ASSUME NEW l \in Listener, NEW f \in Forwarder, NEW row \in rows[l], NEW t \in Session,
                 EscalateUp(l, f, row, t), UNCHANGED <<brokerVars, listenerVars>>
          PROVE  HeldBacked' /\ ForwardedBacked'
        <3>1. fwd \in [Forwarder -> [pc : ForwarderPC, session : Session \cup {None}, id : Id \cup {None},
                                 parent : Session \cup {None}, resp : Response \cup {NoResponse}]]
            BY DEF TypeOK, ForwarderTypeOK
        <3>2. \A g \in Forwarder : fwd'[g].pc \in {"copy", "copyFill"} => fwd'[g] = fwd[g]
            BY <2>4, <3>1 DEF EscalateUp, ForwardStart
        <3>3. QED
            BY <2>4, <3>2, <1>1, BackedGrows DEF Provenance, HeldBacked, ForwardedBacked, brokerVars
    <2>5. QED
        BY <2>1, <2>2, <2>3, <2>4 DEF Next, vars
<1>4. QED
    BY <1>2, <1>3 DEF Provenance

LEMMA ProvenanceInit == Init => Provenance /\ FreshResponse
BY ReadableAfter DEF Init, SpoolInit, BrokerInit, ForwarderInit, Provenance, FilesBacked, HeldBacked,
   ForwardedBacked, FreshResponse

(* No silent allow: whatever tears, times out, dies or races, a broker     *)
(* prints an answer somebody entitled to it gave for that very ask.        *)
THEOREM NoSilentAllow == Spec => []AnswersAreBacked
<1>1. Provenance => AnswersAreBacked
    BY DEF Provenance, HeldBacked, AnswersAreBacked
<1>2. QED
    BY <1>1, ProvenanceInit, TypeCorrect, FreshResponseStep, ProvenanceStep, PTL DEF Spec
----------------------------------------------------------------------------
(* Markers.                                                                *)

(* registerListener has opened the marker of s for l and will not open it  *)
(* again: s stands in the cleanups map, or is about to.                    *)
Claimed(s, l) == s \in registered[l] \/ (lpc[l] = "mark" /\ at[l].session = s)

(* A scan is about to remove l's marker of s.                              *)
Pruning(s, l) == \E b \in Broker : bpc[b] = "prune" /\ walk[b].current = s /\ walk[b].stale = l

(* What a step may do to one marker: it is opened once; a filled one goes  *)
(* by its listener's exit or by a scan that has judged it.                 *)
MarkerMoves(s, l) ==
    /\ Claimed(s, l) => Claimed(s, l)'
    /\ marker'[s][l] # "absent" => marker[s][l] # "absent" \/ Claimed(s, l)'
    /\ Claimed(s, l) /\ marker[s][l] = "absent" => marker'[s][l] = "absent"
    /\ marker[s][l] = "full" /\ l \in alive' /\ marker'[s][l] # "full" => Pruning(s, l)
    /\ l \in alive' => l \in alive

MarkersClaimed == \A s \in Session, l \in Listener : marker[s][l] # "absent" => Claimed(s, l)

LEMMA MarkerStep ==
    ASSUME TypeOK, MarkersClaimed, [Next]_vars, NEW s \in Session, NEW l \in Listener
    PROVE  MarkerMoves(s, l)
<1>a. /\ marker \in [Session -> [Listener -> Marker]]
      /\ registered \in [Listener -> SUBSET Session]
      /\ lpc \in [Listener -> {"run", "mark", "submit"}]
    BY DEF TypeOK, SpoolTypeOK, ListenerTypeOK
<1>b. marker[s][l] # "absent" => Claimed(s, l)
    BY DEF MarkersClaimed
<1>c. UNCHANGED <<marker, alive, registered, lpc, at>> => MarkerMoves(s, l)
    BY DEF MarkerMoves, Claimed
<1>1. ASSUME NEW b \in Broker, BrokerNext(b), UNCHANGED <<listenerVars, fwd>>
      PROVE  MarkerMoves(s, l)
    <2>1. CASE PruneMarker(b)
        <3>1. UNCHANGED <<alive, registered, lpc, at>> /\ bpc[b] = "prune"
            BY <1>1, <2>1 DEF PruneMarker, listenerVars
        <3>2. marker'[s][l] = marker[s][l]
                \/ (marker'[s][l] = "absent" /\ s = walk[b].current /\ l = walk[b].stale)
            BY <1>a, <2>1 DEF PruneMarker
        <3>3. QED
            BY <3>1, <3>2 DEF MarkerMoves, Claimed, Pruning
    <2>2. CASE ~PruneMarker(b)
        BY <1>1, <2>2, <1>c DEF BrokerNext, BrokerStep, RejectStdin, Accept, EnsureSession, OpenMeta,
             FillMeta, Scan, GoOn, ReadMarker, Climb, Stage, FillPending, PollHit, PollTimeout, ReadDecided,
             AutoDeny, FillAutoDeny, RemovePending, RemoveDecided, RemoveFails, BrokerKilled,
             listenerVars, spool
    <2>3. QED
        BY <2>1, <2>2
<1>2. ASSUME NEW k \in Listener, ListenerNext(k)
      PROVE  MarkerMoves(s, l)
    <2>1. ASSUME NEW q \in Session, OpenMarker(k, q)
          PROVE  MarkerMoves(s, l)
        <3>1. UNCHANGED <<alive, registered>> /\ q \notin registered[k] /\ lpc[k] = "run"
            BY <2>1 DEF OpenMarker, Running
        <3>2. IF s = q /\ l = k THEN marker'[s][l] = "empty" ELSE marker'[s][l] = marker[s][l]
            BY <1>a, <2>1 DEF OpenMarker
        <3>3. /\ l = k => lpc'[l] = "mark" /\ at'[l].session = q /\ lpc[l] = "run"
              /\ l # k => lpc'[l] = lpc[l] /\ at'[l] = at[l]
            <4>1. at \in [Listener -> [session : Session \cup {None}, id : Id \cup {None},
                                      decision : Decisions \cup {"none"}]]
                BY DEF TypeOK, ListenerTypeOK
            <4>2. QED
                BY <1>a, <4>1, <2>1 DEF OpenMarker, Running, NoTarget
        <3>4. CASE l = k
            BY <1>b, <3>1, <3>2, <3>3, <3>4 DEF MarkerMoves, Claimed
        <3>5. CASE l # k
            BY <3>1, <3>2, <3>3, <3>5 DEF MarkerMoves, Claimed
        <3>6. QED
            BY <3>4, <3>5
    <2>2. CASE FillMarker(k)
        <3>1. registered'[l] = IF l = k THEN registered[l] \cup {at[k].session} ELSE registered[l]
            BY <1>a, <2>2 DEF FillMarker
        <3>2. IF s = at[k].session /\ l = k /\ marker[s][l] = "empty"
              THEN marker'[s][l] = "full" ELSE marker'[s][l] = marker[s][l]
            BY <1>a, <2>2 DEF FillMarker
        <3>3. /\ UNCHANGED <<alive, at>>
              /\ l # k => lpc'[l] = lpc[l]
            BY <1>a, <2>2 DEF FillMarker
        <3>4. QED
            BY <3>1, <3>2, <3>3 DEF MarkerMoves, Claimed
    <2>3. CASE ListenerExit(k)
        <3>1. UNCHANGED <<registered, lpc, at>> /\ alive' = alive \ {k}
            BY <2>3 DEF ListenerExit, listenerVars
        <3>2. marker'[s][l] = marker[s][l] \/ (marker'[s][l] = "absent" /\ l = k)
            BY <1>a, <2>3 DEF ListenerExit
        <3>3. QED
            BY <3>1, <3>2 DEF MarkerMoves, Claimed
    <2>4. CASE ListenerCrash(k)
        BY <2>4 DEF ListenerCrash, listenerVars, MarkerMoves, Claimed
    <2>5. CASE FillDecision(k) \/ \E i \in Id : SubmitFor(k, i)
        <3>1. UNCHANGED <<marker, alive, registered>>
            BY <2>5 DEF FillDecision, SubmitFor, SubmitDecision
        <3>2. lpc[l] = "mark" => lpc'[l] = "mark" /\ at'[l] = at[l]
            <4>1. CASE FillDecision(k)
                BY <1>a, <4>1 DEF FillDecision
            <4>2. ASSUME NEW i \in Id, NEW row \in rows[k], NEW q \in Session, NEW d \in UserDecisions,
                         SubmitDecision(k, row, q, d)
                  PROVE  lpc[l] = "mark" => lpc'[l] = "mark" /\ at'[l] = at[l]
                <5>1. lpc[k] = "run"
                    BY <4>2 DEF SubmitDecision, Running
                <5>2. UNCHANGED <<lpc, at>>
                        \/ \E x : lpc' = [lpc EXCEPT ![k] = "submit"] /\ at' = [at EXCEPT ![k] = x]
                    BY <4>2, Zenon DEF SubmitDecision
                <5>3. at \in [Listener -> [session : Session \cup {None}, id : Id \cup {None},
                                          decision : Decisions \cup {"none"}]]
                    BY DEF TypeOK, ListenerTypeOK
                <5>4. QED
                    BY <1>a, <5>1, <5>2, <5>3
            <4>3. QED
                BY <2>5, <4>1, <4>2 DEF SubmitFor
        <3>3. QED
            BY <3>1, <3>2 DEF MarkerMoves, Claimed
    <2>6. CASE \E q \in Session, i \in Id : ListPending(k, q, i)
        BY <2>6, <1>c DEF ListPending, spool
    <2>7. QED
        BY <1>2, <2>1, <2>2, <2>3, <2>4, <2>5, <2>6 DEF ListenerNext, ListenerPoll
<1>3. ASSUME NEW f \in Forwarder, ForwarderStep(f) \/ ForwarderKilled(f), UNCHANGED <<brokerVars, listenerVars>>
      PROVE  UNCHANGED <<marker, alive, registered, lpc, at>>
    BY <1>3 DEF ForwarderStep, ForwarderKilled, ReadPending, LookupParent, EnsureParent,
         OpenParentMeta, FillParentMeta, Publish, FillPublished, ParentHit, ForwardTimeout, TakeVerdict,
         CopyDown, FillCopy, spool, listenerVars
<1>4. ASSUME NEW k \in Listener, NEW f \in Forwarder, NEW row \in rows[k], NEW q \in Session,
             EscalateUp(k, f, row, q), UNCHANGED <<brokerVars, listenerVars>>
      PROVE  UNCHANGED <<marker, alive, registered, lpc, at>>
    BY <1>4 DEF EscalateUp, ForwardStart, spool, listenerVars
<1>5. CASE UNCHANGED vars
    BY <1>5, <1>c DEF vars, spool, listenerVars
<1>6. QED
    BY <1>1, <1>2, <1>3, <1>4, <1>5, <1>c DEF Next

(* What a scan has noted is still so: every entry it has listed was opened *)
(* by its listener, and the marker it is about to remove was empty, or its *)
(* listener is dead, or it is gone for good.                               *)
NotesHold(b) ==
    /\ bpc[b] \in {"look", "prune"} => \A l \in walk[b].unread : Claimed(walk[b].current, l)
    /\ bpc[b] = "prune" =>
          /\ walk[b].stale \in Listener
          /\ walk[b].saw = "full" => walk[b].stale \notin alive
          /\ walk[b].saw = "absent" =>
                Claimed(walk[b].current, walk[b].stale) /\ marker[walk[b].current][walk[b].stale] = "absent"

ScanNotes == \A b \in Broker : NotesHold(b)

MarkersInv == MarkersClaimed /\ ScanNotes

(* A broker that is in liveListeners has just taken a step of it, or none. *)
LEMMA ScanMoves ==
    ASSUME TypeOK, [Next]_vars, NEW b \in Broker, bpc'[b] \in {"look", "prune"}
    PROVE  \/ bpc'[b] = bpc[b] /\ walk'[b] = walk[b]
           \/ Scan(b) \/ ReadMarker(b) \/ PruneMarker(b)
<1>a. bpc \in [Broker -> BrokerPC] /\ walk \in [Broker -> Walk]
    BY DEF TypeOK, BrokerTypeOK
<1>1. ASSUME NEW c \in Broker, BrokerNext(c)
      PROVE  (bpc'[b] = bpc[b] /\ walk'[b] = walk[b]) \/ Scan(b) \/ ReadMarker(b) \/ PruneMarker(b)
    <2>1. CASE Scan(c) \/ ReadMarker(c) \/ PruneMarker(c)
        <3>1. \E pc, w : Goto(c, pc) /\ walk' = [walk EXCEPT ![c] = w]
            <4>1. CASE Scan(c)
                BY <4>1, Zenon DEF Scan, GoOn
            <4>2. CASE PruneMarker(c)
                BY <4>2, Zenon DEF PruneMarker, GoOn
            <4>3. ASSUME NEW l \in walk[c].unread, ReadMarker(c), ~\E w : walk' = [walk EXCEPT ![c] = w]
                  PROVE  FALSE
                <5>1. \E k : walk' = [walk EXCEPT ![c].unread = @ \ {k}, ![c].stale = k,
                                               ![c].saw = marker[walk[c].current][k]]
                    BY <4>3, Zenon DEF ReadMarker, GoOn
                <5>2. walk' = [walk EXCEPT ![c] = walk'[c]]
                    BY <1>a, <5>1
                <5>. QED BY <4>3, <5>2
            <4>4. ReadMarker(c) => \E l \in walk[c].unread : TRUE
                BY DEF ReadMarker
            <4>5. (\E pc : Goto(c, pc))
                BY <2>1, ScanSteps
            <4>. QED BY <2>1, <4>1, <4>2, <4>3, <4>4, <4>5
        <3>2. c # b => bpc'[b] = bpc[b] /\ walk'[b] = walk[b]
            BY <1>a, <3>1 DEF Goto
        <3>. QED BY <2>1, <3>2
    <2>2. CASE ~(Scan(c) \/ ReadMarker(c) \/ PruneMarker(c))
        <3>1. CASE Climb(c)
            <4>1. \E pc \in {"scan", "done"} : Goto(c, pc)
                BY <3>1 DEF Climb
            <4>2. c # b
                BY <1>a, <4>1 DEF Goto
            <4>3. walk'[b] = walk[b]
                BY <1>a, <3>1, <4>2 DEF Climb
            <4>. QED BY <1>a, <4>1, <4>2, <4>3 DEF Goto
        <3>2. CASE ~Climb(c)
            <4>1. UNCHANGED walk
                BY <1>1, <2>2, <3>2 DEF BrokerNext, BrokerStep, RejectStdin, Accept, EnsureSession, OpenMeta,
                     FillMeta, Stage, FillPending, PollHit, PollTimeout, ReadDecided, AutoDeny, FillAutoDeny,
                     RemovePending, RemoveDecided, RemoveFails, BrokerKilled
            <4>2. \E pc \in BrokerPC \ {"look", "prune"} : Goto(c, pc)
                BY <1>1, <2>2, <3>2 DEF BrokerNext, BrokerStep, RejectStdin, Accept, EnsureSession, OpenMeta,
                     FillMeta, Stage, FillPending, PollHit, PollTimeout, ReadDecided, AutoDeny, FillAutoDeny,
                     RemovePending, RemoveDecided, RemoveFails, BrokerKilled, BrokerPC
            <4>. QED BY <1>a, <4>1, <4>2 DEF Goto
        <3>. QED BY <3>1, <3>2
    <2>. QED BY <2>1, <2>2
<1>2. (~\E c \in Broker : BrokerNext(c)) => bpc'[b] = bpc[b] /\ walk'[b] = walk[b]
    BY DEF Next, vars, brokerVars
<1>3. QED
    BY <1>1, <1>2

LEMMA ScanNotesStep == TypeOK /\ MarkersInv /\ [Next]_vars => MarkersInv'
<1> SUFFICES ASSUME TypeOK, MarkersInv, [Next]_vars PROVE MarkersInv'
    OBVIOUS
<1>a. \A s \in Session, l \in Listener : MarkerMoves(s, l)
    BY MarkerStep DEF MarkersInv
<1>1. MarkersClaimed'
    BY <1>a DEF MarkersInv, MarkersClaimed, MarkerMoves
<1>2. ASSUME NEW b \in Broker, bpc'[b] \in {"look", "prune"}
      PROVE  NotesHold(b)'
    <2>a. /\ walk[b] \in Walk /\ walk[b].current \in Session /\ walk[b].unread \subseteq Listener
          /\ walk \in [Broker -> Walk] /\ bpc \in [Broker -> BrokerPC]
        BY DEF TypeOK, BrokerTypeOK, Walk
    <2>b. \A s \in Session, l \in Listener :
              (Claimed(s, l) => Claimed(s, l)') /\ (marker[s][l] # "absent" => Claimed(s, l))
        BY <1>a DEF MarkerMoves, MarkersInv, MarkersClaimed
    <2>c. \A s \in Session, l \in Listener : Claimed(s, l) /\ marker[s][l] = "absent" => marker'[s][l] = "absent"
        BY <1>a DEF MarkerMoves
    <2>d. \A l \in Listener : l \in alive' => l \in alive
        BY <1>a, <2>a DEF MarkerMoves
    <2>e. bpc[b] \in {"look", "prune"} => \A l \in walk[b].unread : Claimed(walk[b].current, l)
        BY DEF MarkersInv, ScanNotes, NotesHold
    <2>f. bpc[b] \in {"look", "prune"} /\ walk'[b].current = walk[b].current =>
              \A l \in walk[b].unread : Claimed(walk[b].current, l)'
        <3> SUFFICES ASSUME bpc[b] \in {"look", "prune"}, walk'[b].current = walk[b].current,
                            NEW l \in walk[b].unread
                     PROVE  Claimed(walk[b].current, l)'
            OBVIOUS
        <3>1. l \in Listener /\ walk[b].current \in Session /\ Claimed(walk[b].current, l)
            BY <2>a, <2>e
        <3>2. \A s \in Session : Claimed(s, l) => Claimed(s, l)'
            BY <2>b, <3>1
        <3>. QED BY <3>1, <3>2 DEF Claimed
    <2>1. CASE bpc'[b] = bpc[b] /\ walk'[b] = walk[b]
        <3>1. \A l \in walk[b].unread : Claimed(walk[b].current, l)'
            BY <1>2, <2>1, <2>f
        <3>2. NotesHold(b)
            BY DEF MarkersInv, ScanNotes
        <3>3. bpc[b] = "prune" =>
                  /\ walk[b].stale \in Listener
                  /\ walk[b].saw = "full" => walk[b].stale \notin alive'
                  /\ walk[b].saw = "absent" =>
                        /\ Claimed(walk[b].current, walk[b].stale)'
                        /\ marker'[walk[b].current][walk[b].stale] = "absent"
            <4> SUFFICES ASSUME bpc[b] = "prune"
                         PROVE  /\ walk[b].stale \in Listener
                                /\ walk[b].saw = "full" => walk[b].stale \notin alive'
                                /\ walk[b].saw = "absent" =>
                                      /\ Claimed(walk[b].current, walk[b].stale)'
                                      /\ marker'[walk[b].current][walk[b].stale] = "absent"
                OBVIOUS
            <4> DEFINE s == walk[b].current
                       l == walk[b].stale
            <4>1. /\ s \in Session /\ l \in Listener
                  /\ walk[b].saw = "full" => l \notin alive
                  /\ walk[b].saw = "absent" => Claimed(s, l) /\ marker[s][l] = "absent"
                BY <2>a, <3>2 DEF NotesHold
            <4>2. walk[b].saw = "full" => l \notin alive'
                BY <2>d, <4>1
            <4>3. \A q \in Session, k \in Listener :
                     Claimed(q, k) /\ marker[q][k] = "absent" => Claimed(q, k)' /\ marker'[q][k] = "absent"
                BY <2>b, <2>c
            <4>4. MarkerMoves(s, l)
                BY <1>a, <4>1
            <4>. QED BY <4>1, <4>2, <4>4 DEF MarkerMoves, Claimed
        <3>. QED BY <2>1, <3>1, <3>3 DEF NotesHold, Claimed
    <2>2. CASE Scan(b)
        <3>1. walk'[b].current = walk[b].current
              /\ walk'[b].unread = {l \in Listener : marker[walk[b].current][l] # "absent"} /\ bpc'[b] # "prune"
            BY <2>2, <2>a DEF Scan, GoOn, Goto, Walk
        <3>2. \A l \in walk'[b].unread : Claimed(walk[b].current, l)'
            BY <2>a, <2>b, <3>1
        <3>. QED BY <1>2, <3>1, <3>2 DEF NotesHold, Claimed
    <2>3. CASE PruneMarker(b)
        <3>1. walk'[b].current = walk[b].current /\ walk'[b].unread = walk[b].unread /\ bpc'[b] # "prune"
              /\ bpc[b] = "prune"
            BY <2>3, <2>a DEF PruneMarker, GoOn, Goto, Walk
        <3>2. \A l \in walk'[b].unread : Claimed(walk[b].current, l)'
            BY <2>f, <3>1
        <3>. QED BY <1>2, <3>1, <3>2 DEF NotesHold, Claimed
    <2>4. CASE ReadMarker(b)
        <3>1. bpc[b] = "look" /\ UNCHANGED <<marker, alive>>
            BY <2>4 DEF ReadMarker, spool
        <3>2. PICK l \in walk[b].unread :
                  \/ GoOn(b, [walk[b] EXCEPT !.unread = @ \ {l}, !.live = TRUE])
                  \/ /\ l \notin LiveListeners(walk[b].current)
                     /\ walk' = [walk EXCEPT ![b].unread = @ \ {l}, ![b].stale = l,
                                            ![b].saw = marker[walk[b].current][l]]
            BY <2>4, Zenon DEF ReadMarker
        <3>3. CASE GoOn(b, [walk[b] EXCEPT !.unread = @ \ {l}, !.live = TRUE])
            <4>1. walk'[b].current = walk[b].current /\ walk'[b].unread \subseteq walk[b].unread
                  /\ bpc'[b] # "prune"
                BY <3>3, <2>a DEF GoOn, Goto, Walk
            <4>2. \A k \in walk'[b].unread : Claimed(walk[b].current, k)'
                BY <2>f, <3>1, <4>1
            <4>. QED BY <1>2, <4>1, <4>2 DEF NotesHold, Claimed
        <3>4. CASE /\ l \notin LiveListeners(walk[b].current)
                   /\ walk' = [walk EXCEPT ![b].unread = @ \ {l}, ![b].stale = l,
                                          ![b].saw = marker[walk[b].current][l]]
            <4>1. walk'[b].current = walk[b].current /\ walk'[b].unread \subseteq walk[b].unread
                  /\ walk'[b].stale = l /\ walk'[b].saw = marker[walk[b].current][l]
                BY <3>4, <2>a DEF Walk
            <4>2. \A k \in walk[b].unread : Claimed(walk[b].current, k)'
                BY <2>f, <3>1, <4>1
            <4>3. l \in Listener /\ (walk'[b].saw = "full" => l \notin alive')
                BY <2>a, <3>1, <3>4, <4>1 DEF LiveListeners
            <4>4. walk'[b].saw = "absent" => marker'[walk[b].current][l] = "absent"
                BY <3>1, <4>1
            <4>. QED BY <1>2, <4>1, <4>2, <4>3, <4>4 DEF NotesHold, Claimed
        <3>. QED BY <3>2, <3>3, <3>4
    <2>5. QED
        BY <1>2, <2>1, <2>2, <2>3, <2>4, ScanMoves
<1>3. \A b \in Broker : bpc'[b] \notin {"look", "prune"} => NotesHold(b)'
    BY DEF NotesHold
<1>4. QED
    BY <1>1, <1>2, <1>3 DEF MarkersInv, ScanNotes

(* A listener that has announced itself (listeners.ts) stays announced     *)
(* while it lives, unless a scan read its marker before it was filled: for *)
(* any number of sessions, listeners and brokers.                          *)
THEOREM MarkersStay == Spec => MarkersOutliveScans
<1>1. Init => MarkersInv
    BY DEF Init, SpoolInit, BrokerInit, MarkersInv, MarkersClaimed, ScanNotes, NotesHold
<1>2. TypeOK /\ MarkersInv /\ [Next]_vars =>
        [\A s \in Session, l \in Listener :
            marker[s][l] = "full" /\ l \in alive' /\ marker'[s][l] # "full" =>
                \E b \in Broker : /\ bpc[b] = "prune" /\ walk[b].current = s
                                  /\ walk[b].stale = l /\ walk[b].saw = "empty"]_vars
    <2> SUFFICES ASSUME TypeOK, MarkersInv, [Next]_vars, NEW s \in Session, NEW l \in Listener,
                        marker[s][l] = "full", l \in alive', marker'[s][l] # "full"
                 PROVE  \E b \in Broker : /\ bpc[b] = "prune" /\ walk[b].current = s
                                          /\ walk[b].stale = l /\ walk[b].saw = "empty"
        OBVIOUS
    <2>1. Pruning(s, l) /\ l \in alive
        BY MarkerStep DEF MarkersInv, MarkerMoves
    <2>2. PICK b \in Broker : bpc[b] = "prune" /\ walk[b].current = s /\ walk[b].stale = l
        BY <2>1 DEF Pruning
    <2>3. walk[b].saw \in Marker /\ walk[b].saw # "full" /\ walk[b].saw # "absent"
        BY <2>1, <2>2 DEF TypeOK, BrokerTypeOK, Walk, MarkersInv, ScanNotes, NotesHold
    <2>4. QED
        BY <2>2, <2>3 DEF Marker
<1>3. QED
    BY <1>1, <1>2, ScanNotesStep, TypeCorrect, PTL DEF Spec, MarkersOutliveScans

----------------------------------------------------------------------------
(* Refinement: the escalation tree implements the ask channel, for any     *)
(* number of sessions, asks and processes.                                 *)


LEMMA ChannelInit == Init => Channel!AInit
<1> SUFFICES ASSUME Init PROVE Channel!AInit
    OBVIOUS
<1>1. GivenVerdicts = {}
    BY DEF Init, ListenerInit, GivenVerdicts
<1>2. ExhaustedAsks = {}
    BY DEF Init, ForwarderInit, ExhaustedAsks, Answer, NoResponse
<1>3. HookAnswers = [b \in Broker |-> "none"]
    BY DEF Init, BrokerInit, HookAnswers
<1>4. QED
    BY <1>1, <1>2, <1>3 DEF Channel!AInit

(* A broker's step is a reply, backed by what Provenance says of its       *)
(* answer, or invisible.                                                   *)
LEMMA BrokerReplies ==
    ASSUME TypeOK, Provenance', NEW b \in Broker, BrokerNext(b), UNCHANGED <<told, fwd>>
    PROVE  Channel!ANext \/ UNCHANGED Channel!avars
<1>a. bpc \in [Broker -> BrokerPC] /\ out \in [Broker -> Response \cup {NoResponse}]
    BY DEF TypeOK, BrokerTypeOK
<1>1. GivenVerdicts' = GivenVerdicts /\ ExhaustedAsks' = ExhaustedAsks
    BY DEF GivenVerdicts, ExhaustedAsks
<1>2. /\ bpc[b] # "done"
      /\ \A c \in Broker : c # b => bpc'[c] = bpc[c] /\ out'[c] = out[c]
    BY <1>a DEF BrokerNext, BrokerStep, RejectStdin, Accept, EnsureSession, OpenMeta, FillMeta,
       Scan, GoOn, ReadMarker, PruneMarker, Climb, Stage, FillPending, PollHit, PollTimeout, ReadDecided, AutoDeny, FillAutoDeny,
       RemovePending, RemoveDecided, RemoveFails, BrokerKilled, Goto, Deny
<1>3. CASE bpc'[b] = "done"
    <2> DEFINE r == out'[b]
    <2>1. r \in Response /\ Backed(told, fwd, IdOf[b], r)
        BY <1>3 DEF Provenance, HeldBacked
    <2>2. r.decision \in {"allow", "deny", "harness-ask"} /\ r.by \in Process
        BY <2>1 DEF Response, Decisions
    <2>3. Channel!Permitted(b, r.decision)
        <3>1. CASE r.by \in Listener
            <4>1. PICK v \in told : v.by = r.by /\ v.id = IdOf[b] /\ v.decision = r.decision
                BY <2>1, <3>1 DEF Backed
            <4>2. [by |-> v.by, id |-> v.id, decision |-> v.decision] \in GivenVerdicts
                BY DEF GivenVerdicts
            <4>3. QED
                BY <4>1, <4>2 DEF Channel!Permitted
        <3>2. CASE r.by \in Broker
            BY <2>1, <3>2 DEF Backed, Channel!Permitted
        <3>3. CASE r.by \in Forwarder
            <4>1. fwd[r.by].id = IdOf[b] /\ fwd[r.by].resp = r /\ r.decision \in {"deny", "harness-ask"}
                BY <2>1, <3>3 DEF Backed
            <4>2. CASE r.decision = "deny"
                BY <4>2 DEF Channel!Permitted
            <4>3. CASE r.decision = "harness-ask"
                <5>1. r = Answer("harness-ask", r.by)
                    BY <2>1, <4>3 DEF Response, Answer
                <5>2. IdOf[b] \in ExhaustedAsks
                    BY <3>3, <4>1, <5>1 DEF ExhaustedAsks
                <5>3. QED
                    BY <4>3, <5>2 DEF Channel!Permitted
            <4>4. QED
                BY <4>1, <4>2, <4>3
        <3>4. QED
            BY <2>2, <3>1, <3>2, <3>3 DEF Process
    <2>4. HookAnswers[b] = "none" /\ HookAnswers' = [HookAnswers EXCEPT ![b] = r.decision]
        BY <1>2, <1>3 DEF HookAnswers
    <2>5. Channel!Reply(b, r.decision)
        BY <1>1, <2>3, <2>4 DEF Channel!Reply
    <2>6. QED
        BY <2>2, <2>5 DEF Channel!ANext
<1>4. CASE bpc'[b] # "done"
    <2>1. HookAnswers' = HookAnswers
        BY <1>2, <1>4 DEF HookAnswers
    <2>2. QED
        BY <1>1, <2>1 DEF Channel!avars
<1>5. QED
    BY <1>3, <1>4

(* A listener's step is a user's decision or invisible.                    *)
LEMMA ListenerDecides ==
    ASSUME TypeOK, NEW l \in Listener, ListenerNext(l), UNCHANGED <<brokerVars, fwd>>
    PROVE  Channel!ANext \/ UNCHANGED Channel!avars
<1>1. ExhaustedAsks' = ExhaustedAsks /\ HookAnswers' = HookAnswers
    BY DEF ExhaustedAsks, HookAnswers, brokerVars
<1>2. CASE FillDecision(l)
    <2> DEFINE a == at[l]
               v == [by |-> l, session |-> a.session, id |-> a.id, decision |-> a.decision]
    <2>1. a.id \in Id /\ a.decision \in {"allow", "deny", "harness-ask"}
        BY <1>2 DEF FillDecision, TypeOK, ListenerTypeOK, Target, UserDecisions, Decisions
    <2>2. told' = told \cup {v}
        BY <1>2 DEF FillDecision
    <2>3. GivenVerdicts' = GivenVerdicts \cup {[by |-> l, id |-> a.id, decision |-> a.decision]}
        <3> DEFINE Given(w) == [by |-> w.by, id |-> w.id, decision |-> w.decision]
        <3>1. Given(v) = [by |-> l, id |-> a.id, decision |-> a.decision]
            OBVIOUS
        <3>2. GivenVerdicts = {Given(w) : w \in told} /\ GivenVerdicts' = {Given(w) : w \in told'}
            BY DEF GivenVerdicts
        <3> HIDE DEF Given, v
        <3>3. GivenVerdicts' = GivenVerdicts \cup {Given(v)}
            BY <2>2, <3>2, Zenon
        <3>4. QED
            BY <3>1, <3>3
    <2>4. Channel!Decide(l, a.id, a.decision)
        BY <1>1, <2>3 DEF Channel!Decide
    <2>5. QED
        BY <2>1, <2>4 DEF Channel!ANext
<1>3. CASE ~FillDecision(l)
    <2>1. UNCHANGED told
        BY <1>3 DEF ListenerNext, ListenerPoll, SubmitFor, OpenMarker, FillMarker, ListPending,
           SubmitDecision, ListenerExit, ListenerCrash, listenerVars
    <2>2. GivenVerdicts' = GivenVerdicts
        BY <2>1 DEF GivenVerdicts
    <2>3. QED
        BY <1>1, <2>2 DEF Channel!avars
<1>4. QED
    BY <1>2, <1>3

(* A forwarder's step exhausts its ask or is invisible.                    *)
LEMMA ForwarderExhausts ==
    ASSUME TypeOK, TypeOK', FreshResponse', Grows, NEW f \in Forwarder,
           \A g \in Forwarder : g # f => fwd'[g] = fwd[g],
           UNCHANGED <<brokerVars, listenerVars>>
    PROVE  Channel!ANext \/ UNCHANGED Channel!avars
<1> DEFINE Ends(g) == fwd[g].resp = Answer("harness-ask", g)
<1>a. \A g : Answer("harness-ask", g) # NoResponse
    BY DEF Answer, NoResponse
<1>1. GivenVerdicts' = GivenVerdicts /\ HookAnswers' = HookAnswers
    BY DEF GivenVerdicts, HookAnswers, brokerVars, listenerVars
<1>2. CASE Ends(f) \/ ~Ends(f)'
    <2>1. \A g \in Forwarder : Ends(g)' <=> Ends(g)
        BY <1>2, <1>a DEF Grows
    <2>2. \A g \in Forwarder : Ends(g) => fwd'[g].id = fwd[g].id
        BY <1>a DEF Grows
    <2> HIDE DEF Ends
    <2>3. ExhaustedAsks' = {fwd'[g].id : g \in {h \in Forwarder : Ends(h)'}}
        BY DEF ExhaustedAsks, Ends
    <2>4. ExhaustedAsks = {fwd[g].id : g \in {h \in Forwarder : Ends(h)}}
        BY DEF ExhaustedAsks, Ends
    <2>5. ExhaustedAsks' = ExhaustedAsks
        BY <2>1, <2>2, <2>3, <2>4
    <2>6. QED
        BY <1>1, <2>5 DEF Channel!avars
<1>3. CASE ~Ends(f) /\ Ends(f)'
    <2>1. fwd'[f].id \in Id
        BY <1>3, <1>a DEF FreshResponse, TypeOK, ForwarderTypeOK, ForwarderPC
    <2>2. ExhaustedAsks' = ExhaustedAsks \cup {fwd'[f].id}
        BY <1>3 DEF ExhaustedAsks
    <2>3. Channel!Exhaust(fwd'[f].id)
        BY <1>1, <2>2 DEF Channel!Exhaust
    <2>4. QED
        BY <2>1, <2>3 DEF Channel!ANext
<1>4. QED
    BY <1>2, <1>3

LEMMA ChannelStep ==
    TypeOK /\ TypeOK' /\ FreshResponse /\ FreshResponse' /\ Provenance' /\ [Next]_vars
        => [Channel!ANext]_Channel!avars
<1> SUFFICES ASSUME TypeOK, TypeOK', FreshResponse, FreshResponse', Provenance', [Next]_vars
             PROVE  Channel!ANext \/ UNCHANGED Channel!avars
    OBVIOUS
<1>a. Grows
    BY GrowsStep
<1>b. \A f, g \in Forwarder : g # f /\ (ForwarderStep(f) \/ ForwarderKilled(f)) => fwd'[g] = fwd[g]
    BY OneRunSteps
<1>1. ASSUME NEW b \in Broker, BrokerNext(b), UNCHANGED <<listenerVars, fwd>>
      PROVE  Channel!ANext \/ UNCHANGED Channel!avars
    BY <1>1, BrokerReplies DEF listenerVars
<1>2. ASSUME NEW l \in Listener, ListenerNext(l), UNCHANGED <<brokerVars, fwd>>
      PROVE  Channel!ANext \/ UNCHANGED Channel!avars
    BY <1>2, ListenerDecides
<1>3. ASSUME NEW f \in Forwarder, ForwarderStep(f) \/ ForwarderKilled(f),
             UNCHANGED <<brokerVars, listenerVars>>
      PROVE  Channel!ANext \/ UNCHANGED Channel!avars
    BY <1>3, <1>a, <1>b, ForwarderExhausts
<1>4. ASSUME NEW l \in Listener, NEW f \in Forwarder, NEW row \in rows[l], NEW s \in Session,
             EscalateUp(l, f, row, s), UNCHANGED <<brokerVars, listenerVars>>
      PROVE  Channel!ANext \/ UNCHANGED Channel!avars
    <2>1. \A g \in Forwarder : g # f => fwd'[g] = fwd[g]
        BY <1>4 DEF EscalateUp, ForwardStart, TypeOK, ForwarderTypeOK
    <2>2. QED
        BY <1>4, <1>a, <2>1, ForwarderExhausts
<1>5. CASE UNCHANGED vars
    BY <1>5 DEF vars, brokerVars, listenerVars, Channel!avars, GivenVerdicts, ExhaustedAsks, HookAnswers
<1>6. QED
    BY <1>1, <1>2, <1>3, <1>4, <1>5 DEF Next

(* Every behaviour of the processes is one of the ask channel: a hook gets *)
(* one answer for good, "allow" and "harness-ask" only as AskChannel       *)
(* permits them.                                                           *)
THEOREM Implements == Spec => ImplementsAskChannel
<1>1. Init => Provenance /\ FreshResponse
    BY ProvenanceInit
<1>2. QED
    BY <1>1, ChannelInit, ChannelStep, TypeCorrect, FreshResponseStep, ProvenanceStep, PTL
       DEF Spec, ImplementsAskChannel, Channel!ASpec
----------------------------------------------------------------------------
(* Links to the parent.                                                    *)

(* An earlier hook of the session has left its link.                       *)
HasAsked(s) == Lineage[s].st = "full" /\ Lineage[s].parent # None

(* The session asks for the first time, with its link in every envelope,   *)
(* through one hook, and no session names it as its parent.                *)
AsksFirst(s) ==
    /\ Lineage[s] = NoMeta
    /\ \A t \in Session : Lineage[t].parent # s
    /\ \A i \in Id : /\ Envelope[i].parent # s
                     /\ SourceOf(i) = s => Envelope[i].parent # None
    /\ \A b, c \in Broker : Src(b) = s /\ Src(c) = s => b = c

LinksAreKnown == \A s \in Session : IsRoot(s) \/ HasAsked(s) \/ AsksFirst(s)

(* What the chain walk needs: a link on disk for each session that has one.*)
LinkedIn(files, s) == IsRoot(s) \/ (files[s].st = "full" /\ files[s].parent # None)
Linked(s) == LinkedIn(meta, s)

Making == {"metaOpen", "metaFill"}

(* A link that is there is never written again: ensureSession looks first. *)
LinkKept(s) ==
    /\ meta[s] = Lineage[s]
    /\ \A b \in Broker : Src(b) = s => bpc[b] \notin Making
    /\ \A f \in Forwarder : fwd[f].parent = s => fwd[f].pc \notin Making

(* The one hook of a session writes its link before it stages its ask.     *)
Unlinked == {"idle", "ensure", "metaOpen", "metaFill", "done", "killed"}

LinkMade(s) ==
    /\ \A t \in Session : meta[t].parent # s
    /\ \A f \in Forwarder : fwd[f].parent # s
    /\ \A i \in Id : Exists(pending[s][i]) => Linked(s)
    /\ \A b \in Broker : Src(b) = s =>
          /\ bpc[b] \in {"idle", "ensure", "metaOpen"} => meta[s] = NoMeta
          /\ bpc[b] = "metaFill" => meta[s] = EmptyMeta
          /\ bpc[b] \notin Unlinked => Linked(s)

LinkInv ==
    \A s \in Session : (HasAsked(s) => LinkKept(s)) /\ (AsksFirst(s) => LinkMade(s))

(* A run of forwardUp that is about to look for a parent finds the link;   *)
(* one that made up a harness-ask is at a root.                            *)
RunsAreLinked ==
    \A f \in Forwarder :
        /\ fwd[f].pc \in {"read", "lookup"} => Linked(fwd[f].session)
        /\ fwd[f].resp = Answer("harness-ask", f) => IsRoot(fwd[f].session)

(* All that any step does to one meta.json.                                *)
LEMMA MetaStep ==
    ASSUME TypeOK, [Next]_vars, NEW s \in Session
    PROVE  \/ meta'[s] = meta[s]
           \/ \E b \in Broker : /\ Src(b) = s /\ bpc[b] = "metaOpen" /\ bpc'[b] = "metaFill"
                                /\ meta'[s] = EmptyMeta
           \/ \E b \in Broker : /\ Src(b) = s /\ bpc[b] = "metaFill" /\ bpc'[b] = "scan"
                                /\ meta'[s] \in MetaAfterWrite(meta[s], Envelope[IdOf[b]].parent)
           \/ \E f \in Forwarder : /\ fwd[f].parent = s /\ fwd[f].pc \in Making
                                   /\ meta'[s].parent = None
<1> DEFINE Goal == \/ meta'[s] = meta[s]
                   \/ \E b \in Broker : /\ Src(b) = s /\ bpc[b] = "metaOpen" /\ bpc'[b] = "metaFill"
                                        /\ meta'[s] = EmptyMeta
                   \/ \E b \in Broker : /\ Src(b) = s /\ bpc[b] = "metaFill" /\ bpc'[b] = "scan"
                                        /\ meta'[s] \in MetaAfterWrite(meta[s], Envelope[IdOf[b]].parent)
                   \/ \E f \in Forwarder : /\ fwd[f].parent = s /\ fwd[f].pc \in Making
                                           /\ meta'[s].parent = None
<1>a. meta \in [Session -> Meta] /\ bpc \in [Broker -> BrokerPC]
    BY DEF TypeOK, SpoolTypeOK, BrokerTypeOK
<1>b. \A old : \A m \in MetaAfterWrite(old, None) : m.parent = None
    BY DEF MetaAfterWrite, FullMeta, GarbledMeta
<1>c. \A t : \A m : meta' = [meta EXCEPT ![t] = m] => meta'[s] = IF s = t THEN m ELSE meta[s]
    BY <1>a
<1>1. ASSUME NEW b \in Broker, BrokerNext(b)
      PROVE  Goal
    <2>1. CASE OpenMeta(b)
        BY <1>a, <1>c, <2>1 DEF OpenMeta, Goto
    <2>2. CASE FillMeta(b)
        <3>1. PICK m \in MetaAfterWrite(meta[Src(b)], Envelope[IdOf[b]].parent) :
                  meta' = [meta EXCEPT ![Src(b)] = m]
            BY <2>2 DEF FillMeta
        <3>2. meta'[s] = IF s = Src(b) THEN m ELSE meta[s]
            BY <1>c, <3>1
        <3>3. bpc[b] = "metaFill" /\ bpc'[b] = "scan"
            BY <1>a, <2>2 DEF FillMeta, Goto
        <3>. QED BY <3>1, <3>2, <3>3
    <2>3. CASE ~OpenMeta(b) /\ ~FillMeta(b)
        BY <1>1, <2>3 DEF BrokerNext, BrokerStep, RejectStdin, Accept, EnsureSession, Scan, GoOn, ReadMarker, PruneMarker, Climb, Stage,
             FillPending, PollHit, PollTimeout, ReadDecided, AutoDeny, FillAutoDeny, RemovePending,
             RemoveDecided, RemoveFails, BrokerKilled, spool
    <2>. QED BY <2>1, <2>2, <2>3
<1>2. ASSUME NEW l \in Listener, ListenerNext(l)
      PROVE  UNCHANGED meta
    BY <1>2 DEF ListenerNext, ListenerPoll, SubmitFor, OpenMarker, FillMarker, ListPending,
         SubmitDecision, FillDecision, ListenerExit, ListenerCrash, spool
<1>3. ASSUME NEW f \in Forwarder, ForwarderStep(f) \/ ForwarderKilled(f)
      PROVE  Goal
    <2>1. CASE OpenParentMeta(f)
        <3>1. meta'[s] = IF s = fwd[f].parent THEN EmptyMeta ELSE meta[s]
            BY <1>c, <2>1 DEF OpenParentMeta
        <3>. QED BY <2>1, <3>1 DEF OpenParentMeta, EmptyMeta, Making
    <2>2. CASE FillParentMeta(f)
        <3>1. PICK m \in MetaAfterWrite(meta[fwd[f].parent], None) :
                  meta' = [meta EXCEPT ![fwd[f].parent] = m]
            BY <2>2 DEF FillParentMeta
        <3>2. meta'[s] = IF s = fwd[f].parent THEN m ELSE meta[s]
            BY <1>c, <3>1
        <3>3. m.parent = None
            BY <1>b, <3>1
        <3>. QED BY <2>2, <3>2, <3>3 DEF FillParentMeta, Making
    <2>3. CASE ~OpenParentMeta(f) /\ ~FillParentMeta(f)
        BY <1>3, <2>3 DEF ForwarderStep, ForwarderKilled, ReadPending, LookupParent, EnsureParent, Publish,
             FillPublished, ParentHit, ForwardTimeout, TakeVerdict, CopyDown, FillCopy, spool
    <2>. QED BY <2>1, <2>2, <2>3
<1>4. ASSUME NEW l \in Listener, NEW f \in Forwarder, NEW row \in rows[l], NEW t \in Session,
             EscalateUp(l, f, row, t)
      PROVE  UNCHANGED meta
    BY <1>4 DEF EscalateUp, ForwardStart, spool
<1>5. UNCHANGED meta => Goal
    OBVIOUS
<1> HIDE DEF Goal
<1>6. Goal
    BY <1>1, <1>2, <1>3, <1>4, <1>5 DEF Next, vars, spool
<1>. QED BY <1>6 DEF Goal

(* How a broker gets to its link.                                          *)
LEMMA BrokerMoves ==
    ASSUME TypeOK, [Next]_vars, NEW b \in Broker
    PROVE  \/ bpc'[b] = bpc[b]
           \/ bpc[b] = "idle" /\ bpc'[b] = "ensure"
           \/ bpc[b] = "ensure" /\ bpc'[b] = "metaOpen" /\ meta[Src(b)].st = "absent"
           \/ bpc[b] = "ensure" /\ bpc'[b] = "scan" /\ meta[Src(b)].st # "absent"
           \/ bpc[b] = "metaOpen" /\ bpc'[b] = "metaFill" /\ meta'[Src(b)] = EmptyMeta
           \/ /\ bpc[b] = "metaFill" /\ bpc'[b] = "scan"
              /\ meta'[Src(b)] \in MetaAfterWrite(meta[Src(b)], Envelope[IdOf[b]].parent)
           \/ bpc'[b] \in {"done", "killed"}
           \/ bpc[b] \notin Unlinked /\ bpc'[b] \notin Making \cup {"idle", "ensure"}
<1>a. meta \in [Session -> Meta] /\ bpc \in [Broker -> BrokerPC]
    BY DEF TypeOK, SpoolTypeOK, BrokerTypeOK
<1>b. IdOf[b] \in Id /\ Src(b) \in Session
    BY Sources
<1>1. ASSUME NEW c \in Broker, BrokerNext(c), c # b
      PROVE  bpc'[b] = bpc[b]
    BY <1>1, <1>a DEF BrokerNext, BrokerStep, RejectStdin, Accept, EnsureSession, OpenMeta, FillMeta, Scan, GoOn, ReadMarker, PruneMarker,
       Climb, Stage, FillPending, PollHit, PollTimeout, ReadDecided, AutoDeny, FillAutoDeny, RemovePending,
       RemoveDecided, RemoveFails, BrokerKilled, Goto
<1>2. ASSUME BrokerNext(b), ~OpenMeta(b), ~FillMeta(b), ~EnsureSession(b)
      PROVE  \/ bpc[b] = "idle" /\ bpc'[b] = "ensure"
             \/ bpc'[b] \in {"done", "killed"}
             \/ bpc[b] \notin Unlinked /\ bpc'[b] \notin Making \cup {"idle", "ensure"}
    BY <1>2, <1>a DEF BrokerNext, BrokerStep, RejectStdin, Accept, Scan, GoOn, ReadMarker, PruneMarker, Climb, Stage, FillPending, PollHit,
       PollTimeout, ReadDecided, AutoDeny, FillAutoDeny, RemovePending, RemoveDecided, RemoveFails,
       BrokerKilled, Goto, Unlinked, Making
<1>3. CASE OpenMeta(b)
    BY <1>3, <1>a, <1>b DEF OpenMeta, Goto
<1>4. CASE FillMeta(b)
    <2>1. PICK m \in MetaAfterWrite(meta[Src(b)], Envelope[IdOf[b]].parent) :
              meta' = [meta EXCEPT ![Src(b)] = m]
        BY <1>4 DEF FillMeta
    <2>. QED BY <2>1, <1>4, <1>a, <1>b DEF FillMeta, Goto
<1>5. CASE EnsureSession(b)
    BY <1>5, <1>a DEF EnsureSession, Goto
<1>6. CASE UNCHANGED bpc
    BY <1>6
<1>. QED BY <1>1, <1>2, <1>3, <1>4, <1>5, <1>6 DEF Next, vars, brokerVars

(* What a run of forwardUp turns into.                                     *)
Becomes(f, r) == fwd'[f] = r

(* How a run of forwardUp gets to its parent and to its response.          *)
RunMove(f) ==
    \/ fwd'[f] = fwd[f]
    \/ /\ fwd[f].pc = "idle" /\ fwd'[f].pc = "read"
       /\ fwd'[f].parent = fwd[f].parent /\ fwd'[f].resp = fwd[f].resp
       /\ fwd'[f].session \in Session /\ fwd'[f].id \in Id
       /\ Exists(pending[fwd'[f].session][fwd'[f].id])
    \/ /\ fwd[f].pc = "idle"
       /\ Becomes(f, [fwd[f] EXCEPT !.session = fwd'[f].session, !.id = fwd'[f].id, !.pc = "missing"])
    \/ fwd[f].pc = "read" /\ Becomes(f, [fwd[f] EXCEPT !.pc = "lookup"])
    \/ /\ fwd[f].pc = "lookup" /\ ReadParentId(fwd[f].session) = None
       /\ Becomes(f, [fwd[f] EXCEPT !.pc = "copy", !.resp = Answer("harness-ask", f)])
    \/ /\ fwd[f].pc = "lookup" /\ ReadParentId(fwd[f].session) # None
       /\ Becomes(f, [fwd[f] EXCEPT !.pc = "ensure", !.parent = ReadParentId(fwd[f].session)])
    \/ /\ fwd[f].pc = "ensure" /\ meta[fwd[f].parent].st = "absent"
       /\ Becomes(f, [fwd[f] EXCEPT !.pc = "metaOpen"])
    \/ fwd[f].pc = "metaOpen" /\ Becomes(f, [fwd[f] EXCEPT !.pc = "metaFill"])
    \/ /\ fwd[f].pc = "take" /\ Readable(ParentDecided(f))
       /\ Becomes(f, [fwd[f] EXCEPT !.pc = "copy", !.resp = ParentDecided(f).resp])
    \/ fwd[f].pc = "poll" /\ Becomes(f, [fwd[f] EXCEPT !.pc = "copy", !.resp = Answer("deny", f)])
    \/ \E pc : /\ fwd[f].pc # "idle" /\ pc \notin Making \cup {"read", "lookup"}
               /\ Becomes(f, [fwd[f] EXCEPT !.pc = pc])

LEMMA RunMoves ==
    ASSUME TypeOK, [Next]_vars, NEW f \in Forwarder
    PROVE  RunMove(f)
<1>a. fwd \in [Forwarder -> [pc : ForwarderPC, session : Session \cup {None}, id : Id \cup {None},
                             parent : Session \cup {None}, resp : Response \cup {NoResponse}]]
    BY DEF TypeOK, ForwarderTypeOK
<1>b. \A r : fwd' = [fwd EXCEPT ![f] = r] => fwd'[f] = r
    BY <1>a
<1>1. ASSUME ForwarderStep(f) \/ ForwarderKilled(f)
      PROVE  RunMove(f)
    <2>1. CASE ReadPending(f)
        BY <2>1, <1>a DEF RunMove, Becomes, ReadPending, FGoto, Making
    <2>2. CASE LookupParent(f)
        BY <2>2, <1>a DEF RunMove, Becomes, LookupParent
    <2>3. CASE EnsureParent(f)
        BY <2>3, <1>a DEF RunMove, Becomes, EnsureParent, FGoto, Making
    <2>4. CASE OpenParentMeta(f)
        BY <2>4, <1>a DEF RunMove, Becomes, OpenParentMeta, FGoto
    <2>5. CASE ForwardTimeout(f)
        BY <2>5, <1>a DEF RunMove, Becomes, ForwardTimeout
    <2>a. ASSUME NEW pc, pc \notin Making \cup {"read", "lookup"}, FGoto(f, pc), fwd[f].pc # "idle"
          PROVE  RunMove(f)
        <3>1. Becomes(f, [fwd[f] EXCEPT !.pc = pc])
            BY <2>a, <1>a DEF FGoto, Becomes
        <3>. QED BY <2>a, <3>1 DEF RunMove
    <2>6. CASE TakeVerdict(f)
        <3>1. CASE Readable(ParentDecided(f))
            BY <2>6, <3>1, <1>a DEF RunMove, Becomes, TakeVerdict
        <3>2. CASE ~Readable(ParentDecided(f))
            BY <2>6, <3>2, <2>a DEF TakeVerdict, Making
        <3>. QED BY <3>1, <3>2
    <2>7. CASE FillParentMeta(f) \/ FillPublished(f) \/ ParentHit(f) \/ FillCopy(f) \/ ForwarderKilled(f)
        <3>. QED BY <2>7, <2>a DEF FillParentMeta, FillPublished, ParentHit, FillCopy, ForwarderKilled, Making
    <2>8. CASE Publish(f) \/ CopyDown(f)
        <3>. QED BY <2>8, <2>a DEF Publish, CopyDown, Making
    <2>. QED BY <1>1, <2>1, <2>2, <2>3, <2>4, <2>5, <2>6, <2>7, <2>8 DEF ForwarderStep
<1>2. ASSUME NEW g \in Forwarder, g # f, ForwarderStep(g) \/ ForwarderKilled(g)
      PROVE  RunMove(f)
    BY <1>2, OneRunSteps DEF RunMove
<1>3. ASSUME NEW l \in Listener, NEW g \in Forwarder, NEW row \in rows[l], NEW s \in Session,
             EscalateUp(l, g, row, s)
      PROVE  RunMove(f)
    <2>1. row.id \in Id
        BY DEF TypeOK, ListenerTypeOK, Row
    <2>2. CASE g # f
        BY <1>3, <1>a, <2>2 DEF RunMove, Becomes, EscalateUp, ForwardStart
    <2>3. CASE g = f /\ Exists(pending[s][row.id])
        BY <1>3, <1>a, <2>1, <2>3 DEF RunMove, Becomes, EscalateUp, ForwardStart
    <2>4. CASE g = f /\ ~Exists(pending[s][row.id])
        BY <1>3, <1>a, <2>4 DEF RunMove, Becomes, EscalateUp, ForwardStart
    <2>. QED BY <2>2, <2>3, <2>4
<1>4. UNCHANGED fwd => RunMove(f)
    BY DEF RunMove
<1>. QED BY <1>1, <1>2, <1>3, <1>4 DEF Next, vars

(* A run only makes a meta.json that it has looked for in vain.            *)
LEMMA RunMakes ==
    ASSUME TypeOK, [Next]_vars, NEW f \in Forwarder, fwd'[f].pc \in Making
    PROVE  /\ fwd'[f].parent = fwd[f].parent
           /\ fwd[f].pc \in Making \/ (fwd[f].pc = "ensure" /\ meta[fwd[f].parent].st = "absent")
<1> DEFINE Goal ==
           /\ fwd'[f].parent = fwd[f].parent
           /\ fwd[f].pc \in Making \/ (fwd[f].pc = "ensure" /\ meta[fwd[f].parent].st = "absent")
<1>a. fwd \in [Forwarder -> [pc : ForwarderPC, session : Session \cup {None}, id : Id \cup {None},
                             parent : Session \cup {None}, resp : Response \cup {NoResponse}]]
    BY DEF TypeOK, ForwarderTypeOK
<1>b. \A pc : FGoto(f, pc) => fwd'[f].pc = pc /\ fwd'[f].parent = fwd[f].parent
    BY <1>a DEF FGoto
<1>1. ASSUME ForwarderStep(f) \/ ForwarderKilled(f)
      PROVE  Goal
    <2>1. CASE EnsureParent(f)
        BY <2>1, <1>b DEF EnsureParent, Making
    <2>2. CASE OpenParentMeta(f)
        BY <2>2, <1>b DEF OpenParentMeta, Making
    <2>3. CASE LookupParent(f) \/ ForwardTimeout(f) \/ TakeVerdict(f)
        <3>1. fwd'[f].pc \in {"copy", "ensure", "failed"}
            BY <2>3, <1>a, <1>b DEF LookupParent, ForwardTimeout, TakeVerdict
        <3>. QED BY <3>1 DEF Making
    <2>4. CASE ~(EnsureParent(f) \/ OpenParentMeta(f) \/ LookupParent(f) \/ ForwardTimeout(f) \/ TakeVerdict(f))
        BY <1>1, <2>4, <1>b DEF ForwarderStep, ForwarderKilled, ReadPending, FillParentMeta, Publish, FillPublished,
           ParentHit, CopyDown, FillCopy, Making
    <2>. QED BY <2>1, <2>2, <2>3, <2>4
<1>2. ASSUME NEW g \in Forwarder, g # f, ForwarderStep(g) \/ ForwarderKilled(g)
      PROVE  Goal
    BY <1>2, OneRunSteps
<1>3. ASSUME NEW l \in Listener, NEW g \in Forwarder, NEW row \in rows[l], NEW s \in Session,
             EscalateUp(l, g, row, s)
      PROVE  Goal
    BY <1>3, <1>a DEF EscalateUp, ForwardStart, Making
<1>4. UNCHANGED fwd => Goal
    OBVIOUS
<1> HIDE DEF Goal
<1>5. Goal
    BY <1>1, <1>2, <1>3, <1>4 DEF Next, vars
<1>. QED BY <1>5 DEF Goal

(* The links of sessions that asked before are kept.                       *)
LEMMA LinkKeptStep ==
    ASSUME TypeOK, [Next]_vars, NEW s \in Session, HasAsked(s), LinkKept(s)
    PROVE  LinkKept(s)'
<1>1. meta'[s] = meta[s]
    BY MetaStep DEF LinkKept, Making
<1>2. meta[s].st # "absent"
    BY DEF LinkKept, HasAsked
<1>3. ASSUME NEW b \in Broker, Src(b) = s
      PROVE  bpc'[b] \notin Making
    BY <1>2, <1>3, BrokerMoves DEF LinkKept, Making, Unlinked
<1>4. ASSUME NEW f \in Forwarder, fwd'[f].parent = s
      PROVE  fwd'[f].pc \notin Making
    <2>1. fwd[f].parent = s => fwd[f].pc \notin Making /\ meta[fwd[f].parent].st # "absent"
        BY <1>2 DEF LinkKept
    <2>. QED BY <2>1, <1>4, RunMakes
<1>. QED BY <1>1, <1>3, <1>4 DEF LinkKept

(* The link of a session that asks first stands before its ask does.       *)
LEMMA LinkMadeStep ==
    ASSUME TypeOK, [Next]_vars, NEW s \in Session, AsksFirst(s), LinkMade(s)
    PROVE  LinkMade(s)' /\ (Linked(s) => Linked(s)')
<1>a. meta \in [Session -> Meta] /\ \A t \in Session : meta[t].parent \in Session \cup {None}
    BY DEF TypeOK, SpoolTypeOK, Meta
<1>b. \A b \in Broker : IdOf[b] \in Id /\ Src(b) \in Session /\ Src(b) = SourceOf(IdOf[b])
    BY Sources DEF Src
<1>c. s # None
    BY SpoolConstants
<1>1. ASSUME NEW t \in Session
      PROVE  meta'[t].parent # s
    <2>1. \A old, p : \A m \in MetaAfterWrite(old, p) : m.parent \in {None, p}
        BY DEF MetaAfterWrite, FullMeta, GarbledMeta
    <2>2. \A b \in Broker : Envelope[IdOf[b]].parent # s
        BY <1>b DEF AsksFirst
    <2>3. EmptyMeta.parent = None
        BY DEF EmptyMeta
    <2>4. meta[t].parent # s
        BY DEF LinkMade
    <2>. QED BY <2>1, <2>2, <2>3, <2>4, <1>c, MetaStep
<1>2. ASSUME NEW f \in Forwarder
      PROVE  fwd'[f].parent # s
    <2>a. fwd[f] \in [pc : ForwarderPC, session : Session \cup {None}, id : Id \cup {None},
                      parent : Session \cup {None}, resp : Response \cup {NoResponse}]
        BY DEF TypeOK, ForwarderTypeOK
    <2>b. fwd[f].pc # "idle" => fwd[f].session \in Session
        BY DEF TypeOK, ForwarderTypeOK
    <2>1. fwd[f].parent # s
        BY DEF LinkMade
    <2>2. fwd[f].pc = "lookup" => ReadParentId(fwd[f].session) # s
        BY <2>b, <1>c DEF LinkMade, ReadParentId
    <2>. QED BY <2>a, <2>1, <2>2, RunMoves DEF RunMove, Becomes
<1>3. \A b, c \in Broker : Src(b) = s /\ Src(c) = s => b = c
    BY DEF AsksFirst
<1>4. ASSUME NEW b \in Broker, Src(b) = s, bpc[b] = "metaFill",
             meta'[s] \in MetaAfterWrite(meta[s], Envelope[IdOf[b]].parent)
      PROVE  Linked(s)'
    <2>1. meta[s] = EmptyMeta
        BY <1>4 DEF LinkMade
    <2>2. MetaAfterWrite(EmptyMeta, Envelope[IdOf[b]].parent) = {FullMeta(Envelope[IdOf[b]].parent)}
        BY DEF MetaAfterWrite, EmptyMeta
    <2>3. Envelope[IdOf[b]].parent # None
        BY <1>4, <1>b DEF AsksFirst
    <2>. QED BY <1>4, <2>1, <2>2, <2>3 DEF Linked, LinkedIn, FullMeta
<1>5. Linked(s) => \A b \in Broker : Src(b) = s => bpc[b] \notin {"idle", "ensure", "metaOpen", "metaFill"} \/ IsRoot(s)
    BY DEF Linked, LinkedIn, LinkMade, NoMeta, EmptyMeta
<1>6. Linked(s) => Linked(s)'
    <2>1. IsRoot(s) => Linked(s)'
        BY DEF Linked, LinkedIn, IsRoot
    <2>2. CASE Linked(s) /\ ~IsRoot(s)
        <3>1. meta'[s] = meta[s]
            BY <2>2, <1>5, MetaStep DEF LinkMade
        <3>. QED BY <2>2, <3>1 DEF Linked, LinkedIn
    <2>. QED BY <2>1, <2>2
<1>7. ASSUME NEW b \in Broker, Src(b) = s
      PROVE  /\ bpc'[b] \in {"idle", "ensure", "metaOpen"} => meta'[s] = NoMeta
             /\ bpc'[b] = "metaFill" => meta'[s] = EmptyMeta
             /\ bpc'[b] \notin Unlinked => Linked(s)'
    <2>a. /\ bpc[b] \in {"idle", "ensure", "metaOpen"} => meta[s] = NoMeta
          /\ bpc[b] = "metaFill" => meta[s] = EmptyMeta
          /\ bpc[b] \notin Unlinked => Linked(s)
        BY <1>7 DEF LinkMade
    <2>b. NoMeta.st = "absent"
        BY DEF NoMeta
    <2>c. \/ meta'[s] = meta[s]
          \/ bpc[b] = "metaOpen" /\ bpc'[b] = "metaFill" /\ meta'[s] = EmptyMeta
          \/ bpc[b] = "metaFill" /\ bpc'[b] = "scan"
        BY <1>3, <1>7, MetaStep DEF LinkMade
    <2>1. CASE bpc'[b] = bpc[b]
        BY <2>1, <2>a, <2>c, <1>6
    <2>d. CASE bpc[b] = "idle" /\ bpc'[b] = "ensure"
        BY <2>d, <2>a, <2>c DEF Unlinked
    <2>e. CASE bpc[b] = "ensure" /\ bpc'[b] \in {"metaOpen", "scan"}
        BY <2>e, <2>a, <2>b, <2>c, <1>7, BrokerMoves DEF Unlinked
    <2>f. CASE bpc[b] = "metaOpen" /\ bpc'[b] = "metaFill" /\ meta'[s] = EmptyMeta
        BY <2>f DEF Unlinked
    <2>2. CASE bpc'[b] \in {"done", "killed"}
        BY <2>2 DEF Unlinked
    <2>3. CASE bpc[b] \notin Unlinked /\ bpc'[b] \notin Making \cup {"idle", "ensure"}
        BY <2>3, <2>a, <1>6 DEF Making
    <2>4. CASE bpc[b] = "metaFill" /\ bpc'[b] = "scan"
        BY <2>4, <1>4, <1>7, BrokerMoves DEF Unlinked
    <2>. QED BY <1>7, <2>d, <2>e, <2>f, <2>1, <2>2, <2>3, <2>4, BrokerMoves
<1>8. ASSUME NEW i \in Id, Exists(pending'[s][i])
      PROVE  Linked(s)'
    <2>1. CASE Exists(pending[s][i])
        BY <2>1, <1>6 DEF LinkMade
    <2>2. ASSUME NEW b \in Broker, Src(b) = s, bpc'[b] = "stageFill"
          PROVE  Linked(s)'
        BY <2>2, <1>7 DEF Unlinked
    <2>. QED BY <2>1, <2>2, <1>8, PromptAppears DEF LinkMade
<1>. QED BY <1>1, <1>2, <1>6, <1>7, <1>8 DEF LinkMade

LEMMA LinkedStays ==
    ASSUME LinksAreKnown, TypeOK, LinkInv, [Next]_vars, NEW s \in Session, Linked(s)
    PROVE  Linked(s)'
<1>1. CASE IsRoot(s)
    BY <1>1 DEF Linked, LinkedIn, IsRoot
<1>2. CASE HasAsked(s)
    <2>1. LinkKept(s) /\ LinkKept(s)'
        BY <1>2, LinkKeptStep DEF LinkInv
    <2>. QED BY <2>1, <1>2 DEF LinkKept, Linked, LinkedIn, HasAsked
<1>3. CASE AsksFirst(s)
    BY <1>3, LinkMadeStep DEF LinkInv
<1>. QED BY <1>1, <1>2, <1>3 DEF LinksAreKnown

LEMMA LinkInvStep == TypeOK /\ LinkInv /\ [Next]_vars => LinkInv'
<1>1. ASSUME TypeOK, LinkInv, [Next]_vars, NEW s \in Session
      PROVE  (HasAsked(s) => LinkKept(s)') /\ (AsksFirst(s) => LinkMade(s)')
    BY <1>1, LinkKeptStep, LinkMadeStep DEF LinkInv
<1>. QED BY <1>1 DEF LinkInv, HasAsked, AsksFirst

LEMMA RunsAreLinkedStep ==
    ASSUME LinksAreKnown, TypeOK, LinkInv, RunsAreLinked, Provenance, FreshResponse, [Next]_vars
    PROVE  RunsAreLinked'
<1> SUFFICES ASSUME NEW f \in Forwarder
             PROVE  /\ fwd'[f].pc \in {"read", "lookup"} => LinkedIn(meta', fwd'[f].session)
                    /\ fwd'[f].resp = Answer("harness-ask", f) => IsRoot(fwd'[f].session)
    BY DEF RunsAreLinked, Linked, LinkedIn, IsRoot
<1>. DEFINE Goal == /\ fwd'[f].pc \in {"read", "lookup"} => LinkedIn(meta', fwd'[f].session)
                    /\ fwd'[f].resp = Answer("harness-ask", f) => IsRoot(fwd'[f].session)
<1>. SUFFICES Goal
    OBVIOUS
<1>a. fwd[f] \in [pc : ForwarderPC, session : Session \cup {None}, id : Id \cup {None},
                  parent : Session \cup {None}, resp : Response \cup {NoResponse}]
    BY DEF TypeOK, ForwarderTypeOK
<1>b. fwd[f].pc # "idle" => fwd[f].session \in Session /\ fwd[f].id \in Id
    BY DEF TypeOK, ForwarderTypeOK
<1>c. \A s \in Session : Linked(s) => LinkedIn(meta', s)
    BY LinkedStays DEF Linked
<1>d. NoResponse # Answer("harness-ask", f) /\ Answer("deny", f) # Answer("harness-ask", f)
    BY DEF NoResponse, Answer
<1>e. fwd[f].resp = Answer("harness-ask", f) => IsRoot(fwd[f].session)
    BY DEF RunsAreLinked
<1>1. CASE fwd'[f] = fwd[f]
    BY <1>1, <1>b, <1>c, <1>e DEF RunsAreLinked
<1>2. CASE /\ fwd[f].pc = "idle" /\ fwd'[f].pc = "read"
           /\ fwd'[f].parent = fwd[f].parent /\ fwd'[f].resp = fwd[f].resp
           /\ fwd'[f].session \in Session /\ fwd'[f].id \in Id
           /\ Exists(pending[fwd'[f].session][fwd'[f].id])
    <2> DEFINE s == fwd'[f].session
    <2>1. Linked(s)
        <3>1. CASE HasAsked(s)
            BY <1>2, <3>1 DEF LinkInv, LinkKept, HasAsked, Linked, LinkedIn
        <3>2. CASE AsksFirst(s)
            BY <1>2, <3>2 DEF LinkInv, LinkMade
        <3>. QED BY <1>2, <3>1, <3>2 DEF LinksAreKnown, Linked, LinkedIn
    <2>2. fwd'[f].resp = NoResponse
        BY <1>2 DEF FreshResponse
    <2>. QED BY <1>2, <1>c, <1>d, <2>1, <2>2
<1>3. CASE fwd[f].pc = "idle" /\ fwd'[f].pc = "missing" /\ fwd'[f].resp = fwd[f].resp
    BY <1>3, <1>d DEF FreshResponse
<1>4. CASE fwd[f].pc = "read" /\ Becomes(f, [fwd[f] EXCEPT !.pc = "lookup"])
    BY <1>4, <1>a, <1>b, <1>c, <1>e DEF RunsAreLinked, Becomes
<1>5. CASE /\ fwd[f].pc = "lookup" /\ ReadParentId(fwd[f].session) = None
           /\ Becomes(f, [fwd[f] EXCEPT !.pc = "copy", !.resp = Answer("harness-ask", f)])
    <2>1. Linked(fwd[f].session)
        BY <1>5 DEF RunsAreLinked
    <2>2. IsRoot(fwd[f].session)
        BY <1>5, <2>1 DEF Linked, LinkedIn, ReadParentId, Becomes
    <2>. QED BY <1>5, <1>a, <2>2 DEF Becomes
<1>6. CASE /\ fwd[f].pc = "take" /\ Readable(ParentDecided(f))
           /\ Becomes(f, [fwd[f] EXCEPT !.pc = "copy", !.resp = ParentDecided(f).resp])
    <2>1. ParentDecided(f).resp # Answer("harness-ask", f)
        <3> SUFFICES ASSUME ParentDecided(f).resp = Answer("harness-ask", f) PROVE FALSE
            OBVIOUS
        <3>1. fwd[f].parent \in Session
            BY <1>6 DEF TypeOK, ForwarderTypeOK
        <3>2. Backed(told, fwd, fwd[f].id, ParentDecided(f).resp)
            BY <1>6, <1>b, <3>1 DEF Provenance, FilesBacked, ParentDecided, Becomes
        <3>3. fwd[f].resp = Answer("harness-ask", f)
            BY <3>2 DEF Backed, Answer
        <3>4. fwd[f].resp = NoResponse
            BY <1>6 DEF FreshResponse
        <3>. QED BY <3>3, <3>4, <1>d
    <2>. QED BY <1>6, <1>a, <2>1 DEF Becomes
<1>7. CASE fwd[f].pc = "poll" /\ Becomes(f, [fwd[f] EXCEPT !.pc = "copy", !.resp = Answer("deny", f)])
    BY <1>7, <1>a, <1>d DEF Becomes
<1>8. CASE fwd'[f].pc \notin {"read", "lookup"} /\ fwd'[f].session = fwd[f].session /\ fwd'[f].resp = fwd[f].resp
    BY <1>8, <1>e
<1>9. CASE /\ fwd[f].pc = "lookup" /\ ReadParentId(fwd[f].session) # None
            /\ Becomes(f, [fwd[f] EXCEPT !.pc = "ensure", !.parent = ReadParentId(fwd[f].session)])
    BY <1>9, <1>8, <1>a DEF Becomes
<1>10. CASE /\ fwd[f].pc = "idle"
            /\ Becomes(f, [fwd[f] EXCEPT !.session = fwd'[f].session, !.id = fwd'[f].id, !.pc = "missing"])
    BY <1>10, <1>3, <1>a DEF Becomes
<1>11. ASSUME NEW pc, Becomes(f, [fwd[f] EXCEPT !.pc = pc]), pc \notin {"read", "lookup"}
       PROVE  Goal
    BY <1>11, <1>8, <1>a DEF Becomes
<1>. HIDE DEF Goal
<1>12. CASE /\ fwd[f].pc = "ensure" /\ meta[fwd[f].parent].st = "absent"
            /\ Becomes(f, [fwd[f] EXCEPT !.pc = "metaOpen"])
    BY <1>12, <1>11
<1>13. CASE fwd[f].pc = "metaOpen" /\ Becomes(f, [fwd[f] EXCEPT !.pc = "metaFill"])
    BY <1>13, <1>11
<1>14. CASE \E pc : /\ fwd[f].pc # "idle" /\ pc \notin Making \cup {"read", "lookup"}
                    /\ Becomes(f, [fwd[f] EXCEPT !.pc = pc])
    BY <1>14, <1>11
<1>15. RunMove(f)
    BY RunMoves
<1>. QED BY <1>1, <1>2, <1>4, <1>5, <1>6, <1>7, <1>9, <1>10, <1>12, <1>13, <1>14, <1>15, ZenonT(30) DEF RunMove

LEMMA LinksInit == Init => LinkInv /\ RunsAreLinked
<1> SUFFICES ASSUME Init PROVE LinkInv /\ RunsAreLinked
    OBVIOUS
<1>1. \A f \in Forwarder : fwd[f].pc = "idle" /\ fwd[f].parent = None /\ fwd[f].resp = NoResponse
    BY DEF Init, ForwarderInit
<1>2. \A b \in Broker : bpc[b] = "idle"
    BY DEF Init, BrokerInit
<1>3. meta = Lineage /\ \A s \in Session, i \in Id : ~Exists(pending[s][i])
    BY FileStates DEF Init, SpoolInit
<1>4. \A f \in Forwarder : NoResponse # Answer("harness-ask", f)
    BY DEF NoResponse, Answer
<1>5. \A s \in Session : s # None
    BY SpoolConstants
<1>6. ASSUME NEW s \in Session
      PROVE  (HasAsked(s) => LinkKept(s)) /\ (AsksFirst(s) => LinkMade(s))
    <2>1. LinkKept(s)
        BY <1>1, <1>2, <1>3 DEF LinkKept, Making
    <2>2. AsksFirst(s) => LinkMade(s)
        BY <1>1, <1>2, <1>3, <1>5 DEF LinkMade, AsksFirst, Unlinked
    <2>. QED BY <2>1, <2>2
<1>7. RunsAreLinked
    BY <1>1, <1>4 DEF RunsAreLinked
<1>. QED BY <1>6, <1>7 DEF LinkInv

(* A broker that holds a harness-ask holds one that a run at a root made.  *)
LEMMA RootAskStep ==
    ASSUME TypeOK, HarnessAskOnlyAtRoot, RunsAreLinked, Provenance, FreshResponse, [Next]_vars
    PROVE  HarnessAskOnlyAtRoot'
<1> DEFINE AtRoot(i) == \E f \in Forwarder : /\ fwd[f].id = i /\ IsRoot(fwd[f].session)
                                             /\ fwd[f].resp = Answer("harness-ask", f)
<1>1. ASSUME NEW i, AtRoot(i)
      PROVE  \E f \in Forwarder : /\ fwd'[f].id = i /\ IsRoot(fwd'[f].session)
                                  /\ fwd'[f].resp = Answer("harness-ask", f)
    <2>1. PICK f \in Forwarder : /\ fwd[f].id = i /\ IsRoot(fwd[f].session)
                                 /\ fwd[f].resp = Answer("harness-ask", f)
        BY <1>1
    <2>2. fwd[f].resp # NoResponse
        BY <2>1 DEF Answer, NoResponse
    <2>3. fwd'[f].resp = fwd[f].resp /\ fwd'[f].id = fwd[f].id
        BY <2>2, GrowsStep DEF Grows
    <2>4. fwd'[f].session = fwd[f].session
        <3>1. fwd[f] \in [pc : ForwarderPC, session : Session \cup {None}, id : Id \cup {None},
                          parent : Session \cup {None}, resp : Response \cup {NoResponse}]
            BY DEF TypeOK, ForwarderTypeOK
        <3>2. fwd[f].pc # "idle"
            BY <2>2 DEF FreshResponse
        <3>. QED BY <3>1, <3>2, RunMoves DEF RunMove, Becomes
    <2>. QED BY <2>1, <2>3, <2>4
<1>2. ASSUME NEW s \in Session, NEW i \in Id, Readable(decided[s][i]),
             decided[s][i].resp.decision = "harness-ask"
      PROVE  AtRoot(i)
    <2> DEFINE r == decided[s][i].resp
    <2>1. r \in Response /\ Backed(told, fwd, i, r)
        BY <1>2 DEF Provenance, FilesBacked
    <2>2. r.by \notin Listener
        BY <1>2, <2>1 DEF Backed, TypeOK, ListenerTypeOK, Verdict, UserDecisions
    <2>3. r.by \notin Broker
        BY <1>2, <2>1 DEF Backed
    <2>4. r.by \in Forwarder
        BY <2>1, <2>2, <2>3 DEF Response, Process
    <2>5. fwd[r.by].id = i /\ fwd[r.by].resp = r
        BY <2>1, <2>4 DEF Backed
    <2>6. r = Answer("harness-ask", r.by)
        BY <1>2, <2>1 DEF Response, Answer
    <2>. QED BY <2>4, <2>5, <2>6 DEF RunsAreLinked
<1>3. ASSUME NEW b \in Broker, out'[b].decision = "harness-ask"
      PROVE  AtRoot(IdOf[b])
    <2>a. out \in [Broker -> Response \cup {NoResponse}] /\ IdOf[b] \in Id /\ Src(b) \in Session
        BY Sources DEF TypeOK, BrokerTypeOK
    <2>1. CASE out'[b] = out[b]
        BY <1>3, <2>1 DEF HarnessAskOnlyAtRoot
    <2>2. CASE Readable(Decided(b)) /\ out'[b] = Decided(b).resp
        BY <1>3, <2>2, <2>a, <1>2 DEF Decided
    <2>3. out'[b] = out[b] \/ out'[b] = Answer("deny", b) \/ (Readable(Decided(b)) /\ out'[b] = Decided(b).resp)
        <3>1. ASSUME NEW c \in Broker, BrokerNext(c), c # b
              PROVE  out'[b] = out[b]
            BY <3>1, <2>a DEF BrokerNext, BrokerStep, RejectStdin, Accept, EnsureSession, OpenMeta, FillMeta, Scan, GoOn, ReadMarker, PruneMarker,
               Climb, Stage, FillPending, PollHit, PollTimeout, ReadDecided, AutoDeny, FillAutoDeny, RemovePending,
               RemoveDecided, RemoveFails, BrokerKilled, Deny
        <3>2. CASE BrokerNext(b)
            BY <3>2, <2>a DEF BrokerNext, BrokerStep, RejectStdin, Accept, EnsureSession, OpenMeta, FillMeta, Scan, GoOn, ReadMarker, PruneMarker,
               Climb, Stage, FillPending, PollHit, PollTimeout, ReadDecided, AutoDeny, FillAutoDeny, RemovePending,
               RemoveDecided, RemoveFails, BrokerKilled, Deny
        <3>3. CASE UNCHANGED out
            BY <3>3
        <3>. QED BY <3>1, <3>2, <3>3 DEF Next, vars, brokerVars
    <2>4. Answer("deny", b).decision # "harness-ask"
        BY DEF Answer
    <2>. QED BY <1>3, <2>1, <2>2, <2>3, <2>4
<1>. HIDE DEF AtRoot
<1>4. \A b \in Broker : out'[b].decision = "harness-ask" => AtRoot(IdOf[b])
    BY <1>3
<1>. QED BY <1>1, <1>4 DEF HarnessAskOnlyAtRoot, IsRoot

(* The askpass hands an ask to the harness's own prompt only where the     *)
(* chain of sessions really ends, as long as every session that has a      *)
(* parent has its link on disk from an earlier hook, or writes it itself,  *)
(* alone and first.  Without that the run FindLostLink refutes it.         *)
THEOREM HarnessAskIsRoots ==
    ASSUME LinksAreKnown
    PROVE  Spec => []HarnessAskOnlyAtRoot
<1>. DEFINE Inv == LinkInv /\ RunsAreLinked /\ Provenance /\ FreshResponse /\ HarnessAskOnlyAtRoot
<1>1. Init => Inv
    <2>1. Init => HarnessAskOnlyAtRoot
        BY DEF Init, BrokerInit, HarnessAskOnlyAtRoot, NoResponse
    <2>. QED BY <2>1, LinksInit, ProvenanceInit
<1>2. TypeOK /\ Inv /\ [Next]_vars => Inv'
    BY LinkInvStep, RunsAreLinkedStep, RootAskStep, ProvenanceStep, FreshResponseStep
<1>3. Inv => HarnessAskOnlyAtRoot
    OBVIOUS
<1>. HIDE DEF Inv
<1>. QED BY <1>1, <1>2, <1>3, TypeCorrect, PTL DEF Spec

============================================================================
