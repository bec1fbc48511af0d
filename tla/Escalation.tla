----------------------------- MODULE Escalation ----------------------------
(***************************************************************************)
(* The escalation tree: brokers, listeners and forwarders, which share     *)
(* nothing but the spool (docs/ESCALATION.md), and what their protocol     *)
(* promises to the hook that asked and to the user who answered.           *)
(***************************************************************************)
EXTENDS Broker, Listeners, ForwardUp

CONSTANT Lineage     \* the meta.json files earlier hooks have left behind

ASSUME LineageConstants == Lineage \in [Session -> {NoMeta} \cup {FullMeta(p) : p \in Session \cup {None}}]

vars == <<spool, brokerVars, listenerVars, fwd>>

Init == SpoolInit(Lineage) /\ BrokerInit /\ ListenerInit /\ ForwarderInit

(* A user punts an ask from a row: `e' in the TUI, decide --escalate-up.   *)
EscalateUp(l, f, row, s) ==
    /\ Running(l) /\ row \in rows[l] /\ s \in Addressed(l, row)
    /\ ForwardStart(f, s, row.id)

Next ==
    \/ \E b \in Broker : BrokerNext(b) /\ UNCHANGED <<listenerVars, fwd>>
    \/ \E l \in Listener :
          \/ ListenerNext(l) /\ UNCHANGED <<brokerVars, fwd>>
          \/ \E f \in Forwarder, row \in rows[l], s \in Session :
                EscalateUp(l, f, row, s) /\ UNCHANGED <<brokerVars, listenerVars>>
    \/ \E f \in Forwarder :
          (ForwarderStep(f) \/ ForwarderKilled(f)) /\ UNCHANGED <<brokerVars, listenerVars>>

Spec == Init /\ [][Next]_vars

(* Processes take their steps as long as they live: the poll loops and the *)
(* synchronous code between two system calls run on, an opt-in deadline    *)
(* passes.  Nothing says that a user ever decides.                         *)
ProcessFairness ==
    /\ \A b \in Broker : WF_vars(BrokerStep(b) /\ UNCHANGED <<listenerVars, fwd>>)
    /\ \A l \in Listener : WF_vars(ListenerPoll(l) /\ UNCHANGED <<brokerVars, fwd>>)
    /\ \A f \in Forwarder : WF_vars(ForwarderStep(f) /\ UNCHANGED <<brokerVars, listenerVars>>)

FairSpec == Spec /\ ProcessFairness

(* What EveryAskAnswered assumes of the users: they answer what they see.  *)
UserFairness ==
    \A l \in Listener, i \in Id : WF_vars(SubmitFor(l, i) /\ UNCHANGED <<brokerVars, fwd>>)

----------------------------------------------------------------------------
(* Safety *)

(* Types of every component's state.                                       *)
TypeOK == SpoolTypeOK /\ BrokerTypeOK /\ ListenerTypeOK /\ ForwarderTypeOK

(* A response that says a listener gave it was accepted from that listener *)
(* for that ask; brokers invent only denies; a response that says a run of *)
(* forwardUp made it up is that run's for that ask, and no allow.          *)
Backed(verdicts, runs, i, r) ==
    /\ r.by \in Listener =>
          \E v \in verdicts : v.by = r.by /\ v.id = i /\ v.decision = r.decision
    /\ r.by \in Broker => r.decision = "deny"
    /\ r.by \in Forwarder => /\ r.decision \in {"deny", "harness-ask"}
                             /\ runs[r.by].id = i /\ runs[r.by].resp = r

(* No silent allow: whatever tears, times out, dies or races, the response *)
(* a broker prints was given by somebody entitled to it, for its own ask.  *)
AnswersAreBacked ==
    \A b \in Broker : bpc[b] = "done" => out[b] \in Response /\ Backed(told, fwd, IdOf[b], out[b])

(* The askpass hands the ask to the harness's own prompt only when a       *)
(* forwarder came to a session that has no parent in the escalation tree.  *)
IsRoot(s) == \A i \in Id : Envelope[i].session = s => Envelope[i].parent = None

HarnessAskOnlyAtRoot ==
    \A b \in Broker : out[b].decision = "harness-ask" =>
        \E f \in Forwarder : /\ fwd[f].id = IdOf[b] /\ IsRoot(fwd[f].session)
                             /\ fwd[f].resp = Answer("harness-ask", f)

(* O_EXCL on pending/<id>.json lets one broker at a time wait for an id.   *)
OneBrokerPerAsk ==
    \A b, c \in Broker : b # c /\ IdOf[b] = IdOf[c] => ~(Waiting(b) /\ Waiting(c))

(* An ask leaves no prompt behind in its own session once its brokers have *)
(* returned, however they came to their answer.                            *)
FinishedAsksAreGone ==
    \A i \in Id :
        (\A b \in Broker : IdOf[b] = i => bpc[b] \in {"idle", "done"}) =>
            RmMayFail \/ ~Exists(pending[SourceOf(i)][i])

(* First writer wins, end to end: at the moment a broker takes a verdict,  *)
(* it is the only one that submitDecision accepted in the ask's session.   *)
AcceptedIsTaken ==
    [][\A b \in Broker :
          bpc[b] = "read" /\ bpc'[b] = "rmPending" =>
              \A v \in told : v.id = IdOf[b] /\ v.session = Src(b) =>
                  out'[b] = Answer(v.decision, v.by)]_vars

(* A verdict file is written once; after that only a broker of the ask it  *)
(* answers removes it, on its way out.                                     *)
VerdictsAreFinal ==
    [][\A s \in Session, i \in Id :
          Readable(decided[s][i]) /\ decided'[s][i] # decided[s][i] =>
              \E b \in Broker : /\ IdOf[b] = i /\ Src(b) = s
                                /\ bpc[b] = "rmDecided" /\ ~Exists(decided'[s][i])]_vars

(* A listener that has announced itself stays announced while it lives: no *)
(* exit of another listener and no scan takes its filled marker away, save *)
(* the scan that read this very marker while it was still empty, between   *)
(* the two halves of its listener's write, and removes it by its name.     *)
MarkersOutliveScans ==
    [][\A s \in Session, l \in Listener :
          marker[s][l] = "full" /\ l \in alive' /\ marker'[s][l] # "full" =>
              \E b \in Broker : /\ bpc[b] = "prune" /\ walk[b].current = s
                                /\ walk[b].stale = l /\ walk[b].saw = "empty"]_vars

----------------------------------------------------------------------------
(* Liveness *)

(* Once a verdict file exists, in whatever state, the broker returns.      *)
VerdictUnblocksHook ==
    \A b \in Broker :
        (bpc[b] = "poll" /\ Exists(Decided(b))) ~> bpc[b] \in {"done", "killed"}

(* A verdict in the parent's session travels down: the forwarder's source  *)
(* gets an answer and the broker that waits there returns.                 *)
ParentVerdictReachesHook ==
    \A b \in Broker, f \in Forwarder :
        (/\ bpc[b] = "poll" /\ fwd[f].pc = "poll"
         /\ fwd[f].id = IdOf[b] /\ fwd[f].session = Src(b) /\ Readable(ParentDecided(f)))
            ~> bpc[b] \in {"done", "killed"} \/ fwd[f].pc = "killed"

(* Every ask that is staged in a session somebody watches gets an answer,  *)
(* if users answer what they see: no torn file, full or dead forwarder, or *)
(* lost race keeps its hook waiting.                                       *)
EveryAskAnswered ==
    UserFairness =>
        \A b \in Broker : bpc[b] = "poll" ~> bpc[b] \in {"done", "killed"}

----------------------------------------------------------------------------
(* Refinement: the processes implement the ask channel. *)

GivenVerdicts == {[by |-> v.by, id |-> v.id, decision |-> v.decision] : v \in told}

(* The asks some run of forwardUp could not hand to any parent.            *)
ExhaustedAsks == {fwd[f].id : f \in {g \in Forwarder : fwd[g].resp = Answer("harness-ask", g)}}

HookAnswers == [b \in Broker |-> IF bpc[b] = "done" THEN out[b].decision ELSE "none"]

Channel == INSTANCE AskChannel WITH
    Asker <- Broker, User <- Listener, Ask <- Id, AskOf <- IdOf,
    verdicts <- GivenVerdicts, exhausted <- ExhaustedAsks, answer <- HookAnswers

(* Spool, races, timeouts and crashes included, the hooks see an ask       *)
(* channel: AskChannel says what each of them may be told, and when.       *)
ImplementsAskChannel == Channel!ASpec

(* Not kept.  broker.ts:359 says that submitDecision "returns true if this *)
(* caller's decision was accepted": it would then be the hook's answer.    *)
AcceptedIsFinal ==
    \A b \in Broker, v \in told :
        bpc[b] = "done" /\ v.id = IdOf[b] /\ v.session = Src(b) =>
            out[b].decision = v.decision
============================================================================
