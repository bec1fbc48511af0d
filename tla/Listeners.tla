------------------------------ MODULE Listeners ----------------------------
(***************************************************************************)
(* The processes that answer asks: `hook-kit subscribe' with the decide    *)
(* commands issued from its output, and the `hook-kit watch' TUI.  Each    *)
(* lists sessions, drops a marker in every session it lists, reads the     *)
(* pending asks and submits verdicts.                                      *)
(***************************************************************************)
EXTENDS SpoolFS

CONSTANTS
    Filter,            \* Filter[l]: --session s, --children-of s, or neither
    Tui,               \* the listeners that run `watch'
    KillableListener,  \* the listeners that may exit or be killed
    MaxSubmits         \* bound: verdicts one listener tries to submit for one ask

ASSUME ListenerConstants ==
    /\ Filter \in [Listener -> [kind : {"session", "childrenOf", "all"}, session : Session]]
    /\ Tui \subseteq Listener
    /\ KillableListener \subseteq Listener
    /\ MaxSubmits \in Nat

VARIABLES
    lpc,         \* lpc[l]: "run", or between the two halves of a write
    at,          \* at[l]: what the write in progress is about
    registered,  \* registered[l]: the keys of the cleanups map
    rows,        \* rows[l]: the asks l has listed, and in which session
    told,        \* every submitDecision that returned true
    submits      \* submits[l][i]: attempts so far, bounded by MaxSubmits

listenerVars == <<lpc, at, registered, rows, told, submits>>

Row == [session : Session, id : Id]
UserDecisions == {"allow", "deny"}   \* a user punts with escalate-up instead
Target == [session : Session, id : Id, decision : UserDecisions]
Verdict == [by : Listener, session : Session, id : Id, decision : UserDecisions]
NoTarget == [session |-> None, id |-> None, decision |-> "none"]

ListenerTypeOK ==
    /\ lpc \in [Listener -> {"run", "mark", "submit"}]
    /\ at \in [Listener -> [session : Session \cup {None}, id : Id \cup {None},
                           decision : Decisions \cup {"none"}]]
    /\ \A l \in Listener : lpc[l] = "submit" => at[l] \in Target
    /\ \A l \in Listener : lpc[l] = "mark" => at[l].session \in Session
    /\ registered \in [Listener -> SUBSET Session]
    /\ rows \in [Listener -> SUBSET Row]
    /\ told \subseteq Verdict
    /\ submits \in [Listener -> [Id -> 0 .. MaxSubmits]]

ListenerInit ==
    /\ lpc = [l \in Listener |-> "run"]
    /\ at = [l \in Listener |-> NoTarget]
    /\ registered = [l \in Listener |-> {}]
    /\ rows = [l \in Listener |-> {}]
    /\ told = {}
    /\ submits = [l \in Listener |-> [i \in Id |-> 0]]

----------------------------------------------------------------------------
(* The sessions of one poll: --session needs no meta.json; the others go   *)
(* through listSessions, which skips a missing or malformed one.           *)
Listed(l) ==
    LET f == Filter[l] IN
    CASE f.kind = "session"    -> {f.session}
      [] f.kind = "childrenOf" -> {s \in Session : meta[s].st = "full" /\ meta[s].parent = f.session}
      [] f.kind = "all"        -> {s \in Session : meta[s].st = "full"}

Running(l) == l \in alive /\ lpc[l] = "run"

(* registerListener: writeFileSync creates the marker ...                  *)
OpenMarker(l, s) ==
    /\ Running(l)
    /\ s \in Listed(l) \ registered[l]
    /\ marker' = [marker EXCEPT ![s][l] = "empty"]
    /\ lpc' = [lpc EXCEPT ![l] = "mark"]
    /\ at' = [at EXCEPT ![l] = [NoTarget EXCEPT !.session = s]]
    /\ UNCHANGED <<meta, pending, decided, alive, registered, rows, told, submits>>

(* ... and fills it, unless a scan has unlinked it in between.  Either way *)
(* the session counts as registered and is not tried again.                *)
FillMarker(l) ==
    LET s == at[l].session IN
    /\ l \in alive /\ lpc[l] = "mark"
    /\ marker' = [marker EXCEPT ![s][l] = IF @ = "empty" THEN "full" ELSE @]
    /\ registered' = [registered EXCEPT ![l] = @ \cup {s}]
    /\ lpc' = [lpc EXCEPT ![l] = "run"]
    /\ UNCHANGED <<meta, pending, decided, alive, at, rows, told, submits>>

(* listPending skips the files that do not parse.  subscribe prints an id  *)
(* once, whichever session it finds it in first.  The TUI has a row for    *)
(* each session; all rows of an id carry the same request and commit the   *)
(* same way, so that one of them stands for all.                           *)
ListPending(l, s, i) ==
    /\ Running(l)
    /\ s \in Listed(l) \cap registered[l]
    /\ Readable(pending[s][i])
    /\ \A r \in rows[l] : r.id # i
    /\ rows' = [rows EXCEPT ![l] = @ \cup {[session |-> s, id |-> i]}]
    /\ UNCHANGED <<spool, lpc, at, registered, told, submits>>

(* The session a verdict for a row goes to: the TUI takes the envelope's   *)
(* own session, the user of `decide --session' may also name the session   *)
(* the row was listed in.                                                  *)
Addressed(l, row) ==
    {SourceOf(row.id)} \cup (IF l \in Tui THEN {} ELSE {row.session})

SubmitDecisionBug(l, row, s, d) ==   \* a lost race is reported as accepted
    /\ Running(l) /\ submits[l][row.id] < MaxSubmits
    /\ row \in rows[l] /\ s \in Addressed(l, row)
    /\ submits' = [submits EXCEPT ![l][row.id] = @ + 1]
    /\ IF Exists(decided[s][row.id])
       THEN /\ told' = told \cup {[by |-> l, session |-> s, id |-> row.id, decision |-> d]}
            /\ UNCHANGED <<decided, lpc, at>>
       ELSE /\ decided' = [decided EXCEPT ![s][row.id] = Created(l)]
            /\ lpc' = [lpc EXCEPT ![l] = "submit"]
            /\ at' = [at EXCEPT ![l] = [session |-> s, id |-> row.id, decision |-> d]]
            /\ UNCHANGED told
    /\ UNCHANGED <<meta, pending, marker, alive, registered, rows>>

(* submitDecision: O_EXCL on decided/<id>.json.  It never looks at pending *)
(* and a row may be long gone.  A lost race returns false.                 *)
SubmitDecision(l, row, s, d) ==
    /\ Running(l) /\ submits[l][row.id] < MaxSubmits
    /\ row \in rows[l] /\ s \in Addressed(l, row)
    /\ submits' = [submits EXCEPT ![l][row.id] = @ + 1]
    /\ IF Exists(decided[s][row.id])
       THEN UNCHANGED <<decided, lpc, at>>
       ELSE /\ decided' = [decided EXCEPT ![s][row.id] = Created(l)]
            /\ lpc' = [lpc EXCEPT ![l] = "submit"]
            /\ at' = [at EXCEPT ![l] = [session |-> s, id |-> row.id, decision |-> d]]
    /\ UNCHANGED <<meta, pending, marker, alive, registered, rows, told>>

(* The bytes of the verdict; submitDecision returns true.                  *)
FillDecision(l) ==
    LET a == at[l] IN
    /\ l \in alive /\ lpc[l] = "submit"
    /\ decided' = [decided EXCEPT ![a.session][a.id] = Fill(@, l, Answer(a.decision, l))]
    /\ told' = told \cup {[by |-> l, session |-> a.session, id |-> a.id, decision |-> a.decision]}
    /\ lpc' = [lpc EXCEPT ![l] = "run"]
    /\ UNCHANGED <<meta, pending, marker, alive, at, registered, rows, submits>>

ListenerExitBug(l) ==   \* removes the directories of the markers
    /\ l \in KillableListener /\ Running(l)
    /\ marker' = [s \in Session |->
                    [k \in Listener |-> IF s \in registered[l] THEN "absent" ELSE marker[s][k]]]
    /\ alive' = alive \ {l}
    /\ UNCHANGED <<meta, pending, decided, listenerVars>>

(* SIGINT / SIGTERM: every marker of the cleanups map is removed.          *)
ListenerExit(l) ==
    /\ l \in KillableListener /\ Running(l)
    /\ marker' = [s \in Session |->
                    [marker[s] EXCEPT ![l] = IF s \in registered[l] THEN "absent" ELSE @]]
    /\ alive' = alive \ {l}
    /\ UNCHANGED <<meta, pending, decided, listenerVars>>

(* SIGKILL, at any point: the markers stay, a half-written file stays.     *)
ListenerCrash(l) ==
    /\ l \in KillableListener /\ l \in alive
    /\ alive' = alive \ {l}
    /\ UNCHANGED <<meta, pending, decided, marker, listenerVars>>

(* What the process does by itself, without a user's decision.             *)
ListenerPoll(l) ==
    \/ FillMarker(l) \/ FillDecision(l)
    \/ \E s \in Session : OpenMarker(l, s) \/ \E i \in Id : ListPending(l, s, i)

SubmitFor(l, i) ==
    \E row \in rows[l], s \in Session, d \in UserDecisions :
        row.id = i /\ SubmitDecision(l, row, s, d)

ListenerNext(l) ==
    ListenerPoll(l) \/ (\E i \in Id : SubmitFor(l, i)) \/ ListenerExit(l) \/ ListenerCrash(l)
============================================================================
