------------------------------ MODULE WatchTui -----------------------------
(***************************************************************************)
(* The selection of `hook-kit watch': rows that come and go, one           *)
(* highlighted index, and a prompt between picking an action and           *)
(* committing it.  The process is single-threaded; between two of its      *)
(* handlers hooks, brokers, forwarders and other listeners change the      *)
(* pending directories it lists.                                           *)
(*                                                                         *)
(* A row is a pending file.  Files are numbered in the order in which      *)
(* listSessions and listPending find them, which is also how a stable sort *)
(* leaves rows of one observedAt.  What a listener does to the spool       *)
(* (markers, verdicts, forwarding) is in Listeners and ForwardUp; here     *)
(* anybody may decide or forward any ask at any time, and what counts of   *)
(* allow, deny and escalate-up is which row they are about.                *)
(***************************************************************************)
EXTENDS Integers, FiniteSets, FiniteSetsExt

CONSTANTS
    Files,          \* how many pending files there will be: 1 .. Files
    Ask,            \* request ids
    AskOf,          \* AskOf[f]: the ask in file f
    Copies,         \* the files a forwarder publishes in a parent session
    NoAsk

File == 1 .. Files

ASSUME WatchConstants ==
    /\ Files \in Nat /\ IsFiniteSet(Ask) /\ NoAsk \notin Ask
    /\ AskOf \in [File -> Ask]
    /\ Copies \subseteq File

VARIABLES
    disk,            \* disk[f]: not yet, now, or no longer pending
    rows,            \* the files of state.rows
    observedAt,      \* observedAt[f]: the stamp of f's row, 0 without a row
    selectedIndex,
    mode,            \* "list" or "prompt"
    picked,          \* history: the ask highlighted when the prompt opened
    moved,           \* history: the list shifted under the prompt
    commit           \* history: the last commit, and what had been picked

tui == <<rows, observedAt, selectedIndex, mode>>
history == <<picked, moved, commit>>
vars == <<disk, tui, history>>

Commit == [ask : Ask \cup {NoAsk}, picked : Ask \cup {NoAsk}, moved : BOOLEAN]
NoCommit == [ask |-> NoAsk, picked |-> NoAsk, moved |-> FALSE]

TypeOK ==
    /\ disk \in [File -> {"before", "pending", "gone"}]
    /\ rows \subseteq File
    /\ observedAt \in [File -> Nat]
    /\ selectedIndex \in -1 .. Files
    /\ mode \in {"list", "prompt"}
    /\ picked \in Ask \cup {NoAsk}
    /\ moved \in BOOLEAN
    /\ commit \in Commit

Init ==
    /\ disk = [f \in File |-> "before"]
    /\ rows = {} /\ observedAt = [f \in File |-> 0]
    /\ selectedIndex = 0 /\ mode = "list"
    /\ picked = NoAsk /\ moved = FALSE /\ commit = NoCommit

----------------------------------------------------------------------------
(* The list *)

(* newRows.sort((a, b) => a.observedAt - b.observedAt)                     *)
Before(f, g) ==
    \/ observedAt[f] < observedAt[g]
    \/ observedAt[f] = observedAt[g] /\ f < g

(* state.rows[state.selectedIndex]: one row or none.                       *)
Selected == {f \in rows : Cardinality({g \in rows : Before(g, f)}) = selectedIndex}

SelectedAsk == IF Selected = {} THEN NoAsk ELSE AskOf[CHOOSE f \in Selected : TRUE]

Listed == {f \in File : disk[f] = "pending"}
AsksIn(files) == {AskOf[f] : f \in files}

(* state.rows.find(...).observedAt: the first row of an ask lends its      *)
(* stamp to every row of that ask, whatever session it is found in.        *)
Lent(ask) == Min({observedAt[f] : f \in {g \in rows : AskOf[g] = ask}})

(* The files of asks without a row: one Date.now() each, in their order.   *)
Fresh == {f \in Listed : AskOf[f] \notin AsksIn(rows)}

(* The latest stamp of the list.                                           *)
Latest == Max({0} \cup {observedAt[f] : f \in rows})

(* The readings never fall, and may equal each other and the latest stamp. *)
(* Only their order counts, so that the clock moves on by steps of one.    *)
Readings ==
    {now \in [Fresh -> Latest .. Latest + Cardinality(Fresh)] :
        \A f \in Fresh :
            /\ \A g \in Fresh : f < g => now[f] <= now[g]
            /\ now[f] \in {Latest, Latest + 1} \/ \E g \in Fresh : now[f] = 1 + now[g]}

StampsBug(now) ==   \* every refresh observes anew
    [f \in File |-> IF f \notin Listed THEN 0 ELSE IF f \in Fresh THEN now[f] ELSE Latest]

Stamps(now) ==
    [f \in File |-> IF f \notin Listed THEN 0
                   ELSE IF f \in Fresh THEN now[f] ELSE Lent(AskOf[f])]

ClampedBug(index) == index   \* the index is left where it was

Clamped(index) ==
    LET length == Cardinality(Listed) IN
    IF index >= length THEN (IF length = 0 THEN 0 ELSE length - 1) ELSE index

(* refreshRows ends every handler, with the index the handler leaves.      *)
Render(index) ==
    /\ rows' = Listed
    /\ \E now \in Readings : observedAt' = Stamps(now)
    /\ selectedIndex' = Clamped(index)

(* What else than a later ask at the end a refresh may do to the list: a   *)
(* row leaves; a copy of a listed ask joins; a copy found in one refresh   *)
(* with its original moves up to it; a new ask is stamped in the very      *)
(* millisecond of an older one, and may come before it.                    *)
Shifts ==
    \/ rows \ Listed # {}
    \/ \E f \in Listed \ rows : AskOf[f] \in AsksIn(rows)
    \/ \E f \in rows : observedAt[f] # Lent(AskOf[f])
    \/ \E f \in Fresh, g \in rows : observedAt'[f] = observedAt[g]

----------------------------------------------------------------------------
(* The user and the timer *)

(* Also a character typed into the prompt.                                 *)
TimerRender ==
    /\ Render(selectedIndex)
    /\ moved' = (moved \/ (mode # "list" /\ Shifts))
    /\ UNCHANGED <<disk, mode, picked, commit>>

KeyDown ==
    /\ mode = "list"
    /\ Render(IF selectedIndex + 1 < Cardinality(rows) THEN selectedIndex + 1
              ELSE Cardinality(rows) - 1)
    /\ UNCHANGED <<disk, mode, history>>

KeyUpBug ==   \* no lower bound
    /\ mode = "list"
    /\ Render(selectedIndex - 1)
    /\ UNCHANGED <<disk, mode, history>>

KeyUp ==
    /\ mode = "list"
    /\ Render(IF selectedIndex > 0 THEN selectedIndex - 1 ELSE 0)
    /\ UNCHANGED <<disk, mode, history>>

(* a, d, e: nothing happens on an empty list.                              *)
KeyPick ==
    /\ mode = "list" /\ rows # {}
    /\ mode' = "prompt"
    /\ Render(selectedIndex)
    /\ picked' = SelectedAsk /\ moved' = Shifts
    /\ commit' = NoCommit
    /\ UNCHANGED disk

KeyEscape ==
    /\ mode # "list"
    /\ mode' = "list"
    /\ picked' = NoAsk /\ moved' = FALSE
    /\ Render(selectedIndex)
    /\ UNCHANGED <<disk, commit>>

(* Enter: the mode is back to "list", the row the index points at is       *)
(* committed; without one the key does nothing more.                       *)
KeyEnter ==
    /\ mode # "list"
    /\ commit' = [ask |-> SelectedAsk, picked |-> picked, moved |-> moved]
    /\ picked' = NoAsk /\ moved' = FALSE
    /\ mode' = "list"
    /\ Render(selectedIndex)
    /\ UNCHANGED disk

----------------------------------------------------------------------------
(* The spool *)

(* A broker stages an ask; a forwarder publishes the copy of one.          *)
Appear(f) ==
    /\ disk[f] = "before"
    /\ disk' = [disk EXCEPT ![f] = "pending"]
    /\ UNCHANGED <<tui, history>>

(* The broker has its verdict and removes its file; copies stay.           *)
Vanish(f) ==
    /\ disk[f] = "pending" /\ f \notin Copies
    /\ disk' = [disk EXCEPT ![f] = "gone"]
    /\ UNCHANGED <<tui, history>>

Next ==
    \/ TimerRender \/ KeyDown \/ KeyUp \/ KeyPick \/ KeyEscape \/ KeyEnter
    \/ \E f \in File : Appear(f) \/ Vanish(f)

Spec == Init /\ [][Next]_vars

----------------------------------------------------------------------------
(* Properties *)

(* As long as the list does not shift while the prompt is open, Enter hits *)
(* the ask the user picked: asks that arrive meanwhile queue up behind the *)
(* older ones, and no refresh gives a listed ask another place.            *)
SteadyPromptsHitTheirAsk == commit.moved \/ commit.picked = NoAsk \/ commit.ask = commit.picked

(* However many rows leave at once, one of the rest is highlighted - if    *)
(* one was; "down" on an empty list puts the index at -1, where it stays   *)
(* when rows come, until the user presses a key that moves it.             *)
SomeRowIsHighlighted == rows # {} /\ selectedIndex >= 0 => Selected # {}
============================================================================
