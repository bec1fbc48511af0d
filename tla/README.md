# A TLA+ model of hook-kit

hook-kit is a library for writing hooks of coding agents: rules look at the
command the agent is about to run and answer *deny*, *ask*, *warning*, *note*
or nothing. An ask is escalated to a person through a tree of sessions made of
files. These modules model the parts of it where the order of steps matters,
TLC checks them on small instances, and TLAPS proves the most important
properties for all of them. Source paths below are relative to `src/` of the
repository unless they start with `docs/`.

- [1. The system](#1-the-system): inventory
- [2. Plan](#2-plan): what is done and what is left
- [3. Modules](#3-modules): how state and actions correspond to the code
- [4. Runs](#4-runs): what is checked, within which bounds
- [5. Disagreements](#5-disagreements): what documents say and the code does not do
- [6. Proofs](#6-proofs)
- [7. Limits](#7-limits): what is not modelled or only model-checked

## 1. The system

| component | state | operations | correct when |
|---|---|---|---|
| rule engine, `engine/index.ts` | per call: terminal, annotations, lazy parse; recursion depth | run the rules of all modules, look into inline shells by recursion, apply the policies for what cannot be seen | deny short-circuits, asks survive and the first one wins, errors are never lost, a dead parser fails closed |
| spool, `escalation/broker.ts` | per session directory: `meta.json`, `pending/`, `decided/`, `listeners/` | ensureSession, brokerAskpass, listSessions, listPending, submitDecision | a file is created once, the first verdict wins |
| broker process, `brokerAskpass` | where it is, its answer | validate listeners, stage the ask, poll, auto-deny on a deadline, clean up | answers are never made up, one broker per ask, nothing left behind |
| listener markers, `escalation/listeners.ts` | one file per pid and session | register, scan and prune, walk the parent chain | an ask is refused only if nobody listens |
| listeners: `subscribe`, `decide` (`build/cli.ts`), `watch` (`escalation/watch-tui.ts`) | markers, rows seen | list, decide, escalate | a verdict that was accepted is the answer |
| forwarder, `escalation/forward.ts` | where it is | publish an ask in the parent's session, poll, copy the verdict down | verdicts travel down, `harness-ask` only past the root |
| watch TUI | rows, selected index, mode, prompt | keys, timer | the ask that was picked is the one decided |
| askpass client, `escalation/askpass.ts` | child, timer, pipes | spawn, race, read, check | never a silent allow, a deadline is final, it returns |
| adapters and `run`, `adapters/claude-code.ts`, `run.ts`; `hk` wrapper, `wrapper/hk.ts` | the outcome | read an event, evaluate, render an outcome | a deny blocks, errors reach stderr |
| state stores, `state/` | a map; one JSON file | load, set, delete, flush | flushes are durable, a crash leaves a map |
| rule builders, `builders/` | per evaluation: the item examined next, a flag that a doubt was seen | match calls, pipes, redirects or a file path; escalate what the shell has yet to fill in | silence and a match are certain whatever the shell fills in, a doubt is real, a match outweighs a doubt |
| git enrichment, `escalation/enrich-git.ts`; the generated entrypoint, `build/bundle.ts` | git processes; - | ask git; load the modules | a failure costs the context, not the ask; a hook that cannot load says so |
| bundler, `build/bundle.ts`, `build/cli.ts` | work directory, binary, `hooks.json` | compile the entrypoint, import it again, write what to hand to the binary | the harness hands over all the binary judges, a failure is reported and leaves nothing |
| repository checks, `scripts/verify.ts`, `scripts/check-suppress-comments.ts` | checks left, results; a bit per line | find the base ref, run the checks; scan comments | green means checked, a report is about a directive |
| testing SDK, trace, the other check scripts, examples | - | - | (not modelled) |

How they interact: the harness starts a hook process; `run` has the engine
evaluate the event and hands the outcome to the adapter; an ask makes the
adapter spawn an askpass child, by default the broker; brokers, listeners and
forwarders are separate processes that share nothing but the spool's files and
poll for changes. State stores are loaded by the constructor in each hook
process and flushed by the engine before each of its exits.

What is hard here: every file is created under its final name and filled by a
second system call, so other processes see it empty; existence checks and
writes interleave; the harness may kill a hook at any point and a listener may
die at any point; opt-in deadlines race with late answers; forwarders may run
twice for one ask; the recursive engine has seven exits that each merge
terminals, annotations and errors; the TUI keeps an index into a list that
other processes change; a child process may leave others behind that hold its
pipes; the rule builders answer about words whose values the shell has yet to
produce; the bundler reads the entrypoint twice and may fail between its
outputs. `PROJECT.json` lists these as hazards, each at its line.

## 2. Plan

In order of importance:

1. `SpoolFS`, `Broker`, `Listeners`, `ForwardUp`, composed by `Escalation`, and
   the abstract `AskChannel` they implement - **done**: modelled, checked, its
   types and safety proved, the refinement proved.
2. `Engine` - **done**: modelled, checked, all of its properties proved
   (`EngineProofs`).
3. `WatchTui` - **done**: modelled, checked, all of its properties proved for any
   asks (`WatchTuiProofs`).
4. `HookRun`: askpass client, adapter, `run`, `hk` - **done**: modelled,
   checked, its safety proved (`HookProofs`).
5. `TmpdirStore` and the abstract `DurableMap` - **done**: modelled with hooks
   that overlap, checked, refinement proved.
6. `AcceptedIsTaken`, `FinishedAsksAreGone` and `HarnessAskOnlyAtRoot` as
   theorems - **done**, each under an assumption that section 6 names.
7. `Matchers`: the rule builders against every value the shell may fill in -
   **done**: modelled, checked; silence, doubt, the certainty of a match and its
   precedence and the agreement of aliases proved. *Left:* the stateful rules of
   `builders/state.ts` together with the state store.
8. `Bundle`: `hook-kit build` - **done**: modelled, checked, both properties
   proved (`ToolsProofs`).
9. `Verify` and `SuppressScan`: the checks of the repository - **done** for
   `verify` and the scan of suppressions: checked, and proved for files of any
   length (`ToolsProofs`).
10. *Left:* a two-hop instance of `Escalation` for TLC.

## 3. Modules

| module | models | notes |
|---|---|---|
| `SpoolFS` | the files of the spool | A file is absent, empty (created, not written), or full. `meta.json` may also be truncated by a second writer. |
| `Broker` | `ensureSession`, `brokerAskpass`, `liveListeners`, `hasParentListener` | `bpc[b]` is the position of a broker; each system call another process can observe is a step. |
| `Listeners` | `registerListener`, `listSessions`, `listPending`, `submitDecision`, the CLI commands and the TUI as a listener | `rows[l]` is what a user has seen; verdicts need a row. `told` records every `submitDecision` that returned true. |
| `ForwardUp` | `forwardUp` | One record per run: position, session, parent, response. |
| `Escalation` | composition of the four, their fairness and properties | |
| `AskChannel` | abstract: what an asker may be told and when | an "allow" needs a user's allow of that ask |
| `Engine` | `evaluateInternal` | `frames[d]` is the call at depth d; rules, parser, unwrapper, store and observers may do anything the code handles. |
| `WatchTui` | rows, index and prompt of `hook-kit watch` | one action per key and per timer tick, each ending in `Render` as `onData` ends in `render()`. |
| `HookRun` | a compiled hook: the entrypoint the bundler generates, `run`/`runShell`, `enrichGit`, `callAskpass`, `resolveCcOutput`, `execCommand` | the askpass child, what it leaves behind, git and the command that `hk` runs (`CommandEnds`) are the environment. |
| `TmpdirStore` | the JSON-file store | a load is two steps, a flush is two, truncate and write, with kills and full disks in between. Hooks may overlap, and `shared` says that they have: a read or a write that another hook's write falls into (`torn`, `clashing`) may find or leave any map (`Clash`). |
| `DurableMap` | abstract: a map that is replaced or lost as a whole, and any map at all among hooks that overlap | |
| `Matchers` | `cmd`, `allowOnly`, `pipe`, `redirect`, `path` and `protectPath` rules, flag aliases, `escalateUncertain` | the three-state answers of the builders are operators (`CmdState`, `PipeState`, ...), their loops over calls, pipes, redirects one state machine. |
| `Bundle` | `buildCommand`, `runBuild`, `writeHooksJson`, `generateHooksJson` | each system call is a step that may fail, and the build may be killed; the entrypoint may be edited at any time. `Applies` is the filter at the head of the engine's loop over modules. |
| `SuppressScan` | `scanContent` of `check-suppress-comments` | pure operators over lines of characters, each a run along a sequence (`Along`). Beside the scanner (`MarkersAt`, `FoundAt`, `AdvanceBlockCommentState`) stands what a lexer of the language makes of the same lines and which of the markers are directives to a linter (`Lex`, `Directives`); neither is defined by the other. |
| `Verify` | `scripts/verify` | the checks are run in order; the scan is `SuppressScan`, the others pass or fail. |
| `Tools` | one run of either tool | `Bundle` and `Verify` share nothing; a behaviour is a run of one of them. |
| `MCEscalation`, `MCEngine`, `MCWatch`, `MCMatchers`, `MCTools` | instances for TLC | |
| `EscalationProofs`, `EngineProofs`, `WatchTuiProofs`, `HookProofs`, `StoreProofs`, `MatchersProofs`, `ToolsProofs` | theorems | |
| `NatFacts` | lemmas on numbers and finite sets that these rest on | induction as the refutation of a least counterexample |

A definition whose name ends in `Bug`, or in `Eager`, is the definition that follows it with a
plausible mistake. No action uses it; `PROJECT.json` pairs it with the property
that fails when it takes the place of the right one.

Variables that the code does not have are marked `history` where they are
declared (`told`, `emitted`, `firstAsk`, `raised`, `limited`, `picked`,
`moved`, `timedOut`, `before`, ...). They record what has happened, and no guard of the
program depends on them.

Abstractions made on purpose:

- A response is its decision and who gave it; ids, reasons, stamps and all other
  fields of an envelope are text. A deadline may pass at any moment.
- A scan of a session's markers lists them (`Scan`), reads one after the other
  (`ReadMarker`) and removes what it found empty or of a dead process
  (`PruneMarker`), by name, whatever the file says by then. Process ids are not
  reused.
- The TUI's rows of one id are one row in `Listeners`, because all of them carry
  the same request and commit the same way; in `WatchTui` they are distinct.
  There *allow* and *deny* are one action. Each new row of a refresh has a reading
  of the clock of its own (`Readings`), which may equal the one before it but
  does not fall: a clock that is set back is outside the model. The listing of all
  sessions is one snapshot. The `q` key is `ListenerExit`.
- The engine's annotations are counted when they are errors and positions when
  they are warnings or notes; a decision is its kind and the position of its
  emission, which is what tells the first ask from a later one. `limited` records that
  a script was returned at the depth limit. A tool other
  than Bash is `recurse = FALSE`. Which rules a module filter lets through is
  the environment's choice of how many rules apply.
- In `Matchers` the parser's view of a script is the input: calls with their
  resolved name, positional words, flags, flag values and `prefix=` operands,
  each word a value or `DYNAMIC`; a regular expression is the set of the values
  it matches. A run of a call (`Runs`) puts any value in the place of each
  dynamic word; a word stays one word, and the values of a repeated flag are a
  set. The value of `-t` is not a positional, as protect-path.ts:38 says. All
  six loops go over their items in order, leave at a match, and remember a
  doubt, so they share `Fire`, `Skip`, `Doubt` and `Finish`; only `cmd` and
  `allowOnly` differ at a dynamic command word (`EscalateWord`). The tables of
  the code are plain objects, so a command may bear the name of a member that
  every object inherits (`ObjectMembers`: `toString`, `constructor`, ...); the
  loops over what the table then yields throw, and the rule with them (`Throw`).
- In `Bundle` a matcher is the set of the tool names it lists, `--out` is a file in
  the root of the plugin or in a directory of it, and one command stands for
  all entries. In `SuppressScan` slashes, stars and quotes are characters, a marker
  is the name of a directive with what follows its separator folded into
  whether that passes the policy, and blanks are left out.
- An error of the parser's preload is of one of the classes that the entrypoints
  report (`"wasm"`) or of another (`"other"`), which they swallow.
- Of the words that `hk -- ...` is given the model keeps only that they are a
  command, of an exit code only whether it is 0, 1 or 2.

## 4. Runs

Each run takes under two minutes with two workers.

| run | instance | asks |
|---|---|---|
| `MCSpool` | one session, one id, two brokers, two listeners; one broker has a deadline, one may be killed, one listener may exit or die | Are answers backed by a verdict, is one broker waiting at a time, are verdict files final, does a scan spare the filled markers of the living unless it read them empty, are prompts removed? |
| `MCForward` | child and parent session, a listener on each, two forwarders for one ask (one timed, one killable), parent without `meta.json`, a timed broker, removals may fail | Types; does `harness-ask` come only from the root; do the processes implement `AskChannel`; is the accepted verdict the one the broker takes? |
| `MCLive` | one hop with fairness; hook and forwarder may be killed | Does a verdict end the wait, travel down, and does every staged ask get an answer? |
| `MCEngine` | depth limit 1, two rules and two inline shells per script, one observer, every policy whose two answers to the unseen agree | the merge contract |
| `MCWatch` | five files: three asks and copies of two of them, one listed before its original and one after, anybody may decide | Does Enter hit the ask that was picked while the list does not shift, is a row highlighted? |
| `MCHook` | both surfaces, with and without deadline and git enrichment, any outcome, any child, each class of preload error | no silent allow, deadline final, errors on stderr, the hook comes to its answer |
| `MCStore` | three hooks, one after the other or at once, two keys, one value | Does the file implement `DurableMap`? |
| `MCMatch` | 38 rules of six builders on scripts of one or two calls, a pipe of up to three stages, up to four redirects, or a file tool's event, under each uncertainty policy, calls of `toString` among them | Is a silent rule right to be silent and a match right to fire whatever the shell fills in, is an escalation called for, does a match outweigh a doubt, are aliases interchangeable? |
| `MCTools` | a build of each of eight entrypoints with each command line, edited into any other; `verify` on few files with each of 209 command lines and 18 states of git, or on every file of one line of up to three pieces, two of up to two, or three of up to two of fewer kinds | Does `hooks.json` hand over what the binary judges, is a failure contained, does green mean checked, is what is reported a directive? |
| `FindLateVerdict`, `FindLostLink`, `FindMovedSource` | the smallest instance that shows it | see section 5 |

Why the bounds are enough to be interesting: races need two processes on one
file, and every pair of kinds (broker-broker, listener-listener,
broker-listener, forwarder-forwarder, forwarder-broker, forwarder-listener) is
in some run; a torn file that stays torn needs a crash between two steps of one process, which
`MCSpool` and `MCForward` have for a listener, a broker and a forwarder; forwarding acts on one hop at a time
and a second hop repeats it on the next pair of sessions (`FindLostLink` has
three sessions). The recursion of the engine is the same at each depth except
the last, and one level has both. `MaxSubmits = 1` lets a listener try once per
ask; a second try by the same user is a try by a second listener. `MaxRules`,
`MaxCalls` bound what the environment feeds an evaluation. `Files = 5` bounds
the pending files over the life of one TUI. In `MCMatch` two items are enough to
put a doubt or a dynamic command word before or after a match, and each kind of
word (static, dynamic, dynamic behind a wrapper, half dynamic) is in some call.
In `MCTools` a piece is a comment opening, a closing, a single slash, star or
quote, a text or a marker; three lines open, carry on and close a block comment,
and two pieces before a marker put it in each state of the lexer.

`AcceptedIsTaken` is checked with one broker per id. Ids are random UUIDs, so
two brokers carry one id only when someone replays an envelope; then the loser
of the race for `pending/` is denied at once, which `OneBrokerPerAsk` and
`FinishedAsksAreGone` are about.

`CHECK_DEADLOCK FALSE` stands in runs whose processes end: a broker returns, a
hook exits, a listener's submits are bounded, the evaluation of a rule ends.

Fairness (`Escalation!ProcessFairness`): weak fairness of each process's own
steps. The code between two system calls is synchronous, the poll loops sleep
and go on, and a deadline, where one was given, passes. Being killed is never
fair, and neither is a user: `EveryAskAnswered` says in its premise
(`UserFairness`) that users answer what they see. `HookRun!FairSpec` is weakly
fair to the hook's event loop only; the other processes owe nothing. So
`HookReturns` assumes a deadline or a child that is found not running, pipes
that are released again and again, and git processes that end: they are awaited
before the deadline is armed. And it promises no more than that the hook is
`Answered`, which `hk` is when it has spawned the user's command: how long that
runs, and with it `hk`, is nobody's to say. `WatchTui`, `Engine`, `TmpdirStore`,
`Matchers`, `Bundle` and `Verify` are checked for safety only.

## 5. Disagreements

Three runs end in a counterexample to something the repository says:

- **FindLateVerdict** (`escalation/broker.ts:276`). A broker removes the verdict
  file when it returns. A listener that still shows the row then creates it
  anew, and `submitDecision` returns true, which broker.ts:359 explains as "this
  caller's decision was accepted". The user is told *allow* counted; the hook was
  denied. The orphaned file is also found by nobody.
- **FindLostLink** (`escalation/forward.ts:74`). A forwarder that is the first to
  touch the parent's session creates its `meta.json` without the parent's own
  parent. `ensureSession` never repairs it, so an ask of the parent later ends
  at a session that is not the root.
- **FindMovedSource** (`builders/protect-path.ts:101`). The source of `mv` is
  protected against writing, because the move destroys the original
  (protect-path.ts:77-80). With `-t` the selectors of `mv` are replaced by those
  of `cp`, which only read their sources: `mv -t /tmp /etc/x` passes a write
  rule for `/etc` that `mv /etc/x /tmp` does not.

Met while modelling, visible in the models, and not given a run of their own:

- `engine/index.ts:587`: at the depth limit the engine returns before the
  engine-unavailable policy is looked at, although index.ts:693 says that a dead
  engine fails closed regardless of any non-deny terminal.
  `DeadEngineDeniesAboveLimit` is what holds: under `onDepthExceeded: "deny"`
  always, and under any other policy, the default one included, as long as no
  script is returned at the limit (`limited`).
- `escalation/watch-tui.ts:391`: `commit` acts on whatever row the index points at
  when Enter is pressed, and each keystroke of the reason and each timer tick
  refreshes the rows. If a row above leaves meanwhile, another ask is decided
  than the one that was picked. So it is when a copy of a listed ask joins, and
  even when nothing leaves or joins: `observedAt` is a `Date.now()` per row
  (watch-tui.ts:375-379), so an ask and its copy that are found in one refresh may
  differ by a millisecond, and the next refresh lends the copy the stamp of the
  first of them, which moves it past a row in between. And an ask that is
  stamped in the millisecond of an older one sorts by its place in the listing.
  `Shifts` names these four; without them `SteadyPromptsHitTheirAsk` holds.
- `escalation/askpass.ts:135`: the deadline is disarmed when the child exits, and
  the pipes are then read without one. A grandchild that holds stdout keeps the
  hook waiting, which the comment at askpass.ts:89 avoids during the race only;
  hence the premise about `holder` in `HookReturns`. It may also write: an *allow*
  that it prints after the child has exited with 0, however late, is the answer,
  and the hook proceeds. `NothingProceedsUndecided` therefore says what the pipe
  held and that no deadline had won, not who wrote and when.
- `build/cli.ts:165`: without `--binary-command` the command of `hooks.json` is
  `${CLAUDE_PLUGIN_ROOT}/` and the last part of `--out`. The documented
  `--out dist/hk-cc-tools --hooks-json ...` (`docs/SPEC.md:571`) thus wires
  `${CLAUDE_PLUGIN_ROOT}/hk-cc-tools`, where `docs/SPEC.md:582` shows
  `dist/hk-cc-tools`: a file that is not there. `Located` is the premise of
  `WiredAsCompiled` for it.
- `docs/SPEC.md:484` says that `hooks.json` is only meaningful with the adapter
  `cc-tools`; with the default one it is written all the same and points the
  harness at `hk`, which prints its help and evaluates nothing.
- `scripts/check-suppress-comments.ts:6` says that every suppression is required
  to carry a reason. It does not see `/* @ts-ignore */` (:254 knows the form with
  `//` only), a directive on a later line of a block comment (:462 passes the line
  over, for :420-423 take it for documentation), one behind the `*/` of such a line, one
  behind further slashes or stars, and a second one on a line. A `/*` in a
  string or behind `//` hides what follows. `Plain` leaves these out of
  `GreenMeansChecked`. With `--all`, a directory that cannot be listed is passed over
  and the scan is green.
- `scripts/check-suppress-comments.ts:368-370`: a `/*` in a string makes the scan
  under-report, not over-report. With a `/*/` in a real block comment behind it the bit is
  cleared inside that comment, and a marker that the documentation quotes there is reported;
  hence the premise `Candid` of `RedMeansDirective`. The scan reports a
  marker behind `//` in a string as well, or behind a second `//` in a comment, so a
  report need not be about a directive; it is if all that looks like one on
  the line is one.
- `docs/ESCALATION.md:131` calls the spool atomic by rename(2); files are created
  with `O_EXCL` and written afterwards, so a broker can find an empty verdict,
  and denies (`ReadDecided`).
- `docs/ESCALATION.md:138`: `pending/` holds one file per ask in flight; a
  forwarder's copy in the parent session is removed by nobody.
- `broker.ts:70`: `meta.json` is written if it does not exist; two first asks of
  a session both write it, and while it is truncated a chain walk takes the
  session for a root (`docs/SPEC.md:427` says NO PARENT ATTACHED means that no
  listener exists anywhere in the chain). So does a forwarder: with two hooks of
  a session that ask for the first time, one of which has been listed when the
  other truncates the file, it answers `harness-ask` below the root.
  `HarnessAskOnlyAtRoot` fails in an instance with two brokers of one session and no
  `meta.json`; `MCForward` has one broker.
- `listeners.ts:26`: stale markers are pruned; so is the marker of a running
  listener that is between creating and filling it. Reading and removal are two
  calls (listeners.ts:83-110), so the marker may have been filled by the time it is
  removed: the listener believes that it is registered and no ask finds it.
  `MarkersOutliveScans` says that a filled marker is lost in no other way.
- `docs/SPEC.md:445`: blocked forwarders unblock when the hook is killed; they
  wait for the parent's verdict or their own deadline, whatever the hook does.
- `docs/SPEC.md:722`: a misconfigured tree is denied instead of hanging; a
  listener that watches only an ancestor passes the validator and never sees
  the ask. `MCLive` has a listener in the ask's own session.
- `engine/index.ts:230`: the first ask wins; in a script that is returned at the depth
  limit the policy's ask replaces it, hence the premise of `FirstAskWins`, which
  the default profile meets wherever the limit is not reached.
- `escalation/enrich-git.ts:3`: every failure emits an error line; a git that
  exits with another code than 0 does not.
- `wrapper/hk.ts:158`: joining argv on spaces preserves the structure of the
  command; a word with a space or a `;` in it is judged as several.
- `build/bundle.ts:24` and `docs/SPEC.md` let an entrypoint export a function;
  `build/cli.ts:191` hands that function to `generateHooksJson` as if it were the
  modules, and the build fails after the binary was written.
- `docs/SPEC.md:407` offers `/bin/true` as an always-allow askpass; its empty
  output is denied (`askpass.ts:148`).
- `adapters/claude-code.ts:106`: the askpass timeout "defaults to 60_000"; there is
  no default, `writeOutput` passes none (`TimedAsk` has FALSE for that reason).
- `docs/STATE.md:80` relies on the atomicity of file writes for durability; the
  file is truncated first, so a kill in between loses the map. `DurableMap` has
  the step `DLose` for it.
- `docs/STATE.md` and `docs/decisions/tmpdir-store-decision.md` say that hooks
  which share a state file lose updates, last write wins. They may lose more: a
  shorter map written over a longer one that was written since the truncation
  leaves a file that does not parse, or one that parses as a map nobody has flushed,
  from which the next hook starts; and a hook that loads while another flushes
  finds an empty map, which its own flush then makes durable.
- Pressing `j` on an empty list leaves the TUI's index at -1, and rows that come
  later have none highlighted until another key moves it; `SomeRowIsHighlighted`
  has `selectedIndex >= 0` as a premise.
- `core/security.ts:62`: everything the parser cannot certify escalates. A dynamic
  subcommand (`git $X`), `argIncludes` on a dynamic word, a half dynamic operand
  (`dd of=/etc/$X`, `protect-path.ts:184`) and a pipe into `sudo $X` (`pipe.ts:105`
  says that its name is empty; `helpers.ts:140` says that it is `sudo`, and it
  is) are answered *no match*. `Visible` names these words; `SilenceIsCertain`
  speaks of the others.
- `builders/command.ts:347` returns at a dynamic command word, so `$X; git push`
  asks where `git push; $X` is denied; the other builders go on and let a match
  decide. `DefiniteMatchWins` says so.
- `engine/helpers.ts:8`: in a group of aliases, matching one matches the rest.
  `git branch -D` matches `withFlag("--force")` and not `withFlag("-f")`, because
  the table of expansions is not combined with the groups.
- `builders/protect-path.ts:256` and `engine/helpers.ts:70` index plain objects with the
  name of the command. For `toString`, `constructor` or `valueOf` they find a function,
  the loop over it throws, the engine notes an error (engine/index.ts:493-510) and
  goes on to the next rule: `toString; cp x /etc/y` loses a definite match of this one. The
  third disjunct of `DefiniteMatchWins` is about it.
- `run.ts:33-38` and `wrapper/hk.ts:134-139` say that a failure of the preload must remain
  visible; a rejection of any other class than the two they test for is swallowed.
  `ErrorsReachStderr` speaks of the two.
- `docs/SPEC.md:143`: flag values that are dynamic are skipped silently; they
  escalate (`FlagValueState`), unless the rule says `skipDynamic`.

## 6. Proofs

All theorems hold for every value of the constants that satisfies the named
assumptions of the modules (`SpoolConstants`, `DistinctProcesses`, `BrokerConstants`, `ListenerConstants`,
`ForwarderConstants`, `LineageConstants`, `BundleConstants`, `EngineConstants`, `StoreConstants`, `HookConstants`,
`MatchersConstants`, `MatchersInputs`, `WatchConstants`, `VerifyConstants`): any number of sessions, ids, brokers,
listeners and forwarders, any lineage of sessions (but see `FinishedGone` and
`HarnessAskIsRoots`), any depth limit, any set of
policies, any set of keys and values, any rules and scripts, any entrypoints,
any finite set of asks, any list of checks, files of any length.

| theorem | says |
|---|---|
| `EscalationProofs!TypeCorrect` | types of files and processes |
| `EscalationProofs!BrokersExclude` | `OneBrokerPerAsk` |
| `EscalationProofs!VerdictsFinal` | `VerdictsAreFinal` |
| `EscalationProofs!NoSilentAllow` | `AnswersAreBacked` |
| `EscalationProofs!AcceptedTaken` | `AcceptedIsTaken`, if no two brokers carry one id (`OneBrokerPerId`) |
| `EscalationProofs!FinishedGone` | `FinishedAsksAreGone`, if no session is its own ancestor (`Descends`) |
| `EscalationProofs!MarkersStay` | `MarkersOutliveScans` |
| `EscalationProofs!HarnessAskIsRoots` | `HarnessAskOnlyAtRoot`, if no link is lost (`LinksAreKnown`) |
| `EscalationProofs!Implements` | `Escalation` implements `AskChannel` |
| `EngineProofs!EngineTypes` | the recursion stays within the limit |
| `EngineProofs!DenyIsFinal` | `DenyShortCircuits` |
| `EngineProofs!AskIsKept` | `AskSurvives` |
| `EngineProofs!ErrorsAreKept` | `ErrorsSurvive` |
| `EngineProofs!NotesKeepOrder` | `NotesInOrder` |
| `EngineProofs!FirstAskIsReturned` | `FirstAskWins`, where the depth limit does not ask or no script is returned at it |
| `EngineProofs!DeadEngineIsDenied` | `DeadEngineDeniesAboveLimit`, where the depth limit denies or no script is returned at it |
| `WatchTuiProofs!TypeCorrect` | types of the files, rows, stamps and prompt; the index never leaves -1 .. `Files` |
| `WatchTuiProofs!PromptsHitTheirAsk` | `SteadyPromptsHitTheirAsk`, if the list does not shift (`Shifts`) while the prompt is open |
| `WatchTuiProofs!ARowIsHighlighted` | `SomeRowIsHighlighted`, for an index that is not negative |
| `HookProofs!HookTypes` | types of the outcome, the child and the output |
| `HookProofs!NoSilentPass` | `NothingProceedsUndecided` |
| `HookProofs!DeadlineIsFinal` | `TimeoutIsFinal` |
| `HookProofs!ErrorsAreShown` | `ErrorsReachStderr` |
| `StoreProofs!StoreTypes`, `StoreImplements` | `TmpdirStore` implements `DurableMap` |
| `MatchersProofs!MatchersTypes` | an evaluation ends in silence, the rule's own decision or an escalation |
| `MatchersProofs!NoMatchIsCertain` | for each builder: an item answered *no match* matches in none of its runs |
| `MatchersProofs!MatchDecides` | `DefiniteMatchWins` |
| `MatchersProofs!SilenceHidesNothing` | `SilenceIsCertain` |
| `MatchersProofs!OwnIsCertain` | `MatchIsCertain` |
| `MatchersProofs!DoubtsAreReal` | `DoubtIsReal`, if the rules can match (`RulesCanMatch`) |
| `MatchersProofs!AliasesAreOne` | `AliasesAreInterchangeable` |
| `ToolsProofs!TypeCorrect` | types of both tools |
| `ToolsProofs!HooksCoverTheBinary` | `WiredAsCompiled` |
| `ToolsProofs!FailuresAreContained` | `FailureIsContained` |
| `ToolsProofs!GreenIsChecked` | `GreenMeansChecked`; what it says of directives, for files that are `Plain` |
| `ToolsProofs!RedIsDirective` | `RedMeansDirective`, for files that are `Candid` |

The arguments:

- *OneBrokerPerAsk* is not inductive: a broker waits because it created the
  pending file, so `HeldPending` adds that the file of a waiting broker exists and is
  its own; `Stage` of a second one then finds it. Only a broker that holds the
  file, or one past its wait, removes it.
- *AnswersAreBacked* needs to know where every response in the system comes from,
  not only the answers: `Provenance` says that each full verdict file
  (`FilesBacked`), each response a broker holds (`HeldBacked`) and each one a
  forwarder carries (`ForwardedBacked`) was given by a user for that ask, or is a
  broker's deny, or was made up by a forwarder for the ask it forwards.
  `told` and the forwarders' own answers only grow (`Grows`), so what is backed
  stays backed, and every action moves responses between places that are.
- *AcceptedIsTaken*: as long as a broker has not settled, the file of its verdict
  only comes into being and is filled (`AcceptedStands`: an accepted verdict is
  what the file says, a verdict on its way owns the inode). With two brokers
  under one id the one that is done would remove what the other still reads.
- *FinishedAsksAreGone*: a prompt in its own session is held by a broker or left
  by a killed one (`PromptIsHeld`). The only other process that could put one
  there is a forwarder, and a forwarder publishes nearer to the root than the ask
  is (`CopiesDescend`), because every link on disk leads there (`LinksDescend`).
  That is why the theorem needs links without cycles: nothing in `ensureSession`
  or `forwardUp` excludes one (only `hasParentListener` keeps a visited set), and
  a copy that has travelled round it would lie in the session of a finished ask.
- *MarkersOutliveScans*: a marker on disk is in the cleanups map of its listener or
  is just being written by it (`MarkersClaimed`), so that registration does not
  truncate a filled one. What else touches a marker is the exit of its own
  listener and a scan (`MarkerStep`), and a scan removes what its notes name
  (`ScanNotes`): a marker that was gone or empty when it was read, or that of a dead process,
  and processes do not come back. One that was gone when it was read can only have been removed
  since it was listed, by the exit of its listener or by another scan, and a
  listener that is registered does not write it again.
- *HarnessAskOnlyAtRoot* fails when a session's `meta.json` says nothing of its
  parent, so the theorem needs to know that no link is lost. `LinksAreKnown` says
  that each session is a root, or has left its link on disk before
  (`HasAsked`), or asks for the first time (`AsksFirst`): through one hook, with
  its parent in the envelope, and no session names it as a parent, so that no
  forwarder touches its directory first. A link that is on disk is never
  written again, because `ensureSession` looks first; a session that asks first has its
  link on disk before its ask is staged, hence before a forwarder can read it
  (`LinkInv`). So a run of `forwardUp` that is about to look for a parent finds
  the link, or is at a root (`RunsAreLinked`), and `Provenance` traces the
  harness-ask of a broker to such a run. `FindLostLink` is the
  counterexample without the hypothesis; the instance of `MCForward` satisfies it.
- *Implements* maps `told` to the abstract verdicts, the runs of `forwardUp`
  that answered `harness-ask` to the exhausted asks, and returned brokers to
  answers. The only step that needs more than its own action is the return of a
  broker, which is a permitted reply because of `AnswersAreBacked`.
- *DenyShortCircuits* and *AskSurvives* speak of the end of the evaluation; `Inv`
  of `EngineProofs` says what the stack looks like before: a frame with a deny is
  the innermost one and has returned (`DenyIsInnermost`), after a denial nothing
  runs but returns (`DenialIsLast`), and while there is an ask and no denial some
  frame of the stack holds one (`AskIsHeld`).
- For the other four properties `EngineProofs` shows that each of the sixteen actions is one of four kinds
  of step (`FourSteps`): the innermost frame changes and the others stay
  (`LocalStep`), a frame is pushed, or it is popped and adopted, or popped with
  its denial. What survives the four survives every action. *ErrorsSurvive* is a
  sum over the stack (`ErrorsHeld`: there are running sums, one per depth, and
  the last one is `raised`), *NotesInOrder* the same with concatenations
  (`NotesHeld`: outer frames hold what was emitted before inner ones),
  *FirstAskWins* follows the frame that holds the first ask (`FirstAskHeld`), and
  for a dead engine a frame that saw it die cannot return anything but a deny
  (`DeadIsDoomed`). Both hold as long as no script is returned at a limit that
  spoils them (`AsksAreKept`, `DeathIsSeen`); `limited` is never reset
  (`LimitedStays`), so that where they hold after a step they held before it. Sums and concatenations are stated with an existential
  sequence, so that they are kept step by step and need no induction over the depth.
- *SteadyPromptsHitTheirAsk* is about the position of a row in a sorted list. The
  rank of a row, the number of rows before it, is one-to-one
  (`AboveGrows`), so that every index within the list has exactly one row
  (`EveryIndexHasARow`, `SelectedIsOne`; `SomeRowIsHighlighted` follows). In a
  refresh that does not shift the list the rows keep their stamps, which are
  those they lend (`LentIsAStamp`), and a new one is stamped no earlier than any of
  them (`LatestIsLatest`) and with none of their stamps: it ranks behind them and the picked
  row keeps its rank (`HighlightStays`). That the list is finite is a fact of the directory
  listing it comes from (`IsFiniteSet(Ask)` in `WatchConstants`).
- `HookProofs` says what each stage of the process knows of the stages before:
  there is no outcome before `evaluate` returns (`OutcomeIsLate`), only an ask of
  the adapter goes to a child and has no response until then (`ChildIsForAsks`),
  an *allow* that is held is the word of a child that has exited with 0 and left
  nobody on the pipe (`AllowIsEarned`), and a finished process has told the
  outside what its response was (`VerdictIsKept`, `ExecIsFree`,
  `TimeoutDenies`, `StderrGrows`).
- *StoreImplements*: as long as hooks follow each other one at most uses the store
  (`AloneUnlessShared`), nobody's read or write is disturbed
  (`AloneIsUndisturbed`), and the file is empty during a flush
  (`AloneFindsEmpty`). So a load finds what is durable (`LoadMaps`), a flush that
  ends is the abstract flush (`FlushEndsMaps`) and one that does not is a loss
  (`UnfinishedMaps`). Hooks that overlap may find and leave any map in the abstract specification too;
  what the theorem says of them is that each has its own updates, and that it ends
  when all of them have.
- *SilenceIsCertain* has two halves. `NoMatchIsCertain` is about one item: one
  lemma per builder shows that filling in its dynamic words cannot turn *no
  match* into *match*, because a matcher that says *no match* has seen no dynamic
  word among those it targets (`NoWordMatches`, `SlotsSame`) or fails at a gate
  that the fill does not change. The other half is about the loop: the
  invariant says that every item before `next` was passed over with *no match*,
  or `sawUncertain` is set, and that a silent result was returned at the end of
  the items only; with a gating rule and a policy other than *allow*, a doubt
  never ends in silence.
- *DefiniteMatchWins* uses the first half of that invariant: no item that was
  passed over is a match, and the loop stops nowhere but at its end, at a match, at a
  dynamic command word or at a call that makes the rule throw.
- *MatchIsCertain* is the same from the other side: the words a matcher has
  resolved are still there when the dynamic ones are filled in (`FillKeeps`,
  `SlotsKept`), gates look at resolved words only, and a rule returns its own
  decision only at an item that answered *match* (`OwnMatched`).
- *DoubtIsReal* is the converse of *SilenceIsCertain*: whatever a builder is in
  doubt of has a run that matches. The proof constructs it (`Filled`): one value
  that satisfies the constraint in the place of every dynamic word, one name in
  that of an unknown command. Gates look at resolved words and still pass; for
  `protectPath` the filled operand may bring another table with it
  (`TableChanges`), whose slots hold the word in doubt as well. That a value
  exists is the hypothesis `RulesCanMatch`: a regular expression nobody can
  satisfy, or an allow-list of all there is, would be in doubt for nothing, and
  so would a rule for `sudo` that looks at the values of `sudo $X $Y`. TLC
  evaluates it for the rules of `MCMatch`. The loop's part is `DoubtSeen`: an
  escalation was preceded by an item in doubt or is at a dynamic word.
- *AliasesAreInterchangeable* rests on two facts: no flag belongs to two groups
  of one command (`AliasGroups`), and after the expansion a call has a member of
  a group exactly if it had any of them (`HasFlagOfGroup`). Valued flags and
  those of the directional table are outside it, as in the property.
- *WiredAsCompiled*: the matcher of an entry is the union of those the engine's
  filter asks one by one (`JoinedCovers`); the invariant follows what the build
  has compiled, imported and written, as long as nobody edits (`BinaryIsSource`,
  `EntriesAreItsHooks`). *FailureIsContained* needs that no way leads around the
  `finally` (`LeftBehind`).
- *GreenMeansChecked* and *RedMeansDirective* speak of a scan that carries one bit
  from line to line. A run along a sequence exists and satisfies its equation
  (`RunExists`, `AllAlong`, `StepAlong`, `LexAlong`), whatever the length. On candid
  lines the scanner's bit and the lexer's state go along (`Paired`): a line ends inside a block for one
  exactly if it does for the other (`CandidLineIsExact`, `CandidIsExact`). So what is
  reported does not begin in a block, and is without a reason if it is a
  directive (`ReportsAreDirectives`). In a plain file every directive is among the
  markers that the scanner looks for, is the only one on its line and hence the one it finds
  (`PlainAt`, `OnlyMarkerIsFound`), so that silence is justified
  (`SilenceIsJustified`). The loop
  over the checks needs that none is lost (`NoneIsLost`): what is to be run is
  still left or among the results, and the result of the scan is the scan's
  (`ScanIsTold`).
- Induction over lengths and ranks goes through `NatFacts`: a set of numbers that
  is not empty has a least element (`LeastNatural`), so a claim that holds at the
  bottom and climbs has no least counterexample (`Climb`).

## 7. Limits

Only model-checked: everything about liveness (`VerdictUnblocksHook`,
`ParentVerdictReachesHook`, `EveryAskAnswered`, `HookReturns`), since the prover knows neither
fairness nor ENABLED. Every invariant and action property of the passing runs is
a theorem; `HarnessAskOnlyAtRoot` and `DoubtIsReal` under hypotheses that
section 6 explains, as are `AcceptedIsTaken` and `FinishedAsksAreGone`.

Premises that leave real cases out, each of them described in section 5: a list that
shifts under a prompt and an index of -1 (`WatchTui`), scripts that are
returned at a depth limit (`FirstAskWins`, `DeadEngineDeniesAboveLimit`), files that
are not `Plain` or not `Candid` (`SuppressScan`), words that are not `Visible`
(`Matchers`), an entrypoint that is edited and a binary that is not `Located`
(`Bundle`), preload errors of other classes (`HookRun`).

Wider than the code: what overlapping hooks find or leave in the state file is any
map here, also where the bytes could not make that one. Narrower: the clock of
the watch TUI is not set back, and its listing of all sessions is one snapshot.

Not modelled: `content`, `custom` and stateful rules; the shell parser (its view
of a script is an input of `Matchers`); wording, colours and layout; the audit
log (append-only, read by nobody); the `skipValidator` option (tests); I/O failures other than a removal in the
broker and a flush in the store; reuse of process ids; the raw adapter, which
stores the outcome for its caller; what the compiler does; the testing SDK (test doubles for
users of the library), the examples (sample rule sets) and the check scripts other than `verify` and
`check-suppress-comments`, which compare texts.
