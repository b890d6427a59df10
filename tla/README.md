# Verification of herdash

herdash is a terminal dashboard for agents that run in the multiplexer herdr.
It polls herdr once a second, lists the agents, has a language model summarise
what each one prints, and lets its user jump to any of them. This directory
holds TLA+ models of it, the TLC runs that check them and the TLAPS proofs
about them. Paths are those of the repository; `main.rs` means
`src/src/main.rs` and so on.

## 1. Inventory

### Components

| Component | State it keeps | Operations | Talks to |
|---|---|---|---|
| Summary policy (`summary/policy.rs`) | per agent: `in_flight`, `from_revision`, `generated_at`, `failures`, `retry_after`, `forced`, `pending_bypass`, last status | `decide`, `observe_status`, `backoff` | called by the orchestrator |
| Orchestrator (`orchestrator.rs`, `main.rs` `run`, `summarize_agent`) | slots, last snapshot, the JoinSet of summary tasks, the update channel | `apply_update`, `plan_summaries`, `force_one`, `force_all`, reaping | poller and workers, over a bounded FIFO channel |
| Fleet overview (`plan_fleet`, `summarize_fleet`) | `FleetJob` (in_flight, two hashes, last attempt), the overview shown | plan, receive, clear | one task, the same channel |
| Reasoning ladder (`summary/client.rs`, `summary/provider.rs`) | one atomic rung shared by all calls; each call's own rung | `call`, `advance_rung`, `is_reasoning_rejection` | the provider |
| Space naming (`space.rs`, `claim_space`, `release_space`) | a state file shared by every herdash of the user; labels in herdr | claim, release, load, save | herdr, other herdash, the user |
| herdr client (`herdr/client.rs`, `poll_snapshots`, `spawn_focus`) | one connection per request; `conn` and `notice` on screen | request under a time limit, read with fallback | herdr |
| Fleet building (`fleet.rs`) | `Timings`: a stamp per agent | `observe`, `build` | called by `App` |
| Dashboard (`app.rs`, `on_mouse`) | groups, selection, filter, overlays | `apply_snapshot`, `reconcile_selection`, keys, pointer | the user |
| Rendering (`ui/`) | none | `layout`, `build`, `scroll_offset`, `hit_test` | |
| Process and terminal (`main.rs` `main`, `run`, `install_panic_hook`) | raw mode, mouse capture, how far the start or the undoing has got | start, quit, error, panic | the terminal, everything above |
| Sidebar token (`publish_sidebar_token`) | none; a token with a TTL in herdr | publish at every tick, clear at the exit | herdr |
| Configuration and presets (`config.rs`, `summary/provider.rs`) | none after start | `from_cli`, `resolve_provider`, `resolve_api_key` | flags, environment, key file |
| Codecs (`openai.rs`, `anthropic.rs`, `prompts.rs`, `types.rs`) | none | bodies, parsing | |

### How they interact

`run` is one loop over a `select!`: a key or a mouse event, one update from the
channel, a tick, or the reaping of a finished task. After every branch it plans:
which agents to summarise within the free capacity, whether to ask for an
overview. The poller, the summary tasks, the overview's task and the focus
tasks run beside it and reach it only through the channel. Tasks share the
`LlmClient`, with its atomic rung, and the herdr client, which has no state.
Several herdash share herdr's labels and one state file.

### What is hard, and what must hold

* **Summaries.** A result can come after its agent left, after the agent
  printed more, after the user asked for a refresh, after the agent turned
  Blocked. What must hold: one call per agent at a time; `in_flight` never
  lies; no late result brings an agent back or puts an older summary over a
  newer one; no trigger is lost; no output is paid for twice without cause;
  failures are retried.
* **Overview.** The fleet changes while its overview is being written. One call
  at a time; the hash that suppresses calls belongs to the text on screen; no
  overview of a fleet that is gone; the header catches up.
* **Ladder.** Calls overlap and are refused in any order. No setting may be
  skipped that the provider takes, and no refusal paid for over and over.
* **Space naming.** Kills, failed calls, two processes, two herdash names, torn
  writes, a user who renames. The user's name must come back, and no herdash's
  be taken for it.
* **herdr.** It may fall silent, answer nonsense, or vanish between two lines.
  The screen must say so, and stop saying so.
* **Start and end.** A session is left by a key, an error, a panic or a kill,
  with its publisher's call on the way to herdr. What must hold: the terminal is
  given back, the token goes and stays gone, one lost refresh never shows, and
  no combination of flags and variables sends a vendor's key elsewhere.
* **List and selection.** Agents come, go and reorder in one poll. The
  selection must stay with its agent, and on screen.

## 2. Modules

| Module | Models | Abstractions |
|---|---|---|
| `SummaryPolicy` | `policy.rs` as operators on the record `SummaryState` | an Instant is an age, or a time left, that saturates where the code stops telling values apart |
| `SummaryLedger` | what every agent is promised about its summary: calls, triggers, coverage, the text on screen; no poller, channel, tasks or clocks | abstract specification |
| `Orchestrator` (EXTENDS `SummaryPolicy`) | poller, workers, channel, every branch of the loop, each with the planning pass after it | a transcript and its summary are known by their revision; the list is the agents by `Rank`, in any order where ranks are equal |
| `FleetOverview` | `plan_fleet`, the Fleet arm, its task | what the agents do reaches it as an arbitrary list of headlines; a turn of the loop may change it |
| `ReasoningLadder` | `LlmClient::call`, the shared rung, the dialects | a response is its class: success, recognised refusal, throttled, other failure |
| `SpaceClaims` | `claim_space`, `release_space`, load and both halves of a save, for any number of herdash, each with its own `--space-name` | a label is one of the users' names or one of the herdashes' |
| `HerdrPolling` | the exchange with herdr, its time limit, poll, focus and read, `conn` and `notice` | an answer is what the code makes of it; `Io` counts as `Eof`; skipped lines change nothing |
| `FleetView` | `Timings::observe`, `build`, rows, reconciliation, filter, keys | order by keys instead of sorting; a stamp is the number of earlier stamps still held |
| `Sidebar` (EXTENDS `FleetView`) | header height, layout, the line buffer, scroll offset, clicks | size of the terminal and lines of text per agent are inputs |
| `ProviderConfig` | presets, `resolve_provider`, `resolve_api_key`, `summaries_status` as operators over flags and environment | a URL is scheme, user, host, port and path; a key is the place it is found in |
| `Session` (EXTENDS `ProviderConfig`) | `main` and `run` around the loop, terminal modes and panic hook, the token's publisher, its TTL and clearing | time in units of a call's limit; the loop, the claim and the release only take time |
| `MC*` | values of the constants for TLC | |
| `*Proofs` | theorems of the module they are named for; `LedgerProofs` has those of `Orchestrator` and `SummaryLedger`, `OrchestratorProofs` also those of `SummaryPolicy`, `SidebarProofs` also those of `FleetView` | |

State and actions keep the names of the code where they can: `Orchestrator!slots`
is `App.slots`, `Plan` is the part of `run` after the `select!`, `Receive` the
branch on `rx.recv()`. `map` in `PROJECT.json` gives each definition its lines.
Operators under a comment "Mutated form" are plausible bugs of the definition
that follows; each property has one that breaks it, and no specification uses
them.

`Orchestrator` implements `SummaryLedger`. The mapping gives each agent of the
list an entry: `due` is `forced` and `pendingBypass`, `covered` and `failed` are
`from_revision` and `failures > 0`, `shown` is the summary on screen, and `call`
is the revision of the call that a task is at work on or the channel holds, read
from tasks and channel and not from `in_flight`. Every step of the loop is then
a turn of the ledger or a stutter, and so: no second call while one is out; no
call for output already covered, unless the user asked or the last call failed;
a trigger is dropped by a call that starts and by nothing else, a late result
included; a summary is of the output its call was for or newer, never older
than the one it replaces; what an agent had goes with it when it leaves.
`Orchestrator_calls` checks this and `LedgerProofs` proves it, for a herdr that
does not use a pane id again (`PanesReturn = FALSE`).

`Sidebar` implements `FleetView`: its clicks, computed from lines and scroll
offset, are selections of agents shown. This is proved (`SidebarProofs`).

### Assumptions

* herdr changes an agent's `state_change_seq` when it changes its status. A
  pane's agent starts anew under a pane id only when `PanesReturn` says so.
* A provider refuses a reasoning setting with the 400 that
  `is_reasoning_rejection` knows; whatever else it answers is no refusal.
* A user does not give a space a name that some herdash is told to give it
  (`HerdashName` and `UserLabel` are disjoint). Each run picks its own.
* A herdr that is well answers within the time limits, and serves a `visible`
  read of any agent (`client.rs` says both were verified against 0.8.2).
* The order of `Instant`s is that of the events that took them.

## 3. Runs

Every passing run ends with no error. On two cores `Orchestrator_calls` takes
about two minutes, `HerdrPolling`, `Sidebar` and `Session` one to one and a
half, the others less.

| Run | Bounds | What it shows |
|---|---|---|
| `Orchestrator_calls` | 1 agent, Working or Blocked, 2 tasks of 3 ids, channel of 1, revision up to 1, 1 failure counted | `PromisesKept`: the loop implements `SummaryLedger`; with it `OneCallPerPane`, `InFlightIsOutstanding`, `NoResurrection`, `TaskBound`, `UrgentEdgeSeen` |
| `Orchestrator_liveness` | 1 agent that may be blank, 1 task, 2 ids | LatestOutputTried, RefreshHonoured, FailureRetried |
| `Orchestrator_return` (violation) | as `liveness`, 2 tasks, with `PanesReturn` | OneCallPerPane fails when an agent returns to its pane |
| `Orchestrator_starved` (violation) | 3 agents in one group, 1 task, cooldown 0, nothing fails | RefreshHonoured fails for the last agent of the list |
| `FleetOverview` | no, one, two lists of two and one of three headlines, two of them with one hash; cooldown 3 | bookkeeping of the overview, and that it catches up |
| `FleetOverview_stale` (violation) | the same with a perfect hash | a stale answer is displayed |
| `ReasoningLadder` | 3 callers, any provider, both dialects | safety and end of the climb |
| `SpaceClaims` | 3 runs in 2 spaces, each under one of 2 herdash names; 2 user names; a day with no mishap but kills at rest, one on which users also rename at any moment, one with all mishaps but overlap, and one with all but such users | on all four no claim restores the name it was made for; on the first two every claim is of a user's name, and the name is covered, mended, restored |
| `SpaceClaims_overlap` (violation) | 2 runs in 2 spaces at work at the same time | a lost claim, and an exit that restores nothing |
| `Sidebar` | 3 agents, 2 in a repository and 1 without, Blocked or Idle, summaries for 2 of them, terminals of 4 and 8 rows, 0 or 2 lines of text | selection, order and scrolling |
| `HerdrPolling` | poller, 1 focus, 1 read, channel of 1 | liveness of polling, truth of the header, the read's fallback |
| `Session` | all presets, flags and keys; 5 endpoints; refresh 2, TTL 6, call limit 1; 1 request left behind | the terminal, the keys and the token, whatever the end |

Why the bounds are enough: the properties of summaries are about one pane, and
its calls meet only in the JoinSet and in the channel; a second agent would
matter for capacity, and one agent whose finished tasks are not reaped takes it
up as well (three task ids for two tasks let one be unreaped while another
works). A channel of one makes every sender wait at some time. Two revisions
tell "the same output" from "newer". Starvation needs one agent more than the
tasks can serve: with one task and two agents the dice of `select!` let the
second one in, and three are the fewest. In `Sidebar` three agents are the
fewest for which a lost selection has a neighbour on both sides; Blocked and
Idle differ in urgency, in attention and under the filter. Its viewports of one
to six lines are lower than what is listed, and lower than one agent with its
text. In `SpaceClaims` two runs in one space take the same name or two, which is what
it takes for one to find its own name there or the other's, and a third in
another space shares only the file with them; each run starts once, and only the
proofs have users who come in between and overlapping herdash on one day. In `HerdrPolling` herdr's mood changes at any step, so one task of each
kind meets every pair of moods in one exchange. In `Session` the unit of time is
the limit of a call, 5 s: refresh and TTL are then exactly 10 s and 30 s. The
endpoints are the vendor's own origin under another path, its host at another
port, a loopback address, another machine, and one that does not parse.

The liveness run has one agent because the starvation below is real: with two
agents for one task `RefreshHonoured` needs the dice to fall well.

Symmetry is used for task ids, panes, the two runs in one space and the names,
in runs without liveness only. No run turns off the check for deadlock.

### Fairness

* The loop's branches: `select!` picks at random among those ready, so a branch
  that stays ready is taken (weak fairness). The tick is always to come.
* Sends on the channel: tokio serves waiting senders in order, so one that
  finds room again and again gets it (strong fairness).
* Requests: each has a time limit (5 s for herdr, 20 s for a read, 45 s for the
  provider), so it ends (weak fairness of the answer or the time-out).
* Time: a tick that is due starts its call and a call out of time ends before
  time goes on (`Session!Elapse`, weakly fair), and what herdr has got from a
  caller that is gone it takes or drops in the end.
* Of the dice of `select!`, where two branches are ready again and again, only
  `Orchestrator_starved` speaks (`MCOrchestrator!Dice`): its counterexample
  remains with strong fairness between reaping a task and receiving its result.
* Of the world: that herdr answers some poll again and again, and that the
  provider answers some call again and again, is assumed where a property could
  not hold otherwise (`Orchestrator!Fairness`, `FleetOverview!Fairness`,
  `ReasoningLadder!FairSpec`). In `HerdrPolling` no such assumption is made:
  each property names the mood it depends on.

## 4. What the models found

The four violation runs, listed under `findings`:

1. **An agent that returns to its pane gets a second call**
   (`Orchestrator_return`). `apply_snapshot` drops the slot, and `in_flight`
   with it, when one snapshot does not list the agent; the call runs on. When
   a later snapshot lists the pane again a second call starts, against "never
   start a second" (`policy.rs:30`).
2. **The discard of stale overviews is never reached**
   (`FleetOverview_stale`). While a call is in flight `plan_fleet` returns
   first, so `active_hash` still equals the answer's hash whatever became of
   the fleet.
3. **Two herdash lose each other's claims** (`SpaceClaims_overlap`). The state
   file is saved whole, without a lock, across awaits.
4. **The end of the list may be deferred for ever** (`Orchestrator_starved`).
   `plan_summaries` walks the list from its top at every pass and stops at the
   free capacity. With `--cooldown 0` and more agents that print without end
   than there are tasks, an agent below them never gets one, not even for a
   refresh, against "nothing is dropped, only deferred" (`main.rs:48`). A
   cooldown longer than the calls above it lets the pass get round.

Seen while modelling and left without a run of its own:

* A kill between the rename and the save of the claim (`main.rs:379-384`), or a
  rename whose answer is lost, leaves herdash's name with no claim. A next run
  under the same name takes the space for owned and leaves it misnamed.
* A next run under another `--space-name` makes it worse: `claim_space` compares
  the label with its own name only (`main.rs:376`), so it records the dead run's
  name as the original, and puts that back at every clean exit. A failed
  restore, an unsaved claim or two runs at work at once lead there as well. It
  takes two names: no run ever records its own. This is why the second half of
  `OriginalIsUsers`, and all of `NameIsCovered`, `KillIsMended` and
  `CalmExitRestores`, speak of calm days (`Calm`: no mishap but users who rename
  at any moment, and kills of a herdash that waits). Each of the five other
  mishaps alone breaks each of them.
* `release_space` saves the file without the claim even if the restore failed
  (`main.rs:401`); and it reads the label in one call and overwrites it in
  another (`main.rs:396`), so a name the user gives between the two is lost.
  `Users` therefore asks for the user's last name on orderly days
  (`mishaps = {}`) and for one of theirs on the other calm days.
* A second herdash in the same space undoes the first one's rename before it
  asks whether the space is owned (`main.rs:370`, the comment is at 375).
* After a failure `from_revision` is not the revision of the summary on screen,
  which its comment says it is (`policy.rs:33`); and a summary is always
  recorded under the revision of its dispatch, though the comment on
  `SummaryJob.revision` (`orchestrator.rs:65`) speaks of reads that report
  their own. In both the code is right and the comment behind.
* A call that is refused late climbs from its own rung, below the cache
  (`client.rs:179`), and pays for a refusal already known. `RefusalsBounded` is
  what remains true, and is proved.
* The header keeps saying "reconnecting" when herdr, after a silence, answers
  with an error or garbage: `main.rs:286` says it means "the last attempt
  failed at the transport level", and the last one did not.
* A report of the token that is on its way when main clears it, or falls due
  while it does, brings the token back until its TTL (`main.rs:211`; the
  publisher is never told to stop). `raced` marks these runs, and `ClearedAtExit`
  is what remains. The clear also runs under `--no-sidebar-token`, and it would
  clear the token of another herdash in the same workspace; one session is
  modelled.
* The help overlay takes every key, but the wheel and the pointer move the
  "hidden cursor" behind it (`app.rs:371`, `on_mouse`).
* The filter hides idle agents even when their summary says they wait for the
  user; the attention section is drawn from what the filter leaves.

## 5. Proofs

All for every value of the constants, under the ASSUMEs of the modules.

* `OrchestratorProofs`: type correctness; `NoResurrection`; `TaskBound`;
  `UrgentEdgeSeen`; and of the policy, that with the code's constants the waits
  are 5, 15, 45, 135 and then 300 s for any number of failures. `TaskBound`
  rests on the fact that a pass hires at most `Capacity` tasks, and capacity
  counts unreaped ones. `UrgentEdgeSeen` needs `Remembered`: the status a slot
  remembers is that of the snapshot last applied, so the edge that
  `observe_status` sees is the one between the two snapshots, and the pass of
  the same turn uses it or leaves it set.
* `LedgerProofs`, for `PanesReturn = FALSE`: `OneCallPerPane`,
  `InFlightIsOutstanding`, and that `Orchestrator` implements `SummaryLedger`.
  None of them is inductive; three invariants carry them. `ListInv`: the lists
  on their way to the loop (the one it works with, those in the channel, the
  poller's, herdr's own) are a history, in which whoever has left stays away
  and no revision runs backwards. `CallInv`: a call is out just while its
  slot's `in_flight` says so, and one that is out for no slot is of an agent
  that every list on its way has left; without `ListInv` such an agent could
  come back and be called twice, and this is what happens in
  `Orchestrator_return`, so the condition cannot be dropped. `RevInv`: calls and
  slots know of no output that is ahead of a list on its way, so a summary that
  arrives is of the output its call was for. For the refinement a turn is split
  as the code has it, into the branch (which ends a call, takes a list or asks
  for a refresh) and the pass (which notes urgent edges and begins calls), and
  each half is shown to do to every agent's entry what the ledger allows.
  Assumed of the constants: the marks `None`, `Empty` and `Failed` are no panes
  and no numbers, and no entry of the ledger is its mark for "not listed".
* `FleetOverviewProofs`: type correctness, `OneFleetCall`, `SuccessIsOnScreen`,
  `NoProseForNoFleet`. `OneFleetCall` is inductive and carries the others: it
  says that the answer that arrives is the one `active_hash` names.
* `ReasoningLadderProofs`: type correctness, `CheapestAccepted`,
  `RefusalsBounded`. The bound is not inductive. The strengthening `Budget`
  counts, for each rung, the refusals paid and the calls that may still pay
  for it: once the cache has passed a rung no new call starts there, and each
  open one pays at most once more.
* `SpaceClaimsProofs`: type correctness; `OriginalIsUsers`; and
  `NameIsCovered`, `KillIsMended` and `CalmExitRestores`; for any names the runs
  are given. Two invariants carry them, and each step of the first needs the
  second. `IInv` adds to the types what each local variable holds between its
  read and its use: a label that was asked for, to be claimed over, is not the
  run's own name, and on a calm day no herdash's. `DayInv`, of calm days,
  follows the one herdash at work: what it knows of its own space stays true
  between two of its steps, unless a user has named the space since, and all the
  other spaces stay covered by the claims it carries from the file it read to
  the file it writes, also while the file is torn. That a herdash's name, any
  run's, is always covered is why no run finds one on its space once its release
  is done, and so why no run records one. Assumed: users and herdash give
  different names, and the mark for a torn file is no set of claims.
* `SidebarProofs`: `Sidebar` implements `FleetView`; `ViewIsCurrent` holds of
  both, and with it every agent shown is one of the last snapshot. (It holds by
  the way the code rebuilds its list, so no run spends time on it.) Type
  correctness, `SelectionOnScreen`, `SelectionStaysNear`, `QuietAgentsKeepOrder`
  and `SelectedLineInView`. `SelectionOnScreen` rests on the keys: two rows never
  have the same (their last digit is the label's rank), so the places of n rows
  are 1 to n, each taken once, and an index between them names a row.
  `QuietAgentsKeepOrder` rests on `Observe`, which keeps the stamps of agents
  that did not move in their order and ahead of the others.
  `SelectedLineInView` needs that the text above an agent, a fold over a set,
  does not depend on the order of the fold and grows with the set, so that an
  agent's lines end within the buffer; of the lines `scroll_offset` has to know
  no more. Facts about every finite set are proved by least counterexample
  (`LeastMember`), which needs no induction theorem.
* `HerdrPollingProofs`: type correctness and `BusyAgentsAreRead`. The second
  needs `RefusedOnce`: the refusal for being at work answers only a first read.
* `SessionProofs`: type correctness and four properties.
  `TerminalGivenBack` needs `TermInv`, which says at each step of main what it
  has taken and that the mouse is captured only where the settings will release
  it. `KeysStayHome` follows from a lemma on `resolve_api_key` alone, for every
  URL. `ClearedAtExit` needs `ClearInv`: until the clear is raced there is no
  report that could undo it. `TokenSurvivesADrop`, for TTL > 2 refreshes + the
  limit of a call, needs `TokenInv`, a floor under what is left of the token for
  each state of the last two calls; a call is as old as its tick.

Only model-checked: every liveness property, that is `LatestOutputTried`,
`RefreshHonoured`, `FailureRetried`, `OverviewCatchesUp`, `CallReturns`,
`SilenceIsShown`, `RecoveryIsShown`, `PollingGoesOn` and `TokenGoes` (TLAPS has no
means for fairness and ENABLED here). Every invariant and every action property
of the passing runs, and the refinement, is proved.

## 6. Not modelled

* The codecs and the prompts (`openai.rs`, `anthropic.rs`, `prompts.rs`,
  `types.rs`): pure functions from one text to another. What the ladder tells
  apart in their answers is in `ReasoningLadder`.
* Drawing, wrapping and colours (`detail.rs`, `footer.rs`, `theme.rs`,
  `palette.rs`, the rest of `ui/`): functions of the state with none of their
  own. `detail_open` only chooses between two drawings and is left out of
  `FleetView`.
* Settings that are handed on unchanged: interval, lines, socket, palette, model
  name. The texts of errors, notices and summaries.
* A panic in a spawned task, which the runtime keeps from main, and a second
  herdash in the same workspace publishing or clearing the same token.
* `examples/bench.rs`, a tool for developers, the tests and the packaging.

## 7. Plan

Written, in this order, the paid and shared state first: `SummaryPolicy`,
`Orchestrator`, `FleetOverview`, `ReasoningLadder`, `SpaceClaims`, `FleetView`,
`Sidebar`, `HerdrPolling`; then `SummaryLedger` and the refinement,
`ProviderConfig`, `Session`.

What could follow: an abstract specification of the space claims that any
number of overlapping herdash would have to implement, as a yardstick for a
locked state file; and one herdash publishing and clearing the token of another
in the same workspace (section 6).
