# A verification project for the Robinhood options agent

This directory holds TLA+ models of the live trading process in `src/`, the TLC
configurations that check them on small instances, and TLAPS proofs of their main
invariants for every value of the constants. `PROJECT.json` is the index: which
definition models which lines, which run checks which property, which definition a
plausible bug would change so that the property fails ("mutants"), what in the code
is hard to test ("hazards"), and where the code and its documents disagree ("findings").

## 1. The system

One asyncio process (`src/scripts/run_live.py`) buys and sells single-leg options at
Robinhood on signals of Unusual Whales. It starts in a fixed order: the approval
server, `reconcile_positions` (filled positions of the broker into the store),
`adopt_working_orders` (live buy orders into the order manager), then all loops under
one `gather`:

| component | period | state it keeps | operations |
|---|---|---|---|
| `GEXScanner`, `GEXCache` | 1 h | tickers, GEX reports, `refreshed_at` | scan, refresh, get |
| `FlowWatcher` | 60 s | alerts seen, cooldown per ticker | poll, run pipeline, hand over a candidate |
| `ProposalStore`, approval server, Telegram poller | on demand | proposals with a status, creation and decision time | add, list, approve, reject, mark executed, prune |
| `Executor` | per candidate | none | look up, review, re-check the risk, place |
| `OrderLifecycleManager` | 20 s | `WorkingOrder` per buy order: attempts, cancelling, giving up, two clocks | track, adopt, poll, reprice, give up, promote |
| `PositionStore` | - | positions by order id (or instrument id) | add, remove, list, count |
| `ExitLoop`, `ExitMonitor` | 60 s, market hours | none of its own; peak premium in the position | observe, evaluate, sell, forget |
| `RiskEngine` | on demand | daily P&L, kill-switch, date; the same in `logs/risk_state.json` | check, record P&L, roll the day, persist, load |
| `CaptureLoop`, `StateCaptureLoop` | 16:30 ET | files of the day | capture |
| `BacktestLoop`, `Harness` | 17:00 ET | `ReplayState` | replay increments |
| Robinhood tokens | per call | access and rotating refresh token in a file | call, refresh on 401, save |
| `LiveConfig` | - | validated settings | read afresh by every loop |

How they interact. Loops share objects and call each other's methods; there are no
queues. The stores guard themselves with an `asyncio.Lock` which is never held over
an await, so an operation of a store is atomic and control changes hands only where a
network call (or a sleep) is awaited. **That is the granularity of every model here:
an action is the code from one real suspension to the next.** `rh_call` refreshes the
token once on a 401, lets other exceptions through, and does *not* raise when the
broker's payload is an error; this is why every model has three ways for a call to
fail: it raises before the broker acted, it raises afterwards, it answers with an
error payload.

What is hard, and what makes each part correct:

* **Order lifecycle** - fills race cancels; calls are lost in either direction; one
  candidate must never be bought twice and no bought contract may go unwatched.
* **Approvals** - two front ends and a prune decide the same proposal while it is
  being executed; one order per proposal, refusals final, the kill-switch looked at
  again at the last moment, every approval answered.
* **Exit loop** - works on copies across awaits while the order manager writes the
  same store; a sell may be retried without knowing whether it was taken; P&L once.
* **Risk engine** - reads the clock several times, crashes between and inside its
  writes; a trip holds for its day, over restarts, and for no other day.
* **Startup** - the broker's state moves between the sweeps that reconstruct it.
* **Scanner and flow watcher** - failures are cached as answers, seen alerts trimmed, and only
  a cooldown in memory stands between a working order and a second one.
* **Pipeline** - a chain of nodes on data of which every part may be missing: no order past a
  gate, whatever was fetched.
* **Exit rules** - six rules in a fixed priority, with four adjustments of the same
  thresholds: they must not sell what was just bought on the same facts, nor keep a loss.
* **Capture and replay** - two loops write the files of one day, a third reads them at night and
  goes on from its own file; any of them may fail or die halfway, scripts add days that have
  passed, and no night's money or trades may be lost or made up.
* **Tokens** - a refresh token that is used up before it is saved.

## 2. Modules

| module | models | proofs |
|---|---|---|
| `EntryCustody` | abstract: what is promised of one approved entry | - |
| `OrderLifecycle` | `live/order_manager.py` with the broker | `OrderLifecycleProofs`, also that it implements `EntryCustody` |
| `Approvals` | `live/proposals.py`, the decisions of `approval_server.py` and `notifier.py`, `executor/executor.py`, the gate of `risk/engine.py` | `ApprovalsProofs` |
| `ExitLoop` | `live/exit_loop.py`, `PositionStore` with its two writers, the broker's sell side | `ExitLoopProofs` |
| `RiskEngine` | kill-switch, day and state file of `risk/engine.py` | `RiskEngineProofs` |
| `Startup` | `live/reconciler.py` and `adopt_working_orders` of `live/order_manager.py`, with the broker's book | `RestartProofs` |
| `Tokens` | `rh/mcp_config.py`: refresh, token file, reload, `rh_call` | `RestartProofs` |
| `Entries` | `live/scanner.py`, `live/cache.py`, `live/watcher.py`, `live/flow_capture.py` | `EntriesProofs` |
| `Signals` | operators: `gex/detector.py`, `scoring/`, `flow/trigger.py`, `contracts/selector.py` | `TradeProofs` |
| `Pipeline` | `graph/agent.py`: the nodes from the fetches to the executor; extends `Signals` | `TradeProofs` |
| `ExitRules` | operators: `exits/monitor.py` | `TradeProofs` |
| `Trade` | one trade from its data to its exit: `Pipeline`, `ExitRules`, the evaluation of `live/exit_loop.py`, the exit settings of `live/config.py` | `TradeProofs` |
| `Capture` | `live/capture_loop.py`, `live/state_capture.py`, the days added by `scripts/fetch_history.py` and `scripts/fetch_polygon_history.py`, and the files of `backtest/data_store.py` | `NightlyProofs` |
| `Nightly` | `live/backtest_loop.py`, `backtest/harness.py`, `backtest/state.py`; extends `Capture` | `NightlyProofs` |

`MCx` extends module `x` for TLC; the `.cfg` files name the constants. A comment that
starts with "Mutation:" marks an operator that is no part of the model: a variant of
the definition after it with a plausible bug, which shows that a property can fail.

**OrderLifecycle.** An entry `e` is an approved candidate, `<<e, n>>` its n-th order.
`state` and `filled` are the broker's; `orders`, `attempts`, `cancelling`,
`giving_up`, `age` (of `placed_at`) and `since` (of `last_action_at`) are
`_orders` and the fields of `WorkingOrder`; `doing` is the call that `_check_order`
awaits; `todo` the rest of the tick; `store` the contracts in `PositionStore`. The
poll and all that follows it without an await is one action per outcome (`Poll*`);
`_request_cancel` and `_place_replacement` are split at their awaits (`Cancel*`,
`Quote*`, `Place*`). Since one coroutine does all this, no two entries are ever
handled at once, but the broker, the clock and `track` run in between. `lost` is a
history variable: it names the entries whose order a lost answer or an empty poll
made the code stop following.

**Approvals.** A handler is the coroutine of one decision. `approve` and the
start of the execution are one action (no await between them), `preparing` covers the
instrument lookup and the review, `Send` is `_check_risk` with the call to
place, which has no await between, and the answer up to `mark_executed` is one
action. `ListPending` expires and prunes as the code does on every read. What happens to an order
afterwards is what the gate can see of it: `Fill`, `EndUnfilled`, `Exit`, `NewDay`.

**ExitLoop.** `StartTick` takes the snapshot, `Quote` is `_evaluate` up to the write
of the peak, `Trigger` reaches the sell, `Sell*` are its outcomes. `copyQty` and
`copyPeak` are the copies the tick works on, which may be stale. The broker drops a
sell whose `ref_id` it knows, and refuses one that is not covered by `account`. The
market decides which exit reason holds (`MarketMoves`).

**RiskEngine.** The engine is synchronous, so `check` and `record_pnl` are single
actions; what can come between is midnight (the code reads the clock separately for
the roll, the write and `_state_date`) and the end of the process, inside a write or
outside. `real` and `tripped` are the truth about the day; `faulty` says that one of
the budgeted faults concerns today.

**Startup.** Both memories are empty when a process starts, so a behaviour begins with
any state the broker can be in, and a crash during startup is the beginning of another
one. An action is one answer of the broker with the code that handles it: the position
items (`Positions*`, asked for twice if empty), the instruments (`Instruments*`), then
one of `_ADOPTABLE_STATES` after the other (`Sweep*`, with all of `_adopt_one`). `Advance`
is the loop of the sweep and its one repetition. `byInstrument` and `byOrder` are the two keys under
which `PositionStore` may hold contracts of one order. `slipped` is a history
variable: the orders that were over between the position answer and their sweep.

**Tokens.** A coroutine is any loop or handler inside `rh_call`, at one of its awaits: the
call, the post of the refresh token (before and after the server has acted), the new tools,
the retry. The environment and the file are written in one action (`PostReturns`), as there is no
await between. The server rotates refresh tokens on every use or on none; the policy is fixed
per behaviour, and the code takes whatever the answer holds. (A server that rotated on some uses
only could lose the token when two answers are saved in the wrong order.) `harmed` is a history
variable: a fault has cut off the answer that carried the valid refresh token.

**Entries.** `Discover`, `ScanTicker` and `ScanEnds` are `GEXScanner._scan` from one await to the
next; a fetch that fails gives a snapshot without a setup and with a fresh time, as in the code.
`Poll` is `_poll` with `_filter_new` and the flow log, `PipelineEnters` the part of `_run_pipeline`
after which a candidate leaves for the executor (autonomous) or the proposals. The
clock ticks between polls, never inside one, and up to `ScanTakes` times while a scan is due or in
progress; `scanIn` counts down to the next scan, which is `ScanEvery` after the end of the last or
`RetryEvery` after one that failed. `hist` holds what the properties
remember: when an answer last showed a structure, which prints started a pipeline, which
tickers' orders outlived their cooldown, whether a scan has failed since the last that did not.

**Signals, Pipeline, ExitRules, Trade.** The operators keep fractions exact, as numerators over `Unit` or
its powers; only scores, which order candidates and gate nothing, are rounded (and clamped, as in
`BlendScores`). Sums over strikes are recursive functions (`SumAt`).
`Pipeline` has an action per node, over the state that the nodes of `graph/agent.py` pass on; every fetch
may fail for every ticker. `Trade` follows one candidate: the setup that was detected stays in
the position (`pos.setup`), the market, the cache, the calendar and the operator move,
`Evaluate` copies the settings into the monitor (`Synced`), saves the peak (`Peaked`) and
asks the rules (`Reason`).

**Capture, Nightly.** The disk is a directory per day with four facts: the tide file,
by which both loops take a day for captured, each ticker's report, its prices, and the
coverage manifest. Every file of a loop is an action of its own, so either loop may fail or die between any two and
the other one run in between. `added` is the day on which each day's directory was made: its own, by a
capture or by the flow log of the session (`FlowLogged`), or a later one, by a script that
somebody runs for it (`Backfill`, of the days in `Filled`, once the process has run since `Start`). `StepOneDay` is `_step_one_day` on one state of the replay
(`Sell` before `Buy`, in the order of the ranking); `Stored` is what `to_dict` keeps, which is not the peak.

## 3. Runs

| run | instance | distinct states | what it shows |
|---|---|---|---|
| `order_lifecycle` | 2 entries of 2 contracts, 1 replacement, give-up after 3 units, 1 fault | 151,701 | `SingleExposure`, `Custody`, `PositionsExact`, `EventuallySettled`, the refinement of `EntryCustody` (`ImplementsCustody`) |
| `approvals` | 2 candidates, 3 handlers, cap 1, 1 trip | 64,534 | `OneOrderPerProposal`, `RefusalHolds`, `TripStopsPlacement`, `DecisionsFinal`, `ApprovalAnswered` |
| `exit_loop` | 2 positions (one adopted), 2 contracts, 2 reasons, 1 fault | 404,289 | `RetryIdempotent`, `KeptUntilAnswered`, `PnlOncePerExit`, `PeakKept`, `ExitCompletes` |
| `risk_engine` | limit 2, P&L in -2, -1, 1, 4 days, 2 faults | 38,744 | `NoEntryWhileTripped`, `BlockedByTodayOnly`, `PnlExact` |
| `startup` | 2 orders of 2 contracts in any state, 2 failed answers | 43,138 | `LiveOrdersFollowed`, `ZeroIsTrue`, `BoughtIsMonitored`, `GivenUpIsCancelled` |
| `tokens` | 3 coroutines, 3 further access tokens, 1 fault | 368,402 | `AuthSurvives`, `AuthorizedAgain` |
| `entries` | 2 tickers, 2 prints, 2 days, 5 clock ticks (2 with both prints or on the second day, 1 with both), 1 fault | 2,939,230 | `SingleEntry`, `ActsOnSeenStructure`, `ActedOnce`, `HeldIsFresh`, `SeenIsOnDisk` |
| `trade` | 2 tickers, 3 reports, 4 contracts, 3 premiums, 2 spots, 2 settings, 3 contexts | 421,587 | `GatesPassed`, `EntryIsNotExit`, `HeldWithinLimits`, `StaticIsStatic`, `EventuallyExited` |
| `nightly` | 1 ticker, 4 days, running from the second, 2 prices or the first day added by a script, 1 fault | 2,072,148 | `CoverageBacked`, `CashAccounted`, `TradesPossible` |
| `exit_unsold`, `exit_stale_copy` | as `exit_loop` | - | violations of `SoldBeforeForgotten`, `FillMonitored` |
| `trade_settings` | as `trade`, two wall bands | - | a violation of `SettingsInForce` |

*Why the bounds are enough.* Two entries, candidates or positions are the fewest that
can interfere, and more add nothing where the proofs of section 5 hold for any number.
Two contracts are the fewest that can fill partly. Three handlers are Telegram,
the dashboard and one more request, one more than there are candidates. A single
fault reaches every failure path; for the order lifecycle and the risk engine the
proofs cover any number. Clocks saturate at the last threshold the code compares them
with. The time-outs only keep their order: a reprice is due before a give-up, a TTL
ends before a retention. The ladder of `order_lifecycle` has one replacement, and ends with the replacements
used up and a give-up still to come. The three invariants also hold on the code's own ladder (3 replacements, `GiveUpAfter` 5, a
unit being 120 s; 1,341,043 states), which no run repeats because liveness and the refinement would make it too long. The proofs take any number. Three coroutines let two race while a third comes late, and three further
tokens let each of them be answered with one of its own; the last access token of the bound does not expire. Four days let a trip, a quiet day and a fault of an
earlier day meet. In `entries` the two days are one to be logged and one to forget, two ticks span a cooldown,
and the list of seen alerts is
already trimmed at its second key, with the least `Keep` for which the code is right (see
`EntriesAssumption`). Five ticks span the scan that reads a position, the interval, a scan that fails, the next one, slow, and
the age at which a snapshot is stale. The bounds are not needed together (`Explored`): two prints are for what is acted on
twice, a second day for what must be forgotten, five ticks for what grows old, and all at once would be too many states. In `trade` there is a report for each regime of the detector, the premiums reach the stop,
the target of the trailing stop and neither, a contract is in and one out of every bound of the selector. In `nightly` three days
are what it takes to lose a night, catch up over two days and go on from the
file; two contracts per trade make cost and proceeds differ from prices; one ticker is the
price of the two overlapping captures. The day before them is added by a script before, between or during the replays; three days of the process let a
replay go by before it is added, and another one meet it. Behaviours with that day have one price (`Explored`),
which leaves the order of the days as the question they ask. A `VIEW` (`Seen`) takes states for one that differ only in what nobody reads any
more, the tide of a day that is over and which of enough days are covered. Tickers are symmetric in `entries`, whose properties
are all invariants; no other run uses symmetry.

*Fairness.* Each loop is `while True` around a body that catches every exception, and every
call returns or raises, so the manager, the exit loop and a handler in mid-call take
their next step (weak fairness). The order lifecycle needs two more assumptions: time
passes, and a cancel the broker has accepted lands unless the order fills. Nothing makes an
order fill, a human decide or a market move. For the tokens: the container restarts a process
that has ended (`Start`), and every coroutine calls the broker again and again and gets an answer
or an exception (`Step`); nothing makes a token expire. For `trade`: the exit loop evaluates (`Evaluate`) and days pass (`DayPasses`),
and nothing makes a price or a wall move. `Entries` and `Nightly` claim no liveness.
Deadlock is checked where the system cannot stop; `Startup`, which ends, says so with `AllSettled`, while
the runs of `Entries`, `Trade` and `Nightly` do stop, at the last day of the bound or with the trade sold, and
say so in their `.cfg`.

## 4. Findings

Three runs expect a violation; each is a statement of the documents, or a message to
the user, which the code does not keep.

* `exit_unsold`: an error payload for a sell is no exception. The position
  leaves the store and its P&L is recorded, although nothing was sold.
* `exit_stale_copy`: the peak update writes the whole copy of the position back over
  what the order manager stored during the quote. It takes a position that exists
  under the same order id, which only adoption after a restart can bring about.
* `trade_settings`: each tick copies the exit settings into the monitor one by one and leaves out
  the wall band, which a running process therefore never changes, although
  the settings tab says that changes apply from the next poll cycle.

Five more statements stand in the modules as definitions that no run checks, since the
code does not satisfy them and the reason is the same as that of a hazard listed. TLC finds each violated when it is
made an invariant of the run of its module:

* `CapRespected` (`Approvals`: the position cap counts filled positions, so two orders at work pass it
together);
* `SoldAtMostOnce` (`ExitLoop`: the `ref_id` is stable per position *and reason*, so a sell whose answer was
lost, retried for another reason, is a second one);
* `FillsBecomePositions` (`Startup`): the positions are fetched first, the live orders swept afterwards; an
  order that fills in between is in neither answer, although adoption is there "so a fill after the
  restart still becomes a monitored position" (`run_live.py:319`);
* `HeldKeptFresh` (`Entries`): held tickers are scanned every time to keep "their snapshot fresh for as long as the
  position stays open" (`scanner.py:133`), but one failed discovery delays the scan by 300 s, which is all that the
  interval of 3600 s leaves of the 3900 s after which a snapshot is stale. Until the scan after it has
  ended the exit rules have no structure;
* `TradesInOrder` (`Nightly`): `step_forward` steps every day it has not processed, an older one too that
  somebody has added since, after the newer ones: positions are left before they were entered, an outcome
  that `run()`, with which its tests compare it, cannot have.

The properties of `exit_loop` are therefore stated for what does hold: `RetryIdempotent`
for retries with the *same* reason, `KeptUntilAnswered` counting an answered error as an answer, and
three of them for positions with one writer (`OneWriter`, those not adopted).
`BoughtIsMonitored` shows that the gap of `FillsBecomePositions` is the only one as long as the calls succeed and
at most one position answer is empty by mistake. `EventuallySettled` names the state a refused cancel leads to (`Stranded`): the
manager then waits for a cancel it believes pending. `SingleEntry` leaves out the tickers whose order outlived the
cooldown of its attempt, or a restart (`outlived`): there the code does enter a second time.
`EntryIsNotExit` allows the two exits whose band and floor are settings of their own, so it
says nothing of a target wall that lies within the band from the start, on which the code sells at once.
`HeldIsFresh` says what `HeldKeptFresh` promises but for failed scans, and `TradesPossible` what `TradesInOrder` promises but for
days that were added later. (`monitor.py`'s docstring names the earnings gap later among the exits than the code, and the
model, check it; no property depends on it.)

## 5. Proofs

All are of the form `Spec => []P` (or `[][A]_v`), from the assumptions on the
constants in the module (quantities and time-outs are positive, `Ttl < Retention`; reports, chains and alerts are finite,
strikes and prices positive, the settings among those `_FIELDS` accepts, the interval of the scans
with twice the time one takes within the age of a stale snapshot, `ScanEvery + 2 * ScanTakes <= StaleAfter`: the code's
3600 s and 3900 s leave 150 s for a scan);
no other bound of the runs is assumed. Type invariants are proved (`TypeCorrect`), and run only where they say more
than types.

* **OrderLifecycleProofs.** `SingleExposure` is not inductive. `IInv` adds: every
  order before the last is dead, that is terminal with nothing filled
  (`Superseded`); a tracked or handled entry is at its last order (`AtLastOrder`); while a
  replacement is being placed the entry is not tracked and its order is dead
  (`Replacing`); a filled order has filled completely (`BookConsistent`). Then the only
  step that brings a new order into being starts from dead ones. `InCustody` and
  `Exact` say the same of orders that are merely live, which covers fills that are yet to come.
  Its second part proves the refinement, `Spec => ImplementsCustody`. The mapping reads the phase of an entry from where its last order
  stands, what it bought from the executions of all its orders, and what is held from the position
  store. `OneBuyer`, from the invariant above, makes the last two agree: what was bought is the executions of
  one order (`BoughtValue`, with its cardinality), so settling hands over as many contracts. Each action is
  then one of six moves of one entry (`Moves`) and nothing for the others (`Same`), and `Lift`
  turns that into a step of `EntryCustody`.
* **ExitLoopProofs.** A position with one writer is promoted once and is in the store exactly while the
  loop has not answered for it, so the snapshot's copies still agree with it when its turn comes
  (`Single`); a sell is known by its position and its reason (`Ledger`), and what the loop holds in
  its hand has contracts and is not on its list any more (`Snapshot`).
* **EntriesProofs.** `IInv` has a part for each of the five invariants. What a scan has answered so far is as old as the scan,
  and a held ticker is still to do or answered (`ScanInv`), and a snapshot is no older than the countdown to the next scan
  allows unless a scan has failed since, so without one it is replaced before it can be stale; a
  snapshot with a setup is at least as old as the last answer that showed one (`AgeInv`). While the cooldown of a ticker's
  attempt runs it has one order, position or candidate at most, and no proposal of it can be approved any more
  (`EntryInv`). `SeenInv` is about the trimmed list: the keys from an answerable one on are distinct and less than `Window`
  after or before it, so there are at most `2 * Window - 1` of them, and trimming, which keeps the last `Keep`, takes none
  (`KeptWhileAnswerable`). `SeenIsOnDisk` and `ActsOnSeenStructure` are inductive with the types.
* **NightlyProofs.** `CoverageBacked`: while the state capture writes tickers, those it has done with have
  their report (`Saved`), reports are never taken back, and the day does not change under it; so
  the manifest, written last, names only reports that exist, through both loops, the replay and crashes.
  `CashAccounted` and `TradesPossible`: `ReplayInv` says that the state in memory and the saved one are `Good` (their
  balance and every record), and that every day still to replay follows those that were replayed (`Follows`): it is a later day,
  or one that was added after its own time, and no sooner than the other (a run takes its days in order, and what is made
  during or after it is today's directory or one of a day that has passed, with the day in `added`). `Good` is carried through `Sell`, every `Buy` of the ranking and
  `Stored`. Sums are recursive functions over a sequence (`Total`); what the proofs need of them (`TotalAdds`,
  `TotalAppends`) is shown from their defining equation, by the least number at which a claim fails (`LeastNat`), since
  the library's induction cannot be used.
* **ApprovalsProofs.** `IInv`: an undecided or refused proposal has no order
  (`Untouched`); a busy handler's proposal was approved (and possibly pruned since)
  or is direct, and has no order yet (`Fresh`); no two handlers are busy with one
  proposal (`Alone`). Actions fall into four groups by what they do to handlers,
  with a lemma for each. `DecisionsFinal` and `TripStopsPlacement` are step arguments.
* **RiskEngineProofs.** `IInv`: neither the engine nor the file is dated in the future
  (`DatesPast`); memory, once rolled, and the file, once of today, each hold the truth, and as
  long as one of them is of an earlier day nothing has happened today (`Sound`).
  The case that makes it work is midnight with a P&L recorded before: both copies are then
  of an earlier day and the day's truth is reset with the clock.
* **RestartProofs.** It extends both modules. *Startup*: the sweep finds every live order because it asks for the states in the
  order in which an order passes through them. `IInv` ranks the states: as long as no sweep
  answer was missed, a live order whose rank the sweep has passed is followed (`Swept`), and
  ranks only grow. For what was bought: an order that is over has bought nothing, or what the
  position answer says, or it has slipped (`Accounted`).
  *Tokens*: while the answer of a rotating server is on its way, the token it replaces is the
  only one that anybody can read or has posted, and it buys nothing any more (`Unread`);
  so at most one such answer is in flight and none can overwrite a newer one. `Current` says
  that any answer in flight carries the valid token. Both hold while nothing is `harmed`.

* **TradeProofs.** *The operators* first. A setup has its confidence in 0..1 and a direction only in a clear regime
  (`ConfidenceTyped`, `DetectTyped`), a score is in 0..1 (`ScoreRange`), the ranking is a permutation with the proposed
  candidates first, best first (`RankedPermutes`, by counting who comes before whom: `PlacesFill`), the selector
  returns an eligible contract (`PreferredEligible`), and `Reason` names a rule that fires, or none does (`ReasonFires`). That the
  optima exist follows from the finiteness of reports, chains and alerts (`MinimalExists`); sums are handled by their
  partial sums (`SumAtSums`). *The pipeline*: `GatesPassed` is about the end, so `Good` says of each candidate what the
  nodes run so far have made sure of, with the very data it was derived from, which no later node changes; an ordered
  candidate stands before `next`, behind which nothing is rewritten (`OrderedOK`). *The trade*: `TradeInv` keeps the setup of a
  position on the position's own side with its target (`Positions`), and remembers of a tick that sold nothing that its thresholds
  hold (`EvaluatedOK`). `HeldWithinLimits` then rests on the bounds of the thresholds under every context (`StopRange`,
  `GivebackRange`: an adjustment never makes a threshold zero or negative, because the accepted settings stay below 1), `EntryIsNotExit` on
  `UnsoldAtEntry`, `StaticIsStatic` on `StaticRule`. TLC checked `TradeInv` on all states of the run `trade`.

*Only model-checked:* liveness (`EventuallySettled`, `ApprovalAnswered`, `ExitCompletes`, `AuthorizedAgain`, `EventuallyExited`), because
it needs fairness and `ENABLED`. Every invariant and action property of the runs is proved. No module that is proved
about declares a `RECURSIVE` operator.

## 6. Abstractions

Prices, quotes, strikes and scores are modelled where they decide: in `Signals`, `ExitRules`, `Trade` and `Nightly`.
Elsewhere the choice is open (a replacement may or may not find a price, the market
makes any exit reason hold, a pipeline has a candidate or not), and the same the other way round: in `Trade`
an order fills and a sell succeeds at once, in `Nightly` the policy scores and exits as it likes.
A write of a file is atomic, except those of the risk state and of the replay's state, which the code rewrites in place and a
crash can cut off. No capture or replay runs on into the next day. A script adds a day in one step (`Backfill`), which may leave
any report or price out, and a run of the replay lists the directories once, as the code does.
The saver takes the set of cached tickers when it fires; its thread reads the cache's keys again for the manifest, which would differ only
if a scan outlasted 16:30. `capture_today.py`, the capture run by hand, is `CaptureLoop`'s firing and assumed not to run a second time beside it.
Settings from the environment (`LiveConfig.from_env`) are not validated by the code and are assumed to be in the ranges
that `update` enforces.
All non-final order states are one, "working", and all final ones except "filled" are "cancelled";
the code does not tell them apart. The order of the checks within a tick is open, which allows
more than the code does. The external parts (the broker, the market) are
marked `external` in `PROJECT.json`; they do what the code relies on and, through the
faults, what it has to survive. A crash of the process is an action where a component reads its own past from disk
(`RiskEngine`, `Tokens`, `Entries`, `Nightly`); for the others it is the arbitrary state of the broker with which
`Startup` begins.

Not modelled:

* HTML pages, read-only APIs, message texts and logging: presentation, and most of the
  lines of `approval_server.py`; its decisions are in `Approvals`.
* `uw/` and the other parsing of vendor payloads: what does not parse is a failed or an empty answer of the
  modules that ask.
* `telemetry/`: appended to and read by nobody who acts on it.
* `backtest/metrics.py`, the equity curve, and the one-shot replay of the scripts: arithmetic on the
  records `Nightly` has.
* The other scripts (`demo_dashboard.py`, `run_backtest.py`, `analyze_capital_scarcity.py`, `test_uw_history.py`, `auth_robinhood.py`):
  command lines that do not write what the live process reads, but for the first authorization. (The two that fetch
  history write into the directory the replay reads, and are in `Capture`.)
* The `rh_approval` interrupt of the graph, which the live process does not use.

## 7. What is left

In the order in which it would add most:

1. `OrderLifecycle` with the kill-switch of `RiskEngine`: a replacement is placed without asking it again.
2. `Startup` followed by `ExitLoop`: what becomes of one order's contracts under two keys.
3. `Nightly` with the exit rules in place of the policy: the peak that the saved state drops changes the
   exits a resumed replay takes.
