# TradeOS in TLA+

TradeOS is a Python trading platform (`src/TradeOS/core`, `src/TradeOS/apps`).  It analyses
market data, arbitrates between the signals, sizes a trade under risk limits, executes it in
a simulation engine or through NautilusTrader, keeps an audit trail, and derives feedback and
strategy changes from that trail.  This directory holds TLA+ models of the parts that keep
state and decide, TLC configurations that check them on small instances, and TLAPS proofs of
their main properties for all instances.

The repository also holds the sources of NautilusTrader, whose Rust crates
(`src/nautilus_trader/crates`) are what would carry live trading: order state, execution engine,
live node, throttling, venue connections.  The parts of them that hold the concurrency and the
order state are modelled too.  Paths below are relative to `src/TradeOS`, or to
`src/nautilus_trader/crates` for Rust files (`*.rs`).

## 1. Inventory

    bars, news --> analysis --> arbitration --> risk engine --> execution --> audit trail
                                                    ^               |             |
                                                    |               v             v
                                           limits, portfolio    position     feedback registry
                                                                                  |
                       strategy registry <--- (a person) <--- staged candidates <-+

| Component | State | Operations | What makes it correct |
|---|---|---|---|
| Strategy registry, life cycle (`core/strategy_pool/registry`, `lifecycle`) | append-only JSONL of spec versions | register, activate, deactivate, deprecate, reactivate | one status in force; deprecated for ever; nothing but register creates |
| Feedback registry, Phase-4 updater (`core/audit/closed_loop`) | append-only JSONL; staging directory | scan and append, mark reviewed/rejected, process | verdicts are about findings; a rejected one enters no pass; a pass stages what it has read |
| Risk engine, planner (`core/risk`) | none between calls | calculate: sizing chain, clamp, seven filters, execution plan | all limits hold of what is left; an exit never turns a position round |
| Simulation engine (`core/execution/simulation.py`) | orders, net position, average cost | submit, cancel, modify | position = sum of the fills |
| Live pipeline (`core/data/live/orchestrator.py`, `apps/api/routers/pipeline.py`) | one job per request | analyse, decide, clear, execute, record, answer | no trade without a clearance; a trail that can be followed |
| Audit registries (`core/audit/closed_loop/*_registry.py`) | three append-only JSONL logs | append, read since a date | what is appended is found again |
| Execution runtime, router, sinks (`core/execution`) | engine states, sinks | start, stop, restart, submit, emit | engines and runtime agree on what runs |
| Nautilus adapters (`core/execution/nautilus`) | order id maps, order states | submit, cancel, fill events | a final order stays final |
| Arbitration (`core/arbitration`) | none | arbitrate | rule priority; contract follows the bias |
| Portfolio composer (`core/strategy_pool/portfolio`) | none | compose, allocate weights | weights sum to one within their caps |
| Review managers (`core/audit/review`) | append-only JSONL | create, complete, list | a review is completed once |
| Experiment registry (`core/research/registry.py`) | one JSON index, cached | register, update, list | nobody's entry is lost |
| Data store, backfill, replay (`core/data`) | files, cursor | write, fill gaps, read slices, seek | no record lost or delivered twice |
| Authentication (`apps/auth`) | SQLite access log | check, log | the role table |
| Throttler (`common/src/throttler.rs`) | time stamps of the last sends, buffer, timer | send, drain, resume, reset | never more than the limit in a window; nothing lost, reordered or dropped without need |
| Order, execution engine, cache, position (`model/src/orders`, `execution/src/engine`, `common/src/cache`, `model/src/position.rs`) | orders, six indexes, netting position and its snapshots, whether the account is known | add, deny, handle any event or fill | orders, indexes and position tell one story whatever the venue sends, and when |
| Live node, execution manager (`live/src`) | orders in flight, their retries | commands, events, periodic check | an unanswered order is resolved |
| WebSocket client (`network/src/websocket`) | atomic mode, queue, buffer, four tasks | send, reconnect, disconnect | an accepted message is sent once, in order; disconnect is final |

**How the parts interact.**  The API (FastAPI) runs a request in a thread; the CLI and
scripts are processes of their own.  They meet in files: each registry is a directory
of JSONL files named by day, opened for append on every write and read back completely on every
read.  No file is locked, and no operation that reads before it writes is protected.  Within a
request the calls are plain function calls; an exception ends the request and what was appended
stays.

The Rust node is a single-threaded loop over channels: timers, commands of strategies and events
of the execution clients, each handled to its end.  What runs beside it, on the threads of an
asynchronous runtime, are the timers and the tasks of the venue connections, which share atomics
and channels with it and with one another.  What comes through a channel may be stale when it is
handled.

**What is hard.**  Reads that are stale when the append follows; calls made of two appends, and
death between them; records that say the same id; order of the appends as the only transaction;
clocks used as ids and as versions; filters that shrink a quantity in turn, after an earlier
limit was checked; several legal orders that add up to an illegal position; retries by clients
while the first request runs on; answers of a venue that are late, repeated, crossed or missing,
and local time-outs that resolve an order meanwhile; a mode that four tasks test and set without a
lock; attempts abandoned with their commands still in a queue.  `PROJECT.json` lists the most
serious of these under `hazards`, each at its line with the properties that cover it; section 5
reports further ones.

## 2. Modules

| Module | Models | Lines of thought |
|---|---|---|
| `StrategyRegistry` | the log, the version in force, the registry's tests | reading and appending, used by the next |
| `StrategyLifecycle` | managers that share a registry directory | extends `StrategyRegistry` |
| `LifecycleAbs` | what the strategy pool promises of one strategy | abstract; implemented by `StrategyLifecycle` |
| `FeedbackLoop` | scanners, reviewers and updaters on one feedback registry | |
| `RiskEngine` | `calculate()` as constant-level operators | no variables |
| `TradingDesk` | callers of the risk engine and the simulation engine | extends `RiskEngine` |
| `LivePipeline` | `run_live_pipeline()` and its three registries | extends `RiskEngine` |
| `Throttler` | the message throttler and the live clock's alert | |
| `OrderModel` | the order state machine | operators only |
| `ExecEngine` | execution engine, cache indexes, netting position | extends `OrderModel`; any events at any time |
| `LiveNode` | node loop and execution manager | extends and implements `ExecEngine` |
| `WebSocketClient` | callers, writer, reader, controller, disconnect | |
| `*_proofs` | theorems about the module they are named after | `TradingDesk_proofs` rests on `RiskEngine_proofs` |
| `MC*` | constants and symmetry for TLC | |

Operators whose comment begins "A plausible slip" are wrong versions of the definition that
follows them.  No specification uses them; substituting one shows that a property notices it.

### StrategyLifecycle

`log` is the concatenation of the registry's files, `now` the last clock reading.  A manager's
call is `Call` (the manager's own read and its early returns, giving `todo`, the registry
operations to do), then for each of these `Read` (the registry reads again and tests what *it*
tests, `Accepts`), `Stamp` (`datetime.utcnow()`) and `Write` (the append).  `Plan` is
`manager.py`, `Accepts` and `NewStatus` are `strategy_registry.py`: keeping the two layers apart
is the point, since `registry.deactivate()` tests less than `manager.deactivate()`.  `Register`
has its read and stamp in one step, since the spec is stamped when it is built.  The version in
force is the one with the strictly largest `registered_at`, first come first served on a tie,
exactly as the loop of `_latest_versions()` leaves it.  `Crash` loses the rest of a call and takes
the manager down; `Restart` brings up a new one, which knows only the log.

### FeedbackLoop

`log` holds pending feedback and the verdicts, which are copies with another status.  A
`feedback_id` names a pattern, so `Scan` can find an id again.  `AppendFeedback` is one line of
`append_many()`; `Mark`/`AppendVerdict` are the look-up and the append of `mark_reviewed()` and
`mark_rejected()`; `Process`/`Stage` are the read and one write of `Phase4Updater.process()`,
which holds its snapshot (`batch`) while others go on.  The processes in `Mortal` may die between
any two writes.

### RiskEngine, TradingDesk

Percentages are integers, quantities whole lots, prices whole ticks, and divisions round down;
floats have no counterpart in TLA+.  Everything that decides is kept: the chain takes the first
calculator that proposes something, exits and reductions are clamped to the position, each
filter sees what the one before it left, and a veto stands.  The square-root impact is compared
in squares.  Arguments the code does not hand on are not handed on in the model either: the
participation filter always sees "medium", the slippage filter 0, the regime calculator no
regime.  `TradingDesk` puts callers around it: `Ask` reports the position of the simulation
engine and gets a plan, `Submit` has it filled (`submit_intent()`, `_update_position()`), and
between the two others may trade and the market may move.

### LivePipeline

`Decide` is everything up to the plan, all private to the thread, and takes the `decision_id`
from the symbol and the clock.  `AuditRisk`, `Execute`, `RecordExecution`, `RecordDecision` and
`Respond` are the steps that others can see, in the order of the code.  `Fail` is an exception
in any of them (nothing between them is caught), `Reboot` ends all requests and sets
`time.perf_counter()` to its start.  The result of the analysis is any bias in any market
context.  The registries are sets: a record contains its run, which stands for its random
`audit_id`, so equal records cannot hide each other.

### Throttler

`Send`, `LimitMsg`, `SendMsg` and `Reset` are the methods of those names; `Process` is
`ThrottlerProcess::handle()` and `Resume` is `throttler_resume()`.  `SetTimer` replaces the alert by
name, as the clock does, while an event already in the channel (`fired`) stays there.  `Fire` may
come `HeadStart` early, because a live timer takes a millisecond off its delay
(`live/timer.rs:203`).  A throttler drops or buffers and is registered as an actor or embedded: all
combinations that the code builds are initial states, and no action changes them.  Messages are
numbered by `recv_count`.

### OrderModel, ExecEngine, LiveNode

`Sources` is the table of `OrderStatus::transition()`, `Noted` the head of `OrderCore::apply()`,
`Moved` and `Filled` its handlers.  `Apply` and `ApplyFill` keep what matters most: that an invalid
transition is no error for the engine (`engine/mod.rs:1708`), which goes on with the order as it is.
`UpdateOrder` is the cache's, with its early return when a second venue order id is refused.
`HandleFill` then hands the fill to the position whether or not the order took it, unless the account
of the fill is not in the cache (`account`, set by `AccountState`): then `handle_order_fill()` returns
(`engine/mod.rs:1793`) with the order already updated.  Its other early return, for an instrument that
is not in the cache, cannot be reached: `handle_submit_order()` of the engine hands no order to a
client whose instrument it does not find (`:1380`), and nothing takes an instrument out again.  The
account is not asked for: the risk engine lets the order through (`risk/src/engine/mod.rs:825`).

The position is that of a netting strategy in one instrument; a trade id fixes the content of its
fill, so a repeated fill is an exact replay.  A commission in the base currency of a currency pair is
taken from the signed quantity (`Opened`, `Changed`; `position.rs:334`), and a flip splits it by
quantity: the closing part takes a rounded share (`ClosingShare`, either way at a half since the
quotient is a float) and the position that opens the rest.  Quantities and commissions are whole
numbers of one unit, so the instrument has the precision of its currency; sums are exact where the
code adds floats.  A commission is less than half of what is traded.

History: `taken` is how often the position took a trade, `unbooked` which it took without the order's
knowing, `unaccounted` which the order recorded before the account was known, `snapshot_qty` what
flips left in the snapshots.  `panicked` ends the behaviour, as the panic ends the node.

`LiveNode` adds the strategy and the loop of `run()`: `NewOrder` puts an order into the cache,
denied if the strategy is exiting the market, which may begin and end at any time; `Submit`,
`SubmitFails` and `Request` are the commands that are registered as in flight, `OrderEvent` and
`FillEvent` the events with the clearing of the tracking before and after them, `AccountEvent` the
state of the account, `Tick` and the `Check*` actions a round of `check_inflight_orders()`.  Time is
counted in rounds and ages stop at their thresholds.  The rounds are taken apart order by order, so
events may come between two orders of a round; the code allows fewer behaviours, never more.  An
event arrives at any time and any number of times, but not before the command and not before the
client's `Submitted`.

### WebSocketClient

A step is what a task does between two awaits or two accesses to shared state.  Callers:
`WaitForActive` (the test of the mode), `Enqueue`.  Writer: `Take*`, `SendSucceeds`, `SendFails`,
`Drain`, `DrainEnds`, `WriterStops`, `WriterAborted`.  Controller: from `SeesDisconnect` to
`Closes`, with `reconnect()` inlined and each of its awaits a place where it may fail, time out
(`AttemptFails`) or be interrupted.  `Disconnect`, `DisconnectReturns`, `DisconnectAborts` are
`disconnect()`.  An abort takes effect at the controller's next await, and `disconnect()` does not
wait for it: `abort` lets the controller finish at most the step it is in (two for the end of an
attempt, `Settles` and `Resumes`, between which there is no await), then `ControllerEnds`.
`NotifyClosed` is `notify_closed()`, by any number of callers and in both modes, though its
documentation gives it to stream mode; since a caller may have tested the mode while it was Active,
its store can come at any time.  Connections are numbered; `up` are those that work.  A write to a
dead connection may succeed or fail, as with TCP.  `late` records the messages that were queued when
the client was not active, which the code treats differently.

## 3. Runs

| Run | Instance | Shows |
|---|---|---|
| `lifecycle_single` | 2 strategies, 1 manager, exact clock, crashes and restarts, 5 versions, 6 readings, `FairSpec` | `ImplementsLifecycle`: the log is an implementation of `LifecycleAbs`, crashes included; `DeprecationLands`: one that began ends deprecated unless its process dies |
| `lifecycle_shared` | 1 strategy, 2 managers, equal readings, crashes, 4 versions | `TypeOK`, `RegisteredFirst`, `SettledDeprecation`: what is left of "permanent" when managers race |
| `lifecycle_race` | 1 strategy, 2 managers | violated: `DeprecatedIsFinal` |
| `feedback_safety` | 2 ids, 1 scanner, 2 reviewers, 2 updaters, all but one updater mortal, `FairSpec` | `TypeOK`, `VerdictHasSource`; `RejectedStaysOut`: what is rejected enters no pass any more, and what a pass already had in hand is staged once at most; `PassIsCompleted`: a pass whose process lives stages all it has read |
| `feedback_muted` | 1 id, one process of each kind | violated: `NewFeedbackWaits` |
| `desk_limits` | 2 callers, 11 market contexts, 2 fills | `TypeOK`, `OrdersWithinLimits`, `ReductionsReduce` |
| `desk_book` | 1 caller, a quiet market, 4 fills | violated: `BookWithinPositionLimit` |
| `pipeline_trail` | 2 requests, 1 symbol, 3 contexts, failures, a reboot, `FairSpec` | `TypeOK`, `TradesAreCleared`, `TrailIsBacked`, `AnsweredIsRecorded`, `FillsAreRecorded` |
| `throttle` | limit 2, interval 3, head start 1, 5 messages, `FairSpec` | `RateLimited`, `InOrder`, `NoNeedlessDrop`, `BufferDrains` |
| `live_node` | a buying order of 12 in two trades with every kind of event, one of them with a commission, a selling order of 4, an account known at any time, a replaced venue order id, 2 rounds, 2 retries, `FairNodeSpec` | order and cache: `IndexesAgree`, `PendingHasBase`, `ClosedIsFinal`, `FilledOnce`; position: `BookedOnce`, `NetIsSum`, `CyclesKept`, `OrderTakesFill`; manager: `InflightResolves`; `TypeOK` |
| `node_replay` | one order, one trade, a silent venue | violated: `ReplaysAreSkipped` |
| `websocket` | 2 messages, 2 attempts, 3 connections, both modes, `FairSpec` | `SentOnce`, `InOrder`, `Replayed`, `ActiveIsWhole`, `DisconnectIsFinal`, `DisconnectEnds`, `ReconnectEnds`, `TypeOK` |

**The violated ones** are statements of the repository that the code does not keep:

* `DeprecatedIsFinal`: `manager.py:79` calls a deprecation permanent.  A manager that tested the
  status first and calls `registry.deactivate()` after another's deprecation writes an INACTIVE
  version over it, and the strategy can be activated again.
* `NewFeedbackWaits`: `feedback_registry.py:95` reads all feedback that is waiting.  The id is a
  function of the pattern, so a pattern reviewed once is resolved when it is found again.
* `BookWithinPositionLimit`: `module_boundaries.md:249` has the risk layer enforce position
  limits.  The filter looks at the order alone; the third order of 4 lots passes the 10-lot limit.
* `ReplaysAreSkipped`: `docs/concepts/execution.md:457` of NautilusTrader has an exact replay of a
  fill skipped.  The answers to an order are lost and the in-flight check rejects it; a fill that
  comes late is not recorded on the rejected order but opens the position; the same fill, sent again
  after a reconnection, is no duplicate for the order, and `Position::apply()` panics
  (`model/src/position.rs:275`).  `OrderTakesFill` and `BookedOnce` of `live_node` say exactly when
  this can happen.

**Bounds.**  `MaxLog` and `MaxTime` stop new calls, never the ones under way, so that no behaviour
is cut in the middle.  Four versions are a registration, an activation and the two appends of a
deprecation, or any race of two calls on a registered strategy; five and six leave room for a second
strategy or a reactivation.  Two managers suffice to overtake one another, and the proofs cover
more.  Three lines of feedback are a finding, its verdict and the finding again; two updaters let a
pass begin before and another after a verdict.  `MaxStaged` limits how often a pass starts, which
matters since nothing in the code does.  The eleven contexts were chosen so that each cap and each
veto decides in one of them (the comments in `MCTradingDesk` name them); two fills give every order
of "plan, fill by the other, submit", with a long, a short and a flat book.  The limits are the
defaults of `RiskLimits`, as percentages.  Two requests, one tick and one reboot produce both ways
to share an id.  Five messages at a limit of two fill the window, buffer and drain twice; the clock
runs on past `MaxTime` while an alert is set.  A buying order that is filled in two trades around
the sell of one lets the position open, grow, flip, close and reopen; quantities are multiples of 4
and the one commission is 3, so that a flip has a half to round; `MaxTaken` = 2 is enough to book a
trade twice if anything could; the second venue order id is refused by the cache.  Two rounds and
two retries are one query and one resolution.  The selling order is filtered from the check to keep
the run small.  Three connections and two attempts are a first connection, an abandoned attempt with
its update still queued, and a successful one (740 000 states; `live_node` has 515 000).  Deadlock
is not checked: callers, venues and operators may stop.

**Symmetry** is used in `desk_limits` only, for callers that the specification does not tell apart;
it checks safety only.

**Fairness.**  `lifecycle_single`, `feedback_safety` and `pipeline_trail`: weak fairness of the next
step of a call that is under way.  The code between two steps has no wait, no lock and no unbounded
loop, so a thread that is not killed takes it; being killed or raising is a step of its own
(`Crash`, `Fail`, `Reboot`), `DeprecationLands` ends in "deprecated or down", and `PassIsCompleted`
speaks of the updater that is not `Mortal`.  Calls are never forced to begin: no code of the
repository schedules `Phase4Updater.process()`, and no property says that a finding is ever looked
at.  `throttle`: time passes, a due alert fires, and the runner empties its channel; sends and
resets are not forced.  `live_node`: the timer of the check and its steps, since the loop polls its
timer before its channels; nothing is assumed of the venue or the strategy.  `websocket`: the
runtime runs every task that can run, fires its timers and ends a task that was aborted.  Sends that
hang and attempts that always fail are allowed; messages are not forced to be written, and no
property says they are.

## 4. Proofs

TLAPS proves the following for every value of the constants that the named assumptions allow:
any number of strategies, managers, processes, callers, runs; every set of limits
(`RiskLimits`), every portfolio and market context; every limit and interval; any orders, trades
and venue ids; any messages, attempts and connections.  The bounds are constants of the
specifications and stay arbitrary.

| Theorem | States | Argument |
|---|---|---|
| `StrategyLifecycle_proofs!TypeCorrect` | `Spec => []TypeOK` | `TypeInv` = `TypeOK` and: each registered strategy has a version in force (`HasCurrent`). Without it `InForce` is a `CHOOSE` over nothing and `Status` has no type. That an append keeps it is a lemma on logs. |
| `RegistrationFirst` | `[]RegisteredFirst` | `RegisteredInv` adds that a call under way is about a registered strategy: an append of anything but a candidate follows a read that found one, and logs only grow. |
| `SettledIsPermanent` | `[][Settled(s) => Settled(s)']` | From `TypeInv`: an append to another strategy does not change the version in force of this one; an append to this one by a manager that does not threaten it deprecates it again or is too old to be in force; and no manager comes to threaten a deprecated strategy, since `Plan` and `Accepts` refuse it. |
| `AloneImplementsLifecycle`, `AloneDeprecationIsFinal` | under `Alone`: `ImplementsLifecycle`, `DeprecatedIsFinal` | `Alone` says that there is one manager and that the clock is not coarse, the setting of `lifecycle_single`. `AloneInv` adds `StampInv`: no stamp in the log lies after the clock's last reading, so what is appended is in force (`WriteTakesEffect`); and `FreshInv`: the next append of a call under way is a step of `LifecycleAbs` from the version in force, since nobody else has written since the manager read it (`PlanIsLegal`). Every append is then one abstract step, every other step a stutter. |
| `FeedbackLoop_proofs!TypeCorrect` | `[]TypeOK` | |
| `VerdictsHaveSources` | `[]VerdictHasSource` | `SourceInv` adds `MarksAreKnown`: the copy a reviewer holds is of an id the log knows. |
| `RejectionKeepsOut` | `RejectedStaysOut` | Logs only grow, so a rejection stands; a pass begins with records of ids that have no verdict (`Unprocessed`), so none of a rejected id enters a batch; and each `Stage` takes one record out of the batch it counts. |
| `TradingDesk_proofs!DeskTypeCorrect` | `[]TypeOK` | |
| `PlansWithinLimits` | `[]OrdersWithinLimits` | `PlansAreSound` of `RiskEngine_proofs`: filter by filter, a quantity only shrinks; every cap and loss test is monotone, so what held of a larger quantity holds of the smaller one; a veto leaves zero. |
| `ReductionsNeverFlip` | `ReductionsReduce` | `DeskInv` says of every pending plan that a reduction is of the opposite side to, and no larger than, the position it was computed for. |
| `LivePipeline_proofs!PipelineTypeCorrect` | `[]TypeOK` | |
| `NothingTradedUncleared` | `[]TradesAreCleared` | `PipeInv`: for each run what its `pc` implies about its job, its fill and its records (`RunOK`), and for each record what it rests on. An empty portfolio makes every actionable plan an opening one, so its sign is that of the direction. |
| `TrailAlwaysBacked`, `AnsweredAlwaysRecorded` | `[]TrailIsBacked`, `[]AnsweredIsRecorded` | From `PipeInv`: registries only grow, and the append order is that of `pc`. |
| `Throttler_proofs!TypeCorrect`, `RateIsLimited`, `OrderIsKept`, `DropsAreNeeded` | `[]TypeOK`, `[]RateLimited`, `[]InOrder`, `NoNeedlessDrop` | `IInv` adds `Window`: the time stamps are the last sends, the newest first and none in the future; and `Waiting`: a throttler that buffers is limiting exactly while something waits, and then either its alert is set for the end of the window or one event of it is in the channel and the window is over but for the head start. The first message of a drain is sent without a look at the clock, so `RateLimited` is false without it. |
| `LiveNode_proofs!EngineTypeCorrect`, `IndexesAlwaysAgree`, `RefusalRestoresBase`, `ClosedOrdersStay`, `FillsAreRecorded` | `[]TypeOK`, `[]IndexesAgree`, `[]PendingHasBase`, `ClosedIsFinal`, `OrderTakesFill` | `OrderInv`: types, indexes, and of each order (`OrderOK`) that the status kept for a refusal is one it may return to. Lemmas say what `Apply` and `ApplyFill` do to any order in any status; `UpdateOrderStep` does the indexes once for all callers, the early return included. |
| `TradesBookedOnce`, `CyclesAreKept` | `[]BookedOnce`, `[]CyclesKept` | `EngineInv` adds `PosInv`: the trades in the position were taken and its events are among them; and that nothing is unbooked before the account is known, since the position then takes nothing. Opening, reopening, flipping, changing and panicking are cases of one lemma, `PositionStep`. A flip must open a position that is not flat, or the index would be wrong: of a commission below half of the quantity, the share of the part that opens is less than that part, however it is rounded (`FlipLeaves`). |
| `TradesCountedOnce` | `[]FilledOnce` | `CountInv`: the trades of an order are finitely many and its own, its filled quantity is their sum, and it has one if it is or, after a refused change, may again be partly filled. |
| `PositionIsNet` | `[]NetIsSum` | `NetInv`: the trades taken are finitely many, and the position with `snapshot_qty` is the sum of their quantities less their commissions. All ways to update a position change the two together by just that of the trade they take (`NetStep`), also the flip, which splits both quantity and commission, whatever the rounding of the split. |
| `NodeImplementsEngine` | `NodeSpec => EngineSpec` | Each node action is an engine action or leaves the engine alone. All of the above hold of the node. |
| `NodeTypeCorrect` | `[]NodeTypeOK` | A retry count reaches its maximum only in the step that clears it. |
| `WebSocketClient_proofs!ClientTypeCorrect` | `[]TypeOK` | `TypeInv` adds that a writer that sends has a message in its hand. |
| `ActiveIsAlwaysWhole` | `[]ActiveIsWhole` | `UpdateInv`: the updates in the queue are in order and newer than the writer's connection, and once the controller has its confirmation, or the client is active, the writer's connection is the newest. An abandoned update can then not overtake. |
| `BufferIsReplayed` | `[]Replayed` | `LateInv`: what is in the queue behind the last update, and what is buffered after a confirmation, was queued while the client was not active. |
| `EachIsSentOnce`, `WrittenInOrder` | `[]SentOnce`, `[]InOrder` | `LineInv`: the written messages, the buffer, the writer's hand and the queue form one line in which no message stands twice and none behind one accepted after it, the late ones aside. Each step moves a message from the head of one part to the end of the part before it, but for a send that fails, which puts the message behind the buffer and skips nothing, since while the writer sends the buffer holds late ones only (`HandInv`). `PlaceInv`: what was sent is somewhere in the line while the writer runs, and only that; `AcceptedOnce` makes "earlier" unambiguous. |
| `DisconnectStaysFinal` | `DisconnectIsFinal` | `Ended`: once `disconnect()` has returned the controller has ended or is aborted; one that has used the step it was in takes no other; and only the controller makes connections or the client active (`OnlyTheController`). |

The assumptions are `CoarseClockAssumption`, `BoundsAssumption`, `FeedbackBounds`, `RiskLimits`,
`DeskAssumption`, `LiveAssumption`, `ThrottlerAssumption`, `EngineAssumption`, `NodeAssumption` and
`ClientAssumption`: bounds are natural numbers, percentages lie in 1..100, contexts have the types
the code validates (the live pipeline reports an empty portfolio without a history), limits,
intervals, quantities and retries are positive, a trade and a venue order id belong to one order,
and a commission in the base currency is less than half of the quantity it is paid for.  TLC
evaluates each of them in its runs.

The type invariants of `Throttler` and of the manager in `LiveNode` (`NodeTypeOK`) are proved and not
listed in a run.

**Sums.**  `FilledOnce` and `NetIsSum` add up trades with `SumFunctionOnSet` of the community modules,
a recursive function over the subsets of a set that picks elements by `CHOOSE`.  The provers
cannot use an induction theorem that takes a predicate, so the first section of `LiveNode_proofs`
derives one about sets (`SubsetInduction`) from the fact that the strict subset order of a finite
set is well founded, and proves with it that the recursive function exists (`SumExists`), that the
sum is an integer and depends on the values in the set only, and that any element may be taken out of
or added to it (`SumWithout`, `SumWith`).

**Only model-checked**: the liveness properties (`DeprecationLands`, `PassIsCompleted`,
`FillsAreRecorded` of the pipeline, `BufferDrains`, `InflightResolves`, `DisconnectEnds`,
`ReconnectEnds`), which need fairness; and the violated properties, for which a counterexample is
all there is to show.  Every invariant and every action property of the passing runs is stated by a
theorem; the refinement of `lifecycle_single` needs its one manager and its clock, since it is false
without.

## 5. Not modelled

* Numerical analysis, signal builders, backtests, research, feedback statistics, quality scores:
  floats without control.  Their results enter the models as arbitrary inputs.
* HTTP, user interfaces, data providers, schemas, logging: input, output and data types.
* Of NautilusTrader's 800 000 lines of Rust, more than half parse and format the messages of single
  venues, and a large part of the rest is generated encoders, bindings, indicators, value types and
  tests.  The models cover the parts that keep the state of orders and connections, a small share of
  the lines.  Not covered of the core: the Rust risk engine, the matching engine and backtest,
  emulated and contingent orders, hedging positions, reconciliation against venue reports, the raw
  socket client, the cell-rate limiter and the retry manager.  `PROJECT.json` lists each.
* Qlib is a vendored library.
* JSONL appends are modelled as whole lines.  A record beyond the write buffer can reach the file
  in pieces; this is in the plan.
* Exceptions inside `calculate()` (a Kelly history without wins divides by zero) end the call
  without a change of state.

**Seen while modelling, and not the subject of a run:**

* An exit goes through the same filters as an opening order, so at the drawdown or loss limit it is
  vetoed (`engine.py:303`, `drawdown_limit.py:23`); `phase7_planning.md:193` calls it unconditional.
* `decision_id` is made of the symbol and the milliseconds of `time.perf_counter()`
  (`arbitration/engine.py:257`): two requests for a symbol in one millisecond, or at the same
  millisecond of two boots, share it, and nothing else ties an execution record to its decision.
  `global_io_contract.md:300` calls it a UUID.
* With a clock that returns equal readings a deprecation can be lost: `_latest_versions()` keeps
  the earlier of two equal stamps (`strategy_registry.py:74`), though the comment at `:154`
  says that the new stamp puts the version in force.  Setting `CoarseClock` in `lifecycle_single`
  shows it: the lost update is no step of `LifecycleAbs`.  No property of a passing run says that a
  deprecation that was written is in force; `SettledDeprecation`, checked with equal readings and
  several managers, says when one that is in force stays so.
* An updater stages a feedback that was rejected after its snapshot (`phase4_updater.py:87`,
  `:96`), against `phase8_lifecycle.md:154`; `RejectedStaysOut` bounds how much.  REVIEWED feedback,
  which the same document (`:136`, `:150`-`151`) has the updater process, never is: a verdict of either
  kind takes the id out of `read_unprocessed()`, whose own description in that document (`:94`) fits
  the code.  No property takes a side in this.
* `_run_filters()` gives the slippage filter no estimate (`engine.py:492`; the filter's
  docstring expects one) and the participation filter no urgency (`engine.py:303`, `:361`).
* `PositionCalculator.calculate()` drops `regime_name`: regime sizing always uses 0.8.  Since
  fixed-fraction sizing proposes something for all but very large prices, drawdown and regime
  sizing, which follow it in the chain, hardly ever decide.
* The orchestrator's table of order types has upper-case keys and gets lower-case algorithms
  (`orchestrator.py:1036`): every order is a market order.
* The live pipeline's feedback scan gets the records of one request, fewer than any generator's
  minimum (`orchestrator.py:586`), and so finds nothing.
* `DecisionAuditor.ingest()` does not copy the `execution_record_id` it is given
  (`decision_audit.py:48`; the field exists, `decision_record.py:78`).
* A failure after the execution leaves an execution record without a decision record
  (`orchestrator.py:567`-`584`); `TrailIsBacked` is about the other direction.
* In `nautilus/adapter.py` (`:203`, `:314`) transitions to CANCELLED and FILLED stand at the end
  of comment lines and are not executed.
* Replay slices include both their ends (`replay.py:120`-`168`, `:370`), so that a record on
  a boundary belongs to two; `read_all(since)` of the registries skips the file of `since`'s own day.
* `start_all()` that fails at a later engine leaves the earlier ones running and the runtime in ERROR
  (`execution/runtime.py:40`); one sink that raises keeps the event from the sinks after it
  (`execution/sinks.py:112`); `complete()` of a review that does not exist, or is completed, is
  appended all the same (`review/decision_review.py:49`).
* The simulation engine's `avg_cost` survives the close of a position (`simulation.py:233`), so the
  loss filter can veto a fresh order because of an old one.
* A fill that arrives before the account is in the cache is recorded on its order and never reaches
  the position (`engine/mod.rs:1793`, an error in the log); the same fill sent again is dropped as a
  duplicate, so nothing but a reconciliation repairs the position.  `BookedOnce` says so.
* A flip with a commission in the base currency leaves the share of the part that closes in the
  snapshot: the position that was to be closed by it ends with a quantity of minus that share, and
  the position that is live does not carry it, so that it is off by it against `positions.md:103`
  and `:117` ("accurately reflects the true net asset position", "on both sides of the flip").
  `NetIsSum` accounts for it by `snapshot_qty`.
* Two orders of one strategy that report the same trade id, a self trade, make the position panic
  (`model/src/position.rs:275`); the models give a trade to one order.
* A throttler with limit 0 computes `limit - 1` on an unsigned number (`throttler.rs:180`).  `reset()`
  leaves timer and pending event alone (`throttler.rs:191`); harmless for the throttlers that drop,
  the only ones that are reset.
* `live.md:160` has an order without an answer rejected after the last retry; an order with a pending
  change is canceled instead (`manager.rs:853`).  `CancelAllOrders` and `BatchCancelOrders` are not
  registered as in flight (`node.rs:991`).  A late `Accepted` ends the tracking of a newer
  request (`node.rs:929`), and each repeated request restarts its time-out (`manager.rs:1154`).
* An order refused a change while still Submitted stays in the index of open orders
  (`cache/mod.rs:2114`); a venue order id that an update replaces is refused (`:2102`, with a TODO).
* A WebSocket message queued after the mode has left Active can be held in the reconnect buffer until
  the next reconnection, behind messages sent later (`client.rs:763`); the comment at `client.rs:1244`
  says that it is replayed on the new connection.
* What an aborted controller was about to do when `disconnect()` gave up (`client.rs:1234`) can still
  happen after it has returned: a connection whose handshake is just over is handed to the writer, or,
  if a failed send has stored Reconnect in that moment, the client becomes Active until the controller
  and the writer are gone.  `DisconnectIsFinal` exempts this step and nothing after it.
* A failed send stores Reconnect over Disconnect or Closed (`client.rs:771`).  A disconnect then waits
  for its time-out; on a client that has ended the mode stays wrong, though no task runs.

## 6. Plan

Done, in order of importance: the life cycle of strategies, the feedback loop, the risk engine
with its desk, the live pipeline; of the Rust crates the throttler, the order and execution engine
under the live node, and the WebSocket client.  Next:

1. Of the Rust crates: reconciliation against venue reports on top of `ExecEngine` (inferred fills
   racing real ones), contingent orders, the pre-trade checks of the risk engine around `Throttler`,
   and the cell-rate limiter that a WebSocket send awaits.
2. `ExecutionRuntime`: runtime, router and sinks with engines that fail to start or stop and
   sinks that raise, and the simulation engine's orders, callbacks and cancels.  Properties: the
   runtime's state agrees with its engines'; a fill reaches every sink or the error is seen.
3. `NautilusAdapter`: order ids, events in any order, and the order's state machine against an
   abstract venue; a final order stays final.
4. `AuditLog`: the JSONL registries with day files, `since` and torn lines, as a specification
   the logs of the present modules can be shown to refine; the review managers on top of it.
5. `Arbitration`: rules and ensemble score as operators against a reference definition, and the
   decision contract that `LivePipeline` now takes as given.
6. `ExperimentRegistry`: an index rewritten from each process's cache.
7. `Replay` and `Backfill`: slices, boundaries, gaps; weights of the portfolio composer; the role
   table of the authentication service.

Proofs to come are those of the modules above; the safety properties of the present ones are
proved.  The runs stay few: a new module's questions replace or join those of the modules that are
by then proved.
