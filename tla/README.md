# Verification of crypto-strategy-lab

TLA+ models of the stateful core of `crypto_strategy_lab`, checked with TLC and, for the
properties that matter most, proved with TLAPS. Source paths below are relative to the
repository; the package is `src/crypto_strategy_lab/`.

## 1. The system

The repository is a research laboratory for stablecoin spot strategies: it replays recorded or
live public market data through candidate strategies, keeps exact accounts of what each would have
done, and offers a local dashboard that controls a shadow (order-free) bot. Almost all of it is
sequential, deterministic Python driven by events; threads exist only in the dashboard. What is
hard is therefore mostly *long sequences of legal calls*: fills that race cancels, partial fills
and residues, replacement of queue positions, authorizations used once, money that must be found
again in every state. To these come the latencies of the simulator, which separate what has
happened from what a strategy knows; in the dashboard, threads, crashes and restarts; and, where
research is recorded in files (day runs, registry), overlapping processes killed between two
writes.

| Component | State | Operations | Interacts with | What makes it correct |
|---|---|---|---|---|
| `GlobalCapitalLedger`, `DustLedger` (`microstructure/parallel_pair_capital_manager.py`) | free USDT, positions per capital id with a lifecycle state, dust lots, closed cycles, risk-exit authorizations, marks | reserve, cancel request/ack, entry fill, owned return, settle, dust, consolidation, marks | called by both pair engines and the scenario | one owner per id; no cash freed before an ACK; books balance to the bank; each loss authorized once |
| `CausalQueueEstimator` (`microstructure/multi_stable_queue.py`) | per (book, side, price): public quantity, own orders with barriers | activate, two cancel ACKs, compatible flow, trade through, estimates | one per pair engine | FIFO, no inherited priority, a trade spent once, better prices first |
| `PairEngine`, cycle attribution (same file as the ledger) | hotline, grid of 2 sides x 7 ranks x 2 columns, bound capital, inventory | receive_book, request_c1_move, acknowledge_grid_cancel, bind_order_capital, submit_owned_return, consume_public_trade | ledger, queue | orders, queue and bank agree; inventory equals what the bank holds of the pair |
| `ParallelPairCapitalAllocator` | none | rank candidates, grant | ledger | returns and risk first; never more than is free |
| M035 scenario (`m035_economic_backtest.py`) | live orders, waiting returns, clock | receive, advance orders, submit, apply fill | all of the above | no order twice in a slot; every filled entry gets a return |
| M035 capture and data (`m035_dual_pair_capture.py`, `m035_data.py`) | joined streams, gaps | receive, align, write | exchange streams | no event used out of order |
| Passive execution simulator S0 (`microstructure/execution.py`) | event heap, books of exchange and strategy, orders, ledger | market events, deliveries, decisions, arrivals, matching, notices, cancels | the tape; a day run and a replay execute it | fills are supported by the tape; cancels are not lost; one lot at a time |
| Day run (`microstructure/day_run.py`) | RUN_STATUS.json, lock file, reports, CURRENT_STATE.md | preflight, reject, claim, run, finalize | file system, operator, other processes | one execution per campaign, of what was authorized; evidence agrees and is kept |
| Model registry (`ml/model_registry.py`) | JSONL journal, artifact files, projected reports | register, append scenario/run/evaluation, transition, promote, retry, recover | files; the replay workflow | statuses follow the table; nothing registered twice; one champion |
| Full replay workflow (`microstructure/replay_workflow.py`) | lock file, completed replays, failure records | start, run or retry, replay, evaluate, fail, recover | registry, git, simulator | EVALUATED only with evidence; failures kept |
| Operator dashboard (`operator_dashboard/`) | bot status in memory and in SQLite, reconciled and divergence flags, worker thread | play, stop, emergency_stop, reconcile, test_connection, start-up, close | handler threads, exchange observer, store | no run after a crash before reconciliation; stop is final; status in the store is current |
| Earlier lines (M022-M034: grids, slot ledgers, multi-venue, recovery reserve, forward paper) | their own ledgers and replays | replay of a tape | files | superseded by M035 |
| Simulation (`simulation/`), ML training, data, db, decision, analytics, CLI, scripts | portfolio, clock; files | - | - | - |

The hard behaviours of each, at their lines, are the `hazards` of `PROJECT.json`; its `components`
say of every part whether it is modelled.

## 2. The modules

| Module | What it is |
|---|---|
| `LedgerArithmetic` | sums over bounded index sets, pro-rata cost and the part of a quantity that fits, as recursive *functions* so that they can be proved about |
| `GlobalCapitalLedger` | the shared bank with its dust ledger |
| `SharedBank` | what the ledger promises its pairs: a free balance, an amount committed and a result per pair |
| `LedgerRefinement` | the mapping under which `GlobalCapitalLedger` implements `SharedBank` |
| `CausalQueue` | the queue of own and public orders |
| `PairEngine` | the grid of one pair over its queue and its part of the bank |
| `PassiveExecution` | the simulator of the two-level strategy, its heap and latencies |
| `DayRun` | the one-shot day run, by processes and an operator who share files |
| `ModelRegistry` | the registry: its operations as sequences of single writes |
| `ReplayWorkflow` | the replay campaign on top of `ModelRegistry`, with crashes |
| `OperatorService` | the operator's control of the bot, by threads that crash |
| `MCGlobalCapitalLedger`, `MCCausalQueue`, `MCOperatorService`, `MCDayRun`, `MCReplayWorkflow` | values of constants, symmetry, histories to start from |
| `LedgerArithmeticProofs` | lemmas about sums, shares and what is served in turn |
| `GlobalCapitalLedgerProofs` | theorems about the ledger: its books; its losses, costs, pairs, the refinement, its dust |
| `CausalQueueProofs`, `DayRunProofs`, `OperatorServiceProofs`, `PairEngineProofs`, `PassiveExecutionProofs`, `ReplayWorkflowProofs` | theorems about the module each is named after |

`PairEngine` and `PassiveExecution` are instantiated by their `.cfg` alone.

A definition commented *faulty* is a plausible wrong version of the definition that follows it. It
is used by no specification; replacing the right one by it must break a property, which shows that
the property can tell the difference.

### GlobalCapitalLedger

State: `free` (free_usdt), `positions` (capital id -> `CapitalPosition`, only ids on the books),
`dust` (id -> `DustLot`), `cycles`, `authorizations` and `consumed`, `assetMarks`,
`sequence` (the id counter), `externalCosts`, the realized result and the causal time. Each public method is an
action of its own with the method's checks as guards; `record_entry_fill` covers the full fill, the
partial fill and the fill that races a cancel; `settle_return` is two actions, one for `complete`
false and one for true. A call that raises changes nothing and is no action: every method of this class
checks before it assigns, except `reconcile()`, whose checks are the invariant
`ReconcileHolds`. `reconcile()`'s call at the end of each method is thus part of
the property, not of the guard. Quantities are natural numbers; prices are the
constants that give the proceeds of a sale and the asset an entry buys. One discipline of the
callers is a guard of the settlement, and is said so there: an order that sells the whole position is settled with
`complete`.

`LedgerRefinement` maps what a pair has committed to the cost of all its positions and dust, with
the costs attributed to them, and its result to that of its closed cycles and of its open partial
sales. Consolidation, moving inventory to dust, marks and authorizations are then stutters: they move no pair's money.

### CausalQueue

State: `public` (group -> public_remaining), `orders` (activation number -> order; the
sorted deque of the code is the order of these numbers), `processed` event ids, `sequence`,
`lastTime`. A sweep is written in closed form: an order receives what the trade has
left after everything before it, instead of a loop that carries `remaining` along. `RejectedCall`
is any call that raises after `_causal` has already moved `last_time_us`. Filled orders stay in
their group as they do in the code.

### PairEngine

State: `hotline`, `orders`, `queue` (the estimator's own orders in activation order), `positions`
and `dust` (the bank's, of this pair) and `inventory`, the engine's own count. Each public method is
an action. The two neighbours are kept to what the engine sees of them: a trade fills any amounts
at one price that serve the older order first (what `CausalQueue` guarantees, without depth), and a
position is a state with cash or a quantity (what `GlobalCapitalLedger` guarantees, without fees).
A trade applies its planned fills in turn (`FilledInTurn`, a recursive function along the queue over the record
`Books`), because each fill is applied to the books the one before it left. `Funded` states the checks that come before; that
they never refuse a trade is `FillsAreFunded`. An order whose cancel is acknowledged after a fill stays
PARTIAL_FILLED and is not replaced, as in the code.

### PassiveExecution

State: `agenda` (the heap without its inputs), `book`, `bookValid`, `strategyValid`, `halted`,
`orders`, the ledger `usdc` and `fdusd`, `clock`. The heap is ordered by time, priority and serial
number; `Pops` and `PopsInput` let a step happen only if it is the one the heap would give. Inputs
(market events, cancel requests) are chosen freely in time order, so a run covers every tape within
the bounds. A step is one popped item with everything its handler does: a fill notice with the
order it places, a trade with the fills of all orders at the level. `raised` is an
`ExecutionIntegrityError`, which ends the run.

### DayRun

State: files (`frozen`, `current`, `status`, `lock`, `output`) and, per process, where it stands and
what it has read. A step reads files, validates what was read, or replaces one file atomically; between two steps the other process,
the operator, an exception (`Raises` under the lock, `Fails` after the claim) or a kill (`Killed`) may come. Two steps do more: the
record is appended together with the flag that says so (day_run.py:373-374), and the final status is written with the return of the
run (375-382), so an interrupt between the two statements is cut away. However the block under the lock is
left (status written, refused or rejected, or by an exception), removing the lock file (`Unlocks`) is a step of its own. All inputs of a campaign are one
version; validating them is `Valid`. `starts`, `discards` and `offered` are history.
A process that is killed leaves its lock file; the operator removes it, as the error message asks.

### ModelRegistry and ReplayWorkflow

An operation decides on the journal it reads and then has its writes done one at a time: `todo`
is the rest of them, `Write` does one, and `Abandon` is an exception or a kill that leaves the
rest undone. Hashes are equality of what is hashed. `ReplayWorkflow` adds the control of
`_run_one`: which statuses it accepts, the run it registers or retries, what lies in the
`try` block whose failure is recorded (`Guarded`), and M010's recovery. `History` gives the
journals to begin with: one model registered, one left RUNNING, two evaluated with one promoted. Beginning there keeps
the journals short. `HistoryAssumption` says what such a journal must be, and TLC evaluates it; that the program leaves
only such journals is a theorem.

### OperatorService

A step of a call is one acquisition of `_lock`, or one unlocked read or write of a shared field, in
the order of the code: `play` sets STARTING, then reads `_reconciled` and `_state_divergence`
without the lock, then sets RUNNING or STOPPED_SAFE; `emergency_stop` reads and persists the status
outside the lock; `_ensure_worker` checks, creates and starts a thread in three steps, and starts
whatever `_worker` is by then. `Crash` may happen between any two steps, also between the two
writes of start-up; `Close` is Ctrl+C. Memory is lost, `persisted` is not. `owed` and
`overtaken` are history variables: no step reads them.

## 3. What the runs show

| Run | Question | Bounds | States |
|---|---|---|---|
| `ledger_two_pairs` | Do the books balance, is every result and cost explained by a cycle, does cash come back once? Does the ledger implement `SharedBank`, where no pair pays for another? | two pairs, a bank of 4, 3 ids, 2 cycles, grants of 2 or 3, costs 0 or 1 | 61 thousand |
| `ledger_dust_risk` | Is dust used oldest first, does no unit appear or vanish, is each loss, open or closed, authorized? | one pair, 4 ids, 2 times, one authorization of 2 quantities | 299 thousand |
| `queue` | FIFO within a price, better prices first, no lost ground, no inherited priority, trades spent once, also when delivered again | 2 sides, 2 prices, 2 columns, 3 activations, 2 trades that sweep both prices, 2 times | 95 thousand |
| `pair_engine` | Do orders, queue and bank agree while the grid follows the hotline and cancels race fills? Is each change of reserved cash an ACK or the price of a fill? | rank 1 of both sides, both columns, 2 hotlines, lots of 2, 6 orders, 3 capital ids | 258 thousand |
| `passive_execution` | Does the ledger follow the fills, is each fill causal, are cancels kept, does a halt start no cycle? | 4 market events, 2 cancel requests, times 0 to 4, prints up to 3 | 943 thousand |
| `day_run` | One execution, of what was authorized, whose evidence agrees and is kept? | 1 campaign, 2 processes, 2 versions, 6 steps of the operator | 511 thousand |
| `replay_registry` | Do journal and reports tell one story, has EVALUATED its evidence, is there one recorded champion? | the three histories of `MCHistory`, 2 models, 2 commits, journals of at most 5, 8 and 17 events | 706 thousand |
| `operator_calls` | Can a recovering process run the bot before `reconcile()`? | 2 handlers and the closing thread, all calls, 2 workers | 635 thousand |
| `operator_locked` | Is the stored status current, is STOPPING left, does a running bot get a worker? | plays, stops and reconciliations of 2 handlers, crashes; no `emergency_stop` | 138 thousand |
| `passive_one_lot` | One lot at a time, as documented? **No** | as `passive_execution`, 1 cancel | counterexample |
| `replay_failure` | Are failure records never overwritten, as documented? **No** | as `replay_registry` | counterexample |
| `operator_stop` | Is a stop final, as documented? **No** | 2 handlers | counterexample |

Why the bounds are enough. Ledger: three ids on one bank allow two positions of one pair and one of
another, a consolidation, and a re-reservation after a settlement; a grant of 3 splits unevenly, so
that rounding and residues occur; the fourth id is the return made of two lots.
Queue: at most two own orders are active at a price, so a third activation is a
replacement or the other price; two trades allow a partial and a completing
fill. Pair engine: lots of 2 give partial fills, two hotlines give a move and a move back while a
cancel is under way, and a third capital id is the inventory a partial fill splits off. Simulator:
buy, sell and the next buy need two trades and two book events; a cancel is in flight
for one unit of time, so that everything can come before, at and after it, and a second request may
repeat it. Day run: two processes give every
interleaving of a claim with a claim or with a rejection, and six steps of the operator allow freezing, authorizing,
removing a lock and discarding a result before a second execution. Registry: a crash may follow each
write, and every journal leaves room for a repeated registration, run, evaluation or promotion after it.
Operator: the calls interact pairwise, and restarts are not bounded at all. Every bound is a named constant
(`MaxCapital`, `MaxCycle`, `MaxTime`, `MaxActivation`, `MaxWorkers`, `MaxOrder`, `MaxEvents`,
`MaxCancels`, `MaxDepth`, `MaxPrint`, `MaxRejections`, `MaxEdits`, `bound`) in a guard. Deadlock is
checked for the ledger, the queue and the operator. The others may stop: a tape ends, a grid runs
out of ids, a day run has been executed, and a registry's journal is full.

Symmetry is used over order and event ids, handler threads, processes and versions, in runs without
liveness.

### Fairness

The ledger, the queue, the pair engine and the simulator are called by replay loops and promise nothing by themselves;
a day run or a campaign may be killed for good at any step, and nobody is obliged to start it
again: they have safety only. In `OperatorService` a call that has begun goes on (`WF` of its steps, per thread):
it waits only for a lock held briefly, a local SQLite write, or a request with a timeout. Nobody is
obliged to make a call, to start the process, or to interrupt it, and a crash may come at any time.

### Disagreements between code and documents

Three, each with a run that finds it and an entry in `findings`:

* `passive_one_lot`: a book delivered between the fill that completes a sale and its notice places a
  buy, and the notice places another; the strategy document says exactly one lot.
* `replay_failure`: a campaign killed between writing a failure down and invalidating the model is
  run again, and its next failure overwrites the record; the M010 correction says failures are
  never overwritten.
* `operator_stop`: a play that was in its preflight undoes a stop that has returned. In TLC's trace the stop is
  issued just before the play begins, finishes during its preflight, and the play then sets RUNNING.

Six more are stated as properties with a configuration of their own, to be run by hand. Each ends
with a counterexample:

| Command | Property | What it shows |
|---|---|---|
| `tlc -config MCQueueEpoch.cfg MCCausalQueue` | `EpochStartsFresh` | a filled order leaves its barrier to the next epoch (M032_ADAPTIVE_MULTI_STABLE_ARCHITECTURE.md:47) |
| `tlc -config MCQueueCohort.cfg MCCausalQueue` | `CancelKeepsCohorts` | a cancel takes the public cohort before it away (M035_PARALLEL_PAIR_CAPITAL_MANAGER.md:30) |
| `tlc -config MCOperatorRestart.cfg MCOperatorService` | `ReconciliationIsNotForgotten` | a second restart forgets that a recovery is due (LOCAL_DASHBOARD.md:53-54) |
| `tlc -config MCDayRunRecord.cfg MCDayRun` | `RecordsAreAppendOnly` | two campaigns that finish together lose a record of CURRENT_STATE.md (day_run.py:1044) |
| `tlc -config MCOperatorEmergency.cfg MCOperatorService` | `StoreSettles` | `emergency_stop` persists, outside the lock, a status that a `play` has changed since (service.py:425): once it is over the store is still not current |
| `tlc -config MCOperatorWorkers.cfg MCOperatorService` | `OneWorker` | two plays that overlap in `_ensure_worker` leave two workers alive (service.py:447) |

The lost record is why `day_run` has one campaign: with two it takes
`OutcomeIsEvident` with it. The stale status is why `PersistedIsCurrent` is checked without `emergency_stop`.

Besides these, some facts are modelled and no property denies them: a model whose promotion was cut
short before its champion record is PROMOTED and no champion; a lock file survives the process that made it; the
surplus of a reservation over its order stays reserved; an evaluation repeated after a crash is recorded
twice; an exception that is not a
`BinanceConnectionError` leaves the bot in STARTING. Since two workers may run, `RunningGetsWorker` promises a running bot some
worker that was started, and no more.

## 4. What is proved

For every value of the constants that satisfies the named assumptions of the modules
(`LedgerAssumption`, `QueueAssumption`, `PairAssumption`, `DayRunAssumption`, `ServiceAssumption`, `PassiveAssumption`, `RegistryAssumption`: the
types of the constants, that the simulator's upper price is above its lower one, and that the ranks of a grid leave a price below
every hotline; `HistoryAssumption`: what a process
finds was left by this program), and for every length of a behaviour:

| Module | Theorems | Property |
|---|---|---|
| `GlobalCapitalLedgerProofs` | `TypeCorrect`, `MoneyIsConserved`, `ReconcileNeverRaises`, `PendingIsUntouchedCash`, `EveryHoldingIsMarked` | `TypeOK`, `Conservation`, `ReconcileHolds`, `PendingCapitalIsCash`, part of `BooksAreExplained` |
| the same, its accounts | `EveryLossIsAuthorized`, `BooksExplained`, `CashReturnsByOneWay`, `LedgerImplementsSharedBank`, `DustKeepsItsRules` | `LossesAuthorized`, `BooksAreExplained`, `CashReturnsOnce`, `ImplementsSharedBank`, `DustMovesByRule` |
| `CausalQueueProofs` | `TypeCorrect`, `OldestFirst`, `NoGroundIsLost`, `PriorityEarned`, `FillsInPriceTimeOrder`, `TradesSpentOnce` | all five of the run `queue` |
| `PairEngineProofs` | `TypeCorrect`, `FundedFills`, `OrdersAgree`, `GridFollows`, `InventoryBanked`, `CashFreed` | all six of the run `pair_engine` |
| `DayRunProofs` | `TypeCorrect`, `CampaignExecutedOnce`, `AuthorizedIsExecuted`, `StatusKept`, `EvidenceKeptForOneCampaign`, `EvidenceKeptWhenReadsAreAlone`, `OutcomeEvidentForOneCampaign`, `OutcomeEvidentWhenReadsAreAlone` | all five of the run `day_run` |
| `OperatorServiceProofs` | `TypeCorrect`, `RecoveryIsEnforced`, `StoreIsCurrent` | the invariants of `operator_calls` and `operator_locked` |
| `PassiveExecutionProofs` | `TypeCorrect`, `LedgerIsItsFills`, `CancelsTakeEffect`, `InventoryStranded`, `FillsSupported`, `HaltKept` | all six of the run `passive_execution` |
| `ReplayWorkflowProofs` | `TypeCorrect`, `JournalConsistent`, `EvaluationIsEvident`, `OneChampionAtATime`, `LeavesWhatItExpects`, `NothingIsExpected` | all four of the run `replay_registry` |

Three of them have a hypothesis. `StoreIsCurrent` is about processes in which nobody calls
`emergency_stop`, which persists a status it has read outside the lock. `OutcomeEvidentWhenReadsAreAlone` and `EvidenceKeptWhenReadsAreAlone`
are about behaviours in which no two processes are at once between reading `CURRENT_STATE.md` and replacing it
(`ReadsAlone`): the second would replace the first one's record, as `MCDayRunRecord` shows, and with two campaigns a record may be
lost while its campaign is verified again and come back before the claim.
`OutcomeEvidentForOneCampaign` and `EvidenceKeptForOneCampaign` need no such hypothesis, since two processes never execute one campaign
together (`Alone`, a part of the invariant). `StatusKept`, the half of `EvidenceIsKept` that is about the status, needs none
for any number of campaigns.

*Ledger, the books.* The inductive invariant `IInv` is `WellFormed /\ Conservation`. Conservation alone is not
inductive: that a cancel returns exactly what was reserved needs `PendingCapitalIsCash` (reserved
and cancel-pending positions are still USDT, quantity equal to cost), that a settlement divides by
the quantity it started from needs the positions' types and bounds, and that a partial settlement finds a mark needs
`HoldingsMarked`; these are parts of `WellFormed`. There is a step for each action and under it
one for each part it can disturb.

*Ledger, the accounts.* Most actions sell nothing, and one fact about them (`Unsold`: what has been sold
stays with its id and its pair, and ids that come or go have sold nothing) serves all of the following.
`LossInv` adds to `LossesAuthorized` that only a return has sold anything and that an authorization spent on a cycle is consumed;
without the first, a position could reach its last sale with an unexplained result behind it. `ProfitInv` says that the
realized result is that of the closed cycles and of the open partial sales, per set of pairs, so that
the step of one pair leaves the results of the others alone; `CostInv` says the same of the
costs. For the refinement, every action is shown to be of one pair: what the other pairs have committed and earned is
unchanged, and by `Conservation` the free balance moves by what the one pair commits or releases.
Consolidation and the use of dust move cost between identifiers of a pair (`TotalTransfer`). `CashReturnsOnce` needs
that the only new identifier is `NextId`, which nothing on the books has.

*Ledger, the dust.* `DustMovesByRule` needs `AssetInv`: inventory, returns and dust of a pair are in the asset the pair trades;
without it an older lot of the pair could be in another asset and be passed over. An older lot and all that stands before it stand before
the younger one, so nothing is left to take from the younger before the older is used up (`OlderIsUsedUp`). That
a dust return holds exactly what the lots give up is `ServedInOrder` again: the lots are served in the order of
creation time and id (`LotsInTurn`), and they hold what is asked for (`AllIsTaken`). For each other action, either no id
holds more or less of an asset, or one id does, by a fill (`HeldChange`), or a new id takes over what others give up (`HeldTransfer`).

*Queue.* The inductive invariant is types, `TimesOK` (a later activation number has no earlier time) and
`OldestFillsFirst`. `TimesOK` is what makes the code's sort by time and sequence the order of the numbers,
so that what stands before an order is its older orders with their barriers. The queue ahead never grows
because every order before one keeps or loses quantity and nothing joins them (`TotalSubset`, `TotalLeq`).
For priority: what stands before a younger or worse order contains what stands before the older or better one
together with that order, so a trade that reaches the former has spent the latter. For `TradeSpentOnce`, the
identifiers a trade passes are served in a linear order, each what those before it leave; `ServedInOrder`
says that together they get all of the quantity or all that they ask for; that only a trade of a new identifier
fills anything is `FilledByNew`.

*Pair engine.* None of the properties is inductive alone: that a fill is funded rests on the cancels of
orders and positions agreeing, which rests on nobody else working on the same position, which rests on what each position
holds. `IInv` states, of books of any origin (`Sound`), what the status of an order means for the queue and for the
position behind it (`OrderOK`, `Backed`), what the state of a position says it holds (`PositionOK`), and that
a capital id has one live order of a role (`Alone`). An entry and a return never work on one position at once, since one needs
cash and the other inventory (`SoleWorker`); so a step that changes one order and its position disturbs no other order
(`SoundStep`, `SoundAppend`). A trade changes several: `Sound` and the rest of the invariant hold after
each of its turns (`TurnsOK`), because an order whose turn has not come is still what it was before the trade, so what
was planned for it still fits. That the cash left behind a partial fill pays for what is left of the order is
`CostLeft`; that the cash of a position falls by the price of what was filled of the one order working on it, over all turns of a
trade, is `Paid`; that inventory stays the sum of the positions is `HoldsChange` and `HoldsAppend`. The
checks `Funded` of `consume_public_trade` are not used by any step: the invariant implies them but for the price of an unauthorized return, which is
what `FillsAreFunded` says.

*Day run.* `ExecutedOnce` bounds `starts`; what makes it true is that the lock file is held by whoever is
between taking and removing it (`HoldsLock`), that a claim finds the campaign unclaimed and an execution finds it under way
(`StatusOfStep`), and that every execution but the one the status tells of was discarded by hand
(`StartsAreMarked`). `AuthorizationIsOffered` remembers that what CURRENT_STATE.md authorizes while the lock is held
was offered; `PageIsRead` that the page written back was read, with the final status in it. The
outcome is evident by a second invariant on top of it, `EvidenceInv`: the reports of an execution that has
written them are there, and it finds no record of its campaign until it has appended one.

*Operator.* `RecoveryBlocksPlay` says nothing of plays in flight. `RecoveryInv` adds: in a process that must reconcile,
`_reconciled` is false and no thread at `divergence` or `decide` has passed; a process that is not
up has no call under way. A step per action shows it is kept; only `reconcile()` ends the
obligation. `StoreIsCurrent` rests on `StoreInv`: from start-up on the store has the status in memory, and no
thread is about to persist one it read earlier.

*Simulator.* A trade is matched by a loop over the orders. Its invariant, `Matching`, relates the print left,
the queues, the fills and the ledger after n orders to those before the first; it is shown to hold after the last order
by the least n at which the loop's recursion could break it. The inductive invariant of the steps adds three facts to the
three invariants the run checks. `ItemsOK`: what the heap holds refers to orders that exist. `PendingUnqueued`: an order that has
not arrived has no queue before it, without which a print that serves queues could not be accounted for. `InventoryIsOffered`:
some SELL offers *all* there is, or some BUY or its last notice comes; that *a* SELL works would not do, since
a fill of that SELL could then leave inventory behind. The agenda, the orders and the ledger are treated as
data, what scheduling, popping, adding and filling do to each stated once. The proof showed that the
model's case distinction for the status after a fill had overlapping cases; it is now the `if`/`elif` of the code.

*Registry.* An operation decides once and writes in several steps, so the properties of the journal are inductive only
together with what is still to be written: `Planned` says that the rest of `todo` may be written, one after the other,
up to any point. A status changes at most once, from the status it has, by the table or after the authorization that stands before it
(`StatusPlanned`); what is registered is new (`NewPlanned`); EVALUATED comes when the evidence is there
(`EvidencePlanned`); a champion leaves before its successor is promoted, and the successor is promoted before it is recorded
(`ChampionPlanned`); the reports come last (`ReportsPlanned`). One lemma (`WriteIsSound`) shows that a write keeps
all of this, one per operation that its list of writes begins with it; a kill drops the list, and the empty one is right.
`FlowKnows` is what `_run_one` relies on where it stands: its run registered, its replay on disk, its evaluation recorded.
`HistoryAssumption` is no restriction: what the program leaves satisfies it (`LeavesWhatItExpects`), and so does
an empty registry (`NothingIsExpected`).

*Arithmetic.* How a sum changes when one index changes, that a
pro-rata share lies between nothing and all, and what is served in turn, is in `LedgerArithmeticProofs`, on the recursive
function `Sigma`. Induction on the length of a sum is done by taking the smallest counterexample,
which the well-foundedness of the natural numbers provides.

Of the properties of the passing runs only liveness is model-checked and not proved. Out of the prover's reach altogether: liveness under fairness (`RunningGetsWorker`,
`StoppingIsTransient`) and `ENABLED`;
the library's induction theorems, which take an operator as a parameter (the inductions done here are
on numbers, by least counterexample); `RECURSIVE` operators, of which there are none.

## 5. What is not modelled, and the plan

Inside the modelled components: rounding at 28 digits (a pro-rata share is rounded
half-even to whole units), audit and event rows, time estimates of the queue, credentials, views and
the journal of the dashboard; the fees of the simulator and of the pair engine; the hotline history
and cycle attribution; what a day run validates and reports, line by line; the contents of the registry's reports.

Smaller deviations, which no property depends on. `NextBuy` takes the lot of the constants and not a
`quantity_override` (execution.py:305-306). `MarketD` keeps to uncrossed books, although models.py:126 rejects a crossed book
in a snapshot only. `CancelR` has no case for an unknown order (execution.py:553-554): the order of a request always exists.
`Starts` takes the lock for one model, while the campaign runs several under one lock (replay_workflow.py:188-204): in the model
another action may come between two models. `Computes` never finds a completed replay of other
content (replay_workflow.py:741-742), because a replay is a function of its inputs. A journal line or a file is written whole
or not at all: a kill inside `_append_jsonl` (model_registry.py:1218-1221) may leave a torn line, which is not modelled. Two reads that follow one another
in `_claim_execution` (status, inputs) are one step.

What the bounded runs do not reach. In `passive_execution` two orders do not share one print within `MaxEvents`; for that
case `LedgerFollowsFills` and `FillsAreCausal` rest on the theorems `LedgerIsItsFills` and `FillsSupported`. The ledger's
runs have one mark per asset, so how stale a mark is plays no part in them.

Not modelled at all, and most of the repository by lines: the earlier campaigns (`zonal_ping_pong`,
`triangular_pre_aged_queue`, `dynamic_hotline_321`, ... and the scripts beside them). Each is
one sequential pass over a recorded tape that ends in tables; what could go wrong in them is
arithmetic over data, which a bounded instance does not show, and the state they share with the present
system (slots, queues, dust, reservations) is modelled where it lives now. Statistics, machine
learning, file, network and SQL I/O, and the command line hold no state of their own.

Order of work, the most important behaviour first:

1. `GlobalCapitalLedger` with its arithmetic, runs and proofs - done, all of its properties proved.
2. `CausalQueue` - done, with its proofs.
3. `OperatorService` - done, with its proofs.
4. `SharedBank` and `LedgerRefinement` - done, with the proof of the refinement.
5. `PairEngine` - done, with its proofs.
6. `DayRun` - done, with its proofs.
7. `ModelRegistry` with `ReplayWorkflow` - done, with its proofs.
8. `PassiveExecution` - done, with its proofs.
9. The M035 scenario over two engines (waiting and dust returns), the dual-pair capture, the slot
   ledger of M032, the M007 topology and the clock of the simulation, as far as they carry
   properties worth a run.
