# Verification of finance-auto-trading

The repository is a single-account trading service: a strategy decides, an order
is written as a durable command, the command is dispatched to a broker (KIS, Toss,
Binance USD-M or an internal paper broker), and the executions come back into a
ledger of fills, positions and risk reservations. An operator watches and stops it
from a back office. This directory holds TLA+ models of the parts whose correctness
depends on interleaving, failure and order, the TLC runs that check them on small
instances, and TLAPS proofs of the main results for every instance.

All paths below are relative to `src/src/autotrader/`.

## Inventory

| Part | State | Operations | What is hard | What makes it correct |
|---|---|---|---|---|
| Trading controls (`apps/backoffice/commands.py`, `exposure.py`, `ledger.py`, `second_password.py`; `apps/trader/live_safety.py`; `trip_kill_switch`) | `ops_trading_control` rows, `backoffice_command`, approvals in Redis | DISARM, HALT, EMERGENCY; approve, CLEAR_HALT, ARM; automatic halts; takeover | two databases in one handler; locked and unlocked writers of the same rows; lost commit answers; crashes between ledger and change | a stop holds; starting spends one fresh approval; the ledger tells the truth |
| Dispatch (`persistence/mysql/dispatch_store.py`, `execution/dispatch/`, `execution/controls/`) | `exec_order_command`, broker link, lease, control | gates, claim, send, record, recover, commit | the broker call is inside an uncommitted transaction; the gates read without locks; `now` is read once per pass | one send per command; the row agrees with the broker; fencing |
| Runtime leases (`persistence/mysql/repositories/operations.py`) | `ops_scheduler_lease` | acquire, renew, take over, release | a pass that outlives its lease | tokens order the owners |
| Trading loop, settlement and protection (`apps/trader/loop.py`, `tick.py`, `composition.py`, `live_settlement.py`, `live_protection.py`) | the cursor (highest stored trade id); else none of its own | settle, protect, reconcile, guard, decide, submit | a crash between any two of its transactions; an exception that comes back in every pass; a history read by a time window; the venue moves between two readings | no fill of ours that the venue still shows is passed over; nothing is opened while something is unprotected; trouble ends in a thrown switch |
| Fill ledger (`persistence/mysql/repositories/fills.py`, `positions.py`) | fills, positions, lots, reservations, anchors | apply a fill | duplicates, conflicts, overfills, arrival out of order, crossing zero | quantities and reserved risk add up |
| Order lifecycle (`execution/orders/`, `broker_status_handler.py`, `terminal_release_store.py`) | order status and version, status watermark | apply a status, release | statuses out of order and after fills | terminal states stay; a release happens once |
| Execution watermarks (`execution_watermarks.py`) | contiguous sequence, gap rows, coverage | advance, checkpoint | overlapping gaps under a unique key | no gap is forgotten |
| Outbox and inbox (`outbox_dispatcher.py`, `persistence/redis/`) | messages, a Redis stream and its pending list, receipts | claim, publish, mark, read, claim pending, apply, acknowledge | a crash between any two; a claim that lapses under a working publisher | each message has one effect |
| Binance adapter (`integrations/brokers/binance_usdm/`) | order journal, stop journal | submit, recover, protect, move the stop, emergency close | answers that are late, wrong or missing; a deadline | no order twice; a recorded stop protects |
| KIS and Toss adapters (`integrations/brokers/kis/`, `toss/`) | dispatch records, recovery leases | submit, cancel, recover, resend | no id of ours at KIS, a window of ten minutes at Toss | one order per command; a recovery finds its own |
| Account readers (the three adapters, `live_readers.py`) | page cursor, two passes, a stored answer | read, compare, resume | the account changes while it is read | a complete answer misses nothing |
| Internal paper broker and position manager (`paper_submitter.py`, `paper_journal.py`, `internal_paper.py`; `position_management.py`) | `exec_paper_order`, links, executions | stage, void and stage, resolve, exit, add, move the stop | two connections with a commit each; bars that have not closed | receipts and executions stay together; the stop is never lost or widened |
| Risk sizing (`risk/v6.py`) | none | size an entry | rounding, the lower of two equities | what filled risks no more than the policy says |
| Back office commands (`account_commands.py`, `policy_commands.py`, `universe_commands.py`, `binding_commands.py`, `secret_commands.py`; `app.py`, `sessions.py`) | accounts, bindings, policies, snapshots, secrets, sessions, approvals | sign in, approve, the commands | facts read before the transaction that uses them; locks on rows that do not exist | one in force; history settled; an enabled account has a provider |
| Strategy (`strategies/david_v6/`, `apps/trader/market_data.py`, `shadow*.py`) | the watermark in memory, recorded decisions | read bars and tape, assemble, evaluate, record, send | the same bars read three times; readings built step by step | what is admitted is drawn; what is sent is on record |
| Trade tape (`integrations/market_data/binance_usdm.py`, `market_tape.py`) | prints and a checkpoint | poll, stream, store | two instances with a checkpoint in memory each | no hole |
| Research, configuration, logging, read models | - | offline replays, rendering | numeric | not modelled |

The parts meet in the database. The loop holds the lease, asks `is_armed`, and
writes and dispatches commands; dispatch reads the lease, the controls, the
incidents, the reconciliation differences and the UNKNOWN commands; settlement
matches trades to the links that dispatch wrote; the back office, the protection
guard, the reconciler and the position manager all write the controls.

## Modules

Each module has an `MC` module that instantiates it for TLC. The theorems are in eight
modules: `BackOfficeProofs` (on `TradingControls` and `BackOffice`), `DispatchProofs`,
`LedgerProofs` (`FillLedger`, `PaperTrade` and `Totals`), `TradingLoopProofs`
(`TradingLoop`, `Strategy` and `TradeTape`), `DeliveryProofs`, `CompletenessProofs`
(`ExecutionWatermark` and `AccountCapture`), `BinanceOrdersProofs` and
`CashOrdersProofs`. Where two modules share one, their variables and actions have names
of their own.

| Module | Part |
|---|---|
| `TradingControls` | the control rows and everybody who writes them |
| `Dispatch` | a durable command from its gates to its recorded outcome, under leases that runtimes take from each other |
| `FillLedger` | orders, the risk reserved for them, and what executions do to order, position, lots, lifecycle, reservation and anchors |
| `TradingLoop` | the live pass: settle, protect, reconcile, guard, decide, dispatch, against a venue that trades meanwhile |
| `EventLog`, `Delivery` | what outbox, stream and inbox promise together, and the pipeline that implements it |
| `ExecutionWatermark` | the watermark of one partition with its gap rows, and the release that believes it |
| `BinanceOrders` | one Binance position: entry, first stop, moved stop, emergency close |
| `AccountCapture` | every paged reader of the three brokers as one reader with parameters |
| `CashOrders` | writing and recovering cash orders at KIS and at Toss |
| `BackOffice` | sign-in, approvals and the commands on accounts, policies, universe and secrets |
| `PaperTrade` | one trade on the paper broker with its sizing, its stop and its manager |
| `Totals` | what rows add up to, for the two ledgers |
| `Signals`, `TradeTape`, `Strategy` | the strategy's readings as operators; the stored tape and its writers; the evaluation that uses both |

`Strategy` composes `Signals` and `TradeTape`; `Delivery` instantiates `EventLog`. The
other modules meet at one step each, named in both: `FillLedger!Link` is what
`Dispatch` records, the gates in `TradingLoop` and `PaperTrade` are `Dispatch`'s two
gates reduced to what the loop can see, `BinanceOrders` is the venue side of a stop
that `TradingLoop` only creates.

### TradingControls

| Variable | Code |
|---|---|
| `rows`, `armed`, `level` | rows, `armed` and `kill_switch_level` of `OpsTradingControl`, per scope |
| `policy` | the active `RiskPolicyVersion` |
| `approvals`, `issued` | the Redis keys of `ApprovalStore`, and the identities ever used |
| `command`, `ledger` | a back office request in memory, and its `BackofficeCommandRow.status` |
| `pending` | an unlocked transaction of the trader between its SELECT and its commit |
| `stopped`, `committed` | history: an operator's stop with no ARM since; commands whose change is durable |

A transaction that locks all rows (`SELECT ... FOR UPDATE`) is one action:
`ApplySafety`, `ApplyArm`, `ApplyClearHalt`, `TripKillSwitch`, `TakeOver`. One that
does not (`_block_new_exposure`, `_raise_to`) is two, `ReadControls` and
`WriteControls`: the session runs at READ COMMITTED, no row has a version check, and
the flush writes only the columns the code changed. The ledger's `open` and `fail`
are transactions of their own, so `OpenSafety`, `OpenExposure` and `Fail` are
actions. `Committed` may leave the caller believing that it failed. An approval's
binding is the record of session, action and facts: a digest equal only for equal
inputs.

### Dispatch

| Variable | Code |
|---|---|
| `clock`, `moment` | the time, and the `now` each runtime read when its pass began |
| `lease`, `control` | the scheduler lease row and the trading control, with owner, token and expiry |
| `evidence` | whether open BLOCKING incidents and differences exist |
| `account` | `ExecutionAccount.fencing_token`, fixed when it is built |
| `row`, `link` | `exec_order_command` and the broker order link, as committed |
| `sess` | the dispatch transaction a runtime is in: how far, and what it has written |
| `held`, `sends`, `lost` | the broker: what it carried out, how often it was called; transactions lost after the call |

One action per statement of a dispatch: `GateDispatch` (`_may_dispatch`), `GateSubmit`
(`_may_submit`), `Claim`, `Send`, `Record`, `Commit`, and for the other path
`Blocked`, `Recover`, `Ask`. `Rollback` is possible at each. The broker is external:
it may carry a command out or not, answer, or fail either way. Several control rows
are folded into one, because a gate passes only if every row allows it. A command is
worked on by the runtime that created it and in one transaction at a time, as in
`composition.py`.

### FillLedger

| Variable | Code |
|---|---|
| `order` | `exec_order` with its broker link's status, and whether a terminal order event exists |
| `reservation` | the amounts and status of `risk_budget_reservation` |
| `anchor` | `position_risk_amount` and `remaining_reservation_amount` of the GLOBAL and account anchors |
| `fill` | `exec_fill`, keyed as its unique constraint is |
| `position`, `blocking`, `life`, `lot` | `exec_position`, the open `exec_position_lifecycle`, the remaining quantity of each `exec_position_lot` |
| `incidents` | the BLOCKING `ops_incident` rows about orders |

| Action | Code |
|---|---|
| `Approve` | `persist_approval` and the order that follows it in the same transaction |
| `Reduce` | an exit or protective order, with a reservation of nothing |
| `Adopt` | `adopt_open_order` |
| `Link` | the acceptance that `Dispatch` models; here only the link it writes |
| `ApplyStatus` | `MySqlBrokerStatusStore._apply_one` and the ambiguity path, unsequenced |
| `ApplyFill`, `RepeatFill` | `apply_event_once`, for an execution not seen and seen before |
| `Release` | `release_if_complete` |

Each of these holds the dispatch guard row or the anchors to its commit, so each is
one action. An execution's identity is a number, and numbers are ordered as
`executed_at` is, because lots are closed by that order while executions arrive in any.
The completeness proof of a release is an answer that may turn out wrong: that is what
the late-fill branch in `fills.py` is for. `link = "ACTIVE"` is kept as the code writes
it: it is not an `OrderStatus`, so `ApplyStatus` and `Release` are possible only for
orders whose link parses, which are the adopted ones and those a status moved.

`ReservationBalances`, `AnchorsAddUp` and `LifecycleFollowsPosition` are also why the
CHECK constraints `ck_risk_budget_reservation_accounting`, the non-negativity of the
anchors and `ck_exec_position_negative_blocking` never abort a fill.

### TradingLoop

`trades` and `open` are the venue (trades are numbered by their id), `horizon` says up to
which trade they are older than the seven days a capture goes back, `row`, `applied`,
`level`, `incident` and `diffs` the database, `window`, `owed`, `target`, `answer` and
`seen` the memory of the pass, `pc` where it is. One action per transaction or venue
call: `FetchTrades`, `ApplyTrade`, `Protect`, `Settled` (`live_settlement.py`,
`create_protective_order`), `ReadInternal`, `Compare` (`MySqlReconciler`), `Guard`,
`Decline`, `Submit`, `Dispatch`, `Send`, `Record`. An exception leaves `run_forever`
(`Raise`), a crash may come anywhere, and `Restart` keeps only the database. A trade is
one unit; a commission is in the settlement asset or in another, which `_charges`
refuses. The stop's intent is named by position and reason, so it can be created once.

Settlement does not ask the venue from its cursor on: `LiveTrades.after` drops the id it
is given and returns the trades of a capture, the last seven days (`Recent`), and
`settle` takes those above the cursor. A capture whose history is as long as one answer
(1000 rows, `HistoryLimit`) is refused by raising (`Truncated`), in settlement and in
reconciliation; of the lists it measures, only the trades are counted here. `Age` lets
trades grow too old at any moment, the oldest first, so an outage of any length is in
the model.

### EventLog and Delivery

`EventLog` has two variables: the events written and the effects in order; each written
event not refused by its handler takes effect once. `Delivery` has the outbox rows with
claim owner and expiry, the publishers' batches, the stream, the group's pending list,
the consumers' cursors, the inbox, the effects and the dead letters. Each statement that
commits or reaches Redis is an action: `Claim`, `Check`, `Publish`, `Mark`; `ReadNew`,
`ClaimPending`, `ClaimNothing`; `HandleNew`, `HandleAgain`, `HandleConflict`,
`HandleRaises`; `Acknowledge`. A dead letter is inserted once for each conflicting
entry: handled again before it was acknowledged, the entry meets the unique key and
raises, and stays pending. The mapping sends `written` to the outbox's rows and
`log` to `log`.

### ExecutionWatermark

The watermark row (`exists`, `contiguous`, `hasGap`, `coverage`) and the gap rows of one
partition. `ApplyFill` has the branches of `advance_stream_sequence`: `First`,
`Start`, `Follow` and `Jump`, `Checkpoint` is `record_closed_interval_checkpoint`,
`Release` the question `terminal_release_store.py` asks. `queried` is history: what a
complete query really covered.

### BinanceOrders

The two journals as the session sees them and as last committed (`saved`), the venue's
side (`executed`, `atVenue`, `open`), the deadline, and one call at a time with the
await it is in. `PostOrder`, `QueryOrder`, `PostStop`, `FindStop`, `Withdraw` are the
answers of the venue: any, for anything it did. `EmergencyClose` and `Safety` are
`_fail_safe`. `Crash` returns to `saved`.

### AccountCapture

Fifteen readers are records of one reader: how it asks for the next page, which
announcements it follows or stops at, what it refuses, whether it reads once or twice.
The provider changes rows (`Change`) while pages are read; a page may be repeated,
broken or one too many. A row is an order or, in `Figures`, an amount (cash, an orderable
or sellable quantity). Where orders are asked for by their state, an order opens, closes
and goes and never is again what it was (`OneWay`). Anything else may return to an
earlier value. Two passes are compared, a deadline may pass, and the Toss US reader
resumes from its stored first pass. `left` and `back` are history: what changed after the
first pass had read it, and what has changed since that pass ended.

### CashOrders

KIS claims a dispatch record, sends, and after an unclear outcome looks for the order
among the day's orders by its terms. Toss takes a recovery lease and sends again under
the same client id while Toss remembers it. `attempted`, `rec` are rows; `call` what a
task is doing; `wire` the requests that may still arrive; `book` the provider, with
orders placed by hand; `told` what callers were answered; `target` the order a cancel
names. That is the order its submission was acknowledged as, or the one a recovery took
for it, which may be a stranger's. A KIS recovery whose own request stays unclear goes on
to the day's orders in the same call. The clock is in units of which `Window` is the ten
minutes, and it is one: the provider stamps its orders with the clock the writers read.

### BackOffice

A request reads its facts, opens its ledger entry, spends its approval, then reads and
writes in a transaction at READ COMMITTED: rows it locks are waited for, rows it only
read may change before its commit, and a unique key may refuse it. `store` holds the
accounts, provider and policy bindings, policy versions, universe snapshots and secrets;
`logins`, `sessions` and `granted` are Redis; `req` is each request in memory, `entries`
its ledger row, `applied` what its committed change replaced (history), `spentBy` who
redeemed a login or an approval (history). `Menus` are the sets of commands given
together, one for each group that shares rows. Approvals here add the replayed login and
the session that ends.

### PaperTrade

`path` is the market's price moment by moment; bars are read off it, the forming one
included where the code does. One trade: `Enter` sizes it (`evaluate_v6_risk` in
integers), `Stage`, `Replace` and `LinkOrder` are the two commits of a dispatched command,
`Settle` writes receipts and executions, `Protect` puts the stop behind a filled entry,
`Reconcile` compares, `Guard` checks protection, then the manager closes, adds or moves
the stop (`Close`, `AddToPosition`, `BreakEven`, `Watch`, `Mark`). Dispatch's gates
accept or refuse freely. A market order's price net of slippage may come to nothing or
less: such a fill breaks `ck_exec_paper_order_fill` and the pass raises (`Unpayable`).
There is one trade: a second entry on a position that is still held is outside it. The
loss `RiskWithinBudget` bounds is the one at the recorded stop, not past a gap.

### Signals, TradeTape and Strategy

`Signals` has no state: swings, divergence, drawing, exhaustion, order flow, profile,
zones, regime, session and calendar over small integer bars and prints. `TradeTape` is
the table, its checkpoint and the instances that fill it. `Strategy` takes a context for
a new bar, asks whether trading is armed or a position is managed, assembles, evaluates,
records and sends, or ends with its feed (`ContextFor`, `NotArmed`, `Managed`,
`Assemble`, `Evaluate`, `Invalid`, `SubmitOrder`, `Refused`, `FeedEnds`); `stage` is where
the pass is, and `shadow` chooses the shadow runner or the trader. Bars may lag one
behind, and a death (`ProcessDies`, then `StartsAgain`) forgets the watermark. A bar is
what `CompletedOhlcvBar` accepts: its high is at least its low.

## Runs

| Run | Checks | Instance | States |
|---|---|---|---|
| `Controls` | `StopHolds`, `LedgerTellsTheTruth`, `ApprovalBuysOneChange`, `StartingNeedsApproval` | 2 scopes, 2 commands, 1 approval, 2 policies, 1 unlocked writer | 3,616,288 |
| `Dispatching` | `OneSendUnlessLost`, `RowMatchesBroker`, `FencedForGood` | 2 runtimes, 1 opening and 1 closing command, tokens up to 3, 2 sends each | 1,692,624 |
| `Fills` | `PositionAddsUp`, `LifecycleFollowsPosition`, `OverfillIsReported`, `RiskAddsUp`, `LimitHolds` | 1 account, 2 orders, 3 executions, quantities 1 and 2, risk 2 under a limit of 3 | 440,291 |
| `Looping` | `NoRecentTradeLost`, `NoEntryWhileUnprotected`, `TroubleIsStopped`, `SettlementCompletes` | 2 entries, 1 hand trade, 1 trade that grows too old, a history of 3, 1 crash, 1 cleared halt, 2 assets | 289,570 |
| `Delivering` | `AcknowledgedIsCommitted`, `ImplementsLog` | 2 events, one refused, 2 publishers, 2 consumers, 1 fault | 80,372 |
| `Watermark` | `NoGapMissed`, `RangesStayUnique` | 5 sequence numbers, times 0 to 2 | 35,325 |
| `Binance` | `OncePerLife`, `RecordedStopProtects`, `EmergencyLeavesNothing` | 2 orders, 2 stops, 2 posts, 1 crash | 743,872 |
| `Capturing` | `NothingMissed`, `StableWasTrue` | 15 readers, 3 rows, one an amount, 3 pages, 3 changes, 1 restart | 757,220 |
| `Cash` | `NeverTwice`, `AnswerIsTrue`, `AdoptsItsOwn` | 2 orders, 2 tasks, 3 calls, 1 hand order, 1 death | 1,572,335 |
| `BackOffice` | `LedgerTellsTruth`, `OneInForce`, `EnabledIsBound`, `HistoryIsSettled` | 2 requests, 2 approvals, 2 accounts, 3 policies, 3 dates, 3 secrets, 1 fault | 976,130 |
| `Paper` | `LedgerIsTheJournal`, `StopNeverLost`, `StopOnlyTightens`, `RiskWithinBudget` | 3 prices, 3 bars of 2 moments, 2 equities | 655,316 |
| `Strategy` | `QualifiedSetupIsDrawn`, `SentIsRecorded`, `NoHoles`, `ReadingsMeetTheirDefinition` | up to 5 bars of 4 shapes, 2 writers of the tape, 2 lives, 2 contexts | 78,853 |

What they show.

- Controls: after DISARM, HALT or EMERGENCY `is_armed` stays false through every
  automatic writer until an approved ARM; SUCCEEDED means durable even when the answer
  to a commit is lost; arming and un-halting each spend one approval given against the
  state they change.
- Dispatching: a command is sent again only after a transaction was lost behind its
  call; the durable row never contradicts the broker; an overtaken token never reaches
  it.
- Fills: each execution counts once in order, position and lots; reservations and
  anchors stay in balance; the hard limit holds until an incident says why not.
- Looping: the cursor passes over no trade of a linked order that a capture still shows
  (older ones it does pass: see Findings), and drift tells of those; no entry is sent
  while the ledger is unprotected; a missing stop and drift end in a thrown switch and a
  restarted loop gets past settlement, except while a commission in another asset or a
  truncated history stands in a capture.
- Delivering: the pipeline implements `EventLog`, liveness included.
- Watermark: a partition that reports no gap misses no number, and no shrinking gap row
  meets another's unique key.
- Binance: within one life no post is carried out twice; a stop recorded ACTIVE works
  at the venue; EMERGENCY_CLOSED means flat and halted.
- Capturing: a complete answer of a careful reader misses no row that was there all the
  while; when two passes agree every row was true between them, save a row that left what
  the first pass read and came back to it before the second, which no order does that is
  asked for by its state. `Careful` leaves out the
  readers that stop at an announcement of more (see Findings).
- Cash: one order per command at the provider; answers are true, and the order that an
  acknowledged cancel names is closed (not always the command's own: see Findings); a
  recovery takes a
  stranger's order only when its own was not there to be seen.
- BackOffice: the ledger says what was committed; one list and one secret in force; the
  list of a past day never changes; an enabled account has a provider.
- Paper: receipts and executions stay together; a stop once accepted is never lost or
  moved away; what filled risks no more than NORMAL's share of the lower equity.
- Strategy: what the engine admits is drawn with its levels in order; what was sent is
  on record; the tape has no hole; chains, markers, value areas and zones are what their
  definitions say.

### Bounds, and why they are enough

`MaxTime`, `MaxToken`, `MaxSends`, `MaxPosts`, `MaxCalls`, `MaxFaults`, `MaxCrashes`,
`MaxChanges`, `MaxRestarts`, `MaxManual`, `MaxClears`, `MaxSequence`, `MaxMoment`,
`MaxLives`, `MaxContexts`, `MaxAged`, `HistoryLimit` and `PageLimit` bound what the code does not, or bounds higher.

- Two runtimes and three tokens give a takeover and a takeover back; two sends a
  repetition. Two commands give every race between two operators, two scopes a row that
  is missing while `is_armed` asks all rows. Two policies give an approval that went
  stale.
- Two orders in opposite directions with quantities 1 and 2 give a partial fill, a
  complete one, an overfill and a crossing of zero; three executions a purchase, a
  second one that was executed earlier, and a sale over both. A risk of 2 under a limit
  of 3 admits one order and refuses a second. One account: the budget shared by several
  is in the proof of `LimitHolds`, which holds for any number.
- Two entries give a second trade on a position row whose stop's name is taken; one
  crash falls between any two transactions, and every exception restarts the loop too. One
  trade that grows too old falls before, at and after each step of its settlement; three
  trades in a capture are refused and two are not, so a refusal comes and, with the first
  trade gone, ends.
- Two publishers give a lapsed claim under a working one; two consumers a recovery of
  the other's entry; a refused event shows that it holds up no other.
- Five numbers are the fewest with a gap inside a gap, one beside it and a late first.
- Three rows on three pages of one give a change before, at and behind the cursor; three
  changes a row that leaves and comes back while another changes.
- `Deadlines` 1 and 3 around a `Window` of 2 give a command that ends before Toss
  forgets and one that ends after; `NeverTwice` claims the first case.
- Two requests give each race on the tables; `Menus` keeps apart commands that share no
  row, so no race is lost by it.
- Three bars are the entry's, the one after and one more in which a moved stop triggers;
  passes begin on the boundary and inside a bar.
- Bars are bounded by what a divergence, an exhaustion chain of two and a drawing need
  after one bar of warm-up.

`CHECK_DEADLOCK FALSE` appears where an instance runs out of identities, calls or time;
`Dispatching`, `Looping` and `Paper` check it.

### Fairness

`TradingLoop`: weak fairness of the process's own steps and of its restart. `run_forever`
starts pass after pass without a condition and the container is restarted when it ends.
Nothing is assumed of the venue, the operator or the strategy: crashes are bounded only
as causes from outside, while what raises may raise for ever: `Stuck` is what the
liveness properties except, a trade in the capture that cannot be recorded or a capture
that is refused.

`Delivery`: weak fairness of publishing, handling and acknowledging and of the expiry of
a claim (a minute passes); strong fairness of reading new entries and of claiming
pending ones, because the calls take turns and each is enabled again and again while the
other works. Whoever owns the publisher and the consumers has to call them; only tests
do at this commit, so the liveness in `ImplementsLog` is a statement about the pipeline
and not about the deployed program.

The other modules state safety only. Nothing under `src/` calls
`DispatchService.recover`, `release_if_complete` or the closing of an abandoned ledger
entry, so no progress that depends on them is promised.

## Findings

Where the code and what the repository says of it disagree. The definitions below are in
the modules and are violated; add the name to the run's `.cfg` as INVARIANT or PROPERTY
to get the counterexample.

| Definition (run) | Code | What it contradicts |
|---|---|---|
| `LoweringNeedsApproval` (Controls) | `_apply_to` (`commands.py:217`) writes the action's level whatever the row holds: HALT over EMERGENCY lowers it with a session alone | `docs/design/backoffice.md:307` lists "lowering kill-switch severity" among what needs the second password |
| `RaisesOnlyUpward` (Controls) | `_raise_to` (`live_safety.py:63`) and `_block_new_exposure` read without a lock and write at the commit: an EMERGENCY committed between is overwritten | `live_safety.py:64` "Only ever upward. A level already stronger stays." |
| `ClearingDoesNotStart` (Controls) | automatic halts leave `armed` true, so one CLEAR_HALT makes `is_armed` true | `exposure.py:9-10` "One click that both undoes an emergency and starts trading again is one click too few for either." |
| `SentIsNotForgotten` (Dispatching) | the marker is an UPDATE in the transaction that waits for the broker, and is rolled back with it | `dispatch_store.py:3-5` such a crash "can never be mistaken for 'never sent'" |
| `OneSender` (Dispatching) | the gates compare the lease with the `now` of the pass's beginning | `authorization.py:32` "Fail closed from one locked MySQL state snapshot before broker I/O." |
| `EvidenceIsSerialized` (Dispatching) | the dispatch transaction never takes `lock_global_dispatch_guard` | `operations.py:20` "Serialize new blocking evidence with dispatch authorization attempts." |
| `ReducingPassesTheGates` (Dispatching) | the second gate refuses every closing SUBMIT, and a CANCEL whenever it would refuse a new exposure | `dispatch_store.py:165-166` "refusing to reduce exposure is not a safe default" |
| `StopReachesTheBroker` (Looping) | for that reason a filled entry's stop is created and refused for ever | `tests/acceptance/test_trading_loop.py:425` "And it reached the broker, so it is resting rather than pending" |
| `NoLinkedTradeLost` (Looping) | `LiveTrades.after` (`binance_live.py:219`) deletes the id and returns a capture of seven days (`binance_usdm/account.py:15`, `:222`): after a longer outage a trade is in no answer, and a newer one moves the cursor past it | `binance_live.py:209` "resuming from one cannot skip a fill that arrived late, which a time window can" |
| `EqualPassesWereTrue` (Capturing) | the readers compare two passes (`kis/account_snapshot.py:101`, `toss/account_snapshot.py:203`); an amount, or a position that is asked for by itself, may leave what the first read and come back before the second | `kis/account_snapshot.py:30` "Raised when a complete stable KIS cash-account projection is unavailable." |
| `ReleasedOnFreshEvidence` (Watermark) | `advance_stream_sequence` (`execution_watermarks.py:163`) recomputes `has_gap` from its rows and moves `covered_through_at`, keeping an older checkpoint's `pagination_complete` | `terminal_release_store.py:43` "Releases terminal residual reservation only on fresh scoped evidence." |
| `ChangesWhatWasShown` (BackOffice) | the facts an approval is bound to are read before the transaction that writes (`account_commands.py:261`, `universe_commands.py:307`) | an approval is bound to what the operator was shown |
| `DisagreementIsADefect` (Paper) | an unfilled entry and a replaced stop leave a link of a working order behind; the difference blocks every later pass | `composition.py:239-247` "a disagreement between them is a defect in one of those paths" |
| `ClosingOrdersOnlyClose` (Paper) | an exit leaves the stop staged, and both may fill | "Place an order that only ever closes" |
| `ResolvedBarHasClosed` (Paper) | `bar_at` asks for the bar a frame after the signal and not whether it has closed | "The bar that resolves this command, once it has closed" |
| `MoveNeverCloses` (Binance) | a move confirmed after the deadline ends in the emergency close | `algo_orders.py`, `move_stop`: "Nothing in here fail-safes" |
| `NeverPostedAgain` (Binance) | `build_ports` (`binance_live.py:288`) gives the journal a session nobody commits, so PREPARED is lost with the process and the order is posted again | `orders.py`: "must never be blindly submitted again" |
| `EveryEvaluationIsWritten` (Strategy) | `BinanceRiskContexts` sets the target to the entry (`risk_context.py:102`), which `V6Decision` refuses, so a tradeable evaluation raises before it is recorded | `composition.py:385` "Every evaluation is written, tradeable or not." |

Seen while modelling, and contradicting no sentence of the repository: a conflicting
inbox entry whose dead letter was committed and not acknowledged raises on the unique key
(`models/events.py:86`) in every later recovery and stays pending; a KIS cancel of the order a recovery took for
the command's (`cash_writer.py:130`, `:207`) is acknowledged while the command's own late
order stays open, when the one taken was a stranger's (`NothingLeftOpen` in `CashOrders`
says otherwise and is violated; no document promises it); a trade id used as
`source_sequence` (`binance_usdm/fills.py:90`) leaves a gap open for ever; `tr_cont` "F"
ends two KIS readers early (`kis/adapter.py:528`, `:607`, `domestic_cash.py:256`), which
is why they are not `Careful`; a KIS record left PREPARED by a crash is never recovered;
two instances that start on a tape never read before may leave a hole; two first policy
bindings of different currency are both active (`policy_binding.py:126`);
`_create_add_order` raises after the stop has moved; the watermark of evaluated bars is
in memory, so a restart may decide a bar again (`OneOrderPerBar`).

## Proofs

The proofs hold for every value of the constants that satisfies the modules' ASSUMEs;
TLC evaluates those on every run. Each inductive invariant was checked by TLC on the
instance of its module's run before it was proved. A `Proofs` module states its
invariants first, then what the operators and the actions come to, then that each action
keeps each invariant, then the theorems.

| Theorem | Argument |
|---|---|
| *TradingControls*: `TypeCorrect` | inductive as it stands |
| `StopHoldsAlways` | `StopInv`: while stopped, some row is disarmed. `StopHolds` speaks of `is_armed`, which the level can also make false; the row that stays disarmed is what no writer but ARM undoes |
| `LedgerTellsTheTruthAlways` | `LedgerInv` adds that a command being applied is still IN_PROGRESS and an idle one is absent, so the commit finds the entry it expects |
| `ApprovalBuysOneChangeAlways` | `ApprovalInv`: an approval is live only once issued, commands name issued ones, and the approval of a committed change is gone for good, since identities are not reused |
| `StartingNeedsApprovalAlways` | an action property: every other action keeps each row's armed flag and level or only lowers exposure; the two that do not spend an approval bound to the current facts |
| *BackOffice*: `BackOfficeConsistentAlways`, `LedgerTellsTruthAlways`, `OneInForceAlways`, `EnabledIsBoundAlways` | `BackOfficeInv`: the tables are consistent, and each request is where its ledger row and its change say it is (`Sound`). A commit only advances the tables (`Advances`): no account loses its provider and no list that was once in force becomes one that was not, so what another request read before its transaction still stands when it writes. Two overlapping activations: a list that came into force since the read is refused by the unique key, so what is in force was read and is superseded |
| `HistoryIsSettledAlways` | an action property: only an activation writes lists, and it writes none before the one in force |
| `SpentOnceAlways` | `SpendInv`: what was not spent let nobody through, and what was spent is not given again, because Redis gives and deletes in one step |
| *Dispatch*: `TypeCorrect` | inductive, with lemmas on what the record operators return |
| `FencedForGoodAlways` | `TokenInv`: tokens of rows, accounts and started transactions never exceed the lease's |
| `OneSendUnlessLostAlways`, `RowMatchesBrokerAlways`, `MarkerHasOutcomeAlways` | `OutcomeInv` relates each open transaction's private copy to its durable row, the broker and the counters at each program counter, and says that two open transactions work on different commands |
| `AcceptedIsFinalAlways` | an action property, from `OutcomeInv`: a commit over an accepted row writes what was there |
| *FillLedger*: `RowsTypedAlways` | inductive; it carries the lemma `Spending`: a fill takes no more from a reservation than it holds |
| `ReservationBalancesAlways` | per reservation (`Balanced`), from `Spending` |
| `LifecycleFollowsPositionAlways` | inductive; only a fill touches the account |
| `OverfillIsReportedAlways` | inductive, because UNKNOWN leads only to UNKNOWN and a fill never lowers the total |
| `LimitHoldsAlways` | in a ledger with no adoption and no reported fill (`Clean`), a fill moves exactly what it takes from reserved to position risk, and an approval was checked; a clean ledger was clean before |
| *FillLedger*: `TypeCorrect`, `QuantitiesAddUpAlways` | `Kept`: what the sums are over is finite, an execution is of a placed order, an open lot of an execution. Each step leaves a sum alone or adds the one term it changes (`TotalChanges`, `TotalPadded`) |
| `LotsAreThePositionAlways` | a sale closes lots by `executed_at` while executions come in any order. Up to any execution it leaves the larger of zero and what was held before less the quantity (`ClosedBefore`, by induction on the execution's number), and the position bounds the quantity, so what it leaves is the position less the sale. With the purchases: `PositionAddsUpAlways` |
| `AnchorsAddUpAlways`, `RiskAddsUpAlways` | per anchor, the sum over the orders under it moves with the one reservation a step changes (`SumMoves`); position risk is the consumed sum until a fill is reported and at least that after, which is what keeps the anchors from going below zero |
| *PaperTrade*: `LedgerIsTheJournalAlways` | `PaperInv`; a receipt and its execution are written by one commit, and a raise rolls back both |
| `StopNeverLostAlways` | `PaperInv`: nothing but the entry is staged before it is filled, and it is staged once (`EntryComesFirst`, `OneEntry`); a row says what its order said (`RowsSay`); a stop ever staged left one that is not void (`StopStands`), because `Replace` voids only what it stages again. `StoppedOut`: a filled stop closes all of the one entry, so nothing is held behind it |
| `StopOnlyTightensAlways` | an action property, from `RowsSay`: an order's trigger and a staged trigger only follow the market |
| `RiskWithinBudgetAlways` | `WithinBudget`: the quantity is a quotient rounded down, and what it costs at the planned distance is within the budget; a limit fills no worse than planned, so at the recorded stop no more is lost |
| *TradingLoop*: `TypeCorrect` | inductive |
| `NoRecentTradeLostAlways` | `SettlementInv`, of the trades a capture still shows (`Due`): below a stored trade every linked one is stored (`StoredInOrder`); the window lies above what is stored, and below a trade in it every linked one is stored or in it (`WindowInOrder`); an order with no row is unknown to the venue, and until its answer is recorded settlement has passed none of its trades (`SentByItsPass`). The cursor is the highest stored id, so only applying oldest first keeps the rest above it; the horizon only moves on, so what is due grows less |
| `NoEntryWhileUnprotectedAlways` | `GuardedUntilSent`: from the protection check to the broker call of the same pass nothing is settled and no row but the entry's changes, so what the check saw still holds; a stop does not get as far as the call |
| *TradeTape*: `NoHolesAlways` | its hypothesis is the proviso of the property: the tape had been read once before these instances started. `TapeInv`: what is stored are the ids up to the checkpoint, nobody knows more than it, and what an instance is storing begins right after what it knows, so a page that overlaps another's leaves no hole whichever commits first |
| *Strategy*: `SentIsRecordedAlways`, `OneDecisionPerBarAlways` | `EvaluationInv`: of each bar of a life there is one decision, none of a later life or a later bar and none of the bar being evaluated; a tradeable decision is on record from the moment it is to be sent |
| `QualifiedSetupIsDrawnAlways` | what is assembled is a sequence of bars whatever the page and the dropping leave of it (`ReadingsAreBars`); the swings stand in it in order (`AscendingOrder`, by rank). A regular divergence has its second extreme beyond its first, and the first bar's other extreme is no nearer than that, so the drawing's anchors differ the right way (`RegularIsDrawn`) and its levels lie between them (`LevelsInOrder`) |
| `ReadingsMeetTheirDefinitionAlways` | each fold is shown to be a run (`FoldExists`, `FoldRuns`): a value for every prefix, the next one step further. The chain then is the longest drying run at the end (`ChainRuns`, `ChainIsTheLastRun`). The ranking of events is total, so the marked are the biggest (`BiggestAreMarked`). The value area stays a run of levels around the busiest and each step adds a level until it holds seventy percent or all (`AreaRuns`, `AreaHoldsTheValue`). A price's bin never falls as the price rises (`BinsInOrder`), so zones, which are of different bins, are apart (`ZonesAreApart`). `TapePrinted`: what is stored, known and read of the tape was printed, so the prints of a context have prices and quantities |
| *Delivery*: `TypeCorrect`, `AcknowledgedIsCommittedAlways` | `AckIsCommitted`: a consumer about to acknowledge has its entry's receipt in the inbox, which never shrinks |
| `OneEffectAlways`, `PublishedIsInStreamAlways` | `Provenance`: what publishers, stream and inbox hold was written to the outbox, and the effects are those of the receipts; so a handler without a receipt finds no effect. `MarkedIsSent`: a publisher about to mark an event has put it in the stream |
| `StepsImplementLog` | from `Provenance`: each step of the pipeline writes an event, has the effect of a written event that had none, or leaves the two variables of `EventLog` alone |
| *ExecutionWatermark*: `TypeCorrect`, `NoGapMissedAlways`, `RangesStayUniqueAlways` | `RowSays` (an open gap is reported, and without a row there is nothing), `Frontier` (the number after the contiguous ones is not stored), `GapsEnd` (the number above a gap is stored, for it opened the gap) and `Covered` (what is missing below a stored number is in an open gap). A gap ends below the number that opened it and a number is stored once, so no two rows end together, and shrinking from below keeps their ends (`EndsStayApart`) |
| *AccountCapture*: `NothingMissedAlways` | `CaptureInv`: up to the row last asked after, what was there all the while is in what was read (`Reached`); of the two lists of a merge, what the first left out has changed and will be in the second. A careful reader never takes the end of a page for the end of the account |
| `StableWasTrueAlways` | `AroundTheMiddle`: an order asked for by its state only goes on, so what the first pass read is no later than the moment between the passes and what the second read is no earlier; where they agree both are of that moment. `LeftAndBack`: any other row that is not what it was in the middle changed before it or after it, and if the passes agree, both. A checkpoint carries the first half of either through a restart |
| *BinanceOrders*: `TypeCorrect`, `OncePerLifeAlways` | `RecordKnows`: what the process carried out is ACKNOWLEDGED or AMBIGUOUS in its journal, which nothing claims again; `AtWork` says what each await works on |
| `RecordedStopProtectsAlways` | `EntryFirst` (nothing is protected before the entry is filled) and `StopsPlaced` (a stop recorded ACTIVE, also in what was committed, was placed; while the one position is open, a stop is gone only where its successor works) |
| `EmergencyLeavesNothingAlways` | `ClosedForGood`: an emergency close on record, here or committed, is of a position that is gone and an account that is halted, as long as the entry was carried out once |
| *CashOrders*: `TypeCorrect` | inductive |
| `NeverTwiceAlways` | at KIS `SentOnce`: a command has one sender, at most one request under way, and no order before that request arrives. At Toss `InTime` and `Clocks`: what is sent was decided before the lease's end, so it arrives before `attempted + Lease + Transit`, which is within `Window` of any order of the command, and Toss answers with that order |
| `AnswerIsTrueAlways` | `Truth` says the same of the answers that wait and of the records that a later call reads; `Waiting` ties an answer to its task's request, `SentOnce` excludes a request that arrives behind a refusal; `Aiming`: a cancel names one order and keeps to it, and that is the command's own or one told RECOVERED |
| `AdoptsItsOwnAlways` | `Adopting`, with `Numbered`: orders are numbered as they come, so one that comes later is above what the recovery saw, and one that was there lies behind the command's stamp (`Clocks`) and so among the matches, of which there was one |

The `TypeCorrect`s, `RowsTypedAlways`, `MarkerHasOutcomeAlways`, `AcceptedIsFinalAlways`,
`ReservationBalancesAlways`, `OneEffectAlways`, `PublishedIsInStreamAlways`,
`QuantitiesAddUpAlways`, `LotsAreThePositionAlways`, `AnchorsAddUpAlways`,
`BackOfficeConsistentAlways`, `SpentOnceAlways` and `OneDecisionPerBarAlways` are proved
and no run repeats them, or a run checks them as part of a larger property;
`StepsImplementLog` is the safety half of `ImplementsLog`.

The library states induction with a predicate for a parameter, which no installed prover
can instantiate. What needs it is proved from the well-foundedness of the naturals
instead, which is stated about a set: the numbers for which a claim fails have no least
element. So are found the greatest and least elements (the cursor, the next entry, the
watermark), the rank of each element in `Ascending`, and the value of a sum: the sums in
`Totals` are folds whose recursive function is shown to exist for every finite set of
terms (`SumsExist`) and not to depend on the order of choice (`AnyFirst`, `TotalIs`), and
so do the folds from the left over bars, prints and levels (`FoldExists`, `FoldRuns`).
Finiteness is then part of the invariants.

Only model-checked is liveness under fairness, which the prover does not reach:
`TroubleIsStopped`, `SettlementCompletes` and the liveness half of `ImplementsLog`. Every
invariant and every action property that a run checks is a theorem.

## Plan

Done: the controls, dispatch and the ledger, then the loop around them, the brokers at
its edge, the back office and the strategy. The plan's composition of `TradingControls`
with `Dispatch` is served by `TradingLoop`, where a halt and a dispatch in flight meet,
and its `OrderStatus` was dropped: the handler of sequenced statuses has no caller but
tests and refuses the status that dispatch writes. Next, in order:

1. Action properties of `Dispatch` and `CashOrders` that follow from their invariants.
2. The lease heartbeat and its incident (`run_shadow.py`), with several lease names.
3. Promotion gates.

## Not modelled

Decimal arithmetic: the strategy's numbers and the sizing are small integers here; costs,
MACD and averages are free values or given. Market data other than the trade tape,
request signing, transport, OAuth, rate limits and schema parsing are I/O and appear as
any answer. Pages and read models render. Password hashing and its attempt counters
(`second_password.py:211`), promotion gates, the shadow runner's lease heartbeat and the
reading of account and policy when the trader starts are left out, as are average cost
and charges in `fills.py`, which nothing modelled reads. Research replays and migrations
run offline.
