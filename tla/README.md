# Axelar Solana relayer: verification project

TLA+ models of `eigerco/axelar-solana-relayer`, the TLC configurations that check them on small
instances, and TLAPS proofs of what matters most. The relayer connects Axelar's Amplifier API with the
Solana chain: events of Solana programs go up to the Amplifier, the Amplifier's tasks come down as Solana
transactions. Paths below are relative to the repository; `crates/` prefixes are dropped where the
file name is unique.

## 1. Inventory

The binary (`solana-axelar-relayer/src/main.rs`) wires five components and hands them to an external
engine, which polls each of them as an asynchronous task and stops when one of them returns.

| component | state | operations | talks to | what makes it hard |
|---|---|---|---|---|
| Solana listener (`solana-listener`) | the checkpoint signature (persisted); the page cursor of a scan; two WebSocket streams; a set of concurrent fetches | start-up scan, subscribe, catch-up scan, realtime fetch, reconnect | Solana RPC (HTTP, WebSocket); an unbounded channel to the forwarder | the chain grows while it is scanned; fetches finish out of order; streams end; the process crashes |
| Event forwarder (`solana-event-forwarder`) | none but the channel and the transaction it holds | parse a transaction's logs, price it, convert events, publish | listener channel, gas computation, Amplifier command channel | an error stops it with messages in the channel while the checkpoint is already persisted |
| Gateway task processor, loop (`component.rs` 214-287) | ordered set of running tasks; id of the last processed task (persisted) | receive a task, run it, yield results in order, checkpoint | Amplifier task channel, storage | hand-written `poll_fn`; tasks finish in any order; crash between a task's effect and its checkpoint |
| Gateway task processor, execution (`component.rs` 333-937, `message_payload.rs`) | none in memory; incoming message and message payload accounts on chain | execute, gateway transaction, refund; upload a payload | Solana RPC, gas estimator, Amplifier command channel | concurrent or repeated tasks for one message share its accounts; partial failure; every transaction may fail or be reported failed |
| Gas estimator (`component.rs` 93-166, `execution_cost_estimation.rs`) | cache of cost breakdowns behind a mutex, in memory; a simulation node's chain | estimate, cache, reuse | simulation node | entry taken out and put back by concurrent tasks; an estimate consumes the simulated state; a restart loses the cache and not that state |
| Gas computation (`gateway-gas-computation`) | none | total cost of an execution from its transaction history | Solana RPC | which transactions are counted, once each |
| Effective transaction sender (`effective-tx-sender`) | none | simulate, set compute budget and price, sign, send | Solana RPC | caps and integer arithmetic; which error is reported |
| Retrying HTTP sender (`retrying-solana-http-sender`) | a semaphore | bound concurrency, retry with back-off | Solana RPC | permits held across retries |
| File storage (`file-based-storage`) | memory-mapped record of two task ids and a signature | get, set | listener, task processor, Amplifier client | the zero value is "none"; it is the only state that survives a crash |
| REST service (`rest-service`) | none | `/health` | - | - |
| xtask | none | build helper | - | - |

The Amplifier client (`relayer-amplifier-api-integration`, `relayer-engine`, `relayer-amplifier-state`) is
an external crate: the models state how `crates/` use it and mark it external.

## 2. What is hard, and what makes each part correct

**Listener.** Its promise is at-least-once delivery: every successful transaction of the two accounts
reaches the channel, whatever lands while it scans, whenever the stream ends or the process dies. What it
keeps across a crash is one signature, and everything at or below that signature is never looked at
again; so the promise is a statement about the checkpoint: *it never passes an event that was not sent
and is not being fetched*. The hard parts are the scan of two accounts one after the other, pages read
backwards from a growing chain, the hand-over from the catch-up scan to two subscriptions started one
after the other, and fetches that finish out of order.

**Task loop.** Tasks run concurrently but are acknowledged by one number. Correct means: the stored id
never passes a task that has not run to its end; the hand-written `poll_fn` never sleeps without
somebody who will wake it; a closed channel is drained before the loop ends.

**Execute tasks.** Several tasks for a message, or one task before and after a crash, write the same
payload account on chain. Every transaction is simulated, sent and confirmed, with others acting in
between. Correct means: a payload committed for a message still to be executed is whole; `Ok` means
executed; a failure is reported, as far as the look-up of its transaction and the channel to the Amplifier allow; a task that comes before its message's approval spends nothing; repeated and concurrent
tasks never block each other for good.

**Gateway transactions and refunds.** Verification sessions and messages on chain are shared by batches.
Correct means: a task that ends without an error has had its effect; a refund is paid at most once per
delivery (nothing on chain makes a refund idempotent, so a redelivered one pays again); batches that
share a message do not keep it from being approved.

**Forwarder and gas computation.** The checkpoint is stored as soon as a transaction is on the channel, so the
forwarder must publish everything that reaches it, in order, and whatever a life of the process leaves behind must be
exactly what was in memory. A price is computed from account histories that grow while they are paged through; it must
contain all that happened before the transaction and nothing twice, and the shares its events and its batch claim must
not add up to more. One event that does not decode must not take the others with it.

**State file.** Three components write fields of one memory-mapped record. What a set acknowledged must survive the
process and the machine, whatever the operating system writes back in between, and a set that failed must end its writer.

**Estimator and senders.** Concurrent tasks share a cache of breakdowns whose entry is taken out to be used, and a
simulation node that each estimate changes and that outlives the process. A cached breakdown must be whole and must not be
lost within one life of the process, and an accepted estimate must mean that the gas suffices for every stage at the price the
estimate read for it. The limit should cover what was simulated and the instruction that was not; a repeated send must not land twice; no permit may be lost however requests end, and no request
may wait for ever.

Every hazard, at its line and with the properties that cover it, is listed under `hazards` in
`PROJECT.json`.

## 3. Modules and code

| module | code | abstract specification | proofs |
|---|---|---|---|
| `SolanaListener` (`MCSolanaListener` for TLC) | `solana-listener/src/component.rs`, `signature_batch_scanner.rs`, `signature_realtime_scanner.rs`, `log_processor.rs` | `EventFeed` | `SolanaListenerProofs` |
| `TaskProcessor` | `solana-gateway-task-processor/src/component.rs` 214-287 | `OrderedWork` | `TaskProcessorProofs` |
| `MessageExecution` | same file 333-721, 892-937, `message_payload.rs`, `effective-tx-sender` 109-141 | - | `MessageExecutionProofs` |
| `GatewayTasks` (`MCGatewayTasks` for TLC) | same file 763-937, `effective-tx-sender` 109-141 | - | `GatewayTasksProofs` |
| `Amounts` | the saturating 64-bit arithmetic of the cost code | - | in `SumsProofs` |
| `GasComputation` | `gateway-gas-computation/src/lib.rs` | - | in `PricingProofs` |
| `EventConversion` | `solana-event-forwarder/src/utils.rs` | - | in `PricingProofs` |
| `EventForwarder` | `solana-event-forwarder/src/component.rs`, the pages of `gateway-gas-computation` | - | in `RelayerProofs`, `PricingProofs` |
| `StateFile` | `file-based-storage/src/lib.rs` | - | in `RelayerProofs` |
| `Relayer` (`MCRelayer` for TLC) | composes `EventForwarder`, `StateFile` (by `INSTANCE`) and the listener's end of the channel; `solana-axelar-relayer/src/main.rs` | `ReplayedFeed` | `RelayerProofs`, `PricingProofs` |
| `HttpSender` | `retrying-solana-http-sender/src/lib.rs` | - | in `ExecuteCostsProofs` |
| `ComputeFees` | the arithmetic of `effective-tx-sender` and `execution_cost_estimation.rs` | - | in `ExecuteCostsProofs` |
| `TxSender` | `effective-tx-sender/src/lib.rs` | - | in `ExecuteCostsProofs` |
| `GasEstimator` | `component.rs` 93-166, `execution_cost_estimation.rs` | - | in `ExecuteCostsProofs` |
| `ExecuteCosts` (`MCExecuteCosts` for TLC) | composes `GasEstimator` and `TxSender` over one `HttpSender` | - | `ExecuteCostsProofs` |

The proof modules extend the modules they are about; `PricingProofs` extends `RelayerProofs`, and `SumsProofs` holds the lemmas
about least elements, finite sets and sums that it and `ExecuteCostsProofs` share.

`PROJECT.json` maps every definition that models code to its lines. Operators whose comment begins
with "Variant" are not part of any specification: each states how a definition would read with a
plausible mistake in the code, and under it one property fails. They document what the property catches.

### SolanaListener

A signature is its position in the finalized chain, 0 is "none" (the state file's zero value).
`latest` is the persisted `latest_processed_signature`; `scan` and `page` are the locals of
`fetch_batches_in_range` and of `SignatureRangeFetcher::fetch`; `wsq` holds each subscription's
notifications not yet polled; `inflight` is the `FuturesUnordered` of fetches; `first` is the first item of
a connection, kept until the catch-up scan ends. `sent`, `warned`, `seen` and `gap` are history.

`Start` reads the checkpoint, or takes the configured one, and begins the start-up scan; `FetchPage`,
`FetchEmptyPage`, `PageTxSent`, `PageTxFailed` and `PageDone` are one page's request, the concurrent
fetches of its transactions and what follows it: the next page, the next account, or the end of the scan.
`Connect` and `SubscribeGas` are the two `logsSubscribe` calls; `FirstItem` takes an item off either
stream and begins the catch-up; `SendFirst` sends it; `PollItem` takes further items; `FetchDone` sends one and
stores its signature, in any order; both are one step because sending on an unbounded channel never waits, so that
nothing of this process runs between them, and what a dying process had sent is lost with the channel. `Reconnect` ends a connection, `Crash` the process. `Land` is the
chain. A failed transaction is recorded as processed and not sent.

### TaskProcessor

`rxq`, `issued` and `closed` are the Amplifier's channel; `queue`, `started`, `ready` and `done` the
`FuturesOrdered` set; `rxWaker` and `woken` are the waker registered with the channel and the executor's
run queue; `latest` is the persisted `latest_processed_task_id`. One action per branch of the
`poll_fn` (`PollReceiver`, `YieldHead`, `YieldWaiting`, `YieldCompleted`, `PollPending`,
`PollEmpty`), one for the loop's body (`Store`), the executor's `Poll`, the futures' own progress
(`FutureReady`, `FutureProgresses`) and the channel's. What a task does is abstracted to a future that
is woken some times and then completes; an error counts as completion, as in the code. `FuturesOrdered`
and the channel are external and modelled as far as this code can observe them.

### MessageExecution

One message and `TaskCount` execute tasks for it, which the fault `early` issues before the message's approval has landed
(`Approve`). `incoming`, `payload`, `written` and `uploaded` are the two accounts on chain; `late` are transactions whose sender is gone; per task, `pc`
is its place in `execute_task`, `tx` the transactions of the current stage (the chunks of the payload are written
concurrently), `err` and `report` the error and the event made of it. `Simulate`, `Land`, `Confirm`
and `GiveUp` are the ways of a transaction, `Advance` the end of a stage, `Report*` the arms of
`process_task`, `Crash` a restart after which every task past the stored one runs again. `open` is the channel to the Amplifier:
once the component at its other end is gone (`CloseChannel`) sending the event fails, and the task ends without one (`Unreported`), as
it does when its failed transaction cannot be looked up. `FailureReported` excepts these two ways and no other.

### GatewayTasks

`TaskCount` tasks, each a batch of messages, a verifier set rotation or a refund, chosen from `Mixes` at
the start. On chain: `sessions`, `verified`, `done` (approved messages, installed sets), `paid`, and
`late` as above. `Stage` and `Following` are the order of `gateway_tx_task`: open the session, verify all
signatures concurrently, then approve all messages concurrently or rotate; a refund is one
transaction. `Skip` is the `filter_map(.. .ok()?)` that leaves out an instruction that cannot be built.
`FailWith` is `?` inside a `FuturesUnordered` loop: the other transactions are dropped with the
set, and those already sent may still land (`Settle`).

### GasComputation, EventConversion and EventForwarder

`GasComputation` has no state: which history an instruction calls for (`NeedsSession`, `NeedsPayload`), a page of a
history (`Page`, `CursorAfter`), the cost of what it holds (`CostWithin`, `CostOf`) and a batch's `Share`.
`EventConversion` has one operator per kind of event; an optional value is a set of at most one element, so that `?` on
a field makes the whole event disappear exactly where it does in the code. Text is abstracted to whether it decodes.

A price in the properties is the same computation on the chain as it was at some moment (`PriceAt`), and a sum saturates
once at its end where the code saturates at each addition, which yields the same (`Sum`).

`EventForwarder` is `process_internal`: `Receive` takes a transaction off the `queue`; `SkipInstruction`,
`BeginHistory`, `FetchPage` and `AddCosts` price one instruction after the other, one action per request, with `Grow`
extending the chain in between; `Publish` parses, converts and sends; `Fail` is every `?` of it. `script` is the
chain, `landed` how much of it is finalized. The concurrent fetches of a page's transactions are one step: finalized
transactions do not change, and the first error ends them all.

### StateFile and Relayer

`mem` is the mapped record, `disk` the file, `holder` and `step` the mutex and how far its holder has come:
`Lock`, `Write`, `Flush` or `FlushFails`. `WriteBack` is the operating system's, at any time; `Reopen` is a start of
the process, with or without the machine having gone down. `acked` and `since` are history.

In `Relayer` the listener is what `SolanaListener` shows it to be at its best: it reads the chain in order (`Read`),
sends what succeeded, and stores the signature (`StoreSignature`). A second writer, the task processor, uses the same file
(`StoreTask`). `Restart` is the end of the process, after a component returned or from outside: channel and memory are gone,
the listener goes on from the record. `lost` records what was in memory then.

`ReplayedFeed` is what this amounts to for the Amplifier: the wanted positions of a stream are logged in order
(`Take`, `Emit`), until the reader loses its memory and goes back to between its checkpoint and its position (`GoBack`); the
checkpoint (`Store`) never moves back. Its position is the listener's, its checkpoint the signature on disk, its pending
positions the transaction the forwarder holds and its queue, its log the transactions of the published commands. It promises
no more than the code keeps: a checkpoint may pass what is only pending, and then a crash loses it.

### HttpSender, ComputeFees, TxSender, GasEstimator and ExecuteCosts

A request of `HttpSender` is `idle`, `waiting` for a permit, `sending`, in `backoff`, `ok` or `failed`.
`Asked`, `AskedBoth`, `AskedAfter`, `Read` and `Dropped` are what its users do; `Acquire`, `Answer`,
`FailPermanently`, `FailTransiently` and `Retry` are `send_internal` and the retry loop around it.

`TxSender` is `evaluate_compute_ixs` and `send_tx`: price and simulation are read concurrently, the first error drops the other
(`EvaluationFails`, as `try_join` does), `Join` puts price and limit in front of the call, the transaction is
`Signed` once, and from its first attempt on it may `Land` whether the answer arrives or not. `ixs` is the deque of instructions.

`GasEstimator` is `ensure_enough_gas`: `StartCached` takes the entry out, `StartFresh` finds none; then stage by
stage `AskFee` with `Recompute`, or with `PriceStage` and `RunStage`; `StageRefused` and `EstimateFails` are its error
exits; `Decide` compares and caches. `TopUp` is the Amplifier issuing the task again. `simulated` and `executed` are the state of
the simulation node. `spoiled` is history: the messages with an estimate that did not end for want of gas, with two under way
at once, or with an estimate or a breakdown that a restart cut short or lost. `quoted` is history too: the prices an estimate has
read. `ComputeFees` holds the arithmetic.

`ExecuteCosts` covers several lives of the process: `Restart` drops every request, gives the semaphore its permits anew
(`HttpRestarts`), empties the cache, which is memory (`EstimatorRestarts`), and leaves the simulation node, another process, as it
is. Every task that had not ended is delivered again, and any that had may be: its id may not have been stored. `landed` holds the
transactions of the present life: a task that is run again signs a new one, with a new blockhash.

A send and the polls of its status are one request of the model, which holds one permit until the transaction has landed; in the
code the client's polls each take a permit of their own. The model's request keeps the others waiting for longer, so that
`EveryTaskEnds` is not easier to meet in it.

### What the modules assume of code outside the repository

* The Amplifier delivers again every task after the stored id, and no other. It orders an execute
  task after its message's approval; `MessageExecution` does not rely on it (`early`), the property that a message is executed
  in the end does.
* The accounts' rules on chain (`Valid`, `RefusalOf`, `Apply`) are read off the instructions the relayer builds, its
  tests and the errors it handles. In particular `close_message_payload` runs in the execute transaction, so a
  payload is closed exactly when its message is executed.
* Which gateway errors `should_relayer_proceed()` accepts is a constant, `Proceed`: the gateway crate is not in
  the repository, ADR 0004 names "already initialized PDAs". The safety theorems hold for every choice;
  liveness needs the errors the runs name.
* The RPC node returns finalized data in chain order, and a subscription delivers what lands after it
  started, once and in any order relative to the other one.
* tokio's semaphore hands out permits in the order they were asked for. The chain takes a signature once.
* The simulation node applies the gateway's account rules: the stages of an upload in their order, a message is executed once.
* A flush that returned Ok is on disk; without one, a page may or may not have been written back.
* The event parser (external) is the field `events` of a transaction. `WellFormed` is what its types guarantee: one of the
  kinds the converter matches on, a cost with an amount where one is replaced, and at most one metadata record.
* The gateway approves a message once, and every approval of a batch states the batch's size (the size is part of the
  proof of inclusion). The relayer puts one approval in a transaction and nothing else with a price (`BatchAssumption`).
* What a transaction costs and what a node answers fit into 64 bits, as their types say.
* `Faults` names what the environment may do in an instance. `FaultKinds` of each module lists them all.

| fault | meaning |
|---|---|
| `scan_gap`, `sub_gap` | a transaction lands between the start-up scans of the two accounts, or between the two subscriptions |
| `drop` | a connection or the process ends while the checkpoint has overtaken a fetch that is pending |
| `batch_error` | one transaction of a page cannot be fetched |
| `force` | the configuration overrides the stored checkpoint |
| `ws_end`, `crash` | a stream ends; the process stops |
| `early` | an execute task is issued before its message's approval has landed |
| `rpc`, `timeout`, `revert` | a request fails; an answer is lost or late; the destination program fails |
| `reject`, `gas`, `lookup`, `build` | input is refused before anything is sent; gas does not suffice; a failed transaction cannot be looked up; an instruction cannot be built |
| `channel` | the Amplifier component ends and with it the channel for events |
| `crash_in_flight` | the process stops with transactions on their way |
| `rpc`, `crash` of the relayer | a request of the forwarder fails; the process or the machine dies, or a flush fails |
| `net`, `refuse`, `node` | a request is lost or answered with an error that may pass; it is refused for good; the simulation node fails |

## 4. Runs

TLC's instances are small and exhaustive. A run that expects a violation shows a statement of a doc or comment
of the repository that the code does not keep (section 6).

| run | instance | shows |
|---|---|---|
| `listener_safety` | 3 transactions of 4 kinds, pages of 2, equal and growing slots, every fault; 2.5 million states | types; no hole in a scan; a connection past its catch-up accounts for everything but the subscription gap |
| `listener_delivery` | 4 successful transactions, pages of 2, crashes and reconnections | the checkpoint never passes an undelivered event; refinement of `EventFeed`; delivery while a connection lasts |
| `dropped_fetch` | 3 transactions, one fault | a way other than a failed fetch in which the checkpoint passes an event |
| `newest_signature` | pages of 1 | the scan does not return the newest signature |
| `task_loop` | 3 tasks | checkpoint, wake-ups, draining, refinement of `OrderedWork`, progress |
| `execution_safety` | 2 tasks, 2 chunks, approved before or meanwhile, every fault, a closed channel included | whole payloads, truthful `Ok`, every failure reported but for the two exceptions |
| `execution_liveness` | 2 tasks, 2 chunks, clean crashes | the message is executed |
| `gateway_tasks` | pairs of tasks: overlapping batches, a batch twice, rotation beside refund, refund beside batch; 2 deliveries, every fault | success means done, refunds bounded, uncontested work done |
| `relayer` | three chains (a batch after its session, an upload and its execution, a rotation beside calls), pages of 1, two writers, one restart, every fault | what is acknowledged survives; nothing read is skipped or reordered; what lies below the stored signature is accounted for; claims and shares stay within the cost; whole histories are priced; complete events are published; refinement of `ReplayedFeed`; everything is published or was in memory when a life ended |
| `double_count` | the upload and its execution | a transaction counted twice |
| `execute_costs` | two tasks for one message, three stages, two prices, two permits, two attempts, one restart, every fault | permits, queue and attempts; a send lands once; which simulation results leave room for the price instruction in the limit; cached breakdowns are whole and kept; refusals are explained; an accepted estimate covers the stages at the prices it read; every task ends |
| `estimate_units` | one task, real constants | a cached breakdown is priced higher than the execution it was taken from |

**Bounds.** Pages of two and four transactions give an address a full page, a partial page and an empty page after a
full one, with arrivals between any two of them; three kinds of transactions let the two accounts'
histories interleave. Two tasks are enough for one to overtake, repeat or close what another is using; three tasks
let the loop hold one that waits, one that runs and one on the channel. Two chunks make a partial
upload; two signers and two messages make a partial batch. Two deliveries make a task meet its own
remains. `MaxTx`, `MaxTask`, `MaxDeliveries`, `MaxStored` (task ids a writer stores) and `MaxRestarts` bound counters in guards; `MaxAttempts`
stands for the attempts that fit into the back-off's time.
In `relayer`, pages of one signature make every history longer than a page; each chain has a history that ends, one that grows after
it was priced, and failed or irrelevant transactions in it; the events of the chains have every kind, complete and with each
field missing or malformed. One restart is enough for a life that begins with a stored signature and an empty channel.
In `execute_costs`, two tasks may have three requests under way for two permits, so that requests wait, retry and are dropped while
another waits. The price is 0 or 5 and may change from stage to stage. A simulation reports nothing, the last result without room for the
price instruction (9), the first with it (10), or the one at which the limit meets its cap (21). The first task's gas never suffices,
so that it fills the cache, is topped up, takes the entry out and puts it back; the second task's may suffice, fresh or from the
entry of the first. One restart is enough for the cache to be lost behind a simulation node that is half way or through. Its fee constants are scaled down (ten micro-lamports in a lamport, 22 units in a transaction) so that the cap on
the limit, the rounding of the tenth and of the price all occur among small numbers; `estimate_units` uses the real ones. Chunks and
the commit are stages like the first one, so three stages suffice there. A task is topped up once, to `MoreGas`.
The safety properties named in section 5 are proved for every value of these constants.

**Deadlock** is checked in `listener_safety` and `task_loop`; elsewhere the instance
ends when its tasks are done or no fault is left to move it.

**What runs under which faults.** `ConnectionLossless` and `ScanLeavesNoHole` hold under all of them.
`NoEventMissed` and `ImplementsEventFeed` hold without `scan_gap`, `sub_gap`, `drop`, `batch_error` and
`force`, each of which makes the listener pass an event: `scan_gap` and `drop` are in section 6; a transaction that lands
between the two subscriptions is carved out of `ConnectionLossless` by name (`gap`); a failed fetch inside a page is
logged by the code; `force` is the operator's choice. `EventuallyExecuted` excludes crashes with a transaction in
flight: an execute transaction sent before a crash may land between another's simulation and its landing. In
`gateway_tasks` the history variable `faulted` restricts `EventuallyDone` to behaviours in which the
environment only crashes with nothing in flight, and `Guaranteed` to messages whose batches share no session and contest no other
message: two tasks in one session can make each other fail, since an error the relayer proceeds on in a
simulation stops the task when it occurs on chain.

**Fairness.** Weak fairness only, and on the relayer's steps, not on the environment's faults: the executor polls a component
that was woken, a future of a polled set makes progress, a request is answered or fails, a sent
transaction lands or fails, the supervisor starts the process (`Start`). Nothing obliges the chain to grow, so
`EventuallySent` excepts a listener that waits for a first notification that never comes. The Amplifier's
channel delivers what was issued (`Deliver`).
In `relayer` the forwarder, the listener and the holder of the file's mutex make progress, and the supervisor starts the process
after one of its components returned (`Restart(FALSE)`); nothing obliges the chain to grow or a fault to happen. In
`execute_costs` each task is polled (`TaskStep`), a permit that is left is handed out (`Acquire`), an attempt is answered
or fails and a pause ends; a transaction that was sent lands, which belongs to `TaskStep`: without it a confirmation could be
awaited for ever, where the code gives up after the RPC client's own timeout. Failing for good is not obliged to happen, nor is `TopUp`.

## 5. Proofs

TLAPS proves, for every value of the constants allowed by the named assumptions (`ListenerAssumption`,
`TaskAssumption`, `ExecutionAssumption`, `GatewayAssumption`; `ForwarderAssumption`, `AmountAssumption` and
`RelayerAssumption`; `HttpAssumption`, `FeeAssumption`, `SenderAssumption` and `EstimatorAssumption`). The assumptions
say what kind of value a constant is; those with content are:

* there is at least one attempt and one stage, and requests are finitely many. Permits may be any number, as the
  configuration takes any; with none every request waits for ever, so `EveryTaskEnds` is checked with two;
* the listener is one of the state file's writers;
* an upload executes at most once and closes last;
* a simulation reports any number of units up to the limit it ran under, 0 (no report, `unwrap_or(0)`) included;
* a lamport is at least two micro-lamports (10^6 in fact): with one, the tenth that is put on top of
  the simulated units would be charged and not have been estimated;
* a node's answer to the fee request is one of a set that is not empty, with 64-bit fees;
* the gas of a task is less than `u64::MAX` lamports, many times what exists: the estimate's additions saturate there, and an estimate
  that saturated must not be sufficient;
* `BatchAssumption`, for `SessionShared` alone: what section 3 says of approvals. Without it a batch that states two sizes, or is approved
  more often than it has messages, could be charged more than its session has cost.

The results, module by module, with the invariant each rests on:

* `SolanaListenerProofs`: `TypeCorrect`; `NoHole` and `Lossless` under every fault; and, without the five
  faults above (`QuietFaults`), `CheckpointSafe` and `ListenerImplementsFeed`.
  The invariant `ListenerInv` adds to the types what a page has covered (`PageInv`: everything ahead of the cursor down to its
  oldest signature, and everything at all if it is the last), where a catch-up ends (`CatchUpInv`: right below the first item)
  and what the streams account for (`StreamInv`: everything newer than any notification they hold). `ScanLeavesNoHole`
  alone is not inductive: a page's completeness is needed at the step that leaves it. `QuietInv` adds that both start-up scans read
  equally far (`StartupInv`) and that memory holds everything below a checkpoint the moment it moves (`CheckpointInv`).
* `TaskProcessorProofs`: `TypeCorrect`, `CheckpointSound`, `NeverStuckAsleep`, `Drained`,
  `LoopImplementsOrderedWork`. `LoopInv` says that set and channel hold the consecutive tasks after the accepted
  ones (`OrderInv`), outputs come from tasks that ran (`RanInv`), and who will wake the component at every place of a poll
  (`WakeInv`), not only when it sleeps.
* `MessageExecutionProofs`: `TypeCorrect`, `PayloadWhole`, `SuccessIsTrue`, `FailuresReported`, `EarlyTaskHarmless`. `PayloadInv` is the
  argument: as long as the message is not executed nothing closes its payload account, so what any task saw written stays
  written, also for a commit that is still on its way. `EarlyInv` is the same for the time before the approval: no task gets past its
  first check, so that the approval meets an empty account and no transaction on its way.
* `GatewayTasksProofs`: `TypeCorrect`, `SuccessIsTrue`, `RefundBounded`. `DoneInv` says of each place of a task what it implies on chain.
  `RefundInv` counts: refunds paid, refunds on their way and the one the current delivery may still pay never exceed the
  deliveries.
* `RelayerProofs`: `TypeCorrect`, `AckedPersists`, `InOrder`, `NothingForgotten`, `RelayerImplementsFeed`.
  `AckedSurvives` is inductive with the types: memory and disk hold, per field, the acknowledged value or one given to set since.
  `NothingSkipped` is a statement about a concatenation; the lemmas say how each step moves a transaction within it, and
  that what is appended is newer than all of it. `StoredIsAccountedFor` needs `StoredInv`: the disk is behind memory, memory
  behind the listener, and a value on its way into the record is the listener's position, whoever else writes in between;
  then everything up to that position being accounted for (`ReadIsAccountedFor`) is inductive. The refinement rests on the same
  invariant: a restart goes back to the record in memory or on disk, and both lie between the checkpoint and the position.
  One lemma per step (`FeedReceive`, `FeedPublish`, `FeedRead`) says what it does to the pending positions and the log.
* `PricingProofs`, over the same specification: `ClaimsCovered`, `EventsComplete`, `HistoryCovered`, `SessionShared`.
  None of the four properties is inductive: they speak of published commands, and a command is made in one step from what many
  steps before it computed. `PricingInv` has what those steps keep. A command consists of the transaction's events and the price
  computed for it (`CommandsInv`). The price so far lies between that of the chain that ended with the transaction and that of the chain
  as it is, for the instructions priced so far (`TotalInv`, with `PartAt` for the partial sum). While a history is paged through,
  everything of it from the cursor up to the transaction has been collected, and once it ends, everything up to the
  transaction (`PagesInv`); this is what a page that starts below the last one's oldest signature gives (`PageCollects`), whatever
  landed in between. And only successful transactions reach the forwarder (`OnlySuccessful`).
  `ClaimsCovered` and `EventsComplete` then follow from lemmas about the conversion (`ConvertResult`, one case per kind of event, and
  `MapEventsResult`, about the filtered sequence), `SessionShared` from the fact that an approval is charged at most its
  share of the session as it is now (`ApprovalCharged`) and that shares rounded down add up to no more than the whole.
* `SumsProofs`: sums over finite sets. `SumFunctionOnSet` folds in an order that `CHOOSE` picks, and the library's induction
  theorems cannot be used here, so induction over a set is done along its cardinality through a least counterexample
  (`SetInduction`, on `LeastElement` and `UpTo`), a fold is shown to exist and not to depend on the order (`SumsExist`,
  `SumsAgree`), and what the proofs cite follows: the sum of a set and one more element, monotonicity, bounds.
* `ExecuteCostsProofs`: `TypeCorrect`, `NoPermitLost`, `SentOnce`, `LimitCovers`, `CachedWhole`, `BreakdownIsKept`,
  `RefusalsExplained`, `EnoughIsEnough`. The proof follows the modules. `HttpInv` adds to the permits that the queue holds exactly the requests that
  wait, each once (`QueueIsExact`; otherwise `Acquire` could send one twice), and every step of the system is one of `HttpOps`
  to it. `SenderInv` determines the instructions and the requests under way by where a sender stands, and says that what
  landed is the committed transaction of a task as it is now; `BegunInv`, that only a task with enough gas sends, makes a restart leave
no task half way. `LimitCovers` says for which results of a simulation the limit has room for the price instruction, and for which
it has not (section 6). `EstimatorInv` says of each task what part of the breakdown it has, and of
  each unspoiled message (`UnspoiledInv`) that one task at most estimates it, and that the simulation node is exactly at that
  task's stage, or untouched, or has been through. A restart spoils what it finds under way or in the cache; for any other message the simulation node is
  untouched. `EnoughIsEnough`, that an accepted estimate covers what the stages are
  charged at the prices it read, is a bound on a sum that grows by a stage at a time: `CostsInv` says that the cost so far is at least
  what the stages before the current one are charged (`ChargedBefore`), unless it has saturated, for a first estimate and for a recomputed one.
  The lemma behind it, `StageFeeCovers`, compares the arithmetic of the two crates: micro-lamports taken for lamports exceed
  the charge rounded up, which is the reason the estimate suffices in spite of the confusion that `estimate_units` shows. The sender reads the price again
  (`compute_unit_price`), and at a higher one than the estimate read nothing is claimed: nothing in the code compares the two.
  The queue without dropped requests is a recursive function; that it exists and what it contains (`WithoutProperties`) is
  shown by induction through a least counterexample, as in `SumsProofs`.

Every invariant, action property and refinement that a passing run checks is proved, except for liveness. `EventuallySent`,
`EventuallyProcessed`, `EventuallyExecuted`, `EventuallyDone`, `EventuallyPublished` and `EveryTaskEnds` are only
model-checked: they need fairness and `ENABLED`, which this prover does not handle. The statements that the code does not
keep (section 6) have counterexamples, not proofs.

## 6. Where code and docs disagree

| run | code | statement |
|---|---|---|
| `dropped_fetch` | each completed fetch overwrites the checkpoint, and pending ones are dropped with a connection | ADR 0003: "no events are missed, even during startup or reconnection periods" |
| `newest_signature` | the slot later pages are compared with is not updated with the signature | doc of `fetch_batches_in_range`: returns the "chronologically newest/latest signature" |
| `double_count` | the execute transaction also holds the instruction that closes the payload account, so its cost is in the total once as itself and once as part of the upload | doc of `compute_total_gas`: the payload's transactions are "Additional costs" |
| `estimate_units` | `calculate_cost` adds micro-lamports to lamports; what the first estimate charged was in lamports | its own comment: the base fee is "in lamports" |

The models show more disagreements of this kind, which have no run of their own:

| code | statement |
|---|---|
| the newest signature over two scans made one after the other becomes the checkpoint (fault `scan_gap` of the listener) | ADR 0003, as above |
| the poll function takes one task and does not register with the channel again, so a second task waits until the first one wakes the component | ADR 0004: handles "multiple tasks without blocking" |
| the payload account is closed in the execute transaction only, so a failed task leaves it open | doc of `upload`: "Make sure to close the account afterward" |
| a tenth is added to the simulated units, and the price instruction is not simulated: below 1 500 units, and without a report, the limit has no room for its 150 units (`LimitCoversPrice` states the bound) | doc of `compute_budget`: "adds a top-up percentage to ensure sufficient compute units" |
| a transport error after the execute transaction landed is reported as a reverted execution | comment in `process_task`: errors of this arm are "probably happening before execution" |

A transaction of the gas service that lands between the two `logsSubscribe` calls, after a gateway transaction that becomes
the first item, is missed as well (`signature_realtime_scanner.rs` 57-63). `ConnectionLossless` states this exception
exactly: nothing else is missed by a connection.

## 7. Not modelled, and the plan

Left out for good: configuration parsing, telemetry, the REST endpoint, `xtask` (no state or no concurrency of their own); the log
parser, the generic engine and the Amplifier client (external crates); the wording of errors and logs, and encodings beyond
whether they decode.

Abstractions that hide something on purpose: the listener of `Relayer` reads in order and without its own faults, which
`SolanaListener` has in full; `TaskProcessor` sees a task as a future, which `MessageExecution` and `GatewayTasks` open
up; `MessageExecution` has the estimate as one step that succeeds or fails, which `ExecuteCosts` opens up.

What a continuation would do, in this order:

1. compose `TaskProcessor` with `MessageExecution` and `GatewayTasks`, so that a stored id is related to effects on chain;
2. replace the ordered listener of `Relayer` by `SolanaListener`, and show the result to implement an end-to-end `EventFeed`;
3. state what the state file promises as a specification of its own, a register per field that loses nothing it
   acknowledged, and prove `StateFile` to implement it, as is done for the listener and the task loop.
