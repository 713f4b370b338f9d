# A verification project for klett

klett is a monorepo of five programs. This directory holds TLA+ models of the
concurrent core of three of them (cunk, sor, luft), the TLC runs that check them and the TLAPS proofs about them.
`PROJECT.json` lists the components, the runs, the source lines behind every
definition, the findings, the hazards and the theorems.

    tlc -workers 2 -config MCMPMCQueue.cfg MCMPMCQueue      # a run
    tlapm SorGatewayProofs.tla                              # a proof

## 1. The system

### cunk: a concurrency library (C++)

| component | state | operations | what makes it correct |
|---|---|---|---|
| `MPMCQueue` | `head_`, `tail_`, slots with a sequence number and data | `try_push`, `try_pop`, `size_approx`, any thread | first in first out; a slot's data has one user at a time; a call fails only when it may |
| `ThreadPoolExecutor` | a queue per worker, an overflow queue, `stop_` | `submit` from any thread, `worker_loop`, `shutdown` | a queued task runs exactly once; shutdown drains and returns |
| `Scheduler` | heap of deadlines, `running_` | `schedule_once`, `schedule_periodic`, `cancel`, loop, `shutdown` | tasks run when due; shutdown returns |
| `EventLoop` | handlers by event type, event queue, stop flag | `on`, `off`, `dispatch`, `run`, `run_for`, `stop` | every event reaches every handler; stop stops |
| `AsyncTask` | shared value or exception, one continuation | `get`, `then`, `set_value`, `set_exception` | a chained task becomes ready |
| `BackpressuredQueue` | a queue and a policy | drop, block, reject | a push enters one item or says that it did not |

All of them are modelled. The pool and the event loop are built on `MPMCQueue`. Hard: lock-free steps
that interleave anywhere, notifications that meet nobody waiting, shutdown
against submissions that are under way.

### sor: a smart order router (C++, Python tools)

Clients hand orders to `Gateway`. Its order thread takes them from a queue,
asks `RiskManager`, lets `RoutingEngine` and a strategy split the order into
slices, tracks the parent and its children in `ExecutionHandler` and sends the
children to the venues. A venue (`SimulatedExchange`; `FixAdapter` speaks FIX)
matches on its own thread and pushes execution reports. The execution thread
applies the reports and runs the callbacks they trigger: fills go to
`FillManager` and `RiskManager`, a filled parent is complete, and a parent
whose children all ended early is *rerouted* - `process_single_order` again,
now on the execution thread. Market data (`book`, `aggregator`, feeds, replay)
is read by the strategies. `KillSwitch` and `RateLimiter` make the risk check
refuse.

Below the gateway: the queues between its threads are rings (`MPSCQueue`,
`SPSCQueue`); `MemoryPool` hands out slots from a lock-free stack; `RateLimiter`
counts the orders of a second without a lock; a `BookSide` is a sorted array of
price levels; `MarketDataAggregator` keeps the venues' books and the NBBO;
`RoutingEngine` reads both and one of four strategies turns them into slices.

What makes it correct: no more is executed than the client asked for; every
execution is counted once, on the parent, in the fill manager and in the
position; limits hold; an order ends, and its client is told once; a canceled
order stays canceled. Hard: the same order is worked on by two threads; state
is copied under one lock and used under another; queues are bounded and their
full state is ignored; reports arrive when the order has moved on.

### luft: a flight simulator (C++)

`SimulationEngine` is a state machine stepped by main's thread and controlled by
it, by its window's buttons and by the network thread; `NetworkService` serves
telemetry and command clients with epoll and non-blocking sockets;
`MessageCodec` cuts a byte stream into messages; `InputManager` holds the
controls. The flight model is floating-point physics. Hard: a signal, an error,
the time limit or the window end the program while the other thread works on
the same engine; peers send in pieces, stop reading, close and reset.

### nash and kaleidoscope

`nash` computes equilibria of bimatrix games (floating point, sequential);
`kaleidoscope` is a lexer of 63 lines.

## 2. Modules

| module | models |
|---|---|
| `MPMCQueue` | `MPMCQueue.h`, one action per atomic access |
| `TicketQueue` | what `MPMCQueue` promises: a bounded FIFO of positions, no ring |
| `Tickets` | the two conditions under which push and pop succeed, shared by `TicketQueue` and `ThreadPoolExecutor` |
| `MPMCQueueProofs` | theorems about `MPMCQueue` |
| `SorComponentProofs` | positions in a ring and their indices; theorems about `SPSCQueue`, `MPSCQueue`, `MemoryPool`, `RateLimiter` and `BookSide` |
| `ThreadPoolExecutorProofs` | theorems about `ThreadPoolExecutor` |
| `SorGatewayProofs` | theorems about `SorGateway`: its state, its orders, `stop` |
| `SorAccountingProofs` | sums over orders and reports; the fills and the position of `SorGateway` |
| `SorRoundsProofs` | with one slice at a time: what `SorGateway` may send, the position limit, that no order is forgotten |
| `CunkCoordinationProofs` | theorems about `BackpressuredQueue`, `EventLoop` and `AsyncTask` |
| `LuftNetworkProofs` | theorems about `LuftNetwork` |
| `ThreadPoolExecutor` | `ThreadPoolExecutor.cpp` over queues of `TicketQueue` kind |
| `OrderStateMachine`, `SorOrders` | order states, the transition table, order records |
| `SimulatedExchange` | a venue: book, cancel, matching loop, reports |
| `ExecutionHandler` | tracked orders, `on_execution_report`, deferred callbacks |
| `RiskManager` | limits, pending quantities, position, kill switch |
| `SorGateway` | the composition: both threads, the queues, routing, callbacks, stop |
| `MPSCQueue`, `SPSCQueue` | sor's rings, access by access, as implementations of `TicketQueue` |
| `MemoryPool` | the tagged free list |
| `RateLimiter` | the window counter and its roll-over |
| `BookSide` | the array of price levels, beside a reference that is a set of levels |
| `MarketRouting` | NBBO, aggregated book, `route_order`'s two reads, the four strategies |
| `Scheduler`, `EventLoop`, `AsyncTask`, `BackpressuredQueue` | cunk's coordination primitives |
| `SimulationEngine` | luft's lifecycle operations, extended by |
| `LuftApp` | main loop, network thread, signal and shutdown |
| `LuftNetwork` | polling, clients, framing, peers and the kernel's sockets |
| `MC*` | constants and symmetry for TLC; `MCSorComponents`, `MCCunkCoordination` and `MCLuft` put components that share no state into one run, a behaviour exercising one of them |

### How the state and the steps correspond to the code

**MPMCQueue.** The variables are the class members and the locals of each
call. A step is one atomic access with the branch on what it read; the plain
access to a slot's data is a step of its own, so that two threads at one slot
would be visible as a state. `compare_exchange_weak` may fail spuriously.
Accesses interleave sequentially consistently: the data are ordered by acquire
loads and release stores of the slot's sequence. The relaxed loads of
`size_approx` could be reordered by a weaker machine than x86-64; its bound is
shown for loads in program order. `log` is a history variable.

**ThreadPoolExecutor.** A queue is the tape of accepted tasks, the number taken
and the positions being written and read, i.e. the state of `TicketQueue`,
which `MPMCQueue` is proved to implement. Claiming and publishing are two
steps, so are taking and releasing: a push fails while a popping worker holds
the slot, and a pop fails while the oldest position is unpublished although
later ones are ready. Loading `stop_` and drawing a worker are one step (the
counter is only used by `submit`). The wait evaluates its predicate and blocks
in two steps, because `shutdown` notifies without the mutex. A woken worker
whose predicate is false waits on, so `submit`'s `notify_one` is no step.

**SorGateway.** One step per critical section. Steps no other thread can tell
apart are one: the risk check and the tracking of an order without children;
tracking a child and `on_order_accepted`; the fill callback and the copy of the
parent to reroute. A venue's pass over its pending orders is one step per
order. Data are abstracted to what the properties tell apart: prices,
probabilities and latencies appear as the outcomes `try_match` may have
(missed, partly or fully filled, rejected, canceled), the market data as the
decisions a strategy may return: `BestPrice` one slice of everything,
`LiquiditySweep` at most everything over several venues. Notional, loss and
rate limits are a refusal that may happen at any check (`MayRefuse`); both
checks of an order, in the gateway and in the engine, are there. Order
statistics and average prices are left out. The position limit is exact.

**sor below the gateway.** `MPSCQueue`, `MemoryPool` and `RateLimiter` have one
step per atomic access; a compare-exchange may fail spuriously. The tag of the
pool's head and its counter wrap, at 3 and 4 instead of 2^32 and 2^64; a slot's
owner may write anything over its link. `NotLapped` is the pool's one
assumption: no thread is overtaken between its load and its exchange by as many
exchanges as there are tags. `SPSCQueue` joins the load of the own index to
that of the other side's: nobody else writes it. `BookSide` runs the array
operations beside a set of levels; `misled` records the two cases in which they
differ. In `MarketRouting` a side of a book is a function from price to
quantity, a strategy an operator from the aggregated levels to the *set* of
decisions it may return: fees, latencies and fill rates only rank venues, and
every ranking is allowed, as is either rounding of the floating-point pro-rata
share. A decision is left in the state only as what the properties quantify
over.

**cunk's coordination.** A condition wait is three steps (predicate with the
mutex, block, wake up), so that notifications without the mutex can fall in
between. `wait_until` in `scheduler_loop` reads its deadline through a reference
into the heap's vector; after a push the model lets it be the old deadline, the
new first task's, or one that never comes (the vector may have been
reallocated: undefined behaviour). `EventLoop`'s waits last at most a
millisecond; its queue keeps no more than `MPMCQueue` promises: `Dispatch` claims a
place and `DispatchPublish` fills it, `ProcessPop` takes the oldest and
`ProcessRelease` frees it, and in between a pop fails behind an unpublished event
and a push while the place of the lap before is held (`HasRoom`). `AsyncTask` has
one step per critical section and one for a continuation, on whichever thread it
runs. `BackpressuredQueue` records for every entry whether it was moved from before
it entered (`try_push` takes its item by value), and which pushes had an attempt
that failed (`failed`).

**luft.** Every engine operation is one critical section. A `Reset` is two,
`initialize` and `start`, from either thread. In `LuftNetwork` a message is
known by its length, the length its header declares, what its payload would
declare if it were taken for a header, and whether it deserializes; the stream
is cut at any unit. One turn of `try_parse`'s loop is one step, which queues a
message (`ParseMessage`), empties the buffer (`ParseDiscard`) or ends the loop
(`ParseEnd`); peers go on meanwhile. Client sockets are edge-triggered, listeners are not. The
kernel and the peers are external: what `recv`, `send` and `epoll_wait` may
answer.

## 3. Runs

| run | instance | shows |
|---|---|---|
| `mpmc_queue` | 2 producers, 2 consumers, 1 observer, 2 slots, 3 pushes; 1.3 million states | `SlotExclusive`, `PopReturnsPushed`, `FailuresJustified`, `ApproxWithinCapacity`, the inductive invariant `IInv`, and refinement of `TicketQueue` |
| `thread_pool` | 2 workers, 2 submitters, 3 tasks, queues of 2; 480 thousand states | `ExactlyOnce`, `DrainedAtShutdown`, `ShutdownReturns`, `EventuallyRun` |
| `thread_pool_full` | 1 worker, 5 tasks: both queues overflow | the rings keep their bounds (`TypeOK`) while tasks overflow and are dropped |
| `thread_pool_overflow` | violated: `NoTaskLost` | finding 1 |
| `gateway_one_slice` | 2 venues, one order of up to 3 units, one slice at a time, up to two reroutes, with cancel, refusals, kill switch and `stop` | `NoOverAllocation`, `CompletionSound`, `NoStrandedParent`, `SendsReachVenue` |
| `gateway_reports` | sweeps over 2 venues, rejects, report queue of 3 that loses reports; 1.5 million states | `FillAccounting`, `FillsRecorded`, `TerminalFinal`, types |
| `gateway_liveness` | 2 orders of 2 units on either side, resting or immediate, one venue, position limit 3, fairness; 80 thousand states | `ExposureWithinLimit`, `EventuallyCompleted` |
| `gateway_sweep_race` | violated: `NoOverAllocation` | finding 2 |
| `gateway_cancel` | violated: `CancelEndsOrder` | finding 3 |
| `sor_components` | pool: 2 threads, 2 slots, 3 tags; limiter: 2 threads, limits 1 and 2, 3 seconds; MPSC: 2 producers, 2 cells, 3 pushes; SPSC: 4 slots, 6 pushes; book: 4 prices, depth 3; routing: 2 venues, 7 books each, all strategies; 231 thousand states | `PoolPartition`, `RateLimitKept`, `MpscImplementsTicketQueue`, `SpscImplementsTicketQueue`, `BookMatchesReference`, `NbboIsTopOfBook`, `DecisionWithinOrder`, `IocWithinSlippage` |
| `cunk_coordination` | scheduler: 2 tasks, once or periodic, 3 instants; loop: 3 events of two types, 2 handlers, a queue of 2, 2 runs; chain of 3 tasks; 2 producers on a queue of 1 under every policy; 134 thousand states | `ShutdownJoins`, `ScheduledRuns`, `StopEndsRun`, `QueuedReachesHandler`, `OffEndsCalls`, `ChainAdvances`, `PushEntersOnce` |
| `luft` | 2 commands, 3 instants, with and without network, window and time limit; 2 peers on a port with 1 place, 2 messages of 3 units or malformed, 2 telemetry frames; 223 thousand states | `AppExits`, `CommandsInOrder`, `CommandsArrive`, `TelemetryWhole` |

### What the new components' properties say

- `PoolPartition`: the stack links exactly the slots nobody holds, each once,
  whatever a preempted thread saw; the counter is off by the calls between
  their exchange and their count.
- `RateLimitKept`: in a second that was opened while no other call was under way
  at most the limit passes; otherwise fewer than
  `threads * (limit + threads - 1)`, unless the limit was changed meanwhile. With
  two threads that bound is met exactly.
- `BookMatchesReference`, `NbboIsTopOfBook`, `DecisionWithinOrder`,
  `IocWithinSlippage`: the array against the set, the cache against the books,
  and what `SorGateway` takes for granted of a strategy, for every market of the
  instance, also one that moved between the NBBO and the book.
- `ShutdownJoins`, `ScheduledRuns`, `StopEndsRun`, `ChainAdvances`, `AppExits`:
  what must eventually happen, with the exact circumstances in which the code
  fails to make it happen as an alternative in the formula. Each alternative is a
  hazard of the code (section 5) that the formula does not forbid: it says that this
  is all that goes wrong. Without any of these alternatives TLC finds the formula
  violated; the same holds of `misled` in `BookMatchesReference`, of `lateVenue` in
  `NbboIsTopOfBook`, of `threads - 1` in `RateLimitKept`, of what
  `DrainedAtShutdown` lets a task stay behind, and of the rejects that
  `gateway_one_slice` leaves out for `NoStrandedParent`.
- `PushEntersOnce`: a push enters one item or none, as it says. The item is the
  caller's, unless the policy is to block and an attempt of this very push has failed
  before: a push that drops or rejects never enters a moved-from item, and neither
  does a blocking one that found room at once. Without the alternative for the
  blocking push that tries again TLC finds it violated.
- `CommandsInOrder`, `TelemetryWhole`: a stream in pieces in both directions.
  `CommandsArrive`: what has arrived in full is dispatched while its client stays
  connected. Both properties of commands are about clients that frame their
  messages as the protocol says.

### Bounds

- `MaxPush` 3 with 2 slots takes the ring into its second lap: a slot is
  reused while the previous lap's consumer may still hold it, and a stalled
  thread can be a lap behind. Both roles have two threads, which is what a race
  for one position needs. The proofs remove the bounds.
- `MaxTasks` 3 with 2 workers puts two tasks into one worker's queue, an
  unpublished one in front of a published one, and lets the other worker steal;
  5 tasks with one worker fill its queue (2), the overflow queue (2) and drop
  one. Tasks are numbered in submission order, which loses nothing: a task is
  only its identity.
- `MaxId` bounds the identifiers handed out to parents and children, `MaxParents`
  the client orders: one order with two reroutes is 4 identifiers. `Quantities`
  up to 3 allow a partial fill after a partial fill. `ReportCapacity` 3 is
  smaller than the reports two slices produce, so reports do get lost; 20 means
  the queue is never full.
- Two threads are what a race for the pool's head, a window or a cell needs; a
  third instant lets a window roll over twice. Three tags and two slots let a
  slot be taken, returned and taken again behind a preempted thread, which is
  the ABA case: with the tag carried over (a mutant) the run finds it.
- SPSC's 6 pushes go round 4 slots and on; MPSC's 3 pushes go into the second
  lap of 2 cells. Four prices in a side of depth 3 make it full and evict.
- Two peers for one place, so one is refused; two messages of 3 units, so that a
  segment ends inside a header, inside a payload and after it.
- `Horizon`, `AppHorizon` and `LastSecond` end the clock; nothing fair depends on
  an instant after the last (tasks are scheduled within the horizon).
- Deadlock is not checked where behaviours end by design: `MaxPush`,
  `MaxTasks`, `MaxId` in `gateway_reports`, and after `stop` in
  `gateway_one_slice`; and in the runs of several components, whose behaviours end
  at their bounds. It is checked in the other gateway runs.
- Symmetry over venues, threads and items is used for safety only. In
  `cunk_coordination`, which checks liveness, events and handlers are named in the
  order in which they come instead (`NamedInOrder`). Three events can meet a full
  queue of 2.

### Fairness

- Pool: a thread inside `submit`, a worker and the thread in `shutdown` take
  their next step eventually (threads are scheduled; nobody holds a lock over
  the steps). A blocked worker's step is the timeout of `wait_for`, 100
  microseconds. Nobody is obliged to call `submit` or `shutdown`. Tasks return.
- Gateway: both loops and the venues' matching threads keep running (weak
  fairness). Strong fairness on filling at each venue stands for the market: while orders
  rest on a book, some order that is visited is executable again and again. It
  is an assumption about prices and the fill probability, not about the code.
  `EventuallyCompleted` then says that the router does not itself lose a
  resting order.

- Scheduler, event loop, tasks, luft: a thread inside a call takes its next step,
  time passes, a poll returns. Nobody is obliged to call `schedule`, `shutdown`,
  `dispatch`, `stop`, `then` or `get`, no signal has to come and no peer has to
  send; a `dispatch` that has claimed its place publishes it (`DispatchPublish`). Each action of fairness is weak: none is disabled again and again by
  another thread for ever, but for locks that are held for one step.

## 4. Proofs

Every theorem holds for all values of the constants that meet the named
assumptions; the bounds of section 3 do not appear in them. Each rests on an
inductive invariant, because the property itself never is one: it says what may
not happen and not why the step that could make it happen is disabled. TLC
checked every inductive invariant on the instances of section 3 before it was
proved. A proof has one lemma per action and, below it, one step per conjunct
that the action can disturb.

| theorem | property | inductive invariant |
|---|---|---|
| `Invariance`, `NoDataRace`, `Fifo`, `SizeApproxBounded` | `IInv`, `SlotExclusive`, `PopReturnsPushed`, `ApproxWithinCapacity` | `IInv` of `MPMCQueue` |
| `FailuresAreJustified` | `FailuresJustified` (action) | the same |
| `Refinement` | `ImplementsTicketQueue` | the same |
| `SpscRefinement`, `MpscRefinement` | `SpscImplementsTicketQueue`, `MpscImplementsTicketQueue` | `SpscIInv`, `MpscIInv` |
| `PoolTypes`, `TasksRunOnce`, `ShutdownDrains` | `TypeOK`, `ExactlyOnce`, `DrainedAtShutdown` of the thread pool | `IInv` of `ThreadPoolExecutorProofs` |
| `GatewayTypes`, `SendsMeetVenues`, `TerminalStatesFinal` | `TypeOK`, `SendsReachVenue`, `TerminalFinal` (action) of the gateway | `IInv` of `SorGatewayProofs` |
| `FillsReachThePosition`, `FillsAddUp` | `FillsRecorded`, `FillAccounting` | `Accounting` of `SorAccountingProofs` |
| `NothingSentTwice`, `CompletionsAreSound` | `NoOverAllocation`, `CompletionSound` | `Lossless` of `SorRoundsProofs`: `Market` and `Rounds` while no report is lost |
| `PositionStaysWithinLimit` | `ExposureWithinLimit` | `Bounded` of `SorRoundsProofs`: `PendingCovers` and `Exposed` while no report is lost |
| `NobodyIsForgotten` | `NoStrandedParent` | `Remembers` of `SorRoundsProofs`: `Tended` and `Cared` while no report is lost |
| `PoolSafety` | `PoolPartition` | `PoolIInv` |
| `RateKept` | `RateLimitKept` | `RateIInv` |
| `BookIsReference` | `BookMatchesReference` | `BookIInv` |
| `PushesEnterOnce` | `PushEntersOnce` | `PushInv` |
| `OffsEndCalls` | `OffEndsCalls` | `LoopInv` |
| `ContinuationsGetTheValue` | `ArgumentsSet`, the safety part of `ChainAdvances` | `AsyncInv` |
| `TelemetryIsWhole`, `CommandsStayInOrder` | `TelemetryWhole`, `CommandsInOrder` | `NetInv`: `Telemetry` and `Commands` of every peer |

### The arguments

**MPMCQueue.** `IInv` says what a sequence number stands for. The slots serve the
*window* of positions from `tail` to `tail + Capacity - 1`, one each (arithmetic
lemmas `SlotLap`, `SlotInjective`, `WindowCovers`). In the claimed part of the
window a slot carries its position, and then a producer owns it, or its position
plus one, and then it holds the item of that position. In the free part it
carries its position, or the previous lap's and then a consumer owns it. Threads
own distinct positions. `StaleReads` is about the gap between a check and its
compare-exchange: if the counter is still the position that was checked, the slot
is still what it was.

The refinement maps `head`/`tail` to the length of the tape and the number taken,
and a thread's position to "being written" or "being read" from its
compare-exchange to its store. Only the two compare-exchanges need an argument
(`ClaimRefines`, `TakeRefines`): the sequence number they relied on excludes a
full ring, a consumer one lap back, an empty ring and a producer at the tail.
Everything before them is a stutter.

**SPSCQueue, MPSCQueue.** The indices of the first are the history's positions
modulo the ring, never a full lap apart, and each published position holds its
item. For the second the argument is that of `MPMCQueue` with one consumer, whose
three stores give it three different views of what is taken and what is free
(`MpscTaken`, `MpscFreed`). `MpscRefinement` assumes a capacity of at least two;
section 5 says why.

**ThreadPoolExecutor.** `Publishers` and `Readers` tie the positions being written
and read to the one thread that holds each; `TasksApart` says that a task is with
one `submit` or at one position of one queue; `RunsCounted` that it ran if that
position is behind `taken` and released. For `DrainedAtShutdown` the invariant has
to speak of workers that are already past their drain: after `stop_` is set only
a `submit` that overlaps it can still add to a queue, so what a worker found
empty or blocked stays so but for such tasks (`Stopping`).

**SorGateway.** A parent is never a child (`Family`); venues and reports know
children only (`VenuesSeeChildren`); a client's order is untracked until
`process_single_order` tracks it, and it waits at one place (`WaitingOrders`); what
either thread works on is a tracked parent, and a parent that is copied for a
reroute is open until it is tracked again (`Working`), because only the execution
thread changes the state of parents with children. From these, `TerminalFinal` is a
question about the transition table and about `track_order`, which overwrites.
`Connections` is the join order of `stop`.

**Fills and position.** `FillAccounting` and `FillsRecorded` are sums over children,
reports and venues. Of `SumFunctionOnSet` the proofs need that it is additive
(`SumPlus`), that changing one value changes the sum by the difference, and that it
does not depend on elements with the value 0; each is shown from the fold's own
definition, by a smallest set for which it would fail. `Accounting` then gives every
execution a place: an entry of a book executes at most its quantity, each child's
executions are what its fill manager entry, the reports and the callback under way
hold (`Recorded`), and those of a parent's children are what the parent shows as
filled, what its reroutes carried away, and the reports (`Balance`). Applying a report
moves a number from the reports to child and parent at once; a reroute moves it from
`filled` to `carried`.

**What is sent.** `NothingSentTwice` and `CompletionsAreSound` are about an order that
goes through rounds. `Market` follows one child through the venue: it is on its way,
on one book once, or reported on, and nothing is reported about it after its end
(`Reporting`, in the order of the queue). `Rounds` says that of the children of an
order at most one is busy (`OneAtATime`); that while it is busy it is in step with its
parent, whose filled quantity is what the child executed but for the reports
(`InStep`); and that a thread which prepares a child works on an order without busy
children, for exactly what is left of it (`FirstRound`, `NextRound`, `JobSizes`).
So the two threads never prepare for the same order (`Apart`).

Both theorems have two hypotheses. `Strategies \subseteq {"BestPrice"}`: with several
slices the first may end while the second is not yet tracked, and finding 2 is a run
in which the order is then sent twice. `lostReports = << >>`, in the property: a child
of whose executions a report was lost ends with its parent showing less than was
executed, and the reroute sends that part again. Up to the first loss nothing is
assumed about the size of the report queue.

**The position limit.** What `check_order` adds up are the fills it knows and what it
counts as pending, and both lag behind the venues. `PendingCovers` says that what is
pending on a side covers what its children have not yet had recorded: `on_order_accepted`
adds a child's whole quantity and `on_fill` takes off each fill, so the count errs on the
safe side only (a child that ends unfilled stays counted). `Limited` bounds what is about
to happen: a child that is busy weighs all of its quantity, and so does the newest child of
an order whose rest the execution thread is about to send (`Weight`); to these comes the
order that the order thread has passed through its checks but not yet sent (`Cleared`).
Only passing the second check adds to this sum, and then `WeightsBounded` and
`CheckedBound` bound it: nobody weighs more than its fills and what is pending for it. The
slice that follows moves the weight from `Cleared`, or from the child before (`Successors`:
what that child left is what is sent), to the new child. So it does not matter that both
threads may check before either sends: the execution thread's order has its weight already.
The hypotheses are the two above.

**No order is forgotten.** `Cared` names, for every order of a client, what it waits for
(`Attended`): a place in the order queue, a thread that prepares its next child, a busy
child, or the callback that is due; or it was completed or refused. Only the report that
ends a child takes a reason away, and then `RoundEnds` has it start the next round or
complete the order: an end filled means that the parent is full, any other end that there
is a rest, that the other children have ended and that the child is terminal. The last
part is what could fail, because the handler runs a report through the transition table
and keeps the old state when the table refuses it. `Tended` is why it does not
(`ReportTaken`): what is on a book is in the venue's queue (`Queued`), a child's first
report is the acknowledgement (`Greeted`; `GreetsTail`), and a venue rejects an order of
its own accord only if it is fill-or-kill, which is never filled in part (`Firm`).

Hence the third hypothesis, `VenueRejects = FALSE`: a venue that rejects at random also
rejects orders it has filled in part, the table refuses the reject, and the order is
stranded (section 5, smaller observations).

**MemoryPool.** The tag of the head counts the exchanges modulo its size; a call
that was not overtaken sees the current head and the current link behind it, and
one that was overtaken fewer times than there are tags fails its exchange
(`Fits`). So a successful exchange pops what the stack really has on top. The
hypothesis that nobody is overtaken by a whole round of tags is the guard
`NotLapped` of the model.

**RateLimiter.** Undisturbed, the counter is what was granted plus what will be
undone (`CountExact`). Disturbed, each of at most `threads - 1` late stores can
reset the counter and let `limit + threads - 1` through; `GrantsBudgeted` adds what
was granted, the room left in the counter and what each store to come may add,
and never exceeds the total. An earlier form of the property, `threads * (limit +
1)`, is true of two threads and was refuted by TLC for three.

**BookSide.** The levels are ordered in all pairs, not only neighbours, and their
set is the reference. `InsertionPoint` and the search for a price are minima, whose
existence comes from the well-foundedness of the naturals (`WFMin`); that evicting the last level leaves
the best `BookDepth` is a matter of cardinalities (`BestOfFew`, `BestDropsWorst`).

**BackpressuredQueue, EventLoop.** A push under way is in neither outcome set
(`PushesEnd`); before its first attempt it has its item, and one that tries again
has failed before and is a blocking one (`Attempts`, `Retried`). `Arrivals` equates
what entered with what was accepted. So `PushesEnterOnce` says of the item what
`PushEntersOnce` does and no more: it is the caller's, but for a blocking push after
a failed attempt. A removed handler is not registered, and once it
was called late it is in no copy still to be worked off (`RemovedStay`).

**AsyncTask.** A continuation is stored, or about to run, only while it has not run,
and by one thread (`ContinuedOnce`); so nobody moves the value out between the
completion and the function but a `get` (`ValueKept`). That it runs once rests on
every task being completed once (`CompletedOnce`): the first by the producer, every
other by whoever ran the continuation of the one before.

**LuftNetwork.** `Telemetry`: what a client has received and what is left of its
send buffer are together whole frames, all older than a frame still in the single
slot. Draining the slot puts a whole newer frame behind them (`FrameAdded`);
sending moves units from the front of the rest to what was received and changes
nothing of the whole (`RestSplits`), and what was received is whole as its
beginning (`WholePrefix`). A reset connection may lose its rest, but then receives
no more. `Commands`: of the messages a client has sent, those up to some `d` have
been dispatched, if they make sense (`Given`), those up to `k` are parsed and
queued (`Parsed`), and the others lie behind one another in what is buffered, has
arrived and is still to arrive, taken as one sequence (`Laid`, by the positions
where they begin). Reading and delivery move units inside that sequence
(`UnitsMove`); so the buffer always begins with a message (`FirstUnit`), its
declared length is one the parser accepts, and the buffer of such a client is
never emptied (`ParseDiscardInv`).

### Assumptions

Capacities, limits and bounds are naturals and not zero where the code has a
`static_assert` or rounds up (`CapacityAssumption`, `SpscCapacityAssumption`,
`MpscCapacityAssumption`, `PoolAssumption`, `PoolSizeAssumption`, `TagAssumption`,
`RatesAssumption`, `BookDepthAssumption` and the like); threads are finitely many
where they are counted (`PoolThreadsAssumption`, `RateThreadsAssumption`), and so are the
identifiers of orders and the venues (`FiniteAssumption`: 64 bits, a configuration); events
have a type (`LoopTypesAssumption`); the event queue has at least two places
(`LoopCapacityAssumption`: `MPMCQueue` rounds up to two); a frame is at least its header (`NetAssumption`) and
messages have lengths (`MessagesAssumption`); prices and quantities are naturals; the value
for "no item" is no item. TLC evaluates all of them in the runs.

### Only model-checked

- Liveness: `ShutdownReturns`, `EventuallyRun`, `EventuallyCompleted`,
  `ShutdownJoins`, `ScheduledRuns`, `StopEndsRun`, `QueuedReachesHandler`,
  `ChainAdvances` (but for its safety part), `AppExits`, `CommandsArrive`: fairness
  and `ENABLED` are out of the prover's reach.
- `NoOverAllocation`, `CompletionSound` and `NoStrandedParent` of the gateway with sweeps
  or after a lost report, where they do not hold, and `ExposureWithinLimit` there.
- `NbboIsTopOfBook`, `DecisionWithinOrder`, `IocWithinSlippage`: the NBBO is folded
  over the venues and the strategies fold over the levels of the aggregated book;
  what a fold computes for every input takes an induction over data.
- What `LuftNetwork` does for a client that declares an impossible length, whose
  messages the parser may lose or misread.

## 5. Findings

1. *Overflow loses tasks* (`thread_pool_overflow`). `try_push` takes the task by
   value; after it fails on a full worker queue, `submit` pushes an empty
   function into the overflow queue. The worker that calls it swallows the
   exception.
2. *A sweep can be sent twice* (`gateway_sweep_race`). If the first slice ends
   before the second is tracked, all children look terminal and the whole rest
   is rerouted while the order thread still sends its slices.
3. *Cancelling reroutes* (`gateway_cancel`). A canceled child makes the handler
   reroute the parent, whoever asked for the cancel.

Observed while modelling, without a run of their own (a property of a passing
run states the exact behaviour where one is named):

- A cancel can overtake its order (`gateway.cpp:235`): the order thread drains
  the order queue, then the cancel queue; an order and its cancel pushed in
  between are taken in the opposite order and the cancel is dropped.
- `on_order_accepted` counts open orders up and nothing counts them down
  (`risk_manager.cpp:216`): `max_open_orders`, "max concurrent open orders" in
  `developer_guide.md:505`, becomes a limit on the orders ever sent.
- `Scheduler::shutdown` can wait for good (`Scheduler.cpp:81`, `ShutdownJoins`),
  and a task scheduled while the thread sleeps may run late or never (line 146,
  `ScheduledRuns`). `cancel` always returns false.
- `EventLoop::stop` is forgotten if it falls between lines 52 and 53 of `run`
  (`StopEndsRun`).
- A task chained behind one that fails never becomes ready, or its function reads
  a value that is not there (`AsyncTask.h:295` and `133`, `ChainAdvances`).
- The blocking policy enters a moved-from item after its first attempt failed,
  although `BackpressurePolicy.h:14` says "No data loss": the caller's item is lost
  and `push` returns true (`PushEntersOnce`).
- `RateLimiter` lets more than its limit through at a roll-over: how much more
  grows with the square of the number of threads (`RateLimitKept`).
- `MPSCQueue` with one cell, which the `static_assert`s at `mpsc_queue.h:27` allow,
  overwrites an item that was not read: the sequence number of a published
  position is the one the next position waits for. The router's queues have at
  least 4096 cells; `MpscRefinement` assumes two.
- `BookSide::insert_sorted` of a price that a full side already has drops the
  worst level for nothing; `update` takes an ask side of one level for a bid
  side (`BookMatchesReference`). `register_venue` does not recompute the NBBO
  (`NbboIsTopOfBook`).
- `VWAPStrategy` keeps the total of the first order it ever saw and is never told
  of a fill: a smaller order gets slices larger than itself
  (`DecisionWithinOrder`). No strategy looks at an order's limit price.
- luft with a network never ends without a signal: the network thread's loop
  tests only `g_quit_flag` (`main.cpp:289`). A command can take the engine out of
  `Error` before main looks (`AppExits`). After a `Reset` telemetry is silent
  until the simulation's time has caught up with `next_telemetry`.
- A command client that sends and closes may lose its last commands
  (`network_service.cpp:292`), and a malformed length makes the parser go on in
  the middle of the stream (`message_codec.cpp:42`).
  `NetworkService::stop` clears the client lists while the polling thread may
  hold a pointer into them.
- `try_push` also fails while a slow consumer holds the slot of the previous
  lap, although the header says "false if the queue is full";
  `FailuresJustified` states exactly when.
- A task whose `submit` overlaps `shutdown` may stay in a queue, and so may one
  that was queued earlier behind its unpublished position;
  `DrainedAtShutdown` states the exact promise.
- A reject after a partial fill is refused by the transition table, the child
  never becomes terminal and its parent is never rerouted. A sweep whose last
  child fills while an earlier one was cut short, or that covers only part of
  the order, is not rerouted either. `gateway_one_slice`
  checks `NoStrandedParent` where venues do not reject and orders are not swept.

## 6. Not modelled

Floating-point code (the flight model, `InputManager`'s smoothing, the solvers of
`nash`), parsing and drawing, feeds and replay, the FIX adapter and the client
gateways (message formats over sockets, in front of or behind operations that
are modelled), logging, metrics, configuration, the lexer of `kaleidoscope`: no
concurrent state of their own, or out of TLC's reach.

Within the modelled parts: tasks that submit tasks, changing risk limits at run
time (but for the rate), connecting venues, order statistics (incremented from
two threads without synchronisation), control inputs, destructors, observers
such as `pending_count` or the rings' `size()`, the wrap of 64-bit positions and
of the 16-bit telemetry sequence number, `NetworkService::stop` as seen from
inside `poll`.

The modelled files are a small share of the repository's lines: most of what is
in `src/` is build output and third-party headers (SDL, OpenGL, ImGui, nlohmann)
under `sor/build_gui` and the like, besides the user interfaces and tests.

## 7. What is left

1. `MarketRouting`: `NbboIsTopOfBook`, `DecisionWithinOrder` and `IocWithinSlippage`
   for every number of venues and levels, once an induction over folds can be proved.
2. `SorGateway` with sweeps: findings 2 and 3 mark where its properties stop
   holding; after a repair of the code the theorems of `SorRoundsProofs` should be
   extended to sweeps and lost reports.
