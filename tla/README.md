# monoloop: TLA+ models and proofs

This directory holds a formal model of monoloop, the Rust library that runs
agent transactions against provider connectors. The models are written from the
code under `src/crates/`; every definition that stands for code is listed in
`PROJECT.json` (`map`) with the file and the lines it was written from.

## The system

A host submits *transactions* on *channels*. The transaction runtime (v2,
`monoloop-loop/src/transaction/lifecycle/`, "lifecycle/" below) admits each one
into a ledger, runs its coordinator and its event publisher as Tokio tasks,
decides one terminal kind for it, seals its event stream, and sends one
completion. The coordinator opens a connector, feeds its output through an
interpreter, runs a loop over the interpreted units, dispatches tool calls and,
for external agents, serves tools over MCP.

| Part | Source (under `src/crates/`) | Module | Proofs |
|---|---|---|---|
| Supervisor, ledger, task registry, finalizer, owner | `lifecycle/{supervisor,task_supervisor,ledger,terminal,task_spawner,owner,…}.rs` | `Lifecycle` | `LifecycleProofs`, `LifecycleLedgerProofs`, `LifecycleOutcomeProofs` |
| Admission and reservations | `lifecycle/{admission,capacity}.rs` | `Admission`, `AdmissionContract` | `AdmissionProofs` |
| Event publisher, session identity | `lifecycle/{event_publisher,session_identity}.rs` | `EventPublisher` | `DeliveryProofs` |
| Event mailbox | `monoloop-contracts/src/delivery.rs` | `EventMailbox` | `WorkProofs` |
| Coordinator | `lifecycle/coordinator.rs` | `Coordinator` | `RunProofs` |
| Exchange with a provider | `lifecycle/exchange.rs` | `Exchange` | `RunProofs` |
| Loop and its dispatch | `lifecycle/loop_dispatch.rs`, `runtime.rs` | `LoopDispatch` | `LoopProofs` |
| Tool dispatcher, capacity, owned processes | `transaction/{dispatcher,tool_capacity,owned_process_registry,process_tool}.rs` | `ToolDispatch` | `RunProofs` |
| MCP gateway and bindings | `transaction/mcp/*.rs`, `lifecycle/mcp_*.rs` | `McpGateway` | `WorkProofs` |
| Connector core, HTTP, fakes; Claude and Z.ai runs | `monoloop-connector/src/{control,handles,open,http,fake}.rs`, `monoloop-connector-{claude,zai}/src/{lib,run}.rs` | `Connection` | `RunProofs` |
| Cursor, Codex and Antigravity | `monoloop-connector-{cursor,codex,agy}/src/{lib,process,session}.rs` | `AgentProcess` | `RunProofs` |
| Grok | `monoloop-connector-grok/src/{server,session}.rs` | `GrokServer` | `WorkProofs` |
| Sentence assembly | `monoloop-interpreter/src/sentence.rs` | `Sentence` | model-checked |
| Interpreter engine and dialects | `monoloop-interpreter/src/{engine,acp,openai_chat,zai_chat,claude_stream,…}.rs` | `Interpreter` | model-checked |

`MCLifecycle`, `MCAdmission`, `MCRun` and `MCWork` are the instances for TLC.
`MCRun` and `MCWork` hold several components each; `MCPart` lets one behaviour be
about one of them (`part`), while the variables of the others rest.

## The modules

**`Lifecycle`.** The supervisor is one async task. Its loop body is a *lap*, and
`pc` says what the lap does next: drain worker messages, drain control commands,
reap exits, drain spawn requests and look for a shutdown, the residual check of a
stopping runtime, `abort_and_drain`, and the `select!`. Other tasks run on other
threads, so their steps come between the steps of a lap.

| State | Code |
|---|---|
| `phase`, `terminal`, `pending`, `session_key`, `by_session` | `LedgerEntry` and `LifecycleLedger` |
| `completion`, `seal` | where the one-shot completion sender and the seal sender are |
| `start_q`, `control_q`, `worker_q`, `spawn_q` | the four bounded queues |
| `task`, `reaped` | `TaskSupervisor.meta` with its `JoinSet`, and joins not yet handled |
| `fin_pc`, `fin_kind`, `reply`, `ended` | `finalize_after_terminal` and the Ended event |
| `state`, `owner` | `RuntimeShared.state`, the `RuntimeOwner` |

`accept_terminal`, `on_task_exit` and `begin_shutdown_inner` are operators that
the lap's actions use, as in the code. Time is left out: a timeout may fire at any
moment. `select!` is a free choice among its ready branches, which allows every
order the code can produce. End kinds the code treats alike are one value. There
is one channel. `Submit` is one step; `Admission` opens it up.

**`Admission`.** A call goes through `idle, global, channel, ledger, lock,
install, row` and gives its permits back through `rel_ledger, rel_channel,
rel_global, done`. A compare-and-swap loop is one conditional increment. The
ledger's lock is a variable, because an entry dropped under it releases its
permits before the lock. The supervisor is reduced to what it does to a row.
`AdmissionContract` is the abstract specification: one indivisible admission.

**`EventPublisher`** has the senders behind the `OrdinaryCmdAdmit` gate, the
publisher's `select!`, the send that Seal interrupts, the fence, `finish_seal`,
and the finalizer's bounded wait. An enqueue takes two steps, the reading of the
deadline and the send; a poll is taken to be shorter than the 100 ms that the
finalizer waits longer than the publisher. **`EventMailbox`** is the byte budget
of the host's mailbox at the granularity of its atomic operations and
notifications.

**`Coordinator`** runs from its start to the parked proposal on every channel
`ChannelDescriptor::validate` accepts; an exchange is its outcome, a loop its
report. **`Exchange`** is `run_encoded_exchange` with its child tasks, the prompt
gate, the biased `select!`, the joins and every early return; connector and
interpreter are kept to what the exchange sees of them. **`LoopDispatch`** is two
tasks and two bounded queues: the coordinator feeds every unit before it drains
any output, the loop keeps the action table and its generations. It assumes that
an interpretation numbers its requests (`Numbered`) and that the loop's output
holds what its actions can produce; the interpreter's limit of 256 tool actions
against an output of 4096 is what makes that so.

**`ToolDispatch`** is `dispatch_with_cancel` for the handlers the factory accepts:
queue slot, the three capacity counters (given back one by one), body, grace,
give-up, orphaned permits, parked children, and the supervisor's stop check. A
cooperative handler is the host's own code: its drive may end without having sent
the completion, and the dispatch then waits for it without a deadline (`await`).
The transaction's and the tool's counters belong to one dispatcher, which a
coordinator builds anew for every continuation round; `NoOvercommit` is about one.
**`McpGateway`** is the route table, the binding's atom, services created on
demand, and a request from its first lookup to its tool call while routes
disappear under it. A response is one step: streamed bodies, and idle or half-open
connections that the listener's graceful shutdown waits for, are outside of
`RequestsAnswered`.

**`Connection`** is one raw connection: control flags and their notification,
handles, and the owner of each transport. A `select!` against the control is
three steps (flags read, `notified()` created, wait), since `notify_waiters`
wakes only futures that exist. **`AgentProcess`** writes the code the three
profiles share once, with the profile as a parameter; its owner's `select!` is in
the same three steps, and a control call stores its flag before it notifies. A write to the child's
stdin is taken to be accepted: `write_value` to a full pipe is not bounded by
`rpc_deadline` in the code. **`GrokServer`** is the shared server connection:
callers' RPCs, the one task that writes, reads and demultiplexes, both points at
which it can be parked, and sessions that come and go.

**`Sentence`** and **`Interpreter`** are pure algorithms driven by a stream that
is cut anywhere. A text is a sequence of symbols, one for each class the splitter
tells apart; a stream is a sequence of frames of one dialect, delivered in
half-frames. The reference definitions segment the whole text, and decode the
stream frame by frame.

## The runs

| Run | Instance | What it shows |
|---|---|---|
| `lifecycle` | one transaction with a spawned worker, both terminate operations, shutdown, owner drop | decision, Ended event and completion agree; no completion is lost; a decision is final and starts nothing; drained means nothing is owned |
| `lifecycle_pair` | two transactions, two sessions with room for one, one-place queues | the session index is inverse to the rows and within its limit; a parked proposal wins although its message may be lost |
| `lifecycle_live` | one transaction, fairness | an admission completes and its row is cleared; a shutdown drains although its command may be lost |
| `admission` | three calls, two channels, two sessions with room for one, `MaxGlobal` 2 | a ledger slot is always there; a shutdown sees every row; `Admission` implements `AdmissionContract` |
| `run` | exchange, coordinator (every valid channel), loop (every feed of up to three units), sentences, interpreter (four dialects) | clean ends, gated prompts, single dispatch, answered calls, results independent of how a stream is cut up to its terminator, what the final report counts; each part returns |
| `work` | mailbox, publisher, tools, gateway, connection (six owners), agents (three profiles), Grok server | safety of the parts around a transaction |
| `work_live` | publisher, tools, gateway, HTTP connection, fairness | the publisher stops, a dispatch and a quiescing end unless a drive breaks its contract, a request is answered, a connection ends whatever the server does |
| `peers_live` | Antigravity agent, Grok server, fairness | an agent's owner ends whatever its child does and whichever notification it misses, and a caller is released |
| `drop_completes`, `force_reported`, `residual_row`, `fragments` | see *Findings* | violations |

Every property of a passing run has a mutant: a changed definition, named after
the one it stands for and written just before it, that makes TLC find the
property violated.

**Bounds.** Queues have one place, so that every `try_send` can fail and every
`send` can wait; with the code's capacities the same loss or wait takes more
messages. A worker queue smaller than the code's is deliberate: it adds
behaviours and takes none away. Two of whatever competes (transactions, senders,
dispatches, requests, controllers, callers) are enough for two to share a queue,
a lap, a permit or a session; three admissions with a limit of two are the least
that can exceed it. `ShortLimits` makes each of the three tool counters the short
one in turn; `HandlerPairs` has every pair of handler kinds. Two runs cut the
state space with a constraint: `lifecycle` stops at a forced termination and at a
proposal other than completion while a worker is alive, `lifecycle_pair` at a
shutdown, at commands for the second transaction and at commands while a session
is bound. What lies beyond is covered for one transaction by the other runs, and
for any number by the theorems. `work_live` and `peers_live` have smaller
instances than `work`, because liveness is checked on the whole graph.

Deadlock is not checked: a runtime that has stopped, a host that submits nothing
and a part whose work is done rest. That they do not rest too early is what the
liveness properties say.

**Fairness.** No caller, host, peer or tool is assumed to do anything; what is
assumed is that Tokio polls a runnable task again and that timers fire.

- `Lifecycle!Fairness`: the supervisor, publishers, finalizers and aborts are
  weakly fair. `Reap` and `SelectStart` are strongly fair, because a drain of a
  bounded queue ends and a `select!` does not starve a ready branch for ever.
  That the coordinator comes to a proposal is an assumption there; `run` shows
  it separately (`ProposalParked`, `ExchangeReturns`, `DispatchReturns`).
- `EventPublisher!PublisherRuns`: a poll takes every step the task can take,
  except that an event waiting for room is never forced to be one that is
  refused for its size.
- `ToolDispatch`: dispatches, releases, the stop check, and a killed child's
  exit. No body ends by itself, and a completion a drive has not sent need never
  come.
- `McpGateway`: requests (their timers included) and the listener.
- `Connection`: the owner, the request deadline, and a control call that began.
- `AgentProcess`: the owner, except that no message need arrive in its input
  until the exchange drops it; a control call that began; both pumps; and a
  reader that reads, stops and lets go. The agent owes nothing.
- `GrokServer`: callers' own steps and the connection's when it is not the
  agent's turn. Nobody need read a session's output.
- `Exchange`, `Coordinator`, `LoopDispatch`: their own tasks, the gate's answer,
  and the deadline. A tool ends by its deadline (`DispatchEnds`).

## The proofs

The theorems hold for every value of the constants that satisfies the named
assumptions: absent values are outside their sets, capacities are positive,
limits are natural numbers, sets that are counted are finite, and kinds,
operations, channels and handlers are ones the code accepts. Every inductive
invariant was an invariant of a TLC run before it was proved.

**Lifecycle.** `NoLostCompletion` is not inductive: to know that a removed row
was sent its completion, one must know where the sender is at each point of the
finalizer, that the finalizer is never aborted while the owner is held, and that
a decided row has had a finalizer. `IndInv` says that: `CoreTaskHasRow`,
`DecisionInv` (phase, terminal and finalizer agree; a stopping supervisor leaves
no row undecided) and `CompletionInv` (the sender is in the row, with the
finalizer, or sent). `IndStep` has one case per action.

The other two modules classify steps instead of repeating the case analysis. In
`LifecycleLedgerProofs`, for the index (`SessionIndexHolds`, `SessionsBounded`) a
step leaves it alone and removes no row, or is a removal, an admission or a bind.
For the parked proposal (`ProposalStands`), `ParkInv` says that whatever is queued
for an undecided row is what is parked on it, and that a coordinator that has not
proposed has no proposal anywhere; `ParkFrame` says that a step decides only for a
parked or queued proposal, a control or a shutdown, or where nothing is parked.

In `LifecycleOutcomeProofs`, every step but the four that seal and report is one
that `TxFrame` and `TaskFrame` describe: it decides an undecided row, upgrades a
cancel, or leaves the row's outcome alone, and spawns only what the row's state
allows. `DecisionIsFinal` follows from the frame. `ReportInv` adds that from its
snapshot on the finalizer's kind is the ledger's up to an upgrade, and that an
Ended event carries it; this gives `DecisionReported` and `EndedIsReported`.
`DrainedOwnsNothing` needs `SenderInv` (a sender in the ledger has its row, one
that was taken has a running finalizer) and `DrainInv` (a ledger found empty by
a stopping supervisor stays empty).

**Admission.** `AdmissionInv` has three parts. `PoolInv`: each counter is the
cardinality of the set of calls that hold the permit. `CallType`: types.
`LedgerInv`: the index is the rows', whoever is about to install holds the lock
and what it checked still holds, and rows are the accepted calls.
`LedgerSlot` then follows by counting. For the refinement (`AdmissionRefines`), a
successful `Install` is the contract's `Accept`, `BindSession` is `Bind`,
`RemoveRow` is `Remove`, the shutdown steps are `Close`, and every other step is
a stutter.

**Delivery.** `PublisherInv` is `PublisherType`, `SequenceInv` (the counters
count the mailbox until Ended is in it), `SealInv` (the gate is closed wherever
the fence is at work), `FenceInv` (an accepted command is somewhere as long as
the publisher has not failed), `SessionInv` (an establish command precedes all
others while the publisher does not know the external session) and `FinalInv`
(the finalizer has the reply, or no Ended can follow). The five theorems are
consequences of it.

**Run.** `CoordinatorInv` says what each position has done with route, gate,
session, budgets and terminal; the five theorems about the coordinator are read
off it. `ExchangeInv` does the same for the exchange. `AgentInv` says what each
step of the teardown leaves done (`NothingOutlivesEnd`). `EndIsHonest` is an
action property: `PreferInv` (a control call past its preference finds one at
least as strong, so an accepted call cannot be overlooked by `finish`) and
`OutputInv` (a chunk that was enqueued is in the queue or received, as long as
there is a reader) make every step satisfy it; the owner's steps are grouped by
what they do to the output.

`NeverOvercommitted` is by counting: `ToolCountInv` (each counter is the number
of dispatches whose permit has not got past it on its way back), `ToolHoldInv`
(at each point of a dispatch, who holds the permit; a body the runtime can stop
runs only under a permit that still counts in all three) and `ToolStopInv`.

**Loop.** `LoopInv` ties the outputs queued and still to come to the dispatched
actions: their number (`RoomInv`, a weight of two for a registered and three for
an unavailable action) and their order (`OnceInv`). It gives
`NeverDispatchedTwice` and `OutputHasRoom`. `ReadyIsAnswered` (one result for
every action that was Ready, and so an answer for every call of the round) needs
three more:
`SeenInv` (the subscription holds what was fed and not taken, in order; every
Ready request taken is dispatched), `EndingInv` (where the two tasks can be when
the loop drained) and `AnswerInv` (a dispatched action has its result in the
queue or in the report, once, or is in progress; the end is the last output).

**Work.** `MailboxInv`: a sender that found the budget exceeded will be woken, or
what it found is still so. `BytesAreAccounted` adds the sum, with lemmas on
`SumFunctionOnSet` over a finite set that gains or loses an element. `GatewayInv`:
the binding's atom agrees with the table, and while a route is live all its permits
are of its one service. `SlotInv` (a request past the capability's permit holds it
until it is answered) makes `CallsAreBounded` of it: a call is let through only
while its route is live, and from then on it keeps its permit. `RpcInv`:
an id on its way to the agent or back is never given to another request.

## Only model-checked

- Liveness under fairness, which is out of the prover's reach:
  `AdmittedCompletes`, `CompletedIsCleared`, `ShutdownDrains`, `ExchangeReturns`,
  `ProposalParked`, `DispatchReturns`, `PublisherStops`, `DispatchEnds`,
  `RequestsAnswered`, `AgentEnds`, `HttpEnds`, `EndReleasesCallers`.
- `SplitAgrees`, `ChunksImmaterial`, `ReadyQualified`, `EndAccounted`: they are
  about recursive functions of a text or a stream, and would need induction over
  data.

## Findings

Four statements of comments or of the documents do not hold of the code;
`PROJECT.json` quotes them.

- `drop_completes`: dropping the owner sends `StopSupervisor`, which aborts a
  finalizer that holds the completion sender; that admission gets no completion.
- `force_reported`: the finalizer reads the kind once. A ForceTerminate accepted
  later changes the ledger and not the completion.
- `residual_row`: a spawn request still queued when the last registered task of
  its transaction is reaped starts after the row and its session key are gone.
- `fragments`: a blank that arrives in a later fragment than the sentence it
  follows stays in front of the next sentence, so the published text depends on
  how the stream was cut. Up to such blanks it does not (`SplitAgrees`).

Noted while modelling, where the models follow the code and no run is spent on
the difference:

- Supervisor: a row is `CleanupPending` before its completion is published
  (`supervisor.rs`, against the comment in `ledger.rs`). A coordinator may be
  aborted before its own `revoke_mcp`. On a shutdown `signal_mcp_shutdown` revokes
  every route; after a cancel nobody does, and the route stays in the table until
  the runtime stops.
- Tools: a queue slot whose dispatch is aborted between enqueue and permit is not
  given back to its dispatcher. A body on a thread of the handler's own may still
  run when the runtime is `Stopped`: `OrphanToolPermitSet::shutdown_progress`
  ("orphans never block `Stopped` after quiesce", `dispatcher.rs:61`) against
  `TRANSACTION_RUNTIME_V2_SPEC.md:815` ("Continue waiting for
  `CooperativeInProcess` work without pretending it is stopped", also 92, 646 and
  977). In the other direction, a drive that ends without sending holds its
  dispatch, and with it the stop, for ever: `drive_fut => wait.await`
  (`dispatcher.rs:656`, 865, 873, 894) has no deadline. `DispatchEnds` names that
  wait as the one exception.
- Gateway: a request that is past its second lookup may create a service again
  after the revocation; the handler refuses its call. A call that the handler let
  through before the revocation is not looked at again: it can wait up to 50 ms
  for capacity and start on a revoked route, although
  `TRANSACTION_RUNTIME_IMPLEMENTATION.md:1289` says of revoked calls that they
  "never reach a handler". `CallsBounded` says how many such calls there can be.
- Control: a waiter reads the flags before it creates its `notified()` future, so
  a notification can be missed. An HTTP owner ends all the same once the body has
  been handed over (`HttpEnds`), an agent's owner only when the exchange gives up
  waiting and drops the input (`AgentEnds`).
- Continuation: `append_tool_round` adds a call for every Ready unit. An action
  that was Ready twice is called twice under one id and answered once;
  `CanonicalInput::try_new` refuses a repeated id, `ContinuationContext::try_new`
  does not look for one.
- Exchange: the wait for the prompt gate has no deadline of its own. The last
  continuation round runs tools whose results are never sent.
- Grok: `max_pending_rpc` is checked under another lock than the insertion, so it
  is a soft limit; answering a client request can wait for room in the channel
  that the same task empties; that wait is not selected with the control, and
  ends only when the receiver is dropped with an aborted connection task.
- Interpreter: `push_bytes` looks for `[DONE]` once per chunk
  (`openai_chat.rs:65`), so the frames behind it are mapped when they came in its
  chunk and dropped when they came later, against `INTERPRETER.md:175` ("identical
  canonical output for every possible fragmentation"); `ChunksImmaterial` says so.
  The report does not count an SSE event that was cut off, because its bytes are in
  `line_carry` and `event_data_lines` and `quarantine_partials` looks at `frame_buf`
  (`engine.rs:662`), against `INTERPRETER.md:73` ("accounts for unresolved assembly
  state") and 785; `EndAccounted` says what is counted.
- Interpreter: an end of input within a frame still ends Complete on the line
  dialects, with the bytes counted as unresolved; an error in a chunk drops the
  fragments of earlier frames of that chunk; an ingest error ends without
  marking open tool actions Incomplete; a repeated update with arguments
  publishes a second Ready generation, which the loop then deduplicates
  (`DispatchOnce`).

## Not modelled

Clocks and the order of deadlines (a deadline is a choice; where two are ordered
by construction the module says so), the contents of messages, JSON and UTF-8
decoding, operating-system processes and sockets, configuration, diagnostics, the
encoders beyond whether they succeed, the interpreter's test dialect, and the
test kit. The parts are checked one by one: `Lifecycle` takes a coordinator,
publisher and finalizer as far as the supervisor sees them, and `Coordinator`,
`Exchange` and `LoopDispatch` take one another's outcomes. An abort of a
coordinator or of a loop in mid-step is in `Lifecycle` only, and a drain of the
loop that waits for room in the publisher's queue is not modelled. `PROJECT.json`
lists every part with what is left out of it.
