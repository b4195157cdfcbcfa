------------------------------ MODULE Lifecycle ------------------------------
(***************************************************************************)
(* The transaction runtime v2 of crates/monoloop-loop/src/transaction/     *)
(* lifecycle: the ledger of admitted transactions, the supervisor actor    *)
(* with its four queues and its registry of tasks, the per-transaction     *)
(* finalizer that seals the event stream and sends the one completion, and *)
(* the owner that begins shutdown, waits, or is dropped.                   *)
(*                                                                         *)
(* The supervisor is one async task whose loop runs in laps; every other   *)
(* task runs on another worker thread, so the steps of a lap interleave    *)
(* with theirs.  One lap is the chain of values of pc                      *)
(*                                                                         *)
(*   worker -> control -> exits [-> residual [-> drain]]                   *)
(*          -> select [-> joined] -> worker ...                            *)
(*                                                                         *)
(* where each value names what is drained or done next.  Two steps of the  *)
(* code are one step here only when nothing another task does in between   *)
(* can be told apart: a look at an empty queue and the step that follows.  *)
(*                                                                         *)
(* Coordinators, publishers and the workers they spawn (connector,         *)
(* interpreter, tool, loop and MCP request tasks) are kept to what the     *)
(* supervisor sees of them: the requests and proposals they post, the row  *)
(* fields they write, and how they exit.                                   *)
(***************************************************************************)
EXTENDS Naturals, Sequences, FiniteSets

CONSTANTS
    Tx,             \* transaction ids
    Session,        \* session ids of the one channel that is modelled
    Worker,         \* slots for the tasks a transaction spawns by request
    NoTx,           \* no transaction
    NoSession,      \* no session
    CoordinatorKind, \* kinds a coordinator proposes
    TerminateOp,    \* the ways clients terminate: Cancel, ForceTerminate
    MaxActive,      \* TransactionLimits.max_active: reservations, start queue
    MaxDistinct,    \* ChannelLimits.max_distinct_sessions
    ControlCap,     \* capacity of the control queue
    WorkerCap,      \* capacity of the worker queue
    SpawnCap        \* capacity of the spawn queue

ASSUME NamesAssumption ==
    /\ NoTx \notin Tx
    /\ NoSession \notin Session
    /\ Worker \cap {"coordinator", "publisher", "finalizer"} = {}

ASSUME BoundsAssumption ==
    /\ MaxActive \in Nat \ {0}
    /\ MaxDistinct \in Nat \ {0}
    /\ ControlCap \in Nat \ {0}
    /\ WorkerCap \in Nat \ {0}
    /\ SpawnCap \in Nat \ {0}

VARIABLES
    state,          \* RuntimeShared.state
    phase,          \* LedgerEntry.phase, or Absent when there is no row
    terminal,       \* LedgerEntry.terminal
    pending,        \* LedgerEntry.pending_worker_proposal
    session_key,    \* LedgerEntry.session_key
    by_session,     \* LifecycleLedger.by_session
    completion,     \* where the one-shot completion sender is
    seal,           \* where the sender of the seal channel, or its command, is
    start_q,        \* StartCommand queue
    control_q,      \* ControlCommand queue
    worker_q,       \* WorkerMessage queue
    spawn_q,        \* SpawnRequest queue
    pc,             \* position of the supervisor in its lap
    stopping,       \* run_supervisor's local of that name
    reaped,         \* joins already taken whose on_task_exit has not run
    task,           \* TaskSupervisor.meta, and how far each registered task is
    proposed,       \* run_coordinator has posted its proposal and is about to return
    fin_pc,         \* position of finalize_after_terminal
    fin_kind,       \* its local kind, which is the kind of the completion it sends
    reply,          \* the publisher's answer to Seal
    ended,          \* kind in the Ended event of the stream
    owner           \* the RuntimeOwner: held, dropping or gone

rowVars   == <<phase, terminal, pending, session_key, by_session, completion>>
queueVars == <<start_q, control_q, worker_q, spawn_q>>
lapVars   == <<pc, stopping, reaped>>
finVars   == <<fin_pc, fin_kind, seal, reply, ended>>
vars == <<state, rowVars, queueVars, lapVars, task, proposed, finVars, owner>>

CoreClass == {"coordinator", "publisher", "finalizer"}
Task == Tx \X (CoreClass \cup Worker)

(***************************************************************************)
(* TransactionEndKind, up to what the lifecycle code tells apart.          *)
(* Completed stands for Completed and ContinuationRequired, the two kinds  *)
(* a delivery failure overrides; InvariantFailed for every failure kind.   *)
(***************************************************************************)
EndKind == {"Completed", "Cancelled", "Terminated", "RuntimeShutdown",
            "InvariantFailed", "EventDeliveryFailed"}
KindOrNone == EndKind \cup {"none"}

ASSUME KindsAssumption ==
    /\ CoordinatorKind \subseteq EndKind
    /\ TerminateOp \subseteq {"Cancel", "ForceTerminate"}

Phase == {"Absent", "Queued", "Running", "Finalizing", "CleanupPending"}

\* TerminalEventDelivery.  Failed stands for LimitExceeded, DeadlineExceeded and
\* QueueClosed, which the finalizer treats alike.
Delivery == {"Published", "Failed"}

Control == [op : {"Cancel", "ForceTerminate"}, tx : Tx]
           \cup [op : {"BeginShutdown", "StopSupervisor"}, tx : {NoTx}]

\* TaskExit of a task that is not joined yet, as reap_finished will report it.
Exited == {"completed", "cancelled", "panicked"}

rows == {t \in Tx : phase[t] # "Absent"}
registered == {k \in Task : task[k] # "absent"}

\* Transactions whose submit returned a receipt, and the completion they were sent.
admitted == {t \in Tx : completion[t] # "caller"}
published(t) == IF completion[t] = "sent" THEN fin_kind[t] ELSE "none"

\* RuntimeShared.drain_complete is stored just before run_supervisor returns.
drain_complete == pc = "returned"

-----------------------------------------------------------------------------
(* The task registry.                                                      *)

\* TaskSupervisor::tasks_for
tasks_for(t) == {k \in registered : k[1] = t}

\* TaskSupervisor::spawn, for a set of tasks
spawned(f, ks) == [k \in Task |-> IF k \in ks THEN "live" ELSE f[k]]

\* TaskSupervisor::abort, for a set of tasks.  The request outlives the task:
\* reap_finished reports Cancelled for an aborted task that completed.
abort(f, ks) ==
    [k \in Task |-> IF k \in ks /\ f[k] = "live" THEN "aborting"
                    ELSE IF k \in ks /\ f[k] = "completed" THEN "cancelled"
                    ELSE f[k]]

\* The tasks abort_transaction_residuals aborts.
residuals(ts) == {k \in Task : k[1] \in ts /\ k[2] \notin {"finalizer", "publisher"}}

\* Mutant: the hard grace abort spares nothing.
except_nothing(ts) == {k \in Task : k[1] \in ts}

\* The tasks abort_transaction_except_finalizer aborts.
except_finalizer(ts) == {k \in Task : k[1] \in ts /\ k[2] # "finalizer"}

\* TaskSupervisor::deregister, for a set of tasks
deregister(ks) == task' = [k \in Task |-> IF k \in ks THEN "absent" ELSE task[k]]

-----------------------------------------------------------------------------
(* The ledger.                                                             *)

\* LifecycleLedger::distinct_sessions_on_channel
distinct_sessions == Cardinality({s \in Session : by_session[s] # NoTx})

\* LifecycleLedger::remove, for a set of rows.  Dropping an entry drops the
\* completion sender that is still in it.
remove(ts) ==
    /\ phase' = [t \in Tx |-> IF t \in ts THEN "Absent" ELSE phase[t]]
    /\ terminal' = [t \in Tx |-> IF t \in ts THEN "none" ELSE terminal[t]]
    /\ pending' = [t \in Tx |-> IF t \in ts THEN "none" ELSE pending[t]]
    /\ session_key' = [t \in Tx |-> IF t \in ts THEN NoSession ELSE session_key[t]]
    /\ by_session' = [s \in Session |->
          IF by_session[s] \in ts /\ session_key[by_session[s]] = s
          THEN NoTx ELSE by_session[s]]
    /\ completion' = [t \in Tx |->
          IF t \in ts /\ completion[t] \in {"delivery", "row"}
          THEN "dropped" ELSE completion[t]]

\* Mutant: only Finalizing rows are tombstones.
finalizing_tombstones(ts) == {t \in ts : phase[t] = "Finalizing"}

\* try_remove_tombstone: the rows it removes
tombstones(ts) == {t \in ts : phase[t] \in {"CleanupPending", "Finalizing"}}

(***************************************************************************)
(* accept_terminal.  A first decision sets the terminal and the phase,     *)
(* takes the seal sender and spawns the Finalizer.  A later proposal only   *)
(* upgrades Cancelled to Terminated, when forced.  ResourceControls.cancel *)
(* is set by accept_terminal and nothing else before a terminal exists, so *)
(* "cancelled" is "has a terminal" and needs no variable.                   *)
(***************************************************************************)
decisionVars == <<terminal, phase, pending, seal, fin_pc>>

decide(ts, kind) ==
    /\ terminal' = [t \in Tx |-> IF t \in ts THEN kind ELSE terminal[t]]
    /\ phase' = [t \in Tx |-> IF t \in ts THEN "Finalizing" ELSE phase[t]]
    /\ pending' = [t \in Tx |-> IF t \in ts THEN "none" ELSE pending[t]]
    /\ seal' = [t \in Tx |-> IF t \in ts /\ seal[t] = "row" THEN "finalizer" ELSE seal[t]]
    /\ fin_pc' = [t \in Tx |-> IF t \in ts THEN "yield" ELSE fin_pc[t]]

finalizers(ts) == {<<t, "finalizer">> : t \in ts}

\* Mutant: a force replaces whatever was decided.
later_force(t, kind, force) ==
    /\ terminal' = IF force THEN [terminal EXCEPT ![t] = kind] ELSE terminal
    /\ pending' = [pending EXCEPT ![t] = "none"]
    /\ seal' = [seal EXCEPT ![t] = IF @ = "row" THEN "gone" ELSE @]
    /\ UNCHANGED <<phase, fin_pc, task>>

later_proposal(t, kind, force) ==
    /\ terminal' = IF force /\ terminal[t] = "Cancelled" /\ kind = "Terminated"
                   THEN [terminal EXCEPT ![t] = "Terminated"] ELSE terminal
    /\ pending' = [pending EXCEPT ![t] = "none"]
    /\ seal' = [seal EXCEPT ![t] = IF @ = "row" THEN "gone" ELSE @]
    /\ UNCHANGED <<phase, fin_pc, task>>

accept_terminal(t, kind, force) ==
    IF t \notin rows THEN UNCHANGED <<decisionVars, task>>
    ELSE IF terminal[t] # "none" THEN later_proposal(t, kind, force)
    ELSE decide({t}, kind) /\ task' = spawned(task, finalizers({t}))

(***************************************************************************)
(* begin_shutdown_inner.  Every row without a terminal gets                *)
(* RuntimeShutdown; the residual work of the others is aborted.            *)
(***************************************************************************)
undecided == {t \in rows : terminal[t] = "none"}

shutdown_tasks ==
    spawned(abort(task, residuals(rows \ undecided)), finalizers(undecided))

begin_shutdown_inner ==
    /\ state' = IF state = "Accepting" THEN "Quiescing" ELSE state
    /\ stopping' = TRUE
    /\ decide(undecided, "RuntimeShutdown")

-----------------------------------------------------------------------------
(* run_supervisor, one step of a lap at a time.                            *)

\* The lap moves on and nothing else changes.
goto(from, to) ==
    /\ pc = from
    /\ pc' = to
    /\ UNCHANGED <<state, rowVars, queueVars, stopping, reaped, task, proposed, finVars, owner>>

\* One WorkerExited message; next is where the lap goes on.
handle_worker(next) ==
    /\ worker_q # <<>>
    /\ worker_q' = Tail(worker_q)
    /\ pc' = next
    /\ accept_terminal(Head(worker_q).tx, Head(worker_q).kind, FALSE)
    /\ UNCHANGED <<state, session_key, by_session, completion, start_q, control_q, spawn_q,
                   stopping, reaped, proposed, fin_kind, reply, ended, owner>>

\* One command of the control queue; next is where the lap goes on.
handle_control(next) ==
    LET cmd == Head(control_q) IN
    /\ control_q # <<>>
    /\ control_q' = Tail(control_q)
    /\ pc' = next
    /\ \/ /\ cmd.op = "Cancel"
          /\ accept_terminal(cmd.tx, "Cancelled", FALSE)
          /\ UNCHANGED <<state, stopping>>
       \/ /\ cmd.op = "ForceTerminate"
          /\ accept_terminal(cmd.tx, "Terminated", TRUE)
          /\ UNCHANGED <<state, stopping>>
       \/ /\ cmd.op = "BeginShutdown"
          /\ begin_shutdown_inner
          /\ task' = shutdown_tasks
       \/ /\ cmd.op = "StopSupervisor"
          /\ begin_shutdown_inner
          /\ task' = abort(shutdown_tasks, Task)
    /\ UNCHANGED <<session_key, by_session, completion, start_q, worker_q, spawn_q, reaped,
                   proposed, fin_kind, reply, ended, owner>>

\* One SpawnRequest; next is where the lap goes on.
handle_spawn(next) ==
    /\ spawn_q # <<>>
    /\ spawn_q' = Tail(spawn_q)
    /\ task' = spawned(task, {Head(spawn_q)})
    /\ pc' = next
    /\ UNCHANGED <<state, rowVars, start_q, control_q, worker_q, stopping, reaped, proposed,
                   finVars, owner>>

DrainWorker ==
    \/ pc = "worker" /\ handle_worker("worker")
    \/ worker_q = <<>> /\ goto("worker", "control")

DrainControl == pc = "control" /\ handle_control("control")

\* try_reap_finished: every finished join is deregistered before any exit is handled.
Reap ==
    LET finished == {k \in Task : task[k] \in Exited} IN
    /\ pc = "control"
    /\ control_q = <<>>
    /\ pc' = "exits"
    /\ reaped' = {<<k, task[k]>> : k \in finished}
    /\ deregister(finished)
    /\ UNCHANGED <<state, rowVars, queueVars, stopping, proposed, finVars, owner>>

(***************************************************************************)
(* on_task_exit.  A coordinator that left no terminal behind has its       *)
(* parked proposal accepted, or one invented from how it exited.  The last *)
(* task of a transaction removes its tombstone; a Finalizer that is not    *)
(* the last aborts the rest.                                               *)
(***************************************************************************)
\* Mutant: only a decided transaction is recovered.
missing_never(k) == FALSE

missing_terminal(k) == k[2] = "coordinator" /\ k[1] \in undecided

\* Mutant: the parked proposal is not looked up.
invented_kind(t, how) ==
    IF how = "panicked" THEN "InvariantFailed"
    ELSE IF state = "Quiescing" THEN "RuntimeShutdown"
    ELSE IF how = "cancelled" THEN "Cancelled"
    ELSE "InvariantFailed"

recovered_kind(t, how) ==
    IF pending[t] # "none" THEN pending[t]
    ELSE IF how = "panicked" THEN "InvariantFailed"
    ELSE IF state = "Quiescing" THEN "RuntimeShutdown"
    ELSE IF how = "cancelled" THEN "Cancelled"
    ELSE "InvariantFailed"

on_task_exit(k, how) ==
    IF missing_terminal(k)
    THEN /\ decide({k[1]}, recovered_kind(k[1], how))
         /\ task' = spawned(task, finalizers({k[1]}))
         /\ UNCHANGED <<session_key, by_session, completion>>
    ELSE IF tasks_for(k[1]) = {}
    THEN /\ remove(tombstones({k[1]}))
         /\ UNCHANGED <<seal, task, fin_pc>>
    ELSE /\ task' = IF k[2] = "finalizer" THEN abort(task, tasks_for(k[1])) ELSE task
         /\ UNCHANGED <<rowVars, seal, fin_pc>>

HandleExit ==
    /\ pc = "exits"
    /\ \E r \in reaped : on_task_exit(r[1], r[2]) /\ reaped' = reaped \ {r}
    /\ UNCHANGED <<state, queueVars, pc, stopping, proposed, fin_kind, reply, ended, owner>>

DrainSpawn == pc = "exits" /\ reaped = {} /\ handle_spawn("exits")

drained == pc = "exits" /\ reaped = {} /\ spawn_q = <<>>

\* Mutant: the lap leaves a Quiescing state to the notification.
ObserveNothing == drained /\ ~stopping /\ state = "Quiescing" /\ goto("exits", "select")

\* The lap's own look at the state, for a BeginShutdown that was never queued.
ObserveQuiescing ==
    /\ drained
    /\ ~stopping
    /\ state = "Quiescing"
    /\ pc' = "residual"
    /\ begin_shutdown_inner
    /\ task' = shutdown_tasks
    /\ UNCHANGED <<session_key, by_session, completion, queueVars, reaped, proposed,
                   fin_kind, reply, ended, owner>>

NothingToStop == drained /\ ~stopping /\ state # "Quiescing" /\ goto("exits", "select")

(***************************************************************************)
(* While stopping, a lap aborts residual work, clears idle rows and, when  *)
(* the ledger is empty, checks whether it may stop: queued spawns are      *)
(* dropped, late worker messages find no row, and either nothing is owned  *)
(* or all of it is aborted.  grace says whether the quiesce timer has      *)
(* passed its grace period, which it may at any lap.                       *)
(***************************************************************************)
Residual(grace) ==
    LET idle == {t \in rows : tasks_for(t) = {}}
        cleared == IF grace THEN idle ELSE tombstones(idle)
        aborted == IF rows = cleared THEN Task
                   ELSE IF grace THEN except_finalizer(rows) ELSE residuals(rows)
    IN
    /\ pc = "residual" \/ (drained /\ stopping)
    /\ remove(cleared)
    /\ task' = abort(task, aborted)
    /\ spawn_q' = IF rows = cleared THEN <<>> ELSE spawn_q
    /\ worker_q' = IF rows = cleared THEN <<>> ELSE worker_q
    /\ pc' = IF rows # cleared THEN "select"
             ELSE IF registered = {} THEN "returned" ELSE "drain"
    /\ UNCHANGED <<state, start_q, control_q, stopping, reaped, proposed, finVars, owner>>

\* Mutant: the two seconds pass and the supervisor returns all the same.
AbortAndLeave ==
    \/ /\ pc = "drain"
       /\ \E k \in Task : task[k] \in Exited /\ deregister({k})
       /\ UNCHANGED <<state, rowVars, queueVars, lapVars, proposed, finVars, owner>>
    \/ goto("drain", "returned")

\* abort_and_drain: joins are observed until none is left or two seconds pass.
AbortAndDrain ==
    \/ /\ pc = "drain"
       /\ \E k \in Task : task[k] \in Exited /\ deregister({k})
       /\ UNCHANGED <<state, rowVars, queueVars, lapVars, proposed, finVars, owner>>
    \/ registered = {} /\ goto("drain", "returned")
    \/ registered # {} /\ goto("drain", "select")

\* select! polls its branches in order.  A queue polled empty may fill before a later
\* branch is polled, so any branch that is ready may be the one taken.
SelectControl == pc = "select" /\ handle_control("worker")

SelectWorker == pc = "select" /\ handle_worker("worker")

SelectSpawn == pc = "select" /\ handle_spawn("worker")

\* handle_start: only a Queued row that still has its delivery is started.
handle_start(t) ==
    IF t \in rows /\ phase[t] = "Queued" /\ completion[t] = "delivery"
    THEN /\ phase' = [phase EXCEPT ![t] = "Running"]
         /\ completion' = [completion EXCEPT ![t] = "row"]
         /\ seal' = [seal EXCEPT ![t] = "row"]
         /\ task' = spawned(task, {<<t, "publisher">>, <<t, "coordinator">>})
         /\ UNCHANGED <<terminal, pending, fin_pc>>
    ELSE UNCHANGED <<decisionVars, completion, task>>

SelectStart ==
    /\ pc = "select"
    /\ start_q # <<>>
    /\ start_q' = Tail(start_q)
    /\ pc' = "worker"
    /\ \/ state = "Accepting" /\ handle_start(Head(start_q))
       \/ /\ state # "Accepting"
          /\ stopping
          /\ accept_terminal(Head(start_q), "RuntimeShutdown", FALSE)
          /\ UNCHANGED completion
       \/ state # "Accepting" /\ ~stopping /\ UNCHANGED <<decisionVars, completion, task>>
    /\ UNCHANGED <<state, session_key, by_session, control_q, worker_q, spawn_q, stopping,
                   reaped, proposed, fin_kind, reply, ended, owner>>

\* The 50 ms tick while stopping.
SelectTick == stopping /\ goto("select", "worker")

\* A notification on RuntimeShared.wake.  It may come at any time; nothing below relies
\* on one coming.
SelectWake ==
    \/ /\ pc = "select"
       /\ state = "Quiescing"
       /\ pc' = "worker"
       /\ begin_shutdown_inner
       /\ task' = shutdown_tasks
       /\ UNCHANGED <<session_key, by_session, completion, queueVars, reaped, proposed,
                      fin_kind, reply, ended, owner>>
    \/ state # "Quiescing" /\ goto("select", "worker")

\* join_next takes one exit; the worker queue is drained again before it is handled.
SelectJoin ==
    /\ pc = "select"
    /\ \E k \in Task :
          task[k] \in Exited /\ deregister({k}) /\ reaped' = {<<k, task[k]>>}
    /\ pc' = "joined"
    /\ UNCHANGED <<state, rowVars, queueVars, stopping, proposed, finVars, owner>>

HandleJoined ==
    \/ pc = "joined" /\ handle_worker("joined")
    \/ /\ pc = "joined"
       /\ worker_q = <<>>
       /\ pc' = "worker"
       /\ reaped' = {}
       /\ \E r \in reaped : on_task_exit(r[1], r[2])
       /\ UNCHANGED <<state, queueVars, stopping, proposed, fin_kind, reply, ended, owner>>

Lap ==
    \/ DrainWorker \/ DrainControl \/ Reap \/ HandleExit \/ DrainSpawn
    \/ ObserveQuiescing \/ NothingToStop \/ (\E grace \in BOOLEAN : Residual(grace))
    \/ AbortAndDrain
    \/ SelectControl \/ SelectWorker \/ SelectStart \/ SelectSpawn
    \/ SelectTick \/ SelectJoin \/ HandleJoined

-----------------------------------------------------------------------------
(* The tasks of a transaction.  An abort takes effect at a later yield, so *)
(* an aborted task may take more steps before it exits.                    *)

running(t, c) == task[<<t, c>>] \in {"live", "aborting"}

\* A task returns, or panics; an aborted one that returns is reported Cancelled.
leave(k, how) ==
    task' = [task EXCEPT ![k] =
               IF @ = "aborting" /\ how = "completed" THEN "cancelled" ELSE how]

\* The await points of a task, where it can be dropped.  After parking its proposal a
\* coordinator runs to its end, and so does a finalizer with the answer to its Seal.
at_yield(k) ==
    /\ k[2] = "coordinator" => ~proposed[k[1]]
    /\ k[2] = "finalizer" => fin_pc[k[1]] \in {"yield", "wait"}

\* Dropping a finalizer drops the senders it holds.
AbortTakesEffect(k) ==
    /\ task[k] = "aborting"
    /\ at_yield(k)
    /\ task' = [task EXCEPT ![k] = "cancelled"]
    /\ completion' = [t \in Tx |->
          IF k = <<t, "finalizer">> /\ completion[t] = "finalizer"
          THEN "dropped" ELSE completion[t]]
    /\ seal' = [t \in Tx |->
          IF k = <<t, "finalizer">> /\ seal[t] = "finalizer" THEN "gone" ELSE seal[t]]
    /\ UNCHANGED <<state, phase, terminal, pending, session_key, by_session, queueVars,
                   lapVars, proposed, fin_pc, fin_kind, reply, ended, owner>>

\* The tasks of t that can ask for another task.
requesters(t) ==
    {c \in {"coordinator"} \cup Worker : running(t, c) /\ (c = "coordinator" => ~proposed[t])}

\* TransactionTaskSpawner: the coordinator, or a task it spawned, posts a request.
\* On a full or closed queue the future comes back to the caller and nothing changes.
RequestSpawn(t, w) ==
    /\ requesters(t) # {}
    /\ task[<<t, w>>] = "absent"
    /\ \A i \in DOMAIN spawn_q : spawn_q[i] # <<t, w>>
    /\ ~drain_complete
    /\ Len(spawn_q) < SpawnCap
    /\ spawn_q' = Append(spawn_q, <<t, w>>)
    /\ UNCHANGED <<state, rowVars, start_q, control_q, worker_q, lapVars, task, proposed,
                   finVars, owner>>

WorkerExits(t, w) ==
    /\ running(t, w)
    /\ leave(<<t, w>>, "completed")
    /\ UNCHANGED <<state, rowVars, queueVars, lapVars, proposed, finVars, owner>>

\* Mutant: the key the row held before stays in the index.
BindSessionKeepsOld(t, s) ==
    /\ running(t, "coordinator")
    /\ ~proposed[t]
    /\ by_session[s] = NoTx
    /\ t \in rows
    /\ session_key[t] = NoSession => distinct_sessions < MaxDistinct
    /\ by_session' = [by_session EXCEPT ![s] = t]
    /\ session_key' = [session_key EXCEPT ![t] = s]
    /\ UNCHANGED <<state, phase, terminal, pending, completion, queueVars, lapVars, task,
                   proposed, finVars, owner>>

\* Mutant: a bind is not counted against the distinct sessions.
BindSessionUncounted(t, s) ==
    /\ running(t, "coordinator")
    /\ ~proposed[t]
    /\ by_session[s] = NoTx
    /\ t \in rows
    /\ by_session' = [r \in Session |->
          IF r = s THEN t ELSE IF r = session_key[t] THEN NoTx ELSE by_session[r]]
    /\ session_key' = [session_key EXCEPT ![t] = s]
    /\ UNCHANGED <<state, phase, terminal, pending, completion, queueVars, lapVars, task,
                   proposed, finVars, owner>>

(***************************************************************************)
(* LifecycleLedger::bind_session, called by the coordinator's gate once    *)
(* the external session is open.  A refused bind changes nothing.          *)
(***************************************************************************)
BindSession(t, s) ==
    /\ running(t, "coordinator")
    /\ ~proposed[t]
    /\ by_session[s] = NoTx
    /\ t \in rows
    /\ session_key[t] = NoSession => distinct_sessions < MaxDistinct
    /\ by_session' = [r \in Session |->
          IF r = s THEN t ELSE IF r = session_key[t] THEN NoTx ELSE by_session[r]]
    /\ session_key' = [session_key EXCEPT ![t] = s]
    /\ UNCHANGED <<state, phase, terminal, pending, completion, queueVars, lapVars, task,
                   proposed, finVars, owner>>

\* run_coordinator parks its proposal on the row, read only once the task is joined, and
\* posts WorkerExited, which a full queue loses ...
CoordinatorProposes(t, kind) ==
    /\ running(t, "coordinator")
    /\ ~proposed[t]
    /\ proposed' = [proposed EXCEPT ![t] = TRUE]
    /\ pending' = IF t \in rows THEN [pending EXCEPT ![t] = kind] ELSE pending
    /\ worker_q' = IF Len(worker_q) < WorkerCap
                   THEN Append(worker_q, [tx |-> t, kind |-> kind]) ELSE worker_q
    /\ UNCHANGED <<state, phase, terminal, session_key, by_session, completion, start_q,
                   control_q, spawn_q, lapVars, task, finVars, owner>>

\* ... and returns.
CoordinatorExits(t) ==
    /\ running(t, "coordinator")
    /\ proposed[t]
    /\ proposed' = [proposed EXCEPT ![t] = FALSE]
    /\ leave(<<t, "coordinator">>, "completed")
    /\ UNCHANGED <<state, rowVars, queueVars, lapVars, finVars, owner>>

CoordinatorPanics(t) ==
    /\ running(t, "coordinator")
    /\ ~proposed[t]
    /\ leave(<<t, "coordinator">>, "panicked")
    /\ UNCHANGED <<state, rowVars, queueVars, lapVars, proposed, finVars, owner>>

(***************************************************************************)
(* run_event_publisher, up to how it answers Seal.  Seal carries one       *)
(* absolute deadline that both sides use and the finalizer waits 100 ms    *)
(* longer, so no Ended event is enqueued after the finalizer gave up.      *)
(***************************************************************************)
PublisherSeals(t, d) ==
    /\ running(t, "publisher")
    /\ seal[t] = "sent"
    /\ d = "Published" => fin_pc[t] = "wait"
    /\ seal' = [seal EXCEPT ![t] = "gone"]
    /\ reply' = IF fin_pc[t] = "wait" THEN [reply EXCEPT ![t] = d] ELSE reply
    /\ ended' = IF d = "Published" THEN [ended EXCEPT ![t] = fin_kind[t]] ELSE ended
    /\ leave(<<t, "publisher">>, "completed")
    /\ UNCHANGED <<state, rowVars, queueVars, lapVars, proposed, fin_pc, fin_kind, owner>>

\* The seal sender was dropped without a Seal: the publisher returns.
PublisherUnsealed(t) ==
    /\ running(t, "publisher")
    /\ seal[t] = "gone"
    /\ leave(<<t, "publisher">>, "completed")
    /\ UNCHANGED <<state, rowVars, queueVars, lapVars, proposed, finVars, owner>>

(***************************************************************************)
(* finalize_after_terminal.                                                *)
(***************************************************************************)

\* A Completed transaction whose event stream is truncated is not reported Completed.
reported_kind(kind, d) ==
    IF kind = "Completed" /\ d = "Failed" THEN "EventDeliveryFailed" ELSE kind

\* Mutant: the row keeps the kind that is not reported.
settle_silently(t, kind, d) ==
    /\ fin_kind' = [fin_kind EXCEPT ![t] = reported_kind(kind, d)]
    /\ terminal' = terminal
    /\ fin_pc' = [fin_pc EXCEPT ![t] = "publish"]

\* The finalizer settles on the kind it reports and rewrites the row with it.
settle(t, kind, d) ==
    /\ fin_kind' = [fin_kind EXCEPT ![t] = reported_kind(kind, d)]
    /\ terminal' = IF t \in rows /\ reported_kind(kind, d) # kind
                   THEN [terminal EXCEPT ![t] = reported_kind(kind, d)] ELSE terminal
    /\ fin_pc' = [fin_pc EXCEPT ![t] = "publish"]

\* After its first yield: the kind and the completion sender are taken from the row,
\* the row becomes CleanupPending, and Seal is sent when there is a publisher to send to.
\* (The code returns early when the row is gone; CoreTaskHasRow says it never is.)
FinalizerSnapshots(t) ==
    /\ running(t, "finalizer")
    /\ fin_pc[t] = "yield"
    /\ t \in rows
    /\ phase' = [phase EXCEPT ![t] = "CleanupPending"]
    /\ completion' = [completion EXCEPT ![t] =
                         IF @ \in {"delivery", "row"} THEN "finalizer" ELSE @]
    /\ IF seal[t] = "finalizer" /\ running(t, "publisher")
       THEN /\ seal' = [seal EXCEPT ![t] = "sent"]
            /\ fin_kind' = [fin_kind EXCEPT ![t] = terminal[t]]
            /\ fin_pc' = [fin_pc EXCEPT ![t] = "wait"]
            /\ UNCHANGED terminal
       ELSE /\ seal' = [seal EXCEPT ![t] = "gone"]
            /\ settle(t, terminal[t],
                      IF seal[t] = "finalizer" THEN "Failed" ELSE "NotAttempted")
    /\ UNCHANGED <<state, pending, session_key, by_session, queueVars, lapVars, task,
                   proposed, reply, ended, owner>>

\* Mutant: the kind is read again after the Seal.
FinalizerRereads(t) ==
    /\ running(t, "finalizer")
    /\ fin_pc[t] = "wait"
    /\ settle(t, terminal[t], IF reply[t] = "none" THEN "Failed" ELSE reply[t])
    /\ reply' = [reply EXCEPT ![t] = "none"]
    /\ UNCHANGED <<state, phase, pending, session_key, by_session, completion, queueVars,
                   lapVars, task, proposed, seal, ended, owner>>

\* The wait for the answer ends: an answer, a dead publisher, or the timeout.
FinalizerHears(t) ==
    /\ running(t, "finalizer")
    /\ fin_pc[t] = "wait"
    /\ settle(t, fin_kind[t], IF reply[t] = "none" THEN "Failed" ELSE reply[t])
    /\ reply' = [reply EXCEPT ![t] = "none"]
    /\ UNCHANGED <<state, phase, pending, session_key, by_session, completion, queueVars,
                   lapVars, task, proposed, seal, ended, owner>>

\* The one completion send; without a sender only a failure is counted.
FinalizerPublishes(t) ==
    /\ running(t, "finalizer")
    /\ fin_pc[t] = "publish"
    /\ completion' = [completion EXCEPT ![t] = IF @ = "finalizer" THEN "sent" ELSE @]
    /\ fin_pc' = [fin_pc EXCEPT ![t] = "done"]
    /\ leave(<<t, "finalizer">>, "completed")
    /\ UNCHANGED <<state, phase, terminal, pending, session_key, by_session, queueVars,
                   lapVars, proposed, fin_kind, seal, reply, ended, owner>>

-----------------------------------------------------------------------------
(* The callers: TransactionRuntimeHandle and RuntimeOwner.                 *)

\* try_send on the control queue: lost when the queue is full or the receiver gone.
try_send(cmd) ==
    control_q' = IF ~drain_complete /\ Len(control_q) < ControlCap
                 THEN Append(control_q, cmd) ELSE control_q

(***************************************************************************)
(* admit, from its lock of the ledger to its receipt.  The reservations of *)
(* the rows are what bounds the ledger here.  A refused submit, the        *)
(* rollback after a full start queue included, leaves no trace.            *)
(***************************************************************************)
Submit(t, s) ==
    /\ t \notin admitted
    /\ state = "Accepting"
    /\ Cardinality(rows) < MaxActive
    /\ s # NoSession => by_session[s] = NoTx /\ distinct_sessions < MaxDistinct
    /\ Len(start_q) < MaxActive
    /\ phase' = [phase EXCEPT ![t] = "Queued"]
    /\ completion' = [completion EXCEPT ![t] = "delivery"]
    /\ session_key' = [session_key EXCEPT ![t] = s]
    /\ by_session' = [r \in Session |-> IF r = s THEN t ELSE by_session[r]]
    /\ start_q' = Append(start_q, t)
    /\ UNCHANGED <<state, terminal, pending, control_q, worker_q, spawn_q, lapVars, task,
                   proposed, finVars, owner>>

\* terminate: refused when the row has a terminal, unless it can be upgraded.
Terminate(t, op) ==
    /\ t \in rows
    /\ terminal[t] # "none" => op = "ForceTerminate" /\ terminal[t] = "Cancelled"
    /\ ~drain_complete
    /\ Len(control_q) < ControlCap
    /\ control_q' = Append(control_q, [op |-> op, tx |-> t])
    /\ UNCHANGED <<state, rowVars, start_q, worker_q, spawn_q, lapVars, task, proposed,
                   finVars, owner>>

BeginShutdownCmd == [op |-> "BeginShutdown", tx |-> NoTx]
StopSupervisorCmd == [op |-> "StopSupervisor", tx |-> NoTx]

\* RuntimeOwner::begin_shutdown first closes admission ...
BeginShutdown ==
    /\ owner = "held"
    /\ state = "Accepting"
    /\ state' = "Quiescing"
    /\ UNCHANGED <<rowVars, queueVars, lapVars, task, proposed, finVars, owner>>

\* ... then tells the supervisor; wait_until_drain_complete tells it again every 5 ms.
AnnounceShutdown ==
    /\ owner = "held"
    /\ state = "Quiescing"
    /\ ~drain_complete
    /\ try_send(BeginShutdownCmd)
    /\ UNCHANGED <<state, rowVars, start_q, worker_q, spawn_q, lapVars, task, proposed,
                   finVars, owner>>

\* wait_stopped: the drain is complete and the executor thread has been joined.
WaitStopped ==
    /\ owner = "held"
    /\ state = "Quiescing"
    /\ drain_complete
    /\ state' = "Stopped"
    /\ UNCHANGED <<rowVars, queueVars, lapVars, task, proposed, finVars, owner>>

\* Drop of the owner.  Unless the runtime is Stopped it calls begin_shutdown, sends
\* StopSupervisor and blocks on the executor thread.
DropOwner ==
    /\ owner = "held"
    /\ \/ /\ state = "Stopped"
          /\ owner' = "gone"
          /\ UNCHANGED <<state, control_q>>
       \/ /\ state # "Stopped"
          /\ owner' = "dropping"
          /\ state' = "Quiescing"
          /\ try_send(BeginShutdownCmd)
    /\ UNCHANGED <<rowVars, start_q, worker_q, spawn_q, lapVars, task, proposed, finVars>>

DropStops ==
    /\ owner = "dropping"
    /\ owner' = "joining"
    /\ try_send(StopSupervisorCmd)
    /\ UNCHANGED <<state, rowVars, start_q, worker_q, spawn_q, lapVars, task, proposed,
                   finVars>>

DropJoins ==
    /\ owner = "joining"
    /\ drain_complete
    /\ owner' = "gone"
    /\ state' = "Stopped"
    /\ UNCHANGED <<rowVars, queueVars, lapVars, task, proposed, finVars>>

-----------------------------------------------------------------------------
Init ==
    /\ state = "Accepting"
    /\ phase = [t \in Tx |-> "Absent"]
    /\ terminal = [t \in Tx |-> "none"]
    /\ pending = [t \in Tx |-> "none"]
    /\ session_key = [t \in Tx |-> NoSession]
    /\ by_session = [s \in Session |-> NoTx]
    /\ completion = [t \in Tx |-> "caller"]
    /\ seal = [t \in Tx |-> "none"]
    /\ start_q = <<>> /\ control_q = <<>> /\ worker_q = <<>> /\ spawn_q = <<>>
    /\ pc = "worker"
    /\ stopping = FALSE
    /\ reaped = {}
    /\ task = [k \in Task |-> "absent"]
    /\ proposed = [t \in Tx |-> FALSE]
    /\ fin_pc = [t \in Tx |-> "none"]
    /\ fin_kind = [t \in Tx |-> "none"]
    /\ reply = [t \in Tx |-> "none"]
    /\ ended = [t \in Tx |-> "none"]
    /\ owner = "held"

Coordinator(t) ==
    \/ \E s \in Session : BindSession(t, s)
    \/ \E kind \in CoordinatorKind : CoordinatorProposes(t, kind)
    \/ CoordinatorExits(t)
    \/ CoordinatorPanics(t)

Publisher(t) == (\E d \in Delivery : PublisherSeals(t, d)) \/ PublisherUnsealed(t)

Finalizer(t) == FinalizerSnapshots(t) \/ FinalizerHears(t) \/ FinalizerPublishes(t)

Workers(t) == \E w \in Worker : RequestSpawn(t, w) \/ WorkerExits(t, w)

Clients ==
    \E t \in Tx :
       \/ \E s \in Session \cup {NoSession} : Submit(t, s)
       \/ \E op \in TerminateOp : Terminate(t, op)

Owner ==
    \/ BeginShutdown \/ AnnounceShutdown \/ WaitStopped
    \/ DropOwner \/ DropStops \/ DropJoins

Next ==
    \/ Lap \/ SelectWake
    \/ \E t \in Tx : Coordinator(t) \/ Publisher(t) \/ Finalizer(t) \/ Workers(t)
    \/ \E k \in Task : AbortTakesEffect(k)
    \/ Clients \/ Owner

Spec == Init /\ [][Next]_vars

(***************************************************************************)
(* Fairness.  The supervisor runs whenever it can.  It leaves the control  *)
(* drain although every 5 ms a waiting owner may refill the queue, and it  *)
(* takes a Start although notifications, each due to one call, wake it.    *)
(* Publishers and finalizers run under deadlines.  That a coordinator      *)
(* comes to its proposal is assumed: its waits carry the transaction's     *)
(* deadline, except await_loop_end, which relies on the loop to end.  An   *)
(* abort takes effect because the tasks yield; and begin_shutdown, once it *)
(* has closed admission, goes on to tell the supervisor.  No caller need   *)
(* ever submit, terminate or shut down.                                    *)
(***************************************************************************)
Fairness ==
    /\ WF_vars(Lap) /\ SF_vars(Reap) /\ SF_vars(SelectStart)
    /\ \A t \in Tx :
          /\ WF_vars(\E kind \in CoordinatorKind : CoordinatorProposes(t, kind))
          /\ WF_vars(CoordinatorExits(t))
          /\ WF_vars(Publisher(t))
          /\ WF_vars(Finalizer(t))
    /\ \A k \in Task : WF_vars(AbortTakesEffect(k))
    /\ WF_vars(AnnounceShutdown)

LiveSpec == Spec /\ Fairness

-----------------------------------------------------------------------------
(* Properties.                                                             *)

\* Every variable keeps its type; the queues stay within their capacities.
TypeOK ==
    /\ state \in {"Accepting", "Quiescing", "Stopped"}
    /\ phase \in [Tx -> Phase]
    /\ terminal \in [Tx -> KindOrNone]
    /\ pending \in [Tx -> KindOrNone]
    /\ session_key \in [Tx -> Session \cup {NoSession}]
    /\ by_session \in [Session -> Tx \cup {NoTx}]
    /\ completion \in [Tx -> {"caller", "delivery", "row", "finalizer", "sent", "dropped"}]
    /\ seal \in [Tx -> {"none", "row", "finalizer", "sent", "gone"}]
    /\ start_q \in Seq(Tx)
    /\ control_q \in Seq(Control) /\ Len(control_q) \leq ControlCap
    /\ worker_q \in Seq([tx : Tx, kind : CoordinatorKind]) /\ Len(worker_q) \leq WorkerCap
    /\ spawn_q \in Seq(Tx \X Worker) /\ Len(spawn_q) \leq SpawnCap
    /\ pc \in {"worker", "control", "exits", "residual", "drain", "select", "joined",
               "returned"}
    /\ stopping \in BOOLEAN
    /\ reaped \subseteq (Task \X Exited)
    /\ task \in [Task -> {"absent", "live", "aborting"} \cup Exited]
    /\ proposed \in [Tx -> BOOLEAN]
    /\ fin_pc \in [Tx -> {"none", "yield", "wait", "publish", "done"}]
    /\ fin_kind \in [Tx -> KindOrNone]
    /\ reply \in [Tx -> Delivery \cup {"none"}]
    /\ ended \in [Tx -> KindOrNone]
    /\ owner \in {"held", "dropping", "joining", "gone"}

\* A coordinator, publisher or finalizer that is registered has its ledger row: the row is
\* never removed under them, so the finalizer always finds what it must publish.
CoreTaskHasRow == \A k \in registered : k[2] \in CoreClass => k[1] \in rows

\* While the owner is held, a row leaves the ledger only after its completion was sent,
\* whatever mix of exits, aborts, panics, lost messages and grace periods removed it.
NoLostCompletion ==
    owner = "held" => \A t \in admitted \ rows : completion[t] = "sent"

\* How far a decision has come.  A row is undecided while it is Queued or Running, and from
\* its decision on it has had a finalizer; a stopping supervisor leaves no row undecided.
DecisionInv ==
    /\ \A t \in Tx :
          /\ t \in rows => t \in admitted
          /\ t \in undecided => phase[t] \in {"Queued", "Running"} /\ fin_pc[t] = "none"
          /\ t \in rows \ undecided =>
                phase[t] \notin {"Queued", "Running"} /\ fin_pc[t] # "none"
          /\ t \notin admitted => fin_pc[t] = "none"
          /\ t \notin rows => terminal[t] = "none"
    /\ stopping => state # "Accepting" /\ undecided = {}
    /\ pc = "residual" => stopping

\* Where the completion is.  While the owner is held no finalizer is ever aborted, so the
\* sender is in the row until the finalizer takes it, and sent once the finalizer is done.
CompletionInv ==
    owner = "held" =>
       /\ \A i \in DOMAIN control_q : control_q[i].op # "StopSupervisor"
       /\ \A r \in reaped : r[1][2] = "finalizer" => fin_pc[r[1][1]] = "done"
       /\ \A t \in Tx :
             /\ fin_pc[t] = "none" => task[<<t, "finalizer">>] = "absent"
             /\ fin_pc[t] = "none" /\ t \in admitted =>
                   t \in rows /\ completion[t] \in {"delivery", "row"}
             /\ fin_pc[t] \in {"yield", "wait", "publish"} =>
                   task[<<t, "finalizer">>] = "live"
             /\ fin_pc[t] = "yield" => completion[t] \in {"delivery", "row"}
             /\ fin_pc[t] \in {"wait", "publish"} => completion[t] = "finalizer"
             /\ fin_pc[t] = "done" => completion[t] = "sent"

\* The inductive invariant behind NoLostCompletion: no step of the supervisor, of a task or
\* of a caller takes a row, a task and a completion sender out of step with each other.
IndInv == CoreTaskHasRow /\ DecisionInv /\ CompletionInv

\* by_session and the rows' session keys are inverse to each other: one active
\* transaction per session, and no key outlives its row.
SessionIndex ==
    /\ \A s \in Session : by_session[s] # NoTx =>
          by_session[s] \in rows /\ session_key[by_session[s]] = s
    /\ \A t \in Tx : session_key[t] # NoSession => by_session[session_key[t]] = t

\* The channel never has more distinct sessions than its limit, by submit or by bind.
DistinctSessionsBound == distinct_sessions \leq MaxDistinct

\* The completion a caller receives carries the decision in the ledger, but for a
\* ForceTerminate accepted after the finalizer took its snapshot.
CompletionReportsDecision ==
    \A t \in rows : completion[t] = "sent" =>
       \/ published(t) = terminal[t]
       \/ published(t) = "Cancelled" /\ terminal[t] = "Terminated"

\* An Ended event and the completion of the same transaction carry the same kind.
EndedAgreesWithCompletion ==
    \A t \in Tx : completion[t] = "sent" /\ ended[t] # "none" => ended[t] = published(t)

\* drain_complete means that nothing is owned any more: no row, no task, no sender.
DrainedMeansNothingOwned ==
    drain_complete =>
       /\ rows = {} /\ registered = {} /\ reaped = {}
       /\ \A t \in admitted : completion[t] \in {"sent", "dropped"}

\* A decision in the ledger changes only by Cancelled -> Terminated and by
\* Completed -> EventDeliveryFailed.
DecisionChange(old, new) ==
    \/ old = new
    \/ old = "Cancelled" /\ new = "Terminated"
    \/ old = "Completed" /\ new = "EventDeliveryFailed"

\* A terminal decision is final: once taken it is only ever changed as DecisionChange
\* allows, and no coordinator or publisher is spawned for the transaction afterwards, by
\* a Start that was overtaken by a cancel or a shutdown.
DecisionStable ==
    [][\A t \in rows : terminal[t] # "none" =>
         /\ t \in rows' => DecisionChange(terminal[t], terminal'[t])
         /\ \A c \in {"coordinator", "publisher"} :
               task[<<t, c>>] = "absent" => task'[<<t, c>>] = "absent"]_vars

\* A proposal parked by the coordinator is never overridden by an invented failure: the
\* decision is the proposal, or a cancel, a force or the shutdown that came first.
ParkedProposalWins ==
    [][\A t \in Tx : terminal[t] = "none" /\ pending[t] # "none" =>
         terminal'[t] \in {"none", pending[t], "Cancelled", "Terminated", "RuntimeShutdown"}]_vars

\* Every admitted transaction gets its completion, unless the owner is dropped: through a
\* panic, a lost message, a lost Seal, a cancel or a shutdown at any point.
AdmittedCompletes ==
    \A t \in Tx : (t \in admitted) ~> (completion[t] = "sent" \/ owner # "held")

\* After its completion a transaction gives up its row, and with it its session and its
\* reservations.
CompletedIsCleared == \A t \in Tx : (completion[t] = "sent") ~> (t \notin rows)

\* Once admission is closed the supervisor drains and returns, however full the control
\* queue was and whichever notification was missed.
ShutdownDrains == (state = "Quiescing") ~> drain_complete

\* What the comment on begin_shutdown_inner asks for: a drained runtime has published the
\* completion of every admission.  StopSupervisor aborts finalizers too.
EveryAdmissionCompletes == drain_complete => \A t \in admitted : completion[t] = "sent"

\* What the comment in accept_terminal asks for: a force termination the ledger accepted
\* is the kind the completion reports.
ForceTerminateIsReported ==
    \A t \in rows : terminal[t] = "Terminated" /\ completion[t] = "sent" =>
       published(t) = "Terminated"

\* What finalize_after_terminal says of the tombstone: the row, and with it the session
\* key, stays while work of the transaction is live.
ResidualWorkHasRow == \A k \in registered : k[1] \in rows
====
