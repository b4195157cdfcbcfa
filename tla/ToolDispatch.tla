---------------------------- MODULE ToolDispatch ----------------------------
(***************************************************************************)
(* Linked tool dispatch (transaction/dispatcher.rs, tool_capacity.rs,      *)
(* tool_handler.rs, process_tool.rs, owned_process_registry.rs): the       *)
(* dispatches of one transaction compete for the queue and for three       *)
(* concurrency counters, run handler bodies of the three execution         *)
(* classes, and are dropped mid-way when their worker task is aborted.     *)
(* Deadlines and grace periods are choices a waiting dispatch may take.    *)
(***************************************************************************)
EXTENDS Naturals, FiniteSets

CONSTANTS
    Dispatch,       \* tool calls of one transaction, all of one tool
    Linked,         \* the dispatches' registered handlers, functions to
                    \* [class, kill, drive]: what start returns
    Limits,         \* [shared, txn, tool]: max_concurrent of the three counters
    MaxQueued

Classes == {"AbortableAtYield", "CooperativeInProcess", "ProcessIsolated"}

\* The structural factories of host_tools.rs: an abortable tool is a sealed
\* handler whose body is driven inline, a process-isolated one owns its child;
\* any handler may be registered as cooperative.  The dispatcher checks the same
\* again before and after start.
FactoryAccepts(h) ==
    CASE h.class = "AbortableAtYield" -> h.kill = "cancel_only" /\ h.drive
      [] h.class = "ProcessIsolated" -> h.kill = "process"
      [] OTHER -> TRUE

ASSUME ToolAssumption ==
    /\ IsFiniteSet(Dispatch)
    /\ \A f \in Linked :
          /\ f \in [Dispatch -> [class : Classes, drive : BOOLEAN,
                                 kill : {"none", "cancel_only", "process"}]]
          /\ \A d \in Dispatch :
                FactoryAccepts(f[d]) /\ (f[d].kill = "process" => f[d].drive)
    /\ Limits \subseteq [shared : Nat \ {0}, txn : Nat \ {0}, tool : Nat \ {0}]
    /\ MaxQueued \in Nat \ {0}

VARIABLES
    tHandler, tLimit,   \* fixed by Init
    tPc,        \* new, validate, wait, retry, start, run, grace, kill, await, join,
                \* done
    tOut,       \* none, Canonical, Rejected, RuntimeFailed, dropped
    tWork,      \* the handler's body or child: none, running, ended
    tChild,     \* the Child is still in the kill handle (exit not observed)
    tSent,      \* the completion one-shot: none, sent, lost
    tEnd,       \* completion read by the dispatch
    tPermit,    \* none, guard, orphan, registry, or releasing: shared, txn, tool
    tKilled,    \* OS kill requested
    tQueued, tShared, tTxn, tTool,  \* txn_queued, SharedToolCapacity, txn_active, slot.active
    tOwned,     \* owned_processes
    tStop       \* the runtime: no, quiescing, stopped

tEach == <<tPc, tOut, tWork, tChild, tSent, tEnd, tPermit, tKilled>>
tCounters == <<tShared, tTxn, tTool>>
tdVars == <<tHandler, tLimit, tEach, tQueued, tCounters, tOwned, tStop>>

ToolInit ==
    /\ tHandler \in Linked /\ tLimit \in Limits
    /\ tPc = [d \in Dispatch |-> "new"] /\ tOut = [d \in Dispatch |-> "none"]
    /\ tWork = [d \in Dispatch |-> "none"] /\ tChild = [d \in Dispatch |-> FALSE]
    /\ tSent = [d \in Dispatch |-> "none"] /\ tEnd = [d \in Dispatch |-> "none"]
    /\ tPermit = [d \in Dispatch |-> "none"] /\ tKilled = [d \in Dispatch |-> FALSE]
    /\ tQueued = 0 /\ tShared = 0 /\ tTxn = 0 /\ tTool = 0 /\ tOwned = 0 /\ tStop = "no"

Leave(d, outcome) ==
    tPc' = [tPc EXCEPT ![d] = "done"] /\ tOut' = [tOut EXCEPT ![d] = outcome]

Step(d, from, to) == tPc[d] = from /\ tPc' = [tPc EXCEPT ![d] = to] /\ UNCHANGED tOut

-----------------------------------------------------------------------------
(* Capacity.                                                               *)

\* Allowlist, then TransactionToolCapacity::try_enqueue.
Enqueue(d) ==
    /\ tPc[d] = "new" /\ tStop # "stopped"
    /\ \/ Leave(d, "Rejected") /\ UNCHANGED tQueued
       \/ /\ tQueued < MaxQueued
          /\ tQueued' = tQueued + 1 /\ Step(d, "new", "validate")
    /\ UNCHANGED <<tHandler, tLimit, tWork, tChild, tSent, tEnd, tPermit, tKilled, tCounters,
                   tOwned, tStop>>

\* validate_tool_input; a failure gives the reservation back.
Validate(d) ==
    /\ tPc[d] = "validate"
    /\ \/ Leave(d, "Rejected") /\ tQueued' = tQueued - 1
       \/ Step(d, "validate", "wait") /\ UNCHANGED tQueued
    /\ UNCHANGED <<tHandler, tLimit, tWork, tChild, tSent, tEnd, tPermit, tKilled, tCounters,
                   tOwned, tStop>>

\* try_acquire, under the per-tool mutex.
Fits == tTool < tLimit.tool /\ tTxn < tLimit.txn /\ tShared < tLimit.shared

\* The 50 ms of attempts, a yield after each failed one.
Acquire(d) ==
    /\ tPc[d] \in {"wait", "retry"}
    /\ \/ /\ Fits
          /\ tTool' = tTool + 1 /\ tTxn' = tTxn + 1 /\ tShared' = tShared + 1
          /\ tQueued' = tQueued - 1
          /\ tPermit' = [tPermit EXCEPT ![d] = "guard"]
          /\ Step(d, tPc[d], "start")
       \/ /\ ~Fits /\ Step(d, "wait", "retry")
          /\ UNCHANGED <<tQueued, tCounters, tPermit>>
       \/ /\ tPc[d] = "retry" /\ Leave(d, "Rejected")
          /\ tQueued' = tQueued - 1 /\ UNCHANGED <<tCounters, tPermit>>
    /\ UNCHANGED <<tHandler, tLimit, tWork, tChild, tSent, tEnd, tKilled, tOwned, tStop>>

\* ToolPermit::drop: three counters, one after the other.
ReleasePermit(d) ==
    /\ tPermit[d] \in {"shared", "txn", "tool"}
    /\ CASE tPermit[d] = "shared" -> tShared' = tShared - 1 /\ UNCHANGED <<tTxn, tTool>>
         [] tPermit[d] = "txn" -> tTxn' = tTxn - 1 /\ UNCHANGED <<tShared, tTool>>
         [] tPermit[d] = "tool" -> tTool' = tTool - 1 /\ UNCHANGED <<tShared, tTxn>>
    /\ tPermit' = [tPermit EXCEPT ![d] =
            CASE @ = "shared" -> "txn" [] @ = "txn" -> "tool" [] OTHER -> "none"]
    /\ UNCHANGED <<tHandler, tLimit, tPc, tOut, tWork, tChild, tSent, tEnd, tKilled, tQueued,
                   tOwned, tStop>>

-----------------------------------------------------------------------------
(* Ownership of the body.                                                  *)

IsProcess(d) == tHandler[d].kill = "process"

\* has_join: a process whose exit is not observed; the try_wait it makes reaps
\* a child that has exited.
HasJoin(d) == IsProcess(d) /\ tChild[d] /\ tWork[d] = "running"

\* try_wait on the children of the set: an exited one is taken from its handle
\* and its owned-process lease released.
Observe(s) ==
    LET gone == {d \in s : tChild[d] /\ tWork[d] = "ended"}
    IN /\ tChild' = [d \in Dispatch |-> tChild[d] /\ d \notin gone]
       /\ tOwned' = tOwned - Cardinality(gone)

\* A drive future that is dropped stops its body; a child and a handler's own
\* thread do not.
DropDrive(d) ==
    tWork' = [tWork EXCEPT ![d] =
        IF @ = "running" /\ tHandler[d].drive /\ ~IsProcess(d) THEN "ended" ELSE @]

\* Mutant: the guard's drop releases the permit of a live child.
PermitOnDrop_released(d) == IF tPermit[d] = "guard" THEN "shared" ELSE tPermit[d]

\* DispatchGuard::drop: kill; a live child goes to the registry with the permit.
PermitOnDrop(d) ==
    CASE tPermit[d] # "guard" -> tPermit[d]
      [] tPermit[d] = "guard" /\ HasJoin(d) -> "registry"
      [] OTHER -> "shared"

DropGuard(d) ==
    /\ tPermit' = [tPermit EXCEPT ![d] = PermitOnDrop(d)]
    /\ tKilled' = [tKilled EXCEPT ![d] = @ \/ HasJoin(d)]
    /\ Observe({d}) /\ DropDrive(d)

\* ImmediateToolHandler::start: the completion is there when start returns.
StartImmediate(d) ==
    /\ ~tHandler[d].drive /\ ~IsProcess(d)
    /\ tWork' = [tWork EXCEPT ![d] = "ended"]
    /\ \E s \in {"sent", "lost"} : tSent' = [tSent EXCEPT ![d] = s]
    /\ UNCHANGED <<tChild, tOwned>>

\* AsyncToolHandler::start: a body to be driven inline; or a handler's own thread.
StartBody(d) ==
    /\ ~IsProcess(d)
    /\ tWork' = [tWork EXCEPT ![d] = "running"]
    /\ UNCHANGED <<tSent, tChild, tOwned>>

\* ProcessIsolatedToolHandler::start, the child counted by register_owned_process.
StartChild(d) ==
    /\ IsProcess(d)
    /\ tWork' = [tWork EXCEPT ![d] = "running"] /\ tChild' = [tChild EXCEPT ![d] = TRUE]
    /\ tOwned' = tOwned + 1
    /\ UNCHANGED tSent

\* The transaction's deadline, the structural check and handler.start: refused,
\* failed or panicked (the guard is dropped), or started.
StartTool(d) ==
    /\ tPc[d] = "start"
    /\ \/ /\ \E out \in {"Rejected", "RuntimeFailed"} : Leave(d, out)
          /\ DropGuard(d) /\ UNCHANGED tSent
       \/ /\ Step(d, "start", "run")
          /\ StartImmediate(d) \/ StartBody(d) \/ StartChild(d)
          /\ UNCHANGED <<tPermit, tKilled>>
    /\ UNCHANGED <<tHandler, tLimit, tEnd, tQueued, tCounters, tStop>>

Polled(d) == tPc[d] \in {"run", "grace", "kill"}

\* A cooperative handler is the host's own code, and so is its drive.
IsHosts(d) == tHandler[d].class = "CooperativeInProcess"

\* What a body leaves in its one-shot: a child nothing, a handler of the host's
\* own may drop the sender.
Sends(d) ==
    CASE IsProcess(d) -> {tSent[d]}
      [] ~IsProcess(d) /\ IsHosts(d) -> {"sent", "lost"}
      [] OTHER -> {"sent"}

\* The body ends by itself.  An inline body runs only while its dispatch polls
\* it, a child only reports through the drive that reaps it.
BodyEnds(d) ==
    /\ tWork[d] = "running" /\ (tHandler[d].drive /\ ~IsProcess(d) => Polled(d))
    /\ tWork' = [tWork EXCEPT ![d] = "ended"]
    /\ \E s \in Sends(d) : tSent' = [tSent EXCEPT ![d] = s]
    /\ UNCHANGED <<tHandler, tLimit, tPc, tOut, tChild, tEnd, tPermit, tKilled, tQueued,
                   tCounters, tOwned, tStop>>

\* The drive of a process: stdin failure or the deadline kills; try_wait
\* observes the exit; two seconds after the kill it gives up.
DriveProcess(d) ==
    /\ IsProcess(d) /\ tHandler[d].drive /\ Polled(d) /\ tSent[d] = "none"
    /\ \/ /\ ~tKilled[d] /\ tKilled' = [tKilled EXCEPT ![d] = TRUE]
          /\ UNCHANGED <<tChild, tOwned, tSent>>
       \/ /\ tWork[d] = "ended" /\ Observe({d})
          /\ tSent' = [tSent EXCEPT ![d] = "sent"] /\ UNCHANGED tKilled
       \/ /\ tKilled[d] /\ tWork[d] = "running"
          /\ tSent' = [tSent EXCEPT ![d] = "lost"] /\ UNCHANGED <<tChild, tOwned, tKilled>>
    /\ UNCHANGED <<tHandler, tLimit, tPc, tOut, tWork, tEnd, tPermit, tQueued, tCounters,
                   tStop>>

\* A drive of the host's own ends although another holder of the sender has
\* not sent: `drive_fut => wait.await`, which no deadline bounds.
DriveEndsUnsent(d) ==
    /\ IsHosts(d) /\ tHandler[d].drive /\ Polled(d) /\ tSent[d] = "none"
    /\ Step(d, tPc[d], "await") /\ DropDrive(d)
    /\ UNCHANGED <<tHandler, tLimit, tChild, tSent, tEnd, tPermit, tKilled, tQueued, tCounters,
                   tOwned, tStop>>

\* That holder sends after all, or goes; nothing obliges it to.
SenderReturns(d) ==
    /\ tPc[d] = "await" /\ tSent[d] = "none"
    /\ \E s \in {"sent", "lost"} : tSent' = [tSent EXCEPT ![d] = s]
    /\ UNCHANGED <<tHandler, tLimit, tPc, tOut, tWork, tChild, tEnd, tPermit, tKilled, tQueued,
                   tCounters, tOwned, tStop>>

-----------------------------------------------------------------------------
(* Waiting for the completion.                                             *)

\* Mutant: a body that ignores its cancel is waited for.
GivesUp_process(d) ==
    tSent[d] = "none" /\ tPc[d] = "kill"

\* The grace period, or for a process the kill deadline, is over.
GivesUp(d) ==
    /\ tSent[d] = "none"
    /\ tPc[d] = (IF tHandler[d].class = "ProcessIsolated" THEN "kill" ELSE "grace")

\* The select around the body, biased to its completion.
BodyDone(d) ==
    /\ tSent[d] # "none" /\ Step(d, tPc[d], "join") /\ DropDrive(d)
    /\ tEnd' = [tEnd EXCEPT ![d] = tSent[d]] /\ UNCHANGED tKilled

\* The deadline or the cancel: control.cancel, and at once the kill unless the
\* class has a grace period before it.
BeginTermination(d) ==
    /\ tSent[d] = "none" /\ Step(d, "run", "grace")
    /\ tKilled' = [tKilled EXCEPT ![d] =
          @ \/ (tHandler[d].class # "ProcessIsolated" /\ IsProcess(d))]
    /\ UNCHANGED <<tEnd, tWork>>

\* A process-isolated tool that outlives its grace period is killed.
Escalate(d) ==
    /\ tSent[d] = "none" /\ tHandler[d].class = "ProcessIsolated"
    /\ Step(d, "grace", "kill")
    /\ tKilled' = [tKilled EXCEPT ![d] = TRUE] /\ UNCHANGED <<tEnd, tWork>>

GiveUp(d) ==
    /\ GivesUp(d) /\ Step(d, tPc[d], "join") /\ DropDrive(d)
    /\ tEnd' = [tEnd EXCEPT ![d] = "gave_up"] /\ UNCHANGED tKilled

AwaitBody(d) ==
    /\ Polled(d) \/ tPc[d] = "await"
    /\ BodyDone(d) \/ BeginTermination(d) \/ Escalate(d) \/ GiveUp(d)
    /\ UNCHANGED <<tHandler, tLimit, tChild, tSent, tPermit, tQueued, tCounters, tOwned, tStop>>

\* A cooperative body that did not acknowledge: nothing can be joined.
NonAck(d) ==
    IsHosts(d) /\ ~IsProcess(d) /\ tEnd[d] = "gave_up"

\* The cooperative non-acknowledgement, release_if_idle, and the guard's drop.
Settle(d) ==
    /\ tPermit' = [tPermit EXCEPT ![d] =
            IF @ = "guard" /\ NonAck(d) THEN "orphan" ELSE PermitOnDrop(d)]
    /\ tKilled' = [tKilled EXCEPT ![d] = @ \/ HasJoin(d)]

\* validate_tool_completion: an output outside its contract is a runtime failure.
validated(end) == IF end = "sent" THEN {"Canonical", "RuntimeFailed"} ELSE {"RuntimeFailed"}

\* join_timeout, the settlement and the outcome.
JoinBody(d) ==
    /\ tPc[d] = "join"
    /\ \E out \in validated(tEnd[d]) : Leave(d, out)
    /\ Settle(d) /\ Observe({d})
    /\ UNCHANGED <<tHandler, tLimit, tWork, tSent, tEnd, tQueued, tCounters, tStop>>

\* The worker task is aborted at one of its awaits.
Abort(d) ==
    /\ tPc[d] \in {"retry", "run", "grace", "kill", "await", "join"}
    /\ Leave(d, "dropped") /\ DropGuard(d)
    /\ UNCHANGED <<tHandler, tLimit, tSent, tEnd, tQueued, tCounters, tStop>>

-----------------------------------------------------------------------------
(* The runtime: the registry, the orphans and quiescing.                   *)

BeginQuiesce ==
    /\ tStop = "no" /\ tStop' = "quiescing"
    /\ UNCHANGED <<tHandler, tLimit, tEach, tQueued, tCounters, tOwned>>

Parked == {d \in Dispatch : tPermit[d] = "registry"}

\* OwnedProcessRegistry::shutdown_progress and OrphanToolPermitSet::shutdown_progress.
ShutdownProgress ==
    /\ tStop = "quiescing"
    /\ tKilled' = [d \in Dispatch |-> tKilled[d] \/ d \in Parked]
    /\ Observe(Parked)
    /\ tPermit' = [d \in Dispatch |->
            IF tPermit[d] = "orphan" \/ (d \in Parked /\ ~HasJoin(d))
            THEN "shared" ELSE tPermit[d]]
    /\ UNCHANGED <<tHandler, tLimit, tPc, tOut, tWork, tSent, tEnd, tQueued, tCounters, tStop>>

\* live_count: exited children leave the registry.
LiveCount ==
    /\ \E d \in Parked : ~HasJoin(d)
    /\ Observe(Parked)
    /\ tPermit' = [d \in Dispatch |->
            IF d \in Parked /\ ~HasJoin(d) THEN "shared" ELSE tPermit[d]]
    /\ UNCHANGED <<tHandler, tLimit, tPc, tOut, tWork, tSent, tEnd, tKilled, tQueued, tCounters,
                   tStop>>

\* Stopped: every task joined and the registry empty.
MayStop == Parked = {} /\ \A d \in Dispatch : tPc[d] \in {"new", "done"}

\* Drops of permits are synchronous, and the orphans are released in this turn.
Stop ==
    /\ tStop = "quiescing" /\ MayStop
    /\ \A d \in Dispatch : tPermit[d] \in {"none", "registry"}
    /\ tStop' = "stopped"
    /\ UNCHANGED <<tHandler, tLimit, tEach, tQueued, tCounters, tOwned>>

DispatchStep(d) ==
    \/ Enqueue(d) \/ Validate(d) \/ Acquire(d) \/ StartTool(d)
    \/ AwaitBody(d) \/ JoinBody(d)

ToolNext ==
    \/ \E d \in Dispatch : DispatchStep(d) \/ DriveProcess(d) \/ ReleasePermit(d)
                           \/ BodyEnds(d) \/ DriveEndsUnsent(d) \/ SenderReturns(d) \/ Abort(d)
    \/ BeginQuiesce \/ ShutdownProgress \/ LiveCount \/ Stop

\* The worker tasks and the supervisor are scheduled, their timers fire, and a
\* killed child exits; no body ends by itself, nothing is aborted.
ToolFairness ==
    /\ \A d \in Dispatch :
        /\ WF_tdVars(DispatchStep(d))
        /\ WF_tdVars(ReleasePermit(d))
        /\ WF_tdVars(tKilled[d] /\ BodyEnds(d))
    /\ WF_tdVars(ShutdownProgress) /\ WF_tdVars(Stop)

ToolSpec == ToolInit /\ [][ToolNext]_tdVars /\ ToolFairness

-----------------------------------------------------------------------------
Stoppable(d) == tHandler[d].drive

(* However dispatches are aborted, time out or race, the bodies and children *)
(* the runtime can stop (everything but a handler's own thread) never run    *)
(* more at once than each of the three limits allows: no permit comes back   *)
(* before its body is dropped or its child's exit observed.  Two of the      *)
(* counters live as long as their dispatcher, which is rebuilt each tool     *)
(* round; the third is the runtime's.  And once the runtime is Stopped, no   *)
(* body or child it can stop runs, owned_processes is zero and the three     *)
(* capacity counters are back at zero; a cooperative handler's own thread    *)
(* may still run then, its orphaned permit released.                         *)
NoOvercommit ==
    LET live == {d \in Dispatch : Stoppable(d) /\ tWork[d] = "running"}
        n == Cardinality(live)
    IN  /\ n <= tLimit.shared /\ n <= tLimit.txn /\ n <= tLimit.tool
        /\ tStop = "stopped" =>
              live = {} /\ tOwned = 0 /\ tShared = 0 /\ tTxn = 0 /\ tTool = 0

(* A dispatch that holds a queue slot returns, whatever its tool does, or    *)
(* awaits the sender of a host's handler whose drive ended without sending:  *)
(* the attempts, the deadline, the grace and the kill deadline bound every   *)
(* other wait.  And unless a dispatch is left in that wait, quiescing ends,  *)
(* its parked children killed and reaped, orphans released.                  *)
DispatchEnds ==
    /\ \A d \in Dispatch : tPc[d] = "validate" ~> tPc[d] \in {"done", "await"}
    /\ (tStop = "quiescing") ~> (tStop = "stopped" \/ \E d \in Dispatch : tPc[d] = "await")
=============================================================================
