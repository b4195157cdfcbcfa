----------------------- MODULE LifecycleOutcomeProofs -------------------------
(***************************************************************************)
(* Proofs about the outcome of a transaction, for every set of             *)
(* transactions, sessions and workers and every bound: what becomes of a   *)
(* decision, its Ended event and its completion, up to the drain.          *)
(*                                                                         *)
(* Every step but the four that seal and report is one that TxFrame        *)
(* describes.                                                              *)
(***************************************************************************)
EXTENDS LifecycleProofs

USE NamesAssumption, BoundsAssumption

-----------------------------------------------------------------------------
(* The outcome of a transaction.                                           *)

\* A decision in the ledger is the one it was, or a cancel was upgraded.
Upgraded(t) ==
    terminal'[t] = terminal[t] \/ (terminal[t] = "Cancelled" /\ terminal'[t] = "Terminated")

\* What a step that neither seals nor reports does to a transaction.
TxFrame(t) ==
    /\ fin_kind'[t] = fin_kind[t] /\ reply'[t] = reply[t] /\ ended'[t] = ended[t]
    /\ seal'[t] = "sent" => seal[t] = "sent"
    /\ fin_pc'[t] = fin_pc[t] \/ (fin_pc[t] = "none" /\ fin_pc'[t] = "yield")
    /\ completion'[t] \in {"sent", "finalizer"} => completion'[t] = completion[t]
    /\ completion'[t] \in {"delivery", "row"} =>
          t \in rows' \/ (completion[t] \in {"delivery", "row"} /\ t \notin rows)
    /\ fin_pc[t] # "none" /\ t \in rows' => t \in rows /\ Upgraded(t)

\* What it does to the transaction's tasks.
TaskFrame(t) ==
    /\ task[<<t, "finalizer">>] \in {"live", "aborting"} =>
          task'[<<t, "finalizer">>] \in {"live", "aborting"} \/ completion'[t] # "finalizer"
    /\ terminal[t] # "none" =>
          \A c \in {"coordinator", "publisher"} :
             task[<<t, c>>] = "absent" => task'[<<t, c>>] = "absent"

reportVars == <<fin_kind, reply, ended>>

\* A step that leaves the rows' outcome alone.
LEMMA QuietFrame ==
    ASSUME UNCHANGED <<phase, terminal, completion, seal, fin_pc, reportVars>>, NEW t \in Tx
    PROVE  TxFrame(t)
BY DEF TxFrame, Upgraded, rows, reportVars

\* A decision for undecided rows: none of them has a finalizer yet.
LEMMA DecideFrame ==
    ASSUME TypeOK, TxDecision, NEW ts \in SUBSET undecided, NEW kind, decide(ts, kind),
           UNCHANGED <<completion, reportVars>>, NEW t \in Tx
    PROVE  TxFrame(t)
<1>1. /\ terminal'[t] = IF t \in ts THEN kind ELSE terminal[t]
      /\ phase'[t] = IF t \in ts THEN "Finalizing" ELSE phase[t]
      /\ seal'[t] = IF t \in ts /\ seal[t] = "row" THEN "finalizer" ELSE seal[t]
      /\ fin_pc'[t] = IF t \in ts THEN "yield" ELSE fin_pc[t]
  BY DEF decide
<1>2. t \in ts => t \in rows /\ fin_pc[t] = "none"
  BY DEF TxDecision, undecided
<1>3. t \in rows' <=> t \in rows
  BY <1>1, <1>2 DEF rows
<1> QED BY <1>1, <1>2, <1>3 DEF TxFrame, Upgraded, reportVars

\* Removing rows drops a sender that is still in one and touches no outcome.
LEMMA RemoveFrame ==
    ASSUME TypeOK, NEW ts \in SUBSET Tx, remove(ts), UNCHANGED <<seal, fin_pc, reportVars>>,
           NEW t \in Tx
    PROVE  TxFrame(t)
<1>1. /\ phase'[t] = IF t \in ts THEN "Absent" ELSE phase[t]
      /\ terminal'[t] = IF t \in ts THEN "none" ELSE terminal[t]
      /\ completion'[t] = IF t \in ts /\ completion[t] \in {"delivery", "row"}
                          THEN "dropped" ELSE completion[t]
  BY DEF remove
<1>2. t \in rows' <=> t \in rows /\ t \notin ts
  BY <1>1 DEF rows
<1> QED BY <1>1, <1>2 DEF TxFrame, Upgraded, reportVars

\* accept_terminal decides, upgrades, or leaves the row as it is.
LEMMA AcceptFrame ==
    ASSUME TypeOK, TxDecision, NEW u \in Tx, NEW kind, NEW force, accept_terminal(u, kind, force),
           UNCHANGED <<completion, reportVars>>, NEW t \in Tx
    PROVE  TxFrame(t)
<1>1. CASE u \notin rows
  BY <1>1, QuietFrame DEF accept_terminal, decisionVars
<1>2. CASE u \in rows /\ terminal[u] # "none"
  <2>1. later_proposal(u, kind, force)
    BY <1>2 DEF accept_terminal
  <2>2. UNCHANGED <<phase, fin_pc>> /\ Upgraded(t) /\ (seal'[t] = "sent" => seal[t] = "sent")
    BY <2>1 DEF later_proposal, Upgraded, TypeOK
  <2> QED BY <2>2 DEF TxFrame, rows, reportVars
<1>3. CASE u \in rows /\ terminal[u] = "none"
  <2>1. decide({u}, kind) /\ {u} \in SUBSET undecided
    BY <1>3 DEF accept_terminal, undecided
  <2> QED BY <2>1, DecideFrame
<1> QED BY <1>1, <1>2, <1>3

\* The registry after a step: running core tasks go on, and only finalizers appear.
RegistryKept ==
    \A t \in Tx, c \in CoreClass :
       /\ task[<<t, c>>] \in {"live", "aborting"} => task'[<<t, c>>] \in {"live", "aborting"}
       /\ task[<<t, c>>] = "absent" /\ c # "finalizer" => task'[<<t, c>>] = "absent"

\* The helpers of the registry leave running core tasks running.
LEMMA RegistryHelpers ==
    ASSUME TypeOK
    PROVE  /\ UNCHANGED task => RegistryKept
           /\ \A ks : task' = abort(task, ks) => RegistryKept
           /\ \A ts : task' = spawned(task, finalizers(ts)) => RegistryKept
           /\ \A ks, ts : task' = spawned(abort(task, ks), finalizers(ts)) => RegistryKept
           /\ \A ks \in SUBSET Task :
                 (\A k \in ks : task[k] \in Exited) /\ deregister(ks) => RegistryKept
<1>k. \A t \in Tx, c \in CoreClass : <<t, c>> \in Task
  BY Zenon DEF Task
<1>f. \A t, c, ts : <<t, c>> \in finalizers(ts) => c = "finalizer"
  BY DEF finalizers
<1>1. UNCHANGED task => RegistryKept
  BY DEF RegistryKept
<1>2. ASSUME NEW ks, task' = abort(task, ks) PROVE RegistryKept
  BY Zenon, <1>2, <1>k DEF RegistryKept, abort
<1>3. ASSUME NEW ts, task' = spawned(task, finalizers(ts)) PROVE RegistryKept
  BY Zenon, <1>3, <1>k, <1>f DEF RegistryKept, spawned
<1>4. ASSUME NEW ks, NEW ts, task' = spawned(abort(task, ks), finalizers(ts)) PROVE RegistryKept
  BY Zenon, <1>4, <1>k, <1>f DEF RegistryKept, spawned, abort
<1>5. ASSUME NEW ks \in SUBSET Task, \A k \in ks : task[k] \in Exited, deregister(ks)
      PROVE  RegistryKept
  BY Zenon, <1>5, <1>k DEF RegistryKept, deregister, Exited
<1> QED BY <1>1, <1>2, <1>3, <1>4, <1>5

\* A registry that is kept so keeps the frame of every transaction.
LEMMA KeptFrame ==
    ASSUME RegistryKept, NEW t \in Tx
    PROVE  TaskFrame(t)
BY Zenon DEF RegistryKept, TaskFrame, CoreClass

\* accept_terminal and begin_shutdown_inner abort and spawn finalizers only.
LEMMA AcceptRegistry ==
    ASSUME TypeOK, NEW u, NEW kind, NEW force, accept_terminal(u, kind, force)
    PROVE  RegistryKept
BY RegistryHelpers DEF accept_terminal, later_proposal, decisionVars

\* on_task_exit decides, clears the row of a transaction that has no task, or aborts.
LEMMA ExitFrame ==
    ASSUME TypeOK, TxDecision, NEW k \in Task, NEW how, on_task_exit(k, how),
           UNCHANGED reportVars, NEW t \in Tx
    PROVE  TxFrame(t) /\ RegistryKept
<1>1. CASE missing_terminal(k)
  <2>1. /\ decide({k[1]}, recovered_kind(k[1], how))
        /\ task' = spawned(task, finalizers({k[1]})) /\ UNCHANGED completion
    BY <1>1 DEF on_task_exit
  <2>2. {k[1]} \in SUBSET undecided
    BY <1>1 DEF missing_terminal
  <2> QED BY <2>1, <2>2, DecideFrame, RegistryHelpers
<1>2. CASE ~missing_terminal(k) /\ tasks_for(k[1]) = {}
  <2>1. remove(tombstones({k[1]})) /\ UNCHANGED <<seal, task, fin_pc>>
    BY <1>2 DEF on_task_exit
  <2>2. tombstones({k[1]}) \in SUBSET Tx
    BY DEF tombstones, Task
  <2> QED BY <2>1, <2>2, RemoveFrame, RegistryHelpers
<1>3. CASE ~missing_terminal(k) /\ tasks_for(k[1]) # {}
  <2>1. /\ task' = IF k[2] = "finalizer" THEN abort(task, tasks_for(k[1])) ELSE task
        /\ UNCHANGED <<rowVars, seal, fin_pc>>
    BY <1>3 DEF on_task_exit
  <2> QED BY <2>1, QuietFrame, RegistryHelpers DEF rowVars
<1> QED BY <1>1, <1>2, <1>3

\* What a step of the lap does to a transaction and to its tasks.
FrameStep == \A t \in Tx : TxFrame(t) /\ TaskFrame(t)

\* A worker message is a proposal.
LEMMA HandleWorkerFrame ==
    ASSUME TypeOK, TxDecision, NEW next, handle_worker(next)
    PROVE  FrameStep
<1>1. Head(worker_q) \in [tx : Tx, kind : CoordinatorKind]
  BY Zenon, SeqTail DEF handle_worker, TypeOK
<1>2. Head(worker_q).tx \in Tx
  BY <1>1
<1>3. /\ accept_terminal(Head(worker_q).tx, Head(worker_q).kind, FALSE)
      /\ UNCHANGED <<completion, reportVars>>
  BY Zenon DEF handle_worker, reportVars
<1> QED BY Zenon, <1>2, <1>3, AcceptFrame, AcceptRegistry, KeptFrame DEF FrameStep

\* begin_shutdown_inner decides what is undecided.
LEMMA ShutdownFrame ==
    ASSUME TypeOK, TxDecision, begin_shutdown_inner, UNCHANGED <<completion, reportVars>>
    PROVE  \A t \in Tx : TxFrame(t)
<1>1. decide(undecided, "RuntimeShutdown")
  BY DEF begin_shutdown_inner
<1> QED BY <1>1, DecideFrame

\* A command is a proposal, or a shutdown that may abort everything.
LEMMA HandleControlFrame ==
    ASSUME TypeOK, TxDecision, NEW next, handle_control(next)
    PROVE  FrameStep
<1> DEFINE cmd == Head(control_q)
<1>1. cmd \in Control
  BY SeqTail DEF handle_control, TypeOK
<1>2. UNCHANGED <<completion, reportVars>>
  BY DEF handle_control, reportVars
<1>3. CASE cmd.op \in {"Cancel", "ForceTerminate"}
  <2>1. cmd.tx \in Tx
    BY <1>1, <1>3 DEF Control
  <2>2. \E kind, force : accept_terminal(cmd.tx, kind, force)
    BY Zenon, <1>3 DEF handle_control
  <2> QED BY <1>2, <2>1, <2>2, AcceptFrame, AcceptRegistry, KeptFrame DEF FrameStep
<1>4. CASE cmd.op \in {"BeginShutdown", "StopSupervisor"}
  <2>1. begin_shutdown_inner /\ task' \in {shutdown_tasks, abort(shutdown_tasks, Task)}
    BY Zenon, <1>4 DEF handle_control
  <2>2. CASE task' = shutdown_tasks
    BY <1>2, <2>1, <2>2, ShutdownFrame, RegistryHelpers, KeptFrame DEF FrameStep, shutdown_tasks
  <2>3. CASE task' = abort(shutdown_tasks, Task)
    <3>1. \A t \in Tx, c \in CoreClass : <<t, c>> \in Task
      BY Zenon DEF Task
    <3>2. \A t \in Tx, c \in CoreClass : <<t, c>> \in finalizers(undecided) => c = "finalizer"
      BY DEF finalizers
    <3>3. RegistryKept
      BY Zenon, <2>3, <3>1, <3>2 DEF RegistryKept, shutdown_tasks, abort, spawned
    <3> QED BY <1>2, <2>1, <3>3, ShutdownFrame, KeptFrame DEF FrameStep
  <2> QED BY <2>1, <2>2, <2>3
<1> QED BY Zenon, <1>1, <1>3, <1>4 DEF Control

\* A request spawns a worker, never a core task.
LEMMA HandleSpawnFrame ==
    ASSUME TypeOK, NEW next, handle_spawn(next)
    PROVE  FrameStep
<1>1. Head(spawn_q) \in Tx \X Worker
  BY SeqTail DEF handle_spawn, TypeOK
<1>2. \A t \in Tx, c \in CoreClass : <<t, c>> \in Task /\ <<t, c>> # Head(spawn_q)
  BY <1>1, NamesAssumption DEF Task, CoreClass
<1>3. RegistryKept
  BY Zenon, <1>2 DEF handle_spawn, RegistryKept, spawned
<1>4. UNCHANGED <<phase, terminal, completion, seal, fin_pc, reportVars>>
  BY DEF handle_spawn, rowVars, finVars, reportVars
<1> QED BY Zenon, <1>3, <1>4, QuietFrame, KeptFrame DEF FrameStep

\* handle_start starts a row that is Queued, and so undecided.
LEMMA HandleStartFrame ==
    ASSUME TypeOK, TxDecision, NEW u \in Tx, handle_start(u), UNCHANGED reportVars
    PROVE  FrameStep
<1>1. CASE ~(u \in rows /\ phase[u] = "Queued" /\ completion[u] = "delivery")
  BY <1>1, QuietFrame, RegistryHelpers, KeptFrame DEF handle_start, decisionVars, FrameStep
<1>2. CASE u \in rows /\ phase[u] = "Queued" /\ completion[u] = "delivery"
  <2>1. /\ phase' = [phase EXCEPT ![u] = "Running"]
        /\ completion' = [completion EXCEPT ![u] = "row"] /\ seal' = [seal EXCEPT ![u] = "row"]
        /\ task' = spawned(task, {<<u, "publisher">>, <<u, "coordinator">>})
        /\ UNCHANGED <<terminal, pending, fin_pc>>
    BY <1>2 DEF handle_start
  <2>2. terminal[u] = "none" /\ fin_pc[u] = "none"
    BY Zenon, <1>2 DEF TxDecision, undecided
  <2>3. \A t \in Tx : t \in rows' <=> t \in rows
    BY Zenon, <1>2, <2>1 DEF rows, TypeOK
  <2>4. \A t \in Tx : TxFrame(t)
    BY Zenon, <2>1, <2>2, <2>3, <1>2 DEF TxFrame, Upgraded, TypeOK, reportVars
  <2>5. \A t \in Tx, c \in CoreClass : <<t, c>> \in Task
    BY Zenon DEF Task
  <2>6. \A t \in Tx : TaskFrame(t)
    BY Zenon, <2>1, <2>2, <2>5 DEF TaskFrame, spawned, CoreClass
  <2> QED BY <2>4, <2>6 DEF FrameStep
<1> QED BY <1>1, <1>2

\* A lap of the supervisor keeps the frame of every transaction.
LEMMA LapFrame ==
    ASSUME TypeOK, TxDecision, Lap \/ SelectWake
    PROVE  FrameStep
<1>r. \A r \in reaped : r[1] \in Task
  BY DEF TypeOK
<1>q. ASSUME UNCHANGED <<rowVars, finVars>>, RegistryKept PROVE FrameStep
  BY <1>q, QuietFrame, KeptFrame DEF FrameStep, rowVars, finVars, reportVars
<1>g. ASSUME NEW from, NEW to, goto(from, to) PROVE FrameStep
  BY <1>g, <1>q, RegistryHelpers DEF goto
<1>e. ASSUME NEW r \in reaped, on_task_exit(r[1], r[2]), UNCHANGED reportVars PROVE FrameStep
  BY <1>e, <1>r, ExitFrame, KeptFrame DEF FrameStep
<1>b. ASSUME begin_shutdown_inner, task' = shutdown_tasks, UNCHANGED <<completion, reportVars>>
      PROVE  FrameStep
  BY <1>b, ShutdownFrame, RegistryHelpers, KeptFrame DEF FrameStep, shutdown_tasks
<1>1. CASE DrainWorker \/ DrainControl \/ DrainSpawn \/ SelectControl \/ SelectWorker \/ SelectSpawn
  BY <1>1, <1>g, HandleWorkerFrame, HandleControlFrame, HandleSpawnFrame
     DEF DrainWorker, DrainControl, DrainSpawn, SelectControl, SelectWorker, SelectSpawn
<1>2. CASE Reap
  <2>1. deregister({k \in Task : task[k] \in Exited}) /\ UNCHANGED <<rowVars, finVars>>
    BY <1>2 DEF Reap
  <2>2. RegistryKept
    BY <2>1, RegistryHelpers
  <2> QED BY <1>q, <2>1, <2>2
<1>3. CASE HandleExit
  BY <1>3, <1>e DEF HandleExit, reportVars
<1>4. CASE ObserveQuiescing \/ SelectWake
  BY <1>4, <1>b, <1>g DEF ObserveQuiescing, SelectWake, reportVars
<1>5. CASE NothingToStop \/ SelectTick
  BY Zenon, <1>5, <1>g DEF NothingToStop, SelectTick
<1>6. ASSUME NEW grace \in BOOLEAN, Residual(grace) PROVE FrameStep
  <2>1. PICK ts \in SUBSET Tx : remove(ts)
    BY <1>6 DEF Residual, tombstones, rows
  <2>2. PICK ks : task' = abort(task, ks)
    BY Zenon, <1>6 DEF Residual
  <2>3. UNCHANGED finVars
    BY Zenon, <1>6 DEF Residual
  <2> QED BY Zenon, <2>1, <2>2, <2>3, RemoveFrame, RegistryHelpers, KeptFrame
          DEF FrameStep, finVars, reportVars
<1>d. ASSUME NEW k \in Task, task[k] \in Exited, deregister({k}) PROVE RegistryKept
  BY <1>d, RegistryHelpers
<1>7. CASE AbortAndDrain
  BY Zenon, <1>7, <1>d, <1>q, <1>g DEF AbortAndDrain
<1>8. CASE SelectJoin
  BY <1>8, <1>d, <1>q DEF SelectJoin
<1>9. CASE SelectStart
  <2> DEFINE t == Head(start_q)
  <2>1. t \in Tx
    BY Zenon, <1>9, SeqTail DEF SelectStart, TypeOK
  <2>2. UNCHANGED reportVars
    BY <1>9 DEF SelectStart, reportVars
  <2>3. CASE handle_start(t)
    BY <2>1, <2>2, <2>3, HandleStartFrame
  <2>4. CASE accept_terminal(t, "RuntimeShutdown", FALSE) /\ UNCHANGED completion
    BY Zenon, <2>1, <2>2, <2>4, AcceptFrame, AcceptRegistry, KeptFrame DEF FrameStep
  <2>5. CASE UNCHANGED <<decisionVars, completion, task>>
    BY Zenon, <2>2, <2>5, QuietFrame, RegistryHelpers, KeptFrame DEF FrameStep, decisionVars
  <2> QED BY ZenonT(40), <1>9, <2>3, <2>4, <2>5 DEF SelectStart
<1>10. CASE HandleJoined
  BY Zenon, <1>10, <1>e, HandleWorkerFrame DEF HandleJoined, reportVars
<1> QED BY Zenon, <1>1, <1>2, <1>3, <1>4, <1>5, <1>6, <1>7, <1>8, <1>9, <1>10 DEF Lap

\* A task that is not a finalizer leaves; core tasks that are absent stay absent.
LEMMA LeaveKept ==
    ASSUME TypeOK, NEW u \in Tx, NEW c, c # "finalizer", task[<<u, c>>] # "absent",
           NEW how \in Exited, leave(<<u, c>>, how), NEW t \in Tx
    PROVE  TaskFrame(t)
<1>1. \A k \in Task : k # <<u, c>> => task'[k] = task[k]
  BY DEF leave, TypeOK
<1>2. \A d \in CoreClass : <<t, d>> \in Task
  BY Zenon DEF Task
<1> QED BY Zenon, <1>1, <1>2 DEF TaskFrame, CoreClass

\* The four steps that seal and report.
Sealing(t) == \E d \in Delivery : PublisherSeals(t, d)
Reporting(t) == Sealing(t) \/ FinalizerSnapshots(t) \/ FinalizerHears(t) \/ FinalizerPublishes(t)

\* Every other step keeps the frame of every transaction.
LEMMA EveryFrame ==
    ASSUME TypeOK, TxDecision, [Next]_vars
    PROVE  FrameStep \/ \E t \in Tx : Reporting(t)
<1>u. ASSUME UNCHANGED <<phase, terminal, completion, seal, fin_pc, reportVars, task>>
      PROVE  FrameStep
  BY Zenon, <1>u, QuietFrame, RegistryHelpers, KeptFrame DEF FrameStep
<1>l. ASSUME UNCHANGED <<phase, terminal, completion, seal, fin_pc, reportVars>>, NEW u \in Tx, NEW c,
             c # "finalizer", running(u, c), NEW how \in Exited, leave(<<u, c>>, how)
      PROVE  FrameStep
  BY Zenon, <1>l, QuietFrame, LeaveKept DEF FrameStep, running
<1>1. ASSUME NEW t \in Tx, Coordinator(t) PROVE FrameStep
  <2>1. CASE \E s \in Session : BindSession(t, s)
    BY Zenon, <2>1, <1>u DEF BindSession, finVars, reportVars
  <2>2. CASE \E kind \in CoordinatorKind : CoordinatorProposes(t, kind)
    BY Zenon, <2>2, <1>u DEF CoordinatorProposes, finVars, reportVars
  <2>3. CASE CoordinatorExits(t) \/ CoordinatorPanics(t)
    BY Zenon, <2>3, <1>l DEF CoordinatorExits, CoordinatorPanics, rowVars, finVars, reportVars, Exited
  <2> QED BY Zenon, <1>1, <2>1, <2>2, <2>3 DEF Coordinator
<1>2. ASSUME NEW t \in Tx, Publisher(t), ~Sealing(t) PROVE FrameStep
  BY Zenon, <1>2, <1>l DEF Publisher, Sealing, PublisherUnsealed, rowVars, finVars, reportVars, Exited
<1>3. ASSUME NEW t \in Tx, Workers(t) PROVE FrameStep
  <2>1. PICK w \in Worker : RequestSpawn(t, w) \/ WorkerExits(t, w)
    BY <1>3 DEF Workers
  <2>2. w # "finalizer"
    BY NamesAssumption
  <2> QED BY Zenon, <2>1, <2>2, <1>u, <1>l DEF RequestSpawn, WorkerExits, rowVars, finVars, reportVars, Exited
<1>4. ASSUME NEW k \in Task, AbortTakesEffect(k) PROVE FrameStep
  <2>1. /\ \A t \in Tx : seal'[t] = "sent" => seal[t] = "sent"
        /\ \A t \in Tx : completion'[t] \in {completion[t], "dropped"}
        /\ UNCHANGED <<phase, terminal, fin_pc, reportVars>>
    BY Zenon, <1>4 DEF AbortTakesEffect, reportVars
  <2>2. \A t \in Tx : TxFrame(t)
    BY Zenon, <2>1 DEF TxFrame, Upgraded, rows, reportVars
  <2>3. ASSUME NEW t \in Tx PROVE TaskFrame(t)
    <3>1. \A c \in CoreClass : <<t, c>> \in Task
      BY Zenon DEF Task
    <3>2. \A j \in Task : j # k => task'[j] = task[j]
      BY Zenon, <1>4 DEF AbortTakesEffect, TypeOK
    <3>3. k = <<t, "finalizer">> => completion'[t] # "finalizer"
      BY Zenon, <1>4 DEF AbortTakesEffect
    <3>4. task[k] # "absent"
      BY Zenon, <1>4 DEF AbortTakesEffect
    <3> QED BY Zenon, <3>1, <3>2, <3>3, <3>4 DEF TaskFrame, CoreClass
  <2> QED BY Zenon, <2>2, <2>3 DEF FrameStep
<1>5. ASSUME NEW t \in Tx, NEW s, Submit(t, s) PROVE FrameStep
  <2>1. t \notin admitted /\ fin_pc[t] = "none"
    BY <1>5 DEF Submit, TxDecision
  <2>2. /\ phase' = [phase EXCEPT ![t] = "Queued"] /\ completion' = [completion EXCEPT ![t] = "delivery"]
        /\ UNCHANGED <<terminal, seal, fin_pc, reportVars, task>>
    BY Zenon, <1>5 DEF Submit, finVars, reportVars
  <2>3. \A u \in Tx : u \in rows' <=> u \in rows \/ u = t
    BY Zenon, <2>2 DEF rows, TypeOK
  <2>4. \A u \in Tx : TxFrame(u)
    BY Zenon, <2>1, <2>2, <2>3 DEF TxFrame, Upgraded, TypeOK, reportVars
  <2> QED BY Zenon, <2>2, <2>4, RegistryHelpers, KeptFrame DEF FrameStep
<1>6. ASSUME NEW t \in Tx, NEW op, Terminate(t, op) PROVE FrameStep
  BY Zenon, <1>6, <1>u DEF Terminate, rowVars, finVars, reportVars
<1>7. CASE Owner
  BY Zenon, <1>7, <1>u DEF Owner, BeginShutdown, AnnounceShutdown, WaitStopped, DropOwner, DropStops,
                    DropJoins, rowVars, finVars, reportVars
<1>8. CASE UNCHANGED vars
  BY <1>8, <1>u DEF vars, rowVars, finVars, reportVars
<1> QED BY Zenon, <1>1, <1>2, <1>3, <1>4, <1>5, <1>6, <1>7, <1>8, LapFrame
        DEF Next, Clients, Finalizer, Reporting

-----------------------------------------------------------------------------
(* What is reported.                                                       *)

\* The kind k a finalizer reports, against the decision d in the ledger.
Reports(k, d) == k = d \/ (k = "Cancelled" /\ d = "Terminated")

TxReport(t) ==
    /\ completion[t] = "sent" => fin_pc[t] = "done"
    /\ t \in rows /\ fin_pc[t] \in {"wait", "publish", "done"} => Reports(fin_kind[t], terminal[t])
    /\ ended[t] # "none" =>
          /\ fin_pc[t] \in {"wait", "publish", "done"} /\ seal[t] # "sent"
          /\ ended[t] = fin_kind[t] /\ (fin_pc[t] = "wait" => reply[t] = "Published")

\* The inductive invariant: from its snapshot on, the finalizer's kind is the ledger's, up
\* to an upgrade; an Ended event carries it and its answer waits for the finalizer.
ReportInv == \A t \in Tx : TxReport(t)

\* What the four reporting steps do to the decision of their transaction.
LEMMA ReportingStep ==
    ASSUME TypeOK, TxDecision, ReportInv, NEW t \in Tx, Reporting(t)
    PROVE  /\ TxReport(t)'
           /\ rows' = rows /\ (t \in rows /\ terminal[t] # "none" => DecisionChange(terminal[t], terminal'[t]))
           /\ \A u \in Tx \ {t} :
                 /\ terminal'[u] = terminal[u] /\ completion'[u] = completion[u]
                 /\ fin_pc'[u] = fin_pc[u] /\ fin_kind'[u] = fin_kind[u] /\ seal'[u] = seal[u]
                 /\ reply'[u] = reply[u] /\ ended'[u] = ended[u]
<1>t. /\ phase \in [Tx -> Phase] /\ terminal \in [Tx -> KindOrNone]
      /\ completion \in [Tx -> {"caller", "delivery", "row", "finalizer", "sent", "dropped"}]
      /\ seal \in [Tx -> {"none", "row", "finalizer", "sent", "gone"}]
      /\ fin_pc \in [Tx -> {"none", "yield", "wait", "publish", "done"}]
      /\ fin_kind \in [Tx -> KindOrNone] /\ reply \in [Tx -> Delivery \cup {"none"}]
      /\ ended \in [Tx -> KindOrNone]
  BY DEF TypeOK
<1>i. TxReport(t)
  BY Zenon DEF ReportInv
<1>s. ASSUME NEW kind \in KindOrNone, NEW d, settle(t, kind, d), rows' = rows,
             t \in rows => Reports(kind, terminal[t])
      PROVE  /\ t \in rows => Reports(fin_kind'[t], terminal'[t])
             /\ t \in rows /\ terminal[t] # "none" => DecisionChange(terminal[t], terminal'[t])
             /\ fin_pc' = [fin_pc EXCEPT ![t] = "publish"] /\ fin_kind'[t] = reported_kind(kind, d)
             /\ \A u \in Tx \ {t} : terminal'[u] = terminal[u] /\ fin_kind'[u] = fin_kind[u]
  BY Zenon, <1>s, <1>t DEF settle, reported_kind, Reports, DecisionChange
<1>1. CASE Sealing(t)
  <2>1. PICK d \in Delivery : PublisherSeals(t, d)
    BY Zenon, <1>1 DEF Sealing
  <2>2. /\ seal[t] = "sent" /\ (d = "Published" => fin_pc[t] = "wait")
        /\ seal' = [seal EXCEPT ![t] = "gone"]
        /\ reply' = IF fin_pc[t] = "wait" THEN [reply EXCEPT ![t] = d] ELSE reply
        /\ ended' = IF d = "Published" THEN [ended EXCEPT ![t] = fin_kind[t]] ELSE ended
        /\ UNCHANGED <<phase, terminal, completion, fin_pc, fin_kind>>
    BY Zenon, <2>1 DEF PublisherSeals, rowVars
  <2>3. rows' = rows
    BY Zenon, <2>2 DEF rows
  <2>4. ended[t] = "none"
    BY Zenon, <1>i, <2>2 DEF TxReport
  <2>5. TxReport(t)'
    BY Zenon, <1>t, <1>i, <2>2, <2>3, <2>4 DEF TxReport
  <2> QED BY Zenon, <1>t, <2>2, <2>3, <2>5 DEF DecisionChange
<1>2. CASE FinalizerSnapshots(t)
  <2>1. /\ fin_pc[t] = "yield" /\ t \in rows
        /\ phase' = [phase EXCEPT ![t] = "CleanupPending"]
        /\ completion' = [completion EXCEPT ![t] = IF @ \in {"delivery", "row"} THEN "finalizer" ELSE @]
        /\ UNCHANGED <<reply, ended>>
    BY Zenon, <1>2 DEF FinalizerSnapshots
  <2>2. rows' = rows
    BY Zenon, <1>t, <2>1 DEF rows
  <2>3. ended[t] = "none" /\ completion[t] # "sent" /\ completion'[t] # "sent"
    BY Zenon, <1>t, <1>i, <2>1 DEF TxReport
  <2>4. CASE seal[t] = "finalizer" /\ running(t, "publisher")
    <3>1. /\ seal' = [seal EXCEPT ![t] = "sent"]
          /\ fin_kind' = [fin_kind EXCEPT ![t] = terminal[t]]
          /\ fin_pc' = [fin_pc EXCEPT ![t] = "wait"] /\ UNCHANGED terminal
      BY <1>2, <2>4 DEF FinalizerSnapshots
    <3> QED BY Zenon, <1>t, <2>1, <2>2, <2>3, <3>1 DEF TxReport, Reports, DecisionChange
  <2>5. CASE ~(seal[t] = "finalizer" /\ running(t, "publisher"))
    <3>1. seal' = [seal EXCEPT ![t] = "gone"]
      BY Zenon, <1>2, <2>5 DEF FinalizerSnapshots
    <3>2. PICK d : settle(t, terminal[t], d)
      BY Zenon, <1>2, <2>5 DEF FinalizerSnapshots
    <3>3. terminal[t] \in KindOrNone /\ Reports(terminal[t], terminal[t])
      BY <1>t DEF Reports
    <3>4. /\ Reports(fin_kind'[t], terminal'[t])
          /\ terminal[t] # "none" => DecisionChange(terminal[t], terminal'[t])
          /\ fin_pc' = [fin_pc EXCEPT ![t] = "publish"]
          /\ \A u \in Tx \ {t} : terminal'[u] = terminal[u] /\ fin_kind'[u] = fin_kind[u]
      BY ZenonT(30), <1>s, <2>1, <2>2, <3>2, <3>3
    <3>5. TxReport(t)'
      BY ZenonT(30), <1>t, <2>1, <2>2, <2>3, <3>4 DEF TxReport
    <3> QED BY ZenonT(30), <1>t, <2>1, <2>2, <3>1, <3>4, <3>5
  <2> QED BY Zenon, <2>4, <2>5
<1>3. CASE FinalizerHears(t)
  <2> DEFINE d == IF reply[t] = "none" THEN "Failed" ELSE reply[t]
  <2>1. /\ fin_pc[t] = "wait" /\ settle(t, fin_kind[t], d)
        /\ reply' = [reply EXCEPT ![t] = "none"] /\ UNCHANGED <<phase, completion, seal, ended>>
    BY Zenon, <1>3 DEF FinalizerHears
  <2>2. rows' = rows
    BY Zenon, <2>1 DEF rows
  <2>3. fin_kind[t] \in KindOrNone /\ (t \in rows => Reports(fin_kind[t], terminal[t]))
    BY Zenon, <1>t, <1>i, <2>1 DEF TxReport
  <2>4. /\ t \in rows => Reports(fin_kind'[t], terminal'[t])
        /\ t \in rows /\ terminal[t] # "none" => DecisionChange(terminal[t], terminal'[t])
        /\ fin_pc' = [fin_pc EXCEPT ![t] = "publish"] /\ fin_kind'[t] = reported_kind(fin_kind[t], d)
        /\ \A u \in Tx \ {t} : terminal'[u] = terminal[u] /\ fin_kind'[u] = fin_kind[u]
    <3> HIDE DEF d
    <3> QED BY ZenonT(30), <1>s, <2>1, <2>2, <2>3
  <2>5. ended[t] # "none" => fin_kind'[t] = fin_kind[t]
    BY ZenonT(30), <1>i, <2>1, <2>4 DEF TxReport, reported_kind
  <2>6. completion[t] # "sent"
    BY Zenon, <1>i, <2>1 DEF TxReport
  <2>7. fin_pc'[t] = "publish"
    BY <1>t, <2>4
  <2>8. TxReport(t)'
    BY ZenonT(30), <1>i, <2>1, <2>2, <2>4, <2>5, <2>6, <2>7 DEF TxReport
  <2> QED BY ZenonT(30), <1>t, <2>1, <2>2, <2>4, <2>8
<1>4. CASE FinalizerPublishes(t)
  <2>1. /\ fin_pc[t] = "publish" /\ fin_pc' = [fin_pc EXCEPT ![t] = "done"]
        /\ completion' = [completion EXCEPT ![t] = IF @ = "finalizer" THEN "sent" ELSE @]
        /\ UNCHANGED <<phase, terminal, fin_kind, seal, reply, ended>>
    BY Zenon, <1>4 DEF FinalizerPublishes
  <2>2. rows' = rows
    BY Zenon, <2>1 DEF rows
  <2> QED BY Zenon, <1>t, <1>i, <2>1, <2>2 DEF TxReport, DecisionChange
<1> QED BY Zenon, <1>1, <1>2, <1>3, <1>4 DEF Reporting

\* A framed step keeps what is reported.
LEMMA FrameReport ==
    ASSUME TypeOK, TxDecision, NEW t \in Tx, TxReport(t), TxFrame(t)
    PROVE  TxReport(t)'
<1>1. fin_kind'[t] = fin_kind[t] /\ reply'[t] = reply[t] /\ ended'[t] = ended[t]
  BY Zenon DEF TxFrame
<1>2. completion'[t] = "sent" => fin_pc'[t] = "done"
  BY Zenon DEF TxFrame, TxReport
<1>3. ASSUME t \in rows', fin_pc'[t] \in {"wait", "publish", "done"}
      PROVE  Reports(fin_kind'[t], terminal'[t])
  <2>1. fin_pc[t] = fin_pc'[t] /\ t \in rows /\ Upgraded(t)
    BY ZenonT(30), <1>3 DEF TxFrame
  <2> QED BY Zenon, <1>1, <1>3, <2>1 DEF TxReport, Upgraded, Reports
<1>4. ended'[t] # "none" =>
          /\ fin_pc'[t] \in {"wait", "publish", "done"} /\ seal'[t] # "sent"
          /\ ended'[t] = fin_kind'[t] /\ (fin_pc'[t] = "wait" => reply'[t] = "Published")
  BY <1>1 DEF TxFrame, TxReport
<1> QED BY <1>2, <1>3, <1>4 DEF TxReport

\* The inductive step.
LEMMA ReportStep ==
    ASSUME TypeOK, IndInv, ReportInv, [Next]_vars
    PROVE  ReportInv'
<1>d. TxDecision
  BY Zenon, IndParts
<1>1. CASE FrameStep
  BY Zenon, <1>1, <1>d, FrameReport DEF FrameStep, ReportInv
<1>2. ASSUME NEW t \in Tx, Reporting(t) PROVE ReportInv'
  <2>1. TxReport(t)' /\ rows' = rows
    BY ZenonT(30), <1>2, <1>d, ReportingStep
  <2>2. ASSUME NEW u \in Tx, u # t PROVE TxReport(u)'
    <3>1. /\ terminal'[u] = terminal[u] /\ completion'[u] = completion[u]
          /\ fin_pc'[u] = fin_pc[u] /\ fin_kind'[u] = fin_kind[u] /\ seal'[u] = seal[u]
          /\ reply'[u] = reply[u] /\ ended'[u] = ended[u]
      BY Zenon, <1>2, <1>d, <2>2, ReportingStep
    <3> QED BY <2>1, <3>1 DEF ReportInv, TxReport
  <2> QED BY Zenon, <2>1, <2>2 DEF ReportInv
<1> QED BY Zenon, <1>1, <1>2, <1>d, EveryFrame

\* The inductive invariant holds throughout.
LEMMA ReportHolds == Spec => []ReportInv
<1>1. Init => ReportInv
  BY DEF Init, ReportInv, TxReport, rows
<1> QED BY <1>1, ReportStep, TypeCorrect, Inductive, PTL DEF Spec

\* The completion a caller gets carries the decision in the ledger, but for a force that
\* came after the finalizer's snapshot.
THEOREM DecisionReported == Spec => []CompletionReportsDecision
<1>1. ReportInv => CompletionReportsDecision
  BY Zenon DEF ReportInv, TxReport, Reports, CompletionReportsDecision, published, rows
<1> QED BY <1>1, ReportHolds, PTL

\* Ended and the completion of one transaction say the same, whatever the publisher's
\* answer, its loss, a timeout, or a later upgrade.
THEOREM EndedIsReported == Spec => []EndedAgreesWithCompletion
<1>1. ReportInv => EndedAgreesWithCompletion
  BY Zenon DEF ReportInv, TxReport, EndedAgreesWithCompletion, published
<1> QED BY <1>1, ReportHolds, PTL

\* A decision is final: it changes only as DecisionChange says, and starts nothing.
THEOREM DecisionIsFinal == Spec => DecisionStable
<1>1. ASSUME TypeOK, IndInv, ReportInv, [Next]_vars, NEW t \in rows, terminal[t] # "none"
      PROVE  /\ t \in rows' => DecisionChange(terminal[t], terminal'[t])
             /\ \A c \in {"coordinator", "publisher"} :
                   task[<<t, c>>] = "absent" => task'[<<t, c>>] = "absent"
  <2>1. TxDecision /\ t \in Tx
    BY Zenon, <1>1, IndParts DEF rows
  <2>2. fin_pc[t] # "none"
    BY <1>1, <2>1 DEF TxDecision, undecided
  <2>3. CASE FrameStep
    BY ZenonT(30), <1>1, <2>1, <2>2, <2>3 DEF FrameStep, TxFrame, TaskFrame, Upgraded, DecisionChange
  <2>4. ASSUME NEW u \in Tx, Reporting(u)
        PROVE  /\ t \in rows' => DecisionChange(terminal[t], terminal'[t])
               /\ \A c \in {"coordinator", "publisher"} :
                     task[<<t, c>>] = "absent" => task'[<<t, c>>] = "absent"
    <3>1. t \in rows' => DecisionChange(terminal[t], terminal'[t])
      <4>1. CASE u = t
        BY Zenon, <1>1, <2>1, <2>4, <4>1, ReportingStep
      <4>2. CASE u # t
        <5>1. terminal'[t] = terminal[t]
          BY Zenon, <1>1, <2>1, <2>4, <4>2, ReportingStep
        <5> QED BY Zenon, <5>1 DEF DecisionChange
      <4> QED BY <4>1, <4>2
    <3>2. \A c \in {"coordinator", "publisher"} : <<t, c>> \in Task
      BY Zenon, <2>1 DEF Task, CoreClass
    <3>3. CASE UNCHANGED task
      BY <3>1, <3>3
    <3>4. ASSUME NEW c, task[<<u, c>>] # "absent", leave(<<u, c>>, "completed")
          PROVE  \A e \in {"coordinator", "publisher"} :
                    task[<<t, e>>] = "absent" => task'[<<t, e>>] = "absent"
      BY Zenon, <1>1, <3>2, <3>4 DEF leave, TypeOK
    <3> QED BY Zenon, <2>4, <3>1, <3>3, <3>4 DEF Reporting, Sealing, PublisherSeals, FinalizerSnapshots,
                                        FinalizerHears, FinalizerPublishes, running
  <2> QED BY Zenon, <1>1, <2>1, <2>3, <2>4, EveryFrame
<1>2. TypeOK /\ IndInv /\ ReportInv /\ [Next]_vars =>
        [\A t \in rows : terminal[t] # "none" =>
            /\ t \in rows' => DecisionChange(terminal[t], terminal'[t])
            /\ \A c \in {"coordinator", "publisher"} :
                  task[<<t, c>>] = "absent" => task'[<<t, c>>] = "absent"]_vars
  BY <1>1
<1> QED BY <1>2, TypeCorrect, Inductive, ReportHolds, PTL DEF Spec, DecisionStable

-----------------------------------------------------------------------------
(* What is left when the supervisor has returned.                          *)

\* A sender in the ledger has its row, one a finalizer took has a running finalizer.
SenderInv ==
    \A t \in Tx :
       /\ completion[t] \in {"delivery", "row"} => t \in rows
       /\ completion[t] = "finalizer" => task[<<t, "finalizer">>] \in {"live", "aborting"}

\* Once the ledger was found empty it stays empty, and no exit is left unhandled.
DrainInv ==
    /\ pc \in {"drain", "returned"} => rows = {} /\ stopping
    /\ pc \in {"residual", "drain", "returned"} => reaped = {}
    /\ pc = "returned" => registered = {}

\* No step loses track of a sender.
LEMMA SenderStep ==
    ASSUME TypeOK, IndInv, ReportInv, SenderInv, [Next]_vars
    PROVE  SenderInv'
<1>d. TxDecision
  BY Zenon, IndParts
<1>1. CASE FrameStep
  <2> SUFFICES ASSUME NEW t \in Tx
               PROVE  /\ completion'[t] \in {"delivery", "row"} => t \in rows'
                      /\ completion'[t] = "finalizer" =>
                            task'[<<t, "finalizer">>] \in {"live", "aborting"}
    BY Zenon DEF SenderInv
  <2>0. TxFrame(t) /\ TaskFrame(t)
    BY <1>1 DEF FrameStep
  <2>1. completion'[t] \in {"delivery", "row"} => t \in rows'
    BY ZenonT(30), <2>0 DEF TxFrame, SenderInv
  <2>2. completion'[t] = "finalizer" => completion[t] = "finalizer"
    BY Zenon, <2>0 DEF TxFrame
  <2>3. completion'[t] = "finalizer" => task'[<<t, "finalizer">>] \in {"live", "aborting"}
    BY Zenon, <2>0, <2>2 DEF TaskFrame, SenderInv
  <2> QED BY <2>1, <2>3
<1>2. ASSUME NEW t \in Tx, Reporting(t) PROVE SenderInv'
  <2>1. rows' = rows /\ \A u \in Tx \ {t} : completion'[u] = completion[u]
    BY Zenon, <1>2, <1>d, ReportingStep
  <2>2. \A u \in Tx : <<u, "finalizer">> \in Task
    BY DEF Task, CoreClass
  <2>3. ASSUME UNCHANGED <<completion, task>> PROVE SenderInv'
    BY Zenon, <2>1, <2>3 DEF SenderInv
  <2>4. CASE Sealing(t)
    <3>1. UNCHANGED completion /\ leave(<<t, "publisher">>, "completed")
      BY Zenon, <2>4 DEF Sealing, PublisherSeals, rowVars
    <3>2. \A u \in Tx : task'[<<u, "finalizer">>] = task[<<u, "finalizer">>]
      BY Zenon, <2>2, <3>1 DEF leave, TypeOK
    <3> QED BY Zenon, <2>1, <3>1, <3>2 DEF SenderInv
  <2>5. CASE FinalizerSnapshots(t)
    <3>1. /\ UNCHANGED task /\ task[<<t, "finalizer">>] \in {"live", "aborting"} /\ t \in rows
      BY Zenon, <2>5 DEF FinalizerSnapshots, running
    <3> QED BY ZenonT(30), <2>1, <3>1 DEF SenderInv
  <2>6. CASE FinalizerHears(t)
    BY <2>3, <2>6 DEF FinalizerHears
  <2>7. CASE FinalizerPublishes(t)
    <3>1. /\ completion' = [completion EXCEPT ![t] = IF @ = "finalizer" THEN "sent" ELSE @]
          /\ leave(<<t, "finalizer">>, "completed")
      BY Zenon, <2>7 DEF FinalizerPublishes
    <3>2. \A u \in Tx : u # t => task'[<<u, "finalizer">>] = task[<<u, "finalizer">>]
      BY Zenon, <2>2, <3>1 DEF leave, TypeOK
    <3>3. completion'[t] # "finalizer" /\ (completion'[t] \in {"delivery", "row"} => completion[t] = completion'[t])
      BY Zenon, <3>1 DEF TypeOK
    <3> QED BY Zenon, <2>1, <3>2, <3>3 DEF SenderInv
  <2> QED BY Zenon, <1>2, <2>4, <2>5, <2>6, <2>7 DEF Reporting
<1> QED BY Zenon, <1>1, <1>2, <1>d, EveryFrame

\* The lap finds the ledger empty, drains, and returns with nothing registered.
LEMMA LapDrain ==
    ASSUME TypeOK, IndInv, DrainInv, Lap \/ SelectWake
    PROVE  DrainInv'
<1>0. pc # "returned"
  BY Zenon DEF Lap, SelectWake, DrainWorker, DrainControl, Reap, HandleExit, DrainSpawn, ObserveQuiescing,
     NothingToStop, Residual, AbortAndDrain, SelectControl, SelectWorker, SelectStart, SelectSpawn,
     SelectTick, SelectJoin, HandleJoined, goto, drained
<1>1. CASE pc' \notin {"residual", "drain", "returned"}
  BY Zenon, <1>1 DEF DrainInv
<1>2. CASE pc' = "residual"
  <2>0. ~DrainWorker /\ ~DrainControl /\ ~Reap /\ ~HandleExit /\ ~DrainSpawn /\ ~NothingToStop
    BY Zenon, <1>2 DEF DrainWorker, DrainControl, Reap, HandleExit, DrainSpawn, NothingToStop, goto,
                handle_worker, handle_control, handle_spawn
  <2>a. ASSUME NEW grace \in BOOLEAN PROVE ~Residual(grace)
    BY Zenon, <1>2 DEF Residual
  <2>b. ~AbortAndDrain
    BY Zenon, <1>2 DEF AbortAndDrain, goto, lapVars
  <2>c. ~SelectControl /\ ~SelectWorker /\ ~SelectSpawn /\ ~SelectTick /\ ~SelectWake
    BY Zenon, <1>2 DEF SelectControl, SelectWorker, SelectSpawn, SelectTick, SelectWake, goto,
                handle_worker, handle_control, handle_spawn
  <2>d. ~SelectStart /\ ~SelectJoin /\ ~HandleJoined
    BY <1>2 DEF SelectStart, SelectJoin, HandleJoined, goto, handle_worker
  <2>1. ObserveQuiescing
    BY Zenon, <2>0, <2>a, <2>b, <2>c, <2>d DEF Lap
  <2> QED BY <1>2, <2>1 DEF ObserveQuiescing, drained, DrainInv
<1>3. CASE pc' \in {"drain", "returned"}
  <2>1. AbortAndDrain \/ \E grace \in BOOLEAN : Residual(grace)
    BY Zenon, <1>3 DEF Lap, SelectWake, DrainWorker, DrainControl, Reap, HandleExit, DrainSpawn,
       NothingToStop, ObserveQuiescing, SelectControl, SelectWorker, SelectStart, SelectSpawn,
       SelectTick, SelectJoin, HandleJoined, goto, handle_worker, handle_control, handle_spawn
  <2>2. CASE AbortAndDrain
    <3>1. pc = "drain" /\ UNCHANGED <<phase, stopping, reaped>>
      BY Zenon, <1>3, <2>2 DEF AbortAndDrain, goto, rowVars, lapVars
    <3>2. pc' = "returned" => registered = {} /\ UNCHANGED task
      BY Zenon, <1>3, <2>2 DEF AbortAndDrain, goto, lapVars
    <3> QED BY Zenon, <1>3, <3>1, <3>2 DEF DrainInv, rows, registered
  <2>3. ASSUME NEW grace \in BOOLEAN, Residual(grace) PROVE DrainInv'
    <3>1. PICK cleared, ks :
             /\ remove(cleared) /\ task' = abort(task, ks)
             /\ pc' = IF rows # cleared THEN "select"
                      ELSE IF registered = {} THEN "returned" ELSE "drain"
             /\ pc = "residual" \/ (drained /\ stopping)
             /\ UNCHANGED <<stopping, reaped>>
      BY Zenon, <2>3 DEF Residual
    <3>2. rows = cleared /\ (pc' = "returned" => registered = {})
      BY Zenon, <1>3, <3>1
    <3>3. rows' = {}
      BY Zenon, <3>1, <3>2 DEF remove, rows
    <3>4. reaped = {} /\ stopping
      BY Zenon, <3>1, IndParts DEF DrainInv, drained, StopInv
    <3>5. UNCHANGED <<stopping, reaped>>
      BY Zenon, <2>3 DEF Residual
    <3>6. registered = {} => registered' = {}
      BY Zenon, <3>1 DEF registered, abort
    <3> QED BY <3>2, <3>3, <3>4, <3>5, <3>6 DEF DrainInv
  <2> QED BY <2>1, <2>2, <2>3
<1> QED BY <1>1, <1>2, <1>3

\* Nothing outside the lap brings a row or a task back.
LEMMA DrainStep ==
    ASSUME TypeOK, IndInv, DrainInv, [Next]_vars
    PROVE  DrainInv'
<1>s. stopping => state # "Accepting"
  BY Zenon, IndParts DEF StopInv
<1>q. ASSUME UNCHANGED <<phase, pc, stopping, reaped>>, registered = {} => UNCHANGED task
      PROVE  DrainInv'
  BY Zenon, <1>q DEF DrainInv, rows, registered
<1>r. ASSUME NEW t \in Tx, NEW c, <<t, c>> \in Task, running(t, c) PROVE registered # {}
  BY Zenon, <1>r DEF running, registered
<1>k. \A t \in Tx, c \in CoreClass \cup Worker : <<t, c>> \in Task
  BY Zenon DEF Task
<1>1. ASSUME NEW t \in Tx, Coordinator(t) PROVE DrainInv'
  <2>1. running(t, "coordinator")
    BY Zenon, <1>1 DEF Coordinator, BindSession, CoordinatorProposes, CoordinatorExits, CoordinatorPanics
  <2>2. UNCHANGED <<phase, pc, stopping, reaped>>
    BY Zenon, <1>1 DEF Coordinator, BindSession, CoordinatorProposes, CoordinatorExits, CoordinatorPanics,
       rowVars, lapVars
  <2> QED BY Zenon, <1>k, <1>q, <1>r, <2>1, <2>2 DEF CoreClass
<1>2. ASSUME NEW t \in Tx, Publisher(t) PROVE DrainInv'
  <2>1. running(t, "publisher") /\ UNCHANGED <<phase, pc, stopping, reaped>>
    BY Zenon, <1>2 DEF Publisher, PublisherSeals, PublisherUnsealed, rowVars, lapVars
  <2> QED BY Zenon, <1>k, <1>q, <1>r, <2>1 DEF CoreClass
<1>3. ASSUME NEW t \in Tx, Finalizer(t) PROVE DrainInv'
  <2>1. running(t, "finalizer") /\ UNCHANGED <<pc, stopping, reaped>>
    BY <1>3 DEF Finalizer, FinalizerSnapshots, FinalizerHears, FinalizerPublishes, lapVars
  <2>2. registered # {}
    BY Zenon, <1>k, <1>r, <2>1 DEF CoreClass
  <2>3. rows' = rows
    BY ZenonT(30), <1>3 DEF Finalizer, FinalizerSnapshots, FinalizerHears, FinalizerPublishes, rows, TypeOK
  <2> QED BY Zenon, <2>1, <2>2, <2>3 DEF DrainInv
<1>4. ASSUME NEW t \in Tx, Workers(t) PROVE DrainInv'
  <2>1. PICK w \in Worker : RequestSpawn(t, w) \/ WorkerExits(t, w)
    BY Zenon, <1>4 DEF Workers
  <2>2. UNCHANGED <<phase, pc, stopping, reaped>> /\ (UNCHANGED task \/ running(t, w))
    BY Zenon, <2>1 DEF RequestSpawn, WorkerExits, rowVars, lapVars
  <2> QED BY Zenon, <1>k, <1>q, <1>r, <2>2
<1>5. ASSUME NEW k \in Task, AbortTakesEffect(k) PROVE DrainInv'
  BY Zenon, <1>5, <1>q DEF AbortTakesEffect, lapVars, registered
<1>6. ASSUME NEW t \in Tx, NEW s, Submit(t, s) PROVE DrainInv'
  BY Zenon, <1>6, <1>s DEF Submit, DrainInv, lapVars, registered
<1>7. ASSUME NEW t \in Tx, NEW op, Terminate(t, op) PROVE DrainInv'
  BY Zenon, <1>7, <1>q DEF Terminate, rowVars, lapVars
<1>8. CASE Owner
  BY Zenon, <1>8, <1>q DEF Owner, BeginShutdown, AnnounceShutdown, WaitStopped, DropOwner, DropStops,
                    DropJoins, rowVars, lapVars
<1>9. CASE UNCHANGED vars
  BY <1>9, <1>q DEF vars, rowVars, lapVars
<1> QED BY ZenonT(30), <1>1, <1>2, <1>3, <1>4, <1>5, <1>6, <1>7, <1>8, <1>9, LapDrain DEF Next, Clients

\* A supervisor that has returned owns nothing: no row, no task, no exit to handle, and no
\* completion sender that was neither used nor dropped.
THEOREM DrainedOwnsNothing == Spec => []DrainedMeansNothingOwned
<1>1. Init => SenderInv /\ DrainInv
  BY DEF Init, SenderInv, DrainInv
<1>2. TypeOK /\ SenderInv /\ DrainInv => DrainedMeansNothingOwned
  <2> SUFFICES ASSUME TypeOK, SenderInv, DrainInv, drain_complete
               PROVE  /\ rows = {} /\ registered = {} /\ reaped = {}
                      /\ \A t \in admitted : completion[t] \in {"sent", "dropped"}
    BY DEF DrainedMeansNothingOwned
  <2>1. rows = {} /\ registered = {} /\ reaped = {}
    BY DEF DrainInv, drain_complete
  <2>2. \A t \in Tx : task[<<t, "finalizer">>] = "absent"
    BY <2>1 DEF registered, Task, CoreClass
  <2> QED BY ZenonT(30), <2>1, <2>2 DEF SenderInv, admitted, TypeOK
<1> QED BY <1>1, <1>2, SenderStep, DrainStep, ReportHolds, TypeCorrect, Inductive, PTL DEF Spec
===============================================================================
