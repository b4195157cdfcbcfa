--------------------------- MODULE LifecycleProofs ---------------------------
(***************************************************************************)
(* Type correctness of Lifecycle, its inductive invariant and what follows *)
(* from it, for every set of transactions, sessions and workers and every  *)
(* capacity.                                                               *)
(***************************************************************************)
EXTENDS Lifecycle, TLAPS


TaskState == {"absent", "live", "aborting"} \cup Exited

\* What TypeOK says of the row fields, of the fields a decision writes, and of the registry.
RowType ==
    /\ phase \in [Tx -> Phase]
    /\ terminal \in [Tx -> KindOrNone]
    /\ pending \in [Tx -> KindOrNone]
    /\ session_key \in [Tx -> Session \cup {NoSession}]
    /\ by_session \in [Session -> Tx \cup {NoTx}]
    /\ completion \in [Tx -> {"caller", "delivery", "row", "finalizer", "sent", "dropped"}]

DecisionType ==
    /\ phase \in [Tx -> Phase]
    /\ terminal \in [Tx -> KindOrNone]
    /\ pending \in [Tx -> KindOrNone]
    /\ seal \in [Tx -> {"none", "row", "finalizer", "sent", "gone"}]
    /\ fin_pc \in [Tx -> {"none", "yield", "wait", "publish", "done"}]

TaskType == task \in [Task -> TaskState]

-----------------------------------------------------------------------------
(* The helpers keep the types.                                             *)

\* The length of a queue, and its domain.
LEMMA SeqLen ==
    ASSUME NEW S, NEW s \in Seq(S)
    PROVE  Len(s) \in Nat /\ s \in [1 .. Len(s) -> S] /\ DOMAIN s = 1 .. Len(s)
OBVIOUS

\* Only the empty queue has no element.
LEMMA SeqEmpty ==
    ASSUME NEW S
    PROVE  <<>> \in Seq(S) /\ Len(<<>>) = 0 /\ \A s \in Seq(S) : s # <<>> => Len(s) \in Nat \ {0}
OBVIOUS

\* A message is sent to a queue.
LEMMA SeqAppend ==
    ASSUME NEW S, NEW s \in Seq(S), NEW e \in S
    PROVE  /\ Append(s, e) \in Seq(S) /\ Append(s, e) # <<>> /\ Len(Append(s, e)) = Len(s) + 1
           /\ \A i \in 1 .. Len(s) : Append(s, e)[i] = s[i]
           /\ Append(s, e)[Len(s) + 1] = e
OBVIOUS

\* A message is taken from a queue.
LEMMA SeqTail ==
    ASSUME NEW S, NEW s \in Seq(S), s # <<>>
    PROVE  /\ Head(s) \in S /\ Tail(s) \in Seq(S) /\ Len(Tail(s)) = Len(s) - 1
           /\ \A i \in 1 .. Len(Tail(s)) : Tail(s)[i] = s[i + 1]
OBVIOUS

\* What a bounded queue holds after a send for which it had room.
LEMMA AppendType ==
    ASSUME NEW S, NEW q \in Seq(S), NEW e \in S, NEW n \in Nat, Len(q) < n
    PROVE  Append(q, e) \in Seq(S) /\ Len(Append(q, e)) \leq n
BY SeqAppend, SeqLen

\* spawned, abort and deregister yield a registry again.
LEMMA RegistryType ==
    ASSUME NEW f \in [Task -> TaskState], NEW ks
    PROVE  /\ spawned(f, ks) \in [Task -> TaskState]
           /\ abort(f, ks) \in [Task -> TaskState]
BY DEF spawned, abort, TaskState, Exited

\* A decision writes kinds, phases and positions of the finalizer.
LEMMA DecideType ==
    ASSUME TypeOK, NEW ts, NEW kind \in EndKind, decide(ts, kind)
    PROVE  DecisionType'
BY DEF TypeOK, decide, DecisionType, Phase, KindOrNone, EndKind

\* Removing rows resets their fields.
LEMMA RemoveType ==
    ASSUME TypeOK, NEW ts, remove(ts)
    PROVE  RowType'
BY DEF TypeOK, remove, RowType, Phase, KindOrNone, EndKind

\* accept_terminal keeps the types of all it writes.
LEMMA AcceptType ==
    ASSUME TypeOK, NEW t \in Tx, NEW kind \in EndKind, NEW force \in BOOLEAN,
           accept_terminal(t, kind, force)
    PROVE  DecisionType' /\ TaskType'
<1> USE NamesAssumption, BoundsAssumption, KindsAssumption
<1>1. CASE t \notin rows
  BY <1>1 DEF accept_terminal, decisionVars, TypeOK, DecisionType, TaskType, TaskState
<1>2. CASE t \in rows /\ terminal[t] # "none"
  <2>1. later_proposal(t, kind, force)
    BY Zenon, <1>2 DEF accept_terminal
  <2>2. terminal' \in [Tx -> KindOrNone] /\ pending' \in [Tx -> KindOrNone]
    BY <2>1 DEF later_proposal, TypeOK, KindOrNone, EndKind
  <2>3. seal' \in [Tx -> {"none", "row", "finalizer", "sent", "gone"}]
    BY <2>1 DEF later_proposal, TypeOK
  <2>4. UNCHANGED <<phase, fin_pc, task>>
    BY <2>1 DEF later_proposal
  <2> QED BY Zenon, <2>2, <2>3, <2>4 DEF TypeOK, DecisionType, TaskType, TaskState
<1>3. CASE t \in rows /\ terminal[t] = "none"
  <2>1. decide({t}, kind) /\ task' = spawned(task, finalizers({t}))
    BY Zenon, <1>3 DEF accept_terminal
  <2>2. DecisionType'
    BY <2>1, DecideType
  <2>3. TaskType'
    BY Zenon, <2>1, RegistryType DEF TypeOK, TaskType, TaskState
  <2> QED BY <2>2, <2>3
<1> QED BY Zenon, <1>1, <1>2, <1>3

\* begin_shutdown_inner keeps the types of all it writes.
LEMMA ShutdownType ==
    ASSUME TypeOK, begin_shutdown_inner
    PROVE  /\ DecisionType' /\ state' \in {"Accepting", "Quiescing", "Stopped"}
           /\ stopping' \in BOOLEAN /\ shutdown_tasks \in [Task -> TaskState]
<1> USE NamesAssumption, BoundsAssumption, KindsAssumption
<1>1. decide(undecided, "RuntimeShutdown")
  BY DEF begin_shutdown_inner
<1>2. DecisionType'
  BY <1>1, DecideType DEF EndKind
<1>3. shutdown_tasks \in [Task -> TaskState]
  BY Zenon, RegistryType DEF TypeOK, TaskState, shutdown_tasks
<1> QED BY <1>2, <1>3 DEF begin_shutdown_inner, TypeOK

\* The positions a lap can go to.
Pc == {"worker", "control", "exits", "residual", "drain", "select", "joined", "returned"}

\* A step of the lap that only moves on keeps the types.
LEMMA GotoType ==
    ASSUME TypeOK, NEW from, NEW to \in Pc, goto(from, to)
    PROVE  TypeOK'
BY DEF TypeOK, goto, Pc, rowVars, queueVars, finVars

\* Handling a worker message keeps the types.
LEMMA HandleWorkerType ==
    ASSUME TypeOK, NEW next \in Pc, handle_worker(next)
    PROVE  TypeOK'
<1> USE NamesAssumption, BoundsAssumption, KindsAssumption
<1> DEFINE S == [tx : Tx, kind : CoordinatorKind]
<1>1. /\ worker_q \in Seq(S) /\ worker_q # <<>>
      /\ accept_terminal(Head(worker_q).tx, Head(worker_q).kind, FALSE)
  BY Zenon DEF handle_worker, TypeOK
<1>2. Head(worker_q) \in S /\ Tail(worker_q) \in Seq(S) /\ Len(Tail(worker_q)) = Len(worker_q) - 1
  BY Zenon, <1>1, SeqTail
<1>3. Head(worker_q).tx \in Tx /\ Head(worker_q).kind \in EndKind
  BY <1>2
<1>4. DecisionType' /\ TaskType'
  BY Zenon, <1>1, <1>3, AcceptType
<1>5. worker_q' \in Seq(S) /\ Len(worker_q') \leq WorkerCap
  BY <1>1, <1>2, SeqLen DEF handle_worker, TypeOK
<1>6. UNCHANGED <<state, session_key, by_session, completion, start_q, control_q, spawn_q,
                  stopping, reaped, proposed, fin_kind, reply, ended, owner>> /\ pc' = next
  BY DEF handle_worker
<1> QED BY <1>4, <1>5, <1>6 DEF TypeOK, DecisionType, TaskType, TaskState, Pc

\* Handling a control command keeps the types.
LEMMA HandleControlType ==
    ASSUME TypeOK, NEW next \in Pc, handle_control(next)
    PROVE  TypeOK'
<1> USE NamesAssumption, BoundsAssumption, KindsAssumption
<1> DEFINE cmd == Head(control_q)
<1>1. control_q \in Seq(Control) /\ control_q # <<>>
  BY DEF handle_control, TypeOK
<1>2. cmd \in Control /\ Tail(control_q) \in Seq(Control) /\ Len(Tail(control_q)) = Len(control_q) - 1
  BY Zenon, <1>1, SeqTail
<1>3. control_q' \in Seq(Control) /\ Len(control_q') \leq ControlCap
  BY <1>1, <1>2, SeqLen DEF handle_control, TypeOK
<1>4. UNCHANGED <<session_key, by_session, completion, start_q, worker_q, spawn_q, reaped,
                  proposed, fin_kind, reply, ended, owner>> /\ pc' = next
  BY DEF handle_control
<1>5. /\ DecisionType' /\ TaskType'
      /\ state' \in {"Accepting", "Quiescing", "Stopped"} /\ stopping' \in BOOLEAN
  <2>1. CASE cmd.op \in {"Cancel", "ForceTerminate"}
    <3>1. cmd.tx \in Tx
      BY <1>2, <2>1 DEF Control
    <3>2. /\ \E kind \in EndKind, force \in BOOLEAN : accept_terminal(cmd.tx, kind, force)
          /\ UNCHANGED <<state, stopping>>
      BY Zenon, <2>1 DEF handle_control, EndKind
    <3> QED BY <3>1, <3>2, AcceptType DEF TypeOK
  <2>2. CASE cmd.op \notin {"Cancel", "ForceTerminate"}
    <3>1. begin_shutdown_inner /\ task' \in {shutdown_tasks, abort(shutdown_tasks, Task)}
      BY Zenon, <2>2 DEF handle_control
    <3>2. shutdown_tasks \in [Task -> TaskState]
      BY <3>1, ShutdownType
    <3>3. TaskType'
      BY <3>1, <3>2, RegistryType DEF TaskType
    <3> QED BY <3>1, <3>3, ShutdownType
  <2> QED BY <2>1, <2>2
<1> QED BY Zenon, <1>3, <1>4, <1>5 DEF TypeOK, DecisionType, TaskType, TaskState, Pc

\* Handling a spawn request keeps the types.
LEMMA HandleSpawnType ==
    ASSUME TypeOK, NEW next \in Pc, handle_spawn(next)
    PROVE  TypeOK'
<1> USE NamesAssumption, BoundsAssumption, KindsAssumption
<1>1. spawn_q \in Seq(Tx \X Worker) /\ spawn_q # <<>>
  BY DEF handle_spawn, TypeOK
<1>2. /\ Tail(spawn_q) \in Seq(Tx \X Worker)
      /\ Len(Tail(spawn_q)) = Len(spawn_q) - 1
  BY Zenon, <1>1, SeqTail
<1>3. spawn_q' \in Seq(Tx \X Worker) /\ Len(spawn_q') \leq SpawnCap
  BY <1>1, <1>2, SeqLen DEF handle_spawn, TypeOK
<1>4. TaskType'
  BY Zenon, RegistryType DEF handle_spawn, TypeOK, TaskType, TaskState
<1>5. UNCHANGED <<state, rowVars, start_q, control_q, worker_q, stopping, reaped, proposed,
                  finVars, owner>> /\ pc' = next
  BY DEF handle_spawn
<1> QED BY ZenonT(30), <1>3, <1>4, <1>5 DEF TypeOK, TaskType, TaskState, Pc, rowVars, finVars

\* on_task_exit keeps the types of all it writes.
LEMMA ExitType ==
    ASSUME TypeOK, NEW k \in Task, NEW how \in Exited, on_task_exit(k, how)
    PROVE  DecisionType' /\ RowType' /\ TaskType'
<1> USE NamesAssumption, BoundsAssumption, KindsAssumption
<1>t. k[1] \in Tx
  BY Zenon DEF Task
<1>1. CASE missing_terminal(k)
  <2>1. /\ decide({k[1]}, recovered_kind(k[1], how))
        /\ task' = spawned(task, finalizers({k[1]}))
        /\ UNCHANGED <<session_key, by_session, completion>>
    BY Zenon, <1>1 DEF on_task_exit
  <2>2. recovered_kind(k[1], how) \in EndKind
    BY <1>t DEF recovered_kind, TypeOK, KindOrNone, EndKind
  <2>3. DecisionType'
    BY <2>1, <2>2, DecideType
  <2>4. TaskType'
    BY Zenon, <2>1, RegistryType DEF TypeOK, TaskType, TaskState
  <2> QED BY <2>1, <2>3, <2>4 DEF TypeOK, DecisionType, RowType
<1>2. CASE ~missing_terminal(k) /\ tasks_for(k[1]) = {}
  <2>1. remove(tombstones({k[1]})) /\ UNCHANGED <<seal, task, fin_pc>>
    BY <1>2 DEF on_task_exit
  <2>2. RowType'
    BY Zenon, <2>1, RemoveType
  <2> QED BY <2>1, <2>2 DEF TypeOK, DecisionType, RowType, TaskType, TaskState
<1>3. CASE ~missing_terminal(k) /\ tasks_for(k[1]) # {}
  <2>1. /\ task' \in {task, abort(task, tasks_for(k[1]))}
        /\ UNCHANGED <<rowVars, seal, fin_pc>>
    BY <1>3 DEF on_task_exit
  <2>2. TaskType'
    <3>1. task \in [Task -> TaskState] /\ abort(task, tasks_for(k[1])) \in [Task -> TaskState]
      BY Zenon, RegistryType DEF TypeOK, TaskState
    <3> QED BY Zenon, <2>1, <3>1 DEF TaskType
  <2> QED BY <2>1, <2>2 DEF TypeOK, DecisionType, RowType, rowVars
<1> QED BY Zenon, <1>1, <1>2, <1>3

\* The steps of the lap keep the types.
LEMMA LapType ==
    ASSUME TypeOK, Lap
    PROVE  TypeOK'
<1> USE NamesAssumption, BoundsAssumption, KindsAssumption
<1>1. CASE DrainWorker
  BY <1>1, HandleWorkerType, GotoType DEF DrainWorker, Pc
<1>2. CASE DrainControl
  BY Zenon, <1>2, HandleControlType DEF DrainControl, Pc
<1>3. CASE Reap
  <2>1. reaped' \subseteq (Task \X Exited)
    <3>1. SUFFICES ASSUME NEW p \in reaped'
                   PROVE  p \in Task \X Exited
      BY Zenon
    <3>2. reaped' = {<<k, task[k]>> : k \in {k \in Task : task[k] \in Exited}}
      BY Zenon, <1>3 DEF Reap
    <3>3. PICK k \in {k \in Task : task[k] \in Exited} : p = <<k, task[k]>>
      BY Zenon, <3>2
    <3> QED BY Zenon, <3>3
  <2>2. task' \in [Task -> TaskState]
    BY Zenon, <1>3 DEF Reap, deregister, TypeOK, TaskState
  <2> QED BY <1>3, <2>1, <2>2 DEF Reap, TypeOK, TaskState, rowVars, queueVars, finVars
<1>4. CASE HandleExit
  <2>1. PICK r \in reaped : on_task_exit(r[1], r[2]) /\ reaped' = reaped \ {r}
    BY <1>4 DEF HandleExit
  <2>2. r[1] \in Task /\ r[2] \in Exited
    BY Zenon DEF TypeOK
  <2>3. DecisionType' /\ RowType' /\ TaskType'
    BY <2>1, <2>2, ExitType
  <2>4. reaped' \subseteq (Task \X Exited)
    BY <2>1 DEF TypeOK
  <2>5. UNCHANGED <<state, queueVars, pc, stopping, proposed, fin_kind, reply, ended, owner>>
    BY <1>4 DEF HandleExit
  <2> QED BY <2>3, <2>4, <2>5
          DEF TypeOK, DecisionType, RowType, TaskType, TaskState, queueVars
<1>5. CASE DrainSpawn
  BY Zenon, <1>5, HandleSpawnType DEF DrainSpawn, Pc
<1>6. CASE ObserveQuiescing
  <2>1. /\ begin_shutdown_inner /\ task' = shutdown_tasks /\ pc' = "residual"
        /\ UNCHANGED <<session_key, by_session, completion, queueVars, reaped, proposed,
                       fin_kind, reply, ended, owner>>
    BY <1>6 DEF ObserveQuiescing
  <2> QED BY <2>1, ShutdownType DEF TypeOK, DecisionType, TaskState, queueVars
<1>7. CASE NothingToStop
  BY Zenon, <1>7, GotoType DEF NothingToStop, Pc
<1>8. ASSUME NEW grace \in BOOLEAN, Residual(grace)
      PROVE  TypeOK'
  <2>1. PICK ts : remove(ts)
    BY <1>8 DEF Residual
  <2>2. RowType'
    BY Zenon, <2>1, RemoveType
  <2>3. PICK ks : task' = abort(task, ks)
    BY Zenon, <1>8 DEF Residual
  <2>4. task' \in [Task -> TaskState]
    BY Zenon, <2>3, RegistryType DEF TypeOK, TaskState
  <2>5. /\ spawn_q' \in {<<>>, spawn_q} /\ worker_q' \in {<<>>, worker_q}
        /\ pc' \in {"select", "returned", "drain"}
        /\ UNCHANGED <<state, start_q, control_q, stopping, reaped, proposed, finVars, owner>>
    BY <1>8 DEF Residual
  <2>6. /\ spawn_q' \in Seq(Tx \X Worker) /\ Len(spawn_q') \leq SpawnCap
        /\ worker_q' \in Seq([tx : Tx, kind : CoordinatorKind]) /\ Len(worker_q') \leq WorkerCap
    <3>1. Len(<<>>) = 0 /\ 0 \leq SpawnCap /\ 0 \leq WorkerCap
      OBVIOUS
    <3>2. <<>> \in Seq(Tx \X Worker) /\ <<>> \in Seq([tx : Tx, kind : CoordinatorKind])
      BY SeqEmpty
    <3>3. CASE spawn_q' = <<>>
      BY Zenon, <2>5, <3>1, <3>2, <3>3 DEF TypeOK
    <3>4. CASE spawn_q' = spawn_q
      BY Zenon, <2>5, <3>1, <3>2, <3>4 DEF TypeOK
    <3> QED BY <2>5, <3>3, <3>4
  <2> QED BY Zenon, <2>2, <2>4, <2>5, <2>6 DEF TypeOK, RowType, TaskState, finVars
<1>9. CASE AbortAndDrain
  <2>1. CASE /\ \E k \in Task : task[k] \in Exited /\ deregister({k})
             /\ UNCHANGED <<state, rowVars, queueVars, lapVars, proposed, finVars, owner>>
    <3>1. task' \in [Task -> TaskState]
      BY <2>1 DEF deregister, TypeOK, TaskState
    <3> QED BY <2>1, <3>1 DEF TypeOK, TaskState, rowVars, queueVars, lapVars, finVars
  <2> QED BY Zenon, <1>9, <2>1, GotoType DEF AbortAndDrain, Pc
<1>10. CASE SelectControl
  BY <1>10, HandleControlType DEF SelectControl, Pc
<1>11. CASE SelectWorker
  BY Zenon, <1>11, HandleWorkerType DEF SelectWorker, Pc
<1>12. CASE SelectStart
  <2>1. start_q \in Seq(Tx) /\ start_q # <<>>
    BY <1>12 DEF SelectStart, TypeOK
  <2>2. Head(start_q) \in Tx /\ start_q' \in Seq(Tx)
    BY <1>12, <2>1, SeqTail DEF SelectStart
  <2>3. /\ DecisionType' /\ TaskType'
        /\ completion' \in [Tx -> {"caller", "delivery", "row", "finalizer", "sent", "dropped"}]
    <3>1. CASE handle_start(Head(start_q))
      <4> DEFINE t == Head(start_q)
      <4>1. CASE t \in rows /\ phase[t] = "Queued" /\ completion[t] = "delivery"
        <5>1. /\ phase' = [phase EXCEPT ![t] = "Running"]
              /\ completion' = [completion EXCEPT ![t] = "row"]
              /\ seal' = [seal EXCEPT ![t] = "row"]
              /\ UNCHANGED <<terminal, pending, fin_pc>>
          BY Zenon, <3>1, <4>1 DEF handle_start
        <5>2. TaskType'
          BY <3>1, <4>1, RegistryType DEF handle_start, TypeOK, TaskType, TaskState
        <5> QED BY Zenon, <5>1, <5>2 DEF TypeOK, DecisionType, Phase
      <4>2. CASE ~(t \in rows /\ phase[t] = "Queued" /\ completion[t] = "delivery")
        BY <3>1, <4>2 DEF handle_start, TypeOK, DecisionType, TaskType, TaskState, decisionVars
      <4> QED BY <4>1, <4>2
    <3>2. CASE accept_terminal(Head(start_q), "RuntimeShutdown", FALSE) /\ UNCHANGED completion
      BY Zenon, <3>2, <2>2, AcceptType DEF TypeOK, EndKind
    <3>3. CASE UNCHANGED <<decisionVars, completion, task>>
      BY <3>3 DEF TypeOK, decisionVars, DecisionType, TaskType, TaskState
    <3> QED BY Zenon, <1>12, <3>1, <3>2, <3>3 DEF SelectStart
  <2>4. UNCHANGED <<state, session_key, by_session, control_q, worker_q, spawn_q, stopping,
                   reaped, proposed, fin_kind, reply, ended, owner>> /\ pc' = "worker"
    BY <1>12 DEF SelectStart
  <2> QED BY Zenon, <2>2, <2>3, <2>4 DEF TypeOK, DecisionType, TaskType, TaskState
<1>13. CASE SelectSpawn
  BY <1>13, HandleSpawnType DEF SelectSpawn, Pc
<1>14. CASE SelectTick
  BY Zenon, <1>14, GotoType DEF SelectTick, Pc
<1>15. CASE SelectJoin
  BY <1>15 DEF SelectJoin, deregister, TypeOK, rowVars, queueVars, finVars
<1>16. CASE HandleJoined
  <2>1. CASE pc = "joined" /\ handle_worker("joined")
    BY Zenon, <2>1, HandleWorkerType DEF Pc
  <2>2. CASE /\ pc = "joined" /\ worker_q = <<>> /\ pc' = "worker" /\ reaped' = {}
             /\ \E r \in reaped : on_task_exit(r[1], r[2])
             /\ UNCHANGED <<state, queueVars, stopping, proposed, fin_kind, reply, ended, owner>>
    <3>1. PICK r \in reaped : on_task_exit(r[1], r[2])
      BY Zenon, <2>2
    <3>2. r[1] \in Task /\ r[2] \in Exited
      BY Zenon DEF TypeOK
    <3>3. DecisionType' /\ RowType' /\ TaskType'
      BY <3>1, <3>2, ExitType
    <3> QED BY <2>2, <3>3 DEF TypeOK, DecisionType, RowType, TaskType, TaskState, queueVars
  <2> QED BY <1>16, <2>1, <2>2 DEF HandleJoined
<1> QED BY Zenon, <1>1, <1>2, <1>3, <1>4, <1>5, <1>6, <1>7, <1>8, <1>9, <1>10, <1>11, <1>12, <1>13,
           <1>14, <1>15, <1>16 DEF Lap

\* The steps of the tasks keep the types.
LEMMA TasksType ==
    ASSUME TypeOK, NEW t \in Tx,
           Coordinator(t) \/ Publisher(t) \/ Finalizer(t) \/ Workers(t)
    PROVE  TypeOK'
<1> USE NamesAssumption, BoundsAssumption, KindsAssumption
<1> DEFINE Sender == {"caller", "delivery", "row", "finalizer", "sent", "dropped"}
<1> USE DEF rowVars, queueVars, lapVars, finVars
<1>l. ASSUME NEW k, NEW how \in Exited, leave(k, how)
      PROVE  TaskType'
  BY Zenon, <1>l DEF leave, TypeOK, TaskType, TaskState, Exited
<1>1. ASSUME NEW s \in Session, BindSession(t, s)
      PROVE  TypeOK'
  BY ZenonT(30), <1>1 DEF BindSession, TypeOK
<1>2. ASSUME NEW kind \in CoordinatorKind, CoordinatorProposes(t, kind)
      PROVE  TypeOK'
  <2> DEFINE S == [tx : Tx, kind : CoordinatorKind]
  <2> DEFINE m == [tx |-> t, kind |-> kind]
  <2>1. worker_q \in Seq(S) /\ m \in S
    BY Zenon DEF TypeOK
  <2>2. Append(worker_q, m) \in Seq(S) /\ Len(Append(worker_q, m)) = Len(worker_q) + 1
    <3> HIDE DEF S, m
    <3> QED BY Zenon, <2>1, SeqAppend
  <2>3. worker_q' \in Seq(S) /\ Len(worker_q') \leq WorkerCap
    <3>1. Len(worker_q) \in Nat /\ Len(worker_q) \leq WorkerCap
      BY Zenon, <2>1, SeqLen DEF TypeOK
    <3>2. worker_q' = IF Len(worker_q) < WorkerCap THEN Append(worker_q, m) ELSE worker_q
      BY Zenon, <1>2 DEF CoordinatorProposes
    <3> HIDE DEF m, S
    <3> QED BY <2>1, <2>2, <3>1, <3>2
  <2>4. pending' \in [Tx -> KindOrNone] /\ proposed' \in [Tx -> BOOLEAN]
    BY Zenon, <1>2 DEF CoordinatorProposes, TypeOK, KindOrNone
  <2> QED BY ZenonT(30), <1>2, <2>3, <2>4 DEF CoordinatorProposes, TypeOK
<1>3. CASE CoordinatorExits(t)
  BY ZenonT(30), <1>3, <1>l DEF CoordinatorExits, TypeOK, TaskType, TaskState, Exited
<1>4. CASE CoordinatorPanics(t)
  BY ZenonT(30), <1>4, <1>l DEF CoordinatorPanics, TypeOK, TaskType, TaskState, Exited
<1>5. ASSUME NEW d \in Delivery, PublisherSeals(t, d)
      PROVE  TypeOK'
  <2>1. TaskType'
    BY Zenon, <1>5, <1>l DEF PublisherSeals, Exited
  <2>2. /\ seal' \in [Tx -> {"none", "row", "finalizer", "sent", "gone"}]
        /\ reply' \in [Tx -> Delivery \cup {"none"}] /\ ended' \in [Tx -> KindOrNone]
    BY Zenon, <1>5 DEF PublisherSeals, TypeOK, Delivery
  <2> QED BY <1>5, <2>1, <2>2 DEF PublisherSeals, TypeOK, TaskType, TaskState
<1>6. CASE PublisherUnsealed(t)
  BY ZenonT(30), <1>6, <1>l DEF PublisherUnsealed, TypeOK, TaskType, TaskState, Exited
<1>s. ASSUME NEW kind \in KindOrNone, NEW d, settle(t, kind, d)
      PROVE  /\ fin_kind' \in [Tx -> KindOrNone] /\ terminal' \in [Tx -> KindOrNone]
             /\ fin_pc' \in [Tx -> {"none", "yield", "wait", "publish", "done"}]
  <2>1. reported_kind(kind, d) \in KindOrNone
    BY DEF reported_kind, KindOrNone, EndKind
  <2> QED BY <1>s, <2>1 DEF settle, TypeOK
<1>7. CASE FinalizerSnapshots(t)
  <2>1. phase' \in [Tx -> Phase] /\ completion' \in [Tx -> Sender]
    BY <1>7 DEF FinalizerSnapshots, TypeOK, Phase
  <2>2. /\ seal' \in [Tx -> {"none", "row", "finalizer", "sent", "gone"}]
        /\ fin_kind' \in [Tx -> KindOrNone] /\ terminal' \in [Tx -> KindOrNone]
        /\ fin_pc' \in [Tx -> {"none", "yield", "wait", "publish", "done"}]
    <3>1. CASE seal[t] = "finalizer" /\ running(t, "publisher")
      <4>1. /\ seal' = [seal EXCEPT ![t] = "sent"]
            /\ fin_kind' = [fin_kind EXCEPT ![t] = terminal[t]]
            /\ fin_pc' = [fin_pc EXCEPT ![t] = "wait"]
            /\ UNCHANGED terminal
        BY Zenon, <1>7, <3>1 DEF FinalizerSnapshots
      <4> QED BY Zenon, <4>1 DEF TypeOK
    <3>2. CASE ~(seal[t] = "finalizer" /\ running(t, "publisher"))
      <4>1. PICK d : settle(t, terminal[t], d)
        BY Zenon, <1>7, <3>2 DEF FinalizerSnapshots
      <4>2. terminal[t] \in KindOrNone
        BY Zenon DEF TypeOK
      <4>3. seal' = [seal EXCEPT ![t] = "gone"]
        BY Zenon, <1>7, <3>2 DEF FinalizerSnapshots
      <4> QED BY Zenon, <4>1, <4>2, <4>3, <1>s DEF TypeOK
    <3> QED BY Zenon, <3>1, <3>2
  <2> QED BY Zenon, <1>7, <2>1, <2>2 DEF FinalizerSnapshots, TypeOK
<1>8. CASE FinalizerHears(t)
  <2>1. PICK d : settle(t, fin_kind[t], d)
    BY Zenon, <1>8 DEF FinalizerHears
  <2>2. fin_kind[t] \in KindOrNone
    BY Zenon DEF TypeOK
  <2>3. reply' \in [Tx -> Delivery \cup {"none"}]
    BY Zenon, <1>8 DEF FinalizerHears, TypeOK
  <2> QED BY Zenon, <1>8, <2>1, <2>2, <2>3, <1>s DEF FinalizerHears, TypeOK
<1>9. CASE FinalizerPublishes(t)
  <2>1. TaskType'
    BY Zenon, <1>9, <1>l DEF FinalizerPublishes, Exited
  <2>2. /\ completion' \in [Tx -> Sender]
        /\ fin_pc' \in [Tx -> {"none", "yield", "wait", "publish", "done"}]
    BY <1>9 DEF FinalizerPublishes, TypeOK
  <2> QED BY ZenonT(30), <1>9, <2>1, <2>2 DEF FinalizerPublishes, TypeOK, TaskType, TaskState
<1>10. ASSUME NEW w \in Worker, RequestSpawn(t, w)
       PROVE  TypeOK'
  <2>1. /\ spawn_q \in Seq(Tx \X Worker) /\ <<t, w>> \in Tx \X Worker
        /\ Len(spawn_q) < SpawnCap /\ spawn_q' = Append(spawn_q, <<t, w>>)
    BY Zenon, <1>10 DEF RequestSpawn, TypeOK
  <2>2. SpawnCap \in Nat
    BY Zenon, BoundsAssumption
  <2>3. spawn_q' \in Seq(Tx \X Worker) /\ Len(spawn_q') \leq SpawnCap
    BY Zenon, <2>1, <2>2, AppendType
  <2> QED BY ZenonT(30), <1>10, <2>3 DEF RequestSpawn, TypeOK
<1>11. ASSUME NEW w \in Worker, WorkerExits(t, w)
       PROVE  TypeOK'
  BY <1>11, <1>l DEF WorkerExits, TypeOK, TaskType, TaskState, Exited
<1> QED BY Zenon, <1>1, <1>2, <1>3, <1>4, <1>5, <1>6, <1>7, <1>8, <1>9, <1>10, <1>11
        DEF Coordinator, Publisher, Finalizer, Workers

\* The steps of the callers keep the types.
LEMMA CallersType ==
    ASSUME TypeOK, Clients \/ Owner
    PROVE  TypeOK'
<1> USE NamesAssumption, BoundsAssumption, KindsAssumption
<1> USE DEF rowVars, queueVars, lapVars, finVars
<1>c. ASSUME NEW cmd \in Control
      PROVE  /\ Append(control_q, cmd) \in Seq(Control)
             /\ Len(control_q) < ControlCap => Len(Append(control_q, cmd)) \leq ControlCap
  <2>1. control_q \in Seq(Control)
    BY Zenon DEF TypeOK
  <2>2. ControlCap \in Nat
    BY Zenon, BoundsAssumption
  <2>3. Append(control_q, cmd) \in Seq(Control)
    BY Zenon, <2>1, SeqAppend
  <2>4. Len(control_q) < ControlCap => Len(Append(control_q, cmd)) \leq ControlCap
    BY Zenon, <2>1, <2>2, AppendType
  <2> QED BY Zenon, <2>3, <2>4
<1>d. BeginShutdownCmd \in Control /\ StopSupervisorCmd \in Control
  BY DEF BeginShutdownCmd, StopSupervisorCmd, Control
<1>e. ASSUME NEW cmd \in Control, try_send(cmd)
      PROVE  control_q' \in Seq(Control) /\ Len(control_q') \leq ControlCap
  BY Zenon, <1>c, <1>e DEF try_send, TypeOK
<1>1. ASSUME NEW t \in Tx, NEW s \in Session \cup {NoSession}, Submit(t, s)
      PROVE  TypeOK'
  <2>1. start_q' \in Seq(Tx)
    BY ZenonT(30), <1>1, SeqAppend DEF Submit, TypeOK
  <2> QED BY ZenonT(30), <1>1, <2>1 DEF Submit, TypeOK, Phase
<1>2. ASSUME NEW t \in Tx, NEW op \in TerminateOp, Terminate(t, op)
      PROVE  TypeOK'
  <2>1. [op |-> op, tx |-> t] \in Control
    BY DEF Control
  <2>2. control_q' \in Seq(Control) /\ Len(control_q') \leq ControlCap
    BY Zenon, <1>2, <2>1, <1>c DEF Terminate
  <2> QED BY <1>2, <2>2 DEF Terminate, TypeOK
<1>3. CASE BeginShutdown
  BY Zenon, <1>3 DEF BeginShutdown, TypeOK
<1>4. CASE AnnounceShutdown
  BY Zenon, <1>4, <1>d, <1>e DEF AnnounceShutdown, TypeOK
<1>5. CASE WaitStopped
  BY Zenon, <1>5 DEF WaitStopped, TypeOK
<1>6. CASE DropOwner
  <2>1. control_q' \in Seq(Control) /\ Len(control_q') \leq ControlCap
    BY Zenon, <1>6, <1>d, <1>e DEF DropOwner, TypeOK
  <2> QED BY Zenon, <1>6, <2>1 DEF DropOwner, TypeOK
<1>7. CASE DropStops
  BY Zenon, <1>7, <1>d, <1>e DEF DropStops, TypeOK
<1>8. CASE DropJoins
  BY <1>8 DEF DropJoins, TypeOK
<1> QED BY Zenon, <1>1, <1>2, <1>3, <1>4, <1>5, <1>6, <1>7, <1>8 DEF Clients, Owner

\* Every step keeps the types.
LEMMA TypeStep ==
    ASSUME TypeOK, [Next]_vars
    PROVE  TypeOK'
<1> USE NamesAssumption, BoundsAssumption, KindsAssumption
<1>1. CASE SelectWake
  <2>1. CASE /\ begin_shutdown_inner /\ task' = shutdown_tasks /\ pc' = "worker"
             /\ UNCHANGED <<session_key, by_session, completion, queueVars, reaped, proposed,
                            fin_kind, reply, ended, owner>>
    BY <2>1, ShutdownType DEF TypeOK, DecisionType, TaskState, queueVars
  <2> QED BY Zenon, <1>1, <2>1, GotoType DEF SelectWake, Pc
<1>2. ASSUME NEW k \in Task, AbortTakesEffect(k)
      PROVE  TypeOK'
  <2>1. task' \in [Task -> TaskState]
    BY Zenon, <1>2 DEF AbortTakesEffect, TypeOK, TaskState, Exited
  <2>2. /\ completion' \in [Tx -> {"caller", "delivery", "row", "finalizer", "sent", "dropped"}]
        /\ seal' \in [Tx -> {"none", "row", "finalizer", "sent", "gone"}]
    BY Zenon, <1>2 DEF AbortTakesEffect, TypeOK
  <2> QED BY ZenonT(30), <1>2, <2>1, <2>2
          DEF AbortTakesEffect, TypeOK, TaskState, queueVars, lapVars
<1>3. CASE UNCHANGED vars
  BY Zenon, <1>3 DEF vars, TypeOK, rowVars, queueVars, lapVars, finVars
<1> QED BY Zenon, <1>1, <1>2, <1>3, LapType, TasksType, CallersType DEF Next

\* Type correctness, and that no bounded queue of the runtime exceeds its capacity.
THEOREM TypeCorrect == Spec => []TypeOK
<1> USE NamesAssumption, BoundsAssumption, KindsAssumption
<1>1. Init => TypeOK
  <2> SUFFICES ASSUME Init PROVE TypeOK
    BY Zenon
  <2>1. \A S : <<>> \in Seq(S) /\ Len(<<>>) = 0
    BY SeqEmpty
  <2>2. /\ start_q \in Seq(Tx) /\ control_q \in Seq(Control) /\ spawn_q \in Seq(Tx \X Worker)
        /\ worker_q \in Seq([tx : Tx, kind : CoordinatorKind])
    BY Zenon, <2>1 DEF Init
  <2>3. /\ Len(control_q) \leq ControlCap /\ Len(worker_q) \leq WorkerCap
        /\ Len(spawn_q) \leq SpawnCap
    BY <2>1 DEF Init
  <2> QED BY Zenon, <2>2, <2>3 DEF Init, TypeOK, Phase, KindOrNone
<1> QED BY <1>1, TypeStep, PTL DEF Spec


-----------------------------------------------------------------------------
(* The inductive invariant.                                                *)

\* The part of DecisionInv that speaks of single transactions, and that of CompletionInv.
TxDecision ==
    \A t \in Tx :
       /\ t \in rows => t \in admitted
       /\ t \in undecided => phase[t] \in {"Queued", "Running"} /\ fin_pc[t] = "none"
       /\ t \in rows \ undecided => phase[t] \notin {"Queued", "Running"} /\ fin_pc[t] # "none"
       /\ t \notin admitted => fin_pc[t] = "none"
       /\ t \notin rows => terminal[t] = "none"

NoStopQueued == \A i \in DOMAIN control_q : control_q[i].op # "StopSupervisor"

ReapedDone == \A r \in reaped : r[1][2] = "finalizer" => fin_pc[r[1][1]] = "done"

TxCompletion ==
    \A t \in Tx :
       /\ fin_pc[t] = "none" => task[<<t, "finalizer">>] = "absent"
       /\ fin_pc[t] = "none" /\ t \in admitted =>
             t \in rows /\ completion[t] \in {"delivery", "row"}
       /\ fin_pc[t] \in {"yield", "wait", "publish"} => task[<<t, "finalizer">>] = "live"
       /\ fin_pc[t] = "yield" => completion[t] \in {"delivery", "row"}
       /\ fin_pc[t] \in {"wait", "publish"} => completion[t] = "finalizer"
       /\ fin_pc[t] = "done" => completion[t] = "sent"

StopInv ==
    /\ stopping => state # "Accepting" /\ undecided = {}
    /\ pc = "residual" => stopping

\* IndInv, taken apart.
LEMMA IndParts ==
    /\ IndInv <=> /\ CoreTaskHasRow /\ TxDecision /\ StopInv
                  /\ owner = "held" => NoStopQueued /\ ReapedDone /\ TxCompletion
    /\ IndInv' <=> /\ CoreTaskHasRow' /\ TxDecision' /\ StopInv'
                   /\ owner' = "held" => NoStopQueued' /\ ReapedDone' /\ TxCompletion'
BY Zenon DEF IndInv, DecisionInv, CompletionInv, TxDecision, StopInv, NoStopQueued, ReapedDone,
       TxCompletion

\* A decision for undecided rows, each of which gets its finalizer.  f is the registry
\* before the finalizers are spawned.
LEMMA DecideInd ==
    ASSUME TypeOK, CoreTaskHasRow, TxDecision, UNCHANGED completion,
           NEW ts \in SUBSET undecided, NEW kind \in EndKind, decide(ts, kind),
           NEW f \in [Task -> TaskState], task' = spawned(f, finalizers(ts)),
           \A k \in Task : f[k] # "absent" => task[k] # "absent"
    PROVE  /\ CoreTaskHasRow' /\ TxDecision' /\ undecided' = undecided \ ts
           /\ ReapedDone /\ reaped' \subseteq reaped => ReapedDone'
           /\ TxCompletion /\ (\A t \in Tx : f[<<t, "finalizer">>] = task[<<t, "finalizer">>])
                 => TxCompletion'
<1>0. /\ phase \in [Tx -> Phase] /\ terminal \in [Tx -> KindOrNone] /\ reaped \subseteq (Task \X Exited)
      /\ fin_pc \in [Tx -> {"none", "yield", "wait", "publish", "done"}]
      /\ kind # "none" /\ ts \subseteq Tx
  BY DEF TypeOK, EndKind, undecided, rows
<1>1. rows' = rows /\ undecided' = undecided \ ts /\ admitted' = admitted
  BY Zenon, <1>0 DEF decide, rows, undecided, admitted
<1>2. \A t \in Tx : fin_pc'[t] = IF t \in ts THEN "yield" ELSE fin_pc[t]
  BY Zenon DEF decide
<1>3. \A k \in Task : task'[k] = IF k \in finalizers(ts) THEN "live" ELSE f[k]
  BY Zenon DEF spawned
<1>4. CoreTaskHasRow'
  BY <1>1, <1>3 DEF CoreTaskHasRow, registered, finalizers, undecided
<1>5. TxDecision'
  <2> SUFFICES ASSUME NEW t \in Tx
               PROVE  /\ t \in rows => t \in admitted
                      /\ t \in undecided \ ts =>
                            phase'[t] \in {"Queued", "Running"} /\ fin_pc'[t] = "none"
                      /\ t \in rows /\ t \notin undecided \ ts =>
                            phase'[t] \notin {"Queued", "Running"} /\ fin_pc'[t] # "none"
                      /\ t \notin admitted => fin_pc'[t] = "none"
                      /\ t \notin rows => terminal'[t] = "none"
    BY Zenon, <1>1 DEF TxDecision
  <2>1. /\ phase'[t] = IF t \in ts THEN "Finalizing" ELSE phase[t]
        /\ terminal'[t] = IF t \in ts THEN kind ELSE terminal[t]
    BY Zenon DEF decide
  <2>2. t \in ts => t \in rows
    BY Zenon DEF undecided
  <2> QED BY Zenon, <1>2, <2>1, <2>2 DEF TxDecision
<1>6. ASSUME ReapedDone, reaped' \subseteq reaped
      PROVE  ReapedDone'
  <2> SUFFICES ASSUME NEW r \in reaped, r[1][2] = "finalizer"
               PROVE  fin_pc'[r[1][1]] = "done"
    BY Zenon, <1>6 DEF ReapedDone
  <2>1. r[1][1] \in Tx /\ fin_pc[r[1][1]] = "done"
    BY Zenon, <1>0, <1>6 DEF ReapedDone, Task
  <2>2. r[1][1] \notin ts
    BY Zenon, <2>1 DEF TxDecision
  <2> QED BY <1>2, <2>1, <2>2
<1>7. ASSUME TxCompletion, \A t \in Tx : f[<<t, "finalizer">>] = task[<<t, "finalizer">>]
      PROVE  TxCompletion'
  <2>1. \A t \in Tx : <<t, "finalizer">> \in Task
    BY Zenon DEF Task, CoreClass
  <2>2. \A t \in Tx : task'[<<t, "finalizer">>] =
                       IF t \in ts THEN "live" ELSE task[<<t, "finalizer">>]
    <3> SUFFICES ASSUME NEW t \in Tx
                 PROVE  task'[<<t, "finalizer">>] =
                        IF t \in ts THEN "live" ELSE task[<<t, "finalizer">>]
      BY Zenon
    <3>1. <<t, "finalizer">> \in finalizers(ts) <=> t \in ts
      BY DEF finalizers
    <3> QED BY <1>3, <1>7, <2>1, <3>1
  <2>3. \A t \in ts : fin_pc[t] = "none" /\ t \in admitted
    <3> SUFFICES ASSUME NEW t \in ts
                 PROVE  fin_pc[t] = "none" /\ t \in admitted
      BY Zenon
    <3>1. t \in Tx /\ t \in undecided /\ t \in rows
      BY <1>0 DEF undecided
    <3> QED BY Zenon, <3>1 DEF TxDecision
  <2> QED BY ZenonT(40), <1>1, <1>2, <1>7, <2>2, <2>3 DEF TxCompletion
<1> QED BY Zenon, <1>1, <1>4, <1>5, <1>6, <1>7

\* The registry after a step: no new core task, and no finalizer stopped short.
NoNewCore == \A k \in Task : k[2] \in CoreClass /\ task'[k] # "absent" => task[k] # "absent"
FinalizersLive ==
    \A t \in Tx : task[<<t, "finalizer">>] = "live" => task'[<<t, "finalizer">>] = "live"

\* A step that leaves rows and finalizers alone.
LEMMA QuietInd ==
    ASSUME IndInv, UNCHANGED <<phase, terminal, completion, fin_pc>>,
           NoNewCore, owner' = "held" => owner = "held",
           owner' = "held" => FinalizersLive /\ NoStopQueued' /\ ReapedDone',
           stopping' = stopping, state' # state => state' # "Accepting",
           pc' = "residual" => stopping'
    PROVE  IndInv'
<1>1. rows' = rows /\ undecided' = undecided /\ admitted' = admitted
  BY DEF rows, undecided, admitted
<1>2. CoreTaskHasRow'
  BY Zenon, <1>1, IndParts DEF CoreTaskHasRow, NoNewCore, registered
<1>3. TxDecision'
  BY <1>1, IndParts DEF TxDecision
<1>4. StopInv'
  BY <1>1, IndParts DEF StopInv
<1>5. ASSUME owner' = "held" PROVE TxCompletion'
  <2>1. TxCompletion
    BY Zenon, <1>5, IndParts
  <2>2. \A t \in Tx : task[<<t, "finalizer">>] = "absent" => task'[<<t, "finalizer">>] = "absent"
    BY DEF NoNewCore, Task, CoreClass
  <2> QED BY Zenon, <1>1, <1>5, <2>1, <2>2 DEF TxCompletion, FinalizersLive
<1> QED BY Zenon, <1>2, <1>3, <1>4, <1>5, IndParts

\* Rows without tasks that are decided may be removed: their completion was sent.
LEMMA RemoveInd ==
    ASSUME TypeOK, IndInv, NEW ts \in SUBSET (rows \ undecided), remove(ts),
           \A t \in ts : tasks_for(t) = {}, UNCHANGED <<fin_pc, owner, state, stopping, control_q>>,
           reaped' \subseteq reaped, NoNewCore, owner = "held" => FinalizersLive,
           pc' # "residual"
    PROVE  IndInv'
<1>0. /\ phase \in [Tx -> Phase] /\ terminal \in [Tx -> KindOrNone]
      /\ completion \in [Tx -> {"caller", "delivery", "row", "finalizer", "sent", "dropped"}]
      /\ ts \subseteq Tx
  BY Zenon DEF TypeOK, rows
<1>1. /\ \A t \in Tx : phase'[t] = IF t \in ts THEN "Absent" ELSE phase[t]
      /\ \A t \in Tx : terminal'[t] = IF t \in ts THEN "none" ELSE terminal[t]
      /\ \A t \in Tx : completion'[t] = IF t \in ts /\ completion[t] \in {"delivery", "row"}
                                         THEN "dropped" ELSE completion[t]
  BY DEF remove
<1>2. rows' = rows \ ts /\ undecided' = undecided /\ admitted' = admitted
  BY Zenon, <1>0, <1>1 DEF rows, undecided, admitted
<1>3. \A t \in ts, c \in CoreClass : task[<<t, c>>] = "absent"
  BY <1>0 DEF tasks_for, registered, Task
<1>4. CoreTaskHasRow'
  <2> SUFFICES ASSUME NEW k \in Task, task'[k] # "absent", k[2] \in CoreClass
               PROVE  k[1] \in rows'
    BY DEF CoreTaskHasRow, registered
  <2>1. task[k] # "absent" /\ k[1] \in rows
    BY Zenon, IndParts DEF NoNewCore, CoreTaskHasRow, registered
  <2>2. k = <<k[1], k[2]>>
    BY DEF Task
  <2> QED BY <1>2, <1>3, <2>1, <2>2
<1>5. TxDecision'
  BY Zenon, <1>1, <1>2, IndParts DEF TxDecision
<1>6. StopInv'
  BY <1>2, IndParts DEF StopInv
<1>7. ASSUME owner = "held" PROVE ReapedDone' /\ TxCompletion' /\ NoStopQueued'
  <2>1. TxCompletion /\ ReapedDone /\ FinalizersLive /\ NoStopQueued
    BY <1>7, IndParts
  <2>2. \A t \in ts : fin_pc[t] = "done"
    <3> SUFFICES ASSUME NEW t \in ts PROVE fin_pc[t] = "done"
      BY Zenon
    <3>1. t \in Tx /\ fin_pc[t] # "none"
      BY Zenon, <1>0, IndParts DEF TxDecision
    <3>2. task[<<t, "finalizer">>] = "absent"
      BY Zenon, <1>3 DEF CoreClass
    <3>3. fin_pc[t] \in {"none", "yield", "wait", "publish", "done"}
      BY Zenon, <3>1 DEF TypeOK
    <3> QED BY Zenon, <2>1, <3>1, <3>2, <3>3 DEF TxCompletion
  <2>3. \A t \in ts : completion'[t] = "sent"
    BY Zenon, <1>0, <1>1, <2>1, <2>2 DEF TxCompletion
  <2>4. \A t \in Tx : task[<<t, "finalizer">>] = "absent" => task'[<<t, "finalizer">>] = "absent"
    BY Zenon DEF NoNewCore, Task, CoreClass
  <2>5. TxCompletion'
    <3> SUFFICES ASSUME NEW t \in Tx
                 PROVE  /\ fin_pc[t] = "none" => task'[<<t, "finalizer">>] = "absent"
                        /\ fin_pc[t] = "none" /\ t \in admitted =>
                              t \in rows' /\ completion'[t] \in {"delivery", "row"}
                        /\ fin_pc[t] \in {"yield", "wait", "publish"} =>
                              task'[<<t, "finalizer">>] = "live"
                        /\ fin_pc[t] = "yield" => completion'[t] \in {"delivery", "row"}
                        /\ fin_pc[t] \in {"wait", "publish"} => completion'[t] = "finalizer"
                        /\ fin_pc[t] = "done" => completion'[t] = "sent"
      BY Zenon, <1>2 DEF TxCompletion
    <3>1. CASE t \in ts
      BY Zenon, <2>2, <2>3, <3>1
    <3>2. CASE t \notin ts
      BY Zenon, <1>1, <1>2, <2>1, <2>4, <3>2 DEF TxCompletion, FinalizersLive
    <3> QED BY Zenon, <3>1, <3>2
  <2>6. ReapedDone' /\ NoStopQueued'
    BY <2>1 DEF ReapedDone, NoStopQueued
  <2> QED BY <2>5, <2>6
<1> QED BY Zenon, <1>4, <1>5, <1>6, <1>7, IndParts

\* accept_terminal, as the worker, control and start branches call it.
LEMMA AcceptInd ==
    ASSUME TypeOK, IndInv, NEW t \in Tx, NEW kind \in EndKind, NEW force \in BOOLEAN,
           accept_terminal(t, kind, force),
           UNCHANGED <<completion, state, stopping, reaped, owner>>, pc' # "residual",
           NoStopQueued => NoStopQueued'
    PROVE  IndInv'
<1>1. CASE t \notin rows
  <2>1. UNCHANGED <<decisionVars, task>>
    BY <1>1 DEF accept_terminal
  <2>2. NoNewCore /\ FinalizersLive /\ (ReapedDone => ReapedDone')
    BY Zenon, <2>1 DEF NoNewCore, FinalizersLive, ReapedDone, decisionVars
  <2> QED BY <2>1, <2>2, QuietInd, IndParts DEF decisionVars
<1>2. CASE t \in rows /\ terminal[t] # "none"
  <2>1. later_proposal(t, kind, force)
    BY Zenon, <1>2 DEF accept_terminal
  <2>2. UNCHANGED <<phase, fin_pc, task>> /\ terminal \in [Tx -> KindOrNone]
    BY <2>1 DEF later_proposal, TypeOK
  <2>3. rows' = rows /\ admitted' = admitted /\ undecided' = undecided
    BY Zenon, <1>2, <2>1, <2>2 DEF later_proposal, rows, admitted, undecided
  <2>k. \A u \in Tx : u \notin rows => terminal'[u] = terminal[u]
    BY <1>2, <2>1, <2>2 DEF later_proposal
  <2>4. CoreTaskHasRow' /\ TxDecision' /\ StopInv'
    BY Zenon, <2>2, <2>3, <2>k, IndParts DEF CoreTaskHasRow, registered, TxDecision, StopInv
  <2>5. owner = "held" => NoStopQueued' /\ ReapedDone' /\ TxCompletion'
    BY Zenon, <2>2, <2>3, IndParts DEF ReapedDone, TxCompletion
  <2> QED BY Zenon, <2>4, <2>5, IndParts
<1>3. CASE t \in rows /\ terminal[t] = "none"
  <2>1. decide({t}, kind) /\ task' = spawned(task, finalizers({t}))
    BY Zenon, <1>3 DEF accept_terminal
  <2>2. {t} \in SUBSET undecided /\ task \in [Task -> TaskState]
    BY <1>3 DEF undecided, TypeOK, TaskState
  <2>3. CoreTaskHasRow /\ TxDecision /\ StopInv
    BY Zenon, IndParts
  <2>4. /\ CoreTaskHasRow' /\ TxDecision' /\ undecided' = undecided \ {t}
        /\ ReapedDone => ReapedDone'
        /\ TxCompletion => TxCompletion'
    BY <2>1, <2>2, <2>3, DecideInd
  <2>5. StopInv'
    BY <2>3, <2>4 DEF StopInv
  <2> QED BY Zenon, <2>4, <2>5, IndParts
<1> QED BY Zenon, <1>1, <1>2, <1>3

\* begin_shutdown_inner, without and with the abort of everything after it.
LEMMA ShutdownInd ==
    ASSUME TypeOK, IndInv, begin_shutdown_inner, UNCHANGED <<completion, reaped, owner>>,
           \/ task' = shutdown_tasks
           \/ task' = abort(shutdown_tasks, Task) /\ owner # "held",
           NoStopQueued => NoStopQueued'
    PROVE  IndInv'
<1> DEFINE f == abort(task, residuals(rows \ undecided))
<1>0. task \in [Task -> TaskState] /\ state \in {"Accepting", "Quiescing", "Stopped"}
  BY DEF TypeOK, TaskState
<1>1. f \in [Task -> TaskState]
  BY Zenon, <1>0, RegistryType
<1>2. \A k \in Task : f[k] # "absent" => task[k] # "absent"
  BY Zenon DEF abort
<1>3. \A t \in Tx : f[<<t, "finalizer">>] = task[<<t, "finalizer">>]
  BY Zenon DEF abort, residuals, Task, CoreClass
<1>4. decide(undecided, "RuntimeShutdown") /\ "RuntimeShutdown" \in EndKind
  BY DEF begin_shutdown_inner, EndKind
<1>5. CoreTaskHasRow /\ TxDecision /\ StopInv
  BY Zenon, IndParts
<1>6. state' # "Accepting" /\ stopping'
  BY Zenon, <1>0 DEF begin_shutdown_inner
<1>7. shutdown_tasks = spawned(f, finalizers(undecided))
  BY DEF shutdown_tasks
<1>8. CASE task' = shutdown_tasks
  <2>1. /\ CoreTaskHasRow' /\ TxDecision' /\ undecided' = {}
        /\ ReapedDone => ReapedDone'
        /\ TxCompletion => TxCompletion'
    <3> HIDE DEF f
    <3> QED BY Zenon, <1>1, <1>2, <1>3, <1>4, <1>5, <1>7, <1>8, DecideInd
  <2>2. StopInv'
    BY Zenon, <1>6, <2>1 DEF StopInv
  <2> QED BY <2>1, <2>2, IndParts
<1>9. CASE task' = abort(shutdown_tasks, Task) /\ owner # "held"
  <2>1. rows' = rows /\ admitted' = admitted /\ undecided' = {}
    BY Zenon, <1>4 DEF decide, rows, admitted, undecided, EndKind, TypeOK
  <2>2. CoreTaskHasRow'
    <3> SUFFICES ASSUME NEW k \in Task, k[2] \in CoreClass, task'[k] # "absent"
                 PROVE  k[1] \in rows
      BY <2>1 DEF CoreTaskHasRow, registered
    <3>1. shutdown_tasks[k] # "absent"
      BY <1>9 DEF abort
    <3>2. k \in finalizers(undecided) \/ task[k] # "absent"
      BY <1>2, <1>7, <3>1 DEF spawned
    <3> QED BY <1>5, <3>2 DEF CoreTaskHasRow, registered, finalizers, undecided
  <2>3. TxDecision'
    <3>1. \A t \in Tx : /\ fin_pc'[t] = IF t \in undecided THEN "yield" ELSE fin_pc[t]
                        /\ phase'[t] = IF t \in undecided THEN "Finalizing" ELSE phase[t]
                        /\ t \notin undecided => terminal'[t] = terminal[t]
      BY <1>4 DEF decide
    <3> QED BY Zenon, <1>5, <2>1, <3>1 DEF TxDecision, undecided
  <2>4. StopInv'
    BY Zenon, <1>6, <2>1 DEF StopInv
  <2> QED BY <1>9, <2>2, <2>3, <2>4, IndParts
<1> QED BY Zenon, <1>8, <1>9

\* on_task_exit, for an exit that was reaped.
LEMMA ExitInd ==
    ASSUME TypeOK, IndInv, NEW r \in reaped, on_task_exit(r[1], r[2]), reaped' \subseteq reaped,
           UNCHANGED <<state, stopping, control_q, owner>>, pc' # "residual"
    PROVE  IndInv'
<1> DEFINE k == r[1]
<1>0. /\ k \in Task /\ k[1] \in Tx /\ r[2] \in Exited
      /\ task \in [Task -> TaskState]
  BY Zenon DEF TypeOK, TaskState, Task
<1>p. CoreTaskHasRow /\ TxDecision /\ StopInv
  BY Zenon, IndParts
<1>1. CASE missing_terminal(k)
  <2>1. /\ decide({k[1]}, recovered_kind(k[1], r[2]))
        /\ task' = spawned(task, finalizers({k[1]}))
        /\ UNCHANGED completion
    BY Zenon, <1>1 DEF on_task_exit
  <2>2. recovered_kind(k[1], r[2]) \in EndKind
    BY <1>0 DEF recovered_kind, TypeOK, KindOrNone, EndKind
  <2>3. {k[1]} \in SUBSET undecided
    BY Zenon, <1>1 DEF missing_terminal
  <2>4. /\ CoreTaskHasRow' /\ TxDecision' /\ undecided' = undecided \ {k[1]}
        /\ ReapedDone => ReapedDone'
        /\ TxCompletion => TxCompletion'
    BY Zenon, <1>0, <1>p, <2>1, <2>2, <2>3, DecideInd
  <2>5. StopInv' /\ (NoStopQueued => NoStopQueued')
    BY <1>p, <2>4 DEF StopInv, NoStopQueued
  <2> QED BY Zenon, <2>4, <2>5, IndParts
<1>2. CASE ~missing_terminal(k) /\ tasks_for(k[1]) = {}
  <2>1. remove(tombstones({k[1]})) /\ UNCHANGED <<seal, task, fin_pc>>
    BY Zenon, <1>2 DEF on_task_exit
  <2>2. tombstones({k[1]}) \in SUBSET (rows \ undecided)
    BY Zenon, <1>0, <1>p DEF tombstones, TxDecision, rows
  <2>3. \A t \in tombstones({k[1]}) : tasks_for(t) = {}
    BY Zenon, <1>2 DEF tombstones
  <2>4. NoNewCore /\ FinalizersLive
    BY Zenon, <2>1 DEF NoNewCore, FinalizersLive
  <2> QED BY Zenon, <2>1, <2>2, <2>3, <2>4, RemoveInd
<1>3. CASE ~missing_terminal(k) /\ tasks_for(k[1]) # {}
  <2>1. /\ task' = IF k[2] = "finalizer" THEN abort(task, tasks_for(k[1])) ELSE task
        /\ UNCHANGED <<rowVars, seal, fin_pc>>
    BY Zenon, <1>3 DEF on_task_exit
  <2>2. NoNewCore
    BY <2>1 DEF NoNewCore, abort
  <2>3. ASSUME owner = "held" PROVE ReapedDone' /\ NoStopQueued'
    BY Zenon, <2>1, <2>3, IndParts DEF ReapedDone, NoStopQueued
  <2>4. ASSUME owner = "held", NEW t \in Tx, task[<<t, "finalizer">>] = "live"
        PROVE  task'[<<t, "finalizer">>] = "live" \/ fin_pc[t] = "done"
    <3>1. ReapedDone
      BY Zenon, <2>4, IndParts
    <3>2. <<t, "finalizer">> \in Task
      BY Zenon DEF Task, CoreClass
    <3>3. CASE k[2] = "finalizer" /\ t = k[1]
      BY Zenon, <3>1, <3>3 DEF ReapedDone
    <3>4. CASE k[2] = "finalizer" /\ t # k[1]
      BY Zenon, <2>1, <2>4, <3>2, <3>4 DEF abort, tasks_for
    <3>5. CASE k[2] # "finalizer"
      BY Zenon, <2>1, <2>4, <3>5
    <3> QED BY <3>3, <3>4, <3>5
  <2>5. rows' = rows /\ undecided' = undecided /\ admitted' = admitted
    BY Zenon, <2>1 DEF rowVars, rows, undecided, admitted
  <2>6. CoreTaskHasRow' /\ TxDecision' /\ StopInv'
    BY Zenon, <1>p, <2>1, <2>2, <2>5
       DEF CoreTaskHasRow, registered, NoNewCore, TxDecision, StopInv, rowVars
  <2>7. ASSUME owner = "held" PROVE TxCompletion'
    <3>1. TxCompletion
      BY Zenon, <2>7, IndParts
    <3>2. \A t \in Tx : task[<<t, "finalizer">>] = "absent" => task'[<<t, "finalizer">>] = "absent"
      BY <2>2 DEF NoNewCore, Task, CoreClass
    <3> QED BY Zenon, <2>1, <2>4, <2>5, <2>7, <3>1, <3>2 DEF TxCompletion, rowVars
  <2> QED BY <2>3, <2>6, <2>7, IndParts
<1> QED BY Zenon, <1>1, <1>2, <1>3

\* Taking the head off the control queue queues no StopSupervisor.
LEMMA TailNoStop ==
    ASSUME TypeOK, control_q # <<>>, control_q' = Tail(control_q)
    PROVE  NoStopQueued => NoStopQueued'
<1>1. control_q \in Seq(Control)
  BY Zenon DEF TypeOK
<1>2. \A i \in 1..Len(Tail(control_q)) : Tail(control_q)[i] = control_q[i + 1] /\ i + 1 \in 1..Len(control_q)
  BY <1>1, SeqTail
<1>3. Tail(control_q) \in Seq(Control)
  BY Zenon, <1>1, SeqTail
<1>4. DOMAIN Tail(control_q) = 1..Len(Tail(control_q)) /\ DOMAIN control_q = 1..Len(control_q)
  BY Zenon, <1>1, <1>3, SeqLen
<1> QED BY Zenon, <1>2, <1>4 DEF NoStopQueued

\* The steps of the lap that only move on keep the invariant.
LEMMA GotoInd ==
    ASSUME IndInv, NEW from, NEW to, to # "residual", goto(from, to)
    PROVE  IndInv'
<1>1. /\ UNCHANGED <<state, phase, terminal, completion, fin_pc, stopping, reaped, task, owner, control_q>>
      /\ pc' # "residual"
  BY Zenon DEF goto, rowVars, queueVars, finVars
<1>2. NoNewCore /\ FinalizersLive
  BY <1>1 DEF NoNewCore, FinalizersLive
<1>3. owner = "held" => NoStopQueued' /\ ReapedDone'
  BY Zenon, <1>1, IndParts DEF NoStopQueued, ReapedDone
<1> QED BY Zenon, <1>1, <1>2, <1>3, QuietInd

\* One WorkerExited message keeps the invariant.
LEMMA HandleWorkerInd ==
    ASSUME TypeOK, IndInv, NEW next, next # "residual", handle_worker(next)
    PROVE  IndInv'
<1> DEFINE S == [tx : Tx, kind : CoordinatorKind]
<1>1. worker_q \in Seq(S) /\ worker_q # <<>>
  BY DEF handle_worker, TypeOK
<1>2. Head(worker_q) \in S
  BY Zenon, <1>1, SeqTail
<1>3. Head(worker_q).tx \in Tx /\ Head(worker_q).kind \in EndKind
  BY <1>2, KindsAssumption
<1>4. /\ accept_terminal(Head(worker_q).tx, Head(worker_q).kind, FALSE)
      /\ UNCHANGED <<completion, state, stopping, reaped, owner, control_q>> /\ pc' # "residual"
  BY Zenon DEF handle_worker
<1>5. NoStopQueued => NoStopQueued'
  BY Zenon, <1>4 DEF NoStopQueued
<1> QED BY Zenon, <1>3, <1>4, <1>5, AcceptInd

\* One command of the control queue keeps the invariant.
LEMMA HandleControlInd ==
    ASSUME TypeOK, IndInv, NEW next, next # "residual", handle_control(next)
    PROVE  IndInv'
<1> DEFINE cmd == Head(control_q)
<1>1. control_q \in Seq(Control) /\ control_q # <<>>
  BY Zenon DEF handle_control, TypeOK
<1>2. cmd \in Control /\ cmd = control_q[1] /\ 1 \in DOMAIN control_q
  BY <1>1, SeqTail, SeqLen
<1>3. /\ UNCHANGED <<completion, reaped, owner>> /\ pc' # "residual"
      /\ control_q' = Tail(control_q)
  BY Zenon DEF handle_control
<1>4. NoStopQueued => NoStopQueued'
  BY Zenon, <1>1, <1>3, TailNoStop
<1>5. CASE cmd.op \in {"Cancel", "ForceTerminate"}
  <2>1. cmd.tx \in Tx
    BY <1>2, <1>5 DEF Control
  <2>2. /\ \E kind \in EndKind, force \in BOOLEAN : accept_terminal(cmd.tx, kind, force)
        /\ UNCHANGED <<state, stopping>>
    BY Zenon, <1>5 DEF handle_control, EndKind
  <2> QED BY Zenon, <1>3, <1>4, <2>1, <2>2, AcceptInd
<1>6. CASE cmd.op \notin {"Cancel", "ForceTerminate"}
  <2>1. /\ begin_shutdown_inner
        /\ task' = shutdown_tasks \/ (task' = abort(shutdown_tasks, Task) /\ cmd.op = "StopSupervisor")
    BY Zenon, <1>6 DEF handle_control
  <2>2. cmd.op = "StopSupervisor" => owner # "held"
    BY Zenon, <1>2, IndParts DEF NoStopQueued
  <2> QED BY <1>3, <1>4, <2>1, <2>2, ShutdownInd
<1> QED BY <1>5, <1>6

\* One spawn request keeps the invariant: requests are never for a core task.
LEMMA HandleSpawnInd ==
    ASSUME TypeOK, IndInv, NEW next, next # "residual", handle_spawn(next)
    PROVE  IndInv'
<1>1. spawn_q \in Seq(Tx \X Worker) /\ spawn_q # <<>>
  BY DEF handle_spawn, TypeOK
<1>2. Head(spawn_q) \in Tx \X Worker
  BY Zenon, <1>1, SeqTail
<1>3. /\ UNCHANGED <<state, phase, terminal, completion, fin_pc, stopping, reaped, owner, control_q>>
      /\ task' = spawned(task, {Head(spawn_q)}) /\ pc' # "residual"
  BY DEF handle_spawn, rowVars, finVars
<1>4. Head(spawn_q)[2] \notin CoreClass
  BY <1>2, NamesAssumption DEF CoreClass
<1>5. NoNewCore
  BY Zenon, <1>3, <1>4 DEF NoNewCore, spawned
<1>6. FinalizersLive
  BY Zenon, <1>3, <1>4 DEF FinalizersLive, spawned, Task, CoreClass
<1>7. owner = "held" => NoStopQueued' /\ ReapedDone'
  BY Zenon, <1>3, IndParts DEF NoStopQueued, ReapedDone
<1> QED BY Zenon, <1>3, <1>5, <1>6, <1>7, QuietInd

\* A step that concerns the completion of one transaction.
LEMMA CompletionStep ==
    ASSUME TxCompletion, NEW t \in Tx, rows' = rows, admitted' = admitted,
           \A u \in Tx \ {t} : /\ fin_pc'[u] = fin_pc[u] /\ completion'[u] = completion[u]
                                /\ task'[<<u, "finalizer">>] = task[<<u, "finalizer">>],
           \/ /\ fin_pc'[t] = "none" /\ task'[<<t, "finalizer">>] = "absent"
              /\ t \in rows /\ completion'[t] \in {"delivery", "row"}
           \/ /\ fin_pc'[t] \in {"wait", "publish"} /\ task'[<<t, "finalizer">>] = "live"
              /\ completion'[t] = "finalizer"
           \/ fin_pc'[t] = "done" /\ completion'[t] = "sent"
    PROVE  TxCompletion'
<1> SUFFICES ASSUME NEW u \in Tx
             PROVE  /\ fin_pc'[u] = "none" => task'[<<u, "finalizer">>] = "absent"
                    /\ fin_pc'[u] = "none" /\ u \in admitted =>
                          u \in rows /\ completion'[u] \in {"delivery", "row"}
                    /\ fin_pc'[u] \in {"yield", "wait", "publish"} =>
                          task'[<<u, "finalizer">>] = "live"
                    /\ fin_pc'[u] = "yield" => completion'[u] \in {"delivery", "row"}
                    /\ fin_pc'[u] \in {"wait", "publish"} => completion'[u] = "finalizer"
                    /\ fin_pc'[u] = "done" => completion'[u] = "sent"
  BY Zenon DEF TxCompletion
<1>1. CASE u = t
  BY Zenon, <1>1
<1>2. CASE u # t
  BY Zenon, <1>2 DEF TxCompletion
<1> QED BY Zenon, <1>1, <1>2

\* The steps of the lap keep the invariant.
LEMMA LapInd ==
    ASSUME TypeOK, IndInv, Lap
    PROVE  IndInv'
<1>t. task \in [Task -> TaskState] /\ \A t \in Tx : <<t, "finalizer">> \in Task
  BY Zenon DEF TypeOK, TaskState, Task, CoreClass
<1>1. CASE DrainWorker
  BY <1>1, HandleWorkerInd, GotoInd DEF DrainWorker
<1>2. CASE DrainControl
  BY Zenon, <1>2, HandleControlInd DEF DrainControl
<1>3. CASE Reap
  <2>1. /\ UNCHANGED <<state, phase, terminal, completion, fin_pc, stopping, owner, control_q>>
        /\ task' = [k \in Task |-> IF task[k] \in Exited THEN "absent" ELSE task[k]]
        /\ reaped' = {<<k, task[k]>> : k \in {j \in Task : task[j] \in Exited}}
        /\ pc' # "residual"
    BY <1>3 DEF Reap, deregister, rowVars, queueVars, finVars
  <2>2. NoNewCore /\ FinalizersLive
    BY Zenon, <1>t, <2>1 DEF NoNewCore, FinalizersLive, Exited
  <2>3. ASSUME owner = "held" PROVE ReapedDone'
    <3> SUFFICES ASSUME NEW k \in Task, task[k] \in Exited, k[2] = "finalizer"
                 PROVE  fin_pc[k[1]] = "done"
      BY <2>1 DEF ReapedDone
    <3>1. k[1] \in Tx /\ k = <<k[1], "finalizer">>
      BY DEF Task
    <3>2. fin_pc[k[1]] \in {"none", "yield", "wait", "publish", "done"}
      BY Zenon, <3>1 DEF TypeOK
    <3>3. TxCompletion
      BY Zenon, <2>3, IndParts
    <3> QED BY Zenon, <3>1, <3>2, <3>3 DEF TxCompletion, Exited
  <2>4. owner = "held" => NoStopQueued'
    BY <2>1, IndParts DEF NoStopQueued
  <2> QED BY Zenon, <2>1, <2>2, <2>3, <2>4, QuietInd
<1>4. CASE HandleExit
  <2>1. PICK r \in reaped : on_task_exit(r[1], r[2]) /\ reaped' = reaped \ {r}
    BY <1>4 DEF HandleExit
  <2>2. UNCHANGED <<state, stopping, control_q, owner>> /\ pc' # "residual"
    BY <1>4 DEF HandleExit, queueVars
  <2> QED BY <2>1, <2>2, ExitInd
<1>5. CASE DrainSpawn
  BY <1>5, HandleSpawnInd DEF DrainSpawn
<1>6. CASE ObserveQuiescing
  <2>1. /\ begin_shutdown_inner /\ task' = shutdown_tasks
        /\ UNCHANGED <<completion, reaped, owner, control_q>>
    BY <1>6 DEF ObserveQuiescing, queueVars
  <2>2. NoStopQueued => NoStopQueued'
    BY <2>1 DEF NoStopQueued
  <2> QED BY <2>1, <2>2, ShutdownInd
<1>7. CASE NothingToStop
  BY Zenon, <1>7, GotoInd DEF NothingToStop
<1>8. ASSUME NEW grace \in BOOLEAN, Residual(grace)
      PROVE  IndInv'
  <2> DEFINE idle == {t \in rows : tasks_for(t) = {}}
             cleared == IF grace THEN idle ELSE tombstones(idle)
             ks == IF rows = cleared THEN Task
                   ELSE IF grace THEN except_finalizer(rows) ELSE residuals(rows)
  <2>1. /\ remove(cleared) /\ task' = abort(task, ks)
        /\ UNCHANGED <<state, stopping, control_q, owner, reaped, fin_pc>> /\ pc' # "residual"
    BY Zenon, <1>8 DEF Residual, finVars
  <2>2. stopping /\ undecided = {}
    BY <1>8, IndParts DEF Residual, StopInv
  <2>3. cleared \in SUBSET (rows \ undecided) /\ \A t \in cleared : tasks_for(t) = {}
    BY <2>2 DEF tombstones
  <2>4. NoNewCore
    BY Zenon, <2>1 DEF NoNewCore, abort
  <2>5. FinalizersLive
    <3> SUFFICES ASSUME NEW t \in Tx, task[<<t, "finalizer">>] = "live"
                 PROVE  <<t, "finalizer">> \notin ks
      BY ZenonT(40), <1>t, <2>1 DEF FinalizersLive, abort
    <3>1. <<t, "finalizer">> \in registered
      BY Zenon, <1>t DEF registered
    <3>2. t \in rows /\ <<t, "finalizer">> \in tasks_for(t)
      BY Zenon, <3>1, IndParts DEF CoreTaskHasRow, CoreClass, tasks_for
    <3>3. t \notin cleared
      BY Zenon, <2>3, <3>2
    <3> QED BY <3>2, <3>3 DEF except_finalizer, residuals
  <2> HIDE DEF cleared, ks
  <2> QED BY Zenon, <2>1, <2>3, <2>4, <2>5, RemoveInd
<1>d. ASSUME NEW k \in Task, task[k] \in Exited, deregister({k})
      PROVE  NoNewCore /\ FinalizersLive
  BY <1>d DEF deregister, NoNewCore, FinalizersLive, Exited, Task, CoreClass
<1>9. CASE AbortAndDrain
  <2>1. CASE /\ \E k \in Task : task[k] \in Exited /\ deregister({k})
             /\ UNCHANGED <<state, rowVars, queueVars, lapVars, proposed, finVars, owner>>
    <3>1. UNCHANGED <<state, phase, terminal, completion, fin_pc, stopping, reaped, pc, owner, control_q>>
      BY <2>1 DEF rowVars, queueVars, lapVars, finVars
    <3>2. NoNewCore /\ FinalizersLive
      BY Zenon, <2>1, <1>d
    <3>3. owner = "held" => NoStopQueued' /\ ReapedDone'
      BY Zenon, <3>1, IndParts DEF NoStopQueued, ReapedDone
    <3>4. pc' = "residual" => stopping'
      BY <3>1, IndParts DEF StopInv
    <3> QED BY Zenon, <3>1, <3>2, <3>3, <3>4, QuietInd
  <2> QED BY Zenon, <1>9, <2>1, GotoInd DEF AbortAndDrain
<1>10. CASE SelectControl
  BY <1>10, HandleControlInd DEF SelectControl
<1>11. CASE SelectWorker
  BY <1>11, HandleWorkerInd DEF SelectWorker
<1>12. CASE SelectStart
  <2> DEFINE t == Head(start_q)
  <2>1. t \in Tx
    <3>1. start_q \in Seq(Tx) /\ start_q # <<>>
      BY <1>12 DEF SelectStart, TypeOK
    <3> QED BY Zenon, <3>1, SeqTail
  <2>2. /\ UNCHANGED <<state, stopping, reaped, owner, control_q>> /\ pc' # "residual"
        /\ \/ handle_start(t)
           \/ accept_terminal(t, "RuntimeShutdown", FALSE) /\ UNCHANGED completion
           \/ UNCHANGED <<decisionVars, completion, task>>
    BY Zenon, <1>12 DEF SelectStart
  <2>3. owner = "held" => NoStopQueued'
    BY Zenon, <2>2, IndParts DEF NoStopQueued
  <2>4. NoStopQueued => NoStopQueued'
    BY Zenon, <2>2 DEF NoStopQueued
  <2>5. CASE accept_terminal(t, "RuntimeShutdown", FALSE) /\ UNCHANGED completion
    BY Zenon, <2>1, <2>2, <2>4, <2>5, AcceptInd DEF EndKind
  <2>6. CASE UNCHANGED <<decisionVars, completion, task>>
    <3>1. NoNewCore /\ FinalizersLive
      BY Zenon, <2>6 DEF NoNewCore, FinalizersLive
    <3>2. owner = "held" => ReapedDone'
      BY Zenon, <2>2, <2>6, IndParts DEF ReapedDone, decisionVars
    <3> QED BY <2>2, <2>3, <2>6, <3>1, <3>2, QuietInd DEF decisionVars
  <2>7. CASE handle_start(t) /\ t \in rows /\ phase[t] = "Queued" /\ completion[t] = "delivery"
    <3>0. /\ phase \in [Tx -> Phase] /\ terminal \in [Tx -> KindOrNone]
          /\ completion \in [Tx -> {"caller", "delivery", "row", "finalizer", "sent", "dropped"}]
      BY Zenon DEF TypeOK
    <3>1. /\ phase' = [phase EXCEPT ![t] = "Running"]
          /\ completion' = [completion EXCEPT ![t] = "row"]
          /\ task' = spawned(task, {<<t, "publisher">>, <<t, "coordinator">>})
          /\ UNCHANGED <<terminal, fin_pc>>
      BY Zenon, <2>7 DEF handle_start
    <3>2. rows' = rows /\ undecided' = undecided /\ admitted' = admitted
      BY <2>1, <2>7, <3>0, <3>1 DEF rows, undecided, admitted
    <3>3. \A u \in Tx : task'[<<u, "finalizer">>] = task[<<u, "finalizer">>]
      BY Zenon, <1>t, <3>1 DEF spawned
    <3>4. CoreTaskHasRow'
      <4> SUFFICES ASSUME NEW k \in registered', k[2] \in CoreClass PROVE k[1] \in rows
        BY Zenon, <3>2 DEF CoreTaskHasRow
      <4>1. k \in {<<t, "publisher">>, <<t, "coordinator">>} \/ k \in registered
        BY Zenon, <3>1 DEF registered, spawned
      <4>2. CASE k \in {<<t, "publisher">>, <<t, "coordinator">>}
        BY <2>7, <4>2
      <4>3. CASE k \in registered
        BY Zenon, <4>3, IndParts DEF CoreTaskHasRow
      <4> QED BY Zenon, <4>1, <4>2, <4>3
    <3>5. TxDecision' /\ StopInv'
      <4>1. t \in undecided
        BY Zenon, <2>1, <2>7, IndParts DEF TxDecision
      <4>2. \A u \in Tx : phase'[u] = IF u = t THEN "Running" ELSE phase[u]
        BY Zenon, <2>1, <3>0, <3>1
      <4> QED BY Zenon, <2>1, <2>2, <3>1, <3>2, <4>1, <4>2, IndParts DEF TxDecision, StopInv
    <3>6. ASSUME owner = "held" PROVE ReapedDone' /\ TxCompletion'
      <4>1. \A u \in Tx : completion'[u] = IF u = t THEN "row" ELSE completion[u]
        BY Zenon, <2>1, <3>0, <3>1
      <4>2. ReapedDone /\ TxCompletion
        BY <3>6, IndParts
      <4>3. fin_pc[t] = "none"
        BY Zenon, <2>1, <2>7, IndParts DEF TxDecision
      <4>4. task'[<<t, "finalizer">>] = "absent"
        BY <2>1, <3>3, <4>2, <4>3 DEF TxCompletion
      <4>5. TxCompletion'
        BY ZenonT(40), <2>1, <2>7, <3>1, <3>2, <3>3, <4>1, <4>2, <4>3, <4>4, CompletionStep
      <4> QED BY Zenon, <2>2, <3>1, <4>2, <4>5 DEF ReapedDone
    <3> QED BY Zenon, <2>2, <2>3, <3>4, <3>5, <3>6, IndParts
  <2>8. CASE handle_start(t) /\ ~(t \in rows /\ phase[t] = "Queued" /\ completion[t] = "delivery")
    BY <2>6, <2>8 DEF handle_start
  <2> QED BY Zenon, <2>2, <2>5, <2>6, <2>7, <2>8
<1>13. CASE SelectSpawn
  BY <1>13, HandleSpawnInd DEF SelectSpawn
<1>14. CASE SelectTick
  BY Zenon, <1>14, GotoInd DEF SelectTick
<1>15. CASE SelectJoin
  <2>1. PICK k \in Task : task[k] \in Exited /\ deregister({k}) /\ reaped' = {<<k, task[k]>>}
    BY Zenon, <1>15 DEF SelectJoin
  <2>2. /\ UNCHANGED <<state, phase, terminal, completion, fin_pc, stopping, owner, control_q>>
        /\ pc' # "residual"
    BY Zenon, <1>15 DEF SelectJoin, rowVars, queueVars, finVars
  <2>3. ASSUME owner = "held" PROVE ReapedDone' /\ NoStopQueued'
    <3>1. TxCompletion /\ NoStopQueued
      BY Zenon, <2>3, IndParts
    <3>2. k[2] = "finalizer" => fin_pc[k[1]] = "done"
      <4> SUFFICES ASSUME k[2] = "finalizer" PROVE fin_pc[k[1]] = "done"
        BY Zenon
      <4>1. k[1] \in Tx /\ k = <<k[1], "finalizer">>
        BY DEF Task
      <4>2. fin_pc[k[1]] \in {"none", "yield", "wait", "publish", "done"}
        BY <4>1 DEF TypeOK
      <4> QED BY <2>1, <3>1, <4>1, <4>2 DEF TxCompletion, Exited
    <3> QED BY SMTT(30), <2>1, <2>2, <3>1, <3>2 DEF ReapedDone, NoStopQueued
  <2>4. NoNewCore /\ FinalizersLive
    BY Zenon, <2>1, <1>d
  <2> QED BY <2>2, <2>3, <2>4, QuietInd
<1>16. CASE HandleJoined
  <2>1. CASE handle_worker("joined")
    BY Zenon, <2>1, HandleWorkerInd
  <2>2. CASE /\ \E r \in reaped : on_task_exit(r[1], r[2])
             /\ pc' = "worker" /\ reaped' = {}
             /\ UNCHANGED <<state, queueVars, stopping, proposed, fin_kind, reply, ended, owner>>
    BY <2>2, ExitInd DEF queueVars
  <2> QED BY <1>16, <2>1, <2>2 DEF HandleJoined
<1> QED BY Zenon, <1>1, <1>2, <1>3, <1>4, <1>5, <1>6, <1>7, <1>8, <1>9, <1>10, <1>11, <1>12, <1>13,
           <1>14, <1>15, <1>16 DEF Lap

\* A finalizer that runs has its row.
LEMMA FinalizerHasRow ==
    ASSUME CoreTaskHasRow, NEW t \in Tx, running(t, "finalizer")
    PROVE  t \in rows
<1> DEFINE k == <<t, "finalizer">>
<1>1. k \in Task /\ k[1] = t /\ k[2] \in CoreClass
  BY Zenon DEF Task, CoreClass
<1>2. k \in registered
  BY Zenon, <1>1 DEF registered, running
<1> HIDE DEF k
<1> QED BY Zenon, <1>1, <1>2 DEF CoreTaskHasRow

\* A step of a decided transaction that stays decided.
LEMMA DecisionStep ==
    ASSUME TxDecision, NEW t \in rows, t \notin undecided,
           rows' = rows, undecided' = undecided, admitted' = admitted,
           \A u \in Tx : u # t => phase'[u] = phase[u] /\ fin_pc'[u] = fin_pc[u],
           \A u \in Tx : u \notin rows => terminal'[u] = terminal[u],
           phase'[t] \notin {"Queued", "Running"}, fin_pc'[t] # "none"
    PROVE  TxDecision'
<1>1. t \in admitted
  BY ZenonT(30) DEF TxDecision, rows
<1> SUFFICES ASSUME NEW u \in Tx
             PROVE  /\ u \in rows => u \in admitted
                    /\ u \in undecided => phase'[u] \in {"Queued", "Running"} /\ fin_pc'[u] = "none"
                    /\ u \in rows \ undecided =>
                          phase'[u] \notin {"Queued", "Running"} /\ fin_pc'[u] # "none"
                    /\ u \notin admitted => fin_pc'[u] = "none"
                    /\ u \notin rows => terminal'[u] = "none"
  BY Zenon DEF TxDecision
<1>2. CASE u = t
  BY Zenon, <1>1, <1>2
<1>3. CASE u # t
  BY Zenon, <1>3 DEF TxDecision
<1> QED BY <1>2, <1>3

\* The steps of the tasks keep the invariant.
LEMMA TasksInd ==
    ASSUME TypeOK, IndInv, NEW t \in Tx,
           Coordinator(t) \/ Publisher(t) \/ Finalizer(t) \/ Workers(t)
    PROVE  IndInv'
<1> USE DEF rowVars, queueVars, lapVars, finVars
<1>t. /\ task \in [Task -> TaskState] /\ phase \in [Tx -> Phase] /\ terminal \in [Tx -> KindOrNone]
      /\ completion \in [Tx -> {"caller", "delivery", "row", "finalizer", "sent", "dropped"}]
      /\ fin_pc \in [Tx -> {"none", "yield", "wait", "publish", "done"}]
  BY DEF TypeOK, TaskState
<1>f. \A u \in Tx : <<u, "finalizer">> \in Task
  BY Zenon DEF Task, CoreClass
<1>q. ASSUME UNCHANGED <<state, phase, terminal, completion, fin_pc, stopping, reaped, pc, owner,
                         control_q>>, NoNewCore, FinalizersLive
      PROVE  IndInv'
  <2>1. owner = "held" => NoStopQueued' /\ ReapedDone'
    BY Zenon, <1>q, IndParts DEF NoStopQueued, ReapedDone
  <2>2. pc' = "residual" => stopping'
    BY Zenon, <1>q, IndParts DEF StopInv
  <2> QED BY <1>q, <2>1, <2>2, QuietInd
<1>l. ASSUME NEW k \in Task, k[2] # "finalizer", task[k] # "absent", NEW how, leave(k, how)
      PROVE  NoNewCore /\ FinalizersLive
  BY <1>l, <1>t, <1>f DEF leave, NoNewCore, FinalizersLive
<1>1. ASSUME NEW s \in Session, BindSession(t, s)
      PROVE  IndInv'
  <2>1. NoNewCore /\ FinalizersLive
    BY Zenon, <1>1 DEF BindSession, NoNewCore, FinalizersLive
  <2> QED BY Zenon, <1>1, <1>q, <2>1 DEF BindSession
<1>2. ASSUME NEW kind \in CoordinatorKind, CoordinatorProposes(t, kind)
      PROVE  IndInv'
  <2>1. NoNewCore /\ FinalizersLive
    BY Zenon, <1>2 DEF CoordinatorProposes, NoNewCore, FinalizersLive
  <2> QED BY <1>2, <1>q, <2>1 DEF CoordinatorProposes
<1>c. <<t, "coordinator">> \in Task /\ <<t, "publisher">> \in Task
  BY Zenon DEF Task, CoreClass
<1>3. CASE CoordinatorExits(t)
  <2>1. NoNewCore /\ FinalizersLive
    BY Zenon, <1>3, <1>c, <1>l DEF CoordinatorExits, running
  <2> QED BY <1>3, <1>q, <2>1 DEF CoordinatorExits
<1>4. CASE CoordinatorPanics(t)
  <2>1. NoNewCore /\ FinalizersLive
    BY Zenon, <1>4, <1>c, <1>l DEF CoordinatorPanics, running
  <2> QED BY <1>4, <1>q, <2>1 DEF CoordinatorPanics
<1>5. ASSUME NEW d \in Delivery, PublisherSeals(t, d)
      PROVE  IndInv'
  <2>1. NoNewCore /\ FinalizersLive
    BY Zenon, <1>5, <1>c, <1>l DEF PublisherSeals, running
  <2> QED BY Zenon, <1>5, <1>q, <2>1 DEF PublisherSeals
<1>6. CASE PublisherUnsealed(t)
  <2>1. NoNewCore /\ FinalizersLive
    BY Zenon, <1>6, <1>c, <1>l DEF PublisherUnsealed, running
  <2> QED BY <1>6, <1>q, <2>1 DEF PublisherUnsealed
<1>7. ASSUME NEW w \in Worker, RequestSpawn(t, w)
      PROVE  IndInv'
  <2>1. NoNewCore /\ FinalizersLive
    BY Zenon, <1>7 DEF RequestSpawn, NoNewCore, FinalizersLive
  <2> QED BY Zenon, <1>7, <1>q, <2>1 DEF RequestSpawn
<1>8. ASSUME NEW w \in Worker, WorkerExits(t, w)
      PROVE  IndInv'
  <2>1. <<t, w>> \in Task /\ w # "finalizer"
    BY NamesAssumption DEF Task
  <2>2. NoNewCore /\ FinalizersLive
    BY Zenon, <1>8, <2>1, <1>l DEF WorkerExits, running
  <2> QED BY <1>8, <1>q, <2>2 DEF WorkerExits
<1>p. CoreTaskHasRow /\ TxDecision /\ StopInv
  BY Zenon, IndParts
<1>9. CASE FinalizerSnapshots(t)
  <2>1. /\ fin_pc[t] = "yield" /\ t \in rows /\ phase' = [phase EXCEPT ![t] = "CleanupPending"]
        /\ completion' = [completion EXCEPT ![t] =
                            IF @ \in {"delivery", "row"} THEN "finalizer" ELSE @]
        /\ UNCHANGED <<state, stopping, reaped, pc, owner, control_q, task>>
    BY Zenon, <1>9 DEF FinalizerSnapshots
  <2>2. fin_pc' \in {[fin_pc EXCEPT ![t] = "wait"], [fin_pc EXCEPT ![t] = "publish"]}
    BY <1>9 DEF FinalizerSnapshots, settle
  <2>3. t \notin undecided /\ terminal[t] # "none"
    BY Zenon, <1>p, <2>1 DEF TxDecision, undecided
  <2>4. terminal' = terminal \/ terminal' = [terminal EXCEPT ![t] = "EventDeliveryFailed"]
    <3>1. CASE UNCHANGED terminal
      BY <3>1
    <3>2. ASSUME NEW d, settle(t, terminal[t], d)
          PROVE  terminal' = terminal \/ terminal' = [terminal EXCEPT ![t] = "EventDeliveryFailed"]
      BY Zenon, <3>2 DEF settle, reported_kind
    <3> QED BY Zenon, <1>9, <3>1, <3>2 DEF FinalizerSnapshots
  <2>5. rows' = rows /\ undecided' = undecided
    BY ZenonT(30), <1>t, <2>1, <2>3, <2>4 DEF rows, undecided
  <2>6. admitted' = admitted
    BY Zenon, <1>t, <2>1 DEF admitted
  <2>7. /\ \A u \in Tx : fin_pc'[u] = IF u = t THEN fin_pc'[t] ELSE fin_pc[u]
        /\ fin_pc'[t] \in {"wait", "publish"}
    BY Zenon, <1>t, <2>2
  <2>8. \A u \in Tx : phase'[u] = IF u = t THEN "CleanupPending" ELSE phase[u]
    BY Zenon, <1>t, <2>1
  <2>9. CoreTaskHasRow' /\ StopInv'
    BY Zenon, <1>p, <2>1, <2>5 DEF CoreTaskHasRow, registered, StopInv
  <2>k. \A u \in Tx : u \notin rows => terminal'[u] = terminal[u]
    BY <1>t, <2>1, <2>4
  <2>10. TxDecision'
    <3>1. \A u \in Tx : u # t => phase'[u] = phase[u] /\ fin_pc'[u] = fin_pc[u]
      BY Zenon, <2>7, <2>8
    <3>2. phase'[t] \notin {"Queued", "Running"} /\ fin_pc'[t] # "none"
      BY Zenon, <2>7, <2>8
    <3>3. t \in rows /\ t \notin undecided
      BY Zenon, <2>1, <2>3
    <3> QED BY Zenon, <1>p, <2>5, <2>6, <2>k, <3>1, <3>2, <3>3, DecisionStep
  <2>11. ASSUME owner = "held" PROVE NoStopQueued' /\ ReapedDone' /\ TxCompletion'
    <3>1. NoStopQueued /\ ReapedDone /\ TxCompletion
      BY <2>11, IndParts
    <3>2. \A u \in Tx : completion'[u] = IF u = t THEN "finalizer" ELSE completion[u]
      BY Zenon, <1>t, <2>1, <3>1 DEF TxCompletion
    <3>3. TxCompletion'
      <4>1. task[<<t, "finalizer">>] = "live"
        BY Zenon, <2>1, <3>1 DEF TxCompletion
      <4>2. \A u \in Tx \ {t} : /\ fin_pc'[u] = fin_pc[u] /\ completion'[u] = completion[u]
                                /\ task'[<<u, "finalizer">>] = task[<<u, "finalizer">>]
        BY Zenon, <2>1, <2>7, <3>2
      <4>3. /\ fin_pc'[t] \in {"wait", "publish"} /\ task'[<<t, "finalizer">>] = "live"
            /\ completion'[t] = "finalizer"
        BY Zenon, <2>1, <2>7, <3>2, <4>1
      <4> QED BY Zenon, <2>5, <2>6, <3>1, <4>2, <4>3, CompletionStep
    <3>4. ReapedDone'
      <4> SUFFICES ASSUME NEW r \in reaped, r[1][2] = "finalizer" PROVE fin_pc'[r[1][1]] = "done"
        BY Zenon, <2>1 DEF ReapedDone
      <4>1. r[1][1] \in Tx /\ fin_pc[r[1][1]] = "done"
        BY Zenon, <3>1 DEF ReapedDone, TypeOK, Task
      <4> QED BY Zenon, <2>1, <2>7, <4>1
    <3> QED BY Zenon, <2>1, <3>1, <3>3, <3>4 DEF NoStopQueued
  <2> QED BY Zenon, <2>1, <2>9, <2>10, <2>11, IndParts
<1>10. CASE FinalizerHears(t)
  <2>1. /\ fin_pc[t] = "wait" /\ fin_pc' = [fin_pc EXCEPT ![t] = "publish"]
        /\ UNCHANGED <<state, stopping, reaped, pc, owner, control_q, task, phase, completion>>
    BY <1>10 DEF FinalizerHears, settle
  <2>2. terminal' = terminal \/ (t \in rows /\ terminal' = [terminal EXCEPT ![t] = "EventDeliveryFailed"])
    BY Zenon, <1>10 DEF FinalizerHears, settle, reported_kind
  <2>3. t \notin undecided
    BY Zenon, <1>p, <2>1 DEF TxDecision
  <2>4. rows' = rows /\ undecided' = undecided /\ admitted' = admitted
    BY Zenon, <1>t, <2>1, <2>2, <2>3 DEF rows, undecided, admitted
  <2>5. \A u \in Tx : fin_pc'[u] = IF u = t THEN "publish" ELSE fin_pc[u]
    BY Zenon, <1>t, <2>1
  <2>k. \A u \in Tx : u \notin rows => terminal'[u] = terminal[u]
    BY Zenon, <1>t, <2>2
  <2>6. CoreTaskHasRow' /\ StopInv' /\ TxDecision'
    <3>1. CoreTaskHasRow' /\ StopInv'
      BY Zenon, <1>p, <2>1, <2>4 DEF CoreTaskHasRow, registered, StopInv
    <3>2. t \in rows
      BY Zenon, <1>10, <1>p, FinalizerHasRow DEF FinalizerHears
    <3>3. phase[t] \notin {"Queued", "Running"}
      BY Zenon, <1>p, <2>3, <3>2 DEF TxDecision
    <3>4. \A u \in Tx : u # t => phase'[u] = phase[u] /\ fin_pc'[u] = fin_pc[u]
      BY Zenon, <2>1, <2>5
    <3>5. phase'[t] \notin {"Queued", "Running"} /\ fin_pc'[t] # "none"
      BY <2>1, <2>5, <3>3
    <3> QED BY Zenon, <1>p, <2>3, <2>4, <2>k, <3>1, <3>2, <3>4, <3>5, DecisionStep
  <2>7. ASSUME owner = "held" PROVE NoStopQueued' /\ ReapedDone' /\ TxCompletion'
    <3>1. NoStopQueued /\ ReapedDone /\ TxCompletion
      BY Zenon, <2>7, IndParts
    <3>2. TxCompletion'
      <4>1. task[<<t, "finalizer">>] = "live" /\ completion[t] = "finalizer"
        BY Zenon, <2>1, <3>1 DEF TxCompletion
      <4> QED BY Zenon, <2>1, <2>4, <2>5, <3>1, <4>1, CompletionStep
    <3>3. ReapedDone'
      <4> SUFFICES ASSUME NEW r \in reaped, r[1][2] = "finalizer" PROVE fin_pc'[r[1][1]] = "done"
        BY Zenon, <2>1 DEF ReapedDone
      <4>1. r[1][1] \in Tx /\ fin_pc[r[1][1]] = "done"
        BY Zenon, <3>1 DEF ReapedDone, TypeOK, Task
      <4> QED BY Zenon, <2>1, <2>5, <4>1
    <3> QED BY Zenon, <2>1, <3>1, <3>2, <3>3 DEF NoStopQueued
  <2> QED BY Zenon, <2>1, <2>6, <2>7, IndParts
<1>11. CASE FinalizerPublishes(t)
  <2>1. /\ fin_pc[t] = "publish" /\ fin_pc' = [fin_pc EXCEPT ![t] = "done"]
        /\ completion' = [completion EXCEPT ![t] = IF @ = "finalizer" THEN "sent" ELSE @]
        /\ UNCHANGED <<state, stopping, reaped, pc, owner, control_q, phase, terminal>>
        /\ running(t, "finalizer") /\ leave(<<t, "finalizer">>, "completed")
    BY Zenon, <1>11 DEF FinalizerPublishes
  <2>2. rows' = rows /\ undecided' = undecided /\ admitted' = admitted
    BY Zenon, <1>t, <2>1 DEF rows, undecided, admitted
  <2>3. \A u \in Tx : fin_pc'[u] = IF u = t THEN "done" ELSE fin_pc[u]
    BY Zenon, <1>t, <2>1
  <2>4. NoNewCore /\ \A u \in Tx \ {t} : task'[<<u, "finalizer">>] = task[<<u, "finalizer">>]
    BY <1>t, <1>f, <2>1 DEF leave, running, NoNewCore
  <2>5. t \notin undecided
    BY Zenon, <1>p, <2>1 DEF TxDecision
  <2>6. CoreTaskHasRow' /\ StopInv' /\ TxDecision'
    <3>1. CoreTaskHasRow' /\ StopInv'
      BY Zenon, <1>p, <2>1, <2>2, <2>4 DEF CoreTaskHasRow, registered, NoNewCore, StopInv
    <3>2. t \in rows
      BY Zenon, <1>p, <2>1, FinalizerHasRow
    <3>3. phase[t] \notin {"Queued", "Running"}
      BY Zenon, <1>p, <2>5, <3>2 DEF TxDecision
    <3>4. \A u \in Tx : u # t => phase'[u] = phase[u] /\ fin_pc'[u] = fin_pc[u]
      BY Zenon, <2>1, <2>3
    <3>5. phase'[t] \notin {"Queued", "Running"} /\ fin_pc'[t] # "none"
      BY <2>1, <2>3, <3>3
    <3>6. \A u \in Tx : u \notin rows => terminal'[u] = terminal[u]
      BY Zenon, <2>1
    <3> QED BY Zenon, <1>p, <2>2, <2>5, <3>1, <3>2, <3>4, <3>5, <3>6, DecisionStep
  <2>7. ASSUME owner = "held" PROVE NoStopQueued' /\ ReapedDone' /\ TxCompletion'
    <3>1. NoStopQueued /\ ReapedDone /\ TxCompletion
      BY Zenon, <2>7, IndParts
    <3>2. \A u \in Tx : completion'[u] = IF u = t THEN "sent" ELSE completion[u]
      BY Zenon, <1>t, <2>1, <3>1 DEF TxCompletion
    <3>3. TxCompletion'
      BY Zenon, <2>2, <2>3, <2>4, <3>1, <3>2, CompletionStep
    <3>4. ReapedDone'
      BY Zenon, <2>1, <2>3, <3>1 DEF ReapedDone, TypeOK, Task
    <3> QED BY Zenon, <2>1, <3>1, <3>3, <3>4 DEF NoStopQueued
  <2> QED BY Zenon, <2>1, <2>6, <2>7, IndParts
<1> QED BY Zenon, <1>1, <1>2, <1>3, <1>4, <1>5, <1>6, <1>7, <1>8, <1>9, <1>10, <1>11
        DEF Coordinator, Publisher, Finalizer, Workers

\* The steps of the callers keep the invariant.
LEMMA CallersInd ==
    ASSUME TypeOK, IndInv, Clients \/ Owner
    PROVE  IndInv'
<1> USE DEF rowVars, queueVars, lapVars, finVars
<1>p. CoreTaskHasRow /\ TxDecision /\ StopInv
  BY Zenon, IndParts
<1>a. ASSUME NEW cmd, cmd.op # "StopSupervisor", control_q' \in {control_q, Append(control_q, cmd)}
      PROVE  NoStopQueued => NoStopQueued'
  <2>1. control_q \in Seq(Control)
    BY Zenon DEF TypeOK
  <2>2. Len(control_q) \in Nat /\ DOMAIN control_q = 1..Len(control_q)
    BY <2>1, SeqLen
  <2>3. /\ DOMAIN Append(control_q, cmd) = 1..Len(control_q) + 1
        /\ \A i \in 1..Len(control_q) : Append(control_q, cmd)[i] = control_q[i]
        /\ Append(control_q, cmd)[Len(control_q) + 1] = cmd
    BY <2>2
  <2> QED BY <1>a, <2>2, <2>3 DEF NoStopQueued
<1>q. ASSUME UNCHANGED <<phase, terminal, completion, fin_pc, stopping, reaped, pc, task>>,
             owner' = "held" => owner = "held" /\ (NoStopQueued => NoStopQueued'),
             state' # state => state' # "Accepting"
      PROVE  IndInv'
  <2>1. NoNewCore /\ FinalizersLive
    BY Zenon, <1>q DEF NoNewCore, FinalizersLive
  <2>2. owner' = "held" => NoStopQueued' /\ ReapedDone'
    BY Zenon, <1>q, IndParts DEF ReapedDone
  <2>3. pc' = "residual" => stopping'
    BY Zenon, <1>q, <1>p DEF StopInv
  <2> QED BY <1>q, <2>1, <2>2, <2>3, QuietInd
<1>1. ASSUME NEW t \in Tx, NEW s \in Session \cup {NoSession}, Submit(t, s)
      PROVE  IndInv'
  <2>0. /\ phase \in [Tx -> Phase] /\ terminal \in [Tx -> KindOrNone]
        /\ completion \in [Tx -> {"caller", "delivery", "row", "finalizer", "sent", "dropped"}]
    BY Zenon DEF TypeOK
  <2>1. /\ t \notin admitted /\ state = "Accepting"
        /\ phase' = [phase EXCEPT ![t] = "Queued"]
        /\ completion' = [completion EXCEPT ![t] = "delivery"]
        /\ UNCHANGED <<state, terminal, control_q, pc, stopping, reaped, task, fin_pc, owner>>
    BY Zenon, <1>1 DEF Submit
  <2>2. t \notin rows /\ fin_pc[t] = "none"
    BY Zenon, <1>p, <2>1 DEF TxDecision
  <2>3. /\ \A u \in Tx : phase'[u] = IF u = t THEN "Queued" ELSE phase[u]
        /\ \A u \in Tx : completion'[u] = IF u = t THEN "delivery" ELSE completion[u]
    BY Zenon, <2>0, <2>1
  <2>4. rows' = rows \cup {t} /\ admitted' = admitted \cup {t}
    BY <2>3 DEF rows, admitted
  <2>5. terminal[t] = "none" /\ undecided' = undecided \cup {t}
    BY Zenon, <1>p, <2>1, <2>2, <2>4 DEF undecided, TxDecision
  <2>6. CoreTaskHasRow' /\ StopInv'
    <3>1. ~stopping
      BY Zenon, <1>p, <2>1 DEF StopInv
    <3>2. ~stopping' /\ pc' # "residual"
      BY <1>p, <2>1, <3>1 DEF StopInv
    <3> QED BY Zenon, <1>p, <2>1, <2>4, <3>2 DEF CoreTaskHasRow, registered, StopInv
  <2>7. TxDecision'
    BY ZenonT(30), <1>p, <2>1, <2>2, <2>3, <2>4, <2>5 DEF TxDecision
  <2>8. ASSUME owner = "held" PROVE NoStopQueued' /\ ReapedDone' /\ TxCompletion'
    <3>1. NoStopQueued /\ ReapedDone /\ TxCompletion
      BY Zenon, <2>8, IndParts
    <3>2. ASSUME NEW u \in Tx
          PROVE  /\ u \in rows' <=> u \in rows \/ u = t
                 /\ u \in admitted' <=> u \in admitted \/ u = t
                 /\ u = t => completion'[u] = "delivery" /\ fin_pc'[u] = "none"
                 /\ u # t => completion'[u] = completion[u]
                 /\ fin_pc'[u] = fin_pc[u] /\ task'[<<u, "finalizer">>] = task[<<u, "finalizer">>]
      BY <2>1, <2>2, <2>3, <2>4
    <3>3. TxCompletion'
      <4> SUFFICES ASSUME NEW u \in Tx
                   PROVE  /\ fin_pc'[u] = "none" => task'[<<u, "finalizer">>] = "absent"
                          /\ fin_pc'[u] = "none" /\ u \in admitted' =>
                                u \in rows' /\ completion'[u] \in {"delivery", "row"}
                          /\ fin_pc'[u] \in {"yield", "wait", "publish"} =>
                                task'[<<u, "finalizer">>] = "live"
                          /\ fin_pc'[u] = "yield" => completion'[u] \in {"delivery", "row"}
                          /\ fin_pc'[u] \in {"wait", "publish"} => completion'[u] = "finalizer"
                          /\ fin_pc'[u] = "done" => completion'[u] = "sent"
        BY Zenon DEF TxCompletion
      <4>1. fin_pc'[u] = fin_pc[u] /\ task'[<<u, "finalizer">>] = task[<<u, "finalizer">>]
        BY Zenon, <3>2
      <4>2. CASE u = t
        <5>1. /\ fin_pc'[u] = "none" /\ completion'[u] = "delivery" /\ u \in rows'
              /\ task[<<u, "finalizer">>] = "absent"
          BY Zenon, <2>2, <3>1, <3>2, <4>2 DEF TxCompletion
        <5> QED BY <4>1, <5>1
      <4>3. CASE u # t
        <5>1. completion'[u] = completion[u] /\ (u \in admitted' <=> u \in admitted)
              /\ (u \in rows' <=> u \in rows)
          BY Zenon, <3>2, <4>3
        <5> QED BY Zenon, <3>1, <4>1, <5>1 DEF TxCompletion
      <4> QED BY Zenon, <4>2, <4>3
    <3> QED BY Zenon, <2>1, <3>1, <3>3 DEF NoStopQueued, ReapedDone
  <2> QED BY Zenon, <2>1, <2>6, <2>7, <2>8, IndParts
<1>2. ASSUME NEW t \in Tx, NEW op \in TerminateOp, Terminate(t, op)
      PROVE  IndInv'
  BY <1>2, KindsAssumption, <1>a, <1>q DEF Terminate
<1>3. CASE BeginShutdown
  BY ZenonT(40), <1>3, <1>q DEF BeginShutdown, NoStopQueued
<1>s. BeginShutdownCmd.op # "StopSupervisor"
  BY Zenon DEF BeginShutdownCmd
<1>4. CASE AnnounceShutdown
  BY Zenon, <1>4, <1>s, <1>a, <1>q DEF AnnounceShutdown, try_send
<1>5. CASE WaitStopped
  BY Zenon, <1>5, <1>q DEF WaitStopped, NoStopQueued
<1>6. CASE DropOwner
  BY Zenon, <1>6, <1>q DEF DropOwner
<1>7. CASE DropStops
  BY Zenon, <1>7, <1>q DEF DropStops
<1>8. CASE DropJoins
  BY Zenon, <1>8, <1>q DEF DropJoins
<1> QED BY Zenon, <1>1, <1>2, <1>3, <1>4, <1>5, <1>6, <1>7, <1>8 DEF Clients, Owner

\* Every step keeps the invariant.
LEMMA IndStep ==
    ASSUME TypeOK, IndInv, [Next]_vars
    PROVE  IndInv'
<1>p. CoreTaskHasRow /\ TxDecision /\ StopInv
  BY Zenon, IndParts
<1>1. CASE SelectWake
  <2>1. CASE /\ begin_shutdown_inner /\ task' = shutdown_tasks
             /\ UNCHANGED <<session_key, by_session, completion, queueVars, reaped, proposed,
                            fin_kind, reply, ended, owner>>
    BY ZenonT(30), <2>1, ShutdownInd DEF queueVars, NoStopQueued
  <2> QED BY Zenon, <1>1, <2>1, GotoInd DEF SelectWake
<1>2. ASSUME NEW k \in Task, AbortTakesEffect(k)
      PROVE  IndInv'
  <2>0. /\ completion \in [Tx -> {"caller", "delivery", "row", "finalizer", "sent", "dropped"}]
        /\ task \in [Task -> TaskState] /\ \A t \in Tx : <<t, "finalizer">> \in Task
    BY Zenon DEF TypeOK, TaskState, Task, CoreClass
  <2>1. /\ task[k] = "aborting" /\ at_yield(k) /\ task' = [task EXCEPT ![k] = "cancelled"]
        /\ UNCHANGED <<state, phase, terminal, control_q, pc, stopping, reaped, fin_pc, owner>>
        /\ \A t \in Tx : completion'[t] = IF k = <<t, "finalizer">> /\ completion[t] = "finalizer"
                                          THEN "dropped" ELSE completion[t]
    BY Zenon, <1>2 DEF AbortTakesEffect, queueVars, lapVars
  <2>2. NoNewCore /\ rows' = rows /\ undecided' = undecided /\ admitted' = admitted
    BY Zenon, <2>0, <2>1 DEF NoNewCore, rows, undecided, admitted
  <2>3. CoreTaskHasRow' /\ TxDecision' /\ StopInv'
    BY Zenon, <1>p, <2>1, <2>2 DEF CoreTaskHasRow, registered, NoNewCore, TxDecision, StopInv
  <2>4. ASSUME owner = "held" PROVE NoStopQueued' /\ ReapedDone' /\ TxCompletion'
    <3>1. NoStopQueued /\ ReapedDone /\ TxCompletion
      BY <2>4, IndParts
    <3>2. \A t \in Tx : k # <<t, "finalizer">>
      <4> SUFFICES ASSUME NEW t \in Tx, k = <<t, "finalizer">> PROVE FALSE
        BY Zenon
      <4>1. fin_pc[t] \in {"yield", "wait"}
        BY <2>1 DEF at_yield
      <4> QED BY Zenon, <2>1, <3>1, <4>1 DEF TxCompletion
    <3>3. \A t \in Tx : /\ completion'[t] = completion[t]
                        /\ task'[<<t, "finalizer">>] = task[<<t, "finalizer">>]
      BY Zenon, <2>0, <2>1, <3>2
    <3>4. NoStopQueued' /\ ReapedDone'
      BY Zenon, <2>1, <3>1 DEF NoStopQueued, ReapedDone
    <3>5. UNCHANGED fin_pc /\ rows' = rows /\ admitted' = admitted
      BY Zenon, <2>1, <2>2
    <3>6. TxCompletion'
      BY Zenon, <3>1, <3>3, <3>5 DEF TxCompletion
    <3> QED BY Zenon, <3>4, <3>6
  <2> QED BY <2>1, <2>3, <2>4, IndParts
<1>3. CASE UNCHANGED vars
  <2>1. UNCHANGED <<state, phase, terminal, completion, control_q, pc, stopping, reaped, task, fin_pc, owner>>
    BY <1>3 DEF vars, rowVars, queueVars, lapVars, finVars
  <2>2. NoNewCore /\ FinalizersLive
    BY Zenon, <2>1 DEF NoNewCore, FinalizersLive
  <2>3. owner = "held" => NoStopQueued' /\ ReapedDone'
    BY Zenon, <2>1, IndParts DEF NoStopQueued, ReapedDone
  <2>4. pc' = "residual" => stopping'
    BY Zenon, <1>p, <2>1 DEF StopInv
  <2> QED BY Zenon, <2>1, <2>2, <2>3, <2>4, QuietInd
<1> QED BY Zenon, <1>1, <1>2, <1>3, LapInd, TasksInd, CallersInd DEF Next

\* The inductive invariant holds initially.
LEMMA IndInit == Init => IndInv
<1> SUFFICES ASSUME Init PROVE IndInv
  BY Zenon
<1>1. rows = {} /\ undecided = {} /\ admitted = {} /\ registered = {}
  BY Zenon DEF Init, rows, undecided, admitted, registered
<1>2. \A t \in Tx : fin_pc[t] = "none" /\ terminal[t] = "none" /\ task[<<t, "finalizer">>] = "absent"
  BY DEF Init, Task, CoreClass
<1>3. CoreTaskHasRow
  BY Zenon, <1>1 DEF CoreTaskHasRow
<1>4. DecisionInv
  BY Zenon, <1>1, <1>2 DEF Init, DecisionInv
<1>5. CompletionInv
  BY <1>1, <1>2 DEF Init, CompletionInv
<1> QED BY <1>3, <1>4, <1>5 DEF IndInv

\* The inductive invariant gives NoLostCompletion: a transaction without a row either has
\* a finalizer that is done, or would need a row.
LEMMA IndImplies ==
    ASSUME TypeOK, IndInv
    PROVE  NoLostCompletion
<1> SUFFICES ASSUME owner = "held", NEW t \in admitted \ rows
             PROVE  completion[t] = "sent"
  BY DEF NoLostCompletion
<1>1. t \in Tx /\ <<t, "finalizer">> \in Task
  BY DEF admitted, Task, CoreClass
<1>2. fin_pc[t] \in {"none", "yield", "wait", "publish", "done"}
  BY Zenon, <1>1 DEF TypeOK
<1>3. task[<<t, "finalizer">>] = "absent"
  BY <1>1, IndParts DEF CoreTaskHasRow, registered, CoreClass
<1>4. TxCompletion
  BY Zenon, IndParts
<1> QED BY ZenonT(40), <1>1, <1>2, <1>3, <1>4 DEF TxCompletion

\* The inductive invariant of the runtime holds for every number of transactions.
THEOREM Inductive == Spec => []IndInv
<1>1. TypeOK /\ IndInv /\ [Next]_vars => IndInv'
  BY IndStep
<1> QED BY <1>1, IndInit, TypeCorrect, PTL DEF Spec

\* No coordinator, publisher or finalizer ever runs without the ledger row of its transaction.
THEOREM CoreTasksOwned == Spec => []CoreTaskHasRow
<1>1. IndInv => CoreTaskHasRow
  BY DEF IndInv
<1> QED BY <1>1, Inductive, PTL

\* While the owner is held, a transaction leaves the ledger only after its one completion.
THEOREM CompletionNotLost == Spec => []NoLostCompletion
<1>1. TypeOK /\ IndInv => NoLostCompletion
  BY IndImplies
<1> QED BY <1>1, Inductive, TypeCorrect, PTL
=============================================================================
