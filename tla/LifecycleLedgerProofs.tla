------------------------ MODULE LifecycleLedgerProofs -------------------------
(***************************************************************************)
(* Proofs about the rows of the ledger, for every set of transactions,     *)
(* sessions and workers and every bound.                                   *)
(*                                                                         *)
(* The proposal a coordinator parks on its row is what decides the         *)
(* transaction unless a control or a shutdown does, although the message   *)
(* that carries it may be lost: every step but the proposal itself is one  *)
(* that ParkFrame describes.                                               *)
(*                                                                         *)
(* The session index: a step leaves it alone and removes no row, or it is  *)
(* LifecycleLedger::remove, an admission, or a bind; the lemmas say so and *)
(* take the three one by one.                                              *)
(***************************************************************************)
EXTENDS LifecycleProofs

USE NamesAssumption, BoundsAssumption

-----------------------------------------------------------------------------
(* The proposal a coordinator parked.                                      *)

\* Nobody has proposed an outcome for t.
Untold(t) == pending[t] = "none" /\ \A i \in DOMAIN worker_q : worker_q[i].tx # t

\* A transaction whose coordinator has not proposed has no proposal anywhere, and what is
\* queued for an undecided one is what is parked on its row.
ParkInv ==
    \A t \in Tx :
       /\ t \notin admitted \/ phase[t] = "Queued" =>
             Untold(t) /\ task[<<t, "coordinator">>] = "absent" /\ ~proposed[t]
       /\ t \in undecided /\ running(t, "coordinator") /\ ~proposed[t] => Untold(t)
       /\ t \in undecided =>
             \A i \in DOMAIN worker_q : worker_q[i].tx = t => worker_q[i].kind = pending[t]

\* What a step that proposes nothing does to the row of t: it decides for a parked or
\* queued proposal, for a control or a shutdown, or when nothing is parked.
RowPark(t) ==
    /\ t \notin admitted' => t \notin admitted
    /\ phase'[t] = "Queued" => t \notin admitted \/ phase[t] = "Queued"
    /\ pending'[t] \in {pending[t], "none"}
    /\ t \in undecided' => (t \in undecided \/ t \notin admitted) /\ pending'[t] = pending[t]
    /\ terminal[t] = "none" =>
          \/ terminal'[t] \in {"none", "Cancelled", "Terminated", "RuntimeShutdown"}
          \/ pending[t] \in {"none", terminal'[t]}
          \/ t \in rows /\ \E i \in DOMAIN worker_q :
                              worker_q[i].tx = t /\ worker_q[i].kind = terminal'[t]

\* And to its coordinator, which only handle_start spawns.
CoordPark(t) ==
    /\ proposed'[t] => proposed[t]
    /\ task[<<t, "coordinator">>] = "absent" =>
          task'[<<t, "coordinator">>] = "absent" \/ (phase'[t] = "Running" /\ t \in admitted')
    /\ task'[<<t, "coordinator">>] \in {"live", "aborting"} /\ ~proposed'[t] =>
          phase[t] = "Queued" \/ (running(t, "coordinator") /\ ~proposed[t])

\* Messages are only taken.
MsgsKept == \A i \in DOMAIN worker_q' : \E j \in DOMAIN worker_q : worker_q'[i] = worker_q[j]

ParkFrame == MsgsKept /\ \A t \in Tx : RowPark(t) /\ CoordPark(t)

\* No coordinator is spawned, and none comes back.
CoordKept ==
    \A t \in Tx :
       /\ task[<<t, "coordinator">>] = "absent" => task'[<<t, "coordinator">>] = "absent"
       /\ task'[<<t, "coordinator">>] \in {"live", "aborting"} => running(t, "coordinator")

\* The helpers of the registry spawn no coordinator.
LEMMA CoordHelpers ==
    ASSUME TypeOK
    PROVE  /\ UNCHANGED task => CoordKept
           /\ \A ks : task' = abort(task, ks) => CoordKept
           /\ \A ts : task' = spawned(task, finalizers(ts)) => CoordKept
           /\ \A ks, ts : task' = spawned(abort(task, ks), finalizers(ts)) => CoordKept
           /\ \A ks, ts : task' = abort(spawned(abort(task, ks), finalizers(ts)), Task) => CoordKept
           /\ \A ks \in SUBSET Task : deregister(ks) => CoordKept
           /\ \A k \in Task, how \in Exited :
                 task[k] # "absent" /\ leave(k, how) => CoordKept
<1>k. \A t \in Tx : <<t, "coordinator">> \in Task
  BY DEF Task, CoreClass
<1>f. \A t, ts : <<t, "coordinator">> \notin finalizers(ts)
  BY DEF finalizers
<1>1. UNCHANGED task => CoordKept
  BY DEF CoordKept, running
<1>2. ASSUME NEW ks, task' = abort(task, ks) PROVE CoordKept
  BY Zenon, <1>2, <1>k DEF CoordKept, abort, running
<1>3. ASSUME NEW ts, task' = spawned(task, finalizers(ts)) PROVE CoordKept
  BY Zenon, <1>3, <1>k, <1>f DEF CoordKept, spawned, running
<1>4. ASSUME NEW ks, NEW ts, task' = spawned(abort(task, ks), finalizers(ts)) PROVE CoordKept
  BY Zenon, <1>4, <1>k, <1>f DEF CoordKept, spawned, abort, running
<1>5. ASSUME NEW ks, NEW ts, task' = abort(spawned(abort(task, ks), finalizers(ts)), Task)
      PROVE  CoordKept
  BY Zenon, <1>5, <1>k, <1>f DEF CoordKept, spawned, abort, running
<1>6. ASSUME NEW ks \in SUBSET Task, deregister(ks) PROVE CoordKept
  BY Zenon, <1>6, <1>k DEF CoordKept, deregister, running
<1>7. ASSUME NEW k \in Task, NEW how \in Exited, task[k] # "absent", leave(k, how) PROVE CoordKept
  <2>1. task' = [task EXCEPT ![k] = IF @ = "aborting" /\ how = "completed" THEN "cancelled" ELSE how]
    BY <1>7 DEF leave
  <2>2. task'[k] \notin {"live", "aborting"}
    BY <1>7, <2>1 DEF TypeOK, Exited
  <2>3. \A j \in Task : j # k => task'[j] = task[j]
    BY <2>1 DEF TypeOK
  <2> QED BY Zenon, <1>7, <1>k, <2>2, <2>3 DEF CoordKept, running
<1> QED BY <1>1, <1>2, <1>3, <1>4, <1>5, <1>6, <1>7

\* A step that spawns no coordinator and lets none propose.
LEMMA KeptPark ==
    ASSUME CoordKept, UNCHANGED proposed
    PROVE  \A t \in Tx : CoordPark(t)
BY Zenon DEF CoordKept, CoordPark

\* A step that leaves the rows alone.
LEMMA QuietPark ==
    ASSUME UNCHANGED <<phase, terminal, pending>>, \A t \in Tx : completion'[t] = "caller" <=> completion[t] = "caller"
    PROVE  \A t \in Tx : RowPark(t)
BY DEF RowPark, undecided, rows, admitted

\* What may be decided for an undecided row.
Rightful(t, kind) ==
    /\ kind # "none"
    /\ \/ kind \in {"Cancelled", "Terminated", "RuntimeShutdown"}
       \/ pending[t] \in {"none", kind}
       \/ \E i \in DOMAIN worker_q : worker_q[i].tx = t /\ worker_q[i].kind = kind

\* A rightful decision.
LEMMA DecidePark ==
    ASSUME TypeOK, NEW ts \in SUBSET undecided, NEW kind, decide(ts, kind), UNCHANGED completion,
           \A u \in ts : Rightful(u, kind), NEW t \in Tx
    PROVE  RowPark(t)
<1>1. /\ terminal'[t] = IF t \in ts THEN kind ELSE terminal[t]
      /\ phase'[t] = IF t \in ts THEN "Finalizing" ELSE phase[t]
      /\ pending'[t] = IF t \in ts THEN "none" ELSE pending[t]
      /\ admitted' = admitted
  BY DEF decide, admitted
<1>2. CASE t \notin ts
  <2>1. t \in undecided' <=> t \in undecided
    BY <1>1, <1>2 DEF undecided, rows
  <2> QED BY <1>1, <1>2, <2>1 DEF RowPark
<1>3. CASE t \in ts
  <2>1. t \notin undecided' /\ t \in rows /\ Rightful(t, kind)
    BY <1>1, <1>3 DEF undecided, Rightful
  <2> QED BY <1>1, <1>3, <2>1 DEF RowPark, Rightful
<1> QED BY <1>2, <1>3

\* Removed rows were admitted and stay so.
LEMMA RemovePark ==
    ASSUME TypeOK, NEW ts \in SUBSET Tx, remove(ts), NEW t \in Tx
    PROVE  RowPark(t)
<1>1. /\ phase'[t] = IF t \in ts THEN "Absent" ELSE phase[t]
      /\ terminal'[t] = IF t \in ts THEN "none" ELSE terminal[t]
      /\ pending'[t] = IF t \in ts THEN "none" ELSE pending[t]
      /\ completion'[t] = IF t \in ts /\ completion[t] \in {"delivery", "row"}
                          THEN "dropped" ELSE completion[t]
  BY DEF remove
<1>2. t \in undecided' <=> t \in undecided /\ t \notin ts
  BY <1>1 DEF undecided, rows
<1>3. t \in admitted' <=> t \in admitted
  BY <1>1 DEF admitted
<1> QED BY <1>1, <1>2, <1>3 DEF RowPark

\* accept_terminal of a rightful kind.
LEMMA AcceptPark ==
    ASSUME TypeOK, NEW u \in Tx, NEW kind, NEW force, accept_terminal(u, kind, force),
           Rightful(u, kind), UNCHANGED <<completion, proposed>>
    PROVE  \A t \in Tx : RowPark(t) /\ CoordPark(t)
<1>1. CASE u \notin rows
  BY <1>1, QuietPark, CoordHelpers, KeptPark DEF accept_terminal, decisionVars
<1>2. CASE u \in rows /\ terminal[u] # "none"
  <2>1. later_proposal(u, kind, force)
    BY <1>2 DEF accept_terminal
  <2>2. CoordKept /\ UNCHANGED phase /\ admitted' = admitted
    BY <2>1, CoordHelpers DEF later_proposal, admitted
  <2>3. \A t \in Tx : /\ pending'[t] = IF t = u THEN "none" ELSE pending[t]
                      /\ t # u => terminal'[t] = terminal[t]
                      /\ t = u => terminal'[t] # "none"
    BY Zenon, <1>2, <2>1 DEF later_proposal, TypeOK
  <2>4. \A t \in Tx : t \in undecided' <=> t \in undecided
    BY Zenon, <1>2, <2>2, <2>3 DEF undecided, rows
  <2>5. \A t \in Tx : RowPark(t)
    BY Zenon, <1>2, <2>2, <2>3, <2>4 DEF RowPark, undecided
  <2> QED BY <2>2, <2>5, KeptPark
<1>3. CASE u \in rows /\ terminal[u] = "none"
  <2>1. decide({u}, kind) /\ {u} \in SUBSET undecided /\ task' = spawned(task, finalizers({u}))
    BY <1>3 DEF accept_terminal, undecided
  <2> QED BY <2>1, DecidePark, CoordHelpers, KeptPark
<1> QED BY Zenon, <1>1, <1>2, <1>3

\* What the lap decides on its own account.
LEMMA RightfulKinds ==
    \A t, kind : kind \in {"Cancelled", "Terminated", "RuntimeShutdown"} => Rightful(t, kind)
BY DEF Rightful

\* A worker message is what somebody proposed.
LEMMA HandleWorkerPark ==
    ASSUME TypeOK, NEW next, handle_worker(next)
    PROVE  ParkFrame
<1>1. worker_q \in Seq([tx : Tx, kind : CoordinatorKind]) /\ worker_q # <<>>
  BY DEF handle_worker, TypeOK
<1>2. /\ Head(worker_q) = worker_q[1] /\ 1 \in DOMAIN worker_q
      /\ Head(worker_q) \in [tx : Tx, kind : CoordinatorKind]
  <2>1. Head(worker_q) = worker_q[1]
    BY <1>1
  <2>2. 1 \in DOMAIN worker_q
    BY <1>1, SeqEmpty
  <2>3. Head(worker_q) \in [tx : Tx, kind : CoordinatorKind]
    BY Zenon, <1>1, SeqTail
  <2> QED BY <2>1, <2>2, <2>3
<1>3. Rightful(Head(worker_q).tx, Head(worker_q).kind)
  <2>1. Head(worker_q).kind \in EndKind
    BY <1>2, KindsAssumption
  <2>2. Head(worker_q).kind # "none"
    BY <2>1 DEF EndKind
  <2> QED BY <1>2, <2>2 DEF Rightful
<1>4. MsgsKept
  <2>1. worker_q' = Tail(worker_q)
    BY DEF handle_worker
  <2>2. ASSUME NEW i \in DOMAIN worker_q'
        PROVE  i + 1 \in DOMAIN worker_q /\ worker_q'[i] = worker_q[i + 1]
    BY <1>1, <2>1, <2>2
  <2> QED BY <2>2 DEF MsgsKept
<1>5. /\ accept_terminal(Head(worker_q).tx, Head(worker_q).kind, FALSE)
      /\ UNCHANGED <<completion, proposed>> /\ Head(worker_q).tx \in Tx
  BY Zenon, <1>2 DEF handle_worker
<1> QED BY Zenon, <1>3, <1>4, <1>5, AcceptPark DEF ParkFrame

\* A shutdown decides for itself.
LEMMA ShutdownPark ==
    ASSUME TypeOK, begin_shutdown_inner, UNCHANGED completion
    PROVE  \A t \in Tx : RowPark(t)
<1>1. decide(undecided, "RuntimeShutdown")
  BY DEF begin_shutdown_inner
<1> QED BY <1>1, DecidePark, RightfulKinds

\* So does a command.
LEMMA HandleControlPark ==
    ASSUME TypeOK, NEW next, handle_control(next)
    PROVE  ParkFrame
<1> DEFINE cmd == Head(control_q)
<1>1. cmd \in Control
  BY SeqTail DEF handle_control, TypeOK
<1>2. UNCHANGED <<completion, proposed, worker_q>>
  BY DEF handle_control
<1>m. MsgsKept
  BY <1>2 DEF MsgsKept
<1>3. CASE cmd.op \in {"Cancel", "ForceTerminate"}
  <2>1. cmd.tx \in Tx
    BY <1>1, <1>3 DEF Control
  <2>2. \E force : accept_terminal(cmd.tx, "Cancelled", force) \/ accept_terminal(cmd.tx, "Terminated", force)
    BY Zenon, <1>3 DEF handle_control
  <2> QED BY <1>2, <1>m, <2>1, <2>2, AcceptPark, RightfulKinds DEF ParkFrame
<1>4. CASE cmd.op \in {"BeginShutdown", "StopSupervisor"}
  <2>1. begin_shutdown_inner /\ task' \in {shutdown_tasks, abort(shutdown_tasks, Task)}
    BY Zenon, <1>4 DEF handle_control
  <2>2. CoordKept
    BY <2>1, CoordHelpers DEF shutdown_tasks
  <2> QED BY <1>2, <1>m, <2>1, <2>2, ShutdownPark, KeptPark DEF ParkFrame
<1> QED BY <1>1, <1>3, <1>4 DEF Control

\* An exit recovers the parked proposal, or invents a kind where none is parked.
LEMMA ExitPark ==
    ASSUME TypeOK, NEW k \in Task, NEW how, on_task_exit(k, how), UNCHANGED proposed
    PROVE  \A t \in Tx : RowPark(t) /\ CoordPark(t)
<1>1. CASE missing_terminal(k)
  <2>1. /\ decide({k[1]}, recovered_kind(k[1], how))
        /\ task' = spawned(task, finalizers({k[1]})) /\ UNCHANGED completion
    BY <1>1 DEF on_task_exit
  <2>2. {k[1]} \in SUBSET undecided
    BY <1>1 DEF missing_terminal
  <2>3. Rightful(k[1], recovered_kind(k[1], how))
    BY DEF Rightful, recovered_kind
  <2>4. \A t \in Tx : RowPark(t)
    BY Zenon, <2>1, <2>2, <2>3, DecidePark
  <2> QED BY <2>1, <2>4, CoordHelpers, KeptPark
<1>2. CASE ~missing_terminal(k) /\ tasks_for(k[1]) = {}
  <2>1. remove(tombstones({k[1]})) /\ UNCHANGED <<seal, task, fin_pc>>
    BY <1>2 DEF on_task_exit
  <2>2. tombstones({k[1]}) \in SUBSET Tx
    BY DEF tombstones, Task
  <2> QED BY Zenon, <2>1, <2>2, RemovePark, CoordHelpers, KeptPark
<1>3. CASE ~missing_terminal(k) /\ tasks_for(k[1]) # {}
  <2>1. /\ task' = IF k[2] = "finalizer" THEN abort(task, tasks_for(k[1])) ELSE task
        /\ UNCHANGED <<rowVars, seal, fin_pc>>
    BY <1>3 DEF on_task_exit
  <2>2. \A t \in Tx : RowPark(t)
    BY <2>1, QuietPark DEF rowVars
  <2> QED BY <2>1, <2>2, CoordHelpers, KeptPark
<1> QED BY Zenon, <1>1, <1>2, <1>3

\* handle_start starts the coordinator of a Queued row.
LEMMA HandleStartPark ==
    ASSUME TypeOK, TxDecision, NEW u \in Tx, handle_start(u), UNCHANGED proposed
    PROVE  \A t \in Tx : RowPark(t) /\ CoordPark(t)
<1>1. CASE ~(u \in rows /\ phase[u] = "Queued" /\ completion[u] = "delivery")
  BY <1>1, QuietPark, CoordHelpers, KeptPark DEF handle_start, decisionVars
<1>2. CASE u \in rows /\ phase[u] = "Queued" /\ completion[u] = "delivery"
  <2>1. /\ phase' = [phase EXCEPT ![u] = "Running"]
        /\ completion' = [completion EXCEPT ![u] = "row"]
        /\ task' = spawned(task, {<<u, "publisher">>, <<u, "coordinator">>})
        /\ UNCHANGED <<terminal, pending>>
    BY <1>2 DEF handle_start
  <2>2. \A t \in Tx : /\ t \in undecided' <=> t \in undecided
                      /\ t \in admitted' <=> t \in admitted
                      /\ phase'[t] = "Queued" => phase[t] = "Queued"
    BY Zenon, <1>2, <2>1 DEF undecided, rows, admitted, TypeOK
  <2>3. \A t \in Tx : RowPark(t)
    BY Zenon, <2>1, <2>2 DEF RowPark
  <2>4. \A t \in Tx : <<t, "coordinator">> \in Task
    BY DEF Task, CoreClass
  <2>5. \A t \in Tx \ {u} : task'[<<t, "coordinator">>] = task[<<t, "coordinator">>]
    BY Zenon, <2>1, <2>4 DEF spawned
  <2>6. u \in admitted' /\ phase'[u] = "Running"
    BY Zenon, <2>1 DEF admitted, TypeOK
  <2>7. \A t \in Tx : CoordPark(t)
    BY Zenon, <1>2, <2>5, <2>6 DEF CoordPark, running
  <2> QED BY <2>3, <2>7
<1> QED BY Zenon, <1>1, <1>2

\* A lap proposes nothing.
LEMMA LapPark ==
    ASSUME TypeOK, TxDecision, Lap \/ SelectWake
    PROVE  ParkFrame
<1>r. \A r \in reaped : r[1] \in Task
  BY Zenon DEF TypeOK
<1>m. UNCHANGED worker_q => MsgsKept
  BY DEF MsgsKept
<1>q. ASSUME UNCHANGED <<rowVars, proposed, worker_q>>, CoordKept PROVE ParkFrame
  BY Zenon, <1>q, <1>m, QuietPark, KeptPark DEF ParkFrame, rowVars
<1>g. ASSUME NEW from, NEW to, goto(from, to) PROVE ParkFrame
  BY <1>g, <1>q, CoordHelpers DEF goto, queueVars
<1>e. ASSUME NEW r \in reaped, on_task_exit(r[1], r[2]), UNCHANGED <<proposed, worker_q>> PROVE ParkFrame
  BY Zenon, <1>e, <1>r, <1>m, ExitPark DEF ParkFrame
<1>b. ASSUME begin_shutdown_inner, task' = shutdown_tasks, UNCHANGED <<completion, proposed, worker_q>>
      PROVE  ParkFrame
  BY <1>b, <1>m, ShutdownPark, CoordHelpers, KeptPark DEF ParkFrame, shutdown_tasks
<1>s. ASSUME NEW next, handle_spawn(next) PROVE ParkFrame
  <2>1. Head(spawn_q) \in Tx \X Worker
    BY Zenon, <1>s, SeqTail DEF handle_spawn, TypeOK
  <2>2. \A t \in Tx : <<t, "coordinator">> \in Task /\ <<t, "coordinator">> # Head(spawn_q)
    BY <2>1, NamesAssumption DEF Task, CoreClass
  <2>3. CoordKept
    BY Zenon, <1>s, <2>2 DEF handle_spawn, CoordKept, spawned, running
  <2> QED BY Zenon, <1>s, <1>q, <2>3 DEF handle_spawn
<1>1. CASE DrainWorker \/ DrainControl \/ DrainSpawn \/ SelectControl \/ SelectWorker \/ SelectSpawn
  BY Zenon, <1>1, <1>g, <1>s, HandleWorkerPark, HandleControlPark
     DEF DrainWorker, DrainControl, DrainSpawn, SelectControl, SelectWorker, SelectSpawn
<1>2. CASE Reap
  <2>1. deregister({k \in Task : task[k] \in Exited}) /\ UNCHANGED <<rowVars, proposed, worker_q>>
    BY <1>2 DEF Reap, queueVars
  <2>2. CoordKept
    BY <2>1, CoordHelpers
  <2> QED BY <1>q, <2>1, <2>2
<1>3. CASE HandleExit
  BY <1>3, <1>e DEF HandleExit, queueVars
<1>4. CASE ObserveQuiescing \/ SelectWake
  BY <1>4, <1>b, <1>g DEF ObserveQuiescing, SelectWake, queueVars
<1>5. CASE NothingToStop \/ SelectTick
  BY Zenon, <1>5, <1>g DEF NothingToStop, SelectTick
<1>6. ASSUME NEW grace \in BOOLEAN, Residual(grace) PROVE ParkFrame
  <2>1. PICK ts \in SUBSET Tx : remove(ts)
    BY <1>6 DEF Residual, tombstones, rows
  <2>2. PICK ks : task' = abort(task, ks)
    BY Zenon, <1>6 DEF Residual
  <2>3. UNCHANGED proposed /\ worker_q' \in {<<>>, worker_q}
    BY <1>6 DEF Residual
  <2>4. MsgsKept
    BY <2>3 DEF MsgsKept
  <2> QED BY Zenon, <2>1, <2>2, <2>3, <2>4, RemovePark, CoordHelpers, KeptPark DEF ParkFrame
<1>d. ASSUME NEW k \in Task, deregister({k}) PROVE CoordKept
  BY <1>d, CoordHelpers
<1>7. CASE AbortAndDrain
  BY Zenon, <1>7, <1>d, <1>q, <1>g DEF AbortAndDrain, queueVars
<1>8. CASE SelectJoin
  BY <1>8, <1>d, <1>q DEF SelectJoin, queueVars
<1>9. CASE SelectStart
  <2> DEFINE t == Head(start_q)
  <2>1. t \in Tx
    BY <1>9, SeqTail DEF SelectStart, TypeOK
  <2>2. UNCHANGED proposed /\ MsgsKept
    BY <1>9, <1>m DEF SelectStart
  <2>3. CASE handle_start(t)
    BY Zenon, <2>1, <2>2, <2>3, HandleStartPark DEF ParkFrame
  <2>4. CASE accept_terminal(t, "RuntimeShutdown", FALSE) /\ UNCHANGED completion
    BY Zenon, <2>1, <2>2, <2>4, AcceptPark, RightfulKinds DEF ParkFrame
  <2>5. CASE UNCHANGED <<decisionVars, completion, task>>
    BY Zenon, <2>2, <2>5, QuietPark, CoordHelpers, KeptPark DEF ParkFrame, decisionVars
  <2> QED BY ZenonT(40), <1>9, <2>3, <2>4, <2>5 DEF SelectStart
<1>10. CASE HandleJoined
  BY <1>10, <1>e, HandleWorkerPark DEF HandleJoined, queueVars
<1> QED BY Zenon, <1>1, <1>2, <1>3, <1>4, <1>5, <1>6, <1>7, <1>8, <1>9, <1>10 DEF Lap

\* Every step but a proposal.
LEMMA EveryPark ==
    ASSUME TypeOK, TxDecision, [Next]_vars,
           ~\E t \in Tx, kind \in CoordinatorKind : CoordinatorProposes(t, kind)
    PROVE  ParkFrame
<1>m. UNCHANGED worker_q => MsgsKept
  BY DEF MsgsKept
<1>q. ASSUME UNCHANGED <<phase, terminal, pending, proposed, worker_q>>, CoordKept,
             \A t \in Tx : completion'[t] = "caller" <=> completion[t] = "caller"
      PROVE  ParkFrame
  BY Zenon, <1>q, <1>m, QuietPark, KeptPark DEF ParkFrame
<1>u. ASSUME UNCHANGED <<phase, terminal, pending, proposed, worker_q, completion, task>> PROVE ParkFrame
  BY <1>u, <1>q, CoordHelpers
<1>k. \A t \in Tx, c \in CoreClass \cup Worker : <<t, c>> \in Task
  BY Zenon DEF Task
<1>l. ASSUME NEW t \in Tx, NEW c \in CoreClass \cup Worker, running(t, c), NEW how \in Exited,
             leave(<<t, c>>, how)
      PROVE  CoordKept
  BY <1>l, <1>k, CoordHelpers DEF running
<1>1. ASSUME NEW t \in Tx, Coordinator(t) PROVE ParkFrame
  <2>1. CASE \E s \in Session : BindSession(t, s)
    BY Zenon, <2>1, <1>u DEF BindSession, queueVars
  <2>2. CASE CoordinatorPanics(t)
    <3>1. CoordKept
      BY <2>2, <1>l DEF CoordinatorPanics, Exited, CoreClass
    <3> QED BY Zenon, <2>2, <3>1, <1>q DEF CoordinatorPanics, rowVars, queueVars
  <2>3. CASE CoordinatorExits(t)
    <3>1. CoordKept
      BY <2>3, <1>l DEF CoordinatorExits, Exited, CoreClass
    <3>2. UNCHANGED <<phase, terminal, pending, worker_q, completion>>
      BY Zenon, <2>3 DEF CoordinatorExits, rowVars, queueVars
    <3>3. /\ \A u \in Tx : u # t => proposed'[u] = proposed[u]
          /\ ~proposed'[t]
      BY Zenon, <2>3 DEF CoordinatorExits, TypeOK
    <3>4. task'[<<t, "coordinator">>] \notin {"live", "aborting"}
      BY Zenon, <2>3, <1>k DEF CoordinatorExits, leave, TypeOK, CoreClass
    <3>5. \A u \in Tx : CoordPark(u)
      BY Zenon, <3>1, <3>3, <3>4 DEF CoordPark, CoordKept
    <3> QED BY Zenon, <1>m, <3>2, <3>5, QuietPark DEF ParkFrame
  <2> QED BY Zenon, <1>1, <2>1, <2>2, <2>3 DEF Coordinator
<1>2. ASSUME NEW t \in Tx, Publisher(t) PROVE ParkFrame
  <2>1. running(t, "publisher") /\ leave(<<t, "publisher">>, "completed")
    BY <1>2 DEF Publisher, PublisherSeals, PublisherUnsealed
  <2>2. CoordKept
    BY Zenon, <2>1, <1>l DEF Exited, CoreClass
  <2>3. UNCHANGED <<phase, terminal, pending, proposed, worker_q, completion>>
    BY <1>2 DEF Publisher, PublisherSeals, PublisherUnsealed, rowVars, queueVars
  <2> QED BY Zenon, <2>2, <2>3, <1>q
<1>3. ASSUME NEW t \in Tx, Workers(t) PROVE ParkFrame
  <2>1. PICK w \in Worker : RequestSpawn(t, w) \/ WorkerExits(t, w)
    BY Zenon, <1>3 DEF Workers
  <2>2. CASE RequestSpawn(t, w)
    BY Zenon, <2>2, <1>u DEF RequestSpawn, rowVars
  <2>3. CASE WorkerExits(t, w)
    <3>1. CoordKept
      BY Zenon, <2>3, <1>l DEF WorkerExits, Exited
    <3> QED BY Zenon, <2>3, <3>1, <1>q DEF WorkerExits, rowVars, queueVars
  <2> QED BY <2>1, <2>2, <2>3
<1>4. ASSUME NEW k \in Task, AbortTakesEffect(k) PROVE ParkFrame
  <2>1. /\ UNCHANGED <<phase, terminal, pending, proposed, worker_q>>
        /\ \A t \in Tx : completion'[t] = "caller" <=> completion[t] = "caller"
    BY Zenon, <1>4 DEF AbortTakesEffect, queueVars
  <2>2. task' = [task EXCEPT ![k] = "cancelled"] /\ task[k] = "aborting"
    BY Zenon, <1>4 DEF AbortTakesEffect
  <2>3. CoordKept
    BY Zenon, <2>2, <1>k DEF CoordKept, running, TypeOK, CoreClass
  <2> QED BY Zenon, <2>1, <2>3, <1>q
<1>5. ASSUME NEW t \in Tx, NEW s, Submit(t, s) PROVE ParkFrame
  <2>1. /\ phase' = [phase EXCEPT ![t] = "Queued"] /\ completion' = [completion EXCEPT ![t] = "delivery"]
        /\ UNCHANGED <<terminal, pending, proposed, worker_q, task>> /\ t \notin admitted
    BY Zenon, <1>5 DEF Submit
  <2>2. \A u \in Tx : /\ u \notin admitted' => u \notin admitted
                      /\ phase'[u] = "Queued" => u \notin admitted \/ phase[u] = "Queued"
                      /\ u \in undecided' => u \in undecided \/ u \notin admitted
    BY Zenon, <2>1 DEF undecided, rows, admitted, TypeOK
  <2>3. \A u \in Tx : RowPark(u)
    BY Zenon, <2>1, <2>2 DEF RowPark
  <2> QED BY Zenon, <1>m, <2>1, <2>3, CoordHelpers, KeptPark DEF ParkFrame
<1>6. ASSUME NEW t \in Tx, NEW op, Terminate(t, op) PROVE ParkFrame
  BY Zenon, <1>6, <1>u DEF Terminate, rowVars
<1>7. CASE Owner
  BY <1>7, <1>u DEF Owner, BeginShutdown, AnnounceShutdown, WaitStopped, DropOwner, DropStops,
                    DropJoins, rowVars, queueVars
<1>8. CASE UNCHANGED vars
  BY Zenon, <1>8, <1>u DEF vars, rowVars, queueVars
<1>9. ASSUME NEW t \in Tx, FinalizerPublishes(t) PROVE ParkFrame
  <2>1. CoordKept
    BY <1>9, <1>l DEF FinalizerPublishes, Exited, CoreClass
  <2>2. UNCHANGED <<phase, terminal, pending, proposed, worker_q>>
    BY Zenon, <1>9 DEF FinalizerPublishes, queueVars
  <2>3. \A u \in Tx : completion'[u] = "caller" <=> completion[u] = "caller"
    BY Zenon, <1>9 DEF FinalizerPublishes, TypeOK
  <2> QED BY Zenon, <2>1, <2>2, <2>3, <1>q
<1>10. ASSUME NEW t \in Tx, FinalizerSnapshots(t) \/ FinalizerHears(t) PROVE ParkFrame
  <2>1. fin_pc[t] # "none" /\ UNCHANGED <<pending, proposed, worker_q, task>>
    BY Zenon, <1>10 DEF FinalizerSnapshots, FinalizerHears, queueVars
  <2>t. /\ phase \in [Tx -> Phase] /\ terminal \in [Tx -> KindOrNone]
        /\ completion \in [Tx -> {"caller", "delivery", "row", "finalizer", "sent", "dropped"}]
    BY Zenon DEF TypeOK
  <2>2. /\ \A u \in Tx : u # t => terminal'[u] = terminal[u] /\ phase'[u] = phase[u]
        /\ phase'[t] \in {phase[t], "CleanupPending"}
    BY Zenon, <1>10, <2>t DEF FinalizerSnapshots, FinalizerHears, settle
  <2>3. \A u \in Tx : u \in admitted' <=> u \in admitted
    BY Zenon, <1>10, <2>t DEF FinalizerSnapshots, FinalizerHears, admitted
  <2>4. \/ UNCHANGED terminal
        \/ t \in rows /\ terminal' = [terminal EXCEPT ![t] = "EventDeliveryFailed"]
    BY Zenon, <1>10 DEF FinalizerSnapshots, FinalizerHears, settle, reported_kind
  <2>5. t \in rows => terminal[t] # "none"
    BY Zenon, <2>1 DEF TxDecision, undecided
  <2>6. t \in rows' => t \in rows
    BY Zenon, <1>10 DEF FinalizerSnapshots, FinalizerHears, rows
  <2>7. t \notin undecided'
    BY Zenon, <2>4, <2>5, <2>6 DEF undecided, TypeOK
  <2>8. \A u \in Tx : u # t => (u \in undecided' <=> u \in undecided)
    BY <2>2 DEF undecided, rows
  <2>9. terminal[t] = "none" => UNCHANGED terminal
    BY Zenon, <2>4, <2>5
  <2>10. \A u \in Tx : RowPark(u)
    BY Zenon, <2>1, <2>2, <2>3, <2>7, <2>8, <2>9 DEF RowPark
  <2> QED BY Zenon, <1>m, <2>1, <2>10, CoordHelpers, KeptPark DEF ParkFrame
<1> QED BY Zenon, <1>1, <1>2, <1>3, <1>4, <1>5, <1>6, <1>7, <1>8, <1>9, <1>10, LapPark
        DEF Next, Clients, Finalizer

\* A framed step keeps the invariant.
LEMMA FramePark ==
    ASSUME ParkInv, ParkFrame
    PROVE  ParkInv'
<1> SUFFICES ASSUME NEW t \in Tx
    PROVE  /\ t \notin admitted' \/ phase'[t] = "Queued" =>
                 Untold(t)' /\ task'[<<t, "coordinator">>] = "absent" /\ ~proposed'[t]
           /\ t \in undecided' /\ task'[<<t, "coordinator">>] \in {"live", "aborting"} /\ ~proposed'[t]
                 => Untold(t)'
           /\ t \in undecided' =>
                 \A i \in DOMAIN worker_q' : worker_q'[i].tx = t => worker_q'[i].kind = pending'[t]
  BY Zenon DEF ParkInv, running
<1>0. RowPark(t) /\ CoordPark(t) /\ MsgsKept
  BY Zenon DEF ParkFrame
<1>1. Untold(t) => Untold(t)'
  BY Zenon, <1>0 DEF Untold, RowPark, MsgsKept
<1>2. t \notin admitted \/ phase[t] = "Queued" =>
         Untold(t) /\ task[<<t, "coordinator">>] = "absent" /\ ~proposed[t]
  BY Zenon DEF ParkInv
<1>3. t \notin admitted' \/ phase'[t] = "Queued" => t \notin admitted \/ phase[t] = "Queued"
  BY Zenon, <1>0 DEF RowPark
<1>4. t \notin admitted' \/ phase'[t] = "Queued" =>
         Untold(t)' /\ task'[<<t, "coordinator">>] = "absent" /\ ~proposed'[t]
  BY Zenon, <1>0, <1>1, <1>2, <1>3 DEF CoordPark
<1>5. t \in undecided' => t \in undecided \/ t \notin admitted
  BY Zenon, <1>0 DEF RowPark
<1>6. t \in undecided' /\ task'[<<t, "coordinator">>] \in {"live", "aborting"} /\ ~proposed'[t]
         => Untold(t)'
  BY Zenon, <1>0, <1>1, <1>2, <1>5 DEF CoordPark, ParkInv
<1>7. ASSUME t \in undecided', NEW i \in DOMAIN worker_q', worker_q'[i].tx = t
      PROVE  worker_q'[i].kind = pending'[t]
  <2>1. PICK j \in DOMAIN worker_q : worker_q'[i] = worker_q[j]
    BY Zenon, <1>0 DEF MsgsKept
  <2>2. t \in undecided
    BY Zenon, <1>2, <1>5, <1>7, <2>1 DEF Untold
  <2>3. worker_q[j].tx = t => worker_q[j].kind = pending[t]
    BY Zenon, <2>2 DEF ParkInv
  <2>4. pending'[t] = pending[t]
    BY Zenon, <1>0, <1>7 DEF RowPark
  <2> QED BY Zenon, <1>7, <2>1, <2>3, <2>4
<1> QED BY Zenon, <1>4, <1>6, <1>7

\* A proposal is parked on the row and queued in one step, and is the first for its row.
LEMMA ProposalPark ==
    ASSUME TypeOK, ParkInv, NEW u \in Tx, NEW kind \in CoordinatorKind, CoordinatorProposes(u, kind)
    PROVE  ParkInv'
<1>1. /\ running(u, "coordinator") /\ ~proposed[u]
      /\ proposed' = [proposed EXCEPT ![u] = TRUE]
      /\ pending' = IF u \in rows THEN [pending EXCEPT ![u] = kind] ELSE pending
      /\ worker_q' \in {worker_q, Append(worker_q, [tx |-> u, kind |-> kind])}
      /\ UNCHANGED <<phase, terminal, completion, task>>
  BY Zenon DEF CoordinatorProposes
<1>2. undecided' = undecided /\ admitted' = admitted
  BY Zenon, <1>1 DEF undecided, rows, admitted
<1>3. \A t \in Tx : running(t, "coordinator")' <=> running(t, "coordinator")
  BY Zenon, <1>1 DEF running
<1>4. \A i \in DOMAIN worker_q' :
         \/ i \in DOMAIN worker_q /\ worker_q'[i] = worker_q[i]
         \/ worker_q'[i] = [tx |-> u, kind |-> kind]
  <2> DEFINE msg == [tx |-> u, kind |-> kind]
  <2>1. worker_q \in Seq([tx : Tx, kind : CoordinatorKind]) /\ msg \in [tx : Tx, kind : CoordinatorKind]
    BY Zenon DEF TypeOK
  <2> HIDE DEF msg
  <2>2. \A i \in DOMAIN Append(worker_q, msg) :
           \/ i \in DOMAIN worker_q /\ Append(worker_q, msg)[i] = worker_q[i]
           \/ Append(worker_q, msg)[i] = msg
    BY SMTT(20), <2>1, SeqAppend
  <2> QED BY Zenon, <1>1, <2>2 DEF msg
<1>5. ASSUME NEW t \in Tx, t # u, Untold(t) PROVE Untold(t)'
  BY <1>1, <1>4, <1>5 DEF Untold, TypeOK
<1>6. /\ proposed'[u] /\ (u \in rows => pending'[u] = kind)
      /\ \A t \in Tx : t # u => proposed'[t] = proposed[t] /\ pending'[t] = pending[t]
  BY Zenon, <1>1 DEF TypeOK
<1>7. ~(u \notin admitted \/ phase[u] = "Queued")
  BY Zenon, <1>1 DEF ParkInv, running
<1>8. ASSUME u \in undecided, NEW i \in DOMAIN worker_q', worker_q'[i].tx = u
      PROVE  worker_q'[i].kind = pending'[u]
  <2>1. Untold(u) /\ u \in rows
    BY Zenon, <1>1, <1>8 DEF ParkInv, undecided
  <2>2. worker_q'[i] = [tx |-> u, kind |-> kind]
    BY Zenon, <1>4, <1>8, <2>1 DEF Untold
  <2>3. worker_q'[i].kind = kind
    BY <2>2
  <2> QED BY Zenon, <1>6, <2>1, <2>3
<1>9. ASSUME NEW t \in Tx, t # u, t \in undecided, NEW i \in DOMAIN worker_q', worker_q'[i].tx = t
      PROVE  worker_q'[i].kind = pending'[t]
  <2>1. \A j \in DOMAIN worker_q : worker_q[j].tx = t => worker_q[j].kind = pending[t]
    BY Zenon, <1>9 DEF ParkInv
  <2>2. pending'[t] = pending[t]
    BY Zenon, <1>6, <1>9
  <2>3. worker_q'[i] # [tx |-> u, kind |-> kind]
    BY <1>9
  <2>4. i \in DOMAIN worker_q /\ worker_q'[i] = worker_q[i]
    BY Zenon, <1>4, <1>9, <2>3
  <2> QED BY Zenon, <1>9, <2>1, <2>2, <2>4
<1>10. ASSUME NEW t \in Tx, t \notin admitted' \/ phase'[t] = "Queued"
       PROVE  Untold(t)' /\ task'[<<t, "coordinator">>] = "absent" /\ ~proposed'[t]
  <2>1. t \notin admitted \/ phase[t] = "Queued"
    BY Zenon, <1>1, <1>2, <1>10
  <2>2. Untold(t) /\ task[<<t, "coordinator">>] = "absent" /\ ~proposed[t] /\ t # u
    BY Zenon, <1>7, <2>1 DEF ParkInv
  <2> QED BY Zenon, <1>1, <1>5, <1>6, <2>2
<1>11. ASSUME NEW t \in Tx, t \in undecided', running(t, "coordinator")', ~proposed'[t]
       PROVE  Untold(t)'
  <2>1. t \in undecided /\ running(t, "coordinator") /\ t # u /\ ~proposed[t]
    BY Zenon, <1>2, <1>3, <1>6, <1>11
  <2>2. Untold(t)
    BY Zenon, <2>1 DEF ParkInv
  <2> QED BY Zenon, <1>5, <2>1, <2>2
<1>12. ASSUME NEW t \in Tx, t \in undecided'
       PROVE  \A i \in DOMAIN worker_q' : worker_q'[i].tx = t => worker_q'[i].kind = pending'[t]
  BY <1>2, <1>8, <1>9, <1>12
<1> QED BY Zenon, <1>10, <1>11, <1>12 DEF ParkInv

\* A parked proposal is what the transaction ends with, unless a cancel, a force or the
\* shutdown decided first: no lost message and no order of exits replaces it by a failure
\* that was made up.
THEOREM ProposalStands == Spec => ParkedProposalWins
<1>1. Init => ParkInv
  BY DEF Init, ParkInv, Untold, admitted, undecided, rows, Task, CoreClass
<1>2. TypeOK /\ IndInv /\ ParkInv /\ [Next]_vars => ParkInv'
  BY Zenon, IndParts, EveryPark, FramePark, ProposalPark
<1>3. TypeOK /\ IndInv /\ ParkInv /\ [Next]_vars =>
        [\A t \in Tx : terminal[t] = "none" /\ pending[t] # "none" =>
           terminal'[t] \in {"none", pending[t], "Cancelled", "Terminated", "RuntimeShutdown"}]_vars
  <2> SUFFICES ASSUME TypeOK, IndInv, ParkInv, [Next]_vars, NEW t \in Tx,
                      terminal[t] = "none", pending[t] # "none"
               PROVE  terminal'[t] \in {"none", pending[t], "Cancelled", "Terminated", "RuntimeShutdown"}
    BY Zenon
  <2>1. CASE \E u \in Tx, kind \in CoordinatorKind : CoordinatorProposes(u, kind)
    BY Zenon, <2>1 DEF CoordinatorProposes
  <2>2. CASE ParkFrame
    <3>1. RowPark(t)
      BY Zenon, <2>2 DEF ParkFrame
    <3>2. t \in rows => \A i \in DOMAIN worker_q : worker_q[i].tx = t => worker_q[i].kind = pending[t]
      BY Zenon DEF ParkInv, undecided
    <3> QED BY Zenon, <3>1, <3>2 DEF RowPark
  <2> QED BY Zenon, <2>1, <2>2, IndParts, EveryPark
<1>4. ParkInv /\ TypeOK /\ IndInv /\ [][Next]_vars /\ []TypeOK /\ []IndInv => []ParkInv
  BY <1>2, PTL
<1> QED BY <1>1, <1>3, <1>4, TypeCorrect, Inductive, PTL DEF Spec, ParkedProposalWins

-----------------------------------------------------------------------------
(* The session index.                                                      *)

\* The index is untouched and no row is lost.
IndexKept == UNCHANGED <<session_key, by_session>> /\ rows \subseteq rows'

IndexStep == IndexKept \/ \E ts \in SUBSET Tx : remove(ts)

\* A decision touches no row's existence.
LEMMA DecideKeepsRows ==
    ASSUME NEW ts, NEW kind, decide(ts, kind)
    PROVE  rows \subseteq rows'
BY DEF decide, rows

\* accept_terminal removes no row.
LEMMA AcceptKeepsRows ==
    ASSUME NEW t, NEW kind, NEW force, accept_terminal(t, kind, force)
    PROVE  rows \subseteq rows'
<1>1. CASE UNCHANGED phase
  BY <1>1 DEF rows
<1>2. CASE decide({t}, kind)
  BY <1>2, DecideKeepsRows
<1> QED BY <1>1, <1>2 DEF accept_terminal, later_proposal, decisionVars

\* begin_shutdown_inner removes no row.
LEMMA ShutdownKeepsRows ==
    ASSUME begin_shutdown_inner
    PROVE  rows \subseteq rows'
BY Zenon, DecideKeepsRows DEF begin_shutdown_inner

\* on_task_exit decides, removes the tombstone of its transaction, or leaves the rows.
LEMMA ExitIndex ==
    ASSUME NEW k \in Task, NEW how, on_task_exit(k, how)
    PROVE  IndexStep
<1>1. CASE /\ decide({k[1]}, recovered_kind(k[1], how))
           /\ UNCHANGED <<session_key, by_session>>
  BY <1>1, DecideKeepsRows DEF IndexStep, IndexKept
<1>2. CASE remove(tombstones({k[1]}))
  BY <1>2 DEF IndexStep, tombstones, Task
<1>3. CASE UNCHANGED rowVars
  BY <1>3 DEF IndexStep, IndexKept, rows, rowVars
<1> QED BY Zenon, <1>1, <1>2, <1>3 DEF on_task_exit

\* A lap of the supervisor changes the index only by removing rows.
LEMMA LapIndex ==
    ASSUME TypeOK, Lap \/ SelectWake
    PROVE  IndexStep
<1>r. reaped \subseteq (Task \X Exited)
  BY Zenon DEF TypeOK
<1>g. ASSUME NEW a, NEW b, goto(a, b) PROVE IndexStep
  BY <1>g DEF goto, rowVars, IndexStep, IndexKept, rows
<1>w. ASSUME NEW next, handle_worker(next) PROVE IndexStep
  BY ZenonT(40), <1>w, AcceptKeepsRows DEF handle_worker, IndexStep, IndexKept
<1>c. ASSUME NEW next, handle_control(next) PROVE IndexStep
  BY ZenonT(40), <1>c, AcceptKeepsRows, ShutdownKeepsRows DEF handle_control, IndexStep, IndexKept
<1>s. ASSUME NEW next, handle_spawn(next) PROVE IndexStep
  BY <1>s DEF handle_spawn, rowVars, IndexStep, IndexKept, rows
<1>b. ASSUME begin_shutdown_inner, UNCHANGED <<session_key, by_session>> PROVE IndexStep
  BY Zenon, <1>b, ShutdownKeepsRows DEF IndexStep, IndexKept
<1>u. ASSUME UNCHANGED rowVars PROVE IndexStep
  BY Zenon, <1>u DEF rowVars, IndexStep, IndexKept, rows
<1>1. CASE DrainWorker \/ DrainControl \/ DrainSpawn \/ SelectControl \/ SelectWorker \/ SelectSpawn
  BY Zenon, <1>1, <1>g, <1>w, <1>c, <1>s
     DEF DrainWorker, DrainControl, DrainSpawn, SelectControl, SelectWorker, SelectSpawn
<1>2. CASE Reap \/ SelectJoin
  BY Zenon, <1>2, <1>u DEF Reap, SelectJoin
<1>3. CASE HandleExit
  BY Zenon, <1>3, <1>r, ExitIndex DEF HandleExit
<1>4. CASE ObserveQuiescing \/ SelectWake
  BY <1>4, <1>b, <1>g DEF ObserveQuiescing, SelectWake
<1>5. CASE NothingToStop \/ SelectTick
  BY Zenon, <1>5, <1>g DEF NothingToStop, SelectTick
<1>6. ASSUME NEW grace \in BOOLEAN, Residual(grace) PROVE IndexStep
  BY <1>6 DEF Residual, IndexStep, tombstones, rows
<1>7. CASE AbortAndDrain
  BY <1>7, <1>u, <1>g DEF AbortAndDrain
<1>8. CASE SelectStart
  <2> DEFINE t == Head(start_q)
  <2>1. UNCHANGED <<session_key, by_session>>
    BY Zenon, <1>8 DEF SelectStart
  <2>2. CASE handle_start(t)
    BY <2>1, <2>2 DEF handle_start, IndexStep, IndexKept, rows, decisionVars, TypeOK
  <2>3. CASE accept_terminal(t, "RuntimeShutdown", FALSE)
    BY ZenonT(40), <2>1, <2>3, AcceptKeepsRows DEF IndexStep, IndexKept
  <2>4. CASE UNCHANGED decisionVars
    BY Zenon, <2>1, <2>4 DEF IndexStep, IndexKept, rows, decisionVars
  <2> QED BY ZenonT(40), <1>8, <2>2, <2>3, <2>4 DEF SelectStart
<1>9. CASE HandleJoined
  BY Zenon, <1>9, <1>r, <1>w, ExitIndex DEF HandleJoined
<1> QED BY Zenon, <1>1, <1>2, <1>3, <1>4, <1>5, <1>6, <1>7, <1>8, <1>9 DEF Lap

\* Every step is an index step, an admission or a bind.
LEMMA EveryIndexStep ==
    ASSUME TypeOK, [Next]_vars
    PROVE  \/ IndexStep
           \/ \E t \in Tx, s \in Session \cup {NoSession} : Submit(t, s)
           \/ \E t \in Tx, s \in Session : BindSession(t, s)
<1>u. ASSUME UNCHANGED <<phase, session_key, by_session>> PROVE IndexStep
  BY <1>u DEF IndexStep, IndexKept, rows
<1>1. ASSUME NEW t \in Tx, Coordinator(t)
      PROVE  IndexStep \/ \E s \in Session : BindSession(t, s)
  BY ZenonT(40), <1>1, <1>u DEF Coordinator, CoordinatorProposes, CoordinatorExits, CoordinatorPanics, rowVars
<1>2. ASSUME NEW t \in Tx, Publisher(t) \/ Workers(t) PROVE IndexStep
  BY ZenonT(40), <1>2, <1>u DEF Publisher, Workers, PublisherSeals, PublisherUnsealed, RequestSpawn,
                    WorkerExits, rowVars
<1>3. ASSUME NEW t \in Tx, Finalizer(t) PROVE IndexStep
  <2>1. CASE FinalizerSnapshots(t)
    BY Zenon, <2>1 DEF FinalizerSnapshots, IndexStep, IndexKept, rows, TypeOK
  <2>2. CASE FinalizerHears(t) \/ FinalizerPublishes(t)
    BY Zenon, <2>2, <1>u DEF FinalizerHears, FinalizerPublishes
  <2> QED BY Zenon, <1>3, <2>1, <2>2 DEF Finalizer
<1>4. ASSUME NEW k \in Task, AbortTakesEffect(k) PROVE IndexStep
  BY Zenon, <1>4, <1>u DEF AbortTakesEffect
<1>5. ASSUME NEW t \in Tx, NEW op, Terminate(t, op) PROVE IndexStep
  BY Zenon, <1>5, <1>u DEF Terminate, rowVars
<1>6. CASE Owner
  BY Zenon, <1>6, <1>u DEF Owner, BeginShutdown, AnnounceShutdown, WaitStopped, DropOwner, DropStops,
                    DropJoins, rowVars
<1>7. CASE UNCHANGED vars
  BY Zenon, <1>7, <1>u DEF vars, rowVars
<1> QED BY Zenon, <1>1, <1>2, <1>3, <1>4, <1>5, <1>6, <1>7, LapIndex DEF Next, Clients

-----------------------------------------------------------------------------
\* The types the lemmas below need.
IndexType ==
    /\ phase \in [Tx -> Phase]
    /\ session_key \in [Tx -> Session \cup {NoSession}]
    /\ by_session \in [Session -> Tx \cup {NoTx}]

\* Removing rows keeps the index and the rows' keys inverse to each other.
LEMMA RemoveIndex ==
    ASSUME IndexType, SessionIndex, NEW ts \in SUBSET Tx, remove(ts)
    PROVE  SessionIndex'
<1>1. /\ \A t \in Tx : t \in rows' <=> t \in rows \ ts
      /\ \A t \in Tx : session_key'[t] = IF t \in ts THEN NoSession ELSE session_key[t]
      /\ \A s \in Session : by_session'[s] =
            IF by_session[s] \in ts /\ session_key[by_session[s]] = s THEN NoTx ELSE by_session[s]
  BY Zenon DEF remove, rows
<1>2. ASSUME NEW s \in Session, by_session'[s] # NoTx
      PROVE  by_session'[s] \in rows' /\ session_key'[by_session'[s]] = s
  <2>1. /\ by_session[s] = by_session'[s] /\ by_session[s] \in rows
        /\ session_key[by_session[s]] = s /\ by_session[s] \notin ts
    BY Zenon, <1>1, <1>2 DEF SessionIndex
  <2>2. by_session[s] \in Tx
    BY Zenon, <2>1 DEF rows
  <2> QED BY Zenon, <1>1, <2>1, <2>2
<1>3. ASSUME NEW t \in Tx, session_key'[t] # NoSession
      PROVE  by_session'[session_key'[t]] = t
  <2>1. t \notin ts /\ session_key'[t] = session_key[t] /\ session_key[t] \in Session
    BY <1>1, <1>3 DEF IndexType
  <2>2. by_session[session_key[t]] = t
    BY Zenon, <1>3, <2>1 DEF SessionIndex
  <2> QED BY Zenon, <1>1, <2>1, <2>2
<1> QED BY Zenon, <1>2, <1>3 DEF SessionIndex

\* An admission enters the key of the new row, which no row held.
LEMMA SubmitIndex ==
    ASSUME IndexType, SessionIndex, TxDecision,
           NEW t \in Tx, NEW s \in Session \cup {NoSession}, Submit(t, s)
    PROVE  SessionIndex'
<1>0. t \notin rows
  BY Zenon DEF Submit, TxDecision
<1>1. /\ \A u \in Tx : u \in rows' <=> u \in rows \/ u = t
      /\ \A u \in Tx : session_key'[u] = IF u = t THEN s ELSE session_key[u]
      /\ \A r \in Session : by_session'[r] = IF r = s THEN t ELSE by_session[r]
      /\ s # NoSession => by_session[s] = NoTx
  BY Zenon DEF Submit, rows, IndexType
<1>2. ASSUME NEW r \in Session, by_session'[r] # NoTx
      PROVE  by_session'[r] \in rows' /\ session_key'[by_session'[r]] = r
  <2>1. CASE r = s
    BY Zenon, <1>1, <2>1
  <2>2. CASE r # s
    <3>1. by_session'[r] = by_session[r] /\ by_session[r] \in rows /\ session_key[by_session[r]] = r
      BY Zenon, <1>1, <1>2, <2>2 DEF SessionIndex
    <3>2. by_session[r] \in Tx /\ by_session[r] # t
      BY Zenon, <1>0, <3>1 DEF rows
    <3> QED BY Zenon, <1>1, <3>1, <3>2
  <2> QED BY Zenon, <2>1, <2>2
<1>3. ASSUME NEW u \in Tx, session_key'[u] # NoSession
      PROVE  by_session'[session_key'[u]] = u
  <2>1. CASE u = t
    BY Zenon, <1>1, <1>3, <2>1
  <2>2. CASE u # t
    <3>1. session_key'[u] = session_key[u] /\ session_key[u] \in Session
      BY Zenon, <1>1, <1>3, <2>2 DEF IndexType
    <3>2. by_session[session_key[u]] = u
      BY Zenon, <1>3, <3>1 DEF SessionIndex
    <3>3. session_key[u] # s
      BY <1>1, <3>1, <3>2
    <3> QED BY Zenon, <1>1, <3>1, <3>2, <3>3
  <2> QED BY Zenon, <2>1, <2>2
<1> QED BY Zenon, <1>2, <1>3 DEF SessionIndex

\* A bind enters the new key and releases the one the row held before.
LEMMA BindIndex ==
    ASSUME IndexType, SessionIndex, NEW t \in Tx, NEW s \in Session, BindSession(t, s)
    PROVE  SessionIndex'
<1>1. /\ t \in rows /\ rows' = rows /\ by_session[s] = NoTx
      /\ \A u \in Tx : session_key'[u] = IF u = t THEN s ELSE session_key[u]
      /\ \A r \in Session : by_session'[r] =
            IF r = s THEN t ELSE IF r = session_key[t] THEN NoTx ELSE by_session[r]
  BY Zenon DEF BindSession, rows, IndexType
<1>2. ASSUME NEW r \in Session, by_session'[r] # NoTx
      PROVE  by_session'[r] \in rows' /\ session_key'[by_session'[r]] = r
  <2>1. CASE r = s
    BY Zenon, <1>1, <2>1
  <2>2. CASE r # s
    <3>1. /\ by_session'[r] = by_session[r] /\ by_session[r] \in rows
          /\ session_key[by_session[r]] = r /\ r # session_key[t]
      BY Zenon, <1>1, <1>2, <2>2 DEF SessionIndex
    <3>2. by_session[r] \in Tx /\ by_session[r] # t
      BY Zenon, <3>1 DEF rows
    <3> QED BY Zenon, <1>1, <3>1, <3>2
  <2> QED BY Zenon, <2>1, <2>2
<1>3. ASSUME NEW u \in Tx, session_key'[u] # NoSession
      PROVE  by_session'[session_key'[u]] = u
  <2>1. CASE u = t
    BY Zenon, <1>1, <2>1
  <2>2. CASE u # t
    <3>1. session_key'[u] = session_key[u] /\ session_key[u] \in Session
      BY Zenon, <1>1, <1>3, <2>2 DEF IndexType
    <3>2. by_session[session_key[u]] = u
      BY Zenon, <1>3, <3>1 DEF SessionIndex
    <3>3. session_key[u] # s /\ session_key[u] # session_key[t]
      BY ZenonT(30), <1>1, <2>2, <3>1, <3>2 DEF SessionIndex
    <3> QED BY Zenon, <1>1, <3>1, <3>2, <3>3
  <2> QED BY Zenon, <2>1, <2>2
<1> QED BY Zenon, <1>2, <1>3 DEF SessionIndex

\* One active transaction per session: by_session and the rows' keys are inverse to each
\* other, after any history of admissions, binds and removals.
THEOREM SessionIndexHolds == Spec => []SessionIndex
<1>1. Init => SessionIndex
  BY DEF Init, SessionIndex
<1>2. ASSUME TypeOK, IndInv, SessionIndex, [Next]_vars
      PROVE  SessionIndex'
  <2>t. IndexType /\ TxDecision
    BY <1>2, IndParts DEF TypeOK, IndexType
  <2>1. CASE IndexKept
    BY Zenon, <1>2, <2>1 DEF IndexKept, SessionIndex
  <2>2. CASE \E ts \in SUBSET Tx : remove(ts)
    BY Zenon, <1>2, <2>t, <2>2, RemoveIndex
  <2>3. CASE \E t \in Tx, s \in Session \cup {NoSession} : Submit(t, s)
    BY Zenon, <1>2, <2>t, <2>3, SubmitIndex
  <2>4. CASE \E t \in Tx, s \in Session : BindSession(t, s)
    BY Zenon, <1>2, <2>t, <2>4, BindIndex
  <2> QED BY Zenon, <1>2, <2>1, <2>2, <2>3, <2>4, EveryIndexStep DEF IndexStep
<1> QED BY <1>1, <1>2, TypeCorrect, Inductive, PTL DEF Spec

-----------------------------------------------------------------------------
(* The sessions of the channel, counted.                                   *)

INSTANCE FiniteSetTheorems

bound == {s \in Session : by_session[s] # NoTx}

\* The induction hypothesis for the count: finiteness comes with it.
BoundInv == IsFiniteSet(bound) /\ Cardinality(bound) \leq MaxDistinct

\* Adding one session below the limit keeps the bound.
LEMMA OneMoreSession ==
    ASSUME NEW S, IsFiniteSet(S), Cardinality(S) < MaxDistinct, NEW s
    PROVE  IsFiniteSet(S \cup {s}) /\ Cardinality(S \cup {s}) \leq MaxDistinct
<1>1. Cardinality(S) \in Nat
  BY Zenon, FS_CardinalityType
<1>2. /\ IsFiniteSet(S \cup {s})
      /\ Cardinality(S \cup {s}) = IF s \in S THEN Cardinality(S) ELSE Cardinality(S) + 1
  BY FS_AddElement
<1> QED BY <1>1, <1>2

\* The channel never holds more distinct sessions than its limit: a bind that moves a row
\* to a new key frees the old one, and every other way in is counted.
THEOREM SessionsBounded == Spec => []DistinctSessionsBound
<1>1. Init => BoundInv
  <2> SUFFICES ASSUME Init PROVE BoundInv
    BY Zenon
  <2>1. bound = {}
    BY Zenon DEF Init, bound
  <2> QED BY <2>1, FS_EmptySet DEF BoundInv
<1>2. ASSUME TypeOK, SessionIndex, BoundInv, [Next]_vars
      PROVE  BoundInv'
  <2>t. IndexType
    BY Zenon, <1>2 DEF TypeOK, IndexType
  <2>s. ASSUME bound' \subseteq bound PROVE BoundInv'
    BY SMTT(20), <1>2, <2>s, FS_Subset, FS_CardinalityType DEF BoundInv
  <2>1. CASE IndexKept
    BY Zenon, <2>1, <2>s DEF IndexKept, bound
  <2>2. CASE \E ts \in SUBSET Tx : remove(ts)
    BY Zenon, <2>2, <2>s DEF remove, bound
  <2>3. ASSUME NEW t \in Tx, NEW s \in Session \cup {NoSession}, Submit(t, s)
        PROVE  BoundInv'
    <3>1. CASE s = NoSession
      BY Zenon, <2>3, <2>s, <3>1 DEF Submit, bound
    <3>2. CASE s # NoSession
      <4>1. bound' = bound \cup {s} /\ Cardinality(bound) < MaxDistinct
        BY Zenon, <2>3, <3>2 DEF Submit, bound, distinct_sessions
      <4> QED BY ZenonT(40), <1>2, <4>1, OneMoreSession DEF BoundInv
    <3> QED BY Zenon, <3>1, <3>2
  <2>4. ASSUME NEW t \in Tx, NEW s \in Session, BindSession(t, s)
        PROVE  BoundInv'
    <3>1. CASE session_key[t] = NoSession
      <4>1. bound' = bound \cup {s} /\ Cardinality(bound) < MaxDistinct
        BY Zenon, <2>4, <3>1 DEF BindSession, bound, distinct_sessions
      <4> QED BY Zenon, <1>2, <4>1, OneMoreSession DEF BoundInv
    <3>2. CASE session_key[t] # NoSession
      <4>1. session_key[t] \in Session /\ session_key[t] \in bound
        BY <1>2, <2>t, <3>2 DEF IndexType, SessionIndex, bound
      <4>2. bound' = (bound \ {session_key[t]}) \cup {s}
        BY Zenon, <2>4, <4>1 DEF BindSession, bound
      <4>3. /\ IsFiniteSet(bound \ {session_key[t]})
            /\ Cardinality(bound \ {session_key[t]}) = Cardinality(bound) - 1
            /\ Cardinality(bound) \in Nat
        BY Zenon, <1>2, <4>1, FS_RemoveElement, FS_CardinalityType DEF BoundInv
      <4>4. Cardinality(bound \ {session_key[t]}) < MaxDistinct
        BY <1>2, <4>3 DEF BoundInv
      <4> QED BY ZenonT(40), <4>2, <4>3, <4>4, OneMoreSession DEF BoundInv
    <3> QED BY Zenon, <3>1, <3>2
  <2> QED BY Zenon, <1>2, <2>1, <2>2, <2>3, <2>4, EveryIndexStep DEF IndexStep
<1>3. BoundInv => DistinctSessionsBound
  BY DEF BoundInv, DistinctSessionsBound, bound, distinct_sessions
<1> QED BY <1>1, <1>2, <1>3, TypeCorrect, SessionIndexHolds, PTL DEF Spec
===============================================================================
