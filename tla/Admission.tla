------------------------------ MODULE Admission ------------------------------
(***************************************************************************)
(* admit, step by step, against concurrent admissions, removals and a      *)
(* shutdown.  Callers run admit on their own threads: each atomic of the   *)
(* reservation pool is one step, and so is each part of the section under  *)
(* the ledger's lock.                                                      *)
(*                                                                         *)
(* A call goes through                                                     *)
(*                                                                         *)
(*   idle -> global -> channel -> ledger -> lock -> install -> row         *)
(*                                                                         *)
(* and back through rel_ledger -> rel_channel -> rel_global -> done, where *)
(* it enters at the permit it got last when it is refused.  The supervisor *)
(* and the coordinators are kept to what they do to a row: take its Start, *)
(* bind its session, remove it.                                            *)
(***************************************************************************)
EXTENDS Naturals, Sequences, FiniteSets

CONSTANTS
    Tx,             \* calls of submit, each with the id it generates
    Channel,        \* channels of the runtime
    Session,        \* session ids
    NoTx, NoChannel, NoSession,
    MaxGlobal,      \* TransactionLimits.max_active: max_global, max_ledger, start queue
    MaxChannel,     \* ChannelLimits.max_active_transactions, per channel
    MaxDistinct     \* ChannelLimits.max_distinct_sessions, per channel

\* ReservationPool::try_new refuses a zero capacity.
ASSUME PoolAssumption ==
    /\ MaxGlobal \in Nat \ {0}
    /\ MaxChannel \in [Channel -> Nat \ {0}]
    /\ MaxDistinct \in [Channel -> Nat]

ASSUME AbsentAssumption ==
    /\ NoTx \notin Tx
    /\ NoChannel \notin Channel
    /\ NoSession \notin Session

VARIABLES
    state,          \* RuntimeShared.state
    lock,           \* the call, or the removed row, that holds the ledger's lock
    pc,             \* where each call is
    channel,        \* request.channel_id
    session_key,    \* admit's session_key, then the entry's
    result,         \* what the call returns
    by_session,     \* LifecycleLedger.by_session
    start_q,        \* StartCommand queue
    started,        \* rows whose Start the supervisor has taken
    stopping,       \* the supervisor's local of that name
    snapshot,       \* transaction_ids() as begin_shutdown_inner read them
    global_active, channel_active, ledger_active

poolVars == <<global_active, channel_active, ledger_active>>
callVars == <<channel, session_key, result>>
supervisorVars == <<started, stopping, snapshot>>
vars == <<state, lock, pc, callVars, by_session, start_q, supervisorVars, poolVars>>

Pc == {"idle", "global", "channel", "ledger", "lock", "install", "row",
       "rel_ledger", "rel_channel", "rel_global", "done"}
Result == {"none", "accepted", "RuntimeShuttingDown", "Invalid", "CapacityExceeded",
           "SessionAlreadyActive", "SpawnFailed"}

rows == {t \in Tx : pc[t] = "row"}

\* Who owns a GlobalPermit, a ChannelPermit and a LedgerPermit.
ledger_holders == {t \in Tx : pc[t] \in {"lock", "install", "row", "rel_ledger"}}
pair_holders == ledger_holders \cup {t \in Tx : pc[t] \in {"ledger", "rel_channel"}}
global_holders == pair_holders \cup {t \in Tx : pc[t] \in {"channel", "rel_global"}}
channel_holders(c) == {t \in pair_holders : channel[t] = c}

at(t, from) == pc[t] = from
goes(t, to) == pc' = [pc EXCEPT ![t] = to]
returns(t, r) == result' = [result EXCEPT ![t] = r]

-----------------------------------------------------------------------------
(* ReservationPool.  A compare_exchange loop is one conditional increment. *)

global_full == global_active >= MaxGlobal

\* The calls that find the pool full before they have a permit return at once.
ReserveGlobal(t) ==
    /\ at(t, "global")
    /\ goes(t, IF global_full THEN "done" ELSE "channel")
    /\ global_active' = IF global_full THEN global_active ELSE global_active + 1
    /\ result' = [result EXCEPT ![t] = IF global_full THEN "CapacityExceeded" ELSE @]
    /\ UNCHANGED <<state, lock, channel, session_key, by_session, start_q, supervisorVars,
                   channel_active, ledger_active>>

ReserveChannel(t) ==
    LET full == channel_active[channel[t]] >= MaxChannel[channel[t]] IN
    /\ at(t, "channel")
    /\ goes(t, IF full THEN "rel_global" ELSE "ledger")
    /\ channel_active' = [channel_active EXCEPT ![channel[t]] = IF full THEN @ ELSE @ + 1]
    /\ result' = [result EXCEPT ![t] = IF full THEN "CapacityExceeded" ELSE @]
    /\ UNCHANGED <<state, lock, channel, session_key, by_session, start_q, supervisorVars,
                   global_active, ledger_active>>

ReserveLedger(t) ==
    LET full == ledger_active >= MaxGlobal IN
    /\ at(t, "ledger")
    /\ goes(t, IF full THEN "rel_channel" ELSE "lock")
    /\ ledger_active' = IF full THEN ledger_active ELSE ledger_active + 1
    /\ result' = [result EXCEPT ![t] = IF full THEN "CapacityExceeded" ELSE @]
    /\ UNCHANGED <<state, lock, channel, session_key, by_session, start_q, supervisorVars,
                   global_active, channel_active>>

\* Mutant: the permits are dropped in the order of the fields, the global one first.
release_forward(t) ==
    \/ /\ at(t, "rel_ledger")
       /\ goes(t, "rel_channel")
       /\ global_active' = global_active - 1
       /\ UNCHANGED <<lock, channel_active, ledger_active>>
    \/ /\ at(t, "rel_channel")
       /\ goes(t, "rel_global")
       /\ channel_active' = [channel_active EXCEPT ![channel[t]] = @ - 1]
       /\ UNCHANGED <<lock, global_active, ledger_active>>
    \/ /\ at(t, "rel_global")
       /\ goes(t, "done")
       /\ ledger_active' = ledger_active - 1
       /\ lock' = IF lock = t THEN NoTx ELSE lock
       /\ UNCHANGED <<global_active, channel_active>>

(***************************************************************************)
(* Drop of TransactionReservations: ledger, channel, global.  An entry     *)
(* dropped inside the ledger's lock gives the lock back last.              *)
(***************************************************************************)
release(t) ==
    \/ /\ at(t, "rel_ledger")
       /\ goes(t, "rel_channel")
       /\ ledger_active' = ledger_active - 1
       /\ UNCHANGED <<lock, global_active, channel_active>>
    \/ /\ at(t, "rel_channel")
       /\ goes(t, "rel_global")
       /\ channel_active' = [channel_active EXCEPT ![channel[t]] = @ - 1]
       /\ UNCHANGED <<lock, global_active, ledger_active>>
    \/ /\ at(t, "rel_global")
       /\ goes(t, "done")
       /\ global_active' = global_active - 1
       /\ lock' = IF lock = t THEN NoTx ELSE lock
       /\ UNCHANGED <<channel_active, ledger_active>>

Release(t) ==
    release(t) /\ UNCHANGED <<state, callVars, by_session, start_q, supervisorVars>>

-----------------------------------------------------------------------------
(* admit.                                                                  *)

\* The first look at the state, and the validation of the request.
Call(t, c, s) ==
    /\ at(t, "idle")
    /\ channel' = [channel EXCEPT ![t] = c]
    /\ session_key' = [session_key EXCEPT ![t] = s]
    /\ \/ state # "Accepting" /\ returns(t, "RuntimeShuttingDown") /\ goes(t, "done")
       \/ state = "Accepting" /\ returns(t, "Invalid") /\ goes(t, "done")
       \/ state = "Accepting" /\ UNCHANGED result /\ goes(t, "global")
    /\ UNCHANGED <<state, lock, by_session, start_q, supervisorVars, poolVars>>

\* LifecycleLedger::session_active, and distinct_sessions_on_channel
session_active(c, s) == s # NoSession /\ by_session[<<c, s>>] # NoTx
distinct_sessions(c) == Cardinality({s \in Session : by_session[<<c, s>>] # NoTx})

\* Mutant: the state is not looked at again under the lock.
assume_accepting == TRUE

still_accepting == state = "Accepting"

\* The two checks under the lock.  A refused call unlocks and then drops its permits.
Recheck(t) ==
    /\ at(t, "lock")
    /\ lock = NoTx
    /\ \/ /\ ~still_accepting
          /\ returns(t, "RuntimeShuttingDown")
          /\ goes(t, "rel_ledger")
          /\ UNCHANGED lock
       \/ /\ still_accepting
          /\ session_active(channel[t], session_key[t])
          /\ returns(t, "SessionAlreadyActive")
          /\ goes(t, "rel_ledger")
          /\ UNCHANGED lock
       \/ /\ still_accepting
          /\ ~session_active(channel[t], session_key[t])
          /\ lock' = t
          /\ goes(t, "install")
          /\ UNCHANGED result
    /\ UNCHANGED <<state, channel, session_key, by_session, start_q, supervisorVars, poolVars>>

\* Mutant: the bound on distinct sessions is left to bind_session.
crowded_never(t) == FALSE

crowded(t) ==
    session_key[t] # NoSession /\ distinct_sessions(channel[t]) >= MaxDistinct[channel[t]]

\* What insert_queued writes.
insert(t) ==
    /\ by_session' = [k \in Channel \X Session |->
                        IF k = <<channel[t], session_key[t]>> THEN t ELSE by_session[k]]
    /\ goes(t, "row")
    /\ lock' = NoTx

\* The entry is dropped inside the lock, which is kept until its permits are released.
drop_entry(t) == goes(t, "rel_ledger") /\ UNCHANGED <<lock, by_session>>

\* ledger.remove of the row that was just inserted.
rollback(t) == drop_entry(t)

start_full == Len(start_q) >= MaxGlobal

\* insert_queued and the try_send of Start, still under the lock.
Install(t) ==
    /\ at(t, "install")
    /\ \/ crowded(t) /\ drop_entry(t) /\ returns(t, "CapacityExceeded") /\ UNCHANGED start_q
       \/ /\ ~crowded(t)
          /\ start_full
          /\ rollback(t)
          /\ returns(t, "SpawnFailed")
          /\ UNCHANGED start_q
       \/ /\ ~crowded(t)
          /\ ~start_full
          /\ insert(t)
          /\ start_q' = Append(start_q, t)
          /\ returns(t, "accepted")
    /\ UNCHANGED <<state, channel, session_key, supervisorVars, poolVars>>

Admit(t) ==
    \/ ReserveGlobal(t) \/ ReserveChannel(t) \/ ReserveLedger(t)
    \/ Recheck(t) \/ Install(t) \/ Release(t)

-----------------------------------------------------------------------------
(* What the others do to a row.  Lifecycle says when they do it.           *)

TakeStart ==
    /\ start_q # <<>>
    /\ start_q' = Tail(start_q)
    /\ started' = started \cup {Head(start_q)}
    /\ UNCHANGED <<state, lock, pc, callVars, by_session, stopping, snapshot, poolVars>>

\* The index once t holds the key k instead of the one it had.
rebound(t, k) ==
    [j \in Channel \X Session |->
       IF j = k THEN t ELSE IF j = <<channel[t], session_key[t]>> THEN NoTx ELSE by_session[j]]

\* LifecycleLedger::bind_session, on the channel of the transaction
BindSession(t, s) ==
    /\ at(t, "row")
    /\ lock = NoTx
    /\ by_session[<<channel[t], s>>] = NoTx
    /\ session_key[t] = NoSession => distinct_sessions(channel[t]) < MaxDistinct[channel[t]]
    /\ by_session' = rebound(t, <<channel[t], s>>)
    /\ session_key' = [session_key EXCEPT ![t] = s]
    /\ UNCHANGED <<state, lock, pc, channel, result, start_q, supervisorVars, poolVars>>

\* LifecycleLedger::remove of a tombstone; the entry is dropped inside the lock.
RemoveRow(t) ==
    /\ at(t, "row")
    /\ lock = NoTx
    /\ lock' = t
    /\ goes(t, "rel_ledger")
    /\ by_session' = [k \in Channel \X Session |->
          IF k = <<channel[t], session_key[t]>> /\ by_session[k] = t THEN NoTx ELSE by_session[k]]
    /\ UNCHANGED <<state, callVars, start_q, supervisorVars, poolVars>>

\* begin_shutdown_inner, up to the snapshot it takes of the rows
BeginShutdownInner ==
    /\ lock = NoTx
    /\ state' = "Quiescing"
    /\ stopping' = TRUE
    /\ snapshot' = rows
    /\ UNCHANGED <<lock, pc, callVars, by_session, start_q, started, poolVars>>

\* RuntimeOwner::begin_shutdown takes the ledger's lock to close admission.
BeginShutdown ==
    /\ state = "Accepting"
    /\ lock = NoTx
    /\ state' = "Quiescing"
    /\ UNCHANGED <<lock, pc, callVars, by_session, start_q, supervisorVars, poolVars>>

-----------------------------------------------------------------------------
Init ==
    /\ state = "Accepting"
    /\ lock = NoTx
    /\ pc = [t \in Tx |-> "idle"]
    /\ channel = [t \in Tx |-> NoChannel]
    /\ session_key = [t \in Tx |-> NoSession]
    /\ result = [t \in Tx |-> "none"]
    /\ by_session = [k \in Channel \X Session |-> NoTx]
    /\ start_q = <<>>
    /\ started = {}
    /\ stopping = FALSE
    /\ snapshot = {}
    /\ global_active = 0
    /\ channel_active = [c \in Channel |-> 0]
    /\ ledger_active = 0

Next ==
    \/ \E t \in Tx :
          \/ \E c \in Channel, s \in Session \cup {NoSession} : Call(t, c, s)
          \/ Admit(t)
          \/ \E s \in Session : BindSession(t, s)
          \/ RemoveRow(t)
    \/ TakeStart \/ BeginShutdownInner \/ BeginShutdown

Spec == Init /\ [][Next]_vars

-----------------------------------------------------------------------------
(* Properties.                                                             *)

\* Every variable keeps its type; the start queue stays within its capacity.
TypeOK ==
    /\ state \in {"Accepting", "Quiescing"}
    /\ lock \in Tx \cup {NoTx}
    /\ pc \in [Tx -> Pc]
    /\ channel \in [Tx -> Channel \cup {NoChannel}]
    /\ \A t \in Tx : pc[t] # "idle" => channel[t] \in Channel
    /\ session_key \in [Tx -> Session \cup {NoSession}]
    /\ result \in [Tx -> Result]
    /\ by_session \in [Channel \X Session -> Tx \cup {NoTx}]
    /\ start_q \in Seq(Tx) /\ Len(start_q) \leq MaxGlobal
    /\ started \subseteq Tx
    /\ stopping \in BOOLEAN
    /\ snapshot \subseteq Tx
    /\ global_active \in Nat
    /\ channel_active \in [Channel -> Nat]
    /\ ledger_active \in Nat

\* The counters of the pool are the permits that are out, at every point of every call,
\* refusal, rollback and removal: none is leaked and none is returned twice.
CountersExact ==
    /\ global_active = Cardinality(global_holders)
    /\ ledger_active = Cardinality(ledger_holders)
    /\ \A c \in Channel : channel_active[c] = Cardinality(channel_holders(c))

\* No interleaving of reservations and releases exceeds a capacity.
WithinCapacity ==
    /\ global_active \leq MaxGlobal
    /\ \A c \in Channel : channel_active[c] \leq MaxChannel[c]

\* A call that has its global and its channel permit always finds a ledger slot, because
\* a release gives the ledger slot back first: the third refusal of try_reserve is dead.
LedgerSlotAvailable == \A t \in Tx : at(t, "ledger") => ledger_active < MaxGlobal

\* The supervisor's shutdown sees every row: what it did not snapshot was never admitted.
ShutdownSeesAll == stopping => rows \subseteq snapshot

\* by_session and the rows' session keys are inverse to each other, on every channel.
SessionIndex ==
    /\ \A k \in Channel \X Session : by_session[k] # NoTx =>
          by_session[k] \in rows /\ k = <<channel[by_session[k]], session_key[by_session[k]]>>
    /\ \A t \in rows : session_key[t] # NoSession => by_session[<<channel[t], session_key[t]>>] = t

\* The lock is held by a call about to install its row and by an entry being dropped: what
\* the call checked under the lock still holds when it installs.
LockDiscipline ==
    /\ \A t \in Tx : at(t, "install") =>
          lock = t /\ state = "Accepting" /\ ~session_active(channel[t], session_key[t])
    /\ \A t \in Tx : lock = t => pc[t] \in {"install", "rel_ledger", "rel_channel", "rel_global"}

\* The inductive invariant behind the contract: while the counters are exact, the index is
\* the rows' and the lock is respected, no call can find more room than there is.
AdmissionInv ==
    /\ CountersExact /\ WithinCapacity /\ SessionIndex /\ LockDiscipline
    /\ \A t \in Tx : pc[t] \in {"idle", "global", "channel", "ledger", "lock", "install"} =>
          result[t] # "accepted"
    /\ \A t \in rows : result[t] = "accepted"

\* The contract, read off the rows.
Contract == INSTANCE AdmissionContract WITH
    open <- state = "Accepting",
    accepted <- {t \in Tx : result[t] = "accepted"},
    where <- [t \in Tx |-> IF pc[t] = "row" THEN channel[t] ELSE NoChannel],
    key <- [t \in Tx |-> IF pc[t] = "row" THEN session_key[t] ELSE NoSession]

\* admit, with its pool, its lock and its rollbacks, implements one atomic admission.
ImplementsContract == Contract!Spec
==============================================================================
