--------------------------- MODULE AdmissionProofs ---------------------------
(***************************************************************************)
(* Proofs about Admission, for every set of calls, channels and sessions   *)
(* and for every capacity: the pool's counters are exact, and admit        *)
(* implements AdmissionContract.                                           *)
(***************************************************************************)
EXTENDS Admission, FiniteSetTheorems, TLAPS

USE PoolAssumption, AbsentAssumption

LedgerPc == {"lock", "install", "row", "rel_ledger"}
PairPc == LedgerPc \cup {"ledger", "rel_channel"}
GlobalPc == PairPc \cup {"channel", "rel_global"}

\* What the pool keeps: finitely many permits are out, and the counters count them.
PoolInv ==
    /\ IsFiniteSet(global_holders)
    /\ global_active \in Nat /\ ledger_active \in Nat /\ channel_active \in [Channel -> Nat]
    /\ CountersExact
    /\ WithinCapacity

\* The types of the variables other than the counters.
CallType ==
    /\ state \in {"Accepting", "Quiescing"}
    /\ lock \in Tx \cup {NoTx}
    /\ pc \in [Tx -> Pc]
    /\ channel \in [Tx -> Channel \cup {NoChannel}]
    /\ \A t \in Tx : pc[t] # "idle" => channel[t] \in Channel
    /\ session_key \in [Tx -> Session \cup {NoSession}]
    /\ result \in [Tx -> Result]
    /\ by_session \in [Channel \X Session -> Tx \cup {NoTx}]
    /\ start_q \in Seq(Tx) /\ Len(start_q) \leq MaxGlobal
    /\ started \subseteq Tx
    /\ stopping \in BOOLEAN
    /\ snapshot \subseteq Tx

\* Who is accepted, and since when.
ResultInv ==
    /\ \A t \in Tx : pc[t] \in {"idle", "global", "channel", "ledger", "lock", "install"} =>
          result[t] # "accepted"
    /\ \A t \in rows : result[t] = "accepted"

-----------------------------------------------------------------------------
(* The pool.                                                               *)

\* One call moves: the holders of each permit change by that call at most.
LEMMA PcStep ==
    ASSUME pc \in [Tx -> Pc], NEW t \in Tx, NEW to, goes(t, to)
    PROVE  /\ (pc[t] \in LedgerPc <=> to \in LedgerPc) => ledger_holders' = ledger_holders
           /\ pc[t] \notin LedgerPc /\ to \in LedgerPc =>
                 ledger_holders' = ledger_holders \cup {t} /\ t \notin ledger_holders
           /\ pc[t] \in LedgerPc /\ to \notin LedgerPc =>
                 ledger_holders' = ledger_holders \ {t} /\ t \in ledger_holders
           /\ (pc[t] \in PairPc <=> to \in PairPc) => pair_holders' = pair_holders
           /\ pc[t] \notin PairPc /\ to \in PairPc =>
                 pair_holders' = pair_holders \cup {t} /\ t \notin pair_holders
           /\ pc[t] \in PairPc /\ to \notin PairPc =>
                 pair_holders' = pair_holders \ {t} /\ t \in pair_holders
           /\ (pc[t] \in GlobalPc <=> to \in GlobalPc) => global_holders' = global_holders
           /\ pc[t] \notin GlobalPc /\ to \in GlobalPc =>
                 global_holders' = global_holders \cup {t} /\ t \notin global_holders
           /\ pc[t] \in GlobalPc /\ to \notin GlobalPc =>
                 global_holders' = global_holders \ {t} /\ t \in global_holders
<1>1. \A u \in Tx : pc'[u] = IF u = t THEN to ELSE pc[u]
  BY DEF goes
<1>2. \A u \in Tx : /\ u \in ledger_holders <=> pc[u] \in LedgerPc
                    /\ u \in pair_holders <=> pc[u] \in PairPc
                    /\ u \in global_holders <=> pc[u] \in GlobalPc
  BY DEF ledger_holders, pair_holders, global_holders, LedgerPc, PairPc, GlobalPc
<1>3. \A u \in Tx : /\ u \in ledger_holders' <=> pc'[u] \in LedgerPc
                    /\ u \in pair_holders' <=> pc'[u] \in PairPc
                    /\ u \in global_holders' <=> pc'[u] \in GlobalPc
  BY DEF ledger_holders, pair_holders, global_holders, LedgerPc, PairPc, GlobalPc
<1>4. /\ ledger_holders \subseteq Tx /\ pair_holders \subseteq Tx /\ global_holders \subseteq Tx
      /\ ledger_holders' \subseteq Tx /\ pair_holders' \subseteq Tx
      /\ global_holders' \subseteq Tx
  BY DEF ledger_holders, pair_holders, global_holders
<1> QED BY ZenonT(40), <1>1, <1>2, <1>3, <1>4

\* The sets of holders are finite when those of the global permits are.
LEMMA HoldersFinite ==
    ASSUME IsFiniteSet(global_holders)
    PROVE  /\ IsFiniteSet(ledger_holders) /\ IsFiniteSet(pair_holders)
           /\ \A c \in Channel : IsFiniteSet(channel_holders(c))
<1>1. /\ ledger_holders \in SUBSET global_holders /\ pair_holders \in SUBSET global_holders
      /\ \A c \in Channel : channel_holders(c) \in SUBSET global_holders
  BY DEF global_holders, pair_holders, channel_holders
<1> QED BY <1>1, FS_Subset

\* A step that leaves the counters and the holders alone.
LEMMA QuietPool ==
    ASSUME PoolInv, UNCHANGED poolVars,
           ledger_holders' = ledger_holders, pair_holders' = pair_holders,
           global_holders' = global_holders,
           \A t \in pair_holders : channel'[t] = channel[t]
    PROVE  PoolInv'
<1>1. \A c \in Channel : channel_holders(c)' = channel_holders(c)
  BY DEF channel_holders
<1> QED BY <1>1 DEF PoolInv, CountersExact, WithinCapacity, poolVars

\* A step of one call between two points at which it holds the same permits.
LEMMA QuietStep ==
    ASSUME PoolInv, pc \in [Tx -> Pc], NEW t \in Tx, NEW to, goes(t, to),
           UNCHANGED <<poolVars, channel>>,
           pc[t] \in LedgerPc <=> to \in LedgerPc,
           pc[t] \in PairPc <=> to \in PairPc,
           pc[t] \in GlobalPc <=> to \in GlobalPc
    PROVE  PoolInv'
<1>1. /\ ledger_holders' = ledger_holders /\ pair_holders' = pair_holders
      /\ global_holders' = global_holders
  BY PcStep
<1> QED BY <1>1, QuietPool

\* try_reserve takes its permits one by one and never beyond a capacity.
LEMMA ReservePool ==
    ASSUME PoolInv, CallType, NEW t \in Tx,
           ReserveGlobal(t) \/ ReserveChannel(t) \/ ReserveLedger(t)
    PROVE  PoolInv'
<1> DEFINE c == channel[t]
<1>p. pc \in [Tx -> Pc]
  BY DEF CallType
<1>f. IsFiniteSet(global_holders)
  BY DEF PoolInv
<1>1. CASE ReserveGlobal(t)
  <2>1. CASE global_full
    <3>1. goes(t, "done") /\ pc[t] = "global" /\ UNCHANGED <<poolVars, channel>>
      BY <1>1, <2>1 DEF ReserveGlobal, at, poolVars
    <3> QED BY <1>p, <3>1, QuietStep DEF LedgerPc, PairPc, GlobalPc
  <2>2. CASE ~global_full
    <3>1. /\ goes(t, "channel") /\ pc[t] = "global" /\ global_active' = global_active + 1
          /\ UNCHANGED <<channel_active, ledger_active, channel>>
      BY <1>1, <2>2 DEF ReserveGlobal, at
    <3>2. /\ ledger_holders' = ledger_holders /\ pair_holders' = pair_holders
          /\ global_holders' = global_holders \cup {t} /\ t \notin global_holders
      BY <1>p, <3>1, PcStep DEF LedgerPc, PairPc, GlobalPc
    <3>3. /\ IsFiniteSet(global_holders')
          /\ Cardinality(global_holders') = Cardinality(global_holders) + 1
      BY <1>f, <3>2, FS_AddElement
    <3>4. \A d \in Channel : channel_holders(d)' = channel_holders(d)
      BY <3>1, <3>2 DEF channel_holders
    <3>5. global_active + 1 \leq MaxGlobal
      BY <2>2 DEF global_full, PoolInv
    <3> QED BY <3>1, <3>2, <3>3, <3>4, <3>5 DEF PoolInv, CountersExact, WithinCapacity
  <2> QED BY Zenon, <2>1, <2>2
<1>2. CASE ReserveChannel(t)
  <2>0. c \in Channel
    BY <1>2 DEF ReserveChannel, at, CallType
  <2>1. CASE channel_active[c] >= MaxChannel[c]
    <3>1. goes(t, "rel_global") /\ pc[t] = "channel" /\ UNCHANGED <<poolVars, channel>>
      BY <1>2, <2>0, <2>1 DEF ReserveChannel, at, poolVars, PoolInv
    <3> QED BY <1>p, <3>1, QuietStep DEF LedgerPc, PairPc, GlobalPc
  <2>2. CASE ~(channel_active[c] >= MaxChannel[c])
    <3>1. /\ goes(t, "ledger") /\ pc[t] = "channel"
          /\ channel_active' = [channel_active EXCEPT ![c] = @ + 1]
          /\ UNCHANGED <<global_active, ledger_active, channel>>
      BY <1>2, <2>2 DEF ReserveChannel, at
    <3>2. /\ ledger_holders' = ledger_holders /\ global_holders' = global_holders
          /\ pair_holders' = pair_holders \cup {t} /\ t \notin pair_holders
      BY <1>p, <3>1, PcStep DEF LedgerPc, PairPc, GlobalPc
    <3>3. /\ channel_holders(c)' = channel_holders(c) \cup {t} /\ t \notin channel_holders(c)
          /\ \A d \in Channel \ {c} : channel_holders(d)' = channel_holders(d)
      BY <3>1, <3>2 DEF channel_holders
    <3>4. Cardinality(channel_holders(c)') = Cardinality(channel_holders(c)) + 1
      BY ZenonT(40), <1>f, <2>0, <3>3, HoldersFinite, FS_AddElement
    <3>5. channel_active[c] + 1 \leq MaxChannel[c] /\ channel_active[c] \in Nat
      BY <2>0, <2>2 DEF PoolInv
    <3>6. \A d \in Channel : /\ channel_active'[d] = Cardinality(channel_holders(d)')
                             /\ channel_active'[d] \leq MaxChannel[d]
      BY Zenon, <2>0, <3>1, <3>3, <3>4, <3>5 DEF PoolInv, CountersExact, WithinCapacity
    <3>7. channel_active' \in [Channel -> Nat]
      BY <2>0, <3>1, <3>5 DEF PoolInv
    <3> QED BY <3>1, <3>2, <3>6, <3>7 DEF PoolInv, CountersExact, WithinCapacity
  <2> QED BY Zenon, <2>1, <2>2
<1>3. CASE ReserveLedger(t)
  <2>1. CASE ledger_active >= MaxGlobal
    <3>1. goes(t, "rel_channel") /\ pc[t] = "ledger" /\ UNCHANGED <<poolVars, channel>>
      BY <1>3, <2>1 DEF ReserveLedger, at, poolVars
    <3> QED BY <1>p, <3>1, QuietStep DEF LedgerPc, PairPc, GlobalPc
  <2>2. CASE ~(ledger_active >= MaxGlobal)
    <3>1. /\ goes(t, "lock") /\ pc[t] = "ledger" /\ ledger_active' = ledger_active + 1
          /\ UNCHANGED <<global_active, channel_active, channel>>
      BY <1>3, <2>2 DEF ReserveLedger, at
    <3>2. /\ pair_holders' = pair_holders /\ global_holders' = global_holders
          /\ ledger_holders' = ledger_holders \cup {t} /\ t \notin ledger_holders
      BY <1>p, <3>1, PcStep DEF LedgerPc, PairPc, GlobalPc
    <3>3. Cardinality(ledger_holders') = Cardinality(ledger_holders) + 1
      BY ZenonT(40), <1>f, <3>2, HoldersFinite, FS_AddElement
    <3>4. \A d \in Channel : channel_holders(d)' = channel_holders(d)
      BY <3>1, <3>2 DEF channel_holders
    <3> QED BY <3>1, <3>2, <3>3, <3>4 DEF PoolInv, CountersExact, WithinCapacity
  <2> QED BY Zenon, <2>1, <2>2
<1> QED BY <1>1, <1>2, <1>3

\* A release gives back what the call holds, once.
LEMMA ReleasePool ==
    ASSUME PoolInv, CallType, NEW t \in Tx, Release(t)
    PROVE  PoolInv'
<1> DEFINE c == channel[t]
<1>p. pc \in [Tx -> Pc] /\ UNCHANGED channel
  BY DEF CallType, Release, callVars
<1>f. IsFiniteSet(global_holders)
  BY DEF PoolInv
<1>1. CASE /\ at(t, "rel_ledger") /\ goes(t, "rel_channel") /\ ledger_active' = ledger_active - 1
           /\ UNCHANGED <<lock, global_active, channel_active>>
  <2>1. /\ pair_holders' = pair_holders /\ global_holders' = global_holders
        /\ ledger_holders' = ledger_holders \ {t} /\ t \in ledger_holders
    BY <1>p, <1>1, PcStep DEF at, LedgerPc, PairPc, GlobalPc
  <2>2. /\ Cardinality(ledger_holders') = Cardinality(ledger_holders) - 1
        /\ Cardinality(ledger_holders') \in Nat
    <3>1. IsFiniteSet(ledger_holders)
      BY <1>f, HoldersFinite
    <3> QED BY <2>1, <3>1, FS_RemoveElement, FS_CardinalityType
  <2>3. \A d \in Channel : channel_holders(d)' = channel_holders(d)
    BY <1>p, <2>1 DEF channel_holders
  <2> QED BY <1>1, <2>1, <2>2, <2>3 DEF PoolInv, CountersExact, WithinCapacity
<1>2. CASE /\ at(t, "rel_channel") /\ goes(t, "rel_global")
           /\ channel_active' = [channel_active EXCEPT ![c] = @ - 1]
           /\ UNCHANGED <<lock, global_active, ledger_active>>
  <2>0. c \in Channel
    BY <1>2 DEF at, CallType
  <2>1. /\ ledger_holders' = ledger_holders /\ global_holders' = global_holders
        /\ pair_holders' = pair_holders \ {t} /\ t \in pair_holders
    BY <1>p, <1>2, PcStep DEF at, LedgerPc, PairPc, GlobalPc
  <2>2. /\ channel_holders(c)' = channel_holders(c) \ {t} /\ t \in channel_holders(c)
        /\ \A d \in Channel \ {c} : channel_holders(d)' = channel_holders(d)
    BY <1>p, <2>1 DEF channel_holders
  <2>3. /\ Cardinality(channel_holders(c)') = Cardinality(channel_holders(c)) - 1
        /\ Cardinality(channel_holders(c)') \in Nat
    <3>1. IsFiniteSet(channel_holders(c))
      BY <1>f, <2>0, HoldersFinite
    <3> HIDE DEF c
    <3> QED BY <2>2, <3>1, FS_RemoveElement, FS_CardinalityType
  <2>4. \A d \in Channel : /\ channel_active'[d] = Cardinality(channel_holders(d)')
                           /\ channel_active'[d] \in Nat
                           /\ channel_active'[d] \leq MaxChannel[d]
    <3>1. /\ channel_active \in [Channel -> Nat]
          /\ \A d \in Channel : /\ channel_active[d] = Cardinality(channel_holders(d))
                               /\ channel_active[d] \leq MaxChannel[d]
      BY DEF PoolInv, CountersExact, WithinCapacity
    <3>2. channel_active'[c] = channel_active[c] - 1
      BY <1>2, <2>0, <3>1
    <3>3. \A d \in Channel \ {c} : channel_active'[d] = channel_active[d]
      BY <1>2, <3>1
    <3>4. /\ channel_active'[c] = Cardinality(channel_holders(c)')
          /\ channel_active'[c] \in Nat
          /\ channel_active'[c] \leq MaxChannel[c]
      BY <2>0, <2>3, <3>1, <3>2
    <3>5. ASSUME NEW d \in Channel, d # c
          PROVE  /\ channel_active'[d] = Cardinality(channel_holders(d)')
                 /\ channel_active'[d] \in Nat
                 /\ channel_active'[d] \leq MaxChannel[d]
      BY <2>2, <3>1, <3>3, <3>5
    <3> QED BY Zenon, <1>p, <3>4, <3>5
  <2>5. channel_active' \in [Channel -> Nat]
    <3>1. channel_active[c] - 1 \in Nat /\ channel_active \in [Channel -> Nat]
      BY <1>2, <2>0, <2>4 DEF PoolInv
    <3> QED BY <1>2, <2>0, <3>1
  <2> QED BY <1>2, <2>1, <2>4, <2>5 DEF PoolInv, CountersExact, WithinCapacity
<1>3. CASE /\ at(t, "rel_global") /\ goes(t, "done") /\ global_active' = global_active - 1
           /\ UNCHANGED <<channel_active, ledger_active>>
  <2>1. /\ ledger_holders' = ledger_holders /\ pair_holders' = pair_holders
        /\ global_holders' = global_holders \ {t} /\ t \in global_holders
    BY <1>p, <1>3, PcStep DEF at, LedgerPc, PairPc, GlobalPc
  <2>2. /\ Cardinality(global_holders') = Cardinality(global_holders) - 1
        /\ Cardinality(global_holders') \in Nat /\ IsFiniteSet(global_holders')
    BY <1>f, <2>1, FS_RemoveElement, FS_CardinalityType
  <2>3. \A d \in Channel : channel_holders(d)' = channel_holders(d)
    BY <1>p, <2>1 DEF channel_holders
  <2> QED BY <1>3, <2>1, <2>2, <2>3 DEF PoolInv, CountersExact, WithinCapacity
<1> QED BY <1>1, <1>2, <1>3 DEF Release, release

\* Every step keeps the counters exact and within their capacities.
LEMMA PoolStep ==
    ASSUME PoolInv, CallType, [Next]_vars
    PROVE  PoolInv'
<1>p. pc \in [Tx -> Pc]
  BY DEF CallType
<1>q. ASSUME UNCHANGED <<pc, channel, poolVars>>
      PROVE  PoolInv'
  BY <1>q, QuietPool DEF ledger_holders, pair_holders, global_holders
<1>1. ASSUME NEW t \in Tx, NEW c, NEW s, Call(t, c, s)
      PROVE  PoolInv'
  <2>1. /\ pc[t] = "idle" /\ (goes(t, "done") \/ goes(t, "global")) /\ UNCHANGED poolVars
        /\ channel' = [channel EXCEPT ![t] = c]
    BY Zenon, <1>1 DEF Call, at
  <2>2. /\ ledger_holders' = ledger_holders /\ pair_holders' = pair_holders
        /\ global_holders' = global_holders
    BY <1>p, <2>1, PcStep DEF LedgerPc, PairPc, GlobalPc
  <2>3. \A u \in pair_holders : channel'[u] = channel[u]
    BY <2>1 DEF pair_holders, ledger_holders, CallType
  <2> QED BY <2>1, <2>2, <2>3, QuietPool
<1>2. ASSUME NEW t \in Tx, ReserveGlobal(t) \/ ReserveChannel(t) \/ ReserveLedger(t)
      PROVE  PoolInv'
  BY <1>2, ReservePool
<1>3. ASSUME NEW t \in Tx, Recheck(t)
      PROVE  PoolInv'
  <2>1. pc[t] = "lock" /\ (goes(t, "rel_ledger") \/ goes(t, "install"))
        /\ UNCHANGED <<poolVars, channel>>
    BY Zenon, <1>3 DEF Recheck, at
  <2> QED BY <1>p, <2>1, QuietStep DEF LedgerPc, PairPc, GlobalPc
<1>4. ASSUME NEW t \in Tx, Install(t)
      PROVE  PoolInv'
  <2>1. pc[t] = "install" /\ (goes(t, "rel_ledger") \/ goes(t, "row"))
        /\ UNCHANGED <<poolVars, channel>>
    BY <1>4 DEF Install, at, drop_entry, rollback, insert
  <2> QED BY <1>p, <2>1, QuietStep DEF LedgerPc, PairPc, GlobalPc
<1>5. ASSUME NEW t \in Tx, Release(t)
      PROVE  PoolInv'
  BY <1>5, ReleasePool
<1>6. ASSUME NEW t \in Tx, RemoveRow(t)
      PROVE  PoolInv'
  <2>1. pc[t] = "row" /\ goes(t, "rel_ledger") /\ UNCHANGED <<poolVars, channel>>
    BY <1>6 DEF RemoveRow, at, callVars
  <2> QED BY <1>p, <2>1, QuietStep DEF LedgerPc, PairPc, GlobalPc
<1>7. ASSUME NEW t \in Tx, NEW s \in Session, BindSession(t, s)
      PROVE  PoolInv'
  BY <1>7, <1>q DEF BindSession
<1>8. CASE TakeStart \/ BeginShutdownInner \/ BeginShutdown \/ UNCHANGED vars
  BY <1>8, <1>q DEF TakeStart, BeginShutdownInner, BeginShutdown, vars, callVars
<1> QED BY Zenon, <1>1, <1>2, <1>3, <1>4, <1>5, <1>6, <1>7, <1>8 DEF Next, Admit

-----------------------------------------------------------------------------
(* The types.                                                              *)

\* A call moves, and its result changes at most.
LEMMA MoveType ==
    ASSUME CallType, NEW t \in Tx, pc[t] # "idle", NEW to \in Pc \ {"idle"}, goes(t, to),
           UNCHANGED <<state, channel, session_key, by_session, start_q, supervisorVars>>,
           lock' \in Tx \cup {NoTx}, NEW r \in Result,
           result' = result \/ result' = [result EXCEPT ![t] = r]
    PROVE  CallType'
<1>1. pc' \in [Tx -> Pc] /\ \A u \in Tx : pc'[u] # "idle" => channel'[u] \in Channel
  BY DEF CallType, goes
<1>2. result' \in [Tx -> Result]
  BY ZenonT(40) DEF CallType
<1> QED BY <1>1, <1>2 DEF CallType, supervisorVars

\* The steps of admit keep the types.
LEMMA AdmitType ==
    ASSUME CallType, NEW t \in Tx, Admit(t)
    PROVE  CallType'
<1>r. /\ {"CapacityExceeded", "RuntimeShuttingDown", "SessionAlreadyActive", "SpawnFailed",
          "accepted"} \subseteq Result
      /\ {"done", "channel", "ledger", "lock", "install", "row", "rel_ledger", "rel_channel",
          "rel_global"} \subseteq Pc \ {"idle"}
      /\ lock \in Tx \cup {NoTx} /\ NoTx \in Tx \cup {NoTx} /\ t \in Tx \cup {NoTx}
      /\ result = [result EXCEPT ![t] = @]
  BY DEF Result, Pc, CallType
<1>1. CASE ReserveGlobal(t)
  <2>1. /\ pc[t] # "idle" /\ (goes(t, "done") \/ goes(t, "channel"))
        /\ result' = result \/ result' = [result EXCEPT ![t] = "CapacityExceeded"]
        /\ UNCHANGED <<lock, state, channel, session_key, by_session, start_q, supervisorVars>>
    BY ZenonT(40), <1>1, <1>r DEF ReserveGlobal, at
  <2> QED BY <1>r, <2>1, MoveType
<1>2. CASE ReserveChannel(t)
  <2>1. /\ pc[t] # "idle" /\ (goes(t, "rel_global") \/ goes(t, "ledger"))
        /\ result' = result \/ result' = [result EXCEPT ![t] = "CapacityExceeded"]
        /\ UNCHANGED <<lock, state, channel, session_key, by_session, start_q, supervisorVars>>
    BY ZenonT(40), <1>2, <1>r DEF ReserveChannel, at
  <2> QED BY <1>r, <2>1, MoveType
<1>3. CASE ReserveLedger(t)
  <2>1. /\ pc[t] # "idle" /\ (goes(t, "rel_channel") \/ goes(t, "lock"))
        /\ result' = result \/ result' = [result EXCEPT ![t] = "CapacityExceeded"]
        /\ UNCHANGED <<lock, state, channel, session_key, by_session, start_q, supervisorVars>>
    BY ZenonT(40), <1>3, <1>r DEF ReserveLedger, at
  <2> QED BY <1>r, <2>1, MoveType
<1>4. CASE Recheck(t)
  <2>1. /\ pc[t] # "idle" /\ (goes(t, "rel_ledger") \/ goes(t, "install"))
        /\ \/ result' = result \/ result' = [result EXCEPT ![t] = "RuntimeShuttingDown"]
           \/ result' = [result EXCEPT ![t] = "SessionAlreadyActive"]
        /\ lock' \in Tx \cup {NoTx}
        /\ UNCHANGED <<state, channel, session_key, by_session, start_q, supervisorVars>>
    BY <1>4, <1>r DEF Recheck, at, returns
  <2> QED BY <1>r, <2>1, MoveType
<1>5. CASE Install(t)
  <2>1. CASE UNCHANGED <<lock, by_session, start_q>>
    <3>1. /\ pc[t] # "idle" /\ (goes(t, "rel_ledger") \/ goes(t, "row"))
          /\ \/ result' = [result EXCEPT ![t] = "CapacityExceeded"]
             \/ result' = [result EXCEPT ![t] = "SpawnFailed"]
             \/ result' = [result EXCEPT ![t] = "accepted"]
          /\ UNCHANGED <<state, channel, session_key, supervisorVars>>
      BY <1>5 DEF Install, at, returns, drop_entry, rollback, insert
    <3> QED BY Zenon, <1>r, <2>1, <3>1, MoveType
  <2>2. CASE insert(t) /\ start_q' = Append(start_q, t) /\ ~start_full /\ returns(t, "accepted")
    <3>1. /\ UNCHANGED <<state, channel, session_key, supervisorVars>> /\ pc[t] # "idle"
      BY <1>5 DEF Install, at
    <3>2. pc' \in [Tx -> Pc] /\ \A u \in Tx : pc'[u] # "idle" => channel'[u] \in Channel
      BY <2>2, <3>1 DEF CallType, insert, goes, Pc
    <3>3. result' \in [Tx -> Result] /\ lock' \in Tx \cup {NoTx}
      BY <2>2, <1>r DEF CallType, insert, returns
    <3>4. by_session' \in [Channel \X Session -> Tx \cup {NoTx}]
      BY <2>2 DEF CallType, insert
    <3>5. start_q' \in Seq(Tx) /\ Len(start_q') \leq MaxGlobal
      <4>1. start_q \in Seq(Tx) /\ Len(start_q) \in Nat
        BY DEF CallType
      <4>2. Append(start_q, t) \in Seq(Tx) /\ Len(Append(start_q, t)) = Len(start_q) + 1
        BY <4>1
      <4> QED BY <2>2, <4>1, <4>2 DEF start_full
    <3> QED BY <3>1, <3>2, <3>3, <3>4, <3>5 DEF CallType, supervisorVars
  <2> QED BY <1>5, <2>1, <2>2 DEF Install, drop_entry, rollback
<1>6. CASE Release(t)
  <2>1. /\ pc[t] # "idle"
        /\ goes(t, "rel_channel") \/ goes(t, "rel_global") \/ goes(t, "done")
        /\ lock' \in Tx \cup {NoTx} /\ result' = result
        /\ UNCHANGED <<state, channel, session_key, by_session, start_q, supervisorVars>>
    BY <1>6, <1>r DEF Release, release, at, callVars
  <2> QED BY <1>r, <2>1, MoveType
<1> QED BY <1>1, <1>2, <1>3, <1>4, <1>5, <1>6 DEF Admit

\* Every step keeps the types.
LEMMA TypeStep ==
    ASSUME CallType, [Next]_vars
    PROVE  CallType'
<1>1. ASSUME NEW t \in Tx, NEW c \in Channel, NEW s \in Session \cup {NoSession}, Call(t, c, s)
      PROVE  CallType'
  <2>1. /\ channel' = [channel EXCEPT ![t] = c] /\ session_key' = [session_key EXCEPT ![t] = s]
        /\ goes(t, "done") \/ goes(t, "global")
        /\ \/ result' = result \/ result' = [result EXCEPT ![t] = "RuntimeShuttingDown"]
           \/ result' = [result EXCEPT ![t] = "Invalid"]
        /\ UNCHANGED <<state, lock, by_session, start_q, supervisorVars>>
    BY <1>1 DEF Call, returns
  <2>2. pc' \in [Tx -> Pc]
    BY ZenonT(40), <2>1 DEF CallType, goes, Pc
  <2>3. /\ channel' \in [Tx -> Channel \cup {NoChannel}]
        /\ \A u \in Tx : pc'[u] # "idle" => channel'[u] \in Channel
    BY <2>1 DEF CallType, goes
  <2>4. session_key' \in [Tx -> Session \cup {NoSession}]
    BY <2>1 DEF CallType
  <2>5. result' \in [Tx -> Result]
    BY ZenonT(40), <2>1 DEF CallType, Result
  <2> QED BY Zenon, <2>1, <2>2, <2>3, <2>4, <2>5 DEF CallType, supervisorVars
<1>2. ASSUME NEW t \in Tx, NEW s \in Session, BindSession(t, s)
      PROVE  CallType'
  <2>1. by_session' \in [Channel \X Session -> Tx \cup {NoTx}]
    BY <1>2 DEF BindSession, rebound, CallType
  <2>2. session_key' \in [Tx -> Session \cup {NoSession}]
    BY <1>2 DEF BindSession, CallType
  <2> QED BY ZenonT(40), <1>2, <2>1, <2>2 DEF BindSession, CallType, supervisorVars
<1>3. ASSUME NEW t \in Tx, RemoveRow(t)
      PROVE  CallType'
  <2>1. by_session' \in [Channel \X Session -> Tx \cup {NoTx}]
    BY <1>3 DEF RemoveRow, CallType
  <2>2. /\ pc' \in [Tx -> Pc] /\ UNCHANGED channel
        /\ \A u \in Tx : pc'[u] # "idle" => channel'[u] \in Channel
    BY <1>3 DEF RemoveRow, CallType, goes, Pc, at, callVars
  <2> QED BY <1>3, <2>1, <2>2 DEF RemoveRow, CallType, supervisorVars, callVars
<1>4. CASE TakeStart
  <2>1. start_q \in Seq(Tx) /\ start_q # <<>> /\ Len(start_q) \leq MaxGlobal
    BY <1>4 DEF TakeStart, CallType
  <2>2. /\ Head(start_q) \in Tx /\ Tail(start_q) \in Seq(Tx)
        /\ Len(Tail(start_q)) = Len(start_q) - 1 /\ Len(start_q) \in Nat
    BY <2>1
  <2> QED BY <1>4, <2>1, <2>2 DEF TakeStart, CallType, callVars
<1>5. CASE BeginShutdownInner \/ BeginShutdown
  BY ZenonT(40), <1>5 DEF BeginShutdownInner, BeginShutdown, CallType, callVars, supervisorVars, rows
<1>6. CASE UNCHANGED vars
  BY <1>6 DEF vars, CallType, callVars, supervisorVars
<1> QED BY Zenon, <1>1, <1>2, <1>3, <1>4, <1>5, <1>6, AdmitType DEF Next

-----------------------------------------------------------------------------
(* The lock, the index and the results.                                    *)

\* What is kept by the sections under the ledger's lock.
LedgerInv ==
    /\ SessionIndex /\ LockDiscipline /\ ResultInv
    /\ stopping => state # "Accepting"
    /\ ShutdownSeesAll

\* A call moves between two points outside the lock and the rows.
LEMMA OutsideLedger ==
    ASSUME CallType, LedgerInv, NEW t \in Tx, NEW to, goes(t, to),
           pc[t] \in {"idle", "global", "channel", "ledger", "lock"},
           to \in {"global", "channel", "ledger", "lock", "done", "rel_global", "rel_channel",
                   "rel_ledger"},
           \A u \in Tx : u # t => channel'[u] = channel[u] /\ session_key'[u] = session_key[u],
           \A u \in Tx : u # t => result'[u] = result[u],
           result'[t] # "accepted",
           UNCHANGED <<state, lock, by_session, supervisorVars>>
    PROVE  LedgerInv'
<1>1. \A u \in Tx : pc'[u] = IF u = t THEN to ELSE pc[u]
  BY DEF goes, CallType
<1>2. rows' = rows /\ t \notin rows
  BY <1>1 DEF rows
<1>3. lock # t
  BY Zenon DEF LedgerInv, LockDiscipline
<1>4. SessionIndex'
  BY <1>2 DEF LedgerInv, SessionIndex, rows
<1>5. LockDiscipline'
  <2>1. \A u \in Tx : pc'[u] = "install" =>
           u # t /\ lock' = u /\ state' = "Accepting"
           /\ ~session_active(channel[u], session_key[u])
    BY <1>1 DEF LedgerInv, LockDiscipline, at
  <2>2. \A u \in Tx : lock' = u =>
           pc'[u] \in {"install", "rel_ledger", "rel_channel", "rel_global"}
    BY Zenon, <1>1, <1>3 DEF LedgerInv, LockDiscipline
  <2> QED BY ZenonT(40), <2>1, <2>2 DEF LockDiscipline, at, session_active
<1>6. ResultInv'
  BY ZenonT(30), <1>1, <1>2 DEF LedgerInv, ResultInv, rows
<1> QED BY ZenonT(40), <1>2, <1>4, <1>5, <1>6 DEF LedgerInv, ShutdownSeesAll, supervisorVars

\* The checks under the lock, and a refusal there.
LEMMA RecheckLedger ==
    ASSUME CallType, LedgerInv, NEW t \in Tx, Recheck(t)
    PROVE  LedgerInv'
<1>1. CASE goes(t, "rel_ledger") /\ UNCHANGED lock
           /\ (returns(t, "RuntimeShuttingDown") \/ returns(t, "SessionAlreadyActive"))
  <2>1. /\ \A u \in Tx : u # t => result'[u] = result[u]
        /\ result'[t] # "accepted"
    BY Zenon, <1>1 DEF returns, CallType
  <2>2. pc[t] = "lock" /\ UNCHANGED <<state, channel, session_key, by_session, supervisorVars>>
    BY DEF Recheck, at
  <2> QED BY Zenon, <1>1, <2>1, <2>2, OutsideLedger
<1>2. CASE /\ still_accepting /\ ~session_active(channel[t], session_key[t])
           /\ lock' = t /\ goes(t, "install") /\ UNCHANGED result
  <2>1. /\ pc[t] = "lock" /\ lock = NoTx
        /\ UNCHANGED <<state, channel, session_key, by_session, supervisorVars>>
    BY DEF Recheck, at
  <2>2. \A u \in Tx : pc'[u] = IF u = t THEN "install" ELSE pc[u]
    BY <1>2 DEF goes, CallType
  <2>3. rows' = rows
    BY <2>1, <2>2 DEF rows
  <2>4. \A u \in Tx : pc[u] # "install"
    BY Zenon, <2>1 DEF LedgerInv, LockDiscipline, at
  <2>5. SessionIndex'
    BY Zenon, <2>1, <2>3 DEF LedgerInv, SessionIndex
  <2>6. LockDiscipline'
    BY Zenon, <1>2, <2>1, <2>2, <2>4 DEF LockDiscipline, at, session_active, still_accepting
  <2>7. ResultInv'
    BY Zenon, <1>2, <2>1, <2>2, <2>3 DEF LedgerInv, ResultInv
  <2> QED BY Zenon, <2>1, <2>3, <2>5, <2>6, <2>7 DEF LedgerInv, ShutdownSeesAll, supervisorVars
<1> QED BY Zenon, <1>1, <1>2 DEF Recheck

\* The row and its key are installed together, or not at all.
LEMMA InstallLedger ==
    ASSUME CallType, LedgerInv, NEW t \in Tx, Install(t)
    PROVE  LedgerInv'
<1>0. /\ pc[t] = "install" /\ lock = t /\ state = "Accepting"
      /\ ~session_active(channel[t], session_key[t]) /\ t \notin rows
      /\ UNCHANGED <<state, channel, session_key, supervisorVars>>
  BY DEF Install, at, LedgerInv, LockDiscipline, rows
<1>1. CASE goes(t, "rel_ledger") /\ UNCHANGED <<lock, by_session>>
           /\ (returns(t, "CapacityExceeded") \/ returns(t, "SpawnFailed"))
  <2>1. \A u \in Tx : pc'[u] = IF u = t THEN "rel_ledger" ELSE pc[u]
    BY <1>1 DEF goes, CallType
  <2>2. rows' = rows
    BY Zenon, <1>0, <2>1 DEF rows
  <2>3. SessionIndex'
    BY Zenon, <1>0, <1>1, <2>2 DEF LedgerInv, SessionIndex
  <2>4. LockDiscipline'
    BY Zenon, <1>0, <1>1, <2>1 DEF LedgerInv, LockDiscipline, at, session_active
  <2>5. ResultInv'
    <3>1. \A u \in Tx : u # t => result'[u] = result[u]
      BY Zenon, <1>1 DEF returns, CallType
    <3> QED BY Zenon, <1>0, <2>1, <2>2, <3>1 DEF LedgerInv, ResultInv, rows
  <2> QED BY Zenon, <1>0, <2>2, <2>3, <2>4, <2>5 DEF LedgerInv, ShutdownSeesAll, supervisorVars
<1>2. CASE insert(t) /\ returns(t, "accepted")
  <2>1. \A u \in Tx : pc'[u] = IF u = t THEN "row" ELSE pc[u]
    BY <1>2 DEF goes, CallType, insert
  <2>2. rows' = rows \cup {t}
    BY <2>1 DEF rows
  <2>3. \A u \in Tx : pc[u] = "install" => u = t
    BY <1>0 DEF LedgerInv, LockDiscipline, at
  <2>4. /\ channel[t] \in Channel /\ session_key[t] \in Session \cup {NoSession}
        /\ \A k \in Channel \X Session : by_session'[k] =
              IF k = <<channel[t], session_key[t]>> THEN t ELSE by_session[k]
    BY Zenon, <1>0, <1>2 DEF CallType, insert
  <2>5. \A k \in Channel \X Session : by_session'[k] # NoTx =>
           /\ by_session'[k] \in rows'
           /\ k = <<channel[by_session'[k]], session_key[by_session'[k]]>>
    BY <2>2, <2>4 DEF LedgerInv, SessionIndex
  <2>6. ASSUME NEW u \in rows', session_key[u] # NoSession
        PROVE  by_session'[<<channel[u], session_key[u]>>] = u
    <3>0. u \in Tx /\ channel[u] \in Channel /\ session_key[u] \in Session
      BY ZenonT(40), <1>0, <2>1, <2>6 DEF rows, CallType
    <3>1. CASE u = t
      BY Zenon, <2>4, <3>0, <3>1
    <3>2. CASE u # t
      <4>1. u \in rows /\ by_session[<<channel[u], session_key[u]>>] = u
        BY Zenon, <2>2, <2>6, <3>2 DEF LedgerInv, SessionIndex
      <4>2. <<channel[u], session_key[u]>> # <<channel[t], session_key[t]>>
        BY Zenon, <1>0, <2>6, <3>0, <4>1 DEF session_active
      <4> QED BY Zenon, <2>4, <3>0, <4>1, <4>2
    <3> QED BY <3>1, <3>2
  <2>7. SessionIndex'
    BY Zenon, <1>0, <2>5, <2>6 DEF SessionIndex
  <2>8. LockDiscipline'
    BY Zenon, <1>2, <2>1, <2>3 DEF LockDiscipline, at, insert
  <2>9. ResultInv'
    BY <1>2, <2>1, <2>2 DEF LedgerInv, ResultInv, returns, CallType, rows
  <2> QED BY Zenon, <1>0, <2>7, <2>8, <2>9 DEF LedgerInv, ShutdownSeesAll, supervisorVars
<1> QED BY Zenon, <1>1, <1>2 DEF Install, drop_entry, rollback

\* The permits go back and, last, the lock.
LEMMA ReleaseLedger ==
    ASSUME CallType, LedgerInv, NEW t \in Tx, Release(t)
    PROVE  LedgerInv'
<1>1. /\ pc[t] \in {"rel_ledger", "rel_channel", "rel_global"}
      /\ UNCHANGED <<state, channel, session_key, result, by_session, supervisorVars>>
  BY DEF Release, release, at, callVars
<1>2. \/ goes(t, "rel_channel") /\ UNCHANGED lock
      \/ goes(t, "rel_global") /\ UNCHANGED lock
      \/ goes(t, "done") /\ lock' = IF lock = t THEN NoTx ELSE lock
  BY DEF Release, release
<1>3. /\ \A u \in Tx : u # t => pc'[u] = pc[u]
      /\ pc'[t] \in {"rel_channel", "rel_global", "done"}
      /\ pc'[t] = "done" => lock' # t
      /\ lock' = lock \/ (lock = t /\ lock' = NoTx)
  <2>1. NoTx # t
    BY AbsentAssumption
  <2>2. CASE goes(t, "done") /\ lock' = IF lock = t THEN NoTx ELSE lock
    BY <2>1, <2>2 DEF goes, CallType
  <2>3. CASE (goes(t, "rel_channel") \/ goes(t, "rel_global")) /\ UNCHANGED lock
    BY <2>3 DEF goes, CallType
  <2> QED BY Zenon, <1>2, <2>2, <2>3
<1>4. rows' = rows
  BY Zenon, <1>1, <1>3 DEF rows
<1>5. SessionIndex'
  BY Zenon, <1>1, <1>4 DEF LedgerInv, SessionIndex
<1>6. LockDiscipline'
  <2>1. \A u \in Tx : pc'[u] = "install" =>
           u # t /\ lock' = u /\ state' = "Accepting"
           /\ ~session_active(channel[u], session_key[u])
    BY Zenon, <1>1, <1>3 DEF LedgerInv, LockDiscipline, at
  <2>2. \A u \in Tx : lock' = u =>
           pc'[u] \in {"install", "rel_ledger", "rel_channel", "rel_global"}
    BY Zenon, <1>3 DEF LedgerInv, LockDiscipline, CallType
  <2> QED BY Zenon, <1>1, <2>1, <2>2 DEF LockDiscipline, at, session_active
<1>7. ResultInv'
  BY Zenon, <1>1, <1>3, <1>4 DEF LedgerInv, ResultInv
<1> QED BY Zenon, <1>1, <1>4, <1>5, <1>6, <1>7 DEF LedgerInv, ShutdownSeesAll, supervisorVars

\* A row changes its key: the old one leaves the index as the new one enters it.
LEMMA BindLedger ==
    ASSUME CallType, LedgerInv, NEW t \in Tx, NEW s \in Session, BindSession(t, s)
    PROVE  LedgerInv'
<1>0. /\ t \in rows /\ lock = NoTx /\ by_session[<<channel[t], s>>] = NoTx
      /\ session_key' = [session_key EXCEPT ![t] = s]
      /\ UNCHANGED <<state, lock, pc, channel, result, supervisorVars>>
      /\ channel[t] \in Channel /\ s # NoSession
  BY Zenon DEF BindSession, at, rows, CallType
<1>1. \A k \in Channel \X Session : by_session'[k] =
         IF k = <<channel[t], s>> THEN t
         ELSE IF k = <<channel[t], session_key[t]>> THEN NoTx ELSE by_session[k]
  BY DEF BindSession, rebound
<1>2. \A u \in Tx : session_key'[u] = IF u = t THEN s ELSE session_key[u]
  BY Zenon, <1>0 DEF CallType
<1>3. rows' = rows /\ \A u \in Tx : pc[u] # "install"
  BY Zenon, <1>0 DEF rows, LedgerInv, LockDiscipline, at
<1>4. ASSUME NEW k \in Channel \X Session, by_session'[k] # NoTx
      PROVE  /\ by_session'[k] \in rows
             /\ k = <<channel[by_session'[k]], session_key'[by_session'[k]]>>
  <2>1. CASE k = <<channel[t], s>>
    BY Zenon, <1>0, <1>1, <1>2, <2>1
  <2>2. CASE k # <<channel[t], s>>
    <3>1. by_session'[k] = by_session[k] /\ k # <<channel[t], session_key[t]>>
      BY Zenon, <1>1, <1>4, <2>2
    <3>2. by_session[k] \in rows /\ k = <<channel[by_session[k]], session_key[by_session[k]]>>
      BY <1>4, <3>1 DEF LedgerInv, SessionIndex
    <3> QED BY Zenon, <1>2, <3>1, <3>2 DEF rows
  <2> QED BY Zenon, <2>1, <2>2
<1>5. ASSUME NEW u \in rows, session_key'[u] # NoSession
      PROVE  by_session'[<<channel[u], session_key'[u]>>] = u
  <2>0. u \in Tx /\ channel[u] \in Channel /\ session_key'[u] \in Session
    BY Zenon, <1>0, <1>2, <1>5 DEF rows, CallType
  <2>1. CASE u = t
    BY Zenon, <1>1, <1>2, <2>0, <2>1
  <2>2. CASE u # t
    <3>1. by_session[<<channel[u], session_key[u]>>] = u /\ session_key'[u] = session_key[u]
      BY Zenon, <1>2, <1>5, <2>0, <2>2 DEF LedgerInv, SessionIndex
    <3>2. <<channel[u], session_key[u]>> # <<channel[t], s>>
      BY <1>0, <2>0, <3>1
    <3>3. <<channel[u], session_key[u]>> # <<channel[t], session_key[t]>>
      <4>1. session_key[t] # NoSession => by_session[<<channel[t], session_key[t]>>] = t
        BY Zenon, <1>0 DEF LedgerInv, SessionIndex
      <4> QED BY Zenon, <1>5, <2>2, <3>1, <4>1
    <3> QED BY Zenon, <1>1, <2>0, <3>1, <3>2, <3>3
  <2> QED BY Zenon, <2>1, <2>2
<1>6. SessionIndex'
  BY Zenon, <1>0, <1>3, <1>4, <1>5 DEF SessionIndex
<1>7. LockDiscipline'
  BY <1>0, <1>3 DEF LedgerInv, LockDiscipline, at
<1> QED BY Zenon, <1>0, <1>3, <1>6, <1>7 DEF LedgerInv, ShutdownSeesAll, ResultInv, supervisorVars

\* A removed row takes its key with it.
LEMMA RemoveLedger ==
    ASSUME CallType, LedgerInv, NEW t \in Tx, RemoveRow(t)
    PROVE  LedgerInv'
<1>0. /\ t \in rows /\ lock = NoTx /\ lock' = t
      /\ UNCHANGED <<state, channel, session_key, result, supervisorVars>>
      /\ \A u \in Tx : pc'[u] = IF u = t THEN "rel_ledger" ELSE pc[u]
  BY Zenon DEF RemoveRow, at, rows, callVars, goes, CallType
<1>1. \A k \in Channel \X Session : by_session'[k] =
         IF k = <<channel[t], session_key[t]>> /\ by_session[k] = t THEN NoTx ELSE by_session[k]
  BY DEF RemoveRow
<1>2. rows' = rows \ {t} /\ \A u \in Tx : pc[u] # "install"
  BY Zenon, <1>0 DEF rows, LedgerInv, LockDiscipline, at
<1>3. ASSUME NEW k \in Channel \X Session, by_session'[k] # NoTx
      PROVE  /\ by_session'[k] \in rows'
             /\ k = <<channel[by_session'[k]], session_key[by_session'[k]]>>
  <2>1. by_session'[k] = by_session[k]
        /\ ~(k = <<channel[t], session_key[t]>> /\ by_session[k] = t)
    BY <1>1, <1>3
  <2>2. by_session[k] \in rows /\ k = <<channel[by_session[k]], session_key[by_session[k]]>>
    BY <1>3, <2>1 DEF LedgerInv, SessionIndex
  <2> QED BY <1>2, <2>1, <2>2
<1>4. ASSUME NEW u \in rows', session_key[u] # NoSession
      PROVE  by_session'[<<channel[u], session_key[u]>>] = u
  <2>1. u \in rows /\ u # t /\ channel[u] \in Channel /\ session_key[u] \in Session
    BY Zenon, <1>2, <1>4 DEF rows, CallType
  <2>2. by_session[<<channel[u], session_key[u]>>] = u
    BY Zenon, <1>4, <2>1 DEF LedgerInv, SessionIndex
  <2> QED BY Zenon, <1>1, <2>1, <2>2
<1>5. SessionIndex'
  BY Zenon, <1>0, <1>3, <1>4 DEF SessionIndex
<1>6. LockDiscipline'
  BY <1>0, <1>2 DEF LockDiscipline, at
<1>7. ResultInv'
  BY <1>0, <1>2 DEF LedgerInv, ResultInv
<1> QED BY Zenon, <1>0, <1>2, <1>5, <1>6, <1>7 DEF LedgerInv, ShutdownSeesAll, supervisorVars

\* Every step keeps the lock's discipline, the index and the results.
LEMMA LedgerStep ==
    ASSUME CallType, LedgerInv, [Next]_vars
    PROVE  LedgerInv'
<1>1. ASSUME NEW t \in Tx, NEW c \in Channel, NEW s \in Session \cup {NoSession}, Call(t, c, s)
      PROVE  LedgerInv'
  <2>1. /\ pc[t] = "idle" /\ (goes(t, "done") \/ goes(t, "global"))
        /\ UNCHANGED <<state, lock, by_session, supervisorVars>>
    BY Zenon, <1>1 DEF Call, at
  <2>2. \A u \in Tx : u # t => channel'[u] = channel[u] /\ session_key'[u] = session_key[u]
    BY Zenon, <1>1 DEF Call, CallType
  <2>3. result[t] # "accepted"
    BY Zenon, <2>1 DEF LedgerInv, ResultInv
  <2>4. (\A u \in Tx : u # t => result'[u] = result[u]) /\ result'[t] # "accepted"
    BY Zenon, <1>1, <2>3 DEF Call, returns, CallType
  <2> QED BY Zenon, <2>1, <2>2, <2>4, OutsideLedger
<1>2. ASSUME NEW t \in Tx, ReserveGlobal(t) \/ ReserveChannel(t) \/ ReserveLedger(t)
      PROVE  LedgerInv'
  <2>1. /\ pc[t] \in {"global", "channel", "ledger"}
        /\ UNCHANGED <<state, lock, channel, session_key, by_session, supervisorVars>>
    BY Zenon, <1>2 DEF ReserveGlobal, ReserveChannel, ReserveLedger, at
  <2>2. \/ goes(t, "done") \/ goes(t, "channel") \/ goes(t, "rel_global")
        \/ goes(t, "ledger") \/ goes(t, "rel_channel") \/ goes(t, "lock")
    BY Zenon, <1>2 DEF ReserveGlobal, ReserveChannel, ReserveLedger
  <2>3. result[t] # "accepted"
    BY Zenon, <2>1 DEF LedgerInv, ResultInv
  <2>4. (\A u \in Tx : u # t => result'[u] = result[u]) /\ result'[t] # "accepted"
    BY Zenon, <1>2, <2>3 DEF ReserveGlobal, ReserveChannel, ReserveLedger, CallType
  <2> QED BY Zenon, <2>1, <2>2, <2>4, OutsideLedger
<1>3. CASE TakeStart
  BY <1>3 DEF TakeStart, LedgerInv, SessionIndex, LockDiscipline, ResultInv, ShutdownSeesAll,
              rows, at, session_active, callVars
<1>4. CASE BeginShutdownInner \/ BeginShutdown
  <2>1. /\ lock = NoTx /\ state' = "Quiescing"
        /\ UNCHANGED <<lock, pc, channel, session_key, result, by_session>>
        /\ snapshot' = rows \/ UNCHANGED <<stopping, snapshot>>
    BY <1>4 DEF BeginShutdownInner, BeginShutdown, callVars, supervisorVars
  <2>2. LockDiscipline'
    BY Zenon, <2>1 DEF LedgerInv, LockDiscipline, at
  <2>3. rows' = rows
    BY Zenon, <2>1 DEF rows
  <2>4. SessionIndex' /\ ResultInv'
    BY Zenon, <2>1, <2>3 DEF LedgerInv, SessionIndex, ResultInv
  <2>5. (stopping' => state' # "Accepting") /\ ShutdownSeesAll'
    BY SMTT(20), <2>1, <2>3 DEF LedgerInv, ShutdownSeesAll
  <2> QED BY Zenon, <2>2, <2>4, <2>5 DEF LedgerInv
<1>5. CASE UNCHANGED vars
  BY <1>5 DEF vars, LedgerInv, SessionIndex, LockDiscipline, ResultInv, ShutdownSeesAll,
              rows, at, session_active, callVars, supervisorVars
<1> QED BY Zenon, <1>1, <1>2, <1>3, <1>4, <1>5, RecheckLedger, InstallLedger, ReleaseLedger,
           BindLedger, RemoveLedger DEF Next, Admit

-----------------------------------------------------------------------------
(* The theorems.                                                           *)

Inv == CallType /\ PoolInv /\ LedgerInv

\* The invariant holds before the first call.
LEMMA InvInit == Init => Inv
<1> SUFFICES ASSUME Init PROVE Inv
  BY Zenon
<1>1. /\ ledger_holders = {} /\ pair_holders = {} /\ global_holders = {}
      /\ \A c \in Channel : channel_holders(c) = {}
      /\ rows = {}
  BY DEF Init, ledger_holders, pair_holders, global_holders, channel_holders, rows
<1>2. PoolInv
  <2>1. /\ global_active = 0 /\ ledger_active = 0 /\ channel_active = [c \in Channel |-> 0]
    BY DEF Init
  <2>2. IsFiniteSet({}) /\ Cardinality({}) = 0
    BY FS_EmptySet
  <2>3. CountersExact
    BY <1>1, <2>1, <2>2 DEF CountersExact
  <2>4. WithinCapacity
    BY <2>1, PoolAssumption DEF WithinCapacity
  <2> QED BY Zenon, <1>1, <2>1, <2>2, <2>3, <2>4 DEF PoolInv
<1>3. CallType
  <2>1. start_q \in Seq(Tx) /\ Len(start_q) = 0
    BY DEF Init
  <2>2. by_session \in [Channel \X Session -> Tx \cup {NoTx}]
    BY DEF Init
  <2>3. pc \in [Tx -> Pc] /\ result \in [Tx -> Result]
    BY DEF Init, Pc, Result
  <2>4. /\ channel \in [Tx -> Channel \cup {NoChannel}]
        /\ session_key \in [Tx -> Session \cup {NoSession}]
        /\ \A t \in Tx : pc[t] # "idle" => channel[t] \in Channel
    BY DEF Init
  <2>5. /\ state = "Accepting" /\ lock = NoTx
        /\ started = {} /\ stopping = FALSE /\ snapshot = {}
    BY DEF Init
  <2>6. Len(start_q) \leq MaxGlobal
    BY <2>1, PoolAssumption
  <2> QED BY ZenonT(40), <2>1, <2>2, <2>3, <2>4, <2>5, <2>6 DEF CallType
<1>4. LedgerInv
  <2>1. SessionIndex
    BY <1>1 DEF Init, SessionIndex
  <2>2. LockDiscipline
    BY DEF Init, LockDiscipline, at
  <2>3. ResultInv
    BY <1>1 DEF Init, ResultInv
  <2> QED BY Zenon, <1>1, <2>1, <2>2, <2>3 DEF Init, LedgerInv, ShutdownSeesAll
<1> QED BY <1>2, <1>3, <1>4 DEF Inv

\* The invariant is inductive.
LEMMA InvStep == Inv /\ [Next]_vars => Inv'
BY PoolStep, TypeStep, LedgerStep DEF Inv

\* The invariant holds throughout.
LEMMA InvHolds == Spec => []Inv
BY InvInit, InvStep, PTL DEF Spec

\* Every variable keeps its type, whatever calls, removals and shutdowns interleave.
THEOREM AdmissionTypeCorrect == Spec => []TypeOK
<1>1. Inv => TypeOK
  BY Zenon DEF Inv, CallType, PoolInv, TypeOK
<1> QED BY <1>1, InvHolds, PTL

\* The pool's counters are the permits that are out, the index is the rows' and the lock
\* is respected: the inductive invariant of admit.
THEOREM AdmissionInductive == Spec => []AdmissionInv
<1>1. Inv => AdmissionInv
  BY DEF Inv, PoolInv, LedgerInv, ResultInv, AdmissionInv
<1> QED BY <1>1, InvHolds, PTL

\* No permit is leaked, returned twice or handed out beyond a capacity.
THEOREM PoolExact == Spec => [](CountersExact /\ WithinCapacity)
<1>1. Inv => CountersExact /\ WithinCapacity
  BY DEF Inv, PoolInv
<1> QED BY <1>1, InvHolds, PTL

\* The rows that shutdown cancels are all the rows there are.
THEOREM ShutdownComplete == Spec => []ShutdownSeesAll
<1>1. Inv => ShutdownSeesAll
  BY Zenon DEF Inv, LedgerInv
<1> QED BY <1>1, InvHolds, PTL

\* Releasing in the order ledger, channel, global keeps a ledger slot free for every
\* call that has the other two permits.
THEOREM LedgerSlot == Spec => []LedgerSlotAvailable
<1>1. ASSUME Inv, NEW t \in Tx, at(t, "ledger")
      PROVE  ledger_active < MaxGlobal
  <2>1. /\ IsFiniteSet(global_holders) /\ ledger_active = Cardinality(ledger_holders)
        /\ global_active = Cardinality(global_holders) /\ global_active \leq MaxGlobal
        /\ ledger_active \in Nat /\ global_active \in Nat
    BY <1>1 DEF Inv, PoolInv, CountersExact, WithinCapacity
  <2>2. ledger_holders \in SUBSET (global_holders \ {t}) /\ t \in global_holders
    BY <1>1 DEF at, ledger_holders, pair_holders, global_holders
  <2>3. /\ IsFiniteSet(global_holders \ {t})
        /\ Cardinality(global_holders \ {t}) = Cardinality(global_holders) - 1
    BY SMTT(20), <2>1, <2>2, FS_RemoveElement
  <2>4. Cardinality(ledger_holders) \leq Cardinality(global_holders \ {t})
    BY <2>2, <2>3, FS_Subset
  <2> QED BY <2>1, <2>3, <2>4
<1>2. Inv => LedgerSlotAvailable
  BY <1>1 DEF LedgerSlotAvailable
<1> QED BY <1>2, InvHolds, PTL

-----------------------------------------------------------------------------
(* The refinement.                                                         *)

\* The contract's view of the rows.
LEMMA ContractView ==
    ASSUME CallType
    PROVE  /\ Contract!active = rows
           /\ \A c \in Channel : Contract!on(c) = {t \in rows : channel[t] = c}
<1>1. \A t \in rows : t \in Tx /\ pc[t] = "row" /\ channel[t] \in Channel
  BY DEF rows, CallType
<1>2. \A t \in Tx \ rows : pc[t] # "row"
  BY Zenon DEF rows
<1>3. \A c \in Channel : c # NoChannel
  BY AbsentAssumption
<1>4. rows \subseteq Tx
  BY Zenon DEF rows
<1>5. Contract!active = rows
  BY Zenon, <1>1, <1>2, <1>3, <1>4 DEF Contract!active
<1>6. \A c \in Channel : Contract!on(c) = {t \in rows : channel[t] = c}
  BY Zenon, <1>1, <1>2, <1>3, <1>4 DEF Contract!on
<1> QED BY <1>5, <1>6

\* The sessions the contract counts on a channel are the keys of the index.
LEMMA ContractSessions ==
    ASSUME CallType, SessionIndex, NEW c \in Channel
    PROVE  Contract!sessions(c) = {s \in Session : by_session[<<c, s>>] # NoTx}
<1>1. ASSUME NEW s \in Session, by_session[<<c, s>>] # NoTx
      PROVE  \E t \in rows : channel[t] = c /\ session_key[t] = s
  <2>1. <<c, s>> \in Channel \X Session
    BY Zenon
  <2>2. /\ by_session[<<c, s>>] \in rows
        /\ <<c, s>> = <<channel[by_session[<<c, s>>]], session_key[by_session[<<c, s>>]]>>
    BY Zenon, <1>1, <2>1 DEF SessionIndex
  <2> QED BY <2>2
<1>2. ASSUME NEW t \in rows, channel[t] = c, session_key[t] \in Session
      PROVE  by_session[<<c, session_key[t]>>] # NoTx
  <2>1. t \in Tx /\ session_key[t] # NoSession /\ t # NoTx
    BY <1>2, AbsentAssumption DEF rows
  <2> QED BY <1>2, <2>1 DEF SessionIndex
<1>3. Contract!on(c) = {t \in rows : channel[t] = c}
  BY ContractView
<1>4. \A t \in rows : t \in Tx /\ pc[t] = "row"
  BY Zenon DEF rows
<1>5. Contract!sessions(c) = {s \in Session : \E t \in rows : channel[t] = c /\ session_key[t] = s}
  BY ZenonT(40), <1>3, <1>4 DEF Contract!sessions
<1> QED BY <1>1, <1>2, <1>5

\* The contract counts with the same Cardinality.
LEMMA SameCardinality == \A S : Contract!Cardinality(S) = Cardinality(S)
BY DEF Contract!Cardinality, Cardinality

\* Finitely many sessions are indexed on a channel, one for a row at most.
LEMMA SessionsFinite ==
    ASSUME CallType, PoolInv, SessionIndex, NEW c \in Channel
    PROVE  distinct_sessions(c) \in Nat
<1> DEFINE S == {s \in Session : by_session[<<c, s>>] # NoTx}
<1>1. IsFiniteSet(rows)
  <2>1. rows \in SUBSET global_holders /\ IsFiniteSet(global_holders)
    BY DEF rows, global_holders, pair_holders, ledger_holders, PoolInv
  <2> QED BY <2>1, FS_Subset
<1> DEFINE f == [s \in S |-> by_session[<<c, s>>]]
<1>2. \A s \in S : /\ by_session[<<c, s>>] \in rows
                   /\ session_key[by_session[<<c, s>>]] = s
  <2> SUFFICES ASSUME NEW s \in Session, by_session[<<c, s>>] # NoTx
               PROVE  /\ by_session[<<c, s>>] \in rows
                      /\ session_key[by_session[<<c, s>>]] = s
    BY Zenon
  <2>1. <<c, s>> \in Channel \X Session
    BY Zenon
  <2>2. /\ by_session[<<c, s>>] \in rows
        /\ <<c, s>> = <<channel[by_session[<<c, s>>]], session_key[by_session[<<c, s>>]]>>
    BY <2>1 DEF SessionIndex
  <2> QED BY <2>2
<1>3. f \in Injection(S, rows)
  BY <1>2 DEF Injection, IsInjective
<1>4. IsFiniteSet(S)
  BY Zenon, <1>1, <1>3, FS_Injection
<1> QED BY <1>4, FS_CardinalityType DEF distinct_sessions

\* A call about to install finds the room its permits stand for.
LEMMA RoomToInstall ==
    ASSUME Inv, NEW t \in Tx, at(t, "install")
    PROVE  /\ Cardinality(Contract!active) < MaxGlobal
           /\ Cardinality(Contract!on(channel[t])) < MaxChannel[channel[t]]
<1> DEFINE c == channel[t]
<1>0. /\ CallType /\ c \in Channel /\ IsFiniteSet(global_holders)
      /\ global_active = Cardinality(global_holders) /\ global_active \leq MaxGlobal
      /\ channel_active[c] = Cardinality(channel_holders(c)) /\ channel_active[c] \leq MaxChannel[c]
      /\ global_active \in Nat /\ channel_active[c] \in Nat
  BY Zenon DEF Inv, CallType, PoolInv, CountersExact, WithinCapacity, at
<1>1. /\ rows \in SUBSET (global_holders \ {t}) /\ t \in global_holders
      /\ {u \in rows : channel[u] = c} \in SUBSET (channel_holders(c) \ {t})
      /\ t \in channel_holders(c)
  BY Zenon DEF at, rows, ledger_holders, pair_holders, global_holders, channel_holders
<1>2. IsFiniteSet(channel_holders(c))
  BY Zenon, <1>0, HoldersFinite
<1>3. Cardinality(rows) < MaxGlobal
  <2>1. /\ IsFiniteSet(global_holders \ {t})
        /\ Cardinality(global_holders \ {t}) = Cardinality(global_holders) - 1
    BY Zenon, <1>0, <1>1, FS_RemoveElement
  <2>2. Cardinality(rows) \leq Cardinality(global_holders \ {t}) /\ IsFiniteSet(rows)
    BY <1>1, <2>1, FS_Subset
  <2>3. Cardinality(rows) \in Nat
    BY Zenon, <2>2, FS_CardinalityType
  <2> QED BY <1>0, <2>1, <2>2, <2>3
<1>4. Cardinality({u \in rows : channel[u] = c}) < MaxChannel[c]
  <2> HIDE DEF c
  <2>1. /\ IsFiniteSet(channel_holders(c) \ {t})
        /\ Cardinality(channel_holders(c) \ {t}) = Cardinality(channel_holders(c)) - 1
    BY SMTT(40), <1>1, <1>2, FS_RemoveElement
  <2>2. /\ Cardinality({u \in rows : channel[u] = c}) \leq Cardinality(channel_holders(c) \ {t})
        /\ IsFiniteSet({u \in rows : channel[u] = c})
    BY <1>1, <2>1, FS_Subset
  <2>3. Cardinality({u \in rows : channel[u] = c}) \in Nat /\ MaxChannel[c] \in Nat
    BY Zenon, <1>0, <2>2, FS_CardinalityType
  <2> QED BY SMTT(20), <1>0, <2>1, <2>2, <2>3
<1>5. /\ Contract!active = rows
      /\ Contract!on(c) = {u \in rows : channel[u] = c}
  BY Zenon, <1>0, ContractView
<1> QED BY Zenon, <1>3, <1>4, <1>5

\* A step of which the contract sees nothing.
LEMMA ContractStutter ==
    ASSUME state' = state, \A t \in Tx : pc'[t] = "row" <=> pc[t] = "row",
           \A t \in Tx : result'[t] = "accepted" <=> result[t] = "accepted",
           \A t \in rows : channel'[t] = channel[t] /\ session_key'[t] = session_key[t]
    PROVE  UNCHANGED Contract!contractVars
<1>1. {t \in Tx : result[t] = "accepted"}' = {t \in Tx : result[t] = "accepted"}
  BY Zenon
<1>2. \A t \in Tx : pc[t] = "row" => channel'[t] = channel[t] /\ session_key'[t] = session_key[t]
  BY Zenon DEF rows
<1>3. [t \in Tx |-> IF pc[t] = "row" THEN channel[t] ELSE NoChannel]'
        = [t \in Tx |-> IF pc[t] = "row" THEN channel[t] ELSE NoChannel]
  BY Zenon, <1>2
<1>4. [t \in Tx |-> IF pc[t] = "row" THEN session_key[t] ELSE NoSession]'
        = [t \in Tx |-> IF pc[t] = "row" THEN session_key[t] ELSE NoSession]
  BY Zenon, <1>2
<1> QED BY Zenon, <1>1, <1>3, <1>4 DEF Contract!contractVars

\* A call that does not install its row is invisible.
LEMMA QuietCall ==
    ASSUME Inv, NEW t \in Tx, NEW to, goes(t, to), pc[t] # "row", to # "row", state' = state,
           \A u \in Tx : u # t => channel'[u] = channel[u] /\ session_key'[u] = session_key[u],
           \/ result' = result
           \/ /\ \A u \in Tx : u # t => result'[u] = result[u]
              /\ result'[t] # "accepted" /\ result[t] # "accepted"
    PROVE  UNCHANGED Contract!contractVars
<1>1. \A u \in Tx : pc'[u] = IF u = t THEN to ELSE pc[u]
  BY DEF goes, Inv, CallType
<1>2. t \notin rows /\ rows \subseteq Tx
  BY Zenon DEF rows
<1>3. \A u \in Tx : pc'[u] = "row" <=> pc[u] = "row"
  BY Zenon, <1>1
<1>4. \A u \in Tx : result'[u] = "accepted" <=> result[u] = "accepted"
  BY Zenon
<1>5. \A u \in rows : channel'[u] = channel[u] /\ session_key'[u] = session_key[u]
  BY Zenon, <1>2
<1> QED BY Zenon, <1>3, <1>4, <1>5, ContractStutter

\* Installing a row is the contract's Accept.
LEMMA InstallAccepts ==
    ASSUME Inv, NEW t \in Tx, Install(t), ~crowded(t), insert(t), returns(t, "accepted"),
           NEW c, NEW s, c = channel[t], s = session_key[t]
    PROVE  Contract!Accept(t, c, s)
<1>0. /\ at(t, "install") /\ CallType /\ c \in Channel /\ s \in Session \cup {NoSession}
      /\ SessionIndex /\ state = "Accepting" /\ ~session_active(c, s) /\ result[t] # "accepted"
      /\ UNCHANGED <<state, channel, session_key>>
  BY Zenon DEF Install, Inv, CallType, LedgerInv, LockDiscipline, ResultInv, at
<1>1. /\ \A u \in Tx : pc'[u] = IF u = t THEN "row" ELSE pc[u]
      /\ \A u \in Tx : result'[u] = IF u = t THEN "accepted" ELSE result[u]
  BY DEF insert, goes, returns, Inv, CallType
<1>2. {u \in Tx : result[u] = "accepted"}' = {u \in Tx : result[u] = "accepted"} \cup {t}
  BY Zenon, <1>1
<1>3. [u \in Tx |-> IF pc[u] = "row" THEN channel[u] ELSE NoChannel]'
        = [[u \in Tx |-> IF pc[u] = "row" THEN channel[u] ELSE NoChannel] EXCEPT ![t] = c]
  BY ZenonT(40), <1>0, <1>1
<1>4. [u \in Tx |-> IF pc[u] = "row" THEN session_key[u] ELSE NoSession]'
        = [[u \in Tx |-> IF pc[u] = "row" THEN session_key[u] ELSE NoSession] EXCEPT ![t] = s]
  BY ZenonT(40), <1>0, <1>1
<1>5. s # NoSession => s \notin Contract!sessions(c)
                       /\ Cardinality(Contract!sessions(c)) < MaxDistinct[c]
  <2> SUFFICES ASSUME s # NoSession
               PROVE  s \notin Contract!sessions(c)
                      /\ Cardinality(Contract!sessions(c)) < MaxDistinct[c]
    BY Zenon
  <2>1. Contract!sessions(c) = {r \in Session : by_session[<<c, r>>] # NoTx}
    BY Zenon, <1>0, ContractSessions
  <2>2. distinct_sessions(c) \in Nat /\ MaxDistinct[c] \in Nat
    BY Zenon, <1>0, SessionsFinite, PoolAssumption DEF Inv
  <2>3. distinct_sessions(c) < MaxDistinct[c]
    BY <2>2 DEF crowded
  <2>4. s \notin {r \in Session : by_session[<<c, r>>] # NoTx}
    BY Zenon, <1>0 DEF session_active
  <2> QED BY Zenon, <2>1, <2>3, <2>4 DEF distinct_sessions
<1>6. /\ Cardinality(Contract!active) < MaxGlobal
      /\ Cardinality(Contract!on(c)) < MaxChannel[c]
  BY Zenon, <1>0, RoomToInstall
<1>7. /\ state = "Accepting" /\ (state' = "Accepting") = (state = "Accepting")
      /\ t \notin {u \in Tx : result[u] = "accepted"}
  BY Zenon, <1>0
<1> QED BY Zenon, <1>2, <1>3, <1>4, <1>5, <1>6, <1>7, SameCardinality DEF Contract!Accept

\* bind_session on a row is the contract's Bind.
LEMMA BindBinds ==
    ASSUME Inv, NEW t \in Tx, NEW s \in Session, BindSession(t, s)
    PROVE  Contract!Bind(t, s)
<1> DEFINE c == channel[t]
<1>0. /\ pc[t] = "row" /\ t \in rows /\ CallType /\ PoolInv /\ SessionIndex /\ c \in Channel
      /\ by_session[<<c, s>>] = NoTx
      /\ session_key[t] = NoSession => distinct_sessions(c) < MaxDistinct[c]
      /\ session_key' = [session_key EXCEPT ![t] = s] /\ UNCHANGED <<state, pc, channel, result>>
  BY Zenon DEF BindSession, at, rows, Inv, CallType, LedgerInv
<1>1. \A u \in Tx : session_key'[u] = IF u = t THEN s ELSE session_key[u]
  BY Zenon, <1>0 DEF CallType
<1>2. /\ [u \in Tx |-> IF pc[u] = "row" THEN channel[u] ELSE NoChannel][t] = c
      /\ [u \in Tx |-> IF pc[u] = "row" THEN session_key[u] ELSE NoSession][t] = session_key[t]
  BY Zenon, <1>0
<1>3. [u \in Tx |-> IF pc[u] = "row" THEN session_key[u] ELSE NoSession]'
        = [[u \in Tx |-> IF pc[u] = "row" THEN session_key[u] ELSE NoSession] EXCEPT ![t] = s]
  BY ZenonT(40), <1>0, <1>1
<1>4. UNCHANGED <<state = "Accepting", {u \in Tx : result[u] = "accepted"},
                  [u \in Tx |-> IF pc[u] = "row" THEN channel[u] ELSE NoChannel]>>
  BY Zenon, <1>0
<1>5. Contract!sessions(c) = {r \in Session : by_session[<<c, r>>] # NoTx}
  BY Zenon, <1>0, ContractSessions
<1>6. t \in Contract!active
  BY Zenon, <1>0, ContractView
<1>7. s \notin Contract!sessions(c)
  BY Zenon, <1>0, <1>5
<1>8. session_key[t] = NoSession => Cardinality(Contract!sessions(c)) < MaxDistinct[c]
  BY <1>0, <1>5 DEF distinct_sessions
<1> HIDE DEF c
<1> QED BY Zenon, <1>2, <1>3, <1>4, <1>6, <1>7, <1>8, SameCardinality DEF Contract!Bind

\* ledger.remove of a row is the contract's Remove.
LEMMA RemoveRemoves ==
    ASSUME Inv, NEW t \in Tx, RemoveRow(t)
    PROVE  Contract!Remove({t})
<1>1. /\ \A u \in Tx : pc'[u] = IF u = t THEN "rel_ledger" ELSE pc[u]
      /\ UNCHANGED <<state, channel, session_key, result>>
  BY DEF RemoveRow, goes, callVars, Inv, CallType
<1>2. UNCHANGED <<state = "Accepting", {u \in Tx : result[u] = "accepted"}>>
  BY Zenon, <1>1
<1> DEFINE W == [u \in Tx |-> IF pc[u] = "row" THEN channel[u] ELSE NoChannel]
           K == [u \in Tx |-> IF pc[u] = "row" THEN session_key[u] ELSE NoSession]
<1>3. W' = [u \in Tx |-> IF u \in {t} THEN NoChannel ELSE W[u]]
  BY Zenon, <1>1
<1>4. K' = [u \in Tx |-> IF u \in {t} THEN NoSession ELSE K[u]]
  BY Zenon, <1>1
<1> QED BY ZenonT(40), <1>2, <1>3, <1>4 DEF Contract!Remove

\* Every step of admit, of a row or of a shutdown is a step of the contract or invisible.
LEMMA ContractStep ==
    ASSUME Inv, [Next]_vars
    PROVE  [Contract!Next]_(Contract!contractVars)
<1>0. CallType /\ ResultInv /\ LockDiscipline
  BY Zenon DEF Inv, LedgerInv
<1>1. ASSUME NEW t \in Tx, NEW c \in Channel, NEW s \in Session \cup {NoSession}, Call(t, c, s)
      PROVE  UNCHANGED Contract!contractVars
  <2>1. pc[t] = "idle" /\ (goes(t, "done") \/ goes(t, "global")) /\ state' = state
    BY Zenon, <1>1 DEF Call, at
  <2>2. \A u \in Tx : u # t => channel'[u] = channel[u] /\ session_key'[u] = session_key[u]
    BY Zenon, <1>0, <1>1 DEF Call, CallType
  <2>3. result[t] # "accepted"
    BY Zenon, <1>0, <2>1 DEF ResultInv
  <2>4. (\A u \in Tx : u # t => result'[u] = result[u]) /\ result'[t] # "accepted"
    BY Zenon, <1>0, <1>1, <2>3 DEF Call, returns, CallType
  <2> QED BY Zenon, <2>1, <2>2, <2>3, <2>4, QuietCall
<1>2. ASSUME NEW t \in Tx, ReserveGlobal(t) \/ ReserveChannel(t) \/ ReserveLedger(t)
      PROVE  UNCHANGED Contract!contractVars
  <2>1. pc[t] \in {"global", "channel", "ledger"} /\ UNCHANGED <<state, channel, session_key>>
    BY Zenon, <1>2 DEF ReserveGlobal, ReserveChannel, ReserveLedger, at
  <2>2. \/ goes(t, "done") \/ goes(t, "channel") \/ goes(t, "rel_global")
        \/ goes(t, "ledger") \/ goes(t, "rel_channel") \/ goes(t, "lock")
    BY Zenon, <1>2 DEF ReserveGlobal, ReserveChannel, ReserveLedger
  <2>3. result[t] # "accepted"
    BY Zenon, <1>0, <2>1 DEF ResultInv
  <2>4. (\A u \in Tx : u # t => result'[u] = result[u]) /\ result'[t] # "accepted"
    BY ZenonT(30), <1>0, <1>2, <2>3 DEF ReserveGlobal, ReserveChannel, ReserveLedger, CallType
  <2> QED BY Zenon, <2>1, <2>2, <2>3, <2>4, QuietCall
<1>3. ASSUME NEW t \in Tx, Recheck(t)
      PROVE  UNCHANGED Contract!contractVars
  <2>1. /\ pc[t] = "lock" /\ (goes(t, "rel_ledger") \/ goes(t, "install"))
        /\ UNCHANGED <<state, channel, session_key>>
    BY Zenon, <1>3 DEF Recheck, at
  <2>2. result[t] # "accepted"
    BY Zenon, <1>0, <2>1 DEF ResultInv
  <2>3. (\A u \in Tx : u # t => result'[u] = result[u]) /\ result'[t] # "accepted"
    BY Zenon, <1>0, <1>3, <2>2 DEF Recheck, returns, CallType
  <2> QED BY Zenon, <2>1, <2>2, <2>3, QuietCall
<1>4. ASSUME NEW t \in Tx, Install(t)
      PROVE  Contract!Next \/ UNCHANGED Contract!contractVars
  <2>0. /\ pc[t] = "install" /\ UNCHANGED <<state, channel, session_key>>
        /\ channel[t] \in Channel /\ session_key[t] \in Session \cup {NoSession}
        /\ result[t] # "accepted"
    BY Zenon, <1>0, <1>4 DEF Install, at, CallType, ResultInv
  <2>1. CASE goes(t, "rel_ledger") /\ (returns(t, "CapacityExceeded") \/ returns(t, "SpawnFailed"))
    <3>1. (\A u \in Tx : u # t => result'[u] = result[u]) /\ result'[t] # "accepted"
      BY <1>0, <2>1 DEF returns, CallType
    <3> QED BY Zenon, <2>0, <2>1, <3>1, QuietCall
  <2>2. CASE ~crowded(t) /\ insert(t) /\ returns(t, "accepted")
    <3>1. PICK c \in Channel, s \in Session \cup {NoSession} :
             c = channel[t] /\ s = session_key[t]
      BY Zenon, <2>0
    <3>2. Contract!Accept(t, c, s)
      BY Zenon, <1>4, <2>2, <3>1, InstallAccepts
    <3> QED BY Zenon, <3>2 DEF Contract!Next
  <2> QED BY Zenon, <1>4, <2>1, <2>2 DEF Install, drop_entry, rollback
<1>5. ASSUME NEW t \in Tx, Release(t)
      PROVE  UNCHANGED Contract!contractVars
  <2>1. /\ pc[t] # "row" /\ (goes(t, "rel_channel") \/ goes(t, "rel_global") \/ goes(t, "done"))
        /\ UNCHANGED <<state, channel, session_key, result>>
    BY <1>5 DEF Release, release, at, callVars
  <2> QED BY Zenon, <2>1, QuietCall
<1>6. ASSUME NEW t \in Tx, NEW s \in Session, BindSession(t, s)
      PROVE  Contract!Next
  BY Zenon, <1>6, BindBinds DEF Contract!Next
<1>7. ASSUME NEW t \in Tx, RemoveRow(t)
      PROVE  Contract!Next
  <2>1. Contract!Remove({t}) /\ {t} \in SUBSET Tx
    BY Zenon, <1>7, RemoveRemoves
  <2> QED BY Zenon, <2>1 DEF Contract!Next
<1>8. CASE TakeStart \/ UNCHANGED vars
  <2>1. UNCHANGED <<state, pc, channel, session_key, result>>
    BY <1>8 DEF TakeStart, vars, callVars
  <2> QED BY Zenon, <2>1, ContractStutter
<1>9. CASE BeginShutdownInner \/ BeginShutdown
  <2>1. state' # "Accepting" /\ UNCHANGED <<pc, channel, session_key, result>>
    BY Zenon, <1>9 DEF BeginShutdownInner, BeginShutdown, callVars
  <2>2. Contract!Close
    BY <2>1 DEF Contract!Close
  <2> QED BY <2>2 DEF Contract!Next
<1> QED BY Zenon, <1>1, <1>2, <1>3, <1>4, <1>5, <1>6, <1>7, <1>8, <1>9 DEF Next, Admit

\* admit, with its pool, its lock, its rollbacks and its releases, implements one atomic
\* admission, for every set of calls, channels and sessions and for every capacity.
THEOREM AdmissionRefines == Spec => ImplementsContract
<1>1. Init => Contract!Init
  BY DEF Init, Contract!Init
<1>2. Inv /\ [Next]_vars => [Contract!Next]_(Contract!contractVars)
  BY ContractStep
<1> QED BY <1>1, <1>2, InvHolds, PTL DEF Spec, ImplementsContract, Contract!Spec
==============================================================================
