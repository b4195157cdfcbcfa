-------------------------- MODULE AdmissionContract --------------------------
(***************************************************************************)
(* What submit promises: an admission is one indivisible step that finds   *)
(* the runtime open, room globally, room on the channel, the session free  *)
(* and room for one more distinct session.  However admit reserves, locks, *)
(* rolls back and releases, a caller can tell no difference.               *)
(***************************************************************************)
EXTENDS Naturals, FiniteSets

CONSTANTS
    Tx, Channel, Session,
    NoChannel, NoSession,
    MaxGlobal,      \* TransactionLimits.max_active
    MaxChannel,     \* ChannelLimits.max_active_transactions, per channel
    MaxDistinct     \* ChannelLimits.max_distinct_sessions, per channel

VARIABLES
    open,           \* whether the runtime accepts transactions
    accepted,       \* transactions whose submit returned a receipt
    where,          \* the channel an active transaction holds, or NoChannel
    key             \* the session an active transaction holds, or NoSession

contractVars == <<open, accepted, where, key>>

active == {t \in Tx : where[t] # NoChannel}
on(c) == {t \in Tx : where[t] = c}
sessions(c) == {s \in Session : \E t \in on(c) : key[t] = s}

Init ==
    /\ open = TRUE
    /\ accepted = {}
    /\ where = [t \in Tx |-> NoChannel]
    /\ key = [t \in Tx |-> NoSession]

Accept(t, c, s) ==
    /\ open
    /\ t \notin accepted
    /\ Cardinality(active) < MaxGlobal
    /\ Cardinality(on(c)) < MaxChannel[c]
    /\ s # NoSession => s \notin sessions(c) /\ Cardinality(sessions(c)) < MaxDistinct[c]
    /\ accepted' = accepted \cup {t}
    /\ where' = [where EXCEPT ![t] = c]
    /\ key' = [key EXCEPT ![t] = s]
    /\ UNCHANGED open

\* A transaction takes a session it did not name, or trades its session for another.
Bind(t, s) ==
    /\ t \in active
    /\ s \notin sessions(where[t])
    /\ key[t] = NoSession => Cardinality(sessions(where[t])) < MaxDistinct[where[t]]
    /\ key' = [key EXCEPT ![t] = s]
    /\ UNCHANGED <<open, accepted, where>>

Remove(ts) ==
    /\ where' = [t \in Tx |-> IF t \in ts THEN NoChannel ELSE where[t]]
    /\ key' = [t \in Tx |-> IF t \in ts THEN NoSession ELSE key[t]]
    /\ UNCHANGED <<open, accepted>>

Close == open' = FALSE /\ UNCHANGED <<accepted, where, key>>

Next ==
    \/ \E t \in Tx, c \in Channel, s \in Session \cup {NoSession} : Accept(t, c, s)
    \/ \E t \in Tx, s \in Session : Bind(t, s)
    \/ \E ts \in SUBSET Tx : Remove(ts)
    \/ Close

Spec == Init /\ [][Next]_contractVars
==============================================================================
