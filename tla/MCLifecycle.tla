---------------------------- MODULE MCLifecycle ----------------------------
(* Instances of Lifecycle for TLC.                                         *)
EXTENDS Lifecycle

CONSTANTS t1, t2, s1, s2, w1

\* While a worker is asked for or registered, exploration stops at a forced
\* termination and at a coordinator that proposes anything but completion.
WorkerUnforced ==
    spawn_q # <<>> \/ (\E k \in registered : k[2] \in Worker) =>
        /\ \A i \in DOMAIN control_q : control_q[i].op # "ForceTerminate"
        /\ \A i \in DOMAIN worker_q : worker_q[i].kind = "Completed"
        /\ \A t \in Tx : terminal[t] # "Terminated" /\ pending[t] # "Cancelled"

\* Exploration stops at a shutdown, and at commands for any transaction but t1.
TerminateFirstOnly ==
    /\ state = "Accepting"
    /\ \A i \in DOMAIN control_q : control_q[i].tx = t1

\* Two transactions: commands for t1 while no session is bound, and a session
\* bound only where no command has been decided.
PairBounds ==
    /\ TerminateFirstOnly
    /\ \/ \A t \in Tx : session_key[t] = NoSession
       \/ control_q = <<>> /\ \A t \in Tx : terminal[t] \notin {"Cancelled", "Terminated"}
============================================================================
