------------------------------ MODULE Exchange ------------------------------
(***************************************************************************)
(* One supervised provider exchange (lifecycle/exchange.rs): encode, open  *)
(* through the connector, pump raw output into the interpreter, collect    *)
(* the units, reconcile the two terminals.  The exchange, the connector's  *)
(* owner, the pump, the collector, the interpreter and the coordinator's   *)
(* prompt-ready gate run concurrently.  The connector and the interpreter  *)
(* are kept to what the exchange sees of them.                             *)
(***************************************************************************)
EXTENDS Naturals, Sequences, FiniteSets

CONSTANTS
    Gated,          \* whether prompt_ready is present: {TRUE} for external agents
    MaxChunks,      \* chunks the provider sends at most
    MaxRetained,    \* max_retained_unit_bytes, counted in units
    MaxOutput,      \* max_remaining_provider_output_bytes, counted in chunks
    EventCap        \* capacity of the interpreter's event queue

ASSUME ExchangeAssumption ==
    /\ Gated \subseteq BOOLEAN
    /\ {MaxChunks, MaxRetained, MaxOutput} \subseteq Nat
    /\ EventCap \in Nat \ {0}

VARIABLES
    xPc,            \* position of run_encoded_exchange
    xResult,        \* Completed, or the failure's terminal
    xTerminate,     \* control.terminate has been called
    xCancel, xLate, xGrace,  \* cancelled, deadline passed, cleanup grace passed
    xOwner, xPump, xColl,    \* the supervised children
    xConn,          \* the connection: none, opening, open, or its end kind
    xInterp,        \* the interpretation: none, running, or its end kind
    xSource,        \* chunks received so far
    xInput,         \* the interpreter's input queue
    xEmitted,       \* units the interpreter has published
    xEvents,        \* its event queue
    xCollected,     \* units pushed by the collector
    xLimit, xOutLimit,       \* limit_tx, output_limit_tx: unsent, sent or dropped
    xGate,          \* none, unasked, wait, ok, distinct or failed
    xSent           \* the request body has been handed to the connector

xChild == <<xOwner, xPump, xColl>>
xFlow == <<xSource, xInput, xEmitted, xEvents, xCollected, xLimit, xOutLimit>>
xTime == <<xCancel, xLate, xGrace>>
xVars == <<xPc, xResult, xTerminate, xTime, xChild, xConn, xInterp, xFlow, xGate, xSent>>

CleanEnd == {"RemoteEof", "LocalShutdown"}
ConnEnd == CleanEnd \cup {"TransportFailure", "Cancelled", "Terminated"}
InterpEnd == {"Complete", "Cancelled", "Terminated", "TransportFailed", "DialectFailed",
              "LimitExceeded", "InvariantFailed"}

ExchangeInit ==
    /\ xPc = "encode" /\ xResult = "none" /\ xTerminate = FALSE
    /\ xCancel = FALSE /\ xLate = FALSE /\ xGrace = FALSE
    /\ xOwner = "none" /\ xPump = "none" /\ xColl = "none"
    /\ xConn = "none" /\ xInterp = "none"
    /\ xSource = 0 /\ xInput = <<>> /\ xEmitted = 0 /\ xEvents = <<>> /\ xCollected = 0
    /\ xLimit = "unsent" /\ xOutLimit = "unsent"
    /\ xGate \in {IF g THEN "unasked" ELSE "none" : g \in Gated}
    /\ xSent = FALSE

-----------------------------------------------------------------------------
(* The exchange itself.  A failure ends at once, or after terminate and    *)
(* the wait for the children (fail_cleanup).                               *)

Return(kind) == xPc' = "done" /\ xResult' = kind /\ UNCHANGED xTerminate

FailCleanup(kind) == xPc' = "join" /\ xResult' = kind /\ xTerminate' = TRUE

Continue(pc) == xPc' = pc /\ UNCHANGED <<xResult, xTerminate>>

\* The body is encoded and held against the byte budgets.
EncodeInitial ==
    /\ xPc = "encode"
    /\ \/ Continue("begin")
       \/ \E kind \in {"EncodingFailed", "LimitExceeded"} : Return(kind)
    /\ UNCHANGED <<xTime, xChild, xConn, xInterp, xFlow, xGate, xSent>>

\* A continuation has no gate, and a ceiling for its context as well.
EncodeContinuation == xGate = "none" /\ EncodeInitial

\* begin_open only builds the owner's future; the open I/O starts with its task.
BeginOpen ==
    /\ xPc = "begin"
    /\ IF xLate THEN Return("DeadlineExceeded") ELSE Continue("spawnOwner")
    /\ UNCHANGED <<xTime, xChild, xConn, xInterp, xFlow, xGate, xSent>>

\* Spawn of the owner: accepted, handed back (Busy, Rejected), or orphaned.
SpawnOwner ==
    /\ xPc = "spawnOwner"
    /\ \/ Continue("opening") /\ xOwner' = "running" /\ xConn' = "opening"
       \/ /\ xPc' = "done" /\ xResult' = "InvariantFailed" /\ xTerminate' = TRUE
          /\ UNCHANGED <<xOwner, xConn>>
       \/ /\ FailCleanup("InvariantFailed")
          /\ \/ xOwner' = "orphan" /\ xConn' = "opening"
             \/ UNCHANGED <<xOwner, xConn>>
    /\ UNCHANGED <<xTime, xPump, xColl, xInterp, xFlow, xGate, xSent>>

\* The select on the open is biased towards a cancel.
AwaitOpen ==
    /\ xPc = "opening"
    /\ \/ xCancel /\ FailCleanup("Cancelled")
       \/ ~xCancel /\ xConn = "open" /\ Continue("interpret")
       \/ ~xCancel /\ xConn \in ConnEnd /\ FailCleanup("ChannelOpenFailed")
       \/ ~xCancel /\ xLate /\ xConn = "opening" /\ FailCleanup("DeadlineExceeded")
    /\ UNCHANGED <<xTime, xChild, xConn, xInterp, xFlow, xGate, xSent>>

StartInterpreter ==
    /\ xPc = "interpret"
    /\ \/ Continue("spawnPump") /\ xInterp' = "running"
       \/ FailCleanup("InterpretationFailed") /\ UNCHANGED xInterp
    /\ UNCHANGED <<xTime, xChild, xConn, xFlow, xGate, xSent>>

SpawnPump ==
    /\ xPc = "spawnPump"
    /\ \/ /\ Continue(IF xGate = "unasked" THEN "askGate" ELSE "send")
          /\ xPump' = "running"
       \/ FailCleanup("InvariantFailed") /\ xPump' \in {"none", "orphan"}
    /\ UNCHANGED <<xTime, xOwner, xColl, xConn, xInterp, xFlow, xGate, xSent>>

\* The gate learns the opened session; its task may be gone already.
AskGate ==
    /\ xPc = "askGate"
    /\ \/ Continue("gate") /\ xGate' = "wait"
       \/ FailCleanup("InvariantFailed") /\ xGate' = "failed"
    /\ UNCHANGED <<xTime, xChild, xConn, xInterp, xFlow, xSent>>

proceed == xGate = "ok"

\* The wait for the gate has no deadline of its own.
AwaitGate ==
    /\ xPc = "gate"
    /\ \/ xCancel /\ FailCleanup("Cancelled")
       \/ ~xCancel /\ proceed /\ Continue("send")
       \/ ~xCancel /\ xGate = "distinct" /\ FailCleanup("LimitExceeded")
       \/ ~xCancel /\ xGate = "failed" /\ ~proceed /\ FailCleanup("InvariantFailed")
    /\ UNCHANGED <<xTime, xChild, xConn, xInterp, xFlow, xGate, xSent>>

\* send and finish on the connector's input, neither cancellable nor timed.
SendBody ==
    /\ xPc = "send"
    /\ \/ xConn = "open" /\ xSent' = TRUE /\ Continue("spawnUnits")
       \/ xConn \in ConnEnd /\ FailCleanup("ConnectorFailed") /\ UNCHANGED xSent
    /\ UNCHANGED <<xTime, xChild, xConn, xInterp, xFlow, xGate>>

SpawnUnits ==
    /\ xPc = "spawnUnits"
    /\ \/ Continue("select") /\ xColl' = "running"
       \/ FailCleanup("InvariantFailed") /\ xColl' \in {"exited", "orphan"}
    /\ UNCHANGED <<xTime, xOwner, xPump, xConn, xInterp, xFlow, xGate, xSent>>

\* Mutant: after a clean connection the interpretation's end is not looked at.
ReconciledConn ==
    IF xConn = "TransportFailure" THEN "ConnectorFailed"
    ELSE IF xConn \notin CleanEnd THEN xConn ELSE "Completed"

\* reconcile_terminals: the connection's end is looked at first.
Reconciled ==
    IF xConn = "TransportFailure" THEN "ConnectorFailed"
    ELSE IF xConn \notin CleanEnd THEN xConn
    ELSE CASE xInterp = "Complete" -> "Completed"
           [] xInterp \in {"Cancelled", "Terminated"} -> xInterp
           [] xInterp = "TransportFailed" -> "ConnectorFailed"
           [] OTHER -> "InterpretationFailed"

BothEnded == xInterp \in InterpEnd /\ xConn \in ConnEnd

\* The final select, in its order: cancel, the two limits, the deadline, the ends.
Select ==
    /\ xPc = "select"
    /\ \/ xCancel /\ FailCleanup("Cancelled")
       \/ ~xCancel /\ "sent" \in {xLimit, xOutLimit} /\ FailCleanup("LimitExceeded")
       \/ /\ ~xCancel /\ "sent" \notin {xLimit, xOutLimit} /\ xLate
          /\ FailCleanup("DeadlineExceeded")
       \/ /\ ~xCancel /\ "sent" \notin {xLimit, xOutLimit} /\ ~xLate /\ BothEnded
          /\ xPc' = "join" /\ xResult' = Reconciled /\ UNCHANGED xTerminate
    /\ UNCHANGED <<xTime, xChild, xConn, xInterp, xFlow, xGate, xSent>>

\* Mutant: the wait for the children has no grace.
JoinUngraced ==
    /\ xPc = "join" /\ "running" \notin {xOwner, xPump, xColl} /\ xPc' = "done"
    /\ UNCHANGED <<xResult, xTerminate, xTime, xChild, xConn, xInterp, xFlow, xGate, xSent>>

\* ChildJoins::wait: all children have reported, or the grace has passed.
Join ==
    /\ xPc = "join"
    /\ xGrace \/ "running" \notin {xOwner, xPump, xColl}
    /\ xPc' = "done"
    /\ UNCHANGED <<xResult, xTerminate, xTime, xChild, xConn, xInterp, xFlow, xGate, xSent>>

-----------------------------------------------------------------------------
(* The children.  One whose spawn was orphaned may run, and nobody joins it. *)

Alive == {"running", "orphan"}

\* The owner opens, relays, and ends the connection; terminate makes it end.
TransportStep ==
    /\ xOwner \in Alive
    /\ \/ xConn = "opening" /\ xConn' = "open" /\ UNCHANGED xOwner
       \/ /\ xConn \in {"opening", "open"}
          /\ xConn' \in ConnEnd /\ (xTerminate \/ xConn' # "Terminated")
          /\ UNCHANGED xOwner
       \/ xConn \in ConnEnd /\ xOwner' = "exited" /\ UNCHANGED xConn
    /\ UNCHANGED <<xPc, xResult, xTerminate, xTime, xPump, xColl, xInterp, xFlow, xGate, xSent>>

\* The pump forwards a chunk; beyond the output budget it fails the source.
PumpChunk ==
    /\ xPump \in Alive /\ xConn = "open" /\ xSent /\ xSource < MaxChunks
    /\ xSource' = xSource + 1
    /\ \/ /\ xSource' > MaxOutput
          /\ xOutLimit' = "sent" /\ xPump' = "exited" /\ xInput' = Append(xInput, "fail")
       \/ /\ xSource' <= MaxOutput /\ xInterp = "running"
          /\ xInput' = Append(xInput, "chunk") /\ UNCHANGED <<xOutLimit, xPump>>
       \/ /\ xSource' <= MaxOutput /\ xInterp # "running"
          /\ xPump' = "exited" /\ UNCHANGED <<xOutLimit, xInput>>
    /\ UNCHANGED <<xPc, xResult, xTerminate, xTime, xOwner, xColl, xConn, xInterp, xEmitted,
                   xEvents, xCollected, xLimit, xGate, xSent>>

\* End of output: finish_clean (seal, then end), cancel or transport_failed.
PumpEnd ==
    /\ xPump \in Alive /\ xConn \in ConnEnd
    /\ xPump' = "exited"
    /\ xInput' = xInput \o (IF xConn \in CleanEnd THEN <<"seal", "clean">>
                            ELSE IF xConn = "TransportFailure" THEN <<"fail">>
                            ELSE <<"cancel">>)
    /\ UNCHANGED <<xPc, xResult, xTerminate, xTime, xOwner, xColl, xConn, xInterp, xSource,
                   xEmitted, xEvents, xCollected, xLimit, xOutLimit, xGate, xSent>>

\* How the interpretation ends on a command: after a chunk only by an error.
EndOn(cmd) == CASE cmd = "chunk" -> {"DialectFailed", "LimitExceeded"}
                [] cmd = "seal" -> {"LimitExceeded", "TransportFailed"}
                [] cmd = "clean" -> {"Complete"}
                [] cmd = "cancel" -> {"Cancelled"}
                [] cmd = "fail" -> {"TransportFailed"}

\* A chunk or the sealing publishes a unit or none.  The publication waits
\* for room and fails when the collector is gone, which ends the
\* interpretation.  At the end Ended is queued before the completion fires.
InterpreterStep ==
    /\ xInterp = "running" /\ xInput # <<>>
    /\ xInput' = Tail(xInput)
    /\ \/ /\ Head(xInput) \in {"chunk", "seal"}
          /\ \/ /\ Len(xEvents) < EventCap /\ xColl # "exited"
                /\ xEvents' = Append(xEvents, "unit") /\ xEmitted' = xEmitted + 1
             \/ UNCHANGED <<xEvents, xEmitted>>
          /\ UNCHANGED xInterp
       \/ /\ xInterp' \in EndOn(Head(xInput))
          /\ \/ Len(xEvents) < EventCap /\ xColl # "exited"
                /\ xEvents' = Append(xEvents, "ended")
             \/ xColl = "exited" /\ UNCHANGED xEvents
          /\ UNCHANGED xEmitted
    /\ UNCHANGED <<xPc, xResult, xTerminate, xTime, xChild, xConn, xSource, xCollected, xLimit,
                   xOutLimit, xGate, xSent>>

Collect ==
    /\ xColl \in Alive /\ xEvents # <<>>
    /\ xEvents' = Tail(xEvents)
    /\ IF Head(xEvents) = "ended"
       THEN xColl' = "exited" /\ UNCHANGED <<xCollected, xLimit>>
       ELSE IF xCollected + 1 > MaxRetained
       THEN xColl' = "exited" /\ xLimit' = "sent" /\ UNCHANGED xCollected
       ELSE xCollected' = xCollected + 1 /\ UNCHANGED <<xColl, xLimit>>
    /\ UNCHANGED <<xPc, xResult, xTerminate, xTime, xOwner, xPump, xConn, xInterp, xSource,
                   xInput, xEmitted, xOutLimit, xGate, xSent>>

\* The coordinator's gate task claims the session, activates MCP and answers.
GateAnswers ==
    /\ xGate = "wait"
    /\ xGate' \in {"ok", "distinct", "failed"}
    /\ UNCHANGED <<xPc, xResult, xTerminate, xTime, xChild, xConn, xInterp, xFlow, xSent>>

\* The transaction is cancelled.
Cancel ==
    /\ xPc # "done" /\ ~xCancel /\ xCancel' = TRUE
    /\ UNCHANGED <<xPc, xResult, xTerminate, xLate, xGrace, xChild, xConn, xInterp, xFlow, xGate, xSent>>

\* The exchange's deadline passes, or the grace of the joins.
Expire ==
    /\ xPc # "done"
    /\ \/ ~xLate /\ xLate' = TRUE /\ UNCHANGED xGrace
       \/ xPc = "join" /\ ~xGrace /\ xGrace' = TRUE /\ UNCHANGED xLate
    /\ UNCHANGED <<xPc, xResult, xTerminate, xCancel, xChild, xConn, xInterp, xFlow, xGate, xSent>>

ExchangeStep == \/ EncodeInitial \/ EncodeContinuation \/ BeginOpen \/ SpawnOwner \/ AwaitOpen \/ StartInterpreter
                \/ SpawnPump \/ AskGate \/ AwaitGate \/ SendBody \/ SpawnUnits
                \/ Select \/ Join

ExchangeNext == \/ ExchangeStep \/ TransportStep \/ PumpChunk \/ PumpEnd \/ InterpreterStep
                \/ Collect \/ GateAnswers \/ Cancel \/ Expire

\* The runtime polls the exchange, the gate task answers, and time passes.
ExchangeFairness == WF_xVars(ExchangeStep) /\ WF_xVars(GateAnswers) /\ WF_xVars(Expire)

ExchangeSpec == ExchangeInit /\ [][ExchangeNext]_xVars /\ ExchangeFairness

-----------------------------------------------------------------------------
(* Completed is reported only when both sides ended cleanly, and nothing   *)
(* the exchange was told to stop for was lost: neither a cancel seen by    *)
(* the select nor a limit signalled before it (biased order).              *)
CompletedEndsClean ==
    (xPc \in {"join", "done"} /\ xResult = "Completed") =>
        xConn \in CleanEnd /\ xInterp = "Complete" /\ xOutLimit # "sent"

(* No connection outlives its exchange unattended: when the exchange has   *)
(* returned, a connection that was opened has ended or has been told to    *)
(* terminate (every early return goes through fail_cleanup).               *)
ConnectionReleased ==
    (xPc = "done" /\ xConn \in {"opening", "open"}) => xTerminate

(* The prompt is never sent before the session is claimed and its MCP      *)
(* route activated (D-026), nor after the gate refused.                    *)
PromptAfterClaim == xSent => xGate \in {"none", "ok"}

(* An exchange always returns: the deadline, the cleanup grace and the     *)
(* gate bound every wait of it.                                            *)
ExchangeReturns == (xPc # "encode") ~> (xPc = "done")
=============================================================================
