----------------------------- MODULE Coordinator -----------------------------
(***************************************************************************)
(* The transaction coordinator (lifecycle/coordinator.rs): MCP route,      *)
(* session attach, first exchange with its prompt-ready gate, publication  *)
(* of the units, tool loop, inline continuation rounds, and the parked     *)
(* terminal proposal.  An exchange is kept to its outcome (see Exchange),  *)
(* a tool loop to its report (see LoopDispatch).                           *)
(***************************************************************************)
EXTENDS Naturals, FiniteSets

CONSTANTS
    Channels,           \* the channels a host may configure, see ChannelDescriptor
    UnitsPerExchange,   \* units of one exchange at most
    OutputBytes,        \* provider output bytes one exchange may produce
    MaxExchanges,       \* max_provider_exchanges
    MaxContinuations,   \* max_continuations
    MaxOutputTotal      \* max_total_provider_output_bytes

\* What the coordinator looks at of a channel, its effective configuration and
\* the tools selected.
ChannelDescriptor ==
    [kind : {"ExternalAgent", "DirectLlm"}, mode : {"None", "ModelToolCalls", "McpGateway"},
     mcp : {"None", "CreationOnly", "Refreshable"},
     policy : {"CallerControlled", "InlineToolContinuation"}, tools : BOOLEAN]

\* ChannelDescriptor::validate, which a channel passes before it is registered.
validate(ch) ==
    /\ (ch.mode = "McpGateway") = (ch.mcp # "None")
    /\ ch.policy = "InlineToolContinuation" => ch.mode = "ModelToolCalls"

ASSUME CoordinatorAssumption ==
    /\ Channels \subseteq {ch \in ChannelDescriptor : validate(ch)}
    /\ OutputBytes \subseteq Nat
    /\ {UnitsPerExchange, MaxExchanges, MaxContinuations, MaxOutputTotal} \subseteq Nat

VARIABLES
    cPc, cChannel, cTerminal,
    cCancel, cLate,     \* sticky cancel, deadline
    cPublisher,         \* the event publisher accepts commands
    cRoute,             \* none, pending, active or revoked
    cGate,              \* the gate task: idle, opened, bound, established, ok, failed
    cBound,             \* the ledger holds the claimed SessionKey
    cSent,              \* the first exchange's prompt was sent
    cEstablished,       \* EstablishExternal has been admitted
    cPublished,         \* units admitted
    cUnits, cReady,     \* units of the current exchange still to publish; a tool is Ready
    cExchanges, cRounds, cOutput,   \* completed exchanges, continuation rounds, bytes
    cLoops,             \* tool loops run
    cParked             \* pending_worker_proposal

cEnv == <<cCancel, cLate, cPublisher>>
cBudget == <<cExchanges, cRounds, cOutput, cLoops>>
cWork == <<cEstablished, cPublished, cUnits, cReady>>
cMcp == <<cRoute, cGate, cBound, cSent>>
cVars == <<cPc, cChannel, cTerminal, cEnv, cMcp, cWork, cBudget, cParked>>

CoordinatorInit ==
    /\ cPc = "start" /\ cChannel \in Channels /\ cTerminal = "none"
    /\ cCancel = FALSE /\ cLate = FALSE /\ cPublisher = TRUE
    /\ cRoute = "none" /\ cGate = "idle" /\ cBound = FALSE /\ cSent = FALSE
    /\ cEstablished = FALSE /\ cPublished = 0 /\ cUnits = 0 /\ cReady = FALSE
    /\ cExchanges = 0 /\ cRounds = 0 /\ cOutput = 0 /\ cLoops = 0
    /\ cParked = "none"

External == cChannel.kind = "ExternalAgent"
To(pc) == cPc' = pc /\ UNCHANGED cTerminal
Propose(kind) == cPc' = "revoke" /\ cTerminal' = kind

\* An agent's tools are reached through a route installed before its session is.
Routed == cChannel.mode = "McpGateway" /\ cChannel.tools /\ cChannel.mcp = "CreationOnly"

\* The checks before any work (a channel or adapter that is missing, a gateway
\* that is missing or full), and the route of an external agent.
Start ==
    /\ cPc = "start"
    /\ \/ Propose("InvariantFailed") /\ UNCHANGED cRoute
       \/ cLate /\ Propose("DeadlineExceeded") /\ UNCHANGED cRoute
       \/ ~cLate /\ MaxExchanges = 0 /\ Propose("LimitExceeded") /\ UNCHANGED cRoute
       \/ /\ ~cLate /\ MaxExchanges > 0 /\ ~External
          /\ To("exchange") /\ UNCHANGED cRoute
       \/ /\ ~cLate /\ MaxExchanges > 0 /\ External
          /\ To("attach") /\ cRoute' = IF Routed THEN "pending" ELSE "none"
    /\ UNCHANGED <<cChannel, cEnv, cGate, cBound, cSent, cWork, cBudget, cParked>>

\* begin_attach and its completion, raced against the cancel.
Attach ==
    /\ cPc = "attach"
    /\ \/ cCancel /\ Propose("Cancelled")
       \/ ~cCancel /\ To("exchange")
       \/ ~cCancel /\ Propose("InvariantFailed")
    /\ UNCHANGED <<cChannel, cEnv, cMcp, cWork, cBudget, cParked>>

-----------------------------------------------------------------------------
(* The gate task, joined with the first exchange of an external agent.     *)

Opened ==
    /\ cPc = "exchange" /\ External /\ cGate = "idle"
    /\ cGate' = IF cCancel THEN "failed" ELSE "opened"
    /\ UNCHANGED <<cPc, cChannel, cTerminal, cEnv, cRoute, cBound, cSent, cWork, cBudget,
                   cParked>>

\* bind_session under the ledger's mutex: claimed, too many sessions, or refused.
ClaimSession ==
    /\ cGate = "opened"
    /\ \/ cGate' = "bound" /\ cBound' = TRUE
       \/ cGate' \in {"distinct", "failed"} /\ UNCHANGED cBound
    /\ UNCHANGED <<cPc, cChannel, cTerminal, cEnv, cRoute, cSent, cWork, cBudget, cParked>>

GateEstablish ==
    /\ cGate = "bound"
    /\ IF cPublisher THEN cGate' = "established" /\ cEstablished' = TRUE
                     ELSE cGate' = "failed" /\ UNCHANGED cEstablished
    /\ UNCHANGED <<cPc, cChannel, cTerminal, cEnv, cRoute, cBound, cSent, cPublished, cUnits,
                   cReady, cBudget, cParked>>

\* Mutant: proceed without activating the pending route.
ActivateNothing ==
    /\ cGate = "established" /\ cGate' = "ok"
    /\ UNCHANGED <<cPc, cChannel, cTerminal, cEnv, cRoute, cBound, cSent, cWork, cBudget,
                   cParked>>

Activate ==
    /\ cGate = "established"
    /\ \/ cGate' = "ok" /\ cRoute' = (IF cRoute = "pending" THEN "active" ELSE cRoute)
       \/ cRoute = "pending" /\ cGate' = "failed" /\ UNCHANGED cRoute
    /\ UNCHANGED <<cPc, cChannel, cTerminal, cEnv, cBound, cSent, cWork, cBudget, cParked>>

\* Mutant: the join waits for a gate that proceeded.
GateDoneProceeding == ~External \/ cGate = "ok"

GateDone == ~External \/ cGate \in {"ok", "distinct", "failed"}

\* The prompt goes out once the gate proceeds; a direct exchange has no gate.
SendPrompt ==
    /\ cPc = "exchange" /\ ~cSent /\ ~cCancel
    /\ External => cGate = "ok"
    /\ cSent' = TRUE
    /\ UNCHANGED <<cPc, cChannel, cTerminal, cEnv, cRoute, cGate, cBound, cWork, cBudget,
                   cParked>>

\* An outcome: Completed only after the prompt, never over the remaining output.
Outcome(remaining, sent, next) ==
    \/ /\ sent
       /\ \E n \in 0..UnitsPerExchange, bytes \in OutputBytes, ready \in BOOLEAN :
            /\ bytes <= remaining /\ (ready => n > 0)
            /\ cUnits' = n /\ cReady' = ready
            /\ cExchanges' = cExchanges + 1 /\ cOutput' = cOutput + bytes
       /\ To(next)
    \/ /\ \E kind \in {"DeadlineExceeded", "LimitExceeded", "ExchangeFailed"} \cup
                      (IF cCancel THEN {"Cancelled"} ELSE {}) :
            cTerminal' = kind /\ cPc' = IF next = "establish" THEN next ELSE "revoke"
       /\ cUnits' = 0 /\ cReady' = FALSE
       /\ UNCHANGED <<cExchanges, cOutput>>

\* join!(exchange, gate): the first exchange has ended and so has the gate task.
\* A refused gate makes the exchange fail.
FirstExchange ==
    /\ cPc = "exchange" /\ GateDone
    /\ Outcome(MaxOutputTotal, cSent, "establish")
    /\ UNCHANGED <<cChannel, cEnv, cMcp, cEstablished, cPublished, cRounds, cLoops, cParked>>

-----------------------------------------------------------------------------
(* finish_after_exchange.                                                  *)

\* An external id discovered late is announced before any unit; a failed
\* exchange, or one without an id, has nothing to announce.
Establish ==
    /\ cPc = "establish"
    /\ \/ To("publish") /\ UNCHANGED cEstablished
       \/ /\ ~cEstablished /\ cTerminal = "none" /\ cCancel
          /\ Propose("Cancelled") /\ UNCHANGED cEstablished
       \/ /\ ~cEstablished /\ cTerminal = "none" /\ ~cCancel
          /\ IF cPublisher THEN To("publish") /\ cEstablished' = TRUE
                           ELSE Propose("EventDeliveryFailed") /\ UNCHANGED cEstablished
    /\ UNCHANGED <<cChannel, cEnv, cMcp, cPublished, cUnits, cReady, cBudget, cParked>>

\* What follows the units: nothing more, or the tool loop.
AfterUnits ==
    IF cTerminal # "none" THEN Propose(cTerminal)
    ELSE IF cChannel.mode = "McpGateway" \/ ~cReady THEN Propose("Completed")
    ELSE To("loop")

PublishUnit ==
    /\ cPc = "publish"
    /\ \/ cUnits = 0 /\ AfterUnits /\ UNCHANGED <<cPublished, cUnits>>
       \/ cUnits > 0 /\ cCancel /\ Propose("Cancelled") /\ UNCHANGED <<cPublished, cUnits>>
       \/ /\ cUnits > 0 /\ ~cCancel /\ cPublisher /\ UNCHANGED <<cPc, cTerminal>>
          /\ cPublished' = 1 /\ cUnits' = cUnits - 1
       \/ /\ cUnits > 0 /\ ~cCancel /\ ~cPublisher
          /\ Propose("EventDeliveryFailed") /\ UNCHANGED <<cPublished, cUnits>>
    /\ UNCHANGED <<cChannel, cEnv, cMcp, cEstablished, cReady, cBudget, cParked>>

\* The loop's report decides: the caller continues, or the next round starts,
\* which needs tool results.
RunLoop ==
    /\ cPc = "loop"
    /\ cLoops' = cLoops + 1
    /\ \/ /\ cRounds = 0
          /\ IF cChannel.policy = "CallerControlled"
             THEN Propose("ContinuationRequired")
             ELSE To("round") \/ Propose("InvariantFailed")
       \/ cRounds > 0 /\ (To("round") \/ Propose("InvariantFailed"))
       \/ cCancel /\ Propose("Cancelled")
       \/ cLate /\ Propose("DeadlineExceeded")
       \/ ~cPublisher /\ Propose("EventDeliveryFailed")
       \/ Propose("InvariantFailed")
    /\ UNCHANGED <<cChannel, cEnv, cMcp, cWork, cExchanges, cRounds, cOutput, cParked>>

Exhausted == cExchanges >= MaxExchanges \/ cOutput >= MaxOutputTotal

\* The head of run_inline_tool_continuation's loop.  The tool round may not be
\* appendable, which is found before the output ceiling is looked at.
NextRound ==
    /\ cPc = "round"
    /\ \/ cRounds >= MaxContinuations /\ Propose("LimitExceeded") /\ UNCHANGED cRounds
       \/ /\ cRounds < MaxContinuations /\ cLate
          /\ Propose("DeadlineExceeded") /\ UNCHANGED cRounds
       \/ /\ cRounds < MaxContinuations /\ ~cLate /\ Exhausted
          /\ Propose("LimitExceeded") /\ UNCHANGED cRounds
       \/ /\ cRounds < MaxContinuations /\ ~cLate /\ cExchanges < MaxExchanges
          /\ Propose("EncodingFailed") /\ UNCHANGED cRounds
       \/ /\ cRounds < MaxContinuations /\ ~cLate /\ ~Exhausted
          /\ To("continuation") /\ cRounds' = cRounds + 1
    /\ UNCHANGED <<cChannel, cEnv, cMcp, cWork, cExchanges, cOutput, cLoops, cParked>>

\* Its exchange, over the remaining budget; then its units and perhaps its tools.
ContinuationExchange ==
    /\ cPc = "continuation"
    /\ Outcome(MaxOutputTotal - cOutput, TRUE, "publish")
    /\ UNCHANGED <<cChannel, cEnv, cMcp, cEstablished, cPublished, cRounds, cLoops, cParked>>

-----------------------------------------------------------------------------

\* revoke_mcp, on every path on which a route was installed.
Revoke ==
    /\ cPc = "revoke" /\ To("park")
    /\ cRoute' = IF cRoute = "none" THEN "none" ELSE "revoked"
    /\ UNCHANGED <<cChannel, cEnv, cGate, cBound, cSent, cWork, cBudget, cParked>>

\* run_coordinator parks the proposal on the ledger, then tries to notify.
Park ==
    /\ cPc = "park" /\ To("done") /\ cParked' = cTerminal
    /\ UNCHANGED <<cChannel, cEnv, cMcp, cWork, cBudget>>

CoordinatorEnv ==
    /\ cPc # "done"
    /\ \/ ~cCancel /\ cCancel' = TRUE /\ UNCHANGED <<cLate, cPublisher>>
       \/ ~cLate /\ cLate' = TRUE /\ UNCHANGED <<cCancel, cPublisher>>
       \/ cPublisher /\ cPublisher' = FALSE /\ UNCHANGED <<cCancel, cLate>>
    /\ UNCHANGED <<cPc, cChannel, cTerminal, cMcp, cWork, cBudget, cParked>>

GateStep == Opened \/ ClaimSession \/ GateEstablish \/ Activate

CoordinatorStep ==
    \/ Start \/ Attach \/ SendPrompt \/ FirstExchange \/ Establish \/ PublishUnit
    \/ RunLoop \/ NextRound \/ ContinuationExchange \/ Revoke \/ Park

CoordinatorNext == CoordinatorStep \/ GateStep \/ CoordinatorEnv

CoordinatorFairness == WF_cVars(CoordinatorStep) /\ WF_cVars(GateStep)

CoordinatorSpec == CoordinatorInit /\ [][CoordinatorNext]_cVars /\ CoordinatorFairness

-----------------------------------------------------------------------------
(* No MCP route outlives its transaction's coordinator, whichever of the   *)
(* early returns it leaves by.                                             *)
RouteRevoked == cParked # "none" => cRoute \in {"none", "revoked"}

(* The prompt of an external agent goes out only with the session claimed  *)
(* in the ledger, announced to the host and its route, if any, activated.  *)
PromptReady ==
    (External /\ cSent) =>
        cBound /\ cEstablished /\ (Routed => cRoute \in {"active", "revoked"})

(* The continuation loop stays within every ceiling of TransactionLimits:  *)
(* exchanges, rounds and total provider output.                            *)
BudgetsKept ==
    /\ cExchanges <= MaxExchanges
    /\ cRounds <= MaxContinuations
    /\ cOutput <= MaxOutputTotal

(* A tool call is executed by one of the two paths only: with McpGateway   *)
(* the tool loop never runs, and ContinuationRequired is proposed only     *)
(* after exactly one exchange and one loop under CallerControlled.         *)
SingleDispatch ==
    /\ cChannel.mode = "McpGateway" => cLoops = 0
    /\ cTerminal = "ContinuationRequired" =>
          cChannel.policy = "CallerControlled" /\ cLoops = 1 /\ cExchanges = 1

(* No unit of an external agent's session is published before the session  *)
(* was announced.                                                          *)
EstablishedFirst == (External /\ cPublished > 0) => cEstablished

(* The coordinator always ends with a parked proposal.                     *)
ProposalParked == (cPc # "start") ~> (cPc = "done" /\ cParked # "none")
=============================================================================
