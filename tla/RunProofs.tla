----------------------------- MODULE RunProofs -----------------------------
(***************************************************************************)
(* Proofs about one transaction's run: the order and the budgets of the    *)
(* coordinator (Coordinator), the ends of an exchange (Exchange) and of    *)
(* the connection under it (Connection), the teardown of an agent process  *)
(* (AgentProcess), and how tool calls share the runtime's permits and      *)
(* children (ToolDispatch), for every set of channels, callers, profiles   *)
(* and dispatches, every ceiling and every capacity.                       *)
(***************************************************************************)
EXTENDS Coordinator, Exchange, Connection, AgentProcess, ToolDispatch, TLAPS

-----------------------------------------------------------------------------
(* The coordinator.                                                        *)

Unsent == {"start", "attach", "exchange"}
Continuing == {"loop", "round", "continuation"}
Leaving == {"revoke", "park", "done"}

CoordinatorType ==
    /\ cPc \in Unsent \cup Continuing \cup Leaving \cup {"establish", "publish"}
    /\ cChannel \in Channels
    /\ cRoute \in {"none", "pending", "active", "revoked"}
    /\ cGate \in {"idle", "opened", "bound", "established", "ok", "distinct", "failed"}
    /\ cUnits \in Nat /\ cPublished \in Nat
    /\ cExchanges \in Nat /\ cRounds \in Nat /\ cOutput \in Nat /\ cLoops \in Nat

\* The route follows the gate and is gone when the proposal is parked.
RouteInv ==
    /\ cParked # "none" => cPc = "done"
    /\ cPc \in {"park", "done"} => cRoute \in {"none", "revoked"}
    /\ cPc = "exchange" /\ External /\ Routed => cRoute # "none"
    /\ cPc = "attach" /\ Routed => cRoute # "none"
    /\ cPc = "attach" => External
    /\ cGate # "idle" /\ Routed => cRoute # "none"
    /\ cGate = "ok" /\ Routed => cRoute \in {"active", "revoked"}

\* What the gate did is done for good, and the prompt follows it.
GateInv ==
    /\ cPc \in {"start", "attach"} => cGate = "idle"
    /\ cGate \in {"bound", "established", "ok"} => cBound
    /\ cGate \in {"established", "ok"} => cEstablished
    /\ External /\ cSent => cGate = "ok"
    /\ cPc \notin Unsent /\ cTerminal = "none" => cSent
    /\ cUnits > 0 => cSent
    /\ cPublished > 0 => cSent

\* How much of the budgets each position has used.
BudgetInv ==
    /\ cPc \in Unsent => cExchanges = 0 /\ cOutput = 0 /\ cRounds = 0 /\ cLoops = 0
    /\ cPc \in {"attach", "exchange"} => MaxExchanges > 0
    /\ cPc = "continuation" => cExchanges < MaxExchanges /\ cOutput < MaxOutputTotal /\ cRounds > 0

\* Where the proposed terminal comes from, and the first round's counts.
TerminalInv ==
    /\ cPc \in Unsent \cup Continuing => cTerminal = "none"
    /\ cPc \in Continuing => cChannel.mode # "McpGateway"
    /\ cTerminal = "ContinuationRequired" => cPc \in Leaving
    /\ (cPc \in {"establish", "publish", "loop"} /\ cRounds = 0 /\ cTerminal = "none") =>
          cExchanges = 1 /\ cLoops = 0
    /\ cPc = "establish" => cRounds = 0

CoordinatorInv ==
    /\ CoordinatorType /\ RouteInv /\ GateInv /\ BudgetInv /\ TerminalInv
    /\ BudgetsKept /\ SingleDispatch

\* The numbers among the constants.
LEMMA CoordinatorNumbers ==
    /\ UnitsPerExchange \in Nat /\ MaxExchanges \in Nat /\ MaxContinuations \in Nat
    /\ MaxOutputTotal \in Nat /\ OutputBytes \subseteq Nat
BY Zenon, CoordinatorAssumption

\* Every step of the coordinator, its gate and its environment keeps the types,
LEMMA CoordinatorTypeStep ==
    ASSUME CoordinatorInv, [CoordinatorNext]_cVars
    PROVE  CoordinatorType'
<1>0. CoordinatorType /\ BudgetInv
  BY Zenon DEF CoordinatorInv
<1> USE <1>0, CoordinatorNumbers
    DEF CoordinatorType, BudgetInv, Unsent, Continuing, Leaving
<1>1. CASE Start
  BY Zenon, <1>1 DEF Start, To, Propose, cEnv, cBudget, cWork, cMcp
<1>2. CASE Attach
  BY Zenon, <1>2 DEF Attach, To, Propose, cEnv, cBudget, cWork, cMcp
<1>3. CASE Opened
  BY Zenon, <1>3 DEF Opened, cEnv, cBudget, cWork, cMcp
<1>4. CASE ClaimSession
  BY Zenon, <1>4 DEF ClaimSession, cEnv, cBudget, cWork, cMcp
<1>5. CASE GateEstablish
  BY Zenon, <1>5 DEF GateEstablish, cEnv, cBudget, cWork, cMcp
<1>6. CASE Activate
  BY Zenon, <1>6 DEF Activate, cEnv, cBudget, cWork, cMcp
<1>7. CASE SendPrompt
  BY Zenon, <1>7 DEF SendPrompt, cEnv, cBudget, cWork, cMcp
<1>8. CASE FirstExchange
  BY <1>8 DEF FirstExchange, Outcome, GateDone, To, cEnv, cBudget, cWork, cMcp
<1>9. CASE Establish
  BY Zenon, <1>9 DEF Establish, To, Propose, cEnv, cBudget, cWork, cMcp
<1>10. CASE PublishUnit
  BY SMTT(20), <1>10 DEF PublishUnit, AfterUnits, To, Propose, cEnv, cBudget, cWork, cMcp
<1>11. CASE RunLoop
  BY SMTT(20), <1>11 DEF RunLoop, To, Propose, cEnv, cBudget, cWork, cMcp
<1>12. CASE NextRound
  BY <1>12 DEF NextRound, Exhausted, To, Propose, cEnv, cBudget, cWork, cMcp
<1>13. CASE ContinuationExchange
  BY <1>13 DEF ContinuationExchange, Outcome, To, cEnv, cBudget, cWork, cMcp
<1>14. CASE Revoke
  BY Zenon, <1>14 DEF Revoke, To, cEnv, cBudget, cWork, cMcp
<1>15. CASE Park
  BY Zenon, <1>15 DEF Park, To, cEnv, cBudget, cWork, cMcp
<1>16. CASE CoordinatorEnv
  BY Zenon, <1>16 DEF CoordinatorEnv, cEnv, cBudget, cWork, cMcp
<1>17. CASE UNCHANGED cVars
  BY Zenon, <1>17 DEF cVars, cEnv, cBudget, cWork, cMcp
<1> QED BY Zenon, <1>1, <1>2, <1>3, <1>4, <1>5, <1>6, <1>7, <1>8, <1>9, <1>10, <1>11, <1>12, <1>13, <1>14, <1>15, <1>16, <1>17
    DEF CoordinatorNext, CoordinatorStep, GateStep

\* what is known of the route,
LEMMA RouteStep ==
    ASSUME CoordinatorInv, [CoordinatorNext]_cVars
    PROVE  RouteInv'
<1>0. CoordinatorType /\ RouteInv /\ GateInv
  BY Zenon DEF CoordinatorInv
<1> USE <1>0, CoordinatorNumbers
    DEF CoordinatorType, RouteInv, GateInv, External, Routed, Unsent, Continuing, Leaving
<1>1. CASE Start
  BY Zenon, <1>1 DEF Start, To, Propose, cEnv, cBudget, cWork, cMcp
<1>2. CASE Attach
  BY Zenon, <1>2 DEF Attach, To, Propose, cEnv, cBudget, cWork, cMcp
<1>3. CASE Opened
  BY Zenon, <1>3 DEF Opened, cEnv, cBudget, cWork, cMcp
<1>4. CASE ClaimSession
  BY Zenon, <1>4 DEF ClaimSession, cEnv, cBudget, cWork, cMcp
<1>5. CASE GateEstablish
  BY Zenon, <1>5 DEF GateEstablish, cEnv, cBudget, cWork, cMcp
<1>6. CASE Activate
  BY Zenon, <1>6 DEF Activate, cEnv, cBudget, cWork, cMcp
<1>7. CASE SendPrompt
  BY Zenon, <1>7 DEF SendPrompt, cEnv, cBudget, cWork, cMcp
<1>8. CASE FirstExchange
  BY Zenon, <1>8 DEF FirstExchange, Outcome, GateDone, To, cEnv, cBudget, cWork, cMcp
<1>9. CASE Establish
  BY Zenon, <1>9 DEF Establish, To, Propose, cEnv, cBudget, cWork, cMcp
<1>10. CASE PublishUnit
  BY Zenon, <1>10 DEF PublishUnit, AfterUnits, To, Propose, cEnv, cBudget, cWork, cMcp
<1>11. CASE RunLoop
  BY Zenon, <1>11 DEF RunLoop, To, Propose, cEnv, cBudget, cWork, cMcp
<1>12. CASE NextRound
  BY Zenon, <1>12 DEF NextRound, Exhausted, To, Propose, cEnv, cBudget, cWork, cMcp
<1>13. CASE ContinuationExchange
  BY Zenon, <1>13 DEF ContinuationExchange, Outcome, To, cEnv, cBudget, cWork, cMcp
<1>14. CASE Revoke
  BY Zenon, <1>14 DEF Revoke, To, cEnv, cBudget, cWork, cMcp
<1>15. CASE Park
  BY Zenon, <1>15 DEF Park, To, cEnv, cBudget, cWork, cMcp
<1>16. CASE CoordinatorEnv
  BY Zenon, <1>16 DEF CoordinatorEnv, cEnv, cBudget, cWork, cMcp
<1>17. CASE UNCHANGED cVars
  BY Zenon, <1>17 DEF cVars, cEnv, cBudget, cWork, cMcp
<1> QED BY Zenon, <1>1, <1>2, <1>3, <1>4, <1>5, <1>6, <1>7, <1>8, <1>9, <1>10, <1>11, <1>12, <1>13, <1>14, <1>15, <1>16, <1>17
    DEF CoordinatorNext, CoordinatorStep, GateStep

\* what the gate did and the prompt,
LEMMA GateStepKeeps ==
    ASSUME CoordinatorInv, [CoordinatorNext]_cVars
    PROVE  GateInv'
<1>0. CoordinatorType /\ RouteInv /\ GateInv /\ TerminalInv
  BY Zenon DEF CoordinatorInv
<1> USE <1>0, CoordinatorNumbers
    DEF CoordinatorType, RouteInv, GateInv, TerminalInv, External, Unsent, Continuing, Leaving
<1>1. CASE Start
  BY Zenon, <1>1 DEF Start, To, Propose, cEnv, cBudget, cWork, cMcp
<1>2. CASE Attach
  BY Zenon, <1>2 DEF Attach, To, Propose, cEnv, cBudget, cWork, cMcp
<1>3. CASE Opened
  BY Zenon, <1>3 DEF Opened, cEnv, cBudget, cWork, cMcp
<1>4. CASE ClaimSession
  BY Zenon, <1>4 DEF ClaimSession, cEnv, cBudget, cWork, cMcp
<1>5. CASE GateEstablish
  BY Zenon, <1>5 DEF GateEstablish, cEnv, cBudget, cWork, cMcp
<1>6. CASE Activate
  BY Zenon, <1>6 DEF Activate, cEnv, cBudget, cWork, cMcp
<1>7. CASE SendPrompt
  BY Zenon, <1>7 DEF SendPrompt, cEnv, cBudget, cWork, cMcp
<1>8. CASE FirstExchange
  BY <1>8 DEF FirstExchange, Outcome, GateDone, To, cEnv, cBudget, cWork, cMcp
<1>9. CASE Establish
  BY Zenon, <1>9 DEF Establish, To, Propose, cEnv, cBudget, cWork, cMcp
<1>10. CASE PublishUnit
  BY Zenon, <1>10 DEF PublishUnit, AfterUnits, To, Propose, cEnv, cBudget, cWork, cMcp
<1>11. CASE RunLoop
  BY Zenon, <1>11 DEF RunLoop, To, Propose, cEnv, cBudget, cWork, cMcp
<1>12. CASE NextRound
  BY Zenon, <1>12 DEF NextRound, Exhausted, To, Propose, cEnv, cBudget, cWork, cMcp
<1>13. CASE ContinuationExchange
  BY Zenon, <1>13 DEF ContinuationExchange, Outcome, To, cEnv, cBudget, cWork, cMcp
<1>14. CASE Revoke
  BY Zenon, <1>14 DEF Revoke, To, cEnv, cBudget, cWork, cMcp
<1>15. CASE Park
  BY Zenon, <1>15 DEF Park, To, cEnv, cBudget, cWork, cMcp
<1>16. CASE CoordinatorEnv
  BY Zenon, <1>16 DEF CoordinatorEnv, cEnv, cBudget, cWork, cMcp
<1>17. CASE UNCHANGED cVars
  BY Zenon, <1>17 DEF cVars, cEnv, cBudget, cWork, cMcp
<1> QED BY Zenon, <1>1, <1>2, <1>3, <1>4, <1>5, <1>6, <1>7, <1>8, <1>9, <1>10, <1>11, <1>12, <1>13, <1>14, <1>15, <1>16, <1>17
    DEF CoordinatorNext, CoordinatorStep, GateStep

\* how much of the budgets is used,
LEMMA BudgetStep ==
    ASSUME CoordinatorInv, [CoordinatorNext]_cVars
    PROVE  BudgetInv' /\ BudgetsKept'
<1>0. CoordinatorType /\ BudgetInv /\ BudgetsKept
  BY Zenon DEF CoordinatorInv
<1> USE <1>0, CoordinatorNumbers
    DEF CoordinatorType, BudgetInv, BudgetsKept, Unsent
<1>1. CASE Start
  BY Zenon, <1>1 DEF Start, To, Propose, cEnv, cBudget, cWork, cMcp
<1>2. CASE Attach
  BY Zenon, <1>2 DEF Attach, To, Propose, cEnv, cBudget, cWork, cMcp
<1>3. CASE FirstExchange
  BY <1>3 DEF FirstExchange, Outcome, GateDone, To, cEnv, cBudget, cWork, cMcp
<1>4. CASE Establish
  BY Zenon, <1>4 DEF Establish, To, Propose, cEnv, cBudget, cWork, cMcp
<1>5. CASE PublishUnit
  BY Zenon, <1>5 DEF PublishUnit, AfterUnits, To, Propose, cEnv, cBudget, cWork, cMcp
<1>6. CASE RunLoop
  BY Zenon, <1>6 DEF RunLoop, To, Propose, cEnv, cBudget, cWork, cMcp
<1>7. CASE NextRound
  BY <1>7 DEF NextRound, Exhausted, To, Propose, cEnv, cBudget, cWork, cMcp
<1>8. CASE ContinuationExchange
  BY <1>8 DEF ContinuationExchange, Outcome, To, cEnv, cBudget, cWork, cMcp
<1>9. CASE Revoke
  BY Zenon, <1>9 DEF Revoke, To, cEnv, cBudget, cWork, cMcp
<1>10. CASE Park
  BY Zenon, <1>10 DEF Park, To, cEnv, cBudget, cWork, cMcp
<1>11. CASE Opened \/ ClaimSession \/ GateEstablish \/ Activate \/ SendPrompt \/ CoordinatorEnv \/ UNCHANGED cVars
  <2>1. UNCHANGED <<cPc, cExchanges, cOutput, cRounds, cLoops>>
    BY Zenon, <1>11 DEF Opened, ClaimSession, GateEstablish, Activate, SendPrompt, CoordinatorEnv, cVars, cEnv, cBudget, cWork, cMcp
  <2> QED BY Zenon, <2>1
<1> QED BY Zenon, <1>1, <1>2, <1>3, <1>4, <1>5, <1>6, <1>7, <1>8, <1>9, <1>10, <1>11
    DEF CoordinatorNext, CoordinatorStep, GateStep

\* and where a terminal comes from.
LEMMA TerminalStep ==
    ASSUME CoordinatorInv, [CoordinatorNext]_cVars
    PROVE  TerminalInv' /\ SingleDispatch'
<1>0. CoordinatorType /\ BudgetInv /\ TerminalInv /\ SingleDispatch
  BY Zenon DEF CoordinatorInv
<1> USE <1>0, CoordinatorNumbers
    DEF CoordinatorType, BudgetInv, TerminalInv, SingleDispatch, Unsent, Continuing, Leaving
<1>1. CASE Start
  BY Zenon, <1>1 DEF Start, To, Propose, cEnv, cBudget, cWork, cMcp
<1>2. CASE Attach
  BY Zenon, <1>2 DEF Attach, To, Propose, cEnv, cBudget, cWork, cMcp
<1>3. CASE FirstExchange
  BY <1>3 DEF FirstExchange, Outcome, GateDone, To, cEnv, cBudget, cWork, cMcp
<1>4. CASE Establish
  BY Zenon, <1>4 DEF Establish, To, Propose, cEnv, cBudget, cWork, cMcp
<1>5. CASE PublishUnit
  BY Zenon, <1>5 DEF PublishUnit, AfterUnits, To, Propose, cEnv, cBudget, cWork, cMcp
<1>6. CASE RunLoop
  BY <1>6 DEF RunLoop, To, Propose, cEnv, cBudget, cWork, cMcp
<1>7. CASE NextRound
  BY Zenon, <1>7 DEF NextRound, Exhausted, To, Propose, cEnv, cBudget, cWork, cMcp
<1>8. CASE ContinuationExchange
  BY <1>8 DEF ContinuationExchange, Outcome, To, cEnv, cBudget, cWork, cMcp
<1>9. CASE Revoke
  BY Zenon, <1>9 DEF Revoke, To, cEnv, cBudget, cWork, cMcp
<1>10. CASE Park
  BY Zenon, <1>10 DEF Park, To, cEnv, cBudget, cWork, cMcp
<1>11. CASE Opened \/ ClaimSession \/ GateEstablish \/ Activate \/ SendPrompt \/ CoordinatorEnv \/ UNCHANGED cVars
  <2>1. UNCHANGED <<cPc, cChannel, cTerminal, cExchanges, cRounds, cLoops>>
    BY Zenon, <1>11 DEF Opened, ClaimSession, GateEstablish, Activate, SendPrompt, CoordinatorEnv, cVars, cEnv, cBudget, cWork, cMcp
  <2> QED BY Zenon, <2>1
<1> QED BY Zenon, <1>1, <1>2, <1>3, <1>4, <1>5, <1>6, <1>7, <1>8, <1>9, <1>10, <1>11
    DEF CoordinatorNext, CoordinatorStep, GateStep

\* Together they keep the invariant.
LEMMA CoordinatorInvStep == CoordinatorInv /\ [CoordinatorNext]_cVars => CoordinatorInv'
BY Zenon, CoordinatorTypeStep, RouteStep, GateStepKeeps, BudgetStep, TerminalStep DEF CoordinatorInv

\* The invariant holds in every reachable state.
LEMMA CoordinatorInvHolds == CoordinatorSpec => []CoordinatorInv
<1>1. CoordinatorInit => CoordinatorInv
  BY CoordinatorNumbers
     DEF CoordinatorInit, CoordinatorInv, CoordinatorType, RouteInv, GateInv, BudgetInv,
         TerminalInv, BudgetsKept, SingleDispatch, Unsent, Continuing, Leaving
<1> QED BY <1>1, CoordinatorInvStep, PTL DEF CoordinatorSpec

(* Whichever early return the coordinator leaves by, its MCP route is      *)
(* revoked before its proposal is parked, for every channel and ceiling.   *)
THEOREM RouteIsRevoked == CoordinatorSpec => []RouteRevoked
<1>1. CoordinatorInv => RouteRevoked
  BY Zenon DEF CoordinatorInv, RouteInv, RouteRevoked
<1> QED BY <1>1, CoordinatorInvHolds, PTL

(* The prompt of an external agent follows the claim, the announcement and *)
(* the activation of its route.                                            *)
THEOREM PromptFollowsGate == CoordinatorSpec => []PromptReady
<1>1. CoordinatorInv => PromptReady
  BY Zenon DEF CoordinatorInv, RouteInv, GateInv, PromptReady
<1> QED BY <1>1, CoordinatorInvHolds, PTL

(* No unit of an external agent precedes the announcement of its session.  *)
THEOREM UnitsFollowEstablish == CoordinatorSpec => []EstablishedFirst
<1>1. CoordinatorInv => EstablishedFirst
  BY Zenon DEF CoordinatorInv, GateInv, EstablishedFirst
<1> QED BY <1>1, CoordinatorInvHolds, PTL

(* The continuation loop stays within its exchange, round and output       *)
(* ceilings, for every value of them.                                      *)
THEOREM WithinBudgets == CoordinatorSpec => []BudgetsKept
BY CoordinatorInvHolds, PTL DEF CoordinatorInv

(* A call is executed by one of the two paths only, and the caller is      *)
(* asked to continue after one exchange and one loop.                      *)
THEOREM OneDispatchPath == CoordinatorSpec => []SingleDispatch
BY CoordinatorInvHolds, PTL DEF CoordinatorInv

-----------------------------------------------------------------------------
(* The exchange.                                                           *)

Unopened == {"encode", "begin", "spawnOwner"}
Ungated == {"opening", "interpret", "spawnPump"}

\* Where the exchange is bounds what the connection, the gate and the result
\* can be.
ExchangeInv ==
    /\ xPc \in Unopened \cup Ungated
              \cup {"askGate", "gate", "send", "spawnUnits", "select", "join", "done"}
    /\ xPc \in Unopened => xConn = "none"
    /\ xPc = "join" => xTerminate \/ xConn \in ConnEnd
    /\ xPc = "done" => xTerminate \/ xConn \in ConnEnd \cup {"none"}
    /\ xPc \notin {"join", "done"} => xResult = "none"
    /\ xPc \in Unopened \cup Ungated => xGate \in {"none", "unasked"}
    /\ xPc \in Unopened \cup Ungated \cup {"askGate", "gate", "send"} => ~xSent
    /\ xPc = "send" => xGate \in {"none", "ok"}
    /\ CompletedEndsClean /\ PromptAfterClaim

\* Every step of the exchange, its children, its gate and the clock keeps the
\* invariant.
LEMMA ExchangeInvStep == ExchangeInv /\ [ExchangeNext]_xVars => ExchangeInv'
<1> SUFFICES ASSUME ExchangeInv, [ExchangeNext]_xVars PROVE ExchangeInv'
  BY Zenon
<1> USE DEF ExchangeInv, CompletedEndsClean, PromptAfterClaim, ConnEnd, CleanEnd, Unopened,
            Ungated, xChild, xFlow, xTime
<1>1. CASE EncodeInitial
  BY Zenon, <1>1 DEF EncodeInitial, Continue, Return
<1>2. CASE BeginOpen
  BY Zenon, <1>2 DEF BeginOpen, Continue, Return
<1>3. CASE SpawnOwner
  BY Zenon, <1>3 DEF SpawnOwner, Continue, FailCleanup
<1>4. CASE AwaitOpen
  BY Zenon, <1>4 DEF AwaitOpen, Continue, FailCleanup
<1>5. CASE StartInterpreter
  BY Zenon, <1>5 DEF StartInterpreter, Continue, FailCleanup
<1>6. CASE SpawnPump
  BY Zenon, <1>6 DEF SpawnPump, Continue, FailCleanup
<1>7. CASE AskGate
  BY Zenon, <1>7 DEF AskGate, Continue, FailCleanup
<1>8. CASE AwaitGate
  BY Zenon, <1>8 DEF AwaitGate, proceed, Continue, FailCleanup
<1>9. CASE SendBody
  BY Zenon, <1>9 DEF SendBody, Continue, FailCleanup
<1>10. CASE SpawnUnits
  BY Zenon, <1>10 DEF SpawnUnits, Continue, FailCleanup
<1>11. CASE Select
  BY Zenon, <1>11 DEF Select, FailCleanup, BothEnded, InterpEnd, Reconciled
<1>12. CASE Join
  BY Zenon, <1>12 DEF Join
<1>13. CASE TransportStep
  BY ZenonT(30), <1>13 DEF TransportStep, Alive
<1>14. CASE PumpChunk
  BY Zenon, <1>14 DEF PumpChunk
<1>15. CASE PumpEnd
  BY Zenon, <1>15 DEF PumpEnd
<1>16. CASE InterpreterStep
  BY ZenonT(30), <1>16 DEF InterpreterStep
<1>17. CASE Collect
  BY ZenonT(30), <1>17 DEF Collect
<1>18. CASE GateAnswers
  BY Zenon, <1>18 DEF GateAnswers
<1>19. CASE Cancel
  BY Zenon, <1>19 DEF Cancel
<1>20. CASE Expire
  BY ZenonT(30), <1>20 DEF Expire
<1>21. CASE UNCHANGED xVars
  BY ZenonT(30), <1>21 DEF xVars
<1> QED BY ZenonT(30), <1>1, <1>2, <1>3, <1>4, <1>5, <1>6, <1>7, <1>8, <1>9, <1>10, <1>11, <1>12, <1>13, <1>14, <1>15, <1>16, <1>17, <1>18, <1>19, <1>20, <1>21
     DEF ExchangeNext, ExchangeStep, EncodeContinuation

\* The invariant holds in every reachable state.
LEMMA ExchangeInvHolds == ExchangeSpec => []ExchangeInv
<1>1. ExchangeInit => ExchangeInv
  BY Zenon DEF ExchangeInit, ExchangeInv, CompletedEndsClean, PromptAfterClaim, Unopened, Ungated
<1> QED BY <1>1, ExchangeInvStep, PTL DEF ExchangeSpec

(* Completed stands for two clean ends and no exceeded output budget, for  *)
(* every number of chunks and every capacity.                              *)
THEOREM CompletedIsClean == ExchangeSpec => []CompletedEndsClean
BY ExchangeInvHolds, PTL DEF ExchangeInv

(* No connection outlives its exchange unattended, by whichever of its     *)
(* returns the exchange ends.                                              *)
THEOREM NoConnectionLeft == ExchangeSpec => []ConnectionReleased
<1>1. ExchangeInv => ConnectionReleased
  BY Zenon DEF ExchangeInv, ConnectionReleased, ConnEnd, CleanEnd
<1> QED BY <1>1, ExchangeInvHolds, PTL

(* The body is handed to the connector only behind an open gate.           *)
THEOREM PromptIsGated == ExchangeSpec => []PromptAfterClaim
BY ExchangeInvHolds, PTL DEF ExchangeInv

-----------------------------------------------------------------------------
(* The agent process.                                                      *)

\* What each step of the teardown leaves done; no request is made on the way.
AgentInv ==
    /\ pPc \in Teardown \cup {"loop", "refused", "ended"} => pCall = "none"
    /\ pPc \in {"child", "pumps", "pending", "join"} => ~pTxOpen
    /\ pPc \in {"pumps", "pending", "join"} => pChild = "reaped"
    /\ pPc \in {"pending", "join"} => pPump = "done"
    /\ pPc = "join" => ~pPending
    /\ pPc # "end"
    /\ TeardownComplete

\* The owner's steps, one profile's as another's.
LEMMA AgentOwnerKeeps ==
    ASSUME AgentInv, NEW p,
           Spawn(p) \/ IssueRequest(p) \/ Replied(p) \/ OwnerLoop(p) \/ Prompted(p)
             \/ Shutdown(p) \/ OwnerEnd(p)
    PROVE  AgentInv'
<1> USE DEF AgentInv, TeardownComplete, Teardown
<1>1. CASE Spawn(p)
  BY Zenon, <1>1 DEF Spawn, Calling, OwnerAt, pFlow
<1>2. CASE IssueRequest(p)
  BY Zenon, <1>2 DEF IssueRequest, pFlow, pProc
<1>3. CASE Replied(p)
  BY Zenon, <1>3 DEF Replied, Calling, OwnerAt, LetGo, DropInner
<1>4. CASE OwnerLoop(p)
  BY Zenon, <1>4 DEF OwnerLoop, Calling, OwnerAt, pFlow, pProc
<1>5. CASE Prompted(p)
  BY ZenonT(30), <1>5 DEF Prompted, OwnerAt, pFlow, pProc
<1>6. CASE Shutdown(p)
  BY <1>6 DEF Shutdown, AbortPumps
<1>7. CASE OwnerEnd(p)
  BY Zenon, <1>7 DEF OwnerEnd, LetGo, DropInner, pReq
<1> QED BY Zenon, <1>1, <1>2, <1>3, <1>4, <1>5, <1>6, <1>7

\* The pumps': nothing reopens what the teardown closed.
LEMMA AgentPumpKeeps ==
    ASSUME AgentInv, NEW p, HandleInboundLine(p) \/ ReadFails(p) \/ UpdatePump(p)
    PROVE  AgentInv'
<1> USE DEF AgentInv, TeardownComplete, Teardown
<1>1. CASE HandleInboundLine(p)
  BY Zenon, <1>1 DEF HandleInboundLine, PumpLoops, DropInner
<1>2. CASE ReadFails(p)
  BY Zenon, <1>2 DEF ReadFails, PumpLoops, DropInner, pFlow
<1>3. CASE UpdatePump(p)
  BY Zenon, <1>3 DEF UpdatePump, Undeliverable, pReq, pProc
<1> QED BY Zenon, <1>1, <1>2, <1>3

\* Every step of the connection keeps the invariant.
LEMMA AgentInvStep == AgentInv /\ [AgentNext]_pVars => AgentInv'
<1> SUFFICES ASSUME AgentInv, [AgentNext]_pVars PROVE AgentInv'
  BY Zenon
<1>1. CASE AgentOwnerStep
  BY Zenon, <1>1, AgentOwnerKeeps
     DEF AgentOwnerStep, CursorOwner, CodexOwner, AgyOwner, CursorSpawn, CursorRequest, CursorConnect,
         CursorLoop, CursorPrompt, CursorShutdown, CursorEnd, CodexSpawn, CodexRequest, CodexConnect,
         CodexLoop, CodexPrompt, CodexShutdown, CodexEnd, AgySpawn, AgyRequest, AgyConnect, AgyLoop,
         AgyPrompt, AgyShutdown, AgyEnd
<1>2. CASE AgentPump \/ AgentUpdates
  BY Zenon, <1>2, AgentPumpKeeps
     DEF AgentPump, AgentUpdates, CursorLine, CodexLine, AgyLine, CursorReadFails, CodexReadFails,
         AgyReadFails, CursorUpdates, CodexUpdates, AgyUpdates
<1>3. CASE AbortAgentOwner
  BY Zenon, <1>3 DEF AbortAgentOwner, OwnerAt, AgentInv, TeardownComplete, Teardown
<1>4. CASE AgentActs
  BY Zenon, <1>4 DEF AgentActs, pFlow, AgentInv, TeardownComplete
<1>5. CASE AgentControl \/ AgentReader
  BY <1>5 DEF AgentControl, AgentReader, pReq, pFlow, pProc, AgentInv, TeardownComplete
<1>6. CASE UNCHANGED pVars
  BY Zenon, <1>6 DEF pVars, pReq, pFlow, pProc, AgentInv, TeardownComplete
<1> QED BY Zenon, <1>1, <1>2, <1>3, <1>4, <1>5, <1>6 DEF AgentNext

(* An agent connection that publishes its end has torn everything down:    *)
(* the child is reaped, no pump runs, no request waits and nothing can     *)
(* enter the output, whatever the agent, the reader and the caller did,    *)
(* for every profile, capacity and number of prompts.                      *)
THEOREM NothingOutlivesEnd == AgentSpec => []TeardownComplete
<1>1. AgentInit => AgentInv
  BY Zenon DEF AgentInit, AgentInv, TeardownComplete, Teardown
<1>2. AgentInv => TeardownComplete
  BY Zenon DEF AgentInv
<1> QED BY <1>1, <1>2, AgentInvStep, PTL DEF AgentSpec

-----------------------------------------------------------------------------
(* The connection.                                                         *)

\* The owner's positions at which it may still send output.
Sending == {"collect", "post", "stream", "next", "enqueue", "echo", "script", "push", "run"}

\* A control call that got past its preference finds a preference at least as strong.
PreferInv ==
    /\ kWant \in [Controller -> {"cancel", "terminate"}]
    /\ kReq \in [Controller -> {"idle", "swap", "prefer", "notify", "done"}]
    /\ kDisp \in [Controller -> {"none", "AlreadyTerminal", "AlreadyRequested", "Accepted"}]
    /\ kPref \in {"none", "cancel", "terminate"}
    /\ \A c \in Controller : kReq[c] = "notify" \/ kDisp[c] = "Accepted" =>
          kPref # "none" /\ (kWant[c] = "terminate" => kPref = "terminate")

\* Every chunk that was enqueued is in the queue or received, while the reader lives.
OutputInv ==
    /\ kKind \in Kinds
    /\ kOut \in Nat /\ kSent \in Nat /\ kGot \in Nat
    /\ kPc \in Sending => kOutOpen
    /\ kRcv # "gone" => kSent = kGot + kOut
    /\ kRcv = "none" => kOut = 0 /\ ~kOutOpen
    /\ kPc = "setup" => kOutOpen

\* A control call takes its steps in order, and cancel never weakens a terminate.
LEMMA PreferStep ==
    ASSUME PreferInv, NEW c \in Controller, RequestEnd(c)
    PROVE  PreferInv'
<1> USE DEF PreferInv
<1>0. kWant' = kWant /\ kWant[c] \in {"cancel", "terminate"}
  BY Zenon DEF RequestEnd
<1>1. CASE kReq[c] = "idle"
  BY ZenonT(30), <1>0, <1>1 DEF RequestEnd
<1>2. CASE kReq[c] = "swap"
  BY ZenonT(30), <1>0, <1>2 DEF RequestEnd
<1>3. CASE kReq[c] = "prefer"
  <2>1. /\ kPref' = Prefer(kWant[c]) /\ kReq' = [kReq EXCEPT ![c] = "notify"] /\ UNCHANGED kDisp
    BY Zenon, <1>3 DEF RequestEnd
  <2>2. /\ kPref' \in {"cancel", "terminate"} /\ (kPref = "terminate" => kPref' = "terminate")
        /\ kWant[c] = "terminate" => kPref' = "terminate"
    BY Zenon, <1>0, <2>1 DEF Prefer
  <2> QED BY Zenon, <1>0, <2>1, <2>2
<1>4. CASE kReq[c] = "notify"
  <2>1. /\ kReq' = [kReq EXCEPT ![c] = "done"] /\ kDisp' = [kDisp EXCEPT ![c] = "Accepted"]
        /\ UNCHANGED kPref
    BY Zenon, <1>4 DEF RequestEnd
  <2> QED BY Zenon, <1>0, <1>4, <2>1
<1> QED BY Zenon, <1>1, <1>2, <1>3, <1>4 DEF RequestEnd

\* The owner's steps that leave the queue, its sender and the reader alone.
Aside ==
    /\ UNCHANGED <<kKind, kOut, kOutOpen, kSent, kRcv, kGot>>
    /\ kPc' \in Sending => kOutOpen
    /\ kPc' = "setup" => kPc = "setup"

\* Those that close the output or end, which send nothing.
Closing ==
    /\ UNCHANGED <<kKind, kOut, kSent, kRcv, kGot>>
    /\ ~kOutOpen' /\ kPc' \notin Sending \cup {"setup"}

\* And those that send a chunk.
Pushing ==
    /\ UNCHANGED <<kKind, kOutOpen, kRcv, kGot>>
    /\ kOutOpen /\ kRcv # "gone" /\ kOut' = kOut + 1 /\ kSent' = kSent + 1
    /\ kPc' # "setup"

\* Each of them keeps the accounts.
LEMMA OwnerKeeps ==
    ASSUME OutputInv, Aside \/ Closing \/ Pushing
    PROVE  OutputInv'
<1>1. CASE Aside
  BY Zenon, <1>1 DEF OutputInv, Aside
<1>2. CASE Closing
  BY Zenon, <1>2 DEF OutputInv, Closing
<1>3. CASE Pushing
  BY <1>3 DEF OutputInv, Pushing
<1> QED BY Zenon, <1>1, <1>2, <1>3

\* Every step of the owner is one of them.
LEMMA OwnerSteps ==
    ASSUME OutputInv, OwnerStep \/ AbortOwner
    PROVE  Aside \/ Closing \/ Pushing
<1> USE DEF OutputInv, Aside, Closing, Pushing, Sending, OwnerTo
<1>1. CASE OpenOwned
  BY Zenon, <1>1, ConnectionAssumption DEF OpenOwned, FirstPc, Headless, kCtl, kRead
<1>2. CASE WaitControl
  BY Zenon, <1>2 DEF WaitControl, EndAs, kPipe, kRead
<1>3. CASE HttpCollect
  BY Zenon, <1>3 DEF HttpCollect, Receives, EndAs, Polling, kRead
<1>4. CASE HttpPost \/ HttpTop
  BY Zenon, <1>4 DEF HttpPost, HttpTop, EndAs, Polling, kPipe, kRead
<1>5. CASE HttpNext
  BY Zenon, <1>5 DEF HttpNext, EndAs, Polling, kRead
<1>6. CASE HttpEnqueue
  BY Zenon, <1>6 DEF HttpEnqueue, EndAs, Polling, kRead
<1>7. CASE FakePush
  BY Zenon, <1>7 DEF FakePush, EndAs, kRead
<1>8. CASE EchoOwner
  BY Zenon, <1>8 DEF EchoOwner, Receives, EndAs, Polling, kRead
<1>9. CASE ScriptedOwner
  BY Zenon, <1>9 DEF ScriptedOwner, kRead
<1>10. CASE ScriptedDrain
  BY Zenon, <1>10 DEF ScriptedDrain, Receives, EndAs, Polling, kRead
<1>11. CASE HangOwner
  BY Zenon, <1>11 DEF HangOwner, Receives, Polling, kRead
<1>12. ASSUME NEW profile, PrintCollect(profile) PROVE Aside
  BY Zenon, <1>12 DEF PrintCollect, Receives, EndAs, Polling, kRead
<1>13. ASSUME NEW profile, PrintRun(profile) PROVE Aside \/ Closing \/ Pushing
  BY Zenon, <1>13 DEF PrintRun, EndAs, kRead
<1>14. CASE FinishRead \/ FinishMark
  BY Zenon, <1>14 DEF FinishRead, FinishMark, kPipe, kRead
<1>15. CASE FinishSend
  BY Zenon, <1>15 DEF FinishSend, kRead
<1>16. CASE AbortOwner
  BY Zenon, <1>16 DEF AbortOwner, kRead
<1> QED BY ZenonT(30), <1>1, <1>2, <1>3, <1>4, <1>5, <1>6, <1>7, <1>8, <1>9, <1>10, <1>11, <1>12, <1>13, <1>14,
           <1>15, <1>16
        DEF OwnerStep, HttpOwner, FakeOwner, PrintOwner, ClaudeCollect, ClaudeRun, ZaiCollect, ZaiRun

\* The reader takes what was enqueued, and sees the end only when all is taken.
LEMMA ReceiveKeeps ==
    ASSUME OutputInv, Receive \/ DropReader
    PROVE  /\ OutputInv'
           /\ kRcv' = "err" /\ kRcv # "err" => kOut = 0 /\ Interrupted
           /\ kRcv' = "none" => kGot' = kSent /\ ~kOutOpen
<1>1. CASE Receive
  <2>1. UNCHANGED <<kKind, kPc, kOutOpen, kSent>> /\ kRcv \notin {"gone", "none", "err"}
    BY Zenon, <1>1 DEF Receive, kOwn
  <2>2. \/ kOut > 0 /\ kOut' = kOut - 1 /\ kGot' = kGot + 1 /\ kRcv' = "check"
        \/ kOut = 0 /\ ~kOutOpen /\ kRcv' = "none" /\ UNCHANGED <<kOut, kGot>>
        \/ UNCHANGED <<kOut, kGot>> /\ kRcv' \in {"flags", "arm", "wait"}
        \/ UNCHANGED <<kOut, kGot>> /\ kRcv' = "err" /\ kOut = 0 /\ Interrupted
    BY Zenon, <1>1 DEF Receive, TakeOr, Woken
  <2> QED BY <2>1, <2>2 DEF OutputInv
<1>2. CASE DropReader
  BY Zenon, <1>2 DEF DropReader, OutputInv, kOwn
<1> QED BY Zenon, <1>1, <1>2

\* What the other steps leave alone.
LEMMA OthersKeep ==
    ASSUME OutputInv,
           (\E c \in Controller : RequestEnd(c)) \/ FeedInput \/ RequestDeadline \/ UNCHANGED kVars
    PROVE  OutputInv' /\ UNCHANGED <<kPc, kRcv, kGot, kSent, kOutOpen>>
<1>1. (\E c \in Controller : RequestEnd(c)) => UNCHANGED <<kKind, kPc, kOut, kOutOpen, kSent, kRcv, kGot>>
  BY ZenonT(30) DEF RequestEnd, kPipe, kRead, kOwn
<1>2. FeedInput \/ RequestDeadline \/ UNCHANGED kVars =>
        UNCHANGED <<kKind, kPc, kOut, kOutOpen, kSent, kRcv, kGot>>
  BY Zenon DEF FeedInput, RequestDeadline, kVars, kPipe, kRead, kOwn
<1> QED BY <1>1, <1>2 DEF OutputInv

\* Only a control call touches the preference.
LEMMA PreferKeeps ==
    ASSUME PreferInv, [ConnectionNext]_kVars, ~\E c \in Controller : RequestEnd(c)
    PROVE  PreferInv'
<1>1. CASE UNCHANGED <<kWant, kReq, kDisp, kPref>>
  BY Zenon, <1>1 DEF PreferInv
<1>2. UNCHANGED kCtl => UNCHANGED <<kWant, kReq, kDisp, kPref>>
  BY Zenon DEF kCtl
<1>3. OpenOwned \/ WaitControl \/ HttpOwner => UNCHANGED kCtl
  BY Zenon DEF OpenOwned, WaitControl, HttpOwner, HttpCollect, HttpPost, HttpTop, HttpNext, HttpEnqueue
<1>4. FakeOwner => UNCHANGED kCtl
  BY Zenon DEF FakeOwner, FakePush, EchoOwner, ScriptedOwner, ScriptedDrain, HangOwner
<1>5. PrintOwner => UNCHANGED kCtl
  BY ZenonT(30) DEF PrintOwner, ClaudeCollect, ClaudeRun, ZaiCollect, ZaiRun, PrintCollect, PrintRun
<1>6. FinishRead \/ FinishSend \/ AbortOwner \/ FeedInput \/ Receive \/ DropReader \/ RequestDeadline
        \/ UNCHANGED kVars => UNCHANGED kCtl
  BY Zenon DEF FinishRead, FinishSend, AbortOwner, FeedInput, Receive, DropReader, RequestDeadline, kVars
<1>7. FinishMark => UNCHANGED <<kWant, kReq, kDisp, kPref>>
  BY Zenon DEF FinishMark
<1> QED BY Zenon, <1>1, <1>2, <1>3, <1>4, <1>5, <1>6, <1>7 DEF ConnectionNext, OwnerStep

\* finish decides by the preference, and nothing else enters "mark".
LEMMA OnlyFinishMarks ==
    ASSUME [ConnectionNext]_kVars, kPc = "finish", kPc' = "mark"
    PROVE  FinishRead
<1> USE DEF OwnerTo
<1>1. ~OpenOwned /\ ~WaitControl /\ ~AbortOwner
  BY Zenon DEF OpenOwned, WaitControl, AbortOwner, Selects
<1>2. ~HttpOwner
  BY Zenon DEF HttpOwner, HttpCollect, HttpPost, HttpTop, HttpNext, HttpEnqueue, Polling
<1>3. ~FakeOwner
  BY Zenon DEF FakeOwner, FakePush, EchoOwner, ScriptedOwner, ScriptedDrain, HangOwner, Polling
<1>4. ~PrintOwner
  BY Zenon DEF PrintOwner, ClaudeCollect, ClaudeRun, ZaiCollect, ZaiRun, PrintCollect, PrintRun, Polling
<1>5. ~FinishMark /\ ~FinishSend
  BY Zenon DEF FinishMark, FinishSend
<1>6. ~FeedInput /\ ~Receive /\ ~DropReader /\ ~RequestDeadline /\ ~UNCHANGED kVars
  BY Zenon DEF FeedInput, Receive, DropReader, RequestDeadline, kVars, kOwn
<1>7. ~\E c \in Controller : RequestEnd(c)
  BY Zenon DEF RequestEnd
<1> QED BY Zenon, <1>1, <1>2, <1>3, <1>4, <1>5, <1>6, <1>7 DEF ConnectionNext, OwnerStep

\* Every step of the connection keeps both parts of the invariant.
LEMMA ConnectionInvStep ==
    PreferInv /\ OutputInv /\ [ConnectionNext]_kVars => PreferInv' /\ OutputInv'
<1> SUFFICES ASSUME PreferInv, OutputInv, [ConnectionNext]_kVars PROVE PreferInv' /\ OutputInv'
  BY Zenon
<1>1. PreferInv'
  BY Zenon, PreferStep, PreferKeeps
<1>2. OutputInv'
  BY Zenon, OwnerSteps, OwnerKeeps, ReceiveKeeps, OthersKeep DEF ConnectionNext
<1> QED BY Zenon, <1>1, <1>2

(* The end a connection publishes answers the control calls it accepted,   *)
(* and what the reader is told is true, for every transport, every number  *)
(* of callers and every capacity.                                          *)
THEOREM EndIsHonest == ConnectionSpec => EndsHonest
<1>1. ConnectionInit => PreferInv /\ OutputInv
  BY ConnectionAssumption DEF ConnectionInit, PreferInv, OutputInv
<1>2. PreferInv /\ OutputInv /\ [ConnectionNext]_kVars =>
        [/\ kPc = "finish" /\ kPc' = "mark" =>
              /\ Accepted("terminate") => kObs' = "Terminated"
              /\ Accepted("cancel") => kObs' \in {"Cancelled", "Terminated"}
         /\ kRcv' = "err" /\ kRcv # "err" => kOut = 0 /\ Interrupted
         /\ kRcv' = "none" => kGot' = kSent /\ ~kOutOpen]_kVars
  <2> SUFFICES ASSUME PreferInv, OutputInv, [ConnectionNext]_kVars
               PROVE  /\ kPc = "finish" /\ kPc' = "mark" =>
                            /\ Accepted("terminate") => kObs' = "Terminated"
                            /\ Accepted("cancel") => kObs' \in {"Cancelled", "Terminated"}
                      /\ kRcv' = "err" /\ kRcv # "err" => kOut = 0 /\ Interrupted
                      /\ kRcv' = "none" => kGot' = kSent /\ ~kOutOpen
    BY Zenon
  <2>1. ASSUME kPc = "finish", kPc' = "mark"
        PROVE  /\ Accepted("terminate") => kObs' = "Terminated"
               /\ Accepted("cancel") => kObs' \in {"Cancelled", "Terminated"}
    <3>1. FinishRead
      BY Zenon, <2>1, OnlyFinishMarks
    <3>2. /\ Accepted("terminate") => kPref = "terminate"
          /\ Accepted("cancel") => kPref \in {"cancel", "terminate"}
      BY Zenon DEF Accepted, PreferInv
    <3> QED BY Zenon, <3>1, <3>2 DEF FinishRead
  <2>2. CASE Receive \/ DropReader
    BY Zenon, <2>1, <2>2, ReceiveKeeps
  <2>3. CASE OwnerStep \/ AbortOwner
    <3>1. kRcv' = kRcv /\ kGot' = kGot
      BY Zenon, <2>3, OwnerSteps DEF Aside, Closing, Pushing
    <3> QED BY <2>1, <3>1 DEF OutputInv
  <2>4. CASE ~(Receive \/ DropReader \/ OwnerStep \/ AbortOwner)
    <3>1. kRcv' = kRcv /\ kGot' = kGot
      BY Zenon, <2>4, OthersKeep DEF ConnectionNext
    <3> QED BY <2>1, <3>1 DEF OutputInv
  <2> QED BY Zenon, <2>2, <2>3, <2>4
<1> QED BY <1>1, <1>2, ConnectionInvStep, PTL DEF ConnectionSpec, EndsHonest

-----------------------------------------------------------------------------
(* Tool execution.                                                         *)

INSTANCE FiniteSetTheorems

\* The dispatches that are counted in shared, in txn_active and in slot.active:
\* ToolPermit::drop gives the three back in this order.
HoldsShared == {d \in Dispatch : tPermit[d] \in {"guard", "orphan", "registry", "shared"}}
HoldsTxn == {d \in Dispatch : tPermit[d] \in {"guard", "orphan", "registry", "shared", "txn"}}
HoldsTool == {d \in Dispatch : tPermit[d] \in {"guard", "orphan", "registry", "shared", "txn", "tool"}}
Children == {d \in Dispatch : tChild[d]}

\* The counters are exactly the permits and the children that are out.
ToolCountInv ==
    /\ tShared = Cardinality(HoldsShared) /\ tTxn = Cardinality(HoldsTxn)
    /\ tTool = Cardinality(HoldsTool) /\ tOwned = Cardinality(Children)
    /\ tShared <= tLimit.shared /\ tTxn <= tLimit.txn /\ tTool <= tLimit.tool

\* Who holds what, at each point of a dispatch: a body the runtime can stop, and
\* a child whose exit is not observed, run under the guard or in the registry.
ToolHoldInv(d) ==
    /\ tPc[d] \in {"new", "validate", "wait", "retry"} =>
          tPermit[d] = "none" /\ tWork[d] = "none" /\ ~tChild[d]
    /\ tPc[d] = "start" => tPermit[d] = "guard" /\ tWork[d] = "none" /\ ~tChild[d]
    /\ tPc[d] \in {"run", "grace", "kill", "await", "join"} => tPermit[d] = "guard"
    /\ tPc[d] \in {"await", "join"} /\ Stoppable(d) /\ ~IsProcess(d) => tWork[d] # "running"
    /\ tPc[d] = "done" => tPermit[d] # "guard"
    /\ Stoppable(d) /\ tWork[d] = "running" => tPermit[d] \in {"guard", "registry"}
    /\ tChild[d] => IsProcess(d) /\ tPermit[d] \in {"guard", "registry"} /\ tWork[d] \in {"running", "ended"}
    /\ IsProcess(d) /\ tWork[d] = "running" => tChild[d]
    /\ IsProcess(d) => Stoppable(d)
    /\ tPermit[d] = "registry" => IsProcess(d)
    /\ tPermit[d] = "orphan" => ~IsProcess(d)

\* Once stopped, nothing is held and no dispatch is under way.
ToolStopInv ==
    tStop = "stopped" =>
        \A d \in Dispatch : tPermit[d] = "none" /\ tPc[d] \in {"new", "done"}

ToolType ==
    /\ tLimit \in Limits
    /\ tPc \in [Dispatch -> {"new", "validate", "wait", "retry", "start", "run", "grace", "kill",
                             "await", "join", "done"}]
    /\ tWork \in [Dispatch -> {"none", "running", "ended"}]
    /\ tChild \in [Dispatch -> BOOLEAN]
    /\ tPermit \in [Dispatch -> {"none", "guard", "orphan", "registry", "shared", "txn", "tool"}]

ToolInv ==
    /\ ToolType /\ ToolCountInv /\ ToolStopInv
    /\ \A d \in Dispatch : ToolHoldInv(d)

\* The sets that are counted are finite, and the limits are numbers.
LEMMA ToolSets ==
    ASSUME ToolType
    PROVE  /\ IsFiniteSet(HoldsShared) /\ Cardinality(HoldsShared) \in Nat
           /\ IsFiniteSet(HoldsTxn) /\ Cardinality(HoldsTxn) \in Nat
           /\ IsFiniteSet(HoldsTool) /\ Cardinality(HoldsTool) \in Nat
           /\ IsFiniteSet(Children) /\ Cardinality(Children) \in Nat
           /\ tLimit.shared \in Nat /\ tLimit.txn \in Nat /\ tLimit.tool \in Nat
<1>1. IsFiniteSet(Dispatch)
  BY Zenon, ToolAssumption
<1>2. \A S \in SUBSET Dispatch : IsFiniteSet(S) /\ Cardinality(S) \in Nat
  BY Zenon, <1>1, FS_Subset, FS_CardinalityType
<1>3. /\ HoldsShared \in SUBSET Dispatch /\ HoldsTxn \in SUBSET Dispatch
      /\ HoldsTool \in SUBSET Dispatch /\ Children \in SUBSET Dispatch
  BY Zenon DEF HoldsShared, HoldsTxn, HoldsTool, Children
<1>4. tLimit \in [shared : Nat \ {0}, txn : Nat \ {0}, tool : Nat \ {0}]
  BY Zenon, ToolAssumption DEF ToolType
<1> QED BY Zenon, <1>2, <1>3, <1>4

\* A step of one dispatch leaves the others alone.
OnlyFor(d) ==
    /\ UNCHANGED <<tHandler, tLimit>>
    /\ \A e \in Dispatch \ {d} :
          tPc'[e] = tPc[e] /\ tWork'[e] = tWork[e] /\ tChild'[e] = tChild[e] /\ tPermit'[e] = tPermit[e]

\* The three ways a dispatch's permit may move as it is handed on.
Counted == {"guard", "orphan", "registry", "shared"}
SameHolders(d) ==
    /\ UNCHANGED tCounters
    /\ tPermit'[d] = tPermit[d] \/ (tPermit[d] \in Counted /\ tPermit'[d] \in Counted)

\* The children that are counted: none new, some observed, or one started.
SameChildren(d) == UNCHANGED tOwned /\ tChild'[d] = tChild[d]

\* What holds of the dispatch that moves, holds of all.
LEMMA OnlyForKeeps ==
    ASSUME ToolInv, NEW d \in Dispatch, OnlyFor(d), ToolHoldInv(d)'
    PROVE  \A e \in Dispatch : ToolHoldInv(e)'
<1> SUFFICES ASSUME NEW e \in Dispatch, e # d PROVE ToolHoldInv(e)'
  BY Zenon
<1>1. ToolHoldInv(e)
  BY Zenon DEF ToolInv
<1>2. /\ tPc'[e] = tPc[e] /\ tWork'[e] = tWork[e] /\ tChild'[e] = tChild[e]
      /\ tPermit'[e] = tPermit[e] /\ tHandler' = tHandler
  BY Zenon DEF OnlyFor
<1> QED BY Zenon, <1>1, <1>2 DEF ToolHoldInv, IsProcess, Stoppable

\* A permit that is handed on is counted as before.
LEMMA HandedOn ==
    ASSUME NEW d \in Dispatch, OnlyFor(d), SameHolders(d)
    PROVE  HoldsShared' = HoldsShared /\ HoldsTxn' = HoldsTxn /\ HoldsTool' = HoldsTool
<1>1. \A e \in Dispatch : tPermit'[e] = tPermit[e] \/ (tPermit[e] \in Counted /\ tPermit'[e] \in Counted)
  BY Zenon DEF OnlyFor, SameHolders
<1> QED BY Zenon, <1>1 DEF HoldsShared, HoldsTxn, HoldsTool, Counted

\* Observing exits takes the exited children from the count.
LEMMA ObserveCounts ==
    ASSUME ToolInv, NEW S \in SUBSET Dispatch, Observe(S)
    PROVE  /\ tOwned' = Cardinality(Children')
           /\ \A e \in Dispatch : tChild'[e] = (tChild[e] /\ ~(e \in S /\ tWork[e] = "ended"))
           /\ tChild' \in [Dispatch -> BOOLEAN]
<1> DEFINE gone == {e \in S : tChild[e] /\ tWork[e] = "ended"}
<1>1. /\ tChild' = [e \in Dispatch |-> tChild[e] /\ e \notin gone]
      /\ tOwned' = tOwned - Cardinality(gone)
  BY Zenon DEF Observe
<1>2. Children' = Children \ gone /\ Children \cap gone = gone
  BY Zenon, <1>1 DEF Children, ToolInv, ToolType
<1>3. IsFiniteSet(Children) /\ tOwned = Cardinality(Children)
  BY Zenon, ToolSets DEF ToolInv, ToolCountInv
<1>4. Cardinality(Children \ gone) = Cardinality(Children) - Cardinality(Children \cap gone)
  <2> HIDE DEF gone
  <2> QED BY Zenon, <1>3, FS_Difference
<1> QED BY Zenon, <1>1, <1>2, <1>3, <1>4 DEF ToolInv, ToolType

\* The counters after a step that hands permits on and starts no child.
LEMMA CountsKept ==
    ASSUME ToolInv, UNCHANGED <<tLimit, tCounters>>, tOwned' = Cardinality(Children'),
           HoldsShared' = HoldsShared, HoldsTxn' = HoldsTxn, HoldsTool' = HoldsTool
    PROVE  ToolCountInv'
BY Zenon DEF ToolInv, ToolCountInv, tCounters

\* And the same for one dispatch whose child stays as it was.
LEMMA CountsStay ==
    ASSUME ToolInv, NEW d \in Dispatch, OnlyFor(d), SameHolders(d), SameChildren(d)
    PROVE  ToolCountInv'
<1>1. Children' = Children
  BY Zenon DEF Children, OnlyFor, SameChildren
<1>2. tOwned' = Cardinality(Children')
  BY Zenon, <1>1 DEF SameChildren, ToolInv, ToolCountInv
<1> QED BY Zenon, <1>2, HandedOn, CountsKept DEF SameHolders, OnlyFor

\* An acquired permit is counted three times.
LEMMA AcquireCounts ==
    ASSUME ToolInv, NEW d \in Dispatch, OnlyFor(d), SameChildren(d), Fits,
           tPermit[d] = "none", tPermit'[d] = "guard",
           tTool' = tTool + 1, tTxn' = tTxn + 1, tShared' = tShared + 1
    PROVE  ToolCountInv'
<1>1. Children' = Children
  BY Zenon DEF Children, OnlyFor, SameChildren
<1>2. /\ HoldsShared' = HoldsShared \cup {d} /\ d \notin HoldsShared
      /\ HoldsTxn' = HoldsTxn \cup {d} /\ d \notin HoldsTxn
      /\ HoldsTool' = HoldsTool \cup {d} /\ d \notin HoldsTool
  BY Zenon DEF OnlyFor, HoldsShared, HoldsTxn, HoldsTool
<1>3. /\ Cardinality(HoldsShared') = Cardinality(HoldsShared) + 1
      /\ Cardinality(HoldsTxn') = Cardinality(HoldsTxn) + 1
      /\ Cardinality(HoldsTool') = Cardinality(HoldsTool) + 1
  BY Zenon, <1>2, ToolSets, FS_AddElement DEF ToolInv
<1>4. /\ tShared \in Nat /\ tTxn \in Nat /\ tTool \in Nat
      /\ tLimit.shared \in Nat /\ tLimit.txn \in Nat /\ tLimit.tool \in Nat /\ tLimit' = tLimit
  BY Zenon, ToolSets DEF ToolInv, ToolCountInv, OnlyFor
<1>5. ToolCountInv /\ tOwned' = tOwned
  BY Zenon DEF ToolInv, SameChildren
<1> QED BY SMTT(20), <1>1, <1>3, <1>4, <1>5 DEF ToolCountInv, Fits

\* ToolPermit::drop takes the dispatch from one count at a time.
LEMMA ReleaseCounts ==
    ASSUME ToolInv, NEW d \in Dispatch, OnlyFor(d), SameChildren(d), ReleasePermit(d)
    PROVE  ToolCountInv'
<1>0. /\ tShared \in Nat /\ tTxn \in Nat /\ tTool \in Nat
      /\ tLimit.shared \in Nat /\ tLimit.txn \in Nat /\ tLimit.tool \in Nat /\ tLimit' = tLimit
  BY Zenon, ToolSets DEF ToolInv, ToolCountInv, OnlyFor
<1>1. Children' = Children /\ tOwned' = tOwned /\ ToolCountInv
  BY Zenon DEF Children, OnlyFor, SameChildren, ToolInv
<1>2. CASE tPermit[d] = "shared"
  <2>1. tShared' = tShared - 1 /\ tTxn' = tTxn /\ tTool' = tTool /\ tPermit'[d] = "txn"
    BY Zenon, <1>2 DEF ReleasePermit, ToolInv, ToolType
  <2>2. /\ HoldsShared' = HoldsShared \ {d} /\ d \in HoldsShared
        /\ HoldsTxn' = HoldsTxn /\ HoldsTool' = HoldsTool
    BY Zenon, <1>2, <2>1 DEF OnlyFor, HoldsShared, HoldsTxn, HoldsTool
  <2>3. Cardinality(HoldsShared') = Cardinality(HoldsShared) - 1
    BY Zenon, <2>2, ToolSets, FS_RemoveElement DEF ToolInv
  <2> QED BY SMTT(20), <1>0, <1>1, <2>1, <2>2, <2>3 DEF ToolCountInv
<1>3. CASE tPermit[d] = "txn"
  <2>1. tTxn' = tTxn - 1 /\ tShared' = tShared /\ tTool' = tTool /\ tPermit'[d] = "tool"
    BY Zenon, <1>3 DEF ReleasePermit, ToolInv, ToolType
  <2>2. /\ HoldsTxn' = HoldsTxn \ {d} /\ d \in HoldsTxn
        /\ HoldsShared' = HoldsShared /\ HoldsTool' = HoldsTool
    BY Zenon, <1>3, <2>1 DEF OnlyFor, HoldsShared, HoldsTxn, HoldsTool
  <2>3. Cardinality(HoldsTxn') = Cardinality(HoldsTxn) - 1
    BY Zenon, <2>2, ToolSets, FS_RemoveElement DEF ToolInv
  <2> QED BY SMTT(20), <1>0, <1>1, <2>1, <2>2, <2>3 DEF ToolCountInv
<1>4. CASE tPermit[d] = "tool"
  <2>1. tTool' = tTool - 1 /\ tShared' = tShared /\ tTxn' = tTxn /\ tPermit'[d] = "none"
    BY Zenon, <1>4 DEF ReleasePermit, ToolInv, ToolType
  <2>2. /\ HoldsTool' = HoldsTool \ {d} /\ d \in HoldsTool
        /\ HoldsShared' = HoldsShared /\ HoldsTxn' = HoldsTxn
    BY Zenon, <1>4, <2>1 DEF OnlyFor, HoldsShared, HoldsTxn, HoldsTool
  <2>3. Cardinality(HoldsTool') = Cardinality(HoldsTool) - 1
    BY Zenon, <2>2, ToolSets, FS_RemoveElement DEF ToolInv
  <2> QED BY SMTT(20), <1>0, <1>1, <2>1, <2>2, <2>3 DEF ToolCountInv
<1> QED BY Zenon, <1>2, <1>3, <1>4 DEF ReleasePermit

\* Once stopped, only a handler's own thread can still end.
LEMMA StoppedIsQuiet ==
    ASSUME ToolInv, tStop = "stopped", NEW d \in Dispatch
    PROVE  /\ ~DispatchStep(d) /\ ~DriveProcess(d) /\ ~ReleasePermit(d) /\ ~Abort(d)
           /\ ~DriveEndsUnsent(d) /\ ~SenderReturns(d)
<1>1. tPermit[d] = "none" /\ tPc[d] \in {"new", "done"}
  BY Zenon DEF ToolInv, ToolStopInv
<1>2. ~Enqueue(d) /\ ~Validate(d) /\ ~Acquire(d) /\ ~StartTool(d)
  BY Zenon, <1>1 DEF Enqueue, Validate, Acquire, StartTool
<1>3. ~AwaitBody(d) /\ ~JoinBody(d) /\ ~DriveProcess(d) /\ ~ReleasePermit(d) /\ ~Abort(d)
  BY Zenon, <1>1 DEF AwaitBody, Polled, JoinBody, DriveProcess, ReleasePermit, Abort
<1>4. ~DriveEndsUnsent(d) /\ ~SenderReturns(d)
  BY Zenon, <1>1 DEF DriveEndsUnsent, SenderReturns, Polled
<1> QED BY Zenon, <1>2, <1>3, <1>4 DEF DispatchStep

\* What one dispatch's step has to show.
StepKeeps(d) == OnlyFor(d) /\ ToolType' /\ ToolHoldInv(d)' /\ ToolCountInv'

\* Queueing, validation and the attempts to acquire.
LEMMA QueueKeeps ==
    ASSUME ToolInv, NEW d \in Dispatch, Enqueue(d) \/ Validate(d) \/ Acquire(d)
    PROVE  StepKeeps(d)
<1>0. ToolType /\ ToolHoldInv(d)
  BY Zenon DEF ToolInv
<1>1. CASE Enqueue(d) \/ Validate(d)
  <2>1. /\ UNCHANGED <<tHandler, tLimit, tWork, tChild, tPermit, tCounters, tOwned>>
        /\ \E to \in {"validate", "wait", "done"} : tPc' = [tPc EXCEPT ![d] = to]
        /\ tPc[d] \in {"new", "validate"}
    BY Zenon, <1>1 DEF Enqueue, Validate, Leave, Step
  <2>2. OnlyFor(d) /\ SameHolders(d) /\ SameChildren(d)
    BY ZenonT(30), <1>0, <2>1 DEF OnlyFor, SameHolders, SameChildren, ToolType
  <2>3. ToolType' /\ ToolHoldInv(d)'
    BY <1>0, <2>1 DEF ToolType, ToolHoldInv, IsProcess, Stoppable
  <2> QED BY Zenon, <2>2, <2>3, CountsStay DEF StepKeeps
<1>2. CASE Acquire(d)
  <2>1. /\ UNCHANGED <<tHandler, tLimit, tWork, tChild, tOwned>> /\ tPc[d] \in {"wait", "retry"}
    BY Zenon, <1>2 DEF Acquire
  <2>2. \/ /\ Fits /\ tTool' = tTool + 1 /\ tTxn' = tTxn + 1 /\ tShared' = tShared + 1
           /\ tPermit' = [tPermit EXCEPT ![d] = "guard"] /\ tPc' = [tPc EXCEPT ![d] = "start"]
        \/ /\ UNCHANGED <<tCounters, tPermit>>
           /\ \E to \in {"retry", "done"} : tPc' = [tPc EXCEPT ![d] = to]
    BY Zenon, <1>2 DEF Acquire, Leave, Step
  <2>3. OnlyFor(d) /\ SameChildren(d)
    BY ZenonT(30), <1>0, <2>1, <2>2 DEF OnlyFor, SameChildren, ToolType
  <2>4. ToolType' /\ ToolHoldInv(d)'
    BY SMTT(20), <1>0, <2>1, <2>2 DEF ToolType, ToolHoldInv, IsProcess, Stoppable
  <2>5. ToolCountInv'
    <3>1. CASE UNCHANGED <<tCounters, tPermit>>
      BY Zenon, <2>3, <3>1, CountsStay DEF SameHolders
    <3>2. CASE Fits /\ tTool' = tTool + 1 /\ tTxn' = tTxn + 1 /\ tShared' = tShared + 1
               /\ tPermit' = [tPermit EXCEPT ![d] = "guard"]
      <4>1. tPermit[d] = "none" /\ tPermit'[d] = "guard"
        BY Zenon, <1>0, <2>1, <3>2 DEF ToolHoldInv, ToolType
      <4> QED BY Zenon, <2>3, <3>2, <4>1, AcquireCounts
    <3> QED BY Zenon, <2>2, <3>1, <3>2
  <2> QED BY Zenon, <2>3, <2>4, <2>5 DEF StepKeeps
<1> QED BY Zenon, <1>1, <1>2

\* A guard that is dropped: with its body gone, or its child in the registry.
LEMMA DropKeeps ==
    ASSUME ToolInv, NEW d \in Dispatch, DropGuard(d), tPc' = [tPc EXCEPT ![d] = "done"],
           UNCHANGED <<tHandler, tLimit, tCounters>>
    PROVE  StepKeeps(d)
<1>0. ToolType /\ ToolHoldInv(d)
  BY Zenon DEF ToolInv
<1>1. /\ tPermit' = [tPermit EXCEPT ![d] = PermitOnDrop(d)]
      /\ tWork' = [tWork EXCEPT ![d] = IF @ = "running" /\ tHandler[d].drive /\ ~IsProcess(d) THEN "ended" ELSE @]
  BY Zenon DEF DropGuard, DropDrive
<1>2. /\ tOwned' = Cardinality(Children') /\ tChild' \in [Dispatch -> BOOLEAN]
      /\ \A e \in Dispatch : tChild'[e] = (tChild[e] /\ ~(e \in {d} /\ tWork[e] = "ended"))
  BY Zenon, ObserveCounts DEF DropGuard
<1>3. /\ PermitOnDrop(d) \in {"none", "orphan", "registry", "shared", "txn", "tool"}
      /\ PermitOnDrop(d) = tPermit[d] \/ (tPermit[d] = "guard" /\ PermitOnDrop(d) \in Counted)
  BY Zenon, <1>0 DEF PermitOnDrop, ToolType, Counted
<1>4. OnlyFor(d) /\ SameHolders(d)
  BY Zenon, <1>0, <1>1, <1>2, <1>3 DEF OnlyFor, SameHolders, ToolType, Counted
<1>5. ToolType'
  BY Zenon, <1>0, <1>1, <1>2, <1>3 DEF ToolType
<1>6. ToolHoldInv(d)'
  <2>1. /\ tPc'[d] = "done" /\ tHandler' = tHandler /\ tPermit'[d] = PermitOnDrop(d)
        /\ tWork'[d] = IF tWork[d] = "running" /\ tHandler[d].drive /\ ~IsProcess(d) THEN "ended" ELSE tWork[d]
        /\ tChild'[d] = (tChild[d] /\ tWork[d] # "ended") /\ tWork[d] \in {"none", "running", "ended"}
        /\ tChild[d] \in BOOLEAN
    BY Zenon, <1>0, <1>1, <1>2 DEF ToolType
  <2>2. CASE tPermit[d] # "guard"
    <3>1. tPermit'[d] = tPermit[d]
      BY Zenon, <2>1, <2>2 DEF PermitOnDrop
    <3> QED BY Zenon, <1>0, <2>1, <2>2, <3>1 DEF ToolHoldInv, IsProcess, Stoppable
  <2>3. CASE tPermit[d] = "guard" /\ HasJoin(d)
    <3>1. tPermit'[d] = "registry"
      BY Zenon, <2>1, <2>3 DEF PermitOnDrop
    <3> QED BY Zenon, <1>0, <2>1, <2>3, <3>1 DEF ToolHoldInv, IsProcess, Stoppable, HasJoin
  <2>4. CASE tPermit[d] = "guard" /\ ~HasJoin(d)
    <3>1. tPermit'[d] = "shared"
      BY Zenon, <2>1, <2>4 DEF PermitOnDrop
    <3>2. ~tChild'[d] /\ ~(Stoppable(d) /\ tWork'[d] = "running") /\ ~(IsProcess(d) /\ tWork'[d] = "running")
      BY Zenon, <1>0, <2>1, <2>4 DEF ToolHoldInv, IsProcess, Stoppable, HasJoin
    <3> QED BY Zenon, <1>0, <2>1, <3>1, <3>2 DEF ToolHoldInv, IsProcess, Stoppable
  <2> QED BY Zenon, <2>2, <2>3, <2>4
<1> QED BY Zenon, <1>2, <1>4, <1>5, <1>6, HandedOn, CountsKept DEF StepKeeps, OnlyFor, SameHolders

\* handler.start, and the abort of a worker task.
LEMMA StartKeeps ==
    ASSUME ToolInv, NEW d \in Dispatch, StartTool(d) \/ Abort(d)
    PROVE  StepKeeps(d)
<1>0. ToolType /\ ToolHoldInv(d)
  BY Zenon DEF ToolInv
<1>1. CASE Abort(d)
  BY Zenon, <1>1, DropKeeps DEF Abort, Leave
<1>2. CASE StartTool(d) /\ DropGuard(d) /\ tPc' = [tPc EXCEPT ![d] = "done"]
  BY Zenon, <1>2, DropKeeps DEF StartTool
<1>3. CASE /\ StartTool(d) /\ tPc[d] = "start" /\ tPc' = [tPc EXCEPT ![d] = "run"]
           /\ UNCHANGED tPermit /\ (StartImmediate(d) \/ StartBody(d))
  <2>1. /\ UNCHANGED <<tHandler, tLimit, tChild, tPermit, tCounters, tOwned>> /\ ~IsProcess(d)
        /\ \E w \in {"running", "ended"} : tWork' = [tWork EXCEPT ![d] = w]
    BY Zenon, <1>3 DEF StartTool, StartImmediate, StartBody
  <2>2. OnlyFor(d) /\ SameHolders(d) /\ SameChildren(d)
    BY Zenon, <1>0, <1>3, <2>1 DEF OnlyFor, SameHolders, SameChildren, ToolType
  <2>3. ToolType' /\ ToolHoldInv(d)'
    BY Zenon, <1>0, <1>3, <2>1 DEF ToolType, ToolHoldInv, IsProcess, Stoppable
  <2> QED BY Zenon, <2>2, <2>3, CountsStay DEF StepKeeps
<1>4. CASE /\ StartTool(d) /\ tPc[d] = "start" /\ tPc' = [tPc EXCEPT ![d] = "run"]
           /\ UNCHANGED tPermit /\ StartChild(d)
  <2>1. /\ UNCHANGED <<tHandler, tLimit, tPermit, tCounters>> /\ IsProcess(d)
        /\ tOwned' = tOwned + 1 /\ tChild' = [tChild EXCEPT ![d] = TRUE]
        /\ tWork' = [tWork EXCEPT ![d] = "running"]
    BY Zenon, <1>4 DEF StartTool, StartChild
  <2>2. OnlyFor(d) /\ SameHolders(d)
    BY Zenon, <1>0, <1>4, <2>1 DEF OnlyFor, SameHolders, ToolType
  <2>3. ToolType' /\ ToolHoldInv(d)'
    BY Zenon, <1>0, <1>4, <2>1 DEF ToolType, ToolHoldInv, IsProcess, Stoppable
  <2>4. Children' = Children \cup {d} /\ d \notin Children
    BY Zenon, <1>0, <1>4, <2>1 DEF Children, ToolType, ToolHoldInv
  <2>5. tOwned' = Cardinality(Children')
    BY Zenon, <1>0, <2>1, <2>4, ToolSets, FS_AddElement DEF ToolInv, ToolCountInv
  <2> QED BY Zenon, <2>2, <2>3, <2>5, HandedOn, CountsKept DEF StepKeeps, OnlyFor, SameHolders
<1> QED BY Zenon, <1>1, <1>2, <1>3, <1>4 DEF StartTool, Leave, Step

\* The body ends by itself, the drive of a process, and the wait around them.
LEMMA BodyKeeps ==
    ASSUME ToolInv, NEW d \in Dispatch,
           BodyEnds(d) \/ DriveProcess(d) \/ AwaitBody(d) \/ DriveEndsUnsent(d) \/ SenderReturns(d)
    PROVE  StepKeeps(d)
<1>0. ToolType /\ ToolHoldInv(d)
  BY Zenon DEF ToolInv
<1>1. CASE BodyEnds(d)
  <2>1. /\ UNCHANGED <<tHandler, tLimit, tPc, tChild, tPermit, tCounters, tOwned>>
        /\ tWork' = [tWork EXCEPT ![d] = "ended"] /\ tWork[d] = "running"
    BY Zenon, <1>1 DEF BodyEnds
  <2>2. OnlyFor(d) /\ SameHolders(d) /\ SameChildren(d)
    BY Zenon, <1>0, <2>1 DEF OnlyFor, SameHolders, SameChildren, ToolType
  <2>3. ToolType' /\ ToolHoldInv(d)'
    BY Zenon, <1>0, <2>1 DEF ToolType, ToolHoldInv, IsProcess, Stoppable
  <2> QED BY Zenon, <2>2, <2>3, CountsStay DEF StepKeeps
<1>2. CASE DriveProcess(d)
  <2>1. /\ UNCHANGED <<tHandler, tLimit, tPc, tWork, tPermit, tCounters>>
        /\ UNCHANGED <<tChild, tOwned>> \/ (tWork[d] = "ended" /\ Observe({d}))
    BY Zenon, <1>2 DEF DriveProcess
  <2>2. /\ tOwned' = Cardinality(Children') /\ tChild' \in [Dispatch -> BOOLEAN]
        /\ \A e \in Dispatch \ {d} : tChild'[e] = tChild[e]
        /\ tChild'[d] => tChild[d]
        /\ tWork[d] = "running" => tChild'[d] = tChild[d]
    <3>1. CASE UNCHANGED <<tChild, tOwned>>
      BY Zenon, <1>0, <3>1 DEF ToolType, ToolInv, ToolCountInv, Children
    <3>2. CASE tWork[d] = "ended" /\ Observe({d})
      BY Zenon, <3>2, ObserveCounts DEF ToolInv, ToolType
    <3> QED BY Zenon, <2>1, <3>1, <3>2
  <2>3. OnlyFor(d) /\ SameHolders(d)
    BY Zenon, <1>0, <2>1, <2>2 DEF OnlyFor, SameHolders
  <2>4. ToolType' /\ ToolHoldInv(d)'
    BY Zenon, <1>0, <2>1, <2>2 DEF ToolType, ToolHoldInv, IsProcess, Stoppable
  <2> QED BY Zenon, <2>2, <2>3, <2>4, HandedOn, CountsKept DEF StepKeeps, OnlyFor, SameHolders
<1>3. CASE AwaitBody(d) \/ DriveEndsUnsent(d)
  <2>1. /\ UNCHANGED <<tHandler, tLimit, tChild, tPermit, tCounters, tOwned>>
        /\ tPc[d] \in {"run", "grace", "kill", "await"}
    BY Zenon, <1>3 DEF AwaitBody, DriveEndsUnsent, Polled
  <2>2. \/ (\E to \in {"await", "join"} : tPc' = [tPc EXCEPT ![d] = to]) /\ DropDrive(d)
        \/ (\E to \in {"grace", "kill"} : tPc' = [tPc EXCEPT ![d] = to]) /\ UNCHANGED tWork
    BY Zenon, <1>3 DEF AwaitBody, DriveEndsUnsent, BodyDone, BeginTermination, Escalate, GiveUp, Step
  <2>3. /\ \A e \in Dispatch \ {d} : tWork'[e] = tWork[e] /\ tPc'[e] = tPc[e]
        /\ tWork' \in [Dispatch -> {"none", "running", "ended"}]
        /\ tPc'[d] \in {"await", "join", "grace", "kill"}
        /\ tWork'[d] = "running" => tWork[d] = "running"
        /\ tPc'[d] \in {"await", "join"} /\ Stoppable(d) /\ ~IsProcess(d) => tWork'[d] # "running"
        /\ tWork[d] \in {"running", "ended"} => tWork'[d] \in {"running", "ended"}
    BY Zenon, <1>0, <2>2 DEF DropDrive, ToolType, Stoppable
  <2>4. OnlyFor(d) /\ SameHolders(d) /\ SameChildren(d)
    BY Zenon, <2>1, <2>3 DEF OnlyFor, SameHolders, SameChildren
  <2>5. ToolType'
    BY ZenonT(30), <1>0, <2>1, <2>2, <2>3 DEF ToolType
  <2>6. ToolHoldInv(d)'
    BY Zenon, <1>0, <2>1, <2>3 DEF ToolHoldInv, IsProcess, Stoppable
  <2> QED BY Zenon, <2>4, <2>5, <2>6, CountsStay DEF StepKeeps
<1>4. CASE SenderReturns(d)
  <2>1. UNCHANGED <<tHandler, tLimit, tPc, tWork, tChild, tPermit, tCounters, tOwned>>
    BY Zenon, <1>4 DEF SenderReturns
  <2>2. OnlyFor(d) /\ SameHolders(d) /\ SameChildren(d)
    BY Zenon, <1>0, <2>1 DEF OnlyFor, SameHolders, SameChildren, ToolType
  <2>3. ToolType' /\ ToolHoldInv(d)'
    BY Zenon, <1>0, <2>1 DEF ToolType, ToolHoldInv, IsProcess, Stoppable
  <2> QED BY Zenon, <2>2, <2>3, CountsStay DEF StepKeeps
<1> QED BY ZenonT(30), <1>1, <1>2, <1>3, <1>4

\* The settlement: a child still there goes to the registry, a cooperative body
\* that did not acknowledge keeps its permit as an orphan.
LEMMA JoinKeeps ==
    ASSUME ToolInv, NEW d \in Dispatch, JoinBody(d)
    PROVE  StepKeeps(d)
<1>0. ToolType /\ ToolHoldInv(d) /\ tPc[d] = "join" /\ tPermit[d] = "guard"
  BY Zenon DEF ToolInv, JoinBody, ToolHoldInv
<1>1. /\ UNCHANGED <<tHandler, tLimit, tWork, tCounters>> /\ tPc' = [tPc EXCEPT ![d] = "done"]
      /\ tPermit' = [tPermit EXCEPT ![d] = IF @ = "guard" /\ NonAck(d) THEN "orphan" ELSE PermitOnDrop(d)]
  BY Zenon DEF JoinBody, Settle, Leave
<1>2. /\ tOwned' = Cardinality(Children') /\ tChild' \in [Dispatch -> BOOLEAN]
      /\ \A e \in Dispatch : tChild'[e] = (tChild[e] /\ ~(e \in {d} /\ tWork[e] = "ended"))
  BY Zenon, ObserveCounts DEF JoinBody
<1>3. /\ NonAck(d) => ~IsProcess(d) /\ tPermit'[d] = "orphan"
      /\ ~NonAck(d) /\ HasJoin(d) => tPermit'[d] = "registry"
      /\ ~NonAck(d) /\ ~HasJoin(d) => tPermit'[d] = "shared"
  BY Zenon, <1>0, <1>1 DEF NonAck, PermitOnDrop, ToolType
<1>4. tPermit'[d] \in {"orphan", "registry", "shared"}
  BY Zenon, <1>3
<1>5. OnlyFor(d) /\ SameHolders(d)
  BY Zenon, <1>0, <1>1, <1>2, <1>4 DEF OnlyFor, SameHolders, ToolType, Counted
<1>6. ToolType'
  BY Zenon, <1>0, <1>1, <1>2, <1>4 DEF ToolType
<1>7. /\ tPc'[d] = "done" /\ tHandler' = tHandler /\ tWork'[d] = tWork[d]
      /\ tChild'[d] = (tChild[d] /\ tWork[d] # "ended") /\ tWork[d] \in {"none", "running", "ended"}
      /\ tChild[d] \in BOOLEAN
  BY Zenon, <1>0, <1>1, <1>2 DEF ToolType
<1>8. ToolHoldInv(d)'
  <2>1. CASE NonAck(d)
    BY Zenon, <1>0, <1>3, <1>7, <2>1 DEF ToolHoldInv, IsProcess, Stoppable
  <2>2. CASE ~NonAck(d) /\ HasJoin(d)
    BY Zenon, <1>0, <1>3, <1>7, <2>2 DEF ToolHoldInv, IsProcess, Stoppable, HasJoin
  <2>3. CASE ~NonAck(d) /\ ~HasJoin(d)
    <3>1. ~tChild'[d] /\ ~(Stoppable(d) /\ tWork[d] = "running") /\ ~(IsProcess(d) /\ tWork[d] = "running")
      BY Zenon, <1>0, <1>7, <2>3 DEF ToolHoldInv, IsProcess, Stoppable, HasJoin
    <3> QED BY Zenon, <1>0, <1>3, <1>7, <2>3, <3>1 DEF ToolHoldInv, IsProcess, Stoppable
  <2> QED BY Zenon, <2>1, <2>2, <2>3
<1> QED BY Zenon, <1>1, <1>2, <1>5, <1>6, <1>8, HandedOn, CountsKept DEF StepKeeps

\* ToolPermit::drop.
LEMMA ReleaseKeeps ==
    ASSUME ToolInv, NEW d \in Dispatch, ReleasePermit(d)
    PROVE  StepKeeps(d)
<1>0. ToolType /\ ToolHoldInv(d)
  BY Zenon DEF ToolInv
<1>1. /\ UNCHANGED <<tHandler, tLimit, tPc, tWork, tChild, tOwned>>
      /\ tPermit[d] \in {"shared", "txn", "tool"}
      /\ \E to \in {"txn", "tool", "none"} : tPermit' = [tPermit EXCEPT ![d] = to]
  BY Zenon, <1>0 DEF ReleasePermit, ToolType
<1>2. OnlyFor(d) /\ SameChildren(d)
  BY Zenon, <1>0, <1>1 DEF OnlyFor, SameChildren, ToolType
<1>3. ToolType' /\ ToolHoldInv(d)'
  BY ZenonT(30), <1>0, <1>1 DEF ToolType, ToolHoldInv, IsProcess, Stoppable
<1> QED BY Zenon, <1>2, <1>3, ReleaseCounts DEF StepKeeps

\* The registry's and the orphans' turns: only permits whose child is gone move.
LEMMA RegistryKeeps ==
    ASSUME ToolInv, ShutdownProgress \/ LiveCount
    PROVE  ToolInv'
<1>0. ToolType /\ \A e \in Dispatch : ToolHoldInv(e)
  BY Zenon DEF ToolInv
<1>1. /\ UNCHANGED <<tHandler, tLimit, tPc, tWork, tCounters, tStop>> /\ Observe(Parked)
      /\ tStop # "stopped"
  <2>1. LiveCount => tStop # "stopped"
    BY Zenon DEF LiveCount, Parked, ToolInv, ToolStopInv
  <2> QED BY Zenon, <2>1 DEF ShutdownProgress, LiveCount
<1>2. /\ tOwned' = Cardinality(Children') /\ tChild' \in [Dispatch -> BOOLEAN]
      /\ \A e \in Dispatch : tChild'[e] = (tChild[e] /\ ~(e \in Parked /\ tWork[e] = "ended"))
  BY Zenon, <1>1, ObserveCounts DEF Parked
<1>3. /\ tPermit' \in [Dispatch -> {"none", "guard", "orphan", "registry", "shared", "txn", "tool"}]
      /\ \A e \in Dispatch :
            \/ tPermit'[e] = tPermit[e] /\ (tPermit[e] = "registry" => HasJoin(e))
            \/ tPermit[e] = "orphan" /\ tPermit'[e] = "shared"
            \/ tPermit[e] = "registry" /\ ~HasJoin(e) /\ tPermit'[e] = "shared"
  BY <1>0 DEF ShutdownProgress, LiveCount, Parked, ToolType
<1>4. HoldsShared' = HoldsShared /\ HoldsTxn' = HoldsTxn /\ HoldsTool' = HoldsTool
  BY Zenon, <1>3 DEF HoldsShared, HoldsTxn, HoldsTool
<1>5. ToolCountInv'
  BY Zenon, <1>1, <1>2, <1>4, CountsKept
<1>6. ASSUME NEW e \in Dispatch PROVE ToolHoldInv(e)'
  <2>1. /\ ToolHoldInv(e) /\ tWork'[e] = tWork[e] /\ tPc'[e] = tPc[e] /\ tHandler' = tHandler
        /\ tWork[e] \in {"none", "running", "ended"} /\ tChild[e] \in BOOLEAN
        /\ tChild'[e] = (tChild[e] /\ ~(tPermit[e] = "registry" /\ tWork[e] = "ended"))
    BY Zenon, <1>0, <1>1, <1>2 DEF Parked, ToolType
  <2>2. CASE tPermit'[e] = tPermit[e] /\ (tPermit[e] = "registry" => HasJoin(e))
    BY Zenon, <2>1, <2>2 DEF ToolHoldInv, IsProcess, Stoppable, HasJoin
  <2>3. CASE tPermit[e] = "orphan" /\ tPermit'[e] = "shared"
    BY Zenon, <2>1, <2>3 DEF ToolHoldInv, IsProcess, Stoppable
  <2>4. CASE tPermit[e] = "registry" /\ ~HasJoin(e) /\ tPermit'[e] = "shared"
    <3>1. ~tChild'[e] /\ tWork[e] # "running"
      BY Zenon, <2>1, <2>4 DEF ToolHoldInv, IsProcess, Stoppable, HasJoin
    <3> QED BY Zenon, <2>1, <2>4, <3>1 DEF ToolHoldInv, IsProcess, Stoppable
  <2> QED BY Zenon, <1>3, <2>2, <2>3, <2>4
<1>7. ToolType' /\ ToolStopInv'
  BY Zenon, <1>0, <1>1, <1>2, <1>3 DEF ToolType, ToolStopInv
<1> QED BY Zenon, <1>5, <1>6, <1>7 DEF ToolInv

\* Every step keeps the invariant.
LEMMA ToolInvStep == ToolInv /\ [ToolNext]_tdVars => ToolInv'
<1> SUFFICES ASSUME ToolInv, [ToolNext]_tdVars PROVE ToolInv'
  BY Zenon
<1>1. ASSUME NEW d \in Dispatch, StepKeeps(d), ToolStopInv' PROVE ToolInv'
  BY Zenon, <1>1, OnlyForKeeps DEF StepKeeps, ToolInv
<1>2. ASSUME NEW d \in Dispatch, DispatchStep(d) \/ DriveProcess(d) \/ DriveEndsUnsent(d)
                                \/ SenderReturns(d) \/ ReleasePermit(d) \/ Abort(d)
      PROVE  ToolInv'
  <2>1. tStop' = tStop /\ tStop # "stopped"
    <3>1. tStop # "stopped"
      BY Zenon, <1>2, StoppedIsQuiet
    <3>2. tStop' = tStop
      BY Zenon, <1>2 DEF DispatchStep, Enqueue, Validate, Acquire, StartTool, AwaitBody, JoinBody, DriveProcess,
                  DriveEndsUnsent, SenderReturns, ReleasePermit, Abort
    <3> QED BY Zenon, <3>1, <3>2
  <2>2. StepKeeps(d)
    BY ZenonT(30), <1>2, QueueKeeps, StartKeeps, BodyKeeps, JoinKeeps, ReleaseKeeps DEF DispatchStep
  <2> QED BY Zenon, <1>1, <2>1, <2>2 DEF ToolStopInv
<1>3. ASSUME NEW d \in Dispatch, BodyEnds(d) PROVE ToolInv'
  <2>1. StepKeeps(d)
    BY Zenon, <1>3, BodyKeeps
  <2>2. ToolStopInv'
    BY Zenon, <1>3 DEF BodyEnds, ToolInv, ToolStopInv
  <2> QED BY Zenon, <1>1, <2>1, <2>2
<1>4. CASE ShutdownProgress \/ LiveCount
  BY Zenon, <1>4, RegistryKeeps
<1>5. CASE BeginQuiesce \/ Stop \/ UNCHANGED tdVars
  <2>1. UNCHANGED <<tHandler, tLimit, tPc, tWork, tChild, tPermit, tCounters, tOwned>>
    BY Zenon, <1>5 DEF BeginQuiesce, Stop, tdVars, tEach
  <2>2. ToolType' /\ ToolCountInv'
    BY Zenon, <2>1 DEF ToolInv, ToolType, ToolCountInv, tCounters, HoldsShared, HoldsTxn, HoldsTool, Children
  <2>3. ToolStopInv'
    BY Zenon, <1>5, <2>1 DEF BeginQuiesce, Stop, MayStop, Parked, tdVars, ToolInv, ToolStopInv
  <2>4. \A e \in Dispatch : ToolHoldInv(e)'
    BY Zenon, <2>1 DEF ToolInv, ToolHoldInv, IsProcess, Stoppable
  <2> QED BY Zenon, <2>2, <2>3, <2>4 DEF ToolInv
<1> QED BY Zenon, <1>2, <1>3, <1>4, <1>5 DEF ToolNext

\* The invariant says that no more run than fit, and that Stopped is real.
LEMMA ToolInvMeans == ToolInv => NoOvercommit
<1> SUFFICES ASSUME ToolInv PROVE NoOvercommit
  BY Zenon
<1> DEFINE live == {d \in Dispatch : Stoppable(d) /\ tWork[d] = "running"}
<1>1. \A d \in live : tPermit[d] \in {"guard", "registry"}
  BY Zenon DEF ToolInv, ToolHoldInv
<1>2. live \in SUBSET HoldsShared /\ live \in SUBSET HoldsTxn /\ live \in SUBSET HoldsTool
  BY Zenon, <1>1 DEF HoldsShared, HoldsTxn, HoldsTool
<1>3. /\ Cardinality(live) <= Cardinality(HoldsShared) /\ Cardinality(live) <= Cardinality(HoldsTxn)
      /\ Cardinality(live) <= Cardinality(HoldsTool) /\ Cardinality(live) \in Nat
  <2> HIDE DEF live
  <2> QED BY Zenon, <1>2, ToolSets, FS_Subset, FS_CardinalityType DEF ToolInv
<1>4. Cardinality(live) <= tLimit.shared /\ Cardinality(live) <= tLimit.txn /\ Cardinality(live) <= tLimit.tool
  <2> HIDE DEF live
  <2> QED BY <1>3, ToolSets DEF ToolInv, ToolCountInv
<1>5. ASSUME tStop = "stopped"
      PROVE  live = {} /\ tOwned = 0 /\ tShared = 0 /\ tTxn = 0 /\ tTool = 0
  <2>1. \A d \in Dispatch : tPermit[d] = "none"
    BY Zenon, <1>5 DEF ToolInv, ToolStopInv
  <2>2. live = {} /\ HoldsShared = {} /\ HoldsTxn = {} /\ HoldsTool = {} /\ Children = {}
    BY Zenon, <1>1, <2>1 DEF HoldsShared, HoldsTxn, HoldsTool, Children, ToolInv, ToolHoldInv
  <2> QED BY Zenon, <2>2, FS_EmptySet DEF ToolInv, ToolCountInv
<1> QED BY Zenon, <1>4, <1>5 DEF NoOvercommit

(* However dispatches are aborted, time out or race, what the runtime can    *)
(* stop never runs in greater numbers than the three limits allow, and a     *)
(* runtime that says Stopped owns nothing: for every set of calls, every     *)
(* registered handler and every limit.                                       *)
THEOREM NeverOvercommitted == ToolSpec => []NoOvercommit
<1>1. ToolInit => ToolInv
  <2> SUFFICES ASSUME ToolInit PROVE ToolInv
    BY Zenon
  <2>1. ToolType /\ ToolStopInv
    BY Zenon DEF ToolInit, ToolType, ToolStopInv
  <2>2. HoldsShared = {} /\ HoldsTxn = {} /\ HoldsTool = {} /\ Children = {}
    BY Zenon DEF ToolInit, HoldsShared, HoldsTxn, HoldsTool, Children
  <2>3. ToolCountInv
    BY SMTT(20), <2>1, <2>2, FS_EmptySet, ToolSets DEF ToolInit, ToolCountInv
  <2>4. ASSUME NEW d \in Dispatch PROVE ToolHoldInv(d)
    <3>1. IsProcess(d) => Stoppable(d)
      BY Zenon, ToolAssumption DEF ToolInit, IsProcess, Stoppable
    <3> QED BY Zenon, <3>1 DEF ToolInit, ToolHoldInv
  <2> QED BY Zenon, <2>1, <2>3, <2>4 DEF ToolInv
<1> QED BY <1>1, ToolInvStep, ToolInvMeans, PTL DEF ToolSpec
============================================================================
