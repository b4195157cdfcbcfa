------------------------------- MODULE MCWork ------------------------------
(* Instances for TLC of the parts that do the work of a transaction: tool    *)
(* dispatch, the MCP gateway, the connectors' connections, the agent         *)
(* processes and the Grok server; and of the publisher and the mailbox its   *)
(* events leave by.                                                          *)
EXTENDS EventMailbox, EventPublisher, ToolDispatch, McpGateway, Connection, AgentProcess, GrokServer, MCPart, TLC

CONSTANT host

-----------------------------------------------------------------------------
\* Handlers of the three execution classes, two to a run: an abortable one, a
\* child process, a cooperative body nobody can stop, a cooperative child and a
\* cooperative body driven inline.
Handlers ==
    <<[class |-> "AbortableAtYield", kill |-> "cancel_only", drive |-> TRUE],
      [class |-> "ProcessIsolated", kill |-> "process", drive |-> TRUE],
      [class |-> "CooperativeInProcess", kill |-> "none", drive |-> FALSE],
      [class |-> "CooperativeInProcess", kill |-> "process", drive |-> TRUE],
      [class |-> "CooperativeInProcess", kill |-> "cancel_only", drive |-> TRUE]>>
AllPairs == {p \in (1 .. 5) \X (1 .. 5) : p[1] <= p[2]}
Pairs(S) == {a :> Handlers[ij[1]] @@ b :> Handlers[ij[2]] : ij \in S}
HandlerPairs == Pairs(AllPairs)
MixedPairs == Pairs({<<2, 3>>, <<1, 4>>, <<4, 5>>})

\* In each, another of the three counters is the one that is short.
ShortLimits ==
    {[shared |-> 1, txn |-> 2, tool |-> 2], [shared |-> 2, txn |-> 1, tool |-> 2],
     [shared |-> 2, txn |-> 2, tool |-> 1]}
OneLimit == {[shared |-> 1, txn |-> 2, tool |-> 2]}

\* Two controllers, one to cancel and one to terminate; or every choice.
MixedControl == {a :> "cancel" @@ b :> "terminate"}
AnyControl == [Controller -> {"cancel", "terminate"}]

AgentProfiles ==
    {[name |-> "cursor", authenticate |-> TRUE], [name |-> "codex", authenticate |-> TRUE],
     [name |-> "agy", authenticate |-> FALSE]}
AgentLines == [cursor |-> 4, codex |-> 1, agy |-> 1]
AgyOnly == {[name |-> "agy", authenticate |-> FALSE]}
FourLines == [agy |-> 4]

\* Two callers ask for one session, or for one each.
Sessions == {[c \in Caller |-> "s"], [c \in Caller |-> IF c = a THEN "s" ELSE "t"]}

-----------------------------------------------------------------------------
WorkInit ==
    /\ part \in Parts
    /\ MailboxInit
    /\ evSession \in Only("publisher", {"none", "external"}) /\ PublisherInit
    /\ tHandler \in Only("tools", Linked) /\ tLimit \in Only("tools", Limits) /\ ToolInit
    /\ gFor \in Only("gateway", [Request -> Route]) /\ GatewayInit
    /\ kKind \in Only("connection", Kinds) /\ kWant \in Only("connection", Wants) /\ ConnectionInit
    /\ pProf \in Only("agent", {p.name : p \in Profiles}) /\ AgentInit
    /\ wSid \in Only("grok", SidChoices) /\ GrokInit

WorkNext ==
    \/ /\ part = "mailbox" /\ MailboxNext
       /\ UNCHANGED <<part, evVars, tdVars, gVars, kVars, pVars, wVars>>
    \/ /\ part = "publisher" /\ PublisherNext
       /\ UNCHANGED <<part, mbVars, tdVars, gVars, kVars, pVars, wVars>>
    \/ /\ part = "tools" /\ ToolNext
       /\ UNCHANGED <<part, mbVars, evVars, gVars, kVars, pVars, wVars>>
    \/ /\ part = "gateway" /\ GatewayNext
       /\ UNCHANGED <<part, mbVars, evVars, tdVars, kVars, pVars, wVars>>
    \/ /\ part = "connection" /\ ConnectionNext
       /\ UNCHANGED <<part, mbVars, evVars, tdVars, gVars, pVars, wVars>>
    \/ /\ part = "agent" /\ AgentNext
       /\ UNCHANGED <<part, mbVars, evVars, tdVars, gVars, kVars, wVars>>
    \/ /\ part = "grok" /\ GrokNext
       /\ UNCHANGED <<part, mbVars, evVars, tdVars, gVars, kVars, pVars>>

\* The fairness of each part's specification, where that part runs: the parts of
\* the runtime, and those that own a peer process.
WorkFairness ==
    /\ WF_evVars(part = "publisher" /\ PublisherRuns)
    /\ WF_evVars(part = "publisher" /\ Unpark)
    /\ WF_evVars(part = "publisher" /\ Tick)
    /\ \A d \in Dispatch :
        /\ WF_tdVars(part = "tools" /\ DispatchStep(d))
        /\ WF_tdVars(part = "tools" /\ ReleasePermit(d))
        /\ WF_tdVars(part = "tools" /\ tKilled[d] /\ BodyEnds(d))
    /\ WF_tdVars(part = "tools" /\ ShutdownProgress)
    /\ WF_tdVars(part = "tools" /\ Stop)
    /\ \A r \in Request : WF_gVars(part = "gateway" /\ RequestStep(r))
    /\ WF_gVars(part = "gateway" /\ ServeEnds)
    /\ WF_kVars(part = "connection" /\ OwnerStep)
    /\ WF_kVars(part = "connection" /\ RequestDeadline)
    /\ \A c \in Controller : WF_kVars(part = "connection" /\ kReq[c] # "idle" /\ RequestEnd(c))

PeersFairness ==
    /\ WF_pVars(part = "agent" /\ AgentOwnerRuns)
    /\ WF_pVars(part = "agent" /\ pFlag /\ AgentControl)
    /\ WF_pVars(part = "agent" /\ AgentPump)
    /\ WF_pVars(part = "agent" /\ AgentUpdates)
    /\ WF_pVars(part = "agent" /\ AgentReader)
    /\ \A c \in Caller : WF_wVars(part = "grok" /\ CallRuns(c))
    /\ WF_wVars(part = "grok" /\ ConnectionRuns)

WorkSafety ==
    WorkInit /\ [][WorkNext]_<<part, mbVars, evVars, tdVars, gVars, kVars, pVars, wVars>>
WorkSpec == WorkSafety /\ WorkFairness
PeersSpec == WorkSafety /\ PeersFairness
============================================================================
