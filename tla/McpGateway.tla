----------------------------- MODULE McpGateway -----------------------------
(***************************************************************************)
(* The runtime's MCP gateway (transaction/mcp/{gateway,binding,handler}.rs *)
(* and lifecycle/{mcp_listener,mcp_request_owner}.rs): capability routes   *)
(* installed, activated and revoked by transaction coordinators, the       *)
(* per-capability HTTP services created by requests, and requests that run *)
(* as supervised tasks while routes disappear under them.                  *)
(***************************************************************************)
EXTENDS Naturals, FiniteSets

CONSTANTS
    Route,          \* transactions that use the gateway; each has one capability
    Request,        \* HTTP requests, each for one capability
    MaxRoutes, MaxInFlight, MaxLocal

ASSUME GatewayAssumption ==
    /\ IsFiniteSet(Route) /\ IsFiniteSet(Request)
    /\ {MaxRoutes, MaxInFlight, MaxLocal} \subseteq Nat \ {0}

VARIABLES
    gCoord,     \* coordinator: new, installed, ready, exited, aborted
    gTerm,      \* terminal selected for the transaction
    gState,     \* the binding's shared atom: none, pending, active, revoked
    gRoutes,    \* McpRouteTable
    gServices,  \* token -> number of its CapabilityHttpService (0: absent)
    gMade,      \* services created so far
    gPc,        \* request: idle, spawn, check, permit, service, body, handle, dispatch,
                \* call, done
    gFor, gSvc, gSlot,  \* the request's capability, service, and whether it holds its permit
    gServe      \* listener: serving, cancelled, ended

gReq == <<gPc, gFor, gSvc, gSlot>>
gTable == <<gState, gRoutes, gServices>>
gVars == <<gCoord, gTerm, gTable, gMade, gReq, gServe>>

GatewayInit ==
    /\ gCoord = [t \in Route |-> "new"] /\ gTerm = [t \in Route |-> FALSE]
    /\ gState = [t \in Route |-> "none"] /\ gRoutes = {}
    /\ gServices = [t \in Route |-> 0] /\ gMade = 0
    /\ gPc = [r \in Request |-> "idle"] /\ gFor \in [Request -> Route]
    /\ gSvc = [r \in Request |-> 0] /\ gSlot = [r \in Request |-> FALSE]
    /\ gServe = "serving"

-----------------------------------------------------------------------------
(* The route table.                                                        *)

\* McpRouteTable::revoke(_all), which drains the table under its lock, and
\* drop_capability_service for each token it held.
RevokeRoutes(s) ==
    /\ gState' = [t \in Route |-> IF t \in s \cap gRoutes THEN "revoked" ELSE gState[t]]
    /\ gRoutes' = gRoutes \ s
    /\ gServices' = [t \in Route |-> IF t \in s \cap gRoutes THEN 0 ELSE gServices[t]]

\* The coordinator installs a pending route, before the attach.
InstallPending(t) ==
    /\ gCoord[t] = "new"
    /\ \/ /\ Cardinality(gRoutes) < MaxRoutes
          /\ gRoutes' = gRoutes \cup {t} /\ gState' = [gState EXCEPT ![t] = "pending"]
          /\ gCoord' = [gCoord EXCEPT ![t] = "installed"]
       \/ /\ Cardinality(gRoutes) >= MaxRoutes
          /\ gCoord' = [gCoord EXCEPT ![t] = "exited"] /\ UNCHANGED <<gState, gRoutes>>
    /\ UNCHANGED <<gTerm, gServices, gMade, gReq, gServe>>

\* McpRouteTable::activate, after the session claim; a route that is gone or
\* revoked makes the gate fail.
ActivateRoute(t) ==
    /\ gCoord[t] = "installed" /\ t \in gRoutes /\ gState[t] = "pending"
    /\ gState' = [gState EXCEPT ![t] = "active"]
    /\ gCoord' = [gCoord EXCEPT ![t] = "ready"]
    /\ UNCHANGED <<gTerm, gRoutes, gServices, gMade, gReq, gServe>>

\* The coordinator returns (attach failed, gate failed, exchange over): revoke.
ExitCoordinator(t) ==
    /\ gCoord[t] \in {"installed", "ready"}
    /\ RevokeRoutes({t})
    /\ gCoord' = [gCoord EXCEPT ![t] = "exited"]
    /\ UNCHANGED <<gTerm, gMade, gReq, gServe>>

\* accept_terminal for another reason than the coordinator's exit.
SelectTerminal(t) ==
    /\ ~gTerm[t] /\ gCoord[t] # "exited"
    /\ gTerm' = [gTerm EXCEPT ![t] = TRUE]
    /\ UNCHANGED <<gCoord, gTable, gMade, gReq, gServe>>

Ended(r) == gPc[r] \in {"idle", "done"}

\* A finished or dropped request gives its two permits back.
Answer(s) ==
    /\ gPc' = [r \in Request |-> IF r \in s THEN "done" ELSE gPc[r]]
    /\ gSlot' = [r \in Request |-> gSlot[r] /\ r \notin s]

\* The finalizer has finished: abort_transaction drops every task of the
\* transaction that is left, the coordinator and the requests.
FinalizerDone(t) ==
    /\ gTerm[t] \/ gCoord[t] = "exited"
    /\ gCoord' = [gCoord EXCEPT ![t] = IF @ = "exited" THEN @ ELSE "aborted"]
    /\ Answer({r \in Request : gFor[r] = t /\ ~Ended(r) /\ gPc[r] # "spawn"})
    /\ UNCHANGED <<gTerm, gTable, gMade, gFor, gSvc, gServe>>

\* signal_mcp_shutdown: revoke everything, cancel the listener.
SignalShutdown ==
    /\ gServe = "serving" /\ gServe' = "cancelled"
    /\ RevokeRoutes(Route)
    /\ UNCHANGED <<gCoord, gTerm, gMade, gReq>>

\* serve returns once its connections are over, and revokes again.
ServeEnds ==
    /\ gServe = "cancelled" /\ \A r \in Request : Ended(r)
    /\ gServe' = "ended"
    /\ RevokeRoutes(Route)
    /\ UNCHANGED <<gCoord, gTerm, gMade, gReq>>

-----------------------------------------------------------------------------
(* One request.                                                            *)

GoReq(r, from, to) == gPc[r] = from /\ gPc' = [gPc EXCEPT ![r] = to] /\ UNCHANGED gSlot

\* No live route: 404, and a leftover service is dropped.
Unknown(r) ==
    /\ gFor[r] \notin gRoutes /\ Answer({r})
    /\ gServices' = [gServices EXCEPT ![gFor[r]] = 0]

\* forward_mcp: the lookup keeps the binding.
Forward(r) ==
    /\ gPc[r] = "idle" /\ gServe # "ended"
    /\ \/ Unknown(r)
       \/ gFor[r] \in gRoutes /\ GoReq(r, "idle", "spawn") /\ UNCHANGED gServices
    /\ UNCHANGED <<gCoord, gTerm, gState, gRoutes, gMade, gFor, gSvc, gServe>>

\* SupervisedMcpRequestOwner::run_owned: registered as a task, or 503.
RunOwned(r) ==
    /\ gPc[r] = "spawn"
    /\ GoReq(r, "spawn", "check") \/ Answer({r})
    /\ UNCHANGED <<gCoord, gTerm, gTable, gMade, gFor, gSvc, gServe>>

\* The route is looked up again in the owned task.
StillRouted(r) ==
    /\ gPc[r] = "check"
    /\ \/ Unknown(r)
       \/ gFor[r] \in gRoutes /\ GoReq(r, "check", "permit") /\ UNCHANGED gServices
    /\ UNCHANGED <<gCoord, gTerm, gState, gRoutes, gMade, gFor, gSvc, gServe>>

InFlight == {r \in Request : gPc[r] \in {"service", "body", "handle", "dispatch", "call"}}

\* The gateway-wide permit, or 429.
GlobalPermit(r) ==
    /\ gPc[r] = "permit"
    /\ \/ Cardinality(InFlight) < MaxInFlight /\ GoReq(r, "permit", "service")
       \/ Cardinality(InFlight) >= MaxInFlight /\ Answer({r})
    /\ UNCHANGED <<gCoord, gTerm, gTable, gMade, gFor, gSvc, gServe>>

\* entry().or_insert_with under the services lock, then the capability's permit.
CapabilityService(r) ==
    LET t == gFor[r]
        svc == IF gServices[t] = 0 THEN gMade + 1 ELSE gServices[t]
        held == {q \in Request : gSlot[q] /\ gSvc[q] = svc}
    IN /\ gPc[r] = "service"
       /\ gServices' = [gServices EXCEPT ![t] = svc]
       /\ gMade' = IF gServices[t] = 0 THEN gMade + 1 ELSE gMade
       /\ gSvc' = [gSvc EXCEPT ![r] = svc]
       /\ \/ /\ Cardinality(held) < MaxLocal
             /\ gPc' = [gPc EXCEPT ![r] = "body"] /\ gSlot' = [gSlot EXCEPT ![r] = TRUE]
          \/ Cardinality(held) >= MaxLocal /\ Answer({r})
       /\ UNCHANGED <<gCoord, gTerm, gState, gRoutes, gFor, gServe>>

\* The body, within its bound and the request's duration.
ReadBody(r) ==
    /\ gPc[r] = "body"
    /\ GoReq(r, "body", "handle") \/ Answer({r})
    /\ UNCHANGED <<gCoord, gTerm, gTable, gMade, gFor, gSvc, gServe>>

\* Mutant: the handler trusts the route lookup.
ensure_active_looked_up(r) == TRUE

\* TransactionMcpHandler::ensure_active reads the binding's atom.
ensure_active(r) == gState[gFor[r]] = "active"

\* tools/list and errors are answered at once, tools/call dispatches.
HandleRequest(r) ==
    /\ gPc[r] = "handle"
    /\ \/ ensure_active(r) /\ GoReq(r, "handle", "dispatch")
       \/ Answer({r})
    /\ UNCHANGED <<gCoord, gTerm, gTable, gMade, gFor, gSvc, gServe>>

\* The dispatcher: input validation, up to 50 ms of waiting for capacity, and
\* handler.start; or a refusal on the way.  The capability is not looked at
\* again: a call whose route was revoked meanwhile starts.
StartCall(r) ==
    /\ gPc[r] = "dispatch"
    /\ GoReq(r, "dispatch", "call") \/ Answer({r})
    /\ UNCHANGED <<gCoord, gTerm, gTable, gMade, gFor, gSvc, gServe>>

\* Mutant: the wait for the tool has no deadline.
AwaitCall_untimed(r) ==
    /\ gPc[r] = "call" /\ gTerm[gFor[r]] /\ Answer({r})
    /\ UNCHANGED <<gCoord, gTerm, gTable, gMade, gFor, gSvc, gServe>>

\* The tool's result, or the request's duration is over (504).
AwaitCall(r) ==
    /\ gPc[r] = "call" /\ Answer({r})
    /\ UNCHANGED <<gCoord, gTerm, gTable, gMade, gFor, gSvc, gServe>>

RequestStep(r) ==
    \/ RunOwned(r) \/ StillRouted(r) \/ GlobalPermit(r) \/ CapabilityService(r)
    \/ ReadBody(r) \/ HandleRequest(r) \/ StartCall(r) \/ AwaitCall(r)

GatewayNext ==
    \/ \E t \in Route : InstallPending(t) \/ ActivateRoute(t) \/ ExitCoordinator(t)
                        \/ SelectTerminal(t) \/ FinalizerDone(t)
    \/ \E r \in Request : Forward(r) \/ RequestStep(r)
    \/ SignalShutdown \/ ServeEnds

\* Request tasks are scheduled and their timers fire; the listener task is.
GatewayFairness ==
    /\ \A r \in Request : WF_gVars(RequestStep(r))
    /\ WF_gVars(ServeEnds)

GatewaySpec == GatewayInit /\ [][GatewayNext]_gVars /\ GatewayFairness

-----------------------------------------------------------------------------
Calls(t) == {r \in Request : gFor[r] = t /\ gPc[r] \in {"dispatch", "call"}}

(* At most max_per_capability_requests tool calls of a capability are       *)
(* dispatched or run at once, before and after its revocation.  A request   *)
(* that passed both lookups before it finds the service dropped, creates    *)
(* another with permits of its own, and is refused by ensure_active.  So    *)
(* what a revoked capability can still start is what the handler had let    *)
(* through, never more than the limit; the implementation guide says that   *)
(* "Revoked [...] calls [...] never reach a handler".                       *)
CallsBounded == \A t \in Route : Cardinality(Calls(t)) <= MaxLocal

(* While a route is live its requests share one service: never more than    *)
(* max_per_capability_requests of them hold a permit at once.               *)
CapabilityBound ==
    \A t \in gRoutes :
        Cardinality({r \in Request : gFor[r] = t /\ gSlot[r]}) <= MaxLocal

(* Every request is answered: spawn refusals, permits that are not waited   *)
(* for and the request duration leave no request hanging, and a cancelled   *)
(* listener ends.                                                           *)
RequestsAnswered ==
    /\ \A r \in Request : (gPc[r] = "spawn") ~> (gPc[r] = "done")
    /\ (gServe = "cancelled") ~> (gServe = "ended")
=============================================================================
