----------------------------- MODULE GrokServer -----------------------------
(***************************************************************************)
(* One Grok server connection (connector-grok/src/server.rs, session.rs):  *)
(* callers that open a session over `rpc_call`, prompt on it and leave,    *)
(* and the single `run_connection` task that writes, reads and             *)
(* demultiplexes for all of them.                                          *)
(*                                                                         *)
(* The points where a task can be suspended are states of their own: the   *)
(* gap between `rpc_call`'s limit check and its insertion, the bounded     *)
(* write channel, the reader parked in `push_inbound` while it holds the   *)
(* read lock of the session map, and the reader parked on the channel it   *)
(* alone drains while it answers a request of the agent.                   *)
(***************************************************************************)
EXTENDS Naturals, Sequences, FiniteSets, Functions

CONSTANTS Caller,       \* one client per session handle
          SidChoices,   \* functions Caller -> session id the agent names
          MaxPending,   \* limits.max_pending_rpc
          MaxSessions,  \* limits.max_sessions
          SessionCap,   \* limits.max_queued_inbound_per_session
          WriteCap,     \* capacity of the write channel
          MaxCalls      \* bound: requests per caller

ASSUME GrokAssumption ==
    /\ {MaxPending, MaxSessions, SessionCap, WriteCap, MaxCalls} \subseteq Nat \ {0}
    /\ \A f \in SidChoices : DOMAIN f = Caller

VARIABLES
    wSid,      \* session id of each caller
    wPc,       \* where each caller is
    wOp,       \* "open" or "prompt": what its rpc_call is for
    wSerial,   \* requests the caller has made
    wId,       \* wire id of the caller's request
    wReply,    \* what its one-shot holds: "none", "err" or the request answered
    wPending,  \* HashMap id -> the request whose waiter it holds
    wNext,     \* next_id
    wOut,      \* write channel: ids, 0 for an answer to the agent
    wAgent,    \* requests the agent has and may answer: [id, req]
    wMap,      \* sessions: callers whose SessionInner is routed
    wEnd,      \* SessionInner.detached and the SessionEnd it published
    wQueue,    \* length of each session's output queue
    wReader,   \* whether the session's output handle is still there
    wConn,     \* where run_connection is
    wTarget,   \* the session whose push the reader is parked on
    wFlag,     \* server control requested
    wClosed    \* ServerInner.closed

wCallVars == <<wPc, wOp, wSerial, wId>>
tableVars == <<wPending, wNext, wReply>>
sessVars == <<wMap, wEnd>>
outVars == <<wQueue, wReader>>
connVars == <<wConn, wTarget, wFlag, wClosed>>
wVars == <<wSid, wCallVars, tableVars, sessVars, outVars, connVars, wOut, wAgent>>

InRpc == {"check", "insert", "send", "wait"}

\* connect_server: the handshake is over, the demultiplexer runs. Ids count from
\* there.
GrokInit ==
    /\ wSid \in SidChoices
    /\ wPc = [c \in Caller |-> "idle"]
    /\ wOp = [c \in Caller |-> "open"]
    /\ wSerial = [c \in Caller |-> 0]
    /\ wId = [c \in Caller |-> 0]
    /\ wReply = [c \in Caller |-> <<"none">>]
    /\ wPending = <<>>
    /\ wNext = 1
    /\ wOut = <<>>
    /\ wAgent = {}
    /\ wMap = {}
    /\ wEnd = [c \in Caller |-> "none"]
    /\ wQueue = [c \in Caller |-> 0]
    /\ wReader = [c \in Caller |-> TRUE]
    /\ wConn = "loop"
    /\ wTarget = "none"
    /\ wFlag = FALSE
    /\ wClosed = FALSE

CallerTo(c, pc) == wPc' = [wPc EXCEPT ![c] = pc]

\* What a failed request leads to: a pending open fails, a failed prompt ends
\* the connection's owner but not the session.
Refused(c) == CallerTo(c, IF wOp[c] = "open" THEN "failed" ELSE "done")

-----------------------------------------------------------------------------
(* Callers *)

\* begin_session_new, begin_session_load.
BeginSession(c) ==
    /\ wPc[c] = "idle"
    /\ CallerTo(c, IF wClosed THEN "failed" ELSE "check")
    /\ UNCHANGED <<wSid, wOp, wSerial, wId, tableVars, sessVars, outVars, connVars, wOut, wAgent>>

\* SessionInner::begin_send and the check at the head of send_rpc.
BeginSend(c) ==
    /\ wPc[c] = "attached" /\ wSerial[c] < MaxCalls
    /\ CallerTo(c, IF wEnd[c] = "none" THEN "check" ELSE "done")
    /\ wOp' = [wOp EXCEPT ![c] = "prompt"]
    /\ UNCHANGED <<wSid, wSerial, wId, tableVars, sessVars, outVars, connVars, wOut, wAgent>>

TableFull == Cardinality(DOMAIN wPending) >= MaxPending

\* rpc_call: the closed flag and the size of the pending table, read under a
\* lock that is then released.
CheckLimit(c) ==
    /\ wPc[c] = "check"
    /\ IF wClosed \/ wFlag \/ TableFull
       THEN Refused(c)
       ELSE CallerTo(c, "insert")
    /\ UNCHANGED <<wSid, wOp, wSerial, wId, tableVars, sessVars, outVars, connVars, wOut, wAgent>>

\* Mutant: the id is the size of the table, so it is free again with its entry.
NextId_size == Cardinality(DOMAIN wPending) + 1

NextId == wNext

\* rpc_call: take an id, insert the waiter, encode. A request over the message
\* limit fails with its entry in the table.
InsertWaiter(c) ==
    /\ wPc[c] = "insert"
    /\ LET req == <<c, wSerial[c] + 1>> IN
        wPending' = [i \in DOMAIN wPending \cup {NextId} |-> IF i = NextId THEN req ELSE wPending[i]]
    /\ wNext' = wNext + 1
    /\ wSerial' = [wSerial EXCEPT ![c] = @ + 1]
    /\ wId' = [wId EXCEPT ![c] = NextId]
    /\ wReply' = [wReply EXCEPT ![c] = <<"none">>]
    /\ CallerTo(c, "send") \/ Refused(c)
    /\ UNCHANGED <<wSid, wOp, sessVars, outVars, connVars, wOut, wAgent>>

\* rpc_call: the write channel, outside the request's deadline.
SendRequest(c) ==
    /\ wPc[c] = "send"
    /\ \/ /\ wConn = "ended"
          /\ Refused(c)
          /\ UNCHANGED wOut
       \/ /\ wConn # "ended" /\ Len(wOut) < WriteCap
          /\ wOut' = Append(wOut, [id |-> wId[c], req |-> <<c, wSerial[c]>>])
          /\ CallerTo(c, "wait")
    /\ UNCHANGED <<wSid, wOp, wSerial, wId, tableVars, sessVars, outVars, connVars, wAgent>>

\* rpc_call: the one-shot fires. A reply to session/new may lack its sessionId.
TakeReply(c) ==
    /\ wPc[c] = "wait" /\ wReply[c] # <<"none">>
    /\ \/ wReply[c] # <<"err">> /\ CallerTo(c, IF wOp[c] = "open" THEN "admit" ELSE "attached")
       \/ (wReply[c] = <<"err">> \/ wOp[c] = "open") /\ Refused(c)
    /\ UNCHANGED <<wSid, wOp, wSerial, wId, tableVars, sessVars, outVars, connVars, wOut, wAgent>>

\* Mutant: an expired request waits on for its answer.
RequestExpires_never(c) == FALSE /\ UNCHANGED wVars

\* rpc_call: the deadline removes the entry, whether or not it is still there.
RequestExpires(c) ==
    /\ wPc[c] = "wait" /\ wReply[c] = <<"none">>
    /\ wPending' = Restrict(wPending, DOMAIN wPending \ {wId[c]})
    /\ Refused(c)
    /\ UNCHANGED <<wSid, wOp, wSerial, wId, wNext, wReply, sessVars, outVars, connVars, wOut, wAgent>>

Admissible(c) ==
    /\ Cardinality(wMap) < MaxSessions
    /\ \A d \in wMap : wSid[d] # wSid[c]

\* admit_session, under the write lock of the session map. The open may expire
\* before the handle reaches its caller; the session stays in the map.
AdmitSession(c) ==
    /\ wPc[c] = "admit" /\ wConn # "push"
    /\ IF Admissible(c)
       THEN wMap' = wMap \cup {c} /\ (CallerTo(c, "attached") \/ CallerTo(c, "failed"))
       ELSE Refused(c) /\ UNCHANGED wMap
    /\ UNCHANGED <<wSid, wOp, wSerial, wId, tableVars, wEnd, outVars, connVars, wOut, wAgent>>

\* SessionInner::finish: only the first caller publishes the session's end.
Ending(c, kind) == [wEnd EXCEPT ![c] = IF @ = "none" THEN kind ELSE @]

\* The connect deadline drops a pending open and aborts its worker where it is.
OpenExpires(c) ==
    /\ wPc[c] \in InRpc \cup {"admit"} /\ wOp[c] = "open"
    /\ CallerTo(c, "failed")
    /\ UNCHANGED <<wSid, wOp, wSerial, wId, tableVars, sessVars, outVars, connVars, wOut, wAgent>>

\* What detach_session, which only tries the write lock, leaves in the map.
Detached(sid) == IF wConn = "push" THEN wMap ELSE {d \in wMap : wSid[d] # sid}

\* Control of the raw connection, idle or in a prompt: the worker is aborted
\* and the session cancelled.
CancelSession(c) ==
    /\ wPc[c] = "attached" \/ (wPc[c] \in InRpc /\ wOp[c] = "prompt")
    /\ CallerTo(c, "done")
    /\ wEnd' = Ending(c, "Cancelled")
    /\ wMap' = IF wEnd[c] # "none" THEN wMap ELSE Detached(wSid[c])
    /\ UNCHANGED <<wSid, wOp, wSerial, wId, tableVars, outVars, connVars, wOut, wAgent>>

\* Finish or a closed input ends the connection's owner and leaves the session.
FinishInput(c) ==
    /\ wPc[c] = "attached"
    /\ CallerTo(c, "done")
    /\ UNCHANGED <<wSid, wOp, wSerial, wId, tableVars, sessVars, outVars, connVars, wOut, wAgent>>

ReadOutput(c) ==
    /\ wPc[c] \in {"attached", "done"} \cup InRpc /\ wReader[c] /\ wQueue[c] > 0
    /\ wQueue' = [wQueue EXCEPT ![c] = @ - 1]
    /\ UNCHANGED <<wSid, wCallVars, tableVars, sessVars, wReader, connVars, wOut, wAgent>>

DropOutput(c) ==
    /\ wPc[c] \in {"done", "failed"} /\ wReader[c]
    /\ wReader' = [wReader EXCEPT ![c] = FALSE]
    /\ wQueue' = [wQueue EXCEPT ![c] = 0]
    /\ UNCHANGED <<wSid, wCallVars, tableVars, sessVars, connVars, wOut, wAgent>>

RequestControl ==
    /\ ~wFlag /\ wConn # "ended"
    /\ wFlag' = TRUE
    /\ UNCHANGED <<wSid, wCallVars, tableVars, sessVars, outVars, wConn, wTarget, wClosed, wOut, wAgent>>

-----------------------------------------------------------------------------
(* run_connection *)

\* Control, a closed stream, a failed read or write: every waiter fails first.
FailPending ==
    /\ wConn = "loop"
    /\ wReply' = [c \in Caller |->
        IF \E i \in DOMAIN wPending : wPending[i] = <<c, wSerial[c]>> THEN <<"err">> ELSE wReply[c]]
    /\ wPending' = <<>>
    /\ wConn' = "failing"
    /\ UNCHANGED <<wSid, wCallVars, wNext, sessVars, outVars, wTarget, wFlag, wClosed, wOut, wAgent>>

\* Then detach_all_sessions, the closed flag and the return that drops write_rx.
DetachAll ==
    /\ wConn = "failing"
    /\ wEnd' = [c \in Caller |-> IF c \in wMap THEN Ending(c, "Lost")[c] ELSE wEnd[c]]
    /\ wMap' = {}
    /\ wClosed' = TRUE
    /\ wConn' = "ended"
    /\ wOut' = <<>> /\ wAgent' = {}
    /\ UNCHANGED <<wSid, wCallVars, tableVars, outVars, wTarget, wFlag>>

\* GrokServerHandle::shutdown: flags and abort, wherever the task is.
ShutdownServer ==
    /\ wConn # "ended"
    /\ wFlag' = TRUE /\ wClosed' = TRUE /\ wConn' = "ended" /\ wTarget' = "none"
    /\ wOut' = <<>> /\ wAgent' = {}
    /\ UNCHANGED <<wSid, wCallVars, tableVars, sessVars, outVars>>

WriteNext ==
    /\ wConn = "loop" /\ ~wFlag /\ wOut # <<>>
    /\ wAgent' = IF Head(wOut).id = 0 THEN wAgent ELSE wAgent \cup {Head(wOut)}
    /\ wOut' = Tail(wOut)
    /\ UNCHANGED <<wSid, wCallVars, tableVars, sessVars, outVars, connVars>>

\* The stream is polled last, with nothing to write. (An item taken while control
\* is being requested is one taken just before.)
Reading == wConn = "loop" /\ ~wFlag /\ wOut = <<>>

\* handle_inbound, a response, of either kind: to the waiter under its id, if
\* there is one.
HandleResponse(m) ==
    /\ Reading /\ m \in wAgent
    /\ wAgent' = wAgent \ {m}
    /\ \E answer \in {m.req, <<"err">>} :
        wReply' = [c \in Caller |->
            IF m.id \in DOMAIN wPending /\ wPending[m.id] = <<c, wSerial[c]>>
            THEN answer ELSE wReply[c]]
    /\ wPending' = Restrict(wPending, DOMAIN wPending \ {m.id})
    /\ UNCHANGED <<wSid, wCallVars, wNext, sessVars, outVars, connVars, wOut>>

\* handle_inbound, a notification: pushed while the read lock is held.
HandleNotification(c) ==
    /\ Reading /\ c \in wMap /\ wEnd[c] = "none"
    /\ \/ ~wReader[c] /\ UNCHANGED <<wQueue, wConn, wTarget>>
       \/ /\ wReader[c] /\ wQueue[c] < SessionCap
          /\ wQueue' = [wQueue EXCEPT ![c] = @ + 1]
          /\ UNCHANGED <<wConn, wTarget>>
       \/ /\ wReader[c] /\ wQueue[c] = SessionCap
          /\ wConn' = "push" /\ wTarget' = c
          /\ UNCHANGED wQueue
    /\ UNCHANGED <<wSid, wCallVars, tableVars, sessVars, wReader, wFlag, wClosed, wOut, wAgent>>

PushInbound ==
    /\ wConn = "push"
    /\ \/ ~wReader[wTarget] /\ UNCHANGED wQueue
       \/ /\ wReader[wTarget] /\ wQueue[wTarget] < SessionCap
          /\ wQueue' = [wQueue EXCEPT ![wTarget] = @ + 1]
    /\ wConn' = "loop" /\ wTarget' = "none"
    /\ UNCHANGED <<wSid, wCallVars, tableVars, sessVars, wReader, wFlag, wClosed, wOut, wAgent>>

\* handle_inbound, a request of the agent: the answer goes through the write
\* channel that only this task drains.
HandleClientRequest ==
    /\ Reading
    /\ wConn' = "answer"
    /\ UNCHANGED <<wSid, wCallVars, tableVars, sessVars, outVars, wTarget, wFlag, wClosed, wOut, wAgent>>

\* answer_client_request: an answer over the message limit is not sent.
AnswerClientRequest ==
    /\ wConn = "answer"
    /\ \/ Len(wOut) < WriteCap /\ wOut' = Append(wOut, [id |-> 0, req |-> <<"answer">>])
       \/ UNCHANGED wOut
    /\ wConn' = "loop"
    /\ UNCHANGED <<wSid, wCallVars, tableVars, sessVars, outVars, wTarget, wFlag, wClosed, wAgent>>

-----------------------------------------------------------------------------
CallerStep(c) ==
    \/ BeginSession(c) \/ BeginSend(c) \/ CheckLimit(c) \/ InsertWaiter(c)
    \/ SendRequest(c) \/ TakeReply(c) \/ RequestExpires(c) \/ AdmitSession(c)
    \/ OpenExpires(c) \/ CancelSession(c) \/ FinishInput(c)
    \/ ReadOutput(c) \/ DropOutput(c)

ConnectionStep ==
    \/ FailPending \/ DetachAll \/ WriteNext \/ PushInbound
    \/ HandleClientRequest \/ AnswerClientRequest
    \/ \E m \in wAgent : HandleResponse(m)
    \/ \E c \in Caller : HandleNotification(c)

GrokNext ==
    \/ \E c \in Caller : CallerStep(c)
    \/ ConnectionStep
    \/ RequestControl
    \/ ShutdownServer

\* What a caller's task does by itself, and the connection's when it is not the
\* agent's turn to speak.
CallRuns(c) ==
    \/ CheckLimit(c) \/ InsertWaiter(c) \/ SendRequest(c) \/ TakeReply(c)
    \/ RequestExpires(c) \/ AdmitSession(c)
ConnectionRuns ==
    DetachAll \/ WriteNext \/ PushInbound \/ AnswerClientRequest \/ (wFlag /\ FailPending)

\* The runtime runs each task that can run and its timers fire; nothing obliges
\* the agent to speak, a session's output to be read or anyone to use control.
GrokFairness == (\A c \in Caller : WF_wVars(CallRuns(c))) /\ WF_wVars(ConnectionRuns)

GrokSpec == GrokInit /\ [][GrokNext]_wVars /\ GrokFairness

-----------------------------------------------------------------------------
(* The answer `handle_inbound` hands to a waiter is the agent's answer to that *)
(* waiter's own request, however late answers to expired or abandoned requests *)
(* arrive.                                                                     *)
AnswerIsOwn ==
    \A c \in Caller : wReply[c] \in {<<"none">>, <<"err">>, <<c, wSerial[c]>>}

(* The session map holds at most `max_sessions` sessions and one per session id, *)
(* whichever opens race and whichever sessions a failed `try_write` left routed. *)
SessionsWithinLimit ==
    /\ Cardinality(wMap) <= MaxSessions
    /\ \A c, d \in wMap : wSid[c] = wSid[d] => c = d

(* A session publishes one end: what the first of a caller's control and the   *)
(* loss of the connection decided is never replaced.                           *)
FirstEndStands ==
    [][\A c \in Caller : wEnd[c] # "none" => wEnd'[c] = wEnd[c]]_wVars

(* Once the connection's task is gone, ended or aborted, every `rpc_call` still *)
(* in progress returns to its caller.                                           *)
EndReleasesCallers ==
    \A c \in Caller : (wConn = "ended" /\ wPc[c] \in InRpc) ~> wPc[c] \notin InRpc
=============================================================================
