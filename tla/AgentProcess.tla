---------------------------- MODULE AgentProcess ----------------------------
(* The process-backed ACP connectors (cursor, codex and agy profiles): one   *)
(* connection owner that spawns an agent, runs JSON-RPC over its stdin and   *)
(* stdout, forwards `session/update` lines, and tears everything down.  The  *)
(* owner, the stdout pump, the update pump, the reader of the raw output and *)
(* the agent process interleave.  The three profiles carry the same code; an *)
(* operator is written once with the profile as its parameter, and each      *)
(* profile's action is an instance of it.                                    *)
(*                                                                           *)
(* The stdout pump upgrades its Weak reference before it reads a line and    *)
(* holds the strong one until the line is handled; `pHandle` says whether    *)
(* the owner holds one too.  The last one dropped runs ProcessInner::drop.   *)
(*                                                                           *)
(* The owner's `select!` against the control is three steps, as in           *)
(* Connection: it reads the flags ("check"), creates notified() ("arm"), and *)
(* waits; `notify_waiters` wakes only a future that exists.                  *)
EXTENDS Naturals

CONSTANTS
    Profiles,    \* [name, authenticate]: the profiles and configurations checked
    UpdCap,      \* max_output_queue: the update channel
    OutCapacity, \* the raw output channel
    MaxPrompts,  \* bound on the prompts offered
    LineKinds,   \* the lines, replies apart, the agent emits
    MaxLines     \* bound on their number, per profile

ASSUME AgentAssumption ==
    /\ Profiles \subseteq [name : {"cursor", "codex", "agy"}, authenticate : BOOLEAN]
    /\ \A p \in Profiles : p.name = "cursor" => p.authenticate
    /\ {UpdCap, OutCapacity} \subseteq Nat \ {0} /\ MaxPrompts \in Nat
    /\ LineKinds \subseteq {"update", "other", "oversize"}
    /\ \A p \in Profiles : MaxLines[p.name] \in Nat

VARIABLES
    pProf, pAuth, \* the profile; config.authenticate
    pPc,      \* the owner's step
    pCall,    \* step of the request it is making: none, insert, write, wait
    pPending, \* the request's entry is in `pending`
    pAnswer,  \* what its one-shot holds: none, ok, err
    pOwed,    \* the agent has the request, which still waits for its answer
    pLine,    \* the line in the stdout pipe: none, reply, fault, update, oversize,
              \* or other: an agent request, or a reply that comes late
    pSaid,    \* lines emitted so far, replies apart
    pPump,    \* the stdout pump: read, send, closing, done
    pTxOpen,  \* update_tx is Some
    pUpdQ,    \* update channel
    pUp,      \* the update pump: idle (not started), recv, send, done
    pOutQ,    \* raw output channel
    pReader,  \* reading, stopped, dropped
    pChild,   \* none, alive, exited, killed, reaped
    pStdin, pClosed, \* stdin is Some; the closed flag
    pHandle,  \* the owner holds a strong reference to ProcessInner
    pFlag,    \* control: a cancel or a terminate is requested
    pNote,    \* its notify_waiters has run
    pSel,     \* the owner's select!: check, arm, wait, or woken
    pAsked,   \* prompts taken
    pKind, pEnd \* the end decided; the ConnectionEnd published, or lost with its sender

pConf == <<pProf, pAuth>>
pReq  == <<pCall, pPending, pAnswer, pOwed>>
pFlow == <<pTxOpen, pUpdQ, pUp, pOutQ, pReader>>
pProc == <<pChild, pStdin, pClosed, pHandle>>
pCtl  == <<pFlag, pNote>>
pVars == <<pConf, pPc, pReq, pLine, pSaid, pPump, pFlow, pProc, pCtl, pSel, pAsked, pKind, pEnd>>

AgentInit ==
    /\ \E p \in Profiles : pProf = p.name /\ pAuth = p.authenticate
    /\ pPc = "spawn" /\ pCall = "none" /\ pPending = FALSE /\ pAnswer = "none" /\ pOwed = FALSE
    /\ pLine = "none" /\ pSaid = 0 /\ pPump = "done"
    /\ pTxOpen = TRUE /\ pUpdQ = 0 /\ pUp = "idle" /\ pOutQ = 0 /\ pReader = "reading"
    /\ pChild = "none" /\ pStdin = FALSE /\ pClosed = FALSE /\ pHandle = FALSE
    /\ pFlag = FALSE /\ pNote = FALSE /\ pSel = "check"
    /\ pAsked = 0 /\ pKind = "none" /\ pEnd = "none"

Teardown == {"stdin", "updates", "child", "pumps", "pending", "join", "end"}
-----------------------------------------------------------------------------
(* Ownership.                                                                *)

\* Drop of the last strong reference: pumps aborted, the child killed.
DropInner == pPump' = "done" /\ pChild' = IF pChild = "alive" THEN "killed" ELSE pChild

\* The owner's future is dropped or returns: its references, the update
\* receiver or the pump that holds it, and the output sender go with it.
LetGo ==
    /\ pHandle' = FALSE /\ pUp' = "done" /\ pUpdQ' = 0
    /\ IF pPump = "done" THEN DropInner ELSE UNCHANGED <<pPump, pChild>>
    /\ UNCHANGED <<pTxOpen, pOutQ, pReader, pStdin, pClosed>>

\* The stdout pump finishes a line: it drops its reference, and goes on to
\* `next` if the upgrade still succeeds.
PumpLoops(next) ==
    IF pHandle THEN pPump' = next /\ UNCHANGED pChild ELSE DropInner
-----------------------------------------------------------------------------
(* Connecting, and the request the owner has in flight.                      *)

OwnerAt(pc) == pPc' = pc /\ pCall' = "none" /\ pAnswer' = "none"

\* The request of the next step begins.
Calling(pc) == pPc' = pc /\ pCall' = "insert" /\ pAnswer' = "none"

\* ProcessInner::spawn, or its failure.
Spawn(p) ==
    /\ pProf = p /\ pPc = "spawn"
    /\ UNCHANGED <<pConf, pPending, pOwed, pLine, pSaid, pFlow, pClosed, pCtl, pSel, pAsked, pKind, pEnd>>
    /\ \/ /\ pChild' = "alive" /\ pStdin' = TRUE /\ pHandle' = TRUE /\ pPump' = "read"
          /\ Calling("initialize")
       \/ OwnerAt("refused") /\ UNCHANGED <<pChild, pStdin, pHandle, pPump>>

\* request, up to the wait: closed check and insertion, then the write, which
\* fails on a closed pipe and takes the entry back.
IssueRequest(p) ==
    /\ pProf = p /\ pCall \in {"insert", "write"}
    /\ UNCHANGED <<pConf, pPc, pLine, pSaid, pPump, pFlow, pProc, pCtl, pSel, pAsked, pKind, pEnd>>
    /\ CASE pCall = "insert" /\ pClosed ->
              pCall' = "wait" /\ pAnswer' = "err" /\ UNCHANGED <<pPending, pOwed>>
         [] pCall = "insert" /\ ~pClosed ->
              pCall' = "write" /\ pPending' = TRUE /\ UNCHANGED <<pAnswer, pOwed>>
         [] pCall = "write" /\ pStdin /\ pChild = "alive" ->
              pCall' = "wait" /\ pOwed' = TRUE /\ UNCHANGED <<pPending, pAnswer>>
         [] OTHER ->
              /\ pCall' = "wait" /\ pPending' = FALSE /\ pAnswer' = "err" /\ UNCHANGED pOwed

\* The one-shot yields, or rpc_deadline passes and the entry is removed.
Returned(r) ==
    /\ pCall = "wait" /\ pOwed' = FALSE
    /\ \/ pAnswer = r /\ pPending' = pPending
       \/ pAnswer = "none" /\ r = "err" /\ pPending' = FALSE

\* What follows a request: the connect sequence stops at the first error and
\* drops the handle; a session reply may lack its sessionId.
Replied(p) ==
    /\ pProf = p /\ pPc \in {"initialize", "authenticate", "session"}
    /\ UNCHANGED <<pConf, pLine, pSaid, pCtl, pSel, pAsked, pKind, pEnd>>
    /\ \/ /\ Returned("ok")
          /\ UNCHANGED <<pTxOpen, pUpdQ, pOutQ, pReader, pProc, pPump>>
          /\ CASE pPc = "initialize" /\ pAuth -> Calling("authenticate") /\ UNCHANGED pUp
               [] pPc = "session" -> OwnerAt("loop") /\ pUp' = "recv"
               [] OTHER -> Calling("session") /\ UNCHANGED pUp
       \/ /\ Returned("err") \/ (pPc = "session" /\ Returned("ok"))
          /\ OwnerAt("refused") /\ LetGo
-----------------------------------------------------------------------------
(* The owner loop: control, then input.                                      *)

\* `interrupted()` reads the flags, creates its notified(), and reads them
\* again when notified.  Input is polled after it, and the next turn of the
\* loop begins a new select!; blank text asks nothing of the agent.
OwnerLoop(p) ==
    /\ pProf = p /\ pPc = "loop"
    /\ UNCHANGED <<pConf, pPending, pOwed, pLine, pSaid, pPump, pFlow, pProc, pCtl, pEnd>>
    /\ \/ /\ pSel \in {"check", "woken"} /\ pFlag
          /\ pKind' = "Interrupted"                            \* Cancelled or Terminated
          /\ pSel' = "check" /\ Calling("cancel") /\ UNCHANGED pAsked
       \/ /\ pSel = "check" /\ ~pFlag
          /\ pSel' = "arm" /\ UNCHANGED <<pPc, pCall, pAnswer, pAsked, pKind>>
       \/ /\ pSel = "arm"
          /\ pSel' = "wait" /\ UNCHANGED <<pPc, pCall, pAnswer, pAsked, pKind>>
       \/ /\ pSel = "wait" /\ pAsked < MaxPrompts
          /\ pAsked' = pAsked + 1 /\ pSel' = "check" /\ UNCHANGED pKind
          /\ Calling("prompt") \/ OwnerAt("loop")
       \/ /\ pSel = "wait"                                       \* Finish or None
          /\ pKind' = "LocalShutdown" /\ pSel' = "check" /\ OwnerAt("stdin") /\ UNCHANGED pAsked

\* A prompt is not selected with the control: only its answer, an error or
\* rpc_deadline ends it.  The result of a cancel is ignored.
Prompted(p) ==
    /\ pProf = p /\ pPc \in {"prompt", "cancel"}
    /\ UNCHANGED <<pConf, pLine, pSaid, pPump, pFlow, pProc, pCtl, pSel, pAsked, pEnd>>
    /\ \/ pPc = "prompt" /\ Returned("ok") /\ OwnerAt("loop") /\ UNCHANGED pKind
       \/ pPc = "prompt" /\ Returned("err") /\ OwnerAt("stdin") /\ pKind' = "TransportFailure"
       \/ /\ pPc = "cancel" /\ (Returned("ok") \/ Returned("err"))
          /\ OwnerAt("stdin") /\ UNCHANGED pKind
-----------------------------------------------------------------------------
(* ProcessInner::shutdown and the end of the owner.                          *)

\* Mutant: shutdown leaves the pumps running.
AbortPumps_not == UNCHANGED pPump

\* abort_all, then join_next until the set is empty.
AbortPumps == pPump' = "done"

Shutdown(p) ==
    /\ pProf = p /\ pPc \in Teardown \ {"join", "end"}
    /\ UNCHANGED <<pConf, pOwed, pLine, pSaid, pUpdQ, pUp, pOutQ, pReader, pHandle, pCtl, pSel, pAsked,
                   pKind, pEnd, pCall, pAnswer>>
    /\ \/ /\ pPc = "stdin" /\ pClosed' = TRUE /\ pStdin' = FALSE /\ pPc' = "updates"
          /\ UNCHANGED <<pTxOpen, pChild, pPump, pPending>>
       \/ /\ pPc = "updates" /\ pPump # "send"                  \* the update_tx lock
          /\ pTxOpen' = FALSE /\ pPc' = "child"
          /\ UNCHANGED <<pClosed, pStdin, pChild, pPump, pPending>>
       \/ /\ pPc = "child" /\ pChild' = "reaped" /\ pPc' = "pumps"
          /\ UNCHANGED <<pClosed, pStdin, pTxOpen, pPump, pPending>>
       \/ /\ pPc = "pumps" /\ AbortPumps /\ pPc' = "pending"
          /\ UNCHANGED <<pClosed, pStdin, pTxOpen, pChild, pPending>>
       \/ /\ pPc = "pending" /\ pPending' = FALSE /\ pPc' = "join"
          /\ UNCHANGED <<pClosed, pStdin, pTxOpen, pChild, pPump>>

\* The update pump is joined, mark_terminal, and the end is sent.
OwnerEnd(p) ==
    /\ pProf = p /\ pPc = "join" /\ pUp = "done"
    /\ pPc' = "ended" /\ pEnd' = pKind
    /\ LetGo
    /\ UNCHANGED <<pConf, pReq, pLine, pSaid, pCtl, pSel, pAsked, pKind>>

\* The owner task is aborted at an await.
AbortAgentOwner ==
    /\ pPc \in {"loop", "updates", "child", "pumps", "join"} \/ pCall \in {"write", "wait"}
    /\ OwnerAt("ended") /\ pEnd' = "lost"
    /\ IF pPc = "child"                       \* the Child is in the dropped future
          THEN /\ pHandle' = FALSE /\ pUp' = "done" /\ pUpdQ' = 0 /\ pChild' = "killed"
               /\ UNCHANGED <<pPump, pTxOpen, pOutQ, pReader, pStdin, pClosed>>
          ELSE LetGo
    /\ pOwed' = FALSE /\ pSel' = "check"
    /\ UNCHANGED <<pConf, pPending, pLine, pSaid, pCtl, pAsked, pKind>>
-----------------------------------------------------------------------------
(* The stdout pump and handle_inbound_line.                                  *)

\* A reply removes the entry and answers it; an agent request is answered on
\* stdin; an update goes to the update channel under the update_tx lock.
HandleInboundLine(p) ==
    /\ pProf = p
    /\ UNCHANGED <<pConf, pPc, pCall, pOwed, pSaid, pTxOpen, pUp, pOutQ, pReader, pStdin, pClosed,
                   pHandle, pCtl, pSel, pAsked, pKind, pEnd>>
    /\ \/ /\ pPump = "read" /\ pLine \in {"reply", "fault"}
          /\ pPending' = FALSE
          /\ pAnswer' = IF ~pPending THEN pAnswer ELSE IF pLine = "reply" THEN "ok" ELSE "err"
          /\ pLine' = "none" /\ PumpLoops("read") /\ UNCHANGED pUpdQ
       \/ /\ pPump = "read" /\ pLine = "other"
          /\ pLine' = "none" /\ PumpLoops("read") /\ UNCHANGED <<pPending, pAnswer, pUpdQ>>
       \/ /\ pPump = "read" /\ pLine = "update"
          /\ pLine' = "none" /\ pPump' = "send" /\ UNCHANGED <<pPending, pAnswer, pUpdQ, pChild>>
       \/ /\ pPump = "send" /\ (~pTxOpen \/ pUp = "done" \/ pUpdQ < UpdCap)
          /\ pUpdQ' = IF pTxOpen /\ pUp # "done" THEN pUpdQ + 1 ELSE pUpdQ
          /\ PumpLoops("read") /\ UNCHANGED <<pPending, pAnswer, pLine>>

\* read_line_bounded: EOF or an oversize line fails the entries, and then sets
\* `closed`.
ReadFails(p) ==
    /\ pProf = p
    /\ UNCHANGED <<pConf, pPc, pCall, pOwed, pLine, pSaid, pFlow, pStdin, pHandle, pCtl, pSel, pAsked,
                   pKind, pEnd>>
    /\ \/ /\ pPump = "read"
          /\ pLine = "oversize" \/ (pLine = "none" /\ pChild # "alive")
          /\ pPending' = FALSE /\ pAnswer' = IF pPending THEN "err" ELSE pAnswer
          /\ pPump' = "closing" /\ UNCHANGED <<pClosed, pChild>>
       \/ /\ pPump = "closing"
          /\ pClosed' = TRUE /\ PumpLoops("done") /\ UNCHANGED <<pPending, pAnswer>>

\* Mutant: a send to a dropped reader does not end the pump.
Undeliverable_ignored == FALSE

\* out_pump.send(..).is_err()
Undeliverable == pReader = "dropped"

\* The update pump joined by the owner: ends when the sender is gone or the
\* reader is.
UpdatePump(p) ==
    /\ pProf = p
    /\ UNCHANGED <<pConf, pPc, pReq, pLine, pSaid, pPump, pTxOpen, pReader, pProc, pCtl, pSel, pAsked,
                   pKind, pEnd>>
    /\ \/ /\ pUp = "recv" /\ pUpdQ > 0
          /\ pUpdQ' = pUpdQ - 1 /\ pUp' = "send" /\ UNCHANGED pOutQ
       \/ /\ pUp = "recv" /\ pUpdQ = 0 /\ ~pTxOpen /\ pPump # "send"
          /\ pUp' = "done" /\ UNCHANGED <<pUpdQ, pOutQ>>
       \/ /\ pUp = "send" /\ pReader # "dropped" /\ pOutQ < OutCapacity
          /\ pOutQ' = pOutQ + 1 /\ pUp' = "recv" /\ UNCHANGED pUpdQ
       \/ /\ pUp = "send" /\ Undeliverable
          /\ pUp' = "done" /\ pUpdQ' = 0 /\ UNCHANGED pOutQ
-----------------------------------------------------------------------------
(* Each profile runs the same operations.                                    *)

CursorSpawn == Spawn("cursor")
CodexSpawn == Spawn("codex")
AgySpawn == Spawn("agy")
CursorRequest == IssueRequest("cursor")
CodexRequest == IssueRequest("codex")
AgyRequest == IssueRequest("agy")
CursorConnect == Replied("cursor")
CodexConnect == Replied("codex")
AgyConnect == Replied("agy")
CursorLoop == OwnerLoop("cursor")
CodexLoop == OwnerLoop("codex")
AgyLoop == OwnerLoop("agy")
CursorPrompt == Prompted("cursor")
CodexPrompt == Prompted("codex")
AgyPrompt == Prompted("agy")
CursorShutdown == Shutdown("cursor")
CodexShutdown == Shutdown("codex")
AgyShutdown == Shutdown("agy")
CursorEnd == OwnerEnd("cursor")
CodexEnd == OwnerEnd("codex")
AgyEnd == OwnerEnd("agy")
CursorLine == HandleInboundLine("cursor")
CodexLine == HandleInboundLine("codex")
AgyLine == HandleInboundLine("agy")
CursorReadFails == ReadFails("cursor")
CodexReadFails == ReadFails("codex")
AgyReadFails == ReadFails("agy")
CursorUpdates == UpdatePump("cursor")
CodexUpdates == UpdatePump("codex")
AgyUpdates == UpdatePump("agy")
-----------------------------------------------------------------------------
(* The surroundings: the agent, the caller's control, the reader.            *)

AgentActs ==
    /\ pChild = "alive"
    /\ UNCHANGED <<pConf, pPc, pCall, pPending, pAnswer, pPump, pFlow, pStdin, pClosed, pHandle,
                   pCtl, pSel, pAsked, pKind, pEnd>>
    /\ \/ /\ pOwed /\ pLine = "none"
          /\ pOwed' = FALSE /\ pLine' \in {"reply", "fault"} /\ UNCHANGED <<pSaid, pChild>>
       \/ /\ pLine = "none" /\ pSaid < MaxLines[pProf]
          /\ pSaid' = pSaid + 1 /\ pLine' \in LineKinds
          /\ UNCHANGED <<pOwed, pChild>>
       \/ pChild' = "exited" /\ UNCHANGED <<pOwed, pLine, pSaid>>

\* request_cancel or request_terminate: the flag, then notify_waiters.
AgentControl ==
    /\ UNCHANGED <<pConf, pPc, pReq, pLine, pSaid, pPump, pFlow, pProc, pAsked, pKind, pEnd>>
    /\ \/ /\ ~pFlag /\ pPc \notin {"refused", "ended"}
          /\ pFlag' = TRUE /\ UNCHANGED <<pNote, pSel>>
       \/ /\ pFlag /\ ~pNote /\ pNote' = TRUE
          /\ pSel' = (IF pSel = "wait" THEN "woken" ELSE pSel) /\ UNCHANGED pFlag

\* The exchange's pump reads while it runs, stops at an error, and lets go of
\* the handle when the exchange returns.
AgentReader ==
    /\ pPc \in Teardown \cup {"loop", "prompt", "cancel"}
    /\ UNCHANGED <<pConf, pPc, pReq, pLine, pSaid, pPump, pTxOpen, pUpdQ, pUp, pProc, pCtl, pSel, pAsked,
                   pKind, pEnd>>
    /\ \/ pReader = "reading" /\ pOutQ > 0 /\ pOutQ' = pOutQ - 1 /\ UNCHANGED pReader
       \/ pReader = "reading" /\ pReader' = "stopped" /\ UNCHANGED pOutQ
       \/ pReader = "stopped" /\ pReader' = "dropped" /\ pOutQ' = 0

CursorOwner ==
    CursorSpawn \/ CursorRequest \/ CursorConnect \/ CursorLoop \/ CursorPrompt \/ CursorShutdown \/ CursorEnd
CodexOwner ==
    CodexSpawn \/ CodexRequest \/ CodexConnect \/ CodexLoop \/ CodexPrompt \/ CodexShutdown \/ CodexEnd
AgyOwner ==
    AgySpawn \/ AgyRequest \/ AgyConnect \/ AgyLoop \/ AgyPrompt \/ AgyShutdown \/ AgyEnd

AgentOwnerStep == CursorOwner \/ CodexOwner \/ AgyOwner
AgentPump == CursorLine \/ CodexLine \/ AgyLine \/ CursorReadFails \/ CodexReadFails \/ AgyReadFails
AgentUpdates == CursorUpdates \/ CodexUpdates \/ AgyUpdates

AgentNext ==
    \/ AgentOwnerStep \/ AgentPump \/ AgentUpdates
    \/ AbortAgentOwner \/ AgentActs \/ AgentControl \/ AgentReader

\* The owner can run without a new message: its input ends with the handle,
\* which the exchange drops together with the output's.
AgentOwnerRuns == (pPc # "loop" \/ pSel # "wait" \/ pReader = "dropped") /\ AgentOwnerStep

\* Tasks are polled, rpc_deadline fires, the exchange keeps reading until a
\* deadline of its own, asks for the end, waits for it until the cleanup
\* deadline, and returns, its handles with it (exchange.rs).  The agent owes
\* nothing: it may stay silent, or never exit.
AgentFairness ==
    /\ WF_pVars(AgentOwnerRuns)
    /\ WF_pVars(pFlag /\ AgentControl)
    /\ WF_pVars(AgentPump) /\ WF_pVars(AgentUpdates) /\ WF_pVars(AgentReader)

AgentSpec == AgentInit /\ [][AgentNext]_pVars /\ AgentFairness
-----------------------------------------------------------------------------
(* DEFECTS D-002, "No child process or pending RPC remains after completion": *)
(* when the owner publishes its end, the child is reaped, no pump is running, *)
(* no waiter is left in `pending`, and nothing can enter the output again.    *)
TeardownComplete ==
    (pPc = "ended" /\ pEnd # "lost") =>
        pChild = "reaped" /\ pPump = "done" /\ pUp = "done" /\ ~pPending /\ ~pTxOpen

(* ProcessInner::request and shutdown (process.rs): whatever the agent does,  *)
(* a request in flight returns (the write is taken, rpc_deadline bounds the   *)
(* answer), and a teardown that began ends, although the stdout pump holds    *)
(* the update_tx lock while the update channel is full, as long as the        *)
(* exchange keeps reading or lets go of the output.  And an accepted cancel   *)
(* or terminate of an open connection ends it (lib.rs), although a prompt is  *)
(* not selected with the control, and although `interrupted` misses a request *)
(* made between its read of the flags and its notified(): an owner idle then  *)
(* ends when the exchange has given up waiting for it and drops the input.    *)
AgentEnds ==
    /\ (pCall # "none" \/ pPc \in Teardown) ~> (pPc \in {"loop", "refused", "ended"})
    /\ pFlag ~> pPc \in {"refused", "ended"}
=============================================================================
