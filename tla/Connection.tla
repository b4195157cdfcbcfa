----------------------------- MODULE Connection -----------------------------
(* One raw connection of the connector crate: the control state that a       *)
(* caller cancels or terminates (control.rs), the handles that feed and read *)
(* it (handles.rs), the open protocol (open.rs), and the owner future that   *)
(* runs the transport: streaming HTTP (http.rs), the in-process fakes        *)
(* (fake.rs) and the headless one-shot process of the claude and zai         *)
(* profiles.                                                                 *)
(*                                                                           *)
(* A `select!` against the control is three steps, as in tokio: the flags    *)
(* are read ("check"), a `notified()` future is created ("arm"), and the     *)
(* select waits ("wait").  `notify_waiters` wakes only futures that exist.   *)
EXTENDS Naturals, Sequences

CONSTANTS
    Kinds,         \* the transports checked
    Controller,    \* callers, each making one request
    Wants,         \* what they ask: functions Controller -> "cancel" or "terminate"
    InCap, OutCap, \* capacities of the input and output channels
    MaxResponse    \* max_response_bytes, and the length of a script

ASSUME ConnectionAssumption ==
    /\ Kinds \subseteq {"http", "echo", "scripted", "hang", "claude", "zai"}
    /\ {InCap, OutCap} \subseteq Nat \ {0} /\ MaxResponse \in Nat
    /\ Wants \subseteq [Controller -> {"cancel", "terminate"}]

VARIABLES
    kKind,     \* which transport this connection runs
    kWant,     \* Controller -> "cancel" or "terminate"
    kReq,      \* Controller -> step of request_cancel / request_terminate
    kDisp,     \* Controller -> disposition returned
    kFlag,     \* the set of request kinds whose flag is stored
    kPref,     \* preferred_end: "none", "cancel" or "terminate"
    kTerminal, \* ControlState.terminal
    kPc,       \* the owner's step
    kSel,      \* where the owner's current select! stands
    kWoke,     \* the owner's notified() future has been notified
    kObs,      \* the end the owner observed, then the end it publishes
    kEnd,      \* the ConnectionEnd the completion yields
    kOpen,     \* what the `opened` future yields
    kIn,       \* the input channel: messages not yet received
    kFeed,     \* the feeder: next message it sends, or "dropped"
    kBody,     \* bytes accepted, in messages
    kOut,      \* chunks queued on the output channel
    kOutOpen,  \* its sender is still held
    kSent,     \* chunks enqueued so far
    kTotal,    \* chunks taken from the response or the script
    kLate,     \* the absolute request (run) deadline has passed
    kRcv,      \* the reader: step of receive(), or how it ended
    kRwoke,    \* the reader's notified() future has been notified
    kGot       \* chunks the reader received

kCtl  == <<kWant, kReq, kDisp, kFlag, kPref, kTerminal>>
kOwn  == <<kPc, kSel, kWoke, kObs, kEnd, kOpen>>
kPipe == <<kIn, kFeed, kBody, kOut, kOutOpen, kSent, kTotal>>
kRead == <<kRcv, kRwoke, kGot>>
kVars == <<kKind, kCtl, kOwn, kPipe, kLate, kRead>>


ConnectionInit ==
    /\ kKind \in Kinds
    /\ kWant \in Wants
    /\ kReq = [c \in Controller |-> "idle"] /\ kDisp = [c \in Controller |-> "none"]
    /\ kFlag = {} /\ kPref = "none" /\ kTerminal = FALSE
    /\ kPc = "setup" /\ kSel = "check" /\ kWoke = FALSE
    /\ kObs = "none" /\ kEnd = "none" /\ kOpen = "pending"
    /\ kIn = <<>> /\ kFeed = "bytes" /\ kBody = 0
    /\ kOut = 0 /\ kOutOpen = TRUE /\ kSent = 0 /\ kTotal = 0
    /\ kLate = FALSE
    /\ kRcv = "check" /\ kRwoke = FALSE /\ kGot = 0
-----------------------------------------------------------------------------
(* ControlState and ConnectionControlHandle.                                 *)

Interrupted == kFlag # {}
EndOf(flags) == IF "terminate" \in flags THEN "Terminated" ELSE "Cancelled"

\* `notify_waiters`: every notified() future that exists becomes ready.
NotifyWaiters ==
    /\ kWoke' = (kWoke \/ kSel = "wait")
    /\ kRwoke' = (kRwoke \/ kRcv = "wait")

\* Mutant: cancel overwrites the preference a terminate has stored.
Prefer_last(k) == k

\* request_cancel compares and exchanges 0 for 1; request_terminate stores 2.
Prefer(k) == IF k = "terminate" \/ kPref = "none" THEN k ELSE kPref

RequestEnd(c) ==
    /\ UNCHANGED <<kKind, kWant, kTerminal, kPc, kSel, kObs, kEnd, kOpen, kPipe, kLate, kRcv, kGot>>
    /\ \/ /\ kReq[c] = "idle"
          /\ kReq' = [kReq EXCEPT ![c] = IF kTerminal THEN "done" ELSE "swap"]
          /\ kDisp' = IF kTerminal THEN [kDisp EXCEPT ![c] = "AlreadyTerminal"] ELSE kDisp
          /\ UNCHANGED <<kFlag, kPref, kWoke, kRwoke>>
       \/ /\ kReq[c] = "swap"
          /\ kFlag' = kFlag \cup {kWant[c]}
          /\ kReq' = [kReq EXCEPT ![c] = IF kWant[c] \in kFlag THEN "done" ELSE "prefer"]
          /\ kDisp' = IF kWant[c] \in kFlag THEN [kDisp EXCEPT ![c] = "AlreadyRequested"]
                                            ELSE kDisp
          /\ UNCHANGED <<kPref, kWoke, kRwoke>>
       \/ /\ kReq[c] = "prefer"
          /\ kPref' = Prefer(kWant[c])
          /\ kReq' = [kReq EXCEPT ![c] = "notify"]
          /\ UNCHANGED <<kDisp, kFlag, kWoke, kRwoke>>
       \/ /\ kReq[c] = "notify"
          /\ NotifyWaiters
          /\ kReq' = [kReq EXCEPT ![c] = "done"]
          /\ kDisp' = [kDisp EXCEPT ![c] = "Accepted"]
          /\ UNCHANGED <<kFlag, kPref>>
-----------------------------------------------------------------------------
(* The owner: steps shared by every transport.                               *)

\* The owner moves to pc, where a new select! begins.
OwnerTo(pc) == kPc' = pc /\ kSel' = "check" /\ kWoke' = FALSE

Fakes == {"echo", "scripted", "hang"}
Headless == {"claude", "zai"}

\* ConnectionOwner::finish(kind) is entered; the headless profiles publish
\* their end themselves and do not consult the control again.
EndAs(kind) ==
    /\ kObs' = kind
    /\ OwnerTo(IF kKind \in Headless THEN "publish" ELSE "finish")

\* The steps at which the owner runs a select! against the control; the fakes
\* also do so while a configured open delay passes.
Selects == {"collect", "post", "next", "enqueue", "drain", "hang", "echo", "run"}
           \cup (IF kKind \in Fakes THEN {"setup"} ELSE {})

\* wait_control / interrupted: read the flags, create notified(), wait, and
\* read the flags again when notified.
WaitControl ==
    /\ kPc \in Selects
    /\ UNCHANGED <<kKind, kCtl, kEnd, kOpen, kPipe, kLate, kRead>>
    /\ \/ /\ kSel = "check" /\ Interrupted
          /\ IF kPc = "setup" THEN kObs' = "none" /\ OwnerTo("refuse") ELSE EndAs(EndOf(kFlag))
       \/ /\ kSel = "check" /\ ~Interrupted
          /\ kSel' = "arm" /\ UNCHANGED <<kPc, kWoke, kObs>>
       \/ /\ kSel = "arm"
          /\ kSel' = "wait" /\ kWoke' = FALSE /\ UNCHANGED <<kPc, kObs>>
       \/ /\ kSel = "wait" /\ kWoke
          /\ kSel' = "check" /\ UNCHANGED <<kPc, kWoke, kObs>>

\* The other branches of a biased select! are polled after the control branch.
Polling(pc) == kPc = pc /\ kSel = "wait"

\* The control's preference decides the published kind when there is one.
FinishRead ==
    /\ kPc = "finish"
    /\ kObs' = CASE kPref = "terminate" -> "Terminated"
                 [] kPref = "cancel" -> "Cancelled"
                 [] OTHER -> kObs
    /\ OwnerTo("mark")
    /\ UNCHANGED <<kKind, kCtl, kEnd, kOpen, kPipe, kLate, kRead>>

\* mark_terminal: store the flag and wake waiters.
FinishMark ==
    /\ kPc = "mark"
    /\ kTerminal' = TRUE
    /\ kRwoke' = (kRwoke \/ kRcv = "wait")
    /\ OwnerTo("publish")
    /\ UNCHANGED <<kKind, kWant, kReq, kDisp, kFlag, kPref, kObs, kEnd, kOpen, kPipe, kLate,
                   kRcv, kGot>>

\* Send the ConnectionEnd and return: both channel ends of the owner drop.
FinishSend ==
    /\ kPc = "publish"
    /\ kEnd' = kObs
    /\ OwnerTo("ended") /\ kOutOpen' = FALSE
    /\ UNCHANGED <<kKind, kCtl, kObs, kOpen, kIn, kFeed, kBody, kOut, kSent, kTotal,
                   kLate, kRead>>

\* The owner task is aborted at an await: completion.wait() sees the sender
\* dropped and reports a transport failure, `opened` reports Cancelled.
AbortOwner ==
    /\ kPc \in {"setup", "push"} \/ (kPc \in Selects /\ kSel = "wait")
    /\ OwnerTo("ended") /\ kOutOpen' = FALSE
    /\ kEnd' = "TransportFailure"
    /\ kOpen' = IF kOpen = "pending" THEN "Err" ELSE kOpen
    /\ UNCHANGED <<kKind, kCtl, kObs, kIn, kFeed, kBody, kOut, kSent, kTotal, kLate,
                   kRead>>

\* open_owned: the set-up future may fail (wrong attachment owner, refused
\* endpoint or credential, configured failure), then the control is read once
\* more; a success is signalled on `opened` before the transport runs.
FirstPc == CASE kKind \in Headless \cup {"http"} -> "collect" [] kKind = "echo" -> "echo"
             [] kKind = "scripted" -> "script" [] kKind = "hang" -> "drain"

OpenOwned ==
    /\ kPc \in {"setup", "refuse"}
    /\ UNCHANGED <<kKind, kCtl, kObs, kEnd, kIn, kFeed, kBody, kOut, kSent, kTotal,
                   kLate, kRead>>
    /\ \/ /\ kKind \notin Headless
          /\ kOpen' = "Err" /\ OwnerTo("ended") /\ kOutOpen' = FALSE
       \/ /\ kPc = "setup" /\ (Interrupted => kKind \in Headless)
          /\ kOpen' = "Ok" /\ OwnerTo(FirstPc) /\ kOutOpen' = (kKind # "hang")
-----------------------------------------------------------------------------
(* The feeder (RawInputHandle) sends one message, half-closes or drops.      *)

FeedInput ==
    /\ kOpen = "Ok" /\ kFeed \in {"bytes", "finish"}
    /\ UNCHANGED <<kKind, kCtl, kOwn, kBody, kOut, kOutOpen, kSent, kTotal, kLate,
                   kRead>>
    /\ \/ /\ Interrupted \/ kPc = "ended" \/ (kTerminal /\ kFeed = "bytes")
          /\ kFeed' = "dropped" /\ UNCHANGED kIn
       \/ /\ ~Interrupted /\ kPc # "ended" /\ (kFeed = "bytes" => ~kTerminal)
          /\ Len(kIn) < InCap
          /\ kIn' = Append(kIn, kFeed)
          /\ kFeed' = IF kFeed = "bytes" THEN "finish" ELSE "done"
       \/ kFeed' = "dropped" /\ UNCHANGED kIn

\* in_rx.recv() yields the next message, or None ("none") when the feeder is gone.
Receives(m) ==
    /\ IF kIn = <<>> THEN kFeed = "dropped" /\ m = "none" ELSE m = Head(kIn)
    /\ kIn' = IF kIn = <<>> THEN kIn ELSE Tail(kIn)
    /\ kBody' = IF m = "bytes" THEN kBody + 1 ELSE kBody
    /\ UNCHANGED <<kFeed, kOut, kSent, kTotal>>
-----------------------------------------------------------------------------
(* Streaming HTTP: collect the body, POST it, stream the response.           *)

HttpCollect ==
    /\ kKind = "http" /\ Polling("collect")
    /\ UNCHANGED <<kKind, kCtl, kEnd, kOpen, kOutOpen, kLate, kRead>>
    /\ \E m \in {"bytes", "finish", "none"} :
          /\ Receives(m)
          /\ \/ m = "bytes" /\ OwnerTo("collect") /\ UNCHANGED kObs
             \/ m = "bytes" /\ EndAs("TransportFailure")      \* max_request_bytes
             \/ m = "finish" /\ ~Interrupted /\ OwnerTo("post") /\ UNCHANGED kObs
             \/ m = "finish" /\ Interrupted /\ EndAs(EndOf(kFlag))
             \/ m = "none" /\ EndAs("LocalShutdown")

\* The response headers arrive, or the request fails, is refused by status, or
\* outlives its send budget.
HttpPost ==
    /\ kKind = "http" /\ Polling("post")
    /\ UNCHANGED <<kKind, kCtl, kEnd, kOpen, kPipe, kLate, kRead>>
    /\ \/ OwnerTo("stream") /\ UNCHANGED kObs
       \/ EndAs("TransportFailure")

\* Mutant: only the idle timeout bounds the response.
HttpTop_idle ==
    /\ kKind = "http" /\ kPc = "stream"
    /\ UNCHANGED <<kKind, kCtl, kEnd, kOpen, kPipe, kLate, kRead>>
    /\ IF Interrupted THEN EndAs(EndOf(kFlag)) ELSE OwnerTo("next") /\ UNCHANGED kObs

\* Top of the response loop: the absolute deadline, then the control.
HttpTop ==
    /\ kKind = "http" /\ kPc = "stream"
    /\ UNCHANGED <<kKind, kCtl, kEnd, kOpen, kPipe, kLate, kRead>>
    /\ CASE kLate -> EndAs("TransportFailure")
         [] ~kLate /\ Interrupted -> EndAs(EndOf(kFlag))
         [] OTHER -> OwnerTo("next") /\ UNCHANGED kObs

\* One item of the response: an empty chunk is skipped, a chunk within the
\* response budget goes on to be enqueued, EOF ends the connection, and an
\* error, an oversized chunk or silence past the idle timeout fails it.
HttpNext ==
    /\ kKind = "http" /\ Polling("next")
    /\ UNCHANGED <<kKind, kCtl, kEnd, kOpen, kIn, kFeed, kBody, kOut, kOutOpen, kSent, kLate,
                   kRead>>
    /\ \/ OwnerTo("stream") /\ UNCHANGED <<kTotal, kObs>>
       \/ /\ kTotal < MaxResponse
          /\ kTotal' = kTotal + 1 /\ OwnerTo("enqueue") /\ UNCHANGED kObs
       \/ EndAs("RemoteEof") /\ UNCHANGED kTotal
       \/ EndAs("TransportFailure") /\ UNCHANGED kTotal

\* A blocked enqueue selects the control, the idle and overall budget, and the
\* send, which fails when the reader is gone.
HttpEnqueue ==
    /\ kKind = "http" /\ Polling("enqueue")
    /\ UNCHANGED <<kKind, kCtl, kEnd, kOpen, kIn, kFeed, kBody, kOutOpen, kTotal, kLate,
                   kRead>>
    /\ \/ /\ kRcv # "gone" /\ kOut < OutCap
          /\ kOut' = kOut + 1 /\ kSent' = kSent + 1 /\ OwnerTo("stream") /\ UNCHANGED kObs
       \/ EndAs("TransportFailure") /\ UNCHANGED <<kOut, kSent>>

HttpOwner == HttpCollect \/ HttpPost \/ HttpTop \/ HttpNext \/ HttpEnqueue
-----------------------------------------------------------------------------
(* The in-process fakes.                                                     *)

\* A blocked send of the echo and scripted owners is not selected with the
\* control; it fails when the reader is gone.
FakePush ==
    /\ kPc = "push"
    /\ UNCHANGED <<kKind, kCtl, kEnd, kOpen, kIn, kFeed, kBody, kOutOpen, kTotal, kLate,
                   kRead>>
    /\ \/ /\ kRcv # "gone" /\ kOut < OutCap
          /\ kOut' = kOut + 1 /\ kSent' = kSent + 1
          /\ OwnerTo(IF kKind = "echo" THEN "echo" ELSE "script") /\ UNCHANGED kObs
       \/ kRcv = "gone" /\ EndAs("TransportFailure") /\ UNCHANGED <<kOut, kSent>>

EchoOwner ==
    /\ kKind = "echo" /\ Polling("echo")
    /\ UNCHANGED <<kKind, kCtl, kEnd, kOpen, kOutOpen, kLate, kRead>>
    /\ \E m \in {"bytes", "finish", "none"} :
          /\ Receives(m)
          /\ IF m = "bytes" THEN OwnerTo("push") /\ UNCHANGED kObs ELSE EndAs("RemoteEof")

\* The script is written, a flag read before each chunk; the output is then
\* closed and the input drained.
ScriptedOwner ==
    /\ kKind = "scripted" /\ kPc = "script"
    /\ UNCHANGED <<kKind, kCtl, kObs, kEnd, kOpen, kIn, kFeed, kBody, kOut, kSent, kLate,
                   kRead>>
    /\ IF Interrupted \/ kTotal = MaxResponse
          THEN OwnerTo("drain") /\ kOutOpen' = FALSE /\ UNCHANGED kTotal
          ELSE OwnerTo("push") /\ kTotal' = kTotal + 1 /\ UNCHANGED kOutOpen

\* Input is drained; its end is the script's EOF.
ScriptedDrain ==
    /\ kKind = "scripted" /\ Polling("drain")
    /\ UNCHANGED <<kKind, kCtl, kEnd, kOpen, kOutOpen, kLate, kRead>>
    /\ \E m \in {"bytes", "finish", "none"} :
          /\ Receives(m)
          /\ IF m = "bytes" THEN OwnerTo("drain") /\ UNCHANGED kObs ELSE EndAs("RemoteEof")

\* Input is drained; its end leaves the owner waiting for the control alone.
HangOwner ==
    /\ kKind = "hang" /\ Polling("drain")
    /\ UNCHANGED <<kKind, kCtl, kObs, kEnd, kOpen, kOutOpen, kLate, kRead>>
    /\ \E m \in {"bytes", "finish", "none"} :
          Receives(m) /\ OwnerTo(IF m = "bytes" THEN "drain" ELSE "hang")

FakeOwner == FakePush \/ EchoOwner \/ ScriptedOwner \/ ScriptedDrain \/ HangOwner
-----------------------------------------------------------------------------
(* The headless profiles: collect the prompt, run the process once.          *)

PrintCollect(profile) ==
    /\ kKind = profile /\ Polling("collect")
    /\ UNCHANGED <<kKind, kCtl, kEnd, kOpen, kOutOpen, kLate, kRead>>
    /\ \E m \in {"bytes", "finish", "none"} :
          /\ Receives(m)
          /\ \/ m = "bytes" /\ OwnerTo("collect") /\ UNCHANGED kObs
             \/ m # "bytes" /\ kBody > 0 /\ OwnerTo("run") /\ UNCHANGED kObs
             \/ m # "bytes" /\ EndAs("LocalShutdown")        \* blank prompt

\* While the run is selected with the control, the stdout pump takes a line
\* and sends it.  The run ends when the process has exited and the pumps are
\* joined, or when run_deadline has killed it; an error of either kind is only
\* logged.
PrintRun(profile) ==
    /\ kKind = profile /\ kPc = "run"
    /\ UNCHANGED <<kKind, kCtl, kEnd, kOpen, kIn, kFeed, kBody, kLate, kRead>>
    /\ \/ /\ kTotal = kSent /\ kTotal < MaxResponse /\ kTotal' = kTotal + 1
          /\ UNCHANGED <<kPc, kSel, kWoke, kObs, kOut, kOutOpen, kSent>>
       \/ /\ kTotal > kSent /\ kRcv # "gone" /\ kOut < OutCap
          /\ kOut' = kOut + 1 /\ kSent' = kSent + 1
          /\ UNCHANGED <<kPc, kSel, kWoke, kObs, kOutOpen, kTotal>>
       \/ /\ kSel = "wait" /\ (kTotal = kSent \/ kRcv = "gone" \/ kLate)
          /\ EndAs("LocalShutdown") /\ kOutOpen' = FALSE
          /\ UNCHANGED <<kOut, kSent, kTotal>>

ClaudeCollect == PrintCollect("claude")
ClaudeRun == PrintRun("claude")
ZaiCollect == PrintCollect("zai")
ZaiRun == PrintRun("zai")

PrintOwner == ClaudeCollect \/ ClaudeRun \/ ZaiCollect \/ ZaiRun
-----------------------------------------------------------------------------
(* The reader: RawOutputHandle::receive in a loop, until None or an error.   *)

\* A chunk if one is queued, None if the sender is gone, else `empty`.
TakeOr(empty) ==
    \/ kOut > 0 /\ kOut' = kOut - 1 /\ kGot' = kGot + 1 /\ kRcv' = "check"
    \/ kOut = 0 /\ ~kOutOpen /\ kRcv' = "none" /\ UNCHANGED <<kOut, kGot>>
    \/ kOut = 0 /\ kOutOpen /\ empty /\ UNCHANGED <<kOut, kGot>>

\* wait_interrupt loops on its own flags: it does not read `terminal`.
Woken == kRwoke /\ kRcv' = "flags"

Receive ==
    /\ kOpen = "Ok"
    /\ UNCHANGED <<kKind, kCtl, kOwn, kIn, kFeed, kBody, kOutOpen, kSent, kTotal, kLate>>
    /\ \/ kRcv = "check" /\ Interrupted /\ TakeOr(kRcv' = "err") /\ UNCHANGED kRwoke
       \/ kRcv = "check" /\ ~Interrupted /\ TakeOr(kRcv' = "flags") /\ UNCHANGED kRwoke
       \/ kRcv = "flags" /\ Interrupted /\ TakeOr(kRcv' = "err") /\ UNCHANGED kRwoke
       \/ /\ kRcv = "flags" /\ ~Interrupted
          /\ kRcv' = "arm" /\ UNCHANGED <<kOut, kGot, kRwoke>>
       \/ kRcv = "arm" /\ kRcv' = "wait" /\ kRwoke' = FALSE /\ UNCHANGED <<kOut, kGot>>
       \/ kRcv = "wait" /\ TakeOr(Woken) /\ UNCHANGED kRwoke

\* The pump that reads is aborted and the handle dropped.
DropReader ==
    /\ kOpen = "Ok" /\ kRcv \notin {"none", "gone"} /\ kRcv' = "gone" /\ kOut' = 0
    /\ UNCHANGED <<kKind, kCtl, kOwn, kIn, kFeed, kBody, kOutOpen, kSent, kTotal, kLate,
                   kRwoke, kGot>>

\* Time: the absolute deadline of the HTTP request, or of the run, passes.
RequestDeadline ==
    /\ kPc \in {"post", "stream", "next", "enqueue", "run"} /\ ~kLate /\ kLate' = TRUE
    /\ UNCHANGED <<kKind, kCtl, kOwn, kPipe, kRead>>
-----------------------------------------------------------------------------
OwnerStep ==
    OpenOwned \/ WaitControl \/ HttpOwner \/ FakeOwner \/ PrintOwner
    \/ FinishRead \/ FinishMark \/ FinishSend

ConnectionNext ==
    \/ \E c \in Controller : RequestEnd(c)
    \/ OwnerStep \/ AbortOwner \/ FeedInput \/ Receive \/ DropReader \/ RequestDeadline

\* The tasks are polled and timers fire; nobody need read, feed or cancel, but
\* a control call that has begun returns.
ConnectionFairness ==
    /\ WF_kVars(OwnerStep) /\ WF_kVars(RequestDeadline)
    /\ \A c \in Controller : WF_kVars(kReq[c] # "idle" /\ RequestEnd(c))

ConnectionSpec == ConnectionInit /\ [][ConnectionNext]_kVars /\ ConnectionFairness
-----------------------------------------------------------------------------
Accepted(k) == \E c \in Controller : kWant[c] = k /\ kDisp[c] = "Accepted"

(* The terminal-race rule of ConnectionOwner::finish (handles.rs): once a     *)
(* cancel has returned Accepted, the end that finish goes on to decide is     *)
(* Cancelled or Terminated whatever the transport observed; once a terminate  *)
(* has, it is Terminated, although a cancel may also be under way.  And what  *)
(* RawOutputHandle::receive tells the reader is true: an interruption only    *)
(* after every queued chunk is drained and only when someone asked for one (a *)
(* clean end whose `terminal` flag is stored before the channel closes is     *)
(* never reported as Cancelled), None only when it has received every chunk   *)
(* the owner enqueued.                                                        *)
EndsHonest ==
    [][/\ kPc = "finish" /\ kPc' = "mark" =>
             /\ Accepted("terminate") => kObs' = "Terminated"
             /\ Accepted("cancel") => kObs' \in {"Cancelled", "Terminated"}
       /\ kRcv' = "err" /\ kRcv # "err" => kOut = 0 /\ Interrupted
       /\ kRcv' = "none" => kGot' = kSent /\ ~kOutOpen]_kVars

(* run_http_owner: once the body has been handed over the owner ends, even    *)
(* if the reader never reads again, the server trickles empty chunks for      *)
(* ever, or a control wake-up fell between the flag check and notified().     *)
HttpEnds ==
    kKind = "http" /\ kPc \in {"post", "stream", "next", "enqueue"} ~> kPc = "ended"
=============================================================================
