--------------------------- MODULE EventPublisher ---------------------------
(***************************************************************************)
(* run_event_publisher of lifecycle/event_publisher.rs, the one allocator  *)
(* of event sequences of a transaction, with its neighbours: the senders   *)
(* behind the OrdinaryCmdAdmit gate, the host's mailbox (EventMailbox,     *)
(* here its item capacity) and the part of finalize_after_terminal that    *)
(* seals the stream and reports how the terminal event fared.              *)
(*                                                                         *)
(* A deadline is read at the start of a poll and the send is done in the   *)
(* rest of it, so an enqueue takes two steps (evPoll).  The clock may pass *)
(* the seal deadline between them, but not the 100 ms the finalizer waits  *)
(* longer: a poll is taken to be shorter than that slack.                  *)
(***************************************************************************)
EXTENDS Naturals, Sequences, Functions

CONSTANTS
    MaxCmds,        \* how many commands the coordinator and tools have under way
    CmdCap,         \* capacity of the ordinary command queue
    MailCap,        \* item capacity of the host's mailbox
    EndKinds        \* kinds the finalizer may have to report

ASSUME PublisherAssumption ==
    MaxCmds \in Nat /\ CmdCap \in Nat \ {0} /\ MailCap \in Nat \ {0}

VARIABLES
    evGate,         \* the gate still holds its Sender
    evParked,       \* commands of sends that cloned the Sender and await a slot
    evQueue,        \* the ordinary command queue
    evAccepted,     \* commands whose send returned Ok
    evSkipped,      \* establish commands the publisher ignored
    evBound,        \* the row's session_key: the external session, or none
    evPc,           \* position of the publisher
    evCur,          \* the command it is publishing
    evSealed,       \* wait_send_or_seal is in its inner select
    evPoll,         \* a poll has read its deadline as not passed
    evNext,         \* next_seq
    evLast,         \* last_committed
    evSession,      \* session
    evEstablished,  \* session_established
    evFail,         \* sticky_fail
    evMail,         \* the events put in the mailbox so far
    evTaken,        \* how many of them the host has received
    evOpen,         \* the host still holds the receiver
    evSeal,         \* the seal channel: unsent, queued, taken or lost
    evReply,        \* the one-shot reply to Seal
    evClock,        \* 0, 1 seal deadline passed, 2 slack passed
    evTxLate,       \* the transaction's deadline has passed
    evFin,          \* position of the finalizer
    evKind,         \* its local kind
    evDone          \* the completion it sent: delivery and last sequence

evEnv == <<evGate, evParked, evQueue, evAccepted, evBound>>
evSeq == <<evNext, evLast, evSession, evEstablished>>
evHost == <<evTaken, evOpen>>
evFinal == <<evFin, evKind, evDone>>
evTime == <<evClock, evTxLate>>
evVars == <<evEnv, evSkipped, evPc, evCur, evSealed, evPoll, evSeq, evFail, evMail,
            evHost, evSeal, evReply, evTime, evFinal>>

NoCmd == [id |-> 0, kind |-> "none"]
NoReply == [delivery |-> "none", last |-> 0]

PublisherInit ==
    /\ evGate = TRUE /\ evParked = <<>> /\ evQueue = <<>>
    /\ evAccepted = {} /\ evSkipped = {}
    /\ evSession \in {"none", "external"} /\ evBound = evSession
    /\ evPc = "select" /\ evCur = NoCmd /\ evSealed = FALSE /\ evPoll = FALSE
    /\ evNext = 1 /\ evLast = 0 /\ evEstablished = FALSE /\ evFail = "none"
    /\ evMail = <<>> /\ evTaken = 0 /\ evOpen = TRUE
    /\ evSeal = "unsent" /\ evReply = NoReply /\ evClock = 0 /\ evTxLate = FALSE
    /\ evFin = "idle" /\ evKind \in EndKinds /\ evDone = NoReply

-----------------------------------------------------------------------------
(* Senders.  A send clones the gate's Sender under its lock and then waits *)
(* for a slot; closing the gate does not stop it.                          *)

Fresh == (1 .. MaxCmds) \ {c.id : c \in Range(evParked) \cup evAccepted}

\* The session is established before anything else is sent; an external agent's
\* is bound to the row first.
Send(kind) ==
    /\ evGate /\ Fresh # {}
    /\ kind = "establish" => evAccepted = {} /\ evParked = <<>>
    /\ \A c \in Range(evParked) : c.kind # "establish"
    /\ evBound # evSession => \E c \in evAccepted : c.kind = "establish"
    /\ evParked' = Append(evParked, [id |-> (CHOOSE n \in Fresh : TRUE), kind |-> kind])
    /\ evBound' \in IF kind = "establish" THEN {"external", evBound} ELSE {evBound}
    /\ UNCHANGED <<evGate, evQueue, evAccepted, evSkipped, evPc, evCur, evSealed, evPoll,
                   evSeq, evFail, evMail, evHost, evSeal, evReply, evTime, evFinal>>

\* Waiting sends get slots in order; once the publisher is gone they fail.
Unpark ==
    /\ evParked # <<>>
    /\ evParked' = Tail(evParked)
    /\ \/ /\ evPc # "done" /\ Len(evQueue) < CmdCap
          /\ evQueue' = Append(evQueue, Head(evParked))
          /\ evAccepted' = evAccepted \cup {Head(evParked)}
       \/ evPc = "done" /\ UNCHANGED <<evQueue, evAccepted>>
    /\ UNCHANGED <<evGate, evBound, evSkipped, evPc, evCur, evSealed, evPoll, evSeq, evFail,
                   evMail, evHost, evSeal, evReply, evTime, evFinal>>

\* A cancel, a deadline or an abort drops a waiting send.
DropParked(i) ==
    /\ evParked' = SubSeq(evParked, 1, i - 1) \o SubSeq(evParked, i + 1, Len(evParked))
    /\ UNCHANGED <<evGate, evQueue, evAccepted, evBound, evSkipped, evPc, evCur, evSealed,
                   evPoll, evSeq, evFail, evMail, evHost, evSeal, evReply, evTime, evFinal>>

Disconnected == ~evGate /\ evParked = <<>> /\ evQueue = <<>>

-----------------------------------------------------------------------------
(* The publisher.                                                          *)

\* ensure_session: a preferred id replaces no id or the synthetic one only.
ensure_session(preferred) ==
    IF preferred # "none" /\ evSession \in {"none", "synthetic"} THEN preferred
    ELSE IF evSession = "none" THEN "synthetic" ELSE evSession

Ignored(c) == c.kind = "establish" /\ (evEstablished \/ evNext # 1)

EventOf(c, session) == [seq |-> evNext, kind |-> c.kind, id |-> c.id, session |-> session]

\* The bookkeeping of an event the mailbox took.
Commit(c) ==
    LET session == ensure_session(IF c.kind = "establish" THEN "external" ELSE "none") IN
    /\ evMail' = Append(evMail, EventOf(c, session))
    /\ evSession' = session
    /\ evEstablished' = (evEstablished \/ c.kind = "establish")
    /\ evLast' = evNext
    /\ evNext' = evNext + 1

\* TransactionEventSender::send finishes: room, a dropped receiver, or an event
\* that is too large for the mailbox (map_send_err).
SendResult == IF ~evOpen THEN {"QueueClosed"}
              ELSE {"LimitExceeded"}
                   \cup IF Len(evMail) - evTaken < MailCap THEN {"Ok"} ELSE {}

\* The main select: Seal first, then one ordinary command.
TakeSeal ==
    /\ evPc \in {"select", "sticky", "send"} /\ evSeal = "queued" /\ ~evPoll
    /\ evPc = "send" => ~evSealed
    /\ evSeal' = "taken"
    /\ IF evPc = "send"
       THEN evSealed' = TRUE /\ UNCHANGED <<evGate, evPc>>
       ELSE /\ evGate' = FALSE
            /\ evPc' = IF evPc = "sticky" THEN "discard" ELSE "fence"
            /\ UNCHANGED evSealed
    /\ UNCHANGED <<evParked, evQueue, evAccepted, evBound, evSkipped, evCur, evPoll, evSeq,
                   evFail, evMail, evHost, evReply, evTime, evFinal>>

\* The finalizer is gone without a Seal: the publisher drops the gate's Sender.
SealLost ==
    /\ evSeal = "lost" /\ (evPc = "sticky" \/ (evPc = "select" /\ evGate))
    /\ evGate' = FALSE
    /\ evPc' = IF evPc = "sticky" THEN "done" ELSE evPc
    /\ UNCHANGED <<evParked, evQueue, evAccepted, evBound, evSkipped, evCur, evSealed, evPoll,
                   evSeq, evFail, evMail, evHost, evSeal, evReply, evTime, evFinal>>

\* Both channels are closed.
BothClosed ==
    /\ evPc = "select" /\ evSeal = "lost" /\ Disconnected
    /\ evPc' = "done"
    /\ UNCHANGED <<evEnv, evSkipped, evCur, evSealed, evPoll, evSeq, evFail, evMail, evHost,
                   evSeal, evReply, evTime, evFinal>>

TakeCommand ==
    /\ \/ evPc = "select" /\ evSeal # "queued"
       \/ evPc = "fence" /\ evClock = 0
    /\ evQueue # <<>>
    /\ evQueue' = Tail(evQueue)
    /\ LET c == Head(evQueue) IN
       IF Ignored(c)
       THEN evSkipped' = evSkipped \cup {c} /\ UNCHANGED <<evPc, evCur>>
       ELSE /\ evCur' = c
            /\ evPc' = IF evPc = "select" THEN "send" ELSE "drainSend"
            /\ UNCHANGED evSkipped
    /\ UNCHANGED <<evGate, evParked, evAccepted, evBound, evSealed, evPoll, evSeq, evFail,
                   evMail, evHost, evSeal, evReply, evTime, evFinal>>

\* Mutant: a send of the fence has no deadline of its own.
Late_unsealed == evPc = "send" /\ ~evSealed /\ evTxLate

\* The deadline of the send in progress: the transaction's, or Seal's.
Late == IF evPc = "send" /\ ~evSealed THEN evTxLate ELSE evClock > 0

\* A poll reads the deadline first; a Seal that is queued comes before both.
BeginPoll ==
    /\ evPc \in {"send", "drainSend", "ended"} /\ ~evPoll /\ ~Late
    /\ evPc = "send" /\ ~evSealed => evSeal # "queued"
    /\ SendResult # {}
    /\ evPoll' = TRUE
    /\ UNCHANGED <<evEnv, evSkipped, evPc, evCur, evSealed, evSeq, evFail, evMail, evHost,
                   evSeal, evReply, evTime, evFinal>>

\* Where an ordinary event leads: back to the select, or into the fence.
AfterSend(fail) ==
    IF evPc = "send" /\ ~evSealed THEN IF fail = "none" THEN "select" ELSE "sticky"
    ELSE IF fail = "none" THEN "fence" ELSE "discard"

EndPoll ==
    /\ evPoll /\ evPc \in {"send", "drainSend"}
    /\ \E r \in SendResult :
          /\ IF r = "Ok" THEN Commit(evCur) ELSE UNCHANGED <<evMail, evSeq>>
          /\ evFail' = IF r = "Ok" THEN evFail ELSE r
          /\ evPc' = AfterSend(evFail')
    /\ evPoll' = FALSE /\ evCur' = NoCmd /\ evSealed' = FALSE
    /\ evGate' = IF evSealed THEN FALSE ELSE evGate
    /\ UNCHANGED <<evParked, evQueue, evAccepted, evBound, evSkipped, evHost, evSeal,
                   evReply, evTime, evFinal>>

SendTimeout ==
    /\ evPc \in {"send", "drainSend"} /\ ~evPoll /\ Late
    /\ evPc = "send" /\ ~evSealed => evSeal # "queued"
    /\ evFail' = "DeadlineExceeded"
    /\ evPc' = AfterSend("DeadlineExceeded")
    /\ evCur' = NoCmd /\ evSealed' = FALSE
    /\ evGate' = IF evSealed THEN FALSE ELSE evGate
    /\ UNCHANGED <<evParked, evQueue, evAccepted, evBound, evSkipped, evPoll, evSeq, evMail,
                   evHost, evSeal, evReply, evTime, evFinal>>

\* Mutant: the backlog is drained until the queue is empty, not disconnected.
FenceEndEmpty ==
    /\ evPc = "fence"
    /\ \/ evClock > 0 /\ evFail' = "DeadlineExceeded" /\ evPc' = "discard"
       \/ evClock = 0 /\ evQueue = <<>> /\ evPc' = "ended" /\ UNCHANGED evFail
    /\ UNCHANGED <<evEnv, evSkipped, evCur, evSealed, evPoll, evSeq, evMail, evHost, evSeal,
                   evReply, evTime, evFinal>>

\* fence_drain_and_seal leaves its loop at the deadline or at Disconnected.
FenceEnd ==
    /\ evPc = "fence"
    /\ \/ evClock > 0 /\ evFail' = "DeadlineExceeded" /\ evPc' = "discard"
       \/ evClock = 0 /\ Disconnected /\ evPc' = "ended" /\ UNCHANGED evFail
    /\ UNCHANGED <<evEnv, evSkipped, evCur, evSealed, evPoll, evSeq, evMail, evHost, evSeal,
                   evReply, evTime, evFinal>>

\* drain_to_disconnect: after a failure the remaining commands are discarded,
\* then reply_sticky answers.
Discard ==
    /\ evPc = "discard"
    /\ \/ /\ evClock = 0 /\ evQueue # <<>>
          /\ evQueue' = Tail(evQueue) /\ UNCHANGED <<evPc, evReply>>
       \/ /\ evClock > 0 \/ Disconnected
          /\ evPc' = "done"
          /\ evReply' = [delivery |-> evFail, last |-> evLast]
          /\ UNCHANGED evQueue
    /\ UNCHANGED <<evGate, evParked, evAccepted, evBound, evSkipped, evCur, evSealed, evPoll,
                   evSeq, evFail, evMail, evHost, evSeal, evTime, evFinal>>

\* finish_seal: Ended takes the next sequence, and the reply goes out in the
\* same poll.
FinishSeal ==
    /\ evPc = "ended"
    /\ \/ /\ evPoll
          /\ \E r \in SendResult :
                IF r = "Ok"
                THEN LET session == ensure_session(evBound) IN
                     /\ evMail' = Append(evMail, [seq |-> evNext, kind |-> "ended",
                                                  id |-> 0, session |-> session])
                     /\ evSession' = session
                     /\ evLast' = evNext
                     /\ evReply' = [delivery |-> "Published", last |-> evNext]
                ELSE /\ evReply' = [delivery |-> r, last |-> evLast]
                     /\ UNCHANGED <<evMail, evSession, evLast>>
       \/ /\ ~evPoll /\ evClock > 0
          /\ evReply' = [delivery |-> "DeadlineExceeded", last |-> evLast]
          /\ UNCHANGED <<evMail, evSession, evLast>>
    /\ evPc' = "done" /\ evPoll' = FALSE
    /\ UNCHANGED <<evEnv, evSkipped, evCur, evSealed, evNext, evEstablished, evFail, evHost,
                   evSeal, evTime, evFinal>>

\* The task is aborted (hard grace) at a suspension point, or panics.
AbortPublisher ==
    /\ evPc # "done" /\ ~evPoll
    /\ evPc' = "done"
    /\ UNCHANGED <<evEnv, evSkipped, evCur, evSealed, evPoll, evSeq, evFail, evMail, evHost,
                   evSeal, evReply, evTime, evFinal>>

-----------------------------------------------------------------------------
(* The finalizer, the host and the clock.                                  *)

\* The gate is closed under the ledger's lock before Seal is sent.
SendSeal ==
    /\ evFin = "idle" /\ evSeal = "unsent"
    /\ evGate' = FALSE
    /\ IF evPc = "done"
       THEN /\ evFin' = "report" /\ evDone' = [delivery |-> "QueueClosed", last |-> 0]
            /\ UNCHANGED evSeal
       ELSE evSeal' = "queued" /\ evFin' = "wait" /\ UNCHANGED evDone
    /\ UNCHANGED <<evParked, evQueue, evAccepted, evBound, evSkipped, evPc, evCur, evSealed,
                   evPoll, evSeq, evFail, evMail, evHost, evReply, evTime, evKind>>

\* The supervisor drops the seal sender without a finalizer (drop, hard grace).
LoseSeal ==
    /\ evFin = "idle" /\ evSeal = "unsent"
    /\ evSeal' = "lost"
    /\ UNCHANGED <<evEnv, evSkipped, evPc, evCur, evSealed, evPoll, evSeq, evFail, evMail,
                   evHost, evReply, evTime, evFinal>>

\* Mutant: the finalizer waits exactly the seal budget.
GaveUpAtDeadline == evClock >= 1

\* timeout(seal_budget + 100 ms), or the reply sender dropped unused.
GaveUp == evClock = 2 \/ (evPc = "done" /\ evReply = NoReply)

AwaitReply ==
    /\ evFin = "wait"
    /\ \/ evReply # NoReply /\ evDone' = evReply
       \/ /\ evReply = NoReply /\ GaveUp
          /\ evDone' = [delivery |-> "DeadlineExceeded", last |-> 0]
    /\ evFin' = "report"
    /\ UNCHANGED <<evEnv, evSkipped, evPc, evCur, evSealed, evPoll, evSeq, evFail, evMail,
                   evHost, evSeal, evReply, evTime, evKind>>

\* A truncated stream is never reported as Completed (D-047).
reported_kind ==
    IF evDone.delivery # "Published" /\ evKind \in {"Completed", "ContinuationRequired"}
    THEN "EventDeliveryFailed" ELSE evKind

Report ==
    /\ evFin = "report"
    /\ evKind' = reported_kind
    /\ evFin' = "done"
    /\ UNCHANGED <<evEnv, evSkipped, evPc, evCur, evSealed, evPoll, evSeq, evFail, evMail,
                   evHost, evSeal, evReply, evTime, evDone>>

HostReceives ==
    /\ evOpen /\ evTaken < Len(evMail)
    /\ evTaken' = evTaken + 1
    /\ UNCHANGED <<evEnv, evSkipped, evPc, evCur, evSealed, evPoll, evSeq, evFail, evMail,
                   evOpen, evSeal, evReply, evTime, evFinal>>

HostDrops ==
    /\ evOpen /\ evOpen' = FALSE
    /\ UNCHANGED <<evEnv, evSkipped, evPc, evCur, evSealed, evPoll, evSeq, evFail, evMail,
                   evTaken, evSeal, evReply, evTime, evFinal>>

Tick ==
    /\ \/ /\ evFin # "idle" /\ evClock < 2 /\ (evClock = 1 => ~evPoll)
          /\ evClock' = evClock + 1 /\ UNCHANGED evTxLate
       \/ ~evTxLate /\ evTxLate' = TRUE /\ UNCHANGED evClock
    /\ UNCHANGED <<evEnv, evSkipped, evPc, evCur, evSealed, evPoll, evSeq, evFail, evMail,
                   evHost, evSeal, evReply, evFinal>>

PublisherStep == \/ TakeSeal \/ SealLost \/ BothClosed \/ TakeCommand \/ BeginPoll
                 \/ EndPoll \/ SendTimeout \/ FenceEnd \/ Discard \/ FinishSeal

PublisherNext ==
    \/ \E kind \in {"establish", "publish"} : Send(kind)
    \/ Unpark
    \/ \E i \in DOMAIN evParked : DropParked(i)
    \/ PublisherStep
    \/ AbortPublisher
    \/ SendSeal \/ LoseSeal \/ AwaitReply \/ Report
    \/ HostReceives \/ HostDrops
    \/ Tick

\* The steps a poll of the task certainly takes: a send into a full mailbox waits,
\* since nothing makes the event one that is refused for its size.
PublisherRuns == \/ SendResult # {"LimitExceeded"} /\ BeginPoll
                 \/ TakeSeal \/ SealLost \/ BothClosed \/ TakeCommand
                 \/ EndPoll \/ SendTimeout \/ FenceEnd \/ Discard \/ FinishSeal

\* The runtime keeps polling a runnable task, a freed slot goes to a waiting
\* send, and time passes.
PublisherFairness == WF_evVars(PublisherRuns) /\ WF_evVars(Unpark) /\ WF_evVars(Tick)

PublisherSpec == PublisherInit /\ [][PublisherNext]_evVars /\ PublisherFairness

-----------------------------------------------------------------------------
InMail == {evMail[i].id : i \in DOMAIN evMail}
HasEnded == \E i \in DOMAIN evMail : evMail[i].kind = "ended"

(* The host sees sequences 1, 2, 3, ... whatever path an event took: the   *)
(* select, the send that Seal interrupted, the fence or finish_seal.       *)
SequencesContiguous == \A i \in DOMAIN evMail : evMail[i].seq = i

(* Seal is an ordering fence: once Ended is in the stream nothing follows  *)
(* it, and every command whose send returned Ok, a send that was parked    *)
(* when the gate closed included, is in front of it.                       *)
FenceComplete ==
    HasEnded => /\ evMail[Len(evMail)].kind = "ended"
                /\ \A c \in evAccepted \ evSkipped : c.id \in InMail

(* All events of a transaction carry one session id, the external one when *)
(* the transaction has one (LAW 7): no event goes out under the synthetic  *)
(* id before the session is established, and Ended does not differ.        *)
OneSession == \A i, j \in DOMAIN evMail : evMail[i].session = evMail[j].session

(* The completion agrees with the stream for ever: it says Published       *)
(* exactly when Ended is in the mailbox, and then counts every event.  No  *)
(* late Ended follows a completion that reported a timeout.                *)
CompletionAgrees ==
    evFin = "done" =>
        /\ evDone.delivery = "Published" <=> HasEnded
        /\ HasEnded => evDone.last = Len(evMail)

(* A completion of kind Completed stands for a whole stream: Ended is in   *)
(* it and so is every accepted event.                                      *)
CompletedIsWhole ==
    evFin = "done" /\ evKind = "Completed" =>
        HasEnded /\ \A c \in evAccepted \ evSkipped : c.id \in InMail

(* The publisher returns once it is sealed or its Seal is lost, although   *)
(* the host may never read and senders may be parked.                      *)
PublisherStops == (evSeal \in {"queued", "lost"}) ~> (evPc = "done")
=============================================================================
