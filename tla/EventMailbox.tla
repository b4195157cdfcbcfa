---------------------------- MODULE EventMailbox ----------------------------
(***************************************************************************)
(* The event mailbox of crates/monoloop-contracts/src/delivery.rs: a       *)
(* bounded queue whose senders first reserve bytes in an atomic counter    *)
(* (load, compare, compare_exchange) and then wait for a queue slot.  The  *)
(* receiver gives the bytes back in two steps: it subtracts them and then  *)
(* wakes the waiting senders, so a sender can run between the two.         *)
(***************************************************************************)
EXTENDS Integers, Sequences, FiniteSets, Functions

CONSTANTS
    Sender,         \* tasks that hold a clone of TransactionEventSender
    MaxItems,       \* DeliveryLimits.max_event_items
    MaxBytes,       \* DeliveryLimits.max_event_bytes
    EventBytes,     \* sizes estimate_event_bytes may return
    Host            \* the task that holds the receiver

ASSUME MailboxAssumption ==
    /\ MaxItems \in Nat \ {0}
    /\ MaxBytes \in Nat \ {0}
    /\ EventBytes \subseteq Nat \ {0}
    /\ IsFiniteSet(Sender)
    /\ Host \notin Sender

VARIABLES
    mbPc,           \* position of each sender in send or try_send
    mbSize,         \* nbytes of its event
    mbSeen,         \* its local cur
    mbWoken,        \* senders whose notified future has fired
    mbQueue,        \* sizes of the queued events
    mbBytes,        \* queued_bytes
    mbRelease,      \* tasks between a permit's fetch_sub and its notify_waiters
    mbOpen          \* the host still holds the receiver

mbVars == <<mbPc, mbSize, mbSeen, mbWoken, mbQueue, mbBytes, mbRelease, mbOpen>>

\* Mutant: the future is created only when the counter has been found full.
ArmedLate == {s \in Sender : mbPc[s] = "wait"}

\* A notified future counts the notify_waiters calls made since it was created.
Armed == {s \in Sender : mbPc[s] \in {"load", "test", "wait", "cas"}}

MailboxInit ==
    /\ mbPc = [s \in Sender |-> "idle"]
    /\ mbSize = [s \in Sender |-> 0]
    /\ mbSeen = [s \in Sender |-> 0]
    /\ mbWoken = {}
    /\ mbQueue = <<>>
    /\ mbBytes = 0
    /\ mbRelease = {}
    /\ mbOpen = TRUE

Goto(s, pc) == mbPc' = [mbPc EXCEPT ![s] = pc]

\* An event that is larger than the whole budget is refused before anything else.
StartSend(s, n, pc) ==
    /\ mbPc[s] = "idle" /\ s \notin mbRelease
    /\ Goto(s, IF n > MaxBytes THEN "idle" ELSE pc)
    /\ mbSize' = [mbSize EXCEPT ![s] = n]
    /\ UNCHANGED <<mbSeen, mbWoken, mbQueue, mbBytes, mbRelease, mbOpen>>

\* The notified future is created before the counter is read.
Arm(s) ==
    /\ mbPc[s] = "arm"
    /\ Goto(s, "load")
    /\ mbWoken' = mbWoken \ {s}
    /\ UNCHANGED <<mbSize, mbSeen, mbQueue, mbBytes, mbRelease, mbOpen>>

Load(s) ==
    /\ mbPc[s] = "load"
    /\ Goto(s, "test")
    /\ mbSeen' = [mbSeen EXCEPT ![s] = mbBytes]
    /\ UNCHANGED <<mbSize, mbWoken, mbQueue, mbBytes, mbRelease, mbOpen>>

Test(s) ==
    /\ mbPc[s] = "test"
    /\ Goto(s, IF mbSeen[s] + mbSize[s] > MaxBytes THEN "wait" ELSE "cas")
    /\ UNCHANGED <<mbSize, mbSeen, mbWoken, mbQueue, mbBytes, mbRelease, mbOpen>>

Wake(s) ==
    /\ mbPc[s] = "wait" /\ s \in mbWoken
    /\ Goto(s, "arm")
    /\ UNCHANGED <<mbSize, mbSeen, mbWoken, mbQueue, mbBytes, mbRelease, mbOpen>>

CompareExchange(s) ==
    /\ mbPc[s] = "cas"
    /\ IF mbBytes = mbSeen[s]
       THEN /\ mbBytes' = mbBytes + mbSize[s]
            /\ Goto(s, "push")
       ELSE /\ Goto(s, "arm")
            /\ UNCHANGED mbBytes
    /\ UNCHANGED <<mbSize, mbSeen, mbWoken, mbQueue, mbRelease, mbOpen>>

\* A dropped permit gives its bytes back; its wake-up follows as a step of Notify.
DropPermit(s) ==
    /\ mbBytes' = mbBytes - mbSize[s]
    /\ mbRelease' = mbRelease \cup {s}

Push(s) ==
    /\ mbPc[s] = "push"
    /\ \/ /\ mbOpen /\ Len(mbQueue) < MaxItems
          /\ mbQueue' = Append(mbQueue, mbSize[s])
          /\ UNCHANGED <<mbBytes, mbRelease>>
       \/ ~mbOpen /\ DropPermit(s) /\ UNCHANGED mbQueue
    /\ Goto(s, "idle")
    /\ UNCHANGED <<mbSize, mbSeen, mbWoken, mbOpen>>

\* The select around send drops the future: at a deadline, or with its task.
DropSend(s) ==
    /\ \/ mbPc[s] = "wait" /\ UNCHANGED <<mbBytes, mbRelease>>
       \/ mbPc[s] = "push" /\ DropPermit(s)
    /\ Goto(s, "idle")
    /\ UNCHANGED <<mbSize, mbSeen, mbWoken, mbQueue, mbOpen>>

TryLoad(s) ==
    /\ mbPc[s] = "tryLoad"
    /\ mbSeen' = [mbSeen EXCEPT ![s] = mbBytes]
    /\ Goto(s, IF mbBytes + mbSize[s] > MaxBytes THEN "idle" ELSE "tryCas")
    /\ UNCHANGED <<mbSize, mbWoken, mbQueue, mbBytes, mbRelease, mbOpen>>

TryCompareExchange(s) ==
    /\ mbPc[s] = "tryCas"
    /\ IF mbBytes = mbSeen[s]
       THEN mbBytes' = mbBytes + mbSize[s] /\ Goto(s, "tryPush")
       ELSE Goto(s, "tryLoad") /\ UNCHANGED mbBytes
    /\ UNCHANGED <<mbSize, mbSeen, mbWoken, mbQueue, mbRelease, mbOpen>>

\* Mutant: the permit of a refused item is forgotten.
TryPushForgetful(s) ==
    /\ mbPc[s] = "tryPush"
    /\ mbQueue' = IF mbOpen /\ Len(mbQueue) < MaxItems
                  THEN Append(mbQueue, mbSize[s]) ELSE mbQueue
    /\ Goto(s, "idle")
    /\ UNCHANGED <<mbSize, mbSeen, mbWoken, mbBytes, mbRelease, mbOpen>>

\* A full queue or a closed one hands the item back, and its permit with it.
TryPush(s) ==
    /\ mbPc[s] = "tryPush"
    /\ IF mbOpen /\ Len(mbQueue) < MaxItems
       THEN /\ mbQueue' = Append(mbQueue, mbSize[s])
            /\ UNCHANGED <<mbBytes, mbRelease>>
       ELSE DropPermit(s) /\ UNCHANGED mbQueue
    /\ Goto(s, "idle")
    /\ UNCHANGED <<mbSize, mbSeen, mbWoken, mbOpen>>

\* recv and try_recv; after the receiver is dropped, the drop of a queued item.
HostReceive ==
    /\ mbQueue # <<>> /\ Host \notin mbRelease
    /\ mbQueue' = Tail(mbQueue)
    /\ mbBytes' = mbBytes - Head(mbQueue)
    /\ mbRelease' = mbRelease \cup {Host}
    /\ UNCHANGED <<mbPc, mbSize, mbSeen, mbWoken, mbOpen>>

Notify(t) ==
    /\ t \in mbRelease
    /\ mbRelease' = mbRelease \ {t}
    /\ mbWoken' = mbWoken \cup Armed
    /\ UNCHANGED <<mbPc, mbSize, mbSeen, mbQueue, mbBytes, mbOpen>>

DropReceiver ==
    /\ mbOpen
    /\ mbOpen' = FALSE
    /\ UNCHANGED <<mbPc, mbSize, mbSeen, mbWoken, mbQueue, mbBytes, mbRelease>>

MailboxNext ==
    \/ \E s \in Sender :
          \/ \E n \in EventBytes, pc \in {"arm", "tryLoad"} : StartSend(s, n, pc)
          \/ Arm(s) \/ Load(s) \/ Test(s) \/ Wake(s) \/ CompareExchange(s)
          \/ Push(s) \/ DropSend(s)
          \/ TryLoad(s) \/ TryCompareExchange(s) \/ TryPush(s)
    \/ HostReceive
    \/ \E t \in Sender \cup {Host} : Notify(t)
    \/ DropReceiver

MailboxSpec == MailboxInit /\ [][MailboxNext]_mbVars

-----------------------------------------------------------------------------
(* Reserved s holds a byte permit that is not in the queue yet.            *)
Reserved == {s \in Sender : mbPc[s] \in {"push", "tryPush"}}

(* The counter is exactly the bytes of the queued events and of the        *)
(* senders between compare_exchange and the queue, and stays within the    *)
(* budget: no path of send, try_send, recv or drop leaks or double-frees a *)
(* permit (D-046).                                                         *)
BytesAccounted ==
    /\ mbBytes = SumFunction(mbQueue) + SumFunctionOnSet(mbSize, Reserved)
    /\ mbBytes <= MaxBytes

(* A sender never sleeps through the release that would let it in: one     *)
(* that waits without a wake-up, while no release has its notify_waiters   *)
(* still to come, does not fit the budget (D-047 wait-for-capacity).       *)
NoLostWakeup ==
    \A s \in Sender :
        (mbPc[s] = "wait" /\ s \notin mbWoken /\ mbRelease = {})
            => mbBytes + mbSize[s] > MaxBytes
=============================================================================
