--------------------------- MODULE DeliveryProofs ---------------------------
(***************************************************************************)
(* How a transaction's events leave it: the inductive invariant of the     *)
(* publisher (EventPublisher), and with it the sequence, the fence, the    *)
(* session and the completion, for every number of commands, every         *)
(* capacity and every kind of end.                                         *)
(***************************************************************************)
EXTENDS EventPublisher, TLAPS

-----------------------------------------------------------------------------
Cmd == [id : Nat, kind : {"establish", "publish"}]
Event == [seq : Nat, kind : {"establish", "publish", "ended"}, id : Nat,
          session : {"none", "external", "synthetic"}]
Reply == [delivery : {"none", "Published", "QueueClosed", "LimitExceeded", "DeadlineExceeded"},
          last : Nat]
Sending == evPc \in {"send", "drainSend"}
Broken == evPc \in {"sticky", "discard", "done"}

\* The types, and that what the publisher works on was accepted.
PublisherType ==
    /\ evGate \in BOOLEAN /\ evParked \in Seq(Cmd) /\ evQueue \in Seq(Cmd)
    /\ evBound \in {"none", "external"} /\ evSession \in {"none", "external", "synthetic"}
    /\ evPc \in {"select", "send", "sticky", "fence", "drainSend", "discard", "ended", "done"}
    /\ evCur \in Cmd \cup {NoCmd} /\ evSealed \in BOOLEAN /\ evPoll \in BOOLEAN
    /\ evNext \in Nat /\ evLast \in Nat /\ evEstablished \in BOOLEAN
    /\ evFail \in {"none", "QueueClosed", "LimitExceeded", "DeadlineExceeded"}
    /\ evMail \in Seq(Event)
    /\ evReply \in Reply /\ evDone \in Reply /\ evClock \in 0 .. 2
    /\ \A i \in DOMAIN evQueue : evQueue[i] \in evAccepted
    /\ Sending => evCur \in Cmd /\ evCur \in evAccepted

\* next_seq and last_committed count the mailbox, until Ended is in it.
SequenceInv ==
    /\ SequencesContiguous
    /\ ~HasEnded => evNext = Len(evMail) + 1 /\ evLast = Len(evMail)
    /\ HasEnded => /\ evPc = "done" /\ evSeal = "taken"
                   /\ evMail[Len(evMail)].kind = "ended"
                   /\ evReply = [delivery |-> "Published", last |-> Len(evMail)]

\* Seal has been taken wherever its fence is at work, and the gate is closed.
SealInv ==
    /\ evPc \in {"fence", "drainSend", "discard", "ended"} => evSeal = "taken" /\ ~evGate
    /\ evSealed => evSeal = "taken" /\ evPc \in {"send", "done"}
    /\ evReply # NoReply => evSeal = "taken" /\ evPc = "done"
    /\ evReply.delivery = "Published" => HasEnded
    /\ evPc = "ended" => evQueue = <<>> /\ evParked = <<>>

\* No accepted command is lost while the publisher has not failed.
Delivered(c) ==
    \/ c.id \in InMail
    \/ Sending /\ c = evCur
    \/ \E i \in DOMAIN evQueue : evQueue[i] = c
FenceInv ==
    /\ FenceComplete
    /\ ~Broken => \A c \in evAccepted \ evSkipped : Delivered(c)

\* The events carry the publisher's session; while the row's external session is
\* unknown to the publisher, an establish command comes before all others.
SessionInv ==
    /\ \A i \in DOMAIN evMail : evMail[i].session = evSession
    /\ evMail = <<>> => evSession # "synthetic" /\ ~evEstablished
    /\ evMail # <<>> => evSession # "none"
    /\ evMail # <<>> /\ ~HasEnded =>
          evAccepted # {} /\ (evSession # "external" => evBound = "none")
    /\ Sending /\ evCur.kind = "establish" => evMail = <<>>
    /\ (evBound = "external" /\ evSession = "none" /\ ~Broken) =>
          /\ Sending => evCur.kind = "establish"
          /\ ~Sending /\ evQueue # <<>> => evQueue[1].kind = "establish"
          /\ ~Sending /\ evQueue = <<>> => evAccepted = {}
          /\ evAccepted = {} => \/ evParked = <<>>
                                \/ Len(evParked) = 1 /\ evParked[1].kind = "establish"

\* What the finalizer reports stays true: it has the reply, or no Ended can follow.
FinalInv ==
    /\ evClock = 2 /\ evPoll => evPc = "send" /\ ~evSealed
    /\ evFin \in {"report", "done"} =>
          /\ evDone.delivery = "Published" <=> HasEnded
          /\ HasEnded => evDone.last = Len(evMail)
          /\ evPc = "done" \/ evClock = 2
    /\ evFin = "done" /\ evKind = "Completed" => evDone.delivery = "Published"
    /\ evFin = "idle" => evSeal \in {"unsent", "lost"}
    /\ evFin = "wait" => evSeal \in {"queued", "taken"}

PublisherInv ==
    /\ PublisherType /\ SequenceInv /\ SealInv /\ FenceInv /\ SessionInv /\ FinalInv

\* A mailbox that does not change keeps what is said of it.
LEMMA SameMail ==
    ASSUME evMail' = evMail
    PROVE  /\ HasEnded' = HasEnded /\ InMail' = InMail
           /\ SequencesContiguous' = SequencesContiguous
BY DEF HasEnded, InMail, SequencesContiguous

\* The next free number exists.
LEMMA FreshNumber ==
    ASSUME Fresh # {}
    PROVE  (CHOOSE n \in Fresh : TRUE) \in Nat
<1>1. (CHOOSE n \in Fresh : TRUE) \in Fresh
  BY Zenon
<1> QED BY <1>1, PublisherAssumption DEF Fresh

\* A sequence has its length for domain; the empty one is the one of length 0.
LEMMA LenProperties ==
    ASSUME NEW S, NEW s \in Seq(S)
    PROVE  Len(s) \in Nat /\ DOMAIN s = 1 .. Len(s)
OBVIOUS

LEMMA EmptySeq ==
    ASSUME NEW S
    PROVE  <<>> \in Seq(S) /\ \A s \in Seq(S) : s = <<>> <=> Len(s) = 0
OBVIOUS

\* Appending to a sequence of commands or events.
LEMMA Appended ==
    ASSUME NEW S, NEW s \in Seq(S), NEW e \in S
    PROVE  /\ Append(s, e) \in Seq(S) /\ Append(s, e) # <<>>
           /\ DOMAIN Append(s, e) = 1 .. Len(s) + 1 /\ DOMAIN s = 1 .. Len(s)
           /\ Len(Append(s, e)) = Len(s) + 1 /\ Len(s) \in Nat
           /\ \A i \in DOMAIN s : Append(s, e)[i] = s[i]
           /\ Append(s, e)[Len(s) + 1] = e
<1>1. Len(s) \in Nat /\ DOMAIN s = 1 .. Len(s)
  BY LenProperties
<1>2. /\ Append(s, e) \in Seq(S) /\ Append(s, e) # <<>> /\ Len(Append(s, e)) = Len(s) + 1
      /\ \A i \in 1 .. Len(s) : Append(s, e)[i] = s[i]
      /\ Append(s, e)[Len(s) + 1] = e
  OBVIOUS
<1>3. DOMAIN Append(s, e) = 1 .. Len(s) + 1
  BY <1>2, LenProperties
<1> QED BY Zenon, <1>1, <1>2, <1>3

\* Taking the first of a sequence.
LEMMA Taken ==
    ASSUME NEW S, NEW s \in Seq(S), s # <<>>
    PROVE  /\ Tail(s) \in Seq(S) /\ Head(s) \in S /\ Head(s) = s[1] /\ 1 \in DOMAIN s
           /\ DOMAIN s = 1 .. Len(s) /\ DOMAIN Tail(s) = 1 .. Len(s) - 1
           /\ Len(s) \in Nat /\ Len(Tail(s)) = Len(s) - 1
           /\ \A i \in DOMAIN Tail(s) : i + 1 \in DOMAIN s /\ Tail(s)[i] = s[i + 1]
<1>1. Len(s) \in Nat /\ DOMAIN s = 1 .. Len(s) /\ Len(s) # 0
  BY LenProperties, EmptySeq
<1>2. /\ Tail(s) \in Seq(S) /\ Head(s) \in S /\ Len(Tail(s)) = Len(s) - 1
      /\ \A i \in 1 .. Len(Tail(s)) : Tail(s)[i] = s[i + 1]
  BY <1>1
<1>3. Head(s) = s[1]
  BY DEF Head
<1>4. DOMAIN Tail(s) = 1 .. Len(s) - 1
  BY <1>2, LenProperties
<1>5. \A i \in DOMAIN Tail(s) : i + 1 \in DOMAIN s
  BY <1>1, <1>4
<1>6. 1 \in DOMAIN s
  BY <1>1
<1> QED BY <1>1, <1>2, <1>3, <1>4, <1>5, <1>6

\* Removing one element of a sequence.
LEMMA Removed ==
    ASSUME NEW S, NEW s \in Seq(S), NEW i \in DOMAIN s
    PROVE  LET r == SubSeq(s, 1, i - 1) \o SubSeq(s, i + 1, Len(s))
           IN  r \in Seq(S) /\ (Len(s) = 1 => r = <<>>)
<1>1. Len(s) \in Nat /\ DOMAIN s = 1 .. Len(s)
  BY LenProperties
<1>2. /\ SubSeq(s, 1, i - 1) \in Seq(S) /\ SubSeq(s, i + 1, Len(s)) \in Seq(S)
      /\ Len(s) = 1 => Len(SubSeq(s, 1, i - 1)) = 0 /\ Len(SubSeq(s, i + 1, Len(s))) = 0
  BY <1>1
<1>3. \A p, q \in Seq(S) : p \o q \in Seq(S) /\ Len(p \o q) = Len(p) + Len(q)
  OBVIOUS
<1> QED BY <1>2, <1>3, EmptySeq

\* The sequence's invariant looks at the mailbox, the counters and the reply.
LEMMA SequenceSame ==
    ASSUME SequenceInv, UNCHANGED <<evMail, evNext, evLast, evReply>>,
           evPc = "done" => evPc' = "done", evSeal = "taken" => evSeal' = "taken"
    PROVE  SequenceInv'
<1>1. HasEnded' = HasEnded /\ SequencesContiguous' = SequencesContiguous
  BY SameMail
<1> QED BY <1>1 DEF SequenceInv

\* The fence's looks at the commands and the mailbox; a broken publisher is bound
\* by FenceComplete alone.
LEMMA FenceSame ==
    ASSUME FenceInv, UNCHANGED <<evMail, evQueue, evAccepted, evSkipped>>,
           Broken' \/ (~Broken /\ (Sending => Sending') /\ evCur' = evCur)
    PROVE  FenceInv'
<1>1. HasEnded' = HasEnded /\ InMail' = InMail
  BY SameMail
<1>2. FenceComplete'
  BY <1>1 DEF FenceInv, FenceComplete
<1>3. ASSUME ~Broken', NEW c \in evAccepted' \ evSkipped'
      PROVE  Delivered(c)'
  <2>1. Delivered(c)
    BY <1>3 DEF FenceInv
  <2> QED BY <1>1, <1>3, <2>1 DEF Delivered
<1> QED BY <1>2, <1>3 DEF FenceInv

\* The session's looks at the order of the commands too.
LEMMA SessionSame ==
    ASSUME SessionInv, UNCHANGED <<evMail, evSession, evEstablished, evAccepted, evBound, evQueue>>,
           evParked' = evParked, Sending' => Sending /\ evCur' = evCur,
           Broken' \/ (~Broken /\ Sending' = Sending)
    PROVE  SessionInv'
<1>1. HasEnded' = HasEnded
  BY SameMail
<1> QED BY <1>1 DEF SessionInv

\* A send starts.
LEMMA SendKeeps ==
    ASSUME PublisherInv, NEW kind \in {"establish", "publish"}, Send(kind)
    PROVE  PublisherInv'
<1> DEFINE c == [id |-> (CHOOSE n \in Fresh : TRUE), kind |-> kind]
<1>c. c \in Cmd
  BY FreshNumber DEF Send, Cmd
<1>u. /\ evParked' = Append(evParked, c) /\ evParked \in Seq(Cmd) /\ evGate
      /\ UNCHANGED <<evGate, evQueue, evAccepted, evSkipped, evPc, evCur, evSealed, evPoll,
                     evSeq, evFail, evMail, evHost, evSeal, evReply, evTime, evFinal>>
      /\ UNCHANGED <<evNext, evLast, evSession, evEstablished, evClock, evFin, evKind, evDone>>
  BY DEF Send, PublisherInv, PublisherType, evSeq, evTime, evFinal
<1> HIDE DEF c
<1>a. /\ evParked' \in Seq(Cmd) /\ evParked' # <<>> /\ Len(evParked') = Len(evParked) + 1
      /\ evParked = <<>> => evParked'[1] = c /\ Len(evParked') = 1
  BY <1>c, <1>u, Appended
<1>b. evBound' = evBound \/ (kind = "establish" /\ evBound' = "external")
  BY DEF Send
<1>1. PublisherType'
  BY <1>u, <1>a, <1>b DEF PublisherInv, PublisherType, Sending
<1>2. SequenceInv'
  BY Zenon, <1>u, SequenceSame DEF PublisherInv
<1>3. SealInv'
  <2>1. evPc # "ended"
    BY <1>u DEF PublisherInv, SealInv
  <2> QED BY <1>u, <2>1, SameMail DEF PublisherInv, SealInv, NoReply
<1>4. FenceInv'
  BY Zenon, <1>u, FenceSame DEF PublisherInv, Broken, Sending
<1>5. SessionInv'
  <2>1. HasEnded' = HasEnded /\ Sending' = Sending /\ Broken' = Broken
    BY Zenon, <1>u, SameMail DEF Sending, Broken
  <2>2. CASE kind = "establish"
    <3>1. evAccepted = {} /\ evParked = <<>> /\ c.kind = "establish"
      BY <2>2 DEF Send, c
    <3>2. ~Sending
      BY <3>1 DEF PublisherInv, PublisherType
    <3>3. evQueue = <<>>
      BY Zenon, <3>1, Taken DEF PublisherInv, PublisherType
    <3> QED BY <1>u, <1>a, <1>b, <2>1, <3>1, <3>2, <3>3 DEF PublisherInv, SessionInv
  <2>3. CASE kind = "publish"
    <3>1. evBound' = evBound
      BY <1>b, <2>3
    <3>2. evBound # evSession => evAccepted # {}
      BY <2>3 DEF Send
    <3> QED BY <1>u, <2>1, <3>1, <3>2 DEF PublisherInv, SessionInv
  <2> QED BY <2>2, <2>3
<1>6. FinalInv'
  BY <1>u, SameMail DEF PublisherInv, FinalInv
<1> QED BY Zenon, <1>1, <1>2, <1>3, <1>4, <1>5, <1>6 DEF PublisherInv

\* A waiting send gets its slot, or fails with the publisher gone.
LEMMA UnparkKeeps ==
    ASSUME PublisherInv, Unpark
    PROVE  PublisherInv'
<1> DEFINE c == Head(evParked)
<1>u. /\ evParked' = Tail(evParked) /\ evParked # <<>>
      /\ evParked \in Seq(Cmd) /\ evQueue \in Seq(Cmd)
      /\ UNCHANGED <<evGate, evBound, evSkipped, evPc, evCur, evSealed, evPoll, evFail, evMail,
                     evSeal, evReply>>
      /\ UNCHANGED <<evNext, evLast, evSession, evEstablished, evClock, evFin, evKind, evDone>>
  BY DEF Unpark, PublisherInv, PublisherType, evSeq, evTime, evFinal
<1>p. /\ c \in Cmd /\ evParked' \in Seq(Cmd) /\ c = evParked[1]
      /\ Len(evParked) = 1 => evParked' = <<>>
  <2>1. Len(evParked) = 1 => Len(evParked') = 0
    BY <1>u, Taken
  <2> QED BY <1>u, <2>1, Taken, EmptySeq
<1> HIDE DEF c
<1>m. HasEnded' = HasEnded /\ InMail' = InMail /\ Sending' = Sending /\ Broken' = Broken
  BY Zenon, <1>u, SameMail DEF Sending, Broken
<1>e. evPc # "ended"
  BY <1>u DEF PublisherInv, SealInv
<1>s. SequenceInv' /\ SealInv' /\ FinalInv'
  <2>1. SequenceInv'
    BY Zenon, <1>u, SequenceSame DEF PublisherInv
  <2>2. SealInv'
    BY <1>u, <1>m, <1>e DEF PublisherInv, SealInv, NoReply
  <2>3. FinalInv'
    BY Zenon, <1>u, <1>m DEF PublisherInv, FinalInv
  <2> QED BY <2>1, <2>2, <2>3
<1>1. CASE evPc = "done" /\ UNCHANGED <<evQueue, evAccepted>>
  <2>1. PublisherType'
    BY <1>1, <1>u, <1>p DEF PublisherInv, PublisherType, Sending
  <2>2. FenceInv'
    BY Zenon, <1>1, <1>u, FenceSame DEF PublisherInv, Broken
  <2>3. SessionInv'
    BY Zenon, <1>1, <1>u, <1>m DEF PublisherInv, SessionInv, Broken, Sending
  <2> QED BY Zenon, <1>s, <2>1, <2>2, <2>3 DEF PublisherInv
<1>2. CASE /\ evPc # "done" /\ evQueue' = Append(evQueue, c)
           /\ evAccepted' = evAccepted \cup {c}
  <2>a. /\ evQueue' \in Seq(Cmd) /\ evQueue' # <<>> /\ DOMAIN evQueue = 1 .. Len(evQueue)
        /\ DOMAIN evQueue' = 1 .. Len(evQueue) + 1 /\ Len(evQueue) \in Nat
        /\ \A i \in DOMAIN evQueue : evQueue'[i] = evQueue[i]
        /\ evQueue'[Len(evQueue) + 1] = c
    BY <1>2, <1>u, <1>p, Appended
  <2>b. \A i \in DOMAIN evQueue' : i \in DOMAIN evQueue \/ i = Len(evQueue) + 1
    BY <2>a
  <2>1. PublisherType'
    <3>1. \A i \in DOMAIN evQueue' : evQueue'[i] \in evAccepted'
      BY <1>2, <2>a, <2>b DEF PublisherInv, PublisherType
    <3>2. Sending' => evCur' \in Cmd /\ evCur' \in evAccepted'
      BY <1>2, <1>u, <1>m DEF PublisherInv, PublisherType
    <3> QED BY <1>2, <1>u, <1>p, <2>a, <3>1, <3>2 DEF PublisherInv, PublisherType
  <2>2. FenceInv'
    <3>1. FenceComplete'
      BY <1>2, <1>m DEF PublisherInv, SequenceInv, FenceComplete
    <3>2. ASSUME ~Broken', NEW d \in evAccepted' \ evSkipped'
          PROVE  Delivered(d)'
      <4>1. CASE d = c
        BY <4>1, <2>a DEF Delivered
      <4>2. CASE d # c
        <5>1. Delivered(d)
          BY Zenon, <4>2, <3>2, <1>2, <1>u, <1>m DEF PublisherInv, FenceInv
        <5> QED BY <5>1, <1>u, <1>m, <2>a DEF Delivered
      <4> QED BY <4>1, <4>2
    <3> QED BY Zenon, <3>1, <3>2 DEF FenceInv
  <2>3. SessionInv'
    <3>1. evAccepted' # {}
      BY <1>2
    <3>2. ASSUME evBound = "external", evSession = "none", ~Broken, ~Sending
          PROVE  evQueue'[1].kind = "establish"
      <4>1. CASE evQueue = <<>>
        <5>1. evAccepted = {} /\ c.kind = "establish"
          BY <4>1, <3>2, <1>u, <1>p DEF PublisherInv, SessionInv
        <5>2. Len(evQueue) = 0
          BY <4>1, EmptySeq
        <5> QED BY <5>1, <5>2, <2>a
      <4>2. CASE evQueue # <<>>
        <5>1. evQueue[1].kind = "establish" /\ 1 \in DOMAIN evQueue
          BY <4>2, <3>2, <1>u, Taken DEF PublisherInv, SessionInv
        <5> QED BY Zenon, <5>1, <2>a
      <4> QED BY <4>1, <4>2
    <3> QED BY <1>u, <1>m, <2>a, <3>1, <3>2 DEF PublisherInv, SessionInv
  <2> QED BY Zenon, <1>s, <2>1, <2>2, <2>3 DEF PublisherInv
<1> QED BY <1>1, <1>2 DEF Unpark, c

\* A waiting send is dropped.
LEMMA DropParkedKeeps ==
    ASSUME PublisherInv, NEW i \in DOMAIN evParked, DropParked(i)
    PROVE  PublisherInv'
<1>u. /\ evParked' = SubSeq(evParked, 1, i - 1) \o SubSeq(evParked, i + 1, Len(evParked))
      /\ evParked \in Seq(Cmd)
      /\ UNCHANGED <<evGate, evQueue, evAccepted, evBound, evSkipped, evPc, evCur, evSealed,
                     evPoll, evFail, evMail, evSeal, evReply>>
      /\ UNCHANGED <<evNext, evLast, evSession, evEstablished, evClock, evFin, evKind, evDone>>
  BY DEF DropParked, PublisherInv, PublisherType, evSeq, evTime, evFinal
<1>p. evParked' \in Seq(Cmd) /\ (Len(evParked) = 1 => evParked' = <<>>) /\ evParked # <<>>
  BY <1>u, Removed, EmptySeq, LenProperties
<1>m. HasEnded' = HasEnded /\ Sending' = Sending /\ Broken' = Broken
  BY Zenon, <1>u, SameMail DEF Sending, Broken
<1>1. PublisherType'
  BY <1>u, <1>p DEF PublisherInv, PublisherType, Sending
<1>2. SequenceInv'
  BY Zenon, <1>u, SequenceSame DEF PublisherInv
<1>3. SealInv'
  BY Zenon, <1>u, <1>p, <1>m DEF PublisherInv, SealInv, NoReply
<1>4. FenceInv'
  BY Zenon, <1>u, FenceSame DEF PublisherInv, Broken, Sending
<1>5. SessionInv'
  BY Zenon, <1>u, <1>p, <1>m DEF PublisherInv, SessionInv
<1>6. FinalInv'
  BY Zenon, <1>u, <1>m DEF PublisherInv, FinalInv
<1> QED BY Zenon, <1>1, <1>2, <1>3, <1>4, <1>5, <1>6 DEF PublisherInv

\* The publisher takes Seal, loses it, or ends with both channels closed.
LEMMA SealKeeps ==
    ASSUME PublisherInv, TakeSeal \/ SealLost \/ BothClosed
    PROVE  PublisherInv'
<1>u. /\ UNCHANGED <<evParked, evQueue, evAccepted, evBound, evSkipped, evCur, evPoll, evFail,
                     evMail, evReply>>
      /\ UNCHANGED <<evNext, evLast, evSession, evEstablished, evClock, evFin, evKind, evDone>>
      /\ evGate' \in {evGate, FALSE} /\ evPc # "done"
  BY Zenon DEF TakeSeal, SealLost, BothClosed, PublisherInv, PublisherType, evSeq, evTime, evFinal, evEnv
<1>m. HasEnded' = HasEnded
  BY <1>u, SameMail
<1>p. \/ evPc' = evPc /\ evPc \in {"send", "select"}
      \/ evPc = "select" /\ evPc' \in {"fence", "done"}
      \/ evPc = "sticky" /\ evPc' \in {"discard", "done"}
  BY DEF TakeSeal, SealLost, BothClosed
<1>q. evSealed' = evSealed \/ (evSealed' = TRUE /\ evPc' = "send" /\ evSeal' = "taken")
  BY DEF TakeSeal, SealLost, BothClosed
<1>r. /\ evSeal' = evSeal \/ (evSeal = "queued" /\ evSeal' = "taken")
      /\ evPc' \in {"fence", "discard"} => evSeal' = "taken" /\ ~evGate'
  BY <1>p DEF TakeSeal, SealLost, BothClosed
<1>b. Sending' = Sending /\ (Broken' \/ ~Broken)
  BY <1>p DEF Sending, Broken
<1>1. PublisherType'
  <2>1. evGate' \in BOOLEAN /\ evSealed' \in BOOLEAN
    BY Zenon, <1>u, <1>q DEF PublisherInv, PublisherType
  <2>2. evPc' \in {"select", "send", "sticky", "fence", "drainSend", "discard", "ended", "done"}
    BY <1>p
  <2> QED BY Zenon, <1>u, <1>b, <2>1, <2>2 DEF PublisherInv, PublisherType
<1>2. SequenceInv'
  BY <1>u, <1>r, SequenceSame DEF PublisherInv
<1>3. SealInv'
  BY <1>u, <1>m, <1>p, <1>q, <1>r DEF PublisherInv, SealInv, NoReply
<1>4. FenceInv'
  BY <1>u, <1>b, FenceSame DEF PublisherInv
<1>5. SessionInv'
  BY Zenon, <1>u, <1>b, SessionSame DEF PublisherInv
<1>6. FinalInv'
  <2>1. evPoll /\ evClock = 2 => FALSE
    <3>1. TakeSeal => ~evPoll
      BY Zenon DEF TakeSeal
    <3>2. SealLost \/ BothClosed => evPc # "send"
      BY DEF SealLost, BothClosed
    <3> QED BY Zenon, <3>1, <3>2 DEF PublisherInv, FinalInv
  <2> QED BY <1>u, <1>m, <1>p, <1>r, <2>1 DEF PublisherInv, FinalInv
<1> QED BY Zenon, <1>1, <1>2, <1>3, <1>4, <1>5, <1>6 DEF PublisherInv

\* A command is taken to be sent, or an establish command is ignored.
LEMMA TakeCommandKeeps ==
    ASSUME PublisherInv, TakeCommand
    PROVE  PublisherInv'
<1> DEFINE c == Head(evQueue)
<1>u. /\ evQueue' = Tail(evQueue) /\ evQueue # <<>> /\ evQueue \in Seq(Cmd)
      /\ UNCHANGED <<evGate, evParked, evAccepted, evBound, evSealed, evPoll, evFail, evMail,
                     evSeal, evReply>>
      /\ UNCHANGED <<evNext, evLast, evSession, evEstablished, evClock, evFin, evKind, evDone>>
      /\ evPc \in {"select", "fence"}
  BY DEF TakeCommand, PublisherInv, PublisherType, evSeq, evTime, evFinal
<1>p. IF Ignored(c)
      THEN evSkipped' = evSkipped \cup {c} /\ UNCHANGED <<evPc, evCur>>
      ELSE /\ evCur' = c /\ evPc' = (IF evPc = "select" THEN "send" ELSE "drainSend")
           /\ UNCHANGED evSkipped
  BY Zenon DEF TakeCommand
<1>t. /\ evQueue' \in Seq(Cmd) /\ c \in Cmd /\ c = evQueue[1] /\ 1 \in DOMAIN evQueue
      /\ DOMAIN evQueue = 1 .. Len(evQueue) /\ DOMAIN evQueue' = 1 .. Len(evQueue) - 1
      /\ Len(evQueue) \in Nat
      /\ \A i \in DOMAIN evQueue' : i + 1 \in DOMAIN evQueue /\ evQueue'[i] = evQueue[i + 1]
  BY Zenon, <1>u, Taken
<1>a. c \in evAccepted
  BY Zenon, <1>t DEF PublisherInv, PublisherType
<1>i. Ignored(c) <=> c.kind = "establish" /\ (evEstablished \/ evNext # 1)
  BY DEF Ignored
<1> HIDE DEF c
<1>m. HasEnded' = HasEnded /\ InMail' = InMail /\ ~HasEnded
  BY Zenon, <1>u, SameMail DEF PublisherInv, SequenceInv
<1>b. /\ ~Sending /\ ~Broken /\ ~Broken' /\ (Sending' <=> ~Ignored(c))
      /\ evPc' = "drainSend" => evPc = "fence"
      /\ evPc' \in {"fence", "drainSend"} => evPc = "fence"
  BY Zenon, <1>u, <1>p DEF Sending, Broken
<1>k. evPc' \in {"select", "fence", "send", "drainSend"}
  BY Zenon, <1>u, <1>p
<1>1. PublisherType'
  <2>1. \A i \in DOMAIN evQueue' : evQueue'[i] \in evAccepted'
    BY Zenon, <1>u, <1>t DEF PublisherInv, PublisherType
  <2>2. Sending' => evCur' \in Cmd /\ evCur' \in evAccepted'
    BY Zenon, <1>u, <1>p, <1>t, <1>a, <1>b
  <2>3. evCur' \in Cmd \cup {NoCmd}
    BY Zenon, <1>p, <1>t DEF PublisherInv, PublisherType
  <2> QED BY <1>u, <1>t, <1>k, <2>1, <2>2, <2>3 DEF PublisherInv, PublisherType
<1>2. SequenceInv'
  BY Zenon, <1>u, SequenceSame DEF PublisherInv
<1>3. SealInv'
  BY <1>u, <1>m, <1>b, <1>k DEF PublisherInv, SealInv, NoReply
<1>4. FenceInv'
  <2>1. FenceComplete'
    BY Zenon, <1>m DEF FenceComplete
  <2>2. ASSUME NEW d \in evAccepted' \ evSkipped'
        PROVE  Delivered(d)'
    <3>1. d \in evAccepted \ evSkipped
      BY Zenon, <1>u, <1>p
    <3>2. Delivered(d)
      BY Zenon, <3>1, <1>b DEF PublisherInv, FenceInv
    <3>3. CASE d = c
      <4>1. ~Ignored(c)
        BY <3>3, <1>p
      <4> QED BY <3>3, <4>1, <1>b, <1>p DEF Delivered
    <3>4. CASE d # c /\ d.id \in InMail
      BY <3>4, <1>m DEF Delivered
    <3>5. ASSUME d # c, NEW i \in DOMAIN evQueue, evQueue[i] = d
          PROVE  Delivered(d)'
      <4>1. i # 1 /\ i - 1 \in DOMAIN evQueue'
        BY <3>5, <1>t
      <4>2. evQueue'[i - 1] = d
        BY <3>5, <4>1, <1>t
      <4> QED BY Zenon, <4>1, <4>2 DEF Delivered
    <3> QED BY Zenon, <3>2, <3>3, <3>4, <3>5, <1>b DEF Delivered
  <2> QED BY Zenon, <2>1, <2>2 DEF FenceInv
<1>5. SessionInv'
  <2>1. evMail = <<>> => evNext = 1 /\ ~evEstablished
    <3>1. evMail = <<>> => Len(evMail) = 0
      BY Zenon, EmptySeq
    <3> QED BY <1>m, <3>1 DEF PublisherInv, SequenceInv, SessionInv
  <2>2. evMail # <<>> => evNext # 1
    <3>1. evMail # <<>> => Len(evMail) \in Nat /\ Len(evMail) # 0
      BY EmptySeq DEF PublisherInv, PublisherType
    <3> QED BY <1>m, <3>1 DEF PublisherInv, SequenceInv
  <2>3. Sending' /\ evCur'.kind = "establish" => evMail' = <<>>
    BY Zenon, <1>u, <1>b, <1>p, <1>i, <2>2
  <2>4. ASSUME evBound = "external", evSession = "none"
        PROVE  Sending' /\ evCur'.kind = "establish" /\ evAccepted' # {}
    <3>1. evMail = <<>> /\ c.kind = "establish"
      BY <2>4, <1>b, <1>u, <1>t DEF PublisherInv, SessionInv
    <3>2. ~Ignored(c)
      BY Zenon, <3>1, <2>1, <1>i
    <3> QED BY Zenon, <3>1, <3>2, <1>b, <1>p, <1>a, <1>u
  <2> QED BY Zenon, <1>u, <1>m, <2>3, <2>4 DEF PublisherInv, SessionInv
<1>6. FinalInv'
  BY Zenon, <1>u, <1>m DEF PublisherInv, FinalInv
<1> QED BY Zenon, <1>1, <1>2, <1>3, <1>4, <1>5, <1>6 DEF PublisherInv

\* The deadline of a send is read.
LEMMA BeginPollKeeps ==
    ASSUME PublisherInv, BeginPoll
    PROVE  PublisherInv'
<1>u. /\ UNCHANGED <<evGate, evParked, evQueue, evAccepted, evBound, evSkipped, evPc, evCur,
                     evSealed, evFail, evMail, evSeal, evReply>>
      /\ UNCHANGED <<evNext, evLast, evSession, evEstablished, evClock, evFin, evKind, evDone>>
      /\ evPoll' = TRUE /\ evPc \in {"send", "drainSend", "ended"} /\ ~Late
  BY DEF BeginPoll, evSeq, evTime, evFinal, evEnv
<1>m. HasEnded' = HasEnded /\ Sending' = Sending /\ Broken' = Broken
  BY Zenon, <1>u, SameMail DEF Sending, Broken
<1>1. PublisherType'
  BY ZenonT(30), <1>u, <1>m DEF PublisherInv, PublisherType
<1>2. SequenceInv'
  BY Zenon, <1>u, SequenceSame DEF PublisherInv
<1>3. SealInv'
  BY Zenon, <1>u, <1>m DEF PublisherInv, SealInv, NoReply
<1>4. FenceInv'
  BY Zenon, <1>u, <1>m, FenceSame DEF PublisherInv, Broken
<1>5. SessionInv'
  BY Zenon, <1>u, <1>m DEF PublisherInv, SessionInv
<1>6. FinalInv'
  <2>1. evClock = 2 => evPc = "send" /\ ~evSealed
    BY <1>u DEF Late
  <2> QED BY Zenon, <1>u, <1>m, <2>1 DEF PublisherInv, FinalInv
<1> QED BY Zenon, <1>1, <1>2, <1>3, <1>4, <1>5, <1>6 DEF PublisherInv

-----------------------------------------------------------------------------
\* Where a send that ended leads, and that a sealed one closes the gate.
LEMMA AfterSendSeals ==
    ASSUME PublisherInv, Sending, NEW fail, evPc' = AfterSend(fail), evSeal' = evSeal,
           evGate' = IF evSealed THEN FALSE ELSE evGate
    PROVE  /\ evPc' \in {"select", "sticky", "fence", "discard"}
           /\ evPc' \in {"fence", "discard"} => evSeal' = "taken" /\ ~evGate'
           /\ fail # "none" => evPc' \in {"sticky", "discard"}
           /\ evGate' \in BOOLEAN
BY Zenon DEF AfterSend, Sending, PublisherInv, SealInv, PublisherType

\* A send that fails or expires.
LEMMA FailKeeps ==
    ASSUME PublisherInv, Sending, evFail' \in {"QueueClosed", "LimitExceeded", "DeadlineExceeded"},
           evPc' = AfterSend(evFail'), evCur' = NoCmd, evSealed' = FALSE, evPoll' = FALSE,
           evGate' = IF evSealed THEN FALSE ELSE evGate,
           UNCHANGED <<evParked, evQueue, evAccepted, evBound, evSkipped, evMail, evSeal, evReply>>,
           UNCHANGED <<evNext, evLast, evSession, evEstablished, evClock, evFin, evKind, evDone>>
    PROVE  PublisherInv'
<1>p. /\ evPc' \in {"sticky", "discard"} /\ evGate' \in BOOLEAN
      /\ evPc' = "discard" => evSeal' = "taken" /\ ~evGate'
  BY Zenon, AfterSendSeals
<1>m. HasEnded' = HasEnded /\ ~Sending' /\ Broken' /\ evPc # "done" /\ ~Broken
  BY <1>p, SameMail DEF Sending, Broken
<1>1. PublisherType'
  BY Zenon, <1>p, <1>m DEF PublisherInv, PublisherType
<1>2. SequenceInv'
  BY Zenon, <1>m, SequenceSame DEF PublisherInv
<1>3. SealInv'
  BY Zenon, <1>p, <1>m DEF PublisherInv, SealInv, NoReply
<1>4. FenceInv'
  BY Zenon, <1>m, FenceSame DEF PublisherInv
<1>5. SessionInv'
  BY Zenon, <1>m, SessionSame DEF PublisherInv
<1>6. FinalInv'
  BY Zenon, <1>m DEF PublisherInv, FinalInv
<1> QED BY Zenon, <1>1, <1>2, <1>3, <1>4, <1>5, <1>6 DEF PublisherInv

\* The mailbox with one more event.
LEMMA OneMore ==
    ASSUME evMail \in Seq(Event), NEW e \in Event, evMail' = Append(evMail, e)
    PROVE  /\ evMail' \in Seq(Event) /\ evMail' # <<>> /\ Len(evMail') = Len(evMail) + 1
           /\ Len(evMail) \in Nat /\ evMail'[Len(evMail')] = e
           /\ \A i \in DOMAIN evMail' : \/ i \in DOMAIN evMail /\ evMail'[i] = evMail[i]
                                        \/ i = Len(evMail) + 1 /\ evMail'[i] = e
           /\ HasEnded' <=> HasEnded \/ e.kind = "ended"
           /\ InMail' = InMail \cup {e.id}
<1>1. /\ evMail' \in Seq(Event) /\ evMail' # <<>> /\ Len(evMail') = Len(evMail) + 1
      /\ Len(evMail) \in Nat /\ evMail'[Len(evMail) + 1] = e
      /\ DOMAIN evMail = 1 .. Len(evMail) /\ DOMAIN evMail' = 1 .. Len(evMail) + 1
      /\ \A i \in DOMAIN evMail : evMail'[i] = evMail[i]
  BY Appended
<1>2. \A i \in DOMAIN evMail' : \/ i \in DOMAIN evMail /\ evMail'[i] = evMail[i]
                                \/ i = Len(evMail) + 1 /\ evMail'[i] = e
  BY <1>1
<1>3. \A i \in DOMAIN evMail : i \in DOMAIN evMail'
  BY <1>1
<1>4. Len(evMail) + 1 \in DOMAIN evMail'
  BY <1>1
<1>5. HasEnded' <=> HasEnded \/ e.kind = "ended"
  BY Zenon, <1>1, <1>2, <1>3, <1>4 DEF HasEnded
<1>6. InMail' = InMail \cup {e.id}
  BY <1>1, <1>2, <1>3, <1>4 DEF InMail
<1> QED BY Zenon, <1>1, <1>2, <1>5, <1>6

\* A send that the mailbox took.
LEMMA CommitKeeps ==
    ASSUME PublisherInv, Sending, Commit(evCur), evFail' = evFail, evPc' = AfterSend(evFail),
           evCur' = NoCmd, evSealed' = FALSE, evPoll' = FALSE,
           evGate' = IF evSealed THEN FALSE ELSE evGate,
           UNCHANGED <<evParked, evQueue, evAccepted, evBound, evSkipped, evSeal, evReply>>,
           UNCHANGED <<evClock, evFin, evKind, evDone>>
    PROVE  PublisherInv'
<1> DEFINE session == ensure_session(IF evCur.kind = "establish" THEN "external" ELSE "none")
           e == EventOf(evCur, session)
<1>c. /\ evCur \in Cmd /\ evCur \in evAccepted /\ evMail \in Seq(Event) /\ evNext \in Nat
      /\ evSession \in {"none", "external", "synthetic"}
      /\ evPc # "done" /\ ~HasEnded /\ evNext = Len(evMail) + 1
  BY Zenon DEF PublisherInv, PublisherType, SequenceInv, Sending
<1>k. /\ evMail' = Append(evMail, e) /\ evSession' = session
      /\ evEstablished' = (evEstablished \/ evCur.kind = "establish")
      /\ evLast' = evNext /\ evNext' = evNext + 1
  BY Zenon DEF Commit
<1>n. /\ session \in {"external", "synthetic"}
      /\ evCur.kind = "establish" /\ evSession = "none" => session = "external"
      /\ evCur.kind # "establish" /\ evSession # "none" => session = evSession
      /\ evCur.kind # "establish" /\ evSession = "none" => session = "synthetic"
      /\ evSession = "external" => session = "external"
  BY Zenon, <1>c DEF ensure_session
<1>e. /\ e \in Event /\ e.kind # "ended" /\ e.id = evCur.id /\ e.seq = evNext
      /\ e.session = session
  <2>1. evCur.kind \in {"establish", "publish"} /\ evCur.id \in Nat
    BY Zenon, <1>c DEF Cmd
  <2> HIDE DEF session
  <2> QED BY Zenon, <1>c, <1>n, <2>1 DEF Event, EventOf
<1> HIDE DEF session, e
<1>o. /\ evMail' \in Seq(Event) /\ evMail' # <<>> /\ Len(evMail') = Len(evMail) + 1
      /\ Len(evMail) \in Nat /\ evMail'[Len(evMail')] = e
      /\ \A i \in DOMAIN evMail' : \/ i \in DOMAIN evMail /\ evMail'[i] = evMail[i]
                                   \/ i = Len(evMail) + 1 /\ evMail'[i] = e
      /\ ~HasEnded' /\ InMail' = InMail \cup {e.id}
  BY Zenon, <1>c, <1>k, <1>e, OneMore
<1>p. /\ evPc' \in {"select", "sticky", "fence", "discard"} /\ evGate' \in BOOLEAN
      /\ evPc' \in {"fence", "discard"} => evSeal' = "taken" /\ ~evGate'
  BY Zenon, AfterSendSeals
<1>b. ~Sending' /\ ~Broken /\ evPc' # "ended" /\ evPc' # "done"
  BY Zenon, <1>p DEF Sending, Broken
<1>1. PublisherType'
  <2>1. /\ evSession' \in {"none", "external", "synthetic"} /\ evEstablished' \in BOOLEAN
        /\ evNext' \in Nat /\ evLast' \in Nat
    BY <1>c, <1>k, <1>n DEF PublisherInv, PublisherType
  <2> QED BY Zenon, <1>o, <1>p, <1>b, <2>1 DEF PublisherInv, PublisherType
<1>2. SequenceInv'
  <2>1. SequencesContiguous'
    BY Zenon, <1>c, <1>e, <1>o DEF PublisherInv, SequenceInv, SequencesContiguous
  <2> QED BY Zenon, <1>c, <1>k, <1>o, <2>1 DEF SequenceInv
<1>3. SealInv'
  <2>1. evReply = NoReply
    BY Zenon, <1>c DEF PublisherInv, SealInv
  <2> QED BY Zenon, <1>p, <1>b, <2>1 DEF SealInv, NoReply
<1>4. FenceInv'
  <2>1. FenceComplete'
    BY Zenon, <1>o DEF FenceComplete
  <2>2. ASSUME NEW d \in evAccepted' \ evSkipped'
        PROVE  Delivered(d)'
    <3>1. Delivered(d)
      BY Zenon, <1>b DEF PublisherInv, FenceInv
    <3> QED BY Zenon, <3>1, <1>e, <1>o DEF Delivered
  <2> QED BY Zenon, <2>1, <2>2 DEF FenceInv
<1>5. SessionInv'
  <2>0. evMail # <<>> => evCur.kind # "establish" /\ evSession # "none"
    BY Zenon DEF PublisherInv, SessionInv
  <2>1. \A i \in DOMAIN evMail' : evMail'[i].session = evSession'
    <3> TAKE i \in DOMAIN evMail'
    <3>1. CASE i \in DOMAIN evMail /\ evMail'[i] = evMail[i]
      <4>1. evMail # <<>>
        BY <3>1, EmptySeq, LenProperties, <1>c
      <4> QED BY Zenon, <3>1, <4>1, <2>0, <1>k, <1>n DEF PublisherInv, SessionInv
    <3>2. CASE evMail'[i] = e
      BY Zenon, <3>2, <1>e, <1>k
    <3> QED BY <3>1, <3>2, <1>o
  <2>2. evSession' # "external" => evBound = "none"
    <3>1. CASE evMail = <<>>
      <4>1. evSession' # "external" => evSession = "none" /\ evCur.kind # "establish"
        BY Zenon, <3>1, <1>c, <1>k, <1>n DEF PublisherInv, SessionInv
      <4> QED BY Zenon, <4>1, <1>b DEF PublisherInv, SessionInv, PublisherType
    <3>2. CASE evMail # <<>>
      BY Zenon, <3>2, <2>0, <1>c, <1>k, <1>n DEF PublisherInv, SessionInv
    <3> QED BY Zenon, <3>1, <3>2
  <2> QED BY Zenon, <1>c, <1>b, <1>o, <1>k, <1>n, <2>1, <2>2 DEF SessionInv
<1>6. FinalInv'
  BY Zenon, <1>c, <1>o DEF PublisherInv, FinalInv
<1> QED BY Zenon, <1>1, <1>2, <1>3, <1>4, <1>5, <1>6 DEF PublisherInv

\* A send ends.
LEMMA SendEndKeeps ==
    ASSUME PublisherInv, EndPoll \/ SendTimeout
    PROVE  PublisherInv'
<1>u. /\ UNCHANGED <<evParked, evQueue, evAccepted, evBound, evSkipped, evSeal, evReply>>
      /\ UNCHANGED <<evClock, evFin, evKind, evDone>>
      /\ Sending /\ evCur' = NoCmd /\ evSealed' = FALSE /\ evPoll' = FALSE
      /\ evGate' = IF evSealed THEN FALSE ELSE evGate
  BY Zenon DEF EndPoll, SendTimeout, Sending, evTime, evFinal, PublisherInv, PublisherType
<1>1. CASE SendTimeout
  <2>1. /\ evFail' = "DeadlineExceeded" /\ evPc' = AfterSend(evFail')
        /\ UNCHANGED <<evMail, evNext, evLast, evSession, evEstablished>>
    BY <1>1 DEF SendTimeout, evSeq
  <2> QED BY Zenon, <1>u, <2>1, FailKeeps
<1>2. ASSUME NEW r \in SendResult, EndPoll, evFail' = IF r = "Ok" THEN evFail ELSE r,
             IF r = "Ok" THEN Commit(evCur) ELSE UNCHANGED <<evMail, evSeq>>,
             evPc' = AfterSend(evFail')
      PROVE  PublisherInv'
  <2>1. CASE r = "Ok"
    BY Zenon, <1>u, <1>2, <2>1, CommitKeeps
  <2>2. CASE r # "Ok"
    <3>1. r \in {"QueueClosed", "LimitExceeded"}
      BY <1>2, <2>2 DEF SendResult
    <3>2. UNCHANGED <<evMail, evNext, evLast, evSession, evEstablished>>
      BY <1>2, <2>2 DEF evSeq
    <3> QED BY Zenon, <1>u, <1>2, <2>2, <3>1, <3>2, FailKeeps
  <2> QED BY Zenon, <2>1, <2>2
<1> QED BY Zenon, <1>1, <1>2 DEF EndPoll

\* The fence ends, or its backlog is discarded after a failure.
LEMMA FenceEndKeeps ==
    ASSUME PublisherInv, FenceEnd
    PROVE  PublisherInv'
<1>u. /\ UNCHANGED <<evGate, evParked, evQueue, evAccepted, evBound, evSkipped, evCur, evSealed,
                     evPoll, evMail, evSeal, evReply>>
      /\ UNCHANGED <<evNext, evLast, evSession, evEstablished, evClock, evFin, evKind, evDone>>
      /\ evPc = "fence"
      /\ \/ evFail' = "DeadlineExceeded" /\ evPc' = "discard"
         \/ evFail' = evFail /\ evPc' = "ended" /\ evQueue = <<>> /\ evParked = <<>>
  BY Zenon DEF FenceEnd, Disconnected, evSeq, evTime, evFinal, evEnv
<1>m. HasEnded' = HasEnded /\ ~Sending' /\ ~Sending /\ ~Broken /\ Sending' = Sending
  BY <1>u, SameMail DEF Sending, Broken
<1>1. PublisherType'
  BY ZenonT(30), <1>u, <1>m DEF PublisherInv, PublisherType
<1>2. SequenceInv'
  BY Zenon, <1>u, SequenceSame DEF PublisherInv
<1>3. SealInv'
  BY Zenon, <1>u, <1>m DEF PublisherInv, SealInv, NoReply
<1>4. FenceInv'
  BY Zenon, <1>u, <1>m, FenceSame DEF PublisherInv
<1>5. SessionInv'
  BY Zenon, <1>u, <1>m, SessionSame DEF PublisherInv
<1>6. FinalInv'
  BY Zenon, <1>u, <1>m DEF PublisherInv, FinalInv
<1> QED BY Zenon, <1>1, <1>2, <1>3, <1>4, <1>5, <1>6 DEF PublisherInv

\* After a failure a command is discarded, or the sticky failure is replied.
LEMMA DiscardKeeps ==
    ASSUME PublisherInv, Discard
    PROVE  PublisherInv'
<1>u. /\ UNCHANGED <<evGate, evParked, evAccepted, evBound, evSkipped, evCur, evSealed, evPoll,
                     evFail, evMail, evSeal>>
      /\ UNCHANGED <<evNext, evLast, evSession, evEstablished, evClock, evFin, evKind, evDone>>
      /\ evPc = "discard" /\ evQueue \in Seq(Cmd)
      /\ \/ evQueue # <<>> /\ evQueue' = Tail(evQueue) /\ evPc' = evPc /\ evReply' = evReply
         \/ /\ evQueue' = evQueue /\ evPc' = "done"
            /\ evReply' = [delivery |-> evFail, last |-> evLast]
  BY Zenon DEF Discard, evSeq, evTime, evFinal, PublisherInv, PublisherType
<1>m. HasEnded' = HasEnded /\ ~HasEnded /\ ~Sending' /\ Broken' /\ InMail' = InMail
  BY Zenon, <1>u, SameMail DEF Sending, Broken, PublisherInv, SequenceInv
<1>1. PublisherType'
  <2>0. evFail \in {"none", "QueueClosed", "LimitExceeded", "DeadlineExceeded"} /\ evLast \in Nat
        /\ evReply \in Reply
    BY Zenon DEF PublisherInv, PublisherType
  <2>1. evReply' \in Reply
    BY <1>u, <2>0 DEF Reply
  <2>2. evQueue' \in Seq(Cmd) /\ \A i \in DOMAIN evQueue' : evQueue'[i] \in evAccepted
    <3>1. \A i \in DOMAIN evQueue : evQueue[i] \in evAccepted
      BY Zenon DEF PublisherInv, PublisherType
    <3>2. CASE evQueue # <<>> /\ evQueue' = Tail(evQueue)
      BY ZenonT(30), <1>u, <3>1, <3>2, Taken
    <3> QED BY Zenon, <1>u, <3>1, <3>2
  <2> QED BY ZenonT(30), <1>u, <1>m, <2>1, <2>2 DEF PublisherInv, PublisherType
<1>2. SequenceInv'
  BY Zenon, <1>u, <1>m, SameMail DEF PublisherInv, SequenceInv
<1>3. SealInv'
  <2>1. evReply'.delivery # "Published"
    BY <1>u, <1>m DEF PublisherInv, PublisherType, SealInv, Reply
  <2> QED BY Zenon, <1>u, <2>1 DEF PublisherInv, SealInv
<1>4. FenceInv'
  BY Zenon, <1>m DEF FenceInv, FenceComplete
<1>5. SessionInv'
  BY Zenon, <1>u, <1>m DEF PublisherInv, SessionInv
<1>6. FinalInv'
  BY Zenon, <1>u, <1>m DEF PublisherInv, FinalInv
<1> QED BY Zenon, <1>1, <1>2, <1>3, <1>4, <1>5, <1>6 DEF PublisherInv

\* Ended goes out, or its send fails; either way the publisher replies.
LEMMA FinishSealKeeps ==
    ASSUME PublisherInv, FinishSeal
    PROVE  PublisherInv'
<1>u. /\ UNCHANGED <<evGate, evParked, evQueue, evAccepted, evBound, evSkipped, evCur, evSealed,
                     evFail, evSeal>>
      /\ UNCHANGED <<evNext, evEstablished, evClock, evFin, evKind, evDone>>
      /\ evPc = "ended" /\ evPc' = "done" /\ evPoll' = FALSE
  BY Zenon DEF FinishSeal, evTime, evFinal, evEnv
<1>b. ~Sending' /\ ~Sending /\ ~Broken /\ Broken' /\ ~HasEnded /\ evSeal = "taken"
      /\ evQueue = <<>> /\ evNext = Len(evMail) + 1 /\ evLast = Len(evMail)
  BY Zenon, <1>u DEF Sending, Broken, PublisherInv, SequenceInv, SealInv
<1>1. ASSUME NEW d \in {"QueueClosed", "LimitExceeded", "DeadlineExceeded"},
             evReply' = [delivery |-> d, last |-> evLast],
             UNCHANGED <<evMail, evSession, evLast>>
      PROVE  PublisherInv'
  <2>m. HasEnded' = HasEnded
    BY Zenon, <1>1, SameMail
  <2>1. PublisherType'
    <3>1. evReply' \in Reply
      BY <1>1 DEF Reply, PublisherInv, PublisherType
    <3> QED BY Zenon, <1>1, <1>u, <1>b, <3>1 DEF PublisherInv, PublisherType
  <2>2. SequenceInv'
    BY <1>1, <1>u, <1>b, <2>m, SameMail DEF PublisherInv, SequenceInv
  <2>3. SealInv'
    BY Zenon, <1>1, <1>u, <1>b DEF PublisherInv, SealInv
  <2>4. FenceInv'
    BY Zenon, <1>b, <2>m DEF FenceInv, FenceComplete
  <2>5. SessionInv'
    BY Zenon, <1>1, <1>u, <1>b, SessionSame DEF PublisherInv, SealInv
  <2>6. FinalInv'
    BY Zenon, <1>1, <1>u, <1>b, <2>m DEF PublisherInv, FinalInv
  <2> QED BY Zenon, <2>1, <2>2, <2>3, <2>4, <2>5, <2>6 DEF PublisherInv
<1>2. ASSUME evPoll,
             evMail' = Append(evMail, [seq |-> evNext, kind |-> "ended", id |-> 0,
                                       session |-> ensure_session(evBound)]),
             evSession' = ensure_session(evBound), evLast' = evNext,
             evReply' = [delivery |-> "Published", last |-> evNext]
      PROVE  PublisherInv'
  <2> DEFINE session == ensure_session(evBound)
             e == [seq |-> evNext, kind |-> "ended", id |-> 0, session |-> session]
  <2>c. /\ evMail \in Seq(Event) /\ evNext \in Nat /\ evBound \in {"none", "external"}
        /\ evSession \in {"none", "external", "synthetic"}
    BY Zenon DEF PublisherInv, PublisherType
  <2>n. /\ session \in {"external", "synthetic"}
        /\ evSession = "external" => session = "external"
        /\ evSession = "synthetic" /\ evBound = "none" => session = "synthetic"
    BY Zenon, <2>c DEF ensure_session
  <2> HIDE DEF session
  <2>e. e \in Event
    BY Zenon, <2>c, <2>n DEF Event
  <2>k. evMail' = Append(evMail, e) /\ evSession' = session
    BY Zenon, <1>2 DEF session
  <2>f. e.kind = "ended" /\ e.seq = evNext /\ e.session = session
    BY Zenon
  <2> HIDE DEF e
  <2>o. /\ evMail' \in Seq(Event) /\ evMail' # <<>> /\ Len(evMail') = Len(evMail) + 1
        /\ Len(evMail) \in Nat /\ evMail'[Len(evMail')] = e
        /\ \A i \in DOMAIN evMail' : \/ i \in DOMAIN evMail /\ evMail'[i] = evMail[i]
                                     \/ i = Len(evMail) + 1 /\ evMail'[i] = e
        /\ HasEnded' /\ InMail \subseteq InMail'
    BY Zenon, <2>c, <2>e, <2>f, <2>k, OneMore
  <2>1. PublisherType'
    <3>1. evReply' \in Reply
      BY <1>2, <2>c DEF Reply
    <3>2. evSession' \in {"none", "external", "synthetic"}
      BY Zenon, <2>k, <2>n
    <3> QED BY Zenon, <1>2, <1>u, <1>b, <2>c, <2>o, <3>1, <3>2 DEF PublisherInv, PublisherType
  <2>2. SequenceInv'
    <3>1. SequencesContiguous'
      BY Zenon, <1>b, <2>f, <2>o DEF PublisherInv, SequenceInv, SequencesContiguous
    <3> QED BY Zenon, <1>2, <1>u, <1>b, <2>f, <2>o, <3>1 DEF SequenceInv
  <2>3. SealInv'
    BY Zenon, <1>2, <1>u, <1>b, <2>o DEF PublisherInv, SealInv
  <2>4. FenceInv'
    <3>1. \A c \in evAccepted \ evSkipped : c.id \in InMail
      <4>1. DOMAIN evQueue = {}
        <5>1. Len(evQueue) = 0
          BY Zenon, <1>b, EmptySeq
        <5> QED BY <5>1, LenProperties DEF PublisherInv, PublisherType
      <4> QED BY Zenon, <4>1, <1>b DEF PublisherInv, FenceInv, Delivered
    <3> QED BY Zenon, <1>u, <1>b, <2>f, <2>o, <3>1 DEF FenceInv, FenceComplete
  <2>5. SessionInv'
    <3>1. \A i \in DOMAIN evMail' : evMail'[i].session = evSession'
      <4> TAKE i \in DOMAIN evMail'
      <4>1. CASE i \in DOMAIN evMail /\ evMail'[i] = evMail[i]
        <5>1. evMail # <<>>
          BY <4>1, EmptySeq, LenProperties, <2>c
        <5>2. session = evSession
          BY <5>1, <1>b, <2>c, <2>n DEF PublisherInv, SessionInv
        <5> QED BY Zenon, <4>1, <5>2, <2>k DEF PublisherInv, SessionInv
      <4>2. CASE evMail'[i] = e
        BY Zenon, <4>2, <2>f, <2>k
      <4> QED BY Zenon, <4>1, <4>2, <2>o
    <3> QED BY Zenon, <1>b, <2>k, <2>n, <2>o, <3>1 DEF SessionInv
  <2>6. FinalInv'
    <3>1. evFin \notin {"report", "done"}
      BY <1>2, <1>u DEF PublisherInv, FinalInv
    <3> QED BY Zenon, <1>u, <3>1 DEF PublisherInv, FinalInv
  <2> QED BY Zenon, <2>1, <2>2, <2>3, <2>4, <2>5, <2>6 DEF PublisherInv
<1>3. ASSUME evPoll, NEW r \in SendResult, r # "Ok"
      PROVE  r \in {"QueueClosed", "LimitExceeded", "DeadlineExceeded"}
  BY Zenon, <1>3 DEF SendResult
<1> QED BY Zenon, <1>1, <1>2, <1>3 DEF FinishSeal

\* The publisher's task is aborted.
LEMMA AbortKeeps ==
    ASSUME PublisherInv, AbortPublisher
    PROVE  PublisherInv'
<1>u. /\ UNCHANGED <<evGate, evParked, evQueue, evAccepted, evBound, evSkipped, evCur, evSealed,
                     evPoll, evFail, evMail, evSeal, evReply>>
      /\ UNCHANGED <<evNext, evLast, evSession, evEstablished, evClock, evFin, evKind, evDone>>
      /\ evPc # "done" /\ evPc' = "done" /\ ~evPoll
  BY Zenon DEF AbortPublisher, evSeq, evTime, evFinal, evEnv
<1>m. HasEnded' = HasEnded /\ ~Sending' /\ Broken'
  BY Zenon, <1>u, SameMail DEF Sending, Broken
<1>1. PublisherType'
  BY Zenon, <1>u, <1>m DEF PublisherInv, PublisherType
<1>2. SequenceInv'
  BY Zenon, <1>u, SequenceSame DEF PublisherInv
<1>3. SealInv'
  BY Zenon, <1>u, <1>m DEF PublisherInv, SealInv, NoReply
<1>4. FenceInv'
  BY Zenon, <1>u, <1>m, FenceSame DEF PublisherInv
<1>5. SessionInv'
  BY Zenon, <1>u, <1>m, SessionSame DEF PublisherInv
<1>6. FinalInv'
  BY Zenon, <1>u, <1>m DEF PublisherInv, FinalInv
<1> QED BY Zenon, <1>1, <1>2, <1>3, <1>4, <1>5, <1>6 DEF PublisherInv

\* The finalizer sends Seal, or it is lost.
LEMMA SendSealKeeps ==
    ASSUME PublisherInv, SendSeal \/ LoseSeal
    PROVE  PublisherInv'
<1>u. /\ UNCHANGED <<evParked, evQueue, evAccepted, evBound, evSkipped, evPc, evCur, evSealed,
                     evPoll, evFail, evMail, evReply>>
      /\ UNCHANGED <<evNext, evLast, evSession, evEstablished, evClock, evKind>>
      /\ evGate' \in {evGate, FALSE} /\ evFin = "idle" /\ evSeal = "unsent"
  BY Zenon DEF SendSeal, LoseSeal, evSeq, evTime, evFinal, evEnv, PublisherInv, PublisherType
<1>f. \/ /\ evPc = "done" /\ evFin' = "report" /\ evSeal' = evSeal
         /\ evDone' = [delivery |-> "QueueClosed", last |-> 0]
      \/ evSeal' = "queued" /\ evFin' = "wait" /\ evDone' = evDone
      \/ evSeal' = "lost" /\ evFin' = evFin /\ evDone' = evDone
  BY DEF SendSeal, LoseSeal, evFinal
<1>m. /\ HasEnded' = HasEnded /\ ~HasEnded /\ Sending' = Sending /\ Broken' = Broken
      /\ evPc \notin {"fence", "drainSend", "discard", "ended"} /\ ~evSealed /\ evReply = NoReply
  BY Zenon, <1>u, SameMail DEF Sending, Broken, PublisherInv, SequenceInv, SealInv
<1>1. PublisherType'
  <2>1. evGate' \in BOOLEAN
    BY Zenon, <1>u DEF PublisherInv, PublisherType
  <2>2. evDone' \in Reply
    BY <1>f DEF Reply, PublisherInv, PublisherType
  <2> QED BY ZenonT(30), <1>u, <1>m, <2>1, <2>2 DEF PublisherInv, PublisherType
<1>2. SequenceInv'
  BY Zenon, <1>u, SequenceSame DEF PublisherInv
<1>3. SealInv'
  BY Zenon, <1>u, <1>m DEF PublisherInv, SealInv, NoReply
<1>4. FenceInv'
  BY Zenon, <1>u, <1>m, FenceSame DEF PublisherInv
<1>5. SessionInv'
  BY Zenon, <1>u, <1>m DEF PublisherInv, SessionInv
<1>6. FinalInv'
  BY <1>u, <1>f, <1>m DEF PublisherInv, FinalInv
<1> QED BY Zenon, <1>1, <1>2, <1>3, <1>4, <1>5, <1>6 DEF PublisherInv

\* The finalizer has its reply or gives up, and reports.
LEMMA ReportKeeps ==
    ASSUME PublisherInv, AwaitReply \/ Report
    PROVE  PublisherInv'
<1>u. /\ UNCHANGED <<evGate, evParked, evQueue, evAccepted, evBound, evSkipped, evPc, evCur,
                     evSealed, evPoll, evFail, evMail, evSeal, evReply>>
      /\ UNCHANGED <<evNext, evLast, evSession, evEstablished, evClock>>
  BY Zenon DEF AwaitReply, Report, evSeq, evTime, evFinal, evEnv
<1>m. HasEnded' = HasEnded /\ Sending' = Sending /\ Broken' = Broken
  BY Zenon, <1>u, SameMail DEF Sending, Broken
<1>r. evReply \in Reply /\ evDone \in Reply
  BY Zenon DEF PublisherInv, PublisherType
<1>f. \/ /\ evFin = "wait" /\ evFin' = "report" /\ evKind' = evKind
         /\ evReply # NoReply /\ evDone' = evReply
      \/ /\ evFin = "wait" /\ evFin' = "report" /\ evKind' = evKind
         /\ evReply = NoReply /\ (evClock = 2 \/ evPc = "done")
         /\ evDone' = [delivery |-> "DeadlineExceeded", last |-> 0]
      \/ /\ evFin = "report" /\ evFin' = "done" /\ evDone' = evDone
         /\ evKind' = "Completed" => evDone.delivery = "Published"
  BY Zenon DEF AwaitReply, Report, GaveUp, reported_kind
<1>1. PublisherType'
  <2>1. evDone' \in Reply
    BY <1>f, <1>r DEF Reply
  <2> QED BY <1>u, <1>m, <2>1 DEF PublisherInv, PublisherType
<1>2. SequenceInv'
  BY Zenon, <1>u, SequenceSame DEF PublisherInv
<1>3. SealInv'
  BY Zenon, <1>u, <1>m DEF PublisherInv, SealInv, NoReply
<1>4. FenceInv'
  BY Zenon, <1>u, <1>m, FenceSame DEF PublisherInv
<1>5. SessionInv'
  BY Zenon, <1>u, <1>m DEF PublisherInv, SessionInv
<1>6. FinalInv'
  <2>1. /\ evReply.delivery = "Published" <=> HasEnded
        /\ HasEnded => evReply.last = Len(evMail)
        /\ evReply # NoReply => evPc = "done"
        /\ evReply = NoReply => ~HasEnded
    BY DEF PublisherInv, SealInv, SequenceInv, NoReply
  <2> QED BY SMTT(20), <1>u, <1>m, <1>f, <2>1 DEF PublisherInv, FinalInv
<1> QED BY Zenon, <1>1, <1>2, <1>3, <1>4, <1>5, <1>6 DEF PublisherInv

\* The host and the clock.
LEMMA AroundKeeps ==
    ASSUME PublisherInv, HostReceives \/ HostDrops \/ Tick \/ UNCHANGED evVars
    PROVE  PublisherInv'
<1>u. /\ UNCHANGED <<evGate, evParked, evQueue, evAccepted, evBound, evSkipped, evPc, evCur,
                     evSealed, evPoll, evFail, evMail, evSeal, evReply>>
      /\ UNCHANGED <<evNext, evLast, evSession, evEstablished, evFin, evKind, evDone>>
  BY Zenon DEF HostReceives, HostDrops, Tick, evSeq, evTime, evFinal, evEnv, evVars
<1>c. \/ evClock' = evClock
      \/ evClock < 2 /\ evClock' = evClock + 1 /\ (evClock = 1 => ~evPoll)
  BY Zenon DEF HostReceives, HostDrops, Tick, evTime, evVars
<1>m. HasEnded' = HasEnded /\ Sending' = Sending /\ Broken' = Broken
  BY Zenon, <1>u, SameMail DEF Sending, Broken
<1>1. PublisherType'
  <2>1. evClock' \in 0 .. 2
    BY <1>c DEF PublisherInv, PublisherType
  <2> QED BY <1>u, <1>m, <2>1 DEF PublisherInv, PublisherType
<1>2. SequenceInv'
  BY Zenon, <1>u, SequenceSame DEF PublisherInv
<1>3. SealInv'
  BY Zenon, <1>u, <1>m DEF PublisherInv, SealInv, NoReply
<1>4. FenceInv'
  BY Zenon, <1>u, <1>m, FenceSame DEF PublisherInv
<1>5. SessionInv'
  BY Zenon, <1>u, <1>m DEF PublisherInv, SessionInv
<1>6. FinalInv'
  <2>1. evClock = 2 => evClock' = 2
    BY <1>c DEF PublisherInv, PublisherType
  <2>2. evClock' = 2 => evClock = 2 \/ ~evPoll
    BY <1>c DEF PublisherInv, PublisherType
  <2> QED BY Zenon, <1>u, <1>m, <2>1, <2>2 DEF PublisherInv, FinalInv
<1> QED BY Zenon, <1>1, <1>2, <1>3, <1>4, <1>5, <1>6 DEF PublisherInv

\* The invariant holds initially.
LEMMA PublisherInvInit == PublisherInit => PublisherInv
<1> SUFFICES ASSUME PublisherInit PROVE PublisherInv
  BY Zenon
<1>e. /\ <<>> \in Seq(Cmd) /\ <<>> \in Seq(Event) /\ Len(<<>>) = 0
      /\ DOMAIN evMail = {} /\ DOMAIN evQueue = {}
  <2>1. evMail = <<>> /\ evQueue = <<>>
    BY Zenon DEF PublisherInit
  <2> QED BY <2>1, EmptySeq, LenProperties
<1>m. ~HasEnded /\ SequencesContiguous
  BY Zenon, <1>e DEF HasEnded, SequencesContiguous
<1>1. PublisherType
  <2>1. evReply \in Reply /\ evDone \in Reply
    BY DEF PublisherInit, NoReply, Reply
  <2>2. evSession \in {"none", "external", "synthetic"} /\ evBound \in {"none", "external"}
    BY Zenon DEF PublisherInit
  <2>3. evParked \in Seq(Cmd) /\ evQueue \in Seq(Cmd) /\ evMail \in Seq(Event)
    BY <1>e DEF PublisherInit
  <2>4. ~Sending /\ \A i \in DOMAIN evQueue : evQueue[i] \in evAccepted
    BY Zenon, <1>e DEF PublisherInit, Sending
  <2>5. evCur \in Cmd \cup {NoCmd} /\ evNext \in Nat /\ evLast \in Nat /\ evClock \in 0 .. 2
    BY DEF PublisherInit
  <2> QED BY Zenon, <2>1, <2>2, <2>3, <2>4, <2>5 DEF PublisherInit, PublisherType
<1>2. SequenceInv
  BY <1>e, <1>m DEF PublisherInit, SequenceInv
<1>3. SealInv
  BY Zenon DEF PublisherInit, SealInv, NoReply
<1>4. FenceInv
  BY Zenon, <1>m DEF PublisherInit, FenceInv, FenceComplete
<1>5. SessionInv
  BY Zenon, <1>e DEF PublisherInit, SessionInv, Sending
<1>6. FinalInv
  BY Zenon DEF PublisherInit, FinalInv
<1> QED BY Zenon, <1>1, <1>2, <1>3, <1>4, <1>5, <1>6 DEF PublisherInv

\* Every step keeps the invariant.
LEMMA PublisherInvStep == PublisherInv /\ [PublisherNext]_evVars => PublisherInv'
BY Zenon, SendKeeps, UnparkKeeps, DropParkedKeeps, SealKeeps, TakeCommandKeeps, BeginPollKeeps,
   SendEndKeeps, FenceEndKeeps, DiscardKeeps, FinishSealKeeps, AbortKeeps, SendSealKeeps,
   ReportKeeps, AroundKeeps
   DEF PublisherNext, PublisherStep

\* The invariant holds in every reachable state.
LEMMA PublisherInvHolds == PublisherSpec => []PublisherInv
BY PublisherInvInit, PublisherInvStep, PTL DEF PublisherSpec

\* run_event_publisher is the one allocator of sequences: whatever path an event
\* takes, the host sees 1, 2, 3, ...
THEOREM EventsInSequence == PublisherSpec => []SequencesContiguous
<1>1. PublisherInv => SequencesContiguous
  BY Zenon DEF PublisherInv, SequenceInv
<1> QED BY <1>1, PublisherInvHolds, PTL

\* fence_drain_and_seal: nothing follows Ended and every accepted command is in
\* front of it.
THEOREM SealIsFence == PublisherSpec => []FenceComplete
<1>1. PublisherInv => FenceComplete
  BY Zenon DEF PublisherInv, FenceInv
<1> QED BY <1>1, PublisherInvHolds, PTL

\* ensure_session and the row's bound session: all events carry one session id.
THEOREM EventsOfOneSession == PublisherSpec => []OneSession
<1>1. PublisherInv => OneSession
  BY Zenon DEF PublisherInv, SessionInv, OneSession
<1> QED BY <1>1, PublisherInvHolds, PTL

\* finalize_after_terminal: the completion says Published exactly when Ended is
\* in the mailbox, for ever.
THEOREM CompletionTrue == PublisherSpec => []CompletionAgrees
<1>1. PublisherInv => CompletionAgrees
  BY Zenon DEF PublisherInv, FinalInv, CompletionAgrees
<1> QED BY <1>1, PublisherInvHolds, PTL

\* A transaction reported as Completed delivered Ended and every accepted event.
THEOREM CompletedDelivered == PublisherSpec => []CompletedIsWhole
<1>1. PublisherInv => CompletedIsWhole
  BY Zenon DEF PublisherInv, FinalInv, FenceInv, FenceComplete, CompletedIsWhole
<1> QED BY <1>1, PublisherInvHolds, PTL
=============================================================================
