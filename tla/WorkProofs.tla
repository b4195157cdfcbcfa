----------------------------- MODULE WorkProofs -----------------------------
(***************************************************************************)
(* Proofs about three components that share a resource: the byte budget of *)
(* the event mailbox (EventMailbox), the permits of the MCP gateway        *)
(* (McpGateway), the request ids and sessions of a Grok server connection  *)
(* (GrokServer). They hold for every number of senders, requests, routes   *)
(* and callers and every limit.                                            *)
(***************************************************************************)
EXTENDS EventMailbox, McpGateway, GrokServer, TLAPS

-----------------------------------------------------------------------------
(* The mailbox.                                                            *)

MailboxPc == {"idle", "arm", "load", "test", "wait", "cas", "push",
              "tryLoad", "tryCas", "tryPush"}

\* The types of the mailbox.
MailboxType ==
    /\ mbPc \in [Sender -> MailboxPc]
    /\ mbSize \in [Sender -> Nat] /\ mbSeen \in [Sender -> Int]
    /\ mbQueue \in Seq(Nat)
    /\ mbBytes \in Int

\* A sender that found the budget exceeded: it waits, or is about to.
Full(s) == mbPc[s] = "wait" \/ (mbPc[s] = "test" /\ mbSeen[s] + mbSize[s] > MaxBytes)

\* Inductive: what a sender found is still so when no release is under way that
\* will wake it, and a compare_exchange is only tried with room.
MailboxInv ==
    /\ MailboxType
    /\ mbBytes <= MaxBytes
    /\ \A s \in Sender : mbPc[s] \in {"cas", "tryCas"} => mbSeen[s] + mbSize[s] <= MaxBytes
    /\ \A s \in Sender :
          (Full(s) /\ s \notin mbWoken /\ mbRelease = {}) => mbBytes + mbSize[s] > MaxBytes

\* The length of a queue, and its domain.
LEMMA SeqLen ==
    ASSUME NEW S, NEW s \in Seq(S)
    PROVE  Len(s) \in Nat /\ s \in [1 .. Len(s) -> S] /\ DOMAIN s = 1 .. Len(s)
OBVIOUS

\* Only the empty queue has no element.
LEMMA SeqEmpty ==
    ASSUME NEW S
    PROVE  <<>> \in Seq(S) /\ Len(<<>>) = 0 /\ \A s \in Seq(S) : s # <<>> => Len(s) \in Nat \ {0}
OBVIOUS

\* A message is sent to a queue.
LEMMA SeqAppend ==
    ASSUME NEW S, NEW s \in Seq(S), NEW e \in S
    PROVE  /\ Append(s, e) \in Seq(S) /\ Append(s, e) # <<>> /\ Len(Append(s, e)) = Len(s) + 1
           /\ \A i \in 1 .. Len(s) : Append(s, e)[i] = s[i]
           /\ Append(s, e)[Len(s) + 1] = e
OBVIOUS

\* A message is taken from a queue.
LEMMA SeqTail ==
    ASSUME NEW S, NEW s \in Seq(S), s # <<>>
    PROVE  /\ Head(s) \in S /\ Tail(s) \in Seq(S) /\ Len(Tail(s)) = Len(s) - 1
           /\ \A i \in 1 .. Len(Tail(s)) : Tail(s)[i] = s[i + 1]
OBVIOUS

\* The queue's sizes are numbers before and after a receive.
LEMMA ReceivedSize ==
    ASSUME mbQueue \in Seq(Nat), mbQueue # <<>>
    PROVE  Head(mbQueue) \in Nat /\ Tail(mbQueue) \in Seq(Nat)
BY Zenon, SeqTail

\* A sender that moves on, its size and the counter unchanged, keeps the invariant
\* if it does so where it stands: not to a place that claims room or its absence.
LEMMA MailboxMove ==
    ASSUME MailboxInv, NEW s \in Sender, NEW pc \in MailboxPc \ {"wait", "test", "cas", "tryCas"},
           Goto(s, pc), UNCHANGED <<mbSize, mbBytes>>, mbSeen' = mbSeen,
           mbQueue' \in Seq(Nat), mbRelease' = mbRelease, mbWoken' \in {mbWoken, mbWoken \ {s}}
    PROVE  MailboxInv'
<1>1. MailboxType'
  BY Zenon DEF MailboxInv, MailboxType, Goto
<1>2. \A u \in Sender : u # s => mbPc'[u] = mbPc[u] /\ (u \in mbWoken' <=> u \in mbWoken)
  BY Zenon DEF MailboxInv, MailboxType, Goto
<1>3. mbPc'[s] = pc
  BY Zenon DEF MailboxInv, MailboxType, Goto
<1> QED BY <1>1, <1>2, <1>3 DEF MailboxInv, Full

\* A step that gives bytes back: its wake-up is still to come.
LEMMA MailboxRelease ==
    ASSUME MailboxInv, NEW n \in Nat, mbBytes' = mbBytes - n, NEW t, t \in mbRelease',
           mbQueue' \in Seq(Nat), UNCHANGED <<mbSize, mbSeen>>, mbPc' \in [Sender -> MailboxPc],
           \A s \in Sender : mbPc'[s] = mbPc[s] \/ mbPc'[s] = "idle"
    PROVE  MailboxInv'
<1>1. MailboxType' /\ mbBytes' <= MaxBytes
  BY MailboxAssumption DEF MailboxInv, MailboxType
<1> QED BY <1>1 DEF MailboxInv

\* The steps of a sender.
LEMMA SenderStep ==
    ASSUME MailboxInv, NEW s \in Sender,
           \/ \E n \in EventBytes, pc \in {"arm", "tryLoad"} : StartSend(s, n, pc)
           \/ Arm(s) \/ Load(s) \/ Test(s) \/ Wake(s) \/ CompareExchange(s)
           \/ Push(s) \/ DropSend(s)
           \/ TryLoad(s) \/ TryCompareExchange(s) \/ TryPush(s)
    PROVE  MailboxInv'
<1>t. MailboxType /\ MaxBytes \in Nat /\ mbSize[s] \in Nat
  BY Zenon, MailboxAssumption DEF MailboxInv, MailboxType
<1>q. Append(mbQueue, mbSize[s]) \in Seq(Nat)
  BY Zenon, <1>t, SeqAppend DEF MailboxType
<1>1. ASSUME NEW n \in EventBytes, NEW pc \in {"arm", "tryLoad"}, StartSend(s, n, pc)
      PROVE  MailboxInv'
  <2>1. mbPc'[s] \in {"idle", "arm", "tryLoad"} /\ mbPc' \in [Sender -> MailboxPc]
        /\ \A u \in Sender : u # s => mbPc'[u] = mbPc[u] /\ mbSize'[u] = mbSize[u]
    BY Zenon, <1>1, <1>t DEF StartSend, Goto, MailboxType, MailboxPc
  <2>2. MailboxType'
    BY Zenon, <1>1, <1>t, <2>1, MailboxAssumption DEF StartSend, MailboxType
  <2> QED BY <1>1, <2>1, <2>2 DEF StartSend, MailboxInv, Full
<1>2. CASE Arm(s)
  BY Zenon, <1>2, <1>t, MailboxMove DEF Arm, MailboxPc, MailboxType
<1>3. CASE Load(s)
  <2>1. mbPc'[s] = "test" /\ mbSeen'[s] = mbBytes
        /\ \A u \in Sender : u # s => mbPc'[u] = mbPc[u] /\ mbSeen'[u] = mbSeen[u]
    BY Zenon, <1>3, <1>t DEF Load, Goto, MailboxType
  <2>2. MailboxType'
    BY Zenon, <1>3, <1>t DEF Load, Goto, MailboxType, MailboxPc
  <2> QED BY Zenon, <1>3, <1>t, <2>1, <2>2 DEF Load, MailboxInv, Full
<1>4. CASE Test(s)
  <2>1. /\ mbPc'[s] = IF mbSeen[s] + mbSize[s] > MaxBytes THEN "wait" ELSE "cas"
        /\ \A u \in Sender : u # s => mbPc'[u] = mbPc[u]
    BY Zenon, <1>4, <1>t DEF Test, Goto, MailboxType
  <2>2. MailboxType'
    BY Zenon, <1>4, <1>t DEF Test, Goto, MailboxType, MailboxPc
  <2>3. mbSeen[s] + mbSize[s] > MaxBytes \/ mbSeen[s] + mbSize[s] <= MaxBytes
    BY <1>t DEF MailboxType
  <2> QED BY <1>4, <2>1, <2>2, <2>3 DEF Test, MailboxInv, Full
<1>5. CASE Wake(s)
  BY Zenon, <1>5, <1>t, MailboxMove DEF Wake, MailboxPc, MailboxType
<1>6. CASE CompareExchange(s) \/ TryCompareExchange(s)
  <2>1. CASE mbBytes = mbSeen[s]
    <3>1. /\ mbBytes' = mbBytes + mbSize[s] /\ mbPc'[s] \in {"push", "tryPush"}
          /\ \A u \in Sender : u # s => mbPc'[u] = mbPc[u]
      BY Zenon, <1>6, <2>1, <1>t DEF CompareExchange, TryCompareExchange, Goto, MailboxType
    <3>0. mbPc' \in [Sender -> MailboxPc]
      BY Zenon, <1>6, <2>1, <1>t DEF CompareExchange, TryCompareExchange, Goto, MailboxType, MailboxPc
    <3>2. MailboxType'
      BY <1>6, <1>t, <3>0, <3>1 DEF CompareExchange, TryCompareExchange, MailboxType
    <3>3. mbBytes' <= MaxBytes /\ mbBytes' >= mbBytes
      BY <1>6, <2>1, <1>t, <3>1 DEF CompareExchange, TryCompareExchange, MailboxInv, MailboxType
    <3>4. UNCHANGED <<mbSize, mbSeen, mbWoken, mbRelease>>
      BY Zenon, <1>6 DEF CompareExchange, TryCompareExchange
    <3>5. \A u \in Sender : mbBytes + mbSize[u] > MaxBytes => mbBytes' + mbSize[u] > MaxBytes
      BY SMTT(20), <1>t, <3>2, <3>3 DEF MailboxType
    <3> QED BY Zenon, <3>1, <3>2, <3>3, <3>4, <3>5 DEF MailboxInv, Full
  <2>2. CASE mbBytes # mbSeen[s]
    BY Zenon, <1>6, <2>2, <1>t, MailboxMove
       DEF CompareExchange, TryCompareExchange, MailboxPc, MailboxType
  <2> QED BY Zenon, <2>1, <2>2
<1>7. CASE Push(s) \/ TryPush(s) \/ DropSend(s)
  <2>1. Goto(s, "idle") /\ UNCHANGED <<mbSize, mbSeen, mbWoken>> /\ mbQueue' \in Seq(Nat)
    BY Zenon, <1>7, <1>t, <1>q DEF Push, TryPush, DropSend, MailboxType
  <2>2. CASE DropPermit(s)
    <3>1. mbPc' \in [Sender -> MailboxPc]
          /\ \A u \in Sender : mbPc'[u] = mbPc[u] \/ mbPc'[u] = "idle"
      BY Zenon, <1>t, <2>1 DEF Goto, MailboxType, MailboxPc
    <3> QED BY ZenonT(30), <1>t, <2>1, <2>2, <3>1, MailboxRelease DEF DropPermit
  <2>3. CASE UNCHANGED <<mbBytes, mbRelease>>
    BY Zenon, <2>1, <2>3, MailboxMove DEF MailboxPc
  <2> QED BY Zenon, <1>7, <2>2, <2>3 DEF Push, TryPush, DropSend
<1>8. CASE TryLoad(s)
  <2>1. /\ mbPc'[s] = (IF mbBytes + mbSize[s] > MaxBytes THEN "idle" ELSE "tryCas")
        /\ mbSeen'[s] = mbBytes
        /\ \A u \in Sender : u # s => mbPc'[u] = mbPc[u] /\ mbSeen'[u] = mbSeen[u]
    BY Zenon, <1>8, <1>t DEF TryLoad, Goto, MailboxType
  <2>2. MailboxType'
    BY Zenon, <1>8, <1>t DEF TryLoad, Goto, MailboxType, MailboxPc
  <2>3. mbBytes + mbSize[s] > MaxBytes \/ mbBytes + mbSize[s] <= MaxBytes
    BY <1>t DEF MailboxType
  <2> QED BY Zenon, <1>8, <2>1, <2>2, <2>3 DEF TryLoad, MailboxInv, Full
<1> QED BY Zenon, <1>1, <1>2, <1>3, <1>4, <1>5, <1>6, <1>7, <1>8

\* Every step of the mailbox keeps the invariant.
LEMMA MailboxStep ==
    ASSUME MailboxInv, [MailboxNext]_mbVars
    PROVE  MailboxInv'
<1>1. CASE HostReceive
  <2>1. Head(mbQueue) \in Nat /\ Tail(mbQueue) \in Seq(Nat)
    BY Zenon, <1>1, ReceivedSize DEF HostReceive, MailboxInv, MailboxType
  <2> QED BY SMTT(20), <1>1, <2>1, MailboxRelease DEF HostReceive, MailboxInv, MailboxType
<1>2. ASSUME NEW t \in Sender \cup {Host}, Notify(t)
      PROVE  MailboxInv'
  <2>1. \A s \in Sender : Full(s) => s \in mbWoken'
    BY Zenon, <1>2 DEF Notify, Armed, Full
  <2> QED BY <1>2, <2>1 DEF Notify, MailboxInv, MailboxType, Full
<1>3. CASE DropReceiver \/ UNCHANGED mbVars
  BY Zenon, <1>3 DEF DropReceiver, mbVars, MailboxInv, MailboxType, Full
<1> QED BY <1>1, <1>2, <1>3, SenderStep DEF MailboxNext

\* The senders' protocol keeps the byte counter within the budget and never
\* sleeps through a release: TransactionEventSender::send creates its notified
\* future before it reads queued_bytes, and a permit is given back before its
\* notify_waiters.
THEOREM MailboxWakes == MailboxSpec => [](NoLostWakeup /\ mbBytes <= MaxBytes)
<1>1. MailboxInit => MailboxInv
  BY MailboxAssumption, SeqEmpty DEF MailboxInit, MailboxInv, MailboxType, MailboxPc, Full
<1>2. MailboxInv /\ [MailboxNext]_mbVars => MailboxInv'
  BY Zenon, MailboxStep
<1>3. MailboxInv => NoLostWakeup /\ mbBytes <= MaxBytes
  BY Zenon DEF MailboxInv, NoLostWakeup, Full
<1> QED BY <1>1, <1>2, <1>3, PTL DEF MailboxSpec

-----------------------------------------------------------------------------
(* The Grok server connection.                                             *)

Ask == (Caller \X Nat) \cup {<<"answer">>}
Message == [id : Nat, req : Ask]

RpcType ==
    /\ DOMAIN wPc = Caller /\ DOMAIN wReply = Caller
    /\ wSerial \in [Caller -> Nat] /\ wId \in [Caller -> Nat]
    /\ wNext \in Nat \ {0}
    /\ wOut \in Seq(Message) /\ wAgent \subseteq Message

\* Ids in the table were given out.
TableInv == \A i \in DOMAIN wPending : i \in Nat \ {0} /\ i < wNext

\* An id on its way to the agent or back is never given to another request.
Owned(id, req) == id < wNext /\ (id \in DOMAIN wPending => wPending[id] = req)

WireInv ==
    /\ \A c \in Caller : wPc[c] = "send" => Owned(wId[c], <<c, wSerial[c]>>)
    /\ \A k \in 1..Len(wOut) : wOut[k].id # 0 => Owned(wOut[k].id, wOut[k].req)
    /\ \A m \in wAgent : m.id # 0 => Owned(m.id, m.req)

RpcInv == RpcType /\ TableInv /\ WireInv /\ AnswerIsOwn

\* The steps that touch neither the table nor what is on the wire.
LEMMA RpcFrame ==
    ASSUME RpcInv, UNCHANGED <<wSerial, wId, wReply, wPending, wNext, wOut, wAgent>>,
           DOMAIN wPc' = Caller, \A c \in Caller : wPc'[c] = "send" => wPc[c] = "send"
    PROVE  RpcInv'
<1>1. RpcType' /\ TableInv' /\ AnswerIsOwn'
  BY Zenon DEF RpcInv, RpcType, TableInv, AnswerIsOwn
<1>2. WireInv'
  BY Zenon DEF RpcInv, WireInv, Owned
<1> QED BY Zenon, <1>1, <1>2 DEF RpcInv

\* The steps that only take entries out of the table.
LEMMA TableShrinks ==
    ASSUME RpcInv, UNCHANGED <<wSerial, wId, wNext, wOut>>, wAgent' \subseteq wAgent,
           DOMAIN wPc' = Caller, \A c \in Caller : wPc'[c] = "send" => wPc[c] = "send",
           DOMAIN wReply' = Caller, AnswerIsOwn',
           DOMAIN wPending' \subseteq DOMAIN wPending,
           \A i \in DOMAIN wPending' : wPending'[i] = wPending[i]
    PROVE  RpcInv'
<1>1. RpcType' /\ TableInv'
  BY Zenon DEF RpcInv, RpcType, TableInv
<1>2. WireInv'
  <2>1. \A id, req : Owned(id, req) => Owned(id, req)'
    BY Zenon DEF Owned
  <2> QED BY Zenon, <2>1 DEF RpcInv, WireInv, Owned
<1> QED BY Zenon, <1>1, <1>2 DEF RpcInv

\* A request goes into the table under an id that nothing else carries.
LEMMA InsertKeeps ==
    ASSUME RpcInv, NEW c \in Caller, InsertWaiter(c)
    PROVE  RpcInv'
<1> DEFINE req == <<c, wSerial[c] + 1>>
<1>u. /\ UNCHANGED <<wOut, wAgent>> /\ wNext' = wNext + 1
      /\ wSerial' = [wSerial EXCEPT ![c] = wSerial[c] + 1]
      /\ wId' = [wId EXCEPT ![c] = wNext] /\ wReply' = [wReply EXCEPT ![c] = <<"none">>]
  BY Zenon DEF InsertWaiter, NextId
<1>p. /\ DOMAIN wPending' = DOMAIN wPending \cup {wNext} /\ wPending'[wNext] = req
      /\ \A i \in DOMAIN wPending : i # wNext => wPending'[i] = wPending[i]
  BY Zenon DEF InsertWaiter, NextId
<1>c. DOMAIN wPc' = Caller /\ \A d \in Caller : d # c => wPc'[d] = wPc[d]
  BY DEF InsertWaiter, CallerTo, Refused, RpcInv, RpcType
<1>1. RpcType'
  BY <1>u, <1>c DEF RpcInv, RpcType
<1>2. TableInv'
  BY <1>u, <1>p DEF RpcInv, RpcType, TableInv
<1>3. \A id \in Nat : \A r : Owned(id, r) =>
         id < wNext' /\ (id \in DOMAIN wPending' => wPending'[id] = r)
  BY <1>u, <1>p DEF Owned, RpcInv, RpcType
<1>4. WireInv'
  <2>1. \A d \in Caller : wPc'[d] = "send" => Owned(wId[d], <<d, wSerial[d]>>)'
    <3> SUFFICES ASSUME NEW d \in Caller, wPc'[d] = "send"
                 PROVE  /\ wId'[d] < wNext'
                        /\ wId'[d] \in DOMAIN wPending' => wPending'[wId'[d]] = <<d, wSerial'[d]>>
      BY Zenon DEF Owned
    <3>1. CASE d = c
      <4>1. wId'[d] = wNext /\ wSerial'[d] = wSerial[c] + 1
        BY Zenon, <1>u, <3>1 DEF RpcInv, RpcType
      <4> QED BY <1>u, <1>p, <3>1, <4>1 DEF RpcInv, RpcType
    <3>2. CASE d # c
      <4>1. wId'[d] = wId[d] /\ wSerial'[d] = wSerial[d] /\ wPc[d] = "send" /\ wId[d] \in Nat
        BY ZenonT(30), <1>u, <1>c, <3>2 DEF RpcInv, RpcType
      <4>2. Owned(wId[d], <<d, wSerial[d]>>)
        BY Zenon, <4>1 DEF RpcInv, WireInv
      <4>3. wNext \in Nat
        BY Zenon DEF RpcInv, RpcType
      <4>4. wId[d] < wNext /\ (wId[d] \in DOMAIN wPending => wPending[wId[d]] = <<d, wSerial[d]>>)
        BY Zenon, <4>2 DEF Owned
      <4>5. wId[d] # wNext /\ wId[d] < wNext + 1
        BY <4>1, <4>3, <4>4
      <4>6. wId[d] \in DOMAIN wPending' => wPending'[wId[d]] = <<d, wSerial[d]>>
        BY Zenon, <1>p, <4>4, <4>5
      <4> QED BY ZenonT(30), <1>u, <4>1, <4>5, <4>6
    <3> QED BY Zenon, <3>1, <3>2
  <2>2. \A k \in 1..Len(wOut) : wOut[k].id # 0 => Owned(wOut[k].id, wOut[k].req)'
    <3>0. \A k \in 1..Len(wOut) : wOut[k] \in Message
      BY DEF RpcInv, RpcType
    <3>1. \A k \in 1..Len(wOut) : wOut[k].id \in Nat
      BY Zenon, <3>0 DEF Message
    <3> QED BY Zenon, <1>u, <1>3, <3>1 DEF RpcInv, WireInv, Owned
  <2>3. \A m \in wAgent : m.id # 0 => Owned(m.id, m.req)'
    <3>1. \A m \in wAgent : m.id \in Nat
      BY Zenon DEF RpcInv, RpcType, Message
    <3> QED BY ZenonT(30), <1>u, <1>3, <3>1 DEF RpcInv, WireInv, Owned
  <2> QED BY Zenon, <1>u, <2>1, <2>2, <2>3 DEF WireInv, Owned
<1>5. AnswerIsOwn'
  BY Zenon, <1>u DEF RpcInv, RpcType, AnswerIsOwn
<1> QED BY Zenon, <1>1, <1>2, <1>4, <1>5 DEF RpcInv

\* A message enters the write channel.
LEMMA OutGrows ==
    ASSUME RpcInv, NEW m \in Message, m.id # 0 => Owned(m.id, m.req), wOut' = Append(wOut, m),
           UNCHANGED <<wSerial, wId, wReply, wPending, wNext, wAgent>>,
           DOMAIN wPc' = Caller, \A c \in Caller : wPc'[c] = "send" => wPc[c] = "send"
    PROVE  RpcInv'
<1>t. wOut \in Seq(Message)
  BY ZenonT(30) DEF RpcInv, RpcType
<1>a. Append(wOut, m) \in Seq(Message) /\ Len(Append(wOut, m)) = Len(wOut) + 1
  BY Zenon, <1>t, SeqAppend
<1>1. wOut' \in Seq(Message) /\ Len(wOut') = Len(wOut) + 1
  BY Zenon, <1>a
<1>2. RpcType' /\ TableInv' /\ AnswerIsOwn'
  BY Zenon, <1>1 DEF RpcInv, RpcType, TableInv, AnswerIsOwn
<1>3. \A k \in 1..Len(wOut') : wOut'[k].id # 0 => Owned(wOut'[k].id, wOut'[k].req)
  <2> SUFFICES ASSUME NEW k \in 1..Len(wOut'), wOut'[k].id # 0 PROVE Owned(wOut'[k].id, wOut'[k].req)
    BY Zenon
  <2>1. CASE k = Len(wOut) + 1
    BY <1>t, <2>1, SeqAppend
  <2>2. CASE k # Len(wOut) + 1
    <3>1. k \in 1..Len(wOut) /\ wOut'[k] = wOut[k]
      BY <1>t, <1>1, <2>2, SeqLen
    <3> QED BY Zenon, <3>1 DEF RpcInv, WireInv
  <2> QED BY Zenon, <2>1, <2>2
<1>4. WireInv'
  BY Zenon, <1>3 DEF RpcInv, WireInv, Owned
<1> QED BY Zenon, <1>2, <1>4 DEF RpcInv

\* A message goes from the write channel to the agent, an answer of ours no
\* further than the wire.
LEMMA WriteKeeps ==
    ASSUME RpcInv, WriteNext
    PROVE  RpcInv'
<1>u. /\ UNCHANGED <<wPc, wSerial, wId, wReply, wPending, wNext>> /\ wOut # <<>>
      /\ wAgent' = (IF Head(wOut).id = 0 THEN wAgent ELSE wAgent \cup {Head(wOut)})
      /\ wOut' = Tail(wOut)
  BY Zenon DEF WriteNext, wCallVars, tableVars
<1>t. wOut \in Seq(Message)
  BY Zenon DEF RpcInv, RpcType
<1>1. /\ Head(wOut) = wOut[1] /\ Head(wOut) \in Message /\ 1 \in 1..Len(wOut)
      /\ wOut' \in Seq(Message) /\ Len(wOut') = Len(wOut) - 1
      /\ \A k \in 1..Len(wOut') : k + 1 \in 1..Len(wOut) /\ wOut'[k] = wOut[k + 1]
  BY <1>u, <1>t, SeqTail, SeqLen
<1>2. RpcType' /\ TableInv' /\ AnswerIsOwn'
  BY Zenon, <1>u, <1>1 DEF RpcInv, RpcType, TableInv, AnswerIsOwn
<1>3. /\ \A k \in 1..Len(wOut') : wOut'[k].id # 0 => Owned(wOut'[k].id, wOut'[k].req)
      /\ \A m \in wAgent' : m.id # 0 => Owned(m.id, m.req)
  BY Zenon, <1>u, <1>1 DEF RpcInv, WireInv
<1>4. WireInv'
  BY Zenon, <1>u, <1>3 DEF RpcInv, WireInv, Owned
<1> QED BY Zenon, <1>2, <1>4 DEF RpcInv

\* Every step of the connection and of its callers keeps the invariant.
LEMMA RpcStep == RpcInv /\ [GrokNext]_wVars => RpcInv'
<1> SUFFICES ASSUME RpcInv, [GrokNext]_wVars PROVE RpcInv'
  BY Zenon
<1>t. /\ DOMAIN wPc = Caller /\ DOMAIN wReply = Caller
      /\ wSerial \in [Caller -> Nat] /\ wId \in [Caller -> Nat] /\ wOut \in Seq(Message)
  BY Zenon DEF RpcInv, RpcType
<1>1. CASE UNCHANGED wVars
  BY ZenonT(30), <1>1, <1>t, RpcFrame DEF wVars, wCallVars, tableVars
<1>2. ASSUME NEW c \in Caller,
             \/ BeginSession(c) \/ BeginSend(c) \/ CheckLimit(c) \/ TakeReply(c) \/ AdmitSession(c)
             \/ OpenExpires(c) \/ CancelSession(c) \/ FinishInput(c) \/ ReadOutput(c) \/ DropOutput(c)
      PROVE  RpcInv'
  <2>1. UNCHANGED <<wSerial, wId, wReply, wPending, wNext, wOut, wAgent>>
    BY Zenon, <1>2 DEF BeginSession, BeginSend, CheckLimit, TakeReply, AdmitSession, OpenExpires, CancelSession,
       FinishInput, ReadOutput, DropOutput, wCallVars, tableVars
  <2>2. UNCHANGED wPc \/ \E pc : pc # "send" /\ CallerTo(c, pc)
    <3>1. CASE BeginSession(c) \/ BeginSend(c) \/ CheckLimit(c) \/ OpenExpires(c)
      BY Zenon, <3>1 DEF BeginSession, BeginSend, CheckLimit, OpenExpires, Refused
    <3>2. CASE TakeReply(c)
      BY Zenon, <3>2 DEF TakeReply, Refused
    <3>3. CASE AdmitSession(c)
      BY <3>3 DEF AdmitSession, Refused
    <3>4. CASE CancelSession(c) \/ FinishInput(c) \/ ReadOutput(c) \/ DropOutput(c)
      BY Zenon, <3>4 DEF CancelSession, FinishInput, ReadOutput, DropOutput, wCallVars
    <3> QED BY Zenon, <1>2, <3>1, <3>2, <3>3, <3>4
  <2>3. DOMAIN wPc' = Caller /\ \A d \in Caller : wPc'[d] = "send" => wPc[d] = "send"
    BY <1>t, <2>2 DEF CallerTo
  <2> QED BY ZenonT(30), <2>1, <2>3, RpcFrame
<1>3. ASSUME NEW c \in Caller, SendRequest(c) PROVE RpcInv'
  <2>u. UNCHANGED <<wSerial, wId, wReply, wPending, wNext, wAgent>> /\ wPc[c] = "send"
    BY Zenon, <1>3 DEF SendRequest, tableVars
  <2>1. DOMAIN wPc' = Caller /\ \A d \in Caller : wPc'[d] = "send" => wPc[d] = "send"
    BY Zenon, <1>3, <1>t DEF SendRequest, CallerTo, Refused
  <2>2. CASE UNCHANGED wOut
    BY Zenon, <2>u, <2>1, <2>2, RpcFrame
  <2>3. CASE wOut' = Append(wOut, [id |-> wId[c], req |-> <<c, wSerial[c]>>])
    <3>1. <<c, wSerial[c]>> \in Ask /\ wId[c] \in Nat
      BY Zenon, <1>t DEF Ask
    <3>2. [id |-> wId[c], req |-> <<c, wSerial[c]>>] \in Message
      BY <3>1 DEF Message
    <3>3. Owned(wId[c], <<c, wSerial[c]>>)
      BY <2>u DEF RpcInv, WireInv
    <3> QED BY Zenon, <2>u, <2>1, <2>3, <3>2, <3>3, OutGrows
  <2> QED BY Zenon, <1>3, <2>2, <2>3 DEF SendRequest
<1>4. ASSUME NEW c \in Caller, RequestExpires(c) PROVE RpcInv'
  <2>1. UNCHANGED <<wSerial, wId, wNext, wOut, wReply, wAgent>> /\ wPending' = Restrict(wPending, DOMAIN wPending \ {wId[c]})
    BY Zenon, <1>4 DEF RequestExpires
  <2>2. DOMAIN wPc' = Caller /\ \A d \in Caller : wPc'[d] = "send" => wPc[d] = "send"
    BY Zenon, <1>4, <1>t DEF RequestExpires, CallerTo, Refused
  <2>3. AnswerIsOwn'
    BY Zenon, <2>1 DEF RpcInv, AnswerIsOwn
  <2> QED BY Zenon, <1>t, <2>1, <2>2, <2>3, TableShrinks DEF Restrict
<1>5. CASE FailPending
  <2>1. UNCHANGED <<wPc, wSerial, wId, wNext, wOut, wAgent>> /\ wPending' = <<>>
    BY Zenon, <1>5 DEF FailPending, wCallVars
  <2>2. DOMAIN wReply' = Caller /\ AnswerIsOwn'
    BY Zenon, <1>5, <2>1 DEF FailPending, RpcInv, AnswerIsOwn
  <2>3. DOMAIN wPending' = {}
    BY <2>1
  <2> QED BY Zenon, <1>t, <2>1, <2>2, <2>3, TableShrinks
<1>6. CASE DetachAll \/ ShutdownServer
  <2>1. UNCHANGED <<wPc, wSerial, wId, wReply, wPending, wNext>> /\ wOut' = <<>> /\ wAgent' = {}
    BY Zenon, <1>6 DEF DetachAll, ShutdownServer, wCallVars, tableVars
  <2>2. RpcType' /\ TableInv' /\ AnswerIsOwn'
    BY Zenon, <2>1, SeqEmpty DEF RpcInv, RpcType, TableInv, AnswerIsOwn
  <2>3. WireInv'
    BY <2>1, SeqEmpty DEF RpcInv, WireInv, Owned
  <2> QED BY Zenon, <2>2, <2>3 DEF RpcInv
<1>7. CASE PushInbound \/ HandleClientRequest \/ RequestControl \/ \E c \in Caller : HandleNotification(c)
  <2>1. UNCHANGED <<wPc, wSerial, wId, wReply, wPending, wNext, wOut, wAgent>>
    BY <1>7 DEF PushInbound, HandleClientRequest, RequestControl, HandleNotification, wCallVars, tableVars
  <2> QED BY Zenon, <1>t, <2>1, RpcFrame
<1>8. CASE AnswerClientRequest
  <2>u. UNCHANGED <<wPc, wSerial, wId, wReply, wPending, wNext, wAgent>>
    BY Zenon, <1>8 DEF AnswerClientRequest, wCallVars, tableVars
  <2>1. CASE UNCHANGED wOut
    BY Zenon, <1>t, <2>u, <2>1, RpcFrame
  <2>2. CASE wOut' = Append(wOut, [id |-> 0, req |-> <<"answer">>])
    <3>1. [id |-> 0, req |-> <<"answer">>] \in Message
      BY Zenon DEF Message, Ask
    <3> QED BY Zenon, <1>t, <2>u, <2>2, <3>1, OutGrows
  <2> QED BY Zenon, <1>8, <2>1, <2>2 DEF AnswerClientRequest
<1>9. ASSUME NEW m \in wAgent, HandleResponse(m) PROVE RpcInv'
  <2>1. /\ UNCHANGED <<wPc, wSerial, wId, wNext, wOut>> /\ wAgent' = wAgent \ {m}
        /\ wPending' = Restrict(wPending, DOMAIN wPending \ {m.id})
    BY Zenon, <1>9 DEF HandleResponse, wCallVars
  <2>2. DOMAIN wReply' = Caller /\ AnswerIsOwn'
    <3>1. PICK answer \in {m.req, <<"err">>} :
             wReply' = [c \in Caller |->
                IF m.id \in DOMAIN wPending /\ wPending[m.id] = <<c, wSerial[c]>>
                THEN answer ELSE wReply[c]]
      BY ZenonT(30), <1>9 DEF HandleResponse
    <3>2. m.id \in DOMAIN wPending => wPending[m.id] = m.req
      BY Zenon DEF RpcInv, TableInv, WireInv, Owned
    <3> QED BY ZenonT(30), <2>1, <3>1, <3>2 DEF RpcInv, AnswerIsOwn
  <2> QED BY ZenonT(30), <1>t, <2>1, <2>2, TableShrinks DEF Restrict
<1> QED BY Zenon, <1>1, <1>2, <1>3, <1>4, <1>5, <1>6, <1>7, <1>8, <1>9, InsertKeeps, WriteKeeps
    DEF GrokNext, CallerStep, ConnectionStep

\* An answer reaches the request it answers, whatever expired or was abandoned
\* in between: rpc_call's ids are never reused.
THEOREM AnswersAreOwn == GrokSpec => []AnswerIsOwn
<1>1. GrokInit => RpcInv
  <2> SUFFICES ASSUME GrokInit PROVE RpcInv
    BY Zenon
  <2>1. wOut \in Seq(Message) /\ Len(wOut) = 0
    BY Zenon, SeqEmpty DEF GrokInit
  <2>2. RpcType
    BY <2>1 DEF GrokInit, RpcType
  <2>3. TableInv /\ AnswerIsOwn
    BY DEF GrokInit, TableInv, AnswerIsOwn
  <2>4. WireInv
    BY <2>1 DEF GrokInit, WireInv
  <2> QED BY Zenon, <2>2, <2>3, <2>4 DEF RpcInv
<1>2. RpcInv => AnswerIsOwn
  BY Zenon DEF RpcInv
<1> QED BY <1>1, <1>2, RpcStep, PTL DEF GrokSpec

\* What happens to the session map and to the ends in one step.
LEMMA SessionEffect ==
    ASSUME GrokNext, DOMAIN wEnd = Caller
    PROVE  /\ UNCHANGED wSid
           /\ wMap' \subseteq wMap \/ \E c \in Caller : Admissible(c) /\ wMap' = wMap \cup {c}
           /\ DOMAIN wEnd' = Caller /\ \A c \in Caller : wEnd[c] # "none" => wEnd'[c] = wEnd[c]
<1>1. CASE ConnectionStep \/ RequestControl \/ ShutdownServer
  <2>1. CASE DetachAll
    BY Zenon, <2>1 DEF DetachAll, Ending
  <2>2. CASE ~DetachAll
    BY ZenonT(30), <1>1, <2>2 DEF ConnectionStep, RequestControl, ShutdownServer, FailPending, WriteNext, PushInbound,
       HandleClientRequest, AnswerClientRequest, HandleResponse, HandleNotification, sessVars
  <2> QED BY Zenon, <2>1, <2>2
<1>2. ASSUME NEW c \in Caller, AdmitSession(c)
      PROVE  /\ UNCHANGED <<wSid, wEnd>>
             /\ wMap' \subseteq wMap \/ (Admissible(c) /\ wMap' = wMap \cup {c})
  BY ZenonT(30), <1>2 DEF AdmitSession
<1>3. ASSUME NEW c \in Caller, CancelSession(c)
      PROVE  /\ UNCHANGED wSid /\ wMap' \subseteq wMap
             /\ DOMAIN wEnd' = Caller /\ \A d \in Caller : wEnd[d] # "none" => wEnd'[d] = wEnd[d]
  BY ZenonT(30), <1>3 DEF CancelSession, Detached, Ending
<1>4. ASSUME NEW c \in Caller, CallerStep(c), ~AdmitSession(c), ~CancelSession(c)
      PROVE  UNCHANGED <<wSid, wMap, wEnd>>
  BY Zenon, <1>4 DEF CallerStep, BeginSession, BeginSend, CheckLimit, InsertWaiter, SendRequest, TakeReply,
     RequestExpires, OpenExpires, FinishInput, ReadOutput, DropOutput, sessVars
<1> QED BY <1>1, <1>2, <1>3, <1>4 DEF GrokNext

-----------------------------------------------------------------------------
(* The sessions of a Grok server, counted.                                  *)

INSTANCE FiniteSetTheorems

SessionInv == DOMAIN wEnd = Caller /\ IsFiniteSet(wMap) /\ SessionsWithinLimit

\* Every step keeps the session map within its limit.
LEMMA SessionStep == SessionInv /\ [GrokNext]_wVars => SessionInv'
<1> SUFFICES ASSUME SessionInv, [GrokNext]_wVars PROVE SessionInv'
  BY Zenon
<1>1. CASE UNCHANGED wVars
  BY Zenon, <1>1 DEF wVars, sessVars, SessionInv, SessionsWithinLimit
<1>2. CASE GrokNext
  <2>t. DOMAIN wEnd = Caller /\ IsFiniteSet(wMap) /\ Cardinality(wMap) \in Nat
    BY Zenon, FS_CardinalityType DEF SessionInv
  <2>e. DOMAIN wEnd' = Caller /\ UNCHANGED wSid
    BY Zenon, <1>2, <2>t, SessionEffect
  <2>1. CASE wMap' \subseteq wMap
    <3>1. IsFiniteSet(wMap') /\ Cardinality(wMap') <= Cardinality(wMap)
      BY Zenon, <2>t, <2>1, FS_Subset
    <3>2. Cardinality(wMap') \in Nat /\ Cardinality(wMap) <= MaxSessions /\ MaxSessions \in Nat
      BY Zenon, <3>1, FS_CardinalityType, GrokAssumption DEF SessionInv, SessionsWithinLimit
    <3>3. Cardinality(wMap') <= MaxSessions
      BY <2>t, <3>1, <3>2
    <3> QED BY Zenon, <2>e, <2>1, <3>1, <3>3 DEF SessionInv, SessionsWithinLimit
  <2>2. ASSUME NEW c \in Caller, Admissible(c), wMap' = wMap \cup {c} PROVE SessionInv'
    <3>1. IsFiniteSet(wMap') /\ Cardinality(wMap') <= Cardinality(wMap) + 1
      BY SMTT(20), <2>t, <2>2, FS_AddElement
    <3>2. Cardinality(wMap') \in Nat /\ Cardinality(wMap) < MaxSessions /\ MaxSessions \in Nat
      BY Zenon, <2>2, <3>1, FS_CardinalityType, GrokAssumption DEF Admissible
    <3>3. Cardinality(wMap') <= MaxSessions
      BY <2>t, <3>1, <3>2
    <3>4. \A d, e \in wMap' : wSid'[d] = wSid'[e] => d = e
      BY <2>e, <2>2 DEF Admissible, SessionInv, SessionsWithinLimit
    <3> QED BY <2>e, <3>1, <3>3, <3>4 DEF SessionInv, SessionsWithinLimit
  <2> QED BY Zenon, <1>2, <2>t, <2>1, <2>2, SessionEffect
<1> QED BY Zenon, <1>1, <1>2

\* The connection starts with no session.
LEMMA SessionStart == GrokInit => SessionInv
<1> SUFFICES ASSUME GrokInit PROVE SessionInv
  BY Zenon
<1>1. DOMAIN wEnd = Caller /\ wMap = {}
  BY DEF GrokInit
<1>2. IsFiniteSet(wMap) /\ Cardinality(wMap) = 0
  BY Zenon, <1>1, FS_EmptySet
<1> QED BY <1>1, <1>2, GrokAssumption DEF SessionInv, SessionsWithinLimit

\* Racing opens never admit more sessions than the limit, nor two under one id:
\* admit_session looks at both under the lock it inserts with.
THEOREM SessionsAreBounded == GrokSpec => []SessionsWithinLimit
<1>1. SessionInv => SessionsWithinLimit
  BY DEF SessionInv
<1> QED BY <1>1, SessionStart, SessionStep, PTL DEF GrokSpec

\* A session's first end is its only one: SessionInner::finish swaps its flag.
THEOREM FirstEndIsLast == GrokSpec => FirstEndStands
<1>1. SessionInv /\ [GrokNext]_wVars =>
      [\A c \in Caller : wEnd[c] # "none" => wEnd'[c] = wEnd[c]]_wVars
  BY Zenon, SessionEffect DEF SessionInv
<1> QED BY <1>1, SessionStart, SessionStep, PTL DEF GrokSpec, FirstEndStands

-----------------------------------------------------------------------------
(* The MCP gateway.                                                        *)

Holders(t) == {r \in Request : gFor[r] = t /\ gSlot[r]}

GatewayType ==
    /\ gState \in [Route -> {"none", "pending", "active", "revoked"}]
    /\ gRoutes \subseteq Route
    /\ gServices \in [Route -> Nat] /\ gMade \in Nat
    /\ gFor \in [Request -> Route] /\ gSvc \in [Request -> Nat]
    /\ gSlot \in [Request -> BOOLEAN]
    /\ DOMAIN gPc = Request /\ DOMAIN gCoord = Route

\* The atom of a binding agrees with the table.
LiveInv == \A t \in Route : t \in gRoutes <=> gState[t] \in {"pending", "active"}

\* Nothing runs for a capability that was never installed; while its route is
\* live all its permits are of its one service.
ServiceInv ==
    /\ \A t \in Route : gCoord[t] = "new" =>
          t \notin gRoutes /\ \A r \in Request : gFor[r] = t => Ended(r) /\ ~gSlot[r]
    /\ \A t \in gRoutes, r \in Request :
          gFor[r] = t /\ gSlot[r] => gServices[t] # 0 /\ gSvc[r] = gServices[t]

GatewayInv == GatewayType /\ LiveInv /\ ServiceInv /\ CapabilityBound

\* A step that takes no permit keeps the bound of every route that stays live.
LEMMA HoldersShrink ==
    ASSUME GatewayInv, UNCHANGED gFor, gRoutes' \subseteq gRoutes,
           \A r \in Request : gSlot'[r] => gSlot[r]
    PROVE  CapabilityBound'
<1> SUFFICES ASSUME NEW t \in gRoutes' PROVE Cardinality(Holders(t)') <= MaxLocal
  BY DEF CapabilityBound, Holders
<1>1. Holders(t)' \subseteq Holders(t) /\ Holders(t) \subseteq Request
  BY Zenon DEF Holders
<1>2. IsFiniteSet(Holders(t)) /\ IsFiniteSet(Holders(t)')
  BY Zenon, <1>1, GatewayAssumption, FS_Subset
<1>3. Cardinality(Holders(t)') <= Cardinality(Holders(t))
  BY Zenon, <1>1, <1>2, FS_Subset
<1>4. Cardinality(Holders(t)) <= MaxLocal
  BY Zenon DEF GatewayInv, CapabilityBound, Holders
<1>5. Cardinality(Holders(t)') \in Nat /\ Cardinality(Holders(t)) \in Nat /\ MaxLocal \in Nat
  BY Zenon, <1>2, GatewayAssumption, FS_CardinalityType
<1> QED BY <1>3, <1>4, <1>5

\* Routes are revoked, one or all of them.
LEMMA RevokeKeeps ==
    ASSUME GatewayInv, NEW s, RevokeRoutes(s), UNCHANGED <<gMade, gPc, gFor, gSvc, gSlot>>,
           DOMAIN gCoord' = Route, \A t \in Route : gCoord'[t] = "new" => gCoord[t] = "new"
    PROVE  GatewayInv'
<1>1. GatewayType'
  BY Zenon DEF GatewayInv, GatewayType, RevokeRoutes
<1>2. LiveInv'
  BY Zenon DEF GatewayInv, GatewayType, LiveInv, RevokeRoutes
<1>3. ServiceInv'
  BY DEF GatewayInv, GatewayType, ServiceInv, RevokeRoutes, Ended
<1>4. CapabilityBound'
  BY Zenon, HoldersShrink DEF RevokeRoutes
<1> QED BY Zenon, <1>1, <1>2, <1>3, <1>4 DEF GatewayInv

\* What coordinators, the finalizer and the listener do.
LEMMA RouteKeeps ==
    ASSUME GatewayInv,
           \/ SignalShutdown \/ ServeEnds
           \/ \E t \in Route : \/ InstallPending(t) \/ ActivateRoute(t) \/ ExitCoordinator(t)
                               \/ SelectTerminal(t) \/ FinalizerDone(t)
    PROVE  GatewayInv'
<1>t. DOMAIN gCoord = Route /\ gSlot \in [Request -> BOOLEAN]
  BY Zenon DEF GatewayInv, GatewayType
<1>1. CASE SignalShutdown
  BY Zenon, <1>t, <1>1, RevokeKeeps DEF SignalShutdown, gReq
<1>2. CASE ServeEnds
  BY Zenon, <1>t, <1>2, RevokeKeeps DEF ServeEnds, gReq
<1>3. ASSUME NEW t \in Route, InstallPending(t) PROVE GatewayInv'
  <2>u. UNCHANGED <<gServices, gMade, gPc, gFor, gSvc, gSlot>> /\ gCoord[t] = "new"
    BY <1>3 DEF InstallPending, gReq
  <2>1. CASE UNCHANGED <<gState, gRoutes>> /\ gCoord' = [gCoord EXCEPT ![t] = "exited"]
    <3>1. GatewayType' /\ LiveInv'
      BY Zenon, <2>u, <2>1 DEF GatewayInv, GatewayType, LiveInv
    <3>2. ServiceInv'
      BY Zenon, <1>t, <2>u, <2>1 DEF GatewayInv, ServiceInv, Ended
    <3>3. CapabilityBound'
      BY Zenon, <2>u, <2>1, HoldersShrink
    <3> QED BY <3>1, <3>2, <3>3 DEF GatewayInv
  <2>2. CASE /\ gRoutes' = gRoutes \cup {t} /\ gState' = [gState EXCEPT ![t] = "pending"]
             /\ gCoord' = [gCoord EXCEPT ![t] = "installed"]
    <3>1. GatewayType' /\ LiveInv'
      BY Zenon, <2>u, <2>2 DEF GatewayInv, GatewayType, LiveInv
    <3>2. ServiceInv'
      BY ZenonT(30), <1>t, <2>u, <2>2 DEF GatewayInv, ServiceInv, Ended
    <3>3. CapabilityBound'
      <4> SUFFICES ASSUME NEW q \in gRoutes' PROVE Cardinality(Holders(q)') <= MaxLocal
        BY DEF CapabilityBound, Holders
      <4>1. Holders(q)' = Holders(q)
        BY Zenon, <2>u DEF Holders
      <4>2. CASE q = t
        <5>1. Holders(t) = {}
          BY Zenon, <2>u DEF GatewayInv, ServiceInv, Holders
        <5>2. Cardinality(Holders(q)') = 0
          BY Zenon, <4>1, <4>2, <5>1, FS_EmptySet
        <5> QED BY <5>2, GatewayAssumption
      <4>3. CASE q # t
        <5>1. q \in gRoutes
          BY Zenon, <2>2, <4>3
        <5> QED BY Zenon, <4>1, <5>1 DEF GatewayInv, CapabilityBound, Holders
      <4> QED BY Zenon, <4>2, <4>3
    <3> QED BY <3>1, <3>2, <3>3 DEF GatewayInv
  <2> QED BY Zenon, <1>3, <2>1, <2>2 DEF InstallPending
<1>4. ASSUME NEW t \in Route, ActivateRoute(t) PROVE GatewayInv'
  <2>u. /\ UNCHANGED <<gRoutes, gServices, gMade, gPc, gFor, gSvc, gSlot>> /\ t \in gRoutes
        /\ gState' = [gState EXCEPT ![t] = "active"] /\ gCoord' = [gCoord EXCEPT ![t] = "ready"]
    BY Zenon, <1>4 DEF ActivateRoute, gReq
  <2>1. GatewayType' /\ LiveInv'
    BY Zenon, <2>u DEF GatewayInv, GatewayType, LiveInv
  <2>2. ServiceInv'
    BY Zenon, <1>t, <2>u DEF GatewayInv, ServiceInv, Ended
  <2>3. CapabilityBound'
    BY Zenon, <2>u, HoldersShrink
  <2> QED BY Zenon, <2>1, <2>2, <2>3 DEF GatewayInv
<1>5. ASSUME NEW t \in Route, ExitCoordinator(t) PROVE GatewayInv'
  <2>1. gCoord' = [gCoord EXCEPT ![t] = "exited"]
    BY Zenon, <1>5 DEF ExitCoordinator
  <2>2. DOMAIN gCoord' = Route /\ \A q \in Route : gCoord'[q] = "new" => gCoord[q] = "new"
    BY Zenon, <1>t, <2>1
  <2> QED BY Zenon, <1>5, <2>2, RevokeKeeps DEF ExitCoordinator, gReq
<1>6. ASSUME NEW t \in Route, SelectTerminal(t) PROVE GatewayInv'
  <2>u. UNCHANGED <<gCoord, gState, gRoutes, gServices, gMade, gPc, gFor, gSvc, gSlot>>
    BY Zenon, <1>6 DEF SelectTerminal, gReq, gTable
  <2>1. GatewayType' /\ LiveInv' /\ ServiceInv'
    BY <2>u DEF GatewayInv, GatewayType, LiveInv, ServiceInv, Ended
  <2>2. CapabilityBound'
    BY Zenon, <2>u, HoldersShrink
  <2> QED BY Zenon, <2>1, <2>2 DEF GatewayInv
<1>7. ASSUME NEW t \in Route, FinalizerDone(t) PROVE GatewayInv'
  <2> DEFINE s == {r \in Request : gFor[r] = t /\ ~Ended(r) /\ gPc[r] # "spawn"}
  <2>u. /\ UNCHANGED <<gState, gRoutes, gServices, gMade, gFor, gSvc>> /\ Answer(s)
        /\ gCoord' = [gCoord EXCEPT ![t] = IF @ = "exited" THEN @ ELSE "aborted"]
    BY Zenon, <1>7 DEF FinalizerDone, gTable
  <2> HIDE DEF s
  <2>1. /\ gPc' = [r \in Request |-> IF r \in s THEN "done" ELSE gPc[r]]
        /\ gSlot' = [r \in Request |-> gSlot[r] /\ r \notin s]
    BY Zenon, <2>u DEF Answer
  <2>2. gSlot' \in [Request -> BOOLEAN] /\ \A r \in Request : gSlot'[r] => gSlot[r]
    BY Zenon, <1>t, <2>1
  <2>3. GatewayType' /\ LiveInv'
    BY Zenon, <2>u, <2>1, <2>2 DEF GatewayInv, GatewayType, LiveInv
  <2>4. \A q \in Route : gCoord'[q] = "new" => gCoord[q] = "new"
    BY Zenon, <1>t, <2>u
  <2>5. ServiceInv'
    BY <2>u, <2>1, <2>2, <2>4 DEF GatewayInv, ServiceInv, Ended
  <2>6. CapabilityBound'
    BY Zenon, <2>u, <2>2, HoldersShrink
  <2> QED BY Zenon, <2>3, <2>5, <2>6 DEF GatewayInv
<1> QED BY Zenon, <1>1, <1>2, <1>3, <1>4, <1>5, <1>6, <1>7

\* A request that takes no permit: it goes on, or is answered and gives it back.
LEMMA RequestKeeps ==
    ASSUME GatewayInv, NEW r \in Request, UNCHANGED <<gCoord, gState, gRoutes, gMade, gFor, gSvc>>,
           DOMAIN gPc' = Request, \A q \in Request \ {r} : gPc'[q] = gPc[q],
           gSlot' \in [Request -> BOOLEAN], \A q \in Request : gSlot'[q] => gSlot[q],
           \/ UNCHANGED gServices
           \/ gFor[r] \notin gRoutes /\ gServices' = [gServices EXCEPT ![gFor[r]] = 0],
           gPc'[r] \in {"idle", "done"} \/ gFor[r] \in gRoutes \/ ~Ended(r)
    PROVE  GatewayInv'
<1>1. GatewayType' /\ LiveInv'
  BY SMTT(20) DEF GatewayInv, GatewayType, LiveInv
<1>2. ServiceInv'
  <2>0. \A t \in Route : gCoord[t] = "new" =>
           t \notin gRoutes /\ \A q \in Request : gFor[q] = t => Ended(q) /\ ~gSlot[q]
    BY Zenon DEF GatewayInv, ServiceInv
  <2>1. \A t \in Route : gCoord[t] = "new" =>
           t \notin gRoutes /\ \A q \in Request : gFor[q] = t => Ended(q)' /\ ~gSlot'[q]
    <3> SUFFICES ASSUME NEW t \in Route, gCoord[t] = "new"
                 PROVE  t \notin gRoutes /\ \A q \in Request : gFor[q] = t => Ended(q)' /\ ~gSlot'[q]
      BY Zenon
    <3>1. t \notin gRoutes
      BY Zenon, <2>0
    <3>2. ASSUME NEW q \in Request, gFor[q] = t PROVE Ended(q)' /\ ~gSlot'[q]
      <4>1. Ended(q) /\ ~gSlot[q]
        BY Zenon, <2>0, <3>2
      <4>2. CASE q # r
        BY Zenon, <4>1, <4>2 DEF Ended
      <4>3. CASE q = r
        BY Zenon, <3>1, <3>2, <4>1, <4>3 DEF Ended
      <4> QED BY Zenon, <4>2, <4>3
    <3> QED BY Zenon, <3>1, <3>2
  <2>2. \A t \in gRoutes, q \in Request :
           gFor[q] = t /\ gSlot'[q] => gServices'[t] # 0 /\ gSvc[q] = gServices'[t]
    BY DEF GatewayInv, GatewayType, ServiceInv
  <2> QED BY <2>1, <2>2 DEF ServiceInv
<1>3. CapabilityBound'
  BY HoldersShrink
<1> QED BY Zenon, <1>1, <1>2, <1>3 DEF GatewayInv

\* The capability's permit, of the service of its route.
LEMMA ServiceKeeps ==
    ASSUME GatewayInv, NEW r \in Request, CapabilityService(r)
    PROVE  GatewayInv'
<1> DEFINE svc == IF gServices[gFor[r]] = 0 THEN gMade + 1 ELSE gServices[gFor[r]]
           held == {q \in Request : gSlot[q] /\ gSvc[q] = svc}
<1>u. /\ UNCHANGED <<gCoord, gState, gRoutes, gFor>> /\ gPc[r] = "service"
      /\ gServices' = [gServices EXCEPT ![gFor[r]] = svc] /\ gSvc' = [gSvc EXCEPT ![r] = svc]
      /\ gMade' = IF gServices[gFor[r]] = 0 THEN gMade + 1 ELSE gMade
  BY Zenon DEF CapabilityService
<1>s. svc \in Nat \ {0} /\ (gServices[gFor[r]] # 0 => svc = gServices[gFor[r]])
  BY DEF GatewayInv, GatewayType
<1>p. \/ Cardinality(held) < MaxLocal /\ gPc' = [gPc EXCEPT ![r] = "body"]
         /\ gSlot' = [gSlot EXCEPT ![r] = TRUE]
      \/ Answer({r})
  BY Zenon DEF CapabilityService
<1> HIDE DEF svc
<1>t. gSlot \in [Request -> BOOLEAN] /\ DOMAIN gPc = Request
  BY Zenon DEF GatewayInv, GatewayType
<1>a. /\ DOMAIN gPc' = Request /\ \A q \in Request \ {r} : gPc'[q] = gPc[q]
      /\ gSlot' \in [Request -> BOOLEAN] /\ \A q \in Request \ {r} : gSlot'[q] => gSlot[q]
  BY Zenon, <1>p, <1>t DEF Answer
<1>n. gCoord[gFor[r]] # "new"
  BY Zenon, <1>u DEF GatewayInv, GatewayType, ServiceInv, Ended
<1>1. GatewayType' /\ LiveInv'
  <2>1. gMade' \in Nat /\ gServices' \in [Route -> Nat] /\ gSvc' \in [Request -> Nat]
    BY <1>u, <1>s DEF GatewayInv, GatewayType
  <2> QED BY Zenon, <1>u, <1>a, <2>1 DEF GatewayInv, GatewayType, LiveInv
<1>2. ServiceInv'
  <2>0. \A t \in Route : gCoord[t] = "new" =>
           t \notin gRoutes /\ \A q \in Request : gFor[q] = t => Ended(q) /\ ~gSlot[q]
    BY Zenon DEF GatewayInv, ServiceInv
  <2>1. \A t \in Route : gCoord[t] = "new" =>
           t \notin gRoutes /\ \A q \in Request : gFor[q] = t => Ended(q)' /\ ~gSlot'[q]
    <3> SUFFICES ASSUME NEW t \in Route, gCoord[t] = "new"
                 PROVE  t \notin gRoutes /\ \A q \in Request : gFor[q] = t => Ended(q)' /\ ~gSlot'[q]
      BY Zenon
    <3>1. t \notin gRoutes
      BY Zenon, <2>0
    <3>2. ASSUME NEW q \in Request, gFor[q] = t PROVE Ended(q)' /\ ~gSlot'[q]
      <4>1. Ended(q) /\ ~gSlot[q]
        BY Zenon, <2>0, <3>2
      <4>2. CASE q # r
        BY <1>a, <4>1, <4>2 DEF Ended
      <4>3. CASE q = r
        BY Zenon, <1>n, <3>2, <4>3
      <4> QED BY Zenon, <4>2, <4>3
    <3> QED BY Zenon, <3>1, <3>2
  <2>2. \A t \in gRoutes, q \in Request :
           gFor[q] = t /\ gSlot'[q] => gServices'[t] # 0 /\ gSvc'[q] = gServices'[t]
    BY <1>u, <1>s, <1>a DEF GatewayInv, GatewayType, ServiceInv
  <2> QED BY ZenonT(30), <1>u, <2>1, <2>2 DEF ServiceInv
<1>3. CapabilityBound'
  <2>1. CASE Answer({r})
    <3>1. \A q \in Request : gSlot'[q] => gSlot[q]
      BY Zenon, <2>1, <1>t DEF Answer
    <3> QED BY Zenon, <1>u, <3>1, HoldersShrink
  <2>2. CASE Cardinality(held) < MaxLocal /\ gSlot' = [gSlot EXCEPT ![r] = TRUE]
    <3> SUFFICES ASSUME NEW t \in gRoutes' PROVE Cardinality(Holders(t)') <= MaxLocal
      BY DEF CapabilityBound, Holders
    <3>1. CASE t # gFor[r]
      <4>1. Holders(t)' = Holders(t) /\ t \in gRoutes
        BY Zenon, <1>u, <2>2, <3>1, <1>t DEF Holders
      <4> QED BY Zenon, <4>1 DEF GatewayInv, CapabilityBound, Holders
    <3>2. CASE t = gFor[r]
      <4>0. \A q \in Request : gFor[q] = t /\ gSlot[q] => gSvc[q] = svc
        BY Zenon, <1>u, <1>s, <3>2 DEF GatewayInv, ServiceInv
      <4>1. Holders(t)' \subseteq held \cup {r} /\ held \subseteq Request
        BY Zenon, <4>0, <1>u, <1>a DEF Holders
      <4>2. IsFiniteSet(held) /\ IsFiniteSet(held \cup {r})
        BY <4>1, GatewayAssumption, FS_Subset, FS_AddElement
      <4> HIDE DEF held
      <4>c. Cardinality(held) \in Nat
        BY Zenon, <4>2, FS_CardinalityType
      <4>3. Cardinality(held \cup {r}) <= Cardinality(held) + 1 /\ Cardinality(held) \in Nat
        BY <4>2, <4>c, FS_AddElement
      <4>4. Cardinality(Holders(t)') <= Cardinality(held \cup {r})
        BY Zenon, <4>1, <4>2, FS_Subset
      <4>5. Cardinality(Holders(t)') \in Nat /\ Cardinality(held \cup {r}) \in Nat /\ MaxLocal \in Nat
        BY Zenon, <4>1, <4>2, FS_Subset, FS_CardinalityType, GatewayAssumption
      <4> QED BY <2>2, <4>3, <4>4, <4>5
    <3> QED BY Zenon, <3>1, <3>2
  <2> QED BY Zenon, <1>p, <2>1, <2>2
<1> QED BY Zenon, <1>1, <1>2, <1>3 DEF GatewayInv

\* Every step of the gateway keeps the invariant.
LEMMA GatewayStep == GatewayInv /\ [GatewayNext]_gVars => GatewayInv'
<1> SUFFICES ASSUME GatewayInv, [GatewayNext]_gVars PROVE GatewayInv'
  BY Zenon
<1>t. gSlot \in [Request -> BOOLEAN] /\ DOMAIN gPc = Request
  BY Zenon DEF GatewayInv, GatewayType
<1>1. CASE UNCHANGED gVars
  <2>1. UNCHANGED <<gCoord, gState, gRoutes, gServices, gMade, gPc, gFor, gSvc, gSlot>>
    BY Zenon, <1>1 DEF gVars, gTable, gReq
  <2>2. CapabilityBound'
    BY Zenon, <2>1, HoldersShrink
  <2> QED BY <2>1, <2>2 DEF GatewayInv, GatewayType, LiveInv, ServiceInv, Ended
<1>2. ASSUME NEW r \in Request, Forward(r) \/ StillRouted(r) PROVE GatewayInv'
  <2>1. UNCHANGED <<gCoord, gState, gRoutes, gMade, gFor, gSvc>>
    BY Zenon, <1>2 DEF Forward, StillRouted
  <2>2. /\ DOMAIN gPc' = Request /\ \A q \in Request \ {r} : gPc'[q] = gPc[q]
        /\ gSlot' \in [Request -> BOOLEAN] /\ \A q \in Request : gSlot'[q] => gSlot[q]
    BY Zenon, <1>2, <1>t DEF Forward, StillRouted, Unknown, GoReq, Answer
  <2>3. \/ UNCHANGED gServices
        \/ gFor[r] \notin gRoutes /\ gServices' = [gServices EXCEPT ![gFor[r]] = 0]
    BY Zenon, <1>2 DEF Forward, StillRouted, Unknown
  <2>4. gPc'[r] \in {"idle", "done"} \/ gFor[r] \in gRoutes
    BY Zenon, <1>2, <1>t DEF Forward, StillRouted, Unknown, Answer
  <2> QED BY Zenon, <2>1, <2>2, <2>3, <2>4, RequestKeeps
<1>3. ASSUME NEW r \in Request,
             RunOwned(r) \/ GlobalPermit(r) \/ ReadBody(r) \/ HandleRequest(r)
               \/ StartCall(r) \/ AwaitCall(r)
      PROVE  GatewayInv'
  <2>1. UNCHANGED <<gCoord, gState, gRoutes, gServices, gMade, gFor, gSvc>>
    BY Zenon, <1>3 DEF RunOwned, GlobalPermit, ReadBody, HandleRequest, StartCall, AwaitCall, gTable
  <2>2. GoReq(r, gPc[r], gPc'[r]) \/ Answer({r})
    BY Zenon, <1>3, <1>t DEF RunOwned, GlobalPermit, ReadBody, HandleRequest, StartCall, AwaitCall, GoReq
  <2>3. /\ DOMAIN gPc' = Request /\ \A q \in Request \ {r} : gPc'[q] = gPc[q]
        /\ gSlot' \in [Request -> BOOLEAN] /\ \A q \in Request : gSlot'[q] => gSlot[q]
    BY Zenon, <2>2, <1>t DEF GoReq, Answer
  <2>4. ~Ended(r)
    BY Zenon, <1>3 DEF RunOwned, GlobalPermit, ReadBody, HandleRequest, StartCall, AwaitCall, Ended
  <2> QED BY Zenon, <2>1, <2>3, <2>4, RequestKeeps
<1> QED BY Zenon, <1>1, <1>2, <1>3, ServiceKeeps, RouteKeeps DEF GatewayNext, RequestStep

\* The gateway starts in the invariant.
LEMMA GatewayStart == GatewayInit => GatewayInv
<1> SUFFICES ASSUME GatewayInit PROVE GatewayInv
  BY Zenon
<1>1. GatewayType /\ LiveInv /\ ServiceInv
  BY Zenon DEF GatewayInit, GatewayType, LiveInv, ServiceInv, Ended
<1>2. CapabilityBound
  BY DEF GatewayInit, CapabilityBound
<1> QED BY <1>1, <1>2 DEF GatewayInv

\* However routes come and go, the requests that hold a permit of one live
\* capability never outnumber its limit: the capability's service is made once
\* while its route is live (capability_service_for's or_insert_with).
THEOREM CapabilityIsBounded == GatewaySpec => []CapabilityBound
<1>1. GatewayInv => CapabilityBound
  BY Zenon DEF GatewayInv
<1> QED BY <1>1, GatewayStart, GatewayStep, PTL DEF GatewaySpec

\* A request past the capability's permit holds it until it is answered.
SlotInv == \A r \in Request : gPc[r] \in {"body", "handle", "dispatch", "call"} => gSlot[r]

\* What a step does to one request: it is none of the calls afterwards, or was
\* one before, or ensure_active let it pass; and its permit is still held.
LEMMA CallEffect ==
    ASSUME GatewayType, SlotInv, [GatewayNext]_gVars, NEW r \in Request
    PROVE  /\ gFor'[r] = gFor[r]
           /\ gPc'[r] \in {"body", "handle", "dispatch", "call"} => gSlot'[r]
           /\ gPc'[r] \in {"dispatch", "call"} =>
                 \/ gPc[r] \in {"dispatch", "call"}
                 \/ ensure_active(r) /\ UNCHANGED gRoutes
<1>t. DOMAIN gPc = Request /\ gSlot \in [Request -> BOOLEAN] /\ gFor[r] \in Route
  BY Zenon DEF GatewayType
<1>0. gPc[r] \in {"body", "handle", "dispatch", "call"} => gSlot[r]
  BY Zenon DEF SlotInv
<1>1. CASE UNCHANGED gVars
  BY Zenon, <1>0, <1>1 DEF gVars, gReq
<1>2. CASE \/ SignalShutdown \/ ServeEnds
           \/ \E t \in Route : InstallPending(t) \/ ActivateRoute(t) \/ ExitCoordinator(t)
                               \/ SelectTerminal(t)
  BY Zenon, <1>0, <1>2 DEF SignalShutdown, ServeEnds, InstallPending, ActivateRoute, ExitCoordinator,
     SelectTerminal, gReq
<1>3. ASSUME NEW s, Answer(s), UNCHANGED gFor
      PROVE  /\ gFor'[r] = gFor[r]
             /\ gPc'[r] \in {"body", "handle", "dispatch", "call"} => gSlot'[r]
             /\ gPc'[r] \in {"dispatch", "call"} => gPc[r] \in {"dispatch", "call"}
  BY Zenon, <1>0, <1>3 DEF Answer
<1>4. CASE \E t \in Route : FinalizerDone(t)
  BY Zenon, <1>3, <1>4 DEF FinalizerDone
<1>5. ASSUME NEW q \in Request, Forward(q) \/ RequestStep(q)
      PROVE  /\ gFor'[r] = gFor[r]
             /\ gPc'[r] \in {"body", "handle", "dispatch", "call"} => gSlot'[r]
             /\ gPc'[r] \in {"dispatch", "call"} =>
                   \/ gPc[r] \in {"dispatch", "call"}
                   \/ ensure_active(r) /\ UNCHANGED gRoutes
  <2>1. UNCHANGED gFor
    BY Zenon, <1>5 DEF Forward, RequestStep, RunOwned, StillRouted, GlobalPermit, CapabilityService,
       ReadBody, HandleRequest, StartCall, AwaitCall
  <2>2. CASE Answer({q})
    BY Zenon, <1>3, <2>1, <2>2
  <2>3. CASE CapabilityService(q) /\ ~Answer({q})
    BY Zenon, <1>t, <1>0, <2>1, <2>3 DEF CapabilityService
  <2>4. CASE ~CapabilityService(q) /\ ~Answer({q})
    <3>1. \/ GoReq(q, "idle", "spawn") \/ GoReq(q, "spawn", "check") \/ GoReq(q, "check", "permit")
          \/ GoReq(q, "permit", "service") \/ GoReq(q, "body", "handle") \/ GoReq(q, "dispatch", "call")
          \/ GoReq(q, "handle", "dispatch") /\ ensure_active(q) /\ UNCHANGED gRoutes
      BY Zenon, <1>5, <2>4 DEF Forward, RequestStep, RunOwned, StillRouted, GlobalPermit, ReadBody,
         HandleRequest, StartCall, AwaitCall, Unknown, gTable
    <3> QED BY Zenon, <1>t, <1>0, <2>1, <3>1 DEF GoReq
  <2> QED BY Zenon, <2>2, <2>3, <2>4
<1> QED BY Zenon, <1>1, <1>2, <1>4, <1>5 DEF GatewayNext

\* The calls of a capability, of which a route that is not live gains none.
LEMMA CallsStep ==
    ASSUME GatewayInv, GatewayInv', SlotInv, CallsBounded, [GatewayNext]_gVars
    PROVE  SlotInv' /\ CallsBounded'
<1>e. \A r \in Request :
        /\ gFor'[r] = gFor[r]
        /\ gPc'[r] \in {"body", "handle", "dispatch", "call"} => gSlot'[r]
        /\ gPc'[r] \in {"dispatch", "call"} =>
              \/ gPc[r] \in {"dispatch", "call"}
              \/ ensure_active(r) /\ UNCHANGED gRoutes
  BY Zenon, CallEffect DEF GatewayInv
<1>1. SlotInv'
  BY Zenon, <1>e DEF SlotInv
<1>2. ASSUME NEW t \in Route PROVE Cardinality(Calls(t)') <= MaxLocal
  <2>f. /\ IsFiniteSet(Calls(t)) /\ IsFiniteSet(Calls(t)') /\ IsFiniteSet(Holders(t)')
        /\ MaxLocal \in Nat
    <3>1. Calls(t) \subseteq Request /\ Calls(t)' \subseteq Request /\ Holders(t)' \subseteq Request
      BY Zenon DEF Calls, Holders
    <3> QED BY Zenon, <3>1, GatewayAssumption, FS_Subset
  <2>n. /\ Cardinality(Calls(t)) \in Nat /\ Cardinality(Calls(t)') \in Nat
        /\ Cardinality(Holders(t)') \in Nat
    BY Zenon, <2>f, FS_CardinalityType
  <2>1. CASE Calls(t)' \subseteq Calls(t)
    <3>1. Cardinality(Calls(t)') <= Cardinality(Calls(t))
      BY Zenon, <2>f, <2>1, FS_Subset
    <3>2. Cardinality(Calls(t)) <= MaxLocal
      BY Zenon DEF CallsBounded
    <3> QED BY <2>f, <2>n, <3>1, <3>2
  <2>2. CASE ~(Calls(t)' \subseteq Calls(t))
    <3>1. PICK r \in Request : gFor[r] = t /\ ensure_active(r) /\ UNCHANGED gRoutes
      BY Zenon, <1>e, <2>2 DEF Calls
    <3>2. t \in gRoutes'
      BY Zenon, <1>2, <3>1 DEF GatewayInv, LiveInv, ensure_active
    <3>3. Calls(t)' \subseteq Holders(t)'
      BY Zenon, <1>1 DEF SlotInv, Calls, Holders
    <3>4. Cardinality(Calls(t)') <= Cardinality(Holders(t)')
      BY Zenon, <2>f, <3>3, FS_Subset
    <3>5. Cardinality(Holders(t)') <= MaxLocal
      BY Zenon, <3>2 DEF GatewayInv, CapabilityBound, Holders
    <3> QED BY <2>f, <2>n, <3>4, <3>5
  <2> QED BY Zenon, <2>1, <2>2
<1> QED BY Zenon, <1>1, <1>2 DEF CallsBounded

\* The tool calls of a capability never outnumber its limit, its revocation and
\* the second service that leftover requests may make included: only an active
\* capability gains calls, and its route is then in the table.
THEOREM CallsAreBounded == GatewaySpec => []CallsBounded
<1>1. GatewayInit => GatewayInv /\ SlotInv /\ CallsBounded
  <2> SUFFICES ASSUME GatewayInit PROVE SlotInv /\ CallsBounded
    BY Zenon, GatewayStart
  <2>1. \A r \in Request : gPc[r] = "idle"
    BY Zenon DEF GatewayInit
  <2>2. \A t \in Route : Calls(t) = {}
    BY Zenon, <2>1 DEF Calls
  <2>3. \A t \in Route : Cardinality(Calls(t)) = 0
    BY Zenon, <2>2, FS_EmptySet
  <2>4. CallsBounded
    BY <2>3, GatewayAssumption DEF CallsBounded
  <2> QED BY Zenon, <2>1, <2>4 DEF SlotInv
<1>2. GatewayInv /\ SlotInv /\ CallsBounded /\ [GatewayNext]_gVars =>
      GatewayInv' /\ SlotInv' /\ CallsBounded'
  BY Zenon, GatewayStep, CallsStep
<1> QED BY <1>1, <1>2, PTL DEF GatewaySpec

-----------------------------------------------------------------------------
(* The byte counter of the mailbox: sums over finite sets and sequences.   *)

\* A set of subsets of a finite set has a member that is minimal for inclusion: the
\* induction over finite sets that the proofs about sums use.
LEMMA LeastSet ==
    ASSUME NEW S, IsFiniteSet(S), NEW T, T \subseteq SUBSET S, T # {}
    PROVE  \E x \in T : \A y \in T : ~(y \subseteq x /\ y # x)
<1>1. IsWellFoundedOn(StrictSubsetOrdering(S), FiniteSubsetsOf(S))
  BY FS_StrictSubsetOrderingWellFounded
<1>2. FiniteSubsetsOf(S) = SUBSET S
  BY FS_FiniteSubsetsOfFinite
<1>3. PICK x \in T : \A y \in T : ~(<<y, x>> \in StrictSubsetOrdering(S))
  BY <1>1, <1>2, WFMin
<1> QED BY <1>2, <1>3 DEF StrictSubsetOrdering

\* One element of a set, as SumFunctionOnSet takes it, and the others.
Pick(s) == CHOOSE x \in s : TRUE
Rest(s) == s \ {Pick(s)}

\* g sums f over the subsets of S; SumOf is the function behind SumFunctionOnSet.
Sums(g, f, S) == g = [s \in SUBSET S |-> IF s = {} THEN 0 ELSE f[Pick(s)] + g[Rest(s)]]
SumOf(f, S) == CHOOSE g : Sums(g, f, S)

\* The sum over S is the value at S of the function that sums over subsets.
LEMMA SumIs ==
    ASSUME NEW f, NEW S
    PROVE  SumFunctionOnSet(f, S) = SumOf(f, S)[S]
BY Zenon DEF SumFunctionOnSet, FoldFunctionOnSet, MapThenFoldSet, SumOf, Sums, Pick, Rest

\* What such a function is at a subset.
LEMMA SumsAt ==
    ASSUME NEW f, NEW S, NEW g, Sums(g, f, S), NEW s \in SUBSET S
    PROVE  g[s] = IF s = {} THEN 0 ELSE f[Pick(s)] + g[Rest(s)]
<1> DEFINE b == [u \in SUBSET S |-> IF u = {} THEN 0 ELSE f[Pick(u)] + g[Rest(u)]]
<1>1. g = b
  BY Zenon DEF Sums
<1>2. b[s] = IF s = {} THEN 0 ELSE f[Pick(s)] + g[Rest(s)]
  BY Zenon
<1> QED BY Zenon, <1>1, <1>2

\* The element that is summed first, and the others.
LEMMA PickIn ==
    ASSUME NEW s, s # {}
    PROVE  Pick(s) \in s /\ Rest(s) \subseteq s /\ Rest(s) # s
BY Zenon DEF Pick, Rest

\* Two such functions agree where both are defined.
LEMMA SumsAgree ==
    ASSUME NEW f, NEW S, IsFiniteSet(S), NEW T, IsFiniteSet(T), NEW g, NEW h, Sums(g, f, S), Sums(h, f, T),
           NEW s \in SUBSET (S \cap T)
    PROVE  g[s] = h[s]
<1> DEFINE Bad == {u \in SUBSET (S \cap T) : g[u] # h[u]}
<1> SUFFICES ASSUME Bad # {} PROVE FALSE
  BY Zenon
<1>1. IsFiniteSet(S \cap T)
  BY Zenon, FS_Intersection
<1>2. PICK u \in Bad : \A v \in Bad : ~(v \subseteq u /\ v # u)
  <2>1. Bad \subseteq SUBSET (S \cap T) OBVIOUS
  <2> HIDE DEF Bad
  <2> QED BY SMTT(20), <1>1, <2>1, LeastSet
<1>3. u \in SUBSET S /\ u \in SUBSET T
  BY <1>2
<1>4. CASE u = {}
  BY Zenon, <1>2, <1>3, <1>4, SumsAt
<1>5. CASE u # {}
  <2>1. Rest(u) \notin Bad /\ Rest(u) \in SUBSET (S \cap T)
    BY Zenon, <1>2, <1>5, PickIn
  <2>2. g[Rest(u)] = h[Rest(u)]
    BY Zenon, <2>1
  <2>3. g[u] = f[Pick(u)] + g[Rest(u)] /\ h[u] = f[Pick(u)] + h[Rest(u)]
    BY <1>3, <1>5, SumsAt
  <2> QED BY Zenon, <1>2, <2>2, <2>3
<1> QED BY Zenon, <1>4, <1>5

\* There is such a function for a finite set, so SumOf is one.
LEMMA SumsExist ==
    ASSUME NEW f, NEW S, IsFiniteSet(S)
    PROVE  Sums(SumOf(f, S), f, S)
<1> DEFINE Bad == {T \in SUBSET S : ~Sums(SumOf(f, T), f, T)}
<1> SUFFICES ASSUME Bad # {} PROVE FALSE
  BY Zenon
<1>1. PICK T \in Bad : \A v \in Bad : ~(v \subseteq T /\ v # T)
  <2>1. Bad \subseteq SUBSET S OBVIOUS
  <2> HIDE DEF Bad
  <2> QED BY <2>1, LeastSet
<1>2. T \in SUBSET S /\ ~Sums(SumOf(f, T), f, T)
  BY <1>1
<1>3. ASSUME NEW u \in SUBSET T, u # T
      PROVE  Sums(SumOf(f, u), f, u) /\ IsFiniteSet(u)
  BY Zenon, <1>1, <1>2, <1>3, FS_Subset
<1> DEFINE g == [s \in SUBSET T |-> IF s = {} THEN 0 ELSE f[Pick(s)] + SumOf(f, Rest(s))[Rest(s)]]
<1>4. ASSUME NEW u \in SUBSET T, u # T
      PROVE  g[u] = SumOf(f, u)[u]
  <2>1. CASE u = {}
    <3>1. Sums(SumOf(f, u), f, u) /\ u \in SUBSET u
      BY Zenon, <1>3, <1>4
    <3>2. SumOf(f, u)[u] = 0
      BY <2>1, <3>1, SumsAt
    <3> QED BY Zenon, <2>1, <3>2
  <2>2. CASE u # {}
    <3>1. Rest(u) \in SUBSET T /\ Rest(u) # T /\ Rest(u) \in SUBSET (u \cap Rest(u))
      BY Zenon, <2>2, <1>4, PickIn
    <3>2. SumOf(f, u)[Rest(u)] = SumOf(f, Rest(u))[Rest(u)]
      BY SMTT(20), <3>1, <1>3, <1>4, SumsAgree
    <3>3. SumOf(f, u)[u] = f[Pick(u)] + SumOf(f, u)[Rest(u)]
      BY <2>2, <1>3, <1>4, SumsAt
    <3> QED BY Zenon, <2>2, <3>2, <3>3
  <2> QED BY Zenon, <2>1, <2>2
<1>5. Sums(g, f, T)
  <2>1. ASSUME NEW s \in SUBSET T, s # {}
        PROVE  SumOf(f, Rest(s))[Rest(s)] = g[Rest(s)]
    <3>1. Rest(s) \in SUBSET T /\ Rest(s) # T
      BY Zenon, <2>1, PickIn
    <3> HIDE DEF g
    <3> QED BY Zenon, <3>1, <1>4
  <2>2. ASSUME NEW s \in SUBSET T
        PROVE  (IF s = {} THEN 0 ELSE f[Pick(s)] + SumOf(f, Rest(s))[Rest(s)])
                 = (IF s = {} THEN 0 ELSE f[Pick(s)] + g[Rest(s)])
    <3> HIDE DEF g
    <3> QED BY Zenon, <2>1
  <2>3. g = [s \in SUBSET T |-> IF s = {} THEN 0 ELSE f[Pick(s)] + g[Rest(s)]]
    <3> DEFINE h == [s \in SUBSET T |-> IF s = {} THEN 0 ELSE f[Pick(s)] + g[Rest(s)]]
    <3>1. \A s \in SUBSET T : g[s] = h[s]
      BY <2>2, Zenon
    <3> QED BY <3>1, Zenon
  <2> QED BY Zenon, <2>3 DEF Sums
<1> QED BY Zenon, <1>2, <1>5 DEF SumOf

\* A sum is its first element and the sum of the others.
LEMMA SumUnfold ==
    ASSUME NEW f, NEW S, IsFiniteSet(S), S # {}
    PROVE  SumFunctionOnSet(f, S) = f[Pick(S)] + SumFunctionOnSet(f, Rest(S))
<1>1. Rest(S) \in SUBSET S /\ IsFiniteSet(Rest(S)) /\ Rest(S) \in SUBSET (S \cap Rest(S))
  BY Zenon, PickIn, FS_Subset
<1>2. Sums(SumOf(f, S), f, S) /\ Sums(SumOf(f, Rest(S)), f, Rest(S))
  BY Zenon, <1>1, SumsExist
<1>3. SumOf(f, S)[Rest(S)] = SumOf(f, Rest(S))[Rest(S)]
  BY SMTT(20), <1>1, <1>2, SumsAgree
<1>4. SumOf(f, S)[S] = f[Pick(S)] + SumOf(f, S)[Rest(S)]
  <2>1. S \in SUBSET S OBVIOUS
  <2> QED BY <1>2, <2>1, SumsAt
<1> QED BY Zenon, <1>3, <1>4, SumIs

\* The sum over no element.
LEMMA SumEmpty ==
    ASSUME NEW f
    PROVE  SumFunctionOnSet(f, {}) = 0
<1>1. Sums(SumOf(f, {}), f, {}) /\ {} \in SUBSET {}
  BY SMTT(20), SumsExist, FS_EmptySet
<1>2. SumOf(f, {})[{}] = 0
  BY SMTT(20), <1>1, SumsAt
<1> QED BY Zenon, <1>2, SumIs

\* A sum of natural numbers is one.
LEMMA SumType ==
    ASSUME NEW f, NEW S, IsFiniteSet(S), \A x \in S : f[x] \in Nat
    PROVE  SumFunctionOnSet(f, S) \in Nat
<1> DEFINE Bad == {T \in SUBSET S : SumFunctionOnSet(f, T) \notin Nat}
<1> SUFFICES ASSUME Bad # {} PROVE FALSE
  BY Zenon
<1>1. PICK T \in Bad : \A v \in Bad : ~(v \subseteq T /\ v # T)
  <2>1. Bad \subseteq SUBSET S OBVIOUS
  <2> HIDE DEF Bad
  <2> QED BY <2>1, LeastSet
<1>2. T \in SUBSET S /\ SumFunctionOnSet(f, T) \notin Nat /\ IsFiniteSet(T)
  BY Zenon, <1>1, FS_Subset
<1>3. T # {}
  BY <1>2, SumEmpty
<1>4. Rest(T) \subseteq T /\ Rest(T) # T /\ Pick(T) \in T
  BY Zenon, <1>3, PickIn
<1>5. SumFunctionOnSet(f, Rest(T)) \in Nat
  BY Zenon, <1>1, <1>2, <1>4
<1>6. SumFunctionOnSet(f, T) = f[Pick(T)] + SumFunctionOnSet(f, Rest(T))
  BY Zenon, <1>2, <1>3, SumUnfold
<1>7. f[Pick(T)] \in Nat
  BY Zenon, <1>2, <1>4
<1> QED BY <1>2, <1>5, <1>6, <1>7

\* Any element may be taken out of a sum first: the sum does not depend on the
\* order CHOOSE takes the elements in.
LEMMA SumRemove ==
    ASSUME NEW f, NEW S, IsFiniteSet(S), \A x \in S : f[x] \in Nat, NEW e \in S
    PROVE  SumFunctionOnSet(f, S) = f[e] + SumFunctionOnSet(f, S \ {e})
<1> DEFINE Holds(T) == \A x \in T : SumFunctionOnSet(f, T) = f[x] + SumFunctionOnSet(f, T \ {x})
<1> DEFINE Bad == {T \in SUBSET S : ~Holds(T)}
<1> SUFFICES ASSUME Bad # {} PROVE FALSE
  <2>1. S \in SUBSET S OBVIOUS
  <2> QED BY Zenon, <2>1
<1>1. PICK T \in Bad : \A v \in Bad : ~(v \subseteq T /\ v # T)
  <2>1. Bad \subseteq SUBSET S OBVIOUS
  <2> HIDE DEF Bad
  <2> QED BY <2>1, LeastSet
<1>2. T \in SUBSET S /\ ~Holds(T) /\ IsFiniteSet(T)
  BY Zenon, <1>1, FS_Subset
<1>3. PICK x \in T : SumFunctionOnSet(f, T) # f[x] + SumFunctionOnSet(f, T \ {x})
  BY Zenon, <1>2
<1> DEFINE c == Pick(T)  U == T \ {c}  V == T \ {x}  W == U \ {x}
<1>4. c \in T /\ SumFunctionOnSet(f, T) = f[c] + SumFunctionOnSet(f, U)
  BY Zenon, <1>2, <1>3, SumUnfold, PickIn DEF Rest
<1>5. x # c
  BY Zenon, <1>3, <1>4
<1>6. U \in SUBSET S /\ V \in SUBSET S /\ U \notin Bad /\ V \notin Bad /\ x \in U /\ c \in V
      /\ V \ {c} = W
  <2>1. U \in SUBSET S /\ V \in SUBSET S /\ U \subseteq T /\ U # T /\ V \subseteq T /\ V # T
        /\ x \in U /\ c \in V /\ V \ {c} = W
    BY <1>2, <1>3, <1>4, <1>5
  <2> HIDE DEF U, V, W, c, Holds, Bad
  <2> QED BY Zenon, <1>1, <2>1
<1>7. SumFunctionOnSet(f, U) = f[x] + SumFunctionOnSet(f, W)
  BY Zenon, <1>6
<1>8. SumFunctionOnSet(f, V) = f[c] + SumFunctionOnSet(f, W)
  BY Zenon, <1>6
<1>9. SumFunctionOnSet(f, W) \in Nat /\ f[x] \in Nat /\ f[c] \in Nat
  <2>1. IsFiniteSet(W) /\ W \subseteq S /\ c \in S /\ x \in S
    BY <1>2, <1>3, <1>4, FS_Subset
  <2> HIDE DEF W, c
  <2> QED BY Zenon, <2>1, SumType
<1> HIDE DEF U, V, W, c
<1> QED BY SMTT(20), <1>3, <1>4, <1>7, <1>8, <1>9 DEF V

\* Functions that agree on a set have the same sum over it.
LEMMA SumSame ==
    ASSUME NEW f, NEW g, NEW S, IsFiniteSet(S), \A x \in S : f[x] = g[x]
    PROVE  SumFunctionOnSet(f, S) = SumFunctionOnSet(g, S)
<1> DEFINE Bad == {T \in SUBSET S : SumFunctionOnSet(f, T) # SumFunctionOnSet(g, T)}
<1> SUFFICES ASSUME Bad # {} PROVE FALSE
  BY Zenon
<1>1. PICK T \in Bad : \A v \in Bad : ~(v \subseteq T /\ v # T)
  <2>1. Bad \subseteq SUBSET S OBVIOUS
  <2> HIDE DEF Bad
  <2> QED BY <2>1, LeastSet
<1>2. T \in SUBSET S /\ SumFunctionOnSet(f, T) # SumFunctionOnSet(g, T) /\ IsFiniteSet(T)
  BY Zenon, <1>1, FS_Subset
<1>3. T # {}
  BY Zenon, <1>2, SumEmpty
<1>4. Rest(T) \subseteq T /\ Rest(T) # T /\ Pick(T) \in T
  BY Zenon, <1>3, PickIn
<1>5. SumFunctionOnSet(f, Rest(T)) = SumFunctionOnSet(g, Rest(T)) /\ f[Pick(T)] = g[Pick(T)]
  BY Zenon, <1>1, <1>2, <1>4
<1> QED BY Zenon, <1>2, <1>3, <1>5, SumUnfold

\* An element is added to a sum.
LEMMA SumAdd ==
    ASSUME NEW f, NEW S, IsFiniteSet(S), NEW e, e \notin S, \A x \in S \cup {e} : f[x] \in Nat
    PROVE  SumFunctionOnSet(f, S \cup {e}) = f[e] + SumFunctionOnSet(f, S)
<1>1. IsFiniteSet(S \cup {e}) /\ e \in S \cup {e} /\ (S \cup {e}) \ {e} = S
  BY FS_AddElement
<1> QED BY <1>1, SumRemove

\* A set of natural numbers has a least element.
LEMMA Least ==
    ASSUME NEW T, T \subseteq Nat, T # {}
    PROVE  \E n \in T : \A m \in T : n <= m
<1> DEFINE R == OpToRel(<, Nat)
<1>1. IsWellFoundedOn(R, Nat)
  BY NatLessThanWellFounded DEF OpToRel
<1>2. \A n, m \in Nat : m < n => <<m, n>> \in R
  BY DEF OpToRel
<1> HIDE DEF R
<1>3. PICK n \in T : \A m \in T : ~(<<m, n>> \in R)
  BY <1>1, WFMin
<1>4. \A m \in T : ~(m < n)
  BY Zenon, <1>2, <1>3
<1>5. \A m \in Nat : ~(m < n) => n <= m
  BY <1>3
<1> QED BY Zenon, <1>3, <1>4, <1>5

\* The sum of one more event of a queue.
LEMMA PrefixSum ==
    ASSUME NEW s \in Seq(Nat), NEW k \in Nat, k + 1 <= Len(s)
    PROVE  SumFunctionOnSet(s, 1 .. k + 1) = s[k + 1] + SumFunctionOnSet(s, 1 .. k)
<1>1. IsFiniteSet(1 .. k) /\ k + 1 \notin 1 .. k
  BY FS_Interval
<1>2. \A x \in (1 .. k) \cup {k + 1} : s[x] \in Nat
  BY SeqLen
<1>3. (1 .. k) \cup {k + 1} = 1 .. k + 1
  OBVIOUS
<1> QED BY <1>1, <1>2, <1>3, SumAdd

\* The sum of a queue and of what is left of it after a receive.
LEMMA SumTail ==
    ASSUME NEW s \in Seq(Nat), s # <<>>
    PROVE  SumFunction(s) = Head(s) + SumFunction(Tail(s))
<1> DEFINE t == Tail(s)
           Agrees(k) == SumFunctionOnSet(s, 1 .. k + 1) = Head(s) + SumFunctionOnSet(t, 1 .. k)
           Bad == {k \in Nat : k < Len(s) /\ ~Agrees(k)}
<1>1. /\ t \in Seq(Nat) /\ Len(t) = Len(s) - 1 /\ Len(s) \in Nat /\ Len(s) > 0
      /\ \A i \in 1 .. Len(t) : t[i] = s[i + 1]
      /\ Head(s) = s[1] /\ s[1] \in Nat
      /\ DOMAIN s = 1 .. Len(s) /\ DOMAIN t = 1 .. Len(t)
  OBVIOUS
<1> HIDE DEF t
<1>2. Agrees(0)
  <2>1. SumFunctionOnSet(s, 1 .. 0 + 1) = s[0 + 1] + SumFunctionOnSet(s, 1 .. 0)
    <3>1. 0 \in Nat /\ 0 + 1 <= Len(s)
      BY <1>1
    <3> QED BY Zenon, <3>1, PrefixSum
  <2>2. 1 .. 0 = {}
    OBVIOUS
  <2>3. SumFunctionOnSet(s, 1 .. 0) = 0 /\ SumFunctionOnSet(t, 1 .. 0) = 0
    BY Zenon, <2>2, SumEmpty
  <2> QED BY <1>1, <2>1, <2>3
<1>3. ASSUME NEW k \in Nat, k + 1 < Len(s), Agrees(k)
      PROVE  Agrees(k + 1)
  <2>1. SumFunctionOnSet(s, 1 .. (k + 1) + 1) = s[(k + 1) + 1] + SumFunctionOnSet(s, 1 .. k + 1)
    <3>1. k + 1 \in Nat /\ (k + 1) + 1 <= Len(s)
      BY <1>1, <1>3
    <3> QED BY <3>1, PrefixSum
  <2>2. SumFunctionOnSet(t, 1 .. k + 1) = t[k + 1] + SumFunctionOnSet(t, 1 .. k)
    <3>1. k + 1 <= Len(t)
      BY <1>1, <1>3
    <3> QED BY Zenon, <1>1, <3>1, PrefixSum
  <2>3. t[k + 1] = s[(k + 1) + 1] /\ t[k + 1] \in Nat
    <3>1. k + 1 \in 1 .. Len(t)
      BY <1>1, <1>3
    <3> QED BY Zenon, <1>1, <3>1, SeqLen
  <2>4. SumFunctionOnSet(t, 1 .. k) \in Nat
    <3>1. \A x \in 1 .. k : t[x] \in Nat
      <4>1. \A x \in 1 .. k : x \in DOMAIN t
        BY <1>1, <1>3
      <4>2. \A x \in DOMAIN t : t[x] \in Nat
        BY Zenon, <1>1, SeqLen
      <4> QED BY Zenon, <4>1, <4>2
    <3>2. IsFiniteSet(1 .. k)
      BY FS_Interval
    <3> QED BY Zenon, <3>1, <3>2, SumType
  <2> DEFINE a == SumFunctionOnSet(s, 1 .. k + 1)  b == SumFunctionOnSet(t, 1 .. k)
  <2>5. a = Head(s) + b /\ b \in Nat /\ Head(s) \in Nat /\ t[k + 1] \in Nat
    BY Zenon, <1>1, <1>3, <2>3, <2>4
  <2>6. t[k + 1] + a = Head(s) + (t[k + 1] + b)
    <3>1. \A n, h, m \in Nat : n + (h + m) = h + (n + m)
      OBVIOUS
    <3> HIDE DEF a, b
    <3> QED BY Zenon, <2>5, <3>1
  <2> QED BY Zenon, <2>1, <2>2, <2>3, <2>6
<1>4. Bad = {}
  <2> SUFFICES ASSUME Bad # {} PROVE FALSE
    OBVIOUS
  <2>0. Bad \subseteq Nat
    OBVIOUS
  <2>1. PICK k \in Bad : \A m \in Bad : k <= m
    <3> HIDE DEF Bad
    <3> QED BY <2>0, Least
  <2>2. k \in Nat /\ k < Len(s) /\ ~Agrees(k)
    BY Zenon, <2>1
  <2> HIDE DEF Agrees
  <2>3. k # 0
    BY Zenon, <1>2, <2>2
  <2>4. k - 1 \in Nat /\ (k - 1) + 1 = k /\ k - 1 < Len(s) /\ ~(k <= k - 1)
    BY <1>1, <2>2, <2>3
  <2>5. Agrees(k - 1)
    BY Zenon, <2>1, <2>4
  <2> QED BY <1>3, <2>2, <2>4, <2>5
<1>5. Agrees(Len(t))
  <2>1. Len(t) \in Nat /\ Len(t) < Len(s)
    BY <1>1
  <2> QED BY Zenon, <2>1, <1>4
<1>6. Len(t) + 1 = Len(s)
  BY <1>1
<1> QED BY Zenon, <1>1, <1>5, <1>6 DEF SumFunction, t

\* The sum of a queue after a send.
LEMMA SumAppend ==
    ASSUME NEW s \in Seq(Nat), NEW e \in Nat
    PROVE  SumFunction(Append(s, e)) = e + SumFunction(s)
<1> DEFINE t == Append(s, e)
<1>1. /\ t \in Seq(Nat) /\ Len(t) = Len(s) + 1 /\ Len(s) \in Nat /\ t[Len(s) + 1] = e
      /\ \A i \in 1 .. Len(s) : s[i] = t[i]
      /\ DOMAIN s = 1 .. Len(s) /\ DOMAIN t = 1 .. Len(s) + 1
  OBVIOUS
<1> HIDE DEF t
<1>2. SumFunctionOnSet(t, 1 .. Len(s) + 1) = t[Len(s) + 1] + SumFunctionOnSet(t, 1 .. Len(s))
  BY <1>1, PrefixSum
<1>3. SumFunctionOnSet(s, 1 .. Len(s)) = SumFunctionOnSet(t, 1 .. Len(s))
  <2>1. IsFiniteSet(1 .. Len(s))
    BY <1>1, FS_Interval
  <2>2. \A x \in 1 .. Len(s) : s[x] = t[x]
    BY Zenon, <1>1
  <2> QED BY Zenon, <2>1, <2>2, SumSame
<1> QED BY Zenon, <1>1, <1>2, <1>3 DEF SumFunction, t

\* The sum of a queue of sizes is a natural number.
LEMMA SumSeqType ==
    ASSUME NEW s \in Seq(Nat)
    PROVE  SumFunction(s) \in Nat
<1>1. IsFiniteSet(DOMAIN s) /\ \A i \in DOMAIN s : s[i] \in Nat
  <2>1. Len(s) \in Nat /\ DOMAIN s = 1 .. Len(s) /\ \A i \in DOMAIN s : s[i] \in Nat
    BY SeqLen
  <2>2. IsFiniteSet(1 .. Len(s))
    BY <2>1, FS_Interval
  <2> QED BY Zenon, <2>1, <2>2
<1> QED BY Zenon, <1>1, SumType DEF SumFunction

\* A step of the senders that moves no bytes.
LEMMA CountKept ==
    ASSUME MailboxInv, BytesAccounted, Reserved' = Reserved, UNCHANGED <<mbQueue, mbBytes>>,
           \A u \in Reserved : mbSize'[u] = mbSize[u]
    PROVE  mbBytes' = SumFunction(mbQueue') + SumFunctionOnSet(mbSize', Reserved')
<1>1. IsFiniteSet(Reserved)
  BY Zenon, MailboxAssumption, FS_Subset DEF Reserved
<1>2. SumFunctionOnSet(mbSize, Reserved) = SumFunctionOnSet(mbSize', Reserved)
  <2>1. \A x \in Reserved : mbSize[x] = mbSize'[x]
    BY Zenon
  <2> QED BY Zenon, <1>1, <2>1, SumSame
<1> QED BY Zenon, <1>2 DEF BytesAccounted

\* What a sender holds is part of the counter, and apart from the other senders'.
LEMMA CountSplit ==
    ASSUME MailboxInv, BytesAccounted, NEW s \in Sender
    PROVE  /\ IsFiniteSet(Reserved) /\ mbSize[s] \in Nat
           /\ SumFunction(mbQueue) \in Nat /\ SumFunctionOnSet(mbSize, Reserved) \in Nat
           /\ SumFunctionOnSet(mbSize, Reserved \ {s}) \in Nat
           /\ s \in Reserved => SumFunctionOnSet(mbSize, Reserved)
                                  = mbSize[s] + SumFunctionOnSet(mbSize, Reserved \ {s})
           /\ s \notin Reserved => SumFunctionOnSet(mbSize, Reserved \cup {s})
                                     = mbSize[s] + SumFunctionOnSet(mbSize, Reserved)
<1>1. /\ IsFiniteSet(Reserved) /\ IsFiniteSet(Reserved \ {s}) /\ Reserved \subseteq Sender
      /\ Reserved \ {s} \subseteq Sender
  <2>1. Reserved \subseteq Sender /\ Reserved \ {s} \subseteq Sender
    BY Zenon DEF Reserved
  <2> QED BY Zenon, <2>1, MailboxAssumption, FS_Subset
<1>2. \A x \in Sender : mbSize[x] \in Nat
  BY Zenon DEF MailboxInv, MailboxType
<1>3. SumFunction(mbQueue) \in Nat
  BY Zenon, SumSeqType DEF MailboxInv, MailboxType
<1>4. SumFunctionOnSet(mbSize, Reserved) \in Nat /\ SumFunctionOnSet(mbSize, Reserved \ {s}) \in Nat
  <2>1. \A x \in Reserved : mbSize[x] \in Nat
    BY Zenon, <1>1, <1>2
  <2>2. \A x \in Reserved \ {s} : mbSize[x] \in Nat
    BY Zenon, <1>1, <1>2
  <2> QED BY Zenon, <1>1, <2>1, <2>2, SumType
<1>5. ASSUME s \in Reserved
      PROVE  SumFunctionOnSet(mbSize, Reserved) = mbSize[s] + SumFunctionOnSet(mbSize, Reserved \ {s})
  <2>1. \A x \in Reserved : mbSize[x] \in Nat
    BY Zenon, <1>1, <1>2
  <2> QED BY SMTT(20), <1>1, <1>5, <2>1, SumRemove
<1>6. ASSUME s \notin Reserved
      PROVE  SumFunctionOnSet(mbSize, Reserved \cup {s}) = mbSize[s] + SumFunctionOnSet(mbSize, Reserved)
  <2>1. \A x \in Reserved \cup {s} : mbSize[x] \in Nat
    BY Zenon, <1>1, <1>2
  <2> QED BY Zenon, <1>1, <1>6, <2>1, SumAdd
<1> QED BY Zenon, <1>1, <1>2, <1>3, <1>4, <1>5, <1>6

\* Where a sender's step leaves the permits.
LEMMA ReservedMoves ==
    ASSUME MailboxInv, NEW s \in Sender, NEW pc, Goto(s, pc)
    PROVE  /\ pc \in {"push", "tryPush"} => Reserved' = Reserved \cup {s}
           /\ pc \notin {"push", "tryPush"} => Reserved' = Reserved \ {s}
<1>1. mbPc'[s] = pc /\ \A u \in Sender : u # s => mbPc'[u] = mbPc[u]
  BY Zenon DEF Goto, MailboxInv, MailboxType
<1> QED BY <1>1 DEF Reserved

\* A sender's step keeps the account.
LEMMA SenderCounts ==
    ASSUME MailboxInv, BytesAccounted, NEW s \in Sender,
           \/ \E n \in EventBytes, pc \in {"arm", "tryLoad"} : StartSend(s, n, pc)
           \/ Arm(s) \/ Load(s) \/ Test(s) \/ Wake(s) \/ CompareExchange(s)
           \/ Push(s) \/ DropSend(s)
           \/ TryLoad(s) \/ TryCompareExchange(s) \/ TryPush(s)
    PROVE  mbBytes' = SumFunction(mbQueue') + SumFunctionOnSet(mbSize', Reserved')
<1>t. /\ IsFiniteSet(Reserved) /\ mbSize[s] \in Nat
      /\ SumFunction(mbQueue) \in Nat /\ SumFunctionOnSet(mbSize, Reserved) \in Nat
      /\ SumFunctionOnSet(mbSize, Reserved \ {s}) \in Nat
      /\ mbBytes = SumFunction(mbQueue) + SumFunctionOnSet(mbSize, Reserved)
  BY Zenon, CountSplit DEF BytesAccounted
<1>1. ASSUME NEW n \in EventBytes, NEW pc \in {"arm", "tryLoad"}, StartSend(s, n, pc)
      PROVE  mbBytes' = SumFunction(mbQueue') + SumFunctionOnSet(mbSize', Reserved')
  <2>1. Reserved' = Reserved \ {s} /\ s \notin Reserved
    BY Zenon, <1>1, ReservedMoves DEF StartSend, Reserved
  <2>2. Reserved' = Reserved
    BY Zenon, <2>1
  <2>3. \A u \in Reserved : mbSize'[u] = mbSize[u]
    BY Zenon, <1>1, <2>1 DEF StartSend, Reserved, MailboxInv, MailboxType
  <2> QED BY Zenon, <1>1, <2>2, <2>3, CountKept DEF StartSend
<1>2. CASE Arm(s) \/ Load(s) \/ Test(s) \/ Wake(s) \/ TryLoad(s)
  <2>1. s \notin Reserved /\ UNCHANGED <<mbQueue, mbBytes, mbSize>>
    BY Zenon, <1>2 DEF Arm, Load, Test, Wake, TryLoad, Reserved
  <2>2. PICK pc : pc \notin {"push", "tryPush"} /\ Goto(s, pc)
    BY Zenon, <1>2 DEF Arm, Load, Test, Wake, TryLoad
  <2>3. Reserved' = Reserved
    BY Zenon, <2>1, <2>2, ReservedMoves
  <2> QED BY Zenon, <2>1, <2>3, CountKept
<1>3. CASE CompareExchange(s) \/ TryCompareExchange(s)
  <2>0. s \notin Reserved /\ UNCHANGED <<mbQueue, mbSize>>
    BY Zenon, <1>3 DEF CompareExchange, TryCompareExchange, Reserved
  <2>1. CASE mbBytes = mbSeen[s]
    <3>1. mbBytes' = mbBytes + mbSize[s] /\ Reserved' = Reserved \cup {s}
      BY Zenon, <1>3, <2>1, ReservedMoves DEF CompareExchange, TryCompareExchange
    <3>2. SumFunctionOnSet(mbSize, Reserved \cup {s}) = mbSize[s] + SumFunctionOnSet(mbSize, Reserved)
      BY Zenon, <2>0, CountSplit
    <3> QED BY SMTT(20), <1>t, <2>0, <3>1, <3>2
  <2>2. CASE mbBytes # mbSeen[s]
    <3>1. mbBytes' = mbBytes /\ (Goto(s, "arm") \/ Goto(s, "tryLoad"))
      BY Zenon, <1>3, <2>2 DEF CompareExchange, TryCompareExchange
    <3>2. Reserved' = Reserved \ {s}
      BY <3>1, ReservedMoves
    <3>3. Reserved' = Reserved
      BY Zenon, <2>0, <3>2
    <3> QED BY Zenon, <2>0, <3>1, <3>3, CountKept
  <2> QED BY Zenon, <2>1, <2>2
<1>4. CASE Push(s) \/ TryPush(s) \/ DropSend(s)
  <2>0. Reserved' = Reserved \ {s} /\ mbSize' = mbSize
    <3>1. Goto(s, "idle") /\ mbSize' = mbSize
      BY Zenon, <1>4 DEF Push, TryPush, DropSend
    <3> QED BY <3>1, ReservedMoves
  <2>1. CASE mbPc[s] = "wait"
    <3>1. Reserved' = Reserved /\ UNCHANGED <<mbQueue, mbBytes>>
      BY Zenon, <1>4, <2>0, <2>1 DEF Push, TryPush, DropSend, Reserved
    <3> QED BY Zenon, <2>0, <3>1, CountKept
  <2>2. CASE mbPc[s] # "wait"
    <3>1. s \in Reserved
      BY Zenon, <1>4, <2>2 DEF Push, TryPush, DropSend, Reserved
    <3>2. SumFunctionOnSet(mbSize, Reserved) = mbSize[s] + SumFunctionOnSet(mbSize, Reserved \ {s})
      BY Zenon, <3>1, CountSplit
    <3>3. CASE mbQueue' = Append(mbQueue, mbSize[s]) /\ mbBytes' = mbBytes
      <4>1. SumFunction(mbQueue') = mbSize[s] + SumFunction(mbQueue)
        BY Zenon, <1>t, <3>3, SumAppend DEF MailboxInv, MailboxType
      <4> QED BY SMTT(20), <1>t, <2>0, <3>2, <3>3, <4>1
    <3>4. CASE DropPermit(s) /\ mbQueue' = mbQueue
      BY <1>t, <2>0, <3>2, <3>4 DEF DropPermit
    <3> QED BY Zenon, <1>4, <2>2, <3>3, <3>4 DEF Push, TryPush, DropSend
  <2> QED BY Zenon, <2>1, <2>2
<1> QED BY Zenon, <1>1, <1>2, <1>3, <1>4

\* The counter queued_bytes is at every moment the bytes of the queued events
\* and of the senders between compare_exchange and the queue: send, try_send, the
\* dropped future, recv and the drop of the receiver give a permit back once.
THEOREM BytesAreAccounted == MailboxSpec => []BytesAccounted
<1>1. MailboxInit => MailboxInv /\ BytesAccounted
  <2> SUFFICES ASSUME MailboxInit PROVE MailboxInv /\ BytesAccounted
    OBVIOUS
  <2>1. MailboxInv
    BY MailboxAssumption, SeqEmpty DEF MailboxInit, MailboxInv, MailboxType, MailboxPc, Full
  <2>2. Reserved = {} /\ mbQueue = <<>> /\ mbBytes = 0
    BY Zenon DEF MailboxInit, Reserved
  <2>3. DOMAIN mbQueue = {}
    BY <2>2
  <2>4. SumFunction(mbQueue) = 0 /\ SumFunctionOnSet(mbSize, Reserved) = 0
    BY Zenon, <2>2, <2>3, SumEmpty DEF SumFunction
  <2> QED BY <2>1, <2>2, <2>4, MailboxAssumption DEF BytesAccounted
<1>2. MailboxInv /\ BytesAccounted /\ [MailboxNext]_mbVars => MailboxInv' /\ BytesAccounted'
  <2> SUFFICES ASSUME MailboxInv, BytesAccounted, [MailboxNext]_mbVars
               PROVE  MailboxInv' /\ mbBytes' = SumFunction(mbQueue') + SumFunctionOnSet(mbSize', Reserved')
    BY Zenon DEF MailboxInv, BytesAccounted
  <2>0. MailboxInv'
    BY Zenon, MailboxStep
  <2>1. CASE HostReceive
    <3>1. SumFunction(mbQueue) = Head(mbQueue) + SumFunction(Tail(mbQueue))
      BY Zenon, <2>1, SumTail DEF HostReceive, MailboxInv, MailboxType
    <3>2. Head(mbQueue) \in Nat /\ Tail(mbQueue) \in Seq(Nat)
      BY Zenon, <2>1, ReceivedSize DEF HostReceive, MailboxInv, MailboxType
    <3>3. SumFunction(Tail(mbQueue)) \in Nat
      BY Zenon, <3>2, SumSeqType
    <3>4. SumFunctionOnSet(mbSize, Reserved) \in Nat
      <4>1. IsFiniteSet(Reserved) /\ \A x \in Reserved : mbSize[x] \in Nat
        BY Zenon, MailboxAssumption, FS_Subset DEF Reserved, MailboxInv, MailboxType
      <4> QED BY Zenon, <4>1, SumType
    <3>5. Reserved' = Reserved /\ mbSize' = mbSize
      BY Zenon, <2>1 DEF HostReceive, Reserved
    <3>6. mbBytes' = mbBytes - Head(mbQueue) /\ mbQueue' = Tail(mbQueue)
      BY Zenon, <2>1 DEF HostReceive
    <3>7. mbBytes = SumFunction(mbQueue) + SumFunctionOnSet(mbSize, Reserved)
      BY Zenon DEF BytesAccounted
    <3>8. mbBytes' = SumFunction(Tail(mbQueue)) + SumFunctionOnSet(mbSize, Reserved)
      BY SMTT(20), <3>1, <3>2, <3>3, <3>4, <3>6, <3>7
    <3> QED BY Zenon, <2>0, <3>5, <3>6, <3>8
  <2>2. ASSUME NEW t \in Sender \cup {Host}, Notify(t)
        PROVE  mbBytes' = SumFunction(mbQueue') + SumFunctionOnSet(mbSize', Reserved')
    BY Zenon, <2>2, CountKept DEF Notify, Reserved
  <2>3. CASE DropReceiver \/ UNCHANGED mbVars
    <3>1. UNCHANGED <<mbPc, mbSize, mbQueue, mbBytes>>
      BY Zenon, <2>3 DEF DropReceiver, mbVars
    <3>2. Reserved' = Reserved
      BY Zenon, <3>1 DEF Reserved
    <3> QED BY Zenon, <2>0, <3>1, <3>2, CountKept
  <2> QED BY Zenon, <2>0, <2>1, <2>2, <2>3, SenderCounts DEF MailboxNext
<1> QED BY <1>1, <1>2, PTL DEF MailboxSpec
=============================================================================
