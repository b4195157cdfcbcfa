----------------------------- MODULE LoopProofs ------------------------------
(***************************************************************************)
(* Proofs about the dispatch of a transaction's tool calls by the loop     *)
(* (LoopDispatch), for every feed, registry and capacity.                  *)
(***************************************************************************)
EXTENDS LoopDispatch, FiniteSetTheorems, TLAPS

-----------------------------------------------------------------------------
(* The tool loop.                                                          *)

Unit == [act : Action, gen : Nat \ {0}, req : RequestState]
LoopEnd == {"Cancelled", "InvariantFailed", "SubscriptionLost", "Drained"}
Output == ({"requested", "unavailable", "result"} \X Action) \cup ({"LoopEnded"} \X LoopEnd)

\* The actions dispatched so far, the one in progress, and its outputs.
Gone == {x \in DOMAIN rActs : rActs[x].dispatched}
Now == rNow[1]
Dispatching == {"send", "resolve", "exec"}
Asking == rPc = "send" /\ rSend = <<<<"requested", Now>>>>
Names(o, x) == o[1] \in {"requested", "result"} /\ o[2] = x

\* What the outputs of a set of actions, and of one, come to.
Weight(D) == 2 * Cardinality(D \cap Registered) + 3 * Cardinality(D \ Registered)
Share == IF Now \in Registered THEN 2 ELSE 3
Left == IF Asking THEN Share
        ELSE IF rPc = "send" THEN Len(rSend)
        ELSE IF rPc = "resolve" THEN Share - 1
        ELSE IF rPc = "exec" THEN 1 ELSE 0

LoopType ==
    /\ lUnits \in Seq(Unit) /\ lFed \in 0 .. Len(lUnits)
    /\ lSub \in Seq(Nat \X Unit)
    /\ rPc \in Dispatching \cup {"absent", "top", "arm", "select", "last", "ended"}
    /\ DOMAIN rActs \subseteq Action
    /\ \A x \in DOMAIN rActs : rActs[x] \in [gen : Nat, dispatched : BOOLEAN]
    /\ lOut \in Seq(Output) /\ lResults \in Seq(Action)
    /\ rPc \in {"last", "ended"} => rEnd \in LoopEnd
    /\ lPc = "spawn" => rPc = "absent"

\* The dispatch in progress is of an action recorded as dispatched.
SendInv ==
    /\ rPc \in Dispatching => Now \in Gone
    /\ rPc = "send" => rSend \in {<<<<"requested", Now>>>>, <<<<"result", Now>>>>, Unavailable(Now)}

\* The outputs queued and still to come are those of the dispatched actions.
RoomInv == rPc # "ended" => Len(lOut) + Left <= Weight(Gone)

\* A request in the queue precedes its result, is the only one of its action,
\* and its action has no result yet.
OnceInv ==
    /\ \A i \in DOMAIN lOut : lOut[i][1] \in {"requested", "result"} => lOut[i][2] \in Gone
    /\ \A k \in DOMAIN lResults : lResults[k] \in Gone
    /\ Asking => /\ \A i \in DOMAIN lOut : ~Names(lOut[i], Now)
                 /\ \A k \in DOMAIN lResults : lResults[k] # Now
    /\ \A i, j \in DOMAIN lOut :
          (lOut[i][1] = "requested" /\ Names(lOut[j], lOut[i][2]) /\ i # j) => i < j
    /\ \A i \in DOMAIN lOut, k \in DOMAIN lResults :
          lOut[i][1] = "requested" => lResults[k] # lOut[i][2]

LoopInv == LoopType /\ SendInv /\ RoomInv /\ OnceInv

\* The length of a sequence, and its domain.
LEMMA SeqLen ==
    ASSUME NEW S, NEW s \in Seq(S)
    PROVE  Len(s) \in Nat /\ s \in [1 .. Len(s) -> S] /\ DOMAIN s = 1 .. Len(s)
OBVIOUS

\* Only the empty sequence has no element.
LEMMA SeqEmpty ==
    ASSUME NEW S
    PROVE  <<>> \in Seq(S) /\ Len(<<>>) = 0 /\ \A s \in Seq(S) : s # <<>> => Len(s) \in Nat \ {0}
OBVIOUS

\* An element of a sequence.
LEMMA SeqAt ==
    ASSUME NEW S, NEW s \in Seq(S), NEW n \in 1 .. Len(s)
    PROVE  s[n] \in S
OBVIOUS

\* The constants, in the form the proofs use.
LEMMA LoopNumbers ==
    /\ IsFiniteSet(Action) /\ Registered \subseteq Action /\ LoopOutCap \in Nat
    /\ LoopOutCap > 2 * Cardinality(Registered) + 3 * Cardinality(Action \ Registered)
    /\ Feeds \subseteq Seq(Unit)
BY Zenon, LoopAssumption DEF Unit

\* The outputs of all actions leave room for the end.
LEMMA WeightBound ==
    ASSUME NEW D, D \subseteq Action
    PROVE  Weight(D) \in Nat /\ Weight(D) < LoopOutCap
<1>1. IsFiniteSet(Registered) /\ IsFiniteSet(Action \ Registered)
  BY LoopNumbers, FS_Subset
<1>2. /\ IsFiniteSet(D \cap Registered) /\ Cardinality(D \cap Registered) <= Cardinality(Registered)
      /\ IsFiniteSet(D \ Registered) /\ Cardinality(D \ Registered) <= Cardinality(Action \ Registered)
  <2>1. D \cap Registered \subseteq Registered /\ D \ Registered \subseteq Action \ Registered
    BY Zenon
  <2> QED BY <1>1, <2>1, FS_Subset
<1>3. /\ Cardinality(Registered) \in Nat /\ Cardinality(Action \ Registered) \in Nat
      /\ Cardinality(D \cap Registered) \in Nat /\ Cardinality(D \ Registered) \in Nat
  BY <1>1, <1>2, FS_CardinalityType
<1> QED BY SMTT(20), <1>2, <1>3, LoopNumbers DEF Weight

\* One action more.
LEMMA WeightAdd ==
    ASSUME NEW D, D \subseteq Action, NEW x \in Action, x \notin D
    PROVE  Weight(D \cup {x}) = Weight(D) + (IF x \in Registered THEN 2 ELSE 3)
<1>1. IsFiniteSet(D \cap Registered) /\ IsFiniteSet(D \ Registered)
  <2>1. D \cap Registered \subseteq Action /\ D \ Registered \subseteq Action
    BY Zenon
  <2> QED BY <2>1, LoopNumbers, FS_Subset
<1>2. Cardinality(D \cap Registered) \in Nat /\ Cardinality(D \ Registered) \in Nat
  BY <1>1, FS_CardinalityType
<1>3. CASE x \in Registered
  <2>1. (D \cup {x}) \cap Registered = (D \cap Registered) \cup {x}
        /\ (D \cup {x}) \ Registered = D \ Registered
    BY <1>3
  <2>2. Cardinality((D \cap Registered) \cup {x}) = Cardinality(D \cap Registered) + 1
    BY Zenon, <1>1, FS_AddElement
  <2>3. /\ Cardinality((D \cup {x}) \cap Registered) = Cardinality(D \cap Registered) + 1
        /\ Cardinality((D \cup {x}) \ Registered) = Cardinality(D \ Registered)
    BY Zenon, <2>1, <2>2
  <2> QED BY <1>2, <1>3, <2>3 DEF Weight
<1>4. CASE x \notin Registered
  <2>1. (D \cup {x}) \ Registered = (D \ Registered) \cup {x}
        /\ (D \cup {x}) \cap Registered = D \cap Registered
    BY <1>4
  <2>2. Cardinality((D \ Registered) \cup {x}) = Cardinality(D \ Registered) + 1
    BY Zenon, <1>1, FS_AddElement
  <2>3. /\ Cardinality((D \cup {x}) \ Registered) = Cardinality(D \ Registered) + 1
        /\ Cardinality((D \cup {x}) \cap Registered) = Cardinality(D \cap Registered)
    BY Zenon, <2>1, <2>2
  <2> QED BY <1>2, <1>4, <2>3 DEF Weight
<1> QED BY <1>3, <1>4

\* A step that leaves the records, the output and the results as they were.
LEMMA LoopFrame ==
    ASSUME LoopInv, UNCHANGED <<lUnits, rActs, lOut, lResults>>,
           lFed' \in 0 .. Len(lUnits'), lSub' \in Seq(Nat \X Unit),
           rPc' \in {"last", "ended"} => rEnd' \in LoopEnd,
           lPc' = "spawn" => rPc' = "absent",
           \/ UNCHANGED <<rPc, rNow, rSend>>
           \/ /\ rPc' \in {"top", "arm", "select", "last"}
              /\ rPc \notin Dispatching /\ rPc # "ended"
    PROVE  LoopInv'
<1>1. LoopType'
  BY DEF LoopInv, LoopType, Dispatching
<1>2. SendInv'
  BY DEF LoopInv, SendInv, Dispatching, Now, Gone
<1>3. Asking' => Asking
  BY DEF Asking, Now
<1>4. RoomInv'
  <2>1. Gone' = Gone
    BY Zenon DEF Gone
  <2>2. Weight(Gone') = Weight(Gone)
    BY <2>1
  <2>3. rPc' # "ended" => rPc # "ended" /\ Left' = Left
    BY DEF Left, Asking, Now, Share, Dispatching
  <2> QED BY <2>2, <2>3 DEF LoopInv, RoomInv
<1>5. OnceInv'
  BY <1>3 DEF LoopInv, OnceInv, Gone, Now, Asking, Names
<1> QED BY <1>1, <1>2, <1>4, <1>5 DEF LoopInv

\* Appending to a queue of the loop.
LEMMA Queued ==
    ASSUME NEW S, NEW s \in Seq(S), NEW e \in S
    PROVE  /\ Append(s, e) \in Seq(S) /\ Len(s) \in Nat /\ Len(Append(s, e)) = Len(s) + 1
           /\ DOMAIN s = 1 .. Len(s) /\ DOMAIN Append(s, e) = 1 .. Len(s) + 1
           /\ \A i \in DOMAIN s : Append(s, e)[i] = s[i]
           /\ Append(s, e)[Len(s) + 1] = e
<1>1. Append(s, e) \in Seq(S) /\ Len(Append(s, e)) = Len(s) + 1
  OBVIOUS
<1>2. Len(s) \in Nat /\ DOMAIN s = 1 .. Len(s) /\ DOMAIN Append(s, e) = 1 .. Len(s) + 1
  BY <1>1, SeqLen
<1>3. (\A i \in 1 .. Len(s) : Append(s, e)[i] = s[i]) /\ Append(s, e)[Len(s) + 1] = e
  OBVIOUS
<1> QED BY Zenon, <1>1, <1>2, <1>3

\* Taking the head of one.
LEMMA Unqueued ==
    ASSUME NEW S, NEW s \in Seq(S), s # <<>>
    PROVE  /\ Tail(s) \in Seq(S) /\ Head(s) \in S /\ Head(s) = s[1]
           /\ Len(s) \in Nat /\ Len(Tail(s)) = Len(s) - 1
           /\ DOMAIN s = 1 .. Len(s) /\ 1 \in DOMAIN s /\ DOMAIN Tail(s) = 1 .. Len(s) - 1
           /\ \A i \in DOMAIN Tail(s) : i + 1 \in DOMAIN s /\ Tail(s)[i] = s[i + 1]
<1>1. Len(s) \in Nat /\ DOMAIN s = 1 .. Len(s) /\ Len(s) # 0
  BY SeqLen, SeqEmpty
<1>2. /\ Tail(s) \in Seq(S) /\ Head(s) \in S /\ Len(Tail(s)) = Len(s) - 1
      /\ \A i \in 1 .. Len(Tail(s)) : Tail(s)[i] = s[i + 1]
  OBVIOUS
<1>3. Head(s) = s[1]
  BY DEF Head
<1>4. DOMAIN Tail(s) = 1 .. Len(s) - 1
  BY <1>2, SeqLen
<1>5. 1 \in DOMAIN s /\ \A i \in DOMAIN Tail(s) : i + 1 \in DOMAIN s
  BY <1>1, <1>4
<1> QED BY <1>1, <1>2, <1>3, <1>4, <1>5

\* The steps of the coordinator's side that leave the output alone, and the
\* head of the loop.
LEMMA LoopQuietKeeps ==
    ASSUME LoopInv, SpawnLoop \/ FeedEnds \/ DriveBusy \/ Check \/ AwaitEnd \/ LoopEnv
                    \/ Top \/ ArmNotified
    PROVE  LoopInv'
<1>t. /\ lFed \in 0 .. Len(lUnits) /\ lSub \in Seq(Nat \X Unit)
      /\ rPc \in {"last", "ended"} => rEnd \in LoopEnd
      /\ lPc = "spawn" => rPc = "absent"
  BY DEF LoopInv, LoopType
<1> USE <1>t DEF lFeed, lEnvVars, LoopRest, rTable, Dispatching
<1>1. CASE SpawnLoop
  BY Zenon, <1>1, LoopFrame DEF SpawnLoop
<1>2. CASE FeedEnds
  BY <1>2, LoopFrame DEF FeedEnds, EndFeed
<1>3. CASE DriveBusy
  BY <1>3, LoopFrame DEF DriveBusy
<1>4. CASE Check
  BY <1>4, LoopFrame DEF Check, Abandon
<1>5. CASE AwaitEnd
  BY <1>5, LoopFrame DEF AwaitEnd, rVars
<1>6. CASE LoopEnv
  BY <1>6, LoopFrame DEF LoopEnv, rVars
<1>7. CASE Top
  BY <1>7, LoopFrame DEF Top, Finish, Quiet, lCoord, LoopEnd
<1>8. CASE ArmNotified
  BY <1>8, LoopFrame DEF ArmNotified, Quiet, lCoord
<1> QED BY <1>1, <1>2, <1>3, <1>4, <1>5, <1>6, <1>7, <1>8

\* A unit is fed.
LEMMA FeedKeeps ==
    ASSUME LoopInv, FeedUnit
    PROVE  LoopInv'
<1>1. /\ lUnits \in Seq(Unit) /\ lFed \in 0 .. Len(lUnits) /\ lSub \in Seq(Nat \X Unit)
      /\ rPc \in {"last", "ended"} => rEnd \in LoopEnd
      /\ lPc = "spawn" => rPc = "absent"
  BY DEF LoopInv, LoopType
<1>2. Len(lUnits) \in Nat /\ DOMAIN lUnits = 1 .. Len(lUnits)
  BY <1>1, SeqLen
<1>3. lFed < Len(lUnits) /\ lFed' = lFed + 1 /\ lSub' = Append(lSub, <<lFed + 1, lUnits[lFed + 1]>>)
  BY DEF FeedUnit
<1>4. lFed + 1 \in Nat /\ lFed + 1 \in DOMAIN lUnits /\ lFed' \in 0 .. Len(lUnits)
  BY <1>1, <1>2, <1>3
<1>5. <<lFed + 1, lUnits[lFed + 1]>> \in Nat \X Unit
  BY <1>1, <1>2, <1>4, SeqAt
<1>6. lSub' \in Seq(Nat \X Unit)
  BY <1>1, <1>3, <1>5, Queued
<1> QED BY <1>1, <1>4, <1>6, LoopFrame DEF FeedUnit, rVars, rTable

\* The record of an action after one of its units.
LEMMA Recorded ==
    ASSUME NEW x, NEW g \in Nat \ {0}, NEW req,
           x \in DOMAIN rActs => rActs[x] \in [gen : Nat, dispatched : BOOLEAN]
    PROVE  /\ Record(x, g, req) \in [gen : Nat, dispatched : BOOLEAN]
           /\ Record(x, g, req).dispatched <=> (x \in Gone \/ Dispatchable(x, g, req))
<1> DEFINE d == Dispatchable(x, g, req)
<1>d. d \in BOOLEAN /\ g \in Nat /\ g > 0
  BY DEF Dispatchable
<1>1. CASE x \notin DOMAIN rActs
  <2>1. Record(x, g, req) = [gen |-> g, dispatched |-> FALSE \/ d]
    BY <1>1, <1>d DEF Record
  <2> HIDE DEF d
  <2>2. (FALSE \/ d) \in BOOLEAN /\ ((FALSE \/ d) <=> d)
    BY <1>d
  <2>3. x \notin Gone
    BY <1>1 DEF Gone
  <2> QED BY <1>d, <2>1, <2>2, <2>3 DEF d
<1>2. CASE x \in DOMAIN rActs /\ g < rActs[x].gen
  <2>1. Record(x, g, req) = rActs[x]
    BY <1>2 DEF Record
  <2>2. ~d
    BY <1>2 DEF Dispatchable
  <2> QED BY <1>2, <2>1, <2>2 DEF Gone
<1>3. CASE x \in DOMAIN rActs /\ ~(g < rActs[x].gen)
  <2>1. Record(x, g, req) = [gen |-> g, dispatched |-> rActs[x].dispatched \/ d]
    BY <1>3 DEF Record
  <2>2. rActs[x].dispatched \in BOOLEAN
    BY <1>3
  <2>3. x \in Gone <=> rActs[x].dispatched
    BY <1>3 DEF Gone
  <2> HIDE DEF d
  <2>4. (rActs[x].dispatched \/ d) \in BOOLEAN
    BY <1>d, <2>2
  <2>5. Record(x, g, req) \in [gen : Nat, dispatched : BOOLEAN]
    BY <1>d, <2>1, <2>4
  <2>6. Record(x, g, req).dispatched = (rActs[x].dispatched \/ d)
    BY <2>1
  <2> QED BY <2>3, <2>5, <2>6 DEF d
<1> QED BY Zenon, <1>1, <1>2, <1>3

\* A unit is recorded, and perhaps dispatched.
LEMMA OnUnitKeeps ==
    ASSUME LoopInv, rPc = "select", NEW u \in Unit, OnUnit(u.act, u.gen, u.req),
           lSub' \in Seq(Nat \X Unit), UNCHANGED <<lUnits, lFed, lPc, lOut, lResults>>
    PROVE  LoopInv'
<1> DEFINE x == u.act
           d == Dispatchable(x, u.gen, u.req)
<1>t. /\ x \in Action /\ u.gen \in Nat \ {0} /\ lFed' \in 0 .. Len(lUnits')
      /\ lPc' = "spawn" => rPc' = "absent"
      /\ DOMAIN rActs \subseteq Action /\ \A y \in DOMAIN rActs : rActs[y] \in [gen : Nat, dispatched : BOOLEAN]
  BY Zenon DEF LoopInv, LoopType, Unit
<1>1. CASE UNCHANGED rActs
  <2>1. rPc' = "top" \/ (rPc' = "last" /\ rEnd' = "InvariantFailed") \/ rPc' = "send"
    BY DEF OnUnit, Finish
  <2>2. CASE rPc' # "send"
    BY Zenon, <1>1, <1>t, <2>1, <2>2, LoopFrame DEF LoopEnd, Dispatching
  <2>3. CASE rPc' = "send"
    <3>1. d /\ rActs' = [y \in DOMAIN rActs \cup {x} |-> IF y = x THEN Record(x, u.gen, u.req) ELSE rActs[y]]
      BY <2>3 DEF OnUnit, Finish
    <3>2. x \in DOMAIN rActs /\ rActs[x] = Record(x, u.gen, u.req)
      BY <1>1, <3>1
    <3>3. Record(x, u.gen, u.req).dispatched
      BY Zenon, <1>t, <3>1, Recorded
    <3> QED BY <3>1, <3>2, <3>3 DEF Dispatchable
  <2> QED BY Zenon, <2>2, <2>3
<1>2. CASE ~UNCHANGED rActs
  <2>1. /\ rActs' = [y \in DOMAIN rActs \cup {x} |-> IF y = x THEN Record(x, u.gen, u.req) ELSE rActs[y]]
        /\ IF d THEN rPc' = "send" /\ rSend' = <<<<"requested", x>>>> /\ rNow' = <<x>>
                ELSE rPc' = "top" /\ UNCHANGED <<rSend, rNow>>
    BY <1>2 DEF OnUnit, Finish
  <2>2. Record(x, u.gen, u.req) \in [gen : Nat, dispatched : BOOLEAN]
    BY Zenon, <1>t, Recorded
  <2>3. Record(x, u.gen, u.req).dispatched <=> (x \in Gone \/ d)
    BY Zenon, <1>t, Recorded
  <2>4. Gone' = IF d THEN Gone \cup {x} ELSE Gone
    BY <2>1, <2>3 DEF Gone
  <2>5. d => x \notin Gone
    BY Zenon DEF Dispatchable, Gone
  <2>6. LoopType'
    BY <1>t, <2>1, <2>2 DEF LoopInv, LoopType, Dispatching
  <2>7. Left = 0 /\ Gone \subseteq Action /\ Len(lOut) <= Weight(Gone) /\ Len(lOut) \in Nat
    BY <1>t, SeqLen DEF LoopInv, LoopType, RoomInv, Left, Asking, Gone
  <2>8. CASE d
    <3>1. Now' = x /\ rPc' = "send" /\ Asking'
      BY <2>1, <2>8 DEF Now, Asking
    <3>2. SendInv'
      BY <2>4, <2>8, <3>1 DEF SendInv, Asking
    <3>3. RoomInv'
      <4>1. Weight(Gone') = Weight(Gone) + (IF x \in Registered THEN 2 ELSE 3)
        BY Zenon, <1>t, <2>4, <2>5, <2>7, <2>8, WeightAdd
      <4>2. Left' = IF x \in Registered THEN 2 ELSE 3
        BY Zenon, <3>1 DEF Left, Share
      <4> QED BY <2>7, <4>1, <4>2, WeightBound DEF RoomInv
    <3>4. OnceInv'
      BY <2>4, <2>5, <2>8, <3>1 DEF LoopInv, OnceInv, Names
    <3> QED BY <2>6, <3>2, <3>3, <3>4 DEF LoopInv
  <2>9. CASE ~d
    <3>1. Gone' = Gone /\ rPc' = "top" /\ ~Asking' /\ Left' = 0
      BY Zenon, <2>1, <2>4, <2>9 DEF Asking, Left
    <3>2. SendInv' /\ OnceInv'
      BY <3>1 DEF LoopInv, SendInv, OnceInv, Dispatching, Names
    <3>3. RoomInv'
      BY <2>7, <3>1 DEF RoomInv
    <3> QED BY <2>6, <3>2, <3>3 DEF LoopInv
  <2> QED BY <2>8, <2>9
<1> QED BY <1>1, <1>2

\* The loop's select.
LEMMA SelectKeeps ==
    ASSUME LoopInv, SelectLoop
    PROVE  LoopInv'
<1>t. /\ rPc = "select" /\ UNCHANGED <<lUnits, lFed, lPc, lOut, lResults>>
      /\ lFed' \in 0 .. Len(lUnits') /\ lSub \in Seq(Nat \X Unit) /\ lPc' # "spawn"
  BY DEF SelectLoop, Quiet, lCoord, LoopInv, LoopType
<1>1. CASE /\ rPc' = "last" /\ rEnd' \in LoopEnd /\ UNCHANGED <<rActs, rNow, rSend>>
           /\ lSub' \in Seq(Nat \X Unit)
  BY <1>t, <1>1, LoopFrame DEF Dispatching
<1>2. CASE lSub # <<>> /\ lSub' = Tail(lSub) /\ OnUnit(Head(lSub)[2].act, Head(lSub)[2].gen, Head(lSub)[2].req)
  <2>1. Head(lSub)[2] \in Unit /\ lSub' \in Seq(Nat \X Unit)
    BY <1>t, <1>2, Unqueued
  <2> QED BY <1>t, <1>2, <2>1, OnUnitKeeps
<1>3. lSub # <<>> => Tail(lSub) \in Seq(Nat \X Unit)
  BY <1>t, Unqueued
<1> QED BY Zenon, <1>t, <1>1, <1>2, <1>3 DEF SelectLoop, Finish, LoopEnd, rTable

\* An output is queued, and the dispatch goes on.
LEMMA OutputKeeps ==
    ASSUME LoopInv, SendOutput
    PROVE  LoopInv'
<1>u. /\ rPc = "send" /\ lOut' = Append(lOut, Head(rSend)) /\ rSend' = Tail(rSend)
      /\ UNCHANGED <<lUnits, lFed, lPc, lSub, rActs, rNow, rEnd, lResults>>
  BY Zenon DEF SendOutput, Quiet, lCoord, rTable
<1>t. /\ lOut \in Seq(Output) /\ Now \in Gone /\ Now \in Action /\ lPc # "spawn"
      /\ rSend \in {<<<<"requested", Now>>>>, <<<<"result", Now>>>>, Unavailable(Now)}
  BY <1>u DEF LoopInv, LoopType, SendInv, Dispatching, Gone
<1>g. Gone' = Gone /\ Now' = Now /\ Share' = Share /\ Weight(Gone') = Weight(Gone)
  BY <1>u DEF Gone, Now, Share
<1>r. Len(lOut) + Left <= Weight(Gone)
  BY <1>u DEF LoopInv, RoomInv
<1>w. Weight(Gone) \in Nat /\ Share \in {2, 3} /\ Len(lOut) \in Nat
  <2>1. Gone \subseteq Action
    BY Zenon DEF LoopInv, LoopType, Gone
  <2> QED BY <1>t, <2>1, WeightBound, SeqLen DEF Share
<1>1. CASE rSend = <<<<"requested", Now>>>>
  <2>1. Head(rSend) = <<"requested", Now>> /\ Len(rSend) = 1 /\ rPc' = "resolve"
    BY <1>1 DEF SendOutput
  <2>2. <<"requested", Now>> \in Output
    BY <1>t DEF Output
  <2>3. /\ lOut' \in Seq(Output) /\ Len(lOut') = Len(lOut) + 1
        /\ DOMAIN lOut = 1 .. Len(lOut) /\ DOMAIN lOut' = 1 .. Len(lOut) + 1
        /\ \A i \in DOMAIN lOut : lOut'[i] = lOut[i]
        /\ lOut'[Len(lOut) + 1] = <<"requested", Now>>
    BY SMTT(20), <1>u, <1>t, <2>1, <2>2, Queued
  <2>4. LoopType'
    BY <1>u, <1>t, <2>1, <2>3 DEF LoopInv, LoopType, Dispatching
  <2>5. SendInv'
    BY <1>t, <1>g, <2>1 DEF SendInv
  <2>6. RoomInv'
    <3>1. Asking /\ Left = Share
      BY <1>u, <1>1 DEF Asking, Left
    <3>2. Left' = Share - 1
      BY Zenon, <1>g, <2>1 DEF Left, Asking
    <3> QED BY <1>g, <1>r, <1>w, <2>3, <3>1, <3>2 DEF RoomInv
  <2>7. OnceInv'
    <3>1. Asking /\ ~Asking'
      BY Zenon, <1>u, <1>1, <2>1 DEF Asking
    <3>2. /\ \A i \in DOMAIN lOut : ~Names(lOut[i], Now)
          /\ \A k \in DOMAIN lResults : lResults[k] # Now
      BY <3>1 DEF LoopInv, OnceInv
    <3>3. \A i \in DOMAIN lOut' : i \in DOMAIN lOut \/ (i = Len(lOut) + 1 /\ lOut'[i] = <<"requested", Now>>)
      BY <1>w, <2>3
    <3>4. \A i \in DOMAIN lOut' : lOut'[i][1] \in {"requested", "result"} => lOut'[i][2] \in Gone
      BY <1>t, <2>3, <3>3 DEF LoopInv, OnceInv
    <3>5. \A i, j \in DOMAIN lOut' :
            (lOut'[i][1] = "requested" /\ Names(lOut'[j], lOut'[i][2]) /\ i # j) => i < j
      <4> SUFFICES ASSUME NEW i \in DOMAIN lOut', NEW j \in DOMAIN lOut',
                          lOut'[i][1] = "requested", Names(lOut'[j], lOut'[i][2]), i # j
                   PROVE  i < j
        BY Zenon
      <4>1. CASE i \in DOMAIN lOut /\ j \in DOMAIN lOut
        BY <2>3, <4>1 DEF LoopInv, OnceInv
      <4>2. CASE i \in DOMAIN lOut /\ j = Len(lOut) + 1
        BY <1>w, <2>3, <4>2
      <4>3. CASE i = Len(lOut) + 1 /\ j \in DOMAIN lOut
        BY <2>3, <3>2, <4>3
      <4> QED BY Zenon, <3>3, <4>1, <4>2, <4>3
    <3>6. \A i \in DOMAIN lOut', k \in DOMAIN lResults :
            lOut'[i][1] = "requested" => lResults[k] # lOut'[i][2]
      BY <2>3, <3>2, <3>3 DEF LoopInv, OnceInv
    <3> QED BY Zenon, <1>u, <1>g, <3>1, <3>4, <3>5, <3>6 DEF LoopInv, OnceInv, Names
  <2> QED BY Zenon, <2>4, <2>5, <2>6, <2>7 DEF LoopInv
<1>2. CASE rSend # <<<<"requested", Now>>>>
  <2>1. PICK o \in Output :
           /\ Head(rSend) = o /\ o[1] \in {"result", "unavailable"} /\ o[2] = Now
           /\ Left >= 1
           /\ \/ rPc' = "top" /\ Left' = 0
              \/ /\ rPc' = "send" /\ rSend' = <<<<"result", Now>>>> /\ Left >= 2 /\ Left' = 1
    <3>1. CASE rSend = <<<<"result", Now>>>>
      <4>1. Head(rSend) = <<"result", Now>> /\ Len(rSend) = 1 /\ rPc' = "top"
        BY <3>1 DEF SendOutput
      <4>2. Left = 1 /\ Left' = 0
        BY <1>u, <1>2, <4>1 DEF Left, Asking
      <4>3. <<"result", Now>> \in Output
        BY <1>t DEF Output
      <4> QED BY <4>1, <4>2, <4>3
    <3>2. CASE rSend = Unavailable(Now)
      <4>1. /\ Head(rSend) = <<"unavailable", Now>> /\ Len(rSend) = 2 /\ rPc' = "send"
            /\ rSend' = <<<<"result", Now>>>>
        BY <1>u, <3>2 DEF SendOutput, Unavailable
      <4>2. Len(rSend') = 1 /\ rSend' # <<<<"requested", Now>>>>
        BY <4>1
      <4>3. Left = 2 /\ Left' = 1
        BY <1>u, <1>g, <1>2, <4>1, <4>2 DEF Left, Asking
      <4>4. <<"unavailable", Now>> \in Output
        BY <1>t DEF Output
      <4> QED BY <4>1, <4>3, <4>4
    <3> QED BY <1>t, <1>2, <3>1, <3>2
  <2>3. /\ lOut' \in Seq(Output) /\ Len(lOut') = Len(lOut) + 1
        /\ DOMAIN lOut = 1 .. Len(lOut) /\ DOMAIN lOut' = 1 .. Len(lOut) + 1
        /\ \A i \in DOMAIN lOut : lOut'[i] = lOut[i]
        /\ lOut'[Len(lOut) + 1] = o
    BY <1>u, <1>t, <2>1, Queued
  <2>4. LoopType'
    BY <1>u, <1>t, <2>1, <2>3 DEF LoopInv, LoopType, Dispatching
  <2>5. SendInv'
    BY Zenon, <1>t, <1>g, <2>1 DEF SendInv, Dispatching
  <2>6. RoomInv'
    <3>1. Left \in Nat /\ Left' <= Left - 1 /\ Left' \in Nat
      BY <1>u, <1>t, <1>2, <2>1 DEF Left, Asking, Unavailable
    <3> QED BY <1>g, <1>r, <1>w, <2>3, <3>1 DEF RoomInv
  <2>7. OnceInv'
    <3>1. ~Asking'
      BY <1>g, <2>1 DEF Asking
    <3>3. \A i \in DOMAIN lOut' : i \in DOMAIN lOut \/ (i = Len(lOut) + 1 /\ lOut'[i] = o)
      BY <1>w, <2>3
    <3>4. \A i \in DOMAIN lOut' : lOut'[i][1] \in {"requested", "result"} => lOut'[i][2] \in Gone
      BY Zenon, <1>t, <2>1, <2>3, <3>3 DEF LoopInv, OnceInv
    <3>5. \A i, j \in DOMAIN lOut' :
            (lOut'[i][1] = "requested" /\ Names(lOut'[j], lOut'[i][2]) /\ i # j) => i < j
      <4> SUFFICES ASSUME NEW i \in DOMAIN lOut', NEW j \in DOMAIN lOut',
                          lOut'[i][1] = "requested", Names(lOut'[j], lOut'[i][2]), i # j
                   PROVE  i < j
        BY Zenon
      <4>1. i \in DOMAIN lOut
        BY Zenon, <2>1, <3>3
      <4>2. CASE j \in DOMAIN lOut
        BY <2>3, <4>1, <4>2 DEF LoopInv, OnceInv
      <4>3. CASE j = Len(lOut) + 1
        BY <1>w, <2>3, <4>1, <4>3
      <4> QED BY Zenon, <3>3, <4>2, <4>3
    <3>6. \A i \in DOMAIN lOut', k \in DOMAIN lResults :
            lOut'[i][1] = "requested" => lResults[k] # lOut'[i][2]
      BY <2>1, <2>3, <3>3 DEF LoopInv, OnceInv
    <3> QED BY Zenon, <1>u, <1>g, <3>1, <3>4, <3>5, <3>6 DEF LoopInv, OnceInv, Names
  <2> QED BY Zenon, <2>4, <2>5, <2>6, <2>7 DEF LoopInv
<1> QED BY <1>1, <1>2

\* The tool is looked up, or its execution ends: the outputs of the action are
\* shared out, none is added.
LEMMA ResolveKeeps ==
    ASSUME LoopInv, Resolve \/ ToolDone
    PROVE  LoopInv'
<1>u. /\ rPc \in {"resolve", "exec"}
      /\ UNCHANGED <<lUnits, lFed, lPc, lSub, rActs, rNow, rEnd, lOut, lResults>>
  BY DEF Resolve, ToolDone, Quiet, lCoord, rTable
<1>t. Now \in Gone /\ lPc # "spawn"
  BY <1>u DEF LoopInv, LoopType, SendInv, Dispatching
<1>g. Gone' = Gone /\ Now' = Now /\ Share' = Share /\ Weight(Gone') = Weight(Gone)
  BY <1>u DEF Gone, Now, Share
<1>r. Len(lOut) + Left <= Weight(Gone)
  BY <1>u DEF LoopInv, RoomInv
<1>w. Weight(Gone) \in Nat /\ Len(lOut) \in Nat
  <2>1. Gone \subseteq Action
    BY Zenon DEF LoopInv, LoopType, Gone
  <2> QED BY <2>1, WeightBound, SeqLen DEF LoopInv, LoopType
<1>1. /\ \/ rPc' = "exec"
         \/ rPc' = "send" /\ rSend' \in {<<<<"result", Now>>>>, Unavailable(Now)}
      /\ Left \in Nat /\ Left' \in Nat /\ Left' <= Left
  <2>1. CASE Resolve /\ rNow[1] \in Registered /\ rPc' = "exec"
    <3>1. Left = 1 /\ Left' = 1
      BY <1>g, <2>1 DEF Resolve, Left, Asking, Share, Now
    <3> QED BY <2>1, <3>1
  <2>2. CASE Resolve /\ rNow[1] \in Registered /\ rPc' = "send" /\ rSend' = <<<<"result", rNow[1]>>>>
    <3>1. Len(rSend') = 1 /\ rSend' # <<<<"requested", Now>>>>
      BY Zenon, <2>2
    <3>2. Left = 1 /\ Left' = 1
      BY <1>g, <2>2, <3>1 DEF Resolve, Left, Asking, Share, Now
    <3> QED BY <2>2, <3>2 DEF Now
  <2>3. CASE Resolve /\ rNow[1] \notin Registered /\ rPc' = "send" /\ rSend' = Unavailable(rNow[1])
    <3>1. Len(rSend') = 2 /\ rSend' # <<<<"requested", Now>>>>
      BY Zenon, <2>3 DEF Unavailable
    <3>2. Left = 2 /\ Left' = 2
      BY <1>g, <2>3, <3>1 DEF Resolve, Left, Asking, Share, Now
    <3> QED BY <2>3, <3>2 DEF Now
  <2>4. CASE ToolDone
    <3>1. rPc = "exec" /\ rPc' = "send" /\ rSend' = <<<<"result", Now>>>>
      BY <2>4 DEF ToolDone, Now
    <3>2. Len(rSend') = 1 /\ rSend' # <<<<"requested", Now>>>>
      BY <3>1
    <3>3. Left = 1 /\ Left' = 1
      BY Zenon, <1>g, <3>1, <3>2 DEF Left, Asking
    <3> QED BY <3>1, <3>3
  <2> QED BY <2>1, <2>2, <2>3, <2>4 DEF Resolve
<1>2. LoopType'
  BY <1>u, <1>t, <1>1 DEF LoopInv, LoopType, Dispatching
<1>3. SendInv'
  BY <1>t, <1>g, <1>1 DEF SendInv, Unavailable
<1>4. RoomInv'
  BY SMTT(20), <1>u, <1>g, <1>r, <1>w, <1>1 DEF RoomInv
<1>5. OnceInv'
  <2>1. ~Asking'
    BY <1>g, <1>1 DEF Asking, Unavailable
  <2> QED BY <1>u, <1>g, <2>1 DEF LoopInv, OnceInv, Names
<1> QED BY Zenon, <1>2, <1>3, <1>4, <1>5 DEF LoopInv

\* LoopEnded is queued last.
LEMMA EndedKeeps ==
    ASSUME LoopInv, SendEnded
    PROVE  LoopInv'
<1> DEFINE o == <<"LoopEnded", rEnd>>
<1>u. /\ rPc = "last" /\ rPc' = "ended" /\ lOut' = Append(lOut, o)
      /\ UNCHANGED <<lUnits, lFed, lPc, lSub, rActs, rNow, rEnd, rSend, lResults>>
  BY Zenon DEF SendEnded, Quiet, lCoord, rTable
<1>t. lOut \in Seq(Output) /\ rEnd \in LoopEnd /\ lPc # "spawn"
  BY <1>u DEF LoopInv, LoopType
<1>o. o \in Output /\ o[1] = "LoopEnded"
  BY <1>t DEF Output
<1> HIDE DEF o
<1>1. /\ lOut' \in Seq(Output) /\ Len(lOut) \in Nat
      /\ DOMAIN lOut = 1 .. Len(lOut) /\ DOMAIN lOut' = 1 .. Len(lOut) + 1
      /\ \A i \in DOMAIN lOut : lOut'[i] = lOut[i]
      /\ lOut'[Len(lOut) + 1] = o
  BY <1>u, <1>t, <1>o, Queued
<1>2. \A i \in DOMAIN lOut' : lOut'[i][1] \in {"requested", "result"} =>
                                 i \in DOMAIN lOut /\ lOut'[i] = lOut[i]
  BY <1>o, <1>1
<1>3. Gone' = Gone /\ ~Asking'
  BY Zenon, <1>u DEF Gone, Asking
<1>4. LoopType'
  BY <1>u, <1>t, <1>1 DEF LoopInv, LoopType
<1>5. SendInv' /\ RoomInv'
  BY Zenon, <1>u DEF SendInv, RoomInv, Dispatching
<1>6. OnceInv'
  <2>i. OnceInv /\ lResults' = lResults
    BY Zenon, <1>u DEF LoopInv
  <2>1. \A i \in DOMAIN lOut' : lOut'[i][1] \in {"requested", "result"} => lOut'[i][2] \in Gone
    BY Zenon, <2>i, <1>2 DEF OnceInv
  <2>2. \A k \in DOMAIN lResults : lResults[k] \in Gone
    BY Zenon, <2>i DEF OnceInv
  <2>3. \A i, j \in DOMAIN lOut' :
          (lOut'[i][1] = "requested" /\ Names(lOut'[j], lOut'[i][2]) /\ i # j) => i < j
    <3> SUFFICES ASSUME NEW i \in DOMAIN lOut', NEW j \in DOMAIN lOut',
                        lOut'[i][1] = "requested", Names(lOut'[j], lOut'[i][2]), i # j
                 PROVE  i < j
      BY Zenon
    <3>1. i \in DOMAIN lOut /\ lOut'[i] = lOut[i] /\ j \in DOMAIN lOut /\ lOut'[j] = lOut[j]
      BY Zenon, <1>2 DEF Names
    <3> QED BY <3>1, <2>i DEF OnceInv
  <2>4. \A i \in DOMAIN lOut', k \in DOMAIN lResults :
          lOut'[i][1] = "requested" => lResults[k] # lOut'[i][2]
    BY Zenon, <2>i, <1>2 DEF OnceInv
  <2> QED BY <1>3, <2>i, <2>1, <2>2, <2>3, <2>4 DEF OnceInv, Names
<1> QED BY <1>4, <1>5, <1>6 DEF LoopInv

\* The coordinator takes an output.
LEMMA DrainKeeps ==
    ASSUME LoopInv, Drain
    PROVE  LoopInv'
<1>u. /\ UNCHANGED <<lUnits, lFed, lSub, rPc, rActs, rNow, rSend, rEnd>>
      /\ lPc = "drain" /\ lPc' # "spawn"
  BY DEF Drain, lFeed, LoopRest, rTable, Abandon
<1>t. /\ lFed \in 0 .. Len(lUnits) /\ lSub \in Seq(Nat \X Unit) /\ lOut \in Seq(Output)
      /\ lResults \in Seq(Action) /\ (rPc \in {"last", "ended"} => rEnd \in LoopEnd)
  BY DEF LoopInv, LoopType
<1>1. CASE UNCHANGED <<lOut, lResults>>
  BY Zenon, <1>u, <1>t, <1>1, LoopFrame
<1>2. CASE ~UNCHANGED <<lOut, lResults>>
  <2>1. /\ lOut # <<>> /\ lOut' = Tail(lOut)
        /\ \/ UNCHANGED lResults
           \/ Head(lOut)[1] = "result" /\ lResults' = Append(lResults, Head(lOut)[2])
    BY <1>2 DEF Drain
  <2>2. /\ lOut' \in Seq(Output) /\ Head(lOut) \in Output /\ Head(lOut) = lOut[1]
        /\ Len(lOut) \in Nat /\ Len(lOut') = Len(lOut) - 1
        /\ DOMAIN lOut = 1 .. Len(lOut) /\ 1 \in DOMAIN lOut /\ DOMAIN lOut' = 1 .. Len(lOut) - 1
        /\ \A i \in DOMAIN lOut' : i + 1 \in DOMAIN lOut /\ lOut'[i] = lOut[i + 1]
    BY Zenon, <1>t, <2>1, Unqueued
  <2>3. Gone' = Gone /\ Now' = Now /\ Left' = Left /\ Asking' = Asking /\ Weight(Gone') = Weight(Gone)
    BY <1>u DEF Gone, Now, Left, Asking, Share
  <2>4. Head(lOut)[1] = "result" => Head(lOut)[2] \in Action
    BY <2>2 DEF Output
  <2>5. /\ lResults' \in Seq(Action)
        /\ \A k \in DOMAIN lResults' :
              \/ k \in DOMAIN lResults /\ lResults'[k] = lResults[k]
              \/ lOut[1][1] = "result" /\ lResults'[k] = lOut[1][2]
    <3>1. CASE UNCHANGED lResults
      BY Zenon, <1>t, <3>1
    <3>2. CASE Head(lOut)[1] = "result" /\ lResults' = Append(lResults, Head(lOut)[2])
      <4>1. /\ lResults' \in Seq(Action) /\ Len(lResults) \in Nat
            /\ DOMAIN lResults = 1 .. Len(lResults) /\ DOMAIN lResults' = 1 .. Len(lResults) + 1
            /\ \A k \in DOMAIN lResults : lResults'[k] = lResults[k]
            /\ lResults'[Len(lResults) + 1] = Head(lOut)[2]
        BY <1>t, <2>4, <3>2, Queued
      <4> QED BY <2>2, <3>2, <4>1
    <3> QED BY <2>1, <3>1, <3>2
  <2>6. LoopType'
    BY <1>u, <2>2, <2>5 DEF LoopInv, LoopType
  <2>7. SendInv'
    BY Zenon, <1>u, <2>3 DEF LoopInv, SendInv
  <2>8. RoomInv'
    <3>1. rPc # "ended" => Len(lOut) + Left <= Weight(Gone)
      BY Zenon DEF LoopInv, RoomInv
    <3>2. Weight(Gone) \in Nat /\ Left \in Nat
      <4>1. Gone \subseteq Action
        BY Zenon DEF LoopInv, LoopType, Gone
      <4>2. rPc = "send" => Len(rSend) \in Nat
        BY DEF LoopInv, SendInv, Unavailable
      <4> QED BY <4>1, <4>2, WeightBound DEF Left, Share
    <3> QED BY <1>u, <2>2, <2>3, <3>1, <3>2 DEF RoomInv
  <2>9. OnceInv'
    <3>0. \A i, j \in DOMAIN lOut :
            (lOut[i][1] = "requested" /\ Names(lOut[j], lOut[i][2]) /\ i # j) => i < j
      BY Zenon DEF LoopInv, OnceInv
    <3>1. \A i \in DOMAIN lOut' : lOut'[i][1] \in {"requested", "result"} => lOut'[i][2] \in Gone
      BY Zenon, <2>2 DEF LoopInv, OnceInv
    <3>2. \A k \in DOMAIN lResults' : lResults'[k] \in Gone
      BY Zenon, <2>2, <2>5 DEF LoopInv, OnceInv
    <3>3. Asking => /\ \A i \in DOMAIN lOut' : ~Names(lOut'[i], Now)
                    /\ \A k \in DOMAIN lResults' : lResults'[k] # Now
      BY SMTT(20), <2>2, <2>5 DEF LoopInv, OnceInv, Names
    <3>4. \A i, j \in DOMAIN lOut' :
            (lOut'[i][1] = "requested" /\ Names(lOut'[j], lOut'[i][2]) /\ i # j) => i < j
      <4> SUFFICES ASSUME NEW i \in DOMAIN lOut', NEW j \in DOMAIN lOut',
                          lOut'[i][1] = "requested", Names(lOut'[j], lOut'[i][2]), i # j
                   PROVE  i < j
        BY Zenon
      <4>1. /\ i + 1 \in DOMAIN lOut /\ lOut[i + 1] = lOut'[i] /\ i \in Nat
            /\ j + 1 \in DOMAIN lOut /\ lOut[j + 1] = lOut'[j] /\ j \in Nat
        BY <2>2
      <4>2. i + 1 < j + 1
        BY <3>0, <4>1
      <4> QED BY <4>1, <4>2
    <3>5. \A i \in DOMAIN lOut', k \in DOMAIN lResults' :
            lOut'[i][1] = "requested" => lResults'[k] # lOut'[i][2]
      <4> SUFFICES ASSUME NEW i \in DOMAIN lOut', NEW k \in DOMAIN lResults',
                          lOut'[i][1] = "requested", lResults'[k] = lOut'[i][2]
                   PROVE  FALSE
        BY Zenon
      <4>1. i + 1 \in DOMAIN lOut /\ lOut[i + 1] = lOut'[i] /\ i + 1 > 1
        BY <2>2
      <4>2. CASE k \in DOMAIN lResults /\ lResults'[k] = lResults[k]
        BY Zenon, <4>1, <4>2 DEF LoopInv, OnceInv
      <4>3. CASE lOut[1][1] = "result" /\ lResults'[k] = lOut[1][2]
        <5>1. Names(lOut[1], lOut[i + 1][2])
          BY <4>1, <4>3 DEF Names
        <5>2. 1 \in DOMAIN lOut /\ i \in Nat /\ lOut[i + 1][1] = "requested"
          BY <2>2, <4>1
        <5>3. i + 1 < 1
          BY <3>0, <4>1, <5>1, <5>2
        <5> QED BY <5>2, <5>3
      <4> QED BY Zenon, <2>5, <4>2, <4>3
    <3> QED BY Zenon, <2>3, <3>1, <3>2, <3>3, <3>4, <3>5 DEF OnceInv, Names
  <2> QED BY <2>6, <2>7, <2>8, <2>9 DEF LoopInv
<1> QED BY <1>1, <1>2

\* The invariant holds in every reachable state.
LEMMA LoopInvHolds == LoopSpec => []LoopInv
<1>1. LoopInit => LoopInv
  <2> SUFFICES ASSUME LoopInit PROVE LoopInv
    BY Zenon
  <2>1. /\ rPc = "absent" /\ lSub = <<>> /\ lOut = <<>> /\ lResults = <<>> /\ rActs = <<>>
        /\ lFed = 0 /\ lUnits \in Seq(Unit)
    BY LoopNumbers DEF LoopInit
  <2>2. /\ lSub \in Seq(Nat \X Unit) /\ lOut \in Seq(Output) /\ lResults \in Seq(Action)
        /\ Len(lOut) = 0 /\ DOMAIN lOut = {} /\ DOMAIN lResults = {} /\ DOMAIN rActs = {}
    BY <2>1, SeqEmpty
  <2>3. Len(lUnits) \in Nat
    BY <2>1, SeqLen
  <2>4. Gone = {} /\ Left = 0 /\ ~Asking
    BY <2>1, <2>2 DEF Gone, Left, Asking
  <2>5. Weight(Gone) \in Nat
    BY Zenon, <2>4, WeightBound
  <2>6. LoopType /\ SendInv
    BY <2>1, <2>2, <2>3 DEF LoopType, SendInv, Dispatching
  <2>7. RoomInv /\ OnceInv
    BY <2>2, <2>4, <2>5 DEF RoomInv, OnceInv
  <2> QED BY <2>6, <2>7 DEF LoopInv
<1>2. LoopInv /\ UNCHANGED lVars => LoopInv'
  <2> SUFFICES ASSUME LoopInv, UNCHANGED lVars PROVE LoopInv'
    BY Zenon
  <2>1. UNCHANGED <<lUnits, lPc, lFed, lSub, rPc, rActs, rNow, rSend, rEnd, lOut, lResults>>
    BY DEF lVars, lCoord, rVars, rTable
  <2>2. /\ lFed \in 0 .. Len(lUnits) /\ lSub \in Seq(Nat \X Unit)
        /\ rPc \in {"last", "ended"} => rEnd \in LoopEnd
        /\ lPc = "spawn" => rPc = "absent"
    BY DEF LoopInv, LoopType
  <2> QED BY <2>1, <2>2, LoopFrame
<1>3. LoopInv /\ [LoopNext]_lVars => LoopInv'
  BY <1>2, LoopQuietKeeps, FeedKeeps, SelectKeeps, OutputKeeps, ResolveKeeps, EndedKeeps, DrainKeeps
     DEF LoopNext, CoordinatorSide, LoopSide
<1> QED BY <1>1, <1>3, PTL DEF LoopSpec

(* No action is dispatched twice, for every feed, however often and in     *)
(* whatever generations its request is delivered.                          *)
THEOREM NeverDispatchedTwice == LoopSpec => []DispatchOnce
<1>1. LoopInv => DispatchOnce
  <2> SUFFICES ASSUME LoopInv PROVE DispatchOnce
    BY Zenon
  <2>1. \A i, j \in DispatchedIn(lOut) : lOut[i][2] = lOut[j][2] => i = j
    <3> SUFFICES ASSUME NEW i \in DispatchedIn(lOut), NEW j \in DispatchedIn(lOut),
                        lOut[i][2] = lOut[j][2], i # j
                 PROVE  FALSE
      BY Zenon
    <3>1. /\ i \in DOMAIN lOut /\ j \in DOMAIN lOut
          /\ lOut[i][1] = "requested" /\ lOut[j][1] = "requested"
      BY Zenon DEF DispatchedIn
    <3>2. i < j /\ j < i
      BY Zenon, <3>1 DEF LoopInv, OnceInv, Names
    <3>3. i \in Nat /\ j \in Nat
      BY <3>1, SeqLen DEF LoopInv, LoopType
    <3> QED BY <3>2, <3>3
  <2>2. \A i \in DispatchedIn(lOut) : lOut[i][2] \notin Range(lResults)
    BY DEF LoopInv, OnceInv, DispatchedIn, Range
  <2> QED BY <2>1, <2>2 DEF DispatchOnce
<1> QED BY <1>1, LoopInvHolds, PTL

(* The loop never waits for room in its output, for every number of        *)
(* actions whose outputs the queue is sized for.                           *)
THEOREM OutputHasRoom == LoopSpec => []OutputFits
<1>1. LoopInv => OutputFits
  <2> SUFFICES ASSUME LoopInv, rPc \in {"send", "last"} PROVE Len(lOut) < LoopOutCap
    BY DEF OutputFits
  <2>1. Gone \subseteq Action /\ Len(lOut) \in Nat
    BY SeqLen DEF LoopInv, LoopType, Gone
  <2>2. Weight(Gone) \in Nat /\ Weight(Gone) < LoopOutCap /\ LoopOutCap \in Nat
    BY <2>1, WeightBound, LoopNumbers
  <2>3. Left \in Nat
    <3>1. rPc = "send" => Len(rSend) \in Nat
      BY DEF LoopInv, SendInv, Unavailable
    <3> QED BY <3>1 DEF Left, Share
  <2>4. Len(lOut) + Left <= Weight(Gone)
    BY Zenon DEF LoopInv, RoomInv
  <2> QED BY <2>1, <2>2, <2>3, <2>4
<1> QED BY <1>1, LoopInvHolds, PTL

-----------------------------------------------------------------------------
(* Every Ready request is answered.                                        *)

\* The Ready requests among the units the loop has taken.
AskedBy(n) == {lUnits[k].act : k \in {j \in 1 .. n : lUnits[j].req = "Ready"}}

\* The subscription holds what was fed and not taken, in order; what the tables
\* remember was delivered; and every Ready request taken is dispatched.
SeenInv ==
    /\ Numbered(lUnits)
    /\ rLastSeq \in Nat /\ lFed = rLastSeq + Len(lSub)
    /\ \A k \in DOMAIN lSub : lSub[k] = <<rLastSeq + k, lUnits[rLastSeq + k]>>
    /\ \A p \in rDedup : \E j \in 1 .. rLastSeq : lUnits[j].act = p[1] /\ lUnits[j].gen = p[2]
    /\ \A x \in DOMAIN rActs :
          \E j \in 1 .. rLastSeq : lUnits[j].act = x /\ lUnits[j].gen = rActs[x].gen
    /\ rEnd # "InvariantFailed" => Gone = AskedBy(rLastSeq)

\* How far the coordinator and the loop are, when the loop drained and when the
\* coordinator is past the feed or at its end.
EndingInv ==
    /\ rEnd # "none" => rPc \in {"last", "ended"}
    /\ rEnd = "Drained" => lSub = <<>> /\ ~lFeeding
    /\ lPc \in {"spawn", "feed"} => lFeeding
    /\ lPc # "done" => lRet # "Ok"
    /\ lPc \in {"check", "drain", "end"} \/ (lPc = "drive" /\ lRet = "none") \/ lRet = "Ok" =>
          lFed = Len(lUnits)
    /\ lPc = "end" \/ lRet = "Ok" => lOut = <<>> /\ rPc = "ended"
    /\ lRet = "Ok" => rEnd = "Drained"

\* A dispatched action has its result in the queue or in the report, once, or
\* is the one in progress; the end is the last output.
InQueue(x) == \E i \in DOMAIN lOut : lOut[i] = <<"result", x>>
InReport(x) == \E k \in DOMAIN lResults : lResults[k] = x
AnswerInv ==
    /\ \A x \in Gone : InQueue(x) \/ InReport(x) \/ (rPc \in Dispatching /\ x = Now)
    /\ rPc \in Dispatching => ~InQueue(Now) /\ ~InReport(Now)
    /\ \A i, j \in DOMAIN lOut : lOut[i][1] = "result" /\ lOut[i] = lOut[j] => i = j
    /\ \A x \in Action : ~(InQueue(x) /\ InReport(x))
    /\ \A k, l \in DOMAIN lResults : lResults[k] = lResults[l] => k = l
    /\ \A i \in DOMAIN lOut : lOut[i][1] = "LoopEnded" => i = Len(lOut) /\ rPc = "ended"

\* A step that takes no unit and ends nothing by a full table.
LEMMA SeenFrame ==
    ASSUME SeenInv, UNCHANGED <<lUnits, lFed, lSub, rLastSeq, rActs, rDedup>>,
           rEnd' # "InvariantFailed" => rEnd # "InvariantFailed"
    PROVE  SeenInv'
<1>1. Gone' = Gone /\ AskedBy(rLastSeq)' = AskedBy(rLastSeq)
  BY Zenon DEF Gone, AskedBy
<1> QED BY <1>1 DEF SeenInv

\* A unit is fed behind the others.
LEMMA SeenFeed ==
    ASSUME LoopInv, SeenInv, FeedUnit
    PROVE  SeenInv'
<1>1. /\ lUnits \in Seq(Unit) /\ lFed \in 0 .. Len(lUnits) /\ lSub \in Seq(Nat \X Unit)
  BY DEF LoopInv, LoopType
<1>2. Len(lUnits) \in Nat /\ DOMAIN lUnits = 1 .. Len(lUnits)
  BY <1>1, SeqLen
<1>3. /\ lFed < Len(lUnits) /\ lFed' = lFed + 1 /\ lSub' = Append(lSub, <<lFed + 1, lUnits[lFed + 1]>>)
      /\ UNCHANGED <<lUnits, rLastSeq, rActs, rDedup, rEnd>>
  BY DEF FeedUnit, rVars, rTable
<1>4. <<lFed + 1, lUnits[lFed + 1]>> \in Nat \X Unit
  BY SMTT(20), <1>1, <1>2, <1>3, SeqAt
<1>5. /\ Len(lSub) \in Nat /\ Len(lSub') = Len(lSub) + 1
      /\ DOMAIN lSub = 1 .. Len(lSub) /\ DOMAIN lSub' = 1 .. Len(lSub) + 1
      /\ \A i \in DOMAIN lSub : lSub'[i] = lSub[i]
      /\ lSub'[Len(lSub) + 1] = <<lFed + 1, lUnits[lFed + 1]>>
  BY SMTT(20), <1>1, <1>3, <1>4, Queued
<1>6. Gone' = Gone /\ AskedBy(rLastSeq)' = AskedBy(rLastSeq)
  BY Zenon, <1>3 DEF Gone, AskedBy
<1>7. rLastSeq \in Nat /\ lFed = rLastSeq + Len(lSub)
  BY Zenon DEF SeenInv
<1>8. lFed' = rLastSeq' + Len(lSub')
  BY SMTT(20), <1>3, <1>5, <1>7
<1>9. \A k \in DOMAIN lSub' : lSub'[k] = <<rLastSeq + k, lUnits[rLastSeq + k]>>
  <2> SUFFICES ASSUME NEW k \in DOMAIN lSub' PROVE lSub'[k] = <<rLastSeq + k, lUnits[rLastSeq + k]>>
    BY Zenon
  <2>1. CASE k \in DOMAIN lSub
    BY <1>5, <2>1 DEF SeenInv
  <2>2. CASE k = Len(lSub) + 1
    <3>1. rLastSeq + k = lFed + 1
      BY <1>5, <1>7, <2>2
    <3> QED BY Zenon, <1>5, <2>2, <3>1
  <2> QED BY <1>5, <2>1, <2>2
<1> QED BY ZenonT(30), <1>3, <1>6, <1>7, <1>8, <1>9 DEF SeenInv

\* What on_unit does to the dispatched actions and to the tables.
LEMMA OnUnitMeans ==
    ASSUME LoopInv, NEW u \in Unit, OnUnit(u.act, u.gen, u.req)
    PROVE  /\ \/ Gone' = Gone /\ rPc' \in {"top", "last"}
              \/ /\ Gone' = Gone \cup {u.act} /\ u.act \notin Gone /\ u.req = "Ready"
                 /\ rPc' = "send" /\ rNow' = <<u.act>>
           /\ rDedup' \subseteq rDedup \cup {<<u.act, u.gen>>}
           /\ \A x \in DOMAIN rActs' :
                 \/ x \in DOMAIN rActs /\ rActs'[x] = rActs[x]
                 \/ x = u.act /\ rActs'[x].gen = u.gen
           /\ (u.req = "Ready" /\ rEnd' # "InvariantFailed" /\ u.act \notin Gone') =>
                 \/ <<u.act, u.gen>> \in rDedup
                 \/ u.act \in DOMAIN rActs /\ u.gen < rActs[u.act].gen
           /\ rEnd' \in {rEnd, "InvariantFailed"}
<1> DEFINE x == u.act
           d == Dispatchable(x, u.gen, u.req)
<1>t. /\ x \in Action /\ u.gen \in Nat \ {0}
      /\ DOMAIN rActs \subseteq Action /\ \A y \in DOMAIN rActs : rActs[y] \in [gen : Nat, dispatched : BOOLEAN]
  BY Zenon DEF LoopInv, LoopType, Unit
<1>1. CASE u.req = "Text" \/ <<x, u.gen>> \in rDedup
  <2>1. rPc' = "top" /\ UNCHANGED <<rActs, rDedup, rNow, rSend, rEnd>>
    BY <1>1 DEF OnUnit
  <2>2. Gone' = Gone
    BY Zenon, <2>1 DEF Gone
  <2> QED BY Zenon, <1>1, <2>1, <2>2
<1>2. CASE ~(u.req = "Text" \/ <<x, u.gen>> \in rDedup) /\ rPc' = "last"
  <2>1. rEnd' = "InvariantFailed" /\ UNCHANGED rActs /\ rDedup' \subseteq rDedup \cup {<<x, u.gen>>}
    BY <1>2 DEF OnUnit, Finish
  <2>2. Gone' = Gone
    BY Zenon, <2>1 DEF Gone
  <2> QED BY Zenon, <1>2, <2>1, <2>2
<1>3. CASE ~(u.req = "Text" \/ <<x, u.gen>> \in rDedup) /\ rPc' # "last"
  <2>1. /\ rActs' = [y \in DOMAIN rActs \cup {x} |-> IF y = x THEN Record(x, u.gen, u.req) ELSE rActs[y]]
        /\ IF d THEN rPc' = "send" /\ rNow' = <<x>> ELSE rPc' = "top"
        /\ rEnd' = rEnd /\ rDedup' = rDedup \cup {<<x, u.gen>>}
    BY Zenon, <1>3 DEF OnUnit, Finish
  <2>2. Record(x, u.gen, u.req).dispatched <=> (x \in Gone \/ d)
    BY Zenon, <1>t, Recorded
  <2>3. Gone' = IF d THEN Gone \cup {x} ELSE Gone
    BY Zenon, <2>1, <2>2 DEF Gone
  <2>4. d => x \notin Gone /\ u.req = "Ready"
    BY Zenon DEF Dispatchable, Gone
  <2>5. (u.req = "Ready" /\ ~d /\ x \notin Gone) => x \in DOMAIN rActs /\ u.gen < rActs[x].gen
    BY SMTT(20), <1>t DEF Dispatchable, Gone
  <2>6. (x \in DOMAIN rActs /\ Record(x, u.gen, u.req) = rActs[x]) \/ Record(x, u.gen, u.req).gen = u.gen
    BY <1>t DEF Record
  <2>7. \A y \in DOMAIN rActs' : \/ y \in DOMAIN rActs /\ rActs'[y] = rActs[y]
                                 \/ y = x /\ rActs'[y].gen = u.gen
    BY Zenon, <2>1, <2>6
  <2> HIDE DEF d, x
  <2>8. \/ Gone' = Gone /\ rPc' \in {"top", "last"}
        \/ Gone' = Gone \cup {x} /\ x \notin Gone /\ u.req = "Ready" /\ rPc' = "send" /\ rNow' = <<x>>
    BY Zenon, <2>1, <2>3, <2>4
  <2>9. (u.req = "Ready" /\ x \notin Gone') => x \in DOMAIN rActs /\ u.gen < rActs[x].gen
    BY Zenon, <2>3, <2>5
  <2> QED BY Zenon, <2>1, <2>7, <2>8, <2>9 DEF x
<1> QED BY Zenon, <1>1, <1>2, <1>3

\* A unit is taken: it is the next one, and a Ready request not dispatched now
\* was dispatched before, since the interpreter numbers an action's events.
LEMMA SeenTake ==
    ASSUME LoopInv, SeenInv, rEnd = "none", NEW u \in Unit, lSub # <<>>, lSub' = Tail(lSub),
           u = Head(lSub)[2], rLastSeq' = Head(lSub)[1], OnUnit(u.act, u.gen, u.req),
           UNCHANGED <<lUnits, lFed>>
    PROVE  SeenInv'
<1> DEFINE n == rLastSeq + 1
<1>0. /\ lUnits \in Seq(Unit) /\ lSub \in Seq(Nat \X Unit) /\ rLastSeq \in Nat
      /\ lFed = rLastSeq + Len(lSub) /\ lFed <= Len(lUnits) /\ lFed \in Nat
  BY DEF LoopInv, LoopType, SeenInv
<1>1. /\ Head(lSub) = lSub[1] /\ Len(lSub) \in Nat /\ Len(lSub') = Len(lSub) - 1
      /\ DOMAIN lSub = 1 .. Len(lSub) /\ 1 \in DOMAIN lSub /\ DOMAIN lSub' = 1 .. Len(lSub) - 1
      /\ \A i \in DOMAIN lSub' : i + 1 \in DOMAIN lSub /\ lSub'[i] = lSub[i + 1]
  BY Zenon, <1>0, Unqueued
<1>2. rLastSeq' = n /\ u = lUnits[n] /\ n \in Nat
  <2>1. lSub[1] = <<rLastSeq + 1, lUnits[rLastSeq + 1]>>
    BY Zenon, <1>1 DEF SeenInv
  <2>2. lSub[1][1] = rLastSeq + 1 /\ lSub[1][2] = lUnits[rLastSeq + 1]
    BY <2>1
  <2>3. rLastSeq + 1 \in Nat
    BY <1>0
  <2> QED BY Zenon, <1>1, <2>2, <2>3
<1>3. lFed' = rLastSeq' + Len(lSub')
  <2>1. rLastSeq \in Nat /\ Len(lSub) \in Nat /\ lFed = rLastSeq + Len(lSub)
    BY Zenon, <1>0, <1>1
  <2>2. lFed' = lFed /\ rLastSeq' = rLastSeq + 1 /\ Len(lSub') = Len(lSub) - 1
    BY Zenon, <1>1, <1>2
  <2> QED BY <2>1, <2>2
<1>4. \A k \in DOMAIN lSub' : lSub'[k] = <<rLastSeq' + k, lUnits[rLastSeq' + k]>>
  <2> SUFFICES ASSUME NEW k \in DOMAIN lSub' PROVE lSub'[k] = <<n + k, lUnits[n + k]>>
    BY Zenon, <1>2
  <2>1. k + 1 \in DOMAIN lSub /\ lSub'[k] = lSub[k + 1] /\ rLastSeq + (k + 1) = n + k
    BY SMTT(20), <1>0, <1>1
  <2>2. lSub[k + 1] = <<rLastSeq + (k + 1), lUnits[rLastSeq + (k + 1)]>>
    BY SMTT(20), <2>1 DEF SeenInv
  <2> QED BY Zenon, <2>1, <2>2
<1>5. \A j \in 1 .. rLastSeq : j \in 1 .. n /\ j < n /\ j \in DOMAIN lUnits
  <2>1. DOMAIN lUnits = 1 .. Len(lUnits) /\ Len(lUnits) \in Nat
    BY Zenon, <1>0, SeqLen
  <2> QED BY <1>0, <1>1, <2>1
<1>6. n \in 1 .. n /\ n \in DOMAIN lUnits
  <2>1. DOMAIN lUnits = 1 .. Len(lUnits) /\ Len(lUnits) \in Nat
    BY Zenon, <1>0, SeqLen
  <2> QED BY <1>0, <1>1, <2>1
<1>7. \A k \in 1 .. n : k \in 1 .. rLastSeq \/ k = n
  BY <1>0
<1> HIDE DEF n
<1>8. \A p \in rDedup' : \E j \in 1 .. n : lUnits[j].act = p[1] /\ lUnits[j].gen = p[2]
  <2> SUFFICES ASSUME NEW p \in rDedup' PROVE \E j \in 1 .. n : lUnits[j].act = p[1] /\ lUnits[j].gen = p[2]
    BY Zenon
  <2>1. p \in rDedup \/ p = <<u.act, u.gen>>
    BY Zenon, OnUnitMeans
  <2>2. CASE p \in rDedup
    BY Zenon, <1>5, <2>2 DEF SeenInv
  <2>3. CASE p = <<u.act, u.gen>>
    BY Zenon, <1>2, <1>6, <2>3
  <2> QED BY Zenon, <2>1, <2>2, <2>3
<1>9. \A x \in DOMAIN rActs' : \E j \in 1 .. n : lUnits[j].act = x /\ lUnits[j].gen = rActs'[x].gen
  <2> SUFFICES ASSUME NEW x \in DOMAIN rActs'
               PROVE  \E j \in 1 .. n : lUnits[j].act = x /\ lUnits[j].gen = rActs'[x].gen
    BY Zenon
  <2>1. \/ x \in DOMAIN rActs /\ rActs'[x] = rActs[x]
        \/ x = u.act /\ rActs'[x].gen = u.gen
    BY Zenon, OnUnitMeans
  <2>2. CASE x \in DOMAIN rActs /\ rActs'[x] = rActs[x]
    BY <1>5, <2>2 DEF SeenInv
  <2>3. CASE x = u.act /\ rActs'[x].gen = u.gen
    BY Zenon, <1>2, <1>6, <2>3
  <2> QED BY Zenon, <2>1, <2>2, <2>3
<1>10. ASSUME rEnd' # "InvariantFailed" PROVE Gone' = AskedBy(n)
  <2>1. Gone = AskedBy(rLastSeq)
    BY Zenon DEF SeenInv
  <2>2. AskedBy(n) = IF u.req = "Ready" THEN AskedBy(rLastSeq) \cup {u.act} ELSE AskedBy(rLastSeq)
    BY Zenon, <1>2, <1>5, <1>6, <1>7 DEF AskedBy
  <2>3. (u.req = "Ready" /\ u.act \notin Gone') => u.act \in Gone
    <3> SUFFICES ASSUME u.req = "Ready", u.act \notin Gone' PROVE u.act \in Gone
      BY Zenon
    <3>1. \/ <<u.act, u.gen>> \in rDedup
          \/ u.act \in DOMAIN rActs /\ u.gen < rActs[u.act].gen
      BY Zenon, <1>10, OnUnitMeans
    <3>2. PICK j \in 1 .. rLastSeq : lUnits[j].act = u.act /\ (lUnits[j].gen = u.gen \/ u.gen < lUnits[j].gen)
      <4>1. CASE <<u.act, u.gen>> \in rDedup
        BY ZenonT(30), <4>1 DEF SeenInv
      <4>2. CASE u.act \in DOMAIN rActs /\ u.gen < rActs[u.act].gen
        BY ZenonT(30), <4>2 DEF SeenInv
      <4> QED BY Zenon, <3>1, <4>1, <4>2
    <3>3. j \in DOMAIN lUnits /\ n \in DOMAIN lUnits /\ j < n
      BY Zenon, <1>5, <1>6
    <3>4. lUnits[j].gen < lUnits[n].gen \/ lUnits[j] = lUnits[n]
      BY <1>2, <3>2, <3>3 DEF SeenInv, Numbered
    <3>5. lUnits[j].gen \in Nat /\ lUnits[n].gen \in Nat
      <4>1. DOMAIN lUnits = 1 .. Len(lUnits)
        BY Zenon, <1>0, SeqLen
      <4>2. lUnits[j] \in Unit /\ lUnits[n] \in Unit
        BY Zenon, <1>0, <3>3, <4>1, SeqAt
      <4> QED BY Zenon, <4>2 DEF Unit
    <3>6. lUnits[j] = u
      BY <1>2, <3>2, <3>4, <3>5
    <3> QED BY Zenon, <2>1, <3>6 DEF AskedBy
  <2>4. Gone' = Gone \/ (Gone' = Gone \cup {u.act} /\ u.req = "Ready")
    BY ZenonT(30), OnUnitMeans
  <2> QED BY Zenon, <2>1, <2>2, <2>3, <2>4
<1>11. Numbered(lUnits') /\ AskedBy(rLastSeq)' = AskedBy(n)
  BY <1>2 DEF SeenInv, AskedBy
<1> QED BY ZenonT(30), <1>2, <1>3, <1>4, <1>8, <1>9, <1>10, <1>11 DEF SeenInv

\* Every step keeps the account of the units.
LEMMA SeenStep ==
    ASSUME LoopInv, SeenInv, EndingInv, [LoopNext]_lVars
    PROVE  SeenInv'
<1> USE DEF lFeed, lEnvVars, LoopRest, rTable, lCoord
<1>1. CASE SpawnLoop \/ FeedEnds \/ DriveBusy \/ Check \/ Drain
  BY Zenon, <1>1, SeenFrame DEF SpawnLoop, FeedEnds, DriveBusy, Check, Drain
<1>2. CASE AwaitEnd \/ LoopEnv \/ UNCHANGED lVars
  BY <1>2, SeenFrame DEF AwaitEnd, LoopEnv, rVars, lVars
<1>3. CASE FeedUnit
  BY <1>3, SeenFeed
<1>4. CASE Top
  <2>1. rEnd = "none"
    BY Zenon, <1>4 DEF EndingInv, Top
  <2> QED BY Zenon, <1>4, <2>1, SeenFrame DEF Top, Finish, Quiet
<1>5. CASE ArmNotified \/ SendOutput \/ Resolve \/ ToolDone \/ SendEnded
  BY <1>5, SeenFrame DEF ArmNotified, SendOutput, Resolve, ToolDone, SendEnded, Quiet
<1>6. CASE SelectLoop
  <2>1. rEnd = "none" /\ UNCHANGED <<lUnits, lFed>>
    BY <1>6 DEF EndingInv, SelectLoop, Quiet
  <2>2. CASE UNCHANGED <<lSub, rTable>>
    BY Zenon, <2>1, <2>2, SeenFrame
  <2>3. CASE ~UNCHANGED <<lSub, rTable>>
    <3>1. /\ lSub # <<>> /\ lSub' = Tail(lSub)
          /\ (rLastSeq > 0 /\ Head(lSub)[1] # rLastSeq + 1) \/
             (rLastSeq' = Head(lSub)[1] /\ OnUnit(Head(lSub)[2].act, Head(lSub)[2].gen, Head(lSub)[2].req))
      BY <1>6, <2>3 DEF SelectLoop
    <3>2. lSub \in Seq(Nat \X Unit)
      BY DEF LoopInv, LoopType
    <3>3. Head(lSub) \in Nat \X Unit /\ Head(lSub) = lSub[1] /\ 1 \in DOMAIN lSub
      BY Zenon, <3>1, <3>2, Unqueued
    <3>4. Head(lSub)[1] = rLastSeq + 1 /\ Head(lSub)[2] \in Unit
      BY <3>3 DEF SeenInv
    <3> QED BY ZenonT(30), <2>1, <3>1, <3>4, SeenTake
  <2> QED BY Zenon, <2>2, <2>3
<1> QED BY Zenon, <1>1, <1>2, <1>3, <1>4, <1>5, <1>6 DEF LoopNext, CoordinatorSide, LoopSide

\* The output takes one more.
LEMMA OneMore ==
    ASSUME LoopInv, NEW o \in Output, lOut' = Append(lOut, o)
    PROVE  /\ \A x : InQueue(x)' <=> (InQueue(x) \/ o = <<"result", x>>)
           /\ Len(lOut) \in Nat /\ Len(lOut') = Len(lOut) + 1
           /\ \A i \in DOMAIN lOut' : \/ i \in DOMAIN lOut /\ lOut'[i] = lOut[i]
                                      \/ i = Len(lOut) + 1 /\ lOut'[i] = o
<1>1. lOut \in Seq(Output)
  BY DEF LoopInv, LoopType
<1>2. /\ Len(lOut) \in Nat /\ Len(lOut') = Len(lOut) + 1
      /\ DOMAIN lOut = 1 .. Len(lOut) /\ DOMAIN lOut' = 1 .. Len(lOut) + 1
      /\ \A i \in DOMAIN lOut : lOut'[i] = lOut[i]
      /\ lOut'[Len(lOut) + 1] = o
  BY <1>1, Queued
<1>3. DOMAIN lOut \subseteq DOMAIN lOut' /\ Len(lOut) + 1 \in DOMAIN lOut'
  BY <1>2
<1>4. \A i \in DOMAIN lOut' : \/ i \in DOMAIN lOut /\ lOut'[i] = lOut[i]
                              \/ i = Len(lOut) + 1 /\ lOut'[i] = o
  BY <1>2
<1>5. \A x : InQueue(x)' <=> (InQueue(x) \/ o = <<"result", x>>)
  BY Zenon, <1>2, <1>3, <1>4 DEF InQueue
<1> QED BY Zenon, <1>2, <1>4, <1>5

\* The first output is taken.
LEMMA OneLess ==
    ASSUME LoopInv, AnswerInv, lOut # <<>>, lOut' = Tail(lOut)
    PROVE  /\ \A x : InQueue(x)' <=> (InQueue(x) /\ Head(lOut) # <<"result", x>>)
           /\ Head(lOut) \in Output
           /\ \A i, j \in DOMAIN lOut' : lOut'[i][1] = "result" /\ lOut'[i] = lOut'[j] => i = j
           /\ \A i \in DOMAIN lOut' : lOut'[i][1] = "LoopEnded" => i = Len(lOut') /\ rPc = "ended"
           /\ Head(lOut)[1] = "LoopEnded" => lOut' = <<>> /\ rPc = "ended"
           /\ \A x : Head(lOut) = <<"result", x>> => InQueue(x)
<1>1. lOut \in Seq(Output)
  BY DEF LoopInv, LoopType
<1>2. /\ lOut' \in Seq(Output) /\ Head(lOut) \in Output /\ Head(lOut) = lOut[1]
      /\ Len(lOut) \in Nat /\ Len(lOut') = Len(lOut) - 1
      /\ DOMAIN lOut = 1 .. Len(lOut) /\ 1 \in DOMAIN lOut /\ DOMAIN lOut' = 1 .. Len(lOut) - 1
      /\ \A i \in DOMAIN lOut' : i + 1 \in DOMAIN lOut /\ lOut'[i] = lOut[i + 1]
  BY Zenon, <1>1, Unqueued
<1>u. /\ \A i, j \in DOMAIN lOut : lOut[i][1] = "result" /\ lOut[i] = lOut[j] => i = j
      /\ \A i \in DOMAIN lOut : lOut[i][1] = "LoopEnded" => i = Len(lOut) /\ rPc = "ended"
  BY DEF AnswerInv
<1>3. ASSUME NEW x PROVE InQueue(x)' <=> (InQueue(x) /\ Head(lOut) # <<"result", x>>)
  <2>1. ASSUME InQueue(x)' PROVE InQueue(x) /\ Head(lOut) # <<"result", x>>
    <3>1. PICK i \in DOMAIN lOut' : lOut'[i] = <<"result", x>>
      BY Zenon, <2>1 DEF InQueue
    <3>2. i + 1 \in DOMAIN lOut /\ lOut[i + 1] = <<"result", x>> /\ i + 1 # 1 /\ <<"result", x>>[1] = "result"
      BY <1>2, <3>1
    <3>3. lOut[1] # <<"result", x>>
      BY Zenon, <1>2, <1>u, <3>2
    <3> QED BY <1>2, <3>2, <3>3 DEF InQueue
  <2>2. ASSUME InQueue(x), Head(lOut) # <<"result", x>> PROVE InQueue(x)'
    <3>1. PICK i \in DOMAIN lOut : lOut[i] = <<"result", x>>
      BY <2>2 DEF InQueue
    <3>a. i # 1 /\ i \in 1 .. Len(lOut) /\ Len(lOut) \in Nat
      BY <1>2, <2>2, <3>1
    <3>b. i - 1 \in 1 .. Len(lOut) - 1 /\ (i - 1) + 1 = i
      BY <3>a
    <3>2. i - 1 \in DOMAIN lOut' /\ (i - 1) + 1 = i
      BY Zenon, <1>2, <3>b
    <3>3. lOut'[i - 1] = <<"result", x>>
      BY Zenon, <1>2, <3>1, <3>2
    <3> QED BY <3>2, <3>3 DEF InQueue
  <2> QED BY Zenon, <2>1, <2>2
<1>4. \A i, j \in DOMAIN lOut' : lOut'[i][1] = "result" /\ lOut'[i] = lOut'[j] => i = j
  <2> SUFFICES ASSUME NEW i \in DOMAIN lOut', NEW j \in DOMAIN lOut', lOut'[i][1] = "result", lOut'[i] = lOut'[j]
               PROVE  i = j
    BY Zenon
  <2>1. i + 1 = j + 1
    BY <1>2, <1>u
  <2> QED BY <1>2, <2>1
<1>5. \A i \in DOMAIN lOut' : lOut'[i][1] = "LoopEnded" => i = Len(lOut') /\ rPc = "ended"
  <2> SUFFICES ASSUME NEW i \in DOMAIN lOut', lOut'[i][1] = "LoopEnded"
               PROVE  i = Len(lOut') /\ rPc = "ended"
    BY Zenon
  <2>1. i + 1 = Len(lOut) /\ rPc = "ended"
    BY Zenon, <1>2, <1>u
  <2> QED BY <1>2, <2>1
<1>6. Head(lOut)[1] = "LoopEnded" => lOut' = <<>> /\ rPc = "ended"
  <2> SUFFICES ASSUME Head(lOut)[1] = "LoopEnded" PROVE lOut' = <<>> /\ rPc = "ended"
    BY Zenon
  <2>1. 1 = Len(lOut) /\ rPc = "ended"
    BY Zenon, <1>2, <1>u
  <2>2. Len(lOut') = 0
    BY <1>2, <2>1
  <2> QED BY Zenon, <1>2, <2>1, <2>2, SeqEmpty
<1>7. \A x : Head(lOut) = <<"result", x>> => InQueue(x)
  BY Zenon, <1>2 DEF InQueue
<1> QED BY Zenon, <1>2, <1>3, <1>4, <1>5, <1>6, <1>7

\* A step that leaves dispatches, output and results alone.
LEMMA AnswerFrame ==
    ASSUME AnswerInv, UNCHANGED <<lOut, lResults>>, Gone' = Gone,
           \/ UNCHANGED <<rPc, rNow>>
           \/ rPc \in Dispatching /\ rPc' \in Dispatching /\ UNCHANGED rNow
           \/ rPc \notin Dispatching \cup {"ended"} /\ rPc' \notin Dispatching
    PROVE  AnswerInv'
<1>1. \A x : (InQueue(x)' <=> InQueue(x)) /\ (InReport(x)' <=> InReport(x))
  BY DEF InQueue, InReport
<1>2. rPc = "ended" => rPc' = "ended"
  BY DEF Dispatching
<1>3. rPc \in Dispatching => rPc' \in Dispatching /\ Now' = Now
  BY DEF Now
<1>4. rPc' \in Dispatching => rPc \in Dispatching /\ Now' = Now
  BY DEF Now
<1> QED BY Zenon, <1>1, <1>2, <1>3, <1>4 DEF AnswerInv

\* An action is dispatched, which has no result yet.
LEMMA AnswerUnit ==
    ASSUME LoopInv, AnswerInv, rPc = "select", NEW u \in Unit, OnUnit(u.act, u.gen, u.req),
           UNCHANGED <<lOut, lResults>>
    PROVE  AnswerInv'
<1>1. CASE Gone' = Gone /\ rPc' \in {"top", "last"}
  BY Zenon, <1>1, AnswerFrame DEF Dispatching
<1>2. CASE /\ Gone' = Gone \cup {u.act} /\ u.act \notin Gone /\ rPc' = "send" /\ rNow' = <<u.act>>
  <2>1. \A x : (InQueue(x)' <=> InQueue(x)) /\ (InReport(x)' <=> InReport(x))
    BY DEF InQueue, InReport
  <2>2. Now' = u.act /\ rPc' \in Dispatching /\ rPc \notin Dispatching
    BY Zenon, <1>2 DEF Now, Dispatching
  <2>3. ~InQueue(u.act)
    <3>1. \A i \in DOMAIN lOut : lOut[i][1] \in {"requested", "result"} => lOut[i][2] \in Gone
      BY Zenon DEF LoopInv, OnceInv
    <3> QED BY <1>2, <3>1 DEF InQueue
  <2>4. ~InReport(u.act)
    BY Zenon, <1>2 DEF LoopInv, OnceInv, InReport
  <2>5. \A i \in DOMAIN lOut : lOut[i][1] # "LoopEnded"
    BY DEF AnswerInv
  <2> QED BY Zenon, <1>2, <2>1, <2>2, <2>3, <2>4, <2>5 DEF AnswerInv
<1> QED BY Zenon, <1>1, <1>2, OnUnitMeans

\* An output that is not a result, and one that is.
LEMMA AnswerSend ==
    ASSUME LoopInv, AnswerInv, SendOutput
    PROVE  AnswerInv'
<1>u. /\ rPc = "send" /\ lOut' = Append(lOut, Head(rSend)) /\ UNCHANGED <<rActs, rNow, lResults>>
  BY Zenon DEF SendOutput, Quiet, lCoord, rTable
<1>t. /\ Now \in Gone /\ Now \in Action /\ rPc \in Dispatching
      /\ rSend \in {<<<<"requested", Now>>>>, <<<<"result", Now>>>>, Unavailable(Now)}
  BY <1>u DEF LoopInv, LoopType, SendInv, Dispatching, Gone
<1>g. Gone' = Gone /\ Now' = Now /\ \A x : InReport(x)' <=> InReport(x)
  BY Zenon, <1>u DEF Gone, Now, InReport
<1>n. \A i \in DOMAIN lOut : lOut[i][1] # "LoopEnded"
  BY Zenon, <1>u DEF AnswerInv
<1>i. /\ \A x \in Gone : InQueue(x) \/ InReport(x) \/ x = Now
      /\ ~InQueue(Now) /\ ~InReport(Now)
      /\ \A i, j \in DOMAIN lOut : lOut[i][1] = "result" /\ lOut[i] = lOut[j] => i = j
      /\ \A x \in Action : ~(InQueue(x) /\ InReport(x))
      /\ \A k, l \in DOMAIN lResults : lResults[k] = lResults[l] => k = l
  BY <1>t DEF AnswerInv
<1>1. CASE rSend = <<<<"result", Now>>>>
  <2> DEFINE o == <<"result", Now>>
  <2>1. Head(rSend) = o /\ rPc' = "top" /\ o \in Output /\ o[1] = "result"
    BY <1>1, <1>t DEF SendOutput, Output
  <2>2. \A x : InQueue(x)' <=> (InQueue(x) \/ o = <<"result", x>>)
    BY Zenon, <1>u, <2>1, OneMore
  <2>3. \A x : InQueue(x)' <=> (InQueue(x) \/ x = Now)
    BY Zenon, <2>2
  <2>4. \A i \in DOMAIN lOut' : \/ i \in DOMAIN lOut /\ lOut'[i] = lOut[i]
                                \/ i = Len(lOut) + 1 /\ lOut'[i] = o
    BY Zenon, <1>u, <2>1, OneMore
  <2> HIDE DEF o
  <2>5. \A i, j \in DOMAIN lOut' : lOut'[i][1] = "result" /\ lOut'[i] = lOut'[j] => i = j
    BY ZenonT(30), <1>i, <2>4 DEF InQueue, o
  <2>6. \A i \in DOMAIN lOut' : lOut'[i][1] # "LoopEnded"
    BY <1>n, <2>1, <2>4
  <2>7. rPc' \notin Dispatching
    BY Zenon, <2>1 DEF Dispatching
  <2>8. \A x \in Action : ~(InQueue(x)' /\ InReport(x)')
    BY Zenon, <1>g, <1>i, <2>3
  <2>9. \A x \in Gone' : InQueue(x)' \/ InReport(x)'
    BY Zenon, <1>g, <1>i, <2>3
  <2> QED BY Zenon, <1>u, <1>i, <2>5, <2>6, <2>7, <2>8, <2>9 DEF AnswerInv
<1>2. ASSUME NEW o \in Output, Head(rSend) = o, o[1] \in {"requested", "unavailable"}, rPc' \in {"send", "resolve"}
      PROVE  AnswerInv'
  <2>1. \A x : InQueue(x)' <=> (InQueue(x) \/ o = <<"result", x>>)
    BY Zenon, <1>u, <1>2, OneMore
  <2>2. \A x : o # <<"result", x>>
    BY <1>2
  <2>3. \A x : InQueue(x)' <=> InQueue(x)
    BY Zenon, <2>1, <2>2
  <2>4. \A i \in DOMAIN lOut' : \/ i \in DOMAIN lOut /\ lOut'[i] = lOut[i]
                                \/ i = Len(lOut) + 1 /\ lOut'[i] = o
    BY Zenon, <1>u, <1>2, OneMore
  <2>5. \A i, j \in DOMAIN lOut' : lOut'[i][1] = "result" /\ lOut'[i] = lOut'[j] => i = j
    BY Zenon, <1>2, <1>i, <2>4
  <2>6. \A i \in DOMAIN lOut' : lOut'[i][1] # "LoopEnded"
    BY <1>n, <1>2, <2>4
  <2>7. rPc' \in Dispatching
    BY <1>2 DEF Dispatching
  <2> QED BY ZenonT(30), <1>u, <1>g, <1>i, <2>3, <2>5, <2>6, <2>7 DEF AnswerInv
<1>3. CASE rSend = <<<<"requested", Now>>>>
  <2>1. Head(rSend) = <<"requested", Now>> /\ rPc' = "resolve" /\ <<"requested", Now>> \in Output
    BY <1>3, <1>t DEF SendOutput, Output
  <2> QED BY Zenon, <1>2, <2>1
<1>4. CASE rSend = Unavailable(Now)
  <2>1. Head(rSend) = <<"unavailable", Now>> /\ rPc' = "send" /\ <<"unavailable", Now>> \in Output
    BY <1>4, <1>t DEF SendOutput, Output, Unavailable
  <2> QED BY Zenon, <1>2, <2>1
<1> QED BY Zenon, <1>t, <1>1, <1>3, <1>4

\* The end goes behind all the results.
LEMMA AnswerEnded ==
    ASSUME LoopInv, AnswerInv, SendEnded
    PROVE  AnswerInv'
<1> DEFINE o == <<"LoopEnded", rEnd>>
<1>u. /\ rPc = "last" /\ rPc' = "ended" /\ lOut' = Append(lOut, o) /\ UNCHANGED <<rActs, rNow, lResults>>
  BY Zenon DEF SendEnded, Quiet, lCoord, rTable
<1>o. o \in Output /\ o[1] = "LoopEnded" /\ \A x : o # <<"result", x>>
  BY <1>u DEF LoopInv, LoopType, Output
<1> HIDE DEF o
<1>g. Gone' = Gone /\ \A x : InReport(x)' <=> InReport(x)
  BY <1>u DEF Gone, InReport
<1>1. \A x : InQueue(x)' <=> InQueue(x)
  <2>1. \A x : InQueue(x)' <=> (InQueue(x) \/ o = <<"result", x>>)
    BY Zenon, <1>u, <1>o, OneMore
  <2> QED BY Zenon, <1>o, <2>1
<1>2. /\ Len(lOut') = Len(lOut) + 1
      /\ \A i \in DOMAIN lOut' : \/ i \in DOMAIN lOut /\ lOut'[i] = lOut[i]
                                 \/ i = Len(lOut) + 1 /\ lOut'[i] = o
  BY Zenon, <1>u, <1>o, OneMore
<1>3. \A i \in DOMAIN lOut : lOut[i][1] # "LoopEnded"
  BY Zenon, <1>u DEF AnswerInv
<1>4. \A i \in DOMAIN lOut' : lOut'[i][1] = "LoopEnded" => i = Len(lOut')
  BY Zenon, <1>2, <1>3
<1>5. \A i, j \in DOMAIN lOut' : lOut'[i][1] = "result" /\ lOut'[i] = lOut'[j] => i = j
  <2>1. \A i, j \in DOMAIN lOut : lOut[i][1] = "result" /\ lOut[i] = lOut[j] => i = j
    BY DEF AnswerInv
  <2>2. \A i \in DOMAIN lOut' : lOut'[i][1] = "result" => i \in DOMAIN lOut /\ lOut'[i] = lOut[i]
    BY <1>o, <1>2
  <2> QED BY ZenonT(30), <2>1, <2>2
<1>6. rPc \notin Dispatching /\ rPc' \notin Dispatching
  BY Zenon, <1>u DEF Dispatching
<1> QED BY Zenon, <1>u, <1>g, <1>1, <1>4, <1>5, <1>6 DEF AnswerInv

\* The coordinator moves a result from the queue to its report.
LEMMA AnswerDrain ==
    ASSUME LoopInv, AnswerInv, Drain
    PROVE  AnswerInv' /\ (lPc' = "end" => lOut' = <<>> /\ rPc = "ended")
<1>u. UNCHANGED <<rPc, rActs, rNow>> /\ lPc = "drain" /\ Gone' = Gone /\ Now' = Now
  BY DEF Drain, LoopRest, rTable, Gone, Now
<1>1. CASE UNCHANGED <<lOut, lResults>> /\ lPc' # "end"
  BY Zenon, <1>u, <1>1, AnswerFrame
<1>2. CASE lOut # <<>> /\ lOut' = Tail(lOut) /\ UNCHANGED lResults /\ Head(lOut)[1] # "result"
           /\ (lPc' = "end" => Head(lOut)[1] = "LoopEnded")
  <2>1. /\ \A x : InQueue(x)' <=> (InQueue(x) /\ Head(lOut) # <<"result", x>>)
        /\ \A i, j \in DOMAIN lOut' : lOut'[i][1] = "result" /\ lOut'[i] = lOut'[j] => i = j
        /\ \A i \in DOMAIN lOut' : lOut'[i][1] = "LoopEnded" => i = Len(lOut') /\ rPc = "ended"
        /\ Head(lOut)[1] = "LoopEnded" => lOut' = <<>> /\ rPc = "ended"
    BY <1>2, OneLess
  <2>2. \A x : Head(lOut) # <<"result", x>>
    BY <1>2
  <2>3. \A x : (InQueue(x)' <=> InQueue(x)) /\ (InReport(x)' <=> InReport(x))
    BY <1>2, <2>1, <2>2 DEF InReport
  <2> QED BY Zenon, <1>u, <1>2, <2>1, <2>3 DEF AnswerInv
<1>3. CASE lOut # <<>> /\ lOut' = Tail(lOut) /\ Head(lOut)[1] = "result"
           /\ lResults' = Append(lResults, Head(lOut)[2]) /\ lPc' # "end"
  <2> DEFINE y == Head(lOut)[2]
  <2>1. /\ \A x : InQueue(x)' <=> (InQueue(x) /\ Head(lOut) # <<"result", x>>)
        /\ Head(lOut) \in Output
        /\ \A i, j \in DOMAIN lOut' : lOut'[i][1] = "result" /\ lOut'[i] = lOut'[j] => i = j
        /\ \A i \in DOMAIN lOut' : lOut'[i][1] = "LoopEnded" => i = Len(lOut') /\ rPc = "ended"
        /\ \A x : Head(lOut) = <<"result", x>> => InQueue(x)
    BY Zenon, <1>3, OneLess
  <2>2. Head(lOut) = <<"result", y>> /\ y \in Action
    BY SMTT(20), <1>3, <2>1 DEF Output
  <2> HIDE DEF y
  <2>3. InQueue(y) /\ \A x : InQueue(x)' <=> (InQueue(x) /\ x # y)
    BY <2>1, <2>2
  <2>4. lResults \in Seq(Action) /\ lResults' = Append(lResults, y)
    BY Zenon, <1>3 DEF LoopInv, LoopType, y
  <2>5. /\ Len(lResults) \in Nat
        /\ DOMAIN lResults = 1 .. Len(lResults) /\ DOMAIN lResults' = 1 .. Len(lResults) + 1
        /\ \A k \in DOMAIN lResults : lResults'[k] = lResults[k]
        /\ lResults'[Len(lResults) + 1] = y
    BY <2>2, <2>4, Queued
  <2>6. \A k \in DOMAIN lResults' : k \in DOMAIN lResults \/ k = Len(lResults) + 1
    BY <2>5
  <2>7. \A x : InReport(x)' <=> (InReport(x) \/ x = y)
    <3>1. DOMAIN lResults \subseteq DOMAIN lResults' /\ Len(lResults) + 1 \in DOMAIN lResults'
      BY <2>5
    <3> QED BY Zenon, <2>5, <2>6, <3>1 DEF InReport
  <2>8. ~InReport(y) /\ (rPc \in Dispatching => Now # y)
    BY Zenon, <2>2, <2>3 DEF AnswerInv
  <2>9. \A k, l \in DOMAIN lResults' : lResults'[k] = lResults'[l] => k = l
    <3>1. \A k \in DOMAIN lResults : lResults[k] # y
      BY Zenon, <2>8 DEF InReport
    <3> QED BY <2>5, <2>6, <3>1 DEF AnswerInv
  <2>10. \A x \in Action : ~(InQueue(x)' /\ InReport(x)')
    BY Zenon, <2>3, <2>7 DEF AnswerInv
  <2>11. \A x \in Gone : InQueue(x)' \/ InReport(x)' \/ (rPc \in Dispatching /\ x = Now)
    BY Zenon, <2>3, <2>7 DEF AnswerInv
  <2>12. rPc \in Dispatching => ~InQueue(Now)' /\ ~InReport(Now)'
    <3>1. rPc \in Dispatching => ~InQueue(Now) /\ ~InReport(Now)
      BY DEF AnswerInv
    <3>2. PICK z : z = Now
      BY Zenon
    <3>3. (InQueue(z)' <=> (InQueue(z) /\ z # y)) /\ (InReport(z)' <=> (InReport(z) \/ z = y))
      BY Zenon, <2>3, <2>7
    <3>4. /\ InQueue(Now)' <=> InQueue(z)'
          /\ InReport(Now)' <=> InReport(z)'
      BY <1>u, <3>2 DEF InQueue, InReport
    <3> QED BY Zenon, <2>8, <3>1, <3>2, <3>3, <3>4
  <2> QED BY Zenon, <1>u, <1>3, <2>1, <2>9, <2>10, <2>11, <2>12 DEF AnswerInv, InQueue, InReport
<1>4. \/ UNCHANGED <<lOut, lResults>> /\ lPc' # "end"
      \/ lOut # <<>> /\ lOut' = Tail(lOut) /\ UNCHANGED lResults /\ Head(lOut)[1] # "result"
         /\ (lPc' = "end" => Head(lOut)[1] = "LoopEnded")
      \/ lOut # <<>> /\ lOut' = Tail(lOut) /\ Head(lOut)[1] = "result"
         /\ lResults' = Append(lResults, Head(lOut)[2]) /\ lPc' # "end"
  BY DEF Drain, Abandon
<1> QED BY <1>1, <1>2, <1>3, <1>4

\* Every step keeps the account of the answers.
LEMMA AnswerStep ==
    ASSUME LoopInv, AnswerInv, [LoopNext]_lVars
    PROVE  AnswerInv'
<1> USE DEF lFeed, lEnvVars, LoopRest, rTable, lCoord
<1>g. UNCHANGED rActs => Gone' = Gone
  BY Zenon DEF Gone
<1>1. CASE SpawnLoop
  <2>1. lPc = "spawn" /\ rPc = "absent"
    BY Zenon, <1>1 DEF SpawnLoop, LoopInv, LoopType
  <2> QED BY Zenon, <1>g, <1>1, <2>1, AnswerFrame DEF SpawnLoop, Dispatching
<1>2. CASE FeedEnds \/ DriveBusy \/ Check
  BY Zenon, <1>g, <1>2, AnswerFrame DEF FeedEnds, DriveBusy, Check
<1>3. CASE AwaitEnd \/ LoopEnv \/ UNCHANGED lVars \/ FeedUnit
  BY Zenon, <1>g, <1>3, AnswerFrame DEF AwaitEnd, LoopEnv, FeedUnit, rVars, lVars
<1>4. CASE Top \/ ArmNotified
  BY Zenon, <1>g, <1>4, AnswerFrame DEF Top, ArmNotified, Finish, Quiet, Dispatching
<1>5. CASE Resolve \/ ToolDone
  BY Zenon, <1>g, <1>5, AnswerFrame DEF Resolve, ToolDone, Quiet, Dispatching
<1>6. CASE SelectLoop
  <2>1. rPc = "select" /\ UNCHANGED <<lOut, lResults>> /\ lSub \in Seq(Nat \X Unit)
    BY <1>6 DEF SelectLoop, Quiet, LoopInv, LoopType
  <2>2. CASE UNCHANGED rActs /\ rPc' = "last"
    BY Zenon, <1>g, <2>1, <2>2, AnswerFrame DEF Dispatching
  <2>3. CASE lSub # <<>> /\ OnUnit(Head(lSub)[2].act, Head(lSub)[2].gen, Head(lSub)[2].req)
    <3>1. Head(lSub)[2] \in Unit
      BY <2>1, <2>3, Unqueued
    <3> QED BY Zenon, <2>1, <2>3, <3>1, AnswerUnit
  <2> QED BY ZenonT(30), <1>6, <2>2, <2>3 DEF SelectLoop, Finish
<1> QED BY Zenon, <1>1, <1>2, <1>3, <1>4, <1>5, <1>6, AnswerSend, AnswerEnded, AnswerDrain
        DEF LoopNext, CoordinatorSide, LoopSide

\* Every step keeps the account of the end.
LEMMA EndingStep ==
    ASSUME LoopInv, AnswerInv, EndingInv, [LoopNext]_lVars
    PROVE  EndingInv'
<1> USE DEF lFeed, lEnvVars, LoopRest, rTable, lCoord, EndingInv
<1>1. CASE SpawnLoop
  <2>1. lPc = "spawn" /\ rPc = "absent"
    BY Zenon, <1>1 DEF SpawnLoop, LoopInv, LoopType
  <2> QED BY Zenon, <1>1, <2>1 DEF SpawnLoop
<1>2. CASE FeedEnds
  BY Zenon, <1>2 DEF FeedEnds, EndFeed
<1>3. CASE DriveBusy
  BY <1>3 DEF DriveBusy
<1>4. CASE Check
  BY Zenon, <1>4 DEF Check, Abandon
<1>5. CASE AwaitEnd
  BY Zenon, <1>5 DEF AwaitEnd, rVars
<1>6. CASE LoopEnv \/ UNCHANGED lVars
  BY <1>6 DEF LoopEnv, rVars, lVars
<1>7. CASE FeedUnit
  BY Zenon, <1>7 DEF FeedUnit, rVars
<1>8. CASE Top \/ ArmNotified
  BY Zenon, <1>8 DEF Top, ArmNotified, Finish, Quiet
<1>9. CASE SelectLoop
  <2>1. rPc = "select" /\ rEnd = "none" /\ UNCHANGED <<lOut, lPc, lRet, lFed, lUnits, lFeeding>>
    BY Zenon, <1>9 DEF SelectLoop, Quiet
  <2>2. CASE rEnd' = "Drained" /\ rPc' = "last" /\ lSub' = <<>> /\ ~lFeeding
    BY Zenon, <2>1, <2>2
  <2>3. CASE rEnd' = "none" \/ (rPc' = "last" /\ rEnd' # "Drained")
    BY Zenon, <2>1, <2>3
  <2> QED BY Zenon, <1>9, <2>1, <2>2, <2>3 DEF SelectLoop, OnUnit, Finish
<1>10. CASE Resolve \/ ToolDone \/ SendEnded
  BY <1>10 DEF Resolve, ToolDone, SendEnded, Quiet
<1>11. CASE SendOutput
  BY Zenon, <1>11 DEF SendOutput, Quiet
<1>12. CASE Drain
  <2>1. lPc' = "end" => lOut' = <<>> /\ rPc = "ended"
    BY <1>12, AnswerDrain
  <2>2. /\ UNCHANGED <<lUnits, lFed, lSub, lFeeding, rPc, rEnd>> /\ lPc = "drain"
        /\ lPc' \in {"drain", "end", "abandon"}
        /\ lRet' \in {lRet, "Cancelled", "DeadlineExceeded", "PublishFailed"}
    BY <1>12 DEF Drain, Abandon
  <2> QED BY Zenon, <2>1, <2>2
<1> QED BY ZenonT(30), <1>1, <1>2, <1>3, <1>4, <1>5, <1>6, <1>7, <1>8, <1>9, <1>10, <1>11, <1>12
        DEF LoopNext, CoordinatorSide, LoopSide

(* An Ok report answers every action that was Ready, each once, and nothing *)
(* else, and the round appended to the messages pairs its calls, one for    *)
(* every Ready unit, with these answers: for every feed the interpreter     *)
(* numbers, every registry and every capacity.                              *)
THEOREM ReadyIsAnswered == LoopSpec => []ReadyAnswered
<1>1. LoopInit => SeenInv /\ EndingInv /\ AnswerInv
  <2> SUFFICES ASSUME LoopInit PROVE SeenInv /\ EndingInv /\ AnswerInv
    BY Zenon
  <2>1. /\ lSub = <<>> /\ lOut = <<>> /\ lResults = <<>> /\ rActs = <<>> /\ rDedup = {}
        /\ rLastSeq = 0 /\ lFed = 0 /\ rPc = "absent" /\ rEnd = "none" /\ Numbered(lUnits)
    BY LoopAssumption DEF LoopInit
  <2>2. Len(lSub) = 0 /\ DOMAIN lSub = {} /\ DOMAIN lOut = {} /\ DOMAIN lResults = {} /\ DOMAIN rActs = {}
    BY <2>1, SeqEmpty
  <2>3. Gone = {} /\ AskedBy(rLastSeq) = {}
    BY SMTT(20), <2>1, <2>2 DEF Gone, AskedBy
  <2>4. SeenInv
    BY <2>1, <2>2, <2>3 DEF SeenInv
  <2>5. EndingInv
    BY Zenon DEF LoopInit, EndingInv
  <2>6. AnswerInv
    BY Zenon, <2>1, <2>2, <2>3 DEF AnswerInv, Dispatching, InQueue, InReport
  <2> QED BY <2>4, <2>5, <2>6
<1>2. LoopInv /\ SeenInv /\ EndingInv /\ AnswerInv /\ [LoopNext]_lVars => SeenInv' /\ EndingInv' /\ AnswerInv'
  BY Zenon, SeenStep, EndingStep, AnswerStep
<1>3. LoopInv /\ SeenInv /\ EndingInv /\ AnswerInv => ReadyAnswered
  <2> SUFFICES ASSUME LoopInv, SeenInv, EndingInv, AnswerInv, lRet = "Ok"
               PROVE  /\ Range(lResults) = {lUnits[i].act : i \in ReadyAt(lUnits)}
                      /\ IsInjective(lResults)
                      /\ \A m \in append_tool_round(lUnits, lResults) :
                            m.answers # <<>> /\ Range(m.calls) = Range(m.answers)
    BY Zenon DEF ReadyAnswered
  <2>1. lOut = <<>> /\ rPc = "ended" /\ rEnd = "Drained" /\ lSub = <<>> /\ lFed = Len(lUnits)
    BY Zenon DEF EndingInv
  <2>2. lUnits \in Seq(Unit) /\ lResults \in Seq(Action) /\ Len(lSub) = 0 /\ DOMAIN lOut = {}
    BY SMTT(20), <2>1, SeqEmpty DEF LoopInv, LoopType
  <2>3. DOMAIN lUnits = 1 .. Len(lUnits) /\ rLastSeq = Len(lUnits)
    BY <2>1, <2>2, SeqLen DEF SeenInv
  <2>4. Gone = {lUnits[i].act : i \in ReadyAt(lUnits)}
    BY Zenon, <2>1, <2>3 DEF SeenInv, AskedBy, ReadyAt
  <2>5. \A x \in Gone : InReport(x)
    BY Zenon, <2>1, <2>2 DEF AnswerInv, InQueue, Dispatching
  <2>6. Range(lResults) = Gone
    BY SMTT(20), <2>5 DEF InReport, Range, LoopInv, OnceInv
  <2>7. IsInjective(lResults)
    BY DEF AnswerInv, IsInjective
  <2>8. lResults = <<>> => Range(lResults) = {}
    BY SeqEmpty DEF Range
  <2>9. ASSUME NEW m \in append_tool_round(lUnits, lResults)
        PROVE  m.answers # <<>> /\ Range(m.calls) = Range(m.answers)
    <3>1. /\ ReadyAt(lUnits) # {} /\ m.answers = lResults
          /\ m.calls = [i \in ReadyAt(lUnits) |-> lUnits[i].act]
      BY <2>9 DEF append_tool_round
    <3>2. Range(m.calls) = {lUnits[i].act : i \in ReadyAt(lUnits)}
      BY <3>1 DEF Range
    <3>3. {lUnits[i].act : i \in ReadyAt(lUnits)} # {}
      <4> PICK i \in ReadyAt(lUnits) : TRUE
        BY <3>1
      <4>1. lUnits[i].act \in {lUnits[j].act : j \in ReadyAt(lUnits)}
        OBVIOUS
      <4> QED BY Zenon, <4>1
    <3> QED BY Zenon, <2>4, <2>6, <2>8, <3>1, <3>2, <3>3
  <2> QED BY Zenon, <2>4, <2>6, <2>7, <2>9
<1> QED BY <1>1, <1>2, <1>3, LoopInvHolds, PTL DEF LoopSpec
=============================================================================
