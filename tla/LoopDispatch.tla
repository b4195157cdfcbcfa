---------------------------- MODULE LoopDispatch ----------------------------
(***************************************************************************)
(* The Loop state machine (runtime.rs) and the coordinator's supervised    *)
(* pass over one exchange's units (lifecycle/loop_dispatch.rs): one task   *)
(* feeds the units through a bounded subscription and then drains the      *)
(* loop's bounded output, the other is the loop.  The output is drained    *)
(* only after the whole feed.                                              *)
(***************************************************************************)
EXTENDS Naturals, Sequences, FiniteSets, Functions

CONSTANTS
    Action,         \* tool actions of the exchange
    Registered,     \* the actions whose tool is in the resolved set
    Feeds,          \* the exchanges' scoped units: sequences of [act, gen, req]
    SubCap,         \* capacity of the subscription
    LoopOutCap,         \* capacity of the loop's output
    MaxActions,     \* max_tool_actions
    MaxDedup        \* max_dedup_entries

\* What a unit asks of the loop; "Text" is a unit that is not a tool event.
RequestState == {"Assembling", "Ready", "Nameless", "Incomplete", "Text"}

\* The interpreter numbers an action's events upwards; a repeated number is a
\* repeated delivery.
Numbered(s) ==
    \A i, j \in DOMAIN s : (i < j /\ s[i].act = s[j].act) =>
        s[i].gen < s[j].gen \/ s[i] = s[j]

\* The defaults (loop_types.rs, and 256 pending tools per interpretation) leave
\* room for the outputs of every action (three when its tool is unavailable)
\* and for the end.
ASSUME LoopAssumption ==
    /\ IsFiniteSet(Action) /\ Registered \subseteq Action
    /\ Feeds \subseteq {s \in Seq([act : Action, gen : Nat \ {0}, req : RequestState]) :
                          Numbered(s)}
    /\ {SubCap, MaxActions, MaxDedup} \subseteq Nat \ {0}
    /\ LoopOutCap \in Nat
    /\ LoopOutCap > 2 * Cardinality(Registered) + 3 * Cardinality(Action \ Registered)

VARIABLES
    lUnits,     \* the scoped units
    lPc,        \* position of run_supervised_loop
    lDriven,    \* the loop future is polled by the coordinator (Busy fallback)
    lRet,       \* its result
    lFed,       \* units handed to publish
    lFeeding,   \* the publisher half is alive
    lCancel, lLate,
    lSub,       \* subscription queue: <<sequence, unit>>
    rPc,        \* the loop: absent, top, arm, select, send, resolve, exec, last, ended
    rNotified, rCancelled,
    rLastSeq, rActs, rDedup, \* last_seq, actions, dedup
    rNow,       \* the action being dispatched
    rSend,      \* outputs still to send
    lOut,       \* output queue
    rEnd,       \* end kind, sent last
    lResults    \* report.tool_results

lFeed == <<lFed, lFeeding, lSub>>
lEnvVars == <<lCancel, lLate>>
rTable == <<rLastSeq, rActs, rDedup>>
rVars == <<rPc, rNotified, rTable, rNow, rSend, rEnd>>
lCoord == <<lPc, lDriven, lRet, lFed, lFeeding, lEnvVars, rCancelled, lResults>>
lVars == <<lUnits, lCoord, lSub, rVars, lOut>>

LoopInit ==
    /\ lUnits \in Feeds
    /\ lPc = "spawn" /\ lDriven = FALSE /\ lRet = "none" /\ lFed = 0 /\ lFeeding = TRUE
    /\ lCancel = FALSE /\ lLate = FALSE /\ lSub = <<>>
    /\ rPc = "absent" /\ rNotified = FALSE /\ rCancelled = FALSE
    /\ rLastSeq = 0 /\ rActs = <<>> /\ rDedup = {}
    /\ rNow = <<>> /\ rSend = <<>> /\ lOut = <<>> /\ rEnd = "none" /\ lResults = <<>>

-----------------------------------------------------------------------------
(* The coordinator's side.                                                 *)

\* LoopControl::cancel: the flag, then notify_waiters, which only reaches a
\* loop that is already waiting.
ControlCancel ==
    /\ rCancelled' = TRUE
    /\ rNotified' = (rNotified \/ rPc = "select")

NoCancel == UNCHANGED <<rCancelled, rNotified>>
LoopRest == <<rPc, rTable, rNow, rSend, rEnd>>

\* Supervised, polled by the coordinator after eight Busy replies, or refused.
SpawnLoop ==
    /\ lPc = "spawn"
    /\ \/ lPc' = "feed" /\ lDriven' \in BOOLEAN /\ rPc' = "top"
          /\ UNCHANGED lRet /\ NoCancel
       \/ /\ lPc' = "done" /\ lRet' = IF lCancel THEN "Cancelled" ELSE "StartFailed"
          /\ ControlCancel /\ UNCHANGED <<lDriven, rPc>>
    /\ UNCHANGED <<lUnits, lFeed, lEnvVars, rTable, rNow, rSend, rEnd, lOut, lResults>>

\* Mutant: the publisher half outlives the feed.
EndFeedOpen(ret) ==
    /\ lFeeding' = TRUE
    /\ IF lDriven THEN lPc' = "drive" /\ NoCancel
       ELSE IF ret = "none" THEN lPc' = "check" /\ NoCancel
       ELSE lPc' = "abandon" /\ ControlCancel
    /\ lRet' = ret

\* Leaving the feed drops the publisher half; a failed one cancels the loop.
\* The Busy fallback leaves only when the loop has returned.
EndFeed(ret) ==
    /\ lFeeding' = FALSE
    /\ IF lDriven THEN lPc' = "drive" /\ NoCancel
       ELSE IF ret = "none" THEN lPc' = "check" /\ NoCancel
       ELSE lPc' = "abandon" /\ ControlCancel
    /\ lRet' = ret

\* One unit, with the next delivery sequence, when there is room.
FeedUnit ==
    /\ lPc = "feed" /\ lFed < Len(lUnits) /\ ~lCancel /\ ~lLate
    /\ Len(lSub) < SubCap /\ rPc # "ended"
    /\ lFed' = lFed + 1
    /\ lSub' = Append(lSub, <<lFed + 1, lUnits[lFed + 1]>>)
    /\ UNCHANGED <<lUnits, lPc, lDriven, lRet, lFeeding, lEnvVars, rCancelled, rVars,
                   lOut, lResults>>

FeedEnds ==
    /\ lPc = "feed"
    /\ \/ lFed = Len(lUnits) /\ EndFeed("none")
       \/ lFed < Len(lUnits) /\ lCancel /\ EndFeed("Cancelled")
       \/ lFed < Len(lUnits) /\ ~lCancel /\ lLate /\ EndFeed("DeadlineExceeded")
       \/ /\ lFed < Len(lUnits) /\ ~lCancel /\ ~lLate /\ rPc = "ended"
          /\ EndFeed("PublishFailed")
    /\ UNCHANGED <<lUnits, lDriven, lFed, lSub, lEnvVars, LoopRest, lOut, lResults>>

\* drive_busy_loop: a cancel is passed on at any time; the end of the loop
\* future ends the drive.  It has no deadline of its own.
DriveBusy ==
    /\ lDriven /\ lPc \in {"feed", "drive"}
    /\ \/ lCancel /\ ~rCancelled /\ ControlCancel /\ UNCHANGED <<lPc, lRet, lFeeding>>
       \/ /\ rPc = "ended" /\ lFeeding' = FALSE
          /\ IF lCancel \/ lPc = "feed" THEN lPc' = "abandon" /\ lRet' = "Cancelled"
             ELSE IF lRet = "none" THEN lPc' = "check" /\ UNCHANGED lRet
             ELSE lPc' = "abandon" /\ UNCHANGED lRet
          /\ NoCancel
    /\ UNCHANGED <<lUnits, lDriven, lFed, lSub, lEnvVars, LoopRest, lOut, lResults>>

\* Every later failure: cancel the loop and await its end.
Abandon(ret) == lPc' = "abandon" /\ lRet' = ret /\ ControlCancel

Check ==
    /\ lPc = "check"
    /\ IF lLate THEN Abandon("DeadlineExceeded")
       ELSE IF lCancel THEN Abandon("Cancelled")
       ELSE lPc' = "drain" /\ UNCHANGED lRet /\ NoCancel
    /\ UNCHANGED <<lUnits, lDriven, lFeed, lEnvVars, LoopRest, lOut, lResults>>

\* The output loop: a result is recorded and published to the host.
Drain ==
    /\ lPc = "drain"
    /\ \/ lCancel /\ Abandon("Cancelled") /\ UNCHANGED <<lOut, lResults>>
       \/ ~lCancel /\ lLate /\ Abandon("DeadlineExceeded") /\ UNCHANGED <<lOut, lResults>>
       \/ /\ ~lCancel /\ ~lLate /\ lOut # <<>>
          /\ lOut' = Tail(lOut)
          /\ CASE Head(lOut)[1] = "result" ->
                    /\ lResults' = Append(lResults, Head(lOut)[2])
                    /\ \/ UNCHANGED <<lPc, lRet>> /\ NoCancel
                       \/ Abandon("PublishFailed")
               [] Head(lOut)[1] = "LoopEnded" ->
                    lPc' = "end" /\ UNCHANGED <<lRet, lResults>> /\ NoCancel
               [] OTHER -> UNCHANGED <<lPc, lRet, lResults>> /\ NoCancel
    /\ UNCHANGED <<lUnits, lDriven, lFeed, lEnvVars, LoopRest>>

\* await_loop_end, which the Cancelled or failing paths discard.
AwaitEnd ==
    /\ lPc \in {"end", "abandon"} /\ rPc = "ended"
    /\ lPc' = "done"
    /\ lRet' = IF lPc = "abandon" THEN lRet
               ELSE IF lCancel \/ rEnd = "Cancelled" THEN "Cancelled"
               ELSE IF rEnd = "Drained" THEN "Ok" ELSE "LoopFailed"
    /\ UNCHANGED <<lUnits, lDriven, lFeed, lEnvVars, rVars, rCancelled, lOut,
                   lResults>>

-----------------------------------------------------------------------------
(* The loop.                                                               *)

Quiet == UNCHANGED <<lUnits, lCoord>>
Finish(kind) == rPc' = "last" /\ rEnd' = kind

\* The flag is read, and only then is the notification subscribed.
Top ==
    /\ rPc = "top"
    /\ IF rCancelled THEN Finish("Cancelled") ELSE rPc' = "arm" /\ UNCHANGED rEnd
    /\ Quiet /\ UNCHANGED <<lSub, rNotified, rTable, rNow, rSend, lOut>>

ArmNotified ==
    /\ rPc = "arm" /\ rPc' = "select" /\ rNotified' = FALSE
    /\ Quiet /\ UNCHANGED <<lSub, rTable, rNow, rSend, rEnd, lOut>>

Unavailable(a) == <<<<"unavailable", a>>, <<"result", a>>>>

\* Mutant: a request is dispatched whenever a newer generation is Ready.
Dispatchable_again(a, g, req) ==
    req = "Ready" /\ (a \in DOMAIN rActs => g >= rActs[a].gen)

\* on_request_ready: not stale, not dispatched before, name and payload present.
Dispatchable(a, g, req) ==
    /\ req = "Ready"
    /\ a \in DOMAIN rActs => g >= rActs[a].gen /\ ~rActs[a].dispatched

\* track_waiting, on_request_ready and the Incomplete arm: the action's record.
Record(a, g, req) ==
    LET old == IF a \in DOMAIN rActs THEN rActs[a] ELSE [gen |-> 0, dispatched |-> FALSE]
    IN  IF g < old.gen THEN old
        ELSE [gen |-> g, dispatched |-> old.dispatched \/ Dispatchable(a, g, req)]

\* on_unit: units other than tool events, and duplicates by action and
\* generation, are dropped; both tables are bounded, and a dispatch starts with
\* its ToolDispatchRequested.
OnUnit(a, g, req) ==
    IF req = "Text" \/ <<a, g>> \in rDedup
    THEN rPc' = "top" /\ UNCHANGED <<rActs, rDedup, rNow, rSend, rEnd>>
    ELSE IF Cardinality(rDedup) >= MaxDedup
    THEN Finish("InvariantFailed") /\ UNCHANGED <<rActs, rDedup, rNow, rSend>>
    ELSE /\ rDedup' = rDedup \cup {<<a, g>>}
         /\ IF /\ req \in {"Ready", "Nameless"} /\ a \notin DOMAIN rActs
               /\ Cardinality(DOMAIN rActs) >= MaxActions
            THEN Finish("InvariantFailed") /\ UNCHANGED <<rActs, rNow, rSend>>
            ELSE /\ rActs' = [x \in DOMAIN rActs \cup {a} |->
                                IF x = a THEN Record(a, g, req) ELSE rActs[x]]
                 /\ IF Dispatchable(a, g, req)
                    THEN rPc' = "send" /\ rSend' = <<<<"requested", a>>>> /\ rNow' = <<a>>
                    ELSE rPc' = "top" /\ UNCHANGED <<rSend, rNow>>
                 /\ UNCHANGED rEnd

\* The biased select: a notification, a delivery (contiguous or lost), the end.
SelectLoop ==
    /\ rPc = "select"
    /\ \/ /\ rNotified
          /\ Finish("Cancelled")
          /\ UNCHANGED <<lSub, rTable, rNow, rSend>>
       \/ /\ ~rNotified /\ lSub # <<>> /\ lSub' = Tail(lSub)
          /\ LET seq == Head(lSub)[1]
                 unit == Head(lSub)[2]
             IN  IF rLastSeq > 0 /\ seq # rLastSeq + 1
                 THEN Finish("SubscriptionLost") /\ UNCHANGED <<rTable, rNow, rSend>>
                 ELSE rLastSeq' = seq /\ OnUnit(unit.act, unit.gen, unit.req)
       \/ /\ ~rNotified /\ lSub = <<>> /\ ~lFeeding
          /\ Finish("Drained")
          /\ UNCHANGED <<lSub, rTable, rNow, rSend>>
    /\ Quiet /\ UNCHANGED <<rNotified, lOut>>

\* out_tx.send waits for room; the receiver lives as long as the coordinator.
SendOutput ==
    /\ rPc = "send" /\ Len(lOut) < LoopOutCap
    /\ lOut' = Append(lOut, Head(rSend))
    /\ rSend' = Tail(rSend)
    /\ rPc' = IF Len(rSend) > 1 THEN "send"
              ELSE IF Head(rSend)[1] = "requested" THEN "resolve" ELSE "top"
    /\ Quiet /\ UNCHANGED <<lSub, rNotified, rTable, rNow, rEnd>>

\* resolve, then start: unavailable tools and a refused start answer at once.
Resolve ==
    /\ rPc = "resolve"
    /\ \/ rNow[1] \in Registered /\ rPc' = "exec" /\ UNCHANGED rSend
       \/ /\ rNow[1] \in Registered /\ rPc' = "send"
          /\ rSend' = <<<<"result", rNow[1]>>>>
       \/ /\ rNow[1] \notin Registered /\ rPc' = "send"
          /\ rSend' = Unavailable(rNow[1])
    /\ Quiet /\ UNCHANGED <<lSub, rNotified, rTable, rNow, rEnd, lOut>>

\* The worker's terminal, or ExecutionLost when it was dropped.
ToolDone ==
    /\ rPc = "exec" /\ rPc' = "send" /\ rSend' = <<<<"result", rNow[1]>>>>
    /\ Quiet /\ UNCHANGED <<lSub, rNotified, rTable, rNow, rEnd, lOut>>

\* finish: LoopEnded goes through the output before the completion fires.
SendEnded ==
    /\ rPc = "last" /\ Len(lOut) < LoopOutCap
    /\ lOut' = Append(lOut, <<"LoopEnded", rEnd>>) /\ rPc' = "ended"
    /\ Quiet /\ UNCHANGED <<lSub, rNotified, rTable, rNow, rSend, rEnd>>

LoopEnv ==
    /\ lPc # "done"
    /\ \/ ~lCancel /\ lCancel' = TRUE /\ UNCHANGED lLate
       \/ ~lLate /\ lLate' = TRUE /\ UNCHANGED lCancel
    /\ UNCHANGED <<lUnits, lPc, lDriven, lRet, lFeed, rCancelled, rVars, lOut, lResults>>

CoordinatorSide == SpawnLoop \/ FeedUnit \/ FeedEnds \/ DriveBusy \/ Check \/ Drain \/ AwaitEnd
LoopSide == Top \/ ArmNotified \/ SelectLoop \/ SendOutput \/ Resolve \/ ToolDone \/ SendEnded

LoopNext == CoordinatorSide \/ LoopSide \/ LoopEnv

\* Both tasks are polled by the runtime, and a tool ends by its deadline.
LoopFairness == WF_lVars(CoordinatorSide) /\ WF_lVars(LoopSide)

LoopSpec == LoopInit /\ [][LoopNext]_lVars /\ LoopFairness

-----------------------------------------------------------------------------
DispatchedIn(s) == {i \in DOMAIN s : s[i][1] = "requested"}

(* A tool action is dispatched at most once in a loop incarnation, however *)
(* often and in whatever generations its request is delivered.             *)
DispatchOnce ==
    /\ \A i, j \in DispatchedIn(lOut) : lOut[i][2] = lOut[j][2] => i = j
    /\ \A i \in DispatchedIn(lOut) : lOut[i][2] \notin Range(lResults)

ReadyAt(units) == {i \in DOMAIN units : units[i].req = "Ready"}

\* append_tool_round: the rounds it may append to the messages, at most one.  The
\* assistant's message has a call for every Ready unit, and a tool message
\* follows for every result.  There is none when no unit is Ready or one has no
\* name; a text, a name or arguments outside their limits refuse it as well.
append_tool_round(units, results) ==
    IF ReadyAt(units) = {} \/ \E i \in DOMAIN units : units[i].req = "Nameless"
    THEN {}
    ELSE {[calls |-> [i \in ReadyAt(units) |-> units[i].act], answers |-> results]}

(* The next request answers its calls: an Ok report has exactly one result *)
(* for every action that was Ready, and no other; so the round that        *)
(* append_tool_round makes of it has an answer for every call and a call   *)
(* for every answer.  An action that was Ready in several units is called  *)
(* once for each of them, under one id, and answered once.                 *)
ReadyAnswered ==
    lRet = "Ok" =>
        /\ Range(lResults) = {lUnits[i].act : i \in ReadyAt(lUnits)}
        /\ IsInjective(lResults)
        /\ \A m \in append_tool_round(lUnits, lResults) :
              m.answers # <<>> /\ Range(m.calls) = Range(m.answers)

(* The loop never waits for room in its output, which nobody drains during *)
(* the feed: the queue holds the outputs of every action an interpretation *)
(* may have.                                                               *)
OutputFits == rPc \in {"send", "last"} => Len(lOut) < LoopOutCap

(* The pass always returns, also when a cancel falls between the loop's    *)
(* check of the flag and its wait for the notification.                    *)
DispatchReturns == (lPc # "spawn") ~> (lPc = "done")
=============================================================================
