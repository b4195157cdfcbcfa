------------------------------- MODULE MCRun -------------------------------
(* Instances for TLC of the parts of one transaction's run: the coordinator, *)
(* an exchange, its interpretation with the sentence assembly, and the loop  *)
(* dispatch.                                                                 *)
EXTENDS Exchange, Coordinator, LoopDispatch, Sentence, Interpreter, MCPart, TLC

-----------------------------------------------------------------------------
U(x, g, r) == [act |-> x, gen |-> g, req |-> r]

\* Streams of units for two actions, with repeated, superseding, incomplete and
\* nameless requests.
FeedsUpTo(n) ==
    {s \in SeqOf({U(a, 1, "Assembling"), U(a, 1, "Ready"), U(a, 2, "Ready"),
                  U(a, 2, "Incomplete"), U(b, 1, "Nameless"), U(b, 2, "Ready")}, n) : Numbered(s)}
ThreeUnits ==
    FeedsUpTo(3) \cup {<<U(a, 1, "Ready"), U(b, 3, "Text"), U(a, 2, "Ready")>>,
                       <<U(b, 3, "Text"), U(b, 3, "Text"), U(b, 4, "Ready")>>}

\* Every configuration of a channel.
AllChannels == {ch \in ChannelDescriptor : validate(ch)}

\* Short texts over the symbols of one rule at a time.
TextsOver(S, n) == {s \in SeqOf(S, n) : Worded(s)}
ShortTexts ==
    TextsOver({"w", ".", " "}, 5) \cup TextsOver({"w", "1", ".", "nl"}, 4)
    \cup TextsOver({"W", "(", ")", "tick", "."}, 4)
    \cup TextsOver({"i", "d", "/", "!", " "}, 4)

Bare(k) == [kind |-> k]
Call(k, x, args, status, result) ==
    [kind |-> k, id |-> x, args |-> args, status |-> status, result |-> result]
Delta(x, named) == [kind |-> "delta", id |-> x, named |-> named]
FinishReason(r) == [kind |-> "finish", reason |-> r]

AcpFrames ==
    {Bare("part"), Bare("text"), Bare("finished"), Bare("malformed"),
     Call("call", a, "none", "none", FALSE), Call("call", b, "complete", "running", TRUE),
     Call("update", a, "complete", "none", TRUE), Call("update", b, "oversized", "none", FALSE)}
LineFrames ==
    {Bare("part"), Bare("finished"), Bare("malformed"),
     Call("call", a, "complete", "none", FALSE), Call("update", a, "none", "completed", TRUE)}
SseFrames ==
    {Bare("part"), Delta(a, TRUE), Delta(a, FALSE), FinishReason("tool_calls")}
SseEnds == {<<>>, <<Bare("done")>>, <<Bare("malformed")>>, <<FinishReason("stop"), Bare("done")>>}
\* Frames behind the terminator: in its chunk, or in a later one.
AfterDone ==
    {<<Bare("part"), Bare("done"), Bare("part")>>,
     <<Delta(a, TRUE), Delta(a, FALSE), Bare("done"), FinishReason("tool_calls")>>,
     <<Delta(a, TRUE), Bare("done"), Delta(b, TRUE), Bare("malformed")>>}
TwoCalls ==
    <<Delta(a, TRUE), Delta(b, TRUE), Delta(a, FALSE), Delta(b, FALSE),
      FinishReason("tool_calls"), Bare("done")>>

StreamsOf(d, max, frames) == [dialect : {d}, max : {max}, frames : frames]

\* What each dialect's peer may send, with calls that complete, overflow, are
\* cut off or come in excess of the limit.
ShortStreams ==
    StreamsOf("acp", 1, SeqOf(AcpFrames, 2)) \cup StreamsOf("zai", 1, SeqOf(LineFrames, 2))
    \cup StreamsOf("claude", 1, SeqOf(LineFrames, 2))
    \cup StreamsOf("openai", 1, {f \o e : f \in SeqOf(SseFrames, 3), e \in SseEnds})
    \cup StreamsOf("openai", 2, AfterDone \cup {TwoCalls})

-----------------------------------------------------------------------------
RunInit ==
    /\ part \in Parts
    /\ xGate \in Only("exchange", {"none", "unasked"}) /\ ExchangeInit
    /\ cChannel \in Only("coordinator", Channels) /\ CoordinatorInit
    /\ lUnits \in Only("loop", Feeds) /\ LoopInit
    /\ sText \in Only("sentence", Texts) /\ SentenceInit
    /\ iStream \in Only("interpreter", Streams) /\ InterpreterInit

RunNext ==
    \/ /\ part = "exchange" /\ ExchangeNext
       /\ UNCHANGED <<part, cVars, lVars, sVars, iVars>>
    \/ /\ part = "coordinator" /\ CoordinatorNext
       /\ UNCHANGED <<part, xVars, lVars, sVars, iVars>>
    \/ part = "loop" /\ LoopNext /\ UNCHANGED <<part, xVars, cVars, sVars, iVars>>
    \/ part = "sentence" /\ SentenceNext /\ UNCHANGED <<part, xVars, cVars, lVars, iVars>>
    \/ /\ part = "interpreter" /\ InterpreterNext
       /\ UNCHANGED <<part, xVars, cVars, lVars, sVars>>

\* The fairness of each part's specification, where that part runs.
RunFairness ==
    /\ WF_xVars(part = "exchange" /\ ExchangeStep)
    /\ WF_xVars(part = "exchange" /\ GateAnswers)
    /\ WF_xVars(part = "exchange" /\ Expire)
    /\ WF_cVars(part = "coordinator" /\ CoordinatorStep)
    /\ WF_cVars(part = "coordinator" /\ GateStep)
    /\ WF_lVars(part = "loop" /\ CoordinatorSide)
    /\ WF_lVars(part = "loop" /\ LoopSide)

RunSpec ==
    RunInit /\ [][RunNext]_<<part, xVars, cVars, lVars, sVars, iVars>> /\ RunFairness
============================================================================
