---------------------------- MODULE Interpreter ----------------------------
(***************************************************************************)
(* One interpretation (monoloop-interpreter): a task that turns the raw    *)
(* chunks of a connection into canonical events through a bounded stream.  *)
(* A chunk is cut anywhere; complete frames are mapped by the dialect into *)
(* fragments (acp.rs, zai_chat.rs, claude_stream.rs, openai_chat.rs), and  *)
(* each fragment updates the text and tool assemblers (engine.rs).  The    *)
(* sentence rules are in module Sentence: here a text frame either         *)
(* completes a sentence or leaves a part of one.                           *)
(*                                                                         *)
(* A frame has two halves; a chunk carries any number of halves.           *)
(***************************************************************************)
EXTENDS Naturals, Sequences, FiniteSets, SequencesExt, FiniteSetsExt, Functions

CONSTANTS
    Id,             \* tool actions
    Streams,        \* what a peer may send, and max_pending_tool_actions:
                    \* [dialect, frames, max]
    MaxUndecoded,   \* halves that may be buffered undecoded
    MaxArgs,        \* argument deltas of one call
    StreamCap       \* max_output_queue_items

Dialect == {"acp", "zai", "claude", "openai"}

\* The fields a mapper reads.  For openai, "args" counts the deltas: two make
\* the arguments complete JSON.
Frame ==
    [kind : {"text", "part", "ignored", "other", "finished", "malformed", "done"}]
    \cup [kind : {"call", "update"}, id : Id, args : {"none", "complete", "oversized"},
          status : {"none", "running", "completed", "failed"}, result : BOOLEAN]
    \cup [kind : {"delta"}, id : Id, named : BOOLEAN]
    \cup [kind : {"finish"}, reason : {"tool_calls", "stop", "unknown"}]

ASSUME InterpreterAssumption ==
    /\ IsFiniteSet(Id) /\ "none" \notin Id
    /\ Streams \subseteq [dialect : Dialect, frames : Seq(Frame), max : Nat]
    /\ {MaxUndecoded, MaxArgs} \subseteq Nat
    /\ StreamCap \in Nat \ {0}

VARIABLES
    iStream,    \* the peer's output
    iPos,       \* halves consumed
    iHalf,      \* halves in frame_buf
    iSse,       \* OpenAiSseState: [calls, carry (halves of an event), done]
    iStarted,   \* response_started
    iTools,     \* tools: [gen, req, result, terminal] by action
    iText,      \* parts in the sentence assembler
    iPc,        \* recv, ingest, seal, quarantine, last, ended
    iTodo,      \* fragments still to apply
    iPend,      \* events of the current fragment still to publish
    iPub,       \* every event published
    iTaken,     \* how many of them the consumer took
    iGone,      \* the consumer dropped the stream
    iEnd,       \* kind of the end
    iReport     \* InterpretationEnd: [count, unresolved], once published

iAssembly == <<iStarted, iTools, iText>>
iVars == <<iStream, iPos, iHalf, iSse, iAssembly, iPc, iTodo, iPend, iPub, iTaken,
           iGone, iEnd, iReport>>

NoReport == [count |-> 0, unresolved |-> 0]
NoCall == [id |-> FALSE, args |-> 0, waiting |-> FALSE, ready |-> FALSE]
NewSse == [calls |-> [x \in Id |-> NoCall], carry |-> 0, done |-> FALSE]

InterpreterInit ==
    /\ iStream \in Streams /\ iPos = 0 /\ iHalf = 0
    /\ iSse = NewSse
    /\ iStarted = FALSE /\ iTools = <<>> /\ iText = 0
    /\ iPc = "recv" /\ iTodo = <<>> /\ iPend = <<>> /\ iPub = <<>> /\ iTaken = 0
    /\ iGone = FALSE /\ iEnd = "none" /\ iReport = NoReport

-----------------------------------------------------------------------------
(* The dialects: a complete frame becomes fragments.                       *)

\* The elements of a sequence at the places of a set, in their order.
Kept(seq, places) ==
    LET at[k \in 0 .. Len(seq)] ==
          IF k = 0 THEN <<>>
          ELSE IF k \in places THEN Append(at[k - 1], seq[k])
          ELSE at[k - 1]
    IN  at[Len(seq)]

\* A hash map yields its keys in any order.
Orders == Bijection(1 .. Cardinality(Id), Id)
InOrder(order, ids) == Kept(order, {k \in DOMAIN order : order[k] \in ids})

F(f) == [f |-> f]
Tool(x, sig) == [f |-> "tool", id |-> x, sig |-> sig]
ToolSeq(ids, sig) == [i \in DOMAIN ids |-> Tool(ids[i], sig)]
ReadySig(u) == IF u.args = "oversized" THEN "ReadyOversized" ELSE "Ready"

\* map_tool_call: a terminal status, or a result without a sign of progress,
\* resolves the action, after its request if that comes along.
map_tool_call(u) ==
    IF u.status \in {"completed", "failed"} \/ (u.result /\ u.status # "running")
    THEN (IF u.args # "none" THEN <<Tool(u.id, ReadySig(u))>> ELSE <<>>)
         \o <<Tool(u.id, "Resolved")>>
    ELSE IF u.args # "none" THEN <<Tool(u.id, ReadySig(u))>>
    ELSE <<Tool(u.id, "Waiting")>>

map_message(u) ==
    CASE u.kind \in {"call", "update"} -> map_tool_call(u)
      [] u.kind \in {"text", "part", "finished"} -> <<F(u.kind)>>
      [] u.kind = "other" -> <<F("diagnostic")>>
      [] OTHER -> <<>>

\* zai: the CLI ran the tools itself; no frame ends the response.
map_chat_message(u) ==
    CASE u.kind = "call" -> <<Tool(u.id, ReadySig(u))>>
      [] u.kind = "update" -> <<Tool(u.id, "Resolved")>>
      [] u.kind \in {"text", "part"} -> <<F(u.kind)>>
      [] u.kind \in {"other", "malformed"} -> <<F("diagnostic")>>
      [] OTHER -> <<>>

map_stream_event(u) ==
    CASE u.kind = "call" -> <<Tool(u.id, ReadySig(u))>>
      [] u.kind = "update" -> <<Tool(u.id, "Resolved")>>
      [] u.kind \in {"text", "part", "finished"} -> <<F(u.kind)>>
      [] u.kind = "malformed" -> <<F("diagnostic")>>
      [] OTHER -> <<>>

\* What a chunk's frames have made so far: the SSE state, fragments and error.
Out(sse, frags, err) == [sse |-> sse, frags |-> frags, err |-> err]

\* ingest_tool_delta: deltas accumulate; the first one with an id says Waiting.
ingest_tool_delta(o, u) ==
    LET c == o.sse.calls[u.id]
        d == [c EXCEPT !.id = @ \/ u.named, !.args = @ + 1,
                       !.waiting = @ \/ ((c.id \/ u.named) /\ ~c.ready)]
    IN  IF c.args >= MaxArgs THEN [o EXCEPT !.err = "Limit"]
        ELSE Out([o.sse EXCEPT !.calls[u.id] = d],
                 IF d.waiting # c.waiting THEN Append(o.frags, Tool(u.id, "Waiting"))
                 ELSE o.frags, "none")

\* Mutant: any finish promotes the calls whose arguments are complete.
on_finish_reason_any(o, u, order) ==
    LET calls == o.sse.calls
        open == {x \in Id : calls[x].id /\ ~calls[x].ready}
    IN  Out([o.sse EXCEPT !.calls = [x \in Id |-> [calls[x] EXCEPT !.ready = @ \/ x \in open]]],
            o.frags \o ToolSeq(InOrder(order, open), "Ready"), "none")

\* on_finish_reason: only "tool_calls" promotes, and then every call must be
\* complete.  The order is that of a hash map.
on_finish_reason(o, u, order) ==
    LET calls == o.sse.calls
        open == {x \in Id : calls[x] # NoCall /\ ~calls[x].ready}
    IN  CASE u.reason = "stop" -> o
          [] u.reason = "unknown" -> [o EXCEPT !.err = "Malformed"]
          [] u.reason = "tool_calls" ->
               IF \E x \in open : ~calls[x].id \/ calls[x].args # 2
               THEN [o EXCEPT !.err = "Malformed"]
               ELSE Out([o.sse EXCEPT !.calls = [x \in Id |-> [calls[x] EXCEPT !.ready = @ \/ x \in open]]],
                        o.frags \o ToolSeq(InOrder(order, open), "Ready"), "none")

map_data_json(o, u, order) ==
    CASE u.kind = "delta" -> ingest_tool_delta(o, u)
      [] u.kind = "finish" -> on_finish_reason(o, u, order)
      [] u.kind = "done" -> [o EXCEPT !.sse.done = TRUE]
      [] u.kind = "malformed" -> [o EXCEPT !.err = "Malformed"]
      [] u.kind \in {"text", "part"} -> [o EXCEPT !.frags = Append(@, F(u.kind))]
      [] OTHER -> o

\* One frame.  An error drops what the chunk's earlier frames made.
Decode(dialect, o, u, order) ==
    IF o.err # "none" THEN o
    ELSE CASE dialect = "openai" -> map_data_json(o, u, order)
           [] dialect = "acp" ->
                IF u.kind = "malformed" THEN [o EXCEPT !.err = "Malformed"]
                ELSE [o EXCEPT !.frags = @ \o map_message(u)]
           [] dialect = "zai" -> [o EXCEPT !.frags = @ \o map_chat_message(u)]
           [] dialect = "claude" -> [o EXCEPT !.frags = @ \o map_stream_event(u)]

DecodeAll(dialect, sse, frames, order) ==
    LET out[k \in 0 .. Len(frames)] ==
          IF k = 0 THEN Out(sse, <<>>, "none")
          ELSE Decode(dialect, out[k - 1], frames[k], order)
    IN  out[Len(frames)]

-----------------------------------------------------------------------------
(* The assemblers: a fragment changes them and makes events.               *)

Event(kind) == [ev |-> kind, id |-> "none", gen |-> 1, req |-> "none", terminal |-> FALSE]
Snapshot(kind, x, t) ==
    [ev |-> kind, id |-> x, gen |-> t.gen, req |-> t.req, terminal |-> t.terminal]
NewTool == [gen |-> 0, req |-> "Assembling", result |-> "Absent", terminal |-> FALSE]

\* on_tool
ToolAfter(t, sig) ==
    LET u == [t EXCEPT !.gen = @ + 1]
    IN  CASE sig = "Waiting" -> [u EXCEPT !.req = "Assembling"]
          [] sig = "Ready" -> [u EXCEPT !.req = "Ready", !.result = "Absent"]
          [] sig = "Resolved" -> [u EXCEPT !.result = "Complete", !.terminal = TRUE]
          [] OTHER -> u

Sealed(text) == IF text > 0 THEN <<Event("sentence")>> ELSE <<>>

\* on_fragment: the assemblers after it, its events, and whether it failed.
on_fragment(max, tools, text, g) ==
    LET old == IF g.f = "tool" /\ g.id \in DOMAIN tools THEN tools[g.id] ELSE NewTool
        new == ToolAfter(old, g.sig)
        with(t, x, e, bad) == [tools |-> t, text |-> x, events |-> e, failed |-> bad]
    IN  CASE g.f = "text" -> with(tools, 0, <<Event("sentence")>>, FALSE)
          [] g.f = "part" -> with(tools, text + 1, <<>>, FALSE)
          [] g.f = "seal" -> with(tools, 0, Sealed(text), FALSE)
          [] g.f = "finished" ->
               with(tools, 0, Sealed(text) \o <<Event("finished")>>, FALSE)
          [] g.f = "tool" ->
               IF g.id \notin DOMAIN tools /\ Cardinality(DOMAIN tools) >= max
               THEN with(tools, text, <<>>, TRUE)
               ELSE with([x \in DOMAIN tools \cup {g.id} |-> IF x = g.id THEN new ELSE tools[x]],
                         text,
                         IF g.sig = "ReadyOversized" THEN <<>> ELSE <<Snapshot("tool", g.id, new)>>,
                         g.sig = "ReadyOversized")
          [] OTHER -> with(tools, text, <<Event(g.f)>>, FALSE)

-----------------------------------------------------------------------------
Quiet0 == UNCHANGED <<iStream, iPub, iTaken, iGone, iReport>>

\* The response starts with its first frame, for openai its first fragment.
Opening(frames, frags) ==
    IF ~iStarted /\ (IF iStream.dialect = "openai" THEN frags ELSE frames) # <<>>
    THEN <<F("started")>> ELSE <<>>

\* Mutant: a frame is decoded but stays in the buffer with the next one's half.
NewFrames_undrained(n) ==
    SubSeq(iStream.frames, IF iPos % 2 = 1 /\ iPos > 1 THEN iPos \div 2 ELSE (iPos \div 2) + 1,
           (iPos + n) \div 2)

\* The frames that n more halves complete.
NewFrames(n) == SubSeq(iStream.frames, (iPos \div 2) + 1, (iPos + n) \div 2)

\* A chunk of n halves: the bound, the complete frames, their fragments.  An
\* SSE stream keeps the half of an event itself; its terminator is looked for
\* once a chunk, so that the frames behind it in its own chunk are mapped and
\* later chunks are not even kept.
RecvBytes(n) ==
    LET frames == NewFrames(n)
        left == (iPos + n) % 2
        openai == iStream.dialect = "openai"
        sse == IF openai /\ ~iSse.done THEN [iSse EXCEPT !.carry = left] ELSE iSse
    IN  \E order \in Orders :
          LET o == DecodeAll(iStream.dialect, sse,
                             IF iSse.done THEN <<>> ELSE frames, order)
          IN  /\ iPc = "recv" /\ iPos + n <= 2 * Len(iStream.frames)
              /\ iPos' = iPos + n
              /\ IF iHalf + n > MaxUndecoded
                 THEN /\ iPc' = "last" /\ iEnd' = "LimitExceeded"
                      /\ UNCHANGED <<iHalf, iSse, iStarted, iTodo>>
                 ELSE IF o.err # "none"
                 THEN /\ iPc' = "last"
                      /\ iEnd' = IF o.err = "Limit" THEN "LimitExceeded" ELSE "DialectFailed"
                      /\ UNCHANGED <<iHalf, iSse, iStarted, iTodo>>
                 ELSE /\ iHalf' = (IF openai THEN 0 ELSE left) /\ iSse' = o.sse
                      /\ iTodo' = Opening(frames, o.frags) \o o.frags
                      /\ iStarted' = (iStarted \/ Opening(frames, o.frags) # <<>>)
                      /\ iPc' = "ingest" /\ UNCHANGED iEnd
              /\ UNCHANGED <<iTools, iText, iPend>> /\ Quiet0

\* Mutant: an action that is still assembling is left as it is.
Incomplete_dropped(t) ==
    [t EXCEPT !.gen = @ + 1]

\* The request and result states of an action whose stream broke off.
Incomplete(t) ==
    [t EXCEPT !.gen = @ + 1,
              !.req = IF @ = "Ready" THEN @ ELSE "Incomplete",
              !.result = IF @ = "Complete" THEN @ ELSE "Incomplete"]

\* What is counted as unresolved is cleared: the text and frame_buf.
Discard == iText' = 0 /\ iHalf' = 0

\* quarantine_partials: every open action gets an Incomplete event, in the
\* order of a hash map.
Quarantine(kind) ==
    LET open == {x \in DOMAIN iTools : ~iTools[x].terminal}
    IN  /\ iPc' = "quarantine" /\ iEnd' = kind
        /\ iReport' = [iReport EXCEPT !.unresolved = @ + iText + iHalf]
        /\ Discard
        /\ iTools' = [x \in DOMAIN iTools |->
                        IF x \in open THEN Incomplete(iTools[x]) ELSE iTools[x]]
        /\ iTodo' = <<>>
        /\ \E order \in Orders :
             LET ids == InOrder(order, open)
             IN  iPend' = [i \in DOMAIN ids |->
                             Snapshot("incomplete", ids[i], Incomplete(iTools[ids[i]]))]

\* seal_clean: openai must have seen its terminator and no incomplete event; a
\* carried half that is not yet a data line is no event.
RecvFinish ==
    /\ iPc = "recv"
    /\ LET calls == iSse.calls
           open == {x \in Id : calls[x].id /\ ~calls[x].ready}
       IN  \/ /\ iStream.dialect = "openai" /\ (~iSse.done \/ iSse.carry = 1)
              /\ Quarantine("TransportFailed")
           \/ /\ iStream.dialect # "openai" \/ iSse.done
              /\ \E order \in Orders :
                     iTodo' = (IF iStream.dialect = "openai" THEN ToolSeq(InOrder(order, open), "Waiting")
                               ELSE <<>>) \o <<F("seal")>>
              /\ iPc' = "seal" /\ iEnd' = "Complete"
              /\ UNCHANGED <<iHalf, iTools, iText, iPend, iReport>>
    /\ UNCHANGED <<iStream, iPos, iSse, iStarted, iPub, iTaken, iGone>>

\* Cancel, TransportFailed, or every input handle dropped.
RecvAbrupt ==
    /\ iPc = "recv" /\ \E kind \in {"Cancelled", "TransportFailed"} : Quarantine(kind)
    /\ UNCHANGED <<iStream, iPos, iSse, iStarted, iPub, iTaken, iGone>>

\* An error: of a chunk ends the interpretation, of the clean end quarantines.
Fails(kind) ==
    IF iPc = "seal" THEN Quarantine(IF kind = "LimitExceeded" THEN kind ELSE "TransportFailed")
    ELSE /\ iPc' = "last" /\ iEnd' = IF iPc = "quarantine" THEN iEnd ELSE kind
         /\ iTodo' = <<>> /\ iPend' = <<>> /\ UNCHANGED <<iHalf, iTools, iText, iReport>>

Apply ==
    /\ iPc \in {"ingest", "seal"} /\ iPend = <<>> /\ iTodo # <<>>
    /\ LET r == on_fragment(iStream.max, iTools, iText, Head(iTodo))
       IN  IF r.failed THEN Fails("LimitExceeded")
           ELSE /\ iTools' = r.tools /\ iText' = r.text /\ iPend' = r.events
                /\ iTodo' = Tail(iTodo) /\ UNCHANGED <<iPc, iEnd, iHalf, iReport>>
    /\ UNCHANGED <<iStream, iPos, iSse, iStarted, iPub, iTaken, iGone>>

\* publish waits for room and fails once the stream is dropped.
Publish ==
    /\ iPend # <<>>
    /\ IF iGone THEN Fails("DialectFailed") /\ UNCHANGED iPub
       ELSE /\ Len(iPub) - iTaken < StreamCap
            /\ iPub' = Append(iPub, Head(iPend)) /\ iPend' = Tail(iPend)
            /\ UNCHANGED <<iPc, iEnd, iTodo, iHalf, iTools, iText, iReport>>
    /\ UNCHANGED <<iStream, iPos, iSse, iStarted, iTaken, iGone>>

\* The command is done: back to the queue, or on to the end.
Done ==
    /\ iPc \in {"ingest", "seal", "quarantine"} /\ iPend = <<>> /\ iTodo = <<>>
    /\ iPc' = IF iPc = "ingest" THEN "recv" ELSE "last"
    /\ UNCHANGED <<iStream, iPos, iHalf, iSse, iAssembly, iTodo, iPend, iPub, iTaken,
                   iGone, iEnd, iReport>>

\* finish: the report counts what is left and is published after everything.
FinishReport ==
    /\ iPc = "last" /\ (iGone \/ Len(iPub) - iTaken < StreamCap)
    /\ iReport' = [count |-> Len(iPub), unresolved |-> iReport.unresolved + iText + iHalf]
    /\ iPc' = "ended"
    /\ UNCHANGED <<iStream, iPos, iHalf, iSse, iAssembly, iTodo, iPend, iPub, iTaken,
                   iGone, iEnd>>

\* The consumer takes an event, or drops the stream.
Consume ==
    /\ iPc # "ended" /\ ~iGone
    /\ \/ iTaken < Len(iPub) /\ iTaken' = iTaken + 1 /\ UNCHANGED iGone
       \/ iGone' = TRUE /\ UNCHANGED iTaken
    /\ UNCHANGED <<iStream, iPos, iHalf, iSse, iAssembly, iPc, iTodo, iPend, iPub, iEnd,
                   iReport>>

InterpreterNext ==
    \/ \E n \in 1 .. 2 * Len(iStream.frames) : RecvBytes(n)
    \/ RecvFinish \/ RecvAbrupt \/ Apply \/ Publish \/ Done \/ FinishReport \/ Consume

InterpreterSpec == InterpreterInit /\ [][InterpreterNext]_iVars

-----------------------------------------------------------------------------
(* The stream decoded frame by frame: the reference for every chunking.    *)

\* One fragment; nothing follows a failure.
Assemble(max, w, g) ==
    LET r == on_fragment(max, w.tools, w.text, g)
    IN  IF w.failed THEN w
        ELSE [w EXCEPT !.tools = r.tools, !.text = r.text, !.failed = r.failed,
                       !.events = @ \o r.events]

AssembleAll(max, w, frags) ==
    LET at[k \in 0 .. Len(frags)] ==
          IF k = 0 THEN w ELSE Assemble(max, at[k - 1], frags[k])
    IN  at[Len(frags)]

Fresh ==
    [sse |-> NewSse, tools |-> <<>>, text |-> 0, events |-> <<>>, failed |-> FALSE]
AnyOrder == CHOOSE o \in Orders : TRUE

OneFrame(s, w, u) ==
    LET o == Decode(s.dialect, Out(w.sse, <<>>, "none"), u, AnyOrder)
    IN  IF w.failed \/ o.err # "none" THEN [w EXCEPT !.failed = TRUE]
        ELSE AssembleAll(s.max, [w EXCEPT !.sse = o.sse], o.frags)

\* After the first n frames of stream s.
FrameByFrame(s, n) ==
    LET at[k \in 0 .. n] ==
          IF k = 0 THEN Fresh ELSE OneFrame(s, at[k - 1], s.frames[k])
    IN  at[n]

Reference(s, n) ==
    LET whole == FrameByFrame(s, n)
        calls == whole.sse.calls
        left == {x \in Id : whole.sse.done /\ calls[x].id /\ ~calls[x].ready}
    IN  AssembleAll(s.max, whole, ToolSeq(InOrder(AnyOrder, left), "Waiting")).events

\* How many of the first n frames may be mapped: all of them, and in an SSE
\* stream at least those up to its terminator.
Extents(s, n) ==
    LET dones == {k \in 1 .. n : s.dialect = "openai" /\ s.frames[k].kind = "done"}
    IN  IF dones = {} THEN {n} ELSE Min(dones) .. n

\* The events of one action, but for the mark of an abrupt end.
Lane(events, x) ==
    Kept(events, {k \in DOMAIN events : events[k].id = x /\ events[k].ev # "incomplete"})

(* However the bytes are cut into chunks, and wherever the stream stops,   *)
(* fails or is dropped, the tool actions' events are the first events of   *)
(* each action in the stream decoded frame by frame (RecvBytes,            *)
(* on_fragment), and all of them after a clean end: nothing is repeated,   *)
(* skipped or credited to another call.  The frames behind an SSE          *)
(* terminator are the exception: as many of them count as came in its      *)
(* chunk (push_bytes).                                                     *)
ChunksImmaterial ==
    \E m \in Extents(iStream, Len(iStream.frames)) :
        LET all == Reference(iStream, m)
        IN  \A x \in Id :
              /\ IsPrefix(Lane(iPub, x), Lane(all, x))
              /\ (iPc = "ended" /\ iEnd = "Complete" /\ iPos = 2 * Len(iStream.frames)) =>
                   Lane(iPub, x) = Lane(all, x)

(* A direct model's call becomes executable only after a tool_calls finish *)
(* that found its id and complete arguments (on_finish_reason, D-016).     *)
ReadyQualified ==
    iStream.dialect = "openai" =>
        \A e \in ToSet(iPub) : e.req = "Ready" =>
            \E j \in 1 .. iPos \div 2 :
               LET deltas == {k \in 1 .. j : /\ iStream.frames[k].kind = "delta"
                                             /\ iStream.frames[k].id = e.id}
               IN  /\ iStream.frames[j] = [kind |-> "finish", reason |-> "tool_calls"]
                   /\ Cardinality(deltas) = 2
                   /\ \E k \in deltas : iStream.frames[k].named

LastEvent(x) == iPub[Max({i \in DOMAIN iPub : iPub[i].id = x})]

\* Every action the consumer knows was resolved or is closed by an Incomplete
\* event, which no longer says its request is being assembled.
AbruptMarked ==
    iPc = "ended" /\ iEnd \in {"Cancelled", "TransportFailed"} /\ ~iGone =>
        \A x \in DOMAIN iTools :
            \/ LastEvent(x).terminal
            \/ LastEvent(x).ev = "incomplete" /\ LastEvent(x).req # "Assembling"

\* The parts among the first m frames that no later frame closes.
UnsealedParts(m) ==
    LET frames == SubSeq(iStream.frames, 1, m)
        closing == {k \in DOMAIN frames : frames[k].kind \in {"text"} \cup
                      (IF iStream.dialect \in {"acp", "claude"} THEN {"finished"} ELSE {})}
    IN  {k \in DOMAIN frames : frames[k].kind = "part" /\ \A j \in closing : j < k}

\* The report counts every event before it, and as unresolved the text that was
\* not sealed and what is left in frame_buf: the half of a frame, but nothing of
\* the half of an SSE event, which is in line_carry or event_data_lines.
ReportAccounts ==
    iPc = "ended" /\ iEnd \in {"Complete", "Cancelled", "TransportFailed"} /\ ~iGone =>
        /\ iReport.count = Len(iPub)
        /\ \E m \in Extents(iStream, iPos \div 2) :
              iReport.unresolved =
                (IF iEnd = "Complete" THEN 0 ELSE Cardinality(UnsealedParts(m)))
                + (IF iStream.dialect = "openai" THEN 0 ELSE iPos % 2)

(* The end of a stream: when a cancel or a lost connection ends it, no      *)
(* action is left open in the consumer's eyes (quarantine_partials), and    *)
(* the report counts the events published, the text not sealed and the      *)
(* bytes in frame_buf, each once, though two places count them              *)
(* (quarantine_partials and finish).  Bytes of an SSE event that was not    *)
(* complete are discarded without being counted: they are not in frame_buf. *)
EndAccounted == AbruptMarked /\ ReportAccounts
=============================================================================
