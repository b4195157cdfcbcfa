------------------------------ MODULE Sentence ------------------------------
(***************************************************************************)
(* Sentence assembly of one text channel of an interpretation: the         *)
(* segmenter (sentence.rs) and the source spans kept beside its buffer     *)
(* (engine.rs, ChannelAssembly).  The text of a response arrives in        *)
(* fragments cut anywhere; the buffer gives up a sentence as soon as the   *)
(* character after its end is known.                                       *)
(*                                                                         *)
(* A symbol is a word or a character, as far as the rules tell them apart: *)
(* "w" a word, "W" one with a capital, "i" an initial, "d" one of ABBREVS, *)
(* "1" up to three digits, "/" a mark of a path or URL, "(" and ")" a pair *)
(* of square brackets, "tick" a backquote, "nl" a newline.                 *)
(***************************************************************************)
EXTENDS Naturals, Sequences, FiniteSets, SequencesExt, FiniteSetsExt

CONSTANTS
    Texts,          \* the texts of a channel between two seals
    MaxAssembly     \* max_sentence_assembly_bytes

Letters == {"w", "W", "i", "d"}
Blanks == {" ", "nl"}
Symbol == Letters \cup Blanks \cup {"1", ".", "!", "(", ")", "tick", "/"}

\* Adjacent letters would be one word.
Worded(s) == \A i \in 1 .. Len(s) - 1 : ~(s[i] \in Letters /\ s[i + 1] \in Letters)

ASSUME SentenceAssumption ==
    /\ Texts \subseteq {s \in Seq(Symbol) : Worded(s)}
    /\ MaxAssembly \in Nat

VARIABLES
    sText,      \* the whole text
    sPos,       \* symbols delivered so far
    sBuf,       \* SentenceSegmenter::buf
    sSteps,     \* spans: the source step of each buffered symbol
    sStep,      \* fragments delivered
    sOut,       \* sentences published: [content, step]
    sEnd        \* none, Complete, Failed or LimitExceeded

sVars == <<sText, sPos, sBuf, sSteps, sStep, sOut, sEnd>>

SentenceInit ==
    /\ sText \in Texts
    /\ sPos = 0 /\ sBuf = <<>> /\ sSteps = <<>> /\ sStep = 0 /\ sOut = <<>>
    /\ sEnd = "none"

-----------------------------------------------------------------------------
Solid(s) == {i \in DOMAIN s : s[i] \notin Blanks}
trim_end(s) == SubSeq(s, 1, Max(Solid(s) \cup {0}))
trim(s) == IF Solid(s) = {} THEN <<>> ELSE SubSeq(s, Min(Solid(s)), Max(Solid(s)))

\* The scan's state before symbol i: inside a code span, and open brackets.
Scan(s, i) ==
    FoldLeft(LAMBDA st, c :
               IF c = "tick" THEN [st EXCEPT !.code = ~@]
               ELSE IF st.code THEN st
               ELSE IF c = "(" THEN [st EXCEPT !.depth = @ + 1]
               ELSE IF c = ")" /\ st.depth > 0 THEN [st EXCEPT !.depth = @ - 1]
               ELSE st,
             [code |-> FALSE, depth |-> 0], SubSeq(s, 1, i - 1))

\* "1." at the start or after a blank stays with the text that follows.
looks_like_ordered_list_marker(s, i) ==
    /\ i > 1 /\ s[i - 1] = "1"
    /\ i = 2 \/ s[i - 2] \in Blanks
    /\ i = Len(s) \/ s[i + 1] \in Blanks \cup {"tick", "("}

is_only_list_marker(t) ==
    t # <<>> /\ Last(t) = "." /\ looks_like_ordered_list_marker(t, Len(t))

looks_like_abbreviation_or_decimal(s, i) ==
    \/ i > 1 /\ s[i - 1] = "1" /\ i < Len(s) /\ s[i + 1] = "1"
    \/ i > 1 /\ s[i - 1] \in {"i", "d"}
    \/ \E j \in 1 .. i : s[j] = "/" /\ \A k \in j .. i : s[k] \notin Blanks

\* Mutant: a terminator at the end of the buffer ends the sentence.
Terminates_eager(s, i) ==
    /\ s[i] \in {".", "!"} /\ Scan(s, i) = [code |-> FALSE, depth |-> 0]
    /\ s[i] = "." => /\ ~looks_like_ordered_list_marker(s, i)
                     /\ ~looks_like_abbreviation_or_decimal(s, i)
    /\ i < Len(s) => \/ s[i + 1] \in Blanks \cup {")"}
                     \/ s[i] = "." /\ s[i + 1] = "W" /\ i > 1 /\ s[i - 1] \in Letters

\* A terminator outside brackets and code, followed by what may follow one.
Terminates(s, i) ==
    /\ s[i] \in {".", "!"} /\ Scan(s, i) = [code |-> FALSE, depth |-> 0]
    /\ s[i] = "." => /\ ~looks_like_ordered_list_marker(s, i)
                     /\ ~looks_like_abbreviation_or_decimal(s, i)
    /\ i < Len(s)
    /\ \/ s[i + 1] \in Blanks \cup {")"}
       \/ s[i] = "." /\ s[i + 1] = "W" /\ i > 1 /\ s[i - 1] \in Letters

\* A blank line after something other than a list marker.
HardBreak(s, i) ==
    LET before == trim(SubSeq(s, 1, i - 1))
    IN  /\ s[i] = "nl" /\ i < Len(s) /\ s[i + 1] = "nl" /\ ~Scan(s, i).code
        /\ before # <<>> /\ ~is_only_list_marker(before)

\* Last symbol of the first complete sentence, 0 when there is none.
find_sentence_end(s) ==
    LET ends == {i \in DOMAIN s : Terminates(s, i) \/ HardBreak(s, i)}
        i == Min(ends)
    IN  IF ends = {} THEN 0 ELSE IF s[i] = "nl" THEN i - 1 ELSE i

\* The sentence and the blanks that follow it in the buffer.
Consumed(s, e) ==
    Max({c \in e .. Len(s) : \A k \in e + 1 .. c : s[k] \in Blanks})

\* drain_complete(false): the sentences, each with the symbols it removes.
drain_complete[s \in Seq(Symbol)] ==
    LET e == find_sentence_end(s)
        c == Consumed(s, e)
        rest == drain_complete[SubSeq(s, c + 1, Len(s))]
    IN  IF e = 0 THEN [done |-> <<>>, buf |-> s]
        ELSE [done |-> <<[content |-> trim_end(SubSeq(s, 1, e)),
                          used |-> c]>> \o rest.done,
              buf |-> rest.buf]

\* drain_complete(true): a remainder that is not blank is a sentence too.
seal_at_clean_end(s) ==
    LET d == drain_complete[s]
    IN  IF Solid(d.buf) = {} THEN d
        ELSE [done |-> Append(d.done, [content |-> trim(d.buf), used |-> Len(d.buf)]),
              buf |-> <<>>]

\* take_spans: the earliest step of the content region, and the spans left.
take_spans(done, steps) ==
    FoldLeft(LAMBDA acc, c :
               [out |-> Append(acc.out,
                          [content |-> c.content,
                           step |-> Min(ToSet(SubSeq(acc.steps, 1, Len(c.content))))]),
                steps |-> SubSeq(acc.steps, c.used + 1, Len(acc.steps))],
             [out |-> <<>>, steps |-> steps], done)

-----------------------------------------------------------------------------
\* on_text: one fragment, refused when the buffer would pass its bound.
on_text ==
    /\ sEnd = "none" /\ sPos < Len(sText)
    /\ \E n \in 1 .. Len(sText) - sPos :
         LET buf == sBuf \o SubSeq(sText, sPos + 1, sPos + n)
             steps == sSteps \o [i \in 1 .. n |-> sStep + 1]
             d == drain_complete[buf]
             t == take_spans(d.done, steps)
         IN  /\ sPos' = sPos + n /\ sStep' = sStep + 1
             /\ IF Len(buf) > MaxAssembly
                THEN sEnd' = "LimitExceeded" /\ UNCHANGED <<sBuf, sSteps, sOut>>
                ELSE /\ sBuf' = d.buf /\ sSteps' = t.steps /\ sOut' = sOut \o t.out
                     /\ UNCHANGED sEnd
    /\ UNCHANGED sText

\* seal_text_channels at the clean end of the response.
seal_text ==
    /\ sEnd = "none" /\ sPos = Len(sText)
    /\ LET d == seal_at_clean_end(sBuf)
           t == take_spans(d.done, sSteps)
       IN  sBuf' = d.buf /\ sSteps' = t.steps /\ sOut' = sOut \o t.out
    /\ sEnd' = "Complete"
    /\ UNCHANGED <<sText, sPos, sStep>>

\* quarantine_partials: an abrupt end discards the buffer and its spans.
take_unresolved ==
    /\ sEnd = "none" /\ sEnd' = "Failed"
    /\ sBuf' = <<>> /\ sSteps' = <<>>
    /\ UNCHANGED <<sText, sPos, sStep, sOut>>

SentenceNext == on_text \/ seal_text \/ take_unresolved

SentenceSpec == SentenceInit /\ [][SentenceNext]_sVars

-----------------------------------------------------------------------------
Contents(out) == [i \in DOMAIN out |-> out[i].content]
Trimmed(out) == [i \in DOMAIN out |-> trim(out[i].content)]
Whole == seal_at_clean_end(sText).done

(* However the text is cut into fragments, what is published are the first *)
(* sentences of the text segmented as a whole, up to blanks around them,   *)
(* and all of them after a clean end; an abrupt end promotes no part of a  *)
(* sentence.                                                               *)
SplitAgrees ==
    /\ IsPrefix(Trimmed(sOut), Trimmed(Whole))
    /\ sEnd = "Complete" => Trimmed(sOut) = Trimmed(Whole)

(* What doc/INTERPRETER.md requires: the same sentences, to the letter,    *)
(* for every fragmentation of the same text.                               *)
FragmentIndependence == sEnd = "Complete" => Contents(sOut) = Contents(Whole)
=============================================================================
