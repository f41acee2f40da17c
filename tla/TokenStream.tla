---------------------------- MODULE TokenStream ----------------------------
(***************************************************************************)
(* One chat answer (proxy.py): the upstream sends generated token ids, and *)
(* the proxy decodes them, cuts at the first stop string, tells reasoning  *)
(* from the answer, turns tool-call markup into calls, and streams deltas. *)
(*                                                                         *)
(* Text is a sequence of symbols, each standing for a piece of a marker or *)
(* for other text; a chunk is any number of them, so that a marker or a    *)
(* stop string arrives in pieces.  Positions count from 0, as in the code. *)
(* The template puts the opening thinking marker into the prompt, so the   *)
(* model does not generate one.  The deltas are kept by channel.           *)
(***************************************************************************)
EXTENDS Naturals, Sequences, FiniteSetsExt

CONSTANTS
    Stops,   \* the request's stop strings
    Tools,   \* the request declares tools
    Length,  \* bound: symbols the model generates
    MaxChunk \* bound: symbols one chunk brings

\* "</think>", "<tool_call>" and "</tool_call>" share their first symbol;
\* the end of a call is looked for in text that is there, and is one symbol.
ThinkEnd == <<"<", "/think>">>
ToolOpen == <<"<", "tool_call>">>
ToolClose == <<"</tool_call>">>
Symbols == {"word", "<", "/think>", "tool_call>", "</tool_call>"}

ASSUME StopsAssumption == Stops \subseteq Seq(Symbols) \ {<<>>} /\ IsFiniteSet(Stops)
ASSUME ToolsAssumption == Tools \in BOOLEAN
ASSUME LengthAssumption == Length \in Nat /\ MaxChunk \in Nat

VARIABLES
    text,      \* the decoded ids that have arrived
    emitted,   \* how much of it has been looked at and sent
    out,       \* the deltas sent so far, by channel
    finish,    \* the finish_reason sent
    phase,     \* "streaming", "over", "gone" (the client has left)
    upstream   \* "generating", "ended", "aborted" (connection closed)

vars == <<text, emitted, out, finish, phase, upstream>>

Channels == [reasoning : Seq(Symbols), content : Seq(Symbols), calls : Seq(Seq(Symbols))]

TypeOK ==
    /\ text \in Seq(Symbols) /\ emitted \in 0..Len(text)
    /\ out \in Channels
    /\ finish \in {"none", "stop", "length", "tool_calls"}
    /\ phase \in {"streaming", "over", "gone"}
    /\ upstream \in {"generating", "ended", "aborted"}

Delta(reasoning, content, calls) == [reasoning |-> reasoning, content |-> content, calls |-> calls]
Nothing == Delta(<<>>, <<>>, <<>>)

Init ==
    /\ text = <<>> /\ emitted = 0 /\ out = Nothing
    /\ finish = "none" /\ phase = "streaming" /\ upstream = "generating"

-----------------------------------------------------------------------------
(* Text.                                                                    *)

Before(t, p) == SubSeq(t, 1, p)
Between(t, p, q) == IF p < q THEN SubSeq(t, p + 1, q) ELSE <<>>

\* Where, from p on, one of the words begins in t.
Occurrences(t, words, p) ==
    {q \in p..Len(t) : \E w \in words :
        q + Len(w) <= Len(t) /\ Between(t, q, q + Len(w)) = w}

\* The first of them, or the end of the text: _find_marker, _find_stop.
FirstOf(t, words, p) == Min(Occurrences(t, words, p) \cup {Len(t)})

Join(a, b) == Delta(a.reasoning \o b.reasoning, a.content \o b.content, a.calls \o b.calls)

\* _parse_tool_call_block gives up on a block without a function.
Parses(block) == "word" \in {block[i] : i \in DOMAIN block}

Larger(m, n) == IF m > n THEN m ELSE n

-----------------------------------------------------------------------------
(* Streaming: _TokenDetokenizer.                                            *)

\* Mutant: stop strings are forgotten.
HoldbackForMarkers ==
    Max({Len(w) : w \in {ThinkEnd} \cup (IF Tools THEN {ToolOpen} ELSE {})}) - 1

\* The tail that could be the beginning of a stop string or of a marker.
Holdback ==
    Max({Len(w) : w \in Stops \cup {ThinkEnd} \cup (IF Tools THEN {ToolOpen} ELSE {})}) - 1

\* Mutant: the marker is looked for in the new range only.
SplitLocally(t, p, q) ==
    LET end == FirstOf(Between(t, p, q), {ThinkEnd}, 0) + p
    IN Delta(Between(t, p, IF q < end THEN q ELSE end),
             Between(t, Larger(p, end + Len(ThinkEnd)), q), <<>>)

\* _split_delta
Split(t, p, q) ==
    LET end == FirstOf(t, {ThinkEnd}, 0)
    IN Delta(Between(t, p, IF q < end THEN q ELSE end),
             Between(t, Larger(p, end + Len(ThinkEnd)), q), <<>>)

\* A complete block is one call; one that cannot be understood is content.
Block(block) ==
    IF Parses(block) THEN Delta(<<>>, <<>>, <<block>>) ELSE Delta(<<>>, block, <<>>)

\* One turn of the loop of _drain over the text t, at position p: what is sent
\* from there on, and where it stops, when `rest` is what later turns do.  Text
\* past `limit` waits, unless a block of it is complete.
Turn(t, limit, final, p, rest) ==
    LET open == IF Tools THEN FirstOf(t, {ToolOpen}, p) ELSE Len(t)
        stay == Larger(p, IF open < limit THEN open ELSE limit)
        close == FirstOf(t, {ToolClose}, open)
        end == close + Len(ToolClose)
    IN IF p = Len(t) THEN [out |-> Nothing, at |-> p]
       ELSE IF stay # open \/ open = Len(t)
         THEN [out |-> Split(t, p, stay), at |-> stay]
       ELSE IF close < Len(t)
         THEN [out |-> Join(Split(t, p, open),
                            Join(Block(Between(t, open, end)), rest[end].out)),
               at |-> rest[end].at]
       ELSE IF final
         THEN [out |-> Join(Split(t, p, open), Split(t, open, Len(t))), at |-> Len(t)]
       ELSE [out |-> Split(t, p, open), at |-> open]

\* The loop.
Sent(t, limit, final) ==
    LET Loop[p \in 0..Len(t)] == Turn(t, limit, final, p, Loop) IN Loop

HasStop(t) == Occurrences(t, Stops, 0) # {}
Cut(t) == Before(t, FirstOf(t, Stops, 0))

\* _drain: stop strings first, then the loop over what is left.
Drain(t, p, final) ==
    LET u == Cut(t)
        limit == IF final \/ HasStop(t) THEN Len(u)
                 ELSE Larger(Len(u), Holdback) - Holdback
    IN IF p < Len(u) THEN Sent(u, limit, final)[p] ELSE [out |-> Nothing, at |-> p]

\* What one chunk can bring.
Chunks == UNION {[1..n -> Symbols] : n \in {m \in 0..MaxChunk : Len(text) + m <= Length}}

\* A call in the answer makes "stop" a "tool_calls".
FinishReason(reason, calls) ==
    IF reason = "stop" /\ calls # <<>> THEN "tool_calls" ELSE reason

-----------------------------------------------------------------------------
(* The stream: _stream_chat and _process_stream_chunk.                      *)

\* A stop string ends the stream and closes the upstream connection.
Chunk ==
    /\ phase = "streaming"
    /\ \E ids \in Chunks \ {<<>>} :
         LET d == Drain(text \o ids, emitted, FALSE)
         IN /\ text' = text \o ids
            /\ emitted' = d.at /\ out' = Join(out, d.out)
            /\ IF HasStop(text \o ids)
                 THEN /\ phase' = "over" /\ upstream' = "aborted"
                      /\ finish' = FinishReason("stop", out'.calls)
                 ELSE UNCHANGED <<phase, upstream, finish>>

\* The chunk the generation ends with, which may carry ids too; what was
\* held back is flushed.  Where no chunk came before, _detect_token_mode leaves
\* it to the text fallback, which is not modelled: it has no ids then.
Final(reason) ==
    /\ phase = "streaming"
    /\ \E ids \in Chunks :
         LET t == text \o ids
             added == Drain(t, emitted, FALSE)
             flushed == Drain(t, added.at, TRUE)
         IN /\ text = <<>> => ids = <<>>
            /\ text' = t /\ emitted' = flushed.at
            /\ out' = Join(out, Join(added.out, flushed.out))
            /\ finish' = FinishReason(IF HasStop(t) THEN "stop" ELSE reason, out'.calls)
    /\ phase' = "over" /\ upstream' = "ended"

\* Mutant: an end without a final chunk has a reason of its own.
BreaksWithReason ==
    /\ phase = "streaming"
    /\ LET d == Drain(text, emitted, TRUE)
       IN emitted' = d.at /\ out' = Join(out, d.out)
    /\ phase' = "over" /\ upstream' = "ended" /\ finish' = "eof"
    /\ UNCHANGED text

\* The upstream ends without one: the rest is flushed, without a reason.
Breaks ==
    /\ phase = "streaming"
    /\ LET d == Drain(text, emitted, TRUE)
       IN emitted' = d.at /\ out' = Join(out, d.out)
    /\ phase' = "over" /\ upstream' = "ended"
    /\ UNCHANGED <<text, finish>>

\* handler_cancellation, a failing write or a failing read.
Disconnects ==
    /\ phase = "streaming"
    /\ phase' = "gone" /\ upstream' = "aborted"
    /\ UNCHANGED <<text, emitted, out, finish>>

Next == Chunk \/ Final("stop") \/ Final("length") \/ Breaks \/ Disconnects

Spec == Init /\ [][Next]_vars

-----------------------------------------------------------------------------
(* The same answer without streaming: _complete_chat.                       *)

\* _parse_tool_calls: the calls in the answer, and the answer without them.
ToolCalls(t) ==
    LET Loop[p \in 0..Len(t)] ==
          LET open == FirstOf(t, {ToolOpen}, p)
              close == FirstOf(t, {ToolClose}, open)
              end == close + Len(ToolClose)
          IN IF close = Len(t)
               THEN Delta(<<>>, Between(t, p, Len(t)), <<>>)
               ELSE Join(Delta(<<>>, Between(t, p, open), <<>>),
                         Join(Block(Between(t, open, end)), Loop[end]))
    IN Loop[0]

\* _split_reasoning, and the calls of the answer.
Complete(t) ==
    LET u == Cut(t)
        end == FirstOf(u, {ThinkEnd}, 0)
        answer == IF end = Len(u) THEN u ELSE Between(u, end + Len(ThinkEnd), Len(u))
        parsed == IF Tools THEN ToolCalls(answer) ELSE Delta(<<>>, answer, <<>>)
    IN Delta(IF end = Len(u) THEN <<>> ELSE Before(u, end), parsed.content, parsed.calls)

-----------------------------------------------------------------------------
(* Properties.                                                              *)

\* The holdback is enough: however the stop string is cut into chunks, no
\* part of it, and nothing after it, has been sent.
SendsNothingOfAStop == emitted <= FirstOf(text, Stops, 0)

\* In the text so far a call was begun and is not complete.
InsideCall ==
    Tools /\ \E p \in Occurrences(Cut(text), {ToolOpen}, 0) :
        Occurrences(Cut(text), {ToolClose}, p) = {}

\* A client that streams gets, channel by channel, the answer and the finish
\* reason it would get without streaming, however the ids were chunked: of
\* answers whose reasoning ends and has no call in it, unless a stop string
\* was met inside a call that is still open, whose text is then not sent.
StreamsTheAnswer ==
    LET u == Cut(text)
        end == FirstOf(u, {ThinkEnd}, 0)
        whole == Complete(text)
    IN /\ phase = "over" /\ finish # "none"
       /\ end < Len(u) /\ end <= FirstOf(u, {ToolOpen}, 0)
       /\ ~(upstream = "aborted" /\ InsideCall)
       => /\ out = whole
          /\ IF finish = "length" THEN ~HasStop(text)
                                  ELSE finish = FinishReason("stop", whole.calls)
============================================================================
