------------------------------ MODULE SseStream ------------------------------
(***************************************************************************)
(* The upstream side of a streamed completion: exchange                    *)
(* (inference_transport.py) reads blocks of bytes, SSEDecoder              *)
(* (gateway/adapters.py) turns them into events, and TargetAdapters.stream *)
(* into chunks and, at the end, one observation; GatewayStream has what    *)
(* the gateway does with those.                                            *)
(*                                                                         *)
(* A byte stream is a sequence of symbols, so that a line, and what a line *)
(* holds, can be cut anywhere: "nl" and "cr" end lines, "colon" and "data" *)
(* begin a comment or data, and a payload is a frame ("delta", "finish",   *)
(* "usage", "error"), "DONE", or "half", one of two lines of a frame.      *)
(***************************************************************************)
EXTENDS Naturals, Sequences, FiniteSets, SequencesExt

CONSTANTS
    Streams,     \* what the upstream may send before it closes
    Block,       \* bytes of a read: 8192
    MaxFrame,    \* bytes of an unfinished line: 65536
    MaxTotal     \* bytes of a response: 1048576


VARIABLES
    stream,      \* what the upstream sends
    meaning,     \* history: what it says, read at once
    size,        \* bytes read
    taken,       \* bytes of the lines decoded
    data,        \* data lines since the last event
    done,        \* [DONE] was decoded
    terminal,    \* a finish reason was seen
    out,         \* frames yielded as chunks
    status       \* of the generator

input == <<stream, meaning>>
vars == <<input, size, taken, data, done, terminal, out, status>>

-----------------------------------------------------------------------------
(* Lines and payloads, and for reference what a whole stream says, read at once *)

Frames == {"delta", "finish", "usage"}

Stripped(line) == SelectSeq(line, LAMBDA x : x # "cr")   \* "cr" only ever ends a line

Kind(line) ==
    CASE line = <<>> -> "blank"
      [] line # <<>> /\ line[1] = "data" -> "data"
      [] OTHER -> "ignored"

\* The data lines of an event, joined and parsed.
Payload(lines) ==
    CASE lines = <<<<"half">>, <<"half">>>> -> "delta"
      [] Len(lines) = 1 /\ Len(lines[1]) = 1 /\ lines[1][1] \in Frames \cup {"DONE"} -> lines[1][1]
      [] OTHER -> "error"

Lines(s) ==
    LET cut(acc, x) == IF x = "nl" THEN [lines |-> Append(acc.lines, Stripped(acc.rest)), rest |-> <<>>]
                       ELSE [acc EXCEPT !.rest = Append(@, x)]
    IN  FoldLeft(cut, [lines |-> <<>>, rest |-> <<>>], s)

\* The events of a stream, and the data lines left over.
Events(s) ==
    LET add(acc, line) ==
            CASE Kind(line) = "data" -> [acc EXCEPT !.data = Append(@, Tail(line))]
              [] Kind(line) = "blank" /\ acc.data # <<>> ->
                    [events |-> Append(acc.events, Payload(acc.data)), data |-> <<>>]
              [] OTHER -> acc
    IN  FoldLeft(add, [events |-> <<>>, data |-> <<>>], Lines(s).lines)

\* Frames with a finish reason among them, then [DONE], and nothing more.
Complete(s) ==
    LET e == Events(s) n == Len(e.events) IN
    /\ Stripped(Lines(s).rest) = <<>> /\ e.data = <<>> /\ n > 0 /\ e.events[n] = "DONE"
    /\ \A i \in 1 .. n - 1 : e.events[i] \in Frames
    /\ "finish" \in Range(e.events)

\* Between its newlines, no line is longer than the decoder keeps.
Fits(s) ==
    /\ Len(s) <= MaxTotal
    /\ \A i, j \in 1 .. Len(s) : i <= j /\ "nl" \notin Range(SubSeq(s, i, j)) => j - i < MaxFrame

Meaning(s) ==
    [frames |-> SelectSeq(Events(s).events, LAMBDA e : e \in Frames),
     complete |-> Complete(s), fits |-> Fits(s)]

-----------------------------------------------------------------------------
Buffer == SubSeq(stream, taken + 1, size)

TypeOK ==
    /\ size \in 0 .. Len(stream) /\ taken \in 0 .. size
    /\ done \in BOOLEAN /\ terminal \in BOOLEAN /\ Range(out) \subseteq Frames
    /\ status \in {"reading", "decoding", "raised", "stopped", "observed"}
    /\ status = "reading" => Len(Buffer) <= MaxFrame /\ size <= MaxTotal /\ "nl" \notin Range(Buffer)

Init ==
    /\ stream \in Streams /\ meaning = Meaning(stream)
    /\ size = 0 /\ taken = 0 /\ data = <<>>
    /\ done = FALSE /\ terminal = FALSE /\ out = <<>> /\ status = "reading"

Become(s) == status' = s /\ UNCHANGED <<input, size, taken, data, done, terminal, out>>

-----------------------------------------------------------------------------
(* exchange, and the first lines of iter_feed *)

Arrive(n) ==
    /\ status = "reading" /\ n \in 1 .. Block /\ size + n <= Len(stream)
    /\ IF size + n > MaxTotal THEN Become("raised")
       ELSE /\ size' = size + n /\ status' = "decoding"
            /\ UNCHANGED <<input, taken, data, done, terminal, out>>

\* The deadline, the cancellation or the consumer ends the exchange.
Stop == status \in {"reading", "decoding"} /\ Become("stopped")

-----------------------------------------------------------------------------
(* iter_feed: one line of the buffer; an event goes to stream before the next line *)

Ends == {i \in taken + 1 .. size : stream[i] = "nl"}
Line(end) == SubSeq(stream, taken + 1, end - 1)
Dispatch(event) ==
    IF done \/ event = "error"
    THEN status' = "raised" /\ UNCHANGED <<done, terminal, out>>
    ELSE /\ done' = (event = "DONE")
         /\ terminal' = (terminal \/ event = "finish")
         /\ out' = IF event = "DONE" THEN out ELSE Append(out, event)
         /\ UNCHANGED status

First_Last(ends) == CHOOSE i \in ends : \A j \in ends : j <= i
First(ends) == CHOOSE i \in ends : \A j \in ends : i <= j

TakeLine ==
    /\ status = "decoding" /\ Ends # {}
    /\ taken' = First(Ends)
    /\ LET line == Stripped(Line(First(Ends))) IN
        \/ /\ Kind(line) = "data" /\ data' = Append(data, Tail(line))
           /\ UNCHANGED <<done, terminal, out, status>>
        \/ Kind(line) = "blank" /\ data # <<>> /\ data' = <<>> /\ Dispatch(Payload(data))
        \/ /\ Kind(line) = "ignored" \/ (Kind(line) = "blank" /\ data = <<>>)
           /\ UNCHANGED <<data, done, terminal, out, status>>
    /\ UNCHANGED <<input, size>>

\* Mutant: what is left at the end of a block counts as a line.
EndOfFeed_Flushes ==
    /\ status = "decoding" /\ Ends = {} /\ status' = "reading" /\ taken' = size
    /\ data' = IF Kind(Stripped(Buffer)) = "data" THEN Append(data, Tail(Stripped(Buffer))) ELSE data
    /\ UNCHANGED <<input, size, done, terminal, out>>
Overlong_Never == FALSE
Overlong == Len(Buffer) > MaxFrame
EndOfFeed ==
    /\ status = "decoding" /\ Ends = {}
    /\ Become(IF Overlong THEN "raised" ELSE "reading")

-----------------------------------------------------------------------------
(* The upstream closes: finish, then the observation *)

Truncated_NotDone == ~done
Truncated == Stripped(Buffer) # <<>> \/ data # <<>> \/ ~done
Close ==
    /\ status = "reading" /\ size = Len(stream)
    /\ Become(IF Truncated \/ ~terminal THEN "raised" ELSE "observed")

Next == (\E n \in 1 .. Block : Arrive(n)) \/ Stop \/ TakeLine \/ EndOfFeed \/ Close
Spec == Init /\ [][Next]_vars

-----------------------------------------------------------------------------
(* Properties *)

\* However the bytes are cut into blocks, the frames yielded so far are the first frames of
\* the stream.
OutputIsPrefix == IsPrefix(out, meaning.frames)

\* "Truncated stream or missing terminal event": an observation, which settles the attempt as
\* answered, follows a complete stream only, all of whose frames were yielded.
ObservedIsComplete == status = "observed" => meaning.complete /\ out = meaning.frames

\* A complete stream within the bounds is refused at no cut.
CompleteIsAccepted == status = "raised" /\ meaning.fits => ~meaning.complete

\* The decoder is exact: how the network cuts a stream changes neither its frames nor
\* whether it counts as complete.
DecodingIsExact == TypeOK /\ OutputIsPrefix /\ ObservedIsComplete /\ CompleteIsAccepted
=============================================================================
