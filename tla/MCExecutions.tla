---------------------------- MODULE MCExecutions ----------------------------
(***************************************************************************)
(* Executions with what a streamed completion rests on: its upstream side  *)
(* (SseStream), which is checked against everything that side may do.  A   *)
(* behaviour exercises one of the three parts, and the others stay as they *)
(* began.                                                                  *)
(***************************************************************************)
EXTENDS Executions

Seqs == INSTANCE SequencesExt

VARIABLES stream, meaning, size, taken, data, done, terminal, out, status    \* SseStream

sseVars == <<stream, meaning, size, taken, data, done, terminal, out, status>>

\* Events and other lines a byte stream is put together from.
Parts ==
    { <<"data", "delta", "nl", "nl">>, <<"data", "finish", "cr", "nl", "cr", "nl">>,
      <<"data", "usage", "nl", "nl">>, <<"data", "half", "nl", "data", "half", "nl", "nl">>,
      <<"data", "error", "nl", "nl">>, <<"data", "DONE", "nl", "nl">>,
      <<"data", "delta", "nl">>, <<"colon", "data", "nl">>, <<"other", "other", "other", "other", "nl">>, <<"nl">> }
Closing == <<"data", "DONE", "nl", "nl">>

\* Up to three of them, perhaps the last event, perhaps cut short.
Whole == {Seqs!FlattenSeq(s) \o last : s \in UNION {[1 .. n -> Parts] : n \in 0 .. 3}, last \in {<<>>, Closing}}
MCStreams == {SubSeq(s, 1, Len(s) - cut) : s \in {w \in Whole : Len(w) > 2}, cut \in 0 .. 2}

Sse == INSTANCE SseStream WITH Streams <- MCStreams, Block <- 4, MaxFrame <- 3, MaxTotal <- 17

MCInit ==
    /\ ExecutionsInit /\ Sse!Init
    /\ part # "gateway" => fallbackOn = {}
    /\ part # "upstream" => stream = Closing

MCNext ==
    \/ ExecutionsNext /\ UNCHANGED sseVars
    \/ part = "upstream" /\ Sse!Next /\ UNCHANGED <<part, vars, runVars>>

\* A worker that lives goes on, and the run of one that died is swept.
allVars == <<executionVars, sseVars>>
MCFairSpec ==
    /\ MCInit /\ [][MCNext]_allVars
    /\ WF_allVars(InRecords /\ Records!Submit /\ UNCHANGED sseVars)
    /\ WF_allVars(InRecords /\ Records!Sweep /\ UNCHANGED sseVars)

-----------------------------------------------------------------------------
(* Properties *)

\* The decoder is exact: how the network cuts a stream changes neither its frames nor
\* whether it counts as complete.
DecodingIsExact == part = "upstream" => Sse!DecodingIsExact

\* What is written about a run stays, and whatever collides the run is settled.
RecordsEndure == RecordsStay /\ (part = "records" => Records!EveryRunSettles)
=============================================================================
