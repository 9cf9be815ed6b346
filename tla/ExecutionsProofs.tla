-------------------------- MODULE ExecutionsProofs --------------------------
(***************************************************************************)
(* Proofs about what an execution leaves behind: a streamed completion     *)
(* (GatewayStream) for one to three pinned configurations, any fallback    *)
(* lists and an upstream that keeps its order or does not; and the records *)
(* of a workflow run (RunRecords) for any number of stages, attempts and   *)
(* cancel calls.                                                           *)
(***************************************************************************)
EXTENDS Executions, FiniteSetTheorems, SequenceTheorems, TLAPS

\* Where a configuration has not been started, and where its stream is open.
Before == {"idle", "advance", "candidates", "key", "circuit", "start"}
Unsent == Before \cup {"recheck", "dispatch"}
Streaming == {"await", "check_key", "check_policy", "yield", "complete", "settle"}
Final == {"none", "succeeded", "uncertain"}

\* The request's state at each step of the generator.
RequestInv ==
    /\ pc = "idle" => request = "none"
    /\ pc \in {"idle", "advance", "candidates"} => shown = {}
    /\ pc = "advance" => request = "queued"
    /\ pc \in (Unsent \ {"idle", "advance"}) \cup Streaming => request = "running"
    /\ pc \in {"terminal", "drained"} => request \in Terminal
    /\ pc \in {"fail", "choose"} => request = "running" \/ (request \in Terminal /\ interrupted)
    /\ pc = "ended" /\ request \in {"queued", "running"} => escaped /\ shown = {}
    /\ pc = "dead" => crashed

\* Every configuration but the current one has its final record, and the current one has it
\* whenever its stream is not open.
RecordInv ==
    /\ \A i \in Candidates : i # cand => attempt[i] \in Final
    /\ pc \in Before \cup {"choose", "ended"} => attempt[cand] \in Final
    /\ pc \in {"settle", "terminal", "drained"} =>
         attempt[cand] \in {"succeeded", "uncertain"} /\ finish # "none"
    /\ http \in {"terminal", "done"} =>
         /\ pc \in {"drained", "ended", "dead"} /\ request \in Terminal /\ finish # "none"
         /\ attempt[cand] \in {"succeeded", "uncertain"}

\* Only the current configuration has been shown, and then the generator knows it.
ShownInv ==
    /\ shown \subseteq {cand} /\ (~exposed => shown = {})
    /\ pc = "yield" => exposed

\* After a late chunk nobody is past a check that the change of authority would stop.
LateInv ==
    /\ lateShown <= 1
    /\ lateShown = 1 => /\ ~(keyLive /\ enabled) /\ pc # "yield"
                        /\ pc = "check_policy" => ~enabled

\* One provider call for each configuration.
SendInv ==
    /\ sends <= cand
    /\ pc \in Unsent => sends < cand
    /\ pc \in Streaming => sends > 0

IndInv == TypeOK /\ RequestInv /\ RecordInv /\ ShownInv /\ LateInv /\ SendInv

\* The truth values among the variables.
Flags ==
    /\ enabled \in BOOLEAN /\ pinned \in BOOLEAN /\ keyLive \in BOOLEAN /\ late \in BOOLEAN
    /\ exposed \in BOOLEAN /\ interrupted \in BOOLEAN /\ escaped \in BOOLEAN /\ crashed \in BOOLEAN
-----------------------------------------------------------------------------
(* The steps *)

\* Configurations are numbered up to the last.
LEMMA LastFacts ==
    /\ Last \in 1 .. 3 /\ Candidates = 1 .. Last
    /\ \A i \in Candidates : i \in 1 .. 3 /\ (i # Last => i + 1 \in Candidates)
  <1>1. PICK n \in 1 .. 3 : Candidates = 1 .. n
    BY CandidatesAssumption
  <1>2. Cardinality(1 .. n) = IF 1 > n THEN 0 ELSE n - 1 + 1
    BY FS_Interval
  <1>3. Last = n
    BY <1>1, <1>2 DEF Last
  <1> QED BY <1>1, <1>3

\* Truth values stay truth values.
LEMMA FlagStep == IndInv /\ [Next]_vars => Flags'
  <1> SUFFICES ASSUME IndInv, [Next]_vars PROVE Flags'
    OBVIOUS
  <1> USE DEF IndInv, TypeOK, Flags, authority, locals, history, Goto
  <1>1. CASE Disable \/ Repin \/ Revoke \/ DeadlinePasses
    BY <1>1 DEF Disable, Repin, Revoke, DeadlinePasses
  <1>2. CASE Prepare \/ Advance \/ ReadCandidates
    BY <1>2 DEF Prepare, Advance, ReadCandidates
  <1>3. CASE CheckKey \/ Acquire \/ Start \/ Recheck \/ Dispatch
    <2>1. CASE CheckKey \/ Acquire
      BY <2>1 DEF CheckKey, Fail, Acquire
    <2>2. CASE Start \/ Recheck \/ Dispatch
      BY <2>2 DEF Start, Fail, Recheck, Dispatch
    <2> QED BY <1>3, <2>1, <2>2
  <1>4. CASE Receive \/ EventKey
    BY <1>4 DEF Receive, Fail, Interrupt, EventKey
  <1>5. CASE HandleEvent
    BY <1>5 DEF HandleEvent, Fail, IsDelta, Finished
  <1>6. CASE TakeChunk \/ Account \/ Settle \/ AnswerRefused \/ TakeTerminal \/ SendDone
    BY <1>6 DEF TakeChunk, Interrupt, Account, Fail, HasFinish, Settle, AnswerRefused,
       TakeTerminal, SendDone
  <1>7. CASE FinishBroken \/ GiveUp
    BY <1>7 DEF FinishBroken, GiveUp, MustStop
  <1>8. CASE Fallback
    BY <1>8 DEF Fallback, MustStop
  <1>9. CASE Crash
    BY <1>9 DEF Crash
  <1>10. CASE UNCHANGED vars
    BY <1>10 DEF vars
  <1> QED BY <1>1, <1>2, <1>3, <1>4, <1>5, <1>6, <1>7, <1>8, <1>9, <1>10 DEF Next, Serve

\* Every step keeps the types.
LEMMA TypeStep == IndInv /\ [Next]_vars => TypeOK'
  <1> SUFFICES ASSUME IndInv, [Next]_vars PROVE TypeOK'
    OBVIOUS
  <1> USE DEF IndInv, TypeOK, Events, Observations, Steps, Kinds, authority, locals, history, Goto
  <1>0. Flags'
    BY FlagStep
  <1> USE <1>0 DEF Flags
  <1>1. CASE Disable \/ Repin \/ Revoke \/ DeadlinePasses
    BY <1>1 DEF Disable, Repin, Revoke, DeadlinePasses
  <1>2. CASE Prepare
    BY <1>2 DEF Prepare
  <1>3. CASE Advance
    BY <1>3 DEF Advance
  <1>4. CASE ReadCandidates
    BY <1>4 DEF ReadCandidates
  <1>5. CASE CheckKey \/ Acquire
    BY <1>5 DEF CheckKey, Fail, Acquire
  <1>6. CASE Start
    BY <1>6 DEF Start, Fail
  <1>7. CASE Recheck
    BY <1>7 DEF Recheck, Fail
  <1>8. CASE Dispatch
    <2>1. sends' \in 0 .. 3
      BY <1>8, LastFacts DEF Dispatch, SendInv, Unsent
    <2> QED BY <1>8, <2>1 DEF Dispatch
  <1>9. CASE Receive
    BY <1>9 DEF Receive, Fail, Interrupt
  <1>10. CASE EventKey
    BY <1>10 DEF EventKey, Fail
  <1>11. CASE HandleEvent
    BY <1>11 DEF HandleEvent, Fail, IsDelta, Finished
  <1>12. CASE TakeChunk
    BY <1>12 DEF TakeChunk, Interrupt
  <1>13. CASE Account
    BY <1>13 DEF Account, Fail, HasFinish
  <1>14. CASE Settle \/ AnswerRefused
    <2>1. request' \in {"none", "queued", "running", "succeeded", "uncertain"}
      BY <1>14 DEF Settle, RecordInv, AnswerRefused
    <2> QED BY <1>14, <2>1 DEF Settle, AnswerRefused, Fail
  <1>15. CASE TakeTerminal \/ SendDone
    BY <1>15 DEF TakeTerminal, Interrupt, SendDone
  <1>16. CASE FinishBroken
    BY <1>16 DEF FinishBroken
  <1>17. CASE GiveUp
    BY <1>17 DEF GiveUp, MustStop
  <1>18. CASE Fallback
    <2>1. cand' \in Candidates
      BY <1>18, LastFacts DEF Fallback, MustStop
    <2> QED BY <1>18, <2>1 DEF Fallback
  <1>19. CASE Crash
    BY <1>19 DEF Crash
  <1>20. CASE UNCHANGED vars
    BY <1>20 DEF vars
  <1> QED BY <1>1, <1>2, <1>3, <1>4, <1>5, <1>6, <1>7, <1>8, <1>9, <1>10, <1>11, <1>12, <1>13,
    <1>14, <1>15, <1>16, <1>17, <1>18, <1>19, <1>20 DEF Next, Serve

\* The request is begun before the loop and settled after it.
LEMMA RequestStep == IndInv /\ [Next]_vars => RequestInv'
  <1> SUFFICES ASSUME IndInv, [Next]_vars PROVE RequestInv'
    OBVIOUS
  <1> USE DEF IndInv, TypeOK, RequestInv, RecordInv, ShownInv, Before, Unsent, Streaming, Final,
          Terminal, authority, locals, history, Goto
  <1>1. CASE Disable \/ Repin \/ Revoke \/ DeadlinePasses
    BY <1>1 DEF Disable, Repin, Revoke, DeadlinePasses
  <1>2. CASE Prepare
    BY <1>2 DEF Prepare
  <1>3. CASE Advance
    BY <1>3 DEF Advance
  <1>4. CASE ReadCandidates
    BY <1>4 DEF ReadCandidates
  <1>5. CASE CheckKey \/ Acquire
    BY <1>5 DEF CheckKey, Fail, Acquire
  <1>6. CASE Start
    BY <1>6 DEF Start, Fail
  <1>7. CASE Recheck
    BY <1>7 DEF Recheck, Fail
  <1>8. CASE Dispatch
    BY <1>8 DEF Dispatch
  <1>9. CASE Receive
    BY <1>9 DEF Receive, Fail, Interrupt
  <1>10. CASE EventKey
    BY <1>10 DEF EventKey, Fail
  <1>11. CASE HandleEvent
    BY <1>11 DEF HandleEvent, Fail, IsDelta, Finished
  <1>12. CASE TakeChunk
    BY <1>12 DEF TakeChunk, Interrupt
  <1>13. CASE Account
    BY <1>13 DEF Account, Fail, HasFinish
  <1>14. CASE Settle \/ AnswerRefused
    BY <1>14 DEF Settle, AnswerRefused, Fail
  <1>15. CASE TakeTerminal \/ SendDone
    BY <1>15 DEF TakeTerminal, Interrupt, SendDone
  <1>16. CASE FinishBroken
    BY <1>16 DEF FinishBroken
  <1>17. CASE GiveUp
    BY <1>17 DEF GiveUp, MustStop
  <1>18. CASE Fallback
    BY <1>18 DEF Fallback, MustStop
  <1>19. CASE Crash
    BY <1>19 DEF Crash
  <1>20. CASE UNCHANGED vars
    BY <1>20 DEF vars
  <1> QED BY <1>1, <1>2, <1>3, <1>4, <1>5, <1>6, <1>7, <1>8, <1>9, <1>10, <1>11, <1>12, <1>13,
    <1>14, <1>15, <1>16, <1>17, <1>18, <1>19, <1>20 DEF Next, Serve

\* A configuration is left only with its final record.
LEMMA RecordStep == IndInv /\ [Next]_vars => RecordInv'
  <1> SUFFICES ASSUME IndInv, [Next]_vars PROVE RecordInv'
    OBVIOUS
  <1> USE DEF IndInv, TypeOK, RequestInv, RecordInv, Before, Unsent, Streaming, Final, Terminal,
          authority, locals, history, Goto
  <1>1. CASE Disable \/ Repin \/ Revoke \/ DeadlinePasses
    BY <1>1 DEF Disable, Repin, Revoke, DeadlinePasses
  <1>2. CASE Prepare
    BY <1>2 DEF Prepare
  <1>3. CASE Advance
    BY <1>3 DEF Advance
  <1>4. CASE ReadCandidates
    BY <1>4 DEF ReadCandidates
  <1>5. CASE CheckKey \/ Acquire
    BY <1>5 DEF CheckKey, Fail, Acquire
  <1>6. CASE Start
    BY <1>6 DEF Start, Fail
  <1>7. CASE Recheck
    BY <1>7 DEF Recheck, Fail
  <1>8. CASE Dispatch
    BY <1>8 DEF Dispatch
  <1>9. CASE Receive
    BY <1>9 DEF Receive, Fail, Interrupt
  <1>10. CASE EventKey
    BY <1>10 DEF EventKey, Fail
  <1>11. CASE HandleEvent
    BY <1>11 DEF HandleEvent, Fail, IsDelta, Finished
  <1>12. CASE TakeChunk
    BY <1>12 DEF TakeChunk, Interrupt
  <1>13. CASE Account
    BY <1>13 DEF Account, Fail, HasFinish
  <1>14. CASE Settle \/ AnswerRefused
    BY <1>14 DEF Settle, AnswerRefused, Fail
  <1>15. CASE TakeTerminal \/ SendDone
    BY <1>15 DEF TakeTerminal, Interrupt, SendDone
  <1>16. CASE FinishBroken
    BY <1>16 DEF FinishBroken
  <1>17. CASE GiveUp
    BY <1>17 DEF GiveUp, MustStop
  <1>18. CASE Fallback
    BY <1>18, LastFacts DEF Fallback, MustStop
  <1>19. CASE Crash
    BY <1>19 DEF Crash
  <1>20. CASE UNCHANGED vars
    BY <1>20 DEF vars
  <1> QED BY <1>1, <1>2, <1>3, <1>4, <1>5, <1>6, <1>7, <1>8, <1>9, <1>10, <1>11, <1>12, <1>13,
    <1>14, <1>15, <1>16, <1>17, <1>18, <1>19, <1>20 DEF Next, Serve

\* A configuration that has been shown is not left.
LEMMA ShownStep == IndInv /\ [Next]_vars => ShownInv'
  <1> SUFFICES ASSUME IndInv, [Next]_vars PROVE ShownInv'
    OBVIOUS
  <1> USE DEF IndInv, TypeOK, ShownInv, authority, locals, history, Goto
  <1>1. CASE Disable \/ Repin \/ Revoke \/ DeadlinePasses
    BY <1>1 DEF Disable, Repin, Revoke, DeadlinePasses
  <1>2. CASE Prepare
    BY <1>2 DEF Prepare
  <1>3. CASE Advance
    BY <1>3 DEF Advance
  <1>4. CASE ReadCandidates
    BY <1>4 DEF ReadCandidates
  <1>5. CASE CheckKey \/ Acquire
    BY <1>5 DEF CheckKey, Fail, Acquire
  <1>6. CASE Start
    BY <1>6 DEF Start, Fail
  <1>7. CASE Recheck
    BY <1>7 DEF Recheck, Fail
  <1>8. CASE Dispatch
    BY <1>8 DEF Dispatch
  <1>9. CASE Receive
    BY <1>9 DEF Receive, Fail, Interrupt
  <1>10. CASE EventKey
    BY <1>10 DEF EventKey, Fail
  <1>11. CASE HandleEvent
    BY <1>11 DEF HandleEvent, Fail, IsDelta, Finished
  <1>12. CASE TakeChunk
    BY <1>12 DEF TakeChunk, Interrupt
  <1>13. CASE Account
    BY <1>13 DEF Account, Fail, HasFinish
  <1>14. CASE Settle \/ AnswerRefused
    BY <1>14 DEF Settle, AnswerRefused, Fail
  <1>15. CASE TakeTerminal \/ SendDone
    BY <1>15 DEF TakeTerminal, Interrupt, SendDone
  <1>16. CASE FinishBroken
    BY <1>16 DEF FinishBroken
  <1>17. CASE GiveUp
    BY <1>17 DEF GiveUp, MustStop
  <1>18. CASE Fallback
    BY <1>18 DEF Fallback, MustStop
  <1>19. CASE Crash
    BY <1>19 DEF Crash
  <1>20. CASE UNCHANGED vars
    BY <1>20 DEF vars
  <1> QED BY <1>1, <1>2, <1>3, <1>4, <1>5, <1>6, <1>7, <1>8, <1>9, <1>10, <1>11, <1>12, <1>13,
    <1>14, <1>15, <1>16, <1>17, <1>18, <1>19, <1>20 DEF Next, Serve

\* A late chunk is the last one: authority never comes back.
LEMMA LateStep == IndInv /\ [Next]_vars => LateInv'
  <1> SUFFICES ASSUME IndInv, [Next]_vars PROVE LateInv'
    OBVIOUS
  <1> USE DEF IndInv, TypeOK, LateInv, authority, locals, history, Goto
  <1>1. CASE Disable \/ Repin \/ Revoke \/ DeadlinePasses
    BY <1>1 DEF Disable, Repin, Revoke, DeadlinePasses
  <1>2. CASE Prepare
    BY <1>2 DEF Prepare
  <1>3. CASE Advance
    BY <1>3 DEF Advance
  <1>4. CASE ReadCandidates
    BY <1>4 DEF ReadCandidates
  <1>5. CASE CheckKey \/ Acquire
    BY <1>5 DEF CheckKey, Fail, Acquire
  <1>6. CASE Start
    BY <1>6 DEF Start, Fail
  <1>7. CASE Recheck
    BY <1>7 DEF Recheck, Fail
  <1>8. CASE Dispatch
    BY <1>8 DEF Dispatch
  <1>9. CASE Receive
    BY <1>9 DEF Receive, Fail, Interrupt
  <1>10. CASE EventKey
    BY <1>10 DEF EventKey, Fail
  <1>11. CASE HandleEvent
    BY <1>11 DEF HandleEvent, Fail, IsDelta, Finished
  <1>12. CASE TakeChunk
    BY <1>12 DEF TakeChunk, Interrupt
  <1>13. CASE Account
    BY <1>13 DEF Account, Fail, HasFinish
  <1>14. CASE Settle \/ AnswerRefused
    BY <1>14 DEF Settle, AnswerRefused, Fail
  <1>15. CASE TakeTerminal \/ SendDone
    BY <1>15 DEF TakeTerminal, Interrupt, SendDone
  <1>16. CASE FinishBroken
    BY <1>16 DEF FinishBroken
  <1>17. CASE GiveUp
    BY <1>17 DEF GiveUp, MustStop
  <1>18. CASE Fallback
    BY <1>18 DEF Fallback, MustStop
  <1>19. CASE Crash
    BY <1>19 DEF Crash
  <1>20. CASE UNCHANGED vars
    BY <1>20 DEF vars
  <1> QED BY <1>1, <1>2, <1>3, <1>4, <1>5, <1>6, <1>7, <1>8, <1>9, <1>10, <1>11, <1>12, <1>13,
    <1>14, <1>15, <1>16, <1>17, <1>18, <1>19, <1>20 DEF Next, Serve

\* Dispatch is the only provider call of its configuration.
LEMMA SendStep == IndInv /\ [Next]_vars => SendInv'
  <1> SUFFICES ASSUME IndInv, [Next]_vars PROVE SendInv'
    OBVIOUS
  <1> USE DEF IndInv, TypeOK, SendInv, Before, Unsent, Streaming, Final, Terminal, authority,
          locals, history, Goto
  <1>1. CASE Disable \/ Repin \/ Revoke \/ DeadlinePasses
    BY <1>1, LastFacts DEF Disable, Repin, Revoke, DeadlinePasses
  <1>2. CASE Prepare
    BY <1>2, LastFacts DEF Prepare
  <1>3. CASE Advance
    BY <1>3, LastFacts DEF Advance
  <1>4. CASE ReadCandidates
    BY <1>4, LastFacts DEF ReadCandidates
  <1>5. CASE CheckKey \/ Acquire
    BY <1>5, LastFacts DEF CheckKey, Fail, Acquire
  <1>6. CASE Start
    BY <1>6, LastFacts DEF Start, Fail
  <1>7. CASE Recheck
    BY <1>7, LastFacts DEF Recheck, Fail
  <1>8. CASE Dispatch
    BY <1>8, LastFacts DEF Dispatch
  <1>9. CASE Receive
    BY <1>9, LastFacts DEF Receive, Fail, Interrupt
  <1>10. CASE EventKey
    BY <1>10, LastFacts DEF EventKey, Fail
  <1>11. CASE HandleEvent
    BY <1>11, LastFacts DEF HandleEvent, Fail, IsDelta, Finished
  <1>12. CASE TakeChunk
    BY <1>12, LastFacts DEF TakeChunk, Interrupt
  <1>13. CASE Account
    BY <1>13, LastFacts DEF Account, Fail, HasFinish
  <1>14. CASE Settle \/ AnswerRefused
    BY <1>14, LastFacts DEF Settle, AnswerRefused, Fail
  <1>15. CASE TakeTerminal \/ SendDone
    BY <1>15, LastFacts DEF TakeTerminal, Interrupt, SendDone
  <1>16. CASE FinishBroken
    BY <1>16, LastFacts DEF FinishBroken
  <1>17. CASE GiveUp
    BY <1>17, LastFacts DEF GiveUp, MustStop
  <1>18. CASE Fallback
    BY <1>18, LastFacts DEF Fallback, MustStop
  <1>19. CASE Crash
    BY <1>19, LastFacts DEF Crash
  <1>20. CASE UNCHANGED vars
    BY <1>20 DEF vars
  <1> QED BY <1>1, <1>2, <1>3, <1>4, <1>5, <1>6, <1>7, <1>8, <1>9, <1>10, <1>11, <1>12, <1>13,
    <1>14, <1>15, <1>16, <1>17, <1>18, <1>19, <1>20 DEF Next, Serve

\* Prepare, Advance, Dispatch, Settle and GiveUp are the lifecycle's steps.
LEMMA LifecycleStep == IndInv /\ [Next]_vars => [Lifecycle!Next]_<<request, sends>>
  <1> SUFFICES ASSUME IndInv, [Next]_vars PROVE [Lifecycle!Next]_<<request, sends>>
    OBVIOUS
  <1> USE DEF IndInv, TypeOK, RequestInv, Lifecycle!Next, Lifecycle!Register, Lifecycle!Begin,
          authority, locals, history, Goto
  <1>1. CASE Disable \/ Repin \/ Revoke \/ DeadlinePasses
    BY <1>1 DEF Disable, Repin, Revoke, DeadlinePasses
  <1>2. CASE Prepare
    BY <1>2 DEF Prepare
  <1>3. CASE Advance
    BY <1>3 DEF Advance
  <1>4. CASE ReadCandidates \/ CheckKey \/ Acquire \/ Start \/ Recheck
    BY <1>4 DEF ReadCandidates, CheckKey, Fail, Acquire, Start, Recheck
  <1>5. CASE Dispatch
    <2>1. request = "running" /\ sends < 3
      BY <1>5, LastFacts DEF Dispatch, RequestInv, SendInv, Unsent
    <2> QED BY <1>5, <2>1 DEF Dispatch, Lifecycle!Send
  <1>6. CASE Receive \/ EventKey \/ HandleEvent \/ TakeChunk \/ Account
    BY <1>6 DEF Receive, Fail, Interrupt, EventKey, HandleEvent, IsDelta, Finished, TakeChunk,
        Account, HasFinish
  <1>7. CASE Settle
    <2>1. request = "running" /\ request' \in {"succeeded", "uncertain"} /\ sends > 0
      BY <1>7 DEF Settle, RequestInv, RecordInv, SendInv, Streaming
    <2> QED BY <1>7, <2>1 DEF Settle, Lifecycle!Settle
  <1>8. CASE AnswerRefused \/ TakeTerminal \/ SendDone \/ FinishBroken
    BY <1>8 DEF AnswerRefused, Fail, TakeTerminal, Interrupt, SendDone, FinishBroken
  <1>9. CASE GiveUp
    BY <1>9 DEF GiveUp, Lifecycle!Settle
  <1>10. CASE Fallback \/ Crash
    BY <1>10 DEF Fallback, MustStop, Crash
  <1>11. CASE UNCHANGED vars
    BY <1>11 DEF vars
  <1> QED BY <1>1, <1>2, <1>3, <1>4, <1>5, <1>6, <1>7, <1>8, <1>9, <1>10, <1>11 DEF Next, Serve

-----------------------------------------------------------------------------
(* The theorems *)

\* Before the call is prepared there is neither a row nor an attempt.
LEMMA IndInit == Init => IndInv
  <1> SUFFICES ASSUME Init PROVE IndInv
    OBVIOUS
  <1> USE DEF Init
  <1>1. Flags
    BY DEF Flags
  <1>2. 1 \in Candidates
    BY LastFacts
  <1>3. TypeOK
    BY <1>1, <1>2 DEF Flags, TypeOK, Steps, Events, Observations, Kinds
  <1>4. RequestInv /\ RecordInv /\ ShownInv /\ LateInv /\ SendInv
    BY <1>2 DEF RequestInv, RecordInv, ShownInv, LateInv, SendInv, Before, Unsent, Streaming,
       Final, Terminal
  <1> QED BY <1>3, <1>4 DEF IndInv

\* Every state of the stream satisfies the inductive invariant.
THEOREM Inductive == Spec => []IndInv
  <1>1. IndInv /\ [Next]_vars => IndInv'
    BY TypeStep, RequestStep, RecordStep, ShownStep, LateStep, SendStep DEF IndInv
  <1> QED BY <1>1, IndInit, PTL DEF Spec

\* However a stream goes: one model per answer, [DONE] only on an accounted answer, every
\* attempt recorded at the end, at most one chunk after a change of authority, and a request
\* left open only by a crash or by a way out before the first chunk.
THEOREM SafeStreams == Spec => []StreamSafety
  <1>1. IndInv => OneModelPerAnswer
    <2> SUFFICES ASSUME IndInv PROVE Cardinality(shown) <= 1
      BY DEF OneModelPerAnswer
    <2>1. shown \in SUBSET {cand}
      BY DEF IndInv, ShownInv
    <2>2. IsFiniteSet({cand}) /\ Cardinality({cand}) = 1
      BY FS_Singleton
    <2>3. Cardinality(shown) <= Cardinality({cand})
      BY <2>1, <2>2, FS_Subset
    <2> QED BY <2>2, <2>3
  <1>2. IndInv => DoneIsAccounted
    BY DEF IndInv, RecordInv, ShownInv, DoneIsAccounted, Final
  <1>3. IndInv => AccountedAtEnd
    BY DEF IndInv, RecordInv, AccountedAtEnd, Final
  <1>4. IndInv => AtMostOneLateChunk
    BY DEF IndInv, LateInv, AtMostOneLateChunk
  <1>5. IndInv => OpenOnlyByEscape
    BY DEF IndInv, RequestInv, OpenOnlyByEscape, Over
  <1>6. IndInv => StreamSafety
    BY <1>1, <1>2, <1>3, <1>4, <1>5 DEF IndInv, StreamSafety
  <1> QED BY <1>6, Inductive, PTL

\* The stream implements the lifecycle of a request: registered once, begun once, sent at
\* most three times while running, settled at most once.
THEOREM RefinesLifecycle == Spec => ImplementsLifecycle
  <1>1. Init => Lifecycle!Init
    BY DEF Init, Lifecycle!Init
  <1> QED BY <1>1, Inductive, LifecycleStep, PTL
      DEF Spec, ImplementsLifecycle, Lifecycle!Spec

-----------------------------------------------------------------------------
(* The records of a run *)

\* Who is writing: the steps of _save, where it returns to, and the cancellation under way.
Saves == {"save", "append", "events", "event"}
Place(a) == IF step[a] \in Saves THEN after[a] ELSE step[a]
Cancelling == {c \in Cancellers : step[c] \in Saves}
Unread == {"save", "append"}

\* Attempts and events of so many stages.
Tries(n) == n * MaxAttempts
Notes(n) == n * (2 + MaxAttempts)

RecordTypes ==
    /\ state \in Records!Status /\ runs \in Seq(Records!Run) /\ runs # << >> /\ events \in Seq(Records!Event)
    /\ outcome \in Records!Ends \cup {"none"}
    /\ step \in [Records!Actors -> Records!Steps] /\ copy \in [Records!Actors -> Records!Run]
    /\ after \in [Records!Actors -> Records!Steps]
    /\ version \in [Records!Actors -> Nat] /\ count \in [Records!Actors -> Nat]
    /\ stages \in 0 .. RunStages /\ tried \in Nat
    /\ attempts \in 0 .. Tries(RunStages) /\ raised \in BOOLEAN

\* One cancellation at most is ever written, for a request that is cancelled already.
CancelInv ==
    /\ \A c \in Cancellers : after[c] = "over" /\ step[c] \in {"idle", "read", "over"} \cup Saves
    /\ \A c \in Cancelling : state = "cancelled" /\ copy[c].status = "cancelled"
    /\ \A c, d \in Cancelling : c = d

\* The worker's copy, once it is final, agrees with the request, and so does the outcome.
WorkerInv ==
    /\ Place("worker") \notin {"idle", "read"} \cup Saves
    /\ step["worker"] \in Saves => after["worker"] \in {"begin", "loop", "stage", "outcome"}
    /\ Place("worker") \notin {"start", "begin", "escape", "over", "dead"} => state # "queued"
    /\ step["worker"] \in {"error_event", "final", "advance"} => copy["worker"].status \notin Records!Open
    /\ Place("worker") = "outcome" => state = copy["worker"].status /\ state \notin Records!Open
    /\ outcome # "none" => state = outcome

\* A stage is under way only while one is left, and has at most MaxAttempts attempts.
WaveInv ==
    /\ Place("worker") \in {"start", "begin"} => stages = 0
    /\ Place("worker") \in {"stage", "usage", "usage_event"} => stages < RunStages
    /\ step["worker"] = "usage_event" => tried > 0
    /\ step["worker"] \in {"usage", "usage_event"} =>
         tried <= MaxAttempts /\ attempts <= Tries(stages) + MaxAttempts
    /\ Place("worker") \in {"start", "begin", "loop", "stage"} => attempts <= Tries(stages)

\* Events the worker has written at most when it gets somewhere; and the cancellation's.
Limit(place, n, due) ==
    CASE place = "start" -> 0
      [] place = "begin" -> 1
      [] place = "loop" -> 2 + Notes(n)
      [] place = "stage" -> 3 + Notes(n)
      [] place \in {"usage", "usage_event"} -> 3 + Notes(n) + MaxAttempts - due
      [] place \in {"error", "error_event"} -> 2 + Notes(RunStages)
      [] place \in {"final", "advance"} -> 3 + Notes(RunStages)
      [] OTHER -> 4 + Notes(RunStages)
Saving == IF step["worker"] \in Saves THEN 1 ELSE 0
Credit == IF state = "cancelled" /\ Cancelling = {} THEN 1 ELSE 0
EventInv == Len(events) + Saving <= Limit(Place("worker"), stages, tried) + Credit

\* Records that appear while the worker is about to append are the cancellation's; once it
\* has appended its last one, the newest record shows the state of the request.
NewestInv ==
    /\ step["worker"] = "append" =>
         \A i \in DOMAIN runs : i > version["worker"] => runs[i].status = "cancelled" /\ state = "cancelled"
    /\ \/ Place("worker") = "outcome" /\ step["worker"] \notin Unread
       \/ step["worker"] = "finish"
       \/ step["worker"] = "over" /\ ~raised
       => runs[Len(runs)].status = state /\ state \notin Records!Open

RunInv == RecordTypes /\ CancelInv /\ WorkerInv /\ WaveInv /\ EventInv /\ NewestInv

-----------------------------------------------------------------------------
\* The limits grow with the stages.
LEMMA NotesGrow ==
    /\ \A n \in Nat : /\ Notes(n) \in Nat /\ Notes(n + 1) = Notes(n) + 2 + MaxAttempts
                      /\ Tries(n) \in Nat /\ Tries(n + 1) = Tries(n) + MaxAttempts
    /\ \A m, n \in Nat : m <= n => Notes(m) <= Notes(n) /\ Tries(m) <= Tries(n)
    /\ Notes(0) = 0 /\ Tries(0) = 0
  <1>1. MaxAttempts \in Nat
    BY RunsAssumption
  <1>2. \A m, n, k \in Nat : m <= n => m * k <= n * k
    OBVIOUS
  <1>3. \A n, k \in Nat : n * k \in Nat /\ (n + 1) * k = n * k + k
    OBVIOUS
  <1> QED BY <1>1, <1>2, <1>3 DEF Notes, Tries

\* An inserted event comes last.
LEMMA Inserted ==
    ASSUME RecordTypes, NEW a \in Records!Actors, NEW label \in Records!Event,
           Records!IsNext(a), Records!Insert(a, label)
    PROVE  /\ events' \in Seq(Records!Event) /\ Len(events') = Len(events) + 1
           /\ SubSeq(events', 1, Len(events)) = events
  <1>1. events' = SubSeq(events, 1, Len(events)) \o <<label>>
    BY DEF Records!IsNext, Records!Insert
  <1>2. events \in Seq(Records!Event)
    BY DEF RecordTypes
  <1>3. SubSeq(events, 1, Len(events)) = events
    BY <1>2
  <1>4. events' = Append(events, label)
    BY <1>1, <1>2, <1>3, AppendIsConcat
  <1>5. /\ events' \in Seq(Records!Event) /\ Len(events') = Len(events) + 1
    BY <1>2, <1>4
  <1>6. SubSeq(events', 1, Len(events)) = events
    BY <1>2, <1>4, <1>5
  <1> QED BY <1>5, <1>6

\* An appended record comes last.
LEMMA Appended ==
    ASSUME RecordTypes, NEW run \in Records!Run, runs' = Append(runs, run)
    PROVE  /\ runs' \in Seq(Records!Run) /\ runs' # << >> /\ Len(runs') = Len(runs) + 1
           /\ runs'[Len(runs')] = run /\ SubSeq(runs', 1, Len(runs)) = runs
           /\ \A i \in DOMAIN runs : runs'[i] = runs[i]
  <1>1. runs \in Seq(Records!Run)
    BY DEF RecordTypes
  <1>2. /\ runs' \in Seq(Records!Run) /\ Len(runs') = Len(runs) + 1
        /\ runs'[Len(runs')] = run /\ \A i \in DOMAIN runs : runs'[i] = runs[i]
    BY <1>1
  <1>3. SubSeq(runs', 1, Len(runs)) = runs
    BY <1>1
  <1> QED BY <1>2, <1>3

\* The worker and those who cancel.
LEMMA RunActors ==
    /\ Records!Actors = {"worker"} \cup Cancellers /\ Records!Worker = "worker"
    /\ "worker" \in Records!Actors /\ "worker" \notin Cancellers
  BY RunsAssumption DEF Records!Actors, Records!Worker

-----------------------------------------------------------------------------
(* Types *)

\* The statuses that the worker's copy of the run takes.
LEMMA CopyTypes ==
    ASSUME NEW r \in Records!Run
    PROVE  /\ \A s \in Records!Status : [r EXCEPT !.status = s] \in Records!Run
           /\ [r EXCEPT !.attempts = @ + 1] \in Records!Run
           /\ [r EXCEPT !.outputs = @ + 1] \in Records!Run
           /\ \A n \in Nat : [r EXCEPT !.attempts = n] \in Records!Run
  BY DEF Records!Run

\* The four steps of _save keep the types.
LEMMA SavingTypes ==
    ASSUME RecordTypes, NEW a \in Records!Actors, Records!Saving(a)
    PROVE  RecordTypes'
  <1> USE RunActors DEF RecordTypes
  <1> USE DEF Records!Steps
  <1>1. CASE Records!ReadLatest(a)
    BY <1>1 DEF Records!ReadLatest, Records!Goto
  <1>2. CASE Records!AppendRun(a)
    <2>1. runs' \in Seq(Records!Run) /\ runs' # << >>
      <3>1. CASE runs' = runs
        BY <3>1
      <3>2. CASE runs' = Append(runs, copy[a])
        <4>1. copy[a] \in Records!Run
          OBVIOUS
        <4> QED BY <3>2, <4>1, Appended
      <3> QED BY <1>2, <3>1, <3>2 DEF Records!AppendRun
    <2>2. step' \in [Records!Actors -> Records!Steps]
      BY <1>2 DEF Records!AppendRun, Records!Goto, Records!Raise, Records!Handler
    <2> QED BY <1>2, <2>1, <2>2 DEF Records!AppendRun
  <1>3. CASE Records!CountEvents(a)
    <2>1. Records!Page \in Nat
      BY RunsAssumption DEF Records!Page
    <2> QED BY <1>3, <2>1 DEF Records!CountEvents, Records!Goto
  <1>4. CASE Records!AppendEvent(a)
    <2>1. events' \in Seq(Records!Event)
      <3>1. CASE events' = events
        BY <3>1
      <3>2. CASE Records!IsNext(a) /\ Records!Insert(a, "run")
        BY <3>2, Inserted DEF Records!Event
      <3> QED BY <1>4, <3>1, <3>2 DEF Records!AppendEvent
    <2>2. step' \in [Records!Actors -> Records!Steps]
      BY <1>4 DEF Records!AppendEvent, Records!Goto, Records!Raise, Records!Handler
    <2> QED BY <1>4, <2>1, <2>2 DEF Records!AppendEvent
  <1> QED BY <1>1, <1>2, <1>3, <1>4 DEF Records!Saving

\* Where an actor goes next, and what it saves, has the type of the variables.
LEMMA MoveTypes ==
    ASSUME RecordTypes, NEW a \in Records!Actors, NEW from, NEW to \in Records!Steps
    PROVE  /\ Records!Goto(a, from, to) => step' \in [Records!Actors -> Records!Steps]
           /\ \A r \in Records!Run, next \in Records!Steps : Records!Save(a, from, r, next) =>
                /\ step' \in [Records!Actors -> Records!Steps] /\ copy' \in [Records!Actors -> Records!Run]
                /\ after' \in [Records!Actors -> Records!Steps]
  <1>1. "save" \in Records!Steps
    BY DEF Records!Steps
  <1> QED BY <1>1 DEF RecordTypes, Records!Goto, Records!Save

\* The worker's steps keep the types.
LEMMA SubmitTypes ==
    ASSUME RecordTypes, WaveInv, Records!Submit, ~Records!Saving("worker")
    PROVE  RecordTypes'
  <1> DEFINE w == "worker"
  <1>1. /\ copy[w] \in Records!Run /\ Records!Queued \in Records!Run /\ w \in Records!Actors
        /\ copy[w].status \in Records!Status /\ Records!Worker = w
    BY RunActors DEF RecordTypes, Records!Queued, Records!Run, Records!Status, Records!Open
  <1>2. \A s \in Records!Status : Records!With(s) \in Records!Run
    BY <1>1, CopyTypes DEF Records!With
  <1>3. stages \in Nat /\ stages <= RunStages /\ RunStages \in Nat /\ MaxAttempts \in Nat
        /\ tried \in Nat /\ attempts \in Nat /\ attempts <= Tries(RunStages)
    BY RunsAssumption, NotesGrow DEF RecordTypes
  <1>4. \A to \in Records!Steps, from \in Records!Steps : Records!Goto(w, from, to) =>
            step' \in [Records!Actors -> Records!Steps]
    BY <1>1, MoveTypes
  <1>5. \A to \in Records!Steps, from \in Records!Steps, r \in Records!Run : Records!Save(w, from, r, to) =>
            /\ step' \in [Records!Actors -> Records!Steps] /\ copy' \in [Records!Actors -> Records!Run]
            /\ after' \in [Records!Actors -> Records!Steps]
    BY <1>1, MoveTypes
  <1>6. ASSUME NEW at \in Records!Steps, NEW from \in Records!Steps, Records!Raise(w, from, at)
        PROVE  step' \in [Records!Actors -> Records!Steps]
    <2>1. Records!Handler(w, at) \in Records!Steps
      BY DEF Records!Handler, Records!Steps
    <2> QED BY <1>1, <1>4, <1>6, <2>1 DEF Records!Raise
  <1>7. {"start", "begin", "loop", "stage", "usage", "usage_event", "error", "error_event", "final",
         "advance", "outcome", "finish", "escape", "save", "over"} \subseteq Records!Steps
    BY DEF Records!Steps
  <1>8. ASSUME NEW label \in Records!Event, Records!IsNext(w) /\ Records!Insert(w, label)
        PROVE  events' \in Seq(Records!Event)
    BY <1>1, <1>8, Inserted
  <1>9. {"usage", "error", "run"} \subseteq Records!Event
    BY DEF Records!Event
  <1>10. {"queued", "running", "succeeded", "failed", "uncertain", "cancelled", "awaiting_approval"}
            \subseteq Records!Status
    BY DEF Records!Status, Records!Open, Records!Ends
  <1>11. ASSUME NEW to \in Records!Steps, NEW from \in Records!Steps, Records!Goto(w, from, to)
         PROVE  step[w] = from
    BY <1>11 DEF Records!Goto
  <1>12. CASE Records!StartRun
    BY <1>1, <1>4, <1>5, <1>7, <1>12 DEF Records!StartRun, RecordTypes
  <1>13. CASE Records!Begin
    BY <1>1, <1>2, <1>4, <1>5, <1>7, <1>10, <1>13 DEF Records!Begin, RecordTypes
  <1>14. CASE Records!Frontier
    <2>1. [copy[w] EXCEPT !.attempts = @ + 1] \in Records!Run
      BY <1>1, CopyTypes
    <2>2. copy' \in [Records!Actors -> Records!Run] /\ after' \in [Records!Actors -> Records!Steps]
          /\ step' \in [Records!Actors -> Records!Steps]
      BY <1>1, <1>2, <1>4, <1>5, <1>7, <1>10, <1>14, <2>1 DEF Records!Frontier, RecordTypes
    <2> QED BY <1>14, <2>2 DEF Records!Frontier, RecordTypes
  <1>15. CASE Records!Stage
    <2>1. step[w] = "stage" /\ step' \in [Records!Actors -> Records!Steps]
      BY <1>1, <1>4, <1>7, <1>11, <1>15 DEF Records!Stage
    <2>2. stages < RunStages /\ attempts <= Tries(stages)
      BY <2>1 DEF WaveInv, Place, Saves
    <2>3. Tries(stages) + MaxAttempts <= Tries(RunStages) /\ Tries(stages) \in Nat
      <3>1. stages \in Nat /\ stages + 1 \in Nat /\ stages + 1 <= RunStages
        BY <1>3, <2>2
      <3> QED BY <1>3, <3>1, NotesGrow
    <2>4. tried' \in Nat /\ attempts' \in 0 .. Tries(RunStages)
      <3>1. PICK k \in 0 .. MaxAttempts : tried' = k /\ attempts' = attempts + k
        BY <1>15 DEF Records!Stage
      <3> QED BY <1>3, <2>2, <2>3, <3>1, NotesGrow
    <2> QED BY <1>15, <2>1, <2>4 DEF Records!Stage, RecordTypes
  <1>16. CASE Records!UsageEvent
    <2>1. step[w] = "usage_event" /\ tried > 0
      BY <1>1, <1>16 DEF Records!UsageEvent, Records!Goto, WaveInv, Records!Raise
    <2>2. events' \in Seq(Records!Event)
      BY <1>1, <1>8, <1>9, <1>16 DEF Records!UsageEvent, RecordTypes
    <2>3. step' \in [Records!Actors -> Records!Steps] /\ tried' \in Nat
      BY <1>1, <1>3, <1>4, <1>6, <1>7, <1>16, <2>1 DEF Records!UsageEvent
    <2> QED BY <1>16, <2>2, <2>3 DEF Records!UsageEvent, RecordTypes
  <1>17. CASE Records!Checkpoint
    <2>1. step[w] = "usage"
      BY <1>1, <1>17 DEF Records!Checkpoint, Records!Save, Records!Goto
    <2>2. stages < RunStages
      BY <2>1 DEF WaveInv, Place, Saves
    <2>3. [copy[w] EXCEPT !.outputs = @ + 1] \in Records!Run
      BY <1>1, CopyTypes
    <2>4. stages + 1 \in 0 .. RunStages
      BY <1>3, <2>2
    <2> QED BY <1>1, <1>4, <1>5, <1>7, <1>17, <2>3, <2>4 DEF Records!Checkpoint, RecordTypes
  <1>18. CASE Records!HandleError
    <2>1. Records!Page \in Nat
      BY RunsAssumption DEF Records!Page, RecordTypes
    <2>2. step' \in [Records!Actors -> Records!Steps]
      BY <1>1, <1>4, <1>7, <1>18 DEF Records!HandleError
    <2>3. copy' \in [Records!Actors -> Records!Run]
      BY <1>1, <1>2, <1>10, <1>18 DEF Records!HandleError, RecordTypes
    <2> QED BY <1>18, <2>1, <2>2, <2>3 DEF Records!HandleError, RecordTypes
  <1>19. CASE Records!ErrorEvent
    <2>1. events' \in Seq(Records!Event)
      BY <1>1, <1>8, <1>9, <1>19 DEF Records!ErrorEvent, RecordTypes
    <2>2. step' \in [Records!Actors -> Records!Steps]
      BY <1>1, <1>4, <1>6, <1>7, <1>19 DEF Records!ErrorEvent
    <2> QED BY <1>19, <2>1, <2>2 DEF Records!ErrorEvent, RecordTypes
  <1>20. CASE Records!Final \/ Records!Advance
    <2>1. [copy[w] EXCEPT !.attempts = attempts] \in Records!Run
      BY <1>1, <1>3, CopyTypes
    <2>2. [Records!With(state) EXCEPT !.attempts = attempts] \in Records!Run
      BY <1>2, <1>3, CopyTypes DEF RecordTypes
    <2>3. step' \in [Records!Actors -> Records!Steps] /\ copy' \in [Records!Actors -> Records!Run]
          /\ after' \in [Records!Actors -> Records!Steps]
      BY <1>1, <1>4, <1>5, <1>7, <1>20, <2>1, <2>2 DEF Records!Final, Records!Advance, RecordTypes
    <2> QED BY <1>1, <1>20, <2>3 DEF Records!Final, Records!Advance, RecordTypes
  <1>21. CASE Records!RecordOutcome
    BY <1>1, <1>4, <1>7, <1>21 DEF Records!RecordOutcome, RecordTypes
  <1>22. CASE Records!FinishRuntime
    BY <1>1, <1>4, <1>7, <1>10, <1>22 DEF Records!FinishRuntime, RecordTypes
  <1> QED BY <1>1, <1>12, <1>13, <1>14, <1>15, <1>16, <1>17, <1>18, <1>19, <1>20, <1>21, <1>22
          DEF Records!Submit

\* The steps of whoever cancels keep the types.
LEMMA CancelTypes ==
    ASSUME RecordTypes, NEW c \in Cancellers, Records!ReadRun(c) \/ Records!CancelRequest(c)
    PROVE  RecordTypes'
  <1>1. c \in Records!Actors /\ {"idle", "read", "over"} \subseteq Records!Steps
    BY RunActors DEF Records!Steps
  <1>2. CASE Records!ReadRun(c)
    <2>1. runs[Len(runs)] \in Records!Run
      BY DEF RecordTypes
    <2>2. step' \in [Records!Actors -> Records!Steps]
      BY <1>1, <1>2, MoveTypes DEF Records!ReadRun
    <2> QED BY <1>2, <2>1, <2>2 DEF Records!ReadRun, RecordTypes
  <1>3. CASE Records!CancelRequest(c)
    <2>1. copy[c] \in Records!Run /\ "cancelled" \in Records!Status
      BY <1>1 DEF RecordTypes, Records!Status, Records!Ends
    <2>2. [copy[c] EXCEPT !.status = "cancelled"] \in Records!Run
      BY <2>1, CopyTypes
    <2>3. step' \in [Records!Actors -> Records!Steps] /\ copy' \in [Records!Actors -> Records!Run]
          /\ after' \in [Records!Actors -> Records!Steps]
      BY <1>1, <1>3, <2>2, MoveTypes DEF Records!CancelRequest, RecordTypes
    <2> QED BY <1>3, <2>1, <2>3 DEF Records!CancelRequest, RecordTypes
  <1> QED BY <1>2, <1>3

\* Every step keeps the types.
LEMMA RecordTypesStep == RecordTypes /\ WaveInv /\ [Records!Next]_Records!vars => RecordTypes'
  <1> SUFFICES ASSUME RecordTypes, WaveInv, [Records!Next]_Records!vars PROVE RecordTypes'
    OBVIOUS
  <1>1. CASE Records!Submit
    <2>1. CASE Records!Saving("worker")
      BY <2>1, RunActors, SavingTypes
    <2>2. CASE ~Records!Saving("worker")
      BY <1>1, <2>2, SubmitTypes
    <2> QED BY <2>1, <2>2
  <1>2. ASSUME NEW c \in Cancellers, Records!Cancel(c) PROVE RecordTypes'
    <2>1. c \in Records!Actors
      BY RunActors
    <2> QED BY <1>2, <2>1, SavingTypes, CancelTypes DEF Records!Cancel
  <1>3. CASE Records!Crash
    BY <1>3, RunActors DEF Records!Crash, RecordTypes, Records!Steps
  <1>4. CASE Records!Sweep
    BY <1>4 DEF Records!Sweep, RecordTypes, Records!locals, Records!Status, Records!Ends
  <1>5. CASE UNCHANGED Records!vars
    BY <1>5 DEF Records!vars, Records!locals, RecordTypes
  <1> QED BY <1>1, <1>2, <1>3, <1>4, <1>5 DEF Records!Next

-----------------------------------------------------------------------------
(* The cancellation *)

\* The worker leaves those who cancel where they are.
LEMMA WorkerFrame ==
    ASSUME RecordTypes, Records!Submit \/ Records!Crash \/ Records!Sweep, NEW c \in Cancellers
    PROVE  step'[c] = step[c] /\ copy'[c] = copy[c] /\ after'[c] = after[c]
  <1>1. c \in Records!Actors /\ c # "worker" /\ Records!Worker = "worker" /\ "worker" \in Records!Actors
    BY RunActors
  <1> USE <1>1 DEF Records!Goto, Records!Save, Records!Raise, RecordTypes
  <1>2. CASE Records!Saving(Records!Worker)
    BY <1>2 DEF Records!Saving, Records!ReadLatest, Records!AppendRun, Records!CountEvents,
       Records!AppendEvent
  <1>3. CASE Records!StartRun \/ Records!Begin \/ Records!Frontier
    BY <1>3 DEF Records!StartRun, Records!Begin, Records!Frontier
  <1>4. CASE Records!Stage \/ Records!UsageEvent \/ Records!Checkpoint
    BY <1>4 DEF Records!Stage, Records!UsageEvent, Records!Checkpoint
  <1>5. CASE Records!HandleError \/ Records!ErrorEvent
    BY <1>5 DEF Records!HandleError, Records!ErrorEvent
  <1>6. CASE Records!Final \/ Records!Advance \/ Records!RecordOutcome \/ Records!FinishRuntime
    BY <1>6 DEF Records!Final, Records!Advance, Records!RecordOutcome, Records!FinishRuntime
  <1>7. CASE Records!Crash \/ Records!Sweep
    BY <1>7 DEF Records!Crash, Records!Sweep, Records!locals
  <1> QED BY <1>2, <1>3, <1>4, <1>5, <1>6, <1>7 DEF Records!Submit

\* The request of a cancelled run stays cancelled, and only a cancellation cancels an open one
\* or the worker that settles it.
LEMMA StateMoves ==
    ASSUME RecordTypes, Records!Submit \/ Records!Crash \/ Records!Sweep
    PROVE  state \notin Records!Open => state' = state
  BY RunActors DEF Records!Submit, Records!Saving, Records!ReadLatest, Records!AppendRun, Records!CountEvents,
     Records!AppendEvent, Records!StartRun, Records!Begin, Records!Frontier, Records!Stage,
     Records!UsageEvent, Records!Checkpoint, Records!HandleError, Records!ErrorEvent, Records!Final,
     Records!Advance, Records!RecordOutcome, Records!FinishRuntime, Records!Crash, Records!Sweep,
     Records!Open

\* What a cancelling caller does.
LEMMA CancelMoves ==
    ASSUME RecordTypes, CancelInv, NEW c \in Cancellers, Records!Cancel(c)
    PROVE  /\ step'["worker"] = step["worker"] /\ copy'["worker"] = copy["worker"]
           /\ after'["worker"] = after["worker"] /\ version'["worker"] = version["worker"]
           /\ UNCHANGED <<outcome, stages, tried, attempts, raised>>
           /\ \A d \in Cancellers \ {c} : step'[d] = step[d] /\ copy'[d] = copy[d] /\ after'[d] = after[d]
           /\ after'[c] = "over"
           /\ \/ /\ step[c] = "idle" /\ step'[c] = "read" /\ UNCHANGED <<state, runs, events>>
              \/ /\ step[c] = "read" /\ step'[c] = "over" /\ UNCHANGED <<state, runs, events>>
              \/ /\ step[c] = "read" /\ step'[c] = "save" /\ UNCHANGED <<runs, events>>
                 /\ state \in Records!Open /\ state' = "cancelled" /\ copy'[c].status = "cancelled"
              \/ /\ step[c] \in Saves /\ step'[c] \in Saves /\ UNCHANGED <<state, events>>
                 /\ copy'[c] = copy[c] /\ (runs' = runs \/ runs' = Append(runs, copy[c]))
              \/ /\ step[c] \in Saves /\ step'[c] = "over" /\ UNCHANGED <<state, runs>>
                 /\ copy'[c] = copy[c] /\ Len(events') <= Len(events) + 1
  <1>1. c \in Records!Actors /\ c # "worker" /\ Records!Worker = "worker" /\ "worker" \in Records!Actors
    BY RunActors
  <1>2. after[c] = "over" /\ copy[c] \in Records!Run /\ Cancellers \subseteq Records!Actors
    BY <1>1, RunActors DEF CancelInv, RecordTypes
  <1>3. step[c] \in {"idle", "read", "over"} \cup Saves
    BY DEF CancelInv
  <1> USE <1>1, <1>2, <1>3 DEF Records!Goto, Saves
  <1>4. CASE Records!ReadRun(c)
    BY <1>4 DEF Records!ReadRun, RecordTypes
  <1>5. CASE Records!CancelRequest(c)
    <2>1. [copy[c] EXCEPT !.status = "cancelled"].status = "cancelled"
      BY DEF Records!Run
    <2> QED BY <1>5, <2>1 DEF Records!CancelRequest, Records!Save, RecordTypes
  <1>6. CASE Records!ReadLatest(c)
    BY <1>6 DEF Records!ReadLatest, RecordTypes
  <1>7. CASE Records!AppendRun(c)
    BY <1>7 DEF Records!AppendRun, Records!Raise, Records!Handler, RecordTypes
  <1>8. CASE Records!CountEvents(c)
    BY <1>8 DEF Records!CountEvents, RecordTypes
  <1>9. CASE Records!AppendEvent(c)
    <2>1. Len(events) \in Nat /\ "run" \in Records!Event
      BY DEF RecordTypes, Records!Event
    <2>2. Records!IsNext(c) /\ Records!Insert(c, "run") => Len(events') = Len(events) + 1
      BY <2>1, Inserted
    <2> QED BY <1>9, <2>1, <2>2 DEF Records!AppendEvent, Records!Raise, Records!Handler, RecordTypes
  <1> QED BY <1>4, <1>5, <1>6, <1>7, <1>8, <1>9 DEF Records!Cancel, Records!Saving

\* At most one caller has cancelled, and it did so before it saves.
LEMMA CancelStep == RecordTypes /\ CancelInv /\ [Records!Next]_Records!vars => CancelInv'
  <1> SUFFICES ASSUME RecordTypes, CancelInv, [Records!Next]_Records!vars PROVE CancelInv'
    OBVIOUS
  <1>1. CASE Records!Submit \/ Records!Crash \/ Records!Sweep
    <2>1. \A c \in Cancellers : step'[c] = step[c] /\ copy'[c] = copy[c] /\ after'[c] = after[c]
      BY <1>1, WorkerFrame
    <2>2. state = "cancelled" => state' = "cancelled"
      BY <1>1, StateMoves DEF Records!Open
    <2> QED BY <2>1, <2>2 DEF CancelInv, Cancelling
  <1>2. ASSUME NEW c \in Cancellers, Records!Cancel(c) PROVE CancelInv'
    <2>1. \A d \in Cancellers \ {c} : step'[d] = step[d] /\ copy'[d] = copy[d] /\ after'[d] = after[d]
      BY <1>2, CancelMoves
    <2>2. after'[c] = "over" /\ step'[c] \in {"read", "over"} \cup Saves
      BY <1>2, CancelMoves DEF Saves
    <2>3. CASE /\ step[c] = "read" /\ step'[c] = "save"
               /\ state \in Records!Open /\ state' = "cancelled" /\ copy'[c].status = "cancelled"
      <3>1. Cancelling = {} /\ Cancelling' = {c}
        BY <2>1, <2>3 DEF CancelInv, Cancelling, Records!Open, Saves
      <3> QED BY <2>1, <2>2, <2>3, <3>1 DEF CancelInv
    <2>4. CASE state' = state /\ step[c] \in Saves /\ copy'[c] = copy[c]
      BY <2>1, <2>2, <2>4 DEF CancelInv, Cancelling
    <2>5. CASE state' = state /\ step'[c] \in {"read", "over"}
      BY <2>1, <2>2, <2>5 DEF CancelInv, Cancelling, Saves
    <2> QED BY <1>2, <2>3, <2>4, <2>5, CancelMoves
  <1>3. CASE UNCHANGED Records!vars
    BY <1>3 DEF Records!vars, Records!locals, CancelInv, Cancelling
  <1> QED BY <1>1, <1>2, <1>3 DEF Records!Next

-----------------------------------------------------------------------------
(* The worker *)

\* What the worker does within _save, or before it inserts a usage event.
LEMMA WorkerSaves ==
    ASSUME RecordTypes, WorkerInv, Records!Saving("worker")
    PROVE  /\ UNCHANGED <<state, outcome, copy, after, stages, tried, attempts, raised>>
           /\ \/ /\ step["worker"] = "save" /\ step'["worker"] = "append"
                 /\ version'["worker"] = Len(runs) /\ UNCHANGED <<runs, events>>
              \/ /\ step["worker"] = "append" /\ step'["worker"] = "events" /\ UNCHANGED events
                 /\ runs' = Append(runs, copy["worker"]) \/ (UNCHANGED runs /\ version["worker"] < Len(runs))
              \/ /\ step["worker"] \in {"append", "event"}
                 /\ step'["worker"] = IF after["worker"] \in {"loop", "stage"} THEN "error" ELSE "escape"
                 /\ UNCHANGED <<runs, events>>
              \/ /\ step["worker"] = "events" /\ step'["worker"] = "event" /\ UNCHANGED <<runs, events>>
              \/ /\ step["worker"] = "usage" /\ step'["worker"] = "usage_event" /\ tried > 0
                 /\ UNCHANGED <<runs, events>>
              \/ /\ step["worker"] = "event" /\ step'["worker"] = after["worker"] /\ UNCHANGED runs
                 /\ Len(events') = Len(events) + 1
  <1> DEFINE w == "worker"
  <1>1. Records!Worker = w /\ w \in Records!Actors
    BY RunActors
  <1>2. step[w] \in Saves => after[w] \in {"begin", "loop", "stage", "outcome"}
    BY DEF WorkerInv
  <1> USE <1>1 DEF Records!Goto
  <1>3. CASE Records!ReadLatest(w)
    BY <1>3 DEF Records!ReadLatest, RecordTypes
  <1>4. CASE Records!AppendRun(w)
    <2>1. /\ UNCHANGED <<state, outcome, copy, after, stages, tried, attempts, raised, events>>
          /\ step[w] = "append" /\ step'[w] \in {"events", Records!Handler(w, after[w])}
      BY <1>4 DEF Records!AppendRun, Records!Raise, RecordTypes
    <2>2. \/ /\ step'[w] = "events"
             /\ runs' = Append(runs, copy[w]) \/ (UNCHANGED runs /\ version[w] < Len(runs))
          \/ step'[w] = Records!Handler(w, after[w]) /\ UNCHANGED runs
      <3>1. version[w] \in Nat /\ Len(runs) \in Nat
        BY DEF RecordTypes
      <3> QED BY <1>4, <3>1 DEF Records!AppendRun, Records!Raise, RecordTypes
    <2>3. Records!Handler(w, after[w]) = IF after[w] \in {"loop", "stage"} THEN "error" ELSE "escape"
      BY <1>2, <2>1 DEF Records!Handler, Records!Guarded, Saves
    <2> QED BY <2>1, <2>2, <2>3
  <1>5. CASE Records!CountEvents(w)
    BY <1>5 DEF Records!CountEvents, RecordTypes
  <1>6. CASE Records!AppendEvent(w)
    <2>1. /\ UNCHANGED <<state, outcome, copy, after, stages, tried, attempts, raised, runs>>
          /\ step[w] = "event"
      BY <1>6 DEF Records!AppendEvent, Records!Raise, RecordTypes
    <2>2. \/ step'[w] = after[w] /\ Records!IsNext(w) /\ Records!Insert(w, "run")
          \/ step'[w] = Records!Handler(w, after[w]) /\ UNCHANGED events
      BY <1>6 DEF Records!AppendEvent, Records!Raise, RecordTypes
    <2>3. Records!Handler(w, after[w]) = IF after[w] \in {"loop", "stage"} THEN "error" ELSE "escape"
      BY <1>2, <2>1 DEF Records!Handler, Records!Guarded, Saves
    <2>4. Records!IsNext(w) /\ Records!Insert(w, "run") => Len(events') = Len(events) + 1
      BY Inserted DEF Records!Event
    <2> QED BY <2>1, <2>2, <2>3, <2>4
  <1> QED BY <1>3, <1>4, <1>5, <1>6 DEF Records!Saving

\* The worker's own steps keep its copy in line with the request.
LEMMA WorkerStep ==
    ASSUME RecordTypes, WorkerInv, CancelInv, Records!Submit
    PROVE  WorkerInv'
  <1> DEFINE w == "worker"
  <1>1. Records!Worker = w /\ w \in Records!Actors /\ copy[w] \in Records!Run
    BY RunActors DEF RecordTypes
  <1>2. \A s : s \in Records!Status => Records!With(s).status = s
    BY <1>1 DEF Records!With, Records!Run
  <1>3. CASE Records!Saving(w)
    <2>1. UNCHANGED <<state, outcome, copy, after>>
      BY <1>3, WorkerSaves
    <2>2. \/ step[w] \in Saves /\ step'[w] \in Saves
          \/ step[w] \in Saves /\ step'[w] \in {after[w], "error", "escape"}
             /\ (step'[w] = "error" => after[w] \in {"loop", "stage"})
          \/ step[w] = "usage" /\ step'[w] = "usage_event"
      <3>1. \/ step[w] \in {"save", "append", "events"} /\ step'[w] \in {"append", "events", "event"}
            \/ /\ step[w] \in {"append", "event"}
               /\ step'[w] = IF after[w] \in {"loop", "stage"} THEN "error" ELSE "escape"
            \/ step[w] = "usage" /\ step'[w] = "usage_event"
            \/ step[w] = "event" /\ step'[w] = after[w]
        BY <1>3, WorkerSaves
      <3>2. step[w] \in Saves => after[w] \in {"begin", "loop", "stage", "outcome"}
        BY DEF WorkerInv
      <3> QED BY <3>1, <3>2 DEF Saves
    <2> QED BY <2>1, <2>2 DEF WorkerInv, Place, Saves
  <1> USE <1>1 DEF Records!Goto, Records!Save, Records!Raise
  <1>4. CASE Records!StartRun
    BY <1>4 DEF Records!StartRun, WorkerInv, Place, Saves, RecordTypes
  <1>5. CASE Records!Begin
    <2>1. /\ outcome' = outcome /\ step[w] = "begin"
          /\ \/ step'[w] = "save" /\ after'[w] = "loop" /\ state = "queued" /\ state' = "running"
             \/ step'[w] = "escape" /\ state' = state
      BY <1>5 DEF Records!Begin, RecordTypes
    <2> QED BY <2>1 DEF WorkerInv, Place, Saves, RecordTypes, Records!Ends
  <1>6. CASE Records!Frontier
    <2>1. /\ Records!With("succeeded").status = "succeeded"
          /\ Records!With("awaiting_approval").status = "awaiting_approval"
      BY <1>2 DEF Records!Status, Records!Ends
    <2>2. /\ UNCHANGED <<state, outcome>> /\ step[w] = "loop"
          /\ \/ step'[w] = "save" /\ after'[w] = "stage"
             \/ step'[w] = "final" /\ copy'[w].status \in {"succeeded", "awaiting_approval"}
             \/ step'[w] = "error"
      BY <1>6, <2>1 DEF Records!Frontier, RecordTypes
    <2> QED BY <2>2 DEF WorkerInv, Place, Saves, Records!Open
  <1>7. CASE Records!Stage
    BY <1>7 DEF Records!Stage, WorkerInv, Place, Saves, RecordTypes
  <1>8. CASE Records!UsageEvent
    <2>1. /\ UNCHANGED <<state, outcome, copy, after>> /\ step[w] = "usage_event"
          /\ step'[w] \in {"usage", "error"}
      BY <1>8 DEF Records!UsageEvent, RecordTypes, Records!Handler, Records!Guarded
    <2> QED BY <2>1 DEF WorkerInv, Place, Saves
  <1>9. CASE Records!Checkpoint
    BY <1>9 DEF Records!Checkpoint, WorkerInv, Place, Saves, RecordTypes
  <1>10. CASE Records!HandleError
    <2>1. \A s \in Records!Ends : Records!With(s).status = s
      BY <1>2 DEF Records!Status
    <2>2. /\ UNCHANGED <<state, outcome>> /\ step[w] = "error" /\ step'[w] = "error_event"
          /\ copy'[w].status \in Records!Ends
      BY <1>10, <2>1 DEF Records!HandleError, RecordTypes, Records!Ends
    <2> QED BY <2>2 DEF WorkerInv, Place, Saves, Records!Open, Records!Ends
  <1>11. CASE Records!ErrorEvent
    <2>1. /\ UNCHANGED <<state, outcome, copy, after>> /\ step[w] = "error_event"
          /\ step'[w] \in {"final", "escape"}
      BY <1>11 DEF Records!ErrorEvent, RecordTypes, Records!Handler, Records!Guarded
    <2> QED BY <2>1 DEF WorkerInv, Place, Saves
  <1>12. CASE Records!Final
    <2>1. [Records!With(state) EXCEPT !.attempts = attempts].status = state
      <3>1. Records!With(state) \in Records!Run /\ Records!With(state).status = state
        BY <1>1, <1>2, CopyTypes DEF Records!With, RecordTypes
      <3> QED BY <3>1 DEF Records!Run
    <2>2. /\ UNCHANGED <<state, outcome>> /\ step[w] = "final"
          /\ \/ step'[w] = "advance" /\ copy'[w].status = copy[w].status
             \/ step'[w] = "save" /\ after'[w] = "outcome" /\ state # "running" /\ copy'[w].status = state
      BY <1>12, <2>1 DEF Records!Final, RecordTypes
    <2> QED BY <2>2 DEF WorkerInv, Place, Saves, Records!Open
  <1>13. CASE Records!Advance
    <2>1. [copy[w] EXCEPT !.attempts = attempts].status = copy[w].status
      BY <1>1 DEF Records!Run
    <2>2. /\ outcome' = outcome /\ step[w] = "advance"
          /\ \/ /\ step'[w] = "save" /\ after'[w] = "outcome" /\ state = "running"
                /\ state' = copy[w].status /\ copy'[w].status = copy[w].status
             \/ step'[w] = "escape" /\ state' = state
      BY <1>13, <2>1 DEF Records!Advance, RecordTypes
    <2> QED BY <2>2 DEF WorkerInv, Place, Saves, Records!Open, RecordTypes, Records!Ends
  <1>14. CASE Records!RecordOutcome
    BY <1>14 DEF Records!RecordOutcome, WorkerInv, Place, Saves, RecordTypes
  <1>15. CASE Records!FinishRuntime
    BY <1>15 DEF Records!FinishRuntime, WorkerInv, Place, Saves, RecordTypes, Records!Open, Records!Ends
  <1> QED BY <1>1, <1>3, <1>4, <1>5, <1>6, <1>7, <1>8, <1>9, <1>10, <1>11, <1>12, <1>13, <1>14, <1>15
      DEF Records!Submit

\* Whoever cancels leaves the worker's copy alone, and cancels no settled request.
LEMMA WorkerInvStep ==
    RecordTypes /\ CancelInv /\ WorkerInv /\ [Records!Next]_Records!vars => WorkerInv'
  <1> SUFFICES ASSUME RecordTypes, CancelInv, WorkerInv, [Records!Next]_Records!vars PROVE WorkerInv'
    OBVIOUS
  <1>1. ASSUME NEW c \in Cancellers, Records!Cancel(c) PROVE WorkerInv'
    <2>1. /\ step'["worker"] = step["worker"] /\ copy'["worker"] = copy["worker"]
          /\ after'["worker"] = after["worker"] /\ outcome' = outcome
          /\ state' = state \/ (state \in Records!Open /\ state' = "cancelled")
      BY <1>1, CancelMoves
    <2>2. outcome \in Records!Ends \cup {"none"}
      BY DEF RecordTypes
    <2> QED BY <2>1, <2>2 DEF WorkerInv, Place, Records!Open, Records!Ends
  <1>2. CASE Records!Crash
    BY <1>2, RunActors DEF Records!Crash, WorkerInv, Place, Saves, RecordTypes
  <1>3. CASE Records!Sweep
    BY <1>3, RunActors DEF Records!Sweep, Records!locals, WorkerInv, Place, Saves, RecordTypes,
       Records!Open, Records!Ends
  <1>4. CASE UNCHANGED Records!vars
    BY <1>4 DEF Records!vars, Records!locals, WorkerInv, Place
  <1> QED BY <1>1, <1>2, <1>3, <1>4, WorkerStep DEF Records!Next

-----------------------------------------------------------------------------
(* Stages, events and the newest record *)

\* What the worker does outside _save: where it goes, and what it counts.
LEMMA WorkerMoves ==
    ASSUME RecordTypes, Records!Submit, ~Records!Saving("worker")
    PROVE  LET w == "worker"
               Begun == UNCHANGED <<stages, tried, attempts, events>>
           IN
           /\ runs' = runs /\ version' = version
           /\ \/ /\ step[w] = "start" /\ Begun
                 /\ (step'[w] = "save" /\ after'[w] = "begin") \/ step'[w] = "escape"
              \/ /\ step[w] = "begin" /\ Begun
                 /\ (step'[w] = "save" /\ after'[w] = "loop") \/ step'[w] = "escape"
              \/ /\ step[w] = "loop" /\ Begun
                 /\ \/ step'[w] = "save" /\ after'[w] = "stage" /\ stages < RunStages
                    \/ step'[w] \in {"final", "error"}
              \/ /\ step[w] = "stage" /\ step'[w] = "usage" /\ UNCHANGED <<stages, events>>
                 /\ tried' \in 0 .. MaxAttempts /\ attempts' = attempts + tried'
              \/ /\ step[w] = "usage_event" /\ step'[w] = "usage" /\ UNCHANGED <<stages, attempts>>
                 /\ tried' = tried - 1 /\ Len(events') = Len(events) + 1
              \/ /\ step[w] = "usage" /\ step'[w] = "save" /\ after'[w] = "loop" /\ tried = 0
                 /\ stages' = stages + 1 /\ UNCHANGED <<tried, attempts, events>>
              \/ step[w] \in {"usage", "usage_event"} /\ step'[w] = "error" /\ Begun
              \/ step[w] = "error" /\ step'[w] = "error_event" /\ Begun
              \/ /\ step[w] = "error_event" /\ step'[w] = "final" /\ UNCHANGED <<stages, tried, attempts>>
                 /\ Len(events') = Len(events) + 1
              \/ step[w] = "error_event" /\ step'[w] = "escape" /\ Begun
              \/ step[w] = "final" /\ step'[w] = "advance" /\ Begun
              \/ /\ step[w] \in {"final", "advance"} /\ Begun
                 /\ step'[w] = "save" /\ after'[w] = "outcome"
              \/ step[w] = "advance" /\ step'[w] = "escape" /\ Begun
              \/ step[w] = "outcome" /\ step'[w] = "finish" /\ UNCHANGED state /\ Begun
              \/ step[w] = "finish" /\ step'[w] = "over" /\ UNCHANGED <<state, raised>> /\ Begun
              \/ step[w] = "escape" /\ step'[w] = "over" /\ raised' /\ Begun
  <1> DEFINE w == "worker"
  <1>1. Records!Worker = w /\ w \in Records!Actors
    BY RunActors
  <1>2. \A label \in Records!Event : Records!IsNext(w) /\ Records!Insert(w, label) =>
            Len(events') = Len(events) + 1
    BY <1>1, Inserted
  <1> USE <1>1 DEF Records!Goto, Records!Save, RecordTypes
  <1>3. CASE Records!StartRun
    BY <1>3 DEF Records!StartRun
  <1>4. CASE Records!Begin
    BY <1>4 DEF Records!Begin
  <1>5. CASE Records!Frontier
    BY <1>5 DEF Records!Frontier
  <1>6. CASE Records!Stage
    BY <1>6 DEF Records!Stage
  <1>7. CASE Records!UsageEvent
    BY <1>2, <1>7 DEF Records!UsageEvent, Records!Raise, Records!Handler, Records!Guarded, Records!Event
  <1>8. CASE Records!Checkpoint
    BY <1>8 DEF Records!Checkpoint
  <1>9. CASE Records!HandleError
    BY <1>9 DEF Records!HandleError
  <1>10. CASE Records!ErrorEvent
    BY <1>2, <1>10 DEF Records!ErrorEvent, Records!Raise, Records!Handler, Records!Guarded, Records!Event
  <1>11. CASE Records!Final
    BY <1>11 DEF Records!Final
  <1>12. CASE Records!Advance
    BY <1>12 DEF Records!Advance
  <1>13. CASE Records!RecordOutcome
    BY <1>13 DEF Records!RecordOutcome
  <1>14. CASE Records!FinishRuntime
    BY <1>14 DEF Records!FinishRuntime
  <1> QED BY <1>3, <1>4, <1>5, <1>6, <1>7, <1>8, <1>9, <1>10, <1>11, <1>12, <1>13, <1>14
      DEF Records!Submit

\* The stages and attempts counted follow the worker's place in the loop.
LEMMA WaveStep ==
    RecordTypes /\ CancelInv /\ WorkerInv /\ WaveInv /\ [Records!Next]_Records!vars => WaveInv'
  <1> SUFFICES ASSUME RecordTypes, CancelInv, WorkerInv, WaveInv, [Records!Next]_Records!vars
               PROVE  WaveInv'
    OBVIOUS
  <1> DEFINE w == "worker"
  <1>1. /\ stages \in Nat /\ tried \in Nat /\ attempts \in Nat /\ RunStages \in Nat /\ MaxAttempts \in Nat
        /\ Tries(stages) \in Nat /\ Tries(stages + 1) = Tries(stages) + MaxAttempts
    <2>1. /\ stages \in Nat /\ tried \in Nat /\ RunStages \in Nat /\ MaxAttempts \in Nat
      BY RunsAssumption DEF RecordTypes
    <2>2. /\ Tries(RunStages) \in Nat /\ Tries(stages) \in Nat
          /\ Tries(stages + 1) = Tries(stages) + MaxAttempts
      BY <2>1, NotesGrow
    <2>3. attempts \in Nat
      BY <2>2 DEF RecordTypes
    <2> QED BY <2>1, <2>2, <2>3
  <1>2. CASE Records!Submit /\ Records!Saving(w)
    <2>1. UNCHANGED <<after, stages, tried, attempts>>
      BY <1>2, WorkerSaves
    <2>2. \/ step[w] \in Saves /\ step'[w] \in Saves
          \/ step[w] \in Saves /\ step'[w] \in {"error", "escape"}
          \/ step[w] = "event" /\ step'[w] = after[w]
          \/ step[w] = "usage" /\ step'[w] = "usage_event" /\ tried > 0
      BY <1>2, WorkerSaves DEF Saves
    <2>3. step[w] \in Saves => after[w] \in {"begin", "loop", "stage", "outcome"}
      BY DEF WorkerInv
    <2> QED BY <2>1, <2>2, <2>3 DEF WaveInv, Place, Saves
  <1>3. CASE Records!Submit /\ ~Records!Saving(w)
    BY SMTT(60), <1>1, <1>3, WorkerMoves DEF WaveInv, Place, Saves
  <1>4. ASSUME NEW c \in Cancellers, Records!Cancel(c) PROVE WaveInv'
    BY <1>4, CancelMoves DEF WaveInv, Place
  <1>5. CASE Records!Crash
    BY <1>5, RunActors DEF Records!Crash, WaveInv, Place, Saves, RecordTypes
  <1>6. CASE Records!Sweep \/ UNCHANGED Records!vars
    BY <1>6 DEF Records!Sweep, Records!vars, Records!locals, WaveInv, Place
  <1> QED BY <1>2, <1>3, <1>4, <1>5, <1>6 DEF Records!Next

\* A cancellation pays for its one event when it cancels the request.
LEMMA CreditMoves ==
    ASSUME RecordTypes, CancelInv, NEW c \in Cancellers, Records!Cancel(c)
    PROVE  Len(events') <= Len(events) + (Credit' - Credit) /\ Credit \in {0, 1} /\ Credit' \in {0, 1}
           /\ Credit' >= Credit
  <1>1. \A d \in Cancellers \ {c} : step'[d] = step[d]
    BY CancelMoves
  <1>2. Len(events) \in Nat
    BY DEF RecordTypes
  <1>3. CASE /\ step[c] \notin Saves /\ step'[c] \notin Saves /\ UNCHANGED <<state, events>>
    <2>1. Cancelling' = Cancelling
      BY <1>1, <1>3 DEF Cancelling
    <2> QED BY <1>2, <1>3, <2>1 DEF Credit
  <1>4. CASE /\ state \in Records!Open /\ UNCHANGED events /\ step'[c] = "save"
    <2>1. c \in Cancelling'
      BY <1>4 DEF Cancelling, Saves
    <2> QED BY <1>2, <1>4, <2>1 DEF Credit, Records!Open
  <1>5. CASE step[c] \in Saves /\ step'[c] \in Saves /\ UNCHANGED <<state, events>>
    <2>1. Cancelling' = Cancelling
      BY <1>1, <1>5 DEF Cancelling
    <2> QED BY <1>2, <1>5, <2>1 DEF Credit
  <1>6. CASE /\ step[c] \in Saves /\ step'[c] = "over" /\ state' = state
             /\ Len(events') <= Len(events) + 1
    <2>1. c \in Cancelling /\ Cancelling = {c} /\ state = "cancelled"
      BY <1>6 DEF CancelInv, Cancelling
    <2>2. Cancelling' = {}
      BY <1>1, <1>6, <2>1 DEF Cancelling, Saves
    <2> QED BY <1>2, <1>6, <2>1, <2>2 DEF Credit
  <1> QED BY <1>3, <1>4, <1>5, <1>6, CancelMoves DEF Saves

\* Every event was paid for by a stage, an attempt, an end or the one cancellation.
LEMMA EventStep ==
    RecordTypes /\ CancelInv /\ WorkerInv /\ WaveInv /\ EventInv /\ [Records!Next]_Records!vars => EventInv'
  <1> SUFFICES ASSUME RecordTypes, CancelInv, WorkerInv, WaveInv, EventInv, [Records!Next]_Records!vars
               PROVE  EventInv'
    OBVIOUS
  <1> DEFINE w == "worker"
             L == Limit(Place(w), stages, tried)
  <1>1. /\ stages \in Nat /\ stages <= RunStages /\ tried \in Nat /\ RunStages \in Nat /\ MaxAttempts \in Nat
        /\ Len(events) \in Nat
    BY RunsAssumption DEF RecordTypes
  <1>2. /\ Notes(stages) \in Nat /\ Notes(stages + 1) = Notes(stages) + 2 + MaxAttempts
        /\ Notes(RunStages) \in Nat /\ Notes(stages) <= Notes(RunStages)
        /\ stages < RunStages => Notes(stages) + 2 + MaxAttempts <= Notes(RunStages)
    <2>1. stages < RunStages => stages + 1 <= RunStages /\ stages + 1 \in Nat
      BY <1>1
    <2> QED BY <1>1, <2>1, NotesGrow
  <1>3. step[w] \in Saves => after[w] \in {"begin", "loop", "stage", "outcome"}
    BY DEF WorkerInv
  <1>4. Credit \in {0, 1} /\ Saving \in {0, 1}
    BY DEF Credit, Saving
  <1>5. L \in Int
    <2> DEFINE p == Place(w)
    <2>1. \/ L = 0 \/ L = 1 \/ L = 2 + Notes(stages) \/ L = 3 + Notes(stages)
          \/ L = 3 + Notes(stages) + MaxAttempts - tried
          \/ L = 2 + Notes(RunStages) \/ L = 3 + Notes(RunStages) \/ L = 4 + Notes(RunStages)
      <3> HIDE DEF p
      <3> QED BY DEF Limit
    <2> HIDE DEF L
    <2> QED BY SMTT(60), <1>1, <1>2, <2>1
  <1>6. Len(events) + Saving <= L + Credit
    BY DEF EventInv
  <1>7. ASSUME Records!Submit \/ Records!Crash \/ Records!Sweep
        PROVE  Credit' \in {0, 1} /\ Credit' >= Credit
    <2>1. Cancelling' = Cancelling
      BY <1>7, WorkerFrame DEF Cancelling
    <2>2. state = "cancelled" => state' = "cancelled"
      BY <1>7, StateMoves DEF Records!Open
    <2> QED BY <2>1, <2>2 DEF Credit
  <1> DEFINE Grows == /\ Len(events)' \in Nat /\ Saving' \in {0, 1} /\ L' \in Int
                      /\ Len(events)' + Saving' - Len(events) - Saving <= L' - L
  <1>8. ASSUME Grows, Credit' \in {0, 1}, Credit' >= Credit PROVE EventInv'
    <2> HIDE DEF L
    <2>1. Len(events)' + Saving' <= L' + Credit'
      BY <1>1, <1>4, <1>5, <1>6, <1>8
    <2> QED BY <2>1 DEF EventInv, L
  <1>9. CASE Records!Submit /\ Records!Saving(w)
    <2>1. UNCHANGED <<after, stages, tried>>
      BY <1>9, WorkerSaves
    <2>2. \/ step[w] \in Saves /\ step'[w] \in Saves /\ events' = events
          \/ step[w] \in Saves /\ events' = events
             /\ step'[w] = IF after[w] \in {"loop", "stage"} THEN "error" ELSE "escape"
          \/ step[w] = "event" /\ step'[w] = after[w] /\ Len(events') = Len(events) + 1
          \/ step[w] = "usage" /\ step'[w] = "usage_event" /\ events' = events
      BY <1>9, WorkerSaves DEF Saves
    <2>3. Grows
      <3>1. CASE step[w] \in Saves /\ step'[w] \in Saves /\ events' = events
        BY <1>1, <1>4, <1>5, <2>1, <3>1 DEF Saving, Place, Saves
      <3>2. CASE step[w] \in Saves /\ events' = events /\ step'[w] = "error" /\ after[w] \in {"loop", "stage"}
        <4>1. after[w] = "stage" => stages < RunStages
          BY <3>2 DEF WaveInv, Place
        <4>2. Place(w) = after[w] /\ Place(w)' = "error" /\ Saving = 1 /\ Saving' = 0
          BY <3>2 DEF Place, Saving, Saves
        <4>3. L <= 3 + Notes(RunStages) /\ L' = 2 + Notes(RunStages)
          BY SMTT(60), <1>1, <1>2, <3>2, <4>1, <4>2 DEF Limit
        <4> HIDE DEF L
        <4> QED BY SMTT(60), <1>1, <1>2, <1>5, <3>2, <4>2, <4>3
      <3>3. CASE step[w] \in Saves /\ events' = events /\ step'[w] = "escape" /\ after[w] \notin {"loop", "stage"}
        <4>1. after[w] \in {"begin", "outcome"}
          BY <1>3, <3>3
        <4>2. Place(w) = after[w] /\ Place(w)' = "escape" /\ Saving = 1 /\ Saving' = 0
          BY <3>3 DEF Place, Saving, Saves
        <4>3. L <= 4 + Notes(RunStages) /\ L' = 4 + Notes(RunStages)
          BY SMTT(60), <1>1, <1>2, <4>1, <4>2 DEF Limit
        <4> HIDE DEF L
        <4> QED BY SMTT(60), <1>1, <1>2, <1>5, <3>3, <4>2, <4>3
      <3>4. CASE step[w] = "event" /\ step'[w] = after[w] /\ Len(events') = Len(events) + 1
        <4>1. Place(w) = after[w] /\ Place(w)' = after[w] /\ Saving = 1 /\ Saving' = 0
          BY <1>3, <2>1, <3>4 DEF Place, Saving, Saves
        <4>2. L' = L
          BY <2>1, <4>1 DEF Limit
        <4> HIDE DEF L
        <4> QED BY <1>1, <1>5, <3>4, <4>1, <4>2
      <3>5. CASE step[w] = "usage" /\ step'[w] = "usage_event" /\ events' = events
        <4>1. Place(w) = "usage" /\ Place(w)' = "usage_event" /\ Saving = 0 /\ Saving' = 0
          BY <3>5 DEF Place, Saving, Saves
        <4>2. L' = L
          BY <2>1, <4>1 DEF Limit
        <4> HIDE DEF L
        <4> QED BY <1>1, <1>5, <3>5, <4>1, <4>2
      <3> QED BY <2>2, <3>1, <3>2, <3>3, <3>4, <3>5
    <2> QED BY <1>7, <1>8, <1>9, <2>3
  <1>10. CASE Records!Submit /\ ~Records!Saving(w)
    <2>1. step[w] \in {"usage", "usage_event"} => tried <= MaxAttempts /\ stages < RunStages
      BY DEF WaveInv, Place, Saves
    <2>2. step[w] \in {"start", "begin"} => stages = 0 /\ Notes(stages) = 0
      BY NotesGrow DEF WaveInv, Place, Saves
    <2>3. Grows
      <3> DEFINE p == Place(w)
                 q == IF step'[w] = "save" THEN after'[w] ELSE step'[w]
                 m == Len(events)
                 n == Len(events')
      <3>1. /\ p = step[w] /\ Saving = 0 /\ Place(w)' = q
            /\ Saving' = IF step'[w] = "save" THEN 1 ELSE 0
        BY <1>10, WorkerMoves DEF Place, Saving, Saves
      <3>2. L = Limit(step[w], stages, tried) /\ L' = Limit(q, stages', tried')
        BY <3>1
      <3>3. stages' \in Nat /\ tried' \in Nat
        BY <1>10, RecordTypesStep, RunsAssumption DEF RecordTypes, Records!Next
      <3>a. m \in Nat
        BY <1>1
      <3>b. events' = events => n = m
        OBVIOUS
      <3>c. n = Len(events') /\ m = Len(events) /\ q = IF step'[w] = "save" THEN after'[w] ELSE step'[w]
        OBVIOUS
      <3> HIDE DEF L, p, q, m, n
      <3>d. ASSUME n \in Nat, Saving' \in {0, 1}, L' \in Int, n + Saving' - m <= L' - L
            PROVE  Grows
        <4>1. n + Saving' - m \in Int
          BY <3>a, <3>d
        <4>2. n + Saving' - m - 0 = n + Saving' - m
          BY <3>a, <3>d
        <4>3. Saving = 0
          BY <3>1
        <4>4. n + Saving' - m - Saving <= L' - L
          BY <3>d, <4>2, <4>3
        <4> QED BY <3>c, <3>d, <4>4
      <3>4. CASE step[w] = "start"
        <4>1. /\ UNCHANGED <<stages, tried, events>>
              /\ q = "begin" \/ (q = "escape" /\ Saving' = 0)
              /\ Saving' \in {0, 1}
          BY <1>10, <3>1, <3>c, <3>4, WorkerMoves
        <4>2. L = 0
          BY <1>1, <1>2, <3>2, <3>4 DEF Limit
        <4>3. (q = "begin" => L' = 1) /\ (q = "escape" => L' = 4 + Notes(RunStages))
          BY <1>1, <1>2, <3>2, <3>3, <4>1 DEF Limit
        <4> QED BY <1>1, <1>2, <2>2, <3>1, <3>3, <3>a, <3>b, <3>c, <3>4, <4>1, <4>2, <4>3
      <3>5. CASE step[w] = "begin"
        <4>1. /\ UNCHANGED <<stages, tried, events>>
              /\ q \in {"loop", "escape"}
              /\ Saving' \in {0, 1}
          BY <1>10, <3>1, <3>c, <3>5, WorkerMoves
        <4>2. L = 1
          BY <1>1, <1>2, <3>2, <3>5 DEF Limit
        <4>3. (q = "loop" => L' = 2 + Notes(stages)) /\ (q = "escape" => L' = 4 + Notes(RunStages))
          BY <1>1, <1>2, <3>2, <3>3, <4>1 DEF Limit
        <4> QED BY <1>1, <1>2, <2>2, <3>1, <3>3, <3>a, <3>b, <3>c, <3>5, <4>1, <4>2, <4>3
      <3>6. CASE step[w] = "loop"
        <4>1. /\ UNCHANGED <<stages, tried, events>>
              /\ \/ q = "stage" /\ Saving' = 1
                 \/ q \in {"final", "error"} /\ Saving' = 0
          BY <1>10, <3>1, <3>c, <3>6, WorkerMoves
        <4>2. L = 2 + Notes(stages)
          BY <1>1, <1>2, <3>2, <3>6 DEF Limit
        <4>3. (q = "stage" => L' = 3 + Notes(stages)) /\ (q \in {"final", "error"} => L' >= 2 + Notes(RunStages) /\ L' \in Int)
          BY SMTT(60), <1>1, <1>2, <3>2, <3>3, <4>1 DEF Limit
        <4>4. n = m /\ L \in Int /\ L' \in Int /\ Saving' \in {0, 1}
          <5>1. n = m
            BY <3>b, <4>1
          <5>2. L \in Int /\ L' \in Int
            BY SMTT(60), <1>1, <1>2, <3>3, <4>1, <4>2, <4>3
          <5> QED BY <4>1, <5>1, <5>2
        <4>5. n + Saving' - m <= L' - L
          <5>1. CASE q = "stage" /\ Saving' = 1
            <6>1. L' - L = 1
              BY SMTT(60), <1>1, <1>2, <4>2, <4>3, <5>1
            <6>2. n + Saving' - m = 1
              BY <3>a, <4>4, <5>1
            <6> QED BY <6>1, <6>2
          <5>2. CASE q \in {"final", "error"} /\ Saving' = 0
            <6>1. Notes(stages) <= Notes(RunStages)
              BY <1>1, <1>2
            <6>2. 0 <= L' - L
              BY SMTT(60), <1>1, <1>2, <4>2, <4>3, <5>2, <6>1
            <6>3. n + Saving' - m = 0
              BY <3>a, <4>4, <5>2
            <6> QED BY <6>2, <6>3
          <5> QED BY <4>1, <5>1, <5>2
        <4> QED BY <3>a, <3>d, <4>4, <4>5
      <3>7. CASE step[w] = "stage"
        <4>1. /\ UNCHANGED <<stages, events>> /\ q = "usage"
              /\ Saving' = 0 /\ tried' <= MaxAttempts
          BY <1>10, <3>1, <3>c, <3>7, WorkerMoves
        <4>2. L = 3 + Notes(stages)
          BY <1>1, <1>2, <3>2, <3>7 DEF Limit
        <4>3. L' = 3 + Notes(stages) + MaxAttempts - tried'
          BY <1>1, <1>2, <3>2, <3>3, <4>1 DEF Limit
        <4>4. n \in {m, m + 1} /\ L \in Int /\ L' \in Int /\ Saving' \in {0, 1}
          <5>1. n = m
            BY <3>b, <4>1
          <5>2. L \in Int /\ L' \in Int
            <6>1. L \in Int
              BY <1>2, <4>2
            <6>2. tried' \in Int
              BY <3>3
            <6>3. L' \in Int
              BY <1>1, <1>2, <4>3, <6>2
            <6> QED BY <6>1, <6>3
          <5> QED BY <3>a, <4>1, <5>1, <5>2
        <4>5. n + Saving' - m <= L' - L
          BY SMTT(60), <1>1, <1>2, <3>3, <3>a, <3>b, <3>7, <4>1, <4>2, <4>3, <4>4
        <4> QED BY <3>a, <3>d, <4>4, <4>5
      <3>8. CASE step[w] = "usage"
        <4>1. \/ UNCHANGED events /\ q = "loop" /\ Saving' = 1 /\ tried = 0 /\ stages' = stages + 1
              \/ UNCHANGED <<stages, tried, events>> /\ q = "error" /\ Saving' = 0
          BY <1>10, <3>1, <3>c, <3>8, WorkerMoves
        <4>2. L = 3 + Notes(stages) + MaxAttempts - tried
          BY <1>1, <1>2, <3>2, <3>8 DEF Limit
        <4>3. (q = "loop" => L' = 2 + Notes(stages')) /\ (q = "error" => L' = 2 + Notes(RunStages))
          BY <1>1, <1>2, <3>2, <3>3, <4>1 DEF Limit
        <4>4. n \in {m, m + 1} /\ L \in Int /\ L' \in Int /\ Saving' \in {0, 1}
          <5>1. n = m /\ Saving' \in {0, 1}
            BY <3>b, <4>1
          <5>2. L \in Int /\ L' \in Int
            BY SMTT(60), <1>1, <1>2, <3>3, <4>1, <4>2, <4>3
          <5> QED BY <5>1, <5>2
        <4>5. n + Saving' - m <= L' - L
          <5>1. CASE UNCHANGED events /\ q = "loop" /\ Saving' = 1 /\ tried = 0 /\ stages' = stages + 1
            <6>1. L' = L + 1
              <7>1. Notes(stages') = Notes(stages) + 2 + MaxAttempts
                BY <1>1, <1>2, <5>1
              <7> QED BY SMTT(60), <1>1, <1>2, <4>2, <4>3, <5>1, <7>1
            <6>2. L' - L = 1
              BY <4>4, <6>1
            <6>3. n = m
              BY <3>b, <5>1
            <6>4. n + Saving' - m = 1
              BY <3>a, <5>1, <6>3
            <6> QED BY <6>2, <6>4
          <5>2. CASE UNCHANGED <<stages, tried, events>> /\ q = "error" /\ Saving' = 0
            <6>1. 0 <= L' - L
              BY SMTT(60), <1>1, <1>2, <2>1, <3>8, <4>2, <4>3, <5>2
            <6>2. n = m
              BY <3>b, <5>2
            <6>3. n + Saving' - m = 0
              BY <3>a, <5>2, <6>2
            <6> QED BY <6>1, <6>3
          <5> QED BY <4>1, <5>1, <5>2
        <4> QED BY <3>a, <3>d, <4>4, <4>5
      <3>9. CASE step[w] = "usage_event"
        <4>1. \/ n = m + 1 /\ q = "usage" /\ Saving' = 0 /\ tried' = tried - 1 /\ stages' = stages
              \/ UNCHANGED <<stages, tried, events>> /\ q = "error" /\ Saving' = 0
          BY <1>10, <3>1, <3>c, <3>9, WorkerMoves
        <4>2. L = 3 + Notes(stages) + MaxAttempts - tried
          BY <1>1, <1>2, <3>2, <3>9 DEF Limit
        <4>3. (q = "usage" => L' = 3 + Notes(stages') + MaxAttempts - tried') /\ (q = "error" => L' = 2 + Notes(RunStages))
          BY <1>1, <1>2, <3>2, <3>3, <4>1 DEF Limit
        <4>4. n \in {m, m + 1} /\ L \in Int /\ L' \in Int /\ Saving' \in {0, 1}
          BY SMTT(60), <1>1, <1>2, <3>3, <3>a, <3>b, <4>1, <4>2, <4>3
        <4>5. n + Saving' - m <= L' - L
          <5>1. CASE n = m + 1 /\ q = "usage" /\ Saving' = 0 /\ tried' = tried - 1 /\ stages' = stages
            <6>1. L' = L + 1
              BY <1>1, <1>2, <4>2, <4>3, <5>1
            <6> QED BY <3>a, <4>4, <5>1, <6>1
          <5>2. CASE UNCHANGED <<stages, tried, events>> /\ q = "error" /\ Saving' = 0
            <6>1. 0 <= L' - L
              BY SMTT(60), <1>1, <1>2, <2>1, <3>9, <4>2, <4>3, <5>2
            <6>2. n = m
              BY <3>b, <5>2
            <6>3. n + Saving' - m = 0
              BY <3>a, <5>2, <6>2
            <6> QED BY <6>1, <6>3
          <5> QED BY <4>1, <5>1, <5>2
        <4> QED BY <3>a, <3>d, <4>4, <4>5
      <3>10. CASE step[w] = "error"
        <4>1. /\ UNCHANGED <<stages, tried, events>> /\ q = "error_event" /\ Saving' = 0
          BY <1>10, <3>1, <3>c, <3>10, WorkerMoves
        <4>2. L = 2 + Notes(RunStages)
          BY <1>1, <1>2, <3>2, <3>10 DEF Limit
        <4>3. L' = 2 + Notes(RunStages)
          BY <1>1, <1>2, <3>2, <3>3, <4>1 DEF Limit
        <4>4. n = m /\ L' = L /\ L \in Int
          BY <1>1, <1>2, <3>b, <4>1, <4>2, <4>3
        <4>5. n + Saving' - m = 0 /\ L' - L = 0
          BY <3>a, <4>1, <4>4
        <4> QED BY <3>a, <3>d, <4>1, <4>4, <4>5
      <3>11. CASE step[w] = "error_event"
        <4>1. \/ n = m + 1 /\ q = "final" /\ Saving' = 0
              \/ UNCHANGED events /\ q = "escape" /\ Saving' = 0
          BY <1>10, <3>1, <3>c, <3>11, WorkerMoves
        <4>2. L = 2 + Notes(RunStages)
          BY <1>1, <1>2, <3>2, <3>11 DEF Limit
        <4>3. (q = "final" => L' = 3 + Notes(RunStages)) /\ (q = "escape" => L' = 4 + Notes(RunStages))
          BY <1>1, <1>2, <3>2, <3>3, <4>1 DEF Limit
        <4>4. n \in {m, m + 1} /\ L \in Int /\ L' \in Int /\ Saving' \in {0, 1}
          BY SMTT(60), <1>1, <1>2, <3>3, <3>a, <3>b, <4>1, <4>2, <4>3
        <4>5. n + Saving' - m <= L' - L
          <5>1. CASE n = m + 1 /\ q = "final" /\ Saving' = 0
            <6>1. L' = L + 1
              BY <1>2, <4>2, <4>3, <5>1
            <6> QED BY <3>a, <4>4, <5>1, <6>1
          <5>2. CASE UNCHANGED events /\ q = "escape" /\ Saving' = 0
            <6>1. L' = L + 2
              BY <1>2, <4>2, <4>3, <5>2
            <6> QED BY <3>a, <3>b, <4>4, <5>2, <6>1
          <5> QED BY <4>1, <5>1, <5>2
        <4> QED BY <3>a, <3>d, <4>4, <4>5
      <3>12. CASE step[w] \in {"final", "advance"}
        <4>1. /\ UNCHANGED events
              /\ \/ q = "outcome" /\ Saving' = 1
                 \/ q \in {"advance", "escape"} /\ Saving' = 0
          BY <1>10, <3>1, <3>c, <3>12, WorkerMoves
        <4>2. L = 3 + Notes(RunStages)
          BY <1>1, <1>2, <3>2, <3>12 DEF Limit
        <4>3. (q \in {"outcome", "escape"} => L' = 4 + Notes(RunStages)) /\ (q = "advance" => L' = 3 + Notes(RunStages))
          BY <1>1, <1>2, <3>2, <3>3, <4>1 DEF Limit
        <4>4. n = m /\ L \in Int /\ L' \in {L, L + 1} /\ (q = "outcome" => L' = L + 1)
          BY SMTT(60), <1>1, <1>2, <3>b, <4>1, <4>2, <4>3
        <4>5. n + Saving' - m <= L' - L
          <5>1. CASE q = "outcome" /\ Saving' = 1
            BY <3>a, <4>4, <5>1
          <5>2. CASE q # "outcome" /\ Saving' = 0
            <6>1. 0 <= L' - L
              <7>1. CASE L' = L
                BY <4>4, <7>1
              <7>2. CASE L' = L + 1
                BY <4>4, <7>2
              <7> QED BY <4>4, <7>1, <7>2
            <6>2. n = m
              BY <4>4
            <6>3. n + Saving' - m = 0
              BY <3>a, <5>2, <6>2
            <6> QED BY <6>1, <6>3
          <5> QED BY <4>1, <5>1, <5>2
        <4> QED BY <3>a, <3>d, <4>1, <4>4, <4>5
      <3>13. CASE step[w] \in {"outcome", "finish", "escape"}
        <4>1. /\ UNCHANGED events /\ q \in {"finish", "over"} /\ Saving' = 0
          BY <1>10, <3>1, <3>c, <3>13, WorkerMoves
        <4>2. L = 4 + Notes(RunStages)
          BY <1>1, <1>2, <3>2, <3>13 DEF Limit
        <4>3. L' = 4 + Notes(RunStages)
          BY <1>1, <1>2, <3>2, <3>3, <4>1 DEF Limit
        <4>4. n = m /\ L' = L /\ L \in Int
          BY <1>1, <1>2, <3>b, <4>1, <4>2, <4>3
        <4>5. n + Saving' - m = 0 /\ L' - L = 0
          BY <3>a, <4>1, <4>4
        <4> QED BY <3>a, <3>d, <4>1, <4>4, <4>5
      <3> QED BY <1>10, <3>4, <3>5, <3>6, <3>7, <3>8, <3>9, <3>10, <3>11, <3>12, <3>13, WorkerMoves
    <2> QED BY <1>7, <1>8, <1>10, <2>3
  <1>11. ASSUME NEW c \in Cancellers, Records!Cancel(c) PROVE EventInv'
    <2>1. /\ step'[w] = step[w] /\ after'[w] = after[w] /\ stages' = stages /\ tried' = tried
      BY <1>11, CancelMoves
    <2>2. L' = L /\ Saving' = Saving
      BY <2>1 DEF Place, Saving
    <2>3. Len(events') \in Nat
      <3>1. events' \in Seq(Records!Event)
        BY <1>11, RecordTypesStep DEF RecordTypes, Records!Next
      <3> QED BY <3>1
    <2>4. /\ Len(events') <= Len(events) + (Credit' - Credit) /\ Credit' \in {0, 1}
      BY <1>11, CreditMoves
    <2>5. Len(events') + Saving' <= L' + Credit'
      <3> HIDE DEF L
      <3> QED BY <1>1, <1>4, <1>5, <1>6, <2>2, <2>3, <2>4
    <2> QED BY <2>5 DEF EventInv
  <1>12. CASE Records!Crash
    <2>1. step'[w] = "dead" /\ UNCHANGED <<events, stages, tried>>
      BY <1>12, RunActors DEF Records!Crash, RecordTypes
    <2>2. Place(w)' = "dead" /\ Saving' = 0 /\ L' = 4 + Notes(RunStages)
      BY <2>1 DEF Place, Saving, Saves, Limit
    <2>3. L <= 4 + Notes(RunStages)
      <3>1. Place(w) \in {"usage", "usage_event", "stage"} => stages < RunStages
        BY DEF WaveInv
      <3> QED BY SMTT(60), <1>1, <1>2, <3>1 DEF Limit
    <2>4. Grows
      <3> HIDE DEF L
      <3>1. Len(events)' = Len(events) /\ Len(events) \in Nat /\ L' \in Int
        BY <1>1, <1>2, <2>1, <2>2
      <3>2. 0 <= L' - L
        BY <1>1, <1>2, <1>5, <2>2, <2>3
      <3>3. Len(events)' + Saving' - Len(events) - Saving = 0 - Saving
        BY <1>4, <2>2, <3>1
      <3> QED BY <1>4, <1>5, <2>2, <3>1, <3>2, <3>3
    <2> QED BY <1>7, <1>8, <1>12, <2>4
  <1>13. CASE Records!Sweep
    <2>1. UNCHANGED <<step, after, stages, tried, events>>
      BY <1>13 DEF Records!Sweep, Records!locals
    <2>2. L' = L /\ Saving' = Saving
      BY <2>1 DEF Place, Saving
    <2>3. Grows
      <3> HIDE DEF L
      <3> QED BY <1>1, <1>4, <1>5, <2>1, <2>2
    <2> QED BY <1>7, <1>8, <1>13, <2>3
  <1>14. CASE UNCHANGED Records!vars
    BY <1>14 DEF Records!vars, Records!locals, EventInv, Place, Saving, Credit, Cancelling
  <1> QED BY <1>9, <1>10, <1>11, <1>12, <1>13, <1>14 DEF Records!Next

\* The newest record stays the worker's last save or the cancellation's.
LEMMA NewestStep ==
    RecordTypes /\ CancelInv /\ WorkerInv /\ NewestInv /\ [Records!Next]_Records!vars => NewestInv'
  <1> SUFFICES ASSUME RecordTypes, CancelInv, WorkerInv, NewestInv, [Records!Next]_Records!vars
               PROVE  NewestInv'
    OBVIOUS
  <1> DEFINE w == "worker"
             Done == \/ Place(w) = "outcome" /\ step[w] \notin Unread
                     \/ step[w] = "finish"
                     \/ step[w] = "over" /\ ~raised
  <1>1. /\ w \in Records!Actors /\ Len(runs) \in Nat /\ Len(runs) > 0 /\ DOMAIN runs = 1 .. Len(runs)
        /\ copy[w] \in Records!Run /\ version[w] \in Nat /\ runs \in Seq(Records!Run)
    BY RunActors DEF RecordTypes
  <1>2. step[w] \in Saves => after[w] \in {"begin", "loop", "stage", "outcome"}
    BY DEF WorkerInv
  <1>3. Place(w) = "outcome" => state = copy[w].status /\ state \notin Records!Open
    BY DEF WorkerInv
  <1>4. CASE Records!Submit /\ Records!Saving(w)
    <2>1. state' = state /\ copy' = copy /\ after' = after /\ raised' = raised
      BY <1>4, WorkerSaves
    <2>2. CASE step[w] = "save" /\ step'[w] = "append" /\ version'[w] = Len(runs) /\ runs' = runs
      BY <1>1, <1>2, <2>1, <2>2 DEF NewestInv, Place, Saves, Unread
    <2>3. CASE step[w] = "append" /\ step'[w] = "events" /\ runs' = Append(runs, copy[w])
      <3>1. runs'[Len(runs')] = copy[w]
        BY <1>1, <2>3
      <3> QED BY <1>2, <1>3, <2>1, <2>3, <3>1 DEF NewestInv, Place, Saves, Unread
    <2>4. CASE step[w] = "append" /\ step'[w] = "events" /\ runs' = runs /\ version[w] < Len(runs)
      <3>1. runs[Len(runs)].status = "cancelled" /\ state = "cancelled"
        BY <1>1, <2>4 DEF NewestInv
      <3> QED BY <1>2, <1>3, <2>1, <2>4, <3>1 DEF NewestInv, Place, Saves, Unread, Records!Open
    <2>5. CASE /\ step[w] \in {"append", "event"} /\ runs' = runs
               /\ step'[w] = IF after[w] \in {"loop", "stage"} THEN "error" ELSE "escape"
      BY <2>1, <2>5 DEF NewestInv, Place, Saves, Unread
    <2>6. CASE /\ runs' = runs
               /\ \/ step[w] = "events" /\ step'[w] = "event"
                  \/ step[w] = "usage" /\ step'[w] = "usage_event"
                  \/ step[w] = "event" /\ step'[w] = after[w]
      BY <1>2, <2>1, <2>6 DEF NewestInv, Place, Saves, Unread
    <2> QED BY <1>4, <2>2, <2>3, <2>4, <2>5, <2>6, WorkerSaves
  <1>5. CASE Records!Submit /\ ~Records!Saving(w)
    <2>1. /\ runs' = runs /\ step'[w] # "append"
          /\ Done' => \/ step[w] = "outcome" /\ step'[w] = "finish" /\ state' = state
                      \/ step[w] = "finish" /\ state' = state
      BY <1>5, WorkerMoves DEF Place, Saves, Unread
    <2>2. Done' => Done /\ state' = state
      BY <2>1 DEF Place, Saves, Unread
    <2> QED BY <2>1, <2>2 DEF NewestInv
  <1>6. ASSUME NEW c \in Cancellers, Records!Cancel(c) PROVE NewestInv'
    <2>1. /\ step'[w] = step[w] /\ after'[w] = after[w] /\ version'[w] = version[w] /\ raised' = raised
          /\ state' = state \/ (state \in Records!Open /\ state' = "cancelled")
      BY <1>6, CancelMoves
    <2>2. \/ runs' = runs
          \/ runs' = Append(runs, copy[c]) /\ step[c] \in Saves /\ state' = state
      BY <1>6, CancelMoves
    <2>3. CASE runs' = runs
      BY <2>1, <2>3 DEF NewestInv, Place, Records!Open
    <2>4. CASE runs' = Append(runs, copy[c]) /\ step[c] \in Saves /\ state' = state
      <3>1. copy[c].status = "cancelled" /\ state = "cancelled"
        BY <2>4 DEF CancelInv, Cancelling
      <3>2. copy[c] \in Records!Run
        BY RunActors DEF RecordTypes
      <3>3. /\ Len(runs') = Len(runs) + 1 /\ DOMAIN runs' = 1 .. Len(runs')
            /\ runs'[Len(runs')] = copy[c] /\ \A i \in 1 .. Len(runs) : runs'[i] = runs[i]
        BY <1>1, <2>4, <3>2
      <3>4. \A i \in DOMAIN runs' : i \in DOMAIN runs \/ i = Len(runs')
        BY <1>1, <3>3
      <3>5. step[w] = "append" =>
              \A i \in DOMAIN runs' : i > version[w] => runs'[i].status = "cancelled"
        BY <1>1, <3>1, <3>3, <3>4 DEF NewestInv
      <3>6. Done => state \notin Records!Open
        BY DEF NewestInv
      <3> QED BY <2>1, <2>4, <3>1, <3>3, <3>5, <3>6 DEF NewestInv, Place
    <2> QED BY <2>2, <2>3, <2>4
  <1>7. CASE Records!Crash
    <2>1. step'[w] = "dead"
      BY <1>1, <1>7, RunActors DEF Records!Crash, RecordTypes
    <2> QED BY <2>1 DEF NewestInv, Place, Saves
  <1>8. CASE Records!Sweep
    <2>1. UNCHANGED <<step, after, version, runs, raised>> /\ step[w] = "dead"
      BY <1>8, RunActors DEF Records!Sweep, Records!locals
    <2> QED BY <2>1 DEF NewestInv, Place, Saves
  <1>9. CASE UNCHANGED Records!vars
    BY <1>9 DEF Records!vars, Records!locals, NewestInv, Place
  <1> QED BY <1>4, <1>5, <1>6, <1>7, <1>8, <1>9 DEF Records!Next

\* A claimed run has one record, and nobody is writing.
LEMMA RunInit == Records!Init => RunInv
  <1> SUFFICES ASSUME Records!Init PROVE RunInv
    OBVIOUS
  <1> DEFINE w == "worker"
  <1>1. Records!Queued \in Records!Run /\ Records!Queued.status = "queued"
    BY DEF Records!Queued, Records!Run, Records!Status, Records!Open
  <1>2. /\ state = "queued" /\ runs = <<Records!Queued>> /\ events = << >> /\ outcome = "none"
        /\ step[w] = "start" /\ \A c \in Cancellers : step[c] = "idle" /\ after[c] = "over"
        /\ stages = 0 /\ tried = 0 /\ attempts = 0 /\ raised = FALSE
    BY RunActors DEF Records!Init
  <1>3. RecordTypes
    <2>1. 0 \in 0 .. RunStages /\ 0 \in 0 .. Tries(RunStages)
      BY RunsAssumption, NotesGrow
    <2>2. runs \in Seq(Records!Run) /\ runs # << >> /\ events \in Seq(Records!Event)
      BY <1>1, <1>2
    <2>3. /\ step \in [Records!Actors -> Records!Steps] /\ copy \in [Records!Actors -> Records!Run]
          /\ after \in [Records!Actors -> Records!Steps]
          /\ version \in [Records!Actors -> Nat] /\ count \in [Records!Actors -> Nat]
      BY <1>1 DEF Records!Init, Records!Steps
    <2>4. state \in Records!Status
      BY <1>2 DEF Records!Status, Records!Open
    <2> QED BY <1>2, <2>1, <2>2, <2>3, <2>4 DEF RecordTypes
  <1>4. Cancelling = {}
    BY <1>2 DEF Cancelling, Saves
  <1>5. CancelInv
    BY <1>2, <1>4 DEF CancelInv
  <1>6. WorkerInv /\ NewestInv
    BY <1>2 DEF WorkerInv, NewestInv, Place, Saves
  <1>7. WaveInv
    BY <1>2, NotesGrow DEF WaveInv, Place, Saves
  <1>8. EventInv
    BY <1>2 DEF EventInv, Place, Saves, Saving, Credit, Limit
  <1> QED BY <1>3, <1>5, <1>6, <1>7, <1>8 DEF RunInv

\* The steps of a run keep its invariant.
LEMMA RunStep == RunInv /\ [Records!Next]_Records!vars => RunInv'
  BY RecordTypesStep, CancelStep, WorkerInvStep, WaveStep, EventStep, NewestStep DEF RunInv

\* It says what the records promise.
LEMMA RunAgrees == RunInv => Records!RecordsAgree
  <1> SUFFICES ASSUME RunInv PROVE Records!RecordsAgree
    OBVIOUS
  <1> USE DEF RunInv
  <1>1. Records!TypeOK
    BY DEF RecordTypes, Records!TypeOK, Tries
  <1>2. Records!OutcomeIsTheSettlement
    BY DEF WorkerInv, Records!OutcomeIsTheSettlement
  <1>3. Records!NewestRecordAgrees
    <2> SUFFICES ASSUME \A a \in Records!Actors : step[a] \in {"idle", "over"}, ~raised
                 PROVE  runs[Len(runs)].status = state
      BY DEF Records!NewestRecordAgrees
    <2>1. step["worker"] \in {"idle", "over"}
      BY RunActors
    <2>2. step["worker"] = "over"
      BY <2>1 DEF WorkerInv, Place, Saves
    <2> QED BY <2>2 DEF NewestInv
  <1>4. Records!EventsWithinPage
    <2>1. /\ stages \in Nat /\ stages <= RunStages /\ tried \in Nat /\ Len(events) \in Nat
          /\ RunStages \in Nat /\ MaxAttempts \in Nat
      BY RunsAssumption DEF RecordTypes
    <2>2. Notes(stages) \in Nat /\ Notes(RunStages) \in Nat /\ Notes(stages) <= Notes(RunStages)
      BY <2>1, NotesGrow
    <2>3. stages < RunStages => Notes(stages) + 2 + MaxAttempts <= Notes(RunStages)
      <3>1. stages < RunStages => stages + 1 \in Nat /\ stages + 1 <= RunStages
        BY <2>1
      <3> QED BY <2>1, <3>1, NotesGrow
    <2> DEFINE p == Place("worker")
               L == Limit(p, stages, tried)
    <2>4. p \in {"usage", "usage_event", "stage"} => stages < RunStages
      BY DEF WaveInv
    <2>5. L \in Int /\ L <= 4 + Notes(RunStages)
      <3> HIDE DEF p
      <3> QED BY SMTT(60), <2>1, <2>2, <2>3, <2>4 DEF Limit
    <2>6. Len(events) <= L + 1
      <3>1. Saving \in {0, 1} /\ Credit \in {0, 1} /\ Len(events) + Saving <= L + Credit
        BY DEF EventInv, Saving, Credit
      <3> HIDE DEF L
      <3> QED BY <2>1, <2>5, <3>1
    <2>7. Len(events) <= 5 + Notes(RunStages)
      <3> HIDE DEF L
      <3> QED BY <2>1, <2>2, <2>5, <2>6
    <2> QED BY <2>7 DEF Records!EventsWithinPage, Notes
  <1> QED BY <1>1, <1>2, <1>3, <1>4 DEF Records!RecordsAgree

\* The records of the composition change by the steps of RunRecords only.
LEMMA ExecutionRecords == ExecutionsSpec => Records!Spec
  <1>1. ExecutionsInit => Records!Init
    BY DEF ExecutionsInit
  <1>2. [ExecutionsNext]_executionVars => [Records!Next]_Records!vars
    <2> SUFFICES ASSUME [ExecutionsNext]_executionVars, ~Records!Next PROVE UNCHANGED Records!vars
      OBVIOUS
    <2>1. UNCHANGED runVars
      BY DEF ExecutionsNext, executionVars, InRecords
    <2> QED BY <2>1 DEF runVars, Records!vars, Records!locals
  <1> QED BY <1>1, <1>2, PTL DEF ExecutionsSpec, Records!Spec

\* However worker, cancellations, crashes and the sweep interleave in _save and submit: the
\* outcome agrees with the request, the newest record of a run that ended normally shows the
\* request's state, and the events of a run stay within 5 + stages * (2 + attempts).
THEOREM RecordsAreRight == ExecutionsSpec => []RecordsAgree
  <1>1. Records!RecordsAgree => RecordsAgree
    BY DEF RecordsAgree
  <1> QED BY <1>1, ExecutionRecords, RunInit, RunStep, RunAgrees, PTL DEF Records!Spec

\* No step replaces a revision or an event that has been written (_save, save_event), although
\* worker and canceller compute the same next number.
THEOREM RecordsAreAppended == ExecutionsSpec => RecordsStay
  <1> DEFINE A == /\ Len(runs') >= Len(runs) /\ SubSeq(runs', 1, Len(runs)) = runs
                  /\ Len(events') >= Len(events) /\ SubSeq(events', 1, Len(events)) = events
  <1>1. RunInv /\ [Records!Next]_Records!vars => [A]_Records!vars
    <2> SUFFICES ASSUME RunInv, Records!Next PROVE A
      OBVIOUS
    <2>1. RecordTypes /\ runs \in Seq(Records!Run) /\ events \in Seq(Records!Event)
          /\ Len(runs) \in Nat /\ Len(events) \in Nat
      BY DEF RunInv, RecordTypes
    <2>2. SubSeq(runs, 1, Len(runs)) = runs /\ SubSeq(events, 1, Len(events)) = events
      BY <2>1
    <2>3. ASSUME NEW a \in Records!Actors, NEW label \in Records!Event, Records!IsNext(a),
                 Records!Insert(a, label), runs' = runs
          PROVE  A
      BY <2>1, <2>2, <2>3, Inserted
    <2>4. CASE runs' = runs /\ events' = events
      BY <2>1, <2>2, <2>4
    <2>5. ASSUME NEW a \in Records!Actors, Records!Saving(a) PROVE A
      <3>1. CASE Records!AppendRun(a)
        <4>1. copy[a] \in Records!Run /\ events' = events
          BY <2>1, <3>1 DEF Records!AppendRun, RecordTypes
        <4>2. CASE runs' = Append(runs, copy[a])
          BY <2>1, <2>2, <4>1, <4>2, Appended
        <4> QED BY <2>4, <3>1, <4>1, <4>2 DEF Records!AppendRun
      <3>2. CASE Records!AppendEvent(a)
        BY <2>3, <2>4, <3>2 DEF Records!AppendEvent, Records!Event
      <3>3. CASE Records!ReadLatest(a) \/ Records!CountEvents(a)
        BY <2>4, <3>3 DEF Records!ReadLatest, Records!CountEvents
      <3> QED BY <2>5, <3>1, <3>2, <3>3 DEF Records!Saving
    <2>6. CASE Records!UsageEvent \/ Records!ErrorEvent
      BY <2>3, <2>4, <2>6, RunActors DEF Records!UsageEvent, Records!ErrorEvent, Records!Event
    <2>7. CASE Records!Submit
      BY <2>4, <2>5, <2>6, <2>7, RunActors DEF Records!Submit, Records!StartRun, Records!Begin,
         Records!Frontier, Records!Stage, Records!Checkpoint, Records!HandleError, Records!Final,
         Records!Advance, Records!RecordOutcome, Records!FinishRuntime
    <2>8. ASSUME NEW c \in Cancellers, Records!Cancel(c) PROVE A
      BY <2>4, <2>5, <2>8, RunActors DEF Records!Cancel, Records!ReadRun, Records!CancelRequest
    <2>9. CASE Records!Crash \/ Records!Sweep
      BY <2>4, <2>9 DEF Records!Crash, Records!Sweep
    <2> QED BY <2>7, <2>8, <2>9 DEF Records!Next
  <1>2. RecordsStay <=> [][A]_Records!vars
    BY DEF RecordsStay, Records!AppendOnly
  <1> HIDE DEF A
  <1> QED BY <1>1, <1>2, ExecutionRecords, RunInit, RunStep, PTL DEF Records!Spec
=============================================================================
