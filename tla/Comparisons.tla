----------------------------- MODULE Comparisons -----------------------------
(***************************************************************************)
(* Comparisons.submit and Comparisons.get (execution_comparisons.py): a    *)
(* request runs every policy on every sample as a child run of its own,    *)
(* and each read brings the stored cells up to date with the runs.         *)
(*                                                                         *)
(* A caller submits or reads; callers with the same idempotency key and    *)
(* concurrent readers overlap at every database access, and runs go on     *)
(* meanwhile.  The output of a run is the number of its stages checkpointed*)
(* (each replaces output_reference), and the checks of a cell are the      *)
(* output they were computed from; 0 is none.  Outputs and samples expire. *)
(***************************************************************************)
EXTENDS Naturals, FiniteSets

CONSTANTS
    Policies, Samples,
    Cost,          \* max_cost_micro_usd of each policy
    Caps,          \* max_cost_micro_usd a request may come with
    Callers,
    Stages,        \* stages of each policy
    MaxAttempts,   \* bound: attempts of a run
    MaxReads,      \* bound: reads of the comparison, after which there are no requests
    MaxChanges,    \* bound: steps of the runs, and expiries
    None

VARIABLES
    cap,           \* max_cost_micro_usd of the request
    registered,    \* sandbox_requests has the comparison's key
    revision,      \* newest version of the comparison record, 0 for none
    cells,         \* its cells
    run,           \* the child runs
    gone,          \* outputs 1 .. gone[c] of a run have expired
    samples,       \* samples that have not expired
    pc, local,     \* callers
    reads, changes \* bounds

runVars == <<run, gone, samples>>
record == <<registered, revision, cells>>
vars == <<cap, record, runVars, pc, local, reads, changes>>

-----------------------------------------------------------------------------
Cells == Policies \X Samples
Outputs == {0} \cup UNION {1 .. Stages[p] : p \in Policies}
Cell == [status : {"not_run", "completed", "failed", "blocked"}, output : Outputs,
         checks : Outputs, attempts : 0 .. MaxAttempts]
Blank == [c \in Cells |-> [status |-> "not_run", output |-> 0, checks |-> 0, attempts |-> 0]]

\* "failed" stands for failed, uncertain and cancelled: a cell does not tell them apart.
Run == [state : {"queued", "running", "awaiting_approval", "succeeded", "failed"},
        output : Outputs, attempts : 0 .. MaxAttempts]

\* submit and get take the cells one after the other.
First(todo) == CHOOSE c \in todo : TRUE

\* What a caller holds: the record it read, the cells so far, those left, the cell in hand
\* and what it read of its run.
Local ==
    [base : 0 .. revision, saved : [Cells -> Cell], result : [Cells -> Cell], todo : SUBSET Cells,
     cell : Cells \cup {None}, output : Outputs, state : STRING, attempts : 0 .. MaxAttempts]
Nothing == [base |-> 0, saved |-> Blank, result |-> Blank, todo |-> {}, cell |-> None,
            output |-> 0, state |-> "", attempts |-> 0]

TypeOK ==
    /\ cap \in Caps /\ registered \in BOOLEAN /\ revision \in Nat /\ cells \in [Cells -> Cell]
    /\ \A c \in Cells : run[c] = None \/ run[c] \in Run
    /\ gone \in [Cells -> Outputs] /\ samples \subseteq Samples /\ reads \in 0 .. MaxReads
    /\ changes \in 0 .. MaxChanges
    /\ \A p \in Callers :
        /\ pc[p] \in {"idle", "register", "save", "child", "latest", "record", "state", "attempts",
                      "output", "write"}
        /\ local[p].base \in 0 .. revision /\ local[p].result \in [Cells -> Cell]
        /\ local[p].todo \subseteq Cells

Init ==
    /\ cap \in Caps /\ registered = FALSE /\ revision = 0 /\ cells = Blank
    /\ run = [c \in Cells |-> None] /\ gone = [c \in Cells |-> 0] /\ samples = Samples
    /\ pc = [p \in Callers |-> "idle"] /\ local = [p \in Callers |-> Nothing]
    /\ reads = 0 /\ changes = 0

Goto(p, step, mine) == pc' = [pc EXCEPT ![p] = step] /\ local' = [local EXCEPT ![p] = mine]
End(p) == Goto(p, "idle", Nothing)

-----------------------------------------------------------------------------
(* submit *)

\* The sum of f over S, counted unit by unit.
Total(f, S) == Cardinality(UNION {{i} \X (1 .. f[i]) : i \in S})

\* The sum of the policies' caps, once for each sample.
Envelope_EachPolicy == \A p \in Policies : Cost[p] * Cardinality(Samples) <= cap
Envelope == Total(Cost, Policies) * Cardinality(Samples) <= cap

Submit(p) ==
    /\ pc[p] = "idle" /\ reads < MaxReads /\ samples = Samples /\ Envelope
    /\ Goto(p, "register", Nothing)
    /\ UNCHANGED <<cap, record, runVars, reads, changes>>

\* register_request: a second request with the key reads the comparison instead.
Register(p) ==
    /\ pc[p] = "register" /\ registered' = TRUE
    /\ Goto(p, IF registered THEN "latest" ELSE "save", Nothing)
    /\ UNCHANGED <<cap, revision, cells, runVars, reads, changes>>

\* Every child's identifier is stored before the first child is queued.
Save_AfterFirstChild(p) ==
    /\ pc[p] = "save"
    /\ \E c \in Cells : run' = [run EXCEPT ![c] = [state |-> "queued", output |-> 0, attempts |-> 0]]
    /\ Goto(p, "child", [Nothing EXCEPT !.todo = Cells])
    /\ UNCHANGED <<cap, record, gone, samples, reads, changes>>
Save(p) ==
    /\ pc[p] = "save" /\ revision' = 1 /\ cells' = Blank
    /\ Goto(p, "child", [Nothing EXCEPT !.todo = Cells])
    /\ UNCHANGED <<cap, registered, runVars, reads, changes>>

\* QueuedWorkflows.submit and enqueue_runtime.
Child(p) ==
    /\ pc[p] = "child"
    /\ LET c == First(local[p].todo) IN
        /\ c[2] \in samples
        /\ run' = IF run[c] # None THEN run
                  ELSE [run EXCEPT ![c] = [state |-> "queued", output |-> 0, attempts |-> 0]]
        /\ IF local[p].todo = {c} THEN End(p)
           ELSE Goto(p, "child", [local[p] EXCEPT !.todo = @ \ {c}])
    /\ UNCHANGED <<cap, record, gone, samples, reads, changes>>

\* The policy was disabled, the key revoked, the deadline has passed, the sample has expired
\* or the process dies: the children left are never queued.  (A reader that goes away has
\* changed nothing.)
Abandon(p) ==
    /\ pc[p] \in {"register", "save", "child"} /\ End(p)
    /\ UNCHANGED <<cap, record, runVars, reads, changes>>

-----------------------------------------------------------------------------
(* get *)

Get(p) ==
    /\ pc[p] = "idle" /\ revision > 0 /\ reads < MaxReads /\ Goto(p, "latest", Nothing)
    /\ UNCHANGED <<cap, record, runVars, reads, changes>>

\* latest: not found between a comparison's registration and its first revision.
Latest(p) ==
    /\ pc[p] = "latest" /\ reads < MaxReads /\ reads' = reads + 1
    /\ IF revision = 0 THEN End(p)
       ELSE Goto(p, "record", [Nothing EXCEPT !.base = revision, !.saved = cells,
                                              !.result = cells, !.todo = Cells])
    /\ UNCHANGED <<cap, record, runVars, changes>>

\* The cell in hand is finished with.
Put(p, c, cell) ==
    Goto(p, IF local[p].todo = {c} THEN "write" ELSE "record",
         [local[p] EXCEPT !.result[c] = cell, !.todo = @ \ {c}, !.cell = None, !.output = 0,
                          !.state = "", !.attempts = 0])

\* WorkflowRunner.get reads the run record first, then the request's state.
ReadRecord(p) ==
    /\ pc[p] = "record"
    /\ LET c == First(local[p].todo) IN
       IF run[c] = None THEN Put(p, c, [local[p].saved[c] EXCEPT !.status = "blocked"])
       ELSE Goto(p, "state", [local[p] EXCEPT !.cell = c, !.output = run[c].output])
    /\ UNCHANGED <<cap, record, runVars, reads, changes>>
ReadState(p) ==
    /\ pc[p] = "state"
    /\ Goto(p, "attempts", [local[p] EXCEPT !.state = run[local[p].cell].state])
    /\ UNCHANGED <<cap, record, runVars, reads, changes>>

ReadAttempts_Once(p) ==
    /\ pc[p] = "attempts"
    /\ LET mine == local[p]
           known == mine.saved[mine.cell].attempts
       IN  Goto(p, "output", [mine EXCEPT !.attempts = IF known > 0 THEN known ELSE run[mine.cell].attempts])
    /\ UNCHANGED <<cap, record, runVars, reads, changes>>
ReadAttempts(p) ==
    /\ pc[p] = "attempts"
    /\ LET mine == local[p]
       IN  Goto(p, "output", [mine EXCEPT !.attempts = run[mine.cell].attempts])
    /\ UNCHANGED <<cap, record, runVars, reads, changes>>

\* Output and sample may have expired: then what the cell has is kept.
Checks_OnlyFresh(mine) ==
    IF mine.output > gone[mine.cell] /\ mine.cell[2] \in samples THEN mine.output ELSE 0
Checks(mine) ==
    IF mine.output > gone[mine.cell] /\ mine.cell[2] \in samples
    THEN mine.output ELSE mine.saved[mine.cell].checks
StatusOf_Unmapped(mine) ==
    IF mine.state = "succeeded" THEN "completed" ELSE mine.state
StatusOf(mine) ==
    CASE mine.state = "succeeded" /\ mine.output > 0 /\ mine.attempts > 0 -> "completed"
      [] mine.state = "failed" -> "failed"
      [] mine.state = "awaiting_approval" -> "blocked"
      [] OTHER -> "not_run"
ReadOutput(p) ==
    /\ pc[p] = "output"
    /\ LET mine == local[p] IN
       Put(p, mine.cell, [status |-> StatusOf(mine), output |-> mine.output,
                          checks |-> Checks(mine), attempts |-> mine.attempts])
    /\ UNCHANGED <<cap, record, runVars, reads, changes>>

\* Changed cells are appended as the next revision; when another reader has appended it, the
\* read fails or, with equal cells, changes nothing.
Write_NextFree(p) ==
    /\ pc[p] = "write"
    /\ IF local[p].result # local[p].saved
       THEN revision' = revision + 1 /\ cells' = local[p].result
       ELSE UNCHANGED <<revision, cells>>
    /\ End(p)
    /\ UNCHANGED <<cap, registered, runVars, reads, changes>>
Write(p) ==
    /\ pc[p] = "write"
    /\ IF local[p].result # local[p].saved /\ revision = local[p].base
       THEN revision' = revision + 1 /\ cells' = local[p].result
       ELSE UNCHANGED <<revision, cells>>
    /\ End(p)
    /\ UNCHANGED <<cap, registered, runVars, reads, changes>>

-----------------------------------------------------------------------------
(* The runs, as RuntimeQueue and RunRecords have them, and retention *)

Change == changes < MaxChanges /\ changes' = changes + 1 /\ UNCHANGED <<cap, record, pc, local, reads>>
Step(c, new) == run' = [run EXCEPT ![c] = new] /\ UNCHANGED <<gone, samples>>
Work(c) ==
    /\ run[c] # None /\ Change
    /\ \/ run[c].state = "queued"
          /\ \E s \in {"running", "failed"} : Step(c, [run[c] EXCEPT !.state = s])
       \/ /\ run[c].state = "running" /\ run[c].attempts < MaxAttempts
          /\ Step(c, [run[c] EXCEPT !.attempts = @ + 1])
       \/ /\ run[c].state = "running" /\ run[c].output < Stages[c[1]]
          /\ Step(c, [run[c] EXCEPT !.output = @ + 1])
       \/ /\ run[c].state = "running" /\ run[c].output = Stages[c[1]]
          /\ Step(c, [run[c] EXCEPT !.state = "succeeded"])
       \/ /\ run[c].state = "running"
          /\ \E s \in {"failed", "awaiting_approval"} : Step(c, [run[c] EXCEPT !.state = s])

OutputExpires(c) ==
    /\ Change /\ run[c] # None /\ gone[c] < run[c].output /\ gone' = [gone EXCEPT ![c] = @ + 1]
    /\ UNCHANGED <<run, samples>>
SampleExpires(s) ==
    /\ Change /\ s \in samples /\ samples' = samples \ {s}
    /\ UNCHANGED <<run, gone>>

-----------------------------------------------------------------------------
Call(p) ==
    \/ Submit(p) \/ Register(p) \/ Save(p) \/ Child(p) \/ Abandon(p)
    \/ Get(p) \/ Latest(p) \/ ReadRecord(p) \/ ReadState(p)
    \/ ReadAttempts(p) \/ ReadOutput(p) \/ Write(p)

Next ==
    \/ \E p \in Callers : Call(p)
    \/ \E c \in Cells : Work(c) \/ OutputExpires(c)
    \/ \E s \in Samples : SampleExpires(s)

Spec == Init /\ [][Next]_vars

-----------------------------------------------------------------------------
(* Properties *)

\* "A crash can leave a blocked cell, never an untracked costed child": whenever a child run
\* exists, the stored comparison names it.
ChildrenAreTracked == (\E c \in Cells : run[c] # None) => revision > 0

\* All the child runs together may spend at most the cap of the request, however often the
\* request is repeated.
WithinEnvelope ==
    Total([c \in Cells |-> Cost[c[1]]], {c \in Cells : run[c] # None}) <= cap

\* A cell once stored as completed or failed stays so in every later revision, although
\* readers overlap and finish in any order.
FinalCellsStay ==
    [][\A c \in Cells : cells[c].status \in {"completed", "failed"} => cells'[c].status = cells[c].status]_vars

\* Checks once stored are not lost when the output or the sample expires, and no reader
\* replaces them by those of an earlier output.
ChecksNeverLost == [][\A c \in Cells : cells'[c].checks >= cells[c].checks]_vars

\* A completed cell lists the usage of every attempt of its run.
CompletedAccountsForAll ==
    \A c \in Cells : cells[c].status = "completed" => cells[c].attempts = run[c].attempts

\* What a comparison costs is bounded, tracked and accounted.
ComparisonSafety == TypeOK /\ ChildrenAreTracked /\ WithinEnvelope /\ CompletedAccountsForAll

\* The checks shown for a completed cell are those of the output it names.
ChecksMatchOutput ==
    \A c \in Cells :
        cells[c].status = "completed" /\ cells[c].checks # 0 => cells[c].checks = cells[c].output
=============================================================================
