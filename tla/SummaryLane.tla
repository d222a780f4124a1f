------------------------------ MODULE SummaryLane -----------------------------
(***************************************************************************)
(* A summary from the work queue to #ops.  The queue hands a row to        *)
(* workers/ops-summarizer (/summarize), which starts a GitHub Actions run  *)
(* and answers `leased'; the run writes the summary and hands it back      *)
(* (/post), and the Worker posts it and acks the row; a run that fails     *)
(* says so (/fail).  Every one of these calls may fail, or be answered in  *)
(* vain.                                                                   *)
(*                                                                         *)
(* Runs are serialised by row id, and the ids count up in each topic's     *)
(* queue by itself, so two jobs may share one.  The interleaving of the    *)
(* queue's own steps is in WorkQueue: here a row is tried in one step.     *)
(***************************************************************************)
EXTENDS Integers

CONSTANTS
  Job, RowId, IdOf,   \* work items, row ids, and each item's row id
  MaxAttempts,
  Lease, RunLimit,    \* LEASE_MS, and the workflow's timeout-minutes
  None                \* no run

ASSUME LaneAssumption ==
  /\ IdOf \in [Job -> RowId] /\ None \notin Job
  /\ MaxAttempts \in Nat \ {0} /\ Lease \in Nat /\ RunLimit \in 1 .. Lease - 1

VARIABLES
  row,    \* each job's row in its queue
  first,  \* by row id: the run that waits for a runner, runs or reports
  next,   \* by row id: the run that waits behind it
  calm,   \* from now on nothing fails
  made,   \* history: summaries handed to /post, counted to two
  lost,   \* history: an answer of /summarize, or an ack, got lost
  late    \* history: a run waited so long that its lease may end before it

vars == <<row, first, next, calm, made, lost, late>>

NoRun == [job |-> None, at |-> "none", wait |-> 0, age |-> 0]
Slack == Lease - RunLimit
Queued(j) == [job |-> j, at |-> "queued", wait |-> 0, age |-> 0]
Least(a, b) == IF a < b THEN a ELSE b

-----------------------------------------------------------------------------
(* The row *)

BugClosed(r, how) == [r EXCEPT !.at = how]      \* the lease outlives the row
Closed(r, how) == [r EXCEPT !.at = how, !.left = 0]

BugDue(j) == row[j].at = "open" /\ row[j].left = 0 /\ row[j].attempts < MaxAttempts
Due(j) == row[j].at = "open" /\ row[j].left = 0

Charge(r) == Least(r.attempts + 1, MaxAttempts)
Fails(r) ==
  IF Charge(r) = MaxAttempts THEN Closed(r, "dead") ELSE [r EXCEPT !.attempts = Charge(r)]

BugLeaseMs == RunLimit - 1                      \* a lease shorter than a run
LeaseMs == Lease
Leased(r) == [r EXCEPT !.left = LeaseMs, !.attempts = Charge(r)]

\* ack(): a row that is gone is no error; a failure is not charged again.
Acked(r) == IF r.at = "open" THEN Closed(r, "gone") ELSE r
AckedFailed(r) ==
  IF r.at # "open" THEN r
  ELSE IF r.attempts >= MaxAttempts THEN Closed(r, "dead") ELSE [r EXCEPT !.left = 0]

-----------------------------------------------------------------------------
(* GitHub Actions: one run of a row id at a time.  One more may wait, and a *)
(* third takes its place without a word to anybody.                         *)

Launch(j) ==
  LET id == IdOf[j] IN
  IF first[id] = NoRun
    THEN first' = [first EXCEPT ![id] = Queued(j)] /\ UNCHANGED next
    ELSE next' = [next EXCEPT ![id] = Queued(j)] /\ UNCHANGED first

RunEnds(id) ==
  /\ first' = [first EXCEPT ![id] = next[id]]
  /\ next' = [next EXCEPT ![id] = NoRun]

RunStarts(id) ==
  /\ first[id].at = "queued"
  /\ first' = [first EXCEPT ![id].at = "running"]
  /\ UNCHANGED <<row, next, calm, made, lost, late>>

\* The runner is lost, or the run is never made.
RunVanishes(id) ==
  /\ first[id] # NoRun /\ ~calm
  /\ RunEnds(id)
  /\ UNCHANGED <<row, calm, made, lost, late>>

-----------------------------------------------------------------------------
(* /summarize: retrieval never fails, it finds nothing instead *)

Dispatched(j) ==
  /\ Due(j) /\ Launch(j)
  /\ row' = [row EXCEPT ![j] = Leased(@)]
  /\ UNCHANGED <<calm, made, lost, late>>

\* GitHub's 204, or the Worker's answer to the queue, is lost.
DispatchUnanswered(j) ==
  /\ Due(j) /\ ~calm /\ Launch(j)
  /\ row' = [row EXCEPT ![j] = Fails(@)]
  /\ lost' = [lost EXCEPT ![j] = TRUE]
  /\ UNCHANGED <<calm, made, late>>

\* Any 4xx is for good, a rate limit of GitHub's too; the rest is tried again:
\* 5xx, no answer, no token for the App.
DispatchFails(j) ==
  /\ Due(j) /\ ~calm
  /\ row' \in {[row EXCEPT ![j] = Fails(@)], [row EXCEPT ![j] = Closed(@, "dead")]}
  /\ UNCHANGED <<first, next, calm, made, lost, late>>

-----------------------------------------------------------------------------
(* The run's last steps: /post, and /fail if anything before it went wrong.  *)
(* Whether Discord took the message makes no difference.                     *)

RunPosts(id) ==
  LET j == first[id].job IN
  /\ first[id].at = "running"
  /\ made' = [made EXCEPT ![j] = Least(@ + 1, 2)]
  /\ \E acked, answered \in IF calm THEN {TRUE} ELSE BOOLEAN :
       /\ row' = IF acked THEN [row EXCEPT ![j] = Acked(@)] ELSE row
       /\ lost' = [lost EXCEPT ![j] = @ \/ ~acked]
       /\ IF answered THEN RunEnds(id)
          ELSE first' = [first EXCEPT ![id].at = "failing"] /\ UNCHANGED next
  /\ UNCHANGED <<calm, late>>

RunFails(id) ==
  /\ first[id].at = "running" /\ ~calm
  /\ first' = [first EXCEPT ![id].at = "failing"]
  /\ UNCHANGED <<row, next, calm, made, lost, late>>

\* The report is tried once.
RunReports(id) ==
  /\ first[id].at = "failing"
  /\ \/ row' = [row EXCEPT ![first[id].job] = AckedFailed(@)]
     \/ ~calm /\ UNCHANGED row
  /\ RunEnds(id)
  /\ UNCHANGED <<calm, made, lost, late>>

-----------------------------------------------------------------------------
CalmDown ==
  /\ ~calm /\ calm' = TRUE
  /\ UNCHANGED <<row, first, next, made, lost, late>>

\* A run is over, its report included, when its time is up.
Waited(run) == IF run.at = "queued" THEN [run EXCEPT !.wait = Least(@ + 1, Slack)] ELSE run
Aged(run) == IF run.at \in {"running", "failing"} THEN [run EXCEPT !.age = @ + 1] ELSE Waited(run)

Tick ==
  /\ \A id \in RowId : first[id].age < RunLimit
  /\ row' = [j \in Job |-> [row[j] EXCEPT !.left = IF @ = 0 THEN 0 ELSE @ - 1]]
  /\ first' = [id \in RowId |-> Aged(first[id])]
  /\ next' = [id \in RowId |-> Waited(next[id])]
  /\ late' = [j \in Job |->
       late[j] \/ \E run \in {first'[IdOf[j]], next'[IdOf[j]]} : run.job = j /\ run.wait = Slack]
  /\ UNCHANGED <<calm, made, lost>>

Init ==
  /\ row = [j \in Job |-> [at |-> "open", left |-> 0, attempts |-> 0]]
  /\ first = [id \in RowId |-> NoRun] /\ next = [id \in RowId |-> NoRun]
  /\ calm = FALSE /\ made = [j \in Job |-> 0]
  /\ lost = [j \in Job |-> FALSE] /\ late = [j \in Job |-> FALSE]

RunStep(id) == RunStarts(id) \/ RunPosts(id) \/ RunReports(id)

Next ==
  \/ \E j \in Job : Dispatched(j) \/ DispatchUnanswered(j) \/ DispatchFails(j)
  \/ \E id \in RowId : RunStep(id) \/ RunFails(id) \/ RunVanishes(id)
  \/ CalmDown \/ Tick

Spec == Init /\ [][Next]_vars
\* The queue's alarm tries what is due, runs get a runner and do their steps.
FairSpec ==
  /\ Spec /\ WF_vars(Tick)
  /\ \A j \in Job : WF_vars(Dispatched(j))
  /\ \A id \in RowId : WF_vars(RunStep(id))

-----------------------------------------------------------------------------
Run == [job : Job \cup {None}, at : {"none", "queued", "running", "failing"},
        wait : 0 .. Slack, age : 0 .. RunLimit]

TypeOK ==
  /\ row \in [Job -> [at : {"open", "gone", "dead"}, left : 0 .. Lease, attempts : 0 .. MaxAttempts]]
  /\ \A j \in Job : row[j].at # "open" => row[j].left = 0
  /\ first \in [RowId -> Run] /\ next \in [RowId -> Run]
  /\ calm \in BOOLEAN /\ made \in [Job -> 0 .. 2]
  /\ lost \in [Job -> BOOLEAN] /\ late \in [Job -> BOOLEAN]

\* A job is taken off the queue as done only when its own summary was made, and
\* it is summarised twice, or given up although it was summarised, only when a
\* call got lost or its run had to wait for what the lease exceeds a run by: a
\* wait that the other topic's run under the same row id is enough for.
OnceUnlessLost ==
  \A j \in Job :
    /\ row[j].at = "gone" => made[j] > 0
    /\ made[j] > 1 \/ (made[j] > 0 /\ row[j].at = "dead") => lost[j] \/ late[j]

\* Once nothing fails every job leaves the queue, also one whose run was pushed
\* aside by another's, and one whose attempts are used up by leases.
Settles == calm ~> \A j \in Job : row[j].at # "open"
=============================================================================
