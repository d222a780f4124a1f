------------------------------ MODULE WorkQueue ------------------------------
(***************************************************************************)
(* QueueDO, the durable queue of the bus's `work` class                    *)
(* (workers/fleet-bus/src/queue.js), together with the GitHub Actions runs *)
(* it hands jobs to and hears from through ack().                          *)
(*                                                                         *)
(* A Durable Object runs one event at a time but lets others in while it   *)
(* awaits a fetch.  So every handler is one step, except alarm(), which is *)
(* a step up to its first fetch and then one step per handler response;    *)
(* enqueue() and ack() run in between.  Storage survives a crash, the      *)
(* handler's locals (here `batch`) do not.                                 *)
(*                                                                         *)
(* Every stored deadline is kept as the time left until it, so 0 stands    *)
(* for all instants in the past and Tick is the passing of one time unit.  *)
(***************************************************************************)
EXTENDS Integers, FiniteSets

CONSTANTS
  MaxId,        \* bound: jobs ever enqueued (AUTOINCREMENT ids 1..MaxId)
  MaxAttempts,  \* MAX_ATTEMPTS
  Batch,        \* BATCH, jobs drained per alarm
  BaseBackoff,  \* BASE_BACKOFF_MS
  Lease,        \* LEASE_MS
  Cooldowns,    \* QUOTA_COOLDOWN_MS and the Retry-After values an upstream sends
  Outcomes      \* the handler responses of the environment under study

Id == 1 .. MaxId

AllOutcomes == {"ack", "leased", "parked", "terminal", "transient"}

\* Exponential backoff, BASE_BACKOFF_MS * 2 ** max(0, attempts - 1).
Backoff(n) == BaseBackoff * 2 ^ (IF n > 0 THEN n - 1 ELSE 0)

ASSUME ConstantsAssumption ==
  /\ MaxId \in Nat /\ MaxAttempts \in Nat \ {0} /\ Batch \in Nat \ {0}
  /\ BaseBackoff \in Nat \ {0} /\ Lease \in Nat \ {0}
  /\ Cooldowns \subseteq Nat \ {0}
  /\ Outcomes \subseteq AllOutcomes

\* Powers of two are positive and grow: the provers do not compute `^`.
ASSUME BackoffAssumption ==
  \A n \in 0 .. MaxAttempts + 1 :
    /\ Backoff(n) \in Nat \ {0}
    /\ \A m \in 0 .. n : Backoff(m) <= Backoff(n)

VARIABLES
  issued,       \* last_insert_rowid of jobs: ids 1..issued have been handed out
  jobs,         \* the jobs table: id -> row
  dead,         \* ids in the dead table
  parkedUntil,  \* qstate.parked_until, time left
  alarm,        \* time left to the DO's single alarm, or NoAlarm
  batch,        \* alarm()'s `rows` still to process: id -> attempts as read
  runs,         \* ids with an Actions run in progress
  completed     \* history: ids whose row was deleted by an ack

queueVars == <<issued, jobs, dead, parkedUntil, alarm, batch, completed>>
vars == <<queueVars, runs>>

NoAlarm == -1

\* Past MaxAttempts every test in the code gives the same answer, so the
\* counter saturates one above it.
AttemptsCap == MaxAttempts + 1
Charge(n) == IF n < AttemptsCap THEN n + 1 ELSE n

Row == [attempts : 0 .. AttemptsCap, notBefore : Nat, leasedUntil : Nat]

-----------------------------------------------------------------------------
(* The SQL statements, as functions on a table. *)

Insert(t, j)    == [i \in DOMAIN t \cup {j} |->
                      IF i = j THEN [attempts |-> 0, notBefore |-> 0, leasedUntil |-> 0]
                      ELSE t[i]]
Delete(t, j)    == [i \in DOMAIN t \ {j} |-> t[i]]
Update(t, j, r) == [i \in DOMAIN t |-> IF i = j THEN r ELSE t[i]]

\* WHERE not_before <= now AND leased_until <= now ORDER BY id LIMIT BATCH
BugDueIgnoresLease(t) == {i \in DOMAIN t : t[i].notBefore = 0}
Due(t)   == {i \in DOMAIN t : t[i].notBefore = 0 /\ t[i].leasedUntil = 0}
Drain(t) == {i \in Due(t) : Cardinality({k \in Due(t) : k < i}) < Batch}

\* MAX(not_before, leased_until), and its MIN over the table.
RunnableIn(r) == IF r.notBefore > r.leasedUntil THEN r.notBefore ELSE r.leasedUntil
Earliest(t) == CHOOSE m \in {RunnableIn(t[i]) : i \in DOMAIN t} :
                 \A i \in DOMAIN t : m <= RunnableIn(t[i])

\* #ensureAlarm: what the alarm becomes, given the table and what it was.
BugEnsureAlarm(t, existing, force) ==
  IF DOMAIN t = {} \/ force THEN existing
  ELSE IF existing = NoAlarm \/ Earliest(t) < existing THEN Earliest(t)
  ELSE existing
EnsureAlarm(t, existing, force) ==
  IF DOMAIN t = {} THEN existing
  ELSE IF force \/ existing = NoAlarm \/ Earliest(t) < existing THEN Earliest(t)
  ELSE existing

-----------------------------------------------------------------------------
(* Publishers and the workflow's callbacks. *)

BugEnqueue ==                       \* no AUTOINCREMENT: rowids are reused
  LET id == 1 + Cardinality(DOMAIN jobs) IN
  /\ id \in Id \ DOMAIN jobs
  /\ issued' = id
  /\ jobs' = Insert(jobs, id)
  /\ alarm' = EnsureAlarm(jobs', alarm, FALSE)
  /\ UNCHANGED <<dead, parkedUntil, batch, runs, completed>>
Enqueue ==
  /\ issued < MaxId
  /\ issued' = issued + 1
  /\ jobs' = Insert(jobs, issued + 1)
  /\ alarm' = EnsureAlarm(jobs', alarm, FALSE)
  /\ UNCHANGED <<dead, parkedUntil, batch, runs, completed>>

\* ack(id): an unknown id is a no-op.
AckSuccess(j) ==
  /\ j \in runs
  /\ jobs' = Delete(jobs, j)
  /\ completed' = completed \cup ({j} \cap DOMAIN jobs)
  /\ UNCHANGED <<issued, dead, parkedUntil, alarm, batch, runs>>

\* ack(id, {failed}): dead-letter at the limit, otherwise drop the lease and
\* back off.  The attempt was charged when the lease was taken.
BugFailRow(row) == [row EXCEPT !.leasedUntil = 0, !.notBefore = Backoff(row.attempts),
                               !.attempts = Charge(@)]
FailRow(row) == [row EXCEPT !.leasedUntil = 0, !.notBefore = Backoff(row.attempts)]

AckUnknown(j) ==
  /\ j \notin DOMAIN jobs
  /\ UNCHANGED <<jobs, dead, alarm>>

AckBury(j) ==
  /\ j \in DOMAIN jobs /\ jobs[j].attempts >= MaxAttempts
  /\ jobs' = Delete(jobs, j)
  /\ dead' = dead \cup {j}
  /\ UNCHANGED alarm

AckRetry(j) ==
  /\ j \in DOMAIN jobs /\ jobs[j].attempts < MaxAttempts
  /\ jobs' = Update(jobs, j, FailRow(jobs[j]))
  /\ alarm' = EnsureAlarm(jobs', alarm, TRUE)
  /\ UNCHANGED dead

AckFailed(j) ==
  /\ j \in runs
  /\ AckUnknown(j) \/ AckBury(j) \/ AckRetry(j)
  /\ runs' = runs \ {j}
  /\ UNCHANGED <<issued, parkedUntil, batch, completed>>

\* The run is over, or was killed, and no further callback will arrive.
RunEnds(j) ==
  /\ j \in runs
  /\ runs' = runs \ {j}
  /\ UNCHANGED queueVars

-----------------------------------------------------------------------------
(* alarm() *)

Running == DOMAIN batch # {}

\* The row whose fetch is in flight: rows are taken in id order.
Current == CHOOSE j \in DOMAIN batch : \A i \in DOMAIN batch : j <= i

AlarmDue == alarm = 0 /\ ~Running

\* Inside the quota cooldown: come back when it ends.
AlarmParked ==
  /\ AlarmDue
  /\ parkedUntil > 0
  /\ alarm' = parkedUntil
  /\ UNCHANGED <<issued, jobs, dead, parkedUntil, batch, runs, completed>>

\* Read the due rows.  With none there is no fetch to await and alarm() runs on
\* to its closing #ensureAlarm.  getAlarm() is null while the handler runs.
AlarmDrain ==
  /\ AlarmDue
  /\ parkedUntil = 0
  /\ batch' = [i \in Drain(jobs) |-> jobs[i].attempts]
  /\ alarm' = IF Drain(jobs) = {} THEN EnsureAlarm(jobs, NoAlarm, TRUE) ELSE NoAlarm
  /\ UNCHANGED <<issued, jobs, dead, parkedUntil, runs, completed>>

\* The handler starts the workflow before it answers, so the run exists before
\* the lease does.
HandlerStartsRun ==
  /\ Running
  /\ "leased" \in Outcomes
  /\ runs' = runs \cup {Current}
  /\ UNCHANGED queueVars

\* A row is done with: go on to the next, after the last one re-arm.
Proceed(table) ==
  /\ jobs' = table
  /\ batch' = Delete(batch, Current)
  /\ alarm' = IF DOMAIN batch = {Current} THEN EnsureAlarm(table, alarm, TRUE)
              ELSE alarm

HandlerAck ==
  /\ Running
  /\ "ack" \in Outcomes
  /\ Proceed(Delete(jobs, Current))
  /\ completed' = completed \cup ({Current} \cap DOMAIN jobs)
  /\ UNCHANGED <<issued, dead, parkedUntil, runs>>

\* Both UPDATEs write attempts from the row as read before the fetch.
LeaseRow(j) == [jobs[j] EXCEPT !.leasedUntil = Lease, !.attempts = Charge(batch[j])]
RetryRow(j) == [jobs[j] EXCEPT !.attempts = Charge(batch[j]),
                               !.notBefore = Backoff(Charge(batch[j]))]

BugHandlerLeased ==
  /\ Running
  /\ "leased" \in Outcomes /\ Current \in runs
  /\ Proceed(Delete(jobs, Current))
  /\ UNCHANGED <<issued, dead, parkedUntil, runs, completed>>
HandlerLeased ==
  /\ Running
  /\ "leased" \in Outcomes /\ Current \in runs
  /\ Proceed(Update(jobs, Current, LeaseRow(Current)))
  /\ UNCHANGED <<issued, dead, parkedUntil, runs, completed>>

\* Quota: the rest of the batch is abandoned untouched, this row included.
BugHandlerParked ==
  /\ Running
  /\ "parked" \in Outcomes
  /\ \E d \in Cooldowns :
       /\ parkedUntil' = d
       /\ Proceed(jobs)
  /\ UNCHANGED <<issued, dead, runs, completed>>
HandlerParked ==
  /\ Running
  /\ "parked" \in Outcomes
  /\ \E d \in Cooldowns : parkedUntil' = d /\ alarm' = d
  /\ batch' = [i \in {} |-> 0]
  /\ UNCHANGED <<issued, jobs, dead, runs, completed>>

\* The dead row is written from `rows`: it does not ask whether the job is
\* still in the table.
BugHandlerBuries ==
  /\ Running
  /\ dead' = dead \cup {Current}
  /\ Proceed(jobs)
  /\ UNCHANGED <<issued, parkedUntil, runs, completed>>
HandlerBuries ==
  /\ Running
  /\ \/ "terminal" \in Outcomes
     \/ "transient" \in Outcomes /\ Charge(batch[Current]) >= MaxAttempts
  /\ dead' = dead \cup {Current}
  /\ Proceed(Delete(jobs, Current))
  /\ UNCHANGED <<issued, parkedUntil, runs, completed>>

HandlerFails ==
  /\ Running
  /\ "transient" \in Outcomes /\ Charge(batch[Current]) < MaxAttempts
  /\ Proceed(Update(jobs, Current, RetryRow(Current)))
  /\ UNCHANGED <<issued, dead, parkedUntil, runs, completed>>

Respond ==
  HandlerAck \/ HandlerLeased \/ HandlerParked \/ HandlerBuries \/ HandlerFails

\* The object is evicted or restarted during a fetch.  The runtime delivers an
\* alarm at least once: one whose handler did not return is delivered again,
\* unless a later setAlarm has taken its place.
Crash ==
  /\ Running
  /\ batch' = [i \in {} |-> 0]
  /\ alarm' = IF alarm = NoAlarm THEN 0 ELSE alarm
  /\ UNCHANGED <<issued, jobs, dead, parkedUntil, runs, completed>>

-----------------------------------------------------------------------------
Less(n) == IF n > 0 THEN n - 1 ELSE n
Age(r)  == [r EXCEPT !.notBefore = Less(@), !.leasedUntil = Less(@)]

Tick ==
  /\ jobs' = [i \in DOMAIN jobs |-> Age(jobs[i])]
  /\ parkedUntil' = Less(parkedUntil)
  /\ alarm' = Less(alarm)
  /\ UNCHANGED <<issued, dead, batch, runs, completed>>

Init ==
  /\ issued = 0
  /\ jobs = [i \in {} |-> 0]
  /\ dead = {} /\ completed = {} /\ runs = {}
  /\ parkedUntil = 0
  /\ alarm = NoAlarm
  /\ batch = [i \in {} |-> 0]

Next ==
  \/ Enqueue
  \/ \E j \in Id : AckSuccess(j) \/ AckFailed(j) \/ RunEnds(j)
  \/ AlarmParked \/ AlarmDrain
  \/ HandlerStartsRun \/ Respond \/ Crash
  \/ Tick

Spec == Init /\ [][Next]_vars

(***************************************************************************)
(* Time passes, the runtime delivers due alarms, and a fetch that is tried *)
(* again and again is not cut off by a crash every time.                   *)
(***************************************************************************)
FairSpec ==
  /\ Spec
  /\ WF_vars(Tick)
  /\ WF_vars(AlarmParked \/ AlarmDrain)
  /\ SF_vars(Respond)

-----------------------------------------------------------------------------
TypeOK ==
  /\ issued \in 0 .. MaxId
  /\ DOMAIN jobs \subseteq 1 .. issued
  /\ jobs \in [DOMAIN jobs -> Row]
  /\ dead \subseteq 1 .. issued
  /\ completed \subseteq 1 .. issued
  /\ runs \subseteq 1 .. issued
  /\ parkedUntil \in Nat
  /\ alarm \in Nat \cup {NoAlarm}
  /\ DOMAIN batch \subseteq 1 .. issued
  /\ batch \in [DOMAIN batch -> 0 .. AttemptsCap]

\* At-least-once: an accepted job is in the backlog until an ack deletes it or
\* it is dead-lettered, whatever crashes, expired leases and late callbacks do.
NothingLost == 1 .. issued = DOMAIN jobs \cup dead \cup completed

\* A job that has been dead-lettered or acked is never runnable again.
NoResurrection == DOMAIN jobs \cap (dead \cup completed) = {}

\* With work left and no drain running, the alarm is set; and whenever it is
\* set, also during a drain, it is no later than the first runnable instant (or
\* the end of the quota pause): no backlog sleeps until some unrelated publish
\* wakes it, not even after a crash.
WakesInTime ==
  DOMAIN jobs # {} =>
    /\ alarm = NoAlarm => Running
    /\ alarm <= parkedUntil \/ \A i \in DOMAIN jobs : alarm <= RunnableIn(jobs[i])

\* Quota is shared: no fetch is in flight while the queue is parked.
ParkedIsQuiet == parkedUntil > 0 => ~Running

\* The rows alarm() read before its fetches still say how often each remaining
\* job was tried, and that none of them is out under a lease, although acks and
\* enqueues have run in between.
SnapshotHolds ==
  \A i \in DOMAIN batch \cap DOMAIN jobs :
    jobs[i].attempts = batch[i] /\ jobs[i].leasedUntil = 0

\* Every accepted job leaves the backlog: done or dead-lettered.
EveryJobResolved == \A j \in Id : j \in DOMAIN jobs ~> j \notin DOMAIN jobs

\* queue.js:205-207: a workflow that never acks cannot retry forever.
NoEndlessRetry == \A j \in Id : <>[](j \notin DOMAIN batch)

\* The queue keeps the promise of its delivery class.
Ledger == INSTANCE WorkLedger WITH
            Job <- Id, pending <- DOMAIN jobs, buried <- dead
KeepsLedger == Ledger!Spec
=============================================================================
