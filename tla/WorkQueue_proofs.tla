-------------------------- MODULE WorkQueue_proofs ---------------------------
(***************************************************************************)
(* WorkQueue's safety properties, for any number of jobs, any batch size,  *)
(* lease, cooldowns and handler behaviour.                                 *)
(***************************************************************************)
EXTENDS WorkQueue, WellFoundedInduction, TLAPS

\* A non-empty set of natural numbers has a least element.
LEMMA LeastOfNats ==
  ASSUME NEW S, S \subseteq Nat, S # {}
  PROVE  \E m \in S : \A n \in S : m <= n
<1>1. PICK m \in S : \A n \in S : ~(<<n, m>> \in OpToRel(<, Nat))
  BY NatLessThanWellFounded, WFMin
<1>2. ASSUME NEW n \in S PROVE m <= n
  <2>1. ~(n < m)
    BY <1>1 DEF OpToRel
  <2>2. QED BY <2>1
<1>3. QED BY <1>2

\* Earliest is attained and is a lower bound (#ensureAlarm's MIN(MAX(..)) query).
LEMMA EarliestFacts ==
  ASSUME NEW t, DOMAIN t # {}, \A i \in DOMAIN t : t[i] \in Row
  PROVE  /\ Earliest(t) \in Nat
         /\ \A i \in DOMAIN t : Earliest(t) <= RunnableIn(t[i])
<1> DEFINE S == {RunnableIn(t[i]) : i \in DOMAIN t}
<1>1. S \subseteq Nat
  BY DEF Row, RunnableIn
<1>2. S # {}
  OBVIOUS
<1>3. \E m \in S : \A n \in S : m <= n
  BY <1>1, <1>2, LeastOfNats
<1>4. \E m \in S : \A i \in DOMAIN t : m <= RunnableIn(t[i])
  BY <1>3
<1>5. Earliest(t) \in S /\ \A i \in DOMAIN t : Earliest(t) <= RunnableIn(t[i])
  BY <1>4 DEF Earliest
<1>6. QED BY <1>1, <1>5

\* The row in flight is one of the batch.
LEMMA CurrentInBatch ==
  ASSUME TypeOK, Running
  PROVE  Current \in DOMAIN batch
<1>1. DOMAIN batch \subseteq Nat
  BY DEF TypeOK
<1>2. \E j \in DOMAIN batch : \A i \in DOMAIN batch : j <= i
  BY <1>1, LeastOfNats DEF Running
<1>3. QED BY <1>2 DEF Current

\* What #ensureAlarm leaves behind when there is work: an alarm no later than
\* the first runnable instant, provided it forces or starts from none or from
\* an alarm that was itself early enough.
LEMMA EnsureAlarmFacts ==
  ASSUME NEW t, \A i \in DOMAIN t : t[i] \in Row,
         NEW a \in Nat \cup {NoAlarm}, NEW force \in BOOLEAN
  PROVE  /\ EnsureAlarm(t, a, force) \in Nat \cup {NoAlarm}
         /\ DOMAIN t # {} => EnsureAlarm(t, a, force) # NoAlarm
         /\ DOMAIN t # {} /\ a # NoAlarm /\ ~force => EnsureAlarm(t, a, force) <= a
         /\ DOMAIN t # {} /\ (force \/ a = NoAlarm)
              => \A i \in DOMAIN t : EnsureAlarm(t, a, force) <= RunnableIn(t[i])
<1>1. CASE DOMAIN t = {}
  BY <1>1 DEF EnsureAlarm
<1>2. CASE DOMAIN t # {}
  <2>1. /\ Earliest(t) \in Nat
        /\ \A i \in DOMAIN t : Earliest(t) <= RunnableIn(t[i])
    BY <1>2, EarliestFacts
  <2>2. QED BY <1>2, <2>1 DEF EnsureAlarm, NoAlarm
<1>3. QED BY <1>1, <1>2

-----------------------------------------------------------------------------
(* Type correctness. *)

\* What the row updates write is a row.
LEMMA RowFacts ==
  ASSUME TypeOK
  PROVE  /\ \A n \in 0 .. AttemptsCap : Charge(n) \in 0 .. AttemptsCap
         /\ \A j \in DOMAIN jobs : jobs[j].attempts < MaxAttempts => FailRow(jobs[j]) \in Row
         /\ \A j \in DOMAIN jobs \cap DOMAIN batch : LeaseRow(j) \in Row
         /\ \A j \in DOMAIN jobs \cap DOMAIN batch :
              Charge(batch[j]) < MaxAttempts => RetryRow(j) \in Row
<1> USE ConstantsAssumption, BackoffAssumption
<1>1. \A n \in 0 .. AttemptsCap : Charge(n) \in 0 .. AttemptsCap
  BY DEF Charge, AttemptsCap
<1>2. \A n \in 0 .. AttemptsCap : n < MaxAttempts => Backoff(n) \in Nat
  BY DEF AttemptsCap
<1>3. ASSUME NEW j \in DOMAIN jobs, jobs[j].attempts < MaxAttempts
      PROVE  FailRow(jobs[j]) \in Row
  BY <1>2, <1>3 DEF FailRow, Row, TypeOK
<1>4. ASSUME NEW j \in DOMAIN jobs \cap DOMAIN batch
      PROVE  LeaseRow(j) \in Row
  BY <1>1 DEF LeaseRow, Row, TypeOK
<1>5. ASSUME NEW j \in DOMAIN jobs \cap DOMAIN batch, Charge(batch[j]) < MaxAttempts
      PROVE  RetryRow(j) \in Row
  BY <1>1, <1>2, <1>5 DEF RetryRow, Row, TypeOK
<1>6. QED BY <1>1, <1>3, <1>4, <1>5

\* The statements keep a table a table of rows.
LEMMA TableFacts ==
  ASSUME NEW t, \A i \in DOMAIN t : t[i] \in Row, NEW j, NEW r \in Row
  PROVE  /\ DOMAIN Insert(t, j) = DOMAIN t \cup {j}
         /\ Insert(t, j) \in [DOMAIN Insert(t, j) -> Row]
         /\ DOMAIN Delete(t, j) = DOMAIN t \ {j}
         /\ Delete(t, j) \in [DOMAIN Delete(t, j) -> Row]
         /\ DOMAIN Update(t, j, r) = DOMAIN t
         /\ Update(t, j, r) \in [DOMAIN Update(t, j, r) -> Row]
BY ConstantsAssumption DEF Insert, Delete, Update, Row, AttemptsCap

\* Proceed, whatever well-formed table it is given.
LEMMA ProceedFacts ==
  ASSUME TypeOK, Running, NEW t, Proceed(t), DOMAIN t \subseteq DOMAIN jobs,
         t \in [DOMAIN t -> Row]
  PROVE  /\ jobs' = t
         /\ DOMAIN jobs' \subseteq 1 .. issued /\ jobs' \in [DOMAIN jobs' -> Row]
         /\ DOMAIN batch' = DOMAIN batch \ {Current}
         /\ \A i \in DOMAIN batch' : batch'[i] = batch[i]
         /\ batch' \in [DOMAIN batch' -> 0 .. AttemptsCap]
         /\ alarm' \in Nat \cup {NoAlarm}
         /\ DOMAIN jobs' # {} /\ DOMAIN batch' = {}
              => alarm' # NoAlarm /\ \A i \in DOMAIN jobs' : alarm' <= RunnableIn(jobs'[i])
<1>1. Current \in DOMAIN batch
  BY CurrentInBatch
<1>2. jobs' = t /\ jobs' \in [DOMAIN jobs' -> Row] /\ DOMAIN jobs' \subseteq 1 .. issued
  BY DEF Proceed, TypeOK
<1>3. /\ DOMAIN batch' = DOMAIN batch \ {Current}
      /\ \A i \in DOMAIN batch' : batch'[i] = batch[i]
      /\ batch' \in [DOMAIN batch' -> 0 .. AttemptsCap]
  BY DEF Proceed, Delete, TypeOK
<1>4. alarm' \in Nat \cup {NoAlarm}
  BY EnsureAlarmFacts DEF Proceed, TypeOK
<1>5. ASSUME DOMAIN t # {}, DOMAIN batch' = {}
      PROVE  alarm' # NoAlarm /\ \A i \in DOMAIN t : alarm' <= RunnableIn(t[i])
  <2>1. DOMAIN batch = {Current}
    BY <1>1, <1>3, <1>5
  <2>2. alarm' = EnsureAlarm(t, alarm, TRUE)
    BY <2>1 DEF Proceed
  <2>3. QED BY <1>5, <2>2, EnsureAlarmFacts DEF TypeOK
<1>6. QED BY <1>2, <1>3, <1>4, <1>5

\* A tick shortens what is left of a deadline and never revives a past one.
LEMMA LessFacts ==
  /\ \A n \in Nat : Less(n) \in Nat /\ Less(n) <= n
  /\ \A m, n \in Nat : m <= n => Less(m) <= Less(n)
  /\ Less(NoAlarm) = NoAlarm
BY DEF Less, NoAlarm

LEMMA AgeFacts ==
  ASSUME NEW r \in Row
  PROVE  /\ Age(r) \in Row /\ Age(r).attempts = r.attempts
         /\ r.leasedUntil = 0 => Age(r).leasedUntil = 0
         /\ RunnableIn(r) \in Nat
         /\ RunnableIn(Age(r)) = Less(RunnableIn(r))
<1>1. /\ Age(r) \in Row /\ Age(r).attempts = r.attempts
      /\ Age(r).notBefore = Less(r.notBefore) /\ Age(r).leasedUntil = Less(r.leasedUntil)
  BY LessFacts DEF Age, Row
<1>2. r.notBefore \in Nat /\ r.leasedUntil \in Nat
  BY DEF Row
<1>3. QED BY <1>1, <1>2 DEF RunnableIn, Less

LEMMA TypeInit == Init => TypeOK
BY ConstantsAssumption DEF Init, TypeOK, NoAlarm

LEMMA TypeNext == TypeOK /\ [Next]_vars => TypeOK'
<1> SUFFICES ASSUME TypeOK, [Next]_vars
             PROVE  TypeOK'
  OBVIOUS
<1> USE DEF NoAlarm
<1>1. CASE Enqueue
  <2>1. jobs' \in [DOMAIN jobs' -> Row] /\ DOMAIN jobs' = DOMAIN jobs \cup {issued + 1}
    BY <1>1, ConstantsAssumption DEF Enqueue, Insert, Row, AttemptsCap, TypeOK
  <2>2. alarm' \in Nat \cup {NoAlarm}
    BY <1>1, <2>1, EnsureAlarmFacts DEF Enqueue, TypeOK
  <2>3. issued' \in 0 .. MaxId /\ issued + 1 \in 1 .. issued' /\ 1 .. issued \subseteq 1 .. issued'
    BY <1>1, ConstantsAssumption DEF Enqueue, TypeOK
  <2>4. QED BY <1>1, <2>1, <2>2, <2>3 DEF Enqueue, TypeOK
<1>2. ASSUME NEW j \in Id, AckSuccess(j)
      PROVE  TypeOK'
  <2>1. jobs' \in [DOMAIN jobs' -> Row] /\ DOMAIN jobs' \subseteq DOMAIN jobs
    BY <1>2 DEF AckSuccess, Delete, TypeOK
  <2>2. completed' \subseteq 1 .. issued
    BY <1>2 DEF AckSuccess, TypeOK
  <2>3. QED BY <1>2, <2>1, <2>2 DEF AckSuccess, TypeOK
<1>3. ASSUME NEW j \in Id, AckFailed(j)
      PROVE  TypeOK'
  <2>1. CASE AckUnknown(j)
    BY <1>3, <2>1 DEF AckFailed, AckUnknown, TypeOK
  <2>2. CASE AckBury(j)
    <3>1. jobs' \in [DOMAIN jobs' -> Row] /\ DOMAIN jobs' \subseteq DOMAIN jobs
      BY <2>2 DEF AckBury, Delete, TypeOK
    <3>2. QED BY <1>3, <2>2, <3>1 DEF AckFailed, AckBury, TypeOK
  <2>3. CASE AckRetry(j)
    <3>1. jobs' \in [DOMAIN jobs' -> Row] /\ DOMAIN jobs' = DOMAIN jobs
      BY <2>3, RowFacts DEF AckRetry, Update, TypeOK
    <3>2. alarm' \in Nat \cup {NoAlarm}
      BY <2>3, <3>1, EnsureAlarmFacts DEF AckRetry, TypeOK
    <3>3. QED BY <1>3, <2>3, <3>1, <3>2 DEF AckFailed, AckRetry, TypeOK
  <2>4. QED BY <1>3, <2>1, <2>2, <2>3 DEF AckFailed
<1>4. ASSUME NEW j \in Id, RunEnds(j)
      PROVE  TypeOK'
  BY <1>4 DEF RunEnds, queueVars, TypeOK
<1>5. CASE AlarmParked
  BY <1>5 DEF AlarmParked, TypeOK
<1>6. CASE AlarmDrain
  <2>1. DOMAIN batch' \subseteq 1 .. issued /\ batch' \in [DOMAIN batch' -> 0 .. AttemptsCap]
    BY <1>6 DEF AlarmDrain, Drain, Due, Row, TypeOK
  <2>2. alarm' \in Nat \cup {NoAlarm}
    BY <1>6, EnsureAlarmFacts DEF AlarmDrain, TypeOK
  <2>3. QED BY <1>6, <2>1, <2>2 DEF AlarmDrain, TypeOK
<1>7. CASE HandlerStartsRun
  BY <1>7, CurrentInBatch DEF HandlerStartsRun, queueVars, TypeOK
<1>8. CASE Respond
  <2>1. CASE HandlerAck
    <3>1. /\ Delete(jobs, Current) \in [DOMAIN Delete(jobs, Current) -> Row]
          /\ DOMAIN Delete(jobs, Current) \subseteq DOMAIN jobs
      BY DEF Delete, TypeOK
    <3>2. QED BY <2>1, <3>1, ProceedFacts DEF HandlerAck, TypeOK
  <2>2. CASE HandlerLeased
    <3>1. /\ Update(jobs, Current, LeaseRow(Current))
               \in [DOMAIN Update(jobs, Current, LeaseRow(Current)) -> Row]
          /\ DOMAIN Update(jobs, Current, LeaseRow(Current)) = DOMAIN jobs
      BY <2>2, CurrentInBatch, RowFacts DEF HandlerLeased, Update, TypeOK
    <3>2. QED BY <2>2, <3>1, ProceedFacts DEF HandlerLeased, TypeOK
  <2>3. CASE HandlerParked
    BY <2>3, ConstantsAssumption DEF HandlerParked, TypeOK
  <2>4. CASE HandlerBuries
    <3>1. /\ Delete(jobs, Current) \in [DOMAIN Delete(jobs, Current) -> Row]
          /\ DOMAIN Delete(jobs, Current) \subseteq DOMAIN jobs
      BY DEF Delete, TypeOK
    <3>2. QED BY <2>4, <3>1, ProceedFacts, CurrentInBatch DEF HandlerBuries, TypeOK
  <2>5. CASE HandlerFails
    <3>1. /\ Update(jobs, Current, RetryRow(Current))
               \in [DOMAIN Update(jobs, Current, RetryRow(Current)) -> Row]
          /\ DOMAIN Update(jobs, Current, RetryRow(Current)) = DOMAIN jobs
      BY <2>5, CurrentInBatch, RowFacts DEF HandlerFails, Update, TypeOK
    <3>2. QED BY <2>5, <3>1, ProceedFacts DEF HandlerFails, TypeOK
  <2>6. QED BY <1>8, <2>1, <2>2, <2>3, <2>4, <2>5 DEF Respond
<1>9. CASE Crash
  BY <1>9 DEF Crash, TypeOK
<1>10. CASE Tick
  <2>1. jobs' \in [DOMAIN jobs' -> Row] /\ DOMAIN jobs' = DOMAIN jobs
    BY <1>10, AgeFacts DEF Tick, TypeOK
  <2>2. parkedUntil' \in Nat /\ alarm' \in Nat \cup {NoAlarm}
    BY <1>10, LessFacts DEF Tick, TypeOK
  <2>3. QED BY <1>10, <2>1, <2>2 DEF Tick, TypeOK
<1>11. CASE UNCHANGED vars
  BY <1>11 DEF vars, queueVars, TypeOK
<1>12. QED
  BY <1>1, <1>2, <1>3, <1>4, <1>5, <1>6, <1>7, <1>8, <1>9, <1>10, <1>11 DEF Next

\* Every variable of the queue keeps its shape: rows stay rows, and no table,
\* batch or run ever names an id that was not handed out by enqueue().
THEOREM TypeCorrect == Spec => []TypeOK
BY TypeInit, TypeNext, PTL DEF Spec

-----------------------------------------------------------------------------
(* Delivery: conservation of jobs and the refinement of WorkLedger both rest *)
(* on the four ways a step can move a job between the tables.                *)

Stays     == DOMAIN jobs' = DOMAIN jobs /\ dead' = dead /\ completed' = completed
Enters(j) == DOMAIN jobs' = DOMAIN jobs \cup {j} /\ dead' = dead /\ completed' = completed
Finishes(j) == /\ j \in DOMAIN jobs /\ DOMAIN jobs' = DOMAIN jobs \ {j}
               /\ dead' = dead /\ completed' = completed \cup {j}
Dies(j) == /\ j \in DOMAIN jobs /\ DOMAIN jobs' = DOMAIN jobs \ {j}
           /\ dead' = dead \cup {j} /\ completed' = completed
DiesLate(j) == /\ j \notin DOMAIN jobs /\ DOMAIN jobs' = DOMAIN jobs
               /\ dead' = dead \cup {j} /\ completed' = completed

Moves ==
  \/ issued' = issued + 1 /\ issued' \in Id /\ Enters(issued')
  \/ issued' = issued /\ (Stays \/ \E j \in 1 .. issued : Finishes(j) \/ Dies(j) \/ DiesLate(j))

LEMMA StepMoves == TypeOK /\ [Next]_vars => Moves
<1> SUFFICES ASSUME TypeOK, [Next]_vars
             PROVE  Moves
  OBVIOUS
<1>1. CASE Enqueue
  <2>1. issued' = issued + 1 /\ issued' \in Id
    BY <1>1, ConstantsAssumption DEF Enqueue, Id, TypeOK
  <2>2. Enters(issued')
    BY <1>1 DEF Enqueue, Enters, Insert
  <2>3. QED BY <2>1, <2>2 DEF Moves
<1>2. ASSUME NEW j \in Id, AckSuccess(j)
      PROVE  Moves
  <2>1. issued' = issued /\ j \in 1 .. issued /\ dead' = dead
    BY <1>2 DEF AckSuccess, TypeOK
  <2>2. DOMAIN jobs' = DOMAIN jobs \ {j}
    BY <1>2 DEF AckSuccess, Delete
  <2>3. CASE j \in DOMAIN jobs
    BY <1>2, <2>1, <2>2, <2>3 DEF AckSuccess, Moves, Finishes
  <2>4. CASE j \notin DOMAIN jobs
    BY <1>2, <2>1, <2>2, <2>4 DEF AckSuccess, Moves, Stays
  <2>5. QED BY <2>3, <2>4
<1>3. ASSUME NEW j \in Id, AckFailed(j)
      PROVE  Moves
  <2>1. issued' = issued /\ j \in 1 .. issued /\ completed' = completed
    BY <1>3 DEF AckFailed, TypeOK
  <2>2. CASE AckUnknown(j)
    BY <2>1, <2>2 DEF AckUnknown, Moves, Stays
  <2>3. CASE AckBury(j)
    BY <2>1, <2>3 DEF AckBury, Delete, Moves, Dies
  <2>4. CASE AckRetry(j)
    BY <2>1, <2>4 DEF AckRetry, Update, Moves, Stays
  <2>5. QED BY <1>3, <2>2, <2>3, <2>4 DEF AckFailed
<1>4. ASSUME NEW j \in Id, RunEnds(j)
      PROVE  Moves
  BY <1>4 DEF RunEnds, queueVars, Moves, Stays
<1>5. CASE AlarmParked \/ AlarmDrain \/ HandlerStartsRun \/ HandlerParked \/ Crash
  BY <1>5 DEF AlarmParked, AlarmDrain, HandlerStartsRun, HandlerParked, Crash, queueVars,
              Moves, Stays
<1>6. CASE HandlerAck
  <2>1. Current \in 1 .. issued
    BY <1>6, CurrentInBatch DEF HandlerAck, TypeOK
  <2>2. issued' = issued /\ dead' = dead /\ DOMAIN jobs' = DOMAIN jobs \ {Current}
    BY <1>6 DEF HandlerAck, Proceed, Delete
  <2>3. CASE Current \in DOMAIN jobs
    BY <1>6, <2>1, <2>2, <2>3 DEF HandlerAck, Moves, Finishes
  <2>4. CASE Current \notin DOMAIN jobs
    BY <1>6, <2>2, <2>4 DEF HandlerAck, Moves, Stays
  <2>5. QED BY <2>3, <2>4
<1>7. CASE HandlerBuries
  <2>1. Current \in 1 .. issued
    BY <1>7, CurrentInBatch DEF HandlerBuries, TypeOK
  <2>2. DOMAIN jobs' = DOMAIN jobs \ {Current}
    BY <1>7 DEF HandlerBuries, Proceed, Delete
  <2>3. QED BY <1>7, <2>1, <2>2 DEF HandlerBuries, Moves, Dies, DiesLate
<1>8. CASE HandlerLeased \/ HandlerFails
  BY <1>8 DEF HandlerLeased, HandlerFails, Proceed, Update, Moves, Stays
<1>9. CASE Tick
  BY <1>9 DEF Tick, Moves, Stays
<1>10. CASE UNCHANGED vars
  BY <1>10 DEF vars, queueVars, Moves, Stays
<1>11. QED
  BY <1>1, <1>2, <1>3, <1>4, <1>5, <1>6, <1>7, <1>8, <1>9, <1>10 DEF Next, Respond

Delivery == NothingLost /\ NoResurrection

LEMMA DeliveryNext == TypeOK /\ Delivery /\ Moves => Delivery'
<1> SUFFICES ASSUME TypeOK, Delivery, Moves
             PROVE  Delivery'
  OBVIOUS
<1> USE DEF Delivery, NothingLost, NoResurrection
<1>1. CASE issued' = issued + 1 /\ issued' \in Id /\ Enters(issued')
  <2>1. 1 .. issued' = (1 .. issued) \cup {issued'} /\ issued' \notin 1 .. issued
    BY <1>1 DEF TypeOK
  <2>2. QED BY <1>1, <2>1 DEF Enters, TypeOK
<1>2. CASE issued' = issued /\ Stays
  BY <1>2 DEF Stays
<1>3. ASSUME NEW j \in 1 .. issued, issued' = issued, Finishes(j) \/ Dies(j) \/ DiesLate(j)
      PROVE  Delivery'
  BY <1>3 DEF Finishes, Dies, DiesLate
<1>4. QED BY <1>1, <1>2, <1>3 DEF Moves

\* At-least-once, for every environment of the queue: a job handed an id is in
\* the backlog, dead-lettered or acked, and a finished job never comes back.
THEOREM AtLeastOnce == Spec => [](NothingLost /\ NoResurrection)
<1>1. Init => Delivery
  BY DEF Init, Delivery, NothingLost, NoResurrection
<1>2. TypeOK /\ Delivery /\ [Next]_vars => Delivery'
  BY StepMoves, DeliveryNext
<1>3. QED BY <1>1, <1>2, TypeCorrect, PTL DEF Spec, Delivery

\* Acked or dead-lettered, a job never comes back to the backlog, whatever the
\* handlers, the acks and the crashes do: ids are issued once, and a row is
\* rewritten only where the answer found it.
THEOREM DeadStayDead == Spec => []NoResurrection
BY AtLeastOnce, PTL

\* The queue implements the ledger: acceptance, completion, burial and the one
\* late verdict are the only things its steps do to a job.
THEOREM ImplementsLedger == Spec => KeepsLedger
<1>1. Init => Ledger!Init
  BY DEF Init, Ledger!Init
<1>2. TypeOK /\ Delivery /\ Moves => [Ledger!Next]_(Ledger!vars)
  <2> SUFFICES ASSUME TypeOK, Delivery, Moves
               PROVE  [Ledger!Next]_(Ledger!vars)
    OBVIOUS
  <2>1. 1 .. issued \subseteq Id
    BY ConstantsAssumption DEF Id, TypeOK
  <2>2. CASE issued' = issued + 1 /\ issued' \in Id /\ Enters(issued')
    <3>1. issued' \notin DOMAIN jobs \cup completed \cup dead
      BY <2>2 DEF TypeOK
    <3>2. Ledger!Accept(issued')
      BY <2>2, <3>1 DEF Enters, Ledger!Accept, Ledger!Known
    <3>3. QED BY <2>2, <3>2 DEF Ledger!Next
  <2>3. CASE issued' = issued /\ Stays
    BY <2>3 DEF Stays, Ledger!vars
  <2>4. ASSUME NEW j \in 1 .. issued, Finishes(j)
        PROVE  Ledger!Next
    BY <2>1, <2>4 DEF Finishes, Ledger!Next, Ledger!Complete
  <2>5. ASSUME NEW j \in 1 .. issued, Dies(j)
        PROVE  Ledger!Next
    BY <2>1, <2>5 DEF Dies, Ledger!Next, Ledger!Bury
  <2>6. ASSUME NEW j \in 1 .. issued, DiesLate(j)
        PROVE  [Ledger!Next]_(Ledger!vars)
    <3>1. j \in completed \/ j \in dead
      BY <2>6 DEF Delivery, NothingLost, DiesLate
    <3>2. CASE j \in completed
      BY <2>1, <2>6, <3>2 DEF DiesLate, Ledger!Next, Ledger!LateVerdict
    <3>3. CASE j \in dead
      BY <2>6, <3>3 DEF DiesLate, Ledger!vars
    <3>4. QED BY <3>1, <3>2, <3>3
  <2>7. QED BY <2>2, <2>3, <2>4, <2>5, <2>6 DEF Moves
<1>3. QED BY <1>1, <1>2, StepMoves, TypeCorrect, AtLeastOnce, PTL
          DEF Spec, Delivery, KeepsLedger, Ledger!Spec

-----------------------------------------------------------------------------
(* What alarm() may rely on between its fetches. *)

\* While the quota pause lasts the handler is not called.
THEOREM QuietWhileParked == Spec => []ParkedIsQuiet
<1>1. Init => ParkedIsQuiet
  BY DEF Init, ParkedIsQuiet
<1>2. TypeOK /\ ParkedIsQuiet /\ [Next]_vars => ParkedIsQuiet'
  <2> SUFFICES ASSUME TypeOK, ParkedIsQuiet, [Next]_vars
               PROVE  ParkedIsQuiet'
    OBVIOUS
  <2> USE DEF ParkedIsQuiet, Running
  <2>1. CASE Enqueue \/ AlarmParked \/ HandlerStartsRun
    BY <2>1 DEF Enqueue, AlarmParked, HandlerStartsRun, queueVars
  <2>2. CASE HandlerParked \/ Crash
    <3>1. DOMAIN batch' = {}
      BY <2>2 DEF HandlerParked, Crash
    <3>2. QED BY <3>1
  <2>3. CASE AlarmDrain
    <3>1. parkedUntil' = 0
      BY <2>3 DEF AlarmDrain
    <3>2. QED BY <3>1
  <2>4. ASSUME NEW j \in Id, AckSuccess(j) \/ AckFailed(j) \/ RunEnds(j)
        PROVE  ParkedIsQuiet'
    BY <2>4 DEF AckSuccess, AckFailed, RunEnds, queueVars
  <2>5. CASE Respond /\ ~HandlerParked
    <3>1. Running /\ parkedUntil' = parkedUntil /\ parkedUntil \in Nat
      BY <2>5 DEF Respond, HandlerAck, HandlerLeased, HandlerBuries, HandlerFails, TypeOK
    <3>2. QED BY <3>1
  <2>6. CASE Tick
    BY <2>6 DEF Tick, Less, TypeOK
  <2>7. CASE UNCHANGED vars
    BY <2>7 DEF vars, queueVars
  <2>8. QED BY <2>1, <2>2, <2>3, <2>4, <2>5, <2>6, <2>7 DEF Next, Respond
<1>3. QED BY <1>1, <1>2, TypeCorrect, PTL DEF Spec

LEMMA SnapshotNext == TypeOK /\ SnapshotHolds /\ [Next]_vars => SnapshotHolds'
<1> SUFFICES ASSUME TypeOK, SnapshotHolds, [Next]_vars
             PROVE  SnapshotHolds'
  OBVIOUS
<1>1. CASE Enqueue
  <2>1. /\ \A i \in DOMAIN jobs : jobs'[i] = jobs[i]
        /\ DOMAIN jobs' = DOMAIN jobs \cup {issued + 1}
        /\ issued + 1 \notin DOMAIN batch
    BY <1>1 DEF Enqueue, Insert, TypeOK
  <2>2. QED BY <1>1, <2>1 DEF Enqueue, SnapshotHolds
<1>2. ASSUME NEW j \in Id, AckSuccess(j)
      PROVE  SnapshotHolds'
  BY <1>2 DEF AckSuccess, Delete, SnapshotHolds
<1>3. ASSUME NEW j \in Id, AckFailed(j)
      PROVE  SnapshotHolds'
  <2>1. CASE AckUnknown(j) \/ AckBury(j)
    BY <1>3, <2>1 DEF AckFailed, AckUnknown, AckBury, Delete, SnapshotHolds
  <2>2. CASE AckRetry(j)
    <3>1. jobs[j] \in Row
      BY <2>2 DEF AckRetry, TypeOK
    <3>2. FailRow(jobs[j]).attempts = jobs[j].attempts /\ FailRow(jobs[j]).leasedUntil = 0
      BY <3>1 DEF FailRow, Row
    <3>3. QED BY <1>3, <2>2, <3>2 DEF AckFailed, AckRetry, Update, SnapshotHolds
  <2>3. QED BY <1>3, <2>1, <2>2 DEF AckFailed
<1>4. ASSUME NEW j \in Id, RunEnds(j)
      PROVE  SnapshotHolds'
  BY <1>4 DEF RunEnds, queueVars, SnapshotHolds
<1>5. CASE AlarmDrain
  BY <1>5 DEF AlarmDrain, Drain, Due, SnapshotHolds
<1>6. CASE AlarmParked \/ HandlerStartsRun \/ HandlerParked \/ Crash
  BY <1>6 DEF AlarmParked, HandlerStartsRun, HandlerParked, Crash, queueVars, SnapshotHolds
<1>7. ASSUME NEW t, Proceed(t), \A i \in DOMAIN t \ {Current} : i \in DOMAIN jobs /\ t[i] = jobs[i]
      PROVE  SnapshotHolds'
  BY <1>7 DEF Proceed, Delete, SnapshotHolds
<1>8. CASE HandlerAck \/ HandlerBuries
  BY <1>7, <1>8 DEF HandlerAck, HandlerBuries, Delete
<1>9. CASE HandlerLeased \/ HandlerFails
  BY <1>7, <1>9 DEF HandlerLeased, HandlerFails, Update
<1>10. CASE Tick
  <2>1. ASSUME NEW i \in DOMAIN jobs
        PROVE  /\ jobs'[i].attempts = jobs[i].attempts
               /\ jobs[i].leasedUntil = 0 => jobs'[i].leasedUntil = 0
    BY <1>10, AgeFacts DEF Tick, TypeOK
  <2>2. QED BY <1>10, <2>1 DEF Tick, SnapshotHolds
<1>11. CASE UNCHANGED vars
  BY <1>11 DEF vars, queueVars, SnapshotHolds
<1>12. QED
  BY <1>1, <1>2, <1>3, <1>4, <1>5, <1>6, <1>8, <1>9, <1>10, <1>11 DEF Next, Respond

\* alarm() writes attempts and leases from rows read before its fetches; that is
\* sound because nothing that runs in between changes either.
THEOREM SnapshotSound == Spec => []SnapshotHolds
<1>1. Init => SnapshotHolds
  BY DEF Init, SnapshotHolds
<1>2. QED BY <1>1, SnapshotNext, TypeCorrect, PTL DEF Spec

-----------------------------------------------------------------------------
(* The alarm.  That it is never too late also while a drain rewrites rows    *)
(* rests on two facts: the rewritten row was not leased (SnapshotHolds), and  *)
(* a row's delay never exceeds the backoff of its attempts, which only grows. *)

BackoffBound == \A i \in DOMAIN jobs : jobs[i].notBefore <= Backoff(jobs[i].attempts)

\* What a response writes over the row in flight: its delay stays within its
\* backoff and it does not become runnable any sooner.
LEMMA RewriteFacts ==
  ASSUME TypeOK, SnapshotHolds, BackoffBound, Running, Current \in DOMAIN jobs
  PROVE  /\ LeaseRow(Current).notBefore <= Backoff(LeaseRow(Current).attempts)
         /\ RunnableIn(jobs[Current]) <= RunnableIn(LeaseRow(Current))
         /\ Charge(batch[Current]) < MaxAttempts =>
              /\ RetryRow(Current).notBefore <= Backoff(RetryRow(Current).attempts)
              /\ RunnableIn(jobs[Current]) <= RunnableIn(RetryRow(Current))
<1> USE ConstantsAssumption
<1> DEFINE old == jobs[Current]
           n   == Charge(batch[Current])
<1>1. /\ old \in Row /\ batch[Current] \in 0 .. AttemptsCap
      /\ old.attempts = batch[Current] /\ old.leasedUntil = 0
      /\ old.notBefore <= Backoff(old.attempts)
  BY CurrentInBatch DEF TypeOK, SnapshotHolds, BackoffBound
<1>2. old.notBefore \in Nat /\ old.attempts \in 0 .. AttemptsCap
  BY <1>1 DEF Row
<1>3. n \in 0 .. AttemptsCap /\ batch[Current] \in 0 .. n
  BY <1>1 DEF Charge, AttemptsCap
<1>4. Backoff(n) \in Nat /\ Backoff(batch[Current]) \in Nat /\ Backoff(batch[Current]) <= Backoff(n)
  BY <1>1, <1>3, BackoffAssumption DEF AttemptsCap
<1>5. old.notBefore <= Backoff(n)
  BY <1>1, <1>2, <1>4
<1>6. /\ LeaseRow(Current).notBefore = old.notBefore /\ LeaseRow(Current).attempts = n
      /\ LeaseRow(Current).leasedUntil = Lease
  BY <1>1 DEF LeaseRow, Row
<1>7. /\ RetryRow(Current).notBefore = Backoff(n) /\ RetryRow(Current).attempts = n
      /\ RetryRow(Current).leasedUntil = 0
  BY <1>1 DEF RetryRow, Row
<1>8. QED BY <1>1, <1>2, <1>4, <1>5, <1>6, <1>7 DEF RunnableIn

LEMMA BackoffNext == TypeOK /\ SnapshotHolds /\ BackoffBound /\ [Next]_vars => BackoffBound'
<1> SUFFICES ASSUME TypeOK, SnapshotHolds, BackoffBound, [Next]_vars
             PROVE  BackoffBound'
  OBVIOUS
<1> USE ConstantsAssumption, BackoffAssumption DEF AttemptsCap
<1>1. CASE Enqueue
  BY <1>1 DEF Enqueue, Insert, BackoffBound
<1>2. ASSUME NEW j \in Id, AckSuccess(j) \/ RunEnds(j)
      PROVE  BackoffBound'
  BY <1>2 DEF AckSuccess, RunEnds, Delete, queueVars, BackoffBound
<1>3. ASSUME NEW j \in Id, AckFailed(j)
      PROVE  BackoffBound'
  <2>1. CASE AckUnknown(j) \/ AckBury(j)
    BY <2>1 DEF AckUnknown, AckBury, Delete, BackoffBound
  <2>2. CASE AckRetry(j)
    <3>1. jobs[j] \in Row
      BY <2>2 DEF AckRetry, TypeOK
    <3>2. FailRow(jobs[j]).notBefore = Backoff(FailRow(jobs[j]).attempts)
      BY <3>1 DEF FailRow, Row
    <3>3. Backoff(FailRow(jobs[j]).attempts) \in Nat
      BY <3>1 DEF FailRow, Row
    <3>4. QED BY <2>2, <3>2, <3>3 DEF AckRetry, Update, BackoffBound
  <2>3. QED BY <1>3, <2>1, <2>2 DEF AckFailed
<1>4. CASE AlarmParked \/ AlarmDrain \/ HandlerStartsRun \/ HandlerParked \/ Crash
  BY <1>4 DEF AlarmParked, AlarmDrain, HandlerStartsRun, HandlerParked, Crash, queueVars,
              BackoffBound
<1>5. CASE HandlerAck \/ HandlerBuries
  BY <1>5 DEF HandlerAck, HandlerBuries, Proceed, Delete, BackoffBound
<1>6. CASE HandlerLeased
  <2>1. CASE Current \in DOMAIN jobs
    <3>1. LeaseRow(Current).notBefore <= Backoff(LeaseRow(Current).attempts)
      BY <1>6, <2>1, RewriteFacts DEF HandlerLeased
    <3>2. QED BY <1>6, <3>1 DEF HandlerLeased, Proceed, Update, BackoffBound
  <2>2. CASE Current \notin DOMAIN jobs
    BY <1>6, <2>2 DEF HandlerLeased, Proceed, Update, BackoffBound
  <2>3. QED BY <2>1, <2>2
<1>7. CASE HandlerFails
  <2>1. CASE Current \in DOMAIN jobs
    <3>1. RetryRow(Current).notBefore <= Backoff(RetryRow(Current).attempts)
      BY <1>7, <2>1, RewriteFacts DEF HandlerFails
    <3>2. QED BY <1>7, <3>1 DEF HandlerFails, Proceed, Update, BackoffBound
  <2>2. CASE Current \notin DOMAIN jobs
    BY <1>7, <2>2 DEF HandlerFails, Proceed, Update, BackoffBound
  <2>3. QED BY <2>1, <2>2
<1>8. CASE Tick
  <2>1. ASSUME NEW i \in DOMAIN jobs
        PROVE  jobs'[i].notBefore <= Backoff(jobs'[i].attempts)
    <3>1. jobs[i] \in Row /\ jobs'[i] = Age(jobs[i])
      BY <1>8 DEF Tick, TypeOK
    <3>2. Age(jobs[i]).notBefore \in Nat /\ Age(jobs[i]).notBefore <= jobs[i].notBefore
      BY <3>1, LessFacts DEF Age, Row
    <3>3. Backoff(jobs[i].attempts) \in Nat /\ jobs[i].notBefore \in Nat
      BY <3>1 DEF Row
    <3>4. Age(jobs[i]).attempts = jobs[i].attempts
      BY <3>1, AgeFacts
    <3>5. QED BY <3>1, <3>2, <3>3, <3>4 DEF BackoffBound
  <2>2. QED BY <1>8, <2>1 DEF Tick, BackoffBound
<1>9. CASE UNCHANGED vars
  BY <1>9 DEF vars, queueVars, BackoffBound
<1>10. QED
  BY <1>1, <1>2, <1>3, <1>4, <1>5, <1>6, <1>7, <1>8, <1>9 DEF Next, Respond

LEMMA WakesNext ==
  TypeOK /\ SnapshotHolds /\ BackoffBound /\ WakesInTime /\ [Next]_vars => WakesInTime'
<1> SUFFICES ASSUME TypeOK, SnapshotHolds, BackoffBound, WakesInTime, [Next]_vars
             PROVE  WakesInTime'
  OBVIOUS
<1> USE DEF NoAlarm
<1>rows. ASSUME NEW r \in Row
         PROVE  RunnableIn(r) \in Nat
  BY DEF RunnableIn, Row
<1>typed. TypeOK'
  BY TypeNext
<1>1. CASE Enqueue
  <2>1. \A i \in DOMAIN jobs' : jobs'[i] \in Row
    BY <1>typed DEF TypeOK
  <2>2. /\ DOMAIN jobs' = DOMAIN jobs \cup {issued + 1}
        /\ RunnableIn(jobs'[issued + 1]) = 0
    BY <1>1 DEF Enqueue, Insert, RunnableIn
  <2>3. alarm' = EnsureAlarm(jobs', alarm, FALSE) /\ alarm' # NoAlarm /\ alarm' \in Nat
    BY <1>1, <2>1, <2>2, EnsureAlarmFacts DEF Enqueue, TypeOK
  <2>4. Earliest(jobs') \in Nat /\ Earliest(jobs') <= 0
    BY <2>1, <2>2, EarliestFacts
  <2>5. DOMAIN jobs' # {}
    BY <2>2
  <2>6. alarm' = 0
    BY <2>3, <2>4, <2>5 DEF EnsureAlarm, TypeOK
  <2>7. QED BY <1>rows, <2>1, <2>6 DEF WakesInTime
<1>2. ASSUME NEW j \in Id, AckSuccess(j)
      PROVE  WakesInTime'
  BY <1>2 DEF AckSuccess, Delete, WakesInTime, Running
<1>3. ASSUME NEW j \in Id, AckFailed(j)
      PROVE  WakesInTime'
  <2>1. CASE AckUnknown(j)
    BY <1>3, <2>1 DEF AckFailed, AckUnknown, WakesInTime, Running
  <2>2. CASE AckBury(j)
    BY <1>3, <2>2 DEF AckFailed, AckBury, Delete, WakesInTime, Running
  <2>3. CASE AckRetry(j)
    BY <2>3, <1>typed, EnsureAlarmFacts DEF AckRetry, WakesInTime, TypeOK
  <2>4. QED BY <1>3, <2>1, <2>2, <2>3 DEF AckFailed
<1>4. ASSUME NEW j \in Id, RunEnds(j)
      PROVE  WakesInTime'
  BY <1>4 DEF RunEnds, queueVars, WakesInTime, Running
<1>5. CASE AlarmParked
  BY <1>5 DEF AlarmParked, WakesInTime, TypeOK
<1>6. CASE AlarmDrain
  <2>1. CASE Drain(jobs) = {}
    BY <1>6, <2>1, EnsureAlarmFacts DEF AlarmDrain, WakesInTime, TypeOK
  <2>2. CASE Drain(jobs) # {}
    <3>1. alarm' = NoAlarm /\ parkedUntil' = parkedUntil
      BY <1>6, <2>2 DEF AlarmDrain
    <3>2. DOMAIN batch' = Drain(jobs)
      BY <1>6 DEF AlarmDrain
    <3>3. Running'
      BY <2>2, <3>2 DEF Running
    <3>4. alarm' <= parkedUntil'
      BY <3>1 DEF TypeOK
    <3>5. QED BY <3>3, <3>4 DEF WakesInTime
  <2>3. QED BY <2>1, <2>2
<1>7. CASE HandlerStartsRun
  BY <1>7 DEF HandlerStartsRun, queueVars, WakesInTime, Running
<1>8. ASSUME NEW t, Running, Proceed(t), parkedUntil' = parkedUntil, DOMAIN t \subseteq DOMAIN jobs,
             \A i \in DOMAIN t : RunnableIn(jobs[i]) <= RunnableIn(t[i])
      PROVE  WakesInTime'
  <2>1. \A i \in DOMAIN t : t[i] \in Row
    BY <1>8, <1>typed DEF Proceed, TypeOK
  <2>2. CASE DOMAIN batch = {Current}
    <3>1. jobs' = t /\ alarm' = EnsureAlarm(t, alarm, TRUE)
      BY <1>8, <2>2 DEF Proceed
    <3>2. QED BY <2>1, <3>1, EnsureAlarmFacts DEF WakesInTime, TypeOK
  <2>3. CASE DOMAIN batch # {Current}
    <3>1. Running'
      BY <1>8, <2>3, CurrentInBatch DEF Proceed, Delete, Running
    <3>2. jobs' = t /\ alarm' = alarm
      BY <1>8, <2>3 DEF Proceed
    <3>3. ASSUME NEW i \in DOMAIN t, alarm <= RunnableIn(jobs[i])
          PROVE  alarm <= RunnableIn(t[i])
      <4>1. RunnableIn(jobs[i]) \in Nat /\ RunnableIn(t[i]) \in Nat
        BY <1>8, <1>rows, <2>1 DEF TypeOK
      <4>2. QED BY <1>8, <3>3, <4>1 DEF TypeOK
    <3>4. QED BY <1>8, <3>1, <3>2, <3>3 DEF WakesInTime
  <2>4. QED BY <2>2, <2>3
<1>9. CASE HandlerParked
  BY <1>9, ConstantsAssumption DEF HandlerParked, WakesInTime
<1>10. CASE HandlerAck \/ HandlerBuries
  <2>1. \A i \in DOMAIN Delete(jobs, Current) : RunnableIn(jobs[i]) <= RunnableIn(Delete(jobs, Current)[i])
    BY <1>rows DEF Delete, TypeOK
  <2>2. DOMAIN Delete(jobs, Current) \subseteq DOMAIN jobs
    BY DEF Delete
  <2>3. QED BY <1>8, <1>10, <2>1, <2>2 DEF HandlerAck, HandlerBuries
<1>11. CASE HandlerLeased
  <2> DEFINE t == Update(jobs, Current, LeaseRow(Current))
  <2>1. \A i \in DOMAIN t : RunnableIn(jobs[i]) <= RunnableIn(t[i])
    BY <1>rows, <1>11, RewriteFacts DEF HandlerLeased, Update, TypeOK
  <2>2. DOMAIN t \subseteq DOMAIN jobs
    BY DEF Update
  <2>3. QED BY <1>8, <1>11, <2>1, <2>2 DEF HandlerLeased
<1>12. CASE HandlerFails
  <2> DEFINE t == Update(jobs, Current, RetryRow(Current))
  <2>1. \A i \in DOMAIN t : RunnableIn(jobs[i]) <= RunnableIn(t[i])
    BY <1>rows, <1>12, RewriteFacts DEF HandlerFails, Update, TypeOK
  <2>2. DOMAIN t \subseteq DOMAIN jobs
    BY DEF Update
  <2>3. QED BY <1>8, <1>12, <2>1, <2>2 DEF HandlerFails
<1>13. CASE Crash
  BY <1>13, <1>rows, <1>typed DEF Crash, WakesInTime, TypeOK
<1>14. CASE Tick
  <2>1. ASSUME NEW i \in DOMAIN jobs
        PROVE  RunnableIn(jobs'[i]) = Less(RunnableIn(jobs[i]))
    BY <1>14, AgeFacts DEF Tick, TypeOK
  <2>2. DOMAIN jobs' = DOMAIN jobs /\ (Running <=> Running')
    BY <1>14 DEF Tick, Running
  <2>3. CASE alarm = NoAlarm
    BY <1>14, <2>2, <2>3, LessFacts, <1>typed DEF Tick, WakesInTime, TypeOK
  <2>4. CASE alarm \in Nat
    <3>1. alarm' \in Nat
      BY <1>14, <2>4, LessFacts DEF Tick
    <3>2. alarm <= parkedUntil => alarm' <= parkedUntil'
      BY <1>14, <2>4, LessFacts DEF Tick, TypeOK
    <3>3. ASSUME NEW i \in DOMAIN jobs, alarm <= RunnableIn(jobs[i])
          PROVE  alarm' <= RunnableIn(jobs'[i])
      BY <1>14, <1>rows, <2>1, <2>4, <3>3, LessFacts DEF Tick, TypeOK
    <3>4. QED BY <2>2, <3>1, <3>2, <3>3 DEF WakesInTime
  <2>5. QED BY <2>3, <2>4 DEF TypeOK
<1>15. CASE UNCHANGED vars
  BY <1>15 DEF vars, queueVars, WakesInTime, Running
<1>16. QED
  BY <1>1, <1>2, <1>3, <1>4, <1>5, <1>6, <1>7, <1>9, <1>10, <1>11, <1>12, <1>13, <1>14, <1>15
     DEF Next, Respond

\* No backlog sleeps: whenever jobs wait, the single alarm is set or a drain is
\* running, and a set alarm is no later than the first runnable job or the end
\* of the quota pause.
THEOREM NoBacklogSleeps == Spec => []WakesInTime
<1>1. Init => BackoffBound /\ WakesInTime
  BY DEF Init, BackoffBound, WakesInTime
<1>2. QED BY <1>1, BackoffNext, WakesNext, TypeCorrect, SnapshotSound, PTL DEF Spec
=============================================================================
