-------------------------- MODULE SummaryLane_proofs --------------------------
(***************************************************************************)
(* For any jobs, row ids they share, attempts, and any lease longer than a *)
(* run's limit: a job is summarised once unless a call of its got lost or  *)
(* a run of its waited for what the lease exceeds the limit by.            *)
(***************************************************************************)
EXTENDS SummaryLane, TLAPS

\* What GitHub keeps of a row id: nothing waits behind no run, and a run that
\* waits has not begun.
RunOK(run, id) ==
  run # NoRun =>
    /\ run.job \in Job /\ IdOf[run.job] = id
    /\ run.at \in {"queued", "running", "failing"}
    /\ run.at = "queued" => run.age = 0
GroupOK(id) ==
  /\ first[id] = NoRun => next[id] = NoRun
  /\ RunOK(first[id], id) /\ RunOK(next[id], id)
  /\ next[id].at \in {"none", "queued"}

\* A run of a job none of whose calls got lost or late: the row is leased for
\* what is left of it, until the summary is made.
Sound(run, j) ==
  run.job = j =>
    /\ row[j].at # "dead"
    /\ row[j].at = "gone" => run.at = "failing"
    /\ row[j].at = "open" => run.wait < Slack /\ row[j].left = Lease - run.wait - run.age
Steady(j) ==
  ~lost[j] /\ ~late[j] =>
    /\ made[j] = IF row[j].at = "gone" THEN 1 ELSE 0
    /\ first[IdOf[j]].job = j => next[IdOf[j]].job # j
    /\ Sound(first[IdOf[j]], j) /\ Sound(next[IdOf[j]], j)

IInv ==
  /\ TypeOK
  /\ \A id \in RowId : GroupOK(id)
  /\ \A j \in Job : Steady(j) /\ (row[j].at = "gone" => made[j] > 0)

Row == [at : {"open", "gone", "dead"}, left : 0 .. Lease, attempts : 0 .. MaxAttempts]

\* The constants, in the form the steps use them.
LEMMA Bounds ==
  /\ Lease \in Nat /\ RunLimit \in Nat \ {0} /\ Slack \in Nat \ {0} /\ Slack + RunLimit = Lease
  /\ MaxAttempts \in Nat \ {0} /\ IdOf \in [Job -> RowId] /\ None \notin Job
BY LaneAssumption DEF Slack

LEMMA NoRunIsRun == NoRun \in Run /\ NoRun.job \notin Job /\ NoRun.at = "none" /\ NoRun.age = 0
BY Bounds DEF NoRun, Run

LEMMA QueuedIsRun ==
  ASSUME NEW j \in Job
  PROVE  /\ Queued(j) \in Run /\ Queued(j).job = j /\ Queued(j).at = "queued"
         /\ Queued(j).wait = 0 /\ Queued(j).age = 0 /\ Queued(j) # NoRun
BY Bounds DEF Queued, Run, NoRun

\* The four ways a row changes.
LEMMA RowMoves ==
  ASSUME NEW r \in Row, r.at # "open" => r.left = 0
  PROVE  /\ Acked(r) \in Row /\ (Acked(r).at # "open" => Acked(r).left = 0)
         /\ AckedFailed(r) \in Row /\ (AckedFailed(r).at # "open" => AckedFailed(r).left = 0)
         /\ Fails(r) \in Row /\ (Fails(r).at # "open" => Fails(r).left = 0)
         /\ Closed(r, "dead") \in Row /\ Closed(r, "dead").left = 0 /\ Closed(r, "dead").at = "dead"
         /\ Leased(r) \in Row /\ Leased(r).at = r.at /\ Leased(r).left = Lease
         /\ r.at = "open" => Acked(r).at = "gone"
         /\ AckedFailed(r).at = "gone" <=> r.at = "gone"
         /\ Fails(r).at = "gone" => r.at = "gone"
<1>1. Charge(r) \in 0 .. MaxAttempts
  BY Bounds DEF Charge, Least, Row
<1>2. /\ Closed(r, "dead") \in Row /\ Closed(r, "dead").left = 0 /\ Closed(r, "dead").at = "dead"
      /\ Closed(r, "gone") \in Row /\ Closed(r, "gone").left = 0 /\ Closed(r, "gone").at = "gone"
  <2>1. \A how \in {"gone", "dead"} : Closed(r, how).at = how /\ Closed(r, how).left = 0
    BY DEF Closed, Row
  <2>2. 0 \in 0 .. Lease
    BY Bounds
  <2>3. \A how \in {"gone", "dead"} : Closed(r, how) \in Row
    BY <2>2 DEF Closed, Row
  <2>4. QED BY <2>1, <2>3
<1>3. Leased(r) \in Row /\ Leased(r).at = r.at /\ Leased(r).left = Lease
  <2>1. Lease \in 0 .. Lease
    BY Bounds
  <2>2. Leased(r) \in Row
    BY <1>1, <2>1 DEF Leased, LeaseMs, Row
  <2>3. Leased(r).at = r.at
    BY DEF Leased, LeaseMs, Row
  <2>4. Leased(r).left = Lease
    BY DEF Leased, LeaseMs, Row
  <2>5. QED BY <2>2, <2>3, <2>4
<1>4. /\ Acked(r) \in Row /\ (Acked(r).at # "open" => Acked(r).left = 0)
      /\ r.at = "open" => Acked(r).at = "gone"
  BY <1>2 DEF Acked
<1>5. /\ AckedFailed(r) \in Row /\ (AckedFailed(r).at # "open" => AckedFailed(r).left = 0)
      /\ AckedFailed(r).at = "gone" <=> r.at = "gone"
  BY <1>2, Bounds DEF AckedFailed, Row
<1>6. /\ Fails(r) \in Row /\ (Fails(r).at # "open" => Fails(r).left = 0)
      /\ Fails(r).at = "gone" => r.at = "gone"
  BY <1>1, <1>2 DEF Fails, Row
<1>7. QED BY <1>2, <1>3, <1>4, <1>5, <1>6

\* The types, without the shorthand of TypeOK.
LEMMA Types ==
  TypeOK <=> /\ row \in [Job -> Row] /\ \A j \in Job : row[j].at # "open" => row[j].left = 0
             /\ first \in [RowId -> Run] /\ next \in [RowId -> Run]
             /\ calm \in BOOLEAN /\ made \in [Job -> 0 .. 2]
             /\ lost \in [Job -> BOOLEAN] /\ late \in [Job -> BOOLEAN]
BY DEF TypeOK, Row
LEMMA TypesAfter ==
  ASSUME row' \in [Job -> Row], \A j \in Job : row'[j].at # "open" => row'[j].left = 0,
         first' \in [RowId -> Run], next' \in [RowId -> Run],
         calm' \in BOOLEAN, made' \in [Job -> 0 .. 2],
         lost' \in [Job -> BOOLEAN], late' \in [Job -> BOOLEAN]
  PROVE  TypeOK'
BY DEF TypeOK, Row, Run, Slack

\* A run that is over makes way; nobody else's is touched.
LEMMA RunEnding ==
  ASSUME IInv, NEW id \in RowId, RunEnds(id)
  PROVE  /\ first' \in [RowId -> Run] /\ next' \in [RowId -> Run]
         /\ \A i \in RowId : GroupOK(i)'
         /\ first'[id] = next[id] /\ next'[id] = NoRun
         /\ \A i \in RowId \ {id} : first'[i] = first[i] /\ next'[i] = next[i]
<1>1. first \in [RowId -> Run] /\ next \in [RowId -> Run]
  BY Types DEF IInv
<1>2. /\ first'[id] = next[id] /\ next'[id] = NoRun
      /\ \A i \in RowId \ {id} : first'[i] = first[i] /\ next'[i] = next[i]
      /\ first' \in [RowId -> Run] /\ next' \in [RowId -> Run]
  BY <1>1, NoRunIsRun DEF RunEnds
<1>3. ASSUME NEW i \in RowId PROVE GroupOK(i)'
  BY <1>2, NoRunIsRun DEF IInv, GroupOK, RunOK
<1>4. QED BY <1>2, <1>3

\* A run is queued: behind the one of its row id, or for a runner.
LEMMA Launching ==
  ASSUME IInv, NEW j \in Job, Launch(j)
  PROVE  /\ first' \in [RowId -> Run] /\ next' \in [RowId -> Run]
         /\ \A i \in RowId : GroupOK(i)'
         /\ \/ first'[IdOf[j]] = Queued(j) /\ next'[IdOf[j]] = next[IdOf[j]]
            \/ first'[IdOf[j]] = first[IdOf[j]] /\ next'[IdOf[j]] = Queued(j)
         /\ \A i \in RowId \ {IdOf[j]} : first'[i] = first[i] /\ next'[i] = next[i]
<1> DEFINE id == IdOf[j]
<1>1. first \in [RowId -> Run] /\ next \in [RowId -> Run] /\ id \in RowId
  BY Types, Bounds DEF IInv
<1>2. /\ \/ first[id] = NoRun /\ first'[id] = Queued(j) /\ next'[id] = next[id]
         \/ first[id] # NoRun /\ first'[id] = first[id] /\ next'[id] = Queued(j)
      /\ \A i \in RowId \ {id} : first'[i] = first[i] /\ next'[i] = next[i]
      /\ first' \in [RowId -> Run] /\ next' \in [RowId -> Run]
  BY <1>1, QueuedIsRun DEF Launch
<1>3. ASSUME NEW i \in RowId PROVE GroupOK(i)'
  BY <1>1, <1>2, <1>3, QueuedIsRun, NoRunIsRun DEF IInv, GroupOK, RunOK
<1>4. QED BY <1>2, <1>3

\* A job the step leaves alone: its runs stay where they are, or move up.
LEMMA OthersSteady ==
  ASSUME IInv, NEW k \in Job, row'[k] = row[k], made'[k] = made[k],
         lost'[k] = lost[k], late'[k] = late[k],
         \/ /\ first'[IdOf[k]].job = k => first'[IdOf[k]] = first[IdOf[k]]
            /\ next'[IdOf[k]].job = k => next'[IdOf[k]] = next[IdOf[k]]
         \/ first'[IdOf[k]] = next[IdOf[k]] /\ next'[IdOf[k]] = NoRun
  PROVE  Steady(k)' /\ (row'[k].at = "gone" => made'[k] > 0)
<1>1. Steady(k) /\ (row[k].at = "gone" => made[k] > 0)
  BY DEF IInv
<1>2. CASE /\ first'[IdOf[k]].job = k => first'[IdOf[k]] = first[IdOf[k]]
           /\ next'[IdOf[k]].job = k => next'[IdOf[k]] = next[IdOf[k]]
  BY <1>1, <1>2 DEF Steady, Sound
<1>3. CASE first'[IdOf[k]] = next[IdOf[k]] /\ next'[IdOf[k]] = NoRun
  BY <1>1, <1>3, NoRunIsRun DEF Steady, Sound
<1>4. QED BY <1>2, <1>3

\* The lease covers the run: a row that is due again has none.
LEMMA DueHasNoRun ==
  ASSUME IInv, NEW j \in Job, Due(j), ~lost[j], ~late[j]
  PROVE  first[IdOf[j]].job # j /\ next[IdOf[j]].job # j /\ made[j] = 0
<1>1. Steady(j) /\ row[j].at = "open" /\ row[j].left = 0
  BY DEF IInv, Due
<1>2. first[IdOf[j]] \in Run /\ next[IdOf[j]] \in Run
  BY Types, Bounds DEF IInv
<1>3. ASSUME NEW run \in Run, Sound(run, j) PROVE run.job # j
  <2>1. run.wait \in 0 .. Slack /\ run.age \in 0 .. RunLimit
    BY DEF Run
  <2>2. QED BY <1>1, <1>3, <2>1, Bounds DEF Sound
<1>4. QED BY <1>1, <1>2, <1>3 DEF Steady

LEMMA DispatchedSteps ==
  ASSUME IInv, NEW j \in Job, Dispatched(j)
  PROVE  IInv'
<1> USE Types DEF IInv
<1>1. row'[j] = Leased(row[j]) /\ (\A k \in Job \ {j} : row'[k] = row[k]) /\ row' \in [Job -> Row]
  BY RowMoves DEF Dispatched
<1>2. row'[j] \in Row /\ row'[j].at = "open" /\ row'[j].left = Lease
  BY <1>1, RowMoves DEF Dispatched, Due
<1>3. UNCHANGED <<calm, made, lost, late>>
  BY DEF Dispatched
<1>4. Launch(j)
  BY DEF Dispatched
<1>5. TypeOK'
  BY <1>1, <1>2, <1>3, <1>4, Launching, TypesAfter
<1>6. ASSUME NEW k \in Job \ {j} PROVE Steady(k)' /\ (row'[k].at = "gone" => made'[k] > 0)
  <2>1. /\ first'[IdOf[k]].job = k => first'[IdOf[k]] = first[IdOf[k]]
        /\ next'[IdOf[k]].job = k => next'[IdOf[k]] = next[IdOf[k]]
    BY <1>4, Launching, QueuedIsRun, Bounds
  <2>2. QED BY <1>1, <1>3, <2>1, OthersSteady
<1>7. Steady(j)'
  <2> SUFFICES ASSUME ~lost[j], ~late[j] PROVE Steady(j)'
    BY <1>3 DEF Steady
  <2>1. first[IdOf[j]].job # j /\ next[IdOf[j]].job # j /\ made[j] = 0
    BY DueHasNoRun DEF Dispatched
  <2>2. CASE first'[IdOf[j]] = Queued(j) /\ next'[IdOf[j]] = next[IdOf[j]]
    BY <1>2, <1>3, <2>1, <2>2, QueuedIsRun, Bounds DEF Steady, Sound
  <2>3. CASE first'[IdOf[j]] = first[IdOf[j]] /\ next'[IdOf[j]] = Queued(j)
    BY <1>2, <1>3, <2>1, <2>3, QueuedIsRun, Bounds DEF Steady, Sound
  <2>4. QED BY <1>4, <2>2, <2>3, Launching
<1>8. QED BY <1>2, <1>4, <1>5, <1>6, <1>7, Launching

LEMMA UnansweredSteps ==
  ASSUME IInv, NEW j \in Job, DispatchUnanswered(j)
  PROVE  IInv'
<1> USE Types DEF IInv
<1>1. row'[j] = Fails(row[j]) /\ (\A k \in Job \ {j} : row'[k] = row[k]) /\ row' \in [Job -> Row]
  BY RowMoves DEF DispatchUnanswered
<1>2. row'[j] \in Row /\ row'[j].at # "gone" /\ (row'[j].at # "open" => row'[j].left = 0)
  BY <1>1, RowMoves DEF DispatchUnanswered, Due
<1>3. /\ UNCHANGED <<calm, made, late>>
      /\ lost'[j] = TRUE /\ (\A k \in Job \ {j} : lost'[k] = lost[k]) /\ lost' \in [Job -> BOOLEAN]
  BY DEF DispatchUnanswered
<1>4. Launch(j)
  BY DEF DispatchUnanswered
<1>5. TypeOK'
  BY <1>1, <1>2, <1>3, <1>4, Launching, TypesAfter
<1>6. ASSUME NEW k \in Job \ {j} PROVE Steady(k)' /\ (row'[k].at = "gone" => made'[k] > 0)
  <2>1. /\ first'[IdOf[k]].job = k => first'[IdOf[k]] = first[IdOf[k]]
        /\ next'[IdOf[k]].job = k => next'[IdOf[k]] = next[IdOf[k]]
    BY <1>4, Launching, QueuedIsRun, Bounds
  <2>2. QED BY <1>1, <1>3, <2>1, OthersSteady
<1>7. Steady(j)'
  BY <1>3 DEF Steady
<1>8. QED BY <1>2, <1>4, <1>5, <1>6, <1>7, Launching

LEMMA RefusedSteps ==
  ASSUME IInv, NEW j \in Job, DispatchFails(j)
  PROVE  IInv'
<1> USE Types DEF IInv
<1>1. /\ row'[j] \in Row /\ row'[j].at # "gone" /\ (row'[j].at # "open" => row'[j].left = 0)
      /\ (\A k \in Job \ {j} : row'[k] = row[k]) /\ row' \in [Job -> Row]
  BY RowMoves DEF DispatchFails, Due
<1>2. UNCHANGED <<first, next, calm, made, lost, late>>
  BY DEF DispatchFails
<1>3. TypeOK' /\ \A id \in RowId : GroupOK(id)'
  BY <1>1, <1>2, TypesAfter DEF GroupOK, RunOK
<1>4. ASSUME NEW k \in Job \ {j} PROVE Steady(k)' /\ (row'[k].at = "gone" => made'[k] > 0)
  BY <1>1, <1>2, OthersSteady
<1>5. Steady(j)'
  <2> SUFFICES ASSUME ~lost[j], ~late[j] PROVE Steady(j)'
    BY <1>2 DEF Steady
  <2>1. first[IdOf[j]].job # j /\ next[IdOf[j]].job # j /\ made[j] = 0
    BY DueHasNoRun DEF DispatchFails
  <2>2. QED BY <1>1, <1>2, <2>1 DEF Steady, Sound
<1>6. QED BY <1>1, <1>3, <1>4, <1>5

\* Whose run it is: a job of the row id.
LEMMA RunOwner ==
  ASSUME IInv, NEW id \in RowId, first[id] # NoRun
  PROVE  first[id].job \in Job /\ IdOf[first[id].job] = id
BY DEF IInv, GroupOK, RunOK

\* A run changes its state: it starts, or goes on to report a failure.
LEMMA RunMoves ==
  ASSUME IInv, NEW id \in RowId, first[id] # NoRun, NEW at \in {"running", "failing"},
         at = "running" => first[id].at = "queued",
         first' = [first EXCEPT ![id].at = at], next' = next
  PROVE  /\ first' \in [RowId -> Run] /\ next' \in [RowId -> Run]
         /\ \A i \in RowId : GroupOK(i)'
         /\ first'[id].job = first[id].job /\ first'[id].at = at
         /\ first'[id].wait = first[id].wait /\ first'[id].age = first[id].age
         /\ \A i \in RowId \ {id} : first'[i] = first[i]
<1>1. first \in [RowId -> Run] /\ next \in [RowId -> Run]
  BY Types DEF IInv
<1>2. first'[id] = [first[id] EXCEPT !.at = at] /\ \A i \in RowId \ {id} : first'[i] = first[i]
  BY <1>1
<1>3. first'[id] \in Run /\ first'[id].at = at
  BY <1>1, <1>2 DEF Run
<1>4. /\ first'[id].job = first[id].job /\ first'[id].wait = first[id].wait
      /\ first'[id].age = first[id].age
  BY <1>1, <1>2 DEF Run
<1>5. first' \in [RowId -> Run]
  BY <1>1, <1>3
<1>6. ASSUME NEW i \in RowId PROVE GroupOK(i)'
  <2>1. GroupOK(i)
    BY DEF IInv
  <2>2. CASE i # id
    BY <1>2, <2>1, <2>2 DEF GroupOK, RunOK
  <2>3. CASE i = id
    BY <1>3, <1>4, <2>1, <2>3, NoRunIsRun DEF GroupOK, RunOK
  <2>4. QED BY <2>2, <2>3
<1>7. QED BY <1>1, <1>2, <1>3, <1>4, <1>5, <1>6

\* Only the run changes.
LEMMA StartOrFailSteps ==
  ASSUME IInv, NEW id \in RowId, RunStarts(id) \/ RunFails(id)
  PROVE  IInv'
<1> USE Types DEF IInv
<1>1. PICK at \in {"running", "failing"} :
        /\ at = "running" => first[id].at = "queued"
        /\ first' = [first EXCEPT ![id].at = at] /\ next' = next
  BY DEF RunStarts, RunFails
<1>2. first[id] # NoRun /\ first[id].at \in {"queued", "running"}
  BY NoRunIsRun DEF RunStarts, RunFails
<1>3. UNCHANGED <<row, calm, made, lost, late>>
  BY DEF RunStarts, RunFails
<1>4. /\ first' \in [RowId -> Run] /\ next' \in [RowId -> Run]
      /\ \A i \in RowId : GroupOK(i)'
      /\ first'[id].job = first[id].job /\ first'[id].wait = first[id].wait
      /\ first'[id].age = first[id].age
      /\ \A i \in RowId \ {id} : first'[i] = first[i]
  BY <1>1, <1>2, RunMoves
<1>5. TypeOK'
  BY <1>3, <1>4, TypesAfter
<1>6. PICK j \in Job : first[id].job = j /\ IdOf[j] = id
  BY <1>2, RunOwner
<1>7. ASSUME NEW k \in Job \ {j} PROVE Steady(k)' /\ (row'[k].at = "gone" => made'[k] > 0)
  BY <1>1, <1>3, <1>4, <1>6, <1>7, OthersSteady, Bounds
<1>8. Steady(j)'
  <2> SUFFICES ASSUME ~lost[j], ~late[j] PROVE Steady(j)'
    BY <1>3 DEF Steady
  <2>1. Sound(first[id], j) /\ row[j].at # "gone" /\ Steady(j)
    BY <1>2, <1>6 DEF Steady, Sound
  <2>2. QED BY <1>1, <1>3, <1>4, <1>6, <2>1 DEF Steady, Sound
<1>9. QED BY <1>3, <1>4, <1>5, <1>6, <1>7, <1>8

LEMMA PostSteps ==
  ASSUME IInv, NEW id \in RowId, RunPosts(id)
  PROVE  IInv'
<1> USE Types DEF IInv
<1>1. first[id] # NoRun /\ first[id].at = "running" /\ UNCHANGED <<calm, late>>
  BY NoRunIsRun DEF RunPosts
<1>2. PICK j \in Job : first[id].job = j /\ IdOf[j] = id
  BY <1>1, RunOwner
<1>3. /\ made' = [made EXCEPT ![j] = Least(@ + 1, 2)]
      /\ made' \in [Job -> 0 .. 2] /\ made'[j] > 0 /\ (made[j] = 0 => made'[j] = 1)
      /\ \A k \in Job \ {j} : made'[k] = made[k]
  BY <1>2 DEF RunPosts, Least
<1>4. PICK acked \in BOOLEAN :
        /\ row' = IF acked THEN [row EXCEPT ![j] = Acked(@)] ELSE row
        /\ lost' = [lost EXCEPT ![j] = @ \/ ~acked]
        /\ \/ RunEnds(id)
           \/ first' = [first EXCEPT ![id].at = "failing"] /\ UNCHANGED next
  BY <1>2 DEF RunPosts
<1>5. /\ row' \in [Job -> Row] /\ \A k \in Job : row'[k].at # "open" => row'[k].left = 0
      /\ \A k \in Job \ {j} : row'[k] = row[k]
      /\ acked /\ row[j].at = "open" => row'[j].at = "gone"
  BY <1>2, <1>4, RowMoves
<1>6. /\ lost' \in [Job -> BOOLEAN] /\ \A k \in Job \ {j} : lost'[k] = lost[k]
      /\ ~lost'[j] => acked /\ ~lost[j]
  BY <1>2, <1>4
<1>7. first' \in [RowId -> Run] /\ next' \in [RowId -> Run] /\ \A i \in RowId : GroupOK(i)'
  BY <1>1, <1>4, RunEnding, RunMoves
<1>8. TypeOK'
  BY <1>1, <1>3, <1>5, <1>6, <1>7, TypesAfter
<1>9. ASSUME NEW k \in Job \ {j} PROVE Steady(k)' /\ (row'[k].at = "gone" => made'[k] > 0)
  <2>1. CASE RunEnds(id)
    BY <1>1, <1>2, <1>3, <1>5, <1>6, <2>1, RunEnding, OthersSteady, Bounds
  <2>2. CASE first' = [first EXCEPT ![id].at = "failing"] /\ UNCHANGED next
    BY <1>1, <1>2, <1>3, <1>5, <1>6, <1>9, <2>2, RunMoves, OthersSteady, Bounds
  <2>3. QED BY <1>4, <2>1, <2>2
<1>10. Steady(j)'
  <2> SUFFICES ASSUME acked, ~lost[j], ~late[j] PROVE Steady(j)'
    BY <1>1, <1>6 DEF Steady
  <2>1. row[j].at = "open" /\ made[j] = 0 /\ next[id].job # j
    BY <1>1, <1>2, Bounds DEF Steady, Sound, Row
  <2>2. row'[j].at = "gone" /\ made'[j] = 1
    BY <1>3, <1>5, <2>1
  <2>3. CASE RunEnds(id)
    BY <1>2, <2>1, <2>2, <2>3, RunEnding, NoRunIsRun DEF Steady, Sound
  <2>4. CASE first' = [first EXCEPT ![id].at = "failing"] /\ UNCHANGED next
    BY <1>1, <1>2, <2>1, <2>2, <2>4, RunMoves DEF Steady, Sound
  <2>5. QED BY <1>4, <2>3, <2>4
<1>11. QED BY <1>2, <1>3, <1>7, <1>8, <1>9, <1>10

LEMMA EndSteps ==
  ASSUME IInv, NEW id \in RowId, RunReports(id) \/ RunVanishes(id)
  PROVE  IInv'
<1> USE Types DEF IInv
<1>1. RunEnds(id) /\ first[id] # NoRun /\ UNCHANGED <<calm, made, lost, late>>
  BY NoRunIsRun DEF RunReports, RunVanishes
<1>2. PICK j \in Job : first[id].job = j /\ IdOf[j] = id
  BY <1>1, RunOwner
<1>3. row' = row \/ row' = [row EXCEPT ![j] = AckedFailed(@)]
  BY <1>2 DEF RunReports, RunVanishes
<1>4. /\ row' \in [Job -> Row] /\ \A k \in Job : row'[k].at # "open" => row'[k].left = 0
      /\ \A k \in Job \ {j} : row'[k] = row[k]
      /\ row'[j].at = "gone" <=> row[j].at = "gone"
  BY <1>2, <1>3, RowMoves
<1>5. TypeOK' /\ \A i \in RowId : GroupOK(i)'
  BY <1>1, <1>4, RunEnding, TypesAfter
<1>6. ASSUME NEW k \in Job \ {j} PROVE Steady(k)' /\ (row'[k].at = "gone" => made'[k] > 0)
  BY <1>1, <1>2, <1>4, RunEnding, OthersSteady, Bounds
<1>7. Steady(j)'
  <2> SUFFICES ASSUME ~lost[j], ~late[j] PROVE Steady(j)'
    BY <1>1 DEF Steady
  <2>1. first'[id].job # j /\ next'[id].job # j
    BY <1>1, <1>2, RunEnding, NoRunIsRun DEF Steady
  <2>2. QED BY <1>1, <1>2, <1>4, <2>1 DEF Steady, Sound
<1>8. QED BY <1>1, <1>2, <1>4, <1>5, <1>6, <1>7

\* A unit of time passes for a run.
LEMMA Ageing ==
  ASSUME NEW run \in Run, run.age < RunLimit, NEW id \in RowId, RunOK(run, id)
  PROVE  /\ Aged(run) \in Run /\ Aged(run).job = run.job /\ Aged(run).at = run.at
         /\ RunOK(Aged(run), id) /\ (run = NoRun <=> Aged(run) = NoRun)
         /\ run # NoRun /\ run.wait < Slack /\ Aged(run).wait # Slack =>
              /\ Aged(run).wait < Slack
              /\ Aged(run).wait + Aged(run).age = run.wait + run.age + 1
         /\ run.at \notin {"running", "failing"} => Aged(run) = Waited(run)
<1>1. run.wait \in 0 .. Slack /\ run.age \in 0 .. RunLimit
  BY DEF Run
<1>2. CASE run.at \in {"running", "failing"}
  <2>1. Aged(run) = [run EXCEPT !.age = run.age + 1]
    BY <1>2 DEF Aged
  <2>2. run.age + 1 \in 0 .. RunLimit
    BY <1>1, Bounds
  <2>3. Aged(run) \in Run /\ Aged(run).job = run.job /\ Aged(run).at = run.at
    BY <2>1, <2>2 DEF Run
  <2>4. Aged(run).wait = run.wait /\ Aged(run).age = run.age + 1
    BY <2>1 DEF Run
  <2>5. run # NoRun /\ Aged(run) # NoRun
    BY <1>2, <2>3, NoRunIsRun
  <2>6. QED BY <1>1, <1>2, <2>3, <2>4, <2>5, Bounds DEF RunOK
<1>3. CASE run.at = "queued"
  <2>1. Aged(run) = [run EXCEPT !.wait = Least(run.wait + 1, Slack)]
    BY <1>3 DEF Aged, Waited
  <2>2. /\ Least(run.wait + 1, Slack) \in 0 .. Slack
        /\ run.wait < Slack => Least(run.wait + 1, Slack) = run.wait + 1
    BY <1>1, Bounds DEF Least
  <2>3. Aged(run) \in Run /\ Aged(run).job = run.job /\ Aged(run).at = run.at
    BY <2>1, <2>2 DEF Run
  <2>4. Aged(run).wait = Least(run.wait + 1, Slack) /\ Aged(run).age = run.age
    BY <2>1 DEF Run
  <2>5. run # NoRun /\ Aged(run) # NoRun
    BY <1>3, <2>3, NoRunIsRun
  <2>6. Aged(run) = Waited(run)
    BY <1>3 DEF Aged
  <2>7. QED BY <1>1, <1>3, <2>2, <2>3, <2>4, <2>5, <2>6, Bounds DEF RunOK
<1>4. CASE run.at = "none"
  <2>1. run = NoRun /\ Aged(run) = run /\ Aged(run) = Waited(run)
    BY <1>4 DEF RunOK, Aged, Waited
  <2>2. QED BY <2>1
<1>5. QED BY <1>2, <1>3, <1>4 DEF Run

LEMMA TickSteps ==
  ASSUME IInv, Tick
  PROVE  IInv'
<1> USE Types DEF IInv
<1>1. /\ first \in [RowId -> Run] /\ next \in [RowId -> Run] /\ UNCHANGED <<calm, made, lost>>
      /\ \A i \in RowId : first[i].age < RunLimit
  BY DEF Tick
<1>2. ASSUME NEW i \in RowId
      PROVE  /\ RunOK(first[i], i) /\ RunOK(next[i], i)
             /\ next[i].age < RunLimit /\ next[i].at \notin {"running", "failing"}
  <2>1. GroupOK(i)
    BY DEF IInv
  <2>2. CASE next[i] = NoRun
    BY <2>1, <2>2, NoRunIsRun, Bounds DEF GroupOK
  <2>3. CASE next[i] # NoRun
    BY <2>1, <2>3, Bounds DEF GroupOK, RunOK
  <2>4. QED BY <2>1, <2>2, <2>3 DEF GroupOK
<1>3. \A i \in RowId : first'[i] = Aged(first[i]) /\ next'[i] = Aged(next[i])
  BY <1>1, <1>2, Ageing DEF Tick
<1>4. first' \in [RowId -> Run] /\ next' \in [RowId -> Run]
  <2>1. \A i \in RowId : Aged(first[i]) \in Run /\ Aged(next[i]) \in Run
    BY <1>1, <1>2, Ageing
  <2>2. first' = [i \in RowId |-> Aged(first[i])]
    BY DEF Tick
  <2>3. /\ next' = [i \in RowId |-> Waited(next[i])]
        /\ \A i \in RowId : Waited(next[i]) = Aged(next[i])
    BY <1>1, <1>2, Ageing DEF Tick
  <2>4. QED BY <2>1, <2>2, <2>3
<1>5. ASSUME NEW i \in RowId PROVE GroupOK(i)'
  <2>1. GroupOK(i)
    BY DEF IInv
  <2>2. /\ RunOK(first'[i], i) /\ RunOK(next'[i], i) /\ next'[i].at = next[i].at
        /\ first'[i] = NoRun <=> first[i] = NoRun
        /\ next'[i] = NoRun <=> next[i] = NoRun
    BY <1>1, <1>2, <1>3, Ageing
  <2>3. QED BY <2>1, <2>2 DEF GroupOK, RunOK
<1>6. ASSUME NEW j \in Job
      PROVE  /\ row'[j] \in Row /\ row'[j].at = row[j].at
             /\ row'[j].left = IF row[j].left = 0 THEN 0 ELSE row[j].left - 1
  <2> DEFINE l == IF row[j].left = 0 THEN 0 ELSE row[j].left - 1
  <2>1. row[j] \in Row /\ row'[j] = [row[j] EXCEPT !.left = l]
    BY DEF Tick
  <2>2. l \in 0 .. Lease
    <3>1. row[j].left \in 0 .. Lease
      BY <2>1 DEF Row
    <3>2. CASE row[j].left = 0
      BY <3>1, <3>2
    <3>3. CASE row[j].left # 0
      BY <3>1, <3>3, Bounds
    <3>4. QED BY <3>2, <3>3
  <2> HIDE DEF l
  <2>3. row'[j] \in Row
    BY <2>1, <2>2 DEF Row
  <2>4. row'[j].at = row[j].at /\ row'[j].left = l
    BY <2>1 DEF Row
  <2>5. QED BY <2>3, <2>4 DEF l
<1>7. row' \in [Job -> Row] /\ \A j \in Job : row'[j].at # "open" => row'[j].left = 0
  <2>1. DOMAIN row' = Job /\ row' = [j \in Job |-> row'[j]]
    BY DEF Tick
  <2>2. QED BY <1>6, <2>1
<1>8. late' \in [Job -> BOOLEAN]
  BY DEF Tick
<1>9. TypeOK'
  BY <1>1, <1>4, <1>7, <1>8, TypesAfter
<1>10. ASSUME NEW j \in Job, ~lost'[j], ~late'[j] PROVE Steady(j)'
  <2>1. Steady(j) /\ ~lost[j] /\ ~late[j]
    BY <1>1, <1>10 DEF IInv, Tick
  <2>2. ASSUME NEW run \in {first[IdOf[j]], next[IdOf[j]]}
        PROVE  Sound(Aged(run), j)' /\ Aged(run).job = run.job
    <3>1. /\ IdOf[j] \in RowId /\ run \in Run /\ run.age < RunLimit /\ RunOK(run, IdOf[j])
          /\ Aged(run) \in {first'[IdOf[j]], next'[IdOf[j]]}
      BY <1>1, <1>2, <1>3, Bounds
    <3>2. Aged(run).job = run.job /\ Aged(run).at = run.at
      BY <3>1, Ageing
    <3>3. CASE run.job # j
      BY <3>2, <3>3 DEF Sound, Aged, Waited, Least, Slack
    <3>4. CASE run.job = j
      <4>1. Sound(run, j) /\ run # NoRun
        BY <2>1, <3>4, NoRunIsRun DEF Steady
      <4>2. Aged(run).wait # Slack
        BY <1>10, <3>1, <3>2, <3>4 DEF Tick
      <4>3. CASE row[j].at = "open"
        <5>1. run.wait < Slack /\ row[j].left = Lease - run.wait - run.age
          BY <3>4, <4>1, <4>3 DEF Sound
        <5>2. Aged(run).wait < Slack /\ Aged(run).wait + Aged(run).age = run.wait + run.age + 1
          BY <3>1, <4>1, <4>2, <5>1, Ageing
        <5>3. /\ run.wait \in Nat /\ run.age \in Nat
              /\ Aged(run).wait \in Nat /\ Aged(run).age \in Nat
          BY <3>1, Ageing, Bounds DEF Run
        <5>4. row'[j].left = Lease - Aged(run).wait - Aged(run).age
          <6>1. run.age <= RunLimit
            BY <3>1, Bounds DEF Run
          <6>2. row[j].left # 0
            BY <5>1, <5>3, <6>1, Bounds
          <6>3. row'[j].left = row[j].left - 1
            BY <1>6, <6>2
          <6>4. QED BY <5>1, <5>2, <5>3, <6>3, Bounds
        <5>5. QED BY <1>6, <4>3, <5>2, <5>4 DEF Sound, Aged, Waited, Least, Slack
      <4>4. CASE row[j].at # "open"
        BY <1>6, <3>2, <3>4, <4>1, <4>4 DEF Sound, Aged, Waited, Least, Slack
      <4>5. QED BY <3>2, <4>3, <4>4
    <3>5. QED BY <3>2, <3>3, <3>4
  <2>3. Sound(first[IdOf[j]], j)' /\ Sound(next[IdOf[j]], j)'
    BY <1>3, <2>2, Bounds DEF Sound, Aged, Waited, Least, Slack
  <2>4. QED BY <1>1, <1>3, <1>6, <2>1, <2>2, <2>3, Bounds DEF Steady
<1>11. QED BY <1>1, <1>5, <1>6, <1>9, <1>10 DEF Steady

LEMMA Starts == Init => IInv
<1> SUFFICES ASSUME Init PROVE IInv
  OBVIOUS
<1>1. TypeOK
  <2>1. [at |-> "open", left |-> 0, attempts |-> 0] \in Row
    BY Bounds DEF Row
  <2>2. row \in [Job -> Row] /\ \A j \in Job : row[j].at = "open"
    BY <2>1 DEF Init
  <2>3. first \in [RowId -> Run] /\ next \in [RowId -> Run]
    BY NoRunIsRun DEF Init
  <2>4. /\ calm \in BOOLEAN /\ made \in [Job -> 0 .. 2]
        /\ lost \in [Job -> BOOLEAN] /\ late \in [Job -> BOOLEAN]
    <3>1. FALSE \in BOOLEAN /\ 0 \in 0 .. 2
      OBVIOUS
    <3>2. made \in [Job -> 0 .. 2]
      BY <3>1 DEF Init
    <3>3. lost \in [Job -> BOOLEAN]
      BY Zenon, <3>1 DEF Init
    <3>4. late \in [Job -> BOOLEAN]
      BY Zenon, <3>1 DEF Init
    <3>5. QED BY <3>2, <3>3, <3>4 DEF Init
  <2>5. QED BY <2>2, <2>3, <2>4, Types
<1>2. \A id \in RowId : GroupOK(id)
  BY NoRunIsRun DEF Init, GroupOK, RunOK
<1>3. \A j \in Job : Steady(j) /\ (row[j].at = "gone" => made[j] > 0)
  BY NoRunIsRun, Bounds DEF Init, Steady, Sound
<1>4. QED BY <1>1, <1>2, <1>3 DEF IInv

LEMMA StillSteps ==
  ASSUME IInv, CalmDown \/ UNCHANGED vars
  PROVE  IInv'
<1>1. UNCHANGED <<row, first, next, made, lost, late>> /\ calm' \in BOOLEAN
  BY Types DEF IInv, CalmDown, vars
<1>2. TypeOK'
  BY <1>1, Types, TypesAfter DEF IInv
<1>3. \A id \in RowId : GroupOK(id)'
  BY <1>1 DEF IInv, GroupOK, RunOK
<1>4. \A j \in Job : Steady(j)' /\ (row'[j].at = "gone" => made'[j] > 0)
  BY <1>1 DEF IInv, Steady, Sound
<1>5. QED BY <1>2, <1>3, <1>4 DEF IInv

LEMMA Preserved == IInv /\ [Next]_vars => IInv'
<1> SUFFICES ASSUME IInv, [Next]_vars PROVE IInv'
  OBVIOUS
<1>1. ASSUME NEW j \in Job, Dispatched(j) \/ DispatchUnanswered(j) \/ DispatchFails(j) PROVE IInv'
  BY <1>1, DispatchedSteps, UnansweredSteps, RefusedSteps
<1>2. ASSUME NEW id \in RowId, RunStep(id) \/ RunFails(id) \/ RunVanishes(id) PROVE IInv'
  BY <1>2, StartOrFailSteps, PostSteps, EndSteps DEF RunStep
<1>3. CASE Tick
  BY <1>3, TickSteps
<1>4. CASE CalmDown \/ UNCHANGED vars
  BY <1>4, StillSteps
<1>5. QED BY <1>1, <1>2, <1>3, <1>4 DEF Next

LEMMA Invariant == Spec => []IInv
BY Starts, Preserved, PTL DEF Spec

\* The types of the queue's rows, the runs and the histories.
THEOREM TypeCorrect == Spec => []TypeOK
<1>1. IInv => TypeOK
  BY DEF IInv
<1>2. QED BY <1>1, Invariant, PTL

\* A job leaves the queue as done only summarised, and is summarised again, or
\* given up all the same, only when a call of it got lost or a run of it came
\* near the end of its lease before it began.
THEOREM OnceOrExcused == Spec => []OnceUnlessLost
<1>1. IInv => OnceUnlessLost
  <2> SUFFICES ASSUME IInv, NEW j \in Job
               PROVE  /\ row[j].at = "gone" => made[j] > 0
                      /\ made[j] > 1 \/ (made[j] > 0 /\ row[j].at = "dead") => lost[j] \/ late[j]
    BY DEF OnceUnlessLost
  <2>1. row[j].at = "gone" => made[j] > 0
    BY DEF IInv
  <2>2. ~lost[j] /\ ~late[j] => made[j] = IF row[j].at = "gone" THEN 1 ELSE 0
    BY DEF IInv, Steady
  <2>3. QED BY <2>1, <2>2
<1>2. QED BY <1>1, Invariant, PTL

-----------------------------------------------------------------------------
(* The ledger that WorkQueue is shown to implement, seen in the lane's rows *)

At(how) == {j \in Job : row[j].at = how}
Ledger == INSTANCE WorkLedger
            WITH pending <- At("open"), completed <- At("gone"), buried <- At("dead")

\* What the ledger has left to do once every job is accepted, without the late
\* verdict that the queue by itself may give.
Settling == \E j \in Job : Ledger!Complete(j) \/ Ledger!Bury(j)

\* One row may leave the backlog, as done or as dead; none else moves.
Leaves(j) ==
  /\ \A k \in Job \ {j} : row'[k].at = row[k].at
  /\ row'[j].at = row[j].at \/ (row[j].at = "open" /\ row'[j].at \in {"gone", "dead"})

LEMMA LeavingIsLedgers ==
  ASSUME NEW j \in Job, Leaves(j)
  PROVE  [Settling]_(Ledger!vars)
<1>1. CASE row'[j].at = row[j].at
  BY <1>1 DEF Leaves, At, Ledger!vars
<1>2. CASE row[j].at = "open" /\ row'[j].at = "gone"
  <2>1. Ledger!Complete(j)
    BY <1>2 DEF Leaves, At, Ledger!Complete
  <2>2. QED BY <2>1 DEF Settling
<1>3. CASE row[j].at = "open" /\ row'[j].at = "dead"
  <2>1. Ledger!Bury(j)
    BY <1>3 DEF Leaves, At, Ledger!Bury
  <2>2. QED BY <2>1 DEF Settling
<1>4. QED BY <1>1, <1>2, <1>3 DEF Leaves

\* A row that left the backlog is not touched by a late ack or report.
LEMMA SettledStay ==
  ASSUME NEW r \in Row
  PROVE  /\ Acked(r).at = r.at \/ (r.at = "open" /\ Acked(r).at \in {"gone", "dead"})
         /\ AckedFailed(r).at = r.at \/ (r.at = "open" /\ AckedFailed(r).at \in {"gone", "dead"})
         /\ r.at = "open" => Fails(r).at \in {"open", "dead"} /\ Closed(r, "dead").at = "dead"
         /\ Leased(r).at = r.at
BY DEF Acked, AckedFailed, Fails, Leased, Closed, Row

\* The lane starts with every job accepted and goes on as the ledger of the work
\* class does, without its late verdict: whatever of /summarize, /post and /fail
\* is lost, repeated or late, a row goes from the backlog to done or to dead,
\* once, and no call takes it from there.
THEOREM LaneKeepsLedger == Spec => At("open") = Job /\ [][Settling]_(Ledger!vars)
<1>1. IInv /\ [Next]_vars => [Settling]_(Ledger!vars)
  <2> SUFFICES ASSUME IInv, [Next]_vars PROVE [Settling]_(Ledger!vars)
    OBVIOUS
  <2> USE Types DEF IInv
  <2>1. ASSUME NEW j \in Job, Dispatched(j) \/ DispatchUnanswered(j) \/ DispatchFails(j)
        PROVE  Leaves(j)
    BY <2>1, SettledStay DEF Dispatched, DispatchUnanswered, DispatchFails, Due, Leaves
  <2>2. ASSUME NEW id \in RowId, RunPosts(id) \/ RunReports(id)
        PROVE  Leaves(first[id].job)
    <3>1. first[id].job \in Job
      BY <2>2, RunOwner, NoRunIsRun DEF RunPosts, RunReports
    <3>2. \/ row' = row
          \/ row' = [row EXCEPT ![first[id].job] = Acked(@)]
          \/ row' = [row EXCEPT ![first[id].job] = AckedFailed(@)]
      BY <2>2 DEF RunPosts, RunReports
    <3>3. QED BY <3>1, <3>2, SettledStay DEF Leaves
  <2>3. ASSUME NEW id \in RowId, RunPosts(id) \/ RunReports(id)
        PROVE  first[id].job \in Job
    BY <2>3, RunOwner, NoRunIsRun DEF RunPosts, RunReports
  <2>4. ASSUME NEW id \in RowId, RunStarts(id) \/ RunFails(id) \/ RunVanishes(id)
        PROVE  UNCHANGED row
    BY <2>4 DEF RunStarts, RunFails, RunVanishes
  <2>5. CASE Tick
    <3>1. \A j \in Job : row'[j].at = row[j].at
      BY <2>5 DEF Tick, Row
    <3>2. QED BY <3>1 DEF At, Ledger!vars
  <2>6. CASE UNCHANGED row
    BY <2>6 DEF At, Ledger!vars
  <2>7. QED
    BY <2>1, <2>2, <2>3, <2>4, <2>5, <2>6, LeavingIsLedgers DEF Next, RunStep, CalmDown, vars
<1>2. Init => At("open") = Job
  BY DEF Init, At
<1>3. QED BY <1>1, <1>2, Invariant, PTL DEF Spec
=============================================================================
