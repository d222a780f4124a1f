-------------------------- MODULE DeployWorker_proofs --------------------------
(***************************************************************************)
(* Proofs about DeployWorker: the worker and the preview use the mutex by  *)
(* its own rules, so there is one deploy at a time; and with that, what    *)
(* the worker records and files is true whichever command fails and        *)
(* whichever run dies.                                                     *)
(***************************************************************************)
EXTENDS DeployWorker, DeployLock_proofs

USE WorkerAssumption, LockAssumption
USE DEF Dead, Nobody, NoLock, MadeBy, GoTo

LEMMA LockStep == [Next]_vars => [LockNext]_lockVars
<1> SUFFICES ASSUME [Next]_vars PROVE [LockNext]_lockVars
  OBVIOUS
<1>1. ASSUME NEW s \in Slot, TakesLock(s) \/ RunDies(s)
      PROVE  LockNext
  BY <1>1 DEF TakesLock, RunDies, LockNext
<1>2. CASE WorkerExits \/ PreviewExits
  BY <1>2 DEF WorkerExits, PreviewExits, LockNext
<1>3. CASE Tick
  BY <1>3 DEF Tick, LockNext
<1>4. ASSUME NEW fine \in BOOLEAN, WorkerStep(fine)
      PROVE  UNCHANGED lockVars
  BY <1>4 DEF WorkerStep, Look, Refresh, Snapshot, Sync, VerifyFails, Restart, VerifyPasses,
              Record, File
<1>5. ASSUME NEW fine, PreviewSyncs(fine) \/ PreviewRestarts(fine)
      PROVE  UNCHANGED lockVars
  BY <1>5 DEF PreviewSyncs, PreviewRestarts
<1>6. CASE Merge \/ \E j \in Job : Enqueue(j)
  BY <1>6 DEF Merge, Enqueue
<1>7. CASE UNCHANGED vars
  BY <1>7 DEF vars
<1>8. QED BY <1>1, <1>2, <1>3, <1>4, <1>5, <1>6, <1>7 DEF Next, PreviewStep

\* The deploy lanes touch the mutex only through mutex.sh's own steps.
THEOREM LanesRunLock == Spec => LockSpec
  BY LockStep, PTL DEF Spec, LockSpec, Init

\* The worker and a preview never deploy at the same time, as long as two
\* reclaims of a stale lock never overlap.  The code does not see to that
\* (mutex.sh:51, run deploy_lock_overlap): it is an assumption here, and of each
\* theorem that cites this one.
THEOREM OneDeployer ==
  ASSUME ~Overlap
  PROVE  Spec => []MutualExclusion
  BY LanesRunLock, OneHolder, PTL

-----------------------------------------------------------------------------
LEMMA TypeNext == TypeOK /\ [Next]_vars => TypeOK'
<1> SUFFICES ASSUME TypeOK, [Next]_vars PROVE TypeOK'
  OBVIOUS
<1>0. LockTypeOK'
  BY LockStep, LockTypeNext DEF TypeOK
<1> USE DEF TypeOK, Contents, Rev, Place, Stage, Absent, NoSha, WorkTree, Torn
<1>1. CASE Merge \/ \E j \in Job : Enqueue(j)
  BY <1>0, <1>1 DEF Merge, Enqueue
<1>2. ASSUME NEW fine \in BOOLEAN, NEW reset \in BOOLEAN, Look(fine) \/ Refresh(fine, reset)
      PROVE  TypeOK'
  <2>1. ok' \in BOOLEAN /\ mishap' \in BOOLEAN
    BY <1>2, Zenon DEF Look, Refresh
  <2>2. {main', tracked', clone', deployed'} \subseteq 1 .. MaxRev
    BY <1>2 DEF Look, Refresh
  <2>3. stage' \in {"look", "refresh", "snapshot", "record", "exit"}
    BY <1>2 DEF Look, Refresh
  <2>4. jobs' \in [Job -> {"none", "queue", "processing", "done", "failed"}]
    BY <1>2 DEF Look, Refresh, MoveAll
  <2>5. UNCHANGED <<live, loaded, prev, want, previewing, lastSha>>
    BY <1>2 DEF Look, Refresh
  <2>6. QED BY <1>0, <2>1, <2>2, <2>3, <2>4, <2>5
<1>3. ASSUME NEW fine \in BOOLEAN, Snapshot(fine) \/ Sync(fine) \/ Restart(fine) \/ VerifyFails(fine)
      PROVE  TypeOK'
  <2>1. ok' \in BOOLEAN /\ mishap' \in BOOLEAN
    BY <1>3, Zenon DEF Snapshot, Sync, Restart, VerifyFails
  <2>2. UNCHANGED <<main, tracked, clone, lastSha, deployed, jobs, want, previewing>>
    BY <1>3 DEF Snapshot, Sync, Restart, VerifyFails
  <2>3. live' \in Contents /\ loaded' \in Contents /\ prev' \in Contents \cup {Absent}
    BY <1>3 DEF Snapshot, Sync, Restart, VerifyFails
  <2>4. stage' \in {"sync", "restart", "verify", "record", "exit"}
    BY <1>3 DEF Snapshot, Sync, Restart, VerifyFails
  <2>5. QED BY <1>0, <2>1, <2>2, <2>3, <2>4
<1>4. ASSUME NEW fine \in BOOLEAN, VerifyPasses \/ Record(fine) \/ File
      PROVE  TypeOK'
  <2>1. lastSha' \in 0 .. MaxRev /\ deployed' \in 1 .. MaxRev
    <3>1. lastSha' \in {lastSha, clone, 0} /\ deployed' \in {deployed, clone}
      BY <1>4, Zenon DEF VerifyPasses, Record, File
    <3>2. lastSha \in 0 .. MaxRev /\ {deployed, clone} \subseteq 1 .. MaxRev
      OBVIOUS
    <3>3. QED BY <3>1, <3>2
  <2>2. stage' \in {"record", "file", "exit"}
    BY <1>4 DEF VerifyPasses, Record, File
  <2>3. jobs' \in [Job -> {"none", "queue", "processing", "done", "failed"}]
    BY <1>4 DEF VerifyPasses, Record, File, MoveAll
  <2>4. UNCHANGED <<main, tracked, clone, live, prev, loaded, want, ok, previewing>>
    BY <1>4 DEF VerifyPasses, Record, File
  <2>5. mishap' \in BOOLEAN
    BY <1>4, Zenon DEF VerifyPasses, Record, File
  <2>6. QED BY <1>0, <2>1, <2>2, <2>3, <2>4, <2>5
<1>5. ASSUME NEW fine \in BOOLEAN, PreviewSyncs(fine) \/ PreviewRestarts(fine)
      PROVE  TypeOK'
  <2>1. mishap' \in BOOLEAN
    BY <1>5, Zenon DEF PreviewSyncs, PreviewRestarts
  <2>2. QED BY <1>0, <1>5, <2>1 DEF PreviewSyncs, PreviewRestarts
<1>6. CASE WorkerExits \/ PreviewExits \/ Tick
  BY <1>0, <1>6 DEF WorkerExits, PreviewExits, Tick, deployVars
<1>7. ASSUME NEW s \in Slot, TakesLock(s)
      PROVE  TypeOK'
  BY <1>0, <1>7 DEF TakesLock, deployVars
<1>8. ASSUME NEW s \in Slot, RunDies(s)
      PROVE  TypeOK'
  <2>1. mishap' \in BOOLEAN
    BY <1>8, Zenon DEF RunDies, InTheOpen
  <2>2. lastSha' \in 0 .. MaxRev
    BY <1>8 DEF RunDies
  <2>3. stage' \in {"look", stage} /\ previewing' \in {"sync", previewing}
    BY <1>8 DEF RunDies
  <2>4. UNCHANGED <<main, tracked, clone, live, prev, loaded, jobs, want, ok, deployed>>
    BY <1>8 DEF RunDies
  <2>5. QED BY <1>0, <2>1, <2>2, <2>3, <2>4
<1>9. CASE UNCHANGED vars
  BY <1>0, <1>9 DEF vars, deployVars
<1>10. QED BY <1>1, <1>2, <1>3, <1>4, <1>5, <1>6, <1>7, <1>8, <1>9
           DEF Next, WorkerStep, PreviewStep, Outcome

\* Every variable of the deploy lanes keeps its type.
THEOREM TypeCorrect == Spec => []TypeOK
<1>1. Init => TypeOK
  <2> SUFFICES ASSUME Init PROVE TypeOK
    OBVIOUS
  <2>1. ok \in BOOLEAN /\ mishap \in BOOLEAN
    BY Zenon DEF Init
  <2>2. LockTypeOK
    BY LockTypeInit DEF Init
  <2>3. QED BY <2>1, <2>2 DEF Init, TypeOK, Contents, Rev, Place, Stage, Absent
<1>2. QED BY <1>1, TypeNext, PTL DEF Spec

-----------------------------------------------------------------------------
\* Why done/ can be believed: revisions only move forward, from main through
\* the clone to the record, and a run whose refresh went well carries no job
\* that asks for more than the clone holds.
Working == {"snapshot", "sync", "restart", "verify", "record", "file"}

Forward ==
  /\ deployed <= clone /\ clone <= tracked /\ tracked <= main
  /\ \A j \in Job : want[j] <= main
CarriesEnough ==
  stage \in Working /\ ok => \A j \in Job : jobs[j] = "processing" => want[j] <= clone
RecordedFirst == stage = "file" /\ ok => deployed = clone
DoneInv == Forward /\ CarriesEnough /\ RecordedFirst /\ DoneMeansDeployed

LEMMA DoneNext == TypeOK /\ DoneInv /\ [Next]_vars => DoneInv'
<1> SUFFICES ASSUME TypeOK, DoneInv, [Next]_vars PROVE DoneInv'
  OBVIOUS
<1> USE DEF DoneInv, Forward, CarriesEnough, RecordedFirst, DoneMeansDeployed, In, Working
<1>0. /\ {main, tracked, clone, deployed} \subseteq Int
      /\ want \in [Job -> Int] /\ jobs \in [Job -> Place]
  BY DEF TypeOK, Rev
<1>1. CASE Merge
  BY <1>0, <1>1 DEF Merge
<1>2. ASSUME NEW j \in Job, Enqueue(j)
      PROVE  DoneInv'
  BY <1>0, <1>2 DEF Enqueue, Place
<1>3. ASSUME NEW fine \in BOOLEAN, Look(fine)
      PROVE  DoneInv'
  <2>1. stage' \notin Working
    BY <1>3 DEF Look
  <2>2. \A j \in Job : jobs'[j] = "done" => jobs[j] = "done"
    BY <1>0, <1>3 DEF Look, MoveAll
  <2>3. Forward'
    BY <1>0, <1>3 DEF Look
  <2>4. QED BY <1>3, <2>1, <2>2, <2>3 DEF Look
<1>4. ASSUME NEW fetched \in BOOLEAN, NEW reset \in BOOLEAN, Refresh(fetched, reset)
      PROVE  DoneInv'
  <2>1. Forward'
    BY <1>0, <1>4 DEF Refresh
  <2>2. CarriesEnough'
    <3>1. CASE fetched /\ reset
      BY <1>0, <1>4, <3>1 DEF Refresh
    <3>2. CASE ~(fetched /\ reset)
      <4>1. ~ok'
        BY <1>4, <3>2, Zenon DEF Refresh
      <4>2. QED BY <4>1
    <3>3. QED BY <3>1, <3>2
  <2>3. stage' # "file"
    BY <1>4 DEF Refresh
  <2>4. QED BY <1>4, <2>1, <2>2, <2>3 DEF Refresh
<1>5. ASSUME NEW fine \in BOOLEAN, Snapshot(fine) \/ Sync(fine) \/ Restart(fine) \/ VerifyFails(fine)
      PROVE  DoneInv'
  <2>1. UNCHANGED <<main, tracked, clone, deployed, jobs, want>>
    BY <1>5 DEF Snapshot, Sync, Restart, VerifyFails
  <2>2. ok' => ok
    BY <1>5, Zenon DEF Snapshot, Sync, Restart, VerifyFails
  <2>3. stage \in Working /\ stage' # "file"
    BY <1>5 DEF Snapshot, Sync, Restart, VerifyFails, At
  <2>4. QED BY <2>1, <2>2, <2>3, Zenon
<1>6. CASE VerifyPasses
  BY <1>6 DEF VerifyPasses, At
<1>7. ASSUME NEW fine \in BOOLEAN, Record(fine)
      PROVE  DoneInv'
  <2>1. deployed' \in Int /\ deployed' >= deployed /\ deployed' <= clone
    BY <1>0, <1>7 DEF Record
  <2>2. \A j \in Job : jobs[j] = "done" => deployed' >= want[j]
    BY <1>0, <2>1
  <2>3. ok' => deployed' = clone'
    BY <1>7 DEF Record
  <2>4. QED BY <1>7, <2>1, <2>2, <2>3 DEF Record, At
<1>8. CASE File
  <2>1. stage' = "exit" /\ UNCHANGED <<main, tracked, clone, deployed, want>>
    BY <1>8 DEF File
  <2>2. \A j \in Job : jobs'[j] = "done" => jobs[j] = "done" \/ (jobs[j] = "processing" /\ ok)
    BY <1>0, <1>8 DEF File, MoveAll
  <2>3. ok => deployed = clone /\ \A j \in Job : jobs[j] = "processing" => want[j] <= clone
    BY <1>8 DEF File, At
  <2>4. \A j \in Job : jobs'[j] = "done" => deployed' >= want'[j]
    BY <1>0, <2>1, <2>2, <2>3
  <2>5. QED BY <2>1, <2>4
<1>9. ASSUME NEW fine \in BOOLEAN, PreviewSyncs(fine) \/ PreviewRestarts(fine)
      PROVE  DoneInv'
  BY <1>9 DEF PreviewSyncs, PreviewRestarts
<1>10. CASE WorkerExits \/ PreviewExits \/ Tick
  BY <1>10 DEF WorkerExits, PreviewExits, Tick, deployVars
<1>11. ASSUME NEW s \in Slot, TakesLock(s) \/ RunDies(s)
       PROVE  DoneInv'
  BY <1>11 DEF TakesLock, RunDies, deployVars
<1>12. CASE UNCHANGED vars
  BY <1>12 DEF vars, deployVars
<1>13. QED BY <1>1, <1>2, <1>3, <1>4, <1>5, <1>6, <1>7, <1>8, <1>9, <1>10, <1>11, <1>12
           DEF Next, WorkerStep, PreviewStep, Outcome

\* A job in done/ was answered by a verified deploy of all that was on main
\* when it was enqueued: no assumption on the mutex is needed.
THEOREM DoneIsDeployed == Spec => []DoneMeansDeployed
<1>1. Init => DoneInv
  BY DEF Init, DoneInv, Forward, CarriesEnough, RecordedFirst, DoneMeansDeployed, In, Working
<1>2. DoneInv => DoneMeansDeployed
  BY DEF DoneInv
<1>3. QED BY <1>1, <1>2, DoneNext, TypeCorrect, PTL DEF Spec

-----------------------------------------------------------------------------
\* With one deployer at a time the run knows what it deployed: what it synced
\* is still in place when Grafana restarts, so a verified run vouches for clone.
InDeploy ==
  /\ stage # "look" => step[Worker] = "holding"
  /\ previewing # "sync" => step[Preview] = "holding"
Vouched ==
  /\ stage = "restart" /\ ok => live = clone
  /\ stage = "verify" /\ ok => live = clone /\ loaded = clone
  /\ stage \in {"record", "file"} /\ ok => live = clone /\ loaded = clone /\ clone \notin Bad
  /\ deployed \notin Bad
  /\ lastSha \in {deployed, NoSha}

LEMMA InDeployNext == TypeOK /\ InDeploy /\ [Next]_vars => InDeploy'
<1> SUFFICES ASSUME TypeOK, InDeploy, [Next]_vars PROVE InDeploy'
  OBVIOUS
<1> USE DEF TypeOK, LockTypeOK, InDeploy, Step
<1>1. CASE Merge \/ \E j \in Job : Enqueue(j)
  BY <1>1 DEF Merge, Enqueue, lockVars
<1>2. ASSUME NEW fine \in BOOLEAN, NEW reset \in BOOLEAN,
             \/ Look(fine) \/ Refresh(fine, reset) \/ Snapshot(fine) \/ Sync(fine)
             \/ Restart(fine) \/ VerifyFails(fine) \/ VerifyPasses \/ Record(fine) \/ File
      PROVE  InDeploy'
  BY <1>2 DEF Look, Refresh, Snapshot, Sync, Restart, VerifyPasses, VerifyFails,
              Record, File, At, lockVars
<1>3. CASE WorkerExits
  BY <1>3 DEF WorkerExits, Release
<1>4. ASSUME NEW fine, PreviewSyncs(fine) \/ PreviewRestarts(fine)
      PROVE  InDeploy'
  BY <1>4 DEF PreviewSyncs, PreviewRestarts, lockVars
<1>5. CASE PreviewExits
  BY <1>5 DEF PreviewExits, Release
<1>6. ASSUME NEW s \in Slot, TakesLock(s)
      PROVE  InDeploy'
  BY <1>6 DEF TakesLock, Acquire, Mkdir, Inspect, Remove, Remake, WriteOwner, deployVars
<1>7. ASSUME NEW s \in Slot, RunDies(s)
      PROVE  InDeploy'
  BY <1>7 DEF RunDies, Die
<1>8. CASE Tick
  BY <1>8 DEF Tick, LockAge, deployVars
<1>9. CASE UNCHANGED vars
  BY <1>9 DEF vars, lockVars, deployVars
<1>10. QED BY <1>1, <1>2, <1>3, <1>4, <1>5, <1>6, <1>7, <1>8, <1>9
           DEF Next, PreviewStep, WorkerStep, Outcome

\* While the preview has the mutex the worker is not past its look.
LEMMA PreviewExcludes ==
  ASSUME MutualExclusion, InDeploy, step[Preview] = "holding"
  PROVE  stage = "look"
  BY DEF MutualExclusion, InDeploy

\* A Grafana that answers while it runs a revision runs a good one.
LEMMA HealthyRevision ==
  ASSUME NEW r \in Rev, TRUE \in Healthy(r)
  PROVE  r \notin Bad
<1>1. r # Torn
  BY DEF Rev, Torn
<1>2. TRUE \in {r \notin Bad}
  BY <1>1, Zenon DEF Healthy
<1>3. QED BY <1>2, Zenon

LEMMA VouchedNext ==
  TypeOK /\ MutualExclusion /\ InDeploy /\ Vouched /\ [Next]_vars => Vouched'
<1> SUFFICES ASSUME TypeOK, MutualExclusion, InDeploy, Vouched, [Next]_vars PROVE Vouched'
  OBVIOUS
<1> USE DEF Vouched
<1>1. CASE Merge \/ \E j \in Job : Enqueue(j)
  BY <1>1 DEF Merge, Enqueue
<1>2. ASSUME NEW fine \in BOOLEAN, NEW reset \in BOOLEAN,
             Look(fine) \/ Refresh(fine, reset) \/ Snapshot(fine) \/ VerifyFails(fine)
      PROVE  Vouched'
  <2>1. stage' \in {"exit", "refresh", "snapshot", "sync"} \/ (stage' = "record" /\ ~ok')
    <3>1. CASE Refresh(fine, reset)
      BY <3>1, Zenon DEF Refresh
    <3>2. QED BY <1>2, <3>1 DEF Look, Snapshot, VerifyFails
  <2>2. lastSha' = lastSha /\ deployed' = deployed
    BY <1>2 DEF Look, Refresh, Snapshot, VerifyFails
  <2>3. QED BY <2>1, <2>2
<1>3. ASSUME NEW fine \in BOOLEAN, Sync(fine)
      PROVE  Vouched'
  <2>1. ok' => live' = clone'
    BY <1>3 DEF Sync
  <2>2. QED BY <1>3, <2>1 DEF Sync
<1>4. ASSUME NEW fine \in BOOLEAN, Restart(fine)
      PROVE  Vouched'
  <2>1. ok' => live' = clone' /\ loaded' = clone'
    BY <1>4 DEF Restart, At
  <2>2. QED BY <1>4, <2>1 DEF Restart
<1>5. CASE VerifyPasses
  <2>1. ok => clone \notin Bad
    BY <1>5, HealthyRevision DEF VerifyPasses, At, TypeOK
  <2>2. QED BY <1>5, <2>1 DEF VerifyPasses, At
<1>6. ASSUME NEW fine \in BOOLEAN, Record(fine)
      PROVE  Vouched'
  BY <1>6 DEF Record, At
<1>7. CASE File
  BY <1>7 DEF File, At
<1>8. ASSUME NEW fine, PreviewSyncs(fine) \/ PreviewRestarts(fine)
      PROVE  Vouched'
  <2>1. stage = "look"
    BY <1>8, PreviewExcludes DEF PreviewSyncs, PreviewRestarts
  <2>2. QED BY <1>8, <2>1 DEF PreviewSyncs, PreviewRestarts
<1>9. CASE WorkerExits \/ PreviewExits \/ Tick
  BY <1>9 DEF WorkerExits, PreviewExits, Tick, deployVars
<1>10. ASSUME NEW s \in Slot, TakesLock(s)
       PROVE  Vouched'
  BY <1>10 DEF TakesLock, deployVars
<1>11. ASSUME NEW s \in Slot, RunDies(s)
       PROVE  Vouched'
  <2>1. /\ stage' \in {"look", stage} /\ lastSha' \in {lastSha, NoSha}
        /\ UNCHANGED <<clone, live, loaded, ok, deployed>>
    BY <1>11 DEF RunDies
  <2>2. QED BY <2>1
<1>12. CASE UNCHANGED vars
  BY <1>12 DEF vars, deployVars
<1>13. QED BY <1>1, <1>2, <1>3, <1>4, <1>5, <1>6, <1>7, <1>8, <1>9, <1>10, <1>11, <1>12
           DEF Next, WorkerStep, PreviewStep, Outcome

\* last-deployed-sha never names a revision Grafana does not come back with, nor
\* an older one than the last that was deployed.
THEOREM RecordIsHealthy ==
  ASSUME ~Overlap
  PROVE  Spec => []RecordedIsHealthy
<1>1. Init => InDeploy /\ Vouched
  BY DEF Init, InDeploy, Vouched
<1>2. Vouched => RecordedIsHealthy
  BY DEF Vouched, RecordedIsHealthy, NoSha
<1>3. QED BY <1>1, <1>2, InDeployNext, VouchedNext, TypeCorrect, OneDeployer, PTL DEF Spec

-----------------------------------------------------------------------------
\* Unless something was left behind, the bad revision is on trial only between
\* sync and verify, and the snapshot to go back to is a good one.
Sound(contents) == contents \notin Bad /\ contents # Torn
OnTrial ==
  /\ previewing = "restart" => live = WorkTree
  /\ ~mishap =>
       /\ stage \notin {"restart", "verify"} /\ previewing # "restart"
            => live = loaded /\ Sound(live)
       /\ stage \in {"sync", "restart", "verify"} => Sound(prev) /\ prev # Absent
       /\ stage = "restart" => live = clone
       /\ stage = "verify" => live = clone /\ loaded = clone

LEMMA OnTrialNext ==
  TypeOK /\ MutualExclusion /\ InDeploy /\ Vouched /\ OnTrial /\ [Next]_vars => OnTrial'
<1> SUFFICES ASSUME TypeOK, MutualExclusion, InDeploy, Vouched, OnTrial, [Next]_vars
             PROVE  OnTrial'
  OBVIOUS
<1> USE DEF OnTrial, Sound
<1>0. stage # "look" => previewing = "sync"
  BY PreviewExcludes DEF InDeploy
<1>1. CASE Merge \/ \E j \in Job : Enqueue(j)
  BY <1>1 DEF Merge, Enqueue
<1>2. ASSUME NEW fine \in BOOLEAN, NEW reset \in BOOLEAN, Look(fine) \/ Refresh(fine, reset)
      PROVE  OnTrial'
  BY <1>2 DEF Look, Refresh, At
<1>3. ASSUME NEW fine \in BOOLEAN, Snapshot(fine)
      PROVE  OnTrial'
  <2>1. ~mishap' => fine /\ ~mishap
    BY <1>3, Zenon DEF Snapshot
  <2>2. live # Absent
    BY DEF TypeOK, Contents, Rev, WorkTree, Torn, Absent
  <2>3. QED BY <1>0, <1>3, <2>1, <2>2 DEF Snapshot, At
<1>4. ASSUME NEW fine \in BOOLEAN, Sync(fine)
      PROVE  OnTrial'
  <2>1. ~mishap' => fine /\ ~mishap
    BY <1>4, Zenon DEF Sync
  <2>2. QED BY <1>0, <1>4, <2>1 DEF Sync, At
<1>5. ASSUME NEW fine \in BOOLEAN, Restart(fine)
      PROVE  OnTrial'
  <2>1. ~mishap' => fine /\ ~mishap
    BY <1>5, Zenon DEF Restart
  <2>2. QED BY <1>0, <1>5, <2>1 DEF Restart, At
<1>6. CASE VerifyPasses
  <2>1. ~mishap => Sound(clone)
    <3>1. clone \in Rev /\ clone # Torn
      BY DEF TypeOK, Rev, Torn
    <3>2. ~mishap => clone \notin Bad
      BY <1>6, <3>1, HealthyRevision DEF VerifyPasses, At
    <3>3. QED BY <3>1, <3>2
  <2>2. QED BY <1>0, <1>6, <2>1 DEF VerifyPasses, At
<1>7. ASSUME NEW fine \in BOOLEAN, VerifyFails(fine)
      PROVE  OnTrial'
  <2>1. stage' \in {"record", "exit"} /\ stage = "verify" /\ previewing' = "sync"
    BY <1>0, <1>7 DEF VerifyFails, At
  <2>2. ~mishap' => ~mishap
    BY <1>7, Zenon DEF VerifyFails
  <2>3. ASSUME ~mishap' PROVE live' = prev /\ loaded' = prev
    <3>1. prev # Absent
      BY <2>1, <2>2, <2>3
    <3>2. PICK restarted \in BOOLEAN :
            /\ live' = prev
            /\ loaded' = IF restarted THEN prev ELSE loaded
            /\ mishap' = (mishap \/ ~restarted)
      BY <1>7, <2>3, <3>1 DEF VerifyFails, Outcome
    <3>3. restarted
      BY <2>3, <3>2, Zenon
    <3>4. QED BY <3>2, <3>3
  <2>4. QED BY <2>1, <2>2, <2>3
<1>8. ASSUME NEW fine \in BOOLEAN, Record(fine)
      PROVE  OnTrial'
  BY <1>8 DEF Record, At
<1>9. CASE File
  <2>1. stage = "file" /\ stage' = "exit" /\ previewing = "sync"
    BY <1>0, <1>9 DEF File, At
  <2>2. ~mishap' => ~mishap \/ ok
    BY <1>9, Zenon DEF File
  <2>3. ok => live = loaded /\ Sound(live)
    BY <2>1 DEF Vouched, TypeOK, Rev, Torn
  <2>4. UNCHANGED <<live, loaded, prev, clone, previewing>>
    BY <1>9 DEF File
  <2>5. QED BY <2>1, <2>2, <2>3, <2>4
<1>10. ASSUME NEW fine \in BOOLEAN, PreviewSyncs(fine) \/ PreviewRestarts(fine)
       PROVE  OnTrial'
  <2>1. stage = "look"
    BY <1>10, PreviewExcludes DEF PreviewSyncs, PreviewRestarts
  <2>2. CASE PreviewSyncs(fine)
    <3>1. ~mishap' => fine /\ ~mishap
      BY <2>2, Zenon DEF PreviewSyncs
    <3>2. QED BY <2>1, <2>2, <3>1 DEF PreviewSyncs
  <2>3. CASE PreviewRestarts(fine)
    <3>1. ~mishap' => fine
      BY <2>3, Zenon DEF PreviewRestarts
    <3>2. Sound(WorkTree)
      BY DEF WorkTree, Torn
    <3>3. QED BY <2>1, <2>3, <3>1, <3>2 DEF PreviewRestarts
  <2>4. QED BY <1>10, <2>2, <2>3
<1>11. CASE WorkerExits
  BY <1>11 DEF WorkerExits, At
<1>12. CASE PreviewExits
  BY <1>12 DEF PreviewExits
<1>13. CASE Tick
  BY <1>13 DEF Tick, deployVars
<1>14. ASSUME NEW s \in Slot, TakesLock(s)
       PROVE  OnTrial'
  BY <1>14 DEF TakesLock, deployVars
<1>15. ASSUME NEW s \in Slot, RunDies(s)
       PROVE  OnTrial'
  <2>1. UNCHANGED <<live, loaded, prev, clone>>
    BY <1>15 DEF RunDies
  <2>2. ~mishap' => ~mishap /\ ~InTheOpen(s)
    BY <1>15, Zenon DEF RunDies
  <2>3. /\ stage' = IF s = Worker THEN "look" ELSE stage
        /\ previewing' = IF s = Preview THEN "sync" ELSE previewing
    BY <1>15 DEF RunDies
  <2>4. CASE s = Worker
    <3>1. ~InTheOpen(s) => stage \notin {"sync", "restart", "verify"}
      BY <2>4, Zenon DEF InTheOpen
    <3>2. QED BY <2>1, <2>2, <2>3, <2>4, <3>1
  <2>5. CASE s = Preview
    <3>1. ~InTheOpen(s) => previewing # "restart"
      BY <2>5, Zenon DEF InTheOpen
    <3>2. QED BY <2>1, <2>2, <2>3, <2>5, <3>1
  <2>6. QED BY <2>4, <2>5
<1>16. CASE UNCHANGED vars
  BY <1>16 DEF vars, deployVars
<1>17. QED BY <1>1, <1>2, <1>3, <1>4, <1>5, <1>6, <1>7, <1>8, <1>9, <1>10, <1>11, <1>12,
              <1>13, <1>14, <1>15, <1>16 DEF Next, WorkerStep, PreviewStep, Outcome

\* Between deploys Grafana runs what the provisioning directory holds, whole and
\* no bad revision, but for what a run cut between sync and verdict or a failed
\* command left behind, until the next deploy or preview has come through.
THEOREM RollsBack ==
  ASSUME ~Overlap
  PROVE  Spec => []BadIsRolledBack
<1>1. Init => InDeploy /\ Vouched /\ OnTrial
  BY DEF Init, InDeploy, Vouched, OnTrial, Sound, Torn
<1>2. LockInit => LockInv
  BY DEF LockInit, LockInv, HolderOwns, MakerIsFresh, ReclaimsStale, OneReclaims
<1>3. LockTypeOK /\ LockInv /\ [LockNext]_lockVars => LockInv'
  BY LockInvNext
<1>4. LockInv /\ InDeploy /\ OnTrial => BadIsRolledBack
  <2> SUFFICES ASSUME LockInv, InDeploy, OnTrial, lock = NoLock, ~mishap
               PROVE  live = loaded /\ live \notin Bad \cup {Torn}
    BY DEF BadIsRolledBack
  <2>1. step[Worker] # "holding" /\ step[Preview] # "holding"
    BY DEF LockInv, HolderOwns
  <2>2. QED BY <2>1 DEF InDeploy, OnTrial, Sound
<1>5. TypeOK => LockTypeOK
  BY DEF TypeOK
<1>6. Init => LockInit
  BY DEF Init
<1>7. QED BY <1>1, <1>2, <1>3, <1>4, <1>5, <1>6, LockStep, InDeployNext, VouchedNext,
             OnTrialNext, TypeCorrect, OneDeployer, PTL DEF Spec
=============================================================================
