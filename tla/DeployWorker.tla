----------------------------- MODULE DeployWorker -----------------------------
(***************************************************************************)
(* The deploy lanes behind the mutex: coordination/worker.sh, started by   *)
(* launchd, brings the provisioning Grafana mounts to origin/main when the *)
(* queue holds a job or main has moved, verifies Grafana and rolls back;   *)
(* grafana/deploy-provisioning.sh previews a working tree by hand; and     *)
(* coordination/enqueue.sh drops jobs.  Each command of the worker that    *)
(* can fail by itself is a step, and the run can die between any two.      *)
(***************************************************************************)
EXTENDS DeployLock

CONSTANTS
  Worker, Preview,   \* the two slots
  MaxRev,            \* bound: revisions main goes through, 1..MaxRev
  Bad,               \* revisions Grafana does not come back healthy with
  Job,               \* bound: the jobs ever enqueued
  Faults,            \* the commands that may fail in the environment studied
  Mortal             \* the slots whose runs may die in it

Rev == 1 .. MaxRev

ASSUME WorkerAssumption ==
  /\ Worker # Preview /\ Slot = {Worker, Preview}
  /\ MaxRev \in Nat \ {0} /\ Bad \subseteq 2 .. MaxRev
  /\ Faults \subseteq {"fetch", "reset", "copy", "sync", "restart", "record"}
  /\ Mortal \subseteq Slot

VARIABLES
  main,       \* origin/main at the remote
  tracked,    \* the clone's origin/main
  clone,      \* the clone's HEAD
  lastSha,    \* last-deployed-sha, or NoSha when that file is empty
  live,       \* contents of COORD_PROVISION_DEST
  prev,       \* contents of COORD_PROVISION_DEST.prev
  loaded,     \* what the Grafana container last started with
  jobs,       \* job -> the directory it is in
  want,       \* history: job -> main when it was enqueued
  stage,      \* the command the worker's run has reached
  ok,         \* the worker's $ok
  previewing, \* the command the preview's run has reached
  deployed,   \* history: the last revision a run verified and went on to record
  mishap      \* history: a run was cut or a command failed between the copy and
              \* the verdict, and no deploy or preview has come through since

deployVars ==
  <<main, tracked, clone, lastSha, live, prev, loaded, jobs, want, stage, ok,
    previewing, deployed, mishap>>
vars == <<lockVars, deployVars>>

Absent    == 0    \* no such directory
NoSha     == 0    \* an empty record
WorkTree  == -1   \* a previewed working tree
Torn      == -2   \* an rsync or a cp that stopped half way
Contents  == Rev \cup {WorkTree, Torn}
Place     == {"none", "queue", "processing", "done", "failed"}
Stage     == {"look", "refresh", "snapshot", "sync", "restart", "verify", "record", "file", "exit"}

In(place) == {j \in Job : jobs[j] = place}
MoveAll(from, to) == [j \in Job |-> IF jobs[j] = from THEN to ELSE jobs[j]]

\* A command succeeds, or fails where the environment lets it.
Outcome(cmd) == IF cmd \in Faults THEN {TRUE, FALSE} ELSE {TRUE}

-----------------------------------------------------------------------------
Merge ==
  /\ main < MaxRev
  /\ main' = main + 1
  /\ UNCHANGED <<lockVars, tracked, clone, lastSha, live, prev, loaded, jobs, want,
                 stage, ok, previewing, deployed, mishap>>

\* enqueue.sh: write a hidden file, rename it into the queue.
Enqueue(j) ==
  /\ jobs[j] = "none"
  /\ jobs' = [jobs EXCEPT ![j] = "queue"]
  /\ want' = [want EXCEPT ![j] = main]
  /\ UNCHANGED <<lockVars, main, tracked, clone, lastSha, live, prev, loaded,
                 stage, ok, previewing, deployed, mishap>>

-----------------------------------------------------------------------------
(* worker.sh.  Each step is one command and takes whether it went well. *)

At(where) == step[Worker] = "holding" /\ stage = where

\* Is there a job, or has main moved?  The fetch may fail unnoticed.  If so all
\* queued jobs collapse into one deploy.
BugLookMainOnly(fine) ==            \* the queue is not looked at
  /\ At("look")
  /\ tracked' = IF fine THEN main ELSE tracked
  /\ IF tracked' # lastSha THEN stage' = "refresh" ELSE stage' = "exit"
  /\ jobs' = IF stage' = "refresh" THEN MoveAll("queue", "processing") ELSE jobs
  /\ ok' = TRUE
  /\ UNCHANGED <<lockVars, main, clone, lastSha, live, prev, loaded, want, previewing, deployed, mishap>>
BugLookQueueOnly(fine) ==           \* no poll-deploy
  /\ At("look")
  /\ tracked' = IF fine THEN main ELSE tracked
  /\ stage' = IF In("queue") = {} THEN "exit" ELSE "refresh"
  /\ jobs' = IF stage' = "refresh" THEN MoveAll("queue", "processing") ELSE jobs
  /\ ok' = TRUE
  /\ UNCHANGED <<lockVars, main, clone, lastSha, live, prev, loaded, want, previewing, deployed, mishap>>
Look(fine) ==
  /\ At("look")
  /\ tracked' = IF fine THEN main ELSE tracked
  /\ stage' = IF In("queue") = {} /\ tracked' = lastSha THEN "exit" ELSE "refresh"
  /\ jobs' = IF stage' = "refresh" THEN MoveAll("queue", "processing") ELSE jobs
  /\ ok' = TRUE
  /\ UNCHANGED <<lockVars, main, clone, lastSha, live, prev, loaded, want, previewing, deployed, mishap>>

\* Fetch again and reset the clone to what is tracked.  If either fails the
\* deploy is skipped, the other is tried all the same.
BugRefresh(fetched, reset) ==       \* goes on regardless
  /\ At("refresh")
  /\ tracked' = IF fetched THEN main ELSE tracked
  /\ clone' = IF reset THEN tracked' ELSE clone
  /\ stage' = "snapshot"
  /\ UNCHANGED <<lockVars, main, lastSha, live, prev, loaded, jobs, want, ok,
                 previewing, deployed, mishap>>
Refresh(fetched, reset) ==
  /\ At("refresh")
  /\ tracked' = IF fetched THEN main ELSE tracked
  /\ clone' = IF reset THEN tracked' ELSE clone
  /\ ok' = (fetched /\ reset)
  /\ stage' = IF fetched /\ reset THEN "snapshot" ELSE "record"
  /\ UNCHANGED <<lockVars, main, lastSha, live, prev, loaded, jobs, want,
                 previewing, deployed, mishap>>

\* rm -rf DEST.prev; cp -R DEST DEST.prev || true.  A copy that fails leaves
\* nothing, or the part it got to, and a later rollback takes that.
Snapshot(fine) ==
  /\ At("snapshot")
  /\ prev' \in IF fine THEN {live} ELSE {Absent, Torn}
  /\ mishap' = (mishap \/ ~fine)
  /\ stage' = "sync"
  /\ UNCHANGED <<lockVars, main, tracked, clone, lastSha, live, loaded, jobs, want, ok,
                 previewing, deployed>>

Sync(fine) ==
  /\ At("sync")
  /\ live' = IF fine THEN clone ELSE Torn
  /\ ok' = (ok /\ fine)
  /\ mishap' = (mishap \/ ~fine)
  /\ stage' = "restart"
  /\ UNCHANGED <<lockVars, main, tracked, clone, lastSha, prev, loaded, jobs, want,
                 previewing, deployed>>

Restart(fine) ==
  /\ At("restart")
  /\ loaded' = IF fine THEN live ELSE loaded
  /\ ok' = (ok /\ fine)
  /\ mishap' = (mishap \/ ~fine)
  /\ stage' = "verify"
  /\ UNCHANGED <<lockVars, main, tracked, clone, lastSha, live, prev, jobs, want,
                 previewing, deployed>>

Healthy(contents) == IF contents = Torn THEN BOOLEAN ELSE {contents \notin Bad}

\* Grafana answered: whatever it is running.
VerifyPasses ==
  /\ At("verify")
  /\ TRUE \in Healthy(loaded)
  /\ stage' = "record"
  /\ UNCHANGED <<lockVars, main, tracked, clone, lastSha, live, prev, loaded, jobs, want, ok,
                 previewing, deployed, mishap>>

\* It did not: roll back to the snapshot, if there is one.  An rsync that fails
\* here ends the run (errexit), its jobs unfiled; a restart that fails does not.
BugVerifyFails(fine) ==
  /\ At("verify")
  /\ FALSE \in Healthy(loaded)
  /\ ok' = FALSE
  /\ stage' = "record"
  /\ UNCHANGED <<lockVars, main, tracked, clone, lastSha, live, prev, loaded, jobs, want,
                 previewing, deployed, mishap>>
VerifyFails(fine) ==
  /\ At("verify")
  /\ FALSE \in Healthy(loaded)
  /\ ok' = FALSE
  /\ \/ prev = Absent /\ fine /\ UNCHANGED <<live, loaded, mishap>>
     \/ prev # Absent /\ fine /\ live' = prev
        /\ \E restarted \in Outcome("restart") :
             /\ loaded' = IF restarted THEN prev ELSE loaded
             /\ mishap' = (mishap \/ ~restarted)
     \/ prev # Absent /\ ~fine /\ live' = Torn /\ mishap' = TRUE /\ UNCHANGED loaded
  /\ stage' = IF fine THEN "record" ELSE "exit"
  /\ UNCHANGED <<lockVars, main, tracked, clone, lastSha, prev, jobs, want, previewing,
                 deployed>>

\* The SHA recorded is the one deployed, not the one looked at.  The redirect
\* truncates first and its failure is passed over.
BugRecord(fine) ==
  /\ At("record")
  /\ lastSha' = clone /\ deployed' = clone
  /\ stage' = "file"
  /\ UNCHANGED <<lockVars, main, tracked, clone, live, prev, loaded, jobs, want, ok,
                 previewing, mishap>>
BugRecordLive(fine) ==              \* whatever DEST holds
  /\ At("record")
  /\ lastSha' = live
  /\ stage' = "file"
  /\ UNCHANGED <<lockVars, main, tracked, clone, live, prev, loaded, jobs, want, ok,
                 previewing, deployed, mishap>>
Record(fine) ==
  /\ At("record")
  /\ lastSha' = IF ~ok THEN lastSha ELSE IF fine THEN clone ELSE NoSha
  /\ deployed' = IF ok THEN clone ELSE deployed
  /\ stage' = "file"
  /\ UNCHANGED <<lockVars, main, tracked, clone, live, prev, loaded, jobs, want, ok,
                 previewing, mishap>>

\* Everything in processing/, what a dead run left there included.  (A deploy
\* that came through makes good what went wrong before it.)
File ==
  /\ At("file")
  /\ jobs' = MoveAll("processing", IF ok THEN "done" ELSE "failed")
  /\ mishap' = (mishap /\ ~ok)
  /\ stage' = "exit"
  /\ UNCHANGED <<lockVars, main, tracked, clone, lastSha, live, prev, loaded, want, ok,
                 previewing, deployed>>

\* One command of the worker's run, going well or badly.
WorkerStep(fine) ==
  \/ fine \in Outcome("fetch") /\ (Look(fine) \/ \E reset \in Outcome("reset") : Refresh(fine, reset))
  \/ fine \in Outcome("copy") /\ Snapshot(fine)
  \/ fine \in Outcome("sync") /\ (Sync(fine) \/ VerifyFails(fine))
  \/ fine \in Outcome("restart") /\ Restart(fine)
  \/ fine \in Outcome("record") /\ Record(fine)
  \/ fine /\ (VerifyPasses \/ File)

WorkerExits ==
  /\ At("exit")
  /\ Release(Worker)
  /\ stage' = "look"
  /\ UNCHANGED <<main, tracked, clone, lastSha, live, prev, loaded, jobs, want, ok,
                 previewing, deployed, mishap>>

-----------------------------------------------------------------------------
(* deploy-provisioning.sh: rsync, restart; errexit ends it on a failure. *)

PreviewSyncs(fine) ==
  /\ step[Preview] = "holding" /\ previewing = "sync"
  /\ live' = IF fine THEN WorkTree ELSE Torn
  /\ mishap' = (mishap \/ ~fine)
  /\ previewing' = IF fine THEN "restart" ELSE "exit"
  /\ UNCHANGED <<lockVars, main, tracked, clone, lastSha, prev, loaded, jobs, want,
                 stage, ok, deployed>>

PreviewRestarts(fine) ==
  /\ step[Preview] = "holding" /\ previewing = "restart"
  /\ loaded' = IF fine THEN live ELSE loaded
  /\ mishap' = ~fine
  /\ previewing' = "exit"
  /\ UNCHANGED <<lockVars, main, tracked, clone, lastSha, live, prev, jobs, want,
                 stage, ok, deployed>>

PreviewExits ==
  /\ previewing = "exit"
  /\ Release(Preview)
  /\ previewing' = "sync"
  /\ UNCHANGED <<main, tracked, clone, lastSha, live, prev, loaded, jobs, want,
                 stage, ok, deployed, mishap>>

PreviewStep ==
  \/ \E fine \in Outcome("sync") : PreviewSyncs(fine)
  \/ \E fine \in Outcome("restart") : PreviewRestarts(fine)
  \/ PreviewExits

-----------------------------------------------------------------------------
TakesLock(s) == Acquire(s) /\ UNCHANGED deployVars

\* A run is killed between two commands, or in the middle of writing the record.
\* One killed in the middle of a copy or a sync is one where that fails first.
InTheOpen(s) ==
  IF s = Worker THEN stage \in {"sync", "restart", "verify"} ELSE previewing = "restart"
RunDies(s) ==
  /\ s \in Mortal
  /\ Die(s)
  /\ lastSha' \in {lastSha} \cup (IF s = Worker /\ stage = "record" /\ ok THEN {NoSha} ELSE {})
  /\ stage' = IF s = Worker THEN "look" ELSE stage
  /\ previewing' = IF s = Preview THEN "sync" ELSE previewing
  /\ mishap' = (mishap \/ InTheOpen(s))
  /\ UNCHANGED <<main, tracked, clone, live, prev, loaded, jobs, want, ok, deployed>>

Tick == LockAge /\ UNCHANGED deployVars

\* As install.sh and a first deploy leave things.
Init ==
  /\ LockInit
  /\ main = 1 /\ tracked = 1 /\ clone = 1 /\ lastSha = 1 /\ deployed = 1
  /\ live = 1 /\ loaded = 1 /\ prev = Absent
  /\ jobs = [j \in Job |-> "none"] /\ want = [j \in Job |-> 0]
  /\ stage = "look" /\ ok = TRUE /\ previewing = "sync" /\ mishap = FALSE

Next ==
  \/ Merge \/ \E j \in Job : Enqueue(j)
  \/ \E s \in Slot : TakesLock(s) \/ RunDies(s)
  \/ \E fine \in BOOLEAN : WorkerStep(fine)
  \/ WorkerExits \/ PreviewStep
  \/ Tick

Spec == Init /\ [][Next]_vars

(***************************************************************************)
(* launchd starts the worker over and over and lets it get on.  Previews   *)
(* are started by hand, they come to an end and so does their starting;    *)
(* and from some time on no run dies any more.  A run that gives up at the *)
(* mutex and one that dies there look alike: only the others count.        *)
(***************************************************************************)
WorkerRuns == TakesLock(Worker) \/ WorkerStep(TRUE) \/ WorkerExits
DiesInstead(s) == RunDies(s) /\ ~TakesLock(s)

FairSpec ==
  /\ Spec
  /\ WF_vars(Tick) /\ WF_vars(WorkerRuns)
  /\ <>[](step[Preview] = "idle")
  /\ <>[][\A s \in Slot : ~DiesInstead(s)]_vars

-----------------------------------------------------------------------------
TypeOK ==
  /\ LockTypeOK
  /\ {main, tracked, clone, deployed} \subseteq Rev /\ lastSha \in Rev \cup {NoSha}
  /\ live \in Contents /\ loaded \in Contents /\ prev \in Contents \cup {Absent}
  /\ jobs \in [Job -> Place] /\ want \in [Job -> Rev \cup {0}]
  /\ stage \in Stage /\ previewing \in {"sync", "restart", "exit"}
  /\ ok \in BOOLEAN /\ mishap \in BOOLEAN

\* A job filed in done/ was answered by a verified deploy of everything that
\* was on main when it was enqueued, also when a dead run had left it behind.
DoneMeansDeployed == \A j \in In("done") : deployed >= want[j]

\* last-deployed-sha only ever names a revision Grafana came back healthy with,
\* and no older one than the last it did, unless the record got lost.
RecordedIsHealthy == lastSha \notin Bad /\ lastSha \in {deployed, NoSha}

\* Between deploys Grafana runs what the provisioning directory holds, and that
\* is whole and no bad revision, whatever was rolled back.  Excused is what a run
\* cut between sync and verdict or a failed copy, sync or restart left behind,
\* and only until the next deploy or preview has come through.
BadIsRolledBack ==
  lock = NoLock /\ ~mishap => live = loaded /\ live \notin Bad \cup {Torn}

\* No dead run wedges the mutex: the worker gets it again and again.
NeverWedged == []<>(step[Worker] = "holding")

\* A merge goes live by itself: with main at rest on a good revision, that one
\* is deployed.
MergeGoesLive == <>[](main \notin Bad) => <>[](lastSha = main)

\* Every queued job is taken by some run.
QueueDrains == \A j \in Job : jobs[j] = "queue" ~> jobs[j] # "queue"
=============================================================================
