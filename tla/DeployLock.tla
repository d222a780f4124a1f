------------------------------ MODULE DeployLock ------------------------------
(***************************************************************************)
(* coordination/mutex.sh: the mkdir mutex that serialises deploys.  LOCK   *)
(* is a directory; its owner file, written in a second step, holds the     *)
(* pid of the holder and the time.  A caller that finds LOCK in its way    *)
(* may judge it stale, remove it and make its own, in three separate steps *)
(* between which every other process runs.                                 *)
(*                                                                         *)
(* A slot is a script that is run again and again, each run under a fresh  *)
(* pid: when a run dies its pid, wherever it was recorded, becomes Dead.   *)
(***************************************************************************)
EXTENDS Integers

CONSTANTS
  Slot,        \* the scripts that take the mutex
  LockTtl,     \* COORD_LOCK_TTL
  Grace,       \* COORD_LOCK_ORPHAN_GRACE
  Overlap      \* may two runs be reclaiming a lock at the same time?

Dead   == "dead"     \* an owner whose pid is gone
Nobody == "nobody"   \* no owner file yet

ASSUME LockAssumption ==
  /\ LockTtl \in Nat /\ Grace \in Nat \ {0}
  /\ Slot \cap {Dead, Nobody} = {}
  /\ Overlap \in BOOLEAN

VARIABLES
  lock,        \* the LOCK directory: its owner and the age of its last write
  step         \* where each slot's run is in mutex.sh

lockVars == <<lock, step>>

NoLock == [owner |-> Nobody, age |-> -1]
MadeBy(owner) == [owner |-> owner, age |-> 0]
Step   == {"idle", "inspecting", "reclaiming", "remaking", "owning", "holding"}

AgeCap == IF LockTtl > Grace THEN LockTtl + 1 ELSE Grace + 1

GoTo(s, where) == step' = [step EXCEPT ![s] = where]

-----------------------------------------------------------------------------
\* Owner recorded: its pid gone and older than the TTL.  No owner: LOCK itself
\* older than the grace.  No LOCK any more: coord_mtime gives 0, not stale.
BugStaleNeedsOwner(l) == l.owner = Dead /\ l.age > LockTtl
BugStaleTrustsAge(l) ==
  \/ l.owner # Nobody /\ l.age > LockTtl
  \/ l.owner = Nobody /\ l.age > Grace
Stale(l) ==
  \/ l.owner = Dead /\ l.age > LockTtl
  \/ l.owner = Nobody /\ l.age > Grace

Mkdir(s) ==
  /\ step[s] = "idle"
  /\ IF lock = NoLock THEN lock' = MadeBy(Nobody) /\ GoTo(s, "owning")
     ELSE UNCHANGED lock /\ GoTo(s, "inspecting")

Inspect(s) ==
  /\ step[s] = "inspecting"
  /\ Overlap \/ \A t \in Slot : step[t] \notin {"reclaiming", "remaking"}
  /\ GoTo(s, IF Stale(lock) THEN "reclaiming" ELSE "idle")
  /\ UNCHANGED lock

\* rm -rf LOCK: whatever it is by now.
Remove(s) ==
  /\ step[s] = "reclaiming"
  /\ lock' = NoLock
  /\ GoTo(s, "remaking")

Remake(s) ==
  /\ step[s] = "remaking"
  /\ IF lock = NoLock THEN lock' = MadeBy(Nobody) /\ GoTo(s, "owning")
     ELSE UNCHANGED lock /\ GoTo(s, "idle")

\* The caller's `||` switches errexit off: a write into a LOCK that is gone
\* fails and coord_acquire_lock still returns 0.
WriteOwner(s) ==
  /\ step[s] = "owning"
  /\ lock' = IF lock = NoLock THEN NoLock ELSE MadeBy(s)
  /\ GoTo(s, "holding")

Acquire(s) == Mkdir(s) \/ Inspect(s) \/ Remove(s) \/ Remake(s) \/ WriteOwner(s)

\* The EXIT trap: remove LOCK only if its owner file names this run.
Release(s) ==
  /\ step[s] = "holding"
  /\ lock' = IF lock.owner = s THEN NoLock ELSE lock
  /\ GoTo(s, "idle")

\* Killed without its trap, or the host goes down.
Die(s) ==
  /\ step[s] # "idle"
  /\ lock' = IF lock.owner = s THEN [lock EXCEPT !.owner = Dead] ELSE lock
  /\ GoTo(s, "idle")

\* A run that has made LOCK writes its owner file within the grace.
LockAge ==
  /\ \A s \in Slot : step[s] = "owning" => lock.age < Grace
  /\ lock' = IF lock # NoLock /\ lock.age < AgeCap THEN [lock EXCEPT !.age = @ + 1]
             ELSE lock
  /\ UNCHANGED step

LockInit == lock = NoLock /\ step = [s \in Slot |-> "idle"]

LockNext ==
  \/ \E s \in Slot : Acquire(s) \/ Release(s) \/ Die(s)
  \/ LockAge

LockSpec == LockInit /\ [][LockNext]_lockVars

-----------------------------------------------------------------------------
LockTypeOK ==
  /\ lock \in [owner : Slot \cup {Dead, Nobody}, age : -1 .. AgeCap]
  /\ step \in [Slot -> Step]

\* A single holder at a time, across launchd ticks and a manual deploy.
MutualExclusion ==
  \A s, t \in Slot : step[s] = "holding" /\ step[t] = "holding" => s = t
=============================================================================
