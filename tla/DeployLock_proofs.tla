--------------------------- MODULE DeployLock_proofs ---------------------------
(***************************************************************************)
(* Proofs about DeployLock: as long as no two runs judge and remove the    *)
(* same stale lock at once, there is never more than one holder, whichever *)
(* runs die where.                                                         *)
(***************************************************************************)
EXTENDS DeployLock, TLAPS

USE LockAssumption
USE DEF Dead, Nobody, NoLock, MadeBy, GoTo

LEMMA LockTypeInit == LockInit => LockTypeOK
  BY DEF LockInit, LockTypeOK, Step, AgeCap

LEMMA LockTypeNext == LockTypeOK /\ [LockNext]_lockVars => LockTypeOK'
<1> SUFFICES ASSUME LockTypeOK, [LockNext]_lockVars PROVE LockTypeOK'
  OBVIOUS
<1> USE DEF LockTypeOK, Step, AgeCap
<1>1. ASSUME NEW s \in Slot, Acquire(s)
      PROVE  LockTypeOK'
  BY <1>1 DEF Acquire, Mkdir, Inspect, Remove, Remake, WriteOwner
<1>2. ASSUME NEW s \in Slot, Release(s) \/ Die(s)
      PROVE  LockTypeOK'
  BY <1>2 DEF Release, Die
<1>3. CASE LockAge
  BY <1>3 DEF LockAge
<1>4. CASE UNCHANGED lockVars
  BY <1>4 DEF lockVars
<1>5. QED BY <1>1, <1>2, <1>3, <1>4 DEF LockNext

-----------------------------------------------------------------------------
\* Why one holder: the owner file names it; a run that has made LOCK and not
\* yet written the file is alone and younger than the grace; and what is being
\* removed is still the lock that was judged stale.
HolderOwns == \A s \in Slot : step[s] = "holding" => lock.owner = s
MakerIsFresh ==
  \A s \in Slot : step[s] = "owning" =>
    /\ lock.owner = Nobody /\ lock.age \in 0 .. Grace
    /\ \A t \in Slot : step[t] = "owning" => t = s
ReclaimsStale == \A s \in Slot : step[s] = "reclaiming" => Stale(lock)
OneReclaims ==
  \A s, t \in Slot :
    step[s] \in {"reclaiming", "remaking"} /\ step[t] \in {"reclaiming", "remaking"} => s = t
LockInv == HolderOwns /\ MakerIsFresh /\ ReclaimsStale /\ OneReclaims

LEMMA LockInvNext ==
  ASSUME ~Overlap, LockTypeOK, LockInv, [LockNext]_lockVars
  PROVE  LockInv'
<1> USE DEF LockTypeOK, Step, AgeCap, LockInv
<1>0. \A s \in Slot : s # Dead /\ s # Nobody
  OBVIOUS
<1>1. ASSUME NEW s \in Slot, Mkdir(s) \/ Remake(s)
      PROVE  LockInv'
  <2>1. HolderOwns'
    BY <1>0, <1>1 DEF Mkdir, Remake, HolderOwns
  <2>2. MakerIsFresh'
    BY <1>1 DEF Mkdir, Remake, MakerIsFresh
  <2>3. ReclaimsStale'
    BY <1>1 DEF Mkdir, Remake, ReclaimsStale, Stale
  <2>4. OneReclaims'
    BY <1>1 DEF Mkdir, Remake, OneReclaims
  <2>5. QED BY <2>1, <2>2, <2>3, <2>4
<1>2. ASSUME NEW s \in Slot, Inspect(s)
      PROVE  LockInv'
  <2>1. HolderOwns' /\ MakerIsFresh'
    BY <1>2 DEF Inspect, HolderOwns, MakerIsFresh
  <2>2. ReclaimsStale'
    BY <1>2 DEF Inspect, ReclaimsStale
  <2>3. OneReclaims'
    BY <1>2 DEF Inspect, OneReclaims
  <2>4. QED BY <2>1, <2>2, <2>3
<1>3. ASSUME NEW s \in Slot, Remove(s)
      PROVE  LockInv'
  <2>1. Stale(lock)
    BY <1>3 DEF Remove, ReclaimsStale
  <2>2. \A t \in Slot : step[t] \notin {"holding", "owning"}
    BY <1>0, <2>1 DEF Stale, HolderOwns, MakerIsFresh
  <2>3. \A t \in Slot \ {s} : step[t] \notin {"reclaiming", "remaking"}
    BY <1>3 DEF Remove, OneReclaims
  <2>4. HolderOwns' /\ MakerIsFresh'
    BY <1>3, <2>2 DEF Remove, HolderOwns, MakerIsFresh
  <2>5. ReclaimsStale' /\ OneReclaims'
    BY <1>3, <2>3 DEF Remove, ReclaimsStale, OneReclaims
  <2>6. QED BY <2>4, <2>5
<1>4. ASSUME NEW s \in Slot, WriteOwner(s)
      PROVE  LockInv'
  <2>1. lock.owner = Nobody /\ lock # NoLock /\ lock.age <= Grace
    BY <1>4 DEF WriteOwner, MakerIsFresh
  <2>2. \A t \in Slot : step[t] \notin {"holding", "reclaiming"}
    BY <1>0, <2>1 DEF HolderOwns, ReclaimsStale, Stale
  <2>3. \A t \in Slot \ {s} : step[t] # "owning"
    BY <1>4 DEF WriteOwner, MakerIsFresh
  <2>4. HolderOwns'
    BY <1>4, <2>1, <2>2 DEF WriteOwner, HolderOwns
  <2>5. MakerIsFresh' /\ ReclaimsStale'
    BY <1>4, <2>2, <2>3 DEF WriteOwner, MakerIsFresh, ReclaimsStale
  <2>6. OneReclaims'
    BY <1>4 DEF WriteOwner, OneReclaims
  <2>7. QED BY <2>4, <2>5, <2>6
<1>5. ASSUME NEW s \in Slot, Release(s) \/ Die(s)
      PROVE  LockInv'
  <2>1. HolderOwns'
    BY <1>0, <1>5 DEF Release, Die, HolderOwns
  <2>2. MakerIsFresh'
    BY <1>0, <1>5 DEF Release, Die, MakerIsFresh
  <2>3. ReclaimsStale'
    BY <1>0, <1>5 DEF Release, Die, ReclaimsStale, Stale
  <2>4. OneReclaims'
    BY <1>5 DEF Release, Die, OneReclaims
  <2>5. QED BY <2>1, <2>2, <2>3, <2>4
<1>6. CASE LockAge
  <2>1. lock'.owner = lock.owner
    BY <1>6 DEF LockAge
  <2>2. HolderOwns' /\ OneReclaims'
    BY <1>6, <2>1 DEF LockAge, HolderOwns, OneReclaims
  <2>3. MakerIsFresh'
    BY <1>6 DEF LockAge, MakerIsFresh
  <2>4. ReclaimsStale'
    BY <1>6 DEF LockAge, ReclaimsStale, Stale
  <2>5. QED BY <2>2, <2>3, <2>4
<1>7. CASE UNCHANGED lockVars
  BY <1>7 DEF lockVars, HolderOwns, MakerIsFresh, ReclaimsStale, OneReclaims, Stale
<1>8. QED BY <1>1, <1>2, <1>3, <1>4, <1>5, <1>6, <1>7 DEF LockNext, Acquire

\* A single holder at a time, whoever is killed wherever, as long as two runs
\* are not reclaiming at once.
THEOREM OneHolder ==
  ASSUME ~Overlap
  PROVE  LockSpec => []MutualExclusion
<1>1. LockInit => LockInv
  BY DEF LockInit, LockInv, HolderOwns, MakerIsFresh, ReclaimsStale, OneReclaims
<1>2. LockTypeOK /\ LockInv /\ [LockNext]_lockVars => LockInv'
  BY LockInvNext
<1>3. LockInv => MutualExclusion
  BY DEF LockInv, HolderOwns, MutualExclusion
<1>4. QED BY <1>1, <1>2, <1>3, LockTypeInit, LockTypeNext, PTL DEF LockSpec
=============================================================================
