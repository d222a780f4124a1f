------------------------- MODULE HeartbeatPath_proofs -------------------------
(***************************************************************************)
(* Proofs about HeartbeatPath: the topic's expiry alarm is always armed,   *)
(* no expiry goes unrecorded, and a healthy heartbeat is heard exactly     *)
(* while its last tick is younger than the ttl, so that one whose period   *)
(* is shorter than that is never reported as gone.                         *)
(***************************************************************************)
EXTENDS HeartbeatPath, TLAPS

USE TtlAssumption, RealertAssumption, PathAssumption
USE DEF NoRow, NoAlarm

\* What the topic's own steps keep is kept by every step of the path.
LEMMA TopicStep == [Next]_vars => [TopicNext]_topicVars
  BY DEF Next, vars, TopicNext, SupervisorTicks, SupervisorTickCut, SupervisorStops,
         SupervisorStarts, PathChanges, KeysChange, BusAlarm, BusPosts, BusCrashes, WatchdogRuns,
         WatchdogRunCut, HostChanges, Tick, topicVars

LEMMA TopicTypeNext == TopicTypeOK /\ [TopicNext]_topicVars => TopicTypeOK'
<1> SUFFICES ASSUME TopicTypeOK, [TopicNext]_topicVars PROVE TopicTypeOK'
  OBVIOUS
<1> USE DEF TopicTypeOK, Note
<1>1. CASE Publish
  <2>1. silent' \in BOOLEAN /\ announced' \in BOOLEAN
    BY <1>1, Zenon DEF Publish
  <2>2. retained' \in 0 .. Ttl /\ expiry' \in 0 .. Ttl
    BY <1>1 DEF Publish, Upsert
  <2>3. notes' \subseteq Note /\ published' = TRUE
    BY <1>1 DEF Publish, Upsert
  <2>4. QED BY <2>1, <2>2, <2>3
<1>2. CASE PublishCut \/ TopicAge
  <2>1. /\ silent' = silent /\ announced' = announced
        /\ notes' = notes
        /\ published' \in {published, TRUE}
    BY <1>2 DEF PublishCut, Upsert, TopicAge
  <2>2. retained' \in {NoRow} \cup 0 .. Ttl /\ expiry' \in {NoAlarm} \cup 0 .. Ttl
    BY <1>2 DEF PublishCut, Upsert, TopicAge
  <2>3. QED BY <2>1, <2>2
<1>3. CASE ExpiryAlarm
  <2>1. silent' \in BOOLEAN
    BY <1>3, Zenon DEF ExpiryAlarm
  <2>2. QED BY <1>3, <2>1 DEF ExpiryAlarm
<1>4. ASSUME NEW n \in Note, NoteLands(n)
      PROVE  TopicTypeOK'
  <2>1. announced' \in BOOLEAN
    BY <1>4, Zenon DEF NoteLands
  <2>2. QED BY <1>4, <2>1 DEF NoteLands
<1>5. CASE ObjectCrash
  BY <1>5 DEF ObjectCrash
<1>6. CASE UNCHANGED topicVars
  BY <1>6 DEF topicVars
<1>7. QED BY <1>1, <1>2, <1>3, <1>4, <1>5, <1>6 DEF TopicNext

LEMMA CheckType ==
  ASSUME WatchdogTypeOK, NEW bus \in BusReason \cup {"healthy", "skipped"}, Check(bus) \/ CheckCut(bus)
  PROVE  WatchdogTypeOK'
<1> USE DEF WatchdogTypeOK
<1>1. Reason(bus) \in Page \cup {"healthy", "skipped"}
  BY DEF Reason, Page, HostFault
<1>2. hostFaults' = hostFaults
  BY DEF Check, CheckCut
<1>3. hostChannel' \in Page \cup {"none", "recovered"}
  BY <1>1 DEF Check, CheckCut, CheckPages, CheckRecovers, CheckSaysNothing, MustPage, Post
<1>4. down' \in BOOLEAN
  BY Zenon DEF Check, CheckCut, CheckPages, CheckRecovers, CheckSaysNothing
<1>5. quietFor' \in 0 .. RealertSecs
  BY DEF Check, CheckCut, CheckPages, CheckRecovers, CheckSaysNothing
<1>6. QED BY <1>2, <1>3, <1>4, <1>5

LEMMA TypeNext == TypeOK /\ [Next]_vars => TypeOK'
<1> SUFFICES ASSUME TypeOK, [Next]_vars PROVE TypeOK'
  OBVIOUS
<1>0. TopicTypeOK'
  BY TopicStep, TopicTypeNext DEF TypeOK
<1> USE DEF TypeOK
<1>1. CASE SupervisorTicks \/ SupervisorTickCut
  BY <1>0, <1>1 DEF SupervisorTicks, SupervisorTickCut, WatchdogTypeOK, watchdogVars
<1>2. CASE SupervisorStops \/ SupervisorStarts
  <2>1. supervisorUp' \in BOOLEAN /\ pathUp' \in BOOLEAN /\ busKeys' \in BOOLEAN
    BY <1>2, Zenon DEF SupervisorStops, SupervisorStarts
  <2>2. WatchdogTypeOK'
    BY <1>2 DEF SupervisorStops, SupervisorStarts, WatchdogTypeOK, watchdogVars
  <2>3. /\ period' \in Periods /\ nextTick' \in 0 .. period'
        /\ nextCheck' \in 0 .. Cycle /\ healthyFor' \in 0 .. period' + 1
    BY <1>2 DEF SupervisorStops, SupervisorStarts
  <2>4. QED BY <1>0, <2>1, <2>2, <2>3
<1>3. CASE PathChanges \/ KeysChange
  <2>1. pathUp' \in BOOLEAN /\ busKeys' \in BOOLEAN
    BY <1>3, Zenon DEF PathChanges, KeysChange
  <2>2. QED BY <1>0, <1>3, <2>1 DEF PathChanges, KeysChange, WatchdogTypeOK, watchdogVars
<1>4. CASE BusAlarm \/ BusPosts \/ BusCrashes
  BY <1>0, <1>4 DEF BusAlarm, BusPosts, BusCrashes, WatchdogTypeOK, watchdogVars, pathVars
<1>5. CASE WatchdogRuns \/ WatchdogRunCut
  <2>1. Probe \in BusReason \cup {"healthy", "skipped"}
    BY DEF Probe, BusReason
  <2>2. WatchdogTypeOK'
    BY <1>5, <2>1, CheckType DEF WatchdogRuns, WatchdogRunCut
  <2>3. QED BY <1>0, <1>5, <2>2 DEF WatchdogRuns, WatchdogRunCut
<1>6. CASE HostChanges
  BY <1>0, <1>6 DEF HostChanges, HostBreaks, HostHeals, WatchdogTypeOK, pathVars
<1>7. CASE Tick
  BY <1>0, <1>7 DEF Tick, WatchdogAge, WatchdogTypeOK
<1>8. CASE UNCHANGED vars
  BY <1>0, <1>8 DEF vars, watchdogVars, pathVars, WatchdogTypeOK
<1>9. QED BY <1>1, <1>2, <1>3, <1>4, <1>5, <1>6, <1>7, <1>8 DEF Next

\* Every variable of the path keeps its type.
THEOREM TypeCorrect == Spec => []TypeOK
<1>1. Init => TypeOK
  <2> SUFFICES ASSUME Init PROVE TypeOK
    OBVIOUS
  <2>1. TopicTypeOK
    BY DEF Init, TopicInit, TopicTypeOK, Note
  <2>2. WatchdogTypeOK
    <3>1. down \in BOOLEAN
      BY Zenon DEF Init, WatchdogInit
    <3>2. QED BY <3>1 DEF Init, WatchdogInit, WatchdogTypeOK
  <2>3. supervisorUp \in BOOLEAN /\ pathUp \in BOOLEAN /\ busKeys \in BOOLEAN
    BY Zenon DEF Init
  <2>4. QED BY <2>1, <2>2, <2>3 DEF Init, TypeOK
<1>2. QED BY <1>1, TypeNext, PTL DEF Spec

-----------------------------------------------------------------------------
\* The path drives the topic only through the topic's own steps, so what is
\* proved of TopicDO alone holds inside the composition.
THEOREM PathRunsTopic == Spec => TopicSpec
  BY TopicStep, PTL DEF Spec, TopicSpec, Init

LEMMA ArmedNext ==
  TopicTypeOK /\ ExpiryArmed /\ [TopicNext]_topicVars => ExpiryArmed'
  BY DEF TopicTypeOK, ExpiryArmed, TopicNext, topicVars, Publish, PublishCut, Upsert,
         ExpiryAlarm, NoteLands, ObjectCrash, TopicAge

\* The object's one alarm stands at the expiry of its one row at all times, so
\* silence needs no poller to be noticed.
THEOREM AlwaysArmed == Spec => []ExpiryArmed
<1>1. Init => ExpiryArmed
  BY DEF Init, TopicInit, ExpiryArmed
<1>2. TypeOK => TopicTypeOK
  BY DEF TypeOK
<1>3. QED BY <1>1, <1>2, ArmedNext, TopicStep, TypeCorrect, PTL DEF Spec

LEMMA RecordedNext ==
  TopicTypeOK /\ GoneMeansSilent /\ [TopicNext]_topicVars => GoneMeansSilent'
<1> SUFFICES ASSUME TopicTypeOK, GoneMeansSilent, [TopicNext]_topicVars
             PROVE  GoneMeansSilent'
  OBVIOUS
<1> USE DEF TopicTypeOK, GoneMeansSilent
<1>1. CASE Publish \/ PublishCut
  BY <1>1 DEF Publish, PublishCut, Upsert
<1>2. CASE ExpiryAlarm
  BY <1>2 DEF ExpiryAlarm
<1>3. ASSUME NEW n \in Note, NoteLands(n)
      PROVE  GoneMeansSilent'
  BY <1>3 DEF NoteLands
<1>4. CASE ObjectCrash \/ TopicAge
  <2>1. retained' = NoRow => retained = NoRow
    BY <1>4 DEF ObjectCrash, TopicAge
  <2>2. published' = published /\ silent' = silent
    BY <1>4 DEF ObjectCrash, TopicAge
  <2>3. QED BY <2>1, <2>2, Zenon
<1>5. CASE UNCHANGED topicVars
  BY <1>5 DEF topicVars
<1>6. QED BY <1>1, <1>2, <1>3, <1>4, <1>5 DEF TopicNext

\* A value that expired left the topic marked silent, whichever of publish,
\* alarm, webhook and crash ran when.
THEOREM NoExpiryUnrecorded == Spec => []GoneMeansSilent
<1>1. Init => GoneMeansSilent
  BY DEF Init, TopicInit, GoneMeansSilent
<1>2. TypeOK => TopicTypeOK
  BY DEF TypeOK
<1>3. QED BY <1>1, <1>2, RecordedNext, TopicStep, TypeCorrect, PTL DEF Spec

-----------------------------------------------------------------------------
\* Between two publishes of a healthy supervisor the retained row is as old as
\* its schedule says, or gone when that is more than its ttl.
OnSchedule ==
  healthyFor > 0 /\ healthyFor + nextTick > period
    => IF period - nextTick < Ttl THEN retained = Ttl - (period - nextTick)
                                  ELSE retained \in {0, NoRow}
UpWhileCounting == healthyFor > 0 => supervisorUp /\ pathUp
Schedule == OnSchedule /\ UpWhileCounting

LEMMA ScheduleNext ==
  ASSUME TypeOK, Schedule, [Next]_vars
  PROVE  Schedule'
<1> USE DEF TypeOK, TopicTypeOK, Schedule, OnSchedule, UpWhileCounting
<1>1. CASE SupervisorTicks \/ SupervisorTickCut
  BY <1>1 DEF SupervisorTicks, SupervisorTickCut, Publish, PublishCut, Upsert
<1>2. CASE SupervisorStops \/ SupervisorStarts \/ PathChanges \/ KeysChange
  BY <1>2 DEF SupervisorStops, SupervisorStarts, PathChanges, KeysChange, topicVars
<1>3. CASE BusAlarm \/ BusPosts \/ BusCrashes
  BY <1>3 DEF BusAlarm, BusPosts, BusCrashes, ExpiryAlarm, NoteLands, ObjectCrash, pathVars
<1>4. CASE WatchdogRuns \/ WatchdogRunCut \/ HostChanges
  BY <1>4 DEF WatchdogRuns, WatchdogRunCut, HostChanges, topicVars, pathVars
<1>5. CASE Tick
  BY <1>5 DEF Tick, TopicAge
<1>6. CASE UNCHANGED vars
  BY <1>6 DEF vars, topicVars, pathVars
<1>7. QED BY <1>1, <1>2, <1>3, <1>4, <1>5, <1>6 DEF Next

\* Whatever the period: neither a late alarm nor a crash of the object changes
\* what the watchdog hears of a healthy supervisor, which is its tick while that
\* is younger than the ttl and TICK_MAX_AGE, and nothing from then to the next.
THEOREM HeardOnSchedule == Spec => []FreshWhileHealthy
<1>1. Init => Schedule
  BY DEF Init, TopicInit, Schedule, OnSchedule, UpWhileCounting
<1>2. TypeOK /\ Schedule /\ [Next]_vars => Schedule'
  BY ScheduleNext
<1>3. TypeOK /\ Schedule => FreshWhileHealthy
  BY DEF TypeOK, TopicTypeOK, Schedule, OnSchedule, UpWhileCounting, FreshWhileHealthy, Probe, Live
<1>4. QED BY <1>1, <1>2, <1>3, TypeCorrect, PTL DEF Spec

\* A supervisor whose every possible period is shorter than the ttl and within
\* TICK_MAX_AGE is never probed as gone while it is healthy.  The 60 s of
\* vitals.js:81 are; the 300 s of stack-watchdog.sh:38 are not.
THEOREM NoFalseAlarm ==
  ASSUME \A p \in Periods : p < Ttl /\ p <= TickMaxAge
  PROVE  Spec => [](busKeys /\ healthyFor > period => Probe = "healthy")
<1>1. TypeOK /\ FreshWhileHealthy => (busKeys /\ healthyFor > period => Probe = "healthy")
  BY DEF TypeOK, FreshWhileHealthy
<1>2. QED BY <1>1, TypeCorrect, HeardOnSchedule, PTL
=============================================================================
