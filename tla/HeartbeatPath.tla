----------------------------- MODULE HeartbeatPath ----------------------------
(***************************************************************************)
(* One heartbeat and the two that listen for it: the supervisor on the     *)
(* host publishes its tick to TopicBus, which pages #ops when it stops;    *)
(* StackWatchdog reads the retained tick back from the host and posts to   *)
(* Discord itself, because the bus cannot report its own path as broken.   *)
(*                                                                         *)
(* The supervisor lives in another repository: it is modelled from what    *)
(* src/ says of it, a publisher that ticks while it is up.  src/ does not  *)
(* agree on how often: every 60 s (vitals.js:81) or every 300 s            *)
(* (stack-watchdog.sh:38), and the bus keeps a tick for 180 s.  The period *)
(* is therefore one of several, and each property says what it needs of it.*)
(***************************************************************************)
EXTENDS TopicBus, StackWatchdog

CONSTANTS
  Periods,     \* the publish intervals the supervisor may have
  Cycle,       \* the watchdog's launchd StartInterval
  TickMaxAge   \* TICK_MAX_AGE

ASSUME PathAssumption ==
  Periods \subseteq Nat \ {0} /\ Cycle \in Nat \ {0} /\ TickMaxAge \in Nat

VARIABLES
  period,       \* the supervisor's publish interval: never changes
  supervisorUp,
  pathUp,       \* the host reaches the bus
  busKeys,      \* the watchdog finds BUS_HTTP_URL and BUS_HTTP_TOKEN
  nextTick,     \* time left to the supervisor's next publish
  nextCheck,    \* time left to the watchdog's next run
  healthyFor    \* history: time for which supervisor and path have been up

pathVars == <<period, supervisorUp, pathUp, busKeys, nextTick, nextCheck, healthyFor>>
vars == <<topicVars, watchdogVars, pathVars>>

\* probe_bus: GET /retained/fleet.supervisor.tick, when it has the keys for it.
Probe ==
  IF ~busKeys THEN "skipped"
  ELSE IF ~pathUp THEN "unreachable"
  ELSE IF Live /\ Ttl - retained <= TickMaxAge THEN "healthy"
  ELSE "tick"

-----------------------------------------------------------------------------
\* handlePublish reaches the topic's object, unless the path is down.
SupervisorTicks ==
  /\ supervisorUp /\ nextTick = 0
  /\ nextTick' = period
  /\ IF pathUp THEN Publish ELSE UNCHANGED topicVars
  /\ UNCHANGED <<watchdogVars, period, supervisorUp, pathUp, busKeys, nextCheck, healthyFor>>

SupervisorTickCut ==
  /\ supervisorUp /\ nextTick = 0 /\ pathUp
  /\ nextTick' = period
  /\ PublishCut
  /\ UNCHANGED <<watchdogVars, period, supervisorUp, pathUp, busKeys, nextCheck, healthyFor>>

SupervisorStops ==
  /\ supervisorUp' = FALSE /\ healthyFor' = 0 /\ nextTick' = 0
  /\ UNCHANGED <<topicVars, watchdogVars, period, pathUp, busKeys, nextCheck>>

SupervisorStarts ==
  /\ ~supervisorUp /\ supervisorUp' = TRUE
  /\ nextTick' \in 0 .. period
  /\ UNCHANGED <<topicVars, watchdogVars, period, pathUp, busKeys, nextCheck, healthyFor>>

PathChanges ==
  /\ pathUp' = ~pathUp /\ healthyFor' = 0
  /\ UNCHANGED <<topicVars, watchdogVars, period, supervisorUp, busKeys, nextTick, nextCheck>>

KeysChange ==
  /\ busKeys' = ~busKeys
  /\ UNCHANGED <<topicVars, watchdogVars, period, supervisorUp, pathUp, nextTick, nextCheck,
                 healthyFor>>

BusAlarm   == ExpiryAlarm /\ UNCHANGED <<watchdogVars, pathVars>>
BusPosts   == (\E n \in Note : NoteLands(n)) /\ UNCHANGED <<watchdogVars, pathVars>>
BusCrashes == ObjectCrash /\ UNCHANGED <<watchdogVars, pathVars>>

WatchdogRuns ==
  /\ nextCheck = 0 /\ nextCheck' = Cycle
  /\ Check(Probe)
  /\ UNCHANGED <<topicVars, period, supervisorUp, pathUp, busKeys, nextTick, healthyFor>>

WatchdogRunCut ==
  /\ nextCheck = 0 /\ nextCheck' = Cycle
  /\ CheckCut(Probe)
  /\ UNCHANGED <<topicVars, period, supervisorUp, pathUp, busKeys, nextTick, healthyFor>>

HostChanges ==
  /\ \E f \in HostFault : HostBreaks(f) \/ HostHeals(f)
  /\ UNCHANGED <<topicVars, pathVars>>

\* Time passes, but not past a publish the running supervisor owes.  The alarm
\* and the watchdog's run may be late.
Tick ==
  /\ supervisorUp => nextTick > 0
  /\ TopicAge /\ WatchdogAge
  /\ nextTick' = IF nextTick > 0 THEN nextTick - 1 ELSE 0
  /\ nextCheck' = IF nextCheck > 0 THEN nextCheck - 1 ELSE 0
  /\ healthyFor' = IF ~(supervisorUp /\ pathUp) THEN 0
                   ELSE IF healthyFor <= period THEN healthyFor + 1 ELSE healthyFor
  /\ UNCHANGED <<period, supervisorUp, pathUp, busKeys>>

Init ==
  /\ TopicInit /\ WatchdogInit
  /\ period \in Periods /\ supervisorUp = FALSE /\ pathUp = TRUE /\ busKeys = TRUE
  /\ nextTick = 0 /\ nextCheck = 0 /\ healthyFor = 0

Next ==
  \/ SupervisorTicks \/ SupervisorTickCut \/ SupervisorStops \/ SupervisorStarts
  \/ PathChanges \/ KeysChange
  \/ BusAlarm \/ BusPosts \/ BusCrashes
  \/ WatchdogRuns \/ WatchdogRunCut \/ HostChanges
  \/ Tick

Spec == Init /\ [][Next]_vars

(***************************************************************************)
(* Time passes, the runtime delivers alarms, launchd keeps starting the    *)
(* watchdog and the supervisor keeps its schedule.  Of repeated publishes  *)
(* and repeated pages, some are neither cut off nor lost.                  *)
(***************************************************************************)
PageHeard == WatchdogRuns /\ MustPage(Probe) /\ hostChannel' = Reason(Probe)

FairSpec ==
  /\ Spec
  /\ WF_vars(Tick)
  /\ WF_vars(BusAlarm) /\ WF_vars(BusPosts)
  /\ SF_vars(SupervisorTicks)
  /\ WF_vars(WatchdogRuns) /\ SF_vars(PageHeard)

-----------------------------------------------------------------------------
TypeOK ==
  /\ TopicTypeOK /\ WatchdogTypeOK
  /\ period \in Periods
  /\ supervisorUp \in BOOLEAN /\ pathUp \in BOOLEAN /\ busKeys \in BOOLEAN
  /\ nextTick \in 0 .. period /\ nextCheck \in 0 .. Cycle
  /\ healthyFor \in 0 .. period + 1

\* What the watchdog hears of a healthy supervisor.  Once supervisor and path
\* have been up for longer than a publish period, the probe answers healthy
\* exactly while the last tick is younger than its ttl and than TICK_MAX_AGE:
\* always when ticks come faster than that, and when they do not, on every
\* schedule, up to the ttl and not again before the next tick.
FreshWhileHealthy ==
  busKeys /\ healthyFor > period =>
    (Probe = "healthy" <=> period - nextTick < Ttl /\ period - nextTick <= TickMaxAge)

\* The bus notices: a supervisor that stays down is recorded as silent.
SilenceNoticed == <>[]~supervisorUp => <>[](retained = NoRow)

\* A supervisor that stays up behind a working path is recorded as back again
\* and again, and for good when it ticks faster than the ttl.  Slower than
\* that, the topic turns silent between ticks for ever.
ReturnNoticed ==
  <>[](supervisorUp /\ pathUp) =>
    []<>~silent /\ (period < Ttl => <>[]~silent)

\* Two eyes: when the supervisor stays down and the watchdog keeps its keys, the
\* last word on Discord from the host ends up being a page, whatever the bus,
\* the path and the webhook do.
SilenceTold == <>[](~supervisorUp /\ busKeys) => <>[](hostChannel \in Page)
=============================================================================
