----------------------------- MODULE StackWatchdog ----------------------------
(***************************************************************************)
(* watchdog/stack-watchdog.sh: the host's own eye on the disk, the         *)
(* container engine and the bus.  launchd runs the script every couple of  *)
(* minutes; its memory between runs is one state file, written by `>`      *)
(* (truncate, then write), and its voice is one curl whose failure it does *)
(* not look at.                                                            *)
(***************************************************************************)
EXTENDS Integers

CONSTANT RealertSecs   \* REALERT_SECS

ASSUME RealertAssumption == RealertSecs \in Nat \ {0}

VARIABLES
  hostFaults,  \* what is broken on the host
  down,        \* state file: status is "down"
  quietFor,    \* state file: time left of REALERT_SECS since last_alert
  hostChannel  \* history: the last post Discord received

watchdogVars == <<hostFaults, down, quietFor, hostChannel>>

HostFault == {"wedged", "engine"}
BusReason == {"tick", "unreachable"}
Page      == HostFault \cup BusReason

\* The checks, cheapest first; the bus is probed only when the host is sound.
BugReason(bus) == IF "engine" \in hostFaults THEN "engine" ELSE bus
Reason(bus) ==
  IF "wedged" \in hostFaults THEN "wedged"
  ELSE IF "engine" \in hostFaults THEN "engine"
  ELSE bus

\* post(): Discord may or may not receive it, the script cannot tell.
Post(text) == hostChannel' \in {hostChannel, text}

\* Up to down, or still down with REALERT_SECS gone by.  A probe that was
\* skipped for want of keys has no reason to page, so it recovers like a
\* healthy one.
BugMustPage(bus) == Reason(bus) \in Page /\ ~down
MustPage(bus)    == Reason(bus) \in Page /\ ~(down /\ quietFor > 0)
MustRecover(bus) == Reason(bus) \notin Page /\ down

CheckPages(bus) ==
  /\ MustPage(bus)
  /\ Post(Reason(bus))
  /\ down' = TRUE
  /\ quietFor' = RealertSecs

CheckRecovers(bus) ==
  /\ MustRecover(bus)
  /\ Post("recovered")
  /\ down' = FALSE
  /\ quietFor' = 0

\* Still down and already paged, or still up.
CheckSaysNothing(bus) ==
  /\ ~MustPage(bus) /\ ~MustRecover(bus)
  /\ UNCHANGED <<down, quietFor, hostChannel>>

\* The run is killed around its last line: it has said what it had to say, and
\* leaves the old state file, or the truncated one, which reads as not down.
CheckCut(bus) ==
  /\ \/ MustPage(bus) /\ Post(Reason(bus))
     \/ MustRecover(bus) /\ Post("recovered")
     \/ ~MustPage(bus) /\ ~MustRecover(bus) /\ UNCHANGED hostChannel
  /\ \/ UNCHANGED <<down, quietFor>>
     \/ down' = FALSE /\ quietFor' = 0
  /\ UNCHANGED hostFaults

\* One run of the script, given what probe_bus would answer.
Check(bus) ==
  /\ CheckPages(bus) \/ CheckRecovers(bus) \/ CheckSaysNothing(bus)
  /\ UNCHANGED hostFaults

HostBreaks(f) ==
  /\ hostFaults' = hostFaults \cup {f}
  /\ UNCHANGED <<down, quietFor, hostChannel>>

HostHeals(f) ==
  /\ hostFaults' = hostFaults \ {f}
  /\ UNCHANGED <<down, quietFor, hostChannel>>

WatchdogAge ==
  /\ quietFor' = IF quietFor > 0 THEN quietFor - 1 ELSE 0
  /\ UNCHANGED <<hostFaults, down, hostChannel>>

WatchdogInit ==
  /\ hostFaults = {}
  /\ down = FALSE /\ quietFor = 0
  /\ hostChannel = "none"

-----------------------------------------------------------------------------
WatchdogTypeOK ==
  /\ hostFaults \subseteq HostFault
  /\ down \in BOOLEAN
  /\ quietFor \in 0 .. RealertSecs
  /\ hostChannel \in Page \cup {"none", "recovered"}
=============================================================================
