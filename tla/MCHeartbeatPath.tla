--------------------------- MODULE MCHeartbeatPath ----------------------------
(***************************************************************************)
(* The three times that matter keep their order: a tick every 60 s         *)
(* (vitals.js:81), its ttl of 180 s, a tick every 300 s                    *)
(* (stack-watchdog.sh:38) are 1, 2 and 3.  The watchdog runs every unit;   *)
(* TICK_MAX_AGE exceeds the ttl, as in the script; REALERT_SECS is scaled  *)
(* down from six hours to two runs.                                        *)
(***************************************************************************)
EXTENDS HeartbeatPath

MCTtl        == 2
MCPeriods    == {1, 3}
MCCycle      == 1
MCTickMaxAge == 10
MCRealert    == 2
=============================================================================
