---------------------------- MODULE MCDeployWorker ----------------------------
(***************************************************************************)
(* The worker and one preview, a bad merge followed by a good one.  One    *)
(* time unit is the orphan grace; the lock's ttl of 900 s is two.          *)
(***************************************************************************)
EXTENDS DeployWorker

MCSlot == {"worker", "preview"}
MCBad  == {2}
MCJob  == {"a"}

Everything == {"fetch", "reset", "copy", "sync", "restart", "record"}
NoFault    == {}
=============================================================================
