----------------------------- MODULE MCVitalsPath -----------------------------
(***************************************************************************)
(* One time unit is the beat's five minutes.  The ten minutes of silence   *)
(* are two, as in the code; the lookback of an hour is scaled to three,    *)
(* the seven days after which the bus is disarmed to five, the cap of 25   *)
(* writes to one.  Vector holds back up to three scrapes.                  *)
(***************************************************************************)
EXTENDS VitalsPath, VitalsBands

\* On either side of each bar, and far from them.
MCLoad == {300, 740, 760, 880, 905, 915, 940, 1000}

\* vitals.js:208-213: a load that hovers within the band is never in breach in
\* one window and clear in another, whatever is missing from either: missing
\* data make no all-clear, and a swap total that comes and goes makes no change
\* while it is the same 8 GB.  The verdicts keep no state, so the initial state
\* tells it all.
HoveringIsQuiet ==
  Init => /\ Steady(DiskVerdict, Disk) /\ Steady(MemoryVerdict, Memory)
          /\ Steady(SwapVerdict, Swap)
=============================================================================
