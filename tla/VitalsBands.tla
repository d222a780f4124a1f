------------------------------ MODULE VitalsBands -----------------------------
(***************************************************************************)
(* The verdicts of evaluate() in vitals.js on disk, memory and swap: a     *)
(* weighted average of the rows in a window against an alert and a clear   *)
(* bar.  Loads are per mille of what is full; memory's load is what is not *)
(* available.                                                              *)
(***************************************************************************)
EXTENDS Integers, FiniteSetsExt

CONSTANTS
  Load,       \* bound: what a sample may be
  Rows,       \* bound: scrapes in a window
  MaxWeight,  \* bound: _sample_interval; a row written twice weighs double
  Caps        \* swap totals the box may report, per mille of its 8 GB

ASSUME BandsAssumption ==
  Load \subseteq Nat /\ Rows \in Nat /\ MaxWeight \in Nat \ {0} /\ Caps \subseteq Nat \ {0}

Gap == -1     \* a scrape without this metric, or a query without its row

\* The defaults of config(): 0.9 and 0.87; 500 and 750 MB of 8 GB available;
\* 0.92 and 0.75, or 7.7 and 6 GB.  Five samples are scaled to two.
Disk      == [need |-> 1, alert |-> 900, clear |-> 870]
Memory    == [need |-> 2, alert |-> 937, clear |-> 906]
Swap      == [need |-> 2, alert |-> 920, clear |-> 750]
SwapBytes == [need |-> 2, alert |-> 962, clear |-> 750]

\* A window: its scrapes, their weights, and the swap total if it was there.
Windows == [load : [1 .. Rows -> Load \cup {Gap}], weight : [1 .. Rows -> 1 .. MaxWeight],
            cap : Caps \cup {Gap}]

Samples(w) == {i \in 1 .. Rows : w.load[i] # Gap}
Count(w)   == MapThenSumSet(LAMBDA i : w.weight[i], Samples(w))
Total(w)   == MapThenSumSet(LAMBDA i : w.weight[i] * w.load[i], Samples(w))

\* Above the alert bar, below the clear bar, or nothing to judge by.
BugVerdict(w, bars, full) ==          \* no samples make an average of zero
  IF Total(w) * 1000 > bars.alert * full * Count(w) THEN "breach"
  ELSE IF Total(w) * 1000 <= bars.clear * full * Count(w) THEN "clear" ELSE "unknown"
Verdict(w, bars, full) ==
  IF Count(w) < bars.need THEN "unknown"
  ELSE IF Total(w) * 1000 > bars.alert * full * Count(w) THEN "breach"
  ELSE IF Total(w) * 1000 < bars.clear * full * Count(w) THEN "clear" ELSE "unknown"

DiskVerdict(w)   == Verdict(w, Disk, 1000)
MemoryVerdict(w) == Verdict(w, Memory, 1000)
\* The ratio when the total is known, bytes when it is not.
SwapVerdict(w) ==
  IF w.cap = Gap THEN Verdict(w, SwapBytes, 1000) ELSE Verdict(w, Swap, w.cap)

-----------------------------------------------------------------------------
\* Somewhere between the two windows the load fell by more than the band.
Fell(a, b, bars) ==
  \E i \in Samples(a), j \in Samples(b) : a.load[i] - b.load[j] > bars.alert - bars.clear

\* What is in breach in one window and clear in another fell in between.
Steady(V(_), bars) ==
  \A a \in {w \in Windows : V(w) = "breach"}, b \in {w \in Windows : V(w) = "clear"} :
    Fell(a, b, bars)
=============================================================================
