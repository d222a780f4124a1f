----------------------------- MODULE WorkLedger ------------------------------
(***************************************************************************)
(* What the `work` class promises its publishers, with no alarm, no lease  *)
(* and no clock (workers/fleet-bus/src/queue.js, the class comment): a job *)
(* that was accepted stays pending until it is completed or buried, and    *)
(* neither comes back.  One blemish is part of the promise as it is coded: *)
(* a handler's late verdict can bury a job its workflow already completed. *)
(***************************************************************************)
CONSTANT Job

VARIABLES pending, completed, buried

vars == <<pending, completed, buried>>

Known == pending \cup completed \cup buried

Accept(j) ==
  /\ j \notin Known
  /\ pending' = pending \cup {j}
  /\ UNCHANGED <<completed, buried>>

Complete(j) ==
  /\ j \in pending
  /\ pending' = pending \ {j}
  /\ completed' = completed \cup {j}
  /\ UNCHANGED buried

Bury(j) ==
  /\ j \in pending
  /\ pending' = pending \ {j}
  /\ buried' = buried \cup {j}
  /\ UNCHANGED completed

LateVerdict(j) ==
  /\ j \in completed
  /\ buried' = buried \cup {j}
  /\ UNCHANGED <<pending, completed>>

Init == pending = {} /\ completed = {} /\ buried = {}

Next == \E j \in Job : Accept(j) \/ Complete(j) \/ Bury(j) \/ LateVerdict(j)

Spec == Init /\ [][Next]_vars
=============================================================================
