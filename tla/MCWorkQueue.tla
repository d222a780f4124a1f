---------------------------- MODULE MCWorkQueue ------------------------------
(***************************************************************************)
(* Bounds for checking WorkQueue: up to three jobs, a batch of one or two, *)
(* two or three attempts.  A time unit is BASE_BACKOFF_MS; the lease lasts *)
(* longer than the first backoff, a cooldown ends within it or with it.    *)
(***************************************************************************)
EXTENDS WorkQueue

MCLease     == 2
MCCooldowns == {1, 2}

\* Every response the handler can give.
Everything  == AllOutcomes
\* A handler that answers for itself: no quota, no Actions run.
Synchronous == {"ack", "terminal", "transient"}
\* A handler that hands over to Actions, or is down.
Dispatching == {"leased", "transient"}
=============================================================================
