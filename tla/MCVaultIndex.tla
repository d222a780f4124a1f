----------------------------- MODULE MCVaultIndex -----------------------------
(***************************************************************************)
(* Two vaults of one note, each note in two versions.  The batches of 100  *)
(* are one id, the four walks two, and the ceiling of a tenth of the index *)
(* is a half, so that it is met and passed.  Chunks: the budget of 80 to   *)
(* 1200 characters is scaled to 4 to 12.  A long paragraph is cut at the   *)
(* floor, at the budget, to fragments and to both.                         *)
(***************************************************************************)
EXTENDS VaultIndex, VaultChunks

MCVaultOf == [n \in {"a", "b"} |-> IF n = "a" THEN "dev" ELSE "gear"]

\* Around each bound: a fragment, the floor, what fits with a neighbour and what
\* does not, the budget, one more, and two budgets.
MCLength == {1, 3, 4, 7, 8, 12, 13, 25}
MCMaxLength == 25
Cut(at, pad, lead) == [at |-> at, pad |-> pad, lead |-> lead]
EveryRest(cut) == [rest \in 13 .. MCMaxLength |-> cut]
MCCuts ==
  {EveryRest(Cut(4, 0, 0)),                          \* no trim
   EveryRest(Cut(11, 7, 1)),                         \* a piece at the floor
   [rest \in 13 .. MCMaxLength |-> Cut(12, 9, rest - 13)],   \* fragments only
   [rest \in 13 .. MCMaxLength |->
      IF rest > 20 THEN Cut(12, 9, 0) ELSE Cut(11, 0, 1)]}   \* a fragment first

\* vault-chunks.mjs:114-130: a note with content is never invisible, whatever its
\* paragraphs.  The chunker keeps no state, so the initial states tell it all.
TextIsFound == Init => \A note \in Notes : Covered(note)
=============================================================================
