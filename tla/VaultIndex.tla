------------------------------ MODULE VaultIndex ------------------------------
(***************************************************************************)
(* The vector index that mirrors the vaults: ingest-vault.mjs adds what a  *)
(* vault holds and the index lacks, reconcile-vault.mjs deletes what no    *)
(* vault holds.  Both read the vault first and enumerate the index next,   *)
(* then write in batches, while notes are edited and the other one runs.   *)
(*                                                                         *)
(* A note is one chunk here, its id the note and the version of its text:  *)
(* the ids carry a hash of both.  How notes become chunks is in            *)
(* VaultChunks.  Reading the vault is one step: each id is judged alone.   *)
(***************************************************************************)
EXTENDS Integers, FiniteSets

CONSTANTS
  Vault, Note, VaultOf,  \* the vaults, their notes, and each note's vault
  MaxVersion,            \* bound: versions of a note
  Batch,                 \* DELETE_BATCH, WIRE_BATCH
  Attempts,              \* walks of the index before idsInIndex gives up
  Num, Den               \* --max-delete-fraction is Num/Den

ASSUME VaultAssumption ==
  /\ VaultOf \in [Note -> Vault] /\ IsFiniteSet(Note)
  /\ MaxVersion \in Nat \ {0} /\ Batch \in Nat \ {0} /\ Attempts \in Nat \ {0}
  /\ Num \in Nat /\ Den \in Nat \ {0}

VARIABLES
  notes,  \* the version of each note, 0 while there is none
  index,  \* the ids in Vectorize
  rec,    \* the reconcile in progress
  ing,    \* the ingest in progress
  calm,   \* from now on no note is edited and nothing fails
  sure,   \* history: ids in the vault that a finished ingest has vouched for
  kept,   \* history: ids the ingest read that have been in the vault since
  raced   \* history: ids in the vault that the reconcile did not find there

vars == <<notes, index, rec, ing, calm, sure, kept, raced>>

Id == Note \X (1 .. MaxVersion)
Claimed    == {<<n, notes[n]>> : n \in {m \in Note : notes[m] > 0}}
In(v, ids) == {x \in ids : VaultOf[x[1]] = v}

Idle == [at |-> "idle", read |-> {}, todo |-> {}, tries |-> 0, dirty |-> FALSE]

-----------------------------------------------------------------------------
(* The vault *)

Edit(n, version) ==
  /\ ~calm /\ notes[n] # version
  /\ notes' = [notes EXCEPT ![n] = version]
  /\ LET gone == {<<n, notes[n]>>}
         come == {<<n, version>>} \cap Id
     IN /\ sure' = sure \ gone
        /\ kept' = kept \ gone
        /\ raced' = (raced \ gone) \cup (IF rec.at = "idle" THEN {} ELSE come \ rec.read)
  /\ UNCHANGED <<index, rec, ing, calm>>

CalmDown ==
  /\ ~calm /\ calm' = TRUE
  /\ UNCHANGED <<notes, index, rec, ing, sure, kept, raced>>

\* What a walk of the vault yields.  An error ends the run; a disk that stalls
\* may also show only some of the notes.
Reads(ids) == IF calm THEN {ids} ELSE SUBSET ids

-----------------------------------------------------------------------------
(* idsInIndex(): a write kills the cursor of every walk under way, which then *)
(* starts over, so the walk that gets to its end has seen one state.          *)

Walking(run) == [run EXCEPT !.dirty = run.at = "walking"]
Restarted(run) == [run EXCEPT !.tries = @ + 1, !.dirty = FALSE]

BugGivesUp(run) == run.tries > Attempts        \* one walk too many
GivesUp(run) == run.tries >= Attempts

-----------------------------------------------------------------------------
(* reconcile-vault.mjs *)

\* expectedIds: a vault that yields nothing stops the run.
RecReads ==
  /\ rec.at = "idle"
  /\ \E ids \in Reads(Claimed) :
       /\ \A v \in Vault : In(v, ids) # {}
       /\ rec' = [at |-> "walking", read |-> ids, todo |-> {}, tries |-> 1, dirty |-> FALSE]
       /\ raced' = Claimed \ ids
  /\ UNCHANGED <<notes, index, ing, calm, sure, kept>>

\* Nobody vouches any longer for what a finished reconcile may have deleted.
RecEnds ==
  /\ rec' = Idle /\ raced' = {}
  /\ sure' = sure \ raced /\ kept' = kept \ raced

Refuses(orphans, size) == orphans * Den > size * Num

RecRestarts ==
  /\ rec.at = "walking" /\ rec.dirty
  /\ IF GivesUp(rec) THEN RecEnds
     ELSE rec' = Restarted(rec) /\ UNCHANGED <<sure, kept, raced>>
  /\ UNCHANGED <<notes, index, ing, calm>>

BugOrphans ==                         \* the old chunks of an edited note stay
  {x \in index : \A y \in rec.read : y[1] # x[1]}
Orphans == index \ rec.read

RecDecides ==
  /\ rec.at = "walking" /\ ~rec.dirty
  /\ LET dead == Orphans IN
       IF dead = {} \/ Refuses(Cardinality(dead), Cardinality(index)) THEN RecEnds
       ELSE /\ rec' = [rec EXCEPT !.at = "writing", !.todo = dead]
            /\ UNCHANGED <<sure, kept, raced>>
  /\ UNCHANGED <<notes, index, ing, calm>>

Batches(todo) == {b \in SUBSET todo \ {{}} : Cardinality(b) <= Batch}

RecDeletes ==
  /\ rec.at = "writing"
  /\ \E b \in Batches(rec.todo) :
       /\ index' = index \ b
       /\ IF rec.todo = b THEN RecEnds
          ELSE rec' = [rec EXCEPT !.todo = @ \ b] /\ UNCHANGED <<sure, kept, raced>>
  /\ ing' = Walking(ing)
  /\ UNCHANGED <<notes, calm>>

RecDies ==
  /\ rec.at # "idle" /\ ~calm
  /\ RecEnds
  /\ UNCHANGED <<notes, index, ing, calm>>

-----------------------------------------------------------------------------
(* ingest-vault.mjs, one vault a run, and the /ingest route *)

IngReads(v) ==
  /\ ing.at = "idle"
  /\ \E ids \in Reads(In(v, Claimed)) :
       /\ ing' = [at |-> "walking", read |-> ids, todo |-> {}, tries |-> 1, dirty |-> FALSE]
       /\ kept' = ids
  /\ UNCHANGED <<notes, index, rec, calm, sure, raced>>

IngEnds(vouched) ==
  /\ ing' = Idle /\ kept' = {}
  /\ sure' = sure \cup vouched

\* Without an enumeration everything is sent.
IngStarts(present) ==
  IF ing.read \subseteq present THEN IngEnds(kept)
  ELSE /\ ing' = [ing EXCEPT !.at = "writing", !.todo = ing.read \ present]
       /\ UNCHANGED <<sure, kept>>

IngRestarts ==
  /\ ing.at = "walking" /\ ing.dirty
  /\ IF GivesUp(ing) THEN IngStarts({})
     ELSE ing' = Restarted(ing) /\ UNCHANGED <<sure, kept>>
  /\ UNCHANGED <<notes, index, rec, calm, raced>>

\* Any other failure of the walk, or INCREMENTAL=0, also makes it send it all.
IngSkips ==
  /\ ing.at = "walking" /\ ~ing.dirty
  /\ IngStarts(index) \/ (~calm /\ IngStarts({}))
  /\ UNCHANGED <<notes, index, rec, calm, raced>>

BugIngUpserts ==                      \* a batch that failed counts as done
  /\ ing.at = "writing"
  /\ \E b \in Batches(ing.todo) : \E landed \in IF calm THEN {b} ELSE SUBSET b :
       /\ index' = index \cup landed
       /\ IF ing.todo = b THEN IngEnds(kept)
          ELSE ing' = [ing EXCEPT !.todo = @ \ b] /\ UNCHANGED <<sure, kept>>
  /\ rec' = Walking(rec)
  /\ UNCHANGED <<notes, calm, raced>>
IngUpserts ==
  /\ ing.at = "writing"
  /\ \E b \in Batches(ing.todo) :
       /\ index' = index \cup b
       /\ IF ing.todo = b THEN IngEnds(kept)
          ELSE ing' = [ing EXCEPT !.todo = @ \ b] /\ UNCHANGED <<sure, kept>>
  /\ rec' = Walking(rec)
  /\ UNCHANGED <<notes, calm, raced>>

\* A batch fails after its retries, half of it written, or the run is killed.
IngDies ==
  /\ ing.at # "idle" /\ ~calm
  /\ \E b \in Batches(ing.todo) \cup {{}} :
       index' = index \cup b /\ rec' = IF b = {} THEN rec ELSE Walking(rec)
  /\ IngEnds({})
  /\ UNCHANGED <<notes, calm, raced>>

-----------------------------------------------------------------------------
Init ==
  /\ notes \in [Note -> 0 .. MaxVersion] /\ index = {}
  /\ rec = Idle /\ ing = Idle /\ calm = FALSE
  /\ sure = {} /\ kept = {} /\ raced = {}

RecStep == RecReads \/ RecRestarts \/ RecDecides \/ RecDeletes
IngStep == IngRestarts \/ IngSkips \/ IngUpserts

Next ==
  \/ \E n \in Note, version \in 0 .. MaxVersion : Edit(n, version)
  \/ CalmDown
  \/ RecStep \/ RecDies
  \/ IngStep \/ IngDies \/ \E v \in Vault : IngReads(v)

\* The mirror's workflow runs both again and again, and every vault's turn comes.
Spec == Init /\ [][Next]_vars
FairSpec ==
  /\ Spec /\ WF_vars(RecStep) /\ WF_vars(IngStep)
  /\ \A v \in Vault : SF_vars(IngReads(v))

-----------------------------------------------------------------------------
Run == [at : {"idle", "walking", "writing"}, read : SUBSET Id, todo : SUBSET Id,
        tries : 0 .. Attempts, dirty : BOOLEAN]

TypeOK ==
  /\ notes \in [Note -> 0 .. MaxVersion] /\ index \subseteq Id
  /\ rec \in Run /\ ing \in Run /\ calm \in BOOLEAN
  /\ sure \subseteq Claimed /\ kept \subseteq Claimed /\ raced \subseteq Claimed

\* A chunk that an ingest has vouched for and that has been in the vault since is
\* found by a search.  The one way to lose it is a reconcile that read the vault
\* before the chunk was there again, or could not see it.
MissedOnlyByRace == sure \subseteq index \cup raced

\* A note's text is found again, and what left the vault is gone, some time after
\* the vault comes to rest: unless there is more to delete than the ceiling
\* allows, or a vault has been emptied, which stops every reconcile.
Mirrored ==
  /\ Claimed \subseteq index
  /\ \/ index = Claimed
     \/ Refuses(Cardinality(index \ Claimed), Cardinality(index))
     \/ \E v \in Vault : In(v, Claimed) = {}
Converges == <>calm => <>[]Mirrored
=============================================================================
