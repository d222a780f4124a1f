-------------------------- MODULE VaultIndex_proofs ---------------------------
(***************************************************************************)
(* For any vaults, notes, batch size and ceiling: the index keeps what an  *)
(* ingest vouched for, but for what a reconcile did not find in the vault. *)
(* For any budget, floor and paragraphs: no text of a note falls out of    *)
(* its chunks.                                                             *)
(***************************************************************************)
EXTENDS MCVaultIndex, FiniteSetTheorems, SequenceTheorems, WellFoundedInduction, TLAPS

\* A reconcile has raced exactly the chunks that are in the vault and not in what
\* it read, and never deletes what it read.
RecSound ==
  /\ raced = IF rec.at = "idle" THEN {} ELSE Claimed \ rec.read
  /\ rec.todo \cap rec.read = {}

\* What an ingest may vouch for it has read, and it is in the index, still to be
\* written, or raced.
IngSound ==
  /\ kept \subseteq ing.read \cap Claimed
  /\ ing.at = "idle" => kept = {}
  /\ ing.at = "writing" => kept \subseteq index \cup ing.todo \cup raced

IInv == TypeOK /\ sure \subseteq Claimed /\ RecSound /\ IngSound /\ MissedOnlyByRace

\* The fields of a run, which is a record.
LEMMA RunFields ==
  ASSUME NEW run \in Run
  PROVE  /\ run.at \in {"idle", "walking", "writing"} /\ run.read \in SUBSET Id
         /\ run.todo \in SUBSET Id /\ run.tries \in 0 .. Attempts /\ run.dirty \in BOOLEAN
BY DEF Run

LEMMA IdleIsRun == Idle \in Run
BY VaultAssumption DEF Idle, Run, Id

\* What a write and a restart leave of a run.
LEMMA Walk ==
  ASSUME NEW run \in Run
  PROVE  /\ Walking(run) \in Run
         /\ Walking(run).at = run.at /\ Walking(run).read = run.read
         /\ Walking(run).todo = run.todo
BY DEF Walking, Run

LEMMA Restart ==
  ASSUME NEW run \in Run, run.at = "walking", ~GivesUp(run)
  PROVE  /\ Restarted(run) \in Run
         /\ Restarted(run).at = run.at /\ Restarted(run).read = run.read
         /\ Restarted(run).todo = run.todo
<1>1. run.tries \in Nat /\ run.tries < Attempts /\ Attempts \in Nat
  BY VaultAssumption DEF Run, GivesUp
<1>2. run.tries + 1 \in 0 .. Attempts
  BY <1>1
<1>3. QED BY <1>2 DEF Restarted, Run

LEMMA ClaimedIsId == ASSUME TypeOK PROVE Claimed \subseteq Id
BY VaultAssumption DEF TypeOK, Claimed, Id

\* A reconcile that ends takes what it raced out of the ingest's keeping.
LEMMA RecEnding ==
  ASSUME IInv, rec.at # "idle", RecEnds, UNCHANGED <<notes, calm>>,
         index' = index \/ \E b \in SUBSET rec.todo : index' = index \ b,
         ing' = ing \/ ing' = Walking(ing)
  PROVE  IInv'
<1>1. Claimed' = Claimed
  BY DEF Claimed
<1>2. TypeOK'
  BY IdleIsRun, Walk, <1>1 DEF RecEnds, IInv, TypeOK
<1>3. /\ rec'.at = "idle" /\ rec'.todo = {} /\ raced' = {}
      /\ sure' = sure \ raced /\ kept' = kept \ raced
  BY DEF RecEnds, Idle
<1>4. /\ ing'.at = ing.at /\ ing'.read = ing.read /\ ing'.todo = ing.todo
  BY Walk DEF IInv, TypeOK
<1>5. (index \cap Claimed) \ raced \subseteq index'
  BY DEF IInv, RecSound
<1>6. RecSound'
  BY <1>3 DEF RecSound
<1>7. IngSound'
  BY <1>1, <1>3, <1>4, <1>5 DEF IngSound, IInv
<1>8. sure' \subseteq Claimed' /\ MissedOnlyByRace'
  BY <1>1, <1>3, <1>5 DEF IInv, MissedOnlyByRace
<1>9. QED BY <1>2, <1>6, <1>7, <1>8 DEF IInv

\* An edited note is a chunk that nobody vouches for, raced if a reconcile is at work.
LEMMA Editing ==
  ASSUME IInv, NEW n \in Note, NEW version \in 0 .. MaxVersion, Edit(n, version)
  PROVE  IInv'
<1> DEFINE gone == {<<n, notes[n]>>}
           come == {<<n, version>>} \cap Id
<1>1. /\ notes' = [notes EXCEPT ![n] = version]
      /\ sure' = sure \ gone /\ kept' = kept \ gone
      /\ raced' = (raced \ gone) \cup (IF rec.at = "idle" THEN {} ELSE come \ rec.read)
      /\ UNCHANGED <<index, rec, ing, calm>>
  BY DEF Edit
<1>2. notes \in [Note -> 0 .. MaxVersion] /\ notes' \in [Note -> 0 .. MaxVersion]
  BY <1>1 DEF IInv, TypeOK
<1>3. Claimed' = (Claimed \ gone) \cup come
  BY <1>1, <1>2, VaultAssumption DEF Edit, Claimed, Id
<1>4. RecSound'
  BY <1>1, <1>3 DEF IInv, RecSound
<1>5. IngSound' /\ sure' \subseteq Claimed' /\ MissedOnlyByRace'
  BY <1>1, <1>3 DEF IInv, IngSound, MissedOnlyByRace
<1>6. TypeOK'
  <2>1. raced' \subseteq Claimed' /\ kept' \subseteq Claimed' /\ sure' \subseteq Claimed'
    BY <1>4, <1>5 DEF RecSound, IngSound
  <2>2. QED BY <1>1, <1>2, <2>1 DEF IInv, TypeOK
<1>7. QED BY <1>4, <1>5, <1>6 DEF IInv

\* Every step of the reconcile, its end and its death included.
LEMMA RecMoving ==
  ASSUME IInv, RecStep \/ RecDies
  PROVE  IInv'
<1>1. CASE RecReads
  <2>1. PICK ids \in Reads(Claimed) :
          /\ rec' = [at |-> "walking", read |-> ids, todo |-> {}, tries |-> 1, dirty |-> FALSE]
          /\ raced' = Claimed \ ids
    BY <1>1 DEF RecReads
  <2>2. ids \subseteq Claimed /\ Claimed \subseteq Id /\ Claimed' = Claimed
    BY <1>1, ClaimedIsId DEF RecReads, Reads, IInv, Claimed
  <2>3. rec' \in Run
    BY <2>1, <2>2, VaultAssumption DEF Run
  <2>4. raced = {} /\ UNCHANGED <<notes, index, ing, calm, sure, kept>>
    BY <1>1 DEF RecReads, IInv, RecSound
  <2>5. RecSound'
    BY <2>1, <2>2 DEF RecSound
  <2>6. QED BY <2>1, <2>2, <2>3, <2>4, <2>5 DEF IInv, TypeOK, IngSound, MissedOnlyByRace
<1>2. CASE RecRestarts
  <2>1. CASE RecEnds
    BY <2>1, <1>2, RecEnding DEF RecRestarts
  <2>2. CASE ~GivesUp(rec) /\ rec' = Restarted(rec) /\ UNCHANGED <<sure, kept, raced>>
    <3>1. rec' \in Run /\ rec'.at = rec.at /\ rec'.read = rec.read /\ rec'.todo = rec.todo
      BY <1>2, <2>2, Restart DEF RecRestarts, IInv, TypeOK
    <3>2. UNCHANGED <<notes, index, ing, calm, sure, kept, raced>> /\ Claimed' = Claimed
      BY <1>2, <2>2 DEF RecRestarts, Claimed
    <3>3. QED BY <3>1, <3>2 DEF IInv, TypeOK, RecSound, IngSound, MissedOnlyByRace
  <2>3. QED BY <1>2, <2>1, <2>2 DEF RecRestarts
<1>3. CASE RecDecides
  <2>1. CASE RecEnds
    BY <2>1, <1>3, RecEnding DEF RecDecides
  <2>2. CASE rec' = [rec EXCEPT !.at = "writing", !.todo = Orphans] /\ UNCHANGED <<sure, kept, raced>>
    <3>1. rec' \in Run /\ rec'.at = "writing" /\ rec'.read = rec.read /\ rec'.todo = index \ rec.read
      BY <2>2 DEF IInv, TypeOK, Run, Orphans
    <3>2. UNCHANGED <<notes, index, ing, calm, sure, kept, raced>> /\ Claimed' = Claimed
      BY <1>3, <2>2 DEF RecDecides, Claimed
    <3>3. rec.at = "walking"
      BY <1>3 DEF RecDecides
    <3>4. QED BY <3>1, <3>2, <3>3 DEF IInv, TypeOK, RecSound, IngSound, MissedOnlyByRace
  <2>3. QED BY <1>3, <2>1, <2>2 DEF RecDecides
<1>4. CASE RecDeletes
  <2>1. PICK b \in Batches(rec.todo) :
          /\ index' = index \ b
          /\ IF rec.todo = b THEN RecEnds
             ELSE rec' = [rec EXCEPT !.todo = @ \ b] /\ UNCHANGED <<sure, kept, raced>>
    BY <1>4 DEF RecDeletes
  <2>2. b \subseteq rec.todo /\ rec.at = "writing" /\ ing' = Walking(ing) /\ UNCHANGED <<notes, calm>>
    BY <1>4 DEF RecDeletes, Batches
  <2>3. CASE RecEnds
    BY <2>1, <2>2, <2>3, RecEnding
  <2>4. CASE rec' = [rec EXCEPT !.todo = @ \ b] /\ UNCHANGED <<sure, kept, raced>>
    <3>1. rec' \in Run /\ rec'.at = "writing" /\ rec'.read = rec.read /\ rec'.todo = rec.todo \ b
      BY <2>2, <2>4 DEF IInv, TypeOK, Run
    <3>2. ing' \in Run /\ ing'.at = ing.at /\ ing'.read = ing.read /\ ing'.todo = ing.todo
      BY <2>2, Walk DEF IInv, TypeOK
    <3>3. Claimed' = Claimed /\ UNCHANGED <<notes, calm, sure, kept, raced>>
      BY <2>2, <2>4 DEF Claimed
    <3>4. (index \cap Claimed) \ raced \subseteq index'
      BY <2>1, <2>2 DEF IInv, RecSound
    <3>5. QED BY <2>1, <2>2, <3>1, <3>2, <3>3, <3>4 DEF IInv, TypeOK, RecSound, IngSound, MissedOnlyByRace
  <2>5. QED BY <2>1, <2>3, <2>4
<1>5. CASE RecDies
  BY <1>5, RecEnding DEF RecDies
<1>6. QED BY <1>1, <1>2, <1>3, <1>4, <1>5 DEF RecStep

\* What it has vouched for is in the index when an ingest ends.
LEMMA IngStarting ==
  ASSUME IInv, ing.at = "walking", NEW present, present = index \/ present = {},
         IngStarts(present), UNCHANGED <<notes, index, rec, calm, raced>>
  PROVE  IInv'
<1>1. Claimed' = Claimed
  BY DEF Claimed
<1>2. CASE ing.read \subseteq present /\ IngEnds(kept)
  <2>1. kept \subseteq index
    BY <1>2 DEF IInv, IngSound
  <2>2. ing' \in Run /\ ing'.at = "idle" /\ kept' = {} /\ sure' = sure \cup kept
    BY <1>2, IdleIsRun DEF IngEnds, Idle
  <2>3. QED BY <1>1, <2>1, <2>2 DEF IInv, TypeOK, RecSound, IngSound, MissedOnlyByRace
<1>3. CASE /\ ing' = [ing EXCEPT !.at = "writing", !.todo = ing.read \ present]
           /\ UNCHANGED <<sure, kept>>
  <2>1. /\ ing' \in Run /\ ing'.at = "writing" /\ ing'.read = ing.read
        /\ ing'.todo = ing.read \ present
    BY <1>3 DEF IInv, TypeOK, Run
  <2>2. QED BY <1>1, <1>3, <2>1 DEF IInv, TypeOK, RecSound, IngSound, MissedOnlyByRace
<1>4. QED BY <1>2, <1>3 DEF IngStarts

\* Every step of the ingest, its end and its death included.
LEMMA IngMoving ==
  ASSUME IInv, IngStep \/ IngDies \/ \E v \in Vault : IngReads(v)
  PROVE  IInv'
<1>1. CASE \E v \in Vault : IngReads(v)
  <2>1. PICK v \in Vault : IngReads(v)
    BY <1>1
  <2>2. PICK ids \in Reads(In(v, Claimed)) :
          /\ ing' = [at |-> "walking", read |-> ids, todo |-> {}, tries |-> 1, dirty |-> FALSE]
          /\ kept' = ids
    BY <2>1 DEF IngReads
  <2>3. ids \subseteq Claimed /\ Claimed \subseteq Id /\ Claimed' = Claimed
    BY <2>1, ClaimedIsId DEF IngReads, Reads, In, IInv, Claimed
  <2>4. ing' \in Run
    BY <2>2, <2>3, VaultAssumption DEF Run
  <2>5. UNCHANGED <<notes, index, rec, calm, sure, raced>>
    BY <2>1 DEF IngReads
  <2>6. QED BY <2>2, <2>3, <2>4, <2>5 DEF IInv, TypeOK, RecSound, IngSound, MissedOnlyByRace
<1>2. CASE IngRestarts
  <2>1. CASE IngStarts({})
    BY <1>2, <2>1, IngStarting DEF IngRestarts
  <2>2. CASE ~GivesUp(ing) /\ ing' = Restarted(ing) /\ UNCHANGED <<sure, kept>>
    <3>1. ing' \in Run /\ ing'.at = ing.at /\ ing'.read = ing.read /\ ing'.todo = ing.todo
      BY <1>2, <2>2, Restart DEF IngRestarts, IInv, TypeOK
    <3>2. UNCHANGED <<notes, index, rec, calm, sure, kept, raced>> /\ Claimed' = Claimed
      BY <1>2, <2>2 DEF IngRestarts, Claimed
    <3>3. QED BY <3>1, <3>2 DEF IInv, TypeOK, RecSound, IngSound, MissedOnlyByRace
  <2>3. QED BY <1>2, <2>1, <2>2 DEF IngRestarts
<1>3. CASE IngSkips
  BY <1>3, IngStarting DEF IngSkips
<1>4. CASE IngUpserts
  <2>1. PICK b \in Batches(ing.todo) :
          /\ index' = index \cup b
          /\ IF ing.todo = b THEN IngEnds(kept)
             ELSE ing' = [ing EXCEPT !.todo = @ \ b] /\ UNCHANGED <<sure, kept>>
    BY <1>4 DEF IngUpserts
  <2>2. b \subseteq ing.todo /\ ing.at = "writing" /\ rec' = Walking(rec)
        /\ UNCHANGED <<notes, calm, raced>> /\ Claimed' = Claimed
    BY <1>4 DEF IngUpserts, Batches, Claimed
  <2>3. rec' \in Run /\ rec'.at = rec.at /\ rec'.read = rec.read /\ rec'.todo = rec.todo
    BY <2>2, Walk DEF IInv, TypeOK
  <2>4. ing.todo \subseteq Id
    BY RunFields DEF IInv, TypeOK
  <2>5. CASE ing.todo = b /\ IngEnds(kept)
    <3>1. ing' \in Run /\ ing'.at = "idle" /\ kept' = {} /\ sure' = sure \cup kept
      BY <2>5, IdleIsRun DEF IngEnds, Idle
    <3>2. QED BY <2>1, <2>2, <2>3, <2>4, <2>5, <3>1 DEF IInv, TypeOK, RecSound, IngSound, MissedOnlyByRace
  <2>6. CASE ing' = [ing EXCEPT !.todo = @ \ b] /\ UNCHANGED <<sure, kept>>
    <3>1. ing' \in Run /\ ing'.at = "writing" /\ ing'.read = ing.read /\ ing'.todo = ing.todo \ b
      BY <2>2, <2>6 DEF IInv, TypeOK, Run
    <3>2. QED BY <2>1, <2>2, <2>3, <2>4, <2>6, <3>1 DEF IInv, TypeOK, RecSound, IngSound, MissedOnlyByRace
  <2>7. QED BY <2>1, <2>5, <2>6
<1>5. CASE IngDies
  <2>1. PICK b \in Batches(ing.todo) \cup {{}} :
          index' = index \cup b /\ rec' = IF b = {} THEN rec ELSE Walking(rec)
    BY <1>5 DEF IngDies
  <2>2. b \subseteq ing.todo /\ ing.todo \subseteq Id
    BY RunFields DEF Batches, IInv, TypeOK
  <2>3. rec' \in Run /\ rec'.at = rec.at /\ rec'.read = rec.read /\ rec'.todo = rec.todo
    BY <2>1, Walk DEF IInv, TypeOK
  <2>4. ing' \in Run /\ ing'.at = "idle" /\ kept' = {} /\ sure' = sure
    BY <1>5, IdleIsRun DEF IngDies, IngEnds, Idle
  <2>5. UNCHANGED <<notes, calm, raced>> /\ Claimed' = Claimed
    BY <1>5 DEF IngDies, Claimed
  <2>6. QED BY <2>1, <2>2, <2>3, <2>4, <2>5 DEF IInv, TypeOK, RecSound, IngSound, MissedOnlyByRace
<1>6. QED BY <1>1, <1>2, <1>3, <1>4, <1>5 DEF IngStep

LEMMA Initial == Init => IInv
<1> SUFFICES ASSUME Init PROVE IInv
  OBVIOUS
<1>1. Idle \in Run /\ Idle.at = "idle" /\ Idle.todo = {}
  BY IdleIsRun DEF Idle
<1>2. QED BY <1>1 DEF Init, IInv, TypeOK, RecSound, IngSound, MissedOnlyByRace

LEMMA Inductive == IInv /\ [Next]_vars => IInv'
<1> SUFFICES ASSUME IInv, [Next]_vars PROVE IInv'
  OBVIOUS
<1>1. CASE \E n \in Note, version \in 0 .. MaxVersion : Edit(n, version)
  BY <1>1, Editing
<1>2. CASE CalmDown
  BY <1>2 DEF CalmDown, IInv, TypeOK, RecSound, IngSound, MissedOnlyByRace, Claimed
<1>3. CASE RecStep \/ RecDies
  BY <1>3, RecMoving
<1>4. CASE IngStep \/ IngDies \/ \E v \in Vault : IngReads(v)
  BY <1>4, IngMoving
<1>5. CASE UNCHANGED vars
  BY <1>5 DEF vars, IInv, TypeOK, RecSound, IngSound, MissedOnlyByRace, Claimed
<1>6. QED BY <1>1, <1>2, <1>3, <1>4, <1>5 DEF Next

LEMMA Invariant == Spec => []IInv
BY Initial, Inductive, PTL DEF Spec

\* Every variable of the mirror keeps its type.
THEOREM TypeCorrect == Spec => []TypeOK
<1>1. IInv => TypeOK
  BY DEF IInv
<1>2. QED BY <1>1, Invariant, PTL

\* No search misses a chunk that an ingest has vouched for and that has been in
\* its vault since, but for one that a reconcile did not find there.
THEOREM VouchedIsFound == Spec => []MissedOnlyByRace
<1>1. IInv => MissedOnlyByRace
  BY DEF IInv
<1>2. QED BY <1>1, Invariant, PTL

-----------------------------------------------------------------------------
(* Folds without induction: a least counterexample, and sets for predicates. *)

\* A set of naturals has a least element.
LEMMA LeastNat ==
  ASSUME NEW T, T \subseteq Nat, T # {}
  PROVE  \E m \in T : \A n \in T : m <= n
<1>1. PICK m \in T : \A n \in T : ~(<<n, m>> \in OpToRel(<, Nat))
  BY NatLessThanWellFounded, WFMin
<1>2. ASSUME NEW n \in T PROVE m <= n
  <2>1. ~(n < m)
    BY <1>1 DEF OpToRel
  <2>2. QED BY <2>1
<1>3. QED BY <1>2

\* Induction over 0 .. n, with a set for the predicate.
LEMMA Upto ==
  ASSUME NEW n \in Nat, NEW G, 0 \in G, \A k \in 1 .. n : k - 1 \in G => k \in G
  PROVE  \A k \in 0 .. n : k \in G
<1> DEFINE T == {k \in 0 .. n : k \notin G}
<1> SUFFICES ASSUME T # {} PROVE FALSE
  OBVIOUS
<1>1. T \subseteq Nat
  OBVIOUS
<1>2. PICK m \in T : \A k \in T : m <= k
  BY <1>1, LeastNat
<1>3. m \in 1 .. n /\ m - 1 \in 0 .. n
  OBVIOUS
<1>4. m - 1 \in G
  BY <1>2, <1>3
<1>5. QED BY <1>3, <1>4

\* The first k of n as a part of them, its last element, and what is before it.
LEMMA FirstK ==
  ASSUME NEW n \in Nat, NEW k \in 1 .. n
  PROVE  /\ 1 .. k \in SUBSET (1 .. n) /\ 1 .. k # {} /\ Max(1 .. k) = k
         /\ (1 .. k) \ {k} = 1 .. k - 1 /\ k - 1 \in 0 .. n /\ k \in 0 .. n
<1>1. \A m \in 1 .. k : (\A j \in 1 .. k : m >= j) <=> m = k
  OBVIOUS
<1>2. k \in 1 .. k /\ k - 1 \in 0 .. n /\ k \in 0 .. n
  OBVIOUS
<1>3. \A i \in 1 .. k : i \in 1 .. n
  OBVIOUS
<1>4. Max(1 .. k) = k
  BY <1>1, <1>2 DEF Max
<1>5. (1 .. k) \ {k} = 1 .. k - 1
  OBVIOUS
<1>6. QED BY <1>2, <1>3, <1>4, <1>5

\* The last of a part of 1 .. n, and the part without it.
LEMMA LastOfPart ==
  ASSUME NEW n \in Nat, NEW s \in SUBSET (1 .. n), s # {}
  PROVE  /\ Max(s) \in s /\ s \ {Max(s)} \in SUBSET (1 .. n)
         /\ IsFiniteSet(s) /\ Cardinality(s) \in Nat \ {0}
         /\ Cardinality(s \ {Max(s)}) = Cardinality(s) - 1
<1>1. IsFiniteSet(1 .. n)
  BY FS_Interval
<1>2. IsFiniteSet(s)
  BY <1>1, FS_Subset
<1>3. Max(s) \in s
  <2> DEFINE T == {n - i : i \in s}
  <2>0. \A i \in s : i \in 1 .. n
    OBVIOUS
  <2>1. T \subseteq Nat /\ T # {}
    <3>1. T \subseteq Nat
      BY <2>0
    <3>2. PICK i \in s : TRUE
      OBVIOUS
    <3>3. n - i \in T
      OBVIOUS
    <3>4. QED BY <3>1, <3>3
  <2>2. PICK m \in T : \A k \in T : m <= k
    BY <2>1, LeastNat
  <2>3. PICK x \in s : m = n - x
    OBVIOUS
  <2>4. \A i \in s : x >= i
    BY <2>0, <2>2, <2>3
  <2>5. QED BY <2>4 DEF Max
<1>4. QED BY <1>2, <1>3, FS_CardinalityType, FS_EmptySet, FS_RemoveElement

\* F folded over each part of 1 .. n from its first to its last.
Folded(h, F, base, n) ==
  h = [s \in SUBSET (1 .. n) |-> IF s = {} THEN base ELSE F[<<h[s \ {Max(s)}], Max(s)>>]]

\* There is such a fold, and it stays in the type of the accumulator.
LEMMA FoldExists ==
  ASSUME NEW n \in Nat, NEW F, NEW X, NEW base \in X,
         \A x \in X, i \in 1 .. n : F[<<x, i>>] \in X
  PROVE  \E h : Folded(h, F, base, n) /\ \A s \in SUBSET (1 .. n) : h[s] \in X
<1> DEFINE S == 1 .. n
           Part(k) == {s \in SUBSET S : Cardinality(s) <= k}
           Step(h, s) == IF s = {} THEN base ELSE F[<<h[s \ {Max(s)}], Max(s)>>]
           Does(h, k) == h = [s \in Part(k) |-> Step(h, s)] /\ \A s \in Part(k) : h[s] \in X
           G == {k \in 0 .. n : \E h : Does(h, k)}
<1>1. IsFiniteSet(S) /\ Cardinality(S) = n
  BY FS_Interval
<1>2. \A s \in SUBSET S : IsFiniteSet(s) /\ Cardinality(s) \in Nat /\ Cardinality(s) <= n
  BY <1>1, FS_Subset, FS_CardinalityType
<1>3. 0 \in G
  <2>1. \A s \in Part(0) : s = {}
    BY <1>2, FS_EmptySet
  <2> DEFINE h == [s \in Part(0) |-> base]
  <2>2. Does(h, 0)
    BY <2>1
  <2> HIDE DEF Does
  <2>3. QED BY <2>2
<1>4. ASSUME NEW k \in 1 .. n, k - 1 \in G PROVE k \in G
  <2>1. PICK g : Does(g, k - 1)
    BY <1>4
  <2> DEFINE h == [s \in Part(k) |-> Step(g, s)]
  <2>2. ASSUME NEW s \in Part(k) PROVE Step(g, s) = Step(h, s)
    <3>1. CASE s = {}
      BY <3>1
    <3>2. CASE s # {}
      <4> DEFINE t == s \ {Max(s)}
      <4>1. t \in Part(k - 1) /\ t \in Part(k)
        <5>1. s \in SUBSET S /\ Cardinality(s) \in Nat /\ Cardinality(s) <= k
          BY <1>2
        <5>2. t \in SUBSET S /\ Cardinality(t) = Cardinality(s) - 1
          BY <3>2, <5>1, LastOfPart
        <5> HIDE DEF t, S
        <5>3. k \in Int /\ Cardinality(t) <= k - 1 /\ Cardinality(t) <= k
          BY <5>1, <5>2
        <5>4. QED BY <5>2, <5>3
      <4>2. g[t] = Step(g, t)
        BY <2>1, <4>1
      <4>3. h[t] = Step(g, t)
        BY <4>1
      <4>4. QED BY <3>2, <4>2, <4>3
    <3>3. QED BY <3>1, <3>2
  <2>3. \A s \in Part(k) : Step(g, s) \in X
    <3>1. ASSUME NEW s \in Part(k), s # {} PROVE F[<<g[s \ {Max(s)}], Max(s)>>] \in X
      <4>1. s \ {Max(s)} \in Part(k - 1) /\ Max(s) \in 1 .. n
        <5>1. s \in SUBSET (1 .. n) /\ Cardinality(s) <= k /\ s # {}
          BY <3>1
        <5>2. /\ Max(s) \in s /\ s \ {Max(s)} \in SUBSET (1 .. n) /\ Cardinality(s) \in Nat
              /\ Cardinality(s \ {Max(s)}) = Cardinality(s) - 1
          BY <5>1, LastOfPart
        <5>3. Cardinality(s \ {Max(s)}) <= k - 1
          BY <5>1, <5>2
        <5>4. Max(s) \in 1 .. n
          BY <5>1, <5>2
        <5>5. QED BY <5>2, <5>3, <5>4
      <4>2. g[s \ {Max(s)}] \in X
        BY <2>1, <4>1
      <4>3. QED BY <4>1, <4>2
    <3>2. QED BY <3>1
  <2>5. Does(h, k)
    BY <2>2, <2>3
  <2> HIDE DEF Does, h
  <2>6. QED BY <2>5
<1>5. n \in G
  <2> HIDE DEF G
  <2>1. QED BY <1>3, <1>4, Upto
<1>6. PICK h : Does(h, n)
  BY <1>5
<1>7. Part(n) = SUBSET S
  BY <1>2
<1>8. Folded(h, F, base, n) /\ \A s \in SUBSET S : h[s] \in X
  BY <1>6, <1>7 DEF Folded
<1>9. QED BY <1>8

-----------------------------------------------------------------------------
(* The folds of the chunker, element by element. *)

Piece == [len : Int, of : SUBSET Nat]

\* What FoldLeft returns on the way, for each of the folds.
LEMMA PushedStates ==
  ASSUME NEW out \in Seq(Piece), NEW pieces \in Seq(Piece)
  PROVE  \E a : /\ a[0] = out
                /\ \A k \in 1 .. Len(pieces) : a[k] = Pushed(a[k - 1], pieces[k])
                /\ PushedAll(out, pieces) = a[Len(pieces)]
<1> DEFINE n == Len(pieces)
           X == Seq(Piece)
           F == [q \in X \X (1 .. n) |-> Pushed(q[1], pieces[q[2]])]
           P(g) == g = [s \in SUBSET (1 .. n) |->
                         IF s = {} THEN out ELSE Pushed(g[s \ {Max(s)}], pieces[Max(s)])]
           iter == CHOOSE g : P(g)
           a == [k \in 0 .. n |-> iter[1 .. k]]
<1>1. n \in Nat /\ DOMAIN pieces = 1 .. n /\ \A i \in 1 .. n : pieces[i] \in Piece
  BY LenProperties, ElementOfSeq
<1>2. ASSUME NEW x \in X, NEW i \in 1 .. n PROVE F[<<x, i>>] = Pushed(x, pieces[i]) /\ F[<<x, i>>] \in X
  <2>1. F[<<x, i>>] = Pushed(x, pieces[i])
    OBVIOUS
  <2>2. Pushed(x, pieces[i]) \in X
    BY <1>1, AppendProperties DEF Pushed
  <2>3. QED BY <2>1, <2>2
<1>3. PICK h : Folded(h, F, out, n) /\ \A s \in SUBSET (1 .. n) : h[s] \in X
  <2> HIDE DEF F, X
  <2>1. out \in X
    BY DEF X
  <2>2. QED BY <1>1, <1>2, <2>1, FoldExists
<1>4. P(h)
  <2>1. ASSUME NEW s \in SUBSET (1 .. n), s # {}
        PROVE  F[<<h[s \ {Max(s)}], Max(s)>>] = Pushed(h[s \ {Max(s)}], pieces[Max(s)])
    <3> HIDE DEF F, X
    <3>1. s \ {Max(s)} \in SUBSET (1 .. n) /\ Max(s) \in 1 .. n
      BY <1>1, <2>1, LastOfPart
    <3>2. QED BY <1>2, <1>3, <3>1
  <2> HIDE DEF F, X
  <2>2. QED BY <1>3, <2>1 DEF Folded
<1>5. P(iter)
  <2> HIDE DEF P
  <2>1. QED BY <1>4
<1>6. PushedAll(out, pieces) = iter[1 .. n]
  BY <1>1 DEF PushedAll, FoldLeft, MapThenFoldSet
<1> HIDE DEF iter, n
<1>7. a[0] = out
  <2>1. 1 .. 0 = {}
    OBVIOUS
  <2>2. iter[{}] = out
    BY <1>5
  <2>3. QED BY <1>1, <2>1, <2>2
<1>8. ASSUME NEW k \in 1 .. n PROVE a[k] = Pushed(a[k - 1], pieces[k])
  <2>1. 1 .. k \in SUBSET (1 .. n) /\ 1 .. k # {} /\ k - 1 \in 0 .. n /\ k \in 0 .. n
    BY <1>1, FirstK
  <2>2. iter[1 .. k] = Pushed(iter[(1 .. k) \ {Max(1 .. k)}], pieces[Max(1 .. k)])
    BY <1>5, <2>1
  <2>3. Max(1 .. k) = k /\ (1 .. k) \ {k} = 1 .. k - 1
    BY <1>1, FirstK
  <2>4. iter[1 .. k] = Pushed(iter[1 .. k - 1], pieces[k])
    BY <2>2, <2>3
  <2>5. QED BY <2>1, <2>4
<1>9. PushedAll(out, pieces) = a[n]
  BY <1>1, <1>6
<1> HIDE DEF a
<1>10. QED BY <1>7, <1>8, <1>9 DEF n

\* A function on 1 .. n is a sequence.
LEMMA FunctionIsSeq ==
  ASSUME NEW n \in Nat, NEW X, NEW s \in [1 .. n -> X]
  PROVE  s \in Seq(X) /\ Len(s) = n
OBVIOUS

Paragraph == [len : Length, cut : Cuts]
ChunkState == [out : Seq(Piece), buf : Piece]

\* The budget, the floor and the paragraphs, as the assumption bounds them.
LEMMA ChunkBounds ==
  /\ MaxChars \in Nat /\ MinChars \in Nat \ {0} /\ MinChars <= MaxChars
  /\ \A p \in Paragraph : p.len \in Nat \ {0}
<1>1. MaxChars \in Nat /\ MinChars \in 1 .. MaxChars /\ Length \subseteq 1 .. MaxLength
      /\ MaxLength \in Nat
  BY ChunksAssumption
<1>2. MinChars \in Nat \ {0} /\ MinChars <= MaxChars
  BY <1>1
<1>3. ASSUME NEW p \in Paragraph
      PROVE  p.len \in Nat \ {0}
  <2>1. p.len \in 1 .. MaxLength
    BY <1>1 DEF Paragraph
  <2>2. \A l \in 1 .. MaxLength : l \in Nat \ {0}
    BY <1>1
  <2>3. QED BY <2>1, <2>2
<1>4. QED BY <1>1, <1>2, <1>3

\* What one cut takes and leaves.
LEMMA CutFacts ==
  ASSUME NEW p \in Paragraph, NEW rest \in 0 .. p.len, rest > MaxChars
  PROVE  /\ p.cut[rest].at - p.cut[rest].pad \in 1 .. MaxChars
         /\ rest - p.cut[rest].at - p.cut[rest].lead \in 1 .. rest - 1
<1> DEFINE cut == p.cut[rest]
<1>1. MaxChars \in Nat /\ MinChars \in Nat \ {0} /\ MaxLength \in Nat /\ p.len \in Nat
  BY ChunkBounds, ChunksAssumption
<1>2. p.cut \in Cuts /\ p.len \in 1 .. MaxLength
  BY ChunksAssumption DEF Paragraph
<1>3. rest \in MaxChars + 1 .. MaxLength
  BY <1>1, <1>2
<1>4. /\ cut.at \in MinChars .. MaxChars /\ cut.pad \in 0 .. cut.at - 1
      /\ cut.lead \in 0 .. rest - cut.at - 1
  BY <1>2, <1>3, ChunksAssumption
<1> HIDE DEF cut
<1>5. cut.at - cut.pad \in 1 .. MaxChars /\ rest - cut.at - cut.lead \in 1 .. rest - 1
  BY <1>1, <1>3, <1>4
<1>6. QED BY <1>5 DEF cut

\* A recursion that calls itself on smaller numbers only defines a function, and
\* it stays in its type.
Downward(n, X, Stop, base, next, F) ==
  /\ n \in Nat /\ Stop \subseteq 0 .. n
  /\ \A m \in Stop : base[m] \in X
  /\ \A m \in (0 .. n) \ Stop : next[m] \in 0 .. m - 1
  /\ \A m \in (0 .. n) \ Stop, x \in X : F[<<m, x>>] \in X
IsDownward(h, n, X, Stop, base, next, F) ==
  /\ h = [m \in 0 .. n |-> IF m \in Stop THEN base[m] ELSE F[<<m, h[next[m]]>>]]
  /\ \A m \in 0 .. n : h[m] \in X

LEMMA DownwardExists ==
  ASSUME NEW n, NEW X, NEW Stop, NEW base, NEW next, NEW F,
         Downward(n, X, Stop, base, next, F)
  PROVE  \E h : IsDownward(h, n, X, Stop, base, next, F)
<1>0. /\ n \in Nat /\ Stop \subseteq 0 .. n
      /\ \A m \in Stop : base[m] \in X
      /\ \A m \in (0 .. n) \ Stop : next[m] \in 0 .. m - 1
      /\ \A m \in (0 .. n) \ Stop, x \in X : F[<<m, x>>] \in X
  BY DEF Downward
<1> USE <1>0
<1> DEFINE Step(h, m) == IF m \in Stop THEN base[m] ELSE F[<<m, h[next[m]]>>]
           Does(h, k) == h = [m \in 0 .. k |-> Step(h, m)] /\ \A m \in 0 .. k : h[m] \in X
           G == {k \in 0 .. n : \E h : Does(h, k)}
<1>1. 0 \in G
  <2> DEFINE h == [m \in 0 .. 0 |-> base[0]]
  <2>1. 0 \in Stop
    <3> SUFFICES ASSUME 0 \notin Stop PROVE FALSE
      OBVIOUS
    <3>1. next[0] \in 0 .. 0 - 1
      OBVIOUS
    <3>2. QED BY <3>1
  <2>2. \A m \in 0 .. 0 : m = 0
    OBVIOUS
  <2>3. h[0] = base[0]
    BY <2>2
  <2>4. h = [m \in 0 .. 0 |-> Step(h, m)]
    BY <2>1, <2>2
  <2>5. Does(h, 0)
    BY <2>1, <2>2, <2>3, <2>4
  <2> HIDE DEF Does, h
  <2>6. QED BY <2>5
<1>2. ASSUME NEW k \in 1 .. n, k - 1 \in G PROVE k \in G
  <2>1. PICK g : Does(g, k - 1)
    BY <1>2
  <2> DEFINE h == [m \in 0 .. k |-> Step(g, m)]
  <2>2. ASSUME NEW m \in 0 .. k, m \notin Stop
        PROVE  next[m] \in 0 .. k - 1 /\ next[m] \in 0 .. k /\ m \in (0 .. n) \ Stop
    <3>1. m \in (0 .. n) \ Stop /\ m \in Int /\ k \in Int /\ m <= k
      BY <2>2
    <3>2. next[m] \in 0 .. m - 1
      BY <3>1
    <3>3. \A x \in 0 .. m - 1 : x \in 0 .. k - 1 /\ x \in 0 .. k
      BY <3>1
    <3>4. QED BY <3>1, <3>2, <3>3
  <2>3. \A m \in 0 .. k - 1 : g[m] = Step(g, m) /\ g[m] \in X
    BY <2>1
  <2>4. ASSUME NEW m \in 0 .. k PROVE Step(g, m) = Step(h, m) /\ Step(g, m) \in X
    <3>1. CASE m \in Stop
      BY <3>1
    <3>2. CASE m \notin Stop
      <4>1. h[next[m]] = g[next[m]] /\ g[next[m]] \in X
        BY <2>2, <2>3, <3>2
      <4>2. F[<<m, g[next[m]]>>] \in X
        BY <2>2, <3>2, <4>1
      <4> HIDE DEF h
      <4>3. QED BY <3>2, <4>1, <4>2
    <3>3. QED BY <3>1, <3>2
  <2>5. Does(h, k)
    BY <2>4
  <2> HIDE DEF Does, h
  <2>6. QED BY <2>5
<1>3. n \in G
  <2> HIDE DEF G
  <2>1. QED BY <1>1, <1>2, Upto
<1>4. QED BY <1>3 DEF IsDownward

\* splitLong(): the pieces of a long paragraph are within the budget.
LEMMA SplitFacts ==
  ASSUME NEW p \in Paragraph, NEW i \in Nat
  PROVE  /\ SplitLong(p, i) \in Seq(Piece)
         /\ \A k \in 1 .. Len(SplitLong(p, i)) :
              SplitLong(p, i)[k].of = {i} /\ SplitLong(p, i)[k].len <= MaxChars
<1> DEFINE Mine == {m \in Piece : m.of = {i} /\ m.len <= MaxChars}
           P(g) == g = [rest \in 0 .. p.len |->
             IF rest <= MaxChars THEN <<[len |-> rest, of |-> {i}]>>
             ELSE <<[len |-> p.cut[rest].at - p.cut[rest].pad, of |-> {i}]>>
                  \o g[rest - p.cut[rest].at - p.cut[rest].lead]]
           iter == CHOOSE g : P(g)
           Stop == {rest \in 0 .. p.len : rest <= MaxChars}
           base == [rest \in 0 .. p.len |-> <<[len |-> rest, of |-> {i}]>>]
           next == [rest \in 0 .. p.len |-> rest - p.cut[rest].at - p.cut[rest].lead]
           F == [q \in (0 .. p.len) \X Seq(Mine) |->
                  <<[len |-> p.cut[q[1]].at - p.cut[q[1]].pad, of |-> {i}]>> \o q[2]]
<1>0. p.len \in Nat /\ MaxChars \in Nat
  BY ChunkBounds
<1>1. \A x \in Mine : <<x>> \in Seq(Mine)
  OBVIOUS
<1>2. ASSUME NEW len \in Int, len <= MaxChars PROVE [len |-> len, of |-> {i}] \in Mine
  BY <1>2 DEF Piece
<1>3. \A rest \in Stop : base[rest] \in Seq(Mine)
  <2> HIDE DEF Mine
  <2>1. QED BY <1>0, <1>1, <1>2
<1>4. \A rest \in (0 .. p.len) \ Stop :
        /\ rest \in 0 .. p.len /\ rest > MaxChars
        /\ p.cut[rest].at - p.cut[rest].pad \in 1 .. MaxChars
        /\ next[rest] = rest - p.cut[rest].at - p.cut[rest].lead /\ next[rest] \in 0 .. rest - 1
  <2> SUFFICES ASSUME NEW rest \in 0 .. p.len, rest \notin Stop
               PROVE  /\ rest > MaxChars
                      /\ p.cut[rest].at - p.cut[rest].pad \in 1 .. MaxChars
                      /\ next[rest] = rest - p.cut[rest].at - p.cut[rest].lead
                      /\ next[rest] \in 0 .. rest - 1
    OBVIOUS
  <2>1. rest > MaxChars
    BY <1>0
  <2>2. /\ p.cut[rest].at - p.cut[rest].pad \in 1 .. MaxChars
        /\ rest - p.cut[rest].at - p.cut[rest].lead \in 1 .. rest - 1
    BY <2>1, CutFacts
  <2>3. \A x \in 1 .. rest - 1 : x \in 0 .. rest - 1
    BY <1>0
  <2>4. next[rest] = rest - p.cut[rest].at - p.cut[rest].lead
    OBVIOUS
  <2> HIDE DEF next
  <2>5. QED BY <2>1, <2>2, <2>3, <2>4
<1>5. ASSUME NEW rest \in (0 .. p.len) \ Stop, NEW x \in Seq(Mine)
      PROVE  /\ F[<<rest, x>>] = <<[len |-> p.cut[rest].at - p.cut[rest].pad, of |-> {i}]>> \o x
             /\ F[<<rest, x>>] \in Seq(Mine)
  <2>1. F[<<rest, x>>] = <<[len |-> p.cut[rest].at - p.cut[rest].pad, of |-> {i}]>> \o x
    <3> HIDE DEF Mine
    <3>1. QED OBVIOUS
  <2> HIDE DEF F, Stop
  <2>2. [len |-> p.cut[rest].at - p.cut[rest].pad, of |-> {i}] \in Mine
    <3> DEFINE l == p.cut[rest].at - p.cut[rest].pad
    <3>1. l \in 1 .. MaxChars
      BY <1>4, <1>5
    <3> HIDE DEF l
    <3>2. l \in Int /\ l <= MaxChars
      BY <1>0, <3>1
    <3>3. [len |-> l, of |-> {i}] \in Mine
      BY <1>2, <3>2
    <3>4. QED BY <3>3 DEF l
  <2> HIDE DEF Mine
  <2>3. QED BY <1>1, <2>1, <2>2, ConcatProperties
<1>6. PICK h : /\ h = [m \in 0 .. p.len |-> IF m \in Stop THEN base[m] ELSE F[<<m, h[next[m]]>>]]
               /\ \A m \in 0 .. p.len : h[m] \in Seq(Mine)
  <2> DEFINE X == Seq(Mine)
  <2> HIDE DEF Mine, base, next, F, P, iter
  <2>1. Stop \subseteq 0 .. p.len
    OBVIOUS
  <2> HIDE DEF Stop
  <2>2. \A m \in Stop : base[m] \in X
    BY <1>3
  <2>3. \A m \in (0 .. p.len) \ Stop : next[m] \in 0 .. m - 1
    BY <1>4
  <2>4. \A m \in (0 .. p.len) \ Stop, x \in X : F[<<m, x>>] \in X
    BY <1>5
  <2> HIDE DEF X
  <2>5. Downward(p.len, X, Stop, base, next, F)
    BY <1>0, <2>1, <2>2, <2>3, <2>4 DEF Downward
  <2>6. \E h : IsDownward(h, p.len, X, Stop, base, next, F)
    BY <2>5, DownwardExists
  <2>7. QED BY <2>6 DEF IsDownward, X
<1>7. P(h)
  <2>1. ASSUME NEW m \in 0 .. p.len
        PROVE  (IF m \in Stop THEN base[m] ELSE F[<<m, h[next[m]]>>]) =
               IF m <= MaxChars THEN <<[len |-> m, of |-> {i}]>>
               ELSE <<[len |-> p.cut[m].at - p.cut[m].pad, of |-> {i}]>>
                    \o h[m - p.cut[m].at - p.cut[m].lead]
    <3>1. CASE m \in Stop
      <4> HIDE DEF Mine, F, next
      <4>1. QED BY <3>1
    <3>2. CASE m \notin Stop
      <4>1. m > MaxChars /\ next[m] = m - p.cut[m].at - p.cut[m].lead /\ next[m] \in 0 .. m - 1
        BY <1>4, <3>2
      <4>2. next[m] \in 0 .. p.len
        <5>1. \A x \in 0 .. m - 1 : x \in 0 .. p.len
          BY <1>0
        <5> HIDE DEF next
        <5>2. QED BY <4>1, <5>1
      <4>3. h[next[m]] \in Seq(Mine)
        BY <1>6, <4>2
      <4>4. F[<<m, h[next[m]]>>] = <<[len |-> p.cut[m].at - p.cut[m].pad, of |-> {i}]>> \o h[next[m]]
        BY <1>5, <3>2, <4>3
      <4>5. ~(m <= MaxChars)
        BY <1>0, <4>1
      <4> HIDE DEF Mine, F, next, Stop
      <4>6. QED BY <3>2, <4>1, <4>4, <4>5
    <3>3. QED BY <3>1, <3>2
  <2> HIDE DEF Mine, F, next, Stop, base
  <2>2. QED BY <1>6, <2>1
<1>8. P(iter)
  <2> HIDE DEF P
  <2>1. QED BY <1>7
<1>9. SplitLong(p, i) = iter[p.len]
  BY DEF SplitLong
<1>10. \A g : P(g) => g[p.len] \in Seq(Mine)
  <2> SUFFICES ASSUME NEW g, P(g) PROVE g[p.len] \in Seq(Mine)
    OBVIOUS
  <2> DEFINE Good == {m \in 0 .. p.len : \A l \in 0 .. m : g[l] \in Seq(Mine)}
  <2>1. ASSUME NEW m \in 0 .. p.len, \A l \in 0 .. m - 1 : g[l] \in Seq(Mine)
        PROVE  g[m] \in Seq(Mine)
    <3>1. CASE m \in Stop
      <4>1. g[m] = base[m]
        BY <3>1
      <4> HIDE DEF base, Mine, Stop, P
      <4>2. QED BY <1>3, <3>1, <4>1
    <3>2. CASE m \notin Stop
      <4>1. m > MaxChars /\ next[m] = m - p.cut[m].at - p.cut[m].lead /\ next[m] \in 0 .. m - 1
        BY <1>4, <3>2
      <4>2. g[next[m]] \in Seq(Mine)
        <5> HIDE DEF next, Mine, P
        <5>1. QED BY <2>1, <4>1
      <4>3. ~(m <= MaxChars)
        BY <1>0, <4>1
      <4>4. g[m] = <<[len |-> p.cut[m].at - p.cut[m].pad, of |-> {i}]>> \o g[next[m]]
        <5> HIDE DEF next, Mine, Stop
        <5>1. QED BY <4>1, <4>3
      <4>5. F[<<m, g[next[m]]>>] = g[m] /\ F[<<m, g[next[m]]>>] \in Seq(Mine)
        <5> HIDE DEF next, Mine, Stop, P, F
        <5>1. QED BY <1>5, <3>2, <4>2, <4>4
      <4> HIDE DEF next, Mine, Stop, P, F
      <4>6. QED BY <4>5
    <3>3. QED BY <3>1, <3>2
  <2> HIDE DEF P, Mine
  <2>2. 0 \in Good
    <3>1. \A l \in 0 .. 0 - 1 : FALSE
      OBVIOUS
    <3>2. g[0] \in Seq(Mine)
      BY <1>0, <2>1, <3>1
    <3>3. QED BY <1>0, <3>2
  <2>3. ASSUME NEW m \in 1 .. p.len, m - 1 \in Good PROVE m \in Good
    <3>1. \A l \in 0 .. m - 1 : g[l] \in Seq(Mine)
      BY <2>3
    <3>2. m \in 0 .. p.len
      BY <1>0
    <3>3. g[m] \in Seq(Mine)
      BY <2>1, <3>1, <3>2
    <3>4. \A l \in 0 .. m : l \in 0 .. m - 1 \/ l = m
      BY <3>2
    <3>5. QED BY <3>1, <3>2, <3>3, <3>4
  <2> HIDE DEF Good
  <2>4. \A m \in 0 .. p.len : m \in Good
    BY <1>0, <2>2, <2>3, Upto
  <2>5. p.len \in Good
    BY <1>0, <2>4
  <2>6. QED BY <1>0, <2>5 DEF Good
<1> HIDE DEF P, iter
<1>11. SplitLong(p, i) \in Seq(Mine)
  BY <1>8, <1>9, <1>10
<1>12. ASSUME NEW s \in Seq(Mine)
       PROVE  /\ s \in Seq(Piece)
              /\ \A k \in 1 .. Len(s) : s[k].of = {i} /\ s[k].len <= MaxChars
  <2>1. Len(s) \in Nat /\ \A k \in 1 .. Len(s) : s[k] \in Mine
    BY ElementOfSeq, LenProperties
  <2>2. s \in [1 .. Len(s) -> Piece]
    BY <2>1, LenProperties
  <2>3. QED BY <2>1, <2>2, FunctionIsSeq
<1>13. QED BY <1>11, <1>12

-----------------------------------------------------------------------------
(* The chunks that are out, and what is held back. *)

MaxChunk == MaxChars + MinChars + 1     \* the budget and one fragment
Has(out, j) == \E c \in DOMAIN out : j \in out[c].of
OutOK(out) ==
  /\ out \in Seq(Piece)
  /\ \A c \in DOMAIN out : MinChars <= out[c].len /\ out[c].len <= MaxChunk

\* A chunk that goes out is in what is out, and loses nothing that was.
LEMMA OutFacts ==
  ASSUME NEW out, OutOK(out), NEW piece \in Piece, MinChars <= piece.len, piece.len <= MaxChunk
  PROVE  /\ OutOK(Append(out, piece)) /\ \A j \in Nat : Has(out, j) => Has(Append(out, piece), j)
         /\ \A j \in piece.of : Has(Append(out, piece), j)
         /\ Append(out, piece) # <<>>
<1> DEFINE new == Append(out, piece)
<1>1. out \in Seq(Piece) /\ DOMAIN out = 1 .. Len(out) /\ Len(out) \in Nat
  BY LenProperties DEF OutOK
<1>2. /\ new \in Seq(Piece) /\ DOMAIN new = 1 .. Len(out) + 1 /\ new # <<>>
      /\ \A c \in 1 .. Len(out) : new[c] = out[c]
      /\ new[Len(out) + 1] = piece
  BY <1>1, AppendProperties, LenProperties
<1>3. \A c \in DOMAIN new : c \in DOMAIN out \/ c = Len(out) + 1
  BY <1>1, <1>2
<1>4. \A c \in DOMAIN out : c \in DOMAIN new /\ new[c] = out[c]
  BY <1>1, <1>2
<1>5. Len(out) + 1 \in DOMAIN new
  BY <1>1, <1>2
<1> HIDE DEF new
<1>6. OutOK(new)
  BY <1>2, <1>3, <1>4 DEF OutOK
<1>7. \A j \in Nat : Has(out, j) => Has(new, j)
  BY <1>4 DEF Has
<1>8. \A j \in piece.of : Has(new, j)
  BY <1>2, <1>5 DEF Has
<1>9. QED BY <1>2, <1>6, <1>7, <1>8 DEF new

\* flush(): a fragment is dropped, anything else goes out.
LEMMA PushedFacts ==
  ASSUME NEW out, OutOK(out), NEW piece \in Piece, piece.len <= MaxChunk
  PROVE  /\ OutOK(Pushed(out, piece)) /\ \A j \in Nat : Has(out, j) => Has(Pushed(out, piece), j)
         /\ piece.len >= MinChars => \A j \in piece.of : Has(Pushed(out, piece), j)
         /\ Pushed(out, piece) = <<>> => out = <<>> /\ piece.len < MinChars
<1>1. piece.len \in Int /\ MinChars \in Int
  BY ChunkBounds DEF Piece
<1>2. CASE piece.len >= MinChars
  <2>1. Pushed(out, piece) = Append(out, piece)
    BY <1>2 DEF Pushed
  <2>2. QED BY <1>1, <1>2, <2>1, OutFacts
<1>3. CASE piece.len < MinChars
  <2>1. Pushed(out, piece) = out
    BY <1>1, <1>3 DEF Pushed
  <2>2. QED BY <1>1, <1>3, <2>1
<1>4. QED BY <1>1, <1>2, <1>3

\* The pieces of a paragraph go out behind what is out already, each that is no
\* fragment.
LEMMA PushedAllFacts ==
  ASSUME NEW out, OutOK(out), NEW pieces \in Seq(Piece),
         \A k \in 1 .. Len(pieces) : pieces[k].len <= MaxChunk
  PROVE  /\ OutOK(PushedAll(out, pieces))
         /\ \A j \in Nat : Has(out, j) => Has(PushedAll(out, pieces), j)
         /\ \A m \in 1 .. Len(pieces) : pieces[m].len >= MinChars =>
              \A j \in pieces[m].of : Has(PushedAll(out, pieces), j)
<1> DEFINE n == Len(pieces)
<1>1. PICK a : /\ a[0] = out /\ \A k \in 1 .. n : a[k] = Pushed(a[k - 1], pieces[k])
               /\ PushedAll(out, pieces) = a[n]
  BY PushedStates DEF OutOK
<1>2. n \in Nat /\ \A k \in 1 .. n : pieces[k] \in Piece /\ pieces[k].of \subseteq Nat
  <2>1. n \in Nat /\ \A k \in 1 .. n : pieces[k] \in Piece
    BY LenProperties, ElementOfSeq
  <2>2. \A x \in Piece : x.of \subseteq Nat
    BY DEF Piece
  <2>3. QED BY <2>1, <2>2
<1> DEFINE Out(m) == pieces[m].len >= MinChars
<1> HIDE DEF n, Out
<1> DEFINE Good(k) == /\ OutOK(a[k]) /\ \A j \in Nat : Has(out, j) => Has(a[k], j)
                      /\ \A m \in 1 .. k : Out(m) => \A j \in pieces[m].of : Has(a[k], j)
           G == {k \in 0 .. n : Good(k)}
<1>3. 0 \in G
  <2>1. \A m \in 1 .. 0 : FALSE
    OBVIOUS
  <2>2. QED BY <1>1, <1>2, <2>1
<1>4. ASSUME NEW k \in 1 .. n, k - 1 \in G PROVE k \in G
  <2>1. Good(k - 1) /\ a[k] = Pushed(a[k - 1], pieces[k]) /\ pieces[k] \in Piece
        /\ pieces[k].len <= MaxChunk
    BY <1>1, <1>2, <1>4 DEF n
  <2>2. OutOK(a[k]) /\ \A j \in Nat : Has(out, j) => Has(a[k], j)
    BY <2>1, PushedFacts
  <2>3. Out(k) => \A j \in pieces[k].of : Has(a[k], j)
    BY <2>1, PushedFacts DEF Out
  <2>4. \A j \in Nat : Has(a[k - 1], j) => Has(a[k], j)
    BY <2>1, PushedFacts
  <2>5. ASSUME NEW m \in 1 .. k, Out(m), NEW j \in pieces[m].of PROVE Has(a[k], j)
    <3>1. m = k \/ m \in 1 .. k - 1
      BY <1>2
    <3>2. m \in 1 .. n
      BY <1>2
    <3>3. j \in Nat
      BY <1>2, <3>2
    <3>4. QED BY <2>1, <2>3, <2>4, <2>5, <3>1, <3>3
  <2>6. k \in 0 .. n
    BY <1>2
  <2>7. QED BY <2>2, <2>5, <2>6
<1>5. n \in G
  <2> HIDE DEF G
  <2>1. \A k \in 0 .. n : k \in G
    BY <1>2, <1>3, <1>4, Upto
  <2>2. QED BY <1>2, <2>1
<1>6. QED BY <1>1, <1>5 DEF n, Out

-----------------------------------------------------------------------------
(* chunk(), paragraph by paragraph *)

\* The state after i paragraphs: no paragraph so far that bears text is missing,
\* and where nothing is out everything is held back, or had nothing to bear.
Hollow(note, i) == \E j \in 1 .. i : IsLong(note[j]) /\ ~Bears(note[j], j)
ChunkOK(st, note, i, joined) ==
  /\ st \in ChunkState /\ OutOK(st.out) /\ 0 <= st.buf.len /\ st.buf.len <= MaxChunk
  /\ \A j \in 1 .. i : Bears(note[j], j) =>
       Has(st.out, j) \/ (j \in st.buf.of /\ st.buf.len >= MinChars)
  /\ st.out = <<>> => \/ Hollow(note, i)
                      \/ i = 0 /\ st.buf.len = 0 /\ joined = -Break
                      \/ i > 0 /\ st.buf.len > 0 /\ st.buf.len = joined

\* How a piece, the empty piece and what has gone out are typed.
LEMMA PieceFacts ==
  ASSUME NEW len \in Int, NEW of \in SUBSET Nat
  PROVE  [len |-> len, of |-> of] \in Piece
BY DEF Piece

LEMMA NothingFacts == Nothing \in Piece /\ Nothing.len = 0 /\ Nothing.of = {}
BY PieceFacts DEF Nothing

\* The three ways a paragraph is taken.
FullCase(st, p) == st.buf.len + p.len + Break > MaxChars /\ st.buf.len >= MinChars

LEMMA TakenIs ==
  ASSUME NEW st \in ChunkState, NEW p \in Paragraph, NEW i \in Nat
  PROVE  /\ IsLong(p) =>
              Taken(st, p, i) = [out |-> PushedAll(Pushed(st.out, st.buf), SplitLong(p, i)), buf |-> Nothing]
         /\ ~IsLong(p) /\ FullCase(st, p) =>
              Taken(st, p, i) = [out |-> Append(st.out, st.buf), buf |-> [len |-> p.len, of |-> {i}]]
         /\ ~IsLong(p) /\ ~FullCase(st, p) =>
              Taken(st, p, i) =
                [out |-> st.out,
                 buf |-> [len |-> st.buf.len + p.len + (IF st.buf.len > 0 THEN Break ELSE 0),
                          of  |-> st.buf.of \cup {i}]]
BY DEF Taken, IsLong, FullCase

LEMMA PushedTyped ==
  ASSUME NEW out \in Seq(Piece), NEW piece \in Piece
  PROVE  Pushed(out, piece) \in Seq(Piece)
BY AppendProperties DEF Pushed

LEMMA PushedAllTyped ==
  ASSUME NEW out \in Seq(Piece), NEW pieces \in Seq(Piece)
  PROVE  PushedAll(out, pieces) \in Seq(Piece)
<1> DEFINE n == Len(pieces)
<1>1. PICK a : /\ a[0] = out /\ \A k \in 1 .. n : a[k] = Pushed(a[k - 1], pieces[k])
               /\ PushedAll(out, pieces) = a[n]
  BY PushedStates
<1>2. n \in Nat /\ \A k \in 1 .. n : pieces[k] \in Piece
  BY LenProperties, ElementOfSeq
<1> HIDE DEF n
<1> DEFINE G == {k \in 0 .. n : a[k] \in Seq(Piece)}
<1>3. 0 \in G
  BY <1>1, <1>2
<1>4. ASSUME NEW k \in 1 .. n, k - 1 \in G PROVE k \in G
  <2>1. a[k] \in Seq(Piece)
    BY <1>1, <1>2, <1>4, PushedTyped
  <2>2. QED BY <1>2, <2>1
<1>5. \A k \in 0 .. n : k \in G
  <2> HIDE DEF G
  <2>1. QED BY <1>2, <1>3, <1>4, Upto
<1>6. QED BY <1>1, <1>2, <1>5

LEMMA TakenTyped ==
  ASSUME NEW st \in ChunkState, NEW p \in Paragraph, NEW i \in Nat
  PROVE  Taken(st, p, i) \in ChunkState
<1>1. st.out \in Seq(Piece) /\ st.buf \in Piece /\ st.buf.len \in Int /\ st.buf.of \in SUBSET Nat
  BY DEF ChunkState, Piece
<1>2. p.len \in Int
  BY ChunkBounds
<1>3. \A out \in Seq(Piece), buf \in Piece : [out |-> out, buf |-> buf] \in ChunkState
  BY DEF ChunkState
<1>4. CASE IsLong(p)
  <2>1. SplitLong(p, i) \in Seq(Piece)
    BY <1>4, SplitFacts DEF IsLong
  <2>2. PushedAll(Pushed(st.out, st.buf), SplitLong(p, i)) \in Seq(Piece)
    BY <1>1, <2>1, PushedTyped, PushedAllTyped
  <2>3. QED BY <1>3, <1>4, <2>2, TakenIs, NothingFacts
<1>5. CASE ~IsLong(p) /\ FullCase(st, p)
  <2>1. Append(st.out, st.buf) \in Seq(Piece)
    BY <1>1, AppendProperties
  <2>2. [len |-> p.len, of |-> {i}] \in Piece
    BY <1>2, PieceFacts
  <2>3. QED BY <1>3, <1>5, <2>1, <2>2, TakenIs
<1>6. CASE ~IsLong(p) /\ ~FullCase(st, p)
  <2>1. st.buf.len + p.len + (IF st.buf.len > 0 THEN Break ELSE 0) \in Int
    BY <1>1, <1>2 DEF Break
  <2>2. st.buf.of \cup {i} \in SUBSET Nat
    BY <1>1
  <2>3. [len |-> st.buf.len + p.len + (IF st.buf.len > 0 THEN Break ELSE 0),
         of  |-> st.buf.of \cup {i}] \in Piece
    BY <2>1, <2>2, PieceFacts
  <2>4. QED BY <1>1, <1>3, <1>6, <2>3, TakenIs
<1>7. QED BY <1>4, <1>5, <1>6

\* One more paragraph leaves nothing missing.
LEMMA TakenFacts ==
  ASSUME NEW n \in Nat, NEW note \in [1 .. n -> Paragraph], NEW i \in 1 .. n,
         NEW st, NEW joined \in Int, ChunkOK(st, note, i - 1, joined)
  PROVE  ChunkOK(Taken(st, note[i], i), note, i, joined + note[i].len + Break)
<1> DEFINE p == note[i]
           t == Taken(st, p, i)
           new == joined + p.len + Break
<1>1. /\ st \in ChunkState /\ OutOK(st.out) /\ st.buf \in Piece /\ st.buf.len \in Int
      /\ 0 <= st.buf.len /\ st.buf.len <= MaxChunk /\ st.out \in Seq(Piece)
  BY DEF ChunkOK, ChunkState, Piece
<1>2. /\ p \in Paragraph /\ p.len \in Nat \ {0} /\ i \in Nat /\ i > 0
      /\ MaxChars \in Nat /\ MinChars \in Nat \ {0} /\ MinChars <= MaxChars
      /\ MaxChunk = MaxChars + MinChars + 1
  BY ChunkBounds DEF MaxChunk
<1>3. t \in ChunkState
  BY <1>1, <1>2, TakenTyped
<1>4. \A j \in 1 .. i : j = i \/ j \in 1 .. i - 1
  BY <1>2
<1>5. \A j \in 1 .. i - 1 : Bears(note[j], j) =>
        Has(st.out, j) \/ (j \in st.buf.of /\ st.buf.len >= MinChars)
  BY DEF ChunkOK
<1> HIDE DEF p, t
<1>6. CASE IsLong(p)
  <2> DEFINE mid == Pushed(st.out, st.buf)
             s == SplitLong(p, i)
  <2>1. /\ s \in Seq(Piece) /\ DOMAIN s = 1 .. Len(s)
        /\ \A k \in 1 .. Len(s) : s[k].of = {i} /\ s[k].len <= MaxChars
    BY <1>2, SplitFacts, LenProperties
  <2>2. /\ OutOK(mid) /\ \A j \in Nat : Has(st.out, j) => Has(mid, j)
        /\ st.buf.len >= MinChars => \A j \in st.buf.of : Has(mid, j)
    BY <1>1, PushedFacts
  <2>3. t.out = PushedAll(mid, s) /\ t.buf = Nothing
    <3>1. t = [out |-> PushedAll(mid, s), buf |-> Nothing]
      BY <1>1, <1>2, <1>6, TakenIs DEF t
    <3> HIDE DEF mid, s
    <3>2. QED BY <3>1
  <2> HIDE DEF mid, s
  <2>4. \A k \in 1 .. Len(s) : s[k] \in Piece /\ s[k].len <= MaxChunk
    <3>1. \A k \in 1 .. Len(s) : s[k] \in Piece
      BY <2>1, ElementOfSeq
    <3>2. \A k \in 1 .. Len(s) : s[k].len \in Int
      BY <3>1 DEF Piece
    <3>3. QED BY <1>2, <2>1, <3>1, <3>2
  <2>5. Bears(p, i) => \E k \in 1 .. Len(s) : s[k].len >= MinChars
    BY <1>6, <2>1 DEF Bears, s
  <2>6. /\ OutOK(t.out) /\ (\A j \in Nat : Has(mid, j) => Has(t.out, j))
        /\ Bears(p, i) => Has(t.out, i)
    <3>1. /\ OutOK(PushedAll(mid, s))
          /\ \A j \in Nat : Has(mid, j) => Has(PushedAll(mid, s), j)
          /\ \A k \in 1 .. Len(s) : s[k].len >= MinChars =>
               \A j \in s[k].of : Has(PushedAll(mid, s), j)
      <4>1. \A k \in 1 .. Len(s) : s[k].len <= MaxChunk
        BY <2>4
      <4>2. s \in Seq(Piece) /\ OutOK(mid)
        BY <2>1, <2>2
      <4>3. QED BY <4>1, <4>2, PushedAllFacts
    <3> DEFINE all == PushedAll(mid, s)
    <3>2. t.out = all
      BY <2>3
    <3> HIDE DEF all
    <3>3. /\ OutOK(all) /\ (\A j \in Nat : Has(mid, j) => Has(all, j))
          /\ \A k \in 1 .. Len(s) : s[k].len >= MinChars => \A j \in s[k].of : Has(all, j)
      BY <3>1 DEF all
    <3>4. Bears(p, i) => Has(all, i)
      <4>1. SUFFICES ASSUME Bears(p, i) PROVE Has(all, i)
        OBVIOUS
      <4>2. PICK k \in 1 .. Len(s) : s[k].len >= MinChars
        BY <2>5, <4>1
      <4>3. i \in s[k].of
        BY <2>1
      <4>4. QED BY <3>3, <4>2, <4>3
    <3>5. QED BY <3>2, <3>3, <3>4
  <2>7. \A j \in 1 .. i : Bears(note[j], j) => Has(t.out, j)
    BY <1>4, <1>5, <2>2, <2>6 DEF p
  <2>8. t.out = <<>> => Hollow(note, i)
    <3>1. t.out = <<>> => ~Has(t.out, i)
      BY DEF Has
    <3>2. i \in 1 .. i
      BY <1>2
    <3>3. QED BY <1>6, <2>6, <3>1, <3>2 DEF Hollow, p
  <2>9. 0 <= t.buf.len /\ t.buf.len <= MaxChunk
    BY <1>2, <2>3, NothingFacts
  <2>10. QED BY <1>3, <2>6, <2>7, <2>8, <2>9 DEF ChunkOK, p, t
<1>7. CASE ~IsLong(p) /\ FullCase(st, p)
  <2>1. t.out = Append(st.out, st.buf) /\ t.buf = [len |-> p.len, of |-> {i}]
    <3>1. t = [out |-> Append(st.out, st.buf), buf |-> [len |-> p.len, of |-> {i}]]
      BY <1>1, <1>2, <1>7, TakenIs DEF t
    <3>2. QED BY <3>1
  <2>2. st.buf.len >= MinChars
    BY <1>7 DEF FullCase
  <2>3. /\ OutOK(t.out) /\ \A j \in Nat : Has(st.out, j) => Has(t.out, j)
        /\ \A j \in st.buf.of : Has(t.out, j)
        /\ t.out # <<>>
    BY <1>1, <1>2, <2>1, <2>2, OutFacts
  <2>4. 0 <= t.buf.len /\ t.buf.len <= MaxChunk /\ i \in t.buf.of /\ t.buf.len = p.len
    BY <1>2, <1>7, <2>1 DEF IsLong
  <2>5. \A j \in 1 .. i : Bears(note[j], j) =>
          Has(t.out, j) \/ (j \in t.buf.of /\ t.buf.len >= MinChars)
    BY <1>4, <1>5, <1>7, <2>3, <2>4 DEF p, Bears
  <2>6. QED BY <1>3, <2>3, <2>4, <2>5 DEF ChunkOK, p, t
<1>8. CASE ~IsLong(p) /\ ~FullCase(st, p)
  <2> DEFINE l == st.buf.len + p.len + (IF st.buf.len > 0 THEN Break ELSE 0)
  <2>1. t.out = st.out /\ t.buf.len = l /\ t.buf.of = st.buf.of \cup {i}
    <3>1. t = [out |-> st.out, buf |-> [len |-> l, of |-> st.buf.of \cup {i}]]
      BY <1>1, <1>2, <1>8, TakenIs DEF t
    <3> HIDE DEF l
    <3>2. QED BY <3>1
  <2>2. /\ l \in Int /\ 0 < l /\ l <= MaxChunk /\ p.len <= l /\ st.buf.len <= l
        /\ st.buf.len > 0 => l = st.buf.len + p.len + Break
        /\ st.buf.len = 0 => l = p.len
    <3>1. p.len <= MaxChars /\ (st.buf.len + p.len + 2 <= MaxChars \/ st.buf.len < MinChars)
      BY <1>1, <1>2, <1>8 DEF IsLong, FullCase, Break
    <3>2. CASE st.buf.len = 0
      <4>1. l = p.len
        BY <1>2, <3>2
      <4>2. QED BY <1>2, <3>1, <3>2, <4>1
    <3>3. CASE st.buf.len > 0
      <4>1. l = st.buf.len + p.len + 2
        BY <3>3 DEF Break
      <4> HIDE DEF l
      <4>2. /\ st.buf.len \in Int /\ p.len \in Nat \ {0} /\ st.buf.len > 0
            /\ p.len <= MaxChars
            /\ st.buf.len + p.len + 2 <= MaxChars \/ st.buf.len < MinChars
        BY <1>1, <1>2, <3>1, <3>3
      <4>3. /\ l \in Int /\ 0 < l /\ l <= MaxChunk /\ p.len <= l
            /\ st.buf.len <= l
        <5>1. \A x \in Int, y \in Nat \ {0}, top \in Nat, low \in Nat \ {0} :
                x > 0 /\ y <= top /\ (x + y + 2 <= top \/ x < low) =>
                  LET z == x + y + 2
                  IN  z \in Int /\ 0 < z /\ z <= top + low + 1 /\ y <= z /\ x <= z
          OBVIOUS
        <5>2. MaxChars \in Nat /\ MinChars \in Nat \ {0}
          BY <1>2
        <5> DEFINE z == st.buf.len + p.len + 2
        <5>3. /\ z \in Int /\ 0 < z /\ z <= MaxChars + MinChars + 1
              /\ p.len <= z /\ st.buf.len <= z
          BY ONLY <4>2, <5>1, <5>2
        <5>4. l = z /\ MaxChunk = MaxChars + MinChars + 1
          BY <1>2, <4>1
        <5> HIDE DEF z
        <5>5. QED BY ONLY <5>3, <5>4
      <4>4. l = st.buf.len + p.len + Break
        BY <4>1 DEF Break
      <4>5. st.buf.len # 0
        BY <4>2
      <4>6. QED BY <4>3, <4>4, <4>5
    <3>4. QED BY <1>1, <3>2, <3>3
  <2> HIDE DEF l
  <2>3. \A j \in 1 .. i : Bears(note[j], j) =>
          Has(t.out, j) \/ (j \in t.buf.of /\ t.buf.len >= MinChars)
    <3>1. l \in Int
      BY <1>1, <1>2, <2>1, <1>3 DEF ChunkState, Piece
    <3>2. ASSUME NEW j \in 1 .. i - 1, Bears(note[j], j)
          PROVE  Has(t.out, j) \/ (j \in t.buf.of /\ t.buf.len >= MinChars)
      <4>1. Has(st.out, j) \/ (j \in st.buf.of /\ st.buf.len >= MinChars)
        BY <1>5, <3>2
      <4>2. CASE Has(st.out, j)
        BY <2>1, <4>2
      <4>3. CASE j \in st.buf.of /\ st.buf.len >= MinChars
        <5>1. st.buf.len <= l
          BY <2>2
        <5>2. l >= MinChars
          BY ONLY <1>1, <1>2, <3>1, <4>3, <5>1
        <5>3. QED BY <2>1, <4>3, <5>2
      <4>4. QED BY <4>1, <4>2, <4>3
    <3>3. Bears(p, i) => i \in t.buf.of /\ t.buf.len >= MinChars
      BY <1>2, <1>8, <2>1, <2>2, <3>1 DEF Bears
    <3>4. QED BY <1>4, <3>2, <3>3 DEF p
  <2>4. t.out = <<>> => Hollow(note, i) \/ (t.buf.len > 0 /\ t.buf.len = new)
    <3>0. Hollow(note, i - 1) => Hollow(note, i)
      BY <1>2 DEF Hollow
    <3>1. st.out = <<>> => \/ Hollow(note, i - 1)
                           \/ st.buf.len = 0 /\ joined = -Break
                           \/ st.buf.len > 0 /\ st.buf.len = joined
      BY DEF ChunkOK
    <3>2. QED BY <1>1, <1>2, <2>1, <2>2, <3>0, <3>1 DEF Break
  <2>5. OutOK(t.out) /\ 0 <= t.buf.len /\ t.buf.len <= MaxChunk
    <3>1. 0 <= l
      BY <2>2
    <3>2. QED BY <1>1, <2>1, <2>2, <3>1
  <2>6. ChunkOK(t, note, i, new)
    BY <1>2, <1>3, <2>3, <2>4, <2>5 DEF ChunkOK
  <2>7. QED BY <2>6 DEF p, t
<1>9. QED BY <1>6, <1>7, <1>8

\* The rounds of chunk(), and the lengths of a note, paragraph by paragraph.
LEMMA TakenStates ==
  ASSUME NEW n \in Nat, NEW note \in [1 .. n -> Paragraph]
  PROVE  \E a : /\ a[0] = [out |-> <<>>, buf |-> Nothing]
                /\ \A k \in 1 .. n : a[k] = Taken(a[k - 1], note[k], k)
                /\ AtEnd(note) = a[n]
<1> DEFINE base == [out |-> <<>>, buf |-> Nothing]
           F == [q \in ChunkState \X (1 .. n) |-> Taken(q[1], note[q[2]], q[2])]
           at == [i \in 1 .. n |-> i]
           P(g) == g = [s \in SUBSET (1 .. n) |->
             IF s = {} THEN base ELSE Taken(g[s \ {Max(s)}], note[at[Max(s)]], at[Max(s)])]
           iter == CHOOSE g : P(g)
           a == [k \in 0 .. n |-> iter[1 .. k]]
<1>1. base \in ChunkState
  <2>1. <<>> \in Seq(Piece)
    OBVIOUS
  <2>2. QED BY <2>1, NothingFacts DEF ChunkState
<1>2. ASSUME NEW x \in ChunkState, NEW i \in 1 .. n
      PROVE  F[<<x, i>>] = Taken(x, note[i], i) /\ F[<<x, i>>] \in ChunkState
  <2>1. F[<<x, i>>] = Taken(x, note[i], i)
    OBVIOUS
  <2>2. note[i] \in Paragraph /\ i \in Nat
    OBVIOUS
  <2>3. Taken(x, note[i], i) \in ChunkState
    BY <2>2, TakenTyped
  <2>4. QED BY <2>1, <2>3
<1>3. PICK h : Folded(h, F, base, n) /\ \A s \in SUBSET (1 .. n) : h[s] \in ChunkState
  <2> HIDE DEF F, base
  <2>1. QED BY <1>1, <1>2, FoldExists
<1>4. P(h)
  <2>1. ASSUME NEW s \in SUBSET (1 .. n), s # {}
        PROVE  F[<<h[s \ {Max(s)}], Max(s)>>] = Taken(h[s \ {Max(s)}], note[at[Max(s)]], at[Max(s)])
    <3> HIDE DEF F
    <3>1. s \ {Max(s)} \in SUBSET (1 .. n) /\ Max(s) \in 1 .. n
      BY <2>1, LastOfPart
    <3>2. at[Max(s)] = Max(s)
      BY <3>1
    <3>3. QED BY <1>2, <1>3, <3>1, <3>2
  <2> HIDE DEF F, base, at
  <2>2. QED BY <1>3, <2>1 DEF Folded
<1>5. P(iter)
  <2> HIDE DEF P
  <2>1. QED BY <1>4
<1>6. AtEnd(note) = iter[1 .. n]
  <2>1. DOMAIN note = 1 .. n /\ DOMAIN at = 1 .. n
    OBVIOUS
  <2> HIDE DEF base
  <2>2. QED BY <2>1 DEF AtEnd, FoldLeftDomain, FoldLeft, MapThenFoldSet, base
<1> HIDE DEF iter, base
<1>7. a[0] = base
  <2>1. 1 .. 0 = {}
    OBVIOUS
  <2>2. iter[{}] = base
    BY <1>5
  <2>3. QED BY <2>1, <2>2
<1>8. ASSUME NEW k \in 1 .. n PROVE a[k] = Taken(a[k - 1], note[k], k)
  <2>1. 1 .. k \in SUBSET (1 .. n) /\ 1 .. k # {} /\ k - 1 \in 0 .. n /\ k \in 0 .. n
    BY FirstK
  <2>2. iter[1 .. k] =
          Taken(iter[(1 .. k) \ {Max(1 .. k)}], note[at[Max(1 .. k)]], at[Max(1 .. k)])
    BY <1>5, <2>1
  <2>3. Max(1 .. k) = k /\ (1 .. k) \ {k} = 1 .. k - 1 /\ at[k] = k
    BY FirstK
  <2>4. iter[1 .. k] = Taken(iter[1 .. k - 1], note[k], k)
    BY <2>2, <2>3
  <2>5. QED BY <2>1, <2>4
<1>9. AtEnd(note) = a[n]
  BY <1>6
<1> HIDE DEF a
<1>10. QED BY <1>7, <1>8, <1>9 DEF base

LEMMA JoinedStates ==
  ASSUME NEW n \in Nat, NEW note \in [1 .. n -> Paragraph]
  PROVE  \E b : /\ b[0] = -Break
                /\ \A k \in 1 .. n : b[k] = b[k - 1] + note[k].len + Break
                /\ Joined(note) = b[n]
<1> DEFINE F == [q \in Int \X (1 .. n) |-> q[1] + note[q[2]].len + Break]
           P(g) == g = [s \in SUBSET (1 .. n) |->
             IF s = {} THEN -Break ELSE g[s \ {Max(s)}] + note[Max(s)].len + Break]
           iter == CHOOSE g : P(g)
           b == [k \in 0 .. n |-> iter[1 .. k]]
<1>1. -Break \in Int
  BY DEF Break
<1>2. ASSUME NEW x \in Int, NEW i \in 1 .. n
      PROVE  F[<<x, i>>] = x + note[i].len + Break /\ F[<<x, i>>] \in Int
  <2>1. F[<<x, i>>] = x + note[i].len + Break
    OBVIOUS
  <2>2. note[i] \in Paragraph
    OBVIOUS
  <2>3. note[i].len \in Int
    BY <2>2, ChunkBounds
  <2>4. x + note[i].len + Break \in Int
    BY <2>3 DEF Break
  <2>5. QED BY <2>1, <2>4
<1>3. PICK h : Folded(h, F, -Break, n) /\ \A s \in SUBSET (1 .. n) : h[s] \in Int
  <2> HIDE DEF F
  <2>1. QED BY <1>1, <1>2, FoldExists
<1>4. P(h)
  <2>1. ASSUME NEW s \in SUBSET (1 .. n), s # {}
        PROVE  F[<<h[s \ {Max(s)}], Max(s)>>] = h[s \ {Max(s)}] + note[Max(s)].len + Break
    <3> HIDE DEF F
    <3>1. s \ {Max(s)} \in SUBSET (1 .. n) /\ Max(s) \in 1 .. n
      BY <2>1, LastOfPart
    <3>2. QED BY <1>2, <1>3, <3>1
  <2> HIDE DEF F
  <2>2. QED BY <1>3, <2>1 DEF Folded
<1>5. P(iter)
  <2> HIDE DEF P
  <2>1. QED BY <1>4
<1>6. Joined(note) = iter[1 .. n]
  <2>1. DOMAIN note = 1 .. n
    OBVIOUS
  <2>2. QED BY <2>1 DEF Joined, FoldLeft, MapThenFoldSet
<1> HIDE DEF iter
<1>7. b[0] = -Break
  <2>1. 1 .. 0 = {}
    OBVIOUS
  <2>2. iter[{}] = -Break
    BY <1>5
  <2>3. QED BY <2>1, <2>2
<1>8. ASSUME NEW k \in 1 .. n PROVE b[k] = b[k - 1] + note[k].len + Break
  <2>1. 1 .. k \in SUBSET (1 .. n) /\ 1 .. k # {} /\ k - 1 \in 0 .. n /\ k \in 0 .. n
    BY FirstK
  <2>2. iter[1 .. k] = iter[(1 .. k) \ {Max(1 .. k)}] + note[Max(1 .. k)].len + Break
    BY <1>5, <2>1
  <2>3. Max(1 .. k) = k /\ (1 .. k) \ {k} = 1 .. k - 1
    BY FirstK
  <2>4. iter[1 .. k] = iter[1 .. k - 1] + note[k].len + Break
    BY <2>2, <2>3
  <2>5. QED BY <2>1, <2>4
<1>9. Joined(note) = b[n]
  BY <1>6
<1> HIDE DEF b
<1>10. QED BY <1>7, <1>8, <1>9

\* After its last paragraph no paragraph of a note is missing.
LEMMA EndOK ==
  ASSUME NEW n \in Nat, NEW note \in [1 .. n -> Paragraph]
  PROVE  ChunkOK(AtEnd(note), note, n, Joined(note)) /\ Joined(note) \in Int
<1>1. PICK a : /\ a[0] = [out |-> <<>>, buf |-> Nothing]
               /\ \A k \in 1 .. n : a[k] = Taken(a[k - 1], note[k], k)
               /\ AtEnd(note) = a[n]
  BY TakenStates
<1>2. PICK b : /\ b[0] = -Break
               /\ \A k \in 1 .. n : b[k] = b[k - 1] + note[k].len + Break
               /\ Joined(note) = b[n]
  BY JoinedStates
<1> DEFINE G == {k \in 0 .. n : b[k] \in Int /\ ChunkOK(a[k], note, k, b[k])}
<1>3. 0 \in G
  <2>1. a[0] \in ChunkState /\ a[0].out = <<>> /\ a[0].buf.len = 0
    <3>1. <<>> \in Seq(Piece)
      OBVIOUS
    <3>2. QED BY <1>1, <3>1, NothingFacts DEF ChunkState
  <2>2. OutOK(a[0].out)
    <3>1. <<>> \in Seq(Piece) /\ DOMAIN <<>> = {}
      OBVIOUS
    <3>2. QED BY <2>1, <3>1 DEF OutOK
  <2>3. 0 <= MaxChunk /\ -Break \in Int
    BY ChunkBounds DEF MaxChunk, Break
  <2>4. \A j \in 1 .. 0 : FALSE
    OBVIOUS
  <2>5. ChunkOK(a[0], note, 0, b[0])
    BY <1>2, <2>1, <2>2, <2>3, <2>4 DEF ChunkOK
  <2>6. QED BY <1>2, <2>3, <2>5
<1>4. ASSUME NEW k \in 1 .. n, k - 1 \in G PROVE k \in G
  <2>1. b[k - 1] \in Int /\ ChunkOK(a[k - 1], note, k - 1, b[k - 1])
    BY <1>4
  <2>2. ChunkOK(a[k], note, k, b[k])
    BY <1>1, <1>2, <2>1, TakenFacts
  <2>3. note[k] \in Paragraph
    OBVIOUS
  <2>4. b[k] \in Int
    BY <1>2, <2>1, <2>3, ChunkBounds DEF Break
  <2>5. QED BY <2>2, <2>4
<1>5. \A k \in 0 .. n : k \in G
  <2> HIDE DEF G
  <2>1. QED BY <1>3, <1>4, Upto
<1>6. n \in G
  <2> HIDE DEF G
  <2>1. QED BY <1>5
<1>7. QED BY <1>1, <1>2, <1>6

\* chunksForVault(): a note that is all fragments is one chunk, and so every note is
\* covered.
LEMMA NoteCovered ==
  ASSUME NEW note \in Notes
  PROVE  Covered(note)
<1>1. PICK n \in 1 .. Paragraphs : note \in [1 .. n -> Paragraph]
  BY DEF Notes, Paragraph
<1>2. n \in Nat \ {0} /\ DOMAIN note = 1 .. n
  BY <1>1, ChunksAssumption
<1> DEFINE st == AtEnd(note)
           chunks == ChunksOf(note)
<1>3. ChunkOK(st, note, n, Joined(note)) /\ Joined(note) \in Int
  BY <1>1, <1>2, EndOK
<1>4. OutOK(st.out) /\ st.buf \in Piece /\ st.buf.len \in Int /\ st.buf.len <= MaxChunk
  BY <1>3 DEF ChunkOK, ChunkState, Piece
<1>5. /\ OutOK(Chunk(note)) /\ \A j \in Nat : Has(st.out, j) => Has(Chunk(note), j)
      /\ st.buf.len >= MinChars => \A j \in st.buf.of : Has(Chunk(note), j)
      /\ Chunk(note) = <<>> => st.out = <<>> /\ st.buf.len < MinChars
  BY <1>4, PushedFacts DEF Chunk
<1>6. note # <<>>
  <2>1. 1 \in DOMAIN note
    BY <1>2
  <2>2. QED BY <2>1
<1> HIDE DEF st
<1> DEFINE InSome(i) == \E c \in DOMAIN chunks : i \in chunks[c].of
<1>7. CASE Chunk(note) # <<>>
  <2>1. chunks = Chunk(note)
    BY <1>7 DEF ChunksOf
  <2>2. \A i \in DOMAIN note : Bears(note[i], i) => InSome(i)
    BY <1>2, <1>3, <1>5, <2>1 DEF ChunkOK, Has
  <2>3. \A c \in DOMAIN chunks : MinChars <= chunks[c].len /\ chunks[c].len <= MaxChars + MinChars + 1
                                 /\ chunks[c].len \in Int
    <3>1. \A c \in DOMAIN chunks : MinChars <= chunks[c].len /\ chunks[c].len <= MaxChunk
      BY <1>5, <2>1 DEF OutOK
    <3>2. \A c \in DOMAIN chunks : chunks[c] \in Piece
      BY <1>5, <2>1, ElementOfSeq, LenProperties DEF OutOK
    <3>3. QED BY <3>1, <3>2 DEF MaxChunk, Piece
  <2>4. \A c \in DOMAIN chunks : ~(chunks[c].len < MinChars)
    BY <2>3, ChunkBounds
  <2>5. chunks # <<>>
    BY <1>7, <2>1
  <2> HIDE DEF chunks
  <2>6. QED BY <2>2, <2>3, <2>4, <2>5 DEF Covered, chunks
<1>8. CASE Chunk(note) = <<>>
  <2>1. chunks = <<Whole(note)>>
    BY <1>6, <1>8 DEF ChunksOf
  <2>2. DOMAIN chunks = {1} /\ chunks[1] = Whole(note) /\ Len(chunks) = 1 /\ chunks # <<>>
    BY <2>1
  <2>3. Hollow(note, n) \/ (Joined(note) = st.buf.len /\ st.buf.len < MinChars)
    BY <1>2, <1>3, <1>5, <1>8 DEF ChunkOK
  <2>4. Whole(note).len = Joined(note) /\ Whole(note).of = DOMAIN note
    BY DEF Whole
  <2>5. \/ Whole(note).len <= MaxChars + MinChars + 1
        \/ \E i \in DOMAIN note : IsLong(note[i]) /\ ~Bears(note[i], i)
    BY <1>2, <1>4, <2>3, <2>4, ChunkBounds DEF Hollow
  <2>6. \A i \in DOMAIN note : InSome(i)
    BY <2>2, <2>4
  <2> HIDE DEF chunks
  <2>7. QED BY <2>2, <2>4, <2>5, <2>6 DEF Covered, chunks
<1>9. QED BY <1>7, <1>8

\* vault-chunks.mjs:114-130: whatever its paragraphs and wherever they are cut, a note
\* has a chunk, no paragraph that bears text is in no chunk, and no chunk outgrows a
\* vector's metadata unless a long paragraph is white space but for fragments.
THEOREM TextStaysFound == Spec => []TextIsFound
<1>1. TextIsFound
  BY NoteCovered DEF TextIsFound
<1>2. QED BY <1>1, PTL
=============================================================================
