------------------------- MODULE CicdCollector_proofs --------------------------
(***************************************************************************)
(* For any set of runs and signals, any period, window and bounds: where   *)
(* the two beats do not run at the same time, neither loses what the other *)
(* saved, nothing is written or told twice but what was cut off, and no    *)
(* run leaves the window unseen if the window is wide enough.              *)
(***************************************************************************)
EXTENDS CicdCollector, TLAPS

Poll == [at : {"idle", "scanning", "saving", "posting", "marking"}, doc : Doc,
         says : SUBSET Key, whole : BOOLEAN]
Beat == [at : {"idle", "posting", "saving"}, doc : Doc, says : SUBSET Signal, whole : {TRUE}]

\* A poll that skipped a repository counts as lost once it completes.
Shape ==
  /\ TypeOK /\ poll \in Poll /\ beat \in Beat
  /\ ~poll.whole => poll.at # "idle" /\ lost < MaxLost

Apart == poll.at = "idle" \/ beat.at = "idle"

\* The beat at work carries the other's part as it stands in the document.
Carried ==
  ~blind =>
    /\ saved = [poll |-> PollPart(kv), vitals |-> VitalsPart(kv)]
    /\ poll.at # "idle" => VitalsPart(poll.doc) = VitalsPart(kv)
    /\ beat.at # "idle" => PollPart(beat.doc) = PollPart(kv)

\* What was told today is on record, or is about to be.
OnRecord(s) ==
  /\ cards[s] > 0 => s \in retold \/ kv.said[s] = day \/ (beat.at = "saving" /\ s \in beat.says)
  /\ cards[s] > 1 => s \in retold
  /\ beat.at = "posting" /\ s \in beat.says => cards[s] = 0 \/ s \in retold
  /\ beat.at # "idle" /\ (s \in beat.says \/ kv.said[s] = day) => beat.doc.said[s] = day \/ s \in retold
  /\ poll.at # "idle" /\ kv.said[s] = day => poll.doc.said[s] = day \/ s \in retold
SaidByNow(doc, s) == doc.said[s] <= day
DayInv ==
  \A s \in Signal :
    OnRecord(s) /\ SaidByNow(kv, s) /\ SaidByNow(poll.doc, s) /\ SaidByNow(beat.doc, s)

\* An attempt that has a row, or a post, is on record, or is about to be.
RowMarked(k) ==
  /\ rows[k] > 1 => k \in torn
  /\ rows[k] > 0 => k \in torn \/ k \in kv.seen \/ (poll.at = "saving" /\ k \in poll.doc.seen)
PostMarked(k) ==
  /\ posts[k] > 1 => k \in torn
  /\ posts[k] > 0 => k \in torn \/ k \in kv.alerted \/ (poll.at = "marking" /\ k \in poll.says)
  /\ poll.at \in {"saving", "posting"} /\ k \in poll.says => k \notin poll.doc.alerted
Holds(doc, k) ==
  /\ k \in kv.seen => k \in torn \/ k \in doc.seen
  /\ k \in kv.alerted => k \in torn \/ k \in doc.alerted
AttemptInv ==
  \A k \in Key :
    /\ RowMarked(k) /\ PostMarked(k)
    /\ poll.at # "idle" => Holds(poll.doc, k)
    /\ beat.at # "idle" => Holds(beat.doc, k)

\* The clock and the last poll's tick.
ClockInv ==
  /\ polled = Never => now = 0
  /\ polled # Never => polled % Period = 0 /\ polled <= now /\ now <= polled + Period

\* A run that has begun has a creation time, and completes within Slowest.
RunInv ==
  \A r \in Run :
    /\ runs[r].verdict # "none" => runs[r].created \in Nat
    /\ runs[r].verdict \in Done =>
         /\ runs[r].finished \in Nat /\ runs[r].finished <= now
         /\ runs[r].finished <= runs[r].created + Slowest

\* What a document remembers was done, and its cursor is a poll of the past.
Earned(doc) ==
  /\ \A k \in doc.seen : rows[k] > 0
  /\ \A k \in doc.alerted : posts[k] > 0
  /\ doc.lastPoll <= polled
DocInv ==
  /\ Earned(kv) /\ Earned(poll.doc) /\ Earned(beat.doc)
  /\ poll.at = "marking" => \A k \in poll.says : posts[k] > 0
  /\ poll.at = "scanning" => poll.doc.lastPoll \in {Never, kv.lastPoll}
  /\ beat.at # "idle" => beat.doc.lastPoll \in {Never, kv.lastPoll}

Covered(r) ==
  /\ rows[KeyOf(r)] > 0
  /\ runs[r].verdict = "failure" => posts[KeyOf(r)] > 0

\* The polls that failed, the one at work counted among them.
Behind == IF poll.at = "idle" THEN lost ELSE lost + 1
Lag(n) == n * Period

\* Every run that completed before the last poll that got through is covered; so
\* is every run outside the window until a poll moves it; and a poll that has
\* listed everything has covered what completed before it, or is about to.
InTime(r) == runs[r].finished < polled - Lag(Behind) => Covered(r)
OutOfIt(r) == poll.at \in {"idle", "scanning", "saving"} /\ ~InWindow(r, kv) => Covered(r)
Handled(r) ==
  /\ rows[KeyOf(r)] > 0
  /\ runs[r].verdict = "failure" => posts[KeyOf(r)] > 0 \/ KeyOf(r) \in poll.says
Listing(r) ==
  poll.at \in {"saving", "posting", "marking"} /\ poll.whole /\ runs[r].finished < polled => Handled(r)
CoverInv ==
  \A r \in Run : runs[r].verdict \in Done => InTime(r) /\ OutOfIt(r) /\ Listing(r)

-----------------------------------------------------------------------------
(* What the operators of the model return. *)

LEMMA BumpFacts ==
  ASSUME NEW X, NEW f \in [X -> 0 .. 2], NEW S
  PROVE  /\ Bump(f, S) \in [X -> 0 .. 2]
         /\ \A x \in X : /\ f[x] <= Bump(f, S)[x]
                         /\ x \notin S => Bump(f, S)[x] = f[x]
                         /\ x \in S => Bump(f, S)[x] > 0
                         /\ f[x] = 0 => Bump(f, S)[x] <= 1
BY DEF Bump

LEMMA KeyFacts ==
  ASSUME TypeOK, NEW rs \in SUBSET Run
  PROVE  KeysIn(rs) \subseteq Key /\ \A r \in rs : KeyOf(r) \in KeysIn(rs)
BY DEF TypeOK, KeysIn, KeyOf, Key

LEMMA DocFacts ==
  /\ EmptyDoc \in Doc /\ Idle \in Poll /\ Idle \in Beat
  /\ Idle.at = "idle" /\ Idle.says = {} /\ Idle.whole /\ Idle.doc = EmptyDoc
<1>1. [s \in Signal |-> 0] \in [Signal -> 0 .. MaxDay]
  BY CollectorAssumption
<1>2. EmptyDoc \in Doc
  BY <1>1 DEF EmptyDoc, Doc
<1>3. QED BY <1>2 DEF Idle, Poll, Beat

\* The document a beat starts from, and what it forgets with it.
LEMMA ReadFacts ==
  ASSUME TypeOK, NEW doc \in Read, Forgets(doc)
  PROVE  /\ doc \in Doc /\ (doc = kv \/ doc = EmptyDoc)
         /\ torn' \subseteq Key /\ retold' \subseteq Signal /\ blind' \in BOOLEAN
         /\ torn \subseteq torn' /\ retold \subseteq retold' /\ (~blind' => ~blind /\ doc = kv)
         /\ \A k \in kv.seen \cup kv.alerted : doc = kv \/ k \in torn'
         /\ \A s \in Signal : kv.said[s] = day => doc = kv \/ s \in retold'
<1>1. doc \in Doc /\ (doc = kv \/ doc = EmptyDoc)
  BY DocFacts DEF Read, TypeOK
<1>2. kv.seen \subseteq Key /\ kv.alerted \subseteq Key
  BY DEF TypeOK, Doc
<1>3. QED BY <1>1, <1>2 DEF Forgets, TypeOK

\* The scan: a row for what was not seen, and the cursor at the poll's tick.
LEMMA ScanFacts ==
  ASSUME Shape, PollScans
  PROVE  \E rs \in SUBSET Listed(poll.doc) :
           /\ rs \subseteq Run /\ KeysIn(rs) \subseteq Key
           /\ rows' = Bump(rows, KeysIn(rs) \ poll.doc.seen)
           /\ poll' \in Poll /\ poll'.at = "saving"
           /\ poll'.doc.seen = poll.doc.seen \cup KeysIn(rs)
           /\ poll'.doc.alerted = poll.doc.alerted
           /\ poll'.doc.lastPoll = polled
           /\ poll'.doc.said = poll.doc.said /\ poll'.doc.active = poll.doc.active
           /\ poll'.says = KeysIn({r \in rs : runs[r].verdict = "failure"}) \ poll.doc.alerted
           /\ poll'.whole = (rs = Listed(poll.doc)) /\ (~poll'.whole => lost < MaxLost)
<1>1. PICK rs \in SUBSET Listed(poll.doc) : (rs = Listed(poll.doc) \/ lost < MaxLost) /\ Scanned(rs)
  BY DEF PollScans
<1>2. rs \subseteq Run
  BY <1>1 DEF Listed
<1>3. KeysIn(rs) \subseteq Key /\ KeysIn({r \in rs : runs[r].verdict = "failure"}) \subseteq Key
  BY <1>2, KeyFacts DEF Shape
<1>4. PICK doc : doc = [poll.doc EXCEPT !.seen = @ \cup KeysIn(rs), !.lastPoll = polled]
  OBVIOUS
<1>5. poll.doc \in Doc /\ polled \in {Never} \cup 0 .. MaxNow
  BY DEF Shape, TypeOK
<1>6. /\ doc.seen = poll.doc.seen \cup KeysIn(rs) /\ doc.alerted = poll.doc.alerted
      /\ doc.lastPoll = polled /\ doc.said = poll.doc.said /\ doc.active = poll.doc.active
  BY <1>4, <1>5 DEF Doc
<1>7. doc \in Doc
  BY <1>3, <1>4, <1>5 DEF Doc
<1>8. /\ rows' = Bump(rows, KeysIn(rs) \ poll.doc.seen)
      /\ poll' = [at |-> "saving", doc |-> doc,
                  says |-> KeysIn({r \in rs : runs[r].verdict = "failure"}) \ poll.doc.alerted,
                  whole |-> rs = Listed(poll.doc)]
  BY <1>1, <1>4 DEF Scanned
<1>9. poll' \in Poll
  BY <1>3, <1>7, <1>8 DEF Poll
<1>10. QED BY <1>1, <1>2, <1>3, <1>6, <1>8, <1>9

\* The marks of the poll's posts.
LEMMA MarkFacts ==
  ASSUME Shape, PollMarks
  PROVE  /\ kv' \in Doc
         /\ kv'.alerted = poll.doc.alerted \cup poll.says
         /\ kv'.seen = poll.doc.seen /\ kv'.lastPoll = poll.doc.lastPoll
         /\ kv'.said = poll.doc.said /\ kv'.active = poll.doc.active
         /\ saved' = [saved EXCEPT !.poll = PollPart(kv')]
<1>1. /\ kv' = [poll.doc EXCEPT !.alerted = @ \cup poll.says]
      /\ saved' = [saved EXCEPT !.poll = PollPart(kv')]
  BY DEF PollMarks, SaveBy
<1>2. poll.doc \in Doc /\ poll.says \subseteq Key
  BY DEF Shape, TypeOK
<1>3. QED BY <1>1, <1>2 DEF Doc

\* What the gate leaves in the vitals beat's document.
LEMMA GateFacts ==
  ASSUME TypeOK, NEW doc \in Doc, NEW breach, NEW clear, breach \subseteq Signal
  PROVE  /\ Gated(doc, breach, clear) \in Doc
         /\ Gated(doc, breach, clear).seen = doc.seen
         /\ Gated(doc, breach, clear).alerted = doc.alerted
         /\ Gated(doc, breach, clear).lastPoll = doc.lastPoll
         /\ \A s \in Signal :
              Gated(doc, breach, clear).said[s] = IF s \in breach THEN day ELSE doc.said[s]
<1> DEFINE said   == [s \in Signal |-> IF s \in breach THEN day ELSE doc.said[s]]
           active == (doc.active \cup breach) \ clear
<1>1. day \in 0 .. MaxDay
  BY CollectorAssumption DEF TypeOK
<1>2. said \in [Signal -> 0 .. MaxDay] /\ active \subseteq Signal
  BY <1>1 DEF Doc
<1>3. Gated(doc, breach, clear) = [doc EXCEPT !.said = said, !.active = active]
  BY DEF Gated
<1> HIDE DEF said, active
<1>4. /\ Gated(doc, breach, clear) \in Doc
      /\ Gated(doc, breach, clear).said = said
      /\ Gated(doc, breach, clear).seen = doc.seen
      /\ Gated(doc, breach, clear).alerted = doc.alerted
      /\ Gated(doc, breach, clear).lastPoll = doc.lastPoll
  BY <1>2, <1>3 DEF Doc
<1>5. QED BY <1>4 DEF said

\* A poll that ends is counted.
LEMMA EndFacts ==
  ASSUME Shape, Completes \/ \E keys \in SUBSET Key : Fails(keys)
  PROVE  poll' = Idle /\ lost' \in 0 .. MaxLost
<1>1. CASE Completes
  BY <1>1, CollectorAssumption DEF Completes, Shape, TypeOK, Poll
<1>2. CASE \E keys \in SUBSET Key : Fails(keys)
  BY <1>2, CollectorAssumption DEF Fails, Shape, TypeOK
<1>3. QED BY <1>1, <1>2

-----------------------------------------------------------------------------
(* Type correctness. *)

LEMMA GitHubTyped ==
  ASSUME TypeOK, NEW r \in Run, RunCreated(r) \/ RunFinishes(r) \/ RunAgain(r)
  PROVE  /\ runs' \in [Run -> [created : {Never} \cup 0 .. MaxNow, attempt : Attempt,
                               verdict : Done \cup {"none", "pending"},
                               finished : {Never} \cup 0 .. MaxNow]]
         /\ \A q \in Run \ {r} : runs'[q] = runs[q]
<1> DEFINE R == [created : {Never} \cup 0 .. MaxNow, attempt : Attempt,
                 verdict : Done \cup {"none", "pending"}, finished : {Never} \cup 0 .. MaxNow]
<1>1. runs \in [Run -> R] /\ now \in 0 .. MaxNow /\ 1 \in Attempt
  BY CollectorAssumption DEF TypeOK, Attempt
<1>2. CASE RunCreated(r)
  <2>1. [created |-> now, attempt |-> 1, verdict |-> "pending", finished |-> Never] \in R
    BY <1>1
  <2>2. QED BY <1>1, <1>2, <2>1 DEF RunCreated
<1>3. CASE RunFinishes(r)
  <2>1. PICK v \in Done : runs' = [runs EXCEPT ![r].verdict = v, ![r].finished = now]
    BY <1>3 DEF RunFinishes
  <2>2. QED BY <1>1, <2>1
<1>4. CASE RunAgain(r)
  <2>1. runs[r].attempt + 1 \in Attempt
    BY <1>1, <1>4, CollectorAssumption DEF RunAgain, Attempt
  <2>2. runs' = [runs EXCEPT ![r].attempt = @ + 1, ![r].verdict = "pending"]
    BY <1>4 DEF RunAgain
  <2>3. QED BY <1>1, <2>1, <2>2
<1>5. QED BY <1>2, <1>3, <1>4

LEMMA PollTyped ==
  ASSUME Shape, PollStep
  PROVE  Shape'
<1> USE DEF Shape, TypeOK
<1>1. CASE PollLoads
  <2>1. PICK doc \in Read : /\ poll' = [at |-> "scanning", doc |-> doc, says |-> {}, whole |-> TRUE]
                            /\ Forgets(doc)
    BY <1>1 DEF PollLoads
  <2>2. doc \in Doc /\ torn' \subseteq Key /\ retold' \subseteq Signal /\ blind' \in BOOLEAN
    BY <2>1, ReadFacts
  <2>3. poll' \in Poll
    BY <2>1, <2>2 DEF Poll
  <2>4. QED BY <1>1, <2>1, <2>2, <2>3 DEF PollLoads
<1>2. CASE PollScans
  <2>1. PICK rs \in SUBSET Listed(poll.doc) :
          /\ rows' = Bump(rows, KeysIn(rs) \ poll.doc.seen)
          /\ poll' \in Poll /\ poll'.at = "saving" /\ (~poll'.whole => lost < MaxLost)
    BY <1>2, ScanFacts
  <2>2. rows' \in [Key -> 0 .. 2]
    BY <2>1, BumpFacts
  <2>3. QED BY <1>2, <2>1, <2>2 DEF PollScans, Poll, beatVars
<1>3. CASE PollDiesScanning
  <2>1. PICK rs \in SUBSET Listed(poll.doc) :
          LET new == KeysIn(rs) \ poll.doc.seen IN rows' = Bump(rows, new) /\ Fails(new)
    BY <1>3 DEF PollDiesScanning
  <2>2. rs \in SUBSET Run
    BY DEF Listed
  <2>3. KeysIn(rs) \subseteq Key
    BY <2>2, KeyFacts
  <2>4. rows' \in [Key -> 0 .. 2] /\ poll' = Idle /\ lost' \in 0 .. MaxLost /\ torn' \subseteq Key
    BY <2>1, <2>3, BumpFacts, EndFacts DEF Fails
  <2>5. QED BY <1>3, <2>4, DocFacts DEF PollDiesScanning, beatVars
<1>4. CASE PollSaves
  <2>1. kv' \in Doc /\ poll.doc \in Doc
    BY <1>4 DEF PollSaves, SaveBy
  <2>2. CASE poll.says = {}
    <3>1. poll' = Idle /\ lost' \in 0 .. MaxLost
      BY <1>4, <2>2, EndFacts DEF PollSaves
    <3>2. QED BY <1>4, <2>1, <3>1, DocFacts DEF PollSaves, beatVars
  <2>3. CASE poll.says # {}
    <3>1. poll' = [poll EXCEPT !.at = "posting"] /\ lost' = lost
      BY <1>4, <2>3 DEF PollSaves
    <3>2. poll' \in Poll /\ poll'.whole = poll.whole /\ poll'.at = "posting"
      BY <3>1 DEF Poll
    <3>3. QED BY <1>4, <2>1, <3>1, <3>2 DEF PollSaves, Poll, beatVars
  <2>4. QED BY <2>2, <2>3
<1>5. CASE PollPosts
  <2>1. poll' \in Poll /\ poll'.whole = poll.whole /\ poll'.at = "marking"
    BY <1>5 DEF PollPosts, Poll
  <2>2. posts' \in [Key -> 0 .. 2]
    BY <1>5, BumpFacts DEF PollPosts
  <2>3. QED BY <1>5, <2>1, <2>2 DEF PollPosts, Poll, beatVars
<1>6. CASE PollMarks
  <2>1. kv' \in Doc
    BY <1>6, MarkFacts
  <2>2. poll' = Idle /\ lost' \in 0 .. MaxLost
    BY <1>6, EndFacts DEF PollMarks
  <2>3. QED BY <1>6, <2>1, <2>2, DocFacts DEF PollMarks, beatVars
<1>7. CASE PollDies
  <2>1. PICK keys : keys \in {poll.doc.seen \ kv.seen, {}, poll.says} /\ Fails(keys)
    BY <1>7 DEF PollDies
  <2>2. keys \subseteq Key
    BY <2>1 DEF Doc
  <2>3. poll' = Idle /\ lost' \in 0 .. MaxLost /\ torn' \subseteq Key
    BY <2>1, <2>2, EndFacts DEF Fails
  <2>4. posts' \in [Key -> 0 .. 2]
    BY <1>7, BumpFacts DEF PollDies
  <2>5. QED BY <1>7, <2>3, <2>4, DocFacts DEF PollDies, beatVars
<1>8. QED
  BY <1>1, <1>2, <1>3, <1>4, <1>5, <1>6, <1>7 DEF PollStep

LEMMA BeatTyped ==
  ASSUME Shape, BeatStep
  PROVE  Shape'
<1> USE DEF Shape, TypeOK
<1>1. CASE BeatLoads
  <2>1. PICK doc \in Read, breach \in SUBSET Signal, clear \in SUBSET Signal :
          /\ beat' = [at   |-> IF Alerts(doc, breach) \cup Clears(doc, clear) = {} THEN "saving"
                               ELSE "posting",
                      doc  |-> Gated(doc, breach, clear),
                      says |-> Alerts(doc, breach), whole |-> TRUE]
          /\ Forgets(doc)
    BY <1>1 DEF BeatLoads
  <2>2. doc \in Doc /\ torn' \subseteq Key /\ retold' \subseteq Signal /\ blind' \in BOOLEAN
    BY <2>1, ReadFacts
  <2>3. Gated(doc, breach, clear) \in Doc /\ Alerts(doc, breach) \subseteq Signal
    BY <2>2, GateFacts DEF Alerts
  <2>4. beat' \in Beat
    BY <2>1, <2>3 DEF Beat
  <2>5. QED BY <1>1, <2>2, <2>4 DEF BeatLoads, pollVars, Beat
<1>2. CASE BeatPosts
  <2>1. cards' \in [Signal -> 0 .. 2]
    BY <1>2, BumpFacts DEF BeatPosts
  <2>2. beat' \in Beat
    BY <1>2 DEF BeatPosts, Beat
  <2>3. QED BY <1>2, <2>1, <2>2 DEF BeatPosts, pollVars, Beat
<1>3. CASE BeatSaves
  BY <1>3, DocFacts DEF BeatSaves, pollVars
<1>4. CASE BeatDies
  <2>1. cards' \in [Signal -> 0 .. 2] /\ retold' \subseteq Signal /\ beat' = Idle
    BY <1>4, BumpFacts DEF BeatDies
  <2>2. QED BY <1>4, <2>1, DocFacts DEF BeatDies, pollVars
<1>5. QED
  BY <1>1, <1>2, <1>3, <1>4 DEF BeatStep

LEMMA ShapeStep ==
  ASSUME Shape, [Next]_vars
  PROVE  Shape'
<1>1. ASSUME NEW r \in Run, RunCreated(r) \/ RunFinishes(r) \/ RunAgain(r)
      PROVE  Shape'
  <2>1. TypeOK'
    BY <1>1, GitHubTyped DEF Shape, TypeOK, RunCreated, RunFinishes, RunAgain, beatVars
  <2>2. QED BY <1>1, <2>1 DEF Shape, RunCreated, RunFinishes, RunAgain, beatVars
<1>2. CASE Tick
  <2>1. now' \in 0 .. MaxNow
    BY <1>2, CollectorAssumption DEF Tick, Shape, TypeOK
  <2>2. QED BY <1>2, <2>1 DEF Tick, Shape, TypeOK, pollVars, beatVars
<1>3. CASE NextDay
  <2>1. day' \in 1 .. MaxDay /\ cards' \in [Signal -> 0 .. 2]
    BY <1>3, CollectorAssumption DEF NextDay, Shape, TypeOK
  <2>2. QED BY <1>3, <2>1 DEF NextDay, Shape, TypeOK, pollVars
<1>4. CASE UNCHANGED vars
  BY <1>4 DEF vars, Shape, TypeOK, pollVars, beatVars
<1>5. QED
  BY <1>1, <1>2, <1>3, <1>4, PollTyped, BeatTyped DEF Next

LEMMA ShapeInit == Init => Shape
<1> SUFFICES ASSUME Init PROVE Shape
  OBVIOUS
<1>1. runs \in [Run -> [created : {Never} \cup 0 .. MaxNow, attempt : Attempt,
                        verdict : Done \cup {"none", "pending"}, finished : {Never} \cup 0 .. MaxNow]]
  <2>1. 1 \in Attempt
    BY CollectorAssumption DEF Attempt
  <2>2. QED BY <2>1 DEF Init
<1>2. /\ now \in 0 .. MaxNow /\ day \in 1 .. MaxDay /\ lost \in 0 .. MaxLost
      /\ polled \in {Never} \cup 0 .. MaxNow
  BY CollectorAssumption DEF Init
<1>3. rows \in [Key -> 0 .. 2] /\ posts \in [Key -> 0 .. 2] /\ cards \in [Signal -> 0 .. 2]
  BY DEF Init
<1>4. QED BY <1>1, <1>2, <1>3, DocFacts DEF Init, Shape, TypeOK, Idle

\* The collector's state is what it may be, whatever the bounds and whether or
\* not its beats may cross (workers/cicd-collector/src/index.js, vitals.js).
THEOREM TypeCorrect == Spec => []TypeOK
<1>1. Shape /\ [Next]_vars => Shape'
  BY ShapeStep
<1>2. Shape => TypeOK
  BY DEF Shape
<1>3. QED BY <1>1, <1>2, ShapeInit, PTL DEF Spec

-----------------------------------------------------------------------------
(* The document the two beats share. *)

\* GitHub, the clock and the day leave the beats and their document alone.
Elsewhere == Tick \/ NextDay \/ \E r \in Run : RunCreated(r) \/ RunFinishes(r) \/ RunAgain(r)

LEMMA ElsewhereFacts ==
  ASSUME Elsewhere
  PROVE  UNCHANGED <<kv, poll, beat, saved, blind, torn, rows, posts, polled, lost>>
BY DEF Elsewhere, Tick, NextDay, RunCreated, RunFinishes, RunAgain, pollVars, beatVars

LEMMA Steps ==
  Next <=> PollStep \/ BeatStep \/ Elsewhere
BY DEF Next, Elsewhere

LEMMA ApartStep ==
  ASSUME Apart, ~Crossing, [Next]_vars
  PROVE  Apart'
<1> USE DEF Apart
<1>1. CASE PollLoads \/ BeatLoads
  BY <1>1 DEF PollLoads, BeatLoads, pollVars
<1>2. CASE PollScans \/ PollDiesScanning \/ PollSaves \/ PollPosts \/ PollMarks \/ PollDies
  <2>1. poll.at # "idle" /\ beat' = beat
    BY <1>2 DEF PollScans, PollDiesScanning, PollSaves, PollPosts, PollMarks, PollDies, beatVars
  <2>2. QED BY <2>1
<1>3. CASE BeatPosts \/ BeatSaves \/ BeatDies
  <2>1. beat.at # "idle" /\ poll' = poll
    BY <1>3 DEF BeatPosts, BeatSaves, BeatDies, pollVars
  <2>2. QED BY <2>1
<1>4. CASE Elsewhere
  BY <1>4, ElsewhereFacts
<1>5. CASE UNCHANGED vars
  BY <1>5 DEF vars, pollVars, beatVars
<1>6. QED
  BY <1>1, <1>2, <1>3, <1>4, <1>5, Steps DEF PollStep, BeatStep

\* The poll's steps but the first leave the beat idle and its part as it is.
LEMMA CarriedStep ==
  ASSUME Shape, Apart, Carried, ~Crossing, [Next]_vars
  PROVE  Carried'
<1> USE DEF Carried, Apart
<1>1. CASE PollLoads
  <2>1. PICK doc \in Read : poll'.at = "scanning" /\ poll'.doc = doc /\ Forgets(doc)
    BY <1>1 DEF PollLoads
  <2>2. ~blind' => ~blind /\ doc = kv
    BY <2>1, ReadFacts DEF Shape
  <2>3. beat.at = "idle" /\ UNCHANGED <<beat, kv, saved>>
    BY <1>1 DEF PollLoads
  <2>4. QED BY <2>1, <2>2, <2>3
<1>2. CASE PollScans
  <2>1. poll'.doc.said = poll.doc.said /\ poll'.doc.active = poll.doc.active
    BY <1>2, ScanFacts
  <2>2. poll.at # "idle" /\ UNCHANGED <<beat, kv, saved, blind>>
    BY <1>2 DEF PollScans, beatVars
  <2>3. QED BY <2>1, <2>2 DEF VitalsPart
<1>3. CASE PollDiesScanning \/ PollDies
  <2>1. poll' = Idle /\ UNCHANGED <<beat, kv, saved, blind>>
    BY <1>3 DEF PollDiesScanning, PollDies, Fails, beatVars
  <2>2. QED BY <2>1, DocFacts
<1>4. CASE PollSaves
  <2>1. /\ kv' = poll.doc /\ saved' = [saved EXCEPT !.poll = PollPart(kv')]
        /\ beat.at = "idle" /\ UNCHANGED <<beat, blind>> /\ poll.at # "idle"
    BY <1>4 DEF PollSaves, SaveBy, beatVars
  <2>2. poll'.at # "idle" => poll'.doc = poll.doc
    BY <1>4, DocFacts DEF PollSaves, Completes, Shape, Poll
  <2>3. ~blind => saved' = [poll |-> PollPart(kv'), vitals |-> VitalsPart(kv')]
    BY <2>1
  <2>4. QED BY <2>1, <2>2, <2>3
<1>5. CASE PollPosts
  <2>1. poll'.doc = poll.doc /\ poll.at # "idle" /\ UNCHANGED <<beat, kv, saved, blind>>
    BY <1>5 DEF PollPosts, Shape, Poll, beatVars
  <2>2. QED BY <2>1
<1>6. CASE PollMarks
  <2>1. VitalsPart(kv') = VitalsPart(poll.doc) /\ saved' = [saved EXCEPT !.poll = PollPart(kv')]
    BY <1>6, MarkFacts DEF VitalsPart
  <2>2. poll' = Idle /\ beat.at = "idle" /\ poll.at # "idle" /\ UNCHANGED <<beat, blind>>
    BY <1>6 DEF PollMarks, Completes, beatVars
  <2>3. ~blind => saved' = [poll |-> PollPart(kv'), vitals |-> VitalsPart(kv')]
    BY <2>1, <2>2
  <2>4. QED BY <2>2, <2>3, DocFacts
<1>7. CASE BeatLoads
  <2>1. PICK doc \in Read, breach \in SUBSET Signal, clear \in SUBSET Signal :
          beat'.doc = Gated(doc, breach, clear) /\ Forgets(doc)
    BY <1>7 DEF BeatLoads
  <2>2. doc \in Doc /\ (~blind' => ~blind /\ doc = kv)
    BY <2>1, ReadFacts DEF Shape
  <2>3. PollPart(beat'.doc) = PollPart(doc)
    <3>1. /\ Gated(doc, breach, clear).seen = doc.seen
          /\ Gated(doc, breach, clear).alerted = doc.alerted
          /\ Gated(doc, breach, clear).lastPoll = doc.lastPoll
      BY <2>2 DEF Gated, Doc
    <3>2. QED BY <2>1, <3>1 DEF PollPart
  <2>4. poll.at = "idle" /\ UNCHANGED <<poll, kv, saved>>
    BY <1>7 DEF BeatLoads, pollVars
  <2>5. QED BY <2>2, <2>3, <2>4
<1>8. CASE BeatPosts
  <2>1. beat'.doc = beat.doc /\ beat.at # "idle" /\ UNCHANGED <<poll, kv, saved, blind>>
    BY <1>8 DEF BeatPosts, Shape, Beat, pollVars
  <2>2. QED BY <2>1
<1>9. CASE BeatSaves
  <2>1. /\ kv' = beat.doc /\ saved' = [saved EXCEPT !.vitals = VitalsPart(kv')]
        /\ beat' = Idle /\ poll.at = "idle" /\ beat.at # "idle" /\ UNCHANGED <<poll, blind>>
    BY <1>9 DEF BeatSaves, pollVars
  <2>2. ~blind => saved' = [poll |-> PollPart(kv'), vitals |-> VitalsPart(kv')]
    BY <2>1
  <2>3. QED BY <2>1, <2>2, DocFacts
<1>10. CASE BeatDies
  <2>1. beat' = Idle /\ UNCHANGED <<poll, kv, saved, blind>>
    BY <1>10 DEF BeatDies, pollVars
  <2>2. QED BY <2>1, DocFacts
<1>11. CASE Elsewhere
  BY <1>11, ElsewhereFacts
<1>12. CASE UNCHANGED vars
  BY <1>12 DEF vars, pollVars, beatVars
<1>13. QED
  BY <1>1, <1>2, <1>3, <1>4, <1>5, <1>6, <1>7, <1>8, <1>9, <1>10, <1>11, <1>12, Steps
     DEF PollStep, BeatStep

\* index.js:162-164: where the beats do not run at the same time, what one of
\* them saved is there until it saves again, whatever the other one does.
THEOREM NoUpdateIsLost ==
  ASSUME ~Crossing
  PROVE  Spec => []NoLostUpdate
<1>1. Init => Apart /\ Carried
  BY DocFacts DEF Init, Apart, Carried
<1>2. Apart /\ [Next]_vars => Apart'
  BY ApartStep
<1>3. Shape /\ Apart /\ Carried /\ [Next]_vars => Carried'
  BY CarriedStep
<1>4. Shape /\ [Next]_vars => Shape'
  BY ShapeStep
<1>5. Carried => NoLostUpdate
  BY DEF Carried, NoLostUpdate
<1>6. QED BY <1>1, <1>2, <1>3, <1>4, <1>5, ShapeInit, PTL DEF Spec

-----------------------------------------------------------------------------
(* Once a day. *)

LEMMA DayPollStep ==
  ASSUME Shape, Apart, DayInv, ~Crossing, PollStep
  PROVE  DayInv'
<1> USE DEF DayInv, OnRecord, SaidByNow
<1>1. beat' = beat /\ cards' = cards /\ day' = day /\ Idle.doc = EmptyDoc
      /\ \A s \in Signal : EmptyDoc.said[s] = 0
  BY DocFacts DEF PollStep, PollLoads, PollScans, PollDiesScanning, PollSaves, PollPosts, PollMarks,
     PollDies, beatVars, EmptyDoc
<1>2. day \in Nat
  BY CollectorAssumption DEF Shape, TypeOK
<1>3. CASE PollLoads
  <2>1. PICK doc \in Read : poll'.at = "scanning" /\ poll'.doc = doc /\ Forgets(doc)
    BY <1>3 DEF PollLoads
  <2>2. /\ doc = kv \/ doc = EmptyDoc
        /\ retold \subseteq retold'
        /\ \A s \in Signal : kv.said[s] = day => doc = kv \/ s \in retold'
    BY <2>1, ReadFacts DEF Shape
  <2>3. beat.at = "idle" /\ kv' = kv
    BY <1>3 DEF PollLoads
  <2>4. QED BY <1>1, <1>2, <2>1, <2>2, <2>3
<1>4. CASE PollScans
  <2>1. poll'.doc.said = poll.doc.said
    BY <1>4, ScanFacts
  <2>2. poll.at # "idle" /\ UNCHANGED <<kv, retold>>
    BY <1>4 DEF PollScans, beatVars
  <2>3. QED BY <1>1, <2>1, <2>2
<1>5. CASE PollDiesScanning \/ PollDies
  <2>1. poll' = Idle /\ UNCHANGED <<kv, retold>>
    BY <1>5 DEF PollDiesScanning, PollDies, Fails, beatVars
  <2>2. QED BY <1>1, <1>2, <2>1, DocFacts
<1>6. CASE PollSaves \/ PollMarks
  <2>1. kv'.said = poll.doc.said
    BY <1>6, MarkFacts DEF PollSaves, SaveBy
  <2>2. beat.at = "idle" /\ poll.at # "idle" /\ UNCHANGED retold
    BY <1>6 DEF Apart, PollSaves, PollMarks, beatVars
  <2>3. poll'.doc = poll.doc \/ poll' = Idle
    BY <1>6 DEF PollSaves, PollMarks, Completes, Shape, Poll
  <2>4. \A s \in Signal : /\ cards[s] > 0 => s \in retold \/ poll.doc.said[s] = day
                          /\ poll'.at # "idle" => poll'.doc = poll.doc
    BY <2>2, <2>3, DocFacts
  <2>5. QED BY <1>1, <1>2, <2>1, <2>2, <2>3, <2>4
<1>7. CASE PollPosts
  <2>1. poll'.doc = poll.doc /\ poll.at # "idle" /\ UNCHANGED <<kv, retold>>
    BY <1>7 DEF PollPosts, Shape, Poll, beatVars
  <2>2. QED BY <1>1, <2>1
<1>8. QED
  BY <1>3, <1>4, <1>5, <1>6, <1>7 DEF PollStep

LEMMA DayBeatStep ==
  ASSUME Shape, Apart, DayInv, ~Crossing, BeatStep
  PROVE  DayInv'
<1> USE DEF DayInv, OnRecord, SaidByNow
<1>1. poll' = poll /\ day' = day /\ \A s \in Signal : EmptyDoc.said[s] = 0
  BY DEF BeatStep, BeatLoads, BeatPosts, BeatSaves, BeatDies, pollVars, EmptyDoc
<1>2. day \in Nat \ {0} /\ \A s \in Signal : cards[s] \in Nat
  BY CollectorAssumption DEF Shape, TypeOK
<1>3. CASE BeatLoads
  <2>1. PICK doc \in Read, breach \in SUBSET Signal, clear \in SUBSET Signal :
          /\ beat'.at \in {"posting", "saving"}
          /\ beat'.at = "saving" => Alerts(doc, breach) = {}
          /\ beat'.doc = Gated(doc, breach, clear) /\ beat'.says = Alerts(doc, breach)
          /\ Forgets(doc)
    BY <1>3 DEF BeatLoads
  <2>2. /\ doc \in Doc /\ (doc = kv \/ doc = EmptyDoc)
        /\ retold \subseteq retold'
        /\ \A s \in Signal : kv.said[s] = day => doc = kv \/ s \in retold'
    BY <2>1, ReadFacts DEF Shape
  <2>3. \A s \in Signal : beat'.doc.said[s] = IF s \in breach THEN day ELSE doc.said[s]
    BY <2>1, <2>2, GateFacts DEF Shape
  <2>4. poll.at = "idle" /\ beat.at = "idle" /\ UNCHANGED <<kv, cards>>
    BY <1>3 DEF BeatLoads
  <2>5. \A s \in Signal : s \in beat'.says => s \in breach /\ (doc = kv => kv.said[s] # day)
    BY <2>1 DEF Alerts
  <2> TAKE s \in Signal
  <2>6. SaidByNow(kv, s)' /\ SaidByNow(poll.doc, s)' /\ SaidByNow(beat.doc, s)'
    BY <1>1, <1>2, <2>2, <2>3, <2>4
  <2>7. cards[s] > 0 => s \in retold' \/ kv.said[s] = day
    BY <2>2, <2>4
  <2>8. s \in beat'.says => cards[s] = 0 \/ s \in retold'
    BY <1>2, <2>2, <2>5, <2>7
  <2>9. s \in beat'.says \/ kv.said[s] = day => beat'.doc.said[s] = day \/ s \in retold'
    BY <2>2, <2>3, <2>5
  <2>10. OnRecord(s)'
    BY <1>1, <2>2, <2>4, <2>7, <2>8, <2>9
  <2>11. QED BY <2>6, <2>10
<1>4. CASE BeatPosts
  <2>1. /\ cards' = Bump(cards, beat.says) /\ UNCHANGED <<kv, retold>> /\ beat.at = "posting"
        /\ beat'.at = "saving" /\ beat'.doc = beat.doc /\ beat'.says = beat.says
    BY <1>4 DEF BeatPosts, Shape, Beat
  <2>2. \A s \in Signal : /\ s \notin beat.says => cards'[s] = cards[s]
                          /\ cards[s] = 0 => cards'[s] <= 1
    BY <2>1, BumpFacts DEF Shape, TypeOK
  <2> TAKE s \in Signal
  <2>3. cards'[s] > 1 => s \in retold
    <3>1. CASE s \in beat.says
      BY <2>1, <2>2, <3>1, BumpFacts DEF Shape, TypeOK
    <3>2. CASE s \notin beat.says
      BY <2>2, <3>2
    <3>3. QED BY <3>1, <3>2
  <2>4. OnRecord(s)'
    BY <1>1, <2>1, <2>2, <2>3
  <2>5. QED BY <1>1, <2>1, <2>4
<1>5. CASE BeatSaves
  <2>1. kv' = beat.doc /\ beat' = Idle /\ poll.at = "idle" /\ UNCHANGED <<cards, retold>>
        /\ beat.at = "saving"
    BY <1>5 DEF BeatSaves, Apart
  <2>2. QED BY <1>1, <1>2, <2>1, DocFacts
<1>6. CASE BeatDies
  <2>1. beat' = Idle /\ kv' = kv
    BY <1>6 DEF BeatDies
  <2> TAKE s \in Signal
  <2>2. SaidByNow(kv, s)' /\ SaidByNow(poll.doc, s)' /\ SaidByNow(beat.doc, s)'
    BY <1>1, <1>2, <2>1, DocFacts
  <2>3. /\ cards'[s] > 0 => s \in retold' \/ kv.said[s] = day
        /\ cards'[s] > 1 => s \in retold'
        /\ retold \subseteq retold'
    <3>1. CASE beat.at = "posting" /\ UNCHANGED <<cards, retold>>
      BY <3>1
    <3>2. CASE cards' = Bump(cards, beat.says) /\ retold' = retold \cup beat.says /\ beat.at = "posting"
      <4>1. s \notin beat.says => cards'[s] = cards[s]
        BY <3>2, BumpFacts DEF Shape, TypeOK
      <4>2. QED BY <3>2, <4>1
    <3>3. CASE beat.at = "saving" /\ UNCHANGED cards /\ retold' = retold \cup beat.says
      BY <3>3
    <3>4. QED BY <1>6, <3>1, <3>2, <3>3 DEF BeatDies
  <2>4. OnRecord(s)'
    BY <1>1, <2>1, <2>3, DocFacts
  <2>5. QED BY <2>2, <2>4
<1>7. QED
  BY <1>3, <1>4, <1>5, <1>6 DEF BeatStep

LEMMA DayStep ==
  ASSUME Shape, Apart, DayInv, ~Crossing, [Next]_vars
  PROVE  DayInv'
<1>1. CASE NextDay
  <2>1. /\ beat.at = "idle" /\ day' = day + 1 /\ day \in Nat /\ retold' = {}
        /\ \A s \in Signal : cards'[s] = 0
        /\ UNCHANGED <<kv, poll, beat>>
    BY <1>1, CollectorAssumption DEF NextDay, pollVars, Shape, TypeOK
  <2>2. \A s \in Signal : kv.said[s] \in Nat /\ poll.doc.said[s] \in Nat /\ beat.doc.said[s] \in Nat
    BY CollectorAssumption DEF Shape, TypeOK, Doc
  <2>3. QED BY <2>1, <2>2 DEF DayInv, OnRecord, SaidByNow
<1>2. CASE Tick \/ \E r \in Run : RunCreated(r) \/ RunFinishes(r) \/ RunAgain(r)
  BY <1>2 DEF Tick, RunCreated, RunFinishes, RunAgain, pollVars, beatVars, DayInv, OnRecord, SaidByNow
<1>3. CASE UNCHANGED vars
  BY <1>3 DEF vars, pollVars, beatVars, DayInv, OnRecord, SaidByNow
<1>4. QED
  BY <1>1, <1>2, <1>3, DayPollStep, DayBeatStep, Steps DEF Elsewhere

\* vitals.js, gate(): a breach is said once a day however often it flaps, except
\* by a beat that was cut off before it saved, or that could not read what was
\* said.
THEOREM OneCardADay ==
  ASSUME ~Crossing
  PROVE  Spec => []OncePerDay
<1>1. Init => Apart /\ DayInv
  BY DocFacts DEF Init, Apart, DayInv, OnRecord, SaidByNow, EmptyDoc
<1>2. Apart /\ [Next]_vars => Apart'
  BY ApartStep
<1>3. Shape /\ Apart /\ DayInv /\ [Next]_vars => DayInv'
  BY DayStep
<1>4. Shape /\ [Next]_vars => Shape'
  BY ShapeStep
<1>5. DayInv => OncePerDay
  BY DEF DayInv, OnRecord, OncePerDay
<1>6. QED BY <1>1, <1>2, <1>3, <1>4, <1>5, ShapeInit, PTL DEF Spec

-----------------------------------------------------------------------------
(* Once an attempt. *)

LEMMA AttemptPollStep ==
  ASSUME Shape, Apart, AttemptInv, ~Crossing, PollStep
  PROVE  AttemptInv'
<1> USE DEF AttemptInv, RowMarked, PostMarked, Holds
<1>1. beat' = beat
  BY DEF PollStep, PollLoads, PollScans, PollDiesScanning, PollSaves, PollPosts, PollMarks, PollDies,
     beatVars
<1>2. rows \in [Key -> 0 .. 2] /\ posts \in [Key -> 0 .. 2]
  BY DEF Shape, TypeOK
<1>3. CASE PollLoads
  <2>1. PICK doc \in Read : /\ poll' = [at |-> "scanning", doc |-> doc, says |-> {}, whole |-> TRUE]
                            /\ Forgets(doc)
    BY <1>3 DEF PollLoads
  <2>2. /\ torn \subseteq torn' /\ beat.at = "idle" /\ poll.at = "idle"
        /\ \A k \in kv.seen \cup kv.alerted : doc = kv \/ k \in torn'
    BY <1>3, <2>1, ReadFacts DEF PollLoads, Shape
  <2>3. UNCHANGED <<kv, rows, posts>>
    BY <1>3 DEF PollLoads
  <2>4. QED BY <1>1, <2>1, <2>2, <2>3
<1>4. CASE PollScans
  <2>1. PICK rs \in SUBSET Listed(poll.doc) :
          /\ rows' = Bump(rows, KeysIn(rs) \ poll.doc.seen)
          /\ poll'.at = "saving"
          /\ poll'.doc.seen = poll.doc.seen \cup KeysIn(rs)
          /\ poll'.doc.alerted = poll.doc.alerted
          /\ poll'.says = KeysIn({r \in rs : runs[r].verdict = "failure"}) \ poll.doc.alerted
    BY <1>4, ScanFacts
  <2>2. poll.at = "scanning" /\ beat.at = "idle" /\ UNCHANGED <<kv, posts, torn>>
    BY <1>4 DEF PollScans, Apart
  <2> TAKE k \in Key
  <2>3. /\ rows[k] \in 0 .. 2 /\ rows'[k] \in 0 .. 2
        /\ k \notin KeysIn(rs) \ poll.doc.seen => rows'[k] = rows[k]
        /\ rows[k] = 0 => rows'[k] <= 1
    BY <1>2, <2>1, BumpFacts
  <2>4. RowMarked(k)'
    <3>1. CASE k \in KeysIn(rs) \ poll.doc.seen
      BY <2>1, <2>2, <2>3, <3>1
    <3>2. CASE k \notin KeysIn(rs) \ poll.doc.seen
      BY <2>1, <2>2, <2>3, <3>2
    <3>3. QED BY <3>1, <3>2
  <2>5. PostMarked(k)' /\ Holds(poll.doc, k)'
    BY <2>1, <2>2
  <2>6. QED BY <1>1, <2>2, <2>4, <2>5
<1>5. CASE PollDiesScanning
  <2>1. PICK new : rows' = Bump(rows, new) /\ Fails(new)
    BY <1>5 DEF PollDiesScanning
  <2>2. /\ poll.at = "scanning" /\ beat.at = "idle" /\ UNCHANGED <<kv, posts>>
        /\ poll' = Idle /\ torn' = torn \cup new
    BY <1>5, <2>1 DEF PollDiesScanning, Fails, Apart
  <2>3. \A k \in Key : k \notin new => rows'[k] = rows[k]
    BY <1>2, <2>1, BumpFacts
  <2>4. QED BY <1>1, <2>2, <2>3, DocFacts
<1>6. CASE PollSaves
  <2>1. /\ kv' = poll.doc /\ poll.at = "saving" /\ beat.at = "idle"
        /\ UNCHANGED <<rows, posts, torn>>
    BY <1>6 DEF PollSaves, SaveBy, Apart
  <2>2. \/ poll' = Idle
        \/ poll'.at = "posting" /\ poll'.doc = poll.doc /\ poll'.says = poll.says
    BY <1>6 DEF PollSaves, Completes, Shape, Poll
  <2>3. QED BY <1>1, <2>1, <2>2, DocFacts
<1>7. CASE PollPosts
  <2>1. /\ posts' = Bump(posts, poll.says) /\ poll.at = "posting" /\ beat.at = "idle"
        /\ poll'.at = "marking" /\ poll'.doc = poll.doc /\ poll'.says = poll.says
        /\ UNCHANGED <<kv, rows, torn>>
    BY <1>7 DEF PollPosts, Apart, Shape, Poll
  <2> TAKE k \in Key
  <2>2. /\ posts[k] \in 0 .. 2 /\ posts'[k] \in 0 .. 2
        /\ k \notin poll.says => posts'[k] = posts[k]
        /\ posts[k] = 0 => posts'[k] <= 1
    BY <1>2, <2>1, BumpFacts
  <2>3. PostMarked(k)'
    <3>1. CASE k \in poll.says
      BY <2>1, <2>2, <3>1
    <3>2. CASE k \notin poll.says
      BY <2>1, <2>2, <3>2
    <3>3. QED BY <3>1, <3>2
  <2>4. RowMarked(k)' /\ Holds(poll.doc, k)'
    BY <2>1
  <2>5. QED BY <1>1, <2>1, <2>3, <2>4
<1>8. CASE PollMarks
  <2>1. kv'.alerted = poll.doc.alerted \cup poll.says /\ kv'.seen = poll.doc.seen
    BY <1>8, MarkFacts
  <2>2. /\ poll.at = "marking" /\ beat.at = "idle" /\ poll' = Idle
        /\ UNCHANGED <<rows, posts, torn>>
    BY <1>8 DEF PollMarks, Completes, Apart
  <2>3. QED BY <1>1, <2>1, <2>2, DocFacts
<1>9. CASE PollDies
  <2>1. poll' = Idle /\ beat.at = "idle" /\ UNCHANGED <<kv, rows>>
    BY <1>9 DEF PollDies, Fails, Apart
  <2>2. CASE poll.at = "saving" /\ Fails(poll.doc.seen \ kv.seen) /\ UNCHANGED posts
    <3>1. torn' = torn \cup (poll.doc.seen \ kv.seen)
      BY <2>2 DEF Fails
    <3>2. QED BY <1>1, <2>1, <2>2, <3>1, DocFacts
  <2>3. CASE poll.at = "posting" /\ Fails({}) /\ UNCHANGED posts
    <3>1. torn' = torn
      BY <2>3 DEF Fails
    <3>2. QED BY <1>1, <2>1, <2>3, <3>1, DocFacts
  <2>4. CASE poll.at = "posting" /\ Fails(poll.says) /\ posts' = Bump(posts, poll.says)
    <3>1. torn' = torn \cup poll.says
      BY <2>4 DEF Fails
    <3>2. \A k \in Key : k \notin poll.says => posts'[k] = posts[k]
      BY <1>2, <2>4, BumpFacts
    <3>3. QED BY <1>1, <2>1, <2>4, <3>1, <3>2, DocFacts
  <2>5. CASE poll.at = "marking" /\ Fails(poll.says) /\ UNCHANGED posts
    <3>1. torn' = torn \cup poll.says
      BY <2>5 DEF Fails
    <3>2. QED BY <1>1, <2>1, <2>5, <3>1, DocFacts
  <2>6. QED BY <1>9, <2>2, <2>3, <2>4, <2>5 DEF PollDies
<1>10. QED
  BY <1>3, <1>4, <1>5, <1>6, <1>7, <1>8, <1>9 DEF PollStep

LEMMA AttemptBeatStep ==
  ASSUME Shape, Apart, AttemptInv, ~Crossing, BeatStep
  PROVE  AttemptInv'
<1> USE DEF AttemptInv, RowMarked, PostMarked, Holds
<1>1. UNCHANGED <<poll, rows, posts>>
  BY DEF BeatStep, BeatLoads, BeatPosts, BeatSaves, BeatDies, pollVars
<1>2. CASE BeatLoads
  <2>1. PICK doc \in Read, breach \in SUBSET Signal, clear \in SUBSET Signal :
          beat'.doc = Gated(doc, breach, clear) /\ Forgets(doc)
    BY <1>2 DEF BeatLoads
  <2>2. /\ doc \in Doc /\ torn \subseteq torn' /\ poll.at = "idle" /\ beat.at = "idle"
        /\ \A k \in kv.seen \cup kv.alerted : doc = kv \/ k \in torn'
    BY <1>2, <2>1, ReadFacts DEF BeatLoads, Shape
  <2>3. beat'.doc.seen = doc.seen /\ beat'.doc.alerted = doc.alerted
    BY <2>1, <2>2 DEF Gated, Doc
  <2>4. kv' = kv
    BY <1>2 DEF BeatLoads
  <2>5. QED BY <1>1, <2>2, <2>3, <2>4
<1>3. CASE BeatPosts
  <2>1. beat'.doc = beat.doc /\ beat.at # "idle" /\ UNCHANGED <<kv, torn>>
    BY <1>3 DEF BeatPosts, Shape, Beat
  <2>2. QED BY <1>1, <2>1
<1>4. CASE BeatSaves
  <2>1. kv' = beat.doc /\ beat' = Idle /\ poll.at = "idle" /\ beat.at # "idle" /\ torn' = torn
    BY <1>4 DEF BeatSaves, Apart
  <2>2. QED BY <1>1, <2>1, DocFacts
<1>5. CASE BeatDies
  <2>1. beat' = Idle /\ UNCHANGED <<kv, torn>>
    BY <1>5 DEF BeatDies
  <2>2. QED BY <1>1, <2>1, DocFacts
<1>6. QED
  BY <1>2, <1>3, <1>4, <1>5 DEF BeatStep

\* index.js, poll(): one row and one post an attempt, however often its run is
\* listed, except by a poll that was cut off before it could save what it had
\* done, or by one that could not read what was done.
THEOREM OneRowAnAttempt ==
  ASSUME ~Crossing
  PROVE  Spec => []OncePerAttempt
<1>1. Init => Apart /\ AttemptInv
  <2>1. Init => poll = Idle /\ beat = Idle /\ (\A k \in Key : rows[k] = 0 /\ posts[k] = 0)
    BY DEF Init
  <2>2. QED BY <2>1, DocFacts DEF Apart, AttemptInv, RowMarked, PostMarked, Holds
<1>2. Apart /\ [Next]_vars => Apart'
  BY ApartStep
<1>3. Shape /\ Apart /\ AttemptInv /\ [Next]_vars => AttemptInv'
  <2> SUFFICES ASSUME Shape, Apart, AttemptInv, [Next]_vars PROVE AttemptInv'
    OBVIOUS
  <2>1. CASE Elsewhere
    BY <2>1, ElsewhereFacts DEF AttemptInv, RowMarked, PostMarked, Holds
  <2>2. CASE UNCHANGED vars
    BY <2>2 DEF vars, pollVars, beatVars, AttemptInv, RowMarked, PostMarked, Holds
  <2>3. QED BY <2>1, <2>2, AttemptPollStep, AttemptBeatStep, Steps
<1>4. Shape /\ [Next]_vars => Shape'
  BY ShapeStep
<1>5. AttemptInv => OncePerAttempt
  BY DEF AttemptInv, RowMarked, PostMarked, OncePerAttempt
<1>6. QED BY <1>1, <1>2, <1>3, <1>4, <1>5, ShapeInit, PTL DEF Spec

-----------------------------------------------------------------------------
(* Ticks and periods. *)

\* The sum of so many periods.
LEMMA LagFacts ==
  ASSUME NEW a \in Nat
  PROVE  /\ Lag(a) \in Nat /\ Lag(a + 1) = Lag(a) + Period
         /\ \A b \in Nat : a <= b => Lag(a) <= Lag(b)
<1>1. Period \in Nat \ {0}
  BY CollectorAssumption
<1>2. Lag(a) \in Nat /\ Lag(a + 1) = Lag(a) + Period
  BY <1>1 DEF Lag
<1>3. ASSUME NEW b \in Nat, a <= b PROVE Lag(a) <= Lag(b)
  <2>1. PICK c \in Nat : b = a + c
    BY <1>3
  <2>2. b * Period = a * Period + c * Period /\ c * Period >= 0
    BY <1>1, <2>1
  <2>3. QED BY <1>1, <2>2 DEF Lag
<1>4. QED BY <1>2, <1>3

\* The tick after a tick of the poll's is one as well.
LEMMA ModFacts ==
  ASSUME NEW n \in Nat, n % Period = 0
  PROVE  (n + Period) % Period = 0
<1>1. Period \in Nat \ {0}
  BY CollectorAssumption
<1>2. PICK d \in Int : n = d * Period
  <2>1. n = Period * (n \div Period) + (n % Period) /\ n \div Period \in Int
    BY <1>1
  <2>2. QED BY <1>1, <2>1
<1>3. PICK e, m : e = (n + Period) \div Period /\ m = (n + Period) % Period
  OBVIOUS
<1>4. e \in Int /\ m \in 0 .. Period - 1 /\ n + Period = e * Period + m
  BY <1>1, <1>3
<1>5. PICK c \in Int : c = d + 1 - e
  BY <1>2, <1>4
<1>6. c * Period = m
  BY <1>1, <1>2, <1>4, <1>5
<1>7. c >= 1 => c * Period >= Period
  BY <1>1
<1>8. c <= -1 => c * Period <= -Period
  BY <1>1
<1>9. c = 0 => c * Period = 0
  BY <1>1
<1>10. QED BY <1>1, <1>3, <1>4, <1>5, <1>6, <1>7, <1>8, <1>9

LEMMA ClockStep ==
  ASSUME Shape, ClockInv, [Next]_vars
  PROVE  ClockInv'
<1> USE DEF ClockInv
<1>1. /\ now \in Nat /\ polled \in {Never} \cup Nat /\ Period \in Nat \ {0} /\ Never = -1
  BY CollectorAssumption DEF Shape, TypeOK, Never
<1>2. CASE PollLoads
  <2>1. polled' = now /\ now' = now /\ now % Period = 0
    BY <1>2 DEF PollLoads, PollDue
  <2>2. QED BY <1>1, <2>1
<1>3. CASE Tick
  <2>1. now' = now + 1 /\ polled' = polled /\ ~(now % Period = 0 /\ polled < now)
    BY <1>3 DEF Tick, PollDue, pollVars
  <2>2. polled # Never
    <3>1. 0 % Period = 0
      BY <1>1
    <3>2. QED BY <1>1, <2>1, <3>1
  <2>3. (polled + Period) % Period = 0
    BY <1>1, <2>2, ModFacts
  <2>4. now # polled + Period
    BY <1>1, <2>1, <2>2, <2>3
  <2>5. QED BY <1>1, <2>1, <2>2, <2>4
<1>4. ASSUME UNCHANGED <<now, polled>> PROVE ClockInv'
  BY <1>4
<1>5. CASE PollScans \/ PollDiesScanning \/ PollSaves \/ PollPosts \/ PollMarks \/ PollDies
  BY <1>4, <1>5 DEF PollScans, PollDiesScanning, PollSaves, PollPosts, PollMarks, PollDies
<1>6. CASE BeatStep
  BY <1>4, <1>6 DEF BeatStep, BeatLoads, BeatPosts, BeatSaves, BeatDies, pollVars
<1>7. CASE NextDay \/ \E r \in Run : RunCreated(r) \/ RunFinishes(r) \/ RunAgain(r)
  BY <1>4, <1>7 DEF NextDay, RunCreated, RunFinishes, RunAgain, pollVars
<1>8. CASE UNCHANGED vars
  BY <1>4, <1>8 DEF vars, pollVars
<1>9. QED
  BY <1>2, <1>3, <1>5, <1>6, <1>7, <1>8, Steps DEF PollStep, Elsewhere

\* What GitHub does to a run.
LEMMA GitHubFacts ==
  ASSUME Shape, RunInv, NEW q \in Run, RunCreated(q) \/ RunFinishes(q) \/ RunAgain(q)
  PROVE  /\ UNCHANGED <<now, kv, poll, beat, rows, posts, polled, lost>>
         /\ \A r \in Run \ {q} : runs'[r] = runs[r]
         /\ runs'[q].verdict # "none" => runs'[q].created \in Nat
         /\ runs'[q].verdict \in Done =>
              /\ RunFinishes(q) /\ runs'[q].finished = now
              /\ runs[q].verdict # "none" /\ runs'[q].created = runs[q].created
              /\ now <= runs[q].created + Slowest
<1>1. /\ UNCHANGED <<now, kv, poll, beat, rows, posts, polled, lost>>
      /\ \A r \in Run \ {q} : runs'[r] = runs[r]
  BY GitHubTyped DEF Shape, RunCreated, RunFinishes, RunAgain, beatVars
<1>2. runs[q] \in [created : {Never} \cup 0 .. MaxNow, attempt : Attempt,
                   verdict : Done \cup {"none", "pending"}, finished : {Never} \cup 0 .. MaxNow]
      /\ now \in Nat
  BY CollectorAssumption DEF Shape, TypeOK
<1>3. CASE RunCreated(q)
  <2>1. runs'[q] = [created |-> now, attempt |-> 1, verdict |-> "pending", finished |-> Never]
    BY <1>3 DEF RunCreated, Shape, TypeOK
  <2>2. QED BY <1>1, <1>2, <2>1 DEF Done
<1>4. CASE RunFinishes(q)
  <2>1. PICK v \in Done : runs' = [runs EXCEPT ![q].verdict = v, ![q].finished = now]
    BY <1>4 DEF RunFinishes
  <2>2. runs[q].verdict = "pending" /\ now <= runs[q].created + Slowest
    BY <1>4 DEF RunFinishes
  <2>3. runs'[q].created = runs[q].created /\ runs'[q].finished = now
    BY <1>2, <2>1 DEF Shape, TypeOK
  <2>4. QED BY <1>1, <1>4, <2>2, <2>3 DEF RunInv
<1>5. CASE RunAgain(q)
  <2>1. runs' = [runs EXCEPT ![q].attempt = @ + 1, ![q].verdict = "pending"]
        /\ runs[q].verdict \in Done
    BY <1>5 DEF RunAgain
  <2>2. runs'[q].verdict = "pending" /\ runs'[q].created = runs[q].created
    BY <1>2, <2>1 DEF Shape, TypeOK
  <2>3. QED BY <1>1, <2>1, <2>2 DEF RunInv, Done
<1>6. QED BY <1>3, <1>4, <1>5

LEMMA RunStep ==
  ASSUME Shape, RunInv, [Next]_vars
  PROVE  RunInv'
<1>1. now \in Nat
  BY CollectorAssumption DEF Shape, TypeOK
<1>2. ASSUME NEW q \in Run, RunCreated(q) \/ RunFinishes(q) \/ RunAgain(q)
      PROVE  RunInv'
  BY <1>1, <1>2, GitHubFacts DEF RunInv
<1>3. CASE Tick
  <2>1. now' = now + 1 /\ runs' = runs
    BY <1>3 DEF Tick, pollVars
  <2>2. QED BY <1>1, <2>1 DEF RunInv
<1>4. CASE PollStep \/ BeatStep \/ NextDay
  BY <1>4 DEF PollStep, PollLoads, PollScans, PollDiesScanning, PollSaves, PollPosts, PollMarks,
     PollDies, BeatStep, BeatLoads, BeatPosts, BeatSaves, BeatDies, NextDay, pollVars, RunInv
<1>5. CASE UNCHANGED vars
  BY <1>5 DEF vars, pollVars, RunInv
<1>6. QED
  BY <1>2, <1>3, <1>4, <1>5 DEF Next

-----------------------------------------------------------------------------
(* What the documents remember. *)

\* Nothing that was written or posted is taken back, and the cursor's clock runs
\* forward.
LEMMA Grows ==
  ASSUME Shape, ClockInv, [Next]_vars
  PROVE  /\ \A k \in Key : (rows[k] > 0 => rows'[k] > 0) /\ (posts[k] > 0 => posts'[k] > 0)
         /\ polled <= polled'
<1>1. rows \in [Key -> 0 .. 2] /\ posts \in [Key -> 0 .. 2] /\ polled \in Int
  BY DEF Shape, TypeOK, Never
<1>2. /\ rows' = rows \/ \E S : rows' = Bump(rows, S)
      /\ posts' = posts \/ \E S : posts' = Bump(posts, S)
      /\ polled' = polled \/ (polled' = now /\ PollDue)
  BY DEF Next, PollStep, PollLoads, PollScans, Scanned, PollDiesScanning, PollSaves, PollPosts,
     PollMarks, PollDies, BeatStep, BeatLoads, BeatPosts, BeatSaves, BeatDies, Tick, NextDay,
     RunCreated, RunFinishes, RunAgain, pollVars, beatVars, vars
<1>3. \A k \in Key : (rows[k] > 0 => rows'[k] > 0) /\ (posts[k] > 0 => posts'[k] > 0)
  <2> TAKE k \in Key
  <2>1. \A S : rows[k] <= Bump(rows, S)[k] /\ Bump(rows, S)[k] \in 0 .. 2
    BY <1>1, BumpFacts
  <2>2. \A S : posts[k] <= Bump(posts, S)[k] /\ Bump(posts, S)[k] \in 0 .. 2
    BY <1>1, BumpFacts
  <2>3. rows[k] \in 0 .. 2 /\ posts[k] \in 0 .. 2
    BY <1>1
  <2>4. QED BY <1>2, <2>1, <2>2, <2>3
<1>4. polled <= polled'
  <2>1. CASE polled' = polled
    BY <1>1, <2>1
  <2>2. CASE polled' = now /\ PollDue
    BY <1>1, <2>2, CollectorAssumption DEF PollDue, Shape, TypeOK
  <2>3. QED BY <1>2, <2>1, <2>2
<1>5. QED BY <1>3, <1>4

\* A document keeps what it has earned.
LEMMA EarnedStays ==
  ASSUME Shape, ClockInv, [Next]_vars, NEW doc \in Doc, Earned(doc)
  PROVE  /\ \A k \in doc.seen : rows'[k] > 0
         /\ \A k \in doc.alerted : posts'[k] > 0
         /\ doc.lastPoll <= polled'
<1>1. doc.seen \subseteq Key /\ doc.alerted \subseteq Key /\ doc.lastPoll \in Int
  BY DEF Doc, Never
<1>2. polled \in Int /\ polled' \in Int
  BY ShapeStep DEF Shape, TypeOK, Never
<1>3. QED BY <1>1, <1>2, Grows DEF Earned

LEMMA EmptyEarned ==
  ASSUME Shape
  PROVE  Earned(EmptyDoc)
BY DEF Earned, EmptyDoc, Shape, TypeOK, Never

\* What is left for each step to show: the documents that are new.
LEMMA DocStep ==
  ASSUME Shape, Apart, ClockInv, DocInv, ~Crossing, [Next]_vars
  PROVE  DocInv'
<1> DEFINE Kept(doc) == doc \in {kv, poll.doc, beat.doc, EmptyDoc}
<1>1. Shape'
  BY ShapeStep
<1>2. \A doc \in {kv, poll.doc, beat.doc, EmptyDoc} :
        /\ doc \in Doc
        /\ \A k \in doc.seen : rows'[k] > 0
        /\ \A k \in doc.alerted : posts'[k] > 0
        /\ doc.lastPoll <= polled'
  BY DocFacts, EmptyEarned, EarnedStays DEF Shape, TypeOK, DocInv
<1>3. ASSUME Kept(kv'), Kept(poll'.doc), Kept(beat'.doc),
             poll'.at = "marking" => \A k \in poll'.says : posts'[k] > 0,
             poll'.at = "scanning" => poll'.doc.lastPoll \in {Never, kv'.lastPoll},
             beat'.at # "idle" => beat'.doc.lastPoll \in {Never, kv'.lastPoll}
      PROVE  DocInv'
  BY <1>2, <1>3 DEF DocInv, Earned
<1>4. \A k \in Key : posts[k] > 0 => posts'[k] > 0
  BY Grows
<1>5. EmptyDoc.lastPoll = Never
  BY DEF EmptyDoc
<1>6. CASE PollLoads
  <2>1. PICK doc \in Read : poll'.at = "scanning" /\ poll'.doc = doc /\ Forgets(doc)
    BY <1>6 DEF PollLoads
  <2>2. doc = kv \/ doc = EmptyDoc
    BY <2>1, ReadFacts DEF Shape
  <2>3. beat.at = "idle" /\ UNCHANGED <<kv, beat>>
    BY <1>6 DEF PollLoads
  <2>4. QED BY <1>3, <1>5, <2>1, <2>2, <2>3
<1>7. CASE PollScans
  <2>1. PICK rs \in SUBSET Listed(poll.doc) :
          /\ KeysIn(rs) \subseteq Key
          /\ rows' = Bump(rows, KeysIn(rs) \ poll.doc.seen)
          /\ poll'.at = "saving"
          /\ poll'.doc.seen = poll.doc.seen \cup KeysIn(rs)
          /\ poll'.doc.alerted = poll.doc.alerted
          /\ poll'.doc.lastPoll = polled
    BY <1>7, ScanFacts
  <2>2. beat.at = "idle" /\ UNCHANGED <<kv, beat, polled>>
    BY <1>7 DEF PollScans, Apart, beatVars
  <2>3. \A k \in poll'.doc.seen : rows'[k] > 0
    <3>1. \A k \in KeysIn(rs) \ poll.doc.seen : rows'[k] > 0
      BY <2>1, BumpFacts DEF Shape, TypeOK
    <3>2. QED BY <1>2, <2>1, <3>1
  <2>4. (\A k \in poll'.doc.alerted : posts'[k] > 0) /\ poll'.doc.lastPoll <= polled'
    <3>1. polled \in Int /\ polled' = polled
      BY <2>2 DEF Shape, TypeOK, Never
    <3>2. \A k \in poll.doc.alerted : posts'[k] > 0
      BY <1>2
    <3>3. QED BY <2>1, <3>1, <3>2
  <2>5. Earned(poll.doc)'
    BY <2>3, <2>4 DEF Earned
  <2>6. QED BY <1>2, <2>1, <2>2, <2>5 DEF DocInv, Earned
<1>8. CASE PollDiesScanning \/ PollDies
  <2>1. poll' = Idle /\ beat.at = "idle" /\ UNCHANGED <<kv, beat>>
    BY <1>8 DEF PollDiesScanning, PollDies, Fails, Apart, beatVars
  <2>2. QED BY <1>3, <2>1, DocFacts
<1>9. CASE PollSaves
  <2>1. kv' = poll.doc /\ beat.at = "idle" /\ beat' = beat
    BY <1>9 DEF PollSaves, SaveBy, Apart, beatVars
  <2>2. poll' = Idle \/ (poll'.at = "posting" /\ poll'.doc = poll.doc)
    BY <1>9 DEF PollSaves, Completes, Shape, Poll
  <2>3. QED BY <1>3, <2>1, <2>2, DocFacts
<1>10. CASE PollPosts
  <2>1. /\ posts' = Bump(posts, poll.says) /\ poll'.at = "marking" /\ poll'.doc = poll.doc
        /\ poll'.says = poll.says /\ poll.says \subseteq Key /\ beat.at = "idle"
        /\ UNCHANGED <<kv, beat>>
    BY <1>10 DEF PollPosts, Apart, Shape, TypeOK, Poll, beatVars
  <2>2. \A k \in poll.says : posts'[k] > 0
    BY <2>1, BumpFacts DEF Shape, TypeOK
  <2>3. QED BY <1>3, <2>1, <2>2
<1>11. CASE PollMarks
  <2>1. /\ kv'.alerted = poll.doc.alerted \cup poll.says
        /\ kv'.seen = poll.doc.seen /\ kv'.lastPoll = poll.doc.lastPoll
    BY <1>11, MarkFacts
  <2>2. /\ poll.at = "marking" /\ beat.at = "idle" /\ beat' = beat
        /\ poll' = Idle /\ poll.says \subseteq Key
    BY <1>11 DEF PollMarks, Completes, Apart, Shape, TypeOK, beatVars
  <2>3. \A k \in poll.says : posts'[k] > 0
    BY <1>4, <2>2 DEF DocInv
  <2>4. Earned(kv)'
    BY <1>2, <2>1, <2>3 DEF Earned
  <2>5. QED BY <1>2, <2>2, <2>4, DocFacts DEF DocInv, Earned
<1>12. CASE BeatLoads
  <2>1. PICK doc \in Read, breach \in SUBSET Signal, clear \in SUBSET Signal :
          beat'.doc = Gated(doc, breach, clear) /\ Forgets(doc)
    BY <1>12 DEF BeatLoads
  <2>2. doc \in Doc /\ (doc = kv \/ doc = EmptyDoc)
    BY <2>1, ReadFacts DEF Shape
  <2>3. /\ beat'.doc.seen = doc.seen /\ beat'.doc.alerted = doc.alerted
        /\ beat'.doc.lastPoll = doc.lastPoll
    BY <2>1, <2>2 DEF Gated, Doc
  <2>4. poll.at = "idle" /\ UNCHANGED <<kv, poll>>
    BY <1>12 DEF BeatLoads, pollVars
  <2>5. Earned(beat.doc)'
    BY <1>2, <2>2, <2>3 DEF Earned
  <2>6. QED BY <1>2, <1>5, <2>2, <2>3, <2>4, <2>5 DEF DocInv, Earned
<1>13. CASE BeatPosts
  <2>1. beat'.doc = beat.doc /\ beat.at # "idle" /\ UNCHANGED <<kv, poll, posts>>
    BY <1>13 DEF BeatPosts, Shape, Beat, pollVars
  <2>2. QED BY <1>3, <2>1 DEF DocInv
<1>14. CASE BeatSaves
  <2>1. kv' = beat.doc /\ beat' = Idle /\ poll.at = "idle" /\ poll' = poll
    BY <1>14 DEF BeatSaves, Apart, pollVars
  <2>2. QED BY <1>3, <2>1, DocFacts
<1>15. CASE BeatDies
  <2>1. beat' = Idle /\ UNCHANGED <<kv, poll, posts>>
    BY <1>15 DEF BeatDies, pollVars
  <2>2. QED BY <1>3, <2>1, DocFacts DEF DocInv
<1>16. CASE Elsewhere \/ UNCHANGED vars
  <2>1. UNCHANGED <<kv, poll, beat, posts>>
    BY <1>16, ElsewhereFacts DEF vars, pollVars, beatVars
  <2>2. QED BY <1>3, <2>1 DEF DocInv
<1>17. QED
  BY <1>6, <1>7, <1>8, <1>9, <1>10, <1>11, <1>12, <1>13, <1>14, <1>15, <1>16, Steps
     DEF PollStep, BeatStep

-----------------------------------------------------------------------------
(* None slips out. *)

Wide == Slowest + Lag(MaxLost) <= Window

Past == Shape /\ Apart /\ ClockInv /\ RunInv /\ DocInv

LEMMA Numbers ==
  ASSUME Shape
  PROVE  /\ now \in Nat /\ polled \in Int /\ polled >= -1 /\ lost \in Nat /\ lost <= MaxLost
         /\ Period \in Nat \ {0} /\ Window \in Nat /\ Slowest \in Nat /\ MaxLost \in Nat
         /\ Lag(lost) \in Nat /\ Lag(lost + 1) = Lag(lost) + Period /\ Lag(0) = 0
         /\ Lag(MaxLost) \in Nat /\ Lag(lost) <= Lag(MaxLost)
         /\ lost < MaxLost => Lag(lost + 1) <= Lag(MaxLost)
<1>1. /\ now \in Nat /\ polled \in Int /\ polled >= -1 /\ lost \in Nat /\ lost <= MaxLost
      /\ Period \in Nat \ {0} /\ Window \in Nat /\ Slowest \in Nat /\ MaxLost \in Nat
  BY CollectorAssumption DEF Shape, TypeOK, Never
<1>2. QED BY <1>1, LagFacts DEF Lag

\* A run that has left the window of a document was created so long before the
\* last poll that it has completed, by the time of the polls that may have
\* failed since.
LEMMA OutIsOld ==
  ASSUME Past, Wide, NEW doc \in Doc, doc.lastPoll <= polled,
         NEW r \in Run, runs[r].verdict # "none", ~InWindow(r, doc)
  PROVE  runs[r].created + Slowest < polled - Lag(MaxLost)
<1>1. runs[r].created \in Nat
  BY DEF Past, RunInv
<1>2. doc.lastPoll \in {Never} \cup Nat /\ doc.lastPoll # Never
  BY <1>1, CollectorAssumption DEF Doc, InWindow, WindowStart
<1>3. Shape
  BY DEF Past
<1>4. runs[r].created < doc.lastPoll - Window
  BY <1>1, <1>2, <1>3, Numbers DEF InWindow, WindowStart
<1>5. QED BY <1>1, <1>2, <1>3, <1>4, Numbers DEF Wide

\* A poll that is at work, after fewer failures than may be, has it covered.
LEMMA OldIsCovered ==
  ASSUME Past, Wide, CoverInv, poll.at # "idle", lost < MaxLost,
         NEW doc \in Doc, doc.lastPoll <= polled,
         NEW r \in Run, runs[r].verdict \in Done, ~InWindow(r, doc)
  PROVE  Covered(r)
<1>1. runs[r].created + Slowest < polled - Lag(MaxLost)
  BY OutIsOld DEF Done
<1>2. /\ runs[r].finished \in Nat /\ runs[r].created \in Nat
      /\ runs[r].finished <= runs[r].created + Slowest
  BY DEF Past, RunInv, Done
<1>3. runs[r].finished < polled - Lag(lost + 1)
  BY <1>1, <1>2, Numbers DEF Past
<1>4. QED BY <1>3 DEF CoverInv, InTime, Behind

\* A poll that has listed everything has it covered, or is about to.
LEMMA OldIsHandled ==
  ASSUME Past, Wide, CoverInv, poll.at \in {"saving", "posting", "marking"},
         NEW doc \in Doc, doc.lastPoll <= polled,
         NEW r \in Run, runs[r].verdict \in Done, ~InWindow(r, doc)
  PROVE  Handled(r)
<1>1. CASE poll.whole
  <2>1. runs[r].created + Slowest < polled - Lag(MaxLost)
    BY OutIsOld DEF Done
  <2>2. /\ runs[r].finished \in Nat /\ runs[r].created \in Nat
        /\ runs[r].finished <= runs[r].created + Slowest
    BY DEF Past, RunInv, Done
  <2>3. runs[r].finished < polled
    BY <2>1, <2>2, Numbers DEF Past
  <2>4. QED BY <1>1, <2>3 DEF CoverInv, Listing
<1>2. CASE ~poll.whole
  <2>1. Covered(r)
    BY <1>2, OldIsCovered DEF Past, Shape
  <2>2. QED BY <2>1 DEF Covered, Handled
<1>3. QED BY <1>1, <1>2 DEF Past, Shape, Poll

\* A step that leaves runs, poll and clocks alone and takes nothing back keeps
\* the cover, as long as no run leaves the document's window.
LEMMA CoverKept ==
  ASSUME Past, CoverInv, UNCHANGED <<runs, polled, lost>>,
         poll' = poll, UNCHANGED <<rows, posts>>,
         \A r \in Run : runs[r].verdict \in Done /\ ~InWindow(r, kv)' => ~InWindow(r, kv)
  PROVE  CoverInv'
<1>1. ASSUME NEW r \in Run, runs[r].verdict \in Done
      PROVE  InTime(r)' /\ OutOfIt(r)' /\ Listing(r)'
  <2>1. KeyOf(r)' = KeyOf(r)
    BY DEF KeyOf
  <2>2. QED
    BY <1>1, <2>1 DEF CoverInv, InTime, OutOfIt, Listing, Handled, Covered, Behind, Lag
<1>2. QED BY <1>1 DEF CoverInv

\* A completed run is covered by the time it may slip out: GitHub's steps.
LEMMA CoverGitHub ==
  ASSUME Past, Wide, CoverInv, NEW q \in Run, RunCreated(q) \/ RunFinishes(q) \/ RunAgain(q)
  PROVE  CoverInv'
<1>1. Shape /\ UNCHANGED <<now, kv, poll, rows, posts, polled, lost>>
      /\ \A r \in Run \ {q} : runs'[r] = runs[r]
  BY GitHubFacts DEF Past
<1>2. ASSUME NEW r \in Run \ {q}, runs'[r].verdict \in Done
      PROVE  InTime(r)' /\ OutOfIt(r)' /\ Listing(r)'
  <2>1. runs'[r] = runs[r] /\ KeyOf(r)' = KeyOf(r)
    BY <1>1 DEF KeyOf
  <2>2. QED
    BY <1>1, <1>2, <2>1 DEF CoverInv, InTime, OutOfIt, Listing, Handled, Covered, Behind, Lag, InWindow,
       WindowStart
<1>3. ASSUME runs'[q].verdict \in Done
      PROVE  InTime(q)' /\ OutOfIt(q)' /\ Listing(q)'
  <2>1. /\ runs'[q].finished = now /\ now <= runs[q].created + Slowest
        /\ runs[q].verdict # "none" /\ runs'[q].created = runs[q].created
    BY <1>3, GitHubFacts DEF Past
  <2>2. polled <= now /\ runs[q].created \in Nat
    BY <1>1, <2>1, Numbers DEF Past, ClockInv, RunInv, Never
  <2>3. Behind' = Behind /\ Lag(Behind) \in Nat
    BY <1>1, Numbers DEF Behind
  <2>4. ~(now < polled - Lag(Behind)) /\ ~(now < polled)
    BY <1>1, <2>2, <2>3, Numbers
  <2>5. InTime(q)' /\ Listing(q)'
    BY <1>1, <2>1, <2>3, <2>4 DEF InTime, Listing, Lag
  <2>6. InWindow(q, kv)' = InWindow(q, kv)
    BY <1>1, <2>1 DEF InWindow, WindowStart
  <2>7. InWindow(q, kv)
    <3>1. SUFFICES ASSUME ~InWindow(q, kv) PROVE FALSE
      OBVIOUS
    <3>2. kv \in Doc /\ kv.lastPoll <= polled
      BY DEF Past, Shape, TypeOK, DocInv, Earned
    <3>3. runs[q].created + Slowest < polled - Lag(MaxLost)
      BY <2>1, <3>1, <3>2, OutIsOld
    <3>4. QED BY <1>1, <2>1, <2>2, <3>3, Numbers
  <2>8. QED BY <2>5, <2>6, <2>7 DEF OutOfIt
<1>4. QED BY <1>2, <1>3 DEF CoverInv

\* The start of a poll: what was behind by so many polls is behind by one more.
LEMMA CoverLoads ==
  ASSUME Past, CoverInv, PollLoads
  PROVE  CoverInv'
<1>1. /\ poll.at = "idle" /\ poll'.at = "scanning" /\ polled' = now
      /\ UNCHANGED <<runs, kv, rows, posts, lost>>
  BY DEF PollLoads
<1>2. Behind = lost /\ Behind' = lost + 1
  BY <1>1 DEF Behind
<1>3. Shape
  BY DEF Past
<1>4. ASSUME NEW r \in Run, runs[r].verdict \in Done, runs[r].finished < now - Lag(lost + 1)
      PROVE  runs[r].finished < polled - Lag(lost)
  <2>1. runs[r].finished \in Nat
    BY <1>4 DEF Past, RunInv
  <2>2. CASE polled = Never
    BY <1>3, <1>4, <2>1, <2>2, Numbers DEF Past, ClockInv
  <2>3. CASE polled # Never
    <3>1. now <= polled + Period
      BY <2>3 DEF Past, ClockInv
    <3>2. QED BY <1>3, <1>4, <2>1, <3>1, Numbers
  <2>4. QED BY <2>2, <2>3
<1>5. \A r \in Run : KeyOf(r)' = KeyOf(r) /\ InWindow(r, kv)' = InWindow(r, kv)
  BY <1>1 DEF KeyOf, InWindow, WindowStart
<1>6. ASSUME NEW r \in Run, runs[r].verdict \in Done
      PROVE  InTime(r)' /\ OutOfIt(r)' /\ Listing(r)'
  <2>1. Covered(r)' = Covered(r)
    BY <1>1, <1>5 DEF Covered
  <2>2. InTime(r)'
    <3>1. Lag(Behind)' = Lag(lost + 1)
      BY <1>2 DEF Lag
    <3>2. QED BY <1>1, <1>2, <1>4, <1>6, <2>1, <3>1 DEF CoverInv, InTime
  <2>3. QED BY <1>1, <1>5, <1>6, <2>1, <2>2 DEF CoverInv, OutOfIt, Listing
<1>7. QED BY <1>1, <1>6 DEF CoverInv

\* A scan that lists everything has or writes a row for every run that is in the
\* document's window, and has posted the red ones or sets them aside.
LEMMA CoverScans ==
  ASSUME Past, CoverInv, ClockInv, PollScans, [Next]_vars
  PROVE  CoverInv'
<1>1. PICK rs \in SUBSET Listed(poll.doc) :
        /\ KeysIn(rs) \subseteq Key
        /\ rows' = Bump(rows, KeysIn(rs) \ poll.doc.seen)
        /\ poll'.at = "saving"
        /\ poll'.says = KeysIn({r \in rs : runs[r].verdict = "failure"}) \ poll.doc.alerted
        /\ poll'.whole = (rs = Listed(poll.doc))
  BY ScanFacts DEF Past
<1>2. poll.at = "scanning" /\ UNCHANGED <<runs, kv, posts, polled, lost>>
  BY DEF PollScans
<1>3. \A r \in Run : KeyOf(r)' = KeyOf(r) /\ InWindow(r, kv)' = InWindow(r, kv) /\ KeyOf(r) \in Key
  BY <1>2 DEF KeyOf, InWindow, WindowStart, Past, Shape, TypeOK, Key
<1>4. \A k \in Key : rows[k] > 0 => rows'[k] > 0
  BY Grows DEF Past
<1>5. \A k \in KeysIn(rs) \ poll.doc.seen : rows'[k] > 0
  BY <1>1, BumpFacts DEF Past, Shape, TypeOK
<1>6. \A k \in poll.doc.seen : rows'[k] > 0
  BY <1>4 DEF Past, DocInv, Earned, Shape, TypeOK, Doc
<1>7. \A k \in poll.doc.alerted : posts[k] > 0
  BY DEF Past, DocInv, Earned
<1>8. ASSUME NEW r \in Run, Covered(r) PROVE Covered(r)'
  BY <1>2, <1>3, <1>4, <1>8 DEF Covered
<1>9. ASSUME NEW r \in Run, runs[r].verdict \in Done, poll'.whole
      PROVE  Handled(r)'
  <2>1. CASE r \in rs
    <3>1. KeyOf(r) \in KeysIn(rs)
      BY <2>1 DEF KeysIn
    <3>2. rows'[KeyOf(r)] > 0
      BY <1>5, <1>6, <3>1
    <3>3. ASSUME runs[r].verdict = "failure"
          PROVE  posts[KeyOf(r)] > 0 \/ KeyOf(r) \in poll'.says
      <4>1. KeyOf(r) \in KeysIn({q \in rs : runs[q].verdict = "failure"})
        BY <2>1, <3>3 DEF KeysIn
      <4>2. QED BY <1>1, <1>7, <4>1
    <3>4. QED BY <1>2, <1>3, <3>2, <3>3 DEF Handled
  <2>2. CASE r \notin rs
    <3>1. ~InWindow(r, poll.doc)
      BY <1>1, <1>9, <2>2 DEF Listed
    <3>2. runs[r].created >= 0
      BY <1>9 DEF Past, RunInv, Done
    <3>3. poll.doc.lastPoll = kv.lastPoll
      BY <1>2, <3>1, <3>2 DEF InWindow, WindowStart, Past, DocInv
    <3>4. ~InWindow(r, kv)
      BY <3>1, <3>3 DEF InWindow, WindowStart
    <3>5. Covered(r)
      BY <1>2, <1>9, <3>4 DEF CoverInv, OutOfIt
    <3>6. QED BY <1>8, <3>5 DEF Covered, Handled
  <2>3. QED BY <2>1, <2>2
<1>10. Behind' = Behind
  BY <1>1, <1>2 DEF Behind
<1>11. ASSUME NEW r \in Run, runs[r].verdict \in Done
       PROVE  InTime(r)' /\ OutOfIt(r)' /\ Listing(r)'
  <2>1. InTime(r)'
    BY <1>2, <1>8, <1>10, <1>11 DEF CoverInv, InTime, Lag
  <2>2. OutOfIt(r)'
    BY <1>2, <1>3, <1>8, <1>11 DEF CoverInv, OutOfIt
  <2>3. QED BY <1>9, <1>11, <2>1, <2>2 DEF Listing
<1>12. QED BY <1>2, <1>11 DEF CoverInv

\* A poll that ends before it could complete is one more behind.
LEMMA CoverFails ==
  ASSUME Past, Wide, CoverInv, ClockInv, PollDiesScanning \/ PollDies, [Next]_vars
  PROVE  CoverInv'
<1>1. /\ poll.at # "idle" /\ poll' = Idle /\ lost' = lost + 1 /\ lost < MaxLost
      /\ UNCHANGED <<runs, kv, polled>>
  BY DEF PollDiesScanning, PollDies, Fails
<1>2. Behind = lost + 1 /\ Behind' = lost + 1
  BY <1>1, DocFacts DEF Behind
<1>3. \A r \in Run : KeyOf(r)' = KeyOf(r) /\ InWindow(r, kv)' = InWindow(r, kv) /\ KeyOf(r) \in Key
  BY <1>1 DEF KeyOf, InWindow, WindowStart, Past, Shape, TypeOK, Key
<1>4. ASSUME NEW r \in Run, Covered(r) PROVE Covered(r)'
  <2>1. \A k \in Key : (rows[k] > 0 => rows'[k] > 0) /\ (posts[k] > 0 => posts'[k] > 0)
    BY Grows DEF Past
  <2>2. QED BY <1>1, <1>3, <1>4, <2>1 DEF Covered
<1>5. kv \in Doc /\ kv.lastPoll <= polled
  BY DEF Past, Shape, TypeOK, DocInv, Earned
<1>6. ASSUME NEW r \in Run, runs[r].verdict \in Done
      PROVE  InTime(r)' /\ OutOfIt(r)' /\ Listing(r)'
  <2>1. InTime(r)'
    BY <1>1, <1>2, <1>4, <1>6 DEF CoverInv, InTime, Lag
  <2>2. OutOfIt(r)'
    BY <1>1, <1>3, <1>4, <1>5, <1>6, OldIsCovered DEF OutOfIt
  <2>3. QED BY <1>1, <2>1, <2>2, DocFacts DEF Listing
<1>7. QED BY <1>1, <1>6 DEF CoverInv

\* A poll that has completed, and posted what it set aside.
LEMMA CoverCompletes ==
  ASSUME Past, Wide, CoverInv, Completes, UNCHANGED <<runs, polled, rows, posts>>,
         poll.at \in {"saving", "posting", "marking"}, kv' \in Doc, kv'.lastPoll <= polled,
         \A k \in poll.says : posts[k] > 0
  PROVE  CoverInv'
<1>1. poll' = Idle /\ lost' = IF poll.whole THEN 0 ELSE lost + 1
  BY DEF Completes
<1>2. Shape /\ poll.whole \in BOOLEAN /\ (~poll.whole => lost < MaxLost)
  BY DEF Past, Shape, Poll
<1>3. \A r \in Run : Covered(r)' = Covered(r) /\ KeyOf(r)' = KeyOf(r)
  BY DEF Covered, KeyOf
<1>4. \A r \in Run : Handled(r) => Covered(r)
  BY DEF Handled, Covered
<1>5. ASSUME NEW r \in Run, runs[r].verdict \in Done
      PROVE  InTime(r)' /\ OutOfIt(r)' /\ Listing(r)'
  <2>1. InTime(r)'
    <3>1. CASE poll.whole
      <4>1. Lag(Behind)' = 0
        BY <1>1, <1>2, <3>1, DocFacts, Numbers DEF Behind, Lag
      <4>2. runs[r].finished < polled => Covered(r)
        BY <1>4, <1>5, <3>1 DEF CoverInv, Listing
      <4>3. QED BY <1>2, <1>3, <4>1, <4>2, Numbers DEF InTime
    <3>2. CASE ~poll.whole
      <4>1. Lag(Behind)' = Lag(Behind)
        BY <1>1, <3>2, DocFacts DEF Behind, Lag
      <4>2. QED BY <1>3, <1>5, <4>1 DEF CoverInv, InTime
    <3>3. QED BY <3>1, <3>2
  <2>2. OutOfIt(r)'
    <3>1. PICK doc \in Doc : doc = kv' /\ doc.lastPoll <= polled
      OBVIOUS
    <3>2. InWindow(r, kv)' = InWindow(r, doc)
      BY <3>1 DEF InWindow, WindowStart
    <3>3. QED BY <1>3, <1>4, <1>5, <3>1, <3>2, OldIsHandled DEF OutOfIt
  <2>3. QED BY <1>1, <2>1, <2>2, DocFacts DEF Listing
<1>6. QED BY <1>5 DEF CoverInv

LEMMA CoverStep ==
  ASSUME Past, Wide, CoverInv, ~Crossing, [Next]_vars
  PROVE  CoverInv'
<1>1. CASE PollLoads
  BY <1>1, CoverLoads
<1>2. CASE PollScans
  BY <1>2, CoverScans DEF Past
<1>3. CASE PollDiesScanning \/ PollDies
  BY <1>3, CoverFails DEF Past
<1>4. CASE PollSaves
  <2>1. /\ poll.at = "saving" /\ kv' = poll.doc /\ kv' \in Doc /\ kv'.lastPoll <= polled
        /\ UNCHANGED <<runs, polled, rows, posts>>
    BY <1>4 DEF PollSaves, SaveBy, Past, Shape, TypeOK, DocInv, Earned
  <2>2. CASE poll.says = {}
    BY <1>4, <2>1, <2>2, CoverCompletes DEF PollSaves
  <2>3. CASE poll.says # {}
    <3>1. /\ lost' = lost /\ poll'.at = "posting" /\ poll'.says = poll.says /\ poll'.whole = poll.whole
      BY <1>4, <2>3 DEF PollSaves, Past, Shape, Poll
    <3>2. \A r \in Run : KeyOf(r)' = KeyOf(r)
      BY <2>1 DEF KeyOf
    <3>3. Behind' = Behind
      BY <2>1, <3>1 DEF Behind
    <3>4. QED
      BY <2>1, <3>1, <3>2, <3>3 DEF CoverInv, InTime, OutOfIt, Listing, Handled, Covered, Lag
  <2>4. QED BY <2>2, <2>3
<1>5. CASE PollPosts
  <2>1. /\ poll.at = "posting" /\ poll'.at = "marking" /\ poll'.says = poll.says
        /\ poll'.whole = poll.whole /\ UNCHANGED <<runs, kv, polled, rows, lost>>
    BY <1>5 DEF PollPosts, Past, Shape, Poll
  <2>2. \A r \in Run : KeyOf(r)' = KeyOf(r) /\ KeyOf(r) \in Key
    BY <2>1 DEF KeyOf, Past, Shape, TypeOK, Key
  <2>3. \A k \in Key : posts[k] > 0 => posts'[k] > 0
    BY Grows DEF Past
  <2>4. Behind' = Behind
    BY <2>1 DEF Behind
  <2>5. QED
    BY <2>1, <2>2, <2>3, <2>4 DEF CoverInv, InTime, OutOfIt, Listing, Handled, Covered, Lag
<1>6. CASE PollMarks
  <2>1. /\ kv' \in Doc /\ kv'.lastPoll = poll.doc.lastPoll
    BY <1>6, MarkFacts DEF Past
  <2>2. /\ poll.at = "marking" /\ Completes /\ UNCHANGED <<runs, polled, rows, posts>>
        /\ poll.doc.lastPoll <= polled /\ \A k \in poll.says : posts[k] > 0
    BY <1>6 DEF PollMarks, Past, DocInv, Earned
  <2>3. QED BY <2>1, <2>2, CoverCompletes
<1>7. CASE BeatStep
  <2>1. UNCHANGED <<runs, polled, lost, poll, rows, posts>>
    BY <1>7 DEF BeatStep, BeatLoads, BeatPosts, BeatSaves, BeatDies, pollVars
  <2>2. kv' = kv \/ (beat.at # "idle" /\ kv' = beat.doc)
    BY <1>7 DEF BeatStep, BeatLoads, BeatPosts, BeatSaves, BeatDies
  <2>3. kv'.lastPoll \in {Never, kv.lastPoll}
    BY <2>2 DEF Past, DocInv
  <2>4. ASSUME NEW r \in Run, runs[r].verdict \in Done, ~InWindow(r, kv)' PROVE ~InWindow(r, kv)
    <3>1. runs[r].created >= 0
      BY <2>4 DEF Past, RunInv, Done
    <3>2. QED BY <2>1, <2>3, <2>4, <3>1 DEF InWindow, WindowStart
  <2>5. QED BY <2>1, <2>4, CoverKept
<1>8. ASSUME NEW q \in Run, RunCreated(q) \/ RunFinishes(q) \/ RunAgain(q) PROVE CoverInv'
  BY <1>8, CoverGitHub
<1>9. CASE Tick \/ NextDay \/ UNCHANGED vars
  <2>1. UNCHANGED <<runs, polled, lost, poll, rows, posts, kv>>
    BY <1>9 DEF Tick, NextDay, vars, pollVars
  <2>2. \A r \in Run : InWindow(r, kv)' = InWindow(r, kv)
    BY <2>1 DEF InWindow, WindowStart
  <2>3. QED BY <2>1, <2>2, CoverKept
<1>10. QED
  BY <1>1, <1>2, <1>3, <1>4, <1>5, <1>6, <1>7, <1>8, <1>9, Steps DEF PollStep, Elsewhere

\* index.js, windowStart(): where the overlap spans the slowest run and the
\* polls that may fail in a row, no completed run leaves the window before it
\* has its row and, if it is red, its post, whatever was skipped, cut off,
\* re-run or read as empty.
THEOREM NoRunSlipsOut ==
  ASSUME ~Crossing, Slowest + MaxLost * Period <= Window
  PROVE  Spec => []NoneSlipsOut
<1>1. Wide
  BY DEF Wide, Lag
<1>2. Init => Past /\ CoverInv
  <2> SUFFICES ASSUME Init PROVE Past /\ CoverInv
    OBVIOUS
  <2>1. \A r \in Run : runs[r].verdict = "none"
    BY DEF Init
  <2>2. Apart /\ ClockInv /\ RunInv /\ CoverInv
    BY <2>1, DocFacts DEF Init, Apart, ClockInv, RunInv, CoverInv, Done
  <2>3. DocInv
    <3>1. Earned(EmptyDoc)
      BY ShapeInit, EmptyEarned
    <3>2. QED BY <3>1, DocFacts DEF Init, DocInv
  <2>4. QED BY <2>2, <2>3, ShapeInit DEF Past
<1>3. Past /\ [Next]_vars => Past'
  BY ShapeStep, ApartStep, ClockStep, RunStep, DocStep DEF Past
<1>4. Past /\ CoverInv /\ [Next]_vars => CoverInv'
  BY <1>1, CoverStep
<1>5. Past /\ CoverInv => NoneSlipsOut
  <2> SUFFICES ASSUME Past, CoverInv, NEW r \in Run, runs[r].verdict \in Done, ~InWindow(r, kv)
               PROVE  Handled(r)
    BY DEF NoneSlipsOut, Handled
  <2>1. kv \in Doc /\ kv.lastPoll <= polled
    BY DEF Past, Shape, TypeOK, DocInv, Earned
  <2>2. CASE poll.at \in {"saving", "posting", "marking"}
    BY <1>1, <2>1, <2>2, OldIsHandled
  <2>3. CASE poll.at \in {"idle", "scanning"}
    BY <2>3 DEF CoverInv, OutOfIt, Covered, Handled
  <2>4. QED BY <2>2, <2>3 DEF Past, Shape, TypeOK
<1>6. QED BY <1>2, <1>3, <1>4, <1>5, PTL DEF Spec

================================================================================
