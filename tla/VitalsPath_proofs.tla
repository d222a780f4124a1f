--------------------------- MODULE VitalsPath_proofs ---------------------------
(***************************************************************************)
(* For any lookback, threshold, write cap, buffer and number of beats that *)
(* fail in a row: a recovery is told only of a host that was observed, a   *)
(* silence is told in time, and a healthy host is not called silent.  For  *)
(* any loads, weights and size of a window: no flapping within a band.     *)
(***************************************************************************)
EXTENDS MCVitalsPath, SequenceTheorems, FiniteSetTheorems, WellFoundedInduction, TLAPS

-----------------------------------------------------------------------------
(* What the operators of the model return. *)

\* A set of numbers has a least one.
LEMMA LeastNat ==
  ASSUME NEW T, T \subseteq Nat, T # {}
  PROVE  \E m \in T : \A n \in T : m <= n
<1>1. PICK m \in T : \A n \in T : ~(<<n, m>> \in OpToRel(<, Nat))
  BY NatLessThanWellFounded, WFMin
<1>2. ASSUME NEW n \in T PROVE m <= n
  <2>1. ~(n < m)
    BY <1>1 DEF OpToRel
  <2>2. QED BY <2>1
<1>3. QED BY <1>2

\* A set of ages has its newest, which Min returns (the queries' MAX of the
\* source time).
LEMMA MinFacts ==
  ASSUME NEW S, S \subseteq Nat, S # {}
  PROVE  Min(S) \in S /\ \A n \in S : Min(S) <= n
BY LeastNat DEF Min

\* Ageing keeps an age within its cap and the order of two ages.
LEMMA OlderFacts ==
  ASSUME NEW cap \in Nat, NEW a \in 0 .. cap
  PROVE  /\ Older(a, cap) \in 0 .. cap
         /\ a <= Older(a, cap) /\ Older(a, cap) <= a + 1
         /\ \A b \in 0 .. cap : a <= b => Older(a, cap) <= Older(b, cap)
BY DEF Older, Never

LEMMA Bounds ==
  /\ OldAge \in Nat \ {0} /\ 0 \in Ages /\ Lookback <= OldAge
  /\ Told \in Nat /\ Told < Disarm
BY VitalsAssumption DEF OldAge, Told, Ages

\* The first n scrapes of the buffer and the rest of it.
LEMMA BatchFacts ==
  ASSUME NEW s, NEW A, s \in Seq(A), NEW n \in 0 .. Len(s)
  PROVE  /\ SubSeq(s, 1, n) \in Seq(A) /\ Len(SubSeq(s, 1, n)) = n
         /\ \A i \in 1 .. n : SubSeq(s, 1, n)[i] = s[i]
         /\ SubSeq(s, n + 1, Len(s)) \in Seq(A) /\ Len(SubSeq(s, n + 1, Len(s))) = Len(s) - n
         /\ \A i \in 1 .. Len(s) - n : SubSeq(s, n + 1, Len(s))[i] = s[n + i]
<1>1. Len(s) \in Nat /\ \A i \in 1 .. Len(s) : s[i] \in A
  BY LenProperties, ElementOfSeq
<1>2. SubSeq(s, 1, n) = [i \in 1 .. n |-> s[i]]
  BY <1>1 DEF SubSeq
<1>3. SubSeq(s, n + 1, Len(s)) = [i \in 1 .. Len(s) - n |-> s[n + i]]
  BY <1>1 DEF SubSeq
<1>4. SubSeq(s, 1, n) \in Seq(A) /\ Len(SubSeq(s, 1, n)) = n
  BY <1>1, <1>2
<1>5. SubSeq(s, n + 1, Len(s)) \in Seq(A) /\ Len(SubSeq(s, n + 1, Len(s))) = Len(s) - n
  BY <1>1, <1>3
<1>6. QED BY <1>2, <1>3, <1>4, <1>5

\* A batch becomes rows written now, the first of them always among them.
LEMMA RowsFacts ==
  ASSUME TypeOK, NEW n \in 1 .. Len(buffer), NEW weather
  PROVE  LET new == RowsOf(Written(SubSeq(buffer, 1, n), weather))
         IN /\ \A r \in new : r.at = 0 /\ \E i \in DOMAIN buffer : r.src = buffer[i]
            /\ new \subseteq [src : Ages, at : 0 .. Lookback - 1]
            /\ [src |-> buffer[1], at |-> 0] \in new
<1> DEFINE batch == SubSeq(buffer, 1, n)
           w     == Least(n, MaxWrites)
<1>1. buffer \in Seq(Ages) /\ Len(buffer) \in Nat /\ DOMAIN buffer = 1 .. Len(buffer)
      /\ \A i \in 1 .. Len(buffer) : buffer[i] \in Ages
  BY LenProperties, ElementOfSeq DEF TypeOK
<1>2. n \in 0 .. Len(buffer)
  BY <1>1
<1>3. batch \in Seq(Ages) /\ Len(batch) = n /\ \A i \in 1 .. n : batch[i] = buffer[i]
  BY <1>1, <1>2, BatchFacts
<1>4. w \in 1 .. n
  BY VitalsAssumption, <1>1 DEF Least
<1>5. w \in 0 .. Len(batch)
  BY <1>3, <1>4
<1>6. SubSeq(batch, 1, w) \in Seq(Ages) /\ Len(SubSeq(batch, 1, w)) = w
      /\ \A i \in 1 .. w : SubSeq(batch, 1, w)[i] = batch[i]
  BY <1>3, <1>5, BatchFacts
<1>7. Written(batch, weather) = SubSeq(batch, 1, w)
  BY <1>3 DEF Written
<1>8. DOMAIN SubSeq(batch, 1, w) = 1 .. w
  BY <1>6, LenProperties
<1>9. RowsOf(Written(batch, weather)) = {[src |-> buffer[i], at |-> 0] : i \in 1 .. w}
  <2>1. \A i \in 1 .. w : SubSeq(batch, 1, w)[i] = buffer[i]
    BY <1>3, <1>4, <1>6
  <2>2. RowsOf(SubSeq(batch, 1, w)) = {[src |-> SubSeq(batch, 1, w)[i], at |-> 0] : i \in 1 .. w}
    BY <1>8 DEF RowsOf
  <2>3. QED BY <1>7, <2>1, <2>2
<1>10. 1 .. w \subseteq DOMAIN buffer /\ 1 \in 1 .. w
  BY <1>1, <1>4
<1>11. 0 \in 0 .. Lookback - 1
  BY VitalsAssumption
<1> HIDE DEF batch, w
<1> DEFINE written == {[src |-> buffer[i], at |-> 0] : i \in 1 .. w}
<1>12. ASSUME NEW r \in written
       PROVE  /\ r.at = 0 /\ \E i \in DOMAIN buffer : r.src = buffer[i]
              /\ r \in [src : Ages, at : 0 .. Lookback - 1]
  <2>1. PICK i \in 1 .. w : r = [src |-> buffer[i], at |-> 0]
    OBVIOUS
  <2>2. i \in DOMAIN buffer /\ buffer[i] \in Ages
    BY <1>1, <1>10
  <2>3. QED BY <1>11, <2>1, <2>2
<1>13. [src |-> buffer[1], at |-> 0] \in written
  BY <1>10
<1>14. RowsOf(Written(SubSeq(buffer, 1, n), weather)) = written
  BY <1>9 DEF batch
<1> HIDE DEF written
<1>15. QED BY <1>12, <1>13, <1>14

\* Kept drops no row that decides a query: not one that is as new as can be,
\* and not the last one of the past period.
LEMMA KeptFacts ==
  ASSUME NEW rs, rs \subseteq [src : Nat, at : Nat]
  PROVE  /\ Kept(rs) \subseteq rs
         /\ \A r \in rs : r.src = 0 => r \in Kept(rs)
         /\ (\E r \in rs : r.src <= 1 /\ r.at <= 1) => \E r \in Kept(rs) : r.src <= 1 /\ r.at <= 1
<1>1. Kept(rs) \subseteq rs /\ \A r \in rs : r.src = 0 => r \in Kept(rs)
  BY DEF Kept
<1>2. ASSUME NEW r \in rs, r.src <= 1, r.at <= 1
      PROVE  \E q \in Kept(rs) : q.src <= 1 /\ q.at <= 1
  <2>1. CASE r \in Kept(rs)
    BY <1>2, <2>1
  <2>2. CASE r \notin Kept(rs)
    <3>1. PICK q \in rs : r.at >= q.at /\ ~(r.src <= q.src)
      BY <2>2 DEF Kept
    <3>2. q.src = 0 /\ q.at <= 1
      BY <1>2, <3>1
    <3>3. QED BY <1>1, <3>2
  <2>3. QED BY <2>1, <2>2
<1>3. QED BY <1>1, <1>2

\* The rows a period later.
Aged == {[src |-> Older(r.src, OldAge), at |-> r.at + 1] : r \in {q \in rows : q.at + 1 < Lookback}}

LEMMA AgedFacts ==
  ASSUME TypeOK
  PROVE  /\ Aged \subseteq [src : Ages, at : 0 .. Lookback - 1]
         /\ \A r \in Aged : \E q \in rows : r.src = Older(q.src, OldAge)
         /\ \A q \in rows : q.at + 1 < Lookback =>
              [src |-> Older(q.src, OldAge), at |-> q.at + 1] \in Aged
<1>1. \A q \in rows : q.src \in 0 .. OldAge /\ q.at \in 0 .. Lookback - 1
                      /\ q = [src |-> q.src, at |-> q.at]
  BY DEF TypeOK, Ages
<1>2. \A q \in rows : Older(q.src, OldAge) \in Ages
  BY <1>1, Bounds, OlderFacts DEF Ages
<1>3. \A q \in rows : q.at + 1 < Lookback => q.at + 1 \in 0 .. Lookback - 1
  BY <1>1, VitalsAssumption
<1>4. QED BY <1>1, <1>2, <1>3 DEF Aged

-----------------------------------------------------------------------------
(* Type correctness. *)

LEMMA RowsNat ==
  ASSUME NEW rs, rs \subseteq [src : Ages, at : 0 .. Lookback - 1]
  PROVE  rs \subseteq [src : Nat, at : Nat]
BY Bounds, VitalsAssumption DEF Ages

LEMMA DeliverTyped ==
  ASSUME TypeOK, NEW n \in 1 .. Len(buffer), NEW weather, Ingest(n, weather)
  PROVE  /\ rows' \subseteq [src : Ages, at : 0 .. Lookback - 1]
         /\ blindFor' \in Ages
         /\ buffer' \in Seq(Ages) /\ Len(buffer') <= MaxBuffer
<1> DEFINE new == RowsOf(Written(SubSeq(buffer, 1, n), weather))
<1>1. new \subseteq [src : Ages, at : 0 .. Lookback - 1]
  BY RowsFacts
<1>2. rows \cup new \subseteq [src : Ages, at : 0 .. Lookback - 1]
  BY <1>1 DEF TypeOK
<1>3. Kept(rows \cup new) \subseteq rows \cup new
  BY <1>2, RowsNat, KeptFacts
<1>4. rows' \subseteq [src : Ages, at : 0 .. Lookback - 1]
  BY <1>2, <1>3 DEF Ingest
<1>5. {blindFor} \cup {r.src : r \in new} \subseteq Ages
  BY <1>1 DEF TypeOK
<1>6. Ages \subseteq Nat
  BY Bounds DEF Ages
<1>7. Min({blindFor} \cup {r.src : r \in new}) \in {blindFor} \cup {r.src : r \in new}
  BY <1>5, <1>6, MinFacts
<1>8. blindFor' \in Ages
  BY <1>5, <1>7 DEF Ingest
<1>9. buffer \in Seq(Ages) /\ Len(buffer) \in Nat /\ Len(buffer) <= MaxBuffer
  BY LenProperties DEF TypeOK
<1>10. n \in 0 .. Len(buffer)
  BY <1>9
<1>11. SubSeq(buffer, n + 1, Len(buffer)) \in Seq(Ages)
       /\ Len(SubSeq(buffer, n + 1, Len(buffer))) = Len(buffer) - n
  BY <1>9, <1>10, BatchFacts
<1>12. Len(buffer) - n <= MaxBuffer
  BY <1>9, <1>10, VitalsAssumption
<1>13. buffer' \in Seq(Ages) /\ Len(buffer') <= MaxBuffer
  BY <1>9, <1>11, <1>12 DEF Ingest
<1>14. QED BY <1>4, <1>8, <1>13

\* The scrapes held back, a period later.
Held == [i \in DOMAIN buffer |-> Older(buffer[i], OldAge)]

LEMMA TickTyped ==
  ASSUME TypeOK, Tick
  PROVE  /\ buffer' \in Seq(Ages) /\ Len(buffer') <= MaxBuffer
         /\ Held \in Seq(Ages) /\ Len(Held) = Len(buffer)
         /\ rows' \subseteq Aged /\ rows' = Kept(Aged) /\ Aged \subseteq [src : Nat, at : Nat]
         /\ rows' \subseteq [src : Ages, at : 0 .. Lookback - 1]
         /\ bus' \in {Never} \cup 0 .. Disarm + 1
         /\ scraped' \in Ages /\ blindFor' \in Ages /\ healthyFor' \in 0 .. 2
<1>1. buffer \in Seq(Ages) /\ Len(buffer) \in Nat /\ DOMAIN buffer = 1 .. Len(buffer)
      /\ Len(buffer) <= MaxBuffer /\ \A i \in 1 .. Len(buffer) : buffer[i] \in Ages
  BY LenProperties, ElementOfSeq DEF TypeOK
<1>2. \A a \in Ages : Older(a, OldAge) \in Ages
  BY Bounds, OlderFacts DEF Ages
<1>3. Held \in Seq(Ages) /\ Len(Held) = Len(buffer)
  BY <1>1, <1>2 DEF Held
<1>4. Append(Held, 0) \in Seq(Ages) /\ Len(Append(Held, 0)) = Len(buffer) + 1
  BY <1>1, <1>3, Bounds, AppendProperties
<1>5. buffer' = IF agent /\ Len(buffer) < MaxBuffer THEN Append(Held, 0) ELSE Held
  BY DEF Tick, Held
<1>6. buffer' \in Seq(Ages) /\ Len(buffer') <= MaxBuffer
  <2>1. CASE agent /\ Len(buffer) < MaxBuffer
    BY <1>1, <1>4, <1>5, <2>1, VitalsAssumption
  <2>2. CASE ~(agent /\ Len(buffer) < MaxBuffer)
    BY <1>1, <1>3, <1>5, <2>2
  <2>3. QED BY <2>1, <2>2
<1>7. rows' = Kept(Aged)
  BY DEF Tick, Aged
<1>8. Aged \subseteq [src : Ages, at : 0 .. Lookback - 1]
  BY AgedFacts
<1>9. Aged \subseteq [src : Nat, at : Nat]
  BY <1>8, RowsNat
<1>10. rows' \subseteq Aged
  BY <1>7, <1>9, KeptFacts
<1>11. bus' \in {Never} \cup 0 .. Disarm + 1
  <2>1. bus' = Older(bus, Disarm + 1)
    BY DEF Tick
  <2>2. bus \in {Never} \cup 0 .. Disarm + 1
    BY DEF TypeOK
  <2>3. QED BY <2>1, <2>2, VitalsAssumption DEF Older, Never
<1>12. scraped' \in Ages /\ blindFor' \in Ages
  BY <1>2, Bounds DEF Tick, TypeOK
<1>13. healthyFor' \in 0 .. 2
  <2>1. healthyFor \in 0 .. 2 /\ healthyFor' \in {0, Least(healthyFor + 1, 2)}
    BY DEF Tick, TypeOK
  <2>2. QED BY <2>1 DEF Least
<1>14. QED BY <1>3, <1>6, <1>7, <1>8, <1>9, <1>10, <1>11, <1>12, <1>13

Doc  == [told : SUBSET Signal, active : SUBSET Signal]
Beat == [at : {"idle", "posting", "saving"}, breach : SUBSET Signal, clear : SUBSET Signal]

LEMMA Zeros ==
  /\ <<>> \in Seq(Ages) /\ Len(<<>>) = 0 /\ 0 <= MaxBuffer
  /\ 0 \in 0 .. MaxLost /\ 0 \in 0 .. 2 /\ NoBeat \in Beat
BY VitalsAssumption DEF Beat, NoBeat

LEMMA Typing ==
  Spec => []TypeOK
<1> USE DEF Doc, Beat
<1>1. Init => TypeOK
  <2>1. [told |-> {}, active |-> {}] \in Doc /\ {} \subseteq [src : Ages, at : 0 .. Lookback - 1]
    OBVIOUS
  <2>2. QED BY <2>1, Zeros, Bounds DEF Init, TypeOK
<1>2. ASSUME TypeOK, [Next]_vars PROVE TypeOK'
  <2> USE <1>2
  <2>1. CASE AgentChanges
    <3>1. agent' \in BOOLEAN /\ buffer' \in Seq(Ages) /\ Len(buffer') <= MaxBuffer
      BY <2>1, Zeros DEF AgentChanges, TypeOK
    <3>2. QED BY <2>1, <3>1, Zeros DEF AgentChanges, TypeOK, data, gate
  <2>2. CASE PathChanges
    BY <2>2 DEF PathChanges, TypeOK, data, gate
  <2>3. CASE Deliver
    <3>1. PICK n \in 1 .. Len(buffer), weather \in 0 .. MaxWrites : Ingest(n, weather)
      BY <2>3 DEF Deliver
    <3>2. /\ rows' \subseteq [src : Ages, at : 0 .. Lookback - 1] /\ blindFor' \in Ages
          /\ buffer' \in Seq(Ages) /\ Len(buffer') <= MaxBuffer
      BY <3>1, DeliverTyped
    <3>3. QED BY <2>3, <3>2 DEF Deliver, TypeOK, gate
  <2>4. CASE Refuse
    <3>1. PICK n \in 1 .. Len(buffer) : buffer' = SubSeq(buffer, n + 1, Len(buffer))
      BY <2>4 DEF Refuse
    <3>2. buffer \in Seq(Ages) /\ Len(buffer) \in Nat /\ n \in 0 .. Len(buffer)
      BY <3>1, LenProperties DEF TypeOK
    <3>3. buffer' \in Seq(Ages) /\ Len(buffer') = Len(buffer) - n
      BY <3>1, <3>2, BatchFacts
    <3>4. Len(buffer') <= MaxBuffer
      BY <3>2, <3>3, VitalsAssumption DEF TypeOK
    <3>5. QED BY <2>4, <3>3, <3>4 DEF Refuse, TypeOK, data, gate
  <2>5. CASE BusPublishes
    BY <2>5, VitalsAssumption DEF BusPublishes, TypeOK, host, gate
  <2>6. CASE BeatJudges
    BY <2>6 DEF BeatJudges, TypeOK, host, data
  <2>7. CASE BeatPosts
    <3>1. beat' \in Beat
      BY <2>7 DEF BeatPosts, TypeOK
    <3>2. QED BY <2>7, <3>1 DEF BeatPosts, TypeOK, Alerts, host, data
  <2>8. CASE BeatSaves
    <3>1. kv' \in Doc
      BY <2>8 DEF BeatSaves, TypeOK, Gated
    <3>2. QED BY <2>8, <3>1, Zeros DEF BeatSaves, TypeOK, host, data
  <2>9. CASE BeatDies
    <3>1. lost' \in 0 .. MaxLost
      BY <2>9, VitalsAssumption DEF BeatDies, TypeOK
    <3>2. posted' \subseteq Signal
      BY <2>9 DEF BeatDies, TypeOK, Alerts
    <3>3. QED BY <2>9, <3>1, <3>2, Zeros DEF BeatDies, TypeOK, host, data
  <2>10. CASE NextDay
    <3>1. kv' \in Doc
      BY <2>10 DEF NextDay, TypeOK
    <3>2. QED BY <2>10, <3>1 DEF NextDay, TypeOK, host, data
  <2>11. CASE Tick
    BY <2>11, TickTyped DEF Tick, TypeOK
  <2>12. CASE UNCHANGED vars
    BY <2>12 DEF TypeOK, vars, host, data, gate
  <2>13. QED
    BY <2>1, <2>2, <2>3, <2>4, <2>5, <2>6, <2>7, <2>8, <2>9, <2>10, <2>11, <2>12 DEF Next
<1>3. QED BY <1>1, <1>2, PTL DEF Spec


-----------------------------------------------------------------------------
(* What the properties rest on. *)

\* A beat is at work only in the period it is due in, and has its verdicts from
\* there.
BeatInPeriod ==
  /\ beat.at # "idle" => due
  /\ beat.at = "idle" => beat.breach = {} /\ beat.clear = {}

\* No row, and no scrape held back, is newer than the newest scrape; no row is
\* newer than the newest that landed.
NoneNewer ==
  /\ \A r \in rows : scraped <= r.src /\ blindFor <= r.src
  /\ \A i \in DOMAIN buffer : scraped <= buffer[i]

\* A silence that began before the beat is among its verdicts: within a period
\* ages only fall.
BreachIsSeen ==
  beat.at # "idle" =>
    /\ blindFor > Silent => "silent" \in beat.breach
    /\ bus > Silent /\ bus <= Disarm => "bus-silent" \in beat.breach

\* The gate: what was told was posted, and is posted before it is saved.
GateSound ==
  /\ kv.told \subseteq posted
  /\ beat.at = "saving" => beat.breach \subseteq posted
  /\ beat.breach \cap beat.clear = {}

\* Every beat since the threshold was passed has failed, or the silence is told.
Tells(signal, age) ==
  age > Silent =>
    \/ signal \in kv.active \cap posted
    \/ lost >= age - Silent - (IF due THEN 1 ELSE 0)
Telling == Tells("silent", blindFor) /\ (bus <= Disarm => Tells("bus-silent", bus))

\* Two periods of health: the scrape of each is delivered before the next.
HealthSound ==
  /\ healthyFor > 0 =>
       /\ agent /\ path = "up"
       /\ buffer = <<>> \/ buffer = <<0>>
       /\ buffer = <<>> => \E r \in rows : r.src = 0 /\ r.at = 0
  /\ healthyFor = 2 =>
       /\ \E r \in rows : r.src <= 1 /\ r.at <= 1
       /\ "silent" \notin beat.breach

AgesInv   == NoneNewer /\ RecoveryIsReal
HealthInv == BeatInPeriod /\ HealthSound
TellInv    == BreachIsSeen /\ GateSound /\ Telling

-----------------------------------------------------------------------------
(* The verdicts. *)

\* While the two hosts differ, the newest source time of the lookback is that
\* of a row of the host's own.
LEMMA VerdictFacts ==
  ASSUME TypeOK, NoneNewer, Host # BusHost
  PROVE  /\ SilentState = "clear" => 2 * scraped <= Silent
         /\ blindFor > Silent => SilentState = "breach"
<1>1. Fresh = {r.src : r \in {q \in rows : q.at < Lookback}}
  BY DEF Fresh, SameHost
<1>2. Fresh \subseteq Nat /\ scraped \in Nat /\ blindFor \in Nat /\ Silent \in Nat
  BY <1>1, Bounds, VitalsAssumption DEF TypeOK, Ages
<1>3. \A a \in Fresh : scraped <= a /\ blindFor <= a
  BY <1>1 DEF NoneNewer
<1>4. CASE Fresh = {}
  BY <1>4 DEF SilentState
<1>5. CASE Fresh # {}
  <2>1. PICK a \in Fresh : a = Min(Fresh)
    BY <1>2, <1>5, MinFacts
  <2>2. SilentState = AgeState(a)
    BY <1>5, <2>1 DEF SilentState
  <2>3. a \in Nat /\ scraped <= a /\ blindFor <= a
    BY <1>2, <1>3
  <2>4. QED BY <1>2, <2>2, <2>3 DEF AgeState
<1>6. QED BY <1>4, <1>5

\* A row written in the last period from a scrape of the last period keeps the
\* signal quiet, whoever the rows' hosts are.
LEMMA QuietFacts ==
  ASSUME TypeOK, NEW r \in rows, r.src <= 1, r.at <= 1
  PROVE  SilentState # "breach"
<1>1. r.src \in Fresh
  BY VitalsAssumption DEF Fresh, TypeOK
<1>2. Fresh \subseteq Nat
  BY Bounds, VitalsAssumption DEF Fresh, TypeOK, Ages
<1>3. Min(Fresh) \in Nat /\ r.src \in Nat /\ Min(Fresh) <= r.src
  BY <1>1, <1>2, MinFacts
<1>4. Min(Fresh) <= Silent
  BY <1>3, VitalsAssumption
<1>5. QED BY <1>1, <1>3, <1>4, VitalsAssumption DEF SilentState, AgeState

LEMMA BusVerdictFacts ==
  ASSUME TypeOK
  PROVE  bus > Silent /\ bus <= Disarm => BusState = "breach"
BY VitalsAssumption DEF BusState, AgeState, TypeOK, Never

-----------------------------------------------------------------------------
(* The ages. *)

\* A batch that lands moves the newest that landed no further than its rows.
LEMMA DeliverAges ==
  ASSUME TypeOK, NEW n \in 1 .. Len(buffer), NEW weather, Ingest(n, weather)
  PROVE  LET new == RowsOf(Written(SubSeq(buffer, 1, n), weather))
         IN /\ rows' = Kept(rows \cup new) /\ rows \cup new \subseteq [src : Nat, at : Nat]
            /\ \A r \in rows' : r \in rows \/ r \in new
            /\ blindFor' <= blindFor /\ \A r \in new : blindFor' <= r.src
            /\ \A i \in DOMAIN buffer' : \E k \in DOMAIN buffer : buffer'[i] = buffer[k]
<1> DEFINE new == RowsOf(Written(SubSeq(buffer, 1, n), weather))
<1>1. new \subseteq [src : Ages, at : 0 .. Lookback - 1]
  BY RowsFacts
<1>2. rows \cup new \subseteq [src : Nat, at : Nat]
  BY <1>1, RowsNat DEF TypeOK
<1>3. rows' = Kept(rows \cup new) /\ blindFor' = Min({blindFor} \cup {r.src : r \in new})
  BY DEF Ingest
<1>4. \A r \in rows' : r \in rows \/ r \in new
  BY <1>2, <1>3, KeptFacts
<1>5. {blindFor} \cup {r.src : r \in new} \subseteq Nat
  BY <1>2, Bounds DEF TypeOK, Ages
<1>6. blindFor' <= blindFor /\ \A r \in new : blindFor' <= r.src
  BY <1>3, <1>5, MinFacts
<1>7. buffer \in Seq(Ages) /\ Len(buffer) \in Nat /\ DOMAIN buffer = 1 .. Len(buffer)
      /\ n \in 0 .. Len(buffer)
  BY LenProperties DEF TypeOK
<1>8. \A i \in DOMAIN buffer' : \E k \in DOMAIN buffer : buffer'[i] = buffer[k]
  <2>1. CASE buffer' = buffer
    BY <2>1
  <2>2. CASE buffer' = SubSeq(buffer, n + 1, Len(buffer))
    <3>1. buffer' \in Seq(Ages) /\ Len(buffer') = Len(buffer) - n
          /\ \A i \in 1 .. Len(buffer) - n : buffer'[i] = buffer[n + i]
      BY <1>7, <2>2, BatchFacts
    <3>2. DOMAIN buffer' = 1 .. Len(buffer) - n
      BY <3>1, LenProperties
    <3>3. ASSUME NEW i \in DOMAIN buffer'
          PROVE  n + i \in DOMAIN buffer /\ buffer'[i] = buffer[n + i]
      BY <1>7, <3>1, <3>2
    <3>4. QED BY <3>3
  <2>3. QED BY <2>1, <2>2 DEF Ingest
<1>9. QED BY <1>2, <1>3, <1>4, <1>6, <1>8

\* A period later every age is a period older, at most, and in the same order.
LEMMA TickAges ==
  ASSUME TypeOK, NoneNewer, Tick
  PROVE  NoneNewer'
<1>1. buffer \in Seq(Ages) /\ DOMAIN buffer = 1 .. Len(buffer) /\ Len(buffer) \in Nat
      /\ \A i \in DOMAIN buffer : buffer[i] \in Ages
  BY LenProperties, ElementOfSeq DEF TypeOK
<1>2. scraped \in Ages /\ blindFor \in Ages /\ \A r \in rows : r.src \in Ages
  BY DEF TypeOK
<1>3. \A a, b \in Ages : a <= b => Older(a, OldAge) <= Older(b, OldAge)
  BY Bounds, OlderFacts DEF Ages
<1>4. ASSUME NEW a \in Ages PROVE Older(a, OldAge) \in Nat
  <2>1. Older(a, OldAge) \in 0 .. OldAge
    BY Bounds, OlderFacts DEF Ages
  <2>2. QED BY <2>1, Bounds
<1>5. scraped' <= Older(scraped, OldAge) /\ blindFor' = Older(blindFor, OldAge)
  BY <1>2, <1>4 DEF Tick
<1>6. \A r \in rows' : \E q \in rows : r.src = Older(q.src, OldAge)
  BY TickTyped, AgedFacts
<1>7. scraped' \in Nat
  BY <1>2, <1>4 DEF Tick
<1>8. \A r \in rows' : scraped' <= r.src /\ blindFor' <= r.src
  <2> TAKE r \in rows'
  <2>1. PICK q \in rows : r.src = Older(q.src, OldAge)
    BY <1>6
  <2>2. Older(scraped, OldAge) <= Older(q.src, OldAge) /\ Older(blindFor, OldAge) <= Older(q.src, OldAge)
    BY <1>2, <1>3 DEF NoneNewer
  <2>3. QED BY <1>2, <1>4, <1>5, <1>7, <2>1, <2>2
<1>9. \A i \in DOMAIN Held : Held[i] = Older(buffer[i], OldAge) /\ scraped' <= Held[i]
  <2> TAKE i \in DOMAIN Held
  <2>1. i \in DOMAIN buffer /\ Held[i] = Older(buffer[i], OldAge)
    BY DEF Held
  <2>2. Older(scraped, OldAge) <= Held[i]
    BY <1>1, <1>2, <1>3, <2>1 DEF NoneNewer
  <2>3. QED BY <1>1, <1>2, <1>4, <1>5, <1>7, <2>1, <2>2
<1>10. \A i \in DOMAIN buffer' : scraped' <= buffer'[i]
  <2>1. CASE agent /\ Len(buffer) < MaxBuffer
    <3>1. buffer' = Append(Held, 0) /\ scraped' = 0
      BY <2>1 DEF Tick, Held
    <3>2. buffer' \in Seq(Ages) /\ DOMAIN buffer' = 1 .. Len(buffer')
          /\ \A i \in 1 .. Len(buffer') : buffer'[i] \in Ages
      BY TickTyped, LenProperties, ElementOfSeq
    <3>3. QED BY <3>1, <3>2, Bounds DEF Ages
  <2>2. CASE ~(agent /\ Len(buffer) < MaxBuffer)
    <3>1. buffer' = Held
      BY <2>2 DEF Tick, Held
    <3>2. QED BY <1>9, <3>1
  <2>3. QED BY <2>1, <2>2
<1>11. QED BY <1>8, <1>10 DEF NoneNewer

LEMMA AgesStep ==
  ASSUME TypeOK, BeatInPeriod, NoneNewer, RecoveryIsReal, Host # BusHost, [Next]_vars
  PROVE  AgesInv'
<1> USE DEF AgesInv, NoneNewer, RecoveryIsReal
<1>1. CASE AgentChanges
  BY <1>1 DEF AgentChanges, data, gate
<1>2. CASE PathChanges
  BY <1>2 DEF PathChanges, data, gate
<1>3. CASE Deliver
  <2>1. PICK n \in 1 .. Len(buffer), weather \in 0 .. MaxWrites : Ingest(n, weather)
    BY <1>3 DEF Deliver
  <2>2. PICK new : /\ new = RowsOf(Written(SubSeq(buffer, 1, n), weather))
                   /\ \A r \in rows' : r \in rows \/ r \in new
                   /\ blindFor' <= blindFor /\ \A r \in new : blindFor' <= r.src
                   /\ \A i \in DOMAIN buffer' : \E k \in DOMAIN buffer : buffer'[i] = buffer[k]
    BY <2>1, DeliverAges
  <2>3. \A r \in new : \E i \in DOMAIN buffer : r.src = buffer[i]
    BY <2>2, RowsFacts
  <2>4. scraped' = scraped /\ beat' = beat
    BY <1>3 DEF Deliver, gate
  <2>5. blindFor \in Nat /\ blindFor' \in Nat /\ \A r \in rows : r.src \in Nat
    BY <2>1, DeliverTyped, Bounds DEF TypeOK, Ages
  <2>6. \A r \in rows' : scraped' <= r.src
    BY <2>2, <2>3, <2>4
  <2>7. \A r \in rows' : blindFor' <= r.src
    BY <2>2, <2>5
  <2>8. QED BY <2>2, <2>4, <2>6, <2>7
<1>4. CASE Refuse
  <2>1. PICK n \in 1 .. Len(buffer) : buffer' = SubSeq(buffer, n + 1, Len(buffer))
    BY <1>4 DEF Refuse
  <2>2. buffer \in Seq(Ages) /\ Len(buffer) \in Nat /\ DOMAIN buffer = 1 .. Len(buffer)
        /\ n \in 0 .. Len(buffer)
    BY <2>1, LenProperties DEF TypeOK
  <2>3. buffer' \in Seq(Ages) /\ Len(buffer') = Len(buffer) - n
        /\ \A i \in 1 .. Len(buffer) - n : buffer'[i] = buffer[n + i]
    BY <2>1, <2>2, BatchFacts
  <2>4. DOMAIN buffer' = 1 .. Len(buffer) - n
    BY <2>3, LenProperties
  <2>5. ASSUME NEW i \in DOMAIN buffer' PROVE scraped <= buffer'[i]
    <3>1. n + i \in DOMAIN buffer /\ buffer'[i] = buffer[n + i]
      BY <2>2, <2>3, <2>4
    <3>2. QED BY <3>1
  <2>6. QED BY <1>4, <2>5 DEF Refuse, data, gate
<1>5. CASE BusPublishes
  BY <1>5 DEF BusPublishes, host, gate
<1>6. CASE BeatJudges
  <2>1. "silent" \in beat'.clear => SilentState = "clear"
    BY <1>6 DEF BeatJudges, Observed, Signal
  <2>2. QED BY <1>6, <2>1, VerdictFacts DEF BeatJudges, host, data
<1>7. CASE BeatPosts
  <2>1. beat'.clear = beat.clear
    BY <1>7 DEF BeatPosts, TypeOK
  <2>2. QED BY <1>7, <2>1 DEF BeatPosts, host, data
<1>8. CASE BeatSaves
  BY <1>8 DEF BeatSaves, NoBeat, host, data
<1>9. CASE BeatDies
  BY <1>9 DEF BeatDies, NoBeat, host, data
<1>10. CASE NextDay
  BY <1>10 DEF NextDay, host, data
<1>11. CASE Tick
  <2>1. NoneNewer'
    BY <1>11, TickAges
  <2>2. beat' = beat /\ beat.clear = {}
    BY <1>11 DEF Tick, BeatInPeriod, TypeOK
  <2>3. QED BY <2>1, <2>2
<1>12. CASE UNCHANGED vars
  BY <1>12 DEF vars, host, data, gate
<1>13. QED
  BY <1>1, <1>2, <1>3, <1>4, <1>5, <1>6, <1>7, <1>8, <1>9, <1>10, <1>11, <1>12 DEF Next

-----------------------------------------------------------------------------
(* Health. *)

LEMMA PeriodStep ==
  ASSUME TypeOK, BeatInPeriod, [Next]_vars
  PROVE  BeatInPeriod'
<1> USE DEF BeatInPeriod
<1>1. CASE BeatJudges
  BY <1>1 DEF BeatJudges
<1>2. CASE BeatPosts
  BY <1>2 DEF BeatPosts, TypeOK
<1>3. CASE BeatSaves \/ BeatDies
  BY <1>3 DEF BeatSaves, BeatDies, NoBeat
<1>4. CASE Tick
  BY <1>4 DEF Tick
<1>5. CASE NextDay
  BY <1>5 DEF NextDay
<1>6. CASE AgentChanges \/ PathChanges \/ Deliver \/ Refuse \/ BusPublishes
  BY <1>6 DEF AgentChanges, PathChanges, Deliver, Refuse, BusPublishes, gate
<1>7. CASE UNCHANGED vars
  BY <1>7 DEF vars, gate
<1>8. QED
  BY <1>1, <1>2, <1>3, <1>4, <1>5, <1>6, <1>7 DEF Next

\* The one scrape a healthy host can hold back lands with its row.
LEMMA DeliverHealth ==
  ASSUME TypeOK, HealthSound, Deliver
  PROVE  HealthSound'
<1>1. PICK n \in 1 .. Len(buffer), weather \in 0 .. MaxWrites : Ingest(n, weather)
  BY DEF Deliver
<1>2. PICK new : /\ new = RowsOf(Written(SubSeq(buffer, 1, n), weather))
                 /\ rows' = Kept(rows \cup new) /\ rows \cup new \subseteq [src : Nat, at : Nat]
  BY <1>1, DeliverAges
<1>3. [src |-> buffer[1], at |-> 0] \in new
  BY <1>2, RowsFacts
<1>4. UNCHANGED <<agent, path, healthyFor, beat>>
  BY DEF Deliver, gate
<1>5. ASSUME healthyFor > 0
      PROVE  /\ buffer = <<0>> /\ (buffer' = <<>> \/ buffer' = <<0>>)
             /\ \E r \in rows' : r.src = 0 /\ r.at = 0
  <2>1. buffer \in Seq(Ages) /\ Len(buffer) \in Nat /\ n \in 0 .. Len(buffer) /\ buffer # <<>>
    BY <1>1, LenProperties DEF TypeOK
  <2>2. buffer = <<0>>
    BY <1>5, <2>1 DEF HealthSound
  <2>3. [src |-> 0, at |-> 0] \in Kept(rows \cup new)
    BY <1>2, <1>3, <2>2, KeptFacts
  <2>4. n = 1
    BY <1>1, <2>2
  <2>5. SubSeq(buffer, n + 1, Len(buffer)) = <<>>
    BY <2>2, <2>4
  <2>6. QED BY <1>1, <1>2, <2>2, <2>3, <2>5 DEF Ingest
<1>6. ASSUME healthyFor = 2 PROVE \E r \in rows' : r.src <= 1 /\ r.at <= 1
  BY <1>5, <1>6
<1>7. QED BY <1>4, <1>5, <1>6 DEF HealthSound

\* A healthy period ends with the buffer empty and its scrape's row in place.
LEMMA TickHealth ==
  ASSUME TypeOK, BeatInPeriod, HealthSound, Tick
  PROVE  HealthSound'
<1>1. UNCHANGED <<agent, path, beat>> /\ beat.breach = {}
  BY DEF Tick, BeatInPeriod, TypeOK
<1>2. healthyFor \in 0 .. 2 /\ healthyFor' = IF agent /\ path = "up" THEN Least(healthyFor + 1, 2) ELSE 0
  BY DEF Tick, TypeOK
<1>3. ASSUME healthyFor' > 0 PROVE agent /\ path = "up" /\ buffer = <<>> /\ buffer' = <<0>>
  <2>1. agent /\ path = "up" /\ buffer = <<>>
    BY <1>2, <1>3 DEF Tick
  <2>2. Len(buffer) = 0 /\ 0 < MaxBuffer
    BY <2>1, VitalsAssumption
  <2>3. Held = <<>>
    BY <2>1 DEF Held
  <2>4. buffer' = Append(Held, 0)
    BY <2>1, <2>2 DEF Tick, Held
  <2>5. QED BY <2>1, <2>3, <2>4
<1>4. ASSUME healthyFor' = 2 PROVE \E r \in rows' : r.src <= 1 /\ r.at <= 1
  <2>1. agent /\ path = "up" /\ healthyFor > 0 /\ buffer = <<>>
    BY <1>2, <1>3, <1>4 DEF Least
  <2>2. PICK q \in rows : q.src = 0 /\ q.at = 0
    BY <2>1 DEF HealthSound
  <2>3. [src |-> Older(0, OldAge), at |-> 0 + 1] \in Aged
    BY <2>2, AgedFacts, VitalsAssumption
  <2>4. Older(0, OldAge) <= 1
    BY Bounds DEF Older
  <2>5. \E r \in Aged : r.src <= 1 /\ r.at <= 1
    BY <2>3, <2>4
  <2>6. rows' = Kept(Aged) /\ Aged \subseteq [src : Nat, at : Nat]
    BY TickTyped
  <2>7. QED BY <2>5, <2>6, KeptFacts
<1>5. QED BY <1>1, <1>3, <1>4 DEF HealthSound

LEMMA HealthStep ==
  ASSUME TypeOK, HealthInv, [Next]_vars
  PROVE  HealthInv'
<1>1. BeatInPeriod /\ HealthSound /\ BeatInPeriod'
  BY PeriodStep DEF HealthInv
<1>2. HealthSound'
  <2> USE <1>1
  <2>1. CASE AgentChanges \/ PathChanges
    BY <2>1 DEF AgentChanges, PathChanges, HealthSound
  <2>2. CASE Deliver
    BY <2>2, DeliverHealth
  <2>3. CASE Refuse
    <3>1. ~(healthyFor > 0) /\ healthyFor' = healthyFor /\ healthyFor \in 0 .. 2
      BY <2>3 DEF Refuse, HealthSound, TypeOK
    <3>2. QED BY <3>1 DEF HealthSound
  <2>4. CASE BusPublishes
    BY <2>4 DEF BusPublishes, HealthSound, host, gate
  <2>5. CASE BeatJudges
    <3>1. "silent" \in beat'.breach => SilentState = "breach"
      BY <2>5 DEF BeatJudges, Observed, Signal
    <3>2. healthyFor = 2 => SilentState # "breach"
      BY QuietFacts DEF HealthSound
    <3>3. UNCHANGED <<agent, path, buffer, rows, healthyFor>>
      BY <2>5 DEF BeatJudges, host, data
    <3>4. QED BY <3>1, <3>2, <3>3 DEF HealthSound
  <2>6. CASE BeatPosts
    <3>1. beat'.breach = beat.breach
      BY <2>6 DEF BeatPosts, TypeOK
    <3>2. UNCHANGED <<agent, path, buffer, rows, healthyFor>>
      BY <2>6 DEF BeatPosts, host, data
    <3>3. QED BY <3>1, <3>2 DEF HealthSound
  <2>7. CASE BeatSaves \/ BeatDies
    BY <2>7 DEF BeatSaves, BeatDies, NoBeat, HealthSound, host, data
  <2>8. CASE NextDay
    BY <2>8 DEF NextDay, HealthSound, host, data
  <2>9. CASE Tick
    BY <2>9, TickHealth
  <2>10. CASE UNCHANGED vars
    BY <2>10 DEF vars, HealthSound, host, data, gate
  <2>11. QED
    BY <2>1, <2>2, <2>3, <2>4, <2>5, <2>6, <2>7, <2>8, <2>9, <2>10 DEF Next
<1>3. QED BY <1>1, <1>2 DEF HealthInv

-----------------------------------------------------------------------------
(* What is told. *)

LEMMA BreachStep ==
  ASSUME TypeOK, BeatInPeriod, NoneNewer, BreachIsSeen, Host # BusHost, [Next]_vars
  PROVE  BreachIsSeen'
<1> USE DEF BreachIsSeen
<1>1. CASE AgentChanges \/ PathChanges \/ Refuse
  BY <1>1 DEF AgentChanges, PathChanges, Refuse, data, gate
<1>2. CASE Deliver
  <2>1. PICK n \in 1 .. Len(buffer), weather \in 0 .. MaxWrites : Ingest(n, weather)
    BY <1>2 DEF Deliver
  <2>2. blindFor' <= blindFor
    BY <2>1, DeliverAges
  <2>3. blindFor \in Nat /\ blindFor' \in Nat /\ Silent \in Nat
    BY <2>1, DeliverTyped, Bounds, VitalsAssumption DEF TypeOK, Ages
  <2>4. UNCHANGED <<bus, beat>>
    BY <1>2 DEF Deliver, gate
  <2>5. QED BY <2>2, <2>3, <2>4
<1>3. CASE BusPublishes
  BY <1>3, VitalsAssumption DEF BusPublishes, host, gate
<1>4. CASE BeatJudges
  <2>1. /\ SilentState = "breach" => "silent" \in beat'.breach
        /\ BusState = "breach" => "bus-silent" \in beat'.breach
    BY <1>4 DEF BeatJudges, Observed, Signal
  <2>2. UNCHANGED <<bus, blindFor>>
    BY <1>4 DEF BeatJudges, data
  <2>3. QED BY <2>1, <2>2, VerdictFacts, BusVerdictFacts
<1>5. CASE BeatPosts
  <2>1. beat'.breach = beat.breach /\ beat.at # "idle"
    BY <1>5 DEF BeatPosts, TypeOK
  <2>2. QED BY <1>5, <2>1 DEF BeatPosts, data
<1>6. CASE BeatSaves \/ BeatDies
  BY <1>6 DEF BeatSaves, BeatDies, NoBeat
<1>7. CASE NextDay
  BY <1>7 DEF NextDay, data
<1>8. CASE Tick
  BY <1>8 DEF Tick, BeatInPeriod, TypeOK
<1>9. CASE UNCHANGED vars
  BY <1>9 DEF vars, data, gate
<1>10. QED
  BY <1>1, <1>2, <1>3, <1>4, <1>5, <1>6, <1>7, <1>8, <1>9 DEF Next

LEMMA GateStep ==
  ASSUME TypeOK, GateSound, [Next]_vars
  PROVE  GateSound'
<1> USE DEF GateSound
<1>1. CASE BeatJudges
  BY <1>1 DEF BeatJudges
<1>2. CASE BeatPosts
  <2>1. beat'.breach = beat.breach /\ beat'.clear = beat.clear
    BY <1>2 DEF BeatPosts, TypeOK
  <2>2. QED BY <1>2, <2>1 DEF BeatPosts, Alerts
<1>3. CASE BeatSaves
  BY <1>3 DEF BeatSaves, NoBeat, Gated
<1>4. CASE BeatDies
  BY <1>4 DEF BeatDies, NoBeat
<1>5. CASE NextDay
  <2>1. kv'.told = {}
    BY <1>5 DEF NextDay, TypeOK
  <2>2. QED BY <1>5, <2>1 DEF NextDay
<1>6. CASE Tick
  BY <1>6 DEF Tick
<1>7. CASE AgentChanges \/ PathChanges \/ Deliver \/ Refuse \/ BusPublishes
  BY <1>7 DEF AgentChanges, PathChanges, Deliver, Refuse, BusPublishes, gate
<1>8. CASE UNCHANGED vars
  BY <1>8 DEF vars, gate
<1>9. QED
  BY <1>1, <1>2, <1>3, <1>4, <1>5, <1>6, <1>7, <1>8 DEF Next

\* Tells is kept when the age does not grow within the period, when a period
\* begins, and when the period's beat fails.
LEMMA TellsKept ==
  ASSUME TypeOK, TypeOK', NEW s, NEW a \in Int, NEW b \in Int, Tells(s, a),
         s \in kv.active \cap posted => s \in kv'.active \cap posted',
         \/ b <= a /\ lost' = lost /\ due' = due
         \/ b <= a + 1 /\ lost' = lost /\ ~due /\ due'
         \/ b <= a /\ lost' = lost + 1
  PROVE  Tells(s, b)'
<1>1. lost \in Nat /\ lost' \in Nat /\ Silent \in Nat /\ due \in BOOLEAN /\ due' \in BOOLEAN
  BY VitalsAssumption DEF TypeOK
<1>2. Tells(s, a) = (a > Silent => \/ s \in kv.active \cap posted
                                   \/ lost >= a - Silent - (IF due THEN 1 ELSE 0))
  BY DEF Tells
<1>3. Tells(s, b)' = (b > Silent => \/ s \in kv'.active \cap posted'
                                    \/ lost' >= b - Silent - (IF due' THEN 1 ELSE 0))
  BY DEF Tells
<1>4. CASE s \in kv.active \cap posted
  BY <1>3, <1>4
<1>5. CASE s \notin kv.active \cap posted
  BY <1>1, <1>2, <1>3, <1>5
<1>6. QED BY <1>4, <1>5

\* The two ages, which a period makes at most a period older, and the record,
\* which only a beat that is saved changes.
LEMMA TellStep ==
  ASSUME TypeOK, TypeOK', BeatInPeriod, BreachIsSeen, GateSound, Telling, [Next]_vars
  PROVE  Telling'
<1>1. /\ blindFor \in Int /\ blindFor' \in Int /\ bus \in Int /\ bus' \in Int
      /\ Silent \in Nat /\ Disarm \in Nat
  BY Bounds, VitalsAssumption DEF TypeOK, Ages, Never
<1>2. PICK a1, a2, b1, b2 \in Int : a1 = blindFor /\ a2 = bus /\ b1 = blindFor' /\ b2 = bus'
  BY <1>1
<1>3. Tells("silent", a1) /\ (a2 <= Disarm => Tells("bus-silent", a2))
  BY <1>2 DEF Telling
<1>4. ASSUME Tells("silent", b1)', b2 <= Disarm => Tells("bus-silent", b2)'
      PROVE  Telling'
  BY <1>2, <1>4 DEF Telling, Tells
<1>5. "silent" \in Signal /\ "bus-silent" \in Signal
  BY DEF Signal
<1>6. ASSUME \A s \in Signal : s \in kv.active \cap posted => s \in kv'.active \cap posted',
             b1 <= a1, b2 <= Disarm => a2 <= Disarm /\ b2 <= a2, lost' = lost, due' = due
      PROVE  Telling'
  BY <1>3, <1>4, <1>5, <1>6, TellsKept
<1>7. CASE AgentChanges \/ PathChanges \/ Refuse
  BY <1>2, <1>6, <1>7 DEF AgentChanges, PathChanges, Refuse, data, gate
<1>8. CASE Deliver
  <2>1. PICK n \in 1 .. Len(buffer), weather \in 0 .. MaxWrites : Ingest(n, weather)
    BY <1>8 DEF Deliver
  <2>2. b1 <= a1
    BY <1>2, <2>1, DeliverAges
  <2>3. QED BY <1>2, <1>6, <1>8, <2>2 DEF Deliver, gate
<1>9. CASE BusPublishes
  <2>1. b2 = 0 /\ b1 = a1 /\ UNCHANGED <<kv, posted, lost, due>>
    BY <1>2, <1>9 DEF BusPublishes, gate
  <2>2. Tells("silent", b1)'
    BY <1>3, <1>5, <2>1, TellsKept
  <2>3. Tells("bus-silent", b2)'
    BY <1>1, <2>1 DEF Tells
  <2>4. QED BY <1>4, <2>2, <2>3
<1>10. CASE BeatJudges
  BY <1>2, <1>6, <1>10 DEF BeatJudges, data
<1>11. CASE BeatPosts
  BY <1>2, <1>6, <1>11 DEF BeatPosts, data
<1>12. CASE BeatSaves
  <2>1. /\ a1 > Silent => "silent" \in beat.breach
        /\ a2 > Silent /\ a2 <= Disarm => "bus-silent" \in beat.breach
    BY <1>2, <1>12 DEF BeatSaves, BreachIsSeen
  <2>2. \A s \in Signal : s \in beat.breach => s \in kv'.active \cap posted'
    BY <1>12 DEF BeatSaves, Gated, GateSound
  <2>3. b1 = a1 /\ b2 = a2
    BY <1>2, <1>12 DEF BeatSaves, data
  <2>4. QED BY <1>4, <1>5, <2>1, <2>2, <2>3 DEF Tells
<1>13. CASE BeatDies
  <2>1. /\ b1 <= a1 /\ b2 <= a2 /\ a2 = b2 /\ lost' = lost + 1
        /\ \A s \in Signal : s \in kv.active \cap posted => s \in kv'.active \cap posted'
    BY <1>2, <1>13 DEF BeatDies, data
  <2>2. QED BY <1>3, <1>4, <1>5, <2>1, TellsKept
<1>14. CASE NextDay
  <2>1. kv'.active = kv.active
    BY <1>14 DEF NextDay, TypeOK
  <2>2. QED BY <1>2, <1>6, <1>14, <2>1 DEF NextDay, data
<1>15. CASE Tick
  <2>1. b1 = Older(a1, OldAge) /\ b2 = Older(a2, Disarm + 1)
    BY <1>2, <1>15 DEF Tick
  <2>2. a1 \in 0 .. OldAge /\ a2 \in {Never} \cup 0 .. Disarm + 1
    BY <1>2 DEF TypeOK, Ages
  <2>3. b1 <= a1 + 1 /\ b2 <= a2 + 1 /\ (b2 <= Disarm => a2 <= Disarm)
    BY <1>1, <2>1, <2>2, Bounds DEF Older, Never
  <2>4. lost' = lost /\ ~due /\ due' /\ UNCHANGED <<kv, posted>>
    BY <1>15 DEF Tick
  <2>5. QED BY <1>3, <1>4, <1>5, <2>3, <2>4, TellsKept
<1>16. CASE UNCHANGED vars
  BY <1>2, <1>6, <1>16 DEF vars, data, gate
<1>17. QED
  BY <1>7, <1>8, <1>9, <1>10, <1>11, <1>12, <1>13, <1>14, <1>15, <1>16 DEF Next

-----------------------------------------------------------------------------
(* The theorems. *)

\* What every part of the path holds is what it may hold, for any lookback,
\* threshold, buffer and write cap (vitals.js, host-vitals/src/index.js).
THEOREM TypeCorrect == Spec => []TypeOK
BY Typing

\* vitals.js:22-26, where the rows of the host are told from the bus's: whatever
\* lands late, twice or in any order, a recovery is said of no host whose newest
\* scrape is older than half the threshold.
THEOREM RecoveriesAreReal ==
  ASSUME Host # BusHost
  PROVE  Spec => []RecoveryIsReal
<1>1. Init => BeatInPeriod /\ NoneNewer /\ RecoveryIsReal
  BY DEF Init, NoBeat, BeatInPeriod, NoneNewer, RecoveryIsReal
<1>2. TypeOK /\ BeatInPeriod /\ [Next]_vars => BeatInPeriod'
  BY PeriodStep
<1>3. TypeOK /\ BeatInPeriod /\ NoneNewer /\ RecoveryIsReal /\ [Next]_vars
        => NoneNewer' /\ RecoveryIsReal'
  BY AgesStep DEF AgesInv
<1>4. QED BY <1>1, <1>2, <1>3, TypeCorrect, PTL DEF Spec

\* A host whose agent and path have worked for two periods is not called silent,
\* whatever share of a batch the write cap drops.
THEOREM HealthyStaysQuiet == Spec => []HealthyIsQuiet
<1>1. Init => HealthInv
  BY DEF Init, NoBeat, HealthInv, BeatInPeriod, HealthSound
<1>2. TypeOK /\ HealthInv /\ [Next]_vars => HealthInv'
  BY HealthStep
<1>3. HealthInv => HealthyIsQuiet
  BY DEF HealthInv, HealthSound, HealthyIsQuiet
<1>4. QED BY <1>1, <1>2, <1>3, TypeCorrect, PTL DEF Spec

\* A host of which nothing lands any more, and a bus that falls silent, are told
\* within the threshold and the MaxLost beats that may fail in a row, and one
\* more: where the rows of the two are told apart.
THEOREM SilencesAreTold ==
  ASSUME Host # BusHost
  PROVE  Spec => []SilenceIsTold
<1>1. Init => BeatInPeriod /\ NoneNewer /\ TellInv
  BY VitalsAssumption DEF Init, NoBeat, BeatInPeriod, NoneNewer, TellInv, BreachIsSeen, GateSound,
     Telling, Tells, Never
<1>2. TypeOK /\ BeatInPeriod /\ [Next]_vars => BeatInPeriod'
  BY PeriodStep
<1>3. RecoveryIsReal /\ TypeOK /\ BeatInPeriod /\ NoneNewer /\ [Next]_vars => NoneNewer'
  BY AgesStep DEF AgesInv
<1>4. TypeOK /\ TypeOK' /\ BeatInPeriod /\ NoneNewer /\ TellInv /\ [Next]_vars => TellInv'
  BY BreachStep, GateStep, TellStep DEF TellInv
<1>5. TypeOK /\ TellInv => SilenceIsTold
  <2> SUFFICES ASSUME TypeOK, TellInv PROVE SilenceIsTold
    OBVIOUS
  <2>1. lost \in 0 .. MaxLost /\ MaxLost \in Nat /\ Silent \in Nat /\ due \in BOOLEAN
        /\ Disarm \in Nat /\ blindFor \in Int /\ bus \in Int
    BY Bounds, VitalsAssumption DEF TypeOK, Ages, Never
  <2>2. ASSUME blindFor > Told PROVE "silent" \in kv.active \cap posted
    BY <2>1, <2>2 DEF TellInv, Telling, Tells, Told
  <2>3. ASSUME Told < bus, bus <= Disarm PROVE "bus-silent" \in kv.active \cap posted
    BY <2>1, <2>3 DEF TellInv, Telling, Tells, Told
  <2>4. QED BY <2>2, <2>3 DEF SilenceIsTold
<1>6. Spec => []RecoveryIsReal
  BY RecoveriesAreReal
<1>7. QED BY <1>1, <1>2, <1>3, <1>4, <1>5, <1>6, TypeCorrect, PTL DEF Spec

-----------------------------------------------------------------------------
(* Sums over the samples of a window.  The library's induction needs an      *)
(* operator; the least counterexample, by the number of samples, does not.   *)

One(s) == CHOOSE x \in s : TRUE

\* v summed over each part of S, as MapThenSumSet does it.
Sums(h, v, S) == h = [s \in SUBSET S |-> IF s = {} THEN 0 ELSE v[One(s)] + h[s \ {One(s)}]]

\* The samples of a window are loads, and their weights count.
LEMMA SampleFacts ==
  ASSUME NEW w \in Windows
  PROVE  \A i \in Samples(w) : w.weight[i] \in Nat /\ w.load[i] \in Nat
<1>1. Load \subseteq Nat
  BY BandsAssumption
<1>2. MaxWeight \in Nat
  BY BandsAssumption
<1>3. w.load \in [1 .. Rows -> Load \cup {Gap}] /\ w.weight \in [1 .. Rows -> 1 .. MaxWeight]
  BY DEF Windows
<1>4. ASSUME NEW i \in Samples(w) PROVE w.weight[i] \in Nat /\ w.load[i] \in Nat
  <2>1. i \in 1 .. Rows /\ w.load[i] # Gap
    BY DEF Samples
  <2>2. w.load[i] \in Load
    BY <1>3, <2>1
  <2>3. w.weight[i] \in 1 .. MaxWeight
    BY <1>3, <2>1
  <2>4. w.load[i] \in Nat
    BY <1>1, <2>2
  <2>5. w.weight[i] \in Nat
    BY <1>2, <2>3
  <2>6. QED BY <2>4, <2>5
<1>5. QED BY <1>4

\* A part without one of its elements.
LEMMA PartFacts ==
  ASSUME NEW S, IsFiniteSet(S), NEW s \in SUBSET S, s # {}
  PROVE  /\ One(s) \in s /\ s \ {One(s)} \in SUBSET S
         /\ Cardinality(s) \in Nat \ {0} /\ Cardinality(s \ {One(s)}) = Cardinality(s) - 1
<1>1. One(s) \in s
  BY DEF One
<1>2. IsFiniteSet(s)
  BY FS_Subset
<1>3. QED BY <1>1, <1>2, FS_CardinalityType, FS_EmptySet, FS_RemoveElement

LEMMA SumsExist ==
  ASSUME NEW S, IsFiniteSet(S), NEW v
  PROVE  \E h : Sums(h, v, S)
<1> DEFINE Part(n) == {s \in SUBSET S : Cardinality(s) <= n}
           Step(h, s) == IF s = {} THEN 0 ELSE v[One(s)] + h[s \ {One(s)}]
           Upto(h, n) == h = [s \in Part(n) |-> Step(h, s)]
           T == {n \in Nat : ~\E h : Upto(h, n)}
<1>1. ASSUME NEW s \in SUBSET S PROVE IsFiniteSet(s) /\ Cardinality(s) \in Nat
  BY FS_Subset, FS_CardinalityType
<1>2. T = {}
  <2> SUFFICES ASSUME T # {} PROVE FALSE
    OBVIOUS
  <2>1. PICK m \in T : \A n \in T : m <= n
    BY LeastNat
  <2>2. m # 0
    <3>1. \A s \in Part(0) : s = {}
      BY <1>1, FS_EmptySet
    <3> DEFINE h == [s \in Part(0) |-> 0]
    <3>2. Upto(h, 0)
      BY <3>1
    <3> HIDE DEF Upto
    <3>3. \E g : Upto(g, 0)
      BY <3>2
    <3>4. QED BY <2>1, <3>3
  <2>3. PICK g : Upto(g, m - 1)
    <3> HIDE DEF Upto
    <3>1. m \in Nat /\ m - 1 \in Nat
      BY <2>1, <2>2
    <3>2. m - 1 \notin T
      <4> HIDE DEF T
      <4>1. QED BY <2>1, <3>1
    <3>3. QED BY <3>1, <3>2
  <2> DEFINE h == [s \in Part(m) |-> Step(g, s)]
  <2>4. ASSUME NEW s \in Part(m) PROVE Step(g, s) = Step(h, s)
    <3>1. CASE s = {}
      BY <3>1
    <3>2. CASE s # {}
      <4> DEFINE t == s \ {One(s)}
      <4>1. t \in Part(m - 1) /\ t \in Part(m)
        BY <3>2, PartFacts
      <4>2. g[t] = Step(g, t)
        BY <2>3, <4>1
      <4>3. h[t] = Step(g, t)
        BY <4>1
      <4>4. QED BY <3>2, <4>2, <4>3
    <3>3. QED BY <3>1, <3>2
  <2>5. Upto(h, m)
    BY <2>4
  <2>6. QED BY <2>1, <2>5
<1>3. PICK h : Upto(h, Cardinality(S))
  BY <1>1, <1>2
<1>4. Part(Cardinality(S)) = SUBSET S
  BY <1>1, FS_Subset
<1>5. Sums(h, v, S)
  BY <1>3, <1>4 DEF Sums
<1>6. QED BY <1>5

\* The folds of Count and Total, as one pair of sums over every part.
LEMMA Unfolded ==
  ASSUME NEW w \in Windows
  PROVE  \E c, t :
           /\ Sums(c, w.weight, Samples(w))
           /\ Sums(t, [i \in Samples(w) |-> w.weight[i] * w.load[i]], Samples(w))
           /\ Count(w) = c[Samples(w)] /\ Total(w) = t[Samples(w)]
<1> DEFINE S == Samples(w)
           v == [i \in S |-> w.weight[i] * w.load[i]]
           Product(g) == g = [s \in SUBSET S |->
             IF s = {} THEN 0 ELSE w.weight[One(s)] * w.load[One(s)] + g[s \ {One(s)}]]
           c == CHOOSE g : Sums(g, w.weight, S)
           t == CHOOSE g : Product(g)
<1>1. IsFiniteSet(S)
  <2>1. IsFiniteSet(1 .. Rows)
    BY BandsAssumption, FS_Interval
  <2>2. QED BY <2>1, FS_Subset DEF Samples
<1>2. Sums(c, w.weight, S)
  BY <1>1, SumsExist
<1>3. \A s \in SUBSET S : s # {} => v[One(s)] = w.weight[One(s)] * w.load[One(s)]
  BY <1>1, PartFacts
<1>4. \A g : Sums(g, v, S) <=> Product(g)
  BY <1>3 DEF Sums
<1>5. Sums(t, v, S)
  <2>1. \E g : Product(g)
    BY <1>1, <1>4, SumsExist
  <2>2. QED BY <1>4, <2>1
<1>6. Count(w) = c[S]
  BY DEF Count, MapThenSumSet, MapThenFoldSet, Sums, One
<1>7. Total(w) = t[S]
  BY DEF Total, MapThenSumSet, MapThenFoldSet, One
<1>8. QED BY <1>2, <1>5, <1>6, <1>7

\* The average of a window lies between its lowest and its highest sample.
LEMMA Average ==
  ASSUME NEW w \in Windows, NEW m \in Nat
  PROVE  /\ Count(w) \in Nat /\ Total(w) \in Nat
         /\ (\A i \in Samples(w) : w.load[i] <= m) => Total(w) <= m * Count(w)
         /\ (\A i \in Samples(w) : w.load[i] >= m) => Total(w) >= m * Count(w)
<1> DEFINE S == Samples(w)
           v == [i \in S |-> w.weight[i] * w.load[i]]
<1>1. PICK c, t : Sums(c, w.weight, S) /\ Sums(t, v, S) /\ Count(w) = c[S] /\ Total(w) = t[S]
  BY Unfolded
<1>2. \A i \in S : w.weight[i] \in Nat /\ w.load[i] \in Nat
  BY SampleFacts
<1>3. IsFiniteSet(S)
  <2>1. IsFiniteSet(1 .. Rows)
    BY BandsAssumption, FS_Interval
  <2>2. QED BY <2>1, FS_Subset DEF Samples
<1> DEFINE Good(s) ==
             /\ c[s] \in Nat /\ t[s] \in Nat
             /\ (\A i \in S : w.load[i] <= m) => t[s] <= m * c[s]
             /\ (\A i \in S : w.load[i] >= m) => t[s] >= m * c[s]
           T == {Cardinality(s) : s \in {r \in SUBSET S : ~Good(r)}}
<1>4. \A s \in SUBSET S : Good(s)
  <2> SUFFICES ASSUME NEW r \in SUBSET S, ~Good(r) PROVE FALSE
    OBVIOUS
  <2>1. T # {} /\ T \subseteq Nat
    BY <1>3, FS_Subset, FS_CardinalityType
  <2>2. PICK k \in T : \A n \in T : k <= n
    BY <2>1, LeastNat
  <2>3. PICK s \in SUBSET S : ~Good(s) /\ Cardinality(s) = k
    BY <2>2
  <2>4. s # {}
    <3>1. CASE s = {}
      <4>1. c[s] = 0 /\ t[s] = 0
        BY <1>1, <3>1 DEF Sums
      <4>2. QED BY <2>3, <4>1
    <3>2. QED BY <3>1
  <2> DEFINE x == One(s)
             u == s \ {x}
  <2>5. x \in S /\ u \in SUBSET S /\ Cardinality(u) = k - 1 /\ k \in Nat
    BY <1>3, <2>3, <2>4, PartFacts
  <2>6. Good(u)
    <3>1. k - 1 \notin T
      BY <2>1, <2>2, <2>5
    <3>2. QED BY <2>5, <3>1
  <2>7. c[s] = w.weight[x] + c[u] /\ t[s] = w.weight[x] * w.load[x] + t[u]
    BY <1>1, <2>4, <2>5 DEF Sums
  <2> HIDE DEF x, u, Good
  <2>8. w.weight[x] \in Nat /\ w.load[x] \in Nat
    BY <1>2, <2>5
  <2>9. \A p, a, b, q, d \in Nat :
          /\ p * a + q \in Nat
          /\ a <= b /\ q <= b * d => p * a + q <= b * (p + d)
          /\ a >= b /\ q >= b * d => p * a + q >= b * (p + d)
    <3>1. \A p, a, b \in Nat : a <= b => p * a <= b * p
      OBVIOUS
    <3>2. \A p, b, d \in Nat : b * (p + d) = b * p + b * d
      OBVIOUS
    <3>3. \A p, a \in Nat : p * a \in Nat
      OBVIOUS
    <3>4. \A p, a, b \in Nat : a >= b => p * a >= b * p
      OBVIOUS
    <3>5. QED BY <3>1, <3>2, <3>3, <3>4
  <2>10. Good(s)
    BY <2>5, <2>6, <2>7, <2>8, <2>9 DEF Good
  <2>11. QED BY <2>3, <2>10
<1>5. QED BY <1>1, <1>4

\* evaluate(): a breach has a sample above the alert bar, an all-clear one below
\* the clear bar, whatever the weights.
LEMMA Extremes ==
  ASSUME NEW w \in Windows, NEW bars, bars.need \in Nat \ {0}, bars.alert \in Nat, bars.clear \in Nat
  PROVE  /\ Verdict(w, bars, 1000) = "breach" => \E i \in Samples(w) : w.load[i] > bars.alert
         /\ Verdict(w, bars, 1000) = "clear" => \E i \in Samples(w) : w.load[i] < bars.clear
<1>1. \A i \in Samples(w) : w.load[i] \in Nat
  BY SampleFacts
<1>2. Count(w) \in Nat /\ Total(w) \in Nat
  BY Average
<1>3. ASSUME Verdict(w, bars, 1000) = "breach", \A i \in Samples(w) : w.load[i] <= bars.alert
      PROVE  FALSE
  <2>1. Total(w) <= bars.alert * Count(w)
    BY <1>3, Average
  <2>2. Total(w) * 1000 > bars.alert * 1000 * Count(w)
    BY <1>3 DEF Verdict
  <2>3. \A p, c, t \in Nat : t <= p * c => t * 1000 <= p * 1000 * c
    OBVIOUS
  <2>4. QED BY <1>2, <2>1, <2>2, <2>3
<1>4. ASSUME Verdict(w, bars, 1000) = "clear", \A i \in Samples(w) : w.load[i] >= bars.clear
      PROVE  FALSE
  <2>1. Total(w) >= bars.clear * Count(w)
    BY <1>4, Average
  <2>2. Total(w) * 1000 < bars.clear * 1000 * Count(w)
    BY <1>4 DEF Verdict
  <2>3. \A p, c, t \in Nat : t >= p * c => t * 1000 >= p * 1000 * c
    OBVIOUS
  <2>4. QED BY <1>2, <2>1, <2>2, <2>3
<1>5. QED BY <1>1, <1>3, <1>4

\* Such a pair of samples lies further apart than the band.
LEMMA FarApart ==
  ASSUME NEW a \in Windows, NEW b \in Windows, NEW bars, bars.alert \in Nat, bars.clear \in Nat,
         \E i \in Samples(a) : a.load[i] > bars.alert,
         \E j \in Samples(b) : b.load[j] < bars.clear
  PROVE  Fell(a, b, bars)
<1>1. PICK i \in Samples(a), j \in Samples(b) : a.load[i] > bars.alert /\ b.load[j] < bars.clear
  OBVIOUS
<1>2. a.load[i] \in Nat /\ b.load[j] \in Nat
  BY SampleFacts
<1>3. a.load[i] - b.load[j] > bars.alert - bars.clear
  BY <1>1, <1>2
<1>4. QED BY <1>3 DEF Fell

\* Where every total reported is the same, the ratio is of that total.
LEMMA SwapByRatio ==
  ASSUME NEW full, \A cap \in Caps : cap = full, NEW w \in Windows, w.cap # Gap
  PROVE  SwapVerdict(w) = Verdict(w, Swap, full)
<1>1. w.cap \in Caps \cup {Gap}
  BY DEF Windows
<1>2. w.cap = full
  BY <1>1
<1>3. QED BY <1>2 DEF SwapVerdict

\* vitals.js:208-213, evaluate(): whatever the loads, the weights, the samples
\* that are missing and the number of scrapes in a window, a load that stays
\* within the band of a bar does not go from breach to clear.
THEOREM BandsHold ==
  ASSUME Caps \subseteq {1000}
  PROVE  Spec => []HoveringIsQuiet
<1>1. Steady(DiskVerdict, Disk)
  BY Extremes, FarApart DEF Steady, DiskVerdict, Disk
<1>2. Steady(MemoryVerdict, Memory)
  BY Extremes, FarApart DEF Steady, MemoryVerdict, Memory
<1>3. ASSUME NEW w \in Windows
      PROVE  /\ SwapVerdict(w) = "breach" => \E i \in Samples(w) : w.load[i] > Swap.alert
             /\ SwapVerdict(w) = "clear" => \E i \in Samples(w) : w.load[i] < Swap.clear
  <2>1. \A i \in Samples(w) : w.load[i] \in Nat
    BY SampleFacts
  <2>2. CASE w.cap = Gap
    BY <2>1, <2>2, Extremes DEF SwapVerdict, SwapBytes, Swap
  <2>3. CASE w.cap # Gap
    <3>1. \A cap \in Caps : cap = 1000
      OBVIOUS
    <3>2. SwapVerdict(w) = Verdict(w, Swap, 1000)
      BY <2>3, <3>1, SwapByRatio
    <3>3. QED BY <3>2, Extremes DEF Swap
  <2>4. QED BY <2>2, <2>3
<1>4. Steady(SwapVerdict, Swap)
  BY <1>3, FarApart DEF Steady, Swap
<1>5. HoveringIsQuiet
  BY <1>1, <1>2, <1>4 DEF HoveringIsQuiet
<1>6. QED BY <1>5, PTL
=============================================================================
