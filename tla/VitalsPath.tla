------------------------------ MODULE VitalsPath ------------------------------
(***************************************************************************)
(* Host telemetry from Vector's scrape to the alert: Vector posts batches  *)
(* to workers/host-vitals, which writes rows of host_vitals; the fleet bus *)
(* mirrors the supervisor's tick into the same dataset; and every beat of  *)
(* workers/cicd-collector/src/vitals.js reads both back, judges how old    *)
(* they are and passes the verdicts through the alert-once gate.           *)
(*                                                                         *)
(* One unit of time is the beat's period.  Times are kept as ages.  The    *)
(* signals judged by value rather than by age are in VitalsBands.          *)
(***************************************************************************)
EXTENDS Integers, Sequences, FiniteSetsExt

CONSTANTS
  Host, BusHost,      \* VITALS_HOST, and the name the bus writes its rows under
  Lookback,           \* VITALS_FRESH_LOOKBACK_MIN
  Silent,             \* VITALS_SILENT_SEC and VITALS_BUS_SILENT_SEC
  Disarm,             \* VITALS_BUS_DISARM_SEC
  MaxWrites,          \* Analytics Engine's cap on one invocation
  MaxBuffer,          \* scrapes Vector can hold back
  MaxLost             \* beats in a row that fail somewhere

ASSUME VitalsAssumption ==
  /\ Lookback \in Nat /\ Silent \in Nat \ {0} /\ Silent < Lookback
  /\ MaxLost \in Nat /\ Disarm \in Nat /\ Silent + MaxLost + 1 < Disarm
  /\ MaxWrites \in Nat \ {0} /\ MaxBuffer \in Nat \ {0}

VARIABLES
  agent,     \* TRUE while Vector scrapes the host
  path,      \* what a batch meets: "up", "down" (no answer, 5xx) or "refused" (4xx)
  buffer,    \* scrapes Vector holds, oldest first
  rows,      \* host_vitals rows of Host
  bus,       \* age of the newest bus.fleet.supervisor.tick row
  kv,        \* the document's vitals part: told today, episodes running
  beat,      \* the beat in progress and its observations
  due,       \* the beat of this period is still to come
  lost,      \* history: beats in a row that failed
  posted,    \* history: signals with a breach line today or for this episode
  scraped,   \* history: age of the newest scrape
  blindFor,  \* history: age of the newest scrape that landed
  healthyFor \* history: how long agent and path have both been up

host == <<agent, path, buffer, scraped, healthyFor>>
data == <<rows, bus, blindFor>>
gate == <<kv, beat, due, lost, posted>>
vars == <<host, data, gate>>

Never  == -1
Signal == {"silent", "bus-silent"}
Told   == Silent + MaxLost + 1        \* a silence is told within this time
OldAge == IF Told < Lookback THEN Lookback ELSE Told + 1
Older(age, cap) == IF age = Never \/ age = cap THEN age ELSE age + 1
Least(a, b) == IF a < b THEN a ELSE b
NoBeat == [at |-> "idle", breach |-> {}, clear |-> {}]

-----------------------------------------------------------------------------
(* Vector and the host-vitals Worker *)

AgentChanges ==
  /\ agent' = ~agent /\ healthyFor' = 0
  /\ buffer' \in {buffer, <<>>}       \* a restart may lose what was held back
  /\ UNCHANGED <<path, scraped, data, gate>>

PathChanges ==
  /\ path' \in {"up", "down", "refused"} \ {path} /\ healthyFor' = 0
  /\ UNCHANGED <<agent, buffer, scraped, data, gate>>

\* The writes of one batch: vitals first, weather with what is left.
BugWritten(batch, weather) ==         \* weather first
  SubSeq(batch, 1, Least(Len(batch), MaxWrites - weather))
Written(batch, weather) == SubSeq(batch, 1, Least(Len(batch), MaxWrites))

BugRowsOf(batch) ==                   \* the row is stamped with its source time
  {[src |-> batch[i], at |-> batch[i]] : i \in DOMAIN batch}
RowsOf(batch) == {[src |-> batch[i], at |-> 0] : i \in DOMAIN batch}

\* Only the newest of the rows written since can decide a query.
Kept(rs) == {r \in rs : \A q \in rs : r.at >= q.at => r.src <= q.src}

\* fetch(): a batch that is answered 200 leaves the buffer, whatever the cap
\* left out, unless the answer is lost; one that is refused is not sent again.
Ingest(n, weather) ==
  LET batch == SubSeq(buffer, 1, n)
      new   == RowsOf(Written(batch, weather))
  IN /\ rows' = Kept(rows \cup new)
     /\ blindFor' = Min({blindFor} \cup {r.src : r \in new})
     /\ buffer' \in {buffer, SubSeq(buffer, n + 1, Len(buffer))}

Deliver ==
  /\ agent /\ path = "up"
  /\ \E n \in 1 .. Len(buffer), weather \in 0 .. MaxWrites : Ingest(n, weather)
  /\ UNCHANGED <<agent, path, scraped, healthyFor, bus, gate>>

Refuse ==
  /\ agent /\ path = "refused"
  /\ \E n \in 1 .. Len(buffer) : buffer' = SubSeq(buffer, n + 1, Len(buffer))
  /\ UNCHANGED <<agent, path, scraped, healthyFor, data, gate>>

\* writeVitals() of the fleet bus: one row a publish.
BusPublishes ==
  /\ bus # 0 /\ bus' = 0
  /\ UNCHANGED <<host, rows, blindFor, gate>>

-----------------------------------------------------------------------------
(* vitals.js: the queries and evaluate() *)

AgeState(age) ==
  IF age > Silent THEN "breach" ELSE IF 2 * age <= Silent THEN "clear" ELSE "unknown"

\* sqlFreshness(): the newest SOURCE time among the rows of the lookback, by host.
SameHost == Host = BusHost
BugFresh ==                           \* the bus's rows count as the host's
  {r.src : r \in {q \in rows : q.at < Lookback}} \cup ({bus} \cap 0 .. Lookback - 1)
BugFreshByWrite == {r.at : r \in {q \in rows : q.at < Lookback}}
Fresh ==
  {r.src : r \in {q \in rows : q.at < Lookback}}
    \cup (IF SameHost THEN {bus} \cap 0 .. Lookback - 1 ELSE {})
SilentState == IF Fresh = {} THEN "breach" ELSE AgeState(Min(Fresh))

\* Armed by a publish, and only until Disarm after the last.
BusState == IF bus = Never \/ bus > Disarm THEN "unknown" ELSE AgeState(bus)

Observed == [s \in Signal |-> IF s = "silent" THEN SilentState ELSE BusState]

-----------------------------------------------------------------------------
(* gate() and runVitals() *)

Alerts == beat.breach \ kv.told
Clears == beat.clear \cap kv.active
Gated == [told |-> kv.told \cup beat.breach, active |-> (kv.active \cup beat.breach) \ beat.clear]

\* A query that fails ends the beat, as does every other error.
BeatJudges ==
  /\ due /\ beat.at = "idle"
  /\ beat' = [at     |-> "posting",
              breach |-> {s \in Signal : Observed[s] = "breach"},
              clear  |-> {s \in Signal : Observed[s] = "clear"}]
  /\ UNCHANGED <<host, data, kv, due, lost, posted>>

BeatPosts ==
  /\ beat.at = "posting"
  /\ beat' = [beat EXCEPT !.at = "saving"]
  /\ posted' = posted \cup Alerts     \* nothing is posted when there is nothing to say
  /\ UNCHANGED <<host, data, kv, due, lost>>

BeatSaves ==
  /\ beat.at = "saving"
  /\ kv' = Gated /\ beat' = NoBeat /\ due' = FALSE /\ lost' = 0
  /\ UNCHANGED <<host, data, posted>>

\* A post may have been received although its answer was not.
BeatDies ==
  /\ due /\ lost < MaxLost
  /\ lost' = lost + 1 /\ beat' = NoBeat /\ due' = FALSE
  /\ posted' \in {posted, IF beat.at = "posting" THEN posted \cup Alerts ELSE posted}
  /\ UNCHANGED <<host, data, kv>>

-----------------------------------------------------------------------------
\* `told' is compared with the day the beat started in.
NextDay ==
  /\ beat.at = "idle" /\ kv.told # {}
  /\ kv' = [kv EXCEPT !.told = {}] /\ posted' = posted \cap kv.active
  /\ UNCHANGED <<host, data, beat, due, lost>>

\* Vector scrapes, and before that has flushed what it could; cron has started
\* the beat, which is short against its period.
Tick ==
  /\ ~due /\ due' = TRUE
  /\ agent /\ path = "up" => buffer = <<>>
  /\ LET takes == agent /\ Len(buffer) < MaxBuffer
         held  == [i \in DOMAIN buffer |-> Older(buffer[i], OldAge)]
     IN /\ buffer'  = IF takes THEN Append(held, 0) ELSE held
        /\ scraped' = IF takes THEN 0 ELSE Older(scraped, OldAge)
  /\ rows' = Kept({[src |-> Older(r.src, OldAge), at |-> r.at + 1] :
                     r \in {q \in rows : q.at + 1 < Lookback}})
  /\ bus' = Older(bus, Disarm + 1)
  /\ blindFor' = Older(blindFor, OldAge)
  /\ healthyFor' = IF agent /\ path = "up" THEN Least(healthyFor + 1, 2) ELSE 0
  /\ UNCHANGED <<agent, path, kv, beat, lost, posted>>

Init ==
  /\ agent = TRUE /\ path = "up" /\ buffer = <<>>
  /\ rows = {} /\ bus = Never
  /\ kv = [told |-> {}, active |-> {}] /\ beat = NoBeat /\ due = FALSE
  /\ lost = 0 /\ posted = {} /\ scraped = 0 /\ blindFor = 0 /\ healthyFor = 0

Next ==
  \/ AgentChanges \/ PathChanges \/ Deliver \/ Refuse \/ BusPublishes
  \/ BeatJudges \/ BeatPosts \/ BeatSaves \/ BeatDies
  \/ NextDay \/ Tick

Spec == Init /\ [][Next]_vars

-----------------------------------------------------------------------------
Ages == 0 .. OldAge

TypeOK ==
  /\ agent \in BOOLEAN /\ path \in {"up", "down", "refused"}
  /\ buffer \in Seq(Ages) /\ Len(buffer) <= MaxBuffer
  /\ rows \subseteq [src : Ages, at : 0 .. Lookback - 1]
  /\ bus \in {Never} \cup 0 .. Disarm + 1
  /\ kv \in [told : SUBSET Signal, active : SUBSET Signal]
  /\ beat \in [at : {"idle", "posting", "saving"}, breach : SUBSET Signal, clear : SUBSET Signal]
  /\ due \in BOOLEAN /\ lost \in 0 .. MaxLost /\ posted \subseteq Signal
  /\ scraped \in Ages /\ blindFor \in Ages /\ healthyFor \in 0 .. 2

\* "Reporting again" is said only of a host that was observed within half the
\* silence threshold: a backlog that lands late is no sign of life
\* (vitals.js:22-26).
RecoveryIsReal == "silent" \in beat.clear => 2 * scraped <= Silent

\* With at most MaxLost beats failing in a row, an agent whose observations stop
\* landing, and a bus that falls silent after it was armed, are on the channel
\* and recorded within Told, whatever landed late and whatever the other of the
\* two still reports.
SilenceIsTold ==
  /\ blindFor > Told => "silent" \in kv.active \cap posted
  /\ Told < bus /\ bus <= Disarm => "bus-silent" \in kv.active \cap posted

\* A host that has been scraped and reached for two periods is not called
\* silent, however large the batches and the weather in them.
HealthyIsQuiet == healthyFor = 2 => "silent" \notin beat.breach
=============================================================================
