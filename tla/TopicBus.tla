------------------------------- MODULE TopicBus -------------------------------
(***************************************************************************)
(* TopicDO for one telemetry topic (workers/fleet-bus/src/topic.js): the   *)
(* retained last value, the TTL alarm that doubles as the silence signal,  *)
(* and the notes posted to the topic's subscriber route (deliver.js).      *)
(*                                                                         *)
(* publishRetained() and alarm() give way to other events only while       *)
(* deliver() awaits its fetch, so each is one step that leaves a note in   *)
(* flight; the note lands later, or fails, or dies with the object.        *)
(* Deadlines are kept as the time left until them.                         *)
(***************************************************************************)
EXTENDS Integers

CONSTANT Ttl          \* CATALOG[topic].ttl

ASSUME TtlAssumption == Ttl \in Nat \ {0}

VARIABLES
  retained,   \* the retained row: time left to expires_at, or NoRow
  expiry,     \* time left to the object's alarm, or NoAlarm
  silent,     \* liveness.silent
  notes,      \* deliver() calls awaiting their webhook fetch
  announced,  \* history: the current silence was put to the webhook
  published   \* history: something was ever published

topicVars == <<retained, expiry, silent, notes, announced, published>>

NoRow   == -1
NoAlarm == -1
Note    == {"silent", "recovered"}

-----------------------------------------------------------------------------
\* retained() verifies expiry itself: an alarm can be late.
BugLive == retained # NoRow
Live == retained > 0

\* The upsert and setAlarm: the newest write owns the expiry.
BugUpsert ==                        \* ON CONFLICT DO NOTHING
  /\ retained' = IF retained = NoRow THEN Ttl ELSE retained
  /\ expiry' = Ttl /\ published' = TRUE
BugUpsertExtends ==                 \* a publish prolongs the old deadline
  /\ retained' = Ttl
  /\ expiry' = Ttl + (IF expiry = NoAlarm THEN 0 ELSE expiry)
  /\ published' = TRUE
Upsert == retained' = Ttl /\ expiry' = Ttl /\ published' = TRUE

\* publishRetained(), with the recovery edge when silence had been announced.
BugPublish ==
  /\ Upsert
  /\ notes' = IF silent THEN notes \cup {"recovered"} ELSE notes
  /\ UNCHANGED <<silent, announced>>
Publish ==
  /\ Upsert
  /\ silent' = FALSE
  /\ notes' = IF silent THEN notes \cup {"recovered"} ELSE notes
  /\ announced' = (announced /\ ~silent)

\* The object dies after `await setAlarm` and before it looks at liveness.
PublishCut ==
  /\ Upsert
  /\ UNCHANGED <<silent, notes, announced>>

\* alarm(): runs once at a time.  It deletes an expired row, and unless silence
\* is already recorded records it and posts.
BugExpiryAlarm ==                   \* the flag is left to a later run
  /\ expiry = 0 /\ "silent" \notin notes
  /\ expiry' = NoAlarm
  /\ retained' = IF retained = 0 THEN NoRow ELSE retained
  /\ notes' = IF retained = 0 THEN notes \cup {"silent"} ELSE notes
  /\ UNCHANGED <<silent, announced, published>>
BugExpiryAlarmReturns ==            \* silence recorded: return before the DELETE
  /\ expiry = 0 /\ "silent" \notin notes
  /\ expiry' = NoAlarm
  /\ retained' = IF retained = 0 /\ ~silent THEN NoRow ELSE retained
  /\ silent' = (silent \/ retained = 0)
  /\ notes' = IF retained = 0 /\ ~silent THEN notes \cup {"silent"} ELSE notes
  /\ UNCHANGED <<announced, published>>
ExpiryAlarm ==
  /\ expiry = 0 /\ "silent" \notin notes
  /\ expiry' = NoAlarm
  /\ retained' = IF retained = 0 THEN NoRow ELSE retained
  /\ silent' = (silent \/ retained = 0)
  /\ notes' = IF retained = 0 /\ ~silent THEN notes \cup {"silent"} ELSE notes
  /\ UNCHANGED <<announced, published>>

\* The webhook call ends.  Its failure is swallowed: nothing depends on it.
NoteLands(n) ==
  /\ n \in notes
  /\ notes' = notes \ {n}
  /\ announced' = (announced \/ (n = "silent" /\ silent))
  /\ UNCHANGED <<retained, expiry, silent, published>>

\* The object is evicted or restarted while calls are in flight.  An alarm()
\* that did not return is delivered again unless a publish has set a new one.
ObjectCrash ==
  /\ notes # {}
  /\ notes' = {}
  /\ expiry' = IF "silent" \in notes /\ expiry = NoAlarm THEN 0 ELSE expiry
  /\ UNCHANGED <<retained, silent, announced, published>>

TopicAge ==
  /\ retained' = IF retained > 0 THEN retained - 1 ELSE retained
  /\ expiry' = IF expiry > 0 THEN expiry - 1 ELSE expiry
  /\ UNCHANGED <<silent, notes, announced, published>>

TopicInit ==
  /\ retained = NoRow /\ expiry = NoAlarm
  /\ silent = FALSE /\ announced = FALSE /\ published = FALSE
  /\ notes = {}

TopicNext ==
  \/ Publish \/ PublishCut \/ ExpiryAlarm
  \/ \E n \in Note : NoteLands(n)
  \/ ObjectCrash \/ TopicAge

TopicSpec == TopicInit /\ [][TopicNext]_topicVars

-----------------------------------------------------------------------------
TopicTypeOK ==
  /\ retained \in {NoRow} \cup 0 .. Ttl
  /\ expiry \in {NoAlarm} \cup 0 .. Ttl
  /\ silent \in BOOLEAN /\ announced \in BOOLEAN /\ published \in BOOLEAN
  /\ notes \subseteq Note

\* The silence signal needs no poller: while a value is retained, the object's
\* only alarm is set for the instant it expires, whatever crashed in between.
ExpiryArmed == retained # NoRow => expiry = retained

\* A topic that was ever published and has nothing retained is recorded as
\* silent: no expiry goes by unnoticed, whatever died in between.
GoneMeansSilent == published /\ retained = NoRow => silent

\* topic.js:52-54: liveness.silent tracks whether silence has been announced.
SilentMeansAnnounced == silent => announced \/ "silent" \in notes
=============================================================================
