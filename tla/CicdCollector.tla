----------------------------- MODULE CicdCollector -----------------------------
(***************************************************************************)
(* The poll and the vitals beat of workers/cicd-collector: the poll lists  *)
(* the org's completed workflow runs since its cursor, writes a row per    *)
(* attempt and posts the red ones; the vitals beat posts each breaching    *)
(* host signal once a day and its recovery.  Both remember what they have  *)
(* done in one KV document that each reads whole and writes back whole.    *)
(*                                                                         *)
(* A beat gives way at every await; its steps end where it talks to KV or  *)
(* Discord.  The listings of the repositories are one step: runs are       *)
(* independent, so one that finishes meanwhile finished before or after.   *)
(***************************************************************************)
EXTENDS Integers

CONSTANTS
  Run,          \* workflow runs, each in a repository of its own
  MaxAttempt,   \* bound: attempts of a run
  MaxNow,       \* bound: the clock
  Period,       \* the poll's cron period
  Window,       \* OVERLAP_MIN
  Slowest,      \* a run's last attempt completes within this time of its creation
  MaxLost,      \* polls in a row that fail somewhere
  Signal,       \* the host signals of the vitals beat
  MaxDay,       \* bound: days
  Crossing,     \* may the two beats run at the same time?
  Unreadable    \* may reading the document fail?

ASSUME CollectorAssumption ==
  /\ MaxAttempt \in Nat \ {0} /\ MaxNow \in Nat
  /\ Period \in Nat \ {0} /\ Window \in Nat /\ Slowest \in Nat
  /\ MaxLost \in Nat /\ MaxDay \in Nat \ {0}
  /\ Crossing \in BOOLEAN /\ Unreadable \in BOOLEAN

VARIABLES
  now, day,
  runs,      \* GitHub: run -> creation, latest attempt, its verdict and completion
  polled,    \* the tick the last poll was started by
  kv,        \* the document under STATE_KEY
  poll,      \* the poll in progress and the document it holds
  beat,      \* the vitals beat in progress and the document it holds
  rows,      \* history: rows written, by run and attempt (two stands for more)
  posts,     \* history: red posts, likewise
  cards,     \* history: posts of a breach today, by signal, likewise
  torn,      \* history: keys whose mark was never saved, or was forgotten
  retold,    \* history: signals told today, likewise
  lost,      \* history: polls in a row that failed somewhere
  saved,     \* history: what each beat saved last
  blind      \* history: a beat went on from a document it could not read

pollVars == <<runs, polled, poll, rows, posts, lost>>
beatVars == <<beat, cards, retold>>
vars == <<now, day, kv, torn, saved, blind, pollVars, beatVars>>

Never   == -1
Attempt == 1 .. MaxAttempt
Key     == Run \X Attempt
Done    == {"success", "failure"}    \* "failure" is one on a default branch

KeyOf(r) == <<r, runs[r].attempt>>
KeysIn(rs) == {KeyOf(r) : r \in rs}
Bump(f, S) == [x \in DOMAIN f |-> IF x \in S /\ f[x] < 2 THEN f[x] + 1 ELSE f[x]]

PollPart(doc)   == <<doc.lastPoll, doc.seen, doc.alerted>>
VitalsPart(doc) == <<doc.said, doc.active>>

EmptyDoc == [lastPoll |-> Never, seen |-> {}, alerted |-> {},
             said |-> [s \in Signal |-> 0], active |-> {}]
Idle     == [at |-> "idle", doc |-> EmptyDoc, says |-> {}, whole |-> TRUE]

-----------------------------------------------------------------------------
(* GitHub *)

RunCreated(r) ==
  /\ runs[r].verdict = "none"
  /\ runs' = [runs EXCEPT ![r] = [created |-> now, attempt |-> 1,
                                  verdict |-> "pending", finished |-> Never]]
  /\ UNCHANGED <<now, day, blind, kv, torn, saved, polled, poll, rows, posts, lost, beatVars>>

RunFinishes(r) ==
  /\ runs[r].verdict = "pending" /\ now <= runs[r].created + Slowest
  /\ \E v \in Done :
       runs' = [runs EXCEPT ![r].verdict = v, ![r].finished = now]
  /\ UNCHANGED <<now, day, blind, kv, torn, saved, polled, poll, rows, posts, lost, beatVars>>

\* A re-run keeps the run's creation time; the listing shows only its latest
\* attempt.
RunAgain(r) ==
  /\ runs[r].verdict \in Done /\ runs[r].attempt < MaxAttempt
  /\ runs' = [runs EXCEPT ![r].attempt = @ + 1, ![r].verdict = "pending"]
  /\ UNCHANGED <<now, day, blind, kv, torn, saved, polled, poll, rows, posts, lost, beatVars>>

-----------------------------------------------------------------------------
(* poll() *)

\* windowStart: last poll minus the overlap; a fresh KV backfills.
BugWindowStart(doc) == doc.lastPoll
WindowStart(doc) == IF doc.lastPoll = Never THEN 0 ELSE doc.lastPoll - Window

\* listCompletedRuns asks GitHub for created>=since.
InWindow(r, doc) == runs[r].created >= WindowStart(doc)
Listed(doc) == {r \in Run : runs[r].verdict \in Done /\ InWindow(r, doc)}

PollDue == now % Period = 0 /\ polled < now

\* loadState: a document that cannot be read is taken for an empty one.
Read  == {kv} \cup (IF Unreadable THEN {EmptyDoc} ELSE {})
Forgets(doc) ==
  /\ blind'  = (blind \/ doc # kv)
  /\ torn'   = IF doc = kv THEN torn ELSE torn \cup kv.seen \cup kv.alerted
  /\ retold' = IF doc = kv THEN retold ELSE retold \cup {s \in Signal : kv.said[s] = day}

PollLoads ==
  /\ PollDue /\ poll.at = "idle" /\ (Crossing \/ beat.at = "idle")
  /\ polled' = now
  /\ \E doc \in Read :
       /\ poll' = [at |-> "scanning", doc |-> doc, says |-> {}, whole |-> TRUE]
       /\ Forgets(doc)
  /\ UNCHANGED <<now, day, kv, saved, runs, rows, posts, lost, beat, cards>>

\* A poll that does not get through: its error is counted against MaxLost.
Fails(keys) ==
  /\ lost < MaxLost
  /\ lost' = lost + 1
  /\ poll' = Idle
  /\ torn' = torn \cup keys

\* One row per key not yet seen; the red ones not yet alerted are set aside.
BugScanned(rs) ==                   \* the rows are not remembered
  LET doc == poll.doc IN
  /\ rows' = Bump(rows, KeysIn(rs) \ doc.seen)
  /\ poll' = [at    |-> "saving",
              doc   |-> [doc EXCEPT !.lastPoll = polled],
              says  |-> KeysIn({r \in rs : runs[r].verdict = "failure"}) \ doc.alerted,
              whole |-> rs = Listed(doc)]
Scanned(rs) ==
  LET doc == poll.doc IN
  /\ rows' = Bump(rows, KeysIn(rs) \ doc.seen)
  /\ poll' = [at    |-> "saving",
              doc   |-> [doc EXCEPT !.seen = @ \cup KeysIn(rs), !.lastPoll = polled],
              says  |-> KeysIn({r \in rs : runs[r].verdict = "failure"}) \ doc.alerted,
              whole |-> rs = Listed(doc)]

\* A repository that cannot be listed is skipped, and the cursor moves on.
PollScans ==
  /\ poll.at = "scanning"
  /\ \E rs \in SUBSET Listed(poll.doc) :
       /\ rs = Listed(poll.doc) \/ lost < MaxLost
       /\ Scanned(rs)
  /\ UNCHANGED <<now, day, blind, kv, torn, saved, runs, polled, posts, lost, beatVars>>

PollDiesScanning ==
  /\ poll.at = "scanning"
  /\ \E rs \in SUBSET Listed(poll.doc) :
       LET new == KeysIn(rs) \ poll.doc.seen IN rows' = Bump(rows, new) /\ Fails(new)
  /\ UNCHANGED <<now, day, blind, kv, saved, runs, polled, posts, beatVars>>

\* The document is written back as it was read, the other beat's part included.
BugSaveByAlone(doc) ==              \* the other beat's part is not carried
  kv' = [doc EXCEPT !.said = EmptyDoc.said, !.active = {}]
BugSaveByNext(doc) ==               \* the cursor is when the next poll is due
  kv' = [doc EXCEPT !.lastPoll = @ + Period]
SaveBy(doc) == kv' = doc

Completes ==
  /\ poll' = Idle
  /\ lost' = IF poll.whole THEN 0 ELSE lost + 1

PollSaves ==
  /\ poll.at = "saving"
  /\ SaveBy(poll.doc)
  /\ saved' = [saved EXCEPT !.poll = PollPart(poll.doc)]
  /\ IF poll.says = {} THEN Completes
     ELSE poll' = [poll EXCEPT !.at = "posting"] /\ UNCHANGED lost
  /\ UNCHANGED <<now, day, blind, torn, runs, polled, rows, posts, beatVars>>

PollPosts ==
  /\ poll.at = "posting"
  /\ posts' = Bump(posts, poll.says)
  /\ poll' = [poll EXCEPT !.at = "marking"]
  /\ UNCHANGED <<now, day, blind, kv, torn, saved, runs, polled, rows, lost, beatVars>>

PollMarks ==
  /\ poll.at = "marking"
  /\ LET doc == [poll.doc EXCEPT !.alerted = @ \cup poll.says] IN
       SaveBy(doc) /\ saved' = [saved EXCEPT !.poll = PollPart(doc)]
  /\ Completes
  /\ UNCHANGED <<now, day, blind, torn, runs, polled, rows, posts, beatVars>>

\* Any other error, Discord's refusal included, or the invocation is cut off.
\* A post may have been received although its answer was not.
PollDies ==
  /\ \/ poll.at = "saving" /\ Fails(poll.doc.seen \ kv.seen) /\ UNCHANGED posts
     \/ poll.at = "posting" /\ Fails({}) /\ UNCHANGED posts
     \/ poll.at = "posting" /\ Fails(poll.says) /\ posts' = Bump(posts, poll.says)
     \/ poll.at = "marking" /\ Fails(poll.says) /\ UNCHANGED posts
  /\ UNCHANGED <<now, day, blind, kv, saved, runs, polled, rows, beatVars>>

-----------------------------------------------------------------------------
(* runVitals(): the signals are queried first, then the gate is read. *)

\* gate(): a breach is announced once a day, a clear ends the episode, an
\* unknown holds everything.
BugAlerts(doc, breach) == breach \ doc.active
Alerts(doc, breach) == {s \in breach : doc.said[s] # day}
Clears(doc, clear)  == clear \cap doc.active
Gated(doc, breach, clear) ==
  [doc EXCEPT !.said   = [s \in Signal |-> IF s \in breach THEN day ELSE @[s]],
              !.active = (@ \cup breach) \ clear]

BeatLoads ==
  /\ beat.at = "idle" /\ (Crossing \/ poll.at = "idle")
  /\ \E doc \in Read, breach \in SUBSET Signal : \E clear \in SUBSET (Signal \ breach) :
       /\ beat' = [at   |-> IF Alerts(doc, breach) \cup Clears(doc, clear) = {} THEN "saving"
                            ELSE "posting",
                   doc  |-> Gated(doc, breach, clear),
                   says |-> Alerts(doc, breach), whole |-> TRUE]
       /\ Forgets(doc)
  /\ UNCHANGED <<now, day, kv, saved, pollVars, cards>>

BeatPosts ==
  /\ beat.at = "posting"
  /\ cards' = Bump(cards, beat.says)
  /\ beat' = [beat EXCEPT !.at = "saving"]
  /\ UNCHANGED <<now, day, blind, kv, torn, saved, pollVars, retold>>

BeatSaves ==
  /\ beat.at = "saving"
  /\ kv' = beat.doc
  /\ saved' = [saved EXCEPT !.vitals = VitalsPart(beat.doc)]
  /\ beat' = Idle
  /\ UNCHANGED <<now, day, blind, torn, pollVars, cards, retold>>

BeatDies ==
  /\ \/ beat.at = "posting" /\ UNCHANGED <<cards, retold>>
     \/ beat.at = "posting" /\ cards' = Bump(cards, beat.says) /\ retold' = retold \cup beat.says
     \/ beat.at = "saving" /\ UNCHANGED cards /\ retold' = retold \cup beat.says
  /\ beat' = Idle
  /\ UNCHANGED <<now, day, blind, kv, torn, saved, pollVars>>

-----------------------------------------------------------------------------
\* Cron starts every poll on its tick.  Beats are short against the tick: they
\* outlast it only where beats may cross.
Tick ==
  /\ now < MaxNow /\ ~PollDue
  /\ Crossing \/ (poll.at = "idle" /\ beat.at = "idle")
  /\ now' = now + 1
  /\ UNCHANGED <<day, blind, kv, torn, saved, pollVars, beatVars>>

\* A beat belongs to the day it started in.
NextDay ==
  /\ day < MaxDay /\ beat.at = "idle"
  /\ day' = day + 1
  /\ cards' = [s \in Signal |-> 0] /\ retold' = {}
  /\ UNCHANGED <<now, blind, kv, torn, saved, pollVars, beat>>

Init ==
  /\ now = 0 /\ day = 1
  /\ runs = [r \in Run |-> [created |-> Never, attempt |-> 1,
                            verdict |-> "none", finished |-> Never]]
  /\ kv = EmptyDoc /\ poll = Idle /\ beat = Idle /\ polled = Never
  /\ rows = [k \in Key |-> 0] /\ posts = [k \in Key |-> 0]
  /\ cards = [s \in Signal |-> 0]
  /\ torn = {} /\ retold = {} /\ lost = 0 /\ blind = FALSE
  /\ saved = [poll |-> PollPart(EmptyDoc), vitals |-> VitalsPart(EmptyDoc)]

PollStep == PollLoads \/ PollScans \/ PollDiesScanning \/ PollSaves \/ PollPosts
              \/ PollMarks \/ PollDies
BeatStep == BeatLoads \/ BeatPosts \/ BeatSaves \/ BeatDies

Next ==
  \/ \E r \in Run : RunCreated(r) \/ RunFinishes(r) \/ RunAgain(r)
  \/ PollStep \/ BeatStep
  \/ Tick \/ NextDay

Spec == Init /\ [][Next]_vars

-----------------------------------------------------------------------------
Doc == [lastPoll : {Never} \cup 0 .. MaxNow, seen : SUBSET Key, alerted : SUBSET Key,
        said : [Signal -> 0 .. MaxDay], active : SUBSET Signal]

TypeOK ==
  /\ now \in 0 .. MaxNow /\ day \in 1 .. MaxDay
  /\ runs \in [Run -> [created : {Never} \cup 0 .. MaxNow, attempt : Attempt,
                       verdict : Done \cup {"none", "pending"},
                       finished : {Never} \cup 0 .. MaxNow]]
  /\ polled \in {Never} \cup 0 .. MaxNow
  /\ kv \in Doc /\ poll.doc \in Doc /\ beat.doc \in Doc
  /\ poll.at \in {"idle", "scanning", "saving", "posting", "marking"}
  /\ beat.at \in {"idle", "posting", "saving"}
  /\ poll.says \subseteq Key /\ beat.says \subseteq Signal /\ poll.whole \in BOOLEAN
  /\ rows \in [Key -> 0 .. 2] /\ posts \in [Key -> 0 .. 2] /\ cards \in [Signal -> 0 .. 2]
  /\ torn \subseteq Key /\ retold \subseteq Signal /\ blind \in BOOLEAN /\ lost \in 0 .. MaxLost

\* While polls fail no more than MaxLost times in a row, and runs are quick
\* enough, no completed run leaves the poll's window before its row is written
\* and, if it is red, its alert posted.
NoneSlipsOut ==
  \A r \in Run :
    runs[r].verdict \in Done /\ ~InWindow(r, kv) =>
      /\ rows[KeyOf(r)] > 0
      /\ runs[r].verdict = "failure" => posts[KeyOf(r)] > 0 \/ KeyOf(r) \in poll.says

\* Write-once and alert-once: a second row or post of one attempt is the work of
\* a poll that was cut off before it could save what it had done, or of a
\* document that could not be read.
OncePerAttempt == \A k \in Key : rows[k] > 1 \/ posts[k] > 1 => k \in torn

\* A breach is announced once a day, likewise, however often it flaps.
OncePerDay == \A s \in Signal : cards[s] > 1 => s \in retold

\* index.js:162-164: the two beats write one document without undoing each
\* other's part, as long as neither goes on from a document it could not read.
NoLostUpdate == ~blind => saved = [poll |-> PollPart(kv), vitals |-> VitalsPart(kv)]
=============================================================================
