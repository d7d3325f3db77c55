# A verification of Rigs

Rigs runs a floor of teleoperation rigs. A browser page at each rig walks an
operator through a shift; what happens is filed as events, kept on the rig's
disk, posted to a service that appends them to a ledger, and projected into
fact tables. The video of a take travels beside the events, from the rig's
disk through an on-premises spool to a cold archive. This directory holds TLA+
models of the part of the system whose correctness depends on interleavings,
losses and restarts, the TLC runs that check them, and TLAPS proofs. Besides
that path it models what stands around it: the sweep that watches the floor, the
schedules that say who should be where, the accounts, and the doors that count
how often they are knocked on.

    tlc -config RigEventsPage.cfg RigEvents.tla      one run
    tlc -config RigScreen.cfg MCRigScreen.tla        a run with an MC module
    tlc -config Throttle.cfg MCThrottle.tla          (so do Projection*, Schedules)
    tlapm RigEventsProofs.tla                        one proof module

## 1. Inventory

Where each part lives, what state it keeps, what changes it, and what could go
wrong. Paths are under `src/`.

**Rig page, event side** (`apps/rig/assets/rig.js`). State: `outbox`, `seq`,
the promise chain that orders journal writes, `journalBroken`, the `uploading`
flag. Operations: `emit`, `journalAppend`/`journalForget`, `flush`,
`recoverJournal`, `alignSeq`, `start`, and (not modelled yet) `confirmIdentity`
and `switchRig`. Talks to the journal through the desktop shell and to the
service by POST. Hard: everything in memory goes at a reload; `flush` splices
the outbox after an await; the answer to a POST can be lost. Correct when: an
event the screen promised is durable survives until the service has it; an
event leaves the outbox only on an answer that covers it.

**Rig page, video side** (same file). State: `videoQueue`, the same chain.
Operations: `queueVideo`, `sendVideo`, `flushVideo`, recovery. Correct when:
the take is let go of only when the service holds it.

**Rig page, operator screen** (same file). State: the phase machine `S`, the
stint and its checkpoint on disk, the turn in progress (`turnKey`), the pushed
payload, `handoverDue`, `restDue`. Operations: the pedals (`dispatch`), what a
frame notices (`tick`: wake, rest, rotate), `resync`, boot and `resumeStint`,
and (not modelled yet) `confirmIdentity`. Hard: turn boundaries and the end of a
shift that fall inside a take, a fault or a rest; a schedule that is fetched
across an await; a checkpoint that is written after the event it belongs to; a
reload in the middle of it. Correct when: a take, a fault and
an outage are the operator's to end; every boundary is honoured in the end, once;
a stint is filed with its own takes, under whoever worked it.

**Rig journal** (`apps/rig/desktop/src/journal.rs`). State: `journal.ndjson`,
`uploaded.json` (the mark), a `.json` and `.bin` per take, `stint.json`.
Operations: `append`, `forget`, `load` = replay + compact, `mark_uploaded`,
`put_video`, `forget_video`, `videos` with its orphan sweep. Hard: a line torn
anywhere, the place before its newline and the middle of a character included; two
processes.

**Rig uploader** (`apps/rig/desktop/src/upload.rs`, `bin/rig-uploader.rs`). A
second process on the same journal directory: loads it, posts the oldest
batch, moves the mark; sends takes. Hard: it is a second writer and a second
sender.

**Event ingest** (`backend/services/rigs/routes.py`,
`core/domains/rig_events/repository.py`). State: the table `rig_events`.
All-or-nothing, idempotent on (rig, event id); the cursor is `max(seq)`.

**Projection** (`backend/core/workflows/projection.py`,
`workers/project_events.py`, the `lifecycle.py` of sessions and outages).
State: five fact tables and `projected_at`. Operations: `project_batch`,
`project_one`, `reset_projections`. Hard: several workers, ids that commit out
of order, a batch that dies half way. Correct when the tables are what the
projected rows say, and a replay gives the same again.

**Video service and drain worker** (`core/workflows/video.py`,
`core/infrastructure/storage.py`, `workers/drain_to_archive.py`). State: one
`episode_videos` row and one object per camera in two stores. Operations:
presign, PUT, confirm; drain, release, give up, retire. Hard: blind commits of
rows read earlier, copies that stop half way.

**Floor sweep and alerts** (`core/workflows/floor.py`, `core/rules/floor.py`,
`core/domains/alerts/repository.py`, `core/domains/rig_status`,
`workers/sweep_floor.py`). State: `rig_status`, one row a rig that heartbeats
upsert; `alerts`, at most one open per key. Operations: a heartbeat; `sweep`, which
reads the floor statement by statement, raises what it found and resolves
what it did not find; `run`, which sweeps again after every pause and every failure.
Hard: absence as evidence, thresholds and clocks, a floor that moves between the
statements, a worker that stops. Correct when: the board holds what was wrong all
through a sweep and nothing that never was; one cause has one alert; what stays
wrong comes to stand there.

**Schedules in force** (`core/workflows/schedules.py`,
`core/domains/schedules/repository.py`, the push and schedule routes). State:
`schedules`, one row to a rig and a shift of a push, and `schedule_pushes`. Operations:
`push`; the readers `in_force`, `turns_for_operator`, `floor_state`, `roster`; and at
the rig `resync`, which does not ask during a take, and keeps the sheet it has when the
answer is the same sheet or would leave a working rig with nobody. Hard: rows of one
push are tied on `pushed_at`; a time taken before the commit; two dates and a floor that
is not in UTC; the same question asked by two queries; an answer that is not taken.
Correct when: rigs of one push agree on the shift; no shift goes back a version;
the board and a person's own page agree; the floor follows.

**Accounts and sessions** (`services/rigs/people.py`, `auth.py`,
`core/domains/accounts/repository.py`, `core/domains/people`). State: people,
accounts, sign-in sessions, one-use password links. Operations: sign in and out,
change, ask for a link, follow it, invite, resend, a person added or gone. Hard:
READ COMMITTED transactions whose reads are stale by the time they write, row locks
taken crosswise, a password that is replaced between its check and the commit. Correct
when: a link sets one password; the commit of a new password leaves no session of before
it; every request ends.

**mint_account** (`tools/mint_account.py`): the same tables from a terminal, beside
the running service: invite, manager, operator, passwd, disable, link.

**Request guards** (`services/rigs/ratelimit.py`, `lockout.py`, `identity.py`,
`auth.py`). State, in the memory of the service: token buckets per address or rig
for three limiters, and strikes per (email, address). Operations: `allow`; `check`,
`failed`, `succeeded`, `_evict`; who is calling, and for which rig. Hard: tables of
bounded size, requests in progress across an await, units that round. Correct when:
nobody exceeds the burst and the rate; a wait is earned, and served; the right
password gets in.

**Static push server** (`apps/server/server.js`): a file-backed copy of the
push for a floor without the service.

**Rotation engine** (`packages/engine/rotation-engine.js`): a pure function
from roster and shift to turns.

The rest - the desktop shell's command plumbing and its mock recorder, mail, the
my-shift page, the rotation desk, schema validation, the efficiency quotient,
migrations, the other tools and deployment files - is listed in `PROJECT.json`
with the reason it is left out.

How they interact: the page and the uploader share the journal directory and
nothing else; both POST to ingest and PUT to the object store; ingest commits to
the ledger, the projection worker reads it and nothing calls the projection; the
video rows are written by the request handlers and by the drain worker, which
share the two stores; the desk pushes schedules, and the page fetches the one
in force; the sweep reads the schedule in force, the heartbeats, the ledger and the
fact tables, and only writes alerts; the sign-in routes ask lockout and limiter
before they touch the accounts, and the tool at the terminal writes the same
accounts beside them. As deployed (`deploy/systemd`) there is one each of the API, the
projection worker, the sweep and the drain.

## 2. Modules

| module | models | checked by |
|---|---|---|
| `LedgerDelivery` | the promise of the event path, with no files or processes in it | as a property of `RigEvents` |
| `RigEvents` | page, journal, uploader, ingest, for one rig | `RigEventsPage`, `RigEventsBoth`, `RigEventsRace` |
| `RigEventsProofs` | proofs about `RigEvents` | tlapm |
| `VideoPipeline` | the video of one take, a row and an object per camera | `VideoPipelineHeld`, `VideoPipelineArchives` |
| `VideoPipelineProofs` | proofs about `VideoPipeline` | tlapm |
| `Projection`, `MCProjection` | ledger rows into fact tables, any number of workers | `ProjectionReading`, `ProjectionWorkers` |
| `ProjectionProofs` | proofs about `Projection` | tlapm |
| `RigScreen`, `MCRigScreen` | the operator screen | `RigScreen` |
| `RigScreenProofs` | proofs about `RigScreen` | tlapm |
| `Throttle`, `MCThrottle` | limiters, lockout, who is calling, and the routes that ask them | `Throttle` |
| `ThrottleProofs` | proofs about `Throttle` | tlapm |
| `Accounts` | people, accounts, sessions and links, requests and the terminal's tool | `Accounts` |
| `AccountsProofs` | proofs about `Accounts` | tlapm |
| `Schedules`, `MCSchedules` | the pushes, which sheet is in force, and its readers | `Schedules` |
| `SchedulesProofs` | proofs about `Schedules` | tlapm |
| `Floor` | heartbeats, the sweep and the alerts | `Floor` |
| `FloorProofs` | proofs about `Floor` | tlapm |

Definitions whose name ends in `_Something` under a comment "Mutation:" are
not part of any specification: each is the definition after it with one
plausible bug in it, kept to show that a property notices.

### RigEvents

An event is a number, in the order of filing; it stands for the event id. `file`
is `journal.ndjson` line by line: a put, a delete, a line that will not parse
(`junk`), one that is not even UTF-8 (`bytes`); the last may be `open`, without its
newline. A write that stops half way (`Fragments`) stops inside the record, just before
the newline, or inside a character of several bytes of an event in `Wide`. So an open
line may be a whole record: `replay` counts it, `compact` sees the number of lines it
expects and does not rewrite, and the next append is glued on to it, and both are one
junk line. Which events that costs is observed in `spoiled`. Where a line is not text
the file is not `Readable`, and every `load` fails, the page's and the uploader's.
`Appended`, `Live`, `Compacted` are `append_line`, `replay`, `compact`. `chain` is the
promise chain behind which `onJournal` queues writes. `request[s]` is what a
sender has in flight; `Serve` is ingest, in one step because it is one
transaction; a sender that gives up (`FlushLost`, `UploaderLost`, a death) may
leave the request behind in `late`, to be served at any later time. The mark is
`uploaded.json`. `promised` is the model's: events whose journal write was
acknowledged to the page while the screen still said "durable". `JournalWrite`
and `JournalWriteFails` are the two outcomes of a write; a `PowerCut` may tear
the one under way. The uploader's load is two steps, `UploaderReads` (replay)
and `UploaderCompacts` (rename and POST), because another process runs between
them; the page's is one, since the page that boots has no other writer of its own.

`LedgerDelivery` has one variable, where each event stands: among others `frayed`, on
disk in a line without newline, which one event at a time may be, and which may go as it
came. `Standing` maps the path's state to it, and `ImplementsDelivery` says that every
step of the page's path is a step of the promise or a stutter.

### VideoPipeline

`queue`, `chain`, `disk` are the page's `videoQueue` and the journal's takes;
`sending[s]` is how far a sender is in presign, PUT, complete; `row`, `spool`
and `archive` are the database row and the two stores, whose objects are whole,
cut or absent. A request or a worker session that reads and then writes is two
steps or more (`ConfirmReads`/`ConfirmCommits`, `DrainSelects` ... `DrainCommits`,
and so on), and the write updates by primary key the rows read before, as
SQLAlchemy does. The worker runs its parts one after the other, as `run` does.
One take is modelled: takes share nothing but the worker's batch, and the cameras
stand in for that. `stored` is the order of `stored_at`; `Sublists` says in what
orders a query ordered by it may return a set of rows (there is one), by a
description and not by `SelectSeq`, of which the prover has no definition.

### Projection

`ledger[id]` is a row and the state of the transaction that inserted it; ids are given
at insert and become visible at commit, so a lower id of one rig may appear after a
higher id of another (one rig has one request at a time, the page's and the uploader's
batches being the same events in the same order). `tx[w]` is a worker's transaction: the
rows it holds locked, those still to be read, and the facts it has written and not
committed. A fact is named by the ledger row that wrote it, and an `at` by the row that
carried it. The open outage that an up closes is the one of the highest id, where
`projection.py:167` orders by `down_at`: a rig files in order and has one request at a
time, so both say the same unless its clock is set back. Conflicts on a unique key are
met at commit in the model, some moments later than in the database; either way the
batch rolls back. NULLs are distinct to `uq_sessions_turn`, so standby sessions do not
collide. `reset_projections` deletes what it sees (`doomed`) and then waits, in its
UPDATE, for the rows other batches hold. `Reading(S)` is the reference: what a set of
ledger rows says, in declarative form, by no worker and in no order but that of the ids.
`Over` and `Only` stand where `@@` and `:>` of TLC might: the prover has no definition
of those.

### RigScreen

Time is counted in slots; a payload says who has each slot of its day. `s` is `S`
and `turnKey`; `asking` is the request of `resync` across its await: the answer
is fixed when it is asked for, and applied to whatever the screen shows by then.
`Press` has a disjunct or an action per intent of `dispatch`; `Frame` is one
pass of `tick`, whose branches exclude one another. `filed` holds the events of
the last step in order. `saved` is the stint on disk. `emit` queues a checkpoint
behind each event (`chain` counts them), and `CheckpointWritten` writes one later, of
`S` as it stands by then, with a take in flight counted if there is one
(`saved.level` observes that there was none). A write that fails is one that is still
on its way. A reload forgets what is on the chain. `ghost` is the model's: how many
takes of the running stint the ledger has, whether a schedule was swapped under it,
and whether a reload fell before the disk was level with it (`cut`).

Left out: the seconds a stint accumulates, the levels of the issue tree, the
demo's controls and seeding, `confirmIdentity` and `switchRig`.

### Throttle

`tracked` and `tokens` are the `_buckets` of the three `RateLimiter`s, `struck`,
`fails`, `until` and `idle` the `_strikes` of the `Lockout`. Time is relative: a
`Tick` refills every bucket and shortens every wait, where the code subtracts
instants when it is next asked; both saturate at the same numbers. A token is worth
`Cost` units, so that a refill of less than a token a tick is a whole number.
`open` counts the requests that have passed the door and await the database: between
`LoginBegins` and its answer others begin, fail and succeed, so that strikes are
counted out of order with the checks. A full table of buckets keeps what it has and
turns a new caller away (`Kept`, `Room`). A wait doubled once too often no longer fits a
float, and `failed` raises (`Raises`, after `Doublings` of them). `CommitBreaks` is the
database failing under the commit of a right password, when the strikes are already
cleared. `drawn`, `cool` and `wrong` are observers.

### Accounts

A request is a transaction at READ COMMITTED in a `slot`: its reads and refusals happen
when it begins (`Login`, `Change`, `FollowLink`, `Invite`, ... ), then it runs the
statements of its `Script` one at a time, and others run between them. `locked` and
`held` are the account row and the link rows it has updated and not committed,
`seen` and `ends` what an UPDATE or a query saw when it started. An UPDATE waits for
the rows others hold (`Runs`), and nobody sees a write before `Commits`. Postgres
ends one of those who wait for one another (`Aborted`); any request may die. A
login writes `last_login_at`, and so takes the account's row before it commits its
session. The verbs of `mint_account` are requests like the others.
An invitation and a link sent again void the account's links twice in the code
(`people.py:606`, then `repository.py:142` in `open`), and so does their script. A
password is told apart only from the one that replaced it: a login in progress carries
whether the password it was accepted under has been replaced since (`old`, set by
`Outrun`), and the session it opens carries it on (`stale`).

### Schedules

Time is counted in turns; the clock of the service is UTC, the sheets are in a zone
`Offset` turns ahead. A push takes its time (`PushBegins`) and commits later, or
fails. Where rows are tied on `pushed_at` the database may return any of them first:
`Newest` is the set of those, and a query's answer any of the set. `InForce` is
`in_force` with `_nearest`, `Board` is `floor_state`, `MyShift` is
`turns_for_operator`, `Roster` is `roster`. Of one rig, `Here`, the `resync` is
followed: what its screen is doing (`screen`: at rest, in a take or its review, or
working), what it has `asked` for and the sheet it has `held` since. `Asks` is never
during a take and one at a time; the answer is taken (`Applies`) or not (`Keeps`):
not if it is the same sheet by `pushId`, which knows seats (`Seat`) and not persons,
and not if it has nobody for a working rig, by the time of day alone (`AtThisTime`). A
push carries every rig and every shift (`Filed`): the route takes any subset, but its
one client, the desk, sends them all; and it always writes a start and an end, so that
the `not dated` branch of `in_force` is never reached.

### Floor

Ages are counted in the units of the thresholds and stop one past them. `Tick`,
`Pushed`, `Beats`, `Files`, `Projects` and `Rebuilds` move the floor. An event comes off
a journal that may have held it long, so `Files` gives it any age up to the newest there
was: a rig that drains its backlog may be idle all the same. A batch of `Projects` may
leave a younger backlog. The statements of `sweep` are steps, in their order:
`ReadsStatuses`; for each rig that is heard `ReadsTurn` and then `ReadsLast`, for the turn
just read; `ReadsLag`; `ReadsDowntime`; `ReadsFaults`; `ReadsBlocks` and `ReadsSheets`, the
blocks and then the sheets they are measured by; and `Commits`, its raise and resolve.
The floor moves between any two. `recorded` is what the projected tables hold against
a rig, within the windows the code looks back: open outages (`Down`), faults (`Fault`) and
blocks past their turn (`Overrun`), of which a push may change the sheet (`late`).
`watched` is an observer: what has been wrong all through the sweep, and what ever was in
it; a block that a rebuild wipes between being read and being measured is excused.

## 3. The runs and what they show

**RigEventsPage** (pass; 540092 states; 3 events, one of them refused with a 422 and one
with a wide character, batches of 2, a page death, a loss, failing writes, lines torn
anywhere, boots out of reach of the service, late arrivals). The page alone. An event the
page was told is on the platter is in the ledger, refused, or handed back by the next
boot that can read the journal, but for one event to each death of the page, which the
torn newline of the write before took with it (`PromiseKept`; the code's own comment
counts only the event being written: section 5); the path implements `LedgerDelivery`;
what was promised arrives (`PromisedArrives`), though a splice after an await must take
what was answered and no more. Three events and batches of two are the least in which a
batch is in flight, another event is filed behind it and one of them is refused.

**RigEventsBoth** (pass; 224796 states; 2 events, batches of 1, two deaths of the page and
one of the uploader, one loss, late arrivals, torn lines). Page and uploader on one
journal. The mark retires only what the service answered for (`MarkFollowsAnswers`; the
event that may be refused is the last, so that its number is not handed out again, and
journals that had no record spoiled: section 5 says what happens otherwise); what a dead
page left behind drains without it, if the file can be read (`BacklogDrains`). A second
death of the page is needed for a line torn at the first to meet another write.

**RigEventsRace** (violation of `NoEventVanishes`). See divergence 1.

**VideoPipelineHeld** (pass; one camera, both senders, losses, a death of page and
worker, late arrivals, PUTs that land whole). `ReleasedIsHeld`: what a rig was
told it may delete and has let go of is whole in the spool or the archive.

**VideoPipelineArchives** (pass; two cameras, batches of one, a cut PUT, a cut
copy, a restart of the worker, retention). One sender. `TakenArchives`: every take
reaches the archive and leaves the spool. Two cameras are two rows of a batch of one,
so that one waits behind the other.

**ProjectionReading** (pass; one worker, two rigs, two turns and standby, 3 rows,
batches of 2, a failure, a replay). `FactsAreTheReading`: the tables say exactly
what the projected rows say, at every commit; `ReplayComesBackRight`. With three
rows there is room for an outage, its end and a take between, a block with its
take and one filed late, and one rig's ids committing after another's.

**ProjectionWorkers** (pass; two workers, one rig, 3 rows, batches of 1, a
failure). `FactsOfProjected`: rows and facts go together, whichever batches
collide; `EveryRowProjected`; no row is claimed twice (`TypeOK`).

**RigScreen** (pass; 343596 states; days of two slots: a shift of two turns and the next
day's, which begins a slot later; four slots of time, two takes, a reload before, between
or after the checkpoints, a change of what the service answers).
`PressOnly`: takes, fault reports and outages are left by a pedal (or a reload),
never by a frame or a schedule. `WorksForWhoIsOn` and
`RestsAfterShift`: boundaries and the end of the shift are honoured in the end,
on whatever screen they were met. `StintCountsItsTakes`: a stint is filed with
exactly the takes the ledger has of it, through discards, overrunning takes, a chain
that lags and a reload that finds the disk level; section 5 has the one that does not.
`BlockAfterItsTakes`: the last take is filed before the block, which
the projection counts on. `NewScheduleLands`. Two days are needed because a turn's
label repeats; two takes for one to be counted and one under way. Checkpoints that are
pending together are written by one step or several (`MaxOwed` is one): they write the
same but for what `S` does between, which one pending write, however late, covers too.

**Throttle** (pass; 85923 states; two emails typed at two addresses, one rig, room for one
strike and one bucket, two requests in progress). `MeterHolds`: no key draws
more than its burst and its rate since it was first met, though others knock at a full
table. `CoolOffEarned`: a wait is only ever imposed on a pair that failed often enough,
eviction never shortens one that runs. `RightPasswordGetsIn`: whoever goes on typing the
right password gets in, from an address that has a bucket. One bucket for two addresses
and one strike for four pairs are the least in which a table is full and
somebody is evicted or turned away; two requests the least in which a wrong
password and a right one overlap; a rate of half a token a tick the least that
rounds; two doublings reach the failure that raises. The reset limiter is off, which is
one of its settings.

**Accounts** (pass; one person, one email, two requests at a time, two
links and two sessions alive). `PasswordEndsSessions`: the commit of a new password leaves
no session of the account but its own, though others are committed while it runs; it
says nothing of a login that is accepted before and commits after, which section 5 has.
`LinkSetsOnePassword`: a link that sets a password is unused until that very commit.
`EveryRequestEnds`, past row locks, deaths and
deadlocks. Everything these properties are about happens to one account: rows of
other accounts are never waited for, and who is on the floor decides only which
requests may begin. Two requests are enough for every pair of scripts to interleave
at every statement; a deadlock takes two. Identities of links and sessions are
reused when nothing names them, so that the bounds are on what is alive at once.

**Schedules** (pass; 89598 states; two rigs, three people of whom one covers for another in
the same seat, two desks that push one of three sheets for one of two dates, a floor west
of its server, a clock from the first date to the day after the last). `SameSheet`: rigs
that were pushed together are served one shift of one push. `BoardAndPersonAgree`.
`NeverGoesBack`: no shift goes back to an older version, in whatever order the desks
commit. `FloorFollows`: a rig that goes on being answered comes to have the seats the
board has, whatever takes and rests its operator is in when it asks, whatever answers
are lost and whatever it keeps instead. Of persons it would be false: a cover does
not land. Two dates with a zone let a shift run over midnight of UTC; two pushes are a
sheet and its correction, or two dates; one screen is followed, as rigs do not meet.

**Floor** (pass; 568000 states; one rig, one turn, one overrun, one failed sweep, one
move of the floor within a sweep). `OneCauseOneAlert`: a rig nobody can hear is not
also reported idle or adrift. `SweepTellsTheTruth`: every sweep that commits, whether or
not it changes the board, leaves open all that was wrong throughout it, and nothing that
at no moment of it was. `BoardSettles`: what stays wrong comes to stand on the board,
and what stays right comes to leave it, past a sweep that fails. One rig is enough: keys
are per rig and no statement relates two. Of the projected facts the overrun is the one
in the instance: it is read by two statements, with a push or a rebuild between them,
where an outage or a fault is read by one. With one move a sweep, something changes between
any two statements; more moves, rigs, outages and faults are covered by the theorems,
which bound nothing. A turn with a sheet that cannot be read is outside (section 5).

CHECK_DEADLOCK is off for every run but those of the projection: a rig whose bounds
are used up may really have nothing left to do, and so may a floor whose last
person has left, a service nobody calls, a clock at its `Horizon`. An idle
projection worker polls (`PollsEmpty`), so a deadlock there would be one. The
liveness properties of the other runs are what notices that somebody waits for ever.

### Fairness

*RigEvents, VideoPipeline.* The page's timers are set again in a `finally` after
every attempt, the uploader's and the worker's loops back off and never give up,
and systemd or the kiosk restarts what died; so each sender's and each worker's
step is weakly fair, and the bounds MaxLost and Max...Deaths say that losses and
deaths end. In `UnattendedSpec` nobody opens the page again: its boot is not fair.
*Projection.* A request ends one way or the other; a worker that can step does.
*RigScreen.* Frames come sixty a second, and nobody presses between every two of
them for ever: `Frame` is strongly fair. The resync timer is set again after every
request, and the service is not out of reach for ever: asking and being answered
are strongly fair. No pedal is fair: nobody has to press anything.
*Throttle.* Time passes and requests are answered. Of people nothing is assumed; that
whoever may try again and again types the right password again and again, and that the
database does not break under every one, is the premise of the property (`KeepsAsking`).
*Accounts.* Each request's next statement is strongly fair: the database gives a
row to who waited for it, and ends one request of a deadlock. Nobody has to begin
one.
*Schedules.* None. A take lasts as long as its operator likes, and no rig asks meanwhile;
that the rig is answered again and again (`StaysInTouch`) is the premise of
`FloorFollows`. It is what `startResync`, each minute, comes to where the network is not
gone for good and no take goes on for ever.
*Floor.* The steps of the sweep: `run` catches what a sweep raises, pauses and begins
again, and systemd restarts the worker. No rig, desk or projection is fair.

## 4. What is proved

| theorem | says | for |
|---|---|---|
| `RigEventsProofs!TypeCorrect` | `Spec => []TypeOK` | every value of the constants |
| `RigEventsProofs!PromiseHolds` | `Spec => []PromiseKept` | no uploader; lines torn anywhere |
| `RigEventsProofs!DeliveryImplemented` | `Spec => ImplementsDelivery` | the same |
| `RigEventsProofs!MarkFollows` | `Spec => MarkFollowsAnswers` | both senders; nothing refused, every boot reads its journal and reaches the service, no write fails |
| `VideoPipelineProofs!TypeCorrect` | `Spec => []TypeOK` | every value of the constants |
| `VideoPipelineProofs!ReleasedIsHeldHolds` | `Spec => []ReleasedIsHeld` | PUTs that land whole, no retention |
| `VideoPipelineProofs!RetiresFreed` | `Spec => RetiresOnlyFreed` | every value of the constants |
| `ProjectionProofs!TypeCorrect`, `NothingLost` | `Spec => []TypeOK`, `[]ProjectedHasFacts` | any rigs, turns, workers, batch sizes, failures and replays |
| `ProjectionProofs!FactsCorrect` | `Spec => []FactsOfProjected` | no replay, any number of workers |
| `ProjectionProofs!ReadingCorrect` | `Spec => []FactsAreTheReading` | one worker, with failures and replays |
| `RigScreenProofs!TypeCorrect` | `Spec => []TypeOK` | any sheets, days, takes, reloads, changes of schedule and lag of the chain |
| `RigScreenProofs!CountsHold`, `BlocksComeLast` | `Spec => []StintCountsItsTakes`, `[]BlockAfterItsTakes` | the same |
| `RigScreenProofs!OnlyPressesLeave` | `Spec => PressOnly` | the same |
| `ThrottleProofs!TypeCorrect`, `MeterCorrect`, `CoolOffCorrect` | `Spec => []TypeOK`, `[]MeterHolds`, `[]CoolOffEarned` | every setting, any number of keys and requests |
| `AccountsProofs!SessionsEnd` | `Spec => PasswordEndsSessions` | any people, accounts and requests at once |
| `AccountsProofs!OneLinkOnePassword` | `Spec => LinkSetsOnePassword` | the same |
| `AccountsProofs!TypeCorrect` | `Spec => []TypeOK` | the same, where identities of links and sessions do not run out |
| `SchedulesProofs!TypeCorrect`, `SameSheetCorrect`, `BoardCorrect` | `Spec => []TypeOK`, `[]SameSheet`, `[]BoardAndPersonAgree` | any rigs, people, sheets, shift lengths, zones within a day of UTC and numbers of pushes |
| `SchedulesProofs!NoWayBack` | `Spec => NeverGoesBack` | the same |
| `FloorProofs!TypeCorrect`, `OneCauseCorrect` | `Spec => []TypeOK`, `[]OneCauseOneAlert` | any rigs, turns, outages, faults, overruns and limits |
| `FloorProofs!TruthCorrect` | `Spec => SweepTellsTheTruth` | the same |

In `RigEvents`, *TypeCorrect* is inductive as it stands, once it is known that replay,
compaction and the sort by seq give sequences of events; those are lemmas on the
operators (`CompactedKeeps`: compaction keeps what is live and above the mark and
nothing else).

*PromiseHolds*: `PromiseKept` is not inductive. A delete line queued in the
chain could forget an unsettled event, a dead page's queue could still be written,
an open last line could swallow the next append. `PromiseInv` bounds each of these:
the chain holds puts, and deletes of settled events (`JournalWrites`); a page that is off
has no chain and no request; an answer says ok only of what is in the ledger; a put
line has one event (`Single`), which is written once, and neither what is still to be
written nor what is on disk in an open line is promised (`OncePromised`); and what opens
a line is a death of the page, after which one promised event at most is glued on to it,
so that spoiled promises stay behind the deaths (`OpenSinceDeath`). The assumption that
no uploader runs is needed: with one, `RigEventsRace` refutes even a weaker property.

*DeliveryImplemented*: with `PromiseInv`, every step moves each event only as
`LedgerDelivery` lets it. `Standing` is rewritten as a function of the ledger, the
refused, what waits on disk and what is there by an open line only (`StandingIs`,
`Waiting`, `Fraying`), and then what each action does to those decides its step:
a write frays, holds, mends or spoils (`WriteStands`); compaction, which rewrites the
file or leaves it, mends or leaves (`BootStands`); an acknowledgement takes only what is
settled, ingest moves a batch at once.

*MarkFollows*: the mark is a number, and retires by comparison. What the comparison
retires has been answered for because of `MarkInv`: whatever is on disk or in the
uploader's hands has a number of its own, in the order of filing (`NumbersGrow`), and
the next is past all of them (`SeqIsNext`); what the uploader has read is still on
disk, stored or below the mark, and what was filed since has a later number
(`ReadIsKept`); the mark is the number of something stored (`MarkIsAnswered`); and all
between the mark and the end of the batch is in the batch or stored (`BatchIsAll`).
The page's boot keeps `SeqIsNext` only because the cursor it is given is of a ledger
that has what the mark covers. Its hypotheses are needed: section 5.

*ReleasedIsHeldHolds*: `HeldInv` adds that a complete that has passed its check -
waited for, or given up on and still to be served - is about something whole,
and stays so. With cut PUTs and two senders that is false (see below), and with
retention the whole copy is meant to go.

*RetiresFreed*: `freed_at` is never taken back, so whatever retention deletes was
released once. That nothing of it is back on the spool is false (section 5). `TypeOK` of
the pipeline is `VideoTypes` with the shape of what is in flight: a row is in `stored`
at most once, though a confirm takes it out and puts it back at the end, and the
worker's batch is of rows.

*Projection.* `IInv`: what a transaction will leave (`Written`: its own rows over
those committed) records every row it has read so far (`Recorded`), and the
batches are apart; a wipe unmarks every row it might have unrecorded in the same
commit. `Owned`, where nobody wipes: whatever a transaction has written is
named by its own rows or by projected ones. With one worker more holds
(`ReadInOrder`): `InOrder`, a rig's rows come to be seen in the order of their
ids, since it has one request at a time; a claim takes the lowest of what is seen;
so every row is read after all that were read of its rig (`Comes`), and
`ReadsOneMore` says what one such row does: `Row`, which is what `project_one` writes,
over the reading of S is the reading of S with that row. It needs each of the
three tables by itself (`OutageMore`, `SessionMore`, `BlockMore`): an end moves
only for the interval that was open. With two workers `Comes` is false, which is
item 8 of section 5; the replay of several workers is there too.

*RigScreen.* `Types` adds to `TypeOK` the shape of the stint on disk and that a take under
way is counted (`TakeIsCounted`), which is why taking one away never falls below none.
`StintInv`: the count on the screen is what the ledger has of the running stint and one
for a take under way (`CountIsRight`); a disk that is level with the screen, nothing on
the chain and nothing of a take in its row (`Settled`), has that count without the take
under way (`SavedCounts`), of this stint or of one with no takes (`SavedIsRight`), so a
reload then resumes the right number or starts from none; nobody has worked in Standby
(`RestIsEmpty`). The count and the row on disk are right only of stints that are not
`Marked`: under which no schedule was swapped, and no reload fell before the disk was
level (section 5). `FiledIsRight` is what the handlers then file.
`PressOnly` follows from the guards of `Frame` and of what `resync` applies.

*Throttle.* A bucket pays for what it has admitted: what a key has drawn and what it has
left never exceed a full bucket, and a key without one has drawn no more than time has
given back (`Meter`). For the lockout, `Ledger` ties the observers to the strikes: who
waits, waits exactly what he was given, and has failed at least as often as his strike
says. Eviction takes only strikes that have run out.

*Accounts.* A session is only committed by who holds the row of its account,
because every script of `Locking` updates it first. So once a request that sets a
password has passed its revoke, every session of the account stays in the set it
ends (`Good`), whatever others do meanwhile, and its commit leaves but its own; and the
links that requests hold are distinct (`Apart`), so no commit voids a link another one
holds. That a login is outrun changes nothing of what it holds (`Overtakes`). A request's
statement must be one its script can come to (`Rest`), which is what makes the two
inductive. *TypeCorrect* adds that what a request names are rows and identities there are
(`TInv`). It assumes that links and sessions have infinitely many identities, as uuid
keys do for this purpose: then, what is in use being finite, one is always free
(`IdsFinite`); the run has two of each, reused, and TLC finds them enough.

*Schedules.* Every row is of a committed push and has its date (`Stamped`), a push
is in the table whole (`TypeOK`): so what one rig has a row of, every rig has
(`Counterpart`), and the three rules of `in_force` choose alike. Two windows with a
moment in common are of one shift (`OneCovers`), so what is in force under way is the
latest version, which is what My Shift asks for. `NeverGoesBack` needs no more than
that the table grows. What the rig asks and keeps writes none of this (`RigStep`).

*Floor.* `SweepInv`: what a sweep has found was wrong at some moment of it; what has
been wrong all along is found or still ahead of the statement that reads it
(`AheadOf`); what it has read and not yet judged, a turn or the blocks, is judged by a
moment of the sweep (`InHand`); and what it will still look at of a rig, it looks at only
because the rig was heard (`Apart`). A commit publishes what was found, no more and no
less (`CommitPublishes`).

The assumptions on constants are those the modules name; TLC evaluates them in
every run. Every invariant and every action property a passing run checks, and the
refinement of `LedgerDelivery`, are theorems, under the hypotheses of the table. Only
model-checked are the liveness properties (`PromisedArrives`, `BacklogDrains`, `TakenArchives`,
`ReplayComesBackRight`, `EveryRowProjected`, `RestsAfterShift`, `WorksForWhoIsOn`,
`NewScheduleLands`, `RightPasswordGetsIn`, `EveryRequestEnds`, `FloorFollows`,
`BoardSettles`): they rest on fairness, whose ENABLED the prover does not reason about.

## 5. Where code and documentation part

With a run:

1. *The uploader writes the journal* (`NoEventVanishes`, RigEventsRace). `upload.rs:25-28`
   says the shell stays the only writer, and `send_events` calls `Journal::load`, which
   compacts. A line the page appends between the uploader's replay and its rename is gone:
   the uploader has replayed, the page appends and promises, the page is reloaded before
   its POST, the uploader renames.

The model has the behaviour and states what fails, but no run is spent on it; naming
the property in the configuration in brackets shows it:

2. *A torn newline takes the next event with it* (`TornLosesItselfAlone` in RigEventsPage,
   with two deaths of the page; 10 states). `journal.rs:42-44` says skipping a half-written line loses at most the event being
   written, which nobody was promised. Cut just before its newline the record parses, so
   `replay` counts it and `compact` (`journal.rs:346`) finds nothing to rewrite; the next
   event is appended behind it on the same line (`journal.rs:124-136`), acknowledged, and
   both are gone at the next load. `PromiseKept` counts one such event to a death of the
   page. Cut inside a character of several bytes, the line is not UTF-8, `lines()` fails
   (`journal.rs:293`) and so does every load after it, the page's and the uploader's: the
   events are on disk and nothing reads them. And after two deaths a number may be given
   to a second event, since the first is not found (see the first item below), which is
   why `MarkFollowsAnswers` is stated while nothing is `spoiled`.
3. *A checkpoint is not of the moment of its event* (`ReloadKeepsTheCount` in
   RigScreen). `rig.js:1235-1236` has it filed "at the same moment"; it is queued behind
   the event and read when the chain gets to it (`rig.js:1578-1589`). A reload before that
   resumes the stint a take short; one after a write that was late resumes it with the take
   in flight counted, as TLC does in seven states.
4. *A cover does not land* (`CorrectionLands` in RigScreen, with `ACover`):
   `rig.js:648-650` has `pushId` tell who is in a shift; it knows the seat, and the engine's operator id is the seat.
5. *A login outruns a change of password* (`NoSessionOfAnOldPassword` in
   Accounts; 11 states). `people.py:267-269` has a change revoke every other session,
   because the password may be known. `sign_in` verifies (`people.py:222`) and does not look again: its commit waits for
   the account's row (`last_login_at`), gets it when the change has committed, and its
   session of the old password lives. `PasswordEndsSessions` is what does hold: no
   session committed before survives. It rests on that same wait; a login that did not
   write the account could commit in the middle of the change.
6. *One missing spool object stops every drain* (`LandedArchives` in
   VideoPipelineArchives, with the uploader): `copy_to_archive` raises, no row of the batch is
   committed, and the same row is first again. One lost answer leaves such a row: the
   take is sent again, and its second confirm commits on_prem after `release_spool`
   has selected the row and before it deletes the object.
7. *Retention takes a copy that the spool still has* (`RetiresOnlyReleased` in
   VideoPipelineArchives, with a second sender, a death of the page or a lost answer, in some
   20 states): a take is sent twice, the second PUT lands after the release, `freed_at`
   stays, and retention goes by it (`video.py:361`), where `video.py:347-350` says nothing
   still on the spool is old enough.
8. *Two projection workers read one rig out of order* (`UpClosesDown` in
   ProjectionWorkers): SKIP LOCKED lets the second claim a rig_up whose rig_down is in
   the first's uncommitted batch; the outage stays open.
9. *A stint that starts over an early check* (`StintWasSomebodys` in RigScreen) files a
   stint nobody worked and skips the check.
10. *A wait doubled too often* (`FailureCosts` in Throttle): after some 1024 failures in a row
   `first_wait * (2 ** over)` does not fit a float and raises (`lockout.py:114`), with the
   failure counted and no wait set: from there each wrong password is a 500 and costs
   nothing. It takes that many waits of a quarter of an hour, ten days of them.

Seen while modelling:

- A boot that finds nothing owed and no service counts seq from 0 again
  (`rig.js:1654`), at or below the uploader's mark; load and compact then take the
  new events for sent (`journal.rs:260`). This is why `BacklogDrains` is checked with
  `OfflineBoot` off. The same number comes twice when a boot cannot read its journal,
  or a write of it fails; and after a 422, whose seq the service never stored and the
  cursor hands out again, where `rig.js:1530` says seq must not go backwards or repeat.
  With `Bad = {1}` in RigEventsBoth, TLC breaks `MarkFollowsAnswers` in 17 states: the
  page is refused an event and forgets it, and dies; the next boot gives its number to
  the next event; the uploader, which had read the refused one before, is answered and
  moves the mark over the new one, which nobody has sent. With `OfflineBoot` or
  `JournalFails` instead, TLC breaks it too; so each hypothesis of `MarkFollows` is needed.
- A second sender's PUT, cut short, replaces a copy already confirmed
  (`storage.py:113`): hence `MaxCut = 0` where two senders run.
- A confirm after the release leaves the row on_prem with the `freed_at` of the
  round before (`video.py:302`), and `release_spool` passes it by.
- `expire_pending` updates rows it selected as pending after a confirm has
  committed (`video.py:199`).
- A replay beside a live worker (`projection.py:350-352`): facts committed after
  the deletes survive while their rows are marked outstanding, and inserting them
  again collides on source_event for ever. Two standby sessions opened at once
  (their keys are NULL) make `scalar_one_or_none` raise for ever
  (`projection.py:77-79`).
- `resync` checks the phase before its await and applies the answer after it, so
  a schedule can be swapped in the middle of a take (`rig.js:666-691`). When
  an answer is applied after a boundary, `syncTurnKey` takes the boundary for
  crossed: no stint is ended, and the next operator's takes are counted in it
  (`rig.js:692`). Its look at who the new schedule has on ignores the date
  (`rig.js:680`). `StintCountsItsTakes` and `WorksForWhoIsOn` therefore leave out
  stints under which a schedule was swapped.
- The strikes are cleared before the commit of a login or a change is awaited
  (`routes.py:836-838`, `1038-1039`): if that fails, the answer is a 500 and the count is
  gone all the same.
- Two requests for a link at once each void what they see and each open one: two
  links are live, where `repository.py:139` says only the newest opens the door. Both
  are the account's own, and each still sets one password.
- `mint_account passwd` ends the sessions and leaves the links; an invitation sent
  again may reach an account whose password is just being set.
- The tables of the limiters never give a bucket back (`ratelimit.py:91`): once 4096
  addresses have called, every new one is refused until a restart.
  `RightPasswordGetsIn` is about those it knows. Heartbeats and events of a rig share
  one bucket. `Retry-After` rounds down, and may send a caller back too early.
- `in_force` on a floor with nothing near today takes one of the rows tied on
  `pushed_at`: two rigs may be shown different shifts of one push. This is why
  `SameSheet` asks that something is near.
- An event is linked to what is the newest push when it is ingested
  (`for_shift`), which need not be the version in force when it happened, as
  `schedules/model.py:34-36` has it: events wait out an outage on the rig.
- `floor_state` reads rig by rig, and a push may land between two of them.
- A payload whose turn has no readable time makes `turn_bounds` raise, and with it every
  sweep (`rules/floor.py:304`); the push checks only that `turns` is a list.
- The key of an overrun has no date, and an alert left open over a day is taken for
  the next day's.
- Two sweeps at once: the second raise of a key meets the unique index and takes its
  sweep with it, or one resolves what the other has just raised. One is deployed.
- A rig whose clock is wrong hides idleness, or shows it, within the tolerance that
  reports the clock itself.

## 6. Bounds and abstractions

Every bound is a constant whose name starts with Max (and `Limit`, `Batch`, `NSlots`,
`Slot`, `LinkId`, `SessionId`, `Days`, `Horizon`). `Doublings`, `BucketsTracked` and
`StrikesTracked` stand for numbers of the code, made small so that they are reached.
What failing can do is bounded in number and not in place: each death, loss, cut or
failure may come at any step. Event payloads, seconds, wording and rendering are left
out. A payload that lacks a field `project_one` reads would stop the projection for
ever; the pages never file one and the model has none. One rig is modelled in
`RigEvents`: rigs share only the table, which is keyed by rig. A query is one step, as
READ COMMITTED gives it one snapshot; a workflow of several is several.

## 7. Plan

Modules to come, in order:

1. `VideoFiles`: `put_video`, `forget_video` and the orphan sweep of `videos()`
   over `.bin` and `.json`, in two processes; composed with the queue of
   `VideoPipeline`.
2. `Identity`: `confirmIdentity` and `switchRig` over `RigEvents`.
3. `PushServer`: the file-backed push.
4. `RotationEngine`: `buildPlan` as operators against a reference audit.

Theorems to come: with those modules, that the orphan sweep takes no take's file; that
the numbers of events stay apart across `confirmIdentity`; of `RigEvents`, what holds
of the mark where an event is refused (everything it newly retires is settled or has a
refused event's number); of `Projection`, that with several workers the tables are the
reading of some order of the rows. The liveness properties stay with TLC.

## 8. Not modelled

`PROJECT.json` lists each component with its status and the reason: command
plumbing and a stand-in recorder (desktop shell), mail and logging, rendering
(my-shift), editing (rotation desk), shapes (schema), one quotient (efficiency), a
stand-in for the service (push server), a pure algorithm over rosters (rotation
engine: `Schedules` assumes of its sheets only that nobody is on two rigs at once),
and tools run by hand with the service stopped. Of the modelled components, left out
are `confirmIdentity` and `switchRig` of the page, the files a take consists of, CSRF
and the desk's token, the correction of a name and the purge of dead rows.
