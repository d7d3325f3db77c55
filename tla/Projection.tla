----------------------------- MODULE Projection -----------------------------
(***************************************************************************)
(* The ledger read into the fact tables (workflows/projection.py and       *)
(* workers/project_events.py).                                             *)
(*                                                                         *)
(* Rigs file events; each ingest is a transaction whose rows take their    *)
(* ids when they are inserted and are seen when it commits, so a lower id  *)
(* of one rig may appear after a higher id of another.  A worker claims    *)
(* the outstanding rows it can lock, reads them one at a time into the     *)
(* fact tables, and commits the whole batch or none of it.                 *)
(*                                                                         *)
(* A row of a fact table is named by the ledger row that wrote it, the     *)
(* row's source_event (for a session: the event that opened it).  An `at'  *)
(* is named by the ledger row that carried it.                             *)
(***************************************************************************)
EXTENDS Naturals, Sequences, FiniteSets, FiniteSetsExt, Functions

CONSTANTS
  Rig,        \* the rigs that file
  Turn,       \* a turn and who holds it: what a session is keyed by
  Standby,    \* turn_from and operator_id NULL: nothing scheduled
  Filing,     \* the <<kind, turn>> pairs a rig files in this instance
  Worker,     \* processes of project_events
  Limit,      \* project_batch's limit
  MaxRows,    \* bound: ids the ledger hands out
  MaxFails,   \* bound: transactions of a worker that fail
  MaxReplays  \* bound: starts with --replay

ASSUME SetsAssumption == IsFiniteSet(Rig) /\ IsFiniteSet(Worker)
ASSUME LimitAssumption == Limit \in Nat \ {0}
ASSUME BoundsAssumption == {MaxRows, MaxFails, MaxReplays} \subseteq Nat
ASSUME StandbyAssumption == Standby \notin Turn

VARIABLES
  ledger,    \* ledger[id]: a row of rig_events and where its ingest is
  projected, \* the ids whose projected_at is set
  facts,     \* the fact tables, as committed
  tx,        \* tx[w]: the transaction worker w is in
  spent      \* what has been used of the bounds

vars == <<ledger, projected, facts, tx, spent>>

-----------------------------------------------------------------------------
\* What the projection reads in an event.

Kind == {"saved", "discarded", "passed", "fault", "down", "up", "stint",
         "ended", "beat"}

\* Evidence that a rig works, whoever forgot to say so.
Works == {"saved", "discarded", "passed"}

\* Kinds with a row of their own in `episodes' or `rig_shift_checks'.
Filed == {"saved", "discarded", "passed", "fault"}

ASSUME FilingAssumption ==
  Filing \subseteq (Kind \X Turn) \cup ((Kind \ {"saved", "discarded", "stint"}) \X {Standby})

Id == DOMAIN ledger
RigOf(i) == ledger[i].rig
KindOf(i) == ledger[i].kind
\* The fields uq_sessions_turn is over, and every query of a turn is by.
Key(i) == <<ledger[i].rig, ledger[i].turn>>

Held == {i \in Id : ledger[i].at = "held"}

None == [i \in {} |-> 0]
NoFacts == [filed |-> {}, outage |-> None, session |-> None, block |-> None]

-----------------------------------------------------------------------------
\* The fact tables:
\*   filed    the rows of `episodes' and `rig_shift_checks'
\*   outage   row -> the event that closed it, 0 while it is open
\*   session  row -> the event that closed it, 0 while it is open
\*   block    row -> the turn's first event and its episodes so far

\* One row, and the rows f over the rows g.
Only(x, v) == [y \in {x} |-> v]
Over(f, g) == [x \in DOMAIN f \cup DOMAIN g |-> IF x \in DOMAIN f THEN f[x] ELSE g[x]]

\* The tables as they will be when worker w commits.
Written(w) ==
  [filed   |-> tx[w].new.filed \cup facts.filed,
   outage  |-> Over(tx[w].new.outage, facts.outage),
   session |-> Over(tx[w].new.session, facts.session),
   block   |-> Over(tx[w].new.block, facts.block)]

\* What a transaction reads: its own writes over what is committed, and a
\* session it has loaded as it was when it was loaded.
View(w) ==
  [Written(w) EXCEPT !.session = Over(tx[w].new.session, Over(tx[w].loaded, facts.session))]

SessionsOf(v, i) == {s \in DOMAIN v.session : Key(s) = Key(i)}

\* _open_downtime() takes the open outage with the latest down_at.  A rig files its
\* events in order and has one request at a time, so of one rig that is the
\* highest id, as long as its clock is not set back; more than one is open only
\* where two workers opened them at once.
OpenOutages(v, i) == {d \in DOMAIN v.outage : RigOf(d) = RigOf(i) /\ v.outage[d] = 0}

\* Mutation: the rig is forgotten in the query.
OutageWrites_AnyRig(v, i) ==
  LET open == {d \in DOMAIN v.outage : v.outage[d] = 0} IN
  IF KindOf(i) \in Works \cup {"up"} /\ open # {} THEN Only(Max(open), i)
  ELSE IF KindOf(i) = "down" /\ open = {} THEN Only(i, 0)
  ELSE None

\* The outage an event closes: rig_up says so, work proves it.
OutageWrites(v, i) ==
  LET open == OpenOutages(v, i) IN
  IF KindOf(i) \in Works \cup {"up"} /\ open # {} THEN Only(Max(open), i)
  ELSE IF KindOf(i) = "down" /\ open = {} THEN Only(i, 0)
  ELSE None

\* First close wins; the event that opens a session may close it as well.
SessionWrites(v, i, s) ==
  LET open == s \notin DOMAIN v.session \/ v.session[s] = 0 IN
  IF KindOf(i) \in {"stint", "ended"} /\ open THEN Only(s, i)
  ELSE IF s \notin DOMAIN v.session THEN Only(s, 0)
  ELSE None

\* _stint_totals: the saved takes of the turn, and when the turn began.
BlockWrites(v, i, s) ==
  IF KindOf(i) = "stint"
  THEN Only(i, [since    |-> s,
                episodes |-> Cardinality({j \in v.filed : /\ Key(j) = Key(i)
                                                          /\ KindOf(j) = "saved"})])
  ELSE None

-----------------------------------------------------------------------------
\* Ingest: one request of a rig at a time, any number of rows each.

Ingesting(r) == {i \in Id : RigOf(i) = r /\ ledger[i].at = "open"}

Insert(r, kind, turn) ==
  /\ Len(ledger) < MaxRows
  /\ ledger' = Append(ledger, [rig |-> r, kind |-> kind, turn |-> turn, at |-> "open"])
  /\ UNCHANGED <<projected, facts, tx, spent>>

Settle(r, outcome) ==
  ledger' = [i \in Id |-> IF i \in Ingesting(r) THEN [ledger[i] EXCEPT !.at = outcome]
                                                ELSE ledger[i]]

IngestCommits(r) ==
  /\ Ingesting(r) # {}
  /\ Settle(r, "held")
  /\ UNCHANGED <<projected, facts, tx, spent>>

\* The ids are gone; the rig sends the events again under new ones.
IngestFails(r) ==
  /\ Ingesting(r) # {}
  /\ Settle(r, "gone")
  /\ UNCHANGED <<projected, facts, tx, spent>>

-----------------------------------------------------------------------------
\* The worker.

Idle == [phase |-> "idle", batch |-> {}, todo |-> {}, new |-> NoFacts,
         loaded |-> None, doomed |-> NoFacts]

\* Mutation: a look and not a claim.
Claimable_Unlocked(w) == Held \ projected

\* Mutation: a cursor over the ids in place of projected_at.
Claimable_Cursor(w) ==
  {i \in Held : \A j \in projected \cup UNION {tx[u].batch : u \in Worker \ {w}} : j < i}

Claimable(w) == (Held \ projected) \ UNION {tx[u].batch : u \in Worker \ {w}}

\* project_batch's SELECT ... ORDER BY id LIMIT ... FOR UPDATE SKIP LOCKED.
Claim(w) ==
  LET rows == {i \in Claimable(w) : Cardinality({j \in Claimable(w) : j < i}) < Limit} IN
  /\ tx[w].phase = "idle"
  /\ rows # {}
  /\ tx' = [tx EXCEPT ![w].phase = "batch", ![w].batch = rows, ![w].todo = rows]
  /\ UNCHANGED <<ledger, projected, facts, spent>>

\* Nothing outstanding: sleep and poll again.
PollsEmpty(w) ==
  /\ tx[w].phase = "idle"
  /\ Claimable(w) = {}
  /\ UNCHANGED vars

\* scalar_one_or_none over two sessions, or a source_event written before.
Refused(v, i) ==
  \/ Cardinality(SessionsOf(v, i)) > 1
  \/ i \in v.filed
  \/ i \in DOMAIN v.block
  \/ /\ i \in DOMAIN OutageWrites(v, i)
     /\ i \in DOMAIN v.outage

\* project_one.
Project(w) ==
  LET i == Min(tx[w].todo)
      v == View(w)
      s == IF SessionsOf(v, i) = {} THEN i ELSE Max(SessionsOf(v, i))
      new == tx[w].new
  IN
  /\ tx[w].phase = "batch"
  /\ tx[w].todo # {}
  /\ ~Refused(v, i)
  /\ tx' = [tx EXCEPT
       ![w].todo = @ \ {i},
       ![w].loaded = IF s \in DOMAIN v.session THEN Over(Only(s, v.session[s]), @) ELSE @,
       ![w].new = [filed   |-> IF KindOf(i) \in Filed THEN new.filed \cup {i} ELSE new.filed,
                   outage  |-> Over(OutageWrites(v, i), new.outage),
                   session |-> Over(SessionWrites(v, i, s), new.session),
                   block   |-> Over(BlockWrites(v, i, s), new.block)]]
  /\ UNCHANGED <<ledger, projected, facts, spent>>

\* A session of the same turn committed meanwhile: uq_sessions_turn refuses
\* the insert.  NULLs are distinct to it, so a standby session is let in.
SessionTaken(w) ==
  \E s \in DOMAIN tx[w].new.session \ DOMAIN facts.session :
    /\ ledger[s].turn # Standby
    /\ SessionsOf(facts, s) # {}

\* A row a wipe has deleted and not committed: each waits for the other's
\* locks, and the database ends one of them.
Deadlocked(w) ==
  \E u \in Worker \ {w} :
    \/ DOMAIN tx[w].new.outage \cap DOMAIN tx[u].doomed.outage # {}
    \/ DOMAIN tx[w].new.session \cap DOMAIN tx[u].doomed.session # {}

BatchRead(w) == tx[w].phase = "batch" /\ tx[w].todo = {}

\* The facts and projected_at of the whole batch, in one commit.
Commit(w) ==
  /\ BatchRead(w)
  /\ ~SessionTaken(w) /\ ~Deadlocked(w)
  /\ facts' = Written(w)
  /\ projected' = projected \cup tx[w].batch
  /\ tx' = [tx EXCEPT ![w] = Idle]
  /\ UNCHANGED <<ledger, spent>>

Rollback(w) ==
  /\ tx' = [tx EXCEPT ![w] = Idle]
  /\ UNCHANGED <<ledger, projected, facts>>

\* Mutation: what cannot be read is marked and left behind.
Raises_Skips(w) ==
  /\ \/ tx[w].phase = "batch" /\ tx[w].todo # {} /\ Refused(View(w), Min(tx[w].todo))
     \/ BatchRead(w) /\ (SessionTaken(w) \/ Deadlocked(w))
  /\ projected' = projected \cup tx[w].batch
  /\ tx' = [tx EXCEPT ![w] = Idle]
  /\ UNCHANGED <<ledger, facts, spent>>

\* The database refuses: run() logs, backs off and claims again.
Raises(w) ==
  /\ \/ tx[w].phase = "batch" /\ tx[w].todo # {} /\ Refused(View(w), Min(tx[w].todo))
     \/ BatchRead(w) /\ (SessionTaken(w) \/ Deadlocked(w))
  /\ Rollback(w)
  /\ UNCHANGED spent

\* The process or its connection dies, at any point before the commit.
Fails(w) ==
  /\ tx[w].phase # "idle"
  /\ spent.fails < MaxFails
  /\ Rollback(w)
  /\ spent' = [spent EXCEPT !.fails = @ + 1]

\* Somebody starts the worker with --replay: reset_projections deletes the
\* rows it can see ...
Wipe(w) ==
  /\ tx[w].phase = "idle"
  /\ spent.replays < MaxReplays
  /\ tx' = [tx EXCEPT ![w].phase = "wipe", ![w].doomed = facts]
  /\ spent' = [spent EXCEPT !.replays = @ + 1]
  /\ UNCHANGED <<ledger, projected, facts>>

\* Mutation: the tables are wiped and the ledger is not marked.
WipeCommits_Unmarked(w) ==
  LET gone == tx[w].doomed IN
  /\ tx[w].phase = "wipe"
  /\ \A u \in Worker : tx[u].batch = {}
  /\ facts' = [filed   |-> facts.filed \ gone.filed,
               outage  |-> Restrict(facts.outage, DOMAIN facts.outage \ DOMAIN gone.outage),
               session |-> Restrict(facts.session, DOMAIN facts.session \ DOMAIN gone.session),
               block   |-> Restrict(facts.block, DOMAIN facts.block \ DOMAIN gone.block)]
  /\ tx' = [tx EXCEPT ![w] = Idle]
  /\ UNCHANGED <<ledger, projected, spent>>

\* ... and marks every ledger row outstanding, once no batch has it locked.
WipeCommits(w) ==
  LET gone == tx[w].doomed IN
  /\ tx[w].phase = "wipe"
  /\ \A u \in Worker : tx[u].batch = {}
  /\ facts' = [filed   |-> facts.filed \ gone.filed,
               outage  |-> Restrict(facts.outage, DOMAIN facts.outage \ DOMAIN gone.outage),
               session |-> Restrict(facts.session, DOMAIN facts.session \ DOMAIN gone.session),
               block   |-> Restrict(facts.block, DOMAIN facts.block \ DOMAIN gone.block)]
  /\ projected' = {}
  /\ tx' = [tx EXCEPT ![w] = Idle]
  /\ UNCHANGED <<ledger, spent>>

-----------------------------------------------------------------------------
Init ==
  /\ ledger = <<>>
  /\ projected = {}
  /\ facts = NoFacts
  /\ tx = [w \in Worker |-> Idle]
  /\ spent = [fails |-> 0, replays |-> 0]

Ingest(r) ==
  \/ \E f \in Filing : Insert(r, f[1], f[2])
  \/ IngestCommits(r)
  \/ IngestFails(r)

Step(w) ==
  \/ Claim(w) \/ Project(w) \/ Commit(w) \/ Raises(w) \/ WipeCommits(w)

Next ==
  \/ \E r \in Rig : Ingest(r)
  \/ \E w \in Worker : Step(w) \/ PollsEmpty(w) \/ Fails(w) \/ Wipe(w)

Spec == Init /\ [][Next]_vars

\* A request ends one way or the other; a worker that can go on does.
FairSpec ==
  /\ Spec
  /\ \A r \in Rig : WF_vars(IngestCommits(r) \/ IngestFails(r))
  /\ \A w \in Worker : WF_vars(Step(w))

-----------------------------------------------------------------------------
\* Properties.

RowType == [rig : Rig, kind : Kind, turn : Turn \cup {Standby},
            at : {"open", "held", "gone"}]

\* A reading that speaks only of rows in S.
FactsType(f, S) ==
  /\ f.filed \subseteq S
  /\ DOMAIN f.outage \subseteq S /\ DOMAIN f.session \subseteq S /\ DOMAIN f.block \subseteq S
  /\ \A d \in DOMAIN f.outage : f.outage[d] \in {0} \cup S
  /\ \A s \in DOMAIN f.session : f.session[s] \in {0} \cup S
  /\ \A b \in DOMAIN f.block : f.block[b] \in [since : S, episodes : Nat]

\* Types.  Facts and batches speak only of rows whose ingest has committed,
\* and no two workers hold the same row.
TypeOK ==
  /\ ledger \in Seq(RowType)
  /\ projected \subseteq Held
  /\ FactsType(facts, Held)
  /\ spent \in [fails : 0..MaxFails, replays : 0..MaxReplays]
  /\ \A w \in Worker :
       /\ tx[w].phase \in {"idle", "batch", "wipe"}
       /\ tx[w].todo \subseteq tx[w].batch /\ tx[w].batch \subseteq Held \ projected
       /\ FactsType(tx[w].new, Held) /\ FactsType(tx[w].doomed, Held)
       /\ \A u \in Worker \ {w} : tx[u].batch \cap tx[w].batch = {}

\* What the ledger rows S say, by no worker and in no transaction: outages
\* begin at a rig_down with nothing open and last until the rig's first
\* event that closes one; sessions run from a turn's first event to its
\* first end; a block counts the saved takes of its turn before it.
SameRig(i, j) == RigOf(i) = RigOf(j)
SameTurn(i, j) == Key(i) = Key(j)

DownBefore(S, i) ==
  \E d \in S : /\ d < i /\ SameRig(d, i) /\ KindOf(d) = "down"
               /\ \A c \in S : d < c /\ c < i /\ SameRig(c, i) => KindOf(c) \notin Works \cup {"up"}

Outages(S) == {d \in S : KindOf(d) = "down" /\ ~DownBefore(S, d)}
Sessions(S) == {s \in S : \A j \in S : j < s => ~SameTurn(s, j)}

Earliest(ends) == IF ends = {} THEN 0 ELSE Min(ends)
OutageEnds(S, d) == {j \in S : j >= d /\ SameRig(d, j) /\ KindOf(j) \in Works \cup {"up"}}
SessionEnds(S, s) == {j \in S : j >= s /\ SameTurn(s, j) /\ KindOf(j) \in {"stint", "ended"}}

BlockOf(S, b) ==
  [since    |-> Min({j \in S : SameTurn(b, j)}),
   episodes |-> Cardinality({j \in S : j < b /\ SameTurn(b, j) /\ KindOf(j) = "saved"})]

Reading(S) ==
  [filed   |-> {i \in S : KindOf(i) \in Filed},
   outage  |-> [d \in Outages(S) |-> Earliest(OutageEnds(S, d))],
   session |-> [s \in Sessions(S) |-> Earliest(SessionEnds(S, s))],
   block   |-> [b \in {i \in S : KindOf(i) = "stint"} |-> BlockOf(S, b)]]

\* The tables are always exactly what the projected rows of the ledger say,
\* read in the order of their ids: "the events are the truth, the tables
\* are a reading of them" (projection.py), across rigs whose ids commit out
\* of order, batches that die half way and replays.
FactsAreTheReading == facts = Reading(projected)

\* No row marked projected is missing from the tables, whichever workers
\* failed, collided or wiped the tables beside one another: what is marked
\* is not looked at again, so a fact lost here would stay lost.
ProjectedHasFacts ==
  /\ {i \in projected : KindOf(i) \in Filed} \subseteq facts.filed
  /\ {i \in projected : KindOf(i) = "stint"} \subseteq DOMAIN facts.block
  /\ {Key(i) : i \in projected} \subseteq {Key(s) : s \in DOMAIN facts.session}

\* A ledger row has its facts exactly when it is marked projected, however
\* many workers claim at once and whichever of them fail: "the worker can
\* be replaced, run twice" (test_projection.py).
FactsOfProjected ==
  /\ ProjectedHasFacts
  /\ facts.filed \cup DOMAIN facts.block \cup DOMAIN facts.outage \cup DOMAIN facts.session
       \subseteq projected

\* A rig_up that has been projected after its rig_down closed it: "a
\* rig_down is always seen before the rig_up that closes it", and more than
\* one worker can run safely (project_batch).
UpClosesDown ==
  \A d \in DOMAIN facts.outage, u \in projected :
    d < u /\ SameRig(d, u) /\ KindOf(u) = "up" => facts.outage[d] # 0

\* Every row the ledger holds is projected in the end.
EveryRowProjected ==
  \A i \in 1..MaxRows : (i \in Held) ~> (i \in projected)

\* However often the tables are wiped and rebuilt, they come to say what
\* the whole ledger says: "wipe, replay, and every shift ever recorded
\* comes back right" (reset_projections).
ReplayComesBackRight == <>[](projected = Held /\ facts = Reading(Held))

=============================================================================
