--------------------------- MODULE VideoPipeline ---------------------------
(***************************************************************************)
(* How one camera's video of a take leaves the rig and reaches the cold    *)
(* tier.                                                                   *)
(*                                                                         *)
(*  - the rig: the page's videoQueue (rig.js) and the uploader's sweep     *)
(*    (upload.rs) both ask, put and complete, and let go of the take only  *)
(*    on safeToDelete;                                                     *)
(*  - the service (video.py): where_to_put and confirm, over one row per   *)
(*    camera and an object store (storage.py);                             *)
(*  - the worker (drain_to_archive.py): one session after another, copy,   *)
(*    release, give up on what never came, retire what is old.             *)
(*                                                                         *)
(* Every session commits blindly: it updates by primary key the rows its   *)
(* query returned some time before.                                        *)
(***************************************************************************)
EXTENDS Naturals, Sequences, FiniteSets, Functions

CONSTANTS
  Camera,         \* one row and one object each
  Limit,          \* the most rows one drain_batch takes
  WithUploader,   \* the rig-uploader service runs beside the page
  PendingExpires, \* expire_pending has a window (seven days by default)
  ArchiveExpires, \* expire_archive has a window (ninety days by default)
  LateArrival,    \* a request its sender gave up on may still be served
  MaxPageDeaths,  \* bound: reloads and crashes of the page
  MaxLost,        \* bound: exchanges the network gives up on
  MaxCut,         \* bound: PUTs that stop half way
  MaxCopyCut,     \* bound: copies to the archive that stop half way
  MaxWorkerDeaths \* bound: restarts of the worker

ASSUME CameraAssumption == IsFiniteSet(Camera)
ASSUME LimitAssumption == Limit \in Nat \ {0}
ASSUME FlagsAssumption ==
  {WithUploader, PendingExpires, ArchiveExpires, LateArrival} \subseteq BOOLEAN
ASSUME BoundsAssumption ==
  {MaxPageDeaths, MaxLost, MaxCut, MaxCopyCut, MaxWorkerDeaths} \subseteq Nat

VARIABLES
  \* the rig
  taken,     \* cameras whose take has been saved
  queue,     \* videoQueue, in the page's memory
  chain,     \* the page's journal writes, queued behind one another
  disk,      \* the takes the rig's journal holds
  \* the senders' exchanges with the service
  sending,   \* sending[s]: what sender s is about, and how far it is
  late,      \* requests given up on that may still be served
  \* the service
  projected, \* the take has its row in `episodes'
  row,       \* row[c]: the camera's row in `episode_videos'
  stored,    \* the confirmed cameras in stored_at order
  spool,     \* what the object store holds under the camera's key
  archive,   \* what the archive holds under it
  \* the worker
  phase,     \* which part of its loop the worker is in
  work,      \* the rows its query returned, still to be looked at
  marked,    \* the rows changed in its session, not committed
  \* bookkeeping of the model
  told,      \* cameras a sender has been told safeToDelete about
  spent      \* what has been used of each bound

rigVars == <<taken, queue, chain, disk>>
sendVars == <<sending, late>>
rowVars == <<projected, row, stored>>
storeVars == <<spool, archive>>
workerVars == <<phase, work, marked>>
vars == <<rigVars, sendVars, rowVars, storeVars, workerVars, told, spent>>

Sender == IF WithUploader THEN {"page", "uploader"} ELSE {"page"}
Idle == [step |-> "idle", cams |-> {}]
At(step, c) == [step |-> step, cams |-> {c}]

NoRow == [state |-> "none", freed |-> FALSE]
Bytes == {"none", "whole", "cut"}

\* S one after another, in an order the model leaves open.
Listed(S) == {q \in [1..Cardinality(S) -> S] : Range(q) = S}

\* What s has of S, in the order s has it.
Sublists(s, S) ==
  {q \in Listed(Range(s) \cap S) :
     \A i, j \in DOMAIN q : i < j =>
       \E k, l \in DOMAIN s : k < l /\ s[k] = q[i] /\ s[l] = q[j]}

Bound == {"page", "lost", "cut", "copy", "worker"}
Spend(k) == spent' = [spent EXCEPT ![k] = @ + 1]
Allowed ==
  [page |-> MaxPageDeaths, lost |-> MaxLost, cut |-> MaxCut, copy |-> MaxCopyCut,
   worker |-> MaxWorkerDeaths]
Can(k) == spent[k] < Allowed[k]

-----------------------------------------------------------------------------
(* The rig's journal.                                                      *)

\* queueVideo(): onto the queue, and a putVideo behind the other writes.
Save(c) ==
  /\ c \notin taken
  /\ taken' = taken \cup {c}
  /\ queue' = Append(queue, c)
  /\ chain' = Append(chain, <<"put", c>>)
  /\ UNCHANGED <<disk, sendVars, rowVars, storeVars, workerVars, told, spent>>

JournalWrite ==
  /\ chain # <<>>
  /\ disk' = IF Head(chain)[1] = "put" THEN disk \cup {Head(chain)[2]}
                                       ELSE disk \ {Head(chain)[2]}
  /\ chain' = Tail(chain)
  /\ UNCHANGED <<taken, queue, sendVars, rowVars, storeVars, workerVars, told,
                 spent>>

\* What becomes of sender s's request when s stops waiting for it: a PUT may
\* still land, a complete that has read the store may still commit.
GivenUp(s) ==
  IF LateArrival /\ sending[s].step \in {"asked", "checked"}
    THEN late \cup {sending[s]} ELSE late

\* The page dies and boots: the queue is what the journal holds.
PageRestarts ==
  /\ Can("page")
  /\ Spend("page")
  /\ queue' \in Listed(disk)
  /\ chain' = <<>>
  /\ late' = GivenUp("page")
  /\ sending' = [sending EXCEPT !["page"] = Idle]
  /\ UNCHANGED <<taken, disk, rowVars, storeVars, workerVars, told>>

-----------------------------------------------------------------------------
(* One upload: presign, PUT, complete.                                     *)

\* project_one(): the episode's event has become its row.
Project ==
  /\ ~projected
  /\ projected' = TRUE
  /\ UNCHANGED <<rigVars, sendVars, row, stored, storeVars, workerVars, told,
                 spent>>

\* The head of the queue for the page, any take on the disk for the uploader.
Offered(s) == IF s = "page" THEN {queue[i] : i \in {1} \cap DOMAIN queue} ELSE disk

\* where_to_put(): the row is made if there is none.  Before the episode is
\* projected the answer is 404 and nothing changes.  The key is a function of
\* the episode and the camera, so the row's copy of it is left out.
Presign(s) ==
  /\ sending[s] = Idle
  /\ projected
  /\ \E c \in Offered(s) :
       /\ sending' = [sending EXCEPT ![s] = At("asked", c)]
       /\ row' = IF row[c].state = "none"
                    THEN [row EXCEPT ![c].state = "pending"] ELSE row
  /\ UNCHANGED <<rigVars, late, projected, stored, storeVars, workerVars, told,
                 spent>>

\* storage.put(): the bytes replace whatever the key held.
PutLands(s) ==
  /\ sending[s].step = "asked"
  /\ \E c \in sending[s].cams :
       /\ spool' = [spool EXCEPT ![c] = "whole"]
       /\ sending' = [sending EXCEPT ![s] = At("put", c)]
  /\ UNCHANGED <<rigVars, late, rowVars, archive, workerVars, told, spent>>

\* A write that stops half way, whether or not the sender can tell.
PutStops(s) ==
  /\ sending[s].step = "asked"
  /\ Can("cut")
  /\ Spend("cut")
  /\ \E c \in sending[s].cams :
       /\ spool' = [spool EXCEPT ![c] = "cut"]
       /\ \E next \in {Idle, At("put", c)} :
            sending' = [sending EXCEPT ![s] = next]
  /\ UNCHANGED <<rigVars, late, rowVars, archive, workerVars, told>>

\* confirm() asks the store what landed: 409 unless it is what was sent.
ConfirmReads(s) ==
  /\ sending[s].step = "put"
  /\ \E c \in sending[s].cams :
       sending' = [sending EXCEPT
                     ![s] = IF spool[c] = "whole" THEN At("checked", c) ELSE Idle]
  /\ UNCHANGED <<rigVars, late, rowVars, storeVars, workerVars, told, spent>>

\* Mutation: a second confirm makes a second row.
Confirmed_Twice(c) ==
  /\ row' = [row EXCEPT ![c].state = "on_prem"]
  /\ stored' = Append(stored, c)

\* What confirm() commits: the row is on_prem whatever it said before.
Confirmed(c) ==
  /\ row' = [row EXCEPT ![c].state = "on_prem"]
  /\ \E others \in Sublists(stored, Camera \ {c}) : stored' = Append(others, c)

ConfirmCommits(s) ==
  /\ sending[s].step = "checked"
  /\ \E c \in sending[s].cams :
       /\ Confirmed(c)
       /\ sending' = [sending EXCEPT ![s] = At("released", c)]
  /\ UNCHANGED <<rigVars, late, projected, storeVars, workerVars, told, spent>>

\* safeToDelete arrives: the page drops the take and queues its forgetting,
\* the uploader unlinks it.
Released(s) ==
  /\ sending[s].step = "released"
  /\ told' = told \cup sending[s].cams
  /\ sending' = [sending EXCEPT ![s] = Idle]
  /\ IF s = "page"
       THEN /\ queue' = Tail(queue)
            /\ chain' = Append(chain, <<"forget", Head(queue)>>)
            /\ UNCHANGED disk
       ELSE /\ disk' = disk \ sending[s].cams
            /\ UNCHANGED <<queue, chain>>
  /\ UNCHANGED <<taken, late, rowVars, storeVars, workerVars, spent>>

\* Any step's request or answer is lost: round again from the presign.
ExchangeLost(s) ==
  /\ sending[s] # Idle
  /\ Can("lost")
  /\ Spend("lost")
  /\ late' = GivenUp(s)
  /\ sending' = [sending EXCEPT ![s] = Idle]
  /\ UNCHANGED <<rigVars, rowVars, storeVars, workerVars, told>>

\* A request nobody waits for any more is served all the same.
ServeLate ==
  /\ \E r \in late, c \in Camera :
       /\ c \in r.cams
       /\ late' = late \ {r}
       /\ IF r.step = "asked"
            THEN spool' = [spool EXCEPT ![c] = "whole"] /\ UNCHANGED <<row, stored>>
            ELSE Confirmed(c) /\ UNCHANGED spool
  /\ UNCHANGED <<rigVars, sending, projected, archive, workerVars, told, spent>>

-----------------------------------------------------------------------------
(* The worker: one session, one part after another.                        *)

InState(st) == {c \in Camera : row[c].state = st}
Upto(s) == SubSeq(s, 1, IF Len(s) < Limit THEN Len(s) ELSE Limit)

\* Mutation: any object at the key will do.
Matches_Any(bytes) == bytes # "none"

\* _archive_matches(): the archive is asked what it holds.
Matches(bytes) == bytes = "whole"

\* The rows that drain_batch selects: on_prem, the longest stored first.
DrainSelects ==
  /\ phase = "idle"
  /\ phase' = "copy"
  /\ work' \in {Upto(q) : q \in Sublists(stored, InState("on_prem"))}
  /\ UNCHANGED <<rigVars, sendVars, rowVars, storeVars, marked, told, spent>>

\* A copy that arrives, and is marked archived if it matches.  Marking is in
\* the session only.
DrainCopies ==
  /\ phase = "copy" /\ work # <<>>
  /\ spool[Head(work)] # "none"
  /\ archive' = [archive EXCEPT ![Head(work)] = spool[Head(work)]]
  /\ marked' = IF Matches(archive'[Head(work)]) THEN marked \cup {Head(work)}
                                                ELSE marked
  /\ work' = Tail(work)
  /\ UNCHANGED <<rigVars, sendVars, rowVars, spool, phase, told, spent>>

\* A copy cut short leaves its part in the archive and does not match.
DrainCopyCut ==
  /\ phase = "copy" /\ work # <<>>
  /\ spool[Head(work)] # "none"
  /\ Can("copy") /\ Spend("copy")
  /\ archive' = [archive EXCEPT ![Head(work)] = "cut"]
  /\ marked' = IF Matches("cut") THEN marked \cup {Head(work)} ELSE marked
  /\ work' = Tail(work)
  /\ UNCHANGED <<rigVars, sendVars, rowVars, spool, phase, told>>

\* Nothing to copy from: the store raises, the pass is abandoned and its
\* session rolled back.
DrainRaises ==
  /\ phase = "copy" /\ work # <<>>
  /\ spool[Head(work)] = "none"
  /\ phase' = "idle" /\ work' = <<>> /\ marked' = {}
  /\ UNCHANGED <<rigVars, sendVars, rowVars, storeVars, told, spent>>

\* Mutation: freed recorded with the archiving, before the release.
DrainCommits_Frees ==
  /\ phase = "copy" /\ work = <<>>
  /\ row' = [c \in Camera |->
               IF c \in marked THEN [state |-> "archived", freed |-> TRUE] ELSE row[c]]
  /\ marked' = {}
  /\ phase' = "release"
  /\ UNCHANGED <<rigVars, sendVars, projected, stored, storeVars, work, told, spent>>

\* What was marked is archived from here on.
DrainCommits ==
  /\ phase = "copy" /\ work = <<>>
  /\ row' = [c \in Camera |->
               IF c \in marked THEN [row[c] EXCEPT !.state = "archived"] ELSE row[c]]
  /\ marked' = {}
  /\ phase' = "release"
  /\ UNCHANGED <<rigVars, sendVars, projected, stored, storeVars, work, told, spent>>

\* release_spool(): archived and not freed.  Which rows a full batch leaves for
\* the next pass is left open.
ReleaseSelects ==
  /\ phase = "release"
  /\ phase' = "free"
  /\ \E S \in SUBSET {c \in InState("archived") : ~row[c].freed} :
       /\ \/ Cardinality(S) = Limit
          \/ Cardinality(S) < Limit /\ S = {c \in InState("archived") : ~row[c].freed}
       /\ work' \in Listed(S)
  /\ UNCHANGED <<rigVars, sendVars, rowVars, storeVars, marked, told, spent>>

\* The archive is asked again, and only then is the spool copy deleted.
ReleaseFrees ==
  /\ phase = "free" /\ work # <<>>
  /\ IF Matches(archive[Head(work)])
       THEN /\ spool' = [spool EXCEPT ![Head(work)] = "none"]
            /\ marked' = marked \cup {Head(work)}
       ELSE UNCHANGED <<spool, marked>>
  /\ work' = Tail(work)
  /\ UNCHANGED <<rigVars, sendVars, rowVars, archive, phase, told, spent>>

ReleaseCommits ==
  /\ phase = "free" /\ work = <<>>
  /\ row' = [c \in Camera |->
               IF c \in marked THEN [row[c] EXCEPT !.freed = TRUE] ELSE row[c]]
  /\ marked' = {}
  /\ phase' = "giveup"
  /\ UNCHANGED <<rigVars, sendVars, projected, stored, storeVars, work, told, spent>>

\* expire_pending(): the pending rows that are old enough, whichever they are.
GiveUpSelects ==
  /\ phase = "giveup"
  /\ phase' = "missing"
  /\ marked' \in IF PendingExpires THEN SUBSET InState("pending") ELSE {{}}
  /\ UNCHANGED <<rigVars, sendVars, rowVars, storeVars, work, told, spent>>

GiveUpCommits ==
  /\ phase = "missing"
  /\ row' = [c \in Camera |->
               IF c \in marked THEN [row[c] EXCEPT !.state = "missing"] ELSE row[c]]
  /\ marked' = {}
  /\ phase' = "retire"
  /\ UNCHANGED <<rigVars, sendVars, projected, stored, storeVars, work, told, spent>>

\* expire_archive(): archived, freed, and old enough, whichever they are.
Retirable == {c \in InState("archived") : row[c].freed}

RetireSelects ==
  /\ phase = "retire"
  /\ phase' = "delete"
  /\ \E S \in IF ArchiveExpires THEN SUBSET Retirable ELSE {{}} :
       work' \in Listed(S)
  /\ UNCHANGED <<rigVars, sendVars, rowVars, storeVars, marked, told, spent>>

RetireDeletes ==
  /\ phase = "delete" /\ work # <<>>
  /\ archive' = [archive EXCEPT ![Head(work)] = "none"]
  /\ marked' = marked \cup {Head(work)}
  /\ work' = Tail(work)
  /\ UNCHANGED <<rigVars, sendVars, rowVars, spool, phase, told, spent>>

RetireCommits ==
  /\ phase = "delete" /\ work = <<>>
  /\ row' = [c \in Camera |->
               IF c \in marked THEN [row[c] EXCEPT !.state = "expired"] ELSE row[c]]
  /\ marked' = {}
  /\ phase' = "idle"
  /\ UNCHANGED <<rigVars, sendVars, projected, stored, storeVars, work, told, spent>>

\* The worker is killed: its session is rolled back, the store is not.
WorkerDies ==
  /\ phase # "idle"
  /\ Can("worker") /\ Spend("worker")
  /\ phase' = "idle" /\ work' = <<>> /\ marked' = {}
  /\ UNCHANGED <<rigVars, sendVars, rowVars, storeVars, told>>

-----------------------------------------------------------------------------
Init ==
  /\ taken = {} /\ queue = <<>> /\ chain = <<>> /\ disk = {}
  /\ sending = [s \in Sender |-> Idle] /\ late = {}
  /\ projected = FALSE /\ row = [c \in Camera |-> NoRow] /\ stored = <<>>
  /\ spool = [c \in Camera |-> "none"] /\ archive = [c \in Camera |-> "none"]
  /\ phase = "idle" /\ work = <<>> /\ marked = {}
  /\ told = {} /\ spent = [k \in Bound |-> 0]

Uploads(s) ==
  \/ Presign(s)
  \/ PutLands(s)
  \/ ConfirmReads(s)
  \/ ConfirmCommits(s)
  \/ Released(s)

Worker ==
  \/ DrainSelects
  \/ DrainCopies
  \/ DrainRaises
  \/ DrainCommits
  \/ ReleaseSelects
  \/ ReleaseFrees
  \/ ReleaseCommits
  \/ GiveUpSelects
  \/ GiveUpCommits
  \/ RetireSelects
  \/ RetireDeletes
  \/ RetireCommits

Next ==
  \/ \E c \in Camera : Save(c)
  \/ JournalWrite
  \/ PageRestarts
  \/ Project
  \/ \E s \in Sender : Uploads(s) \/ PutStops(s) \/ ExchangeLost(s)
  \/ ServeLate
  \/ Worker
  \/ DrainCopyCut
  \/ WorkerDies

Spec == Init /\ [][Next]_vars

\* Both timers re-arm after every attempt and the worker loops, backing off
\* but never giving up; the bounds end the losses, the cuts and the deaths.
FairSpec ==
  /\ Spec
  /\ WF_vars(JournalWrite)
  /\ WF_vars(Project)
  /\ \A s \in Sender : WF_vars(Uploads(s))
  /\ WF_vars(Worker)

-----------------------------------------------------------------------------
(* Properties.                                                             *)

Step == {"idle", "asked", "put", "checked", "released"}

\* Type invariant.
TypeOK ==
  /\ taken \subseteq Camera /\ queue \in Seq(Camera) /\ disk \subseteq taken
  /\ chain \in Seq({"put", "forget"} \X Camera)
  /\ sending \in [Sender -> [step : Step, cams : SUBSET Camera]]
  /\ \A r \in late : r.step \in {"asked", "checked"} /\ r.cams \subseteq Camera
  /\ projected \in BOOLEAN
  /\ row \in [Camera -> [state : {"none", "pending", "on_prem", "archived",
                                  "expired", "missing"},
                         freed : BOOLEAN]]
  /\ stored \in Seq(Camera)
  /\ \A i, j \in DOMAIN stored : stored[i] = stored[j] => i = j
  /\ spool \in [Camera -> Bytes] /\ archive \in [Camera -> Bytes]
  /\ phase \in {"idle", "copy", "release", "free", "giveup", "missing", "retire",
                "delete"}
  /\ spent \in [Bound -> Nat]
  /\ work \in Seq(Camera) /\ marked \subseteq Camera /\ told \subseteq taken

\* A take the rig was told it may delete, and has let go of, is whole in the
\* spool or in the archive until retention may have it, which is not before
\* its release from the spool: "past it the only other copy is gone" (rig.js
\* 1782-1784, video.py 12-16).
ReleasedIsHeld ==
  \A c \in told \ (disk \cup Range(queue)) :
    "whole" \in {spool[c], archive[c]} \/ (ArchiveExpires /\ row[c].freed)

\* Camera c is whole somewhere the service keeps things.
Kept(c) == "whole" \in {spool[c], archive[c]}

\* ReleasedIsHeld with what it rests on, when every PUT lands whole and
\* retention is off: a complete that has passed its check, whether waited for
\* or given up on, is about something the service keeps from then on.
HeldInv ==
  /\ spool \in [Camera -> {"none", "whole"}] /\ archive \in [Camera -> Bytes]
  /\ sending \in [Sender -> [step : Step, cams : SUBSET Camera]]
  /\ queue \in Seq(Camera) /\ disk \subseteq Camera
  /\ chain \in Seq({"put", "forget"} \X Camera)
  /\ sending["page"].step # "idle" => queue # <<>>
  /\ \A r \in late : r.cams \subseteq Camera
  /\ told \subseteq Camera /\ spent \in [Bound -> Nat]
  /\ \A s \in Sender : sending[s].step \in {"checked", "released"} =>
       \A c \in sending[s].cams : Kept(c)
  /\ \A r \in late : r.step = "checked" => \A c \in r.cams : Kept(c)
  /\ \A c \in told : Kept(c)
  /\ phase = "delete" => work = <<>>

\* Every take saved reaches the cold tier and leaves the spool, whatever stops
\* half way, and is only ever missing from there by retention.
TakenArchives ==
  \A c \in Camera :
    c \in taken ~> /\ archive[c] = "whole" \/ (ArchiveExpires /\ row[c].freed)
                   /\ spool[c] = "none"

\* Stated, and false as soon as a take is sent twice, whether by two senders or
\* after a lost answer: a confirm after the release makes the row on_prem again
\* with its freed_at of the round before, and once the drain has archived it
\* again retention takes it with a copy still on the spool, which is not "old
\* enough to be anybody's idea of expired" (video.py 347-350).
RetiresOnlyReleased ==
  [][\A c \in Camera : archive[c] = "whole" /\ archive'[c] = "none" =>
        spool[c] = "none" /\ row[c].state = "archived"]_vars

\* "One camera failing costs that camera and not the take" (test_video.py
\* 431): whatever becomes of another camera, what landed reaches the archive.
LandedArchives == \A c \in Camera : c \in told ~> archive[c] = "whole"
=============================================================================
