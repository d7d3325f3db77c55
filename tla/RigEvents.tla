----------------------------- MODULE RigEvents -----------------------------
(***************************************************************************)
(* How an event filed at a rig reaches the append-only ledger.             *)
(*                                                                         *)
(*  - the page (rig.js): files events into its outbox, chains journal      *)
(*    writes behind one another, and posts the outbox in batches;          *)
(*  - the journal (journal.rs): an append-only file, replayed and          *)
(*    compacted by `load', beside the mark the uploader keeps;             *)
(*  - the uploader (upload.rs, bin/rig-uploader.rs): a second process that *)
(*    loads the same journal, posts the oldest batch and moves the mark;   *)
(*  - ingest (routes.py, rig_events/repository.py): all-or-nothing,        *)
(*    idempotent on (rig, event id).                                       *)
(*                                                                         *)
(* One rig, whose events are numbered in the order they are filed: the     *)
(* number stands for the eventId the page mints.                           *)
(***************************************************************************)
EXTENDS Integers, Sequences, FiniteSets, Functions

CONSTANTS
  MaxEvents,      \* bound: events filed
  MaxPageDeaths,  \* bound: reloads and webview crashes, and power cuts
  MaxUploaderDeaths, \* bound: restarts of the uploader process
  MaxLost,        \* bound: exchanges the network gives up on
  Batch,          \* UPLOAD_BATCH / BATCH: the most one POST carries
  Bad,            \* events whose batch the service answers with 422
  Wide,           \* events whose text holds a character of several bytes
  WithUploader,   \* the rig-uploader service runs beside the page
  OfflineBoot,    \* a boot may find the service out of reach
  JournalFails,   \* a journal read or write may fail
  LateArrival     \* a request its sender gave up on may still be served

Event == 1..MaxEvents

ASSUME BoundsAssumption ==
  /\ MaxEvents \in Nat
  /\ MaxPageDeaths \in Nat
  /\ MaxUploaderDeaths \in Nat
  /\ MaxLost \in Nat
ASSUME BatchAssumption == Batch \in Nat \ {0}
ASSUME BadAssumption == Bad \subseteq Event
ASSUME WideAssumption == Wide \subseteq Event
ASSUME FlagsAssumption ==
  {WithUploader, OfflineBoot, JournalFails, LateArrival} \subseteq BOOLEAN

VARIABLES
  \* the page, all of it lost when the page dies
  page,       \* "off", "loaded" (journal read, cursor not yet), "up"
  seq,        \* the next sequence number to mint
  outbox,     \* filed, not yet acknowledged, oldest first
  chain,      \* journal writes queued behind one another
  broken,     \* journalBroken: the screen stops promising durability
  \* the disk
  file,       \* the lines of journal.ndjson
  mark,       \* uploaded.json, -1 while there is none
  \* the uploader process
  up,         \* "idle", "read" (replayed, not compacted), "post"
  snapshot,   \* what its replay found: the live events and the line count
  \* the network and the service
  request,    \* request[s]: what sender s has in flight
  late,       \* batches given up on that may still be served
  ledger,     \* rig_events in the order the rows were inserted
  \* bookkeeping of the model
  seqOf,      \* seqOf[e]: the seq event e was filed with, 0 before
  filed,      \* how many events have been filed
  promised,   \* events the page was told are on the platter
  refused,    \* events set aside by a 422 the sender has seen
  spoiled,    \* events of a whole record and of one glued on to it
  deaths,     \* deaths so far: [page |-> _, uploader |-> _]
  lost        \* exchanges lost so far

pageVars == <<page, seq, outbox, chain, broken>>
diskVars == <<file, mark>>
uploaderVars == <<up, snapshot>>
netVars == <<request, late, ledger>>
boundVars == <<deaths, lost>>
vars == <<pageVars, diskVars, uploaderVars, netVars, seqOf, filed, promised,
          refused, spoiled, boundVars>>

Sender == {"page", "uploader"}
NoRequest == [status |-> "none", batch |-> <<>>]

-----------------------------------------------------------------------------
(* The journal file.                                                       *)

Put(e) == [op |-> "put", ids |-> {e}, open |-> FALSE]
Del(S) == [op |-> "del", ids |-> S, open |-> FALSE]
\* A line that will not parse, and one that is not even text.
Junk == [op |-> "junk", ids |-> {}, open |-> FALSE]
Bytes == [op |-> "bytes", ids |-> {}, open |-> FALSE]
Line == [op : {"put", "del", "junk", "bytes"}, ids : SUBSET Event, open : BOOLEAN]

AllButLast(f) == SubSeq(f, 1, Len(f) - 1)

\* The last line has no newline.
OpenTail(f) == f # <<>> /\ f[Len(f)].open
\* It is a whole record all the same.
WholeTail(f) == OpenTail(f) /\ f[Len(f)].op = "put"
Opened(line) == [op |-> line.op, ids |-> line.ids, open |-> TRUE]

\* Appending behind an open line completes it: the two become one line that
\* will not parse, whatever each of them said.
Glued(f, line) ==
  [f EXCEPT ![Len(f)] =
     IF f[Len(f)].op = "bytes"
       THEN [op |-> "bytes", ids |-> {}, open |-> line.open] ELSE line]

\* Journal::append_line.
Appended(f, line) == IF OpenTail(f) THEN Glued(f, Junk) ELSE Append(f, line)

\* Where a write that stops half way may have stopped: somewhere in the
\* record, just before its newline, or inside a character of its text.
Tears(line) ==
  {Opened(Junk)}
  \cup (IF line.op = "put" /\ line.ids \cap Wide # {} THEN {Opened(Bytes)} ELSE {})
Fragments(f, line) ==
  IF OpenTail(f) THEN {Glued(f, t) : t \in Tears(line)}
  ELSE {Append(f, t) : t \in Tears(line) \cup {Opened(line)}}

\* `lines()' fails on a line that is not text, and replay with it.
Readable(f) == \A i \in DOMAIN f : f[i].op # "bytes"

\* Journal::replay: what has been put and not forgotten since.
Live(f) ==
  {e \in Event : \E i \in DOMAIN f :
      /\ f[i].op = "put" /\ e \in f[i].ids
      /\ \A j \in DOMAIN f : j > i /\ f[j].op = "del" => e \notin f[j].ids}

\* What is above the mark: neither `load' nor `compact' keeps the rest.
Unsent(S, m) == {e \in S : seqOf[e] > m}

\* `sort_by_key' on seq.  Events that share a seq come in either order.
SeqOrders(S) ==
  {s \in [1..Cardinality(S) -> S] :
     /\ Range(s) = S
     /\ \A i, j \in DOMAIN s : i < j => seqOf[s[i]] <= seqOf[s[j]]}

PutLines(s) == [i \in DOMAIN s |-> Put(s[i])]

\* Journal::compact: rewrite the file with what is still owed, unless the
\* number of lines already says there is nothing to drop.
Compacted(f, lines, order) ==
  IF Len(order) = lines THEN f ELSE PutLines(order)

Owed(f, m) == Unsent(Live(f), m)

\* The highest seq among S, as the one member of a set; -1 for no events.
Highest(S) ==
  IF S = {} THEN {-1}
  ELSE {seqOf[e] : e \in {d \in S : \A c \in S : seqOf[c] <= seqOf[d]}}

FirstOf(s) == SubSeq(s, 1, IF Len(s) < Batch THEN Len(s) ELSE Batch)
AfterFirst(s, n) == SubSeq(s, n + 1, Len(s))

-----------------------------------------------------------------------------
(* The service.                                                            *)

\* ON CONFLICT DO NOTHING on (rig, event id).
Fresh(batch) == Range(batch) \ Range(ledger)

\* The rows a batch inserts: what is fresh in it, in batch order.
Inserts(batch) ==
  {rows \in [1..Cardinality(Fresh(batch)) -> Fresh(batch)] :
     /\ Range(rows) = Fresh(batch)
     /\ \A i, j \in DOMAIN rows : i < j =>
          /\ rows[i] # rows[j]
          /\ \E k, l \in DOMAIN batch :
               k < l /\ batch[k] = rows[i] /\ batch[l] = rows[j]}

Ingest(batch) == \E rows \in Inserts(batch) : ledger' = ledger \o rows

Cursor == Highest(Range(ledger))

Refuses(batch) == Range(batch) \cap Bad # {}

\* POST /events: the schema refuses a batch whole, or ingest commits it whole.
Serve(s) ==
  /\ request[s].status = "sent"
  /\ IF Refuses(request[s].batch)
       THEN /\ request' = [request EXCEPT ![s].status = "refused"]
            /\ UNCHANGED ledger
       ELSE /\ request' = [request EXCEPT ![s].status = "ok"]
            /\ Ingest(request[s].batch)
  /\ UNCHANGED <<pageVars, diskVars, uploaderVars, late, seqOf, filed,
                 promised, refused, spoiled, boundVars>>

\* A request nobody is waiting for any more is served all the same.
ServeLate ==
  /\ \E batch \in late :
       /\ late' = late \ {batch}
       /\ IF Refuses(batch) THEN UNCHANGED ledger ELSE Ingest(batch)
  /\ UNCHANGED <<pageVars, diskVars, uploaderVars, request, seqOf, filed,
                 promised, refused, spoiled, boundVars>>

\* What becomes of the requests of senders who stop waiting for them.
GivenUp(S) ==
  late \cup {request[s].batch :
               s \in {t \in S : LateArrival /\ request[t].status = "sent"}}

-----------------------------------------------------------------------------
(* The page.                                                               *)

\* envelope() and emit(): mint, push, and queue the journal write.
File ==
  /\ page = "up"
  /\ filed < MaxEvents
  /\ filed' = filed + 1
  /\ seqOf' = [seqOf EXCEPT ![filed + 1] = seq]
  /\ seq' = seq + 1
  /\ outbox' = Append(outbox, filed + 1)
  /\ chain' = Append(chain, Put(filed + 1))
  /\ UNCHANGED <<page, broken, diskVars, uploaderVars, netVars, promised,
                 refused, spoiled, boundVars>>

\* The events that the next queued write takes off the disk when it lands
\* behind a whole record without its newline: that record's and its own.
Spoils ==
  IF ~WholeTail(file) THEN {}
  ELSE file[Len(file)].ids
       \cup (IF Head(chain).op = "put" THEN Head(chain).ids ELSE {})
Wrote == spoiled' = IF file' = file THEN spoiled ELSE spoiled \cup Spoils

\* onJournal(): the next queued write reaches the platter and returns.
JournalWrite ==
  /\ chain # <<>>
  /\ file' = Appended(file, Head(chain))
  /\ chain' = Tail(chain)
  /\ promised' = IF Head(chain).op = "put" /\ ~broken
                   THEN promised \cup Head(chain).ids ELSE promised
  /\ spoiled' = spoiled \cup Spoils
  /\ UNCHANGED <<page, seq, outbox, broken, mark, uploaderVars, netVars, seqOf,
                 filed, refused, boundVars>>

\* The write or its sync fails, with all of the line written, part or none.
JournalWriteFails ==
  /\ JournalFails
  /\ chain # <<>>
  /\ file' \in {file, Appended(file, Head(chain))} \cup Fragments(file, Head(chain))
  /\ Wrote
  /\ chain' = Tail(chain)
  /\ broken' = TRUE
  /\ UNCHANGED <<page, seq, outbox, mark, uploaderVars, netVars, seqOf, filed,
                 promised, refused, boundVars>>

\* Mutation: forgetting a batch when it is sent, not when it is answered.
FlushStart_Forgets ==
  /\ page = "up"
  /\ request["page"].status = "none"
  /\ outbox # <<>>
  /\ request' = [request EXCEPT
                   !["page"] = [status |-> "sent", batch |-> FirstOf(outbox)]]
  /\ chain' = Append(chain, Del(Range(FirstOf(outbox))))
  /\ UNCHANGED <<page, seq, outbox, broken, diskVars, uploaderVars, late, ledger,
                 seqOf, filed, promised, refused, spoiled, boundVars>>

\* flush(): one batch at a time, always the oldest.
FlushStart ==
  /\ page = "up"
  /\ request["page"].status = "none"
  /\ outbox # <<>>
  /\ request' = [request EXCEPT
                   !["page"] = [status |-> "sent", batch |-> FirstOf(outbox)]]
  /\ UNCHANGED <<pageVars, diskVars, uploaderVars, late, ledger, seqOf, filed,
                 promised, refused, spoiled, boundVars>>

\* Mutation: emptying the outbox on an answer, whatever was filed meanwhile.
FlushAnswered_Empties ==
  LET batch == request["page"].batch IN
  /\ request["page"].status \in {"ok", "refused"}
  /\ outbox' = <<>>
  /\ chain' = Append(chain, Del(Range(batch)))
  /\ refused' = IF request["page"].status = "refused"
                  THEN refused \cup Range(batch) ELSE refused
  /\ request' = [request EXCEPT !["page"] = NoRequest]
  /\ UNCHANGED <<page, seq, broken, diskVars, uploaderVars, late, ledger, seqOf,
                 filed, promised, spoiled, boundVars>>

\* The answer: whether stored or refused, exactly the batch leaves the outbox
\* - events filed during the await stay - and its forgetting is queued.
FlushAnswered ==
  LET batch == request["page"].batch IN
  /\ request["page"].status \in {"ok", "refused"}
  /\ outbox' = AfterFirst(outbox, Len(batch))
  /\ chain' = Append(chain, Del(Range(batch)))
  /\ refused' = IF request["page"].status = "refused"
                  THEN refused \cup Range(batch) ELSE refused
  /\ request' = [request EXCEPT !["page"] = NoRequest]
  /\ UNCHANGED <<page, seq, broken, diskVars, uploaderVars, late, ledger, seqOf,
                 filed, promised, spoiled, boundVars>>

\* The request or its answer is lost: keep everything and try again.
FlushLost ==
  /\ request["page"].status # "none"
  /\ lost < MaxLost
  /\ lost' = lost + 1
  /\ late' = GivenUp({"page"})
  /\ request' = [request EXCEPT !["page"] = NoRequest]
  /\ UNCHANGED <<pageVars, diskVars, uploaderVars, ledger, seqOf, filed,
                 promised, refused, spoiled, deaths>>

\* The page goes, with everything in memory.
PageGone ==
  /\ page # "off"
  /\ deaths.page < MaxPageDeaths
  /\ page' = "off" /\ seq' = 0 /\ outbox' = <<>> /\ chain' = <<>>
  /\ broken' = FALSE
  /\ deaths' = [deaths EXCEPT !.page = @ + 1]

\* The write in hand when the page goes may have been done or not.
InHand == IF chain = <<>> THEN {file} ELSE {file, Appended(file, Head(chain))}
TornInHand == IF chain = <<>> THEN {} ELSE Fragments(file, Head(chain))

PageDies ==
  /\ PageGone
  /\ file' \in InHand
  /\ Wrote
  /\ late' = GivenUp({"page"})
  /\ request' = [request EXCEPT !["page"] = NoRequest]
  /\ UNCHANGED <<mark, uploaderVars, ledger, seqOf, filed, promised, refused,
                 lost>>

\* The power goes: both processes stop, and the last line may be torn.
PowerCut ==
  /\ PageGone
  /\ file' \in InHand \cup TornInHand
  /\ Wrote
  /\ late' = GivenUp(Sender)
  /\ request' = [s \in Sender |-> NoRequest]
  /\ up' = "idle"
  /\ snapshot' = [live |-> {}, lines |-> 0]
  /\ UNCHANGED <<mark, ledger, seqOf, filed, promised, refused, lost>>

\* Mutation: seq taken from the highest event held, not from past it.
BootLoad_Repeats ==
  LET owed == Owed(file, mark) IN
  /\ page = "off" /\ Readable(file)
  /\ page' = "loaded"
  /\ \E order \in SeqOrders(owed) :
       /\ outbox' = order
       /\ file' = Compacted(file, Len(file), order)
  /\ seq' \in Highest(owed)
  /\ UNCHANGED <<chain, broken, mark, uploaderVars, netVars, seqOf, filed,
                 promised, refused, spoiled, boundVars>>

\* Mutation: no compaction at boot, so a torn tail stays where it is.
BootLoad_LeavesTail ==
  LET owed == Owed(file, mark) IN
  /\ page = "off" /\ Readable(file)
  /\ page' = "loaded"
  /\ outbox' \in SeqOrders(owed)
  /\ \E top \in Highest(owed) : seq' = top + 1
  /\ UNCHANGED <<chain, broken, diskVars, uploaderVars, netVars, seqOf, filed,
                 promised, refused, spoiled, boundVars>>

\* recoverJournal(): load() hands back what is owed, compacting on the way,
\* and seq is raised past the highest of it.
BootLoad ==
  LET owed == Owed(file, mark) IN
  /\ page = "off" /\ Readable(file)
  /\ page' = "loaded"
  /\ \E order \in SeqOrders(owed) :
       /\ outbox' = order
       /\ file' = Compacted(file, Len(file), order)
  /\ \E top \in Highest(owed) : seq' = top + 1
  /\ UNCHANGED <<chain, broken, mark, uploaderVars, netVars, seqOf, filed,
                 promised, refused, spoiled, boundVars>>

\* load() throws: the rig goes on without its backlog and says so.
BootLoadFails ==
  /\ JournalFails \/ ~Readable(file)
  /\ page = "off"
  /\ page' = "loaded"
  /\ broken' = TRUE
  /\ UNCHANGED <<seq, outbox, chain, diskVars, uploaderVars, netVars, seqOf,
                 filed, promised, refused, spoiled, boundVars>>

\* alignSeq(): carry on from the service's cursor, when it can be asked.
BootAlign ==
  /\ page = "loaded"
  /\ page' = "up"
  /\ \/ \E held \in Cursor : seq' = IF held + 1 > seq THEN held + 1 ELSE seq
     \/ OfflineBoot /\ seq' = seq
  /\ UNCHANGED <<outbox, chain, broken, diskVars, uploaderVars, netVars, seqOf,
                 filed, promised, refused, spoiled, boundVars>>

-----------------------------------------------------------------------------
(* The uploader: send_events(), a load and then one POST.                  *)

\* Journal::load, first half: read the file through.
UploaderReads ==
  /\ WithUploader
  /\ up = "idle" /\ Readable(file)
  /\ up' = "read"
  /\ snapshot' = [live |-> Live(file), lines |-> Len(file)]
  /\ UNCHANGED <<pageVars, diskVars, netVars, seqOf, filed, promised, refused,
                 spoiled, boundVars>>

\* Journal::load, second half: compact from what was read, and post the
\* oldest batch of it.
UploaderCompacts ==
  /\ up = "read"
  /\ \E order \in SeqOrders(Unsent(snapshot.live, mark)) :
       /\ file' = Compacted(file, snapshot.lines, order)
       /\ IF order = <<>>
            THEN up' = "idle" /\ UNCHANGED request
            ELSE /\ up' = "post"
                 /\ request' = [request EXCEPT
                      !["uploader"] = [status |-> "sent", batch |-> FirstOf(order)]]
  /\ snapshot' = [live |-> {}, lines |-> 0]
  /\ UNCHANGED <<pageVars, mark, late, ledger, seqOf, filed, promised, refused,
                 spoiled, boundVars>>

\* Mutation: the mark moved to the highest seq held, not the highest sent.
UploaderAnswered_MarksAll ==
  LET batch == request["uploader"].batch IN
  /\ request["uploader"].status \in {"ok", "refused"}
  /\ \E top \in Highest(Live(file)) : mark' = IF top > mark THEN top ELSE mark
  /\ refused' = IF request["uploader"].status = "refused"
                  THEN refused \cup Range(batch) ELSE refused
  /\ request' = [request EXCEPT !["uploader"] = NoRequest]
  /\ up' = "idle"
  /\ UNCHANGED <<pageVars, file, snapshot, late, ledger, seqOf, filed, promised,
                 spoiled, boundVars>>

\* Mutation: a 422 treated as an error to retry.
UploaderAnswered_Retries ==
  LET batch == request["uploader"].batch IN
  /\ request["uploader"].status \in {"ok", "refused"}
  /\ IF request["uploader"].status = "ok"
       THEN \E top \in Highest(Range(batch)) :
              mark' = IF top > mark THEN top ELSE mark
       ELSE mark' = mark
  /\ request' = [request EXCEPT !["uploader"] = NoRequest]
  /\ up' = "idle"
  /\ UNCHANGED <<pageVars, file, snapshot, late, ledger, seqOf, filed, promised,
                 refused, spoiled, boundVars>>

\* 2xx and 422 alike move the mark, and only ever forward.
UploaderAnswered ==
  LET batch == request["uploader"].batch IN
  /\ request["uploader"].status \in {"ok", "refused"}
  /\ \E top \in Highest(Range(batch)) : mark' = IF top > mark THEN top ELSE mark
  /\ refused' = IF request["uploader"].status = "refused"
                  THEN refused \cup Range(batch) ELSE refused
  /\ request' = [request EXCEPT !["uploader"] = NoRequest]
  /\ up' = "idle"
  /\ UNCHANGED <<pageVars, file, snapshot, late, ledger, seqOf, filed, promised,
                 spoiled, boundVars>>

UploaderLost ==
  /\ request["uploader"].status # "none"
  /\ lost < MaxLost
  /\ lost' = lost + 1
  /\ late' = GivenUp({"uploader"})
  /\ request' = [request EXCEPT !["uploader"] = NoRequest]
  /\ up' = "idle"
  /\ UNCHANGED <<pageVars, diskVars, snapshot, ledger, seqOf, filed, promised,
                 refused, spoiled, deaths>>

\* The process is killed; systemd starts it again from nothing.
UploaderDies ==
  /\ up # "idle"
  /\ deaths.uploader < MaxUploaderDeaths
  /\ deaths' = [deaths EXCEPT !.uploader = @ + 1]
  /\ late' = GivenUp({"uploader"})
  /\ request' = [request EXCEPT !["uploader"] = NoRequest]
  /\ up' = "idle"
  /\ snapshot' = [live |-> {}, lines |-> 0]
  /\ UNCHANGED <<pageVars, diskVars, ledger, seqOf, filed, promised, refused,
                 spoiled, lost>>

-----------------------------------------------------------------------------
Init ==
  /\ page = "off" /\ seq = 0 /\ outbox = <<>> /\ chain = <<>> /\ broken = FALSE
  /\ file = <<>> /\ mark = -1
  /\ up = "idle" /\ snapshot = [live |-> {}, lines |-> 0]
  /\ request = [s \in Sender |-> NoRequest] /\ late = {} /\ ledger = <<>>
  /\ seqOf = [e \in Event |-> 0] /\ filed = 0 /\ promised = {} /\ refused = {}
  /\ spoiled = {}
  /\ deaths = [page |-> 0, uploader |-> 0] /\ lost = 0

PageNext ==
  \/ File
  \/ JournalWrite
  \/ JournalWriteFails
  \/ FlushStart
  \/ FlushAnswered
  \/ FlushLost
  \/ PageDies
  \/ PowerCut
  \/ BootLoad
  \/ BootLoadFails
  \/ BootAlign

UploaderNext ==
  \/ UploaderReads
  \/ UploaderCompacts
  \/ UploaderAnswered
  \/ UploaderLost
  \/ UploaderDies

Next ==
  \/ PageNext
  \/ UploaderNext
  \/ \E s \in Sender : Serve(s)
  \/ ServeLate

Spec == Init /\ [][Next]_vars

\* Timers re-arm themselves after every attempt (startUploader, the loop of
\* rig-uploader.rs), systemd and the kiosk restart what died, and MaxLost
\* bounds what the network loses: each enabled step is eventually taken.
PageFairness ==
  /\ WF_vars(JournalWrite)
  /\ WF_vars(FlushStart)
  /\ WF_vars(Serve("page"))
  /\ WF_vars(FlushAnswered)
  /\ WF_vars(BootLoad \/ BootLoadFails)
  /\ WF_vars(BootAlign)

UploaderFairness ==
  /\ WF_vars(UploaderReads)
  /\ WF_vars(UploaderCompacts)
  /\ WF_vars(Serve("uploader"))
  /\ WF_vars(UploaderAnswered)

FairSpec == Spec /\ PageFairness /\ UploaderFairness

\* The rig as an operator leaves it: what runs goes on, and nobody need ever
\* open the page again.
UnattendedSpec ==
  /\ Spec /\ UploaderFairness
  /\ WF_vars(BootAlign) /\ WF_vars(JournalWrite) /\ WF_vars(FlushStart)
  /\ WF_vars(Serve("page")) /\ WF_vars(FlushAnswered)

-----------------------------------------------------------------------------
(* Properties.                                                             *)

RequestType ==
  [status : {"none", "sent", "ok", "refused"}, batch : Seq(Event)]

\* Type invariant of the whole path.
TypeOK ==
  /\ page \in {"off", "loaded", "up"} /\ seq \in Nat /\ broken \in BOOLEAN
  /\ outbox \in Seq(Event) /\ chain \in Seq(Line) /\ file \in Seq(Line)
  /\ mark \in Nat \cup {-1}
  /\ up \in {"idle", "read", "post"}
  /\ snapshot \in [live : SUBSET Event, lines : Nat]
  /\ request \in [Sender -> RequestType]
  /\ late \subseteq Seq(Event)
  /\ ledger \in Seq(Event)
  /\ seqOf \in [Event -> Nat] /\ filed \in 0..MaxEvents
  /\ promised \subseteq Event /\ refused \subseteq Event /\ spoiled \subseteq Event
  /\ deaths \in [page : Nat, uploader : Nat] /\ lost \in Nat

Settled == Range(ledger) \cup refused

\* An event the page was told is on the platter is in the ledger, has been
\* refused, or is on disk, where the next boot that can read the file finds
\* it - whatever dies, is lost or is torn in between (journal.rs 100-136,
\* 245-278).  Except that a tear just before a newline costs the next event
\* written: at most one for each time the page died.
PromiseKept ==
  /\ promised \subseteq Settled \cup Owed(file, mark) \cup spoiled
  /\ Cardinality(promised \cap spoiled) <= deaths.page

\* Lines that put one event each, as emit() and compact() write them.
Single(f) ==
  \A i \in DOMAIN f : f[i].op = "put" => \E e \in Event : f[i].ids = {e}

\* What the page may have queued for the journal: events to keep, and the
\* forgetting of events that are settled.
JournalWrites == {Put(e) : e \in Event} \cup {Del(S) : S \in SUBSET Settled}

\* What is still to be written, or is on disk without its newline, is not
\* promised; and every event is written once.
OncePromised ==
  /\ promised \cup spoiled \subseteq 1..filed
  /\ \A i \in DOMAIN chain : chain[i].op = "put" =>
       /\ chain[i].ids \subseteq 1..filed \ (promised \cup spoiled)
       /\ \A j \in DOMAIN chain : j < i /\ chain[j].op = "put" =>
            chain[i].ids \cap chain[j].ids = {}
       /\ WholeTail(file) => chain[i].ids \cap file[Len(file)].ids = {}
  /\ WholeTail(file) => file[Len(file)].ids \subseteq 1..filed \ promised

\* A line can be open only since the page last died, and once that has cost
\* a promised event no line is, while the page promises durability.
OpenSinceDeath ==
  /\ page # "off" /\ ~broken /\ OpenTail(file) => WholeTail(file)
  /\ Cardinality(promised \cap spoiled) <= deaths.page
  /\ OpenTail(file) /\ (page = "off" \/ ~broken) =>
       Cardinality(promised \cap spoiled) < deaths.page

\* PromiseKept with what it rests on, for a page alone at its journal: nothing
\* is forgotten before it is settled, and a dead page has nothing left to
\* write.
PromiseInv ==
  /\ up = "idle" /\ mark = -1 /\ request["uploader"] = NoRequest
  /\ page = "off" => chain = <<>> /\ request["page"] = NoRequest
  /\ request["page"].status = "ok" =>
       Range(request["page"].batch) \subseteq Range(ledger)
  /\ Range(chain) \subseteq JournalWrites
  /\ Single(file)
  /\ OpenTail(file) /\ file[Len(file)].op = "del" => file[Len(file)].ids \subseteq Settled
  /\ promised \subseteq Settled \cup Live(file) \cup spoiled
  /\ OncePromised
  /\ OpenSinceDeath

\* The weaker form, for the rig as deployed: such an event is at least still
\* in the outbox of the page that filed it (upload.rs 10-13, "not one event is
\* lost").
NoEventVanishes ==
  promised \subseteq Settled \cup Owed(file, mark) \cup Range(outbox) \cup spoiled

\* "Skipping it loses at most the event being written ... never acknowledged to
\* anyone" (journal.rs 42-44): what was promised is in the outbox at least, with
\* no exception for a torn line.  It fails of a line torn before its newline.
TornLosesItselfAlone ==
  promised \subseteq Settled \cup Owed(file, mark) \cup Range(outbox)

\* The mark moves only over events the service has answered for: everything
\* the disk holds that a move of the mark newly retires is stored or refused
\* (upload.rs 242-247).
MarkFollowsAnswers ==
  [][spoiled = {} => Owed(file, mark) \ Owed(file, mark') \subseteq Settled']_vars

\* What the page was told is on the platter arrives, once the page can stay
\* up, unless the page has said that its journal fails - or the event was
\* written behind a line without its newline.
PromisedArrives ==
  \A e \in Event : e \in promised ~> e \in Settled \cup spoiled \/ broken

\* What a dead page left on disk drains without it, and nothing of it is left
\* behind by the mark (upload.rs 3-16), if the file can be read at all.
BacklogDrains ==
  \A e \in Event :
    page = "off" /\ up = "idle" /\ Readable(file) /\ e \in Owed(file, mark)
      ~> e \in Settled \/ page # "off"

\* Events that are on disk by their last line alone, which has no newline.
Frayed ==
  IF OpenTail(file) THEN Live(file) \ Live(AllButLast(file)) ELSE {}

\* The refinement: where each event stands, as LedgerDelivery sees it.
Standing ==
  [e \in Event |-> CASE e \in Range(ledger) -> "stored"
                     [] e \in refused \ Range(ledger) -> "setAside"
                     [] e \in (Owed(file, mark) \cap Frayed) \ Settled -> "frayed"
                     [] e \in (Owed(file, mark) \ Frayed) \ Settled -> "held"
                     [] OTHER -> "none"]

Delivery == INSTANCE LedgerDelivery WITH status <- Standing

\* The path implements its abstract promise: nothing held is ever let go of
\* except into the ledger or by a refusal, and only an event whose line has
\* no newline may go as it came.
ImplementsDelivery == Delivery!Spec
=============================================================================
