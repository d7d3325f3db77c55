------------------------ MODULE VideoPipelineProofs ------------------------
(***************************************************************************)
(* Proofs about the video of a take, for any set of cameras:               *)
(*                                                                         *)
(*  - what the rig has let go of is still whole in the spool or in the     *)
(*    archive, whatever is lost or restarted and with one sender or two,   *)
(*    so long as every PUT lands whole and retention is off;               *)
(*  - type correctness, with one row per camera however often it is        *)
(*    confirmed;                                                           *)
(*  - retention takes only what a release has been recorded of.            *)
(***************************************************************************)
EXTENDS VideoPipeline, FiniteSetTheorems, SequenceTheorems, TLAPS

-----------------------------------------------------------------------------
(* What the rig has let go of is held.                                     *)

\* A step that spoils nothing on the spool and takes no last whole copy.
KeepsStores ==
  /\ spool' \in [Camera -> {"none", "whole"}]
  /\ archive' \in [Camera -> Bytes]
  /\ \A c \in Camera : Kept(c) => "whole" \in {spool'[c], archive'[c]}

LEMMA StoresStep ==
  ASSUME MaxCut = 0, HeldInv, Next
  PROVE  KeepsStores
<1> USE DEF storeVars, rowVars, rigVars, sendVars, workerVars
<1>1. CASE UNCHANGED storeVars
  BY <1>1 DEF HeldInv, Kept, KeepsStores
<1>2. ASSUME NEW s \in Sender, PutLands(s) PROVE KeepsStores
  BY <1>2 DEF PutLands, HeldInv, Kept, KeepsStores
<1>3. ASSUME NEW s \in Sender, PutStops(s) PROVE FALSE
  BY <1>3 DEF PutStops, Can, Allowed, HeldInv, Bound
<1>4. ASSUME ServeLate PROVE KeepsStores
  BY <1>4 DEF ServeLate, HeldInv, Kept, KeepsStores
<1>5. ASSUME DrainCopies PROVE KeepsStores
  <2>1. archive' \in [Camera -> Bytes] /\ UNCHANGED spool
    BY <1>5 DEF DrainCopies, HeldInv, Bytes
  <2>2. QED
    BY <1>5, <2>1 DEF DrainCopies, HeldInv, Kept, KeepsStores
<1>6. ASSUME DrainCopyCut PROVE KeepsStores
  BY <1>6 DEF DrainCopyCut, HeldInv, Kept, Bytes, KeepsStores
<1>7. ASSUME ReleaseFrees PROVE KeepsStores
  BY <1>7 DEF ReleaseFrees, Matches, HeldInv, Kept, KeepsStores
<1>8. ASSUME RetireDeletes PROVE FALSE
  BY <1>8 DEF RetireDeletes, HeldInv
<1>9. ASSUME NEW s \in Sender, Uploads(s), ~PutLands(s) PROVE UNCHANGED storeVars
  BY <1>9 DEF Uploads, Presign, ConfirmReads, ConfirmCommits, Released
<1>10. ASSUME Worker, ~DrainCopies, ~ReleaseFrees, ~RetireDeletes
       PROVE  UNCHANGED storeVars
  BY <1>10 DEF Worker, DrainSelects, DrainRaises, DrainCommits, ReleaseSelects,
     ReleaseCommits, GiveUpSelects, GiveUpCommits, RetireSelects, RetireCommits
<1>11. QED
  BY <1>1, <1>2, <1>3, <1>4, <1>5, <1>6, <1>7, <1>8, <1>9, <1>10
  DEF Next, Save, JournalWrite, PageRestarts, Project, ExchangeLost, WorkerDies

\* The rig's own side keeps its shape.
RigShape(q, d, w) ==
  /\ q \in Seq(Camera) /\ d \subseteq Camera
  /\ w \in Seq({"put", "forget"} \X Camera)

LEMMA RigStep ==
  ASSUME HeldInv, Next
  PROVE  RigShape(queue', disk', chain')
<1> USE DEF storeVars, rowVars, rigVars, sendVars, workerVars
<1>0. RigShape(queue, disk, chain)
  BY DEF HeldInv, RigShape
<1>1. CASE UNCHANGED <<queue, disk, chain>>
  BY <1>0, <1>1
<1>2. ASSUME NEW c \in Camera, Save(c) PROVE RigShape(queue', disk', chain')
  <2>1. <<"put", c>> \in {"put", "forget"} \X Camera
    OBVIOUS
  <2>2. QED
    BY <1>0, <1>2, <2>1, AppendProperties DEF Save, RigShape
<1>3. ASSUME JournalWrite PROVE RigShape(queue', disk', chain')
  <2>1. /\ Head(chain) \in {"put", "forget"} \X Camera
        /\ chain' \in Seq({"put", "forget"} \X Camera)
    BY <1>0, <1>3, HeadTailProperties DEF JournalWrite, RigShape
  <2>2. Head(chain)[2] \in Camera
    BY <2>1
  <2>3. QED
    BY <1>0, <1>3, <2>1, <2>2 DEF JournalWrite, RigShape
<1>4. ASSUME PageRestarts PROVE RigShape(queue', disk', chain')
  <2>1. Cardinality(disk) \in Nat
    BY <1>0, CameraAssumption, FS_Subset, FS_CardinalityType DEF RigShape
  <2>2. queue' \in [1..Cardinality(disk) -> disk] /\ disk \subseteq Camera
    BY <1>0, <1>4 DEF PageRestarts, Listed, RigShape
  <2>3. queue' \in Seq(Camera)
    BY <2>1, <2>2
  <2>4. chain' \in Seq({"put", "forget"} \X Camera)
    BY <1>4, EmptySeq DEF PageRestarts
  <2>5. QED
    BY <1>0, <1>4, <2>3, <2>4 DEF PageRestarts, RigShape
<1>5. ASSUME NEW s \in Sender, Released(s) PROVE RigShape(queue', disk', chain')
  <2>1. CASE s = "page"
    <3>1. queue # <<>>
      BY <1>5, <2>1 DEF Released, HeldInv
    <3>2. Head(queue) \in Camera /\ Tail(queue) \in Seq(Camera)
      BY <1>0, <3>1, HeadTailProperties DEF RigShape
    <3>3. <<"forget", Head(queue)>> \in {"put", "forget"} \X Camera
      BY <3>2
    <3>4. QED
      <4>1. Append(chain, <<"forget", Head(queue)>>) \in Seq({"put", "forget"} \X Camera)
        BY <1>0, <3>3, AppendProperties DEF RigShape
      <4>2. /\ queue' = Tail(queue) /\ disk' = disk
            /\ chain' = Append(chain, <<"forget", Head(queue)>>)
        BY <1>5, <2>1 DEF Released
      <4>3. QED
        BY <1>0, <3>2, <4>1, <4>2 DEF RigShape
  <2>2. CASE s # "page"
    BY <1>0, <1>5, <2>2 DEF Released, RigShape
  <2>3. QED
    BY <2>1, <2>2
<1>6. ASSUME NEW s \in Sender, Uploads(s), ~Released(s)
      PROVE  UNCHANGED <<queue, disk, chain>>
  BY <1>6 DEF Uploads, Presign, PutLands, ConfirmReads, ConfirmCommits
<1>7. ASSUME Worker PROVE UNCHANGED <<queue, disk, chain>>
  BY <1>7 DEF Worker, DrainSelects, DrainCopies, DrainRaises, DrainCommits,
     ReleaseSelects, ReleaseFrees, ReleaseCommits, GiveUpSelects, GiveUpCommits,
     RetireSelects, RetireDeletes, RetireCommits
<1>8. QED
  BY <1>1, <1>2, <1>3, <1>4, <1>5, <1>6, <1>7
  DEF Next, Project, PutStops, ExchangeLost, ServeLate, DrainCopyCut, WorkerDies

\* What the senders have in hand, after a step that keeps the stores.
InHand(f) ==
  /\ f \in [Sender -> [step : Step, cams : SUBSET Camera]]
  /\ \A s \in Sender : f[s].step \in {"checked", "released"} =>
       \A c \in f[s].cams : "whole" \in {spool'[c], archive'[c]}
  /\ f["page"].step # "idle" => queue' # <<>>

LEMMA SendersStep ==
  ASSUME HeldInv, KeepsStores, Next, MaxCut = 0
  PROVE  InHand(sending')
<1> USE DEF storeVars, rowVars, rigVars, sendVars, workerVars
<1>0. /\ sending \in [Sender -> [step : Step, cams : SUBSET Camera]]
      /\ \A s \in Sender : sending[s].step \in {"checked", "released"} =>
           \A c \in sending[s].cams : "whole" \in {spool'[c], archive'[c]}
      /\ "page" \in Sender
  BY DEF HeldInv, KeepsStores, Kept, Sender
<1>1. CASE UNCHANGED <<queue, sending>>
  BY <1>0, <1>1 DEF HeldInv, InHand
<1>2. ASSUME NEW s \in Sender, NEW r \in [step : Step, cams : SUBSET Camera],
             r.step \in {"checked", "released"} =>
               \A c \in r.cams : "whole" \in {spool'[c], archive'[c]},
             sending' = [sending EXCEPT ![s] = r],
             sending'["page"].step # "idle" => queue' # <<>>
      PROVE  InHand(sending')
  BY <1>0, <1>2 DEF InHand
<1>3. /\ Idle \in [step : Step, cams : SUBSET Camera] /\ Idle.step = "idle"
      /\ \A st \in Step, c \in Camera :
           /\ At(st, c) \in [step : Step, cams : SUBSET Camera]
           /\ At(st, c).step = st /\ At(st, c).cams = {c}
  BY DEF Idle, At, Step
<1>4. ASSUME NEW c \in Camera, Save(c) PROVE InHand(sending')
  <2>1. queue' # <<>> /\ sending' = sending
    BY <1>4, AppendProperties DEF Save, HeldInv
  <2>2. QED
    BY <1>0, <2>1 DEF InHand
<1>5. ASSUME PageRestarts PROVE InHand(sending')
  <2>1. sending' = [sending EXCEPT !["page"] = Idle]
    BY <1>5 DEF PageRestarts
  <2>2. sending'["page"] = Idle
    BY <1>0, <2>1
  <2>3. QED
    BY <1>0, <1>2, <1>3, <2>1, <2>2
<1>6. ASSUME NEW s \in Sender, Presign(s) PROVE InHand(sending')
  <2>1. PICK c \in Offered(s) : sending' = [sending EXCEPT ![s] = At("asked", c)]
    BY <1>6 DEF Presign
  <2>2. c \in Camera /\ (s = "page" => queue # <<>>)
    BY <2>1, LenProperties, EmptySeq DEF Offered, HeldInv
  <2>3. sending'["page"].step # "idle" => queue' # <<>>
    BY <1>0, <1>6, <2>1, <2>2 DEF Presign, HeldInv
  <2>4. QED
    BY <1>2, <1>3, <2>1, <2>2, <2>3 DEF Step
<1>7. ASSUME NEW s \in Sender, PutLands(s) PROVE InHand(sending')
  <2>1. PICK c \in sending[s].cams : sending' = [sending EXCEPT ![s] = At("put", c)]
    BY <1>7 DEF PutLands
  <2>2. c \in Camera
    BY <1>0, <2>1
  <2>3. sending'["page"].step # "idle" => queue' # <<>>
    BY <1>0, <1>7, <2>1 DEF PutLands, HeldInv
  <2>4. QED
    BY <1>2, <1>3, <2>1, <2>2, <2>3 DEF Step
<1>8. ASSUME NEW s \in Sender, ConfirmReads(s) PROVE InHand(sending')
  <2>1. PICK c \in sending[s].cams : sending' = [sending EXCEPT
          ![s] = IF spool[c] = "whole" THEN At("checked", c) ELSE Idle]
    BY <1>8 DEF ConfirmReads
  <2>2. c \in Camera /\ spool' = spool
    BY <1>0, <1>8, <2>1 DEF ConfirmReads
  <2>3. sending'["page"].step # "idle" => queue' # <<>>
    BY <1>0, <1>8, <2>1 DEF ConfirmReads, HeldInv
  <2>4. CASE spool[c] = "whole"
    <3>1. "checked" \in Step /\ "whole" \in {spool'[c], archive'[c]}
      BY <2>2, <2>4 DEF Step
    <3>2. \A d \in At("checked", c).cams : "whole" \in {spool'[d], archive'[d]}
      BY <1>3, <2>2, <3>1
    <3>3. sending' = [sending EXCEPT ![s] = At("checked", c)]
      BY <2>1, <2>4
    <3>4. QED
      BY <1>2, <1>3, <2>2, <2>3, <3>1, <3>2, <3>3
  <2>5. CASE spool[c] # "whole"
    BY <1>2, <1>3, <2>1, <2>3, <2>5
  <2>6. QED
    BY <2>4, <2>5
<1>9. ASSUME NEW s \in Sender, ConfirmCommits(s) PROVE InHand(sending')
  <2>1. PICK c \in sending[s].cams :
          sending' = [sending EXCEPT ![s] = At("released", c)]
    BY <1>9 DEF ConfirmCommits
  <2>2. c \in Camera /\ "whole" \in {spool'[c], archive'[c]}
    BY <1>0, <1>9, <2>1 DEF ConfirmCommits
  <2>3. sending'["page"].step # "idle" => queue' # <<>>
    BY <1>0, <1>9, <2>1 DEF ConfirmCommits, HeldInv
  <2>4. "released" \in Step
    BY DEF Step
  <2>5. \A d \in At("released", c).cams : "whole" \in {spool'[d], archive'[d]}
    BY <1>3, <2>2, <2>4
  <2>6. QED
    BY <1>2, <1>3, <2>1, <2>2, <2>3, <2>4, <2>5
<1>10. ASSUME NEW s \in Sender, Released(s) PROVE InHand(sending')
  <2>1. sending' = [sending EXCEPT ![s] = Idle]
    BY <1>10 DEF Released
  <2>2. sending'["page"].step # "idle" => queue' # <<>>
    BY <1>0, <1>3, <1>10, <2>1 DEF Released, HeldInv
  <2>3. QED
    BY <1>2, <1>3, <2>1, <2>2
<1>11. ASSUME NEW s \in Sender, ExchangeLost(s) PROVE InHand(sending')
  <2>1. sending' = [sending EXCEPT ![s] = Idle]
    BY <1>11 DEF ExchangeLost
  <2>2. sending'["page"].step # "idle" => queue' # <<>>
    BY <1>0, <1>3, <1>11, <2>1 DEF ExchangeLost, HeldInv
  <2>3. QED
    BY <1>2, <1>3, <2>1, <2>2
<1>12. ASSUME NEW s \in Sender, PutStops(s) PROVE FALSE
  BY <1>12 DEF PutStops, Can, Allowed, HeldInv, Bound
<1>13. ASSUME Worker PROVE UNCHANGED <<queue, sending>>
  BY <1>13 DEF Worker, DrainSelects, DrainCopies, DrainRaises, DrainCommits,
     ReleaseSelects, ReleaseFrees, ReleaseCommits, GiveUpSelects, GiveUpCommits,
     RetireSelects, RetireDeletes, RetireCommits
<1>14. QED
  BY <1>1, <1>4, <1>5, <1>6, <1>7, <1>8, <1>9, <1>10, <1>11, <1>12, <1>13
  DEF Next, Uploads, JournalWrite, Project, ServeLate, DrainCopyCut, WorkerDies

\* What has been given up on, and what the rig has been told.
LEMMA LateStep ==
  ASSUME HeldInv, KeepsStores, Next
  PROVE  /\ \A r \in late' : r.cams \subseteq Camera
         /\ \A r \in late' : r.step = "checked" =>
              \A c \in r.cams : "whole" \in {spool'[c], archive'[c]}
         /\ told' \subseteq Camera
         /\ \A c \in told' : "whole" \in {spool'[c], archive'[c]}
<1> USE DEF storeVars, rowVars, rigVars, sendVars, workerVars
<1>1. \A s \in Sender :
        /\ sending[s].cams \subseteq Camera
        /\ sending[s].step \in {"checked", "released"} =>
             \A c \in sending[s].cams : "whole" \in {spool'[c], archive'[c]}
  BY DEF HeldInv, KeepsStores, Kept
<1>2. late' \subseteq late \cup {sending[s] : s \in Sender}
  <2>1. "page" \in Sender
    BY DEF Sender
  <2>2. ASSUME PageRestarts PROVE late' \subseteq late \cup {sending[s] : s \in Sender}
    BY <2>1, <2>2 DEF PageRestarts, GivenUp
  <2>3. ASSUME NEW s \in Sender, ExchangeLost(s)
        PROVE  late' \subseteq late \cup {sending[q] : q \in Sender}
    BY <2>3 DEF ExchangeLost, GivenUp
  <2>4. ASSUME ServeLate PROVE late' \subseteq late
    BY <2>4 DEF ServeLate
  <2>5. ASSUME NEW s \in Sender, Uploads(s) \/ PutStops(s) PROVE late' = late
    BY <2>5 DEF Uploads, Presign, PutLands, PutStops, ConfirmReads, ConfirmCommits,
       Released
  <2>6. ASSUME Worker PROVE late' = late
    BY <2>6 DEF Worker, DrainSelects, DrainCopies, DrainRaises, DrainCommits,
       ReleaseSelects, ReleaseFrees, ReleaseCommits, GiveUpSelects, GiveUpCommits,
       RetireSelects, RetireDeletes, RetireCommits
  <2>7. QED
    BY <2>2, <2>3, <2>4, <2>5, <2>6
    DEF Next, Save, JournalWrite, Project, DrainCopyCut, WorkerDies
<1>3. told' \subseteq told \cup
        UNION {sending[s].cams : s \in {q \in Sender : sending[q].step = "released"}}
  <2>1. ASSUME NEW s \in Sender, Released(s)
        PROVE  told' = told \cup sending[s].cams /\ sending[s].step = "released"
    BY <2>1 DEF Released
  <2>2. ASSUME NEW s \in Sender, Uploads(s), ~Released(s) PROVE told' = told
    BY <2>2 DEF Uploads, Presign, PutLands, ConfirmReads, ConfirmCommits
  <2>3. ASSUME Worker PROVE told' = told
    BY <2>3 DEF Worker, DrainSelects, DrainCopies, DrainRaises, DrainCommits,
       ReleaseSelects, ReleaseFrees, ReleaseCommits, GiveUpSelects, GiveUpCommits,
       RetireSelects, RetireDeletes, RetireCommits
  <2>4. QED
    BY <2>1, <2>2, <2>3 DEF Next, Save, JournalWrite, PageRestarts, Project,
       PutStops, ExchangeLost, ServeLate, DrainCopyCut, WorkerDies
<1>4. \A r \in late : /\ r.cams \subseteq Camera
                      /\ r.step = "checked" =>
                           \A c \in r.cams : "whole" \in {spool'[c], archive'[c]}
  BY DEF HeldInv, KeepsStores, Kept
<1>5. told \subseteq Camera /\ \A c \in told : "whole" \in {spool'[c], archive'[c]}
  BY DEF HeldInv, KeepsStores, Kept
<1>6. QED
  BY <1>1, <1>2, <1>3, <1>4, <1>5

\* With no window, the worker has nothing to retire.
LEMMA RetireStep ==
  ASSUME ArchiveExpires = FALSE, HeldInv, Next
  PROVE  (phase' = "delete" => work' = <<>>) /\ spent' \in [Bound -> Nat]
<1> USE DEF storeVars, rowVars, rigVars, sendVars, workerVars
<1>1. ASSUME RetireSelects PROVE work' = <<>>
  <2>1. work' \in Listed({})
    BY <1>1 DEF RetireSelects
  <2>2. Cardinality({}) = 0
    BY FS_EmptySet
  <2>3. work' \in [1..0 -> {}]
    BY <2>1, <2>2 DEF Listed
  <2>4. QED
    BY <2>3
<1>2. ASSUME Worker, ~RetireSelects, ~RetireDeletes PROVE phase' # "delete"
  BY <1>2 DEF Worker, DrainSelects, DrainCopies, DrainRaises, DrainCommits,
     ReleaseSelects, ReleaseFrees, ReleaseCommits, GiveUpSelects, GiveUpCommits,
     RetireCommits
<1>3. ASSUME RetireDeletes PROVE FALSE
  BY <1>3 DEF RetireDeletes, HeldInv
<1>4. spent' \in [Bound -> Nat]
  <2>1. spent \in [Bound -> Nat] /\ \A k \in Bound : Spend(k) => spent' \in [Bound -> Nat]
    BY DEF HeldInv, Spend
  <2>2. {"page", "lost", "cut", "copy", "worker"} \subseteq Bound
    BY DEF Bound
  <2> HIDE DEF Bound
  <2>3. ASSUME Worker PROVE spent' = spent
    BY <2>3 DEF Worker, DrainSelects, DrainCopies, DrainRaises, DrainCommits,
       ReleaseSelects, ReleaseFrees, ReleaseCommits, GiveUpSelects, GiveUpCommits,
       RetireSelects, RetireDeletes, RetireCommits
  <2>4. ASSUME NEW s \in Sender, Uploads(s) PROVE spent' = spent
    BY <2>4 DEF Uploads, Presign, PutLands, ConfirmReads, ConfirmCommits, Released
  <2>5. QED
    BY <2>1, <2>2, <2>3, <2>4 DEF Next, Save, JournalWrite, PageRestarts, Project,
       PutStops, ExchangeLost, ServeLate, DrainCopyCut, WorkerDies
<1>5. ASSUME ~Worker PROVE (phase' = phase /\ work' = work) \/ phase' = "idle"
        \/ (phase = "copy" /\ phase' = phase)
  BY <1>5 DEF Next, Save, JournalWrite, PageRestarts, Project, Uploads, Presign,
     PutLands, PutStops, ConfirmReads, ConfirmCommits, Released, ExchangeLost,
     ServeLate, DrainCopyCut, WorkerDies
<1>6. QED
  BY <1>1, <1>2, <1>3, <1>4, <1>5 DEF HeldInv

\* The invariant, from the parts.
LEMMA StepHeld ==
  ASSUME MaxCut = 0, ArchiveExpires = FALSE, HeldInv, [Next]_vars
  PROVE  HeldInv'
<1>1. CASE UNCHANGED vars
  BY <1>1 DEF HeldInv, Kept, vars, storeVars, rowVars, rigVars, sendVars, workerVars
<1>2. CASE Next
  <2>1. KeepsStores
    BY <1>2, StoresStep
  <2>2. InHand(sending')
    BY <1>2, <2>1, SendersStep
  <2>3. QED
    BY <1>2, <2>1, <2>2, RigStep, LateStep, RetireStep
    DEF HeldInv, Kept, KeepsStores, InHand, RigShape
<1>3. QED
  BY <1>1, <1>2

LEMMA InitHeld == Init => HeldInv
<1> SUFFICES ASSUME Init PROVE HeldInv
  OBVIOUS
<1>1. Idle \in [step : Step, cams : SUBSET Camera] /\ Idle.step = "idle"
  BY DEF Idle, Step
<1>2. "page" \in Sender
  BY DEF Sender
<1>3. queue \in Seq(Camera) /\ chain \in Seq({"put", "forget"} \X Camera)
  BY EmptySeq DEF Init
<1>4. QED
  BY <1>1, <1>2, <1>3 DEF Init, HeldInv, Bytes

\* What the rig was told it may delete, and has let go of, is whole in the
\* spool or in the archive: with two senders, lost and late requests, and
\* copies to the archive cut short, whatever restarts - provided that a PUT
\* that lands lands whole and that retention is off.
THEOREM ReleasedIsHeldHolds ==
  ASSUME MaxCut = 0, ArchiveExpires = FALSE
  PROVE  Spec => []ReleasedIsHeld
<1>1. HeldInv /\ [Next]_vars => HeldInv'
  BY StepHeld
<1>2. HeldInv => ReleasedIsHeld
  BY DEF HeldInv, ReleasedIsHeld, Kept
<1>3. QED
  BY <1>1, <1>2, InitHeld, PTL DEF Spec

-----------------------------------------------------------------------------
(* Types.                                                                  *)

\* TypeOK, and that nothing queued, sent or told about was never taken.
VideoTypes ==
  /\ TypeOK
  /\ Range(queue) \subseteq taken
  /\ \A i \in DOMAIN chain : chain[i][2] \in taken
  /\ \A s \in Sender : sending[s].cams \subseteq taken
  /\ sending["page"].step # "idle" => queue # <<>>

\* The elements of a sequence, end by end.
LEMMA RangeEnds ==
  ASSUME NEW S, NEW q \in Seq(S), NEW x \in S
  PROVE  /\ Range(Append(q, x)) = Range(q) \cup {x}
         /\ Append(q, x) \in Seq(S)
         /\ q # <<>> => /\ Head(q) \in Range(q) /\ Range(Tail(q)) \subseteq Range(q)
                        /\ Tail(q) \in Seq(S)
<1>1. Range(Append(q, x)) = Range(q) \cup {x} /\ Append(q, x) \in Seq(S)
  <2>1. /\ Append(q, x) \in Seq(S) /\ Len(Append(q, x)) = Len(q) + 1
        /\ \A i \in 1..Len(q) : Append(q, x)[i] = q[i]
        /\ Append(q, x)[Len(q) + 1] = x
    BY AppendProperties
  <2>2. DOMAIN Append(q, x) = 1..(Len(q) + 1) /\ DOMAIN q = 1..Len(q) /\ Len(q) \in Nat
    BY <2>1, LenProperties
  <2>3. QED
    BY <2>1, <2>2 DEF Range
<1>2. ASSUME q # <<>>
      PROVE  Head(q) \in Range(q) /\ Range(Tail(q)) \subseteq Range(q) /\ Tail(q) \in Seq(S)
  <2>1. /\ Len(q) \in Nat \ {0} /\ DOMAIN q = 1..Len(q) /\ Head(q) = q[1]
    BY <1>2, EmptySeq, LenProperties, HeadTailProperties
  <2>2. /\ Tail(q) \in Seq(S) /\ Len(Tail(q)) = Len(q) - 1
        /\ \A i \in 1..(Len(q) - 1) : Tail(q)[i] = q[i + 1]
    BY <1>2, HeadTailProperties
  <2>3. DOMAIN Tail(q) = 1..(Len(q) - 1)
    BY <2>2, LenProperties
  <2>4. \A i \in 1..(Len(q) - 1) : i + 1 \in DOMAIN q
    BY <2>1
  <2>5. QED
    BY <2>1, <2>2, <2>3, <2>4 DEF Range
<1>3. QED
  BY <1>1, <1>2

LEMMA CameraSets == \A S : S \subseteq Camera => IsFiniteSet(S) /\ Cardinality(S) \in Nat
BY CameraAssumption, FS_Subset, FS_CardinalityType

LEMMA ListedType ==
  ASSUME NEW S \in SUBSET Camera, NEW q \in Listed(S)
  PROVE  q \in Seq(S) /\ q \in Seq(Camera) /\ Range(q) = S
<1>1. Cardinality(S) \in Nat /\ q \in [1..Cardinality(S) -> S] /\ Range(q) = S
  BY CameraSets DEF Listed
<1>2. q \in Seq(S)
  BY <1>1, SeqDef
<1>3. q \in Seq(Camera)
  BY <1>1, SeqDef
<1>4. QED
  BY <1>1, <1>2, <1>3

\* Part of a sequence without repetitions, in its order, has none either.
LEMMA SublistsType ==
  ASSUME NEW s \in Seq(Camera), \A i, j \in DOMAIN s : s[i] = s[j] => i = j,
         NEW S, NEW q \in Sublists(s, S)
  PROVE  /\ q \in Seq(Camera) /\ Range(q) = Range(s) \cap S
         /\ \A i, j \in DOMAIN q : q[i] = q[j] => i = j
<1>1. Range(s) \cap S \in SUBSET Camera
  BY DEF Range
<1>2. q \in Seq(Camera) /\ Range(q) = Range(s) \cap S
  BY <1>1, ListedType DEF Sublists
<1>3. \A i, j \in DOMAIN q : i < j => q[i] # q[j]
  <2> SUFFICES ASSUME NEW i \in DOMAIN q, NEW j \in DOMAIN q, i < j PROVE q[i] # q[j]
    OBVIOUS
  <2>1. PICK k \in DOMAIN s, l \in DOMAIN s : k < l /\ s[k] = q[i] /\ s[l] = q[j]
    BY DEF Sublists
  <2>2. k # l
    BY <2>1, LenProperties
  <2>3. QED
    BY <2>1, <2>2
<1>4. \A i, j \in DOMAIN q : i = j \/ i < j \/ j < i
  BY <1>2, LenProperties
<1>5. QED
  BY <1>2, <1>3, <1>4

LEMMA UptoType ==
  ASSUME NEW s \in Seq(Camera)
  PROVE  Upto(s) \in Seq(Camera) /\ Range(Upto(s)) \subseteq Range(s)
<1> DEFINE n == IF Len(s) < Limit THEN Len(s) ELSE Limit
<1>1. Len(s) \in Nat /\ DOMAIN s = 1..Len(s)
  BY LenProperties
<1>2. n \in Int /\ n <= Len(s)
  BY <1>1, LimitAssumption
<1>3. Upto(s) = SubSeq(s, 1, n)
  BY DEF Upto
<1> HIDE DEF n
<1>4. \A i \in 1..n : i \in DOMAIN s /\ s[i] \in Camera
  BY <1>1, <1>2
<1>5. /\ SubSeq(s, 1, n) \in Seq(Camera)
      /\ Len(SubSeq(s, 1, n)) = IF 1 <= n THEN n - 1 + 1 ELSE 0
      /\ \A i \in 1..(n - 1 + 1) : SubSeq(s, 1, n)[i] = s[1 + i - 1]
  BY <1>2, <1>4, SubSeqProperties
<1>6. \A i \in DOMAIN SubSeq(s, 1, n) : SubSeq(s, 1, n)[i] = s[i] /\ i \in 1..n
  <2>1. DOMAIN SubSeq(s, 1, n) = 1..Len(SubSeq(s, 1, n))
    BY <1>5, LenProperties
  <2>2. \A i \in 1..n : 1 + i - 1 = i /\ n - 1 + 1 = n
    BY <1>2
  <2>3. \A i \in DOMAIN SubSeq(s, 1, n) : i \in 1..n
    BY <1>2, <1>5, <2>1
  <2>4. QED
    BY <1>2, <1>5, <2>2, <2>3
<1>7. QED
  BY <1>3, <1>4, <1>5, <1>6 DEF Range

\* The rig: what it took, queued, wrote down and was told about.
LEMMA RigTypes ==
  ASSUME VideoTypes, Next
  PROVE  /\ taken \subseteq taken' /\ taken' \subseteq Camera
         /\ queue' \in Seq(Camera) /\ Range(queue') \subseteq taken'
         /\ disk' \subseteq taken' /\ told' \subseteq taken'
         /\ chain' \in Seq({"put", "forget"} \X Camera)
         /\ \A i \in DOMAIN chain' : chain'[i][2] \in taken'
<1> USE DEF rigVars, sendVars, rowVars, storeVars, workerVars
<1> DEFINE W == {"put", "forget"} \X taken
<1>0. /\ taken \subseteq Camera /\ queue \in Seq(taken) /\ disk \subseteq taken
      /\ told \subseteq taken /\ chain \in Seq(W)
      /\ "page" \in Sender /\ \A s \in Sender : sending[s].cams \subseteq taken
      /\ sending["page"].step # "idle" => queue # <<>>
  <2>1. queue \in Seq(taken)
    <3>1. \A i \in DOMAIN queue : queue[i] \in taken
      BY DEF VideoTypes, Range
    <3>2. QED
      BY <3>1, LenProperties, SeqDef DEF VideoTypes, TypeOK
  <2>2. chain \in Seq(W)
    <3>1. \A i \in DOMAIN chain : chain[i] \in W
      BY LenProperties DEF VideoTypes, TypeOK
    <3>2. QED
      BY <3>1, LenProperties, SeqDef DEF VideoTypes, TypeOK
  <2>3. QED
    BY <2>1, <2>2 DEF VideoTypes, TypeOK, Sender
<1>1. /\ taken' \subseteq Camera /\ taken \subseteq taken'
      /\ queue' \in Seq(taken') /\ disk' \subseteq taken'
      /\ told' \subseteq taken' /\ chain' \in Seq({"put", "forget"} \X taken')
  <2> DEFINE Goal == /\ taken' \subseteq Camera /\ taken \subseteq taken'
                     /\ queue' \in Seq(taken') /\ disk' \subseteq taken'
                     /\ told' \subseteq taken' /\ chain' \in Seq({"put", "forget"} \X taken')
  <2>1. CASE UNCHANGED <<rigVars, told>>
    BY <1>0, <2>1
  <2>2. ASSUME NEW c \in Camera, Save(c) PROVE Goal
    <3>1. /\ taken' = taken \cup {c} /\ queue' = Append(queue, c)
          /\ chain' = Append(chain, <<"put", c>>) /\ UNCHANGED <<disk, told>>
      BY <2>2 DEF Save
    <3>2. queue \in Seq(taken') /\ chain \in Seq({"put", "forget"} \X taken')
      BY <1>0, <3>1, SeqMonotonic
    <3>3. QED
      BY <1>0, <3>1, <3>2, AppendProperties
  <2>3. ASSUME JournalWrite PROVE Goal
    <3>1. Head(chain) \in W /\ Tail(chain) \in Seq(W)
      BY <1>0, <2>3, HeadTailProperties DEF JournalWrite
    <3>2. QED
      BY <1>0, <2>3, <3>1 DEF JournalWrite
  <2>4. ASSUME PageRestarts PROVE Goal
    <3>1. queue' \in Seq(disk)
      BY <1>0, <2>4, ListedType DEF PageRestarts
    <3>2. queue' \in Seq(taken)
      BY <1>0, <3>1, SeqMonotonic
    <3>3. QED
      BY <1>0, <2>4, <3>2, EmptySeq DEF PageRestarts
  <2>5. ASSUME NEW s \in Sender, Released(s) PROVE Goal
    <3>1. CASE s = "page"
      <4>1. queue # <<>>
        BY <1>0, <2>5, <3>1 DEF Released
      <4>2. Head(queue) \in taken /\ Tail(queue) \in Seq(taken)
        BY <1>0, <4>1, HeadTailProperties
      <4>3. Append(chain, <<"forget", Head(queue)>>) \in Seq(W)
        BY <1>0, <4>2, AppendProperties
      <4>4. QED
        BY <1>0, <2>5, <3>1, <4>2, <4>3 DEF Released
    <3>2. CASE s # "page"
      BY <1>0, <2>5, <3>2 DEF Released
    <3>3. QED
      BY <3>1, <3>2
  <2>6. ASSUME NEW s \in Sender, Uploads(s), ~Released(s) PROVE UNCHANGED <<rigVars, told>>
    BY <2>6 DEF Uploads, Presign, PutLands, ConfirmReads, ConfirmCommits
  <2>7. ASSUME Worker PROVE UNCHANGED <<rigVars, told>>
    BY <2>7 DEF Worker, DrainSelects, DrainCopies, DrainRaises, DrainCommits, ReleaseSelects,
       ReleaseFrees, ReleaseCommits, GiveUpSelects, GiveUpCommits, RetireSelects,
       RetireDeletes, RetireCommits
  <2>8. QED
    BY <2>1, <2>2, <2>3, <2>4, <2>5, <2>6, <2>7
    DEF Next, Project, PutStops, ExchangeLost, ServeLate, DrainCopyCut, WorkerDies
<1>2. queue' \in Seq(Camera) /\ Range(queue') \subseteq taken'
  <2>1. queue' \in Seq(Camera)
    BY <1>1, SeqMonotonic
  <2>2. QED
    BY <1>1, <2>1 DEF Range
<1>3. /\ chain' \in Seq({"put", "forget"} \X Camera)
      /\ \A i \in DOMAIN chain' : chain'[i][2] \in taken'
  <2>1. chain' \in Seq({"put", "forget"} \X Camera)
    BY <1>1, SeqMonotonic
  <2>2. \A i \in DOMAIN chain' : chain'[i] \in {"put", "forget"} \X taken'
    BY <1>1, LenProperties
  <2>3. QED
    BY <2>1, <2>2
<1>4. QED
  BY <1>1, <1>2, <1>3

\* The senders' exchanges, each about a take; the page's is about its queue.
LEMMA SendTypes ==
  ASSUME VideoTypes, Next, taken \subseteq taken'
  PROVE  /\ sending' \in [Sender -> [step : Step, cams : SUBSET Camera]]
         /\ \A s \in Sender : sending'[s].cams \subseteq taken'
         /\ \A r \in late' : r.step \in {"asked", "checked"} /\ r.cams \subseteq Camera
         /\ sending'["page"].step # "idle" => queue' # <<>>
<1> USE DEF rigVars, sendVars, rowVars, storeVars, workerVars
<1> DEFINE X == [step : Step, cams : SUBSET taken]
<1>0. /\ sending \in [Sender -> X] /\ "page" \in Sender /\ taken \subseteq Camera
      /\ sending["page"].step # "idle" => queue # <<>>
      /\ \A r \in late : r.step \in {"asked", "checked"} /\ r.cams \subseteq Camera
      /\ disk \subseteq taken /\ queue \in Seq(Camera) /\ Range(queue) \subseteq taken
  <2>1. \A s \in Sender : sending[s] \in X
    BY DEF VideoTypes, TypeOK
  <2>2. QED
    BY <2>1 DEF VideoTypes, TypeOK, Sender
<1>1. Idle \in X /\ Idle.step = "idle"
  BY DEF Idle, Step
<1>2. \A st \in Step, c \in taken : At(st, c) \in X /\ At(st, c).step = st
  BY DEF At
<1>3. {"idle", "asked", "put", "checked", "released"} = Step
  BY DEF Step
<1> HIDE DEF X
<1>4. ASSUME NEW s \in Sender
      PROVE  /\ \A c \in sending[s].cams : c \in taken
             /\ \A r \in GivenUp(s) : r.step \in {"asked", "checked"} /\ r.cams \subseteq Camera
  BY <1>0 DEF GivenUp, X
<1> DEFINE Goal == /\ sending' \in [Sender -> X]
                   /\ \A r \in late' : r.step \in {"asked", "checked"} /\ r.cams \subseteq Camera
                   /\ sending'["page"].step # "idle" => queue' # <<>>
<1>5. Goal
  <2>1. ASSUME UNCHANGED <<sending, late>>, queue = <<>> \/ queue' # <<>> PROVE Goal
    BY <1>0, <2>1
  <2>2. ASSUME NEW c \in Camera, Save(c) PROVE Goal
    <3>1. queue' # <<>>
      <4>1. Append(queue, c) # <<>>
        BY <1>0, AppendProperties
      <4>2. QED
        BY <2>2, <4>1 DEF Save
    <3>2. QED
      BY <2>1, <2>2, <3>1 DEF Save
  <2>3. ASSUME PageRestarts PROVE Goal
    <3>1. sending' = [sending EXCEPT !["page"] = Idle] /\ late' = GivenUp("page")
      BY <2>3 DEF PageRestarts
    <3>2. QED
      BY <1>0, <1>1, <1>4, <3>1
  <2>4. ASSUME NEW s \in Sender, Presign(s) PROVE Goal
    <3>1. PICK c \in Offered(s) : sending' = [sending EXCEPT ![s] = At("asked", c)]
      BY <2>4 DEF Presign
    <3>2. c \in taken /\ (s = "page" => queue # <<>>)
      BY <1>0, EmptySeq, LenProperties DEF Offered, Range
    <3>3. UNCHANGED <<queue, late>>
      BY <2>4 DEF Presign
    <3>4. QED
      BY <1>0, <1>2, <1>3, <3>1, <3>2, <3>3
  <2>5. ASSUME NEW s \in Sender, PutLands(s) PROVE Goal
    <3>1. PICK c \in sending[s].cams : sending' = [sending EXCEPT ![s] = At("put", c)]
      BY <2>5 DEF PutLands
    <3>2. UNCHANGED <<queue, late>> /\ sending[s].step = "asked"
      BY <2>5 DEF PutLands
    <3>3. QED
      BY <1>0, <1>2, <1>3, <1>4, <3>1, <3>2
  <2>6. ASSUME NEW s \in Sender, PutStops(s) PROVE Goal
    <3>1. PICK c \in sending[s].cams :
            \E next \in {Idle, At("put", c)} : sending' = [sending EXCEPT ![s] = next]
      BY <2>6 DEF PutStops
    <3>2. UNCHANGED <<queue, late>> /\ sending[s].step = "asked"
      BY <2>6 DEF PutStops
    <3>3. QED
      BY <1>0, <1>1, <1>2, <1>3, <1>4, <3>1, <3>2
  <2>7. ASSUME NEW s \in Sender, ConfirmReads(s) PROVE Goal
    <3>1. PICK c \in sending[s].cams : sending' = [sending EXCEPT
              ![s] = IF spool[c] = "whole" THEN At("checked", c) ELSE Idle]
      BY <2>7 DEF ConfirmReads
    <3>2. UNCHANGED <<queue, late>> /\ sending[s].step = "put"
      BY <2>7 DEF ConfirmReads
    <3>3. QED
      BY <1>0, <1>1, <1>2, <1>3, <1>4, <3>1, <3>2
  <2>8. ASSUME NEW s \in Sender, ConfirmCommits(s) PROVE Goal
    <3>1. PICK c \in sending[s].cams : sending' = [sending EXCEPT ![s] = At("released", c)]
      BY <2>8 DEF ConfirmCommits
    <3>2. UNCHANGED <<queue, late>> /\ sending[s].step = "checked"
      BY <2>8 DEF ConfirmCommits
    <3>3. QED
      BY <1>0, <1>2, <1>3, <1>4, <3>1, <3>2
  <2>9. ASSUME NEW s \in Sender, Released(s) PROVE Goal
    <3>1. sending' = [sending EXCEPT ![s] = Idle] /\ late' = late /\ (s = "page" \/ queue' = queue)
      BY <2>9 DEF Released
    <3>2. QED
      BY <1>0, <1>1, <3>1
  <2>10. ASSUME NEW s \in Sender, ExchangeLost(s) PROVE Goal
    <3>1. /\ sending' = [sending EXCEPT ![s] = Idle] /\ late' = GivenUp(s)
          /\ queue' = queue
      BY <2>10 DEF ExchangeLost
    <3>2. QED
      BY <1>0, <1>1, <1>4, <3>1
  <2>11. ASSUME ServeLate PROVE Goal
    BY <1>0, <2>11 DEF ServeLate
  <2>12. ASSUME Worker PROVE UNCHANGED <<sending, late, queue>>
    BY <2>12 DEF Worker, DrainSelects, DrainCopies, DrainRaises, DrainCommits, ReleaseSelects,
       ReleaseFrees, ReleaseCommits, GiveUpSelects, GiveUpCommits, RetireSelects,
       RetireDeletes, RetireCommits
  <2>13. ASSUME JournalWrite \/ Project \/ DrainCopyCut \/ WorkerDies
         PROVE  UNCHANGED <<sending, late, queue>>
    BY <2>13 DEF JournalWrite, Project, DrainCopyCut, WorkerDies
  <2>14. QED
    BY <2>1, <2>2, <2>3, <2>4, <2>5, <2>6, <2>7, <2>8, <2>9, <2>10, <2>11, <2>12, <2>13
    DEF Next, Uploads
<1>6. QED
  BY <1>0, <1>5 DEF X

RowState == {"none", "pending", "on_prem", "archived", "expired", "missing"}
RowType == [state : RowState, freed : BOOLEAN]

\* One row of a camera changed, in one field.
LEMMA RowChanges ==
  ASSUME row \in [Camera -> RowType]
  PROVE  /\ \A c \in Camera, st \in RowState :
              /\ [row[c] EXCEPT !.state = st] \in RowType
              /\ [row EXCEPT ![c].state = st] \in [Camera -> RowType]
         /\ \A c \in Camera, b \in BOOLEAN : [row[c] EXCEPT !.freed = b] \in RowType
BY DEF RowType

LEMMA ConfirmedTypes ==
  ASSUME TypeOK, NEW c \in Camera, Confirmed(c)
  PROVE  /\ row' \in [Camera -> RowType]
         /\ stored' \in Seq(Camera)
         /\ \A i, j \in DOMAIN stored' : stored'[i] = stored'[j] => i = j
<1>1. row \in [Camera -> RowType]
  BY DEF TypeOK, RowType, RowState
<1>2. row' \in [Camera -> RowType]
  BY <1>1, RowChanges DEF Confirmed, RowState
<1>3. PICK others \in Sublists(stored, Camera \ {c}) : stored' = Append(others, c)
  BY DEF Confirmed
<1>4. /\ others \in Seq(Camera) /\ c \notin Range(others)
      /\ \A i, j \in DOMAIN others : others[i] = others[j] => i = j
  <2>1. stored \in Seq(Camera) /\ \A i, j \in DOMAIN stored : stored[i] = stored[j] => i = j
    BY DEF TypeOK
  <2>2. /\ others \in Seq(Camera) /\ Range(others) = Range(stored) \cap (Camera \ {c})
        /\ \A i, j \in DOMAIN others : others[i] = others[j] => i = j
    BY <2>1, SublistsType
  <2>3. QED
    BY <2>2
<1>5. /\ Append(others, c) \in Seq(Camera) /\ Len(Append(others, c)) = Len(others) + 1
      /\ \A i \in 1..Len(others) : Append(others, c)[i] = others[i]
      /\ Append(others, c)[Len(others) + 1] = c
  BY <1>4, AppendProperties
<1>6. /\ DOMAIN Append(others, c) = 1..(Len(others) + 1) /\ DOMAIN others = 1..Len(others)
      /\ Len(others) \in Nat
  BY <1>4, <1>5, LenProperties
<1>7. \A i \in 1..Len(others) : others[i] # c
  BY <1>4, <1>6 DEF Range
<1>8. \A i, j \in DOMAIN Append(others, c) :
        Append(others, c)[i] = Append(others, c)[j] => i = j
  BY <1>4, <1>5, <1>6, <1>7
<1>9. QED
  BY <1>2, <1>3, <1>5, <1>8

LEMMA RowTypes ==
  ASSUME VideoTypes, Next
  PROVE  /\ projected' \in BOOLEAN /\ row' \in [Camera -> RowType]
         /\ stored' \in Seq(Camera)
         /\ \A i, j \in DOMAIN stored' : stored'[i] = stored'[j] => i = j
<1> USE DEF rigVars, sendVars, rowVars, storeVars, workerVars
<1> DEFINE Goal == /\ projected' \in BOOLEAN /\ row' \in [Camera -> RowType]
                   /\ stored' \in Seq(Camera)
                   /\ \A i, j \in DOMAIN stored' : stored'[i] = stored'[j] => i = j
<1>0. /\ projected \in BOOLEAN /\ row \in [Camera -> RowType] /\ stored \in Seq(Camera)
      /\ \A i, j \in DOMAIN stored : stored[i] = stored[j] => i = j
      /\ TypeOK /\ \A s \in Sender : sending[s].cams \subseteq Camera
  BY DEF VideoTypes, TypeOK, RowType, RowState
<1>1. CASE UNCHANGED <<row, stored>> /\ projected' \in {projected, TRUE}
  BY <1>0, <1>1
<1>2. ASSUME NEW s \in Sender, Presign(s) PROVE Goal
  <2>1. PICK c \in Offered(s) : row' = IF row[c].state = "none"
                                         THEN [row EXCEPT ![c].state = "pending"] ELSE row
    BY <1>2 DEF Presign
  <2>2. c \in Camera
    BY <1>0 DEF Offered, VideoTypes, TypeOK
  <2>3. row' \in [Camera -> RowType]
    BY <1>0, <2>1, <2>2, RowChanges DEF RowState
  <2>4. UNCHANGED <<projected, stored>>
    BY <1>2 DEF Presign
  <2>5. QED
    BY <1>0, <2>3, <2>4
<1>3. ASSUME NEW s \in Sender, ConfirmCommits(s) PROVE Goal
  BY <1>0, <1>3, ConfirmedTypes DEF ConfirmCommits
<1>4. ASSUME ServeLate PROVE Goal
  BY <1>0, <1>4, ConfirmedTypes DEF ServeLate
<1>5. ASSUME DrainCommits \/ ReleaseCommits \/ GiveUpCommits \/ RetireCommits PROVE Goal
  <2>1. \A c \in Camera : /\ [row[c] EXCEPT !.state = "archived"] \in RowType
                          /\ [row[c] EXCEPT !.state = "missing"] \in RowType
                          /\ [row[c] EXCEPT !.state = "expired"] \in RowType
                          /\ [row[c] EXCEPT !.freed = TRUE] \in RowType
                          /\ row[c] \in RowType
    BY <1>0, RowChanges DEF RowState
  <2>2. row' \in [Camera -> RowType]
    BY <1>5, <2>1 DEF DrainCommits, ReleaseCommits, GiveUpCommits, RetireCommits
  <2>3. UNCHANGED <<projected, stored>>
    BY <1>5 DEF DrainCommits, ReleaseCommits, GiveUpCommits, RetireCommits
  <2>4. QED
    BY <1>0, <2>2, <2>3
<1>6. ASSUME Worker, ~(DrainCommits \/ ReleaseCommits \/ GiveUpCommits \/ RetireCommits)
      PROVE  UNCHANGED rowVars
  BY <1>6 DEF Worker, DrainSelects, DrainCopies, DrainRaises, ReleaseSelects, ReleaseFrees,
     GiveUpSelects, RetireSelects, RetireDeletes
<1>7. ASSUME NEW s \in Sender, Uploads(s), ~Presign(s), ~ConfirmCommits(s)
      PROVE  UNCHANGED rowVars
  BY <1>7 DEF Uploads, PutLands, ConfirmReads, Released
<1>8. QED
  BY <1>1, <1>2, <1>3, <1>4, <1>5, <1>6, <1>7
  DEF Next, Save, JournalWrite, PageRestarts, Project, PutStops, ExchangeLost, DrainCopyCut,
      WorkerDies

LEMMA StoreTypes ==
  ASSUME VideoTypes, Next
  PROVE  spool' \in [Camera -> Bytes] /\ archive' \in [Camera -> Bytes]
<1> USE DEF rigVars, sendVars, rowVars, storeVars, workerVars
<1>0. /\ spool \in [Camera -> Bytes] /\ archive \in [Camera -> Bytes]
      /\ {"none", "whole", "cut"} = Bytes /\ \A i \in DOMAIN work : work[i] \in Camera
      /\ \A s \in Sender : sending[s].cams \subseteq Camera
      /\ work # <<>> => Head(work) \in Camera
  BY HeadTailProperties, LenProperties DEF VideoTypes, TypeOK, Bytes
<1>1. ASSUME NEW s \in Sender, PutLands(s) \/ PutStops(s)
      PROVE  spool' \in [Camera -> Bytes] /\ archive' = archive
  BY <1>0, <1>1 DEF PutLands, PutStops
<1>2. CASE ServeLate
  BY <1>0, <1>2 DEF ServeLate
<1>3. CASE DrainCopies
  BY <1>0, <1>3 DEF DrainCopies
<1>4. CASE DrainCopyCut
  BY <1>0, <1>4 DEF DrainCopyCut
<1>5. CASE ReleaseFrees
  BY <1>0, <1>5 DEF ReleaseFrees
<1>6. CASE RetireDeletes
  BY <1>0, <1>6 DEF RetireDeletes
<1>7. ASSUME NEW s \in Sender, Uploads(s), ~PutLands(s) PROVE UNCHANGED storeVars
  BY <1>7 DEF Uploads, Presign, ConfirmReads, ConfirmCommits, Released
<1>8. ASSUME Worker, ~DrainCopies, ~ReleaseFrees, ~RetireDeletes PROVE UNCHANGED storeVars
  BY <1>8 DEF Worker, DrainSelects, DrainRaises, DrainCommits, ReleaseSelects,
     ReleaseCommits, GiveUpSelects, GiveUpCommits, RetireSelects, RetireCommits
<1>9. QED
  BY <1>0, <1>1, <1>2, <1>3, <1>4, <1>5, <1>6, <1>7, <1>8
  DEF Next, Save, JournalWrite, PageRestarts, Project, ExchangeLost, WorkerDies

Phase == {"idle", "copy", "release", "free", "giveup", "missing", "retire", "delete"}

LEMMA WorkTypes ==
  ASSUME VideoTypes, Next
  PROVE  phase' \in Phase /\ work' \in Seq(Camera) /\ marked' \subseteq Camera
<1> USE DEF rigVars, sendVars, rowVars, storeVars, workerVars
<1>0. /\ phase \in Phase /\ work \in Seq(Camera) /\ marked \subseteq Camera
      /\ stored \in Seq(Camera)
      /\ \A i, j \in DOMAIN stored : stored[i] = stored[j] => i = j
      /\ \A st : InState(st) \subseteq Camera
      /\ <<>> \in Seq(Camera)
      /\ work # <<>> => Head(work) \in Camera /\ Tail(work) \in Seq(Camera)
  BY HeadTailProperties, EmptySeq DEF VideoTypes, TypeOK, Phase, InState
<1>1. CASE UNCHANGED workerVars
  BY <1>0, <1>1
<1>2. CASE DrainSelects
  <2>1. \A q \in Sublists(stored, InState("on_prem")) : Upto(q) \in Seq(Camera)
    BY <1>0, SublistsType, UptoType
  <2>2. QED
    BY <1>0, <1>2, <2>1 DEF DrainSelects, Phase
<1>3. CASE DrainCopies \/ DrainCopyCut \/ ReleaseFrees \/ RetireDeletes
  BY <1>0, <1>3 DEF DrainCopies, DrainCopyCut, ReleaseFrees, RetireDeletes
<1>4. CASE DrainRaises \/ WorkerDies
  BY <1>0, <1>4 DEF DrainRaises, WorkerDies, Phase
<1>5. CASE DrainCommits \/ ReleaseCommits \/ GiveUpCommits \/ RetireCommits
  BY <1>0, <1>5 DEF DrainCommits, ReleaseCommits, GiveUpCommits, RetireCommits, Phase
<1>6. CASE ReleaseSelects
  <2>1. PICK S \in SUBSET {c \in InState("archived") : ~row[c].freed} : work' \in Listed(S)
    BY <1>6 DEF ReleaseSelects
  <2>2. work' \in Seq(Camera)
    BY <1>0, <2>1, ListedType
  <2>3. QED
    BY <1>0, <1>6, <2>2 DEF ReleaseSelects, Phase
<1>7. CASE RetireSelects
  <2>1. PICK S \in SUBSET Camera : work' \in Listed(S)
    BY <1>0, <1>7 DEF RetireSelects, Retirable
  <2>2. work' \in Seq(Camera)
    BY <2>1, ListedType
  <2>3. QED
    BY <1>0, <1>7, <2>2 DEF RetireSelects, Phase
<1>8. CASE GiveUpSelects
  BY <1>0, <1>8 DEF GiveUpSelects, Phase
<1>9. ASSUME NEW s \in Sender, Uploads(s) PROVE UNCHANGED workerVars
  BY <1>9 DEF Uploads, Presign, PutLands, ConfirmReads, ConfirmCommits, Released
<1>10. QED
  BY <1>1, <1>2, <1>3, <1>4, <1>5, <1>6, <1>7, <1>8, <1>9
  DEF Next, Worker, Save, JournalWrite, PageRestarts, Project, PutStops, ExchangeLost,
      ServeLate

LEMMA SpentType ==
  ASSUME spent \in [Bound -> Nat], [Next]_vars
  PROVE  spent' \in [Bound -> Nat]
<1> USE DEF rigVars, sendVars, rowVars, storeVars, workerVars
<1>1. ASSUME NEW k \in Bound, Spend(k) PROVE spent' \in [Bound -> Nat]
  BY <1>1 DEF Spend
<1>2. ASSUME NEW s \in Sender, Uploads(s) PROVE UNCHANGED spent
  BY <1>2 DEF Uploads, Presign, PutLands, ConfirmReads, ConfirmCommits, Released
<1>3. ASSUME Worker PROVE UNCHANGED spent
  BY <1>3 DEF Worker, DrainSelects, DrainCopies, DrainRaises, DrainCommits, ReleaseSelects,
     ReleaseFrees, ReleaseCommits, GiveUpSelects, GiveUpCommits, RetireSelects,
     RetireDeletes, RetireCommits
<1>4. QED
  BY <1>1, <1>2, <1>3
  DEF Next, vars, Bound, Save, JournalWrite, PageRestarts, Project, PutStops, ExchangeLost,
      ServeLate, DrainCopyCut, WorkerDies

LEMMA InitTypes == Init => VideoTypes
<1> SUFFICES ASSUME Init PROVE VideoTypes
  OBVIOUS
<1>1. Idle \in [step : Step, cams : SUBSET Camera] /\ Idle.step = "idle" /\ Idle.cams = {}
  BY DEF Idle, Step
<1>2. /\ sending \in [Sender -> [step : Step, cams : SUBSET Camera]]
      /\ \A s \in Sender : sending[s].cams \subseteq taken /\ sending[s].step = "idle"
  BY <1>1 DEF Init
<1>3. row \in [Camera -> RowType] /\ spent \in [Bound -> Nat]
  BY DEF Init, NoRow, RowType, RowState
<1>4. \A S : <<>> \in Seq(S)
  BY EmptySeq
<1>5. "page" \in Sender /\ DOMAIN <<>> = {} /\ Range(<<>>) = {}
  BY DEF Sender, Range
<1>6. TypeOK
  BY <1>2, <1>3, <1>4, <1>5 DEF Init, TypeOK, RowType, RowState, Bytes
<1>7. QED
  BY <1>2, <1>5, <1>6 DEF Init, VideoTypes

LEMMA StepTypes == VideoTypes /\ [Next]_vars => VideoTypes'
<1> SUFFICES ASSUME VideoTypes, [Next]_vars PROVE VideoTypes'
  OBVIOUS
<1>1. CASE UNCHANGED vars
  BY <1>1 DEF VideoTypes, TypeOK, InState, vars, rigVars, sendVars, rowVars, storeVars, workerVars
<1>2. CASE Next
  <2>1. taken \subseteq taken'
    BY <1>2, RigTypes
  <2>2. spent' \in [Bound -> Nat]
    BY SpentType DEF VideoTypes, TypeOK
  <2>3. TypeOK'
    BY <1>2, <2>1, <2>2, RigTypes, SendTypes, RowTypes, StoreTypes, WorkTypes
    DEF TypeOK, RowType, RowState, Phase
  <2>4. QED
    BY <1>2, <2>1, <2>3, RigTypes, SendTypes DEF VideoTypes
<1>3. QED
  BY <1>1, <1>2

\* Type correctness: the takes queued, written down and told about are takes
\* that were saved, and a second confirm of a camera makes no second row
\* (video.py 92-147).
THEOREM TypeCorrect == Spec => []TypeOK
<1>1. VideoTypes => TypeOK
  BY DEF VideoTypes
<1>2. QED
  BY <1>1, InitTypes, StepTypes, PTL DEF Spec

-----------------------------------------------------------------------------
(* Retention takes only what was released.                                 *)

\* Nothing but retention takes a whole copy out of the archive.
LEMMA OnlyRetention ==
  ASSUME VideoTypes, [Next]_vars, NEW c \in Camera, archive[c] = "whole", archive'[c] = "none"
  PROVE  phase = "delete" /\ c \in Range(work)
<1> USE DEF rigVars, sendVars, rowVars, storeVars, workerVars
<1>0. archive \in [Camera -> Bytes] /\ spool \in [Camera -> Bytes] /\ work \in Seq(Camera)
  BY DEF VideoTypes, TypeOK
<1>1. ASSUME NEW s \in Sender, Uploads(s) PROVE UNCHANGED archive
  BY <1>1 DEF Uploads, Presign, PutLands, ConfirmReads, ConfirmCommits, Released
<1>2. ASSUME Worker, ~DrainCopies, ~RetireDeletes PROVE UNCHANGED archive
  BY <1>2 DEF Worker, DrainSelects, DrainRaises, DrainCommits, ReleaseSelects, ReleaseFrees,
     ReleaseCommits, GiveUpSelects, GiveUpCommits, RetireSelects, RetireCommits
<1>3. CASE DrainCopies \/ DrainCopyCut
  <2>1. archive'[c] = archive[c] \/ archive'[c] = "cut" \/ archive'[c] = spool[Head(work)]
    BY <1>0, <1>3 DEF DrainCopies, DrainCopyCut
  <2>2. QED
    BY <1>0, <1>3, <2>1 DEF DrainCopies, DrainCopyCut
<1>4. CASE RetireDeletes
  <2>1. phase = "delete" /\ work # <<>> /\ archive' = [archive EXCEPT ![Head(work)] = "none"]
    BY <1>4 DEF RetireDeletes
  <2>2. c = Head(work)
    BY <1>0, <2>1
  <2>3. Head(work) \in Range(work)
    BY <1>0, <2>1, RangeEnds
  <2>4. QED
    BY <2>1, <2>2, <2>3
<1>5. QED
  BY <1>1, <1>2, <1>3, <1>4
  DEF Next, vars, Save, JournalWrite, PageRestarts, Project, PutStops, ExchangeLost,
      ServeLate, WorkerDies

\* What is about to be retired has been released: that is never taken back.
FreedInv == phase = "delete" => \A c \in Range(work) : row[c].freed

LEMMA FreedStays ==
  ASSUME VideoTypes, [Next]_vars, NEW c \in Camera, row[c].freed
  PROVE  row'[c].freed
<1> USE DEF rigVars, sendVars, rowVars, storeVars, workerVars
<1>0. row \in [Camera -> RowType]
  BY DEF VideoTypes, TypeOK, RowType, RowState
<1>1. ASSUME NEW d \in Camera, Confirmed(d) PROVE row'[c].freed
  BY <1>0, <1>1 DEF Confirmed, RowType
<1>2. ASSUME NEW s \in Sender, ConfirmCommits(s) PROVE row'[c].freed
  BY <1>1, <1>2 DEF ConfirmCommits, VideoTypes, TypeOK
<1>3. CASE ServeLate
  BY <1>1, <1>3 DEF ServeLate
<1>4. ASSUME NEW s \in Sender, Presign(s) PROVE row'[c].freed
  BY <1>0, <1>4 DEF Presign, RowType
<1>5. CASE DrainCommits \/ ReleaseCommits \/ GiveUpCommits \/ RetireCommits
  BY <1>0, <1>5 DEF DrainCommits, ReleaseCommits, GiveUpCommits, RetireCommits, RowType
<1>6. ASSUME Worker, ~(DrainCommits \/ ReleaseCommits \/ GiveUpCommits \/ RetireCommits)
      PROVE  UNCHANGED row
  BY <1>6 DEF Worker, DrainSelects, DrainCopies, DrainRaises, ReleaseSelects, ReleaseFrees,
     GiveUpSelects, RetireSelects, RetireDeletes
<1>7. ASSUME NEW s \in Sender, Uploads(s), ~Presign(s), ~ConfirmCommits(s)
      PROVE  UNCHANGED row
  BY <1>7 DEF Uploads, PutLands, ConfirmReads, Released
<1>8. QED
  BY <1>2, <1>3, <1>4, <1>5, <1>6, <1>7
  DEF Next, vars, Save, JournalWrite, PageRestarts, Project, PutStops, ExchangeLost,
      DrainCopyCut, WorkerDies

LEMMA StepFreed ==
  ASSUME VideoTypes, FreedInv, [Next]_vars
  PROVE  FreedInv'
<1> USE DEF rigVars, sendVars, rowVars, storeVars, workerVars
<1>0. Range(work) \subseteq Camera /\ work \in Seq(Camera)
  BY DEF VideoTypes, TypeOK, Range
<1>1. CASE UNCHANGED <<phase, work>>
  BY <1>0, <1>1, FreedStays DEF FreedInv
<1>2. CASE RetireSelects
  <2>1. PICK S \in SUBSET Retirable : work' \in Listed(S)
    BY <1>2 DEF RetireSelects
  <2>2. Range(work') = S
    BY <2>1, ListedType DEF InState, Retirable
  <2>3. UNCHANGED row
    BY <1>2 DEF RetireSelects
  <2>4. QED
    BY <2>1, <2>2, <2>3 DEF FreedInv, Retirable
<1>3. CASE RetireDeletes
  <2>1. work # <<>> /\ work' = Tail(work) /\ UNCHANGED <<phase, row>>
    BY <1>3 DEF RetireDeletes
  <2>2. Range(work') \subseteq Range(work)
    <3>1. Head(work) \in Camera
      BY <1>0, <2>1, HeadTailProperties
    <3>2. QED
      BY <1>0, <2>1, <3>1, RangeEnds
  <2>3. QED
    BY <2>1, <2>2 DEF FreedInv
<1>4. ASSUME Worker \/ DrainCopyCut \/ WorkerDies, ~RetireSelects, ~RetireDeletes
      PROVE  phase' # "delete"
  BY <1>4 DEF Worker, DrainSelects, DrainCopies, DrainRaises, DrainCommits, ReleaseSelects,
     ReleaseFrees, ReleaseCommits, GiveUpSelects, GiveUpCommits, RetireCommits,
     DrainCopyCut, WorkerDies
<1>5. ASSUME NEW s \in Sender, Uploads(s) PROVE UNCHANGED <<phase, work>>
  BY <1>5 DEF Uploads, Presign, PutLands, ConfirmReads, ConfirmCommits, Released
<1>6. QED
  BY <1>1, <1>2, <1>3, <1>4, <1>5
  DEF FreedInv, Next, vars, Save, JournalWrite, PageRestarts, Project, PutStops,
      ExchangeLost, ServeLate

\* However many are sending, whatever is lost, repeated or restarted, and
\* whatever lands on the spool again: retention takes a copy out of the archive
\* only of a camera whose release has been recorded (video.py 342-366).
RetiresOnlyFreed ==
  [][\A c \in Camera : archive[c] = "whole" /\ archive'[c] = "none" => row[c].freed]_vars

\* Retention waits for the release in every configuration: RetiresOnlyFreed.
THEOREM RetiresFreed == Spec => RetiresOnlyFreed
<1>1. Init => FreedInv
  BY DEF Init, FreedInv
<1>2. VideoTypes /\ FreedInv /\ [Next]_vars => FreedInv'
  BY StepFreed
<1>3. VideoTypes /\ FreedInv /\ [Next]_vars =>
        [\A c \in Camera : archive[c] = "whole" /\ archive'[c] = "none" => row[c].freed]_vars
  BY OnlyRetention DEF FreedInv
<1>4. QED
  BY <1>1, <1>2, <1>3, InitTypes, StepTypes, PTL DEF Spec, RetiresOnlyFreed
=============================================================================
