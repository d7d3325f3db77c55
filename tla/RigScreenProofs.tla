-------------------------- MODULE RigScreenProofs --------------------------
(***************************************************************************)
(* Proofs about RigScreen: the types, the count of a stint's takes, the    *)
(* order of what a step files, and whose the screens are.                  *)
(***************************************************************************)
EXTENDS RigScreen, SequenceTheorems, TLAPS

Marked == ghost.swapped \/ ghost.cut

\* The stint that is running: the takes it counts are those the ledger has of
\* it and the one in flight, and it belongs to the sheet in hand.
CountIsRight ==
  ~Marked =>
    /\ s.episode = ghost.landed + (IF s.phase \in Busy THEN 1 ELSE 0)
    /\ s.turnKey = ghost.key[2]
    /\ ghost.key[2] # Nobody => sheet # NoSheet /\ sheet.day = ghost.key[1]

\* What a settled disk has: the running count, less the take in flight, ...
SavedCounts ==
  Settled => s.episode = saved.episode + (IF s.phase \in Busy THEN 1 ELSE 0)

OfTheStint == saved.day = ghost.key[1] /\ saved.turnKey = ghost.key[2]

\* ... of the stint that is running, or of one with no takes.
SavedIsRight ==
  /\ Settled /\ ~Marked
  /\ ghost.key[2] # Nobody \/ saved.turnKey # Nobody
  => OfTheStint \/ saved.episode = 0

\* Nobody has worked in Standby, nor in a check that was raised there.
RestIsEmpty ==
  /\ s.phase = "standby" => s.episode = 0
  /\ s.phase \in {"checklist", "fault_class", "fault_fixing"} /\ s.fromStandby =>
       s.episode = 0

TakeIsCounted == s.phase \in Busy => s.episode > 0

Rows == [day : {x.day : x \in Sheet} \cup {NoSheet}, turnKey : TurnKey,
         episode : 0..MaxEpisode, level : BOOLEAN]

Stints == [landed : Nat, key : Nat \X TurnKey, swapped : BOOLEAN, cut : BOOLEAN]

\* The fields of the stint on disk and of the observations.
Shapes ==
  /\ saved \in Rows
  /\ ghost \in Stints
  /\ spent \in [reloads : Nat, serves : Nat]

Types == TypeOK /\ Shapes /\ TakeIsCounted

StintInv == RestIsEmpty /\ CountIsRight /\ SavedCounts /\ SavedIsRight

Screen == [phase : Phase, turnKey : TurnKey, stintWho : Turn, episode : 0..MaxEpisode,
           handoverDue : BOOLEAN, restDue : BOOLEAN,
           checked : BOOLEAN, fromStandby : BOOLEAN]

-----------------------------------------------------------------------------
\* Who is on.

LEMMA DayIsNat == ASSUME NEW n \in Nat PROVE Day(n) \in Nat
BY SlotsAssumption DEF Day

\* Somebody is on only by a sheet of the day it is.
LEMMA OnIsATurn ==
  ASSUME NEW x \in Sheet \cup {NoSheet}, NEW n \in Nat
  PROVE  /\ On(x, n) \in Turn
         /\ Key(On(x, n)) \in TurnKey
         /\ On(x, n) # Nobody => /\ Key(On(x, n)) # Nobody
                                 /\ x \in Sheet /\ x # NoSheet
                                 /\ x.day = Day(n)
<1>1. CASE On(x, n) = Nobody
  BY <1>1 DEF Turn, TurnKey, Key
<1>2. CASE On(x, n) # Nobody
  <2>1. x \in Sheet /\ x.day = Day(n) /\ On(x, n) = x.turn[n % NSlots]
    BY <1>2 DEF On, WhoIsOn
  <2>2. n % NSlots \in 0..(NSlots - 1)
    BY SlotsAssumption
  <2>3. On(x, n).from \in 0..(n % NSlots) /\ On(x, n) \in Turn
    <3> PICK k \in 0..(NSlots - 1) : k = n % NSlots
      BY <2>2
    <3> On(x, n) = x.turn[k] /\ k \in DOMAIN x.turn
      BY <2>1, SheetAssumption
    <3> QED BY <1>2, <2>1, SheetAssumption DEF Turn
  <2>4. On(x, n).from \in 0..(NSlots - 1)
    BY <2>2, <2>3, SlotsAssumption
  <2> QED BY <1>2, <2>1, <2>3, <2>4, NobodyAssumption, NoSheetAssumption
          DEF Key, TurnKey
<1> QED BY <1>1, <1>2

LEMMA CurrentIsATurn ==
  ASSUME TypeOK
  PROVE  /\ Current \in Turn /\ Key(Current) \in TurnKey
         /\ Current # Nobody => /\ Key(Current) # Nobody
                                /\ sheet # NoSheet /\ sheet.day = Day(now)
<1> now \in Nat /\ sheet \in Sheet \cup {NoSheet}
  BY BoundsAssumption DEF TypeOK
<1> QED BY OnIsATurn DEF Current

-----------------------------------------------------------------------------
\* Types.

LEMMA FreshShape ==
  ASSUME NEW turn, Key(turn) \in TurnKey, now \in Nat
  PROVE  FreshStint(turn) \in Stints
BY DayIsNat DEF FreshStint, Stints

LEMMA RecordShape == ASSUME TypeOK PROVE StintRecord \in Rows
BY DEF StintRecord, Rows, TypeOK

\* The chain is never longer than its bound, and something emitted is on it.
LEMMA OwedShape ==
  ASSUME NEW n \in Nat \ {0}
  PROVE  Owed(n) \in 1..MaxOwed
BY BoundsAssumption DEF Owed

LEMMA EmitChains ==
  ASSUME TypeOK, NEW events, Emit(events), Len(events) \in Nat \ {0}
  PROVE  chain' \in 1..MaxOwed
<1>1. chain \in Nat
  BY BoundsAssumption DEF TypeOK
<1>2. PICK n \in Nat \ {0} : n = chain + Len(events)
  BY <1>1
<1> QED BY <1>2, OwedShape DEF Emit

LEMMA ReportsChains == ASSUME TypeOK, Reports PROVE chain' \in 1..MaxOwed
<1>1. chain + 1 \in Nat \ {0}
  BY BoundsAssumption DEF TypeOK
<1> QED BY <1>1, OwedShape DEF Reports

\* What goes before a block is nothing, or one take.
Before(before) ==
  before = <<>> \/ \E take : before = <<take>> /\ take.event # "stint_ended"

LEMMA RelievesChains ==
  ASSUME TypeOK, NEW r, NEW n, NEW before, NEW phase, Before(before),
         Relieves(r, n, before, phase)
  PROVE  chain' \in 1..MaxOwed
<1>1. PICK end : end = Block(r, n)
  OBVIOUS
<1>2. PICK S : S = {end, before[1]}
  OBVIOUS
<1>3. before \in Seq(S) /\ Len(before) \in Nat
  <2>1. CASE before = <<>>
    BY <2>1
  <2>2. ASSUME NEW take, before = <<take>>
        PROVE  before \in Seq(S) /\ Len(before) \in Nat
    <3>1. take \in S
      BY <1>2, <2>2
    <3> QED BY <2>2, <3>1
  <2> QED BY <2>1, <2>2 DEF Before
<1>4. Len(Append(before, end)) = Len(before) + 1
  BY <1>2, <1>3, AppendProperties
<1>5. PICK events : events = Append(before, end)
  OBVIOUS
<1>6. Len(events) \in Nat \ {0}
  BY <1>3, <1>4, <1>5
<1> QED BY <1>1, <1>5, <1>6, EmitChains DEF Relieves

LEMMA ZeroShape ==
  ASSUME NEW turn \in Turn, Key(turn) \in TurnKey
  PROVE  Zero(turn) \in Screen /\ Zero(turn).phase \notin Busy
BY BoundsAssumption DEF Zero, Screen, Phase, Turn, Busy

\* A handover, a rest or a restart of the count leaves everything typed.
LEMMA RelievesTypes ==
  ASSUME Types, UNCHANGED Outside, NEW r \in Screen, NEW n, NEW before,
         NEW phase \in {"standby", "handover"}, Before(before),
         Relieves(r, n, before, phase)
  PROVE  Types'
<1>0. Current \in Turn /\ Key(Current) \in TurnKey /\ now \in Nat
  BY CurrentIsATurn, BoundsAssumption DEF Types, TypeOK
<1>1. s' = [BeginStint(r, Current) EXCEPT !.phase = phase,
                                          !.checked = @ /\ phase # "standby"]
  BY DEF Relieves
<1>2. s' \in Screen
  <2>1. BeginStint(r, Current) \in Screen
    <3> PICK turn \in Turn : turn = Current /\ Key(turn) \in TurnKey
      BY <1>0
    <3> 0 \in 0..MaxEpisode
      BY BoundsAssumption
    <3> QED BY DEF BeginStint, Screen
  <2>2. PICK b \in Screen : b = BeginStint(r, Current)
    BY <2>1
  <2>3. PICK c \in BOOLEAN : c = (b.checked /\ phase # "standby")
    OBVIOUS
  <2>4. s' = [b EXCEPT !.phase = phase, !.checked = c]
    BY <1>1, <2>2, <2>3
  <2> QED BY <2>4 DEF Screen, Phase
<1>3. s'.phase \notin Busy
  BY <1>1 DEF BeginStint, Busy, Screen
<1>4. ghost' \in Stints
  BY <1>0, FreshShape DEF Relieves
<1>5. chain' \in 0..MaxOwed
  BY RelievesChains DEF Types
<1> QED
  BY <1>2, <1>3, <1>4, <1>5
  DEF Types, TypeOK, Shapes, Stints, TakeIsCounted, Outside, Screen

\* A take that is filed, whatever the boundary it held up asks for.
LEMMA AfterEpisodeTypes ==
  ASSUME Types, UNCHANGED Outside, NEW r \in Screen, NEW n \in Nat, NEW take,
         take.event # "stint_ended", AfterEpisode(r, n, take)
  PROVE  Types'
<1>1. CASE \E phase \in {"standby", "handover"} : Relieves(r, n, <<take>>, phase)
  BY <1>1, RelievesTypes DEF Before
<1>2. CASE /\ s' = [r EXCEPT !.phase = "resetting"]
           /\ Emit(<<take>>)
           /\ ghost' = [ghost EXCEPT !.landed = n]
  <2>1. s' \in Screen /\ s'.phase \notin Busy
    BY <1>2 DEF Screen, Phase, Busy
  <2>2. chain' \in 0..MaxOwed
    BY <1>2, EmitChains DEF Types
  <2>3. ghost' \in Stints
    BY <1>2 DEF Types, Shapes, Stints
  <2> QED BY <2>1, <2>2, <2>3
          DEF Types, TypeOK, Shapes, Stints, TakeIsCounted, Outside, Screen
<1> QED BY <1>1, <1>2 DEF AfterEpisode

\* A step that leaves the stint's numbers alone, and no phase of a take.
LEMMA MovesTypes ==
  ASSUME Types, UNCHANGED <<Outside, ghost>>, s' \in Screen,
         s'.phase \in Busy => s'.episode > 0, Quiet \/ Reports
  PROVE  Types'
<1>1. chain' \in 0..MaxOwed
  BY ReportsChains DEF Types, TypeOK, Quiet
<1> QED BY <1>1 DEF Types, TypeOK, Shapes, TakeIsCounted, Outside, Screen

LEMMA PressTypes == ASSUME Types, Press PROVE Types'
<1> s \in Screen /\ TakeIsCounted /\ MaxEpisode \in Nat /\ ghost.landed \in Nat
  BY BoundsAssumption DEF Types, TypeOK, Screen
<1>1. CASE StartCheck
  BY <1>1, MovesTypes DEF StartCheck, Screen, Phase, Busy
<1>2. CASE Fault
  <2>1. s' \in Screen /\ s'.phase \notin Busy
    BY <1>2 DEF Fault, Goes, Screen, Phase, Busy, Held
  <2> QED BY <1>2, <2>1, MovesTypes DEF Fault, Goes, Outside
<1>3. CASE ChecklistPass
  <2>1. s' \in Screen /\ s'.phase \notin Busy
    BY <1>3 DEF ChecklistPass, Screen, Phase, Busy
  <2> QED BY <1>3, <2>1, MovesTypes DEF ChecklistPass
<1>4. CASE StartEpisode
  <2>2. PICK n \in 1..MaxEpisode : n = s.episode + 1
    BY <1>4 DEF StartEpisode, Screen
  <2>3. s' = [s EXCEPT !.phase = "recording", !.episode = n]
    BY <1>4, <2>2 DEF StartEpisode
  <2>4. s' \in Screen /\ s'.episode > 0
    <3> "recording" \in Phase /\ n \in 0..MaxEpisode /\ n > 0
      BY DEF Phase, Held, Busy
    <3> QED BY ONLY <2>3, s \in Screen, "recording" \in Phase, n \in 0..MaxEpisode, n > 0 DEF Screen
  <2> QED BY <1>4, <2>4, MovesTypes DEF StartEpisode
<1>5. CASE Save
  <2>1. s' \in Screen /\ s'.episode > 0
    BY <1>5 DEF Save, Goes, TakeIsCounted, Screen, Phase, Busy, Held
  <2> QED BY <1>5, <2>1, MovesTypes DEF Save, Goes
<1>6. CASE Discard
  <2>1. [s EXCEPT !.episode = @ - 1] \in Screen
    BY <1>6 DEF Discard, TakeIsCounted, Screen, Busy
  <2>2. Take("episode_discarded").event # "stint_ended"
    BY DEF Take
  <2> QED BY <1>6, <2>1, <2>2, AfterEpisodeTypes DEF Discard
<1>7. CASE Score
  <2>1. Take("episode_saved").event # "stint_ended"
    BY DEF Take
  <2> QED BY <1>7, <2>1, AfterEpisodeTypes DEF Score
<1>8. CASE Issue
  <2>1. s' \in Screen /\ s'.phase \notin Busy
    BY <1>8 DEF Issue, Goes, Screen, Phase, Busy, Held
  <2> QED BY <1>8, <2>1, MovesTypes DEF Issue, Goes, Outside
<1> QED BY <1>1, <1>2, <1>3, <1>4, <1>5, <1>6, <1>7, <1>8 DEF Press

LEMMA FrameTypes == ASSUME Types, Frame PROVE Types'
<1> s \in Screen /\ TakeIsCounted /\ MaxEpisode \in Nat /\ now \in Nat
  BY BoundsAssumption DEF Types, TypeOK, Screen
<1> UNCHANGED Outside
  BY DEF Frame
<1>1. CASE Wakes
  <2>1. PICK turn \in Turn : turn = Current /\ Key(turn) \in TurnKey
    BY CurrentIsATurn DEF Types
  <2>2. PICK phase \in {"handover", "checklist"} :
          phase = IF s.checked THEN "handover" ELSE "checklist"
    OBVIOUS
  <2>3. s' = [BeginStint(s, turn) EXCEPT !.phase = phase]
    BY <1>1, <2>1, <2>2 DEF Wakes
  <2>4. s' \in Screen /\ s'.phase \notin Busy
    <3>1. PICK b \in Screen : b = BeginStint(s, turn)
      <4> 0 \in 0..MaxEpisode
        OBVIOUS
      <4> QED BY <2>1 DEF BeginStint, Screen
    <3>2. s' = [b EXCEPT !.phase = phase]
      BY <2>3, <3>1
    <3> QED BY <3>2 DEF Screen, Phase, Busy
  <2>5. ghost' \in Stints
    BY <1>1, <2>1, FreshShape DEF Wakes
  <2> QED BY <1>1, <2>4, <2>5
          DEF Wakes, Quiet, Types, TypeOK, Shapes, Stints, TakeIsCounted, Outside, Screen
<1>2. CASE Rests
  BY <1>2, RelievesTypes DEF Rests, Before
<1>3. CASE RestFallsDue \/ HandoverFallsDue
  <2>1. s' \in Screen /\ s'.episode = s.episode /\ s'.phase = s.phase
    BY <1>3 DEF RestFallsDue, HandoverFallsDue, Screen
  <2> QED BY <1>3, <2>1, MovesTypes
          DEF RestFallsDue, HandoverFallsDue, TakeIsCounted
<1>4. CASE Rotates
  BY <1>4, RelievesTypes DEF Rotates, Before
<1> QED BY <1>1, <1>2, <1>3, <1>4 DEF Frame

\* The page comes up typed, on the sheet it was given or on none.
LEMMA BootTypes ==
  ASSUME Types, NEW x \in Sheet \cup {NoSheet}, Boot(x),
         spent' \in [reloads : Nat, serves : Nat]
  PROVE  Types'
<1> now \in Nat /\ saved.episode \in 0..MaxEpisode /\ 0 \in 0..MaxEpisode
  BY BoundsAssumption DEF Types, TypeOK
<1>1. PICK turn \in Turn : turn = On(x, now) /\ Key(turn) \in TurnKey
  BY OnIsATurn
<1>2. PICK n \in 0..MaxEpisode : n = IF Resumes(x, turn) THEN saved.episode ELSE 0
  OBVIOUS
<1>3. s' = [Zero(turn) EXCEPT !.episode = n]
  BY <1>1, <1>2 DEF Boot
<1>4. s' \in Screen /\ s'.phase \notin Busy
  BY <1>1, <1>3, ZeroShape DEF Screen
<1>5. chain' \in 0..MaxOwed
  <2>1. Owed(1) \in 1..MaxOwed /\ Owed(2) \in 1..MaxOwed
    BY OwedShape
  <2> QED BY <2>1 DEF Boot
<1>6. ghost' \in Stints
  <2>1. PICK cut \in BOOLEAN : cut = (ghost.cut \/ ~Settled)
    OBVIOUS
  <2>2. PICK fresh \in Stints : fresh = FreshStint(turn)
    BY <1>1, FreshShape
  <2>3. ghost' \in {[ghost EXCEPT !.cut = cut],
                    [fresh EXCEPT !.swapped = ghost.swapped, !.cut = cut]}
    BY <1>1, <2>1, <2>2 DEF Boot
  <2> QED BY <2>3 DEF Types, Shapes, Stints
<1> QED BY <1>4, <1>5, <1>6
        DEF Boot, Types, TypeOK, Shapes, Stints, TakeIsCounted, Screen

LEMMA StepTypes == ASSUME Types, [Next]_vars PROVE Types'
<1> s \in Screen /\ MaxEpisode \in Nat /\ now \in Nat
  BY BoundsAssumption DEF Types, TypeOK, Screen
<1>1. CASE Press
  BY <1>1, PressTypes
<1>2. CASE Frame
  BY <1>2, FrameTypes
<1>3. CASE Restart
  <2>1. PICK turn \in Turn : turn = Current /\ Key(turn) \in TurnKey
    BY CurrentIsATurn DEF Types
  <2>2. s' \in Screen /\ s'.phase \notin Busy
    BY <1>3, <2>1, ZeroShape DEF Restart
  <2>3. ghost' \in Stints
    BY <1>3, <2>1, FreshShape DEF Restart
  <2>4. chain' \in 0..MaxOwed
    BY <1>3, ReportsChains DEF Restart, Types
  <2> QED BY <1>3, <2>2, <2>3, <2>4
          DEF Restart, Types, TypeOK, Shapes, Stints, TakeIsCounted, Outside, Screen
<1>4. CASE ResyncAsks
  BY <1>4 DEF ResyncAsks, Types, TypeOK, Shapes, TakeIsCounted
<1>5. CASE ResyncAnswered \/ ResyncFails
  <2>1. CASE Keeps
    BY <1>5, <2>1
    DEF ResyncAnswered, ResyncFails, Keeps, Types, TypeOK, Shapes, TakeIsCounted
  <2>2. CASE ~Unwanted(asking.answer) /\ Applies(asking.answer)
    <3>1. asking.answer \in Sheet
      BY <1>5, <2>2 DEF ResyncAnswered, ResyncFails, Unwanted, Types, TypeOK
    <3>2. PICK key \in TurnKey : key = Key(On(asking.answer, now))
      BY <3>1, OnIsATurn
    <3>3. s' = [s EXCEPT !.turnKey = key]
      BY <2>2, <3>2 DEF Applies
    <3>4. s' \in Screen /\ s'.phase = s.phase /\ s'.episode = s.episode
      BY <3>3 DEF Screen
    <3>5. ghost' \in Stints
      BY <2>2 DEF Applies, Types, Shapes, Stints
    <3> QED BY <1>5, <2>2, <3>1, <3>4, <3>5
            DEF ResyncAnswered, ResyncFails, Applies, Types, TypeOK, Shapes,
                TakeIsCounted, Screen
  <2> QED BY <1>5, <2>1, <2>2 DEF ResyncAnswered, ResyncFails
<1>6. CASE Reload
  <2>1. spent' \in [reloads : Nat, serves : Nat]
    BY <1>6 DEF Reload, Types, Shapes
  <2>2. \E x \in Sheet \cup {NoSheet} : Boot(x)
    BY <1>6 DEF Reload, Types, TypeOK
  <2> QED BY <2>1, <2>2, BootTypes DEF Boot
<1>7. CASE ClockMoves
  BY <1>7, BoundsAssumption DEF ClockMoves, Types, TypeOK, Shapes, TakeIsCounted
<1>8. CASE Serves
  BY <1>8 DEF Serves, Types, TypeOK, Shapes, TakeIsCounted
<1>9. CASE CheckpointWritten
  <2>1. chain' \in 0..MaxOwed
    BY <1>9, BoundsAssumption DEF CheckpointWritten, Types, TypeOK
  <2>2. saved' \in Rows
    BY <1>9, RecordShape DEF CheckpointWritten, Types
  <2> QED BY <1>9, <2>1, <2>2
          DEF CheckpointWritten, Types, TypeOK, Shapes, Rows, TakeIsCounted
<1>10. CASE UNCHANGED vars
  BY <1>10 DEF vars, Types, TypeOK, Shapes, TakeIsCounted
<1> QED BY <1>1, <1>2, <1>3, <1>4, <1>5, <1>6, <1>7, <1>8, <1>9, <1>10 DEF Next

LEMMA InitTypes == ASSUME Init PROVE Types
<1>1. now \in 0..MaxNow /\ now \in Nat /\ sheet \in Sheet \cup {NoSheet}
      /\ served = sheet
  BY BoundsAssumption DEF Init
<1>2. PICK turn \in Turn : turn = Current /\ Key(turn) \in TurnKey
  BY <1>1, OnIsATurn DEF Current
<1>3. s \in Screen /\ s.phase \notin Busy
  BY <1>2, ZeroShape DEF Init
<1>4. ghost \in Stints
  BY <1>1, <1>2, FreshShape DEF Init
<1>5. saved \in Rows
  BY BoundsAssumption DEF Init, NoStint, Rows, TurnKey
<1>6. chain \in 0..MaxOwed
  <2>1. Owed(1) \in 1..MaxOwed
    BY OwedShape
  <2> QED BY <2>1 DEF Init
<1>7. saved.turnKey \in TurnKey /\ saved.episode \in 0..MaxEpisode
  BY <1>5 DEF Rows
<1> QED BY <1>1, <1>3, <1>4, <1>5, <1>6, <1>7
        DEF Init, Types, TypeOK, Shapes, Stints, TakeIsCounted, Screen

LEMMA TypesHold == Spec => []Types
BY InitTypes, StepTypes, PTL DEF Spec

\* Whatever the sheets, the operator and the clock do, every variable keeps
\* its shape; in particular no count of takes ever goes below none, which a
\* take taken away twice would make it (onDiscard and beginStint of rig.js).
THEOREM TypeCorrect == Spec => []TypeOK
<1> Types => TypeOK
  BY DEF Types
<1> QED BY TypesHold, PTL

-----------------------------------------------------------------------------
\* The stint that is running, and what a step files of it.

\* Something is on the chain: of the disk there is nothing to say.
LEMMA Unsettled ==
  ASSUME chain' \in 1..MaxOwed
  PROVE  SavedCounts' /\ SavedIsRight'
<1> ~Settled'
  BY BoundsAssumption DEF Settled
<1> QED BY DEF SavedCounts, SavedIsRight

\* A stint of nobody, or of who is on now, that has no takes yet.
LEMMA FreshIsRight ==
  ASSUME TypeOK, UNCHANGED <<now, sheet>>, ghost' = FreshStint(Current),
         s'.episode = 0, s'.turnKey = Key(Current), s'.phase \notin Busy
  PROVE  CountIsRight'
<1>1. ghost'.landed = 0 /\ ghost'.key[1] = Day(now) /\ ghost'.key[2] = Key(Current)
  BY DEF FreshStint
<1>2. Key(Current) # Nobody => sheet # NoSheet /\ sheet.day = Day(now)
  BY CurrentIsATurn DEF Key
<1> QED BY <1>1, <1>2 DEF CountIsRight

LEMMA RelievesStint ==
  ASSUME Types, UNCHANGED Outside, NEW r \in Screen, NEW n, NEW before,
         NEW phase \in {"standby", "handover"}, Before(before),
         Relieves(r, n, before, phase)
  PROVE  StintInv'
<1>1. /\ s'.phase = phase /\ s'.episode = 0 /\ s'.turnKey = Key(Current)
      /\ ghost' = FreshStint(Current) /\ UNCHANGED <<now, sheet>>
  BY DEF Relieves, BeginStint, Outside, Screen
<1>2. CountIsRight' /\ s'.phase \notin Busy
  BY <1>1, FreshIsRight DEF Types, Busy
<1>3. SavedCounts' /\ SavedIsRight'
  BY RelievesChains, Unsettled DEF Types
<1>4. RestIsEmpty'
  BY <1>1 DEF RestIsEmpty
<1> QED BY <1>2, <1>3, <1>4 DEF StintInv

\* The block that ends a stint comes last, with the count of its takes.
LEMMA RelievesFiles ==
  ASSUME NEW r, NEW n, NEW before, NEW phase, Relieves(r, n, before, phase),
         Before(before), ~Marked => r.episode = n
  PROVE  StintCountsItsTakes' /\ BlockAfterItsTakes'
<1> DEFINE end == Block(r, n)
<1>1. /\ end.event = "stint_ended"
      /\ end.episodes = end.landed \/ end.swapped \/ end.cut
  BY DEF Block, Marked
<1>2. filed' = Append(before, end)
  BY DEF Relieves, Emit
<1> HIDE DEF end
<1>3. CASE before = <<>>
  <2>1. filed' = <<end>>
    BY <1>2, <1>3
  <2> QED BY <1>1, <2>1 DEF StintCountsItsTakes, BlockAfterItsTakes
<1>4. CASE \E take : before = <<take>> /\ take.event # "stint_ended"
  <2>1. PICK take : before = <<take>> /\ take.event # "stint_ended"
    BY <1>4
  <2>2. <<take>> \in Seq({take, end}) /\ Len(<<take>>) = 1 /\ <<take>>[1] = take
    OBVIOUS
  <2>3. DOMAIN filed' = {1, 2} /\ filed'[1] = take /\ filed'[2] = end /\ Len(filed') = 2
    BY <1>2, <2>1, <2>2, AppendProperties
  <2> QED BY <1>1, <2>1, <2>3 DEF StintCountsItsTakes, BlockAfterItsTakes
<1> QED BY <1>3, <1>4 DEF Before

\* A step that files nothing, or one event that ends no stint.
LEMMA FilesNoBlock ==
  ASSUME filed' = <<>> \/ \E e : filed' = <<e>> /\ e.event # "stint_ended"
  PROVE  StintCountsItsTakes' /\ BlockAfterItsTakes'
<1>1. \A i \in DOMAIN filed' : filed'[i].event # "stint_ended"
  OBVIOUS
<1> QED BY <1>1 DEF StintCountsItsTakes, BlockAfterItsTakes

FiledIsRight == StintCountsItsTakes /\ BlockAfterItsTakes

\* A take is filed: the stint has it now, and nothing in flight.
LEMMA AfterEpisodeStint ==
  ASSUME Types, StintInv, UNCHANGED Outside, NEW r \in Screen, NEW n \in Nat, NEW take,
         AfterEpisode(r, n, take), take.event # "stint_ended",
         ~Marked => r.episode = n,
         r.turnKey = s.turnKey
  PROVE  StintInv' /\ FiledIsRight'
<1>1. CASE \E phase \in {"standby", "handover"} : Relieves(r, n, <<take>>, phase)
  <2>1. PICK phase \in {"standby", "handover"} : Relieves(r, n, <<take>>, phase)
    BY <1>1
  <2> QED BY <2>1, RelievesStint, RelievesFiles DEF FiledIsRight, Before
<1>2. CASE /\ s' = [r EXCEPT !.phase = "resetting"]
           /\ Emit(<<take>>)
           /\ ghost' = [ghost EXCEPT !.landed = n]
  <2>1. /\ s'.phase = "resetting" /\ s'.episode = r.episode /\ s'.turnKey = s.turnKey
        /\ ghost'.landed = n /\ ghost'.key = ghost.key
        /\ ghost'.swapped = ghost.swapped /\ ghost'.cut = ghost.cut
        /\ UNCHANGED <<now, sheet>> /\ filed' = <<take>>
    BY <1>2 DEF Emit, Outside, Screen, Types, Shapes, Stints
  <2>2. CountIsRight' /\ s'.phase \notin Busy
    <3> n + 0 = n
      OBVIOUS
    <3> QED BY <2>1 DEF StintInv, CountIsRight, Marked, Busy
  <2>3. SavedCounts' /\ SavedIsRight'
    <3> Len(<<take>>) \in Nat \ {0}
      OBVIOUS
    <3> QED BY <1>2, EmitChains, Unsettled DEF Types
  <2>4. RestIsEmpty'
    BY <2>1 DEF RestIsEmpty
  <2> QED BY <2>1, <2>2, <2>3, <2>4, FilesNoBlock DEF StintInv, FiledIsRight
<1> QED BY <1>1, <1>2 DEF AfterEpisode

\* A step that changes the screen and not the stint.
LEMMA MovesStint ==
  ASSUME Types, StintInv, UNCHANGED <<Outside, ghost>>, RestIsEmpty',
         s'.episode = s.episode, s'.turnKey = s.turnKey,
         s'.phase \in Busy <=> s.phase \in Busy, Quiet \/ Reports
  PROVE  StintInv'
<1>1. CountIsRight'
  BY DEF StintInv, CountIsRight, Marked, Outside
<1>2. SavedCounts' /\ SavedIsRight'
  <2>1. CASE Quiet
    BY <2>1 DEF Quiet, StintInv, SavedCounts, SavedIsRight, Settled, Marked, OfTheStint,
                Outside
  <2>2. CASE Reports
    BY <2>2, ReportsChains, Unsettled DEF Types
  <2> QED BY <2>1, <2>2
<1> QED BY <1>1, <1>2 DEF StintInv

LEMMA PressStint ==
  ASSUME Types, StintInv, Press
  PROVE  StintInv' /\ FiledIsRight'
<1> s \in Screen /\ ghost.landed \in Nat
  BY DEF Types, TypeOK, Screen
<1> USE DEF FiledIsRight
<1>1. CASE StartCheck
  <2>1. /\ s' = [s EXCEPT !.phase = "checklist", !.fromStandby = TRUE]
        /\ s.phase = "standby" /\ UNCHANGED <<ghost, Outside>> /\ Quiet
    BY <1>1 DEF StartCheck
  <2>2. RestIsEmpty'
    BY <2>1 DEF StintInv, RestIsEmpty, Screen
  <2>3. StintInv'
    BY <2>1, <2>2, MovesStint DEF Screen, Busy
  <2> QED BY <2>1, <2>3, FilesNoBlock DEF Quiet
<1>2. CASE Fault
  <2>1. /\ \E phase \in {"checklist", "fault_class", "fault_fixing"} :
             s' = [s EXCEPT !.phase = phase]
        /\ s.phase \in {"checklist", "fault_class", "fault_fixing"}
        /\ UNCHANGED <<ghost, Outside>>
        /\ Quiet \/ Reports
    BY <1>2 DEF Fault, Goes
  <2>2. RestIsEmpty'
    BY <2>1 DEF StintInv, RestIsEmpty, Screen
  <2>3. StintInv'
    BY <2>1, <2>2, MovesStint DEF Screen, Busy
  <2> QED BY <2>1, <2>3, FilesNoBlock DEF Quiet, Reports
<1>3. CASE ChecklistPass
  <2>1. /\ s'.phase = IF s.fromStandby /\ Current = Nobody THEN "standby" ELSE "handover"
        /\ s'.episode = s.episode /\ s'.turnKey = s.turnKey
        /\ s.phase = "checklist"
        /\ Reports
        /\ UNCHANGED <<ghost, Outside>>
    BY <1>3 DEF ChecklistPass, Screen
  <2>2. RestIsEmpty'
    BY <2>1 DEF StintInv, RestIsEmpty
  <2>3. StintInv'
    BY <2>1, <2>2, MovesStint DEF Busy
  <2> QED BY <2>1, <2>3, FilesNoBlock DEF Reports
<1>4. CASE StartEpisode
  <2>1. /\ s'.phase = "recording" /\ s'.episode = s.episode + 1
        /\ s'.turnKey = s.turnKey /\ s.phase \notin Busy
        /\ UNCHANGED <<ghost, Outside, chain>> /\ filed' = <<>>
    BY <1>4 DEF StartEpisode, Quiet, Screen, Busy
  <2>2. CountIsRight'
    <3> s.episode \in Nat
      BY BoundsAssumption DEF Screen
    <3> QED BY <2>1 DEF StintInv, CountIsRight, Marked, Outside, Busy
  <2>3. SavedCounts'
    <3> s.episode \in Nat /\ saved.episode \in Nat
      BY BoundsAssumption DEF Screen, Types, TypeOK
    <3> QED BY <2>1 DEF StintInv, SavedCounts, Settled, Outside, Busy
  <2>4. SavedIsRight' /\ RestIsEmpty'
    BY <2>1 DEF StintInv, SavedIsRight, Settled, Marked, OfTheStint, RestIsEmpty, Outside
  <2> QED BY <2>1, <2>2, <2>3, <2>4, FilesNoBlock DEF StintInv
<1>5. CASE Save
  <2>1. /\ s' = [s EXCEPT !.phase = "review"] /\ s.phase = "recording"
        /\ UNCHANGED <<ghost, Outside>> /\ Quiet
    BY <1>5 DEF Save, Goes
  <2>2. RestIsEmpty'
    BY <2>1 DEF RestIsEmpty, Screen
  <2>3. StintInv'
    BY <2>1, <2>2, MovesStint DEF Screen, Busy
  <2> QED BY <2>1, <2>3, FilesNoBlock DEF Quiet
<1>6. CASE Discard
  <2>1. [s EXCEPT !.episode = @ - 1] \in Screen
    BY <1>6, BoundsAssumption DEF Discard, Types, TakeIsCounted, Screen, Busy
  <2>2. ~Marked => s.episode = ghost.landed + 1
    BY <1>6 DEF Discard, StintInv, CountIsRight, Busy
  <2>3. PICK r \in Screen : r = [s EXCEPT !.episode = @ - 1]
    BY <2>1
  <2>4. r.turnKey = s.turnKey /\ (~Marked => r.episode = ghost.landed)
    BY <2>2, <2>3, BoundsAssumption DEF Screen
  <2>5. PICK take : take = Take("episode_discarded")
    OBVIOUS
  <2>6. take.event # "stint_ended"
    BY <2>5 DEF Take
  <2> QED BY <1>6, <2>3, <2>4, <2>5, <2>6, AfterEpisodeStint DEF Discard
<1>7. CASE Score
  <2>1. ~Marked => s.episode = ghost.landed + 1
    BY <1>7 DEF Score, StintInv, CountIsRight, Busy
  <2>2. PICK take : take = Take("episode_saved")
    OBVIOUS
  <2>3. take.event # "stint_ended"
    BY <2>2 DEF Take
  <2> QED BY <1>7, <2>1, <2>2, <2>3, AfterEpisodeStint DEF Score
<1>8. CASE Issue
  <2>1. /\ \E phase \in {"issue_menu", "rig_down", "resetting", "session_ended"} :
             s' = [s EXCEPT !.phase = phase]
        /\ s.phase \in {"handover", "resetting", "issue_menu", "rig_down"}
        /\ UNCHANGED <<ghost, Outside>>
        /\ Quiet \/ Reports
    BY <1>8 DEF Issue, Goes
  <2>2. RestIsEmpty'
    BY <2>1 DEF RestIsEmpty, Screen
  <2>3. StintInv'
    BY <2>1, <2>2, MovesStint DEF Screen, Busy
  <2> QED BY <2>1, <2>3, FilesNoBlock DEF Quiet, Reports
<1> QED BY <1>1, <1>2, <1>3, <1>4, <1>5, <1>6, <1>7, <1>8 DEF Press

LEMMA FrameStint ==
  ASSUME Types, StintInv, Frame
  PROVE  StintInv' /\ FiledIsRight'
<1> s \in Screen /\ UNCHANGED Outside /\ ghost.landed \in Nat
  BY DEF Types, TypeOK, Screen, Frame
<1> USE DEF FiledIsRight
<1>1. CASE Wakes
  <2>1. /\ s'.episode = 0 /\ s'.turnKey = Key(Current) /\ s'.phase \notin Busy
        /\ s'.phase # "standby" /\ s.phase = "standby"
        /\ ghost' = FreshStint(Current) /\ filed' = <<>>
        /\ UNCHANGED <<now, sheet, saved, chain>>
    BY <1>1 DEF Wakes, BeginStint, Quiet, Outside, Screen, Busy
  <2>2. CountIsRight'
    BY <2>1, FreshIsRight DEF Types
  <2>3. Settled => saved.episode = 0
    <3> saved.episode \in Nat
      BY BoundsAssumption DEF Types, TypeOK
    <3> QED BY <2>1 DEF StintInv, RestIsEmpty, SavedCounts, Busy
  <2>4. SavedCounts' /\ SavedIsRight' /\ RestIsEmpty'
    BY <2>1, <2>3 DEF SavedCounts, SavedIsRight, Settled, RestIsEmpty, StintInv
  <2> QED BY <2>1, <2>2, <2>4, FilesNoBlock DEF StintInv
<1>2. CASE \E phase \in {"standby", "handover"} :
              s.phase \notin Busy /\ Relieves(s, ghost.landed, <<>>, phase)
  <2>1. PICK phase \in {"standby", "handover"} :
              s.phase \notin Busy /\ Relieves(s, ghost.landed, <<>>, phase)
    BY <1>2
  <2>2. ~Marked => s.episode = ghost.landed
    BY <2>1 DEF StintInv, CountIsRight
  <2>3. Before(<<>>)
    BY DEF Before
  <2> QED BY <2>1, <2>2, <2>3, RelievesStint, RelievesFiles
<1>3. CASE RestFallsDue \/ HandoverFallsDue
  <2>1. /\ s'.phase = s.phase /\ s'.episode = s.episode /\ s'.turnKey = s.turnKey
        /\ s.phase \in Busy
        /\ UNCHANGED <<ghost, Outside>> /\ Quiet
    BY <1>3 DEF RestFallsDue, HandoverFallsDue, Screen
  <2>2. RestIsEmpty'
    BY <2>1 DEF RestIsEmpty, Busy
  <2>3. StintInv'
    BY <2>1, <2>2, MovesStint
  <2> QED BY <2>1, <2>3, FilesNoBlock DEF Quiet
<1> QED BY <1>1, <1>2, <1>3 DEF Frame, Rests, Rotates

\* The disk has the stint of the turn in progress or nothing of it.
LEMMA BootStint ==
  ASSUME Types, StintInv, NEW x \in Sheet \cup {NoSheet}, Boot(x)
  PROVE  StintInv' /\ FiledIsRight'
<1>1. now \in Nat /\ ghost.key \in Nat \X TurnKey /\ ghost.landed \in Nat
  BY BoundsAssumption DEF Types, TypeOK, Shapes, Stints
<1>2. PICK turn : turn = On(x, now)
  OBVIOUS
<1>3. turn # Nobody => Key(turn) # Nobody /\ x # NoSheet /\ x.day = Day(now)
  BY <1>1, <1>2, OnIsATurn
<1>4. /\ s'.phase = IF turn = Nobody THEN "standby" ELSE "checklist"
      /\ s'.turnKey = Key(turn) /\ ~s'.fromStandby
      /\ s'.episode = IF Resumes(x, turn) THEN saved.episode ELSE 0
      /\ sheet' = x /\ now' = now /\ filed' = <<>>
  BY <1>2 DEF Boot, Zero
<1>5. SavedCounts' /\ SavedIsRight'
  <2>1. Owed(1) \in 1..MaxOwed /\ Owed(2) \in 1..MaxOwed
    BY OwedShape
  <2>2. chain' \in 1..MaxOwed
    BY <2>1 DEF Boot
  <2> QED BY <2>2, Unsettled
<1>6. RestIsEmpty' /\ s'.phase \notin Busy
  BY <1>4 DEF RestIsEmpty, Resumes, Busy
<1>7. ASSUME ~Marked'
      PROVE  Settled /\ ~Marked
  BY <1>7 DEF Boot, Marked, FreshStint, Types, Shapes, Stints
<1>8. ASSUME Settled, ~Marked
      PROVE  saved.episode = ghost.landed
  <2> saved.episode \in Nat
    BY BoundsAssumption DEF Types, TypeOK
  <2> QED BY <1>1, <1>8 DEF StintInv, SavedCounts, CountIsRight
<1>9. CASE turn # Nobody /\ ghost.key = <<Day(now), Key(turn)>>
  <2>1. ghost'.landed = ghost.landed /\ ghost'.key = ghost.key
    BY <1>2, <1>9 DEF Boot, Types, Shapes, Stints
  <2>2. Resumes(x, turn) <=> OfTheStint
    BY <1>3, <1>9 DEF Resumes, OfTheStint
  <2>3. ghost.key[2] # Nobody
    BY <1>3, <1>9
  <2>4. ASSUME ~Marked'
        PROVE  s'.episode = ghost.landed
    BY <1>4, <1>7, <1>8, <2>2, <2>3, <2>4 DEF StintInv, SavedIsRight
  <2>5. CountIsRight'
    BY <1>1, <1>3, <1>4, <1>6, <1>9, <2>1, <2>4 DEF CountIsRight
  <2> QED BY <1>4, <1>5, <1>6, <2>5, FilesNoBlock DEF StintInv, FiledIsRight
<1>10. CASE ~(turn # Nobody /\ ghost.key = <<Day(now), Key(turn)>>)
  <2>1. /\ ghost'.landed = 0
        /\ ghost'.key[1] = Day(now) /\ ghost'.key[2] = Key(turn)
    BY <1>2, <1>10 DEF Boot, FreshStint
  <2>2. ASSUME ~Marked', Resumes(x, turn)
        PROVE  saved.episode = 0
    <3>1. saved.turnKey = Key(turn) /\ Key(turn) # Nobody /\ turn # Nobody
          /\ saved.day = Day(now)
      BY <1>3, <2>2 DEF Resumes
    <3>2. ~OfTheStint
      <4> SUFFICES ASSUME ghost.key[1] = Day(now), ghost.key[2] = Key(turn)
                   PROVE  FALSE
        BY <3>1 DEF OfTheStint
      <4> ghost.key = <<Day(now), Key(turn)>>
        BY <1>1
      <4> QED BY <1>10, <3>1
    <3> QED BY <1>7, <2>2, <3>1, <3>2 DEF StintInv, SavedIsRight
  <2>3. ~Marked' => s'.episode = 0
    BY <1>4, <2>2
  <2>4. CountIsRight'
    <3> Key(turn) # Nobody => turn # Nobody
      BY DEF Key
    <3> QED BY <1>3, <1>4, <1>6, <2>1, <2>3 DEF CountIsRight
  <2> QED BY <1>4, <1>5, <1>6, <2>4, FilesNoBlock DEF StintInv, FiledIsRight
<1> QED BY <1>9, <1>10

\* A checkpoint written now is the stint that is running, the take in flight
\* with it: level only between takes.
LEMMA WrittenStint ==
  ASSUME Types, StintInv, CheckpointWritten
  PROVE  StintInv' /\ FiledIsRight'
<1>1. UNCHANGED <<now, s, sheet, ghost>> /\ saved' = StintRecord /\ filed' = <<>>
  BY DEF CheckpointWritten
<1>2. CountIsRight' /\ RestIsEmpty'
  BY <1>1 DEF StintInv, CountIsRight, RestIsEmpty, Marked
<1>3. Settled' => s.phase \notin Busy
  BY <1>1 DEF Settled, StintRecord
<1>4. SavedCounts'
  <2> s.episode \in Nat
    BY BoundsAssumption DEF Types, TypeOK
  <2> QED BY <1>1, <1>3 DEF SavedCounts, StintRecord
<1>5. SavedIsRight'
  BY <1>1, <1>3 DEF SavedIsRight, StintInv, CountIsRight, OfTheStint, StintRecord, Marked
<1> QED BY <1>1, <1>2, <1>4, <1>5, FilesNoBlock DEF StintInv, FiledIsRight

LEMMA StepStint ==
  ASSUME Types, StintInv, [Next]_vars, FiledIsRight
  PROVE  StintInv' /\ FiledIsRight'
<1> now \in Nat /\ s \in Screen /\ ghost.landed \in Nat
  BY BoundsAssumption DEF Types, TypeOK, Screen
<1>1. CASE Press
  BY <1>1, PressStint
<1>2. CASE Frame
  BY <1>2, FrameStint
<1>3. CASE Restart
  <2>1. /\ s'.episode = 0 /\ s'.turnKey = Key(Current)
        /\ s'.phase \in {"standby", "checklist"} /\ ~s'.fromStandby
        /\ ghost' = FreshStint(Current) /\ UNCHANGED <<now, sheet>>
        /\ Reports
    BY <1>3 DEF Restart, Zero, Outside
  <2>2. CountIsRight' /\ s'.phase \notin Busy
    BY <2>1, FreshIsRight DEF Types, Busy
  <2>3. SavedCounts' /\ SavedIsRight'
    BY <2>1, ReportsChains, Unsettled DEF Types
  <2>4. RestIsEmpty'
    BY <2>1 DEF RestIsEmpty
  <2> QED BY <2>1, <2>2, <2>3, <2>4, FilesNoBlock DEF StintInv, FiledIsRight, Reports
<1>4. CASE \/ ResyncAsks \/ ClockMoves \/ Serves
           \/ (ResyncAnswered \/ ResyncFails) /\ Keeps
  <2>1. UNCHANGED <<s, sheet, chain, saved, ghost>> /\ filed' = <<>>
    BY <1>4 DEF ResyncAsks, ClockMoves, Serves, ResyncAnswered, ResyncFails, Keeps
  <2> QED BY <2>1, FilesNoBlock
          DEF StintInv, RestIsEmpty, CountIsRight, SavedCounts, SavedIsRight, Settled,
              Marked, OfTheStint, FiledIsRight
<1>5. CASE ResyncAnswered /\ Applies(asking.answer)
  <2>1. /\ ghost'.swapped /\ UNCHANGED <<chain, saved>> /\ s'.phase = s.phase
        /\ s'.episode = s.episode /\ s'.fromStandby = s.fromStandby
        /\ filed' = <<>>
    BY <1>5 DEF ResyncAnswered, Applies, Types, Shapes, Stints, Screen
  <2> QED BY <2>1, FilesNoBlock
          DEF StintInv, RestIsEmpty, CountIsRight, SavedCounts, SavedIsRight, Settled,
              Marked, FiledIsRight
<1>6. CASE Reload
  <2>1. \E x \in Sheet \cup {NoSheet} : Boot(x)
    BY <1>6 DEF Reload, Types, TypeOK
  <2> QED BY <2>1, BootStint
<1>7. CASE CheckpointWritten
  BY <1>7, WrittenStint
<1>8. CASE UNCHANGED vars
  BY <1>8 DEF vars, StintInv, RestIsEmpty, CountIsRight, SavedCounts, SavedIsRight,
              Settled, Marked, OfTheStint, FiledIsRight, StintCountsItsTakes,
              BlockAfterItsTakes
<1> QED BY <1>1, <1>2, <1>3, <1>4, <1>5, <1>6, <1>7, <1>8
        DEF Next, ResyncAnswered, ResyncFails

LEMMA InitStint == ASSUME Init PROVE StintInv /\ FiledIsRight
<1>1. Types
  BY InitTypes
<1>2. /\ s.episode = 0 /\ s.turnKey = Key(Current) /\ ~s.fromStandby
      /\ s.phase \in {"standby", "checklist"} /\ ~Settled
      /\ ghost.landed = 0 /\ ghost.key[1] = Day(now) /\ ghost.key[2] = Key(Current)
  BY DEF Init, Zero, FreshStint, NoStint, Settled
<1>3. Key(Current) # Nobody => sheet # NoSheet /\ sheet.day = Day(now)
  BY <1>1, CurrentIsATurn DEF Types, Key
<1>4. StintInv
  BY <1>2, <1>3
  DEF StintInv, RestIsEmpty, CountIsRight, SavedCounts, SavedIsRight, Busy
<1>5. FiledIsRight
  BY DEF Init, FiledIsRight, StintCountsItsTakes, BlockAfterItsTakes
<1> QED BY <1>4, <1>5

LEMMA StintHolds == Spec => [](StintInv /\ FiledIsRight)
BY InitStint, StepStint, TypesHold, PTL DEF Spec

\* For every set of sheets and any presses, swaps and reloads, and however
\* late the journal chain gets to a checkpoint: the block that ends a stint
\* carries the number of takes the ledger has of that stint, unless a schedule
\* was swapped under it or a reload fell before the disk was level (endStint,
\* onDiscard, resumeStint and checkpointStint of rig.js).  What makes it
\* inductive is what a settled disk has: the running count less the take in
\* flight, and that of the running stint or of one with no takes.
THEOREM CountsHold == Spec => []StintCountsItsTakes
<1> FiledIsRight => StintCountsItsTakes
  BY DEF FiledIsRight
<1> QED BY StintHolds, PTL

\* A take that held a boundary up is in the ledger before the block it belongs
\* to, in the same step (afterEpisode of rig.js).
THEOREM BlocksComeLast == Spec => []BlockAfterItsTakes
<1> FiledIsRight => BlockAfterItsTakes
  BY DEF FiledIsRight
<1> QED BY StintHolds, PTL

\* A held screen is left by a pedal or a reload: no other action moves a rig off it.
LEMMA StepLeaves ==
  ASSUME Types, Next, s.phase \in Held, s'.phase # s.phase
  PROVE  Press \/ Reload
<1> s \in Screen
  BY DEF Types, TypeOK, Screen
<1>1. /\ ~Restart /\ ~ResyncAsks /\ ~ResyncFails /\ ~ClockMoves /\ ~Serves
      /\ ~CheckpointWritten
  BY DEF CheckpointWritten, Restart, ResyncAsks, ResyncFails, Keeps, ClockMoves, Serves, Held, Busy
<1>2. ~ResyncAnswered
  BY DEF ResyncAnswered, Keeps, Applies, Screen
<1>3. ~Frame
  BY DEF Frame, Wakes, Rests, ShiftIsOver, RestsFrom, RestFallsDue, Rotates, Boundary,
         HandoverFallsDue, NeverRotates, Held, Busy, Screen
<1> QED BY <1>1, <1>2, <1>3 DEF Next

\* The screens that are somebody's to leave are left by who is there (see the
\* lemma above): SESSION-RULES I1 and I6, for every schedule.
THEOREM OnlyPressesLeave == Spec => PressOnly
<1>1. Types /\ [Next]_vars =>
        [s.phase \in Held /\ s'.phase # s.phase => Press \/ Reload]_vars
  BY StepLeaves
<1> QED BY <1>1, TypesHold, PTL DEF Spec, PressOnly
=============================================================================
