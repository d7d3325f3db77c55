----------------------------- MODULE RigScreen -----------------------------
(***************************************************************************)
(* The operator screen of a rig (apps/rig/assets/rig.js): the phases, the  *)
(* pedals, the turn boundaries and rests that frames notice, the stint     *)
(* that takes are counted in, its checkpoint on disk, and the schedule     *)
(* that is fetched again while all of this goes on.                        *)
(*                                                                         *)
(* Time is counted in slots, NSlots of them a day; `from' is a slot, as    *)
(* "08:00" is: it comes round every day.  The seconds a stint accumulates  *)
(* (recorded, fault, down) are left out; its count of takes is not.  Of    *)
(* what is filed only takes and blocks are told apart, and not whose they  *)
(* are.                                                                    *)
(***************************************************************************)
EXTENDS Naturals, Sequences

CONSTANTS
  NSlots,      \* slots in a day
  Sheet,       \* the payloads the desk may push to this rig
  Nobody,      \* no turn in progress; no operator
  NoSheet,     \* nothing was ever pushed, or nobody could be asked
  MaxNow,      \* bound: the last slot
  MaxEpisode,  \* bound: S.episode
  MaxReloads,  \* bound: reloads of the page
  MaxServes,   \* bound: changes of what the service answers
  MaxOwed      \* bound: checkpoints waiting on the journal chain

ASSUME SlotsAssumption == NSlots \in Nat \ {0}
ASSUME BoundsAssumption ==
  {MaxNow, MaxEpisode, MaxReloads, MaxServes} \subseteq Nat /\ MaxOwed \in Nat \ {0}
ASSUME NoSheetAssumption == NoSheet \notin Sheet
ASSUME NobodyAssumption == Nobody \notin 0..(NSlots - 1)

\* A payload: its date, and slot by slot the turn or nobody.
ASSUME SheetAssumption ==
  \A x \in Sheet : /\ x.day \in Nat
                   /\ DOMAIN x.turn = 0..(NSlots - 1)
                   /\ \A k \in DOMAIN x.turn :
                        x.turn[k] # Nobody =>
                          /\ DOMAIN x.turn[k] = {"from", "seat", "person"}
                          /\ x.turn[k].from \in 0..k

VARIABLES
  now,     \* the wall clock
  s,       \* S and turnKey: what a reload forgets
  sheet,   \* PAYLOAD
  served,  \* what the service would answer
  asking,  \* resync's request: none, or the answer on its way
  chain,   \* the checkpoints on the journal chain that are not written yet
  saved,   \* the stint on disk; observed: its `level', see Settled
  filed,   \* the takes and the blocks the last step filed, in order
  spent,   \* what has been used of the bounds
  ghost    \* of the stint: its saved takes, its turn; a sheet swapped under it,
           \* a reload that fell before the disk was level with it

vars == <<now, s, sheet, served, asking, chain, saved, filed, spent, ghost>>

-----------------------------------------------------------------------------
\* Who is on.

Day(n) == n \div NSlots

\* The engine's whoIsOn: the time of day and nothing else.
WhoIsOn(x, n) == x.turn[n % NSlots]

\* current(): nobody outside the window the desk wrote.
On(x, n) == IF x = NoSheet \/ x.day # Day(n) THEN Nobody ELSE WhoIsOn(x, n)

Current == On(sheet, now)

Key(turn) == IF turn = Nobody THEN Nobody ELSE turn.from

\* pushId: the date, and each turn's from and seat.
PushId(x) ==
  IF x = NoSheet THEN NoSheet
  ELSE [day  |-> x.day,
        turn |-> [k \in DOMAIN x.turn |->
                    IF x.turn[k] = Nobody THEN Nobody
                    ELSE <<x.turn[k].from, x.turn[k].seat>>]]

-----------------------------------------------------------------------------
\* A take is in flight.
Busy == {"recording", "review"}

\* The screens that are somebody's to leave and not the clock's.
Held == Busy \cup {"fault_class", "fault_fixing", "issue_menu", "rig_down"}

\* Mutation: the loop's own last screen is left out.
RestsFrom_NotResetting == {"handover"} \cup Busy

RestsFrom == {"handover", "resetting"} \cup Busy

NeverRotates == {"rig_down", "issue_menu", "fault_fixing", "fault_class"}

\* A disk that has no row of this rig.
NoStint == [day |-> NoSheet, turnKey |-> Nobody, episode |-> 0, level |-> FALSE]

\* stintRecord: S as it stands when the chain gets to it, the take in flight
\* included.
StintRecord ==
  [day |-> IF sheet = NoSheet THEN NoSheet ELSE sheet.day,
   turnKey |-> s.turnKey, episode |-> s.episode, level |-> s.phase \notin Busy]

\* Observed: what was filed last has its checkpoint on disk, and that was not
\* written in the middle of the take that is still in flight.
Settled == chain = 0 /\ saved.level

BeginStint(r, turn) ==
  [r EXCEPT !.turnKey = Key(turn), !.stintWho = turn, !.episode = 0,
            !.handoverDue = FALSE, !.restDue = FALSE]

FreshStint(turn) ==
  [landed |-> 0, key |-> <<Day(now), Key(turn)>>, swapped |-> FALSE, cut |-> FALSE]

\* What is over the bound is written in one go with the rest.
Owed(n) == IF n > MaxOwed THEN MaxOwed ELSE n

\* emit: each event, and behind it on the journal chain a checkpoint.
Emit(events) == filed' = events /\ chain' = Owed(chain + Len(events))

\* emit, when the event is neither a take nor a block.
Reports == filed' = <<>> /\ chain' = Owed(chain + 1)

Quiet == filed' = <<>> /\ UNCHANGED chain

Take(event) == [event |-> event]

Block(r, n) ==
  [event |-> "stint_ended", episodes |-> r.episode, landed |-> n,
   swapped |-> ghost.swapped, cut |-> ghost.cut]

\* endStint, beginStint and the screen after them, when the stint stands at
\* r and the ledger has n takes of it.
Relieves(r, n, before, phase) ==
  /\ s' = [BeginStint(r, Current) EXCEPT !.phase = phase,
                                         !.checked = @ /\ phase # "standby"]
  /\ Emit(Append(before, Block(r, n)))
  /\ ghost' = FreshStint(Current)

-----------------------------------------------------------------------------
\* Pedals: dispatch, an intent at a time.

Outside == <<now, sheet, served, asking, saved, spent>>

\* A pedal that moves the screen and no more.
Goes(from, to) ==
  /\ s.phase \in from
  /\ s' = [s EXCEPT !.phase = to]
  /\ UNCHANGED ghost

StartCheck ==
  /\ s.phase = "standby"
  /\ s' = [s EXCEPT !.phase = "checklist", !.fromStandby = TRUE]
  /\ Quiet
  /\ UNCHANGED <<ghost, Outside>>

\* report_fault, fault_left | middle | right, back, fixed and cancel.
Fault ==
  /\ \/ Goes({"checklist"}, "fault_class") /\ Quiet
     \/ Goes({"fault_class"}, "fault_fixing") /\ Reports
     \/ Goes({"fault_fixing"}, "fault_class") /\ Reports
     \/ Goes({"fault_fixing"}, "checklist") /\ Reports
  /\ UNCHANGED Outside

\* An early check goes back to Standby, if nobody is due yet.
ChecklistPass ==
  LET early == s.fromStandby /\ Current = Nobody IN
  /\ s.phase = "checklist"
  /\ s' = [s EXCEPT !.checked = TRUE, !.fromStandby = FALSE,
                    !.phase = IF early THEN "standby" ELSE "handover"]
  /\ Reports
  /\ UNCHANGED <<ghost, Outside>>

StartEpisode ==
  /\ s.phase \in {"handover", "resetting"}
  /\ s.episode < MaxEpisode
  /\ s' = [s EXCEPT !.phase = "recording", !.episode = @ + 1]
  /\ Quiet
  /\ UNCHANGED <<ghost, Outside>>

Save == Goes({"recording"}, "review") /\ Quiet /\ UNCHANGED Outside

\* Mutation: the boundary is forgotten once the take has landed.
AfterEpisode_Stays(r, n, take) ==
  /\ s' = [r EXCEPT !.phase = "resetting"]
  /\ Emit(<<take>>)
  /\ ghost' = [ghost EXCEPT !.landed = n]

\* Mutation: the stint is ended first and the take filed after it.
AfterEpisode_TakeLast(r, n, take) ==
  \/ /\ r.restDue \/ r.handoverDue
     /\ s' = [BeginStint(r, Current) EXCEPT
                !.phase = IF r.restDue THEN "standby" ELSE "handover",
                !.checked = @ /\ ~r.restDue]
     /\ Emit(<<Block(r, n), take>>)
     /\ ghost' = FreshStint(Current)
  \/ /\ ~r.restDue /\ ~r.handoverDue
     /\ s' = [r EXCEPT !.phase = "resetting"]
     /\ Emit(<<take>>)
     /\ ghost' = [ghost EXCEPT !.landed = n]

\* afterEpisode, the take filed: a rest that is due comes before a handover.
AfterEpisode(r, n, take) ==
  \/ r.restDue /\ Relieves(r, n, <<take>>, "standby")
  \/ ~r.restDue /\ r.handoverDue /\ Relieves(r, n, <<take>>, "handover")
  \/ /\ ~r.restDue /\ ~r.handoverDue
     /\ s' = [r EXCEPT !.phase = "resetting"]
     /\ Emit(<<take>>)
     /\ ghost' = [ghost EXCEPT !.landed = n]

\* Mutation: a second press takes the same take away again.
Discard_Twice ==
  /\ s.phase \in {"recording", "resetting"}
  /\ AfterEpisode([s EXCEPT !.episode = @ - 1], ghost.landed,
                  Take("episode_discarded"))
  /\ UNCHANGED Outside

Discard ==
  /\ s.phase = "recording"
  /\ AfterEpisode([s EXCEPT !.episode = @ - 1], ghost.landed,
                  Take("episode_discarded"))
  /\ UNCHANGED Outside

Score ==
  /\ s.phase = "review"
  /\ AfterEpisode(s, ghost.landed + 1, Take("episode_saved"))
  /\ UNCHANGED Outside

\* The issue tree is walked without leaving its screen.
Issue ==
  /\ \/ Goes({"handover", "resetting"}, "issue_menu") /\ Quiet
     \/ Goes({"issue_menu"}, "rig_down") /\ Reports
     \/ Goes({"rig_down"}, "resetting") /\ Reports
     \/ Goes({"rig_down"}, "session_ended") /\ Reports
  /\ UNCHANGED Outside

Press ==
  \/ StartCheck \/ Fault \/ ChecklistPass
  \/ StartEpisode \/ Save \/ Discard \/ Score
  \/ Issue

-----------------------------------------------------------------------------
\* tick: what a frame notices of the schedule, one thing at most.

Wakes ==
  /\ s.phase = "standby" /\ Current # Nobody
  /\ s' = [BeginStint(s, Current) EXCEPT
             !.phase = IF s.checked THEN "handover" ELSE "checklist"]
  /\ Quiet
  /\ ghost' = FreshStint(Current)

ShiftIsOver == Current = Nobody /\ s.phase \in RestsFrom

Rests == ShiftIsOver /\ s.phase \notin Busy /\ Relieves(s, ghost.landed, <<>>, "standby")

RestFallsDue ==
  /\ ShiftIsOver /\ s.phase \in Busy
  /\ s' = [s EXCEPT !.restDue = TRUE]
  /\ Quiet
  /\ UNCHANGED ghost

\* A turn other than the one the rig believes in.
Boundary ==
  /\ s.phase \notin {"standby", "session_ended"}
  /\ Current # Nobody /\ Current.from # s.turnKey
  /\ ~s.handoverDue

\* Mutation: a rig that is down is handed over as any other.
Rotates_WhateverTheScreen ==
  /\ Boundary /\ s.phase \notin Busy
  /\ Relieves(s, ghost.landed, <<>>, "handover")

Rotates ==
  /\ Boundary /\ s.phase \notin Busy \cup NeverRotates
  /\ Relieves(s, ghost.landed, <<>>, "handover")

HandoverFallsDue ==
  /\ Boundary /\ s.phase \in Busy
  /\ s' = [s EXCEPT !.handoverDue = TRUE]
  /\ Quiet
  /\ UNCHANGED ghost

Frame ==
  /\ Wakes \/ Rests \/ RestFallsDue \/ Rotates \/ HandoverFallsDue
  /\ UNCHANGED Outside

-----------------------------------------------------------------------------
\* resync.

\* Not while a take is in flight, and one request at a time.
ResyncAsks ==
  /\ asking = Nobody
  /\ s.phase \notin Busy
  /\ asking' = [answer |-> served]
  /\ filed' = <<>>
  /\ UNCHANGED <<now, s, sheet, served, chain, saved, spent, ghost>>

\* Mutation: the flag is left set when the sheet is not taken.
Keeps_Busy == sheet' = sheet /\ UNCHANGED <<s, asking, ghost>>

Keeps == sheet' = sheet /\ asking' = Nobody /\ UNCHANGED <<s, ghost>>

\* The answer is the same schedule, or would strand a working operator.
Unwanted(next) ==
  \/ next = NoSheet
  \/ PushId(next) = PushId(sheet)
  \/ /\ sheet # NoSheet /\ s.phase \notin {"standby", "session_ended"}
     /\ WhoIsOn(next, now) = Nobody

\* applyPayload and syncTurnKey, whatever the rig is doing by now.
Applies(next) ==
  /\ sheet' = next
  /\ asking' = Nobody
  /\ s' = [s EXCEPT !.turnKey = Key(On(next, now))]
  /\ ghost' = [ghost EXCEPT !.swapped = TRUE]

ResyncAnswered ==
  /\ asking # Nobody
  /\ \/ Unwanted(asking.answer) /\ Keeps
     \/ ~Unwanted(asking.answer) /\ Applies(asking.answer)
  /\ filed' = <<>>
  /\ UNCHANGED <<now, served, chain, saved, spent>>

\* No answer, or none that can be read.
ResyncFails ==
  /\ asking # Nobody
  /\ Keeps
  /\ filed' = <<>>
  /\ UNCHANGED <<now, served, chain, saved, spent>>

-----------------------------------------------------------------------------
\* The journal chain, one write after another.

\* It may never come: onJournal goes on past a write that fails, and the row
\* stays as it would be if the write were still on its way.
CheckpointWritten ==
  /\ chain > 0
  /\ chain' = chain - 1
  /\ saved' = StintRecord
  /\ filed' = <<>>
  /\ UNCHANGED <<now, s, sheet, served, asking, spent, ghost>>

-----------------------------------------------------------------------------
\* boot, and what start does around it.

Zero(turn) ==
  [phase |-> IF turn = Nobody THEN "standby" ELSE "checklist",
   turnKey |-> Key(turn), stintWho |-> turn, episode |-> 0,
   handoverDue |-> FALSE, restDue |-> FALSE, checked |-> FALSE, fromStandby |-> FALSE]

\* Mutation: the shift alone, whoever's turn of it.
Resumes_AnyTurn(x, turn) == turn # Nobody /\ saved.day = x.day

\* resumeStint: the same turn of the same shift.
Resumes(x, turn) ==
  turn # Nobody /\ saved.turnKey = Key(turn) /\ saved.day = x.day

\* The page comes up with sheet x: a check is raised, the stint of the turn
\* in progress is picked up where the disk has it, and checkpointed again.
\* Whatever was on the chain went with the page.  (After a swap the disk may
\* have the takes of one turn under the key of another: the ghost of such a
\* stint stays marked.)
Boot(x) ==
  LET turn == On(x, now)
      cut == ghost.cut \/ ~Settled
      resumed == Resumes(x, turn)
  IN
  /\ sheet' = x
  /\ s' = [Zero(turn) EXCEPT !.episode = IF resumed THEN saved.episode ELSE 0]
  /\ filed' = <<>>
  /\ chain' = Owed(IF resumed THEN 2 ELSE 1)
  /\ asking' = Nobody
  /\ ghost' = IF ghost.key = <<Day(now), Key(turn)>> /\ turn # Nobody
              THEN [ghost EXCEPT !.cut = cut]
              ELSE [FreshStint(turn) EXCEPT !.swapped = ghost.swapped, !.cut = cut]
  /\ UNCHANGED <<now, served, saved>>

Reload ==
  /\ spent.reloads < MaxReloads
  /\ \E x \in {served, NoSheet} : Boot(x)
  /\ spent' = [spent EXCEPT !.reloads = @ + 1]

\* The restart pedal: boot, on the payload in hand.
Restart ==
  /\ s.phase = "session_ended"
  /\ s' = Zero(Current)
  /\ Reports
  /\ ghost' = FreshStint(Current)
  /\ UNCHANGED Outside

-----------------------------------------------------------------------------
\* The world: a slot begins, and the service comes to answer otherwise - a
\* push, or its own clock choosing the next shift.

ClockMoves ==
  /\ now < MaxNow
  /\ now' = now + 1
  /\ filed' = <<>>
  /\ UNCHANGED <<s, sheet, served, asking, chain, saved, spent, ghost>>

Serves ==
  /\ spent.serves < MaxServes
  /\ served' \in Sheet \ {served}
  /\ spent' = [spent EXCEPT !.serves = @ + 1]
  /\ filed' = <<>>
  /\ UNCHANGED <<now, s, sheet, asking, chain, saved, ghost>>

Init ==
  /\ now = 0
  /\ served \in Sheet \cup {NoSheet}
  /\ sheet = served
  /\ s = Zero(Current)
  /\ asking = Nobody
  /\ filed = <<>>
  /\ chain = Owed(1)
  /\ saved = NoStint
  /\ spent = [reloads |-> 0, serves |-> 0]
  /\ ghost = FreshStint(Current)

Next ==
  \/ Press \/ Restart
  \/ Frame
  \/ ResyncAsks \/ ResyncAnswered \/ ResyncFails
  \/ CheckpointWritten
  \/ Reload
  \/ ClockMoves \/ Serves

Spec == Init /\ [][Next]_vars

\* Frames come sixty a second and nobody outruns them for ever; the resync
\* timer is set again after every request, and the service is not out of
\* reach for ever.  Nobody has to press anything.
FairSpec ==
  /\ Spec
  /\ SF_vars(Frame)
  /\ SF_vars(ResyncAsks) /\ SF_vars(ResyncAnswered)

-----------------------------------------------------------------------------
\* Properties.

Phase == Held \cup {"standby", "checklist", "handover", "resetting", "session_ended"}

Turn == {x.turn[k] : x \in Sheet, k \in 0..(NSlots - 1)} \cup {Nobody}
TurnKey == 0..(NSlots - 1) \cup {Nobody}

\* Types; the count of takes never goes below none.
TypeOK ==
  /\ now \in 0..MaxNow
  /\ s \in [phase : Phase, turnKey : TurnKey, stintWho : Turn, episode : 0..MaxEpisode,
            handoverDue : BOOLEAN, restDue : BOOLEAN,
            checked : BOOLEAN, fromStandby : BOOLEAN]
  /\ {sheet, served} \subseteq Sheet \cup {NoSheet}
  /\ asking \in [answer : Sheet \cup {NoSheet}] \cup {Nobody}
  /\ chain \in 0..MaxOwed
  /\ saved.turnKey \in TurnKey /\ saved.episode \in 0..MaxEpisode
  /\ ghost.landed \in Nat

\* A take, a fault report and a rig that is down are left by the operator,
\* never by a frame, a new schedule or the clock (SESSION-RULES I1, I6).
PressOnly == [][s.phase \in Held /\ s'.phase # s.phase => Press \/ Reload]_vars

\* A stint reports exactly the takes the ledger has of it, through discards,
\* takes that outlive their turn or their shift, a journal that lags or
\* fails, and reloads picked up from the disk - unless the schedule was
\* swapped while it ran, or a reload fell before the disk was level with it.
StintCountsItsTakes ==
  \A i \in DOMAIN filed :
    filed[i].event = "stint_ended" => \/ filed[i].episodes = filed[i].landed
                                      \/ filed[i].swapped \/ filed[i].cut

\* "The running total the events do not carry, at the same moment" as the
\* events (emit), so that a reload keeps it, whenever it comes.  It does not:
\* the total is read when the chain gets to it, one write after the event,
\* and counts the take that is in flight by then.
ReloadKeepsTheCount ==
  \A i \in DOMAIN filed :
    filed[i].event = "stint_ended" => \/ filed[i].episodes = filed[i].landed
                                      \/ filed[i].swapped

\* The take that held a boundary up is filed before the block it belongs
\* to: the projection counts a block's takes among the events before it.
BlockAfterItsTakes ==
  \A i \in DOMAIN filed : filed[i].event = "stint_ended" => i = Len(filed)

\* Once the shift is over, the rig does not stay on a working screen
\* (SESSION-RULES I9), whenever its take lands or its fault is cleared.
RestsAfterShift ==
  <>[](Current = Nobody) => <>[](s.phase \notin {"handover", "resetting"})

\* A working rig ends up in the stint of whoever is on, if no schedule was
\* swapped under it: no boundary is forgotten, however long it had to wait.
WorksForWhoIsOn ==
  \A t \in Turn \ {Nobody} :
    <>[](Current = t) =>
      <>[](s.phase \in {"handover", "resetting"} => s.stintWho = t \/ ghost.swapped)

Landable(x) == served = x /\ On(x, now) # Nobody /\ s.phase \notin Busy

\* A schedule that moves a turn or a seat reaches a rig that is not in a
\* take, without a reload.
NewScheduleLands ==
  \A x \in Sheet : <>[]Landable(x) => <>[](PushId(sheet) = PushId(x))

\* "A manager who fixes a name sees it land": a schedule that puts another
\* person in the same seat reaches the rig too (rig.js above RESYNC_IDLE_MS,
\* SESSION-RULES on covers).  It does not: pushId knows seats only.
CorrectionLands == \A x \in Sheet : <>[]Landable(x) => <>[](sheet = x)

\* "The shift starting does not file a stint nobody worked" (end-of-shift
\* test).  It does when an early check is on the screen.
StintWasSomebodys ==
  [][\A i \in DOMAIN filed' :
       filed'[i].event = "stint_ended" => s.stintWho # Nobody]_vars
=============================================================================
