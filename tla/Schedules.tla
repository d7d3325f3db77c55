---------------------------- MODULE Schedules ----------------------------
(* What the desks push and what the floor is served of it: the push route  *)
(* of services/rigs/routes.py, core/workflows/schedules.py, the windows of *)
(* core/rules/floor.py and the readers over them: the rigs, the desk's     *)
(* board, My Shift and the desk that opens on the last roster; and of one  *)
(* of the rigs the resync of apps/rig/assets/rig.js, which decides what of *)
(* it the rig takes.                                                       *)
(*                                                                         *)
(* Time is counted in turns; a shift has TurnsPerShift of them and a day   *)
(* three shifts.  The clock of the service counts in UTC and the sheets in *)
(* the floor's zone, which is Offset turns ahead of it.  Who sits where is *)
(* decided by the desk alone: a push takes its sheet out of Sheet.         *)
EXTENDS Integers, FiniteSets

CONSTANTS
    Rig, Person, Nobody,    \* Nobody: a turn that names no person
    Here,                   \* the rig whose screen is followed
    Seat,                   \* the seat of each: who covers for another has theirs
    Sheet,                  \* what a desk may write down for a date
    TurnsPerShift, Offset,
    Days,                   \* bound: the dates pushed are 1..Days
    Horizon,                \* bound: the last instant
    MaxPushes               \* bound

Label == {"Night", "Morning", "Day"}
Turn == 1..TurnsPerShift
PerDay == 3 * TurnsPerShift
Date == 1..Days

ASSUME ZoneAssumption ==
    /\ TurnsPerShift \in Nat \ {0} /\ Days \in Nat \ {0} /\ Horizon \in Nat
    /\ Offset \in Int /\ -PerDay < Offset /\ Offset < PerDay
    /\ PerDay - Offset <= Horizon
ASSUME FloorAssumption == Here \in Rig /\ MaxPushes \in Nat
ASSUME SeatAssumption == DOMAIN Seat = Person \cup {Nobody}
ASSUME SheetAssumption ==
    /\ Nobody \notin Person
    /\ Sheet \subseteq [Label -> [Rig -> [Turn -> Person \cup {Nobody}]]]
    \* the engine puts nobody on two rigs at once
    /\ \A s \in Sheet, l \in Label, t \in Turn, r1, r2 \in Rig :
          r1 # r2 /\ s[l][r1][t] = s[l][r2][t] => s[l][r1][t] = Nobody

VARIABLES
    now,        \* the instant, on the service's clock
    rows,       \* the schedules table, one row to a rig and a shift of a push
    pushes,     \* the audit rows: schedule_pushes
    underway,   \* pushes that have their time and are not committed
    stamps,     \* pushes begun so far; a later one has a later pushed_at
    screen,     \* what Here is doing: see Screen
    asked,      \* the row on its way to Here, one or none
    held        \* the row Here took its sheet from last, one or none

rigVars == <<screen, asked, held>>
vars == <<now, rows, pushes, underway, stamps, rigVars>>

(* Standby and the end of a session; a take and its review; all the rest.  *)
Screen == {"rest", "take", "work"}

Row == [rig : Rig, date : Date, label : Label, at : 1..MaxPushes,
        turns : [Turn -> Person \cup {Nobody}]]
Push == [at : 1..MaxPushes, date : Date, sheet : Sheet]
Shift(s) == <<s.date, s.label>>

--------------------------------------------------------------------------
(* The windows that the desk wrote.  payload_zone: every sheet carries the *)
(* floor's zone.  The Day shift ends with its date.                        *)

Start(s) ==
    PerDay * s.date - Offset
        + CASE s.label = "Night" -> 0
            [] s.label = "Morning" -> TurnsPerShift
            [] s.label = "Day" -> 2 * TurnsPerShift
End(s) == Start(s) + TurnsPerShift
Covers(s) == Start(s) <= now /\ now < End(s)

(* turn_bounds, turn_in_progress: who is on under this sheet, if anybody.  *)
TurnFrom(s, t) == Start(s) + t - 1
InProgress(s) == {t \in Turn : TurnFrom(s, t) <= now /\ now < TurnFrom(s, t) + 1}
OnUnder(s) == {s.turns[t] : t \in InProgress(s)} \ {Nobody}

--------------------------------------------------------------------------
(* Which row a query gives.  ORDER BY pushed_at leaves the rows of a push  *)
(* tied, and the database returns the tied in any order: a set of rows     *)
(* stands for those it may return first.                                   *)

\* Mutation: the query has no order.
Newest_AnyOrder(some) == some
Newest(some) == {s \in some : \A x \in some : x.at <= s.at}

(* Yesterday, today and tomorrow, on the date of UTC.                      *)
Today == now \div PerDay
Near(some) == {s \in some : Today - 1 <= s.date /\ s.date <= Today + 1}

(* _nearest: the next shift to start, or the one that ended last; min and  *)
(* max keep the first they meet, and so the newest version of it.          *)
\* Mutation: whichever row came first.
Nearest_FirstRow(some) == Newest(some)
Nearest(some) ==
    LET upcoming == {s \in some : Start(s) > now}
        next == {s \in upcoming : \A x \in upcoming : Start(s) <= Start(x)}
        last == {s \in some : \A x \in some : End(x) <= End(s)}
    IN  Newest(IF upcoming # {} THEN next ELSE last)

(* in_force: what covers now, the newest push of it; else the nearest; and *)
(* on a floor with nothing about today whatever it was last pushed.        *)
RowsOf(r) == {s \in rows : s.rig = r}
InForce(r) ==
    LET recent == Near(RowsOf(r))
        covering == {s \in recent : Covers(s)}
    IN  IF covering # {} THEN Newest(covering)
        ELSE IF recent # {} THEN Nearest(recent)
        ELSE Newest(RowsOf(r))

(* floor_state: who the board puts on a rig.                               *)
Board(r) == UNION {OnUnder(s) : s \in InForce(r)}

(* turns_for_operator: of each shift of each rig the latest version, of    *)
(* those the ones that name p, and of those one shift on every rig.        *)
\* Mutation: a push again doubles the day.
Latest_EveryVersion(some) == some
Latest(some) ==
    {s \in some : \A x \in some : x.rig = s.rig /\ Shift(x) = Shift(s) => x.at <= s.at}
Names(s, p) == \E t \in Turn : s.turns[t] = p
Naming(p) == {s \in Latest(Near(rows)) : Names(s, p)}
MyShift(p) ==
    LET covering == {s \in Naming(p) : Covers(s)}
        chosen == {Shift(s) : s \in IF covering # {} THEN covering ELSE Nearest(Naming(p))}
    IN  {s \in Naming(p) : Shift(s) \in chosen}
(* The rigs where the turn that My Shift counts down is theirs now.        *)
MyRigs(p) == {s.rig : s \in {x \in MyShift(p) : p \in OnUnder(x)}}

(* roster: the newest push, whether or not it is of today.                 *)
Roster == Newest(pushes)

--------------------------------------------------------------------------
(* push: the time is taken first and every rig's every shift goes in with  *)
(* the audit row, in one commit; two desks may overlap.  A push with a     *)
(* payload that cannot be filed, or a shift twice, is refused whole, and   *)
(* one whose process or database fails leaves nothing.                     *)

PushBegins(d, sheet) ==
    /\ stamps < MaxPushes
    /\ stamps' = stamps + 1
    /\ underway' = underway \cup {[at |-> stamps + 1, date |-> d, sheet |-> sheet]}
    /\ UNCHANGED <<now, rows, pushes, rigVars>>

\* Mutation: a payload that cannot be filed is left out, and the rest goes in.
Filed_Some(p) == {s \in Row : /\ s.date = p.date /\ s.at = p.at
                              /\ s.turns = p.sheet[s.label][s.rig]
                              /\ s.turns # [t \in Turn |-> Nobody]}
Filed(p) == {[rig |-> r, date |-> p.date, label |-> l, at |-> p.at,
              turns |-> p.sheet[l][r]] : r \in Rig, l \in Label}

PushCommits(p) ==
    /\ p \in underway
    /\ underway' = underway \ {p}
    /\ rows' = rows \cup Filed(p)
    /\ pushes' = pushes \cup {p}
    /\ UNCHANGED <<now, stamps, rigVars>>

PushFails(p) ==
    /\ p \in underway
    /\ underway' = underway \ {p}
    /\ UNCHANGED <<now, rows, pushes, stamps, rigVars>>

--------------------------------------------------------------------------
(* The rig.  Its operator moves it between its screens at any time; a take *)
(* needs a sheet.                                                          *)

ScreenMoves ==
    /\ screen' \in (IF held = {} THEN Screen \ {"take"} ELSE Screen) \ {screen}
    /\ UNCHANGED <<now, rows, pushes, underway, stamps, asked, held>>

(* GET schedule.json, one at a time and never during a take.               *)
Asks ==
    /\ asked = {} /\ screen # "take"
    /\ \E s \in InForce(Here) : asked' = {s}
    /\ UNCHANGED <<now, rows, pushes, underway, stamps, screen, held>>

(* pushId: a sheet is another when its shift is or the seat of one of its  *)
(* turns, whoever sits there.  No person is a seat of its own.             *)
\* Mutation: a sheet is its shift, and a corrected one is the same sheet.
SameSheetAs_Shift(s, h) == Shift(s) = Shift(h)
SameSheetAs(s, h) ==
    Shift(s) = Shift(h) /\ \A t \in Turn : Seat[s.turns[t]] = Seat[h.turns[t]]

(* whoIsOn: by the time of day alone.  A turn that names no person may be  *)
(* one of a plain name, or no turn at all: both are possible.              *)
AtThisTime(s) == {t \in Turn : (now - TurnFrom(s, t)) % PerDay = 0}
MayBeEmpty(s) == \A t \in AtThisTime(s) : s.turns[t] = Nobody
MayBeTaken(s) == AtThisTime(s) # {}

(* The rest of resync, when the answer comes: not the sheet it has, and    *)
(* not one that leaves a working rig with nobody.                          *)
Keeps(s) ==
    \/ \E h \in held : SameSheetAs(s, h)
    \/ held # {} /\ screen # "rest" /\ MayBeEmpty(s)
Applies(s) ==
    /\ ~ \E h \in held : SameSheetAs(s, h)
    /\ held = {} \/ screen = "rest" \/ MayBeTaken(s)
Answered ==
    /\ \E s \in asked : (Keeps(s) /\ held' = held) \/ (Applies(s) /\ held' = {s})
    /\ asked' = {}
    /\ UNCHANGED <<now, rows, pushes, underway, stamps, screen>>

(* The request fails: the rig works on with the sheet it has.              *)
NotAnswered ==
    /\ asked # {} /\ asked' = {}
    /\ UNCHANGED <<now, rows, pushes, underway, stamps, screen, held>>

--------------------------------------------------------------------------
ClockMoves ==
    /\ now < Horizon
    /\ now' = now + 1
    /\ UNCHANGED <<rows, pushes, underway, stamps, rigVars>>

--------------------------------------------------------------------------
Init ==
    /\ now = PerDay - Offset
    /\ rows = {} /\ pushes = {} /\ underway = {} /\ stamps = 0
    /\ screen = "rest" /\ asked = {} /\ held = {}

Next ==
    \/ \E d \in Date, sheet \in Sheet : PushBegins(d, sheet)
    \/ \E p \in underway : PushCommits(p) \/ PushFails(p)
    \/ ScreenMoves \/ Asks \/ Answered \/ NotAnswered
    \/ ClockMoves

Spec == Init /\ [][Next]_vars

--------------------------------------------------------------------------
TypeOK ==
    /\ now \in Int /\ now <= Horizon /\ stamps \in 0..MaxPushes
    /\ rows \subseteq Row /\ pushes \cup underway \subseteq Push
    /\ \A p, q \in pushes \cup underway : p.at = q.at => p = q
    /\ screen \in Screen /\ asked \cup held \subseteq RowsOf(Here)
    /\ \A s, x \in asked : s = x
    /\ \A s, x \in held : s = x
    \* a push is in the table whole, and its record with it
    /\ {s.at : s \in rows} = {p.at : p \in pushes}
    /\ \A p \in pushes : {<<s.rig, s.label>> : s \in {x \in rows : x.at = p.at}} = Rig \X Label

(* Rigs that were pushed together are served the same shift of the same    *)
(* push, whatever order the database returns the tied rows in, as long as  *)
(* anything is about today.                                                *)
SameSheet == Near(rows) # {} =>
    \A r1, r2 \in Rig : \A s \in InForce(r1), x \in InForce(r2) :
        Shift(s) = Shift(x) /\ s.at = x.at

(* The board and My Shift agree: a person is on a rig on the one exactly   *)
(* when the other shows them their turn there, after any correction.       *)
BoardAndPersonAgree == \A p \in Person : MyRigs(p) = {r \in Rig : p \in Board(r)}

(* A shift never goes back to an older version, in whatever order the      *)
(* pushes of two desks commit.                                             *)
NeverGoesBack == [][\A r \in Rig : \A s \in InForce(r), x \in InForce(r)' :
    Shift(s) = Shift(x) => s.at <= x.at]_vars

(* A rig that goes on being answered, whatever of it is lost and whatever  *)
(* its operator does meanwhile, comes to have the seats on it that the     *)
(* board has, once the pushing is over and for as long as a turn of        *)
(* somebody's lasts.  (The seats: somebody else in the same one it does    *)
(* not notice.)                                                            *)
StaysInTouch == []<><<Answered>>_vars
OnScreen == UNION {OnUnder(h) : h \in held}
Seats(some) == {Seat[p] : p \in some}
FloorFollows == StaysInTouch =>
    <>[](Board(Here) # {} => Seats(OnScreen) = Seats(Board(Here)))
============================================================================
