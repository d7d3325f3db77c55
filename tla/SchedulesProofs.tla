-------------------------- MODULE SchedulesProofs --------------------------
(* What the floor is served of the desks' pushes, for any rigs, people,    *)
(* sheets, length of a shift and zone, and any number of pushes.           *)
EXTENDS Schedules, TLAPS

(* Every row is of a committed push and has its date; and a push has the   *)
(* stamp it was given.                                                     *)
Stamped ==
    /\ \A s \in rows : \E p \in pushes : s.at = p.at /\ s.date = p.date
    /\ \A p \in pushes \cup underway : p.at <= stamps
IInv == TypeOK /\ Stamped

--------------------------------------------------------------------------
(* Windows.                                                                *)

(* The windows of a day follow one another, and so do the days.            *)
LEMMA DaysApart ==
    ASSUME NEW d \in Nat, NEW e \in Nat, d < e, NEW k \in Nat
    PROVE  k * d + k <= k * e
<1>1. PICK n \in Nat : e = d + 1 + n
  <2>1. e - d - 1 \in Nat /\ e = d + 1 + (e - d - 1)
    OBVIOUS
  <2> QED BY <2>1
<1>2. k * e = k * d + k + k * n
  BY <1>1
<1>3. k * n \in Nat /\ k * d \in Nat
  BY <1>1
<1> QED BY <1>2, <1>3

LEMMA TwoApart ==
    ASSUME NEW d \in Int, NEW e \in Int, d + 1 < e, NEW k \in Nat
    PROVE  k * d + k + k <= k * e
<1>1. PICK n \in Nat : e = d + 2 + n
  <2>1. e - d - 2 \in Nat /\ e = d + 2 + (e - d - 2)
    OBVIOUS
  <2> QED BY <2>1
<1>2. k * e = k * d + k + k + k * n
  BY <1>1
<1>3. k * n \in Nat /\ k * d \in Int
  BY <1>1
<1> QED BY <1>2, <1>3

PartOf(label) == CASE label = "Night" -> 0
                   [] label = "Morning" -> TurnsPerShift
                   [] label = "Day" -> 2 * TurnsPerShift

LEMMA StartIs ==
    ASSUME NEW s, s.date \in Date, s.label \in Label
    PROVE  /\ Start(s) = PerDay * s.date - Offset + PartOf(s.label)
           /\ Start(s) \in Int /\ End(s) = Start(s) + TurnsPerShift
           /\ PerDay * s.date \in Int /\ PerDay \in Nat
           /\ PartOf(s.label) \in {0, TurnsPerShift, 2 * TurnsPerShift}
           /\ s.label = "Night" => PartOf(s.label) = 0
           /\ s.label = "Morning" => PartOf(s.label) = TurnsPerShift
           /\ s.label = "Day" => PartOf(s.label) = 2 * TurnsPerShift
<1>1. PerDay \in Nat /\ s.date \in Nat
  BY ZoneAssumption DEF PerDay, Date
<1>2. PerDay * s.date \in Int
  BY <1>1
<1>3. /\ PartOf(s.label) \in {0, TurnsPerShift, 2 * TurnsPerShift}
      /\ s.label = "Night" => PartOf(s.label) = 0
      /\ s.label = "Morning" => PartOf(s.label) = TurnsPerShift
      /\ s.label = "Day" => PartOf(s.label) = 2 * TurnsPerShift
  BY DEF PartOf, Label
<1>4. Start(s) = PerDay * s.date - Offset + PartOf(s.label)
  BY DEF Start, PartOf
<1> QED BY <1>1, <1>2, <1>3, <1>4, ZoneAssumption DEF End

(* Two windows that start together on one date, or that have a moment in   *)
(* common, are those of one shift.                                         *)
LEMMA SameDate ==
    ASSUME NEW s, s.date \in Date, s.label \in Label,
           NEW x, x.date \in Date, x.label \in Label,
           s.date = x.date, Start(s) = Start(x)
    PROVE  Shift(s) = Shift(x)
<1>1. PartOf(s.label) = PartOf(x.label)
  BY StartIs, ZoneAssumption
<1>2. s.label = x.label
  BY <1>1, StartIs, ZoneAssumption DEF Label
<1> QED BY <1>2 DEF Shift

LEMMA OneCovers ==
    ASSUME NEW s, s.date \in Date, s.label \in Label,
           NEW x, x.date \in Date, x.label \in Label,
           now \in Int, Covers(s), Covers(x)
    PROVE  Shift(s) = Shift(x)
<1>1. /\ Start(s) <= now /\ now < Start(s) + TurnsPerShift
      /\ Start(x) <= now /\ now < Start(x) + TurnsPerShift
  BY StartIs DEF Covers
<1>2. ASSUME NEW a, a.date \in Date, a.label \in Label,
             NEW b, b.date \in Date, b.label \in Label, a.date < b.date
      PROVE  Start(a) + TurnsPerShift <= Start(b)
  <2>1. PerDay * a.date + PerDay <= PerDay * b.date
    BY <1>2, DaysApart, ZoneAssumption DEF Date, PerDay
  <2>2. PerDay = 3 * TurnsPerShift
    BY DEF PerDay
  <2> QED BY <1>2, <2>1, <2>2, StartIs, ZoneAssumption
<1>3. s.date = x.date
  <2>1. s.date \in Nat /\ x.date \in Nat
    BY ZoneAssumption DEF Date
  <2> QED BY <1>1, <1>2, <2>1, StartIs, ZoneAssumption
<1>4. s.label = x.label
  BY <1>1, <1>3, StartIs, ZoneAssumption DEF Label
<1> QED BY <1>3, <1>4 DEF Shift

(* A shift has one window.                                                 *)
LEMMA OneWindow ==
    ASSUME NEW s, NEW x, Shift(s) = Shift(x)
    PROVE  /\ s.date = x.date /\ s.label = x.label
           /\ Start(s) = Start(x) /\ End(s) = End(x) /\ (Covers(s) <=> Covers(x))
<1>1. s.date = x.date /\ s.label = x.label
  BY DEF Shift
<1>2. Start(s) = Start(x)
  BY <1>1 DEF Start
<1> QED BY <1>1, <1>2 DEF End, Covers

--------------------------------------------------------------------------
(* The table only grows, and holds whole pushes.                           *)
LEMMA Grows == [Next]_vars => rows \subseteq rows'
BY DEF Next, vars, PushBegins, PushCommits, PushFails, ScreenMoves, Asks, Answered,
   NotAnswered, ClockMoves, rigVars

LEMMA FiledIs ==
    ASSUME NEW p \in Push
    PROVE  /\ Filed(p) \subseteq Row
           /\ \A s \in Filed(p) : s.at = p.at /\ s.date = p.date
           /\ {<<s.rig, s.label>> : s \in Filed(p)} = Rig \X Label
           /\ Filed(p) # {}
<1>1. /\ p.sheet \in [Label -> [Rig -> [Turn -> Person \cup {Nobody}]]]
      /\ p.date \in Date /\ p.at \in 1..MaxPushes
  BY SheetAssumption DEF Push
<1>2. \A r \in Rig, l \in Label : p.sheet[l][r] \in [Turn -> Person \cup {Nobody}]
  BY <1>1
<1>3. Filed(p) \subseteq Row /\ \A s \in Filed(p) : s.at = p.at /\ s.date = p.date
  BY <1>1, <1>2 DEF Filed, Row
<1>a. ASSUME NEW r \in Rig, NEW l \in Label
      PROVE  \E s \in Filed(p) : s.rig = r /\ s.label = l
  <2> DEFINE row == [rig |-> r, date |-> p.date, label |-> l, at |-> p.at,
                     turns |-> p.sheet[l][r]]
  <2>1. row \in Filed(p)
    BY DEF Filed
  <2>2. row.rig = r /\ row.label = l
    OBVIOUS
  <2> HIDE DEF row
  <2> QED BY <2>1, <2>2
<1>4. {<<s.rig, s.label>> : s \in Filed(p)} = Rig \X Label
  <2>1. \A s \in Filed(p) : s.rig \in Rig /\ s.label \in Label
    BY <1>3 DEF Row
  <2> QED BY <1>a, <2>1
<1>5. Filed(p) # {}
  BY <1>a, FloorAssumption DEF Label
<1> QED BY <1>3, <1>4, <1>5

LEMMA InitInv == Init => IInv
<1> SUFFICES ASSUME Init PROVE IInv
  OBVIOUS
<1>1. PerDay \in Nat
  BY ZoneAssumption DEF PerDay
<1>2. now \in Int /\ now <= Horizon
  BY <1>1, ZoneAssumption DEF Init
<1> QED BY <1>2, FloorAssumption DEF Init, IInv, TypeOK, Stamped, Screen

LEMMA BeginsStep ==
    ASSUME IInv, NEW d \in Date, NEW sheet \in Sheet, PushBegins(d, sheet)
    PROVE  IInv'
<1> DEFINE new == [at |-> stamps + 1, date |-> d, sheet |-> sheet]
<1>1. stamps' = stamps + 1 /\ stamps' \in 0..MaxPushes /\ stamps + 1 \in 1..MaxPushes
  BY FloorAssumption DEF PushBegins, IInv, TypeOK
<1>2. new \in Push /\ new.at = stamps + 1
  BY <1>1 DEF Push
<1>3. underway' = underway \cup {new} /\ UNCHANGED <<now, rows, pushes, screen, asked, held>>
  BY DEF PushBegins, rigVars
<1> HIDE DEF new
<1>4. \A p \in pushes \cup underway : p.at \in Nat /\ p.at <= stamps
  BY DEF IInv, TypeOK, Stamped, Push
<1>5. stamps \in Nat
  BY DEF IInv, TypeOK
<1>6. \A p, q \in pushes' \cup underway' : p.at = q.at => p = q
  BY <1>2, <1>3, <1>4, <1>5 DEF IInv, TypeOK
<1>7. \A p \in pushes' \cup underway' : p.at <= stamps'
  BY <1>1, <1>2, <1>3, <1>4, <1>5
<1>8. TypeOK'
  BY <1>1, <1>2, <1>3, <1>6 DEF IInv, TypeOK, RowsOf
<1>9. Stamped'
  BY <1>3, <1>7 DEF IInv, Stamped
<1> QED BY <1>8, <1>9 DEF IInv

LEMMA CommitsStep ==
    ASSUME IInv, NEW p \in underway, PushCommits(p)
    PROVE  IInv'
<1>1. /\ underway' = underway \ {p} /\ rows' = rows \cup Filed(p)
      /\ pushes' = pushes \cup {p} /\ UNCHANGED <<now, stamps, screen, asked, held>>
  BY DEF PushCommits, rigVars
<1>2. /\ p \in Push /\ pushes \subseteq Push /\ underway \subseteq Push
      /\ \A a, b \in pushes \cup underway : a.at = b.at => a = b
      /\ {s.at : s \in rows} = {a.at : a \in pushes}
  BY DEF IInv, TypeOK
<1>3. /\ Filed(p) \subseteq Row /\ \A s \in Filed(p) : s.at = p.at /\ s.date = p.date
      /\ {<<s.rig, s.label>> : s \in Filed(p)} = Rig \X Label /\ Filed(p) # {}
  BY <1>2, FiledIs
<1>4. /\ rows' \subseteq Row /\ RowsOf(Here) \subseteq RowsOf(Here)'
      /\ pushes' \cup underway' = pushes \cup underway
  BY <1>1, <1>3 DEF IInv, TypeOK, RowsOf
<1>5. {s.at : s \in rows'} = {a.at : a \in pushes'}
  <2>1. {s.at : s \in Filed(p)} = {p.at}
    BY <1>3
  <2>2. {s.at : s \in rows'} = {s.at : s \in rows} \cup {s.at : s \in Filed(p)}
    BY <1>1
  <2>3. {a.at : a \in pushes'} = {a.at : a \in pushes} \cup {p.at}
    BY <1>1
  <2> QED BY <1>2, <2>1, <2>2, <2>3
<1>6. ASSUME NEW a \in pushes'
      PROVE  {<<s.rig, s.label>> : s \in {x \in rows' : x.at = a.at}} = Rig \X Label
  <2>1. CASE a.at = p.at /\ p \notin pushes
    <3>1. \A s \in rows : s.at # p.at
      <4> SUFFICES ASSUME NEW s \in rows, s.at = p.at PROVE FALSE
        OBVIOUS
      <4>1. PICK b \in pushes : b.at = p.at
        BY <1>2
      <4> QED BY <1>2, <2>1, <4>1
    <3>2. {x \in rows' : x.at = a.at} = Filed(p)
      BY <1>1, <1>3, <2>1, <3>1
    <3> QED BY <1>3, <3>2
  <2>2. CASE a.at = p.at /\ p \in pushes
    <3>1. {<<s.rig, s.label>> : s \in {x \in rows : x.at = p.at}} = Rig \X Label
      BY <2>2 DEF IInv, TypeOK
    <3>2. {x \in rows' : x.at = a.at} = {x \in rows : x.at = p.at} \cup Filed(p)
      BY <1>1, <1>3, <2>2
    <3> QED BY <1>3, <3>1, <3>2
  <2>3. CASE a.at # p.at
    <3>1. a \in pushes /\ {x \in rows' : x.at = a.at} = {x \in rows : x.at = a.at}
      BY <1>1, <1>3, <2>3
    <3> QED BY <3>1 DEF IInv, TypeOK
  <2> QED BY <2>1, <2>2, <2>3
<1>7. TypeOK'
  <2>1. pushes' \cup underway' \subseteq Push
    BY <1>2, <1>4
  <2>2. \A a, b \in pushes' \cup underway' : a.at = b.at => a = b
    BY <1>2, <1>4
  <2>3. now' \in Int /\ now' <= Horizon /\ stamps' \in 0..MaxPushes
    BY <1>1 DEF IInv, TypeOK
  <2>4. /\ screen' \in Screen /\ asked' \cup held' \subseteq RowsOf(Here)'
        /\ \A s, x \in asked' : s = x
        /\ \A s, x \in held' : s = x
    BY <1>1, <1>4 DEF IInv, TypeOK
  <2> QED BY <1>4, <1>5, <1>6, <2>1, <2>2, <2>3, <2>4 DEF TypeOK
<1>8. Stamped'
  <2>1. \A s \in rows' : \E a \in pushes' : s.at = a.at /\ s.date = a.date
    BY <1>1, <1>3 DEF IInv, Stamped
  <2>2. \A a \in pushes' \cup underway' : a.at <= stamps'
    BY <1>1, <1>4 DEF IInv, Stamped
  <2> QED BY <2>1, <2>2 DEF Stamped
<1> QED BY <1>7, <1>8 DEF IInv

LEMMA FailsStep ==
    ASSUME IInv, NEW p \in underway, PushFails(p)
    PROVE  IInv'
<1>1. /\ underway' = underway \ {p} /\ UNCHANGED <<now, rows, pushes, stamps, screen, asked, held>>
  BY DEF PushFails, rigVars
<1>2. TypeOK'
  BY <1>1 DEF IInv, TypeOK, RowsOf
<1>3. Stamped'
  BY <1>1 DEF IInv, Stamped
<1> QED BY <1>2, <1>3 DEF IInv

LEMMA InForceIsOf ==
    ASSUME NEW r
    PROVE  InForce(r) \subseteq RowsOf(r)
BY DEF InForce, Newest, Nearest, Near

(* Whatever the rig does, it reads the table and no more.                  *)
LEMMA RigStep ==
    ASSUME IInv, ScreenMoves \/ Asks \/ Answered \/ NotAnswered
    PROVE  IInv'
<1>1. UNCHANGED <<now, rows, pushes, underway, stamps>>
  BY DEF ScreenMoves, Asks, Answered, NotAnswered
<1>2. /\ screen \in Screen /\ asked \cup held \subseteq RowsOf(Here)
      /\ \A s, x \in asked : s = x
      /\ \A s, x \in held : s = x
  BY DEF IInv, TypeOK
<1>3. /\ screen' \in Screen /\ asked' \cup held' \subseteq RowsOf(Here)
      /\ \A s, x \in asked' : s = x
      /\ \A s, x \in held' : s = x
  <2>1. CASE ScreenMoves
    BY <1>2, <2>1 DEF ScreenMoves
  <2>2. CASE Asks
    BY <1>2, <2>2, InForceIsOf DEF Asks
  <2>3. CASE Answered
    BY <1>2, <2>3 DEF Answered
  <2>4. CASE NotAnswered
    BY <1>2, <2>4 DEF NotAnswered
  <2> QED BY <2>1, <2>2, <2>3, <2>4
<1>4. RowsOf(Here)' = RowsOf(Here)
  BY <1>1 DEF RowsOf
<1>5. TypeOK'
  BY <1>1, <1>3, <1>4 DEF IInv, TypeOK
<1>6. Stamped'
  BY <1>1 DEF IInv, Stamped
<1> QED BY <1>5, <1>6 DEF IInv

LEMMA ClockStep ==
    ASSUME IInv, ClockMoves
    PROVE  IInv'
<1>1. UNCHANGED <<rows, pushes, underway, stamps, screen, asked, held>>
  BY DEF ClockMoves, rigVars
<1>2. now' \in Int /\ now' <= Horizon
  BY ZoneAssumption DEF ClockMoves, IInv, TypeOK
<1>3. TypeOK'
  BY <1>1, <1>2 DEF IInv, TypeOK, RowsOf
<1>4. Stamped'
  BY <1>1 DEF IInv, Stamped
<1> QED BY <1>3, <1>4 DEF IInv

LEMMA Inductive == Spec => []IInv
<1>1. ASSUME IInv, [Next]_vars PROVE IInv'
  <2>1. CASE UNCHANGED vars
    <3>1. TypeOK'
      BY <1>1, <2>1 DEF vars, rigVars, IInv, TypeOK, RowsOf
    <3>2. Stamped'
      BY <1>1, <2>1 DEF vars, IInv, Stamped
    <3> QED BY <3>1, <3>2 DEF IInv
  <2> QED BY <1>1, <2>1, BeginsStep, CommitsStep, FailsStep, RigStep, ClockStep DEF Next
<1> QED BY InitInv, <1>1, PTL DEF Spec

(* The table holds whole pushes: PushCommits and what a push files.        *)
THEOREM TypeCorrect == Spec => []TypeOK
<1>1. IInv => TypeOK
  BY DEF IInv
<1> QED BY Inductive, <1>1, PTL

--------------------------------------------------------------------------
(* Versions.                                                               *)

LEMMA ServedIsNewest ==
    ASSUME NEW r, NEW s \in rows, s.rig = r, NEW x \in InForce(r), Shift(s) = Shift(x)
    PROVE  s.at <= x.at
<1> DEFINE recent == Near(RowsOf(r))
           covering == {y \in recent : Covers(y)}
           upcoming == {y \in recent : Start(y) > now}
           next == {y \in upcoming : \A z \in upcoming : Start(y) <= Start(z)}
           last == {y \in recent : \A z \in recent : End(z) <= End(y)}
<1>1. s \in RowsOf(r) /\ x \in RowsOf(r)
  BY InForceIsOf DEF RowsOf
<1>2. /\ s.date = x.date /\ Start(s) = Start(x) /\ End(s) = End(x)
      /\ Covers(s) <=> Covers(x)
  BY OneWindow
<1>3. x \in recent => s \in recent
  BY <1>1, <1>2 DEF Near
<1>4. CASE covering # {}
  <2>1. x \in Newest(covering)
    BY <1>4 DEF InForce
  <2>2. s \in covering
    BY <1>2, <1>3, <2>1 DEF Newest
  <2> QED BY <2>1, <2>2 DEF Newest
<1>5. CASE covering = {} /\ recent # {} /\ upcoming # {}
  <2>1. x \in Newest(next)
    BY <1>5 DEF InForce, Nearest
  <2> HIDE DEF recent
  <2>2. s \in next
    BY <1>2, <1>3, <2>1 DEF Newest
  <2> QED BY <2>1, <2>2 DEF Newest
<1>6. CASE covering = {} /\ recent # {} /\ upcoming = {}
  <2>1. x \in Newest(last)
    BY <1>6 DEF InForce, Nearest
  <2> HIDE DEF recent
  <2>2. s \in last
    BY <1>2, <1>3, <2>1 DEF Newest
  <2> QED BY <2>1, <2>2 DEF Newest
<1>7. CASE recent = {}
  <2>1. x \in Newest(RowsOf(r))
    BY <1>7 DEF InForce
  <2> QED BY <1>1, <2>1 DEF Newest
<1> QED BY <1>4, <1>5, <1>6, <1>7

Served == \A r \in Rig : \A s \in rows, x \in InForce(r) :
    s.rig = r /\ Shift(s) = Shift(x) => s.at <= x.at

LEMMA AlwaysServed == Served
BY ServedIsNewest DEF Served

(* in_force never serves an older version of a shift than it served        *)
(* before, whichever of two desks commits last.                            *)
THEOREM NoWayBack == Spec => NeverGoesBack
<1> DEFINE Forward == \A r \in Rig : \A s \in InForce(r), x \in InForce(r)' :
              Shift(s) = Shift(x) => s.at <= x.at
<1>1. Served' /\ [Next]_vars => [Forward]_vars
  <2> SUFFICES ASSUME Served', [Next]_vars,
                      NEW r \in Rig, NEW s \in InForce(r), NEW x \in InForce(r)',
                      Shift(s) = Shift(x)
               PROVE  s.at <= x.at
    OBVIOUS
  <2>1. s \in rows' /\ s.rig = r
    BY InForceIsOf, Grows DEF RowsOf
  <2> QED BY <2>1 DEF Served
<1> QED BY <1>1, AlwaysServed, PTL DEF Spec, NeverGoesBack

--------------------------------------------------------------------------
(* One sheet for every rig.                                                *)

(* What one rig has a row of, every rig has.                               *)
LEMMA Counterpart ==
    ASSUME IInv, NEW s \in rows, NEW r \in Rig
    PROVE  \E x \in RowsOf(r) : Shift(x) = Shift(s) /\ x.at = s.at
<1>1. PICK p \in pushes : s.at = p.at /\ s.date = p.date
  BY DEF IInv, Stamped
<1>2. s.label \in Label
  BY DEF IInv, TypeOK, Row
<1>3. PICK x \in rows : x.at = p.at /\ <<x.rig, x.label>> = <<r, s.label>>
  <2>1. {<<x.rig, x.label>> : x \in {y \in rows : y.at = p.at}} = Rig \X Label
    BY DEF IInv, TypeOK
  <2> QED BY <1>2, <2>1
<1>4. PICK q \in pushes : x.at = q.at /\ x.date = q.date
  BY DEF IInv, Stamped
<1>5. q = p
  BY <1>1, <1>3, <1>4 DEF IInv, TypeOK
<1> QED BY <1>1, <1>3, <1>4, <1>5 DEF RowsOf, Shift

(* A push is of one date.                                                  *)
LEMMA OneDate ==
    ASSUME IInv, NEW s \in rows, NEW x \in rows, s.at = x.at
    PROVE  s.date = x.date
BY DEF IInv, Stamped, TypeOK

LEMMA RowIs ==
    ASSUME IInv, NEW s \in rows
    PROVE  s.date \in Date /\ s.label \in Label /\ s.at \in Nat /\ s.rig \in Rig
           /\ Start(s) \in Int /\ End(s) = Start(s) + TurnsPerShift
BY StartIs DEF IInv, TypeOK, Row

(* What one rig is served is no later than what another one is, or starts  *)
(* no earlier, by the same rule.                                           *)
Covering(r) == {s \in Near(RowsOf(r)) : Covers(s)}
Upcoming(r) == {s \in Near(RowsOf(r)) : Start(s) > now}
NextUp(r) == {s \in Upcoming(r) : \A x \in Upcoming(r) : Start(s) <= Start(x)}
LastUp(r) == {s \in Near(RowsOf(r)) : \A x \in Near(RowsOf(r)) : End(x) <= End(s)}

LEMMA NearCounterpart ==
    ASSUME IInv, NEW r \in Rig, NEW q \in Rig, NEW s \in Near(RowsOf(r))
    PROVE  \E x \in Near(RowsOf(q)) :
              Shift(x) = Shift(s) /\ x.at = s.at /\ Start(x) = Start(s) /\ End(x) = End(s)
              /\ (Covers(x) <=> Covers(s))
<1>1. s \in rows
  BY DEF Near, RowsOf
<1>2. PICK x \in RowsOf(q) : Shift(x) = Shift(s) /\ x.at = s.at
  BY <1>1, Counterpart
<1>3. /\ x.date = s.date /\ Start(x) = Start(s) /\ End(x) = End(s)
      /\ Covers(x) <=> Covers(s)
  BY <1>2, OneWindow
<1>4. x \in Near(RowsOf(q))
  BY <1>3 DEF Near
<1> QED BY <1>2, <1>3, <1>4

(* The three rules of in_force, where anything is near.                    *)
LEMMA Rules ==
    ASSUME NEW r, Near(RowsOf(r)) # {}
    PROVE  InForce(r) = Newest(IF Covering(r) # {} THEN Covering(r)
                               ELSE IF Upcoming(r) # {} THEN NextUp(r) ELSE LastUp(r))
BY DEF InForce, Nearest, Covering, Upcoming, NextUp, LastUp

LEMMA RulesAlike ==
    ASSUME IInv, NEW r \in Rig, NEW q \in Rig
    PROVE  /\ Near(RowsOf(r)) # {} => Near(RowsOf(q)) # {}
           /\ Covering(r) # {} => Covering(q) # {}
           /\ Upcoming(r) # {} => Upcoming(q) # {}
<1>1. Near(RowsOf(r)) # {} => Near(RowsOf(q)) # {}
  BY NearCounterpart
<1>2. Covering(r) # {} => Covering(q) # {}
  BY NearCounterpart DEF Covering
<1>3. Upcoming(r) # {} => Upcoming(q) # {}
  BY NearCounterpart DEF Upcoming
<1> QED BY <1>1, <1>2, <1>3

(* What is served to r is matched by what is served to q.                  *)
LEMMA Matched ==
    ASSUME IInv, NEW r \in Rig, NEW q \in Rig, Near(RowsOf(r)) # {},
           NEW s \in InForce(r), NEW x \in InForce(q)
    PROVE  /\ Covering(r) # {} => Covers(s) /\ x.at >= s.at
           /\ Covering(r) = {} /\ Upcoming(r) # {} =>
                 /\ Start(x) <= Start(s)
                 /\ Start(x) = Start(s) => x.at >= s.at
           /\ Covering(r) = {} /\ Upcoming(r) = {} =>
                 /\ End(x) >= End(s)
                 /\ End(x) = End(s) => x.at >= s.at
<1>1. /\ Near(RowsOf(q)) # {} /\ (Covering(r) # {} <=> Covering(q) # {})
      /\ Upcoming(r) # {} <=> Upcoming(q) # {}
  BY RulesAlike
<1>2. /\ s \in Newest(IF Covering(r) # {} THEN Covering(r)
                      ELSE IF Upcoming(r) # {} THEN NextUp(r) ELSE LastUp(r))
      /\ x \in Newest(IF Covering(r) # {} THEN Covering(q)
                      ELSE IF Upcoming(r) # {} THEN NextUp(q) ELSE LastUp(q))
  BY <1>1, Rules
<1>3. s \in Near(RowsOf(r)) /\ x \in Near(RowsOf(q))
  BY <1>2 DEF Newest, Covering, Upcoming, NextUp, LastUp
<1>4. s \in rows /\ x \in rows
  BY <1>3 DEF Near, RowsOf
<1>5. PICK y \in Near(RowsOf(q)) :
        Shift(y) = Shift(s) /\ y.at = s.at /\ Start(y) = Start(s) /\ End(y) = End(s)
        /\ (Covers(y) <=> Covers(s))
  BY <1>3, NearCounterpart
<1>6. CASE Covering(r) # {}
  <2>1. s \in Covering(r) /\ x \in Newest(Covering(q))
    BY <1>2, <1>6 DEF Newest
  <2>2. y \in Covering(q)
    BY <1>5, <2>1 DEF Covering
  <2>3. y.at <= x.at
    BY <2>1, <2>2 DEF Newest
  <2> QED BY <1>4, <1>5, <1>6, <2>1, <2>3, RowIs DEF Covering
<1>7. CASE Covering(r) = {} /\ Upcoming(r) # {}
  <2>1. s \in NextUp(r) /\ x \in Newest(NextUp(q))
    BY <1>2, <1>7 DEF Newest
  <2>2. y \in Upcoming(q)
    BY <1>5, <2>1 DEF Upcoming, NextUp
  <2>3. Start(x) <= Start(y)
    BY <2>1, <2>2 DEF Newest, NextUp
  <2>4. ASSUME Start(x) = Start(s) PROVE y.at <= x.at
    <3>1. y \in NextUp(q)
      BY <1>5, <2>1, <2>2, <2>4 DEF Newest, NextUp
    <3> QED BY <2>1, <3>1 DEF Newest
  <2> QED BY <1>4, <1>5, <1>7, <2>3, <2>4, RowIs
<1>8. CASE Covering(r) = {} /\ Upcoming(r) = {}
  <2>1. s \in LastUp(r) /\ x \in Newest(LastUp(q))
    BY <1>2, <1>8 DEF Newest
  <2>2. End(y) <= End(x)
    BY <2>1 DEF Newest, LastUp
  <2>3. ASSUME End(x) = End(s) PROVE y.at <= x.at
    <3>1. y \in LastUp(q)
      BY <1>5, <2>1, <2>3 DEF Newest, LastUp
    <3> QED BY <2>1, <3>1 DEF Newest
  <2> QED BY <1>4, <1>5, <1>8, <2>2, <2>3, RowIs
<1> QED BY <1>6, <1>7, <1>8

LEMMA Same ==
    ASSUME IInv, Near(rows) # {}, NEW r \in Rig, NEW q \in Rig,
           NEW s \in InForce(r), NEW x \in InForce(q)
    PROVE  Shift(s) = Shift(x) /\ s.at = x.at
<1>1. Near(RowsOf(r)) # {} /\ Near(RowsOf(q)) # {}
  <2>1. PICK y \in Near(rows) : TRUE
    OBVIOUS
  <2>2. y \in rows /\ y.rig \in Rig
    BY <2>1, RowIs DEF Near
  <2>3. y \in Near(RowsOf(y.rig))
    BY <2>1, <2>2 DEF Near, RowsOf
  <2> QED BY <2>2, <2>3, RulesAlike
<1>2. s \in rows /\ x \in rows
  BY InForceIsOf DEF RowsOf
<1>3. /\ s.at \in Nat /\ x.at \in Nat /\ Start(s) \in Int /\ Start(x) \in Int
      /\ End(s) = Start(s) + TurnsPerShift /\ End(x) = Start(x) + TurnsPerShift
      /\ s.date \in Date /\ x.date \in Date /\ s.label \in Label /\ x.label \in Label
  BY <1>2, RowIs
<1>4. (Covering(r) # {} <=> Covering(q) # {}) /\ (Upcoming(r) # {} <=> Upcoming(q) # {})
  BY RulesAlike
<1>5. CASE Covering(r) # {}
  <2>1. s.at = x.at /\ Covers(s) /\ Covers(x)
    BY <1>1, <1>3, <1>4, <1>5, Matched
  <2>2. now \in Int
    BY DEF IInv, TypeOK
  <2> QED BY <1>3, <2>1, <2>2, OneCovers
<1>6. CASE Covering(r) = {} /\ Upcoming(r) # {}
  <2>1. s.at = x.at /\ Start(s) = Start(x)
    BY <1>1, <1>3, <1>4, <1>6, Matched
  <2> QED BY <1>2, <1>3, <2>1, OneDate, SameDate
<1>7. CASE Covering(r) = {} /\ Upcoming(r) = {}
  <2>1. s.at = x.at /\ End(s) = End(x)
    <3>1. End(x) >= End(s) /\ (End(x) = End(s) => x.at >= s.at)
      BY <1>1, <1>7, Matched
    <3>2. End(s) >= End(x) /\ (End(s) = End(x) => s.at >= x.at)
      BY <1>1, <1>4, <1>7, Matched
    <3>3. End(s) \in Int /\ End(x) \in Int
      BY <1>3, ZoneAssumption
    <3> QED BY <1>3, <3>1, <3>2, <3>3
  <2>2. Start(s) = Start(x)
    BY <1>3, <2>1, ZoneAssumption
  <2> QED BY <1>2, <1>3, <2>1, <2>2, OneDate, SameDate
<1> QED BY <1>5, <1>6, <1>7

(* in_force serves every rig the same shift of the same push, whatever     *)
(* order the tied rows come in, as long as anything is near today.         *)
THEOREM SameSheetCorrect == Spec => []SameSheet
<1>1. IInv => SameSheet
  BY Same DEF SameSheet
<1> QED BY Inductive, <1>1, PTL

--------------------------------------------------------------------------
(* The board and My Shift.                                                 *)

(* Whoever is on under a sheet is on within its window.                    *)
LEMMA OnCovers ==
    ASSUME IInv, NEW s \in rows, NEW p \in OnUnder(s)
    PROVE  Covers(s) /\ Names(s, p)
<1>1. PICK t \in InProgress(s) : p = s.turns[t]
  BY DEF OnUnder
<1>2. t \in 1..TurnsPerShift /\ Start(s) + t - 1 <= now /\ now < Start(s) + t - 1 + 1
  BY <1>1 DEF InProgress, TurnFrom, Turn
<1>3. Start(s) \in Int /\ End(s) = Start(s) + TurnsPerShift /\ now \in Int
  BY RowIs DEF IInv, TypeOK
<1>4. Covers(s)
  BY <1>2, <1>3, ZoneAssumption DEF Covers
<1> QED BY <1>1, <1>2, <1>4 DEF Names, Turn

(* What covers now is of yesterday, today or tomorrow: a zone is less than *)
(* a day from UTC.                                                         *)
LEMMA CoverIsNear ==
    ASSUME IInv, NEW s \in rows, Covers(s)
    PROVE  Today - 1 <= s.date /\ s.date <= Today + 1
<1>1. /\ PerDay \in Nat /\ PerDay = 3 * TurnsPerShift /\ PerDay > 0
      /\ now \in Int /\ s.date \in Int /\ PerDay * s.date \in Int
  <2>1. PerDay \in Nat /\ PerDay = 3 * TurnsPerShift /\ PerDay > 0
    BY ZoneAssumption DEF PerDay
  <2>2. now \in Int /\ s.date \in Date /\ s.label \in Label
    BY RowIs DEF IInv, TypeOK
  <2>3. s.date \in Int
    BY <2>2 DEF Date
  <2>4. PerDay * s.date \in Int
    BY <2>2, StartIs
  <2> QED BY <2>1, <2>2, <2>3, <2>4
<1>2. /\ Start(s) <= now /\ now < Start(s) + TurnsPerShift
      /\ PerDay * s.date - Offset <= Start(s)
      /\ Start(s) + TurnsPerShift <= PerDay * s.date - Offset + PerDay
  BY <1>1, RowIs, StartIs, ZoneAssumption DEF Covers
<1>3. /\ PerDay * s.date - PerDay < now
      /\ now < PerDay * s.date + PerDay + PerDay
  BY <1>1, <1>2, RowIs, ZoneAssumption
<1>4. /\ Today \in Int
      /\ PerDay * Today <= now /\ now < PerDay * Today + PerDay
      /\ PerDay * Today \in Int
  BY <1>1 DEF Today
<1>5. ASSUME s.date < Today - 1 PROVE FALSE
  <2>1. PerDay * s.date + PerDay + PerDay <= PerDay * Today
    BY <1>1, <1>4, <1>5, TwoApart
  <2> QED BY <1>1, <1>3, <1>4, <2>1
<1>6. ASSUME Today + 1 < s.date PROVE FALSE
  <2>1. PerDay * Today + PerDay + PerDay <= PerDay * s.date
    BY <1>1, <1>4, <1>6, TwoApart
  <2> QED BY <1>1, <1>3, <1>4, <2>1
<1> QED BY <1>1, <1>4, <1>5, <1>6

LEMMA CoversTogether ==
    ASSUME IInv, NEW s \in rows, NEW x \in rows, Covers(s), Covers(x)
    PROVE  Shift(s) = Shift(x)
<1>1. now \in Int
  BY DEF IInv, TypeOK
<1> QED BY <1>1, RowIs, OneCovers

(* Of the shift under way the latest version is what is in force.          *)
LEMMA LatestServed ==
    ASSUME IInv, NEW s \in rows, Covers(s), s \in Near(rows)
    PROVE  s \in InForce(s.rig) <=> s \in Latest(Near(rows))
<1> DEFINE r == s.rig
<1>1. s \in Covering(r)
  BY DEF Covering, Near, RowsOf
<1>2. InForce(r) = Newest(Covering(r))
  <2>1. Near(RowsOf(r)) # {} /\ Covering(r) # {}
    BY <1>1 DEF Covering
  <2> HIDE DEF r
  <2> QED BY <2>1, Rules
<1>3. \A x \in Covering(r) : x \in Near(rows) /\ x.rig = r /\ Shift(x) = Shift(s)
  BY CoversTogether DEF Covering, Near, RowsOf
<1>4. \A x \in Near(rows) : x.rig = r /\ Shift(x) = Shift(s) => x \in Covering(r)
  BY OneWindow DEF Covering, Near, RowsOf
<1>5. s \in Latest(Near(rows)) <=>
        \A x \in Near(rows) : x.rig = r /\ Shift(x) = Shift(s) => x.at <= s.at
  BY DEF Latest
<1>6. s \in Newest(Covering(r)) <=> \A x \in Covering(r) : x.at <= s.at
  BY <1>1 DEF Newest
<1> QED BY <1>2, <1>3, <1>4, <1>5, <1>6

(* A row under way that names somebody is what My Shift shows them.        *)
LEMMA ShownNow ==
    ASSUME IInv, NEW p \in Person, NEW s \in Naming(p), Covers(s)
    PROVE  s \in MyShift(p)
<1>1. s \in {x \in Naming(p) : Covers(x)}
  OBVIOUS
<1> QED BY <1>1 DEF MyShift

LEMMA Agree ==
    ASSUME IInv, NEW p \in Person
    PROVE  MyRigs(p) = {r \in Rig : p \in Board(r)}
<1>0. \A s : s \in Near(rows) => s \in rows
  BY DEF Near
<1>1. ASSUME NEW r \in MyRigs(p) PROVE r \in Rig /\ p \in Board(r)
  <2>1. PICK s \in MyShift(p) : p \in OnUnder(s) /\ s.rig = r
    BY <1>1 DEF MyRigs
  <2>2. s \in Latest(Near(rows)) /\ s \in Near(rows)
    BY <2>1 DEF MyShift, Naming, Latest
  <2>3. s \in rows /\ Covers(s) /\ s.rig \in Rig
    BY <1>0, <2>1, <2>2, OnCovers, RowIs
  <2>4. s \in InForce(r)
    BY <2>1, <2>2, <2>3, LatestServed
  <2> QED BY <2>1, <2>3, <2>4 DEF Board
<1>2. ASSUME NEW r \in Rig, p \in Board(r) PROVE r \in MyRigs(p)
  <2>1. PICK s \in InForce(r) : p \in OnUnder(s)
    BY <1>2 DEF Board
  <2>2. s \in rows /\ s.rig = r
    BY InForceIsOf DEF RowsOf
  <2>3. Covers(s) /\ Names(s, p)
    BY <2>1, <2>2, OnCovers
  <2>4. s \in Near(rows)
    <3>1. CASE Near(RowsOf(r)) # {}
      <4>1. s \in Near(RowsOf(r))
        BY <3>1, Rules DEF Newest, Covering, NextUp, Upcoming, LastUp
      <4> QED BY <4>1 DEF Near, RowsOf
    <3>2. CASE Near(RowsOf(r)) = {}
      <4>1. Today - 1 <= s.date /\ s.date <= Today + 1
        BY <2>2, <2>3, CoverIsNear
      <4> QED BY <2>2, <4>1 DEF Near
    <3> QED BY <3>1, <3>2
  <2>5. s \in Latest(Near(rows))
    BY <2>1, <2>2, <2>3, <2>4, LatestServed
  <2>6. s \in Naming(p)
    BY <2>3, <2>5 DEF Naming
  <2>7. s \in MyShift(p)
    BY <2>3, <2>6, ShownNow
  <2> QED BY <2>1, <2>2, <2>7 DEF MyRigs
<1> QED BY <1>1, <1>2

(* floor_state and turns_for_operator put a person on the same rigs.       *)
THEOREM BoardCorrect == Spec => []BoardAndPersonAgree
<1>1. IInv => BoardAndPersonAgree
  BY Agree DEF BoardAndPersonAgree
<1> QED BY Inductive, <1>1, PTL
=============================================================================
