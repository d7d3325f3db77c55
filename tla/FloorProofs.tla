--------------------------- MODULE FloorProofs ---------------------------
(* The sweep keeps its types, gives a dead rig one alert, and tells the    *)
(* truth, for any rigs, turns, outages and limits.                         *)
EXTENDS Floor, TLAPS

(* What a sweep has found was wrong at some moment of it, and what has     *)
(* been wrong all through it is found, or is still to be looked for at the *)
(* statement the sweep has come to.                                        *)
DueType == [rig : Rig, turn : Turn, since : 0..IdleGrace + 1]
Stage == {"rigs", "downtime", "faults", "blocks", "sheets", "commit"}
SweepType == [at : Stage \cup {"between"}, todo : SUBSET Rig, due : SUBSET DueType,
              blocks : SUBSET Overrun, found : SUBSET Key, moves : Nat]

(* The statement that looks for k is still to come in the sweep s.         *)
AheadOf(k, s) ==
    \/ \E r \in s.todo, t \in Turn : k = Idle(r, t)
    \/ \E d \in s.due : k = Idle(d.rig, d.turn) /\ d.since > IdleGrace
    \/ k = Behind /\ s.at = "rigs"
    \/ \E o \in Down : k = Fact(o) /\ s.at \in {"rigs", "downtime"}
    \/ \E o \in Fault : k = Fact(o) /\ s.at \in {"rigs", "downtime", "faults"}
    \/ \E o \in Overrun : /\ k = Fact(o)
                          /\ \/ s.at \in {"rigs", "downtime", "faults", "blocks"}
                             \/ s.at = "sheets" /\ o \in s.blocks

(* The order of the statements, and one turn asked about at a time.        *)
Ordered(s) ==
    /\ s.at # "rigs" => s.todo = {} /\ s.due = {}
    /\ s.at # "sheets" => s.blocks = {}
    /\ \A d, e \in s.due : d = e

(* A rig looked at is alive, and a silent one is found to be nothing else. *)
Apart(s) ==
    /\ \A r \in s.todo : ~Dead(r) /\ Silent(r) \notin s.found
    /\ \A d \in s.due : ~Dead(d.rig) /\ Silent(d.rig) \notin s.found
    /\ \A r \in Rig : Silent(r) \in s.found =>
          Adrift(r) \notin s.found /\ \A t \in Turn : Idle(r, t) \notin s.found

(* What is held in hand between two statements was wrong if it is found.   *)
InHand(s, known) ==
    /\ \A d \in s.due : d.since > IdleGrace /\ last[d.rig] > IdleGrace =>
          Idle(d.rig, d.turn) \in known
    /\ \A o \in s.blocks : o \in late => Fact(o) \in known

SweepInv ==
    /\ sweep \in SweepType /\ Ordered(sweep) /\ Apart(sweep)
    /\ sweep.at = "between" <=> sweep = NoSweep
    /\ sweep # NoSweep => /\ sweep.found \subseteq watched.ever
                          /\ InHand(sweep, watched.ever)
                          /\ watched.always \subseteq Wrong
                          /\ \A k \in watched.always : k \in sweep.found \/ AheadOf(k, sweep)

IInv == TypeOK /\ SweepInv /\ OneCauseOneAlert

--------------------------------------------------------------------------
(* A key tells what it is about.                                           *)

LEMMA KeysApart ==
    ASSUME NEW r, NEW q, NEW t, NEW u, NEW o, NEW p
    PROVE  /\ Silent(r) # Adrift(q) /\ Silent(r) # Idle(q, t) /\ Silent(r) # Behind
           /\ Silent(r) # Fact(o) /\ Adrift(r) # Idle(q, t) /\ Adrift(r) # Behind
           /\ Adrift(r) # Fact(o) /\ Idle(r, t) # Behind /\ Idle(r, t) # Fact(o)
           /\ Behind # Fact(o)
           /\ Silent(r) = Silent(q) => r = q
           /\ Adrift(r) = Adrift(q) => r = q
           /\ Idle(r, t) = Idle(q, u) => r = q /\ t = u
           /\ Fact(o) = Fact(p) => o = p
<1>1. /\ Silent(r)[1] = "rig_silent" /\ Adrift(q)[1] = "clock_adrift"
      /\ Adrift(r)[1] = "clock_adrift" /\ Idle(q, t)[1] = "rig_idle"
      /\ Idle(r, t)[1] = "rig_idle" /\ Behind[1] = "projection_behind"
      /\ Fact(o)[1] = "recorded"
  BY DEF Silent, Adrift, Idle, Behind, Fact
<1>2. /\ Silent(r)[2] = r /\ Silent(q)[2] = q /\ Adrift(r)[2] = r /\ Adrift(q)[2] = q
      /\ Idle(r, t)[2] = r /\ Idle(q, u)[2] = q /\ Idle(r, t)[3] = t /\ Idle(q, u)[3] = u
      /\ Fact(o)[2] = o /\ Fact(p)[2] = p
  BY DEF Silent, Adrift, Idle, Fact
<1>3. /\ Silent(r) # Adrift(q) /\ Silent(r) # Idle(q, t) /\ Silent(r) # Behind
      /\ Silent(r) # Fact(o) /\ Adrift(r) # Idle(q, t) /\ Adrift(r) # Behind
      /\ Adrift(r) # Fact(o) /\ Idle(r, t) # Behind /\ Idle(r, t) # Fact(o)
      /\ Behind # Fact(o)
  BY <1>1
<1> QED BY <1>2, <1>3

(* What Wrong says of a key of each kind.                                  *)
LEMMA WrongOf ==
    /\ \A r \in Rig : Silent(r) \in Wrong <=> Dead(r)
    /\ \A r \in Rig : Adrift(r) \in Wrong <=> ~Dead(r) /\ adrift[r]
    /\ \A r \in Rig, t \in Turn : Idle(r, t) \in Wrong <=>
          ~Dead(r) /\ turn[r] # Standby /\ started[r] > IdleGrace /\ last[r] > IdleGrace
             /\ t = turn[r]
    /\ Behind \in Wrong <=> lag > BehindAfter + 1
    /\ \A o \in Outage : Fact(o) \in Wrong <=>
          o \in recorded /\ (o \in Overrun => o \in late)
<1> DEFINE S == {Silent(r) : r \in {x \in Rig : Dead(x)}}
           D == {Adrift(r) : r \in {x \in Rig : ~Dead(x) /\ adrift[x]}}
           I == {Idle(r, turn[r]) : r \in
                    {x \in Rig : ~Dead(x) /\ turn[x] # Standby /\ started[x] > IdleGrace
                                                      /\ last[x] > IdleGrace}}
           B == IF lag > BehindAfter + 1 THEN {Behind} ELSE {}
           F == {Fact(o) : o \in recorded \ Overrun} \cup {Fact(o) : o \in recorded \cap late}
<1>1. Wrong = S \cup D \cup I \cup B \cup F
  BY DEF Wrong
<1>2. ASSUME NEW r \in Rig PROVE Silent(r) \in Wrong <=> Dead(r)
  <2>1. Silent(r) \notin D /\ Silent(r) \notin I /\ Silent(r) \notin B /\ Silent(r) \notin F
    BY KeysApart
  <2>2. Silent(r) \in S <=> Dead(r)
    BY KeysApart
  <2> QED BY <1>1, <2>1, <2>2
<1>3. ASSUME NEW r \in Rig PROVE Adrift(r) \in Wrong <=> ~Dead(r) /\ adrift[r]
  <2>1. Adrift(r) \notin S /\ Adrift(r) \notin I /\ Adrift(r) \notin B /\ Adrift(r) \notin F
    BY KeysApart
  <2>2. Adrift(r) \in D <=> ~Dead(r) /\ adrift[r]
    BY KeysApart
  <2> QED BY <1>1, <2>1, <2>2
<1>4. ASSUME NEW r \in Rig, NEW t \in Turn
      PROVE  Idle(r, t) \in Wrong <=>
                /\ ~Dead(r) /\ turn[r] # Standby /\ started[r] > IdleGrace
                /\ last[r] > IdleGrace /\ t = turn[r]
  <2>1. Idle(r, t) \notin S /\ Idle(r, t) \notin D /\ Idle(r, t) \notin B /\ Idle(r, t) \notin F
    BY KeysApart
  <2>2. Idle(r, t) \in I <=>
            /\ ~Dead(r) /\ turn[r] # Standby /\ started[r] > IdleGrace
            /\ last[r] > IdleGrace /\ t = turn[r]
    BY KeysApart
  <2> QED BY <1>1, <2>1, <2>2
<1>5. Behind \in Wrong <=> lag > BehindAfter + 1
  <2>1. Behind \notin S /\ Behind \notin D /\ Behind \notin I /\ Behind \notin F
    BY KeysApart
  <2>2. Behind \in B <=> lag > BehindAfter + 1
    OBVIOUS
  <2> QED BY <1>1, <2>1, <2>2
<1>6. ASSUME NEW o \in Outage PROVE  Fact(o) \in Wrong <=> o \in recorded /\ (o \in Overrun => o \in late)
  <2>1. Fact(o) \notin S /\ Fact(o) \notin D /\ Fact(o) \notin I /\ Fact(o) \notin B
    BY KeysApart
  <2>2. Fact(o) \in F <=> o \in recorded /\ (o \in Overrun => o \in late)
    BY KeysApart
  <2> QED BY <1>1, <2>1, <2>2
<1> QED BY <1>2, <1>3, <1>4, <1>5, <1>6

(* Whatever is wrong has a key, and is wrong in one of five ways.          *)
LEMMA WrongKinds ==
    ASSUME TypeOK
    PROVE  \A k \in Wrong : /\ k \in Key
                            /\ \/ \E r \in Rig : k = Silent(r) \/ k = Adrift(r)
                               \/ \E r \in Rig, t \in Turn : k = Idle(r, t)
                               \/ k = Behind
                               \/ \E o \in Outage : k = Fact(o)
<1> SUFFICES ASSUME NEW k \in Wrong
             PROVE  \/ \E r \in Rig : k = Silent(r) \/ k = Adrift(r)
                    \/ \E r \in Rig, t \in Turn : k = Idle(r, t)
                    \/ k = Behind
                    \/ \E o \in Outage : k = Fact(o)
  BY DEF Key
<1>1. CASE \E r \in Rig : k = Silent(r) \/ k = Adrift(r)
  BY <1>1
<1>2. CASE \E r \in Rig : turn[r] # Standby /\ k = Idle(r, turn[r])
  <2>1. PICK r \in Rig : turn[r] # Standby /\ k = Idle(r, turn[r])
    BY <1>2
  <2>2. turn[r] \in Turn
    BY <2>1 DEF TypeOK
  <2> QED BY <2>1, <2>2
<1>3. CASE k = Behind
  BY <1>3
<1>4. CASE \E o \in recorded : k = Fact(o)
  BY <1>4 DEF TypeOK
<1> QED BY <1>1, <1>2, <1>3, <1>4 DEF Wrong

--------------------------------------------------------------------------
LEMMA AgesBounded ==
    ASSUME NEW limit \in Nat, NEW age \in 0..limit + 1
    PROVE  Older(age, limit) \in 0..limit + 1
BY DEF Older

SameWork == /\ sweep'.at = sweep.at /\ sweep'.todo = sweep.todo /\ sweep'.due = sweep.due
            /\ sweep'.blocks = sweep.blocks /\ sweep'.found = sweep.found

(* Each statement leaves a sweep, and finds keys.                          *)
Shaped(next, at, todo, due, blocks) ==
    /\ next \in SweepType /\ next.at = at /\ next.todo = todo /\ next.due = due
    /\ next.blocks = blocks /\ next.found = sweep.found

LEMMA StatusesShape ==
    ASSUME TypeOK, sweep \in SweepType
    PROVE  /\ Shaped([sweep EXCEPT !.at = "rigs", !.todo = LookedAt],
                     "rigs", LookedAt, sweep.due, sweep.blocks)
           /\ {Silent(r) : r \in {x \in Rig : Dead(x)}}
                  \cup {Adrift(r) : r \in {x \in LookedAt : adrift[x]}} \subseteq Key
<1>1. LookedAt \in SUBSET Rig
  BY DEF LookedAt
<1>2. PICK todo : todo = LookedAt
  OBVIOUS
<1>3. Shaped([sweep EXCEPT !.at = "rigs", !.todo = todo], "rigs", todo, sweep.due, sweep.blocks)
  BY <1>1, <1>2 DEF Shaped, SweepType, Stage
<1>4. {Silent(r) : r \in {x \in Rig : Dead(x)}}
          \cup {Adrift(r) : r \in {x \in LookedAt : adrift[x]}} \subseteq Key
  BY DEF LookedAt, Key
<1> QED BY <1>2, <1>3, <1>4

LEMMA TurnShape ==
    ASSUME TypeOK, sweep \in SweepType, NEW r \in Rig
    PROVE  Shaped([sweep EXCEPT !.todo = @ \ {r}, !.due = Due(r)],
                  sweep.at, sweep.todo \ {r}, Due(r), sweep.blocks)
<1>1. turn[r] # Standby =>
        [rig |-> r, turn |-> turn[r], since |-> started[r]] \in DueType
  BY DEF DueType, TypeOK
<1>2. PICK due \in SUBSET DueType : due = Due(r)
  BY <1>1 DEF Due
<1>3. Shaped([sweep EXCEPT !.todo = @ \ {r}, !.due = due],
             sweep.at, sweep.todo \ {r}, due, sweep.blocks)
  BY DEF Shaped, SweepType
<1> QED BY <1>2, <1>3

LEMMA LastShape ==
    ASSUME TypeOK, sweep \in SweepType, NEW d \in sweep.due
    PROVE  /\ Shaped([sweep EXCEPT !.due = {}], sweep.at, sweep.todo, {}, sweep.blocks)
           /\ IdleFound(d) \subseteq Key
<1>1. Shaped([sweep EXCEPT !.due = {}], sweep.at, sweep.todo, {}, sweep.blocks)
  BY DEF Shaped, SweepType
<1>2. d.rig \in Rig /\ d.turn \in Turn
  BY DEF SweepType, DueType
<1> QED BY <1>1, <1>2 DEF IdleFound, Key

LEMMA LaterShapes ==
    ASSUME TypeOK, sweep \in SweepType
    PROVE  /\ \A at \in {"downtime", "faults", "blocks"} :
                 Shaped([sweep EXCEPT !.at = at], at, sweep.todo, sweep.due, sweep.blocks)
           /\ (IF lag > BehindAfter + 1 THEN {Behind} ELSE {}) \subseteq Key
           /\ {Fact(o) : o \in recorded \cap Down} \subseteq Key
           /\ {Fact(o) : o \in recorded \cap Fault} \subseteq Key
<1>1. \A at \in {"downtime", "faults", "blocks"} :
         Shaped([sweep EXCEPT !.at = at], at, sweep.todo, sweep.due, sweep.blocks)
  BY DEF Shaped, SweepType, Stage
<1>2. (IF lag > BehindAfter + 1 THEN {Behind} ELSE {}) \subseteq Key
  BY DEF Key
<1>3. \A o \in recorded : Fact(o) \in Key
  BY DEF Key, TypeOK
<1> QED BY <1>1, <1>2, <1>3

LEMMA BlockShapes ==
    ASSUME TypeOK, sweep \in SweepType
    PROVE  /\ Shaped([sweep EXCEPT !.at = "sheets", !.blocks = recorded \cap Overrun],
                     "sheets", sweep.todo, sweep.due, recorded \cap Overrun)
           /\ Shaped([sweep EXCEPT !.at = "commit", !.blocks = {}],
                     "commit", sweep.todo, sweep.due, {})
           /\ {Fact(o) : o \in sweep.blocks \cap late} \subseteq Key
<1>1. PICK blocks \in SUBSET Overrun : blocks = recorded \cap Overrun
  OBVIOUS
<1>2. Shaped([sweep EXCEPT !.at = "sheets", !.blocks = blocks],
             "sheets", sweep.todo, sweep.due, blocks)
  BY DEF Shaped, SweepType, Stage
<1>3. Shaped([sweep EXCEPT !.at = "commit", !.blocks = {}], "commit", sweep.todo, sweep.due, {})
  BY DEF Shaped, SweepType, Stage
<1>4. \A o \in sweep.blocks : Fact(o) \in Key
  BY DEF Key, Outage, SweepType
<1> QED BY <1>1, <1>2, <1>3, <1>4

Came(at, todo, due, blocks, found) ==
    /\ UNCHANGED floor
    /\ \E s \in SweepType : /\ sweep' = s /\ s.at = at /\ s.todo = todo /\ s.due = due
                            /\ s.blocks = blocks /\ s.found = sweep.found \cup found

LEMMA ReadsShape ==
    ASSUME NEW found \in SUBSET Key, NEW next, NEW at, NEW todo, NEW due, NEW blocks,
           Shaped(next, at, todo, due, blocks), Reads(found, next)
    PROVE  Came(at, todo, due, blocks, found)
<1>1. [next EXCEPT !.found = @ \cup found] \in SweepType
  BY DEF SweepType, Shaped
<1> QED BY <1>1 DEF Reads, SweepType, Shaped, Came

(* What goes on on the floor takes nothing from a sweep and kills no rig.  *)
LEMMA TypeStep ==
    ASSUME TypeOK, sweep \in SweepType, [Next]_vars
    PROVE  TypeOK'
<1> USE LimitsAssumption, NamesAssumption
<1>1. ASSUME Tick PROVE TypeOK'
  <2>1. heard' \in [Rig -> 0..SilentAfter + 1]
    BY <1>1, AgesBounded DEF Tick, TypeOK
  <2>2. turn' \in [Rig -> Turn \cup {Standby}] /\ started' \in [Rig -> 0..IdleGrace + 1]
    <3>1. PICK changed \in SUBSET Rig, t \in Turn \cup {Standby} :
             /\ turn' = [r \in Rig |-> IF r \in changed THEN t ELSE turn[r]]
             /\ started' = [r \in Rig |->
                    IF turn'[r] # turn[r] \/ turn'[r] = Standby THEN 0
                    ELSE Older(started[r], IdleGrace)]
      BY <1>1 DEF Tick
    <3>2. turn' \in [Rig -> Turn \cup {Standby}]
      BY <3>1 DEF TypeOK
    <3>3. ASSUME NEW r \in Rig PROVE Older(started[r], IdleGrace) \in 0..IdleGrace + 1
      BY AgesBounded DEF TypeOK
    <3>4. \A r \in Rig : started'[r] \in 0..IdleGrace + 1
      BY <3>1, <3>3
    <3> QED BY <3>1, <3>2, <3>4
  <2>3. last' \in [Rig -> 0..IdleGrace + 1]
    <3>1. ASSUME NEW r \in Rig PROVE Older(last[r], IdleGrace) \in 0..IdleGrace + 1
      BY AgesBounded DEF TypeOK
    <3>2. PICK ahead \in SUBSET {r \in Rig : adrift[r]} :
             last' = [r \in Rig |-> IF r \in ahead THEN last[r] ELSE Older(last[r], IdleGrace)]
      BY <1>1 DEF Tick
    <3> QED BY <3>1, <3>2 DEF TypeOK
  <2>4. recorded' \subseteq Outage
    BY <1>1 DEF Tick, TypeOK
  <2>5. lag' \in 0..BehindAfter + 2
    <3>1. Older(lag, BehindAfter + 1) \in 0..BehindAfter + 2
      BY DEF TypeOK, Older
    <3> QED BY <1>1, <3>1 DEF Tick
  <2> QED BY <1>1, <2>1, <2>2, <2>3, <2>4, <2>5 DEF Tick, TypeOK
<1>2. ASSUME NEW r \in Rig, Pushed(r) PROVE TypeOK'
  <2>1. SameWork
    BY <1>2 DEF Pushed, Moves, SweepType, SameWork
  <2>2. turn' \in [Rig -> Turn \cup {Standby}] /\ started' \in [Rig -> 0..IdleGrace + 1]
    BY <1>2 DEF Pushed, TypeOK
  <2> QED BY <1>2, <2>1, <2>2 DEF Pushed, Moves, TypeOK, SameWork
<1>3. ASSUME NEW r \in Rig, Beats(r) PROVE TypeOK'
  <2>1. SameWork
    BY <1>3 DEF Beats, Moves, SweepType, SameWork
  <2> QED BY <1>3, <2>1 DEF Beats, Moves, TypeOK, SameWork
<1>4. ASSUME NEW r \in Rig, Files(r) PROVE TypeOK'
  <2>1. SameWork
    BY <1>4 DEF Files, Moves, SweepType, SameWork
  <2>2. last' \in [Rig -> 0..IdleGrace + 1]
    BY <1>4 DEF Files, TypeOK
  <2> QED BY <1>4, <2>1, <2>2 DEF Files, Moves, TypeOK, SameWork
<1>5. ASSUME Projects PROVE TypeOK'
  <2>1. SameWork
    BY <1>5 DEF Projects, Moves, SweepType, SameWork
  <2>2. lag' \in 0..BehindAfter + 2
    BY <1>5 DEF Projects, TypeOK
  <2>3. recorded' \subseteq Outage
    BY <1>5 DEF Projects, TypeOK
  <2> QED BY <1>5, <2>1, <2>2, <2>3 DEF Projects, Moves, TypeOK, SameWork
<1>6. ASSUME Rebuilds PROVE TypeOK'
  <2>1. SameWork
    BY <1>6 DEF Rebuilds, Moves, SweepType, SameWork
  <2>2. lag' \in 0..BehindAfter + 2
    BY <1>6 DEF Rebuilds, TypeOK
  <2> QED BY <1>6, <2>1, <2>2 DEF Rebuilds, Moves, TypeOK, SameWork
<1>7. ASSUME NEW s \in SweepType, sweep' = s, UNCHANGED <<floor, open, failures>>
      PROVE  TypeOK'
  BY <1>7 DEF TypeOK, SweepType, DueType, floor
<1>8. ASSUME NEW found \in SUBSET Key, NEW next, NEW at, NEW todo, NEW due, NEW blocks,
             Shaped(next, at, todo, due, blocks), Reads(found, next)
      PROVE  TypeOK'
  <2>1. UNCHANGED <<floor, open, failures>>
    BY <1>8 DEF Reads
  <2>2. \E s \in SweepType : sweep' = s
    BY <1>8, ReadsShape DEF Came
  <2> QED BY <1>7, <2>1, <2>2
<1>9. ASSUME ReadsStatuses PROVE TypeOK'
  BY <1>8, <1>9, StatusesShape DEF ReadsStatuses
<1>10. ASSUME Sweeps, ~Commits PROVE TypeOK'
  <2>1. CASE \E r \in Rig : ReadsTurn(r)
    BY <1>8, <2>1, TurnShape DEF ReadsTurn
  <2>2. CASE \E d \in sweep.due : ReadsLast(d)
    BY <1>8, <2>2, LastShape DEF ReadsLast
  <2>3. CASE ReadsLag \/ ReadsDowntime \/ ReadsFaults
    BY <1>8, <2>3, LaterShapes DEF ReadsLag, ReadsDowntime, ReadsFaults
  <2>4. CASE ReadsBlocks \/ ReadsSheets
    BY <1>8, <2>4, BlockShapes DEF ReadsBlocks, ReadsSheets
  <2> QED BY <1>9, <1>10, <2>1, <2>2, <2>3, <2>4 DEF Sweeps
<1>11. ASSUME Commits PROVE TypeOK'
  <2>1. open' \subseteq Key
    BY <1>11 DEF Commits, Resolved, Raised, TypeOK
  <2> QED BY <1>11, <2>1 DEF Commits, NoSweep, TypeOK, floor
<1>12. ASSUME Fails PROVE TypeOK'
  BY <1>12 DEF Fails, Lost, NoSweep, TypeOK, floor
<1>13. CASE UNCHANGED vars
  BY <1>13 DEF vars, floor, TypeOK
<1> QED BY <1>1, <1>2, <1>3, <1>4, <1>5, <1>6, <1>10, <1>11, <1>12, <1>13 DEF Next

--------------------------------------------------------------------------
(* A block in hand that is past its boundary is wrong, or was wiped.       *)
LEMMA HandedOver ==
    ASSUME TypeOK, TypeOK', sweep' \in SweepType, NEW o \in sweep'.blocks, o \in late'
    PROVE  Fact(o) \in Wrong' \cup Excused'
<1>1. o \in Outage /\ o \in Overrun
  BY DEF SweepType, Outage
<1>2. CASE o \in recorded'
  <2>1. Fact(o) \in Wrong'
    BY <1>2 DEF Wrong, Fact
  <2> QED BY <2>1
<1>3. CASE o \notin recorded'
  BY <1>3 DEF Excused, Fact
<1> QED BY <1>2, <1>3

(* What goes on on the floor leaves a sweep where it is.                   *)
NoneDies == \A r \in Rig : /\ Dead(r)' => Dead(r)
                           /\ last'[r] > IdleGrace => last[r] > IdleGrace

LEMMA FloorStep ==
    ASSUME TypeOK, TypeOK', SweepInv, Watches, SameWork, sweep' \in SweepType,
           sweep = NoSweep <=> sweep' = NoSweep,
           NoneDies
    PROVE  SweepInv'
<1>1. Ordered(sweep)' /\ \A k : AheadOf(k, sweep)' <=> AheadOf(k, sweep)
  BY DEF SameWork, SweepInv, Ordered, AheadOf, Idle, Behind, Fact
<1>2. sweep'.at = "between" <=> sweep' = NoSweep
  BY DEF SameWork, SweepInv
<1>3. CASE sweep = NoSweep
  <2>1. sweep'.todo = {} /\ sweep'.due = {} /\ sweep'.found = {}
    BY <1>3 DEF NoSweep
  <2> QED BY <1>1, <1>2, <1>3, <2>1 DEF SweepInv, Apart
<1>4. CASE sweep # NoSweep
  <2>1. watched' = [always |-> watched.always \cap Wrong',
                    ever |-> watched.ever \cup Wrong' \cup Excused']
    BY <1>4 DEF Watches
  <2>2. sweep'.found \subseteq watched'.ever /\ watched'.always \subseteq Wrong'
    BY <1>4, <2>1 DEF SweepInv, SameWork
  <2>3. \A k \in watched'.always : k \in sweep'.found \/ AheadOf(k, sweep)'
    BY <1>1, <1>4, <2>1 DEF SweepInv, SameWork
  <2>4. Apart(sweep)'
    <3>1. sweep.todo \subseteq Rig /\ \A d \in sweep.due : d.rig \in Rig
      BY DEF SweepInv, SweepType, DueType
    <3> QED BY <1>4, <3>1 DEF NoneDies, SweepInv, Apart, SameWork, Silent, Adrift, Idle
  <2>5. InHand(sweep, watched.ever)'
    <3>1. ASSUME NEW d \in sweep'.due, d.since > IdleGrace, last'[d.rig] > IdleGrace
          PROVE  Idle(d.rig, d.turn) \in watched'.ever
      <4>1. d \in sweep.due /\ d.rig \in Rig
        BY <3>1 DEF SweepInv, SweepType, DueType, SameWork
      <4> QED BY <1>4, <2>1, <3>1, <4>1 DEF NoneDies, SweepInv, InHand
    <3>2. ASSUME NEW o \in sweep'.blocks, o \in late' PROVE Fact(o) \in watched'.ever
      BY <2>1, <3>2, HandedOver
    <3> QED BY <3>1, <3>2 DEF InHand, Idle, Fact
  <2> QED BY <1>1, <1>2, <1>4, <2>2, <2>3, <2>4, <2>5 DEF SweepInv
<1> QED BY <1>3, <1>4

(* A statement of the sweep finds what was wrong when it looked, and       *)
(* leaves nothing out of what it was to look for.                          *)
Known == IF sweep = NoSweep THEN Wrong ELSE watched.ever \cup Wrong
Held == IF sweep = NoSweep THEN Wrong ELSE watched.always

LEMMA ReadsStep ==
    ASSUME TypeOK, TypeOK', SweepInv, Watches, UNCHANGED floor,
           NEW s \in SweepType, sweep' = s, s.at \in Stage,
           Ordered(s), Apart(s), s.found \subseteq Known,
           sweep = NoSweep => s.blocks = {},
           \A d \in s.due : d.since > IdleGrace /\ last[d.rig] > IdleGrace =>
              Idle(d.rig, d.turn) \in Known,
           \A k \in Held : k \in s.found \/ AheadOf(k, s)
    PROVE  SweepInv'
<1>1. sweep' # NoSweep /\ s.at # "between"
  BY DEF NoSweep, Stage
<1>2. Wrong' = Wrong /\ \A r : Dead(r)' <=> Dead(r)
  BY DEF floor, Wrong, Dead, Silent, Adrift, Idle, Behind, Fact
<1>3. /\ watched'.always = Held \cap Wrong
      /\ Known \subseteq watched'.ever
      /\ sweep # NoSweep => watched'.ever = watched.ever \cup Wrong' \cup Excused'
  BY <1>1, <1>2 DEF Watches, Held, Known
<1>4. Ordered(sweep)' /\ \A k : AheadOf(k, sweep)' <=> AheadOf(k, s)
  BY DEF Ordered, AheadOf, Idle, Behind, Fact
<1>5. Apart(sweep)'
  BY <1>2 DEF Apart, Silent, Adrift, Idle
<1>6. InHand(sweep, watched.ever)'
  <2>1. ASSUME NEW d \in s.due, d.since > IdleGrace, last'[d.rig] > IdleGrace
        PROVE  Idle(d.rig, d.turn) \in watched'.ever
    BY <1>3, <2>1 DEF floor
  <2>2. ASSUME NEW o \in sweep'.blocks, o \in late' PROVE Fact(o) \in watched'.ever
    <3>1. sweep # NoSweep
      BY <2>2
    <3> QED BY <1>3, <2>2, <3>1, HandedOver
  <2> QED BY <2>1, <2>2 DEF InHand, Idle, Fact
<1>7. sweep'.found \subseteq watched'.ever /\ watched'.always \subseteq Wrong'
  BY <1>2, <1>3
<1>8. \A k \in watched'.always : k \in sweep'.found \/ AheadOf(k, sweep)'
  BY <1>3, <1>4
<1> QED BY <1>1, <1>4, <1>5, <1>6, <1>7, <1>8 DEF SweepInv

LEMMA StatusesStep ==
    ASSUME TypeOK, TypeOK', SweepInv, Watches, ReadsStatuses
    PROVE  SweepInv'
<1> DEFINE found == {Silent(r) : r \in {x \in Rig : Dead(x)}}
                        \cup {Adrift(r) : r \in {x \in LookedAt : adrift[x]}}
<1>1. sweep = NoSweep /\ sweep.found = {} /\ sweep.due = {} /\ sweep.blocks = {}
  BY DEF ReadsStatuses, NoSweep
<1>2. /\ \A r \in Rig : Silent(r) \in found <=> Dead(r)
      /\ \A r \in Rig : Adrift(r) \in found <=> ~Dead(r) /\ adrift[r]
      /\ \A r \in Rig, t \in Turn : Idle(r, t) \notin found
  BY KeysApart DEF LookedAt
<1>3. found \subseteq Wrong
  BY WrongOf DEF LookedAt
<1>4. found \in SUBSET Key /\ sweep \in SweepType
  BY StatusesShape DEF SweepInv
<1>5. Reads(found, [sweep EXCEPT !.at = "rigs", !.todo = LookedAt])
  BY DEF ReadsStatuses
<1> HIDE DEF found
<1>6. UNCHANGED floor
  BY <1>4, <1>5, StatusesShape, ReadsShape DEF Came
<1>7. PICK s \in SweepType : /\ sweep' = s /\ s.at = "rigs" /\ s.todo = LookedAt
                             /\ s.due = {} /\ s.blocks = {} /\ s.found = found
  BY <1>1, <1>4, <1>5, StatusesShape, ReadsShape DEF Came
<1>8. \A k \in Wrong : k \in s.found \/ AheadOf(k, s)
  <2>1. SUFFICES ASSUME NEW k \in Wrong PROVE k \in s.found \/ AheadOf(k, s)
    OBVIOUS
  <2>2. CASE \E r \in Rig : k = Silent(r) \/ k = Adrift(r)
    BY <1>2, <1>7, <2>2, WrongOf
  <2>3. CASE \E r \in Rig, t \in Turn : k = Idle(r, t)
    BY <1>7, <2>3, WrongOf DEF AheadOf, LookedAt
  <2>4. CASE k = Behind \/ \E o \in Outage : k = Fact(o)
    BY <1>7, <2>4 DEF AheadOf, Outage
  <2> QED BY <2>2, <2>3, <2>4, WrongKinds
<1>9. Ordered(s) /\ Apart(s)
  BY <1>2, <1>7 DEF Ordered, Apart, LookedAt
<1> QED BY <1>1, <1>3, <1>6, <1>7, <1>8, <1>9, ReadsStep DEF Known, Held, Stage

LEMMA TurnStep ==
    ASSUME TypeOK, TypeOK', SweepInv, Watches, NEW r \in Rig, ReadsTurn(r)
    PROVE  SweepInv'
<1>1. /\ r \in sweep.todo /\ sweep.due = {} /\ sweep # NoSweep /\ sweep.at = "rigs"
      /\ ~Dead(r) /\ Silent(r) \notin sweep.found /\ sweep \in SweepType
  BY DEF ReadsTurn, SweepInv, Ordered, Apart, NoSweep
<1>2. PICK s \in SweepType :
         /\ UNCHANGED floor /\ sweep' = s /\ s.at = "rigs" /\ s.todo = sweep.todo \ {r}
         /\ s.due = Due(r) /\ s.blocks = sweep.blocks /\ s.found = sweep.found
  <2>1. {} \in SUBSET Key /\ sweep.found \cup {} = sweep.found
    OBVIOUS
  <2>2. Shaped([sweep EXCEPT !.todo = @ \ {r}, !.due = Due(r)],
               sweep.at, sweep.todo \ {r}, Due(r), sweep.blocks)
    BY <1>1, TurnShape
  <2>3. Reads({}, [sweep EXCEPT !.todo = @ \ {r}, !.due = Due(r)])
    BY DEF ReadsTurn
  <2>4. /\ UNCHANGED floor
        /\ \E s \in SweepType :
              /\ sweep' = s /\ s.at = sweep.at /\ s.todo = sweep.todo \ {r} /\ s.due = Due(r)
              /\ s.blocks = sweep.blocks /\ s.found = sweep.found \cup {}
    <3> DEFINE next == [sweep EXCEPT !.todo = @ \ {r}, !.due = Due(r)]
               todo == sweep.todo \ {r}
    <3>1. Shaped(next, sweep.at, todo, Due(r), sweep.blocks)
      BY <2>2
    <3>2. Reads({}, next)
      BY <2>3
    <3> HIDE DEF next, todo
    <3>3. Came(sweep.at, todo, Due(r), sweep.blocks, {})
      BY <2>1, <3>1, <3>2, ReadsShape
    <3> QED BY <3>3 DEF todo, Came
  <2> QED BY <1>1, <2>1, <2>4
<1>3. \A d \in Due(r) : d.rig = r /\ d.turn = turn[r] /\ d.since = started[r]
                        /\ turn[r] # Standby /\ turn[r] \in Turn
  BY DEF Due, TypeOK
<1>4. \A d \in s.due : d.since > IdleGrace /\ last[d.rig] > IdleGrace =>
         Idle(d.rig, d.turn) \in Wrong
  BY <1>1, <1>2, <1>3, WrongOf
<1>5. \A k \in watched.always : k \in s.found \/ AheadOf(k, s)
  <2>1. SUFFICES ASSUME NEW k \in watched.always, k \notin s.found PROVE AheadOf(k, s)
    OBVIOUS
  <2>2. k \in Wrong /\ AheadOf(k, sweep)
    BY <1>1, <1>2, <2>1 DEF SweepInv
  <2>3. CASE \E t \in Turn : k = Idle(r, t)
    <3>1. PICK t \in Turn : k = Idle(r, t)
      BY <2>3
    <3>2. turn[r] # Standby /\ started[r] > IdleGrace /\ t = turn[r]
      BY <2>2, <3>1, WrongOf
    <3>3. [rig |-> r, turn |-> turn[r], since |-> started[r]] \in s.due
      BY <1>2, <3>2 DEF Due
    <3> QED BY <3>1, <3>2, <3>3 DEF AheadOf
  <2> QED BY <1>1, <1>2, <2>2, <2>3 DEF AheadOf
<1>6. Ordered(s)
  BY <1>1, <1>2 DEF SweepInv, Ordered, Due
<1>7. Apart(s)
  BY <1>1, <1>2, <1>3 DEF SweepInv, Apart
<1> QED BY <1>1, <1>2, <1>4, <1>5, <1>6, <1>7, ReadsStep DEF SweepInv, Known, Held, Stage

LEMMA LastStep ==
    ASSUME TypeOK, TypeOK', SweepInv, Watches, NEW d \in sweep.due, ReadsLast(d)
    PROVE  SweepInv'
<1>1. /\ d \in DueType /\ sweep # NoSweep /\ sweep.at = "rigs" /\ sweep \in SweepType
      /\ ~Dead(d.rig) /\ Silent(d.rig) \notin sweep.found /\ d.rig \in Rig /\ d.turn \in Turn
  BY DEF ReadsLast, SweepInv, SweepType, DueType, Ordered, Apart, NoSweep
<1>2. PICK s \in SweepType :
         /\ UNCHANGED floor /\ sweep' = s /\ s.at = "rigs" /\ s.todo = sweep.todo
         /\ s.due = {} /\ s.blocks = sweep.blocks /\ s.found = sweep.found \cup IdleFound(d)
  <2>1. /\ IdleFound(d) \in SUBSET Key
        /\ Shaped([sweep EXCEPT !.due = {}], sweep.at, sweep.todo, {}, sweep.blocks)
    BY <1>1, LastShape
  <2>2. Reads(IdleFound(d), [sweep EXCEPT !.due = {}])
    BY DEF ReadsLast
  <2> QED BY <1>1, <2>1, <2>2, ReadsShape DEF Came
<1>3. IdleFound(d) \subseteq watched.ever
  BY <1>1 DEF IdleFound, SweepInv, InHand
<1>4. /\ \A q \in Rig : Silent(q) \notin IdleFound(d) /\ Adrift(q) \notin IdleFound(d)
      /\ \A q \in Rig, t \in Turn : Idle(q, t) \in IdleFound(d) => q = d.rig
  BY KeysApart DEF IdleFound
<1>5. \A k \in watched.always : k \in s.found \/ AheadOf(k, s)
  <2>1. SUFFICES ASSUME NEW k \in watched.always, k \notin s.found PROVE AheadOf(k, s)
    OBVIOUS
  <2>2. k \in Wrong /\ AheadOf(k, sweep)
    BY <1>1, <1>2, <2>1 DEF SweepInv
  <2>3. ~(k = Idle(d.rig, d.turn) /\ d.since > IdleGrace)
    <3>1. SUFFICES ASSUME k = Idle(d.rig, d.turn), d.since > IdleGrace PROVE FALSE
      OBVIOUS
    <3>2. last[d.rig] > IdleGrace
      BY <1>1, <2>2, <3>1, WrongOf
    <3> QED BY <1>2, <2>1, <3>1, <3>2 DEF IdleFound
  <2>4. \A e \in sweep.due : e = d
    BY DEF SweepInv, Ordered
  <2> QED BY <1>1, <1>2, <2>2, <2>3, <2>4 DEF AheadOf
<1>6. Ordered(s)
  BY <1>1, <1>2 DEF SweepInv, Ordered
<1>7. Apart(s)
  <2>1. \A q \in s.todo : ~Dead(q) /\ Silent(q) \notin s.found
    BY <1>1, <1>2, <1>4 DEF SweepInv, Apart, SweepType
  <2>2. \A q \in Rig : Silent(q) \in s.found =>
           Adrift(q) \notin s.found /\ \A t \in Turn : Idle(q, t) \notin s.found
    BY <1>1, <1>2, <1>4 DEF SweepInv, Apart
  <2> QED BY <1>2, <2>1, <2>2 DEF Apart
<1>8. s.found \subseteq Known
  BY <1>1, <1>2, <1>3 DEF SweepInv, Known
<1>9. \A k \in Held : k \in s.found \/ AheadOf(k, s)
  BY <1>1, <1>5 DEF Held
<1>10. s.at \in Stage
  BY <1>2 DEF Stage
<1> QED BY <1>1, <1>2, <1>6, <1>7, <1>8, <1>9, <1>10, ReadsStep

(* The statements after the rigs': each looks for one kind of key.         *)
LEMMA AfterRigs ==
    ASSUME TypeOK, TypeOK', SweepInv, Watches, sweep # NoSweep, UNCHANGED floor,
           sweep.todo = {}, sweep.due = {},
           NEW s \in SweepType, sweep' = s, s.at \in Stage \ {"rigs"},
           s.todo = {}, s.due = {}, s.at # "sheets" => s.blocks = {},
           NEW found \in SUBSET Key, s.found = sweep.found \cup found,
           found \subseteq watched.ever \cup Wrong,
           \A q \in Rig : /\ Silent(q) \notin found /\ Adrift(q) \notin found
                          /\ \A t \in Turn : Idle(q, t) \notin found,
           \A k \in Wrong : AheadOf(k, sweep) => k \in found \/ AheadOf(k, s)
    PROVE  SweepInv'
<1>1. Ordered(s)
  BY DEF Ordered
<1>2. Apart(s)
  BY DEF SweepInv, Apart
<1>3. \A k \in watched.always : k \in s.found \/ AheadOf(k, s)
  BY DEF SweepInv
<1>4. s.found \subseteq Known
  BY DEF SweepInv, Known
<1> QED BY <1>1, <1>2, <1>3, <1>4, ReadsStep DEF Held, Stage

LEMMA LagStep ==
    ASSUME TypeOK, TypeOK', SweepInv, Watches, ReadsLag
    PROVE  SweepInv'
<1> DEFINE found == IF lag > BehindAfter + 1 THEN {Behind} ELSE {}
<1>1. /\ sweep # NoSweep /\ sweep.todo = {} /\ sweep.due = {} /\ sweep.at = "rigs"
      /\ sweep.blocks = {} /\ sweep \in SweepType
  BY DEF ReadsLag, SweepInv, Ordered, NoSweep
<1>2. found \in SUBSET Key /\ found \subseteq Wrong
  BY <1>1, LaterShapes, WrongOf
<1>3. \A q \in Rig : /\ Silent(q) \notin found /\ Adrift(q) \notin found
                     /\ \A t \in Turn : Idle(q, t) \notin found
  BY KeysApart
<1>4. Behind \in Wrong => Behind \in found
  BY WrongOf
<1>5. Reads(found, [sweep EXCEPT !.at = "downtime"])
  BY DEF ReadsLag
<1> HIDE DEF found
<1>6. PICK s \in SweepType :
         /\ UNCHANGED floor /\ sweep' = s /\ s.at = "downtime" /\ s.todo = {} /\ s.due = {}
         /\ s.blocks = {} /\ s.found = sweep.found \cup found
  BY <1>1, <1>2, <1>5, LaterShapes, ReadsShape DEF Came
<1>7. \A k \in Wrong : AheadOf(k, sweep) => k \in found \/ AheadOf(k, s)
  BY <1>1, <1>4, <1>6 DEF AheadOf
<1> QED BY <1>1, <1>2, <1>3, <1>6, <1>7, AfterRigs DEF Stage

LEMMA DowntimeStep ==
    ASSUME TypeOK, TypeOK', SweepInv, Watches, ReadsDowntime
    PROVE  SweepInv'
<1> DEFINE found == {Fact(o) : o \in recorded \cap Down}
<1>1. /\ sweep # NoSweep /\ sweep.todo = {} /\ sweep.due = {} /\ sweep.at = "downtime"
      /\ sweep.blocks = {} /\ sweep \in SweepType
  BY DEF ReadsDowntime, SweepInv, Ordered, NoSweep
<1>2. found \in SUBSET Key /\ found \subseteq Wrong
  BY <1>1, LaterShapes, WrongOf, NamesAssumption DEF Outage
<1>3. \A q \in Rig : /\ Silent(q) \notin found /\ Adrift(q) \notin found
                     /\ \A t \in Turn : Idle(q, t) \notin found
  BY KeysApart
<1>4. \A o \in Down : Fact(o) \in Wrong => Fact(o) \in found
  BY WrongOf DEF Outage
<1>5. Reads(found, [sweep EXCEPT !.at = "faults"])
  BY DEF ReadsDowntime
<1> HIDE DEF found
<1>6. PICK s \in SweepType :
         /\ UNCHANGED floor /\ sweep' = s /\ s.at = "faults" /\ s.todo = {} /\ s.due = {}
         /\ s.blocks = {} /\ s.found = sweep.found \cup found
  BY <1>1, <1>2, <1>5, LaterShapes, ReadsShape DEF Came
<1>7. \A k \in Wrong : AheadOf(k, sweep) => k \in found \/ AheadOf(k, s)
  BY <1>1, <1>4, <1>6 DEF AheadOf
<1> QED BY <1>1, <1>2, <1>3, <1>6, <1>7, AfterRigs DEF Stage

LEMMA FaultsStep ==
    ASSUME TypeOK, TypeOK', SweepInv, Watches, ReadsFaults
    PROVE  SweepInv'
<1> DEFINE found == {Fact(o) : o \in recorded \cap Fault}
<1>1. /\ sweep # NoSweep /\ sweep.todo = {} /\ sweep.due = {} /\ sweep.at = "faults"
      /\ sweep.blocks = {} /\ sweep \in SweepType
  BY DEF ReadsFaults, SweepInv, Ordered, NoSweep
<1>2. found \in SUBSET Key /\ found \subseteq Wrong
  BY <1>1, LaterShapes, WrongOf, NamesAssumption DEF Outage
<1>3. \A q \in Rig : /\ Silent(q) \notin found /\ Adrift(q) \notin found
                     /\ \A t \in Turn : Idle(q, t) \notin found
  BY KeysApart
<1>4. \A o \in Fault : Fact(o) \in Wrong => Fact(o) \in found
  BY WrongOf DEF Outage
<1>5. Reads(found, [sweep EXCEPT !.at = "blocks"])
  BY DEF ReadsFaults
<1> HIDE DEF found
<1>6. PICK s \in SweepType :
         /\ UNCHANGED floor /\ sweep' = s /\ s.at = "blocks" /\ s.todo = {} /\ s.due = {}
         /\ s.blocks = {} /\ s.found = sweep.found \cup found
  BY <1>1, <1>2, <1>5, LaterShapes, ReadsShape DEF Came
<1>7. \A k \in Wrong : AheadOf(k, sweep) => k \in found \/ AheadOf(k, s)
  BY <1>1, <1>4, <1>6 DEF AheadOf
<1> QED BY <1>1, <1>2, <1>3, <1>6, <1>7, AfterRigs DEF Stage

(* A block that is wrong all through the sweep is in the table when the    *)
(* blocks are read, and past its boundary when the sheets are.             *)
LEMMA BlocksStep ==
    ASSUME TypeOK, TypeOK', SweepInv, Watches, ReadsBlocks
    PROVE  SweepInv'
<1>1. /\ sweep # NoSweep /\ sweep.todo = {} /\ sweep.due = {} /\ sweep.at = "blocks"
      /\ sweep \in SweepType
  BY DEF ReadsBlocks, SweepInv, Ordered, NoSweep
<1>2. PICK s \in SweepType :
         /\ UNCHANGED floor /\ sweep' = s /\ s.at = "sheets" /\ s.todo = {} /\ s.due = {}
         /\ s.blocks = recorded \cap Overrun /\ s.found = sweep.found \cup {}
  <2>1. {} \in SUBSET Key
    OBVIOUS
  <2>2. Reads({}, [sweep EXCEPT !.at = "sheets", !.blocks = recorded \cap Overrun])
    BY DEF ReadsBlocks
  <2>3. Shaped([sweep EXCEPT !.at = "sheets", !.blocks = recorded \cap Overrun],
               "sheets", {}, {}, recorded \cap Overrun)
    BY <1>1, BlockShapes
  <2> QED BY <2>1, <2>2, <2>3, ReadsShape DEF Came
<1>3. \A o \in Overrun : Fact(o) \in Wrong => o \in recorded
  BY WrongOf DEF Outage
<1>4. \A k \in Wrong : AheadOf(k, sweep) => k \in {} \/ AheadOf(k, s)
  BY <1>1, <1>2, <1>3 DEF AheadOf
<1> QED BY <1>1, <1>2, <1>4, AfterRigs DEF Stage

LEMMA SheetsStep ==
    ASSUME TypeOK, TypeOK', SweepInv, Watches, ReadsSheets
    PROVE  SweepInv'
<1> DEFINE found == {Fact(o) : o \in sweep.blocks \cap late}
<1>1. /\ sweep # NoSweep /\ sweep.todo = {} /\ sweep.due = {} /\ sweep.at = "sheets"
      /\ sweep \in SweepType
  BY DEF ReadsSheets, SweepInv, Ordered, NoSweep
<1>2. found \in SUBSET Key /\ found \subseteq watched.ever
  BY <1>1, BlockShapes DEF SweepInv, InHand
<1>3. \A q \in Rig : /\ Silent(q) \notin found /\ Adrift(q) \notin found
                     /\ \A t \in Turn : Idle(q, t) \notin found
  BY KeysApart
<1>4. \A o \in Overrun : Fact(o) \in Wrong /\ o \in sweep.blocks => Fact(o) \in found
  BY WrongOf DEF Outage
<1>5. Reads(found, [sweep EXCEPT !.at = "commit", !.blocks = {}])
  BY DEF ReadsSheets
<1> HIDE DEF found
<1>6. PICK s \in SweepType :
         /\ UNCHANGED floor /\ sweep' = s /\ s.at = "commit" /\ s.todo = {} /\ s.due = {}
         /\ s.blocks = {} /\ s.found = sweep.found \cup found
  BY <1>1, <1>2, <1>5, BlockShapes, ReadsShape DEF Came
<1>7. \A k \in Wrong : AheadOf(k, sweep) => k \in found \/ AheadOf(k, s)
  BY <1>1, <1>4, <1>6 DEF AheadOf
<1> QED BY <1>1, <1>2, <1>3, <1>6, <1>7, AfterRigs DEF Stage

(* A sweep that ends, either way, leaves nothing behind.                   *)
LEMMA EndStep ==
    ASSUME Watches, sweep' = NoSweep
    PROVE  SweepInv'
<1>1. watched' = [always |-> {}, ever |-> {}]
  BY DEF Watches
<1>2. /\ sweep' \in SweepType /\ sweep'.at = "between" /\ sweep'.todo = {}
      /\ sweep'.due = {} /\ sweep'.blocks = {} /\ sweep'.found = {}
  BY DEF NoSweep, SweepType
<1> QED BY <1>1, <1>2 DEF SweepInv, NoSweep, Ordered, Apart

--------------------------------------------------------------------------
LEMMA CommitPublishes == ASSUME TypeOK, Commits PROVE open' = sweep.found
BY DEF Commits, Resolved, Raised

LEMMA InitInv == Init => IInv
<1> SUFFICES ASSUME Init PROVE IInv
  OBVIOUS
<1> USE LimitsAssumption
<1>1. TypeOK
  BY DEF Init, TypeOK, NoSweep
<1>2. SweepInv
  BY DEF Init, SweepInv, SweepType, NoSweep, Ordered, Apart
<1>3. OneCauseOneAlert
  BY DEF Init, OneCauseOneAlert
<1> QED BY <1>1, <1>2, <1>3 DEF IInv

LEMMA SweepStep ==
    ASSUME TypeOK, TypeOK', SweepInv, Next
    PROVE  SweepInv'
<1>0. Watches /\ SilentAfter \in Nat /\ ~(0 > SilentAfter)
  BY LimitsAssumption DEF Next
<1>1. ASSUME Tick PROVE SweepInv'
  BY <1>0, <1>1, EndStep DEF Tick
<1>2. ASSUME Moves, NoneDies PROVE SweepInv'
  <2>1. SameWork /\ sweep' \in SweepType
    BY <1>2 DEF Moves, SweepInv, SweepType, SameWork
  <2>2. sweep = NoSweep <=> sweep' = NoSweep
    BY <1>2, <2>1 DEF Moves, SweepInv, SameWork, NoSweep
  <2> QED BY <1>0, <1>2, <2>1, <2>2, FloorStep
<1>3. ASSUME NEW r \in Rig, Pushed(r) PROVE SweepInv'
  <2>1. Moves /\ heard' = heard /\ last' = last
    BY <1>3 DEF Pushed
  <2> QED BY <1>2, <2>1 DEF Dead, NoneDies
<1>4. ASSUME NEW r \in Rig, Beats(r) PROVE SweepInv'
  <2>1. \A q \in Rig : Dead(q)' => Dead(q)
    BY <1>0, <1>4 DEF Beats, Dead, TypeOK
  <2> QED BY <1>2, <1>4, <2>1 DEF Beats, NoneDies
<1>5. ASSUME NEW r \in Rig, Files(r) PROVE SweepInv'
  <2>1. PICK age \in 0..last[r] : last' = [last EXCEPT ![r] = age]
    BY <1>5 DEF Files
  <2>2. \A q \in Rig : last'[q] > IdleGrace => last[q] > IdleGrace
    BY <2>1, LimitsAssumption DEF TypeOK
  <2> QED BY <1>2, <1>5, <2>2 DEF Files, Dead, NoneDies
<1>6. ASSUME Projects \/ Rebuilds PROVE SweepInv'
  <2>1. Moves /\ heard' = heard /\ last' = last
    BY <1>6 DEF Projects, Rebuilds
  <2> QED BY <1>2, <2>1 DEF Dead, NoneDies
<1>7. ASSUME Sweeps PROVE SweepInv'
  <2>1. CASE Commits
    BY <1>0, <2>1, EndStep DEF Commits
  <2> QED BY <1>0, <1>7, <2>1, StatusesStep, TurnStep, LastStep, LagStep,
         DowntimeStep, FaultsStep, BlocksStep, SheetsStep DEF Sweeps
<1>8. ASSUME Fails PROVE SweepInv'
  BY <1>0, <1>8, EndStep DEF Fails, Lost
<1> QED BY <1>1, <1>3, <1>4, <1>5, <1>6, <1>7, <1>8 DEF Next

(* The board changes at a commit alone, and then to what the sweep found;  *)
(* a sweep that comes to its end without a failure has committed.          *)
LEMMA BoardStep ==
    ASSUME TypeOK, SweepInv, Next
    PROVE  /\ open' = open \/ (sweep.at = "commit" /\ open' = sweep.found)
           /\ sweep.at = "commit" /\ sweep' = NoSweep /\ failures' = failures =>
                open' = sweep.found
<1>1. CASE Commits
  BY <1>1, CommitPublishes DEF Commits
<1>2. CASE Fails
  BY <1>2 DEF Fails, TypeOK
<1>3. CASE Sweeps /\ ~Commits
  <2>1. sweep.at # "commit" /\ open' = open
    BY <1>3 DEF Sweeps, ReadsStatuses, ReadsTurn, ReadsLast, ReadsLag, ReadsDowntime,
           ReadsFaults, ReadsBlocks, ReadsSheets, Reads, NoSweep, SweepInv, Ordered
  <2> QED BY <2>1
<1>4. CASE Tick
  BY <1>4 DEF Tick, NoSweep
<1>5. CASE Moves
  <2>1. sweep.at = "commit" => sweep' # NoSweep
    BY <1>5 DEF Moves, NoSweep, SweepInv, SweepType
  <2> QED BY <1>5, <2>1 DEF Moves
<1> QED BY <1>1, <1>2, <1>3, <1>4, <1>5 DEF Next, Pushed, Beats, Files, Projects, Rebuilds

LEMMA Stutter == ASSUME IInv, UNCHANGED vars PROVE IInv'
<1>1. TypeOK' /\ OneCauseOneAlert'
  BY DEF vars, floor, IInv, TypeOK, OneCauseOneAlert, Silent, Adrift, Idle
<1>2. /\ Ordered(sweep)' /\ Apart(sweep)'
      /\ InHand(sweep, watched.ever) => InHand(sweep, watched.ever)'
      /\ Wrong' = Wrong /\ \A k : AheadOf(k, sweep)' <=> AheadOf(k, sweep)
  BY DEF vars, floor, IInv, SweepInv, Ordered, Apart, InHand, AheadOf, Wrong, Dead,
         Silent, Adrift, Idle, Behind, Fact
<1> QED BY <1>1, <1>2 DEF vars, IInv, SweepInv

LEMMA NextKeeps == IInv /\ [Next]_vars => IInv'
<1> SUFFICES ASSUME IInv, [Next]_vars PROVE IInv'
  OBVIOUS
<1>1. CASE UNCHANGED vars
  BY <1>1, Stutter
<1>2. CASE Next
  <2>1. TypeOK'
    BY TypeStep DEF IInv, SweepInv
  <2>2. SweepInv'
    BY <1>2, <2>1, SweepStep DEF IInv
  <2>3. OneCauseOneAlert'
    BY <1>2, BoardStep DEF IInv, OneCauseOneAlert, SweepInv, Apart, Silent, Adrift, Idle
  <2> QED BY <2>1, <2>2, <2>3 DEF IInv
<1> QED BY <1>1, <1>2

LEMMA Inductive == Spec => []IInv
BY InitInv, NextKeeps, PTL DEF Spec

--------------------------------------------------------------------------
(* The floor, the alerts and the sweep keep their types.                   *)
THEOREM TypeCorrect == Spec => []TypeOK
<1>1. IInv => TypeOK
  BY DEF IInv
<1> QED BY <1>1, Inductive, PTL

(* A rig that says nothing is on the board once: as silent, and not as     *)
(* idle or adrift besides.                                                 *)
THEOREM OneCauseCorrect == Spec => []OneCauseOneAlert
<1>1. IInv => OneCauseOneAlert
  BY DEF IInv
<1> QED BY <1>1, Inductive, PTL

(* Whatever else the floor does between its statements, a sweep that       *)
(* commits leaves on the board all that was wrong throughout it and        *)
(* nothing that was wrong at no moment of it.                              *)
THEOREM TruthCorrect == Spec => SweepTellsTheTruth
<1>1. IInv /\ [Next]_vars =>
        [sweep.at = "commit" /\ sweep' = NoSweep /\ failures' = failures =>
            watched.always \subseteq open' /\ open' \subseteq watched.ever]_vars
  <2> SUFFICES ASSUME IInv, Next, sweep.at = "commit", sweep' = NoSweep, failures' = failures
               PROVE  watched.always \subseteq open' /\ open' \subseteq watched.ever
    OBVIOUS
  <2>1. open' = sweep.found /\ sweep # NoSweep
    BY BoardStep DEF IInv, NoSweep
  <2>2. \A k : ~AheadOf(k, sweep)
    BY DEF IInv, SweepInv, Ordered, AheadOf
  <2> QED BY <2>1, <2>2 DEF IInv, SweepInv
<1> QED BY <1>1, Inductive, PTL DEF Spec, SweepTellsTheTruth
============================================================================
