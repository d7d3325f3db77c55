------------------------------ MODULE Floor ------------------------------
(* The sweep over the floor: core/workflows/floor.py with the rules of     *)
(* core/rules/floor.py, the alerts it keeps, the heartbeats it waits for,  *)
(* and the worker that runs it, sweep_floor.                               *)
(*                                                                         *)
(* Ages are counted in units of the thresholds, minutes, and stop at one   *)
(* past the threshold: nothing tells older ones apart.  A sweep takes a    *)
(* fraction of a unit, so the clock moves between sweeps; what the rigs,   *)
(* the desk and the projection do comes between its statements as well.    *)
(* A rig that was never heard from counts as one not heard from too long.  *)
(* One sweep worker runs, as it is deployed.                               *)
EXTENDS Naturals, FiniteSets

CONSTANTS
    Rig,
    Turn,           \* names of turns: they come again every day
    Down, Fault, Overrun,   \* what the tables can hold against a rig: an open
                    \* outage, a fault of many shifts, a block past its turn
    Standby,        \* no turn in progress
    SilentAfter, IdleGrace, BehindAfter,    \* silent_after_secs, ...
    MaxFailures,    \* bound: sweeps that fail
    MaxMoves        \* bound: what happens on the floor within one sweep

ASSUME LimitsAssumption ==
    /\ SilentAfter \in Nat /\ IdleGrace \in Nat /\ BehindAfter \in Nat
    /\ MaxFailures \in Nat /\ MaxMoves \in Nat \ {0}
ASSUME NamesAssumption ==
    /\ Standby \notin Turn
    /\ Down \cap Fault = {} /\ Down \cap Overrun = {} /\ Fault \cap Overrun = {}

VARIABLES
    heard,      \* rig_status: the age of the last heartbeat
    adrift,     \* rig_status: its skew was beyond the tolerance
    turn,       \* the turn in progress, of the schedule in force
    started,    \* the age of that turn; 0 without one
    last,       \* the age of the last event of the rig, by the rig's clock
    lag,        \* the age of the oldest event not projected, one more; or 0
    recorded,   \* what the projected tables hold, within the look-back windows
    late,       \* the overruns the sheet pushed last for their shift confirms
    open,       \* the keys of the open alerts
    sweep,      \* the sweep under way, or none
    failures,
    watched     \* observer: what has been wrong all through the sweep, and ever in it

floor == <<heard, adrift, turn, started, last, lag, recorded, late>>
vars == <<floor, open, sweep, failures, watched>>

--------------------------------------------------------------------------
(* The keys: one to a situation.                                           *)

Silent(r) == <<"rig_silent", r>>
Adrift(r) == <<"clock_adrift", r>>
Idle(r, t) == <<"rig_idle", r, t>>
Behind == <<"projection_behind">>
Fact(o) == <<"recorded", o>>
Outage == Down \cup Fault \cup Overrun

Key ==
    {Silent(r) : r \in Rig} \cup {Adrift(r) : r \in Rig}
        \cup {Idle(r, t) : r \in Rig, t \in Turn}
        \cup {Behind} \cup {Fact(o) : o \in Outage}

(* What is wrong on the floor at this moment.                              *)
Dead(r) == heard[r] > SilentAfter
Wrong ==
    {Silent(r) : r \in {x \in Rig : Dead(x)}}
        \cup {Adrift(r) : r \in {x \in Rig : ~Dead(x) /\ adrift[x]}}
        \cup {Idle(r, turn[r]) : r \in
                {x \in Rig : ~Dead(x) /\ turn[x] # Standby /\ started[x] > IdleGrace
                                                  /\ last[x] > IdleGrace}}
        \cup (IF lag > BehindAfter + 1 THEN {Behind} ELSE {})
        \cup {Fact(o) : o \in recorded \ Overrun} \cup {Fact(o) : o \in recorded \cap late}

--------------------------------------------------------------------------
(* What happens on the floor.                                              *)

Older(age, limit) == IF age > limit THEN age ELSE age + 1
NoSweep == [at |-> "between", todo |-> {}, due |-> {}, blocks |-> {}, found |-> {},
            moves |-> 0]
Moves ==
    /\ sweep.moves < MaxMoves
    /\ sweep' = IF sweep = NoSweep THEN sweep ELSE [sweep EXCEPT !.moves = @ + 1]
    /\ UNCHANGED <<open, failures>>

(* Time passes: a turn may begin or the shift end, a fault or a block may  *)
(* fall out of its window.  An event of a clock that runs ahead is not old *)
(* yet.                                                                    *)
Tick ==
    /\ sweep = NoSweep
    /\ heard' = [r \in Rig |-> Older(heard[r], SilentAfter)]
    /\ \E changed \in SUBSET Rig, t \in Turn \cup {Standby} :
          /\ turn' = [r \in Rig |-> IF r \in changed THEN t ELSE turn[r]]
          /\ started' = [r \in Rig |-> IF turn'[r] # turn[r] \/ turn'[r] = Standby THEN 0
                                       ELSE Older(started[r], IdleGrace)]
    /\ \E ahead \in SUBSET {r \in Rig : adrift[r]} :
          last' = [r \in Rig |-> IF r \in ahead THEN last[r] ELSE Older(last[r], IdleGrace)]
    /\ lag' = IF lag = 0 THEN 0 ELSE Older(lag, BehindAfter + 1)
    /\ \E gone \in SUBSET (Fault \cup Overrun) : recorded' = recorded \ gone
    /\ UNCHANGED <<adrift, late, open, sweep, failures>>

(* A push: another sheet in force, whose turn began some other time, and   *)
(* other boundaries for the blocks of its shift.                           *)
Pushed(r) ==
    /\ \E t \in Turn \cup {Standby} : turn' = [turn EXCEPT ![r] = t]
    /\ \E age \in IF turn'[r] = Standby THEN {0} ELSE 0..IdleGrace + 1 :
          started' = [started EXCEPT ![r] = age]
    /\ \E other \in SUBSET Overrun : late' = other
    /\ Moves /\ UNCHANGED <<heard, adrift, last, lag, recorded>>

(* POST heartbeat: an upsert of the rig's one status.                      *)
Beats(r) ==
    /\ heard' = [heard EXCEPT ![r] = 0]
    /\ \E skewed \in BOOLEAN : adrift' = [adrift EXCEPT ![r] = skewed]
    /\ Moves /\ UNCHANGED <<turn, started, last, lag, recorded, late>>

(* An event of the rig is in the ledger, and waits to be projected.  It    *)
(* has its time from the rig, and comes off a journal that may have held   *)
(* it long; the last by that time is what the sweep asks for.              *)
Files(r) ==
    /\ \E age \in 0..last[r] : last' = [last EXCEPT ![r] = age]
    /\ lag' = IF lag = 0 THEN 1 ELSE lag
    /\ Moves /\ UNCHANGED <<heard, adrift, turn, started, recorded, late>>

(* A batch of the projection: facts come, an outage may be closed, and the *)
(* oldest event left is no older.                                          *)
Projects ==
    /\ lag > 0 /\ \E rest \in 0..lag : lag' = rest
    /\ \E facts \in SUBSET Outage : recorded' = (recorded \ Down) \cup facts
    /\ Moves /\ UNCHANGED <<heard, adrift, turn, started, last, late>>

(* A rebuild wipes the tables, and the whole ledger waits again.           *)
Rebuilds ==
    /\ recorded' = {} /\ \E age \in lag..BehindAfter + 2 : lag' = age
    /\ Moves /\ UNCHANGED <<heard, adrift, turn, started, last, late>>

--------------------------------------------------------------------------
(* sweep(): statement by statement.                                        *)

Reads(found, next) ==
    /\ sweep' = [next EXCEPT !.found = @ \cup found]
    /\ UNCHANGED <<floor, open, failures>>

(* The statuses of every rig at once.  A rig nobody can hear is not looked *)
(* at further: one cause, one alert.                                       *)
\* Mutation: the loop goes on with a silent rig.
LookedAt_Everyone == Rig
LookedAt == {r \in Rig : ~Dead(r)}
ReadsStatuses ==
    /\ sweep = NoSweep
    /\ Reads({Silent(r) : r \in {x \in Rig : Dead(x)}}
                 \cup {Adrift(r) : r \in {x \in LookedAt : adrift[x]}},
             [sweep EXCEPT !.at = "rigs", !.todo = LookedAt])

(* in_force and turn_in_progress, for the next rig: nothing scheduled is   *)
(* not idleness.                                                           *)
\* Mutation: it is not asked whether a turn is in progress.
Due_Always(r) == {[rig |-> r, turn |-> turn[r], since |-> started[r]]}
Due(r) == IF turn[r] = Standby THEN {}
          ELSE {[rig |-> r, turn |-> turn[r], since |-> started[r]]}
ReadsTurn(r) ==
    /\ r \in sweep.todo /\ sweep.due = {}
    /\ Reads({}, [sweep EXCEPT !.todo = @ \ {r}, !.due = Due(r)])

(* _last_event_at and rig_idle, for the turn just read.                    *)
IdleFound(d) ==
    IF d.since > IdleGrace /\ last[d.rig] > IdleGrace THEN {Idle(d.rig, d.turn)} ELSE {}
ReadsLast(d) ==
    /\ d \in sweep.due
    /\ Reads(IdleFound(d), [sweep EXCEPT !.due = {}])

(* _projection_lag, projection_behind.                                     *)
ReadsLag ==
    /\ sweep.at = "rigs" /\ sweep.todo = {} /\ sweep.due = {}
    /\ Reads(IF lag > BehindAfter + 1 THEN {Behind} ELSE {}, [sweep EXCEPT !.at = "downtime"])

(* _open_downtime, then _repeat_faults.                                    *)
ReadsDowntime ==
    /\ sweep.at = "downtime"
    /\ Reads({Fact(o) : o \in recorded \cap Down}, [sweep EXCEPT !.at = "faults"])
ReadsFaults ==
    /\ sweep.at = "faults"
    /\ Reads({Fact(o) : o \in recorded \cap Fault}, [sweep EXCEPT !.at = "blocks"])

(* _overruns reads the blocks and _schedules_for the sheets of their       *)
(* shifts, which a push may change in between.                             *)
ReadsBlocks ==
    /\ sweep.at = "blocks"
    /\ Reads({}, [sweep EXCEPT !.at = "sheets", !.blocks = recorded \cap Overrun])
ReadsSheets ==
    /\ sweep.at = "sheets"
    /\ Reads({Fact(o) : o \in sweep.blocks \cap late},
             [sweep EXCEPT !.at = "commit", !.blocks = {}])

(* raise_ leaves a key alone that is open; resolve closes by omission.     *)
Raised(found) == open \cup found
\* Mutation: only what this sweep found is looked at again.
Resolved_Nothing(was, found) == was
Resolved(was, found) == was \cap found
Commits ==
    /\ sweep.at = "commit"
    /\ open' = Resolved(Raised(sweep.found), sweep.found)
    /\ sweep' = NoSweep
    /\ UNCHANGED <<floor, failures>>

(* The database raises, or the worker is stopped and started again: the    *)
(* transaction is lost, and run() tries again after a pause.               *)
\* Mutation: the exception ends the loop.
Lost_ForGood == [NoSweep EXCEPT !.at = "ended"]
Lost == NoSweep
Fails ==
    /\ sweep # NoSweep /\ failures < MaxFailures
    /\ failures' = failures + 1
    /\ sweep' = Lost
    /\ UNCHANGED <<floor, open>>

--------------------------------------------------------------------------
(* An overrun whose block is wiped under the sweep's hands is let pass.    *)
Excused == {Fact(o) : o \in sweep.blocks \ recorded}
Watches ==
    watched' = IF sweep' = NoSweep THEN [always |-> {}, ever |-> {}]
               ELSE IF sweep = NoSweep THEN [always |-> Wrong, ever |-> Wrong]
               ELSE [always |-> watched.always \cap Wrong',
                     ever |-> watched.ever \cup Wrong' \cup Excused']

Init ==
    /\ heard = [r \in Rig |-> SilentAfter + 1] /\ adrift = [r \in Rig |-> FALSE]
    /\ turn = [r \in Rig |-> Standby] /\ started = [r \in Rig |-> 0]
    /\ last = [r \in Rig |-> IdleGrace + 1]
    /\ lag = 0 /\ recorded = {} /\ late = {} /\ open = {} /\ sweep = NoSweep
    /\ failures = 0 /\ watched = [always |-> {}, ever |-> {}]

Sweeps ==
    \/ ReadsStatuses \/ (\E r \in Rig : ReadsTurn(r)) \/ (\E d \in sweep.due : ReadsLast(d))
    \/ ReadsLag \/ ReadsDowntime \/ ReadsFaults \/ ReadsBlocks \/ ReadsSheets \/ Commits

Next ==
    /\ \/ Tick \/ Projects \/ Rebuilds \/ Fails \/ Sweeps
       \/ \E r \in Rig : Pushed(r) \/ Beats(r) \/ Files(r)
    /\ Watches

Spec == Init /\ [][Next]_vars

(* The worker goes on with its sweep, and begins another after each.       *)
FairSpec == Spec /\ WF_vars(Sweeps /\ Watches)

--------------------------------------------------------------------------
TypeOK ==
    /\ heard \in [Rig -> 0..SilentAfter + 1] /\ adrift \in [Rig -> BOOLEAN]
    /\ turn \in [Rig -> Turn \cup {Standby}] /\ started \in [Rig -> 0..IdleGrace + 1]
    /\ last \in [Rig -> 0..IdleGrace + 1] /\ lag \in 0..BehindAfter + 2
    /\ recorded \subseteq Outage /\ late \subseteq Overrun
    /\ open \subseteq Key /\ sweep.found \subseteq Key /\ sweep.todo \subseteq Rig
    /\ sweep.due \subseteq [rig : Rig, turn : Turn, since : 0..IdleGrace + 1]
    /\ sweep.blocks \subseteq Overrun
    /\ failures \in 0..MaxFailures

(* One cause, one alert: a rig that nobody can hear is not on the board as *)
(* idle or adrift too, whatever was found of it before it went silent.     *)
OneCauseOneAlert == \A r \in Rig : Silent(r) \in open =>
    Adrift(r) \notin open /\ \A t \in Turn : Idle(r, t) \notin open

(* A sweep that commits, whether or not the board changes by it, leaves on *)
(* the board all that was wrong throughout it, and nothing that was wrong  *)
(* at no moment of it, though the floor moves between its statements.      *)
SweepTellsTheTruth == [][
    sweep.at = "commit" /\ sweep' = NoSweep /\ failures' = failures =>
        watched.always \subseteq open' /\ open' \subseteq watched.ever]_vars

(* What stays wrong comes to stand on the board, what is over leaves it,   *)
(* past sweeps that fail: of a turn nobody came for and of a rig without   *)
(* power nothing else will ever tell.                                      *)
BoardSettles == \A k \in Key :
    /\ <>[](k \in Wrong) => <>[](k \in open)
    /\ <>[](k \notin Wrong) => <>[](k \notin open)
============================================================================
