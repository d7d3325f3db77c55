---------------------------- MODULE Throttle ----------------------------
(* The doors of the service that count how often they are knocked on: the  *)
(* token bucket (services/rigs/ratelimit.py), the cool-off after wrong     *)
(* passwords (lockout.py), and the routes that consult them.               *)
(*                                                                         *)
(* Time is relative.  The code keeps absolute instants and refills a       *)
(* bucket when it is next asked; here every tick refills every bucket, up  *)
(* to its burst, and every wait is what is left of it.  A refill that      *)
(* saturates gives the same number either way, and so does a subtraction   *)
(* that stops at zero.                                                     *)
(*                                                                         *)
(* A token is worth Cost units, so that a refill of less than a token per  *)
(* tick (a limit per hour) is a whole number of units.  A refused call     *)
(* changes nothing and is not an action.                                   *)
EXTENDS Naturals, FiniteSetsExt

CONSTANTS
    Address,        \* addresses people and rigs call from
    Loopback,       \* where nginx calls from: the one peer a header is believed of
    Email,          \* the emails typed, whether or not an account has them
    Rig,            \* the rig ids callers may name
    Nobody,         \* the answer of rig_at when no rig, or more than one, is at an address
    RigAddresses,   \* RIG_ADDRESSES: which address each configured rig calls from
    RigTokens,      \* RIG_TOKENS: the token of each rig that has one; empty is off
    Cost, Rate, Burst,      \* per limiter: units a tick refills, tokens at once
    BucketsTracked,         \* MAX_TRACKED of ratelimit.py
    After, FirstWait, MaxWait,      \* Lockout.after, first_wait, max_wait
    Doublings,      \* how often a wait doubles before it is no float: 1024
    StrikesTracked,         \* MAX_TRACKED of lockout.py
    MaxOpen         \* bound: requests the service is in the middle of at once

Limiter == {"login", "reset", "rig"}
Pair == Email \X Address
Key == Address \cup Rig
(* A request to sign in, or to change the password: whose, and whether the *)
(* password it proves is the right one.                                    *)
Attempt == [pair : Pair, right : BOOLEAN, login : BOOLEAN]

(* RateLimiter.__post_init__ never leaves a burst below one.               *)
ASSUME LimitsAssumption ==
    /\ Cost \in Nat \ {0}
    /\ Rate \in [Limiter -> Nat]
    /\ Burst \in [Limiter -> Nat \ {0}]

ASSUME LockoutAssumption ==
    /\ After \in Nat /\ FirstWait \in Nat \ {0} /\ MaxWait \in Nat \ {0}
    /\ Doublings \in Nat \ {0}
    /\ \A n \in 0 .. Doublings : FirstWait * 2 ^ n \in Nat   \* the provers do not know ^

ASSUME WhoAssumption ==
    /\ RigAddresses \in [DOMAIN RigAddresses -> Address]
    /\ Nobody \notin Rig /\ Loopback \notin Address

VARIABLES
    tracked,    \* tracked[l]: the keys limiter l has a bucket for
    tokens,     \* tokens[l][k]: units left in a bucket; a new one starts full
    struck,     \* the pairs the lockout has a strike for
    fails,      \* _Strike.fails
    until,      \* what is left of the cool-off, _Strike.until
    idle,       \* how long ago the pair was last touched, _Strike.seen
    open,       \* open[x]: how many requests like x are in flight
    signedIn,   \* the pairs that are signed in
    \* observers, read by no guard
    drawn,      \* drawn[l][k]: the most any stretch of time ending now was
                \* admitted beyond the rate: max of Cost * calls - Rate * ticks
    cool,       \* what is left of the wait the last wrong password was given
    wrong       \* wrong passwords since the last right one, up to After

vars == <<tracked, tokens, struck, fails, until, idle, open, signedIn, drawn, cool, wrong>>
lockoutVars == <<struck, fails, until, idle, cool, wrong>>
bucketVars == <<tracked, tokens, drawn>>

Lesser(a, b) == IF a < b THEN a ELSE b
Less(a, b) == IF a < b THEN 0 ELSE a - b

--------------------------------------------------------------------------
(* identity.py and auth.py: who is calling.                                *)

(* The address to judge a request by: what the proxy says, when it is the  *)
(* proxy that called.                                                      *)
CallerAddress(peer, realIp) == IF peer = Loopback THEN realIp ELSE peer

(* A request reaches the service from its own socket, or through nginx,    *)
(* which overwrites the header with the peer it saw.                       *)
Hops(a) == {<<a, a>>, <<Loopback, a>>}

RigAt(a) ==
    LET found == {r \in DOMAIN RigAddresses : RigAddresses[r] = a}
    IN  IF Cardinality(found) = 1 THEN CHOOSE r \in found : TRUE ELSE Nobody

(* rig_auth: a token speaks for one rig; with no tokens every rig is       *)
(* trusted.                                                                *)
Authorised(rig, bearer) ==
    \/ RigTokens = <<>>
    \/ rig \in DOMAIN RigTokens /\ bearer = RigTokens[rig]

(* The token rig-config.js gives the machine at this address.              *)
Bearer(a) == IF RigAt(a) \in DOMAIN RigTokens THEN RigTokens[RigAt(a)] ELSE Nobody

--------------------------------------------------------------------------
(* RateLimiter.allow, for a call it lets through.                          *)

Full(l) == Burst[l] * Cost

(* Whose buckets a call leaves alone: a full table turns a new caller away *)
(* sooner than drop anybody's.                                             *)
\* Mutation: a full table makes room, and who was in it starts afresh.
Kept_Evicts(l, k) ==
    IF k \in tracked[l] \/ Cardinality(tracked[l]) < BucketsTracked THEN tracked[l] ELSE {}
Kept(l, k) == tracked[l]

Room(l, k) == k \in tracked[l] \/ Cardinality(Kept(l, k)) < BucketsTracked

Allowed(l, k) == Rate[l] = 0 \/ (Room(l, k) /\ tokens[l][k] >= Cost)

Spend(l, k) ==
    IF Rate[l] = 0 THEN UNCHANGED bucketVars
    ELSE /\ tracked' = [tracked EXCEPT ![l] = Kept(l, k) \cup {k}]
         /\ tokens' = [tokens EXCEPT ![l] =
               [x \in Key |-> IF x = k THEN tokens[l][k] - Cost
                              ELSE IF x \in Kept(l, k) THEN tokens[l][x] ELSE Full(l)]]
         /\ drawn' = [drawn EXCEPT ![l][k] = @ + Cost]

\* Mutation: a quiet hour is saved up.
Refilled_Saved(l, n) == n + Rate[l]
\* Mutation: time refills whole tokens only, and less than one is dropped.
Refilled_WholeTokens(l, n) == Lesser(Full(l), n + (Rate[l] \div Cost) * Cost)
Refilled(l, n) == Lesser(Full(l), n + Rate[l])

--------------------------------------------------------------------------
(* Lockout: check, failed, succeeded, _evict.                              *)

Check(p) == After = 0 \/ until[p] = 0

(* The wait after n failures in a row.  FirstWait doubles for each failure *)
(* beyond After, up to MaxWait.                                            *)
Owed(n) == IF n < After THEN 0 ELSE Lesser(FirstWait * 2 ^ (n - After), MaxWait)

(* Doubled once too often, the wait does not fit a float: failed() raises  *)
(* with the failure counted, and the wait left as it was.  From there on   *)
(* every failure does, so counting stops at the first.                     *)
FailsCounted == After + Doublings
Raises(n) == n >= FailsCounted

\* Mutation: a full table makes room by dropping somebody who still waits.
Stale_Anyone(p) == p \in struck
Stale(p) == until[p] = 0 /\ idle[p] > 2 * MaxWait

(* _evict walks the table only when it is full.                            *)
Evicted == IF Cardinality(struck) < StrikesTracked THEN {} ELSE {p \in struck : Stale(p)}

Failed(p) ==
    LET gone == IF p \in struck THEN {} ELSE Evicted
        kept == struck \ gone
        room == p \in kept \/ Cardinality(kept) < StrikesTracked
        n == Lesser(fails[p] + 1, FailsCounted)
    IN  /\ After > 0
        /\ struck' = IF room THEN kept \cup {p} ELSE kept
        /\ fails' = [x \in Pair |-> IF x \in gone THEN 0
                                    ELSE IF x = p /\ room THEN n ELSE fails[x]]
        /\ until' = [x \in Pair |-> IF x \in gone THEN 0
                                    ELSE IF x = p /\ room /\ ~Raises(n) THEN Owed(n)
                                    ELSE until[x]]
        /\ idle' = [x \in Pair |-> IF x \in gone \/ (x = p /\ room) THEN 0 ELSE idle[x]]
        /\ cool' = [cool EXCEPT ![p] = IF ~room THEN 0 ELSE IF Raises(n) THEN @ ELSE Owed(n)]
        /\ wrong' = [wrong EXCEPT ![p] = Lesser(@ + 1, After)]

Succeeded(p) ==
    /\ struck' = struck \ {p}
    /\ fails' = [fails EXCEPT ![p] = 0]
    /\ until' = [until EXCEPT ![p] = 0]
    /\ idle' = [idle EXCEPT ![p] = 0]
    /\ cool' = [cool EXCEPT ![p] = 0]
    /\ wrong' = [wrong EXCEPT ![p] = 0]

--------------------------------------------------------------------------
(* The routes.                                                             *)

(* A request that has passed the throttles and awaits; one that is over.   *)
Opens(x) ==
    /\ MapThenSumSet(LAMBDA y : open[y], Attempt) < MaxOpen
    /\ open' = [open EXCEPT ![x] = @ + 1]
Closes(x) == open[x] > 0 /\ open' = [open EXCEPT ![x] = @ - 1]

(* POST /auth/login, up to its first await: the lockout is asked before    *)
(* the limiter, so a call made during a cool-off spends no token.          *)
LoginBegins(p, right) == \E hop \in Hops(p[2]) :
    LET a == CallerAddress(hop[1], hop[2])
    IN  /\ p \notin signedIn
        /\ Check(<<p[1], a>>)
        /\ Allowed("login", a)
        /\ Spend("login", a)
        /\ Opens([pair |-> <<p[1], a>>, right |-> right, login |-> TRUE])
        /\ UNCHANGED <<lockoutVars, signedIn>>

(* sign_in answered None: no account, a wrong password, or a disabled one. *)
LoginRefused(p) ==
    /\ Closes([pair |-> p, right |-> FALSE, login |-> TRUE])
    /\ Failed(p)
    /\ UNCHANGED <<bucketVars, signedIn>>

(* The strikes go before the commit is awaited: what comes between finds   *)
(* them gone, as it does after.                                            *)
LoginAnswered(p) ==
    /\ Closes([pair |-> p, right |-> TRUE, login |-> TRUE])
    /\ Succeeded(p)
    /\ signedIn' = signedIn \cup {p}
    /\ UNCHANGED bucketVars

(* The database raised under the request: a 500, and nothing is counted.   *)
Breaks(x) ==
    /\ Closes(x)
    /\ UNCHANGED <<bucketVars, lockoutVars, signedIn>>

(* It breaks under the commit, of a sign-in or of a change: a 500, and the *)
(* strikes are gone all the same.                                          *)
CommitBreaks(p) ==
    /\ \E login \in BOOLEAN : Closes([pair |-> p, right |-> TRUE, login |-> login])
    /\ Succeeded(p)
    /\ UNCHANGED <<bucketVars, signedIn>>

(* POST /auth/password with a wrong current password: checked, verified    *)
(* and counted with no await between.                                      *)
ChangeRefused(p) ==
    /\ p \in signedIn /\ Check(p)
    /\ Failed(p)
    /\ UNCHANGED <<bucketVars, open, signedIn>>

(* With the right one, the writes are awaited before the count is cleared. *)
ChangeBegins(p) ==
    /\ p \in signedIn /\ Check(p)
    /\ Opens([pair |-> p, right |-> TRUE, login |-> FALSE])
    /\ UNCHANGED <<bucketVars, lockoutVars, signedIn>>

ChangeAnswered(p) ==
    /\ Closes([pair |-> p, right |-> TRUE, login |-> FALSE])
    /\ Succeeded(p)
    /\ UNCHANGED <<bucketVars, signedIn>>

SignsOut(p) ==
    /\ p \in signedIn
    /\ signedIn' = signedIn \ {p}
    /\ UNCHANGED <<bucketVars, lockoutVars, open>>

(* POST /auth/reset/request: its own bucket, per address.                  *)
AsksForLink(a) ==
    /\ Allowed("reset", a)
    /\ Spend("reset", a)
    /\ UNCHANGED <<lockoutVars, open, signedIn>>

(* A rig's events or heartbeat: the token first, so the key is a rig       *)
(* somebody owns; then the bucket, which both routes share.                *)
RigCalls(rig, a) ==
    /\ Authorised(rig, Bearer(a))
    /\ Allowed("rig", rig)
    /\ Spend("rig", rig)
    /\ UNCHANGED <<lockoutVars, open, signedIn>>

Tick ==
    /\ tokens' = [l \in Limiter |-> [k \in Key |->
                    IF k \in tracked[l] THEN Refilled(l, tokens[l][k]) ELSE tokens[l][k]]]
    /\ drawn' = [l \in Limiter |-> [k \in Key |-> Less(drawn[l][k], Rate[l])]]
    /\ until' = [p \in Pair |-> Less(until[p], 1)]
    /\ cool' = [p \in Pair |-> Less(cool[p], 1)]
    /\ idle' = [p \in Pair |-> IF p \in struck THEN Lesser(idle[p] + 1, 2 * MaxWait + 1)
                                ELSE idle[p]]
    /\ UNCHANGED <<tracked, struck, fails, open, signedIn, wrong>>

--------------------------------------------------------------------------
Init ==
    /\ tracked = [l \in Limiter |-> {}]
    /\ tokens = [l \in Limiter |-> [k \in Key |-> Full(l)]]
    /\ struck = {}
    /\ fails = [p \in Pair |-> 0]
    /\ until = [p \in Pair |-> 0]
    /\ idle = [p \in Pair |-> 0]
    /\ open = [x \in Attempt |-> 0]
    /\ signedIn = {}
    /\ drawn = [l \in Limiter |-> [k \in Key |-> 0]]
    /\ cool = [p \in Pair |-> 0]
    /\ wrong = [p \in Pair |-> 0]

Answers(p) == LoginRefused(p) \/ LoginAnswered(p) \/ ChangeAnswered(p)

Next ==
    \/ \E p \in Pair, right \in BOOLEAN : LoginBegins(p, right)
    \/ \E p \in Pair : Answers(p) \/ CommitBreaks(p)
    \/ \E x \in Attempt : Breaks(x)
    \/ \E p \in Pair : ChangeBegins(p) \/ ChangeRefused(p) \/ SignsOut(p)
    \/ \E a \in Address : AsksForLink(a)
    \/ \E rig \in Rig, a \in Address : RigCalls(rig, a)
    \/ Tick

Spec == Init /\ [][Next]_vars

(* Time passes, and the service answers what it was asked.                 *)
FairSpec == Spec /\ WF_vars(Tick) /\ \A p \in Pair : WF_vars(Answers(p))

--------------------------------------------------------------------------
(* The variables keep their kinds, and no bucket holds more than a burst.  *)
TypeOK ==
    /\ tracked \in [Limiter -> SUBSET Key]
    /\ tokens \in [Limiter -> [Key -> Nat]]
    /\ \A l \in Limiter, k \in Key : tokens[l][k] <= Full(l)
    /\ struck \in SUBSET Pair
    /\ fails \in [Pair -> Nat] /\ until \in [Pair -> Nat] /\ idle \in [Pair -> Nat]
    /\ open \in [Attempt -> Nat]
    /\ signedIn \in SUBSET Pair
    /\ drawn \in [Limiter -> [Key -> Nat]]
    /\ cool \in [Pair -> Nat] /\ wrong \in [Pair -> Nat]

(* Over no stretch of time is a caller admitted more often than the burst  *)
(* plus what the rate gives for the stretch, however its calls are spaced  *)
(* and however many other callers the table has to hold.                   *)
MeterHolds == \A l \in Limiter, k \in Key :
    Rate[l] > 0 => drawn[l][k] <= Full(l)

(* A wait that was handed out runs its course: no second wrong password in *)
(* flight and no full table ends it, only a right one; and nobody is made  *)
(* to wait who has not himself, at that address, got it wrong After times  *)
(* since he last got it right.                                             *)
CoolOffEarned == \A p \in Pair :
    /\ cool[p] > 0 => until[p] = cool[p]
    /\ until[p] > 0 => wrong[p] >= After

(* "N consecutive failures, then a wait": false of the code once the wait  *)
(* has doubled too often.  No run checks it.                               *)
FailureCosts == [][\A p \in Pair : (LoginRefused(p) \/ ChangeRefused(p)) /\ p \in struck =>
    fails[p] + 1 < After \/ until'[p] > 0]_vars

(* Whoever may try again and again types the right password again and      *)
(* again, and the database does not break under every one.                 *)
KeepsAsking(p) == SF_vars(LoginBegins(p, TRUE)) /\ SF_vars(LoginAnswered(p))

(* Whoever keeps asking gets in: no run of wrong passwords, his own or     *)
(* another's, and no table at its limit, keeps the right one out for ever. *)
(* For those the limiter has a bucket for; once its table is full a new    *)
(* address is refused for good.                                            *)
RightPasswordGetsIn == \A p \in Pair :
    KeepsAsking(p) => ((p[2] \in tracked["login"]) ~> (p \in signedIn))
============================================================================
