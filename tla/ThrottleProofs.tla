------------------------- MODULE ThrottleProofs -------------------------
(* What the throttles promise, for every burst, rate, table size and       *)
(* cool-off, and for any number of callers and requests in flight.         *)
EXTENDS Throttle, TLAPS

(* A key that never asked owes nothing, and what a caller drew beyond the  *)
(* rate is missing from its bucket.                                        *)
Meter ==
    \A l \in Limiter, k \in Key :
        /\ k \notin tracked[l] => tokens[l][k] = Full(l)
        /\ Rate[l] > 0 => drawn[l][k] + tokens[l][k] <= Full(l)

(* A pair nobody tracks owes nothing; a tracked one owes what it was told, *)
(* and its strike never counts a failure that did not happen.              *)
Ledger ==
    \A p \in Pair :
        /\ p \notin struck => fails[p] = 0 /\ until[p] = 0 /\ cool[p] = 0
        /\ until[p] = cool[p]
        /\ Lesser(fails[p], After) <= wrong[p]
        /\ until[p] > 0 => wrong[p] >= After

BucketsOK ==
    /\ tracked \in [Limiter -> SUBSET Key]
    /\ tokens \in [Limiter -> [Key -> Nat]]
    /\ \A l \in Limiter, k \in Key : tokens[l][k] <= Full(l)
    /\ drawn \in [Limiter -> [Key -> Nat]]

LockoutOK ==
    /\ struck \in SUBSET Pair
    /\ fails \in [Pair -> Nat] /\ until \in [Pair -> Nat] /\ idle \in [Pair -> Nat]
    /\ cool \in [Pair -> Nat] /\ wrong \in [Pair -> Nat]

RoutesOK == open \in [Attempt -> Nat] /\ signedIn \in SUBSET Pair

--------------------------------------------------------------------------
LEMMA FullIsNat == \A l \in Limiter : Full(l) \in Nat /\ Cost <= Full(l)
<1> SUFFICES ASSUME NEW l \in Limiter PROVE Full(l) \in Nat /\ Cost <= Full(l)
  OBVIOUS
<1>1. Burst[l] \in Nat \ {0} /\ Cost \in Nat \ {0}
  BY LimitsAssumption
<1> QED BY <1>1 DEF Full

(* What a call that is let through does to the buckets.                    *)
LEMMA SpendKeeps ==
    ASSUME BucketsOK, Meter, NEW l \in Limiter, NEW k \in Key, Allowed(l, k), Spend(l, k)
    PROVE  BucketsOK' /\ Meter'
<1>0. Cost \in Nat \ {0} /\ Rate \in [Limiter -> Nat] /\ Cost <= Full(l)
      /\ \A m \in Limiter : Full(m) \in Nat
  BY LimitsAssumption, FullIsNat
<1>1. CASE Rate[l] = 0
  BY <1>1 DEF Spend, bucketVars, BucketsOK, Meter, Full
<1>2. CASE Rate[l] # 0
  <2>1. /\ tracked' = [tracked EXCEPT ![l] = @ \cup {k}]
        /\ tokens' = [tokens EXCEPT ![l] =
              [x \in Key |-> IF x = k THEN tokens[l][k] - Cost
                             ELSE IF x \in tracked[l] THEN tokens[l][x] ELSE Full(l)]]
        /\ drawn' = [drawn EXCEPT ![l][k] = @ + Cost]
        /\ tokens[l][k] >= Cost
    BY <1>2 DEF Spend, Allowed, Kept, BucketsOK
  <2>2. BucketsOK'
    <3> DEFINE b == [x \in Key |-> IF x = k THEN tokens[l][k] - Cost
                                   ELSE IF x \in tracked[l] THEN tokens[l][x] ELSE Full(l)]
    <3>1. b \in [Key -> Nat] /\ \A x \in Key : b[x] <= Full(l)
      BY <1>0, <2>1 DEF BucketsOK
    <3>2. tokens' = [tokens EXCEPT ![l] = b]
      BY <2>1
    <3> HIDE DEF b
    <3>3. tokens' \in [Limiter -> [Key -> Nat]]
      BY <3>1, <3>2 DEF BucketsOK
    <3>4. \A m \in Limiter, x \in Key : tokens'[m][x] <= Full(m)
      BY <3>1, <3>2 DEF BucketsOK
    <3>5. tracked' \in [Limiter -> SUBSET Key] /\ drawn' \in [Limiter -> [Key -> Nat]]
      BY <1>0, <2>1 DEF BucketsOK
    <3> QED BY <3>3, <3>4, <3>5 DEF BucketsOK, Full
  <2>3. Meter'
    <3> SUFFICES ASSUME NEW m \in Limiter, NEW x \in Key
                 PROVE  /\ x \notin tracked'[m] => tokens'[m][x] = Full(m)
                        /\ Rate[m] > 0 => drawn'[m][x] + tokens'[m][x] <= Full(m)
      BY DEF Meter, Full
    <3>1. CASE m = l /\ x = k
      <4>1. /\ tokens'[m][x] = tokens[l][k] - Cost /\ drawn'[m][x] = drawn[l][k] + Cost
            /\ x \in tracked'[m]
        BY <2>1, <3>1 DEF BucketsOK
      <4>2. /\ tokens[l][k] \in Nat /\ drawn[l][k] \in Nat
            /\ Rate[l] > 0 => drawn[l][k] + tokens[l][k] <= Full(l)
        BY DEF BucketsOK, Meter
      <4> QED BY <1>0, <3>1, <4>1, <4>2
    <3>2. CASE ~(m = l /\ x = k)
      <4>1. drawn'[m][x] = drawn[m][x] /\ (x \in tracked'[m] <=> x \in tracked[m])
        BY <2>1, <3>2 DEF BucketsOK
      <4>2. tokens'[m][x] = tokens[m][x]
        BY <2>1, <3>2 DEF BucketsOK, Meter
      <4> QED BY <4>1, <4>2 DEF Meter
    <3> QED BY <3>1, <3>2
  <2> QED BY <2>2, <2>3
<1> QED BY <1>1, <1>2

(* Time gives a bucket no more than it takes off what was drawn.           *)
LEMMA TickKeepsBuckets ==
    ASSUME BucketsOK, Meter, Tick
    PROVE  BucketsOK' /\ Meter'
<1>0. /\ Rate \in [Limiter -> Nat]
      /\ \A m \in Limiter : Full(m) \in Nat
  BY LimitsAssumption, FullIsNat
<1>1. /\ tracked' = tracked
      /\ \A l \in Limiter, k \in Key :
            /\ tokens'[l][k] = IF k \in tracked[l] THEN Refilled(l, tokens[l][k]) ELSE tokens[l][k]
            /\ drawn'[l][k] = Less(drawn[l][k], Rate[l])
  BY DEF Tick
<1>2. \A l \in Limiter, k \in Key :
         /\ tokens'[l][k] \in Nat /\ tokens'[l][k] <= Full(l)
         /\ drawn'[l][k] \in Nat
         /\ k \notin tracked[l] => tokens'[l][k] = Full(l)
         /\ Rate[l] > 0 => drawn'[l][k] + tokens'[l][k] <= Full(l)
  <2> SUFFICES ASSUME NEW l \in Limiter, NEW k \in Key
               PROVE  /\ tokens'[l][k] \in Nat /\ tokens'[l][k] <= Full(l)
                      /\ drawn'[l][k] \in Nat
                      /\ k \notin tracked[l] => tokens'[l][k] = Full(l)
                      /\ Rate[l] > 0 => drawn'[l][k] + tokens'[l][k] <= Full(l)
    OBVIOUS
  <2>1. /\ tokens[l][k] \in Nat /\ drawn[l][k] \in Nat /\ tokens[l][k] <= Full(l)
        /\ k \notin tracked[l] => tokens[l][k] = Full(l)
        /\ Rate[l] > 0 => drawn[l][k] + tokens[l][k] <= Full(l)
        /\ Rate[l] \in Nat /\ Full(l) \in Nat
    BY <1>0 DEF BucketsOK, Meter
  <2> QED BY <1>1, <2>1 DEF Refilled, Lesser, Less
<1>3. /\ tokens' \in [Limiter -> [Key -> Nat]]
      /\ drawn' \in [Limiter -> [Key -> Nat]]
  <2>1. /\ tokens' = [l \in Limiter |-> [k \in Key |-> tokens'[l][k]]]
        /\ drawn' = [l \in Limiter |-> [k \in Key |-> drawn'[l][k]]]
    BY DEF Tick
  <2> QED BY <1>2, <2>1
<1> QED BY <1>1, <1>2, <1>3 DEF BucketsOK, Meter, Full

--------------------------------------------------------------------------
LEMMA OwedIsNat == \A n \in 0 .. FailsCounted : Owed(n) \in Nat /\ (Owed(n) > 0 => n >= After)
<1> SUFFICES ASSUME NEW n \in 0 .. FailsCounted
             PROVE  Owed(n) \in Nat /\ (Owed(n) > 0 => n >= After)
  OBVIOUS
<1>0. After \in Nat /\ MaxWait \in Nat /\ Doublings \in Nat
  BY LockoutAssumption
<1>1. CASE n < After
  BY <1>1 DEF Owed
<1>2. CASE ~(n < After)
  <2>1. n - After \in 0 .. Doublings
    BY <1>0, <1>2 DEF FailsCounted
  <2>2. FirstWait * 2 ^ (n - After) \in Nat
    BY <2>1, LockoutAssumption
  <2> QED BY <1>0, <1>2, <2>2 DEF Owed, Lesser
<1> QED BY <1>1, <1>2

(* A wrong password: whoever is dropped waits for nothing, and the wait    *)
(* written down is the wait that was told.                                 *)
LEMMA FailedKeeps ==
    ASSUME LockoutOK, Ledger, NEW p \in Pair, Failed(p)
    PROVE  LockoutOK' /\ Ledger'
<1> DEFINE gone == IF p \in struck THEN {} ELSE Evicted
           kept == struck \ gone
           room == p \in kept \/ Cardinality(kept) < StrikesTracked
           n == Lesser(fails[p] + 1, FailsCounted)
<1>0. After \in Nat \ {0} /\ MaxWait \in Nat \ {0} /\ Doublings \in Nat \ {0}
  BY LockoutAssumption DEF Failed
<1>1. /\ struck' = IF room THEN kept \cup {p} ELSE kept
      /\ fails' = [x \in Pair |-> IF x \in gone THEN 0
                                  ELSE IF x = p /\ room THEN n ELSE fails[x]]
      /\ until' = [x \in Pair |-> IF x \in gone THEN 0
                                  ELSE IF x = p /\ room /\ ~Raises(n) THEN Owed(n)
                                  ELSE until[x]]
      /\ idle' = [x \in Pair |-> IF x \in gone \/ (x = p /\ room) THEN 0 ELSE idle[x]]
      /\ cool' = [cool EXCEPT ![p] = IF ~room THEN 0 ELSE IF Raises(n) THEN @ ELSE Owed(n)]
      /\ wrong' = [wrong EXCEPT ![p] = Lesser(@ + 1, After)]
  BY DEF Failed
<1>2. gone \subseteq struck /\ p \notin gone /\ \A x \in gone : until[x] = 0
  BY DEF Evicted, Stale
<1>3. n \in 0 .. FailsCounted /\ n <= fails[p] + 1
  BY <1>0 DEF LockoutOK, FailsCounted, Lesser
<1>4. Owed(n) \in Nat /\ (Owed(n) > 0 => n >= After)
  BY <1>3, OwedIsNat
<1> HIDE DEF gone, room, n
<1>5. LockoutOK'
  <2>1. struck' \in SUBSET Pair
    BY <1>1, <1>2 DEF LockoutOK
  <2>2. fails' \in [Pair -> Nat] /\ until' \in [Pair -> Nat] /\ idle' \in [Pair -> Nat]
    BY <1>1, <1>3, <1>4 DEF LockoutOK
  <2>3. cool' \in [Pair -> Nat] /\ wrong' \in [Pair -> Nat]
    BY <1>0, <1>1, <1>4 DEF LockoutOK, Lesser
  <2> QED BY <2>1, <2>2, <2>3 DEF LockoutOK
<1>6. Ledger'
  <2> SUFFICES ASSUME NEW x \in Pair
               PROVE  /\ x \notin struck' => fails'[x] = 0 /\ until'[x] = 0 /\ cool'[x] = 0
                      /\ until'[x] = cool'[x]
                      /\ Lesser(fails'[x], After) <= wrong'[x]
                      /\ until'[x] > 0 => wrong'[x] >= After
    BY DEF Ledger
  <2>0. /\ fails[x] \in Nat /\ until[x] \in Nat /\ cool[x] \in Nat /\ wrong[x] \in Nat
        /\ x \notin struck => fails[x] = 0 /\ until[x] = 0 /\ cool[x] = 0
        /\ until[x] = cool[x]
        /\ Lesser(fails[x], After) <= wrong[x]
        /\ until[x] > 0 => wrong[x] >= After
    BY DEF LockoutOK, Ledger
  <2>1. CASE x = p /\ room
    <3>1. /\ x \in struck' /\ fails'[x] = n
          /\ until'[x] = IF Raises(n) THEN until[x] ELSE Owed(n)
          /\ cool'[x] = IF Raises(n) THEN cool[x] ELSE Owed(n)
          /\ wrong'[x] = Lesser(wrong[x] + 1, After)
      BY <1>1, <1>2, <2>1 DEF LockoutOK
    <3>2. Lesser(n, After) <= Lesser(wrong[x] + 1, After)
      BY <1>0, <1>3, <2>0, <2>1 DEF Lesser, FailsCounted
    <3>3. n >= After => Lesser(wrong[x] + 1, After) >= After
      BY <1>0, <1>3, <2>0, <2>1, <3>2 DEF Lesser, FailsCounted
    <3>4. wrong[x] >= After => Lesser(wrong[x] + 1, After) >= After
      BY <1>0, <2>0 DEF Lesser
    <3> QED BY <1>4, <2>0, <3>1, <3>2, <3>3, <3>4
  <2>2. CASE x = p /\ ~room
    <3>1. p \notin struck
      BY <1>2, <2>2 DEF room
    <3>2. /\ fails'[x] = fails[x] /\ until'[x] = until[x] /\ cool'[x] = 0
          /\ wrong'[x] = Lesser(wrong[x] + 1, After)
      BY <1>1, <1>2, <2>2 DEF LockoutOK
    <3> QED BY <1>0, <2>0, <2>2, <3>1, <3>2 DEF Lesser
  <2>3. CASE x # p /\ x \in gone
    <3>1. fails'[x] = 0 /\ until'[x] = 0 /\ cool'[x] = cool[x] /\ wrong'[x] = wrong[x]
      BY <1>1, <2>3 DEF LockoutOK
    <3> QED BY <1>0, <1>2, <2>0, <2>3, <3>1 DEF Lesser
  <2>4. CASE x # p /\ x \notin gone
    <3>1. /\ fails'[x] = fails[x] /\ until'[x] = until[x] /\ cool'[x] = cool[x]
          /\ wrong'[x] = wrong[x] /\ (x \in struck' <=> x \in struck)
      BY <1>1, <2>4 DEF LockoutOK
    <3> QED BY <2>0, <3>1
  <2> QED BY <2>1, <2>2, <2>3, <2>4
<1> QED BY <1>5, <1>6

LEMMA SucceededKeeps ==
    ASSUME LockoutOK, Ledger, NEW p \in Pair, Succeeded(p)
    PROVE  LockoutOK' /\ Ledger'
<1>0. After \in Nat
  BY LockoutAssumption
<1>1. LockoutOK'
  BY DEF Succeeded, LockoutOK
<1>2. Ledger'
  BY <1>0 DEF Succeeded, LockoutOK, Ledger, Lesser
<1> QED BY <1>1, <1>2

LEMMA TickKeepsLockout ==
    ASSUME LockoutOK, Ledger, Tick
    PROVE  LockoutOK' /\ Ledger'
<1>0. After \in Nat /\ MaxWait \in Nat
  BY LockoutAssumption
<1>1. LockoutOK'
  BY <1>0 DEF Tick, LockoutOK, Less, Lesser
<1>2. Ledger'
  BY <1>0 DEF Tick, LockoutOK, Ledger, Less, Lesser
<1> QED BY <1>1, <1>2

--------------------------------------------------------------------------
(* The inductive invariant.                                                *)
IInv == BucketsOK /\ Meter /\ LockoutOK /\ Ledger /\ RoutesOK

LEMMA InitIInv == Init => IInv
<1> SUFFICES ASSUME Init PROVE IInv
  OBVIOUS
<1>0. After \in Nat /\ \A l \in Limiter : Full(l) \in Nat
  BY LockoutAssumption, FullIsNat
<1>1. BucketsOK /\ Meter
  BY <1>0 DEF Init, BucketsOK, Meter
<1>2. LockoutOK /\ Ledger
  BY <1>0 DEF Init, LockoutOK, Ledger, Lesser
<1>3. RoutesOK
  BY DEF Init, RoutesOK
<1> QED BY <1>1, <1>2, <1>3 DEF IInv

LEMMA RoutesKept ==
    ASSUME RoutesOK, NEW x \in Attempt, Opens(x) \/ Closes(x)
    PROVE  open' \in [Attempt -> Nat]
<1>1. CASE Opens(x)
  BY <1>1 DEF RoutesOK, Opens
<1>2. CASE Closes(x)
  BY <1>2 DEF RoutesOK, Closes
<1> QED BY <1>1, <1>2

(* The address a request is judged by is the one it came from, whichever   *)
(* way it came: the keys of the login throttles are the callers' own.      *)
LEMMA HopsName ==
    ASSUME NEW a \in Address, NEW hop \in Hops(a)
    PROVE  CallerAddress(hop[1], hop[2]) = a
BY WhoAssumption DEF Hops, CallerAddress

LEMMA NextIInv == IInv /\ [Next]_vars => IInv'
<1> SUFFICES ASSUME IInv, [Next]_vars PROVE IInv'
  OBVIOUS
<1> USE DEF IInv
<1>s. ASSUME UNCHANGED lockoutVars PROVE LockoutOK' /\ Ledger'
  BY <1>s DEF lockoutVars, LockoutOK, Ledger
<1>b. ASSUME UNCHANGED bucketVars PROVE BucketsOK' /\ Meter'
  BY <1>b DEF bucketVars, BucketsOK, Meter, Full
<1>k. Address \subseteq Key /\ Rig \subseteq Key /\ "login" \in Limiter /\ "reset" \in Limiter
      /\ "rig" \in Limiter /\ \A p \in Pair : p[2] \in Address /\ p = <<p[1], p[2]>>
  BY DEF Key, Limiter, Pair
<1>1. ASSUME NEW p \in Pair, NEW right \in BOOLEAN, LoginBegins(p, right) PROVE IInv'
  <2>1. PICK hop \in Hops(p[2]) :
          LET a == CallerAddress(hop[1], hop[2])
          IN  /\ Allowed("login", a) /\ Spend("login", a)
              /\ Opens([pair |-> <<p[1], a>>, right |-> right, login |-> TRUE])
              /\ UNCHANGED <<lockoutVars, signedIn>>
    BY <1>1 DEF LoginBegins
  <2>2. CallerAddress(hop[1], hop[2]) = p[2] /\ p[2] \in Key
    BY <1>k, HopsName
  <2>3. BucketsOK' /\ Meter'
    BY <1>k, <2>1, <2>2, SpendKeeps
  <2>4. RoutesOK'
    <3>1. [pair |-> <<p[1], p[2]>>, right |-> right, login |-> TRUE] \in Attempt
      BY <1>k DEF Attempt
    <3> QED BY <2>1, <2>2, <3>1, RoutesKept DEF RoutesOK
  <2> QED BY <1>s, <2>1, <2>3, <2>4
<1>2. ASSUME NEW p \in Pair, LoginRefused(p) PROVE IInv'
  <2>1. [pair |-> p, right |-> FALSE, login |-> TRUE] \in Attempt
    BY DEF Attempt
  <2>2. RoutesOK'
    BY <1>2, <2>1, RoutesKept DEF LoginRefused, RoutesOK
  <2> QED BY <1>2, <1>b, <2>2, FailedKeeps DEF LoginRefused
<1>3. ASSUME NEW p \in Pair, LoginAnswered(p) PROVE IInv'
  <2>1. [pair |-> p, right |-> TRUE, login |-> TRUE] \in Attempt
    BY DEF Attempt
  <2>2. RoutesOK'
    BY <1>3, <2>1, RoutesKept DEF LoginAnswered, RoutesOK
  <2> QED BY <1>3, <1>b, <2>2, SucceededKeeps DEF LoginAnswered
<1>4. ASSUME NEW p \in Pair, ChangeAnswered(p) PROVE IInv'
  <2>1. [pair |-> p, right |-> TRUE, login |-> FALSE] \in Attempt
    BY DEF Attempt
  <2>2. RoutesOK'
    BY <1>4, <2>1, RoutesKept DEF ChangeAnswered, RoutesOK
  <2> QED BY <1>4, <1>b, <2>2, SucceededKeeps DEF ChangeAnswered
<1>13. ASSUME NEW p \in Pair, CommitBreaks(p) PROVE IInv'
  <2>1. PICK login \in BOOLEAN : Closes([pair |-> p, right |-> TRUE, login |-> login])
    BY <1>13 DEF CommitBreaks
  <2>2. [pair |-> p, right |-> TRUE, login |-> login] \in Attempt
    BY DEF Attempt
  <2>3. RoutesOK'
    BY <1>13, <2>1, <2>2, RoutesKept DEF CommitBreaks, RoutesOK
  <2> QED BY <1>13, <1>b, <2>3, SucceededKeeps DEF CommitBreaks
<1>5. ASSUME NEW x \in Attempt, Breaks(x) PROVE IInv'
  <2>1. RoutesOK'
    BY <1>5, RoutesKept DEF Breaks, RoutesOK
  <2> QED BY <1>5, <1>b, <1>s, <2>1 DEF Breaks
<1>6. ASSUME NEW p \in Pair, ChangeBegins(p) PROVE IInv'
  <2>1. [pair |-> p, right |-> TRUE, login |-> FALSE] \in Attempt
    BY DEF Attempt
  <2>2. RoutesOK'
    BY <1>6, <2>1, RoutesKept DEF ChangeBegins, RoutesOK
  <2> QED BY <1>6, <1>b, <1>s, <2>2 DEF ChangeBegins
<1>7. ASSUME NEW p \in Pair, ChangeRefused(p) PROVE IInv'
  <2>1. RoutesOK'
    BY <1>7 DEF ChangeRefused, RoutesOK
  <2> QED BY <1>7, <1>b, <2>1, FailedKeeps DEF ChangeRefused
<1>8. ASSUME NEW p \in Pair, SignsOut(p) PROVE IInv'
  <2>1. RoutesOK'
    BY <1>8 DEF SignsOut, RoutesOK
  <2> QED BY <1>8, <1>b, <1>s, <2>1 DEF SignsOut
<1>9. ASSUME NEW a \in Address, AsksForLink(a) PROVE IInv'
  <2>1. RoutesOK'
    BY <1>9 DEF AsksForLink, RoutesOK
  <2>2. BucketsOK' /\ Meter'
    BY <1>9, <1>k, SpendKeeps DEF AsksForLink
  <2> QED BY <1>9, <1>s, <2>1, <2>2 DEF AsksForLink
<1>10. ASSUME NEW rig \in Rig, NEW a \in Address, RigCalls(rig, a) PROVE IInv'
  <2>1. RoutesOK'
    BY <1>10 DEF RigCalls, RoutesOK
  <2>2. BucketsOK' /\ Meter'
    BY <1>10, <1>k, SpendKeeps DEF RigCalls
  <2> QED BY <1>10, <1>s, <2>1, <2>2 DEF RigCalls
<1>11. CASE Tick
  <2>1. RoutesOK'
    BY <1>11 DEF Tick, RoutesOK
  <2> QED BY <1>11, <2>1, TickKeepsBuckets, TickKeepsLockout
<1>12. CASE UNCHANGED vars
  <2>1. UNCHANGED lockoutVars /\ UNCHANGED bucketVars /\ RoutesOK'
    BY <1>12 DEF vars, lockoutVars, bucketVars, RoutesOK
  <2> QED BY <1>b, <1>s, <2>1
<1> QED
  BY <1>1, <1>2, <1>3, <1>4, <1>5, <1>6, <1>7, <1>8, <1>9, <1>10, <1>11, <1>12, <1>13 DEF Next, Answers

LEMMA IInvEnough == IInv => TypeOK /\ MeterHolds /\ CoolOffEarned
<1> SUFFICES ASSUME IInv PROVE TypeOK /\ MeterHolds /\ CoolOffEarned
  OBVIOUS
<1>1. TypeOK
  BY DEF IInv, BucketsOK, LockoutOK, RoutesOK, TypeOK
<1>2. MeterHolds
  <2>1. \A l \in Limiter : Full(l) \in Nat
    BY FullIsNat
  <2> QED BY <2>1 DEF IInv, BucketsOK, Meter, MeterHolds
<1>3. CoolOffEarned
  BY DEF IInv, Ledger, CoolOffEarned
<1> QED BY <1>1, <1>2, <1>3

THEOREM Inductive == Spec => []IInv
BY InitIInv, NextIInv, PTL DEF Spec

(* The tables of the throttles keep their shape and no bucket overflows.   *)
THEOREM TypeCorrect == Spec => []TypeOK
BY Inductive, IInvEnough, PTL

(* allow() never lets a caller beyond the burst and the rate, over any     *)
(* stretch of time: RateLimiter.allow, the three routes that ask it.       *)
THEOREM MeterCorrect == Spec => []MeterHolds
BY Inductive, IInvEnough, PTL

(* A cool-off lasts as long as it was told, and only whoever failed waits: *)
(* Lockout.failed, _evict and succeeded with requests in flight.           *)
THEOREM CoolOffCorrect == Spec => []CoolOffEarned
BY Inductive, IInvEnough, PTL
=============================================================================
