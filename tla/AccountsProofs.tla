-------------------------- MODULE AccountsProofs --------------------------
(* A link sets one password, and a new password ends every session there   *)
(* is, for any people, accounts and number of requests at once, wherever   *)
(* between their statements they are interleaved; and type correctness,    *)
(* where the identities of rows do not run out.                            *)
EXTENDS Accounts, SequenceTheorems, FiniteSetTheorems, TLAPS

(* What a request may still have to do.                                    *)
Last == <<"commit">>
Void == <<"void", "commit">>
Look == <<"look", "void", "commit">>
Revoke == <<"revoke", "look", "void", "commit">>
Again == <<"look", "void", "look", "void", "commit">>
AgainVoid == <<"void", "look", "void", "commit">>
Invited == <<"insert", "look", "void", "look", "void", "commit">>
Spend == <<"spend", "lock", "revoke", "look", "void", "commit">>
ToolRevoke == <<"revoke", "commit">>

Rest(kind) ==
    CASE kind = "login" -> {<<"lock", "commit">>, Last}
      [] kind = "change" -> {SetPassword, Revoke, Look, Void, Last}
      [] kind = "reset" -> {Spend, SetPassword, Revoke, Look, Void, Last}
      [] kind = "ask" -> {Look, Void, Last}
      [] kind = "resend" -> {Again, AgainVoid, Look, Void, Last}
      [] kind = "invite" -> {Invited, Again, AgainVoid, Look, Void, Last}
      [] kind = "mint" -> {<<"insert", "commit">>, Last}
      [] kind \in {"passwd", "disable"} -> {<<"lock", "revoke", "commit">>, ToolRevoke, Last}
      [] kind = "link" -> {<<"lock", "commit">>, Last}

Kinds == {"login", "change", "reset", "ask", "resend", "invite", "mint",
          "passwd", "disable", "link"}
Locking == {"login", "change", "reset", "passwd", "disable", "link"}

IsRequest(x) == x = [kind |-> x.kind, todo |-> x.todo, acct |-> x.acct, who |-> x.who,
                     link |-> x.link, locked |-> x.locked, held |-> x.held,
                     seen |-> x.seen, ends |-> x.ends, old |-> x.old]

IsSession(s) == s = [id |-> s.id, acct |-> s.acct, stale |-> s.stale] /\ s.stale \in BOOLEAN

(* A request past its UPDATE has the account's row; one that sets a        *)
(* password and is past its revoke ends every session there is of the      *)
(* account; one past its spend holds the link it came through; and what is *)
(* held is not used yet.                                                   *)
Good(x) ==
    /\ IsRequest(x) /\ x.kind \in Kinds /\ x.todo \in Rest(x.kind) /\ x.old \in BOOLEAN
    /\ x.kind \in Locking /\ Head(x.todo) \notin {"lock", "spend"} => x.locked
    /\ x.kind \in SetsPassword /\ Head(x.todo) \in {"look", "void", "commit"} =>
          SessionsOf(x.acct) \subseteq x.ends
    /\ x.link # None => x.kind = "reset"
    /\ x.kind = "reset" /\ Head(x.todo) # "spend" => x.link \in x.held
    /\ x.held \subseteq {l.id : l \in links}

Apart(x, y) ==
    /\ x.locked /\ y.locked => x.acct # y.acct
    /\ x.held \cap y.held = {}

IInv ==
    /\ DOMAIN slot = Slot /\ slot = [q \in Slot |-> slot[q]]
    /\ \A q \in Busy : Good(slot[q])
    /\ \A q, r \in Busy : q # r => Apart(slot[q], slot[r])
    /\ \A s \in sessions : IsSession(s)

--------------------------------------------------------------------------
LEMMA Scripts ==
    /\ Script.login = <<"lock", "commit">> /\ Script.change = SetPassword
    /\ Script.reset = Spend /\ Script.ask = Look /\ Script.resend = Again
    /\ Script.invite = Invited
    /\ Script.mint = <<"insert", "commit">>
    /\ Script.passwd = <<"lock", "revoke", "commit">>
    /\ Script.disable = <<"lock", "revoke", "commit">>
    /\ Script.link = <<"lock", "commit">>
<1>1. <<"spend">> \o SetPassword = Spend
  <2>1. Len(<<"spend">>) = 1 /\ Len(SetPassword) = 5 /\ Len(Spend) = 6
    BY DEF SetPassword, Spend
  <2> DEFINE Word == {"spend", "lock", "revoke", "look", "void", "commit"}
  <2>2. <<"spend">> \in Seq(Word) /\ SetPassword \in Seq(Word) /\ Spend \in Seq(Word)
    BY DEF SetPassword, Spend
  <2> DEFINE joined == <<"spend">> \o SetPassword
  <2>3. /\ joined \in Seq(Word) /\ Len(joined) = 6
        /\ \A i \in 1 .. 6 : joined[i] = IF i <= 1 THEN <<"spend">>[i] ELSE SetPassword[i - 1]
    <3>1. /\ joined \in Seq(Word) /\ Len(joined) = Len(<<"spend">>) + Len(SetPassword)
          /\ \A i \in 1 .. Len(<<"spend">>) + Len(SetPassword) :
                joined[i] = IF i <= Len(<<"spend">>) THEN <<"spend">>[i]
                            ELSE SetPassword[i - Len(<<"spend">>)]
      <4> HIDE DEF Word
      <4> QED BY <2>2, ConcatProperties
    <3> QED BY <2>1, <3>1
  <2>4. \A i \in 1 .. 6 : joined[i] = Spend[i]
    BY <2>3 DEF SetPassword, Spend
  <2> QED BY <2>1, <2>2, <2>3, <2>4, SeqEqual
<1> QED BY <1>1 DEF Script, Look, Again, Invited

(* The head and the tail of what is left, in whatever request it is left.  *)
LEMMA Progress ==
    ASSUME NEW kind \in Kinds, NEW todo \in Rest(kind)
    PROVE  /\ Head(todo) \in {"lock", "commit", "revoke", "look", "void", "spend", "insert"}
           /\ Head(todo) # "commit" => Tail(todo) \in Rest(kind)
           /\ Head(todo) = "lock" => /\ Head(Tail(todo)) \in {"revoke", "commit"}
                                     /\ kind \in SetsPassword => Head(Tail(todo)) = "revoke"
                                     /\ kind \in Locking
           /\ Head(todo) = "spend" => Head(Tail(todo)) = "lock" /\ kind = "reset"
           /\ Head(todo) = "insert" => kind \in {"invite", "mint"}
           /\ Head(todo) = "revoke" => /\ Head(Tail(todo)) \in {"look", "commit"}
                                       /\ kind \in Locking
           /\ Head(todo) = "look" => Head(Tail(todo)) = "void"
           /\ Head(todo) = "void" => Head(Tail(todo)) \in {"look", "commit"}
<1> USE DEF Kinds, Locking, SetsPassword
<1>1. /\ Head(Last) = "commit"
      /\ Head(Void) = "void" /\ Tail(Void) = Last
      /\ Head(Look) = "look" /\ Tail(Look) = Void
      /\ Head(Revoke) = "revoke" /\ Tail(Revoke) = Look
      /\ Head(SetPassword) = "lock" /\ Tail(SetPassword) = Revoke
      /\ Head(Spend) = "spend" /\ Tail(Spend) = SetPassword
  BY DEF Last, Void, Look, Revoke, SetPassword, Spend
<1>2. /\ Head(ToolRevoke) = "revoke" /\ Tail(ToolRevoke) = Last
      /\ Head(<<"lock", "commit">>) = "lock" /\ Tail(<<"lock", "commit">>) = Last
      /\ Head(<<"insert", "commit">>) = "insert" /\ Tail(<<"insert", "commit">>) = Last
      /\ Head(<<"lock", "revoke", "commit">>) = "lock"
      /\ Tail(<<"lock", "revoke", "commit">>) = ToolRevoke
      /\ Head(Invited) = "insert" /\ Tail(Invited) = Again
      /\ Head(Again) = "look" /\ Tail(Again) = AgainVoid
      /\ Head(AgainVoid) = "void" /\ Tail(AgainVoid) = Look
  BY DEF ToolRevoke, Last, Look, Invited, Again, AgainVoid
<1>3. CASE kind = "login" \/ kind = "link"
  BY <1>1, <1>2, <1>3 DEF Rest
<1>4. CASE kind = "change"
  BY <1>1, <1>2, <1>4 DEF Rest
<1>5. CASE kind = "reset"
  BY <1>1, <1>2, <1>5 DEF Rest
<1>6. CASE kind = "ask" \/ kind = "resend"
  BY <1>1, <1>2, <1>6 DEF Rest
<1>7. CASE kind = "invite"
  BY <1>1, <1>2, <1>7 DEF Rest
<1>8. CASE kind = "mint"
  BY <1>1, <1>2, <1>8 DEF Rest
<1>9. CASE kind = "passwd" \/ kind = "disable"
  BY <1>1, <1>2, <1>9 DEF Rest
<1> QED BY <1>3, <1>4, <1>5, <1>6, <1>7, <1>8, <1>9

(* Whoever runs waits for nobody else.                                     *)
LEMMA WhoRuns ==
    ASSUME NEW q \in Busy, Runs(q)
    PROVE  /\ At(q, "lock") \/ At(q, "insert") =>
                \A r \in Busy : r # q /\ slot[r].locked => slot[r].acct # slot[q].acct
           /\ At(q, "spend") => \A r \in Busy : r # q => slot[q].link \notin slot[r].held
           /\ At(q, "void") => \A r \in Busy : r # q => slot[q].seen \cap slot[r].held = {}
<1> USE DEF Runs, WaitsFor, Holders
<1>1. ASSUME At(q, "lock") \/ At(q, "insert")
      PROVE  \A r \in Busy : r # q /\ slot[r].locked => slot[r].acct # slot[q].acct
  BY <1>1 DEF HoldsAccount
<1>2. ASSUME At(q, "spend") PROVE \A r \in Busy : r # q => slot[q].link \notin slot[r].held
  BY <1>2 DEF HoldsLink
<1>3. ASSUME At(q, "void")
      PROVE  \A r \in Busy : r # q => slot[q].seen \cap slot[r].held = {}
  BY <1>3 DEF HoldsLink
<1> QED BY <1>1, <1>2, <1>3

(* One request moves and the tables stay.                                  *)
LEMMA SlotStep ==
    ASSUME IInv, NEW q \in Slot, NEW x, slot' = [slot EXCEPT ![q] = x],
           UNCHANGED <<sessions, links>>,
           x # None => Good(x) /\ \A r \in Busy : r # q => Apart(x, slot[r])
    PROVE  IInv'
<1>1. /\ DOMAIN slot' = Slot /\ slot' = [r \in Slot |-> slot'[r]]
      /\ slot'[q] = x /\ \A r \in Slot : r # q => slot'[r] = slot[r]
  BY DEF IInv
<1>2. \A r \in Busy' : Good(slot[r])'
  BY <1>1 DEF IInv, Busy, Good, SessionsOf, IsRequest
<1>3. \A r, t \in Busy' : r # t => Apart(slot[r], slot[t])'
  <2> SUFFICES ASSUME NEW r \in Busy', NEW t \in Busy', r # t
               PROVE  Apart(slot'[r], slot'[t])
    BY DEF Apart
  <2>1. CASE r # q /\ t # q
    BY <1>1, <2>1 DEF IInv, Busy
  <2>2. CASE r = q
    BY <1>1, <2>2 DEF Busy
  <2>3. CASE t = q
    BY <1>1, <2>3 DEF Busy, Apart
  <2> QED BY <2>1, <2>2, <2>3
<1> QED BY <1>1, <1>2, <1>3 DEF IInv

(* A request as its next statement leaves it.                              *)
Moved(y, todo, locked, held, seen, ends) ==
    [kind |-> y.kind, todo |-> todo, acct |-> y.acct, who |-> y.who,
     link |-> y.link, locked |-> locked, held |-> held, seen |-> seen, ends |-> ends,
     old |-> y.old]

LEMMA MovesLocked ==
    ASSUME NEW y, IsRequest(y), NEW v, NEW todo
    PROVE  [[y EXCEPT !.locked = v] EXCEPT !.todo = todo] = Moved(y, todo, v, y.held, y.seen, y.ends)
<1>1. PICK z : z = [y EXCEPT !.locked = v]
  OBVIOUS
<1>2. z = Moved(y, y.todo, v, y.held, y.seen, y.ends)
  BY <1>1 DEF IsRequest, Moved
<1>3. [z EXCEPT !.todo = todo] = Moved(y, todo, v, y.held, y.seen, y.ends)
  BY <1>2 DEF Moved
<1> QED BY <1>1, <1>3, Zenon

LEMMA MovesHeld ==
    ASSUME NEW y, IsRequest(y), NEW v, NEW todo
    PROVE  [[y EXCEPT !.held = v] EXCEPT !.todo = todo] = Moved(y, todo, y.locked, v, y.seen, y.ends)
<1>1. PICK z : z = [y EXCEPT !.held = v]
  OBVIOUS
<1>2. z = Moved(y, y.todo, y.locked, v, y.seen, y.ends)
  BY <1>1 DEF IsRequest, Moved
<1>3. [z EXCEPT !.todo = todo] = Moved(y, todo, y.locked, v, y.seen, y.ends)
  BY <1>2 DEF Moved
<1> QED BY <1>1, <1>3, Zenon

LEMMA MovesSeen ==
    ASSUME NEW y, IsRequest(y), NEW v, NEW todo
    PROVE  [[y EXCEPT !.seen = v] EXCEPT !.todo = todo] = Moved(y, todo, y.locked, y.held, v, y.ends)
<1>1. PICK z : z = [y EXCEPT !.seen = v]
  OBVIOUS
<1>2. z = Moved(y, y.todo, y.locked, y.held, v, y.ends)
  BY <1>1 DEF IsRequest, Moved
<1>3. [z EXCEPT !.todo = todo] = Moved(y, todo, y.locked, y.held, v, y.ends)
  BY <1>2 DEF Moved
<1> QED BY <1>1, <1>3, Zenon

LEMMA MovesEnds ==
    ASSUME NEW y, IsRequest(y), NEW v, NEW todo
    PROVE  [[y EXCEPT !.ends = v] EXCEPT !.todo = todo] = Moved(y, todo, y.locked, y.held, y.seen, v)
<1>1. PICK z : z = [y EXCEPT !.ends = v]
  OBVIOUS
<1>2. z = Moved(y, y.todo, y.locked, y.held, y.seen, v)
  BY <1>1 DEF IsRequest, Moved
<1>3. [z EXCEPT !.todo = todo] = Moved(y, todo, y.locked, y.held, y.seen, v)
  BY <1>2 DEF Moved
<1> QED BY <1>1, <1>3, Zenon

(* A commit or an expiry: requests only end, and the tables move under the *)
(* ones that go on.                                                        *)
Ending(r) == slot[r].kind \in SetsPassword /\ Head(slot[r].todo) \in {"look", "void", "commit"}

(* A request whose password has been replaced is otherwise as it was.      *)
Overtaken(x, y) ==
    /\ IsRequest(y) /\ y.old \in BOOLEAN
    /\ y.kind = x.kind /\ y.todo = x.todo /\ y.acct = x.acct /\ y.who = x.who
    /\ y.link = x.link /\ y.locked = x.locked /\ y.held = x.held
    /\ y.seen = x.seen /\ y.ends = x.ends

LEMMA Overtakes ==
    ASSUME NEW x, IsRequest(x)
    PROVE  Overtaken(x, [x EXCEPT !.old = TRUE])
<1>1. PICK z : z = [x EXCEPT !.old = TRUE]
  OBVIOUS
<1>2. z = [kind |-> x.kind, todo |-> x.todo, acct |-> x.acct, who |-> x.who, link |-> x.link,
           locked |-> x.locked, held |-> x.held, seen |-> x.seen, ends |-> x.ends, old |-> TRUE]
  BY <1>1 DEF IsRequest
<1>3. Overtaken(x, z)
  BY <1>2 DEF Overtaken, IsRequest
<1> QED BY <1>1, <1>3, Zenon

(* Nobody begins, and what is done to the rows leaves the others right.    *)
OnlyOvertakes ==
    \A r \in Slot : \/ slot'[r] = slot[r] \/ slot'[r] = None
                    \/ r \in Busy /\ Overtaken(slot[r], slot'[r])
Undisturbed(r) ==
    slot'[r] # None =>
        /\ Ending(r) => \A s \in sessions' : s.acct = slot[r].acct => s \in slot[r].ends
        /\ slot[r].held \subseteq {l.id : l \in links'}

LEMMA TableStep ==
    ASSUME IInv,
           DOMAIN slot' = Slot, slot' = [r \in Slot |-> slot'[r]],
           OnlyOvertakes,
           \A s \in sessions' : IsSession(s),
           \A r \in Busy : Undisturbed(r)
    PROVE  IInv'
<1>1. \A r \in Busy' : r \in Busy /\ Overtaken(slot[r], slot'[r])
  BY DEF Busy, IInv, Good, Overtaken, OnlyOvertakes
<1>2. \A r \in Busy' : Good(slot[r])'
  <2> SUFFICES ASSUME NEW r \in Busy' PROVE Good(slot[r])'
    OBVIOUS
  <2>1. r \in Busy /\ Overtaken(slot[r], slot'[r]) /\ Good(slot[r]) /\ slot'[r] # None
    BY <1>1 DEF IInv, Busy
  <2>2. /\ Ending(r) => {s \in sessions' : s.acct = slot[r].acct} \subseteq slot[r].ends
        /\ slot[r].held \subseteq {l.id : l \in links'}
    BY <2>1 DEF Undisturbed
  <2> QED BY <2>1, <2>2 DEF Good, IsRequest, Ending, SessionsOf, Overtaken
<1>3. \A r, t \in Busy' : r # t => Apart(slot[r], slot[t])'
  <2> SUFFICES ASSUME NEW r \in Busy', NEW t \in Busy', r # t
               PROVE  Apart(slot[r], slot[t])'
    OBVIOUS
  <2>1. Overtaken(slot[r], slot'[r]) /\ Overtaken(slot[t], slot'[t])
    BY <1>1
  <2>2. Apart(slot[r], slot[t])
    BY <1>1 DEF IInv
  <2> QED BY <2>1, <2>2 DEF Apart, Overtaken
<1> QED BY <1>2, <1>3 DEF IInv

--------------------------------------------------------------------------
(* How a request begins, and how it gives up.                              *)
LEMMA Starts ==
    ASSUME NEW kind \in Kinds
    PROVE  /\ Script[kind] \in Rest(kind)
           /\ kind \in Locking => Head(Script[kind]) \in {"lock", "spend"}
           /\ kind = "reset" => Head(Script[kind]) = "spend"
<1>1. /\ Head(SetPassword) = "lock" /\ Head(Spend) = "spend"
      /\ Head(<<"lock", "commit">>) = "lock"
      /\ Head(<<"lock", "revoke", "commit">>) = "lock"
  BY DEF SetPassword, Spend
<1> QED BY <1>1, Scripts DEF Kinds, Locking, Rest

LEMMA BeginsStep ==
    ASSUME IInv, NEW q \in Slot, NEW kind \in Kinds, NEW e, NEW p, NEW l,
           Begins(q, kind, e, p, l), l = None \/ kind = "reset"
    PROVE  IInv'
<1> DEFINE x == [kind |-> kind, todo |-> Script[kind], acct |-> e, who |-> p, link |-> l,
                 locked |-> FALSE, held |-> {}, seen |-> {}, ends |-> {}, old |-> FALSE]
<1>1. slot' = [slot EXCEPT ![q] = x] /\ UNCHANGED <<sessions, links>>
  BY DEF Begins
<1>2. Good(x)
  BY Starts DEF Good, IsRequest, Kinds, Locking, SetsPassword
<1>3. \A r \in Busy : r # q => Apart(x, slot[r])
  BY DEF Apart
<1> HIDE DEF x
<1> QED BY <1>1, <1>2, <1>3, SlotStep

LEMMA AskedStep ==
    ASSUME IInv, NEW q \in Slot, Asked(q)
    PROVE  IInv'
<1> USE DEF Kinds
<1>1. ASSUME NEW e \in Email, Login(q, e) \/ Change(q, e) \/ AskReset(q, e) PROVE IInv'
  BY <1>1, BeginsStep DEF Login, Change, AskReset
<1>2. ASSUME NEW l \in links, FollowLink(q, l) PROVE IInv'
  BY <1>2, BeginsStep DEF FollowLink
<1>3. ASSUME NEW p \in Person, NEW terminal \in BOOLEAN, Invite(q, p, terminal) PROVE IInv'
  BY <1>3, BeginsStep DEF Invite
<1>4. ASSUME NEW e \in Email, NEW p \in Person \cup {Manager}, Mint(q, e, p) PROVE IInv'
  BY <1>4, BeginsStep DEF Mint
<1>5. ASSUME NEW e \in Email, NEW kind \in {"passwd", "disable"}, Tool(q, kind, e) PROVE IInv'
  BY <1>5, BeginsStep DEF Tool
<1>6. ASSUME NEW e \in Email, NEW p \in Person, LinkPerson(q, e, p) PROVE IInv'
  BY <1>6, BeginsStep DEF LinkPerson
<1> QED BY <1>1, <1>2, <1>3, <1>4, <1>5, <1>6 DEF Asked

LEMMA GivesUpStep ==
    ASSUME IInv, NEW q \in Slot, GivesUp(q)
    PROVE  IInv'
BY SlotStep DEF GivesUp

--------------------------------------------------------------------------
(* The statements.                                                         *)
LEMMA LocksStep ==
    ASSUME IInv, NEW q \in Slot, Locks(q)
    PROVE  IInv'
<1>1. CASE GivesUp(q)
  BY <1>1, GivesUpStep
<1>2. CASE Continues(q, [slot[q] EXCEPT !.locked = TRUE])
  <2> DEFINE rest == Tail(slot[q].todo)
             x == [[slot[q] EXCEPT !.locked = TRUE] EXCEPT !.todo = rest]
  <2>1. q \in Busy /\ Head(slot[q].todo) = "lock" /\ Runs(q) /\ Good(slot[q])
    BY DEF Locks, At, IInv
  <2>2. slot' = [slot EXCEPT ![q] = x] /\ UNCHANGED <<sessions, links>>
    BY <1>2 DEF Continues
  <2>3. x = Moved(slot[q], rest, TRUE, slot[q].held, slot[q].seen, slot[q].ends)
    <3>1. IsRequest(slot[q])
      BY <2>1 DEF Good
    <3> QED BY <3>1, MovesLocked, Zenon
  <2> HIDE DEF x
  <2>4. Good(x)
    BY <2>1, <2>3, Progress DEF Good, IsRequest, Moved
  <2>5. \A r \in Busy : r # q => Apart(x, slot[r])
    <3>1. \A r \in Busy : r # q /\ slot[r].locked => slot[r].acct # slot[q].acct
      BY <2>1, WhoRuns DEF At
    <3> QED BY <2>1, <2>3, <3>1 DEF Apart, IInv, Moved
  <2> QED BY <2>2, <2>4, <2>5, SlotStep
<1> QED BY <1>1, <1>2 DEF Locks

LEMMA InsertsStep ==
    ASSUME IInv, NEW q \in Slot, Inserts(q)
    PROVE  IInv'
<1>1. CASE GivesUp(q)
  BY <1>1, GivesUpStep
<1>2. CASE Continues(q, [slot[q] EXCEPT !.locked = TRUE])
  <2> DEFINE rest == Tail(slot[q].todo)
             x == [[slot[q] EXCEPT !.locked = TRUE] EXCEPT !.todo = rest]
  <2>1. q \in Busy /\ Head(slot[q].todo) = "insert" /\ Runs(q) /\ Good(slot[q])
    BY DEF Inserts, At, IInv
  <2>2. slot' = [slot EXCEPT ![q] = x] /\ UNCHANGED <<sessions, links>>
    BY <1>2 DEF Continues
  <2>3. x = Moved(slot[q], rest, TRUE, slot[q].held, slot[q].seen, slot[q].ends)
    <3>1. IsRequest(slot[q])
      BY <2>1 DEF Good
    <3> QED BY <3>1, MovesLocked, Zenon
  <2> HIDE DEF x
  <2>4. Good(x)
    <3>1. slot[q].kind \in {"invite", "mint"} /\ Tail(slot[q].todo) \in Rest(slot[q].kind)
      BY <2>1, Progress DEF Good
    <3> QED BY <2>1, <2>3, <3>1 DEF Good, IsRequest, Moved, Locking, SetsPassword
  <2>5. \A r \in Busy : r # q => Apart(x, slot[r])
    <3>1. \A r \in Busy : r # q /\ slot[r].locked => slot[r].acct # slot[q].acct
      BY <2>1, WhoRuns DEF At
    <3> QED BY <2>1, <2>3, <3>1 DEF Apart, IInv, Moved
  <2> QED BY <2>2, <2>4, <2>5, SlotStep
<1> QED BY <1>1, <1>2 DEF Inserts

LEMMA SpendsStep ==
    ASSUME IInv, NEW q \in Slot, Spends(q)
    PROVE  IInv'
<1>1. CASE GivesUp(q)
  BY <1>1, GivesUpStep
<1>2. CASE /\ Unspent(slot[q].link)
           /\ Continues(q, [slot[q] EXCEPT !.held = {slot[q].link}])
  <2> DEFINE rest == Tail(slot[q].todo)
             x == [[slot[q] EXCEPT !.held = {slot[q].link}] EXCEPT !.todo = rest]
  <2>1. q \in Busy /\ Head(slot[q].todo) = "spend" /\ Runs(q) /\ Good(slot[q])
    BY DEF Spends, At, IInv
  <2>2. slot' = [slot EXCEPT ![q] = x] /\ UNCHANGED <<sessions, links>>
    BY <1>2 DEF Continues
  <2>3. x = Moved(slot[q], rest, slot[q].locked, {slot[q].link}, slot[q].seen, slot[q].ends)
    <3>1. IsRequest(slot[q])
      BY <2>1 DEF Good
    <3> QED BY <3>1, MovesHeld, Zenon
  <2> HIDE DEF x
  <2>4. Good(x)
    <3>1. /\ Tail(slot[q].todo) \in Rest(slot[q].kind)
          /\ Head(Tail(slot[q].todo)) = "lock" /\ slot[q].kind = "reset"
      BY <2>1, Progress DEF Good
    <3>2. slot[q].link \in {l.id : l \in links}
      BY <1>2 DEF Unspent
    <3> QED BY <2>1, <2>3, <3>1, <3>2 DEF Good, IsRequest, Moved
  <2>5. \A r \in Busy : r # q => Apart(x, slot[r])
    <3>1. \A r \in Busy : r # q => slot[q].link \notin slot[r].held
      BY <2>1, WhoRuns DEF At
    <3> QED BY <2>1, <2>3, <3>1 DEF Apart, IInv, Moved
  <2> QED BY <2>2, <2>4, <2>5, SlotStep
<1> QED BY <1>1, <1>2 DEF Spends, Refused

LEMMA RevokesStep ==
    ASSUME IInv, NEW q \in Slot, Revokes(q)
    PROVE  IInv'
<1> DEFINE rest == Tail(slot[q].todo)
           x == [[slot[q] EXCEPT !.ends = SessionsOf(slot[q].acct)] EXCEPT !.todo = rest]
<1>1. q \in Busy /\ Head(slot[q].todo) = "revoke" /\ Good(slot[q])
  BY DEF Revokes, At, IInv
<1>2. slot' = [slot EXCEPT ![q] = x] /\ UNCHANGED <<sessions, links>>
  BY DEF Revokes, Continues
<1>3. x = Moved(slot[q], rest, slot[q].locked, slot[q].held, slot[q].seen, SessionsOf(slot[q].acct))
  <2>1. IsRequest(slot[q])
    BY <1>1 DEF Good
  <2> QED BY <2>1, MovesEnds, Zenon
<1> HIDE DEF x
<1>4. Good(x)
  <2>1. Tail(slot[q].todo) \in Rest(slot[q].kind) /\ slot[q].locked
    BY <1>1, Progress DEF Good
  <2> QED BY <1>1, <1>3, <2>1 DEF Good, IsRequest, Moved
<1>5. \A r \in Busy : r # q => Apart(x, slot[r])
  BY <1>1, <1>3 DEF Apart, IInv, Moved
<1> QED BY <1>2, <1>4, <1>5, SlotStep

LEMMA LooksStep ==
    ASSUME IInv, NEW q \in Slot, Looks(q)
    PROVE  IInv'
<1> DEFINE rest == Tail(slot[q].todo)
           found == LinksOf(slot[q].acct) \ slot[q].held
           x == [[slot[q] EXCEPT !.seen = found] EXCEPT !.todo = rest]
<1>1. q \in Busy /\ Head(slot[q].todo) = "look" /\ Good(slot[q])
  BY DEF Looks, At, IInv
<1>2. slot' = [slot EXCEPT ![q] = x] /\ UNCHANGED <<sessions, links>>
  BY DEF Looks, Continues
<1> HIDE DEF found
<1>3. x = Moved(slot[q], rest, slot[q].locked, slot[q].held, found, slot[q].ends)
  <2>1. IsRequest(slot[q])
    BY <1>1 DEF Good
  <2> QED BY <2>1, MovesSeen, Zenon
<1> HIDE DEF x
<1>4. Good(x)
  <2>1. Tail(slot[q].todo) \in Rest(slot[q].kind)
    BY <1>1, Progress DEF Good
  <2>2. /\ IsRequest(x) /\ x.kind = slot[q].kind /\ x.todo = Tail(slot[q].todo)
        /\ x.acct = slot[q].acct /\ x.link = slot[q].link /\ x.locked = slot[q].locked
        /\ x.held = slot[q].held /\ x.ends = slot[q].ends /\ x.old = slot[q].old
    BY <1>1, <1>3 DEF Good, IsRequest, Moved
  <2> QED BY <1>1, <2>1, <2>2 DEF Good
<1>5. \A r \in Busy : r # q => Apart(x, slot[r])
  BY <1>1, <1>3 DEF Apart, IInv, Moved
<1> QED BY <1>2, <1>4, <1>5, SlotStep

LEMMA VoidsStep ==
    ASSUME IInv, NEW q \in Slot, Voids(q)
    PROVE  IInv'
<1> DEFINE rest == Tail(slot[q].todo)
           more == slot[q].seen \cap LinksOf(slot[q].acct)
           x == [[slot[q] EXCEPT !.held = @ \cup more] EXCEPT !.todo = rest]
<1>1. q \in Busy /\ Head(slot[q].todo) = "void" /\ Runs(q) /\ Good(slot[q])
  BY DEF Voids, At, IInv
<1>2. slot' = [slot EXCEPT ![q] = x] /\ UNCHANGED <<sessions, links>>
  BY DEF Voids, Continues
<1>3. more \subseteq {l.id : l \in links} /\ more \subseteq slot[q].seen
  BY DEF LinksOf
<1> HIDE DEF more
<1>4. x = Moved(slot[q], rest, slot[q].locked, slot[q].held \cup more, slot[q].seen, slot[q].ends)
  <2>1. IsRequest(slot[q])
    BY <1>1 DEF Good
  <2> QED BY <2>1, MovesHeld, Zenon
<1> HIDE DEF x
<1>5. Good(x)
  <2>1. Tail(slot[q].todo) \in Rest(slot[q].kind)
    BY <1>1, Progress DEF Good
  <2>2. /\ IsRequest(x) /\ x.kind = slot[q].kind /\ x.todo = Tail(slot[q].todo)
        /\ x.acct = slot[q].acct /\ x.link = slot[q].link /\ x.locked = slot[q].locked
        /\ x.held = slot[q].held \cup more /\ x.ends = slot[q].ends /\ x.old = slot[q].old
    BY <1>1, <1>4 DEF Good, IsRequest, Moved
  <2> QED BY <1>1, <1>3, <2>1, <2>2 DEF Good
<1>6. \A r \in Busy : r # q => Apart(x, slot[r])
  <2>1. \A r \in Busy : r # q => slot[q].seen \cap slot[r].held = {}
    BY <1>1, WhoRuns DEF At
  <2> QED BY <1>1, <1>3, <1>4, <2>1 DEF Apart, IInv, Moved
<1> QED BY <1>2, <1>5, <1>6, SlotStep

--------------------------------------------------------------------------
(* The commits.  Nobody but the one who has the account's row commits a    *)
(* session of it, and nobody else's links are taken.                       *)
LEMMA CommitsHold ==
    ASSUME IInv, NEW q \in Slot, At(q, "commit")
    PROVE  /\ q \in Busy /\ Good(slot[q])
           /\ slot[q].kind \in Locking => slot[q].locked
           /\ slot[q].kind \in SetsPassword => SessionsOf(slot[q].acct) \subseteq slot[q].ends
           /\ slot[q].kind = "reset" => slot[q].link \in slot[q].held
           /\ \A r \in Busy : r # q =>
                 /\ slot[q].locked /\ Ending(r) => slot[r].acct # slot[q].acct
                 /\ slot[r].held \cap slot[q].held = {}
<1>1. q \in Busy /\ Good(slot[q]) /\ Head(slot[q].todo) = "commit"
  BY DEF At, IInv
<1>2. \A r \in Busy : Ending(r) => slot[r].locked
  BY DEF IInv, Good, Ending, SetsPassword, Locking
<1>3. \A r \in Busy : r # q => Apart(slot[q], slot[r])
  BY <1>1 DEF IInv
<1> QED BY <1>1, <1>2, <1>3 DEF Good, Apart

(* Where a password is set, no session is left to age.                     *)
LEMMA NoneAges ==
    ASSUME IInv, NEW q \in Slot, SessionsOf(slot[q].acct) \subseteq slot[q].ends
    PROVE  Aged(slot[q].acct, Kept(q)) = Kept(q)
<1>1. \A s \in Kept(q) : s \in sessions /\ s.acct # slot[q].acct
  BY DEF Kept, SessionsOf
<1>2. ASSUME NEW s \in Kept(q) PROVE [s EXCEPT !.stale = @ \/ s.acct = slot[q].acct] = s
  <2>1. s.stale \in BOOLEAN /\ s = [id |-> s.id, acct |-> s.acct, stale |-> s.stale]
    BY <1>1 DEF IInv, IsSession
  <2>2. (s.stale \/ s.acct = slot[q].acct) = s.stale
    BY <1>1, <2>1
  <2> QED BY <2>1, <2>2
<1> QED BY <1>2 DEF Aged

(* What a commit does to the other requests: it may overtake them.         *)
LEMMA CommitsOvertake ==
    ASSUME IInv, NEW q \in Slot, Commits(q)
    PROVE  /\ At(q, "commit")
           /\ DOMAIN slot' = Slot /\ slot' = [r \in Slot |-> slot'[r]]
           /\ slot'[q] = None
           /\ \A r \in Slot : \/ slot'[r] = slot[r] \/ slot'[r] = None
                              \/ r \in Busy /\ Overtaken(slot[r], slot'[r])
<1>1. /\ At(q, "commit") /\ DOMAIN slot' = Slot /\ slot' = [r \in Slot |-> slot'[r]]
      /\ slot'[q] = None
      /\ \A r \in Slot : \/ slot'[r] = slot[r] \/ slot'[r] = None
                         \/ r \in Busy /\ slot'[r] = [slot[r] EXCEPT !.old = TRUE]
  BY DEF Commits, Outrun
<1>2. \A r \in Busy : Overtaken(slot[r], [slot[r] EXCEPT !.old = TRUE])
  BY Overtakes DEF IInv, Good
<1> QED BY <1>1, <1>2

LEMMA CommitsStep ==
    ASSUME IInv, NEW q \in Slot, Commits(q)
    PROVE  IInv'
<1> DEFINE e == slot[q].acct
           mine == [id |-> Unused(FreeSessions), acct |-> e, stale |-> slot[q].old]
<1>1. /\ At(q, "commit")
      /\ DOMAIN slot' = Slot /\ slot' = [r \in Slot |-> slot'[r]]
      /\ slot'[q] = None
      /\ \A r \in Slot : \/ slot'[r] = slot[r] \/ slot'[r] = None
                         \/ r \in Busy /\ Overtaken(slot[r], slot'[r])
  BY CommitsOvertake
<1>2. ASSUME \A s \in sessions' : s \in sessions \/ (s = mine /\ slot[q].locked),
             Unvoided(q) \subseteq links'
      PROVE  IInv'
  <2>1. \A s \in sessions' : IsSession(s)
    <3>1. slot[q].old \in BOOLEAN
      BY <1>1, CommitsHold DEF Good
    <3>2. IsSession(mine)
      BY <3>1 DEF IsSession
    <3> HIDE DEF mine
    <3> QED BY <1>2, <3>2 DEF IInv
  <2>2. ASSUME NEW r \in Busy, r # q, Ending(r), NEW s \in sessions', s.acct = slot[r].acct
        PROVE  s \in slot[r].ends
    <3>1. s = mine => s.acct = slot[q].acct
      OBVIOUS
    <3> HIDE DEF mine
    <3>2. s \in sessions
      BY <1>1, <1>2, <2>2, <3>1, CommitsHold
    <3>3. s \in SessionsOf(slot[r].acct)
      BY <2>2, <3>2 DEF SessionsOf
    <3> QED BY <2>2, <3>3 DEF IInv, Good, Ending
  <2>3. ASSUME NEW r \in Busy, r # q
        PROVE  slot[r].held \subseteq {l.id : l \in links'}
    <3>1. slot[r].held \cap slot[q].held = {} /\ slot[r].held \subseteq {l.id : l \in links}
      BY <1>1, <2>3, CommitsHold DEF IInv, Good
    <3> QED BY <1>2, <3>1 DEF Unvoided
  <2> HIDE DEF mine
  <2>4. ASSUME NEW r \in Busy PROVE Undisturbed(r)
    BY <1>1, <2>2, <2>3 DEF Undisturbed
  <2>5. OnlyOvertakes
    BY <1>1 DEF OnlyOvertakes
  <2> QED BY <1>1, <2>1, <2>4, <2>5, TableStep
<1>3. CASE LoginCommits(q)
  <2>1. slot[q].locked
    BY <1>1, <1>3, CommitsHold DEF LoginCommits, Locking
  <2>2. sessions' = sessions \cup {mine} /\ links' = links
    BY <1>3 DEF LoginCommits, Opened
  <2> HIDE DEF mine
  <2> QED BY <1>2, <2>1, <2>2 DEF Unvoided
<1>4. CASE PasswordCommits(q)
  <2>1. slot[q].locked /\ Aged(e, Kept(q)) = Kept(q)
    BY <1>1, <1>4, CommitsHold, NoneAges DEF PasswordCommits, Locking, SetsPassword
  <2>2. sessions' = Aged(e, Kept(q)) \cup {mine} /\ links' = Unvoided(q)
    BY <1>4 DEF PasswordCommits, Opened
  <2> HIDE DEF mine
  <2> QED BY <1>2, <2>1, <2>2 DEF Kept
<1>5. CASE LinkCommits(q)
  <2>1. sessions' = sessions /\ Unvoided(q) \subseteq links'
    BY <1>5 DEF LinkCommits
  <2> HIDE DEF mine
  <2> QED BY <1>2, <2>1
<1>6. CASE ToolCommits(q)
  <2>1. sessions' = Kept(q) /\ links' = links
    <3>1. slot[q].kind = "passwd" => Aged(e, Kept(q)) = Kept(q)
      BY <1>1, CommitsHold, NoneAges DEF SetsPassword
    <3> QED BY <1>6, <3>1 DEF ToolCommits
  <2> HIDE DEF mine
  <2> QED BY <1>2, <2>1 DEF Kept, Unvoided
<1> QED BY <1>3, <1>4, <1>5, <1>6 DEF Commits

--------------------------------------------------------------------------
(* Around the requests.                                                    *)
LEMMA SessionEnds ==
    ASSUME IInv, NEW s \in sessions, Logout(s)
    PROVE  IInv'
<1>1. slot' = slot /\ links' = links /\ sessions' \subseteq sessions
  BY DEF Logout
<1>2. ASSUME NEW r \in Busy, Ending(r), NEW t \in sessions', t.acct = slot[r].acct
      PROVE  t \in slot[r].ends
  BY <1>1, <1>2 DEF IInv, Good, Ending, SessionsOf
<1>3. /\ DOMAIN slot' = Slot /\ slot' = [r \in Slot |-> slot'[r]]
      /\ OnlyOvertakes
      /\ \A t \in sessions' : IsSession(t)
  BY <1>1 DEF IInv, OnlyOvertakes
<1>4. ASSUME NEW r \in Busy PROVE Undisturbed(r)
  BY <1>1, <1>2 DEF Undisturbed, IInv, Good
<1> QED BY <1>3, <1>4, TableStep

LEMMA LinkEnds ==
    ASSUME IInv, NEW l \in links, LinkExpires(l)
    PROVE  IInv'
<1>1. slot' = slot /\ links' = links \ {l} /\ sessions' = sessions
  BY DEF LinkExpires
<1>2. ASSUME NEW r \in Busy, Ending(r), NEW t \in sessions', t.acct = slot[r].acct
      PROVE  t \in slot[r].ends
  BY <1>1, <1>2 DEF IInv, Good, Ending, SessionsOf
<1>3. ASSUME NEW r \in Busy PROVE slot[r].held \subseteq {k.id : k \in links'}
  <2>1. l.id \notin slot[r].held /\ slot[r].held \subseteq {k.id : k \in links}
    BY DEF LinkExpires, IInv, Good
  <2> QED BY <1>1, <2>1
<1>4. /\ DOMAIN slot' = Slot /\ slot' = [r \in Slot |-> slot'[r]]
      /\ OnlyOvertakes
      /\ \A t \in sessions' : IsSession(t)
  BY <1>1 DEF IInv, OnlyOvertakes
<1>5. ASSUME NEW r \in Busy PROVE Undisturbed(r)
  BY <1>2, <1>3 DEF Undisturbed
<1> QED BY <1>4, <1>5, TableStep

LEMMA Stays ==
    ASSUME IInv, UNCHANGED <<sessions, links, slot>>
    PROVE  IInv'
BY DEF IInv, Busy, Good, IsRequest, Apart, SessionsOf

LEMMA InitInv == Init => IInv
BY DEF Init, IInv, Busy

LEMMA StepStep ==
    ASSUME IInv, NEW q \in Slot, Step(q)
    PROVE  IInv'
BY LocksStep, InsertsStep, SpendsStep, RevokesStep, LooksStep, VoidsStep, CommitsStep,
   GivesUpStep DEF Step, Aborted

LEMMA NextKeeps ==
    ASSUME IInv, [Next]_vars
    PROVE  IInv'
<1>1. ASSUME NEW q \in Slot, Asked(q) \/ Step(q) \/ Dies(q) PROVE IInv'
  BY <1>1, AskedStep, StepStep, GivesUpStep DEF Dies
<1>2. ASSUME NEW s \in sessions, Logout(s) \/ SessionExpires(s) PROVE IInv'
  BY <1>2, SessionEnds DEF SessionExpires
<1>3. ASSUME NEW l \in links, LinkExpires(l) PROVE IInv'
  BY <1>3, LinkEnds
<1>4. ASSUME NEW p \in Person, NEW mail \in Email, AddPerson(p, mail) PROVE IInv'
  BY <1>4, Stays DEF AddPerson
<1>5. ASSUME NEW p \in Person, PersonLeaves(p) PROVE IInv'
  BY <1>5, Stays DEF PersonLeaves
<1>6. CASE UNCHANGED vars
  BY <1>6, Stays DEF vars
<1> QED BY <1>1, <1>2, <1>3, <1>4, <1>5, <1>6 DEF Next

LEMMA Inductive == Spec => []IInv
<1>1. IInv /\ [Next]_vars => IInv'
  BY NextKeeps
<1> QED BY InitInv, <1>1, PTL DEF Spec

(* What PasswordEndsSessions asks of one step.                             *)
OthersEnded(q) == \A s \in sessions' :
    s.acct = slot[q].acct => slot[q].kind # "passwd" /\ s = Opened(q)

(* The commit of a new password, by whichever road, leaves no session of   *)
(* the account but its own: also those end that were committed after the   *)
(* request began (_set_password of people.py and mint_account passwd).     *)
THEOREM SessionsEnd == Spec => PasswordEndsSessions
<1>1. ASSUME IInv, NEW q \in Slot, Commits(q), slot[q].kind \in SetsPassword
      PROVE  OthersEnded(q)
  <2>1. At(q, "commit") /\ SessionsOf(slot[q].acct) \subseteq slot[q].ends
    BY <1>1, CommitsHold DEF Commits
  <2>2. Aged(slot[q].acct, Kept(q)) = Kept(q) /\ \A s \in Kept(q) : s.acct # slot[q].acct
    BY <1>1, <2>1, NoneAges DEF Kept, SessionsOf
  <2>3. CASE PasswordCommits(q)
    BY <2>2, <2>3 DEF PasswordCommits, OthersEnded
  <2>4. CASE ToolCommits(q)
    BY <1>1, <2>2, <2>4 DEF ToolCommits, OthersEnded, SetsPassword
  <2> QED BY <1>1, <2>3, <2>4 DEF Commits, LoginCommits, LinkCommits, SetsPassword, OpensLink
<1> DEFINE Ended == \A q \in Slot : Commits(q) /\ slot[q].kind \in SetsPassword => OthersEnded(q)
<1>2. IInv /\ [Next]_vars => [Ended]_vars
  BY <1>1
<1>3. PasswordEndsSessions <=> [][Ended]_vars
  BY DEF PasswordEndsSessions, OthersEnded
<1> HIDE DEF Ended
<1> QED BY Inductive, <1>2, <1>3, PTL DEF Spec

(* What LinkSetsOnePassword asks of one step.                              *)
LinkUnused == \A q \in Slot :
    At(q, "commit") /\ PasswordCommits(q) =>
        slot[q].link = None \/ \E l \in links : l.id = slot[q].link

(* When a password is set through a link, the link is still unused: two    *)
(* requests never set a password through the same one.                     *)
THEOREM OneLinkOnePassword == Spec => LinkSetsOnePassword
<1>1. IInv /\ [Next]_vars => [LinkUnused]_vars
  <2> SUFFICES ASSUME IInv, NEW q \in Slot, At(q, "commit")
               PROVE  slot[q].link = None \/ \E l \in links : l.id = slot[q].link
    BY DEF LinkUnused
  <2>1. q \in Busy /\ Good(slot[q])
    BY CommitsHold
  <2>2. slot[q].kind = "reset" => slot[q].link \in slot[q].held
    BY CommitsHold
  <2> QED BY <2>1, <2>2 DEF Good
<1> QED BY Inductive, <1>1, PTL DEF Spec, LinkSetsOnePassword, LinkUnused

--------------------------------------------------------------------------
(* Types.  A row's identity is a uuid, and a request names finitely many:  *)
(* there is always one that nothing names.                                 *)

NamesIds(x) == {x.link} \cup x.held \cup x.seen

InType(x) ==
    /\ x.acct \in Email /\ x.ends \subseteq Session /\ IsFiniteSet(x.seen)
    /\ x.kind \in {"mint", "invite", "link"} => x.who \in Person \cup {Manager}
    /\ x.kind \notin {"mint", "invite"} => accounts[x.acct] # None

TInv ==
    /\ people = [p \in Person |-> people[p]] /\ accounts = [e \in Email |-> accounts[e]]
    /\ \A p \in Person : people[p] # None => people[p] \in OnFloor
    /\ \A e \in Email : accounts[e] # None => accounts[e] \in Account
    /\ sessions \subseteq Session /\ IsFiniteSet(sessions)
    /\ links \subseteq Link /\ IsFiniteSet(links)
    /\ \A q \in Busy : InType(slot[q])

LEMMA FiniteImage ==
    ASSUME NEW S, IsFiniteSet(S), NEW f, f = [x \in S |-> f[x]]
    PROVE  IsFiniteSet({f[x] : x \in S})
<1>1. f \in Surjection(S, {f[x] : x \in S})
  BY DEF Surjection
<1> QED BY <1>1, FS_Surjection

LEMMA IdsFinite ==
    ASSUME TInv
    PROVE  /\ IsFiniteSet({l.id : l \in links}) /\ {l.id : l \in links} \subseteq LinkId
           /\ IsFiniteSet({s.id : s \in sessions})
<1>1. IsFiniteSet({l.id : l \in links})
  <2> DEFINE f == [l \in links |-> l.id]
  <2>1. f = [l \in links |-> f[l]] /\ {f[l] : l \in links} = {l.id : l \in links}
    OBVIOUS
  <2>2. IsFiniteSet(links)
    BY DEF TInv
  <2> HIDE DEF f
  <2>3. IsFiniteSet({f[l] : l \in links})
    BY <2>1, <2>2, FiniteImage
  <2> QED BY <2>1, <2>3
<1>2. IsFiniteSet({s.id : s \in sessions})
  <2> DEFINE f == [s \in sessions |-> s.id]
  <2>1. f = [s \in sessions |-> f[s]] /\ {f[s] : s \in sessions} = {s.id : s \in sessions}
    OBVIOUS
  <2>2. IsFiniteSet(sessions)
    BY DEF TInv
  <2> HIDE DEF f
  <2>3. IsFiniteSet({f[s] : s \in sessions})
    BY <2>1, <2>2, FiniteImage
  <2> QED BY <2>1, <2>3
<1> QED BY <1>1, <1>2 DEF TInv, Link

(* An identity that nothing names, for a link and for a session.           *)
LEMMA IdsLeft ==
    ASSUME IInv, TInv, ~IsFiniteSet(LinkId), ~IsFiniteSet(SessionId)
    PROVE  Unused(FreeLinks) \in LinkId /\ Unused(FreeSessions) \in SessionId
<1> DEFINE named == [q \in Busy |-> NamesIds(slot[q])]
           all == {named[q] : q \in Busy}
<1>1. \A q \in Busy : IsFiniteSet(NamesIds(slot[q]))
  <2> SUFFICES ASSUME NEW q \in Busy PROVE IsFiniteSet(NamesIds(slot[q]))
    OBVIOUS
  <2>1. IsFiniteSet(slot[q].held)
    <3>1. slot[q].held \in SUBSET {l.id : l \in links}
      BY DEF IInv, Good
    <3> QED BY <3>1, IdsFinite, FS_Subset
  <2>2. IsFiniteSet(slot[q].seen) /\ IsFiniteSet({slot[q].link})
    BY FS_Singleton DEF TInv, InType
  <2>3. IsFiniteSet({slot[q].link} \cup slot[q].held)
    BY <2>1, <2>2, FS_Union
  <2> QED BY <2>2, <2>3, FS_Union DEF NamesIds
<1>2. IsFiniteSet(Busy)
  BY SlotAssumption, FS_Subset DEF Busy
<1>3. IsFiniteSet(all) /\ \A T \in all : IsFiniteSet(T)
  <2>1. named = [q \in Busy |-> named[q]] /\ \A q \in Busy : named[q] = NamesIds(slot[q])
    OBVIOUS
  <2> HIDE DEF named
  <2>2. IsFiniteSet(all)
    BY <1>2, <2>1, FiniteImage
  <2> QED BY <1>1, <2>1, <2>2
<1>4. IsFiniteSet(UNION all)
  <2> HIDE DEF all
  <2> QED BY <1>3, FS_UNION
<1>5. FreeLinks = LinkId \ ({l.id : l \in links} \cup UNION all)
  <2>1. all = {{slot[q].link} \cup slot[q].held \cup slot[q].seen : q \in Busy}
    BY DEF NamesIds
  <2> HIDE DEF all
  <2> QED BY <2>1 DEF FreeLinks
<1> HIDE DEF all
<1>6. FreeLinks # {}
  <2>1. IsFiniteSet({l.id : l \in links} \cup UNION all)
    BY <1>4, IdsFinite, FS_Union
  <2>2. FreeLinks = {} => LinkId \in SUBSET ({l.id : l \in links} \cup UNION all)
    BY <1>5
  <2> QED BY <2>1, <2>2, FS_Subset
<1>7. FreeSessions # {}
  <2>1. FreeSessions = {} => SessionId \in SUBSET {s.id : s \in sessions}
    BY DEF FreeSessions
  <2> QED BY <2>1, IdsFinite, FS_Subset
<1>8. Unused(FreeLinks) \in FreeLinks /\ Unused(FreeSessions) \in FreeSessions
  BY <1>6, <1>7 DEF Unused
<1> QED BY <1>8 DEF FreeLinks, FreeSessions

(* One request moves and the tables stay.                                  *)
LEMMA SlotTypes ==
    ASSUME IInv, TInv, NEW q \in Slot, NEW x, slot' = [slot EXCEPT ![q] = x],
           UNCHANGED <<people, accounts, sessions, links>>, x # None => InType(x)
    PROVE  TInv'
<1>1. slot'[q] = x /\ \A r \in Slot : r # q => slot'[r] = slot[r]
  BY DEF IInv
<1>2. \A r \in Busy' : InType(slot'[r])
  BY <1>1 DEF TInv, Busy
<1>3. \A r \in Busy' : InType(slot[r])'
  BY <1>2 DEF InType
<1> QED BY <1>3 DEF TInv

LEMMA GivesUpTypes ==
    ASSUME IInv, TInv, NEW q \in Slot, GivesUp(q)
    PROVE  TInv'
BY SlotTypes DEF GivesUp

LEMMA BeginsTypes ==
    ASSUME IInv, TInv, NEW q \in Slot, NEW kind, NEW e \in Email, NEW p, NEW l,
           Begins(q, kind, e, p, l),
           kind \in {"mint", "invite", "link"} => p \in Person \cup {Manager},
           kind \notin {"mint", "invite"} => accounts[e] # None
    PROVE  TInv'
<1> DEFINE x == [kind |-> kind, todo |-> Script[kind], acct |-> e, who |-> p, link |-> l,
                 locked |-> FALSE, held |-> {}, seen |-> {}, ends |-> {}, old |-> FALSE]
<1>1. slot' = [slot EXCEPT ![q] = x] /\ UNCHANGED <<people, accounts, sessions, links>>
  BY DEF Begins
<1>2. InType(x)
  BY FS_EmptySet DEF InType
<1> HIDE DEF x
<1> QED BY <1>1, <1>2, SlotTypes

LEMMA AskedTypes ==
    ASSUME IInv, TInv, NEW q \in Slot, Asked(q)
    PROVE  TInv'
<1>1. ASSUME NEW e \in Email, Login(q, e) \/ Change(q, e) \/ AskReset(q, e) PROVE TInv'
  BY <1>1, BeginsTypes DEF Login, Change, AskReset, Enabled
<1>2. ASSUME NEW l \in links, FollowLink(q, l) PROVE TInv'
  <2>1. l.acct \in Email
    BY DEF TInv, Link
  <2> QED BY <1>2, <2>1, BeginsTypes DEF FollowLink, Enabled
<1>3. ASSUME NEW p \in Person, NEW terminal \in BOOLEAN, Invite(q, p, terminal) PROVE TInv'
  <2>1. people[p] # None => people[p].mail \in Email
    BY DEF TInv, OnFloor
  <2>2. \A e \in AccountsOf(p) : e \in Email /\ accounts[e] # None
    BY DEF AccountsOf
  <2>3. CASE \E e \in AccountsOf(p) : Begins(q, "resend", e, p, None)
    BY <2>2, <2>3, BeginsTypes
  <2>4. CASE people[p] # None /\ Begins(q, "invite", people[p].mail, p, None)
    BY <2>1, <2>4, BeginsTypes
  <2> QED BY <1>3, <2>3, <2>4 DEF Invite
<1>4. ASSUME NEW e \in Email, NEW p \in Person \cup {Manager}, Mint(q, e, p) PROVE TInv'
  BY <1>4, BeginsTypes DEF Mint
<1>5. ASSUME NEW e \in Email, NEW kind \in {"passwd", "disable"}, Tool(q, kind, e) PROVE TInv'
  BY <1>5, BeginsTypes DEF Tool
<1>6. ASSUME NEW e \in Email, NEW p \in Person, LinkPerson(q, e, p) PROVE TInv'
  BY <1>6, BeginsTypes DEF LinkPerson
<1> QED BY <1>1, <1>2, <1>3, <1>4, <1>5, <1>6 DEF Asked

LEMMA MovedTypes ==
    ASSUME IInv, TInv, NEW q \in Busy, NEW x, NEW todo, NEW locked, NEW held, NEW seen, NEW ends,
           x = Moved(slot[q], todo, locked, held, seen, ends),
           slot' = [slot EXCEPT ![q] = x],
           UNCHANGED <<people, accounts, sessions, links>>,
           ends \subseteq Session, IsFiniteSet(seen)
    PROVE  TInv'
<1>1. InType(x)
  BY DEF TInv, InType, Moved
<1> QED BY <1>1, SlotTypes DEF Busy

LEMMA StatementsType ==
    ASSUME IInv, TInv, NEW q \in Slot,
           Locks(q) \/ Inserts(q) \/ Spends(q) \/ Revokes(q) \/ Looks(q) \/ Voids(q)
    PROVE  TInv'
<1> DEFINE rest == Tail(slot[q].todo)
<1>1. /\ q \in Busy /\ IsRequest(slot[q]) /\ InType(slot[q])
  BY DEF Locks, Inserts, Spends, Revokes, Looks, Voids, At, IInv, Good, TInv
<1>2. slot[q].ends \subseteq Session /\ IsFiniteSet(slot[q].seen)
  BY <1>1 DEF InType
<1>3. CASE GivesUp(q)
  BY <1>3, GivesUpTypes
<1>4. CASE Continues(q, [slot[q] EXCEPT !.locked = TRUE])
  <2> DEFINE x == [[slot[q] EXCEPT !.locked = TRUE] EXCEPT !.todo = rest]
  <2>1. slot' = [slot EXCEPT ![q] = x] /\ UNCHANGED <<people, accounts, sessions, links>>
    BY <1>4 DEF Continues
  <2>2. x = Moved(slot[q], rest, TRUE, slot[q].held, slot[q].seen, slot[q].ends)
    BY <1>1, MovesLocked, Zenon
  <2> HIDE DEF x
  <2> QED BY <1>1, <1>2, <2>1, <2>2, MovedTypes
<1>5. ASSUME NEW held, Continues(q, [slot[q] EXCEPT !.held = held]) PROVE TInv'
  <2> DEFINE x == [[slot[q] EXCEPT !.held = held] EXCEPT !.todo = rest]
  <2>1. slot' = [slot EXCEPT ![q] = x] /\ UNCHANGED <<people, accounts, sessions, links>>
    BY <1>5 DEF Continues
  <2>2. x = Moved(slot[q], rest, slot[q].locked, held, slot[q].seen, slot[q].ends)
    BY <1>1, MovesHeld, Zenon
  <2> HIDE DEF x
  <2> QED BY <1>1, <1>2, <2>1, <2>2, MovedTypes
<1>6. CASE Revokes(q)
  <2> DEFINE ended == SessionsOf(slot[q].acct)
             x == [[slot[q] EXCEPT !.ends = ended] EXCEPT !.todo = rest]
  <2>1. slot' = [slot EXCEPT ![q] = x] /\ UNCHANGED <<people, accounts, sessions, links>>
    BY <1>6 DEF Revokes, Continues
  <2>2. ended \subseteq Session
    BY DEF SessionsOf, TInv
  <2> HIDE DEF ended
  <2>3. x = Moved(slot[q], rest, slot[q].locked, slot[q].held, slot[q].seen, ended)
    BY <1>1, MovesEnds, Zenon
  <2> HIDE DEF x
  <2> QED BY <1>1, <1>2, <2>1, <2>2, <2>3, MovedTypes
<1>7. CASE Looks(q)
  <2> DEFINE found == LinksOf(slot[q].acct) \ slot[q].held
             x == [[slot[q] EXCEPT !.seen = found] EXCEPT !.todo = rest]
  <2>1. slot' = [slot EXCEPT ![q] = x] /\ UNCHANGED <<people, accounts, sessions, links>>
    BY <1>7 DEF Looks, Continues
  <2>2. IsFiniteSet(found)
    <3>1. found \in SUBSET {l.id : l \in links}
      BY DEF LinksOf
    <3> HIDE DEF found
    <3> QED BY <3>1, IdsFinite, FS_Subset
  <2> HIDE DEF found
  <2>3. x = Moved(slot[q], rest, slot[q].locked, slot[q].held, found, slot[q].ends)
    BY <1>1, MovesSeen, Zenon
  <2> HIDE DEF x
  <2> QED BY <1>1, <1>2, <2>1, <2>2, <2>3, MovedTypes
<1>8. CASE Voids(q)
  BY <1>5, <1>8 DEF Voids
<1> QED BY <1>3, <1>4, <1>5, <1>6, <1>7, <1>8 DEF Locks, Inserts, Spends, Refused

(* A commit: of the tables, only what the request writes.                  *)
LEMMA AgedType ==
    ASSUME TInv, NEW e, NEW q \in Slot
    PROVE  Aged(e, Kept(q)) \subseteq Session /\ IsFiniteSet(Aged(e, Kept(q)))
<1>1. Kept(q) \subseteq Session /\ IsFiniteSet(Kept(q))
  <2>1. Kept(q) \in SUBSET sessions
    BY DEF Kept
  <2> QED BY <2>1, FS_Subset DEF TInv
<1> DEFINE f == [s \in Kept(q) |-> [s EXCEPT !.stale = @ \/ s.acct = e]]
<1>2. f = [s \in Kept(q) |-> f[s]] /\ Aged(e, Kept(q)) = {f[s] : s \in Kept(q)}
  BY DEF Aged
<1>3. \A s \in Kept(q) : f[s] \in Session
  <2> SUFFICES ASSUME NEW s \in Kept(q) PROVE f[s] \in Session
    OBVIOUS
  <2>1. s \in Session
    BY <1>1
  <2>2. PICK b \in BOOLEAN : b = (s.stale \/ s.acct = e)
    BY <2>1 DEF Session
  <2>3. f[s] = [s EXCEPT !.stale = b]
    BY <2>2
  <2> QED BY <2>1, <2>3 DEF Session
<1> HIDE DEF f
<1>4. IsFiniteSet({f[s] : s \in Kept(q)})
  BY <1>1, <1>2, FiniteImage
<1> QED BY <1>2, <1>3, <1>4

(* What a row of accounts becomes.                                         *)
LEMMA AccountTypes ==
    ASSUME TInv, NEW e \in Email
    PROVE  /\ \A w \in Person \cup {Manager}, b \in BOOLEAN :
                [who |-> w, set |-> b, disabled |-> FALSE] \in Account
           /\ accounts[e] # None =>
                /\ [accounts[e] EXCEPT !.set = TRUE] \in Account
                /\ [accounts[e] EXCEPT !.disabled = TRUE] \in Account
                /\ \A w \in Person \cup {Manager} : [accounts[e] EXCEPT !.who = w] \in Account
BY DEF TInv, Account

LEMMA CommitsTypes ==
    ASSUME ~IsFiniteSet(LinkId), ~IsFiniteSet(SessionId),
           IInv, TInv, NEW q \in Slot, Commits(q)
    PROVE  TInv'
<1> DEFINE e == slot[q].acct
           w == slot[q].who
<1>0. /\ q \in Busy /\ e \in Email
      /\ slot[q].kind \in {"mint", "invite", "link"} => w \in Person \cup {Manager}
      /\ Kept(q) \subseteq Session /\ IsFiniteSet(Kept(q))
      /\ Unvoided(q) \subseteq Link /\ IsFiniteSet(Unvoided(q))
      /\ sessions \subseteq Session /\ IsFiniteSet(sessions)
      /\ links \subseteq Link /\ IsFiniteSet(links)
  <2>1. q \in Busy /\ InType(slot[q])
    BY CommitsHold DEF Commits, TInv
  <2>2. Kept(q) \in SUBSET sessions /\ Unvoided(q) \in SUBSET links
    BY DEF Kept, Unvoided
  <2> QED BY <2>1, <2>2, FS_Subset DEF TInv, InType
<1>2. PICK opened \in Session : opened = Opened(q)
  <2>1. PICK i \in SessionId : i = Unused(FreeSessions)
    BY IdsLeft
  <2>2. slot[q].old \in BOOLEAN
    BY <1>0 DEF IInv, Good
  <2> QED BY <1>0, <2>1, <2>2 DEF Opened, Session
<1>3. PICK made \in Link : made = [id |-> Unused(FreeLinks), acct |-> e]
  <2>1. PICK i \in LinkId : i = Unused(FreeLinks)
    BY IdsLeft
  <2> QED BY <1>0, <2>1 DEF Link
<1>4. people' = people
  BY DEF Commits, LoginCommits, PasswordCommits, LinkCommits, ToolCommits
<1>5. sessions' \subseteq Session /\ IsFiniteSet(sessions')
  <2>1. CASE LoginCommits(q)
    <3>1. sessions' = sessions \cup {opened}
      BY <1>2, <2>1 DEF LoginCommits
    <3> QED BY <1>0, <3>1, FS_AddElement
  <2>2. CASE PasswordCommits(q)
    <3>1. sessions' = Aged(e, Kept(q)) \cup {opened}
      BY <1>2, <2>2 DEF PasswordCommits
    <3> QED BY <3>1, AgedType, FS_AddElement
  <2>3. CASE LinkCommits(q)
    BY <1>0, <2>3 DEF LinkCommits
  <2>4. CASE ToolCommits(q)
    BY <1>0, <2>4, AgedType DEF ToolCommits
  <2> QED BY <2>1, <2>2, <2>3, <2>4 DEF Commits
<1>6. links' \subseteq Link /\ IsFiniteSet(links')
  <2>1. CASE LinkCommits(q)
    <3>1. links' = Unvoided(q) \cup {made}
      BY <1>3, <2>1 DEF LinkCommits
    <3> QED BY <1>0, <3>1, FS_AddElement
  <2>2. CASE ~LinkCommits(q)
    BY <1>0, <2>2 DEF Commits, LoginCommits, PasswordCommits, ToolCommits
  <2> QED BY <2>1, <2>2
<1>7. /\ accounts' = [x \in Email |-> accounts'[x]]
      /\ \A x \in Email : accounts'[x] # None => accounts'[x] \in Account
      /\ \A x \in Email : accounts[x] # None => accounts'[x] # None
  <2>0. accounts = [x \in Email |-> accounts[x]]
    BY DEF TInv
  <2> DEFINE Goal == /\ accounts' = [x \in Email |-> accounts'[x]]
                     /\ \A x \in Email : accounts'[x] # None => accounts'[x] \in Account
                     /\ \A x \in Email : accounts[x] # None => accounts'[x] # None
  <2>1. ASSUME NEW y, accounts' = [accounts EXCEPT ![e] = y], y \in Account
        PROVE  Goal
    <3>1. \A x \in Email : accounts'[x] = IF x = e THEN y ELSE accounts[x]
      BY <2>0, <2>1
    <3>2. y # None
      BY <2>1, AccountAssumption
    <3> QED BY <2>0, <2>1, <3>1, <3>2 DEF TInv
  <2>2. CASE accounts' = accounts
    BY <2>0, <2>2 DEF TInv
  <2>3. CASE PasswordCommits(q)
    <3>1. accounts[e] # None
      BY <1>0, <2>3 DEF TInv, InType, PasswordCommits
    <3>2. accounts' = [accounts EXCEPT ![e] = [accounts[e] EXCEPT !.set = TRUE]]
      BY <2>0, <2>3 DEF PasswordCommits
    <3> QED BY <1>0, <2>1, <3>1, <3>2, AccountTypes
  <2>4. CASE LinkCommits(q)
    <3>1. CASE slot[q].kind = "invite"
      <4>1. accounts' = [accounts EXCEPT ![e] = [who |-> w, set |-> FALSE, disabled |-> FALSE]]
        BY <2>4, <3>1 DEF LinkCommits
      <4> QED BY <1>0, <2>1, <3>1, <4>1, AccountTypes
    <3> QED BY <2>2, <2>4, <3>1 DEF LinkCommits
  <2>5. CASE ToolCommits(q)
    <3>1. slot[q].kind # "mint" => accounts[e] # None
      BY <1>0, <2>5 DEF TInv, InType, ToolCommits
    <3>2. CASE slot[q].kind = "mint"
      <4>1. accounts' = [accounts EXCEPT ![e] = [who |-> w, set |-> TRUE, disabled |-> FALSE]]
        BY <2>5, <3>2 DEF ToolCommits
      <4> QED BY <1>0, <2>1, <3>2, <4>1, AccountTypes
    <3>3. CASE slot[q].kind = "passwd"
      <4>1. accounts' = [accounts EXCEPT ![e] = [accounts[e] EXCEPT !.set = TRUE]]
        BY <2>5, <3>3 DEF ToolCommits
      <4> QED BY <1>0, <2>1, <3>1, <3>3, <4>1, AccountTypes
    <3>4. CASE slot[q].kind = "disable"
      <4>1. accounts' = [accounts EXCEPT ![e] = [accounts[e] EXCEPT !.disabled = TRUE]]
        BY <2>5, <3>4 DEF ToolCommits
      <4> QED BY <1>0, <2>1, <3>1, <3>4, <4>1, AccountTypes
    <3>5. CASE slot[q].kind = "link"
      <4>1. accounts' = [accounts EXCEPT ![e] = [accounts[e] EXCEPT !.who = w]]
        BY <2>5, <3>5 DEF ToolCommits
      <4> QED BY <1>0, <2>1, <3>1, <3>5, <4>1, AccountTypes
    <3> QED BY <2>5, <3>2, <3>3, <3>4, <3>5 DEF ToolCommits
  <2> QED BY <2>2, <2>3, <2>4, <2>5 DEF Commits, LoginCommits
<1>8. \A r \in Busy' : InType(slot[r])'
  <2> SUFFICES ASSUME NEW r \in Busy' PROVE InType(slot[r])'
    OBVIOUS
  <2>1. r \in Busy /\ (slot'[r] = slot[r] \/ Overtaken(slot[r], slot'[r]))
    BY CommitsOvertake DEF Busy
  <2>2. InType(slot[r])
    BY <2>1 DEF TInv
  <2> QED BY <1>7, <2>1, <2>2 DEF InType, Overtaken
<1> QED BY <1>4, <1>5, <1>6, <1>7, <1>8 DEF TInv

LEMMA AroundTypes ==
    ASSUME IInv, TInv,
           \/ \E s \in sessions : Logout(s) \/ SessionExpires(s)
           \/ \E l \in links : LinkExpires(l)
           \/ \E p \in Person, mail \in Email : AddPerson(p, mail)
           \/ \E p \in Person : PersonLeaves(p)
           \/ UNCHANGED vars
    PROVE  TInv'
<1>1. slot' = slot /\ accounts' = accounts
  BY DEF Logout, SessionExpires, LinkExpires, AddPerson, PersonLeaves, vars
<1>2. \A q \in Busy' : InType(slot[q])'
  BY <1>1 DEF TInv, Busy, InType
<1>3. sessions' \subseteq Session /\ IsFiniteSet(sessions')
  <2>1. sessions' \in SUBSET sessions
    BY DEF Logout, SessionExpires, LinkExpires, AddPerson, PersonLeaves, vars
  <2> QED BY <2>1, FS_Subset DEF TInv
<1>4. links' \subseteq Link /\ IsFiniteSet(links')
  <2>1. links' \in SUBSET links
    BY DEF Logout, SessionExpires, LinkExpires, AddPerson, PersonLeaves, vars
  <2> QED BY <2>1, FS_Subset DEF TInv
<1>5. /\ people' = [p \in Person |-> people'[p]]
      /\ \A p \in Person : people'[p] # None => people'[p] \in OnFloor
  <2>1. CASE people' = people
    BY <2>1 DEF TInv
  <2>2. ASSUME NEW p \in Person, NEW y \in OnFloor, people' = [people EXCEPT ![p] = y]
        PROVE  /\ people' = [x \in Person |-> people'[x]]
               /\ \A x \in Person : people'[x] # None => people'[x] \in OnFloor
    BY <2>2 DEF TInv
  <2>3. ASSUME NEW p \in Person, NEW mail \in Email, AddPerson(p, mail)
        PROVE  \E y \in OnFloor : people' = [people EXCEPT ![p] = y]
    BY <2>3 DEF AddPerson, OnFloor
  <2>4. ASSUME NEW p \in Person, PersonLeaves(p)
        PROVE  \E y \in OnFloor : people' = [people EXCEPT ![p] = y]
    <3>1. people[p] \in OnFloor
      BY <2>4 DEF PersonLeaves, TInv
    <3>2. [people[p] EXCEPT !.left = TRUE] \in OnFloor
      BY <3>1 DEF OnFloor
    <3>3. people' = [people EXCEPT ![p] = [people[p] EXCEPT !.left = TRUE]]
      BY <2>4 DEF PersonLeaves, TInv
    <3> QED BY <3>2, <3>3
  <2> QED
    BY <2>1, <2>2, <2>3, <2>4 DEF Logout, SessionExpires, LinkExpires, vars
<1> QED BY <1>1, <1>2, <1>3, <1>4, <1>5 DEF TInv

LEMMA InitTypes == Init => TInv
BY FS_EmptySet DEF Init, TInv, Busy

LEMMA NextTypes ==
    ASSUME ~IsFiniteSet(LinkId), ~IsFiniteSet(SessionId), IInv, TInv, [Next]_vars
    PROVE  TInv'
<1>1. ASSUME NEW q \in Slot, Asked(q) \/ Step(q) \/ Dies(q) PROVE TInv'
  BY <1>1, AskedTypes, StatementsType, CommitsTypes, GivesUpTypes DEF Step, Aborted, Dies
<1> QED BY <1>1, AroundTypes DEF Next

(* What is left to do ends with the commit, in whatever request it is.     *)
LEMMA EndsInCommit ==
    ASSUME NEW kind \in Kinds, NEW todo \in Rest(kind)
    PROVE  todo # <<>> /\ todo[Len(todo)] = "commit"
<1>1. todo \in {<<"lock", "commit">>, Last, SetPassword, Revoke, Look, Void, Spend,
                Invited, Again, AgainVoid, <<"insert", "commit">>,
                <<"lock", "revoke", "commit">>, ToolRevoke}
  BY DEF Kinds, Rest
<1>2. /\ Len(Last) = 1 /\ Len(Void) = 2 /\ Len(Look) = 3 /\ Len(Revoke) = 4
      /\ Len(SetPassword) = 5 /\ Len(Spend) = 6 /\ Len(ToolRevoke) = 2
      /\ Len(<<"lock", "commit">>) = 2 /\ Len(<<"insert", "commit">>) = 2
      /\ Len(<<"lock", "revoke", "commit">>) = 3
      /\ Len(Invited) = 6 /\ Len(Again) = 5 /\ Len(AgainVoid) = 4
  BY DEF Last, SetPassword, Revoke, Look, Void, Spend, ToolRevoke, Invited, Again, AgainVoid
<1>3. todo[Len(todo)] = "commit"
  <2>1. /\ Last[1] = "commit" /\ Void[2] = "commit" /\ Look[3] = "commit"
        /\ Revoke[4] = "commit" /\ SetPassword[5] = "commit" /\ Spend[6] = "commit"
        /\ ToolRevoke[2] = "commit" /\ <<"lock", "commit">>[2] = "commit"
        /\ <<"insert", "commit">>[2] = "commit"
        /\ <<"lock", "revoke", "commit">>[3] = "commit"
        /\ Invited[6] = "commit" /\ Again[5] = "commit" /\ AgainVoid[4] = "commit"
    BY DEF Last, SetPassword, Revoke, Look, Void, Spend, ToolRevoke, Invited, Again, AgainVoid
  <2> QED BY <1>1, <1>2, <2>1
<1>4. todo # <<>>
  <2>1. Len(todo) # 0
    <3>1. Len(todo) \in 1..6
      BY <1>1, <1>2
    <3> QED BY <3>1
  <2>2. Len(<<>>) = 0
    OBVIOUS
  <2> QED BY <2>1, <2>2
<1> QED BY <1>3, <1>4

(* Type correctness: every request still has its commit before it, and the *)
(* rows it writes are rows of accounts, sessions and links there are ids   *)
(* for.  Rows have uuid keys, which do not run out.                        *)
THEOREM TypeCorrect ==
    ASSUME ~IsFiniteSet(LinkId), ~IsFiniteSet(SessionId)
    PROVE  Spec => []TypeOK
<1>1. IInv /\ TInv /\ [Next]_vars => TInv'
  BY NextTypes
<1>2. IInv /\ TInv => TypeOK
  <2> SUFFICES ASSUME IInv, TInv PROVE TypeOK
    OBVIOUS
  <2>1. ASSUME NEW q \in Busy
        PROVE  /\ slot[q].acct \in Email
               /\ slot[q].todo # <<>> /\ slot[q].todo[Len(slot[q].todo)] = "commit"
               /\ slot[q].held \subseteq LinkId /\ slot[q].ends \subseteq Session
    <3>1. Good(slot[q]) /\ InType(slot[q])
      BY DEF IInv, TInv
    <3> QED BY <3>1, IdsFinite, EndsInCommit DEF Good, InType
  <2> QED BY <2>1 DEF TInv, TypeOK
<1> QED BY <1>1, <1>2, InitTypes, Inductive, PTL DEF Spec
============================================================================
