---------------------------- MODULE Accounts ----------------------------
(* People, accounts, sessions and password links: the routes of            *)
(* services/rigs/people.py and tools/mint_account.py over the tables of    *)
(* core/domains/accounts and core/domains/people.                          *)
(*                                                                         *)
(* A request is a transaction at READ COMMITTED.  What it reads before its *)
(* first write happens when it begins; then it runs its statements one at  *)
(* a time, in the order of its script, and others run between them.  An    *)
(* UPDATE holds its rows until the commit and waits for rows others hold;  *)
(* nobody sees a write before it commits.  A request that is refused       *)
(* before it wrote changes nothing and is not an action.                   *)
(*                                                                         *)
(* A password is told apart only from the one that replaced it: a login    *)
(* carries whether the password it was accepted under has been replaced    *)
(* since (old), and so does the session it opens (stale).                  *)
EXTENDS Naturals, Sequences, FiniteSets

CONSTANTS
    Person, Email,
    Manager,        \* in the place of a person: a manager's account has none
    None,           \* no account, no email, no link, an idle slot
    Slot,           \* requests in progress at once
    LinkId, SessionId,      \* identities, reused when nothing names them any more
    MaxLinks, MaxSessions   \* bounds: alive at once, those being opened included

ASSUME SlotAssumption == IsFiniteSet(Slot)
ASSUME WhoAssumption == Manager \notin Person /\ None \notin Person \cup Email \cup LinkId

VARIABLES
    people,     \* people[p]: [mail, left], or None; nobody without an email
    accounts,   \* accounts[e]: [who, set, disabled], or None; email is unique
    sessions,   \* the sessions that live() may still answer
    links,      \* the password_resets not used
    slot        \* what each request is doing

vars == <<people, accounts, sessions, links, slot>>

OnFloor == [mail : Email, left : BOOLEAN]
Account == [who : Person \cup {Manager}, set : BOOLEAN, disabled : BOOLEAN]
ASSUME AccountAssumption == None \notin Account
Session == [id : SessionId, acct : Email, stale : BOOLEAN]
Link == [id : LinkId, acct : Email]

Enabled(e) == accounts[e] # None /\ ~accounts[e].disabled
AccountsOf(p) == {e \in Email : accounts[e] # None /\ accounts[e].who = p}
SessionsOf(e) == {s \in sessions : s.acct = e}
LinksOf(e) == {l.id : l \in {k \in links : k.acct = e}}

--------------------------------------------------------------------------
(* Transactions.                                                           *)

(* _set_password: the UPDATE of accounts comes first, because revoke_all   *)
(* flushes it; void_all sees the links, then waits for their rows.         *)
\* Mutation: the old sessions are ended before the password is written.
SetPassword_RevokesFirst == <<"revoke", "lock", "look", "void", "commit">>
\* Mutation: the route forgets to commit.
SetPassword_Uncommitted == <<"lock", "revoke", "look", "void">>
SetPassword == <<"lock", "revoke", "look", "void", "commit">>

(* The statements of each request, from its first write on.  A login       *)
(* writes last_login_at when it commits, and so waits for the account; an  *)
(* invitation voids the links itself, and open voids them again.           *)
Script ==
    [login   |-> <<"lock", "commit">>,
     change  |-> SetPassword,
     reset   |-> <<"spend">> \o SetPassword,
     ask     |-> <<"look", "void", "commit">>,
     invite  |-> <<"insert", "look", "void", "look", "void", "commit">>,
     resend  |-> <<"look", "void", "look", "void", "commit">>,
     mint    |-> <<"insert", "commit">>,
     passwd  |-> <<"lock", "revoke", "commit">>,
     disable |-> <<"lock", "revoke", "commit">>,
     link    |-> <<"lock", "commit">>]

Busy == {q \in Slot : slot[q] # None}
At(q, statement) == q \in Busy /\ Head(slot[q].todo) = statement

(* Who holds what a request wants next: the row of an account, or the      *)
(* place of its email or its person in a unique index; the row of a link.  *)
HoldsAccount(e) == {q \in Busy : slot[q].locked /\ slot[q].acct = e}
HoldsPerson(p) == {q \in Busy : slot[q].locked /\ slot[q].who = p /\ p \in Person}
HoldsLink(l) == {q \in Busy : l \in slot[q].held}
Holders(q) == {r \in Busy :
    \/ /\ At(q, "lock") \/ At(q, "insert")
       /\ r \in HoldsAccount(slot[q].acct) \cup HoldsPerson(slot[q].who)
    \/ At(q, "spend") /\ r \in HoldsLink(slot[q].link)
    \/ At(q, "void") /\ \E l \in slot[q].seen : r \in HoldsLink(l)}
WaitsFor(q) == Holders(q) \ {q}
Runs(q) == WaitsFor(q) = {}

SetsPassword == {"change", "reset", "passwd"}
OpensSession == {"login", "change", "reset"}
OpensLink == {"ask", "invite", "resend"}
Opening(kinds) == Cardinality({q \in Busy : slot[q].kind \in kinds})

Begins(q, kind, e, p, l) ==
    /\ slot[q] = None
    /\ kind \in OpensSession => Cardinality(sessions) + Opening(OpensSession) < MaxSessions
    /\ kind \in OpensLink => Cardinality(links) + Opening(OpensLink) < MaxLinks
    /\ slot' = [slot EXCEPT ![q] =
         [kind |-> kind, todo |-> Script[kind], acct |-> e, who |-> p, link |-> l,
          locked |-> FALSE, held |-> {}, seen |-> {}, ends |-> {}, old |-> FALSE]]
    /\ UNCHANGED <<people, accounts, sessions, links>>

Continues(q, changes) ==
    /\ slot' = [slot EXCEPT ![q] = [changes EXCEPT !.todo = Tail(slot[q].todo)]]
    /\ UNCHANGED <<people, accounts, sessions, links>>

(* The session of the database is closed without a commit.                 *)
GivesUp(q) ==
    /\ slot' = [slot EXCEPT ![q] = None]
    /\ UNCHANGED <<people, accounts, sessions, links>>

--------------------------------------------------------------------------
(* How each request begins: its reads and its refusals.                    *)

(* sign_in, with the right password.  An account that was only invited has *)
(* a password nobody knows.                                                *)
Login(q, e) ==
    /\ Enabled(e) /\ accounts[e].set
    /\ Begins(q, "login", e, None, None)

(* change_password, from a browser that is signed in.                      *)
Change(q, e) ==
    /\ Enabled(e) /\ accounts[e].set /\ SessionsOf(e) # {}
    /\ Begins(q, "change", e, None, None)

(* begin_reset, in the background.                                         *)
AskReset(q, e) == Enabled(e) /\ Begins(q, "ask", e, None, None)

(* finish_reset: the link is live, and the new password good enough.       *)
FollowLink(q, l) ==
    /\ l \in links /\ Enabled(l.acct)
    /\ Begins(q, "reset", l.acct, None, l.id)

(* The desk's button wants a manager, or a floor with no accounts at all;  *)
(* the terminal's verb wants neither.                                      *)
ManagerMay ==
    \/ \A e \in Email : accounts[e] = None
    \/ \E s \in sessions : Enabled(s.acct) /\ accounts[s.acct].who = Manager

(* invite_person: somebody on the floor with an email, and either an       *)
(* account nobody has set a password for, or none and the email free.      *)
Invite(q, p, terminal) ==
    /\ terminal \/ ManagerMay
    /\ people[p] # None /\ ~people[p].left
    /\ \/ \E e \in AccountsOf(p) : /\ ~accounts[e].disabled /\ ~accounts[e].set
                                   /\ Begins(q, "resend", e, p, None)
       \/ /\ AccountsOf(p) = {} /\ accounts[people[p].mail] = None
          /\ Begins(q, "invite", people[p].mail, p, None)

(* mint_account manager and operator: with a password.                     *)
Mint(q, e, p) ==
    /\ accounts[e] = None
    /\ p \in Person => people[p] # None /\ AccountsOf(p) = {}
    /\ Begins(q, "mint", e, p, None)

Tool(q, kind, e) ==
    /\ kind \in {"passwd", "disable"} /\ accounts[e] # None
    /\ Begins(q, kind, e, None, None)

(* mint_account link: an operator's account is given its person.           *)
LinkPerson(q, e, p) ==
    /\ accounts[e] # None /\ accounts[e].who # Manager
    /\ people[p] # None /\ AccountsOf(p) \subseteq {e}
    /\ Begins(q, "link", e, p, None)

--------------------------------------------------------------------------
(* The statements.                                                         *)

(* The UPDATE of an account; for link, uq_accounts_person is checked.      *)
Locks(q) ==
    /\ At(q, "lock") /\ Runs(q)
    /\ IF slot[q].kind = "link" /\ ~(AccountsOf(slot[q].who) \subseteq {slot[q].acct})
       THEN GivesUp(q)
       ELSE Continues(q, [slot[q] EXCEPT !.locked = TRUE])

(* The INSERT of an account: uq_accounts_email and uq_accounts_person.     *)
Clashes(q) ==
    \/ accounts[slot[q].acct] # None
    \/ slot[q].who \in Person /\ AccountsOf(slot[q].who) # {}
Inserts(q) ==
    /\ At(q, "insert") /\ Runs(q)
    /\ IF Clashes(q) THEN GivesUp(q)
       ELSE Continues(q, [slot[q] EXCEPT !.locked = TRUE])

(* spend: the row count says whether this was the first use.  It asks only *)
(* whether the link is used, not again whether it has expired.             *)
\* Mutation: the row count is not looked at.
Unspent_Any(l) == TRUE
Unspent(l) == l \in {k.id : k \in links}
\* Mutation: the refusal leaves its transaction open.
Refused_Open(q) == UNCHANGED vars
Refused(q) == GivesUp(q)
Spends(q) ==
    /\ At(q, "spend") /\ Runs(q)
    /\ IF Unspent(slot[q].link)
       THEN Continues(q, [slot[q] EXCEPT !.held = {slot[q].link}])
       ELSE Refused(q)

Revokes(q) ==
    /\ At(q, "revoke")
    /\ Continues(q, [slot[q] EXCEPT !.ends = SessionsOf(slot[q].acct)])

Looks(q) ==
    /\ At(q, "look")
    /\ Continues(q, [slot[q] EXCEPT !.seen = LinksOf(slot[q].acct) \ slot[q].held])

(* Once it has the rows it asks again which of them are unused.            *)
Voids(q) ==
    /\ At(q, "void") /\ Runs(q)
    /\ Continues(q, [slot[q] EXCEPT !.held = @ \cup (slot[q].seen \cap LinksOf(slot[q].acct))])

--------------------------------------------------------------------------
(* The commits.                                                            *)

FreeLinks ==
    LinkId \ ({l.id : l \in links}
              \cup UNION {{slot[q].link} \cup slot[q].held \cup slot[q].seen : q \in Busy})
FreeSessions == SessionId \ {s.id : s \in sessions}
(* Which of the identities not in use a row is given is nobody's concern.  *)
Unused(ids) == CHOOSE i \in ids : TRUE

Kept(q) == sessions \ slot[q].ends
Opened(q) == [id |-> Unused(FreeSessions), acct |-> slot[q].acct, stale |-> slot[q].old]
(* The sessions that a new password finds still alive.                     *)
Aged(e, alive) == {[s EXCEPT !.stale = @ \/ s.acct = e] : s \in alive}
Unvoided(q) == {l \in links : l.id \notin slot[q].held}

LoginCommits(q) ==
    /\ slot[q].kind = "login"
    /\ sessions' = sessions \cup {Opened(q)}
    /\ UNCHANGED <<people, accounts, links>>

(* The change and the reset, which opens the door it came through.         *)
PasswordCommits(q) ==
    LET e == slot[q].acct
    IN  /\ slot[q].kind \in {"change", "reset"}
        /\ accounts' = [accounts EXCEPT ![e].set = TRUE]
        /\ sessions' = Aged(e, Kept(q)) \cup {Opened(q)}
        /\ links' = Unvoided(q)
        /\ UNCHANGED people

(* A link is made for an account; an invitation may make the account too.  *)
LinkCommits(q) ==
    LET e == slot[q].acct
        l == Unused(FreeLinks)
    IN  /\ slot[q].kind \in OpensLink
        /\ accounts' = IF slot[q].kind # "invite" THEN accounts
                       ELSE [accounts EXCEPT ![e] =
                              [who |-> slot[q].who, set |-> FALSE, disabled |-> FALSE]]
        /\ links' = Unvoided(q) \cup {[id |-> l, acct |-> e]}
        /\ UNCHANGED <<people, sessions>>

(* mint_account: passwd ends the sessions and leaves the links.            *)
ToolCommits(q) ==
    LET e == slot[q].acct
    IN  /\ slot[q].kind \in {"mint", "passwd", "disable", "link"}
        /\ accounts' = [accounts EXCEPT ![e] =
             CASE slot[q].kind = "mint" -> [who |-> slot[q].who, set |-> TRUE, disabled |-> FALSE]
               [] slot[q].kind = "passwd" -> [@ EXCEPT !.set = TRUE]
               [] slot[q].kind = "disable" -> [@ EXCEPT !.disabled = TRUE]
               [] slot[q].kind = "link" -> [@ EXCEPT !.who = slot[q].who]]
        /\ sessions' = IF slot[q].kind = "passwd" THEN Aged(e, Kept(q)) ELSE Kept(q)
        /\ UNCHANGED <<people, links>>

(* Who was accepted under the password that q replaces, and has not        *)
(* committed yet: nothing looks at the password again.                     *)
Outrun(q) == {r \in Busy : /\ slot[q].kind \in SetsPassword
                           /\ slot[r].kind = "login" /\ slot[r].acct = slot[q].acct}

Commits(q) ==
    /\ At(q, "commit")
    /\ LoginCommits(q) \/ PasswordCommits(q) \/ LinkCommits(q) \/ ToolCommits(q)
    /\ slot' = [r \in Slot |-> IF r = q THEN None
                              ELSE IF r \in Outrun(q) THEN [slot[r] EXCEPT !.old = TRUE]
                              ELSE slot[r]]

--------------------------------------------------------------------------
(* Around the requests.                                                    *)

(* Postgres ends one of the requests that wait for one another.            *)
Deadlocked(q) == \E ring \in SUBSET Busy :
    q \in ring /\ \A r \in ring : WaitsFor(r) \cap ring # {}
Aborted(q) == q \in Busy /\ Deadlocked(q) /\ GivesUp(q)

(* The process or its connection is lost, or the database raised.          *)
Dies(q) == q \in Busy /\ GivesUp(q)

(* A sign-out is one statement and its commit.                             *)
Logout(s) ==
    /\ s \in sessions
    /\ sessions' = sessions \ {s}
    /\ UNCHANGED <<people, accounts, links, slot>>

(* Time runs out for a session, which nothing reads from then on; and for  *)
(* a link, of which a request that has read it no longer takes notice.     *)
SessionExpires(s) == Logout(s)
LinkExpires(l) ==
    /\ l \in links
    /\ \A q \in Busy : l.id \notin {slot[q].link} \cup slot[q].held \cup slot[q].seen
    /\ links' = links \ {l}
    /\ UNCHANGED <<people, accounts, sessions, slot>>

(* POST /people, refused when the email is somebody's on the floor.        *)
AddPerson(p, mail) ==
    /\ people[p] = None
    /\ \A x \in Person : people[x] # None => people[x].mail # mail
    /\ people' = [people EXCEPT ![p] = [mail |-> mail, left |-> FALSE]]
    /\ UNCHANGED <<accounts, sessions, links, slot>>

(* POST /people/{id}/disable: their account is left as it is.              *)
PersonLeaves(p) ==
    /\ people[p] # None /\ ~people[p].left
    /\ people' = [people EXCEPT ![p].left = TRUE]
    /\ UNCHANGED <<accounts, sessions, links, slot>>

--------------------------------------------------------------------------
Init ==
    /\ people = [p \in Person |-> None]
    /\ accounts = [e \in Email |-> None]
    /\ sessions = {} /\ links = {}
    /\ slot = [q \in Slot |-> None]

Asked(q) ==
    \/ \E e \in Email : Login(q, e) \/ Change(q, e) \/ AskReset(q, e)
    \/ \E l \in links : FollowLink(q, l)
    \/ \E p \in Person, terminal \in BOOLEAN : Invite(q, p, terminal)
    \/ \E e \in Email, p \in Person \cup {Manager} : Mint(q, e, p)
    \/ \E e \in Email, kind \in {"passwd", "disable"} : Tool(q, kind, e)
    \/ \E e \in Email, p \in Person : LinkPerson(q, e, p)

Step(q) ==
    \/ Locks(q) \/ Inserts(q) \/ Spends(q) \/ Revokes(q) \/ Looks(q) \/ Voids(q)
    \/ Commits(q) \/ Aborted(q)

Next ==
    \/ \E q \in Slot : Asked(q) \/ Step(q) \/ Dies(q)
    \/ \E s \in sessions : Logout(s) \/ SessionExpires(s)
    \/ \E l \in links : LinkExpires(l)
    \/ \E p \in Person, mail \in Email : AddPerson(p, mail)
    \/ \E p \in Person : PersonLeaves(p)

Spec == Init /\ [][Next]_vars

(* The database runs what it can, gives a row to whoever waited longest,   *)
(* and breaks a deadlock.                                                  *)
FairSpec == Spec /\ \A q \in Slot : SF_vars(Step(q))

--------------------------------------------------------------------------
TypeOK ==
    /\ \A p \in Person : people[p] # None =>
          people[p] \in OnFloor
    /\ \A e \in Email : accounts[e] # None => accounts[e] \in Account
    /\ sessions \subseteq Session /\ links \subseteq Link
    /\ \A q \in Busy : /\ slot[q].acct \in Email
                        /\ slot[q].todo # <<>> /\ slot[q].todo[Len(slot[q].todo)] = "commit"
                        /\ slot[q].held \subseteq LinkId /\ slot[q].ends \subseteq Session

(* A password is set through a link that nobody has used until that       *)
(* moment: not two requests that follow it at once, and none for which it  *)
(* was voided by another way of setting the password.                      *)
LinkSetsOnePassword == [][\A q \in Slot :
    At(q, "commit") /\ PasswordCommits(q) =>
        slot[q].link = None \/ \E l \in links : l.id = slot[q].link]_vars

(* The commit of a new password leaves no session of the account but the   *)
(* one it opens itself: it ends those too that were committed since its    *)
(* own statements began.  It rests on every commit of a session waiting    *)
(* for the account's row (revoke_all and last_login_at).                   *)
PasswordEndsSessions == [][\A q \in Slot :
    Commits(q) /\ slot[q].kind \in SetsPassword =>
        \A s \in sessions' : s.acct = slot[q].acct =>
            slot[q].kind # "passwd" /\ s = Opened(q)]_vars

(* "Every other session is revoked" (people.py 267): no session is one of  *)
(* a password that has been replaced.  It fails of a login that was        *)
(* accepted under the old password and commits after the new one.          *)
NoSessionOfAnOldPassword == \A s \in sessions : ~s.stale

(* Every request ends, past locks held crosswise by others.                *)
EveryRequestEnds == \A q \in Slot : (slot[q] # None) ~> (slot[q] = None)
============================================================================
