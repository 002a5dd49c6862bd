------------------------------- MODULE Accounts -------------------------------
(***************************************************************************)
(* Accounts of the hub: registration, one-time links and codes, passwords,  *)
(* sessions, and what administrators do to other accounts. Sign-in by link  *)
(* is one transaction that holds the link's row; everything else is a chain *)
(* of statements, and what a handler checked may have changed by its write.  *)
(* (src/server/internal/api/auth.go, users.go; database/auth.go)            *)
(*                                                                          *)
(* Left out: the roles "guest" and "incident_handler" (as "user" here), the *)
(* transmit and dispatcher flags, mail, the audit log. The e-mail of a      *)
(* deleted account is not registered again, but by a restart.               *)
(***************************************************************************)
EXTENDS Naturals, FiniteSets

CONSTANTS
    Users,          \* accounts, by e-mail
    Bootstrap,      \* the account of AUTH_BOOTSTRAP_EMAIL, or none of them
    AutoApprove,    \* AUTH_AUTO_APPROVE_USERS
    Requests,       \* requests that may be under way at once (bound)
    MaxLinks, MaxSessions, MaxPasswords,    \* bounds: rows, changes of a password
    MaxActs         \* bound: acts of administrators, logouts and restarts

ASSUME AccountsAssumption ==
    /\ Users # {} /\ IsFiniteSet(Users)
    /\ AutoApprove \in BOOLEAN
    /\ MaxLinks \in Nat /\ MaxSessions \in Nat
    /\ MaxPasswords \in Nat \ {0} /\ MaxActs \in Nat

VARIABLES
    user,       \* rows of users
    pw,         \* the password each has: 0 for none, else its number
    link,       \* rows of auth_magic_links; code and token are of one row
    session,    \* rows of auth_sessions
    req,        \* how far each request is
    overtaken,  \* did a handler remove an administrator on outdated facts (history)
    acts

vars == <<user, pw, link, session, req, overtaken, acts>>

Links == 1..MaxLinks
Sessions == 1..MaxSessions

User == [status : {"none", "pending", "active", "disabled", "deleted"}, role : {"admin", "user"}]
Link == [state : {"none", "fresh", "used", "expired"}, user : Users]
\* Of a session: the password it was made under, the link that made it (0: by
\* password), and whether that password had been replaced by then (history).
Session == [state : {"none", "live", "revoked", "expired"}, user : Users,
            pw : 0..MaxPasswords, link : 0..MaxLinks, late : BOOLEAN]
Request == [pc : {"idle", "insert", "issue", "verify", "login", "count", "write"},
            u : Users, first : BOOLEAN, link : 0..MaxLinks, pw : 0..MaxPasswords,
            was : User, to : User, counted : 0..Cardinality(Users)]

Exists(u) == user[u].status \notin {"none", "deleted"}
Admin(u) == user[u].role = "admin" /\ user[u].status = "active"
Admins == {u \in Users : Admin(u)}

TypeOK ==
    /\ user \in [Users -> User]
    /\ pw \in [Users -> 0..MaxPasswords]
    /\ link \in [Links -> Link]
    /\ session \in [Sessions -> Session]
    /\ req \in [Requests -> Request]
    /\ overtaken \in BOOLEAN
    /\ acts \in 0..MaxActs
    \* The foreign keys on users.
    /\ \A l \in Links : link[l].state # "none" => Exists(link[l].user)
    /\ \A s \in Sessions : session[s].state # "none" => Exists(session[s].user)

AnyUser == CHOOSE u \in Users : TRUE
NoUser == [status |-> "none", role |-> "user"]
Deleted == [status |-> "deleted", role |-> "user"]
Boot == [status |-> "active", role |-> "admin"]
NoLink == [state |-> "none", user |-> AnyUser]
NoSession == [state |-> "none", user |-> AnyUser, pw |-> 0, link |-> 0, late |-> FALSE]
Idle == [pc |-> "idle", u |-> AnyUser, first |-> FALSE, link |-> 0, pw |-> 0,
         was |-> NoUser, to |-> NoUser, counted |-> 0]

\* The first start: BootstrapAuthUser, if it is configured.
Init ==
    /\ user = [u \in Users |-> IF u = Bootstrap THEN Boot ELSE NoUser]
    /\ pw = [u \in Users |-> IF u = Bootstrap THEN 1 ELSE 0]
    /\ link = [l \in Links |-> NoLink]
    /\ session = [s \in Sessions |-> NoSession]
    /\ req = [r \in Requests |-> Idle]
    /\ overtaken = FALSE
    /\ acts = 0

Goes(r, state) == req' = [req EXCEPT ![r] = state]
Begins(r, state) == req[r].pc = "idle" /\ Goes(r, state)
Acted == acts < MaxActs /\ acts' = acts + 1

-----------------------------------------------------------------------------
(* Signing in.                                                              *)

\* CreateMagicLinkToken, EnsureUserByEmail: are there any users at all?
AskLink(r, u) ==
    /\ user[u].status # "deleted"
    /\ Begins(r, [Idle EXCEPT !.pc = "insert", !.u = u,
                              !.first = \A v \in Users : ~Exists(v)])
    /\ UNCHANGED <<user, pw, link, session, overtaken, acts>>

\* The row of an unknown e-mail: the first one is an administrator's.
NewUser(first) ==
    [role   |-> IF first THEN "admin" ELSE "user",
     status |-> IF first \/ AutoApprove THEN "active" ELSE "pending"]

\* INSERT ... ON CONFLICT (email) DO NOTHING
InsertUser(r) ==
    LET u == req[r].u IN
    /\ req[r].pc = "insert"
    /\ user' = IF user[u].status = "none"
               THEN [user EXCEPT ![u] = NewUser(req[r].first)] ELSE user
    /\ Goes(r, [req[r] EXCEPT !.pc = "issue"])
    /\ UNCHANGED <<pw, link, session, overtaken, acts>>

\* The status is read back; only an active user gets a link.
IssueLink(r) ==
    LET u == req[r].u IN
    /\ req[r].pc = "issue"
    /\ IF user[u].status = "active"
       THEN \E l \in Links :
               /\ link[l].state = "none"
               /\ link' = [link EXCEPT ![l] = [state |-> "fresh", user |-> u]]
       ELSE UNCHANGED link
    /\ Goes(r, Idle)
    /\ UNCHANGED <<user, pw, session, overtaken, acts>>

FaultLocked(l) == FALSE

\* SELECT ... FOR UPDATE: a transaction has the row of the link.
Locked(l) == \E r \in Requests : req[r].pc = "verify" /\ req[r].link = l

\* VerifyMagicLinkToken, VerifyMagicLinkCode: the link, once nobody else has it.
Verify(r, l) ==
    /\ link[l].state = "fresh" /\ ~Locked(l)
    /\ Begins(r, [Idle EXCEPT !.pc = "verify", !.u = link[l].user, !.link = l])
    /\ UNCHANGED <<user, pw, link, session, overtaken, acts>>

Made(u, p, l) == [state |-> "live", user |-> u, pw |-> p, link |-> l, late |-> p # pw[u]]

\* The transaction commits, with the link used and a session, if the user is
\* active; otherwise it is rolled back.
Commit(r) ==
    LET u == req[r].u IN
    /\ req[r].pc = "verify"
    /\ IF user[u].status = "active"
       THEN \E s \in Sessions :
               /\ session[s].state = "none"
               /\ session' = [session EXCEPT ![s] = Made(u, pw[u], req[r].link)]
               /\ link' = [link EXCEPT ![req[r].link].state = "used"]
       ELSE UNCHANGED <<session, link>>
    /\ Goes(r, Idle)
    /\ UNCHANGED <<user, pw, overtaken, acts>>

\* handlePasswordLogin: VerifyUserPassword ...
CheckPassword(r, u) ==
    /\ user[u].status = "active" /\ pw[u] > 0
    /\ Begins(r, [Idle EXCEPT !.pc = "login", !.u = u, !.pw = pw[u]])
    /\ UNCHANGED <<user, pw, link, session, overtaken, acts>>

\* ... and CreateUserSession, which asks for nothing but the user's row.
CreateSession(r) ==
    LET u == req[r].u IN
    /\ req[r].pc = "login"
    /\ IF Exists(u)
       THEN \E s \in Sessions :
               /\ session[s].state = "none"
               /\ session' = [session EXCEPT ![s] = Made(u, req[r].pw, 0)]
       ELSE UNCHANGED session
    /\ Goes(r, Idle)
    /\ UNCHANGED <<user, pw, link, overtaken, acts>>

-----------------------------------------------------------------------------
(* With a session.                                                          *)

\* GetUserBySessionToken
Usable(s) == session[s].state = "live" /\ user[session[s].user].status = "active"
Actor(s) == session[s].user

\* handleLogout revokes the session of a cookie, and not one that came in the
\* Authorization header.
Logout(s, cookie) ==
    /\ session[s].state = "live" /\ Acted
    /\ session' = IF cookie THEN [session EXCEPT ![s].state = "revoked"] ELSE session
    /\ UNCHANGED <<user, pw, link, req, overtaken>>

\* A change of user u from row "was" to row "to"; does it take an administrator?
Takes(was, to) == was = Boot /\ to # Boot

\* handleUpdateUser, handleDeleteUser, handleDeleteMyAccount: the caller is
\* checked and the target's row read (ListUsers; the caller's own).
Change(r, s, u, to) ==
    /\ Usable(s) /\ Exists(u)
    /\ IF u = Actor(s) THEN to = Deleted \/ (Admin(u) /\ to.status = "active")
                       ELSE Admin(Actor(s))
    /\ Acted
    /\ Begins(r, [Idle EXCEPT !.pc = IF Takes(user[u], to) THEN "count" ELSE "write",
                              !.u = u, !.was = user[u], !.to = to])
    /\ UNCHANGED <<user, pw, link, session, overtaken>>

FaultLastAdmin == Cardinality(Admins) < 1

LastAdmin == Cardinality(Admins) <= 1

\* ensureMoreThanOneActiveAdmin
Count(r) ==
    /\ req[r].pc = "count"
    /\ Goes(r, IF LastAdmin THEN Idle
               ELSE [req[r] EXCEPT !.pc = "write", !.counted = Cardinality(Admins)])
    /\ UNCHANGED <<user, pw, link, session, overtaken, acts>>

\* The target is another one than was read, or the count has changed.
Outdated(r) ==
    \/ req[r].was # user[req[r].u]
    \/ Takes(req[r].was, req[r].to) /\ req[r].counted # Cardinality(Admins)

FaultOwned(u) == {s \in Sessions : session[s].state = "live" /\ session[s].user = u}

\* DeleteUser takes the user's sessions and links along; it waits for a
\* transaction that has one of the links.
Owned(u) == {s \in Sessions : session[s].user = u}

\* UpdateUserRoleStatus, DeleteUser
Write(r) ==
    LET u == req[r].u
        to == req[r].to
    IN
    /\ req[r].pc = "write"
    /\ to = Deleted => \A l \in Links : link[l].user = u => ~Locked(l)
    /\ IF Exists(u)
       THEN /\ user' = [user EXCEPT ![u] = to]
            /\ overtaken' = (overtaken \/ (Takes(user[u], to) /\ Outdated(r)))
            /\ IF to = Deleted
               THEN /\ session' = [s \in Sessions |->
                                     IF s \in Owned(u) THEN NoSession ELSE session[s]]
                    /\ link' = [l \in Links |->
                                     IF link[l].user = u THEN NoLink ELSE link[l]]
               ELSE UNCHANGED <<session, link>>
       ELSE UNCHANGED <<user, overtaken, session, link>>
    /\ Goes(r, Idle)
    /\ UNCHANGED <<pw, acts>>

Revoked(u, by) == Owned(u)

\* handleSetUserPassword, SetUserPasswordHash: the hash and the revocation of
\* the user's sessions are one transaction.
SetPassword(by, u) ==
    /\ Usable(by) /\ Admin(Actor(by)) /\ Exists(u)
    /\ pw[u] < MaxPasswords /\ Acted
    /\ pw' = [pw EXCEPT ![u] = @ + 1]
    /\ session' = [s \in Sessions |->
                     IF s \in Revoked(u, by) /\ session[s].state \in {"live", "expired"}
                     THEN [session[s] EXCEPT !.state = "revoked"] ELSE session[s]]
    /\ UNCHANGED <<user, link, req, overtaken>>

\* Links and sessions grow old; a link that a transaction has passed its check.
ExpireLink(l) ==
    /\ link[l].state = "fresh" /\ ~Locked(l)
    /\ link' = [link EXCEPT ![l].state = "expired"]
    /\ UNCHANGED <<user, pw, session, req, overtaken, acts>>

ExpireSession(s) ==
    /\ session[s].state = "live"
    /\ session' = [session EXCEPT ![s].state = "expired"]
    /\ UNCHANGED <<user, pw, link, req, overtaken, acts>>

\* The hub starts again: transactions are rolled back, and the bootstrap account
\* is an active administrator with the configured password, new or not. It is
\* made anew when it was deleted; its sessions are left alone.
Restart(newPassword) ==
    /\ Acted
    /\ req' = [r \in Requests |-> Idle]
    /\ IF Bootstrap \in Users
       THEN /\ user' = [user EXCEPT ![Bootstrap] = Boot]
            /\ newPassword => pw[Bootstrap] < MaxPasswords
            /\ pw' = [pw EXCEPT ![Bootstrap] = IF newPassword THEN @ + 1 ELSE @]
            /\ session' = [s \in Sessions |->
                             IF session[s].user = Bootstrap /\ newPassword
                             THEN [session[s] EXCEPT !.late = TRUE] ELSE session[s]]
       ELSE /\ ~newPassword
            /\ UNCHANGED <<user, pw, session>>
    /\ UNCHANGED <<link, overtaken>>

-----------------------------------------------------------------------------
Targets == {[status |-> st, role |-> ro] : st \in {"pending", "active", "disabled"},
                                           ro \in {"admin", "user"}} \cup {Deleted}

Next ==
    \/ \E r \in Requests :
          \/ \E u \in Users : AskLink(r, u) \/ CheckPassword(r, u)
          \/ \E l \in Links : Verify(r, l)
          \/ InsertUser(r) \/ IssueLink(r) \/ Commit(r) \/ CreateSession(r)
          \/ \E s \in Sessions, u \in Users, to \in Targets : Change(r, s, u, to)
          \/ Count(r) \/ Write(r)
    \/ \E s \in Sessions, cookie \in BOOLEAN : Logout(s, cookie)
    \/ \E s \in Sessions, u \in Users : SetPassword(s, u)
    \/ \E l \in Links : ExpireLink(l)
    \/ \E s \in Sessions : ExpireSession(s)
    \/ \E new \in BOOLEAN : Restart(new)

Spec == Init /\ [][Next]_vars

-----------------------------------------------------------------------------
(* Properties.                                                              *)

\* database/auth.go VerifyMagicLinkToken, VerifyMagicLinkCode: a link makes one
\* session at most, though its token and its code are tried at once, and a
\* link that was rolled back may be tried again.
LinkUsedOnce ==
    \A s, t \in Sessions :
        /\ session[s].state # "none" /\ session[t].state # "none"
        /\ session[s].link = session[t].link /\ session[s].link # 0
        => s = t

\* database/auth.go SetUserPasswordHash, "revokes existing sessions": no session
\* of before a change of password is usable after it, unless it was made late, by
\* a sign-in that had checked the old one, or the change was a restart's.
PasswordEndsSessions ==
    \A s \in Sessions :
        Usable(s) /\ session[s].pw < pw[session[s].user] => session[s].late

SessionsSound == LinkUsedOnce /\ PasswordEndsSessions

\* users.go ensureMoreThanOneActiveAdmin: a hub that has users has an active
\* administrator, unless a handler removed one on facts that were outdated when
\* it wrote: the count, or the target's row, read before another one's change.
AdminRemains ==
    (\E u \in Users : Exists(u)) =>
        Admins # {} \/ overtaken

=============================================================================
