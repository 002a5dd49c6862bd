---------------------------- MODULE Accounts_proofs ----------------------------
(***************************************************************************)
(* Proofs about Accounts: whatever requests, acts of administrators and     *)
(* restarts interleave, for every set of accounts and every bound.          *)
(***************************************************************************)
EXTENDS Accounts, FiniteSetTheorems, TLAPS

\* What a request in hand may count on: a link it holds is still fresh, a change was
\* made from what requests may ask for, an administrator is removed after a count of more
\* than one, and an e-mail that was not the first came to a hub with an administrator.
Sound(q) ==
    /\ q.pc = "insert" /\ ~q.first => Admins # {} \/ overtaken
    /\ q.pc = "verify" =>
          q.link \in Links /\ link[q.link] = [state |-> "fresh", user |-> q.u]
    /\ q.pc \in {"count", "write"} => q.to \in Targets
    /\ q.pc = "write" /\ Takes(q.was, q.to) => q.counted > 1
Asked == \A r \in Requests : Sound(req[r])

\* FOR UPDATE: one transaction has a link.
OneHolds ==
    \A q, r \in Requests :
        req[q].pc = "verify" /\ req[r].pc = "verify" /\ req[q].link = req[r].link => q = r

\* The link of a session is used up, and goes when its user goes.
Spent ==
    \A s \in Sessions : session[s].state # "none" /\ session[s].link # 0 =>
        link[session[s].link] = [state |-> "used", user |-> session[s].user]

\* A session that lives is of the present password, or was late.
Current ==
    \A s \in Sessions :
        session[s].state = "live" /\ session[s].pw < pw[session[s].user] => session[s].late

IInv == TypeOK /\ Asked /\ OneHolds /\ Spent /\ LinkUsedOnce /\ Current /\ AdminRemains

-----------------------------------------------------------------------------
(* Rows.                                                                    *)

LEMMA AnyUserIsUser == AnyUser \in Users
  BY AccountsAssumption DEF AnyUser

LEMMA RowsTyped ==
  /\ NoUser \in User /\ Deleted \in User /\ Boot \in User
  /\ NoLink \in Link /\ NoSession \in Session
  /\ \A first \in BOOLEAN : NewUser(first) \in User
  /\ Targets \subseteq User
  BY AnyUserIsUser, AccountsAssumption
  DEF NoUser, Deleted, Boot, NoLink, NoSession, NewUser, Targets, User, Link, Session

LEMMA UserCount ==
  /\ Cardinality(Users) \in Nat
  /\ Admins \subseteq Users /\ IsFiniteSet(Admins)
  /\ Cardinality(Admins) \in 0..Cardinality(Users)
<1>1. Admins \subseteq Users
  BY DEF Admins
<1>2. IsFiniteSet(Users)
  BY AccountsAssumption
<1>3. IsFiniteSet(Admins) /\ Cardinality(Admins) <= Cardinality(Users)
  BY <1>1, <1>2, FS_Subset
<1> QED BY <1>1, <1>2, <1>3, FS_CardinalityType

LEMMA IdleTyped == Idle \in Request /\ Idle.pc = "idle"
  BY AnyUserIsUser, RowsTyped, UserCount, AccountsAssumption DEF Idle, Request

LEMMA AskTyped ==
  ASSUME NEW u \in Users, NEW b \in BOOLEAN
  PROVE  LET x == [Idle EXCEPT !.pc = "insert", !.u = u, !.first = b]
         IN  x \in Request /\ x.pc = "insert" /\ x.first = b
  BY IdleTyped DEF Request

LEMMA IssueTyped ==
  ASSUME NEW q \in Request
  PROVE  LET x == [q EXCEPT !.pc = "issue"] IN x \in Request /\ x.pc = "issue"
  BY DEF Request

LEMMA VerifyTyped ==
  ASSUME NEW u \in Users, NEW l \in Links
  PROVE  LET x == [Idle EXCEPT !.pc = "verify", !.u = u, !.link = l]
         IN  x \in Request /\ x.pc = "verify" /\ x.u = u /\ x.link = l
<1>1. l \in 0..MaxLinks
  BY AccountsAssumption DEF Links
<1> QED BY <1>1, IdleTyped DEF Request

LEMMA LoginTyped ==
  ASSUME NEW u \in Users, NEW p \in 0..MaxPasswords
  PROVE  LET x == [Idle EXCEPT !.pc = "login", !.u = u, !.pw = p]
         IN  x \in Request /\ x.pc = "login"
  BY IdleTyped DEF Request

Changing(c, u, w, to) == [Idle EXCEPT !.pc = c, !.u = u, !.was = w, !.to = to]

LEMMA ChangeTyped ==
  ASSUME NEW u \in Users, NEW w \in User, NEW to \in User, NEW c, c = "count" \/ c = "write"
  PROVE  LET x == Changing(c, u, w, to)
         IN  x \in Request /\ x.pc = c /\ x.was = w /\ x.to = to
  BY IdleTyped DEF Request, Changing

LEMMA CountTyped ==
  ASSUME NEW q \in Request, NEW k \in 0..Cardinality(Users)
  PROVE  LET x == [q EXCEPT !.pc = "write", !.counted = k]
         IN  /\ x \in Request /\ x.pc = "write" /\ x.was = q.was /\ x.to = q.to
             /\ x.counted = k
  BY DEF Request

\* Request r goes on as x: the others stay where they are.
LEMMA Moves ==
  ASSUME TypeOK, NEW r \in Requests, NEW x \in Request, Goes(r, x)
  PROVE  /\ req' \in [Requests -> Request] /\ req'[r] = x
         /\ \A q \in Requests \ {r} : req'[q] = req[q]
  BY DEF TypeOK, Goes

\* A step that changes requests alone, and leaves request r well advised.
LEMMA OnlyAsks ==
  ASSUME IInv, NEW r \in Requests, NEW x \in Request, Goes(r, x), Sound(x),
         x.pc = "verify" => \A q \in Requests \ {r} :
                              ~(req[q].pc = "verify" /\ req[q].link = x.link),
         UNCHANGED <<user, pw, link, session, overtaken>>, acts' \in 0..MaxActs
  PROVE  IInv'
<1>1. /\ req' \in [Requests -> Request] /\ req'[r] = x
      /\ \A q \in Requests \ {r} : req'[q] = req[q]
  BY Moves DEF IInv
<1>2. TypeOK'
  BY <1>1 DEF IInv, TypeOK, Exists
<1>3. \A q : Sound(q)' <=> Sound(q)
  BY DEF Sound, Admins, Admin
<1>4. Asked'
  <2> SUFFICES ASSUME NEW q \in Requests PROVE Sound(req'[q])
    BY <1>3 DEF Asked, Sound, Admins, Admin
  <2> QED BY <1>1 DEF IInv, Asked
<1>5. OneHolds'
  BY <1>1 DEF IInv, OneHolds
<1>6. Spent' /\ LinkUsedOnce' /\ Current' /\ AdminRemains'
  BY DEF IInv, Spent, LinkUsedOnce, Current, AdminRemains, Admins, Admin, Exists
<1> QED BY <1>2, <1>4, <1>5, <1>6 DEF IInv

-----------------------------------------------------------------------------
LEMMA InitIInv == Init => IInv
<1> SUFFICES ASSUME Init PROVE IInv
  OBVIOUS
<1>1. TypeOK
  <2>1. user \in [Users -> User] /\ pw \in [Users -> 0..MaxPasswords]
    BY RowsTyped, AccountsAssumption DEF Init
  <2>2. /\ link \in [Links -> Link] /\ session \in [Sessions -> Session]
        /\ req \in [Requests -> Request]
    BY RowsTyped, IdleTyped DEF Init
  <2>3. /\ \A l \in Links : link[l].state = "none"
        /\ \A s \in Sessions : session[s].state = "none"
    <3>1. NoLink.state = "none" /\ NoSession.state = "none"
      BY DEF NoLink, NoSession
    <3> QED BY <3>1 DEF Init
  <2>4. overtaken \in BOOLEAN
    BY Zenon DEF Init
  <2>5. acts \in 0..MaxActs
    BY AccountsAssumption DEF Init
  <2> QED BY <2>1, <2>2, <2>3, <2>4, <2>5 DEF TypeOK
<1>2. Asked /\ OneHolds
  BY IdleTyped DEF Init, Asked, Sound, OneHolds
<1>3. Spent /\ LinkUsedOnce /\ Current
  BY DEF Init, Spent, LinkUsedOnce, Current, NoSession
<1>4. AdminRemains
  <2> SUFFICES ASSUME NEW u \in Users, Exists(u) PROVE u \in Admins
    BY DEF AdminRemains
  <2>1. user[u] = Boot
    BY DEF Init, Exists, NoUser
  <2> QED BY <2>1 DEF Admins, Admin, Boot
<1> QED BY <1>1, <1>2, <1>3, <1>4 DEF IInv

-----------------------------------------------------------------------------
(* Steps that change a request alone.                                       *)

LEMMA AskLinkStep ==
  ASSUME IInv, NEW r \in Requests, NEW u \in Users, AskLink(r, u)
  PROVE  IInv'
<1> DEFINE b == \A v \in Users : ~Exists(v)
           x == [Idle EXCEPT !.pc = "insert", !.u = u, !.first = b]
<1>1. Goes(r, x) /\ UNCHANGED <<user, pw, link, session, overtaken, acts>>
  BY DEF AskLink, Begins
<1>2. b \in BOOLEAN
  OBVIOUS
<1>3. b \/ Admins # {} \/ overtaken
  BY DEF IInv, AdminRemains
<1> HIDE DEF b
<1>4. x \in Request /\ x.pc = "insert" /\ x.first = b
  BY <1>2, AskTyped
<1> HIDE DEF x
<1>5. Sound(x)
  BY <1>3, <1>4 DEF Sound
<1> QED BY <1>1, <1>4, <1>5, OnlyAsks DEF IInv, TypeOK

LEMMA VerifyStep ==
  ASSUME IInv, NEW r \in Requests, NEW l \in Links, Verify(r, l)
  PROVE  IInv'
<1> DEFINE u == link[l].user
           x == [Idle EXCEPT !.pc = "verify", !.u = u, !.link = l]
<1>1. Goes(r, x) /\ UNCHANGED <<user, pw, link, session, overtaken, acts>>
  BY DEF Verify, Begins
<1>2. u \in Users /\ link[l] = [state |-> "fresh", user |-> u]
  BY DEF IInv, TypeOK, Link, Verify
<1>3. \A q \in Requests : ~(req[q].pc = "verify" /\ req[q].link = l)
  BY DEF Verify, Locked
<1> HIDE DEF u
<1>4. x \in Request /\ x.pc = "verify" /\ x.u = u /\ x.link = l
  BY <1>2, VerifyTyped
<1> HIDE DEF x
<1>5. Sound(x)
  BY <1>2, <1>4 DEF Sound
<1> QED BY <1>1, <1>3, <1>4, <1>5, OnlyAsks DEF IInv, TypeOK

LEMMA CheckPasswordStep ==
  ASSUME IInv, NEW r \in Requests, NEW u \in Users, CheckPassword(r, u)
  PROVE  IInv'
<1> DEFINE p == pw[u]
           x == [Idle EXCEPT !.pc = "login", !.u = u, !.pw = p]
<1>1. Goes(r, x) /\ UNCHANGED <<user, pw, link, session, overtaken, acts>>
  BY DEF CheckPassword, Begins
<1>2. p \in 0..MaxPasswords
  BY DEF IInv, TypeOK
<1> HIDE DEF p
<1>3. x \in Request /\ x.pc = "login"
  BY <1>2, LoginTyped
<1> HIDE DEF x
<1>4. Sound(x)
  BY <1>3 DEF Sound
<1> QED BY <1>1, <1>3, <1>4, OnlyAsks DEF IInv, TypeOK

LEMMA ChangeStep ==
  ASSUME IInv, NEW r \in Requests, NEW s \in Sessions, NEW u \in Users,
         NEW to \in Targets, Change(r, s, u, to)
  PROVE  IInv'
<1> DEFINE w == user[u]
           c == IF Takes(w, to) THEN "count" ELSE "write"
           x == Changing(c, u, w, to)
<1>1. /\ Goes(r, x) /\ UNCHANGED <<user, pw, link, session, overtaken>>
      /\ acts' \in 0..MaxActs
  BY AccountsAssumption DEF Change, Begins, Acted, IInv, TypeOK, Changing
<1>2. w \in User /\ to \in User /\ (c = "count" \/ c = "write")
  BY RowsTyped DEF IInv, TypeOK
<1>3. c = "write" => ~Takes(w, to)
  OBVIOUS
<1> HIDE DEF w, c
<1>4. x \in Request /\ x.pc = c /\ x.was = w /\ x.to = to
  BY <1>2, ChangeTyped
<1> HIDE DEF x
<1>5. Sound(x) /\ x.pc # "verify"
  BY <1>2, <1>3, <1>4 DEF Sound
<1> QED BY <1>1, <1>4, <1>5, OnlyAsks

LEMMA CountStep ==
  ASSUME IInv, NEW r \in Requests, Count(r)
  PROVE  IInv'
<1>1. UNCHANGED <<user, pw, link, session, overtaken, acts>> /\ acts' \in 0..MaxActs
  BY DEF Count, IInv, TypeOK
<1>2. CASE LastAdmin
  <2>1. Goes(r, Idle) /\ Sound(Idle)
    BY <1>2, IdleTyped DEF Count, Sound
  <2> QED BY <1>1, <2>1, IdleTyped, OnlyAsks
<1>3. CASE ~LastAdmin
  <2> DEFINE k == Cardinality(Admins)
             q == req[r]
             x == [q EXCEPT !.pc = "write", !.counted = k]
  <2>1. Goes(r, x)
    BY <1>3 DEF Count
  <2>2. k \in 0..Cardinality(Users) /\ k > 1
    BY <1>3, UserCount DEF LastAdmin
  <2>3. q \in Request /\ q.to \in Targets
    BY DEF IInv, TypeOK, Asked, Sound, Count
  <2> HIDE DEF k, q
  <2>4. /\ x \in Request /\ x.pc = "write" /\ x.to = q.to /\ x.counted = k
    BY <2>2, <2>3, CountTyped
  <2> HIDE DEF x
  <2>5. Sound(x) /\ x.pc # "verify"
    BY <2>2, <2>3, <2>4 DEF Sound
  <2> QED BY <1>1, <2>1, <2>4, <2>5, OnlyAsks
<1> QED BY <1>2, <1>3

-----------------------------------------------------------------------------
(* Steps that change rows.                                                  *)

Ruled == Admins # {} \/ overtaken

\* Requests that go on as they were, and links in hand that stay: all is well advised.
LEMMA OthersStand ==
  ASSUME IInv, Ruled => Ruled',
         \A q \in Requests : req'[q] = req[q] \/ req'[q].pc \in {"idle", "issue"},
         \A q \in Requests : req'[q].pc = "verify" => link'[req[q].link] = link[req[q].link]
  PROVE  Asked' /\ OneHolds'
<1>1. Asked'
  <2> SUFFICES ASSUME NEW q \in Requests PROVE Sound(req[q])'
    BY DEF Asked
  <2>1. CASE req'[q] = req[q]
    <3>1. Sound(req[q])
      BY DEF IInv, Asked
    <3>2. req'[q].pc = "insert" /\ ~req'[q].first => Ruled'
      BY <2>1, <3>1 DEF Sound, Ruled
    <3>3. req'[q].pc = "verify" =>
            /\ req'[q].link \in Links
            /\ link'[req'[q].link] = [state |-> "fresh", user |-> req'[q].u]
      BY <2>1, <3>1 DEF Sound
    <3>4. /\ req'[q].pc \in {"count", "write"} => req'[q].to \in Targets
          /\ req'[q].pc = "write" /\ Takes(req'[q].was, req'[q].to) => req'[q].counted > 1
      BY <2>1, <3>1 DEF Sound
    <3> QED BY <3>2, <3>3, <3>4 DEF Sound, Ruled
  <2>2. CASE req'[q].pc \in {"idle", "issue"}
    BY <2>2 DEF Sound
  <2> QED BY <2>1, <2>2
<1>2. OneHolds'
  BY DEF IInv, OneHolds
<1> QED BY <1>1, <1>2

\* Whom a row is of, and the rows an invariant is about.
LEMMA Owners ==
  ASSUME TypeOK
  PROVE  /\ \A l \in Links : link[l].user \in Users
         /\ \A s \in Sessions : session[s].user \in Users /\ session[s].link \in 0..MaxLinks
  BY DEF TypeOK, Link, Session

LEMMA InHand ==
  ASSUME IInv, NEW q \in Requests, req[q].pc = "verify"
  PROVE  /\ req[q].link \in Links
         /\ link[req[q].link] = [state |-> "fresh", user |-> req[q].u]
<1>1. Sound(req[q])
  BY DEF IInv, Asked
<1> QED BY <1>1 DEF Sound

LEMMA UsedUp ==
  ASSUME IInv, NEW s \in Sessions, session[s].state # "none", session[s].link # 0
  PROVE  /\ session[s].link \in Links
         /\ link[session[s].link] = [state |-> "used", user |-> session[s].user]
  BY Owners, AccountsAssumption DEF IInv, Spent, Links

LEMMA InsertUserStep ==
  ASSUME IInv, NEW r \in Requests, InsertUser(r)
  PROVE  IInv'
<1> DEFINE u == req[r].u
           x == [req[r] EXCEPT !.pc = "issue"]
           n == NewUser(req[r].first)
<1>1. /\ Goes(r, x) /\ UNCHANGED <<pw, link, session, overtaken, acts>>
      /\ user' = IF user[u].status = "none" THEN [user EXCEPT ![u] = n] ELSE user
  BY DEF InsertUser
<1>2. u \in Users /\ req[r] \in Request /\ req[r].first \in BOOLEAN
  BY DEF IInv, TypeOK, Request
<1>3. x \in Request /\ x.pc = "issue"
  BY <1>2, IssueTyped
<1>4. /\ n \in User /\ n.status \in {"active", "pending"}
      /\ req[r].first => n.role = "admin" /\ n.status = "active"
  BY <1>2, RowsTyped DEF NewUser
<1>5. ~req[r].first => Ruled
  BY DEF IInv, Asked, Sound, Ruled, InsertUser
<1> HIDE DEF x, n, u
<1>6. /\ req' \in [Requests -> Request] /\ req'[r] = x
      /\ \A q \in Requests \ {r} : req'[q] = req[q]
  BY <1>1, <1>3, Moves DEF IInv
<1>7. /\ user' \in [Users -> User]
      /\ \A v \in Users : user'[v] = user[v]
                            \/ (v = u /\ user[v].status = "none" /\ user'[v] = n)
  BY <1>1, <1>2, <1>4 DEF IInv, TypeOK
<1>8. \A v \in Users : (Exists(v) => Exists(v)') /\ (Admin(v) => Admin(v)')
  BY <1>7 DEF Exists, Admin
<1>9. Admins \subseteq Admins' /\ (Ruled => Ruled')
  BY <1>1, <1>8 DEF Admins, Ruled
<1>10. TypeOK'
  <2>1. /\ \A l \in Links : link[l].user \in Users
        /\ \A s \in Sessions : session[s].user \in Users
    BY Owners DEF IInv
  <2>2. /\ (\A l \in Links : link[l].state # "none" => Exists(link[l].user))'
        /\ (\A s \in Sessions : session[s].state # "none" => Exists(session[s].user))'
    BY <1>1, <1>8, <2>1 DEF IInv, TypeOK
  <2> QED BY <1>1, <1>6, <1>7, <2>2 DEF IInv, TypeOK
<1>11. Asked' /\ OneHolds'
  BY <1>1, <1>3, <1>6, <1>9, OthersStand
<1>12. AdminRemains'
  <2>1. CASE Ruled
    BY <1>9, <2>1 DEF AdminRemains, Ruled
  <2>2. CASE ~Ruled
    <3>1. \A v \in Users : ~Exists(v)
      BY <2>2 DEF IInv, AdminRemains, Ruled
    <3>2. req[r].first
      BY <1>5, <2>2
    <3>3. ASSUME NEW v \in Users, Exists(v)' PROVE Admin(v)'
      BY <1>4, <1>7, <3>1, <3>2, <3>3 DEF Exists, Admin
    <3> QED BY <3>3 DEF AdminRemains, Admins
  <2> QED BY <2>1, <2>2
<1>13. Spent' /\ LinkUsedOnce' /\ Current'
  BY <1>1 DEF IInv, Spent, LinkUsedOnce, Current
<1> QED BY <1>10, <1>11, <1>12, <1>13 DEF IInv

LEMMA IssueLinkStep ==
  ASSUME IInv, NEW r \in Requests, IssueLink(r)
  PROVE  IInv'
<1> DEFINE u == req[r].u
           fresh == [state |-> "fresh", user |-> u]
<1>1. /\ Goes(r, Idle) /\ UNCHANGED <<user, pw, session, overtaken, acts>>
      /\ \/ link' = link
         \/ user[u].status = "active" /\ \E l \in Links :
              link[l].state = "none" /\ link' = [link EXCEPT ![l] = fresh]
  BY DEF IssueLink
<1>2. u \in Users /\ fresh \in Link /\ fresh.user = u /\ fresh.state = "fresh"
  BY DEF IInv, TypeOK, Request, Link
<1>3. /\ req' \in [Requests -> Request] /\ req'[r] = Idle
      /\ \A q \in Requests \ {r} : req'[q] = req[q]
  BY <1>1, IdleTyped, Moves DEF IInv
<1> HIDE DEF u, fresh
<1>4. /\ link' \in [Links -> Link]
      /\ \A l \in Links : link'[l] = link[l]
                            \/ (link[l].state = "none" /\ link'[l] = fresh /\ Exists(u))
  BY <1>1, <1>2 DEF IInv, TypeOK, Exists
<1>5. TypeOK'
  <2>1. \A l \in Links : link'[l].state # "none" => Exists(link'[l].user)
    BY <1>2, <1>4 DEF IInv, TypeOK
  <2> QED BY <1>1, <1>3, <1>4, <2>1 DEF IInv, TypeOK, Exists
<1>6. Asked' /\ OneHolds'
  <2>1. \A q \in Requests : req'[q].pc = "verify" => link'[req[q].link] = link[req[q].link]
    <3> SUFFICES ASSUME NEW q \in Requests, req'[q].pc = "verify"
                 PROVE  link'[req[q].link] = link[req[q].link]
      OBVIOUS
    <3>1. req[q].pc = "verify"
      BY <1>3, IdleTyped
    <3>2. req[q].link \in Links /\ link[req[q].link].state = "fresh"
      <4>1. /\ req[q].link \in Links
            /\ link[req[q].link] = [state |-> "fresh", user |-> req[q].u]
        BY <3>1, InHand
      <4> QED BY <4>1
    <3> QED BY <1>4, <3>2
  <2> QED BY <1>1, <1>3, <2>1, IdleTyped, OthersStand DEF Ruled, Admins, Admin
<1>7. Spent'
  <2> SUFFICES ASSUME NEW s \in Sessions, session[s].state # "none", session[s].link # 0
               PROVE  link'[session[s].link] = [state |-> "used", user |-> session[s].user]
    BY <1>1 DEF Spent
  <2>1. /\ link[session[s].link] = [state |-> "used", user |-> session[s].user]
        /\ session[s].link \in Links
    BY UsedUp
  <2> QED BY <1>4, <2>1
<1>8. LinkUsedOnce' /\ Current' /\ AdminRemains'
  BY <1>1 DEF IInv, LinkUsedOnce, Current, AdminRemains, Admins, Admin, Exists
<1> QED BY <1>5, <1>6, <1>7, <1>8 DEF IInv

-----------------------------------------------------------------------------
(* Sessions that are made.                                                  *)

LEMMA MadeTyped ==
  ASSUME NEW u \in Users, NEW p \in 0..MaxPasswords, NEW l \in 0..MaxLinks
  PROVE  /\ Made(u, p, l) \in Session /\ Made(u, p, l).state = "live"
         /\ Made(u, p, l).user = u /\ Made(u, p, l).pw = p /\ Made(u, p, l).link = l
         /\ Made(u, p, l).late <=> p # pw[u]
  BY DEF Made, Session

\* A session is made: what a later step of it may rely on, whoever makes it.
LEMMA SessionMade ==
  ASSUME IInv, NEW s \in Sessions, session[s].state = "none",
         NEW u \in Users, Exists(u), NEW p \in 0..MaxPasswords, NEW l \in 0..MaxLinks,
         session' = [session EXCEPT ![s] = Made(u, p, l)], UNCHANGED <<user, pw>>
  PROVE  /\ session' \in [Sessions -> Session]
         /\ \A t \in Sessions \ {s} : session'[t] = session[t]
         /\ session'[s].state = "live" /\ session'[s].user = u /\ session'[s].link = l
         /\ (\A t \in Sessions : session[t].state # "none" => Exists(session[t].user))'
         /\ Current'
<1> DEFINE m == Made(u, p, l)
<1>1. /\ m \in Session /\ m.state = "live" /\ m.user = u /\ m.pw = p /\ m.link = l
      /\ m.late <=> p # pw[u]
  BY MadeTyped
<1> HIDE DEF m
<1>2. /\ session' \in [Sessions -> Session] /\ session'[s] = m
      /\ \A t \in Sessions \ {s} : session'[t] = session[t]
  BY <1>1 DEF IInv, TypeOK, m
<1>3. (\A t \in Sessions : session[t].state # "none" => Exists(session[t].user))'
  BY <1>1, <1>2 DEF IInv, TypeOK, Exists
<1>4. pw[u] \in 0..MaxPasswords
  BY DEF IInv, TypeOK
<1>5. Current'
  <2> SUFFICES ASSUME NEW t \in Sessions, session'[t].state = "live",
                      session'[t].pw < pw[session'[t].user]
               PROVE  session'[t].late
    BY DEF Current
  <2>1. CASE t = s
    <3>1. m.late
      BY <1>1, <1>2, <1>4, <2>1
    <3> QED BY <1>2, <2>1, <3>1
  <2>2. CASE t # s
    BY <1>2, <2>2 DEF IInv, Current
  <2> QED BY <2>1, <2>2
<1> QED BY <1>1, <1>2, <1>3, <1>5

LEMMA CommitStep ==
  ASSUME IInv, NEW r \in Requests, Commit(r)
  PROVE  IInv'
<1> DEFINE u == req[r].u
           k == req[r].link
<1>1. /\ Goes(r, Idle) /\ req[r].pc = "verify"
      /\ UNCHANGED <<user, pw, overtaken, acts>>
  BY DEF Commit
<1>2. /\ u \in Users /\ k \in Links /\ k \in 0..MaxLinks /\ k # 0
      /\ link[k] = [state |-> "fresh", user |-> u] /\ pw[u] \in 0..MaxPasswords
  BY <1>1, InHand DEF IInv, TypeOK, Request, Links
<1>3. /\ req' \in [Requests -> Request] /\ req'[r] = Idle
      /\ \A q \in Requests \ {r} : req'[q] = req[q]
  BY <1>1, IdleTyped, Moves DEF IInv
<1>4. AdminRemains' /\ (Ruled => Ruled')
  BY <1>1 DEF IInv, AdminRemains, Admins, Admin, Exists, Ruled
<1>5. CASE UNCHANGED <<session, link>>
  <2>1. TypeOK'
    BY <1>1, <1>3, <1>5 DEF IInv, TypeOK, Exists
  <2>2. Asked' /\ OneHolds'
    BY <1>3, <1>4, <1>5, IdleTyped, OthersStand
  <2>3. Spent' /\ LinkUsedOnce' /\ Current'
    BY <1>1, <1>5 DEF IInv, Spent, LinkUsedOnce, Current
  <2> QED BY <1>4, <2>1, <2>2, <2>3 DEF IInv
<1>6. CASE ~UNCHANGED <<session, link>>
  <2>1. /\ user[u].status = "active"
        /\ \E s \in Sessions :
             /\ session[s].state = "none"
             /\ session' = [session EXCEPT ![s] = Made(u, pw[u], k)]
             /\ link' = [link EXCEPT ![k].state = "used"]
    BY <1>6 DEF Commit
  <2> HIDE DEF u, k
  <2>2. PICK s \in Sessions :
             /\ session[s].state = "none"
             /\ session' = [session EXCEPT ![s] = Made(u, pw[u], k)]
             /\ link' = [link EXCEPT ![k].state = "used"]
    BY <2>1
  <2>3. Exists(u)
    BY <2>1 DEF Exists
  <2>4. /\ session' \in [Sessions -> Session]
        /\ \A t \in Sessions \ {s} : session'[t] = session[t]
        /\ session'[s].state = "live" /\ session'[s].user = u /\ session'[s].link = k
        /\ (\A t \in Sessions : session[t].state # "none" => Exists(session[t].user))'
        /\ Current'
    BY <1>1, <1>2, <2>2, <2>3, SessionMade
  <2>5. /\ link' \in [Links -> Link] /\ link'[k] = [state |-> "used", user |-> u]
        /\ \A l \in Links \ {k} : link'[l] = link[l]
    BY <1>2, <2>2 DEF IInv, TypeOK, Link
  <2>6. TypeOK'
    <3>1. (\A l \in Links : link[l].state # "none" => Exists(link[l].user))'
      BY <1>1, <2>3, <2>5 DEF IInv, TypeOK, Exists
    <3> QED BY <1>1, <1>3, <2>4, <2>5, <3>1 DEF IInv, TypeOK
  <2>7. Asked' /\ OneHolds'
    <3>1. ASSUME NEW q \in Requests, req'[q].pc = "verify"
          PROVE  link'[req[q].link] = link[req[q].link]
      <4>1. q # r /\ req[q].pc = "verify"
        BY <1>3, <3>1, IdleTyped
      <4>2. req[q].link # k /\ req[q].link \in Links
        BY <1>1, <4>1, InHand DEF IInv, OneHolds, k
      <4> QED BY <2>5, <4>2
    <3> QED BY <1>3, <1>4, <3>1, IdleTyped, OthersStand
  <2>8. \A t \in Sessions : session[t].state # "none" /\ session[t].link # 0 =>
            /\ session[t].link \in Links \ {k}
            /\ link[session[t].link] = [state |-> "used", user |-> session[t].user]
    BY <1>2, UsedUp
  <2>9. Spent'
    <3> SUFFICES ASSUME NEW t \in Sessions, session'[t].state # "none", session'[t].link # 0
                 PROVE  link'[session'[t].link] = [state |-> "used", user |-> session'[t].user]
      BY DEF Spent
    <3> QED BY <2>4, <2>5, <2>8
  <2>10. LinkUsedOnce'
    <3> SUFFICES ASSUME NEW a \in Sessions, NEW b \in Sessions,
                        session'[a].state # "none", session'[b].state # "none",
                        session'[a].link = session'[b].link, session'[a].link # 0
                 PROVE  a = b
      BY DEF LinkUsedOnce
    <3>1. CASE a # s /\ b # s
      BY <2>4, <3>1 DEF IInv, LinkUsedOnce
    <3>2. CASE a = s /\ b # s
      BY <2>4, <2>8, <3>2
    <3>3. CASE a # s /\ b = s
      BY <2>4, <2>8, <3>3
    <3> QED BY <3>1, <3>2, <3>3
  <2> QED BY <1>4, <2>4, <2>6, <2>7, <2>9, <2>10 DEF IInv
<1> QED BY <1>5, <1>6

LEMMA CreateSessionStep ==
  ASSUME IInv, NEW r \in Requests, CreateSession(r)
  PROVE  IInv'
<1> DEFINE u == req[r].u
           p == req[r].pw
<1>1. Goes(r, Idle) /\ UNCHANGED <<user, pw, link, overtaken, acts>>
  BY DEF CreateSession
<1>2. u \in Users /\ p \in 0..MaxPasswords /\ 0 \in 0..MaxLinks
  BY AccountsAssumption DEF IInv, TypeOK, Request
<1>3. /\ req' \in [Requests -> Request] /\ req'[r] = Idle
      /\ \A q \in Requests \ {r} : req'[q] = req[q]
  BY <1>1, IdleTyped, Moves DEF IInv
<1>4. AdminRemains' /\ (Ruled => Ruled')
  BY <1>1 DEF IInv, AdminRemains, Admins, Admin, Exists, Ruled
<1>5. Asked' /\ OneHolds'
  BY <1>1, <1>3, <1>4, IdleTyped, OthersStand
<1>6. CASE session' = session
  <2>1. TypeOK'
    BY <1>1, <1>3, <1>6 DEF IInv, TypeOK, Exists
  <2>2. Spent' /\ LinkUsedOnce' /\ Current'
    BY <1>1, <1>6 DEF IInv, Spent, LinkUsedOnce, Current
  <2> QED BY <1>4, <1>5, <2>1, <2>2 DEF IInv
<1>7. CASE session' # session
  <2>1. Exists(u) /\ \E s \in Sessions :
             session[s].state = "none" /\ session' = [session EXCEPT ![s] = Made(u, p, 0)]
    BY <1>7 DEF CreateSession
  <2> HIDE DEF u, p
  <2>2. PICK s \in Sessions :
             session[s].state = "none" /\ session' = [session EXCEPT ![s] = Made(u, p, 0)]
    BY <2>1
  <2>3. /\ session' \in [Sessions -> Session]
        /\ \A t \in Sessions \ {s} : session'[t] = session[t]
        /\ session'[s].state = "live" /\ session'[s].user = u /\ session'[s].link = 0
        /\ (\A t \in Sessions : session[t].state # "none" => Exists(session[t].user))'
        /\ Current'
    BY <1>1, <1>2, <2>1, <2>2, SessionMade
  <2>4. TypeOK'
    BY <1>1, <1>3, <2>3 DEF IInv, TypeOK, Exists
  <2>5. Spent' /\ LinkUsedOnce'
    BY <1>1, <2>3 DEF IInv, Spent, LinkUsedOnce
  <2> QED BY <1>4, <1>5, <2>3, <2>4, <2>5 DEF IInv
<1> QED BY <1>6, <1>7

-----------------------------------------------------------------------------
(* Sessions and links that end.                                             *)

LEMMA SessionTyped ==
  ASSUME NEW x \in Session, NEW st, st = "revoked" \/ st = "expired"
  PROVE  /\ LET y == [x EXCEPT !.state = st]
            IN  /\ y \in Session /\ y.state = st
                /\ y.user = x.user /\ y.link = x.link /\ y.pw = x.pw /\ y.late = x.late
         /\ LET y == [x EXCEPT !.late = TRUE]
            IN  /\ y \in Session /\ y.late /\ y.state = x.state
                /\ y.user = x.user /\ y.link = x.link /\ y.pw = x.pw
  BY DEF Session

\* Session t stays the one it was, though it may have ended or been found late.
Same(t) ==
    /\ session'[t] \in Session
    /\ session'[t].state = "none" <=> session[t].state = "none"
    /\ session'[t].user = session[t].user /\ session'[t].link = session[t].link

\* Sessions stay the ones they were: what the links say of them stays true.
LEMMA SessionsStay ==
  ASSUME IInv, session' \in [Sessions -> Session], \A t \in Sessions : Same(t),
         UNCHANGED link, \A u \in Users : Exists(u) => Exists(u)'
  PROVE  /\ Spent' /\ LinkUsedOnce'
         /\ (\A t \in Sessions : session[t].state # "none" => Exists(session[t].user))'
         /\ (\A l \in Links : link[l].state # "none" => Exists(link[l].user))'
<1>1. Spent'
  BY DEF IInv, Spent, Same
<1>2. LinkUsedOnce'
  BY DEF IInv, LinkUsedOnce, Same
<1>3. (\A t \in Sessions : session[t].state # "none" => Exists(session[t].user))'
  <2> SUFFICES ASSUME NEW t \in Sessions, session'[t].state # "none"
               PROVE  Exists(session[t].user)'
    BY DEF Same
  <2>1. session[t].state # "none" /\ session[t].user \in Users
    BY Owners DEF Same, IInv
  <2>2. Exists(session[t].user)
    BY <2>1 DEF IInv, TypeOK
  <2>3. \A u \in Users : Exists(u) => user'[u].status \notin {"none", "deleted"}
    BY DEF Exists
  <2>4. user'[session[t].user].status \notin {"none", "deleted"}
    BY <2>1, <2>2, <2>3
  <2> QED BY <2>4 DEF Same, Exists
<1>4. (\A l \in Links : link[l].state # "none" => Exists(link[l].user))'
  BY Owners DEF IInv, TypeOK
<1> QED BY <1>1, <1>2, <1>3, <1>4

\* Requests and users stay, too.
LEMMA OnlySessions ==
  ASSUME IInv, session' \in [Sessions -> Session], \A t \in Sessions : Same(t),
         UNCHANGED <<user, link, req, overtaken>>, Current',
         pw' \in [Users -> 0..MaxPasswords], acts' \in 0..MaxActs
  PROVE  IInv'
<1>1. /\ Spent' /\ LinkUsedOnce'
      /\ (\A t \in Sessions : session[t].state # "none" => Exists(session[t].user))'
      /\ (\A l \in Links : link[l].state # "none" => Exists(link[l].user))'
  BY SessionsStay DEF Exists
<1>2. TypeOK'
  BY <1>1 DEF IInv, TypeOK
<1>3. AdminRemains' /\ (Ruled => Ruled')
  BY DEF IInv, AdminRemains, Admins, Admin, Exists, Ruled
<1>4. Asked' /\ OneHolds'
  BY <1>3, OthersStand
<1> QED BY <1>1, <1>2, <1>3, <1>4 DEF IInv

\* One session ends, or stays as it is.
LEMMA SessionEnds ==
  ASSUME IInv, NEW s \in Sessions, session[s].state = "live", NEW st, st = "revoked" \/ st = "expired",
         session' = session \/ session' = [session EXCEPT ![s].state = st],
         UNCHANGED <<user, pw, link, req, overtaken>>, acts' \in 0..MaxActs
  PROVE  IInv'
<1> DEFINE y == [session[s] EXCEPT !.state = st]
<1>1. /\ y \in Session /\ y.state = st
      /\ y.user = session[s].user /\ y.link = session[s].link
  <2>1. session[s] \in Session
    BY DEF IInv, TypeOK
  <2> QED BY <2>1, SessionTyped
<1>2. session' = session \/ session' = [session EXCEPT ![s] = y]
  OBVIOUS
<1> HIDE DEF y
<1>3. /\ session' \in [Sessions -> Session]
      /\ \A t \in Sessions : session'[t] = session[t] \/ (t = s /\ session'[t] = y)
  BY <1>1, <1>2 DEF IInv, TypeOK
<1>4. \A t \in Sessions : Same(t)
  BY <1>1, <1>3 DEF Same
<1>5. Current'
  BY <1>1, <1>3 DEF IInv, Current
<1>6. pw' \in [Users -> 0..MaxPasswords]
  BY DEF IInv, TypeOK
<1> QED BY <1>3, <1>4, <1>5, <1>6, OnlySessions

LEMMA LogoutStep ==
  ASSUME IInv, NEW s \in Sessions, NEW cookie \in BOOLEAN, Logout(s, cookie)
  PROVE  IInv'
<1>1. acts' \in 0..MaxActs
  BY AccountsAssumption DEF Logout, Acted, IInv, TypeOK
<1>2. session' = session \/ session' = [session EXCEPT ![s].state = "revoked"]
  BY DEF Logout
<1> QED BY <1>1, <1>2, SessionEnds DEF Logout

LEMMA ExpireSessionStep ==
  ASSUME IInv, NEW s \in Sessions, ExpireSession(s)
  PROVE  IInv'
<1>1. acts' \in 0..MaxActs
  BY DEF ExpireSession, IInv, TypeOK
<1> QED BY <1>1, SessionEnds DEF ExpireSession

LEMMA SetPasswordStep ==
  ASSUME IInv, NEW s \in Sessions, NEW u \in Users, SetPassword(s, u)
  PROVE  IInv'
<1>1. acts' \in 0..MaxActs
  BY AccountsAssumption DEF SetPassword, Acted, IInv, TypeOK
<1>2. /\ pw' \in [Users -> 0..MaxPasswords]
      /\ \A v \in Users \ {u} : pw'[v] = pw[v]
  BY AccountsAssumption DEF SetPassword, IInv, TypeOK
<1>3. \A t \in Sessions :
        session'[t] = IF session[t].user = u /\ session[t].state \in {"live", "expired"}
                      THEN [session[t] EXCEPT !.state = "revoked"] ELSE session[t]
  BY DEF SetPassword, Revoked, Owned
<1>4. ASSUME NEW t \in Sessions
      PROVE  /\ Same(t)
             /\ session'[t].state = "live" => session'[t] = session[t] /\ session[t].user # u
  <2> DEFINE y == [session[t] EXCEPT !.state = "revoked"]
  <2>1. /\ y \in Session /\ y.state = "revoked"
        /\ y.user = session[t].user /\ y.link = session[t].link
    <3>1. session[t] \in Session
      BY DEF IInv, TypeOK
    <3> QED BY <3>1, SessionTyped
  <2> HIDE DEF y
  <2>2. session[t] \in Session
    BY DEF IInv, TypeOK
  <2>3. CASE session[t].user = u /\ session[t].state \in {"live", "expired"}
    <3>1. session'[t] = y
      BY <1>3, <2>3 DEF y
    <3> QED BY <2>1, <2>3, <3>1 DEF Same
  <2>4. CASE ~(session[t].user = u /\ session[t].state \in {"live", "expired"})
    <3>1. session'[t] = session[t]
      BY <1>3, <2>4
    <3> QED BY <2>2, <2>4, <3>1 DEF Same
  <2> QED BY <2>3, <2>4
<1>5. session' \in [Sessions -> Session]
  <2>1. session' = [t \in Sessions |-> session'[t]]
    BY DEF SetPassword
  <2> QED BY <1>4, <2>1 DEF Same
<1>6. Current'
  BY <1>2, <1>4, Owners DEF IInv, Current
<1> QED BY <1>1, <1>2, <1>4, <1>5, <1>6, OnlySessions DEF SetPassword

LEMMA ExpireLinkStep ==
  ASSUME IInv, NEW l \in Links, ExpireLink(l)
  PROVE  IInv'
<1>1. /\ link[l].state = "fresh" /\ UNCHANGED <<user, pw, session, req, overtaken, acts>>
      /\ \A q \in Requests : ~(req[q].pc = "verify" /\ req[q].link = l)
  BY DEF ExpireLink, Locked
<1>2. /\ link' \in [Links -> Link] /\ link'[l].user = link[l].user
      /\ \A k \in Links \ {l} : link'[k] = link[k]
  BY DEF ExpireLink, IInv, TypeOK, Link
<1>3. TypeOK'
  <2>1. (\A k \in Links : link[k].state # "none" => Exists(link[k].user))'
    BY <1>1, <1>2 DEF IInv, TypeOK, Exists
  <2> QED BY <1>1, <1>2, <2>1 DEF IInv, TypeOK, Exists
<1>4. Asked' /\ OneHolds'
  <2>1. ASSUME NEW q \in Requests, req'[q].pc = "verify"
        PROVE  link'[req[q].link] = link[req[q].link]
    BY <1>1, <1>2, <2>1, InHand
  <2> QED BY <1>1, <2>1, OthersStand DEF Ruled, Admins, Admin
<1>5. Spent'
  <2> SUFFICES ASSUME NEW t \in Sessions, session[t].state # "none", session[t].link # 0
               PROVE  link'[session[t].link] = [state |-> "used", user |-> session[t].user]
    BY <1>1 DEF Spent
  <2>1. /\ session[t].link \in Links
        /\ link[session[t].link] = [state |-> "used", user |-> session[t].user]
    BY UsedUp
  <2> QED BY <1>1, <1>2, <2>1
<1>6. LinkUsedOnce' /\ Current' /\ AdminRemains'
  BY <1>1 DEF IInv, LinkUsedOnce, Current, AdminRemains, Admins, Admin, Exists
<1> QED BY <1>3, <1>4, <1>5, <1>6 DEF IInv

-----------------------------------------------------------------------------
(* Restarts, and changes by administrators.                                 *)

LEMMA RestartStep ==
  ASSUME IInv, NEW new \in BOOLEAN, Restart(new)
  PROVE  IInv'
<1>1. /\ acts' \in 0..MaxActs /\ UNCHANGED <<link, overtaken>>
      /\ req' \in [Requests -> Request] /\ \A q \in Requests : req'[q].pc = "idle"
  BY IdleTyped, AccountsAssumption DEF Restart, Acted, IInv, TypeOK
<1>2. /\ user' \in [Users -> User]
      /\ \A u \in Users : user'[u] = user[u] \/ user'[u] = Boot
  BY RowsTyped DEF Restart, IInv, TypeOK
<1>3. \A u \in Users : (Exists(u) => Exists(u)') /\ (Admin(u) => Admin(u)')
  BY <1>2 DEF Exists, Admin, Boot
<1>4. /\ pw' \in [Users -> 0..MaxPasswords]
      /\ \A u \in Users : u # Bootstrap \/ ~new => pw'[u] = pw[u]
  BY AccountsAssumption DEF Restart, IInv, TypeOK
<1>5. /\ session' = [t \in Sessions |-> session'[t]]
      /\ \A t \in Sessions :
           session'[t] = IF Bootstrap \in Users /\ session[t].user = Bootstrap /\ new
                         THEN [session[t] EXCEPT !.late = TRUE] ELSE session[t]
  BY DEF Restart, IInv, TypeOK
<1>6. ASSUME NEW t \in Sessions
      PROVE  /\ Same(t)
             /\ session'[t].late \/ (session'[t] = session[t] /\ pw'[session[t].user] = pw[session[t].user])
  <2> DEFINE y == [session[t] EXCEPT !.late = TRUE]
  <2>1. session[t] \in Session /\ session[t].user \in Users
    BY Owners DEF IInv, TypeOK
  <2>2. /\ y \in Session /\ y.late /\ y.state = session[t].state
        /\ y.user = session[t].user /\ y.link = session[t].link
    BY <2>1 DEF Session
  <2> HIDE DEF y
  <2>3. CASE session'[t] = y
    BY <2>2, <2>3 DEF Same
  <2>4. CASE session'[t] # y
    <3>1. session'[t] = session[t] /\ ~(session[t].user = Bootstrap /\ new)
      BY <1>5, <2>1, <2>4 DEF y
    <3> QED BY <1>4, <2>1, <3>1 DEF Same
  <2> QED BY <2>3, <2>4
<1>7. session' \in [Sessions -> Session]
  BY <1>5, <1>6 DEF Same
<1>8. /\ Spent' /\ LinkUsedOnce'
      /\ (\A t \in Sessions : session[t].state # "none" => Exists(session[t].user))'
      /\ (\A l \in Links : link[l].state # "none" => Exists(link[l].user))'
  BY <1>1, <1>3, <1>6, <1>7, SessionsStay
<1>9. Current'
  BY <1>6 DEF IInv, Current
<1>10. TypeOK'
  BY <1>1, <1>2, <1>4, <1>7, <1>8 DEF IInv, TypeOK
<1>11. Asked' /\ OneHolds'
  BY <1>1 DEF Asked, OneHolds, Sound
<1>12. AdminRemains'
  <2>1. CASE user' = user
    BY <1>1, <2>1 DEF IInv, AdminRemains, Admins, Admin, Exists
  <2>2. CASE user' # user
    <3>1. Bootstrap \in Users /\ user'[Bootstrap] = Boot
      BY <2>2 DEF Restart, IInv, TypeOK
    <3>2. Admin(Bootstrap)'
      BY <3>1 DEF Admin, Boot
    <3> QED BY <3>1, <3>2 DEF AdminRemains, Admins
  <2> QED BY <2>1, <2>2
<1> QED BY <1>8, <1>9, <1>10, <1>11, <1>12 DEF IInv

\* An administrator is removed only where the count was right and left another one.
LEMMA WriteRules ==
  ASSUME IInv, NEW r \in Requests, Write(r)
  PROVE  Ruled => Ruled'
<1> DEFINE u == req[r].u
           to == req[r].to
<1>1. u \in Users
  BY DEF IInv, TypeOK, Request
<1>2. CASE user' = user \/ ~Takes(user[u], to)
  <2>1. \A v \in Users : Admin(v) => Admin(v)'
    <3> SUFFICES ASSUME NEW v \in Users, Admin(v) PROVE Admin(v)'
      OBVIOUS
    <3>1. CASE user' = user
      BY <3>1 DEF Admin
    <3>2. CASE user' # user
      <4>1. user' = [user EXCEPT ![u] = to]
        BY <3>2 DEF Write
      <4>2. CASE v = u
        <5>1. user[u] = Boot
          BY <4>2 DEF Admin, Boot, IInv, TypeOK, User
        <5>2. to = Boot
          BY <1>2, <3>2, <5>1 DEF Takes
        <5> QED BY <1>1, <4>1, <4>2, <5>2 DEF Admin, Boot, IInv, TypeOK
      <4>3. CASE v # u
        BY <4>1, <4>3 DEF Admin, IInv, TypeOK
      <4> QED BY <4>2, <4>3
    <3> QED BY <3>1, <3>2
  <2>2. overtaken => overtaken'
    BY Zenon DEF Write
  <2> QED BY <2>1, <2>2 DEF Ruled, Admins
<1>3. CASE user' # user /\ Takes(user[u], to)
  <2>1. user' = [user EXCEPT ![u] = to] /\ (overtaken' <=> overtaken \/ Outdated(r))
    BY <1>3, Zenon DEF Write
  <2>2. CASE Outdated(r)
    BY <2>1, <2>2 DEF Ruled
  <2>3. CASE ~Outdated(r)
    <3>1. req[r].was = user[u] /\ req[r].counted = Cardinality(Admins)
      BY <1>3, <2>3 DEF Outdated
    <3>2. Sound(req[r]) /\ req[r].pc = "write"
      BY DEF IInv, Asked, Write
    <3>3. Cardinality(Admins) > 1
      BY <1>3, <3>1, <3>2 DEF Sound
    <3>4. PICK v \in Admins : v # u
      <4>1. CASE Admins \subseteq {u}
        <5>1. Cardinality({u}) = 1 /\ IsFiniteSet({u})
          BY FS_Singleton
        <5>2. Cardinality(Admins) <= 1
          BY <4>1, <5>1, FS_Subset
        <5> QED BY <3>3, <5>2, UserCount
      <4> QED BY <4>1
    <3>5. v \in Users /\ user'[v] = user[v]
      BY <2>1, <3>4 DEF Admins, IInv, TypeOK
    <3>6. Admin(v)'
      BY <3>4, <3>5 DEF Admins, Admin
    <3> QED BY <3>5, <3>6 DEF Ruled, Admins
  <2> QED BY <2>2, <2>3
<1> QED BY <1>2, <1>3

LEMMA WriteStep ==
  ASSUME IInv, NEW r \in Requests, Write(r)
  PROVE  IInv'
<1> DEFINE u == req[r].u
           to == req[r].to
<1>1. /\ Goes(r, Idle) /\ UNCHANGED <<pw, acts>> /\ req[r].pc = "write"
  BY DEF Write
<1>2. u \in Users /\ to \in Targets /\ to \in User
  <2>1. Sound(req[r])
    BY DEF IInv, Asked
  <2> QED BY <1>1, <2>1, RowsTyped DEF IInv, TypeOK, Request, Sound
<1>3. /\ req' \in [Requests -> Request] /\ req'[r] = Idle
      /\ \A q \in Requests \ {r} : req'[q] = req[q]
  BY <1>1, IdleTyped, Moves DEF IInv
<1>4. Ruled => Ruled'
  BY WriteRules
<1>5. overtaken' \in BOOLEAN
  <2>1. overtaken' = (overtaken \/ (Takes(user[u], to) /\ Outdated(r))) \/ overtaken' = overtaken
    BY Zenon DEF Write
  <2> QED BY <2>1 DEF IInv, TypeOK
<1>6. CASE ~Exists(u)
  <2>1. UNCHANGED <<user, overtaken, session, link>>
    BY <1>6 DEF Write
  <2>2. TypeOK'
    BY <1>1, <1>3, <2>1 DEF IInv, TypeOK, Exists
  <2>3. Asked' /\ OneHolds'
    BY <1>3, <1>4, <2>1, IdleTyped, OthersStand
  <2>4. Spent' /\ LinkUsedOnce' /\ Current' /\ AdminRemains'
    BY <1>1, <2>1 DEF IInv, Spent, LinkUsedOnce, Current, AdminRemains, Admins, Admin, Exists
  <2> QED BY <2>2, <2>3, <2>4 DEF IInv
<1>7. CASE Exists(u) /\ to # Deleted
  <2>1. user' = [user EXCEPT ![u] = to] /\ UNCHANGED <<session, link>>
    BY <1>7 DEF Write
  <2>2. to.status \notin {"none", "deleted"}
    BY <1>2, <1>7 DEF Targets
  <2> HIDE DEF u, to
  <2>3. user' \in [Users -> User] /\ \A v \in Users : Exists(v) => Exists(v)'
    BY <1>2, <2>1, <2>2 DEF IInv, TypeOK, Exists
  <2>4. \A t \in Sessions : Same(t)
    BY <2>1 DEF Same, IInv, TypeOK
  <2>5. /\ Spent' /\ LinkUsedOnce'
        /\ (\A t \in Sessions : session[t].state # "none" => Exists(session[t].user))'
        /\ (\A l \in Links : link[l].state # "none" => Exists(link[l].user))'
    BY <2>1, <2>3, <2>4, SessionsStay DEF IInv, TypeOK
  <2>6. TypeOK'
    BY <1>1, <1>3, <1>5, <2>1, <2>3, <2>5 DEF IInv, TypeOK
  <2>7. Asked' /\ OneHolds'
    BY <1>3, <1>4, <2>1, IdleTyped, OthersStand
  <2>8. Current'
    BY <1>1, <2>1 DEF IInv, Current
  <2>9. AdminRemains'
    <3>1. Ruled
      BY <1>2, <1>7 DEF IInv, AdminRemains, Ruled
    <3> QED BY <1>4, <3>1 DEF AdminRemains, Ruled
  <2> QED BY <2>5, <2>6, <2>7, <2>8, <2>9 DEF IInv
<1>8. CASE Exists(u) /\ to = Deleted
  <2>1. /\ user' = [user EXCEPT ![u] = Deleted]
        /\ session' = [s \in Sessions |-> IF s \in Owned(u) THEN NoSession ELSE session[s]]
        /\ link' = [l \in Links |-> IF link[l].user = u THEN NoLink ELSE link[l]]
        /\ \A l \in Links : link[l].user = u => ~Locked(l)
    BY <1>8 DEF Write
  <2>2. Exists(u)
    BY <1>8
  <2> HIDE DEF u, to
  <2>3. /\ user' \in [Users -> User] /\ \A v \in Users \ {u} : user'[v] = user[v]
    BY <1>2, <2>1, RowsTyped DEF IInv, TypeOK
  <2>4. /\ session' \in [Sessions -> Session]
        /\ \A s \in Sessions : session'[s].state = "none"
                                 \/ (session'[s] = session[s] /\ session[s].user # u)
    <3>1. NoSession \in Session /\ NoSession.state = "none"
      BY RowsTyped DEF NoSession
    <3> QED BY <2>1, <3>1 DEF Owned, IInv, TypeOK
  <2>5. /\ link' \in [Links -> Link]
        /\ \A l \in Links : \/ link'[l] = link[l] /\ link[l].user # u
                            \/ link'[l].state = "none" /\ link[l].user = u
    <3>1. NoLink \in Link /\ NoLink.state = "none"
      BY RowsTyped DEF NoLink
    <3> QED BY <2>1, <3>1 DEF IInv, TypeOK
  <2>6. TypeOK'
    <3>1. (\A t \in Sessions : session[t].state # "none" => Exists(session[t].user))'
      <4> SUFFICES ASSUME NEW t \in Sessions, session'[t].state # "none"
                   PROVE  user'[session'[t].user].status \notin {"none", "deleted"}
        BY DEF Exists
      <4>1. session'[t] = session[t] /\ session[t].user \in Users \ {u}
        BY <2>4, Owners DEF IInv
      <4>2. Exists(session[t].user)
        BY <4>1 DEF IInv, TypeOK
      <4> QED BY <2>3, <4>1, <4>2 DEF Exists
    <3>2. (\A l \in Links : link[l].state # "none" => Exists(link[l].user))'
      <4> SUFFICES ASSUME NEW l \in Links, link'[l].state # "none"
                   PROVE  user'[link'[l].user].status \notin {"none", "deleted"}
        BY DEF Exists
      <4>1. link'[l] = link[l] /\ link[l].user \in Users \ {u}
        BY <2>5, Owners DEF IInv
      <4>2. Exists(link[l].user)
        BY <4>1 DEF IInv, TypeOK
      <4> QED BY <2>3, <4>1, <4>2 DEF Exists
    <3> QED BY <1>1, <1>3, <1>5, <2>3, <2>4, <2>5, <3>1, <3>2 DEF IInv, TypeOK
  <2>7. Asked' /\ OneHolds'
    <3>1. ASSUME NEW q \in Requests, req'[q].pc = "verify"
          PROVE  link'[req[q].link] = link[req[q].link]
      <4>1. req[q].pc = "verify"
        BY <1>3, <3>1, IdleTyped
      <4>2. req[q].link \in Links
        BY <4>1, InHand
      <4>3. Locked(req[q].link)
        BY <4>1 DEF Locked
      <4> QED BY <2>1, <2>5, <4>2, <4>3
    <3> QED BY <1>3, <1>4, <3>1, IdleTyped, OthersStand
  <2>8. Spent'
    <3> SUFFICES ASSUME NEW t \in Sessions, session'[t].state # "none", session'[t].link # 0
                 PROVE  link'[session'[t].link] = [state |-> "used", user |-> session'[t].user]
      BY DEF Spent
    <3>1. session'[t] = session[t] /\ session[t].user # u
      BY <2>4
    <3>2. /\ session[t].link \in Links
          /\ link[session[t].link] = [state |-> "used", user |-> session[t].user]
      BY <3>1, UsedUp
    <3>3. link[session[t].link].user # u
      BY <3>1, <3>2
    <3> QED BY <2>5, <3>1, <3>2, <3>3
  <2>9. LinkUsedOnce' /\ Current'
    BY <1>1, <2>4 DEF IInv, LinkUsedOnce, Current
  <2>10. AdminRemains'
    <3>1. Ruled
      BY <1>2, <2>2 DEF IInv, AdminRemains, Ruled
    <3> QED BY <1>4, <3>1 DEF AdminRemains, Ruled
  <2> QED BY <2>6, <2>7, <2>8, <2>9, <2>10 DEF IInv
<1> QED BY <1>6, <1>7, <1>8

-----------------------------------------------------------------------------
LEMMA NextIInv == IInv /\ [Next]_vars => IInv'
<1> SUFFICES ASSUME IInv, [Next]_vars PROVE IInv'
  OBVIOUS
<1>1. CASE UNCHANGED vars
  <2>1. UNCHANGED <<user, pw, link, session, req, overtaken, acts>>
    BY <1>1 DEF vars
  <2>2. TypeOK' /\ Spent' /\ LinkUsedOnce' /\ Current' /\ AdminRemains'
    BY <2>1 DEF IInv, TypeOK, Exists, Spent, LinkUsedOnce, Current, AdminRemains, Admins, Admin
  <2>3. Asked' /\ OneHolds'
    BY <2>1, OthersStand DEF Ruled, Admins, Admin
  <2> QED BY <2>2, <2>3 DEF IInv
<1>2. CASE \E r \in Requests, u \in Users : AskLink(r, u) \/ CheckPassword(r, u)
  BY <1>2, AskLinkStep, CheckPasswordStep
<1>3. CASE \E r \in Requests, l \in Links : Verify(r, l)
  BY <1>3, VerifyStep
<1>4. CASE \E r \in Requests : InsertUser(r) \/ IssueLink(r) \/ Commit(r) \/ CreateSession(r)
  BY <1>4, InsertUserStep, IssueLinkStep, CommitStep, CreateSessionStep
<1>5. CASE \E r \in Requests, s \in Sessions, u \in Users, to \in Targets : Change(r, s, u, to)
  BY <1>5, ChangeStep
<1>6. CASE \E r \in Requests : Count(r) \/ Write(r)
  BY <1>6, CountStep, WriteStep
<1>7. CASE \E s \in Sessions, cookie \in BOOLEAN : Logout(s, cookie)
  BY <1>7, LogoutStep
<1>8. CASE \E s \in Sessions, u \in Users : SetPassword(s, u)
  BY <1>8, SetPasswordStep
<1>9. CASE \E l \in Links : ExpireLink(l)
  BY <1>9, ExpireLinkStep
<1>10. CASE \E s \in Sessions : ExpireSession(s)
  BY <1>10, ExpireSessionStep
<1>11. CASE \E new \in BOOLEAN : Restart(new)
  BY <1>11, RestartStep
<1> QED
  BY <1>1, <1>2, <1>3, <1>4, <1>5, <1>6, <1>7, <1>8, <1>9, <1>10, <1>11 DEF Next

LEMMA IInvHolds == Spec => []IInv
  BY InitIInv, NextIInv, PTL DEF Spec

-----------------------------------------------------------------------------
(* Theorems.                                                                *)

\* Types, and the foreign keys: links and sessions are of users that exist.
THEOREM TypeCorrect == Spec => []TypeOK
<1>1. IInv => TypeOK
  BY DEF IInv
<1> QED BY <1>1, IInvHolds, PTL

\* database/auth.go VerifyMagicLinkToken, SetUserPasswordHash: a link makes one session,
\* however its token and its code are tried, and a change of password ends the sessions of before.
THEOREM SessionsAreSound == Spec => []SessionsSound
<1>1. IInv => SessionsSound
  BY DEF IInv, Current, SessionsSound, PasswordEndsSessions, Usable
<1> QED BY <1>1, IInvHolds, PTL

\* users.go ensureMoreThanOneActiveAdmin, auth.go EnsureUserByEmail: a hub with users keeps
\* an administrator, unless a removal was written on outdated facts.
THEOREM AnAdminRemains == Spec => []AdminRemains
<1>1. IInv => AdminRemains
  BY DEF IInv
<1> QED BY <1>1, IInvHolds, PTL
=============================================================================
