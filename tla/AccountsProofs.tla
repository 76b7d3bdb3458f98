---------------------------- MODULE AccountsProofs ----------------------------
(***************************************************************************)
(* Proofs about Accounts, for any number of users and requests: sessions   *)
(* end with the password or the deactivation, the last administrator is    *)
(* removed only by one who has lost the right in the meantime, a link and  *)
(* a second factor are broken only by the crossings they except.           *)
(*                                                                         *)
(* The inductive invariant IInv says of each request what the route had    *)
(* established when it let the request in (ReqOK), and of the table that   *)
(* the next id is free.                                                    *)
(***************************************************************************)
EXTENDS Accounts, FiniteSetTheorems, TLAPS

(* What a request was admitted on is still in what it carries.              *)
ReqOK(q) ==
  /\ q.at \notin {"idle", "insert"} => q.user \in Ids
  /\ q.at \in {"active", "admin"} /\ ~q.flag => q.actor # q.user
  /\ q.at = "delete" => q.actor # q.user
  /\ q.at = "bind" => q.row.link = NoSubject
  /\ q.at = "setup" => ~q.row.enabled
  /\ q.at = "verify" => ~q.row.enabled /\ q.row.secret # None

NextInv == \A i \in Ids : Live(i) => i < next
ReqInv == \A r \in Requests : ReqOK(req[r])

IInv == TypeOK /\ NextInv /\ ReqInv /\ RevocationHolds

-------------------------------------------------------------------------------
(* Types.                                                                   *)

LEMMA UnbornType == Unborn \in User
<1>1. (CHOOSE p \in People : TRUE) \in People
  BY AccountsAssumption
<1> QED  BY <1>1, AccountsAssumption DEF Unborn, User, None, NoSubject

LEMMA IdleType == Idle \in Request
BY UnbornType, AccountsAssumption DEF Idle, Request, Kinds, Stages, None, NoCode, NoSubject

LEMMA AboutType ==
  ASSUME TypeOK, NEW i \in Ids, NEW kind \in Kinds, NEW at \in Stages
  PROVE  /\ About(kind, at, i) \in Request
         /\ About(kind, at, i).kind = kind /\ About(kind, at, i).at = at
         /\ About(kind, at, i).user = i /\ About(kind, at, i).row = users[i]
         /\ About(kind, at, i).actor = None
         /\ About(kind, at, i).pwd = users[i].pwd
<1>1. users[i] \in User /\ users[i].pwd \in 0..MaxFresh
  BY DEF TypeOK, User
<1> DEFINE a == [Idle EXCEPT !.kind = kind]
           b == [a EXCEPT !.at = at]
           c == [b EXCEPT !.user = i]
           d == [c EXCEPT !.row = users[i]]
           e == [d EXCEPT !.pwd = users[i].pwd]
<1>2. a \in Request /\ a.kind = kind /\ a.actor = None
  BY IdleType DEF Request, Idle
<1>3. b \in Request /\ b.kind = kind /\ b.actor = None /\ b.at = at
  <2> HIDE DEF a
  <2> QED  BY <1>2 DEF Request
<1>4. c \in Request /\ c.kind = kind /\ c.actor = None /\ c.at = at /\ c.user = i
  <2> HIDE DEF b
  <2> QED  BY <1>3 DEF Request
<1>5. d \in Request /\ d.kind = kind /\ d.actor = None /\ d.at = at /\ d.user = i /\ d.row = users[i]
  <2> HIDE DEF c
  <2> QED  BY <1>1, <1>4 DEF Request
<1>6. e \in Request /\ e.kind = kind /\ e.actor = None /\ e.at = at /\ e.user = i /\ e.row = users[i]
      /\ e.pwd = users[i].pwd
  <2> HIDE DEF d
  <2> QED  BY <1>1, <1>5 DEF Request
<1>7. About(kind, at, i) = e
  BY Zenon DEF About
<1> HIDE DEF e
<1> QED  BY <1>6, <1>7

-------------------------------------------------------------------------------
(* A request is let in.                                                     *)

LEMMA SpendStep ==
  ASSUME TypeOK, Spend
  PROVE  /\ spent' \in [requests : 0..MaxRequests, restarts : 0..MaxRestarts]
         /\ spent'.requests = spent.requests + 1 /\ spent.requests \in Nat
<1>1. spent \in [requests : 0..MaxRequests, restarts : 0..MaxRestarts] /\ MaxRequests \in Nat
  BY AccountsAssumption DEF TypeOK
<1>2. spent.requests \in Nat /\ spent.requests + 1 \in 0..MaxRequests
  BY <1>1 DEF Spend
<1>3. spent' = [spent EXCEPT !.requests = spent.requests + 1]
  BY DEF Spend
<1> QED  BY <1>1, <1>2, <1>3

(* It changes nothing but the request, which keeps what the route checked.  *)
LEMMA AskStep ==
  ASSUME IInv, NEW r \in Requests, NEW q \in Request, Ask(r, q), ReqOK(q),
         provider' \in {"off", "on", "trusted"}, pending' \in 0..pending
  PROVE  IInv'
<1>1. TypeOK'
  <2>1. req' \in [Requests -> Request]
    BY DEF Ask, IInv, TypeOK
  <2>2. pending' \in 0..spent'.requests
    BY SpendStep DEF Ask, IInv, TypeOK
  <2> QED  BY <2>1, <2>2, SpendStep DEF Ask, IInv, TypeOK
<1>2. NextInv'
  BY DEF Ask, IInv, NextInv, Live
<1>3. ReqInv'
  BY DEF Ask, IInv, ReqInv, TypeOK
<1>4. RevocationHolds'
  <2>1. req[r].at = "idle"
    BY DEF Ask, Idle
  <2>2. \A i : Revoking(i) => Revoking(i)'
    BY <2>1 DEF Ask, IInv, TypeOK, Revoking, At, Target
  <2> QED  BY <2>2 DEF Ask, IInv, RevocationHolds, Live
<1> QED  BY <1>1, <1>2, <1>3, <1>4 DEF IInv

LEMMA SignupStep ==
  ASSUME IInv, NEW r \in Requests, signup_first(r)
  PROVE  IInv'
<1>1. PICK p \in People :
        Ask(r, [Idle EXCEPT !.kind = "signup", !.at = "insert", !.row = [Unborn EXCEPT !.name = p, !.admin = TRUE]])
  BY DEF signup_first
<1> DEFINE u == [Unborn EXCEPT !.name = p, !.admin = TRUE]
           a == [Idle EXCEPT !.kind = "signup"]
           b == [a EXCEPT !.at = "insert"]
           q == [b EXCEPT !.row = u]
<1>2. u \in User
  <2>1. [Unborn EXCEPT !.name = p] \in User
    BY UnbornType DEF User
  <2>2. [[Unborn EXCEPT !.name = p] EXCEPT !.admin = TRUE] \in User
    BY <2>1 DEF User
  <2>3. u = [[Unborn EXCEPT !.name = p] EXCEPT !.admin = TRUE]
    BY Zenon
  <2> QED  BY <2>2, <2>3
<1>3. a \in Request
  BY IdleType DEF Request, Kinds
<1>4. b \in Request /\ b.at = "insert"
  <2> HIDE DEF a
  <2> QED  BY <1>3 DEF Request, Stages
<1>5. q \in Request /\ q.at = "insert"
  <2> HIDE DEF b, u
  <2> QED  BY <1>2, <1>4 DEF Request
<1>6. Ask(r, q)
  BY <1>1, Zenon
<1> HIDE DEF q
<1> QED  BY <1>5, <1>6, AskStep DEF ReqOK, signup_first, NoOidc, IInv, TypeOK

LEMMA CreateStep ==
  ASSUME IInv, NEW r \in Requests, NEW a0 \in Ids, create_user(r, a0)
  PROVE  IInv'
<1>1. PICK p \in People, admin \in BOOLEAN :
        Ask(r, By(a0, [Idle EXCEPT !.kind = "create", !.at = "insert", !.row = [Unborn EXCEPT !.name = p, !.admin = admin]]))
  BY DEF create_user
<1> DEFINE u == [Unborn EXCEPT !.name = p, !.admin = admin]
           a == [Idle EXCEPT !.kind = "create"]
           b == [a EXCEPT !.at = "insert"]
           c == [b EXCEPT !.row = u]
           q == [c EXCEPT !.actor = a0]
<1>2. u \in User
  <2>1. [Unborn EXCEPT !.name = p] \in User
    BY UnbornType DEF User
  <2>2. [[Unborn EXCEPT !.name = p] EXCEPT !.admin = admin] \in User
    BY <2>1 DEF User
  <2>3. u = [[Unborn EXCEPT !.name = p] EXCEPT !.admin = admin]
    BY Zenon
  <2> QED  BY <2>2, <2>3
<1>3. a \in Request
  BY IdleType DEF Request, Kinds
<1>4. b \in Request /\ b.at = "insert"
  <2> HIDE DEF a
  <2> QED  BY <1>3 DEF Request, Stages
<1>5. c \in Request /\ c.at = "insert"
  <2> HIDE DEF b, u
  <2> QED  BY <1>2, <1>4 DEF Request
<1>6. q \in Request /\ q.at = "insert"
  <2> HIDE DEF c
  <2> QED  BY <1>5 DEF Request
<1>7. Ask(r, q)
  BY <1>1, Zenon DEF By
<1> HIDE DEF q
<1> QED  BY <1>6, <1>7, AskStep DEF ReqOK, create_user, NoOidc, IInv, TypeOK

LEMMA LoginStep ==
  ASSUME IInv, NEW r \in Requests, NEW i \in Ids, login(r, i)
  PROVE  IInv'
<1>1. PICK c \in Factors(users[i]) :
        Ask(r, [About("login", IF c = NoCode THEN Checked(users[i]) ELSE "consume", i) EXCEPT !.code = c])
  BY DEF login
<1> DEFINE at == IF c = NoCode THEN Checked(users[i]) ELSE "consume"
           a == About("login", at, i)
           q == [a EXCEPT !.code = c]
<1>2. at \in {"rehash", "session", "consume"}
  BY DEF Checked
<1>3. "login" \in Kinds /\ at \in Stages
  BY <1>2 DEF Kinds, Stages
<1>4. a \in Request /\ a.at = at /\ a.user = i
  <2> HIDE DEF at
  <2> QED  BY <1>3, AboutType DEF IInv
<1>5. c \in Codes \cup {NoCode}
  BY DEF Factors, IInv, TypeOK, User
<1>6. q \in Request /\ q.at = at /\ q.user = i
  <2> HIDE DEF a, at
  <2> QED  BY <1>4, <1>5 DEF Request
<1>7. Ask(r, q)
  BY <1>1, Zenon
<1> HIDE DEF q, at
<1> QED  BY <1>2, <1>6, <1>7, AskStep DEF ReqOK, login, NoOidc, IInv, TypeOK

(* The profile's own requests carry the row they were admitted on.          *)
LEMMA ProfileStep ==
  ASSUME IInv, NEW r \in Requests, Profile(r)
  PROVE  IInv'
<1>1. ASSUME NEW i \in Ids, NEW kind \in Kinds, NEW at \in {"hash", "setup", "verify", "disable"},
             at \in {"setup", "verify"} => ~users[i].enabled,
             at = "verify" => users[i].secret # None,
             Ask(r, About(kind, at, i)), NoOidc
      PROVE  IInv'
  <2>1. at \in Stages
    BY DEF Stages
  <2> DEFINE q == About(kind, at, i)
  <2>2. q \in Request /\ q.at = at /\ q.user = i /\ q.row = users[i]
    BY <2>1, AboutType DEF IInv
  <2> HIDE DEF q
  <2>3. ReqOK(q)
    BY <1>1, <2>2 DEF ReqOK
  <2> QED  BY <1>1, <2>2, <2>3, AskStep DEF NoOidc, IInv, TypeOK, q
<1>2. "change" \in Kinds /\ "factor" \in Kinds
  BY DEF Kinds
<1>3. PICK i \in Ids : change_password(r, i) \/ totp_setup(r, i) \/ totp_verify(r, i) \/ totp_disable(r, i)
  BY DEF Profile
<1>4. CASE change_password(r, i)
  BY <1>1, <1>2, <1>4 DEF change_password
<1>5. CASE totp_setup(r, i)
  BY <1>1, <1>2, <1>5 DEF totp_setup
<1>6. CASE totp_verify(r, i)
  BY <1>1, <1>2, <1>6 DEF totp_verify
<1>7. CASE totp_disable(r, i)
  BY <1>1, <1>2, <1>7 DEF totp_disable
<1> QED  BY <1>3, <1>4, <1>5, <1>6, <1>7

(* Only an account without a link is to be bound.                           *)
LEMMA CallbackStep ==
  ASSUME IInv, NEW r \in Requests, oidc_callback(r)
  PROVE  IInv'
<1>1. PICK s \in Subjects, verified \in BOOLEAN :
        LET linked == {i \in Ids : Live(i) /\ users[i].link = s}
            found == IF linked # {} THEN {i \in linked : users[i].active}
                     ELSE {i \in Invited(s, verified) : Bindable(i)}
        IN  \E i \in found :
              Ask(r, [About("oidc", IF linked # {} THEN "session" ELSE "bind", i)
                        EXCEPT !.pwd = None, !.subject = s])
  BY DEF oidc_callback
<1>2. PICK at \in {"session", "bind"}, i \in Ids :
        /\ at = "bind" => users[i].link = NoSubject
        /\ Ask(r, [About("oidc", at, i) EXCEPT !.pwd = None, !.subject = s])
  BY <1>1, Zenon DEF Invited, Bindable
<1> DEFINE a == About("oidc", at, i)
           b == [a EXCEPT !.pwd = None]
           q == [b EXCEPT !.subject = s]
<1>3. "oidc" \in Kinds /\ at \in Stages
  BY DEF Kinds, Stages
<1>4. a \in Request /\ a.at = at /\ a.user = i /\ a.row = users[i]
  BY <1>3, AboutType DEF IInv
<1>5. b \in Request /\ b.at = at /\ b.user = i /\ b.row = users[i]
  <2>1. None \in 0..MaxFresh
    BY AccountsAssumption DEF None
  <2> HIDE DEF a
  <2> QED  BY <1>4, <2>1 DEF Request
<1>6. q \in Request /\ q.at = at /\ q.user = i /\ q.row = users[i]
  <2> HIDE DEF b
  <2> QED  BY <1>5 DEF Request
<1>7. Ask(r, q)
  BY <1>2, Zenon
<1> HIDE DEF q
<1>8. ReqOK(q)
  BY <1>2, <1>6 DEF ReqOK
<1>9. pending' \in 0..pending /\ provider' = provider
  BY DEF oidc_callback, IInv, TypeOK
<1> QED  BY <1>6, <1>7, <1>8, <1>9, AskStep DEF IInv, TypeOK

(* An administrator removes another one only.                               *)
LEMMA AdminAskStep ==
  ASSUME IInv, NEW r \in Requests, NEW a \in Ids, NEW i \in Ids,
         set_active(r, a, i) \/ set_admin(r, a, i) \/ delete_user(r, a, i)
  PROVE  IInv'
<1>1. PICK at \in {"active", "admin", "delete"}, flag \in BOOLEAN :
        /\ (flag /\ at # "delete") \/ a # i
        /\ \/ Ask(r, By(a, [About("admin", at, i) EXCEPT !.flag = flag]))
           \/ at = "delete" /\ Ask(r, By(a, About("admin", at, i)))
  <2>1. CASE set_active(r, a, i)
    BY <2>1, Zenon DEF set_active, Spared
  <2>2. CASE set_admin(r, a, i)
    BY <2>2, Zenon DEF set_admin, Spared
  <2>3. CASE delete_user(r, a, i)
    BY <2>3, Zenon DEF delete_user, Spared
  <2> QED  BY <2>1, <2>2, <2>3
<1> DEFINE b == About("admin", at, i)
           c == [b EXCEPT !.flag = flag]
           q == [c EXCEPT !.actor = a]
           p == [b EXCEPT !.actor = a]
<1>2. "admin" \in Kinds /\ at \in Stages
  BY DEF Kinds, Stages
<1>3. b \in Request /\ b.at = at /\ b.user = i
  BY <1>2, AboutType DEF IInv
<1>4. c \in Request /\ c.at = at /\ c.user = i /\ c.flag = flag
      /\ p \in Request /\ p.at = at /\ p.user = i /\ p.actor = a
  <2> HIDE DEF b
  <2> QED  BY <1>3 DEF Request
<1>5. q \in Request /\ q.at = at /\ q.user = i /\ q.flag = flag /\ q.actor = a
  <2> HIDE DEF c
  <2> QED  BY <1>4 DEF Request
<1>6. Ask(r, q) \/ (at = "delete" /\ Ask(r, p))
  BY <1>1, Zenon DEF By
<1>7. provider' = provider /\ pending' = pending
  BY DEF set_active, set_admin, delete_user, NoOidc
<1> HIDE DEF q, p
<1>8. ReqOK(q) /\ (at = "delete" => ReqOK(p))
  BY <1>1, <1>4, <1>5 DEF ReqOK
<1> QED  BY <1>4, <1>5, <1>6, <1>7, <1>8, AskStep DEF IInv, TypeOK

-------------------------------------------------------------------------------
(* A request goes on to its next transaction.                               *)

Apart(r) == \A x \in Requests \ {r} : req'[x] = req[x]

LEMMA ThenStep ==
  ASSUME IInv, NEW r \in Requests, NEW stage \in {"idle", "rehash", "session", "revoke"}, Then(r, stage),
         req[r].at \notin {"idle", "insert"}
  PROVE  /\ req' \in [Requests -> Request] /\ ReqInv' /\ Apart(r)
         /\ stage = "idle" => req'[r] = Idle
         /\ stage # "idle" => req'[r].at = stage /\ req'[r].user = req[r].user
<1>1. CASE stage = "idle"
  <2>1. req' = [req EXCEPT ![r] = Idle]
    BY <1>1 DEF Then
  <2>2. req' \in [Requests -> Request] /\ Apart(r) /\ req'[r] = Idle
    BY <2>1, IdleType DEF IInv, TypeOK, Apart
  <2>3. ReqOK(Idle)
    BY DEF ReqOK, Idle
  <2> QED  BY <1>1, <2>2, <2>3 DEF IInv, ReqInv, Apart
<1>2. CASE stage # "idle"
  <2> DEFINE q == [req[r] EXCEPT !.at = stage]
  <2>1. req' = [req EXCEPT ![r] = q]
    BY <1>2 DEF Then
  <2>2. q \in Request /\ q.at = stage /\ q.user = req[r].user
    BY DEF IInv, TypeOK, Request, Stages
  <2>3. req[r].user \in Ids
    BY DEF IInv, ReqInv, ReqOK
  <2> HIDE DEF q
  <2>4. ReqOK(q)
    BY <1>2, <2>2, <2>3 DEF ReqOK
  <2>5. req' \in [Requests -> Request] /\ Apart(r) /\ req'[r] = q
    BY <2>1, <2>2 DEF IInv, TypeOK, Apart
  <2> QED  BY <1>2, <2>2, <2>4, <2>5 DEF IInv, ReqInv, Apart
<1> QED  BY <1>1, <1>2

(* The same for a request that fails or ends at its insert.                 *)
LEMMA EndStep ==
  ASSUME IInv, NEW r \in Requests, Then(r, "idle")
  PROVE  req' \in [Requests -> Request] /\ ReqInv' /\ Apart(r) /\ req'[r] = Idle
<1>1. req' = [req EXCEPT ![r] = Idle]
  BY DEF Then
<1>2. req' \in [Requests -> Request] /\ Apart(r) /\ req'[r] = Idle
  BY <1>1, IdleType DEF IInv, TypeOK, Apart
<1>3. ReqOK(Idle)
  BY DEF ReqOK, Idle
<1> QED  BY <1>2, <1>3 DEF IInv, ReqInv, Apart

(* A revocation still to come stays one, but for the request that moves.    *)
LEMMA RevokingKept ==
  ASSUME IInv, NEW r \in Requests, Apart(r), req[r].at # "revoke", torn \subseteq torn'
  PROVE  \A i : Revoking(i) => Revoking(i)'
BY DEF Apart, Revoking, At, Target

(* What a step must leave of the users for their sessions to be right.      *)
LEMMA SessionsKept ==
  ASSUME IInv, sessions' \subseteq sessions,
         \A s \in sessions' : Revoking(s.user) => Revoking(s.user)',
         \A s \in sessions' :
           LET i == s.user
           IN  /\ Live(i) => Live(i)'
               /\ \/ Revoking(i)'
                  \/ users'[i].pwd = users[i].pwd /\ (users[i].active => users'[i].active)
  PROVE  RevocationHolds'
BY DEF IInv, RevocationHolds

LEMMA FailsStep ==
  ASSUME IInv, NEW r \in Requests, Fails(r), req[r].at # "revoke", UNCHANGED <<provider, pending, spent>>
  PROVE  IInv'
<1>1. req' \in [Requests -> Request] /\ ReqInv' /\ Apart(r)
  BY EndStep DEF Fails
<1>2. RevocationHolds'
  BY <1>1, RevokingKept, SessionsKept DEF Fails, Live
<1>3. TypeOK' /\ NextInv'
  BY <1>1 DEF Fails, IInv, TypeOK, NextInv, Live
<1> QED  BY <1>1, <1>2, <1>3 DEF IInv

(* A step that writes one row, and leaves the password and the sessions.    *)
LEMMA RowStep ==
  ASSUME IInv, NEW r \in Requests, NEW i \in Ids, NEW u \in User,
         users' = [users EXCEPT ![i] = u], u.live = users[i].live,
         u.pwd = users[i].pwd, users[i].active => u.active \/ Revoking(i)',
         req' \in [Requests -> Request], ReqInv', Apart(r), req[r].at # "revoke",
         fresh' \in 0..MaxFresh, confirmed' \in [Ids -> 0..MaxFresh],
         UNCHANGED <<next, sessions, torn, provider, pending, spent>>
  PROVE  IInv'
<1>1. TypeOK'
  BY DEF IInv, TypeOK
<1>2. \A j \in Ids : users'[j] = IF j = i THEN u ELSE users[j]
  BY DEF IInv, TypeOK
<1>3. NextInv'
  BY <1>2 DEF IInv, NextInv, Live
<1>4. \A s \in sessions : s.user \in Ids
  BY DEF IInv, TypeOK
<1>5. RevocationHolds'
  BY <1>2, <1>4, RevokingKept, SessionsKept DEF Live
<1> QED  BY <1>1, <1>3, <1>5 DEF IInv

-------------------------------------------------------------------------------
(* One lemma for each transaction.                                          *)

Elsewhere == UNCHANGED <<provider, pending, spent>>

LEMMA Targeted ==
  ASSUME IInv, NEW r \in Requests, req[r].at \notin {"idle", "insert"}
  PROVE  /\ Target(r) \in Ids /\ users[Target(r)] \in User /\ req[r] \in Request
         /\ req[r].row \in User /\ req[r].flag \in BOOLEAN /\ req[r].pwd \in 0..MaxFresh
         /\ ReqOK(req[r])
BY DEF IInv, ReqInv, ReqOK, Target, TypeOK, Request

(* The new row has an id no session and no request has heard of.            *)
LEMMA InsertStep ==
  ASSUME IInv, NEW r \in Requests, Insert(r), Elsewhere
  PROVE  IInv'
<1>1. CASE Fails(r)
  BY <1>1, FailsStep DEF Insert, At, Elsewhere
<1>2. CASE ~Fails(r)
  <2> DEFINE row == req[r].row
             v == [row EXCEPT !.live = TRUE]
             u == [v EXCEPT !.active = TRUE]
             a == [req[r] EXCEPT !.at = "session"]
             b == [a EXCEPT !.user = next]
             q == IF req[r].kind = "signup" THEN b ELSE Idle
  <2>1. next \in Ids /\ req[r].at = "insert"
        /\ users' = [users EXCEPT ![next] = [req[r].row EXCEPT !.live = TRUE, !.active = TRUE]]
        /\ next' = next + 1
        /\ req' = [req EXCEPT ![r] = IF @.kind = "signup" THEN [@ EXCEPT !.at = "session", !.user = next] ELSE Idle]
        /\ UNCHANGED <<sessions, fresh, confirmed, torn>>
    BY <1>2 DEF Insert, At
  <2>2. req[r] \in Request /\ row \in User
    BY DEF IInv, TypeOK, Request
  <2>3. v \in User /\ v.live
    <3> HIDE DEF row
    <3> QED  BY <2>2 DEF User
  <2>4. u \in User /\ u.live
    <3> HIDE DEF v
    <3> QED  BY <2>3 DEF User
  <2>5. a \in Request /\ a.at = "session"
    BY <2>2 DEF Request, Stages
  <2>6. b \in Request /\ b.at = "session" /\ b.user = next
    <3> HIDE DEF a
    <3> QED  BY <2>1, <2>5 DEF Request
  <2>7. users' = [users EXCEPT ![next] = u]
    BY <2>1, Zenon
  <2>8. req' = [req EXCEPT ![r] = q]
    BY <2>1, Zenon
  <2>9. ReqOK(q) /\ q \in Request
    <3>1. ReqOK(Idle)
      BY DEF ReqOK, Idle
    <3> HIDE DEF a, b
    <3>2. ReqOK(b)
      BY <2>1, <2>6 DEF ReqOK
    <3> QED  BY <2>6, <3>1, <3>2, IdleType
  <2> HIDE DEF u, q
  <2>10. req' \in [Requests -> Request] /\ ReqInv' /\ Apart(r)
    BY <2>8, <2>9 DEF IInv, TypeOK, ReqInv, Apart
  <2>11. users' \in [Ids -> User] /\ \A j \in Ids : users'[j] = IF j = next THEN u ELSE users[j]
    BY <2>1, <2>4, <2>7 DEF IInv, TypeOK
  <2>12. TypeOK'
    BY <2>1, <2>10, <2>11 DEF IInv, TypeOK, Elsewhere
  <2>13. NextInv'
    BY <2>1, <2>11, AccountsAssumption DEF IInv, TypeOK, NextInv, Live
  <2>14. RevocationHolds'
    <3>1. \A s \in sessions : s.user \in Ids /\ s.user # next
      BY <2>1 DEF IInv, TypeOK, RevocationHolds, NextInv
    <3>2. \A j : Revoking(j) => Revoking(j)'
      BY <2>1, <2>10, RevokingKept
    <3> QED  BY <2>1, <2>11, <3>1, <3>2, SessionsKept DEF Live
  <2> QED  BY <2>10, <2>12, <2>13, <2>14 DEF IInv
<1> QED  BY <1>1, <1>2

LEMMA ConsumeStep ==
  ASSUME IInv, NEW r \in Requests, Consume(r), Elsewhere
  PROVE  IInv'
<1> DEFINE i == Target(r)
           u == [users[i] EXCEPT !.codes = @ \ {req[r].code}]
<1>1. req[r].at = "consume" /\ users' = [users EXCEPT ![i] = u] /\ Kept
      /\ \E stage \in {"rehash", "session", "idle"} : Then(r, stage)
  BY DEF Consume, At, Checked
<1>2. i \in Ids /\ users[i] \in User
  BY <1>1, Targeted
<1> HIDE DEF i
<1>3. u \in User /\ u.live = users[i].live /\ u.pwd = users[i].pwd /\ u.active = users[i].active
  BY <1>2 DEF User
<1> HIDE DEF u
<1>4. req' \in [Requests -> Request] /\ ReqInv' /\ Apart(r)
  BY <1>1, ThenStep
<1> QED  BY <1>1, <1>2, <1>3, <1>4, RowStep DEF Kept, Elsewhere, IInv, TypeOK

(* A password put back marks the user as torn.                              *)
LEMMA RehashStep ==
  ASSUME IInv, NEW r \in Requests, Rehash(r), Elsewhere
  PROVE  IInv'
<1>1. CASE Fails(r)
  BY <1>1, FailsStep DEF Rehash, At, Elsewhere
<1>2. CASE ~Fails(r)
  <2>0. PICK i \in Ids : i = Target(r)
    BY <1>2, Targeted DEF Rehash, At
  <2> DEFINE v == [users[i] EXCEPT !.pwd = req[r].pwd]
             u == [v EXCEPT !.old = FALSE]
  <2>1. req[r].at = "rehash" /\ Live(i)
        /\ users' = [users EXCEPT ![i].pwd = req[r].pwd, ![i].old = FALSE]
        /\ torn' = (IF users[i].pwd # req[r].pwd THEN torn \cup {i} ELSE torn)
        /\ Then(r, "session") /\ UNCHANGED <<next, sessions, fresh, confirmed>>
    BY <1>2, <2>0 DEF Rehash, At
  <2>2. i \in Ids /\ users[i] \in User /\ req[r].pwd \in 0..MaxFresh
    BY <2>0, <2>1, Targeted
  <2>3. users' = [users EXCEPT ![i] = u]
    BY <2>1, <2>2 DEF IInv, TypeOK
  <2>4. v \in User /\ v.live = users[i].live /\ v.active = users[i].active /\ v.pwd = req[r].pwd
    BY <2>2 DEF User
  <2>5. u \in User /\ u.live = users[i].live /\ u.active = users[i].active /\ u.pwd = req[r].pwd
    <3> HIDE DEF v
    <3> QED  BY <2>4 DEF User
  <2> HIDE DEF u
  <2>6. req' \in [Requests -> Request] /\ ReqInv' /\ Apart(r)
    BY <2>1, ThenStep
  <2>7. users' \in [Ids -> User] /\ \A j \in Ids : users'[j] = IF j = i THEN u ELSE users[j]
    BY <2>2, <2>3, <2>5 DEF IInv, TypeOK
  <2>8. torn \subseteq torn' /\ torn' \subseteq Ids /\ (users[i].pwd # u.pwd => i \in torn')
    BY <2>1, <2>2, <2>5 DEF IInv, TypeOK
  <2>9. TypeOK'
    BY <2>1, <2>6, <2>7, <2>8 DEF IInv, TypeOK, Elsewhere
  <2>10. NextInv'
    BY <2>1, <2>5, <2>7 DEF IInv, NextInv, Live
  <2>11. RevocationHolds'
    <3>1. \A j : Revoking(j) => Revoking(j)'
      BY <2>1, <2>6, <2>8, RevokingKept
    <3>2. users[i].pwd # u.pwd => Revoking(i)'
      BY <2>8 DEF Revoking
    <3>3. \A s \in sessions : s.user \in Ids
      BY DEF IInv, TypeOK
    <3> QED  BY <2>1, <2>5, <2>7, <3>1, <3>2, <3>3, SessionsKept DEF Live
  <2> QED  BY <2>6, <2>9, <2>10, <2>11 DEF IInv
<1> QED  BY <1>1, <1>2

(* A session that is not late is of an active user and his password.        *)
LEMMA SessionStep ==
  ASSUME IInv, NEW r \in Requests, create_session(r), Elsewhere
  PROVE  IInv'
<1>1. CASE Fails(r)
  BY <1>1, FailsStep DEF create_session, At, Elsewhere
<1>2. CASE ~Fails(r)
  <2>0. PICK i \in Ids : i = Target(r)
    BY <1>2, Targeted DEF create_session, At
  <2>p. PICK pwd, late : /\ pwd = IF req[r].kind = "oidc" THEN users[i].pwd ELSE req[r].pwd
                         /\ late = Late(r)
    OBVIOUS
  <2> DEFINE s0 == [user |-> i, late |-> late, pwd |-> pwd]
  <2>1. req[r].at = "session" /\ Live(i) /\ sessions' = sessions \cup {s0}
        /\ Then(r, "idle") /\ UNCHANGED <<users, next, fresh, confirmed, torn>>
    BY <1>2, <2>0, <2>p DEF create_session, At
  <2>2. i \in Ids /\ users[i] \in User /\ req[r].pwd \in 0..MaxFresh
    BY <2>0, <2>1, Targeted
  <2>3. req' \in [Requests -> Request] /\ ReqInv' /\ Apart(r)
    BY <2>1, EndStep
  <2>4. pwd \in 0..MaxFresh /\ late \in BOOLEAN
    BY <2>2, <2>p DEF User, Late
  <2>5. s0 \in [user : Ids, pwd : 0..MaxFresh, late : BOOLEAN]
    BY <2>2, <2>4
  <2>6. TypeOK' /\ NextInv'
    <3> HIDE DEF s0
    <3> QED  BY <2>1, <2>3, <2>5 DEF IInv, TypeOK, NextInv, Live, Elsewhere
  <2>7. Live(s0.user)' /\ (s0.late \/ (users'[s0.user].active /\ s0.pwd = users'[s0.user].pwd))
    BY <2>0, <2>1, <2>p DEF Late, Live
  <2>8. \A j : Revoking(j) => Revoking(j)'
    BY <2>1, <2>3, RevokingKept
  <2> HIDE DEF s0
  <2>9. RevocationHolds'
    BY <2>1, <2>7, <2>8 DEF IInv, RevocationHolds, Live
  <2> QED  BY <2>3, <2>6, <2>9 DEF IInv
<1> QED  BY <1>1, <1>2

(* Another password: the revocation is the request's next transaction.      *)
LEMMA NewHashStep ==
  ASSUME IInv, NEW r \in Requests, NewHash(r), Elsewhere
  PROVE  IInv'
<1>1. CASE Fails(r)
  BY <1>1, FailsStep DEF NewHash, At, Elsewhere
<1>2. CASE ~Fails(r)
  <2>1. PICK i \in Ids : i = Target(r)
    BY <1>2, Targeted DEF NewHash, At
  <2> DEFINE v == [users[i] EXCEPT !.pwd = fresh + 1]
             u == [v EXCEPT !.old = FALSE]
             a == [req[r] EXCEPT !.at = "revoke"]
             q == [a EXCEPT !.pwd = fresh + 1]
  <2>2. /\ req[r].at = "hash" /\ Live(i) /\ fresh < MaxFresh
        /\ users' = [users EXCEPT ![i].pwd = fresh + 1, ![i].old = FALSE]
        /\ req' = [req EXCEPT ![r].at = "revoke", ![r].pwd = fresh + 1]
        /\ fresh' = fresh + 1 /\ UNCHANGED <<next, sessions, confirmed, torn>>
    BY <1>2, <2>1 DEF NewHash, At
  <2>3. fresh + 1 \in 0..MaxFresh /\ users[i] \in User /\ req[r] \in Request /\ req[r].user = i
    BY <2>1, <2>2, AccountsAssumption DEF IInv, TypeOK, Target
  <2>4. users' = [users EXCEPT ![i] = u] /\ req' = [req EXCEPT ![r] = q]
    BY <2>2, <2>3 DEF IInv, TypeOK
  <2>5. v \in User /\ v.live = users[i].live
    BY <2>3 DEF User
  <2>6. u \in User /\ u.live = users[i].live
    <3> HIDE DEF v
    <3> QED  BY <2>5 DEF User
  <2>7. a \in Request /\ a.at = "revoke" /\ a.user = i
    BY <2>3 DEF Request, Stages
  <2>8. q \in Request /\ q.at = "revoke" /\ q.user = i
    <3> HIDE DEF a
    <3> QED  BY <2>3, <2>7 DEF Request
  <2> HIDE DEF u, q
  <2>9. req' \in [Requests -> Request] /\ Apart(r) /\ req'[r] = q
    BY <2>4, <2>8 DEF IInv, TypeOK, Apart
  <2>10. ReqInv'
    BY <2>8, <2>9 DEF IInv, ReqInv, ReqOK, Apart
  <2>11. users' \in [Ids -> User] /\ \A j \in Ids : users'[j] = IF j = i THEN u ELSE users[j]
    BY <2>4, <2>6 DEF IInv, TypeOK
  <2>12. TypeOK' /\ NextInv'
    BY <2>2, <2>3, <2>6, <2>9, <2>11 DEF IInv, TypeOK, NextInv, Live, Elsewhere
  <2>13. RevocationHolds'
    <3>1. Revoking(i)' /\ \A j : Revoking(j) => Revoking(j)'
      BY <2>2, <2>8, <2>9, RevokingKept DEF Revoking, At, Target
    <3>2. \A s \in sessions : s.user \in Ids
      BY DEF IInv, TypeOK
    <3> QED  BY <2>2, <2>6, <2>11, <3>1, <3>2, SessionsKept DEF Live
  <2> QED  BY <2>10, <2>12, <2>13 DEF IInv
<1> QED  BY <1>1, <1>2

(* The revocation leaves its user no session to be wrong.                   *)
LEMMA RevokeStep ==
  ASSUME IInv, NEW r \in Requests, Revoke(r), Elsewhere
  PROVE  IInv'
<1>1. PICK i \in Ids : i = Target(r)
  BY Targeted DEF Revoke, At
<1>2. /\ req[r].at = "revoke" /\ sessions' = {s \in sessions : s.user # i} /\ torn' = torn \ {i}
      /\ \E stage \in {"session", "idle"} : Then(r, stage)
      /\ UNCHANGED <<users, next, fresh, confirmed>>
  BY <1>1 DEF Revoke, At, revoke_all_for_user
<1>3. req' \in [Requests -> Request] /\ ReqInv' /\ Apart(r)
  BY <1>2, ThenStep
<1>4. TypeOK' /\ NextInv'
  BY <1>2, <1>3 DEF IInv, TypeOK, NextInv, Live, Elsewhere
<1>5. \A j : j # i /\ Revoking(j) => Revoking(j)'
  BY <1>1, <1>2, <1>3 DEF Revoking, At, Target, Apart
<1>6. RevocationHolds'
  BY <1>2, <1>5, SessionsKept DEF Live
<1> QED  BY <1>3, <1>4, <1>6 DEF IInv

LEMMA SetupStep ==
  ASSUME IInv, NEW r \in Requests, Setup(r), Elsewhere
  PROVE  IInv'
<1>1. CASE Fails(r)
  BY <1>1, FailsStep DEF Setup, At, Elsewhere
<1>2. CASE ~Fails(r)
  <2>1. PICK i \in Ids : i = Target(r)
    BY <1>2, Targeted DEF Setup, At
  <2> DEFINE v == [users[i] EXCEPT !.secret = fresh + 1]
             u == [v EXCEPT !.codes = {}]
  <2>2. /\ req[r].at = "setup" /\ fresh < MaxFresh
        /\ users' = [users EXCEPT ![i].secret = fresh + 1, ![i].codes = {}]
        /\ fresh' = fresh + 1 /\ Then(r, "idle") /\ UNCHANGED <<next, sessions, confirmed, torn>>
    BY <1>2, <2>1 DEF Setup, At
  <2>3. fresh + 1 \in 0..MaxFresh /\ users[i] \in User
    BY <2>2, AccountsAssumption DEF IInv, TypeOK
  <2>4. users' = [users EXCEPT ![i] = u]
    BY <2>2, <2>3 DEF IInv, TypeOK
  <2>5. v \in User /\ v.live = users[i].live /\ v.pwd = users[i].pwd /\ v.active = users[i].active
    BY <2>3 DEF User
  <2>6. u \in User /\ u.live = users[i].live /\ u.pwd = users[i].pwd /\ u.active = users[i].active
    <3> HIDE DEF v
    <3> QED  BY <2>5 DEF User
  <2> HIDE DEF u
  <2>7. req' \in [Requests -> Request] /\ ReqInv' /\ Apart(r)
    BY <2>2, EndStep
  <2>8. fresh' \in 0..MaxFresh /\ confirmed' \in [Ids -> 0..MaxFresh]
    BY <2>2, <2>3 DEF IInv, TypeOK
  <2> QED  BY <2>2, <2>4, <2>6, <2>7, <2>8, RowStep DEF Elsewhere
<1> QED  BY <1>1, <1>2

LEMMA VerifyStep ==
  ASSUME IInv, NEW r \in Requests, Verify(r), Elsewhere
  PROVE  IInv'
<1>1. CASE Fails(r)
  BY <1>1, FailsStep DEF Verify, At, Elsewhere
<1>2. CASE ~Fails(r)
  <2>1. PICK i \in Ids : i = Target(r)
    BY <1>2, Targeted DEF Verify, At
  <2>2. PICK row, secret : row = req[r].row /\ secret = row.secret
    OBVIOUS
  <2> DEFINE v == [users[i] EXCEPT !.enabled = TRUE]
             w == [v EXCEPT !.codes = @ \cup {<<fresh + 1, secret>>}]
             u == Verified(users[i], row)
  <2>3. /\ req[r].at = "verify" /\ fresh < MaxFresh
        /\ users' = [users EXCEPT ![i] = Verified(@, row)]
        /\ confirmed' = [confirmed EXCEPT ![i] = secret]
        /\ fresh' = fresh + 1 /\ Then(r, "idle") /\ UNCHANGED <<next, sessions, torn>>
    BY <1>2, <2>1, <2>2 DEF Verify, At
  <2>4. fresh + 1 \in 1..MaxFresh /\ users[i] \in User /\ secret \in 0..MaxFresh
    <3>1. fresh \in Nat /\ MaxFresh \in Nat /\ users[i] \in User
      BY AccountsAssumption DEF IInv, TypeOK
    <3>2. req[r].row \in User
      BY <2>3, Targeted
    <3> QED  BY <2>2, <2>3, <3>1, <3>2 DEF User
  <2>5. v \in User /\ v.live = users[i].live /\ v.pwd = users[i].pwd /\ v.active = users[i].active
        /\ v.codes = users[i].codes
    BY <2>4 DEF User
  <2>6. users' = [users EXCEPT ![i] = u]
    BY <2>3
  <2>7. u \in User /\ u.live = users[i].live /\ u.pwd = users[i].pwd /\ u.active = users[i].active
    <3>1. <<fresh + 1, secret>> \in Codes
      BY <2>4 DEF Codes
    <3>2. w \in User /\ w.live = users[i].live /\ w.pwd = users[i].pwd /\ w.active = users[i].active
      <4> HIDE DEF v
      <4> QED  BY <2>5, <3>1 DEF User
    <3>3. u = w
      BY <2>2, Zenon DEF Verified
    <3> HIDE DEF u, w
    <3> QED  BY <3>2, <3>3
  <2> HIDE DEF u
  <2>8. req' \in [Requests -> Request] /\ ReqInv' /\ Apart(r)
    BY <2>3, EndStep
  <2>9. fresh' \in 0..MaxFresh /\ confirmed' \in [Ids -> 0..MaxFresh]
    BY <2>3, <2>4 DEF IInv, TypeOK
  <2> QED  BY <2>3, <2>4, <2>6, <2>7, <2>8, <2>9, RowStep DEF Elsewhere
<1> QED  BY <1>1, <1>2

LEMMA ColumnBool ==
  ASSUME NEW now \in BOOLEAN, NEW read, NEW new \in BOOLEAN
  PROVE  Column(now, read, new) \in BOOLEAN /\ (new => (now => Column(now, read, new)))
BY DEF Column

LEMMA DisableStep ==
  ASSUME IInv, NEW r \in Requests, Disable(r), Elsewhere
  PROVE  IInv'
<1>1. CASE Fails(r)
  BY <1>1, FailsStep DEF Disable, At, Elsewhere
<1>2. CASE ~Fails(r)
  <2>1. PICK i \in Ids : i = Target(r)
    BY <1>2, Targeted DEF Disable, At
  <2>2. PICK row : row = req[r].row
    OBVIOUS
  <2> DEFINE v == [users[i] EXCEPT !.enabled = Column(@, row.enabled, FALSE)]
             w == [v EXCEPT !.secret = Column(@, row.secret, None)]
             x == [w EXCEPT !.codes = {}]
             u == Disabled(users[i], row)
  <2>3. /\ req[r].at = "disable" /\ users' = [users EXCEPT ![i] = Disabled(@, row)]
        /\ Then(r, "idle") /\ Kept
    BY <1>2, <2>1, <2>2 DEF Disable, At
  <2>4. users[i] \in User /\ users[i].enabled \in BOOLEAN
    BY DEF IInv, TypeOK, User
  <2>5. v \in User /\ v.live = users[i].live /\ v.pwd = users[i].pwd /\ v.active = users[i].active
        /\ v.secret = users[i].secret
    BY <2>4, ColumnBool DEF User
  <2>6. w \in User /\ w.live = users[i].live /\ w.pwd = users[i].pwd /\ w.active = users[i].active
    <3>1. Column(v.secret, row.secret, None) \in 0..MaxFresh
      <4>1. v.secret \in 0..MaxFresh /\ None \in 0..MaxFresh
        BY <2>5, AccountsAssumption DEF User, None
      <4> QED  BY <4>1 DEF Column
    <3> HIDE DEF v
    <3> QED  BY <2>5, <3>1 DEF User
  <2>7. x \in User /\ x.live = users[i].live /\ x.pwd = users[i].pwd /\ x.active = users[i].active
    <3> HIDE DEF w
    <3> QED  BY <2>6 DEF User
  <2>8. u = x
    BY Zenon DEF Disabled
  <2> HIDE DEF u, x
  <2>9. req' \in [Requests -> Request] /\ ReqInv' /\ Apart(r)
    BY <2>3, EndStep
  <2>10. users' = [users EXCEPT ![i] = u]
    BY <2>3 DEF u
  <2>11. fresh' \in 0..MaxFresh /\ confirmed' \in [Ids -> 0..MaxFresh]
    BY <2>3 DEF Kept, IInv, TypeOK
  <2> QED  BY <2>3, <2>11, <2>7, <2>8, <2>9, <2>10, RowStep DEF Elsewhere, Kept
<1> QED  BY <1>1, <1>2

LEMMA BindStep ==
  ASSUME IInv, NEW r \in Requests, Bind(r), Elsewhere
  PROVE  IInv'
<1>1. CASE Fails(r)
  BY <1>1, FailsStep DEF Bind, At, Elsewhere
<1>2. CASE ~Fails(r)
  <2>1. PICK i \in Ids : i = Target(r)
    BY <1>2, Targeted DEF Bind, At
  <2>2. PICK subject : subject = Bound(req[r].subject)
    OBVIOUS
  <2> DEFINE u == [users[i] EXCEPT !.link = subject]
  <2>3. /\ req[r].at = "bind" /\ users' = [users EXCEPT ![i].link = subject]
        /\ Then(r, "session") /\ Kept
    BY <1>2, <2>1, <2>2 DEF Bind, At
  <2>4. users[i] \in User /\ subject \in Subjects \cup {NoSubject}
    BY <2>2 DEF IInv, TypeOK, Request, Bound
  <2>5. u \in User /\ u.live = users[i].live /\ u.pwd = users[i].pwd /\ u.active = users[i].active
    BY <2>4 DEF User
  <2>6. users' = [users EXCEPT ![i] = u]
    BY <2>3 DEF IInv, TypeOK
  <2> HIDE DEF u
  <2>7. req' \in [Requests -> Request] /\ ReqInv' /\ Apart(r)
    BY <2>3, ThenStep
  <2>8. fresh' \in 0..MaxFresh /\ confirmed' \in [Ids -> 0..MaxFresh]
    BY <2>3 DEF Kept, IInv, TypeOK
  <2> QED  BY <2>3, <2>8, <2>5, <2>6, <2>7, RowStep DEF Elsewhere, Kept
<1> QED  BY <1>1, <1>2

(* A deactivation is followed by its revocation.                            *)
LEMMA SetActiveStep ==
  ASSUME IInv, NEW r \in Requests, SetActive(r), Elsewhere
  PROVE  IInv'
<1>1. CASE Fails(r)
  BY <1>1, FailsStep DEF SetActive, At, Elsewhere
<1>2. CASE ~Fails(r)
  <2>1. PICK i \in Ids : i = Target(r)
    BY <1>2, Targeted DEF SetActive, At
  <2>2. PICK read, flag : read = req[r].row.active /\ flag = req[r].flag
    OBVIOUS
  <2> DEFINE u == [users[i] EXCEPT !.active = Column(@, read, flag)]
             stage == IF flag THEN "idle" ELSE "revoke"
  <2>3. /\ req[r].at = "active" /\ users' = [users EXCEPT ![i].active = Column(@, read, flag)]
        /\ Then(r, stage) /\ Kept
    BY <1>2, <2>1, <2>2 DEF SetActive, At
  <2>4. users[i] \in User /\ users[i].active \in BOOLEAN /\ flag \in BOOLEAN
    BY <2>2 DEF IInv, TypeOK, User, Request
  <2>5. Column(users[i].active, read, flag) \in BOOLEAN
        /\ (flag => (users[i].active => Column(users[i].active, read, flag)))
    BY <2>4, ColumnBool
  <2>6. u \in User /\ u.live = users[i].live /\ u.pwd = users[i].pwd
        /\ u.active = Column(users[i].active, read, flag)
    BY <2>4, <2>5 DEF User
  <2>7. users' = [users EXCEPT ![i] = u]
    BY <2>3 DEF IInv, TypeOK
  <2> HIDE DEF u
  <2>8. /\ req' \in [Requests -> Request] /\ ReqInv' /\ Apart(r)
        /\ ~flag => req'[r].at = "revoke" /\ req'[r].user = i
    BY <2>1, <2>3, ThenStep DEF Target
  <2>9. users[i].active => u.active \/ Revoking(i)'
    BY <2>4, <2>5, <2>6, <2>8 DEF Revoking, At, Target
  <2>10. fresh' \in 0..MaxFresh /\ confirmed' \in [Ids -> 0..MaxFresh]
    BY <2>3 DEF Kept, IInv, TypeOK
  <2> QED  BY <2>3, <2>10, <2>6, <2>7, <2>8, <2>9, RowStep DEF Elsewhere, Kept
<1> QED  BY <1>1, <1>2

LEMMA SetAdminStep ==
  ASSUME IInv, NEW r \in Requests, SetAdmin(r), Elsewhere
  PROVE  IInv'
<1>1. CASE Fails(r)
  BY <1>1, FailsStep DEF SetAdmin, At, Elsewhere
<1>2. CASE ~Fails(r)
  <2>1. PICK i \in Ids : i = Target(r)
    BY <1>2, Targeted DEF SetAdmin, At
  <2>2. PICK read, flag : read = req[r].row.admin /\ flag = req[r].flag
    OBVIOUS
  <2> DEFINE u == [users[i] EXCEPT !.admin = Column(@, read, flag)]
  <2>3. /\ req[r].at = "admin" /\ users' = [users EXCEPT ![i].admin = Column(@, read, flag)]
        /\ Then(r, "idle") /\ Kept
    BY <1>2, <2>1, <2>2 DEF SetAdmin, At
  <2>4. users[i] \in User /\ users[i].admin \in BOOLEAN /\ flag \in BOOLEAN
    BY <2>2 DEF IInv, TypeOK, User, Request
  <2>5. Column(users[i].admin, read, flag) \in BOOLEAN
    BY <2>4, ColumnBool
  <2>6. u \in User /\ u.live = users[i].live /\ u.pwd = users[i].pwd /\ u.active = users[i].active
    BY <2>4, <2>5 DEF User
  <2>7. users' = [users EXCEPT ![i] = u]
    BY <2>3 DEF IInv, TypeOK
  <2> HIDE DEF u
  <2>8. req' \in [Requests -> Request] /\ ReqInv' /\ Apart(r)
    BY <2>3, EndStep
  <2>9. fresh' \in 0..MaxFresh /\ confirmed' \in [Ids -> 0..MaxFresh]
    BY <2>3 DEF Kept, IInv, TypeOK
  <2> QED  BY <2>3, <2>9, <2>6, <2>7, <2>8, RowStep DEF Elsewhere, Kept
<1> QED  BY <1>1, <1>2

LEMMA DeleteStep ==
  ASSUME IInv, NEW r \in Requests, Delete(r), Elsewhere
  PROVE  IInv'
<1>1. PICK i \in Ids : i = Target(r)
  BY Targeted DEF Delete, At
<1>2. /\ req[r].at = "delete" /\ Then(r, "idle") /\ users' = [users EXCEPT ![i] = Unborn]
      /\ sessions' = {s \in sessions : s.user # i} /\ torn' = torn \ {i}
      /\ UNCHANGED <<next, fresh, confirmed>>
  BY <1>1 DEF Delete, At
<1>3. req' \in [Requests -> Request] /\ ReqInv' /\ Apart(r)
  BY <1>2, EndStep
<1>4. users' \in [Ids -> User] /\ (\A j \in Ids : users'[j] = IF j = i THEN Unborn ELSE users[j])
      /\ ~Unborn.live
  BY <1>2, UnbornType DEF IInv, TypeOK, Unborn
<1>5. TypeOK' /\ NextInv'
  BY <1>2, <1>3, <1>4 DEF IInv, TypeOK, NextInv, Live, Elsewhere
<1>6. \A j : j # i /\ Revoking(j) => Revoking(j)'
  BY <1>1, <1>2, <1>3 DEF Revoking, At, Target, Apart
<1>7. RevocationHolds'
  <2>1. \A s \in sessions' : s.user \in Ids \ {i}
    BY <1>2 DEF IInv, TypeOK
  <2> QED  BY <1>2, <1>4, <1>6, <2>1, SessionsKept DEF Live
<1> QED  BY <1>3, <1>5, <1>7 DEF IInv

-------------------------------------------------------------------------------
(* The invariant.                                                           *)

LEMMA Initially == Init => IInv
<1> SUFFICES ASSUME Init PROVE IInv
  OBVIOUS
<1>1. PICK n \in Nat : Settled(users) = 1..n
  BY AccountsAssumption DEF Init
<1>2. users \in [Ids -> User] /\ next = n + 1
  <2>1. Cardinality(1..n) = n
    BY FS_Interval
  <2> QED  BY <1>1, <2>1, AccountsAssumption DEF Init
<1>3. sessions \subseteq [user : Ids, pwd : 0..MaxFresh, late : BOOLEAN]
  <2>1. ASSUME NEW i \in Settled(users)
        PROVE  [user |-> i, pwd |-> users[i].pwd, late |-> FALSE] \in [user : Ids, pwd : 0..MaxFresh, late : BOOLEAN]
    BY <1>2 DEF Settled, User
  <2> QED  BY <2>1 DEF Init
<1>4. pending \in 0..spent.requests /\ spent \in [requests : 0..MaxRequests, restarts : 0..MaxRestarts]
  BY AccountsAssumption DEF Init
<1>5. fresh \in 0..MaxFresh /\ confirmed \in [Ids -> 0..MaxFresh]
  BY AccountsAssumption DEF Init, None
<1>6. TypeOK
  BY <1>2, <1>3, <1>4, <1>5, IdleType DEF Init, TypeOK
<1>7. NextInv
  BY <1>1, <1>2 DEF NextInv, Live, Settled
<1>8. ReqInv
  BY DEF Init, ReqInv, ReqOK, Idle
<1>9. RevocationHolds
  BY DEF Init, RevocationHolds, Settled, Live
<1> QED  BY <1>6, <1>7, <1>8, <1>9 DEF IInv

LEMMA CommitStep ==
  ASSUME IInv, NEW r \in Requests, Commit(r)
  PROVE  IInv'
<1>1. Elsewhere
  BY DEF Commit, Elsewhere
<1> QED
  BY <1>1, InsertStep, ConsumeStep, RehashStep, SessionStep, NewHashStep, RevokeStep, SetupStep,
     VerifyStep, DisableStep, BindStep, SetActiveStep, SetAdminStep, DeleteStep DEF Commit

LEMMA AdministrationStep ==
  ASSUME IInv, NEW r \in Requests, Administration(r)
  PROVE  IInv'
BY CreateStep, AdminAskStep DEF Administration

(* The steps that are no request's.                                         *)
LEMMA OtherStep ==
  ASSUME IInv, \/ oidc_login \/ oidc_refused \/ edit_provider
               \/ \E s \in sessions : revoke_session(s)
               \/ Restart \/ UNCHANGED vars
  PROVE  IInv'
<1>1. CASE oidc_login
  <2>1. TypeOK'
    BY <1>1, SpendStep DEF oidc_login, IInv, TypeOK
  <2> QED  BY <1>1, <2>1 DEF oidc_login, IInv, NextInv, ReqInv, RevocationHolds, Live, Revoking, At, Target
<1>2. CASE oidc_refused
  <2>1. TypeOK'
    BY <1>2 DEF oidc_refused, IInv, TypeOK
  <2> QED  BY <1>2, <2>1 DEF oidc_refused, IInv, NextInv, ReqInv, RevocationHolds, Live, Revoking, At, Target
<1>3. CASE edit_provider
  <2>1. TypeOK'
    BY <1>3, SpendStep DEF edit_provider, IInv, TypeOK
  <2> QED  BY <1>3, <2>1 DEF edit_provider, IInv, NextInv, ReqInv, RevocationHolds, Live, Revoking, At, Target
<1>4. CASE \E s \in sessions : revoke_session(s)
  <2>1. TypeOK' /\ sessions' \subseteq sessions
    BY <1>4 DEF revoke_session, IInv, TypeOK
  <2> QED  BY <1>4, <2>1 DEF revoke_session, IInv, NextInv, ReqInv, RevocationHolds, Live, Revoking, At, Target
<1>5. CASE Restart
  <2>1. \A r \in Requests : At(r, "revoke") => Target(r) \in Ids
    BY Targeted DEF At
  <2>2. TypeOK'
    <3>1. spent' \in [requests : 0..MaxRequests, restarts : 0..MaxRestarts]
          /\ spent'.requests = spent.requests /\ spent.requests \in Nat
      <4>1. spent \in [requests : 0..MaxRequests, restarts : 0..MaxRestarts]
            /\ MaxRequests \in Nat /\ MaxRestarts \in Nat
        BY AccountsAssumption DEF IInv, TypeOK
      <4>2. spent.restarts + 1 \in 0..MaxRestarts /\ spent.requests \in Nat
        BY <1>5, <4>1 DEF Restart
      <4>3. spent' = [spent EXCEPT !.restarts = spent.restarts + 1]
        BY <1>5 DEF Restart
      <4> QED  BY <4>1, <4>2, <4>3
    <3>2. req' \in [Requests -> Request]
      BY <1>5, IdleType DEF Restart
    <3>3. torn' \subseteq Ids
      BY <1>5, <2>1 DEF Restart, IInv, TypeOK
    <3> QED  BY <1>5, <3>1, <3>2, <3>3 DEF Restart, IInv, TypeOK
  <2>3. ReqInv'
    BY <1>5 DEF Restart, ReqInv, ReqOK, Idle
  <2>4. NextInv'
    BY <1>5 DEF Restart, IInv, NextInv, Live
  <2>5. RevocationHolds'
    <3>1. \A i : Revoking(i) => i \in torn'
      BY <1>5 DEF Restart, Revoking
    <3>2. \A i : Revoking(i) => Revoking(i)'
      BY <3>1 DEF Revoking
    <3> QED  BY <1>5, <3>2, SessionsKept DEF Restart, Live
  <2> QED  BY <2>2, <2>3, <2>4, <2>5 DEF IInv
<1>6. CASE UNCHANGED vars
  BY <1>6 DEF vars, IInv, TypeOK, NextInv, ReqInv, RevocationHolds, Live, Revoking, At, Target
<1> QED  BY <1>1, <1>2, <1>3, <1>4, <1>5, <1>6

LEMMA Inductive ==
  ASSUME IInv, [Next]_vars
  PROVE  IInv'
<1>1. CASE \E r \in Requests : SignIn(r)
  BY <1>1, SignupStep, CallbackStep, LoginStep DEF SignIn
<1>2. CASE \E r \in Requests : Profile(r) \/ Administration(r) \/ Commit(r)
  BY <1>2, ProfileStep, AdministrationStep, CommitStep
<1> QED  BY <1>1, <1>2, OtherStep DEF Next

LEMMA Always == Spec => []IInv
<1>1. IInv /\ [Next]_vars => IInv'
  BY Inductive
<1> QED  BY Initially, <1>1, PTL DEF Spec

-------------------------------------------------------------------------------
(* What a step does to the rights, the link and the second factor of a user.*)

SameRights(j) ==
  users'[j].live = users[j].live /\ users'[j].active = users[j].active /\ users'[j].admin = users[j].admin
SameLink(j) == users'[j].link = users[j].link
SameFactor(j) ==
  /\ users'[j].secret = users[j].secret /\ users'[j].enabled = users[j].enabled
  /\ users'[j].codes = users[j].codes /\ confirmed'[j] = confirmed[j]
Same(j) == SameRights(j) /\ SameLink(j) /\ SameFactor(j)

LEMMA SameSame ==
  ASSUME IInv, UNCHANGED <<users, confirmed>>
  PROVE  \A j \in Ids : Same(j)
BY DEF Same, SameRights, SameLink, SameFactor

(* Only a transaction changes users, and the request it belongs to moves.   *)
LEMMA OnlyCommits ==
  ASSUME IInv, [Next]_vars, ~\E r \in Requests : Commit(r)
  PROVE  UNCHANGED <<users, confirmed>>
<1>1. ASSUME NEW r \in Requests, NEW q, Ask(r, q) PROVE UNCHANGED <<users, confirmed>>
  BY <1>1 DEF Ask
<1>2. ASSUME NEW r \in Requests, SignIn(r) PROVE UNCHANGED <<users, confirmed>>
  BY <1>1, <1>2 DEF SignIn, signup_first, oidc_callback, login
<1>3. ASSUME NEW r \in Requests, Profile(r) PROVE UNCHANGED <<users, confirmed>>
  BY <1>1, <1>3 DEF Profile, change_password, totp_setup, totp_verify, totp_disable
<1>4. ASSUME NEW r \in Requests, Administration(r) PROVE UNCHANGED <<users, confirmed>>
  BY <1>1, <1>4 DEF Administration, create_user, set_active, set_admin, delete_user
<1>5. CASE oidc_login \/ oidc_refused \/ edit_provider \/ Restart \/ UNCHANGED vars
           \/ \E s \in sessions : revoke_session(s)
  BY <1>5 DEF oidc_login, oidc_refused, edit_provider, Restart, vars, revoke_session
<1> QED  BY <1>2, <1>3, <1>4, <1>5 DEF Next

LEMMA Moves ==
  ASSUME IInv, NEW r \in Requests, Then(r, "idle") \/ Then(r, "revoke") \/ Then(r, "session"),
         req[r].at \in {"active", "admin", "delete", "bind", "setup", "verify", "disable"}
  PROVE  req'[r] # req[r]
BY DEF Then, IInv, TypeOK, Request, Idle

LEMMA InsertEffect ==
  ASSUME IInv, NEW r \in Requests, Insert(r)
  PROVE  \A j \in Ids : Live(j) => Same(j)
<1>1. CASE Fails(r)
  BY <1>1, SameSame DEF Fails
<1>2. CASE ~Fails(r)
  <2>1. \E u : users' = [users EXCEPT ![next] = u] /\ next \in Ids /\ confirmed' = confirmed
    BY <1>2 DEF Insert
  <2>2. ~Live(next) \/ next \notin Ids
    BY DEF IInv, TypeOK, NextInv
  <2>3. \A j \in Ids : j # next => users'[j] = users[j] /\ confirmed'[j] = confirmed[j]
    BY <2>1 DEF IInv, TypeOK
  <2> QED  BY <2>1, <2>2, <2>3 DEF Same, SameRights, SameLink, SameFactor
<1> QED  BY <1>1, <1>2

(* Passwords, sessions and the consumption of a code.                       *)
LEMMA QuietEffect ==
  ASSUME IInv, NEW r \in Requests, Rehash(r) \/ NewHash(r) \/ create_session(r) \/ Revoke(r)
  PROVE  \A j \in Ids : Same(j)
<1>1. CASE UNCHANGED <<users, confirmed>>
  BY <1>1, SameSame
<1>2. CASE ~UNCHANGED <<users, confirmed>>
  <2>1. PICK i, pwd : users' = [users EXCEPT ![i].pwd = pwd, ![i].old = FALSE] /\ confirmed' = confirmed
    BY <1>2 DEF Rehash, NewHash, create_session, Revoke, Fails
  <2>2. users \in [Ids -> User]
    BY DEF IInv, TypeOK
  <2> QED  BY <2>1, <2>2 DEF User, Same, SameRights, SameLink, SameFactor
<1> QED  BY <1>1, <1>2

LEMMA ConsumeEffect ==
  ASSUME IInv, NEW r \in Requests, Consume(r)
  PROVE  \A j \in Ids : /\ SameRights(j) /\ SameLink(j)
                        /\ users'[j].secret = users[j].secret /\ users'[j].enabled = users[j].enabled
                        /\ users'[j].codes \subseteq users[j].codes /\ confirmed'[j] = confirmed[j]
<1>1. PICK i, c : users' = [users EXCEPT ![i].codes = @ \ {c}] /\ confirmed' = confirmed
  BY DEF Consume, Kept
<1>2. users \in [Ids -> User]
  BY DEF IInv, TypeOK
<1> QED  BY <1>1, <1>2 DEF User, SameRights, SameLink

(* The transactions of an enrolment.                                        *)
LEMMA FactorEffect ==
  ASSUME IInv, NEW r \in Requests, Setup(r) \/ Verify(r) \/ Disable(r)
  PROVE  /\ \A j \in Ids : SameRights(j) /\ SameLink(j) /\ (j # Target(r) => SameFactor(j))
         /\ \/ SameFactor(Target(r))
            \/ LET i == Target(r)  row == req[r].row
               IN  /\ req'[r] # req[r]
                   /\ \/ At(r, "setup") /\ users'[i].codes = {} /\ users'[i].enabled = users[i].enabled
                      \/ /\ At(r, "verify") /\ users'[i].enabled /\ users'[i].secret = users[i].secret
                         /\ confirmed'[i] = row.secret
                         /\ \E n : users'[i].codes = users[i].codes \cup {<<n, row.secret>>}
                      \/ /\ At(r, "disable") /\ users'[i].codes = {}
                         /\ users'[i].enabled = Column(users[i].enabled, row.enabled, FALSE)
<1>1. PICK i \in Ids : i = Target(r)
  BY Targeted DEF Setup, Verify, Disable, At
<1>2. users \in [Ids -> User] /\ confirmed \in [Ids -> 0..MaxFresh] /\ users[i] \in User
  BY DEF IInv, TypeOK
<1>3. CASE Fails(r)
  <2>1. \A j \in Ids : Same(j)
    BY <1>3, SameSame DEF Fails
  <2> QED  BY <1>1, <2>1 DEF Same
<1>4. CASE Setup(r) /\ ~Fails(r)
  <2>1. /\ users' = [users EXCEPT ![i].secret = fresh + 1, ![i].codes = {}]
        /\ confirmed' = confirmed /\ At(r, "setup") /\ Then(r, "idle")
    BY <1>1, <1>4 DEF Setup
  <2>2. /\ \A j \in Ids : SameRights(j) /\ SameLink(j) /\ (j # i => SameFactor(j))
        /\ users'[i].codes = {} /\ users'[i].enabled = users[i].enabled
    BY <1>2, <2>1 DEF User, SameRights, SameLink, SameFactor
  <2>3. req'[r] # req[r]
    BY <2>1, Moves DEF At
  <2> QED  BY <1>1, <2>1, <2>2, <2>3
<1>5. CASE Verify(r) /\ ~Fails(r)
  <2>1. PICK row, n : row = req[r].row /\ n = fresh + 1
    OBVIOUS
  <2>2. PICK u : u = [users[i] EXCEPT !.enabled = TRUE, !.codes = @ \cup {<<n, row.secret>>}]
    OBVIOUS
  <2>3. /\ users' = [users EXCEPT ![i] = u]
        /\ confirmed' = [confirmed EXCEPT ![i] = row.secret] /\ At(r, "verify") /\ Then(r, "idle")
    BY <1>1, <1>5, <2>1, <2>2 DEF Verify, Verified
  <2>4. /\ u.live = users[i].live /\ u.active = users[i].active /\ u.admin = users[i].admin
        /\ u.link = users[i].link /\ u.secret = users[i].secret /\ u.enabled
        /\ u.codes = users[i].codes \cup {<<n, row.secret>>}
    BY <1>2, <2>2 DEF User
  <2>5. \A j \in Ids : users'[j] = (IF j = i THEN u ELSE users[j])
                       /\ confirmed'[j] = IF j = i THEN row.secret ELSE confirmed[j]
    BY <1>2, <2>3
  <2>6. \A j \in Ids : SameRights(j) /\ SameLink(j) /\ (j # i => SameFactor(j))
    BY <2>4, <2>5 DEF SameRights, SameLink, SameFactor
  <2>7. req'[r] # req[r]
    BY <2>3, Moves DEF At
  <2> QED  BY <1>1, <2>1, <2>3, <2>4, <2>5, <2>6, <2>7
<1>6. CASE Disable(r) /\ ~Fails(r)
  <2>1. PICK row : row = req[r].row
    OBVIOUS
  <2>2. PICK u : u = Disabled(users[i], row)
    OBVIOUS
  <2>3. users' = [users EXCEPT ![i] = u] /\ confirmed' = confirmed /\ At(r, "disable") /\ Then(r, "idle")
    BY <1>1, <1>6, <2>1, <2>2 DEF Disable, Kept
  <2>4. /\ u.live = users[i].live /\ u.active = users[i].active /\ u.admin = users[i].admin
        /\ u.link = users[i].link /\ u.codes = {}
        /\ u.enabled = Column(users[i].enabled, row.enabled, FALSE)
    BY <1>2, <2>2 DEF User, Disabled
  <2>5. \A j \in Ids : users'[j] = IF j = i THEN u ELSE users[j]
    BY <1>2, <2>3
  <2>6. \A j \in Ids : SameRights(j) /\ SameLink(j) /\ (j # i => SameFactor(j))
    BY <2>3, <2>4, <2>5 DEF SameRights, SameLink, SameFactor
  <2>7. req'[r] # req[r]
    BY <2>3, Moves DEF At
  <2> QED  BY <1>1, <2>1, <2>3, <2>4, <2>5, <2>6, <2>7
<1> QED  BY <1>3, <1>4, <1>5, <1>6

LEMMA BindEffect ==
  ASSUME IInv, NEW r \in Requests, Bind(r)
  PROVE  /\ \A j \in Ids : SameRights(j) /\ SameFactor(j) /\ (j # Target(r) => SameLink(j))
         /\ SameLink(Target(r)) \/ (At(r, "bind") /\ req'[r] # req[r])
<1>1. PICK i \in Ids : i = Target(r)
  BY Targeted DEF Bind, At
<1>2. CASE Fails(r)
  <2>1. \A j \in Ids : Same(j)
    BY <1>2, SameSame DEF Fails
  <2> QED  BY <1>1, <2>1 DEF Same
<1>3. CASE ~Fails(r)
  <2>1. PICK s : users' = [users EXCEPT ![i].link = s] /\ confirmed' = confirmed
                 /\ At(r, "bind") /\ Then(r, "session")
    BY <1>1, <1>3 DEF Bind, Kept
  <2>2. \A j \in Ids : SameRights(j) /\ SameFactor(j) /\ (j # i => SameLink(j))
    BY <2>1 DEF IInv, TypeOK, User, SameRights, SameLink, SameFactor
  <2>3. req'[r] # req[r]
    BY <2>1, Moves DEF At
  <2> QED  BY <1>1, <2>1, <2>2, <2>3
<1> QED  BY <1>2, <1>3

(* A right is taken away only by a request that says so.                    *)
LEMMA RightsEffect ==
  ASSUME IInv, NEW r \in Requests, SetActive(r) \/ SetAdmin(r)
  PROVE  /\ \A j \in Ids : /\ SameLink(j) /\ SameFactor(j) /\ users'[j].live = users[j].live
                           /\ j # Target(r) \/ req[r].flag => (users[j].active => users'[j].active)
                                                              /\ (users[j].admin => users'[j].admin)
         /\ (\A j \in Ids : Same(j)) \/ (req[r].at \in {"active", "admin"} /\ req'[r] # req[r])
<1>1. PICK i \in Ids : i = Target(r)
  BY Targeted DEF SetActive, SetAdmin, At
<1>2. CASE Fails(r)
  <2>1. \A j \in Ids : Same(j)
    BY <1>2, SameSame DEF Fails
  <2> QED  BY <2>1 DEF Same, SameRights
<1>3. PICK flag \in BOOLEAN : flag = req[r].flag
  BY DEF IInv, TypeOK, Request
<1>4. CASE SetActive(r) /\ ~Fails(r)
  <2>1. PICK a : a = Column(users[i].active, req[r].row.active, flag)
    OBVIOUS
  <2>2. /\ users' = [users EXCEPT ![i].active = a] /\ confirmed' = confirmed /\ At(r, "active")
        /\ Then(r, "idle") \/ Then(r, "revoke")
    BY <1>1, <1>3, <1>4, <2>1 DEF SetActive, Kept
  <2>3. users[i].active \in BOOLEAN /\ (flag => (users[i].active => a))
    BY <1>3, <2>1, ColumnBool DEF IInv, TypeOK, User
  <2>4. \A j \in Ids : /\ SameLink(j) /\ SameFactor(j) /\ users'[j].live = users[j].live
                       /\ users'[j].admin = users[j].admin
                       /\ users'[j].active = IF j = i THEN a ELSE users[j].active
    BY <2>2 DEF IInv, TypeOK, User, SameLink, SameFactor
  <2>5. req'[r] # req[r]
    BY <2>2, Moves DEF At
  <2> QED  BY <1>1, <1>3, <2>2, <2>3, <2>4, <2>5 DEF At
<1>5. CASE SetAdmin(r) /\ ~Fails(r)
  <2>1. PICK a : a = Column(users[i].admin, req[r].row.admin, flag)
    OBVIOUS
  <2>2. /\ users' = [users EXCEPT ![i].admin = a] /\ confirmed' = confirmed /\ At(r, "admin")
        /\ Then(r, "idle")
    BY <1>1, <1>3, <1>5, <2>1 DEF SetAdmin, Kept
  <2>3. users[i].admin \in BOOLEAN /\ (flag => (users[i].admin => a))
    BY <1>3, <2>1, ColumnBool DEF IInv, TypeOK, User
  <2>4. \A j \in Ids : /\ SameLink(j) /\ SameFactor(j) /\ users'[j].live = users[j].live
                       /\ users'[j].active = users[j].active
                       /\ users'[j].admin = IF j = i THEN a ELSE users[j].admin
    BY <2>2 DEF IInv, TypeOK, User, SameLink, SameFactor
  <2>5. req'[r] # req[r]
    BY <2>2, Moves DEF At
  <2> QED  BY <1>1, <1>3, <2>2, <2>3, <2>4, <2>5 DEF At
<1> QED  BY <1>2, <1>4, <1>5

LEMMA DeleteEffect ==
  ASSUME IInv, NEW r \in Requests, Delete(r)
  PROVE  /\ At(r, "delete") /\ req'[r] # req[r]
         /\ \A j \in Ids : IF j = Target(r) THEN users'[j] = Unborn ELSE Same(j)
<1>1. At(r, "delete") /\ req'[r] # req[r]
  BY Moves DEF Delete, At
<1>2. users \in [Ids -> User] /\ users' = [users EXCEPT ![Target(r)] = Unborn] /\ confirmed' = confirmed
  BY DEF Delete, IInv, TypeOK
<1>3. \A j \in Ids : users'[j] = IF j = Target(r) THEN Unborn ELSE users[j]
  BY <1>2
<1> QED  BY <1>1, <1>2, <1>3 DEF Same, SameRights, SameLink, SameFactor

-------------------------------------------------------------------------------
(* The steps of the three action properties.                                *)

LEMMA StaysAdministrator ==
  ASSUME NEW j \in Administrators, users'[j].live = users[j].live,
         users[j].active => users'[j].active, users[j].admin => users'[j].admin
  PROVE  j \in Administrators'
BY DEF Administrators, Live

(* An administrator who acts is not the one he acts on: while he keeps his  *)
(* right, he is an administrator after the step.                            *)
LEMMA RemovedStep ==
  ASSUME IInv, [Next]_vars
  PROVE  RemovedByFormer
<1> SUFFICES ASSUME NEW a \in Administrators, Administrators' = {},
                    ~\E r \in Requests : Commits(r, {"active", "admin", "delete"}) /\ req[r].actor \notin Administrators
             PROVE  FALSE
  BY DEF RemovedByFormer
<1>1. a \in Ids /\ Live(a)
  BY DEF Administrators
<1>2. CASE ~\E r \in Requests : Commit(r)
  <2>1. UNCHANGED users
    BY <1>2, OnlyCommits
  <2> QED  BY <2>1, StaysAdministrator
<1>3. ASSUME NEW r \in Requests, SameRights(a) PROVE FALSE
  BY <1>3, StaysAdministrator DEF SameRights
<1>4. ASSUME NEW r \in Requests, Commit(r) PROVE FALSE
  <2>1. CASE Insert(r)
    BY <2>1, <1>1, <1>3, InsertEffect DEF Same
  <2>2. CASE Rehash(r) \/ NewHash(r) \/ create_session(r) \/ Revoke(r)
    BY <2>2, <1>1, <1>3, QuietEffect DEF Same
  <2>3. CASE Consume(r)
    BY <2>3, <1>1, <1>3, ConsumeEffect
  <2>4. CASE Setup(r) \/ Verify(r) \/ Disable(r)
    BY <2>4, <1>1, <1>3, FactorEffect
  <2>5. CASE Bind(r)
    BY <2>5, <1>1, <1>3, BindEffect
  <2>6. ASSUME req[r].at \in {"active", "admin", "delete"}, req'[r] # req[r]
        PROVE  req[r].actor \in Administrators /\ req[r].actor \in Ids
    BY <2>6 DEF Commits, Administrators
  <2>7. CASE SetActive(r) \/ SetAdmin(r)
    <3>1. ~SameRights(a)
      BY <1>3
    <3>2. req[r].at \in {"active", "admin"} /\ req'[r] # req[r]
      BY <2>7, <3>1, <1>1, RightsEffect DEF Same
    <3>3. CASE req[r].flag
      BY <2>7, <3>3, <1>1, RightsEffect, StaysAdministrator
    <3>4. CASE ~req[r].flag
      <4>1. PICK b : b = req[r].actor
        OBVIOUS
      <4>2. b \in Administrators /\ b \in Ids
        BY <4>1, <3>2, <2>6
      <4>3. b # Target(r)
        BY <4>1, <3>2, <3>4 DEF IInv, ReqInv, ReqOK, Target
      <4> QED  BY <2>7, <4>2, <4>3, RightsEffect, StaysAdministrator
    <3> QED  BY <3>3, <3>4
  <2>8. CASE Delete(r)
    <3>1. req[r].at = "delete" /\ req'[r] # req[r]
      BY <2>8, DeleteEffect DEF At
    <3>2. PICK b : b = req[r].actor
      OBVIOUS
    <3>3. b \in Administrators /\ b \in Ids /\ b # Target(r)
      BY <3>1, <3>2, <2>6 DEF IInv, ReqInv, ReqOK, Target
    <3>4. SameRights(b)
      BY <2>8, <3>3, DeleteEffect DEF Same
    <3> QED  BY <3>3, <3>4, StaysAdministrator DEF SameRights
  <2> QED  BY <1>4, <2>1, <2>2, <2>3, <2>4, <2>5, <2>7, <2>8 DEF Commit
<1> QED  BY <1>2, <1>4

(* An enrolment that nobody has overtaken writes over the factor it read:   *)
(* none for setup and verify, and an enabled one goes with disable.         *)
LEMMA BrokenStep ==
  ASSUME IInv, [Next]_vars
  PROVE  BrokenByOvertaken
<1> SUFFICES ASSUME NEW j \in Ids, Enrolled(j), Live(j),
                    ~\E r \in Requests : Commits(r, {"setup", "verify", "disable"}) /\ Overtaken(r)
             PROVE  Enrolled(j)'
  BY DEF BrokenByOvertaken
<1>1. ASSUME SameFactor(j) PROVE Enrolled(j)'
  BY <1>1 DEF SameFactor, Enrolled
<1>2. CASE ~\E r \in Requests : Commit(r)
  BY <1>1, <1>2, OnlyCommits, SameSame DEF Same
<1>3. ASSUME NEW r \in Requests, Commit(r) PROVE Enrolled(j)'
  <2>1. CASE Insert(r)
    BY <2>1, <1>1, InsertEffect DEF Same
  <2>2. CASE Rehash(r) \/ NewHash(r) \/ create_session(r) \/ Revoke(r)
    BY <2>2, <1>1, QuietEffect DEF Same
  <2>3. CASE Consume(r)
    BY <2>3, ConsumeEffect DEF Enrolled
  <2>4. CASE (Setup(r) \/ Verify(r) \/ Disable(r)) /\ ~SameFactor(j)
    <3>1. j = Target(r)
      BY <2>4, FactorEffect
    <3>2. PICK row : row = req[r].row
      OBVIOUS
    <3>3. /\ req'[r] # req[r]
          /\ \/ At(r, "setup") /\ users'[j].codes = {} /\ users'[j].enabled = users[j].enabled
             \/ /\ At(r, "verify") /\ users'[j].enabled /\ users'[j].secret = users[j].secret
                /\ confirmed'[j] = row.secret
                /\ \E n : users'[j].codes = users[j].codes \cup {<<n, row.secret>>}
             \/ /\ At(r, "disable") /\ users'[j].codes = {}
                /\ users'[j].enabled = Column(users[j].enabled, row.enabled, FALSE)
      BY <2>4, <3>1, <3>2, FactorEffect
    <3>4. users[j].secret = row.secret /\ users[j].enabled = row.enabled
      BY <3>1, <3>2, <3>3 DEF Commits, Overtaken, At
    <3>5. users[j].enabled \in BOOLEAN
      BY DEF IInv, TypeOK, User
    <3>6. CASE At(r, "setup") /\ users'[j].codes = {} /\ users'[j].enabled = users[j].enabled
      <4>1. ~row.enabled
        BY <3>2, <3>6 DEF At, IInv, ReqInv, ReqOK
      <4> QED  BY <3>4, <3>6, <4>1 DEF Enrolled
    <3>7. CASE At(r, "verify") /\ users'[j].enabled /\ users'[j].secret = users[j].secret
               /\ confirmed'[j] = row.secret
               /\ \E n : users'[j].codes = users[j].codes \cup {<<n, row.secret>>}
      <4>1. ~row.enabled /\ row.secret # None
        BY <3>2, <3>7 DEF At, IInv, ReqInv, ReqOK
      <4>2. users[j].codes = {}
        BY <3>4, <4>1 DEF Enrolled
      <4> QED  BY <3>4, <3>7, <4>1, <4>2 DEF Enrolled
    <3>8. CASE users'[j].codes = {} /\ users'[j].enabled = Column(users[j].enabled, row.enabled, FALSE)
      <4>1. ~users'[j].enabled
        BY <3>4, <3>5, <3>8 DEF Column
      <4> QED  BY <3>8, <4>1 DEF Enrolled
    <3> QED  BY <3>3, <3>6, <3>7, <3>8
  <2>5. CASE Bind(r)
    BY <2>5, <1>1, BindEffect
  <2>6. CASE SetActive(r) \/ SetAdmin(r)
    BY <2>6, <1>1, RightsEffect
  <2>7. CASE Delete(r)
    <3>1. users'[j] = Unborn \/ SameFactor(j)
      BY <2>7, DeleteEffect DEF Same
    <3> QED  BY <3>1, <1>1 DEF Unborn, Enrolled
  <2> QED  BY <1>1, <1>3, <2>1, <2>2, <2>3, <2>4, <2>5, <2>6, <2>7 DEF Commit
<1> QED  BY <1>2, <1>3

(* A callback binds only an account it has read without a link.             *)
LEMMA RelinkedStep ==
  ASSUME IInv, [Next]_vars
  PROVE  RelinkedByCrossing
<1> SUFFICES ASSUME NEW j \in Ids, Live(j), Live(j)', users[j].link # NoSubject, ~SameLink(j)
             PROVE  \E r \in Requests : Commits(r, {"bind"}) /\ req[r].row.link # users[j].link
  BY DEF RelinkedByCrossing, SameLink
<1>1. CASE ~\E r \in Requests : Commit(r)
  BY <1>1, OnlyCommits DEF SameLink
<1>2. ASSUME NEW r \in Requests, Commit(r)
      PROVE  Commits(r, {"bind"}) /\ req[r].row.link # users[j].link
  <2>1. ~Insert(r)
    BY InsertEffect DEF Same
  <2>2. ~(Rehash(r) \/ NewHash(r) \/ create_session(r) \/ Revoke(r))
    BY QuietEffect DEF Same
  <2>3. ~Consume(r)
    BY ConsumeEffect
  <2>4. ~(Setup(r) \/ Verify(r) \/ Disable(r))
    BY FactorEffect
  <2>5. ~(SetActive(r) \/ SetAdmin(r))
    BY RightsEffect
  <2>6. ~Delete(r)
    <3>1. Unborn.live = FALSE
      BY DEF Unborn
    <3> QED  BY <3>1, DeleteEffect DEF Same, Live
  <2>7. Bind(r)
    BY <1>2, <2>1, <2>2, <2>3, <2>4, <2>5, <2>6 DEF Commit
  <2>8. At(r, "bind") /\ req'[r] # req[r]
    BY <2>7, BindEffect
  <2> QED  BY <2>8 DEF Commits, At, IInv, ReqInv, ReqOK
<1> QED  BY <1>1, <1>2

-------------------------------------------------------------------------------
(* The variables stay in their types.                                       *)
THEOREM AccountsTypeCorrect == Spec => []TypeOK
<1>1. IInv => TypeOK
  BY DEF IInv
<1> QED  BY Always, <1>1, PTL

(* A session that is open belongs to an active user and was opened under    *)
(* his password, but for the races RevocationHolds names.                   *)
THEOREM RevocationAlwaysHolds == Spec => []RevocationHolds
<1>1. IInv => RevocationHolds
  BY DEF IInv
<1> QED  BY Always, <1>1, PTL

(* The last administrator is removed only by one who was an administrator   *)
(* no more when his request was committed.                                  *)
THEOREM AdministratorAlwaysStays == Spec => AdministratorStays
<1>1. IInv /\ [Next]_vars => [RemovedByFormer]_vars
  BY RemovedStep
<1> QED  BY Always, <1>1, PTL DEF Spec, AdministratorStays

(* A second factor is broken only by an enrolment that has been overtaken.  *)
THEOREM EnrolmentAlwaysWhole == Spec => EnrolmentWhole
<1>1. IInv /\ [Next]_vars => [BrokenByOvertaken]_vars
  BY BrokenStep
<1> QED  BY Always, <1>1, PTL DEF Spec, EnrolmentWhole

(* An account is linked anew only by a callback that crossed another.       *)
THEOREM LinkAlwaysKept == Spec => LinkKept
<1>1. IInv /\ [Next]_vars => [RelinkedByCrossing]_vars
  BY RelinkedStep
<1> QED  BY Always, <1>1, PTL DEF Spec, LinkKept

===============================================================================
