------------------------------- MODULE Accounts --------------------------------
(***************************************************************************)
(* Accounts and sign-in (app/core/auth): the first sign-up, sign-in by     *)
(* password with an optional second factor and backup codes, sign-in by an *)
(* OIDC provider, the change of a password, the enrolment of the second    *)
(* factor, and the administration of the users.                            *)
(*                                                                         *)
(* The endpoints are plain functions in a pool of threads.  Each reads, in *)
(* a session of its own, who is asking and what the request is about, and  *)
(* writes in one or several transactions the columns it has changed; any   *)
(* other request may commit in between.  A password, a secret and a backup *)
(* code are numbers; a request with a wrong one changes nothing.  Every    *)
(* account has its owner's address; rate limits and ages are left out.     *)
(***************************************************************************)
EXTENDS Integers, FiniteSets

CONSTANTS
  People,      \* the owners of the accounts: a username and an address each
  Objects,     \* the objects a provider may have for one person, one after the other
  Ids,         \* bound on the users ever inserted: 1 and up
  Requests,    \* the requests that run side by side
  Tables,      \* the users tables to begin with
  MaxRequests, \* bound on the requests
  MaxFresh,    \* bound on the passwords, secrets and codes made
  MaxRestarts  \* bound on the restarts of the backend

None == 0
Subjects == People \X Objects
NoSubject == <<>>
Address(p) == <<p>>
Codes == (1..MaxFresh) \X (0..MaxFresh)  \* a code and the secret it was made for
NoCode == <<>>

User == [live : BOOLEAN, name : People, pwd : 0..MaxFresh, old : BOOLEAN, admin : BOOLEAN, active : BOOLEAN,
         secret : 0..MaxFresh, enabled : BOOLEAN, codes : SUBSET Codes, link : Subjects \cup {NoSubject}]
Unborn == [live |-> FALSE, name |-> CHOOSE p \in People : TRUE, pwd |-> None, old |-> FALSE, admin |-> FALSE,
           active |-> FALSE, secret |-> None, enabled |-> FALSE, codes |-> {}, link |-> NoSubject]

Settled(t) == {i \in Ids : t[i].live}

ASSUME AccountsAssumption ==
  /\ People # {} /\ Ids \subseteq Nat \ {0} /\ {MaxRequests, MaxFresh, MaxRestarts} \subseteq Nat
  /\ \A t \in Tables : t \in [Ids -> User] /\ \E n \in {0} \cup Ids : Settled(t) = 1..n

VARIABLES
  users,     \* the users table, with the backup codes
  next,      \* the next id
  sessions,  \* the sessions table, with the password a session was opened by
  provider,  \* the OIDC provider: off, on or trusted
  pending,   \* the sign-ins under way at the provider
  req,       \* the requests: what is asked, what was read, and the next transaction
  fresh,     \* the passwords, secrets and codes made so far
  confirmed, \* the secret a user's authenticator was last checked with
  torn,      \* users whose sessions outlived the password or the deactivation, by a crash or a password put back
  spent      \* the requests and restarts so far

vars == <<users, next, sessions, provider, pending, req, fresh, confirmed, torn, spent>>

Kinds == {"none", "signup", "login", "change", "factor", "oidc", "create", "admin"}
Stages == {"idle", "insert", "consume", "rehash", "session", "hash", "revoke",
           "setup", "verify", "disable", "bind", "active", "admin", "delete"}
Request == [kind : Kinds, at : Stages, user : Ids \cup {None}, actor : Ids \cup {None}, row : User,
            pwd : 0..MaxFresh, code : Codes \cup {NoCode}, subject : Subjects \cup {NoSubject}, flag : BOOLEAN]
Idle == [kind |-> "none", at |-> "idle", user |-> None, actor |-> None, row |-> Unborn, pwd |-> None,
         code |-> NoCode, subject |-> NoSubject, flag |-> FALSE]

(* The type invariant.                                                      *)
TypeOK ==
  /\ users \in [Ids -> User] /\ next \in Nat
  /\ sessions \subseteq [user : Ids, pwd : 0..MaxFresh, late : BOOLEAN]
  /\ provider \in {"off", "on", "trusted"} /\ pending \in 0..spent.requests
  /\ req \in [Requests -> Request]
  /\ fresh \in 0..MaxFresh /\ confirmed \in [Ids -> 0..MaxFresh] /\ torn \subseteq Ids
  /\ spent \in [requests : 0..MaxRequests, restarts : 0..MaxRestarts]

Live(i) == users[i].live

Init ==
  /\ users \in Tables /\ next = Cardinality(Settled(users)) + 1
  /\ sessions = {[user |-> i, pwd |-> users[i].pwd, late |-> FALSE] : i \in {j \in Settled(users) : users[j].active}}
  /\ provider = "on" /\ pending = 0
  /\ req = [r \in Requests |-> Idle]
  /\ fresh = 0 /\ confirmed = [i \in Ids |-> None] /\ torn = {}
  /\ spent = [requests |-> 0, restarts |-> 0]

-------------------------------------------------------------------------------
(* What a request reads before its first transaction.                       *)

Spend == spent.requests < MaxRequests /\ spent' = [spent EXCEPT !.requests = @ + 1]
Ask(r, q) ==
  /\ req[r] = Idle /\ req' = [req EXCEPT ![r] = q] /\ Spend
  /\ UNCHANGED <<users, next, sessions, fresh, confirmed, torn>>
About(kind, at, i) == [Idle EXCEPT !.kind = kind, !.at = at, !.user = i, !.row = users[i], !.pwd = users[i].pwd]

current_user(i) == Live(i) /\ users[i].active /\ \E s \in sessions : s.user = i
current_admin(i) == current_user(i) /\ users[i].admin
NoOidc == UNCHANGED <<provider, pending>>

signup_first(r) ==
  /\ \A i \in Ids : ~Live(i)
  /\ \E p \in People :
       Ask(r, [Idle EXCEPT !.kind = "signup", !.at = "insert", !.row = [Unborn EXCEPT !.name = p, !.admin = TRUE]])
  /\ NoOidc

(* The second factor is a code of the authenticator or a backup code.       *)
Factors(u) ==
  IF ~u.enabled THEN {NoCode} ELSE u.codes \cup {c \in {NoCode} : u.secret # None}
Checked(u) == IF u.old THEN "rehash" ELSE "session"

login(r, i) ==
  /\ Live(i) /\ users[i].active
  /\ \E c \in Factors(users[i]) :
       Ask(r, [About("login", IF c = NoCode THEN Checked(users[i]) ELSE "consume", i) EXCEPT !.code = c])
  /\ NoOidc

change_password(r, i) == current_user(i) /\ Ask(r, About("change", "hash", i)) /\ NoOidc

totp_setup(r, i) == current_user(i) /\ ~users[i].enabled /\ Ask(r, About("factor", "setup", i)) /\ NoOidc
totp_verify(r, i) ==
  /\ current_user(i) /\ ~users[i].enabled /\ users[i].secret # None
  /\ Ask(r, About("factor", "verify", i)) /\ NoOidc
totp_disable(r, i) == current_user(i) /\ Ask(r, About("factor", "disable", i)) /\ NoOidc

(* The provider vouches for the address, or is trusted without.             *)
Invited(s, verified) == {i \in Ids : Live(i) /\ users[i].name = s[1] /\ (verified \/ provider = "trusted")}

(* Mutant of Bindable: an account that has a link is linked anew.           *)
BindableAgain(i) == users[i].active

Bindable(i) == users[i].active /\ users[i].link = NoSubject

(* The sign-in that was begun is used up; the subject is looked up first,   *)
(* then the invited account of its address.                                 *)
oidc_callback(r) ==
  /\ pending > 0 /\ provider # "off" /\ pending' = pending - 1 /\ UNCHANGED provider
  /\ \E s \in Subjects, verified \in BOOLEAN :
       LET linked == {i \in Ids : Live(i) /\ users[i].link = s}
           found == IF linked # {} THEN {i \in linked : users[i].active}
                    ELSE {i \in Invited(s, verified) : Bindable(i)}
       IN  \E i \in found :
             Ask(r, [About("oidc", IF linked # {} THEN "session" ELSE "bind", i) EXCEPT !.pwd = None, !.subject = s])

(* A sign-in that is refused, has expired or never comes back.              *)
oidc_refused ==
  /\ pending > 0 /\ pending' = pending - 1
  /\ UNCHANGED <<users, next, sessions, provider, req, fresh, confirmed, torn, spent>>

oidc_login ==
  /\ provider # "off" /\ pending' = pending + 1 /\ Spend
  /\ UNCHANGED <<users, next, sessions, provider, req, fresh, confirmed, torn>>

(* The administration.                                                      *)
By(a, q) == [q EXCEPT !.actor = a]

create_user(r, a) ==
  /\ current_admin(a)
  /\ \E p \in People, admin \in BOOLEAN :
       /\ \A i \in Ids : Live(i) => users[i].name # p
       /\ Ask(r, By(a, [Idle EXCEPT !.kind = "create", !.at = "insert", !.row = [Unborn EXCEPT !.name = p, !.admin = admin]]))
  /\ NoOidc

(* Mutant of Spared: the administrator may remove himself.                  *)
SparedNot(a, i) == TRUE

Spared(a, i) == i # a

set_active(r, a, i) ==
  /\ current_admin(a) /\ Live(i)
  /\ \E active \in BOOLEAN :
       (active \/ Spared(a, i)) /\ Ask(r, By(a, [About("admin", "active", i) EXCEPT !.flag = active]))
  /\ NoOidc

set_admin(r, a, i) ==
  /\ current_admin(a) /\ Live(i)
  /\ \E admin \in BOOLEAN :
       (admin \/ Spared(a, i)) /\ Ask(r, By(a, [About("admin", "admin", i) EXCEPT !.flag = admin]))
  /\ NoOidc

delete_user(r, a, i) ==
  /\ current_admin(a) /\ Live(i) /\ Spared(a, i)
  /\ Ask(r, By(a, About("admin", "delete", i))) /\ NoOidc

edit_provider ==
  /\ \E a \in Ids : current_admin(a)
  /\ provider' \in {"off", "on", "trusted"} \ {provider} /\ Spend
  /\ UNCHANGED <<users, next, sessions, pending, req, fresh, confirmed, torn>>

-------------------------------------------------------------------------------
(* The transactions.  A row that has gone fails the request; a column is    *)
(* written when it differs from what was read.                              *)

At(r, stage) == req[r].at = stage
Then(r, stage) == req' = [req EXCEPT ![r] = IF stage = "idle" THEN Idle ELSE [@ EXCEPT !.at = stage]]
Fails(r) == Then(r, "idle") /\ UNCHANGED <<users, next, sessions, fresh, confirmed, torn>>
Column(now, read, new) == IF new = read THEN now ELSE new
Target(r) == req[r].user
Kept == UNCHANGED <<next, sessions, fresh, confirmed, torn>>

Insert(r) ==
  /\ At(r, "insert") /\ next \in Ids
  /\ IF \E i \in Ids : Live(i) /\ users[i].name = req[r].row.name THEN Fails(r)
     ELSE /\ users' = [users EXCEPT ![next] = [req[r].row EXCEPT !.live = TRUE, !.active = TRUE]]
          /\ next' = next + 1
          /\ req' = [req EXCEPT ![r] = IF @.kind = "signup" THEN [@ EXCEPT !.at = "session", !.user = next] ELSE Idle]
          /\ UNCHANGED <<sessions, fresh, confirmed, torn>>

(* The backup code is deleted, and the user read again.                     *)
Consume(r) ==
  LET i == Target(r)
  IN  /\ At(r, "consume") /\ Kept
      /\ users' = [users EXCEPT ![i].codes = @ \ {req[r].code}]
      /\ Then(r, IF Live(i) THEN Checked(users[i]) ELSE "idle")

(* The password is hashed anew when the parameters have changed.            *)
Rehash(r) ==
  LET i == Target(r)
  IN  /\ At(r, "rehash")
      /\ IF ~Live(i) THEN Fails(r)
         ELSE /\ users' = [users EXCEPT ![i].pwd = req[r].pwd, ![i].old = FALSE]
              /\ torn' = IF users[i].pwd # req[r].pwd THEN torn \cup {i} ELSE torn
              /\ Then(r, "session") /\ UNCHANGED <<next, sessions, fresh, confirmed>>

(* A session is late when what the request was admitted on holds no more.   *)
Late(r) ==
  LET u == users[Target(r)]
  IN  ~u.active \/ (req[r].kind # "oidc" /\ u.pwd # req[r].pwd)

create_session(r) ==
  /\ At(r, "session")
  /\ IF ~Live(Target(r)) THEN Fails(r)
     ELSE /\ sessions' = sessions \cup
               {[user |-> Target(r), late |-> Late(r),
                 pwd |-> IF req[r].kind = "oidc" THEN users[Target(r)].pwd ELSE req[r].pwd]}
          /\ Then(r, "idle") /\ UNCHANGED <<users, next, fresh, confirmed, torn>>

NewHash(r) ==
  LET i == Target(r)
  IN  /\ At(r, "hash") /\ fresh < MaxFresh
      /\ IF ~Live(i) THEN Fails(r)
         ELSE /\ users' = [users EXCEPT ![i].pwd = fresh + 1, ![i].old = FALSE]
              /\ req' = [req EXCEPT ![r].at = "revoke", ![r].pwd = fresh + 1]
              /\ fresh' = fresh + 1 /\ UNCHANGED <<next, sessions, confirmed, torn>>

revoke_all_for_user(i) == sessions' = {s \in sessions : s.user # i}

Revoke(r) ==
  /\ At(r, "revoke")
  /\ revoke_all_for_user(Target(r)) /\ torn' = torn \ {Target(r)}
  /\ Then(r, IF req[r].kind = "change" /\ Live(Target(r)) THEN "session" ELSE "idle")
  /\ UNCHANGED <<users, next, fresh, confirmed>>

Setup(r) ==
  /\ At(r, "setup") /\ fresh < MaxFresh
  /\ IF ~Live(Target(r)) THEN Fails(r)
     ELSE /\ users' = [users EXCEPT ![Target(r)].secret = fresh + 1, ![Target(r)].codes = {}]
          /\ fresh' = fresh + 1 /\ Then(r, "idle") /\ UNCHANGED <<next, sessions, confirmed, torn>>

Verified(u, row) == [u EXCEPT !.enabled = TRUE, !.codes = @ \cup {<<fresh + 1, row.secret>>}]
Verify(r) ==
  LET i == Target(r)
  IN  /\ At(r, "verify") /\ fresh < MaxFresh
      /\ IF ~Live(i) THEN Fails(r)
         ELSE /\ users' = [users EXCEPT ![i] = Verified(@, req[r].row)]
              /\ confirmed' = [confirmed EXCEPT ![i] = req[r].row.secret]
              /\ fresh' = fresh + 1 /\ Then(r, "idle") /\ UNCHANGED <<next, sessions, torn>>

(* Mutant of Disabled: the backup codes are kept.                           *)
DisabledButCodes(u, row) ==
  [u EXCEPT !.enabled = Column(@, row.enabled, FALSE), !.secret = Column(@, row.secret, None)]

Disabled(u, row) ==
  [u EXCEPT !.enabled = Column(@, row.enabled, FALSE), !.secret = Column(@, row.secret, None), !.codes = {}]

Disable(r) ==
  LET i == Target(r)
  IN  /\ At(r, "disable")
      /\ IF ~Live(i) THEN Fails(r)
         ELSE users' = [users EXCEPT ![i] = Disabled(@, req[r].row)] /\ Then(r, "idle") /\ Kept

(* Mutant of Bound: the address is bound in place of the subject.           *)
BoundAddress(s) == Address(s[1])

Bound(s) == s

Bind(r) ==
  LET i == Target(r)
  IN  /\ At(r, "bind")
      /\ IF ~Live(i) THEN Fails(r)
         ELSE users' = [users EXCEPT ![i].link = Bound(req[r].subject)] /\ Then(r, "session") /\ Kept

(* Mutant of SetActive: a deactivated user keeps his sessions.              *)
SetActiveOnly(r) ==
  LET i == Target(r)  q == req[r]
  IN  /\ At(r, "active")
      /\ IF ~Live(i) THEN Fails(r)
         ELSE users' = [users EXCEPT ![i].active = Column(@, q.row.active, q.flag)] /\ Then(r, "idle") /\ Kept

SetActive(r) ==
  LET i == Target(r)  q == req[r]
  IN  /\ At(r, "active")
      /\ IF ~Live(i) THEN Fails(r)
         ELSE /\ users' = [users EXCEPT ![i].active = Column(@, q.row.active, q.flag)]
              /\ Then(r, IF q.flag THEN "idle" ELSE "revoke") /\ Kept

SetAdmin(r) ==
  LET i == Target(r)  q == req[r]
  IN  /\ At(r, "admin")
      /\ IF ~Live(i) THEN Fails(r)
         ELSE /\ users' = [users EXCEPT ![i].admin = Column(@, q.row.admin, q.flag)]
              /\ Then(r, "idle") /\ Kept

(* The sessions and the codes go with their user.                           *)
Delete(r) ==
  LET i == Target(r)
  IN  /\ At(r, "delete") /\ Then(r, "idle")
      /\ users' = [users EXCEPT ![i] = Unborn]
      /\ sessions' = {s \in sessions : s.user # i} /\ torn' = torn \ {i}
      /\ UNCHANGED <<next, fresh, confirmed>>

(* A logout, or a session found expired.                                    *)
revoke_session(s) ==
  /\ sessions' = sessions \ {s}
  /\ UNCHANGED <<users, next, provider, pending, req, fresh, confirmed, torn, spent>>

(* A restart ends every request where it stands and forgets the sign-ins    *)
(* under way.                                                               *)
Restart ==
  /\ spent.restarts < MaxRestarts /\ spent' = [spent EXCEPT !.restarts = @ + 1]
  /\ req' = [r \in Requests |-> Idle] /\ pending' = 0
  /\ torn' = torn \cup {Target(r) : r \in {q \in Requests : At(q, "revoke")}}
  /\ UNCHANGED <<users, next, sessions, provider, fresh, confirmed>>

-------------------------------------------------------------------------------
SignIn(r) == signup_first(r) \/ oidc_callback(r) \/ \E i \in Ids : login(r, i)
Profile(r) == \E i \in Ids : change_password(r, i) \/ totp_setup(r, i) \/ totp_verify(r, i) \/ totp_disable(r, i)
Administration(r) ==
  \E a \in Ids : create_user(r, a) \/ \E i \in Ids : set_active(r, a, i) \/ set_admin(r, a, i) \/ delete_user(r, a, i)

Commit(r) ==
  /\ \/ Insert(r) \/ Consume(r) \/ Rehash(r) \/ create_session(r) \/ NewHash(r) \/ Revoke(r)
     \/ Setup(r) \/ Verify(r) \/ Disable(r) \/ Bind(r) \/ SetActive(r) \/ SetAdmin(r) \/ Delete(r)
  /\ UNCHANGED <<provider, pending, spent>>

Next ==
  \/ \E r \in Requests : SignIn(r) \/ Profile(r) \/ Administration(r) \/ Commit(r)
  \/ oidc_login \/ oidc_refused \/ edit_provider
  \/ \E s \in sessions : revoke_session(s)
  \/ Restart

Spec == Init /\ [][Next]_vars

-------------------------------------------------------------------------------
(* Properties.                                                              *)

(* Request r has just committed a transaction of the given stages.          *)
Commits(r, stages) == req[r].at \in stages /\ req'[r] # req[r]

(* The last administrator is never removed, except by a request of one who  *)
(* has lost the right himself since he was let in: two administrators who   *)
(* remove each other at the same time.                                      *)
Administrators == {i \in Ids : Live(i) /\ users[i].active /\ users[i].admin}
RemovedByFormer ==
  Administrators # {} /\ Administrators' = {} =>
    \E r \in Requests : Commits(r, {"active", "admin", "delete"}) /\ req[r].actor \notin Administrators
AdministratorStays == [][RemovedByFormer]_vars

(* An enabled second factor is the secret the user's authenticator was      *)
(* checked with, and the backup codes are of that enrolment; without one    *)
(* there are no codes.  Only a step of an enrolment that another one has    *)
(* overtaken may break this.                                                *)
Enrolled(i) ==
  IF users[i].enabled
    THEN users[i].secret = confirmed[i] /\ confirmed[i] # None /\ \A c \in users[i].codes : c[2] = confirmed[i]
    ELSE users[i].codes = {}
Overtaken(r) ==
  LET u == users[Target(r)]  row == req[r].row
  IN  <<u.secret, u.enabled>> # <<row.secret, row.enabled>>
BrokenByOvertaken ==
  \A i \in Ids : Enrolled(i) /\ Live(i) /\ ~Enrolled(i)' =>
    \E r \in Requests : Commits(r, {"setup", "verify", "disable"}) /\ Overtaken(r)
EnrolmentWhole == [][BrokenByOvertaken]_vars

(* An account keeps the subject it was linked to, unless two callbacks for  *)
(* it found it without one.                                                 *)
RelinkedByCrossing ==
  \A i \in Ids : Live(i) /\ Live(i)' /\ users[i].link # NoSubject /\ users'[i].link # users[i].link =>
    \E r \in Requests : Commits(r, {"bind"}) /\ req[r].row.link # users[i].link
LinkKept == [][RelinkedByCrossing]_vars

(* A session belongs to a user who is active, and was opened under the      *)
(* password he has: a deactivation and a change of the password end all     *)
(* others, but for the sign-ins in flight, a revocation still to come, and  *)
(* one that a restart or a password put back has cut short.                 *)
Revoking(i) == i \in torn \/ \E r \in Requests : At(r, "revoke") /\ Target(r) = i
RevocationHolds ==
  \A s \in sessions :
    /\ Live(s.user)
    /\ s.late \/ Revoking(s.user) \/ (users[s.user].active /\ s.pwd = users[s.user].pwd)
===============================================================================
