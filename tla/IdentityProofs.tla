---------------------------- MODULE IdentityProofs ---------------------------
(***************************************************************************)
(* Proofs about users, sessions and administrators, for any set of users,  *)
(* any number of requests in flight, passwords, codes and tokens.          *)
(***************************************************************************)
EXTENDS Identity, FiniteSetTheorems, WellFoundedInduction, TLAPS

-----------------------------------------------------------------------------
\* Types: the rows of the tables, what a cookie stands for, and what a request
\* has read at each place.

Roles == {"none", "user", "admin", "owner"}
Creds == [serial : Nat, secret : Secrets \cup {NoUser.cred.secret}]
UserRow == [role : Roles, active : BOOLEAN, version : Nat, cred : Creds, temp : BOOLEAN]
Cookies == [user : Users, version : Nat]
AdminCookies == [user : Users, cred : Creds, version : Nat]
InviteRow == [made : BOOLEAN, max : Nat, used : Nat, enabled : BOOLEAN, live : BOOLEAN]

Verifying == [pc : {"verify"}, user : Users, row : UserRow, secret : Secrets,
              surface : {"portal", "admin", "change"}]
Granting == [pc : {"replace", "grant"}, user : Users, row : UserRow, token : Tokens]
Entering == [pc : {"enter"}, user : Users, old : Secrets, secret : Secrets,
             surface : {"change", "admin"}, cookie : Tokens]
Changing == [pc : {"change", "relogin"}, user : Users, row : UserRow, secret : Secrets,
             surface : {"change", "admin"}, cookie : Tokens]
Acting == [pc : {"act"}, user : Users \cup {Recovery}, version : Nat, lost : BOOLEAN]
Registering == [pc : {"register"}, code : Codes \cup {NoCode}, user : Users, secret : Secrets]
Welcoming == [pc : {"welcome"}, user : Users, cred : Creds]
Places == {Idle} \cup Verifying \cup Granting \cup Entering \cup Changing \cup Acting
             \cup Registering \cup Welcoming

UsersTyped == user \in [Users -> UserRow] /\ hashes \in Nat
CookiesTyped ==
    /\ session \in [Tokens -> Cookies \cup {None}]
    /\ admins \in [Tokens -> AdminCookies \cup {None}]
    /\ proof \in [Tokens -> Creds]
    /\ issued \in Nat /\ issued <= MaxTokens /\ expelled \subseteq 1..issued
InvitesTyped == invite \in [Codes -> InviteRow] /\ redeemed \in [Codes -> SUBSET Users]
HandlersTyped == handler \in [Handlers -> Places]

-----------------------------------------------------------------------------
\* The inductive invariant.  That a cookie was earned with the valid password
\* is not inductive alone: a session is issued from what a request read some
\* time before, so that requests in flight need an invariant of their own, and
\* so do the epochs that tell one time of a user from another.

Registered(u) == user[u].role # "none"

\* There is at most one owner, who is active; a user who is not registered has
\* no epoch.
UsersInv ==
    /\ UsersTyped
    /\ \A u, v \in Owners : u = v
    /\ \A u \in Owners : user[u].active
    /\ \A u \in Users : ~Registered(u) => user[u].version = 0

\* A cookie is of an epoch that was, and in the present one of the password.
SessionFits(t) ==
    LET s == session[t] IN
    s # None => /\ Registered(s.user) /\ s.version <= user[s.user].version
                /\ s.version = user[s.user].version => proof[t] = user[s.user].cred

AdminFits(t) ==
    LET e == admins[t] IN
    e # None => Registered(e.user) /\ e.version <= user[e.user].version /\ e.cred = proof[t]

\* What was expelled is gone or of an epoch that has ended.
Expelled(t) ==
    /\ session[t] = None
    /\ admins[t] # None => admins[t].version < user[admins[t].user].version

CookiesInv ==
    /\ CookiesTyped
    /\ \A t \in Tokens :
        /\ SessionFits(t) /\ AdminFits(t)
        /\ session[t] = None \/ admins[t] = None
        /\ t > issued => session[t] = None /\ admins[t] = None
        /\ t \in expelled => Expelled(t)

\* What a request has read was so once, and a lost authority is of an epoch
\* that has ended.
HandlerFits(h, rows) ==
    /\ h.pc \in {"verify", "replace", "grant"} =>
        rows[h.user].role # "none" /\ h.row.version <= rows[h.user].version
    /\ h.pc \in {"enter", "change", "relogin"} => rows[h.user].role # "none"
    /\ h.pc = "act" =>
        /\ h.user # Recovery =>
            /\ rows[h.user].role # "none" /\ h.version <= rows[h.user].version
            /\ h.lost => h.version < rows[h.user].version
        /\ h.lost => h.user # Recovery

HandlersInv == HandlersTyped /\ \A p \in Handlers : HandlerFits(handler[p], user)

\* A code that is not made yet is not used.
Unused == \A c \in Codes : ~invite[c].made => invite[c].used = 0
InvitesInv == InvitesTyped /\ InvitesExact /\ Unused

IdentityInv == UsersInv /\ CookiesInv /\ HandlersInv /\ InvitesInv

\* What every step does to the users: a registered row stays as it is or enters
\* a new epoch, and ownership does not end.
Grown == \A u \in Users : Registered(u) =>
    Registered(u)' /\ (user'[u] = user[u] \/ user'[u].version > user[u].version)
UsersStep == UsersInv' /\ Grown /\ (Owners # {} => Owners' # {})

-----------------------------------------------------------------------------
\* Shapes

\* What the assumption on the constants gives.
LEMMA ConstantsTyped ==
    /\ Recovery \notin Users /\ NoCode \notin Codes /\ IsFiniteSet(Users)
    /\ MaxTokens \in Nat /\ Limits \subseteq Nat
    /\ None \notin Cookies /\ None \notin AdminCookies
    /\ None.user = Recovery
    /\ NoUser \in UserRow /\ NoUser.role = "none" /\ NoUser.version = 0 /\ NoUser.active
    /\ NoUser.cred \in Creds
<1>1. None \notin Cookies /\ None \notin AdminCookies /\ None.user = Recovery
  BY IdentityAssumption DEF None, Cookies, AdminCookies
<1> DEFINE first == [serial |-> 0, secret |-> CHOOSE s \in Secrets : TRUE]
<1>2. NoUser = [role |-> "none", active |-> TRUE, version |-> 0, cred |-> first,
                temp |-> FALSE]
  BY DEF NoUser, NewUser
<1>3. NoUser.cred = first /\ first \in Creds BY <1>2 DEF Creds
<1> HIDE DEF first
<1>4. NoUser.role = "none" /\ NoUser.version = 0 /\ NoUser.active /\ ~NoUser.temp
  BY <1>2
<1>5. NoUser \in UserRow BY <1>2, <1>3 DEF UserRow, Roles
<1>6. MaxTokens \in Nat BY IdentityAssumption
<1> QED BY <1>1, <1>3, <1>4, <1>5, <1>6, IdentityAssumption

\* A request's place tells what it has read.
LEMMA PlaceShapes ==
    ASSUME NEW h \in Places
    PROVE  /\ h.pc = "verify" => h \in Verifying
           /\ h.pc \in {"replace", "grant"} => h \in Granting
           /\ h.pc = "enter" => h \in Entering
           /\ h.pc \in {"change", "relogin"} => h \in Changing
           /\ h.pc = "act" => h \in Acting
           /\ h.pc = "register" => h \in Registering
           /\ h.pc = "welcome" => h \in Welcoming
BY DEF Places, Idle, Verifying, Granting, Entering, Changing, Acting, Registering, Welcoming

-----------------------------------------------------------------------------
\* What stays

\* A step that takes cookies away, none that accepts the epochs it ends.
LEMMA CookiesKept ==
    ASSUME UsersInv, UsersInv', CookiesInv, Grown,
           session' \in [Tokens -> Cookies \cup {None}],
           admins' \in [Tokens -> AdminCookies \cup {None}],
           \A t \in Tokens : session'[t] \in {session[t], None},
           \A t \in Tokens : admins'[t] \in {admins[t], None},
           proof' = proof, issued' = issued, expelled' \subseteq 1..issued,
           \A t \in Tokens : t \in expelled' =>
               \/ t \in expelled
               \/ /\ session'[t] = None
                  /\ admins'[t] # None =>
                       user'[admins[t].user].version > user[admins[t].user].version
    PROVE  CookiesInv'
<1>1. CookiesTyped' BY DEF CookiesInv, CookiesTyped
<1> SUFFICES ASSUME NEW t \in Tokens
             PROVE  /\ SessionFits(t)' /\ AdminFits(t)'
                    /\ session'[t] = None \/ admins'[t] = None
                    /\ t > issued => session'[t] = None /\ admins'[t] = None
                    /\ t \in expelled' => Expelled(t)'
  BY <1>1 DEF CookiesInv
<1>2. /\ SessionFits(t) /\ AdminFits(t) /\ (session[t] = None \/ admins[t] = None)
      /\ t > issued => session[t] = None /\ admins[t] = None
      /\ t \in expelled => Expelled(t)
  BY DEF CookiesInv
<1>3. /\ session[t] # None => session[t] \in Cookies
      /\ admins[t] # None => admins[t] \in AdminCookies
  BY DEF CookiesInv, CookiesTyped
<1>4. \A u \in Users : user[u].version \in Nat /\ user'[u].version \in Nat
  BY DEF UsersInv, UsersTyped, UserRow
<1>5. SessionFits(t)'
  <2> SUFFICES ASSUME session'[t] # None
               PROVE  /\ Registered(session[t].user)'
                      /\ session[t].version <= user'[session[t].user].version
                      /\ session[t].version = user'[session[t].user].version
                           => proof[t] = user'[session[t].user].cred
    BY DEF SessionFits
  <2>1. session[t] # None /\ session[t].user \in Users /\ session[t].version \in Nat
    BY <1>3 DEF Cookies
  <2> QED BY <1>2, <1>4, <2>1 DEF SessionFits, Grown
<1>6. AdminFits(t)' /\ (t \in expelled' => Expelled(t)')
  <2>1. CASE admins'[t] = None BY <1>2, <2>1 DEF AdminFits, Expelled
  <2>2. CASE admins'[t] # None
    <3>1. /\ admins[t] # None /\ admins'[t] = admins[t] /\ admins[t].user \in Users
          /\ admins[t].version \in Nat
      BY <1>3, <2>2 DEF AdminCookies
    <3>2. /\ Registered(admins[t].user)' /\ admins[t].version <= user'[admins[t].user].version
          /\ admins[t].cred = proof[t]
      BY <1>2, <1>4, <3>1 DEF AdminFits, Grown
    <3>3. user'[admins[t].user].version >= user[admins[t].user].version
      BY <1>2, <1>4, <3>1 DEF AdminFits, Grown
    <3>4. ASSUME t \in expelled' PROVE Expelled(t)'
      <4>1. admins[t].version <= user[admins[t].user].version
        BY <1>2, <3>1 DEF AdminFits
      <4>2. CASE t \in expelled
        BY <1>2, <1>4, <3>1, <3>3, <4>2 DEF Expelled
      <4>3. CASE /\ session'[t] = None
                 /\ user'[admins[t].user].version > user[admins[t].user].version
        BY <1>4, <3>1, <4>1, <4>3 DEF Expelled
      <4> QED BY <2>2, <3>4, <4>2, <4>3
    <3> QED BY <3>1, <3>2, <3>4 DEF AdminFits
  <2> QED BY <2>1, <2>2
<1> QED BY <1>2, <1>5, <1>6

\* Requests that a step does not touch still read what was so once.
LEMMA FitsKept ==
    ASSUME UsersInv, UsersInv', Grown, NEW h \in Places, HandlerFits(h, user)
    PROVE  HandlerFits(h, user')
<1>1. \A u \in Users : user[u].version \in Nat /\ user'[u].version \in Nat
  BY DEF UsersInv, UsersTyped, UserRow
<1>2. \A u \in Users : user[u].role # "none" =>
       user'[u].role # "none" /\ user'[u].version >= user[u].version
  BY <1>1 DEF Grown, Registered
<1>3. CASE h.pc \in {"verify", "replace", "grant"}
  <2>1. h.user \in Users /\ h.row.version \in Nat
    BY <1>3, PlaceShapes DEF Verifying, Granting, UserRow
  <2> QED BY <1>1, <1>2, <1>3, <2>1 DEF HandlerFits
<1>4. CASE h.pc \in {"enter", "change", "relogin"}
  <2>1. h.user \in Users BY <1>4, PlaceShapes DEF Entering, Changing
  <2> QED BY <1>2, <1>4, <2>1 DEF HandlerFits
<1>5. CASE h.pc = "act"
  <2>1. h.user \in Users \cup {Recovery} /\ h.version \in Nat
    BY <1>5, PlaceShapes DEF Acting
  <2> QED BY <1>1, <1>2, <1>5, <2>1 DEF HandlerFits
<1> QED BY <1>3, <1>4, <1>5 DEF HandlerFits

\* A request moves to another place.
LEMMA HandlersMove ==
    ASSUME UsersInv, UsersInv', Grown, HandlersInv, NEW p \in Handlers, NEW h \in Places,
           HandlerFits(h, user'), handler' = [handler EXCEPT ![p] = h]
    PROVE  HandlersInv'
<1>1. HandlersTyped' BY DEF HandlersInv, HandlersTyped
<1>2. ASSUME NEW q \in Handlers PROVE HandlerFits(handler'[q], user')
  <2>1. handler[q] \in Places /\ HandlerFits(handler[q], user)
    BY DEF HandlersInv, HandlersTyped
  <2>2. handler'[q] = IF q = p THEN h ELSE handler[q] BY DEF HandlersInv, HandlersTyped
  <2>3. HandlerFits(handler[q], user') BY <2>1, FitsKept
  <2> QED BY <2>2, <2>3
<1> QED BY <1>1, <1>2 DEF HandlersInv

\* A step that moves no request.
LEMMA HandlersStay ==
    ASSUME UsersInv, UsersInv', Grown, HandlersInv, handler' = handler
    PROVE  HandlersInv'
<1>1. HandlersTyped' BY DEF HandlersInv, HandlersTyped
<1>2. ASSUME NEW q \in Handlers PROVE HandlerFits(handler'[q], user')
  BY FitsKept DEF HandlersInv, HandlersTyped
<1> QED BY <1>1, <1>2 DEF HandlersInv

\* A step that leaves the users alone.
LEMMA UsersStay == ASSUME UsersInv, UNCHANGED <<user, hashes>> PROVE UsersStep
BY DEF UsersInv, UsersTyped, UsersStep, Grown, Registered, Owners

\* A step that leaves the invites alone.
LEMMA InvitesStay ==
    ASSUME UsersInv, InvitesInv, Grown, UNCHANGED invites PROVE InvitesInv'
<1>1. \A c \in Codes : redeemed[c] \subseteq Users BY DEF InvitesInv, InvitesTyped
<1>2. \A c \in Codes : \A u \in redeemed[c] : user'[u].role # "none"
  BY <1>1 DEF InvitesInv, InvitesExact, Grown, Registered
<1> QED BY <1>2 DEF InvitesInv, InvitesTyped, InvitesExact, Unused, invites

\* A step that leaves cookies and the users alone.
LEMMA CookiesStay ==
    ASSUME UsersInv, UsersInv', CookiesInv, Grown,
           UNCHANGED <<session, admins, issued, proof, expelled>>
    PROVE  CookiesInv'
BY CookiesKept DEF CookiesInv, CookiesTyped

-----------------------------------------------------------------------------
\* Transactions

\* One row is written: a new user, or a registered one's next epoch.
LEMMA RowWritten ==
    ASSUME UsersInv, NEW u \in Users, NEW row \in UserRow,
           user' = [user EXCEPT ![u] = row], hashes' \in Nat,
           row.role # "none",
           Registered(u) => row.version > user[u].version,
           row.role = "owner" => row.active /\ (user[u].role = "owner" \/ Owners = {}),
           user[u].role = "owner" => row.role = "owner"
    PROVE  UsersStep
<1>1. user \in [Users -> UserRow] BY DEF UsersInv, UsersTyped
<1>2. \A v \in Users : user'[v] = IF v = u THEN row ELSE user[v] BY <1>1
<1>3. UsersTyped' BY <1>1 DEF UsersTyped
<1>4. \A v \in Users : v # u => (v \in Owners' <=> v \in Owners)
  BY <1>2 DEF Owners
<1>5. u \in Owners' => u \in Owners \/ Owners = {} BY <1>2 DEF Owners
<1>6. \A v, w \in Owners' : v = w
  <2> SUFFICES ASSUME NEW v \in Owners', NEW w \in Owners' PROVE v = w OBVIOUS
  <2>1. v \in Users /\ w \in Users BY DEF Owners
  <2> QED BY <1>4, <1>5, <2>1 DEF UsersInv
<1>7. \A v \in Owners' : user'[v].active
  <2> SUFFICES ASSUME NEW v \in Owners' PROVE user'[v].active OBVIOUS
  <2>1. v \in Users /\ user'[v].role = "owner" BY DEF Owners
  <2>2. CASE v = u BY <1>2, <2>1, <2>2
  <2>3. CASE v # u BY <1>2, <1>4, <2>1, <2>3 DEF UsersInv
  <2> QED BY <2>2, <2>3
<1>8. \A v \in Users : ~Registered(v)' => user'[v].version = 0
  BY <1>2 DEF UsersInv, Registered
<1>9. Grown BY <1>2 DEF Grown, Registered
<1>10. Owners # {} => Owners' # {} BY <1>2 DEF Owners
<1> QED BY <1>3, <1>6, <1>7, <1>8, <1>9, <1>10 DEF UsersStep, UsersInv

\* A user is created over no row.
LEMMA NewUserWritten ==
    ASSUME UsersInv, NEW u \in Users, NEW role \in {"user", "admin", "owner"},
           NEW secret \in Secrets, NEW temp \in BOOLEAN,
           user[u].role = "none", role = "owner" => Owners = {},
           user' = [user EXCEPT ![u] = NewUser(role, Hashed(secret), temp)],
           hashes' = hashes + 1
    PROVE  UsersStep /\ Hashed(secret) \in Creds
<1> DEFINE row == NewUser(role, Hashed(secret), temp)
<1>1. hashes \in Nat BY DEF UsersInv, UsersTyped
<1>2. Hashed(secret) \in Creds BY <1>1 DEF Hashed, Creds
<1>3. row \in UserRow /\ row.role = role /\ row.active
  BY <1>2 DEF NewUser, UserRow, Roles
<1>4. user' = [user EXCEPT ![u] = row] OBVIOUS
<1> HIDE DEF row
<1>5. /\ hashes' \in Nat /\ row.role # "none" /\ ~Registered(u)
      /\ row.role = "owner" => row.active /\ (user[u].role = "owner" \/ Owners = {})
      /\ user[u].role = "owner" => row.role = "owner"
  BY <1>1, <1>3 DEF Registered
<1>6. UsersStep BY <1>3, <1>4, <1>5, RowWritten
<1> QED BY <1>2, <1>6

\* invalidateIdentity: the next epoch of a row that keeps or gets a role.
LEMMA InvalidateStep ==
    ASSUME UsersInv, CookiesInv, NEW u \in Users, NEW row \in UserRow, Invalidate(u, row),
           Registered(u), row.version = user[u].version, row.role # "none",
           row.role = "owner" <=> user[u].role = "owner",
           row.role = "owner" => row.active,
           hashes' \in Nat, UNCHANGED <<issued, proof>>,
           \/ admins' = admins
           \/ \E c \in Tokens : admins' = [admins EXCEPT ![c] = None]
    PROVE  UsersStep /\ CookiesInv' /\ user'[u].version # user[u].version
<1> DEFINE next == [row EXCEPT !.version = @ + 1]
<1>1. next \in UserRow /\ next.role = row.role /\ next.active = row.active
      /\ next.version = row.version + 1
  BY DEF UserRow
<1>2. user' = [user EXCEPT ![u] = next] BY DEF Invalidate
<1> HIDE DEF next
<1>3. user \in [Users -> UserRow] /\ user[u].version \in Nat
  BY DEF UsersInv, UsersTyped, UserRow
<1>4. UsersStep
  <2>1. /\ hashes' \in Nat /\ next.role # "none" /\ next.version > user[u].version
        /\ next.role = "owner" => next.active /\ (user[u].role = "owner" \/ Owners = {})
        /\ user[u].role = "owner" => next.role = "owner"
    BY <1>1, <1>3
  <2> QED BY <1>1, <1>2, <2>1, RowWritten
<1>5. user'[u].version > user[u].version BY <1>1, <1>2, <1>3
<1>6. /\ session \in [Tokens -> Cookies \cup {None}]
      /\ admins \in [Tokens -> AdminCookies \cup {None}]
      /\ expelled \subseteq 1..issued
  BY DEF CookiesInv, CookiesTyped
<1>7. \A t \in Tokens : session'[t] = IF session[t].user = u THEN None ELSE session[t]
  BY DEF Invalidate, Without
<1>8. session' \in [Tokens -> Cookies \cup {None}]
  BY <1>6 DEF Invalidate, Without
<1>9. /\ admins' \in [Tokens -> AdminCookies \cup {None}]
      /\ \A t \in Tokens : admins'[t] \in {admins[t], None}
  BY <1>6
<1>10. expelled' = expelled \cup {t \in Tokens : u \in {session[t].user, admins[t].user}}
  BY DEF Invalidate
<1>11. \A t \in Tokens : u \in {session[t].user, admins[t].user} =>
         /\ session'[t] = None
         /\ admins'[t] # None => admins[t].user = u
         /\ t \in 1..issued
  <2> SUFFICES ASSUME NEW t \in Tokens, u \in {session[t].user, admins[t].user}
               PROVE  /\ session'[t] = None
                      /\ admins'[t] # None => admins[t].user = u
                      /\ t \in 1..issued
    OBVIOUS
  <2>0. u # None.user BY ConstantsTyped
  <2>1. session[t] # None \/ admins[t] # None BY <2>0
  <2>2. /\ session[t] = None \/ admins[t] = None
        /\ t > issued => session[t] = None /\ admins[t] = None
    BY DEF CookiesInv
  <2>3. t \in 1..issued BY <2>1, <2>2 DEF Tokens, CookiesInv, CookiesTyped
  <2>4. CASE session[t].user = u
    BY <1>7, <1>9, <2>0, <2>2, <2>3, <2>4
  <2>5. CASE admins[t].user = u
    BY <1>7, <1>9, <2>0, <2>2, <2>3, <2>5
  <2> QED BY <2>4, <2>5
<1>12. expelled' \subseteq 1..issued BY <1>6, <1>10, <1>11
<1>13. \A t \in Tokens : t \in expelled' =>
         \/ t \in expelled
         \/ /\ session'[t] = None
            /\ admins'[t] # None => user'[admins[t].user].version > user[admins[t].user].version
  BY <1>5, <1>10, <1>11
<1>14. \A t \in Tokens : session'[t] \in {session[t], None} BY <1>7
<1>15. UsersInv' /\ Grown BY <1>4 DEF UsersStep
<1>16. CookiesInv' BY <1>8, <1>9, <1>12, <1>13, <1>14, <1>15, CookiesKept
<1> QED BY <1>3, <1>4, <1>5, <1>16

\* A row that gets a role enters its next epoch.
Promoted(x, role) == [x EXCEPT !.role = role, !.version = @ + 1]

\* It stays a row of a user, with its own password.
LEMMA PromotedFacts ==
    ASSUME NEW x \in UserRow, NEW role \in Roles
    PROVE  /\ Promoted(x, role) \in UserRow
           /\ Promoted(x, role).role = role /\ Promoted(x, role).active = x.active
           /\ Promoted(x, role).version = x.version + 1
<1> DEFINE y == [x EXCEPT !.role = role]
           z == [y EXCEPT !.version = @ + 1]
<1>1. y \in UserRow /\ y.role = role /\ y.active = x.active /\ y.version = x.version
  BY DEF UserRow
<1>2. Promoted(x, role) = z BY DEF Promoted
<1> HIDE DEF y
<1>3. z \in UserRow /\ z.role = y.role /\ z.active = y.active /\ z.version = y.version + 1
  BY <1>1 DEF UserRow
<1> QED BY <1>1, <1>2, <1>3

\* TransferOwner: the old owner steps down as the new one is made.
LEMMA TransferStep ==
    ASSUME UsersInv, CookiesInv, NEW p \in Handlers, NEW u \in Users, TransferOwner(p, u),
           UNCHANGED <<admins, issued, proof>>
    PROVE  UsersStep /\ CookiesInv'
<1> DEFINE changed == Owners \cup {u}
           After(v) == IF v = u THEN Promoted(user[v], "owner")
                       ELSE IF v \in Owners THEN Promoted(user[v], "admin") ELSE user[v]
<1>0. user[u].role = "admin" /\ user[u].active /\ u \notin Owners
  BY DEF TransferOwner, Owners
<1>1. /\ user' = [v \in Users |-> After(v)] /\ hashes' = hashes
      /\ session' = [t \in Tokens |-> IF session[t].user \in changed THEN None ELSE session[t]]
      /\ expelled' = expelled \cup
             {t \in Tokens : {session[t].user, admins[t].user} \cap changed # {}}
  BY <1>0 DEF TransferOwner, Promoted
<1>2. changed \subseteq Users BY DEF Owners
<1>3. \A v \in Users :
        /\ After(v) \in UserRow /\ After(v).active = user[v].active
        /\ After(v).role = "owner" <=> v = u
        /\ v \in changed => After(v).role # "none" /\ After(v).version = user[v].version + 1
        /\ v \notin changed => After(v) = user[v]
  <2> TAKE v \in Users
  <2>1. user[v] \in UserRow BY DEF UsersInv, UsersTyped
  <2>2. "owner" \in Roles /\ "admin" \in Roles BY DEF Roles
  <2>3. CASE v = u BY <2>1, <2>2, <2>3, PromotedFacts
  <2>4. CASE v # u /\ v \in Owners BY <2>1, <2>2, <2>4, PromotedFacts
  <2>5. CASE v # u /\ v \notin Owners BY <2>1, <2>5 DEF Owners
  <2> QED BY <2>3, <2>4, <2>5
<1>4. \A v \in Users : user'[v] = After(v) BY <1>1
<1>5. user' \in [Users -> UserRow] BY <1>1, <1>3
<1> HIDE DEF After
<1>6. \A v \in Users : user[v].version \in Nat BY DEF UsersInv, UsersTyped, UserRow
<1>7. Grown BY <1>3, <1>4, <1>6 DEF Grown, Registered, Owners
<1>8. \A v \in Users : v \in Owners' <=> v = u BY <1>3, <1>4 DEF Owners
<1>9. UsersInv'
  <2>1. UsersTyped' BY <1>1, <1>5 DEF UsersInv, UsersTyped
  <2>2. \A v \in Owners' : v = u /\ user'[v].active
    <3> SUFFICES ASSUME NEW v \in Owners' PROVE v = u /\ user'[v].active OBVIOUS
    <3>1. v \in Users BY DEF Owners
    <3> QED BY <1>0, <1>3, <1>4, <1>8, <3>1
  <2>3. \A v \in Users : ~Registered(v)' => user'[v].version = 0
    BY <1>2, <1>3, <1>4 DEF UsersInv, Registered
  <2> QED BY <2>1, <2>2, <2>3 DEF UsersInv
<1>10. UsersStep BY <1>7, <1>8, <1>9 DEF UsersStep
<1>11. /\ session \in [Tokens -> Cookies \cup {None}]
       /\ admins \in [Tokens -> AdminCookies \cup {None}]
       /\ expelled \subseteq 1..issued
  BY DEF CookiesInv, CookiesTyped
<1>12. session' \in [Tokens -> Cookies \cup {None}] BY <1>1, <1>11
<1>13. \A t \in Tokens : session'[t] = IF session[t].user \in changed THEN None ELSE session[t]
  BY <1>1
<1>14. \A t \in Tokens : {session[t].user, admins[t].user} \cap changed # {} =>
         /\ session'[t] = None
         /\ admins[t] # None => admins[t].user \in changed
         /\ t \in 1..issued
  <2> SUFFICES ASSUME NEW t \in Tokens, {session[t].user, admins[t].user} \cap changed # {}
               PROVE  /\ session'[t] = None
                      /\ admins[t] # None => admins[t].user \in changed
                      /\ t \in 1..issued
    OBVIOUS
  <2>0. None.user \notin changed BY <1>2, ConstantsTyped
  <2>1. session[t] # None \/ admins[t] # None BY <2>0
  <2>2. /\ session[t] = None \/ admins[t] = None
        /\ t > issued => session[t] = None /\ admins[t] = None
    BY DEF CookiesInv
  <2>3. t \in 1..issued BY <2>1, <2>2 DEF Tokens, CookiesInv, CookiesTyped
  <2>4. CASE session[t].user \in changed
    BY <1>13, <2>0, <2>2, <2>3, <2>4
  <2>5. CASE admins[t].user \in changed
    BY <1>13, <2>0, <2>2, <2>3, <2>5
  <2> QED BY <2>4, <2>5
<1>15. expelled' \subseteq 1..issued BY <1>1, <1>11, <1>14
<1>16. \A t \in Tokens : t \in expelled' =>
         \/ t \in expelled
         \/ /\ session'[t] = None
            /\ admins'[t] # None => user'[admins[t].user].version > user[admins[t].user].version
  <2> SUFFICES ASSUME NEW t \in Tokens, t \in expelled', t \notin expelled
               PROVE  /\ session'[t] = None
                      /\ admins[t] # None =>
                           user'[admins[t].user].version > user[admins[t].user].version
    OBVIOUS
  <2>1. {session[t].user, admins[t].user} \cap changed # {} BY <1>1
  <2>2. session'[t] = None /\ (admins[t] # None => admins[t].user \in changed)
    BY <1>14, <2>1
  <2> QED BY <1>2, <1>3, <1>4, <1>6, <2>2
<1>17. \A t \in Tokens : session'[t] \in {session[t], None} BY <1>13
<1>18. CookiesInv' BY <1>7, <1>9, <1>11, <1>12, <1>15, <1>16, <1>17, CookiesKept
<1> QED BY <1>10, <1>18

\* Only an actor whose epoch is the present one has authority.
LEMMA AuthorityFresh ==
    ASSUME UsersInv, HandlersInv, NEW p \in Handlers, handler[p].pc = "act",
           IsAdminRole(Authority(handler[p]))
    PROVE  ~handler[p].lost
<1> DEFINE a == handler[p]
<1>1. a \in Acting /\ HandlerFits(a, user)
  BY PlaceShapes DEF HandlersInv, HandlersTyped
<1>2. CASE a.user = Recovery BY <1>1, <1>2 DEF HandlerFits, Acting
<1>3. CASE a.user # Recovery
  <2>1. user[a.user].version = a.version BY <1>3 DEF Authority, IsAdminRole
  <2>2. a.user \in Users /\ a.version \in Nat BY <1>1, <1>3 DEF Acting
  <2> QED BY <1>1, <1>3, <2>1, <2>2 DEF HandlerFits, Acting
<1> QED BY <1>2, <1>3

\* A transaction of an administrator, by an actor who has not lost authority.
LEMMA ActStep ==
    ASSUME UsersInv, CookiesInv, HandlersInv, NEW p \in Handlers, Act(p)
    PROVE  UsersStep /\ CookiesInv' /\ ~handler[p].lost
<1>0. handler[p].pc = "act" /\ UNCHANGED <<admins, issued, proof>> BY DEF Act
<1>1. ASSUME NEW u \in Users, NEW role \in {"user", "admin"}, NEW s \in Secrets,
             Create(p, u, role, s)
      PROVE  UsersStep /\ CookiesInv' /\ ~handler[p].lost
  <2>1. /\ user[u].role = "none" /\ IsAdminRole(Authority(handler[p]))
        /\ user' = [user EXCEPT ![u] = NewUser(role, Hashed(s), TRUE)]
        /\ hashes' = hashes + 1 /\ UNCHANGED <<session, expelled>>
    BY <1>1 DEF Create
  <2>2. UsersStep BY <2>1, NewUserWritten
  <2>3. CookiesInv' BY <1>0, <2>1, <2>2, CookiesStay DEF UsersStep
  <2> QED BY <1>0, <2>1, <2>2, <2>3, AuthorityFresh
<1>2. ASSUME NEW u \in Users, ManageIdentity(p, u)
      PROVE  UsersStep /\ CookiesInv' /\ ~handler[p].lost
  <2>1. PICK row \in Changes(p, u) :
          /\ user[u].role = "owner" => row.cred # user[u].cred
          /\ Invalidate(u, row)
          /\ hashes' = IF row.cred = user[u].cred THEN hashes ELSE hashes + 1
    BY <1>2 DEF ManageIdentity
  <2>2. user[u].role # "none" /\ IsAdminRole(Authority(handler[p]))
    BY <1>2 DEF ManageIdentity
  <2>3. user[u] \in UserRow /\ hashes \in Nat /\ hashes' \in Nat
    BY <2>1 DEF UsersInv, UsersTyped
  <2>4. /\ row \in UserRow /\ row.version = user[u].version /\ row.role # "none"
        /\ row.role = "owner" <=> user[u].role = "owner"
        /\ row.role = "owner" => row.active
    <3>0. user[u].role = "owner" => user[u].active BY DEF UsersInv, Owners
    <3>1. CASE \E r \in {"user", "admin"} : row = [user[u] EXCEPT !.role = r]
      BY <2>1, <2>2, <2>3, <3>1 DEF UserRow, Roles
    <3>2. CASE row = [user[u] EXCEPT !.active = ~user[u].active]
      BY <2>1, <2>2, <2>3, <3>2 DEF UserRow, Roles
    <3>3. CASE \E s \in Secrets : row = [user[u] EXCEPT !.cred = Hashed(s), !.temp = TRUE]
      <4>1. PICK s \in Secrets : row = [user[u] EXCEPT !.cred = Hashed(s), !.temp = TRUE]
        BY <3>3
      <4>2. Hashed(s) \in Creds BY <2>3 DEF Hashed, Creds
      <4> QED BY <2>2, <2>3, <3>0, <4>1, <4>2 DEF UserRow, Roles
    <3> QED BY <3>1, <3>2, <3>3 DEF Changes
  <2>5. UsersStep /\ CookiesInv'
    BY <1>0, <2>1, <2>2, <2>3, <2>4, InvalidateStep DEF Registered
  <2> QED BY <1>0, <2>2, <2>5, AuthorityFresh
<1>3. ASSUME NEW u \in Users, TransferOwner(p, u)
      PROVE  UsersStep /\ CookiesInv' /\ ~handler[p].lost
  <2>1. Authority(handler[p]) = "owner" BY <1>3 DEF TransferOwner
  <2>2. IsAdminRole(Authority(handler[p])) BY <2>1 DEF IsAdminRole
  <2> QED BY <1>0, <1>3, <2>2, TransferStep, AuthorityFresh
<1> QED BY <1>1, <1>2, <1>3 DEF Act

-----------------------------------------------------------------------------
\* One step per action

\* An idle request has read nothing.
LEMMA IdleFits == Idle \in Places /\ \A rows : HandlerFits(Idle, rows)
BY DEF Places, Idle, HandlerFits

\* A request moves on and nothing else happens.
LEMMA RequestMoves ==
    ASSUME IdentityInv, NEW p \in Handlers, NEW h \in Places, HandlerFits(h, user),
           handler' = [handler EXCEPT ![p] = h],
           UNCHANGED <<user, session, admins, issued, invites, hashes, ghosts>>
    PROVE  IdentityInv'
<1>1. UsersInv /\ CookiesInv /\ HandlersInv /\ InvitesInv BY DEF IdentityInv
<1>2. UsersInv' /\ Grown BY <1>1, UsersStay DEF UsersStep
<1>3. CookiesInv' BY <1>1, <1>2, CookiesStay DEF ghosts
<1>4. HandlersInv' BY <1>1, <1>2, HandlersMove
<1>5. InvitesInv' BY <1>1, <1>2, InvitesStay
<1> QED BY <1>2, <1>3, <1>4, <1>5 DEF IdentityInv

\* What a request has read, where it is.
LEMMA RequestReads ==
    ASSUME IdentityInv, NEW p \in Handlers
    PROVE  /\ handler[p] \in Places /\ HandlerFits(handler[p], user)
           /\ user \in [Users -> UserRow] /\ hashes \in Nat /\ issued \in Nat
BY DEF IdentityInv, HandlersInv, HandlersTyped, UsersInv, UsersTyped, CookiesInv, CookiesTyped

\* Login reads the row of the present.
LEMMA LoginReadInv ==
    ASSUME IdentityInv, NEW p \in Handlers, NEW u \in Users, NEW s \in Secrets,
           NEW surface \in {"portal", "admin"}, LoginRead(p, u, s, surface)
    PROVE  IdentityInv'
<1> DEFINE h == [pc |-> "verify", user |-> u, row |-> user[u], secret |-> s,
                 surface |-> surface]
<1>1. user[u] \in UserRow /\ user[u].version \in Nat
  BY DEF IdentityInv, UsersInv, UsersTyped, UserRow
<1>2. h \in Places BY <1>1 DEF Places, Verifying
<1>3. HandlerFits(h, user) BY <1>1 DEF LoginRead, HandlerFits
<1> QED BY <1>2, <1>3, RequestMoves DEF LoginRead, Goto

\* A request ends and changes nothing.
LEMMA ReturnInv ==
    ASSUME IdentityInv, NEW p \in Handlers, LoginRefused(p) \/ ActRefused(p)
    PROVE  IdentityInv'
<1>1. /\ handler' = [handler EXCEPT ![p] = Idle]
      /\ UNCHANGED <<user, session, admins, issued, invites, hashes, ghosts>>
  BY DEF LoginRefused, ActRefused, Return
<1> QED BY <1>1, IdleFits, RequestMoves

\* A cookie that is accepted is of a registered user.
LEMMA ChangeEnterInv ==
    ASSUME IdentityInv, NEW p \in Handlers, NEW t \in Tokens, NEW old \in Secrets,
           NEW new \in Secrets, ChangeEnter(p, t, old, new)
    PROVE  IdentityInv'
<1>1. PICK u, surface :
        /\ \/ PortalAccepts(t) /\ u = session[t].user /\ surface = "change"
           \/ AdminAccepts(t) /\ u = admins[t].user /\ surface = "admin"
        /\ handler' = [handler EXCEPT ![p] = [pc |-> "enter", user |-> u, old |-> old,
                          secret |-> new, surface |-> surface, cookie |-> t]]
        /\ UNCHANGED <<user, session, admins, issued, invites, hashes, ghosts>>
  BY DEF ChangeEnter, Goto
<1> DEFINE h == [pc |-> "enter", user |-> u, old |-> old, secret |-> new,
                 surface |-> surface, cookie |-> t]
<1>2. u \in Users /\ user[u].role # "none"
  <2>1. /\ session[t] # None => session[t] \in Cookies /\ Registered(session[t].user)
        /\ admins[t] # None => admins[t] \in AdminCookies /\ Registered(admins[t].user)
    BY DEF IdentityInv, CookiesInv, CookiesTyped, SessionFits, AdminFits
  <2>2. CASE PortalAccepts(t) /\ u = session[t].user
    BY <2>1, <2>2 DEF PortalAccepts, Cookies, Registered
  <2>3. CASE AdminAccepts(t) /\ u = admins[t].user
    BY <2>1, <2>3 DEF AdminAccepts, AdminCookies, Registered
  <2> QED BY <1>1, <2>2, <2>3
<1>3. h \in Places BY <1>1, <1>2 DEF Places, Entering
<1>4. HandlerFits(h, user) BY <1>2 DEF HandlerFits
<1> QED BY <1>1, <1>3, <1>4, RequestMoves

\* The old password is verified against the row of the present.
LEMMA ChangeReadInv ==
    ASSUME IdentityInv, NEW p \in Handlers, ChangeRead(p) PROVE IdentityInv'
<1> DEFINE c == handler[p]
           h == [pc |-> "change", user |-> c.user, row |-> user[c.user],
                 secret |-> c.secret, surface |-> c.surface, cookie |-> c.cookie]
<1>1. /\ c.pc = "enter"
      /\ \/ handler' = [handler EXCEPT ![p] = h]
         \/ handler' = [handler EXCEPT ![p] = Idle]
      /\ UNCHANGED <<user, session, admins, issued, invites, hashes, ghosts>>
  BY DEF ChangeRead, Goto, Return
<1>2. c \in Entering /\ HandlerFits(c, user) BY <1>1, RequestReads, PlaceShapes
<1>3. c.user \in Users /\ user[c.user] \in UserRow BY <1>2, RequestReads DEF Entering
<1>4. h \in Places BY <1>2, <1>3 DEF Places, Entering, Changing
<1>5. HandlerFits(h, user) BY <1>1, <1>2 DEF HandlerFits
<1> QED BY <1>1, <1>4, <1>5, IdleFits, RequestMoves

\* The login after a change reads the row again.
LEMMA ReloginInv ==
    ASSUME IdentityInv, NEW p \in Handlers, Relogin(p) PROVE IdentityInv'
<1> DEFINE c == handler[p]
           h == [pc |-> "verify", user |-> c.user, row |-> user[c.user],
                 secret |-> c.secret, surface |-> "change"]
<1>1. /\ c.pc = "relogin" /\ handler' = [handler EXCEPT ![p] = h]
      /\ UNCHANGED <<user, session, admins, issued, invites, hashes, ghosts>>
  BY DEF Relogin, Goto
<1>2. c \in Changing /\ HandlerFits(c, user) BY <1>1, RequestReads, PlaceShapes
<1>3. c.user \in Users /\ user[c.user] \in UserRow BY <1>2, RequestReads DEF Changing
<1>4. h \in Places BY <1>2, <1>3 DEF Places, Changing, Verifying
<1>5. HandlerFits(h, user) BY <1>1, <1>2, <1>3 DEF HandlerFits, UserRow
<1> QED BY <1>1, <1>4, <1>5, RequestMoves

\* An administrator's epoch is the present one when he is let in.
LEMMA ActorEnterInv ==
    ASSUME IdentityInv, NEW p \in Handlers, ActorEnter(p) PROVE IdentityInv'
<1>1. UNCHANGED <<user, session, admins, issued, invites, hashes, ghosts>>
  BY DEF ActorEnter
<1>2. CASE Goto(p, [pc |-> "act", user |-> Recovery, version |-> 0, lost |-> FALSE])
  <2> DEFINE h == [pc |-> "act", user |-> Recovery, version |-> 0, lost |-> FALSE]
  <2>1. h \in Places BY DEF Places, Acting
  <2>2. HandlerFits(h, user) BY DEF HandlerFits
  <2> QED BY <1>1, <1>2, <2>1, <2>2, RequestMoves DEF Goto
<1>3. ASSUME NEW t \in Tokens, AdminAccepts(t),
             Goto(p, [pc |-> "act", user |-> admins[t].user, version |-> admins[t].version,
                      lost |-> FALSE])
      PROVE  IdentityInv'
  <2> DEFINE h == [pc |-> "act", user |-> admins[t].user, version |-> admins[t].version,
                   lost |-> FALSE]
  <2>1. admins[t] \in AdminCookies /\ AdminFits(t) /\ admins[t] # None
    BY <1>3 DEF IdentityInv, CookiesInv, CookiesTyped, AdminAccepts
  <2>2. h \in Places BY <2>1 DEF Places, Acting, AdminCookies
  <2>3. HandlerFits(h, user) BY <2>1 DEF HandlerFits, AdminFits, Registered
  <2> QED BY <1>1, <1>3, <2>2, <2>3, RequestMoves DEF Goto
<1> QED BY <1>2, <1>3 DEF ActorEnter

\* A registration has read only its code.
LEMMA RegisterCheckInv ==
    ASSUME IdentityInv, NEW p \in Handlers, NEW c \in Codes \cup {NoCode}, NEW u \in Users,
           NEW s \in Secrets, RegisterCheck(p, c, u, s)
    PROVE  IdentityInv'
<1> DEFINE h == [pc |-> "register", code |-> c, user |-> u, secret |-> s]
<1>1. h \in Places BY DEF Places, Registering
<1>2. HandlerFits(h, user) BY DEF HandlerFits
<1> QED BY <1>1, <1>2, RequestMoves DEF RegisterCheck, Goto

\* A session is issued for the password and the epoch that are valid now.
LEMMA SessionIssued ==
    ASSUME IdentityInv, NEW u \in Users, user[u].role # "none",
           CreateUserSession(u, user[u].cred), UNCHANGED <<user, hashes, expelled>>,
           \/ admins' = admins
           \/ \E c \in Tokens : admins' = [admins EXCEPT ![c] = None]
    PROVE  CookiesInv'
<1> DEFINE own == {t \in Tokens : session[t].user = u}
           kept == IF Cardinality(own) < SessionCap THEN own ELSE own \ {Min(own)}
           gone == own \ kept
           new == issued + 1
           row == [user |-> u, version |-> user[u].version]
<1>a. /\ issued < MaxTokens /\ issued' = new
      /\ session' = [t \in Tokens |-> CASE t = new -> row
                                        [] t \in gone -> None
                                        [] OTHER -> session[t]]
      /\ proof' = [proof EXCEPT ![new] = user[u].cred]
  BY DEF CreateUserSession
<1> HIDE DEF kept
<1>b. new \notin gone
  BY ConstantsTyped DEF IdentityInv, CookiesInv, CookiesTyped
<1> HIDE DEF gone
<1>1. /\ issued < MaxTokens /\ issued' = new
      /\ session' = [t \in Tokens |-> IF t = new THEN row
                                      ELSE IF t \in gone THEN None ELSE session[t]]
      /\ proof' = [proof EXCEPT ![new] = user[u].cred]
  BY <1>a, <1>b
<1>2. CookiesTyped /\ issued \in Nat /\ new \in Tokens /\ MaxTokens \in Nat
  BY <1>1, ConstantsTyped DEF IdentityInv, CookiesInv, CookiesTyped, Tokens
<1>3. user[u] \in UserRow BY DEF IdentityInv, UsersInv, UsersTyped
<1>4. row \in Cookies /\ user[u].cred \in Creds /\ row # None
  BY <1>3, ConstantsTyped DEF Cookies, UserRow
<1>5. CookiesTyped'
  <2>1. session' \in [Tokens -> Cookies \cup {None}] BY <1>1, <1>2, <1>4 DEF CookiesTyped
  <2>2. admins' \in [Tokens -> AdminCookies \cup {None}] BY <1>2 DEF CookiesTyped
  <2>3. proof' \in [Tokens -> Creds] BY <1>1, <1>2, <1>4 DEF CookiesTyped
  <2>4. issued' \in Nat /\ expelled' \subseteq 1..issued' BY <1>1, <1>2 DEF CookiesTyped
  <2>5. issued' <= MaxTokens BY <1>1, <1>2
  <2> QED BY <2>1, <2>2, <2>3, <2>4, <2>5 DEF CookiesTyped
<1> SUFFICES ASSUME NEW t \in Tokens
             PROVE  /\ SessionFits(t)' /\ AdminFits(t)'
                    /\ session'[t] = None \/ admins'[t] = None
                    /\ t > issued' => session'[t] = None /\ admins'[t] = None
                    /\ t \in expelled' => Expelled(t)'
  BY <1>5 DEF CookiesInv
<1>6. /\ SessionFits(t) /\ AdminFits(t) /\ (session[t] = None \/ admins[t] = None)
      /\ t > issued => session[t] = None /\ admins[t] = None
      /\ t \in expelled => Expelled(t)
  BY DEF IdentityInv, CookiesInv
<1>7. admins'[t] \in {admins[t], None} BY <1>2 DEF CookiesTyped
<1>8. CASE t = new
  <2>1. session'[t] = row /\ admins'[t] = None /\ proof'[t] = user[u].cred
    BY <1>1, <1>2, <1>6, <1>7, <1>8 DEF CookiesTyped
  <2>2. t \notin expelled BY <1>2, <1>8 DEF CookiesTyped
  <2>3. SessionFits(t)' BY <1>3, <2>1 DEF SessionFits, Registered, UserRow
  <2>4. AdminFits(t)' BY <2>1 DEF AdminFits
  <2> QED BY <1>1, <1>2, <1>8, <2>1, <2>2, <2>3, <2>4
<1>9. CASE t # new
  <2>1. session'[t] \in {session[t], None} /\ proof'[t] = proof[t]
    BY <1>1, <1>2, <1>9 DEF CookiesTyped
  <2>2. SessionFits(t)' BY <1>6, <2>1 DEF SessionFits, Registered
  <2>3. AdminFits(t)' BY <1>6, <1>7, <2>1 DEF AdminFits, Registered
  <2>4. t \in expelled' => Expelled(t)' BY <1>6, <1>7, <2>1 DEF Expelled
  <2>5. t > issued' => t > issued BY <1>1, <1>2 DEF Tokens
  <2> QED BY <1>6, <1>7, <2>1, <2>2, <2>3, <2>4, <2>5
<1> QED BY <1>8, <1>9

\* A login ends in a session of the row that was verified.
LEMMA LoginIssueInv ==
    ASSUME IdentityInv, NEW p \in Handlers, LoginIssue(p) PROVE IdentityInv'
<1> DEFINE l == handler[p]
           h == [pc |-> "replace", user |-> l.user, row |-> l.row, token |-> issued + 1]
<1>1. /\ l.pc = "verify" /\ Fresh(l.user, l.row.cred, {l.row.version})
      /\ CreateUserSession(l.user, l.row.cred)
      /\ \/ handler' = [handler EXCEPT ![p] = h]
         \/ handler' = [handler EXCEPT ![p] = Idle]
      /\ \/ admins' = admins
         \/ \E c \in Tokens : admins' = [admins EXCEPT ![c] = None]
      /\ UNCHANGED <<user, invites, hashes, ops, expelled>>
  BY DEF LoginIssue, Goto, Return
<1>2. l \in Verifying /\ HandlerFits(l, user) BY <1>1, RequestReads, PlaceShapes
<1>3. /\ l.user \in Users /\ user[l.user].role # "none" /\ user[l.user].cred = l.row.cred
  BY <1>1, <1>2 DEF Verifying, Fresh
<1>4. CookiesInv' BY <1>1, <1>3, SessionIssued
<1>5. UsersInv' /\ Grown BY <1>1, UsersStay DEF IdentityInv, UsersStep
<1>6. InvitesInv' BY <1>1, <1>5, InvitesStay DEF IdentityInv
<1>7. issued + 1 \in Tokens
  BY <1>1, RequestReads, ConstantsTyped DEF CreateUserSession, Tokens
<1>8. h \in Places BY <1>2, <1>7 DEF Places, Verifying, Granting
<1>9. HandlerFits(h, user') BY <1>1, <1>2 DEF HandlerFits
<1>10. HandlersInv' BY <1>1, <1>5, <1>8, <1>9, IdleFits, HandlersMove DEF IdentityInv
<1> QED BY <1>4, <1>5, <1>6, <1>10 DEF IdentityInv

\* So does a registration.
LEMMA WelcomeInv ==
    ASSUME IdentityInv, NEW p \in Handlers, Welcome(p) PROVE IdentityInv'
<1> DEFINE g == handler[p]
<1>1. /\ g.pc = "welcome" /\ handler' = [handler EXCEPT ![p] = Idle]
      /\ \/ Fresh(g.user, g.cred, {user[g.user].version}) /\ CreateUserSession(g.user, g.cred)
         \/ UNCHANGED <<session, issued, proof>>
      /\ UNCHANGED <<user, admins, invites, hashes, ops, expelled>>
  BY DEF Welcome, Return
<1>2. g \in Welcoming BY <1>1, RequestReads, PlaceShapes
<1>3. g.user \in Users BY <1>2 DEF Welcoming
<1>4. UsersInv' /\ Grown BY <1>1, UsersStay DEF IdentityInv, UsersStep
<1>5. CookiesInv'
  <2>1. CASE UNCHANGED <<session, issued, proof>>
    BY <1>1, <1>4, <2>1, CookiesStay DEF IdentityInv
  <2>2. CASE /\ Fresh(g.user, g.cred, {user[g.user].version})
             /\ CreateUserSession(g.user, g.cred)
    <3>1. user[g.user].role # "none" /\ user[g.user].cred = g.cred BY <2>2 DEF Fresh
    <3> QED BY <1>1, <1>3, <2>2, <3>1, SessionIssued
  <2> QED BY <1>1, <2>1, <2>2
<1>6. InvitesInv' BY <1>1, <1>4, InvitesStay DEF IdentityInv
<1>7. HandlersInv' BY <1>1, <1>4, IdleFits, HandlersMove DEF IdentityInv
<1> QED BY <1>4, <1>5, <1>6, <1>7 DEF IdentityInv

\* Cookies are only taken away.
LEMMA CookiesLeave ==
    ASSUME IdentityInv, UNCHANGED <<user, hashes, issued, proof, expelled>>,
           \/ session' = session
           \/ \E c \in Tokens : session' = [session EXCEPT ![c] = None],
           \/ admins' = admins
           \/ \E c \in Tokens : admins' = [admins EXCEPT ![c] = None]
           \/ admins' = [c \in Tokens |-> None]
    PROVE  UsersInv' /\ Grown /\ CookiesInv'
<1>1. UsersInv' /\ Grown BY UsersStay DEF IdentityInv, UsersStep
<1>2. /\ session \in [Tokens -> Cookies \cup {None}]
      /\ admins \in [Tokens -> AdminCookies \cup {None}]
      /\ expelled' \subseteq 1..issued
  BY DEF IdentityInv, CookiesInv, CookiesTyped
<1>3. /\ session' \in [Tokens -> Cookies \cup {None}]
      /\ \A t \in Tokens : session'[t] \in {session[t], None}
  BY <1>2
<1>4. /\ admins' \in [Tokens -> AdminCookies \cup {None}]
      /\ \A t \in Tokens : admins'[t] \in {admins[t], None}
  BY <1>2
<1> QED BY <1>1, <1>2, <1>3, <1>4, CookiesKept DEF IdentityInv

\* The session that proved an administrator's password goes.
LEMMA ReplaceInv ==
    ASSUME IdentityInv, NEW p \in Handlers, Replace(p) PROVE IdentityInv'
<1> DEFINE l == handler[p]
           h == [l EXCEPT !.pc = "grant"]
<1>1. /\ l.pc = "replace" /\ session' = [session EXCEPT ![l.token] = None]
      /\ \/ handler' = [handler EXCEPT ![p] = h]
         \/ handler' = [handler EXCEPT ![p] = Idle]
      /\ UNCHANGED <<user, admins, issued, invites, hashes, ops, ghosts>>
  BY DEF Replace, Goto, Return
<1>2. l \in Granting /\ HandlerFits(l, user) BY <1>1, RequestReads, PlaceShapes
<1>3. l.token \in Tokens BY <1>2 DEF Granting
<1>4. UsersInv' /\ Grown /\ CookiesInv' BY <1>1, <1>3, CookiesLeave DEF ghosts
<1>5. h \in Places /\ h.pc = "grant" /\ h.user = l.user /\ h.row = l.row
  BY <1>2 DEF Places, Granting
<1>6. HandlerFits(h, user') BY <1>1, <1>2, <1>5 DEF HandlerFits
<1> HIDE DEF h
<1>7. HandlersInv' BY <1>1, <1>4, <1>5, <1>6, IdleFits, HandlersMove DEF IdentityInv
<1>8. InvitesInv' BY <1>1, <1>4, InvitesStay DEF IdentityInv
<1> QED BY <1>4, <1>7, <1>8 DEF IdentityInv

\* Logouts, and a stale administrator's cookie is dropped.
LEMMA LeaveInv ==
    ASSUME IdentityInv, NEW t \in Tokens, Logout(t) \/ DropStale(t) PROVE IdentityInv'
<1>1. /\ \/ session' = session
         \/ session' = [session EXCEPT ![t] = None]
      /\ \/ admins' = admins
         \/ admins' = [admins EXCEPT ![t] = None]
      /\ UNCHANGED <<user, issued, invites, hashes, handler, ghosts>>
  BY DEF Logout, DropStale
<1>2. UsersInv' /\ Grown /\ CookiesInv' BY <1>1, CookiesLeave DEF ghosts
<1>3. HandlersInv' BY <1>1, <1>2, HandlersStay DEF IdentityInv
<1>4. InvitesInv' BY <1>1, <1>2, InvitesStay DEF IdentityInv
<1> QED BY <1>2, <1>3, <1>4 DEF IdentityInv

\* The process restarts.
LEMMA RestartInv == ASSUME IdentityInv, Restart PROVE IdentityInv'
<1>1. /\ admins' = [t \in Tokens |-> None] /\ handler' = [p \in Handlers |-> Idle]
      /\ UNCHANGED <<user, session, issued, invites, hashes, ops, ghosts>>
  BY DEF Restart
<1>2. UsersInv' /\ Grown /\ CookiesInv' BY <1>1, CookiesLeave DEF ghosts
<1>3. HandlersInv' BY <1>1, IdleFits DEF HandlersInv, HandlersTyped
<1>4. InvitesInv' BY <1>1, <1>2, InvitesStay DEF IdentityInv
<1> QED BY <1>2, <1>3, <1>4 DEF IdentityInv

\* An administrator's session: of the epoch that was verified, and expelled
\* from the start when that one has ended.
LEMMA GrantInv ==
    ASSUME IdentityInv, NEW p \in Handlers, Grant(p) PROVE IdentityInv'
<1> DEFINE l == handler[p]
           new == issued + 1
           cookie == [user |-> l.user, cred |-> l.row.cred, version |-> l.row.version]
<1>1. /\ l.pc = "grant" /\ issued < MaxTokens /\ issued' = new
      /\ proof' = [proof EXCEPT ![new] = l.row.cred]
      /\ expelled' = IF l.row.version = user[l.user].version THEN expelled
                     ELSE expelled \cup {new}
      /\ handler' = [handler EXCEPT ![p] = Idle]
      /\ UNCHANGED <<user, session, invites, hashes, ops>>
  BY DEF Grant, Return
<1>2. l \in Granting /\ HandlerFits(l, user) BY <1>1, RequestReads, PlaceShapes
<1>3. /\ l.user \in Users /\ user[l.user].role # "none"
      /\ l.row.version \in Nat /\ l.row.cred \in Creds
      /\ user[l.user].version \in Nat /\ l.row.version <= user[l.user].version
  BY <1>1, <1>2, RequestReads DEF Granting, UserRow, HandlerFits
<1>4. CookiesTyped /\ new \in Tokens /\ issued \in Nat
  BY <1>1, RequestReads, ConstantsTyped DEF IdentityInv, CookiesInv, Tokens
<1>5. cookie \in AdminCookies /\ cookie # None
  BY <1>3, ConstantsTyped DEF AdminCookies
<1>6. PICK gone \in {0} \cup {t \in Tokens : admins[t].user = l.user} :
        admins' = [t \in Tokens |-> CASE t = new -> cookie
                                      [] t = gone -> None
                                      [] OTHER -> admins[t]]
  BY DEF Grant
<1>7. gone # new
  <2>1. admins[new] = None BY <1>4 DEF IdentityInv, CookiesInv
  <2> QED BY <1>3, <1>4, <2>1, ConstantsTyped
<1>8. admins' = [t \in Tokens |-> IF t = new THEN cookie
                                  ELSE IF t = gone THEN None ELSE admins[t]]
  BY <1>6, <1>7
<1>9. UsersInv' /\ Grown BY <1>1, UsersStay DEF IdentityInv, UsersStep
<1>10. HandlersInv' BY <1>1, <1>9, IdleFits, HandlersMove DEF IdentityInv
<1>11. InvitesInv' BY <1>1, <1>9, InvitesStay DEF IdentityInv
<1>12. CookiesTyped'
  <2>1. session' \in [Tokens -> Cookies \cup {None}] BY <1>1, <1>4 DEF CookiesTyped
  <2>2. admins' \in [Tokens -> AdminCookies \cup {None}]
    BY <1>4, <1>5, <1>8 DEF CookiesTyped
  <2>3. proof' \in [Tokens -> Creds] BY <1>1, <1>3, <1>4 DEF CookiesTyped
  <2>4. issued' \in Nat /\ expelled \subseteq 1..issued /\ issued' = issued + 1
    BY <1>1, <1>4 DEF CookiesTyped
  <2>5. expelled' \subseteq expelled \cup {issued + 1} BY <1>1
  <2>6. expelled' \subseteq 1..issued' BY <1>4, <2>4, <2>5
  <2>7. issued' <= MaxTokens BY <1>1, <1>4, <2>4, ConstantsTyped
  <2> QED BY <2>1, <2>2, <2>3, <2>4, <2>6, <2>7 DEF CookiesTyped
<1>13. ASSUME NEW t \in Tokens
       PROVE  /\ SessionFits(t)' /\ AdminFits(t)'
              /\ session'[t] = None \/ admins'[t] = None
              /\ t > issued' => session'[t] = None /\ admins'[t] = None
              /\ t \in expelled' => Expelled(t)'
  <2>1. /\ SessionFits(t) /\ AdminFits(t) /\ (session[t] = None \/ admins[t] = None)
        /\ t > issued => session[t] = None /\ admins[t] = None
        /\ t \in expelled => Expelled(t)
    BY DEF IdentityInv, CookiesInv
  <2>2. CASE t = new
    <3>1. session'[t] = None /\ admins'[t] = cookie /\ proof'[t] = l.row.cred
      BY <1>1, <1>4, <1>8, <2>1, <2>2 DEF CookiesTyped
    <3>2. t \in expelled' => l.row.version < user[l.user].version
      BY <1>1, <1>3, <1>4, <2>2 DEF CookiesTyped
    <3>3. SessionFits(t)' BY <3>1 DEF SessionFits
    <3>4. AdminFits(t)' BY <1>1, <1>3, <3>1 DEF AdminFits, Registered
    <3>5. t \in expelled' => Expelled(t)' BY <1>1, <3>1, <3>2 DEF Expelled
    <3> QED BY <1>1, <1>4, <2>2, <3>1, <3>3, <3>4, <3>5
  <2>3. CASE t # new
    <3>1. /\ session'[t] = session[t] /\ admins'[t] \in {admins[t], None}
          /\ proof'[t] = proof[t] /\ (t \in expelled' <=> t \in expelled)
      BY <1>1, <1>4, <1>8, <2>3 DEF CookiesTyped
    <3>2. SessionFits(t)' BY <1>1, <2>1, <3>1 DEF SessionFits, Registered
    <3>3. AdminFits(t)' BY <1>1, <2>1, <3>1 DEF AdminFits, Registered
    <3>4. t \in expelled' => Expelled(t)' BY <1>1, <2>1, <3>1 DEF Expelled
    <3>5. t > issued' => t > issued BY <1>1, <1>4 DEF Tokens
    <3> QED BY <2>1, <3>1, <3>2, <3>3, <3>4, <3>5
  <2> QED BY <2>2, <2>3
<1>14. CookiesInv' BY <1>12, <1>13 DEF CookiesInv
<1> QED BY <1>9, <1>10, <1>11, <1>14 DEF IdentityInv

\* The own password is changed, only over the one that was verified.
LEMMA ChangeWriteInv ==
    ASSUME IdentityInv, NEW p \in Handlers, ChangeWrite(p)
    PROVE  IdentityInv' /\ UsersStep
<1> DEFINE c == handler[p]
           h == [c EXCEPT !.pc = "relogin"]
           row == [user[c.user] EXCEPT !.cred = Hashed(c.secret), !.temp = FALSE]
<1>0. c.pc = "change" /\ UNCHANGED <<issued, invites, ops, proof>> BY DEF ChangeWrite
<1>1. c \in Changing /\ HandlerFits(c, user) BY <1>0, RequestReads, PlaceShapes
<1>2. /\ c.user \in Users /\ c.secret \in Secrets /\ c.cookie \in Tokens
      /\ user[c.user].role # "none" /\ user[c.user] \in UserRow /\ hashes \in Nat
  BY <1>0, <1>1, RequestReads DEF Changing, HandlerFits
<1>3. CASE Return(p) /\ UNCHANGED <<user, session, admins, hashes, expelled>>
  <2>1. UsersStep BY <1>3, UsersStay DEF IdentityInv
  <2>2. IdentityInv' BY <1>0, <1>3, IdleFits, RequestMoves DEF Return, ghosts
  <2> QED BY <2>1, <2>2
<1>4. CASE /\ user[c.user].active /\ Invalidate(c.user, row) /\ hashes' = hashes + 1
           /\ \/ handler' = [handler EXCEPT ![p] = h] /\ admins' = admins
              \/ /\ handler' = [handler EXCEPT ![p] = Idle]
                 /\ admins' = [admins EXCEPT ![c.cookie] = None]
  <2>1. Hashed(c.secret) \in Creds BY <1>2 DEF Hashed, Creds
  <2>2. /\ row \in UserRow /\ row.version = user[c.user].version
        /\ row.role = user[c.user].role /\ row.active = user[c.user].active
    BY <1>2, <2>1 DEF UserRow
  <2>3. Invalidate(c.user, row) /\ hashes' \in Nat BY <1>2, <1>4
  <2> HIDE DEF row
  <2>4. UsersStep /\ CookiesInv'
    BY <1>0, <1>2, <1>4, <2>2, <2>3, InvalidateStep DEF IdentityInv, Registered
  <2>5. h \in Places /\ h.pc = "relogin" /\ h.user = c.user
    BY <1>1 DEF Places, Changing
  <2> HIDE DEF h
  <2>6. HandlerFits(h, user')
    <3>1. user'[c.user].role # "none"
      BY <1>2, <2>4 DEF UsersStep, Grown, Registered
    <3> QED BY <2>5, <3>1 DEF HandlerFits
  <2>7. HandlersInv'
    BY <1>4, <2>4, <2>5, <2>6, IdleFits, HandlersMove DEF IdentityInv, UsersStep
  <2>8. InvitesInv' BY <1>0, <2>4, InvitesStay DEF IdentityInv, UsersStep
  <2> QED BY <2>4, <2>7, <2>8 DEF IdentityInv, UsersStep
<1> QED BY <1>3, <1>4 DEF ChangeWrite, Goto, Return

\* A transaction of an administrator, and what it means for the others'.
LEMMA ActInv == ASSUME IdentityInv, NEW p \in Handlers, Act(p) PROVE IdentityInv'
<1>1. UsersStep /\ CookiesInv' BY ActStep DEF IdentityInv
<1>2. UsersInv' /\ Grown BY <1>1 DEF UsersStep
<1>3. InvitesInv' BY <1>2, InvitesStay DEF IdentityInv, Act
<1> DEFINE Moved(q) == handler[q].pc = "act" /\ handler[q].user # Recovery
                       /\ user'[handler[q].user].version # user[handler[q].user].version
           lost(q) == [handler[q] EXCEPT !.lost = TRUE]
<1>4. handler' = [q \in Handlers |-> IF q = p THEN Idle
                                     ELSE IF Moved(q) THEN lost(q) ELSE handler[q]]
  BY DEF Act
<1>5. ASSUME NEW q \in Handlers
      PROVE  handler'[q] \in Places /\ HandlerFits(handler'[q], user')
  <2>0. handler[q] \in Places /\ HandlerFits(handler[q], user) BY RequestReads
  <2>1. CASE q = p BY <1>4, <2>1, IdleFits
  <2>2. CASE q # p /\ ~Moved(q)
    <3>1. handler'[q] = handler[q] BY <1>4, <2>2
    <3> QED BY <1>2, <2>0, <3>1, FitsKept DEF IdentityInv
  <2>3. CASE q # p /\ Moved(q)
    <3>1. handler'[q] = lost(q) BY <1>4, <2>3
    <3>2. handler[q] \in Acting BY <2>0, <2>3, PlaceShapes
    <3>3. /\ lost(q) \in Places /\ lost(q).pc = "act" /\ lost(q).user = handler[q].user
          /\ lost(q).version = handler[q].version /\ lost(q).version \in Nat
          /\ lost(q).user \in Users
      BY <2>3, <3>2 DEF Places, Acting
    <3>4. user[handler[q].user].version \in Nat /\ user'[handler[q].user].version \in Nat
      BY <1>2, <3>3 DEF IdentityInv, UsersInv, UsersTyped, UserRow
    <3>5. /\ user[handler[q].user].role # "none"
          /\ handler[q].version <= user[handler[q].user].version
      BY <2>0, <2>3 DEF HandlerFits
    <3>6. /\ user'[handler[q].user].role # "none"
          /\ user'[handler[q].user].version > user[handler[q].user].version
      BY <1>2, <2>3, <3>3, <3>5 DEF Grown, Registered
    <3>7. handler[q].version < user'[handler[q].user].version
      BY <3>3, <3>4, <3>5, <3>6
    <3> HIDE DEF lost
    <3>8. HandlerFits(lost(q), user')
      BY <2>3, <3>3, <3>4, <3>6, <3>7 DEF HandlerFits
    <3> QED BY <3>1, <3>3, <3>8
  <2> QED BY <2>1, <2>2, <2>3
<1>6. handler' = [q \in Handlers |-> handler'[q]] BY <1>4
<1>7. HandlersInv' BY <1>5, <1>6 DEF HandlersInv, HandlersTyped
<1> QED BY <1>1, <1>2, <1>3, <1>7 DEF IdentityInv

\* The first owner.
LEMMA BootstrapInv ==
    ASSUME IdentityInv, NEW u \in Users, NEW s \in Secrets, Bootstrap(u, s)
    PROVE  IdentityInv' /\ UsersStep
<1>1. /\ user[u].role = "none" /\ \A v \in Users : ~IsAdminRole(user[v].role)
      /\ user' = [user EXCEPT ![u] = NewUser("owner", Hashed(s), FALSE)]
      /\ hashes' = hashes + 1
      /\ UNCHANGED <<session, admins, issued, invites, handler, ghosts>>
  BY DEF Bootstrap
<1>2. Owners = {} BY <1>1 DEF Owners, IsAdminRole
<1>3. UsersStep BY <1>1, <1>2, NewUserWritten DEF IdentityInv
<1>4. CookiesInv' BY <1>1, <1>3, CookiesStay DEF IdentityInv, UsersStep, ghosts
<1>5. HandlersInv' BY <1>1, <1>3, HandlersStay DEF IdentityInv, UsersStep
<1>6. InvitesInv' BY <1>1, <1>3, InvitesStay DEF IdentityInv, UsersStep
<1> QED BY <1>3, <1>4, <1>5, <1>6 DEF IdentityInv, UsersStep

\* An invite's row is written whole but for its uses.
Edited(x, max, enabled, live) ==
    [x EXCEPT !.made = TRUE, !.max = max, !.enabled = enabled, !.live = live]

\* It stays a row of an invite, which keeps its uses.
LEMMA InviteWritten ==
    ASSUME NEW x \in InviteRow, NEW max \in Nat, NEW enabled \in BOOLEAN, NEW live \in BOOLEAN
    PROVE  LET y == Edited(x, max, enabled, live)
           IN y \in InviteRow /\ y.made /\ y.max = max /\ y.used = x.used
<1> DEFINE a == [x EXCEPT !.made = TRUE]
           b == [a EXCEPT !.max = max]
           c == [b EXCEPT !.enabled = enabled]
           d == [c EXCEPT !.live = live]
<1>1. a \in InviteRow /\ a.made /\ a.used = x.used BY DEF InviteRow
<1>2. b \in InviteRow /\ b.made = a.made /\ b.max = max /\ b.used = a.used
  <2> HIDE DEF a
  <2> QED BY <1>1 DEF InviteRow
<1>3. c \in InviteRow /\ c.made = b.made /\ c.max = b.max /\ c.used = b.used
  <2> HIDE DEF b
  <2> QED BY <1>2 DEF InviteRow
<1>4. d \in InviteRow /\ d.made = c.made /\ d.max = c.max /\ d.used = c.used
  <2> HIDE DEF c
  <2> QED BY <1>3 DEF InviteRow
<1>5. Edited(x, max, enabled, live) = d BY DEF Edited
<1> HIDE DEF d
<1> QED BY <1>1, <1>2, <1>3, <1>4, <1>5

\* An invite is made, changed, revoked or expires: never set below its uses.
LEMMA InviteEdited ==
    ASSUME IdentityInv, NEW c \in Codes, SetInvite(c) \/ ExpireInvite(c)
    PROVE  IdentityInv'
<1>1. UNCHANGED <<user, session, admins, issued, redeemed, hashes, handler, ghosts>>
  BY DEF SetInvite, ExpireInvite
<1>2. UsersInv' /\ Grown BY <1>1, UsersStay DEF IdentityInv, UsersStep
<1>3. CookiesInv' BY <1>1, <1>2, CookiesStay DEF IdentityInv, ghosts
<1>4. HandlersInv' BY <1>1, <1>2, HandlersStay DEF IdentityInv
<1>5. /\ invite \in [Codes -> InviteRow] /\ redeemed \in [Codes -> SUBSET Users]
      /\ invite[c] \in InviteRow /\ Limits \subseteq Nat
  BY ConstantsTyped DEF IdentityInv, InvitesInv, InvitesTyped
<1>6. PICK row \in InviteRow : /\ invite' = [invite EXCEPT ![c] = row]
                               /\ row.used = invite[c].used
                               /\ row.made \/ row.used = 0
                               /\ row.max # 0 => row.used <= row.max
  <2>1. CASE ExpireInvite(c)
    <3>1. [invite[c] EXCEPT !.live = FALSE] \in InviteRow BY <1>5 DEF InviteRow
    <3>2. invite[c].max # 0 => invite[c].used <= invite[c].max
      BY DEF IdentityInv, InvitesInv, InvitesExact
    <3>3. invite[c].made \/ invite[c].used = 0 BY DEF IdentityInv, InvitesInv, Unused
    <3> QED BY <1>5, <2>1, <3>1, <3>2, <3>3 DEF ExpireInvite, InviteRow
  <2>2. CASE SetInvite(c)
    <3>1. PICK max \in Limits, enabled \in BOOLEAN, live \in BOOLEAN :
            /\ invite[c].made => max = 0 \/ invite[c].used <= max
            /\ invite' = [invite EXCEPT ![c] = [@ EXCEPT !.made = TRUE, !.max = max,
                                                !.enabled = enabled, !.live = live]]
      BY <2>2 DEF SetInvite
    <3> DEFINE row == Edited(invite[c], max, enabled, live)
    <3>2. row \in InviteRow /\ row.made /\ row.max = max /\ row.used = invite[c].used
      BY <1>5, InviteWritten
    <3>4. invite' = [invite EXCEPT ![c] = row] BY <3>1 DEF Edited
    <3> HIDE DEF row
    <3>5. row.max # 0 => row.used <= row.max
      BY <1>5, <3>1, <3>2 DEF IdentityInv, InvitesInv, Unused
    <3> QED BY <3>2, <3>4, <3>5
  <2> QED BY <2>1, <2>2
<1>7. invite' \in [Codes -> InviteRow] BY <1>5, <1>6
<1>8. InvitesInv'
  <2>1. InvitesExact /\ Unused BY DEF IdentityInv, InvitesInv
  <2>2. \A d \in Codes : invite'[d] = IF d = c THEN row ELSE invite[d] BY <1>5, <1>6
  <2>3. row.made \/ row.used = 0 BY <1>6
  <2>4. InvitesExact' BY <1>1, <1>6, <2>1, <2>2 DEF InvitesExact
  <2>5. Unused' BY <1>6, <2>1, <2>2, <2>3 DEF Unused
  <2> QED BY <1>1, <1>5, <1>7, <2>4, <2>5 DEF InvitesInv, InvitesTyped
<1> QED BY <1>2, <1>3, <1>4, <1>8 DEF IdentityInv

\* A registration: the code is checked again as the user is created, so that
\* each use of it is another user's.
LEMMA RegisterInv ==
    ASSUME IdentityInv, NEW p \in Handlers, Register(p)
    PROVE  IdentityInv' /\ UsersStep
<1> DEFINE g == handler[p]
           h == [pc |-> "welcome", user |-> g.user, cred |-> Hashed(g.secret)]
<1>0. g.pc = "register" /\ UNCHANGED <<session, admins, issued, ops, ghosts>>
  BY DEF Register
<1>1. g \in Registering BY <1>0, RequestReads, PlaceShapes
<1>2. g.user \in Users /\ g.secret \in Secrets /\ g.code \in Codes \cup {NoCode}
  BY <1>1 DEF Registering
<1>3. CASE Return(p) /\ UNCHANGED <<user, hashes, invites>>
  <2>1. UsersStep BY <1>3, UsersStay DEF IdentityInv
  <2>2. IdentityInv' BY <1>0, <1>3, IdleFits, RequestMoves DEF Return
  <2> QED BY <2>1, <2>2
<1>4. CASE /\ user[g.user].role = "none" /\ (g.code # NoCode => Redeemable(g.code))
           /\ user' = [user EXCEPT ![g.user] = NewUser("user", Hashed(g.secret), FALSE)]
           /\ hashes' = hashes + 1
           /\ IF g.code = NoCode THEN UNCHANGED invites
              ELSE /\ invite' = [invite EXCEPT ![g.code].used = @ + 1]
                   /\ redeemed' = [redeemed EXCEPT ![g.code] = @ \cup {g.user}]
           /\ handler' = [handler EXCEPT ![p] = h]
  <2>1. UsersStep /\ Hashed(g.secret) \in Creds
    BY <1>2, <1>4, NewUserWritten DEF IdentityInv
  <2>2. UsersInv' /\ Grown BY <2>1 DEF UsersStep
  <2>3. CookiesInv' BY <1>0, <2>2, CookiesStay DEF IdentityInv, ghosts
  <2>4. h \in Places BY <1>2, <2>1 DEF Places, Welcoming
  <2>5. HandlerFits(h, user') BY DEF HandlerFits
  <2>6. HandlersInv' BY <1>4, <2>2, <2>4, <2>5, HandlersMove DEF IdentityInv
  <2>7. InvitesInv'
    <3>1. CASE g.code = NoCode
      BY <1>4, <2>2, <3>1, InvitesStay DEF IdentityInv
    <3>2. CASE g.code # NoCode
      <4> DEFINE c == g.code
      <4>1. c \in Codes BY <1>2, <3>2
      <4>2. /\ invite \in [Codes -> InviteRow] /\ redeemed \in [Codes -> SUBSET Users]
            /\ InvitesExact /\ Unused
        BY DEF IdentityInv, InvitesInv, InvitesTyped
      <4>3. /\ invite' = [invite EXCEPT ![c].used = @ + 1]
            /\ redeemed' = [redeemed EXCEPT ![c] = @ \cup {g.user}]
            /\ invite[c].max = 0 \/ invite[c].used < invite[c].max
            /\ invite[c].made
        BY <1>4, <3>2 DEF Redeemable, Open
      <4> HIDE DEF c
      <4> DEFINE row == [invite[c] EXCEPT !.used = @ + 1]
      <4>4. /\ row \in InviteRow /\ row.used = invite[c].used + 1
            /\ row.max = invite[c].max /\ row.max \in Nat /\ row.used \in Nat
            /\ row.made = invite[c].made
        BY <4>1, <4>2 DEF InviteRow
      <4>5. invite' = [invite EXCEPT ![c] = row] BY <4>1, <4>2, <4>3
      <4> HIDE DEF row
      <4>6. InvitesTyped' BY <1>2, <4>1, <4>2, <4>3, <4>4, <4>5 DEF InvitesTyped
      <4>7. Cardinality(redeemed[c] \cup {g.user}) = Cardinality(redeemed[c]) + 1
        <5>1. IsFiniteSet(redeemed[c]) BY <4>1, <4>2, ConstantsTyped, FS_Subset
        <5>2. g.user \notin redeemed[c] BY <1>4, <4>1, <4>2 DEF InvitesExact
        <5> QED BY <5>1, <5>2, FS_AddElement
      <4>8. ASSUME NEW d \in Codes
            PROVE  /\ invite'[d].used = Cardinality(redeemed'[d])
                   /\ invite'[d].max # 0 => invite'[d].used <= invite'[d].max
                   /\ \A u \in redeemed'[d] : user'[u].role # "none"
        <5>1. CASE d = c
          <6>1. invite'[d] = row /\ redeemed'[d] = redeemed[c] \cup {g.user}
            BY <4>1, <4>2, <4>3, <4>5, <5>1
          <6>2. row.used = Cardinality(redeemed'[d])
            BY <4>1, <4>2, <4>4, <4>7, <6>1 DEF InvitesExact
          <6>3. row.max # 0 => row.used <= row.max
            BY <4>1, <4>2, <4>3, <4>4 DEF InvitesExact, InviteRow
          <6>4. user'[g.user].role # "none"
            <7>1. g.user \in DOMAIN user BY <1>2, RequestReads
            <7> QED BY <1>4, <7>1 DEF NewUser
          <6>5. \A u \in redeemed[c] : user'[u].role # "none"
            BY <2>2, <4>1, <4>2 DEF Grown, Registered, InvitesExact
          <6> QED BY <6>1, <6>2, <6>3, <6>4, <6>5
        <5>2. CASE d # c
          <6>1. invite'[d] = invite[d] /\ redeemed'[d] = redeemed[d]
            BY <4>1, <4>2, <4>3, <4>5, <5>2
          <6>2. \A u \in redeemed[d] : user'[u].role # "none"
            BY <2>2, <4>2 DEF Grown, Registered, InvitesExact
          <6> QED BY <4>2, <6>1, <6>2 DEF InvitesExact
        <5> QED BY <5>1, <5>2
      <4>9. Unused' BY <4>1, <4>2, <4>3, <4>4, <4>5 DEF Unused
      <4> QED BY <4>6, <4>8, <4>9 DEF InvitesInv, InvitesExact
    <3> QED BY <3>1, <3>2
  <2> QED BY <2>1, <2>2, <2>3, <2>6, <2>7 DEF IdentityInv
<1> QED BY <1>3, <1>4 DEF Register, Goto

-----------------------------------------------------------------------------
\* The invariant holds from the beginning on

\* An existing database has at most one owner.
LEMMA SettledOwner ==
    \A u, v \in Users : Settled[u] = "owner" /\ Settled[v] = "owner" => u = v
<1> DEFINE S == {u \in Users : Settled[u] = "owner"}
<1> SUFFICES ASSUME NEW u \in S, NEW v \in S, u # v PROVE FALSE OBVIOUS
<1>1. IsFiniteSet(S) /\ Cardinality(S) <= 1 /\ Cardinality(S) \in Nat
  <2>1. S \subseteq Users /\ IsFiniteSet(Users) /\ Cardinality(S) <= 1
    BY IdentityAssumption
  <2> HIDE DEF S
  <2> QED BY <2>1, FS_Subset, FS_CardinalityType
<1> HIDE DEF S
<1>2. IsFiniteSet({u}) /\ Cardinality({u}) = 1 BY FS_Singleton
<1>3. Cardinality({u} \cup {v}) = 2 BY <1>2, FS_AddElement
<1>4. {u} \cup {v} \subseteq S OBVIOUS
<1>5. Cardinality({u} \cup {v}) <= Cardinality(S) BY <1>1, <1>4, FS_Subset
<1> QED BY <1>1, <1>3, <1>5

\* Nobody is logged in, nothing is in flight, and no code is used.
LEMMA InitIdentity == Init => IdentityInv
<1> SUFFICES ASSUME Init PROVE IdentityInv OBVIOUS
<1>1. user \in [Users -> UserRow] /\ \A u \in Users :
        user[u].version = 0 /\ user[u].active /\ (user[u].role = "owner" => Settled[u] = "owner")
  <2> DEFINE First(role) == [NoUser EXCEPT !.role = role]
  <2>1. \A role \in Roles : First(role) \in UserRow /\ First(role).version = 0
                            /\ First(role).active /\ First(role).role = role
    BY ConstantsTyped DEF UserRow
  <2>2. \A u \in Users : Settled[u] \in Roles BY IdentityAssumption DEF Roles
  <2>3. CASE user = [u \in Users |-> NoUser] BY <2>3, ConstantsTyped
  <2>4. CASE user = [u \in Users |-> First(Settled[u])]
    <3> HIDE DEF First
    <3> QED BY <2>1, <2>2, <2>4
  <2>5. CASE user = [u \in Users |-> First(IF IsAdminRole(Settled[u]) THEN "admin"
                                           ELSE Settled[u])]
    <3>1. \A u \in Users : (IF IsAdminRole(Settled[u]) THEN "admin" ELSE Settled[u]) \in Roles
      BY <2>2 DEF Roles
    <3> HIDE DEF First
    <3> QED BY <2>1, <2>5, <3>1 DEF IsAdminRole
  <2> QED BY <2>3, <2>4, <2>5 DEF Init
<1>2. UsersInv
  <2>1. UsersTyped BY <1>1 DEF UsersTyped, Init
  <2>2. \A u, v \in Owners : u = v BY <1>1, SettledOwner DEF Owners
  <2> QED BY <1>1, <2>1, <2>2 DEF UsersInv, Owners
<1>3. CookiesInv
  <2>1. /\ session = [t \in Tokens |-> None] /\ admins = [t \in Tokens |-> None]
        /\ proof = [t \in Tokens |-> NoUser.cred] /\ issued = 0 /\ expelled = {}
    BY DEF Init
  <2>2. CookiesTyped
    <3>1. 0 <= MaxTokens BY ConstantsTyped
    <3> QED BY <2>1, <3>1, ConstantsTyped DEF CookiesTyped
  <2> QED BY <2>1, <2>2 DEF CookiesInv, SessionFits, AdminFits
<1>4. HandlersInv BY IdleFits DEF Init, HandlersInv, HandlersTyped
<1>5. InvitesInv
  BY FS_EmptySet DEF Init, InvitesInv, InvitesTyped, InviteRow, InvitesExact, Unused
<1> QED BY <1>2, <1>3, <1>4, <1>5 DEF IdentityInv

\* A request's step.
LEMMA RequestInv ==
    ASSUME IdentityInv, NEW p \in Handlers, Request(p) PROVE IdentityInv'
<1>1. CASE \E u \in Users, s \in Secrets, surface \in {"portal", "admin"} :
             LoginRead(p, u, s, surface)
  BY <1>1, LoginReadInv
<1>2. CASE LoginRefused(p) \/ ActRefused(p) BY <1>2, ReturnInv
<1>3. CASE LoginIssue(p) \/ Replace(p) \/ Grant(p)
  BY <1>3, LoginIssueInv, ReplaceInv, GrantInv
<1>4. CASE \E t \in Tokens, old, new \in Secrets : ChangeEnter(p, t, old, new)
  BY <1>4, ChangeEnterInv
<1>5. CASE ChangeRead(p) \/ ChangeWrite(p) \/ Relogin(p)
  BY <1>5, ChangeReadInv, ChangeWriteInv, ReloginInv
<1>6. CASE ActorEnter(p) \/ Act(p) BY <1>6, ActorEnterInv, ActInv
<1>7. CASE \E c \in Codes \cup {NoCode}, u \in Users, s \in Secrets : RegisterCheck(p, c, u, s)
  BY <1>7, RegisterCheckInv
<1>8. CASE Register(p) \/ Welcome(p) BY <1>8, RegisterInv, WelcomeInv
<1> QED BY <1>1, <1>2, <1>3, <1>4, <1>5, <1>6, <1>7, <1>8 DEF Request

\* Nothing happens.
LEMMA StutterInv == ASSUME IdentityInv, UNCHANGED vars PROVE IdentityInv'
<1>1. UNCHANGED <<user, hashes>> /\ UNCHANGED <<session, admins, issued, proof, expelled>>
      /\ UNCHANGED invites /\ handler' = handler
  BY DEF vars, invites
<1>2. UsersInv' /\ Grown BY <1>1, UsersStay DEF IdentityInv, UsersStep
<1> QED BY <1>1, <1>2, CookiesStay, HandlersStay, InvitesStay DEF IdentityInv

\* Every step keeps the invariant.
LEMMA StepInv == IdentityInv /\ [Next]_vars => IdentityInv'
<1> SUFFICES ASSUME IdentityInv, [Next]_vars PROVE IdentityInv' OBVIOUS
<1>1. CASE \E p \in Handlers : Request(p) BY <1>1, RequestInv
<1>2. CASE \E t \in Tokens : Logout(t) \/ DropStale(t) BY <1>2, LeaveInv
<1>3. CASE \E u \in Users, s \in Secrets : Bootstrap(u, s) BY <1>3, BootstrapInv
<1>4. CASE \E c \in Codes : SetInvite(c) \/ ExpireInvite(c) BY <1>4, InviteEdited
<1>5. CASE Restart BY <1>5, RestartInv
<1>6. CASE UNCHANGED vars BY <1>6, StutterInv
<1> QED BY <1>1, <1>2, <1>3, <1>4, <1>5, <1>6 DEF Next

\* The invariant, of every behaviour.
LEMMA InvariantOfIdentity == Spec => []IdentityInv
BY InitIdentity, StepInv, PTL DEF Spec

-----------------------------------------------------------------------------
\* Theorems

\* What a cookie that is accepted stands for.
LEMMA CookiesMean == ASSUME IdentityInv PROVE IdentitiesProven
<1>0. expelled \subseteq Tokens
  <2>1. expelled \subseteq 1..issued /\ issued \in Nat /\ issued <= MaxTokens
    BY DEF IdentityInv, CookiesInv, CookiesTyped
  <2> QED BY <2>1, ConstantsTyped DEF Tokens
<1> SUFFICES ASSUME NEW t \in Tokens
             PROVE  /\ PortalAccepts(t) => proof[t] = user[session[t].user].cred
                    /\ AdminAccepts(t) => proof[t] = user[admins[t].user].cred
                    /\ t \in expelled => ~PortalAccepts(t) /\ ~AdminAccepts(t)
  BY <1>0 DEF IdentitiesProven, SessionsProven, RevokedStaysOut
<1>1. SessionFits(t) /\ AdminFits(t) /\ (t \in expelled => Expelled(t))
  BY DEF IdentityInv, CookiesInv
<1>2. PortalAccepts(t) => proof[t] = user[session[t].user].cred
  BY <1>1 DEF PortalAccepts, SessionFits
<1>3. AdminAccepts(t) => proof[t] = user[admins[t].user].cred
  BY <1>1 DEF AdminAccepts, AdminFits
<1>4. t \in expelled => ~PortalAccepts(t) BY <1>1 DEF PortalAccepts, Expelled
<1>5. t \in expelled => ~AdminAccepts(t)
  <2> SUFFICES ASSUME t \in expelled, AdminAccepts(t) PROVE FALSE OBVIOUS
  <2>1. admins[t] # None /\ user[admins[t].user].version = admins[t].version
    BY DEF AdminAccepts
  <2>2. admins[t].version \in Nat
    BY <2>1 DEF IdentityInv, CookiesInv, CookiesTyped, AdminCookies
  <2> QED BY <1>1, <2>1, <2>2 DEF Expelled
<1> QED BY <1>2, <1>3, <1>4, <1>5

\* A cookie that is accepted stands for the password that is valid now, and one
\* whose user was disabled, reset, promoted or demoted since never comes back
\* (CreateUserSession's compare, session_version, resolveAdminIdentity).
THEOREM IdentitiesHold == Spec => []IdentitiesProven
<1>1. IdentityInv => IdentitiesProven BY CookiesMean
<1> QED BY <1>1, InvariantOfIdentity, PTL

\* An invite admits as many users as it says, however many registrations are
\* in flight with it (consumeInvite in the transaction of the user).
THEOREM InvitesHold == Spec => []InvitesExact
<1>1. IdentityInv => InvitesExact BY DEF IdentityInv, InvitesInv
<1> QED BY <1>1, InvariantOfIdentity, PTL

\* Who may change the users, and how: an owner remains, and a request whose
\* authority is lost changes nothing.
Lawful ==
    /\ UsersStep
    /\ \A p \in Handlers :
        handler[p].pc = "act" /\ handler'[p] = Idle /\ handler[p].lost => UNCHANGED user

\* A request's step is lawful.
LEMMA RequestLawful ==
    ASSUME IdentityInv, NEW p \in Handlers, Request(p) PROVE Lawful
<1>1. ASSUME UNCHANGED <<user, hashes>> PROVE Lawful
  BY <1>1, UsersStay DEF Lawful, IdentityInv
<1>2. CASE ChangeWrite(p) \/ Register(p)
  <2>1. UsersStep BY <1>2, ChangeWriteInv, RegisterInv
  <2>2. handler[p].pc \in {"change", "register"} BY <1>2 DEF ChangeWrite, Register
  <2>3. \A q \in Handlers : q # p => handler'[q] = handler[q]
    BY <1>2 DEF IdentityInv, HandlersInv, HandlersTyped, ChangeWrite, Register, Goto, Return
  <2>4. ASSUME NEW q \in Handlers, handler[q].pc = "act" PROVE handler'[q] # Idle
    <3>1. q # p BY <2>2, <2>4
    <3> QED BY <2>3, <2>4, <3>1 DEF Idle
  <2> QED BY <2>1, <2>4 DEF Lawful
<1>3. CASE Act(p)
  <2>1. UsersStep /\ ~handler[p].lost BY <1>3, ActStep DEF IdentityInv
  <2>2. ASSUME NEW q \in Handlers, q # p, handler[q].pc = "act" PROVE handler'[q] # Idle
    <3>1. handler[q] \in Acting BY <2>2, RequestReads, PlaceShapes
    <3>2. handler'[q] \in {handler[q], [handler[q] EXCEPT !.lost = TRUE]}
      BY <1>3, <2>2 DEF Act
    <3>3. handler'[q].pc = "act" BY <2>2, <3>1, <3>2 DEF Acting
    <3> QED BY <3>3 DEF Idle
  <2> QED BY <2>1, <2>2 DEF Lawful
<1>4. CASE \E u \in Users, s \in Secrets, surface \in {"portal", "admin"} :
             LoginRead(p, u, s, surface)
  BY <1>1, <1>4 DEF LoginRead
<1>5. CASE LoginRefused(p) \/ LoginIssue(p) \/ Replace(p) \/ Grant(p)
  BY <1>1, <1>5 DEF LoginRefused, LoginIssue, Replace, Grant
<1>6. CASE \E t \in Tokens, old, new \in Secrets : ChangeEnter(p, t, old, new)
  BY <1>1, <1>6 DEF ChangeEnter
<1>7. CASE ChangeRead(p) \/ Relogin(p) \/ ActorEnter(p) \/ ActRefused(p) \/ Welcome(p)
  BY <1>1, <1>7 DEF ChangeRead, Relogin, ActorEnter, ActRefused, Welcome
<1>8. CASE \E c \in Codes \cup {NoCode}, u \in Users, s \in Secrets : RegisterCheck(p, c, u, s)
  BY <1>1, <1>8 DEF RegisterCheck
<1> QED BY <1>2, <1>3, <1>4, <1>5, <1>6, <1>7, <1>8 DEF Request

\* Every step is lawful.
LEMMA StepLawful == IdentityInv /\ [Next]_vars => Lawful
<1> SUFFICES ASSUME IdentityInv, [Next]_vars PROVE Lawful OBVIOUS
<1>1. ASSUME UNCHANGED <<user, hashes>> PROVE Lawful
  BY <1>1, UsersStay DEF Lawful, IdentityInv
<1>2. CASE \E p \in Handlers : Request(p) BY <1>2, RequestLawful
<1>3. CASE \E t \in Tokens : Logout(t) \/ DropStale(t) BY <1>1, <1>3 DEF Logout, DropStale
<1>4. CASE \E u \in Users, s \in Secrets : Bootstrap(u, s)
  <2>1. UsersStep /\ handler' = handler BY <1>4, BootstrapInv DEF Bootstrap
  <2> QED BY <2>1 DEF Lawful, Idle
<1>5. CASE \E c \in Codes : SetInvite(c) \/ ExpireInvite(c)
  BY <1>1, <1>5 DEF SetInvite, ExpireInvite
<1>6. CASE Restart \/ UNCHANGED vars BY <1>1, <1>6 DEF Restart, vars
<1> QED BY <1>2, <1>3, <1>4, <1>5, <1>6 DEF Next

\* Once there is an owner there is exactly one, who is active, whatever the
\* order of transfers, demotions and resets; and an administrator who loses
\* his authority while his request is processed changes nothing
\* (TransferOwner, ManageIdentity, identityActor).
THEOREM OwnershipHolds == Spec => OwnershipStands
<1>1. IdentityInv /\ Lawful => OwnerStands
  <2> SUFFICES ASSUME UsersStep, Owners # {}
               PROVE  Cardinality(Owners') = 1 /\ \A u \in Owners' : user'[u].active
    BY DEF Lawful, OwnerStands
  <2>1. PICK u \in Owners' : TRUE BY DEF UsersStep
  <2>2. Owners' = {u} BY <2>1 DEF UsersStep, UsersInv
  <2>3. \A v \in Owners' : user'[v].active BY DEF UsersStep, UsersInv
  <2> QED BY <2>2, <2>3, FS_Singleton
<1>2. IdentityInv /\ [Next]_vars => [OwnerStands]_vars BY <1>1, StepLawful
<1>3. IdentityInv /\ [Next]_vars =>
        [\A p \in Handlers : handler[p].pc = "act" /\ handler'[p] = Idle /\ handler[p].lost
            => UNCHANGED user]_vars
  BY StepLawful DEF Lawful
<1> QED BY <1>2, <1>3, InvariantOfIdentity, PTL DEF Spec, OwnershipStands, LostAuthority
-----------------------------------------------------------------------------
\* What is counted: a password has the serial number of one that was hashed,
\* and nobody has more sessions than he may.

PortalOf(u) == {t \in Tokens : session[t].user = u}
AdminOf(u) == {t \in Tokens : admins[t].user = u}

Serials == \A u \in Users : user[u].cred.serial <= hashes
Capped == \A u \in Users : /\ Cardinality(PortalOf(u)) <= SessionCap
                           /\ Cardinality(AdminOf(u)) <= AdminCap
CountsInv == Serials /\ Capped /\ ops \in Nat /\ ops <= MaxOps

\* What a step may do to them: hash a password and keep it, take cookies away,
\* or issue one beyond those that the cap leaves.
Keeps ==
    /\ hashes' \in {hashes, hashes + 1}
    /\ \A u \in Users : \/ user'[u].cred = user[u].cred
                        \/ hashes' = hashes + 1 /\ user'[u].cred.serial = hashes + 1
Takes(before, after) == \A t \in Tokens : after[t] \in {before[t], None}
Opens == Takes(session, session') \/ \E u \in Users, c \in Creds : CreateUserSession(u, c)
Admits == Takes(admins, admins') \/ \E p \in Handlers : Grant(p)
Asks == ops' = ops \/ (ops < MaxOps /\ ops' = ops + 1)

Counts == Keeps /\ Opens /\ Admits /\ Asks

\* A nonempty set of numbers has a least one, which a full table drops.
LEMMA Least ==
    ASSUME NEW S \in SUBSET Nat, S # {}
    PROVE  Min(S) \in S
<1> DEFINE less == {e \in Nat \X Nat : e[1] < e[2]}
<1>1. OpToRel(<, Nat) = less BY DEF OpToRel
<1>2. IsWellFoundedOn(less, Nat) BY <1>1, NatLessThanWellFounded
<1>3. PICK x \in S : \A y \in S : <<y, x>> \notin less BY <1>2, WFMin
<1>4. ASSUME NEW y \in S PROVE x <= y
  <2>1. y \in Nat /\ x \in Nat OBVIOUS
  <2>2. ~(y < x) BY <1>3, <2>1
  <2> QED BY <2>1, <2>2
<1>5. \E z \in S : \A y \in S : z =< y BY <1>4
<1> QED BY <1>5 DEF Min

\* Cookies go, or one comes where there is room or for one that goes.
LEMMA CapKept ==
    ASSUME NEW cap \in Nat, NEW S, IsFiniteSet(S), Cardinality(S) <= cap, NEW x, NEW T,
           \/ T \subseteq S
           \/ Cardinality(S) < cap /\ T \subseteq S \cup {x}
           \/ \E d \in S : T \subseteq (S \ {d}) \cup {x}
    PROVE  Cardinality(T) <= cap
<1>1. Cardinality(S) \in Nat BY FS_CardinalityType
<1>2. CASE T \subseteq S
  <2>1. Cardinality(T) <= Cardinality(S) /\ Cardinality(T) \in Nat
    BY <1>2, FS_Subset, FS_CardinalityType
  <2> QED BY <1>1, <2>1
<1>3. CASE Cardinality(S) < cap /\ T \subseteq S \cup {x}
  <2>1. IsFiniteSet(S \cup {x}) /\ Cardinality(S \cup {x}) <= Cardinality(S) + 1
    BY <1>1, FS_AddElement
  <2>2. /\ Cardinality(T) <= Cardinality(S \cup {x})
        /\ Cardinality(T) \in Nat /\ Cardinality(S \cup {x}) \in Nat
    BY <1>3, <2>1, FS_Subset, FS_CardinalityType
  <2> QED BY <1>1, <1>3, <2>1, <2>2
<1>4. ASSUME NEW d \in S, T \subseteq (S \ {d}) \cup {x} PROVE Cardinality(T) <= cap
  <2> DEFINE R == S \ {d}
  <2>1. IsFiniteSet(R) /\ Cardinality(R) = Cardinality(S) - 1 BY FS_RemoveElement
  <2>2. T \subseteq R \cup {x} BY <1>4
  <2> HIDE DEF R
  <2>3. Cardinality(R) \in Nat BY <2>1, FS_CardinalityType
  <2>4. IsFiniteSet(R \cup {x}) /\ Cardinality(R \cup {x}) <= Cardinality(R) + 1
    <3>1. /\ IsFiniteSet(R \cup {x})
          /\ Cardinality(R \cup {x}) =
               IF x \in R THEN Cardinality(R) ELSE Cardinality(R) + 1
      BY <2>1, FS_AddElement
    <3> QED BY <2>3, <3>1
  <2>5. /\ Cardinality(T) <= Cardinality(R \cup {x})
        /\ Cardinality(T) \in Nat /\ Cardinality(R \cup {x}) \in Nat
    BY <2>2, <2>4, FS_Subset, FS_CardinalityType
  <2> QED BY <1>1, <2>1, <2>3, <2>4, <2>5
<1> QED BY <1>2, <1>3, <1>4

\* Tokens are finitely many.
LEMMA TokensFinite ==
    /\ \A S \in SUBSET Tokens : IsFiniteSet(S)
    /\ SessionCap \in Nat /\ AdminCap \in Nat
<1>1. IsFiniteSet(Tokens) BY ConstantsTyped, FS_Interval DEF Tokens
<1> QED BY <1>1, FS_Subset, IdentityAssumption

\* createUserSession: the oldest of the user's sessions goes when he has as
\* many as he may.
LEMMA OpensCapped ==
    ASSUME IdentityInv, Capped, Opens, NEW u \in Users
    PROVE  Cardinality(PortalOf(u)') <= SessionCap
<1> DEFINE S == PortalOf(u)
           T == PortalOf(u)'
<1>1. /\ IsFiniteSet(S) /\ Cardinality(S) <= SessionCap /\ SessionCap \in Nat
      /\ u # None.user
  BY TokensFinite, ConstantsTyped DEF Capped, PortalOf
<1>2. CASE Takes(session, session')
  <2>1. T \subseteq S BY <1>1, <1>2 DEF Takes, PortalOf
  <2> QED BY <1>1, <2>1, CapKept
<1>3. ASSUME NEW v \in Users, NEW c \in Creds, CreateUserSession(v, c)
      PROVE  Cardinality(T) <= SessionCap
  <2> DEFINE own == PortalOf(v)
             kept == IF Cardinality(own) < SessionCap THEN own ELSE own \ {Min(own)}
             new == issued + 1
             row == [user |-> v, version |-> user[v].version]
  <2>1. session' = [t \in Tokens |-> CASE t = new -> row
                                       [] t \in own \ kept -> None
                                       [] OTHER -> session[t]]
    BY <1>3 DEF CreateUserSession, PortalOf
  <2>2. new \notin own
    <3>1. issued \in Nat /\ issued < MaxTokens /\ MaxTokens \in Nat
      BY <1>3, ConstantsTyped DEF CreateUserSession, IdentityInv, CookiesInv, CookiesTyped
    <3>2. session[new] = None BY <3>1 DEF IdentityInv, CookiesInv, Tokens
    <3> QED BY <3>2, ConstantsTyped DEF PortalOf
  <2>3. row.user = v OBVIOUS
  <2> HIDE DEF row, kept, new
  <2>4. CASE u # v
    <3>1. T \subseteq S BY <1>1, <2>1, <2>2, <2>3, <2>4 DEF PortalOf
    <3> QED BY <1>1, <3>1, CapKept
  <2>5. CASE u = v /\ Cardinality(own) < SessionCap
    <3>1. Cardinality(S) < SessionCap BY <2>5
    <3>2. T \subseteq S \cup {new} BY <2>1, <2>5 DEF PortalOf
    <3> HIDE DEF S, T
    <3> QED BY <1>1, <3>1, <3>2, CapKept
  <2>6. CASE u = v /\ ~(Cardinality(own) < SessionCap)
    <3>1. own # {}
      <4>1. SessionCap > 0 BY IdentityAssumption
      <4> QED BY <1>1, <2>6, <4>1, FS_EmptySet
    <3>2. own \in SUBSET Nat BY DEF PortalOf, Tokens
    <3>3. Min(own) \in own BY <3>1, <3>2, Least
    <3>4. own \ kept = {Min(own)} BY <2>6, <3>3 DEF kept
    <3>5. T \subseteq (S \ {Min(own)}) \cup {new}
      BY <1>1, <2>1, <2>6, <3>4 DEF PortalOf
    <3>6. Min(own) \in S BY <2>6, <3>3
    <3> HIDE DEF S, T
    <3>7. \E d \in S : T \subseteq (S \ {d}) \cup {new} BY <3>5, <3>6
    <3> QED BY <1>1, <3>7, CapKept
  <2> QED BY <2>4, <2>5, <2>6
<1> QED BY <1>2, <1>3 DEF Opens

\* createForUser: so does one of an administrator's.
LEMMA AdmitsCapped ==
    ASSUME IdentityInv, Capped, Admits, NEW u \in Users
    PROVE  Cardinality(AdminOf(u)') <= AdminCap
<1> DEFINE S == AdminOf(u)
           T == AdminOf(u)'
<1>1. /\ IsFiniteSet(S) /\ Cardinality(S) <= AdminCap /\ AdminCap \in Nat
      /\ u # None.user
  BY TokensFinite, ConstantsTyped DEF Capped, AdminOf
<1>2. CASE Takes(admins, admins')
  <2>1. T \subseteq S BY <1>1, <1>2 DEF Takes, AdminOf
  <2> QED BY <1>1, <2>1, CapKept
<1>3. ASSUME NEW p \in Handlers, Grant(p) PROVE Cardinality(T) <= AdminCap
  <2> DEFINE l == handler[p]
             own == AdminOf(l.user)
             new == issued + 1
             cookie == [user |-> l.user, cred |-> l.row.cred, version |-> l.row.version]
  <2>1. PICK gone \in (IF Cardinality(own) < AdminCap THEN {0} ELSE own) :
          admins' = [t \in Tokens |-> CASE t = new -> cookie
                                        [] t = gone -> None
                                        [] OTHER -> admins[t]]
    BY <1>3 DEF Grant, AdminOf
  <2>2. new \notin own /\ l.user \in Users
    <3>1. l.user \in Users
      BY <1>3, RequestReads, PlaceShapes DEF Grant, Granting
    <3>2. issued \in Nat /\ issued < MaxTokens /\ MaxTokens \in Nat
      BY <1>3, ConstantsTyped DEF Grant, IdentityInv, CookiesInv, CookiesTyped
    <3>3. admins[new] = None BY <3>2 DEF IdentityInv, CookiesInv, Tokens
    <3> QED BY <3>1, <3>3, ConstantsTyped DEF AdminOf
  <2>3. cookie.user = l.user OBVIOUS
  <2> HIDE DEF cookie, new
  <2>4. CASE u # l.user
    <3>1. T \subseteq S BY <1>1, <2>1, <2>3, <2>4 DEF AdminOf
    <3> QED BY <1>1, <3>1, CapKept
  <2>5. CASE u = l.user /\ Cardinality(own) < AdminCap
    <3>1. Cardinality(S) < AdminCap BY <2>5
    <3>2. T \subseteq S \cup {new} BY <1>1, <2>1, <2>5 DEF AdminOf
    <3> HIDE DEF S, T
    <3> QED BY <1>1, <3>1, <3>2, CapKept
  <2>6. CASE u = l.user /\ ~(Cardinality(own) < AdminCap)
    <3>1. gone \in S /\ gone # new BY <2>1, <2>2, <2>6
    <3>2. T \subseteq (S \ {gone}) \cup {new}
      BY <1>1, <2>1, <2>6, <3>1 DEF AdminOf
    <3> HIDE DEF S, T
    <3>3. \E d \in S : T \subseteq (S \ {d}) \cup {new} BY <3>1, <3>2
    <3> QED BY <1>1, <3>3, CapKept
  <2> QED BY <2>4, <2>5, <2>6
<1> QED BY <1>2, <1>3 DEF Admits

\* What is counted stays within its bounds.
LEMMA CountsKept ==
    ASSUME IdentityInv, IdentityInv', CountsInv, Counts PROVE CountsInv'
<1>1. Capped' BY OpensCapped, AdmitsCapped DEF Counts, CountsInv, Capped
<1>2. ops' \in Nat /\ ops' <= MaxOps
  <2>1. MaxOps \in Nat BY IdentityAssumption
  <2> QED BY <2>1 DEF Counts, Asks, CountsInv
<1>3. Serials'
  <2>1. \A u \in Users : user[u].cred.serial \in Nat
    BY DEF IdentityInv, UsersInv, UsersTyped, UserRow, Creds
  <2>2. hashes \in Nat BY DEF IdentityInv, UsersInv, UsersTyped
  <2> QED BY <2>1, <2>2 DEF Counts, Keeps, CountsInv, Serials
<1> QED BY <1>1, <1>2, <1>3 DEF CountsInv
\* A step that writes at most one row, with the credential it had or the one
\* that was hashed for it.
LEMMA RowKeeps ==
    ASSUME IdentityInv, NEW u \in Users, NEW row, user' = [user EXCEPT ![u] = row],
           \/ hashes' = hashes /\ row.cred = user[u].cred
           \/ hashes' = hashes + 1 /\ row.cred = user[u].cred
           \/ hashes' = hashes + 1 /\ row.cred.serial = hashes + 1
    PROVE  Keeps
BY DEF IdentityInv, UsersInv, UsersTyped, Keeps

LEMMA NewUserKeeps ==
    ASSUME IdentityInv, NEW u \in Users, NEW role, NEW secret, NEW temp,
           user' = [user EXCEPT ![u] = NewUser(role, Hashed(secret), temp)],
           hashes' = hashes + 1
    PROVE  Keeps
<1> DEFINE row == NewUser(role, Hashed(secret), temp)
<1>1. row.cred.serial = hashes + 1 BY DEF NewUser, Hashed
<1> HIDE DEF row
<1>2. user' = [user EXCEPT ![u] = row] BY DEF row
<1> QED BY <1>1, <1>2, RowKeeps

LEMMA InvalidateKeeps ==
    ASSUME IdentityInv, NEW u \in Users, NEW row \in UserRow, Invalidate(u, row),
           \/ hashes' = hashes /\ row.cred = user[u].cred
           \/ hashes' = hashes + 1 /\ row.cred = user[u].cred
           \/ hashes' = hashes + 1 /\ row.cred.serial = hashes + 1
    PROVE  Keeps /\ Takes(session, session')
<1> DEFINE next == [row EXCEPT !.version = @ + 1]
<1>1. next.cred = row.cred BY DEF UserRow
<1>2. user' = [user EXCEPT ![u] = next] BY DEF Invalidate
<1> HIDE DEF next
<1>3. Keeps BY <1>1, <1>2, RowKeeps
<1>4. Takes(session, session') BY DEF Invalidate, Without, Takes
<1> QED BY <1>3, <1>4

\* A step that leaves the users and both kinds of cookies alone.
LEMMA QuietCounts ==
    ASSUME UNCHANGED <<user, hashes, session, admins>>, Asks PROVE Counts
BY DEF Counts, Keeps, Takes, Opens, Admits

\* An administrator's transaction hashes at most one password and issues nothing.
LEMMA ActCounts == ASSUME IdentityInv, NEW p \in Handlers, Act(p) PROVE Counts
<1>1. Takes(admins, admins') /\ Asks BY DEF Act, Takes, Asks
<1>2. ASSUME NEW u \in Users, NEW role, NEW s, Create(p, u, role, s)
      PROVE  Keeps /\ Takes(session, session')
  <2>1. Keeps BY <1>2, NewUserKeeps DEF Create
  <2>2. Takes(session, session') BY <1>2 DEF Create, Takes
  <2> QED BY <2>1, <2>2
<1>3. ASSUME NEW u \in Users, ManageIdentity(p, u)
      PROVE  Keeps /\ Takes(session, session')
  <2>1. PICK row \in Changes(p, u) :
          /\ Invalidate(u, row)
          /\ hashes' = IF row.cred = user[u].cred THEN hashes ELSE hashes + 1
    BY <1>3 DEF ManageIdentity
  <2>2. user[u] \in UserRow /\ hashes \in Nat
    BY DEF IdentityInv, UsersInv, UsersTyped
  <2>3. row \in UserRow /\ (row.cred = user[u].cred \/ row.cred.serial = hashes + 1)
    <3>1. CASE \E r \in {"user", "admin"} : row = [user[u] EXCEPT !.role = r]
      BY <2>2, <3>1 DEF UserRow, Roles
    <3>2. CASE row = [user[u] EXCEPT !.active = ~user[u].active]
      BY <2>2, <3>2 DEF UserRow
    <3>3. ASSUME NEW s \in Secrets,
                 row = [user[u] EXCEPT !.cred = Hashed(s), !.temp = TRUE]
          PROVE  row \in UserRow /\ row.cred.serial = hashes + 1
      <4>1. Hashed(s) \in Creds /\ Hashed(s).serial = hashes + 1
        BY <2>2 DEF Hashed, Creds
      <4> QED BY <2>2, <3>3, <4>1 DEF UserRow
    <3> QED BY <2>1, <3>1, <3>2, <3>3 DEF Changes
  <2> QED BY <2>1, <2>3, InvalidateKeeps
<1>4. ASSUME NEW u \in Users, TransferOwner(p, u)
      PROVE  Keeps /\ Takes(session, session')
  <2>1. hashes' = hashes BY <1>4 DEF TransferOwner
  <2>2. ASSUME NEW v \in Users PROVE user'[v].cred = user[v].cred
    <3>1. user[v] \in UserRow BY DEF IdentityInv, UsersInv, UsersTyped
    <3> DEFINE own == [user[v] EXCEPT !.role = "owner", !.version = @ + 1]
               adm == [user[v] EXCEPT !.role = "admin", !.version = @ + 1]
    <3>2. own.cred = user[v].cred /\ adm.cred = user[v].cred BY <3>1 DEF UserRow
    <3> HIDE DEF own, adm
    <3>3. user'[v] \in {own, adm, user[v]} BY <1>4 DEF TransferOwner, own, adm
    <3> QED BY <3>2, <3>3
  <2>3. Takes(session, session') BY <1>4 DEF TransferOwner, Takes
  <2> QED BY <2>1, <2>2, <2>3 DEF Keeps
<1> QED BY <1>1, <1>2, <1>3, <1>4 DEF Act, Counts, Opens, Admits

\* So do a change of the own password and a registration.
LEMMA ChangeCounts == ASSUME IdentityInv, NEW p \in Handlers, ChangeWrite(p) PROVE Counts
<1> DEFINE c == handler[p]
           row == [user[c.user] EXCEPT !.cred = Hashed(c.secret), !.temp = FALSE]
<1>0. c.pc = "change" /\ Asks BY DEF ChangeWrite, Asks
<1>1. c \in Changing BY <1>0, RequestReads, PlaceShapes
<1>2. /\ c.user \in Users /\ c.secret \in Secrets /\ c.cookie \in Tokens
      /\ user[c.user] \in UserRow /\ hashes \in Nat
  BY <1>1, RequestReads DEF Changing
<1>3. CASE UNCHANGED <<user, session, admins, hashes, expelled>>
  BY <1>0, <1>3, QuietCounts
<1>4. CASE /\ Invalidate(c.user, row) /\ hashes' = hashes + 1
           /\ admins' = admins \/ admins' = [admins EXCEPT ![c.cookie] = None]
  <2>1. Hashed(c.secret) \in Creds /\ Hashed(c.secret).serial = hashes + 1
    BY <1>2 DEF Hashed, Creds
  <2>2. row \in UserRow /\ row.cred.serial = hashes + 1 BY <1>2, <2>1 DEF UserRow
  <2> HIDE DEF row
  <2>3. Keeps /\ Takes(session, session') BY <1>2, <1>4, <2>2, InvalidateKeeps
  <2>4. Takes(admins, admins')
    BY <1>4 DEF Takes, IdentityInv, CookiesInv, CookiesTyped
  <2> QED BY <1>0, <2>3, <2>4 DEF Counts, Opens, Admits
<1> QED BY <1>3, <1>4 DEF ChangeWrite

LEMMA RegisterCounts == ASSUME IdentityInv, NEW p \in Handlers, Register(p) PROVE Counts
<1> DEFINE g == handler[p]
<1>0. g.pc = "register" /\ UNCHANGED <<session, admins>> /\ Asks
  BY DEF Register, Asks
<1>1. g \in Registering BY <1>0, RequestReads, PlaceShapes
<1>2. g.user \in Users BY <1>1 DEF Registering
<1>3. CASE UNCHANGED <<user, hashes>> BY <1>0, <1>3, QuietCounts
<1>4. CASE /\ user' = [user EXCEPT ![g.user] = NewUser("user", Hashed(g.secret), FALSE)]
           /\ hashes' = hashes + 1
  <2>1. Keeps BY <1>2, <1>4, NewUserKeeps
  <2> QED BY <1>0, <2>1 DEF Counts, Opens, Admits, Takes
<1> QED BY <1>3, <1>4 DEF Register

\* Logins and registrations issue, one session each.
LEMMA IssueCounts ==
    ASSUME IdentityInv, NEW p \in Handlers, LoginIssue(p) \/ Welcome(p) \/ Grant(p)
    PROVE  Counts
<1>1. Keeps /\ Asks BY DEF LoginIssue, Welcome, Grant, Keeps, Asks
<1>2. CASE LoginIssue(p)
  <2> DEFINE l == handler[p]
  <2>1. l.pc = "verify" /\ CreateUserSession(l.user, l.row.cred)
    BY <1>2 DEF LoginIssue
  <2>2. l \in Verifying BY <2>1, RequestReads, PlaceShapes
  <2>3. l.user \in Users /\ l.row.cred \in Creds BY <2>2 DEF Verifying, UserRow
  <2>4. Takes(admins, admins')
    BY <1>2 DEF LoginIssue, Takes, IdentityInv, CookiesInv, CookiesTyped
  <2> QED BY <1>1, <2>1, <2>3, <2>4 DEF Counts, Opens, Admits
<1>3. CASE Welcome(p)
  <2> DEFINE g == handler[p]
  <2>1. /\ g.pc = "welcome" /\ UNCHANGED admins
        /\ CreateUserSession(g.user, g.cred) \/ UNCHANGED session
    BY <1>3 DEF Welcome
  <2>2. g \in Welcoming BY <2>1, RequestReads, PlaceShapes
  <2>3. g.user \in Users /\ g.cred \in Creds BY <2>2 DEF Welcoming
  <2> QED BY <1>1, <2>1, <2>3 DEF Counts, Opens, Admits, Takes
<1>4. CASE Grant(p)
  <2>1. UNCHANGED session BY <1>4 DEF Grant
  <2> QED BY <1>1, <1>4, <2>1 DEF Counts, Opens, Admits, Takes
<1> QED BY <1>2, <1>3, <1>4

\* A request's step.
LEMMA RequestCounts ==
    ASSUME IdentityInv, NEW p \in Handlers, Request(p) PROVE Counts
<1>1. CASE \E u \in Users, s \in Secrets, surface \in {"portal", "admin"} :
             LoginRead(p, u, s, surface)
  BY <1>1, QuietCounts DEF LoginRead, Arrive, Asks
<1>2. CASE LoginRefused(p) \/ ChangeRead(p) \/ Relogin(p) \/ ActRefused(p)
  BY <1>2, QuietCounts DEF LoginRefused, ChangeRead, Relogin, ActRefused, Asks
<1>3. CASE \E t \in Tokens, old, new \in Secrets : ChangeEnter(p, t, old, new)
  BY <1>3, QuietCounts DEF ChangeEnter, Arrive, Asks
<1>4. CASE ActorEnter(p) BY <1>4, QuietCounts DEF ActorEnter, Arrive, Asks
<1>5. CASE \E c \in Codes \cup {NoCode}, u \in Users, s \in Secrets : RegisterCheck(p, c, u, s)
  BY <1>5, QuietCounts DEF RegisterCheck, Arrive, Asks
<1>6. CASE Replace(p)
  <2>1. Takes(session, session')
    BY <1>6 DEF Replace, Takes, IdentityInv, CookiesInv, CookiesTyped
  <2> QED BY <1>6, <2>1 DEF Replace, Counts, Keeps, Takes, Opens, Admits, Asks
<1> QED
  BY <1>1, <1>2, <1>3, <1>4, <1>5, <1>6, IssueCounts, ChangeCounts, ActCounts, RegisterCounts
  DEF Request

\* Every step.
LEMMA StepCounts == IdentityInv /\ [Next]_vars => Counts
<1> SUFFICES ASSUME IdentityInv, [Next]_vars PROVE Counts OBVIOUS
<1>0. /\ session \in [Tokens -> Cookies \cup {None}]
      /\ admins \in [Tokens -> AdminCookies \cup {None}]
  BY DEF IdentityInv, CookiesInv, CookiesTyped
<1>1. CASE \E p \in Handlers : Request(p) BY <1>1, RequestCounts
<1>2. ASSUME NEW t \in Tokens, Logout(t) \/ DropStale(t) PROVE Counts
  <2>1. UNCHANGED <<user, hashes>> /\ Asks BY <1>2 DEF Logout, DropStale, Asks
  <2>2. /\ session' \in {session, [session EXCEPT ![t] = None]}
        /\ admins' \in {admins, [admins EXCEPT ![t] = None]}
    BY <1>2 DEF Logout, DropStale
  <2>3. Takes(session, session') /\ Takes(admins, admins') BY <1>0, <2>2 DEF Takes
  <2> QED BY <2>1, <2>3 DEF Counts, Keeps, Opens, Admits
<1>3. ASSUME NEW u \in Users, NEW s \in Secrets, Bootstrap(u, s) PROVE Counts
  <2>1. Keeps BY <1>3, NewUserKeeps DEF Bootstrap
  <2> QED BY <1>3, <2>1 DEF Bootstrap, Counts, Opens, Admits, Takes, Asks
<1>4. CASE \E c \in Codes : SetInvite(c) \/ ExpireInvite(c)
  BY <1>4, QuietCounts DEF SetInvite, ExpireInvite, Asks
<1>5. CASE Restart
  <2>1. Takes(admins, admins') BY <1>5 DEF Restart, Takes
  <2> QED BY <1>5, <2>1 DEF Restart, Counts, Keeps, Takes, Opens, Admits, Asks
<1>6. CASE UNCHANGED vars BY <1>6, QuietCounts DEF vars, Asks
<1> QED BY <1>1, <1>2, <1>3, <1>4, <1>5, <1>6 DEF Next

\* Nobody has a cookie to begin with.
LEMMA CountsInit == Init => CountsInv
<1> SUFFICES ASSUME Init PROVE CountsInv OBVIOUS
<1>1. Capped
  <2>1. ASSUME NEW u \in Users PROVE PortalOf(u) = {} /\ AdminOf(u) = {}
    BY ConstantsTyped DEF Init, PortalOf, AdminOf
  <2> QED BY <2>1, FS_EmptySet, IdentityAssumption DEF Capped
<1>2. Serials
  <2>1. NoUser = [role |-> "none", active |-> TRUE, version |-> 0, cred |-> NoUser.cred,
                  temp |-> FALSE] /\ NoUser.cred.serial = 0
    BY DEF NoUser, NewUser
  <2>2. \A r : [NoUser EXCEPT !.role = r].cred = NoUser.cred BY <2>1
  <2>3. \A u \in Users : user[u].cred = NoUser.cred BY <2>2 DEF Init
  <2> QED BY <2>1, <2>3 DEF Serials, Init
<1>3. ops = 0 /\ 0 <= MaxOps BY IdentityAssumption DEF Init
<1> QED BY <1>1, <1>2, <1>3 DEF CountsInv

\* The two invariants are what the tables promise.
LEMMA CountsMean == ASSUME IdentityInv, CountsInv PROVE TypeOK
<1>1. user \in [Users -> UserRow] /\ hashes \in Nat
  BY DEF IdentityInv, UsersInv, UsersTyped
<1>2. ASSUME NEW u \in Users
      PROVE  /\ user[u].role \in {"none", "user", "admin", "owner"}
             /\ {user[u].active, user[u].temp} \subseteq BOOLEAN
             /\ user[u].version \in Nat /\ user[u].cred.serial \in 0..hashes
  <2>1. /\ user[u].role \in Roles /\ user[u].active \in BOOLEAN
        /\ user[u].temp \in BOOLEAN
        /\ user[u].version \in Nat /\ user[u].cred.serial \in Nat
    BY <1>1 DEF UserRow, Creds
  <2>2. user[u].cred.serial <= hashes BY DEF CountsInv, Serials
  <2> QED BY <1>1, <2>1, <2>2 DEF Roles
<1>3. issued \in 0..MaxTokens /\ ops \in 0..MaxOps /\ expelled \subseteq 1..issued
  BY ConstantsTyped, IdentityAssumption
  DEF IdentityInv, CookiesInv, CookiesTyped, CountsInv
<1>4. \A t \in Tokens : t > issued => session[t] = None /\ admins[t] = None
  BY DEF IdentityInv, CookiesInv
<1> QED BY <1>2, <1>3, <1>4 DEF TypeOK, CountsInv, Capped, PortalOf, AdminOf

\* The tables keep their types and bounds: no row holds a credential that was
\* never hashed, no token that was not issued is honoured, and a user has no
\* more portal or administrator sessions than MaxUserSessions and
\* maxSessionsPerAdmin allow (createUserSession, createForUser).
THEOREM TablesHold == Spec => []TypeOK
<1>1. IdentityInv /\ CountsInv => TypeOK BY CountsMean
<1>2. IdentityInv /\ CountsInv /\ [Next]_vars => IdentityInv' /\ CountsInv'
  BY StepInv, StepCounts, CountsKept
<1> QED BY <1>1, <1>2, InitIdentity, CountsInit, PTL DEF Spec
===============================================================================
