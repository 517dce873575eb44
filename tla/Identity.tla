------------------------------- MODULE Identity -------------------------------
(***************************************************************************)
(* Users, passwords, sessions and administrative authority: the user and   *)
(* session tables (internal/store), the portal's logins                    *)
(* (internal/portal/portalauth), the in-memory administrator sessions and  *)
(* the handlers that read an identity, hash a password and only then write *)
(* (internal/app).  A password hash is a credential with a serial number,  *)
(* since bcrypt salts: the same secret set twice gives two credentials.    *)
(* A step is one transaction, or one critical section of a mutex.          *)
(*                                                                         *)
(* Left out: the cap on all administrators' sessions together, sessions of *)
(* the recovery token (which the actor Recovery stands for), rate limits,  *)
(* the age of the last password check (a refusal covers it), expiry.       *)
(***************************************************************************)
EXTENDS Integers, FiniteSets, FiniteSetsExt

CONSTANTS
    Users,        \* usernames
    Handlers,     \* requests in flight
    Secrets,      \* passwords
    Codes,        \* invite codes
    NoCode,       \* registration is open
    Recovery,     \* the actor of ADMIN_TOKEN
    Settled,      \* the users an existing database holds, as roles
    Limits,       \* max_uses an administrator may set; 0 is unlimited
    SessionCap,   \* MaxUserSessions
    AdminCap,     \* maxSessionsPerAdmin
    MaxOps,       \* bound on the requests made
    MaxTokens     \* bound on the tokens issued

ASSUME IdentityAssumption ==
    /\ IsFiniteSet(Users)
    /\ Recovery \notin Users /\ NoCode \notin Codes
    /\ Settled \in [Users -> {"none", "user", "admin", "owner"}]
    /\ Cardinality({u \in Users : Settled[u] = "owner"}) <= 1
    /\ Limits \subseteq Nat
    /\ {SessionCap, AdminCap, MaxOps, MaxTokens} \subseteq Nat \ {0}

Tokens == 1..MaxTokens
None == [user |-> Recovery]

VARIABLES
    user,      \* the users table; role "none" has no row
    session,   \* user_sessions: what a portal cookie stands for
    admins,    \* adminSessionManager.sessions: an administrator's cookie
    issued,    \* tokens issued so far
    invite,    \* invite_codes
    redeemed,  \* invite_redemptions
    hashes,    \* passwords hashed so far
    handler,   \* where each request is and what it has read
    ops,       \* requests made so far
    \* History:
    proof,     \* the credential that was verified for a token
    expelled   \* tokens whose user's identity was invalidated since

vars == <<user, session, admins, issued, invite, redeemed, hashes, handler,
          ops, proof, expelled>>
invites == <<invite, redeemed>>
ghosts == <<proof, expelled>>

IsAdminRole(role) == role \in {"admin", "owner"}
Idle == [pc |-> "idle"]
Return(p) == handler' = [handler EXCEPT ![p] = Idle]
Goto(p, state) == handler' = [handler EXCEPT ![p] = state]

\* A request arrives.
Arrive(p) == handler[p] = Idle /\ ops < MaxOps /\ ops' = ops + 1

\* HashPassword: a new salt each time.
Hashed(secret) == [serial |-> hashes + 1, secret |-> secret]

NewUser(role, cred, temp) ==
    [role |-> role, active |-> TRUE, version |-> 0, cred |-> cred, temp |-> temp]

-----------------------------------------------------------------------------
\* Transactions on the tables

\* Rows that a session cap or a revocation leaves.
Without(u) == [t \in Tokens |-> IF session[t].user = u THEN None ELSE session[t]]

\* Mutant: the epoch stays the same.
InvalidateSameEpoch(u, row) ==
    /\ user' = [user EXCEPT ![u] = row]
    /\ session' = Without(u)
    /\ expelled' = expelled \cup {t \in Tokens : u \in {session[t].user, admins[t].user}}

\* invalidateIdentity after a change of the row: a new epoch, no sessions.
Invalidate(u, row) ==
    /\ user' = [user EXCEPT ![u] = [row EXCEPT !.version = @ + 1]]
    /\ session' = Without(u)
    /\ expelled' = expelled \cup {t \in Tokens : u \in {session[t].user, admins[t].user}}

\* Mutant: CreateUserSession, which expects nothing of the password.
FreshAnyPassword(u, cred, versions) == user[u].role # "none" /\ user[u].active

\* createUserSession, its condition: the row a login read must still be the
\* user's.
Fresh(u, cred, versions) ==
    user[u].role # "none" /\ user[u].active /\ user[u].cred = cred
    /\ user[u].version \in versions

\* The row is inserted and the oldest sessions beyond the cap go.
CreateUserSession(u, cred) ==
    LET own == {t \in Tokens : session[t].user = u}
        kept == IF Cardinality(own) < SessionCap THEN own ELSE own \ {Min(own)}
    IN /\ issued < MaxTokens
       /\ issued' = issued + 1
       /\ session' = [t \in Tokens |->
              CASE t = issued + 1 -> [user |-> u, version |-> user[u].version]
                [] t \in own \ kept -> None
                [] OTHER -> session[t]]
       /\ proof' = [proof EXCEPT ![issued + 1] = cred]

\* GetUserSession and SessionUser: the epoch is the user's, who is active.
PortalAccepts(t) ==
    LET s == session[t] IN
    s # None /\ s.version = user[s.user].version /\ user[s.user].active

\* resolveAdminIdentity: the user is still the administrator who logged in.
AdminAccepts(t) ==
    LET e == admins[t] IN
    /\ e # None
    /\ user[e.user].active /\ IsAdminRole(user[e.user].role)
    /\ user[e.user].cred = e.cred /\ user[e.user].version = e.version

-----------------------------------------------------------------------------
\* Logging in

\* Login reads the user, then compares hashes for a while.
LoginRead(p, u, secret, surface) ==
    /\ Arrive(p)
    /\ user[u].role # "none"
    /\ Goto(p, [pc |-> "verify", user |-> u, row |-> user[u], secret |-> secret,
                surface |-> surface])
    /\ UNCHANGED <<user, session, admins, issued, invites, hashes, ghosts>>

\* The password was wrong or the user is disabled, or has changed meanwhile.
LoginRefused(p) ==
    LET l == handler[p] IN
    /\ l.pc = "verify"
    /\ \/ l.row.cred.secret # l.secret \/ ~l.row.active
       \/ ~Fresh(l.user, l.row.cred, {l.row.version})
    /\ Return(p)
    /\ UNCHANGED <<user, session, admins, issued, invites, hashes, ops, ghosts>>

\* A session is issued.  An ordinary user's browser loses its administrator
\* cookie, an administrator's session is replaced, and a login on the
\* administration page only proves the password.
LoginIssue(p) ==
    LET l == handler[p] IN
    /\ l.pc = "verify" /\ l.row.cred.secret = l.secret /\ l.row.active
    /\ Fresh(l.user, l.row.cred, {l.row.version})
    /\ CreateUserSession(l.user, l.row.cred)
    /\ IF l.surface = "admin" \/ (l.surface = "portal" /\ IsAdminRole(l.row.role))
       THEN /\ Goto(p, [pc |-> "replace", user |-> l.user, row |-> l.row,
                         token |-> issued + 1])
            /\ UNCHANGED admins
       ELSE /\ Return(p)
            /\ \/ UNCHANGED admins
               \/ l.surface = "portal" /\ \E t \in Tokens : admins' = [admins EXCEPT ![t] = None]
    /\ UNCHANGED <<user, invites, hashes, ops, expelled>>

\* Logout of the session that proved an administrator's password.
Replace(p) ==
    LET l == handler[p] IN
    /\ l.pc = "replace"
    /\ session' = [session EXCEPT ![l.token] = None]
    /\ IF IsAdminRole(l.row.role) THEN Goto(p, [l EXCEPT !.pc = "grant"]) ELSE Return(p)
    /\ UNCHANGED <<user, admins, issued, invites, hashes, ops, ghosts>>

\* createForUser: beyond the cap, another session of the administrator goes.
\* (The one that expires first; which one is left open here.)  An identity
\* invalidated since it was verified is expelled from the start.
Grant(p) ==
    LET l == handler[p]
        own == {t \in Tokens : admins[t].user = l.user}
    IN /\ l.pc = "grant"
       /\ issued < MaxTokens
       /\ issued' = issued + 1
       /\ \E gone \in IF Cardinality(own) < AdminCap THEN {0} ELSE own :
            admins' = [t \in Tokens |->
                CASE t = issued + 1 -> [user |-> l.user, cred |-> l.row.cred,
                                        version |-> l.row.version]
                  [] t = gone -> None
                  [] OTHER -> admins[t]]
       /\ proof' = [proof EXCEPT ![issued + 1] = l.row.cred]
       /\ expelled' = IF l.row.version = user[l.user].version THEN expelled
                      ELSE expelled \cup {issued + 1}
       /\ Return(p)
       /\ UNCHANGED <<user, session, invites, hashes, ops>>

\* portalLogout and handleAdminLogout.
Logout(t) ==
    /\ ops < MaxOps /\ ops' = ops + 1
    /\ \/ session[t] # None /\ session' = [session EXCEPT ![t] = None] /\ UNCHANGED admins
       \/ admins[t] # None /\ admins' = [admins EXCEPT ![t] = None] /\ UNCHANGED session
    /\ UNCHANGED <<user, issued, invites, hashes, handler, ghosts>>

\* An administrator's cookie that is no longer accepted is dropped.
DropStale(t) ==
    /\ admins[t] # None /\ ~AdminAccepts(t)
    /\ admins' = [admins EXCEPT ![t] = None]
    /\ UNCHANGED <<user, session, issued, invites, hashes, handler, ops, ghosts>>

-----------------------------------------------------------------------------
\* Changing one's own password

\* portalGuard or adminGuard let a password change in.
ChangeEnter(p, t, old, new) ==
    /\ Arrive(p)
    /\ old # new
    /\ \/ /\ PortalAccepts(t)
          /\ Goto(p, [pc |-> "enter", user |-> session[t].user, old |-> old,
                      secret |-> new, surface |-> "change", cookie |-> t])
       \/ /\ AdminAccepts(t)
          /\ Goto(p, [pc |-> "enter", user |-> admins[t].user, old |-> old,
                      secret |-> new, surface |-> "admin", cookie |-> t])
    /\ UNCHANGED <<user, session, admins, issued, invites, hashes, ghosts>>

\* ChangePassword reads the user and verifies the old password.
ChangeRead(p) ==
    LET c == handler[p] IN
    /\ c.pc = "enter"
    /\ IF user[c.user].cred.secret = c.old
       THEN Goto(p, [pc |-> "change", user |-> c.user, row |-> user[c.user],
                     secret |-> c.secret, surface |-> c.surface, cookie |-> c.cookie])
       ELSE Return(p)
    /\ UNCHANGED <<user, session, admins, issued, invites, hashes, ops, ghosts>>

\* UpdateUserPassword: only over the password that was verified.  The portal
\* logs its browser in again; an administrator has to.
ChangeWrite(p) ==
    LET c == handler[p] IN
    /\ c.pc = "change"
    /\ IF user[c.user].cred = c.row.cred /\ user[c.user].active
       THEN /\ Invalidate(c.user, [user[c.user] EXCEPT !.cred = Hashed(c.secret),
                                                       !.temp = FALSE])
            /\ hashes' = hashes + 1
            /\ IF c.surface = "change"
               THEN Goto(p, [c EXCEPT !.pc = "relogin"]) /\ UNCHANGED admins
               ELSE Return(p) /\ admins' = [admins EXCEPT ![c.cookie] = None]
       ELSE Return(p) /\ UNCHANGED <<user, session, admins, hashes, expelled>>
    /\ UNCHANGED <<issued, invites, ops, proof>>

\* Login with the new password reads the user again.
Relogin(p) ==
    LET c == handler[p] IN
    /\ c.pc = "relogin"
    /\ Goto(p, [pc |-> "verify", user |-> c.user, row |-> user[c.user],
                secret |-> c.secret, surface |-> "change"])
    /\ UNCHANGED <<user, session, admins, issued, invites, hashes, ops, ghosts>>

-----------------------------------------------------------------------------
\* Administrators

\* adminGuard resolves who asks; a temporary password may not manage.
ActorEnter(p) ==
    /\ Arrive(p)
    /\ \/ Goto(p, [pc |-> "act", user |-> Recovery, version |-> 0, lost |-> FALSE])
       \/ \E t \in Tokens :
            /\ AdminAccepts(t) /\ ~user[admins[t].user].temp
            /\ Goto(p, [pc |-> "act", user |-> admins[t].user,
                        version |-> admins[t].version, lost |-> FALSE])
    /\ UNCHANGED <<user, session, admins, issued, invites, hashes, ghosts>>

\* Mutant: the role is read again, not the epoch.
AuthorityOfRole(a) ==
    IF a.user = Recovery THEN "owner"
    ELSE IF user[a.user].active /\ ~user[a.user].temp THEN user[a.user].role ELSE "none"

\* identityActor, in the transaction of the change.
Authority(a) ==
    IF a.user = Recovery THEN "owner"
    ELSE IF /\ user[a.user].active /\ ~user[a.user].temp
            /\ user[a.user].version = a.version
         THEN user[a.user].role
         ELSE "none"

\* CreateManagedUser: with a temporary password.
Create(p, u, role, secret) ==
    LET by == Authority(handler[p]) IN
    /\ user[u].role = "none"
    /\ IsAdminRole(by) /\ (role = "admin" => by = "owner")
    /\ user' = [user EXCEPT ![u] = NewUser(role, Hashed(secret), TRUE)]
    /\ hashes' = hashes + 1
    /\ UNCHANGED <<session, expelled>>

\* What ManageIdentity may change of another user's row.
Changes(p, u) ==
    LET row == user[u] by == Authority(handler[p]) IN
    {[row EXCEPT !.role = r] : r \in IF by = "owner" THEN {"user", "admin"} \ {row.role} ELSE {}}
    \cup {[row EXCEPT !.active = ~row.active]}
    \cup {[row EXCEPT !.cred = Hashed(s), !.temp = TRUE] : s \in Secrets}

\* ManageIdentity: an owner is out of reach but for the recovery token's
\* password reset, administrators are managed by the owner, nobody manages
\* himself.
ManageIdentity(p, u) ==
    LET a == handler[p] by == Authority(a) IN
    /\ user[u].role # "none" /\ u # a.user
    /\ IsAdminRole(by)
    /\ by = "owner" \/ user[u].role = "user"
    /\ \E row \in Changes(p, u) :
        /\ user[u].role = "owner" => a.user = Recovery /\ row.cred # user[u].cred
        /\ Invalidate(u, row)
        /\ hashes' = IF row.cred = user[u].cred THEN hashes ELSE hashes + 1

Owners == {u \in Users : user[u].role = "owner"}

\* Mutant: ownership goes to any administrator, a disabled one too.
TransferUnchecked(p, u) ==
    LET a == handler[p] changed == Owners \cup {u} IN
    /\ Authority(a) = "owner"
    /\ user[u].role = "admin"
    /\ a.user = Recovery \/ a.user \in Owners
    /\ user' = [v \in Users |->
           CASE v = u -> [user[v] EXCEPT !.role = "owner", !.version = @ + 1]
             [] v \in Owners -> [user[v] EXCEPT !.role = "admin", !.version = @ + 1]
             [] OTHER -> user[v]]
    /\ session' = [t \in Tokens |->
           IF session[t].user \in changed THEN None ELSE session[t]]
    /\ UNCHANGED <<hashes, expelled>>

\* TransferOwner, by the owner or the recovery token; without an owner only
\* the token claims ownership for somebody.
TransferOwner(p, u) ==
    LET a == handler[p] changed == Owners \cup {u} IN
    /\ Authority(a) = "owner"
    /\ user[u].role = "admin" /\ user[u].active /\ ~user[u].temp
    /\ a.user = Recovery \/ a.user \in Owners
    /\ user' = [v \in Users |->
           CASE v = u -> [user[v] EXCEPT !.role = "owner", !.version = @ + 1]
             [] v \in Owners -> [user[v] EXCEPT !.role = "admin", !.version = @ + 1]
             [] OTHER -> user[v]]
    /\ session' = [t \in Tokens |->
           IF session[t].user \in changed THEN None ELSE session[t]]
    /\ expelled' = expelled \cup
           {t \in Tokens : {session[t].user, admins[t].user} \cap changed # {}}
    /\ UNCHANGED hashes

\* A transaction of an administrator commits; an actor that has lost its
\* authority meanwhile (the history "lost") is refused there.
Act(p) ==
    /\ handler[p].pc = "act"
    /\ \E u \in Users : \/ \E role \in {"user", "admin"}, s \in Secrets : Create(p, u, role, s)
                        \/ ManageIdentity(p, u)
                        \/ TransferOwner(p, u)
    /\ handler' = [q \in Handlers |->
           IF q = p THEN Idle
           ELSE IF handler[q].pc = "act" /\ handler[q].user # Recovery
                   /\ user'[handler[q].user].version # user[handler[q].user].version
           THEN [handler[q] EXCEPT !.lost = TRUE] ELSE handler[q]]
    /\ UNCHANGED <<admins, issued, invites, ops, proof>>

ActRefused(p) ==
    /\ handler[p].pc = "act"
    /\ Return(p)
    /\ UNCHANGED <<user, session, admins, issued, invites, hashes, ops, ghosts>>

\* CreateInitialAdmin: only while there is no administrator.
Bootstrap(u, secret) ==
    /\ ops < MaxOps /\ ops' = ops + 1
    /\ \A v \in Users : ~IsAdminRole(user[v].role)
    /\ user[u].role = "none"
    /\ user' = [user EXCEPT ![u] = NewUser("owner", Hashed(secret), FALSE)]
    /\ hashes' = hashes + 1
    /\ UNCHANGED <<session, admins, issued, invites, handler, ghosts>>

-----------------------------------------------------------------------------
\* Invites and registration

Open(c) ==
    /\ invite[c].made /\ invite[c].enabled /\ invite[c].live
    /\ invite[c].max = 0 \/ invite[c].used < invite[c].max

\* CreateInviteCode, UpdateInviteCode (not below what is used), and
\* RevokeInviteCode; an expiry passes.
SetInvite(c) ==
    /\ ops < MaxOps /\ ops' = ops + 1
    /\ \E max \in Limits, enabled, live \in BOOLEAN :
        /\ ~invite[c].made => enabled /\ live
        /\ invite[c].made => max = 0 \/ invite[c].used <= max
        /\ invite' = [invite EXCEPT ![c] = [@ EXCEPT !.made = TRUE, !.max = max,
                                            !.enabled = enabled, !.live = live]]
    /\ UNCHANGED <<user, session, admins, issued, redeemed, hashes, handler, ghosts>>

ExpireInvite(c) ==
    /\ invite[c].live
    /\ invite' = [invite EXCEPT ![c].live = FALSE]
    /\ UNCHANGED <<user, session, admins, issued, redeemed, hashes, handler, ops, ghosts>>

\* portalRegister checks the code, then hashes the password.
RegisterCheck(p, c, u, secret) ==
    /\ Arrive(p)
    /\ c # NoCode => Open(c)
    /\ Goto(p, [pc |-> "register", code |-> c, user |-> u, secret |-> secret])
    /\ UNCHANGED <<user, session, admins, issued, invites, hashes, ghosts>>

\* Mutant: the check before hashing is trusted.
RedeemableChecked(c) == TRUE

\* consumeInvite checks again, in the transaction that creates the user.
Redeemable(c) == Open(c)

\* CreateInvitedUser or CreateUser.
Register(p) ==
    LET g == handler[p] IN
    /\ g.pc = "register"
    /\ IF user[g.user].role = "none" /\ (g.code # NoCode => Redeemable(g.code))
       THEN /\ user' = [user EXCEPT ![g.user] = NewUser("user", Hashed(g.secret), FALSE)]
            /\ hashes' = hashes + 1
            /\ IF g.code = NoCode THEN UNCHANGED invites
               ELSE /\ invite' = [invite EXCEPT ![g.code].used = @ + 1]
                    /\ redeemed' = [redeemed EXCEPT ![g.code] = @ \cup {g.user}]
            /\ Goto(p, [pc |-> "welcome", user |-> g.user, cred |-> Hashed(g.secret)])
       ELSE Return(p) /\ UNCHANGED <<user, hashes, invites>>
    /\ UNCHANGED <<session, admins, issued, ops, ghosts>>

\* startPortalSession for the password that was registered, in any epoch.
Welcome(p) ==
    LET g == handler[p] IN
    /\ g.pc = "welcome"
    /\ IF Fresh(g.user, g.cred, {user[g.user].version})
       THEN CreateUserSession(g.user, g.cred)
       ELSE UNCHANGED <<session, issued, proof>>
    /\ Return(p)
    /\ UNCHANGED <<user, admins, invites, hashes, ops, expelled>>

-----------------------------------------------------------------------------
\* The process restarts: administrators' sessions and requests are gone.
Restart ==
    /\ admins' = [t \in Tokens |-> None]
    /\ handler' = [p \in Handlers |-> Idle]
    /\ UNCHANGED <<user, session, issued, invites, hashes, ops, ghosts>>

NoUser == NewUser("none", [serial |-> 0, secret |-> CHOOSE s \in Secrets : TRUE], FALSE)

\* A new database, one with the settled users, or one of an old version with
\* several administrators, among whom migration chooses no owner.
Init ==
    /\ \/ user = [u \in Users |-> NoUser]
       \/ user = [u \in Users |-> [NoUser EXCEPT !.role = Settled[u]]]
       \/ /\ Cardinality({u \in Users : IsAdminRole(Settled[u])}) > 1
          /\ user = [u \in Users |-> [NoUser EXCEPT !.role =
                        IF IsAdminRole(Settled[u]) THEN "admin" ELSE Settled[u]]]
    /\ session = [t \in Tokens |-> None]
    /\ admins = [t \in Tokens |-> None]
    /\ issued = 0 /\ hashes = 0 /\ ops = 0
    /\ invite = [c \in Codes |-> [made |-> FALSE, max |-> 0, used |-> 0,
                                  enabled |-> FALSE, live |-> FALSE]]
    /\ redeemed = [c \in Codes |-> {}]
    /\ handler = [p \in Handlers |-> Idle]
    /\ proof = [t \in Tokens |-> NoUser.cred]
    /\ expelled = {}

Request(p) ==
    \/ \E u \in Users, s \in Secrets, surface \in {"portal", "admin"} :
        LoginRead(p, u, s, surface)
    \/ LoginRefused(p) \/ LoginIssue(p) \/ Replace(p) \/ Grant(p)
    \/ \E t \in Tokens, old, new \in Secrets : ChangeEnter(p, t, old, new)
    \/ ChangeRead(p) \/ ChangeWrite(p) \/ Relogin(p)
    \/ ActorEnter(p) \/ Act(p) \/ ActRefused(p)
    \/ \E c \in Codes \cup {NoCode}, u \in Users, s \in Secrets : RegisterCheck(p, c, u, s)
    \/ Register(p) \/ Welcome(p)

Next ==
    \/ \E p \in Handlers : Request(p)
    \/ \E t \in Tokens : Logout(t) \/ DropStale(t)
    \/ \E u \in Users, s \in Secrets : Bootstrap(u, s)
    \/ \E c \in Codes : SetInvite(c) \/ ExpireInvite(c)
    \/ Restart

Spec == Init /\ [][Next]_vars

-----------------------------------------------------------------------------
TypeOK ==
    /\ \A u \in Users :
        /\ user[u].role \in {"none", "user", "admin", "owner"}
        /\ {user[u].active, user[u].temp} \subseteq BOOLEAN
        /\ user[u].version \in Nat /\ user[u].cred.serial \in 0..hashes
    /\ issued \in 0..MaxTokens /\ ops \in 0..MaxOps
    /\ \A t \in Tokens : t > issued => session[t] = None /\ admins[t] = None
    /\ \A u \in Users :
        /\ Cardinality({t \in Tokens : session[t].user = u}) <= SessionCap
        /\ Cardinality({t \in Tokens : admins[t].user = u}) <= AdminCap
    /\ expelled \subseteq 1..issued

\* Whoever is let in by a cookie has shown the password that is valid now:
\* resets, changes and disabling that fall between reading the user and
\* issuing a session (bcrypt runs in between) leave no session behind.
SessionsProven ==
    \A t \in Tokens :
        /\ PortalAccepts(t) => proof[t] = user[session[t].user].cred
        /\ AdminAccepts(t) => proof[t] = user[admins[t].user].cred

\* A session that ended because its user was disabled, demoted, promoted,
\* reset or handed ownership over never comes back, not even when the change
\* is undone: an administrator demoted and promoted again logs in again.
RevokedStaysOut ==
    \A t \in expelled : ~PortalAccepts(t) /\ ~AdminAccepts(t)

\* A session that is accepted was issued for the password that is valid now, and
\* one that was invalidated never comes back.
IdentitiesProven == SessionsProven /\ RevokedStaysOut

\* Ownership is handed over, never lost, doubled or locked out: once there is
\* an owner there is always exactly one, who is active.
OwnerStands ==
    Owners # {} =>
        /\ Cardinality(Owners') = 1
        /\ \A u \in Owners' : user'[u].active

\* An administrator who is demoted, disabled or reset while his request is
\* being processed changes nothing any more.
LostAuthority ==
    [][\A p \in Handlers :
        handler[p].pc = "act" /\ handler'[p] = Idle /\ handler[p].lost
        => UNCHANGED user]_vars

\* Ownership stands, and a handler that lost its authority changes nothing.
OwnershipStands == [][OwnerStands]_vars /\ LostAuthority

\* An invite admits as many users as it says, however many register at the
\* same time, and is never set below what is used.
InvitesExact ==
    \A c \in Codes :
        /\ invite[c].used = Cardinality(redeemed[c])
        /\ invite[c].max # 0 => invite[c].used <= invite[c].max
        /\ \A u \in redeemed[c] : user[u].role # "none"
===============================================================================
