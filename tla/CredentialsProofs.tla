-------------------------- MODULE CredentialsProofs --------------------------
(***************************************************************************)
(* Proofs about the credential manager, for any number of callers, of      *)
(* uploads (and so of managers that renew side by side), of tokens and of  *)
(* events.                                                                 *)
(***************************************************************************)
EXTENDS Credentials, TLAPS

\* There is a first manager, and a first token.
Bounds == {MaxManagers, MaxTokens} \subseteq Nat \ {0} /\ MaxEvents \in Nat

Stages == {"none", "start", "asked", "compare", "rename", "land"}
Flights == [pc : Stages, identity : Tokens, snapshot : Tokens, token : Tokens,
            error : BOOLEAN, login : BOOLEAN, reject : BOOLEAN]
CallerStates == [pc : {"idle", "wait", "ok", "failed", "rejected"},
                 manager : 0..MaxManagers, token : Tokens, bad : Tokens]

-----------------------------------------------------------------------------
\* The inductive invariant.  That a renewal overwrites no upload, and that a
\* caller gets another token than the rejected one, rest on what the renewals
\* in flight hold: the manager that may still write is the registered one, and
\* the token it brings has been seen by nobody.

\* The registered manager, which an upload or a deletion has not retired: the
\* only one whose renewal can still be written back.
Serving(m) == m = current /\ ~retired[m]

\* The file is there while a manager is registered, and its credentials descend
\* from the last upload or from the desktop client.
FilesInv ==
    /\ file # NoToken => file.id \in 1..minted
    /\ current # 0 => file # NoToken
    /\ admin = "upload" => made < MaxManagers /\ (current = 0 \/ retired[current])
    /\ admin = "delete" => current = 0
    /\ admin # "delete" => file.origin \in {Desktop, uploaded}

\* A renewal in flight belongs to the registered manager or to a retired one;
\* and if it read another token than its callers had, theirs is not in place
\* any more and does not come back.
FlightFits(m) ==
    LET f == flight[m] IN
    /\ f.pc = "none" => f = NoFlight
    /\ m > made => f.pc = "none"
    /\ f.pc # "none" /\ ~retired[m] => m = current
    /\ f.identity.id <= minted /\ f.snapshot.id <= minted /\ f.token.id <= minted
    /\ f.pc # "none" => f.identity.id # 0
    /\ f.pc = "asked" => f.snapshot.id # 0
    /\ f.pc \in {"compare", "rename"} => f.token.origin = f.snapshot.origin /\ f.token.id # 0
    /\ f.pc = "rename" => ~retired[m] /\ f.token.origin \in {Desktop, uploaded}
    /\ f.error => f.pc = "land"
    /\ f.login => f.error /\ f.snapshot.id \in dead
    /\ (f.pc = "asked" \/ f.login) /\ f.snapshot # f.identity =>
          file # f.identity /\ cached[m] # f.identity

\* What a caller holds.
CallerFits(c) ==
    LET d == caller[c] IN
    /\ d.token.id <= minted /\ d.bad.id <= minted
    /\ d.pc # "ok" => d.token = NoToken
    /\ d.pc = "idle" => d.bad = NoToken
    /\ d.pc = "rejected" => d.bad # NoToken
    /\ d.pc = "ok" => d.token # d.bad

\* The token that a renewal brings is nobody's before it is written; from then
\* on until the callers are woken no rejected token is in place; and a token
\* that was renewed well is not in place any more.
NewToAll(m) ==
    LET f == flight[m] IN
    /\ f.pc \in {"compare", "rename"} =>
        /\ file # f.token /\ denied[m].token # f.token
        /\ \A c \in Callers : caller[c].token # f.token /\ caller[c].bad # f.token
        /\ \A n \in Managers : flight[n].identity # f.token
    /\ f.pc = "land" /\ ~f.error =>
        /\ file # f.identity
        /\ \A c \in Callers :
            caller[c].bad # file /\ (caller[c].bad = NoToken => caller[c].token # file)
    /\ ~denied[m].error => file # denied[m].token

FlightsInv == \A m \in Managers : FlightFits(m) /\ denied[m].token.id <= minted
CallersInv == \A c \in Callers : CallerFits(c)
ServingInv == \A m \in Managers : Serving(m) => NewToAll(m)

CredentialInv ==
    TypeOK /\ FilesInv /\ LoginFits /\ FlightsInv /\ CallersInv /\ ServingInv

-----------------------------------------------------------------------------
\* Shapes

\* The types, part by part.
LEMMA Shapes ==
    ASSUME Bounds, TypeOK
    PROVE  /\ Managers \subseteq Nat \ {0} /\ NoToken \in Tokens /\ NoToken.id = 0
           /\ NoToken.origin = Desktop
           /\ file \in Tokens /\ minted \in Nat /\ current \in Nat /\ made \in Managers
           /\ current # 0 => current \in Managers
           /\ cached \in [Managers -> Tokens] /\ flight \in [Managers -> Flights]
           /\ denied \in [Managers -> [token : Tokens, error : BOOLEAN]]
           /\ caller \in [Callers -> CallerStates]
           /\ \A t \in Tokens : t.id \in Nat
           /\ \A t \in Tokens : t.id = 0 \/ t # NoToken
<1>1. Managers \subseteq Nat \ {0} BY DEF Bounds, Managers
<1>2. NoToken \in Tokens /\ NoToken.id = 0 /\ NoToken.origin = Desktop
  BY DEF Bounds, NoToken, Tokens, Desktop
<1>3. file \in Tokens /\ minted \in Nat /\ made \in Managers BY DEF Bounds, TypeOK
<1>4. current \in Nat /\ (current # 0 => current \in Managers)
  BY <1>1 DEF Bounds, TypeOK, Managers
<1>5. /\ cached \in [Managers -> Tokens] /\ flight \in [Managers -> Flights]
      /\ denied \in [Managers -> [token : Tokens, error : BOOLEAN]]
      /\ caller \in [Callers -> CallerStates]
  BY DEF TypeOK, Flights, Stages, CallerStates
<1>6. \A t \in Tokens : t.id \in Nat BY DEF Bounds, Tokens
<1> QED BY <1>1, <1>2, <1>3, <1>4, <1>5, <1>6

\* The next token is new.
LEMMA MintFresh ==
    ASSUME Bounds, minted \in Nat, minted < MaxTokens, NEW o \in 0..MaxManagers
    PROVE  /\ Mint(o) \in Tokens /\ Mint(o).id = minted + 1 /\ Mint(o).origin = o
           /\ Mint(o) # NoToken /\ \A t \in Tokens : t.id <= minted => t # Mint(o)
BY DEF Bounds, Mint, Tokens, NoToken

-----------------------------------------------------------------------------
\* What stays

\* A renewal that a step leaves alone still fits.
LEMMA FlightKept ==
    ASSUME Bounds, TypeOK, NEW m \in Managers, FlightFits(m), flight'[m] = flight[m],
           minted' \in Nat, minted' >= minted, made' \in Nat, made' >= made,
           dead \subseteq dead',
           flight[m].pc # "none" /\ ~retired'[m] => m = current',
           flight[m].pc = "rename" => ~retired'[m] /\ uploaded' = uploaded,
           file' \in {file, NoToken} \/ file'.id > minted \/ file' # flight[m].identity,
           \/ cached'[m] \in {cached[m], file'}
           \/ cached'[m] # flight[m].identity
    PROVE  FlightFits(m)'
<1> DEFINE f == flight[m]
<1>1. /\ f \in Flights /\ f.identity \in Tokens /\ f.identity.id \in Nat
      /\ f.snapshot.id \in Nat /\ f.token.id \in Nat /\ minted \in Nat /\ made \in Nat
      /\ m \in Nat /\ NoToken.id = 0
  BY Shapes DEF Flights
<1>2. /\ f.pc = "none" => f = NoFlight
      /\ m > made => f.pc = "none"
      /\ f.identity.id <= minted /\ f.snapshot.id <= minted /\ f.token.id <= minted
      /\ f.pc # "none" => f.identity.id # 0
      /\ f.pc = "asked" => f.snapshot.id # 0
      /\ f.pc \in {"compare", "rename"} => f.token.origin = f.snapshot.origin /\ f.token.id # 0
      /\ f.pc = "rename" => f.token.origin \in {Desktop, uploaded}
      /\ f.error => f.pc = "land"
      /\ f.login => f.error /\ f.snapshot.id \in dead
      /\ (f.pc = "asked" \/ f.login) /\ f.snapshot # f.identity =>
            file # f.identity /\ cached[m] # f.identity
  BY DEF FlightFits
<1>3. m > made' => f.pc = "none" BY <1>1, <1>2
<1>4. f.identity.id <= minted' /\ f.snapshot.id <= minted' /\ f.token.id <= minted'
  BY <1>1, <1>2
<1>5. (f.pc = "asked" \/ f.login) /\ f.snapshot # f.identity =>
            file' # f.identity /\ cached'[m] # f.identity
  BY <1>1, <1>2
<1> HIDE DEF f
<1>6. f = flight'[m] BY DEF f
<1> QED BY <1>2, <1>3, <1>4, <1>5, <1>6 DEF FlightFits, f

\* So does what a caller holds.
LEMMA CallerKept ==
    ASSUME Bounds, TypeOK, NEW c \in Callers, CallerFits(c), caller'[c] = caller[c],
           minted' \in Nat, minted' >= minted
    PROVE  CallerFits(c)'
<1>1. caller[c].token.id \in Nat /\ caller[c].bad.id \in Nat /\ minted \in Nat
  BY Shapes DEF CallerStates
<1> QED BY <1>1 DEF CallerFits

\* A caller keeps what it holds, gives it up, holds its token for a rejected one,
\* or gets the token in place: unless it comes from a rejection, only when no
\* renewal is in flight.
CallerMoves(c) ==
    LET d == caller[c]
        e == caller'[c]
    IN \/ e.token = d.token /\ e.bad = d.bad
       \/ /\ e.token = NoToken
          /\ e.bad \in {d.bad, NoToken} \/ (d.bad = NoToken /\ e.bad = d.token)
       \/ /\ e.token = file /\ e.bad = d.bad
          /\ d.bad # NoToken \/ flight[current] = NoFlight

\* A step that leaves the serving manager's renewal alone keeps it new to all.
LEMMA NewKept ==
    ASSUME Bounds, CredentialInv, NEW m \in Managers, Serving(m),
           flight'[m] = flight[m], denied'[m] = denied[m],
           file' = file \/ file'.id > minted,
           \A c \in Callers : CallerMoves(c),
           \A n \in Managers : flight'[n].identity \in {flight[n].identity, NoToken, file}
    PROVE  NewToAll(m)'
<1> DEFINE f == flight[m]
<1>1. m = current /\ m # 0 /\ NewToAll(m) /\ FlightFits(m) /\ file # NoToken
  BY Shapes DEF CredentialInv, Serving, ServingInv, FlightsInv, FilesInv
<1>2. /\ f.pc \in {"compare", "rename"} =>
          /\ file # f.token /\ denied[m].token # f.token
          /\ \A c \in Callers : caller[c].token # f.token /\ caller[c].bad # f.token
          /\ \A n \in Managers : flight[n].identity # f.token
          /\ f.token # NoToken
      /\ f.pc = "land" /\ ~f.error =>
          /\ file # f.identity
          /\ \A c \in Callers :
              caller[c].bad # file /\ (caller[c].bad = NoToken => caller[c].token # file)
      /\ ~denied[m].error => file # denied[m].token
  BY <1>1, Shapes DEF NewToAll, FlightFits, CredentialInv
<1>3. /\ f.token.id <= minted /\ f.identity.id <= minted /\ denied[m].token.id <= minted
      /\ file.id <= minted
      /\ \A c \in Callers : caller[c].token.id <= minted /\ caller[c].bad.id <= minted
  BY <1>1, Shapes DEF FlightFits, CredentialInv, FlightsInv, FilesInv, CallersInv, CallerFits
<1>4. /\ f \in Flights /\ minted \in Nat /\ NoToken.id = 0 /\ file \in Tokens
      /\ denied[m].token \in Tokens
      /\ \A c \in Callers : caller[c].token \in Tokens /\ caller[c].bad \in Tokens
      /\ \A t \in Tokens : t.id \in Nat
      /\ f.token \in Tokens /\ f.identity \in Tokens
  BY Shapes DEF CredentialInv, CallerStates, Flights
<1>5. \A t \in Tokens : t.id <= minted => t = file \/ file' # t
  BY <1>4
<1>6. f = NoFlight => f.pc = "none" BY DEF NoFlight
<1>7. f.pc = "land" => \A c \in Callers : caller'[c].token = file => \/ caller[c].bad # NoToken
                                                                     \/ caller[c].token = file
  BY <1>1, <1>6 DEF CallerMoves
<1> HIDE DEF f
<1>8. ASSUME f.pc \in {"compare", "rename"}
      PROVE  /\ file' # f.token /\ denied'[m].token # f.token
             /\ \A c \in Callers : caller'[c].token # f.token /\ caller'[c].bad # f.token
             /\ \A n \in Managers : flight'[n].identity # f.token
  <2>1. file' # f.token BY <1>2, <1>3, <1>4, <1>5, <1>8
  <2>2. \A c \in Callers : caller'[c].token # f.token /\ caller'[c].bad # f.token
    BY <1>2, <1>8 DEF CallerMoves
  <2> QED BY <1>2, <1>8, <2>1, <2>2
<1>9. ASSUME f.pc = "land", ~f.error
      PROVE  /\ file' # f.identity
             /\ \A c \in Callers :
                 caller'[c].bad # file' /\ (caller'[c].bad = NoToken => caller'[c].token # file')
  <2>1. file' # f.identity BY <1>2, <1>3, <1>4, <1>5, <1>9
  <2>2. ASSUME NEW c \in Callers
        PROVE  caller'[c].bad # file' /\ (caller'[c].bad = NoToken => caller'[c].token # file')
    <3>1. /\ caller[c].bad # file /\ (caller[c].bad = NoToken => caller[c].token # file)
          /\ caller[c].bad \in Tokens /\ caller[c].token \in Tokens
          /\ caller[c].bad.id <= minted /\ caller[c].token.id <= minted
      BY <1>2, <1>3, <1>4, <1>9
    <3>2. caller'[c].bad # file /\ (caller'[c].bad = NoToken => caller'[c].token # file)
      BY <1>1, <1>7, <1>9, <3>1 DEF CallerMoves
    <3>3. CASE file' = file BY <3>2, <3>3
    <3>4. CASE file'.id > minted
      <4>1. \A t \in {caller[c].bad, caller[c].token, NoToken, file} :
              t.id \in Nat /\ t.id <= minted
        BY <1>3, <1>4, <3>1
      <4>2. \A t \in {caller[c].bad, caller[c].token, NoToken, file} : t # file'
        BY <1>4, <3>4, <4>1
      <4> QED BY <4>2 DEF CallerMoves
    <3> QED BY <3>3, <3>4
  <2> QED BY <2>1, <2>2
<1>10. ~denied'[m].error => file' # denied'[m].token BY <1>2, <1>3, <1>4, <1>5
<1>11. f = flight'[m] BY DEF f
<1> QED BY <1>8, <1>9, <1>10, <1>11 DEF NewToAll

-----------------------------------------------------------------------------
\* Operators, the desktop client, time and the upstream

\* An operator's step that no caller and no renewal sees.
LEMMA AccountStep ==
    ASSUME Bounds, CredentialInv, UNCHANGED <<made, admins>>, TypeOK', FilesInv',
           \A m \in Managers : flight[m].pc # "none" /\ ~retired'[m] => m = current',
           \A m \in Managers : flight[m].pc = "rename" => ~retired'[m] /\ uploaded' = uploaded,
           file' \in {file, NoToken},
           \A m \in Managers : Serving(m)' => Serving(m) /\ file' = file
    PROVE  CredentialInv'
<1>1. /\ UNCHANGED <<minted, cached, flight, denied, guard, caller, dead>>
      /\ made' = made /\ minted \in Nat /\ made \in Nat /\ TypeOK
  BY Shapes DEF admins, CredentialInv
<1>2. LoginFits' BY <1>1 DEF CredentialInv, LoginFits
<1>3. FlightsInv'
  <2> SUFFICES ASSUME NEW m \in Managers PROVE FlightFits(m)' /\ denied'[m].token.id <= minted'
    BY DEF FlightsInv
  <2>1. FlightFits(m) /\ denied[m].token.id <= minted BY DEF CredentialInv, FlightsInv
  <2>2. FlightFits(m)' BY <1>1, <2>1, FlightKept
  <2> QED BY <1>1, <2>1, <2>2
<1>4. CallersInv' BY <1>1, CallerKept DEF CredentialInv, CallersInv
<1>5. ServingInv'
  <2> SUFFICES ASSUME NEW m \in Managers, Serving(m)' PROVE NewToAll(m)' BY DEF ServingInv
  <2>1. Serving(m) /\ file' = file OBVIOUS
  <2>2. \A c \in Callers : CallerMoves(c) BY <1>1 DEF CallerMoves
  <2> QED BY <1>1, <2>1, <2>2, NewKept
<1> QED BY <1>2, <1>3, <1>4, <1>5 DEF CredentialInv

\* A retirement waits for the write-back of the manager that it retires.
LEMMA RetireFacts ==
    ASSUME Bounds, CredentialInv, current # 0, Retire(current)
    PROVE  /\ retired' = [retired EXCEPT ![current] = TRUE]
           /\ retired' \in [Managers -> BOOLEAN]
           /\ \A m \in Managers : flight[m].pc # "rename"
           /\ \A m \in Managers : flight[m].pc = "none" \/ retired'[m]
           /\ current \in Managers /\ retired'[current]
<1>1. /\ retired' = [retired EXCEPT ![current] = TRUE] /\ ~mutex[current]
      /\ current \in Managers /\ retired \in [Managers -> BOOLEAN]
  BY Shapes DEF Retire, CredentialInv, TypeOK
<1>2. ASSUME NEW m \in Managers
      PROVE  /\ flight[m].pc # "none" /\ ~retired[m] => m = current
             /\ flight[m].pc = "rename" => ~retired[m] /\ mutex[m]
  BY DEF CredentialInv, FlightsInv, FlightFits, TypeOK
<1> QED BY <1>1, <1>2

\* An upload begins with the retirement of the registered manager.
LEMMA UploadRetireInv == ASSUME Bounds, CredentialInv, UploadRetire PROVE CredentialInv'
<1>1. /\ admin = "idle" /\ admin' = "upload" /\ made < MaxManagers /\ events < MaxEvents /\ events' = events + 1
      /\ IF current # 0 THEN Retire(current) ELSE UNCHANGED retired
      /\ UNCHANGED <<file, current, made, uploaded, admins>>
  BY DEF UploadRetire, Event
<1>2. /\ retired' \in [Managers -> BOOLEAN]
      /\ current # 0 => /\ \A m \in Managers : flight[m].pc # "rename"
                        /\ \A m \in Managers : flight[m].pc = "none" \/ retired'[m]
                        /\ retired'[current]
      /\ current = 0 => retired' = retired
  <2>1. CASE current # 0 BY <1>1, <2>1, RetireFacts
  <2>2. CASE current = 0 BY <1>1, <2>2 DEF CredentialInv, TypeOK
  <2> QED BY <2>1, <2>2
<1>3. TypeOK'
  <2>1. events' \in 0..MaxEvents BY <1>1 DEF CredentialInv, TypeOK, Bounds
  <2> QED BY <1>1, <1>2, <2>1 DEF CredentialInv, TypeOK, admins
<1>4. FilesInv' BY <1>1, <1>2 DEF CredentialInv, FilesInv, admins
<1>5. \A m \in Managers : flight[m].pc # "none" /\ ~retired[m] => m = current
  BY DEF CredentialInv, FlightsInv, FlightFits
<1>6. \A m \in Managers : m # 0 BY Shapes DEF CredentialInv
<1>7. /\ \A m \in Managers : flight[m].pc # "none" /\ ~retired'[m] => m = current'
      /\ \A m \in Managers : flight[m].pc = "rename" => ~retired'[m]
  <2>1. \A m \in Managers : flight[m].pc = "rename" => ~retired[m]
    BY DEF CredentialInv, FlightsInv, FlightFits
  <2> QED BY <1>1, <1>2, <1>5, <2>1
<1>8. \A m \in Managers : ~Serving(m)' BY <1>1, <1>2, <1>6 DEF Serving
<1> QED BY <1>1, <1>3, <1>4, <1>7, <1>8, AccountStep

\* So does a deletion, which also takes the manager out of the runtime.
LEMMA DeleteRetireInv == ASSUME Bounds, CredentialInv, DeleteRetire PROVE CredentialInv'
<1>1. /\ admin = "idle" /\ admin' = "delete" /\ events < MaxEvents /\ events' = events + 1
      /\ current # 0 /\ Retire(current) /\ current' = 0 /\ uploaded' = 0
      /\ UNCHANGED <<file, made, admins>>
  BY DEF DeleteRetire, Event
<1>2. /\ retired' \in [Managers -> BOOLEAN]
      /\ \A m \in Managers : flight[m].pc # "rename"
      /\ \A m \in Managers : flight[m].pc = "none" \/ retired'[m]
  BY <1>1, RetireFacts
<1>3. made \in Nat /\ \A m \in Managers : m # 0 BY Shapes DEF CredentialInv
<1>4. TypeOK'
  <2>1. events' \in 0..MaxEvents BY <1>1 DEF CredentialInv, TypeOK, Bounds
  <2>2. current' \in 0..made' /\ uploaded' \in 0..made' BY <1>1, <1>3
  <2> QED BY <1>1, <1>2, <2>1, <2>2 DEF CredentialInv, TypeOK, admins
<1>5. FilesInv' BY <1>1 DEF CredentialInv, FilesInv, admins
<1>6. \A m \in Managers : ~Serving(m)' BY <1>1, <1>3 DEF Serving
<1> QED BY <1>1, <1>2, <1>4, <1>5, <1>6, AccountStep

\* An upload ends without its file, a deletion by removing it.
LEMMA AdminEndsInv ==
    ASSUME Bounds, CredentialInv, UploadFail \/ DeleteFile PROVE CredentialInv'
<1>1. /\ UNCHANGED <<current, made, retired, events, uploaded, admins>> /\ admin' = "idle"
      /\ \/ admin = "upload" /\ file' = file
         \/ admin = "delete" /\ file' = NoToken
  BY DEF UploadFail, DeleteFile
<1>2. /\ admin = "delete" => current = 0
      /\ \A m \in Managers : m # 0
      /\ NoToken \in Tokens /\ NoToken.origin = Desktop /\ NoToken.id = 0
  BY Shapes DEF CredentialInv, FilesInv
<1>3. TypeOK' BY <1>1, <1>2 DEF CredentialInv, TypeOK, admins
<1>4. FilesInv' BY <1>1, <1>2 DEF CredentialInv, FilesInv, admins
<1>5. /\ \A m \in Managers : flight[m].pc # "none" /\ ~retired'[m] => m = current'
      /\ \A m \in Managers : flight[m].pc = "rename" => ~retired'[m]
  BY <1>1 DEF CredentialInv, FlightsInv, FlightFits
<1>6. \A m \in Managers : Serving(m)' => Serving(m) /\ file' = file
  BY <1>1, <1>2 DEF Serving
<1> QED BY <1>1, <1>3, <1>4, <1>5, <1>6, AccountStep

\* The upstream stops accepting the token in place.
LEMMA RevokeInv == ASSUME Bounds, CredentialInv, Revoke PROVE CredentialInv'
<1>1. /\ file # NoToken /\ rejected' = rejected \cup {file.id}
      /\ events < MaxEvents /\ events' = events + 1
      /\ UNCHANGED <<file, minted, current, made, admin, manager, guard, caller, dead,
                     uploaded>>
  BY DEF Revoke, Event
<1>2. file.id \in 1..MaxTokens
  BY <1>1, Shapes DEF CredentialInv, FilesInv, TypeOK, Bounds
<1>3. TypeOK'
  <2>1. events' \in 0..MaxEvents BY <1>1 DEF CredentialInv, TypeOK, Bounds
  <2> QED BY <1>1, <1>2, <2>1 DEF CredentialInv, TypeOK, manager
<1> QED BY <1>1, <1>3
        DEF CredentialInv, FilesInv, LoginFits, FlightsInv, FlightFits, CallersInv,
            CallerFits, ServingInv, Serving, NewToAll, manager

\* A new token in the file is nobody's.
LEMMA DesktopWriteInv == ASSUME Bounds, CredentialInv, DesktopWrite PROVE CredentialInv'
<1>1. /\ minted < MaxTokens /\ file # NoToken /\ file' = Mint(Desktop) /\ minted' = minted + 1
      /\ events < MaxEvents /\ events' = events + 1
      /\ UNCHANGED <<current, made, admin, manager, guard, caller, rejected, dead, uploaded>>
  BY DEF DesktopWrite, Event
<1>2. minted \in Nat /\ made \in Nat /\ TypeOK /\ Desktop \in 0..MaxManagers
  BY Shapes DEF CredentialInv, Bounds, Desktop
<1>3. /\ file' \in Tokens /\ file'.id = minted + 1 /\ file'.origin = Desktop
      /\ file' # NoToken
  BY <1>1, <1>2, MintFresh
<1>4. TypeOK'
  <2>1. events' \in 0..MaxEvents BY <1>1 DEF CredentialInv, TypeOK, Bounds
  <2>2. minted' \in 1..MaxTokens BY <1>1, <1>2 DEF Bounds
  <2> QED BY <1>1, <1>3, <2>1, <2>2 DEF CredentialInv, TypeOK, manager
<1>5. FilesInv' BY <1>1, <1>2, <1>3 DEF CredentialInv, FilesInv, manager
<1>6. LoginFits' BY <1>1 DEF CredentialInv, LoginFits
<1>7. FlightsInv'
  <2> SUFFICES ASSUME NEW m \in Managers PROVE FlightFits(m)' /\ denied'[m].token.id <= minted'
    BY DEF FlightsInv
  <2>1. FlightFits(m) /\ denied[m].token.id <= minted /\ denied[m].token.id \in Nat
    BY <1>2, Shapes DEF CredentialInv, FlightsInv
  <2>2. /\ flight[m].pc # "none" /\ ~retired[m] => m = current
        /\ flight[m].pc = "rename" => ~retired[m]
    BY <2>1 DEF FlightFits
  <2>3. /\ minted' \in Nat /\ minted' >= minted /\ file'.id > minted
        /\ UNCHANGED <<made, dead, flight, cached, retired, current, denied, uploaded>>
    BY <1>1, <1>2, <1>3 DEF manager
  <2>4. FlightFits(m)' BY <1>2, <2>1, <2>2, <2>3, FlightKept
  <2> QED BY <1>2, <2>1, <2>3, <2>4
<1>8. CallersInv' BY <1>1, <1>2, CallerKept DEF CredentialInv, CallersInv
<1>9. ServingInv'
  <2> SUFFICES ASSUME NEW m \in Managers, Serving(m)' PROVE NewToAll(m)' BY DEF ServingInv
  <2>1. Serving(m) BY <1>1 DEF Serving, manager
  <2>2. \A c \in Callers : CallerMoves(c) BY <1>1 DEF CallerMoves
  <2>3. UNCHANGED <<flight, denied>> /\ file'.id > minted BY <1>1, <1>2, <1>3 DEF manager
  <2> QED BY <2>1, <2>2, <2>3, NewKept
<1> QED BY <1>4, <1>5, <1>6, <1>7, <1>8, <1>9 DEF CredentialInv

\* An upload: the manager that may write is a new one, with no renewal yet.
LEMMA UploadWriteInv == ASSUME Bounds, CredentialInv, UploadWrite PROVE CredentialInv'
<1> DEFINE new == made + 1
<1>1. /\ admin = "upload" /\ minted < MaxTokens /\ admin' = "idle"
      /\ file' = Mint(new) /\ minted' = minted + 1
      /\ cached' = [cached EXCEPT ![new] = Mint(new)]
      /\ made' = new /\ uploaded' = new /\ current' \in {new, current}
      /\ UNCHANGED <<retired, mutex, flight, denied, guard, caller, world, dead>>
  BY DEF UploadWrite
<1>2. /\ minted \in Nat /\ made \in Nat \ {0} /\ TypeOK /\ made < MaxManagers
      /\ current = 0 \/ retired[current]
      /\ cached \in [Managers -> Tokens] /\ current \in 0..made
  BY <1>1, Shapes DEF CredentialInv, Bounds, FilesInv, TypeOK
<1>3. new \in Managers /\ new \in 0..MaxManagers /\ new # 0
  BY <1>2 DEF Bounds, Managers
<1> HIDE DEF new
<1>4. /\ file' \in Tokens /\ file'.id = minted + 1 /\ file'.origin = new /\ file' # NoToken
      /\ \A t \in Tokens : t.id <= minted => t # file'
  BY <1>1, <1>2, <1>3, MintFresh
<1>5. cached' \in [Managers -> Tokens]
      /\ \A m \in Managers : cached'[m] = IF m = new THEN file' ELSE cached[m]
  BY <1>1, <1>2, <1>4
<1>6. minted' \in 1..MaxTokens /\ minted' \in Nat /\ minted' >= minted
  BY <1>1, <1>2 DEF Bounds
<1>7. made' \in Managers /\ made' >= made /\ made' \in Nat BY <1>1, <1>2, <1>3 DEF new
<1>8. TypeOK'
  <2>1. current' \in 0..made' /\ uploaded' \in 0..made'
    BY <1>1, <1>2, <1>7, <1>3 DEF Managers
  <2>2. rejected' \cup dead' \subseteq 1..MaxTokens /\ events' \in 0..MaxEvents
    BY <1>1, <1>2 DEF TypeOK, world
  <2> QED BY <1>1, <1>2, <1>4, <1>5, <1>6, <1>7, <2>1, <2>2 DEF TypeOK
<1>9. FilesInv' BY <1>1, <1>4, <1>6 DEF FilesInv
<1>10. LoginFits' BY <1>1 DEF CredentialInv, LoginFits
<1>11. \A m \in Managers : flight[m].pc # "none" => retired[m]
  BY <1>2, Shapes DEF CredentialInv, FlightsInv, FlightFits
<1>12. FlightsInv'
  <2> SUFFICES ASSUME NEW m \in Managers PROVE FlightFits(m)' /\ denied'[m].token.id <= minted'
    BY DEF FlightsInv
  <2>1. /\ FlightFits(m) /\ denied[m].token.id <= minted /\ denied[m].token.id \in Nat
        /\ flight[m].identity \in Tokens
    BY <1>2, Shapes DEF CredentialInv, FlightsInv, Flights
  <2>2. /\ flight[m].pc # "none" => retired[m]
        /\ flight[m].pc # "rename"
    BY <1>11, <2>1 DEF FlightFits
  <2>3. cached'[m] = cached[m] \/ cached'[m] # flight[m].identity
    BY <1>4, <1>5, <2>1 DEF FlightFits
  <2>4. file'.id > minted BY <1>2, <1>4
  <2>5. UNCHANGED <<flight, retired, denied, dead>> /\ made \in Nat BY <1>1, <1>2
  <2>6. FlightFits(m)' BY <1>2, <1>6, <1>7, <2>1, <2>2, <2>3, <2>4, <2>5, FlightKept
  <2> QED BY <1>2, <1>6, <2>1, <2>5, <2>6
<1>13. CallersInv' BY <1>1, <1>2, <1>6, CallerKept DEF CredentialInv, CallersInv
<1>14. ServingInv'
  <2> SUFFICES ASSUME NEW m \in Managers, Serving(m)' PROVE NewToAll(m)' BY DEF ServingInv
  <2>1. m = new /\ m > made
    <3>1. m = current' /\ ~retired[m] BY <1>1 DEF Serving
    <3>2. m # 0 BY Shapes DEF CredentialInv
    <3> QED BY <1>1, <1>2, <3>1, <3>2 DEF new
  <2>2. flight'[m] = flight[m] /\ denied'[m] = denied[m] BY <1>1
  <2>3. flight[m].pc = "none" /\ denied[m].token \in Tokens /\ denied[m].token.id <= minted
    BY <2>1, <1>2, Shapes DEF CredentialInv, FlightsInv, FlightFits
  <2> QED BY <1>4, <2>2, <2>3 DEF NewToAll
<1> QED BY <1>8, <1>9, <1>10, <1>12, <1>13, <1>14 DEF CredentialInv

\* The record of a renewal is forgotten.
LEMMA ForgetInv ==
    ASSUME Bounds, CredentialInv, NEW m \in Managers, Forget(m) PROVE CredentialInv'
<1>1. /\ flight[m] = NoFlight /\ events < MaxEvents /\ events' = events + 1
      /\ denied' = [denied EXCEPT ![m] = NoDenied]
      /\ UNCHANGED <<current, made, admin, retired, rejected, file, minted,
                     cached, mutex, flight, guard, caller, dead, uploaded>>
  BY DEF Forget, Event
<1>2. /\ denied \in [Managers -> [token : Tokens, error : BOOLEAN]] /\ TypeOK
      /\ NoDenied \in [token : Tokens, error : BOOLEAN] /\ NoDenied.token = NoToken
      /\ minted \in Nat /\ NoToken.id = 0
  BY Shapes DEF CredentialInv, NoDenied
<1>3. /\ denied' \in [Managers -> [token : Tokens, error : BOOLEAN]]
      /\ \A n \in Managers : denied'[n] = IF n = m THEN NoDenied ELSE denied[n]
  BY <1>1, <1>2
<1>4. TypeOK'
  <2>1. events' \in 0..MaxEvents BY <1>1 DEF CredentialInv, TypeOK, Bounds
  <2> QED BY <1>1, <1>2, <1>3, <2>1 DEF TypeOK
<1>5. FilesInv' /\ LoginFits' BY <1>1 DEF CredentialInv, FilesInv, LoginFits
<1>6. FlightsInv'
  <2> SUFFICES ASSUME NEW n \in Managers PROVE FlightFits(n)' /\ denied'[n].token.id <= minted'
    BY DEF FlightsInv
  <2>1. FlightFits(n) /\ denied[n].token.id <= minted BY DEF CredentialInv, FlightsInv
  <2>2. FlightFits(n)' BY <1>1, <2>1 DEF FlightFits
  <2> QED BY <1>1, <1>2, <1>3, <2>1, <2>2
<1>7. CallersInv' BY <1>1 DEF CredentialInv, CallersInv, CallerFits
<1>8. ServingInv'
  <2> SUFFICES ASSUME NEW n \in Managers, Serving(n)' PROVE NewToAll(n)' BY DEF ServingInv
  <2>1. Serving(n) /\ NewToAll(n) BY <1>1 DEF Serving, CredentialInv, ServingInv
  <2>2. file # NoToken BY <2>1, Shapes DEF Serving, CredentialInv, FilesInv
  <2>3. CASE n # m BY <1>1, <1>3, <2>1, <2>3 DEF NewToAll
  <2>4. CASE n = m
    <3>1. flight'[n].pc = "none" /\ denied'[n].token = NoToken
      BY <1>1, <1>2, <1>3, <2>4 DEF NoFlight
    <3> QED BY <1>1, <2>2, <3>1 DEF NewToAll
  <2> QED BY <2>3, <2>4
<1> QED BY <1>4, <1>5, <1>6, <1>7, <1>8 DEF CredentialInv

\* A caller leaves, or its call ends, perhaps with a rejected token.
LEMMA CallerLeavesInv ==
    ASSUME Bounds, CredentialInv, NEW c \in Callers, Gone(c) \/ Cancel(c) \/ Finish(c)
    PROVE  CredentialInv'
<1> DEFINE back == [NoCaller EXCEPT !.pc = "rejected", !.bad = caller[c].token]
<1>1. /\ UNCHANGED <<file, minted, current, made, admin, manager, guard, world, dead,
                     uploaded>>
      /\ \/ caller' = [caller EXCEPT ![c] = NoCaller]
         \/ /\ caller' = [caller EXCEPT ![c] = back]
            /\ caller[c].token.id \in rejected /\ caller[c].bad = NoToken
  BY DEF Gone, Cancel, Finish
<1>2. /\ caller \in [Callers -> CallerStates] /\ TypeOK /\ CallerFits(c)
      /\ caller[c].token \in Tokens /\ NoToken \in Tokens /\ NoToken.id = 0
      /\ minted \in Nat /\ caller[c].token.id <= minted /\ rejected \subseteq 1..MaxTokens
  BY Shapes DEF CredentialInv, CallersInv, CallerFits, CallerStates, TypeOK
<1>3. /\ NoCaller \in CallerStates /\ NoCaller.pc = "idle" /\ NoCaller.token = NoToken
      /\ NoCaller.bad = NoToken
  BY <1>2 DEF NoCaller, CallerStates, Bounds
<1>4. /\ back \in CallerStates /\ back.pc = "rejected" /\ back.token = NoToken
      /\ back.bad = caller[c].token
  <2> DEFINE first == [NoCaller EXCEPT !.pc = "rejected"]
  <2>1. /\ first \in CallerStates /\ first.pc = "rejected" /\ first.token = NoToken
    BY <1>3 DEF CallerStates
  <2>2. back = [first EXCEPT !.bad = caller[c].token] OBVIOUS
  <2> HIDE DEF first, back
  <2> QED BY <1>2, <2>1, <2>2 DEF CallerStates
<1> HIDE DEF back
<1>5. PICK d \in CallerStates :
        /\ caller' = [caller EXCEPT ![c] = d] /\ d.token = NoToken
        /\ \/ d.pc = "idle" /\ d.bad = NoToken
           \/ /\ d.pc = "rejected" /\ d.bad = caller[c].token /\ caller[c].bad = NoToken
              /\ d.bad # NoToken
  BY <1>1, <1>2, <1>3, <1>4 DEF Bounds
<1>6. /\ caller' \in [Callers -> CallerStates]
      /\ \A e \in Callers : caller'[e] = IF e = c THEN d ELSE caller[e]
  BY <1>2, <1>5
<1>7. TypeOK' BY <1>1, <1>2, <1>6 DEF TypeOK, CallerStates, manager, world
<1>8. FilesInv' /\ LoginFits' /\ FlightsInv'
  BY <1>1 DEF CredentialInv, FilesInv, LoginFits, FlightsInv, FlightFits, manager
<1>9. CallersInv'
  <2>1. CallerFits(c)' BY <1>1, <1>2, <1>5, <1>6 DEF CallerFits
  <2>2. ASSUME NEW e \in Callers, e # c PROVE CallerFits(e)'
    BY <1>1, <1>6, <2>2 DEF CredentialInv, CallersInv, CallerFits
  <2> QED BY <2>1, <2>2 DEF CallersInv
<1>10. ServingInv'
  <2> SUFFICES ASSUME NEW m \in Managers, Serving(m)' PROVE NewToAll(m)' BY DEF ServingInv
  <2>1. Serving(m) BY <1>1 DEF Serving, manager
  <2>2. \A e \in Callers : CallerMoves(e) BY <1>5, <1>6 DEF CallerMoves
  <2>3. UNCHANGED <<file, flight, denied>> BY <1>1 DEF manager
  <2> QED BY <2>1, <2>2, <2>3, NewKept
<1> QED BY <1>7, <1>8, <1>9, <1>10 DEF CredentialInv

-----------------------------------------------------------------------------
\* The renewal

\* What a renewal's step makes of its record.
At(f, pc) == [f EXCEPT !.pc = pc]
Asking(f, t) == [f EXCEPT !.pc = "asked", !.snapshot = t]
Bringing(f, t) == [f EXCEPT !.pc = "compare", !.token = t]
Failing(f) == [f EXCEPT !.pc = "land", !.error = TRUE]
Refused(f) == [f EXCEPT !.pc = "land", !.error = TRUE, !.login = TRUE]

Same(f, g) == g.identity = f.identity /\ g.reject = f.reject

\* A renewal at another stage is otherwise the same.
LEMMA AtFacts ==
    ASSUME NEW f \in Flights, NEW pc \in Stages
    PROVE  /\ At(f, pc) \in Flights /\ Same(f, At(f, pc)) /\ At(f, pc).pc = pc
           /\ At(f, pc).snapshot = f.snapshot /\ At(f, pc).token = f.token
           /\ At(f, pc).error = f.error /\ At(f, pc).login = f.login
BY DEF At, Flights, Same

\* It asks with the snapshot it took,
LEMMA AskingFacts ==
    ASSUME NEW f \in Flights, NEW t \in Tokens
    PROVE  LET g == Asking(f, t) IN
           /\ g \in Flights /\ Same(f, g) /\ g.pc = "asked" /\ g.snapshot = t
           /\ g.token = f.token /\ g.error = f.error /\ g.login = f.login
<1> DEFINE a == At(f, "asked")
           g == [a EXCEPT !.snapshot = t]
<1>1. Asking(f, t) = g BY DEF Asking, At
<1>2. /\ a \in Flights /\ Same(f, a) /\ a.pc = "asked" /\ a.token = f.token
      /\ a.error = f.error /\ a.login = f.login
  BY AtFacts DEF Stages
<1> HIDE DEF a
<1> QED BY <1>1, <1>2 DEF Flights, Same

\* brings a token,
LEMMA BringingFacts ==
    ASSUME NEW f \in Flights, NEW t \in Tokens
    PROVE  LET g == Bringing(f, t) IN
           /\ g \in Flights /\ Same(f, g) /\ g.pc = "compare" /\ g.token = t
           /\ g.snapshot = f.snapshot /\ g.error = f.error /\ g.login = f.login
<1> DEFINE a == At(f, "compare")
           g == [a EXCEPT !.token = t]
<1>1. Bringing(f, t) = g BY DEF Bringing, At
<1>2. /\ a \in Flights /\ Same(f, a) /\ a.pc = "compare" /\ a.snapshot = f.snapshot
      /\ a.error = f.error /\ a.login = f.login
  BY AtFacts DEF Stages
<1> HIDE DEF a
<1> QED BY <1>1, <1>2 DEF Flights, Same

\* fails,
LEMMA FailingFacts ==
    ASSUME NEW f \in Flights
    PROVE  LET g == Failing(f) IN
           /\ g \in Flights /\ Same(f, g) /\ g.pc = "land" /\ g.error
           /\ g.snapshot = f.snapshot /\ g.token = f.token /\ g.login = f.login
<1> DEFINE a == At(f, "land")
           g == [a EXCEPT !.error = TRUE]
<1>1. Failing(f) = g BY DEF Failing, At
<1>2. /\ a \in Flights /\ Same(f, a) /\ a.pc = "land" /\ a.snapshot = f.snapshot
      /\ a.token = f.token /\ a.login = f.login
  BY AtFacts DEF Stages
<1> HIDE DEF a
<1> QED BY <1>1, <1>2 DEF Flights, Same

\* or is told to log in.
LEMMA RefusedFacts ==
    ASSUME NEW f \in Flights
    PROVE  LET g == Refused(f) IN
           /\ g \in Flights /\ Same(f, g) /\ g.pc = "land" /\ g.error
           /\ g.snapshot = f.snapshot /\ g.token = f.token
<1> DEFINE a == Failing(f)
           g == [a EXCEPT !.login = TRUE]
<1>1. Refused(f) = g BY DEF Refused, Failing
<1>2. /\ a \in Flights /\ Same(f, a) /\ a.pc = "land" /\ a.error
      /\ a.snapshot = f.snapshot /\ a.token = f.token
  BY FailingFacts
<1> HIDE DEF a
<1> QED BY <1>1, <1>2 DEF Flights, Same

\* A renewal goes on, and the others see at most another file.
LEMMA RenewalStep ==
    ASSUME Bounds, CredentialInv, NEW m \in Managers, NEW g \in Flights, NEW x \in Tokens,
           flight' = [flight EXCEPT ![m] = g], Same(flight[m], g),
           cached' = [cached EXCEPT ![m] = x],
           UNCHANGED <<elsewhere, denied, guard, caller>>,
           file' \in Tokens, minted' \in 1..MaxTokens, minted' >= minted,
           dead \subseteq dead', dead' \subseteq 1..MaxTokens,
           mutex' \in [Managers -> BOOLEAN],
           \A n \in Managers : mutex'[n] <=> flight'[n].pc = "rename",
           FilesInv', FlightFits(m)', Serving(m) => NewToAll(m)',
           \A n \in Managers : n # m => file' = file \/ file' # flight[n].identity,
           \A n \in Managers : n # m /\ Serving(n) => file' = file
    PROVE  CredentialInv'
<1>1. /\ flight \in [Managers -> Flights] /\ cached \in [Managers -> Tokens] /\ TypeOK
      /\ UNCHANGED <<current, made, admin, retired, uploaded, rejected, events>>
      /\ minted \in Nat /\ made \in Nat
  BY Shapes DEF CredentialInv, elsewhere, world
<1>2. /\ flight' \in [Managers -> Flights] /\ cached' \in [Managers -> Tokens]
      /\ \A n \in Managers : n # m => flight'[n] = flight[n] /\ cached'[n] = cached[n]
      /\ flight'[m] = g
  BY <1>1
<1>3. TypeOK'
  <2>1. rejected' \cup dead' \subseteq 1..MaxTokens BY <1>1 DEF TypeOK
  <2>2. \A n \in Managers : flight'[n].pc \in Stages BY <1>2 DEF Flights
  <2> QED BY <1>1, <1>2, <2>1 DEF TypeOK, Flights, Stages
<1>4. LoginFits' BY DEF CredentialInv, LoginFits
<1>5. FlightsInv'
  <2> SUFFICES ASSUME NEW n \in Managers PROVE FlightFits(n)' /\ denied'[n].token.id <= minted'
    BY DEF FlightsInv
  <2>1. /\ FlightFits(n) /\ denied[n].token.id <= minted /\ denied[n].token.id \in Nat
    BY Shapes DEF CredentialInv, FlightsInv
  <2>2. minted' \in Nat BY DEF Bounds
  <2>3. /\ flight[n].pc # "none" /\ ~retired[n] => n = current
        /\ flight[n].pc = "rename" => ~retired[n]
    BY <2>1 DEF FlightFits
  <2>4. FlightFits(n)'
    <3>1. CASE n = m BY <3>1
    <3>2. CASE n # m
      <4>1. flight'[n] = flight[n] /\ cached'[n] = cached[n] BY <1>2, <3>2
      <4>2. file' = file \/ file' # flight[n].identity BY <3>2
      <4>3. made' \in Nat /\ made' >= made BY <1>1
      <4>4. /\ flight[n].pc # "none" /\ ~retired'[n] => n = current'
            /\ flight[n].pc = "rename" => ~retired'[n] /\ uploaded' = uploaded
        BY <1>1, <2>3
      <4> QED BY <1>1, <2>1, <2>2, <4>1, <4>2, <4>3, <4>4, FlightKept
    <3> QED BY <3>1, <3>2
  <2> QED BY <1>1, <2>1, <2>2, <2>4
<1>6. CallersInv'
  <2>1. minted' \in Nat BY DEF Bounds
  <2> QED BY <1>1, <2>1, CallerKept DEF CredentialInv, CallersInv
<1>7. ServingInv'
  <2> SUFFICES ASSUME NEW n \in Managers, Serving(n)' PROVE NewToAll(n)' BY DEF ServingInv
  <2>1. Serving(n) BY <1>1 DEF Serving
  <2>2. CASE n = m BY <2>1, <2>2
  <2>3. CASE n # m
    <3>1. \A c \in Callers : CallerMoves(c) BY DEF CallerMoves
    <3>2. \A k \in Managers : flight'[k].identity = flight[k].identity BY <1>2 DEF Same
    <3>3. flight'[n] = flight[n] /\ denied'[n] = denied[n] /\ file' = file
      BY <1>2, <2>1, <2>3
    <3> QED BY <2>1, <3>1, <3>2, <3>3, NewKept
  <2> QED BY <2>2, <2>3
<1> QED BY <1>3, <1>4, <1>5, <1>6, <1>7 DEF CredentialInv

\* What a renewal in flight knows.
LEMMA Flying ==
    ASSUME Bounds, CredentialInv, NEW m \in Managers, flight[m].pc # "none"
    PROVE  /\ flight[m] \in Flights /\ FlightFits(m) /\ cached[m] \in Tokens
           /\ flight[m].pc # "land" => ~flight[m].error /\ ~flight[m].login
           /\ ~retired[m] => /\ m = current /\ Session(m) = file /\ file # NoToken
                             /\ file.id \in 1..minted /\ Serving(m) /\ NewToAll(m)
                             /\ file.origin \in {Desktop, uploaded}
           /\ Session(m) \in Tokens /\ m # 0
<1>1. flight[m] \in Flights /\ FlightFits(m) /\ cached[m] \in Tokens /\ file \in Tokens /\ m # 0
  BY Shapes DEF CredentialInv, FlightsInv
<1>2. ~retired[m] => m = current /\ file # NoToken /\ admin # "delete"
  BY <1>1 DEF FlightFits, CredentialInv, FilesInv
<1> QED BY <1>1, <1>2 DEF FlightFits, Session, Serving, CredentialInv, FilesInv, ServingInv

\* A private snapshot of the file as it is now.
LEMMA SnapshotInv ==
    ASSUME Bounds, CredentialInv, NEW m \in Managers, Snapshot(m) PROVE CredentialInv'
<1> DEFINE f == flight[m]
<1>1. /\ f.pc = "start"
      /\ UNCHANGED <<elsewhere, file, minted, mutex, denied, guard, caller, dead>>
  BY DEF Snapshot
<1>2. /\ f \in Flights /\ FlightFits(m) /\ ~f.error /\ ~f.login /\ Session(m) \in Tokens
      /\ cached[m] \in Tokens /\ m # 0
      /\ ~retired[m] => /\ m = current /\ Session(m) = file /\ file.id \in 1..minted
                        /\ file # NoToken /\ NewToAll(m)
  BY <1>1, Flying
<1>3. /\ TypeOK /\ flight \in [Managers -> Flights] /\ cached \in [Managers -> Tokens]
      /\ minted \in Nat /\ file \in Tokens
  BY Shapes DEF CredentialInv
<1>4. FilesInv' BY <1>1 DEF CredentialInv, FilesInv, elsewhere
<1>5. \A g \in Flights : flight' = [flight EXCEPT ![m] = g] /\ g.pc # "rename" =>
        \A n \in Managers : mutex'[n] <=> flight'[n].pc = "rename"
  BY <1>1, <1>3 DEF TypeOK
<1>6. /\ mutex' \in [Managers -> BOOLEAN] /\ dead' \subseteq 1..MaxTokens
      /\ minted' \in 1..MaxTokens /\ minted' >= minted /\ file' \in Tokens
      /\ dead \subseteq dead'
  BY <1>1, <1>3 DEF TypeOK
<1>7. CASE retired[m]
  <2> DEFINE g == Failing(f)
  <2>1. flight' = [flight EXCEPT ![m] = g] /\ cached' = [cached EXCEPT ![m] = cached[m]]
    BY <1>3, <1>7 DEF Snapshot, Failing
  <2>2. g \in Flights /\ Same(f, g) /\ g.pc = "land" /\ g.error /\ g.snapshot = f.snapshot
        /\ g.token = f.token /\ g.login = f.login
    BY <1>2, FailingFacts
  <2> HIDE DEF g
  <2>3. flight'[m] = g BY <1>3, <2>1
  <2>4. FlightFits(m)'
    BY <1>1, <1>2, <1>7, <2>2, <2>3 DEF FlightFits, Same, elsewhere
  <2>5. ~Serving(m) BY <1>7 DEF Serving
  <2> QED BY <1>1, <1>2, <1>4, <1>5, <1>6, <2>1, <2>2, <2>4, <2>5, RenewalStep
<1>8. CASE ~retired[m]
  <2> DEFINE g == Asking(f, file)
  <2>1. flight' = [flight EXCEPT ![m] = g] /\ cached' = [cached EXCEPT ![m] = file]
    BY <1>2, <1>3, <1>8 DEF Snapshot, Asking, Load
  <2>2. g \in Flights /\ Same(f, g) /\ g.pc = "asked" /\ g.snapshot = file
        /\ g.token = f.token /\ g.error = f.error /\ g.login = f.login
    BY <1>2, <1>3, AskingFacts
  <2> HIDE DEF g
  <2>3. flight'[m] = g /\ cached'[m] = file BY <1>3, <2>1
  <2>4. FlightFits(m)'
    BY <1>1, <1>2, <1>3, <1>8, <2>2, <2>3 DEF FlightFits, Same, elsewhere
  <2>5. NewToAll(m)' BY <1>1, <1>2, <1>8, <2>2, <2>3 DEF NewToAll
  <2> QED BY <1>1, <1>2, <1>3, <1>4, <1>5, <1>6, <2>1, <2>2, <2>4, <2>5, RenewalStep
<1> QED BY <1>7, <1>8

\* The upstream's answer: a new token is newer than all that anybody holds.
LEMMA ReplyInv ==
    ASSUME Bounds, CredentialInv, NEW m \in Managers, Reply(m) PROVE CredentialInv'
<1> DEFINE f == flight[m]
           new == Mint(f.snapshot.origin)
<1>1. /\ f.pc = "asked"
      /\ UNCHANGED <<elsewhere, file, cached, mutex, denied, guard, caller>>
  BY DEF Reply
<1>2. /\ f \in Flights /\ FlightFits(m) /\ ~f.error /\ ~f.login /\ cached[m] \in Tokens
      /\ ~retired[m] => /\ m = current /\ file.id \in 1..minted /\ file # NoToken
                        /\ NewToAll(m)
  BY <1>1, Flying
<1>3. /\ TypeOK /\ flight \in [Managers -> Flights] /\ cached \in [Managers -> Tokens]
      /\ minted \in Nat /\ file \in Tokens /\ f.snapshot \in Tokens
      /\ f.snapshot.id \in Nat /\ f.snapshot.origin \in 0..MaxManagers
      /\ f.identity \in Tokens /\ f.token.id \in Nat
  BY <1>2, Shapes DEF CredentialInv, Flights, Tokens
<1>4. FilesInv /\ cached' = [cached EXCEPT ![m] = cached[m]] BY <1>1, <1>3 DEF CredentialInv
<1>5. \A g \in Flights : flight' = [flight EXCEPT ![m] = g] /\ g.pc # "rename" =>
        \A n \in Managers : mutex'[n] <=> flight'[n].pc = "rename"
  BY <1>1, <1>3 DEF TypeOK
<1>6. /\ mutex' \in [Managers -> BOOLEAN] /\ dead \subseteq 1..MaxTokens
      /\ minted \in 1..MaxTokens /\ file' \in Tokens
  BY <1>1, <1>3 DEF TypeOK
<1>7. CASE /\ minted < MaxTokens /\ minted' = minted + 1
           /\ flight' = [flight EXCEPT ![m] = Bringing(f, new)] /\ dead' = dead
  <2>1. /\ new \in Tokens /\ new.id = minted + 1 /\ new.origin = f.snapshot.origin
        /\ \A t \in Tokens : t.id <= minted => t # new
    BY <1>3, <1>7, MintFresh
  <2> HIDE DEF new
  <2> DEFINE g == Bringing(f, new)
  <2>2. g \in Flights /\ Same(f, g) /\ g.pc = "compare" /\ g.token = new
        /\ g.snapshot = f.snapshot /\ g.error = f.error /\ g.login = f.login
    BY <1>2, <2>1, BringingFacts
  <2>3. flight'[m] = g BY <1>3, <1>7
  <2>4. flight' = [flight EXCEPT ![m] = g] BY <1>7
  <2> HIDE DEF g
  <2>5. minted' \in 1..MaxTokens /\ minted' >= minted BY <1>3, <1>6, <1>7 DEF Bounds
  <2>6. FlightFits(m)'
    <3>1. /\ f.identity.id <= minted /\ f.snapshot.id <= minted /\ f.identity.id # 0
          /\ f.identity.id \in Nat
          /\ m > made => f.pc = "none"
          /\ ~retired[m] => m = current
      BY <1>1, <1>2, <1>3, Shapes DEF FlightFits, CredentialInv
    <3>2. /\ g.identity.id <= minted' /\ g.snapshot.id <= minted' /\ g.token.id <= minted'
          /\ g.token.id # 0
      BY <1>3, <1>7, <2>1, <2>2, <3>1 DEF Same
    <3> QED BY <1>1, <1>2, <2>1, <2>2, <2>3, <3>1, <3>2 DEF FlightFits, Same, elsewhere
  <2>7. ASSUME Serving(m) PROVE NewToAll(m)'
    <3>1. file # new /\ denied[m].token # new /\ \A n \in Managers : flight[n].identity # new
      <4>1. /\ file.id <= minted /\ denied[m].token.id <= minted
            /\ denied[m].token \in Tokens
            /\ \A n \in Managers : flight[n].identity \in Tokens
            /\ \A n \in Managers : flight[n].identity.id <= minted
        BY <1>2, <1>3, <2>7, Shapes DEF CredentialInv, FlightsInv, FlightFits, Serving, Flights
      <4> QED BY <1>3, <2>1, <4>1
    <3>2. \A c \in Callers : caller[c].token # new /\ caller[c].bad # new
      <4>1. \A c \in Callers : /\ caller[c].token.id <= minted /\ caller[c].bad.id <= minted
                               /\ caller[c].token \in Tokens /\ caller[c].bad \in Tokens
        BY Shapes DEF CredentialInv, CallersInv, CallerFits, CallerStates
      <4> QED BY <2>1, <4>1
    <3>3. \A n \in Managers : flight'[n].identity = flight[n].identity
      BY <1>3, <2>2, <2>4 DEF Same
    <3>4. NewToAll(m) BY <1>2, <2>7 DEF Serving
    <3> QED BY <1>1, <2>2, <2>3, <3>1, <3>2, <3>3, <3>4 DEF NewToAll
  <2>8. FilesInv' BY <1>1, <1>3, <1>4, <1>7, Shapes DEF FilesInv, elsewhere, CredentialInv
  <2> QED BY <1>1, <1>2, <1>4, <1>5, <1>6, <1>7, <2>2, <2>4, <2>5, <2>6, <2>7, <2>8, RenewalStep
<1>8. ASSUME NEW g \in Flights, flight' = [flight EXCEPT ![m] = g], Same(f, g), g.pc = "land",
             g.error, g.snapshot = f.snapshot, g.token = f.token, minted' = minted,
             \/ ~g.login /\ dead' = dead
             \/ dead' = dead \cup {f.snapshot.id}
      PROVE  CredentialInv'
  <2>1. flight'[m] = g BY <1>3, <1>8
  <2>2. dead \subseteq dead' /\ dead' \subseteq 1..MaxTokens
    <3>1. f.snapshot.id <= minted /\ f.snapshot.id # 0 BY <1>1, <1>2 DEF FlightFits
    <3>2. f.snapshot.id \in 1..MaxTokens BY <1>3, <1>6, <3>1 DEF Bounds
    <3> QED BY <1>6, <1>8, <3>2
  <2>3. FlightFits(m)' BY <1>1, <1>2, <1>8, <2>1, <2>2 DEF FlightFits, Same, elsewhere
  <2>4. Serving(m) => NewToAll(m)'
    BY <1>1, <1>2, <1>8, <2>1 DEF Serving, NewToAll, elsewhere
  <2>5. FilesInv' BY <1>1, <1>4, <1>8 DEF FilesInv, elsewhere
  <2>6. minted' \in 1..MaxTokens /\ minted' >= minted BY <1>3, <1>6, <1>8
  <2> QED BY <1>1, <1>2, <1>4, <1>5, <1>6, <1>8, <2>2, <2>3, <2>4, <2>5, <2>6, RenewalStep
<1>9. CASE flight' = [flight EXCEPT ![m] = Failing(f)] /\ UNCHANGED <<minted, dead>>
  BY <1>2, <1>8, <1>9, FailingFacts
<1>10. CASE /\ flight' = [flight EXCEPT ![m] = Refused(f)] /\ dead' = dead \cup {f.snapshot.id}
            /\ minted' = minted
  BY <1>2, <1>8, <1>10, RefusedFacts
<1>11. \/ /\ minted < MaxTokens /\ minted' = minted + 1
          /\ flight' = [flight EXCEPT ![m] = Bringing(f, new)] /\ dead' = dead
       \/ flight' = [flight EXCEPT ![m] = Failing(f)] /\ UNCHANGED <<minted, dead>>
       \/ /\ flight' = [flight EXCEPT ![m] = Refused(f)] /\ dead' = dead \cup {f.snapshot.id}
          /\ minted' = minted
  BY <1>3 DEF Reply, Bringing, Failing, Refused
<1> QED BY <1>7, <1>9, <1>10, <1>11

\* The comparison: only the serving manager goes on to write.
LEMMA CompareInv ==
    ASSUME Bounds, CredentialInv, NEW m \in Managers, Compare(m) PROVE CredentialInv'
<1> DEFINE f == flight[m]
<1>1. /\ f.pc = "compare"
      /\ UNCHANGED <<elsewhere, file, minted, cached, denied, guard, caller, dead>>
  BY DEF Compare
<1>2. /\ f \in Flights /\ FlightFits(m) /\ ~f.error /\ ~f.login /\ cached[m] \in Tokens
      /\ ~retired[m] => NewToAll(m) /\ file.origin \in {Desktop, uploaded} /\ m = current
  BY <1>1, Flying
<1>3. /\ TypeOK /\ flight \in [Managers -> Flights] /\ cached \in [Managers -> Tokens]
      /\ minted \in Nat /\ file \in Tokens /\ mutex \in [Managers -> BOOLEAN]
  BY Shapes DEF CredentialInv, TypeOK
<1>4. FilesInv' BY <1>1 DEF CredentialInv, FilesInv, elsewhere
<1>5. /\ dead' \subseteq 1..MaxTokens /\ minted' \in 1..MaxTokens /\ minted' >= minted
      /\ file' \in Tokens /\ dead \subseteq dead' /\ cached' = [cached EXCEPT ![m] = cached[m]]
  BY <1>1, <1>3 DEF TypeOK
<1>6. CASE /\ flight' = [flight EXCEPT ![m] = Failing(f)] /\ mutex' = mutex
  <2> DEFINE g == Failing(f)
  <2>1. g \in Flights /\ Same(f, g) /\ g.pc = "land" /\ g.error /\ g.snapshot = f.snapshot
        /\ g.token = f.token /\ g.login = f.login
    BY <1>2, FailingFacts
  <2>2. flight' = [flight EXCEPT ![m] = g] BY <1>6
  <2> HIDE DEF g
  <2>3. flight'[m] = g BY <1>3, <2>2
  <2>4. FlightFits(m)' BY <1>1, <1>2, <2>1, <2>3 DEF FlightFits, Same, elsewhere
  <2>5. Serving(m) => NewToAll(m)'
    BY <1>1, <1>2, <2>1, <2>3 DEF NewToAll, Serving
  <2>6. /\ mutex' \in [Managers -> BOOLEAN]
        /\ \A n \in Managers : mutex'[n] <=> flight'[n].pc = "rename"
    BY <1>1, <1>3, <1>6, <2>1, <2>2 DEF TypeOK
  <2> QED BY <1>1, <1>2, <1>4, <1>5, <2>1, <2>2, <2>4, <2>5, <2>6, RenewalStep
<1>7. CASE /\ ~retired[m] /\ file = f.snapshot
           /\ flight' = [flight EXCEPT ![m] = At(f, "rename")]
           /\ mutex' = [mutex EXCEPT ![m] = TRUE]
  <2> DEFINE g == At(f, "rename")
  <2>1. g \in Flights /\ Same(f, g) /\ g.pc = "rename" /\ g.error = f.error
        /\ g.snapshot = f.snapshot /\ g.token = f.token /\ g.login = f.login
    BY <1>2, AtFacts DEF Stages
  <2>2. flight' = [flight EXCEPT ![m] = g] BY <1>7
  <2> HIDE DEF g
  <2>3. flight'[m] = g BY <1>3, <2>2
  <2>4. FlightFits(m)' BY <1>1, <1>2, <1>7, <2>1, <2>3 DEF FlightFits, Same, elsewhere
  <2>5. NewToAll(m)'
    <3>1. \A n \in Managers : flight'[n].identity = flight[n].identity
      BY <1>3, <2>1, <2>2 DEF Same
    <3> QED BY <1>1, <1>2, <1>7, <2>1, <2>3, <3>1 DEF NewToAll
  <2>6. /\ mutex' \in [Managers -> BOOLEAN]
        /\ \A n \in Managers : mutex'[n] <=> flight'[n].pc = "rename"
    BY <1>1, <1>3, <1>7, <2>1, <2>2 DEF TypeOK
  <2> QED BY <1>1, <1>2, <1>4, <1>5, <2>1, <2>2, <2>4, <2>5, <2>6, RenewalStep
<1>8. \/ flight' = [flight EXCEPT ![m] = Failing(f)] /\ mutex' = mutex
      \/ /\ ~retired[m] /\ file = f.snapshot
         /\ flight' = [flight EXCEPT ![m] = At(f, "rename")]
         /\ mutex' = [mutex EXCEPT ![m] = TRUE]
  BY <1>3 DEF Compare, Failing, At
<1> QED BY <1>6, <1>7, <1>8

\* The write-back: the token in place is nobody's rejected one.
LEMMA RenameInv ==
    ASSUME Bounds, CredentialInv, NEW m \in Managers, Rename(m) PROVE CredentialInv'
<1> DEFINE f == flight[m]
           g == At(f, "land")
<1>1. /\ f.pc = "rename" /\ file' = f.token
      /\ cached' = [cached EXCEPT ![m] = f.token] /\ mutex' = [mutex EXCEPT ![m] = FALSE]
      /\ flight' = [flight EXCEPT ![m] = g]
      /\ UNCHANGED <<elsewhere, minted, denied, guard, caller, dead>>
  BY DEF Rename, At
<1>2. f \in Flights /\ FlightFits(m) /\ ~f.error /\ ~f.login
  BY <1>1, Flying
<1>3. /\ ~retired[m] /\ f.token.origin \in {Desktop, uploaded} /\ f.token.id # 0
      /\ f.token.id <= minted
  BY <1>1, <1>2 DEF FlightFits
<1>4. NewToAll(m) /\ m = current /\ m # 0 BY <1>1, <1>3, Flying
<1>5. /\ TypeOK /\ flight \in [Managers -> Flights] /\ cached \in [Managers -> Tokens]
      /\ minted \in Nat /\ mutex \in [Managers -> BOOLEAN] /\ f.token \in Tokens
      /\ f.token.id \in Nat /\ NoToken.id = 0
  BY <1>2, Shapes DEF CredentialInv, TypeOK, Flights
<1>6. g \in Flights /\ Same(f, g) /\ g.pc = "land" /\ g.error = f.error
      /\ g.snapshot = f.snapshot /\ g.token = f.token /\ g.login = f.login
  BY <1>2, AtFacts DEF Stages
<1> HIDE DEF g
<1>7. flight'[m] = g BY <1>1, <1>5
<1>8. FilesInv'
  BY <1>1, <1>3, <1>4, <1>5 DEF CredentialInv, FilesInv, elsewhere
<1>9. FlightFits(m)' BY <1>1, <1>2, <1>6, <1>7 DEF FlightFits, Same, elsewhere
<1>10. NewToAll(m)' BY <1>1, <1>4, <1>6, <1>7 DEF NewToAll, Same
<1>11. /\ mutex' \in [Managers -> BOOLEAN]
       /\ \A n \in Managers : mutex'[n] <=> flight'[n].pc = "rename"
  BY <1>1, <1>5, <1>6 DEF TypeOK
<1>12. \A n \in Managers : flight[n].identity # f.token BY <1>1, <1>4 DEF NewToAll
<1>13. \A n \in Managers : n # m => ~Serving(n) BY <1>4 DEF Serving
<1>14. /\ dead' \subseteq 1..MaxTokens /\ minted' \in 1..MaxTokens /\ minted' >= minted
       /\ dead \subseteq dead' /\ file' \in Tokens
  BY <1>1, <1>5 DEF TypeOK
<1> QED BY <1>1, <1>5, <1>6, <1>8, <1>9, <1>10, <1>11, <1>12, <1>13, <1>14, RenewalStep

\* The end: the callers are woken, an expired login is recorded.
LEMMA LandInv ==
    ASSUME Bounds, CredentialInv, NEW m \in Managers, Land(m) PROVE CredentialInv'
<1> DEFINE f == flight[m]
<1>1. /\ f.pc = "land" /\ guard' = ObserveLogin(m) /\ flight' = [flight EXCEPT ![m] = NoFlight]
      /\ cached' = [cached EXCEPT ![m] = Session(m)]
      /\ denied' = IF f.reject /\ denied[m].token = f.identity
                   THEN [denied EXCEPT ![m].error = f.error] ELSE denied
      /\ caller' = [c \in Callers |->
            IF ~Woken(m, c) THEN caller[c]
            ELSE IF f.error \/ retired[m] THEN [caller[c] EXCEPT !.pc = "failed"]
                 ELSE [caller[c] EXCEPT !.pc = "ok", !.token = Session(m)]]
      /\ ~mutex[m] /\ UNCHANGED <<elsewhere, file, minted, mutex, dead>>
  BY DEF Land, Load
<1>2. /\ f \in Flights /\ FlightFits(m) /\ Session(m) \in Tokens /\ m # 0
      /\ ~retired[m] => /\ m = current /\ Session(m) = file /\ file # NoToken
                        /\ file.id \in 1..minted /\ NewToAll(m)
  BY <1>1, Flying
<1>3. /\ TypeOK /\ flight \in [Managers -> Flights] /\ cached \in [Managers -> Tokens]
      /\ minted \in Nat /\ denied \in [Managers -> [token : Tokens, error : BOOLEAN]]
      /\ caller \in [Callers -> CallerStates] /\ NoToken \in Tokens /\ NoToken.id = 0
      /\ made \in Nat /\ file \in Tokens
  BY Shapes DEF CredentialInv
<1>4. UNCHANGED <<current, made, admin, retired, uploaded, rejected, events, file, minted, mutex,
                 dead>>
  BY <1>1 DEF elsewhere, world
<1>5. /\ NoFlight \in Flights /\ NoFlight.pc = "none" /\ NoFlight.identity = NoToken
      /\ NoFlight.snapshot = NoToken /\ NoFlight.token = NoToken /\ ~NoFlight.error
      /\ ~NoFlight.login
  BY <1>3 DEF NoFlight, Flights, Stages
<1>6. /\ flight' \in [Managers -> Flights] /\ cached' \in [Managers -> Tokens]
      /\ \A n \in Managers : n # m => flight'[n] = flight[n] /\ cached'[n] = cached[n]
      /\ flight'[m] = NoFlight
  BY <1>1, <1>2, <1>3, <1>5
<1>7. /\ denied' \in [Managers -> [token : Tokens, error : BOOLEAN]]
      /\ \A n \in Managers : denied'[n].token = denied[n].token
      /\ \A n \in Managers : n # m => denied'[n] = denied[n]
      /\ \/ denied'[m] = denied[m]
         \/ denied[m].token = f.identity /\ (denied'[m].error <=> f.error)
  BY <1>1, <1>2, <1>3 DEF Flights
<1>0. f.pc = "land" /\ ~mutex[m] BY <1>1
<1>8. ASSUME NEW c \in Callers
      PROVE  /\ caller'[c] \in CallerStates /\ caller'[c].bad = caller[c].bad
             /\ \/ caller'[c] = caller[c]
                \/ /\ caller[c].pc = "wait" /\ caller'[c].pc = "failed"
                   /\ caller'[c].token = caller[c].token
                \/ /\ caller[c].pc = "wait" /\ caller'[c].pc = "ok" /\ ~f.error /\ ~retired[m]
                   /\ caller'[c].token = file
  <2>1. caller[c] \in CallerStates BY <1>3
  <2>2. CASE ~Woken(m, c) BY <1>1, <2>1, <2>2
  <2>3. CASE Woken(m, c) /\ (f.error \/ retired[m])
    BY <1>1, <2>1, <2>3 DEF Woken, CallerStates
  <2>4. CASE Woken(m, c) /\ ~(f.error \/ retired[m])
    <3> DEFINE a == [caller[c] EXCEPT !.pc = "ok"]
               b == [a EXCEPT !.token = Session(m)]
    <3>1. a \in CallerStates /\ a.pc = "ok" /\ a.bad = caller[c].bad BY <2>1 DEF CallerStates
    <3>2. caller'[c] = b BY <1>1, <2>4
    <3> HIDE DEF a
    <3>3. b \in CallerStates /\ b.pc = "ok" /\ b.bad = caller[c].bad /\ b.token = Session(m)
      BY <1>2, <3>1 DEF CallerStates
    <3> QED BY <1>2, <2>4, <3>2, <3>3 DEF Woken
  <2> QED BY <2>2, <2>3, <2>4
<1>9. /\ guard' \in [token : Tokens, login : BOOLEAN]
      /\ guard'.token = guard.token
      /\ guard'.login => \/ guard.login
                         \/ f.login /\ Session(m) = f.identity /\ guard.token = f.identity
  BY <1>1, <1>3 DEF ObserveLogin, TypeOK
<1>10. TypeOK'
  <2>1. \A n \in Managers : mutex'[n] <=> flight'[n].pc = "rename"
    BY <1>0, <1>3, <1>4, <1>5, <1>6 DEF TypeOK
  <2>2. caller' \in [Callers -> CallerStates] BY <1>1, <1>8
  <2>3. guard' \in [token : Tokens, login : BOOLEAN] BY <1>9
  <2>4. /\ file' \in Tokens /\ minted' \in 1..MaxTokens
        /\ current' \in 0..made' /\ made' \in Managers
        /\ admin' \in {"idle", "upload", "delete"}
        /\ retired' \in [Managers -> BOOLEAN] /\ mutex' \in [Managers -> BOOLEAN]
        /\ rejected' \cup dead' \subseteq 1..MaxTokens
        /\ events' \in 0..MaxEvents /\ uploaded' \in 0..made'
    BY <1>3, <1>4 DEF TypeOK
  <2>5. /\ flight' \in [Managers -> Flights] /\ cached' \in [Managers -> Tokens]
        /\ denied' \in [Managers -> [token : Tokens, error : BOOLEAN]]
    BY <1>6, <1>7
  <2> QED BY <2>1, <2>2, <2>3, <2>4, <2>5 DEF TypeOK, Flights, Stages, CallerStates
<1>11. FilesInv' BY <1>4 DEF CredentialInv, FilesInv
<1>12. LoginFits'
  <2>1. f.login /\ Session(m) = f.identity => f.identity.id \in dead
    BY <1>2 DEF FlightFits, Session
  <2>2. ASSUME guard'.login PROVE guard.token.id \in dead
    <3>1. CASE guard.login BY <3>1 DEF CredentialInv, LoginFits
    <3>2. CASE f.login /\ Session(m) = f.identity /\ guard.token = f.identity
      BY <2>1, <3>2
    <3> QED BY <1>9, <2>2, <3>1, <3>2
  <2>3. guard'.token = guard.token /\ dead' = dead BY <1>4, <1>9
  <2> QED BY <2>2, <2>3 DEF LoginFits
<1>13. FlightsInv'
  <2> SUFFICES ASSUME NEW n \in Managers PROVE FlightFits(n)' /\ denied'[n].token.id <= minted'
    BY DEF FlightsInv
  <2>1. FlightFits(n) /\ denied[n].token.id <= minted BY DEF CredentialInv, FlightsInv
  <2>2. CASE n = m
    <3>1. flight'[n] = NoFlight /\ minted' = minted BY <1>4, <1>6, <2>2
    <3>2. FlightFits(n)' BY <1>3, <1>5, <3>1 DEF FlightFits
    <3>3. denied'[n].token.id <= minted' BY <1>4, <1>7, <2>1
    <3> QED BY <3>2, <3>3
  <2>3. CASE n # m
    <3>1. flight'[n] = flight[n] /\ cached'[n] = cached[n] BY <1>6, <2>3
    <3>2. /\ flight[n].pc # "none" /\ ~retired[n] => n = current
          /\ flight[n].pc = "rename" => ~retired[n]
      BY <2>1 DEF FlightFits
    <3>3. /\ made' = made /\ made' >= made /\ minted' \in Nat /\ minted' >= minted
          /\ file' = file /\ dead' = dead
      BY <1>3, <1>4
    <3> QED BY <1>3, <1>4, <1>7, <2>1, <3>1, <3>2, <3>3, FlightKept
  <2> QED BY <1>4, <1>7, <2>1, <2>2, <2>3
<1>14. CallersInv'
  <2> SUFFICES ASSUME NEW c \in Callers PROVE CallerFits(c)' BY DEF CallersInv
  <2>1. CallerFits(c) BY DEF CredentialInv, CallersInv
  <2>2. CASE caller'[c] = caller[c] BY <1>4, <2>1, <2>2 DEF CallerFits
  <2>3. CASE /\ caller[c].pc = "wait" /\ caller'[c].pc = "failed"
             /\ caller'[c].token = caller[c].token
    BY <1>4, <1>8, <2>1, <2>3 DEF CallerFits
  <2>4. CASE /\ caller[c].pc = "wait" /\ caller'[c].pc = "ok" /\ ~f.error /\ ~retired[m]
             /\ caller'[c].token = file
    <3>1. NewToAll(m) /\ file.id \in 1..minted BY <1>2, <2>4
    <3>2. caller[c].bad # file BY <1>0, <2>4, <3>1 DEF NewToAll
    <3> QED BY <1>3, <1>4, <1>8, <2>1, <2>4, <3>1, <3>2 DEF CallerFits
  <2> QED BY <1>8, <2>2, <2>3, <2>4
<1>15. ServingInv'
  <2> SUFFICES ASSUME NEW n \in Managers, Serving(n)' PROVE NewToAll(n)' BY DEF ServingInv
  <2>1. Serving(n) BY <1>4 DEF Serving
  <2>2. CASE n = m
    <3>1. NewToAll(m) BY <1>2, <2>1, <2>2 DEF Serving
    <3>2. ~denied'[m].error => file # denied'[m].token
      BY <1>0, <1>7, <3>1 DEF NewToAll
    <3> QED BY <1>4, <1>5, <1>6, <2>2, <3>2 DEF NewToAll
  <2>3. CASE n # m
    <3>1. retired[m] BY <1>2, <2>1, <2>3 DEF Serving
    <3>2. \A c \in Callers : CallerMoves(c) BY <1>8, <3>1 DEF CallerMoves
    <3>3. \A k \in Managers : flight'[k].identity \in {flight[k].identity, NoToken}
      BY <1>5, <1>6
    <3>4. flight'[n] = flight[n] /\ denied'[n] = denied[n] /\ file' = file
      BY <1>4, <1>6, <1>7, <2>3
    <3> QED BY <2>1, <3>2, <3>3, <3>4, NewKept
  <2> QED BY <2>2, <2>3
<1> QED BY <1>10, <1>11, <1>12, <1>13, <1>14, <1>15 DEF CredentialInv

-----------------------------------------------------------------------------
\* ensureFresh

\* What a caller has after its call: an error, the token in place, or its place
\* among those who wait.
Answers(c, e) ==
    LET d == caller[c] IN
    /\ e.bad = d.bad
    /\ \/ e.pc = "failed" /\ e.token = NoToken
       \/ e.pc = "wait" /\ e.token = NoToken
       \/ /\ e.pc = "ok" /\ e.token = file /\ file # d.bad
          /\ d.bad # NoToken \/ flight[current] = NoFlight

\* The renewal that a caller starts.
Started(t, reject) == [NoFlight EXCEPT !.pc = "start", !.identity = t, !.reject = reject]

\* It holds the token in place and nothing else.
LEMMA StartedFacts ==
    ASSUME Bounds, NEW t \in Tokens, NEW reject \in BOOLEAN
    PROVE  LET g == Started(t, reject) IN
           /\ g \in Flights /\ g.pc = "start" /\ g.identity = t
           /\ g.snapshot = NoToken /\ g.token = NoToken /\ ~g.error /\ ~g.login
<1> DEFINE a == At(NoFlight, "start")
           b == [a EXCEPT !.identity = t]
           g == [b EXCEPT !.reject = reject]
<1>1. NoToken \in Tokens BY DEF Bounds, NoToken, Tokens, Desktop
<1>2. /\ NoFlight \in Flights /\ NoFlight.snapshot = NoToken /\ NoFlight.token = NoToken
      /\ ~NoFlight.error /\ ~NoFlight.login
  BY <1>1 DEF NoFlight, Flights, Stages
<1>3. Started(t, reject) = g BY DEF Started, At
<1>4. /\ a \in Flights /\ a.pc = "start" /\ a.snapshot = NoToken /\ a.token = NoToken
      /\ ~a.error /\ ~a.login
  BY <1>2, AtFacts DEF Stages
<1> HIDE DEF a
<1>5. /\ b \in Flights /\ b.pc = "start" /\ b.identity = t /\ b.snapshot = NoToken
      /\ b.token = NoToken /\ ~b.error /\ ~b.login
  BY <1>4 DEF Flights
<1> HIDE DEF b
<1>6. /\ g \in Flights /\ g.pc = "start" /\ g.identity = t /\ g.snapshot = NoToken
      /\ g.token = NoToken /\ ~g.error /\ ~g.login
  BY <1>5 DEF Flights
<1> QED BY <1>3, <1>6

\* The two ways to answer a caller.
LEMMA AnswerFacts ==
    ASSUME Bounds, CredentialInv, NEW c \in Callers, current # 0, Session(current) \in Tokens,
           NEW ok \in BOOLEAN, Answer(c, current, ok)
    PROVE  \E e \in CallerStates :
              /\ caller' = [caller EXCEPT ![c] = e] /\ e.bad = caller[c].bad
              /\ IF ok THEN e.pc = "ok" /\ e.token = Session(current)
                 ELSE e.pc = "failed" /\ e.token = NoToken
<1> DEFINE e == [pc |-> IF ok THEN "ok" ELSE "failed", manager |-> current,
                 token |-> IF ok THEN Session(current) ELSE NoToken, bad |-> caller[c].bad]
<1>1. /\ caller[c] \in CallerStates /\ caller[c].bad \in Tokens /\ NoToken \in Tokens
      /\ current \in 0..MaxManagers
  BY Shapes DEF CredentialInv, CallerStates, Managers, TypeOK
<1>2. e \in CallerStates BY <1>1 DEF CallerStates
<1>3. caller' = [caller EXCEPT ![c] = e] BY DEF Answer
<1>4. /\ e.bad = caller[c].bad
      /\ IF ok THEN e.pc = "ok" /\ e.token = Session(current)
         ELSE e.pc = "failed" /\ e.token = NoToken
  OBVIOUS
<1> HIDE DEF e
<1> QED BY <1>2, <1>3, <1>4

\* A caller waits for the renewal in flight.
LEMMA WaitFacts ==
    ASSUME Bounds, CredentialInv, NEW c \in Callers, current # 0, Wait(c, current),
           caller[c].token = NoToken
    PROVE  \E e \in CallerStates : /\ caller' = [caller EXCEPT ![c] = e] /\ Answers(c, e)
                                   /\ e.pc = "wait"
<1> DEFINE a == [caller[c] EXCEPT !.pc = "wait"]
           e == [a EXCEPT !.manager = current]
<1>1. /\ caller[c] \in CallerStates /\ caller \in [Callers -> CallerStates]
      /\ current \in 0..MaxManagers
  BY Shapes DEF CredentialInv, Managers, TypeOK
<1>2. a \in CallerStates /\ a.pc = "wait" /\ a.token = NoToken /\ a.bad = caller[c].bad
  BY <1>1 DEF CallerStates
<1>3. caller' = [caller EXCEPT ![c] = e] BY <1>1 DEF Wait
<1> HIDE DEF a
<1>4. e \in CallerStates /\ e.pc = "wait" /\ e.token = NoToken /\ e.bad = caller[c].bad
  BY <1>1, <1>2 DEF CallerStates
<1> HIDE DEF e
<1> QED BY <1>3, <1>4 DEF Answers

\* What a call may change, apart from its caller: the cache and the record of the
\* account follow the file, and a renewal of the token in place starts where
\* none is in flight.
Begins(m) ==
    \E reject \in BOOLEAN : flight[m] = NoFlight /\ Start(m, file, reject)

Freshened(c) ==
    LET m == current IN
    /\ \E e \in CallerStates : caller' = [caller EXCEPT ![c] = e] /\ Answers(c, e)
    /\ \/ UNCHANGED <<cached, guard>>
       \/ cached' = [cached EXCEPT ![m] = file] /\ guard' = GuardFor(file)
    /\ UNCHANGED <<flight, denied>> \/ (~retired[m] /\ Begins(m))
    /\ UNCHANGED <<file, minted, current, made, admin, retired, mutex, world, dead, uploaded>>

\* All paths of ensureFresh: none answers with the rejected token, not even the
\* one that remembers a recent renewal.
LEMMA FreshStep ==
    ASSUME Bounds, CredentialInv, NEW c \in Callers, EnsureFresh(c)
    PROVE  Freshened(c) /\ current # 0
<1> DEFINE m == current
           d == caller[c]
<1>1. /\ d.pc \in {"idle", "rejected"} /\ m # 0
      /\ UNCHANGED <<file, minted, current, made, admin, retired, mutex, world, dead, uploaded>>
  BY DEF EnsureFresh
<1>2. /\ m \in Managers /\ file \in Tokens /\ d.token = NoToken /\ file # NoToken
      /\ d.pc = "idle" => d.bad = NoToken
      /\ d.pc = "rejected" => d.bad # NoToken
  BY <1>1, Shapes DEF CredentialInv, CallersInv, CallerFits, FilesInv
<1>3. Session(m) = file /\ Session(m) \in Tokens BY <1>2 DEF Session
<1>4. Answer(c, m, FALSE) => \E e \in CallerStates : caller' = [caller EXCEPT ![c] = e] /\ Answers(c, e)
  BY <1>1, <1>3, AnswerFacts DEF Answers
<1>5. Answer(c, m, TRUE) /\ file # d.bad /\ (d.bad # NoToken \/ flight[m] = NoFlight) =>
        \E e \in CallerStates : caller' = [caller EXCEPT ![c] = e] /\ Answers(c, e)
  BY <1>1, <1>3, AnswerFacts DEF Answers
<1>6. Wait(c, m) => \E e \in CallerStates : caller' = [caller EXCEPT ![c] = e] /\ Answers(c, e)
  BY <1>1, <1>2, WaitFacts
<1>7. CASE retired[m]
  <2>1. Answer(c, m, FALSE) /\ UNCHANGED <<cached, flight, denied, guard>>
    BY <1>7 DEF EnsureFresh
  <2> QED BY <1>1, <1>4, <2>1 DEF Freshened
<1>8. CASE ~retired[m]
  <2>1. cached' = [cached EXCEPT ![m] = file] /\ guard' = GuardFor(file)
    BY <1>3, <1>8 DEF EnsureFresh, Load
  <2>2. /\ \E e \in CallerStates : caller' = [caller EXCEPT ![c] = e] /\ Answers(c, e)
        /\ UNCHANGED <<flight, denied>> \/ Begins(m)
    <3>1. CASE guard'.login
      <4>1. Answer(c, m, FALSE) /\ UNCHANGED <<flight, denied>> BY <1>8, <3>1 DEF EnsureFresh
      <4> QED BY <1>4, <4>1
    <3>2. CASE ~guard'.login /\ d.pc = "rejected"
      <4>1. Recover(c, m) BY <1>8, <3>2 DEF EnsureFresh
      <4>2. CASE file # d.bad BY <1>2, <1>3, <1>5, <3>2, <4>1, <4>2 DEF Recover
      <4>3. CASE file = d.bad /\ flight[m] # NoFlight BY <1>3, <1>6, <4>1, <4>3 DEF Recover
      <4>4. CASE file = d.bad /\ flight[m] = NoFlight /\ denied[m].token = file
        <5>1. NewToAll(m) BY <1>2, <1>8 DEF CredentialInv, ServingInv, Serving
        <5>2. denied[m].error BY <4>4, <5>1 DEF NewToAll
        <5>3. Answer(c, m, ~denied[m].error) /\ UNCHANGED <<flight, denied>>
          BY <1>3, <4>1, <4>4 DEF Recover
        <5>4. denied[m].error \in BOOLEAN BY <1>2, Shapes DEF CredentialInv
        <5>5. Answer(c, m, FALSE) BY <5>2, <5>3, <5>4 DEF Answer
        <5> QED BY <1>4, <5>3, <5>5
      <4>5. CASE file = d.bad /\ flight[m] = NoFlight /\ denied[m].token # file
        <5>1. Wait(c, m) /\ Start(m, file, TRUE) BY <1>3, <4>1, <4>5 DEF Recover
        <5> QED BY <1>6, <4>5, <5>1 DEF Begins
      <4> QED BY <4>2, <4>3, <4>4, <4>5
    <3>3. CASE ~guard'.login /\ d.pc = "idle"
      <4>1. Refresh(c, m) BY <1>8, <3>3 DEF EnsureFresh
      <4>2. CASE flight[m] # NoFlight BY <1>6, <4>1, <4>2 DEF Refresh
      <4>3. CASE flight[m] = NoFlight /\ Answer(c, m, TRUE) /\ UNCHANGED <<flight, denied>>
        BY <1>2, <1>5, <3>3, <4>3
      <4>4. CASE flight[m] = NoFlight /\ Wait(c, m) /\ Start(m, Session(m), FALSE)
        BY <1>3, <1>6, <4>4 DEF Begins
      <4> QED BY <4>1, <4>2, <4>3, <4>4 DEF Refresh
    <3> QED BY <1>1, <3>1, <3>2, <3>3
  <2> QED BY <1>1, <1>8, <2>1, <2>2 DEF Freshened
<1> QED BY <1>1, <1>7, <1>8

\* A caller asks for headers or recovers from a rejection.
LEMMA EnsureFreshInv ==
    ASSUME Bounds, CredentialInv, NEW c \in Callers, EnsureFresh(c) PROVE CredentialInv'
<1> DEFINE m == current
<1>1. /\ m # 0
      /\ UNCHANGED <<file, minted, current, made, admin, retired, mutex, dead, uploaded, rejected,
                     events>>
      /\ UNCHANGED <<cached, guard>> \/ (cached' = [cached EXCEPT ![m] = file] /\ guard' = GuardFor(file))
      /\ UNCHANGED <<flight, denied>> \/ (~retired[m] /\ Begins(m))
  BY FreshStep DEF Freshened, world
<1>2. PICK e \in CallerStates : caller' = [caller EXCEPT ![c] = e] /\ Answers(c, e)
  BY FreshStep DEF Freshened
<1>3. /\ TypeOK /\ flight \in [Managers -> Flights] /\ cached \in [Managers -> Tokens]
      /\ minted \in Nat /\ denied \in [Managers -> [token : Tokens, error : BOOLEAN]]
      /\ caller \in [Callers -> CallerStates] /\ NoToken \in Tokens /\ NoToken.id = 0
      /\ made \in Nat /\ file \in Tokens /\ m \in Managers /\ file # NoToken
      /\ file.id \in 1..minted /\ m \in Nat
  BY <1>1, Shapes DEF CredentialInv, FilesInv
<1>4. /\ cached' \in [Managers -> Tokens]
      /\ \A n \in Managers : cached'[n] \in {cached[n], file}
  BY <1>1, <1>3
<1>5. /\ guard' \in [token : Tokens, login : BOOLEAN]
      /\ guard' = guard \/ (guard'.login => guard' = guard)
  <2>1. guard \in [token : Tokens, login : BOOLEAN] BY <1>3 DEF TypeOK
  <2>2. CASE guard' = guard BY <2>1, <2>2
  <2>3. CASE guard' = GuardFor(file)
    <3>1. CASE guard.token = file BY <2>1, <2>3, <3>1 DEF GuardFor
    <3>2. CASE guard.token # file
      <4>1. guard' = [token |-> file, login |-> FALSE] BY <2>3, <3>2 DEF GuardFor
      <4> QED BY <1>3, <4>1
    <3> QED BY <3>1, <3>2
  <2> QED BY <1>1, <2>2, <2>3
<1>6. PICK g \in Flights, r \in [token : Tokens, error : BOOLEAN] :
        /\ flight' = [flight EXCEPT ![m] = g] /\ denied' = [denied EXCEPT ![m] = r]
        /\ r = denied[m] \/ (r.token = file /\ r.error /\ ~retired[m])
        /\ \/ g = flight[m] /\ r = denied[m]
           \/ /\ flight[m] = NoFlight /\ ~retired[m] /\ g.pc = "start" /\ g.identity = file
              /\ g.snapshot = NoToken /\ g.token = NoToken /\ ~g.error /\ ~g.login
  <2>1. CASE UNCHANGED <<flight, denied>>
    <3>1. /\ flight' = [flight EXCEPT ![m] = flight[m]]
          /\ denied' = [denied EXCEPT ![m] = denied[m]]
          /\ flight[m] \in Flights /\ denied[m] \in [token : Tokens, error : BOOLEAN]
      BY <1>3, <2>1
    <3> QED BY <3>1
  <2>2. CASE ~retired[m] /\ Begins(m)
    <3>1. PICK reject \in BOOLEAN : flight[m] = NoFlight /\ Start(m, file, reject)
      BY <2>2 DEF Begins
    <3> DEFINE g == Started(file, reject)
               r == IF reject THEN [token |-> file, error |-> TRUE] ELSE denied[m]
    <3>2. /\ g \in Flights /\ g.pc = "start" /\ g.identity = file
          /\ g.snapshot = NoToken /\ g.token = NoToken /\ ~g.error /\ ~g.login
      BY <1>3, StartedFacts
    <3>3. flight' = [flight EXCEPT ![m] = g] BY <3>1 DEF Start, Started
    <3>4. denied' = [denied EXCEPT ![m] = r] BY <1>3, <3>1 DEF Start
    <3>5. /\ r \in [token : Tokens, error : BOOLEAN]
          /\ r = denied[m] \/ (r.token = file /\ r.error)
      BY <1>3
    <3> HIDE DEF g, r
    <3> QED BY <2>2, <3>1, <3>2, <3>3, <3>4, <3>5
  <2> QED BY <1>1, <2>1, <2>2
<1>7. /\ flight' \in [Managers -> Flights] /\ flight'[m] = g
      /\ \A n \in Managers : n # m => flight'[n] = flight[n]
      /\ denied' \in [Managers -> [token : Tokens, error : BOOLEAN]] /\ denied'[m] = r
      /\ \A n \in Managers : n # m => denied'[n] = denied[n]
  BY <1>3, <1>6
<1>8. /\ caller' \in [Callers -> CallerStates]
      /\ \A b \in Callers : caller'[b] = IF b = c THEN e ELSE caller[b]
  BY <1>2, <1>3
<1>9. TypeOK'
  <2>1. \A n \in Managers : mutex'[n] <=> flight'[n].pc = "rename"
    <3>1. \A n \in Managers : mutex[n] <=> flight[n].pc = "rename" BY <1>3 DEF TypeOK
    <3>2. flight'[m].pc = "rename" <=> flight[m].pc = "rename" BY <1>6, <1>7 DEF NoFlight
    <3> QED BY <1>1, <1>7, <3>1, <3>2
  <2>2. /\ file' \in Tokens /\ minted' \in 1..MaxTokens
        /\ current' \in 0..made' /\ made' \in Managers
        /\ admin' \in {"idle", "upload", "delete"}
        /\ retired' \in [Managers -> BOOLEAN] /\ mutex' \in [Managers -> BOOLEAN]
        /\ rejected' \cup dead' \subseteq 1..MaxTokens
        /\ events' \in 0..MaxEvents /\ uploaded' \in 0..made'
    BY <1>1, <1>3 DEF TypeOK
  <2>3. guard' \in [token : Tokens, login : BOOLEAN] BY <1>5
  <2> QED BY <1>4, <1>7, <1>8, <2>1, <2>2, <2>3 DEF TypeOK, Flights, Stages, CallerStates
<1>10. FilesInv' BY <1>1 DEF CredentialInv, FilesInv
<1>11. LoginFits' BY <1>1, <1>5 DEF CredentialInv, LoginFits
<1>12. FlightsInv'
  <2> SUFFICES ASSUME NEW n \in Managers PROVE FlightFits(n)' /\ denied'[n].token.id <= minted'
    BY DEF FlightsInv
  <2>1. FlightFits(n) /\ denied[n].token.id <= minted BY DEF CredentialInv, FlightsInv
  <2>2. denied'[n].token.id <= minted' BY <1>1, <1>3, <1>6, <1>7, <2>1
  <2>3. CASE flight'[n] = flight[n]
    <3>1. /\ flight[n].pc # "none" /\ ~retired[n] => n = current
          /\ flight[n].pc = "rename" => ~retired[n]
      BY <2>1 DEF FlightFits
    <3>2. /\ made' = made /\ made' >= made /\ minted' \in Nat /\ minted' >= minted
          /\ file' = file /\ dead' = dead
      BY <1>1, <1>3
    <3>3. FlightFits(n)' BY <1>1, <1>3, <1>4, <2>1, <2>3, <3>1, <3>2, FlightKept
    <3> QED BY <2>2, <3>3
  <2>4. CASE flight'[n] # flight[n]
    <3>1. /\ n = m /\ ~retired[m] /\ g.pc = "start" /\ g.identity = file
          /\ g.snapshot = NoToken /\ g.token = NoToken /\ ~g.error /\ ~g.login
      BY <1>6, <1>7, <2>4
    <3>2. n <= made /\ flight'[n] = g BY <1>3, <1>7, <3>1 DEF TypeOK
    <3>3. FlightFits(n)' BY <1>1, <1>3, <3>1, <3>2 DEF FlightFits
    <3> QED BY <2>2, <3>3
  <2> QED BY <2>3, <2>4
<1>13. CallersInv'
  <2>1. CallerFits(c)'
    <3>1. caller[c].bad.id <= minted /\ caller[c].pc \in {"idle", "rejected"}
      BY DEF CredentialInv, CallersInv, CallerFits, EnsureFresh
    <3>2. CallerFits(c) BY DEF CredentialInv, CallersInv
    <3> QED BY <1>1, <1>2, <1>3, <1>8, <3>1, <3>2 DEF Answers, CallerFits
  <2>2. ASSUME NEW b \in Callers, b # c PROVE CallerFits(b)'
    BY <1>1, <1>8, <2>2 DEF CredentialInv, CallersInv, CallerFits
  <2> QED BY <2>1, <2>2 DEF CallersInv
<1>14. ServingInv'
  <2> SUFFICES ASSUME NEW n \in Managers, Serving(n)' PROVE NewToAll(n)' BY DEF ServingInv
  <2>1. Serving(n) /\ NewToAll(n) /\ n = m
    BY <1>1 DEF Serving, CredentialInv, ServingInv
  <2>2. CASE g = flight[m] /\ r = denied[m]
    <3>1. \A b \in Callers : CallerMoves(b) BY <1>2, <1>8 DEF CallerMoves, Answers
    <3>2. \A k \in Managers : flight'[k].identity = flight[k].identity BY <1>7, <2>2
    <3>3. flight'[n] = flight[n] /\ denied'[n] = denied[n] /\ file' = file
      BY <1>1, <1>7, <2>1, <2>2
    <3> QED BY <2>1, <3>1, <3>2, <3>3, NewKept
  <2>3. CASE g.pc = "start"
    <3>1. /\ ~r.error => file # r.token
          /\ flight'[n] = g /\ denied'[n] = r /\ file' = file
      BY <1>1, <1>6, <1>7, <2>1 DEF NewToAll
    <3> QED BY <2>3, <3>1 DEF NewToAll
  <2> QED BY <1>6, <2>2, <2>3
<1> QED BY <1>9, <1>10, <1>11, <1>12, <1>13, <1>14 DEF CredentialInv

-----------------------------------------------------------------------------
\* The theorems

\* At the start there is one manager, with the first token.
LEMMA InitInv == ASSUME Bounds, Init PROVE CredentialInv
<1>1. /\ 1 \in Managers /\ Managers \subseteq Nat \ {0} /\ NoToken \in Tokens /\ NoToken.id = 0
      /\ First \in Tokens /\ First.id = 1 /\ First.origin = 1
  BY DEF Bounds, Managers, NoToken, Tokens, Desktop, First
<1>2. /\ NoFlight \in Flights /\ NoFlight.pc = "none" /\ NoFlight.identity = NoToken
      /\ NoFlight.snapshot = NoToken /\ NoFlight.token = NoToken /\ ~NoFlight.error
      /\ ~NoFlight.login
  BY <1>1 DEF NoFlight, Flights, Stages
<1>3. /\ NoCaller \in CallerStates /\ NoCaller.pc = "idle" /\ NoCaller.token = NoToken
      /\ NoCaller.bad = NoToken
  BY <1>1 DEF NoCaller, CallerStates, Bounds
<1>4. /\ NoDenied \in [token : Tokens, error : BOOLEAN] /\ NoDenied.token = NoToken
      /\ guard \in [token : Tokens, login : BOOLEAN] /\ ~guard.login
  BY <1>1 DEF Init, NoDenied
<1>5. TypeOK
  <2>1. /\ file \in Tokens /\ minted \in 1..MaxTokens /\ current \in 0..made
        /\ made \in Managers /\ admin \in {"idle", "upload", "delete"}
        /\ rejected \cup dead \subseteq 1..MaxTokens /\ events \in 0..MaxEvents
        /\ uploaded \in 0..made
    BY <1>1 DEF Init, Bounds
  <2>2. /\ cached \in [Managers -> Tokens] /\ flight \in [Managers -> Flights]
        /\ retired \in [Managers -> BOOLEAN] /\ mutex \in [Managers -> BOOLEAN]
        /\ denied \in [Managers -> [token : Tokens, error : BOOLEAN]]
        /\ caller \in [Callers -> CallerStates]
        /\ \A m \in Managers : mutex[m] <=> flight[m].pc = "rename"
    BY <1>1, <1>2, <1>3, <1>4 DEF Init
  <2> QED BY <1>4, <2>1, <2>2 DEF TypeOK, Flights, Stages, CallerStates
<1>6. FilesInv /\ LoginFits BY <1>1, <1>4 DEF Init, FilesInv, LoginFits
<1>7. FlightsInv
  <2> SUFFICES ASSUME NEW m \in Managers PROVE FlightFits(m) /\ denied[m].token.id <= minted
    BY DEF FlightsInv
  <2>1. flight[m] = NoFlight /\ denied[m] = NoDenied /\ minted = 1 BY DEF Init
  <2>2. FlightFits(m) BY <1>1, <1>2, <2>1 DEF FlightFits
  <2> QED BY <1>1, <1>4, <2>1, <2>2
<1>8. CallersInv BY <1>1, <1>3 DEF Init, CallersInv, CallerFits
<1>9. ServingInv
  <2> SUFFICES ASSUME NEW m \in Managers PROVE NewToAll(m) BY DEF ServingInv
  <2>1. flight[m] = NoFlight /\ denied[m] = NoDenied /\ file = First BY DEF Init
  <2>2. First # NoToken BY <1>1
  <2> QED BY <1>2, <1>4, <2>1, <2>2 DEF NewToAll
<1> QED BY <1>5, <1>6, <1>7, <1>8, <1>9 DEF CredentialInv

\* Every step keeps the invariant,
LEMMA StepInv == ASSUME Bounds, CredentialInv, [Next]_vars PROVE CredentialInv'
<1>1. ASSUME NEW c \in Callers, EnsureFresh(c) \/ Gone(c) \/ Cancel(c) \/ Finish(c)
      PROVE  CredentialInv'
  BY <1>1, EnsureFreshInv, CallerLeavesInv
<1>2. ASSUME NEW m \in Managers, Renewal(m) \/ Forget(m) PROVE CredentialInv'
  BY <1>2, SnapshotInv, ReplyInv, CompareInv, RenameInv, LandInv, ForgetInv DEF Renewal
<1>3. CASE UploadRetire BY <1>3, UploadRetireInv
<1>4. CASE UploadWrite BY <1>4, UploadWriteInv
<1>5. CASE UploadFail \/ DeleteFile BY <1>5, AdminEndsInv
<1>6. CASE DeleteRetire BY <1>6, DeleteRetireInv
<1>7. CASE DesktopWrite BY <1>7, DesktopWriteInv
<1>8. CASE Revoke BY <1>8, RevokeInv
<1>9. CASE Quiet \/ UNCHANGED vars
  <2>1. UNCHANGED vars BY <1>9 DEF Quiet
  <2>2. TypeOK' BY <2>1 DEF CredentialInv, TypeOK, vars, manager, world
  <2>3. FilesInv' /\ LoginFits'
    BY <2>1 DEF CredentialInv, FilesInv, LoginFits, vars, manager, world
  <2>4. FlightsInv' BY <2>1 DEF CredentialInv, FlightsInv, FlightFits, vars, manager, world
  <2>5. CallersInv' BY <2>1 DEF CredentialInv, CallersInv, CallerFits, vars, manager, world
  <2>6. ServingInv'
    BY <2>1 DEF CredentialInv, ServingInv, Serving, NewToAll, vars, manager, world
  <2> QED BY <2>2, <2>3, <2>4, <2>5, <2>6 DEF CredentialInv
<1> QED BY <1>1, <1>2, <1>3, <1>4, <1>5, <1>6, <1>7, <1>8, <1>9 DEF Next

\* and so it always holds.
LEMMA CredentialInvHolds == ASSUME Bounds PROVE Spec => []CredentialInv
<1>1. Init => CredentialInv BY InitInv
<1>2. CredentialInv /\ [Next]_vars => CredentialInv' BY StepInv
<1> QED BY <1>1, <1>2, PTL DEF Spec

\* Retire waits for the rename that may be under way, and every later
\* refreshContext gives way to it: an upload and a deletion stand, however many
\* renewals were in flight.
THEOREM UploadsWin == ASSUME Bounds PROVE Spec => []UploadWins
<1>1. CredentialInv => UploadWins BY DEF CredentialInv, FilesInv, UploadWins
<1> QED BY <1>1, CredentialInvHolds, PTL

\* RecoverChatAuthorization never hands a caller the token that its upstream
\* rejected: not from the file, not from a renewal that another caller started
\* and not from the record of a recent one.
THEOREM RecoveriesRenew == ASSUME Bounds PROVE Spec => []RecoveryRenews
<1>1. CredentialInv => RecoveryRenews BY DEF CredentialInv, CallersInv, CallerFits, RecoveryRenews
<1> QED BY <1>1, CredentialInvHolds, PTL

\* What an upload or a deletion put in place stands, recovery ends with another
\* token, and logins are asked for where they are due (refreshContext, Retire,
\* RecoverChatAuthorization, ObserveLogin).
THEOREM LoginsHold == ASSUME Bounds PROVE Spec => []LoginsFit
<1>1. CredentialInv => LoginsFit
  BY DEF CredentialInv, FilesInv, UploadWins, CallersInv, CallerFits, RecoveryRenews, LoginsFit
<1> QED BY <1>1, CredentialInvHolds, PTL

\* ObserveLogin closes the account over a token only if the upstream answered
\* this token's renewal so, also when the file changed under the renewal.
THEOREM LoginsFitTokens == ASSUME Bounds PROVE Spec => []LoginFits
<1>1. CredentialInv => LoginFits BY DEF CredentialInv
<1> QED BY <1>1, CredentialInvHolds, PTL
=============================================================================
