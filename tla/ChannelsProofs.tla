--------------------------- MODULE ChannelsProofs ---------------------------
(***************************************************************************)
(* Proofs about the channels as MCChannels composes them, for any callers  *)
(* and accounts and its numbers of attempts: the tokens, calls and         *)
(* check-ins of Trae, the bridges, calls and check-ins of Qoder, and the   *)
(* answers of OpenCode.                                                    *)
(***************************************************************************)
EXTENDS MCChannels, FiniteSetTheorems, TLAPS

-----------------------------------------------------------------------------
\* The channels as MCChannels composes them.

ChannelsStep == [MCNext]_<<part, vars, all>>

\* A behaviour is one of a single part, and its steps are those of the part.
LEMMA PartSteps ==
    ASSUME ChannelsStep
    PROVE  /\ part' = part
           /\ part = "trae tokens" => Tokens!Next \/ UNCHANGED Tokens!vars
           /\ part = "trae" => Trae!Next \/ UNCHANGED Trae!vars
           /\ part = "bridges" => Bridges!Next \/ UNCHANGED Bridges!vars
           /\ part = "qoder" => Qoder!Next \/ UNCHANGED Qoder!vars
           /\ part = "trae check-in" => Daily!Next \/ UNCHANGED Daily!vars
           /\ part = "qoder check-in" => Claims!Next \/ UNCHANGED Claims!qcvars
           /\ part = "opencode" => Open!Next \/ UNCHANGED Open!vars
<1>1. UNCHANGED all =>
        /\ UNCHANGED Tokens!vars /\ UNCHANGED Trae!vars
        /\ UNCHANGED Bridges!vars /\ UNCHANGED Qoder!vars
        /\ UNCHANGED Daily!vars /\ UNCHANGED Claims!qcvars
        /\ UNCHANGED Open!vars
  BY DEF all, after4, after7, after8, after9,
         Tokens!vars, Trae!vars, Bridges!vars, Qoder!vars,
         Daily!vars, Claims!qcvars, Open!vars
<1>2. CASE MCNext
  BY <1>1, <1>2 DEF MCNext, RouterNext, OpenNext, ConfigNext,
     TokensNext, TraeNext, DailyNext, BridgesNext,
     ClaimsNext, QoderNext
<1> QED BY <1>1, <1>2 DEF ChannelsStep

-----------------------------------------------------------------------------
\* The tokens of Trae.

CallerPlaces == {"look", "wait", "claim", "lead", "exchange", "save", "done"}
TokenCalls ==
    [at : CallerPlaces, of : 1..2, force : BOOLEAN, dirty : BOOLEAN, changed : BOOLEAN,
     result : {"none", "cancelled", "changed", "ok", "failed", "unsaved"}]

TokensTyped ==
    /\ x2 \in 1..2 /\ x1 \in 0..x2
    /\ x3 \in [1..2 -> Nat]
    /\ x4 \in [of : 0..x2, version : Nat]
    /\ x5 \subseteq 1..x2 /\ x6 \subseteq 1..x2
    /\ x8 \in [Calls -> {Tokens!Idle} \cup TokenCalls]

\* Whether a flight is on or not: what is not marked for another try is on disk.
\* Objects that were not made yet have no token.
TokensOnDisk ==
    /\ x1 # 0 => x4.of = x1
    /\ x1 # 0 /\ x1 \notin x6 => x4.version = x3[x1]
    /\ \A o \in 1..2 : o > x2 => x3[o] = 0
    /\ \A c \in Calls : x8[c] # Tokens!Idle => x8[c].of <= x2

TokensInv == TokensTyped /\ TokensOnDisk /\ Tokens!OwnFate

LEMMA TokensBegin == Tokens!Init => TokensInv
BY DEF Tokens!Init, TokensInv, TokensTyped, TokensOnDisk, Tokens!OwnFate, Tokens!Idle,
       Tokens!Objects

\* What a step may do to a caller.
CallerGoesOn(c, r) ==
    /\ r \in {Tokens!Idle} \cup TokenCalls
    /\ r # Tokens!Idle => r.of <= x2
    /\ r.at = "done" /\ r.result = "cancelled" => c \in x9

\* A step of the callers that leaves tokens and disk alone.
LEMMA CallersOnly ==
    ASSUME TokensInv, UNCHANGED <<x1, x2, x3, x4, x5>>, x6' \subseteq x6,
           x1 \in x6 => x1 \in x6',
           x9' = x9, DOMAIN x8' = Calls, x8' = [d \in Calls |-> x8'[d]],
           \A d \in Calls : x8'[d] = x8[d] \/ CallerGoesOn(d, x8'[d])
    PROVE  TokensInv'
<1>1. x8' \in [Calls -> {Tokens!Idle} \cup TokenCalls]
  BY DEF TokensInv, TokensTyped, CallerGoesOn
<1>2. TokensTyped' BY <1>1 DEF TokensInv, TokensTyped
<1>3. \A c \in Calls : x8'[c] # Tokens!Idle => x8'[c].of <= x2
  BY DEF TokensInv, TokensOnDisk, CallerGoesOn
<1>4. TokensOnDisk' BY <1>3 DEF TokensInv, TokensOnDisk
<1>5. Tokens!OwnFate' BY DEF TokensInv, Tokens!OwnFate, CallerGoesOn
<1> QED BY <1>2, <1>4, <1>5 DEF TokensInv

\* The same for a step of one caller.
LEMMA OneCaller ==
    ASSUME TokensInv, NEW c \in Calls, NEW r,
           UNCHANGED <<x1, x2, x3, x4, x5>>, x6' \subseteq x6, x1 \in x6 => x1 \in x6',
           x9' = x9, Tokens!Set(c, r), CallerGoesOn(c, r)
    PROVE  TokensInv'
<1>1. /\ DOMAIN x8' = Calls /\ x8' = [d \in Calls |-> x8'[d]]
      /\ \A d \in Calls : x8'[d] = x8[d] \/ (x8'[d] = r /\ d = c)
  BY DEF TokensInv, TokensTyped, Tokens!Set
<1> QED BY <1>1, CallersOnly

LEMMA CallerTyped ==
    ASSUME TokensInv, NEW c \in Calls, NEW at \in CallerPlaces, x8[c].at = at
    PROVE  x8[c] \in TokenCalls /\ x8[c].of \in 1..x2 /\ x8[c].of \in 1..2
<1>1. x8[c] # Tokens!Idle BY DEF CallerPlaces, Tokens!Idle
<1>2. x8[c] \in TokenCalls BY <1>1 DEF TokensInv, TokensTyped
<1>3. x8[c].of \in 1..2 BY <1>2 DEF TokenCalls
<1> QED BY <1>1, <1>2, <1>3 DEF TokensInv, TokensOnDisk, TokensTyped

LEMMA CallInv ==
    ASSUME TokensInv, NEW c \in Calls, NEW o \in 1..2, NEW force \in BOOLEAN,
           Tokens!Call(c, o, force)
    PROVE  TokensInv'
<1> DEFINE r == [at |-> "look", of |-> o, force |-> force, dirty |-> FALSE,
                 changed |-> FALSE, result |-> "none"]
<1>1. /\ o <= x2 /\ x8' = [x8 EXCEPT ![c] = r] /\ x9' = x9 \ {c}
      /\ UNCHANGED <<x1, x2, x3, x4, x5, x6>>
  BY DEF Tokens!Call, Tokens!Set, Tokens!state
<1>2. r \in TokenCalls /\ r.of = o /\ r.at = "look" BY DEF TokenCalls, CallerPlaces
<1> HIDE DEF r
<1>3. \A d \in Calls : x8'[d] = IF d = c THEN r ELSE x8[d]
  BY <1>1 DEF TokensInv, TokensTyped
<1>4. TokensTyped' BY <1>1, <1>2 DEF TokensInv, TokensTyped
<1>5. TokensOnDisk' BY <1>1, <1>2, <1>3 DEF TokensInv, TokensOnDisk
<1>6. Tokens!OwnFate' BY <1>1, <1>2, <1>3 DEF TokensInv, Tokens!OwnFate
<1> QED BY <1>4, <1>5, <1>6 DEF TokensInv

LEMMA AnswerGoes ==
    ASSUME TokensInv, NEW c \in Calls, x8[c] \in TokenCalls,
           NEW result \in {"cancelled", "changed", "ok", "failed", "unsaved"},
           result = "cancelled" => c \in x9
    PROVE  CallerGoesOn(c, [x8[c] EXCEPT !.at = "done", !.result = result])
<1>1. x8[c] # Tokens!Idle BY DEF TokenCalls, Tokens!Idle
<1>2. x8[c].of <= x2 BY <1>1 DEF TokensInv, TokensOnDisk
<1> DEFINE r == [x8[c] EXCEPT !.at = "done", !.result = result]
<1>3. r \in TokenCalls /\ r.of = x8[c].of /\ r.result = result
  BY DEF TokenCalls, CallerPlaces
<1> QED BY <1>2, <1>3 DEF CallerGoesOn

LEMMA PlaceGoes ==
    ASSUME TokensInv, NEW c \in Calls, x8[c] \in TokenCalls,
           NEW at \in CallerPlaces \ {"done"}
    PROVE  CallerGoesOn(c, [x8[c] EXCEPT !.at = at])
<1>1. x8[c] # Tokens!Idle BY DEF TokenCalls, Tokens!Idle
<1>2. x8[c].of <= x2 BY <1>1 DEF TokensInv, TokensOnDisk
<1> DEFINE r == [x8[c] EXCEPT !.at = at]
<1>3. r \in TokenCalls /\ r.of = x8[c].of /\ r.at = at
  BY DEF TokenCalls, CallerPlaces
<1> QED BY <1>2, <1>3 DEF CallerGoesOn

LEMMA LookTokenInv ==
    ASSUME TokensInv, NEW c \in Calls, Tokens!Look(c)
    PROVE  TokensInv'
<1> DEFINE marked == x8[c].of \in x6
           r == [x8[c] EXCEPT !.at = "claim", !.dirty = marked]
<1>m. marked \in BOOLEAN OBVIOUS
<1> HIDE DEF marked
<1>1. x8[c] \in TokenCalls /\ x8[c].of <= x2
      /\ UNCHANGED <<x1, x2, x3, x4, x5, x6, x9>>
  BY CallerTyped DEF Tokens!Look, Tokens!state, CallerPlaces
<1>2. r \in TokenCalls /\ r.of = x8[c].of /\ r.at = "claim"
  BY <1>1, <1>m DEF TokenCalls, CallerPlaces
<1>3. \/ c \in x9 /\ Tokens!Answer(c, "cancelled")
      \/ Tokens!Answer(c, "changed")
      \/ Tokens!To(c, "wait")
      \/ Tokens!Set(c, r)
  BY DEF Tokens!Look, marked
<1>4. CallerGoesOn(c, r) BY <1>1, <1>2 DEF CallerGoesOn
<1> HIDE DEF r
<1> QED BY <1>1, <1>3, <1>4, OneCaller, AnswerGoes, PlaceGoes
        DEF Tokens!Answer, Tokens!To, CallerPlaces

LEMMA FreshInv ==
    ASSUME TokensInv, NEW c \in Calls, Tokens!Fresh(c)
    PROVE  TokensInv'
<1>1. x8[c] \in TokenCalls /\ UNCHANGED <<x1, x2, x3, x4, x5, x6, x9>>
  BY CallerTyped DEF Tokens!Fresh, Tokens!state, CallerPlaces
<1>2. PICK result \in {"cancelled", "ok"} :
        Tokens!Answer(c, result) /\ (result = "cancelled" => c \in x9)
  BY DEF Tokens!Fresh
<1> QED BY <1>1, <1>2, OneCaller, AnswerGoes DEF Tokens!Answer

LEMMA ClaimInv ==
    ASSUME TokensInv, NEW c \in Calls, Tokens!Claim(c)
    PROVE  TokensInv'
<1>1. x8[c] \in TokenCalls /\ UNCHANGED <<x1, x2, x3, x4, x5, x6, x9>>
  BY CallerTyped DEF Tokens!Claim, CallerPlaces
<1>2. Tokens!To(c, "wait") \/ Tokens!To(c, "lead") BY DEF Tokens!Claim
<1> QED BY <1>1, <1>2, OneCaller, PlaceGoes DEF Tokens!To, CallerPlaces

\* The end of a flight wakes callers, and cancels only those who left.
LEMMA LandGoes ==
    ASSUME TokensInv, NEW c \in Calls, x8[c] \in TokenCalls,
           NEW result \in {"cancelled", "changed", "ok", "failed", "unsaved"},
           result = "cancelled" => c \in x9,
           NEW changed \in BOOLEAN, Tokens!Land(c, result, changed)
    PROVE  /\ DOMAIN x8' = Calls /\ x8' = [d \in Calls |-> x8'[d]]
           /\ \A d \in Calls : x8'[d] = x8[d] \/ CallerGoesOn(d, x8'[d])
<1>1. DOMAIN x8' = Calls /\ x8' = [d \in Calls |-> x8'[d]] BY DEF Tokens!Land
<1>2. ASSUME NEW d \in Calls PROVE x8'[d] = x8[d] \/ CallerGoesOn(d, x8'[d])
  <2>1. CASE d = c
    <3>1. x8'[d] = [x8[c] EXCEPT !.at = "done", !.result = result]
      BY <2>1 DEF Tokens!Land
    <3> QED BY <2>1, <3>1, AnswerGoes
  <2>2. CASE d # c /\ x8[d].at = "wait" /\ x8[d].of = x8[c].of
    <3>0. x8[d] \in TokenCalls BY <2>2, CallerTyped DEF CallerPlaces
    <3>1. CASE d \in x9
      <4>1. x8'[d] = [x8[d] EXCEPT !.at = "done", !.result = "cancelled"]
        BY <2>2, <3>1 DEF Tokens!Land
      <4> QED BY <3>0, <3>1, <4>1, AnswerGoes
    <3>2. CASE d \notin x9
      <4>1. x8'[d] = Tokens!Woken(x8[d], result, changed)
        BY <2>2, <3>2 DEF Tokens!Land
      <4>2. CASE result = "cancelled" /\ changed
        <5> DEFINE r == [x8[d] EXCEPT !.at = "look", !.force = FALSE]
        <5>1. x8'[d] = r BY <4>1, <4>2 DEF Tokens!Woken
        <5>2. r \in TokenCalls /\ r.of = x8[d].of /\ r.at = "look"
          BY <3>0 DEF TokenCalls, CallerPlaces
        <5>3. x8[d].of <= x2 BY <2>2, CallerTyped DEF CallerPlaces
        <5> QED BY <5>1, <5>2, <5>3 DEF CallerGoesOn
      <4>3. CASE result = "cancelled" /\ ~changed
        <5>1. x8'[d] = [x8[d] EXCEPT !.at = "look"] BY <4>1, <4>3 DEF Tokens!Woken
        <5> QED BY <3>0, <5>1, PlaceGoes DEF CallerPlaces
      <4>4. CASE result # "cancelled"
        <5>1. x8'[d] = [x8[d] EXCEPT !.at = "done", !.result = result]
          BY <4>1, <4>4 DEF Tokens!Woken
        <5> QED BY <3>0, <4>4, <5>1, AnswerGoes
      <4> QED BY <4>2, <4>3, <4>4
    <3> QED BY <3>1, <3>2
  <2>3. CASE d # c /\ ~(x8[d].at = "wait" /\ x8[d].of = x8[c].of)
    BY <2>3 DEF Tokens!Land
  <2> QED BY <2>1, <2>2, <2>3
<1> QED BY <1>1, <1>2

LEMMA LeadInv ==
    ASSUME TokensInv, NEW c \in Calls, Tokens!Lead(c)
    PROVE  TokensInv'
<1>1. x8[c] \in TokenCalls /\ UNCHANGED <<x1, x2, x3, x4, x5, x9>>
  BY CallerTyped DEF Tokens!Lead, CallerPlaces
<1>2. CASE c \in x9 \/ x1 # x8[c].of
  <2>1. PICK result \in {"cancelled", "changed"} :
          Tokens!Land(c, result, FALSE) /\ (result = "cancelled" => c \in x9)
    BY <1>2 DEF Tokens!Lead
  <2>2. x6' = Tokens!Kept(x8[c].of) BY <1>2 DEF Tokens!Lead
  <2>3. x6' \subseteq x6 /\ (x1 \in x6 => x1 \in x6') BY <2>2 DEF Tokens!Kept
  <2> QED BY <1>1, <2>1, <2>3, LandGoes, CallersOnly
<1>3. CASE ~(c \in x9 \/ x1 # x8[c].of)
  <2>1. Tokens!To(c, "exchange") /\ x6' = x6 BY <1>3 DEF Tokens!Lead
  <2> QED BY <1>1, <2>1, OneCaller, PlaceGoes DEF Tokens!To, CallerPlaces
<1> QED BY <1>2, <1>3

LEMMA ExchangeFailsInv ==
    ASSUME TokensInv, NEW c \in Calls, Tokens!ExchangeFails(c)
    PROVE  TokensInv'
<1>1. x8[c] \in TokenCalls /\ UNCHANGED <<x1, x2, x3, x4, x5, x9>>
  BY CallerTyped DEF Tokens!ExchangeFails, CallerPlaces
<1>2. PICK result \in {"cancelled", "failed"} :
        Tokens!Land(c, result, FALSE) /\ (result = "cancelled" => c \in x9)
  BY DEF Tokens!ExchangeFails
<1>3. x6' = Tokens!Kept(x8[c].of) BY DEF Tokens!ExchangeFails
<1>4. x6' \subseteq x6 /\ (x1 \in x6 => x1 \in x6') BY <1>3 DEF Tokens!Kept
<1> QED BY <1>1, <1>2, <1>4, LandGoes, CallersOnly

\* A rotated token marks its object.
LEMMA ExchangeInv ==
    ASSUME TokensInv, NEW c \in Calls, Tokens!Exchange(c)
    PROVE  TokensInv'
<1> DEFINE o == x8[c].of
           asks == x8[c].force \/ o \in x5
           r == [x8[c] EXCEPT !.at = "save", !.changed = asks]
<1>1. /\ x8[c] \in TokenCalls /\ o \in 1..x2 /\ o \in 1..2
      /\ UNCHANGED <<x1, x2, x4, x9>>
  BY CallerTyped DEF Tokens!Exchange, CallerPlaces
<1>2. /\ x3' = IF asks THEN [x3 EXCEPT ![o] = @ + 1] ELSE x3
      /\ x5' = x5 \ {o} /\ x6' = IF asks THEN x6 \cup {o} ELSE x6
      /\ x8' = [x8 EXCEPT ![c] = r]
  BY DEF Tokens!Exchange, Tokens!Set
<1>3. asks \in BOOLEAN BY <1>1 DEF TokenCalls
<1> HIDE DEF asks
<1>4. r \in TokenCalls /\ r.of = o /\ r.at = "save"
  BY <1>1, <1>3 DEF TokenCalls, CallerPlaces
<1> HIDE DEF r
<1>5. \A d \in Calls : x8'[d] = IF d = c THEN r ELSE x8[d]
  BY <1>2 DEF TokensInv, TokensTyped
<1> HIDE DEF o
<1>6. x3' \in [1..2 -> Nat] /\ \A p \in 1..2 : p # o \/ ~asks => x3'[p] = x3[p]
  BY <1>1, <1>2 DEF TokensInv, TokensTyped
<1>7. TokensTyped' BY <1>1, <1>2, <1>4, <1>6 DEF TokensInv, TokensTyped
<1>8. x1 # 0 /\ x1 \notin x6' => x4.version = x3'[x1]
  <2>1. x1 # 0 => x1 \in 1..2 BY DEF TokensInv, TokensTyped
  <2> QED BY <1>2, <1>6, <2>1 DEF TokensInv, TokensOnDisk
<1>9. \A p \in 1..2 : p > x2 => x3'[p] = 0
  <2>1. \A p \in 1..2 : p > x2 => p # o BY <1>1 DEF TokensInv, TokensTyped
  <2> QED BY <1>6, <2>1 DEF TokensInv, TokensOnDisk
<1>10. \A d \in Calls : x8'[d] # Tokens!Idle => x8'[d].of <= x2
  <2>1. o <= x2 BY <1>1 DEF TokensInv, TokensTyped
  <2> QED BY <1>4, <1>5, <2>1 DEF TokensInv, TokensOnDisk
<1>11. TokensOnDisk' BY <1>1, <1>8, <1>9, <1>10 DEF TokensInv, TokensOnDisk
<1>12. Tokens!OwnFate' BY <1>1, <1>4, <1>5 DEF TokensInv, Tokens!OwnFate
<1> QED BY <1>7, <1>11, <1>12 DEF TokensInv

LEMMA SaveInv ==
    ASSUME TokensInv, NEW c \in Calls, NEW written \in BOOLEAN, Tokens!Save(c, written)
    PROVE  TokensInv'
<1> DEFINE o == x8[c].of
           now == IF c \in x9 THEN "cancelled" ELSE "ok"
<1>1. /\ x8[c] \in TokenCalls /\ o \in 1..x2 /\ o \in 1..2 /\ x8[c].changed \in BOOLEAN
      /\ UNCHANGED <<x1, x2, x3, x5, x9>>
  BY CallerTyped DEF Tokens!Save, CallerPlaces, TokenCalls
<1>2. now \in {"cancelled", "ok"} /\ (now = "cancelled" => c \in x9) OBVIOUS
<1> HIDE DEF now
<1>3. CASE x1 # o
  <2>1. /\ Tokens!Land(c, "changed", FALSE) /\ x6' = x6 \ {o} /\ x4' = x4
    BY <1>3 DEF Tokens!Save, Tokens!StillCurrent
  <2>2. x6' \subseteq x6 /\ (x1 \in x6 => x1 \in x6') BY <1>3, <2>1
  <2> QED BY <1>1, <2>1, <2>2, LandGoes, CallersOnly
<1>4. CASE x1 = o /\ o \notin x6
  <2>1. Tokens!Land(c, now, x8[c].changed) /\ UNCHANGED <<x4, x6>>
    BY <1>4 DEF Tokens!Save, Tokens!StillCurrent, Tokens!Saves, now
  <2> QED BY <1>1, <1>2, <2>1, LandGoes, CallersOnly
<1>5. CASE x1 = o /\ o \in x6 /\ ~written
  <2>1. Tokens!Land(c, "unsaved", FALSE) /\ UNCHANGED <<x4, x6>>
    BY <1>5 DEF Tokens!Save, Tokens!StillCurrent, Tokens!Saves
  <2> QED BY <1>1, <2>1, LandGoes, CallersOnly
<1>6. CASE x1 = o /\ o \in x6 /\ written
  <2>1. /\ Tokens!Land(c, now, x8[c].changed)
        /\ x4' = [of |-> o, version |-> x3[o]] /\ x6' = x6 \ {o}
    BY <1>6 DEF Tokens!Save, Tokens!StillCurrent, Tokens!Saves, now
  <2>2. /\ DOMAIN x8' = Calls /\ x8' = [d \in Calls |-> x8'[d]]
        /\ \A d \in Calls : x8'[d] = x8[d] \/ CallerGoesOn(d, x8'[d])
    BY <1>1, <1>2, <2>1, LandGoes
  <2>3. x8' \in [Calls -> {Tokens!Idle} \cup TokenCalls]
    BY <2>2 DEF TokensInv, TokensTyped, CallerGoesOn
  <2>4. x3[o] \in Nat BY <1>1 DEF TokensInv, TokensTyped
  <2>5. x4' \in [of : 0..x2, version : Nat]
    BY <1>1, <2>1, <2>4 DEF TokensInv, TokensTyped
  <2>6. TokensTyped' BY <1>1, <2>1, <2>3, <2>5 DEF TokensInv, TokensTyped
  <2>7. \A d \in Calls : x8'[d] # Tokens!Idle => x8'[d].of <= x2
    BY <2>2 DEF TokensInv, TokensOnDisk, CallerGoesOn
  <2>8. TokensOnDisk' BY <1>1, <1>6, <2>1, <2>7 DEF TokensInv, TokensOnDisk
  <2>9. Tokens!OwnFate' BY <1>1, <2>2 DEF TokensInv, Tokens!OwnFate, CallerGoesOn
  <2> QED BY <2>6, <2>8, <2>9 DEF TokensInv
<1> QED BY <1>3, <1>4, <1>5, <1>6

LEMMA LeaveTokenInv ==
    ASSUME TokensInv, NEW c \in Calls, Tokens!Leave(c)
    PROVE  TokensInv'
<1>1. x9' = x9 \cup {c} /\ UNCHANGED <<x1, x2, x3, x4, x5, x6>>
  BY DEF Tokens!Leave, Tokens!state
<1>2. CASE x8' = x8
  BY <1>1, <1>2 DEF TokensInv, TokensTyped, TokensOnDisk, Tokens!OwnFate
<1>3. CASE x8[c].at = "wait" /\ Tokens!Answer(c, "cancelled")
  <2> DEFINE r == [x8[c] EXCEPT !.at = "done", !.result = "cancelled"]
  <2>1. x8[c] \in TokenCalls /\ x8[c].of <= x2 BY <1>3, CallerTyped DEF CallerPlaces
  <2>2. r \in TokenCalls /\ r.of = x8[c].of BY <2>1 DEF TokenCalls, CallerPlaces
  <2>3. x8' = [x8 EXCEPT ![c] = r] BY <1>3 DEF Tokens!Answer, Tokens!Set
  <2> HIDE DEF r
  <2>4. \A d \in Calls : x8'[d] = IF d = c THEN r ELSE x8[d]
    BY <2>3 DEF TokensInv, TokensTyped
  <2>5. TokensTyped' BY <1>1, <2>2, <2>3 DEF TokensInv, TokensTyped
  <2>6. TokensOnDisk' BY <1>1, <2>1, <2>2, <2>4 DEF TokensInv, TokensOnDisk
  <2>7. Tokens!OwnFate' BY <1>1, <2>4 DEF TokensInv, Tokens!OwnFate
  <2> QED BY <2>5, <2>6, <2>7 DEF TokensInv
<1> QED BY <1>2, <1>3 DEF Tokens!Leave

LEMMA ReturnInv ==
    ASSUME TokensInv, NEW c \in Calls, Tokens!Return(c)
    PROVE  TokensInv'
<1>1. /\ x8' = [x8 EXCEPT ![c] = Tokens!Idle] /\ x9' = x9 \ {c}
      /\ UNCHANGED <<x1, x2, x3, x4, x5, x6>>
  BY DEF Tokens!Return, Tokens!Set, Tokens!state
<1>2. \A d \in Calls : x8'[d] = IF d = c THEN Tokens!Idle ELSE x8[d]
  BY <1>1 DEF TokensInv, TokensTyped
<1>3. TokensTyped' BY <1>1 DEF TokensInv, TokensTyped
<1>4. TokensOnDisk' BY <1>1, <1>2 DEF TokensInv, TokensOnDisk
<1>5. Tokens!OwnFate' BY <1>1, <1>2 DEF TokensInv, Tokens!OwnFate, Tokens!Idle
<1> QED BY <1>3, <1>4, <1>5 DEF TokensInv

\* Imports, deletions and restarts change file and memory together.
LEMMA ObjectsInv ==
    ASSUME TokensInv,
           Tokens!Age \/ Tokens!Import \/ Tokens!DeleteAccount \/ Tokens!Restart
    PROVE  TokensInv'
<1>1. ASSUME Tokens!Age PROVE TokensInv'
  BY <1>1 DEF Tokens!Age, TokensInv, TokensTyped, TokensOnDisk, Tokens!OwnFate
<1>2. ASSUME Tokens!DeleteAccount PROVE TokensInv'
  BY <1>2 DEF Tokens!DeleteAccount, Tokens!NoFile, TokensInv, TokensTyped, TokensOnDisk,
              Tokens!OwnFate
<1>3. ASSUME Tokens!Import PROVE TokensInv'
  <2>1. /\ x2 = 1 /\ x2' = 2 /\ x1' = 2 /\ x4' = [of |-> 2, version |-> 0]
        /\ UNCHANGED <<x3, x5, x6, x8, x9>>
    BY <1>3 DEF Tokens!Import, TokensInv, TokensTyped
  <2>2. x3[2] = 0 /\ 2 \notin x6 BY <2>1 DEF TokensInv, TokensTyped, TokensOnDisk
  <2>3. TokensTyped' BY <2>1 DEF TokensInv, TokensTyped
  <2>4. \A c \in Calls : x8'[c] # Tokens!Idle => x8'[c].of <= x2'
    <3> SUFFICES ASSUME NEW c \in Calls, x8[c] # Tokens!Idle PROVE x8[c].of <= 2
      BY <2>1
    <3>1. x8[c] \in TokenCalls BY DEF TokensInv, TokensTyped
    <3> QED BY <3>1 DEF TokenCalls
  <2>5. TokensOnDisk' BY <2>1, <2>2, <2>4 DEF TokensInv, TokensOnDisk
  <2> QED BY <2>1, <2>3, <2>5 DEF TokensInv, Tokens!OwnFate
<1>4. ASSUME Tokens!Restart PROVE TokensInv'
  <2>1. /\ x2 = 1 /\ x2' = 2 /\ x1' = (IF x4.of = 0 THEN 0 ELSE 2)
        /\ x4' = (IF x4.of = 0 THEN x4 ELSE [x4 EXCEPT !.of = 2])
        /\ x3' = [x3 EXCEPT ![2] = x4.version]
        /\ x5' = {} /\ x6' = {} /\ x9' = {} /\ x8' = [c \in Calls |-> Tokens!Idle]
    <3>1. x2 < 2 /\ x2' = x2 + 1 BY <1>4 DEF Tokens!Restart
    <3>2. x2 = 1 /\ x2' = 2 BY <3>1 DEF TokensInv, TokensTyped
    <3> QED BY <1>4, <3>2 DEF Tokens!Restart
  <2>2. x4' \in [of : 0..2, version : Nat] /\ x4'.version = x4.version
        /\ (x4.of # 0 => x4'.of = 2)
    BY <2>1 DEF TokensInv, TokensTyped
  <2>3. x4.version \in Nat BY DEF TokensInv, TokensTyped
  <2>4. x3' \in [1..2 -> Nat] /\ x3'[2] = x4.version
    BY <2>1, <2>3 DEF TokensInv, TokensTyped
  <2>5. TokensTyped' BY <2>1, <2>2, <2>4 DEF TokensInv, TokensTyped
  <2>6. TokensOnDisk' BY <2>1, <2>2, <2>4 DEF TokensInv, TokensOnDisk
  <2>7. Tokens!OwnFate' BY <2>1 DEF Tokens!OwnFate, Tokens!Idle
  <2> QED BY <2>5, <2>6, <2>7 DEF TokensInv
<1> QED BY <1>1, <1>2, <1>3, <1>4

LEMMA TokensStep ==
    ASSUME TokensInv, [Tokens!Next]_(Tokens!vars)
    PROVE  TokensInv'
<1>1. CASE UNCHANGED Tokens!vars
  BY <1>1 DEF Tokens!vars, TokensInv, TokensTyped, TokensOnDisk, Tokens!OwnFate
<1>2. ASSUME NEW c \in Calls, NEW o \in Tokens!Objects, NEW force \in BOOLEAN,
             Tokens!Call(c, o, force)
      PROVE  TokensInv'
  BY <1>2, CallInv DEF Tokens!Objects
<1>3. ASSUME NEW c \in Calls,
             \/ Tokens!Look(c) \/ Tokens!Fresh(c) \/ Tokens!Claim(c) \/ Tokens!Lead(c)
             \/ Tokens!Exchange(c) \/ Tokens!ExchangeFails(c)
             \/ \E written \in BOOLEAN : Tokens!Save(c, written)
             \/ Tokens!Leave(c) \/ Tokens!Return(c)
      PROVE  TokensInv'
  BY <1>3, LookTokenInv, FreshInv, ClaimInv, LeadInv, ExchangeInv, ExchangeFailsInv,
     SaveInv, LeaveTokenInv, ReturnInv
<1> QED BY <1>1, <1>2, <1>3, ObjectsInv DEF Tokens!Next

\* In Trae's credentials, a token that was rotated is on disk unless its object
\* is marked for another try, and no call is cancelled by somebody else's leaving
\* (refreshCredentialsOnce, saveIdentity).
THEOREM RotationsHold == MCSpec => []RotationsKept
<1> DEFINE Safe == part = "trae tokens" => TokensInv
<1>1. MCInit => Safe BY TokensBegin DEF MCInit
<1>2. Safe /\ ChannelsStep => Safe' BY PartSteps, TokensStep
<1>3. Safe => RotationsKept
  BY DEF RotationsKept, TokensInv, TokensOnDisk, Tokens!RotationsKept
<1> QED BY <1>1, <1>2, <1>3, PTL DEF MCSpec, ChannelsStep

-----------------------------------------------------------------------------
\* Calls of Trae, which may take three attempts here.

Askers == {CHOOSE c \in Calls : TRUE}
TraePlaces == {"recover", "select", "ensure", "send", "sent", "renew", "done"}
TraeResults == {"rejection", "lost", "unavailable", "refused", "broken", "ok", "incomplete"}
TraeCalls ==
    [at : TraePlaces, attempt : 0..3, tried : SUBSET Accounts, on : Accounts \cup {NoAccount},
     renewed : SUBSET Accounts, probes : SUBSET Accounts,
     rejection : Trae!Kinds \cup {NoAccount}, by : Accounts \cup {NoAccount},
     lost : BOOLEAN, sends : Nat, unsure : BOOLEAN, result : TraeResults \cup {NoAccount}]

Chances(r) == Cardinality(r.tried) + Cardinality(r.renewed)

\* A request was sent once for every attempt so far, and every further one needs
\* an account that was not tried, or a renewed token.
SendsCounted(r) ==
    /\ IsFiniteSet(r.tried) /\ IsFiniteSet(r.renewed)
    /\ r.sends <= 3 /\ r.sends <= Chances(r)
    /\ r.at \in {"ensure", "send", "renew"} => r.sends + 1 <= Chances(r)
    /\ r.at = "recover" => r.sends = 0
    /\ r.at \in {"select", "ensure", "send"} => r.sends <= r.attempt
    /\ r.at \in {"ensure", "send", "sent", "renew"} => r.on \in r.tried /\ r.attempt < 3
    /\ r.at \in {"sent", "renew"} => 0 < r.sends /\ r.sends <= r.attempt + 1
    /\ r.at = "renew" => r.attempt < 2

\* What the call met is remembered, and the answer is chosen by it.
MetKept(r) ==
    /\ r.at # "done" => ~r.unsure
    /\ r.rejection # NoAccount => r.by \in r.tried /\ r.sends > 0
    /\ r.at = "done" /\ r.result = "rejection" => r.by \in r.tried /\ r.sends > 0
    /\ r.at = "done" /\ r.result = "unavailable" =>
        r.attempt = 2 \/ (r.rejection = NoAccount /\ ~r.lost)

TraeFits(r) == r = Trae!Idle \/ (r \in TraeCalls /\ SendsCounted(r) /\ MetKept(r))

TraeInv ==
    /\ x1 \subseteq Accounts
    /\ x7 \in [Askers -> {Trae!Idle} \cup TraeCalls]
    /\ \A q \in Askers : TraeFits(x7[q])

LEMMA SameTrae == \A S : Trae!Cardinality(S) = Cardinality(S)
BY DEF Trae!Cardinality, Trae!IsFiniteSet, Cardinality, IsFiniteSet

LEMMA TraeBegin == Trae!Init => TraeInv
BY DEF Trae!Init, TraeInv, TraeFits, Askers

LEMMA TraeAt ==
    ASSUME TraeInv, NEW q \in Askers, x7[q].at \in TraePlaces
    PROVE  x7[q] \in TraeCalls /\ SendsCounted(x7[q]) /\ MetKept(x7[q])
<1>1. x7[q] # Trae!Idle BY DEF Trae!Idle, TraePlaces
<1> QED BY <1>1 DEF TraeInv, TraeFits

LEMMA ChancesTyped ==
    ASSUME NEW r \in TraeCalls, SendsCounted(r)
    PROVE  Chances(r) \in Nat /\ Cardinality(r.tried) \in Nat /\ Cardinality(r.renewed) \in Nat
BY FS_CardinalityType DEF SendsCounted, Chances

LEMMA OneAsks ==
    ASSUME TraeInv, NEW q \in Askers, NEW r, Trae!Set(q, r), TraeFits(r), x1' \subseteq Accounts
    PROVE  TraeInv'
<1>1. \A p \in Askers : x7'[p] = IF p = q THEN r ELSE x7[p] BY DEF TraeInv, Trae!Set
<1> QED BY <1>1 DEF TraeInv, Trae!Set, TraeFits

\* What most steps leave as it is.
SameMet(s, r) ==
    /\ s.tried = r.tried /\ s.renewed = r.renewed /\ s.sends = r.sends
    /\ s.rejection = r.rejection /\ s.by = r.by /\ s.lost = r.lost

LEMMA FinishFits ==
    ASSUME NEW r \in TraeCalls, SendsCounted(r), NEW result \in TraeResults,
           r.rejection # NoAccount => r.by \in r.tried /\ r.sends > 0,
           result = "rejection" => r.by \in r.tried /\ r.sends > 0,
           result = "unavailable" => r.attempt = 2 \/ (r.rejection = NoAccount /\ ~r.lost)
    PROVE  TraeFits(Trae!Finish(r, result))
<1> DEFINE s == Trae!Finish(r, result)
<1>1. /\ s \in TraeCalls /\ s.at = "done" /\ s.result = result /\ s.attempt = r.attempt
      /\ SameMet(s, r)
  BY DEF Trae!Finish, TraeCalls, TraePlaces, TraeResults, SameMet
<1> HIDE DEF s
<1>2. SendsCounted(s) BY <1>1 DEF SendsCounted, SameMet, Chances
<1>3. MetKept(s) BY <1>1 DEF MetKept, SameMet
<1>4. TraeFits(s) BY <1>1, <1>2, <1>3 DEF TraeFits
<1> QED BY <1>4 DEF s

LEMMA Next1Fits ==
    ASSUME NEW r \in TraeCalls, SendsCounted(r), r.attempt < 3, r.sends <= r.attempt + 1, ~r.unsure,
           r.rejection # NoAccount => r.by \in r.tried /\ r.sends > 0
    PROVE  TraeFits(Trae!Next1(r))
<1> DEFINE n == r.attempt + 1
           s == Trae!Next1(r)
<1>1. n \in 0..3 /\ r.sends <= n BY DEF TraeCalls
<1>2. s = [r EXCEPT !.at = "select", !.attempt = n] BY DEF Trae!Next1, TraeCalls
<1> HIDE DEF n, s
<1>3. /\ s \in TraeCalls /\ s.at = "select" /\ s.attempt = n /\ s.unsure = r.unsure
      /\ SameMet(s, r)
  BY <1>1, <1>2 DEF TraeCalls, TraePlaces, SameMet
<1>4. SendsCounted(s) BY <1>1, <1>3 DEF SendsCounted, SameMet, Chances
<1>5. MetKept(s) BY <1>3 DEF MetKept, SameMet
<1>6. TraeFits(s) BY <1>3, <1>4, <1>5 DEF TraeFits
<1> QED BY <1>6 DEF s

LEMMA StartTraeInv ==
    ASSUME TraeInv, NEW q \in Askers, Trae!Start(q)
    PROVE  TraeInv'
<1> DEFINE r == [at |-> "select", attempt |-> 0, tried |-> {}, on |-> NoAccount, renewed |-> {},
                 probes |-> {}, rejection |-> NoAccount, by |-> NoAccount, lost |-> FALSE,
                 sends |-> 0, unsure |-> FALSE, result |-> NoAccount]
<1>1. /\ r \in TraeCalls /\ r.at = "select" /\ r.attempt = 0 /\ r.tried = {} /\ r.renewed = {}
      /\ r.rejection = NoAccount /\ r.sends = 0 /\ r.unsure = FALSE
  BY DEF TraeCalls, TraePlaces
<1>2. PICK some \in SUBSET Trae!Blocked(r) :
        Trae!Set(q, r) \/ Trae!Set(q, [r EXCEPT !.at = "recover", !.probes = some])
  BY DEF Trae!Start
<1>3. some \subseteq Accounts BY DEF Trae!Blocked, TraeInv
<1> HIDE DEF r
<1> DEFINE s == [r EXCEPT !.at = "recover", !.probes = some]
<1>4. /\ s \in TraeCalls /\ s.at = "recover" /\ s.attempt = 0 /\ s.tried = {} /\ s.renewed = {}
      /\ s.rejection = NoAccount /\ s.sends = 0 /\ s.unsure = FALSE
  BY <1>1, <1>3 DEF TraeCalls, TraePlaces
<1> HIDE DEF s
<1>5. IsFiniteSet({}) /\ Cardinality({}) = 0 BY FS_EmptySet
<1>6. TraeFits(r) BY <1>1, <1>5 DEF TraeFits, SendsCounted, MetKept, Chances
<1>7. TraeFits(s) BY <1>4, <1>5 DEF TraeFits, SendsCounted, MetKept, Chances
<1>8. x1' \subseteq Accounts BY DEF Trae!Start, Trae!pool, TraeInv
<1> QED BY <1>2, <1>6, <1>7, <1>8, OneAsks DEF s

LEMMA RecoverInv ==
    ASSUME TraeInv, NEW q \in Askers, Trae!Recover(q)
    PROVE  TraeInv'
<1> DEFINE r == x7[q]
<1>1. r \in TraeCalls /\ SendsCounted(r) /\ MetKept(r) /\ r.at = "recover" /\ x1' \subseteq Accounts
  BY TraeAt DEF Trae!Recover, TraePlaces, TraeInv
<1>2. PICK a \in r.probes : Trae!Set(q, [r EXCEPT !.probes = @ \ {a},
                                            !.at = IF r.probes = {a} THEN "select" ELSE @])
  BY DEF Trae!Recover
<1> DEFINE at == IF r.probes = {a} THEN "select" ELSE r.at
           some == r.probes \ {a}
           s == [r EXCEPT !.probes = some, !.at = at]
<1>3. at \in {"select", "recover"} /\ some \subseteq Accounts BY <1>1 DEF TraeCalls
<1>4. Trae!Set(q, s) BY <1>1, <1>2 DEF TraeCalls
<1> HIDE DEF at, some
<1>5. /\ s \in TraeCalls /\ s.at = at /\ s.attempt = r.attempt /\ s.unsure = r.unsure
      /\ SameMet(s, r)
  BY <1>1, <1>3 DEF TraeCalls, TraePlaces, SameMet
<1> HIDE DEF s, r
<1>6. 0 <= r.attempt BY <1>1 DEF TraeCalls
<1>7. SendsCounted(s) BY <1>1, <1>3, <1>5, <1>6 DEF SendsCounted, SameMet, Chances
<1>8. MetKept(s) BY <1>1, <1>3, <1>5 DEF MetKept, SameMet
<1> QED BY <1>1, <1>4, <1>5, <1>7, <1>8, OneAsks DEF TraeFits

LEMMA SelectTraeInv ==
    ASSUME TraeInv, NEW q \in Askers, Trae!Select(q)
    PROVE  TraeInv'
<1> DEFINE r == x7[q]
<1>1. /\ r \in TraeCalls /\ SendsCounted(r) /\ MetKept(r) /\ r.at = "select"
      /\ x1' \subseteq Accounts
  BY TraeAt DEF Trae!Select, TraePlaces, TraeInv, Trae!pool
<1>2. CASE Trae!Set(q, Trae!Finish(r, Trae!LastWord(r)))
  <2>1. /\ Trae!LastWord(r) \in {"rejection", "lost", "unavailable"}
        /\ Trae!LastWord(r) = "rejection" => r.rejection # NoAccount
        /\ Trae!LastWord(r) = "unavailable" => r.rejection = NoAccount /\ ~r.lost
    BY DEF Trae!LastWord
  <2> QED BY <1>1, <1>2, <2>1, FinishFits, OneAsks DEF MetKept, TraeResults
<1>3. ASSUME NEW a \in Trae!Eligible(r), r.attempt # 3,
             Trae!Set(q, [r EXCEPT !.at = "ensure", !.on = a, !.tried = @ \cup {a}])
      PROVE  TraeInv'
  <2> DEFINE more == r.tried \cup {a}
             s == [r EXCEPT !.at = "ensure", !.on = a, !.tried = more]
  <2>1. a \in Accounts /\ a \notin r.tried /\ Trae!Set(q, s)
    BY <1>1, <1>3 DEF Trae!Eligible, TraeInv, TraeCalls
  <2>2. more \subseteq Accounts /\ a \in more /\ r.tried \subseteq more
    BY <1>1, <2>1 DEF TraeCalls
  <2>3. IsFiniteSet(more) /\ Cardinality(more) = Cardinality(r.tried) + 1
    BY <1>1, <2>1, FS_AddElement DEF SendsCounted
  <2> HIDE DEF more
  <2>4. /\ s \in TraeCalls /\ s.at = "ensure" /\ s.on = a /\ s.tried = more
        /\ s.attempt = r.attempt /\ s.renewed = r.renewed /\ s.sends = r.sends
        /\ s.rejection = r.rejection /\ s.by = r.by /\ s.lost = r.lost /\ s.unsure = r.unsure
    BY <1>1, <2>1, <2>2 DEF TraeCalls, TraePlaces
  <2> HIDE DEF s
  <2>5. r.attempt \in 0..3 /\ r.sends \in Nat BY <1>1 DEF TraeCalls
  <2> DEFINE old == Cardinality(r.tried)
             new == Cardinality(more)
             ren == Cardinality(r.renewed)
  <2>6. /\ old \in Nat /\ ren \in Nat /\ new = old + 1 /\ r.sends <= old + ren
        /\ Chances(s) = new + ren
    BY <1>1, <2>3, <2>4, ChancesTyped DEF SendsCounted, Chances
  <2> HIDE DEF old, new, ren
  <2>7. r.sends <= Chances(s) /\ r.sends + 1 <= Chances(s) BY <2>5, <2>6
  <2>8. SendsCounted(s) BY <1>1, <1>3, <2>2, <2>3, <2>4, <2>5, <2>7 DEF SendsCounted
  <2>9. MetKept(s) BY <1>1, <2>2, <2>4 DEF MetKept
  <2> QED BY <1>1, <2>1, <2>4, <2>8, <2>9, OneAsks DEF TraeFits
<1> QED BY <1>1, <1>2, <1>3 DEF Trae!Select

LEMMA EnsureInv ==
    ASSUME TraeInv, NEW q \in Askers, Trae!Ensure(q)
    PROVE  TraeInv'
<1> DEFINE r == x7[q]
<1>1. /\ r \in TraeCalls /\ SendsCounted(r) /\ MetKept(r) /\ r.at = "ensure"
      /\ x1' \subseteq Accounts
  BY TraeAt DEF Trae!Ensure, TraePlaces, TraeInv
<1>2. \/ Trae!Set(q, [r EXCEPT !.at = "send"]) \/ Trae!Set(q, Trae!Next1(r))
      \/ ~(r.attempt < 2) /\ Trae!Set(q, Trae!Finish(r, "unavailable"))
  BY DEF Trae!Ensure
<1> DEFINE s == [r EXCEPT !.at = "send"]
<1>3. /\ s \in TraeCalls /\ s.at = "send" /\ s.attempt = r.attempt /\ s.unsure = r.unsure
      /\ s.on = r.on /\ SameMet(s, r)
  BY <1>1 DEF TraeCalls, TraePlaces, SameMet
<1> HIDE DEF s
<1>4. TraeFits(s)
  BY <1>1, <1>3 DEF TraeFits, SendsCounted, MetKept, SameMet, Chances
<1>5. r.attempt \in 0..2 /\ r.sends <= r.attempt + 1 /\ r.attempt < 3
  BY <1>1 DEF TraeCalls, SendsCounted
<1>6. TraeFits(Trae!Next1(r)) BY <1>1, <1>5, Next1Fits DEF MetKept
<1>7. ~(r.attempt < 2) => r.attempt = 2 BY <1>5
<1>8. ~(r.attempt < 2) => TraeFits(Trae!Finish(r, "unavailable"))
  BY <1>1, <1>7, FinishFits DEF MetKept, TraeResults
<1> QED BY <1>1, <1>2, <1>4, <1>6, <1>8, OneAsks DEF s

LEMMA SendTraeInv ==
    ASSUME TraeInv, NEW q \in Askers, NEW checked \in BOOLEAN, Trae!Send(q, checked)
    PROVE  TraeInv'
<1> DEFINE r == x7[q]
           n == r.sends + 1
           s == [r EXCEPT !.at = "sent", !.sends = n]
<1>1. /\ r \in TraeCalls /\ SendsCounted(r) /\ MetKept(r) /\ r.at = "send"
      /\ x1' \subseteq Accounts
  BY TraeAt DEF Trae!Send, TraePlaces, TraeInv, Trae!pool
<1>2. Trae!Set(q, s) \/ Trae!Set(q, Trae!Finish(r, "refused"))
  BY <1>1 DEF Trae!Send, TraeCalls
<1>3. r.attempt \in 0..2 /\ r.sends \in Nat /\ r.sends <= r.attempt
  BY <1>1 DEF TraeCalls, SendsCounted
<1>4. n \in Nat /\ n <= 3 /\ n <= r.attempt + 1 /\ 0 < n /\ n > 0 BY <1>3
<1>5. n <= Chances(r) BY <1>1 DEF SendsCounted
<1> HIDE DEF n
<1>6. /\ s \in TraeCalls /\ s.at = "sent" /\ s.attempt = r.attempt /\ s.unsure = r.unsure
      /\ s.on = r.on /\ s.sends = n /\ s.tried = r.tried /\ s.renewed = r.renewed
      /\ s.rejection = r.rejection /\ s.by = r.by
  BY <1>1, <1>4 DEF TraeCalls, TraePlaces
<1> HIDE DEF s
<1>7. SendsCounted(s) BY <1>1, <1>4, <1>5, <1>6 DEF SendsCounted, Chances
<1>8. MetKept(s) BY <1>1, <1>4, <1>6 DEF MetKept
<1>9. TraeFits(Trae!Finish(r, "refused")) BY <1>1, FinishFits DEF MetKept, TraeResults
<1> QED BY <1>1, <1>2, <1>6, <1>7, <1>8, <1>9, OneAsks DEF TraeFits

\* What a request that was sent leaves of its call.
LEMMA SentRange ==
    ASSUME NEW r \in TraeCalls, SendsCounted(r), r.at \in {"sent", "renew"}
    PROVE  /\ r.attempt \in 0..2 /\ r.attempt < 3 /\ r.sends \in Nat /\ r.sends > 0
           /\ r.sends <= r.attempt + 1 /\ r.on \in r.tried /\ r.on \in Accounts
BY DEF TraeCalls, SendsCounted

LEMMA LoseInv ==
    ASSUME TraeInv, NEW q \in Askers, NEW before \in BOOLEAN, Trae!Lose(q, before)
    PROVE  TraeInv'
<1> DEFINE p == x7[q]
           unsure == p.unsure \/ ~before
           r == [p EXCEPT !.lost = TRUE, !.unsure = unsure]
<1>1. /\ p \in TraeCalls /\ SendsCounted(p) /\ MetKept(p) /\ p.at = "sent"
      /\ x1' \subseteq Accounts
  BY TraeAt DEF Trae!Lose, TraePlaces, TraeInv, Trae!pool
<1>2. \/ before /\ Trae!Set(q, Trae!Next1(r))
      \/ Trae!Set(q, Trae!Finish(r, "lost"))
  BY <1>1 DEF Trae!Lose, Trae!RetriesLoss, TraeCalls
<1>3. unsure \in BOOLEAN /\ (before => ~unsure) BY <1>1 DEF MetKept, TraeCalls
<1> HIDE DEF unsure
<1>4. /\ r \in TraeCalls /\ r.at = "sent" /\ r.attempt = p.attempt /\ r.unsure = unsure
      /\ r.on = p.on /\ r.sends = p.sends /\ r.tried = p.tried /\ r.renewed = p.renewed
      /\ r.rejection = p.rejection /\ r.by = p.by
  BY <1>1, <1>3 DEF TraeCalls, TraePlaces
<1> HIDE DEF r
<1>5. SendsCounted(r) BY <1>1, <1>4 DEF SendsCounted, Chances
<1>6. /\ r.attempt < 3 /\ r.sends <= r.attempt + 1
      /\ r.rejection # NoAccount => r.by \in r.tried /\ r.sends > 0
  BY <1>1, <1>4, <1>5, SentRange DEF MetKept
<1>7. before => TraeFits(Trae!Next1(r)) BY <1>3, <1>4, <1>5, <1>6, Next1Fits
<1>8. TraeFits(Trae!Finish(r, "lost")) BY <1>4, <1>5, <1>6, FinishFits DEF TraeResults
<1> QED BY <1>1, <1>2, <1>7, <1>8, OneAsks

\* A rejection is the answer, or it is remembered for the end of the call.
LEMMA RejectedFits ==
    ASSUME TraeInv, NEW q \in Askers, x7[q] \in TraeCalls, SendsCounted(x7[q]), MetKept(x7[q]),
           x7[q].at \in {"sent", "renew"}, NEW kind \in Trae!Kinds,
           Trae!Rejected(q, x7[q], kind), x1' \subseteq Accounts
    PROVE  TraeInv'
<1> DEFINE r == x7[q]
           now == [r EXCEPT !.rejection = kind, !.by = r.on]
<1>1. Trae!Set(q, Trae!Next1(now)) \/ Trae!Set(q, Trae!Finish(now, "rejection"))
  BY DEF Trae!Rejected
<1>2. /\ r.attempt < 3 /\ r.sends > 0 /\ r.sends <= r.attempt + 1 /\ r.on \in r.tried
      /\ r.on \in Accounts
  BY SentRange
<1>3. /\ now \in TraeCalls /\ now.at = r.at /\ now.attempt = r.attempt /\ now.unsure = r.unsure
      /\ now.on = r.on /\ now.sends = r.sends /\ now.tried = r.tried /\ now.renewed = r.renewed
      /\ now.by = r.on
  BY <1>2 DEF TraeCalls
<1> HIDE DEF now
<1>4. SendsCounted(now) BY <1>3 DEF SendsCounted, Chances
<1>5. ~now.unsure BY <1>3 DEF MetKept
<1>6. TraeFits(Trae!Next1(now)) BY <1>2, <1>3, <1>4, <1>5, Next1Fits
<1>7. TraeFits(Trae!Finish(now, "rejection"))
  BY <1>2, <1>3, <1>4, FinishFits DEF TraeResults
<1> QED BY <1>1, <1>6, <1>7, OneAsks

LEMMA RejectTraeInv ==
    ASSUME TraeInv, NEW q \in Askers, NEW kind \in Trae!Kinds, NEW status \in BOOLEAN,
           Trae!Reject(q, kind, status)
    PROVE  TraeInv'
<1> DEFINE r == x7[q]
           more == r.renewed \cup {r.on}
           s == [r EXCEPT !.at = "renew", !.renewed = more]
<1>1. /\ r \in TraeCalls /\ SendsCounted(r) /\ MetKept(r) /\ r.at = "sent"
      /\ x1' \subseteq Accounts
  BY TraeAt DEF Trae!Reject, TraePlaces, TraeInv
<1>2. \/ Trae!Renews(r, kind) /\ Trae!Set(q, s)
      \/ Trae!Rejected(q, r, kind)
  BY <1>1 DEF Trae!Reject, TraeCalls
<1>3. CASE Trae!Renews(r, kind) /\ Trae!Set(q, s)
  <2>1. r.on \notin r.renewed /\ r.attempt < 2 BY <1>3 DEF Trae!Renews
  <2>2. /\ r.attempt \in 0..2 /\ r.sends \in Nat /\ r.sends > 0
        /\ r.sends <= r.attempt + 1 /\ r.on \in r.tried /\ r.on \in Accounts
    BY <1>1, SentRange
  <2>3. more \subseteq Accounts BY <1>1, <2>2 DEF TraeCalls
  <2>4. IsFiniteSet(more) /\ Cardinality(more) = Cardinality(r.renewed) + 1
    BY <1>1, <2>1, FS_AddElement DEF SendsCounted
  <2> HIDE DEF more
  <2>5. /\ s \in TraeCalls /\ s.at = "renew" /\ s.on = r.on /\ s.tried = r.tried
        /\ s.attempt = r.attempt /\ s.renewed = more /\ s.sends = r.sends
        /\ s.rejection = r.rejection /\ s.by = r.by /\ s.unsure = r.unsure
    BY <1>1, <2>3 DEF TraeCalls, TraePlaces
  <2> HIDE DEF s
  <2> DEFINE old == Cardinality(r.renewed)
             new == Cardinality(more)
             had == Cardinality(r.tried)
  <2>6. /\ old \in Nat /\ had \in Nat /\ new = old + 1 /\ r.sends <= had + old
        /\ Chances(s) = had + new
    BY <1>1, <2>4, <2>5, ChancesTyped DEF SendsCounted, Chances
  <2> HIDE DEF old, new, had
  <2>7. r.sends <= Chances(s) /\ r.sends + 1 <= Chances(s) BY <2>2, <2>6
  <2>8. SendsCounted(s) BY <1>1, <2>1, <2>2, <2>4, <2>5, <2>7 DEF SendsCounted
  <2>9. MetKept(s) BY <1>1, <2>5 DEF MetKept
  <2> QED BY <1>1, <1>3, <2>5, <2>8, <2>9, OneAsks DEF TraeFits
<1> QED BY <1>1, <1>2, <1>3, RejectedFits

LEMMA RenewInv ==
    ASSUME TraeInv, NEW q \in Askers, NEW ok \in BOOLEAN, Trae!Renew(q, ok)
    PROVE  TraeInv'
<1> DEFINE r == x7[q]
           n == r.attempt + 1
           s == [r EXCEPT !.at = "send", !.attempt = n]
<1>1. /\ r \in TraeCalls /\ SendsCounted(r) /\ MetKept(r) /\ r.at = "renew"
      /\ x1' \subseteq Accounts
  BY TraeAt DEF Trae!Renew, TraePlaces, TraeInv
<1>2. Trae!Set(q, s) \/ Trae!Rejected(q, r, "session")
  BY <1>1 DEF Trae!Renew, TraeCalls
<1>3. /\ r.sends \in Nat /\ r.attempt \in 0..2 /\ r.attempt < 2 /\ r.sends <= r.attempt + 1
  BY <1>1, SentRange DEF SendsCounted
<1>4. n \in 0..3 /\ n < 3 /\ r.sends <= n BY <1>3
<1> HIDE DEF n
<1>5. /\ s \in TraeCalls /\ s.at = "send" /\ s.on = r.on /\ s.attempt = n
      /\ s.unsure = r.unsure /\ SameMet(s, r)
  BY <1>1, <1>4 DEF TraeCalls, TraePlaces, SameMet
<1> HIDE DEF s
<1>6. SendsCounted(s) BY <1>1, <1>4, <1>5 DEF SendsCounted, SameMet, Chances
<1>7. MetKept(s) BY <1>1, <1>5 DEF MetKept, SameMet
<1>8. "session" \in Trae!Kinds BY DEF Trae!Kinds
<1> QED BY <1>1, <1>2, <1>5, <1>6, <1>7, <1>8, OneAsks, RejectedFits DEF TraeFits

LEMMA StreamTraeInv ==
    ASSUME TraeInv, NEW q \in Askers, NEW whole \in BOOLEAN,
           Trae!NoFirstEvent(q) \/ Trae!Stream(q, whole)
    PROVE  TraeInv'
<1> DEFINE p == x7[q]
           r == [p EXCEPT !.unsure = TRUE]
<1>1. /\ p \in TraeCalls /\ SendsCounted(p) /\ MetKept(p) /\ p.at = "sent"
      /\ x1' \subseteq Accounts
  BY TraeAt DEF Trae!NoFirstEvent, Trae!Stream, TraePlaces, TraeInv, Trae!pool
<1>2. PICK result \in {"broken", "ok", "incomplete"} : Trae!Set(q, Trae!Finish(r, result))
  BY DEF Trae!NoFirstEvent, Trae!Stream
<1>3. /\ r \in TraeCalls /\ r.at = "sent" /\ r.attempt = p.attempt
      /\ r.on = p.on /\ SameMet(r, p)
  BY <1>1 DEF TraeCalls, SameMet
<1> HIDE DEF r
<1>4. SendsCounted(r) BY <1>1, <1>3 DEF SendsCounted, SameMet, Chances
<1>5. r.rejection # NoAccount => r.by \in r.tried /\ r.sends > 0
  BY <1>1, <1>3 DEF MetKept, SameMet
<1>6. TraeFits(Trae!Finish(r, result)) BY <1>3, <1>4, <1>5, FinishFits DEF TraeResults
<1> QED BY <1>1, <1>2, <1>6, OneAsks

LEMMA TraeStep ==
    ASSUME TraeInv, [Trae!Next]_(Trae!vars)
    PROVE  TraeInv'
<1>1. CASE UNCHANGED Trae!vars BY <1>1 DEF Trae!vars, TraeInv
<1>2. ASSUME NEW q \in Askers,
             Trae!Start(q) \/ Trae!Recover(q) \/ Trae!Select(q) \/ Trae!Ensure(q)
      PROVE  TraeInv'
  BY <1>2, StartTraeInv, RecoverInv, SelectTraeInv, EnsureInv
<1>3. ASSUME NEW q \in Askers, NEW b \in BOOLEAN,
             Trae!Send(q, b) \/ Trae!Lose(q, b) \/ Trae!Renew(q, b) \/ Trae!Stream(q, b)
      PROVE  TraeInv'
  BY <1>3, SendTraeInv, LoseInv, RenewInv, StreamTraeInv
<1>4. ASSUME NEW q \in Askers, NEW kind \in Trae!Kinds, NEW status \in BOOLEAN,
             Trae!Reject(q, kind, status)
      PROVE  TraeInv'
  BY <1>4, RejectTraeInv
<1>5. ASSUME NEW q \in Askers, Trae!NoFirstEvent(q) \/ Trae!Leave(q) PROVE TraeInv'
  <2>1. CASE Trae!Leave(q)
    <3>1. Trae!Set(q, Trae!Idle) /\ x1' \subseteq Accounts /\ TraeFits(Trae!Idle)
      BY <2>1 DEF Trae!Leave, Trae!pool, TraeInv, TraeFits
    <3> QED BY <3>1, OneAsks
  <2> QED BY <1>5, <2>1, StreamTraeInv
<1>6. ASSUME NEW a \in Accounts,
             Trae!RefreshQuota(a) \/ Trae!CoolingEnds(a) \/ Trae!Change(a)
      PROVE  TraeInv'
  <2>1. x7' = x7 /\ x1' \subseteq Accounts
    BY <1>6 DEF Trae!RefreshQuota, Trae!CoolingEnds, Trae!Change, TraeInv
  <2> QED BY <2>1 DEF TraeInv
<1> QED BY <1>1, <1>2, <1>3, <1>4, <1>5, <1>6 DEF Trae!Next, Askers

LEMMA InvTrae == TraeInv => Trae!SendsFit /\ Trae!AnswersFit
<1> SUFFICES ASSUME TraeInv PROVE Trae!SendsFit /\ Trae!AnswersFit OBVIOUS
<1>1. ASSUME NEW q \in Askers, x7[q] # Trae!Idle
      PROVE  /\ x7[q].sends <= 3 /\ (x7[q].unsure => x7[q].at = "done")
             /\ x7[q].sends <= Cardinality(x7[q].tried) + Cardinality(x7[q].renewed)
  BY <1>1 DEF TraeInv, TraeFits, SendsCounted, MetKept, Chances
<1>2. Trae!SendsFit BY <1>1, SameTrae DEF Trae!SendsFit, Askers
<1>3. ASSUME NEW q \in Askers, x7[q].at = "done"
      PROVE  /\ x7[q].result = "rejection" => x7[q].by \in x7[q].tried /\ x7[q].sends > 0
             /\ x7[q].result = "unavailable" =>
                    x7[q].attempt = 2 \/ (x7[q].rejection = NoAccount /\ ~x7[q].lost)
  BY <1>3, TraeAt DEF TraePlaces, MetKept
<1>4. 3 - 1 = 2 OBVIOUS
<1>5. Trae!AnswersFit BY <1>3, <1>4 DEF Trae!AnswersFit, Askers
<1> QED BY <1>2, <1>5

\* In the Trae channel, the upstream gets a call at most three times, never again
\* after it may have begun to serve it, and an account once, or twice around a
\* token refresh; and the answer fits what the call met (Serve, forceRefresh).
THEOREM SendsHold == MCSpec => []SendsFit
<1> DEFINE Safe == part = "trae" => TraeInv
<1>1. MCInit => Safe BY TraeBegin DEF MCInit
<1>2. Safe /\ ChannelsStep => Safe' BY PartSteps, TraeStep
<1>3. Safe => SendsFit BY InvTrae DEF SendsFit
<1> QED BY <1>1, <1>2, <1>3, PTL DEF MCSpec, ChannelsStep

-----------------------------------------------------------------------------
\* The accounts and bridges of Qoder.

BridgePlaces == {"look", "wait", "build", "reread", "publish", "fail", "got", "use"}
BridgeCalls == [at : BridgePlaces, key : Nat, gen : Nat, failover : BOOLEAN]
Builds == {"build", "reread", "publish"}

BridgesTyped ==
    /\ x1 \in Nat /\ x5 \in Nat /\ x6 \in Nat
    /\ x8 \in [Calls -> {Bridges!Idle} \cup BridgeCalls]

\* Between a new secret and the end of the renewal or login that made it.
Replacing == x10.at = "drop" \/ x11 # Bridges!No

\* A bridge that nothing has invalidated since it was begun is of the present
\* secret once that was read again; a removal invalidates all of them.
BuildsFit ==
    /\ \A c \in Calls : x8[c].at \in Builds =>
        /\ x8[c].gen <= x5
        /\ x8[c].at = "publish" /\ x8[c].gen = x5 => x8[c].key = x1 \/ Replacing
        /\ x9 # "no" => x8[c].gen < x5
    /\ x9 # "no" => x6 = 0

BridgesInv == BridgesTyped /\ BuildsFit /\ Bridges!BridgeFits

LEMMA BridgesBegin == Bridges!Init => BridgesInv
BY DEF Bridges!Init, BridgesInv, BridgesTyped, BuildsFit, Bridges!BridgeFits,
   Bridges!Idle,
       Builds

\* What a step may do to a caller.
BuilderGoesOn(r) ==
    /\ r \in {Bridges!Idle} \cup BridgeCalls
    /\ r.at \in Builds =>
        /\ r.gen <= x5
        /\ r.at = "publish" /\ r.gen = x5 => r.key = x1 \/ Replacing
        /\ x9 # "no" => r.gen < x5

LEMMA BuilderTyped ==
    ASSUME BridgesInv, NEW c \in Calls, NEW at \in BridgePlaces, x8[c].at = at
    PROVE  x8[c] \in BridgeCalls
BY DEF BridgesInv, BridgesTyped, Bridges!Idle, BridgePlaces

LEMMA NoBuilder == Bridges!Idle.at \notin Builds
BY DEF Bridges!Idle, Builds

\* A step of one caller that leaves the files and the bridge alone.
LEMMA OneBuilder ==
    ASSUME BridgesInv, NEW c \in Calls, NEW r, Bridges!Set(c, r), BuilderGoesOn(r),
           UNCHANGED <<x1, x5, x6, x9, x10, x11>>
    PROVE  BridgesInv'
<1>1. \A d \in Calls : x8'[d] = IF d = c THEN r ELSE x8[d]
  BY DEF BridgesInv, BridgesTyped, Bridges!Set
<1>2. BridgesTyped' BY DEF BridgesInv, BridgesTyped, Bridges!Set, BuilderGoesOn
<1>3. BuildsFit' BY <1>1 DEF BridgesInv, BuildsFit, BuilderGoesOn, Replacing
<1>4. Bridges!BridgeFits' BY DEF BridgesInv, Bridges!BridgeFits
<1> QED BY <1>2, <1>3, <1>4 DEF BridgesInv

LEMMA PickInv ==
    ASSUME BridgesInv, NEW c \in Calls, NEW b \in BOOLEAN, Bridges!Pick(c, b)
    PROVE  BridgesInv'
<1> DEFINE r == [at |-> "look", key |-> x1, gen |-> 0, failover |-> b]
<1>1. r \in BridgeCalls /\ r.at \notin Builds
  BY DEF BridgeCalls, BridgePlaces, Builds, BridgesInv, BridgesTyped
<1>2. BuilderGoesOn(r) BY <1>1 DEF BuilderGoesOn
<1>3. Bridges!Set(c, r) /\ UNCHANGED <<x1, x5, x6, x9, x10, x11>>
  BY DEF Bridges!Pick, Bridges!files, Bridges!bridge, Bridges!admins
<1> HIDE DEF r
<1> QED BY <1>2, <1>3, OneBuilder

\* A caller that only moves, to a place where it does not build.
LEMMA MovesOn ==
    ASSUME BridgesInv, NEW c \in Calls, x8[c] \in BridgeCalls,
           NEW at \in {"wait", "got", "use", "fail"}
    PROVE  BuilderGoesOn([x8[c] EXCEPT !.at = at])
<1> DEFINE r == [x8[c] EXCEPT !.at = at]
<1>1. r \in BridgeCalls /\ r.at = at BY DEF BridgeCalls, BridgePlaces
<1> HIDE DEF r
<1>2. at \notin Builds BY DEF Builds
<1>3. BuilderGoesOn(r) BY <1>1, <1>2 DEF BuilderGoesOn
<1> QED BY <1>3 DEF r

LEMMA BuildInv ==
    ASSUME BridgesInv, NEW c \in Calls, NEW b \in BOOLEAN, Bridges!Build(c, b)
    PROVE  BridgesInv'
<1> DEFINE r == [x8[c] EXCEPT !.at = "reread"]
<1>1. /\ x8[c] \in BridgeCalls /\ x8[c].at = "build"
      /\ UNCHANGED <<x1, x5, x6, x9, x10, x11>>
  BY BuilderTyped DEF Bridges!Build, Bridges!files, Bridges!bridge, Bridges!admins,
     BridgePlaces
<1>2. r \in BridgeCalls /\ r.at = "reread" /\ r.gen = x8[c].gen
  BY <1>1 DEF BridgeCalls, BridgePlaces
<1>3. Bridges!Set(c, r) \/ Bridges!Set(c, [x8[c] EXCEPT !.at = "fail"])
  BY DEF Bridges!Build, Bridges!To
<1> HIDE DEF r
<1>4. BuilderGoesOn(r)
  BY <1>1, <1>2 DEF BuilderGoesOn, BridgesInv, BuildsFit, Builds
<1> QED BY <1>1, <1>3, <1>4, MovesOn, OneBuilder

LEMMA RereadInv ==
    ASSUME BridgesInv, NEW c \in Calls, Bridges!Reread(c)
    PROVE  BridgesInv'
<1> DEFINE r == [x8[c] EXCEPT !.at = "publish"]
<1>1. /\ x8[c] \in BridgeCalls /\ x8[c].at = "reread"
      /\ UNCHANGED <<x1, x5, x6, x9, x10, x11>>
  BY BuilderTyped DEF Bridges!Reread, Bridges!files, Bridges!bridge, Bridges!admins,
     BridgePlaces
<1>2. r \in BridgeCalls /\ r.at = "publish" /\ r.gen = x8[c].gen /\ r.key = x8[c].key
  BY <1>1 DEF BridgeCalls, BridgePlaces
<1>3. \/ x8[c].key = x1 /\ Bridges!Set(c, r)
      \/ Bridges!Set(c, [x8[c] EXCEPT !.at = "fail"])
  BY DEF Bridges!Reread, Bridges!To, Bridges!Stays
<1> HIDE DEF r
<1>4. x8[c].key = x1 => BuilderGoesOn(r)
  BY <1>1, <1>2 DEF BuilderGoesOn, BridgesInv, BuildsFit, Builds
<1> QED BY <1>1, <1>3, <1>4, MovesOn, OneBuilder

LEMMA LookBridgeInv ==
    ASSUME BridgesInv, NEW c \in Calls, Bridges!Look(c)
    PROVE  BridgesInv'
<1> DEFINE r == [x8[c] EXCEPT !.at = "build", !.gen = x5]
<1>1. /\ x8[c] \in BridgeCalls /\ x9 = "no"
      /\ UNCHANGED <<x1, x5, x6, x9, x10, x11>>
  BY BuilderTyped DEF Bridges!Look, Bridges!files, Bridges!admins, BridgePlaces,
     Bridges!Free
<1>2. r \in BridgeCalls /\ r.at = "build" /\ r.gen = x5 /\ x5 \in Nat
  BY <1>1 DEF BridgeCalls, BridgePlaces, BridgesInv, BridgesTyped
<1>3. \/ Bridges!Set(c, r)
      \/ \E at \in {"wait", "got"} : Bridges!Set(c, [x8[c] EXCEPT !.at = at])
  BY DEF Bridges!Look, Bridges!To
<1> HIDE DEF r
<1>4. BuilderGoesOn(r) BY <1>1, <1>2 DEF BuilderGoesOn
<1> QED BY <1>1, <1>3, <1>4, MovesOn, OneBuilder

LEMMA UseInv ==
    ASSUME BridgesInv, NEW c \in Calls, Bridges!Use(c) \/ Bridges!Done(c)
    PROVE  BridgesInv'
<1>1. /\ x8[c] \in BridgeCalls /\ UNCHANGED <<x1, x5, x6, x9, x10, x11>>
  BY BuilderTyped DEF Bridges!Use, Bridges!Done, Bridges!files, Bridges!bridge,
     Bridges!admins,
                      BridgePlaces
<1>2. Bridges!Set(c, Bridges!Idle) \/ Bridges!Set(c, [x8[c] EXCEPT !.at = "use"])
  BY DEF Bridges!Use, Bridges!Done, Bridges!To
<1>3. BuilderGoesOn(Bridges!Idle) BY NoBuilder DEF BuilderGoesOn
<1> QED BY <1>1, <1>2, <1>3, MovesOn, OneBuilder

\* What is published was built for the present secret, since the last
\* invalidation, and no removal is under way.
LEMMA PublishInv ==
    ASSUME BridgesInv, NEW c \in Calls, Bridges!Publish(c)
    PROVE  BridgesInv'
<1> DEFINE r == x8[c]
           ok == r.at = "publish" /\ Bridges!NotInvalidated(r)
<1>1. /\ r \in BridgeCalls /\ x9 = "no" /\ x6' = (IF ok THEN r.key ELSE x6)
      /\ UNCHANGED <<x1, x5, x9, x10, x11>>
  BY BuilderTyped DEF Bridges!Publish, Bridges!files, Bridges!admins, BridgePlaces,
     Bridges!Free
<1>2. ok => r.gen = x5 /\ (r.key = x1 \/ Replacing)
  BY DEF Bridges!NotInvalidated, BridgesInv, BuildsFit, Builds
<1>3. DOMAIN x8' = Calls /\ x8' = [d \in Calls |-> x8'[d]] BY DEF Bridges!Publish
<1>4. ASSUME NEW d \in Calls
      PROVE  \/ x8'[d] \in {x8[d], Bridges!Idle}
             \/ x8'[d] \in BridgeCalls /\ x8'[d].at \notin Builds
  <2>1. CASE d = c \/ (x8[d].at = "wait" /\ x8[d].key = r.key)
    <3>1. x8[d] \in BridgeCalls BY <1>1, <2>1, BuilderTyped DEF BridgePlaces
    <3>2. x8'[d] = IF ok THEN [x8[d] EXCEPT !.at = "got"] ELSE Bridges!Idle
      BY <2>1 DEF Bridges!Publish
    <3> HIDE DEF ok
    <3> QED BY <3>1, <3>2 DEF BridgeCalls, BridgePlaces, Builds
  <2>2. CASE d # c /\ x8[d].at = "wait" /\ x8[d].key # r.key
    <3>1. x8[d] \in BridgeCalls BY <2>2, BuilderTyped DEF BridgePlaces
    <3>2. x8'[d] = [x8[d] EXCEPT !.at = "look"] BY <2>2 DEF Bridges!Publish
    <3> QED BY <3>1, <3>2 DEF BridgeCalls, BridgePlaces, Builds
  <2>3. CASE d # c /\ x8[d].at # "wait" BY <2>3 DEF Bridges!Publish
  <2> QED BY <2>1, <2>2, <2>3
<1> HIDE DEF ok
<1>5. x8' \in [Calls -> {Bridges!Idle} \cup BridgeCalls]
  BY <1>3, <1>4 DEF BridgesInv, BridgesTyped
<1>6. x6' \in Nat BY <1>1 DEF BridgesInv, BridgesTyped, BridgeCalls
<1>7. BridgesTyped' BY <1>1, <1>5, <1>6 DEF BridgesInv, BridgesTyped
<1>8. BuildsFit' BY <1>1, <1>4, NoBuilder DEF BridgesInv, BuildsFit, Replacing
<1>9. Bridges!BridgeFits' BY <1>1, <1>2 DEF BridgesInv, Bridges!BridgeFits, Replacing
<1> QED BY <1>7, <1>8, <1>9 DEF BridgesInv

-----------------------------------------------------------------------------
\* The bridge is dropped, and with it what is being built.
LEMMA InvalidateInv ==
    ASSUME BridgesInv, Bridges!Invalidate, x8' = x8, x1' \in Nat
    PROVE  BridgesInv'
<1>1. x5' = x5 + 1 /\ x6' = 0 BY DEF Bridges!Invalidate, Bridges!Invalidated
<1>2. BridgesTyped' BY <1>1 DEF BridgesInv, BridgesTyped
<1>3. BuildsFit'
  <2>1. x5 \in Nat BY DEF BridgesInv, BridgesTyped
  <2>2. ASSUME NEW c \in Calls, x8[c].at \in Builds
        PROVE  x8[c].gen \in Nat /\ x8[c].gen <= x5
    <3>1. x8[c] \in BridgeCalls BY <2>2, BuilderTyped DEF Builds, BridgePlaces
    <3> QED BY <2>2, <3>1 DEF BridgesInv, BuildsFit, BridgeCalls
  <2>3. \A c \in Calls : x8[c].at \in Builds =>
          x8[c].gen <= x5 + 1 /\ x8[c].gen # x5 + 1 /\ x8[c].gen < x5 + 1
    BY <2>1, <2>2
  <2> QED BY <1>1, <2>3 DEF BuildsFit
<1>4. Bridges!BridgeFits' BY <1>1 DEF Bridges!BridgeFits
<1> QED BY <1>2, <1>3, <1>4 DEF BridgesInv

\* A new secret is covered by the renewal or login that made it.
LEMMA ReplacedInv ==
    ASSUME BridgesInv, UNCHANGED <<x5, x6, x8, x9>>, x1' \in Nat, Replacing'
    PROVE  BridgesInv'
BY DEF BridgesInv, BridgesTyped, BuildsFit, Bridges!BridgeFits, Replacing

\* Nothing of the bridge and the secret changes.
LEMMA SameBridges ==
    ASSUME BridgesInv, UNCHANGED <<x1, x5, x6, x8>>,
           x9' \in {x9, "no"}, Replacing => Replacing'
    PROVE  BridgesInv'
BY DEF BridgesInv, BridgesTyped, BuildsFit, Bridges!BridgeFits, Replacing

LEMMA AdminsInv ==
    ASSUME BridgesInv,
           \/ Bridges!RenewBegins \/ (\E ok \in BOOLEAN : Bridges!Rotate(ok))
           \/ Bridges!RenewDrops
           \/ Bridges!LoginSecret \/ Bridges!LoginSaves \/ Bridges!LoginDrops
           \/ Bridges!Import \/ Bridges!RemoveHides \/ Bridges!RemoveSecret
           \/ Bridges!RemoveProfile
           \/ Bridges!RenameReads \/ Bridges!RenameSaves \/ Bridges!Activate,
           x2 \in Nat
    PROVE  BridgesInv'
<1>0. x1 \in Nat /\ x2 + 1 \in Nat BY DEF BridgesInv, BridgesTyped
<1>1. ASSUME Bridges!RenewBegins PROVE BridgesInv'
  <2>1. ~(x10.at = "drop") BY <1>1 DEF Bridges!RenewBegins, Bridges!No
  <2> QED BY <1>1, <2>1, SameBridges DEF Bridges!RenewBegins, Bridges!files,
    Bridges!bridge, Replacing
<1>2. ASSUME NEW ok \in BOOLEAN, Bridges!Rotate(ok) PROVE BridgesInv'
  <2>1. UNCHANGED <<x5, x6, x8, x9, x11>> /\ x10.at = "rotate"
    BY <1>2 DEF Bridges!Rotate, Bridges!bridge
  <2>2. CASE x1' = x2 + 1 /\ x10' = [at |-> "drop"]
    BY <1>0, <2>1, <2>2, ReplacedInv DEF Replacing
  <2>3. CASE x1' = x1
    BY <2>1, <2>3, SameBridges DEF Replacing
  <2> QED BY <1>2, <2>2, <2>3 DEF Bridges!Rotate
<1>3. ASSUME Bridges!RenewDrops \/ Bridges!LoginDrops \/ Bridges!Activate PROVE BridgesInv'
  BY <1>0, <1>3, InvalidateInv
     DEF Bridges!RenewDrops, Bridges!LoginDrops, Bridges!Activate, Bridges!files
<1>4. ASSUME Bridges!LoginSecret PROVE BridgesInv'
  <2>1. x11' # Bridges!No BY <1>4 DEF Bridges!LoginSecret, Bridges!No
  <2> QED BY <1>0, <1>4, <2>1, ReplacedInv DEF Bridges!LoginSecret, Bridges!bridge,
    Replacing
<1>5. ASSUME Bridges!LoginSaves PROVE BridgesInv'
  <2>1. x11' # Bridges!No BY <1>5 DEF Bridges!LoginSaves, Bridges!No
  <2> QED BY <1>0, <1>5, <2>1, ReplacedInv DEF Bridges!LoginSaves, Bridges!bridge, Replacing
<1>6. ASSUME Bridges!Import \/ Bridges!RemoveHides PROVE BridgesInv'
  BY <1>0, <1>6, InvalidateInv DEF Bridges!Import, Bridges!RemoveHides
<1>7. ASSUME Bridges!RemoveSecret PROVE BridgesInv'
  <2>1. /\ x9 = "hidden" /\ x9' = "secret" /\ x1' = 0 /\ UNCHANGED <<x5, x6, x8, x10, x11>>
    BY <1>7 DEF Bridges!RemoveSecret, Bridges!bridge
  <2>2. x6 = 0 /\ \A c \in Calls : x8[c].at \in Builds => x8[c].gen < x5 /\ x8[c].gen <= x5
    BY <2>1 DEF BridgesInv, BuildsFit
  <2>3. \A c \in Calls : x8[c].at \in Builds => x8[c].gen # x5
    <3> SUFFICES ASSUME NEW c \in Calls, x8[c].at \in Builds PROVE x8[c].gen # x5 OBVIOUS
    <3>1. x8[c] \in BridgeCalls BY BuilderTyped DEF Builds, BridgePlaces
    <3> QED BY <2>2, <3>1 DEF BridgeCalls, BridgesInv, BridgesTyped
  <2>4. BridgesTyped' BY <2>1 DEF BridgesInv, BridgesTyped
  <2>5. BuildsFit' BY <2>1, <2>2, <2>3 DEF BuildsFit
  <2>6. Bridges!BridgeFits' BY <2>1, <2>2 DEF Bridges!BridgeFits
  <2> QED BY <2>4, <2>5, <2>6 DEF BridgesInv
<1>8. ASSUME Bridges!RemoveProfile \/ Bridges!RenameReads \/ Bridges!RenameSaves
      PROVE  BridgesInv'
  BY <1>8, SameBridges DEF Bridges!RemoveProfile, Bridges!RenameReads,
     Bridges!RenameSaves,
                           Bridges!files, Bridges!bridge, Replacing
<1> QED BY <1>1, <1>2, <1>3, <1>4, <1>5, <1>6, <1>7, <1>8

LEMMA BridgesStep ==
    ASSUME BridgesInv, x2 \in Nat, [Bridges!Next]_(Bridges!vars)
    PROVE  BridgesInv' /\ x2' \in Nat
<1>1. x2' \in Nat
  <2>1. x2' \in {x2, x2 + 1}
    BY DEF Bridges!vars, Bridges!Next, Bridges!files, Bridges!Pick,
       Bridges!Build, Bridges!Look,
           Bridges!Reread, Bridges!Publish, Bridges!Use, Bridges!Done, Bridges!RenewBegins,
           Bridges!Rotate, Bridges!RenewDrops, Bridges!LoginSecret, Bridges!LoginSaves,
           Bridges!LoginDrops, Bridges!Import, Bridges!RemoveHides, Bridges!RemoveSecret,
           Bridges!RemoveProfile, Bridges!RenameReads, Bridges!RenameSaves, Bridges!Activate
  <2> QED BY <2>1
<1>2. CASE UNCHANGED Bridges!vars
  BY <1>2, SameBridges DEF Bridges!vars, Replacing
<1>3. ASSUME NEW c \in Calls,
             \/ \E b \in BOOLEAN : Bridges!Pick(c, b) \/ Bridges!Build(c, b)
             \/ Bridges!Look(c) \/ Bridges!Reread(c) \/ Bridges!Publish(c)
             \/ Bridges!Use(c) \/ Bridges!Done(c)
      PROVE  BridgesInv'
  BY <1>3, PickInv, BuildInv, LookBridgeInv, RereadInv, PublishInv, UseInv
<1> QED BY <1>1, <1>2, <1>3, AdminsInv DEF Bridges!Next

-----------------------------------------------------------------------------
\* Calls of Qoder.  MaxRetries is 1 here, and a call may try two accounts.

Hosts == Accounts \cup {Third}
ServePlaces == {"find", "bridge", "send", "stream", "done"}
Served ==
    [at : ServePlaces, on : Hosts, tried : SUBSET Hosts, sends : [Hosts -> Nat],
     opens : 0..1, tries : 0..1, emitted : BOOLEAN, direct : BOOLEAN,
     result : Qoder!Kinds \cup {"refused", "unavailable", "ok", "empty", NoAccount}]

\* How often an account can have been asked before the next send.
Before(r) == 2 * r.opens + r.tries

ServedFits(r) ==
    /\ r.emitted => r.at \in {"stream", "done"}
    /\ r.on \in r.tried /\ IsFiniteSet(r.tried) /\ Cardinality(r.tried) <= 2
    /\ \A a \in Hosts : r.sends[a] <= 4 /\ (r.sends[a] > 0 => a \in r.tried)
    /\ r.at \in {"bridge", "send"} => r.sends[r.on] <= Before(r)
    /\ r.at = "stream" => r.sends[r.on] <= Before(r) + 1

Callers == {CHOOSE c \in Calls : TRUE}

QoderInv ==
    /\ x2 \subseteq x3
    /\ x4 \in [Callers -> {Qoder!Idle} \cup Served]
    /\ \A q \in Callers : x4[q] # Qoder!Idle => ServedFits(x4[q])

ServedOn(r) == r = Qoder!Idle \/ (r \in Served /\ ServedFits(r))

LEMMA SameQoder == \A S : Qoder!Cardinality(S) = Cardinality(S)
BY DEF Qoder!Cardinality, Qoder!IsFiniteSet, Cardinality, IsFiniteSet

Anew(r, n) == [r EXCEPT !.opens = n, !.tries = 0]

LEMMA TriesAnew ==
    ASSUME NEW r \in Served, NEW n \in 0..1
    PROVE  LET s == Anew(r, n) IN
           /\ s \in Served /\ s.opens = n /\ s.tries = 0 /\ s.at = r.at /\ s.on = r.on
           /\ s.tried = r.tried /\ s.sends = r.sends /\ s.emitted = r.emitted
<1> DEFINE t == [r EXCEPT !.opens = n]
<1>1. /\ t \in Served /\ t.opens = n /\ t.at = r.at /\ t.on = r.on
      /\ t.tried = r.tried /\ t.sends = r.sends /\ t.emitted = r.emitted
  BY DEF Served
<1>2. Anew(r, n) = [t EXCEPT !.tries = 0] BY DEF Anew
<1> HIDE DEF t
<1>3. 0 \in 0..1 OBVIOUS
<1> QED BY <1>1, <1>2, <1>3 DEF Served

LEMMA QoderBegin == Qoder!Init => QoderInv
BY DEF Qoder!Init, QoderInv, Callers

LEMMA QoderAt ==
    ASSUME QoderInv, NEW q \in Callers, x4[q].at \in ServePlaces
    PROVE  x4[q] \in Served /\ ServedFits(x4[q])
<1>1. x4[q] # Qoder!Idle BY DEF Qoder!Idle, ServePlaces
<1> QED BY <1>1 DEF QoderInv

LEMMA OneServed ==
    ASSUME QoderInv, NEW q \in Callers, NEW r, Qoder!Set(q, r), ServedOn(r), x2' \subseteq x3'
    PROVE  QoderInv'
<1>1. \A p \in Callers : x4'[p] = IF p = q THEN r ELSE x4[p]
  BY DEF QoderInv, Qoder!Set
<1> QED BY <1>1 DEF QoderInv, Qoder!Set, ServedOn

LEMMA FinishGoes ==
    ASSUME NEW r \in Served, ServedFits(r),
           NEW result \in Qoder!Kinds \cup {"refused", "unavailable", "ok", "empty", NoAccount}
    PROVE  ServedOn(Qoder!Finish(r, result))
<1> DEFINE s == Qoder!Finish(r, result)
<1>1. /\ s \in Served /\ s.at = "done" /\ s.on = r.on /\ s.tried = r.tried
      /\ s.sends = r.sends
  BY DEF Qoder!Finish, Served, ServePlaces
<1> HIDE DEF s
<1>2. ServedOn(s) BY <1>1 DEF ServedOn, ServedFits
<1> QED BY <1>2 DEF s

LEMMA StartQoderInv ==
    ASSUME QoderInv, NEW q \in Callers, NEW a \in Hosts, Qoder!Start(q, a)
    PROVE  QoderInv'
<1> DEFINE r == [at |-> IF a \in x2 THEN "find" ELSE "bridge", on |-> a, tried |-> {a},
                 sends |-> [b \in Hosts |-> 0], opens |-> 0, tries |-> 0,
                 emitted |-> FALSE, direct |-> FALSE, result |-> NoAccount]
<1>1. Qoder!Set(q, r) /\ UNCHANGED <<x2, x3>> BY DEF Qoder!Start, Qoder!pool, Hosts
<1>2. IsFiniteSet({a}) /\ Cardinality({a}) = 1 BY FS_Singleton
<1>3. /\ r \in Served /\ r.emitted = FALSE /\ r.on = a /\ r.tried = {a}
      /\ r.opens = 0 /\ r.tries = 0 /\ r.at \in {"find", "bridge"}
      /\ \A b \in Hosts : r.sends[b] = 0
  BY DEF Served, ServePlaces
<1> HIDE DEF r
<1>4. ServedFits(r) BY <1>2, <1>3 DEF ServedFits, Before
<1>5. x2' \subseteq x3' BY <1>1 DEF QoderInv
<1> QED BY <1>1, <1>3, <1>4, <1>5, OneServed DEF ServedOn

\* An account that failed cools down.
LEMMA FailInv ==
    ASSUME QoderInv, NEW q \in Callers, NEW r \in Served, ServedFits(r),
           NEW kind \in Qoder!Kinds, Qoder!Fail(q, r, kind)
    PROVE  QoderInv'
<1> DEFINE s == [r EXCEPT !.at = "find", !.direct = TRUE, !.result = kind]
<1>1. x2' \subseteq x3'
  BY DEF Qoder!Fail, Qoder!CanFailover, QoderInv
<1>2. \/ ~r.emitted /\ Qoder!Set(q, s)
      \/ Qoder!Set(q, Qoder!Finish(r, kind))
  BY DEF Qoder!Fail
<1>3. /\ s \in Served /\ s.at = "find" /\ s.on = r.on /\ s.tried = r.tried
      /\ s.sends = r.sends /\ s.emitted = r.emitted
  BY DEF Served, ServePlaces
<1> HIDE DEF s
<1>4. ~r.emitted => ServedOn(s) BY <1>3 DEF ServedOn, ServedFits
<1> QED BY <1>1, <1>2, <1>4, FinishGoes, OneServed

LEMMA FindInv ==
    ASSUME QoderInv, NEW q \in Callers, NEW a \in Hosts,
           NEW outcome \in {"bridge", "none", "refused"}, Qoder!Find(q, a, outcome)
    PROVE  QoderInv'
<1> DEFINE r == x4[q]
           now == [r EXCEPT !.tried = @ \cup {a}]
           at == IF r.direct THEN "send" ELSE "bridge"
           s == [Qoder!Fresh(now, a) EXCEPT !.at = at]
<1>1. /\ r \in Served /\ ServedFits(r) /\ r.at = "find"
      /\ UNCHANGED <<x2, x3>> /\ x2' \subseteq x3'
      /\ a \notin r.tried /\ Cardinality(r.tried) < 2
  <2>1. r.at = "find" /\ UNCHANGED <<x2, x3>> /\ a \in Qoder!Candidates(r)
    BY DEF Qoder!Find, Qoder!pool
  <2>2. a \notin r.tried /\ Cardinality(r.tried) < 2
    BY <2>1, SameQoder DEF Qoder!Candidates
  <2> QED BY <2>1, <2>2, QoderAt DEF ServePlaces, QoderInv
<1>2. \/ Qoder!Set(q, s) \/ Qoder!Set(q, now) \/ Qoder!Set(q, Qoder!Finish(now, "refused"))
  BY DEF Qoder!Find
<1>3. /\ now \in Served /\ now.at = "find" /\ now.on = r.on /\ now.tried = r.tried \cup {a}
      /\ now.sends = r.sends /\ now.emitted = r.emitted
  BY <1>1 DEF Served, ServePlaces
<1>4. /\ IsFiniteSet(r.tried) /\ Cardinality(r.tried) \in Nat
      /\ IsFiniteSet(r.tried \cup {a})
      /\ Cardinality(r.tried \cup {a}) = Cardinality(r.tried) + 1
  BY <1>1, FS_CardinalityType, FS_AddElement DEF ServedFits
<1>5. ~r.emitted BY <1>1 DEF ServedFits
<1>6. Cardinality(r.tried \cup {a}) <= 2 BY <1>1, <1>4
<1>7. at \in {"send", "bridge"} OBVIOUS
<1> HIDE DEF at, now
<1>8. /\ s \in Served /\ s.at = at /\ s.on = a /\ s.tried = now.tried /\ s.sends = now.sends
      /\ s.emitted = now.emitted /\ s.opens = 0 /\ s.tries = 0
  <2> DEFINE f == Qoder!Fresh(now, a)
  <2>1. /\ f \in Served /\ f.on = a /\ f.tried = now.tried /\ f.sends = now.sends
        /\ f.emitted = now.emitted /\ f.opens = 0 /\ f.tries = 0
    <3> DEFINE t == [now EXCEPT !.on = a]
    <3>1. /\ t \in Served /\ t.on = a /\ t.tried = now.tried /\ t.sends = now.sends
          /\ t.emitted = now.emitted
      BY <1>3 DEF Served
    <3>2. f = Anew(t, 0) BY DEF Qoder!Fresh, Anew
    <3> HIDE DEF t, f
    <3>3. 0 \in 0..1 OBVIOUS
    <3> QED BY <3>1, <3>2, <3>3, TriesAnew
  <2> HIDE DEF f
  <2>2. LET g == [f EXCEPT !.at = at] IN
        /\ g \in Served /\ g.at = at /\ g.on = a /\ g.tried = f.tried /\ g.sends = f.sends
        /\ g.emitted = f.emitted /\ g.opens = 0 /\ g.tries = 0
    BY <2>1, <1>7 DEF Served, ServePlaces
  <2> QED BY <2>1, <2>2 DEF f
<1> HIDE DEF s, r
<1>9. ServedFits(now) BY <1>1, <1>3, <1>4, <1>5, <1>6 DEF ServedFits
<1>10. now.sends[a] = 0
  <2>1. now.sends[a] \in Nat BY <1>3 DEF Served
  <2> QED BY <1>1, <1>3, <2>1 DEF ServedFits
<1>11. ServedFits(s)
  BY <1>3, <1>4, <1>5, <1>6, <1>7, <1>8, <1>9, <1>10 DEF ServedFits, Before
<1> QED BY <1>1, <1>2, <1>3, <1>8, <1>9, <1>11, FinishGoes, OneServed DEF ServedOn

\* A send on an account that was asked as often as the retries before it allow.
LEMMA SentFits ==
    ASSUME NEW r \in Served, ServedFits(r), r.at = "send"
    PROVE  LET s == Qoder!Sent(r) IN
           /\ s \in Served /\ s.at = "send" /\ s.on = r.on /\ s.tried = r.tried
           /\ s.opens = r.opens /\ s.tries = r.tries /\ s.emitted = FALSE
           /\ s.sends[s.on] <= Before(r) + 1
           /\ \A a \in Hosts : s.sends[a] <= 4 /\ (s.sends[a] > 0 => a \in r.tried)
<1> DEFINE s == Qoder!Sent(r)
           n == r.sends[r.on]
<1>1. r.on \in Hosts /\ r.sends \in [Hosts -> Nat] /\ n \in Nat BY DEF Served
<1>2. s = [r EXCEPT !.sends = [r.sends EXCEPT ![r.on] = n + 1]] BY DEF Qoder!Sent, Served
<1>3. n <= Before(r) /\ Before(r) \in 0..3 /\ r.emitted = FALSE
  BY DEF ServedFits, Before, Served
<1> HIDE DEF n, s
<1>4. n + 1 \in Nat /\ n + 1 <= 4 /\ n + 1 <= Before(r) + 1 BY <1>1, <1>3
<1>5. /\ s \in Served /\ s.at = "send" /\ s.on = r.on /\ s.tried = r.tried
      /\ s.opens = r.opens /\ s.tries = r.tries /\ s.emitted = FALSE
      /\ s.sends = [r.sends EXCEPT ![r.on] = n + 1]
  BY <1>1, <1>2, <1>3, <1>4 DEF Served
<1>6. \A a \in Hosts : s.sends[a] = IF a = r.on THEN n + 1 ELSE r.sends[a]
  BY <1>1, <1>5
<1>7. \A a \in Hosts : s.sends[a] <= 4 /\ (s.sends[a] > 0 => a \in r.tried)
  BY <1>4, <1>6 DEF ServedFits
<1>8. s.sends[s.on] = n + 1 BY <1>1, <1>5, <1>6
<1> QED BY <1>4, <1>5, <1>7, <1>8 DEF s

LEMMA OpenQoderInv ==
    ASSUME QoderInv, NEW q \in Callers, Qoder!Open(q)
    PROVE  QoderInv'
<1> DEFINE r == x4[q]
           t == Qoder!Sent(r)
           s == [t EXCEPT !.at = "stream"]
<1>1. /\ r \in Served /\ ServedFits(r) /\ r.at = "send" /\ UNCHANGED <<x2, x3>>
      /\ Qoder!Set(q, s) /\ x2' \subseteq x3'
  BY QoderAt DEF Qoder!Open, Qoder!pool, ServePlaces, QoderInv
<1> HIDE DEF r
<1>2. /\ t \in Served /\ t.on = r.on /\ t.tried = r.tried
      /\ t.opens = r.opens /\ t.tries = r.tries /\ t.emitted = FALSE
      /\ t.sends[t.on] <= Before(r) + 1
      /\ \A a \in Hosts : t.sends[a] <= 4 /\ (t.sends[a] > 0 => a \in r.tried)
  BY <1>1, SentFits
<1> HIDE DEF t
<1>3. /\ s \in Served /\ s.at = "stream" /\ s.on = t.on /\ s.tried = t.tried
      /\ s.opens = t.opens /\ s.tries = t.tries /\ s.emitted = t.emitted /\ s.sends = t.sends
  BY <1>2 DEF Served, ServePlaces
<1> HIDE DEF s
<1>4. ServedFits(s) BY <1>1, <1>2, <1>3 DEF ServedFits, Before
<1> QED BY <1>1, <1>3, <1>4, OneServed DEF ServedOn

LEMMA OpenFailsInv ==
    ASSUME QoderInv, NEW q \in Callers, NEW kind \in Qoder!Kinds, Qoder!OpenFails(q, kind)
    PROVE  QoderInv'
<1> DEFINE r == x4[q]
           t == Qoder!Sent(r)
           s == [t EXCEPT !.tries = @ + 1]
<1>1. r \in Served /\ ServedFits(r) /\ r.at = "send"
  BY QoderAt DEF Qoder!OpenFails, ServePlaces
<1>2. \/ t.tries < 1 /\ Qoder!Set(q, s) /\ UNCHANGED <<x2, x3>>
      \/ Qoder!Fail(q, t, kind)
  BY DEF Qoder!OpenFails, Qoder!pool
<1> HIDE DEF r
<1>3. /\ t \in Served /\ t.at = "send" /\ t.on = r.on /\ t.tried = r.tried
      /\ t.opens = r.opens /\ t.tries = r.tries /\ t.emitted = FALSE
      /\ t.sends[t.on] <= Before(r) + 1
      /\ \A a \in Hosts : t.sends[a] <= 4 /\ (t.sends[a] > 0 => a \in r.tried)
  BY <1>1, SentFits
<1> HIDE DEF t
<1>4. CASE t.tries < 1 /\ Qoder!Set(q, s) /\ UNCHANGED <<x2, x3>>
  <2>1. t.tries = 0 BY <1>3, <1>4 DEF Served
  <2>2. /\ s \in Served /\ s.at = t.at /\ s.on = t.on /\ s.tried = t.tried
        /\ s.opens = t.opens /\ s.tries = 1 /\ s.emitted = t.emitted /\ s.sends = t.sends
    BY <1>3, <2>1 DEF Served
  <2>3. s.sends[s.on] <= Before(s) BY <1>3, <2>1, <2>2 DEF Before, Served
  <2> HIDE DEF s
  <2>4. ServedFits(s) BY <1>1, <1>3, <2>2, <2>3 DEF ServedFits
  <2>5. x2' \subseteq x3' BY <1>4 DEF QoderInv
  <2> QED BY <1>4, <2>2, <2>4, <2>5, OneServed DEF ServedOn
\* What is sent for a failure is looked at only as a call that looks further.
<1>5. CASE Qoder!Fail(q, t, kind)
  <2> DEFINE u == [t EXCEPT !.at = "find", !.direct = TRUE, !.result = kind]
             f == Qoder!Finish(t, kind)
  <2>1. x2' \subseteq x3' BY <1>5 DEF Qoder!Fail, Qoder!CanFailover, QoderInv
  <2>2. Qoder!Set(q, u) \/ Qoder!Set(q, f) BY <1>5 DEF Qoder!Fail
  <2>3. /\ u \in Served /\ u.at = "find" /\ u.on = t.on /\ u.tried = t.tried
        /\ u.sends = t.sends /\ u.emitted = t.emitted
    BY <1>3 DEF Served, ServePlaces
  <2>4. /\ f \in Served /\ f.at = "done" /\ f.on = t.on /\ f.tried = t.tried
        /\ f.sends = t.sends /\ f.emitted = t.emitted
    BY <1>3 DEF Served, ServePlaces, Qoder!Finish
  <2> HIDE DEF u, f
  <2>5. ServedOn(u) BY <1>1, <1>3, <2>3 DEF ServedOn, ServedFits
  <2>6. ServedOn(f) BY <1>1, <1>3, <2>4 DEF ServedOn, ServedFits
  <2> QED BY <2>1, <2>2, <2>5, <2>6, OneServed
<1> QED BY <1>2, <1>4, <1>5

LEMMA StreamQoderInv ==
    ASSUME QoderInv, NEW q \in Callers, NEW kind \in Qoder!Kinds,
           \/ Qoder!Delta(q) \/ Qoder!StreamFails(q, kind) \/ Qoder!StreamEnds(q)
    PROVE  QoderInv'
<1> DEFINE r == x4[q]
<1>1. r \in Served /\ ServedFits(r) /\ r.at = "stream"
  BY QoderAt DEF Qoder!Delta, Qoder!StreamFails, Qoder!StreamEnds, ServePlaces
<1>2. CASE Qoder!Delta(q)
  <2> DEFINE s == [r EXCEPT !.emitted = TRUE]
  <2>1. Qoder!Set(q, s) /\ UNCHANGED <<x2, x3>> BY <1>2 DEF Qoder!Delta, Qoder!pool
  <2>2. /\ s \in Served /\ s.at = "stream" /\ s.on = r.on /\ s.tried = r.tried
        /\ s.opens = r.opens /\ s.tries = r.tries /\ s.sends = r.sends
    BY <1>1 DEF Served
  <2> HIDE DEF s
  <2>3. ServedFits(s) BY <1>1, <2>2 DEF ServedFits, Before
  <2>4. x2' \subseteq x3' BY <2>1 DEF QoderInv
  <2> QED BY <2>1, <2>2, <2>3, <2>4, OneServed DEF ServedOn
<1>3. CASE Qoder!StreamFails(q, kind)
  <2> DEFINE n == r.opens + 1
             s == [r EXCEPT !.at = "send", !.opens = n, !.tries = 0]
  <2>1. \/ ~r.emitted /\ r.opens < 1 /\ Qoder!Set(q, s) /\ UNCHANGED <<x2, x3>>
        \/ Qoder!Fail(q, r, kind)
    BY <1>1, <1>3 DEF Qoder!StreamFails, Qoder!Reopens, Qoder!pool, Served
  <2>2. CASE ~r.emitted /\ r.opens < 1 /\ Qoder!Set(q, s) /\ UNCHANGED <<x2, x3>>
    <3>1. r.opens = 0 /\ n = 1 BY <1>1, <2>2 DEF Served
    <3> HIDE DEF n
    <3>2. /\ s \in Served /\ s.at = "send" /\ s.on = r.on /\ s.tried = r.tried
          /\ s.opens = 1 /\ s.tries = 0 /\ s.sends = r.sends /\ s.emitted = r.emitted
      <4> DEFINE t == [r EXCEPT !.at = "send"]
      <4>1. /\ t \in Served /\ t.at = "send" /\ t.on = r.on /\ t.tried = r.tried
            /\ t.sends = r.sends /\ t.emitted = r.emitted
        BY <1>1 DEF Served, ServePlaces
      <4>2. s = Anew(t, n) BY DEF Anew
      <4> HIDE DEF t, s
      <4>3. n \in 0..1 BY <3>1
      <4> QED BY <3>1, <4>1, <4>2, <4>3, TriesAnew
    <3>3. r.sends[r.on] <= 2
      <4>1. r.sends[r.on] <= r.tries + 1 /\ r.tries \in 0..1 /\ r.sends[r.on] \in Nat
        BY <1>1, <3>1 DEF ServedFits, Before, Served
      <4> QED BY <4>1
    <3> HIDE DEF s
    <3>4. ServedFits(s) BY <1>1, <2>2, <3>2, <3>3 DEF ServedFits, Before
    <3>5. x2' \subseteq x3' BY <2>2 DEF QoderInv
    <3> QED BY <2>2, <3>2, <3>4, <3>5, OneServed DEF ServedOn
  <2> QED BY <1>1, <2>1, <2>2, FailInv
<1>4. CASE Qoder!StreamEnds(q)
  <2>1. PICK result \in {"ok", "empty"} : Qoder!Set(q, Qoder!Finish(r, result))
    BY <1>4 DEF Qoder!StreamEnds
  <2>2. x2' \subseteq x3' BY <1>4 DEF Qoder!StreamEnds, Qoder!pool, QoderInv
  <2> QED BY <1>1, <2>1, <2>2, FinishGoes, OneServed
<1> QED BY <1>2, <1>3, <1>4

LEMMA OtherQoderInv ==
    ASSUME QoderInv, NEW q \in Callers, NEW kind \in Qoder!Kinds,
           \/ Qoder!NoCandidate(q) \/ Qoder!Bridge(q) \/ Qoder!BridgeFails(q, kind)
           \/ Qoder!Leave(q)
    PROVE  QoderInv'
<1> DEFINE r == x4[q]
<1>1. CASE Qoder!NoCandidate(q)
  <2>1. r \in Served /\ ServedFits(r) /\ x2' \subseteq x3'
    BY <1>1, QoderAt DEF Qoder!NoCandidate, ServePlaces, Qoder!pool, QoderInv
  <2>2. PICK result \in {"unavailable", r.result} : Qoder!Set(q, Qoder!Finish(r, result))
    BY <1>1 DEF Qoder!NoCandidate
  <2>3. r.result \in Qoder!Kinds \cup {"refused", "unavailable", "ok", "empty", NoAccount}
    BY <2>1 DEF Served
  <2> QED BY <2>1, <2>2, <2>3, FinishGoes, OneServed
<1>2. CASE Qoder!Bridge(q)
  <2> DEFINE s == [r EXCEPT !.at = "send"]
  <2>1. r \in Served /\ ServedFits(r) /\ r.at = "bridge" /\ x2' \subseteq x3'
    BY <1>2, QoderAt DEF Qoder!Bridge, ServePlaces, Qoder!pool, QoderInv
  <2>2. Qoder!Set(q, s) \/ Qoder!Set(q, Qoder!Finish(r, "refused"))
    BY <1>2 DEF Qoder!Bridge
  <2>3. /\ s \in Served /\ s.at = "send" /\ s.on = r.on /\ s.tried = r.tried
        /\ s.opens = r.opens /\ s.tries = r.tries /\ s.sends = r.sends /\ s.emitted = r.emitted
    BY <2>1 DEF Served, ServePlaces
  <2> HIDE DEF s
  <2>4. ServedFits(s) BY <2>1, <2>3 DEF ServedFits, Before
  <2> QED BY <2>1, <2>2, <2>3, <2>4, FinishGoes, OneServed DEF ServedOn
<1>3. CASE Qoder!BridgeFails(q, kind)
  BY <1>3, QoderAt, FailInv DEF Qoder!BridgeFails, ServePlaces
<1>4. CASE Qoder!Leave(q)
  <2>1. Qoder!Set(q, Qoder!Idle) /\ x2' \subseteq x3'
    BY <1>4 DEF Qoder!Leave, Qoder!pool, QoderInv
  <2> QED BY <2>1, OneServed DEF ServedOn
<1> QED BY <1>1, <1>2, <1>3, <1>4

LEMMA QoderStep ==
    ASSUME QoderInv, [Qoder!Next]_(Qoder!vars)
    PROVE  QoderInv'
<1>1. CASE UNCHANGED Qoder!vars BY <1>1 DEF Qoder!vars, QoderInv
<1>2. ASSUME NEW q \in Callers, NEW a \in Hosts, Qoder!Start(q, a) PROVE QoderInv'
  BY <1>2, StartQoderInv
<1>3. ASSUME NEW q \in Callers, NEW a \in Hosts, NEW outcome \in {"bridge", "none", "refused"},
             Qoder!Find(q, a, outcome)
      PROVE  QoderInv'
  BY <1>3, FindInv
<1>4. ASSUME NEW q \in Callers,
             \/ Qoder!NoCandidate(q) \/ Qoder!Bridge(q) \/ Qoder!Open(q) \/ Qoder!Delta(q)
             \/ Qoder!StreamEnds(q) \/ Qoder!Leave(q)
      PROVE  QoderInv'
  <2>1. "dns" \in Qoder!Kinds BY DEF Qoder!Kinds
  <2> QED BY <1>4, <2>1, OtherQoderInv, StreamQoderInv, OpenQoderInv
<1>5. ASSUME NEW q \in Callers, NEW kind \in Qoder!Kinds,
             \/ Qoder!BridgeFails(q, kind) \/ Qoder!OpenFails(q, kind)
             \/ Qoder!StreamFails(q, kind)
      PROVE  QoderInv'
  BY <1>5, OtherQoderInv, StreamQoderInv, OpenFailsInv
<1>6. ASSUME NEW a \in Hosts, Qoder!CoolingEnds(a) \/ Qoder!Change(a) PROVE QoderInv'
  BY <1>6 DEF Qoder!CoolingEnds, Qoder!Change, QoderInv
<1> QED BY <1>1, <1>2, <1>3, <1>4, <1>5, <1>6 DEF Qoder!Next, Callers, Hosts

LEMMA QoderFits == QoderInv => Qoder!CallsFit
<1> SUFFICES ASSUME QoderInv PROVE Qoder!CallsFit OBVIOUS
<1>1. ASSUME NEW q \in Callers, x4[q] # Qoder!Idle
      PROVE  /\ x4[q].emitted => x4[q].at \in {"stream", "done"}
             /\ Cardinality(x4[q].tried) <= 2
             /\ \A a \in Hosts : x4[q].sends[a] <= 4
             /\ \A a \in Hosts : x4[q].sends[a] > 0 => a \in x4[q].tried
  BY <1>1 DEF QoderInv, ServedFits
<1>2. (1 + 1) * (1 + 1) = 4 OBVIOUS
<1>3. x2 \subseteq x3 BY DEF QoderInv
<1> QED BY <1>1, <1>2, <1>3, SameQoder DEF Qoder!CallsFit, Callers, Hosts

\* In the Qoder channel, the cached bridge is of the account's present secret
\* but while that is being replaced (bridgeFor, invalidateBridge), and a call asks
\* an account a bounded number of times, and nobody after its first delta
\* (openStreamLines, nextAccountBridge).
THEOREM BridgesHold == MCSpec => []BridgesFit
<1> DEFINE Safe == /\ part = "bridges" => BridgesInv /\ x2 \in Nat
                   /\ part = "qoder" => QoderInv
<1>1. MCInit => Safe
  <2>1. Bridges!Init => x2 \in Nat BY DEF Bridges!Init
  <2> QED BY <2>1, BridgesBegin, QoderBegin DEF MCInit
<1>2. Safe /\ ChannelsStep => Safe' BY PartSteps, BridgesStep, QoderStep
<1>3. Safe => BridgesFit BY QoderFits DEF BridgesFit, BridgesInv
<1> QED BY <1>1, <1>2, <1>3, PTL DEF MCSpec, ChannelsStep

-----------------------------------------------------------------------------
\* The check-in of Trae.

AtRest == {"idle", "wait"}
Looking == {"ask", "mark", "claim", "reread"}
Keeping == {"record", "note"}
DayResults == {"error", "already", "pending", "ok", "no_campaign"}
Batches ==
    [at : Looking \cup {"judge"} \cup Keeping, today : 1..2, of : Nat, status : DayResults,
     counts : BOOLEAN]

DailyTyped ==
    /\ x1 \in 1..2 /\ x2 \in Nat /\ x3 \in Nat
    /\ x5 \in 0..x1
    /\ x8 \in [1..2 -> 0..1]
    /\ x11 \in [Calls -> [at : AtRest] \cup Batches]

\* One batch at a time is past its wait, and it is of no later day than today
\* and of no earlier one than the marker.
OneBatch ==
    \A b \in Calls : x11[b].at \notin AtRest =>
        /\ x11[b] \in Batches /\ x10 = b
        /\ x5 <= x11[b].today /\ x11[b].today <= x1

\* An accepted claim leaves its marker, or no batch of that day comes any more.
ClaimsMarked ==
    /\ \A d \in 1..2 : x8[d] > 0 /\ x5 # d =>
        d < x1 /\ \A b \in Calls : x11[b].at \notin AtRest => d < x11[b].today
    /\ \A b \in Calls : x11[b].at \notin AtRest =>
        /\ x11[b].counts /\ x11[b].at = "claim" => x5 = x11[b].today /\ x8[x11[b].today] = 0
        /\ ~x11[b].counts => \A d \in 1..2 : x8[d] = 0

Confirmed(d) == d \in x9 \/ d + 1 \in x9

\* What is about to be recorded was confirmed.
RecordsConfirmed ==
    /\ \A b \in Calls :
        (x11[b].at = "judge" /\ x11[b].status \in {"ok", "already"}) \/ x11[b].at \in Keeping =>
            Confirmed(x11[b].today)
    /\ \A d \in x6 : Confirmed(d)

DailyInv == DailyTyped /\ OneBatch /\ ClaimsMarked /\ RecordsConfirmed

LEMMA DailyBegin == Daily!Init => DailyInv
<1> SUFFICES ASSUME Daily!Init PROVE DailyInv OBVIOUS
<1>1. \A b \in Calls : x11[b] = [at |-> "idle"] BY DEF Daily!Init, Daily!Idle
<1>2. DailyTyped BY DEF Daily!Init, Daily!Idle, DailyTyped, Daily!Days, AtRest
<1>3. OneBatch BY <1>1 DEF OneBatch, AtRest
<1>4. ClaimsMarked BY <1>1 DEF ClaimsMarked, AtRest, Daily!Init, Daily!Days
<1>5. RecordsConfirmed BY <1>1 DEF RecordsConfirmed, Daily!Init, Keeping
<1> QED BY <1>2, <1>3, <1>4, <1>5 DEF DailyInv

LEMMA InvClaimedOnce == DailyInv => Daily!ClaimedOnce
BY DEF DailyInv, DailyTyped, RecordsConfirmed, Confirmed, Daily!ClaimedOnce, Daily!Days

\* The batch of a step past its wait.
LEMMA BatchAt ==
    ASSUME DailyInv, NEW b \in Calls, x11[b].at \notin AtRest
    PROVE  /\ x11[b] \in Batches /\ x10 = b /\ x11[b].today \in 1..2
           /\ x5 <= x11[b].today /\ x11[b].today <= x1
           /\ \A c \in Calls : x11[c].at \notin AtRest => c = b
BY DEF DailyInv, OneBatch, Batches

\* A batch that goes on, and leaves the account alone.
LEMMA BatchGoesOn ==
    ASSUME DailyInv, NEW b \in Calls, x11[b].at \notin AtRest, NEW r \in Batches,
           Daily!Set(b, r), UNCHANGED <<x1, x2, x3, x5, x8, x9, x10>>,
           r.today = x11[b].today, r.counts = x11[b].counts,
           r.at = "claim" => x11[b].at = "claim",
           (r.at = "judge" /\ r.status \in {"ok", "already"}) \/ r.at \in Keeping =>
                Confirmed(r.today),
           \A d \in x6' : Confirmed(d)
    PROVE  DailyInv'
<1>1. \A c \in Calls : x11'[c] = IF c = b THEN r ELSE x11[c]
  BY DEF DailyInv, DailyTyped, Daily!Set
<1>2. r.at \notin AtRest BY DEF Batches, AtRest, Looking, Keeping
<1>3. DailyTyped' BY DEF DailyInv, DailyTyped, Daily!Set
<1>4. OneBatch' BY <1>1, <1>2, BatchAt DEF DailyInv, OneBatch
<1>5. ClaimsMarked' BY <1>1, <1>2 DEF DailyInv, ClaimsMarked
<1>6. RecordsConfirmed' BY <1>1 DEF DailyInv, RecordsConfirmed, Confirmed
<1> QED BY <1>3, <1>4, <1>5, <1>6 DEF DailyInv

\* A batch that is over, or only waits.
LEMMA BatchRests ==
    ASSUME DailyInv, NEW b \in Calls, NEW r \in [at : AtRest], Daily!Set(b, r),
           UNCHANGED <<x1, x2, x3, x5, x8, x9>>, x10' = x10 \/ x10 = b, x6' = x6
    PROVE  DailyInv'
<1>1. \A c \in Calls : x11'[c] = IF c = b THEN r ELSE x11[c]
  BY DEF DailyInv, DailyTyped, Daily!Set
<1>2. r.at \in AtRest /\ r.at # "judge" /\ r.at \notin Keeping /\ r.at # "claim"
  BY DEF AtRest, Keeping
<1>3. DailyTyped' BY DEF DailyInv, DailyTyped, Daily!Set
<1>4. OneBatch' BY <1>1, <1>2 DEF DailyInv, OneBatch
<1>5. ClaimsMarked' BY <1>1, <1>2 DEF DailyInv, ClaimsMarked
<1>6. RecordsConfirmed' BY <1>1, <1>2 DEF DailyInv, RecordsConfirmed, Confirmed
<1> QED BY <1>3, <1>4, <1>5, <1>6 DEF DailyInv

LEMMA LeaveRests ==
    ASSUME DailyInv, NEW b \in Calls, Daily!Leave(b),
           UNCHANGED <<x1, x2, x3, x5, x8, x9>>, x6' = x6
    PROVE  DailyInv'
<1>1. Daily!Idle \in [at : AtRest] BY DEF Daily!Idle, AtRest
<1>2. x10' = x10 \/ x10 = b BY DEF Daily!Leave
<1> QED BY <1>1, <1>2, BatchRests DEF Daily!Leave

\* A day that the upstream confirms is the batch's or the next.
LEMMA ConfirmsDay ==
    ASSUME NEW t \in 1..2, x1 \in 1..2, t <= x1, x1 \in x9
    PROVE  Confirmed(t)
<1>1. x1 = t \/ x1 = t + 1 OBVIOUS
<1> QED BY <1>1 DEF Confirmed

LEMMA AcquireInv ==
    ASSUME NoAccount \notin Calls, DailyInv, NEW b \in Calls, Daily!Acquire(b)
    PROVE  DailyInv'
<1> USE DEF Daily!Acquire, Daily!world
<1>1. CASE x2 = 0 \/ x4 = x1 BY <1>1, LeaveRests
<1>2. CASE ~(x2 = 0 \/ x4 = x1)
  <2> DEFINE r == [at |-> "ask", today |-> x1, of |-> x2, status |-> "error", counts |-> TRUE]
  <2>1. r \in Batches /\ r.at = "ask" /\ r.today = x1 /\ r.counts
    BY DEF DailyInv, DailyTyped, Batches, Looking, DayResults
  <2>2. Daily!Set(b, r) /\ x10' = b BY <1>2
  <2> HIDE DEF r
  <2>3. \A c \in Calls : x11'[c] = IF c = b THEN r ELSE x11[c]
    BY <2>2 DEF DailyInv, DailyTyped, Daily!Set
  <2>4. \A c \in Calls : x11[c].at \in AtRest
    BY DEF DailyInv, OneBatch, AtRest
  <2>5. r.at \notin AtRest /\ r.at # "claim" /\ r.at # "judge" /\ r.at \notin Keeping
    BY <2>1 DEF AtRest, Keeping
  <2>6. DailyTyped' BY <2>1, <2>2 DEF DailyInv, DailyTyped, Daily!Set
  <2>7. OneBatch' BY <2>1, <2>2, <2>3, <2>4 DEF DailyInv, DailyTyped, OneBatch
  <2>8. ClaimsMarked'
    <3>1. \A d \in 1..2 : x8[d] > 0 /\ x5 # d => d < x1 BY DEF DailyInv, ClaimsMarked
    <3> QED BY <2>1, <2>3, <2>4, <2>5, <3>1 DEF ClaimsMarked
  <2>9. RecordsConfirmed' BY <2>3, <2>5 DEF DailyInv, RecordsConfirmed, Confirmed
  <2> QED BY <2>6, <2>7, <2>8, <2>9 DEF DailyInv
<1> QED BY <1>1, <1>2

LEMMA AskInv ==
    ASSUME DailyInv, NEW b \in Calls, NEW answer \in {"failed", "no campaign", "status"}, Daily!Ask(b, answer)
    PROVE  DailyInv'
<1> DEFINE s == x11[b]
<1>1. s.at = "ask" /\ s.at \notin AtRest BY DEF Daily!Ask, AtRest
<1>2. /\ s \in Batches /\ s.today \in 1..2 /\ s.today <= x1 /\ x1 \in 1..2
  BY <1>1, BatchAt DEF DailyInv, DailyTyped
<1>3. PICK r : /\ Daily!Set(b, r)
               /\ \/ r = [s EXCEPT !.at = "mark"]
                  \/ r = [s EXCEPT !.at = "judge", !.status = "error"]
                  \/ r = [s EXCEPT !.at = "judge", !.status = "no_campaign"]
                  \/ r = [s EXCEPT !.at = "judge", !.status = "already"] /\ x1 \in x9
  BY DEF Daily!Ask, Daily!Result, Daily!To
<1> HIDE DEF s
<1>4. /\ r \in Batches /\ r.today = s.today /\ r.counts = s.counts /\ r.at \in {"mark", "judge"}
      /\ r.at = "judge" => r.status \in {"error", "no_campaign"} \/ x1 \in x9
  BY <1>2, <1>3 DEF Batches, Looking, DayResults
<1>5. r.at # "claim" /\ r.at \notin Keeping BY <1>4 DEF Keeping
<1>6. x1 \in x9 => Confirmed(s.today) BY <1>2, ConfirmsDay
<1>7. \A d \in x6 : Confirmed(d) BY DEF DailyInv, RecordsConfirmed
<1>8. UNCHANGED <<x1, x2, x3, x5, x6, x8, x9, x10>> BY DEF Daily!Ask, Daily!world
<1> QED BY <1>1, <1>3, <1>4, <1>5, <1>6, <1>7, <1>8, BatchGoesOn DEF s

LEMMA MarkInv ==
    ASSUME DailyInv, NEW b \in Calls, NEW ok \in BOOLEAN, Daily!Mark(b, ok)
    PROVE  DailyInv'
<1> DEFINE s == x11[b]
<1>1. s.at = "mark" /\ s.at \notin AtRest BY DEF Daily!Mark, AtRest
<1>2. /\ s \in Batches /\ s.today \in 1..2 /\ x5 <= s.today /\ s.today <= x1
      /\ x10 = b /\ \A c \in Calls : x11[c].at \notin AtRest => c = b
  BY <1>1, BatchAt
<1>3. \A d \in x6 : Confirmed(d) BY DEF DailyInv, RecordsConfirmed
<1>4. UNCHANGED <<x1, x2, x3, x6, x8, x9, x10>> BY DEF Daily!Mark
<1>5. CASE ~ok \/ x5 = s.today
  <2>1. PICK r : /\ Daily!Set(b, r) /\ x5' = x5
                 /\ \/ r = [s EXCEPT !.at = "judge", !.status = "error"]
                    \/ r = [s EXCEPT !.at = "judge", !.status = "pending"]
    BY <1>5 DEF Daily!Mark, Daily!Result
  <2> HIDE DEF s
  <2>2. /\ r \in Batches /\ r.today = s.today /\ r.counts = s.counts /\ r.at = "judge"
        /\ r.status \in {"error", "pending"}
    BY <1>2, <2>1 DEF Batches, Looking, DayResults
  <2>3. r.at # "claim" /\ r.at \notin Keeping BY <2>2 DEF Keeping
  <2> QED BY <1>1, <1>3, <1>4, <2>1, <2>2, <2>3, BatchGoesOn DEF s
<1>6. CASE ok /\ x5 # s.today
  <2> DEFINE r == [s EXCEPT !.at = "claim"]
  <2>1. Daily!Set(b, r) /\ x5' = s.today
    BY <1>6 DEF Daily!Mark, Daily!To, Daily!Marks
  <2> HIDE DEF s
  <2>2. r \in Batches /\ r.today = s.today /\ r.counts = s.counts /\ r.at = "claim"
    BY <1>2 DEF Batches, Looking
  <2> HIDE DEF r
  <2>3. r.at \notin AtRest /\ r.at \notin Keeping /\ r.at # "judge" BY <2>2 DEF AtRest, Keeping
  <2>4. \A c \in Calls : x11'[c] = IF c = b THEN r ELSE x11[c]
    BY <2>1 DEF DailyInv, DailyTyped, Daily!Set
  <2>5. DailyTyped' BY <1>2, <1>4, <2>1, <2>2 DEF DailyInv, DailyTyped, Daily!Set
  <2>6. OneBatch' BY <1>2, <1>4, <2>1, <2>2, <2>4 DEF DailyInv, DailyTyped, OneBatch
  <2>7. x8[s.today] = 0
    BY <1>1, <1>2, <1>6 DEF DailyInv, DailyTyped, ClaimsMarked, s
  <2>8. \A d \in 1..2 : x8[d] > 0 => d < s.today
    BY <1>1, <1>2, <1>6, <2>7 DEF DailyInv, DailyTyped, ClaimsMarked, s
  <2>9. ~s.counts => \A d \in 1..2 : x8[d] = 0
    BY <1>1 DEF DailyInv, ClaimsMarked, s
  <2>10. ClaimsMarked'
    BY <1>2, <1>4, <2>1, <2>2, <2>3, <2>4, <2>7, <2>8, <2>9 DEF DailyInv, DailyTyped,
       ClaimsMarked, s
  <2>11. RecordsConfirmed' BY <1>3, <1>4, <2>3, <2>4 DEF DailyInv, RecordsConfirmed, Confirmed
  <2> QED BY <2>5, <2>6, <2>10, <2>11 DEF DailyInv
<1> QED BY <1>5, <1>6

LEMMA ClaimDayInv ==
    ASSUME DailyInv, NEW b \in Calls, NEW outcome \in {"accepted", "refused", "lost"},
           NEW accepted \in BOOLEAN, NEW cleared \in BOOLEAN,
           Daily!Claim(b, outcome, accepted, cleared)
    PROVE  DailyInv'
<1> DEFINE s == x11[b]
           t == s.today
           n == IF accepted /\ s.counts THEN 1 ELSE 0
<1>1. s.at = "claim" /\ s.at \notin AtRest BY DEF Daily!Claim, AtRest
<1>2. /\ s \in Batches /\ t \in 1..2 /\ x5 <= t /\ t <= x1
      /\ x10 = b /\ \A c \in Calls : x11[c].at \notin AtRest => c = b
  BY <1>1, BatchAt
<1>3. UNCHANGED <<x1, x2, x3, x6, x9, x10>> BY DEF Daily!Claim
<1>4. x8' = [x8 EXCEPT ![t] = @ + n] BY DEF Daily!Claim
<1>5. /\ x5' \in {0, x5}
      /\ accepted => x5' = x5
  BY DEF Daily!Claim, Daily!Clears
<1>6. PICK r : /\ Daily!Set(b, r)
               /\ \/ r = [s EXCEPT !.at = "reread"]
                  \/ r = [s EXCEPT !.at = "judge", !.status = "error"]
                  \/ r = [s EXCEPT !.at = "judge", !.status = "pending"]
  BY DEF Daily!Claim, Daily!Result, Daily!To
<1>7. /\ s.counts => x5 = t /\ x8[t] = 0
      /\ ~s.counts => \A d \in 1..2 : x8[d] = 0
  BY <1>1 DEF DailyInv, ClaimsMarked
<1>8. s.counts \in BOOLEAN BY <1>2 DEF Batches
<1> HIDE DEF s
<1>9. /\ r \in Batches /\ r.today = t /\ r.counts = s.counts /\ r.at \in {"reread", "judge"}
      /\ r.at = "judge" => r.status \in {"error", "pending"}
  BY <1>2, <1>6 DEF Batches, Looking, DayResults
<1>10. r.at \notin AtRest /\ r.at \notin Keeping /\ r.at # "claim" BY <1>9 DEF AtRest, Keeping
<1> HIDE DEF t
<1>11. \A c \in Calls : x11'[c] = IF c = b THEN r ELSE x11[c]
  BY <1>6 DEF DailyInv, DailyTyped, Daily!Set
<1>12. \A d \in 1..2 : x8'[d] = IF d = t THEN x8[d] + n ELSE x8[d]
  BY <1>2, <1>4 DEF DailyInv, DailyTyped
<1>13. /\ n = 1 => accepted /\ s.counts
       /\ n \in 0..1
       /\ accepted /\ s.counts => n = 1
  OBVIOUS
<1> HIDE DEF n
<1>14. \A d \in 1..2 : x8'[d] \in 0..1
  BY <1>7, <1>8, <1>12, <1>13 DEF DailyInv, DailyTyped
<1>15. DailyTyped'
  <2>1. x8' \in [1..2 -> 0..1] BY <1>4, <1>14 DEF DailyInv, DailyTyped
  <2> QED BY <1>2, <1>3, <1>5, <1>6, <1>9, <2>1 DEF DailyInv, DailyTyped, Daily!Set
<1>16. OneBatch' BY <1>2, <1>3, <1>5, <1>9, <1>11 DEF DailyInv, DailyTyped, OneBatch, t
<1>17. ClaimsMarked'
  <2>1. ASSUME NEW d \in 1..2, x8'[d] > 0, x5' # d PROVE d < x1 /\ d < t
    <3>0. x8[d] \in 0..1 BY DEF DailyInv, DailyTyped
    <3>1. \/ x8[d] > 0 /\ n = 0
          \/ n = 1 /\ d = t
          \/ n = 1 /\ d # t /\ x8[d] > 0
      BY <1>12, <1>13, <2>1, <3>0
    <3>2. CASE n = 1
      <4>1. x5 = t /\ x5' = t BY <1>5, <1>7, <1>13, <3>2
      <4>2. d # t /\ x8[d] > 0 /\ x5 # d BY <2>1, <3>1, <3>2, <4>1
      <4> QED BY <1>1, <1>2, <4>2 DEF DailyInv, ClaimsMarked, s, t
    <3>3. CASE n = 0
      <4>1. x8[d] > 0 BY <3>1, <3>3
      <4>2. s.counts /\ x5 = t /\ x8[t] = 0 BY <1>7, <1>8, <4>1
      <4>3. x5 # d BY <4>1, <4>2
      <4> QED BY <1>1, <1>2, <4>1, <4>3 DEF DailyInv, ClaimsMarked, s, t
    <3> QED BY <1>13, <3>2, <3>3
  <2>2. ~s.counts => \A d \in 1..2 : x8'[d] = 0
    BY <1>7, <1>12, <1>13, <1>2 DEF DailyInv, DailyTyped
  <2> QED BY <1>2, <1>3, <1>9, <1>10, <1>11, <2>1, <2>2 DEF ClaimsMarked
<1>18. RecordsConfirmed'
  BY <1>3, <1>9, <1>10, <1>11 DEF DailyInv, RecordsConfirmed, Confirmed
<1> QED BY <1>15, <1>16, <1>17, <1>18 DEF DailyInv

LEMMA RereadDayInv ==
    ASSUME DailyInv, NEW b \in Calls, NEW ok \in BOOLEAN, Daily!Reread(b, ok)
    PROVE  DailyInv'
<1> DEFINE s == x11[b]
<1>1. s.at = "reread" /\ s.at \notin AtRest BY DEF Daily!Reread, AtRest
<1>2. /\ s \in Batches /\ s.today \in 1..2 /\ s.today <= x1 /\ x1 \in 1..2
  BY <1>1, BatchAt DEF DailyInv, DailyTyped
<1>3. PICK r : /\ Daily!Set(b, r)
               /\ \/ r = [s EXCEPT !.at = "judge", !.status = "pending"]
                  \/ r = [s EXCEPT !.at = "judge", !.status = "ok"] /\ x1 \in x9
  BY DEF Daily!Reread, Daily!Result, Daily!Confirmed
<1> HIDE DEF s
<1>4. /\ r \in Batches /\ r.today = s.today /\ r.counts = s.counts /\ r.at = "judge"
      /\ r.status = "pending" \/ x1 \in x9
  BY <1>2, <1>3 DEF Batches, Looking, DayResults
<1>5. r.at # "claim" /\ r.at \notin Keeping BY <1>4 DEF Keeping
<1>6. x1 \in x9 => Confirmed(s.today) BY <1>2, ConfirmsDay
<1>7. \A d \in x6 : Confirmed(d) BY DEF DailyInv, RecordsConfirmed
<1>8. UNCHANGED <<x1, x2, x3, x5, x6, x8, x9, x10>> BY DEF Daily!Reread, Daily!world
<1> QED BY <1>1, <1>3, <1>4, <1>5, <1>6, <1>7, <1>8, BatchGoesOn DEF s

LEMMA JudgeInv ==
    ASSUME DailyInv, NEW b \in Calls, Daily!Judge(b)
    PROVE  DailyInv'
<1> DEFINE s == x11[b]
<1>1. s.at = "judge" /\ s.at \notin AtRest BY DEF Daily!Judge, AtRest
<1>2. s \in Batches BY <1>1, BatchAt
<1>3. \A d \in x6 : Confirmed(d) BY DEF DailyInv, RecordsConfirmed
<1>4. UNCHANGED <<x1, x2, x3, x5, x6, x8, x9>> BY DEF Daily!Judge, Daily!world
<1>5. CASE s.status \in {"ok", "already"} /\ x2 = s.of
  <2> DEFINE r == [s EXCEPT !.at = "record"]
  <2>1. Daily!Set(b, r) /\ x10' = x10 BY <1>5 DEF Daily!Judge, Daily!To
  <2>2. Confirmed(s.today) BY <1>1, <1>5 DEF DailyInv, RecordsConfirmed
  <2> HIDE DEF s
  <2>3. r \in Batches /\ r.today = s.today /\ r.counts = s.counts /\ r.at = "record"
    BY <1>2 DEF Batches, Keeping
  <2> HIDE DEF r
  <2> QED BY <1>1, <1>3, <1>4, <2>1, <2>2, <2>3, BatchGoesOn DEF s
<1>6. CASE ~(s.status \in {"ok", "already"} /\ x2 = s.of)
  <2>1. Daily!Leave(b) BY <1>6 DEF Daily!Judge
  <2> QED BY <1>4, <2>1, LeaveRests
<1> QED BY <1>5, <1>6

LEMMA RecordInv ==
    ASSUME DailyInv, NEW b \in Calls, Daily!Record(b)
    PROVE  DailyInv'
<1> DEFINE s == x11[b]
           r == [s EXCEPT !.at = "note"]
<1>1. s.at = "record" /\ s.at \notin AtRest BY DEF Daily!Record, AtRest
<1>2. s \in Batches BY <1>1, BatchAt
<1>3. Confirmed(s.today) BY <1>1 DEF DailyInv, RecordsConfirmed, Keeping
<1>4. Daily!Set(b, r) /\ x6' = x6 \cup {s.today} BY DEF Daily!Record, Daily!To
<1>5. UNCHANGED <<x1, x2, x3, x5, x8, x9, x10>> BY DEF Daily!Record
<1>6. \A d \in x6' : Confirmed(d) BY <1>3, <1>4 DEF DailyInv, RecordsConfirmed
<1> HIDE DEF s
<1>7. r \in Batches /\ r.today = s.today /\ r.counts = s.counts /\ r.at = "note"
  BY <1>2 DEF Batches, Keeping
<1> HIDE DEF r
<1> QED BY <1>1, <1>3, <1>4, <1>5, <1>6, <1>7, BatchGoesOn DEF s

LEMMA DeleteAccountInv ==
    ASSUME DailyInv, Daily!DeleteAccount
    PROVE  DailyInv'
<1>1. /\ x5' = 0 /\ x8' = [d \in 1..2 |-> 0] /\ x2' = 0 /\ UNCHANGED <<x1, x3, x6, x9, x10>>
  BY DEF Daily!DeleteAccount, Daily!Days
<1>2. x11' = [b \in Calls |-> IF x11[b].at \in AtRest THEN x11[b]
                              ELSE [x11[b] EXCEPT !.counts = FALSE]]
  BY DEF Daily!DeleteAccount, AtRest
<1>3. \A b \in Calls : x11[b].at \in AtRest => x11'[b] = x11[b] BY <1>2
<1>4. ASSUME NEW b \in Calls, x11[b].at \notin AtRest
      PROVE  /\ x11'[b] \in Batches /\ x11'[b].at = x11[b].at /\ x11'[b].today = x11[b].today
             /\ x11'[b].status = x11[b].status /\ ~x11'[b].counts
  <2>1. x11[b] \in Batches BY <1>4, BatchAt
  <2>2. x11'[b] = [x11[b] EXCEPT !.counts = FALSE] BY <1>2, <1>4
  <2> QED BY <2>1, <2>2 DEF Batches
<1>5. DailyTyped' BY <1>1, <1>2, <1>3, <1>4 DEF DailyInv, DailyTyped
<1>6. OneBatch' BY <1>1, <1>3, <1>4 DEF DailyInv, DailyTyped, OneBatch, Batches
<1>7. ClaimsMarked' BY <1>1, <1>3, <1>4 DEF ClaimsMarked
<1>8. RecordsConfirmed'
  <2>1. \A b \in Calls : x11[b].at \in AtRest => x11[b].at # "judge" /\ x11[b].at \notin Keeping
    BY DEF AtRest, Keeping
  <2> QED BY <1>1, <1>3, <1>4, <2>1 DEF DailyInv, RecordsConfirmed, Confirmed
<1> QED BY <1>5, <1>6, <1>7, <1>8 DEF DailyInv

\* Around the batches.
LEMMA DaysInv ==
    ASSUME DailyInv,
           Daily!Confirm \/ Daily!Midnight \/ Daily!Import \/ Daily!Restart
    PROVE  DailyInv'
<1>1. CASE Daily!Confirm
  BY <1>1 DEF Daily!Confirm, DailyInv, DailyTyped, OneBatch, ClaimsMarked, RecordsConfirmed,
     Confirmed
<1>2. CASE Daily!Midnight
  <2>1. x1' = x1 + 1 /\ x1' \in 1..2 BY <1>2 DEF Daily!Midnight, DailyInv, DailyTyped
  <2>2. UNCHANGED <<x2, x3, x5, x6, x8, x9, x10, x11>> BY <1>2 DEF Daily!Midnight
  <2>3. DailyTyped' BY <2>1, <2>2 DEF DailyInv, DailyTyped
  <2>4. OneBatch' BY <2>1, <2>2 DEF DailyInv, DailyTyped, OneBatch, Batches
  <2>5. ClaimsMarked' BY <2>1, <2>2 DEF DailyInv, DailyTyped, ClaimsMarked
  <2>6. RecordsConfirmed' BY <2>2 DEF DailyInv, RecordsConfirmed, Confirmed
  <2> QED BY <2>3, <2>4, <2>5, <2>6 DEF DailyInv
<1>3. CASE Daily!Import
  BY <1>3 DEF Daily!Import, DailyInv, DailyTyped, OneBatch, ClaimsMarked, RecordsConfirmed,
     Confirmed
<1>4. CASE Daily!Restart
  <2>1. UNCHANGED <<x1, x2, x3, x5, x6, x8, x9>> BY <1>4 DEF Daily!Restart
  <2>2. x11' = [b \in Calls |-> Daily!Idle] BY <1>4 DEF Daily!Restart
  <2>3. \A b \in Calls : x11'[b].at \in AtRest /\ x11'[b].at # "judge" /\ x11'[b].at \notin Keeping
    BY <2>2 DEF Daily!Idle, AtRest, Keeping
  <2>4. DailyTyped' BY <2>1, <2>2 DEF DailyInv, DailyTyped, Daily!Idle, AtRest
  <2>5. OneBatch' BY <2>3 DEF OneBatch
  <2>6. ClaimsMarked' BY <2>1, <2>3 DEF DailyInv, ClaimsMarked
  <2>7. RecordsConfirmed' BY <2>1, <2>3 DEF DailyInv, RecordsConfirmed, Confirmed
  <2> QED BY <2>4, <2>5, <2>6, <2>7 DEF DailyInv
<1> QED BY <1>1, <1>2, <1>3, <1>4

LEMMA DailyStep ==
    ASSUME NoAccount \notin Calls, DailyInv, [Daily!Next]_(Daily!vars)
    PROVE  DailyInv'
<1>1. CASE UNCHANGED Daily!vars
  BY <1>1 DEF Daily!vars, DailyInv, DailyTyped, OneBatch, ClaimsMarked, RecordsConfirmed,
     Confirmed
<1>2. ASSUME NEW b \in Calls, Daily!Begin(b) PROVE DailyInv'
  <2>1. [at |-> "wait"] \in [at : AtRest] BY DEF AtRest
  <2> QED BY <1>2, <2>1, BatchRests DEF Daily!Begin, Daily!world
<1>3. ASSUME NEW b \in Calls, Daily!Abandon(b) PROVE DailyInv'
  BY <1>3, LeaveRests DEF Daily!Abandon, Daily!world
<1>4. ASSUME NEW b \in Calls, Daily!Note(b) PROVE DailyInv'
  BY <1>4, LeaveRests DEF Daily!Note
<1>5. ASSUME NEW b \in Calls,
             \/ Daily!Acquire(b) \/ Daily!Judge(b) \/ Daily!Record(b)
             \/ \E answer \in {"failed", "no campaign", "status"} : Daily!Ask(b, answer)
             \/ \E ok \in BOOLEAN : Daily!Mark(b, ok) \/ Daily!Reread(b, ok)
             \/ \E outcome \in {"accepted", "refused", "lost"}, accepted, cleared \in BOOLEAN :
                    Daily!Claim(b, outcome, accepted, cleared)
      PROVE  DailyInv'
  BY <1>5, AcquireInv, JudgeInv, RecordInv, AskInv, MarkInv, RereadDayInv, ClaimDayInv
<1> QED BY <1>1, <1>2, <1>3, <1>4, <1>5, DaysInv, DeleteAccountInv DEF Daily!Next

-----------------------------------------------------------------------------
\* The check-ins of Qoder.

Kinds == {"", "temporary", "login"}
Pauses == [of : Nat, kind : Kinds, due : BOOLEAN]
Asks == {"probe", "list", "claim"}
Workers == [at : Asks \cup {"record"}, of : Nat, date : Nat]
Waits == [at : {"none", "wait", "left"}]
Ended == [at : {"done"}, status : {"ok", "error", "paused", "reauthorize", "no_campaign"}]
Histories == [Accounts -> SUBSET Nat]
Writers == [at : {"write"}, days : Histories]

ClaimsTyped ==
    /\ x1 \in Nat \ {0} /\ x2 \in [Accounts -> Nat] /\ x3 \in Histories
    /\ x4 \in [whole : BOOLEAN, days : Histories]
    /\ x5 \in [Accounts -> Pauses]
    /\ x6 \in [window : Nat, attempts : 0..2, resting : BOOLEAN, waits : BOOLEAN]
    /\ x8 \in [Accounts -> Waits \cup Ended \cup Workers \cup Writers]
    /\ x11 \in Histories /\ x12 \in Histories /\ x13 \in Nat

Within(days) == \A a \in Accounts : days[a] \subseteq x3[a]

\* What is recorded, or about to be, was granted.
Granted ==
    /\ Within(x4.days)
    /\ \A a \in Accounts :
        /\ x8[a].at = "record" => x8[a].date \in x3[a]
        /\ x8[a].at = "write" => Within(x8[a].days)

\* Only the owner of the lock writes, and what it writes extends what is kept.
OneWriter ==
    /\ x9 # NoAccount => x9 \in Accounts /\ x8[x9].at = "write"
    /\ \A a \in Accounts : x8[a].at = "write" =>
        x9 = a /\ \A b \in Accounts : x11[b] \subseteq x8[a].days[b]
    /\ x9 = NoAccount => \A b \in Accounts : x11[b] \subseteq Claims!Loaded[b]
    /\ x7 = "none" => \A a \in Accounts : x8[a] = Claims!NoWork

\* A refused login is the present one, whose pause says so, or one that no
\* worker has any more.
Refusals ==
    \A a \in Accounts :
        /\ \A l \in x12[a] : l <= x2[a]
        /\ x2[a] \in x12[a] => x5[a].of = x2[a] /\ x5[a].kind = "login"
        /\ x8[a].at \in Asks => x8[a].of <= x2[a] /\ \A l \in x12[a] : l < x8[a].of

\* Every failed batch of the window was one of the scheduler's attempts.
Attempted ==
    /\ x6.window <= x1
    /\ x6.waits => x6.attempts > 0
    /\ x6.window = x1 => x13 <= IF x6.waits THEN x6.attempts - 1 ELSE x6.attempts
    /\ x6.window # x1 => x13 = 0

ClaimsInv == ClaimsTyped /\ Granted /\ OneWriter /\ Refusals /\ Attempted

LEMMA ClaimsBegin == Claims!Init => ClaimsInv
<1> SUFFICES ASSUME Claims!Init PROVE ClaimsInv OBVIOUS
<1> USE DEF Claims!Init
<1>1. \A a \in Accounts : x8[a] = [at |-> "none"] BY DEF Claims!NoWork
<1>2. x3 = [a \in Accounts |-> {}] /\ x3 \in Histories BY DEF Histories
<1>3. x12 = [a \in Accounts |-> {}] /\ x12 \in Histories BY DEF Histories
<1>4. x4 = [whole |-> TRUE, days |-> x3] BY <1>2
<1>5. x8 \in [Accounts -> Waits] BY DEF Waits, Claims!NoWork
<1>6. x6 = [window |-> 0, attempts |-> 0, resting |-> FALSE, waits |-> FALSE] BY
  DEF Claims!Fresh
<1>7. x5 \in [Accounts -> Pauses] BY DEF Pauses, Kinds, Claims!NoPause
<1>8. x1 = 1 /\ x2 \in [Accounts -> Nat] /\ x11 = x3 /\ x13 = 0 OBVIOUS
<1>9. ClaimsTyped BY <1>2, <1>3, <1>4, <1>5, <1>6, <1>7, <1>8 DEF ClaimsTyped
<1>10. Granted BY <1>1, <1>4 DEF Granted, Within
<1>11. OneWriter BY <1>1, <1>2, <1>4, <1>8 DEF OneWriter, Claims!Loaded, Claims!NoWork
<1>12. Refusals BY <1>1, <1>3 DEF Refusals, Asks
<1>13. Attempted BY <1>6, <1>8 DEF Attempted
<1> QED BY <1>9, <1>10, <1>11, <1>12, <1>13 DEF ClaimsInv

LEMMA InvCheckins == ClaimsInv => Claims!CheckinsFit
<1> SUFFICES ASSUME ClaimsInv PROVE Claims!CheckinsFit OBVIOUS
<1>1. Claims!RecordsTrue BY DEF ClaimsInv, Granted, Within, Claims!RecordsTrue
<1>2. Claims!RecordsKept BY DEF ClaimsInv, OneWriter, Claims!RecordsKept
<1>3. Claims!RefusalsStand
  <2> SUFFICES ASSUME NEW a \in Accounts, x8[a].at \in Asks PROVE x8[a].of \notin x12[a]
    BY DEF Claims!RefusalsStand, Asks
  <2>1. x8[a] \in Workers
    BY DEF ClaimsInv, ClaimsTyped, Asks, Waits, Ended, Writers
  <2>2. x8[a].of \in Nat BY <2>1 DEF Workers
  <2> QED BY <2>2 DEF ClaimsInv, Refusals
<1>4. Claims!AttemptsBounded
  <2>1. x6.attempts \in 0..2 /\ x6.waits \in BOOLEAN /\ x13 \in Nat BY DEF ClaimsInv, ClaimsTyped
  <2> QED BY <2>1 DEF ClaimsInv, Attempted, Claims!AttemptsBounded
<1> QED BY <1>1, <1>2, <1>3, <1>4 DEF Claims!CheckinsFit

-----------------------------------------------------------------------------
\* The steps.

LEMMA WorkerAt ==
    ASSUME ClaimsInv, NEW a \in Accounts, x8[a].at \in Asks \cup {"record"}
    PROVE  /\ x8[a] \in Workers /\ x8[a].of \in Nat /\ x8[a].date \in Nat
           /\ x7 # "none"
<1>1. x8[a] \in Workers
  BY DEF ClaimsInv, ClaimsTyped, Asks, Waits, Ended, Writers
<1>2. x8[a] # Claims!NoWork BY DEF Claims!NoWork, Asks
<1> QED BY <1>1, <1>2 DEF ClaimsInv, OneWriter, Workers

\* What a step makes of the pauses and refusals of an account.
PauseFits(a, r) ==
    /\ x5' \in [Accounts -> Pauses] /\ x12' \in Histories
    /\ \A b \in Accounts : b # a => x5'[b] = x5[b] /\ x12'[b] = x12[b]
    /\ \A l \in x12'[a] : l <= x2[a]
    /\ x2[a] \in x12'[a] => x5'[a].of = x2[a] /\ x5'[a].kind = "login"
    /\ r.at \in Asks => r.of <= x2[a] /\ \A l \in x12'[a] : l < r.of

\* A worker that goes on, and does not write.
LEMMA WorkerGoesOn ==
    ASSUME ClaimsInv, NEW a \in Accounts, NEW r \in Waits \cup Ended \cup Workers,
           Claims!Set(a, r), x8[a].at # "write", x8[a] # Claims!NoWork,
           x3' \in Histories, \A b \in Accounts : x3[b] \subseteq x3'[b],
           r.at = "record" => r.date \in x3'[a],
           PauseFits(a, r),
           UNCHANGED <<x1, x2, x4, x6, x7, x9, x11, x13>>
    PROVE  ClaimsInv'
<1>1. \A b \in Accounts : x8'[b] = IF b = a THEN r ELSE x8[b]
  BY DEF ClaimsInv, ClaimsTyped, Claims!Set
<1>2. r.at # "write" BY DEF Waits, Ended, Workers, Asks
<1>3. ClaimsTyped'
  <2>1. x8' \in [Accounts -> Waits \cup Ended \cup Workers \cup Writers]
    BY DEF ClaimsInv, ClaimsTyped, Claims!Set
  <2> QED BY <2>1 DEF ClaimsInv, ClaimsTyped, PauseFits
<1>4. Granted' BY <1>1, <1>2 DEF ClaimsInv, Granted, Within
<1>5. OneWriter'
  <2>1. x7 # "none" BY DEF ClaimsInv, OneWriter
  <2>2. x9 # a BY RouterAssumption DEF ClaimsInv, OneWriter
  <2> QED BY <1>1, <1>2, <2>1, <2>2 DEF ClaimsInv, OneWriter, Claims!Loaded
<1>6. Refusals' BY <1>1 DEF ClaimsInv, Refusals, PauseFits
<1>7. Attempted' BY DEF ClaimsInv, Attempted
<1> QED BY <1>3, <1>4, <1>5, <1>6, <1>7 DEF ClaimsInv

LEMMA ResultEnds ==
    ASSUME NEW a, NEW status \in {"ok", "error", "paused", "reauthorize", "no_campaign"},
           Claims!Result(a, status)
    PROVE  \E r \in Ended : Claims!Set(a, r) /\ r.at = "done"
<1> DEFINE r == [at |-> "done", status |-> status]
<1>1. r \in Ended BY DEF Ended
<1> QED BY <1>1 DEF Claims!Result

\* Pauses and refusals that stay, for a worker that asks no more or goes on.
LEMMA PauseStays ==
    ASSUME ClaimsInv, NEW a \in Accounts, NEW r, x5' = x5, x12' = x12,
           r.at \in Asks => x8[a].at \in Asks /\ r.of = x8[a].of
    PROVE  PauseFits(a, r)
BY DEF ClaimsInv, ClaimsTyped, Refusals, PauseFits

\* A worker observed an answer.
LEMMA ObserveFits ==
    ASSUME ClaimsInv, NEW a \in Accounts, NEW r, NEW kind \in Kinds,
           x8[a].at \in Asks, Claims!Observe(a, kind),
           r.at \in Asks => kind # "login" /\ r.of = x8[a].of
    PROVE  PauseFits(a, r)
<1> DEFINE of == x8[a].of
           found == Claims!Observed(a, of, kind)
<1>1. of \in Nat /\ of <= x2[a] /\ x2[a] \in Nat /\ (\A l \in x12[a] : l < of /\ l \in Nat)
  BY WorkerAt DEF ClaimsInv, ClaimsTyped, Refusals, Histories
<1>2. x5[a] \in Pauses BY DEF ClaimsInv, ClaimsTyped
<1>3. found \in Pauses BY <1>1, <1>2 DEF Claims!Observed, Pauses
<1>4. /\ found.of = x5[a].of
      /\ x5[a].kind = "login" => found = x5[a]
      /\ x5[a].of = of /\ kind = "login" => found.kind = "login"
      /\ x5[a].of # of => found = x5[a]
  BY <1>2 DEF Claims!Observed, Pauses
<1>5. /\ x5' = x5 \/ x5' = [x5 EXCEPT ![a] = found]
      /\ x12' = x12 \/ /\ x12' = [x12 EXCEPT ![a] = @ \cup {of}]
                       /\ x5' = [x5 EXCEPT ![a] = found]
                       /\ kind = "login" /\ x5[a].of = of
  BY DEF Claims!Observe
<1> HIDE DEF of, found
<1>6. x5' \in [Accounts -> Pauses] /\ x12' \in Histories
  BY <1>1, <1>3, <1>5 DEF ClaimsInv, ClaimsTyped, Histories
<1>7. /\ \A b \in Accounts : b # a => x5'[b] = x5[b] /\ x12'[b] = x12[b]
      /\ x5'[a] = x5[a] \/ x5'[a] = found
      /\ \/ x12'[a] = x12[a]
         \/ x12'[a] = x12[a] \cup {of} /\ x5'[a] = found /\ kind = "login" /\ x5[a].of = of
  BY <1>5 DEF ClaimsInv, ClaimsTyped, Histories
<1>8. \A l \in x12'[a] : l <= x2[a]
  BY <1>1, <1>7
<1>9. x2[a] \in x12'[a] => x5'[a].of = x2[a] /\ x5'[a].kind = "login"
  <2>1. CASE x12'[a] = x12[a]
    BY <1>4, <1>7, <2>1 DEF ClaimsInv, Refusals
  <2>2. CASE x12'[a] # x12[a]
    <3>1. x5'[a].of = of /\ x5'[a].kind = "login" BY <1>4, <1>7, <2>2
    <3>2. x2[a] \in x12'[a] => x2[a] = of BY <1>1, <1>7
    <3> QED BY <3>1, <3>2
  <2> QED BY <2>1, <2>2
<1>10. r.at \in Asks => r.of <= x2[a] /\ \A l \in x12'[a] : l < r.of
  BY <1>1, <1>7 DEF of
<1> QED BY <1>6, <1>7, <1>8, <1>9, <1>10 DEF PauseFits

LEMMA LookFits ==
    ASSUME ClaimsInv, NEW a \in Accounts
    PROVE  LET state == Claims!StateOf(a, x2[a])
           IN /\ state \in Pauses /\ state.of = x2[a]
              /\ x2[a] \in x12[a] => state.kind = "login"
<1>1. x5[a] \in Pauses /\ x2[a] \in Nat BY DEF ClaimsInv, ClaimsTyped
<1>2. x2[a] \in x12[a] => x5[a].of = x2[a] /\ x5[a].kind = "login" BY DEF ClaimsInv, Refusals
<1> QED BY <1>1, <1>2 DEF Claims!StateOf, Claims!NoPause, Pauses, Kinds

\* A step around the batches that leaves the workers alone.
LEMMA PausesOnly ==
    ASSUME ClaimsInv, NEW a \in Accounts, PauseFits(a, x8[a]),
           UNCHANGED <<x1, x2, x3, x4, x6, x7, x8, x9, x11, x12, x13>>
    PROVE  ClaimsInv'
<1>1. ClaimsTyped' BY DEF ClaimsInv, ClaimsTyped, PauseFits
<1>2. Granted' BY DEF ClaimsInv, Granted, Within
<1>3. OneWriter' BY DEF ClaimsInv, OneWriter, Claims!Loaded
<1>4. Refusals' BY DEF ClaimsInv, Refusals, PauseFits
<1>5. Attempted' BY DEF ClaimsInv, Attempted
<1> QED BY <1>1, <1>2, <1>3, <1>4, <1>5 DEF ClaimsInv

LEMMA LookInv ==
    ASSUME ClaimsInv, NEW a \in Accounts, Claims!Look(a)
    PROVE  ClaimsInv'
<1> DEFINE state == Claims!StateOf(a, x2[a])
<1>1. /\ state \in Pauses /\ state.of = x2[a]
      /\ x2[a] \in x12[a] => state.kind = "login"
  BY LookFits
<1>2. x5' = [x5 EXCEPT ![a] = state] BY DEF Claims!Look
<1>3. UNCHANGED <<x1, x2, x3, x4, x6, x7, x8, x9, x11, x12, x13>>
  BY DEF Claims!Look, Claims!world, Claims!ghosts
<1> HIDE DEF state
<1>4. PauseFits(a, x8[a])
  BY <1>1, <1>2, <1>3 DEF ClaimsInv, ClaimsTyped, Refusals, PauseFits
<1> QED BY <1>3, <1>4, PausesOnly

LEMMA PauseOverInv ==
    ASSUME ClaimsInv, NEW a \in Accounts, Claims!PauseOver(a)
    PROVE  ClaimsInv'
<1> DEFINE r == [x5[a] EXCEPT !.due = TRUE]
<1>1. x5' = [x5 EXCEPT ![a] = r] BY DEF Claims!PauseOver
<1>2. x5[a] \in Pauses /\ x5[a].kind = "temporary"
  BY DEF Claims!PauseOver, ClaimsInv, ClaimsTyped
<1>3. r \in Pauses BY <1>2 DEF Pauses
<1>4. x2[a] \notin x12[a] BY <1>2 DEF ClaimsInv, Refusals
<1>5. UNCHANGED <<x1, x2, x3, x4, x6, x7, x8, x9, x11, x12, x13>>
  BY DEF Claims!PauseOver, Claims!world, Claims!ghosts
<1> HIDE DEF r
<1>6. PauseFits(a, x8[a])
  BY <1>1, <1>3, <1>4, <1>5 DEF ClaimsInv, ClaimsTyped, Refusals, PauseFits
<1> QED BY <1>5, <1>6, PausesOnly

LEMMA LeaveBatchInv ==
    ASSUME ClaimsInv, NEW a \in Accounts, Claims!Leave(a)
    PROVE  ClaimsInv'
<1> DEFINE r == [at |-> "left"]
<1>1. r \in Waits /\ r.at \notin Asks /\ r.at # "record" BY DEF Waits, Asks
<1>2. Claims!Set(a, r) /\ x8[a].at = "wait" BY DEF Claims!Leave
<1>3. x8[a].at # "write" /\ x8[a] # Claims!NoWork BY <1>2 DEF Claims!NoWork
<1>4. UNCHANGED <<x1, x2, x3, x4, x5, x6, x7, x9, x11, x12, x13>>
  BY DEF Claims!Leave, Claims!world, Claims!ghosts
<1> HIDE DEF r
<1>5. PauseFits(a, r) BY <1>1, <1>4, PauseStays
<1>6. x3' \in Histories BY <1>4 DEF ClaimsInv, ClaimsTyped
<1> QED BY <1>1, <1>2, <1>3, <1>4, <1>5, <1>6, WorkerGoesOn

LEMMA TakeInv ==
    ASSUME ClaimsInv, NEW a \in Accounts, Claims!Take(a)
    PROVE  ClaimsInv'
<1> DEFINE state == Claims!StateOf(a, x2[a])
<1>1. /\ state \in Pauses /\ state.of = x2[a]
      /\ x2[a] \in x12[a] => state.kind = "login"
  BY LookFits
<1>2. x5' = [x5 EXCEPT ![a] = state] BY DEF Claims!Take
<1>3. UNCHANGED <<x1, x2, x3, x4, x6, x7, x9, x11, x12, x13>>
  BY DEF Claims!Take, Claims!world, Claims!ghosts
<1>4. x8[a].at # "write" /\ x8[a] # Claims!NoWork
  <2>1. x8[a].at = "wait" BY DEF Claims!Take
  <2> QED BY <2>1 DEF Claims!NoWork
<1>5. x3' \in Histories BY <1>3 DEF ClaimsInv, ClaimsTyped
<1>6. /\ x5' \in [Accounts -> Pauses] /\ x12' \in Histories
      /\ \A b \in Accounts : b # a => x5'[b] = x5[b] /\ x12'[b] = x12[b]
      /\ x5'[a] = state /\ x12'[a] = x12[a]
      /\ \A l \in x12'[a] : l <= x2[a]
  <2> HIDE DEF state
  <2> QED BY <1>1, <1>2, <1>3 DEF ClaimsInv, ClaimsTyped, Refusals
<1>7. \/ Claims!Result(a, "reauthorize") \/ Claims!Result(a, "paused")
      \/ /\ state.kind # "login"
         /\ \E step \in {"list", "probe"} : Claims!Set(a, [at |-> step, of |-> x2[a], date |-> 0])
  BY DEF Claims!Take
<1> HIDE DEF state
<1>8. CASE Claims!Result(a, "reauthorize") \/ Claims!Result(a, "paused")
  <2>1. PICK r \in Ended : Claims!Set(a, r) /\ r.at = "done" BY <1>8, ResultEnds
  <2>2. r.at \notin Asks /\ r.at # "record" BY <2>1 DEF Asks
  <2>3. PauseFits(a, r) BY <1>1, <1>6, <2>2 DEF PauseFits
  <2> QED BY <1>3, <1>4, <1>5, <2>1, <2>2, <2>3, WorkerGoesOn
<1>9. ASSUME NEW step \in {"list", "probe"}, state.kind # "login",
             Claims!Set(a, [at |-> step, of |-> x2[a], date |-> 0])
      PROVE  ClaimsInv'
  <2> DEFINE r == [at |-> step, of |-> x2[a], date |-> 0]
  <2>1. x2[a] \in Nat BY DEF ClaimsInv, ClaimsTyped
  <2>2. r \in Workers /\ r.of = x2[a] /\ r.at # "record" BY <2>1 DEF Workers, Asks
  <2>3. Claims!Set(a, r) BY <1>9
  <2> HIDE DEF r
  <2>4. \A l \in x12[a] : l \in Nat BY DEF ClaimsInv, ClaimsTyped, Histories
  <2>5. \A l \in x12'[a] : l < x2[a] BY <1>1, <1>6, <1>9, <2>1, <2>4
  <2>6. PauseFits(a, r) BY <1>1, <1>6, <2>1, <2>2, <2>5 DEF PauseFits
  <2> QED BY <1>3, <1>4, <1>5, <2>2, <2>3, <2>6, WorkerGoesOn
<1> QED BY <1>7, <1>8, <1>9

\* The worker of an account, as it was and as it goes on.
LEMMA WorkerMoves ==
    ASSUME NEW r \in Workers, NEW step \in Asks \cup {"record"}
    PROVE  /\ [r EXCEPT !.at = step] \in Workers
           /\ [r EXCEPT !.at = step].at = step
           /\ [r EXCEPT !.at = step].of = r.of
           /\ [r EXCEPT !.at = step].date = r.date
BY DEF Workers

LEMMA ProbeInv ==
    ASSUME ClaimsInv, NEW a \in Accounts, NEW answer \in {"ok", "fails", "denied"},
           Claims!Probe(a, answer)
    PROVE  ClaimsInv'
<1>1. x8[a].at = "probe" /\ x8[a].at \in Asks BY DEF Claims!Probe, Asks
<1>2. x8[a] \in Workers /\ x8[a].of \in Nat BY <1>1, WorkerAt
<1>3. x8[a].at # "write" /\ x8[a] # Claims!NoWork BY <1>1 DEF Claims!NoWork
<1>4. UNCHANGED <<x1, x2, x3, x4, x6, x7, x9, x11, x13>>
  BY DEF Claims!Probe, Claims!world
<1>5. x3' \in Histories BY <1>4 DEF ClaimsInv, ClaimsTyped
<1>6. CASE answer = "ok"
  <2> DEFINE r == [x8[a] EXCEPT !.at = "list"]
  <2>1. Claims!Set(a, r) /\ Claims!Observe(a, "") BY <1>6 DEF Claims!Probe, Claims!To
  <2>2. r \in Workers /\ r.at = "list" /\ r.of = x8[a].of BY <1>2, WorkerMoves DEF Asks
  <2> HIDE DEF r
  <2>3. "" \in Kinds BY DEF Kinds
  <2>4. PauseFits(a, r) BY <1>1, <2>1, <2>2, <2>3, ObserveFits
  <2> QED BY <1>3, <1>4, <1>5, <2>1, <2>2, <2>4, WorkerGoesOn
<1>7. CASE answer # "ok"
  <2> DEFINE of == x8[a].of
             kind == [fails |-> "temporary", denied |-> "login"][answer]
             found == IF Claims!Live THEN Claims!Observed(a, of, kind) ELSE x5[a]
             state == IF found.of = of THEN found ELSE Claims!NoPause(of)
  <2>1. /\ x5' = [x5 EXCEPT ![a] = state]
        /\ x12' = IF found.kind = "login" /\ found.of = of
                  THEN [x12 EXCEPT ![a] = @ \cup {of}] ELSE x12
        /\ Claims!Result(a, "reauthorize") \/ Claims!Result(a, "paused")
    BY <1>7 DEF Claims!Probe
  <2>2. kind \in Kinds
    <3>1. CASE answer = "fails" BY <3>1 DEF Kinds
    <3>2. CASE answer = "denied" BY <3>2 DEF Kinds
    <3> QED BY <1>7, <3>1, <3>2
  <2>3. x5[a] \in Pauses BY DEF ClaimsInv, ClaimsTyped
  <2>4. found \in Pauses BY <1>2, <2>2, <2>3 DEF Claims!Observed, Pauses
  <2> HIDE DEF found
  <2>5. /\ state \in Pauses /\ state.of = of
        /\ found.kind = "login" /\ found.of = of => state.kind = "login"
    BY <1>2, <2>4 DEF Claims!NoPause, Pauses, Kinds
  <2> HIDE DEF state, kind
  <2>6. of <= x2[a] /\ x2[a] \in Nat /\ (\A l \in x12[a] : l < of /\ l \in Nat)
    BY <1>1 DEF ClaimsInv, ClaimsTyped, Refusals, Histories
  <2>7. PICK r \in Ended : Claims!Set(a, r) /\ r.at = "done" BY <2>1, ResultEnds
  <2>8. r.at \notin Asks /\ r.at # "record" BY <2>7 DEF Asks
  <2> HIDE DEF of
  <2>9. of \in Nat BY <1>2 DEF of
  <2>10. /\ x5' \in [Accounts -> Pauses] /\ x12' \in Histories
         /\ \A b \in Accounts : b # a => x5'[b] = x5[b] /\ x12'[b] = x12[b]
         /\ x5'[a] = state
         /\ \/ x12'[a] = x12[a]
            \/ x12'[a] = x12[a] \cup {of} /\ state.kind = "login"
    BY <2>1, <2>5, <2>9 DEF ClaimsInv, ClaimsTyped, Histories
  <2>11. \A l \in x12'[a] : l <= x2[a] BY <2>6, <2>9, <2>10
  <2>12. x2[a] \in x12'[a] => x12'[a] = x12[a] \cup {of} /\ x2[a] = of /\ state.kind = "login"
    BY <2>6, <2>9, <2>10
  <2>13. PauseFits(a, r) BY <2>5, <2>8, <2>10, <2>11, <2>12 DEF PauseFits
  <2> QED BY <1>3, <1>4, <1>5, <2>7, <2>8, <2>13, WorkerGoesOn
<1> QED BY <1>6, <1>7

LEMMA ListInv ==
    ASSUME ClaimsInv, NEW a \in Accounts, NEW answer \in {"ok", "none", "fails", "denied"},
           Claims!List(a, answer)
    PROVE  ClaimsInv'
<1>1. x8[a].at = "list" /\ x8[a].at \in Asks BY DEF Claims!List, Asks
<1>2. x8[a] \in Workers /\ x8[a].of \in Nat BY <1>1, WorkerAt
<1>3. x8[a].at # "write" /\ x8[a] # Claims!NoWork BY <1>1 DEF Claims!NoWork
<1>4. UNCHANGED <<x1, x2, x3, x4, x6, x7, x9, x11, x13>>
  BY DEF Claims!List, Claims!world
<1>5. x3' \in Histories /\ x1 \in Nat BY <1>4 DEF ClaimsInv, ClaimsTyped
<1>6. ASSUME NEW step \in {"claim", "record"},
             Claims!Set(a, [x8[a] EXCEPT !.at = step, !.date = x1]),
             step = "claim" => UNCHANGED <<x5, x12>>,
             step = "record" => x1 \in x3[a] /\ Claims!Observe(a, "")
      PROVE  ClaimsInv'
  <2> DEFINE r == [x8[a] EXCEPT !.at = step, !.date = x1]
  <2>1. r \in Workers /\ r.at = step /\ r.of = x8[a].of /\ r.date = x1
    BY <1>2, <1>5 DEF Workers, Asks
  <2>2. Claims!Set(a, r) BY <1>6
  <2> HIDE DEF r
  <2>3. "" \in Kinds BY DEF Kinds
  <2>4. PauseFits(a, r)
    <3>1. CASE step = "claim" BY <1>1, <1>6, <2>1, <3>1, PauseStays
    <3>2. CASE step = "record" BY <1>1, <1>6, <2>1, <2>3, <3>2, ObserveFits
    <3> QED BY <3>1, <3>2
  <2> QED BY <1>3, <1>4, <1>5, <1>6, <2>1, <2>2, <2>4, WorkerGoesOn
<1>7. ASSUME NEW status \in {"no_campaign", "error", "reauthorize"}, NEW kind \in Kinds,
             Claims!Result(a, status), Claims!Observe(a, kind)
      PROVE  ClaimsInv'
  <2>1. PICK r \in Ended : Claims!Set(a, r) /\ r.at = "done" BY <1>7, ResultEnds
  <2>2. r.at \notin Asks /\ r.at # "record" BY <2>1 DEF Asks
  <2>3. PauseFits(a, r) BY <1>1, <1>7, <2>2, ObserveFits
  <2> QED BY <1>3, <1>4, <1>5, <2>1, <2>2, <2>3, WorkerGoesOn
<1>8. \/ /\ Claims!Set(a, [x8[a] EXCEPT !.at = "claim", !.date = x1]) /\ UNCHANGED <<x5, x12>>
      \/ /\ Claims!Set(a, [x8[a] EXCEPT !.at = "record", !.date = x1]) /\ Claims!Observe(a, "")
         /\ x1 \in x3[a]
      \/ Claims!Result(a, "no_campaign") /\ Claims!Observe(a, "")
      \/ Claims!Result(a, "error") /\ Claims!Observe(a, "temporary")
      \/ Claims!Result(a, "reauthorize") /\ Claims!Observe(a, "login")
  BY DEF Claims!List
<1>9. {"", "temporary", "login"} = Kinds BY DEF Kinds
<1> QED BY <1>6, <1>7, <1>8, <1>9

LEMMA ClaimBenefitInv ==
    ASSUME ClaimsInv, NEW a \in Accounts, Claims!Claim(a)
    PROVE  ClaimsInv'
<1> DEFINE date == x8[a].date
<1>1. x8[a].at = "claim" /\ x8[a].at \in Asks BY DEF Claims!Claim, Asks
<1>2. x8[a] \in Workers /\ x8[a].of \in Nat /\ date \in Nat BY <1>1, WorkerAt
<1>3. x8[a].at # "write" /\ x8[a] # Claims!NoWork BY <1>1 DEF Claims!NoWork
<1>4. UNCHANGED <<x1, x2, x4, x6, x7, x9, x11, x13>>
  BY DEF Claims!Claim
<1>5. x3' = x3 \/ x3' = [x3 EXCEPT ![a] = @ \cup {date}] BY DEF Claims!Claim
<1>6. x3' \in Histories /\ \A b \in Accounts : x3[b] \subseteq x3'[b]
  <2> HIDE DEF date
  <2> QED BY <1>2, <1>5 DEF ClaimsInv, ClaimsTyped, Histories
<1>7. \/ Claims!To(a, "record") /\ Claims!Observe(a, "") /\ x3' = [x3 EXCEPT ![a] = @ \cup {date}]
      \/ \E kind \in {"temporary", "login"} : Claims!ClaimFails(a, kind) /\ Claims!Observe(a, kind)
  BY DEF Claims!Claim
<1>8. CASE Claims!To(a, "record") /\ Claims!Observe(a, "") /\ x3' = [x3 EXCEPT ![a] = @ \cup {date}]
  <2> DEFINE r == [x8[a] EXCEPT !.at = "record"]
  <2>1. Claims!Set(a, r) BY <1>8 DEF Claims!To
  <2>2. r \in Workers /\ r.at = "record" /\ r.date = date
    BY <1>2, WorkerMoves
  <2> HIDE DEF r, date
  <2>6. r.at \notin Asks BY <2>2 DEF Asks
  <2>3. r.date \in x3'[a] BY <1>8, <2>2 DEF ClaimsInv, ClaimsTyped, Histories
  <2>4. "" \in Kinds BY DEF Kinds
  <2>5. PauseFits(a, r) BY <1>1, <1>8, <2>6, <2>4, ObserveFits
  <2> QED BY <1>3, <1>4, <1>6, <2>1, <2>2, <2>3, <2>5, WorkerGoesOn
<1>9. ASSUME NEW kind \in {"temporary", "login"}, Claims!ClaimFails(a, kind), Claims!Observe(a, kind)
      PROVE  ClaimsInv'
  <2>1. Claims!Result(a, "error") \/ Claims!Result(a, "reauthorize")
    BY <1>9 DEF Claims!ClaimFails
  <2>2. PICK r \in Ended : Claims!Set(a, r) /\ r.at = "done" BY <2>1, ResultEnds
  <2>3. r.at \notin Asks /\ r.at # "record" BY <2>2 DEF Asks
  <2>4. kind \in Kinds BY DEF Kinds
  <2>5. PauseFits(a, r) BY <1>1, <1>9, <2>3, <2>4, ObserveFits
  <2> QED BY <1>3, <1>4, <1>6, <2>2, <2>3, <2>5, WorkerGoesOn
<1> QED BY <1>7, <1>8, <1>9

LEMMA BeginWriteInv ==
    ASSUME ClaimsInv, NEW a \in Accounts, Claims!BeginWrite(a)
    PROVE  ClaimsInv'
<1> DEFINE date == x8[a].date
           loaded == Claims!Loaded
<1>1. x8[a].at = "record" /\ x9 = NoAccount BY DEF Claims!BeginWrite, Claims!MayWrite
<1>2. date \in Nat /\ date \in x3[a] /\ x7 # "none"
  BY <1>1, WorkerAt DEF ClaimsInv, Granted
<1>3. UNCHANGED <<x1, x2, x3, x4, x5, x6, x7, x12, x13>>
  BY DEF Claims!BeginWrite, Claims!world
<1>4. /\ loaded \in Histories /\ Within(loaded)
      /\ \A b \in Accounts : x11[b] \subseteq loaded[b]
  <2>1. x4 \in [whole : BOOLEAN, days : Histories] /\ Within(x4.days)
    BY DEF ClaimsInv, ClaimsTyped, Granted
  <2>2. loaded \in Histories /\ Within(loaded)
    BY <2>1 DEF Claims!Loaded, Histories, Within
  <2> QED BY <1>1, <2>2 DEF ClaimsInv, OneWriter
<1>5. x11' = [x11 EXCEPT ![a] = @ \cup {date}] BY DEF Claims!BeginWrite
<1>6. \/ date \in loaded[a] /\ Claims!Result(a, "ok") /\ x9' = x9
      \/ x9' = a /\ Claims!Set(a, [at |-> "write", days |-> [loaded EXCEPT ![a] = @ \cup {date}]])
  BY DEF Claims!BeginWrite
<1>7. UNCHANGED Claims!Loaded BY <1>3 DEF Claims!Loaded
<1> HIDE DEF date, loaded
<1>8. /\ x11' \in Histories
      /\ \A b \in Accounts : x11'[b] = IF b = a THEN x11[b] \cup {date} ELSE x11[b]
  BY <1>2, <1>5 DEF ClaimsInv, ClaimsTyped, Histories
<1>9. \A b \in Accounts : x8[b].at # "write" BY <1>1, RouterAssumption DEF ClaimsInv, OneWriter
<1>10. Attempted' BY <1>3 DEF ClaimsInv, Attempted
<1>11. CASE date \in loaded[a] /\ Claims!Result(a, "ok") /\ x9' = x9
  <2>1. PICK r \in Ended : Claims!Set(a, r) /\ r.at = "done" BY <1>11, ResultEnds
  <2>2. r.at \notin Asks BY <2>1 DEF Asks
  <2>3. \A b \in Accounts : x8'[b] = IF b = a THEN r ELSE x8[b]
    BY <2>1 DEF ClaimsInv, ClaimsTyped, Claims!Set
  <2>4. ClaimsTyped'
    <3>1. x8' \in [Accounts -> Waits \cup Ended \cup Workers \cup Writers]
      BY <2>1 DEF ClaimsInv, ClaimsTyped, Claims!Set
    <3> QED BY <1>3, <1>8, <3>1 DEF ClaimsInv, ClaimsTyped
  <2>5. Granted' BY <1>3, <2>1, <2>3 DEF ClaimsInv, Granted, Within
  <2>6. OneWriter'
    <3>1. \A b \in Accounts : x11'[b] \subseteq loaded[b] BY <1>4, <1>8, <1>11
    <3>2. \A b \in Accounts : x11'[b] \subseteq (Claims!Loaded)'[b] BY <1>7, <3>1 DEF loaded
    <3>3. \A b \in Accounts : x8'[b].at # "write" BY <1>9, <2>1, <2>3
    <3> QED BY <1>1, <1>2, <1>3, <1>11, <3>2, <3>3 DEF OneWriter
  <2>7. Refusals' BY <1>3, <2>2, <2>3 DEF ClaimsInv, Refusals
  <2> QED BY <1>10, <2>4, <2>5, <2>6, <2>7 DEF ClaimsInv
<1>12. CASE x9' = a /\ Claims!Set(a, [at |-> "write", days |-> [loaded EXCEPT ![a] = @ \cup {date}]])
  <2> DEFINE days == [loaded EXCEPT ![a] = @ \cup {date}]
             r == [at |-> "write", days |-> days]
  <2>1. /\ days \in Histories
        /\ \A b \in Accounts : days[b] = IF b = a THEN loaded[b] \cup {date} ELSE loaded[b]
    BY <1>2, <1>4 DEF Histories
  <2> HIDE DEF days
  <2>2. r \in Writers /\ r.at = "write" /\ r.days = days BY <2>1 DEF Writers
  <2>3. Claims!Set(a, r) BY <1>12 DEF days
  <2> HIDE DEF r
  <2>4. \A b \in Accounts : x8'[b] = IF b = a THEN r ELSE x8[b]
    BY <2>3 DEF ClaimsInv, ClaimsTyped, Claims!Set
  <2>5. r.at \notin Asks /\ r.at # "record" BY <2>2 DEF Asks
  <2>6. ClaimsTyped'
    <3>1. x8' \in [Accounts -> Waits \cup Ended \cup Workers \cup Writers]
      BY <2>2, <2>3 DEF ClaimsInv, ClaimsTyped, Claims!Set
    <3> QED BY <1>3, <1>8, <3>1 DEF ClaimsInv, ClaimsTyped
  <2>7. Within(days) BY <1>2, <1>4, <2>1 DEF Within
  <2>8. Granted' BY <1>3, <1>9, <2>2, <2>4, <2>5, <2>7 DEF ClaimsInv, Granted, Within
  <2>9. OneWriter'
    <3>1. \A b \in Accounts : x11'[b] \subseteq days[b] BY <1>4, <1>8, <2>1
    <3> QED BY <1>2, <1>3, <1>9, <1>12, <2>2, <2>4, <3>1, RouterAssumption DEF OneWriter
  <2>10. Refusals' BY <1>3, <2>4, <2>5 DEF ClaimsInv, Refusals
  <2> QED BY <1>10, <2>6, <2>8, <2>9, <2>10 DEF ClaimsInv
<1> QED BY <1>6, <1>11, <1>12

LEMMA EndWriteInv ==
    ASSUME ClaimsInv, NEW a \in Accounts, Claims!EndWrite(a)
    PROVE  ClaimsInv'
<1> DEFINE days == x8[a].days
<1>1. x8[a].at = "write" BY DEF Claims!EndWrite
<1>2. x8[a] \in Writers
  BY <1>1 DEF ClaimsInv, ClaimsTyped, Asks, Waits, Ended, Workers
<1>3. days \in Histories /\ Within(days) /\ \A b \in Accounts : x11[b] \subseteq days[b]
  BY <1>1, <1>2 DEF ClaimsInv, Granted, OneWriter, Writers
<1>4. /\ x4' = [whole |-> TRUE, days |-> days] /\ x9' = NoAccount
      /\ UNCHANGED <<x1, x2, x3, x5, x6, x7, x11, x12, x13>>
  BY DEF Claims!EndWrite, Claims!world, Claims!ghosts
<1>5. PICK r \in Ended : Claims!Set(a, r) /\ r.at = "done" BY ResultEnds DEF Claims!EndWrite
<1>6. r.at \notin Asks /\ r.at # "record" /\ r.at # "write" BY <1>5 DEF Asks
<1>7. \A b \in Accounts : x8'[b] = IF b = a THEN r ELSE x8[b]
  BY <1>5 DEF ClaimsInv, ClaimsTyped, Claims!Set
<1> HIDE DEF days
<1>8. x4' \in [whole : BOOLEAN, days : Histories] /\ x4'.days = days /\ (Claims!Loaded)' = days
  BY <1>3, <1>4 DEF Claims!Loaded
<1>9. ClaimsTyped'
  <2>1. x8' \in [Accounts -> Waits \cup Ended \cup Workers \cup Writers]
    BY <1>5 DEF ClaimsInv, ClaimsTyped, Claims!Set
  <2> QED BY <1>4, <1>8, <2>1 DEF ClaimsInv, ClaimsTyped
<1>10. Granted' BY <1>3, <1>4, <1>6, <1>7, <1>8 DEF ClaimsInv, Granted, Within
<1>11. OneWriter'
  <2>1. x9 = a /\ \A b \in Accounts : x8[b].at = "write" => b = a
    BY <1>1 DEF ClaimsInv, OneWriter
  <2>2. x7 # "none" BY <1>1 DEF ClaimsInv, OneWriter, Claims!NoWork
  <2> QED BY <1>3, <1>4, <1>6, <1>7, <1>8, <2>1, <2>2 DEF OneWriter
<1>12. Refusals' BY <1>4, <1>6, <1>7 DEF ClaimsInv, Refusals
<1>13. Attempted' BY <1>4 DEF ClaimsInv, Attempted
<1> QED BY <1>9, <1>10, <1>11, <1>12, <1>13 DEF ClaimsInv

-----------------------------------------------------------------------------
\* Batches, windows and crashes.

\* All workers begin or end at once, and none of them writes.
LEMMA WorkersReset ==
    ASSUME ClaimsInv, NEW w \in Waits, x8' = [a \in Accounts |-> w],
           x7' = "none" => w = Claims!NoWork,
           x9 = NoAccount, UNCHANGED <<x1, x2, x3, x4, x5, x9, x11, x12>>,
           x6' \in [window : Nat, attempts : 0..2, resting : BOOLEAN, waits : BOOLEAN],
           x13' \in Nat, Attempted'
    PROVE  ClaimsInv'
<1>1. w.at \notin Asks /\ w.at # "record" /\ w.at # "write" BY DEF Waits, Asks
<1>2. \A a \in Accounts : x8'[a] = w OBVIOUS
<1>3. ClaimsTyped' BY DEF ClaimsInv, ClaimsTyped
<1>4. Granted' BY <1>1, <1>2 DEF ClaimsInv, Granted, Within
<1>5. OneWriter' BY <1>1, <1>2 DEF ClaimsInv, OneWriter, Claims!Loaded
<1>6. Refusals' BY <1>1, <1>2 DEF ClaimsInv, Refusals
<1> QED BY <1>3, <1>4, <1>5, <1>6 DEF ClaimsInv

LEMMA NobodyWrites ==
    ASSUME ClaimsInv, \A a \in Accounts : x8[a].at # "write"
    PROVE  x9 = NoAccount
BY DEF ClaimsInv, OneWriter

LEMMA NoneWrites ==
    ASSUME ClaimsInv, x7 = "none"
    PROVE  x9 = NoAccount
BY NobodyWrites DEF ClaimsInv, OneWriter, Claims!NoWork

\* The workers stay, and what the scheduler remembers may change.
LEMMA WorkersStay ==
    ASSUME ClaimsInv, x7' = "none" => x7 = "none",
           UNCHANGED <<x2, x3, x4, x5, x8, x9, x11, x12>>, x1' \in Nat \ {0},
           x6' \in [window : Nat, attempts : 0..2, resting : BOOLEAN, waits : BOOLEAN],
           x13' \in Nat, Attempted'
    PROVE  ClaimsInv'
<1>1. ClaimsTyped' BY DEF ClaimsInv, ClaimsTyped
<1>2. Granted' BY DEF ClaimsInv, Granted, Within
<1>3. OneWriter' BY DEF ClaimsInv, OneWriter, Claims!Loaded
<1>4. Refusals' BY DEF ClaimsInv, Refusals
<1> QED BY <1>1, <1>2, <1>3, <1>4 DEF ClaimsInv

LEMMA ScheduleInv ==
    ASSUME ClaimsInv, Claims!Schedule
    PROVE  ClaimsInv'
<1> DEFINE now == IF x6.window = x1 THEN x6 ELSE [Claims!Fresh EXCEPT !.window = x1]
           n == now.attempts
<1>1. ~x6.waits /\ n < 2 /\ x6' = [now EXCEPT !.attempts = @ + 1, !.waits = TRUE]
      /\ UNCHANGED <<x1, x2, x3, x4, x5, x9, x11, x12, x13>>
  BY DEF Claims!Schedule, Claims!world, Claims!ghosts
<1>2. /\ x1 \in Nat \ {0} /\ x13 \in Nat
      /\ x6 \in [window : Nat, attempts : 0..2, resting : BOOLEAN, waits : BOOLEAN]
  BY DEF ClaimsInv, ClaimsTyped
<1>3. /\ now \in [window : Nat, attempts : 0..2, resting : BOOLEAN, waits : BOOLEAN]
      /\ now.window = x1
      /\ now = x6 \/ (x6.window # x1 /\ n = 0)
  <2>1. CASE x6.window = x1 BY <1>2, <2>1
  <2>2. CASE x6.window # x1
    <3> DEFINE anew == [window |-> x1, attempts |-> 0, resting |-> FALSE, waits |-> FALSE]
    <3>1. now = anew BY <2>2 DEF Claims!Fresh
    <3>2. /\ anew \in [window : Nat, attempts : 0..2, resting : BOOLEAN, waits : BOOLEAN]
          /\ anew.window = x1 /\ anew.attempts = 0
      BY <1>2
    <3> HIDE DEF now, anew
    <3> QED BY <2>2, <3>1, <3>2
  <2> QED BY <2>1, <2>2
<1>4. x13 <= n BY <1>1, <1>2, <1>3 DEF ClaimsInv, Attempted
<1> HIDE DEF now
<1>5. n \in 0..2 BY <1>3
<1>6. x6' = [now EXCEPT !.attempts = n + 1, !.waits = TRUE] BY <1>1
<1> HIDE DEF n
<1>7. n + 1 \in 0..2 BY <1>1, <1>5
<1>8. /\ x6' \in [window : Nat, attempts : 0..2, resting : BOOLEAN, waits : BOOLEAN]
      /\ x6'.window = x1 /\ x6'.attempts = n + 1 /\ x6'.waits
  BY <1>3, <1>6, <1>7
<1>9. Attempted' BY <1>1, <1>2, <1>4, <1>5, <1>8 DEF Attempted
<1>10. CASE x7 = "none"
  <2>1. x7' = "auto" /\ x8' = [a \in Accounts |-> [at |-> "wait"]]
    BY <1>10 DEF Claims!Schedule, Claims!Waiting
  <2>2. [at |-> "wait"] \in Waits BY DEF Waits
  <2>3. x9 = NoAccount BY <1>10, NoneWrites
  <2> QED BY <1>1, <1>2, <1>8, <1>9, <2>1, <2>2, <2>3, WorkersReset
<1>11. CASE x7 # "none"
  <2>1. UNCHANGED <<x7, x8>> BY <1>11 DEF Claims!Schedule
  <2> QED BY <1>1, <1>2, <1>8, <1>9, <2>1, WorkersStay
<1> QED BY <1>10, <1>11

LEMMA BatchEndsInv ==
    ASSUME ClaimsInv, Claims!BatchEnds
    PROVE  ClaimsInv'
<1> DEFINE failed == x7 = "canceled" \/ "error" \in Claims!Statuses
           waiting == {"paused", "reauthorize"} \intersect Claims!Statuses # {}
           n == IF ~failed /\ ~waiting THEN 2
                ELSE IF Claims!GivenBack(failed, waiting) THEN x6.attempts - 1 ELSE x6.attempts
<1>1. /\ x7' = "none" /\ x8' = [a \in Accounts |-> Claims!NoWork]
      /\ x6' = IF x6.waits THEN [x6 EXCEPT !.attempts = n, !.resting = TRUE, !.waits = FALSE]
               ELSE x6
      /\ x13' = IF x6.waits /\ failed /\ x6.window = x1 /\ x13 <= 2 THEN x13 + 1 ELSE x13
      /\ UNCHANGED <<x1, x2, x3, x4, x5, x9, x11, x12>>
  BY DEF Claims!BatchEnds, Claims!world
<1>2. \A a \in Accounts : x8[a].at # "write" BY DEF Claims!BatchEnds
<1>3. x9 = NoAccount BY <1>2, NobodyWrites
<1>4. /\ x1 \in Nat \ {0} /\ x13 \in Nat /\ x6.attempts \in 0..2 /\ x6.window \in Nat
      /\ x6 \in [window : Nat, attempts : 0..2, resting : BOOLEAN, waits : BOOLEAN]
  BY DEF ClaimsInv, ClaimsTyped
<1>5. x6.waits => n \in 0..2 /\ n >= x6.attempts - 1 /\ (failed => n = x6.attempts)
  <2>1. x6.waits => x6.attempts > 0 BY DEF ClaimsInv, Attempted
  <2> QED BY <1>4, <2>1 DEF Claims!GivenBack
<1> HIDE DEF n, failed
<1>6. /\ x6' \in [window : Nat, attempts : 0..2, resting : BOOLEAN, waits : BOOLEAN]
      /\ x6'.window = x6.window /\ ~x6'.waits
      /\ x6'.attempts = IF x6.waits THEN n ELSE x6.attempts
  BY <1>1, <1>4, <1>5
<1>7. x13' \in Nat BY <1>1, <1>4
<1>8. Attempted'
  <2>1. /\ x6.window <= x1
        /\ x6.window = x1 => x13 <= IF x6.waits THEN x6.attempts - 1 ELSE x6.attempts
        /\ x6.window # x1 => x13 = 0
    BY DEF ClaimsInv, Attempted
  <2>2. CASE x6.waits BY <1>1, <1>4, <1>5, <1>6, <2>1, <2>2 DEF Attempted
  <2>3. CASE ~x6.waits BY <1>1, <1>4, <1>6, <2>1, <2>3 DEF Attempted
  <2> QED BY <2>2, <2>3
<1>9. Claims!NoWork \in Waits BY DEF Claims!NoWork, Waits
<1> QED BY <1>1, <1>3, <1>6, <1>7, <1>8, <1>9, WorkersReset

LEMMA CrashInv ==
    ASSUME ClaimsInv, Claims!Crash
    PROVE  ClaimsInv'
<1> DEFINE torn == \E a \in Accounts : x8[a].at = "write"
<1>1. /\ x5' = x5 /\ x6' = Claims!Fresh /\ x7' = "none"
      /\ x8' = [a \in Accounts |-> Claims!NoWork] /\ x9' = NoAccount /\ x13' = 0
      /\ UNCHANGED <<x1, x2, x3, x12>>
      /\ x4' = IF torn THEN [x4 EXCEPT !.whole = FALSE] ELSE x4
      /\ x11' = IF torn THEN [a \in Accounts |-> {}] ELSE x11
  BY DEF Claims!Crash, Claims!CrashKeeps
<1>2. \A a \in Accounts : x8'[a].at = "none" /\ x8'[a] = Claims!NoWork
  BY <1>1 DEF Claims!NoWork
<1>3. ~torn => x9 = NoAccount BY NobodyWrites
<1>4. x4 \in [whole : BOOLEAN, days : Histories] BY DEF ClaimsInv, ClaimsTyped
<1> HIDE DEF torn
<1>5. /\ x4' \in [whole : BOOLEAN, days : Histories] /\ x4'.days = x4.days
      /\ torn => ~x4'.whole
      /\ ~torn => x4' = x4
  BY <1>1, <1>4
<1>6. x6' \in [window : Nat, attempts : 0..2, resting : BOOLEAN, waits : BOOLEAN]
      /\ x6'.window = 0 /\ ~x6'.waits
  BY <1>1 DEF Claims!Fresh
<1>7. ClaimsTyped'
  <2>1. x11' \in Histories BY <1>1 DEF ClaimsInv, ClaimsTyped, Histories
  <2>2. Claims!NoWork \in Waits BY DEF Claims!NoWork, Waits
  <2> QED BY <1>1, <1>5, <1>6, <2>1, <2>2 DEF ClaimsInv, ClaimsTyped
<1>8. Granted' BY <1>1, <1>2, <1>5 DEF ClaimsInv, Granted, Within
<1>9. OneWriter'
  <2>1. \A b \in Accounts : x11'[b] \subseteq (Claims!Loaded)'[b]
    <3>1. CASE torn BY <1>1, <3>1
    <3>2. CASE ~torn BY <1>1, <1>3, <1>5, <3>2 DEF ClaimsInv, OneWriter, Claims!Loaded
    <3> QED BY <3>1, <3>2
  <2> QED BY <1>1, <1>2, <2>1 DEF OneWriter
<1>10. Refusals' BY <1>1, <1>2 DEF ClaimsInv, Refusals, Asks
<1>11. Attempted' BY <1>1, <1>6 DEF ClaimsInv, ClaimsTyped, Attempted
<1> QED BY <1>7, <1>8, <1>9, <1>10, <1>11 DEF ClaimsInv

LEMMA WindowsInv ==
    ASSUME ClaimsInv,
           \/ Claims!NextWindow \/ Claims!HourOver \/ Claims!AdminCheckin \/ Claims!Cancel
           \/ \E a \in Accounts : Claims!Relogin(a) \/ Claims!ClaimsElsewhere(a)
    PROVE  ClaimsInv'
<1> USE DEF Claims!world, Claims!ghosts
<1>0. /\ x1 \in Nat \ {0} /\ x13 \in Nat
      /\ x6 \in [window : Nat, attempts : 0..2, resting : BOOLEAN, waits : BOOLEAN]
  BY DEF ClaimsInv, ClaimsTyped
<1>1. CASE Claims!NextWindow
  <2>1. x1' = x1 + 1 /\ x13' = 0 /\ UNCHANGED <<x2, x3, x4, x5, x6, x7, x8, x9, x11, x12>>
    BY <1>1 DEF Claims!NextWindow
  <2>2. Attempted' BY <1>0, <2>1 DEF ClaimsInv, Attempted
  <2> QED BY <1>0, <2>1, <2>2, WorkersStay
<1>2. CASE Claims!HourOver
  <2>1. /\ x6' = [x6 EXCEPT !.resting = FALSE]
        /\ UNCHANGED <<x1, x2, x3, x4, x5, x7, x8, x9, x11, x12, x13>>
    BY <1>2 DEF Claims!HourOver
  <2>2. /\ x6' \in [window : Nat, attempts : 0..2, resting : BOOLEAN, waits : BOOLEAN]
        /\ x6'.window = x6.window /\ x6'.waits = x6.waits /\ x6'.attempts = x6.attempts
    BY <1>0, <2>1
  <2>3. Attempted' BY <2>1, <2>2 DEF ClaimsInv, Attempted
  <2> QED BY <1>0, <2>1, <2>2, <2>3, WorkersStay
<1>3. CASE Claims!AdminCheckin
  <2>1. /\ x7 = "none" /\ x7' = "admin" /\ x8' = [a \in Accounts |-> [at |-> "wait"]]
        /\ UNCHANGED <<x1, x2, x3, x4, x5, x6, x9, x11, x12, x13>>
    BY <1>3 DEF Claims!AdminCheckin, Claims!Waiting
  <2>2. [at |-> "wait"] \in Waits /\ x9 = NoAccount BY <2>1, NoneWrites DEF Waits
  <2>3. Attempted' BY <2>1 DEF ClaimsInv, Attempted
  <2> QED BY <1>0, <2>1, <2>2, <2>3, WorkersReset
<1>4. CASE Claims!Cancel
  <2>1. /\ x7' = "canceled" /\ UNCHANGED <<x1, x2, x3, x4, x5, x6, x8, x9, x11, x12, x13>>
    BY <1>4 DEF Claims!Cancel
  <2>2. Attempted' BY <2>1 DEF ClaimsInv, Attempted
  <2> QED BY <1>0, <2>1, <2>2, WorkersStay
<1>5. ASSUME NEW a \in Accounts, Claims!Relogin(a) PROVE ClaimsInv'
  <2>1. /\ x2' = [x2 EXCEPT ![a] = @ + 1]
        /\ UNCHANGED <<x1, x3, x4, x5, x6, x7, x8, x9, x11, x12, x13>>
    BY <1>5 DEF Claims!Relogin
  <2>2. \A b \in Accounts : /\ x2[b] \in Nat /\ x2'[b] = IF b = a THEN x2[b] + 1 ELSE x2[b]
                            /\ \A l \in x12[b] : l \in Nat
    BY <2>1 DEF ClaimsInv, ClaimsTyped, Histories
  <2>3. ClaimsTyped' BY <2>1 DEF ClaimsInv, ClaimsTyped
  <2>4. Granted' BY <2>1 DEF ClaimsInv, Granted, Within
  <2>5. OneWriter' BY <2>1 DEF ClaimsInv, OneWriter, Claims!Loaded
  <2>6. Refusals'
    <3> SUFFICES ASSUME NEW b \in Accounts
                 PROVE  /\ \A l \in x12[b] : l <= x2'[b]
                        /\ x2'[b] \in x12[b] => x5[b].of = x2'[b] /\ x5[b].kind = "login"
                        /\ x8[b].at \in Asks =>
                             x8[b].of <= x2'[b] /\ \A l \in x12[b] : l < x8[b].of
      BY <2>1 DEF Refusals
    <3>1. \A l \in x12[b] : l <= x2[b] BY DEF ClaimsInv, Refusals
    <3>2. x8[b].at \in Asks => x8[b].of \in Nat BY WorkerAt
    <3> QED BY <2>2, <3>1, <3>2 DEF ClaimsInv, Refusals
  <2>7. Attempted' BY <2>1 DEF ClaimsInv, Attempted
  <2> QED BY <2>3, <2>4, <2>5, <2>6, <2>7 DEF ClaimsInv
<1>6. ASSUME NEW a \in Accounts, Claims!ClaimsElsewhere(a) PROVE ClaimsInv'
  <2>1. /\ x3' = [x3 EXCEPT ![a] = @ \cup {x1}]
        /\ UNCHANGED <<x1, x2, x4, x5, x6, x7, x8, x9, x11, x12, x13>>
    BY <1>6 DEF Claims!ClaimsElsewhere
  <2>2. x3' \in Histories /\ \A b \in Accounts : x3[b] \subseteq x3'[b]
    BY <1>0, <2>1 DEF ClaimsInv, ClaimsTyped, Histories
  <2>3. ClaimsTyped' BY <2>1, <2>2 DEF ClaimsInv, ClaimsTyped
  <2>4. Granted' BY <2>1, <2>2 DEF ClaimsInv, Granted, Within
  <2>5. OneWriter' BY <2>1 DEF ClaimsInv, OneWriter, Claims!Loaded
  <2>6. Refusals' BY <2>1 DEF ClaimsInv, Refusals
  <2>7. Attempted' BY <2>1 DEF ClaimsInv, Attempted
  <2> QED BY <2>3, <2>4, <2>5, <2>6, <2>7 DEF ClaimsInv
<1> QED BY <1>1, <1>2, <1>3, <1>4, <1>5, <1>6

LEMMA ClaimsStep ==
    ASSUME ClaimsInv, [Claims!Next]_(Claims!qcvars)
    PROVE  ClaimsInv'
<1>1. CASE UNCHANGED Claims!qcvars
  BY <1>1 DEF Claims!qcvars, ClaimsInv, ClaimsTyped, Granted, Within, OneWriter,
     Claims!Loaded,
     Refusals, Attempted
<1>2. CASE \/ Claims!NextWindow \/ Claims!HourOver \/ Claims!Crash
           \/ Claims!Schedule \/ Claims!AdminCheckin \/ Claims!Cancel \/ Claims!BatchEnds
  BY <1>2, WindowsInv, CrashInv, ScheduleInv, BatchEndsInv
<1>3. ASSUME NEW a \in Accounts,
             \/ Claims!Relogin(a) \/ Claims!ClaimsElsewhere(a) \/ Claims!Look(a)
             \/ Claims!PauseOver(a) \/ Claims!Leave(a) \/ Claims!Take(a) \/ Claims!Claim(a)
             \/ Claims!BeginWrite(a) \/ Claims!EndWrite(a)
             \/ \E answer \in {"ok", "fails", "denied"} : Claims!Probe(a, answer)
             \/ \E answer \in {"ok", "none", "fails", "denied"} : Claims!List(a, answer)
      PROVE  ClaimsInv'
  BY <1>3, WindowsInv, LookInv, PauseOverInv, LeaveBatchInv, TakeInv, ClaimBenefitInv,
     BeginWriteInv,
     EndWriteInv, ProbeInv, ListInv
<1> QED BY <1>1, <1>2, <1>3 DEF Claims!Next

\* A batch of Trae's sends the upstream one claim it accepts a day and records
\* what was confirmed; Qoder's records are true and outlast other workers, a
\* refused login is not sent again, and the scheduler gives up in time
\* (checkinOne, finalizeCheckin, MaintenanceGuard).
THEOREM CheckinsHold ==
    ASSUME NoAccount \notin Calls
    PROVE  MCSpec => []CheckinsFit
<1> DEFINE Safe == /\ part = "trae check-in" => DailyInv
                   /\ part = "qoder check-in" => ClaimsInv
<1>1. MCInit => Safe BY DailyBegin, ClaimsBegin DEF MCInit
<1>2. Safe /\ ChannelsStep => Safe' BY PartSteps, DailyStep, ClaimsStep
<1>3. Safe => CheckinsFit
  BY InvClaimedOnce, InvCheckins DEF CheckinsFit
<1> QED BY <1>1, <1>2, <1>3, PTL DEF MCSpec, ChannelsStep

-----------------------------------------------------------------------------
\* The answers of OpenCode.

AnswerFields ==
    {"at", "kept", "keptUID", "held", "uid", "sure", "original", "originalUID", "node", "kind"}
CallPlaces == {"lane", "sent", "seen", "rebind", "end", "done"}
Wired == {"sent", "seen", "rebind"}

\* A call under way is a record, whatever its other fields are.
IsCall(r) ==
    /\ AnswerFields \subseteq DOMAIN r /\ r = [f \in DOMAIN r |-> r[f]]
    /\ r.at \in CallPlaces /\ r.sure \in BOOLEAN

\* Every answer that is remembered goes with the account it came from.
AnswersNamed(r) ==
    /\ r.held # Open!NoAnswer /\ r.at = "lane" => r.uid = r.held.by
    /\ r.kept # Open!NoAnswer /\ r.at \in {"lane", "sent", "seen", "rebind"} => r.keptUID = r.kept.by
    /\ r.kept # Open!NoAnswer /\ r.at \in {"end", "done"} => r.uid = r.kept.by
    /\ r.original # Open!NoAnswer => r.originalUID = r.original.by
    /\ r.at \in Wired => r.uid = Open!Account(r.node)

\* An answer is not forgotten.
AnswersStay(r) ==
    /\ r.sure => r.kept # Open!NoAnswer
    /\ r.at = "done" /\ r.original # Open!NoAnswer => r.kept # Open!NoAnswer

OpenFits(r) == r = Open!Idle \/ (IsCall(r) /\ AnswersNamed(r) /\ AnswersStay(r))

OpenCallers == {CHOOSE c \in Calls : TRUE}

OpenInv ==
    /\ DOMAIN x8 = OpenCallers /\ x8 = [c \in OpenCallers |-> x8[c]]
    /\ \A c \in OpenCallers : OpenFits(x8[c])

LEMMA OpenBegin == Open!Init => OpenInv
BY DEF Open!Init, OpenInv, OpenFits, OpenCallers

LEMMA InvAnswers == OpenInv => Open!AnswersKept
<1> SUFFICES ASSUME OpenInv, NEW c \in OpenCallers, x8[c].at = "done"
             PROVE  LET r == x8[c] IN
                    /\ r.sure => r.kept # Open!NoAnswer
                    /\ r.original # Open!NoAnswer => r.kept # Open!NoAnswer
                    /\ r.kept # Open!NoAnswer => r.uid = r.kept.by
  BY DEF Open!AnswersKept, OpenCallers
<1>1. x8[c] # Open!Idle BY DEF Open!Idle
<1> QED BY <1>1 DEF OpenInv, OpenFits, AnswersNamed, AnswersStay

LEMMA OneCall ==
    ASSUME OpenInv, NEW c \in OpenCallers, NEW r, Open!Set(c, r), OpenFits(r)
    PROVE  OpenInv'
<1>1. \A d \in OpenCallers : x8'[d] = IF d = c THEN r ELSE x8[d] BY DEF OpenInv, Open!Set
<1>2. DOMAIN x8' = OpenCallers /\ x8' = [d \in OpenCallers |-> x8'[d]] BY DEF OpenInv, Open!Set
<1> QED BY <1>1, <1>2 DEF OpenInv

LEMMA OpenAt ==
    ASSUME OpenInv, NEW c \in OpenCallers, x8[c].at \in CallPlaces
    PROVE  IsCall(x8[c]) /\ AnswersNamed(x8[c]) /\ AnswersStay(x8[c])
<1>1. x8[c] # Open!Idle BY DEF Open!Idle, CallPlaces
<1> QED BY <1>1 DEF OpenInv, OpenFits

LEMMA LaneEndsFits ==
    ASSUME NEW r, NEW answer, IsCall(r), AnswersNamed(r), AnswersStay(r), r.at = "lane",
           answer # Open!NoAnswer => r.uid = answer.by
    PROVE  OpenFits(Open!LaneEnds(r, answer))
<1> DEFINE s == Open!LaneEnds(r, answer)
<1>1. /\ DOMAIN s = DOMAIN r /\ s = [f \in DOMAIN r |-> s[f]] /\ s.at = "lane"
      /\ s.uid = r.uid /\ s.original = r.original /\ s.originalUID = r.originalUID
      /\ s.held = Open!NoAnswer
      /\ s.kept = IF answer = Open!NoAnswer THEN r.kept ELSE answer
      /\ s.keptUID = IF answer = Open!NoAnswer THEN r.keptUID ELSE r.uid
      /\ s.sure \in BOOLEAN /\ (s.sure => r.sure \/ answer # Open!NoAnswer)
  BY DEF Open!LaneEnds, IsCall, AnswerFields
<1> HIDE DEF s
<1>2. IsCall(s) BY <1>1 DEF IsCall, CallPlaces
<1>3. AnswersNamed(s) BY <1>1 DEF AnswersNamed, Wired
<1>4. AnswersStay(s) BY <1>1 DEF AnswersStay
<1> QED BY <1>2, <1>3, <1>4 DEF OpenFits, s

LEMMA GoOnFits ==
    ASSUME NEW r, IsCall(r), AnswersNamed(r), AnswersStay(r), r.at \in Wired
    PROVE  OpenFits(Open!GoOn(r))
<1> DEFINE answer == IF r.kind \in Open!Responses
                     THEN [by |-> Open!Account(r.node), kind |-> r.kind] ELSE Open!NoAnswer
           free == [r EXCEPT !.kind = "none", !.node = NoAccount, !.proxy = NoAccount]
<1>1. answer # Open!NoAnswer => answer.by = r.uid BY DEF AnswersNamed
<1>2. r.kind \in {"ok", "payload", "client", "stale"} => answer # Open!NoAnswer
  BY DEF Open!Responses, Open!NoAnswer
<1>3. /\ DOMAIN free = DOMAIN r /\ free = [f \in DOMAIN r |-> free[f]] /\ free.at = r.at
      /\ free.uid = r.uid /\ free.original = r.original /\ free.originalUID = r.originalUID
      /\ free.held = r.held /\ free.kept = r.kept /\ free.keptUID = r.keptUID
      /\ free.sure \in BOOLEAN /\ (free.sure => r.sure)
  BY DEF IsCall, AnswerFields
<1>4. Open!GoOn(r) =
        IF r.kind \in {"ok", "payload"}
        THEN [free EXCEPT !.at = "end", !.kept = answer, !.held = Open!NoAnswer]
        ELSE IF Open!IsKey(r.node) /\ r.kind \in {"client", "stale"}
             THEN Open!LaneEnds(free, answer)
             ELSE [free EXCEPT !.at = "lane", !.held = answer]
  BY DEF Open!GoOn
<1> HIDE DEF answer, free
<1>5. CASE r.kind \in {"ok", "payload"}
  <2> DEFINE s == [free EXCEPT !.at = "end", !.kept = answer, !.held = Open!NoAnswer]
  <2>1. /\ DOMAIN s = DOMAIN r /\ s = [f \in DOMAIN r |-> s[f]] /\ s.at = "end"
        /\ s.uid = r.uid /\ s.original = r.original /\ s.originalUID = r.originalUID
        /\ s.kept = answer /\ s.sure \in BOOLEAN
    BY <1>3 DEF IsCall, AnswerFields
  <2> HIDE DEF s
  <2>2. IsCall(s) BY <2>1 DEF IsCall, CallPlaces
  <2>3. AnswersNamed(s) BY <1>1, <2>1 DEF AnswersNamed, Wired
  <2>4. AnswersStay(s) BY <1>2, <1>5, <2>1 DEF AnswersStay
  <2> QED BY <1>4, <1>5, <2>2, <2>3, <2>4 DEF OpenFits, s
<1>6. CASE r.kind \notin {"ok", "payload"} /\ Open!IsKey(r.node) /\ r.kind \in {"client", "stale"}
  <2> DEFINE s == Open!LaneEnds(free, answer)
  <2>1. /\ DOMAIN s = DOMAIN r /\ s = [f \in DOMAIN r |-> s[f]] /\ s.at = "lane"
        /\ s.uid = r.uid /\ s.original = r.original /\ s.originalUID = r.originalUID
        /\ s.held = Open!NoAnswer /\ s.kept = answer /\ s.keptUID = r.uid /\ s.sure \in BOOLEAN
    BY <1>2, <1>3, <1>6 DEF IsCall, AnswerFields, Open!LaneEnds
  <2> HIDE DEF s
  <2>2. IsCall(s) BY <2>1 DEF IsCall, CallPlaces
  <2>3. AnswersNamed(s) BY <1>1, <2>1 DEF AnswersNamed, Wired
  <2>4. AnswersStay(s) BY <1>2, <1>6, <2>1 DEF AnswersStay
  <2> QED BY <1>4, <1>6, <2>2, <2>3, <2>4 DEF OpenFits, s
<1>7. CASE r.kind \notin {"ok", "payload"} /\ ~(Open!IsKey(r.node) /\ r.kind \in {"client", "stale"})
  <2> DEFINE s == [free EXCEPT !.at = "lane", !.held = answer]
  <2>1. /\ DOMAIN s = DOMAIN r /\ s = [f \in DOMAIN r |-> s[f]] /\ s.at = "lane"
        /\ s.uid = r.uid /\ s.original = r.original /\ s.originalUID = r.originalUID
        /\ s.held = answer /\ s.kept = r.kept /\ s.keptUID = r.keptUID
        /\ s.sure \in BOOLEAN /\ (s.sure => r.sure)
    BY <1>3 DEF IsCall, AnswerFields
  <2> HIDE DEF s
  <2>2. IsCall(s) BY <2>1 DEF IsCall, CallPlaces
  <2>3. AnswersNamed(s) BY <1>1, <2>1 DEF AnswersNamed, Wired
  <2>4. AnswersStay(s) BY <2>1 DEF AnswersStay
  <2> QED BY <1>4, <1>7, <2>2, <2>3, <2>4 DEF OpenFits, s
<1> QED BY <1>5, <1>6, <1>7

\* doUpstreamTiers starts, for a call or its one retry.
LEMMA EnterFits ==
    ASSUME NEW r, NEW lanes, NEW todo, AnswerFields \subseteq DOMAIN r,
           r = [f \in DOMAIN r |-> r[f]],
           r.original # Open!NoAnswer => r.originalUID = r.original.by
    PROVE  OpenFits(Open!Enter(r, lanes, todo))
<1> DEFINE s == Open!Enter(r, lanes, todo)
<1>1. /\ DOMAIN s = DOMAIN r /\ s = [f \in DOMAIN r |-> s[f]] /\ s.at = "lane"
      /\ s.original = r.original /\ s.originalUID = r.originalUID
      /\ s.held = Open!NoAnswer /\ s.kept = Open!NoAnswer /\ s.sure = FALSE
  BY DEF Open!Enter, AnswerFields
<1> HIDE DEF s
<1>2. IsCall(s) BY <1>1 DEF IsCall, CallPlaces
<1>3. AnswersNamed(s) BY <1>1 DEF AnswersNamed, Wired
<1>4. AnswersStay(s) BY <1>1 DEF AnswersStay
<1> QED BY <1>2, <1>3, <1>4 DEF OpenFits, s

LEMMA StartCallInv ==
    ASSUME OpenInv, NEW c \in OpenCallers, NEW cat, NEW todo, Open!Start(c, cat, todo)
    PROVE  OpenInv'
<1> DEFINE r == [at |-> "lane", route |-> <<>>, lanes |-> <<>>, todo |-> todo, next |-> 1,
                 tries |-> 0, visited |-> 0, sent |-> 0, uid |-> NoAccount, keptUID |-> NoAccount,
                 kept |-> Open!NoAnswer, held |-> Open!NoAnswer, original |-> Open!NoAnswer,
                 originalUID |-> NoAccount, sure |-> FALSE, responses |-> cat.responses,
                 node |-> NoAccount, proxy |-> NoAccount, kind |-> "none"]
<1>1. AnswerFields \subseteq DOMAIN r /\ r = [f \in DOMAIN r |-> r[f]] /\ r.original = Open!NoAnswer
  BY DEF AnswerFields
<1>2. Open!Set(c, Open!Enter(r, Open!Route(cat), todo)) BY DEF Open!Start
<1> HIDE DEF r
<1>3. OpenFits(Open!Enter(r, Open!Route(cat), todo)) BY <1>1, EnterFits
<1> QED BY <1>2, <1>3, OneCall

\* A call in its lane that sends a request, or passes over a key.
LEMMA SendsOrPasses ==
    ASSUME OpenInv, NEW c \in OpenCallers, x8[c].at = "lane", NEW r, Open!Set(c, r),
           IsCall(r),
           \/ r.at = "sent" /\ r.uid = Open!Account(r.node)
           \/ r.at = "lane" /\ r.uid = x8[c].uid,
           r.held = Open!NoAnswer \/ r.held = x8[c].held,
           r.kept = x8[c].kept, r.keptUID = x8[c].keptUID, r.sure = x8[c].sure,
           r.original = x8[c].original, r.originalUID = x8[c].originalUID
    PROVE  OpenInv'
<1>1. AnswersNamed(x8[c]) /\ AnswersStay(x8[c]) BY OpenAt DEF CallPlaces
<1>2. AnswersNamed(r) BY <1>1 DEF AnswersNamed, Wired
<1>3. AnswersStay(r) BY <1>1 DEF AnswersStay
<1> QED BY <1>2, <1>3, OneCall DEF OpenFits

LEMMA SendAnonymousInv ==
    ASSUME OpenInv, NEW c \in OpenCallers, NEW checked \in BOOLEAN, Open!SendAnonymous(c, checked)
    PROVE  OpenInv'
<1> DEFINE r == x8[c]
<1>1. r.at = "lane" BY DEF Open!SendAnonymous, Open!InLane
<1>2. IsCall(r) /\ AnswersNamed(r) /\ AnswersStay(r) BY <1>1, OpenAt DEF CallPlaces
<1>3. PICK p, todo :
        IF checked
        THEN Open!Set(c, [r EXCEPT !.at = "sent", !.sent = @ + 1, !.uid = Open!Anonymous,
                                   !.held = Open!NoAnswer, !.todo = todo,
                                   !.node = <<"anonymous", p>>, !.proxy = p])
        ELSE Open!Set(c, Open!LaneEnds(r, Open!NoAnswer))
  BY DEF Open!SendAnonymous
<1> DEFINE s == [r EXCEPT !.at = "sent", !.sent = @ + 1, !.uid = Open!Anonymous,
                          !.held = Open!NoAnswer, !.todo = todo,
                          !.node = <<"anonymous", p>>, !.proxy = p]
<1> HIDE DEF r
<1>4. CASE checked
  <2>1. /\ DOMAIN s = DOMAIN r /\ s = [f \in DOMAIN r |-> s[f]] /\ s.at = "sent"
        /\ s.uid = Open!Anonymous /\ s.node = <<"anonymous", p>>
        /\ s.held = Open!NoAnswer /\ s.kept = r.kept /\ s.keptUID = r.keptUID /\ s.sure = r.sure
        /\ s.original = r.original /\ s.originalUID = r.originalUID
    BY <1>2 DEF IsCall, AnswerFields
  <2>2. Open!Account(<<"anonymous", p>>) = Open!Anonymous
    BY DEF Open!Account, Open!IsKey, Open!Tiers
  <2>3. Open!Set(c, s) BY <1>3, <1>4
  <2> HIDE DEF s
  <2>4. IsCall(s) BY <1>2, <2>1 DEF IsCall, CallPlaces
  <2>5. s.uid = Open!Account(s.node) BY <2>1, <2>2
  <2> QED BY <1>1, <2>1, <2>3, <2>4, <2>5, SendsOrPasses DEF r
<1>5. CASE ~checked
  <2>1. OpenFits(Open!LaneEnds(r, Open!NoAnswer)) BY <1>1, <1>2, LaneEndsFits
  <2> QED BY <1>3, <1>5, <2>1, OneCall
<1> QED BY <1>4, <1>5

LEMMA SendKeyInv ==
    ASSUME OpenInv, NEW c \in OpenCallers, NEW t \in Open!Tiers, NEW i, NEW usable \in BOOLEAN,
           Open!SendKey(c, t, i, usable)
    PROVE  OpenInv'
<1> DEFINE r == x8[c]
           n == <<t, i>>
<1>1. r.at = "lane" BY DEF Open!SendKey, Open!InLane
<1>2. IsCall(r) /\ AnswersNamed(r) /\ AnswersStay(r) BY <1>1, OpenAt DEF CallPlaces
<1>3. PICK next, proxy : LET moved == [r EXCEPT !.visited = @ + 1, !.next = next] IN
        IF usable THEN Open!Set(c, [moved EXCEPT !.at = "sent", !.tries = @ + 1, !.sent = @ + 1,
                                        !.uid = Open!NodeKey(n), !.held = Open!NoAnswer,
                                        !.node = n, !.proxy = proxy])
        ELSE Open!Set(c, moved)
  BY DEF Open!SendKey
<1> DEFINE moved == [r EXCEPT !.visited = @ + 1, !.next = next]
<1>4. /\ DOMAIN moved = DOMAIN r /\ moved = [f \in DOMAIN r |-> moved[f]] /\ moved.at = "lane"
      /\ moved.uid = r.uid /\ moved.held = r.held /\ moved.kept = r.kept
      /\ moved.keptUID = r.keptUID /\ moved.sure = r.sure
      /\ moved.original = r.original /\ moved.originalUID = r.originalUID
  BY <1>1, <1>2 DEF IsCall, AnswerFields
<1>5. Open!Account(n) = Open!NodeKey(n) BY DEF Open!Account, Open!IsKey
<1> HIDE DEF r, n, moved
<1>6. IsCall(moved) BY <1>2, <1>4 DEF IsCall, CallPlaces
<1>7. CASE usable
  <2> DEFINE s == [moved EXCEPT !.at = "sent", !.tries = @ + 1, !.sent = @ + 1,
                                !.uid = Open!NodeKey(n), !.held = Open!NoAnswer,
                                !.node = n, !.proxy = proxy]
  <2>1. /\ DOMAIN s = DOMAIN r /\ s = [f \in DOMAIN r |-> s[f]] /\ s.at = "sent"
        /\ s.uid = Open!NodeKey(n) /\ s.node = n /\ s.held = Open!NoAnswer
        /\ s.kept = r.kept /\ s.keptUID = r.keptUID /\ s.sure = r.sure
        /\ s.original = r.original /\ s.originalUID = r.originalUID
    BY <1>4, <1>6 DEF IsCall, AnswerFields
  <2>2. Open!Set(c, s) BY <1>3, <1>7 DEF moved
  <2> HIDE DEF s
  <2>3. IsCall(s) BY <1>2, <2>1 DEF IsCall, CallPlaces
  <2> QED BY <1>1, <1>5, <2>1, <2>2, <2>3, SendsOrPasses DEF r
<1>8. CASE ~usable
  <2>1. Open!Set(c, moved) BY <1>3, <1>8 DEF moved
  <2> QED BY <1>1, <1>4, <1>6, <2>1, SendsOrPasses DEF r
<1> QED BY <1>7, <1>8

\* A request on its way, and after its answer.
LEMMA WiredGoes ==
    ASSUME OpenInv, NEW c \in OpenCallers, x8[c].at \in Wired, NEW at \in {"seen", "rebind"},
           NEW r, r = [x8[c] EXCEPT !.at = at] \/ \E kind : r = [x8[c] EXCEPT !.at = at, !.kind = kind],
           Open!Set(c, r)
    PROVE  OpenInv'
<1> DEFINE old == x8[c]
<1>1. IsCall(old) /\ AnswersNamed(old) /\ AnswersStay(old) BY OpenAt DEF Wired, CallPlaces
<1> HIDE DEF old
<1>2. /\ DOMAIN r = DOMAIN old /\ r = [f \in DOMAIN old |-> r[f]] /\ r.at = at
      /\ r.uid = old.uid /\ r.node = old.node /\ r.held = old.held /\ r.kept = old.kept
      /\ r.keptUID = old.keptUID /\ r.sure = old.sure
      /\ r.original = old.original /\ r.originalUID = old.originalUID
  BY <1>1 DEF IsCall, AnswerFields, old
<1>3. IsCall(r) BY <1>1, <1>2 DEF IsCall, CallPlaces
<1>4. AnswersNamed(r) BY <1>1, <1>2 DEF AnswersNamed, Wired, old
<1>5. AnswersStay(r) BY <1>1, <1>2 DEF AnswersStay
<1> QED BY <1>3, <1>4, <1>5, OneCall DEF OpenFits

LEMMA ObservedInv ==
    ASSUME OpenInv, NEW c \in OpenCallers,
           \/ \E kind : Open!Answered(c, kind)
           \/ Open!ObserveFailure(c) \/ Open!ObserveSuccess(c) \/ Open!ObserveOther(c)
           \/ Open!RebindFailed(c)
    PROVE  OpenInv'
<1> DEFINE r == x8[c]
<1>1. r.at \in Wired
  BY DEF Open!Answered, Open!ObserveFailure, Open!ObserveSuccess, Open!ObserveOther,
         Open!RebindFailed, Wired
<1>2. IsCall(r) /\ AnswersNamed(r) /\ AnswersStay(r) BY <1>1, OpenAt DEF Wired, CallPlaces
<1>3. OpenFits(Open!GoOn(r)) BY <1>1, <1>2, GoOnFits
<1>4. \/ \E kind : Open!Set(c, [r EXCEPT !.at = "seen", !.kind = kind])
      \/ Open!Set(c, [r EXCEPT !.at = "rebind"])
      \/ Open!Set(c, Open!GoOn(r))
  BY DEF Open!Answered, Open!ObserveFailure, Open!ObserveSuccess, Open!ObserveOther,
         Open!RebindFailed
<1>5. CASE Open!Set(c, Open!GoOn(r)) BY <1>3, <1>5, OneCall
<1> QED BY <1>1, <1>4, <1>5, WiredGoes

LEMMA OverInv ==
    ASSUME OpenInv, NEW c \in OpenCallers, Open!LaneOver(c) \/ Open!AllOver(c)
    PROVE  OpenInv'
<1> DEFINE r == x8[c]
<1>1. r.at = "lane" BY DEF Open!LaneOver, Open!AllOver
<1>2. IsCall(r) /\ AnswersNamed(r) /\ AnswersStay(r) BY <1>1, OpenAt DEF CallPlaces
<1>3. CASE Open!LaneOver(c)
  <2>1. OpenFits(Open!LaneEnds(r, r.held)) BY <1>1, <1>2, LaneEndsFits DEF AnswersNamed
  <2> QED BY <1>3, <2>1, OneCall DEF Open!LaneOver
<1>4. CASE Open!AllOver(c)
  <2> DEFINE named == Open!Named(r)
             s == [r EXCEPT !.at = "end", !.uid = named]
  <2>1. Open!Set(c, s) BY <1>4 DEF Open!AllOver
  <2>2. r.kept # Open!NoAnswer => named = r.kept.by
    BY <1>1, <1>2 DEF AnswersNamed, Open!Named
  <2> HIDE DEF named, r
  <2>3. /\ DOMAIN s = DOMAIN r /\ s = [f \in DOMAIN r |-> s[f]] /\ s.at = "end"
        /\ s.uid = named /\ s.kept = r.kept /\ s.sure = r.sure
        /\ s.original = r.original /\ s.originalUID = r.originalUID
    BY <1>2 DEF IsCall, AnswerFields
  <2> HIDE DEF s
  <2>4. IsCall(s) BY <1>2, <2>3 DEF IsCall, CallPlaces
  <2>5. AnswersNamed(s) BY <1>2, <2>2, <2>3 DEF AnswersNamed, Wired
  <2>6. AnswersStay(s) BY <1>2, <2>3 DEF AnswersStay
  <2> QED BY <2>1, <2>4, <2>5, <2>6, OneCall DEF OpenFits
<1> QED BY <1>3, <1>4

LEMMA EndsInv ==
    ASSUME OpenInv, NEW c \in OpenCallers,
           Open!Finish(c) \/ \E todo : Open!Retry(c, todo)
    PROVE  OpenInv'
<1> DEFINE r == x8[c]
<1>1. r.at = "end" BY DEF Open!Finish, Open!Retry
<1>2. IsCall(r) /\ AnswersNamed(r) /\ AnswersStay(r) BY <1>1, OpenAt DEF CallPlaces
<1>3. ASSUME NEW todo, Open!Retry(c, todo) PROVE OpenInv'
  <2> DEFINE s == [r EXCEPT !.original = r.kept, !.originalUID = r.uid]
             lanes == Open!Effective(r)
  <2>1. Open!Set(c, Open!Enter(s, lanes, todo)) BY <1>3 DEF Open!Retry
  <2>2. r.kept # Open!NoAnswer => r.uid = r.kept.by BY <1>1, <1>2 DEF AnswersNamed
  <2> HIDE DEF r, lanes
  <2>3. /\ AnswerFields \subseteq DOMAIN s /\ s = [f \in DOMAIN s |-> s[f]]
        /\ s.original = r.kept /\ s.originalUID = r.uid
    BY <1>2 DEF IsCall, AnswerFields
  <2> HIDE DEF s
  <2>4. OpenFits(Open!Enter(s, lanes, todo)) BY <2>2, <2>3, EnterFits
  <2> QED BY <2>1, <2>4, OneCall
<1>4. CASE Open!Finish(c)
  <2> DEFINE s == IF r.original # Open!NoAnswer /\ r.kept.kind # "ok"
                  THEN [r EXCEPT !.at = "done", !.kept = r.original, !.uid = r.originalUID]
                  ELSE [r EXCEPT !.at = "done"]
  <2>1. Open!Set(c, s) BY <1>4 DEF Open!Finish
  <2> HIDE DEF r
  <2>2. /\ DOMAIN s = DOMAIN r /\ s = [f \in DOMAIN r |-> s[f]] /\ s.at = "done"
        /\ s.sure = r.sure /\ s.original = r.original /\ s.originalUID = r.originalUID
        /\ \/ s.kept = r.original /\ s.uid = r.originalUID /\ r.original # Open!NoAnswer
           \/ /\ s.kept = r.kept /\ s.uid = r.uid
              /\ r.original = Open!NoAnswer \/ r.kept.kind = "ok"
    BY <1>2 DEF IsCall, AnswerFields
  <2>3. r.kept.kind = "ok" => r.kept # Open!NoAnswer BY DEF Open!NoAnswer
  <2> HIDE DEF s
  <2>4. IsCall(s) BY <1>2, <2>2 DEF IsCall, CallPlaces
  <2>5. AnswersNamed(s) BY <1>1, <1>2, <2>2 DEF AnswersNamed, Wired
  <2>6. AnswersStay(s) BY <1>2, <2>2, <2>3 DEF AnswersStay
  <2> QED BY <2>1, <2>4, <2>5, <2>6, OneCall DEF OpenFits
<1> QED BY <1>3, <1>4

\* Probes, proxies and cooldowns are none of the call's answers.
LEMMA AroundCalls ==
    ASSUME OpenInv,
           \/ UNCHANGED Open!vars
           \/ \E p \in Open!ProxySet : Open!Probes(p) \/ Open!Flip(p) \/ Open!Cool(<<"anonymous", p>>)
           \/ \E n \in Open!Nodes : Open!Cool(n)
    PROVE  OpenInv'
<1>1. x8' = x8
  BY DEF Open!vars, Open!Probes, Open!ProbeStart, Open!ProbeEnds,
     Open!ProbeUnknown,
         Open!ApplyRestore, Open!ApplyFail, Open!Flip, Open!Cool
<1> QED BY <1>1 DEF OpenInv

LEMMA OpenStep ==
    ASSUME OpenInv, [Open!Next]_(Open!vars)
    PROVE  OpenInv'
<1>1. ASSUME NEW c \in OpenCallers, Open!Leave(c) PROVE OpenInv'
  BY <1>1, OneCall DEF Open!Leave, OpenFits
<1>2. ASSUME NEW c \in OpenCallers, Open!Answering(c) PROVE OpenInv'
  BY <1>2, SendAnonymousInv, SendKeyInv, ObservedInv, OverInv, EndsInv DEF Open!Answering
<1> QED BY <1>1, <1>2, StartCallInv, AroundCalls DEF Open!Next, OpenCallers

\* In OpenCode, the upstream's own refusal reaches the client although a later
\* lane breaks, with the account it was for (doUpstreamTiers).
THEOREM RefusalsReach ==
    MCSpec => [](part = "opencode" => Open!AnswersKept)
<1> DEFINE Safe == part = "opencode" => OpenInv
<1>1. MCInit => Safe BY OpenBegin DEF MCInit
<1>2. Safe /\ ChannelsStep => Safe' BY PartSteps, OpenStep
<1>3. Safe => (part = "opencode" => Open!AnswersKept) BY InvAnswers
<1> QED BY <1>1, <1>2, <1>3, PTL DEF MCSpec, ChannelsStep
=============================================================================
