---------------------------- MODULE TraeCredentials ----------------------------
(***************************************************************************)
(* Refreshing the credential of a Trae identity.  Calls that need a fresh  *)
(* token share one exchange per identity object; each call has its own     *)
(* context, so the leader may leave while others wait.  A rotation must    *)
(* reach the disk, and an import may replace the object at any step.       *)
(***************************************************************************)
EXTENDS Integers, TLC

CONSTANTS
    Callers,
    MaxObjects,   \* identity objects: the first, imports and restarts
    MaxRotations,
    Nobody

Objects == 1..MaxObjects

VARIABLES
    current,  \* the object in r.accounts, or 0 when the account is deleted
    made,     \* objects made so far
    mem,      \* object -> version of the token it holds
    disk,     \* [of, version] in the credential file, of = 0 without one
    needed,   \* objects whose token is about to expire
    dirty,    \* credentialDirty
    flight,   \* object -> leader of its flight, or Nobody
    caller,
    gone      \* callers whose context is cancelled

vars == <<current, made, mem, disk, needed, dirty, flight, caller, gone>>
state == <<current, made, mem, disk, needed, dirty, flight>>

Idle == [at |-> "idle"]
NoFile == [of |-> 0, version |-> 0]

Init ==
    /\ current = 1 /\ made = 1
    /\ mem = [o \in Objects |-> 0]
    /\ disk = [of |-> 1, version |-> 0]
    /\ needed = {} /\ dirty = {}
    /\ flight = [o \in Objects |-> Nobody]
    /\ caller = [c \in Callers |-> Idle]
    /\ gone = {}

Set(c, r) == caller' = [caller EXCEPT ![c] = r]
To(c, step) == Set(c, [caller[c] EXCEPT !.at = step])
Answer(c, result) == Set(c, [caller[c] EXCEPT !.at = "done", !.result = result])

\* A request found the object some time ago; a rejection asks for a new token.
Call(c, o, force) ==
    /\ caller[c] = Idle
    /\ o <= made
    /\ Set(c, [at |-> "look", of |-> o, force |-> force, dirty |-> FALSE,
               changed |-> FALSE, result |-> "none"])
    /\ gone' = gone \ {c}
    /\ UNCHANGED state

\* refreshCredentialsOnce joins the flight of the object, if there is one.
Look(c) ==
    LET o == caller[c].of IN
    /\ caller[c].at = "look"
    /\ CASE c \in gone -> Answer(c, "cancelled")
         [] c \notin gone /\ current # o -> Answer(c, "changed")
         [] c \notin gone /\ current = o /\ flight[o] # Nobody -> To(c, "wait")
         [] OTHER -> Set(c, [caller[c] EXCEPT !.at = "claim", !.dirty = o \in dirty])
    /\ UNCHANGED <<state, gone>>

\* Nothing to do: the token is fresh and on disk.
Fresh(c) ==
    LET o == caller[c].of IN
    /\ caller[c].at = "claim" /\ flight[o] = Nobody
    /\ ~caller[c].force /\ o \notin needed /\ ~caller[c].dirty
    /\ Answer(c, IF c \in gone THEN "cancelled" ELSE "ok")
    /\ UNCHANGED <<state, gone>>

Claim(c) ==
    LET o == caller[c].of IN
    /\ caller[c].at = "claim"
    /\ IF flight[o] # Nobody
       THEN To(c, "wait") /\ UNCHANGED flight
       ELSE /\ caller[c].force \/ o \in needed \/ caller[c].dirty
            /\ flight' = [flight EXCEPT ![o] = c]
            /\ To(c, "lead")
    /\ UNCHANGED <<current, made, mem, disk, needed, dirty, gone>>

-----------------------------------------------------------------------------
\* The leader.

\* Mutant: followers take the leader's result whatever it is.
WokenAnyhow(r, result, changed) == [r EXCEPT !.at = "done", !.result = result]

\* What a follower does with the leader's result: a leader that left does not
\* decide for it.  Published rotations are not repeated.
Woken(r, result, changed) ==
    CASE result = "cancelled" /\ changed -> [r EXCEPT !.at = "look", !.force = FALSE]
      [] result = "cancelled" /\ ~changed -> [r EXCEPT !.at = "look"]
      [] OTHER -> [r EXCEPT !.at = "done", !.result = result]

\* The flight ends: everyone waiting for it wakes up.
Land(c, result, changed) ==
    LET o == caller[c].of IN
    /\ flight' = [flight EXCEPT ![o] = Nobody]
    /\ caller' = [d \in Callers |->
            CASE d = c -> [caller[c] EXCEPT !.at = "done", !.result = result]
              [] d # c /\ caller[d].at = "wait" /\ caller[d].of = o ->
                    IF d \in gone THEN [caller[d] EXCEPT !.at = "done", !.result = "cancelled"]
                    ELSE Woken(caller[d], result, changed)
              [] OTHER -> caller[d]]

\* The deferred clean-up forgets the mark of an object that was replaced.
Kept(o) == IF current = o THEN dirty ELSE dirty \ {o}

Lead(c) ==
    LET o == caller[c].of IN
    /\ caller[c].at = "lead"
    /\ IF c \in gone \/ current # o
       THEN /\ Land(c, IF c \in gone THEN "cancelled" ELSE "changed", FALSE)
            /\ dirty' = Kept(o)
       ELSE To(c, "exchange") /\ UNCHANGED <<flight, dirty>>
    /\ UNCHANGED <<current, made, mem, disk, needed, gone>>

\* RefreshToken or RefreshTokenIfNeeded under the object's lock.
Exchange(c) ==
    LET o == caller[c].of
        asks == caller[c].force \/ o \in needed
    IN  /\ caller[c].at = "exchange"
        /\ asks => mem[o] < MaxRotations
        /\ mem' = IF asks THEN [mem EXCEPT ![o] = @ + 1] ELSE mem
        /\ needed' = needed \ {o}
        /\ dirty' = IF asks THEN dirty \cup {o} ELSE dirty
        /\ Set(c, [caller[c] EXCEPT !.at = "save", !.changed = asks])
        /\ UNCHANGED <<current, made, disk, flight, gone>>

ExchangeFails(c) ==
    /\ caller[c].at = "exchange"
    /\ Land(c, IF c \in gone THEN "cancelled" ELSE "failed", FALSE)
    /\ dirty' = Kept(caller[c].of)
    /\ UNCHANGED <<current, made, mem, disk, needed, gone>>

\* A rotation is saved even if the leader's client left meanwhile.
Saves(c) == caller[c].of \in dirty

\* Mutant: the object is saved without looking whether it is still the current one.
StillAny(o) == TRUE

StillCurrent(o) == current = o

\* Under writeMu, which imports and deletions hold too.
Save(c, written) ==
    LET o == caller[c].of
        now == IF c \in gone THEN "cancelled" ELSE "ok"
    IN  /\ caller[c].at = "save"
        /\ IF ~StillCurrent(o)
           THEN /\ Land(c, "changed", FALSE)
                /\ dirty' = dirty \ {o} /\ UNCHANGED disk
           ELSE IF ~Saves(c)
           THEN Land(c, now, caller[c].changed) /\ UNCHANGED <<disk, dirty>>
           ELSE IF written
           THEN /\ disk' = [of |-> o, version |-> mem[o]]
                /\ dirty' = dirty \ {o}
                /\ Land(c, now, caller[c].changed)
           ELSE Land(c, "unsaved", FALSE) /\ UNCHANGED <<disk, dirty>>
        /\ UNCHANGED <<current, made, mem, needed, gone>>

-----------------------------------------------------------------------------
\* A caller's client leaves, which a waiting caller notices.
Leave(c) ==
    /\ caller[c].at \notin {"idle", "done"} /\ c \notin gone
    /\ gone' = gone \cup {c}
    /\ IF caller[c].at = "wait" THEN Answer(c, "cancelled") ELSE UNCHANGED caller
    /\ UNCHANGED state

Return(c) ==
    /\ caller[c].at = "done"
    /\ Set(c, Idle)
    /\ gone' = gone \ {c}
    /\ UNCHANGED state

\* Time passes.
Age ==
    /\ current # 0
    /\ needed' = needed \cup {current}
    /\ UNCHANGED <<current, made, mem, disk, dirty, flight, caller, gone>>

\* importAccount under writeMu: file, then memory.
Import ==
    /\ made < MaxObjects
    /\ made' = made + 1 /\ current' = made + 1
    /\ disk' = [of |-> made + 1, version |-> 0]
    /\ UNCHANGED <<mem, needed, dirty, flight, caller, gone>>

DeleteAccount ==
    /\ current # 0
    /\ current' = 0 /\ disk' = NoFile
    /\ UNCHANGED <<made, mem, needed, dirty, flight, caller, gone>>

\* The process stops; what is on disk is loaded.
Restart ==
    /\ made < MaxObjects
    /\ made' = made + 1
    /\ current' = IF disk.of = 0 THEN 0 ELSE made + 1
    /\ disk' = IF disk.of = 0 THEN disk ELSE [disk EXCEPT !.of = made + 1]
    /\ mem' = [mem EXCEPT ![made + 1] = disk.version]
    /\ needed' = {} /\ dirty' = {} /\ gone' = {}
    /\ flight' = [o \in Objects |-> Nobody]
    /\ caller' = [c \in Callers |-> Idle]

Next ==
    \/ \E c \in Callers :
        \/ \E o \in Objects, force \in BOOLEAN : Call(c, o, force)
        \/ Look(c) \/ Fresh(c) \/ Claim(c) \/ Lead(c)
        \/ Exchange(c) \/ ExchangeFails(c)
        \/ \E written \in BOOLEAN : Save(c, written)
        \/ Leave(c) \/ Return(c)
    \/ Age \/ Import \/ DeleteAccount \/ Restart

Spec == Init /\ [][Next]_vars

-----------------------------------------------------------------------------
\* The credential file is the current object's; between flights it holds its
\* newest token, unless the object is marked for another try.
RotationsKept ==
    /\ current # 0 => disk.of = current
    /\ current # 0 /\ flight[current] = Nobody /\ current \notin dirty =>
            disk.version = mem[current]

\* Nobody is told it was cancelled because somebody else left.
OwnFate == \A c \in Callers :
    caller[c].at = "done" /\ caller[c].result = "cancelled" => c \in gone
=============================================================================
