----------------------------- MODULE ChannelConfig -----------------------------
(***************************************************************************)
(* The configuration of the OpenCode channel while it is edited.  The      *)
(* registry holds the current instance; an instance keeps the settings it  *)
(* was built with.  Administrators save key lists, users import keys with  *)
(* a request to the upstream in between, every instance refreshes the      *)
(* model catalogue and writes its cache, and the process may stop.         *)
(***************************************************************************)
EXTENDS Integers, TLC

CONSTANTS
    Keys,      \* upstream keys
    Saved,     \* key lists administrators save
    Editors,   \* goroutines that import or save
    MaxGen,    \* instances built
    Torn,      \* a configuration file that does not parse
    Nobody

Gens == 1..MaxGen

VARIABLES
    file,     \* the keys in opencode.json, or Torn
    cache,    \* the instance whose catalogue the cache file holds, 0 at first
    cfg,      \* instance -> keys it was built with
    current,  \* Registry: the instance, or 0
    gen,      \* instances built so far
    lock,     \* holder of saveMu
    refresh,  \* instance -> where its refresh task is
    editor,
    told      \* imports that were acknowledged and that no list dropped since

vars == <<file, cache, cfg, current, gen, lock, refresh, editor, told>>

Idle == [at |-> "idle"]

Init ==
    /\ file = {} /\ cache = 0
    /\ cfg = [g \in Gens |-> {}]
    /\ current = 1 /\ gen = 1
    /\ lock = Nobody
    /\ refresh = [g \in Gens |-> "none"]
    /\ editor = [e \in Editors |-> Idle]
    /\ told = {}

Set(e, r) == editor' = [editor EXCEPT ![e] = r]
rest == <<file, cache, cfg, current, gen, lock, refresh, told>>

\* AddAccountByToken: the settings are read, then the upstream validates the key.
ImportBegin(e, k) ==
    /\ editor[e] = Idle /\ current # 0
    /\ Set(e, [at |-> "validate", rt |-> current, key |-> k, keys |-> cfg[current]])
    /\ UNCHANGED rest

ImportValidated(e, ok) ==
    /\ editor[e].at = "validate"
    /\ Set(e, IF ok THEN [at |-> "wait", rt |-> editor[e].rt, key |-> editor[e].key,
                          keys |-> editor[e].keys \cup {editor[e].key}]
              ELSE Idle)
    /\ UNCHANGED rest

\* adminProviderSaveConfig: the current instance saves the list of a page.
AdminSave(e, keys) ==
    /\ editor[e] = Idle /\ current # 0
    /\ Set(e, [at |-> "wait", rt |-> current, key |-> Nobody, keys |-> keys])
    /\ UNCHANGED rest

\* Mutant: a replaced instance may save.
MaySaveAny(rt) == current # 0

\* SaveConfigDoc under saveMu: only the current instance saves.
MaySave(rt) == current = rt

Lock(e) ==
    /\ editor[e].at = "wait" /\ lock = Nobody
    /\ IF MaySave(editor[e].rt)
       THEN lock' = e /\ Set(e, [editor[e] EXCEPT !.at = "write"])
       ELSE UNCHANGED lock /\ Set(e, Idle)
    /\ UNCHANGED <<file, cache, cfg, current, gen, refresh, told>>

\* writeConfigFile truncates the file and writes it.
Truncate(e) ==
    /\ editor[e].at = "write" /\ file # Torn
    /\ file' = Torn
    /\ UNCHANGED <<cache, cfg, current, gen, lock, refresh, editor, told>>

\* The list is written.  A list of an administrator may drop imported keys.
Write(e) ==
    /\ editor[e].at = "write" /\ file = Torn /\ gen < MaxGen
    /\ file' = editor[e].keys
    /\ told' = IF editor[e].key = Nobody THEN told \cap editor[e].keys ELSE told
    /\ gen' = gen + 1
    /\ cfg' = [cfg EXCEPT ![gen + 1] = editor[e].keys]
    /\ refresh' = [refresh EXCEPT ![gen + 1] = "fetch"]
    /\ Set(e, [editor[e] EXCEPT !.at = "replace"] @@ [next |-> gen + 1])
    /\ UNCHANGED <<cache, current, lock>>

\* Registry.Replace accepts the instance that is current; then the replaced one
\* is closed.  A failure closes the new one.
Replace(e) ==
    LET r == editor[e]
        ok == current = r.rt
    IN  /\ r.at = "replace"
        /\ current' = IF ok THEN r.next ELSE current
        /\ lock' = Nobody
        /\ told' = IF ok /\ r.key # Nobody THEN told \cup {r.key} ELSE told
        /\ refresh' = [refresh EXCEPT ![IF ok THEN r.rt ELSE r.next] =
                            IF @ = "none" THEN @ ELSE "cancelled"]
        /\ Set(e, Idle)
        /\ UNCHANGED <<file, cache, cfg, gen>>

-----------------------------------------------------------------------------
\* RefreshModels, by the ticker of the instance or after an import; one task per
\* instance.
Refresh(g) ==
    /\ g <= gen /\ refresh[g] = "none" /\ current = g
    /\ refresh' = [refresh EXCEPT ![g] = "fetch"]
    /\ UNCHANGED <<file, cache, cfg, current, gen, lock, editor, told>>

\* Mutant: the task of a replaced instance publishes what it fetched.
PublishesAny(g) == TRUE

\* A task that was not cancelled publishes if its instance is still the current one.
Publishes(g) == current = g /\ refresh[g] = "fetch"

\* The end of refreshModels under saveMu; catalogues that could not be read are
\* not published.
RefreshEnds(g, fetched) ==
    /\ refresh[g] \in {"fetch", "cancelled"} /\ lock = Nobody
    /\ cache' = IF fetched /\ Publishes(g) THEN g ELSE cache
    /\ refresh' = [refresh EXCEPT ![g] = "none"]
    /\ UNCHANGED <<file, cfg, current, gen, lock, editor, told>>

\* The process stops and starts again; a file that does not parse leaves the
\* channel unregistered.
Restart ==
    /\ gen < MaxGen
    /\ gen' = gen + 1
    /\ current' = IF file = Torn THEN 0 ELSE gen + 1
    /\ cfg' = [cfg EXCEPT ![gen + 1] = IF file = Torn THEN {} ELSE file]
    /\ refresh' = [g \in Gens |-> IF g = gen + 1 /\ file # Torn THEN "fetch" ELSE "none"]
    /\ lock' = Nobody
    /\ editor' = [e \in Editors |-> Idle]
    /\ UNCHANGED <<file, cache, told>>

Next ==
    \/ \E e \in Editors :
        \/ \E k \in Keys : ImportBegin(e, k)
        \/ \E ok \in BOOLEAN : ImportValidated(e, ok)
        \/ \E keys \in Saved : AdminSave(e, keys)
        \/ Lock(e) \/ Truncate(e) \/ Write(e) \/ Replace(e)
    \/ \E g \in Gens : Refresh(g) \/ \E fetched \in BOOLEAN : RefreshEnds(g, fetched)
    \/ Restart

Spec == Init /\ [][Next]_vars

-----------------------------------------------------------------------------
\* An import that was acknowledged is in the file and serves, unless a list of an
\* administrator dropped it or the file was torn by a crash; whoever saves, the
\* file is what the current instance serves.
ImportsKept ==
    lock = Nobody /\ current # 0 => told \subseteq file /\ file = cfg[current]

\* The cache never goes back to a catalogue of an instance that was replaced.
CacheOnward == cache' >= cache

CacheForward == [][CacheOnward]_cache
=============================================================================
