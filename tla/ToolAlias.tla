------------------------------- MODULE ToolAlias -------------------------------
(* The names of tools on the way to OpenCode and back.  The free tier wants   *)
(* tools of its own declared, and names that could be taken for one of those  *)
(* are replaced by aliases.  Answers are streamed: a call may name its tool   *)
(* in fragments, and a fragment that may still become an alias or a tool that *)
(* no client can run is held, with the arguments that come meanwhile.         *)
(*                                                                            *)
(* A name is the sequence of the pieces it can be split into.                 *)
EXTENDS Integers, Sequences, FiniteSets, SequencesExt

CONSTANTS Setups,    \* requests: [tools, anonymous, compatible, deltas]
          Official,  \* names of the tools that OpenCode knows
          Core,      \* those declared in place of the client
          Prefix,    \* of every alias
          Digest,    \* of each name, one piece
          Strangers, \* names that nobody declared
          Calls,
          MaxArgs,   \* bound: parts of the arguments of a call
          MaxHeld    \* the limit of what is held, in pieces and parts

VARIABLES setup,     \* the request
          wanted,    \* what the upstream calls, and how much of it was sent
          partial,   \* what is held of a call
          shown,     \* what the client received
          failure, ended

avars == <<setup, wanted, partial, shown, failure, ended>>

-----------------------------------------------------------------------------
\* aliasClientTools

Used == setup.tools
Reserved == (IF setup.compatible THEN Core ELSE {}) \union (Used \intersect Official)

\* Mutant: only a tool of the same name is in the way.
ConflictsSame(name) == name \in Reserved

\* A fragment of a reserved name cannot be told from the name until it ends.
Conflicts(name) == \E r \in Reserved : IsPrefix(name, r)

IsAliased(name) ==
    /\ setup.anonymous \/ Reserved # {}
    /\ setup.anonymous \/ Conflicts(name) \/ IsPrefix(name, Prefix) \/ IsPrefix(Prefix, name)

\* Mutant: a digest is unlike any name of a client.
AliasAnyway(name) == Prefix \o Digest[name]

\* An alias is unlike any tool of the client.
Alias(name) ==
    LET longer(i) == Prefix \o Digest[name] \o [j \in 1..i |-> "_"]
    IN longer(CHOOSE i \in 0..Cardinality(Used) :
                  longer(i) \notin Used /\ \A k \in 0..(i - 1) : longer(k) \in Used)

\* The name of a declared tool in the request that is sent: in its tools, in
\* its choice of a tool and in the calls of its history.
Lowered(name) == IF IsAliased(name) THEN Alias(name) ELSE name

Originals == {n \in Used : IsAliased(n)}
Aliases == {Alias(n) : n \in Originals}
Blocked == Originals \union (IF setup.compatible THEN Core ELSE {})
Restored(name) ==
    IF name \in Aliases THEN CHOOSE n \in Originals : Alias(n) = name ELSE name

Holds(name) == name \notin Aliases /\ \E n \in Aliases \union Blocked : IsPrefix(name, n)

-----------------------------------------------------------------------------
NoCall == [name |-> <<>>, sent |-> 0, pieces |-> 0, args |-> 0]
Empty == [name |-> <<>>, args |-> <<>>]
None == [name |-> <<"">>, args |-> <<>>]

Init ==
    /\ setup \in Setups
    /\ wanted = [c \in Calls |-> NoCall] /\ partial = [c \in Calls |-> None]
    /\ shown = [c \in Calls |-> Empty] /\ failure = "" /\ ended = ""

HeldBytes ==
    LET size(c) == IF partial[c] = None THEN 0 ELSE Len(partial[c].name) + Len(partial[c].args)
    IN MapThenSumSet(size, Calls)

\* The upstream chooses what it calls.
Choose(c) ==
    /\ ended = "" /\ failure = "" /\ wanted[c] = NoCall
    /\ \E name \in {Lowered(n) : n \in Used} \union Blocked \union Strangers :
           wanted' = [wanted EXCEPT ![c].name = name]
    /\ UNCHANGED <<setup, partial, shown, failure, ended>>

Fail(why) == failure' = why /\ UNCHANGED <<partial, shown>>

Shows(c, name, args) ==
    shown' = [shown EXCEPT ![c].name = @ \o Restored(name), ![c].args = @ \o args]

\* Mutant: what was held of the arguments is not in what follows.
ReleaseName(c, candidate, args) ==
    /\ Shows(c, candidate, args)
    /\ partial' = [partial EXCEPT ![c] = None]

\* The name is decided: everything that was held goes out with it.
Release(c, candidate, args) ==
    /\ Shows(c, candidate, partial[c].args \o args)
    /\ partial' = [partial EXCEPT ![c] = None]

Hold(c, candidate, fragment, args) ==
    IF HeldBytes + Len(fragment) + Len(args) > MaxHeld
    THEN Fail("too long")
    ELSE /\ partial' = [partial EXCEPT ![c] =
                [name |-> candidate, args |-> IF @ = None THEN args ELSE @.args \o args]]
         /\ UNCHANGED <<shown, failure>>

\* rewriteChatTool.  An answer of another dialect names its tool at once.
Rewrite(c, fragment, args) ==
    LET before == IF partial[c] = None THEN <<>> ELSE partial[c].name
        candidate == before \o fragment
    IN IF fragment = <<>> /\ partial[c] = None
       THEN Shows(c, <<>>, args) /\ UNCHANGED <<partial, failure>>
       ELSE IF candidate \in Blocked THEN Fail("not executable")
       ELSE IF setup.deltas /\ Holds(candidate) THEN Hold(c, candidate, fragment, args)
       ELSE IF partial[c] = None
       THEN Shows(c, fragment, args) /\ UNCHANGED <<partial, failure>>
       ELSE Release(c, candidate, args) /\ UNCHANGED failure

Event(c, k, a) ==
    LET w == wanted[c] IN
    /\ ended = "" /\ failure = "" /\ w.name # <<>> /\ k + a > 0
    /\ w.sent + k <= Len(w.name) /\ w.args + a <= MaxArgs
    /\ ~setup.deltas => k \in {0, Len(w.name)}
    /\ wanted' = [wanted EXCEPT ![c] = [@ EXCEPT !.sent = @ + k, !.args = @ + a,
                                                 !.pieces = @ + (IF k > 0 THEN 1 ELSE 0)]]
    /\ Rewrite(c, SubSeq(w.name, w.sent + 1, w.sent + k), [i \in 1..a |-> w.args + i])
    /\ UNCHANGED <<setup, ended>>

\* Mutant: a call that is not named is left out.
IncompleteNever == FALSE

\* Names are still held.
Incomplete == \E c \in Calls : partial[c] # None

\* The choice ends, or the stream; a frame that was cut is an error as well.
Finish(cut) ==
    /\ ended = "" /\ failure = ""
    /\ IF Incomplete THEN failure' = "incomplete name"
       ELSE IF cut THEN failure' = "cut" ELSE failure' = ""
    /\ ended' = IF Incomplete \/ cut THEN "error" ELSE "ok"
    /\ UNCHANGED <<setup, wanted, partial, shown>>

Next ==
    \/ \E c \in Calls :
        \/ Choose(c)
        \/ \E k \in 0..Len(wanted[c].name), a \in 0..1 : Event(c, k, a)
    \/ \E cut \in BOOLEAN : Finish(cut)

-----------------------------------------------------------------------------
IsDeclared(c) == \E n \in Used : Lowered(n) = wanted[c].name
Complete(c) == wanted[c].sent = Len(wanted[c].name)

\* A call that the upstream may make: an alias in any fragments, another name
\* in one piece.
Lawful(c) ==
    \/ wanted[c] = NoCall
    \/ IsDeclared(c) /\ wanted[c].name \in Aliases
    \/ /\ IsDeclared(c) /\ wanted[c].pieces <= 1
       /\ wanted[c].sent \in {0, Len(wanted[c].name)}

\* The client never sees a name that it did not declare in place of one it
\* did, nor a fragment of an alias; never a tool that was only declared for it.
OwnNames ==
    \A c \in Calls :
        /\ Lawful(c) => shown[c].name \in {<<>>, Restored(wanted[c].name)}
        /\ wanted[c].name \in Blocked => shown[c].name = <<>>

\* A stream that ended well held nothing back: every call that began to be named
\* has its whole name and its arguments, in their order.
NothingHeldBack ==
    ended = "ok" =>
        \A c \in Calls :
            (Lawful(c) /\ wanted[c].sent > 0) =>
                shown[c] = [name |-> Restored(wanted[c].name),
                            args |-> [i \in 1..wanted[c].args |-> i]]

\* A stream fails for a reason: it was cut, holds too much or broke the rules.
FailsJustly ==
    failure # "" =>
        \/ failure \in {"cut", "too long"}
        \/ \E c \in Calls : ~Lawful(c) \/ ~Complete(c)

\* What is sent upstream can be told apart there and here.
NamesApart ==
    \A n, m \in Used :
        /\ n # m => Lowered(n) # Lowered(m)
        /\ Lowered(n) \notin Blocked
        /\ ~\E r \in Aliases \union Blocked : r # Lowered(n) /\ IsPrefix(Lowered(n), r)

AliasesReturn == OwnNames /\ NothingHeldBack /\ FailsJustly /\ NamesApart
===============================================================================
