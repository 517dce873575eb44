------------------------------- MODULE Stream -------------------------------
(* What a client of a streamed answer relies on, whatever the protocol: the   *)
(* answer begins once; content comes in blocks that are opened in order,      *)
(* extended only while open and closed once; a normal end comes only when     *)
(* every block is closed; after the end nothing more comes.  Where `single`   *)
(* holds (Anthropic Messages), no block is opened while a text or a thinking  *)
(* block is still open.                                                       *)
EXTENDS Naturals, Sequences

VARIABLES phase, blocks, single

vars == <<phase, blocks, single>>

Init ==
    /\ phase = "idle"
    /\ blocks = <<>>
    /\ single \in BOOLEAN

Begin ==
    /\ phase = "idle"
    /\ phase' = "open"
    /\ UNCHANGED <<blocks, single>>

\* A new block takes the next index, and starts empty.
Open ==
    /\ phase = "open"
    /\ single => \A i \in DOMAIN blocks : blocks[i].open => blocks[i].kind = "tool"
    /\ \E kind \in {"text", "reason", "tool"} :
          blocks' = Append(blocks, [kind |-> kind, open |-> TRUE, body |-> <<>>])
    /\ UNCHANGED <<phase, single>>

Extend(i) ==
    /\ phase = "open"
    /\ blocks[i].open
    /\ Len(blocks'[i].body) > Len(blocks[i].body)
    /\ blocks[i].body = SubSeq(blocks'[i].body, 1, Len(blocks[i].body))
    /\ blocks' = [blocks EXCEPT ![i].body = blocks'[i].body]
    /\ UNCHANGED <<phase, single>>

Close(i) ==
    /\ phase = "open"
    /\ blocks[i].open
    /\ blocks' = [blocks EXCEPT ![i].open = FALSE]
    /\ UNCHANGED <<phase, single>>

Finish ==
    /\ phase = "open"
    /\ \A i \in DOMAIN blocks : ~blocks[i].open
    /\ phase' = "done"
    /\ UNCHANGED <<blocks, single>>

\* An error may end the answer at any point, before its beginning too.
Fail ==
    /\ phase \in {"idle", "open"}
    /\ phase' = "failed"
    /\ UNCHANGED <<blocks, single>>

Next ==
    \/ Begin
    \/ Open
    \/ \E i \in DOMAIN blocks : Extend(i) \/ Close(i)
    \/ Finish
    \/ Fail

Spec == Init /\ [][Next]_vars
=============================================================================
