------------------------------ MODULE MCRequests ------------------------------
(***************************************************************************)
(* What happens to a client's request on its way, for TLC: the conversion  *)
(* of the conversation it carries (Conversation), the lowering of its      *)
(* tools (ClientTools), their names on the free tier (ToolAlias), the      *)
(* choice among them (ToolChoice) and the answer that is streamed back     *)
(* (Transcoder).  They share no state, so a behaviour is of one part.      *)
(***************************************************************************)
EXTENDS Transcoder, TLC

CONSTANTS Absent

VARIABLES part, x1, x2, x3, x4, x5, x6, x7

all == <<x1, x2, x3, x4, x5, x6, x7>>

-----------------------------------------------------------------------------
\* Every pair of dialects; an answer may be empty, think, call twice, think
\* between its calls, hide its thinking or call a tool without a name.
Dialects == {"chat", "anthropic", "responses"}
Answered ==
    {<<>>, <<"reasoning", "text", "call">>, <<"call", "call">>, <<"sealed", "call">>,
     <<"call", "reasoning", "call">>, <<"text", "nameless">>}

Talk == INSTANCE Conversation
    WITH Clients <- Dialects, Upstreams <- Dialects, MaxTurns <- 5,
         Openings <- {<<"text", "data">>, <<"file", "id">>}, Answers <- Answered,
         client <- x1, upstream <- x2, history <- x3, truth <- x4, owed <- x5,
         orderly <- x6, steps <- x7

\* Tools of both kinds, plain or in namespaces, some of which are written alike.
Tool(kind, path, name) == [kind |-> kind, path |-> path, name |-> name]
Plain == Tool("function", <<>>, <<"f">>)
Free == Tool("custom", <<>>, <<"g">>)
Spaced == Tool("custom", <<<<"a">>>>, <<"g">>)
Nested == Tool("function", <<<<"a">>, <<"b">>>>, <<"f">>)
Alike == Tool("custom", <<<<"a", "b">>>>, <<"f">>)
Sibling == Tool("custom", <<<<"a", "b">>>>, <<"g">>)
Aliased == Tool("custom", <<<<"a">>>>, <<"b", "f">>)
Covered == Tool("function", <<>>, <<"a", "g">>)

Lists ==
    {<<Plain, Free>>, <<Spaced, Free>>, <<Nested, Alike>>, <<Nested, Sibling>>,
     <<Nested, Aliased>>, <<Spaced, Covered>>, <<Free, Free>>, <<Plain, Nested>>, <<Nested, Nested>>}
References ==
    {[namespace |-> n, name |-> m] :
        n \in {<<>>, <<"a">>, <<"a", "b">>},
        m \in {<<"f">>, <<"g">>, <<"a", "g">>, <<"a", "b", "f">>}}

Client == INSTANCE ClientTools
    WITH Declared <- Lists, Asked <- References, Keys <- {1, 2},
         tools <- x1, said <- x2, items <- x3, delivered <- x4, got <- x5,
         failure <- x6, ended <- x7

\* Names in the pieces they are streamed in; one client declares a name that
\* starts another's alias, or one of the tools that OpenCode knows.
Reading == <<"re", "ad">>
Shelling == <<"sh">>
Editing == <<"ed", "it">>
Private == <<"my">>
Start == <<"w2">>
Taken == <<"w2", "a_", "4">>
Digests ==
    Reading :> <<"1">> @@ <<"re">> :> <<"2">> @@ Editing :> <<"3">> @@ Private :> <<"4">>
    @@ Start :> <<"5">> @@ Taken :> <<"6">> @@ <<"ed">> :> <<"7">>

Asking(tools, anonymous, compatible, deltas) ==
    [tools |-> tools, anonymous |-> anonymous, compatible |-> compatible, deltas |-> deltas]
Askings ==
    {Asking({Reading, Private}, TRUE, TRUE, TRUE), Asking({Private, Taken}, TRUE, TRUE, FALSE),
     Asking({<<"re">>, Private, Start}, FALSE, TRUE, FALSE),
     Asking({<<"ed">>, Editing, Private}, FALSE, FALSE, TRUE)}

Names == INSTANCE ToolAlias
    WITH Setups <- Askings, Official <- {Reading, Shelling, Editing}, Core <- {Reading, Shelling},
         Prefix <- <<"w2", "a_">>, Digest <- Digests,
         Strangers <- {<<"my", "re">>, <<"x">>}, Calls <- {1, 2}, MaxArgs <- 1, MaxHeld <- 4,
         setup <- x1, wanted <- x2, partial <- x3, shown <- x4, failure <- x5, ended <- x6

\* Requests with tools of every kind that are as the client's dialect has
\* them: only Responses has namespaces, only Anthropic defers.
ATool(kind, group, name, deferred) ==
    [kind |-> kind, group |-> group, name |-> name, deferred |-> deferred]
AFunction == ATool("function", "", <<"f">>, FALSE)
OddFunction == ATool("function", "", <<"f!">>, FALSE)
Hosted == ATool("hosted", "", <<"search">>, FALSE)
FreeText == ATool("custom", "", <<"patch">>, FALSE)
Deferred == ATool("function", "", <<"late">>, TRUE)
Grouped == {ATool("function", "g", <<"f">>, FALSE), ATool("custom", "g", <<"patch">>, FALSE)}

Chosen(mode, kind, group, name) == [mode |-> mode, kind |-> kind, group |-> group, name |-> name]
Modes == {Chosen(m, "", "", <<>>) : m \in {"unstated", "auto", "none", "required"}}
NamedChoices(kinds, groups) ==
    {Chosen("named", k, g, n) : k \in kinds, g \in groups, n \in {<<"f">>, <<"f!">>, <<"patch">>}}

ToolsOf ==
    [chat |-> SUBSET {AFunction, OddFunction, Hosted, FreeText},
     anthropic |-> SUBSET {AFunction, OddFunction, Hosted, Deferred},
     responses |-> {s \cup g : s \in SUBSET {AFunction, Hosted, FreeText}, g \in {{}, Grouped}}]
ChoicesOf ==
    [chat |-> Modes \cup NamedChoices({"function"}, {""})
                 \cup {Chosen("hosted", "", "", <<"search">>)},
     anthropic |-> Modes \cup NamedChoices({"function"}, {""})
                      \cup {Chosen("named", "function", "", <<"late">>)},
     responses |-> Modes \cup NamedChoices({"function", "custom"}, {"", "g"})
                      \cup {Chosen("hosted", "", "", <<"search">>), Chosen("group", "", "g", <<>>)}]
ToolRequests ==
    UNION {[client : {c}, channel : {"chat", "anthropic", "responses", "trae", "workbuddy"},
            tools : ToolsOf[c], choice : ChoicesOf[c],
            found : IF c = "anthropic" THEN {{}, {<<"late">>}} ELSE {{}}] :
           c \in {"chat", "anthropic", "responses"}}

Picked == INSTANCE ToolChoice
    WITH Asked <- ToolRequests, Odd <- {<<"f!">>},
         asked <- x1, step <- x2, tools <- x3, choice <- x4

-----------------------------------------------------------------------------
RequestInit ==
    \/ /\ part = "stream" /\ Init
       /\ x1 = Absent /\ x2 = Absent /\ x3 = Absent /\ x4 = Absent /\ x5 = Absent
       /\ x6 = Absent /\ x7 = Absent
    \/ /\ part = "talk" /\ Init /\ lane = CHOOSE l \in Lanes : TRUE
       /\ Talk!Init
    \/ /\ part = "tools" /\ Init /\ lane = CHOOSE l \in Lanes : TRUE
       /\ Client!Init
    \/ /\ part = "names" /\ Init /\ lane = CHOOSE l \in Lanes : TRUE
       /\ Names!Init /\ x7 = Absent
    \/ /\ part = "choice" /\ Init /\ lane = CHOOSE l \in Lanes : TRUE
       /\ Picked!Init /\ x5 = Absent /\ x6 = Absent /\ x7 = Absent

StreamNext == part = "stream" /\ Next /\ UNCHANGED all
TalkNext == part = "talk" /\ Talk!Next /\ UNCHANGED vars
ToolsNext == part = "tools" /\ Client!Next /\ UNCHANGED vars
NamesNext == part = "names" /\ Names!Next /\ UNCHANGED <<vars, x7>>
ChoiceNext == part = "choice" /\ Picked!Next /\ UNCHANGED <<vars, x5, x6, x7>>

RequestNext ==
    /\ StreamNext \/ TalkNext \/ ToolsNext \/ NamesNext \/ ChoiceNext
    /\ UNCHANGED part

RequestSpec == RequestInit /\ [][RequestNext]_<<part, vars, all>>

-----------------------------------------------------------------------------
\* What a client sends arrives whole, in order and in a form its upstream takes,
\* and with the reasoning it asked for.
ConversationsKept == part = "talk" => Talk!HistoryKept /\ Talk!LevelsKept

\* A tool keeps its identity on its way upstream, and a call of it comes back
\* to the client once, under its own name and with an input that was checked;
\* in fragments as well, and never a tool that was only declared for it; and
\* what the client demands of its tools the upstream is told, or it is refused.
ToolsReturn ==
    /\ part = "tools" => Client!NamesFaithful /\ Client!InputsRestored
    /\ part = "names" => Names!AliasesReturn
    /\ part = "choice" => Picked!ChoiceHonoured

\* A returned call has told its client how it ended, and counts the usage the
\* collapsed one would.
EndsTruthful == TruthfulEnd /\ UsageKept
===============================================================================
