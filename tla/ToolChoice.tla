------------------------------ MODULE ToolChoice ------------------------------
(* Which tools the upstream gets, and which of them it must call: the tools   *)
(* and the tool_choice of a request on their way through the gateway          *)
(* (PrepareClientTools, for Responses clients), the conversion of dialects    *)
(* (ConvertRequest; AnthropicRequestToChat and ResponsesRequestToChat for     *)
(* WorkBuddy) and the last step of a channel.  Each of them may refuse.       *)
(*                                                                            *)
(* A tool is of a kind: a function, a custom tool (free text) or a hosted one *)
(* that only its vendor runs.  Its group is its namespace, "" for none.  The  *)
(* name of a group's tool is hashed on the way (ClientTools); here it stays.  *)
EXTENDS FiniteSets, Sequences

CONSTANTS Asked,   \* requests: [client, channel, tools, choice, found]
          Odd      \* names that WorkBuddy's upstream does not take

VARIABLES asked,   \* the request of the client
          step,    \* "prepare", "convert", "channel", then "sent" or "refused"
          tools,   \* its tools so far
          choice   \* its tool_choice so far: [mode, kind, group, name]

chvars == <<asked, step, tools, choice>>

Choice(mode) == [mode |-> mode, kind |-> "", group |-> "", name |-> <<>>]
Unstated == Choice("unstated")

Init ==
    /\ asked \in Asked
    /\ step = "prepare" /\ tools = asked.tools /\ choice = asked.choice

Becomes(next, ts, c) == step' = next /\ tools' = ts /\ choice' = c /\ UNCHANGED asked
Refuse == step' = "refused" /\ UNCHANGED <<asked, tools, choice>>

IsNamed(t) == t.group = choice.group /\ t.name = choice.name
Functions == {t \in tools : t.kind = "function"}

-----------------------------------------------------------------------------
\* PrepareClientTools, for Responses clients

Lowered(t) == [t EXCEPT !.kind = IF @ = "custom" THEN "function" ELSE @]
LoweredChoice ==
    [choice EXCEPT !.kind = IF @ = "custom" /\ \E t \in tools : t.kind = "custom"
                            THEN "function" ELSE @]

\* Mutant: a namespace is chosen, but the other tools stay.
ChosenGroupKeepsAll == tools

\* The tools of a namespace that was chosen.
ChosenGroup == {t \in tools : t.group = choice.group}

\* A custom tool becomes a function; a choice of a namespace becomes a free
\* one among its tools.
Prepare ==
    /\ step = "prepare"
    /\ IF asked.client # "responses" THEN Becomes("convert", tools, choice)
       ELSE IF choice.mode = "group"
       THEN IF \E t \in tools : t.group = choice.group
            THEN Becomes("convert", {Lowered(t) : t \in ChosenGroup}, Choice("auto"))
            ELSE Refuse
       ELSE IF choice.mode = "named" /\ choice.group # "" /\ ~\E t \in tools : IsNamed(t)
       THEN Refuse
       ELSE Becomes("convert", {Lowered(t) : t \in tools}, LoweredChoice)

-----------------------------------------------------------------------------
\* ConvertRequest, for every channel but WorkBuddy

Dialect == IF asked.channel = "trae" THEN "chat" ELSE asked.channel

\* Mutant: a tool that was left out may still be chosen.
UnfitOfNames ==
    \/ \E t \in tools : t.kind = "custom"
    \/ choice.mode = "required" /\ Functions = {}
    \/ choice.mode = "named" /\ choice.kind = "custom"
    \/ choice.mode = "hosted"

\* FunctionToolSubset leaves out hosted tools, but not one that is needed: it
\* refuses a choice that the functions cannot serve.
Unfit ==
    \/ \E t \in tools : t.kind = "custom"
    \/ choice.mode = "required" /\ Functions = {}
    \/ choice.mode = "named" /\ (choice.kind = "custom" \/ ~\E t \in Functions : IsNamed(t))
    \/ choice.mode = "hosted"

\* An Anthropic client's tools are all taken for functions.
Decoded ==
    IF asked.client = "anthropic" THEN {[t EXCEPT !.kind = "function"] : t \in tools}
    ELSE Functions

\* Mutant: Anthropic is not told that none shall be called.
EncodedNoneUnsaid == Decoded

\* Anthropic is given no tools where the client wants none called.
Encoded == IF Dialect = "anthropic" /\ choice.mode = "none" THEN {} ELSE Decoded

\* It has no word for that; and without tools there is no choice.
EncodedChoice ==
    IF Encoded = {} \/ (Dialect = "anthropic" /\ choice.mode = "none") THEN Unstated ELSE choice

Convert ==
    /\ step = "convert" /\ asked.channel # "workbuddy"
    /\ IF asked.client = Dialect THEN Becomes("channel", tools, choice)
       ELSE IF asked.client # "anthropic" /\ Unfit THEN Refuse
       ELSE Becomes("channel", Encoded, EncodedChoice)

-----------------------------------------------------------------------------
\* The adapters of WorkBuddy

\* Mutant: a deferred tool is not loaded by the choice of it.
LoadedIfFound(t) == ~t.deferred \/ t.name \in asked.found

\* anthropicClientTools: a deferred tool is shown once the conversation found
\* or called it, or if it is chosen.
Loaded(t) ==
    ~t.deferred \/ t.name \in asked.found \/ (choice.mode = "named" /\ IsNamed(t))

\* AnthropicRequestToChat
AdaptAnthropic ==
    /\ step = "convert" /\ asked.channel = "workbuddy" /\ asked.client = "anthropic"
    /\ LET shown == {t \in tools : Loaded(t)}
       IN IF (\E t \in tools : t.kind = "hosted") \/ (tools # {} /\ shown = {}) THEN Refuse
          ELSE Becomes("channel", {[t EXCEPT !.kind = "function"] : t \in shown}, choice)

\* ResponsesRequestToChat; a Chat client's request is taken as it is.
Adapt ==
    /\ step = "convert" /\ asked.channel = "workbuddy" /\ asked.client # "anthropic"
    /\ Becomes("channel", IF asked.client = "responses" THEN Functions ELSE tools, choice)

-----------------------------------------------------------------------------
\* The last step of a channel

\* OpenCode sends what was converted; names are ToolAlias.
OpenCode ==
    /\ step = "channel" /\ asked.channel \in {"chat", "anthropic", "responses"}
    /\ Becomes("sent", tools, choice)

\* Trae's Serve checks once more, also a Chat client's request that nothing
\* converted, and sends no tools where none shall be called.
Trae ==
    /\ step = "channel" /\ asked.channel = "trae"
    /\ IF Unfit THEN Refuse
       ELSE IF choice.mode = "none" THEN Becomes("sent", {}, Unstated)
       ELSE Becomes("sent", Functions, choice)

Alias(name) == <<"w2a_">> \o name
UpstreamName(name) == IF name \in Odd THEN Alias(name) ELSE name

\* NormalizeToolChoice knows functions only; prepareToolNames refuses a tool
\* without a function, and rewrites names the upstream does not take, of tools
\* and of the choice of one.
WorkBuddy ==
    /\ step = "channel" /\ asked.channel = "workbuddy"
    /\ LET kept == IF choice.mode = "none" THEN {} ELSE tools
           chosen == IF choice.mode \in {"none", "hosted"}
                        \/ (choice.mode = "named" /\ choice.kind = "custom")
                     THEN Unstated ELSE choice
           renamed == \E t \in kept : t.name = chosen.name
       IN IF \E t \in kept : t.kind # "function" THEN Refuse
          ELSE Becomes("sent", {[t EXCEPT !.name = UpstreamName(@)] : t \in kept},
                       [chosen EXCEPT !.name = IF renamed THEN UpstreamName(@) ELSE @])

Next == Prepare \/ Convert \/ AdaptAnthropic \/ Adapt \/ OpenCode \/ Trae \/ WorkBuddy

-----------------------------------------------------------------------------
Same(t, u) == t.group = u.group /\ t.name \in {u.name, Alias(u.name)}
Sent(u) == {t \in tools : Same(t, u)}
Callable == {t \in asked.tools : t.kind # "hosted"}
Demanded == {t \in Callable : t.group = asked.choice.group /\ t.name = asked.choice.name}

\* A tool is one that the client declared, and what it demands of its tools is
\* demanded of the upstream: nothing is called where none shall be, something
\* where one must, this tool and no other where it was named, and only the
\* tools of a namespace that was chosen.  Otherwise no callable tool is lost,
\* unless it is deferred; and Trae never gets a choice it has no tool for.
ChoiceHonoured ==
    step = "sent" =>
        /\ \A t \in tools : Cardinality({u \in asked.tools : Same(t, u)}) = 1
        /\ asked.choice.mode = "none" => tools = {} \/ choice.mode = "none"
        /\ asked.choice.mode = "required" /\ Callable # {} =>
              choice.mode = "required" /\ tools # {}
        /\ asked.choice.mode = "named" =>
              \A u \in Demanded : u.kind = asked.choice.kind =>
                  /\ choice.mode = "named" /\ Cardinality(Sent(u)) = 1
                  /\ \A t \in tools : IsNamed(t) <=> t \in Sent(u)
        /\ asked.choice.mode = "group" =>
              /\ tools # {} /\ \A t \in tools : t.group = asked.choice.group
        /\ \A u \in Callable :
              Sent(u) # {} \/ u.deferred \/ asked.choice.mode = "none"
              \/ (asked.choice.mode = "group" /\ u.group # asked.choice.group)
        /\ asked.channel = "trae" /\ choice.mode = "named" => \E t \in tools : IsNamed(t)
===============================================================================
