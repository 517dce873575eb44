----------------------------- MODULE Conversation -----------------------------
(* A conversation through internal/core/protocol, turn after turn: the        *)
(* client keeps its history in its own dialect, PrepareRequest converts it    *)
(* for the upstream of the moment, ConvertResponse converts the answer back,  *)
(* and the client adds it to the history it will send next.                   *)
(*                                                                            *)
(* A piece of a message is a record with the tokens it says, numbered in the  *)
(* order they are first said; what a wire format writes around it is left     *)
(* out.  A message is a turn of pieces; an item of Responses that is no       *)
(* message is a turn of its own with the role "item".  Developer messages go  *)
(* the way of system messages, and tools and sampling fields are not kept.    *)
EXTENDS Integers, Sequences, FiniteSets, SequencesExt

CONSTANTS Clients,     \* the dialects clients speak
          Upstreams,   \* the dialects upstreams speak
          Openings,    \* what a client may say first
          Answers,     \* what an upstream may answer, see Reply
          MaxTurns     \* bound: steps of a conversation

VARIABLES client,    \* the client's dialect
          upstream,  \* the dialect of the upstream in use
          history,   \* the client's messages, in its dialect
          truth,     \* what was said, by whom, whatever was converted since
          owed,      \* calls the client has not answered
          orderly,   \* has the client answered every call once, before going on?
          steps

cvars == <<client, upstream, history, truth, owed, orderly, steps>>

Piece(kind, id, how, toks) == [kind |-> kind, id |-> id, how |-> how, toks |-> toks]
Turn(role, pieces) == [role |-> role, pieces |-> pieces]

Of(pieces, kinds) == SelectSeq(pieces, LAMBDA p : p.kind \in kinds)
Content == {"text", "image", "file"}
Toks(pieces) == FlattenSeq([i \in DOMAIN pieces |-> pieces[i].toks])
Pieces(turns) == FlattenSeq([i \in DOMAIN turns |-> turns[i].pieces])

Placeholder == 0     \* what stands for thinking that cannot be shown

-----------------------------------------------------------------------------
\* decodeBridgeRequest: messages of the client become messages of the bridge.

\* In Chat the thinking, the content and the calls of a message are fields.
DecodeChat(turns) ==
    LET Decoded(t) ==
            IF t.role = "tool" THEN Turn("user", t.pieces)
            ELSE Turn(t.role, Of(t.pieces, {"reasoning"}) \o Of(t.pieces, Content)
                              \o Of(t.pieces, {"call"}))
    IN [i \in DOMAIN turns |-> Decoded(turns[i])]

OnlyTools(pieces) == pieces # <<>> /\ Of(pieces, {"call", "result"}) = pieces

\* An item joins the message before it only if that one is of the same side
\* and holds nothing but calls or results.
AppendBridgeBlock(messages, role, piece) ==
    IF messages # <<>> /\ Last(messages).role = role /\ OnlyTools(Last(messages).pieces)
    THEN Append(Front(messages), Turn(role, Append(Last(messages).pieces, piece)))
    ELSE Append(messages, Turn(role, <<piece>>))

DecodeResponses(turns) ==
    LET Item(messages, t) ==
            IF t.role # "item" THEN Append(messages, t)
            ELSE AppendBridgeBlock(messages,
                     IF t.pieces[1].kind = "result" THEN "user" ELSE "assistant", t.pieces[1])
    IN FoldLeft(Item, <<>>, turns)

Decode(dialect, turns) ==
    CASE dialect = "chat" -> DecodeChat(turns)
      [] dialect = "responses" -> DecodeResponses(turns)
      [] dialect = "anthropic" -> turns

-----------------------------------------------------------------------------
\* encodeBridgeRequest: messages of the bridge become messages of the upstream.

\* Chat has one text for the thinking of a message, and no signature.
ReasoningText(pieces) ==
    IF pieces = <<>> THEN <<>>
    ELSE <<Piece("reasoning", 0, "plain",
                 FlattenSeq([i \in DOMAIN pieces |->
                     IF pieces[i].how = "sealed" THEN <<Placeholder>> ELSE pieces[i].toks]))>>

\* The images of a result (it says its text first) follow all results of the
\* turn, in user messages.
ToolTurns(order, results) ==
    LET result(id) == CHOOSE p \in results : p.id = id
        drawn == SelectSeq(order, LAMBDA id : result(id).how = "images")
    IN [i \in DOMAIN order |->
           Turn("tool", <<Piece("result", order[i], "text", <<result(order[i]).toks[1]>>)>>)]
       \o [i \in DOMAIN drawn |->
              Turn("user", <<Piece("image", drawn[i], "data", Tail(result(drawn[i]).toks))>>)]

NewChat == [ok |-> TRUE, out |-> <<>>, pending |-> {}, order |-> <<>>, results |-> {},
            deferred |-> <<>>, carried |-> FALSE, bearer |-> FALSE]

Ids(pieces) == {pieces[i].id : i \in DOMAIN pieces}

\* Mutant: an assistant message is not held to the results it owes.
ChatAssistantAnyway(s, m) ==
    LET calls == Of(m.pieces, {"call"})
        turn == Turn("assistant", ReasoningText(Of(m.pieces, {"reasoning"}))
                                  \o Of(m.pieces, Content) \o calls)
    IN [s EXCEPT !.pending = @ \union Ids(calls),
                 !.order = @ \o [i \in DOMAIN calls |-> calls[i].id],
                 !.out = IF turn.pieces = <<>> THEN @ ELSE Append(@, turn),
                 !.bearer = @ \/ (turn.pieces # <<>> /\ ~s.carried),
                 !.carried = TRUE]

\* An assistant message: nothing may be owed, its calls have a name and an id
\* each.  The first one carries the budget, on the wire if it says anything.
ChatAssistant(s, m) ==
    LET calls == Of(m.pieces, {"call"})
        fits == /\ s.pending = {}
                /\ Of(m.pieces, {"result"}) = <<>>
                /\ \A i \in DOMAIN calls : calls[i].id # 0 /\ calls[i].how # "nameless"
                /\ Cardinality(Ids(calls)) = Len(calls)
        turn == Turn("assistant", ReasoningText(Of(m.pieces, {"reasoning"}))
                                  \o Of(m.pieces, Content) \o calls)
    IN IF ~fits THEN [s EXCEPT !.ok = FALSE]
       ELSE [s EXCEPT !.pending = Ids(calls),
                      !.order = @ \o [i \in DOMAIN calls |-> calls[i].id],
                      !.out = IF turn.pieces = <<>> THEN @ ELSE Append(@, turn),
                      !.bearer = @ \/ (turn.pieces # <<>> /\ ~s.carried),
                      !.carried = TRUE]

FlushDeferred(s) ==
    [s EXCEPT !.out = @ \o [i \in DOMAIN s.deferred |-> Turn("user", s.deferred[i])],
              !.deferred = <<>>]

\* Mutant: what the user says while results are owed is passed on at once.
ChatUserAtOnce(s, m) ==
    LET results == Of(m.pieces, {"result"})
        content == Of(m.pieces, Content)
        s1 == [s EXCEPT !.pending = @ \ Ids(results), !.results = @ \union ToSet(results),
                        !.out = IF content = <<>> THEN @ ELSE Append(@, Turn("user", content))]
    IN IF ~(Ids(results) \subseteq s.pending /\ Cardinality(Ids(results)) = Len(results))
       THEN [s EXCEPT !.ok = FALSE]
       ELSE IF s1.pending = {} /\ s1.order # <<>>
            THEN [s1 EXCEPT !.out = @ \o ToolTurns(s1.order, s1.results),
                            !.order = <<>>, !.results = {}]
            ELSE s1

\* A user message: its results must be owed; what it says besides waits for
\* the last of them, and then all results are written in the order of the calls.
ChatUser(s, m) ==
    LET results == Of(m.pieces, {"result"})
        content == Of(m.pieces, Content)
        fits == /\ Of(m.pieces, {"call"}) = <<>>
                /\ Ids(results) \subseteq s.pending
                /\ Cardinality(Ids(results)) = Len(results)
        s1 == [s EXCEPT !.pending = @ \ Ids(results), !.results = @ \union ToSet(results)]
        waits == s.order # <<>> \/ s.deferred # <<>>
        s2 == IF content = <<>> THEN s1
              ELSE IF waits THEN [s1 EXCEPT !.deferred = Append(@, content)]
              ELSE [s1 EXCEPT !.out = Append(@, Turn("user", content))]
    IN IF ~fits THEN [s EXCEPT !.ok = FALSE]
       ELSE IF s2.pending = {} /\ s2.order # <<>>
            THEN FlushDeferred([s2 EXCEPT !.out = @ \o ToolTurns(s2.order, s2.results),
                                          !.order = <<>>, !.results = {}])
            ELSE s2

\* The fold over the messages; without an assistant message, an empty one at
\* the end carries the budget there may be.
EncodeChat(messages) ==
    LET Step(s, m) ==
            IF ~s.ok THEN s
            ELSE IF m.role = "assistant" THEN ChatAssistant(s, m) ELSE ChatUser(s, m)
        end == FoldLeft(Step, NewChat, messages)
    IN [ok |-> end.ok /\ end.pending = {}, turns |-> FlushDeferred(end).out,
        bears |-> end.bearer \/ ~end.carried]

\* Responses takes only thinking that an upstream of its kind issued or sealed.
ResponsesKeeps(piece) == piece.kind # "reasoning" \/ piece.how \in {"issued", "sealed"}

\* Everything but content is an item of its own and parts the content.
EncodeResponses(messages) ==
    LET Split(role, pieces) ==
            FoldLeft(LAMBDA items, p :
                IF p.kind \notin Content THEN Append(items, Turn("item", <<p>>))
                ELSE IF items # <<>> /\ Last(items).role = role
                THEN Append(Front(items), Turn(role, Append(Last(items).pieces, p)))
                ELSE Append(items, Turn(role, <<p>>)), <<>>, pieces)
        \* A dropped piece of thinking parts the content all the same.
        Kept(items) == SelectSeq(items, LAMBDA t : ResponsesKeeps(t.pieces[1]))
    IN FlattenSeq([i \in DOMAIN messages |->
                      Kept(Split(messages[i].role, messages[i].pieces))])

\* Thinking that is not sealed is shown, with the signature there is.
AnthropicPiece(p) ==
    IF p.kind = "reasoning" /\ p.how = "issued" THEN [p EXCEPT !.how = "plain"] ELSE p

AnthropicPieces(pieces) == [i \in DOMAIN pieces |-> AnthropicPiece(pieces[i])]

\* Empty messages go, neighbours of one side become one message.
EncodeAnthropic(messages) ==
    LET Join(turns, m) ==
            LET pieces == AnthropicPieces(m.pieces) IN
            IF pieces = <<>> THEN turns
            ELSE IF turns # <<>> /\ Last(turns).role = m.role
            THEN Append(Front(turns), Turn(m.role, Last(turns).pieces \o pieces))
            ELSE Append(turns, Turn(m.role, pieces))
    IN FoldLeft(Join, <<>>, messages)

\* A file known only by an identifier of another service has no form in Anthropic.
Representable(dialect, messages) ==
    dialect = "anthropic" =>
        \A i \in DOMAIN Pieces(messages) :
            ~(Pieces(messages)[i].kind = "file" /\ Pieces(messages)[i].how = "id")

Body(turns) == [ok |-> TRUE, turns |-> turns, bears |-> FALSE]
Refused == [ok |-> FALSE, turns |-> <<>>, bears |-> FALSE]

Encode(dialect, messages) ==
    IF ~Representable(dialect, messages) THEN Refused
    ELSE CASE dialect = "chat" -> EncodeChat(messages)
           [] dialect = "responses" -> Body(EncodeResponses(messages))
           [] dialect = "anthropic" -> Body(EncodeAnthropic(messages))

ConvertRequest(from, to, turns) ==
    IF from = to THEN Body(turns) ELSE Encode(to, Decode(from, turns))

-----------------------------------------------------------------------------
\* normalizeToolReasoningHistory: turns that call tools must show thinking.

Shows(pieces) == \E i \in DOMAIN pieces : pieces[i].kind = "reasoning" /\ pieces[i].toks # <<>>
Calls(t) == t.role = "assistant" /\ Of(t.pieces, {"call"}) # <<>>
Stub == Piece("reasoning", 0, "plain", <<Placeholder>>)

\* Chat: the field is filled in where it is missing or empty.
ChatHistory(t) ==
    IF Calls(t) /\ ~Shows(t.pieces)
    THEN [t EXCEPT !.pieces = <<Stub>> \o SelectSeq(@, LAMBDA p : p.kind # "reasoning")]
    ELSE t

\* Mutant: sealed thinking is left to an endpoint that cannot read it.
AnthropicHistorySealed(t) ==
    IF ~Calls(t) THEN t
    ELSE IF Of(t.pieces, {"reasoning"}) = <<>> THEN [t EXCEPT !.pieces = <<Stub>> \o @]
    ELSE [t EXCEPT !.pieces = [i \in DOMAIN @ |->
             IF @[i].kind = "reasoning" /\ @[i].how = "signed"
             THEN [@[i] EXCEPT !.how = "plain"] ELSE @[i]]]

\* Anthropic: thinking is shown without signature, and sealed or empty
\* thinking is replaced.
AnthropicHistory(t) ==
    IF ~Calls(t) THEN t
    ELSE IF Of(t.pieces, {"reasoning"}) = <<>> THEN [t EXCEPT !.pieces = <<Stub>> \o @]
    ELSE [t EXCEPT !.pieces = [i \in DOMAIN @ |->
             IF @[i].kind # "reasoning" THEN @[i]
             ELSE IF @[i].how = "sealed" \/ @[i].toks = <<>> THEN Stub
             ELSE [@[i] EXCEPT !.how = "plain"]]]

\* PrepareRequest, where m says that the upstream is of a "vendor" that wants
\* such thinking, or the request itself enables "thinking", or neither.
PrepareRequest(from, to, m, turns) ==
    LET body == ConvertRequest(from, to, turns)
        Each(Op(_)) == [i \in DOMAIN body.turns |-> Op(body.turns[i])]
    IN CASE to = "chat" /\ m # "plain" -> [body EXCEPT !.turns = Each(ChatHistory)]
         [] to = "anthropic" /\ m = "vendor" -> [body EXCEPT !.turns = Each(AnthropicHistory)]
         [] OTHER -> body

Modes == {"plain", "thinking", "vendor"}
Request(m) == PrepareRequest(client, upstream, m, history)

-----------------------------------------------------------------------------
\* ConvertResponse: an answer is taken apart into thinking, text and calls.

\* Mutant: calls without a name are passed on.
UsableAny(calls) == SelectSeq(calls, LAMBDA c : c.how # "")

usableTools(calls) == SelectSeq(calls, LAMBDA c : c.how # "nameless")

\* decodeBridgeResponse, and the calls that encodeBridgeResponse keeps: a
\* call without a name cannot be run, and an answer left without any ends.
DecodeAnswer(answer) ==
    LET calls == Of(answer.pieces, {"call"})
        kept == IF answer.stop = "tool_calls" THEN usableTools(calls) ELSE calls
    IN [thinking |-> Of(answer.pieces, {"reasoning"}), text |-> Of(answer.pieces, {"text"}),
        calls |-> kept,
        stop |-> IF answer.stop = "tool_calls" /\ kept = <<>> THEN "stop" ELSE answer.stop]

\* Chat keeps the last signature with the text of the thinking.
ChatThinking(pieces) ==
    IF \E i \in DOMAIN pieces : pieces[i].how = "signed"
    THEN <<[ReasoningText(pieces)[1] EXCEPT !.how = "signed"]>>
    ELSE ReasoningText(pieces)

\* The text of an answer is one string.
Joined(text) == IF text = <<>> THEN <<>> ELSE <<Piece("text", 0, "data", Toks(text))>>

ItemsOf(pieces) == [i \in DOMAIN pieces |-> Turn("item", <<pieces[i]>>)]
\* Thinking becomes an item with an identifier, its own or a new one.
Issued(p) == IF p.how = "sealed" THEN p ELSE [p EXCEPT !.how = "issued"]

\* encodeBridgeResponse, as the turns the client will keep.
EncodeAnswer(dialect, a) ==
    CASE dialect = "chat" ->
            <<Turn("assistant", ChatThinking(a.thinking) \o Joined(a.text) \o a.calls)>>
      [] dialect = "anthropic" ->
            <<Turn("assistant", AnthropicPieces(a.thinking) \o Joined(a.text) \o a.calls)>>
      [] dialect = "responses" ->
            ItemsOf([i \in DOMAIN a.thinking |-> Issued(a.thinking[i])])
            \o (IF a.text = <<>> THEN <<>> ELSE <<Turn("assistant", Joined(a.text))>>)
            \o ItemsOf(a.calls)

\* An answer of the client's own dialect is passed through as it is.
NativeAnswer(dialect, pieces) ==
    CASE dialect = "responses" ->
            [i \in DOMAIN pieces |->
                IF pieces[i].kind = "text" THEN Turn("assistant", <<pieces[i]>>)
                ELSE Turn("item", <<pieces[i]>>)]
      [] OTHER -> <<Turn("assistant", pieces)>>

ConvertResponse(from, to, answer) ==
    IF from = to THEN [turns |-> NativeAnswer(to, answer.pieces), stop |-> answer.stop]
    ELSE LET a == DecodeAnswer(answer)
         IN [turns |-> EncodeAnswer(to, a), stop |-> a.stop]


-----------------------------------------------------------------------------
\* Reasoning controls.  A level is what a body says of them: the thinking mode
\* and budget of Anthropic, and the effort ("" is not said, "off" says none).

Level(thinking, budget, effort) == [thinking |-> thinking, budget |-> budget, effort |-> effort]
Silent == Level("", 0, "")

budgetForEffort(effort) ==
    CASE effort \in {"minimal", "low"} -> 1024
      [] effort = "high" -> 8192
      [] effort = "xhigh" -> 16384
      [] effort = "max" -> 32768
      [] OTHER -> 4096

effortForThinkingBudget(budget) ==
    CASE budget <= 0 -> "high"
      [] budget >= 32768 -> "max"
      [] budget >= 16384 -> "xhigh"
      [] budget >= 8192 -> "high"
      [] budget > 2048 -> "medium"
      [] OTHER -> "low"

\* Mutant: a budget speaks before the effort that was stated.
ReasoningByBudget(level) ==
    IF level.budget > 0 THEN effortForThinkingBudget(level.budget)
    ELSE CASE level.effort = "off" -> "" [] OTHER -> level.effort

\* A stated effort wins over what the mode or the budget implies.
reasoningEffort(level) ==
    CASE level.effort = "off" -> ""
      [] level.effort \notin {"", "off"} -> level.effort
      [] level.effort = "" /\ level.thinking \in {"enabled", "adaptive"} ->
            effortForThinkingBudget(level.budget)
      [] OTHER -> ""

\* anthropicReasoning: an effort of none silences the rest.
anthropicReasoning(level) == IF level.effort = "off" THEN Silent ELSE level

thinkingFor(effort, budget) ==
    Level("enabled", IF budget > 0 THEN budget ELSE budgetForEffort(effort), effort)

\* A budget the client named is kept, whatever its effort.
anthropicThinking(level) ==
    CASE level.effort = "off" -> Silent
      [] level.effort \notin {"", "off"} -> thinkingFor(level.effort, level.budget)
      [] level.effort = "" /\ level.thinking = "adaptive" -> Level("adaptive", 0, "")
      [] level.effort = "" /\ level.thinking # "disabled"
         /\ (level.thinking = "enabled" \/ level.budget > 0) ->
            thinkingFor(effortForThinkingBudget(level.budget), level.budget)
      [] OTHER -> Silent

responsesReasoning(level) == IF level.thinking = "disabled" THEN "" ELSE reasoningEffort(level)

\* The level in the converted body; in Chat the budget rides on the first
\* assistant message, if that one is written.
ConvertLevel(from, to, level, bears) ==
    LET heard == IF from = "anthropic" THEN anthropicReasoning(level) ELSE level IN
    CASE from = to -> level
      [] from # to /\ to = "chat" ->
            Level("", IF bears THEN heard.budget ELSE 0, reasoningEffort(heard))
      [] from # to /\ to = "responses" -> Level("", 0, responsesReasoning(heard))
      [] from # to /\ to = "anthropic" -> anthropicThinking(heard)

\* Mutant: the budget of a forced level is set without its max_tokens.
ForcedWithoutRoom(level, max, forced) == max

\* applyAnthropicForcedEffort: max_tokens must exceed the budget.
RoomFor(level, max, forced) ==
    IF max > 0 /\ max <= level.budget THEN level.budget + 4096 ELSE max

\* ForcedEffort: a level the operator sets, unless the body states one.
ForcedEffort(dialect, level, max, forced) ==
    LET set == IF dialect = "anthropic" THEN thinkingFor(forced, 0) ELSE Level("", level.budget, forced)
    IN CASE forced = "" \/ level.effort # "" -> [level |-> level, max |-> max]
         [] forced = "none" /\ level.effort = "" ->
               [level |-> IF dialect = "anthropic" THEN Silent ELSE [level EXCEPT !.effort = ""],
                max |-> max]
         [] forced \notin {"", "none"} /\ level.effort = "" ->
               [level |-> set, max |-> IF dialect = "anthropic" THEN RoomFor(set, max, forced) ELSE max]

\* ReasoningEnabled: for a provider with a switch, the mode before the effort.
ReasoningEnabled(level) ==
    CASE level.thinking \in {"enabled", "adaptive"} -> "on"
      [] level.thinking = "disabled" -> "off"
      [] OTHER -> CASE level.effort = "off" -> "off" [] level.effort = "" -> "" [] OTHER -> "on"

-----------------------------------------------------------------------------
\* The parties

\* The number of the next token.
Fresh == 1 + Len(FlattenSeq([i \in DOMAIN truth |-> truth[i].piece.toks]))

\* What was said is on record with its side, piece by piece.
Record(side, pieces) ==
    truth' = truth \o [i \in DOMAIN pieces |-> [side |-> side, piece |-> pieces[i]]]

Side(t) ==
    IF t.role = "assistant" \/ (t.role = "item" /\ t.pieces[1].kind # "result")
    THEN "model" ELSE "user"

Init ==
    /\ client \in Clients /\ upstream \in Upstreams
    /\ history = <<>> /\ truth = <<>> /\ owed = {} /\ orderly = TRUE /\ steps = 0

Step == steps < MaxTurns /\ steps' = steps + 1

\* How a client writes a piece of its own: a message or an item, or, in
\* Anthropic, one more block of the message it is writing.
Written(p) ==
    LET role == IF p.kind # "result" THEN "user"
                ELSE CASE client = "chat" -> "tool"
                       [] client = "responses" -> "item"
                       [] client = "anthropic" -> "user"
    IN IF client = "anthropic" /\ history # <<>> /\ Last(history).role = "user"
       THEN Append(Front(history), Turn("user", Append(Last(history).pieces, p)))
       ELSE Append(history, Turn(role, <<p>>))

\* The user says something, also while calls wait for their results.
Say(kind, how) ==
    LET p == Piece(kind, 0, how, <<Fresh>>) IN
    /\ Step
    /\ history' = Written(p)
    /\ Record("user", <<p>>)
    /\ UNCHANGED <<client, upstream, owed, orderly>>

Outcome(id, how) ==
    Piece("result", id, how, IF how = "text" THEN <<Fresh>> ELSE <<Fresh, Fresh + 1>>)

\* The client answers a call it was given, in whatever order; Chat has no
\* images in results.
Answer(id, how) ==
    LET p == Outcome(id, how) IN
    /\ Step
    /\ id \in owed
    /\ how = "images" => client # "chat"
    /\ owed' = owed \ {id}
    /\ history' = Written(p)
    /\ Record("user", <<p>>)
    /\ UNCHANGED <<client, upstream, orderly>>

\* A client that is wrong answers a call that waits for nothing.
Stray(id) ==
    LET p == Outcome(id, "text") IN
    /\ Step
    /\ orderly /\ id \notin owed
    /\ orderly' = FALSE
    /\ history' = Written(p)
    /\ Record("user", <<p>>)
    /\ UNCHANGED <<client, upstream, owed>>

\* The pieces of an answer: calls are numbered in it, thinking is what the
\* upstream's dialect has, and every piece but a sealed one says one token.
Uttered(template) ==
    LET rank(i) == Cardinality({j \in 1..i : template[j] \in {"call", "nameless"}})
        sealed(i) == Cardinality({j \in 1..i : template[j] = "sealed"})
        tok(i) == <<Fresh + i - 1 - sealed(i)>>
        shown == CASE upstream = "chat" -> "plain"
                   [] upstream = "anthropic" -> "signed"
                   [] upstream = "responses" -> "issued"
    IN [i \in DOMAIN template |->
           CASE template[i] = "call" -> Piece("call", rank(i), "named", tok(i))
             [] template[i] = "nameless" -> Piece("call", rank(i), "nameless", tok(i))
             [] template[i] = "reasoning" -> Piece("reasoning", 0, shown, tok(i))
             [] template[i] = "sealed" -> Piece("reasoning", 0, "sealed", <<>>)
             [] template[i] = "text" -> Piece("text", 0, "data", tok(i))]

\* In Chat an answer has no sealed thinking and no order of its own.
Speaks(template) ==
    /\ upstream = "chat" => "sealed" \notin ToSet(template)
                           /\ ~(\E i, j \in DOMAIN template :
                                  i < j /\ template[i] = "call" /\ template[j] # "call")
    /\ client = upstream => "nameless" \notin ToSet(template)

\* The upstream answers a request that could be converted, and the client
\* keeps the answer; one that does not wait for its results is wrong.
Reply(template) ==
    LET pieces == Uttered(template)
        calls == Of(pieces, {"call"})
        stop == IF calls = <<>> THEN "stop" ELSE "tool_calls"
        answer == ConvertResponse(upstream, client, [pieces |-> pieces, stop |-> stop])
    IN /\ Step
       /\ Speaks(template)
       /\ truth # <<>> /\ Last(truth).side = "user"
       /\ ConvertRequest(client, upstream, history).ok /\ (client = upstream => owed = {})
       /\ history' = history \o answer.turns
       /\ Record("model", SelectSeq(pieces, LAMBDA p : p.how # "nameless"))
       /\ owed' = Ids(usableTools(calls))
       /\ orderly' = (orderly /\ owed = {})
       /\ UNCHANGED <<client, upstream>>

\* The next request goes to an upstream of another kind.
Switch(dialect) ==
    /\ Step
    /\ dialect # upstream /\ truth # <<>> /\ Last(truth).side = "model"
    /\ upstream' = dialect
    /\ UNCHANGED <<client, history, truth, owed, orderly>>

Next ==
    \/ \E o \in Openings : Say(o[1], o[2])
    \/ \E id \in {1, 2}, how \in {"text", "images"} : Answer(id, how)
    \/ \E id \in {1, 2} : Stray(id)
    \/ \E a \in Answers : Reply(a)
    \/ \E u \in Upstreams : Switch(u)

-----------------------------------------------------------------------------
Spoken(side, kinds) ==
    LET IsOwn(e) == e.side = side /\ e.piece.kind \in kinds
        own == SelectSeq(truth, IsOwn)
    IN FlattenSeq([i \in DOMAIN own |-> own[i].piece.toks])

Sent(turns, side, kinds) ==
    LET own == SelectSeq(turns, LAMBDA t : Side(t) = side)
    IN SelectSeq(Toks(Of(Pieces(own), kinds)), LAMBDA n : n # Placeholder)

\* Whatever dialects a conversation passed through, the upstream reads all
\* that was said, once: words and calls in their order, results and pictures,
\* and the thinking where its dialect can carry it.
NothingLost(turns) ==
    /\ \A side \in {"user", "model"} :
           \A kinds \in {{"text", "file"}, {"call"}} : Sent(turns, side, kinds) = Spoken(side, kinds)
    /\ LET sent == Sent(turns, "user", {"result", "image"})
           spoken == Spoken("user", {"result", "image"})
       IN ToSet(sent) = ToSet(spoken) /\ Len(sent) = Len(spoken)
    /\ upstream # "responses" =>
           Sent(turns, "model", {"reasoning"}) = Spoken("model", {"reasoning"})

\* Nothing the user says moves past an answer of the model.
SidesInOrder(turns) ==
    LET Heard(t) == [j \in DOMAIN Toks(t.pieces) |-> <<Side(t), Toks(t.pieces)[j]>>]
        said == FlattenSeq([i \in DOMAIN turns |-> Heard(turns[i])])
    IN \A i, j \in DOMAIN said :
          i < j /\ said[i][1] # said[j][1] /\ Placeholder \notin {said[i][2], said[j][2]}
          => said[i][2] < said[j][2]

\* The result on record for a call, when the client is not wrong.
ResultOf(tok) ==
    LET p == CHOOSE i \in DOMAIN truth : truth[i].piece.toks = <<tok>>
        answers == {q \in DOMAIN truth : q > p /\ truth[q].piece.kind = "result"
                                         /\ truth[q].piece.id = truth[p].piece.id}
    IN truth[CHOOSE q \in answers : \A o \in answers : q <= o].piece.toks[1]

\* A Chat upstream finds right after a message with calls the result of each
\* of them, in their order, and no other result.
ResultsFollow(turns) ==
    upstream = "chat" =>
        LET given(i) == Of(turns[i].pieces, {"call"})
        IN /\ \A i \in DOMAIN turns : \A j \in DOMAIN given(i) :
                 /\ i + j \in DOMAIN turns /\ turns[i + j].role = "tool"
                 /\ turns[i + j].pieces[1].id = given(i)[j].id
                 /\ orderly => turns[i + j].pieces[1].toks[1] = ResultOf(given(i)[j].toks[1])
           /\ \A i \in DOMAIN turns : turns[i].role = "tool" =>
                 \E k \in 1..i - 1 : i - k <= Len(given(k))

\* An item of thinking between two calls of an answer (Responses) parts them.
Parted == \E i \in 1..Len(history) - 1 :
    /\ history[i].role = "item" /\ history[i].pieces[1].kind = "call"
    /\ history[i + 1].role = "item" /\ history[i + 1].pieces[1].kind = "reasoning"

\* A conversation in which every call was answered is accepted whatever the
\* upstream, unless it names a file that the upstream cannot know.
OrderlyAccepted ==
    orderly /\ owed = {} /\ ~Parted /\ Representable(upstream, Decode(client, history))
    => Request("plain").ok

\* A vendor that wants thinking with its calls finds some it can read; any
\* other Anthropic endpoint finds signatures and sealed thinking as they were.
HistoryReadable(mode, turns) ==
    LET thought(i) == Of(turns[i].pieces, {"reasoning"})
    IN /\ upstream = "chat" /\ mode # "plain" =>
             \A i \in DOMAIN turns : Calls(turns[i]) => Shows(thought(i))
       /\ upstream = "anthropic" /\ mode = "vendor" =>
             \A i \in DOMAIN turns : Calls(turns[i]) =>
                 thought(i) # <<>> /\ \A j \in DOMAIN thought(i) :
                     thought(i)[j].how = "plain" /\ thought(i)[j].toks # <<>>
       /\ upstream = "anthropic" /\ mode # "vendor" /\ client = "anthropic" =>
             turns = history

\* What the upstream reads of a converted request, see HistoryKept.
BodyWhole(body) ==
    client # upstream /\ body.ok =>
        NothingLost(body.turns) /\ SidesInOrder(body.turns) /\ ResultsFollow(body.turns)

\* What a client sends arrives whole, in order and in a form the upstream
\* takes, across turns, dialects and changes of upstream.
HistoryKept ==
    /\ OrderlyAccepted
    /\ \A m \in Modes : HistoryReadable(m, Request(m).turns)
    /\ BodyWhole(Request("thinking"))

Efforts == {"low", "medium", "high", "xhigh", "max"}
Budgets == {2048, 9000, 32000}

\* What clients of a dialect say of reasoning.
Controls(dialect) ==
    IF dialect # "anthropic" THEN {Level("", 0, e) : e \in Efforts \union {"", "off"}}
    ELSE {Level(t, 0, e) : t \in {"", "adaptive", "disabled"}, e \in {"", "off", "max"}}
         \union {Level("enabled", b, e) : b \in Budgets, e \in {"", "off", "low"}}

\* A level that was stated arrives, whatever was implied or forced; without
\* one nothing is switched on; and a forced level leaves room for the answer.
StatedWins(level, bears) ==
    \A forced \in {"", "none", "xhigh"}, max \in {4096, 64000} :
        LET body == ForcedEffort(upstream, ConvertLevel(client, upstream, level, bears), max, forced)
        IN /\ level.effort \in Efforts /\ level.thinking # "disabled" =>
                body.level.effort = level.effort
           /\ forced \in {"", "none"} /\ client # upstream
              /\ (level.effort = "off" \/ (level.effort = "" /\ level.thinking \in {"", "disabled"}))
              => body.level = Silent
           /\ upstream = "anthropic" /\ forced = "xhigh" /\ level.effort = "" /\ body.level.effort = forced
              => body.max > body.level.budget

\* A budget survives Chat on its way from Anthropic to Anthropic, whatever the
\* level, unless the first answer of the conversation was empty.
BudgetReturns(level, bears) ==
    LET chat == ConvertLevel("anthropic", "chat", level, bears)
        back == ConvertLevel("chat", "anthropic", chat, bears)
    IN /\ bears /\ level.budget > 0 /\ level.effort # "off" => back.budget = level.budget
       /\ level.thinking # "disabled" =>
             (ReasoningEnabled(back) = "on") = (reasoningEffort(level) # "")

\* What a client asks of the reasoning arrives; each rung of the ladder of
\* efforts is the one its budget stands for.
LevelsKept ==
    LET bears == ConvertRequest("anthropic", "chat", Decode(client, history)).bears IN
    /\ steps <= 2 => \A level \in Controls(client) : StatedWins(level, bears)
    /\ steps <= 2 => \A level \in Controls("anthropic") : BudgetReturns(level, bears)
    /\ \A e \in Efforts : steps = 0 => effortForThinkingBudget(budgetForEffort(e)) = e
=============================================================================
