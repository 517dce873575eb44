----------------------------- MODULE Transcoder -----------------------------
(* One streamed answer on its way through internal/core/protocol: the         *)
(* upstream's SSE frames (in one of three dialects) are parsed into neutral   *)
(* events by bridgeStreamParser, re-emitted in the client's dialect by        *)
(* bridgeStreamEmitter and written one record at a time to a client that may  *)
(* vanish.  opencode first holds frames back (ReadStreamHead) until one of    *)
(* them commits the attempt; a caller without stream:true gets the same       *)
(* frames folded into one document (CollapseStream), kept here as `doc`.      *)
(*                                                                            *)
(* Texts are sequences of tokens numbered in the order the upstream says      *)
(* them; a negative number is a thinking signature, 0 the placeholder for     *)
(* encrypted thinking.  A wire record stands for the group of SSE writes      *)
(* that the code makes without a decision in between.                         *)
EXTENDS Integers, Sequences, FiniteSets, SequencesExt

CONSTANTS Lanes,       \* the dialect pairs in use, see LaneType
          NKeys,       \* how many tool calls the upstream may make
          MaxFrames    \* bound: content frames of one answer

LaneType == [from : {"chat", "anthropic", "responses"},
             to : {"chat", "anthropic", "responses"},
             head : BOOLEAN,                          \* ReadStreamHead first
             odd : SUBSET {"nameless", "length"}]     \* what the upstream may do

ASSUME TranscoderAssumption ==
    /\ Lanes \subseteq LaneType
    /\ NKeys \in Nat
    /\ MaxFrames \in Nat

\* Every pair of dialects in use: trae reads Chat and serves all three without a
\* head; opencode reads any and serves the other two behind one.
Lane(f, t, h, o) == [from |-> f, to |-> t, head |-> h, odd |-> o]

LanesInUse ==
    {Lane("chat", t, FALSE, {"nameless", "length"}) : t \in {"chat", "anthropic"}}
    \union {Lane("chat", "responses", FALSE, {"length"})}
    \union {Lane("chat", "anthropic", TRUE, {"nameless", "length"}),
            Lane("anthropic", "chat", TRUE, {"nameless", "length"}),
            Lane("anthropic", "responses", TRUE, {}),
            Lane("responses", "chat", TRUE, {"nameless", "length"}),
            Lane("responses", "anthropic", TRUE, {"nameless", "length"})}

\* A Responses client of an upstream that leaves calls without a name.
NamelessLanes == {Lane("chat", "responses", FALSE, {"nameless"})}

VARIABLES lane,      \* the dialects of this answer
          said,      \* what the upstream has said, frame by frame
          held,      \* frames read by the head and not yet transcoded
          probe,     \* the head's own parser
          stage,     \* "head", "stream", or how the call returned
          parser,    \* bridgeStreamParser
          em,        \* bridgeStreamEmitter
          todo,      \* events of the frame in hand
          outbox,    \* records of the event in hand, still to be written
          term,      \* TranscodeStreamWithRewrite's termination
          client,    \* what the client has assembled
          doc        \* collapseAccumulator over the same frames

vars == <<lane, said, held, probe, stage, parser, em, todo, outbox, term, client, doc>>

Keys == 1..NKeys
None == -99

\* ------------------------------------------------------------- neutral events

Ev(kind) == [kind |-> kind, toks |-> <<>>, key |-> 0, named |-> FALSE,
             enc |-> FALSE, stop |-> ""]
Said(kind, toks) == [Ev(kind) EXCEPT !.toks = toks]
ToolEv(kind, p, k, toks) ==
    [Ev(kind) EXCEPT !.key = k, !.named = k \in p.toolNames, !.toks = toks]

NewParser == [started |-> FALSE, tools |-> {}, toolNames |-> {},
              toolOrder |-> <<>>, responseArgs |-> {}, responseReasoning |-> {}]

\* The frame kinds of the three dialects; `u` says that usage is attached.
Frame(kind) == [kind |-> kind, key |-> 0, named |-> FALSE, toks |-> <<>>,
                text |-> <<>>, enc |-> FALSE, stop |-> "", u |-> FALSE]

WithUsage(f, events) == (IF f.u THEN <<Ev("usage")>> ELSE <<>>) \o events
Optional(cond, event) == IF cond THEN <<event>> ELSE <<>>

\* rememberTool: first sight fixes the order, a name is kept.
rememberTool(p, k, named) ==
    [p EXCEPT !.toolOrder = IF k \in ToSet(@) THEN @ ELSE Append(@, k),
              !.toolNames = IF named THEN @ \union {k} ELSE @]

\* Chat: a call starts once it has a name and arguments, or at the finish.
parseChatEvent(p, f) ==
    LET p1 == [p EXCEPT !.started = TRUE]
        p2 == IF f.key = 0 THEN p1 ELSE rememberTool(p1, f.key, f.named)
        starts == f.key # 0 /\ f.text # <<>> /\ f.key \notin p2.tools /\ f.key \in p2.toolNames
        p3 == IF starts THEN [p2 EXCEPT !.tools = @ \union {f.key}] ELSE p2
        late == SelectSeq(p3.toolOrder, LAMBDA k : k \notin p3.tools /\ k \in p3.toolNames)
        ends == f.stop \notin {"", "failed"}
        p4 == IF ends THEN [p3 EXCEPT !.tools = @ \union ToSet(late)] ELSE p3
    IN [p |-> p4,
        ev |-> Optional(~p.started, Ev("start"))
               \o WithUsage(f, <<>>)
               \o Optional(f.kind = "thinking", Said("reasoning", f.toks))
               \o Optional(f.kind = "text", Said("text", f.toks))
               \o Optional(starts, ToolEv("tool_start", p3, f.key, <<>>))
               \o Optional(f.key # 0 /\ f.text # <<>>, ToolEv("tool_delta", p3, f.key, f.text))
               \o Optional(f.stop = "failed", Ev("error"))
               \o (IF ends THEN [i \in DOMAIN late |-> ToolEv("tool_start", p4, late[i], <<>>)]
                                \o <<[Ev("finish") EXCEPT !.stop = f.stop]>>
                   ELSE <<>>)]

\* Anthropic: a block start names the call, its deltas carry no name.
parseAnthropicEvent(p, f) ==
    LET same(ev) == [p |-> p, ev |-> ev] IN
    CASE f.kind = "created" -> same(<<Ev("start")>> \o WithUsage(f, <<>>))
      [] f.kind = "thinking" -> same(<<Said("reasoning", f.toks)>>)
      [] f.kind = "signature" -> same(<<Said("reasoning_signature", f.toks)>>)
      [] f.kind = "redacted" -> same(<<[Ev("reasoning") EXCEPT !.enc = TRUE]>>)
      [] f.kind = "text" -> same(<<Said("text", f.toks)>>)
      [] f.kind = "call" ->
            [p |-> [p EXCEPT !.tools = @ \union {f.key}],
             ev |-> <<[Ev("tool_start") EXCEPT !.key = f.key, !.named = f.named]>>]
      [] f.kind = "args" -> same(<<[Said("tool_delta", f.text) EXCEPT !.key = f.key]>>)
      [] f.kind = "finish" ->
            same(WithUsage(f, IF f.stop = "failed" THEN <<Ev("error")>>
                              ELSE <<[Ev("finish") EXCEPT !.stop = f.stop]>>))

\* Responses: arguments may come as deltas, in arguments.done and again in
\* output_item.done; the thinking of an item as deltas and again in its done.
parseResponses(p, f) ==
    LET same(ev) == [p |-> p, ev |-> ev]
        known == rememberTool(p, f.key, f.named)
        started == [known EXCEPT !.tools = @ \union {f.key}]
        heard == [p EXCEPT !.responseArgs = @ \union {f.key}]
    IN
    CASE f.kind = "created" -> same(<<Ev("start")>>)
      [] f.kind = "text" -> same(<<Said("text", f.toks)>>)
      [] f.kind = "thinking" ->
            [p |-> [p EXCEPT !.responseReasoning = @ \union {f.key}],
             ev |-> <<Said("reasoning", f.toks)>>]
      [] f.kind = "thinking_done" ->
            same(<<[Ev("reasoning") EXCEPT
                      !.toks = IF f.key \in p.responseReasoning THEN <<>> ELSE f.toks,
                      !.enc = f.enc]>>)
      [] f.kind = "call" ->
            IF f.key \in known.toolNames
            THEN [p |-> started, ev |-> <<ToolEv("tool_start", started, f.key, <<>>)>>]
            ELSE [p |-> known, ev |-> <<>>]
      [] f.kind = "args" ->
            [p |-> heard, ev |-> <<ToolEv("tool_delta", p, f.key, f.text)>>]
      [] f.kind = "args_done" ->
            IF f.key \in p.responseArgs THEN same(<<>>)
            ELSE [p |-> heard, ev |-> <<ToolEv("tool_delta", p, f.key, f.text)>>]
      [] f.kind = "call_done" ->
            [p |-> started,
             ev |-> Optional(f.key \notin known.tools, ToolEv("tool_start", started, f.key, <<>>))
                    \o Optional(f.key \notin p.responseArgs /\ f.text # <<>>,
                                [Said("tool_delta", f.text) EXCEPT !.key = f.key])]
      [] f.kind = "completed" ->
            same(WithUsage(f, IF f.stop = "failed" THEN <<Ev("error")>>
                    ELSE <<[Ev("finish") EXCEPT
                              !.stop = IF f.stop = "length" THEN "length"
                                       ELSE IF p.toolOrder # <<>> THEN "tool_calls" ELSE "stop"],
                           Ev("done")>>))

\* Parse: [DONE] and message_stop end the answer, an error record or a frame
\* that is not JSON fails it.
Parse(p, f) ==
    CASE f.kind = "done" -> [p |-> p, ev |-> <<Ev("done")>>]
      [] f.kind \in {"error", "garbage"} -> [p |-> p, ev |-> <<Ev("error")>>]
      [] f.kind \notin {"done", "error", "garbage"} /\ lane.from = "chat" -> parseChatEvent(p, f)
      [] f.kind \notin {"done", "error", "garbage"} /\ lane.from = "anthropic" -> parseAnthropicEvent(p, f)
      [] f.kind \notin {"done", "error", "garbage"} /\ lane.from = "responses" -> parseResponses(p, f)

\* ---------------------------------------------------------------- the emitter

NewTool == [name |-> FALSE, arguments |-> <<>>, emitted |-> 0, started |-> FALSE, at |-> None]

NewEmitter == [started |-> FALSE, done |-> FALSE, stop |-> "", usage |-> 0,
               encrypted |-> FALSE, text |-> <<>>, reasoning |-> <<>>,
               tools |-> [k \in Keys |-> NewTool], order |-> <<>>, next |-> 0,
               textOpen |-> FALSE, textAt |-> None,
               reasoningOpen |-> FALSE, reasoningClosed |-> FALSE, reasoningAt |-> None,
               output |-> <<>>, out |-> <<>>]

to == lane.to
Blocks == to \in {"anthropic", "responses"}

Sse(e, record) == [e EXCEPT !.out = Append(@, record)]
OpenRec(kind, at) == [t |-> "open", kind |-> kind, at |-> at, body |-> <<>>]
OpenCall(k, at) == [t |-> "open", kind |-> "tool", at |-> at, body |-> <<k>>]
DeltaRec(kind, at, toks) == [t |-> "delta", kind |-> kind, at |-> at, body |-> toks]
\* Responses repeats the whole body when an item is done; Anthropic does not.
CloseRec(at, body) == [t |-> "close", kind |-> "", at |-> at, body |-> body]

\* recordResponseItem: the item list grows with nil up to the index.
recordResponseItem(e, at, item) ==
    [e EXCEPT !.output = [i \in 1..(IF at < Len(@) THEN Len(@) ELSE at + 1) |->
                            IF i = at + 1 THEN item
                            ELSE IF i <= Len(@) THEN @[i] ELSE [kind |-> "nil", body |-> <<>>]]]

start(e) ==
    IF e.started THEN e
    ELSE Sse([e EXCEPT !.started = TRUE], [t |-> "start", kind |-> "", at |-> None, body |-> <<>>])

CloseText(e) ==
    IF to = "anthropic" /\ e.textOpen
    THEN [Sse(e, CloseRec(e.textAt, <<>>)) EXCEPT !.textOpen = FALSE]
    ELSE e

reopenReasoning(e) ==
    IF e.reasoningClosed
    THEN [e EXCEPT !.reasoningClosed = FALSE, !.reasoningOpen = FALSE,
                   !.reasoning = <<>>, !.encrypted = FALSE]
    ELSE e

startReasoning(e) ==
    IF e.reasoningOpen \/ e.reasoningClosed THEN e
    ELSE IF ~Blocks THEN [e EXCEPT !.reasoningOpen = TRUE]
    ELSE LET e1 == CloseText([e EXCEPT !.reasoningOpen = TRUE])
         IN Sse([e1 EXCEPT !.reasoningAt = e1.next, !.next = @ + 1], OpenRec("reason", e1.next))

finishReasoning(e) ==
    IF ~e.reasoningOpen \/ e.reasoningClosed THEN e
    ELSE LET e1 == [e EXCEPT !.reasoningClosed = TRUE] IN
         CASE to = "chat" -> e1
           [] to = "anthropic" -> Sse(e1, CloseRec(e1.reasoningAt, <<>>))
           [] to = "responses" ->
                 Sse(recordResponseItem(e1, e1.reasoningAt, [kind |-> "reason", body |-> e1.reasoning]),
                     CloseRec(e1.reasoningAt, e1.reasoning))

\* Mutant: text does not end the thinking before it.
emitTextInThinking(e, toks) ==
    LET e2 == IF Blocks /\ ~e.textOpen
              THEN Sse([e EXCEPT !.textOpen = TRUE, !.textAt = e.next, !.next = @ + 1],
                       OpenRec("text", e.next))
              ELSE e
    IN Sse(e2, DeltaRec("text", e2.textAt, toks))

emitText(e, toks) ==
    LET e1 == IF Blocks THEN finishReasoning(e) ELSE e
        e2 == IF Blocks /\ ~e1.textOpen
              THEN Sse([e1 EXCEPT !.textOpen = TRUE, !.textAt = e1.next, !.next = @ + 1],
                       OpenRec("text", e1.next))
              ELSE e1
    IN Sse(e2, DeltaRec("text", e2.textAt, toks))

emitReasoning(e, toks) ==
    LET e1 == startReasoning(e) IN Sse(e1, DeltaRec("reason", e1.reasoningAt, toks))

\* Responses has no record for a signature, but the item is opened for it.
emitReasoningSignature(e, toks) ==
    LET e1 == startReasoning(e)
    IN IF to = "responses" THEN e1 ELSE Sse(e1, DeltaRec("reason", e1.reasoningAt, toks))

\* tool: the entry for a key, appended on first sight with its place as index.
tool(e, k, named) ==
    LET e1 == IF k \in ToSet(e.order) THEN e
              ELSE [e EXCEPT !.order = Append(@, k), !.tools[k].at = Len(e.order)]
    IN [e1 EXCEPT !.tools[k].name = @ \/ named]

\* startTool: only a named call is opened, and only once.
startTool(e, k) ==
    IF e.tools[k].started \/ ~e.tools[k].name THEN e
    ELSE LET e1 == [CloseText(IF Blocks THEN finishReasoning(e) ELSE e) EXCEPT !.tools[k].started = TRUE]
             e2 == IF Blocks THEN [e1 EXCEPT !.tools[k].at = e1.next, !.next = @ + 1] ELSE e1
         IN Sse(e2, OpenCall(k, e2.tools[k].at))

\* Mutant: arguments that were sent are kept and sent again.
emitPendingKeepsArguments(e, k) ==
    LET x == e.tools[k] IN
    IF ~x.started \/ x.emitted >= Len(x.arguments) THEN e
    ELSE Sse(e, DeltaRec("tool", x.at, x.arguments))

emitPendingToolArguments(e, k) ==
    LET x == e.tools[k] IN
    IF ~x.started \/ x.emitted >= Len(x.arguments) THEN e
    ELSE LET rest == SubSeq(x.arguments, x.emitted + 1, Len(x.arguments))
             e1 == Sse(e, DeltaRec("tool", x.at, rest))
         IN IF to = "responses" THEN [e1 EXCEPT !.tools[k].emitted = Len(x.arguments)]
            ELSE [e1 EXCEPT !.tools[k].arguments = <<>>, !.tools[k].emitted = 0]

\* Mutant: a call that was never opened counts.
anyToolSeen(e) == e.order # <<>>

anyToolStarted(e) == \E k \in ToSet(e.order) : e.tools[k].started

EndRec(e) == [t |-> "end", kind |-> e.stop, at |-> None, body |-> e.output]

\* finishResponsesItems: the text item, then every call in its order (one without
\* arguments has "{}" for them, which is left out).
finishResponsesItems(e) ==
    LET e1 == IF ~e.textOpen THEN e
              ELSE Sse(recordResponseItem(e, e.textAt, [kind |-> "text", body |-> e.text]),
                       CloseRec(e.textAt, e.text))
        item(acc, k) ==
            LET a1 == emitPendingToolArguments(startTool(acc, k), k)
            IN Sse(recordResponseItem(a1, a1.tools[k].at,
                                      [kind |-> "tool", body |-> acc.tools[k].arguments]),
                   CloseRec(a1.tools[k].at, acc.tools[k].arguments))
    IN FoldLeft(item, e1, e1.order)

finishAnthropicItems(e) ==
    LET e1 == IF e.textOpen THEN Sse(e, CloseRec(e.textAt, <<>>)) ELSE e
        item(acc, k) ==
            LET a1 == emitPendingToolArguments(startTool(acc, k), k)
            IN IF a1.tools[k].started THEN Sse(a1, CloseRec(a1.tools[k].at, <<>>)) ELSE a1
    IN FoldLeft(item, e1, e1.order)

IsToolStop(stop) == stop \in {"tool_calls", "tool_use"}

\* Finish: settle the stop reason, close what is open, write the terminal.
Finish(e) ==
    IF e.done THEN e
    ELSE LET e1 == start([e EXCEPT !.done = TRUE])
             asked == IF e1.stop # "" THEN e1.stop
                      ELSE IF e1.order # <<>> THEN "tool_calls" ELSE "stop"
             e2 == [e1 EXCEPT !.stop = IF IsToolStop(asked) /\ ~anyToolStarted(e1)
                                       THEN "stop" ELSE asked]
             e3 == finishReasoning(e2)
             e4 == CASE to = "chat" -> e3
                     [] to = "anthropic" -> finishAnthropicItems(e3)
                     [] to = "responses" -> finishResponsesItems(e3)
         IN Sse(e4, EndRec(e4))

\* Emit: one neutral event.
Emit(e0, ev) ==
    LET begins == ev.kind \in {"start", "reasoning", "reasoning_signature", "text",
                               "tool_start", "tool_delta"}
        e == IF begins THEN start(e0) ELSE e0
        sealed == [reopenReasoning(e) EXCEPT !.encrypted = @ \/ ev.enc]
        shown == IF ev.toks = <<>> /\ to # "responses" THEN <<0>> ELSE ev.toks
        call == tool(e, ev.key, ev.named)
        fed == [call EXCEPT !.tools[ev.key].arguments = @ \o ev.toks]
    IN
    CASE ev.kind = "reasoning" ->
            IF ev.toks = <<>> /\ ~ev.enc THEN e
            ELSE IF shown = <<>> THEN startReasoning(sealed)
            ELSE emitReasoning([sealed EXCEPT !.reasoning = IF to = "responses" THEN @ \o shown ELSE @],
                               shown)
      [] ev.kind = "reasoning_signature" -> emitReasoningSignature(reopenReasoning(e), ev.toks)
      [] ev.kind = "text" ->
            emitText([e EXCEPT !.text = IF to = "responses" THEN @ \o ev.toks ELSE @], ev.toks)
      [] ev.kind \in {"tool_start", "tool_delta"} ->
            emitPendingToolArguments(startTool(fed, ev.key), ev.key)
      [] ev.kind = "usage" -> [e EXCEPT !.usage = @ + 1]
      [] ev.kind = "finish" -> [e EXCEPT !.stop = ev.stop]
      [] ev.kind = "error" ->
            Sse([e EXCEPT !.done = TRUE], [t |-> "error", kind |-> "", at |-> None, body |-> <<>>])
      [] ev.kind = "done" -> Finish(e)
      [] ev.kind = "start" -> e

\* --------------------------------------------------- the collapsed document

NewDoc == [text |-> <<>>, reasoning |-> <<>>, current |-> FALSE,
           tools |-> [k \in Keys |-> [name |-> FALSE, args |-> <<>>]], order |-> <<>>,
           reported |-> 0, stop |-> "", state |-> "reading"]

\* reasoningBlock: the block that thinking is added to, a fresh one after a split.
reasoningBlock(d) ==
    IF d.current THEN d
    ELSE [d EXCEPT !.current = TRUE, !.reasoning = Append(@, [text |-> <<>>, enc |-> FALSE])]

toolBlock(d, ev) ==
    [d EXCEPT !.order = IF ev.key \in ToSet(@) THEN @ ELSE Append(@, ev.key),
              !.tools[ev.key].name = @ \/ ev.named]

\* collapseStream's loop: the first done or error event ends it.
apply(d, ev) ==
    LET block == reasoningBlock(d)
        added == [block EXCEPT !.reasoning[Len(block.reasoning)].text = @ \o ev.toks]
        split == reasoningBlock([added EXCEPT !.current = FALSE])
        sealed == [split EXCEPT !.reasoning[Len(split.reasoning)].enc = TRUE, !.current = FALSE]
    IN
    IF d.state # "reading" THEN d ELSE
    CASE ev.kind = "start" -> d
      [] ev.kind = "text" -> [d EXCEPT !.text = @ \o ev.toks]
      [] ev.kind = "reasoning" ->
            IF ev.toks = <<>> /\ ~ev.enc THEN d ELSE IF ev.enc THEN sealed ELSE added
      [] ev.kind = "reasoning_signature" -> block
      [] ev.kind = "tool_start" -> toolBlock(d, ev)
      [] ev.kind = "tool_delta" -> [toolBlock(d, ev) EXCEPT !.tools[ev.key].args = @ \o ev.toks]
      [] ev.kind = "usage" -> [d EXCEPT !.reported = @ + 1]
      [] ev.kind = "finish" -> [d EXCEPT !.stop = ev.stop]
      [] ev.kind = "done" -> [d EXCEPT !.state = "done"]
      [] ev.kind = "error" -> [d EXCEPT !.state = "failed"]

\* Mutant: calls without a name stay in the document.
allToolBlocks(d) == ToSet(d.order)

\* usableToolBlocks: a call without a name cannot be executed.
usableToolBlocks(d) == {k \in ToSet(d.order) : d.tools[k].name}

\* encodeBridgeResponse: the calls and the stop reason of the document.  Only a
\* stop for tools is held to calls that can be run; beside any other, and when
\* the upstream gave none, a call without a name stays.
encodeBridgeResponse(d) ==
    LET usable == usableToolBlocks(d) IN
    CASE ~IsToolStop(d.stop) -> [calls |-> ToSet(d.order), stop |-> d.stop]
      [] IsToolStop(d.stop) /\ usable # {} -> [calls |-> usable, stop |-> d.stop]
      [] IsToolStop(d.stop) /\ usable = {} -> [calls |-> {}, stop |-> "stop"]

\* ---------------------------------------------------------------- the upstream

NewSaid == [n |-> 0, text |-> <<>>, reason |-> <<>>, args |-> [k \in Keys |-> <<>>],
            named |-> {}, calls |-> 0, over |-> {}, item |-> 1, itemToks |-> <<>>,
            settled |-> {}, stop |-> ""]

\* The calls a frame may be about: the ones begun and not over, or the next one.
Begun == 1..said.calls
OpenCalls == Begun \ said.over
NextCall == {k \in Keys : k = said.calls + 1}
Stops == IF "length" \in lane.odd THEN {"stop", "tools", "length"} ELSE {"stop", "tools"}

\* The stop reasons as each dialect spells them.
Spelled(s) ==
    CASE s = "stop" -> IF lane.from = "anthropic" THEN "end_turn" ELSE "stop"
      [] s = "tools" -> IF lane.from = "anthropic" THEN "tool_use" ELSE "tool_calls"
      [] s = "length" -> IF lane.from = "anthropic" THEN "max_tokens" ELSE "length"
      [] s = "failed" -> "failed"

tok == said.n + 1
\* Arguments in full: what was streamed, or all of them at once.
Full(k) == IF said.args[k] # <<>> THEN said.args[k] ELSE <<tok>>

CallFrame(kind, k, named, args) ==
    [Frame(kind) EXCEPT !.key = k, !.named = named, !.text = args]

ChatFrames ==
    {[Frame("thinking") EXCEPT !.toks = <<tok>>]}
    \union {[Frame("text") EXCEPT !.toks = <<tok>>, !.u = b] : b \in BOOLEAN}
    \union {CallFrame("call", k, b, a) : k \in OpenCalls \union NextCall, b \in BOOLEAN,
                                         a \in {<<>>, <<tok>>}}
    \union {[Frame("finish") EXCEPT !.stop = Spelled(s), !.u = TRUE] : s \in Stops \union {"failed"}}

AnthropicFrames ==
    {f \in {[Frame("created") EXCEPT !.u = TRUE]} : said.n = 0}
    \union {[Frame("thinking") EXCEPT !.toks = <<tok>>], [Frame("signature") EXCEPT !.toks = <<-tok>>],
            [Frame("text") EXCEPT !.toks = <<tok>>], [Frame("redacted") EXCEPT !.enc = TRUE]}
    \union {CallFrame("call", k, b, <<>>) : k \in NextCall, b \in BOOLEAN}
    \union {CallFrame("args", k, FALSE, <<tok>>) : k \in OpenCalls}
    \union {[Frame("finish") EXCEPT !.stop = Spelled(s), !.u = TRUE] : s \in Stops \union {"failed"}}

ResponsesFrames ==
    {f \in {Frame("created")} : said.n = 0}
    \union {[Frame("thinking") EXCEPT !.toks = <<tok>>, !.key = said.item],
            [Frame("text") EXCEPT !.toks = <<tok>>]}
    \union {[Frame("thinking_done") EXCEPT !.key = said.item, !.enc = b,
                 !.toks = IF said.itemToks # <<>> THEN said.itemToks ELSE <<tok>>] : b \in BOOLEAN}
    \union {CallFrame("call", k, b, <<>>) : k \in NextCall, b \in BOOLEAN}
    \union {CallFrame("args", k, FALSE, <<tok>>) : k \in OpenCalls}
    \union {CallFrame("args_done", k, FALSE, Full(k)) : k \in OpenCalls}
    \union {CallFrame("call_done", k, b, Full(k)) : k \in OpenCalls, b \in BOOLEAN}

\* An upstream without the "nameless" oddity names its calls, in Chat before
\* the finish reason, and only then ends normally.
Ending ==
    \/ "nameless" \in lane.odd
    \/ Begun \subseteq IF lane.from = "chat" THEN said.settled ELSE said.named
Endings ==
    {Frame(kind) : kind \in {"error", "garbage"}}
    \union {f \in {Frame("done")} : lane.from # "responses" /\ Ending}
    \union {[Frame("completed") EXCEPT !.stop = Spelled(s), !.u = TRUE] :
               s \in {x \in Stops \union {"failed"} : lane.from = "responses" /\ Ending}}

NextFrames ==
    Endings \union
    (IF said.n >= MaxFrames THEN {}
     ELSE CASE lane.from = "chat" -> ChatFrames
            [] lane.from = "anthropic" -> AnthropicFrames
            [] lane.from = "responses" -> ResponsesFrames)

\* A frame that repeats a finished text adds nothing to what was said.
Recorded(f) ==
    LET call == f.kind \in {"call", "args", "args_done", "call_done"}
        fresh == f.toks # <<>> /\ ~(f.kind = "thinking_done" /\ said.itemToks # <<>>)
        base == [said EXCEPT !.n = @ + 1, !.stop = IF f.stop # "" THEN f.stop ELSE @,
                             !.settled = IF f.stop # "" THEN said.named ELSE @]
    IN CASE f.kind = "text" -> [base EXCEPT !.text = @ \o f.toks]
         [] f.kind \in {"thinking", "signature", "redacted", "thinking_done"} ->
              [base EXCEPT
                 !.reason = @ \o (IF fresh THEN f.toks ELSE <<>>)
                              \o (IF f.enc /\ ~fresh THEN <<0>> ELSE <<>>),
                 !.item = IF f.kind = "thinking_done" THEN @ + 1 ELSE @,
                 !.itemToks = IF f.kind = "thinking" THEN @ \o f.toks ELSE <<>>]
         [] call ->
              [base EXCEPT
                 !.calls = IF f.key > @ THEN f.key ELSE @,
                 !.named = IF f.named THEN @ \union {f.key} ELSE @,
                 !.args[f.key] = IF f.kind \in {"args_done", "call_done"} THEN f.text ELSE @ \o f.text,
                 !.over = IF f.kind = "call_done" THEN @ \union {f.key} ELSE @]
         [] OTHER -> base

\* ---------------------------------------------------------------- the client

NewClient == [phase |-> "idle", blocks |-> <<>>, stop |-> "", output |-> <<>>]

At(c, r) == {i \in DOMAIN c.blocks : c.blocks[i].at = r.at /\ (Blocks \/ c.blocks[i].kind = r.kind)}
NewBlock(r, key, body) == [kind |-> r.kind, at |-> r.at, key |-> key, open |-> TRUE, body |-> body]
Broken(c) == [c EXCEPT !.phase = "broken"]

\* How a client puts the records together.  A Chat client has one text and
\* one thinking string that are simply there; blocks have to be opened.
Assemble(c, r) ==
    LET i == CHOOSE j \in At(c, r) : TRUE IN
    CASE c.phase \notin {"idle", "open"} -> Broken(c)
      [] c.phase = "idle" /\ r.t \notin {"start", "error"} -> Broken(c)
      [] c.phase = "idle" /\ r.t = "start" -> [c EXCEPT !.phase = "open"]
      [] c.phase = "open" /\ r.t = "start" -> Broken(c)
      [] c.phase \in {"idle", "open"} /\ r.t = "error" -> [c EXCEPT !.phase = "failed"]
      [] c.phase = "open" /\ r.t = "open" ->
            IF At(c, r) # {} \/ (Blocks /\ r.at # Len(c.blocks)) THEN Broken(c)
            ELSE [c EXCEPT !.blocks = Append(@, NewBlock(r, IF r.kind = "tool" THEN r.body[1] ELSE 0, <<>>))]
      [] c.phase = "open" /\ r.t = "delta" ->
            IF At(c, r) # {}
            THEN IF c.blocks[i].open THEN [c EXCEPT !.blocks[i].body = @ \o r.body] ELSE Broken(c)
            ELSE IF Blocks \/ r.kind = "tool" THEN Broken(c)
                 ELSE [c EXCEPT !.blocks = Append(@, NewBlock(r, 0, r.body))]
      [] c.phase = "open" /\ r.t = "close" ->
            IF At(c, r) = {} THEN Broken(c)
            ELSE IF ~c.blocks[i].open \/ (to = "responses" /\ c.blocks[i].body # r.body) THEN Broken(c)
            ELSE [c EXCEPT !.blocks[i].open = FALSE]
      [] c.phase = "open" /\ r.t = "end" ->
            [c EXCEPT !.phase = "done", !.stop = r.kind, !.output = r.body]

\* ------------------------------------------------------------------- actions

Init ==
    /\ lane \in Lanes
    /\ said = NewSaid
    /\ held = <<>>
    /\ probe = NewParser
    /\ stage = IF lane.head THEN "head" ELSE "stream"
    /\ parser = NewParser
    /\ em = NewEmitter
    /\ todo = <<>>
    /\ outbox = <<>>
    /\ term = "open"
    /\ client = NewClient
    /\ doc = NewDoc

Kinds(events) == {events[i].kind : i \in DOMAIN events}
Commits(ev) ==
    \/ ev.kind = "done"
    \/ ev.kind \in {"text", "reasoning", "tool_delta"} /\ ev.toks # <<>>
    \/ ev.kind = "tool_start"

\* ReadStreamHead: keep every frame until one commits the attempt; an error
\* before that is a plain rejection and nothing has been written.
HeadRead ==
    /\ stage = "head"
    /\ \E f \in NextFrames :
          LET r == Parse(probe, f) IN
          /\ said' = Recorded(f)
          /\ probe' = r.p
          /\ held' = Append(held, f)
          /\ stage' = IF "error" \in Kinds(r.ev) THEN "rejected"
                      ELSE IF \E i \in DOMAIN r.ev : Commits(r.ev[i]) THEN "stream" ELSE "head"
    /\ UNCHANGED <<lane, parser, em, todo, outbox, term, client, doc>>

\* The upstream closes, stalls or is cut while the head is being read.
HeadEnds ==
    /\ stage = "head"
    /\ stage' = "rejected"
    /\ UNCHANGED <<lane, said, held, probe, parser, em, todo, outbox, term, client, doc>>

Idle == stage = "stream" /\ todo = <<>> /\ outbox = <<>>

Take(f) ==
    LET r == Parse(parser, f) IN
    /\ parser' = r.p
    /\ todo' = r.ev
    /\ doc' = FoldLeft(apply, doc, r.ev)

\* The handler of readSSE: first the frames the head kept, then new ones.
Read ==
    /\ Idle
    /\ term = "open"
    /\ \/ /\ held # <<>>
          /\ Take(Head(held))
          /\ held' = Tail(held)
          /\ UNCHANGED said
       \/ /\ held = <<>>
          /\ \E f \in NextFrames : Take(f) /\ said' = Recorded(f)
          /\ UNCHANGED held
    /\ UNCHANGED <<lane, probe, stage, em, outbox, term, client>>

UsageIn(events) == Len(SelectSeq(events, LAMBDA ev : ev.kind = "usage"))

EmitNext ==
    /\ stage = "stream"
    /\ outbox = <<>>
    /\ todo # <<>>
    /\ LET ev == Head(todo)
           e == Emit(em, ev)
           rest == IF ev.kind \in {"done", "error"} THEN <<>> ELSE Tail(todo)
       IN /\ outbox' = e.out
          /\ em' = [e EXCEPT !.out = <<>>,
                             !.usage = IF ev.kind = "error" THEN @ + UsageIn(Tail(todo)) ELSE @]
          /\ todo' = rest
          /\ term' = CASE ev.kind = "done" -> "normal"
                      [] ev.kind = "error" -> "error"
                      [] OTHER -> term
    /\ UNCHANGED <<lane, said, held, probe, stage, parser, client, doc>>

\* rawSSE: a record is written and flushed.
Write ==
    /\ stage = "stream"
    /\ outbox # <<>>
    /\ client' = Assemble(client, Head(outbox))
    /\ outbox' = Tail(outbox)
    /\ UNCHANGED <<lane, said, held, probe, stage, parser, em, todo, term, doc>>

\* Mutant: what the frame reports after the failed write is dropped.
WriteFailsForgetting ==
    /\ stage = "stream"
    /\ outbox # <<>>
    /\ stage' = "gone"
    /\ outbox' = <<>>
    /\ todo' = <<>>
    /\ UNCHANGED <<lane, said, held, probe, parser, em, term, client, doc>>

\* Delivery fails: the rest of the frame only counts for its usage.
WriteFails ==
    /\ stage = "stream"
    /\ outbox # <<>>
    /\ stage' = "gone"
    /\ outbox' = <<>>
    /\ em' = [em EXCEPT !.usage = @ + UsageIn(todo)]
    /\ todo' = <<>>
    /\ UNCHANGED <<lane, said, held, probe, parser, term, client, doc>>

\* EOF, a read error or the watchdog before any terminal event: the client is
\* told, unless it is the client who left.
UpstreamEnds ==
    /\ Idle
    /\ term = "open"
    /\ held = <<>>
    /\ LET e == Emit(em, Ev("error")) IN
          /\ em' = [e EXCEPT !.out = <<>>]
          /\ outbox' = e.out
    /\ term' = "error"
    /\ UNCHANGED <<lane, said, held, probe, stage, parser, todo, client, doc>>

ClientCanceled ==
    /\ Idle
    /\ term = "open"
    /\ stage' = "canceled"
    /\ UNCHANGED <<lane, said, held, probe, parser, em, todo, outbox, term, client, doc>>

Return ==
    /\ Idle
    /\ term # "open"
    /\ stage' = IF term = "normal" THEN "ok" ELSE "failed"
    /\ UNCHANGED <<lane, said, held, probe, parser, em, todo, outbox, term, client, doc>>

Next ==
    \/ HeadRead \/ HeadEnds
    \/ Read \/ EmitNext \/ Write \/ WriteFails
    \/ UpstreamEnds \/ ClientCanceled \/ Return

Spec == Init /\ [][Next]_vars

\* ---------------------------------------------------------------- properties

BodyOf(kind) ==
    FoldLeft(LAMBDA acc, b : IF b.kind = kind THEN acc \o b.body ELSE acc, <<>>, client.blocks)
Calls == {i \in DOMAIN client.blocks : client.blocks[i].kind = "tool"}
CallsOf(k) == {i \in Calls : client.blocks[i].key = k}
\* What of the thinking a dialect can carry: Responses has neither signature
\* nor placeholder.
Carried(toks) == IF to = "responses" THEN SelectSeq(toks, LAMBDA t : t > 0) ELSE toks

\* A stop reason as the client reads it.
ShownAs(stop) ==
    CASE IsToolStop(stop) -> "tools"
      [] stop = "length" \/ (stop = "max_tokens" /\ to # "responses") -> "length"
      [] OTHER -> "stop"
Shown == ShownAs(client.stop)

\* What the client has received, as an answer of the abstract specification.
Answer == INSTANCE Stream WITH
            phase <- client.phase,
            blocks <- IF Blocks THEN [i \in DOMAIN client.blocks |->
                                        [kind |-> client.blocks[i].kind, open |-> client.blocks[i].open,
                                         body |-> client.blocks[i].body]]
                      ELSE <<>>,
            single <- to = "anthropic"

\* The records a client receives are a well-formed answer: begun once, blocks
\* opened in order and closed once, nothing after the end, and (Messages) never
\* a block opened inside an open text or thinking block.
WellFormed == Answer!Spec

\* Everything the upstream says reaches the client once and in order: at any
\* time the client holds a prefix of every text, and after a normal end all of
\* it, a call's arguments only once although Responses repeats them; each call
\* that had a name when the upstream finished is there once, a nameless one never.
Delivered ==
    /\ IsPrefix(BodyOf("text"), said.text)
    /\ IsPrefix(BodyOf("reason"), Carried(said.reason))
    /\ \A k \in Keys : /\ Cardinality(CallsOf(k)) <= 1
                       /\ k \notin said.named => CallsOf(k) = {}
                       /\ \A i \in CallsOf(k) : IsPrefix(client.blocks[i].body, said.args[k])
    /\ client.phase = "done" =>
          /\ BodyOf("text") = said.text
          /\ BodyOf("reason") = Carried(said.reason)
          /\ \A k \in said.settled :
                \E i \in CallsOf(k) : client.blocks[i].body = said.args[k]

\* A returned call has told its client how it ended: success with the terminal
\* record, failure with an error, a rejected head with nothing at all.  A stop
\* for tools is shown only with a call to run, and not withheld when the
\* upstream asked for one; an answer cut at its length is shown as cut.
TruthfulEnd ==
    /\ stage = "ok" => client.phase = "done"
    /\ stage = "failed" => client.phase = "failed"
    /\ stage \in {"head", "rejected"} => client = NewClient
    /\ client.phase = "done" =>
          /\ Shown = "tools" => Calls # {}
          /\ said.stop = Spelled("tools") /\ said.settled # {} => Shown = "tools"
          /\ said.stop = Spelled("length") => Shown = "length"
          /\ to = "responses" =>
                client.output = [i \in DOMAIN client.blocks |->
                                   [kind |-> client.blocks[i].kind, body |-> client.blocks[i].body]]

\* The document a non-streaming caller gets from the same frames ("the
\* equivalent single response document") has the text, the thinking and the
\* calls that were streamed, with the same arguments, and ends for the reason
\* the stream ends for, a stop for tools being no reason in Responses.  It may
\* differ in two ways only: beside a stop that is not for tools it lists calls
\* without a name too, and when the upstream gave no reason it guesses none
\* from the calls, as the stream does.
CollapseAgrees ==
    client.phase = "done" /\ lane.from # "responses" =>
        LET document == encodeBridgeResponse(doc)
            streamed == {client.blocks[i].key : i \in Calls}
        IN
        /\ doc.state = "done"
        /\ doc.text = BodyOf("text")
        /\ Carried(FoldLeft(LAMBDA acc, b : acc \o (IF b.text # <<>> THEN b.text
                                                     ELSE IF b.enc THEN <<0>> ELSE <<>>),
                            <<>>, doc.reasoning))
             = SelectSeq(BodyOf("reason"), LAMBDA t : t >= 0)
        /\ {k \in document.calls : doc.tools[k].name} = streamed
        /\ said.stop = Spelled("tools") => document.calls = streamed
        /\ \A i \in Calls : doc.tools[client.blocks[i].key].args = client.blocks[i].body
        /\ \/ said.stop = "" /\ streamed # {}
           \/ ShownAs(document.stop) = Shown
           \/ to = "responses" /\ {ShownAs(document.stop), Shown} = {"stop", "tools"}

\* Every usage record in the frames read so far is counted, also when the frame
\* that carried it could not be delivered: the streamed call is charged what the
\* collapsed one would be.
UsageKept == stage \in {"ok", "failed", "gone"} => em.usage = doc.reported

\* A call that never got a name is no item of the answer: usableToolBlocks "drops
\* phantom tool blocks that cannot be executed by a downstream client", and "the
\* streaming emitter uses the same rule".  A Responses stream does list it.
NamelessDropped ==
    Cardinality({i \in DOMAIN em.output : em.output[i].kind = "tool"})
        <= Cardinality(said.named)
=============================================================================
