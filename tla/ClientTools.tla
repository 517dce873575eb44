------------------------------ MODULE ClientTools ------------------------------
(* The tools of a Responses client that other dialects do not know: tools in  *)
(* namespaces and custom tools with free text.  PrepareClientTools lowers     *)
(* them to plain functions before a request is converted, and                 *)
(* CustomToolWriter restores them in the answer as it is streamed.            *)
(*                                                                            *)
(* A name is a sequence of words, so that the names joined by "__" in the     *)
(* code are sequences joined here: <<"a", "b">> may be a path of two          *)
(* namespaces or one namespace with an awkward name.  A digest of a name is   *)
(* the name itself, marked flat.                                              *)
EXTENDS Integers, Sequences, FiniteSets, SequencesExt

CONSTANTS Declared,   \* the lists of tools a client may declare
          Asked,      \* references it may make: [namespace, name]
          Keys        \* items of an answer

VARIABLES tools,     \* the declared tools of this request
          said,      \* what the upstream has said of each call: [phase, tool, valid]
          items,     \* calls known to be custom
          delivered, \* calls whose input was released
          got,       \* what the client received, in order
          failure,   \* has the writer failed?
          ended

tvars == <<tools, said, items, delivered, got, failure, ended>>

\* A tool: its kind, the path of its namespaces and its name.
Tool(kind, path, name) == [kind |-> kind, path |-> path, name |-> name]

Join(path) == FlattenSeq(path)
Plain == <<>>

\* bind: the identity of a tool in the request sent upstream.
Flat(namespace, name) == [flat |-> namespace # Plain, namespace |-> namespace, name |-> name]
FlatOf(tool) == Flat(Join(tool.path), tool.name)

-----------------------------------------------------------------------------
\* PrepareClientTools

ListOf(list) == {list[i] : i \in DOMAIN list}

\* Mutant: two paths that are written alike are taken for one.
PathsAmbiguousNever(list) == FALSE

\* Two paths that are written alike are refused.
PathsAmbiguous(list) ==
    \E t, u \in ListOf(list) : \E i \in 1..Len(t.path), j \in 1..Len(u.path) :
        LET p == SubSeq(t.path, 1, i)
            q == SubSeq(u.path, 1, j)
        IN p # q /\ Join(p) = Join(q)

\* A tool may be declared once in its namespace, and a custom tool once, and
\* never with the name of a function.
Twice(list) ==
    \/ \E i, j \in DOMAIN list :
          i # j /\ FlatOf(list[i]) = FlatOf(list[j])
          /\ (list[i].path # <<>> \/ "custom" \in {list[i].kind, list[j].kind})

PrepareRefuses(list) == PathsAmbiguous(list) \/ Twice(list)

\* The names by which history may mention a tool of a namespace.
Alias(tool) == Join(tool.path) \o tool.name
AliasOf(list, name) == {FlatOf(t) : t \in {u \in ListOf(list) : u.path # <<>> /\ Alias(u) = name}}
Used(list) == {t.name : t \in {u \in ListOf(list) : u.path = <<>>}}

Nobody == [flat |-> FALSE, namespace |-> Plain, name |-> <<>>]

\* Mutant: an alias of two tools means one of them.
ResolveFirst(list, ref) ==
    IF ref.namespace # Plain THEN Flat(ref.namespace, ref.name)
    ELSE IF ref.name \in Used(list) THEN Flat(Plain, ref.name)
    ELSE IF AliasOf(list, ref.name) # {} THEN CHOOSE f \in AliasOf(list, ref.name) : TRUE
    ELSE Flat(Plain, ref.name)

\* resolve: a plain tool first, then the one tool with the alias; an alias of
\* two is refused, and a name nobody declared is left as it is.
Resolve(list, ref) ==
    IF ref.namespace # Plain THEN Flat(ref.namespace, ref.name)
    ELSE IF ref.name \in Used(list) THEN Flat(Plain, ref.name)
    ELSE IF Cardinality(AliasOf(list, ref.name)) > 1 THEN Nobody
    ELSE IF AliasOf(list, ref.name) # {} THEN CHOOSE f \in AliasOf(list, ref.name) : TRUE
    ELSE Flat(Plain, ref.name)

\* PrepareCustomTools: the names whose calls will be restored to free text.
CustomNames(list) == {FlatOf(t) : t \in {u \in ListOf(list) : u.kind = "custom"}}
\* namespaces: the names that will be given back to their namespace.
Mapping(list) == {FlatOf(t) : t \in {u \in ListOf(list) : u.path # <<>>}}

-----------------------------------------------------------------------------
\* CustomToolWriter

Silent == [phase |-> "none", name |-> Nobody, valid |-> TRUE]
Event(kind, key, name, input) == [kind |-> kind, key |-> key, name |-> name, input |-> input]

Init ==
    /\ tools \in {l \in Declared : ~PrepareRefuses(l)}
    /\ said = [k \in Keys |-> Silent]
    /\ items = {} /\ delivered = {} /\ got = <<>> /\ failure = FALSE /\ ended = FALSE

\* restoreItem: the name as the client declared it.
Restored(name) ==
    IF name \in Mapping(tools) THEN [namespace |-> name.namespace, name |-> name.name]
    ELSE [namespace |-> Plain, name |-> name.name]
KindOf(name) == IF name \in CustomNames(tools) THEN "custom" ELSE "function"
Item(kind, k) == Event(kind, k, Restored(said[k].name), KindOf(said[k].name))
Input(k) == Event("input", k, Restored(said[k].name), "custom")

Passes(events) == got' = got \o events

\* fail: the client is told once, and what follows is swallowed.
Fails ==
    /\ failure' = TRUE
    /\ Passes(<<Event("failed", 0, Nobody, "")>>)

\* The upstream starts a call: a custom one is shown without its input.
ItemAdded(k, name, valid) ==
    /\ ~ended /\ said[k].phase = "none"
    /\ \A j \in Keys : j < k => said[j].phase # "none"
    /\ said' = [said EXCEPT ![k] = [phase |-> "added", name |-> name, valid |-> valid]]
    /\ IF failure THEN UNCHANGED <<items, got>>
       ELSE /\ items' = IF KindOf(name) = "custom" THEN items \union {k} ELSE items
            /\ Passes(<<Event("added", k, Restored(name), KindOf(name))>>)
    /\ UNCHANGED <<tools, delivered, failure, ended>>

\* A piece of its arguments: held back when they are an input.
ArgumentsDelta(k) ==
    /\ ~ended /\ said[k].phase = "added"
    /\ said' = [said EXCEPT ![k].phase = "args"]
    /\ IF failure \/ k \in items THEN UNCHANGED got ELSE Passes(<<Item("delta", k)>>)
    /\ UNCHANGED <<tools, items, delivered, failure, ended>>

\* Mutant: the input is released without a look at its wrapper.
ArgumentsDoneAnyway(k) ==
    /\ ~ended /\ said[k].phase \in {"added", "args"}
    /\ said' = [said EXCEPT ![k].phase = "done"]
    /\ IF failure THEN UNCHANGED <<got, delivered, failure>>
       ELSE /\ delivered' = IF k \in items THEN delivered \union {k} ELSE delivered
            /\ Passes(IF k \in items THEN <<Input(k)>> ELSE <<Item("done", k)>>)
            /\ UNCHANGED failure
    /\ UNCHANGED <<tools, items, ended>>

\* Its arguments are complete: an input is released, if the wrapper around it
\* is what was asked for.
ArgumentsDone(k) ==
    /\ ~ended /\ said[k].phase \in {"added", "args"}
    /\ said' = [said EXCEPT ![k].phase = "done"]
    /\ IF failure THEN UNCHANGED <<got, delivered, failure>>
       ELSE IF k \notin items THEN Passes(<<Item("done", k)>>) /\ UNCHANGED <<delivered, failure>>
       ELSE IF ~said[k].valid THEN Fails /\ UNCHANGED delivered
       ELSE /\ delivered' = delivered \union {k}
            /\ Passes(<<Input(k)>>)
            /\ UNCHANGED failure
    /\ UNCHANGED <<tools, items, ended>>

\* Mutant: the item releases its input again.
ItemDoneAgain(k) ==
    /\ ~ended /\ said[k].phase = "done"
    /\ said' = [said EXCEPT ![k].phase = "item"]
    /\ IF failure THEN UNCHANGED <<got, delivered, failure, items>>
       ELSE IF KindOf(said[k].name) # "custom"
            THEN Passes(<<Item("item", k)>>) /\ UNCHANGED <<delivered, failure, items>>
       ELSE IF ~said[k].valid THEN Fails /\ items' = items \union {k} /\ UNCHANGED delivered
       ELSE /\ items' = items \union {k} /\ delivered' = delivered \union {k}
            /\ Passes(<<Input(k), Item("item", k)>>)
            /\ UNCHANGED failure
    /\ UNCHANGED <<tools, ended>>

\* The call is complete.  An upstream may say its arguments only here: then
\* this releases the input.
ItemDone(k) ==
    /\ ~ended /\ said[k].phase \in {"added", "args", "done"}
    /\ said' = [said EXCEPT ![k].phase = "item"]
    /\ IF failure THEN UNCHANGED <<got, delivered, failure, items>>
       ELSE IF KindOf(said[k].name) # "custom"
            THEN Passes(<<Item("item", k)>>) /\ UNCHANGED <<delivered, failure, items>>
       ELSE IF ~said[k].valid THEN Fails /\ items' = items \union {k} /\ UNCHANGED delivered
       ELSE /\ items' = items \union {k} /\ delivered' = delivered \union {k}
            /\ Passes((IF k \in delivered THEN <<>> ELSE <<Input(k)>>) \o <<Item("item", k)>>)
            /\ UNCHANGED failure
    /\ UNCHANGED <<tools, ended>>

\* response.completed repeats every call; one wrong wrapper among them fails it.
Completed ==
    /\ ~ended /\ ended' = TRUE
    /\ \A k \in Keys : said[k].phase \in {"none", "item"}
    /\ IF failure THEN UNCHANGED <<got, failure>>
       ELSE IF \E k \in Keys : KindOf(said[k].name) = "custom" /\ ~said[k].valid
            THEN Fails
       ELSE Passes(<<Event("completed", 0, Nobody, "")>>) /\ UNCHANGED failure
    /\ UNCHANGED <<tools, said, items, delivered>>

\* The upstream's stream breaks off within an event, or an event is too large
\* or not JSON: Finish and Write fail the answer.
Breaks ==
    /\ ~ended /\ ended' = TRUE
    /\ IF failure THEN UNCHANGED <<got, failure>> ELSE Fails
    /\ UNCHANGED <<tools, said, items, delivered>>

Next ==
    \/ \E k \in Keys, t \in ListOf(tools), valid \in BOOLEAN : ItemAdded(k, FlatOf(t), valid)
    \/ \E k \in Keys : ArgumentsDelta(k) \/ ArgumentsDone(k) \/ ItemDone(k)
    \/ Completed
    \/ Breaks

-----------------------------------------------------------------------------
\* The tools a reference may mean, by its namespace or by an alias.
Meant(ref) ==
    {t \in ListOf(tools) :
        \/ ref.namespace = Join(t.path) /\ ref.name = t.name
        \/ ref.namespace = Plain /\ t.path # <<>> /\ ref.name = Alias(t)}

\* The lowering is faithful: a namespace as it is given back to the client is
\* one path, and in it every name is one tool; a reference is to the tool it
\* names or refused, never to another one.
NamesFaithful ==
    /\ \A i, j \in DOMAIN tools : Join(tools[i].path) = Join(tools[j].path) =>
          /\ tools[i].path = tools[j].path
          /\ tools[i].path # <<>> /\ tools[i].name = tools[j].name => i = j
    /\ \A ref \in Asked :
          LET plain == {t \in Meant(ref) : t.path = <<>>}
              found == Resolve(tools, ref)
          IN CASE plain # {} -> found \in {FlatOf(t) : t \in plain}
               [] plain = {} /\ Cardinality(Meant(ref)) > 1 -> found = Nobody
               [] plain = {} /\ Cardinality(Meant(ref)) = 1 ->
                     found \in {FlatOf(t) : t \in Meant(ref)}
               [] OTHER -> found.flat = (ref.namespace # Plain)

Released(k) == {i \in DOMAIN got : got[i].kind = "input" /\ got[i].key = k}
Closed(k) == {i \in DOMAIN got : got[i].kind = "item" /\ got[i].key = k}

\* An input reaches the client once, before its call is closed, and only if
\* its wrapper was what the tool asks for; it reaches it under the name the
\* client declared; and nothing follows a failure.
InputsRestored ==
    /\ \A k \in Keys : Cardinality(Released(k)) <= 1
    /\ \A k \in Keys : \A i \in Released(k) \union Closed(k) :
          KindOf(said[k].name) = "custom" => said[k].valid
    /\ \A k \in Keys : \A i \in Closed(k) :
          KindOf(said[k].name) = "custom" => \E j \in Released(k) : j < i
    /\ \A i \in DOMAIN got : got[i].kind \notin {"failed", "completed"} =>
          \E t \in ListOf(tools) :
              got[i].name = [namespace |-> Join(t.path), name |-> t.name] /\ got[i].input = t.kind
    /\ \A i \in DOMAIN got : got[i].kind = "failed" => i = Len(got)
===============================================================================
