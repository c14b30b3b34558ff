---------------------------- MODULE Serialization ----------------------------
(***************************************************************************)
(* ToJSONGraph and FromJSONGraph (src/ffi/extra/serialization.cpp): one    *)
(* process saves a value with everything it refers to as a list of nodes   *)
(* that refer to each other by index; another loads it, perhaps after      *)
(* someone reordered the nodes, and with classes of its own: its version   *)
(* of a class may have other fields, and it may lack the class.  On the    *)
(* way the graph may be a text, ToJSONGraphString and FromJSONGraphString.  *)
(***************************************************************************)
EXTENDS PlainData, TLC

CONSTANTS
  Node,       \* the objects of the saving process, numbered from 1
  Heaps,      \* the heaps it may have; object n refers to objects below n only
  Saver,      \* type key -> the fields of its class, in order of declaration
  Loaders,    \* the same for the loading process: a set of them
  Plain,      \* the numbers that stand for plain values -> the value, each a different one
  Texts,      \* the heaps whose graph is also written as a text
  Indents     \* the indentations it may have, 0 for none

\* A value is an object or the number of a plain value, which is not in Node;
\* Null is plain, and so is OpaquePtr, which cannot be saved.
Null == 0
OpaquePtr == -2
IsObject(v) == v \in Node

\* A field: [name, how, default].  how is "inline" when its static type is
\* plain data, "node" when its value goes through the nodes; default is its
\* default value, or Required.
Required == -1

\* A class without fields to see or to fill: no metadata when it is saved, no
\* default constructor when it is loaded.
Opaque == <<[name |-> "opaque", how |-> "opaque", default |-> Required]>>

Builtin == {"Array", "Map"}

VARIABLES
  heap,      \* heap[n] = [type, content] as in the saving process
  root,      \* the value it saves
  json,      \* the JSON graph, NoGraph before it is saved, or Failed
  text,      \* the graph as a text, NoText unless it is written as one
  ascii,     \* whether the text has been rewritten in ASCII
  loader,    \* the classes of the loading process
  loaded     \* what FromJSONGraph returned, NotLoaded before it is called, or Failed

vars == <<heap, root, json, text, ascii, loader, loaded>>

NoGraph == [outcome |-> "none"]
NoText == <<>>
NotLoaded == [outcome |-> "none"]
Failed == [outcome |-> "error"]

\* The slots of an object, in the order they are visited: positions of an
\* array, positions of the keys and values of a map in turn, names of fields.
Slots(classes, object) ==
  IF object.type \in Builtin THEN [i \in DOMAIN object.content |-> i]
  ELSE [i \in DOMAIN classes[object.type] |-> classes[object.type][i].name]

Inline(classes, type, slot) ==
  /\ type \notin Builtin
  /\ \E f \in Range(classes[type]) : f.name = slot /\ f.how = "inline"

-----------------------------------------------------------------------------
(* ObjectGraphSerializer.  order[i] is the value that has node i.  A failure *)
(* is an exception and ends the save: what else st says no longer matters.   *)

RECURSIVE GetOrCreateNodeIndex(_, _, _)

\* CreateArrayData, CreateMapData and CreateObjectData.
CreateData(h, st, n) ==
  LET add(acc, slot) ==
        LET part == h[n].content[slot]
            node == GetOrCreateNodeIndex(h, acc.st, part)
        IN IF Inline(Saver, h[n].type, slot)
           THEN [acc EXCEPT !.data = @ @@ (slot :> part)]
           ELSE [st |-> node.st, data |-> acc.data @@ (slot :> node.index)]
  IN FoldLeft(add, [st |-> st, data |-> <<>>], Slots(Saver, h[n]))

\* Fault: the index is the one that was next before the parts got theirs.
IndexBeforeParts(st, full, v, type, data) ==
  [st |-> [full EXCEPT !.order = Append(@, v),
                       !.nodes = Append(@, [type |-> type, data |-> data])],
   index |-> Len(st.nodes) + 1]

\* A node for v; its parts got theirs since st, in full.
AddNode(st, full, v, type, data) ==
  [st |-> [full EXCEPT !.order = Append(@, v),
                       !.nodes = Append(@, [type |-> type, data |-> data])],
   index |-> Len(full.nodes) + 1]

GetOrCreateNodeIndex(h, st, v) ==
  LET created == CreateData(h, st, v)
      failed == [st |-> [st EXCEPT !.failed = TRUE], index |-> 0]
  IN IF Contains(st.order, v) THEN [st |-> st, index |-> SelectInSeq(st.order, LAMBDA w : w = v)]
     ELSE IF ~IsObject(v) THEN IF v = OpaquePtr THEN failed ELSE AddNode(st, st, v, "Plain", EncodePlain(Plain[v]))
     ELSE IF h[v].type \notin Builtin /\ Saver[h[v].type] = Opaque THEN failed
     ELSE AddNode(st, created.st, v, h[v].type, created.data)

ToJSONGraph(h, v) ==
  LET saved == GetOrCreateNodeIndex(h, [order |-> <<>>, nodes |-> <<>>, failed |-> FALSE], v)
  IN IF saved.st.failed THEN Failed
     ELSE [outcome |-> "graph", root_index |-> saved.index, nodes |-> saved.st.nodes]

-----------------------------------------------------------------------------
(* ObjectGraphDeserializer.  st.decoded[i] is the value of node i, Null when *)
(* there is none yet, and null_index a node known to be null; st.heap grows  *)
(* by the objects that are created.                                         *)

RECURSIVE GetOrDecodeNode(_, _, _, _)

\* An object with the parts that were decoded.
Create(parts, type) ==
  [st |-> [parts.st EXCEPT !.heap = Append(@, [type |-> type, content |-> parts.content])],
   value |-> Len(parts.st.heap) + 1]

\* DecodeArrayData and DecodeMapData.
DecodeElements(g, classes, st, node) ==
  LET push(acc, part) == [st |-> part.st, content |-> Append(acc.content, part.value)]
      add(acc, i) == push(acc, GetOrDecodeNode(g, classes, acc.st, i))
  IN Create(FoldLeft(add, [st |-> st, content |-> <<>>], node.data), node.type)

\* Fault: a field that is absent is skipped, whether it has a default or not.
SkipAbsentField(g, classes, st, node) ==
  LET add(acc, f) ==
        LET part == GetOrDecodeNode(g, classes, acc.st, node.data[f.name])
        IN IF f.name \notin DOMAIN node.data THEN acc
           ELSE IF f.how = "inline" THEN [acc EXCEPT !.content = @ @@ (f.name :> node.data[f.name])]
           ELSE [st |-> part.st, content |-> acc.content @@ (f.name :> part.value)]
  IN Create(FoldLeft(add, [st |-> st, content |-> <<>>], classes[node.type]), node.type)

\* The fields of the loader's class one by one: from the data when they are
\* there, else their default; what else the data has is not looked at.
DecodeObjectData(g, classes, st, node) ==
  LET set(acc, f, v) == [acc EXCEPT !.content = @ @@ (f.name :> v)]
      setPart(acc, f, part) == set([acc EXCEPT !.st = part.st], f, part.value)
      add(acc, f) ==
        IF f.name \in DOMAIN node.data
        THEN IF f.how = "inline" THEN set(acc, f, node.data[f.name])
             ELSE setPart(acc, f, GetOrDecodeNode(g, classes, acc.st, node.data[f.name]))
        ELSE IF f.default # Required THEN set(acc, f, f.default)
        ELSE [acc EXCEPT !.st.failed = TRUE]
  IN Create(FoldLeft(add, [st |-> st, content |-> <<>>], classes[node.type]), node.type)

DecodeNode(g, classes, st, node) ==
  LET failed == [st |-> [st EXCEPT !.failed = TRUE], value |-> Null]
      known(data) ==
        IF \E v \in DOMAIN Plain : Plain[v] = data
        THEN [st |-> st, value |-> CHOOSE v \in DOMAIN Plain : Plain[v] = data] ELSE failed
  IN
  CASE node.type = "Plain" -> known(DecodePlain(node.data))
    [] node.type \in Builtin -> DecodeElements(g, classes, st, node)
    [] OTHER -> IF node.type \notin DOMAIN classes \/ classes[node.type] = Opaque
                THEN failed
                ELSE DecodeObjectData(g, classes, st, node)

\* Fault: a node is decoded again for every reference to it.
DecodeAgain(g, classes, st, i) ==
  IF st.failed THEN [st |-> st, value |-> Null] ELSE DecodeNode(g, classes, st, g.nodes[i])

\* The value of node i is new.
Decoded(new, i) ==
  [new EXCEPT !.st.decoded[i] = new.value,
              !.st.null_index = IF new.value = Null THEN i ELSE @]

GetOrDecodeNode(g, classes, st, i) ==
  IF i = st.null_index THEN [st |-> st, value |-> Null]
  ELSE IF st.decoded[i] # Null \/ st.failed THEN [st |-> st, value |-> st.decoded[i]]
  ELSE Decoded(DecodeNode(g, classes, st, g.nodes[i]), i)

FromJSONGraph(g, classes) ==
  LET start == [heap |-> <<>>, decoded |-> [i \in DOMAIN g.nodes |-> Null],
                null_index |-> -1, failed |-> FALSE]
      res == GetOrDecodeNode(g, classes, start, g.root_index)
  IN IF res.st.failed THEN Failed
     ELSE [outcome |-> "value", root |-> res.value, heap |-> res.st.heap]

-----------------------------------------------------------------------------
(* The graph as a JSON value, whose text is written and read.  Indices and  *)
(* inline numbers are ints alike.                                           *)

IntValue(n) == [int |-> ToString(n)]
NumberOf(v) == NumeralValue(B(v.int))

\* Node i, whose data is an array or an object of numbers.
NodeValue(node) ==
  LET slots == Slots(Saver, [type |-> node.type, content |-> node.data])
      numbers == [i \in DOMAIN slots |-> IntValue(node.data[slots[i]])]
      fields == [i \in DOMAIN slots |-> Pair2(slots[i], numbers[i])]
      data == IF node.type \in Builtin THEN [array |-> numbers] ELSE [object |-> fields]
  IN IF node.type = "Plain" THEN node.data
     ELSE [object |-> <<Pair2("type", JSONString(node.type)), Pair2("data", data)>>]

GraphValue(g) ==
  [object |-> <<Pair2("root_index", IntValue(g.root_index)),
                Pair2("nodes", [array |-> [i \in DOMAIN g.nodes |-> NodeValue(g.nodes[i])]])>>]

\* The node that a value is read as.
NodeOf(v) ==
  LET type == S(Get(v, "type").str)
      data == Get(v, "data")
      name(pair) == S(pair[1].str)
      slots == {name(data.object[i]) : i \in DOMAIN data.object}
  IN IF type \in Range(TypeKeys) THEN [type |-> "Plain", data |-> v]
     ELSE IF type \in Builtin
          THEN [type |-> type, data |-> [i \in DOMAIN data.array |-> NumberOf(data.array[i])]]
     ELSE [type |-> type, data |-> [slot \in slots |-> NumberOf(Get(data, slot))]]

GraphOf(v) ==
  LET nodes == Get(v, "nodes").array
  IN [outcome |-> "graph", root_index |-> NumberOf(Get(v, "root_index")),
      nodes |-> [i \in DOMAIN nodes |-> NodeOf(nodes[i])]]

FromJSONGraphString(t, classes) ==
  LET read(v) == IF v = Refused THEN Failed ELSE FromJSONGraph(GraphOf(v), classes)
  IN read(Parse(t))

\* External: a tool that rewrites a text in ASCII, with each other character
\* as the escape \uXXXX, or two of them.
RewriteInAscii(t) ==
  LET hex(n) == <<Backslash, Code["u"]>> \o [i \in 1 .. 4 |-> HexDigit[((n \div 16 ^ (4 - i)) % 16) + 1]]
      bits(i) == t[i] % 64
      escape(cp) == IF cp < 65536 THEN hex(cp)
                    ELSE hex(55296 + ((cp - 65536) \div 1024)) \o hex(56320 + (cp % 1024))
      character(i) ==
        CASE t[i] < 128 -> <<t[i]>>
          [] t[i] \in 128 .. 191 -> <<>>
          [] t[i] \in 192 .. 223 -> escape((t[i] % 32) * 64 + bits(i + 1))
          [] t[i] \in 224 .. 239 -> escape((t[i] % 16) * 4096 + bits(i + 1) * 64 + bits(i + 2))
          [] OTHER -> escape((t[i] % 8) * 262144 + bits(i + 1) * 4096 + bits(i + 2) * 64 + bits(i + 3))
  IN FlattenSeq([i \in DOMAIN t |-> character(i)])

-----------------------------------------------------------------------------

Init ==
  /\ heap \in Heaps /\ loader \in Loaders
  /\ root \in IF heap = <<>> THEN DOMAIN Plain ELSE {Len(heap), Null, OpaquePtr}
  /\ json = NoGraph /\ text = NoText /\ ascii = FALSE /\ loaded = NotLoaded

Save ==
  /\ json = NoGraph
  /\ json' = ToJSONGraph(heap, root)
  /\ UNCHANGED <<heap, root, text, ascii, loader, loaded>>

\* The order of the nodes means nothing: someone may write them in another.
Shuffle ==
  LET Moved(i) == Len(json.nodes) + 1 - i
      Renumber(node) ==
        IF node.type = "Plain" THEN node
        ELSE [node EXCEPT !.data = [slot \in DOMAIN @ |->
                IF Inline(Saver, node.type, slot) THEN @[slot] ELSE Moved(@[slot])]]
  IN /\ json.outcome = "graph" /\ text = NoText /\ loaded = NotLoaded
     /\ json' = [json EXCEPT !.root_index = Moved(@),
                             !.nodes = [i \in DOMAIN @ |-> Renumber(@[Moved(i)])]]
     /\ UNCHANGED <<heap, root, text, ascii, loader, loaded>>

\* ToJSONGraphString, without indentation, or Stringify with it.
Write(indent) ==
  /\ json.outcome = "graph" /\ text = NoText /\ loaded = NotLoaded
  /\ heap \in Texts
  /\ text' = Stringify(GraphValue(json), indent)
  /\ UNCHANGED <<heap, root, json, ascii, loader, loaded>>

Rewrite ==
  /\ text # NoText /\ ~ascii /\ loaded = NotLoaded
  /\ text' = RewriteInAscii(text) /\ ascii' = TRUE
  /\ UNCHANGED <<heap, root, json, loader, loaded>>

Load ==
  /\ json.outcome = "graph" /\ loaded = NotLoaded
  /\ loaded' = IF text = NoText THEN FromJSONGraph(json, loader)
               ELSE FromJSONGraphString(text, loader)
  /\ UNCHANGED <<heap, root, json, text, ascii, loader>>

Next == Save \/ Shuffle \/ (\E indent \in Indents : Write(indent)) \/ Rewrite \/ Load

Spec == Init /\ [][Next]_vars

-----------------------------------------------------------------------------
(* Properties. *)

\* What a saved object refers to, through the slots these classes still have.
Targets(n, classes) ==
  LET type == heap[n].type
      follows(s) == /\ ~Inline(Saver, type, s)
                    /\ type \in Builtin \/ /\ type \in DOMAIN classes
                                           /\ \E f \in Range(classes[type]) : f.name = s
  IN {heap[n].content[s] : s \in {s \in DOMAIN heap[n].content : follows(s)}}

RECURSIVE Below(_, _)
Below(v, classes) ==
  IF IsObject(v) THEN {v} \union UNION {Below(w, classes) : w \in Targets(v, classes)} ELSE {v}

\* The values that are saved, and the objects a loader comes to.
Saved == Below(root, Saver)
Objects == {v \in Below(root, loader) : IsObject(v)}

\* f relates the saved objects to the loaded ones.
Preserves(f) ==
  LET image(v) == IF IsObject(v) THEN f[v] ELSE v
      has(old, new, s) ==
        new.content[s] = IF Inline(Saver, old.type, s) THEN old.content[s]
                         ELSE image(old.content[s])
  IN /\ loaded.root = image(root)
     /\ \A n \in Objects :
          LET old == heap[n]
              new == loaded.heap[f[n]]
          IN /\ new.type = old.type
             /\ old.type \in Builtin => DOMAIN new.content = DOMAIN old.content
             /\ \A s \in DOMAIN new.content :
                  IF s \in DOMAIN old.content THEN has(old, new, s)
                  ELSE \E c \in Range(loader[new.type]) : c.name = s /\ c.default = new.content[s]

\* What is loaded is the saved graph: one object for each object saved that
\* the loader's fields still lead to, however many references did ("preserves
\* the type and multiple references to the same object", serialization.h:30),
\* with fields the saver did not know at their defaults; and the order of the
\* nodes makes no difference.
LoadsWhatWasSaved ==
  loaded.outcome = "value" =>
    \E f \in [Objects -> DOMAIN loaded.heap] :
       IsInjective(f) /\ Len(loaded.heap) = Cardinality(Objects) /\ Preserves(f)

\* The class of object n has a counterpart that the loader can fill from it.
CanFill(n) ==
  heap[n].type \in Builtin \/
    /\ heap[n].type \in DOMAIN loader /\ loader[heap[n].type] # Opaque
    /\ \A f \in Range(loader[heap[n].type]) :
         f.default = Required => f.name \in Range(Slots(Saver, heap[n]))

\* What ToJSONGraph writes and FromJSONGraph does not read: DLPack's bool,
\* whose "bool8" is no name of a type, and the small floats with a scalable
\* number of lanes.
ReadsPlain(v) ==
  IsA("dtype", Plain[v]) =>
    /\ Plain[v].dtype.code # "bool"
    /\ Plain[v].dtype.code \in SmallFloat => Signed16(Plain[v].dtype.lanes) >= -1

\* What Stringify writes and Parse refuses: a denormal number, and a byte
\* beyond ASCII where char is signed.
ParsesPlain(v) ==
  /\ IsA("float", Plain[v]) => ~\E f \in DOMAIN Finite : f = Plain[v].float /\ Finite[f].denormal
  /\ IsA("str", Plain[v]) => ascii \/ Range(Plain[v].str) \intersect Control \subseteq 0 .. 31

SavedPlain == {v \in Saved : ~IsObject(v) /\ v # OpaquePtr}

\* A save fails exactly when an opaque value is reached, and a load when the
\* loader lacks a class that is needed, or has made a field required that the
\* saver did not write, or when one of the values above is saved: no other
\* heap, sharing, node order, layout or value makes one fail.
FailsOnlyForClasses ==
  /\ json = Failed <=> json # NoGraph /\ \E v \in Saved :
       v = OpaquePtr \/ (IsObject(v) /\ heap[v].type \notin Builtin /\ Saver[heap[v].type] = Opaque)
  /\ loaded # NotLoaded => (loaded = Failed <=>
         \/ \E n \in Objects : ~CanFill(n)
         \/ \E v \in Below(root, loader) \ Objects : ~ReadsPlain(v)
         \/ text # NoText /\ \E v \in SavedPlain : ~ParsesPlain(v))

\* Parse gives back the value that Stringify wrote, whatever the layout, and
\* tells an int from a float (the comment at json_writer.cpp:143) except for
\* the integral floats from 2^53 on, which have no ".0"; and it accepts no text
\* that was cut short.
RECURSIVE AsRead(_)
AsRead(v) ==
  CASE IsA("array", v) -> [array |-> [i \in DOMAIN v.array |-> AsRead(v.array[i])]]
    [] IsA("object", v) -> [object |-> [i \in DOMAIN v.object |-> <<v.object[i][1], AsRead(v.object[i][2])>>]]
    [] IsA("float", v) /\ v.float \in DOMAIN Finite /\ ~Finite[v.float].below
         /\ Strtoimax(B(Finite[v.float].general)) # Refused -> [int |-> Finite[v.float].general]
    [] OTHER -> v

TextReadsBack ==
  text # NoText =>
    /\ Parse(text) = IF \A v \in SavedPlain : ParsesPlain(v) THEN AsRead(GraphValue(json)) ELSE Refused
    /\ \A n \in 0 .. Len(text) - 1 : Parse(SubSeq(text, 1, n)) = Refused

\* As it is saved, a node refers only to nodes before it, each node but the
\* root, which is last, is referred to, and no two nodes are the same plain
\* value: a reader needs no forward references, and what is met again is
\* written once.
SavedInOrder ==
  [][Save /\ json' # Failed =>
       LET nodes == json'.nodes
           refs(i) == IF nodes[i].type = "Plain" THEN {}
                      ELSE {nodes[i].data[s] : s \in
                              {s \in DOMAIN nodes[i].data : ~Inline(Saver, nodes[i].type, s)}}
       IN /\ json'.root_index = Len(nodes)
          /\ \A i \in DOMAIN nodes : refs(i) \subseteq 1 .. i - 1
          /\ UNION {refs(i) : i \in DOMAIN nodes} = 1 .. Len(nodes) - 1
          /\ Len(nodes) = Cardinality(Saved)]_vars
=============================================================================
