----------------------------- MODULE YamlNodes -----------------------------
(***************************************************************************)
(* The YAML nodes that patches work on, and pkg/patches/operation.go.      *)
(*                                                                         *)
(* The code works on pointers to nodes: two places of a document may hold  *)
(* the same node, and a match that was found earlier may have left the     *)
(* document since.  So a heap is a sequence of nodes, a pointer is a       *)
(* position in it, and 0 is nil.  What a node reads as is a tree; trees    *)
(* are also the values of patches and the objects that come and go.        *)
(***************************************************************************)
EXTENDS Naturals, Sequences
LOCAL INSTANCE SequencesExt
LOCAL INSTANCE FiniteSetsExt
LOCAL INSTANCE TLC

\* Trees.  A mapping has its keys and values as children, in turns; a scalar
\* has a text, the sequence of its parts.
Scalar(text) == [kind |-> "scalar", value |-> text, children |-> <<>>]
List(items) == [kind |-> "sequence", value |-> <<>>, children |-> items]
Mapping(keys, values) ==
  [kind |-> "mapping", value |-> <<>>,
   children |-> [k \in 1..(2 * Len(keys)) |->
                   IF k % 2 = 1 THEN Scalar(<<keys[(k + 1) \div 2]>>) ELSE values[k \div 2]]]
Document(tree) == [kind |-> "document", value |-> <<>>, children |-> <<tree>>]

\* Steps of a path: .name, [i], * and ..name.  A path is a sequence of steps
\* from the root of the object; the empty path selects the document itself.
Child(name) == [step |-> "child", name |-> name, index |-> 0]
Index(i) == [step |-> "index", name |-> ToString(i), index |-> i]
All == [step |-> "all", name |-> "*", index |-> 0]
Deep(name) == [step |-> "deep", name |-> name, index |-> 0]

-----------------------------------------------------------------------------
\* Puts a tree on the heap.  block: it is written in YAML's block style, as
\* values of patches are, and not in JSON, as objects are.
RECURSIVE NewNode(_, _, _)
NewNode(heap, tree, block) ==
  LET Put(made, child) == LET c == NewNode(made.heap, child, block)
                          IN  [heap |-> c.heap, content |-> Append(made.content, c.node)]
      made == FoldLeft(Put, [heap |-> heap, content |-> <<>>], tree.children)
  IN  [heap |-> Append(made.heap, [kind |-> tree.kind, value |-> tree.value,
                                   content |-> made.content, block |-> block]),
       node |-> Len(made.heap) + 1]

RECURSIVE Tree(_, _)
Tree(heap, node) ==
  [kind |-> heap[node].kind, value |-> heap[node].value,
   children |-> [k \in DOMAIN heap[node].content |-> Tree(heap, heap[node].content[k])]]

\* A node and the nodes below it, in the order of the text.
RECURSIVE Nodes(_, _)
Nodes(heap, node) ==
  <<node>> \o FlattenSeq([k \in DOMAIN heap[node].content |-> Nodes(heap, heap[node].content[k])])

\* What a document is read as: pairs without a value are left out, of equal
\* keys the last one counts, and keys have to be scalars.
RECURSIVE Object(_)
Object(tree) ==
  LET n == Len(tree.children) \div 2
      pairs == SelectSeq([k \in 1..n |-> k],
                         LAMBDA k : \A j \in (k + 1)..n : tree.children[2 * j - 1] # tree.children[2 * k - 1])
  IN  [tree EXCEPT !.children =
         IF tree.kind = "mapping"
         THEN [k \in 1..(2 * Len(pairs)) |->
                 IF k % 2 = 1 THEN tree.children[2 * pairs[(k + 1) \div 2] - 1]
                 ELSE Object(tree.children[2 * pairs[k \div 2]])]
         ELSE [k \in DOMAIN tree.children |-> Object(tree.children[k])]]

RECURSIVE Readable(_)
Readable(tree) ==
  /\ tree.kind = "mapping" =>
       \A k \in 1..(Len(tree.children) \div 2) : tree.children[2 * k - 1].kind = "scalar"
  /\ \A k \in DOMAIN tree.children : Readable(tree.children[k])

-----------------------------------------------------------------------------
(***************************************************************************)
(* The paths of the yaml-jsonpath library.                                 *)
(***************************************************************************)
\* The value at the first key of that name.
ChildNode(heap, node, name) ==
  LET content == heap[node].content
      at == {k \in 1..(Len(content) \div 2) : heap[content[2 * k - 1]].value = <<name>>}
  IN  IF heap[node].kind = "mapping" /\ at # {} THEN <<content[2 * Min(at)]>> ELSE <<>>

Children(heap, node) ==
  LET content == heap[node].content
  IN  CASE heap[node].kind = "mapping"  -> [k \in 1..(Len(content) \div 2) |-> content[2 * k]]
        [] heap[node].kind = "sequence" -> content
        [] OTHER                        -> <<>>

StepMatches(heap, node, s) ==
  CASE s.step = "child" -> ChildNode(heap, node, s.name)
    [] s.step = "all"   -> Children(heap, node)
    [] s.step = "index" -> IF heap[node].kind = "sequence" /\ s.index < Len(heap[node].content)
                           THEN <<heap[node].content[s.index + 1]>> ELSE <<>>
    [] s.step = "deep"  -> LET below == Nodes(heap, node)
                           IN  FlattenSeq([k \in DOMAIN below |-> ChildNode(heap, below[k], s.name)])

FindMatches(heap, node, path) ==
  LET root == IF path # <<>> /\ heap[node].kind = "document" THEN heap[node].content[1] ELSE node
      Descend(nodes, s) == FlattenSeq([k \in DOMAIN nodes |-> StepMatches(heap, nodes[k], s)])
  IN  FoldLeft(Descend, <<root>>, path)

-----------------------------------------------------------------------------
(***************************************************************************)
(* pkg/patches/operation.go                                                *)
(***************************************************************************)
\* The first node of the document that has the child, or nil.
Find(heap, doc, child) ==
  LET nodes == Nodes(heap, doc)
      at == SelectInSeq(nodes, LAMBDA n : Contains(heap[n].content, child))
  IN  IF at = 0 THEN 0 ELSE nodes[at]

ChildIndex(heap, parent, child) == SelectInSeq(heap[parent].content, LAMBDA c : c = child)

SetContent(heap, node, content) == [heap EXCEPT ![node].content = content]

\* The parent's content with what is at i replaced, or preceded, by others.
replaceChildAtIndex(heap, parent, child, nodes) ==
  LET content == heap[parent].content  i == ChildIndex(heap, parent, child)
  IN  SetContent(heap, parent, SubSeq(content, 1, i - 1) \o nodes \o SubSeq(content, i + 1, Len(content)))

AddChildAtIndex(heap, parent, child, nodes) ==
  LET content == heap[parent].content  i == ChildIndex(heap, parent, child)
  IN  SetContent(heap, parent, SubSeq(content, 1, i - 1) \o nodes \o SubSeq(content, i, Len(content)))

\* Variant: off by one, the key stays.
removePropertyValue(heap, parent, child) ==
  LET content == heap[parent].content  i == ChildIndex(heap, parent, child)
  IN  SetContent(heap, parent, SubSeq(content, 1, i - 1) \o SubSeq(content, i + 1, Len(content)))

\* Key and value go.
removeProperty(heap, parent, child) ==
  LET content == heap[parent].content  i == ChildIndex(heap, parent, child)
  IN  SetContent(heap, parent, SubSeq(content, 1, i - 2) \o SubSeq(content, i + 1, Len(content)))

\* Every occurrence of the node goes.
removeChild(heap, parent, child) ==
  SetContent(heap, parent, SelectSeq(heap[parent].content, LAMBDA c : c # child))

ReplaceNode(heap, doc, match, nodes) ==
  LET parent == Find(heap, doc, match)
  IN  IF parent = 0 THEN heap ELSE replaceChildAtIndex(heap, parent, match, nodes)

Appended(heap, node, nodes) == SetContent(heap, node, heap[node].content \o nodes)
============================================================================
