---------------------------- MODULE ApplyPatches ----------------------------
(***************************************************************************)
(* pkg/patches/patch.go: a list of patches, accepted by pkg/config's       *)
(* validatePatch, is applied to an object again and again, with each       *)
(* Reconcile of the syncer it belongs to.                                  *)
(*                                                                         *)
(* Direction "down": the patches of a mapping make a host object from a    *)
(* virtual one; obj2 is the host object there is, the one the last round   *)
(* made.  Direction "up": the reverse patches change the virtual object,   *)
(* obj2 is the host object, and the next round starts from the result.     *)
(***************************************************************************)
EXTENDS PatchTypes, FiniteSets

CONSTANTS
  Objects,      \* Objects[dir]: objects (trees) that patches are applied to
  Others,       \* Others[dir]: other objects; Nil if there is none
  Nil,
  PatchLists,   \* lists of patches a configuration may have
  Ignores,      \* reverse patches that it may have while patches are applied down
  MaxRounds     \* bound on the times a list is applied

ASSUME BoundsAssumption == MaxRounds \in Nat

VARIABLES
  dir,         \* "down" or "up"
  patches,     \* the list that is applied
  reverse,     \* the reverse patches whose paths are removed, if down
  obj1, obj2,  \* the two objects, as trees
  heap,        \* the nodes
  node1, node2,
  next,        \* the number of the patch that comes next
  phase,       \* where the round is
  err,         \* how it ended, if it did not end well
  results      \* the results of the rounds so far

config == <<dir, patches, reverse>>
nodes == <<heap, node1, node2>>
vars == <<config, obj1, obj2, nodes, next, phase, err, results>>

Init ==
  /\ dir \in {"down", "up"}
  /\ patches \in PatchLists
  /\ reverse \in IF dir = "down" THEN S!BoundedSeq(Ignores, 1) ELSE {<<>>}
  /\ obj1 \in Objects[dir] /\ obj2 \in Others[dir]
  /\ heap = <<>> /\ node1 = 0 /\ node2 = 0
  /\ next = 1 /\ phase = "config" /\ err = "none" /\ results = <<>>

-----------------------------------------------------------------------------
(***************************************************************************)
(* The configuration.                                                      *)
(***************************************************************************)
validatePatch(p) ==
  CASE p.op \in {"remove", "replace", "add"} -> p.fromPath = <<>>
    [] p.op \in {"rewriteName", "rewriteLabelKey", "rewriteLabelSelector",
                 "rewriteLabelExpressionsSelector"} -> TRUE
    [] p.op = "copyFromObject" -> p.fromPath # <<>>
    [] OTHER -> FALSE

\* The plugin starts with a valid configuration, or not at all.
validate ==
  /\ phase = "config"
  /\ phase' = IF \A p \in S!ToSet(patches \o reverse) : validatePatch(p) THEN "start" ELSE "rejected"
  /\ UNCHANGED <<config, obj1, obj2, nodes, next, err, results>>

-----------------------------------------------------------------------------
(***************************************************************************)
(* One round.                                                              *)
(***************************************************************************)
NewJSONNodes ==
  /\ phase = "start"
  /\ LET first == NewNode(<<>>, Document(obj1), FALSE)
         second == NewNode(first.heap, Document(obj2), FALSE)
     IN  /\ node1' = first.node
         /\ node2' = IF obj2 = Nil THEN 0 ELSE second.node
         /\ heap' = IF obj2 = Nil THEN first.heap ELSE second.heap
  /\ next' = 1 /\ phase' = "patch"
  /\ UNCHANGED <<config, obj1, obj2, err, results>>

applyPatch(h, p) ==
  CASE p.op = "rewriteName"          -> RewriteName(h, node1, p, dir)
    [] p.op = "rewriteLabelKey"      -> RewriteLabelKey(h, node1, p, dir)
    [] p.op = "rewriteLabelSelector" -> RewriteLabelSelector(h, node1, p, dir)
    [] p.op = "rewriteLabelExpressionsSelector" -> RewriteLabelExpressionsSelector(h, node1, p, dir)
    [] p.op = "replace"              -> Replace(h, node1, p)
    [] p.op = "remove"               -> Remove(h, node1, p)
    [] p.op = "add"                  -> Add(h, node1, p)
    [] p.op = "copyFromObject"       -> CopyFromObject(h, node1, node2, p)
    [] OTHER                         -> Failed(h, "unknown")

\* A node below itself: no walk through the document ends any more.
Endless(h) ==
  LET Below(set) == set \cup UNION {S!ToSet(h[n].content) : n \in set}
      RECURSIVE Reach(_)
      Reach(set) == IF Below(set) = set THEN set ELSE Reach(Below(set))
  IN  \E n \in DOMAIN h : n \in Reach(S!ToSet(h[n].content))

\* Variant: the error is not returned.
ContinueAnyway(outcome) ==
  heap' = outcome.heap /\ err' = outcome.err /\ phase' = phase /\ next' = next + 1

\* Goes on with the outcome of a patch.
Continue(outcome) ==
  LET e == IF outcome.err = "none" /\ Endless(outcome.heap) THEN "panic" ELSE outcome.err
  IN  /\ heap' = outcome.heap
      /\ err' = e
      /\ phase' = IF e = "none" THEN phase ELSE "failed"
      /\ next' = next + 1

ApplyPatch ==
  /\ phase = "patch"
  /\ next <= Len(patches)
  /\ Continue(applyPatch(heap, patches[next]))
  /\ UNCHANGED <<config, obj1, obj2, node1, node2, results>>

\* Variant: what a reverse patch writes is not ignored.
RemoveIgnoredExplicit ==
  /\ phase = "patch"
  /\ next > Len(patches) /\ next <= Len(patches) + Len(reverse)
  /\ LET p == reverse[next - Len(patches)]
     IN  Continue(IF p.path = <<>> \/ p.ignore # "yes" THEN Ok(heap)
                  ELSE Remove(heap, node1, NewPatch("remove", p.path)))
  /\ UNCHANGED <<config, obj1, obj2, node1, node2, results>>

\* The paths that reverse patches write are removed, whatever their conditions.
RemoveIgnored ==
  /\ phase = "patch"
  /\ next > Len(patches) /\ next <= Len(patches) + Len(reverse)
  /\ LET p == reverse[next - Len(patches)]
     IN  Continue(IF p.path = <<>> \/ p.ignore = "no" THEN Ok(heap)
                  ELSE Remove(heap, node1, NewPatch("remove", p.path)))
  /\ UNCHANGED <<config, obj1, obj2, node1, node2, results>>

\* The document is marshalled, and read into the object.
Unmarshal ==
  /\ phase = "patch"
  /\ next = Len(patches) + Len(reverse) + 1
  /\ LET tree == Tree(heap, node1).children[1]
     IN  IF Readable(tree)
         THEN phase' = "done" /\ err' = err /\ results' = Append(results, Object(tree))
         ELSE phase' = "failed" /\ err' = "error" /\ results' = results
  /\ UNCHANGED <<config, obj1, obj2, nodes, next>>

\* Variant: the object in the cache is patched, not a copy of it.
AgainShared ==
  /\ phase = "done"
  /\ Len(results) < MaxRounds
  /\ obj1' = results[Len(results)] /\ UNCHANGED obj2
  /\ heap' = <<>> /\ node1' = 0 /\ node2' = 0
  /\ next' = 1 /\ phase' = "start"
  /\ UNCHANGED <<config, err, results>>

\* The next Reconcile.  Each round has new nodes.
Again ==
  /\ phase = "done"
  /\ Len(results) < MaxRounds
  /\ LET result == results[Len(results)]
     IN  IF dir = "down" THEN obj2' = result /\ UNCHANGED obj1
         ELSE obj1' = result /\ UNCHANGED obj2
  /\ heap' = <<>> /\ node1' = 0 /\ node2' = 0
  /\ next' = 1 /\ phase' = "start"
  /\ UNCHANGED <<config, err, results>>

Next == validate \/ NewJSONNodes \/ ApplyPatch \/ RemoveIgnored \/ Unmarshal \/ Again

Spec == Init /\ [][Next]_vars

-----------------------------------------------------------------------------
(***************************************************************************)
(* Properties.                                                             *)
(***************************************************************************)
\* Type correctness.  The pointers of nodes lead to nodes; next and results
\* stay within the list and the rounds.
TypeOK ==
  /\ dir \in {"down", "up"} /\ patches \in PatchLists /\ reverse \in S!BoundedSeq(Ignores, 1)
  /\ \A n \in DOMAIN heap : S!ToSet(heap[n].content) \subseteq DOMAIN heap
  /\ {node1, node2} \subseteq 0..Len(heap)
  /\ next \in 1..(Len(patches) + Len(reverse) + 1)
  /\ phase \in {"config", "rejected", "start", "patch", "done", "failed"}
  /\ err \in {"none", "error", "unknown", "panic"} /\ (err # "none" <=> phase = "failed")
  /\ Len(results) <= MaxRounds

\* The document is a tree, and its mappings have pairs of different keys.
Intact(h, doc) ==
  /\ S!IsInjective(Nodes(h, doc))
  /\ \A n \in S!ToSet(Nodes(h, doc)) : h[n].kind = "mapping" =>
       /\ Len(h[n].content) % 2 = 0
       /\ \A j, k \in {i \in DOMAIN h[n].content : i % 2 = 1} :
            /\ h[h[n].content[j]].kind = "scalar"
            /\ h[h[n].content[j]].value = h[h[n].content[k]].value => j = k

\* The tree of a node, with other trees (or nothing) in place of the nodes
\* that new is defined for; a key goes with its value.
RECURSIVE Rebuilt(_, _, _)
Rebuilt(h, node, new) ==
  LET content == h[node].content
      Gone(k) == content[k] \in DOMAIN new /\ new[content[k]] = <<>>
      IsKey(k) == h[node].kind = "mapping" /\ k % 2 = 1
  IN  [kind |-> h[node].kind, value |-> h[node].value,
       children |-> S!FlattenSeq([k \in DOMAIN content |->
         IF content[k] \in DOMAIN new THEN new[content[k]]
         ELSE IF IsKey(k) /\ Gone(k + 1) THEN <<>>
         ELSE <<Rebuilt(h, content[k], new)>>])]

\* What obj2 has at the path of a copyFromObject, as it was given.
Offered(p) == LET given == NewNode(<<>>, Document(obj2), FALSE)
                  found == FindMatches(given.heap, given.node, p.fromPath)
              IN  IF obj2 = Nil THEN <<>> ELSE [k \in DOMAIN found |-> Tree(given.heap, found[k])]

\* What a name with that namespace is to become; an unknown one is an error.
MeantName(p, text, namespace) ==
  IF p.regex = "none"
  THEN IF dir = "down" THEN PhysicalName(text, namespace) ELSE ResolveName(text)
  ELSE Translated(p.regex, text, TranslateMatches(dir, namespace, p.regex, text))

\* What a patch is meant to put in place of which nodes.
Meaning(p) ==
  LET matches == S!ToSet(FindMatches(heap, node1, p.path))
      chosen == {m \in matches : ValidateAllConditions(heap, node1, m, p.conditions)}
      scalars == {m \in chosen : heap[m].kind = "scalar"}
      items == UNION {IF heap[m].kind = "sequence" THEN S!ToSet(heap[m].content)
                      ELSE IF heap[m].kind = "mapping" THEN {m} ELSE {} : m \in matches}
      Names(i) == S!ToSet(Scalars(heap, FindMatches(heap, i, p.namePath))) \ {i}
      Spaces(i) == IF p.namespacePath = <<>> THEN {}
                   ELSE {n \in S!ToSet(FindMatches(heap, i, p.namespacePath)) : heap[n].value # <<>>}
      Space(i) == IF Spaces(i) = {} THEN Namespace ELSE heap[CHOOSE n \in Spaces(i) : TRUE].value
      Item(n) == CHOOSE i \in items : n \in Names(i) \cup Spaces(i)
  IN  CASE p.op = "remove"  -> [n \in chosen |-> <<>>]
        [] p.op = "replace" -> [n \in chosen |-> <<p.value>>]
        [] p.op = "copyFromObject" -> [n \in IF Offered(p) = <<>> THEN {} ELSE chosen |-> Offered(p)]
        [] p.op = "rewriteName" ->
             [n \in scalars \cup UNION {Names(i) \cup Spaces(i) : i \in items} |->
                CASE n \in scalars -> <<Scalar(MeantName(p, heap[n].value, Namespace))>>
                  [] n \notin scalars /\ n \in Names(Item(n)) ->
                       <<Scalar(MeantName(p, heap[n].value, Space(Item(n))))>>
                  [] OTHER -> <<Scalar(TargetNamespace)>>]

Near(a, b) == S!IsPrefix(a, b) \/ S!IsPrefix(b, a)

\* A patch is applied to a document that is a tree.  (The document shares what
\* was copied with the other one, so that a second copy may not be the same.)
Patching ==
  /\ phase = "patch" /\ next <= Len(patches) /\ err' = "none"
  /\ Intact(heap, node1)
  /\ \A j \in 1..(next - 1) : patches[j].op = "copyFromObject" /\ patches[next].op = "copyFromObject" =>
       ~Near(patches[j].fromPath, patches[next].fromPath)

\* From a document that is a tree, a patch changes all the places that its
\* path and conditions select to what it is meant to put there, and nothing
\* else; a name is translated with the namespace beside it, as it was.  The
\* code takes the matches one by one, each time looks for the parent of the
\* match in the changed document, and replaces in a text by position.
PatchesWhatItSelects ==
  [][LET p == patches[next]
     IN  /\ Patching
         /\ p.op \in {"remove", "replace", "copyFromObject", "rewriteName"}
         /\ FindMatches(heap, node1, p.path) # <<>>
         => Tree(heap', node1) = Rebuilt(heap, node1, Meaning(p))]_vars

\* The path can be made: there are mappings on the way as far as there is
\* anything, and keys after that.
Creatable(path) ==
  /\ \A k \in DOMAIN path : path[k].step = "child"
  /\ \A k \in 1..Len(path) : \A n \in S!ToSet(FindMatches(heap, node1, SubSeq(path, 1, k))) :
       heap[n].kind = "mapping"

\* A patch that finds nothing at its path creates it: the path then leads to
\* the value, and what was in the document before is in it still, and first.
CreatesWhatItNames ==
  [][LET p == patches[next]
         value == IF p.op = "add" THEN <<p.value>> ELSE Offered(p)
     IN  /\ Patching
         /\ p.op \in {"add", "copyFromObject"} /\ value # <<>> /\ Creatable(p.path)
         /\ ValidateAllConditions(heap, node1, 0, p.conditions)
         /\ FindMatches(heap, node1, p.path) = <<>>
         => LET found == FindMatches(heap', node1, p.path)
            IN  /\ Len(found) = 1 /\ Tree(heap', found[1]) = value[1]
                /\ \A n \in S!ToSet(Nodes(heap, node1)) :
                     /\ S!IsPrefix(heap[n].content, heap'[n].content)
                     /\ heap'[n].value = heap[n].value]_vars

\* Lists that do not meet the known traps: places named by keys, no add, and
\* no two patches near each other where one of them copies, but for one that
\* rewrites what was just copied to the virtual object.
Careful ==
  /\ \A p \in S!ToSet(patches) :
       /\ p.path # <<>> /\ \A k \in DOMAIN p.path : p.path[k].step = "child"
       /\ p.op \notin {"add", "rewriteLabelExpressionsSelector"}
       /\ p.op = "copyFromObject" => p.path = p.fromPath \/ ~Near(p.path, p.fromPath)
  /\ \A j, k \in DOMAIN patches : j < k /\ "copyFromObject" \in {patches[j].op, patches[k].op} =>
       /\ ~Near(patches[j].fromPath, patches[k].fromPath) \/ patches[k].op # patches[j].op
       /\ \/ ~Near(patches[j].path, patches[k].path)
          \/ dir = "up" /\ patches[k].op = "rewriteName" /\ patches[j].path = patches[k].path

\* No name is translated up that the list has not copied from the host object.
NamesAreFresh ==
  dir = "up" => \A k \in DOMAIN patches : patches[k].op = "rewriteName" =>
    \E j \in 1..(k - 1) : patches[j].op = "copyFromObject" /\ patches[j].path = patches[k].path

\* An accepted list has no patch the switch of applyPatch does not know, and
\* a careful one with the removals of any ignored paths by keys and wildcards
\* does not panic and leaves the document a tree of pairs.
CarefulListsStaySound ==
  /\ err # "unknown"
  /\ Careful => err # "panic" /\ (phase = "patch" => Intact(heap, node1))

\* What a reverse patch writes to the virtual object is not written to the
\* host object: the path selects nothing in the result.
IgnoredPathsAbsent ==
  Careful /\ phase = "done" => \A p \in S!ToSet(reverse) :
    LET doc == NewNode(<<>>, Document(results[Len(results)]), FALSE)
    IN  p.ignore # "no" /\ p.path # <<>> => FindMatches(doc.heap, doc.node, p.path) = <<>>

\* A careful list that worked once works again, and after two rounds makes the
\* same object of what it made: the updates of a syncer come to an end.
Settles ==
  Careful /\ NamesAreFresh /\ results # <<>> =>
    /\ phase # "failed"
    /\ Len(results) > 2 => results[Len(results)] = results[Len(results) - 1]
=============================================================================
