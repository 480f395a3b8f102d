----------------------------- MODULE PatchTypes -----------------------------
(***************************************************************************)
(* pkg/patches/patch_types.go with conditions.go and path.go, the patches  *)
(* of pkg/config, and the name resolvers of from_virtual_syncer.go: what a *)
(* patch does to a document.                                               *)
(*                                                                         *)
(* An operation takes the heap to an outcome: the heap after it and        *)
(* whether it ended with an error, or panicked.                            *)
(***************************************************************************)
EXTENDS YamlNodes, NameRegex
S == INSTANCE SequencesExt

CONSTANTS CachedNames   \* virtual names whose host names the name cache knows

\* A patch without options.  Empty paths are paths that are not set; equal and
\* notEqual of a condition are sequences of at most one value.
NewPatch(op, path) ==
  [op |-> op, path |-> path, fromPath |-> <<>>, namePath |-> <<>>, namespacePath |-> <<>>,
   value |-> Scalar(<<>>), regex |-> "none", conditions |-> <<>>, ignore |-> "unset"]

NewCondition(path, subPath) ==
  [path |-> path, subPath |-> subPath, empty |-> "unset", equal |-> <<>>, notEqual |-> <<>>]

Ok(heap) == [heap |-> heap, err |-> "none"]
Failed(heap, err) == [heap |-> heap, err |-> err]

\* Op, for each of the matches, up to the first error.
ForEach(heap, matches, Op(_, _)) ==
  LET Step(r, m) == IF r.err = "none" THEN Op(r.heap, m) ELSE r
  IN  S!FoldLeft(Step, Ok(heap), matches)

-----------------------------------------------------------------------------
(***************************************************************************)
(* Conditions.                                                             *)
(***************************************************************************)
\* getStringValue: a string is its text.  Everything else is compared as it is
\* marshalled: of a node that came in JSON the text is JSON, of the value in
\* the configuration it is YAML, and only empty collections look the same.
\* (Values of kind "number", numbers and booleans, end with a line feed.)
SameText(heap, node, value) ==
  IF heap[node].kind = "scalar" THEN value.kind = "scalar" /\ value.value = heap[node].value
  ELSE /\ Tree(heap, node) = value
       /\ value.children = <<>> \/ \A n \in S!ToSet(Nodes(heap, node)) : heap[n].block

Empty(heap, node) == heap[node].kind = "scalar" /\ heap[node].value = <<>>

Fulfills(heap, node, c) ==
  CASE c.empty # "unset"  -> Empty(heap, node) <=> c.empty = "yes"
    [] c.equal # <<>>     -> SameText(heap, node, c.equal[1])
    [] c.notEqual # <<>>  -> ~SameText(heap, node, c.notEqual[1])
    [] OTHER              -> FALSE

ValidateCondition(heap, obj, match, c) ==
  LET matches == CASE c.subPath # <<>> /\ match # 0 -> FindMatches(heap, match, c.subPath)
                   [] c.subPath = <<>> /\ c.path # <<>> -> FindMatches(heap, obj, c.path)
                   [] OTHER -> <<>>
  IN  IF matches = <<>> THEN c.empty = "yes" \/ c.notEqual # <<>>
      ELSE \E k \in DOMAIN matches : Fulfills(heap, matches[k], c)

ValidateAllConditions(heap, obj, match, conditions) ==
  \A k \in DOMAIN conditions : ValidateCondition(heap, obj, match, conditions[k])

\* Op, if the conditions hold.
When(heap, obj, match, p, Op(_, _)) ==
  IF ValidateAllConditions(heap, obj, match, p.conditions) THEN Op(heap, match) ELSE Ok(heap)

-----------------------------------------------------------------------------
(***************************************************************************)
(* createPath and AddNode.                                                 *)
(***************************************************************************)
isSequenceChild(path) == S!Last(path).step = "index"

\* The value under a key, or alone in a sequence.
createMappingNode(heap, path, value) ==
  Append(heap, [kind |-> "scalar", value |-> <<S!Last(path).name>>, content |-> <<>>, block |-> TRUE])
    \o <<[kind |-> "mapping", value |-> <<>>, content |-> <<Len(heap) + 1, value>>, block |-> TRUE]>>

createSequenceNode(heap, value) ==
  Append(heap, [kind |-> "sequence", value |-> <<>>, content |-> <<value>>, block |-> TRUE])

\* Puts the value, one node for all, into every node the parent path matches;
\* a scalar there gets the content of the value before it, in its own parent.
PutInto(heap, doc, parents, path, value) ==
  LET Put(h, m) ==
        LET keyed == Append(h, [kind |-> "scalar", value |-> <<S!Last(path).name>>,
                                content |-> <<>>, block |-> TRUE])
        IN  CASE h[m].kind = "scalar"   -> Ok(AddChildAtIndex(h, Find(h, doc, m), m, h[value].content))
              [] h[m].kind = "sequence" -> Ok(Appended(h, m, <<value>>))
              [] h[m].kind = "mapping"  -> Ok(Appended(keyed, m, <<Len(keyed), value>>))
              [] h[m].kind = "document" -> Ok(Appended(keyed, h[m].content[1], <<Len(keyed), value>>))
  IN  ForEach(heap, parents, Put)

\* The parent path of "..name" is none.
RECURSIVE createPath(_, _, _, _)
createPath(heap, doc, path, value) ==
  LET parents == FindMatches(heap, doc, S!Front(path))
      wrapped == IF isSequenceChild(path) THEN createSequenceNode(heap, value)
                 ELSE createMappingNode(heap, path, value)
  IN  CASE S!Last(path).step = "deep" -> Failed(heap, "error")
        [] parents # <<>>             -> PutInto(heap, doc, parents, path, value)
        [] OTHER                      -> createPath(wrapped, doc, S!Front(path), Len(wrapped))

AddNode(heap, doc, match, value) ==
  CASE heap[match].kind = "scalar" ->
         LET parent == Find(heap, doc, match)
         IN  IF parent = 0 THEN Failed(heap, "panic")
             ELSE Ok(AddChildAtIndex(heap, parent, match, <<value>>))
    [] heap[match].kind = "mapping"  -> Ok(Appended(heap, match, heap[value].content))
    [] heap[match].kind = "sequence" -> Ok(Appended(heap, match, <<value>>))
    [] heap[match].kind = "document" -> Ok(Appended(heap, heap[match].content[1], heap[value].content))

-----------------------------------------------------------------------------
(***************************************************************************)
(* The operations that do not translate.                                   *)
(***************************************************************************)
\* Variant: only the last step of the path is created.
CopyFromObjectShallow(heap, doc, other, p) ==
  LET matches == FindMatches(heap, doc, p.path)
      from == FindMatches(heap, other, IF p.fromPath = <<>> THEN p.path ELSE p.fromPath)
      Create(h, m) == PutInto(h, doc, FindMatches(h, doc, S!Front(p.path)), p.path, from[1])
      Copy(h, m) == IF from # <<>> THEN Ok(ReplaceNode(h, doc, m, from))
                    ELSE IF Find(h, doc, m) = 0 THEN Failed(h, "panic") ELSE Ok(h)
  IN  CASE other = 0 -> Ok(heap)
        [] other # 0 /\ Len(from) > 1 -> Failed(heap, "error")
        [] other # 0 /\ Len(from) = 1 /\ matches = <<>> -> When(heap, doc, 0, p, Create)
        [] OTHER -> ForEach(heap, matches, LAMBDA h, m : When(h, doc, m, p, Copy))

\* If the source does not have the path, the matches are to be removed; but
\* the result of removeChild is not used.
CopyFromObject(heap, doc, other, p) ==
  LET matches == FindMatches(heap, doc, p.path)
      from == FindMatches(heap, other, IF p.fromPath = <<>> THEN p.path ELSE p.fromPath)
      Create(h, m) == createPath(h, doc, p.path, from[1])
      Copy(h, m) == IF from # <<>> THEN Ok(ReplaceNode(h, doc, m, from))
                    ELSE IF Find(h, doc, m) = 0 THEN Failed(h, "panic") ELSE Ok(h)
  IN  CASE other = 0 -> Ok(heap)
        [] other # 0 /\ Len(from) > 1 -> Failed(heap, "error")
        [] other # 0 /\ Len(from) = 1 /\ matches = <<>> -> When(heap, doc, 0, p, Create)
        [] OTHER -> ForEach(heap, matches, LAMBDA h, m : When(h, doc, m, p, Copy))

\* A match whose parent has been removed with an earlier match panics, and so
\* does one that has come to stand where the first key should be.
Remove(heap, doc, p) ==
  LET RemoveMatch(h, m) ==
        LET parent == Find(h, doc, m)
        IN  CASE parent = 0 -> Failed(h, "panic")
              [] parent # 0 /\ h[parent].kind = "mapping" /\ ChildIndex(h, parent, m) = 1 ->
                   Failed(h, "panic")
              [] parent # 0 /\ h[parent].kind = "mapping" /\ ChildIndex(h, parent, m) > 1 ->
                   Ok(removeProperty(h, parent, m))
              [] parent # 0 /\ h[parent].kind = "sequence" -> Ok(removeChild(h, parent, m))
              [] OTHER -> Ok(h)
  IN  ForEach(heap, FindMatches(heap, doc, p.path), LAMBDA h, m : When(h, doc, m, p, RemoveMatch))

Add(heap, doc, p) ==
  LET matches == FindMatches(heap, doc, p.path)
      new == NewNode(heap, p.value, TRUE)
      Create(h, m) == createPath(h, doc, p.path, new.node)
      AddTo(h, m) == AddNode(h, doc, m, new.node)
  IN  IF matches = <<>> THEN When(new.heap, doc, 0, p, Create)
      ELSE ForEach(new.heap, matches, LAMBDA h, m : When(h, doc, m, p, AddTo))

Replace(heap, doc, p) ==
  LET new == NewNode(heap, p.value, TRUE)
      ReplaceMatch(h, m) == Ok(ReplaceNode(h, doc, m, <<new.node>>))
  IN  ForEach(new.heap, FindMatches(heap, doc, p.path), LAMBDA h, m : When(h, doc, m, p, ReplaceMatch))

-----------------------------------------------------------------------------
(***************************************************************************)
(* The name resolvers: "down" from virtual to host, "up" from host to      *)
(* virtual, which only does names.  A translation is a sequence: empty if  *)
(* it fails, else with the result as its one element.                      *)
(***************************************************************************)
Namespace == <<"ns">>           \* of the virtual object
TargetNamespace == <<"host">>

PhysicalName(name, namespace) == name \o <<"x">> \o namespace

\* What the name cache knows of a host name; nothing is the empty name.  With a
\* fromPath the lookup is ResolveNamePath; CachedNames are the names found there.
ResolveName(host) ==
  LET names == {n \in CachedNames : PhysicalName(n, Namespace) = host}
  IN  IF names = {} THEN <<>> ELSE CHOOSE n \in names : TRUE

\* translateFunc of the two resolvers, for the groups in a text; "up" an
\* unknown name becomes empty.
TranslateMatches(dir, namespace, regex, text) ==
  [g \in Groups(regex, text) |->
     IF dir = "down"
     THEN [name      |-> PhysicalName(g.name, IF g.namespace = <<>> THEN namespace ELSE g.namespace),
           namespace |-> TargetNamespace]
     ELSE LET n == ResolveName(g.name)
          IN  [name |-> n, namespace |-> IF n = <<>> THEN <<>> ELSE Namespace]]

\* TranslateNameWithNamespace if a namespace is given, which "up" does not
\* know, and TranslateName if there is none.
TranslateName(dir, text, given, regex) ==
  LET namespace == IF given = <<>> THEN Namespace ELSE given
  IN  CASE dir = "up" /\ given # <<>> -> <<>>
        [] regex # "none" /\ (dir = "down" \/ given = <<>>) ->
             <<ProcessRegex(regex, text, TranslateMatches(dir, namespace, regex, text))>>
        [] regex = "none" /\ dir = "down" -> <<PhysicalName(text, namespace)>>
        [] regex = "none" /\ dir = "up" /\ given = <<>> ->
             IF ResolveName(text) = <<>> THEN <<>> ELSE <<ResolveName(text)>>

TranslateNamespaceRef(dir, text) == IF dir = "down" THEN <<TargetNamespace>> ELSE <<>>

ConvertLabelKey(key) == <<"label">> \o key

TranslateLabelKey(dir, key) == IF dir = "down" THEN <<ConvertLabelKey(key)>> ELSE <<>>

\* A mapping with its keys converted, and the labels of the virtual cluster.
ConvertLabels(labels) ==
  [labels EXCEPT !.children =
     [k \in DOMAIN @ |-> IF k % 2 = 1 THEN Scalar(ConvertLabelKey(@[k].value)) ELSE @[k]]
       \o <<Scalar(<<"namespaceLabel">>), Scalar(Namespace), Scalar(<<"markerLabel">>), Scalar(<<"suffix">>)>>]

TranslateLabelSelector(dir, labels) == IF dir = "down" THEN <<ConvertLabels(labels)>> ELSE <<>>

\* The value under a key of a tree, or a default.
Under(tree, key, default) ==
  LET at == {k \in DOMAIN tree.children : k % 2 = 1 /\ tree.children[k].value = <<key>>}
  IN  IF at = {} THEN default ELSE tree.children[(CHOOSE k \in at : TRUE) + 1]

TranslateLabelExpressionsSelector(dir, selector) ==
  IF dir = "down"
  THEN <<Mapping(<<"matchLabels">>, <<ConvertLabels(Under(selector, "matchLabels", Mapping(<<>>, <<>>)))>>)>>
  ELSE <<>>

\* The translated expressions are assigned to positions of an empty slice.
ExpressionsPanic(dir, selector) ==
  dir = "down" /\ Under(selector, "matchExpressions", List(<<>>)).children # <<>>

-----------------------------------------------------------------------------
(***************************************************************************)
(* The operations that translate.                                          *)
(***************************************************************************)
\* The match is replaced by the translation, unless there is none.
ReplaceTranslated(heap, obj, match, translation, block) ==
  IF translation = <<>> THEN Failed(heap, "error")
  ELSE LET new == NewNode(heap, translation[1], block)
       IN  Ok(ReplaceNode(new.heap, obj, match, <<new.node>>))

AsScalar(translation) == IF translation = <<>> THEN <<>> ELSE <<Scalar(translation[1])>>

ValidateAndTranslateName(heap, obj, match, p, dir, namespace) ==
  LET Translate(h, m) ==
        ReplaceTranslated(h, obj, m, AsScalar(TranslateName(dir, h[m].value, namespace, p.regex)), TRUE)
  IN  When(heap, obj, match, p, Translate)

ValidateAndTranslateNamespace(heap, obj, match, p, dir) ==
  LET Translate(h, m) ==
        ReplaceTranslated(h, obj, m, AsScalar(TranslateNamespaceRef(dir, h[m].value)), TRUE)
  IN  When(heap, obj, match, p, Translate)

Scalars(heap, nodes) == SelectSeq(nodes, LAMBDA n : heap[n].kind = "scalar")

\* The namespaces an object names: more than one are an error.
GetNamespace(heap, obj, p) ==
  IF p.namespacePath = <<>> THEN <<>>
  ELSE LET matches == FindMatches(heap, obj, p.namespacePath)
       IN  [k \in DOMAIN matches |-> heap[matches[k]].value]

\* obj: the mapping, or the item of a sequence, with a name and a namespace.
RewriteNamed(heap, obj, p, dir, namespace) ==
  LET Name(h, m) == ValidateAndTranslateName(h, obj, m, p, dir, namespace)
      Space(h, m) == ValidateAndTranslateNamespace(h, obj, m, p, dir)
      Spaces(r) == IF r.err # "none" \/ namespace = <<>> THEN r
                   ELSE ForEach(r.heap, Scalars(r.heap, FindMatches(r.heap, obj, p.namespacePath)), Space)
  IN  Spaces(ForEach(heap, Scalars(heap, FindMatches(heap, obj, p.namePath)), Name))

ProcessRewrite(heap, obj, p, dir) ==
  LET namespaces == GetNamespace(heap, obj, p)
  IN  IF Len(namespaces) > 1 THEN Failed(heap, "error")
      ELSE RewriteNamed(heap, obj, p, dir, S!FlattenSeq(namespaces))

RewriteName(heap, doc, p, dir) ==
  LET Item(h, m) == ProcessRewrite(h, m, p, dir)
      Items(h, m) == CASE h[m].kind = "sequence" -> h[m].content
                       [] h[m].kind = "mapping"  -> <<m>>
                       [] OTHER                  -> <<>>
      Rewrite(h, m) == IF h[m].kind = "scalar" THEN ValidateAndTranslateName(h, doc, m, p, dir, <<>>)
                       ELSE ForEach(h, Items(h, m), Item)
  IN  ForEach(heap, FindMatches(heap, doc, p.path), Rewrite)

RewriteLabelKey(heap, doc, p, dir) ==
  LET Translate(h, m) ==
        IF h[m].value = <<>> THEN Ok(h)
        ELSE ReplaceTranslated(h, doc, m, AsScalar(TranslateLabelKey(dir, h[m].value)), TRUE)
      Rewrite(h, m) == IF h[m].kind = "scalar" THEN When(h, doc, m, p, Translate) ELSE Ok(h)
  IN  ForEach(heap, FindMatches(heap, doc, p.path), Rewrite)

\* A mapping of texts.
Strings(labels) == labels.kind = "mapping" /\ \A k \in DOMAIN labels.children : labels.children[k].kind = "scalar"

\* UnmarshalStrict into a map of strings refuses other values, and equal keys.
RewriteLabelSelector(heap, doc, p, dir) ==
  LET Translate(h, m) ==
        LET tree == Tree(h, m)  labels == Object(tree)
        IN  IF ~Strings(labels) \/ Len(labels.children) < 2 * (Len(tree.children) \div 2)
            THEN Failed(h, "error")
            ELSE ReplaceTranslated(h, doc, m, TranslateLabelSelector(dir, labels), TRUE)
      Rewrite(h, m) == IF h[m].kind = "mapping" THEN When(h, doc, m, p, Translate) ELSE Ok(h)
  IN  ForEach(heap, FindMatches(heap, doc, p.path), Rewrite)

\* Fits the type LabelSelector.
IsLabelSelector(selector) ==
  LET expressions == Under(selector, "matchExpressions", List(<<>>))
  IN  /\ Readable(selector)
      /\ Strings(Under(selector, "matchLabels", Mapping(<<>>, <<>>)))
      /\ expressions.kind = "sequence"
      /\ \A k \in DOMAIN expressions.children : expressions.children[k].kind = "mapping"

RewriteLabelExpressionsSelector(heap, doc, p, dir) ==
  LET Translate(h, m) ==
        LET selector == Object(Tree(h, m))
        IN  CASE ~IsLabelSelector(selector) -> Failed(h, "error")
              [] IsLabelSelector(selector) /\ ExpressionsPanic(dir, selector) -> Failed(h, "panic")
              [] OTHER -> ReplaceTranslated(h, doc, m, TranslateLabelExpressionsSelector(dir, selector), FALSE)
      Rewrite(h, m) == IF h[m].kind = "mapping" THEN When(h, doc, m, p, Translate) ELSE Ok(h)
  IN  ForEach(heap, FindMatches(heap, doc, p.path), Rewrite)
=============================================================================
