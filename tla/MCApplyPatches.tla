--------------------------- MODULE MCApplyPatches ---------------------------
(***************************************************************************)
(* Small objects and patches of every operation for ApplyPatches.          *)
(***************************************************************************)
EXTENDS ApplyPatches

Text(parts) == Scalar(parts)
A == Text(<<"a">>)
B == Text(<<"b">>)
Pair == Mapping(<<"name", "space">>, <<A, B>>)
Single == Mapping(<<"name">>, <<B>>)

MCNil == Text(<<"nil">>)

Hosted(n) == Text(<<n, "x", "ns">>)

MCObjects ==
  [down |-> {Mapping(<<"ref", "items", "sel">>, <<Text(<<"a", "/", "b", "/", "c", "/", "d">>), List(<<Pair, Single>>), Mapping(<<"k">>, <<A>>)>>),
             Mapping(<<"items", "sel">>, <<List(<<A, B>>), Mapping(<<"matchExpressions">>, <<List(<<Single>>)>>)>>)},
   up |-> {Mapping(<<"ref", "items">>, <<Text(<<"a", "x", "ns", "/", "c">>), List(<<Mapping(<<"name">>, <<Hosted("a")>>)>>)>>),
           Mapping(<<"ref">>, <<Hosted("a")>>)}]

MCOthers ==
  [down |-> {MCNil, Mapping(<<"status", "ref">>, <<Single, B>>)},
   up |-> {Mapping(<<"status", "ref">>, <<Single, Hosted("a")>>)}]

Ref == <<Child("ref")>>
Items == <<Child("items")>>
EachItem == <<Child("items"), All>>
Sel == <<Child("sel")>>
Status == <<Child("status")>>

Named == NewCondition(<<>>, <<Child("name")>>)

MCPatches == {
  NewPatch("remove", Ref), NewPatch("remove", EachItem), NewPatch("remove", <<Deep("name")>>),
  NewPatch("remove", Items \o <<Index(0)>>),
  [NewPatch("remove", EachItem) EXCEPT !.conditions = <<[Named EXCEPT !.equal = <<A>>]>>],
  [NewPatch("replace", Ref) EXCEPT !.value = B],
  [NewPatch("replace", EachItem) EXCEPT !.value = Pair],
  [NewPatch("add", Items) EXCEPT !.value = Single],
  [NewPatch("add", Sel) EXCEPT !.value = Mapping(<<"k">>, <<B>>)],
  [NewPatch("add", Ref) EXCEPT !.value = Single],
  [NewPatch("copyFromObject", Sel) EXCEPT !.fromPath = Status],
  [NewPatch("add", Ref \o Status) EXCEPT !.value = A],
  [NewPatch("add", Status \o Ref) EXCEPT !.value = A],
  [NewPatch("copyFromObject", Ref) EXCEPT !.fromPath = Ref],
  [NewPatch("copyFromObject", Status) EXCEPT !.fromPath = Status],
  [NewPatch("copyFromObject", EachItem) EXCEPT !.fromPath = Status],
  [NewPatch("copyFromObject", Status \o Status) EXCEPT !.fromPath = Status],
  [NewPatch("rewriteName", Ref) EXCEPT !.regex = "name"],
  [NewPatch("rewriteName", Ref) EXCEPT !.regex = "namespace/name"],
  NewPatch("rewriteName", Ref),
  NewPatch("rewriteName", <<Deep("name")>>),
  [NewPatch("rewriteName", Items) EXCEPT !.namePath = <<Child("name")>>, !.namespacePath = <<Child("space")>>],
  NewPatch("rewriteLabelKey", EachItem),
  NewPatch("rewriteLabelSelector", Sel),
  NewPatch("rewriteLabelExpressionsSelector", Sel),
  NewPatch("move", Ref),
  NewPatch("copyFromObject", Ref) }

\* All lists of two, and lists of three of the patches that share nodes.
Sharing == {p \in MCPatches : \/ p.op = "copyFromObject" /\ p.path \in {Ref, Status, Sel} /\ p.fromPath # <<>>
                              \/ p.op = "rewriteName" /\ p.path \in {Ref, <<Deep("name")>>} /\ p.regex = "none"
                              \/ p.op = "replace"}

MCPatchLists == S!BoundedSeq(MCPatches, 2) \cup S!BoundedSeq(Sharing, 3)

MCIgnores == {
  [NewPatch("copyFromObject", Status) EXCEPT !.fromPath = Status],
  [NewPatch("copyFromObject", EachItem) EXCEPT !.fromPath = Status],
  [NewPatch("copyFromObject", <<Deep("name")>>) EXCEPT !.fromPath = Status],
  [NewPatch("copyFromObject", Ref) EXCEPT !.fromPath = Ref, !.ignore = "no"] }

MCCachedNames == {<<"a">>}

-----------------------------------------------------------------------------
(***************************************************************************)
(* The cases of pkg/patches/patch_test.go, which work on documents in      *)
(* block style.                                                            *)
(***************************************************************************)
Case(tree, other, Op(_, _, _)) ==
  LET first == NewNode(<<>>, Document(tree), TRUE)
      second == NewNode(first.heap, Document(other), TRUE)
      outcome == Op(second.heap, first.node, second.node)
  IN  IF outcome.err = "none" THEN Tree(outcome.heap, first.node).children[1] ELSE outcome.err

M(key, value) == Mapping(<<key>>, <<value>>)
None == Mapping(<<>>, <<>>)
T == Child("test")
At(names) == [k \in DOMAIN names |-> Child(names[k])]

ReplaceIf(condition) ==
  [NewPatch("replace", At(<<"test", "abc">>)) EXCEPT !.value = Text(<<"def">>), !.conditions = <<condition>>]
StatusIs(text) == [NewCondition(At(<<"test", "status">>), <<>>) EXCEPT !.equal = <<M("test", Text(<<text>>))>>]
WithStatus(text) == M("test", Mapping(<<"status", "abc">>, <<M("test", Text(<<"test">>)), Text(<<text>>)>>))
Rewrite(namePath, namespacePath) ==
  [NewPatch("rewriteName", At(<<"list">>)) EXCEPT !.namePath = namePath, !.namespacePath = namespacePath]

ASSUME RepositoryTests ==
  /\ Case(Mapping(<<"spec", "test">>, <<None, M("abc", A)>>), M("status", M("test", B)),
          LAMBDA h, d, o : CopyFromObject(h, d, o,
            [NewPatch("copyFromObject", <<T>>) EXCEPT !.fromPath = At(<<"status", "test">>)]))
       = Mapping(<<"spec", "test">>, <<None, B>>)
  /\ Case(M("spec", None), M("status", M("test", B)),
          LAMBDA h, d, o : CopyFromObject(h, d, o, [NewPatch("copyFromObject", Status) EXCEPT !.fromPath = Status]))
       = Mapping(<<"spec", "status">>, <<None, M("test", B)>>)
  /\ Case(Mapping(<<"test", "test2">>, <<M("test3", None), None>>), None,
          LAMBDA h, d, o : Add(h, d, [NewPatch("add", At(<<"test", "test2">>) \o <<Index(0), Child("test3")>>)
                                      EXCEPT !.value = A]))
       = Mapping(<<"test", "test2">>, <<Mapping(<<"test3", "test2">>, <<None, List(<<M("test3", A)>>)>>), None>>)
  /\ Case(M("test", M("test2", List(<<B>>))), None,
          LAMBDA h, d, o : Add(h, d, [NewPatch("add", At(<<"test", "test2">>)) EXCEPT !.value = A]))
       = M("test", M("test2", List(<<B, A>>)))
  /\ Case(M("test", M("test2", List(<<M("abc", A), M("abc", B)>>))), None,
          LAMBDA h, d, o : Replace(h, d, [NewPatch("replace", <<T, Deep("abc")>>) EXCEPT !.value = Text(<<"def">>)]))
       = M("test", M("test2", List(<<M("abc", Text(<<"def">>)), M("abc", Text(<<"def">>))>>)))
  /\ Case(M("test", M("abc", A)), None,
          LAMBDA h, d, o : Replace(h, d, ReplaceIf([NewCondition(At(<<"test", "status">>), <<>>) EXCEPT !.empty = "yes"])))
       = M("test", M("abc", Text(<<"def">>)))
  /\ Case(WithStatus("abc"), None, LAMBDA h, d, o : Replace(h, d, ReplaceIf(StatusIs("test")))) = WithStatus("def")
  /\ Case(WithStatus("abc"), None, LAMBDA h, d, o : Replace(h, d, ReplaceIf(StatusIs("test1")))) = WithStatus("abc")
  /\ Case(M("list", List(<<Mapping(<<"nm", "ns">>, <<A, B>>)>>)), None,
          LAMBDA h, d, o : RewriteName(h, d, Rewrite(At(<<"nm">>), At(<<"ns">>)), "down"))
       = M("list", List(<<Mapping(<<"nm", "ns">>, <<Text(<<"a", "x", "b">>), Text(TargetNamespace)>>)>>))
  /\ Case(M("list", List(<<Mapping(<<"nm", "ns">>, <<A, B>>)>>)), None,
          LAMBDA h, d, o : RewriteName(h, d, Rewrite(At(<<"nm">>), <<>>), "down"))
       = M("list", List(<<Mapping(<<"nm", "ns">>, <<Hosted("a"), B>>)>>))
  /\ Case(M("list", M("names", List(<<M("ns", A), M("ns", B)>>))), None,
          LAMBDA h, d, o : RewriteName(h, d, Rewrite(<<Child("names"), Deep("nm")>>, <<Deep("ns")>>), "down")) = "error"
  /\ Case(M("list", List(<<M("name", A), M("name", B)>>)), None,
          LAMBDA h, d, o : RewriteName(h, d, NewPatch("rewriteName", <<Child("list"), All>>), "down"))
       = M("list", List(<<M("name", A), M("name", B)>>))
=============================================================================
