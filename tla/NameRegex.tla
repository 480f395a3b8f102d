----------------------------- MODULE NameRegex -----------------------------
(***************************************************************************)
(* pkg/patches/regex/regex.go: the names in a text are found by a regular  *)
(* expression and replaced by their translations, by position.             *)
(*                                                                         *)
(* A text is a sequence of parts; runs of parts that are no "/" are what   *)
(* NAME and NAMESPACE match.  Positions count from 0 and end after the     *)
(* last part, as in the code.                                              *)
(***************************************************************************)
EXTENDS Integers, Sequences
LOCAL INSTANCE SequencesExt

\* The maximal runs without separator, as pairs of positions: what $NAME and
\* $NAMESPACE stand for.
Runs(text) ==
  LET In(i) == i \in 1..Len(text) /\ text[i] # "/"
      starts == SelectSeq([i \in 1..Len(text) |-> i], LAMBDA i : In(i) /\ ~In(i - 1))
      ends == SelectSeq([i \in 1..Len(text) |-> i], LAMBDA i : In(i) /\ ~In(i + 1))
  IN  [k \in DOMAIN starts |-> [start |-> starts[k] - 1, end |-> ends[k]]]

Part(text, run) == SubSeq(text, run.start + 1, run.end)

NoRun == [start |-> -1, end |-> -1]

\* FindAllStringSubmatchIndex, for $NAME, $NAMESPACE/$NAME and
\* $NAME/$NAMESPACE: where the groups are in each of the matches,
\* from the first to the last, without overlap.
Matches(regex, text) ==
  LET runs == Runs(text)
      Pair(s, run) == IF s.first # NoRun /\ run.start = s.first.end + 1
                      THEN [first |-> NoRun, pairs |-> Append(s.pairs, <<s.first, run>>)]
                      ELSE [s EXCEPT !.first = run]
      pairs == FoldLeft(Pair, [first |-> NoRun, pairs |-> <<>>], runs).pairs
  IN  CASE regex = "name" ->
             [k \in DOMAIN runs |-> [name |-> runs[k], namespace |-> NoRun]]
        [] regex = "namespace/name" ->
             [k \in DOMAIN pairs |-> [name |-> pairs[k][2], namespace |-> pairs[k][1]]]
        [] regex = "name/namespace" ->
             [k \in DOMAIN pairs |-> [name |-> pairs[k][1], namespace |-> pairs[k][2]]]

\* Variant: the positions are not moved by what was replaced before.
IndexBasedReplaceUnmoved(input, items) ==
  LET Earlier(a, b) == a.start < b.start
      Put(s, i) == SubSeq(s, 1, i.start) \o i.replacement \o SubSeq(s, i.end + 1, Len(s))
  IN  FoldLeft(Put, input, SetToSortSeq(ToSet(items), Earlier))

\* The items are replaced from the first to the last, with an offset for what
\* the earlier ones did to the length.
IndexBasedReplace(input, items) ==
  LET Earlier(a, b) == a.start < b.start
      Put(s, i) == [text   |-> SubSeq(s.text, 1, i.start + s.offset) \o i.replacement
                               \o SubSeq(s.text, i.end + s.offset + 1, Len(s.text)),
                    offset |-> s.offset + Len(i.replacement) - (i.end - i.start)]
  IN  FoldLeft(Put, [text |-> input, offset |-> 0], SetToSortSeq(ToSet(items), Earlier)).text

\* Name and namespace (empty if there is none) in a match, and in all of them.
Group(input, m) == [name      |-> Part(input, m.name),
                    namespace |-> IF m.namespace = NoRun THEN <<>> ELSE Part(input, m.namespace)]

Groups(regex, input) == {Group(input, m) : m \in ToSet(Matches(regex, input))}

\* translateFunc takes the groups to names and namespaces.
ProcessRegex(regex, input, translateFunc) ==
  LET Items(m) ==
        LET t == translateFunc[Group(input, m)]
            name == [start |-> m.name.start, end |-> m.name.end, replacement |-> t.name]
        IN  IF m.namespace = NoRun THEN <<name>>
            ELSE <<name, [start |-> m.namespace.start, end |-> m.namespace.end,
                          replacement |-> t.namespace]>>
      matches == Matches(regex, input)
  IN  IndexBasedReplace(input, FlattenSeq([k \in DOMAIN matches |-> Items(matches[k])]))

\* What the result is to be: the text, with each run that is a group of a
\* match given as its translation.
Translated(regex, input, translateFunc) ==
  LET runs == ToSet(Runs(input))
      matches == ToSet(Matches(regex, input))
      Of(m) == translateFunc[Group(input, m)]
      New(run) == CASE \E m \in matches : m.name = run -> Of(CHOOSE m \in matches : m.name = run).name
                    [] \E m \in matches : m.namespace = run ->
                         Of(CHOOSE m \in matches : m.namespace = run).namespace
                    [] OTHER -> Part(input, run)
      At(i) == CASE \E r \in runs : r.start = i - 1 -> New(CHOOSE r \in runs : r.start = i - 1)
                 [] \E r \in runs : r.start < i - 1 /\ i <= r.end -> <<>>
                 [] OTHER -> <<input[i]>>
  IN  FlattenSeq([i \in DOMAIN input |-> At(i)])
============================================================================
