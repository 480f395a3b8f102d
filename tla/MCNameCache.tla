----------------------------- MODULE MCNameCache -----------------------------
(***************************************************************************)
(* Small instances of NameCache.  Two virtual objects, which may reference *)
(* each other and themselves under a rewritten path, so that one host name *)
(* has entries of several objects under several paths.                     *)
(***************************************************************************)
EXTENDS NameCache, TLC

CONSTANTS o1, o2,          \* virtual names, of objects
          h1, h2,          \* host names
          name, ref,       \* paths: metadata.name and a rewritten reference
          c1, c2           \* informer handlers

\* Names are told apart by their host names.
MCPhysicalName == (o1 :> h1) @@ (o2 :> h2)

Referring(sets) == {[p \in Paths |-> IF p = ref THEN names ELSE {}] : names \in sets}
MCContents == Referring({{}, {o2}})

\* Handler c1 rewrites the reference, c2 only metadata.name.
MCRewritePaths == [c \in Handlers |-> IF c = c1 THEN {ref} ELSE {}]

MCSelectors == <<ref, AnyPath>>
==============================================================================
