----------------------------- MODULE MCForceSync -----------------------------
(***************************************************************************)
(* Small instances of ForceSync: two mapped kinds whose objects may name   *)
(* the same target.                                                        *)
(***************************************************************************)
EXTENDS ForceSync

CONSTANTS g1, g2,   \* kinds
          p1,       \* a path
          s1        \* a Secret or ConfigMap

Patch(g, p) == [parent |-> g, path |-> p]
MCNone == <<>>
MCOnePath == <<Patch(g1, p1), Patch(g2, p1)>>
==============================================================================
