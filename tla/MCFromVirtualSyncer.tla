------------------------ MODULE MCFromVirtualSyncer ------------------------
(***************************************************************************)
(* Small instances of FromVirtualSyncer: one mapping, with and without a   *)
(* selector, and two mappings that divide the objects.                     *)
(***************************************************************************)
EXTENDS FromVirtualSyncer

CONSTANTS a, b,     \* IDs of mappings
          red, blue \* labels

\* Every mapping is to sync all objects, and has no selector.
MCAll == [c \in Controllers |-> Labels]
MCNoSelectors == [c \in Controllers |-> NoSelector]

\* Mapping a is to sync the red objects, b the blue ones.
MCDivided == [c \in Controllers |-> IF c = a THEN {red} ELSE {blue}]

\* Selectors that match the objects not to be synced, as the code wants them.
MCExcluding == [c \in Controllers |-> Labels \ MCDivided[c]]
============================================================================
