---------------------------- MODULE NameResolver ----------------------------
(***************************************************************************)
(* What the controllers of pkg/syncer need from the name cache: a host     *)
(* name has at any moment a set of acceptable answers, the answers change  *)
(* behind the controller's back, and a controller that has registered its  *)
(* change hooks is told of every host name whose answers changed.  Nothing *)
(* is said of objects, paths, indices or notifications: NameCache is the   *)
(* implementation.                                                         *)
(***************************************************************************)
CONSTANTS HostNames,  \* names of objects in the host cluster
          Answers,    \* what PhysicalToVirtual can return
          NoName      \* the empty NamespacedName

VARIABLES answers,    \* answers[h]: what resolving h may return now
          hooked,     \* the controller registered its change hooks
          queue,      \* the work queue of the controller
          active,     \* host names being worked on
          seen        \* seen[h]: what the controller last acted on for h

vars == <<answers, hooked, queue, active, seen>>

TypeOK == /\ answers \in [HostNames -> SUBSET Answers]
          /\ hooked \in BOOLEAN
          /\ queue \subseteq HostNames
          /\ active \subseteq HostNames
          /\ seen \in [HostNames -> Answers]

Init == /\ answers = [h \in HostNames |-> {NoName}]
        /\ hooked = FALSE
        /\ queue = {}
        /\ active = {}
        /\ seen = [h \in HostNames |-> NoName]

Changed(new) == {h \in HostNames : new[h] # answers[h]}

\* The answers change; a hooked controller has every changed name queued.
Change == /\ answers' \in [HostNames -> SUBSET Answers]
          /\ queue \subseteq queue'
          /\ queue' \subseteq HostNames
          /\ hooked => Changed(answers') \subseteq queue'
          /\ UNCHANGED <<hooked, active, seen>>

\* The controller starts: all host names are queued.
Register == /\ ~hooked
            /\ hooked' = TRUE
            /\ queue' = HostNames
            /\ UNCHANGED <<answers, active, seen>>

Take(h) == /\ hooked
           /\ h \in queue
           /\ active = {}
           /\ queue' = queue \ {h}
           /\ active' = {h}
           /\ UNCHANGED <<answers, hooked, seen>>

\* The worker is done with h.  What it acted on is an acceptable answer,
\* unless the answers moved meanwhile, and then h is queued again.
Finish(h) == /\ h \in active
             /\ active' = active \ {h}
             /\ \E v \in Answers :
                   /\ v \in answers[h] \/ h \in queue
                   /\ seen' = [seen EXCEPT ![h] = v]
             /\ UNCHANGED <<answers, hooked, queue>>

Next == \/ Change
        \/ Register
        \/ \E h \in HostNames : Take(h) \/ Finish(h)

Spec == Init /\ [][Next]_vars

\* A controller never settles on an outdated answer: a host name that is
\* neither queued nor being worked on was last resolved to what the name
\* cache answers now.
UpToDate == hooked => \A h \in HostNames : h \in queue \cup active \/ seen[h] \in answers[h]
=============================================================================
