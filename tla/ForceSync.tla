----------------------------- MODULE ForceSync -----------------------------
(***************************************************************************)
(* pkg/syncer/force_sync_controller.go, and the part of main.go that hands *)
(* it its configuration: the controller that marks the Secrets (or         *)
(* ConfigMaps) a virtual object names, so that vcluster's own syncer       *)
(* copies them to the host cluster, and takes the mark off when no object  *)
(* names them any more.                                                    *)
(*                                                                         *)
(* Each mapping's kind has one virtual object, its parent; `known` is what *)
(* the name cache holds of it (module NameCache), and a change of it runs  *)
(* the hooks under the cache's lock, so in one step.  Objects of the kind  *)
(* that is synced are the targets.                                         *)
(***************************************************************************)
EXTENDS Naturals, Sequences

CONSTANTS
  Parents,               \* the mapped kinds, each with one object
  Paths,                 \* paths of rewriteName patches
  Targets,               \* names of the Secrets (or ConfigMaps)
  Kind,                  \* "Secret" or "ConfigMap"
  forceSyncSecrets,      \* the patches whose sync.secret is set
  forceSyncConfigmaps,   \* the patches whose sync.configmap is set
  Environment,           \* the kinds of outside events that happen
  MaxMoves               \* bound on outside events

ForceSyncConfigs == [parent : Parents, path : Paths]

ASSUME ConfigAssumption ==
  /\ Kind \in {"Secret", "ConfigMap"}
  /\ forceSyncSecrets \in Seq(ForceSyncConfigs)
  /\ forceSyncConfigmaps \in Seq(ForceSyncConfigs)

ASSUME MovesAssumption ==
  /\ Environment \subseteq {"parent", "target", "restart", "call_failure"}
  /\ MaxMoves \in Nat

\* What the configuration asks to be synced, and the controller's config: both
\* controllers are created with forceSyncSecrets.
Wanted == IF Kind = "Secret" THEN forceSyncSecrets ELSE forceSyncConfigmaps

config == forceSyncSecrets

\* A target, as far as this controller looks at it.
Objects == {"absent", "plain", "marked"}

Contents == [Paths -> SUBSET Targets]

VARIABLES
  parents,     \* parents[g]: the targets the object of kind g names, by path
  inbox,       \* inbox[g]: notifications the name cache has yet to handle
  known,       \* known[g]: what the name cache holds of kind g
  api, watch,  \* targets at the API server, and events on their way
  cache,       \* targets in the informer's cache
  notif,       \* events for the predicate of the For source
  hooked,      \* Start has registered the hooks
  queue,       \* the work queue
  pc,          \* where the worker is, with the object it holds
  steady,      \* history: <<g, t>> that g has named t ever since all was quiet
  missed,      \* history: targets not queued because Start was yet to come
  moves        \* outside events so far

names == <<parents, inbox, known>>
informer == <<watch, cache, notif>>
vars == <<parents, inbox, known, api, watch, cache, notif, hooked, queue, pc, steady, missed, moves>>

Idle == [at |-> "idle"]

TypeOK ==
  /\ parents \in [Parents -> Contents] /\ known \in [Parents -> Contents]
  /\ inbox \in [Parents -> Seq(Contents)]
  /\ api \in [Targets -> Objects] /\ cache \in [Targets -> Objects]
  /\ watch \in [Targets -> Seq(Objects)] /\ notif \in [Targets -> Seq(Objects)]
  /\ hooked \in BOOLEAN
  /\ queue \subseteq Targets
  /\ pc \in {Idle} \cup [at : {"get", "add", "remove"}, target : Targets]
            \cup [at : {"check"}, target : Targets, obj : {"plain", "marked"}, next : 1 .. Len(config) + 1]
  /\ steady \subseteq Parents \X Targets /\ missed \subseteq Targets
  /\ moves \in Nat

\* A start of the process: the informers list what is there, and hand it on.
Listed(t) == IF api[t] = "absent" THEN <<>> ELSE <<api[t]>>

NothingNamed == [p \in Paths |-> {}]

Init ==
  /\ parents \in [Parents -> Contents]
  /\ inbox = [g \in Parents |-> <<parents[g]>>]
  /\ known = [g \in Parents |-> NothingNamed]
  /\ api \in [Targets -> {"absent", "plain"}]
  /\ watch = [t \in Targets |-> <<>>]
  /\ cache = api
  /\ notif = [t \in Targets |-> Listed(t)]
  /\ hooked = FALSE
  /\ queue = {}
  /\ pc = Idle
  /\ steady = {} /\ missed = {}
  /\ moves = 0

-----------------------------------------------------------------------------
(***************************************************************************)
(* The virtual cluster.                                                    *)
(***************************************************************************)
Move(kind) == /\ kind \in Environment
              /\ moves < MaxMoves
              /\ moves' = moves + 1

Write(t, obj) ==
  /\ api' = [api EXCEPT ![t] = obj]
  /\ watch' = IF obj = api[t] THEN watch ELSE [watch EXCEPT ![t] = Append(@, obj)]

\* An object of a mapped kind is created, changed or deleted.
ParentChange(g) ==
  /\ Move("parent")
  /\ \E content \in Contents \ {parents[g]} :
        /\ parents' = [parents EXCEPT ![g] = content]
        /\ inbox' = [inbox EXCEPT ![g] = Append(@, content)]
  /\ UNCHANGED <<known, api, informer, hooked, queue, pc>>

\* A target is created, deleted, or changed by someone else, mark included.
TargetChange(t) ==
  /\ Move("target")
  /\ \E obj \in Objects \ {api[t]} : Write(t, obj)
  /\ UNCHANGED <<names, cache, notif, hooked, queue, pc>>

-----------------------------------------------------------------------------
(***************************************************************************)
(* What wakes the controller.                                              *)
(***************************************************************************)
\* Variant: the hooks fire for names that appear, not for those that go.
HookedTargetsAdded(g, old, new) ==
  {t \in Targets : \E i \in DOMAIN config : /\ config[i].parent = g
                                            /\ t \in new[config[Len(config)].path]}

\* The hooks of kind g, run for every key of the old and the new mapping.
\* Each compares the key's path with c.Patch.Path, and c is the loop variable
\* they all share: the last config.
HookedTargets(g, old, new) ==
  {t \in Targets : \E i \in DOMAIN config :
      /\ config[i].parent = g
      /\ t \in old[config[Len(config)].path] \cup new[config[Len(config)].path]}

\* The name cache handles a notification (OnAdd, OnUpdate or OnDelete); a
\* mapping that is equal to the old one fires no hooks.
NameCacheChange(g) ==
  /\ inbox[g] # <<>>
  /\ inbox' = [inbox EXCEPT ![g] = Tail(@)]
  /\ known' = [known EXCEPT ![g] = Head(inbox[g])]
  /\ queue' = IF hooked /\ known'[g] # known[g]
              THEN queue \cup HookedTargets(g, known[g], known'[g]) ELSE queue
  /\ UNCHANGED <<parents, api, informer, hooked, pc, moves>>

\* Start registers the hooks, as the second source: the first, For, may have
\* delivered events by then.  The workers run only after it.
Start == /\ ~hooked
         /\ hooked' = TRUE
         /\ UNCHANGED <<names, api, informer, queue, pc, moves>>

\* The informer updates its cache, then calls the event handlers: with the
\* last state of the object if it was deleted.
Informer(t) ==
  /\ watch[t] # <<>>
  /\ watch' = [watch EXCEPT ![t] = Tail(@)]
  /\ cache' = [cache EXCEPT ![t] = Head(watch[t])]
  /\ notif' = [notif EXCEPT ![t] = Append(@, IF Head(watch[t]) = "absent" THEN cache[t] ELSE Head(watch[t]))]
  /\ UNCHANGED <<names, api, hooked, queue, pc, moves>>

shouldSync(t) == \E i \in DOMAIN config : t \in known[config[i].parent][config[i].path]

\* The For source with its predicate.  Its loop is one step here: a reference that
\* moves meanwhile has the hooks queue the target.  (Objects that are being deleted,
\* which the predicate drops, are not modelled: a target goes at once.)
ForEvent(t) ==
  /\ notif[t] # <<>>
  /\ notif' = [notif EXCEPT ![t] = Tail(@)]
  /\ queue' = IF shouldSync(t) \/ Head(notif[t]) = "marked" THEN queue \cup {t} ELSE queue
  /\ UNCHANGED <<names, api, watch, cache, hooked, pc, moves>>

-----------------------------------------------------------------------------
(***************************************************************************)
(* Reconcile.                                                              *)
(***************************************************************************)
Take(t) ==
  /\ hooked
  /\ pc = Idle
  /\ t \in queue
  /\ queue' = queue \ {t}
  /\ pc' = [at |-> "get", target |-> t]
  /\ UNCHANGED <<names, api, informer, hooked, moves>>

\* Variant: the error that the target is not found is forgotten.
GetUnchecked ==
  /\ pc.at = "get"
  /\ pc' = [at |-> "check", target |-> pc.target, obj |-> cache[pc.target], next |-> 1]
  /\ UNCHANGED <<names, api, informer, hooked, queue, moves>>

\* A target that is not found leaves obj without a name, which the name cache
\* does not know and which has no annotation.
Get ==
  /\ pc.at = "get"
  /\ pc' = IF cache[pc.target] = "absent" THEN Idle
           ELSE [at |-> "check", target |-> pc.target, obj |-> cache[pc.target], next |-> 1]
  /\ UNCHANGED <<names, api, informer, hooked, queue, moves>>

\* Variant: an object with the mark has to be named at every config's path.
CheckConfigAll ==
  /\ pc.at = "check"
  /\ LET c == config[pc.next]
     IN  pc' = IF pc.next > Len(config) THEN Idle
               ELSE IF (pc.target \in known[c.parent][c.path]) = (pc.obj = "marked") THEN [pc EXCEPT !.next = @ + 1]
               ELSE [at |-> IF pc.obj = "marked" THEN "remove" ELSE "add", target |-> pc.target]
  /\ UNCHANGED <<names, api, informer, hooked, queue, moves>>

\* Variant: the loop does not go on to the next config.
CheckConfigStuck ==
  /\ pc.at = "check"
  /\ LET c == config[pc.next]
     IN  pc' = IF pc.next > Len(config)
               THEN IF pc.obj = "plain" THEN Idle ELSE [at |-> "remove", target |-> pc.target]
               ELSE IF pc.target \notin known[c.parent][c.path] THEN pc
               ELSE IF pc.obj = "marked" THEN Idle ELSE [at |-> "add", target |-> pc.target]
  /\ UNCHANGED <<names, api, informer, hooked, queue, moves>>

\* One turn of shouldSync's loop: the name cache is locked once per config.
\* (For an object with the mark that should be synced, Reconcile runs the loop
\* again and ignores what it returns.)
CheckConfig ==
  /\ pc.at = "check"
  /\ LET c == config[pc.next]
     IN  pc' = IF pc.next > Len(config)
               THEN IF pc.obj = "plain" THEN Idle ELSE [at |-> "remove", target |-> pc.target]
               ELSE IF pc.target \notin known[c.parent][c.path] THEN [pc EXCEPT !.next = @ + 1]
               ELSE IF pc.obj = "marked" THEN Idle ELSE [at |-> "add", target |-> pc.target]
  /\ UNCHANGED <<names, api, informer, hooked, queue, moves>>

\* A merge patch of the one annotation, without a precondition.  If the target
\* is gone it fails, and the request is queued again.
PatchTarget(obj) ==
  /\ pc' = Idle
  /\ IF api[pc.target] = "absent"
     THEN queue' = queue \cup {pc.target} /\ UNCHANGED <<api, watch>>
     ELSE queue' = queue /\ Write(pc.target, obj)
  /\ UNCHANGED <<names, cache, notif, hooked, moves>>

addAnnotationsToVirtualObject == pc.at = "add" /\ PatchTarget("marked")

removeAnnotationsFromVirtualObject == pc.at = "remove" /\ PatchTarget("plain")

\* Get or Patch fails: Reconcile returns the error and is called again.
CallFails ==
  /\ Move("call_failure")
  /\ pc.at \in {"get", "add", "remove"}
  /\ pc' = Idle
  /\ queue' = queue \cup {pc.target}
  /\ UNCHANGED <<names, api, informer, hooked>>

\* The process dies and is started again: it has nothing but the virtual
\* cluster to go by.
Restart ==
  /\ Move("restart")
  /\ inbox' = [g \in Parents |-> <<parents[g]>>]
  /\ known' = [g \in Parents |-> NothingNamed]
  /\ watch' = [t \in Targets |-> <<>>]
  /\ cache' = api
  /\ notif' = [t \in Targets |-> Listed(t)]
  /\ hooked' = FALSE
  /\ queue' = {}
  /\ pc' = Idle
  /\ steady' = {} /\ missed' = {}
  /\ UNCHANGED <<parents, api>>

Step == \/ \E g \in Parents : ParentChange(g) \/ NameCacheChange(g)
        \/ \E t \in Targets : TargetChange(t) \/ Informer(t) \/ ForEvent(t) \/ Take(t)
        \/ Start \/ Get \/ CheckConfig
        \/ addAnnotationsToVirtualObject \/ removeAnnotationsFromVirtualObject
        \/ CallFails

Quiet == /\ hooked /\ queue = {} /\ pc = Idle
         /\ \A g \in Parents : inbox[g] = <<>>
         /\ \A t \in Targets : watch[t] = <<>> /\ notif[t] = <<>>

\* The configured references there are.
References == {r \in Parents \X Targets :
                 \E i \in DOMAIN Wanted : Wanted[i].parent = r[1] /\ r[2] \in parents[r[1]][Wanted[i].path]}

\* The targets whose hooks this step would have run.
Unheard == {t \in Targets : \E g \in Parents : known'[g] # known[g] /\ t \in HookedTargets(g, known[g], known'[g])}

Observed(step) == /\ step
                  /\ steady' = IF Quiet' THEN References' ELSE steady \cap References'
                  /\ missed' = (IF hooked THEN missed ELSE missed \cup Unheard) \ queue'

Next == Observed(Step) \/ Restart

Spec == Init /\ [][Next]_vars

Fairness ==
  /\ \A g \in Parents : WF_vars(Observed(NameCacheChange(g)))
  /\ \A t \in Targets : /\ WF_vars(Observed(Informer(t)))
                        /\ WF_vars(Observed(ForEvent(t)))
                        /\ SF_vars(Observed(Take(t)))
  /\ WF_vars(Observed(Start))
  /\ WF_vars(Observed(\/ Get \/ CheckConfig
                      \/ addAnnotationsToVirtualObject \/ removeAnnotationsFromVirtualObject))

FairSpec == Spec /\ Fairness

-----------------------------------------------------------------------------
(***************************************************************************)
(* Properties.                                                             *)
(***************************************************************************)
Referenced(t) == \E g \in Parents : <<g, t>> \in References

MarkedAsWanted(t) == /\ api[t] = "marked" => Referenced(t)
                     /\ api[t] = "plain" /\ Referenced(t) => t \in missed

\* When nothing is on its way and the controller is idle, exactly the targets
\* that an object names at a configured path have the mark: no order of
\* Reconcile, the hooks and the predicate of the For source leaves one behind,
\* and nobody would wake the controller again.  (The exception are targets
\* whose names reached the name cache before Start registered the hooks.)
QuietMeansMarked == Quiet => \A t \in Targets : MarkedAsWanted(t)

\* When the virtual cluster no longer changes, that is what it comes to.
EventuallyMarked == <>[](\A t \in Targets : MarkedAsWanted(t))

\* A target that one object has named since a time when all was quiet, in the
\* same run of the process, is not unmarked by the controller, however the other objects and the target change
\* meanwhile: it would be deleted in the host cluster.
NeverUnmarkedWhileReferenced ==
  [][removeAnnotationsFromVirtualObject => \A g \in Parents : <<g, pc.target>> \notin steady]_vars
=============================================================================
