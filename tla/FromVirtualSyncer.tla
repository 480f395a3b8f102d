------------------------- MODULE FromVirtualSyncer -------------------------
(***************************************************************************)
(* pkg/syncer/from_virtual_syncer.go with pkg/syncer/generic.go, run by    *)
(* the SDK's syncerController: a fromVirtualCluster mapping keeps a host   *)
(* object for each virtual object that it takes.  Patches carry fields     *)
(* from the virtual to the host object, reverse patches carry fields back. *)
(*                                                                         *)
(* The module follows one virtual object and the host object of its        *)
(* physical name, as requests of different names share nothing.  Several   *)
(* mappings of the kind, told apart by their IDs, share the caches of the  *)
(* two managers.  Reads are from the caches, writes go to the API servers, *)
(* and each call of a Reconcile is a step.                                 *)
(***************************************************************************)
EXTENDS Naturals, Sequences

CONSTANTS
  Controllers,      \* IDs of the mappings of this kind
  Nobody,           \* the controlled-by label of a host object nobody syncs
  Labels,           \* what the labels of a virtual object may say
  Selector,         \* Selector[c]: labels that c's selector matches, or NoSelector
  NoSelector,
  Wanted,           \* Wanted[c]: labels of the virtual objects that c is meant to sync
  Data,             \* what the fields carried to the host may hold
  BackData,         \* what the fields carried back (but status) may hold
  Statuses,         \* what status may hold
  NoField,          \* the field is not there
  Absent,           \* there is no such object
  StatusReversed,   \* a reverse patch copies status from the host object
  Environment,      \* the kinds of outside events that happen
  MaxMoves          \* bound on outside events

ASSUME EnvironmentAssumption ==
  /\ Environment \subseteq {"create", "create_controlled", "update", "relabel", "set_status", "delete",
                            "host_update", "host_delete", "host_foreign", "restart", "call_failure"}
  /\ MaxMoves \in Nat
  /\ StatusReversed \in BOOLEAN

ASSUME SelectorAssumption ==
  /\ Selector \in [Controllers -> (SUBSET Labels) \cup {NoSelector}]
  /\ Wanted \in [Controllers -> SUBSET Labels]

ASSUME ValuesAssumption ==
  Nobody \notin Controllers /\ NoField \notin BackData /\ NoField \notin Statuses

\* controlled: it has a controlled-by label, so a back syncer made it.
VirtualObjects == [controlled : BOOLEAN, label : Labels, data : Data,
                   back : BackData \cup {NoField}, status : Statuses \cup {NoField}]

\* by: the controlled-by label; the marker label is there if it is.
HostObjects == [by : Controllers \cup {Nobody}, data : Data,
                back : BackData \cup {NoField}, status : Statuses \cup {NoField}]

Virtual == VirtualObjects \cup {Absent}
Host == HostObjects \cup {Absent}

ASSUME AbsentAssumption == Absent \notin VirtualObjects \cup HostObjects

VARIABLES
  vApi, vWatch, vCache,   \* virtual object: API server, events on the way, cache
  pApi, pWatch, pCache,   \* host object: the same
  pending,                \* controllers whose work queue holds the request
  pc,                     \* where each worker is, with the objects it holds
  blocked,                \* history: whom the host object of another mapping keeps away
  moves                   \* outside events so far

virtual == <<vApi, vWatch>>
host == <<pApi, pWatch>>
bounds == <<blocked, moves>>
vars == <<vApi, vWatch, vCache, pApi, pWatch, pCache, pending, pc, blocked, moves>>

Idle == [at |-> "idle", v |-> Absent, p |-> Absent]

Places == {"idle", "virtual", "host", "delete", "reverse", "status", "apply"}

TypeOK == /\ vApi \in Virtual /\ vCache \in Virtual /\ vWatch \in Seq(Virtual)
          /\ pApi \in Host /\ pCache \in Host /\ pWatch \in Seq(Host)
          /\ pending \subseteq Controllers
          /\ pc \in [Controllers -> [at : Places, v : Virtual, p : Host]]
          /\ blocked \subseteq Controllers /\ moves \in Nat

Init == /\ vApi = Absent /\ vCache = Absent /\ vWatch = <<>>
        /\ pApi = Absent /\ pCache = Absent /\ pWatch = <<>>
        /\ pending = {}
        /\ pc = [c \in Controllers |-> Idle]
        /\ blocked = {} /\ moves = 0

-----------------------------------------------------------------------------
(***************************************************************************)
(* The API servers and their watches: every write that changes an object   *)
(* is an event.                                                            *)
(***************************************************************************)
WriteVirtual(v) == /\ vApi' = v
                   /\ vWatch' = IF v = vApi THEN vWatch ELSE Append(vWatch, v)

WriteHost(p) == /\ pApi' = p
                /\ pWatch' = IF p = pApi THEN pWatch ELSE Append(pWatch, p)

isExcluded(c, p) == p.by # c

isControlled(v) == v.controlled

\* As the code has it: with a selector, the objects it does not match.  (config.go
\* documents the objects it matches; the properties use neither, but Wanted.)
objectMatches(c, v) == Selector[c] = NoSelector \/ v.label \notin Selector[c]

\* The virtual informer: the For source queues every event.
VirtualInformer ==
  /\ vWatch # <<>>
  /\ vCache' = Head(vWatch)
  /\ vWatch' = Tail(vWatch)
  /\ pending' = Controllers
  /\ UNCHANGED <<vApi, host, pCache, pc, bounds>>

\* The controllers enqueuePhysical queues the request for: the ones that
\* manage the object.
Managing(p) == {c \in Controllers : p # Absent /\ ~isExcluded(c, p)}

\* Variant: a deletion is not passed on.
HostInformerDeaf ==
  /\ pWatch # <<>>
  /\ pCache' = Head(pWatch)
  /\ pWatch' = Tail(pWatch)
  /\ pending' = pending \cup Managing(Head(pWatch))
  /\ UNCHANGED <<pApi, virtual, vCache, pc, bounds>>

\* The host informer: a deletion is handed on with the object's last state.
HostInformer ==
  /\ pWatch # <<>>
  /\ pCache' = Head(pWatch)
  /\ pWatch' = Tail(pWatch)
  /\ pending' = pending \cup Managing(IF Head(pWatch) = Absent THEN pCache ELSE Head(pWatch))
  /\ UNCHANGED <<pApi, virtual, vCache, pc, bounds>>

-----------------------------------------------------------------------------
(***************************************************************************)
(* Reconcile.                                                              *)
(***************************************************************************)
Goto(c, at, v, p) == pc' = [pc EXCEPT ![c] = [at |-> at, v |-> v, p |-> p]]

Done(c) == pc' = [pc EXCEPT ![c] = Idle] /\ pending' = pending

\* Variant: the error is not returned.
ReturnErrorSwallowed(c) == pc' = [pc EXCEPT ![c] = Idle] /\ pending' = pending

\* An error, or Result{Requeue: true}: the request comes again.
ReturnError(c) == pc' = [pc EXCEPT ![c] = Idle] /\ pending' = pending \cup {c}

At(c, place) == pc[c].at = place

Take(c) ==
  /\ At(c, "idle")
  /\ c \in pending
  /\ pending' = pending \ {c}
  /\ Goto(c, "virtual", Absent, Absent)
  /\ UNCHANGED <<virtual, vCache, host, pCache, bounds>>

GetVirtual(c) ==
  /\ At(c, "virtual")
  /\ Goto(c, "host", vCache, Absent)
  /\ UNCHANGED <<virtual, vCache, host, pCache, pending, bounds>>

\* ApplyPatches begins with the status of the translated object, if the
\* reverse patches leave it one.
ApplyPlace(v) == IF v.status # NoField /\ ~StatusReversed THEN "status" ELSE "apply"

\* The checks SyncDown, Sync and SyncUp begin with: what is to be done next.
SyncDown(c, v) == IF isControlled(v) \/ ~objectMatches(c, v) THEN "idle" ELSE ApplyPlace(v)

Sync(c, v, p) == IF isControlled(v) \/ isExcluded(c, p) THEN "idle"
                 ELSE IF ~objectMatches(c, v) THEN "delete" ELSE "reverse"

SyncUp(c, p) == IF isExcluded(c, p) THEN "idle" ELSE "delete"

\* (History.) c turns away from a host object that is in its way.
Blocked(c, v, p) ==
  IF v # Absent /\ p # Absent /\ ~isControlled(v) /\ objectMatches(c, v) /\ isExcluded(c, p)
  THEN blocked \cup {c} ELSE blocked \ {c}

\* Variant: the case that only the host object exists is missing.
GetHostNoSyncUp(c) ==
  /\ At(c, "host")
  /\ LET v == pc[c].v  p == pCache
         at == IF v = Absent THEN "idle" ELSE IF p = Absent THEN SyncDown(c, v) ELSE Sync(c, v, p)
     IN  /\ IF at = "idle" THEN Done(c) ELSE Goto(c, at, v, p) /\ pending' = pending
         /\ blocked' = Blocked(c, v, p)
  /\ UNCHANGED <<virtual, vCache, host, pCache, moves>>

\* The host object is read, and the function called that fits what exists.
GetHost(c) ==
  /\ At(c, "host")
  /\ LET v == pc[c].v  p == pCache
         at == IF v = Absent /\ p = Absent THEN "idle"
               ELSE IF v = Absent THEN SyncUp(c, p)
               ELSE IF p = Absent THEN SyncDown(c, v)
               ELSE Sync(c, v, p)
     IN  /\ IF at = "idle" THEN Done(c) ELSE Goto(c, at, v, p) /\ pending' = pending
         /\ blocked' = Blocked(c, v, p)
  /\ UNCHANGED <<virtual, vCache, host, pCache, moves>>

\* The host object is deleted, by name.  That it is gone already is an error
\* in Sync, and none in SyncUp's DeleteObject.
DeletePhysical(c) ==
  /\ At(c, "delete")
  /\ WriteHost(Absent)
  /\ IF pApi = Absent /\ pc[c].v # Absent THEN ReturnError(c) ELSE Done(c)
  /\ UNCHANGED <<virtual, vCache, pCache, bounds>>

\* What copyFromObject leaves in a field: where the host object does not have
\* it, the old value stays (the removal is computed and thrown away).
Copied(old, from) == IF from = NoField THEN old ELSE from

\* Variant: the update does not carry a resource version.
ApplyReversePatchesBlind(c) ==
  /\ At(c, "reverse")
  /\ LET v == pc[c].v  p == pc[c].p
         status == IF StatusReversed THEN Copied(v.status, p.status) ELSE v.status
         back   == Copied(v.back, p.back)
     IN  IF status = v.status /\ back = v.back
         THEN Goto(c, ApplyPlace(v), v, p) /\ UNCHANGED <<virtual, pending>>
         ELSE /\ WriteVirtual(IF status # v.status THEN [v EXCEPT !.status = status]
                              ELSE [v EXCEPT !.back = back])
              /\ Done(c)
  /\ UNCHANGED <<vCache, host, pCache, bounds>>

\* ApplyReversePatches: status is updated first; if it is, or if it is not and
\* the rest of the object is, Sync ends, as the update brings another request.
\* Both updates carry the resource version of the object that was read, and
\* fail if the object has changed or gone.
ApplyReversePatches(c) ==
  /\ At(c, "reverse")
  /\ LET v == pc[c].v  p == pc[c].p
         status == IF StatusReversed THEN Copied(v.status, p.status) ELSE v.status
         back   == Copied(v.back, p.back)
     IN  IF status = v.status /\ back = v.back
         THEN Goto(c, ApplyPlace(v), v, p) /\ UNCHANGED <<virtual, pending>>
         ELSE IF vApi # v THEN ReturnError(c) /\ UNCHANGED virtual
         ELSE /\ WriteVirtual(IF status # v.status THEN [v EXCEPT !.status = status]
                              ELSE [v EXCEPT !.back = back])
              /\ Done(c)
  /\ UNCHANGED <<vCache, host, pCache, bounds>>

\* ApplyPatches, first call: a server-side apply of the status subresource,
\* which does not create an object.
ApplyStatus(c) ==
  /\ At(c, "status")
  /\ IF pApi = Absent
     THEN ReturnError(c) /\ UNCHANGED host
     ELSE /\ WriteHost([pApi EXCEPT !.status = pc[c].v.status])
          /\ Goto(c, "apply", pc[c].v, pc[c].p) /\ pending' = pending
  /\ UNCHANGED <<virtual, vCache, pCache, bounds>>

\* Variant: the object is written as it is, without TranslateMetadata.
ApplyPatchesUntranslated(c) ==
  /\ At(c, "apply")
  /\ WriteHost(pc[c].v)
  /\ Done(c)
  /\ UNCHANGED <<virtual, vCache, pCache, bounds>>

\* (History.) c applies its object over the one that another mapping keeps.
Displaced(c) == (blocked \ {c}) \cup (IF pApi = Absent THEN {} ELSE {pApi.by} \ {c, Nobody})

\* ApplyPatches, second call: a server-side apply with ForceOwnership of what
\* is left of the translated object.  It creates the object or takes it over.
ApplyPatches(c) ==
  /\ At(c, "apply")
  /\ WriteHost(IF pApi = Absent
               THEN [by |-> c, data |-> pc[c].v.data, back |-> NoField, status |-> NoField]
               ELSE [pApi EXCEPT !.by = c, !.data = pc[c].v.data])
  /\ Done(c)
  /\ blocked' = Displaced(c)
  /\ UNCHANGED <<virtual, vCache, pCache, moves>>

-----------------------------------------------------------------------------
(***************************************************************************)
(* The outside.                                                            *)
(***************************************************************************)
Move(kind) == /\ kind \in Environment
              /\ moves < MaxMoves
              /\ moves' = moves + 1

MoveVirtual(kind, v) == /\ Move(kind)
                        /\ WriteVirtual(v)
                        /\ UNCHANGED <<vCache, host, pCache, pending, pc, blocked>>

MoveHost(kind, p) == /\ Move(kind)
                     /\ WriteHost(p)
                     /\ UNCHANGED <<virtual, vCache, pCache, pending, pc, blocked>>

New(controlled, l, d) == [controlled |-> controlled, label |-> l, data |-> d,
                          back |-> NoField, status |-> NoField]

UserCreate == /\ vApi = Absent
              /\ \E l \in Labels, d \in Data : MoveVirtual("create", New(FALSE, l, d))

\* A back syncer of the same kind creates the object.
BackSyncerCreate == /\ vApi = Absent
                    /\ \E l \in Labels, d \in Data : MoveVirtual("create_controlled", New(TRUE, l, d))

UserUpdate == /\ vApi # Absent
              /\ \E d \in Data \ {vApi.data} : MoveVirtual("update", [vApi EXCEPT !.data = d])

UserRelabel == /\ vApi # Absent
               /\ \E l \in Labels \ {vApi.label} : MoveVirtual("relabel", [vApi EXCEPT !.label = l])

StatusSet == /\ vApi # Absent
             /\ \E s \in Statuses \ {vApi.status} : MoveVirtual("set_status", [vApi EXCEPT !.status = s])

UserDelete == vApi # Absent /\ MoveVirtual("delete", Absent)

\* A controller of the host cluster sets a field, or a user edits one.
HostUpdate ==
  /\ pApi # Absent
  /\ \/ \E d \in Data \ {pApi.data} : MoveHost("host_update", [pApi EXCEPT !.data = d])
     \/ \E b \in BackData \ {pApi.back} : MoveHost("host_update", [pApi EXCEPT !.back = b])
     \/ \E s \in Statuses \ {pApi.status} : MoveHost("host_update", [pApi EXCEPT !.status = s])

HostDelete == pApi # Absent /\ MoveHost("host_delete", Absent)

\* Someone creates an object of that name in the host cluster.
HostForeign ==
  /\ pApi = Absent
  /\ \E d \in Data :
        MoveHost("host_foreign", [by |-> Nobody, data |-> d, back |-> NoField, status |-> NoField])

\* A call fails and Reconcile returns the error.
CallFails(c) ==
  /\ Move("call_failure")
  /\ pc[c].at \in {"virtual", "host", "delete", "reverse", "status", "apply"}
  /\ ReturnError(c)
  /\ UNCHANGED <<virtual, vCache, host, pCache, blocked>>

\* The process starts anew and lists what there is.
Restart ==
  /\ Move("restart")
  /\ vCache' = vApi /\ vWatch' = <<>>
  /\ pCache' = pApi /\ pWatch' = <<>>
  /\ pending' = IF vApi # Absent THEN Controllers ELSE Managing(pApi)
  /\ pc' = [c \in Controllers |-> Idle]
  /\ blocked' = {}
  /\ UNCHANGED <<vApi, pApi>>

Work(c) == GetVirtual(c) \/ GetHost(c) \/ DeletePhysical(c) \/ ApplyReversePatches(c)
           \/ ApplyStatus(c) \/ ApplyPatches(c)

Next == \/ VirtualInformer \/ HostInformer
        \/ \E c \in Controllers : Take(c) \/ Work(c) \/ CallFails(c)
        \/ UserCreate \/ BackSyncerCreate \/ UserUpdate \/ UserRelabel \/ StatusSet \/ UserDelete
        \/ HostUpdate \/ HostDelete \/ HostForeign
        \/ Restart

Spec == Init /\ [][Next]_vars

Fairness == /\ WF_vars(VirtualInformer) /\ WF_vars(HostInformer)
            /\ \A c \in Controllers : WF_vars(Take(c)) /\ WF_vars(Work(c))

FairSpec == Spec /\ Fairness

-----------------------------------------------------------------------------
(***************************************************************************)
(* Properties.                                                             *)
(***************************************************************************)
Quiet == /\ vWatch = <<>> /\ pWatch = <<>> /\ pending = {}
         /\ \A c \in Controllers : pc[c] = Idle

\* A configuration with which the code syncs what is wanted: a selector for the
\* objects that are not, or none if all are.  The properties hold for these; with
\* a selector for the objects that are wanted, as documented, they do not.
SelectorsExclude ==
  \A c \in Controllers :
     Wanted[c] = IF Selector[c] = NoSelector THEN Labels ELSE Labels \ Selector[c]

\* The mappings that are to sync the virtual object.
Wanting == {c \in Controllers : vApi # Absent /\ ~isControlled(vApi) /\ vApi.label \in Wanted[c]}

\* The host object is there for it, with the virtual object's data, and has
\* its status and other reversed fields in the virtual object.
InStep == /\ pApi # Absent
          /\ pApi.by \in Controllers /\ vApi.label \in Wanted[pApi.by]
          /\ pApi.data = vApi.data
          /\ vApi.back = Copied(vApi.back, pApi.back)
          /\ IF StatusReversed THEN vApi.status = Copied(vApi.status, pApi.status)
             ELSE vApi.status # NoField => pApi.status = vApi.status

\* When nothing is on its way and the controllers are idle, the host object of
\* a virtual object that is to be synced is in step with it, whatever order
\* the edits on both sides, the stale reads and the two updates came in.  (The
\* exception is a mapping that last found, or lost, the host object to someone
\* else: it does not hear of that object's end.)
QuietMeansInStep == Quiet /\ Wanting \ blocked # {} => InStep

\* At such a time no mapping has left a host object behind for a virtual
\* object that is gone or that it is not meant to sync.  (An object that a back
\* syncer re-created in its place shields it: Sync returns early.)
QuietMeansNoLeftover ==
  Quiet /\ pApi # Absent /\ pApi.by # Nobody =>
     vApi # Absent /\ (isControlled(vApi) \/ vApi.label \in Wanted[pApi.by])

\* When the outside comes to rest, the two objects get in step for good.
EventuallyInStep == <>[](Wanting # {} => InStep)

\* A reverse patch never undoes an edit of the virtual object that the
\* controller has not seen: it changes the fields it copies and no other.
ReverseKeepsUserEdits ==
  [][\A c \in Controllers : ApplyReversePatches(c) /\ vApi' # vApi
        => vApi # Absent /\ vApi'.data = vApi.data /\ vApi'.label = vApi.label]_vars
=============================================================================
