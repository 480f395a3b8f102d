----------------------------- MODULE BackSyncer -----------------------------
(***************************************************************************)
(* pkg/syncer/back_syncer.go: the controller that copies a host object to  *)
(* the virtual cluster when the name cache says which virtual name it      *)
(* stands for, and removes one when the other goes.                        *)
(*                                                                         *)
(* The module follows one host object and the virtual object it maps to,   *)
(* as the controllers treat names independently.  Controllers read both    *)
(* objects from informer caches, which follow the API servers through the  *)
(* watches, and write to the API servers; the writes of one Reconcile are  *)
(* separate steps.  The name cache appears as NameResolver describes it:   *)
(* `known` says whether it has a virtual name for the host object, and     *)
(* every change of it queues the request.                                  *)
(***************************************************************************)
EXTENDS Naturals, Sequences

CONSTANTS
  Controllers,    \* IDs of the back syncers of this kind
  User,           \* owner of a virtual object without their label
  Data,           \* what the synced fields hold
  BackData,       \* what the fields of the reverse patches hold
  NoField,        \* the virtual object lacks those fields
  Absent,         \* there is no such object
  NeedsName,      \* config.Patches rewrite a name through the name cache
  Environment,    \* the kinds of outside events that happen
  MaxMoves,       \* bound on outside events
  MaxLag          \* bound on the events a watch holds

ASSUME EnvironmentAssumption ==
  /\ Environment \subseteq {"host_create", "host_update", "host_delete", "user_create",
                            "user_update", "user_delete", "parent", "resync", "crash",
                            "call_failure", "handler_failure"}
  /\ MaxMoves \in Nat /\ MaxLag \in Nat \ {0}
  /\ NeedsName \in BOOLEAN

ASSUME ValuesAssumption ==
  /\ User \notin Controllers
  /\ NoField \notin BackData

\* uid tells incarnations of the host object apart; ann: it has the marker,
\* name and namespace annotations; saved: it has the mappings annotation.
HostObjects == [uid : Nat, ann : BOOLEAN, saved : BOOLEAN, data : Data, back : BackData]

VirtualObjects == [owner : Controllers \cup {User}, data : Data, back : BackData \cup {NoField}]

Host == HostObjects \cup {Absent}
Virtual == VirtualObjects \cup {Absent}

ASSUME AbsentAssumption == Absent \notin HostObjects \cup VirtualObjects

VARIABLES
  pApi, pWatch, pCache,   \* host object: API server, events on the way, cache
  vApi, vWatch, vCache,   \* virtual object: the same
  parent, known,          \* a parent names the object; the name cache has it
  pending,                \* controllers whose work queue holds the request
  pc,                     \* where each worker is, with the objects it holds
  vNotif,                 \* events for enqueueVirtual: <<isDelete, object>>
  pDeleted,               \* host objects whose DeleteFunc is to run
  userDeleted,            \* history: uids whose virtual object the user deleted
  excused,                \* history: what was dropped and not yet made up for
  created, moves          \* host objects created and outside events so far

host == <<pApi, pWatch>>
virtual == <<vApi, vWatch>>
names == <<parent, known>>
handlers == <<vNotif, pDeleted>>
history == <<userDeleted, excused>>
bounds == <<created, moves>>
vars == <<pApi, pWatch, pCache, vApi, vWatch, vCache, parent, known, pending, pc,
          vNotif, pDeleted, userDeleted, excused, created, moves>>

Idle == [at |-> "idle", p |-> Absent, v |-> Absent]

Places == {"idle", "host", "virtual", "delete_v", "reverse", "apply", "record",
           "delete_p", "annotate", "create", "unannotate"}

TypeOK == /\ pApi \in Host /\ pCache \in Host /\ pWatch \in Seq(Host)
          /\ vApi \in Virtual /\ vCache \in Virtual /\ vWatch \in Seq(Virtual)
          /\ parent \in BOOLEAN /\ known \in BOOLEAN
          /\ pending \subseteq Controllers
          /\ pc \in [Controllers -> [at : Places, p : Host, v : Virtual]]
          /\ vNotif \in [Controllers -> Seq(BOOLEAN \X VirtualObjects)]
          /\ pDeleted \in [Controllers -> Seq(HostObjects)]
          /\ userDeleted \subseteq Nat /\ excused \subseteq {"handler_error", "name_taken"}
          /\ created \in Nat /\ moves \in Nat

\* The plugin starts with no host object yet.
Init == /\ pApi = Absent /\ pCache = Absent /\ pWatch = <<>>
        /\ vApi = Absent /\ vCache = Absent /\ vWatch = <<>>
        /\ parent \in BOOLEAN /\ known = FALSE
        /\ pending = {}
        /\ pc = [c \in Controllers |-> Idle]
        /\ vNotif = [c \in Controllers |-> <<>>]
        /\ pDeleted = [c \in Controllers |-> <<>>]
        /\ userDeleted = {} /\ excused = {}
        /\ created = 0 /\ moves = 0

-----------------------------------------------------------------------------
(***************************************************************************)
(* The API servers and their watches: every write that changes an object   *)
(* is an event.                                                            *)
(***************************************************************************)
WriteHost(p) == /\ p # pApi => Len(pWatch) < MaxLag
                /\ pApi' = p
                /\ pWatch' = IF p = pApi THEN pWatch ELSE Append(pWatch, p)

WriteVirtual(v) == /\ v # vApi => Len(vWatch) < MaxLag
                   /\ vApi' = v
                   /\ vWatch' = IF v = vApi THEN vWatch ELSE Append(vWatch, v)

Append2All(f, x) == [c \in Controllers |-> Append(f[c], x)]

\* Variant: DeleteFunc would be handed the state after the deletion.
HostInformerWithoutFinalState ==
  /\ pWatch # <<>>
  /\ pCache' = Head(pWatch)
  /\ pWatch' = Tail(pWatch)
  /\ pending' = Controllers
  /\ pDeleted' = IF Head(pWatch) = Absent THEN Append2All(pDeleted, Absent) ELSE pDeleted
  /\ UNCHANGED <<pApi, virtual, vCache, names, pc, vNotif, history, bounds>>

\* The host informer: the cache follows, the For source queues the request,
\* and a deletion is handed to DeleteFunc with the last state of the object.
HostInformer ==
  /\ pWatch # <<>>
  /\ pCache' = Head(pWatch)
  /\ pWatch' = Tail(pWatch)
  /\ pending' = Controllers
  /\ pDeleted' = IF Head(pWatch) = Absent THEN Append2All(pDeleted, pCache) ELSE pDeleted
  /\ UNCHANGED <<pApi, virtual, vCache, names, pc, vNotif, history, bounds>>

\* The virtual informer: the cache follows and enqueueVirtual will be called.
VirtualInformer ==
  /\ vWatch # <<>>
  /\ vCache' = Head(vWatch)
  /\ vWatch' = Tail(vWatch)
  /\ vNotif' = IF Head(vWatch) = Absent THEN Append2All(vNotif, <<TRUE, vCache>>)
               ELSE Append2All(vNotif, <<FALSE, Head(vWatch)>>)
  /\ UNCHANGED <<host, pCache, vApi, names, pending, pc, pDeleted, history, bounds>>

\* The name cache catches up with the parents; its hook queues the request.
NameCacheChange ==
  /\ known # parent
  /\ known' = parent
  /\ pending' = Controllers
  /\ UNCHANGED <<host, pCache, virtual, vCache, parent, pc, handlers, history, bounds>>

-----------------------------------------------------------------------------
(***************************************************************************)
(* Helpers of the controller.                                              *)
(***************************************************************************)
containsBackSyncNameAnnotations(p) == p # Absent /\ p.ann

\* PhysicalToVirtual finds a name: in the annotations or in the name cache.
PhysicalToVirtual(p) == containsBackSyncNameAnnotations(p) \/ known

isExcluded(c, v) == v.owner # c

\* Variant: only the saved mappings are looked at.
TranslateNameSaved(saved) == NeedsName => saved

\* memorizingHostToVirtualNameResolver: the name cache, else a saved mapping.
TranslateName(saved) == NeedsName => known \/ saved

\* ApplyPatches: server-side apply of the patched host object.  Fields of the
\* reverse patches are not part of it.
Applied(c, p) == [owner |-> c, data |-> p.data,
                  back |-> IF vApi = Absent THEN NoField ELSE vApi.back]

\* A Reconcile returns, without or with an error (the request is retried).
Return(c) == pc' = [pc EXCEPT ![c] = Idle]
ReturnOk(c) == Return(c) /\ UNCHANGED pending
ReturnErrorSwallowed(c) == Return(c) /\ UNCHANGED pending   \* variant: no retry
ReturnError(c) == Return(c) /\ pending' = pending \cup {c}

Goto(c, place) == pc' = [pc EXCEPT ![c].at = place] /\ UNCHANGED pending
GotoWith(c, place, p) == pc' = [pc EXCEPT ![c].at = place, ![c].p = p] /\ UNCHANGED pending

At(c, place) == pc[c].at = place

-----------------------------------------------------------------------------
(***************************************************************************)
(* Reconcile, one step per read of a cache or call of an API server.       *)
(***************************************************************************)
outside == <<parent, known, pCache, vCache, vNotif, pDeleted, history, created, moves>>

Take(c) == /\ c \in pending
           /\ At(c, "idle")
           /\ pending' = pending \ {c}
           /\ pc' = [pc EXCEPT ![c].at = "host"]
           /\ UNCHANGED <<host, virtual, outside>>

\* Get of the host object, and PhysicalToVirtual.
ReadHost(c) == /\ At(c, "host")
               /\ IF PhysicalToVirtual(pCache) THEN GotoWith(c, "virtual", pCache)
                  ELSE ReturnOk(c)
               /\ UNCHANGED <<host, virtual, outside>>

\* Get of the virtual object, and the choice of syncDown, sync or syncUp up
\* to its first call of an API server.
ReadVirtual(c) ==
  /\ At(c, "virtual")
  /\ LET p == pc[c].p
     IN  IF vCache = Absent /\ p = Absent THEN ReturnOk(c)
         ELSE IF vCache = Absent
              THEN Goto(c, IF containsBackSyncNameAnnotations(p) THEN "delete_p" ELSE "annotate")
         ELSE IF isExcluded(c, vCache) THEN ReturnOk(c)
         ELSE /\ pc' = [pc EXCEPT ![c].at = IF p = Absent THEN "delete_v" ELSE "reverse",
                                  ![c].v = vCache]
              /\ UNCHANGED pending
  /\ UNCHANGED <<host, virtual, outside>>

\* syncDown: delete the virtual object; that it is gone already is no error.
DeleteVirtual(c) == /\ At(c, "delete_v")
                    /\ WriteVirtual(Absent)
                    /\ ReturnOk(c)
                    /\ UNCHANGED <<host, outside>>

\* Variant: the update carries no resource version, so it always succeeds.
ReversePatchBlind(c) ==
  /\ At(c, "reverse")
  /\ LET p == pc[c].p  back == pc[c].v.back
     IN  IF back = NoField \/ back = p.back
         THEN Goto(c, "apply") /\ UNCHANGED host
         ELSE WriteHost([p EXCEPT !.back = back]) /\ ReturnOk(c)
  /\ UNCHANGED <<virtual, outside>>

\* sync, reverse patches: an update of the host object, which the API server
\* refuses if the object is not the one that was read.  Either the update is
\* the whole Reconcile or there is nothing to update.
ReversePatch(c) ==
  /\ At(c, "reverse")
  /\ LET p == pc[c].p  back == pc[c].v.back
     IN  IF back = NoField \/ back = p.back
         THEN Goto(c, "apply") /\ UNCHANGED host
         ELSE IF pApi = p
              THEN WriteHost([p EXCEPT !.back = back]) /\ ReturnOk(c)
              ELSE ReturnError(c) /\ UNCHANGED host
  /\ UNCHANGED <<virtual, outside>>

\* sync, forward patches.
ApplyPatches(c) ==
  /\ At(c, "apply")
  /\ LET p == pc[c].p
     IN  IF PhysicalToVirtual(p) /\ TranslateName(p.saved)
         THEN WriteVirtual(Applied(c, p)) /\ Goto(c, "record")
         ELSE ReturnError(c) /\ UNCHANGED virtual
  /\ UNCHANGED <<host, outside>>

\* addAnnotationsToPhysicalObject with the mappings: a merge patch of what is new
\* to the object held, perhaps to another one of its name.  A patch that changes
\* nothing is not sent.
Recorded(p) == [pApi EXCEPT !.ann = @ \/ ~p.ann,
                            !.saved = IF p.saved = NeedsName THEN @ ELSE NeedsName]

RecordMappings(c) ==
  /\ At(c, "record")
  /\ LET p == pc[c].p
     IN  IF p.ann /\ p.saved = NeedsName THEN ReturnOk(c) /\ UNCHANGED host
         ELSE IF pApi = Absent THEN ReturnError(c) /\ UNCHANGED host
         ELSE WriteHost(Recorded(p)) /\ ReturnOk(c)
  /\ UNCHANGED <<virtual, outside>>

\* syncUp of an annotated object: delete it on the host.
DeletePhysical(c) ==
  /\ At(c, "delete_p")
  /\ IF pApi = Absent THEN ReturnError(c) /\ UNCHANGED host
     ELSE WriteHost(Absent) /\ ReturnOk(c)
  /\ UNCHANGED <<virtual, outside>>

\* syncUp: addAnnotationsToPhysicalObject with no mappings, also a merge patch: it
\* takes off the mappings the object held has.  The worker goes on with the object
\* the API server returns.
Annotated(p) == [pApi EXCEPT !.ann = TRUE, !.saved = @ /\ ~p.saved]

Annotate(c) ==
  /\ At(c, "annotate")
  /\ IF pApi = Absent \/ ~PhysicalToVirtual(pc[c].p)
     THEN ReturnError(c) /\ UNCHANGED host
     ELSE WriteHost(Annotated(pc[c].p)) /\ GotoWith(c, "create", Annotated(pc[c].p))
  /\ UNCHANGED <<virtual, outside>>

\* syncUp: ApplyPatches, which creates the virtual object.
CreateVirtual(c) ==
  /\ At(c, "create")
  /\ IF TranslateName(FALSE) THEN WriteVirtual(Applied(c, pc[c].p)) /\ Goto(c, "record")
     ELSE Goto(c, "unannotate") /\ UNCHANGED virtual
  /\ UNCHANGED <<host, outside>>

\* removeAnnotationsFromPhysicalObject, whose own error is dropped.
RemoveAnnotations(c) ==
  /\ At(c, "unannotate")
  /\ IF pApi = Absent THEN UNCHANGED host
     ELSE WriteHost([pApi EXCEPT !.ann = FALSE, !.saved = @ /\ ~pc[c].p.saved])
  /\ ReturnError(c)
  /\ UNCHANGED <<virtual, outside>>

-----------------------------------------------------------------------------
(***************************************************************************)
(* The event handlers, which delete on their own.                          *)
(***************************************************************************)
\* DeleteFunc of the host objects: delete the virtual object in the cache.
DeleteFunc(c) ==
  /\ pDeleted[c] # <<>>
  /\ pDeleted' = [pDeleted EXCEPT ![c] = Tail(@)]
  /\ IF /\ PhysicalToVirtual(Head(pDeleted[c]))
        /\ vCache # Absent
        /\ ~isExcluded(c, vCache)
     THEN WriteVirtual(Absent) ELSE UNCHANGED virtual
  /\ UNCHANGED <<host, pCache, vCache, names, pending, pc, vNotif, history, bounds>>

\* Variant: enqueueVirtual does not queue the host object.
enqueueVirtualDeaf(c) ==
  /\ vNotif[c] # <<>>
  /\ vNotif' = [vNotif EXCEPT ![c] = Tail(@)]
  /\ IF /\ ~Head(vNotif[c])[1] /\ ~isExcluded(c, Head(vNotif[c])[2])
        /\ ~containsBackSyncNameAnnotations(pCache)
     THEN WriteVirtual(Absent) ELSE UNCHANGED virtual
  /\ UNCHANGED <<host, pCache, vCache, names, pending, pc, pDeleted, history, bounds>>

\* enqueueVirtual: queue the host object whose annotations name the virtual
\* one; if there is none in the cache, delete the virtual object.
enqueueVirtual(c) ==
  /\ vNotif[c] # <<>>
  /\ vNotif' = [vNotif EXCEPT ![c] = Tail(@)]
  /\ LET isDelete == Head(vNotif[c])[1]
         excluded == isExcluded(c, Head(vNotif[c])[2])
         listed   == containsBackSyncNameAnnotations(pCache)
     IN  /\ pending' = IF ~excluded /\ listed THEN pending \cup {c} ELSE pending
         /\ IF ~excluded /\ ~listed /\ ~isDelete THEN WriteVirtual(Absent) ELSE UNCHANGED virtual
  /\ UNCHANGED <<host, pCache, vCache, names, pc, pDeleted, history, bounds>>

-----------------------------------------------------------------------------
(***************************************************************************)
(* Outside events.                                                         *)
(***************************************************************************)
Move(kind) == /\ kind \in Environment
              /\ moves < MaxMoves
              /\ moves' = moves + 1

inside == <<pCache, vCache, known, pending, pc, handlers>>

HostCreate == /\ Move("host_create")
              /\ pApi = Absent
              /\ created' = created + 1
              /\ \E d \in Data, b \in BackData :
                    WriteHost([uid |-> created', ann |-> FALSE, saved |-> FALSE, data |-> d, back |-> b])
              /\ UNCHANGED <<virtual, parent, history, inside>>

HostUpdate == /\ Move("host_update")
              /\ pApi # Absent
              /\ \E d \in Data : WriteHost([pApi EXCEPT !.data = d])
              /\ UNCHANGED <<virtual, parent, history, created, inside>>

HostDelete == /\ Move("host_delete")
              /\ pApi # Absent
              /\ WriteHost(Absent)
              /\ UNCHANGED <<virtual, parent, history, created, inside>>

UserCreate == /\ Move("user_create")
              /\ vApi = Absent
              /\ \E d \in Data : WriteVirtual([owner |-> User, data |-> d, back |-> NoField])
              /\ excused' = excused \cup {"name_taken"}
              /\ UNCHANGED <<host, parent, userDeleted, created, inside>>

UserUpdate == /\ Move("user_update")
              /\ vApi # Absent
              /\ \E d \in Data, b \in BackData : WriteVirtual([vApi EXCEPT !.data = d, !.back = b])
              /\ UNCHANGED <<host, parent, history, created, inside>>

UserDelete == /\ Move("user_delete")
              /\ vApi # Absent
              /\ WriteVirtual(Absent)
              /\ userDeleted' = IF vApi.owner = User THEN userDeleted ELSE userDeleted \cup {created}
              /\ UNCHANGED <<host, parent, excused, created, inside>>

\* A parent object that names the host object appears or goes.
ParentChange == /\ Move("parent")
                /\ parent' = ~parent
                /\ UNCHANGED <<host, virtual, history, created, inside>>

\* The user's object is there, or an informer still has to learn that it went.
NameTaken == \E v \in {vApi, vCache} \cup {vWatch[i] : i \in DOMAIN vWatch} : v # Absent /\ v.owner = User

\* Handing on every object makes up for what was dropped before.
MadeUpFor == excused' = IF NameTaken THEN excused \cap {"name_taken"} ELSE {}

\* The informers hand every cached object on once more.
Resync == /\ Move("resync")
          /\ pending' = IF pCache = Absent THEN pending ELSE Controllers
          /\ vNotif' = IF vCache = Absent THEN vNotif ELSE Append2All(vNotif, <<FALSE, vCache>>)
          /\ MadeUpFor
          /\ UNCHANGED <<host, pCache, virtual, vCache, names, pc, pDeleted, userDeleted, created>>

\* The plugin stops between two steps and starts again: caches are filled from
\* the API servers, every object is handed on as an addition, and the name
\* cache begins empty.
Crash == /\ Move("crash")
         /\ pCache' = pApi /\ pWatch' = <<>>
         /\ vCache' = vApi /\ vWatch' = <<>>
         /\ known' = FALSE
         /\ pending' = IF pApi = Absent THEN {} ELSE Controllers
         /\ pc' = [c \in Controllers |-> Idle]
         /\ vNotif' = [c \in Controllers |-> IF vApi = Absent THEN <<>> ELSE << <<FALSE, vApi>> >>]
         /\ pDeleted' = [c \in Controllers |-> <<>>]
         /\ MadeUpFor
         /\ UNCHANGED <<pApi, vApi, parent, userDeleted, created>>

\* A read or a call of an API server fails: Reconcile returns the error, after taking
\* the annotations off again if it was creating the virtual object.
CallFails(c) ==
  /\ Move("call_failure")
  /\ IF At(c, "create") THEN Goto(c, "unannotate")
     ELSE /\ ~At(c, "idle")
          /\ ReturnError(c)
  /\ UNCHANGED <<host, pCache, virtual, vCache, names, handlers, history, created>>

\* A deletion by an event handler fails: it is only logged.
HandlerFails(c) ==
  /\ Move("handler_failure")
  /\ \/ /\ pDeleted[c] # <<>>
        /\ pDeleted' = [pDeleted EXCEPT ![c] = Tail(@)]
        /\ UNCHANGED vNotif
     \/ /\ vNotif[c] # <<>>
        /\ ~Head(vNotif[c])[1] /\ ~containsBackSyncNameAnnotations(pCache)
        /\ vNotif' = [vNotif EXCEPT ![c] = Tail(@)]
        /\ UNCHANGED pDeleted
  /\ excused' = excused \cup {"handler_error"}
  /\ UNCHANGED <<host, pCache, virtual, vCache, names, pending, pc, userDeleted, created>>

-----------------------------------------------------------------------------
Step(c) == \/ ReadHost(c) \/ ReadVirtual(c) \/ DeleteVirtual(c) \/ ReversePatch(c)
           \/ ApplyPatches(c) \/ RecordMappings(c) \/ DeletePhysical(c) \/ Annotate(c)
           \/ CreateVirtual(c) \/ RemoveAnnotations(c)

Outside == \/ HostCreate \/ HostUpdate \/ HostDelete
           \/ UserCreate \/ UserUpdate \/ UserDelete
           \/ ParentChange \/ Resync \/ Crash
           \/ \E c \in Controllers : CallFails(c) \/ HandlerFails(c)

Next == \/ HostInformer \/ VirtualInformer \/ NameCacheChange
        \/ \E c \in Controllers : Take(c) \/ Step(c) \/ DeleteFunc(c) \/ enqueueVirtual(c)
        \/ Outside

Spec == Init /\ [][Next]_vars

Fairness == /\ WF_vars(HostInformer) /\ WF_vars(VirtualInformer) /\ WF_vars(NameCacheChange)
            /\ \A c \in Controllers : /\ WF_vars(Take(c)) /\ WF_vars(Step(c))
                                      /\ WF_vars(DeleteFunc(c)) /\ WF_vars(enqueueVirtual(c))

FairSpec == Spec /\ Fairness

-----------------------------------------------------------------------------
(***************************************************************************)
(* Properties.                                                             *)
(***************************************************************************)
\* Nothing is on its way: only an outside event can change the state.
Quiet == /\ pWatch = <<>> /\ vWatch = <<>>
         /\ known = parent
         /\ pending = {}
         /\ \A c \in Controllers : pc[c] = Idle /\ vNotif[c] = <<>> /\ pDeleted[c] = <<>>

Owned == vApi # Absent /\ vApi.owner # User

\* The controller can tell the virtual name of the host object.
Managed == pApi # Absent /\ (parent \/ pApi.ann)

\* A host object that is managed has its virtual object, unless the user made
\* one of that name: when it goes, nothing tells the controller, ...
HostIsCopied == Managed /\ "name_taken" \notin excused => vApi # Absent

\* ... a virtual object of the controller has its host object, and the two agree
\* on the synced fields, in both directions, unless an event handler failed to
\* delete it and only logged the error.
CopyHasHost == Owned /\ "handler_error" \notin excused => pApi # Absent

CopyAgrees == Owned /\ Managed /\ "handler_error" \notin excused =>
                 /\ pApi.ann
                 /\ vApi.data = pApi.data
                 /\ vApi.back \in {NoField, pApi.back}

Consistent == HostIsCopied /\ CopyHasHost /\ CopyAgrees

\* Whatever the order of events, stale reads and deletions: when everything is
\* handled, host and virtual object are in agreement.  A resync or a restart
\* makes up for what the controller ignored or failed at before.
QuietMeansConsistent == Quiet => Consistent

\* The reverse patches write the whole host object, as read from the cache, but
\* never undo a change the host made to its own fields meanwhile.
NoLostHostUpdate ==
  [][pApi # Absent /\ pApi' # Absent /\ moves' = moves => pApi'.data = pApi.data /\ pApi'.uid = pApi.uid]_vars

\* A syncUp that fails takes the annotations off, perhaps those of an object that
\* was copied meanwhile.  The name cache can still tell the name of its copy, but
\* if the host object goes while no parent names it, nobody deletes the copy.
Settled == HostIsCopied /\ CopyAgrees /\ (parent => CopyHasHost)

\* Calls that fail and names that do not resolve at any step of a Reconcile leave
\* nothing half done: when everything is handled, a managed host object has its
\* copy, the two agree, and no copy outlives a host object that is still named.
QuietMeansSettled == Quiet => Settled

\* When the outside stands still and a parent names the host object, host and
\* virtual object come to agree and stay so, whatever calls failed before.  (With
\* no parent the names may not translate, and the request is retried for good.)
EventuallyConsistent == <>[](parent => Consistent)

\* The worker deletes the host object it read.
DeletesHost(c) == At(c, "delete_p") /\ pApi # Absent /\ pApi' = Absent /\ pc'[c].at = "idle"

\* syncUp deletes a host object only if the user deleted the virtual object,
\* as its comment says the annotations show.
DeletedOnlyByUser == [][\A c \in Controllers : DeletesHost(c) => pc[c].p.uid \in userDeleted]_vars
=============================================================================
