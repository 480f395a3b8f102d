----------------------------- MODULE NameCache -----------------------------
(***************************************************************************)
(* pkg/namecache: the index from host names back to virtual names, filled  *)
(* by informer notifications about the virtual objects of one kind, and    *)
(* read by a controller (back syncer or force sync controller) that        *)
(* registered change hooks.                                                *)
(*                                                                         *)
(* One module instance stands for one GVK of the nested maps `indices`,    *)
(* `objects` and `hooks`.  A lookup key is a pair <<host, path>>:          *)
(* <<h, p>> is the key "h/p" of index IndexPhysicalToVirtualNamePath and   *)
(* <<h, AnyPath>> the key "h" of index IndexPhysicalToVirtualName.  The    *)
(* list of objects under a key is a set here; its first element is some    *)
(* element.                                                                *)
(***************************************************************************)
EXTENDS Naturals, Sequences, FiniteSets

CONSTANTS
  VirtualNames,   \* names "namespace/name" in the virtual cluster
  Objects,        \* those of them that are objects of the watched kind
  HostNames,      \* names in the host cluster's target namespace
  PhysicalName,   \* PhysicalName[v]: translate.PhysicalName
  Paths,          \* patch paths, the metadata.name path among them
  MetadataFieldPath,
  AnyPath,        \* stands for the index that is not split by path
  NoName,         \* the empty name
  NoMapping,      \* objects[gvk] has no entry under that name
  Absent,         \* the virtual cluster has no such object
  Handlers,       \* the informer handlers: one per fromVirtualCluster mapping
  RewritePaths,   \* RewritePaths[c]: paths of the rewriteName patches of c
  Uncompilable,   \* the handlers one of whose paths does not compile
  Contents,       \* Contents: what the fields of an object may hold
  Selectors,      \* the controller's selectors: a path or AnyPath each
  MaxChanges,     \* bound on changes to the virtual objects
  MaxHostEvents   \* bound on events of the host objects

ASSUME NamesAssumption ==
  /\ Objects \subseteq VirtualNames
  /\ IsFiniteSet(Objects)
  /\ NoName \notin VirtualNames
  /\ PhysicalName \in [VirtualNames -> HostNames]

ASSUME PathsAssumption ==
  /\ MetadataFieldPath \in Paths
  /\ AnyPath \notin Paths
  /\ RewritePaths \in [Handlers -> SUBSET Paths]
  /\ Uncompilable \subseteq Handlers
  /\ Selectors \in Seq(Paths \cup {AnyPath})

ASSUME ContentsAssumption ==
  /\ Contents \subseteq [Paths -> SUBSET VirtualNames]
  /\ Absent \notin Contents
  /\ MaxChanges \in Nat /\ MaxHostEvents \in Nat

Keys == HostNames \X (Paths \cup {AnyPath})

\* A mapping is what IndexMappings.Mappings holds: a value or nothing per key.
Mappings == [Keys -> VirtualNames \cup {NoName}]

ASSUME NoMappingAssumption == NoMapping \notin Mappings

Entries == [name : Objects, value : VirtualNames]

Notifications ==
  [type : {"add", "update"}, name : Objects, content : Contents]
  \cup [type : {"delete", "tombstone"}, name : Objects, content : {Absent}]

VARIABLES
  store,      \* store[o]: content of virtual object o, or Absent
  inbox,      \* inbox[c]: informer notifications handler c has yet to get
  objects,    \* nameCache.objects
  indices,    \* nameCache.indices
  hooked,     \* the controller called AddChangeHook and its worker started
  queue,      \* the controller's work queue (it holds a name at most once)
  active,     \* the request the worker holds: <<>> or <<host, next selector>>
  seen,       \* seen[h]: what the worker last resolved host name h to
  lost,       \* history: objects whose deletion the cache was not told of
  changes, hostEvents   \* how much of the bounds is used

cache == <<objects, indices, queue>>
worker == <<hooked, active, seen>>
vars == <<store, inbox, objects, indices, queue, hooked, active, seen, lost,
          changes, hostEvents>>

TypeOK == /\ store \in [Objects -> Contents \cup {Absent}]
          /\ inbox \in [Handlers -> Seq(Notifications)]
          /\ objects \in [Objects -> Mappings \cup {NoMapping}]
          /\ indices \in [Keys -> SUBSET Entries]
          /\ queue \subseteq HostNames
          /\ hooked \in BOOLEAN
          /\ active \in (HostNames \X (1 .. Len(Selectors) + 1)) \cup {<<>>}
          /\ seen \in [HostNames -> VirtualNames \cup {NoName}]
          /\ lost \subseteq Objects
          /\ changes \in Nat /\ hostEvents \in Nat

Init == /\ store \in [Objects -> Contents \cup {Absent}]
        /\ \E order \in [1 .. Cardinality({o \in Objects : store[o] # Absent}) ->
                            {o \in Objects : store[o] # Absent}] :
              /\ \A o \in Objects : store[o] # Absent => \E i \in DOMAIN order : order[i] = o
              /\ inbox = [c \in Handlers |->
                            [i \in DOMAIN order |->
                               [type |-> "add", name |-> order[i], content |-> store[order[i]]]]]
        /\ objects = [o \in Objects |-> NoMapping]
        /\ indices = [k \in Keys |-> {}]
        /\ queue = {}
        /\ hooked = FALSE
        /\ active = <<>>
        /\ seen = [h \in HostNames |-> NoName]
        /\ lost = {}
        /\ changes = 0 /\ hostEvents = 0

-----------------------------------------------------------------------------
(***************************************************************************)
(* The virtual cluster and its informer.                                   *)
(***************************************************************************)
Notify(type, o, content) ==
  inbox' = [c \in Handlers |->
              Append(inbox[c], [type |-> type, name |-> o, content |-> content])]

ChangeObject(type, o, content) ==
  /\ changes < MaxChanges
  /\ changes' = changes + 1
  /\ store' = [store EXCEPT ![o] = content]
  /\ Notify(type, o, content)
  /\ UNCHANGED <<cache, worker, lost, hostEvents>>

CreateObject(o) == /\ store[o] = Absent
                   /\ \E content \in Contents : ChangeObject("add", o, content)

\* Also the periodic resync of the informer, when content is the old one.
UpdateObject(o) == /\ store[o] # Absent
                   /\ \E content \in Contents : ChangeObject("update", o, content)

\* The informer sees the deletion, or its watch was interrupted and it learns
\* of it from a later list: then it hands on a DeletedFinalStateUnknown.
DeleteObject(o) == /\ store[o] # Absent
                   /\ \E type \in {"delete", "tombstone"} : ChangeObject(type, o, Absent)

-----------------------------------------------------------------------------
(***************************************************************************)
(* The cache.                                                              *)
(***************************************************************************)
\* executeHooks for a set of keys: the hooks are registered on the index that
\* is split by path, and each enqueues the host name of a key with its path.
Hooked(keys) ==
  {h \in HostNames : \E p \in Paths : /\ <<h, p>> \in keys
                                      /\ \E i \in DOMAIN Selectors : Selectors[i] \in {p, AnyPath}}

\* A variant for mutation: the queue forgets a name that is being worked on.
executeHooksIdle(keys) ==
  queue' = IF hooked THEN queue \cup {h \in Hooked(keys) : active = <<>> \/ active[1] # h} ELSE queue

executeHooks(keys) ==
  queue' = IF hooked THEN queue \cup Hooked(keys) ELSE queue

MappedKeys(mapping) == {k \in Keys : mapping # NoMapping /\ mapping[k] # NoName}

\* A variant for mutation: only the index that is not split by path is cleaned.
RemovedUnsplit(o) ==
  [k \in Keys |-> IF k \in MappedKeys(objects[o]) /\ k[2] = AnyPath
                  THEN {e \in indices[k] : e.name # o} ELSE indices[k]]

\* removeMapping: the index without the entries of object o, and the keys
\* whose hooks that fires.
Removed(o) ==
  [k \in Keys |-> IF k \in MappedKeys(objects[o])
                  THEN {e \in indices[k] : e.name # o} ELSE indices[k]]

RemovalHooks(o) == {k \in MappedKeys(objects[o]) : indices[k] # {}}

RemoveMapping(o) ==
  /\ objects' = [objects EXCEPT ![o] = NoMapping]
  /\ indices' = Removed(o)
  /\ executeHooks(RemovalHooks(o))

ExchangeMapping(o, mapping) ==
  IF objects[o] = mapping
  THEN UNCHANGED cache
  ELSE /\ objects' = [objects EXCEPT ![o] = mapping]
       /\ indices' = [k \in Keys |->
                        IF k \in MappedKeys(mapping)
                        THEN Removed(o)[k] \cup {[name |-> o, value |-> mapping[k]]}
                        ELSE Removed(o)[k]]
       /\ executeHooks(RemovalHooks(o) \cup MappedKeys(mapping))

\* The names handler c finds under path p of an object.
NamesAt(c, o, content, p) ==
  (IF p = MetadataFieldPath THEN {o} ELSE {}) \cup (IF p \in RewritePaths[c] THEN content[p] ELSE {})

\* A variant for mutation: names are written under their path only.
CandidatesSplit(c, o, content, k) ==
  {v \in VirtualNames : /\ PhysicalName[v] = k[1]
                        /\ \E p \in Paths : k[2] = p /\ v \in NamesAt(c, o, content, p)}

\* The names addSingleMapping is called with for key k.
Candidates(c, o, content, k) ==
  {v \in VirtualNames : /\ PhysicalName[v] = k[1]
                        /\ \E p \in Paths : /\ k[2] \in {p, AnyPath}
                                            /\ v \in NamesAt(c, o, content, p)}

\* A variant for mutation: the mapping leads from host names to host names.
mappingsFromVirtualObjectSwapped(c, o, content) ==
  {[k \in Keys |-> IF Candidates(c, o, content, k) = {} THEN NoName ELSE k[1]]}

\* Names that share a host name overwrite each other: any of them may be the
\* last one written.
mappingsFromVirtualObject(c, o, content) ==
  LET At(k)  == Candidates(c, o, content, k)
      Shared == {k \in Keys : Cardinality(At(k)) > 1}
  IN  {[k \in Keys |-> IF At(k) = {} THEN NoName
                       ELSE IF k \in Shared /\ last[k] \in At(k) THEN last[k]
                       ELSE CHOOSE v \in At(k) : TRUE] : last \in [Shared -> VirtualNames]}

Receive(c, types) ==
  /\ inbox[c] # <<>>
  /\ Head(inbox[c]).type \in types
  /\ inbox' = [inbox EXCEPT ![c] = Tail(@)]
  /\ UNCHANGED <<store, worker, changes, hostEvents>>

\* OnAdd and OnUpdate treat the object alike.  A path that does not compile
\* makes them drop the notification.
OnAddOrUpdate(c) ==
  /\ Receive(c, {"add", "update"})
  /\ LET n == Head(inbox[c])
     IN  /\ IF c \in Uncompilable
            THEN UNCHANGED cache
            ELSE \E m \in mappingsFromVirtualObject(c, n.name, n.content) : ExchangeMapping(n.name, m)
         /\ lost' = lost \ {n.name}

\* A variant for mutation: a deletion leaves the mapping in place.
OnDeleteIgnored(c) ==
  /\ Receive(c, {"delete"})
  /\ lost' = lost \ {Head(inbox[c]).name}
  /\ UNCHANGED cache

OnDelete(c) ==
  /\ Receive(c, {"delete"})
  /\ RemoveMapping(Head(inbox[c]).name)
  /\ lost' = lost \ {Head(inbox[c]).name}

\* OnDelete with a DeletedFinalStateUnknown: the type assertion fails.
OnDeleteUnknown(c) ==
  /\ Receive(c, {"tombstone"})
  /\ lost' = lost \cup {Head(inbox[c]).name}
  /\ UNCHANGED cache

-----------------------------------------------------------------------------
(***************************************************************************)
(* The controller that uses the cache.                                     *)
(***************************************************************************)
\* What GetByIndex holds for host name h under selector s.
Values(h, s) == {e.value : e \in indices[<<h, s>>]}

\* Start: the hooks are registered before the first worker runs, and the
\* initial list of the For source has put every host object in the queue.
Start == /\ ~hooked
         /\ hooked' = TRUE
         /\ queue' = HostNames
         /\ UNCHANGED <<store, inbox, objects, indices, active, seen, lost, changes, hostEvents>>

\* An event of the host object itself (the For source).
HostEvent(h) == /\ hooked
                /\ hostEvents < MaxHostEvents
                /\ hostEvents' = hostEvents + 1
                /\ queue' = queue \cup {h}
                /\ UNCHANGED <<store, inbox, objects, indices, hooked, active, seen, lost, changes>>

\* The worker takes a request.
Take(h) == /\ hooked
           /\ active = <<>>
           /\ h \in queue
           /\ queue' = queue \ {h}
           /\ active' = <<h, 1>>
           /\ UNCHANGED <<store, inbox, objects, indices, hooked, seen, lost, changes, hostEvents>>

Settle(h, answer) ==
  /\ active' = <<>>
  /\ seen' = [seen EXCEPT ![h] = answer]

\* Variants for mutation: the loop ends with the first selector, or waits at one
\* until it finds a name.
TrySelectorFirst ==
  /\ active # <<>>
  /\ IF Values(active[1], Selectors[1]) = {} THEN Settle(active[1], NoName)
     ELSE \E v \in Values(active[1], Selectors[1]) : Settle(active[1], v)
  /\ UNCHANGED <<store, inbox, objects, indices, queue, hooked, lost, changes, hostEvents>>

TrySelectorStuck ==
  /\ active # <<>>
  /\ \E v \in Values(active[1], Selectors[active[2]]) : Settle(active[1], v)
  /\ UNCHANGED <<store, inbox, objects, indices, queue, hooked, lost, changes, hostEvents>>

\* One turn of PhysicalToVirtual's loop: the mutex is taken once per selector.
TrySelector ==
  /\ active # <<>>
  /\ LET h == active[1]  i == active[2]
     IN  IF i > Len(Selectors) THEN Settle(h, NoName)
         ELSE IF Values(h, Selectors[i]) = {}
              THEN active' = <<h, i + 1>> /\ seen' = seen
              ELSE \E v \in Values(h, Selectors[i]) : Settle(h, v)
  /\ UNCHANGED <<store, inbox, objects, indices, queue, hooked, lost, changes, hostEvents>>

Next == \/ \E o \in Objects : CreateObject(o) \/ UpdateObject(o) \/ DeleteObject(o)
        \/ \E c \in Handlers : OnAddOrUpdate(c) \/ OnDelete(c) \/ OnDeleteUnknown(c)
        \/ Start \/ TrySelector
        \/ \E h \in HostNames : HostEvent(h) \/ Take(h)

Spec == Init /\ [][Next]_vars

Fairness == /\ \A c \in Handlers : WF_vars(OnAddOrUpdate(c) \/ OnDelete(c) \/ OnDeleteUnknown(c))
            /\ WF_vars(Start)
            /\ WF_vars(TrySelector)
            /\ \A h \in HostNames : SF_vars(Take(h))

FairSpec == Spec /\ Fairness

-----------------------------------------------------------------------------
(***************************************************************************)
(* Properties.                                                             *)
(***************************************************************************)
\* The two maps of the cache agree: an object has an entry under a key if and
\* only if its mapping has the key, with the same value.  An entry that
\* removeMapping leaves behind would be answered forever, because nothing in
\* `objects` leads back to it.
IndexExact ==
  \A k \in Keys, o \in Objects, v \in VirtualNames :
     [name |-> o, value |-> v] \in indices[k] <=> k \in MappedKeys(objects[o]) /\ objects[o][k] = v

\* v is what PhysicalToVirtual returns for h on the cache as it is now.
Current(h, v) ==
  \/ /\ v = NoName
     /\ \A i \in DOMAIN Selectors : Values(h, Selectors[i]) = {}
  \/ \E i \in DOMAIN Selectors :
        /\ v \in Values(h, Selectors[i])
        /\ \A j \in 1 .. i - 1 : Values(h, Selectors[j]) = {}

Busy(h) == active # <<>> /\ active[1] = h

\* The change hooks lose no wakeup: once the controller runs, a host name that
\* is neither queued nor being worked on was last resolved to what the cache
\* answers now, although the worker reads selector by selector while the
\* handlers change the cache.
NoLostWakeup ==
  hooked => \A h \in HostNames : h \in queue \/ Busy(h) \/ Current(h, seen[h])

\* No notification about object o is on its way to a handler.
Quiet(o) == \A c \in Handlers : \A i \in DOMAIN inbox[c] : inbox[c][i].name # o

\* Every name a mapping's rewriteName patches would rewrite resolves back:
\* once the handlers have caught up with an object, each name it holds under
\* a patch path of any handler is found under its host name and that path.
EveryNameResolves ==
  \A o \in Objects : store[o] # Absent /\ Quiet(o) =>
     \A c \in Handlers \ Uncompilable, p \in Paths : \A v \in NamesAt(c, o, store[o], p) :
        Values(PhysicalName[v], p) # {} /\ Values(PhysicalName[v], AnyPath) # {}

\* What an entry of the cache says is true of the virtual cluster.
Justified(k, e) == /\ store[e.name] # Absent
                   /\ \E c \in Handlers : e.value \in Candidates(c, e.name, store[e.name], k)

\* No stale answer: once the handlers have caught up with an object, the cache
\* holds for it only names the object has at that path, and nothing at all if
\* it is gone, unless its deletion arrived as a tombstone, which OnDelete
\* does not understand.
NoStaleName ==
  \A k \in Keys : \A e \in indices[k] : Quiet(e.name) /\ e.name \notin lost => Justified(k, e)

\* What the virtual objects say host name h stands for under selector s.
Expected(h, s) ==
  {v \in VirtualNames : \E o \in Objects, c \in Handlers :
      store[o] # Absent /\ v \in Candidates(c, o, store[o], <<h, s>>)}

Settled(h) ==
  \/ /\ seen[h] = NoName
     /\ \A i \in DOMAIN Selectors : Expected(h, Selectors[i]) = {}
  \/ \E i \in DOMAIN Selectors :
        /\ seen[h] \in Expected(h, Selectors[i])
        /\ \A j \in 1 .. i - 1 : Expected(h, Selectors[j]) = {}

\* When the virtual objects no longer change, the controller ends up having
\* resolved every host name to what they say: to a name an object has at the
\* path of the first selector that finds one, to nothing if there is none.
\* (A deletion that arrives as a tombstone spoils this, as it does NoStaleName.)
EventuallyResolved == <>[](lost # {} \/ \A h \in HostNames : Settled(h))

-----------------------------------------------------------------------------
(***************************************************************************)
(* The cache implements NameResolver.                                      *)
(***************************************************************************)
Resolver == INSTANCE NameResolver WITH
  Answers <- VirtualNames \cup {NoName},
  answers <- [h \in HostNames |-> {v \in VirtualNames \cup {NoName} : Current(h, v)}],
  active  <- IF active = <<>> THEN {} ELSE {active[1]}

\* Every step of the cache and its controller is a step of the abstract
\* resolver: answers change only with the affected host names queued, and the
\* worker settles only on an answer that is current or about to be revised.
ImplementsResolver == Resolver!Spec
=============================================================================
