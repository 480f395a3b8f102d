--------------------------- MODULE NameCacheProofs ---------------------------
(***************************************************************************)
(* Proofs about NameCache, for every set of objects, names, paths,         *)
(* handlers and selectors.  The argument has three layers: the types; the  *)
(* agreement of the two maps of the cache (IndexExact), which needs that a *)
(* mapping with a name has it under a path too (WellFormed); and the       *)
(* wakeups, which need to know what the worker has read so far (Reading).  *)
(***************************************************************************)
EXTENDS NameCache, FiniteSetTheorems, TLAPS

\* Every mapping mappingsFromVirtualObject returns is well typed, has a value
\* exactly at the keys with a candidate, and has a candidate there.
LEMMA MappingShape ==
  ASSUME NEW c \in Handlers, NEW o \in Objects, NEW content \in Contents,
         NEW m \in mappingsFromVirtualObject(c, o, content)
  PROVE  /\ m \in Mappings
         /\ \A k \in Keys : /\ m[k] = NoName <=> Candidates(c, o, content, k) = {}
                            /\ m[k] # NoName => m[k] \in Candidates(c, o, content, k)
<1> DEFINE At(k) == Candidates(c, o, content, k)
           Shared == {k \in Keys : Cardinality(At(k)) > 1}
<1>1. PICK last \in [Shared -> VirtualNames] :
        m = [k \in Keys |-> IF At(k) = {} THEN NoName
                            ELSE IF k \in Shared /\ last[k] \in At(k) THEN last[k]
                            ELSE CHOOSE v \in At(k) : TRUE]
  BY DEF mappingsFromVirtualObject
<1>2. \A k \in Keys : At(k) \subseteq VirtualNames
  BY DEF Candidates
<1>3. \A k \in Keys : IF At(k) = {} THEN m[k] = NoName ELSE m[k] \in At(k)
  <2> HIDE DEF Shared, At
  <2> TAKE k \in Keys
  <2>1. At(k) # {} => (CHOOSE v \in At(k) : TRUE) \in At(k)
    OBVIOUS
  <2> QED BY <1>1, <2>1
<1>4. m \in Mappings
  <2> HIDE DEF Shared, At
  <2>1. \A k \in Keys : m[k] \in VirtualNames \cup {NoName}
    BY <1>2, <1>3
  <2> QED BY <1>1, <2>1 DEF Mappings
<1> QED BY <1>2, <1>3, <1>4, NamesAssumption

-----------------------------------------------------------------------------
\* The initial state is well typed.
LEMMA InitTyped == Init => TypeOK
<1> SUFFICES ASSUME Init PROVE TypeOK
  OBVIOUS
<1> DEFINE Live == {o \in Objects : store[o] # Absent}
<1>1. PICK order \in [1 .. Cardinality(Live) -> Live] :
        inbox = [c \in Handlers |->
                   [i \in DOMAIN order |->
                      [type |-> "add", name |-> order[i], content |-> store[order[i]]]]]
  BY DEF Init
<1>2. Cardinality(Live) \in Nat
  BY NamesAssumption, FS_CardinalityType, FS_Subset
<1>3. inbox \in [Handlers -> Seq(Notifications)]
  <2> DEFINE entry(i) == [type |-> "add", name |-> order[i], content |-> store[order[i]]]
  <2>1. \A i \in 1 .. Cardinality(Live) : entry(i) \in Notifications
    BY <1>1 DEF Init, Notifications
  <2>2. [i \in 1 .. Cardinality(Live) |-> entry(i)] \in Seq(Notifications)
    <3> HIDE DEF entry, Live
    <3> QED BY <1>2, <2>1
  <2>3. DOMAIN order = 1 .. Cardinality(Live)
    BY <1>1
  <2> QED BY <1>1, <2>2, <2>3
<1>4. active \in (HostNames \X (1 .. Len(Selectors) + 1)) \cup {<<>>}
  BY DEF Init
<1> QED BY <1>3, <1>4 DEF Init, TypeOK

\* Exchanging or removing a mapping keeps the cache well typed.
LEMMA CacheTyped ==
  ASSUME TypeOK, NEW o \in Objects, NEW m \in Mappings,
         ExchangeMapping(o, m) \/ RemoveMapping(o)
  PROVE  /\ objects' \in [Objects -> Mappings \cup {NoMapping}]
         /\ indices' \in [Keys -> SUBSET Entries]
         /\ queue' \subseteq HostNames
<1>1. Removed(o) \in [Keys -> SUBSET Entries]
  BY DEF TypeOK, Removed
<1>2. \A keys : executeHooks(keys) => queue' \subseteq HostNames
  BY DEF executeHooks, Hooked, TypeOK
<1>3. CASE ExchangeMapping(o, m)
  <2>1. CASE objects[o] = m
    BY <1>3, <2>1 DEF ExchangeMapping, cache, TypeOK
  <2>2. CASE objects[o] # m
    <3>1. \A k \in MappedKeys(m) : [name |-> o, value |-> m[k]] \in Entries
      BY DEF MappedKeys, Entries, Mappings
    <3>2. indices' \in [Keys -> SUBSET Entries]
      BY <1>1, <1>3, <2>2, <3>1 DEF ExchangeMapping
    <3>3. queue' \subseteq HostNames
      BY <1>2, <1>3, <2>2 DEF ExchangeMapping
    <3>4. objects' \in [Objects -> Mappings \cup {NoMapping}]
      BY <1>3, <2>2 DEF ExchangeMapping, TypeOK
    <3> QED BY <3>2, <3>3, <3>4
  <2> QED BY <2>1, <2>2
<1>4. CASE RemoveMapping(o)
  BY <1>1, <1>2, <1>4 DEF RemoveMapping, TypeOK
<1> QED BY <1>3, <1>4

\* A received notification is well typed and leaves well-typed inboxes.
LEMMA ReceiveTyped ==
  ASSUME TypeOK, NEW c \in Handlers, NEW types, Receive(c, types)
  PROVE  /\ Head(inbox[c]) \in Notifications
         /\ inbox' \in [Handlers -> Seq(Notifications)]
<1>1. inbox[c] \in Seq(Notifications) /\ inbox[c] # <<>>
  BY DEF TypeOK, Receive
<1>2. Head(inbox[c]) \in Notifications /\ Tail(inbox[c]) \in Seq(Notifications)
  BY <1>1
<1> QED BY <1>2 DEF TypeOK, Receive

\* A change in the virtual cluster appends well-typed notifications.
LEMMA ChangeTyped ==
  ASSUME TypeOK, NEW type, NEW o \in Objects, NEW content,
         [type |-> type, name |-> o, content |-> content] \in Notifications,
         ChangeObject(type, o, content)
  PROVE  TypeOK'
<1>1. content \in Contents \cup {Absent}
  BY DEF Notifications
<1>2. \A c \in Handlers : inbox[c] \in Seq(Notifications)
  BY DEF TypeOK
<1>3. inbox' \in [Handlers -> Seq(Notifications)]
  BY <1>2 DEF ChangeObject, Notify
<1>4. store' \in [Objects -> Contents \cup {Absent}]
  BY <1>1 DEF ChangeObject, TypeOK
<1> QED BY <1>3, <1>4 DEF ChangeObject, TypeOK, cache, worker

\* Types are preserved by every step.
LEMMA StepTyped == TypeOK /\ [Next]_vars => TypeOK'
<1> SUFFICES ASSUME TypeOK, [Next]_vars PROVE TypeOK'
  OBVIOUS
<1>1. ASSUME NEW o \in Objects, CreateObject(o) \/ UpdateObject(o) PROVE TypeOK'
  <2>1. PICK type \in {"add", "update"}, content \in Contents : ChangeObject(type, o, content)
    BY <1>1 DEF CreateObject, UpdateObject
  <2> QED BY <2>1, ChangeTyped DEF Notifications
<1>2. ASSUME NEW o \in Objects, DeleteObject(o) PROVE TypeOK'
  <2>1. PICK type \in {"delete", "tombstone"} : ChangeObject(type, o, Absent)
    BY <1>2 DEF DeleteObject
  <2> QED BY <2>1, ChangeTyped DEF Notifications
<1>3. ASSUME NEW c \in Handlers, OnAddOrUpdate(c) PROVE TypeOK'
  <2> DEFINE n == Head(inbox[c])
  <2>1. Receive(c, {"add", "update"})
    BY <1>3 DEF OnAddOrUpdate
  <2>2. n \in Notifications /\ inbox' \in [Handlers -> Seq(Notifications)]
    BY <2>1, ReceiveTyped
  <2>3. n.name \in Objects /\ n.content \in Contents
    BY <2>1, <2>2 DEF Receive, Notifications
  <2>4. /\ objects' \in [Objects -> Mappings \cup {NoMapping}]
        /\ indices' \in [Keys -> SUBSET Entries]
        /\ queue' \subseteq HostNames
    <3>1. CASE c \in Uncompilable
      BY <1>3, <3>1 DEF OnAddOrUpdate, cache, TypeOK
    <3>2. CASE c \notin Uncompilable
      <4>1. PICK m \in mappingsFromVirtualObject(c, n.name, n.content) : ExchangeMapping(n.name, m)
        BY <1>3, <3>2 DEF OnAddOrUpdate
      <4>2. m \in Mappings
        BY <2>3, MappingShape
      <4> QED BY <2>3, <4>1, <4>2, CacheTyped
    <3> QED BY <3>1, <3>2
  <2>5. lost' \subseteq Objects
    BY <1>3 DEF OnAddOrUpdate, TypeOK
  <2> QED BY <2>1, <2>2, <2>4, <2>5 DEF TypeOK, Receive, worker
<1>4. ASSUME NEW c \in Handlers, OnDelete(c) PROVE TypeOK'
  <2>1. Receive(c, {"delete"}) /\ RemoveMapping(Head(inbox[c]).name) /\ lost' \subseteq Objects
    BY <1>4 DEF OnDelete, TypeOK
  <2>2. Head(inbox[c]) \in Notifications /\ inbox' \in [Handlers -> Seq(Notifications)]
    BY <2>1, ReceiveTyped
  <2>3. Head(inbox[c]).name \in Objects
    BY <2>2 DEF Notifications
  <2>4. PICK m : m \in Mappings
    <3>1. [k \in Keys |-> NoName] \in Mappings
      BY DEF Mappings
    <3> QED BY <3>1
  <2>5. /\ objects' \in [Objects -> Mappings \cup {NoMapping}]
        /\ indices' \in [Keys -> SUBSET Entries]
        /\ queue' \subseteq HostNames
    BY <2>1, <2>3, <2>4, CacheTyped
  <2> QED BY <2>1, <2>2, <2>5 DEF TypeOK, Receive, worker
<1>5. ASSUME NEW c \in Handlers, OnDeleteUnknown(c) PROVE TypeOK'
  <2>1. Receive(c, {"tombstone"})
    BY <1>5 DEF OnDeleteUnknown
  <2>2. Head(inbox[c]) \in Notifications /\ inbox' \in [Handlers -> Seq(Notifications)]
    BY <2>1, ReceiveTyped
  <2>3. Head(inbox[c]).name \in Objects
    BY <2>2 DEF Notifications
  <2> QED BY <1>5, <2>1, <2>2, <2>3 DEF OnDeleteUnknown, TypeOK, Receive, worker, cache
<1>6. CASE Start
  BY <1>6 DEF Start, TypeOK
<1>7. CASE TrySelector
  <2> DEFINE h == active[1]  i == active[2]
  <2>1. h \in HostNames /\ i \in 1 .. Len(Selectors) + 1
    BY <1>7 DEF TrySelector, TypeOK
  <2>2. Len(Selectors) \in Nat
    BY PathsAssumption
  <2>3. /\ active' \in (HostNames \X (1 .. Len(Selectors) + 1)) \cup {<<>>}
        /\ seen' \in [HostNames -> VirtualNames \cup {NoName}]
    <3>1. CASE i > Len(Selectors)
      BY <1>7, <2>1, <3>1 DEF TrySelector, Settle, TypeOK
    <3>2. CASE i <= Len(Selectors) /\ Values(h, Selectors[i]) = {}
      BY <1>7, <2>1, <2>2, <3>2 DEF TrySelector, TypeOK
    <3>3. CASE i <= Len(Selectors) /\ Values(h, Selectors[i]) # {}
      <4>1. PICK v \in Values(h, Selectors[i]) : Settle(h, v)
        BY <1>7, <2>1, <2>2, <3>3 DEF TrySelector
      <4>2. <<h, Selectors[i]>> \in Keys
        BY <2>1, <2>2, <3>3, PathsAssumption DEF Keys
      <4>3. v \in VirtualNames
        BY <4>1, <4>2 DEF Values, TypeOK, Entries
      <4> QED BY <4>1, <4>3 DEF Settle, TypeOK
    <3> QED BY <2>1, <2>2, <3>1, <3>2, <3>3
  <2> QED BY <1>7, <2>3 DEF TrySelector, TypeOK
<1>8. ASSUME NEW h \in HostNames, HostEvent(h) \/ Take(h) PROVE TypeOK'
  <2>1. Len(Selectors) \in Nat
    BY PathsAssumption
  <2>2. CASE HostEvent(h)
    BY <2>2 DEF HostEvent, TypeOK
  <2>3. CASE Take(h)
    <3>1. 1 \in 1 .. Len(Selectors) + 1
      BY <2>1
    <3> QED BY <2>3, <3>1 DEF Take, TypeOK
  <2> QED BY <1>8, <2>2, <2>3
<1>9. CASE UNCHANGED vars
  BY <1>9 DEF vars, TypeOK
<1> QED BY <1>1, <1>2, <1>3, <1>4, <1>5, <1>6, <1>7, <1>8, <1>9 DEF Next

\* The name cache, its inboxes and the worker keep their types.
THEOREM TypeCorrect == Spec => []TypeOK
<1> QED BY InitTyped, StepTyped, PTL DEF Spec

-----------------------------------------------------------------------------
(***************************************************************************)
(* The two maps of the cache.                                              *)
(***************************************************************************)
\* A name in a mapping is found under some path: addSingleMapping writes both
\* indices.
WellFormed ==
  \A o \in Objects : objects[o] # NoMapping =>
     \A h \in HostNames : objects[o][<<h, AnyPath>>] # NoName =>
        \E p \in Paths : objects[o][<<h, p>>] # NoName

CacheInv == IndexExact /\ WellFormed

\* The mapping of an object is well formed.
LEMMA MappingWellFormed ==
  ASSUME NEW c \in Handlers, NEW o \in Objects, NEW content \in Contents,
         NEW m \in mappingsFromVirtualObject(c, o, content), NEW h \in HostNames,
         m[<<h, AnyPath>>] # NoName
  PROVE  \E p \in Paths : m[<<h, p>>] # NoName
<1>1. <<h, AnyPath>> \in Keys /\ \A p \in Paths : <<h, p>> \in Keys
  BY DEF Keys
<1>2. PICK v \in VirtualNames : v \in Candidates(c, o, content, <<h, AnyPath>>)
  BY <1>1, MappingShape DEF Candidates
<1>3. PICK p \in Paths : v \in NamesAt(c, o, content, p)
  BY <1>2 DEF Candidates
<1>4. v \in Candidates(c, o, content, <<h, p>>)
  BY <1>2, <1>3 DEF Candidates
<1>5. m[<<h, p>>] # NoName
  BY <1>1, <1>4, MappingShape
<1> QED BY <1>5

\* Removing the entries of object o under the keys of its mapping removes all
\* of them, and no entry of another object.
LEMMA RemovedExact ==
  ASSUME TypeOK, IndexExact, NEW o \in Objects, NEW k \in Keys,
         NEW p \in Objects, NEW v \in VirtualNames
  PROVE  [name |-> p, value |-> v] \in Removed(o)[k] <=>
            p # o /\ [name |-> p, value |-> v] \in indices[k]
<1>1. CASE k \in MappedKeys(objects[o])
  BY <1>1 DEF Removed
<1>2. CASE k \notin MappedKeys(objects[o])
  <2>1. [name |-> o, value |-> v] \notin indices[k]
    BY <1>2 DEF IndexExact
  <2> QED BY <1>2, <2>1 DEF Removed
<1> QED BY <1>1, <1>2

\* ExchangeMapping keeps the two maps in agreement.
LEMMA ExchangeExact ==
  ASSUME TypeOK, IndexExact, NEW o \in Objects, NEW m \in Mappings, ExchangeMapping(o, m)
  PROVE  IndexExact'
<1>1. CASE objects[o] = m
  BY <1>1 DEF ExchangeMapping, cache, IndexExact, MappedKeys
<1>2. CASE objects[o] # m
  <2> SUFFICES ASSUME NEW k \in Keys, NEW p \in Objects, NEW v \in VirtualNames
               PROVE  [name |-> p, value |-> v] \in indices'[k] <=>
                         k \in MappedKeys(objects'[p]) /\ objects'[p][k] = v
    BY DEF IndexExact, MappedKeys
  <2> DEFINE e == [name |-> p, value |-> v]
  <2>1. objects' = [objects EXCEPT ![o] = m]
    BY <1>2 DEF ExchangeMapping
  <2>2. indices'[k] = IF k \in MappedKeys(m)
                      THEN Removed(o)[k] \cup {[name |-> o, value |-> m[k]]} ELSE Removed(o)[k]
    BY <1>2 DEF ExchangeMapping
  <2>3. e \in Removed(o)[k] <=> p # o /\ e \in indices[k]
    BY RemovedExact
  <2>4. CASE p = o
    <3>1. objects'[p] = m
      BY <2>1, <2>4 DEF TypeOK
    <3>2. e = [name |-> o, value |-> m[k]] <=> m[k] = v
      BY <2>4
    <3> QED BY <2>2, <2>3, <2>4, <3>1, <3>2
  <2>5. CASE p # o
    <3>1. objects'[p] = objects[p]
      BY <2>1, <2>5 DEF TypeOK
    <3>2. e # [name |-> o, value |-> m[k]]
      BY <2>5
    <3> QED BY <2>2, <2>3, <2>5, <3>1, <3>2 DEF IndexExact
  <2> QED BY <2>4, <2>5
<1> QED BY <1>1, <1>2

\* RemoveMapping keeps the two maps in agreement.
LEMMA RemoveExact ==
  ASSUME TypeOK, IndexExact, NEW o \in Objects, RemoveMapping(o)
  PROVE  IndexExact'
<1> SUFFICES ASSUME NEW k \in Keys, NEW p \in Objects, NEW v \in VirtualNames
             PROVE  [name |-> p, value |-> v] \in indices'[k] <=>
                       k \in MappedKeys(objects'[p]) /\ objects'[p][k] = v
  BY DEF IndexExact, MappedKeys
<1>1. [name |-> p, value |-> v] \in indices'[k] <=> p # o /\ [name |-> p, value |-> v] \in indices[k]
  BY RemovedExact DEF RemoveMapping
<1>2. objects' = [objects EXCEPT ![o] = NoMapping]
  BY DEF RemoveMapping
<1>3. CASE p = o
  BY <1>1, <1>2, <1>3 DEF TypeOK, MappedKeys
<1>4. CASE p # o
  BY <1>1, <1>2, <1>4 DEF TypeOK, IndexExact
<1> QED BY <1>3, <1>4

\* What a step does to the cache: nothing, or one exchange or removal.
CacheStep ==
  \/ UNCHANGED <<objects, indices>> /\ UNCHANGED <<hooked, active, seen>> /\ queue \subseteq queue'
  \/ UNCHANGED worker /\ \E o \in Objects : RemoveMapping(o)
  \/ UNCHANGED worker /\ \E o \in Objects, c \in Handlers, content \in Contents :
        \E m \in mappingsFromVirtualObject(c, o, content) : ExchangeMapping(o, m)

\* Every step is a cache step or a step of the controller.
LEMMA StepCases ==
  ASSUME TypeOK, [Next]_vars
  PROVE  \/ CacheStep
         \/ Start
         \/ TrySelector
         \/ \E h \in HostNames : Take(h)
<1>1. ASSUME NEW o \in Objects, CreateObject(o) \/ UpdateObject(o) \/ DeleteObject(o) PROVE CacheStep
  BY <1>1 DEF CreateObject, UpdateObject, DeleteObject, ChangeObject, CacheStep, cache, worker
<1>2. ASSUME NEW c \in Handlers, OnAddOrUpdate(c) PROVE CacheStep
  <2> DEFINE n == Head(inbox[c])
  <2>1. Receive(c, {"add", "update"})
    BY <1>2 DEF OnAddOrUpdate
  <2>2. n.name \in Objects /\ n.content \in Contents
    BY <2>1, ReceiveTyped DEF Receive, Notifications
  <2>3. CASE c \in Uncompilable
    BY <1>2, <2>1, <2>3 DEF OnAddOrUpdate, CacheStep, Receive, cache, worker
  <2>4. CASE c \notin Uncompilable
    <3>1. PICK m \in mappingsFromVirtualObject(c, n.name, n.content) : ExchangeMapping(n.name, m)
      BY <1>2, <2>4 DEF OnAddOrUpdate
    <3> QED BY <2>1, <2>2, <3>1 DEF CacheStep, Receive
  <2> QED BY <2>3, <2>4
<1>3. ASSUME NEW c \in Handlers, OnDelete(c) PROVE CacheStep
  <2>1. Receive(c, {"delete"}) /\ RemoveMapping(Head(inbox[c]).name)
    BY <1>3 DEF OnDelete
  <2>2. Head(inbox[c]).name \in Objects
    BY <2>1, ReceiveTyped DEF Notifications
  <2> QED BY <2>1, <2>2 DEF CacheStep, Receive
<1>4. ASSUME NEW c \in Handlers, OnDeleteUnknown(c) PROVE CacheStep
  BY <1>4 DEF OnDeleteUnknown, Receive, CacheStep, cache, worker
<1>5. ASSUME NEW h \in HostNames, HostEvent(h) PROVE CacheStep
  BY <1>5 DEF HostEvent, CacheStep
<1>6. CASE UNCHANGED vars
  BY <1>6 DEF vars, CacheStep
<1> QED BY <1>1, <1>2, <1>3, <1>4, <1>5, <1>6 DEF Next

\* The agreement of the two maps is inductive.
LEMMA CacheInvStep == TypeOK /\ CacheInv /\ [Next]_vars => CacheInv'
<1> SUFFICES ASSUME TypeOK, CacheInv, [Next]_vars PROVE CacheInv'
  OBVIOUS
<1>1. ASSUME UNCHANGED <<objects, indices>> PROVE CacheInv'
  BY <1>1 DEF CacheInv, IndexExact, WellFormed, MappedKeys
<1>2. ASSUME NEW o \in Objects, RemoveMapping(o) PROVE CacheInv'
  <2>1. IndexExact'
    BY <1>2, RemoveExact DEF CacheInv
  <2>2. WellFormed'
    BY <1>2 DEF CacheInv, WellFormed, RemoveMapping, TypeOK
  <2> QED BY <2>1, <2>2 DEF CacheInv
<1>3. ASSUME NEW o \in Objects, NEW c \in Handlers, NEW content \in Contents,
             NEW m \in mappingsFromVirtualObject(c, o, content), ExchangeMapping(o, m)
      PROVE  CacheInv'
  <2>1. m \in Mappings
    BY MappingShape
  <2>2. IndexExact'
    BY <1>3, <2>1, ExchangeExact DEF CacheInv
  <2>3. objects' = [objects EXCEPT ![o] = m]
    BY <1>3 DEF ExchangeMapping, cache, TypeOK
  <2>4. WellFormed'
    <3> SUFFICES ASSUME NEW p \in Objects, objects'[p] # NoMapping, NEW h \in HostNames,
                        objects'[p][<<h, AnyPath>>] # NoName
                 PROVE  \E q \in Paths : objects'[p][<<h, q>>] # NoName
      BY DEF WellFormed
    <3>1. CASE p = o
      <4>1. objects'[p] = m
        BY <2>3, <3>1 DEF TypeOK
      <4>2. m[<<h, AnyPath>>] # NoName
        BY <4>1
      <4> QED BY <4>1, <4>2, MappingWellFormed
    <3>2. CASE p # o
      BY <2>3, <3>2 DEF TypeOK, CacheInv, WellFormed
    <3> QED BY <3>1, <3>2
  <2> QED BY <2>2, <2>4 DEF CacheInv
<1>4. CASE CacheStep
  BY <1>1, <1>2, <1>3, <1>4 DEF CacheStep
<1>5. CASE Start \/ TrySelector \/ \E h \in HostNames : Take(h)
  BY <1>1, <1>5 DEF Start, TrySelector, Take
<1> QED BY <1>4, <1>5, StepCases

\* The empty cache satisfies the invariant.
LEMMA CacheInvInit == Init => CacheInv
BY DEF Init, CacheInv, IndexExact, WellFormed, MappedKeys

\* For every configuration, the two maps of the name cache agree: no entry of
\* the index outlives the mapping it came from, and none is missing.
THEOREM CacheIsExact == Spec => []IndexExact
<1>1. CacheInv => IndexExact
  BY DEF CacheInv
<1> QED BY <1>1, TypeCorrect, CacheInvInit, CacheInvStep, PTL DEF Spec

-----------------------------------------------------------------------------
(***************************************************************************)
(* The wakeups.                                                            *)
(***************************************************************************)
\* What the worker read on its way through the selectors still holds, or the
\* host name is queued again; no request is held before the hooks are there.
Reading ==
  /\ ~hooked => active = <<>>
  /\ active # <<>> =>
        \A j \in 1 .. active[2] - 1 :
           active[1] \in queue \/ Values(active[1], Selectors[j]) = {}

WakeupInv == Reading /\ NoLostWakeup

\* An entry under a name is accompanied by one under a path, on removal ...
LEMMA RemovalFires ==
  ASSUME TypeOK, CacheInv, NEW o \in Objects, NEW h \in HostNames,
         <<h, AnyPath>> \in RemovalHooks(o)
  PROVE  \E p \in Paths : <<h, p>> \in RemovalHooks(o)
<1>1. objects[o] # NoMapping /\ objects[o][<<h, AnyPath>>] # NoName
  BY DEF RemovalHooks, MappedKeys
<1>2. PICK p \in Paths : objects[o][<<h, p>>] # NoName
  BY <1>1 DEF CacheInv, WellFormed
<1>3. <<h, p>> \in Keys
  BY DEF Keys
<1>4. objects[o][<<h, p>>] \in VirtualNames
  BY <1>1, <1>2, <1>3 DEF TypeOK, Mappings
<1>5. <<h, p>> \in MappedKeys(objects[o])
  BY <1>1, <1>2, <1>3 DEF MappedKeys
<1>6. [name |-> o, value |-> objects[o][<<h, p>>]] \in indices[<<h, p>>]
  BY <1>3, <1>4, <1>5 DEF CacheInv, IndexExact
<1> QED BY <1>5, <1>6 DEF RemovalHooks

\* If the fired keys contain a key of every selector that changed, the hooks
\* queue the host name.
LEMMA FiredKeys ==
  ASSUME TypeOK, hooked, NEW keys, executeHooks(keys), NEW h \in HostNames,
         NEW i \in DOMAIN Selectors, <<h, Selectors[i]>> \in keys,
         Selectors[i] = AnyPath => \E p \in Paths : <<h, p>> \in keys
  PROVE  h \in queue'
<1>1. Selectors[i] \in Paths \cup {AnyPath}
  BY PathsAssumption
<1>2. PICK p \in Paths : <<h, p>> \in keys /\ Selectors[i] \in {p, AnyPath}
  BY <1>1
<1>3. h \in Hooked(keys)
  BY <1>2 DEF Hooked
<1> QED BY <1>3 DEF executeHooks

\* A removal tells the controller of every host name it changes an answer of.
LEMMA RemovalWakes ==
  ASSUME TypeOK, CacheInv, NEW o \in Objects, RemoveMapping(o), hooked,
         NEW h \in HostNames, NEW i \in DOMAIN Selectors,
         Values(h, Selectors[i])' # Values(h, Selectors[i])
  PROVE  h \in queue'
<1> DEFINE k == <<h, Selectors[i]>>
<1>1. k \in Keys
  BY PathsAssumption DEF Keys
<1>2. indices'[k] # indices[k]
  BY DEF Values
<1>3. k \in RemovalHooks(o)
  BY <1>1, <1>2 DEF RemoveMapping, Removed, RemovalHooks, TypeOK
<1>4. Selectors[i] = AnyPath => \E p \in Paths : <<h, p>> \in RemovalHooks(o)
  BY <1>3, RemovalFires
<1> QED BY <1>3, <1>4, FiredKeys DEF RemoveMapping

\* So does an exchange.
LEMMA ExchangeWakes ==
  ASSUME TypeOK, CacheInv, NEW o \in Objects, NEW c \in Handlers, NEW content \in Contents,
         NEW m \in mappingsFromVirtualObject(c, o, content), ExchangeMapping(o, m), hooked,
         NEW h \in HostNames, NEW i \in DOMAIN Selectors,
         Values(h, Selectors[i])' # Values(h, Selectors[i])
  PROVE  h \in queue'
<1> DEFINE k == <<h, Selectors[i]>>
           keys == RemovalHooks(o) \cup MappedKeys(m)
<1>1. k \in Keys
  BY PathsAssumption DEF Keys
<1>2. indices'[k] # indices[k]
  BY DEF Values
<1>3. objects[o] # m
  BY <1>2 DEF ExchangeMapping, cache
<1>4. executeHooks(keys)
  BY <1>3 DEF ExchangeMapping
<1>5. k \in keys
  <2>1. CASE k \in MappedKeys(m)
    BY <2>1
  <2>2. CASE k \notin MappedKeys(m)
    <3>1. indices'[k] = Removed(o)[k]
      BY <1>1, <1>3, <2>2 DEF ExchangeMapping
    <3> QED BY <1>1, <1>2, <3>1 DEF Removed, RemovalHooks, TypeOK
  <2> QED BY <2>1, <2>2
<1>6. Selectors[i] = AnyPath => \E p \in Paths : <<h, p>> \in keys
  <2> SUFFICES ASSUME Selectors[i] = AnyPath PROVE \E p \in Paths : <<h, p>> \in keys
    OBVIOUS
  <2>1. CASE k \in RemovalHooks(o)
    BY <2>1, RemovalFires
  <2>2. CASE k \in MappedKeys(m)
    <3>1. m[<<h, AnyPath>>] # NoName /\ m # NoMapping
      BY <2>2 DEF MappedKeys
    <3>2. PICK p \in Paths : m[<<h, p>>] # NoName
      BY <3>1, MappingWellFormed
    <3>3. <<h, p>> \in MappedKeys(m)
      BY <3>1, <3>2 DEF MappedKeys, Keys
    <3> QED BY <3>3
  <2> QED BY <1>5, <2>1, <2>2
<1> HIDE DEF keys
<1> QED BY <1>4, <1>5, <1>6, FiredKeys

\* A cache step leaves the controller alone, only adds to its queue, and adds
\* every host name whose answers it changes.
LEMMA CacheStepWakes ==
  ASSUME TypeOK, CacheInv, CacheStep
  PROVE  /\ UNCHANGED <<hooked, active, seen>>
         /\ queue \subseteq queue'
         /\ hooked => \A h \in HostNames, i \in DOMAIN Selectors :
               h \in queue' \/ Values(h, Selectors[i])' = Values(h, Selectors[i])
<1>1. CASE UNCHANGED <<objects, indices>> /\ UNCHANGED <<hooked, active, seen>> /\ queue \subseteq queue'
  BY <1>1 DEF Values
<1>2. ASSUME UNCHANGED worker, NEW o \in Objects, RemoveMapping(o)
      PROVE  /\ queue \subseteq queue'
             /\ hooked => \A h \in HostNames, i \in DOMAIN Selectors :
                   h \in queue' \/ Values(h, Selectors[i])' = Values(h, Selectors[i])
  <2>1. queue \subseteq queue'
    BY <1>2 DEF RemoveMapping, executeHooks
  <2> QED BY <1>2, <2>1, RemovalWakes
<1>3. ASSUME UNCHANGED worker, NEW o \in Objects, NEW c \in Handlers, NEW content \in Contents,
             NEW m \in mappingsFromVirtualObject(c, o, content), ExchangeMapping(o, m)
      PROVE  /\ queue \subseteq queue'
             /\ hooked => \A h \in HostNames, i \in DOMAIN Selectors :
                   h \in queue' \/ Values(h, Selectors[i])' = Values(h, Selectors[i])
  <2>1. queue \subseteq queue'
    BY <1>3 DEF ExchangeMapping, executeHooks, cache
  <2> QED BY <1>3, <2>1, ExchangeWakes
<1>4. ASSUME UNCHANGED worker PROVE UNCHANGED <<hooked, active, seen>>
  BY <1>4 DEF worker
<1> QED BY <1>1, <1>2, <1>3, <1>4 DEF CacheStep

\* An answer stays current as long as no selector's values change.
LEMMA CurrentStable ==
  ASSUME NEW h \in HostNames, NEW v,
         \A i \in DOMAIN Selectors : Values(h, Selectors[i])' = Values(h, Selectors[i])
  PROVE  Current(h, v)' <=> Current(h, v)
<1>1. \A i \in DOMAIN Selectors : 1 .. i - 1 \subseteq DOMAIN Selectors
  BY PathsAssumption
<1> QED BY <1>1 DEF Current

\* A name found under a selector after empty ones is a current answer, and so
\* is no name when all selectors are empty.
LEMMA ReadIsCurrent ==
  ASSUME NEW h \in HostNames, NEW i \in 1 .. Len(Selectors) + 1, NEW v,
         \A j \in 1 .. i - 1 : Values(h, Selectors[j]) = {},
         IF i > Len(Selectors) THEN v = NoName ELSE v \in Values(h, Selectors[i])
  PROVE  Current(h, v)
<1>1. Len(Selectors) \in Nat /\ DOMAIN Selectors = 1 .. Len(Selectors)
  BY PathsAssumption
<1>2. CASE i > Len(Selectors)
  <2>1. 1 .. i - 1 = DOMAIN Selectors
    BY <1>1, <1>2
  <2> QED BY <1>2, <2>1 DEF Current
<1>3. CASE ~(i > Len(Selectors))
  <2>1. i \in DOMAIN Selectors
    BY <1>1, <1>3
  <2> QED BY <1>3, <2>1 DEF Current
<1> QED BY <1>2, <1>3

\* What TrySelector does: it moves on past an empty selector, or settles on an
\* answer that is current unless the host name is queued again.
LEMMA TryCases ==
  ASSUME TypeOK, Reading, TrySelector
  PROVE  /\ active # <<>> /\ active[1] \in HostNames /\ hooked
         /\ UNCHANGED <<objects, indices, queue, hooked>>
         /\ \/ /\ active' = <<active[1], active[2] + 1>>
               /\ seen' = seen
               /\ Values(active[1], Selectors[active[2]]) = {}
            \/ \E v \in VirtualNames \cup {NoName} :
                  /\ active[1] \in queue \/ Current(active[1], v)
                  /\ active' = <<>>
                  /\ seen' = [seen EXCEPT ![active[1]] = v]
<1> DEFINE h == active[1]  i == active[2]
<1>1. active # <<>> /\ hooked /\ UNCHANGED <<objects, indices, queue, hooked>>
  BY DEF TrySelector, Reading, TypeOK
<1>2. h \in HostNames /\ i \in 1 .. Len(Selectors) + 1 /\ Len(Selectors) \in Nat
  BY <1>1, PathsAssumption DEF TypeOK
<1>3. h \in queue \/ \A j \in 1 .. i - 1 : Values(h, Selectors[j]) = {}
  BY <1>1 DEF Reading
<1>4. CASE i > Len(Selectors)
  <2>1. Settle(h, NoName)
    BY <1>4 DEF TrySelector
  <2>2. h \in queue \/ Current(h, NoName)
    BY <1>2, <1>3, <1>4, ReadIsCurrent
  <2> QED BY <1>1, <1>2, <2>1, <2>2 DEF Settle
<1>5. CASE ~(i > Len(Selectors)) /\ Values(h, Selectors[i]) = {}
  BY <1>1, <1>2, <1>5 DEF TrySelector
<1>6. CASE ~(i > Len(Selectors)) /\ Values(h, Selectors[i]) # {}
  <2>1. PICK v \in Values(h, Selectors[i]) : Settle(h, v)
    BY <1>6 DEF TrySelector
  <2>2. h \in queue \/ Current(h, v)
    BY <1>2, <1>3, <1>6, <2>1, ReadIsCurrent
  <2>3. <<h, Selectors[i]>> \in Keys
    BY <1>2, <1>6, PathsAssumption DEF Keys
  <2>4. v \in VirtualNames
    BY <2>1, <2>3 DEF Values, TypeOK, Entries
  <2> QED BY <1>1, <1>2, <2>1, <2>2, <2>4 DEF Settle
<1> QED BY <1>4, <1>5, <1>6

\* The wakeup invariant holds initially.
LEMMA WakeupInit == Init => WakeupInv
BY DEF Init, WakeupInv, Reading, NoLostWakeup

\* The wakeup invariant is inductive.
LEMMA WakeupStep == TypeOK /\ CacheInv /\ WakeupInv /\ [Next]_vars => WakeupInv'
<1> SUFFICES ASSUME TypeOK, CacheInv, WakeupInv, [Next]_vars PROVE WakeupInv'
  OBVIOUS
<1> USE DEF WakeupInv
<1>0. Len(Selectors) \in Nat /\ DOMAIN Selectors = 1 .. Len(Selectors)
  BY PathsAssumption
<1>1. CASE CacheStep
  <2>1. /\ UNCHANGED <<hooked, active, seen>>
        /\ queue \subseteq queue'
        /\ hooked => \A h \in HostNames, i \in DOMAIN Selectors :
              h \in queue' \/ Values(h, Selectors[i])' = Values(h, Selectors[i])
    BY <1>1, CacheStepWakes
  <2>2. Reading'
    <3>1. CASE active = <<>>
      BY <2>1, <3>1 DEF Reading
    <3>2. CASE active # <<>>
      <4>1. hooked /\ active[1] \in HostNames /\ active[2] \in 1 .. Len(Selectors) + 1
        BY <3>2 DEF Reading, TypeOK
      <4>2. \A j \in 1 .. active[2] - 1 : j \in DOMAIN Selectors
        BY <1>0, <4>1
      <4>3. \A j \in 1 .. active[2] - 1 :
              active[1] \in queue' \/ Values(active[1], Selectors[j])' = {}
        BY <2>1, <3>2, <4>1, <4>2 DEF Reading
      <4> QED BY <2>1, <4>1, <4>3 DEF Reading, Values
    <3> QED BY <3>1, <3>2
  <2>3. NoLostWakeup'
    <3> SUFFICES ASSUME hooked, NEW h \in HostNames, h \notin queue', ~Busy(h)
                 PROVE  Current(h, seen[h])'
      BY <2>1 DEF NoLostWakeup, Busy
    <3>1. Current(h, seen[h])
      BY <2>1 DEF NoLostWakeup
    <3>2. \A i \in DOMAIN Selectors : Values(h, Selectors[i])' = Values(h, Selectors[i])
      BY <2>1
    <3>3. Current(h, seen[h])' <=> Current(h, seen[h])
      BY <2>1, <3>2, CurrentStable DEF Current
    <3> QED BY <3>1, <3>3
  <2> QED BY <2>2, <2>3
<1>2. CASE Start
  BY <1>2 DEF Start, Reading, NoLostWakeup
<1>3. CASE TrySelector
  <2> DEFINE h == active[1]  i == active[2]
  <2>1. /\ active # <<>> /\ h \in HostNames /\ hooked
        /\ UNCHANGED <<objects, indices, queue, hooked>>
    BY <1>3, TryCases
  <2>2. \A g \in HostNames : \A v : Current(g, v)' <=> Current(g, v)
    BY <2>1 DEF Current, Values
  <2>3. CASE /\ active' = <<h, i + 1>>
             /\ seen' = seen
             /\ Values(h, Selectors[i]) = {}
    <3>1. i \in Nat
      BY <2>1 DEF TypeOK
    <3>2. \A j \in 1 .. (i + 1) - 1 : j \in 1 .. i - 1 \/ j = i
      BY <3>1
    <3>3. Reading'
      BY <2>1, <2>3, <3>2 DEF Reading, Values
    <3>4. NoLostWakeup'
      BY <2>1, <2>2, <2>3 DEF NoLostWakeup, Busy
    <3> QED BY <3>3, <3>4
  <2>4. CASE \E v \in VirtualNames \cup {NoName} :
               /\ h \in queue \/ Current(h, v)
               /\ active' = <<>>
               /\ seen' = [seen EXCEPT ![h] = v]
    <3>1. PICK v : /\ h \in queue \/ Current(h, v)
                   /\ active' = <<>>
                   /\ seen' = [seen EXCEPT ![h] = v]
      BY <2>4
    <3>2. Reading'
      BY <2>1, <3>1 DEF Reading
    <3>3. NoLostWakeup'
      <4>0. \A g \in HostNames : Current(g, seen[g])' <=> Current(g, seen'[g])
        BY <2>1 DEF Current, Values
      <4> SUFFICES ASSUME NEW g \in HostNames, g \notin queue PROVE Current(g, seen'[g])
        BY <2>1, <4>0 DEF NoLostWakeup
      <4>1. CASE g = h
        BY <3>1, <4>1 DEF TypeOK
      <4>2. CASE g # h
        BY <2>1, <3>1, <4>2 DEF TypeOK, NoLostWakeup, Busy
      <4> QED BY <4>1, <4>2
    <3> QED BY <3>2, <3>3
  <2> QED BY <1>3, <2>3, <2>4, TryCases
<1>4. ASSUME NEW h \in HostNames, Take(h) PROVE WakeupInv'
  <2>1. Reading'
    BY <1>4 DEF Take, Reading
  <2>2. \A g \in HostNames : Current(g, seen[g])' <=> Current(g, seen[g])
    BY <1>4 DEF Take, Current, Values
  <2>3. NoLostWakeup'
    BY <1>4, <2>2 DEF Take, NoLostWakeup, Busy
  <2> QED BY <2>1, <2>3
<1> QED BY <1>1, <1>2, <1>3, <1>4, StepCases

\* The conjunction of the three layers.
Inv == TypeOK /\ CacheInv /\ WakeupInv

\* The inductive invariant holds throughout.
LEMMA Invariance == Spec => []Inv
<1>1. Init => Inv
  BY InitTyped, CacheInvInit, WakeupInit DEF Inv
<1>2. Inv /\ [Next]_vars => Inv'
  BY StepTyped, CacheInvStep, WakeupStep DEF Inv
<1> QED BY <1>1, <1>2, PTL DEF Spec

\* For every configuration of handlers, patches and selectors, the change hooks
\* lose no wakeup.
THEOREM WakeupsAreNotLost == Spec => []NoLostWakeup
<1>1. Inv => NoLostWakeup
  BY DEF Inv, WakeupInv
<1> QED BY <1>1, Invariance, PTL

-----------------------------------------------------------------------------
(***************************************************************************)
(* Refinement.                                                             *)
(***************************************************************************)
\* The answers the resolver sees.
answersBar == [h \in HostNames |-> {v \in VirtualNames \cup {NoName} : Current(h, v)}]
activeBar == IF active = <<>> THEN {} ELSE {active[1]}

\* The empty cache answers every host name with no name.
LEMMA RefinementInit == Init => Resolver!Init
<1> SUFFICES ASSUME Init PROVE Resolver!Init
  OBVIOUS
<1>1. \A h \in HostNames, i \in DOMAIN Selectors : Values(h, Selectors[i]) = {}
  BY PathsAssumption DEF Init, Values, Keys
<1>2. \A h \in HostNames : \A v : Current(h, v) <=> v = NoName
  BY <1>1 DEF Current
<1>3. answersBar = [h \in HostNames |-> {NoName}]
  BY <1>2 DEF answersBar
<1> QED BY <1>3 DEF Init, Resolver!Init, answersBar

\* Every step is a step of the resolver or leaves it unchanged.
LEMMA RefinementStep == Inv /\ Inv' /\ [Next]_vars => [Resolver!Next]_(Resolver!vars)
<1> SUFFICES ASSUME Inv, Inv', [Next]_vars PROVE [Resolver!Next]_(Resolver!vars)
  OBVIOUS
<1> USE DEF Inv, WakeupInv
<1>1. CASE CacheStep
  <2>1. /\ UNCHANGED <<hooked, active, seen>>
        /\ queue \subseteq queue'
        /\ hooked => \A h \in HostNames, i \in DOMAIN Selectors :
              h \in queue' \/ Values(h, Selectors[i])' = Values(h, Selectors[i])
    BY <1>1, CacheStepWakes
  <2>2. answersBar' \in [HostNames -> SUBSET (VirtualNames \cup {NoName})]
    BY DEF answersBar
  <2>3. ASSUME hooked, NEW h \in HostNames, answersBar'[h] # answersBar[h] PROVE h \in queue'
    <3> SUFFICES ASSUME h \notin queue' PROVE FALSE
      OBVIOUS
    <3>1. \A i \in DOMAIN Selectors : Values(h, Selectors[i])' = Values(h, Selectors[i])
      BY <2>1, <2>3
    <3>2. \A v : Current(h, v)' <=> Current(h, v)
      BY <3>1, CurrentStable
    <3> QED BY <2>3, <3>2 DEF answersBar
  <2>4. queue' \subseteq HostNames
    BY DEF TypeOK
  <2>5. activeBar' = activeBar
    BY <2>1 DEF activeBar
  <2>6. Resolver!Change
    BY <2>1, <2>2, <2>3, <2>4, <2>5 DEF Resolver!Change, Resolver!Changed, answersBar, activeBar
  <2> QED BY <2>6 DEF Resolver!Next
<1>2. ASSUME UNCHANGED indices PROVE answersBar' = answersBar
  BY <1>2 DEF answersBar, Current, Values
<1>3. CASE Start
  <2>1. Resolver!Register
    BY <1>2, <1>3 DEF Start, Resolver!Register, answersBar
  <2> QED BY <2>1 DEF Resolver!Next
<1>4. CASE TrySelector
  <2> DEFINE h == active[1]
  <2>1. /\ active # <<>> /\ h \in HostNames
        /\ UNCHANGED <<objects, indices, queue, hooked>>
    BY <1>4, TryCases
  <2>2. answersBar' = answersBar
    BY <1>2, <2>1
  <2>3. CASE active' = <<h, active[2] + 1>> /\ seen' = seen
    BY <2>1, <2>2, <2>3 DEF Resolver!vars, answersBar
  <2>4. ASSUME NEW v \in VirtualNames \cup {NoName},
               h \in queue \/ Current(h, v), active' = <<>>, seen' = [seen EXCEPT ![h] = v]
        PROVE  Resolver!Finish(h)
    <3>1. v \in answersBar[h] \/ h \in queue
      BY <2>1, <2>4 DEF answersBar
    <3>2. activeBar = {h} /\ activeBar' = {}
      BY <2>1, <2>4 DEF activeBar
    <3> QED BY <2>1, <2>2, <2>4, <3>1, <3>2 DEF Resolver!Finish, answersBar, activeBar
  <2> QED BY <1>4, <2>1, <2>3, <2>4, TryCases DEF Resolver!Next
<1>5. ASSUME NEW h \in HostNames, Take(h) PROVE Resolver!Take(h)
  <2>1. activeBar = {} /\ activeBar' = {h}
    BY <1>5 DEF Take, activeBar
  <2> QED BY <1>2, <1>5, <2>1 DEF Take, Resolver!Take, answersBar, activeBar
<1> QED BY <1>1, <1>3, <1>4, <1>5, StepCases DEF Resolver!Next

\* For every configuration, the name cache with its hooks implements the
\* abstract resolver.
THEOREM CacheImplementsResolver == Spec => ImplementsResolver
<1> QED BY Invariance, RefinementInit, RefinementStep, PTL DEF Spec, ImplementsResolver, Resolver!Spec
=============================================================================
