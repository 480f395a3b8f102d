------------------------ MODULE NameCacheNamesProofs ------------------------
(***************************************************************************)
(* What the name cache holds about an object once its handlers have caught *)
(* up with it, for any number of handlers that share the kind: no name the *)
(* object does not have, and every name it has if the handlers are alike.  *)
(* While notifications are on their way the cache may hold anything an     *)
(* earlier one said, so the invariant is about the last notification: it   *)
(* says what the object is now, and it is the same for every handler.      *)
(***************************************************************************)
EXTENDS NameCacheProofs

About(s, o) == \E i \in DOMAIN s : s[i].name = o

\* s[i] is the last of the notifications s that is about o.
LastAbout(s, i, o) ==
  /\ i \in DOMAIN s /\ s[i].name = o
  /\ \A j \in DOMAIN s : j > i => s[j].name # o

LastIsCurrent ==
  \A o \in Objects, c \in Handlers : \A i \in DOMAIN inbox[c] : LastAbout(inbox[c], i, o) =>
     /\ inbox[c][i].content = store[o]
     /\ \A d \in Handlers : \A j \in DOMAIN inbox[d] :
           LastAbout(inbox[d], j, o) => inbox[d][j] = inbox[c][i]

Compiling == Handlers \ Uncompilable

\* The mapping of o is one a handler makes of the object as it is.
UpToDate(o) ==
  store[o] # Absent /\ \E c \in Compiling : objects[o] \in mappingsFromVirtualObject(c, o, store[o])

\* The object is gone, the cache was not told, and `lost` says so or will.
Missed(o) ==
  /\ store[o] = Absent
  /\ \A c \in Handlers : \A i \in DOMAIN inbox[c] :
        LastAbout(inbox[c], i, o) => inbox[c][i].type = "tombstone"
  /\ o \in lost \/ \E c \in Handlers : About(inbox[c], o)

\* Once the handlers that change the cache have caught up with o.
Faithful(o) ==
  (\A c \in Compiling : ~About(inbox[c], o)) => objects[o] = NoMapping \/ UpToDate(o) \/ Missed(o)

\* Handlers whose patches do not compile add nothing.
NothingFromNowhere == Compiling = {} => \A o \in Objects : objects[o] = NoMapping

NamesInv == LastIsCurrent /\ NothingFromNowhere /\ \A o \in Objects : Faithful(o)

-----------------------------------------------------------------------------
(***************************************************************************)
(* Notifications come in at the end of an inbox and leave at its head.     *)
(***************************************************************************)
\* A notification that comes in is the last about its object.
LEMMA AppendAbout ==
  ASSUME NEW s \in Seq(Notifications), NEW n \in Notifications, NEW o
  PROVE  LET t == Append(s, n)
         IN  /\ n.name = o => About(t, o)
             /\ \A i \in DOMAIN t : LastAbout(t, i, o) =>
                   IF n.name = o THEN t[i] = n ELSE i \in DOMAIN s /\ LastAbout(s, i, o) /\ t[i] = s[i]
             /\ n.name # o => (About(t, o) <=> About(s, o))
<1> DEFINE t == Append(s, n)
<1>1. /\ Len(s) \in Nat /\ DOMAIN s = 1 .. Len(s) /\ DOMAIN t = 1 .. Len(s) + 1
      /\ t[Len(s) + 1] = n /\ \A i \in 1 .. Len(s) : t[i] = s[i]
  OBVIOUS
<1> HIDE DEF t
<1>2. n.name = o => About(t, o)
  BY <1>1 DEF About
<1>3. ASSUME NEW i \in DOMAIN t, LastAbout(t, i, o)
      PROVE  IF n.name = o THEN t[i] = n ELSE i \in DOMAIN s /\ LastAbout(s, i, o) /\ t[i] = s[i]
  <2>1. CASE n.name = o
    <3>1. i = Len(s) + 1
      BY <1>1, <1>3, <2>1 DEF LastAbout
    <3> QED BY <1>1, <2>1, <3>1
  <2>2. CASE n.name # o
    <3>1. i \in 1 .. Len(s)
      BY <1>1, <1>3, <2>2 DEF LastAbout
    <3> QED BY <1>1, <1>3, <2>2, <3>1 DEF LastAbout
  <2> QED BY <2>1, <2>2
<1>4. n.name # o => (About(t, o) <=> About(s, o))
  BY <1>1 DEF About
<1> QED BY <1>2, <1>3, <1>4 DEF t

\* A notification that leaves takes nothing from what comes after it.
LEMMA TailAbout ==
  ASSUME NEW s \in Seq(Notifications), s # <<>>, NEW o
  PROVE  LET t == Tail(s)
         IN  /\ \A i \in DOMAIN t : LastAbout(t, i, o) =>
                   i + 1 \in DOMAIN s /\ LastAbout(s, i + 1, o) /\ t[i] = s[i + 1]
             /\ Head(s).name = o /\ ~About(t, o) => 1 \in DOMAIN s /\ s[1] = Head(s) /\ LastAbout(s, 1, o)
             /\ Head(s).name # o => (About(t, o) <=> About(s, o))
             /\ About(t, o) => About(s, o)
<1> DEFINE t == Tail(s)
<1>1. /\ Len(s) \in Nat /\ Len(s) > 0 /\ DOMAIN s = 1 .. Len(s) /\ DOMAIN t = 1 .. Len(s) - 1
      /\ Head(s) = s[1] /\ \A i \in 1 .. Len(s) - 1 : t[i] = s[i + 1]
  OBVIOUS
<1> HIDE DEF t
<1>2. \A j \in 1 .. Len(s) : j = 1 \/ (j - 1 \in DOMAIN t /\ t[j - 1] = s[j])
  BY <1>1
<1>3. ASSUME NEW i \in DOMAIN t, LastAbout(t, i, o)
      PROVE  i + 1 \in DOMAIN s /\ LastAbout(s, i + 1, o) /\ t[i] = s[i + 1]
  <2>1. i + 1 \in DOMAIN s /\ t[i] = s[i + 1] /\ s[i + 1].name = o
    BY <1>1, <1>3 DEF LastAbout
  <2>2. ASSUME NEW j \in DOMAIN s, j > i + 1 PROVE s[j].name # o
    <3>1. j - 1 \in DOMAIN t /\ t[j - 1] = s[j] /\ j - 1 > i
      BY <1>1, <1>2, <2>2
    <3> QED BY <1>3, <3>1 DEF LastAbout
  <2> QED BY <2>1, <2>2 DEF LastAbout
<1>4. ASSUME Head(s).name = o, ~About(t, o)
      PROVE  1 \in DOMAIN s /\ s[1] = Head(s) /\ LastAbout(s, 1, o)
  <2>1. \A j \in DOMAIN s : j > 1 => s[j].name # o
    BY <1>1, <1>2, <1>4 DEF About
  <2> QED BY <1>1, <1>4, <2>1 DEF LastAbout
<1>5. About(t, o) => About(s, o)
  BY <1>1 DEF About
<1>6. Head(s).name # o /\ About(s, o) => About(t, o)
  BY <1>1, <1>2 DEF About
<1> QED BY <1>3, <1>4, <1>5, <1>6 DEF t

-----------------------------------------------------------------------------
(***************************************************************************)
(* Steps.                                                                  *)
(***************************************************************************)
\* What handler c does with notification n.
Handled(c, n) ==
  /\ \A o \in Objects : o # n.name => objects'[o] = objects[o] /\ (o \in lost' <=> o \in lost)
  /\ \/ /\ n.type \in {"add", "update"} /\ n.name \notin lost'
        /\ IF c \in Uncompilable THEN objects'[n.name] = objects[n.name]
           ELSE objects'[n.name] \in mappingsFromVirtualObject(c, n.name, n.content)
     \/ n.type = "delete" /\ objects'[n.name] = NoMapping
     \/ n.type = "tombstone" /\ objects'[n.name] = objects[n.name] /\ n.name \in lost'

Popped(c) ==
  /\ inbox[c] # <<>> /\ inbox' = [inbox EXCEPT ![c] = Tail(@)] /\ store' = store
  /\ Head(inbox[c]) \in Notifications
  /\ Handled(c, Head(inbox[c]))

\* A step changes an object and tells every handler, or hands one notification
\* to a handler, or is none of the cache's.
LEMMA NameStepCases ==
  ASSUME TypeOK, [Next]_vars
  PROVE  \/ \E n \in Notifications :
              /\ store' = [store EXCEPT ![n.name] = n.content]
              /\ inbox' = [c \in Handlers |-> Append(inbox[c], n)]
              /\ UNCHANGED <<objects, lost>>
         \/ \E c \in Handlers : Popped(c)
         \/ UNCHANGED <<store, inbox, objects, lost>>
<1> DEFINE Changed == \E n \in Notifications :
                        /\ store' = [store EXCEPT ![n.name] = n.content]
                        /\ inbox' = [c \in Handlers |-> Append(inbox[c], n)]
                        /\ UNCHANGED <<objects, lost>>
<1>1. ASSUME NEW type, NEW o, NEW content, ChangeObject(type, o, content),
             [type |-> type, name |-> o, content |-> content] \in Notifications
      PROVE  Changed
  <2> DEFINE n == [type |-> type, name |-> o, content |-> content]
  <2>1. store' = [store EXCEPT ![n.name] = n.content]
    BY <1>1 DEF ChangeObject
  <2>2. inbox' = [c \in Handlers |-> Append(inbox[c], n)]
    BY <1>1 DEF ChangeObject, Notify
  <2>3. UNCHANGED <<objects, lost>> /\ n \in Notifications
    BY <1>1 DEF ChangeObject, cache
  <2> HIDE DEF n
  <2> QED BY <2>1, <2>2, <2>3
<1>2. ASSUME NEW o \in Objects, CreateObject(o) \/ UpdateObject(o) \/ DeleteObject(o) PROVE Changed
  <2>1. CASE CreateObject(o) \/ UpdateObject(o)
    <3>1. PICK type \in {"add", "update"}, content \in Contents : ChangeObject(type, o, content)
      BY <2>1 DEF CreateObject, UpdateObject
    <3>2. [type |-> type, name |-> o, content |-> content] \in Notifications
      BY <3>1 DEF Notifications
    <3> HIDE DEF Changed
    <3> QED BY <1>1, <3>1, <3>2
  <2>2. CASE DeleteObject(o)
    <3>1. PICK type \in {"delete", "tombstone"} : ChangeObject(type, o, Absent)
      BY <2>2 DEF DeleteObject
    <3>2. [type |-> type, name |-> o, content |-> Absent] \in Notifications
      BY <3>1 DEF Notifications
    <3> HIDE DEF Changed
    <3> QED BY <1>1, <3>1, <3>2
  <2> QED BY <1>2, <2>1, <2>2
<1>3. ASSUME NEW c \in Handlers, OnAddOrUpdate(c) \/ OnDelete(c) \/ OnDeleteUnknown(c)
      PROVE  Popped(c)
  <2> DEFINE n == Head(inbox[c])
  <2>1. PICK types : Receive(c, types)
    BY <1>3 DEF OnAddOrUpdate, OnDelete, OnDeleteUnknown
  <2>2. n \in Notifications /\ n.name \in Objects
    BY <2>1, ReceiveTyped DEF Notifications
  <2>3. inbox[c] # <<>> /\ inbox' = [inbox EXCEPT ![c] = Tail(@)] /\ store' = store
    BY <2>1 DEF Receive
  <2>4. objects \in [Objects -> Mappings \cup {NoMapping}]
    BY DEF TypeOK
  <2>5. CASE OnAddOrUpdate(c)
    <3>1. n.type \in {"add", "update"} /\ lost' = lost \ {n.name}
      BY <2>5 DEF OnAddOrUpdate, Receive
    <3>2. CASE c \in Uncompilable
      <4>1. objects' = objects
        BY <2>5, <3>2 DEF OnAddOrUpdate, cache
      <4> QED BY <2>2, <2>3, <3>1, <3>2, <4>1 DEF Popped, Handled
    <3>3. CASE c \notin Uncompilable
      <4>1. PICK m \in mappingsFromVirtualObject(c, n.name, n.content) : ExchangeMapping(n.name, m)
        BY <2>5, <3>3 DEF OnAddOrUpdate
      <4>2. objects' = [objects EXCEPT ![n.name] = m]
        BY <2>2, <2>4, <4>1 DEF ExchangeMapping, cache
      <4>3. objects'[n.name] = m /\ \A o \in Objects : o # n.name => objects'[o] = objects[o]
        BY <2>2, <2>4, <4>2
      <4> QED BY <2>2, <2>3, <3>1, <3>3, <4>1, <4>3 DEF Popped, Handled
    <3> QED BY <3>2, <3>3
  <2>6. CASE OnDelete(c)
    BY <2>2, <2>3, <2>4, <2>6 DEF OnDelete, RemoveMapping, Receive, Popped, Handled
  <2>7. CASE OnDeleteUnknown(c)
    BY <2>2, <2>3, <2>7 DEF OnDeleteUnknown, Receive, cache, Popped, Handled
  <2> QED BY <1>3, <2>5, <2>6, <2>7
<1>4. CASE Start \/ TrySelector \/ UNCHANGED vars \/ \E h \in HostNames : HostEvent(h) \/ Take(h)
  BY <1>4 DEF Start, TrySelector, HostEvent, Take, vars
<1> QED BY <1>2, <1>3, <1>4 DEF Next

\* An object changed: its notification is now the last for every handler.
LEMMA ChangeIsAnnounced ==
  ASSUME TypeOK, NamesInv, NEW n \in Notifications,
         store' = [store EXCEPT ![n.name] = n.content],
         inbox' = [c \in Handlers |-> Append(inbox[c], n)],
         UNCHANGED <<objects, lost>>
  PROVE  NamesInv'
<1>1. /\ n.name \in Objects /\ store \in [Objects -> Contents \cup {Absent}]
      /\ \A c \in Handlers : inbox[c] \in Seq(Notifications) /\ inbox'[c] = Append(inbox[c], n)
  BY DEF TypeOK, Notifications
<1>2. store'[n.name] = n.content /\ \A o \in Objects : o # n.name => store'[o] = store[o]
  BY <1>1
<1>3. ASSUME NEW o \in Objects, NEW c \in Handlers, NEW i \in DOMAIN inbox'[c], LastAbout(inbox'[c], i, o)
      PROVE  IF n.name = o THEN inbox'[c][i] = n
             ELSE i \in DOMAIN inbox[c] /\ LastAbout(inbox[c], i, o) /\ inbox'[c][i] = inbox[c][i]
  <2> DEFINE t == Append(inbox[c], n)
  <2>1. t = inbox'[c] /\ inbox[c] \in Seq(Notifications)
    BY <1>1
  <2>2. LastAbout(t, i, o) /\ i \in DOMAIN t
    BY <1>3, <2>1
  <2>3. IF n.name = o THEN t[i] = n
        ELSE i \in DOMAIN inbox[c] /\ LastAbout(inbox[c], i, o) /\ t[i] = inbox[c][i]
    <3>1. \A j \in DOMAIN t : LastAbout(t, j, o) =>
            IF n.name = o THEN t[j] = n ELSE j \in DOMAIN inbox[c] /\ LastAbout(inbox[c], j, o) /\ t[j] = inbox[c][j]
      BY <2>1, AppendAbout, Zenon
    <3> HIDE DEF t
    <3> QED BY <2>2, <3>1
  <2> QED BY <2>1, <2>3
<1>4. \A o \in Objects, c \in Handlers : /\ n.name = o => About(inbox'[c], o)
                                         /\ n.name # o => (About(inbox'[c], o) <=> About(inbox[c], o))
  BY <1>1, AppendAbout
<1>5. LastIsCurrent'
  <2> SUFFICES ASSUME NEW o \in Objects, NEW c \in Handlers, NEW i \in DOMAIN inbox'[c],
                      LastAbout(inbox'[c], i, o)
               PROVE  /\ inbox'[c][i].content = store'[o]
                      /\ \A d \in Handlers : \A j \in DOMAIN inbox'[d] :
                            LastAbout(inbox'[d], j, o) => inbox'[d][j] = inbox'[c][i]
    BY DEF LastIsCurrent, LastAbout
  <2>1. CASE n.name = o
    BY <1>2, <1>3, <2>1
  <2>2. CASE n.name # o
    BY <1>2, <1>3, <2>2 DEF NamesInv, LastIsCurrent
  <2> QED BY <2>1, <2>2
<1>6. NothingFromNowhere'
  BY DEF NamesInv, NothingFromNowhere
<1>7. ASSUME NEW o \in Objects PROVE Faithful(o)'
  <2>1. CASE n.name = o
    <3>1. CASE Compiling = {}
      BY <3>1 DEF NamesInv, NothingFromNowhere, Faithful
    <3>2. CASE Compiling # {}
      BY <1>4, <2>1, <3>2 DEF Faithful, Compiling
    <3> QED BY <3>1, <3>2
  <2>2. CASE n.name # o
    <3>1. SUFFICES ASSUME \A c \in Compiling : ~About(inbox'[c], o), objects[o] # NoMapping
                   PROVE  UpToDate(o)' \/ Missed(o)'
      BY DEF Faithful, About
    <3>2. UpToDate(o) \/ Missed(o)
      BY <1>4, <2>2, <3>1 DEF NamesInv, Faithful, Compiling
    <3>3. CASE UpToDate(o)
      BY <1>2, <2>2, <3>3 DEF UpToDate
    <3>4. CASE Missed(o)
      BY <1>2, <1>3, <1>4, <2>2, <3>4 DEF Missed, LastAbout, About
    <3> QED BY <3>2, <3>3, <3>4
  <2> QED BY <2>1, <2>2
<1> QED BY <1>5, <1>6, <1>7 DEF NamesInv

\* What is left of the inboxes when handler c was handed its first notification.
LEMMA PoppedInboxes ==
  ASSUME TypeOK, NEW c \in Handlers, Popped(c)
  PROVE  LET n == Head(inbox[c])
         IN  /\ \A o \in Objects, d \in Handlers : \A i \in DOMAIN inbox'[d] : LastAbout(inbox'[d], i, o) =>
                   \E j \in DOMAIN inbox[d] : LastAbout(inbox[d], j, o) /\ inbox'[d][i] = inbox[d][j]
             /\ \A o \in Objects : n.name = o /\ ~About(inbox'[c], o) =>
                   \E j \in DOMAIN inbox[c] : LastAbout(inbox[c], j, o) /\ inbox[c][j] = n
             /\ \A o \in Objects, d \in Handlers : n.name # o \/ d # c =>
                   (About(inbox'[d], o) <=> About(inbox[d], o))
<1> DEFINE n == Head(inbox[c])
           s == inbox[c]
           t == Tail(s)
<1>1. s \in Seq(Notifications) /\ s # <<>> /\ inbox'[c] = t /\ \A d \in Handlers : d # c => inbox'[d] = inbox[d]
  BY DEF TypeOK, Popped
<1>2. ASSUME NEW o \in Objects, NEW d \in Handlers, NEW i \in DOMAIN inbox'[d], LastAbout(inbox'[d], i, o)
      PROVE  \E j \in DOMAIN inbox[d] : LastAbout(inbox[d], j, o) /\ inbox'[d][i] = inbox[d][j]
  <2>1. CASE d = c
    <3>1. i \in DOMAIN t /\ LastAbout(t, i, o)
      BY <1>1, <1>2, <2>1
    <3>2. i + 1 \in DOMAIN s /\ LastAbout(s, i + 1, o) /\ t[i] = s[i + 1]
      BY <1>1, <3>1, TailAbout
    <3> QED BY <1>1, <2>1, <3>2
  <2>2. CASE d # c
    BY <1>1, <1>2, <2>2
  <2> QED BY <2>1, <2>2
<1>3. ASSUME NEW o \in Objects, n.name = o, ~About(inbox'[c], o)
      PROVE  \E j \in DOMAIN inbox[c] : LastAbout(inbox[c], j, o) /\ inbox[c][j] = n
  <2>1. ~About(t, o)
    BY <1>1, <1>3
  <2>2. 1 \in DOMAIN s /\ s[1] = Head(s) /\ LastAbout(s, 1, o)
    BY <1>1, <1>3, <2>1, TailAbout
  <2> QED BY <2>2
<1>4. ASSUME NEW o \in Objects, NEW d \in Handlers, n.name # o \/ d # c
      PROVE  About(inbox'[d], o) <=> About(inbox[d], o)
  <2>1. CASE d # c
    BY <1>1, <2>1
  <2>2. CASE d = c
    <3>1. About(t, o) <=> About(s, o)
      BY <1>1, <1>4, <2>2, TailAbout
    <3> QED BY <1>1, <2>2, <3>1
  <2> QED BY <2>1, <2>2
<1> QED BY <1>2, <1>3, <1>4

\* A handler was handed a notification.
LEMMA HandledIsFaithful ==
  ASSUME TypeOK, NamesInv, NEW c \in Handlers, Popped(c)
  PROVE  NamesInv'
<1> DEFINE n == Head(inbox[c])
<1>1. Handled(c, n) /\ n \in Notifications /\ n.name \in Objects /\ store' = store
  BY DEF Popped, Notifications
<1>2. ASSUME NEW o \in Objects, NEW d \in Handlers, NEW i \in DOMAIN inbox'[d], LastAbout(inbox'[d], i, o)
      PROVE  \E j \in DOMAIN inbox[d] : LastAbout(inbox[d], j, o) /\ inbox'[d][i] = inbox[d][j]
  BY <1>2, PoppedInboxes
<1>3. ASSUME ~About(inbox'[c], n.name)
      PROVE  \E j \in DOMAIN inbox[c] : LastAbout(inbox[c], j, n.name) /\ inbox[c][j] = n
  BY <1>1, <1>3, PoppedInboxes
<1>4. ASSUME NEW o \in Objects, NEW d \in Handlers, n.name # o \/ d # c
      PROVE  About(inbox'[d], o) <=> About(inbox[d], o)
  BY <1>4, PoppedInboxes
<1>5. LastIsCurrent'
  <2> SUFFICES ASSUME NEW o \in Objects, NEW d \in Handlers, NEW i \in DOMAIN inbox'[d],
                      LastAbout(inbox'[d], i, o)
               PROVE  /\ inbox'[d][i].content = store'[o]
                      /\ \A e \in Handlers : \A j \in DOMAIN inbox'[e] :
                            LastAbout(inbox'[e], j, o) => inbox'[e][j] = inbox'[d][i]
    BY DEF LastIsCurrent, LastAbout
  <2>1. PICK k \in DOMAIN inbox[d] : LastAbout(inbox[d], k, o) /\ inbox'[d][i] = inbox[d][k]
    BY <1>2
  <2>2. inbox'[d][i].content = store'[o]
    BY <1>1, <2>1 DEF NamesInv, LastIsCurrent
  <2>3. ASSUME NEW e \in Handlers, NEW j \in DOMAIN inbox'[e], LastAbout(inbox'[e], j, o)
        PROVE  inbox'[e][j] = inbox'[d][i]
    <3>1. PICK l \in DOMAIN inbox[e] : LastAbout(inbox[e], l, o) /\ inbox'[e][j] = inbox[e][l]
      BY <1>2, <2>3
    <3> QED BY <2>1, <3>1 DEF NamesInv, LastIsCurrent
  <2> QED BY <2>2, <2>3
<1>6. NothingFromNowhere'
  <2> SUFFICES ASSUME Compiling = {}, NEW o \in Objects PROVE objects'[o] = NoMapping
    BY DEF NothingFromNowhere, Compiling
  <2>1. c \in Uncompilable /\ objects[o] = NoMapping
    BY DEF Compiling, NamesInv, NothingFromNowhere
  <2> QED BY <1>1, <2>1 DEF Handled
<1>7. ASSUME NEW o \in Objects PROVE Faithful(o)'
  <2>1. SUFFICES ASSUME \A d \in Compiling : ~About(inbox'[d], o), objects'[o] # NoMapping
                 PROVE  UpToDate(o)' \/ Missed(o)'
    BY DEF Faithful, About, Compiling
  <2>2. objects'[o] = objects[o] /\ UpToDate(o) => UpToDate(o)'
    BY <1>1 DEF UpToDate
  <2>3. /\ Missed(o) /\ (o \in lost' \/ \E d \in Handlers : About(inbox'[d], o)) => Missed(o)'
    <3>1. SUFFICES ASSUME Missed(o), o \in lost' \/ \E d \in Handlers : About(inbox'[d], o)
                   PROVE  Missed(o)'
      OBVIOUS
    <3>2. \A d \in Handlers : \A i \in DOMAIN inbox'[d] :
            LastAbout(inbox'[d], i, o) => inbox'[d][i].type = "tombstone"
      BY <1>2, <3>1 DEF Missed
    <3> QED BY <1>1, <3>1, <3>2 DEF Missed, LastAbout, About
  <2>4. CASE o # n.name
    <3>1. objects'[o] = objects[o] /\ (o \in lost' <=> o \in lost)
      BY <1>1, <2>4 DEF Handled
    <3>2. UpToDate(o) \/ Missed(o)
      BY <1>4, <2>1, <2>4, <3>1 DEF NamesInv, Faithful, Compiling
    <3>3. Missed(o) => (o \in lost' \/ \E d \in Handlers : About(inbox'[d], o))
      BY <1>4, <2>4, <3>1 DEF Missed
    <3> QED BY <2>2, <2>3, <3>1, <3>2, <3>3
  <2>5. CASE o = n.name /\ c \in Compiling
    <3>1. PICK j \in DOMAIN inbox[c] : LastAbout(inbox[c], j, o) /\ inbox[c][j] = n
      BY <1>3, <2>1, <2>5
    <3>2. /\ n.content = store[o]
          /\ \A d \in Handlers : \A i \in DOMAIN inbox[d] : LastAbout(inbox[d], i, o) => inbox[d][i] = n
      BY <3>1 DEF NamesInv, LastIsCurrent
    <3>3. CASE n.type \in {"add", "update"}
      <4>1. n.content # Absent
        BY <1>1, <3>3, ContentsAssumption DEF Notifications
      <4>2. objects'[o] \in mappingsFromVirtualObject(c, o, store[o])
        BY <1>1, <2>5, <3>2, <3>3 DEF Handled, Compiling
      <4> QED BY <1>1, <2>5, <3>2, <4>1, <4>2 DEF UpToDate
    <3>4. CASE n.type = "tombstone"
      <4>1. n.content = Absent
        BY <1>1, <3>4 DEF Notifications
      <4>2. o \in lost'
        BY <1>1, <2>5, <3>4 DEF Handled
      <4>3. \A d \in Handlers : \A i \in DOMAIN inbox[d] : LastAbout(inbox[d], i, o) => inbox[d][i].type = "tombstone"
        BY <3>2, <3>4
      <4>4. \A d \in Handlers : \A i \in DOMAIN inbox'[d] : LastAbout(inbox'[d], i, o) => inbox'[d][i].type = "tombstone"
        BY <1>2, <4>3
      <4> QED BY <1>1, <3>2, <4>1, <4>2, <4>4 DEF Missed, LastAbout
    <3>5. n.type # "delete"
      BY <1>1, <2>1, <2>5 DEF Handled
    <3> QED BY <1>1, <3>3, <3>4, <3>5 DEF Notifications
  <2>6. CASE o = n.name /\ c \notin Compiling
    <3>1. \A d \in Compiling : ~About(inbox[d], o)
      BY <1>4, <2>1, <2>6 DEF Compiling
    <3>2. c \in Uncompilable /\ n.type # "delete" /\ objects'[o] = objects[o]
      BY <1>1, <2>1, <2>6 DEF Handled, Compiling
    <3>3. UpToDate(o) \/ Missed(o)
      BY <2>1, <3>1, <3>2 DEF NamesInv, Faithful
    <3>4. Missed(o) => (o \in lost' \/ \E d \in Handlers : About(inbox'[d], o))
      <4>1. CASE n.type = "tombstone"
        BY <1>1, <2>6, <4>1 DEF Handled
      <4>2. CASE n.type # "tombstone"
        BY <1>3, <2>6, <4>2 DEF Missed
      <4> QED BY <4>1, <4>2
    <3> QED BY <2>2, <2>3, <3>2, <3>3, <3>4
  <2> QED BY <2>4, <2>5, <2>6
<1> QED BY <1>5, <1>6, <1>7 DEF NamesInv

-----------------------------------------------------------------------------
(***************************************************************************)
(* The names the cache holds.                                              *)
(***************************************************************************)
\* At first the cache is empty, and every handler is to be told of each object
\* there is, in one and the same order.
LEMMA FirstList ==
  ASSUME Init
  PROVE  /\ \A o \in Objects : objects[o] = NoMapping
         /\ \A c \in Handlers : \A i \in DOMAIN inbox[c] :
               inbox[c][i].content = store[inbox[c][i].name] /\ inbox[c][i].type = "add"
         /\ \A c \in Handlers, o \in Objects : store[o] # Absent => About(inbox[c], o)
<1> DEFINE Live == {o \in Objects : store[o] # Absent}
<1>1. PICK order \in [1 .. Cardinality(Live) -> Live] :
        /\ \A o \in Objects : store[o] # Absent => \E i \in DOMAIN order : order[i] = o
        /\ inbox = [c \in Handlers |->
                      [i \in DOMAIN order |->
                         [type |-> "add", name |-> order[i], content |-> store[order[i]]]]]
  BY DEF Init
<1>2. \A c \in Handlers : /\ DOMAIN inbox[c] = DOMAIN order
                          /\ \A i \in DOMAIN order :
                               inbox[c][i] = [type |-> "add", name |-> order[i], content |-> store[order[i]]]
  <2> HIDE DEF Live
  <2> QED BY <1>1
<1>3. \A o \in Objects : objects[o] = NoMapping
  BY DEF Init
<1> QED BY <1>1, <1>2, <1>3 DEF About

\* The invariant holds at first ...
LEMMA NamesInit == Init => NamesInv
<1> SUFFICES ASSUME Init PROVE NamesInv
  OBVIOUS
<1>1. \A o \in Objects : objects[o] = NoMapping
  BY FirstList
<1>2. TypeOK
  BY InitTyped
<1> DEFINE first(o) == [type |-> "add", name |-> o, content |-> store[o]]
<1>3. ASSUME NEW c \in Handlers, NEW i \in DOMAIN inbox[c], NEW o, inbox[c][i].name = o
      PROVE  inbox[c][i] = first(o)
  <2>1. inbox[c][i] \in Notifications
    BY <1>2 DEF TypeOK
  <2> QED BY <1>3, <2>1, FirstList DEF Notifications
<1>4. LastIsCurrent
  <2>1. \A o : first(o).content = store[o]
    OBVIOUS
  <2> HIDE DEF first
  <2> QED BY <1>3, <2>1 DEF LastIsCurrent, LastAbout
<1> QED BY <1>1, <1>4 DEF NamesInv, NothingFromNowhere, Faithful

\* ... and every step keeps it.
LEMMA NamesNext == TypeOK /\ NamesInv /\ [Next]_vars => NamesInv'
<1> SUFFICES ASSUME TypeOK, NamesInv, [Next]_vars PROVE NamesInv'
  OBVIOUS
<1>1. CASE \E n \in Notifications :
             /\ store' = [store EXCEPT ![n.name] = n.content]
             /\ inbox' = [c \in Handlers |-> Append(inbox[c], n)]
             /\ UNCHANGED <<objects, lost>>
  BY <1>1, ChangeIsAnnounced
<1>2. CASE \E c \in Handlers : Popped(c)
  BY <1>2, HandledIsFaithful
<1>3. CASE UNCHANGED <<store, inbox, objects, lost>>
  <2>1. LastIsCurrent' /\ NothingFromNowhere'
    BY <1>3 DEF NamesInv, LastIsCurrent, LastAbout, NothingFromNowhere, Compiling
  <2>2. ASSUME NEW o \in Objects PROVE Faithful(o)'
    <3>1. Faithful(o)
      BY DEF NamesInv
    <3> QED BY <1>3, <3>1 DEF Faithful, About, UpToDate, Missed, LastAbout, Compiling
  <2> QED BY <2>1, <2>2 DEF NamesInv
<1> QED BY <1>1, <1>2, <1>3, NameStepCases

\* The invariant holds throughout.
LEMMA NamesInvariance == Spec => []NamesInv
<1> QED BY NamesInit, NamesNext, TypeCorrect, PTL DEF Spec

\* What a mapping of the object as it is says is true of it.
LEMMA UpToDateIsJustified ==
  ASSUME TypeOK, IndexExact, NEW k \in Keys, NEW e \in indices[k], UpToDate(e.name)
  PROVE  Justified(k, e)
<1>1. e \in Entries /\ e.name \in Objects /\ e.value \in VirtualNames
  BY DEF TypeOK, Entries
<1>2. e = [name |-> e.name, value |-> e.value]
  BY <1>1 DEF Entries
<1>3. k \in MappedKeys(objects[e.name]) /\ objects[e.name][k] = e.value
  BY <1>1, <1>2 DEF IndexExact
<1>4. PICK c \in Compiling : objects[e.name] \in mappingsFromVirtualObject(c, e.name, store[e.name])
  BY DEF UpToDate
<1>5. store[e.name] # Absent /\ store[e.name] \in Contents /\ c \in Handlers
  BY <1>1, <1>4 DEF UpToDate, TypeOK, Compiling
<1>6. e.value \in Candidates(c, e.name, store[e.name], k)
  BY <1>1, <1>3, <1>4, <1>5, MappingShape DEF MappedKeys
<1> QED BY <1>5, <1>6 DEF Justified

\* For every number of handlers of a kind, in whatever order they are told of
\* its changes: the cache does not answer with a name that an object the
\* handlers have caught up with does not have.
THEOREM NoNameIsStale == Spec => []NoStaleName
<1>1. TypeOK /\ IndexExact /\ NamesInv => NoStaleName
  <2> SUFFICES ASSUME TypeOK, IndexExact, NamesInv, NEW k \in Keys, NEW e \in indices[k],
                      Quiet(e.name), e.name \notin lost
               PROVE  Justified(k, e)
    BY DEF NoStaleName
  <2>1. e \in Entries /\ e.name \in Objects /\ e.value \in VirtualNames
    BY DEF TypeOK, Entries
  <2>2. e = [name |-> e.name, value |-> e.value]
    BY <2>1 DEF Entries
  <2>3. k \in MappedKeys(objects[e.name])
    BY <2>1, <2>2 DEF IndexExact
  <2>4. objects[e.name] # NoMapping
    BY <2>3 DEF MappedKeys
  <2>5. \A c \in Handlers : ~About(inbox[c], e.name)
    BY DEF Quiet, About
  <2>6. ~Missed(e.name)
    BY <2>5 DEF Missed
  <2>7. UpToDate(e.name)
    BY <2>1, <2>4, <2>5, <2>6 DEF NamesInv, Faithful, Compiling
  <2> QED BY <2>7, UpToDateIsJustified
<1> QED BY <1>1, NamesInvariance, TypeCorrect, CacheIsExact, PTL

-----------------------------------------------------------------------------
(***************************************************************************)
(* The names the cache does not miss.  Handlers that share a kind write    *)
(* into one mapping per object: only if they agree on the patches is it    *)
(* all the same which of them came last.                                   *)
(***************************************************************************)
Alike ==
  \A c, d \in Handlers : RewritePaths[c] = RewritePaths[d] /\ (c \in Uncompilable <=> d \in Uncompilable)

Complete ==
  \A o \in Objects : store[o] # Absent /\ Quiet(o) /\ Compiling # {} => UpToDate(o)

\* At first no object is quiet.
LEMMA CompleteInit == Init => Complete
<1> SUFFICES ASSUME Init, NEW o \in Objects, store[o] # Absent, Quiet(o), NEW c \in Compiling
             PROVE  FALSE
  BY DEF Complete
<1>1. c \in Handlers
  BY DEF Compiling
<1>2. About(inbox[c], o)
  BY <1>1, FirstList
<1> QED BY <1>1, <1>2 DEF Quiet, About

\* The notification that leaves an object quiet is the last one about it.
LEMMA CompleteNext == Alike /\ TypeOK /\ NamesInv /\ Complete /\ [Next]_vars => Complete'
<1> SUFFICES ASSUME Alike, TypeOK, NamesInv, Complete, [Next]_vars, NEW o \in Objects,
                    store'[o] # Absent, Quiet(o)', Compiling # {}
             PROVE  UpToDate(o)'
  BY DEF Complete, Compiling
<1>1. \A d \in Handlers : ~About(inbox'[d], o) /\ d \in Compiling
  BY DEF Quiet, About, Alike, Compiling
<1>2. PICK a \in Handlers : TRUE
  BY DEF Compiling
<1>3. ASSUME store'[o] = store[o], objects'[o] = objects[o], Quiet(o) PROVE UpToDate(o)'
  BY <1>3 DEF Complete, UpToDate
<1>4. CASE \E n \in Notifications :
             /\ store' = [store EXCEPT ![n.name] = n.content]
             /\ inbox' = [c \in Handlers |-> Append(inbox[c], n)]
             /\ UNCHANGED <<objects, lost>>
  <2>1. PICK n \in Notifications : /\ store' = [store EXCEPT ![n.name] = n.content]
                                   /\ inbox' = [c \in Handlers |-> Append(inbox[c], n)]
                                   /\ UNCHANGED <<objects, lost>>
    BY <1>4
  <2>2. \A c \in Handlers : inbox[c] \in Seq(Notifications) /\ inbox'[c] = Append(inbox[c], n)
    BY <2>1 DEF TypeOK
  <2>3. ASSUME NEW c \in Handlers
        PROVE  /\ n.name = o => About(inbox'[c], o)
               /\ n.name # o => (About(inbox'[c], o) <=> About(inbox[c], o))
    <3> DEFINE t == Append(inbox[c], n)
    <3>1. t = inbox'[c] /\ inbox[c] \in Seq(Notifications)
      BY <2>2
    <3>2. /\ n.name = o => About(t, o)
          /\ n.name # o => (About(t, o) <=> About(inbox[c], o))
      BY <3>1, AppendAbout
    <3> QED BY <3>1, <3>2
  <2>4. n.name # o
    BY <1>1, <1>2, <2>3
  <2>5. store'[o] = store[o] /\ objects'[o] = objects[o]
    BY <2>1, <2>4 DEF TypeOK
  <2>6. \A c \in Handlers : ~About(inbox[c], o)
    BY <1>1, <2>3, <2>4
  <2> QED BY <1>3, <2>5, <2>6 DEF Quiet, About
<1>5. CASE \E c \in Handlers : Popped(c)
  <2>1. PICK c \in Handlers : Popped(c)
    BY <1>5
  <2> DEFINE n == Head(inbox[c])
  <2>2. Handled(c, n) /\ n \in Notifications /\ store' = store
    BY <2>1 DEF Popped
  <2>3. CASE n.name # o
    <3>1. objects'[o] = objects[o]
      BY <2>2, <2>3 DEF Handled
    <3>2. \A d \in Handlers : ~About(inbox[d], o)
      BY <1>1, <2>1, <2>3, PoppedInboxes
    <3> QED BY <1>3, <2>2, <3>1, <3>2 DEF Quiet, About
  <2>4. CASE n.name = o
    <3>1. PICK j \in DOMAIN inbox[c] : LastAbout(inbox[c], j, o) /\ inbox[c][j] = n
      BY <1>1, <2>1, <2>4, PoppedInboxes
    <3>2. n.content = store[o]
      BY <3>1 DEF NamesInv, LastIsCurrent
    <3>3. n.type \in {"add", "update"}
      BY <2>2, <3>2 DEF Notifications
    <3>4. objects'[o] \in mappingsFromVirtualObject(c, o, store[o])
      BY <1>1, <2>2, <2>4, <3>2, <3>3 DEF Handled, Compiling
    <3> QED BY <1>1, <2>2, <3>4 DEF UpToDate, Compiling
  <2> QED BY <2>3, <2>4
<1>6. CASE UNCHANGED <<store, inbox, objects, lost>>
  BY <1>3, <1>6 DEF Quiet
<1> QED BY <1>4, <1>5, <1>6, NameStepCases

\* A name an object has under a path is a candidate for its host name, under
\* the path and without it.
LEMMA NamesAreCandidates ==
  ASSUME NEW c \in Handlers, NEW o \in Objects, NEW content \in Contents, NEW p \in Paths,
         NEW v \in NamesAt(c, o, content, p), NEW s \in {p, AnyPath}
  PROVE  <<PhysicalName[v], s>> \in Keys /\ v \in Candidates(c, o, content, <<PhysicalName[v], s>>)
<1>1. v \in VirtualNames
  BY NamesAssumption, PathsAssumption, ContentsAssumption DEF NamesAt
<1>2. PhysicalName[v] \in HostNames
  BY <1>1, NamesAssumption
<1> QED BY <1>1, <1>2 DEF Keys, Candidates

\* For every number of handlers with the same patches: once they have caught
\* up with an object, each name their patches rewrite in it resolves back.
\* (Handlers that differ can lose names: run namecache_shared_kind.)
THEOREM AllNamesResolve ==
  ASSUME Alike PROVE Spec => []EveryNameResolves
<1>1. TypeOK /\ IndexExact /\ Complete => EveryNameResolves
  <2> SUFFICES ASSUME TypeOK, IndexExact, Complete, NEW o \in Objects, store[o] # Absent, Quiet(o),
                      NEW c \in Compiling, NEW p \in Paths, NEW v \in NamesAt(c, o, store[o], p),
                      NEW s \in {p, AnyPath}
               PROVE  Values(PhysicalName[v], s) # {}
    BY DEF EveryNameResolves, Compiling
  <2> DEFINE k == <<PhysicalName[v], s>>
  <2>1. PICK d \in Compiling : objects[o] \in mappingsFromVirtualObject(d, o, store[o])
    BY DEF Complete, UpToDate
  <2>2. c \in Handlers /\ d \in Handlers /\ store[o] \in Contents
    BY <2>1 DEF TypeOK, Compiling
  <2>3. v \in NamesAt(d, o, store[o], p)
    BY <2>2 DEF Alike, NamesAt
  <2>4. k \in Keys /\ v \in Candidates(d, o, store[o], k)
    BY <2>2, <2>3, NamesAreCandidates
  <2> HIDE DEF k
  <2>5. objects[o] \in Mappings /\ objects[o][k] # NoName /\ objects[o][k] \in Candidates(d, o, store[o], k)
    BY <2>1, <2>2, <2>4, MappingShape
  <2>6. objects[o][k] \in VirtualNames /\ k \in MappedKeys(objects[o])
    BY <2>4, <2>5, NoMappingAssumption DEF Candidates, MappedKeys
  <2>7. [name |-> o, value |-> objects[o][k]] \in indices[k]
    BY <2>4, <2>6 DEF IndexExact
  <2> QED BY <2>7 DEF Values, k
<1>2. TypeOK /\ NamesInv /\ Complete /\ [Next]_vars => Complete'
  BY CompleteNext
<1>3. Spec => []Complete
  BY CompleteInit, <1>2, NamesInvariance, TypeCorrect, PTL DEF Spec
<1> QED BY <1>1, <1>3, TypeCorrect, CacheIsExact, PTL
=============================================================================
