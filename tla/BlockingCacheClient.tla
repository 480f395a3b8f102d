------------------------ MODULE BlockingCacheClient ------------------------
(***************************************************************************)
(* pkg/blockingcacheclient/client.go: a client whose writes go to the API  *)
(* server and whose reads come from the informer's cache; after a write it *)
(* polls the cache, for 2 seconds, until the cache is to show the write.   *)
(*                                                                         *)
(* The module follows one object name.  log is its history on the API      *)
(* server, the last entry being its state now; the cache shows entry seen, *)
(* and follows along the log.  The caller is a controller that gets the    *)
(* object, holds it, and writes later.  Other clients write as well, to    *)
(* this object and to others, which all count up the one revision.         *)
(***************************************************************************)
EXTENDS Naturals, Sequences

CONSTANTS
  FirstRevision,   \* the revision of the API server at the start
  MaxRevision,     \* bound on the revision
  MaxPolls,        \* how often a write polls before it times out
  Absent           \* there is no such object

ASSUME RevisionsAssumption ==
  FirstRevision \in Nat \ {0} /\ MaxRevision \in FirstRevision..99

ASSUME PollsAssumption == MaxPolls \in Nat \ {0}

Revisions == 1..MaxRevision

\* uid: what tells the object from later ones of its name; version: its
\* resource version; deleting: it has a deletion timestamp and waits for its
\* finalizers.
Objects == [uid : Revisions, version : Revisions, deleting : BOOLEAN]

ASSUME AbsentAssumption == Absent \notin Objects

VARIABLES
  log,        \* the states the object went through, from its absence on
  seen,       \* position in log of the state the cache shows
  revision,   \* revision of the last write to the API server, to any object
  blocking,   \* the object is typed, and its type in the client's scheme
  held,       \* what the caller holds: what the cache showed when it read
  call,       \* the caller's last write, which it may still be in
  result      \* how it ended

vars == <<log, seen, revision, blocking, held, call, result>>

api == log[Len(log)]
cache == log[seen]

\* at: the position in log of the state the write led to; uid, version: of
\* the object after the call, which the polling compares with; promised
\* (history): whether the cache was such that the polling can be relied on.
Calls == [op : {"create", "update", "delete"}, at : Nat \ {0}, uid : Revisions, version : Revisions,
          promised : BOOLEAN, polls : Nat]

NoCall == [op |-> "create", at |-> 1, uid |-> 1, version |-> 1, promised |-> FALSE, polls |-> 0]

Results == {"none", "polling", "ok", "timeout", "error"}

TypeOK == /\ log \in Seq(Objects \cup {Absent}) /\ log # <<>>
          /\ seen \in 1..Len(log)
          /\ revision \in Revisions
          /\ blocking \in BOOLEAN
          /\ held \in Objects \cup {Absent}
          /\ call \in Calls
          /\ result \in Results

Init == /\ log = <<Absent>> /\ seen = 1
        /\ revision = FirstRevision
        /\ blocking \in BOOLEAN
        /\ held = Absent /\ call = NoCall /\ result = "none"

-----------------------------------------------------------------------------
(***************************************************************************)
(* Resource versions are compared as strings.  Up to 99, the first digit   *)
(* decides, then the second, if there is one.                              *)
(***************************************************************************)
FirstDigit(n) == IF n < 10 THEN n ELSE n \div 10

StringAtLeast(m, n) ==
  \/ FirstDigit(m) > FirstDigit(n)
  \/ FirstDigit(m) = FirstDigit(n) /\ (n < 10 \/ (m >= 10 /\ m % 10 >= n % 10))

SameLength(m, n) == m < 10 <=> n < 10

-----------------------------------------------------------------------------
(***************************************************************************)
(* The API server.                                                         *)
(***************************************************************************)
NextRevision == revision + 1

\* The write leads to state o; every change of the object is a new revision.
Write(o) == /\ revision < MaxRevision
            /\ revision' = NextRevision
            /\ log' = Append(log, o)

Fresh == [uid |-> NextRevision, version |-> NextRevision, deleting |-> FALSE]
Changed == [api EXCEPT !.version = NextRevision]

\* What a deletion leads to: with finalizers, the object stays for a while.
Deleted == {Absent, [api EXCEPT !.version = NextRevision, !.deleting = TRUE]}

\* Other clients, and the API server that removes a finalized object.
OthersWrite ==
  /\ \/ api = Absent /\ Write(Fresh)
     \/ api # Absent /\ Write(Changed)
     \/ api # Absent /\ ~api.deleting /\ \E o \in Deleted : Write(o)
     \/ api # Absent /\ api.deleting /\ Write(Absent)
  /\ UNCHANGED <<seen, blocking, held, call, result>>

\* Objects of other names are written.
OtherObjects == /\ revision < MaxRevision
                /\ revision' = NextRevision
                /\ UNCHANGED <<log, seen, blocking, held, call, result>>

\* The informer: events come in their order; a new list skips some.
Informer == /\ \E i \in (seen + 1)..Len(log) : seen' = i
            /\ UNCHANGED <<log, revision, blocking, held, call, result>>

-----------------------------------------------------------------------------
(***************************************************************************)
(* The caller: Get, and the writes with their blocking.                    *)
(***************************************************************************)
Get == /\ result # "polling"
       /\ held' = cache
       /\ UNCHANGED <<log, seen, revision, blocking, call, result>>

\* The API server refuses the write, and its error is returned.
Refused == result' = "error" /\ UNCHANGED <<log, revision, call>>

\* The object is written, and poll entered.  It returns at once, without an
\* error, for unstructured objects and types that are not in the scheme.
Block(op, at, uid, version, promised) ==
  /\ call' = [op |-> op, at |-> at, uid |-> uid, version |-> version,
              promised |-> promised, polls |-> 0]
  /\ result' = IF blocking THEN "polling" ELSE "ok"

\* (History.)  The cache shows everything up to this write.
CacheCurrent == seen = Len(log)

\* (History.)  The cache shows an earlier state of the same object, whose
\* version has as many digits as the one to wait for.
CacheFollows(version) ==
  cache # Absent /\ cache.uid = api.uid /\ SameLength(cache.version, version)

\* Variant: the object is not decoded from the answer of the API server.
CreateUndecoded ==
  /\ result # "polling"
  /\ IF api # Absent THEN Refused
     ELSE /\ Write(Fresh)
          /\ Block("create", Len(log) + 1, 0, 0, CacheCurrent)
  /\ UNCHANGED <<seen, blocking, held>>

Create ==
  /\ result # "polling"
  /\ IF api # Absent THEN Refused
     ELSE /\ Write(Fresh)
          /\ Block("create", Len(log) + 1, NextRevision, NextRevision, CacheCurrent)
  /\ UNCHANGED <<seen, blocking, held>>

\* What Update and Patch have in common: the API server changes the object,
\* or finds that there is nothing to change.
Modify ==
  \/ /\ Write(Changed)
     /\ Block("update", Len(log) + 1, api.uid, NextRevision, CacheFollows(NextRevision))
  \/ /\ UNCHANGED <<log, revision>>
     /\ Block("update", Len(log), api.uid, api.version, CacheFollows(api.version))

\* Update carries the held resource version, and fails if it is outdated.
Update ==
  /\ result # "polling" /\ held # Absent
  /\ IF api # held THEN Refused ELSE Modify
  /\ UNCHANGED <<seen, blocking, held>>

\* Patch takes the object as it is; a server-side apply creates it, others
\* fail without it.
Patch ==
  /\ result # "polling"
  /\ \/ api # Absent /\ Modify
     \/ api = Absent /\ Refused
     \/ api = Absent /\ Write(Fresh) /\ Block("update", Len(log) + 1, NextRevision, NextRevision, FALSE)
  /\ UNCHANGED <<seen, blocking, held>>

\* The same for the status subresource.
StatusUpdate == Update
StatusPatch == Patch

\* Delete is by name, and deletes what has the name now; the object at hand
\* stays the held one.
Delete ==
  /\ result # "polling" /\ held # Absent
  /\ IF api = Absent THEN Refused
     ELSE \/ /\ ~api.deleting
             /\ \E o \in Deleted : Write(o)
             /\ Block("delete", Len(log) + 1, held.uid, held.version,
                      cache # Absent /\ cache.uid = api.uid /\ held.uid = api.uid)
          \/ /\ api.deleting
             /\ UNCHANGED <<log, revision>>
             /\ Block("delete", Len(log), held.uid, held.version, FALSE)
  /\ UNCHANGED <<seen, blocking, held>>

\* The conditions of blockCreate, blockUpdate and blockDelete: what the cache
\* is to show.
blockCreate == cache # Absent

\* Variant: any state of the object will do.
blockUpdateExists == cache = Absent \/ cache.uid = call.uid

blockUpdate == \/ cache = Absent
               \/ cache.uid # call.uid
               \/ StringAtLeast(cache.version, call.version)

blockDelete == cache = Absent \/ cache.uid # call.uid \/ cache.deleting

Condition == CASE call.op = "create" -> blockCreate
               [] call.op = "update" -> blockUpdate
               [] call.op = "delete" -> blockDelete

\* Variant: there is no timeout.
pollEndless ==
  /\ result = "polling"
  /\ result' = (IF Condition THEN "ok" ELSE "polling")
  /\ UNCHANGED <<log, seen, revision, blocking, held, call>>

\* PollImmediate evaluates the condition at once and at each interval; when
\* the time is over it does so a last time, and returns an error.
poll ==
  /\ result = "polling"
  /\ IF Condition THEN result' = "ok" /\ UNCHANGED call
     ELSE IF call.polls + 1 < MaxPolls
     THEN call' = [call EXCEPT !.polls = @ + 1] /\ UNCHANGED result
     ELSE result' = "timeout" /\ UNCHANGED call
  /\ UNCHANGED <<log, seen, revision, blocking, held>>

\* Reading the cache fails otherwise than with NotFound.
pollFails == /\ result = "polling"
             /\ result' = "error"
             /\ UNCHANGED <<log, seen, revision, blocking, held, call>>

Next == \/ OthersWrite \/ OtherObjects \/ Informer
        \/ Get \/ Create \/ Update \/ Patch \/ StatusUpdate \/ StatusPatch \/ Delete
        \/ poll \/ pollFails

Spec == Init /\ [][Next]_vars

\* The polling has a timer of its own; that the informer gets on is not
\* assumed.
FairSpec == Spec /\ WF_vars(poll)

-----------------------------------------------------------------------------
(***************************************************************************)
(* Properties.                                                             *)
(***************************************************************************)

\* When a write has returned without an error, the cache shows it, or a later
\* state, if the object is one that poll waits for and, when the write was
\* made, the cache showed everything (Create), an earlier state of the object
\* at hand (Delete), and one with as many digits in its version (Update,
\* Patch).
BlocksUntilVisible ==
  blocking /\ call.promised /\ result = "ok" => seen >= call.at

\* Every write returns, also when the cache never shows it.
EveryCallReturns == result = "polling" ~> result # "polling"
============================================================================
