# Verification of the generic CRD sync plugin

TLA+ models of the controllers of `vcluster-generic-crd-sync-plugin`, checked with TLC on small
instances; for the name cache, the three controllers and the blocking cache client, what they keep
and what they come to at rest is proved with TLAPS for instances of any size. `PROJECT.json`
lists components, runs, mutants, findings, hazards and theorems, and maps each definition to the
lines it models.

## The system

A vcluster is a virtual Kubernetes cluster whose objects live in one namespace of a host cluster.
The plugin is one process with controllers between the two API servers.

| Component | State it keeps | Operations | Talks to |
|---|---|---|---|
| name cache (`pkg/namecache`) | per kind: mapping of each virtual object (`objects`), index from host name (and path) to virtual names (`indices`), change hooks; one mutex | `OnAdd`/`OnUpdate`/`OnDelete` from informers, `ExchangeMapping`, `RemoveMapping`, `ResolveName(Path)`, `AddChangeHook` | hooks queue requests of the controllers while the mutex is held |
| from-virtual syncer (`from_virtual_syncer.go`, run by the SDK's `syncerController`) | nothing but its work queue; labels on host objects say which mapping controls them | `SyncDown`, `Sync`, `SyncUp` | reads both informer caches, writes both API servers |
| patcher (`generic.go`) | none | `ApplyPatches` (server-side apply of status, then of the object), `ApplyReversePatches` (update of status, or else of the object) | the API servers |
| back syncer (`back_syncer.go`) | work queue; annotations on host objects, a label on virtual ones | `Reconcile` (`syncDown`, `sync`, `syncUp`), the event handlers `enqueueVirtual` and `DeleteFunc`, `Start` | name cache, both caches, both API servers |
| force sync controller (`force_sync_controller.go`) | work queue; one annotation on virtual Secrets or ConfigMaps | `Reconcile`, the predicate of its For source, `Start` | name cache, virtual cluster |
| start-up (`main.go`) | none | reads the configuration, creates and registers the above | all |
| patch operations, conditions, paths, regex (`pkg/patches`) | none | `ApplyPatches` and one function per operation, on YAML nodes behind pointers that may come to be shared | patcher, name resolvers, name cache handlers |
| configuration and validation (`pkg/config`) | none | parse, `validate` | start-up |
| blocking cache client (`pkg/blockingcacheclient`) | none | `Create`, `Update`, `Patch`, `Delete` and the status writes: write, then poll the cache | all writers; waits for typed objects only, and the controllers write unstructured ones |

What is hard here: every decision is taken on informer caches that lag behind the API servers; a
`Reconcile` is several calls, each of which may fail or be the last before a restart; event handlers
delete objects on their own while workers run; and the name cache, which says what belongs to what,
is filled by other informers at their own pace. Tests of the repository cover the patch functions
only.

What makes each component correct:

* name cache: both maps agree, an answer is never stale once the notifications are handled, every
  rewritten name resolves, and whoever registered a hook hears of every change of an answer;
* from-virtual syncer: at rest the host object is in step with the virtual one, nothing is left
  behind, and no edit is undone by a write from a stale read;
* back syncer: at rest host object and copy exist together and agree, and a host object is deleted
  only for the reason the code gives;
* force sync controller: exactly the referenced targets have the mark, and a target that stays
  referenced keeps it;
* patches: each changes what it selects and nothing else, a list leaves a sound document, and applying
  it over and over comes to rest;
* blocking cache client: a write that returned is visible in the cache, and every write returns.

## Modules

| Module | Models | Variables and actions |
|---|---|---|
| `NameResolver` | what controllers need of the name cache (abstract) | `answers`, `queue`, `active`, `seen`; `Change`, `Register`, `Take`, `Finish` |
| `NameCache` | `pkg/namecache` and a controller that reads it | `objects`, `indices` as in the code; `inbox` is the informer's; `OnAddOrUpdate`, `OnDelete`, `OnDeleteUnknown` the callbacks; `TrySelector` one turn of `PhysicalToVirtual` |
| `NameCacheProofs`, `NameCacheNamesProofs` | theorems about `NameCache` | |
| `BackSyncer` | `back_syncer.go` | `pApi`/`pWatch`/`pCache` and `vApi`/`vWatch`/`vCache`: API server, events on the way, informer cache; `pc` the worker; one action per read or call |
| `BackSyncerProofs`, `BackSyncerQuietProofs` | theorems about `BackSyncer` | |
| `FromVirtualSyncer` | `from_virtual_syncer.go`, `generic.go`, the SDK's `Reconcile` | the same variables; `objectMatches`, `SyncDown`, `Sync`, `SyncUp` name the source's functions |
| `FromVirtualSyncerProofs`, `FromVirtualSyncerQuietProofs` | theorems about `FromVirtualSyncer` | |
| `ForceSync` | `force_sync_controller.go` and its wiring in `main.go` | `parents`, `known` the references and what the cache knows of them; `api`/`watch`/`cache`/`notif` the targets; `CheckConfig` one turn of `shouldSync` |
| `ForceSyncProofs` | theorems about `ForceSync` | |
| `BlockingCacheClient` | `blockingcacheclient/client.go` | `log` the object's history on the API server, `seen` how far the cache is, `call`/`result` the write that polls; the writes have the methods' names, `blockCreate`, `blockUpdate`, `blockDelete` are the conditions |
| `BlockingCacheClientProofs` | theorems about `BlockingCacheClient` | |
| `YamlNodes` | `operation.go`, YAML nodes, the yaml-jsonpath library | operators on a heap of nodes: a pointer is a position in it |
| `NameRegex` | `regex.go` | `ProcessRegex`, `IndexBasedReplace`; `Translated` is the reference |
| `PatchTypes` | `patch_types.go`, `conditions.go`, `path.go`, the name resolvers of `from_virtual_syncer.go` | one operator per function; an operation takes the heap to a heap with "none", "error" or "panic" |
| `ApplyPatches` | `patch.go`, `validatePatch`, and the rounds of a syncer | `heap`, `node1`, `node2`, `next` the position in the list; `validate`, `NewJSONNodes`, `ApplyPatch`, `RemoveIgnored`, `Unmarshal`, `Again` |
| `MC*` | instances for TLC | constants; `MCApplyPatches` also evaluates cases of `patch_test.go` on the model (`RepositoryTests`) |

`NameCache` implements `NameResolver` (`ImplementsResolver`, checked and proved). The other
controllers rely on no more than `NameResolver` says: `NameCacheChange` in `BackSyncer` and
`ForceSync` changes what is known and queues the affected requests in one step.

Operators called "variant" or "a variant for mutation" are plausible mistakes that the properties
must notice; no specification uses them.

### Abstractions

* An object is a record of the fields the code tells apart: labels and annotations it tests, one
  field carried forward, one carried back, and status where it is treated separately. In the
  controllers' modules YAML trees, JSON paths and regular expressions are not represented, and in
  `NameCache` an object's content is the set of names found under each path; the modules about
  patches have them.
* In the modules about patches a text is a sequence of parts, of which "/" separates names; a path is a
  sequence of steps (key, index, wildcard, descent), so the parsing of paths is left out, and so are
  slices, filters, anchors and comments. Host names are the name, "x" and the namespace.
* In `BlockingCacheClient` resource versions have one or two digits; revisions are those of one API
  server, shared with objects of other names. The 2 seconds are a number of polls.
* Lists in the index are sets; `GetFirstByIndex` returns some element.
* A resource version is compared by content: a write conflicts if the object is no longer the one
  that was read. Objects changed there and back are therefore taken as unchanged.
* The informer updates its cache and calls the handlers of the For source in one step; the handlers
  that write (`enqueueVirtual`, `DeleteFunc`) and, in `ForceSync`, the predicate run later, on their
  own.
* One object per name: controllers treat different names independently. In `ForceSync` each mapped
  kind has one object, names collide nowhere, and deletions arrive as such (tombstones are covered
  in `NameCache`). The race on the loop variable while `Start` is still looping is left out: the
  hooks are modelled as they are once it returned.
* Left out everywhere: finalizers and deletion timestamps, answers of API servers that are lost
  after the write succeeded, the delays of the rate limiter, leader election.
* The API servers, users and other controllers are the environment; `Environment` lists the kinds of
  outside events of a run.

## Runs

All runs but `cacheclient` say `CHECK_DEADLOCK FALSE`: with the bounded outside events used up and everything handled
the system rests, as it does in reality until the next event.

| Run | Outside events | Shows |
|---|---|---|
| `namecache` | virtual objects created, changed, deleted (also as tombstones); host events | exact index, no lost wakeup, every name resolves, nothing stale, refinement of `NameResolver`, and the controller ends up with the right name for every host name |
| `backsyncer` | both sides create, update and delete; users take the copy's name; parents come and go; failed handlers; resyncs | host object and copy agree at rest; reverse patches from stale reads lose no update of the host object |
| `backsyncer_faults` | the host side and deletions by users, parents come and go, failing calls, restarts; names to translate | nothing is left half done at rest; while a parent names the host object, agreement is reached and kept once the outside rests |
| `fromvirtual` | edits, relabelling, deletions on both sides, objects made by back syncers, failing calls, restarts; one mapping that is to sync one of two labels, status carried back | nothing left behind, no user edit undone, in step for good once the outside rests |
| `fromvirtual_shared` | the same, and foreign host objects; two mappings that divide the labels, status carried to the host | in step at rest, nothing left behind |
| `cacheclient` | others write, delete and re-create the object, and write other objects; the cache lags, skips states or fails to be read | a write that returned is visible where the polling can tell; every write returns |
| `patches` | none: all lists of two patches, and of three that share nodes, with and without a reverse patch, down and up | each patch does what it is meant to, paths are created and removed, careful lists stay sound and settle |
| `forcesync` | references and targets change, failing calls, restarts | exactly the referenced targets are marked at rest and in the end, a target referenced all along keeps its mark |

In `patches`, `PatchesWhatItSelects` compares each operation with `Meaning`, which says for all selected
places at once what they are to become; the code finds the matches first, then changes one after the
other, each time looking for its parent in the document as it is by then. The two properties about
whole lists are stated for lists that avoid the traps listed below (`Careful`, `NamesAreFresh`).

`BlocksUntilVisible` is stated for the calls in which the polling can tell whether the cache shows the
write (`promised`): a creation by a caller whose cache is current, an update when the cache shows an
earlier state of the same object with a version of as many digits, a deletion of the very object at
hand.

`EventuallyInStep` implies that the system does not come to rest out of step, so `fromvirtual` states no
separate safety property for it. `backsyncer_faults` has both: `EventuallyConsistent` speaks only of
host objects a parent names, `QuietMeansSettled` also of those that merely have the annotations.

### History variables

Four variables record what the code has dropped, so that the properties can be stated for everything
else and not only for runs in which nothing is dropped. No action reads them.

* `lost` (`NameCache`): objects whose deletion came as a `DeletedFinalStateUnknown`, which `OnDelete`
  does not understand.
* `excused` (`BackSyncer`): an event handler failed to delete and only logged it, or a user's object
  took the copy's name and its deletion woke nobody. A resync or a restart clears it.
* `blocked` (`FromVirtualSyncer`): mappings that last met, or lost, the host object to another one,
  and do not hear of that object's end.
* `missed` (`ForceSync`): targets whose names reached the name cache before `Start` registered the
  hooks. Being queued for another reason clears it.

`steady` (`ForceSync`) and `userDeleted` (`BackSyncer`) are histories that properties refer to.

### Disagreements with the repository's own words

Each is a run that TLC ends with a counterexample; the quotations are in `PROJECT.json`.

| Run | What the code does |
|---|---|
| `namecache_shared_kind` | of two mappings of one kind, the handler that runs last discards what the other found (`namecache.go:240`) |
| `backsyncer_stale_cache` | a host object is deleted because the cache does not show its new copy yet (`back_syncer.go:315`) |
| `fromvirtual_selector` | a mapping syncs the objects its selector does not match, and none that it matches (`from_virtual_syncer.go:193`) |
| `fromvirtual_status_first` | with a status to carry, the host object is never created (`generic.go:57`) |

Others are modelled and excused in the passing runs, or out of their instances; the notes of the
hazards in `PROJECT.json` say how TLC shows each:

| Instance | What the code does |
|---|---|
| `NoStaleName` without `lost` | a deletion seen only in a list leaves its names in the cache (`from_virtual_handler.go:51`) |
| `DeletedOnlyByUser` with a crash, or with two controllers | a restart between annotation and creation has the host object deleted (`back_syncer.go:333`); one back syncer deletes what another is about to copy (`:454`) |
| `QuietMeansConsistent` with failing calls, or with names to translate | a syncUp that fails takes off the annotations, also those of a newer state than it read; when the host object goes then and no parent names it, `DeleteFunc` does not know the copy, which stays behind (`back_syncer.go:158`, `:343`); `QuietMeansSettled` is what remains true |
| `EventuallyConsistent` without `parent` | when the call that records the mappings fails and the parent goes, the names cannot be translated any more: updates of the host object are not applied, and the request is retried for good (`back_syncer.go:348`) |
| `QuietMeansConsistent` with two controllers | each passes over a copy the cache shows as the other's; when that copy goes, nothing wakes either, and the host object stays without one (`back_syncer.go:454`) |
| `NeverUnmarkedWhileReferenced` with two paths | a reference that moves to a path `shouldSync` has already looked at is not seen, and the mark is taken off (`force_sync_controller.go:94`) |
| `QuietMeansMarked` with `Kind = "ConfigMap"` | the ConfigMap controller has the Secrets' configuration (`main.go:136`, against `config.go:143`): with one patch in `forceSyncConfigmaps` and none in `forceSyncSecrets`, one reference suffices |
| `QuietMeansMarked` with two paths | all hooks use the last path: captured loop variable (`force_sync_controller.go:117`) |
| `QuietMeansMarked` without `missed` | a reference learnt between the start of the two sources is not acted on (`force_sync_controller.go:88`) |
| `NeverUnmarkedWhileReferenced` with `steady` kept across restarts | a restart takes the mark off a target that is referenced (`force_sync_controller.go:67`) |
| `QuietMeansInStep` without `blocked` | an object relabelled from one mapping to another loses its host object (`from_virtual_syncer.go:180`) |
| `CarefulListsStaySound` for all lists | match expressions panic (`from_virtual_syncer.go:229`); a value put in several places and then removed panics (`patch_types.go:156`); nested matches of a descent, or the empty path, panic on removal (`:87`); a node copied below itself makes an endless document; `add` on a mapping doubles keys, on a scalar breaks the pairs |
| `Settles` for all lists | reverse patches that add, or translate a name that was not just copied, change or fail in every round |
| `CreatesWhatItNames` for all paths | below a scalar the value is inserted beside it, an index beyond the end appends, a wildcard becomes the key `*`, a descent fails (`patch_types.go:474`) |
| `BlocksUntilVisible` without equal digits | "9" counts as at least "10" (`client.go:115`) |

The properties of `FromVirtualSyncer` do not take a side about the selector. They speak of the labels a
mapping is meant to sync (`Wanted`), the model of the code has the selector (`Selector`) and negates
it. The passing runs and the theorems are for configurations that allow for that (`SelectorsExclude`): a selector
for everything else, or none for all objects, where code and documentation agree.
`fromvirtual_selector` checks the same property with a selector for the objects that are wanted, as
`config.go:42-43` has it.

Smaller ones, seen while modelling: a field the source of `copyFromObject` lacks stays, as its removal is
computed and discarded (`patch_types.go:65`; the properties adopt it in `Copied` and `Meaning`). `main.go:58` tests the parent's kind, not the
sync back's, before it copies the sync back's CRD. `equal` and `notEqual` with a mapping, list or number
compare YAML with JSON text and never match on real objects, though `patch_test.go` has a case in block
style that does (`conditions.go:84`). Translation from host to virtual knows names only, but `validate`
accepts the label operations as reverse patches; with an expression, unknown names become empty texts.
`rewriteName` on a list of texts changes nothing. Sync backs of one kind are refused within one mapping
only (`validate.go:55`). The comment at `client.go:20` promises blocking that unstructured objects do not
get.

### Bounds

* `MaxChanges`, `MaxHostEvents` (`NameCache`): changes of virtual objects and events of host objects.
  Objects may exist from the start, so two changes suffice for a change of reference and a delete of
  one object while another refers to the same name. Three changes, and two handlers with names that
  share a host name (safety, one change), were checked apart from the runs, without new results.
* `MaxMoves`: outside events, failures and restarts included. Three to five allow for a create, an
  update and a delete overlapping one Reconcile, with a failure or restart in between. With a single
  data value `backsyncer` was also checked with 4 moves, without new results, and so was the invariant
  of `backsyncer_faults`; the whole of `backsyncer_faults` was checked with `MaxLag` 2.
* `MaxLag` (`BackSyncer`): events a watch holds, two but in `backsyncer_faults`, whose liveness check
  takes too long with more than one. One makes a read one write behind if the watch is slow; two lets a
  cache show a state older than the one a Reconcile has written, and the deletion after it. A write
  waits while the watch is full,
  so states in which a cache is three or more writes behind are not covered by the runs (the theorems
  are for any lag).
* `FirstRevision`, `MaxRevision` (`BlockingCacheClient`): 7 to 13, three writes before the second digit
  and four after it. `MaxPolls` is 2: a poll that fails and a last one.
* `PatchLists`, `MaxRounds` (`ApplyPatches`): two patches show how one disturbs the next, three a copy
  that is rewritten and copied on; all lists of three were checked apart from the run, without reverse
  patches and without new results. The second round is the first with its own result as the other
  object, the third shows that nothing changes any more.
* Sets: two values per synced field where an update matters, one or two controllers, two objects
  and two paths in the name cache. No symmetry is used.

### Fairness

Weak fairness of informers, handlers and workers: they are goroutines that run whenever they have
something to do, and errors are retried by the work queue. Strong fairness of `Take(h)` where one
worker serves several names (`NameCache`, `ForceSync`): the work queue is first-in first-out, so a
name is not passed over forever. Outside events, failures and restarts have no fairness, and are
bounded, so the liveness properties say what happens once they end. In `BlockingCacheClient` only
`poll` is fair: it has a timer, while nothing is assumed of the informer.

`EventuallyConsistent` is stated for host objects a parent names in the end. Parents come and go in
its run; without one, names may not be translatable and the retries do not end (see above).

## Proofs

`NameCacheProofs` proves, for any sets of objects, names, paths, handlers and contents, any list of
selectors and any bounds that satisfy the assumptions of `NameCache`:

* `TypeCorrect`: `TypeOK` is invariant;
* `CacheIsExact`: `IndexExact` is invariant;
* `WakeupsAreNotLost`: `NoLostWakeup` is invariant;
* `CacheImplementsResolver`: `Spec => Resolver!Spec`.

The inductive invariant is `Inv == TypeOK /\ CacheInv /\ WakeupInv`, one layer on the other.

* `CacheInv` is `IndexExact` and that a stored mapping is well formed: a host name mapped under no
  path in particular is mapped under some path, with a value there. This is needed because the hooks
  are registered only on the index that is split by path, while controllers also read the other one:
  a change under `<<h, AnyPath>>` wakes the controller only because it comes with one under
  `<<h, p>>`.
* `WakeupInv` is `NoLostWakeup` and `Reading`, which speaks of the worker in the middle of its loop:
  unless the name it holds is queued again, the selectors it has passed still have no value. Without
  it nothing is known about the last read.

Each layer has a lemma per kind of step: a step of the cache (`ExchangeMapping`, `RemoveMapping`)
queues every host name whose answers it changes (`CacheStepWakes`), and a step of the controller
leaves the cache alone (`StepCases`). The refinement follows from `Inv` before and after a step.

`NameCacheNamesProofs` builds on them:

* `NoNameIsStale`: `NoStaleName` is invariant;
* `AllNamesResolve`: `EveryNameResolves` is invariant if the handlers of the kind are alike (`Alike`:
  the same patches, and if one's do not compile, no one's do). Without that it is false, as the run
  `namecache_shared_kind` shows.

Both speak of objects whose notifications are handled, so neither is inductive. `LastIsCurrent` says
of the notifications still on their way that the last one about an object carries what it is now, the
same for every handler; `Faithful` that the mapping of an object no handler is still to be told of is
one that some handler makes of it, unless its deletion was lost; `NothingFromNowhere` that handlers
whose patches do not compile add nothing. `Complete` adds, for handlers that are alike, that such a
mapping is there.

`FromVirtualSyncerProofs` proves, for any mappings, selectors, values and bounds:

* `TypeCorrect`: `TypeOK` is invariant;
* `EditsAreKept`: `Spec => ReverseKeepsUserEdits`.

The inductive invariant is `TypeOK` with `Holding`: a worker that is about to apply patches holds a
virtual object, and one that is about to apply reverse patches the host object too. Without it the
fields the writes copy need not exist. `EditsAreKept` then needs only that the update is refused
unless the virtual object is the one that was read.

`FromVirtualSyncerQuietProofs` proves, for any mappings with `SelectorsExclude`, failed calls and restarts included:

* `NothingIsLeftBehind`: `QuietMeansNoLeftover` is invariant;
* `InStepWhenQuiet`: `QuietMeansInStep` is invariant.

The invariant is about the objects the code takes (`Taking`) and needs no hypothesis; `TakesWhatIsWanted`
turns these into the ones that are wanted.

A property of rest says nothing about the steps before it. The invariant `QuietInv` therefore says of
every state that whatever is not right yet will still be seen by a mapping that acts on it: `Following`
(the last event of a watch is the object itself), `Fresh` (what a worker holds is what the caches show,
or its request is queued again), `Purposeful` (it writes and deletes for a reason it has read), and
for each kind of disagreement where the request, event or worker is that will deal with it.

`BackSyncerProofs` proves, for any number of controllers, all outside events included:

* `TypeCorrect`: `TypeOK` is invariant;
* `HostUpdatesAreKept`: `Spec => NoLostHostUpdate`.

The types need `WatchesChained` (no two events in a row say the same, so that a deletion always has a
last state to hand to `DeleteFunc`) and `Holding` (what a worker dereferences it has checked).

`BackSyncerQuietProofs` proves

* `CopiesAgree`: `[](Quiet => CopyAgrees)`, for any number of controllers and whatever fails;
* `NamedOrphansAreDeleted`: `[](Quiet /\ parent => CopyHasHost)`, likewise without a hypothesis;
* `RestMeansSettled`: `[]QuietMeansSettled` for one controller (`Alone`), whatever fails;
* `OrphansAreDeleted`: `[](Quiet => CopyHasHost)` for any number of controllers, if `Undisturbed`;
* `RestMeansConsistent`: `[]QuietMeansConsistent`, if `Alone` and `Undisturbed`.

`Alone` is needed only for `HostIsCopied`: of two controllers each may pass over a copy as the other's.
`Undisturbed` says that there are no failing calls and no names to translate, so that no syncUp takes
annotations off again; it is needed only for copies of host objects that no parent names. The run
`backsyncer` is under both, `backsyncer_faults` under the first. Neither can go: TLC finds the system at
rest in disagreement with failing calls, with names to translate, and with two controllers (see the
table above). The argument is by what will wake the controller:

* `AnnotationsStay`: along cache and watch an annotated host object stays annotated until it is deleted.
  So the last state `DeleteFunc` is handed has the annotations, and it finds the copy.
  Only the two theorems that assume `Undisturbed` use this and the next.
* `HostRemembered`: a copy has an annotated host object in the cache, or an event, a notification for
  `enqueueVirtual` or a state for `DeleteFunc` is on its way that has the copy deleted.
* `Looked`: unless its request is queued, the worker holds what the caches show (`ReadsHost`,
  `ReadsVirtual`), and a host object without annotations (`Unmarked`), an annotated one without a copy
  (`Uncopied`) and a pair that differs (`Compared`) each have an event or notification pending or the
  worker before the call that settles it. A host object whose annotations were taken off counts as
  worked on if the controller has a copy of it (`Copied`) or nothing else can be in the way (`Free`).
* `Abandoned`: as long as the name cache knows the name, a copy of the controller has a host object in
  the cache, or a deletion, a request or the worker on the way that finds it has none. The annotations
  play no part, so that this survives their removal.
* `UsersExcused`: a copy's name that a user took is recorded in `excused`.

`ForceSyncProofs` proves, for any kinds, targets, outside events and lag:

* `TypeCorrect`: `TypeOK` is invariant;
* `MarksAreKept`: `Spec => NeverUnmarkedWhileReferenced`, for Secrets and kinds with one path each;
* `RestMeansMarked`: `[]QuietMeansMarked`, for Secrets and one path.

For ConfigMaps the configuration is the wrong one (see the table above), and the limits on paths are
those of the code: with two, the hooks watch only the last, and a reference can move behind
`shouldSync`'s loop. `MarksAreKept` needs that the name cache follows the parents (`Following`) and that a
reference that has been there since a rest is known, so the loop finds it (`SteadyHolds`).
`RestMeansMarked` needs more: `NamesSeen` and `ObjectSeen` say that a target whose mark does not fit what the
name cache knows, or what its cache shows, is queued, will be, or is with the worker.

`BlockingCacheClientProofs` proves, for any bounds:

* `TypeCorrect`: `TypeOK` is invariant;
* `WritesAreVisible`: `BlocksUntilVisible` is invariant.

The inductive invariant adds `LogOrder` and `WaitsSoundly`. `LogOrder` says how the API server writes
history: versions grow along the log, the states of one object are contiguous, and a deletion
timestamp stays. `WaitsSoundly` says that while a promised call polls, the log has what the write left
there, and that the cache, as long as it is not there yet, shows an earlier state of the object. Only
together do they make of "the
version the cache shows is at least mine" the statement that the cache is at or past the write; the
comparison of strings agrees with that of numbers for as many digits.

Constants are assumed to be what the modules' `ASSUME`s say; new among them is that `Absent` is no object
(`AbsentAssumption` in `BackSyncer` and `FromVirtualSyncer`), as a missing object is an error of the
client in the code and never an object. TLC checked each inductive invariant on the runs' instances
before it was proved.

Only model-checked: liveness (`EventuallyResolved`, `EventuallyConsistent`, `EventuallyInStep`,
`EventuallyMarked`, `EveryCallReturns`), as fairness and `ENABLED` are beyond the prover, and everything
about patches, whose trees and paths need recursive operators.

## Not modelled

The version, kind and uniqueness checks of the configuration, the CRD synchronisation and the reading of
the configuration at start-up, where each failure ends the process; the helpers of `pkg/util` and
`pkg/plugin`, which have no state; parsing of paths and expressions. `DeleteAllOf` of the blocking cache
client does not exist. `PROJECT.json` gives the reasons per component.

## Plan

Done: the name cache with its abstract specification; the three controllers, each with safety,
failures, liveness; the patches with conditions, paths, expressions and resolvers; the blocking cache
client; proofs of every safety property of these but the patches'.

Next, in this order:

1. An abstract specification of two-way synchronisation that `BackSyncer` and `FromVirtualSyncer`
   implement at rest, and its refinement proofs, which can use `QuietInv` and `AgreeInv`; about rest it
   would say what `InStepWhenQuiet` and `RestMeansSettled` say now, its gain would be the steps between.
2. A composition of `NameCache` with `BackSyncer` for several host objects and parents, and of a
   from-virtual syncer with a back syncer of the same kind.
3. Start-up: `validate` against what the controllers assume of a configuration (IDs, kinds, paths).
