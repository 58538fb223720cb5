# A TLA+ model of sano

sano renders Flutter pages from a JavaScript program.  A bundle is fetched and
unpacked, its `main.js` runs in a QuickJS runtime behind `dart:ffi`, the script
talks to Dart over a bridge, and the render objects it sends become Flutter
widgets.  Everything Dart-side runs on one isolate: the hard part is not
parallelism but *order* - what is deferred with `Future(...)`, what an `await`
lets in between, and what a frame does later to state that has moved on.  The
same holds inside the engine, which is vendored and compiled into the app:
jobs, generators, the collector and map iterators all take turns on one thread
over lists that the turn before has changed.

Paths without a leading `src/` are relative to `src/lib/src/`.

## 1. Inventory

| Component | State | Operations | Interacts with |
| --- | --- | --- | --- |
| Runtime (`runtime/runtime.dart`, `common.dart`) | QuickJS runtime and context, the job list | `evaluateJavaScript`, `dispatch`, `executePendingJob`, `_channel` | every host function is answered through `_channel`; the job loop runs in a Future |
| Timers (`runtime/plugins/timer.dart`) | a map `clocks` per plugin, Dart timers, a reference per callback | `createTimer` (two), `clear`, the closures | called by the script; call it back; `dispatch` |
| Value wrappers (`runtime/js_value.dart`, `observer.dart`) | reference counts of script values, table of host callbacks | `dupValue`, `free`, `call`, `setPropertyStr`, `JSPromise` | QuickJS; frees are deferred |
| Native trampoline (`src/cxx/ffi.cpp`) | none | `_channel` | dereferences what Dart answers |
| Bridge (`plugins/bridge.dart`) | `listeners`, the late field `channel` | `_channel`, `_emit`, `invoke`, `on`, `once`, `off` | script to Dart and back |
| Channel (`framework/channel.dart`), Navigate (`plugins/navigate.dart`) | a name prefix | `on`, `once`, `invoke`, `dispose`; `_push` | entries of the bridge's `listeners` |
| Page view (`render/view.dart`) | `_root` | `initState`, `_mount`, `_update`, `build`, `dispose` | its channel, RootElement, Flutter |
| Render tree (`render/element.dart`, `render/widgets/`) | the elements, RootElement's `_listeners`, a ValueNotifier per element | construction, `update`, `emit`, `on`, `off`, `initSlots` | registration in a Future, deregistration in a frame |
| Bundle (`framework/bundle.dart`) | the assets directory, the cache file | `resolve` (network, asset), `_download`, `_zipDecoder`, `read` | disk, network, an isolate for unpacking |
| Sano (`framework/sano.dart`) | `_instance` | `initInstance`, `_loadPlugins`, `_runApp` | Bundle, Runtime, plugins |
| Parsing (`render/parse.dart`) | none | tables and conversions | called in builds |
| Promises and jobs (`src/cxx/quickjs/quickjs.c`) | `job_list`, JSPromiseData with its reactions, `already_resolved` per pair of functions | resolve, reject, `then`, `finally`, `Promise.all` and its kin, async functions, `JS_ExecutePendingJob` | scripts, `JSPromise`, the job loop of Runtime |
| Async generators (same file) | a state, a queue of requests, the frame of the body | `next`, `return`, `throw`, `js_async_generator_resume_next` | promises; the body runs inside it |
| Heap (same file) | counts, `gc_obj_list`, `tmp_obj_list`, `gc_zero_ref_count_list`, weak records | `JS_FreeValue`, `free_zero_refcount`, `JS_RunGC`, property writes | every wrapper of `js_value.dart` |
| Map and Set (same file) | records in a list and in a hash table | set, delete, clear, iterators, `forEach`, finalizers | scripts; the collector |
| Strings (same file, `cutils.c`, `js_value.dart`) | none | `JS_ToCString`, `JS_NewString`, `toString`, `JSString.create` | every message over the bridge |
| CacheManage, println, FFI bindings, `framework/test.dart`, platform folders, generated protobuf, the rest of QuickJS | - | - | see "Not modelled" |

What is hard here, and what makes each part correct:

* **Timers and references.**  A timer's callback is duplicated once and freed
  through a deferred `JS_FreeValue`; it may clear itself while it runs,
  complete, and be cleared again by number.  Correct: released exactly once,
  never under a running or armed timer; nothing cancels a timer but itself or
  the script; timeouts fire.
* **Jobs.**  Promise reactions run only when somebody schedules the job loop.
  Correct: whenever the isolate becomes idle with jobs pending a loop is
  scheduled; where the code does not see to it (`Bridge.invoke`, an exception),
  that is the only place.
* **Render tree.**  Registration by id is deferred to a Future, deregistration
  by id happens in a later frame, and updates come in between.  Correct: what
  is visible is reachable, what left is forgotten, and the screen ends up
  showing the last tree the script sent, with every update.
* **Boot.**  Each `await` of `resolve` lets other calls in, may fail, and may be
  the last thing the process does.  Correct: `resolve` returns with a complete
  `main.js`, a complete bundle is left alone, and no failure is silent.
* **Pages.**  Listeners are kept by name and removed by prefix, `once` removes
  itself, and the script may throw in `mount` and `unmount`.  Correct: a live
  page keeps its listeners, a disposed one keeps none, no view mounts twice and
  no handler throws into native code.
* **Promises.**  Several parties may try to settle a promise, and jobs enqueue
  jobs.  Correct: one party decides, reactions run once, in order and in the
  end; a function that awaits is woken exactly once; `Promise.all` counts right.
* **Async generators.**  Requests queue up, and the body may ask its own
  generator.  Correct: answers come in order, one each, and the frame is
  resumed only when it is suspended.
* **Heap.**  Freeing and collecting are loops over lists that they change, and
  cycles are freed object by object.  Correct: counts are exact whenever the
  script runs, nothing freed is touched, garbage and only garbage goes.
* **Maps.**  Records are deleted under iterators that stand on them.  Correct:
  iteration sees what an ordered map would show; list, table and counts agree.
* **Strings.**  Correct: what crosses is what was sent, as far as a C string can
  carry it.

## 2. Modules

```
Runtime  <-- RuntimeProofs        Elements <-- ElementsProofs
Runtime  <-- MCRuntime            Elements <-- MCElements

Boot     <-- BootProofs           Views    <-- ViewsProofs
Boot     <-- MCBoot               Views    <-- MCViews

Promises <-- Generators <-- GeneratorsProofs <-- PromisesProofs
             Generators <-- MCGenerators
Promises   implements PromiseContract      (KeepsContract)
Generators implements IteratorContract     (AnswersInOrder)

Maps     <-- MapsProofs
Maps     <-- MCMaps
Maps       implements OrderedMap           (IsOrderedMap)

Heap     <-- HeapProofs           Text
```

An arrow is EXTENDS.  Generators is a composition: the generator's state is
added to that of Promises, and every step of the one works on the promises and
jobs of the other.  Three specifications are abstract - what a script may rely
on, without the data structures - and the detailed module is checked to
implement each of them under a refinement mapping (INSTANCE ... WITH), and
proved to.  The other components meet at narrow interfaces (a script call, a
message, a completed `resolve`) that each module represents from its own side.
Operators named "Mutant of ..." in a comment are not part of a
specification; each is a defective variant of the operator that follows it,
used to confirm that a property notices the defect.

### Runtime

One isolate: `frame` is what is on the script stack (`idle`, `eval`, `invoke`,
`timer`, `job`, or `crashed`), `futures` the Dart event queue, in order, whose
entries are a deferred release (a timer) or a run of the job loop (`Pump`).
`clocks` and `key` are the maps of the two timer plugins, `state` the Dart timer
objects, `held` the references the plugins own.  While a script is on the stack
it may call host functions in any number and order (`CreateTimeout`,
`CreateInterval`, `ClearHandle`, `ClearNumber`, `EnqueueJob`, `MisuseHost`).
A script ends by returning (`EvaluateReturn`, `InvokeReturn`, `TimeoutReturn`,
`IntervalReturn`, `JobReturn`), each with what the Dart code does after the call
in the same step, or by throwing, which skips exactly that.

`Runtime._channel` answers `undefined` whatever the handler returned, so the
script never learns a timer's id: `ClearHandle` passes what the script really
has, `ClearNumber` a number that happens to be a key.  A key is the clock
reading for timeouts and a hash code for intervals; `UniqueKeys` says whether
two of them may coincide.  The job list is kept as its length (`jobs`): which
job runs does not matter to the properties.  `SettlePromise` leaves out the
release of `undefined` that `JSPromise` also defers, which has no effect.

### Elements

An element is `<<id, n>>`, the n-th element made for a node id.  `children` is
the tree of objects, `listeners` the registry of RootElement, `pending` the
registrations still in a Future (one batch per render object: their order
within a batch is left open), `shown`/`built`/`dirty` what Flutter has on the
screen.  `DrawFrame` computes what the rebuilt builders show and detaches the
others, and `removeListener` then calls `off` by id in the same step.  Slot
fragments of a scaffold have an element but no builder of their own; their
owner is notified instead.  `Tick` moves the clock to another millisecond: a
notifier whose value is the current millisecond does not notify again.

`alive`, `current` and `painted` are the script's side of the story: the ids of
the tree it last sent, the elements that received everything sent to their id,
and the elements last built with all of it.  The shape of the tree (which id is
rendered under which) is the constant `Parent`, and `Line` the ids from the top
down to one; an element is shown by the next frame if there is an element for
each id of its line, each built with the next (`NextShown`).  The script chooses
which part of the tree a render object contains.

A row or column shows all of its children.  A scaffold or a container (`Single`)
shows the last of its list and a slot the first: a list may be longer
(`ManyForOne`), and then the rest of it has elements that no frame builds
(`hidden`).  A widget of one child may come without a list, but an update always
has one, and `children?.last` of an empty list throws in the builder
(`EmptyLists`): such an element is in `empty`, `Shows` nothing, its slots
included, because Flutter puts an error in the place of the whole widget, and
the builders below it are among the `Detached` of that frame.  An empty list for
a slot throws earlier, in the handler of the message (`render/element.dart:204`),
and is left out like other malformed messages.  RootElement's own registration
under the channel's name is left out too: the script does not address it.

### Boot

`pc[c]` is the await a call of `initInstance` is at.  On disk: the assets
directory (`dir`), its files, each absent, partial or whole, the downloaded file
(`saved`) and the asset.  `bundle` is chosen in the initial state among
`Bundles`, and says whether the build is a debug build (`Debug`): only there is
the directory made anew, and only there does `assert` run.  `DeleteDirectory` is the un-awaited, non-recursive delete of the
catch block, `Crash` a kill of the process: the disk stays, everything else is
gone.  "silent" is the end of a call whose `_runApp` could not read `main.js`:
`initInstance` has long completed and nobody is told.  The `.js` form of
AssetBundle renames into a directory that no code creates on that path, so it
can only fail on a first launch; `MoveFile` models it and the runs leave that
bundle out (`Shipped`).  `.js` over the network is stored under the last part of
the url, so the runs use a url that ends in `main.js`; `UrlName` is the
parameter to see the other case.

### Views

The app is chosen in the initial state among `Apps` and does not change: which
page each view shows, which channel names extend which, and what its script
does (`Faults`, `Polite`, and `Eager`: a page is opened, by the script or by the
app, before the script called `__initialize__`).  `OwnNames` and `Orderly` are the apps for
which a property is claimed.  The state is the bridge's `listeners` as three functions (who answers a page's `mount`, its
`update`, and whether `navigate:push` is still registered), whether the script
has called `__initialize__`, and the life of each SanoView.  `Channel.dispose`
removes by prefix: `Covers` says which page's channel name is a prefix of
another's listener names.  `initState` that throws leaves the listeners behind
("broken": Flutter shows an error and never disposes of that state); a `dispose`
whose `unmount` throws leaves them too ("undisposed").  `crashed` is an
exception of a handler that reaches the native trampoline.

### Promises

The engine's state is one record, `rt`: promises with their two lists of
reactions, pairs of resolving functions (with `already_resolved`), the job list,
the async functions and what the element functions of one `Promise.all` share.
Every C function is an operator from the state before a call to the state after
it, under the C function's name; the actions are what the script or the host
may call (`Script`), and the execution of the first job (`RunJob`, one action
per kind of handler).  What a handler does before it returns is not part of the
job that calls it but actions of the script just before it: the job has not
started to change anything by then.  `Promise.all` and its kin are a loop over
the items, each of which is given to `then`: a turn of the loop is a step
(`CombineTurn`), and nothing else runs while one is open (`Loops`).  Values are abstract: plain ones, a
thenable, an object whose `then` throws, and the promises themselves.  `Scripts`
says what a script makes use of, so that each feature is explored deeply without
multiplying all of them.  `mirrors` is a history variable.  Left out: allocation
failures, subclasses of Promise, iterators that fail, `is_handled`.

`PromiseContract` has no pairs, handlers or groups: outcomes, how many reactions
each promise was given, and the queue of what is due, reactions by their number
on their promise and other jobs without one.  Its `Spec` is safety
(`KeepsContract`); that the queue is served is `Progress` (`DueRuns`).

### Generators

One async generator: the state of JSAsyncGeneratorData, its queue, and the
activations of `js_async_generator_resume_next` as a stack, because the body runs
on top of one and may ask again.  A turn of the loop is a step, so that requests
made in the middle are seen.  `frame` is suspended, running, freed or gone;
resuming or freeing one that is not suspended, a failed assertion and an answer
without a request set `fault`.  `asked` and `answers` are history, which
`IteratorContract` reads: answers in order, one each, and an ended generator
answers `next` with done and `throw` with a rejection.  `Finalize` is the
collection of a generator without requests.

### Heap

Cells are objects and captured variables; what refers to what is one set,
`heap.links`, of properties, values of captured variables and records of weak
maps.  The lists are sequences.  Each turn of a loop (`free_zero_refcount`, the
two passes of `gc_scan`, `gc_decref`, `gc_free_cycles`) is a step, and so is each
call of a mark function on a child and each property or record an object lets go
of within a turn.  `loop` has the cell of the turn, the link read ahead and the
children left to mark; the next cell is taken before or after the turn as
`list_for_each_safe` or `list_for_each` does.
The host holds references (`host`), reads and writes properties, as JSObject
does, and releases; the script captures variables and fills weak maps.
`setProperty` takes a reference and `setPropertyStr` hands over the one there
was; both are in `SetProperty`.  `bad` records that something freed was touched.
A captured variable is a cell from the time `close_var_refs` detached it from its
frame (`Capture`); before that the collector does not know of it.
A value of a weak map whose key died in a collected cycle may be left with a
count of 0 until the next collection; `CountsExact` allows it, since nothing
refers to it.

### Maps

`list` is the list of records, `table` the hash table (a set of records for each
bucket: no two of them have the same key, so their order does not matter), `rec`
the records with their counts.  `js_map_clear` is a loop over the list with a
step for each record (`ClearTurn`), in which nothing else runs.  A traversal (`cursor`) is an iterator or a `forEach`; `at` is the
record it stands on and holds.  `Settle` finalizes the map when neither the
script nor a traversal refers to it; `Sweep` is the case in which the collector
finds map and iterators in a cycle and finalizes them in any order.  Keys have a
tag and a number; `map_hash_key` keeps the bits that small tables use.  An
enlargement may fail (`room`).  `OrderedMap` has entries with positions, and
traversals that go on to the next position there is.

### Text

Four steps take a string from the script to the host and back.  The UTF-8 codec
of `cutils.c` and of JS_NewStringLen is written out over bytes; package:ffi and
dart:convert are modelled from how the wrappers use them.

## 3. Runs

| Run | Instance | Shows |
| --- | --- | --- |
| `runtime_safety` | 2 timeouts, 1 interval, 2 jobs, 3 futures, colliding keys, faults, jobs behind `Bridge.invoke` | no double free, no use after free; jobs are stranded only by `Bridge.invoke` and exceptions |
| `runtime_clean` | 2 timeouts, 1 interval, 2 jobs, 2 futures, no collisions, faults or jobs behind `Bridge.invoke`, fair | only the script cancels; references come back; no job is stranded, and they drain; timeouts fire |
| `elements_hostile` | 4 ids with a slot, 2 elements each, a script that never waits, reuses ids, reshapes, and sends empty and longer lists | an id never leads back to an older element |
| `elements_tree` | 7 ids with a slot, fresh ids, a script that waits for registrations, fair | what is visible is reachable, no orphans, the screen catches up |
| `elements_reuse` | 3 ids, reused | violation of `ShownRegistered` |
| `boot` | 1 caller, 3 entries, 3 kinds of bundle in debug and release builds, faults, kills, fair | debug: `main.js` complete after resolve, no silent failure; release: a complete bundle is left alone |
| `views` | 4 views, 3 apps: tidy, throwing, and with a page opened twice and overlapping names; fair | listeners kept and dropped, no crash, pages mount (orderly apps); no view mounts twice (any) |
| `promises` | 5 promises, 3 reactions, 4 scripts: thenables, async functions, `finally` and the combinators, an async generator with 3 requests; fair | one authority per promise, reactions once and in order, what is due runs, one wake-up per await, right and certain answers of groups, answers of the generator in order and, one at a time, certain |
| `generators_queue` | the script with the generator | violation of `Answered` |
| `heap` | 3 cells, 1 slot each, 1 host reference each, 1 weak record | exact counts, no use after free, complete and sound collection, the loops' assertions |
| `maps` | 5 keys (two are one key), 5 records, 2 traversals | records, table and counts agree; refinement of the ordered map; no dangling record |
| `text` | strings of up to 3 units out of 14 at the boundaries of the encoding | strings cross unit for unit |

**Bounds.**  `MaxJobs`, `MaxFutures`, `MaxElements` and the sets `Timeouts`,
`Intervals`, `View`, `Callers`, `Entries` bound the runs; they appear only in
guards.  Two timeouts are the least that can collide and the interval adds the
second map; three futures allow a release, a job loop and another release in
one queue.  Two elements per id are the least for an old and a new one to
compete.  Three archive entries put a file before, at and after `main.js`.  The
timers of a run are never reused, so a run shows every history of that many
timers; likewise views.  `MaxPromises`, `MaxThens`, `MaxFollows` and the `asks` and
`requests` of a script bound Promises: three promises that a script asks for are
the least for one to follow a second while a third is chained to it, and three
requests the least for two to wait behind one.  `MaxDepth` and `MaxAwaits` bound
the generator: one request from within the body, and two awaits in a row.
`MaxCells`, `MaxSlots`, `MaxHost` and `MaxWeak` bound the heap: three cells make a
cycle of two with something hanging off it, and a map, a key and a value.
`MaxRecords` is one more than the count at which the table grows.  `MaxLen` of 3
puts a unit before and after half a surrogate pair.

**The two violations** are disagreements between the code and what it says of
itself; `findings` in `PROJECT.json` quotes the lines.

* `ShownRegistered` with reused ids: the new element's `on(id)` runs before the
  frame in which the old one's `removeListener` calls `off(id)`, and the visible
  element is unregistered.
* `Answered`: an async generator that has ended answers the first of the queued
  requests and leaves the loop, and what answers a request to return does not go
  on with the queue.  Of four calls of `next()` in a row on a generator that ends
  at once, the engine answers two.

**Switches.**  The passing runs fix switches under which a property holds; each
switch is a condition the code does not enforce.  These settings, found while
choosing them, break the named property and are worth repeating when the code
changes.

* Runtime: `UniqueKeys = FALSE` (`OnlyScriptCancels`: a finished timeout cancels
  one created in the same microsecond), `Faults = TRUE` (`NoLeak`: a throwing
  callback skips `clearTimeout`; `JobsDrain`: a failing job ends the loop),
  `InvokeEnqueues = TRUE` (`JobsDrain`: `Bridge.invoke` schedules no job loop).  Besides,
  `Runtime._channel` answers `undefined` (`runtime/runtime.dart:52`), so
  `clearTimeout(setTimeout(f))` stops nothing.
* Elements: `ReuseIds = TRUE` (`ShownRegistered`, the violation above),
  `EmptyLists = TRUE` (`ShownRegistered` and `ScreenMatches`: the children of a
  scaffold become `[]`, `children?.last` at `render/widgets/widget.dart:8` throws,
  and the frame disposes of the builder of the floating button, which
  unregisters it; the slot is not among the scaffold's children, so that when
  these come back the same button is shown again, and nothing registers it),
  `Reshapes = TRUE` (`ShownRegistered`: a container that gains a padding remounts
  its child, whose disposal unregisters it), `ManyForOne = TRUE`
  (`ScreenMatches`: what is left out is not on the screen), `ScriptWaits = "never"` and `DistinctMillis = FALSE`
  (`ScreenMatches`: an update before registration is dropped; a second update in
  one millisecond with a frame in between is not painted).  `ShownRegistered`
  survives the last three, which is what `AlwaysReachable` says.
* Boot: two `Callers` (`ResolvedReadable` and the others: one call unpacks over the
  files of the other.  Besides, `framework/sano.dart:33` tests `_instance` before an
  await and line 52 assigns it after, so that two calls that overlap both pass
  the assertion, and the second `Install` replaces the singleton).  The
  properties say `Debug` where a release build breaks them: `ResolvedReadable` and `NoSilentFailure`
  fail there, since `framework/bundle.dart:157` creates the directory before the
  download, and the next launch takes it for the bundle.
* Views: `LiveHears` without `OwnNames` (two views of one page, or overlapping
  names), `GoneSilent` and `NoCrash` without `Orderly` (a script that throws in
  `unmount`, or updates before it mounts).
* Generators: `Getters = TRUE` (`WokenOnce`: a script that gives Object.prototype
  a getter for `then` and asks the generator in it makes the loop resume a body
  that has just begun to await, against the comment at `quickjs.c:19622`; the
  assertion at line 19731 fails, and so it does when the engine is run).
* Maps: `Keys <- NumberKeys` (`IsOrderedMap`: the integer 1 and the double 1.0 are
  the same key to `js_same_value_zero` and hash differently in `map_hash_key`
  (`quickjs.c:45656`), so that a larger table finds the one and not the other; so
  does the engine when it is run).

**Fairness.**  *Runtime*: scripts return (one that loops forever blocks the
isolate); the event queue is served in order and due timers are queued in it,
so neither a future nor an active timer is starved: strong fairness, since
"idle" is left and entered again and again.  *Elements*: Futures run, the clock
advances, Flutter draws a requested frame; the script owes nothing.  *Boot*:
every await completes unless the process is killed; a failed step completes
too, and new calls are never owed.  *Views*: Flutter builds a pushed page; the
script answers `mount` - an assumption on the script, not on this code.
*Promises, Generators*: the job loop runs while there are jobs (that it is
started is Runtime's `JobsPumped`, with the exceptions that names: a function
invoked over the bridge strands its jobs until something else schedules the
loop), and an activation on the stack, or the body
of a generator, goes on; the script owes no call.

Deadlock checking is off where the system really stops: all timers of a run
used up, a crashed host, a script with nothing left to send or to call.

## 4. Proofs

TLAPS checks the following for every value of the constants that satisfies the
named assumptions; the assumptions only say that the constants have their types,
that the markers (`None`, `Pump`) are not timers or views, and that the ids of a
page make a tree (`TreeAssumption`).

**RuntimeProofs**

* `NeverDoubleFree`, `NeverUseAfterFree`, `TypeCorrect`: collisions and faults
  are included.  `NoDoubleFree` is not inductive.  `IInv` adds what ties the
  places a reference shows up in together: a timer in `clocks` owns a reference
  with no release queued; a release is queued only for a timer that has left
  the map; an active timer that was overwritten in the map still owns its
  reference, because nobody can find it to free it; and a running timer owns
  it, because the release waits for the isolate to be idle.  The queue lemmas
  say what one append or one removal does to "queued" and "at most once";
  `ClearStep`, `CreateStep`, `FireStep`, `FreeStep`, `PumpStep` and `QuietStep`
  are the shapes an action can have, and `NextIInv` has one step per action.
* `NeverCancelledUnasked` (`OnlyScriptCancels`, from `UniqueKeys`): `OwnKeys`
  adds that a timeout's key is not past the clock, that no two timeouts share
  one, that 0 is nobody's key (what `clear` makes of `undefined`), and that a
  timeout is over before its callback runs.
* `NothingLeaks` (`NoLeak`, from `UniqueKeys` and `~Faults`): `Traced` adds that a
  reference is found again, through `clocks` or the release queued for it, and
  that a timer stays in `clocks` only while it may fire, or while the callback
  runs whose closure will clear it; a collision would overwrite the entry and an
  exception skip the closure.
* `OnlyInvokeStrands` (`JobsPumped`), with faults and with jobs behind
  `Bridge.invoke`: a step after which the isolate is idle with jobs and no job
  loop scheduled starts in such a state, or ends a function invoked over the
  bridge, or is an exception.  Every other way out of a script (`evaluate`, a
  timer's callback, a job) schedules the loop or goes on with it, and no future
  takes a scheduled loop away.

**ViewsProofs**

* `NeverMountsTwice` (`MountsOnce`), with overlapping names, faults and impolite
  scripts; the invariant adds that a mount listener belongs to a view of that
  very page which has begun, and that roots belong to views that have begun.
* `AlwaysHears` (`LiveHears`): for the apps of `OwnNames` the listeners of live
  views stay in place.  Faults stay in.
* `NeverCrashes` (`NoCrash`) and `AlwaysSilent` (`GoneSilent`): for the apps of
  `Orderly`, `Calm` adds that only a live view has the script asked for a tree,
  and that once the tree was sent whoever answers updates has a root.
* `TypeCorrect`.  `AppKept` says that the app, and with it `OwnNames` and
  `Orderly`, stays as it was chosen.

**BootProofs**, all with failures and kills at any step

* `TypeCorrect`, for any number of overlapping calls, together with `DiskSound`:
  a file is only in a directory that exists.
* `AlwaysReadable` (`ResolvedReadable`, from `OneCaller` and `UrlName = Main`): in
  a debug build, entries that are not left to write are whole, and a script is
  moved only after it was received.
* `NeverTouched` (`CompleteStable`, from `OneCaller`): in a release build a call
  that goes on to fetch or unpack found no directory, so what it has not
  written yet is absent.  `DebugKept` says that the build does not change.

**ElementsProofs**

* `NeverGoesBack` (`NeverOlder`), for every tree, any re-use of ids and a script
  that never waits: registered elements are among those created, queued ones
  are younger than the registered, and the queue is ordered by age for each id.
* `TypeCorrect`, for the same scripts: `Owned` adds that every fragment there is
  belongs to an element of its scaffold, which is whom its update notifies.
* `AlwaysReachable` (`ShownRegistered`), for every tree, from `Fresh`: fresh ids, no
  reshaping and no empty list for a widget of one child.  Each of the three is
  needed (see the switches); the script need not wait, lists may be longer than
  what is shown, and the clock may stand still.  `FInv` is what makes it
  inductive.  No id has a second element, and what is below an element belongs
  to an id below its own (`Once`, `Kin`).  What is on the screen hangs from Top,
  link by link (`Hung`).  Every element is registered, queued for it, or has left
  the screen (`Told`), and what has left the screen hangs from a link that was
  cut, in the tree and in what was last built (`Lost`); a fresh id is never put
  back, so it does not return, and `off` by its id hurts nobody.
* `ScreenCatchesUp` (`ScreenMatches`) and `NothingOrphaned` (`NoOrphans`), for every
  tree, from `Patient`: `Fresh`, and besides a script that waits for registrations
  and gives a widget of one child one child or no list, and frames in another
  millisecond than the update.  These are the settings of `elements_tree`, and
  each is needed for one of the two (see the switches).  `Page` is what makes
  them inductive: the living elements have the living children; what lives is
  registered or in the one batch that is queued, and nothing else is queued; a
  visible element whose notifier holds the current millisecond is already dirty;
  with nothing dirty the screen shows what lives; what is visible and lives is
  built and painted, or will be rebuilt; and what left the screen is dead and not
  registered.  `ShowsLive` is the induction over the tree: an id that lives and
  is not shown would have a parent like it, and so on up to Top, which is shown.

**MapsProofs**, for any keys, values, number of records and of traversals

* `RecordsAreExact` (`RecordsExact`) and `NothingDangles` (`NoDangling`).  `IInv`
  adds the order of the list (records are linked in the order they were made, so
  what was unlinked stands where it stood), that each record in use is in the
  bucket of its own key and in no other, that a record is empty only while a
  traversal stands on it, how far `js_map_clear` has come, and what the
  finalizers leave to each other when the collector runs them in any order.
* `MapIsOrderedMap` (`IsOrderedMap`, from `HashesAgree`: keys that are the same
  have the same hash, which `map_hash_key` breaks for the integer 1 and the
  double 1.0, see the switches).  A record is mapped to an entry at the position
  it was made; the step that needs the argument is the traversal's, which
  follows the link of a record that may have been deleted under it, while
  `OrderedMap` goes to the least position after its own: `IInv` gives that the
  two are the same record.

**GeneratorsProofs**, for any number of promises, reactions, async functions,
groups and requests

* `OneAuthority` (`SoleAuthority`) and `ResumedOnce` (`ResumesOnce`), for every
  script, getters included.  The invariant `AInv` says three things: `Good`, that
  every reference in the engine's state is to something that is there, that the
  two lists of reactions of a promise are twins where they resume a frame, and
  that one pair or one job may settle a pending promise (`Sole`); and `AsOnce`,
  that the reaction that resumes an async function is in one place, a list of a
  pending promise or the job list.  Each C function has a lemma that says what
  it does to these (`Quiet`: the wakers stay where they were, `Grows`: nothing is
  taken away), and the steps are their composition.
* `GeneratorWoken` (`WokenOnce`) and `GeneratorAnswers` (`AnswersInOrder`, the
  refinement of IteratorContract), from `~Getters`.  `GInv` adds `Shape` (which
  states of the generator go with which frame, stack and queue), `Queued` (the
  requests queued are those asked and not answered, in order), `Said` (answers
  already given are right) and `Woken` (a generator that awaits is woken by one
  reaction of the right kind).  The hypothesis is not for convenience:
  `WokenOnce` is false with getters.

**PromisesProofs**, for any number of promises, reactions, groups, jobs and
requests, and every script, getters included; it builds on `AInv`

* `Repeated` (`Mirrors`): a promise that was resolved with another one, or that
  `finally` returned, is settled as the one it stands for.
  `SoundGroups` (`GroupsSound`): `Promise.all` and its kin answer with what their
  items came to.  `ContractKeeping` (`KeepsContract`): Promises, with a generator
  on top, implements PromiseContract.
* Neither of the first two is inductive, because between the promise that is
  settled and the one that repeats it an outcome travels through reactions,
  jobs, thunks and element functions.  `RInv` (`AlwaysRight`) adds `Right`:
  whatever may settle a promise - a resolving function, a reaction, a job, an
  element function, an async function, a request of the generator - settles it
  with what it should (`Free`: anything will do; `Copies`: the outcome of the
  promise it was registered on; `Repeats`: the one it carries; `Counts`: it fills
  the place of its item).  Of a group, `InPlace` says that filled places hold
  the outcome of their item, and `Counting` that `remainingElementsCount` is one
  for the loop while it is open, and one for each item passed whose place is not
  filled; so it reaches zero only when all are, and once.  Of a pending promise,
  `Numbered` says that its reactions are listed as they were registered.
* Every C function has a lemma that it `Advances` the state: what follows is
  sound again, what was settled stays as it was (`Onward`), and the jobs added
  hold exactly the reactions that became due, in order (`Delivers`).  The three
  compose (`AdvancesTrans`), so a handler that calls several functions is proved
  from their lemmas, and a step of PromiseContract is `Delivers` of the whole.

**HeapProofs**, for any number of cells, slots, host references and weak records

* `SafeMemory` (`NoUseAfterFree`), `ExactCounts` (`CountsExact`), `Collection`
  (`CollectsGarbage`) and `Assertions` (`AssertsHold`), all from `HeapInvariant`
  (`Spec => []IInv`); `HeapTypes` is its first part.  None of the four is inductive: between
  two steps of a loop the counts are not the references there are, and what
  happens next depends on which of them are missing.
* Outside of the marking loops the argument is about a heap with owners:
  `Sane(h, own)` says that links, cells and lists are sound and that each count
  is that of the links and of the owners outside.  The owners are the host, and
  for the length of an operation the C function that has taken a reference and
  not stored it yet, or cut a link and not freed the value.  Each of
  `JS_DupValue`, `JS_FreeValueRT`, `free_var_ref` and `set_value` moves one
  reference between owners and links (`CutSane`, `IncrefSane`, `AddSane`,
  `ReleaseSane`, `VarSane`), so that the counts are never summed up: a set of
  links changes by one member at a time.
* In `gc_decref` the counts are those of the host and of the links of cells whose
  turn is to come (`InDecref`); in the two loops of `gc_scan`, of the links of
  cells whose turn has been (`InWalk`).  At the end of the first the counts are
  the host's alone, so what is left in `gc_obj_list` is held by the host.  In the
  second only what a kept cell leads to comes back, so that list stays within
  reach; at its end the list holds what the host holds and is closed under
  links, hence it is all that is in reach.  The turns do not skip a cell because
  a cell leaves the list in front of the loop's and enters behind it
  (`WithoutPrior`, `AppendList`, `AfterList`).
* While cycles are removed, `Kept` says that the cells in reach lead to nothing
  else, and that a captured variable among them is read by one of them; so
  what is freed is never one of them, and a value that a dead key takes from
  them loses a count and nothing more.  What waits at the end are objects
  that have let go of everything (`ZeroZombies`): a variable among them would
  have a reader, which would be in reach.

**Only model-checked**

* All liveness properties (`DueRuns` among them): fairness is beyond the prover.
* `CrossesFaithfully`: the codec is a recursion over strings, and induction over
  data is beyond it too.

Every other property of a passing run is the statement of a theorem.  The
type invariants, which say the least, are not run but proved.

## 5. Not modelled

* `parse.dart`: stateless tables from strings to Flutter values; a model would be
  the tables again.  `Observer`'s table keyed by `hashCode`, argument arrays in
  `js_value.dart`, and the choice of a wrapper per tag.
* println, CacheManage (unused), FFI bindings, `framework/test.dart` (not
  exported), generated protobuf code, platform folders.
* Of QuickJS: the parser, the compiler to bytecode, the interpreter, the regular
  expressions and the tables of Unicode, and the builtins that are pure
  functions of their arguments.  They are most of its lines, and they are
  sequential transformations of unbounded data: what could be checked of them on
  a small instance is what a unit test checks.  In the heap, shapes, bytecode,
  modules and contexts.  In async generators, a promise that cannot be awaited
  because its `constructor` getter throws (`quickjs.c:19685` ignores the failure
  and the generator never goes on; seen when the engine is run), and the
  collection of a generator with requests outstanding; synchronous generators.
  Variables that a closure shares with a frame that is still running: they are in
  the frame's list (`quickjs.c:15773`), `mark_children` passes them over and
  `free_var_ref` frees them by another branch; Heap has them from
  `close_var_refs` on.
  In maps, keys and values that own traversals of the map they are in, which end
  inside a deletion, and results of the function given to `forEach` that own such
  traversals, which end after the next link was read (`quickjs.c:45989`).  The
  slack of `js_realloc2` (`quickjs.c:45725`): an allocator whose block is larger
  than asked for makes `hash_size` no power of two, against the comment at line
  45526; the mask then leaves some buckets unused, in insertions and lookups
  alike.
* An empty list for a slot of a scaffold (`render/element.dart:204`), which throws in
  the handler of the message.
* `libbf.c`, `quickjs-libc.c`, `unicode_gen.c`, `run-test262.c`, `qjs.c` and
  `qjsc.c` are in the tree and not in the build, which compiles `cutils.c`,
  `libregexp.c`, `libunicode.c`, `quickjs.c` and `ffi.cpp`.

## 6. Plan

Done in this order: Runtime (the core everything runs on), Elements, Boot,
Views, and the proofs of each; then the engine below them: Promises with its
contract, Generators on top of it, Heap, Maps with its abstraction, Text.  Then
their proofs: `NoLeak`, the page of a patient script, Maps with its refinement,
authority and wake-ups of Promises and Generators with the refinement of
IteratorContract; last the heap, and what promises repeat, what groups answer
and the refinement of PromiseContract.

Left: an abstract page (the set of ids with a version each, the script's view of
the screen) that Elements implements when the script waits, and a composition
of Views with Elements for several pages.
