# Broom in TLA+

Broom is a photo manager: a Qt desktop program that keeps a collection of
photos in an SQL database, analyses them in the background and lets the user
tag, group and search them.  This directory models the concurrent core of it -
who runs on which thread, what is sent to whom and in which order -, the backend
that keeps the user's data when statements fail, and the two parts of the GUI
that live off late answers.  It checks the models with TLC on small instances
and proves theorems about them, for every value of their constants, with TLAPS.

To read it: this file, then `TaskExecutor.tla` (the most self-contained),
`AsyncDatabase.tla` and `PhotoInfo.tla`, and `PhotosAnalyzer.tla`, which is where
all of them meet; `Backend.tla` and `SqlBackend.tla` for the database;
`PhotosView.tla` and `FacesDialog.tla` for the GUI.  Paths below are relative to the
directory `src/` of the repository.

    tlc -workers 2 -config TaskExecutor.cfg MCTaskExecutor
    tlapm TaskExecutorProofs.tla


## 1. The system

### Threads

| thread | owner | what runs on it |
| --- | --- | --- |
| GUI thread | `main.cpp` | widgets, item models, `PhotosAnalyzerImpl`, `PhotoInfoUpdater::apply()`, the flush timer, and the setters of a `PhotoInfo` |
| eater | `TaskExecutor` | `eat()`: starts workers |
| heavy workers | `TaskExecutor` | tasks of every client of `ITaskExecutor`; one thread per hardware thread, each leaves after two seconds without work |
| light threads | `TaskExecutor` | one for each light task |
| database thread | `AsyncDatabase` | everything that touches the backend; also the observers of `IPhotosChangeObserver` and the signals of the backend |
| crawler | `PhotoCrawler`, `FileSystemScanner` | walks directories |

Threads talk in four ways: shared queues (`ol::TS_Queue`), functions executed on
the database's thread (`IDatabase::exec`), calls posted to a Qt event loop
(`invokeMethod`, queued signals), and locks around shared data
(`ol::ThreadSafeResource`).

### Components

`PROJECT.json` lists all of them with their files.  The ones with behaviour
worth modelling:

**Task executor** (`core/implementation/task_executor.cpp`).
State: the queue `m_tasks`, `m_working`, `running_tasks` (local to `eat()`),
`m_lightTasks` with mutex and condition variable.  Operations: `add`, `addLight`,
`stop`; the eater's loop; a worker's loop; a light thread.
Hard: everything: three kinds of threads and an owner that stops them; condition
variables notified without the mutex of the waiter; a time-out that races `add`.
Correct if: each task is performed once, at most one worker per hardware thread,
no worker outlives `eat()` (it refers to the locals of it), `stop()` waits for
all tasks, nobody sleeps for ever.

**Tasks queue** (`core/implementation/task_executor_utils.cpp`).  State:
`m_waitingTasks`, `m_executingTasks`, mode.  Operations: `push`, `clear`, the
completion of a task (on a worker), the destructor.  Hard: completions and
pushes refill the executor from several threads; the destructor waits for a
count that completions maintain.  Correct if: the count is exact and within its
limit, no task waits while it could be executed, Fifo and Lifo order hold, a
destroyed queue is used by nobody.

**Asynchronous database** (`database/implementation/async_database.cpp`).
State: the queue of 1024 tasks, `m_working`, the thread, `PhotoInfoCache`.
Operations: `addTask` (and so `exec`, `update`, ...), the thread's loop,
`closeConnections`/`stopExecutor`, `photosModified`.  Hard: requests race the
closing task; the queue is bounded and pushing blocks; tasks executed on the
database's own thread jump the queue.  Correct if: tasks are executed in the
order they were accepted, each once, and every accepted task is executed before
the thread ends.

**Photo info and its cache** (`database/implementation/photo_info.cpp`,
`photo_info_cache.cpp`).  State: one shared copy of each photo in use, under a
lock; weak references to the copies.  Operations: getters, setters (change the
copy, send a delta), `setData` (overwrite with what the backend has).  Hard: the
copy is written by its user and, later, by the notification about each write that
succeeds; one that fails is not answered.  Correct if: copy and store agree when
nothing is under way, unless a write failed, and no edit is lost.

**Photos analyzer and updater** (`database/database_tools/implementation/photos_analyzer.cpp`,
`photo_info_updater.cpp`).  State: `m_photosToUpdate`, `m_loadingPhotos`, `m_tasks`,
`m_touchedPhotos`, the flush timer; the flags of each photo in the backend.
Operations: see section 3.  Hard: GUI thread, database thread and workers pass
photos round, in calls that arrive later; batches are limited; the destructor
blocks the GUI thread; what a failed update was to store is gone.  Correct if:
every photo is analysed, once, its results are stored unless the database fails
to, and the flags in the backend never claim what is not there.

**SQL backend** (`database/backends/sql_backends/`).  State: the tables, the change
log, whether a transaction is open.  Operations: `addPhotos`, `update`,
`removePhoto`, tags, flags, groups, people, `markStagedAsReviewed`, queries, the
check of the schema's version.  Runs on one thread; hard because every
statement may fail, in the middle of a batch, at COMMIT or between two calls of
one task.  Correct if: every call is all or nothing, what is reported as done is
on the disk, the change log replays to what the tables hold, and what clients are
told was added or removed was.  **Memory backend**: the same interface on containers;
it should be one abstract backend too.

**Photos view** (`gui/desktop/models/flat_model.cpp`,
`quick_views/photos_model_controller_component.cpp`).  State: the rows shown, the
index of rows, cached details; dates and filters of the controls, the filter
of the model, a timer that postpones the search.  Operations: the answers
`fetchedPhotos`, `fetchedPhotoProperties`, `setAvailableDates`; the signals
`photosAdded`, `photosModified`, `photosRemoved`, `photosMarkedAsReviewed`; the
controls.  Hard: answers and signals come by queued calls, long after what they
are about; the filter is read when a query is executed, not when it is asked for.
Correct if: once all is quiet the rows are the photos of the filter, details are
those of the database, and a removal takes exactly the removed photo.

**Faces dialog and people manipulator** (`gui/desktop/ui/faces_dialog.cpp`,
`utils/people_manipulator.cpp`, `database/implementation/apeople_information_accessor.cpp`).
State: the faces found on a photo with names, persons and fingerprints, filled by
tasks of the executor, shown and stored by the GUI thread.  Hard: closing while a
task waits for the database, storing before the faces are complete, rows told by
place or by person.  Correct if: accepted names are stored, one row for each
face; stored names are shown; the dialog always closes.

**Thumbnails** (`core/implementation/thumbnail_manager.cpp`, `thumbnails_cache.cpp`):
cache lookups, generation in a Lifo `TasksQueue`, results by callback.
**Callback helpers** (`core/function_wrappers.hpp`: `safe_callback` and its
relatives): a callback dropped when its owner has gone.  **Signal helpers**
(`signal_postponer`, `signal_filter`): rates of signals.  **Projects**
(`project_utils`): lock file, a nested event loop while a database opens.
**Algorithms**: `series_detector`, `tag_info_collector`, filters and their SQL,
`PhotoDataDelta`.

The rest is presentation, image processing, file access and glue, and is listed
in `PROJECT.json` as not modelled with the reason.

### How they meet

    GUI  --exec/update-->  AsyncDatabase queue  -->  backend
     ^                          |                      |
     |  posted calls            |  photosModified      |  photosAdded
     |                          v                      v
    PhotoInfo copies  <-- setData (under lock)     PhotosAnalyzer (GUI)
                                                        |
    PhotoInfoUpdater  <--posted deltas--  workers  <-- TaskExecutor


## 2. Plan

The order is that of importance: first what every other component stands on,
then what holds the user's data, then what shows it.  Done:

1. `TaskPool`, `TaskExecutor` and proofs: the executor, and the abstract pool it
   implements.
2. `TasksQueue` and proofs, on the abstract pool rather than on the executor.
3. `AsyncDatabase`: the queue and its thread, without the tasks.
4. `PhotoInfo`, which EXTENDS `AsyncDatabase`: copy, lock, notifications; proofs
   of both in `PhotoInfoProofs`.
5. `PhotosAnalyzer` and proofs, on `SequenceLemmas`: the background analysis.
6. `Backend`, what a backend promises; `SqlBackend`, which implements it; proofs.
7. `FlatModel` and `PhotosView`, which EXTENDS it; proofs.
8. `People` and `FacesDialog`, which EXTENDS it, with the mutex of `safe_callback`;
   proofs.

Left, in this order:

9. `Thumbnails`: lookup, generation in a Lifo queue, late answers.
10. `MemoryBackend` as a second implementation of `Backend`.
11. `Algorithms`: series detection, tag collection, against reference definitions
    over bounded inputs.
12. `Projects`: opening with a nested event loop and the lock file.


## 3. Modules and code

`PROJECT.json` maps every definition to the lines it models; this section says how
state and actions correspond to the code as a whole.  Definitions named
`X_Something` are broken variants of `X` (a dropped guard, a missing wake-up): each
property is known to fail when one of them takes the place of `X`.

### TaskPool and TaskExecutor

`TaskPool` says what clients rely on: a submitted task is performed at most once,
at most `Limit` at a time, and a halted pool is quiet.

`TaskExecutor` has one action for each step of a thread that another thread can
see.  The eater's place in `eat()` is the variable `eater`; `condition_variable::wait`
is split in the test of the predicate (`EaterCheck`) and falling asleep
(`EaterBlock`), since the workers notify without taking the mutex; spurious
wake-ups are an action.  Workers are indistinguishable, so they are counted by
place (`idle`, `busy`, `leaving`, `notifying`).  `WorkerNoTask` is the time-out of two
seconds as well as a stopped queue: it may happen whenever the queue is empty.
`WorkerLeave` and `WorkerNotify` are separate because the decrement lets `eat()`
return before the notification.  A light thread's exit follows
`notify_all_at_thread_exit`: unlock, then notify.  `stop()` is `StopBegin`, `StopQueue`,
`StopJoin`, `StopLight`.

Clients call `add` only before `stop()` has begun (`assert(m_working)` in `add`): what
a client does later would be its own error.

### TasksQueue

Uses `TaskPool`, which `TaskExecutor` implements, for the executor.  Tasks are
numbered in the order of `push`.  `try_to_fire()` with its loop is one operator
(`TryToFire`), because the mutex of the queue is held throughout; a push by a task
that is being performed is allowed in the destructor too, as in the code.  The
lock taken again between `clear()` and the wait makes the destructor two steps.

### AsyncDatabase

The queue (`Executor::m_tasks`, blocking at its limit), the test of `m_working` and the
push as two steps (`AddTask`, `Push`), the loop of the thread (`Pop`, `TaskDone`,
`ThreadEnds`) and `stopExecutor()` in four.  What tasks do is left to the modules
that EXTEND it.  `accepted` and `performed` are history variables.

### PhotoInfo

One photo, its tags as stored and as cached (`copy`; no copy when nobody holds
it: the cache has weak references), the lock of the copy, and how far the
database's thread is in the task it executes (`stage`).  A setter holds the lock
from its change until the delta is queued - in the code the delta is sent inside
of the call that modifies the locked resource - so `SetTag` takes the lock and
`EditorPush` gives it back.  `setTags()` uses `std::inserter`, which does not replace:
`Inserted`.  After storing an update, the thread reads the photo back and
overwrites the copy: `StoreDelta`, then `NotifyCache`, which needs the lock.
An update may fail (`StoreFails`), at BEGIN, at a statement or at COMMIT, which
leaves the transaction open (`open`; `committed` is what is on the disk): nothing
is signalled then, and `AsyncDatabase::update()` only asserts the status
(`async_database.cpp:268`), so that in a release build the copy stays as the user
edited it.  `refused` is history: what failed to be stored since an update last
succeeded.  A successful one brings copy and store together again.  Reads are
taken to succeed.
`OtherUpdate` is any other thread that updates the photo.  Closing is done by the
GUI thread, the one that edits.  `lastSet` is history: what the user set.

### PhotosAnalyzer

Per photo: which of its fields (`tags`, `geometry`) the backend has, its three flags,
whether it is marked broken.  Three actors: the database's thread (`Execute`, one
action over the kinds of task), the GUI thread (`HandleEvent`, `FlushTimeout`,
`StopBegin`, `StopEnd`, `ScanCollection`), the workers (`Perform`, `TaskFinished`).
Calls posted to the GUI thread are a sequence, `events`; tasks of the database are
a sequence, `dbQueue`.  Both keep the order of posting, as Qt and `TS_Queue` do.

An update of a batch of touched photos may fail, and so may `set()` of the mark of a
broken photo (`FailsToStore`).  `photo_info_updater.cpp:335` ignores the result, the
transaction is rolled back and the deltas, moved out of `m_touchedPhotos`, are
gone: `lost` is history that names the fields so forgotten.  Their flags are not
stored either, so the next session analyses these photos again; in this one
nothing does.  There is no bound on the failures.  `TaskFinished` is one step,
erasing the task, notifying the destructor and emitting the signal: the calls
after the erasure may reach a destroyed object, which is not modelled.  Not here:
an announced photo that is not in the backend, which is a finding about
`SqlBackend`, a COMMIT that leaves its transaction open, and failing reads.

`StoreFlags` is `storeFlags()` of the SQL backend: flags a delta does not mention are
written as 0.  `Merged` is `DataDelta::operator|=`.  The destructor blocks the GUI
thread (`phase = "stopping"`): no posted call is handled until the tasks are gone
and then the posted calls die with their receiver.  A task with the analyzer's
`this` that the database executes after that is undefined behaviour: the next
state is either unchanged but for the queue, or `"crashed"`.

The executor and the database behind this module are simple queues; that the
real ones behave like that is what `TaskExecutor` and `AsyncDatabase` are for.

### Backend and SqlBackend

`Backend` is what `IBackend` and its operators promise about photos and groups: a
call makes the whole of its change or none of it, and an error may take the
content back to what was durable, never to something in between.

In `SqlBackend` a content is the set of rows of each table and the change log as a
sequence.  A call of the code is a chain of contents, one after each writing
statement; what ends it is decided by how the code uses transactions.
`InTransaction` is `Transaction` with `BEGIN`, rollback on error and a COMMIT that may
fail and leave the transaction open (`open`); `Autocommit` is what the operators do
that open none.  The engine refuses a statement that breaks a foreign key
(`Consistent`); another statement, BEGIN, COMMIT or the process may fail up to
`MaxFaults` times (`Crash`).  Groups of calls made by one task -
`GroupsManager::group()` and `ungroup()` - are one action for each call, joined by
`made`, the ids that the task keeps in local variables; no other task comes
between them, as they run on the database's thread.  Ids are chosen as SQLite does
without AUTOINCREMENT: those of removed rows come back.  `Post` gives the tasks
clients can ask for by what they were told (`seen`), so tasks may be outdated when
they are executed.  `granted` is history: the photos `addPhotos()` signalled and
reported as added, less those whose removal was signalled; `seen` has those as well that were
signalled although the call failed.  `Content` is the refinement mapping: what queries read of the
tables.  `addGroup()` lets an exception of the log escape, which ends the process.

### FlatModel and PhotosView

`FlatModel` has one operator for each handler of the model, on a record of
`m_photos`, `m_idToRow` and `m_properties`; the merge of `fetchedPhotos()` with its two
iterators is a recursive function.  `Ordering` says what a sort of ids, rows or places
returns.  `PhotosView` adds the component with the
controls, the collection as far as the view can tell photos apart (date, staged,
broken, group), and two queues that keep their order: tasks of the database's
thread, events of the GUI's loop.  The filter is read when the list is made
(`FetchMatchingPhotos`), as `FlatModel::fetchMatchingPhotos()` does through
`this`.  `Request` stands for the rest of the program: scan, edits, marking,
grouping, ungrouping; its calls succeed, as what failing ones do is in `SqlBackend`.
An undefined step (a row beyond the end, a null database)
sets `crashed` and ends the run.

### People and FacesDialog

`People` is the part of the schema and of `APeopleInformationAccessor` that
concerns one photo.  `FacesDialog` has three actors: the GUI's thread in
the modal loop of the dialog, the task of the executor that holds the mutex of its
`safe_callback`, and the database's thread, on which both evaluate one request
at a time and block.  What a task does with an answer up to its next request is
one step with that answer.  `Close` is the destructor: it needs the mutex
(`worker = "idle"`).  The places the rows have come back sorted (`SortedRects`); when
there are none, faces are detected.  What the network recognizes is a choice among
all the people known (`Recognizable`): the fingerprints of other photos are not in
the model, so anybody may have one.  Opening, accepting and rejecting are the user's.


## 4. Runs

| run | configuration | states | what it shows |
| --- | --- | --- | --- |
| `executor` | 2 threads, 2 heavy and 2 light tasks, `stop()` at any time | 73 575 | slots accounted, `eat()` outlives its workers, `stop()` waits for light tasks, refinement of `TaskPool`; a served queue is worked off and `stop()` returns once the eater has gone |
| `tasks_queue` | 6 pushes, 1 heavy worker, both modes | 5 178 | nothing waits needlessly, order, the destructor returns and leaves nothing |
| `photo_cache` | 1 tag with 2 values or none, editor and another client, 3 requests, queue of 2, 1 failing statement or COMMIT, close at any time | 173 462 | when idle the copy is what is stored, or what failed to be stored since an update last succeeded; order of execution; the thread ends after the closing task only; callers return unless the queue is full |
| `photos_analyzer` | 2 photos in any of four earlier states, one unreadable, 2 workers, kick limit 2, any update may fail, destruction at any time | 50 936 | one batch at a time, applied deltas are flushed, nothing analysed twice, nothing forgotten but what an update failed to store, flags never ahead of data; every other photo ends analysed or broken; the destructor returns |
| `collection` | three earlier collections, batches of 2 photos, 3 tasks, 1 fault or crash anywhere | 711 959 | refinement of `Backend`; the log of tags replays to the tags whatever failed, that of groups as long as nothing failed; a photo reported as added is there and on the disk until its removal is signalled, whatever failed; success means committed |
| `view` | two collections of 2 and 5 photos, 2 requests of others, 1 use of the controls, 1 row shown, closing at any time | 4 210 761 | once quiet the rows are those of the filter and details are fresh; the list is taken over exactly; one removal between two lists takes exactly its photo; the range of dates stays within the dates |
| `faces_dialog` | 3 faces, 2 names, four earlier contents, opened 3 times | 704 962 | accepted names are stored, stored names are shown, the dialog closes |

Five runs end in a violation of what a comment or a test of the source says.  They
are findings:

| run | what the source says | what happens |
| --- | --- | --- |
| `executor_dropped` | `task_executor.cpp:101` "wait for heavy tasks" | the last worker times out; a task is added; `stop()` follows; the eater, which has tested the queue for work or is about to start a round, sees `m_working` false, no worker running, and returns with the task in the queue |
| `executor_lostwakeup` | `task_executor.cpp:163` "notify manager that thread is gone" | the eater tests `running_tasks`, the last worker decrements it and notifies, the eater goes to sleep: `stop()` joins it for ever |
| `photo_lostupdate` | `iphoto_info.hpp:65` "set tag" | set tag 1; it is executed; before its notification set tag 2; the notification writes tag 1 only to the copy; the user removes or sets something else: the delta carries the copy, without tag 2 |
| `view_removals` | `flat_model_tests.cpp:318` expects that exactly the removed photo goes | two groups are dissolved in one go: the second `photosRemoved` finds its row in an index that was not made anew after the first, and erases another row or one beyond the end |
| `collection_announced` | `ibackend.hpp:116` "If operation is sucessful photosAdded() signal is emited." | a statement of `addPhotos()` fails after the photo got its id; the transaction is rolled back, the call returns false, and `photosAdded` is emitted with the id all the same |

`photosRemoved` is as untrue as `photosAdded` in one case, for which there is no run:
when the foreign keys refuse the removal of a representative that was put into
another group, nothing is deleted and the signal is emitted all the same
(`photo_operator.cpp:128`; `ibackend.hpp:218` says "emited after photos removal").  The
model does so too: `RemovePhoto` reports the removal however the transaction ended.

### Bounds, and why they are enough

- Executor: two workers are the least number with which a slot is both taken and
  free, two tasks the least with which one is added while another is performed,
  two light threads contend for the mutex.  The two violation runs need only
  `NThreads = 1`.  The theorems hold for any number.
- Tasks queue: with one worker the limit is 3 tasks, so six pushes fill the
  executor and leave three waiting to tell the order.  `MaxPushes` bounds `pushed`.
- Collection: with three tasks a photo can be added, edited and grouped, or a group
  dissolved and its id reused; a batch of two has a middle; one fault is enough
  for each place where one can strike, and the states it leaves go on into the next
  calls.  `collection_announced` has the same bounds.
  `MaxPhoto` and `MaxGroup` bound ids: a call that needs one more is not made.
- View: the five photos are two groups and a dated photo, the least with which a
  wrong row is removed; the two to review tell the filters apart.  `MaxRequests`,
  `MaxControls` and `MaxShown` bound what others, the user and the delegates do, each
  at any moment; one of each already meets all the answers of the others on their
  way.
- Faces: three sessions see what two earlier ones stored; three places with two
  names give a name twice and a face none.
- Database and photo: a queue of two is full with two callers; three requests are
  a fetch and two edits, or an edit and a foreign update, in any order (`MaxRequests`
  bounds the history); one failure of the two updates, before the other, after it
  or as a COMMIT that the other finds open.  The lost update needs two tags and no other client.
- Analyzer: two photos and two workers make batches of one or two photos while
  up to four tasks exist, and reach the limit of the timer (`KickLimit = 2` for the
  code's 500).  Photos are added once each; the number of new photos is what
  bounds the run.  `Earlier` gives what a previous session may have left: a new
  photo, one just added, one with a zeroed flag, one broken.

`CHECK_DEADLOCK FALSE` is stated where the system may stop: a stopped executor, a
closed database, a destroyed queue or analyzer, a program nobody asks for
anything.

### Fairness, and why the code justifies it

- `TaskExecutor`: weak fairness of the eater, of the workers' steps and of
  `stop()`: the scheduler runs every thread that can run, `pop_for` ends, tasks
  return.  Strong fairness of each light thread: it competes for
  `m_lightTasksMutex`, which others hold only briefly.  None of `add`, `addLight`,
  `StopBegin`, nor of spurious wake-ups.
- `TasksQueue`: weak fairness of the executor's start and finish of tasks - the
  executor serves its queue (`WorkersServeTheQueue`) - and of the destructor.
- `PhotoInfo`: weak fairness of the database's thread, of a caller that can push,
  and of closing.  `CallersReturnUnlessFull` says more only where the queue never
  fills: with a full queue a setter waits for room with the lock that the
  database's thread needs, and neither goes on.  In the program that takes 1024
  tasks in line.
- `PhotosAnalyzer`: weak fairness of the database's thread, of the event loop, of
  the timer once it runs, of the workers, and of the end of the wait.

- `FacesDialog`: weak fairness of the database's thread (`Serve`), of the steps of
  `store()`, of the destructor and of the calculations of a task.  None of
  `StartJob`: that the dialog closes must not depend on an executor that is busy.
- `SqlBackend` and `PhotosView` are checked for safety only: a database that stops is a
  crash, and what the view promises it promises once both queues are empty.

Nothing is assumed about what the user does.


## 5. Proofs

`*Proofs.tla` modules hold theorems for every value of the constants that meets
the assumptions of the module (`ExecutorAssumption`, `QueueAssumption`,
`DatabaseAssumption`, `PhotoAssumption`, `RequestsAssumption`, `AnalyzerAssumption`,
`SqlAssumption`, `EditsAssumption`, `ViewAssumption`, `PeopleAssumption`,
`DialogAssumption`, `EarlierAssumption` of `PhotosAnalyzer` and of `FacesDialog`, and
`CollectionsAssumption` of `SqlBackend` and of `PhotosView`).  TLC evaluates these on
every run.  The last four are about what an earlier session left: the one of
`SqlBackend` says that rows are of their types and keep the primary and the foreign
keys, and that the log tells the tags; the one of `FacesDialog` that rows are of
their types and that no place has two of them; the others only give types.

One theorem has a hypothesis of its own: `LogAlwaysTellsGroups` asks that every
collection an earlier session left has `GroupsAreKept`.  The property is about an
application in which nothing failed, and a session in which something failed may
leave tables whose log does not tell the groups, so it cannot be an assumption of
the module.  It is what such a session leaves: `GroupsAreKept` is part of the invariant
the theorem rests on.  `CollectionsAreKept` of `MCSqlBackend` has TLC evaluate it for
the collections of the run, one of which has a group.

| module | inductive invariant | theorems |
| --- | --- | --- |
| `TaskExecutorProofs` | `TypeOK`; for heavy tasks `TaskInOnePlace`, `SlotsAccounted`, `EatOutlivesTasks` and: once `stop()` or the eater's last wait has begun, `m_working` is false; for light tasks: the counter is the number of light threads that have not counted down, the mutex is held exactly by one that is unlocking, and a stopped executor has a counter of 0 | each of those properties, `StopWaitsForLightTasks`, and `ExecutorIsTaskPool` |
| `TasksQueueProofs` | `TypeOK`, every pushed task is in one place once, `ExecutingCounted`, `NoTaskWaitsNeedlessly`, `DestroyedIsQuiet`; for the order, that the waiting tasks are sorted by the number of their push | those of the invariant, and `AlwaysHandedInOrder`, an action property: a sorted list whose first or last element is taken gives the oldest or the newest |
| `PhotoInfoProofs`, on `AsyncDatabase` | type, `ExecutedInOrder`, the closing task is among the accepted ones once the queue is stopped, the thread ends only with nothing left, so after the closing task | `AlwaysExecutedInOrder`, `AlwaysEndsClosed` |
| `PhotoInfoProofs`, on `PhotoInfo` | the database's invariant, `TypeOK`, which task each `stage` belongs to, `StoreFollows`: store and disk differ only while a failed COMMIT left a transaction open, and then something was refused; and `CopyFollows`: unless an update is queued, in hand or on its way to the queue (`CopyUnderWay`), or the connections are closed, the copy is what is stored, what is on the disk, or among what was refused | `TypeCorrect`, `CopyAlwaysStoredOrRefused`, and `UsesDatabase`: the specification implies `AsyncDatabase`'s, so its theorems carry over |
| `SqlBackendProofs` | each is said of the connection and of the disk, because a call that fails takes the one back to the other.  `Durable`: they differ only while a failed COMMIT left a transaction open, and none is open when a call has just reported success.  `Sane`: types and foreign keys.  `TagsInv`: the log follows the tags.  `GrantedInv`: `Sane`, and the photos granted are in the tables of both.  `KeysInv`: `Sane`, and no two groups have the same id.  `GroupsInv`, of the connection alone: `Sane`, and as long as nothing failed `GroupsAreKept`, the photo a task added is named by no row and no entry, and the group it made is one | `SuccessIsDurable`, `TypeCorrect`, `AnnouncedAlwaysExist`, `LogAlwaysTellsTags`, `LogAlwaysTellsGroups`, and `CallsAreAllOrNothing`: every step is one of `Backend` or loses what was not durable.  The chains are folds over sequences; what a chain leads to is proved from its first statement that fails, or from none |
| `PhotosAnalyzerProofs` | for the flush none beyond the property: every step that adds to the touched photos keeps the timer running or starts it, as the first photo is below any limit above one.  For the flags `FlagsInv`: everything under way - requests, posted calls, tasks, touched photos - is about photos of the backend and carries only flags that are true of them; a photo is added once.  For the analysis: the number of batches asked for and under way, counted over two queues, is one if `m_loadingPhotos` is set and none otherwise; `AllHeld`: what the backend lacks of a photo is held in one of the places on its way, or lost by a failed update, and every step passes it on to the next; `Apart`: a photo is in one of these places at most, once, and the scan comes before anything is under way | `AppliedDeltasAreFlushed`, `FlagsNeverAhead`, `TypeCorrect`, `OneBatchAlways`, `NothingEverForgotten`, `AlwaysAnalysedOnce` |
| `PhotosViewProofs` | `Typed`; `Exact`: after one removal the rows are the last list without the photos removed, after none the index has each photo at its row; `Queued`: only the task in hand is a step of a group, and every name on its way is or was a photo; `Fresh`: details kept or coming are those of the database, or what makes them so is still on its way; `Telling`: the rows, or the last list that comes, less the photos whose removal comes, are what the filter asks for, unless a list will be asked for | `TypeCorrect`, `TimeViewStaysWithinDates`, `ListsAreTakenOver`, `FirstRemovalAlwaysExact`, `DetailsAlwaysFresh`, `CollectionAlwaysShown` |
| `FacesDialogProofs` | six layers.  `Control`: types, a task waits, runs, has posted its result or the list is shown, one call for each thread in the queue.  `Ordered`: infos of an earlier dialog are ahead of the calls of this one, so none is left once there are faces.  `KnownNames`.  `OneRowEach`: no place has two rows, ids are those of the places' rows, infos are about different places.  `RightNames`: a face's name is its person's, and that of the place's row while the dialog is open.  `Accepted`: an accepted name is that of the face, then of the one info about its place, then of its row | `IdsAreOfRows`, `PlacesHaveOneRow`, `AcceptedNamesAreStored`, `StoredNamesAreShown` |
| `SequenceLemmas` | - | what `FlattenSeq`, `SetToSeq` and `ToSet` of the community modules return, ranges of `Append` and `Tail`, sequences in which nothing comes twice, and that `InOrder` and `Ascending` put a finite set in order, each element once: lemmas of the other modules |

Why strengthening is needed: that `stop()` waits for light tasks follows from a
counter, which means nothing unless it equals the number of threads it counts;
that `eat()` outlives its workers follows from `running = 0`, which means nothing
without `SlotsAccounted`; that the copy is right when idle is about the state after
several steps of two threads, some of which fail, and `CopyFollows` says what holds
in between; that
stored flags are true is about the next update in the queue, whose flags were read
when the photo was loaded, went through a task, were merged with another
delta's and waited for the timer, so that `FlagsInv` must speak of every place they
pass; that nothing is forgotten needs `FlagsInv` as well, for the photos
`updatePhotos()` makes no task of because a flag is set.

`ShowsTheCollection` and `FreshDetails` speak of a moment at which both queues are
empty, so they say nothing of the moments before: `Telling` and `Fresh` say for every
place of a queue what the events behind it still change.  A list that comes is
right only together with the removals that come after it, a detail only with
the modifications behind it, and neither has to be while a list is going to be
asked for.  A group's members join without a signal that makes the view ask again:
that they vanish is due to the representative, whose adding was signalled before,
and so `JoinTold` is part of the invariant.

`NamesAsAccepted` speaks of the moment at which the dialog is closed and the queue
empty, `ShowsStoredNames` of the list.  In between a name is handed on four times: from
the list to `m_faces`, to a person that is found or made, to an info in the queue,
to a row, which is found by id, by place or by person.  That the last step writes
the row of the place and of no other needs `PlacesDiffer`, and `PlacesDiffer` needs that
what an info says of its place - this row, or none - is still so when it is
executed.  Nothing waits for the infos: a dialog opened meanwhile relies on the
order of the queue alone, which `Ordered` states.

`ListIsTakenOver` is about a loop over two lists, a recursive function in the model.
That such a function exists at all, `LoopExists` shows with the least relation that
is closed under the loop's step.
The argument is the one of a loop: what was passed in both lists is the same
(`Half`), every turn brings the end nearer (`Follows`), and a least counterexample
in the number of places that remain shows what the whole comes to
(`MergedProperties`).

`LogTellsGroups` is about photos that had one role: replaying deltas gives a photo one
group, and a row of each role can be there at once.  That such a photo has no row of
the other role is what `RolesAreKnown` is for: a row whose role the log does not
have would be one nobody logged.  `GroupCreate` adds rows for the photo an earlier
call of the same task gave, without reading anything about it: that it has no group
yet holds only because the id was a new one, because rows and entries are about
photos that are there, and because a task's calls follow each other on one thread.

`FlattenSeq` is recursive over the places of a sequence.  The library's induction
theorems cannot be used (they take an operator as a parameter); instead the least
place at which a claim fails is taken from the set of all such places
(`LeastNumber`), which the well-foundedness of the natural numbers provides.

Proved only as far as the constants' assumptions go: the theorem about the
refinement of `TaskPool` and all safety theorems are about `Spec`, without fairness.

### Only model-checked

- Every liveness property (`WorkersServeTheQueue`, `StopReturnsOnceEaterGone`,
  `DestructorReturns`, `CallersReturnUnlessFull`, `EverythingAnalysed`, `StopReturns`,
  `DialogCloses`):
  fairness and ENABLED are out of the prover's reach.
- The violations are counterexamples, so there is nothing to prove.
- `TaskInOnePlace` and `ExecutingCounted` are the other way round: parts of inductive
  invariants that are proved and that no run needs to check again.

No module that is proved about uses a RECURSIVE operator.


## 6. Not modelled, and why

The map covers the code whose steps other actors can see; most of the other lines
of the repository are presentation, numerical code, input and output, SQL text
and glue, which have no protocol of their own.

- Of `AsyncDatabase`: tasks submitted on the database's thread, which are executed on
  the spot inside of another task; `init()`; a second project opened after the first
  was closed.
- Of `PhotoInfo`: the setters of other fields, which have the shape of `setTag()`,
  and `markFlag()`, which takes the lock twice.
- Of the updater: `updateSha256()`, which the analyzer never calls, and the view that
  shows progress.
- Of the SQL backend: thumbnails, checksums, the queries of lists beyond the filters
  of the view, start-up and migration of the schema, MySQL.  Faults strike
  writing statements, BEGIN and COMMIT, not reads.  A crash is the death of the process:
  what a loss of power leaves of the write-ahead log is SQLite's.  Asserts are those
  of a release build, which has none, in this module as in `PhotoInfo`.
- Of the view, `FreshDetails` leaves out ids of removed photos: details that come
  late for one are kept in the model, as the index still knows the id, and would be
  shown for a photo that gets the id next; no comment or test speaks of it.
  Category and rating, which go the way of the switch for new photos;
  expressions match a date only; a group is named by its representative.
- Of the faces dialog: failing statements of the tables of people, a photo that
  is removed while the dialog is open, drawing, and the other operations on people.
- Data races as such: where one decides what happens next (`m_faces`), the model
  ends in `crashed` or takes either order; where it does not (`m_working`, the size
  that `photos_analyzer.cpp` reads on another thread) the value is read or written
  in one step.  Also exceptions and failing allocation, destruction of mutexes and
  condition variables in use (a worker's last notification), and a machine for
  which `hardware_concurrency()` is 0.
- Thumbnails, the memory backend, algorithms, projects: in the plan.
- The rest of the GUI, image and video processing, reading of metadata, file
  access, generators of groups, generators of SQL text, plugins that start a
  database server, the updater, the crash catcher.
- Third-party code (Qt, OpenLibrary, SQLite, Exiv2, dlib): modelled only as the code
  uses it (queues, event loop, thread-safe resource, timers, statements).
