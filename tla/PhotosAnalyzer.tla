--------------------------- MODULE PhotosAnalyzer ---------------------------
(***************************************************************************)
(* The background analysis of photos: PhotosAnalyzerImpl, its              *)
(* PhotoInfoUpdater and the updater's tasks.                               *)
(*                                                                         *)
(* Three kinds of threads meet here.  The GUI thread owns both objects and *)
(* handles, in order, the calls posted to it (invokeMethod and queued      *)
(* signals) and the flush timer.  The database's thread executes the tasks *)
(* of its queue, in order.  The executor's workers perform the updater's   *)
(* tasks.  A photo goes round: the scan of the constructor or photosAdded  *)
(* announces it, processPhotos() has a batch loaded, updatePhotos() makes  *)
(* tasks of what is missing, they post deltas, apply() merges them in      *)
(* m_touchedPhotos and flushCache() sends them to the database.            *)
(*                                                                         *)
(* An update() or set() of the database may fail.  Nobody looks at what it *)
(* returns: the results it was to store are gone (lost).                   *)
(***************************************************************************)
EXTENDS Integers, Sequences, SequencesExt

CONSTANTS Photos,
          Workers,     \* heavyWorkers() of the executor
          KickLimit,   \* so many touched photos do not restart the timer: 500
          Unreadable,  \* photos whose size cannot be read
          Earlier      \* what an earlier session may have left of a photo

ASSUME AnalyzerAssumption == /\ IsFiniteSet(Photos)
                             /\ Workers \in Nat \ {0}
                             /\ KickLimit \in Nat \ {0, 1}
                             /\ Unreadable \subseteq Photos

Fields == {"tags", "geometry"}
Flags == {"StagingArea", "ExifLoaded", "GeometryLoaded"}

\* A photo in the backend.
PhotoStates == [known : BOOLEAN, data : SUBSET Fields, flags : [Flags -> {0, 1}],
                broken : BOOLEAN]

\* A flag is stored with the data it is about, but a later delta that does not
\* mention the flag zeroes it: data with the flag 0 is possible.
ASSUME EarlierAssumption ==
    /\ Earlier \subseteq PhotoStates
    /\ \A s \in Earlier : /\ ~ s.known => s.data = {}
                          /\ s.flags["ExifLoaded"] = 1 => "tags" \in s.data
                          /\ s.flags["GeometryLoaded"] = 1 => "geometry" \in s.data
                          /\ s.broken => "geometry" \notin s.data

\* What a DataDelta brings: fields, and values for some flags.
Deltas == [fields : SUBSET Fields, flags : UNION {[S -> {0, 1}] : S \in SUBSET Flags}]

\* m_touchedPhotos[id] of a photo that is not there: default constructed.
NoDelta == [fields |-> {}, flags |-> <<>>]
Untouched == [p \in Photos |-> NoDelta]

VARIABLES
    stored,      \* the backend: what it has of every photo
    dbQueue,     \* tasks of the database's thread
    watched,     \* photosAdded is connected to addPhotos()
    events,      \* calls posted to the GUI thread
    toUpdate,    \* PhotosAnalyzerImpl::m_photosToUpdate
    loading,     \* PhotosAnalyzerImpl::m_loadingPhotos
    tasks,       \* PhotoInfoUpdater::m_tasks, in the order they were added
    touched,     \* PhotoInfoUpdater::m_touchedPhotos
    timerActive, \* m_cacheFlushTimer.isActive()
    phase,       \* life of the analyzer
    lost         \* history: what the database failed to store of a photo

guiVars == <<toUpdate, loading, touched, timerActive>>
vars == <<stored, dbQueue, watched, events, tasks, guiVars, phase, lost>>

NewPhoto == [known |-> FALSE, data |-> {}, flags |-> [f \in Flags |-> 0], broken |-> FALSE]

Init ==
    /\ stored \in [Photos -> Earlier]
    /\ \A p \in Unreadable : "geometry" \notin stored[p].data
    /\ dbQueue = <<[kind |-> "scan"]>>
    /\ watched = FALSE
    /\ events = <<>>
    /\ toUpdate = <<>>
    /\ loading = FALSE
    /\ tasks = <<>>
    /\ touched = Untouched
    /\ timerActive = FALSE
    /\ phase = "running"
    /\ lost = {}

-----------------------------------------------------------------------------
(* The database's thread *)

Announce(photos) == [kind |-> "addPhotos", photos |-> photos]

\* FilterPhotosWithFlags in mode Or, and general flag State = Normal.
Uninitialized(s) == /\ s.known
                    /\ ~ s.broken
                    /\ s.flags["ExifLoaded"] = 0 \/ s.flags["GeometryLoaded"] = 0

\* The task of the constructor: find the photos to analyse, then watch for more.
ExecuteScan ==
    /\ events' = Append(events, Announce(SetToSeq({p \in Photos : Uninitialized(stored[p])})))
    /\ watched' = TRUE
    /\ UNCHANGED <<stored, lost>>

\* ASqlBackend::addPhotos(), as "Scan collection" calls it.
ExecuteAdd(photos) ==
    /\ stored' = [p \in Photos |->
                    IF p \notin photos THEN stored[p]
                    ELSE [NewPhoto EXCEPT !.known = TRUE, !.flags["StagingArea"] = 1]]
    /\ events' = IF watched THEN Append(events, Announce(SetToSeq(photos))) ELSE events
    /\ UNCHANGED <<watched, lost>>

\* The task of processPhotos(): read the batch and hand it back.
ExecuteLoad(photos) ==
    LET data == [i \in DOMAIN photos |-> [photo |-> photos[i],
                                          flags |-> stored[photos[i]].flags]]
    IN  /\ events' = Append(events, [kind |-> "updatePhotos", photos |-> data])
        /\ UNCHANGED <<stored, watched, lost>>

\* Mutant: only the flags of the delta are kept.
StoreFlags_Partial(flags) == flags

\* Mutant: every flag is set as soon as something of the photo is stored.
StoreFlags_All(flags) == [f \in Flags |-> 1]

\* storeFlags(): a flag the delta does not mention becomes 0.
StoreFlags(flags) == [f \in Flags |-> IF f \in DOMAIN flags THEN flags[f] ELSE 0]

\* The call failed and was rolled back, and nobody looks at what it returned.
FailsToStore(results) ==
    /\ lost' = lost \cup results
    /\ UNCHANGED stored

\* update() of the deltas of flushCache(), in one transaction: a statement fails
\* by a fault, or is refused because a photo is gone, and none of them is stored.
ExecuteUpdate(deltas) ==
    /\ \/ /\ stored' = [p \in Photos |->
                          IF deltas[p] = NoDelta THEN stored[p]
                          ELSE [stored[p] EXCEPT !.data = @ \cup deltas[p].fields,
                                                 !.flags = StoreFlags(deltas[p].flags)]]
          /\ UNCHANGED lost
       \/ FailsToStore({r \in Photos \X Fields : r[2] \in deltas[r[1]].fields})
    /\ UNCHANGED <<watched, events>>

\* set() of the general flag State of applyFlags().
ExecuteBroken(p) ==
    /\ \/ /\ stored' = [stored EXCEPT ![p].broken = TRUE]
          /\ UNCHANGED lost
       \/ FailsToStore({<<p, "geometry">>})
    /\ UNCHANGED <<watched, events>>

\* The tasks of the analyzer use its "this": once it is destroyed, whatever
\* happens is undefined.  Nothing seen of it, or the end of the program.
ExecuteDangling ==
    /\ phase' \in {"destroyed", "crashed"}
    /\ UNCHANGED <<stored, watched, events, lost>>

Execute ==
    LET task == Head(dbQueue) IN
    /\ dbQueue # <<>>
    /\ phase # "crashed"
    /\ dbQueue' = Tail(dbQueue)
    /\ UNCHANGED <<tasks, guiVars>>
    /\ \/ /\ task.kind \in {"scan", "load"}
          /\ phase = "destroyed"
          /\ ExecuteDangling
       \/ /\ phase # "destroyed" \/ task.kind \notin {"scan", "load"}
          /\ UNCHANGED phase
          /\ \/ task.kind = "scan" /\ ExecuteScan
             \/ task.kind = "add" /\ ExecuteAdd(task.photos)
             \/ task.kind = "load" /\ ExecuteLoad(task.photos)
             \/ task.kind = "update" /\ ExecuteUpdate(task.deltas)
             \/ task.kind = "broken" /\ ExecuteBroken(task.photo)

-----------------------------------------------------------------------------
(* The GUI thread *)

\* What is in line for the backend already: "Scan collection" offers new paths only.
Offered == {p \in Photos : \/ stored[p].known
                           \/ \E i \in DOMAIN dbQueue : /\ dbQueue[i].kind = "add"
                                                        /\ p \in dbQueue[i].photos}

ScanCollection(photos) ==
    /\ phase = "running"
    /\ photos # {} /\ photos \cap Offered = {}
    /\ dbQueue' = Append(dbQueue, [kind |-> "add", photos |-> photos])
    /\ UNCHANGED <<stored, watched, events, tasks, guiVars, phase, lost>>

\* Mutant: m_loadingPhotos is not tested.
MayLoad_WhileLoading(list) == list # <<>> /\ Len(tasks) < 2 * Workers

MayLoad(list) == ~ loading /\ list # <<>> /\ Len(tasks) < 2 * Workers

Batch(list) == SubSeq(list, 1, IF Len(list) < Workers THEN Len(list) ELSE Workers)

\* Mutant: the batch is copied and stays in m_photosToUpdate.
WithoutBatch_Copied(list) == list

WithoutBatch(list) == SubSeq(list, Len(Batch(list)) + 1, Len(list))

\* processPhotos(), with m_photosToUpdate as its caller leaves it.
ProcessPhotos(list) ==
    IF MayLoad(list)
    THEN /\ loading' = TRUE
         /\ toUpdate' = WithoutBatch(list)
         /\ dbQueue' = Append(dbQueue, [kind |-> "load", photos |-> Batch(list)])
    ELSE /\ toUpdate' = list
         /\ UNCHANGED <<loading, dbQueue>>

AddPhotos(photos) ==
    /\ ProcessPhotos(toUpdate \o photos)
    /\ UNCHANGED <<tasks, touched, timerActive>>

\* Mutant: the signal photoProcessed is not connected.
PhotoProcessed_NotConnected == UNCHANGED <<dbQueue, tasks, guiVars>>

PhotoProcessed ==
    /\ ProcessPhotos(toUpdate)
    /\ UNCHANGED <<tasks, touched, timerActive>>

\* The tasks updatePhotos() makes for a photo: GeometryAssigner, TagsCollector.
TasksFor(data) ==
    LET Task(kind) == [kind |-> kind, photo |-> data.photo, flags |-> data.flags,
                       performed |-> FALSE]
    IN  (IF data.flags["GeometryLoaded"] = 0 THEN <<Task("geometry")>> ELSE <<>>)
        \o (IF data.flags["ExifLoaded"] = 0 THEN <<Task("tags")>> ELSE <<>>)

UpdatePhotos(photos) ==
    /\ tasks' = tasks \o FlattenSeq([i \in DOMAIN photos |-> TasksFor(photos[i])])
    /\ loading' = FALSE
    /\ UNCHANGED <<toUpdate, dbQueue, touched, timerActive>>

\* Mutant: the later delta replaces the one that is there.
Merged_Replaced(old, new) == new

\* DataDelta::operator|=(): map::insert keeps the flag that is there.
Merged(old, new) ==
    [fields |-> old.fields \cup new.fields,
     flags |-> [f \in DOMAIN old.flags \cup DOMAIN new.flags |->
                  IF f \in DOMAIN old.flags THEN old.flags[f] ELSE new.flags[f]]]

TouchedPhotos(deltas) == {p \in Photos : deltas[p] # NoDelta}

\* Mutant: the timer is not started for the first photo.
KicksTimer_NotFirst(deltas) == Cardinality(TouchedPhotos(deltas)) \in 2 .. KickLimit

KicksTimer(deltas) == Cardinality(TouchedPhotos(deltas)) < KickLimit

\* A running timer may be restarted or not: it fires some time later anyway.
Apply(p, delta) ==
    /\ touched' = [touched EXCEPT ![p] = Merged(@, delta)]
    /\ timerActive' = (timerActive \/ KicksTimer(touched'))
    /\ UNCHANGED <<toUpdate, loading, tasks, dbQueue>>

ApplyFlags(p) ==
    /\ dbQueue' = Append(dbQueue, [kind |-> "broken", photo |-> p])
    /\ UNCHANGED <<tasks, guiVars>>

\* The event loop handles the next posted call.
HandleEvent ==
    LET event == Head(events) IN
    /\ phase = "running"
    /\ events # <<>>
    /\ events' = Tail(events)
    /\ UNCHANGED <<stored, watched, phase, lost>>
    /\ \/ event.kind = "addPhotos" /\ AddPhotos(event.photos)
       \/ event.kind = "photoProcessed" /\ PhotoProcessed
       \/ event.kind = "updatePhotos" /\ UpdatePhotos(event.photos)
       \/ event.kind = "apply" /\ Apply(event.photo, event.delta)
       \/ event.kind = "applyFlags" /\ ApplyFlags(event.photo)

FlushCache ==
    /\ dbQueue' = IF touched = Untouched THEN dbQueue
                  ELSE Append(dbQueue, [kind |-> "update", deltas |-> touched])
    /\ touched' = Untouched

FlushTimeout ==
    /\ phase = "running"
    /\ timerActive
    /\ timerActive' = FALSE
    /\ FlushCache
    /\ UNCHANGED <<stored, watched, events, toUpdate, loading, tasks, phase, lost>>

\* ~PhotosAnalyzer: stop() up to waitForActiveTasks().
StopBegin ==
    /\ phase = "running"
    /\ watched' = FALSE
    /\ toUpdate' = <<>>
    /\ phase' = "stopping"
    /\ UNCHANGED <<stored, dbQueue, events, loading, tasks, touched, timerActive, lost>>

\* Mutant: it waits for the posted calls too, with the event loop blocked.
WaitIsOver_NoCalls == tasks = <<>> /\ events = <<>>

WaitIsOver == tasks = <<>>

\* waitForActiveTasks() blocks the event loop until m_tasks is empty; with the
\* objects go their connections and the calls that were posted to them.
StopEnd ==
    /\ phase = "stopping"
    /\ WaitIsOver
    /\ FlushCache
    /\ timerActive' = FALSE
    /\ events' = <<>>
    /\ watched' = FALSE
    /\ phase' = "destroyed"
    /\ UNCHANGED <<stored, toUpdate, loading, tasks, lost>>

-----------------------------------------------------------------------------
(* The executor's workers: they take tasks in the order they were added *)

InWork(i) == i \in DOMAIN tasks /\ i <= Workers

Result(task) ==
    IF task.kind = "tags"
    THEN [kind |-> "apply", photo |-> task.photo,
          delta |-> [fields |-> {"tags"}, flags |-> [task.flags EXCEPT !["ExifLoaded"] = 1]]]
    ELSE IF task.photo \in Unreadable
    THEN [kind |-> "applyFlags", photo |-> task.photo]
    ELSE [kind |-> "apply", photo |-> task.photo,
          delta |-> [fields |-> {"geometry"}, flags |-> [f \in {"GeometryLoaded"} |-> 1]]]

\* perform() of GeometryAssigner and of TagsCollector.
Perform(i) ==
    /\ phase # "crashed"
    /\ InWork(i)
    /\ ~ tasks[i].performed
    /\ events' = Append(events, Result(tasks[i]))
    /\ tasks' = [tasks EXCEPT ![i].performed = TRUE]
    /\ UNCHANGED <<stored, dbQueue, watched, guiVars, phase, lost>>

\* ~UpdaterTask: taskFinished().  The task is erased, the destructor notified and
\* photoProcessed emitted in one step: a destructor that returns in between would
\* leave the rest of the call to a destroyed object, which is left out.
TaskFinished(i) ==
    /\ phase # "crashed"
    /\ InWork(i)
    /\ tasks[i].performed
    /\ tasks' = RemoveAt(tasks, i)
    /\ events' = Append(events, [kind |-> "photoProcessed"])
    /\ UNCHANGED <<stored, dbQueue, watched, guiVars, phase, lost>>

Worker == \E i \in 1 .. Workers : Perform(i) \/ TaskFinished(i)

Next ==
    \/ Execute
    \/ HandleEvent
    \/ FlushTimeout
    \/ Worker
    \/ StopBegin
    \/ StopEnd
    \/ \E photos \in SUBSET Photos : ScanCollection(photos)

Spec == Init /\ [][Next]_vars

\* Threads and the event loop go on, a started timer fires, and the executor
\* gets to every task (TaskExecutor!WorkersServeTheQueue).
Fairness == /\ WF_vars(Execute)
            /\ WF_vars(HandleEvent)
            /\ WF_vars(FlushTimeout)
            /\ WF_vars(Worker)
            /\ WF_vars(StopEnd)

FairSpec == Spec /\ Fairness

-----------------------------------------------------------------------------
(* Properties *)

TaskStates == [kind : Fields, photo : Photos, flags : [Flags -> {0, 1}], performed : BOOLEAN]

Requests == [kind : {"scan"}]
            \cup [kind : {"add"}, photos : SUBSET Photos]
            \cup [kind : {"load"}, photos : Seq(Photos)]
            \cup [kind : {"update"}, deltas : [Photos -> Deltas]]
            \cup [kind : {"broken"}, photo : Photos]

Events == [kind : {"addPhotos"}, photos : Seq(Photos)]
          \cup [kind : {"photoProcessed"}]
          \cup [kind : {"updatePhotos"}, photos : Seq([photo : Photos, flags : [Flags -> {0, 1}]])]
          \cup [kind : {"apply"}, photo : Photos, delta : Deltas]
          \cup [kind : {"applyFlags"}, photo : Photos]

\* Every variable holds values of its type.
TypeOK ==
    /\ stored \in [Photos -> PhotoStates]
    /\ watched \in BOOLEAN
    /\ dbQueue \in Seq(Requests)
    /\ events \in Seq(Events)
    /\ toUpdate \in Seq(Photos)
    /\ loading \in BOOLEAN
    /\ tasks \in Seq(TaskStates)
    /\ touched \in [Photos -> Deltas]
    /\ timerActive \in BOOLEAN
    /\ phase \in {"running", "stopping", "destroyed", "crashed"}
    /\ lost \subseteq Photos \X Fields

\* One batch at a time: as long as the analyzer runs, m_loadingPhotos is set
\* exactly while one batch is with the database or on its way back.  Two batches
\* would get past the limit on tasks, none would stall the analysis for ever.
OneBatchAtATime ==
    phase = "running" =>
        Cardinality({i \in DOMAIN dbQueue : dbQueue[i].kind = "load"})
        + Cardinality({i \in DOMAIN events : events[i].kind = "updatePhotos"})
        = IF loading THEN 1 ELSE 0

\* Deltas that were applied are never left behind: apply() does not restart the
\* timer beyond the limit of 500 photos, and yet it always runs as long as
\* m_touchedPhotos has something to flush.
TouchedWillBeFlushed == phase = "running" /\ touched # Untouched => timerActive

\* The photos a posted call or a database task carries to updatePhotos().
Carried(call) ==
    CASE call.kind \in {"addPhotos", "load"} -> call.photos
      [] call.kind = "updatePhotos" -> [i \in DOMAIN call.photos |-> call.photos[i].photo]
      [] OTHER -> <<>>

CarriedBy(calls) == FlattenSeq([i \in DOMAIN calls |-> Carried(calls[i])])

Underway == toUpdate \o CarriedBy(events) \o CarriedBy(dbQueue)

HasTask(p, field) == \E i \in DOMAIN tasks : /\ tasks[i].photo = p
                                             /\ tasks[i].kind = field
                                             /\ ~ tasks[i].performed

HasResult(p, field) ==
    \E i \in DOMAIN events :
        \/ /\ events[i].kind = "apply"
           /\ events[i].photo = p
           /\ field \in events[i].delta.fields
        \/ /\ events[i].kind = "applyFlags"
           /\ events[i].photo = p
           /\ field = "geometry"

BeingStored(p, field) ==
    \E i \in DOMAIN dbQueue :
        \/ /\ dbQueue[i].kind = "update"
           /\ field \in dbQueue[i].deltas[p].fields
        \/ /\ dbQueue[i].kind = "broken"
           /\ dbQueue[i].photo = p
           /\ field = "geometry"

\* A photo is analysed once: it is announced, listed, loaded or on its way to
\* updatePhotos() at most once, and not while tasks of it are unfinished (the
\* scan and photosAdded never announce the same photo).
AnalysedOnce ==
    /\ IsInjective(Underway)
    /\ \A i \in DOMAIN tasks : tasks[i].photo \notin Range(Underway)
    /\ \A i, j \in DOMAIN tasks :
          tasks[i].photo = tasks[j].photo /\ tasks[i].kind = tasks[j].kind => i = j

\* No photo is forgotten: while the analyzer runs, what the backend lacks of a
\* photo is to be found by the scan, underway, in a task, in a posted result, in
\* m_touchedPhotos or in the queue of the database; or the database failed to
\* store it, and then the photo is one that the scan of the next session finds.
NothingForgotten ==
    phase = "running" =>
        \A p \in Photos, field \in Fields :
            \/ ~ stored[p].known \/ stored[p].broken
            \/ field \in stored[p].data
            \/ ~ watched /\ Uninitialized(stored[p])
            \/ p \in Range(Underway)
            \/ HasTask(p, field) \/ HasResult(p, field)
            \/ field \in touched[p].fields
            \/ BeingStored(p, field)
            \/ <<p, field>> \in lost /\ Uninitialized(stored[p])

\* A flag never says more than the backend has: the next session relies on it
\* when it scans for photos to analyse.
FlagsNotAhead ==
    \A p \in Photos : /\ stored[p].flags["ExifLoaded"] = 1 => "tags" \in stored[p].data
                      /\ stored[p].flags["GeometryLoaded"] = 1 => "geometry" \in stored[p].data

\* Every photo known to the backend gets its tags and its geometry, or is marked
\* broken, unless the analyzer is destroyed first or the database failed to store
\* just that.
EverythingAnalysed ==
    \A p \in Photos, field \in Fields :
        (stored[p].known /\ phase = "running")
            ~> \/ field \in stored[p].data \/ stored[p].broken
               \/ phase # "running"
               \/ <<p, field>> \in lost

\* ~PhotosAnalyzer returns: waiting for the tasks with the event loop blocked is
\* no deadlock, as no task waits for the GUI thread.
StopReturns == phase = "stopping" ~> phase \in {"destroyed", "crashed"}

=============================================================================
