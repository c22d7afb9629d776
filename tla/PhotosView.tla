----------------------------- MODULE PhotosView -----------------------------
(***************************************************************************)
(* The photos view of the main window: FlatModel and the component that    *)
(* controls it, on the GUI's thread, over a collection that only the       *)
(* database's thread touches.                                              *)
(*                                                                         *)
(* The GUI sends tasks to the database; what they read comes back, and     *)
(* what they change is signalled, as events of the GUI's loop.  Both       *)
(* queues keep their order.  A group is named by its representative.       *)
(***************************************************************************)
EXTENDS FlatModel

CONSTANTS MaxDate,     \* bound: dates of photos are 1 .. MaxDate
          Collections, \* what the project may hold when it is opened
          MaxRequests, \* bound: tasks sent by the other parts of the program
          MaxControls, \* bound: what the user does to the controls of the view
          MaxShown     \* bound: times the view asks for the details of a photo

ASSUME ViewAssumption == /\ {MaxPhoto, MaxDate} \subseteq Nat \ {0}
                         /\ {MaxRequests, MaxControls, MaxShown} \subseteq Nat

VARIABLES
    collection, \* the photos in the database
    tasks,      \* queue of the database's thread
    events,     \* queue of the GUI's loop
    opened,     \* m_db of the model and of the component
    model,      \* FlatModel
    filter,     \* FlatModel::m_filters
    controls,   \* the component's dates and filters
    searching,  \* m_searchLauncher is running
    crashed,    \* undefined behaviour was met: it ends the program here
    listed,     \* history: what the last list of photos held
    gone,       \* history: removals handled since then
    touched,    \* history: photos modified since the last list was made
    buried,     \* history: photos that were removed
    left        \* requests, controls and details left to the bounds

dbVars == <<collection, touched, buried>>
viewVars == <<opened, model, filter, controls, searching, listed, gone, crashed>>
vars == <<dbVars, viewVars, tasks, events, left>>

-----------------------------------------------------------------------------
(* The collection *)

NoGroup == 0
NoDate == 0
Records == [date : NoDate .. MaxDate, staged : BOOLEAN, broken : BOOLEAN,
            group : Photos \cup {NoGroup}]

Blank == [date |-> NoDate, staged |-> FALSE, broken |-> FALSE, group |-> NoGroup]

ASSUME CollectionsAssumption ==
    \A c \in Collections : DOMAIN c \subseteq Photos /\ c \in [DOMAIN c -> Records]

Stored == DOMAIN collection

\* What allFilters() asks for, as the query made of it reads: a photo without
\* a date has an empty one, ahead of all.
Matches(r, f) ==
    /\ f.from <= r.date
    /\ r.date <= f.to
    /\ f.expression # NoDate => r.date = f.expression
    /\ f.stagedOnly => r.staged
    /\ ~ r.broken
    /\ r.group = NoGroup

\* By date, then by id.
Earlier(p, q) == \/ collection[p].date < collection[q].date
                 \/ collection[p].date = collection[q].date /\ p < q

\* onPhotos()
OnPhotos(f) ==
    InOrder({p \in Stored : Matches(collection[p], f)},
            {pair \in Stored \X Stored : Earlier(pair[1], pair[2])})

Dates == Ascending({collection[p].date : p \in Stored})

\* Details of a photo the view shows; a photo that is gone has none.
Details(p) ==
    IF p \in Stored
    THEN [known |-> TRUE, date |-> collection[p].date, group |-> collection[p].group]
    ELSE [known |-> TRUE, date |-> NoDate, group |-> NoGroup]

MembersOf(g) == {p \in Stored : collection[p].group = g}

NextId == 1 + (IF Stored = {} THEN 0 ELSE CHOOSE p \in Stored : \A q \in Stored : q <= p)

Changed(ids, Change(_)) ==
    [p \in Stored |-> IF p \in ids THEN Change(collection[p]) ELSE collection[p]]

-----------------------------------------------------------------------------
(* Tasks of the database's thread *)

Sends(es) == events' = events \o es
Ends == tasks' = Tail(tasks)
Signal(signal, ids) == [kind |-> signal, ids |-> ids]

\* fetchMatchingPhotos(): the filter is read when the task is executed.
FetchMatchingPhotos ==
    /\ Head(tasks).kind = "list"
    /\ Ends
    /\ Sends(<<[kind |-> "list", photos |-> OnPhotos(filter)]>>)
    /\ touched' = {}
    /\ UNCHANGED <<collection, buried>>

FetchPhotoProperties ==
    /\ Head(tasks).kind = "details"
    /\ Ends
    /\ Sends(<<[kind |-> "details", photo |-> Head(tasks).photo,
                details |-> Details(Head(tasks).photo)]>>)
    /\ UNCHANGED dbVars

GetTimeRangeForFilters ==
    /\ Head(tasks).kind = "dates"
    /\ Ends
    /\ Sends(<<[kind |-> "dates", dates |-> Dates]>>)
    /\ UNCHANGED dbVars

\* markStagedAsReviewed() signals nothing the view listens to.
MarkPhotosAsReviewed ==
    /\ Head(tasks).kind = "review"
    /\ Ends
    /\ Sends(<<[kind |-> "filters"]>>)
    /\ collection' = Changed(Stored, LAMBDA r : [r EXCEPT !.staged = FALSE])
    /\ UNCHANGED <<touched, buried>>

Add(r) ==
    /\ NextId \in Photos
    /\ collection' = [p \in Stored \cup {NextId} |-> IF p = NextId THEN r ELSE collection[p]]
    /\ Sends(<<Signal("added", {NextId})>>)
    /\ UNCHANGED <<touched, buried>>

\* A file found by the scan of the collection.
Scan ==
    /\ Head(tasks).kind = "scan"
    /\ Add([Blank EXCEPT !.staged = TRUE])
    /\ Ends

\* update() of the date; one photo that is gone and nothing is done.
Edit ==
    LET t == Head(tasks)
    IN  /\ t.kind = "edit"
        /\ Ends
        /\ IF t.photo \in Stored
           THEN /\ collection' = Changed({t.photo}, LAMBDA r : [r EXCEPT !.date = t.date])
                /\ touched' = touched \cup {t.photo}
                /\ Sends(<<Signal("modified", {t.photo})>>)
           ELSE UNCHANGED <<collection, touched, events>>
        /\ UNCHANGED buried

\* set() of a general flag, by the updater of photos: it signals nothing.
MarkBroken ==
    LET t == Head(tasks)
    IN  /\ t.kind = "mark"
        /\ Ends
        /\ collection' = Changed({t.photo}, LAMBDA r : [r EXCEPT !.broken = TRUE])
        /\ touched' = touched \cup {t.photo}
        /\ UNCHANGED <<buried, events>>

\* GroupsManager::group(): the representative is added ...
GroupRepresentative ==
    LET t == Head(tasks)
        first == CHOOSE p \in t.photos : \A q \in t.photos : p <= q
        copied == IF first \in Stored THEN collection[first] ELSE Blank
    IN  /\ t.kind = "group"
        /\ Add([copied EXCEPT !.broken = FALSE, !.group = NoGroup])
        /\ tasks' = <<[kind |-> "create", photo |-> NextId, photos |-> t.photos]>> \o Tail(tasks)

\* ... becomes one ...
GroupCreate ==
    LET t == Head(tasks)
    IN  /\ t.kind = "create"
        /\ tasks' = <<[t EXCEPT !.kind = "join"]>> \o Tail(tasks)
        /\ Sends(<<Signal("modified", {t.photo})>>)
        /\ UNCHANGED dbVars

\* ... and gets its members, all or none.
GroupJoin ==
    LET t == Head(tasks)
    IN  /\ t.kind = "join"
        /\ Ends
        /\ IF t.photos \subseteq Stored
           THEN /\ collection' = Changed(t.photos, LAMBDA r : [r EXCEPT !.group = t.photo])
                /\ Sends(<<Signal("modified", t.photos)>>)
           ELSE UNCHANGED <<collection, events>>
        /\ UNCHANGED <<touched, buried>>

\* GroupsManager::ungroup(): the group is dissolved ...
UngroupDissolve ==
    LET t == Head(tasks)
        members == MembersOf(t.photo)
    IN  /\ t.kind = "ungroup"
        /\ collection' = Changed(members, LAMBDA r : [r EXCEPT !.group = NoGroup])
        /\ touched' = touched \cup members
        /\ Sends(IF members = {} THEN <<>> ELSE <<Signal("modified", members \cup {t.photo})>>)
        /\ tasks' = <<[kind |-> "remove", ids |-> IF members = {} THEN {} ELSE {t.photo} \cap Stored]>>
                    \o Tail(tasks)
        /\ UNCHANGED buried

\* ... and its representative removed, unless it is a member of another one;
\* the removal is signalled whether it was done or not.
UngroupRemove ==
    LET t == Head(tasks)
        removed == {p \in t.ids : collection[p].group = NoGroup}
    IN  /\ t.kind = "remove"
        /\ Ends
        /\ collection' = Restrict(collection, Stored \ removed)
        /\ buried' = buried \cup removed
        /\ Sends(<<Signal("removed", t.ids)>>)
        /\ UNCHANGED touched

Perform ==
    /\ tasks # <<>>
    /\ \/ FetchMatchingPhotos \/ FetchPhotoProperties \/ GetTimeRangeForFilters
       \/ MarkPhotosAsReviewed \/ Scan \/ Edit \/ MarkBroken
       \/ GroupRepresentative \/ GroupCreate \/ GroupJoin
       \/ UngroupDissolve \/ UngroupRemove
    /\ UNCHANGED <<viewVars, left>>

-----------------------------------------------------------------------------
(* The controls *)

NoFilter == [from |-> NoDate, to |-> MaxDate, expression |-> NoDate, stagedOnly |-> FALSE]

\* allFilters(): bounds of time only once there are dates.
AllFilters(c) ==
    [from |-> IF c.dates = <<>> THEN NoDate ELSE c.dates[c.from + 1],
     to |-> IF c.dates = <<>> THEN MaxDate ELSE c.dates[c.to + 1],
     expression |-> c.expression, stagedOnly |-> c.stagedOnly]

Exec(t) == tasks' = Append(tasks, t)
Task(kind) == [kind |-> kind]

\* updatePhotos() without a database does nothing.
UpdatePhotos == IF opened THEN Exec(Task("list")) ELSE UNCHANGED tasks

\* Mutant: setFilter() does not ask for the photos that match now.
UpdateModelFilters_Quietly == filter' = AllFilters(controls') /\ UNCHANGED tasks

\* updateModelFilters(), setFilter()
UpdateModelFilters == filter' = AllFilters(controls') /\ UpdatePhotos

\* A handle of the range of time is let go within the dates there are.
SetTimeView ==
    /\ \E from, to \in 0 .. Len(controls.dates) - 1 :
          /\ from <= to
          /\ from = controls.from \/ to = controls.to
          /\ controls' = [controls EXCEPT !.from = from, !.to = to]
    /\ UpdateModelFilters
    /\ UNCHANGED searching

\* The switch of new photos; the category and the rating go the same way.
SetNewPhotosOnly ==
    /\ controls' = [controls EXCEPT !.stagedOnly = ~ @]
    /\ UpdateModelFilters
    /\ UNCHANGED searching

\* setSearchExpression(): the filter follows when the typing pauses.
SetSearchExpression ==
    /\ \E e \in NoDate .. MaxDate : /\ e # controls.expression
                                   /\ controls' = [controls EXCEPT !.expression = e]
    /\ searching' = TRUE
    /\ UNCHANGED <<filter, tasks>>

MarkNewAsReviewed ==
    /\ opened
    /\ Exec(Task("review"))
    /\ UNCHANGED <<controls, filter, searching>>

\* MainWindow::closeProject(): setDatabase(nullptr) of the component.
CloseProject ==
    /\ opened
    /\ opened' = FALSE
    /\ model' = EmptyModel
    /\ listed' = <<>>
    /\ gone' = <<>>
    /\ UNCHANGED <<controls, filter, searching, tasks>>

\* The window goes on once closeProject() has joined the database's thread.
Responsive == ~ crashed /\ (opened \/ tasks = <<>>)

Control ==
    /\ Responsive
    /\ left.controls > 0
    /\ left' = [left EXCEPT !.controls = @ - 1]
    /\ \/ /\ SetTimeView \/ SetNewPhotosOnly \/ SetSearchExpression \/ MarkNewAsReviewed
          /\ UNCHANGED <<opened, model, listed, gone>>
       \/ CloseProject
    /\ UNCHANGED <<dbVars, events, crashed>>

\* m_searchLauncher
SearchTimeout ==
    /\ Responsive
    /\ searching
    /\ searching' = FALSE
    /\ controls' = controls
    /\ UpdateModelFilters
    /\ UNCHANGED <<dbVars, opened, model, listed, gone, crashed, events, left>>

-----------------------------------------------------------------------------
(* What the view, and the rest of the program, ask for *)

\* A delegate asks for the details of its row: data(), photoData().
ShowRow ==
    /\ Responsive
    /\ \E p \in ToSet(model.photos) :
          /\ Asks(model, p)
          /\ model' = PhotoData(model, p)
          /\ IF opened THEN Exec([kind |-> "details", photo |-> p]) /\ UNCHANGED crashed
                       ELSE crashed' = TRUE /\ UNCHANGED tasks
    /\ left.shown > 0
    /\ left' = [left EXCEPT !.shown = @ - 1]
    /\ UNCHANGED <<dbVars, opened, filter, controls, searching, listed, gone, events>>

Shown == ToSet(model.photos)

\* The scan, the analyzer and the tags editor, the updater of photos, and the
\* menu of the view, for photos it shows now.
Requests ==
    {Task("scan")}
    \cup {[kind |-> "edit", photo |-> p, date |-> d] : p \in Shown, d \in 1 .. MaxDate}
    \cup {[kind |-> "mark", photo |-> p] : p \in Shown}
    \cup {[kind |-> "group", photos |-> S] : S \in {B \in SUBSET Shown : Cardinality(B) = 2}}
    \cup {[kind |-> "ungroup", photo |-> p] : p \in {q \in Shown : MembersOf(q) # {}}}

Request ==
    /\ Responsive /\ opened
    /\ left.requests > 0
    /\ left' = [left EXCEPT !.requests = @ - 1]
    /\ \E r \in Requests : Exec(r)
    /\ UNCHANGED <<dbVars, viewVars, events>>

-----------------------------------------------------------------------------
(* Events of the GUI's loop *)

\* updateTimeRange() does not look whether there is a database.
UpdateTimeRange == IF opened THEN UNCHANGED crashed ELSE crashed' = TRUE

\* photosAdded: updatePhotos() of the model, updateTimeRange() of the component.
PhotosAdded(e) ==
    /\ e.kind = "added"
    /\ UpdateTimeRange
    /\ tasks' = IF opened THEN tasks \o <<Task("list"), Task("dates")>> ELSE tasks
    /\ UNCHANGED <<model, controls, filter, listed, gone>>

PhotosModified(e) ==
    /\ e.kind = "modified"
    /\ UpdateTimeRange
    /\ tasks' = IF opened THEN Append(tasks, Task("dates")) ELSE tasks
    /\ model' = InvalidatePhotos(model, e.ids)
    /\ UNCHANGED <<controls, filter, listed, gone>>

PhotosRemoved(e) ==
    /\ e.kind = "removed"
    /\ crashed' = (~ opened \/ RemovesPastTheEnd(model, e.ids))
    /\ tasks' = IF opened THEN Append(tasks, Task("dates")) ELSE tasks
    /\ model' = RemovePhotos(model, e.ids)
    /\ gone' = IF e.ids = {} THEN gone ELSE Append(gone, e.ids)
    /\ UNCHANGED <<controls, filter, listed>>

ListCame(e) ==
    /\ e.kind = "list"
    /\ model' = FetchedPhotos(model, e.photos)
    /\ listed' = e.photos
    /\ gone' = <<>>
    /\ UNCHANGED <<controls, filter, tasks, crashed>>

DetailsCame(e) ==
    /\ e.kind = "details"
    /\ model' = FetchedPhotoProperties(model, e.photo, e.details)
    /\ UNCHANGED <<controls, filter, tasks, listed, gone, crashed>>

\* Mutant: the range of time is left as it was.
SetAvailableDates_KeepView(e) ==
    /\ e.kind = "dates"
    /\ controls' = [controls EXCEPT !.dates = e.dates]
    /\ UNCHANGED <<model, filter, tasks, listed, gone, crashed>>

\* setAvailableDates(): other dates put the range of time back to all of them;
\* the filter of the model stays.
SetAvailableDates(e) ==
    /\ e.kind = "dates"
    /\ controls' = IF e.dates = controls.dates THEN controls
                   ELSE [controls EXCEPT !.dates = e.dates, !.from = 0,
                                         !.to = IF e.dates = <<>> THEN 0 ELSE Len(e.dates) - 1]
    /\ UNCHANGED <<model, filter, tasks, listed, gone, crashed>>

FiltersCame(e) ==
    /\ e.kind = "filters"
    /\ controls' = controls
    /\ UpdateModelFilters
    /\ UNCHANGED <<model, listed, gone, crashed>>

Deliver ==
    /\ Responsive
    /\ events # <<>>
    /\ events' = Tail(events)
    /\ LET e == Head(events) IN
          \/ PhotosAdded(e) \/ PhotosModified(e) \/ PhotosRemoved(e)
          \/ ListCame(e) \/ DetailsCame(e) \/ SetAvailableDates(e) \/ FiltersCame(e)
    /\ UNCHANGED <<dbVars, opened, searching, left>>

\* setDatabase() of the component with the project that was opened.
Init ==
    /\ collection \in Collections
    /\ tasks = <<Task("list"), Task("dates")>>
    /\ events = <<>>
    /\ opened = TRUE
    /\ model = EmptyModel
    /\ controls = [dates |-> <<>>, from |-> 0, to |-> 0, expression |-> NoDate, stagedOnly |-> FALSE]
    /\ filter = NoFilter
    /\ searching = FALSE
    /\ crashed = FALSE
    /\ listed = <<>>
    /\ gone = <<>>
    /\ touched = {}
    /\ buried = {}
    /\ left = [requests |-> MaxRequests, controls |-> MaxControls, shown |-> MaxShown]

Next == (~ crashed /\ Perform) \/ Control \/ SearchTimeout \/ ShowRow \/ Request \/ Deliver

Spec == Init /\ [][Next]_vars

-----------------------------------------------------------------------------
(* Properties *)

Quiet == tasks = <<>> /\ events = <<>>

\* Types of the state.  Every photo shown has a row in the index, as photoData()
\* asserts.  Details may outlive the row: those that come late for a photo that
\* was removed are kept, as the index still knows it.
TypeOK ==
    /\ Stored \subseteq Photos
    /\ \A p \in Stored : collection[p] \in Records
    /\ model.photos \in Seq(Photos) /\ IsInjective(model.photos)
    /\ Shown \subseteq DOMAIN model.rows
    /\ DOMAIN model.data \subseteq Photos
    /\ filter.from \in NoDate .. MaxDate /\ filter.to \in NoDate .. MaxDate
    /\ \A k \in DOMAIN left : left[k] \in Nat

\* Once both queues are empty, every photo that nobody modified since the last
\* list was made is shown exactly when it matches the filter that was set last:
\* whatever was added, grouped, reviewed or filtered meanwhile, and whenever the
\* filter was read.  One removal may be waiting for the next list.
ShowsTheCollection ==
    Quiet /\ opened /\ ~ crashed /\ Len(gone) <= 1
        => \A p \in Photos \ touched :
              p \in Shown <=> p \in Stored /\ Matches(collection[p], filter)

\* Once both queues are empty, the details the view keeps of a photo are those
\* of the database, and none it asked for is still missing.  An id that belonged
\* to a removed photo is left out: late details may still be kept under it.
FreshDetails ==
    Quiet /\ opened /\ ~ crashed
        => \A p \in (Shown \cap DOMAIN model.data \cap Stored) \ buried : model.data[p] = Details(p)

\* assert(m_photos == photos) and assert(m_idToRow.size() == m_photos.size())
\* of fetchedPhotos(), for any rows the model may have then.
ListIsTakenOver ==
    events # <<>> /\ Head(events).kind = "list"
        => LET m == FetchedPhotos(model, Head(events).photos)
           IN  /\ m.photos = Head(events).photos
               /\ \A p \in DOMAIN m.rows : m.photos[m.rows[p]] = p
               /\ Cardinality(DOMAIN m.rows) = Len(m.photos)

Removed == UNION ToSet(gone)

\* The rows are those of the last list without the photos removed since.
RemovesOnlyTheRemoved ==
    opened => /\ ~ crashed
              /\ model.photos = Keep(listed, {i \in DOMAIN listed : listed[i] \notin Removed})

\* It is so until a second removal is handled before the next list comes.
FirstRemovalIsExact == Len(gone) <= 1 => RemovesOnlyTheRemoved

\* allFilters() takes dates from inside of the list, also when dates went.
TimeViewWithinDates ==
    controls.dates # <<>> => controls.from <= controls.to /\ controls.to < Len(controls.dates)
=============================================================================
