----------------------------- MODULE SqlBackend -----------------------------
(***************************************************************************)
(* ASqlBackend and its operators over an SQLite file, as the tasks of the  *)
(* database's thread use them.                                             *)
(*                                                                         *)
(* A content is what the tables hold: a set of rows for each of them, and  *)
(* the change log as a sequence.  A call is a chain of contents, one after *)
(* each writing statement.  The engine refuses the statement that breaks a *)
(* foreign key; any other writing statement, BEGIN or COMMIT may fail by a *)
(* fault, and the process may die between two calls.  What a failed call   *)
(* leaves behind is decided by the way the code uses transactions.         *)
(***************************************************************************)
EXTENDS Integers, Sequences, FiniteSets, SequencesExt

CONSTANTS MaxPhoto,    \* bound: ids of photos are 1 .. MaxPhoto
          MaxGroup,    \* bound: ids of groups are 1 .. MaxGroup
          Names,       \* types of tags
          Values,      \* values of tags
          Edits,       \* what the deltas of clients bring
          Collections, \* what an earlier session may have left in the tables
          MaxBatch,    \* bound: photos in a request
          MaxRequests, \* bound: tasks posted in a behaviour
          MaxFaults    \* bound: statements that fail, and crashes

Photos == 1 .. MaxPhoto
Groups == 1 .. MaxGroup
Flags == {"StagingArea", "ExifLoaded"}
Roles == {"Representative", "Member"}

\* A value of a tag or the group of a photo, if there is one.
Loggable == {<<>>} \cup {<<v>> : v \in Values} \cup Groups \X Roles

ASSUME SqlAssumption == /\ MaxPhoto \in Nat \ {0}
                        /\ MaxGroup \in Nat
                        /\ MaxBatch \in Nat
                        /\ MaxRequests \in Nat
                        /\ MaxFaults \in Nat
                        /\ IsFiniteSet(Names) /\ "group" \notin Names

\* An id that is not valid().
NoId == 0

\* Tag::TagsList: at most one value for a type of tag.
TagLists == UNION {[S -> Values] : S \in SUBSET Names}

ASSUME EditsAssumption ==
    \A e \in Edits : /\ DOMAIN e \subseteq {"tags", "flags", "geometry"}
                     /\ "tags" \in DOMAIN e => e.tags \in TagLists
                     /\ "flags" \in DOMAIN e => e.flags \subseteq Flags
                     /\ "geometry" \in DOMAIN e => e.geometry = TRUE

VARIABLES
    db,       \* what the connection sees
    disk,     \* what is committed
    open,     \* a transaction was left open by a failed COMMIT
    tasks,    \* tasks queued for the database's thread
    task,     \* the task in hand
    made,     \* ids the task in hand got from its calls
    report,   \* the call that returned last: what it returned and signalled
    seen,     \* photos the clients were told of
    granted,  \* photos reported as added, and not signalled as removed
    posted,   \* number of tasks posted
    faults    \* number of faults

content == <<db, disk, open>>
vars == <<db, disk, open, tasks, task, made, report, seen, granted, posted, faults>>

-----------------------------------------------------------------------------
(* Tables *)

TablesOfPhotos == {"flags", "generalFlags", "geometry", "tags", "members"}

\* A value is a sequence, the empty one when there is none: an entry without
\* an old value is an Add, one without a new value a Remove, else a Modify.
Logs == Seq([photo : Nat, field : Names \cup {"group"}, old : Loggable, new : Loggable])

\* The columns of the tables.
Contents == [photos : SUBSET Photos,
             flags : SUBSET [photo : Nat, on : SUBSET Flags],
             generalFlags : SUBSET [photo : Nat],
             geometry : SUBSET [photo : Nat],
             tags : SUBSET [photo : Nat, name : Names, value : Values],
             groups : SUBSET [id : Groups, representative : Nat],
             members : SUBSET [group : Groups, photo : Nat],
             log : Logs]

\* PRAGMA foreign_keys = ON.
Consistent(c) ==
    /\ \A t \in TablesOfPhotos : \A row \in c[t] : row.photo \in c.photos
    /\ \A i \in DOMAIN c.log : c.log[i].photo \in c.photos
    /\ \A row \in c.groups : row.representative \in c.photos
    /\ \A row \in c.members : \E g \in c.groups : g.id = row.group

\* INTEGER PRIMARY KEY without AUTOINCREMENT: ids of removed rows come back.
NextId(ids) == 1 + (IF ids = {} THEN 0 ELSE CHOOSE i \in ids : \A j \in ids : j <= i)

\* updateOrInsert() of the row of a photo.
UpdateOrInsert(c, t, row) ==
    [c EXCEPT ![t] = {r \in @ : r.photo # row.photo} \cup {row}]

\* getTagsFor()
GetTags(c, p) ==
    LET rows == {r \in c.tags : r.photo = p}
    IN  [n \in {r.name : r \in rows} |-> (CHOOSE r \in rows : r.name = n).value]

\* getFlagsFor(): the flags that are set.
GetFlags(c, p) == UNION {r.on : r \in {f \in c.flags : f.photo = p}}

\* Mutant: only representatives are looked for.
GetGroup_Representatives(c, p) ==
    LET owned == {g \in c.groups : g.representative = p
                                   /\ \E m \in c.members : m.group = g.id}
    IN  IF owned # {} THEN <<(CHOOSE g \in owned : TRUE).id, "Representative">> ELSE <<>>

\* getGroupFor(): an inner join, so a group without members is not seen.
GetGroup(c, p) ==
    LET owned == {g \in c.groups : g.representative = p
                                   /\ \E m \in c.members : m.group = g.id}
        joined == {m \in c.members : m.photo = p}
    IN  IF owned # {} THEN <<(CHOOSE g \in owned : TRUE).id, "Representative">>
        ELSE IF joined # {} THEN <<(CHOOSE m \in joined : TRUE).group, "Member">>
        ELSE <<>>

\* membersOf()
MembersOf(c, g) == {m.photo : m \in {r \in c.members : r.group = g}}

-----------------------------------------------------------------------------
(* The change log *)

Entry(p, field, old, new) == [photo |-> p, field |-> field, old |-> old, new |-> new]

ValueIn(list, n) == IF n \in DOMAIN list THEN <<list[n]>> ELSE <<>>

\* process() of tags: what compare() finds removed, changed or added.
TagEntries(p, old, new) ==
    LET changed == SetToSeq({n \in Names : ValueIn(old, n) # ValueIn(new, n)})
    IN  [i \in DOMAIN changed |->
           Entry(p, changed[i], ValueIn(old, changed[i]), ValueIn(new, changed[i]))]

\* process() of groups: nothing when neither is valid.
GroupEntries(p, old, new) ==
    IF old = <<>> /\ new = <<>> THEN <<>> ELSE <<Entry(p, "group", old, new)>>

Logged(c, entries) == [c EXCEPT !.log = @ \o entries]

-----------------------------------------------------------------------------
(* storeData() *)

StoreTags(c, p, list) ==
    [c EXCEPT !.tags = {r \in @ : r.photo # p}
                       \cup {[photo |-> p, name |-> n, value |-> list[n]] : n \in DOMAIN list}]

\* storeGroup(): only a Member with a valid group is stored.
StoreGroup(c, p, group) ==
    IF group = <<>> THEN c
    ELSE UpdateOrInsert(c, "members", [group |-> group[1], photo |-> p])

\* Mutant: the photo is read for the log once it is stored.
StoreData_ReadLate(c, p, d) ==
    LET has == DOMAIN d
        tagged == IF "tags" \in has THEN StoreTags(c, p, d.tags) ELSE c
        sized == IF "geometry" \in has
                 THEN UpdateOrInsert(tagged, "geometry", [photo |-> p]) ELSE tagged
        flagged == IF "flags" \in has
                   THEN UpdateOrInsert(sized, "flags", [photo |-> p, on |-> d.flags]) ELSE sized
        grouped == IF "group" \in has THEN StoreGroup(flagged, p, d.group) ELSE flagged
        entries == (IF "tags" \in has THEN TagEntries(p, GetTags(tagged, p), d.tags) ELSE <<>>)
                   \o (IF "group" \in has THEN GroupEntries(p, GetGroup(c, p), d.group) ELSE <<>>)
    IN  <<tagged, sized, flagged, grouped, Logged(grouped, entries)>>

\* The contents after the statements that store the delta d of the photo p.
StoreData(c, p, d) ==
    LET has == DOMAIN d
        tagged == IF "tags" \in has THEN StoreTags(c, p, d.tags) ELSE c
        sized == IF "geometry" \in has
                 THEN UpdateOrInsert(tagged, "geometry", [photo |-> p]) ELSE tagged
        flagged == IF "flags" \in has
                   THEN UpdateOrInsert(sized, "flags", [photo |-> p, on |-> d.flags]) ELSE sized
        grouped == IF "group" \in has THEN StoreGroup(flagged, p, d.group) ELSE flagged
        entries == (IF "tags" \in has THEN TagEntries(p, GetTags(c, p), d.tags) ELSE <<>>)
                   \o (IF "group" \in has THEN GroupEntries(p, GetGroup(c, p), d.group) ELSE <<>>)
    IN  <<tagged, sized, flagged, grouped, Logged(grouped, entries)>>

\* The contents after the statements of update() of the photos, one by one.
StoreAll(c, photos, d) ==
    LET stored[k \in 0 .. Len(photos)] ==
            IF k = 0 THEN <<c>>
            ELSE stored[k - 1] \o StoreData(Last(stored[k - 1]), photos[k], d)
    IN  stored[Len(photos)]

-----------------------------------------------------------------------------
(* Execution of chains *)

\* So many statements of the chain succeed if there is no fault.
Reach(chain) ==
    LET refused == {i \in DOMAIN chain : ~ Consistent(chain[i])}
    IN  IF refused = {} THEN Len(chain) ELSE (CHOOSE i \in refused : \A j \in refused : i <= j) - 1

\* Rolled back, after so many statements.
RolledBack(done, cost) ==
    [db |-> disk, disk |-> disk, open |-> FALSE, ok |-> FALSE, done |-> done, cost |-> cost]

\* A failed COMMIT may leave the transaction open.
CommitFailed(chain) ==
    {[db |-> Last(chain), disk |-> disk, open |-> TRUE, ok |-> FALSE, done |-> Len(chain),
      cost |-> 1]}

Committed(chain) ==
    {[db |-> Last(chain), disk |-> Last(chain), open |-> FALSE, ok |-> TRUE, done |-> Len(chain),
      cost |-> 0]}

\* What the connection sees after so many statements of the chain.
After(chain, k) == IF k = 0 THEN db ELSE chain[k]

\* Mutant: the error of a statement is not met with a rollback.
InTransaction_NoRollback(chain) ==
    IF open THEN {RolledBack(0, 0)}
    ELSE {[RolledBack(k, 1) EXCEPT !.db = After(chain, k), !.disk = After(chain, k)] :
          k \in 0 .. Reach(chain)}
         \cup (IF Reach(chain) < Len(chain) THEN {RolledBack(Reach(chain), 0)}
               ELSE Committed(chain) \cup CommitFailed(chain))

\* Mutant: the status of COMMIT is not looked at.
InTransaction_Unchecked(chain) ==
    IF open THEN {RolledBack(0, 0)}
    ELSE {RolledBack(k, 1) : k \in 0 .. Reach(chain)}
         \cup (IF Reach(chain) < Len(chain) THEN {RolledBack(Reach(chain), 0)}
               ELSE Committed(chain) \cup {[o EXCEPT !.ok = TRUE] : o \in CommitFailed(chain)})

\* BEGIN, the chain, COMMIT, with a rollback on error.  BEGIN fails when a
\* transaction is open, and the rollback then ends that one.
InTransaction(chain) ==
    IF open THEN {RolledBack(0, 0)}
    ELSE {RolledBack(k, 1) : k \in 0 .. Reach(chain)}
         \cup (IF Reach(chain) < Len(chain) THEN {RolledBack(Reach(chain), 0)}
               ELSE Committed(chain) \cup CommitFailed(chain))

\* The chain outside of a transaction: what is done stays done.
Autocommit(chain) ==
    {[db |-> After(chain, k), disk |-> IF open THEN disk ELSE After(chain, k), open |-> open,
      ok |-> k = Len(chain), done |-> k, cost |-> IF k < Reach(chain) THEN 1 ELSE 0] :
     k \in 0 .. Reach(chain)}

Becomes(outcome) ==
    /\ db' = outcome.db
    /\ disk' = outcome.disk
    /\ open' = outcome.open
    /\ faults' = faults + outcome.cost
    /\ faults' <= MaxFaults

-----------------------------------------------------------------------------
(* Calls of the backend *)

NoReport == [call |-> "none", ok |-> TRUE, added |-> {}, removed |-> {}, modified |-> {}]

\* The call returned and signalled this; the clients follow the signals, and
\* whoever called may rely on the photos that a successful call added.
Reports(call, ok, added, removed, modified) ==
    /\ report' = [call |-> call, ok |-> ok, added |-> added, removed |-> removed,
                  modified |-> modified]
    /\ seen' = (seen \cup added) \ removed
    /\ granted' = (granted \cup (IF ok THEN added ELSE {})) \ removed

Idle == [kind |-> "idle"]
Nothing == [calls |-> 0, photo |-> NoId, group |-> NoId]

\* The program starts (again) with what is on the disk.
Restarts(c) ==
    /\ db' = c /\ disk' = c /\ open' = FALSE
    /\ tasks' = <<>> /\ task' = Idle /\ made' = Nothing
    /\ report' = [NoReport EXCEPT !.call = "restart"]
    /\ seen' = c.photos
    /\ granted' = granted \cup c.photos

\* addPhotos() of one photo: photosAdded is emitted whatever happened, with the
\* id the insertion gave even when a later statement failed.
AddPhotos(d) ==
    LET id == NextId(db.photos)
        inserted == [db EXCEPT !.photos = @ \cup {id}]
    IN  /\ id \in Photos
        /\ \E o \in InTransaction(<<inserted>> \o StoreData(inserted, id, d)) :
              LET given == IF o.done > 0 THEN id ELSE NoId
              IN  /\ Becomes(o)
                  /\ Reports("addPhotos", o.ok, {given} \ {NoId}, {}, {})
                  /\ made' = [made EXCEPT !.calls = @ + 1, !.photo = given]

\* update() of some photos with the same delta.
Update(photos, d) ==
    \E o \in InTransaction(StoreAll(db, photos, d)) :
       /\ Becomes(o)
       /\ Reports("update", o.ok, {}, {}, IF o.ok THEN ToSet(photos) ELSE {})
       /\ UNCHANGED made

\* addGroup(): no transaction, and nobody catches what the log throws.
AddGroup(p) ==
    LET id == NextId({g.id : g \in db.groups})
        inserted == [db EXCEPT !.groups = @ \cup {[id |-> id, representative |-> p]}]
        logged == Logged(inserted, GroupEntries(p, <<>>, <<id, "Representative">>))
    IN  /\ id \in Groups
        /\ \E o \in Autocommit(<<inserted, logged>>) :
              \/ /\ o.done # 1
                 /\ Becomes(o)
                 /\ Reports("addGroup", o.ok, {}, {}, IF o.ok THEN {p} ELSE {})
                 /\ made' = [made EXCEPT !.calls = @ + 1, !.group = IF o.ok THEN id ELSE NoId]
                 /\ UNCHANGED <<tasks, task>>
              \/ /\ o.done = 1
                 /\ faults + o.cost <= MaxFaults
                 /\ faults' = faults + o.cost
                 /\ Restarts(o.disk)

\* removeGroup(): the log is written after the transaction; when that throws
\* the group is gone, but nothing is signalled and no photo is returned.
RemoveGroup(g) ==
    LET row == CHOOSE r \in db.groups : r.id = g
        freed == [db EXCEPT !.members = {m \in @ : m.group # g}]
        removed == [freed EXCEPT !.groups = @ \ {row}]
        members == MembersOf(db, g)
        former == SetToSeq(members)
        entries == <<Entry(row.representative, "group", <<g, "Representative">>, <<>>)>>
                   \o [i \in DOMAIN former |-> Entry(former[i], "group", <<g, "Member">>, <<>>)]
        Returns(ok) ==
            /\ Reports("removeGroup", ok, {}, {},
                       IF ok THEN members \cup {row.representative} ELSE {})
            /\ made' = [made EXCEPT !.calls = @ + 1,
                                    !.photo = IF ok THEN row.representative ELSE NoId]
    IN  IF \A r \in db.groups : r.id # g
        THEN /\ Becomes(RolledBack(0, 0))
             /\ Reports("removeGroup", FALSE, {}, {}, {})
             /\ made' = [made EXCEPT !.calls = @ + 1]
        ELSE \/ \E o \in InTransaction(<<freed, removed>>) :
                   /\ ~ o.ok
                   /\ Becomes(IF o.open THEN RolledBack(o.done, o.cost) ELSE o)
                   /\ Returns(FALSE)
             \/ \E o \in InTransaction(<<freed, removed>>), k \in 0 .. Len(entries) :
                   LET cost == IF k < Len(entries) THEN 1 ELSE 0
                       logged == Logged(removed, SubSeq(entries, 1, k))
                   IN  /\ o.ok
                       /\ Becomes([o EXCEPT !.db = logged, !.disk = logged, !.cost = cost])
                       /\ Returns(cost = 0)

WithoutPhoto(c, t, p) == [c EXCEPT ![t] = {r \in @ : r.photo # p}]

\* The log without the entries of a photo.
WithoutEntries(log, p) ==
    LET kept[i \in 0 .. Len(log)] ==
            IF i = 0 THEN <<>>
            ELSE IF log[i].photo = p THEN kept[i - 1] ELSE Append(kept[i - 1], log[i])
    IN  kept[Len(log)]

\* removePhotos(): table by table, the photo last.  Groups are left alone.
RemovalChain(p) ==
    LET unflagged == WithoutPhoto(db, "flags", p)
        unmarked == WithoutPhoto(unflagged, "generalFlags", p)
        unsized == WithoutPhoto(unmarked, "geometry", p)
        untagged == WithoutPhoto(unsized, "tags", p)
        unlogged == [untagged EXCEPT !.log = WithoutEntries(@, p)]
    IN  <<db, unflagged, unmarked, unsized, untagged, unlogged,
          [unlogged EXCEPT !.photos = @ \ {p}]>>

\* Mutant: nobody is told of the removal.
RemovePhoto_Silent(p) ==
    \E o \in InTransaction(RemovalChain(p)) :
       /\ Becomes(o)
       /\ Reports("removePhoto", o.ok, {}, {}, {})
       /\ UNCHANGED made

\* removePhoto(): photosRemoved is emitted whatever happened.
RemovePhoto(p) ==
    \E o \in InTransaction(RemovalChain(p)) :
       /\ Becomes(o)
       /\ Reports("removePhoto", o.ok, {}, {p} \cap db.photos, {})
       /\ UNCHANGED made

Unstaged(row) == [row EXCEPT !.on = @ \ {"StagingArea"}]

\* markStagedAsReviewed(): clients see it as photosMarkedAsReviewed only.
MarkStagedAsReviewed ==
    LET reviewed == [db EXCEPT !.flags = {Unstaged(r) : r \in @}]
    IN  /\ \E o \in Autocommit(IF reviewed = db THEN <<>> ELSE <<reviewed>>) : Becomes(o)
        /\ Reports("markStagedAsReviewed", TRUE, {}, {}, {})
        /\ UNCHANGED made

\* set() of a general flag.
SetFlag(p) ==
    /\ \E o \in Autocommit(<<UpdateOrInsert(db, "generalFlags", [photo |-> p])>>) : Becomes(o)
    /\ Reports("set", TRUE, {}, {}, {})
    /\ UNCHANGED made

-----------------------------------------------------------------------------
(* Tasks *)

Ends == task' = Idle /\ UNCHANGED tasks
GoesOn == UNCHANGED <<task, tasks>>

\* A file found by the scan of the collection.
Scan == task.kind = "scan" /\ AddPhotos([flags |-> {"StagingArea"}]) /\ Ends

Edit == task.kind = "update" /\ Update(task.photos, task.edit) /\ Ends

Review == task.kind = "review" /\ MarkStagedAsReviewed /\ Ends

MarkBroken == task.kind = "mark" /\ SetFlag(task.photo) /\ Ends

\* GroupsManager::group(): a representative with the details of the first
\* photo, the group, then the members.
GroupRepresentative ==
    LET first == Head(task.photos)
    IN  /\ task.kind = "group" /\ made.calls = 0
        /\ AddPhotos([tags |-> GetTags(db, first),
                      flags |-> GetFlags(db, first) \cap {"StagingArea"}])
        /\ GoesOn

GroupCreate == task.kind = "group" /\ made.calls = 1 /\ AddGroup(made.photo)

GroupJoin ==
    /\ task.kind = "group" /\ made.calls = 2
    /\ Update(task.photos, [group |-> IF made.group = NoId THEN <<>> ELSE <<made.group, "Member">>])
    /\ Ends

\* GroupsManager::ungroup()
UngroupDissolve == /\ task.kind = "ungroup" /\ made.calls = 0
                   /\ RemoveGroup(task.group)
                   /\ GoesOn

UngroupRemove == /\ task.kind = "ungroup" /\ made.calls = 1
                 /\ RemovePhoto(made.photo)
                 /\ Ends

-----------------------------------------------------------------------------
(* The queue and its clients *)

\* Groups whose representative a client was told of.
KnownGroups == {g.id : g \in {r \in db.groups : /\ r.representative \in seen
                                                /\ GetGroup(db, r.representative) # <<>>}}

\* What clients may ask for now; when the task is executed it may be outdated.
Requests ==
    LET batches == {S \in SUBSET seen : Cardinality(S) \in 1 .. MaxBatch} IN
    {[kind |-> "scan"], [kind |-> "review"]}
    \cup {[kind |-> "mark", photo |-> p] : p \in seen}
    \cup {[kind |-> "update", photos |-> SetToSeq(S), edit |-> e] : S \in batches, e \in Edits}
    \cup {[kind |-> "group", photos |-> SetToSeq(S)] : S \in {B \in batches : Cardinality(B) > 1}}
    \cup {[kind |-> "ungroup", group |-> g] : g \in KnownGroups}

Post ==
    /\ posted < MaxRequests
    /\ posted' = posted + 1
    /\ \E r \in Requests : tasks' = Append(tasks, r)
    /\ UNCHANGED <<content, task, made, report, seen, granted, faults>>

\* Mutant: a task goes on with what the one before it got.
Take_KeepMade ==
    /\ task = Idle
    /\ tasks # <<>>
    /\ task' = Head(tasks)
    /\ tasks' = Tail(tasks)
    /\ report' = NoReport
    /\ UNCHANGED <<content, made, seen, granted, posted, faults>>

Take ==
    /\ task = Idle
    /\ tasks # <<>>
    /\ task' = Head(tasks)
    /\ tasks' = Tail(tasks)
    /\ made' = Nothing
    /\ report' = NoReport
    /\ UNCHANGED <<content, seen, granted, posted, faults>>

Crash ==
    /\ faults < MaxFaults
    /\ faults' = faults + 1
    /\ Restarts(disk)
    /\ UNCHANGED posted

Init ==
    /\ db \in Collections
    /\ disk = db
    /\ open = FALSE
    /\ tasks = <<>>
    /\ task = Idle
    /\ made = Nothing
    /\ report = NoReport
    /\ seen = db.photos
    /\ granted = db.photos
    /\ posted = 0
    /\ faults = 0

Perform ==
    /\ UNCHANGED posted
    /\ \/ Scan \/ Edit \/ Review \/ MarkBroken
       \/ GroupRepresentative \/ GroupCreate \/ GroupJoin
       \/ UngroupDissolve \/ UngroupRemove

Next == Post \/ Take \/ Perform \/ Crash

Spec == Init /\ [][Next]_vars


-----------------------------------------------------------------------------
(* Properties *)

\* What clients read of the tables.
Content(c) ==
    [photos |-> [p \in c.photos |-> [tags |-> GetTags(c, p), flags |-> GetFlags(c, p),
                                     geometry |-> \E r \in c.geometry : r.photo = p,
                                     marked |-> \E r \in c.generalFlags : r.photo = p]],
     groups |-> [g \in {r.id : r \in c.groups} |->
                   [representative |-> (CHOOSE r \in c.groups : r.id = g).representative,
                    members |-> MembersOf(c, g)]]]

Promised == INSTANCE Backend WITH content <- Content(db), durable <- Content(disk),
                Edits <- Edits \cup {[marked |-> TRUE]},
                Details <- [tags : TagLists, flags : SUBSET Flags,
                            geometry : {FALSE}, marked : {FALSE}]

\* Every call is all or nothing: with a representative that is a member of
\* another group, with photos that are gone, with statements that fail in the
\* middle of a batch and with a COMMIT that fails.
AllOrNothing == Promised!Spec

\* Types of the state; what the tables hold respects the foreign keys.
TypeOK ==
    /\ db \in Contents /\ Consistent(db)
    /\ disk \in Contents /\ Consistent(disk)
    /\ open \in BOOLEAN
    /\ made \in [calls : 0 .. 2, photo : Photos \cup {NoId}, group : Groups \cup {NoId}]
    /\ seen \subseteq Photos
    /\ granted \subseteq Photos
    /\ posted \in 0 .. MaxRequests
    /\ faults \in 0 .. MaxFaults

\* Places of the entries about a field of a photo.
About(log, p, field) == {i \in DOMAIN log : log[i].photo = p /\ log[i].field = field}

\* The value that the entries before a place end with.
Told(log, p, field, place) ==
    LET earlier == {i \in About(log, p, field) : i < place}
    IN  IF earlier = {} THEN <<>>
        ELSE log[CHOOSE i \in earlier : \A j \in earlier : j <= i].new

\* The entries follow each other and end with the value.
Tells(log, p, field, value) ==
    /\ \A i \in About(log, p, field) : log[i].old = Told(log, p, field, i)
    /\ value = Told(log, p, field, Len(log) + 1)

TagsAreLogged(c) ==
    \A p \in c.photos, n \in Names : Tells(c.log, p, n, ValueIn(GetTags(c, p), n))

\* Replaying the change log of a photo gives its tags, whatever failed, also
\* when the id belonged to another photo before.
LogTellsTags == TagsAreLogged(db)

\* The log has the photo in a role, before or after one of its entries.
Knows(log, p, role) ==
    \E i \in About(log, p, "group") : \E v \in {log[i].old, log[i].new} \ {<<>>} : v[2] = role

\* The log knows the photo as a member or as a representative, never as both:
\* the representative of a group was not put in another one.
OneRole(log, p) == \E role \in Roles : ~ Knows(log, p, role)

GroupByRows(c, p) ==
    LET owned == {g \in c.groups : g.representative = p}
        joined == {m \in c.members : m.photo = p}
    IN  IF owned # {} THEN <<(CHOOSE g \in owned : TRUE).id, "Representative">>
        ELSE IF joined # {} THEN <<(CHOOSE m \in joined : TRUE).group, "Member">>
        ELSE <<>>

GroupsAreLogged(c) ==
    \A p \in c.photos : OneRole(c.log, p) => Tells(c.log, p, "group", GroupByRows(c, p))

\* A photo represents one group at most, and is a member of one at most.
RowsAreUnique(c) ==
    /\ \A r, q \in c.groups : r.representative = q.representative => r = q
    /\ \A m, n \in c.members : m.photo = n.photo => m = n

\* The log has every representative and every member in its role.
RolesAreKnown(c) ==
    /\ \A r \in c.groups : Knows(c.log, r.representative, "Representative")
    /\ \A m \in c.members : Knows(c.log, m.photo, "Member")

\* What a session leaves in which nothing failed.
GroupsAreKept(c) == GroupsAreLogged(c) /\ RowsAreUnique(c) /\ RolesAreKnown(c)

\* As long as nothing failed, and groups are not put in groups, the log tells
\* the group of every photo too.
LogTellsGroups == faults = 0 => GroupsAreLogged(db)

\* A photo that addPhotos() reported as added is in the collection and on the
\* disk until its removal is signalled: whatever failed since, also through
\* transactions left open, rollbacks of other calls and crashes.
AnnouncedExist == granted \subseteq db.photos \cap disk.photos

\* What update() or addPhotos() reports as done survives a crash.
ReportedIsDurable ==
    report.call \in {"update", "addPhotos"} /\ report.ok => db = disk

-----------------------------------------------------------------------------
(* What a comment says and the code does not do *)

\* ibackend.hpp:116, "If operation is sucessful photosAdded() signal is
\* emited": a photo that was announced is in the collection.
AnnouncedAdded == seen \subseteq db.photos

-----------------------------------------------------------------------------
(* The collections a session starts with *)

\* The keys of groups are primary keys.
UniqueGroups(c) == \A r, q \in c.groups : r.id = q.id => r = q

\* What every session leaves, whatever fails in it.
ASSUME CollectionsAssumption ==
    \A c \in Collections : /\ c \in Contents /\ Consistent(c)
                            /\ UniqueGroups(c)
                            /\ TagsAreLogged(c)

=============================================================================
