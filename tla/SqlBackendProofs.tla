-------------------------- MODULE SqlBackendProofs --------------------------
(***************************************************************************)
(* What is proved about SqlBackend, for every number of photos and groups, *)
(* every delta, every batch, every content an earlier session left and     *)
(* every statement that fails.                                             *)
(*                                                                         *)
(*   - A call that reports success is durable at once: what the connection *)
(*     sees and what the disk holds differ only while a failed COMMIT left *)
(*     a transaction open.  Only how chains are run is used here.          *)
(*   - The tables keep their types and the foreign keys (Sane): a chain of *)
(*     a transaction is refused as a whole by its first statement that     *)
(*     breaks a key.                                                       *)
(*   - A photo whose addition was reported stays in the tables and on the  *)
(*     disk until its removal is signalled (GrantedInv): a call leads to a *)
(*     content that keeps it, and only a committed one adds to them.       *)
(*   - The log tells the tags of every photo (TagsInv): a call leads to a  *)
(*     content in which the log follows the tags, or to none.              *)
(*   - Every call is one of Backend, or loses what was not durable         *)
(*     (KeysInv): the content a call leads to is what Backend promises.    *)
(*   - As long as nothing failed, the log tells the groups (GroupsInv).  A *)
(*     task goes on with what its earlier calls gave: the photo it added   *)
(*     is one no row and no entry names yet, the group it made is a group. *)
(*                                                                         *)
(* The second to the fifth say the same of the content and of the disk,    *)
(* because a call that fails takes the content back to the disk.           *)
(***************************************************************************)
EXTENDS SqlBackend, SequenceLemmas, TLAPS

-----------------------------------------------------------------------------
(* Success is durable *)

OnlyOpenDiffers == ~ open => db = disk

SuccessClosed == report.call \in {"update", "addPhotos"} /\ report.ok => ~ open

Durable == OnlyOpenDiffers /\ SuccessClosed

\* What an outcome leaves behind, and that a successful one is committed.
Sound(o) == ~ o.open => o.db = o.disk
Closed(o) == o.ok => ~ o.open
IsOutcome(o) == o = [k \in {"db", "disk", "open", "ok", "done", "cost"} |-> o[k]]

\* However a transaction ends, success means it is committed.
LEMMA TransactionsAreSound ==
    ASSUME NEW chain, NEW o \in InTransaction(chain)
    PROVE  Sound(o) /\ Closed(o) /\ IsOutcome(o)
<1>1. ASSUME NEW done, NEW cost, o = RolledBack(done, cost)
      PROVE  Sound(o) /\ Closed(o) /\ IsOutcome(o)
  BY <1>1 DEF RolledBack, Sound, Closed, IsOutcome
<1>2. CASE o \in Committed(chain)
  BY <1>2 DEF Committed, Sound, Closed, IsOutcome
<1>3. CASE o \in CommitFailed(chain)
  BY <1>3 DEF CommitFailed, Sound, Closed, IsOutcome
<1> QED  BY <1>1, <1>2, <1>3 DEF InTransaction

\* Outside of a transaction a statement is on the disk at once, unless one is open.
LEMMA AutocommitIsSound ==
    ASSUME NEW chain, NEW o \in Autocommit(chain)
    PROVE  Sound(o)
  BY DEF Autocommit, Sound

\* An outcome that becomes the state keeps the invariant.
LEMMA SoundStep ==
    ASSUME NEW o, NEW call, NEW ok, NEW added, NEW removed, NEW modified,
           Becomes(o), Reports(call, ok, added, removed, modified),
           Sound(o),
           call \in {"update", "addPhotos"} /\ ok => ~ o.open
    PROVE  Durable'
  BY DEF Becomes, Reports, Sound, Durable, OnlyOpenDiffers, SuccessClosed

\* The program starts again from the disk.
LEMMA Restarted == ASSUME NEW c, Restarts(c)  PROVE Durable'
  BY DEF Restarts, NoReport, Durable, OnlyOpenDiffers, SuccessClosed

\* addPhotos() keeps the invariant.
LEMMA AddPhotosKeeps == ASSUME NEW d, AddPhotos(d)  PROVE Durable'
<1>1. PICK chain, o, added :
         /\ o \in InTransaction(chain)
         /\ Becomes(o) /\ Reports("addPhotos", o.ok, added, {}, {})
  BY DEF AddPhotos
<1> QED  BY <1>1, TransactionsAreSound, SoundStep DEF Closed

\* update() keeps the invariant.
LEMMA UpdateKeeps == ASSUME NEW photos, NEW d, Update(photos, d)  PROVE Durable'
<1>1. PICK chain, o, modified :
         /\ o \in InTransaction(chain)
         /\ Becomes(o) /\ Reports("update", o.ok, {}, {}, modified)
  BY DEF Update
<1> QED  BY <1>1, TransactionsAreSound, SoundStep DEF Closed

\* addGroup() keeps the invariant, also when nobody catches the error of the log.
LEMMA AddGroupKeeps == ASSUME NEW p, AddGroup(p)  PROVE Durable'
<1>1. CASE \E c : Restarts(c)
  BY <1>1, Restarted
<1>2. CASE \E chain, o, ok, modified :
              o \in Autocommit(chain) /\ Becomes(o) /\ Reports("addGroup", ok, {}, {}, modified)
  BY <1>2, AutocommitIsSound, SoundStep
<1> QED  BY <1>1, <1>2 DEF AddGroup

\* removeGroup() keeps the invariant; the log is written once the group is gone.
LEMMA RemoveGroupKeeps == ASSUME NEW g, RemoveGroup(g)  PROVE Durable'
<1>1. ASSUME NEW o, Becomes(o), Sound(o),
             \E ok, modified : Reports("removeGroup", ok, {}, {}, modified)
      PROVE  Durable'
  BY <1>1, SoundStep
<1>2. \A done, cost : Sound(RolledBack(done, cost))
  BY DEF RolledBack, Sound
<1>3. CASE \A r \in db.groups : r.id # g
  BY <1>1, <1>2, <1>3 DEF RemoveGroup
<1>4. CASE ~ \A r \in db.groups : r.id # g
  <2>1. \E ok, modified : Reports("removeGroup", ok, {}, {}, modified)
    BY <1>4 DEF RemoveGroup
  <2> DEFINE row == CHOOSE r \in db.groups : r.id = g
             freed == [db EXCEPT !.members = {m \in @ : m.group # g}]
             chain == <<freed, [freed EXCEPT !.groups = @ \ {row}]>>
             Fails(o) == Becomes(IF o.open THEN RolledBack(o.done, o.cost) ELSE o)
             Writes(o, logged, cost) ==
                 Becomes([o EXCEPT !.db = logged, !.disk = logged, !.cost = cost])
  <2>2. \/ \E o \in InTransaction(chain) : Fails(o)
        \/ \E o \in InTransaction(chain) : \E logged, cost : Writes(o, logged, cost)
    BY <1>4, Zenon DEF RemoveGroup
  <2>3. PICK o \in InTransaction(chain) : Fails(o) \/ \E logged, cost : Writes(o, logged, cost)
    <3> HIDE DEF chain, Fails, Writes
    <3> QED  BY <2>2
  <2>4. Sound(o) /\ IsOutcome(o)
    BY <2>3, TransactionsAreSound
  <2>5. CASE Becomes(IF o.open THEN RolledBack(o.done, o.cost) ELSE o)
    BY <1>1, <1>2, <2>1, <2>4, <2>5
  <2>6. CASE \E logged, cost : Becomes([o EXCEPT !.db = logged, !.disk = logged, !.cost = cost])
    <3>1. PICK logged, cost : Becomes([o EXCEPT !.db = logged, !.disk = logged, !.cost = cost])
      BY <2>6
    <3>2. Sound([o EXCEPT !.db = logged, !.disk = logged, !.cost = cost])
      BY <2>4 DEF Sound, IsOutcome
    <3> QED  BY <1>1, <2>1, <3>1, <3>2
  <2> QED  BY <2>3, <2>5, <2>6
<1> QED  BY <1>3, <1>4

\* removePhoto() keeps the invariant.
LEMMA RemovePhotoKeeps == ASSUME NEW p, RemovePhoto(p)  PROVE Durable'
<1>1. PICK chain, o, removed :
         /\ o \in InTransaction(chain)
         /\ Becomes(o) /\ Reports("removePhoto", o.ok, {}, removed, {})
  BY DEF RemovePhoto
<1> QED  BY <1>1, TransactionsAreSound, SoundStep

\* markStagedAsReviewed() keeps the invariant.
LEMMA MarkStagedKeeps == ASSUME MarkStagedAsReviewed  PROVE Durable'
<1>1. PICK chain, o :
         /\ o \in Autocommit(chain)
         /\ Becomes(o) /\ Reports("markStagedAsReviewed", TRUE, {}, {}, {})
  BY DEF MarkStagedAsReviewed
<1> QED  BY <1>1, AutocommitIsSound, SoundStep

\* set() of a general flag keeps the invariant.
LEMMA SetFlagKeeps == ASSUME NEW p, SetFlag(p)  PROVE Durable'
<1>1. PICK chain, o :
         /\ o \in Autocommit(chain)
         /\ Becomes(o) /\ Reports("set", TRUE, {}, {}, {})
  BY DEF SetFlag
<1> QED  BY <1>1, AutocommitIsSound, SoundStep

\* What update() or addPhotos() reports as done is on the disk: for every
\* content, every request and every statement that fails.
THEOREM SuccessIsDurable == Spec => []ReportedIsDurable
<1>1. Init => Durable
  BY DEF Init, NoReport, Durable, OnlyOpenDiffers, SuccessClosed
<1>2. Durable /\ [Next]_vars => Durable'
  <2> SUFFICES ASSUME Durable, [Next]_vars  PROVE Durable'
    OBVIOUS
  <2>1. CASE Post
    BY <2>1 DEF Post, content, Durable, OnlyOpenDiffers, SuccessClosed
  <2>2. CASE Take
    BY <2>2 DEF Take, content, NoReport, Durable, OnlyOpenDiffers, SuccessClosed
  <2>3. CASE Crash
    BY <2>3, Restarted DEF Crash
  <2>4. CASE Scan \/ GroupRepresentative
    BY <2>4, AddPhotosKeeps DEF Scan, GroupRepresentative
  <2>5. CASE Edit \/ GroupJoin
    BY <2>5, UpdateKeeps DEF Edit, GroupJoin
  <2>6. CASE Review
    BY <2>6, MarkStagedKeeps DEF Review
  <2>7. CASE MarkBroken
    BY <2>7, SetFlagKeeps DEF MarkBroken
  <2>8. CASE GroupCreate
    BY <2>8, AddGroupKeeps DEF GroupCreate
  <2>9. CASE UngroupDissolve
    BY <2>9, RemoveGroupKeeps DEF UngroupDissolve
  <2>10. CASE UngroupRemove
    BY <2>10, RemovePhotoKeeps DEF UngroupRemove
  <2>11. CASE UNCHANGED vars
    BY <2>11 DEF vars, content, Durable, OnlyOpenDiffers, SuccessClosed
  <2> QED
    BY <2>1, <2>2, <2>3, <2>4, <2>5, <2>6, <2>7, <2>8, <2>9, <2>10, <2>11 DEF Next, Perform
<1>3. Durable => ReportedIsDurable
  BY DEF Durable, OnlyOpenDiffers, SuccessClosed, ReportedIsDurable
<1> QED  BY <1>1, <1>2, <1>3, PTL DEF Spec

-----------------------------------------------------------------------------
(* How chains are run *)

\* Places of a chain at which a foreign key is broken.
Refused(chain) == {i \in DOMAIN chain : ~ Consistent(chain[i])}

\* The statements up to Reach(chain) keep the foreign keys; if all of the chain
\* do, Reach(chain) is its length.
LEMMA ReachProperties ==
    ASSUME NEW S, NEW chain \in Seq(S)
    PROVE  /\ Reach(chain) \in 0 .. Len(chain)
           /\ \A i \in 1 .. Reach(chain) : Consistent(chain[i])
           /\ (\A i \in 1 .. Len(chain) : Consistent(chain[i])) => Reach(chain) = Len(chain)
<1>1. Len(chain) \in Nat /\ DOMAIN chain = 1 .. Len(chain)
  OBVIOUS
<1>2. Reach(chain) = IF Refused(chain) = {} THEN Len(chain)
                     ELSE (CHOOSE i \in Refused(chain) : \A j \in Refused(chain) : i <= j) - 1
  BY DEF Reach, Refused
<1>3. CASE Refused(chain) = {}
  BY <1>1, <1>2, <1>3 DEF Refused
<1>4. CASE Refused(chain) # {}
  <2>1. Refused(chain) \subseteq 1 .. Len(chain) /\ Refused(chain) \subseteq Nat
    BY <1>1 DEF Refused
  <2> DEFINE m == CHOOSE i \in Refused(chain) : \A j \in Refused(chain) : i <= j
  <2>2. m \in Refused(chain) /\ \A j \in Refused(chain) : m <= j
    <3>1. \E i \in Refused(chain) : \A j \in Refused(chain) : i <= j
      BY <1>4, <2>1, LeastNumber
    <3> QED  BY <3>1
  <2>3. Reach(chain) = m - 1
    BY <1>2, <1>4
  <2> HIDE DEF m
  <2>4. m \in 1 .. Len(chain) /\ ~ Consistent(chain[m])
    BY <1>1, <2>1, <2>2 DEF Refused
  <2>5. ASSUME NEW i \in 1 .. m - 1  PROVE Consistent(chain[i])
    <3>1. i \in DOMAIN chain /\ ~ (m <= i)
      BY <1>1, <2>4
    <3> QED  BY <2>2, <3>1 DEF Refused
  <2> QED  BY <1>1, <2>3, <2>4, <2>5
<1> QED  BY <1>3, <1>4

\* However a transaction ends, it either goes back to the disk or has run the
\* whole chain, which then keeps the foreign keys.
LEMMA TransactionOutcomes ==
    ASSUME NEW S, NEW chain \in Seq(S), NEW o \in InTransaction(chain)
    PROVE  \/ \E done \in 0 .. Len(chain), cost \in {0, 1} :
                 /\ o = RolledBack(done, cost)
                 /\ open => done = 0
                 /\ ~ open /\ cost = 0 => \E i \in 1 .. Len(chain) : ~ Consistent(chain[i])
           \/ /\ ~ open
              /\ \A i \in 1 .. Len(chain) : Consistent(chain[i])
              /\ o \in Committed(chain) \cup CommitFailed(chain)
<1>1. /\ Reach(chain) \in 0 .. Len(chain) /\ Len(chain) \in Nat
      /\ \A i \in 1 .. Reach(chain) : Consistent(chain[i])
      /\ (\A i \in 1 .. Len(chain) : Consistent(chain[i])) => Reach(chain) = Len(chain)
  BY ReachProperties
<1>2. CASE open
  BY <1>1, <1>2 DEF InTransaction
<1>3. CASE ~ open /\ \E k \in 0 .. Reach(chain) : o = RolledBack(k, 1)
  BY <1>1, <1>3
<1>4. CASE ~ open /\ Reach(chain) < Len(chain) /\ o = RolledBack(Reach(chain), 0)
  BY <1>1, <1>4
<1>5. CASE /\ ~ open
           /\ ~ (Reach(chain) < Len(chain))
           /\ o \in Committed(chain) \cup CommitFailed(chain)
  BY <1>1, <1>5
<1> QED  BY <1>2, <1>3, <1>4, <1>5 DEF InTransaction

\* Outside of a transaction what is done stays done.
LEMMA AutocommitOutcomes ==
    ASSUME NEW S, NEW chain \in Seq(S), NEW o \in Autocommit(chain)
    PROVE  \E k \in 0 .. Reach(chain) :
              /\ \A i \in 1 .. k : Consistent(chain[i])
              /\ o.db = After(chain, k) /\ o.open = open
              /\ o.disk = IF open THEN disk ELSE After(chain, k)
              /\ o.done = k /\ (o.ok <=> k = Len(chain))
              /\ (o.cost = 0 => k = Reach(chain)) /\ o.cost \in {0, 1}
<1>1. /\ Reach(chain) \in 0 .. Len(chain) /\ Len(chain) \in Nat
      /\ \A i \in 1 .. Reach(chain) : Consistent(chain[i])
  BY ReachProperties
<1>2. PICK k \in 0 .. Reach(chain) :
         o = [db |-> After(chain, k), disk |-> IF open THEN disk ELSE After(chain, k),
              open |-> open, ok |-> k = Len(chain), done |-> k,
              cost |-> IF k < Reach(chain) THEN 1 ELSE 0]
  BY DEF Autocommit
<1>3. \A i \in 1 .. k : Consistent(chain[i])
  BY <1>1
<1>4. o.cost = 0 => k = Reach(chain)
  BY <1>1, <1>2
<1> QED  BY <1>2, <1>3, <1>4

-----------------------------------------------------------------------------
(* What the statements leave in the tables *)

\* The deltas that the calls bring.
IsDelta(d) ==
    /\ DOMAIN d \subseteq {"tags", "flags", "geometry", "group"}
    /\ "tags" \in DOMAIN d => d.tags \in TagLists
    /\ "flags" \in DOMAIN d => d.flags \subseteq Flags
    /\ "geometry" \in DOMAIN d => d.geometry = TRUE
    /\ "group" \in DOMAIN d => d.group \in {<<>>} \cup Groups \X {"Member"}

\* The statements of storeData() one by one.
Tagged(c, p, d) == IF "tags" \in DOMAIN d THEN StoreTags(c, p, d.tags) ELSE c
\* The parts of storeData(): each is one of its statements, or none.
Sized(c, p, d) ==
    IF "geometry" \in DOMAIN d THEN UpdateOrInsert(c, "geometry", [photo |-> p]) ELSE c
Flagged(c, p, d) ==
    IF "flags" \in DOMAIN d THEN UpdateOrInsert(c, "flags", [photo |-> p, on |-> d.flags]) ELSE c
Joined(c, p, d) == IF "group" \in DOMAIN d THEN StoreGroup(c, p, d.group) ELSE c
Noted(c, p, d) ==
    (IF "tags" \in DOMAIN d THEN TagEntries(p, GetTags(c, p), d.tags) ELSE <<>>)
    \o (IF "group" \in DOMAIN d THEN GroupEntries(p, GetGroup(c, p), d.group) ELSE <<>>)
AllButLog(c, p, d) == Joined(Flagged(Sized(Tagged(c, p, d), p, d), p, d), p, d)
\* All of storeData().
Stored(c, p, d) == Logged(AllButLog(c, p, d), Noted(c, p, d))

\* The second content is the first but for one table.
SameBut(c, other, table) ==
    /\ table # "photos" => other.photos = c.photos
    /\ table # "flags" => other.flags = c.flags
    /\ table # "generalFlags" => other.generalFlags = c.generalFlags
    /\ table # "geometry" => other.geometry = c.geometry
    /\ table # "tags" => other.tags = c.tags
    /\ table # "groups" => other.groups = c.groups
    /\ table # "members" => other.members = c.members
    /\ table # "log" => other.log = c.log

\* storeData() by its parts.
LEMMA StoreDataSteps ==
    ASSUME NEW c, NEW p, NEW d
    PROVE  StoreData(c, p, d) = << Tagged(c, p, d), Sized(Tagged(c, p, d), p, d),
                                   Flagged(Sized(Tagged(c, p, d), p, d), p, d),
                                   AllButLog(c, p, d), Stored(c, p, d) >>
BY DEF StoreData, Tagged, Sized, Flagged, Joined, Noted, AllButLog, Stored

\* What the queries return.
LEMMA QueriesType ==
    ASSUME NEW c \in Contents, NEW p
    PROVE  /\ GetTags(c, p) \in TagLists
           /\ GetGroup(c, p) \in {<<>>} \cup Groups \X Roles
           /\ GetFlags(c, p) \subseteq Flags
<1>1. GetTags(c, p) \in TagLists
  <2> DEFINE rows == {r \in c.tags : r.photo = p}
             names == {r.name : r \in rows}
             value(n) == (CHOOSE r \in rows : r.name = n).value
  <2>1. \A r \in rows : r.name \in Names /\ r.value \in Values
    BY DEF Contents
  <2>2. \A n \in names : value(n) \in Values
    <3> SUFFICES ASSUME NEW n \in names  PROVE value(n) \in Values
      OBVIOUS
    <3>1. \E r \in rows : r.name = n
      OBVIOUS
    <3> QED  BY <2>1, <3>1
  <2>3. names \in SUBSET Names
    BY <2>1
  <2>4. GetTags(c, p) = [n \in names |-> value(n)]
    BY DEF GetTags
  <2> HIDE DEF names, value
  <2> QED  BY <2>2, <2>3, <2>4 DEF TagLists
<1>2. GetGroup(c, p) \in {<<>>} \cup Groups \X Roles
  <2> DEFINE owned == {g \in c.groups : g.representative = p
                                        /\ \E m \in c.members : m.group = g.id}
             joined == {m \in c.members : m.photo = p}
  <2>1. GetGroup(c, p) = IF owned # {} THEN <<(CHOOSE g \in owned : TRUE).id, "Representative">>
                         ELSE IF joined # {} THEN <<(CHOOSE m \in joined : TRUE).group, "Member">>
                         ELSE <<>>
    BY DEF GetGroup
  <2>2. \A g \in owned : g.id \in Groups
    BY DEF Contents
  <2>3. \A m \in joined : m.group \in Groups
    BY DEF Contents
  <2> HIDE DEF owned, joined
  <2> QED  BY <2>1, <2>2, <2>3 DEF Roles
<1>3. GetFlags(c, p) \subseteq Flags
  BY DEF GetFlags, Contents
<1> QED  BY <1>1, <1>2, <1>3

\* The value of a tag can be logged.
LEMMA ValueInType ==
    ASSUME NEW list \in TagLists, NEW n
    PROVE  ValueIn(list, n) \in {<<>>} \cup {<<v>> : v \in Values}
BY DEF TagLists, ValueIn

\* The entries of the log.
Entries == [photo : Nat, field : Names \cup {"group"}, old : Loggable, new : Loggable]

\* The names of the tags that are not the same in two lists.
Changed(old, new) == {n \in Names : ValueIn(old, n) # ValueIn(new, n)}

\* There is an entry for each tag that is changed, and no other.
LEMMA TagEntriesProperties ==
    ASSUME NEW p \in Nat, NEW old \in TagLists, NEW new \in TagLists
    PROVE  \E names \in Seq(Names) :
              /\ IsInjective(names) /\ Range(names) = Changed(old, new)
              /\ TagEntries(p, old, new) \in Seq(Entries)
              /\ Len(TagEntries(p, old, new)) = Len(names)
              /\ \A i \in 1 .. Len(names) :
                    TagEntries(p, old, new)[i]
                    = Entry(p, names[i], ValueIn(old, names[i]), ValueIn(new, names[i]))
<1> DEFINE names == SetToSeq(Changed(old, new))
<1>1. IsFiniteSet(Changed(old, new))
  BY SqlAssumption, FS_Subset DEF Changed
<1>2. names \in Seq(Changed(old, new)) /\ IsInjective(names) /\ Range(names) = Changed(old, new)
  BY <1>1, SetToSeqProperties
<1>3. TagEntries(p, old, new) = [i \in DOMAIN names |->
         Entry(p, names[i], ValueIn(old, names[i]), ValueIn(new, names[i]))]
  BY DEF TagEntries, Changed
<1> HIDE DEF names
<1>4. names \in Seq(Names) /\ Len(names) \in Nat /\ DOMAIN names = 1 .. Len(names)
  BY <1>2, SeqMonotonic DEF Changed
<1>5. ASSUME NEW i \in 1 .. Len(names)
      PROVE  Entry(p, names[i], ValueIn(old, names[i]), ValueIn(new, names[i])) \in Entries
  <2>1. names[i] \in Names
    BY <1>4
  <2>2. ValueIn(old, names[i]) \in Loggable /\ ValueIn(new, names[i]) \in Loggable
    BY ValueInType DEF Loggable
  <2> QED  BY <2>1, <2>2 DEF Entry, Entries
<1>6. TagEntries(p, old, new) \in [1 .. Len(names) -> Entries]
  BY <1>3, <1>4, <1>5
<1>7. TagEntries(p, old, new) \in Seq(Entries) /\ Len(TagEntries(p, old, new)) = Len(names)
  BY <1>4, <1>6, FunctionIsSeq
<1> QED  BY <1>2, <1>3, <1>4, <1>7

\* A log is a sequence of entries.
LEMMA LogsAre == Logs = Seq(Entries)
BY DEF Logs, Entries

\* What is logged is typed.
LEMMA NotedType ==
    ASSUME NEW c \in Contents, NEW p \in Nat, NEW d, IsDelta(d)
    PROVE  Noted(c, p, d) \in Seq(Entries)
<1>1. (IF "tags" \in DOMAIN d THEN TagEntries(p, GetTags(c, p), d.tags) ELSE <<>>) \in Seq(Entries)
  BY QueriesType, TagEntriesProperties, EmptySeq DEF IsDelta
<1>2. (IF "group" \in DOMAIN d THEN GroupEntries(p, GetGroup(c, p), d.group) ELSE <<>>)
      \in Seq(Entries)
  <2>1. CASE "group" \in DOMAIN d
    <3>1. d.group \in Loggable /\ GetGroup(c, p) \in Loggable
      BY <2>1, QueriesType DEF IsDelta, Loggable, Roles
    <3>2. Entry(p, "group", GetGroup(c, p), d.group) \in Entries
      BY <3>1 DEF Entry, Entries
    <3> QED  BY <2>1, <3>2 DEF GroupEntries
  <2>2. CASE "group" \notin DOMAIN d
    BY <2>2
  <2> QED  BY <2>1, <2>2
<1> QED  BY <1>1, <1>2, ConcatProperties DEF Noted

\* The rows after each of the statements.
TagRows(rows, p, d) ==
    IF "tags" \in DOMAIN d
    THEN {r \in rows : r.photo # p}
         \cup {[photo |-> p, name |-> n, value |-> d.tags[n]] : n \in DOMAIN d.tags}
    ELSE rows
GeometryRows(rows, p, d) ==
    IF "geometry" \in DOMAIN d THEN {r \in rows : r.photo # p} \cup {[photo |-> p]} ELSE rows
FlagRows(rows, p, d) ==
    IF "flags" \in DOMAIN d
    THEN {r \in rows : r.photo # p} \cup {[photo |-> p, on |-> d.flags]} ELSE rows
MemberRows(rows, p, d) ==
    IF "group" \in DOMAIN d /\ d.group # <<>>
    THEN {r \in rows : r.photo # p} \cup {[group |-> d.group[1], photo |-> p]} ELSE rows

\* What each of the statements changes, and what it leaves alone.
LEMMA TaggedTables ==
    ASSUME NEW c \in Contents, NEW p \in Nat, NEW d, IsDelta(d)
    PROVE  /\ Tagged(c, p, d) \in Contents
           /\ SameBut(c, Tagged(c, p, d), "tags")
           /\ Tagged(c, p, d).tags = TagRows(c.tags, p, d)
<1>1. CASE "tags" \in DOMAIN d
  <2>1. Tagged(c, p, d) = [c EXCEPT !.tags = {r \in @ : r.photo # p}
             \cup {[photo |-> p, name |-> n, value |-> d.tags[n]] : n \in DOMAIN d.tags}]
    BY <1>1 DEF Tagged, StoreTags
  <2>2. \A n \in DOMAIN d.tags : n \in Names /\ d.tags[n] \in Values
    BY <1>1 DEF IsDelta, TagLists
  <2>3. {[photo |-> p, name |-> n, value |-> d.tags[n]] : n \in DOMAIN d.tags}
           \subseteq [photo : Nat, name : Names, value : Values]
    BY <2>2
  <2> QED  BY <1>1, <2>1, <2>3 DEF Contents, SameBut, TagRows
<1>2. CASE "tags" \notin DOMAIN d
  BY <1>2 DEF Tagged, Contents, SameBut, TagRows
<1> QED  BY <1>1, <1>2

\* The statement about the size: the other tables stay as they are.
LEMMA SizedTables ==
    ASSUME NEW c \in Contents, NEW p \in Nat, NEW d
    PROVE  /\ Sized(c, p, d) \in Contents
           /\ SameBut(c, Sized(c, p, d), "geometry")
           /\ Sized(c, p, d).geometry = GeometryRows(c.geometry, p, d)
<1>1. CASE "geometry" \in DOMAIN d
  <2>1. Sized(c, p, d) = [c EXCEPT !.geometry = {r \in @ : r.photo # p} \cup {[photo |-> p]}]
    BY <1>1 DEF Sized, UpdateOrInsert
  <2> QED  BY <1>1, <2>1 DEF Contents, SameBut, GeometryRows
<1>2. CASE "geometry" \notin DOMAIN d
  BY <1>2 DEF Sized, Contents, SameBut, GeometryRows
<1> QED  BY <1>1, <1>2

\* The statement about the flags.
LEMMA FlaggedTables ==
    ASSUME NEW c \in Contents, NEW p \in Nat, NEW d, IsDelta(d)
    PROVE  /\ Flagged(c, p, d) \in Contents
           /\ SameBut(c, Flagged(c, p, d), "flags")
           /\ Flagged(c, p, d).flags = FlagRows(c.flags, p, d)
<1>1. CASE "flags" \in DOMAIN d
  <2>1. Flagged(c, p, d) = [c EXCEPT !.flags = {r \in @ : r.photo # p}
                                               \cup {[photo |-> p, on |-> d.flags]}]
    BY <1>1 DEF Flagged, UpdateOrInsert
  <2>2. d.flags \in SUBSET Flags
    BY <1>1 DEF IsDelta
  <2> QED  BY <1>1, <2>1, <2>2 DEF Contents, SameBut, FlagRows
<1>2. CASE "flags" \notin DOMAIN d
  BY <1>2 DEF Flagged, Contents, SameBut, FlagRows
<1> QED  BY <1>1, <1>2

\* The statement about the group.
LEMMA JoinedTables ==
    ASSUME NEW c \in Contents, NEW p \in Nat, NEW d, IsDelta(d)
    PROVE  /\ Joined(c, p, d) \in Contents
           /\ SameBut(c, Joined(c, p, d), "members")
           /\ Joined(c, p, d).members = MemberRows(c.members, p, d)
<1>1. CASE "group" \in DOMAIN d /\ d.group # <<>>
  <2>1. d.group[1] \in Groups
    BY <1>1 DEF IsDelta
  <2>2. Joined(c, p, d) = [c EXCEPT !.members = {r \in @ : r.photo # p}
                                                \cup {[group |-> d.group[1], photo |-> p]}]
    BY <1>1 DEF Joined, StoreGroup, UpdateOrInsert
  <2> QED  BY <1>1, <2>1, <2>2 DEF Contents, SameBut, MemberRows
<1>2. CASE ~ ("group" \in DOMAIN d /\ d.group # <<>>)
  <2>1. Joined(c, p, d) = c
    BY <1>2 DEF Joined, StoreGroup
  <2> QED  BY <1>2, <2>1 DEF Contents, SameBut, MemberRows
<1> QED  BY <1>1, <1>2

\* The statement that writes the log.
LEMMA LoggedTables ==
    ASSUME NEW c \in Contents, NEW es \in Seq(Entries)
    PROVE  /\ Logged(c, es) \in Contents
           /\ SameBut(c, Logged(c, es), "log") /\ Logged(c, es).log = c.log \o es
<1>1. c.log \o es \in Seq(Entries)
  <2>1. c.log \in Seq(Entries)
    BY LogsAre DEF Contents
  <2> QED  BY <2>1
<1>2. Logged(c, es) = [c EXCEPT !.log = c.log \o es]
  BY DEF Logged
<1>3. [c EXCEPT !.log = c.log \o es] \in Contents
  BY <1>1, LogsAre DEF Contents
<1> QED  BY <1>2, <1>3 DEF Contents, SameBut

\* What storeData() leaves in the tables.
LEMMA StoredTables ==
    ASSUME NEW c \in Contents, NEW p \in Nat, NEW d, IsDelta(d)
    PROVE  /\ StoreData(c, p, d) \in Seq(Contents)
           /\ Len(StoreData(c, p, d)) = 5
           /\ StoreData(c, p, d)[5] = Stored(c, p, d)
           /\ \A i \in 1 .. 5 : StoreData(c, p, d)[i].photos = c.photos
           /\ \A i \in 1 .. 5 : StoreData(c, p, d)[i].groups = c.groups
           /\ Stored(c, p, d) \in Contents
           /\ Stored(c, p, d).photos = c.photos
           /\ Stored(c, p, d).groups = c.groups
           /\ Stored(c, p, d).generalFlags = c.generalFlags
           /\ Stored(c, p, d).tags = TagRows(c.tags, p, d)
           /\ Stored(c, p, d).geometry = GeometryRows(c.geometry, p, d)
           /\ Stored(c, p, d).flags = FlagRows(c.flags, p, d)
           /\ Stored(c, p, d).members = MemberRows(c.members, p, d)
           /\ Stored(c, p, d).log = c.log \o Noted(c, p, d)
<1> DEFINE c1 == Tagged(c, p, d)
           c2 == Sized(c1, p, d)
           c3 == Flagged(c2, p, d)
           c4 == Joined(c3, p, d)
<1>1. c1 \in Contents /\ SameBut(c, c1, "tags") /\ c1.tags = TagRows(c.tags, p, d)
  BY TaggedTables
<1>2. /\ c2 \in Contents /\ SameBut(c1, c2, "geometry")
      /\ c2.geometry = GeometryRows(c.geometry, p, d)
  <2> HIDE DEF c1
  <2>1. /\ c2 \in Contents /\ SameBut(c1, c2, "geometry")
        /\ c2.geometry = GeometryRows(c1.geometry, p, d)
    BY <1>1, SizedTables
  <2>2. c1.geometry = c.geometry
    BY <1>1 DEF SameBut
  <2> QED  BY <2>1, <2>2
<1>3. /\ c3 \in Contents /\ SameBut(c2, c3, "flags")
      /\ c3.flags = FlagRows(c.flags, p, d)
  <2> HIDE DEF c1, c2
  <2>1. /\ c3 \in Contents /\ SameBut(c2, c3, "flags")
        /\ c3.flags = FlagRows(c2.flags, p, d)
    BY <1>2, FlaggedTables
  <2>2. c2.flags = c.flags
    BY <1>1, <1>2 DEF SameBut
  <2> QED  BY <2>1, <2>2
<1>4. /\ c4 \in Contents /\ SameBut(c3, c4, "members")
      /\ c4.members = MemberRows(c.members, p, d)
  <2> HIDE DEF c1, c2, c3
  <2>1. /\ c4 \in Contents /\ SameBut(c3, c4, "members")
        /\ c4.members = MemberRows(c3.members, p, d)
    BY <1>3, JoinedTables
  <2>2. c3.members = c.members
    BY <1>1, <1>2, <1>3 DEF SameBut
  <2> QED  BY <2>1, <2>2
<1>5. Noted(c, p, d) \in Seq(Entries)
  BY NotedType
<1>6. /\ AllButLog(c, p, d) = c4
      /\ Stored(c, p, d) = Logged(c4, Noted(c, p, d))
      /\ StoreData(c, p, d) = <<c1, c2, c3, c4, Stored(c, p, d)>>
  BY StoreDataSteps DEF AllButLog, Stored
<1> HIDE DEF c1, c2, c3, c4
<1>7. /\ Stored(c, p, d) \in Contents
      /\ SameBut(c4, Stored(c, p, d), "log")
      /\ Stored(c, p, d).log = c4.log \o Noted(c, p, d)
  BY <1>4, <1>5, <1>6, LoggedTables
<1>8. /\ c4.tags = c1.tags /\ c4.geometry = c2.geometry /\ c4.flags = c3.flags
      /\ c4.log = c.log /\ c4.generalFlags = c.generalFlags
      /\ c1.photos = c.photos /\ c2.photos = c.photos /\ c3.photos = c.photos
      /\ c4.photos = c.photos
      /\ c1.groups = c.groups /\ c2.groups = c.groups /\ c3.groups = c.groups
      /\ c4.groups = c.groups
  BY <1>1, <1>2, <1>3, <1>4 DEF SameBut
<1>9. /\ Stored(c, p, d).photos = c4.photos /\ Stored(c, p, d).groups = c4.groups
      /\ Stored(c, p, d).generalFlags = c4.generalFlags /\ Stored(c, p, d).tags = c4.tags
      /\ Stored(c, p, d).geometry = c4.geometry /\ Stored(c, p, d).flags = c4.flags
      /\ Stored(c, p, d).members = c4.members
      /\ Stored(c, p, d).log = c4.log \o Noted(c, p, d)
  BY <1>4, <1>7 DEF SameBut
<1>10. /\ StoreData(c, p, d) \in Seq(Contents) /\ Len(StoreData(c, p, d)) = 5
       /\ StoreData(c, p, d)[5] = Stored(c, p, d)
  BY <1>1, <1>2, <1>3, <1>4, <1>6, <1>7
<1>11. /\ \A i \in 1 .. 5 : StoreData(c, p, d)[i].photos = c.photos
       /\ \A i \in 1 .. 5 : StoreData(c, p, d)[i].groups = c.groups
  <2>1. ASSUME NEW i \in 1 .. 5
        PROVE  StoreData(c, p, d)[i].photos = c.photos /\ StoreData(c, p, d)[i].groups = c.groups
    <3>1. i = 1 \/ i = 2 \/ i = 3 \/ i = 4 \/ i = 5
      OBVIOUS
    <3> QED  BY <1>6, <1>8, <1>9, <3>1
  <2> QED  BY <2>1
<1> QED  BY <1>2, <1>3, <1>4, <1>7, <1>8, <1>9, <1>10, <1>11, <1>1

\* The chains of the first photos, one by one.
Stages(f, c, photos, d, n) ==
    /\ f \in [0 .. n -> Seq(Contents)]
    /\ \A k \in 0 .. n :
          f[k] = IF k = 0 THEN <<c>> ELSE f[k - 1] \o StoreData(Last(f[k - 1]), photos[k], d)

\* What a stage is made of.
StageOK(chain, c) ==
    /\ chain \in Seq(Contents) /\ Len(chain) # 0
    /\ \A i \in 1 .. Len(chain) : chain[i].photos = c.photos /\ chain[i].groups = c.groups

\* The last element of a sequence.
LEMMA LastOf ==
    ASSUME NEW S, NEW s \in Seq(S), Len(s) # 0
    PROVE  Last(s) = s[Len(s)] /\ Last(s) \in S /\ Len(s) \in 1 .. Len(s)
<1>1. Len(s) \in Nat /\ Len(s) \in 1 .. Len(s)
  OBVIOUS
<1> QED  BY <1>1 DEF Last

\* One more photo.
LEMMA NextStage ==
    ASSUME NEW c, NEW chain, StageOK(chain, c), NEW p \in Nat, NEW d, IsDelta(d)
    PROVE  /\ StageOK(chain \o StoreData(Last(chain), p, d), c)
           /\ Last(chain \o StoreData(Last(chain), p, d)) = Stored(Last(chain), p, d)
           /\ \A i \in 1 .. Len(chain) :
                 /\ i \in 1 .. Len(chain \o StoreData(Last(chain), p, d))
                 /\ (chain \o StoreData(Last(chain), p, d))[i] = chain[i]
<1> DEFINE more == StoreData(Last(chain), p, d)
           whole == chain \o more
<1>1. /\ chain \in Seq(Contents) /\ Len(chain) \in Nat /\ Len(chain) # 0
      /\ \A i \in 1 .. Len(chain) : chain[i].photos = c.photos /\ chain[i].groups = c.groups
  BY DEF StageOK
<1>2. Last(chain) = chain[Len(chain)] /\ Last(chain) \in Contents /\ Len(chain) \in 1 .. Len(chain)
  BY <1>1, LastOf
<1>3. /\ more \in Seq(Contents) /\ Len(more) = 5 /\ more[5] = Stored(Last(chain), p, d)
      /\ \A i \in 1 .. 5 : more[i].photos = Last(chain).photos
      /\ \A i \in 1 .. 5 : more[i].groups = Last(chain).groups
  <2> DEFINE last == Last(chain)
  <2>1. last \in Contents
    BY <1>2
  <2> HIDE DEF last
  <2>2. /\ StoreData(last, p, d) \in Seq(Contents) /\ Len(StoreData(last, p, d)) = 5
        /\ StoreData(last, p, d)[5] = Stored(last, p, d)
        /\ \A i \in 1 .. 5 : StoreData(last, p, d)[i].photos = last.photos
        /\ \A i \in 1 .. 5 : StoreData(last, p, d)[i].groups = last.groups
    BY <2>1, StoredTables
  <2> QED  BY <2>2 DEF last
<1> HIDE DEF more
<1>4. /\ whole \in Seq(Contents) /\ Len(whole) = Len(chain) + 5
      /\ \A i \in 1 .. Len(chain) : whole[i] = chain[i]
      /\ \A i \in 1 .. 5 : whole[Len(chain) + i] = more[i]
  <2>1. /\ Len(whole) = Len(chain) + Len(more) /\ whole \in Seq(Contents)
        /\ \A i \in 1 .. Len(chain) + Len(more) :
              whole[i] = IF i <= Len(chain) THEN chain[i] ELSE more[i - Len(chain)]
    BY <1>1, <1>3, ConcatProperties
  <2>2. ASSUME NEW i \in 1 .. 5  PROVE whole[Len(chain) + i] = more[i]
    <3>1. /\ Len(chain) + i \in 1 .. Len(chain) + Len(more) /\ ~ (Len(chain) + i <= Len(chain))
          /\ (Len(chain) + i) - Len(chain) = i
      BY <1>1, <1>3
    <3> QED  BY <2>1, <3>1
  <2>3. ASSUME NEW i \in 1 .. Len(chain)  PROVE whole[i] = chain[i]
    <3>1. i \in 1 .. Len(chain) + Len(more) /\ i <= Len(chain)
      BY <1>1, <1>3
    <3> QED  BY <2>1, <3>1
  <2> QED  BY <1>3, <2>1, <2>2, <2>3
<1> HIDE DEF whole
<1>5. Last(whole) = Stored(Last(chain), p, d)
  <2>1. Last(whole) = whole[Len(whole)]
    BY <1>1, <1>4, LastOf
  <2> QED  BY <1>3, <1>4, <2>1
<1>6. ASSUME NEW i \in 1 .. Len(whole)
      PROVE  whole[i].photos = c.photos /\ whole[i].groups = c.groups
  <2>1. CASE i <= Len(chain)
    <3>1. i \in 1 .. Len(chain)
      BY <1>1, <1>4, <2>1
    <3> QED  BY <1>1, <1>4, <3>1
  <2>2. CASE ~ (i <= Len(chain))
    <3>1. i - Len(chain) \in 1 .. 5 /\ i = Len(chain) + (i - Len(chain))
      BY <1>1, <1>4, <2>2
    <3>2. whole[i] = more[i - Len(chain)]
      BY <1>4, <3>1
    <3> QED  BY <1>1, <1>2, <1>3, <3>1, <3>2
  <2> QED  BY <2>1, <2>2
<1>7. StageOK(whole, c)
  BY <1>1, <1>4, <1>6 DEF StageOK
<1>8. \A i \in 1 .. Len(chain) : i \in 1 .. Len(whole) /\ whole[i] = chain[i]
  BY <1>1, <1>4
<1> QED  BY <1>5, <1>7, <1>8 DEF whole, more

\* The stages exist.
LEMMA StagesExist ==
    ASSUME NEW c \in Contents, NEW photos \in Seq(Nat), NEW d, IsDelta(d)
    PROVE  \E f : Stages(f, c, photos, d, Len(photos))
                  /\ \A k \in 0 .. Len(photos) : StageOK(f[k], c)
<1> DEFINE Good(f, k) == Stages(f, c, photos, d, k) /\ \A i \in 0 .. k : StageOK(f[i], c)
           Without == {k \in 0 .. Len(photos) : ~ \E f : Good(f, k)}
<1>1. Len(photos) \in Nat /\ \A i \in 1 .. Len(photos) : photos[i] \in Nat
  OBVIOUS
<1>2. SUFFICES ASSUME Without # {}  PROVE FALSE
  <2>1. Len(photos) \in 0 .. Len(photos)
    BY <1>1
  <2> QED  BY <1>2, <2>1
<1>3. PICK m \in Without : \A n \in Without : m <= n
  <2>1. Without \subseteq Nat
    OBVIOUS
  <2> HIDE DEF Without
  <2> QED  BY <1>2, <2>1, LeastNumber
<1>4. m \in 0 .. Len(photos) /\ ~ \E f : Good(f, m)
  BY <1>3
<1>5. StageOK(<<c>>, c)
  BY DEF StageOK
<1>6. m # 0
  <2>1. <<c>> \in Seq(Contents)
    OBVIOUS
  <2>2. [k \in 0 .. 0 |-> <<c>>] \in [0 .. 0 -> Seq(Contents)]
    BY <2>1
  <2>3. \A i \in 0 .. 0 : i = 0
    OBVIOUS
  <2>4. Good([k \in 0 .. 0 |-> <<c>>], 0)
    BY <1>5, <2>2, <2>3 DEF Stages
  <2> QED  BY <1>4, <2>4
<1>7. m \in 1 .. Len(photos) /\ m - 1 \in 0 .. Len(photos) /\ m - 1 \in 0 .. m - 1
  BY <1>1, <1>4, <1>6
<1>8. PICK g : Good(g, m - 1)
  <2>1. m - 1 \notin Without
    <3> HIDE DEF Without
    <3> QED  BY <1>3, <1>7
  <2> QED  BY <1>7, <2>1
<1> DEFINE more == g[m - 1] \o StoreData(Last(g[m - 1]), photos[m], d)
           h == [k \in 0 .. m |-> IF k < m THEN g[k] ELSE more]
<1>9. StageOK(g[m - 1], c)
  BY <1>7, <1>8
<1>10. StageOK(more, c)
  BY <1>1, <1>7, <1>9, NextStage
<1> HIDE DEF more, Good
<1>11. \A k \in 0 .. m - 1 : k \in 0 .. m /\ k < m /\ h[k] = g[k]
  BY <1>7
<1>12. h[m] = more /\ m \in 0 .. m
  BY <1>7
<1>13. \A k \in 0 .. m : k \in 0 .. m - 1 \/ k = m
  BY <1>7
<1>14. \A k \in 0 .. m : StageOK(h[k], c)
  BY <1>8, <1>10, <1>11, <1>12, <1>13 DEF Good
<1>15. h \in [0 .. m -> Seq(Contents)]
  <2>1. \A k \in 0 .. m : h[k] \in Seq(Contents)
    BY <1>14 DEF StageOK
  <2> QED  BY <2>1
<1>16. ASSUME NEW k \in 0 .. m
       PROVE  h[k] = IF k = 0 THEN <<c>> ELSE h[k - 1] \o StoreData(Last(h[k - 1]), photos[k], d)
  <2>1. CASE k = m
    <3>1. h[k - 1] = g[m - 1] /\ k # 0
      BY <1>6, <1>7, <1>11, <2>1
    <3> QED  BY <1>12, <2>1, <3>1 DEF more
  <2>2. CASE k # m
    <3>1. k \in 0 .. m - 1 /\ (k # 0 => k - 1 \in 0 .. m - 1)
      BY <1>7, <1>13, <2>2
    <3>2. g[k] = IF k = 0 THEN <<c>> ELSE g[k - 1] \o StoreData(Last(g[k - 1]), photos[k], d)
      BY <1>8, <3>1 DEF Good, Stages
    <3> QED  BY <1>11, <3>1, <3>2
  <2> QED  BY <2>1, <2>2
<1>17. Good(h, m)
  <2> HIDE DEF h
  <2> QED  BY <1>14, <1>15, <1>16 DEF Good, Stages
<1> QED  BY <1>4, <1>17 DEF Good

\* The chain of update(): the contents between the photos, w, are in it.
Passes(w, chain, c, photos, d) ==
    /\ w \in [0 .. Len(photos) -> Contents]
    /\ w[0] = c
    /\ \A k \in 1 .. Len(photos) : w[k] = Stored(w[k - 1], photos[k], d)
    /\ Last(chain) = w[Len(photos)]
    /\ \A k \in 0 .. Len(photos) : \E i \in 1 .. Len(chain) : chain[i] = w[k]

\* update() of a batch: the photos and the groups stay the same in its chain, which
\* ends as the last photo leaves it.
LEMMA StoreAllChain ==
    ASSUME NEW c \in Contents, NEW photos \in Seq(Nat), NEW d, IsDelta(d)
    PROVE  /\ StageOK(StoreAll(c, photos, d), c)
           /\ \E w : Passes(w, StoreAll(c, photos, d), c, photos, d)
<1> DEFINE Stage(f) == [k \in 0 .. Len(photos) |->
                IF k = 0 THEN <<c>> ELSE f[k - 1] \o StoreData(Last(f[k - 1]), photos[k], d)]
           f == CHOOSE g : g = Stage(g)
           n == Len(photos)
<1>1. n \in Nat /\ \A i \in 1 .. n : photos[i] \in Nat
  OBVIOUS
<1>2. f = Stage(f)
  <2>1. PICK g : Stages(g, c, photos, d, n)
    BY StagesExist
  <2>2. g = Stage(g)
    BY <2>1 DEF Stages
  <2> QED  BY <2>2
<1>3. StoreAll(c, photos, d) = f[n]
  BY DEF StoreAll
<1> HIDE DEF f
<1>4. \A k \in 0 .. n :
         f[k] = IF k = 0 THEN <<c>> ELSE f[k - 1] \o StoreData(Last(f[k - 1]), photos[k], d)
  BY <1>2
<1> HIDE DEF n
<1>5. \A k \in 0 .. n : StageOK(f[k], c)
  <2> DEFINE Others == {k \in 0 .. n : ~ StageOK(f[k], c)}
  <2> SUFFICES ASSUME Others # {}  PROVE FALSE
    OBVIOUS
  <2>1. PICK m \in Others : \A j \in Others : m <= j
    <3>1. Others \subseteq Nat
      BY <1>1
    <3> HIDE DEF Others
    <3> QED  BY <3>1, LeastNumber
  <2>2. m \in 0 .. n /\ ~ StageOK(f[m], c)
    OBVIOUS
  <2>3. m # 0
    <3>1. StageOK(<<c>>, c)
      BY DEF StageOK
    <3>2. 0 \in 0 .. n /\ f[0] = <<c>>
      BY <1>1, <1>4
    <3> QED  BY <2>2, <3>1, <3>2
  <2>4. m \in 1 .. n /\ m - 1 \in 0 .. n /\ ~ (m <= m - 1)
    BY <1>1, <2>2, <2>3
  <2>5. StageOK(f[m - 1], c)
    <3>1. m - 1 \notin Others
      <4> HIDE DEF Others
      <4> QED  BY <2>1, <2>4
    <3> QED  BY <2>4, <3>1
  <2>6. StageOK(f[m - 1] \o StoreData(Last(f[m - 1]), photos[m], d), c)
    BY <1>1, <2>4, <2>5, NextStage
  <2> QED  BY <1>4, <2>2, <2>3, <2>6
<1> DEFINE w == [k \in 0 .. n |-> Last(f[k])]
<1>6. \A k \in 0 .. n : /\ f[k] \in Seq(Contents) /\ Len(f[k]) \in 1 .. Len(f[k])
                        /\ Last(f[k]) = f[k][Len(f[k])] /\ Last(f[k]) \in Contents
  BY <1>5, LastOf DEF StageOK
<1>7. w \in [0 .. n -> Contents]
  BY <1>6
<1>8. w[0] = c
  <2>1. 0 \in 0 .. n /\ f[0] = <<c>>
    BY <1>1, <1>4
  <2>2. Last(<<c>>) = c
    BY DEF Last
  <2> QED  BY <2>1, <2>2
<1>9. ASSUME NEW k \in 1 .. n
      PROVE  /\ w[k] = Stored(w[k - 1], photos[k], d)
             /\ \A i \in 1 .. Len(f[k - 1]) : i \in 1 .. Len(f[k]) /\ f[k][i] = f[k - 1][i]
  <2>1. k \in 0 .. n /\ k - 1 \in 0 .. n /\ k # 0
    BY <1>1
  <2>2. f[k] = f[k - 1] \o StoreData(Last(f[k - 1]), photos[k], d)
    BY <1>4, <2>1
  <2>3. StageOK(f[k - 1], c) /\ photos[k] \in Nat
    BY <1>1, <1>5, <2>1
  <2>4. /\ Last(f[k]) = Stored(Last(f[k - 1]), photos[k], d)
        /\ \A i \in 1 .. Len(f[k - 1]) : i \in 1 .. Len(f[k]) /\ f[k][i] = f[k - 1][i]
    <3> DEFINE before == f[k - 1]
               photo == photos[k]
    <3>1. StageOK(before, c) /\ photo \in Nat
      BY <2>3
    <3> HIDE DEF before, photo
    <3>2. /\ Last(before \o StoreData(Last(before), photo, d)) = Stored(Last(before), photo, d)
          /\ \A i \in 1 .. Len(before) :
                /\ i \in 1 .. Len(before \o StoreData(Last(before), photo, d))
                /\ (before \o StoreData(Last(before), photo, d))[i] = before[i]
      BY <3>1, NextStage
    <3> QED  BY <2>2, <3>2 DEF before, photo
  <2> QED  BY <2>1, <2>4
<1>10. Last(f[n]) = w[n] /\ n \in 0 .. n
  BY <1>1
<1> HIDE DEF w
<1>11. \A j \in 0 .. n : \A k \in 0 .. j : \E i \in 1 .. Len(f[j]) : f[j][i] = w[k]
  <2> DEFINE In(j) == \A k \in 0 .. j : \E i \in 1 .. Len(f[j]) : f[j][i] = w[k]
             Others == {j \in 0 .. n : ~ In(j)}
  <2> SUFFICES ASSUME Others # {}  PROVE FALSE
    OBVIOUS
  <2>1. PICK m \in Others : \A j \in Others : m <= j
    <3>1. Others \subseteq Nat
      BY <1>1
    <3> HIDE DEF Others
    <3> QED  BY <3>1, LeastNumber
  <2>2. m \in 0 .. n /\ ~ In(m)
    OBVIOUS
  <2>3. PICK k \in 0 .. m : ~ \E i \in 1 .. Len(f[m]) : f[m][i] = w[k]
    BY <2>2
  <2>4. Len(f[m]) \in 1 .. Len(f[m]) /\ f[m][Len(f[m])] = w[m]
    BY <1>6, <2>2 DEF w
  <2>5. k # m
    BY <2>3, <2>4
  <2>6. m \in 1 .. n /\ m - 1 \in 0 .. n /\ ~ (m <= m - 1) /\ k \in 0 .. m - 1
    BY <1>1, <2>2, <2>3, <2>5
  <2>7. In(m - 1)
    <3>1. m - 1 \notin Others
      <4> HIDE DEF Others
      <4> QED  BY <2>1, <2>6
    <3> QED  BY <2>6, <3>1
  <2>8. PICK i \in 1 .. Len(f[m - 1]) : f[m - 1][i] = w[k]
    BY <2>6, <2>7
  <2>9. i \in 1 .. Len(f[m]) /\ f[m][i] = w[k]
    BY <1>9, <2>6, <2>8
  <2> QED  BY <2>3, <2>9
<1>12. Passes(w, f[n], c, photos, d)
  BY <1>7, <1>8, <1>9, <1>10, <1>11 DEF Passes, n
<1> QED  BY <1>3, <1>5, <1>10, <1>12

-----------------------------------------------------------------------------
(* The log without the entries of a photo *)

\* h gives the places, among the first m, of the entries that are kept.
Embeds(h, kept, log, p, m) ==
    /\ h \in [1 .. Len(kept) -> 1 .. m]
    /\ \A i \in 1 .. Len(kept) : kept[i] = log[h[i]] /\ log[h[i]].photo # p
    /\ \A i, j \in 1 .. Len(kept) : i < j => h[i] < h[j]
    /\ \A k \in 1 .. m : log[k].photo # p => \E i \in 1 .. Len(kept) : h[i] = k

\* One more entry.
LEMMA EmbedsNext ==
    ASSUME NEW S, NEW log \in Seq(S), NEW p, NEW m \in 1 .. Len(log),
           NEW kept \in Seq(S), \E h : Embeds(h, kept, log, p, m - 1)
    PROVE  LET next == IF log[m].photo = p THEN kept ELSE Append(kept, log[m])
           IN  next \in Seq(S) /\ \E h : Embeds(h, next, log, p, m)
<1>1. /\ Len(log) \in Nat /\ m \in Nat /\ Len(kept) \in Nat /\ log[m] \in S
      /\ 1 .. m = 1 .. m - 1 \cup {m} /\ m \notin 1 .. m - 1
  OBVIOUS
<1>2. PICK h : Embeds(h, kept, log, p, m - 1)
  OBVIOUS
<1>3. CASE log[m].photo = p
  <2>1. Embeds(h, kept, log, p, m)
    <3>1. h \in [1 .. Len(kept) -> 1 .. m]
      BY <1>1, <1>2 DEF Embeds
    <3>2. \A k \in 1 .. m : log[k].photo # p => \E i \in 1 .. Len(kept) : h[i] = k
      BY <1>1, <1>2, <1>3 DEF Embeds
    <3> QED  BY <1>2, <3>1, <3>2 DEF Embeds
  <2> QED  BY <1>3, <2>1
<1>4. CASE log[m].photo # p
  <2> DEFINE next == Append(kept, log[m])
             n == Len(kept)
             g == [i \in 1 .. n + 1 |-> IF i = n + 1 THEN m ELSE h[i]]
  <2>1. /\ next \in Seq(S) /\ Len(next) = n + 1 /\ next[n + 1] = log[m]
        /\ \A i \in 1 .. n : next[i] = kept[i]
    BY <1>1, AppendProperties
  <2>2. \A i \in 1 .. n + 1 : (i \in 1 .. n /\ i # n + 1) \/ i = n + 1
    BY <1>1
  <2> HIDE DEF next
  <2>3. \A i \in 1 .. n : i \in 1 .. n + 1 /\ g[i] = h[i] /\ h[i] \in 1 .. m - 1
    <3>1. \A i \in 1 .. n : i \in 1 .. n + 1 /\ i # n + 1
      BY <1>1
    <3>2. \A i \in 1 .. n : h[i] \in 1 .. m - 1
      BY <1>2 DEF Embeds
    <3> QED  BY <3>1, <3>2
  <2>4. n + 1 \in 1 .. n + 1 /\ g[n + 1] = m
    BY <1>1
  <2>5. g \in [1 .. n + 1 -> 1 .. m]
    <3>1. \A i \in 1 .. n + 1 : g[i] \in 1 .. m
      BY <1>1, <2>2, <2>3, <2>4
    <3> QED  BY <3>1
  <2> HIDE DEF g
  <2>6. \A i \in 1 .. n + 1 : next[i] = log[g[i]] /\ log[g[i]].photo # p
    BY <1>2, <1>4, <2>1, <2>2, <2>3, <2>4 DEF Embeds
  <2>7. ASSUME NEW i \in 1 .. n + 1, NEW j \in 1 .. n + 1, i < j  PROVE g[i] < g[j]
    <3>1. i \in 1 .. n
      BY <1>1, <2>7
    <3>2. CASE j \in 1 .. n
      BY <1>2, <2>3, <2>7, <3>1, <3>2 DEF Embeds
    <3>3. CASE j = n + 1
      BY <1>1, <2>3, <2>4, <3>1, <3>3
    <3> QED  BY <2>2, <3>2, <3>3
  <2>8. ASSUME NEW k \in 1 .. m, log[k].photo # p  PROVE \E i \in 1 .. n + 1 : g[i] = k
    <3>1. CASE k = m
      BY <2>4, <3>1
    <3>2. CASE k # m
      <4>1. PICK i \in 1 .. n : h[i] = k
        BY <1>1, <1>2, <2>8, <3>2 DEF Embeds
      <4> QED  BY <2>3, <4>1
    <3> QED  BY <3>1, <3>2
  <2>9. Embeds(g, next, log, p, m)
    BY <2>1, <2>5, <2>6, <2>7, <2>8 DEF Embeds
  <2> QED  BY <1>4, <2>1, <2>9 DEF next
<1> QED  BY <1>3, <1>4

\* Nothing is kept of an empty log.
LEMMA EmbedsNothing ==
    ASSUME NEW log, NEW p
    PROVE  Embeds([i \in 1 .. 0 |-> 0], <<>>, log, p, 0)
BY DEF Embeds

\* The prefixes of the log without the entries of the photo.
KeptFor(f, log, p, n, S) ==
    /\ f \in [0 .. n -> Seq(S)]
    /\ \A i \in 0 .. n :
          f[i] = IF i = 0 THEN <<>>
                 ELSE IF log[i].photo = p THEN f[i - 1] ELSE Append(f[i - 1], log[i])

\* The recursive function that removes entries exists.
LEMMA KeptExist ==
    ASSUME NEW S, NEW log \in Seq(S), NEW p
    PROVE  \E f : KeptFor(f, log, p, Len(log), S)
<1> DEFINE Without == {k \in 0 .. Len(log) : ~ \E f : KeptFor(f, log, p, k, S)}
<1>1. Len(log) \in Nat /\ \A i \in 1 .. Len(log) : log[i] \in S
  OBVIOUS
<1>2. SUFFICES ASSUME Without # {}  PROVE FALSE
  <2>1. Len(log) \in 0 .. Len(log)
    BY <1>1
  <2> QED  BY <1>2, <2>1
<1>3. PICK m \in Without : \A n \in Without : m <= n
  <2>1. Without \subseteq Nat
    OBVIOUS
  <2> HIDE DEF Without
  <2> QED  BY <1>2, <2>1, LeastNumber
<1>4. m \in 0 .. Len(log) /\ ~ \E f : KeptFor(f, log, p, m, S)
  BY <1>3
<1>5. m # 0
  <2>1. KeptFor([i \in 0 .. 0 |-> <<>>], log, p, 0, S)
    BY DEF KeptFor
  <2> QED  BY <1>4, <2>1
<1>6. m \in 1 .. Len(log) /\ m - 1 \in 0 .. Len(log) /\ m - 1 \in 0 .. m - 1
  BY <1>1, <1>4, <1>5
<1>7. PICK g : KeptFor(g, log, p, m - 1, S)
  <2>1. m - 1 \notin Without
    <3> HIDE DEF Without
    <3> QED  BY <1>3, <1>6
  <2> QED  BY <1>6, <2>1
<1> DEFINE next == IF log[m].photo = p THEN g[m - 1] ELSE Append(g[m - 1], log[m])
           h == [k \in 0 .. m |-> IF k < m THEN g[k] ELSE next]
<1>8. next \in Seq(S)
  <2>1. g[m - 1] \in Seq(S) /\ log[m] \in S
    BY <1>1, <1>6, <1>7 DEF KeptFor
  <2> QED  BY <2>1
<1> HIDE DEF next
<1>9. \A k \in 0 .. m - 1 : k \in 0 .. m /\ k < m /\ h[k] = g[k]
  BY <1>6
<1>10. h[m] = next /\ m \in 0 .. m
  BY <1>6
<1>11. \A k \in 0 .. m : k \in 0 .. m - 1 \/ k = m
  BY <1>6
<1>12. h \in [0 .. m -> Seq(S)]
  <2>1. \A k \in 0 .. m : h[k] \in Seq(S)
    BY <1>7, <1>8, <1>9, <1>10, <1>11 DEF KeptFor
  <2> QED  BY <2>1
<1>13. ASSUME NEW k \in 0 .. m
       PROVE  h[k] = IF k = 0 THEN <<>>
                     ELSE IF log[k].photo = p THEN h[k - 1] ELSE Append(h[k - 1], log[k])
  <2>1. CASE k = m
    <3>1. h[k - 1] = g[m - 1] /\ k # 0
      BY <1>5, <1>6, <1>9, <2>1
    <3> QED  BY <1>10, <2>1, <3>1 DEF next
  <2>2. CASE k # m
    <3>1. k \in 0 .. m - 1 /\ (k # 0 => k - 1 \in 0 .. m - 1)
      BY <1>6, <1>11, <2>2
    <3>2. g[k] = IF k = 0 THEN <<>>
                 ELSE IF log[k].photo = p THEN g[k - 1] ELSE Append(g[k - 1], log[k])
      BY <1>7, <3>1 DEF KeptFor
    <3> QED  BY <1>9, <3>1, <3>2
  <2> QED  BY <2>1, <2>2
<1>14. KeptFor(h, log, p, m, S)
  <2> HIDE DEF h
  <2> QED  BY <1>12, <1>13 DEF KeptFor
<1> QED  BY <1>4, <1>14

\* All entries of other photos stay, in their order.
LEMMA WithoutEntriesProperties ==
    ASSUME NEW S, NEW log \in Seq(S), NEW p
    PROVE  /\ WithoutEntries(log, p) \in Seq(S)
           /\ \E h : Embeds(h, WithoutEntries(log, p), log, p, Len(log))
<1> DEFINE Kept(f) == [i \in 0 .. Len(log) |->
                IF i = 0 THEN <<>>
                ELSE IF log[i].photo = p THEN f[i - 1] ELSE Append(f[i - 1], log[i])]
           f == CHOOSE g : g = Kept(g)
           n == Len(log)
<1>1. n \in Nat
  OBVIOUS
<1>2. f = Kept(f)
  <2>1. PICK g : KeptFor(g, log, p, n, S)
    BY KeptExist
  <2>2. g = Kept(g)
    BY <2>1 DEF KeptFor
  <2> QED  BY <2>2
<1>3. WithoutEntries(log, p) = f[n]
  BY DEF WithoutEntries
<1> HIDE DEF f
<1>4. \A i \in 0 .. n :
         f[i] = IF i = 0 THEN <<>>
                ELSE IF log[i].photo = p THEN f[i - 1] ELSE Append(f[i - 1], log[i])
  BY <1>2
<1> DEFINE Fits(k) == f[k] \in Seq(S) /\ \E h : Embeds(h, f[k], log, p, k)
           Others == {k \in 0 .. n : ~ Fits(k)}
<1>5. SUFFICES ASSUME Others # {}  PROVE FALSE
  <2>1. n \in 0 .. n
    BY <1>1
  <2> QED  BY <1>3, <1>5, <2>1
<1>6. PICK m \in Others : \A j \in Others : m <= j
  <2>1. Others \subseteq Nat
    OBVIOUS
  <2> HIDE DEF Others
  <2> QED  BY <1>5, <2>1, LeastNumber
<1>7. m \in 0 .. n /\ ~ Fits(m)
  BY <1>6
<1>8. m # 0
  <2>1. f[0] = <<>> /\ <<>> \in Seq(S)
    BY <1>1, <1>4
  <2>2. Fits(0)
    BY <2>1, EmbedsNothing
  <2> QED  BY <1>7, <2>2
<1>9. m \in 1 .. n /\ m - 1 \in 0 .. n /\ ~ (m <= m - 1)
  BY <1>1, <1>7, <1>8
<1>10. Fits(m - 1)
  <2>1. m - 1 \notin Others
    <3> HIDE DEF Others
    <3> QED  BY <1>6, <1>9
  <2> QED  BY <1>9, <2>1
<1>11. f[m] = IF log[m].photo = p THEN f[m - 1] ELSE Append(f[m - 1], log[m])
  BY <1>4, <1>7, <1>8
<1>12. Fits(m)
  BY <1>9, <1>10, <1>11, EmbedsNext
<1> QED  BY <1>7, <1>12

-----------------------------------------------------------------------------
(* The chains of the calls *)

\* A content that the engine accepts.
Good(c) == c \in Contents /\ Consistent(c)

\* Ids are numbers, and an invalid one is the id of no photo.
LEMMA PhotosAreNumbers == Photos \subseteq Nat /\ NoId \notin Photos /\ NoId \in Nat
BY SqlAssumption DEF Photos, NoId

\* What clients bring is a delta.
LEMMA EditsAreDeltas == \A e \in Edits : IsDelta(e)
BY EditsAssumption DEF IsDelta

\* A content before the five of storeData().
LEMMA Prepended ==
    ASSUME NEW S, NEW x \in S, NEW s \in Seq(S), Len(s) = 5
    PROVE  /\ <<x>> \o s \in Seq(S) /\ Len(<<x>> \o s) = 6
           /\ (<<x>> \o s)[1] = x /\ \A i \in 1 .. 5 : (<<x>> \o s)[i + 1] = s[i]
           /\ Last(<<x>> \o s) = s[5]
<1>1. /\ <<x>> \o s \in Seq(S) /\ Len(<<x>> \o s) = 1 + Len(s)
      /\ \A i \in 1 .. 1 + Len(s) :
            (<<x>> \o s)[i] = IF i <= 1 THEN <<x>>[i] ELSE s[i - 1]
  <2> DEFINE one == <<x>>
  <2>1. one \in Seq(S) /\ Len(one) = 1
    OBVIOUS
  <2> HIDE DEF one
  <2>2. /\ one \o s \in Seq(S) /\ Len(one \o s) = Len(one) + Len(s)
        /\ \A i \in 1 .. Len(one) + Len(s) :
              (one \o s)[i] = IF i <= Len(one) THEN one[i] ELSE s[i - Len(one)]
    BY <2>1, ConcatProperties
  <2>3. /\ one \o s \in Seq(S) /\ Len(one \o s) = 1 + Len(s)
        /\ \A i \in 1 .. 1 + Len(s) : (one \o s)[i] = IF i <= 1 THEN one[i] ELSE s[i - 1]
    BY <2>1, <2>2
  <2> QED  BY <2>3 DEF one
<1>2. Len(<<x>> \o s) = 6
  BY <1>1
<1>3. (<<x>> \o s)[1] = x
  BY <1>1
<1>4. ASSUME NEW i \in 1 .. 5  PROVE (<<x>> \o s)[i + 1] = s[i]
  <2>1. i + 1 \in 1 .. 1 + Len(s) /\ ~ (i + 1 <= 1) /\ (i + 1) - 1 = i
    OBVIOUS
  <2> QED  BY <1>1, <2>1
<1>5. Last(<<x>> \o s) = (<<x>> \o s)[6]
  BY <1>2 DEF Last
<1>6. (<<x>> \o s)[6] = s[5]
  <2>1. 6 \in 1 .. 1 + Len(s) /\ ~ (6 <= 1) /\ 6 - 1 = 5
    OBVIOUS
  <2> QED  BY <1>1, <2>1
<1> QED  BY <1>1, <1>2, <1>3, <1>4, <1>5, <1>6

\* addPhotos()
Inserted(c, id) == [c EXCEPT !.photos = @ \cup {id}]

\* The insertion of a photo.
LEMMA InsertedTables ==
    ASSUME NEW c \in Contents, NEW id \in Photos
    PROVE  /\ Inserted(c, id) \in Contents
           /\ SameBut(c, Inserted(c, id), "photos")
           /\ Inserted(c, id).photos = c.photos \cup {id}
BY DEF Inserted, Contents, SameBut

\* The chain of addPhotos().
LEMMA AddPhotosChain ==
    ASSUME NEW c \in Contents, NEW id \in Photos, NEW d, IsDelta(d)
    PROVE  LET chain == <<Inserted(c, id)>> \o StoreData(Inserted(c, id), id, d)
           IN  /\ chain \in Seq(Contents) /\ Len(chain) = 6
               /\ Last(chain) = Stored(Inserted(c, id), id, d)
               /\ \A i \in 1 .. 6 : chain[i].photos = c.photos \cup {id}
<1> DEFINE x == Inserted(c, id)
           s == StoreData(x, id, d)
<1>1. x \in Contents /\ x.photos = c.photos \cup {id} /\ id \in Nat
  BY InsertedTables, PhotosAreNumbers
<1>2. /\ s \in Seq(Contents) /\ Len(s) = 5 /\ s[5] = Stored(x, id, d)
      /\ \A i \in 1 .. 5 : s[i].photos = x.photos
  <2> HIDE DEF x
  <2>1. x \in Contents /\ id \in Nat
    BY <1>1
  <2>2. /\ StoreData(x, id, d) \in Seq(Contents) /\ Len(StoreData(x, id, d)) = 5
        /\ StoreData(x, id, d)[5] = Stored(x, id, d)
        /\ \A i \in 1 .. 5 : StoreData(x, id, d)[i].photos = x.photos
        /\ \A i \in 1 .. 5 : StoreData(x, id, d)[i].groups = x.groups
    BY <2>1, StoredTables
  <2> QED  BY <2>2
<1> HIDE DEF x, s
<1>3. /\ <<x>> \o s \in Seq(Contents) /\ Len(<<x>> \o s) = 6
      /\ (<<x>> \o s)[1] = x /\ \A i \in 1 .. 5 : (<<x>> \o s)[i + 1] = s[i]
      /\ Last(<<x>> \o s) = s[5]
  BY <1>1, <1>2, Prepended
<1>4. ASSUME NEW i \in 1 .. 6  PROVE (<<x>> \o s)[i].photos = c.photos \cup {id}
  <2>1. CASE i = 1
    BY <1>1, <1>3, <2>1
  <2>2. CASE i # 1
    <3>1. i - 1 \in 1 .. 5 /\ (i - 1) + 1 = i
      BY <2>2
    <3>2. (<<x>> \o s)[i] = s[i - 1]
      BY <1>3, <3>1
    <3> QED  BY <1>1, <1>2, <3>1, <3>2
  <2> QED  BY <2>1, <2>2
<1> QED  BY <1>2, <1>3, <1>4 DEF s, x

\* addGroup()
GroupInserted(c, id, p) == [c EXCEPT !.groups = @ \cup {[id |-> id, representative |-> p]}]
\* The new group, with its entry in the log.
GroupNoted(c, id, p) ==
    Logged(GroupInserted(c, id, p), GroupEntries(p, <<>>, <<id, "Representative">>))

\* One entry tells a change of the group of a photo.
LEMMA GroupEntryOf ==
    ASSUME NEW p \in Nat, NEW old \in Loggable, NEW new \in Loggable, old # <<>> \/ new # <<>>
    PROVE  /\ GroupEntries(p, old, new) = <<Entry(p, "group", old, new)>>
           /\ Entry(p, "group", old, new) \in Entries
           /\ GroupEntries(p, old, new) \in Seq(Entries)
<1>1. GroupEntries(p, old, new) = <<Entry(p, "group", old, new)>>
  BY DEF GroupEntries
<1>2. Entry(p, "group", old, new) \in Entries
  BY DEF Entry, Entries
<1> QED  BY <1>1, <1>2

\* A group can be logged.
LEMMA GroupValue ==
    ASSUME NEW g \in Groups, NEW role \in Roles
    PROVE  <<g, role>> \in Loggable /\ <<g, role>> # <<>>
BY DEF Loggable

\* The chain of addGroup().
LEMMA AddGroupChain ==
    ASSUME NEW c \in Contents, NEW id \in Groups, NEW p \in Nat
    PROVE  /\ GroupInserted(c, id, p) \in Contents
           /\ SameBut(c, GroupInserted(c, id, p), "groups")
           /\ GroupInserted(c, id, p).groups
                = c.groups \cup {[id |-> id, representative |-> p]}
           /\ GroupNoted(c, id, p) \in Contents
           /\ SameBut(GroupInserted(c, id, p), GroupNoted(c, id, p), "log")
           /\ GroupNoted(c, id, p).log
                = c.log \o <<Entry(p, "group", <<>>, <<id, "Representative">>)>>
           /\ Entry(p, "group", <<>>, <<id, "Representative">>) \in Entries
<1>1. /\ GroupInserted(c, id, p) \in Contents
      /\ SameBut(c, GroupInserted(c, id, p), "groups")
      /\ GroupInserted(c, id, p).groups = c.groups \cup {[id |-> id, representative |-> p]}
  BY DEF GroupInserted, Contents, SameBut
<1>2. <<id, "Representative">> \in Loggable /\ <<id, "Representative">> # <<>>
      /\ <<>> \in Loggable
  BY GroupValue DEF Roles, Loggable
<1>3. /\ GroupEntries(p, <<>>, <<id, "Representative">>)
           = <<Entry(p, "group", <<>>, <<id, "Representative">>)>>
      /\ Entry(p, "group", <<>>, <<id, "Representative">>) \in Entries
      /\ GroupEntries(p, <<>>, <<id, "Representative">>) \in Seq(Entries)
  BY <1>2, GroupEntryOf
<1>4. /\ GroupNoted(c, id, p) \in Contents
      /\ SameBut(GroupInserted(c, id, p), GroupNoted(c, id, p), "log")
      /\ GroupNoted(c, id, p).log
           = GroupInserted(c, id, p).log \o GroupEntries(p, <<>>, <<id, "Representative">>)
  BY <1>1, <1>3, LoggedTables DEF GroupNoted
<1> QED  BY <1>1, <1>3, <1>4 DEF SameBut

\* removeGroup()
Freed(c, g) == [c EXCEPT !.members = {m \in @ : m.group # g}]
\* A group without its members, and then without its row.
GroupRemoved(c, g, row) == [Freed(c, g) EXCEPT !.groups = @ \ {row}]
\* The entries of the end of a group.
Dissolution(c, g, row) ==
    <<Entry(row.representative, "group", <<g, "Representative">>, <<>>)>>
    \o [i \in DOMAIN SetToSeq(MembersOf(c, g)) |->
          Entry(SetToSeq(MembersOf(c, g))[i], "group", <<g, "Member">>, <<>>)]

\* The chain of removeGroup().
LEMMA RemoveGroupChain ==
    ASSUME NEW c \in Contents, NEW g, NEW row
    PROVE  /\ Freed(c, g) \in Contents /\ SameBut(c, Freed(c, g), "members")
           /\ Freed(c, g).members = {m \in c.members : m.group # g}
           /\ GroupRemoved(c, g, row) \in Contents
           /\ SameBut(Freed(c, g), GroupRemoved(c, g, row), "groups")
           /\ GroupRemoved(c, g, row).groups = c.groups \ {row}
<1>1. /\ Freed(c, g) \in Contents /\ SameBut(c, Freed(c, g), "members")
      /\ Freed(c, g).members = {m \in c.members : m.group # g}
  BY DEF Freed, Contents, SameBut
<1>2. /\ GroupRemoved(c, g, row) \in Contents
      /\ SameBut(Freed(c, g), GroupRemoved(c, g, row), "groups")
      /\ GroupRemoved(c, g, row).groups = Freed(c, g).groups \ {row}
  BY <1>1 DEF GroupRemoved, Contents, SameBut
<1> QED  BY <1>1, <1>2 DEF SameBut

\* Members are photos of the collection.
LEMMA MembersType ==
    ASSUME NEW c, Good(c), NEW g
    PROVE  /\ MembersOf(c, g) \subseteq c.photos /\ IsFiniteSet(MembersOf(c, g))
           /\ c.photos \subseteq Photos
<1>1. c.photos \subseteq Photos /\ \A m \in c.members : m.photo \in c.photos
  BY DEF Good, Contents, Consistent, TablesOfPhotos
<1>2. MembersOf(c, g) \subseteq c.photos
  BY <1>1 DEF MembersOf
<1>3. IsFiniteSet(Photos)
  BY SqlAssumption, FS_Interval DEF Photos
<1> QED  BY <1>1, <1>2, <1>3, FS_Subset

\* First the representative leaves the group, then every member once.
LEMMA DissolutionType ==
    ASSUME NEW c, Good(c), NEW g \in Groups, NEW row \in c.groups
    PROVE  LET ms == SetToSeq(MembersOf(c, g))
               es == Dissolution(c, g, row)
           IN  /\ ms \in Seq(MembersOf(c, g)) /\ IsInjective(ms) /\ Range(ms) = MembersOf(c, g)
               /\ es \in Seq(Entries) /\ Len(es) = 1 + Len(ms)
               /\ es[1] = Entry(row.representative, "group", <<g, "Representative">>, <<>>)
               /\ \A i \in 1 .. Len(ms) : es[i + 1] = Entry(ms[i], "group", <<g, "Member">>, <<>>)
<1> DEFINE ms == SetToSeq(MembersOf(c, g))
           first == Entry(row.representative, "group", <<g, "Representative">>, <<>>)
           rest == [i \in DOMAIN ms |-> Entry(ms[i], "group", <<g, "Member">>, <<>>)]
<1>1. ms \in Seq(MembersOf(c, g)) /\ IsInjective(ms) /\ Range(ms) = MembersOf(c, g)
  BY MembersType, SetToSeqProperties
<1>2. Dissolution(c, g, row) = <<first>> \o rest
  BY DEF Dissolution
<1> HIDE DEF ms
<1>3. \A i \in 1 .. Len(ms) : ms[i] \in Nat
  <2>1. MembersOf(c, g) \subseteq Nat
    BY MembersType, PhotosAreNumbers
  <2> QED  BY <1>1, <2>1
<1>4. Len(ms) \in Nat /\ DOMAIN ms = 1 .. Len(ms)
  BY <1>1
<1>5. /\ <<g, "Representative">> \in Loggable /\ <<g, "Member">> \in Loggable /\ <<>> \in Loggable
  BY GroupValue DEF Roles, Loggable
<1>6. first \in Entries
  <2>1. row.representative \in Nat
    BY DEF Good, Contents
  <2> QED  BY <1>5, <2>1 DEF Entry, Entries
<1>7. \A i \in 1 .. Len(ms) : Entry(ms[i], "group", <<g, "Member">>, <<>>) \in Entries
  BY <1>3, <1>5 DEF Entry, Entries
<1>8. rest \in Seq(Entries) /\ Len(rest) = Len(ms)
  <2>1. rest \in [1 .. Len(ms) -> Entries]
    BY <1>4, <1>7
  <2> QED  BY <1>4, <2>1, FunctionIsSeq
<1>9. \A i \in 1 .. Len(ms) : rest[i] = Entry(ms[i], "group", <<g, "Member">>, <<>>)
  BY <1>4
<1> HIDE DEF first, rest
<1>10. /\ <<first>> \o rest \in Seq(Entries) /\ Len(<<first>> \o rest) = 1 + Len(rest)
       /\ \A i \in 1 .. 1 + Len(rest) :
             (<<first>> \o rest)[i] = IF i <= 1 THEN <<first>>[i] ELSE rest[i - 1]
  <2>1. <<first>> \in Seq(Entries) /\ Len(<<first>>) = 1
    BY <1>6
  <2> QED  BY <1>8, <2>1, ConcatProperties
<1>11. (<<first>> \o rest)[1] = first
  <2>1. 1 \in 1 .. 1 + Len(rest)
    BY <1>4, <1>8
  <2> QED  BY <1>10, <2>1
<1>12. ASSUME NEW i \in 1 .. Len(ms)  PROVE (<<first>> \o rest)[i + 1] = rest[i]
  <2>1. i + 1 \in 1 .. 1 + Len(rest) /\ ~ (i + 1 <= 1) /\ (i + 1) - 1 = i
    BY <1>4, <1>8
  <2> QED  BY <1>10, <2>1
<1> QED  BY <1>1, <1>2, <1>8, <1>9, <1>10, <1>11, <1>12 DEF ms, first

\* removePhoto()
LEMMA RemovalTables ==
    ASSUME db \in Contents, NEW p
    PROVE  /\ RemovalChain(p) \in Seq(Contents) /\ Len(RemovalChain(p)) = 7
           /\ \A i \in 1 .. 6 : RemovalChain(p)[i].photos = db.photos
           /\ RemovalChain(p)[7] = Last(RemovalChain(p))
           /\ Last(RemovalChain(p)) \in Contents
           /\ Last(RemovalChain(p)).photos = db.photos \ {p}
           /\ Last(RemovalChain(p)).flags = {r \in db.flags : r.photo # p}
           /\ Last(RemovalChain(p)).generalFlags = {r \in db.generalFlags : r.photo # p}
           /\ Last(RemovalChain(p)).geometry = {r \in db.geometry : r.photo # p}
           /\ Last(RemovalChain(p)).tags = {r \in db.tags : r.photo # p}
           /\ Last(RemovalChain(p)).groups = db.groups
           /\ Last(RemovalChain(p)).members = db.members
           /\ Last(RemovalChain(p)).log = WithoutEntries(db.log, p)
<1> DEFINE c1 == WithoutPhoto(db, "flags", p)
           c2 == WithoutPhoto(c1, "generalFlags", p)
           c3 == WithoutPhoto(c2, "geometry", p)
           c4 == WithoutPhoto(c3, "tags", p)
           c5 == [c4 EXCEPT !.log = WithoutEntries(@, p)]
           c6 == [c5 EXCEPT !.photos = @ \ {p}]
<1>1. RemovalChain(p) = <<db, c1, c2, c3, c4, c5, c6>>
  BY DEF RemovalChain
<1>2. /\ c1 \in Contents /\ SameBut(db, c1, "flags")
      /\ c1.flags = {r \in db.flags : r.photo # p}
  <2>1. c1 = [db EXCEPT !.flags = {r \in @ : r.photo # p}]
    BY DEF WithoutPhoto
  <2> QED  BY <2>1 DEF Contents, SameBut
<1>3. /\ c2 \in Contents /\ SameBut(c1, c2, "generalFlags")
      /\ c2.generalFlags = {r \in c1.generalFlags : r.photo # p}
  <2>1. c2 = [c1 EXCEPT !.generalFlags = {r \in @ : r.photo # p}]
    BY DEF WithoutPhoto
  <2> HIDE DEF c1
  <2> QED  BY <1>2, <2>1 DEF Contents, SameBut
<1>4. /\ c3 \in Contents /\ SameBut(c2, c3, "geometry")
      /\ c3.geometry = {r \in c2.geometry : r.photo # p}
  <2>1. c3 = [c2 EXCEPT !.geometry = {r \in @ : r.photo # p}]
    BY DEF WithoutPhoto
  <2> HIDE DEF c2
  <2> QED  BY <1>3, <2>1 DEF Contents, SameBut
<1>5. /\ c4 \in Contents /\ SameBut(c3, c4, "tags")
      /\ c4.tags = {r \in c3.tags : r.photo # p}
  <2>1. c4 = [c3 EXCEPT !.tags = {r \in @ : r.photo # p}]
    BY DEF WithoutPhoto
  <2> HIDE DEF c3
  <2> QED  BY <1>4, <2>1 DEF Contents, SameBut
<1>6. /\ c5 \in Contents /\ SameBut(c4, c5, "log") /\ c5.log = WithoutEntries(c4.log, p)
  <2> HIDE DEF c4
  <2>1. WithoutEntries(c4.log, p) \in Seq(Entries)
    <3>1. c4.log \in Seq(Entries)
      BY <1>5, LogsAre DEF Contents
    <3> QED  BY <3>1, WithoutEntriesProperties
  <2> QED  BY <1>5, <2>1, LogsAre DEF Contents, SameBut
<1>7. /\ c6 \in Contents /\ SameBut(c5, c6, "photos") /\ c6.photos = c5.photos \ {p}
  <2> HIDE DEF c5
  <2> QED  BY <1>6 DEF Contents, SameBut
<1> HIDE DEF c1, c2, c3, c4, c5, c6
<1>8. /\ RemovalChain(p) \in Seq(Contents) /\ Len(RemovalChain(p)) = 7
      /\ RemovalChain(p)[7] = c6 /\ Last(RemovalChain(p)) = c6
  BY <1>1, <1>2, <1>3, <1>4, <1>5, <1>6, <1>7 DEF Last
<1>9. /\ c1.photos = db.photos /\ c2.photos = db.photos /\ c3.photos = db.photos
      /\ c4.photos = db.photos /\ c5.photos = db.photos
  BY <1>2, <1>3, <1>4, <1>5, <1>6 DEF SameBut
<1>10. ASSUME NEW i \in 1 .. 6  PROVE RemovalChain(p)[i].photos = db.photos
  <2>1. i = 1 \/ i = 2 \/ i = 3 \/ i = 4 \/ i = 5 \/ i = 6
    OBVIOUS
  <2> QED  BY <1>1, <1>9, <2>1
<1>11. /\ c6.flags = c1.flags /\ c6.generalFlags = c2.generalFlags
       /\ c1.generalFlags = db.generalFlags
       /\ c6.geometry = c3.geometry /\ c2.geometry = db.geometry
       /\ c6.tags = c4.tags /\ c3.tags = db.tags
       /\ c6.groups = db.groups /\ c6.members = db.members
       /\ c6.log = c5.log /\ c4.log = db.log
  BY <1>2, <1>3, <1>4, <1>5, <1>6, <1>7 DEF SameBut
<1> QED  BY <1>2, <1>3, <1>4, <1>5, <1>6, <1>7, <1>8, <1>9, <1>10, <1>11

\* markStagedAsReviewed()
Reviewed(c) == [c EXCEPT !.flags = {Unstaged(r) : r \in @}]

\* The statement of markStagedAsReviewed().
LEMMA ReviewedTables ==
    ASSUME NEW c \in Contents
    PROVE  /\ Reviewed(c) \in Contents /\ SameBut(c, Reviewed(c), "flags")
           /\ Reviewed(c).flags = {Unstaged(r) : r \in c.flags}
           /\ \A r \in c.flags : /\ Unstaged(r).photo = r.photo
                                 /\ Unstaged(r).on = r.on \ {"StagingArea"}
<1>1. ASSUME NEW r \in c.flags
      PROVE  /\ Unstaged(r) \in [photo : Nat, on : SUBSET Flags]
             /\ Unstaged(r).photo = r.photo /\ Unstaged(r).on = r.on \ {"StagingArea"}
  BY DEF Contents, Unstaged
<1>2. {Unstaged(r) : r \in c.flags} \in SUBSET [photo : Nat, on : SUBSET Flags]
  BY <1>1
<1>3. Reviewed(c) = [c EXCEPT !.flags = {Unstaged(r) : r \in c.flags}]
  BY DEF Reviewed
<1> QED  BY <1>1, <1>2, <1>3 DEF Contents, SameBut

\* set()
LEMMA MarkedTables ==
    ASSUME NEW c \in Contents, NEW p \in Nat
    PROVE  LET marked == UpdateOrInsert(c, "generalFlags", [photo |-> p])
           IN  /\ marked \in Contents /\ SameBut(c, marked, "generalFlags")
               /\ marked.generalFlags = {r \in c.generalFlags : r.photo # p} \cup {[photo |-> p]}
<1>1. UpdateOrInsert(c, "generalFlags", [photo |-> p])
        = [c EXCEPT !.generalFlags = {r \in @ : r.photo # p} \cup {[photo |-> p]}]
  BY DEF UpdateOrInsert
<1> QED  BY <1>1 DEF Contents, SameBut

-----------------------------------------------------------------------------
(* Foreign keys *)

\* The foreign keys, table by table.
LEMMA ForeignKeys ==
    ASSUME NEW c
    PROVE  Consistent(c) <=>
             /\ \A row \in c.flags : row.photo \in c.photos
             /\ \A row \in c.generalFlags : row.photo \in c.photos
             /\ \A row \in c.geometry : row.photo \in c.photos
             /\ \A row \in c.tags : row.photo \in c.photos
             /\ \A row \in c.members : row.photo \in c.photos
             /\ \A i \in DOMAIN c.log : c.log[i].photo \in c.photos
             /\ \A row \in c.groups : row.representative \in c.photos
             /\ \A row \in c.members : \E g \in c.groups : g.id = row.group
BY DEF Consistent, TablesOfPhotos

\* An insertion breaks none.
LEMMA InsertedConsistent ==
    ASSUME NEW c, Good(c), NEW id \in Photos
    PROVE  Consistent(Inserted(c, id))
BY InsertedTables, ForeignKeys DEF Good, SameBut

\* Storing details of a photo that is there breaks none.
LEMMA DetailsConsistent ==
    ASSUME NEW c, Good(c), NEW p \in c.photos, NEW d, IsDelta(d), "group" \notin DOMAIN d
    PROVE  \A i \in 1 .. 5 : Consistent(StoreData(c, p, d)[i])
<1>1. p \in Nat /\ c \in Contents /\ Consistent(c)
  <2>1. c.photos \subseteq Photos
    BY DEF Good, Contents
  <2> QED  BY <2>1, PhotosAreNumbers DEF Good
<1> DEFINE c1 == Tagged(c, p, d)
           c2 == Sized(c1, p, d)
           c3 == Flagged(c2, p, d)
           c4 == AllButLog(c, p, d)
           c5 == Stored(c, p, d)
<1>2. c1 \in Contents /\ SameBut(c, c1, "tags") /\ c1.tags = TagRows(c.tags, p, d)
  BY <1>1, TaggedTables
<1>3. c2 \in Contents /\ SameBut(c1, c2, "geometry")
      /\ c2.geometry = GeometryRows(c1.geometry, p, d)
  <2> HIDE DEF c1
  <2> QED  BY <1>1, <1>2, SizedTables
<1>4. c3 \in Contents /\ SameBut(c2, c3, "flags") /\ c3.flags = FlagRows(c2.flags, p, d)
  <2> HIDE DEF c2
  <2> QED  BY <1>1, <1>3, FlaggedTables
<1>5. c4 = c3
  BY DEF AllButLog, Joined
<1>6. Consistent(c1)
  <2>1. \A row \in c1.tags : row.photo \in c.photos
    BY <1>1, <1>2, ForeignKeys DEF TagRows
  <2> HIDE DEF c1
  <2> QED  BY <1>1, <1>2, <2>1, ForeignKeys DEF SameBut
<1> HIDE DEF c1
<1>7. Consistent(c2)
  <2>1. c1.photos = c.photos
    BY <1>2 DEF SameBut
  <2>2. \A row \in c2.geometry : row.photo \in c.photos
    BY <1>3, <1>6, <2>1, ForeignKeys DEF GeometryRows
  <2> HIDE DEF c2
  <2> QED  BY <1>3, <1>6, <2>1, <2>2, ForeignKeys DEF SameBut
<1> HIDE DEF c2
<1>8. Consistent(c3)
  <2>1. c2.photos = c.photos
    BY <1>2, <1>3 DEF SameBut
  <2>2. \A row \in c3.flags : row.photo \in c.photos
    BY <1>4, <1>7, <2>1, ForeignKeys DEF FlagRows
  <2> HIDE DEF c3
  <2> QED  BY <1>4, <1>7, <2>1, <2>2, ForeignKeys DEF SameBut
<1> HIDE DEF c3
<1>9. Consistent(c5)
  <2>1. c4 \in Contents /\ c4.photos = c.photos /\ c4.log = c.log
    BY <1>2, <1>3, <1>4, <1>5 DEF SameBut
  <2>2. Noted(c, p, d) \in Seq(Entries)
        /\ \A i \in DOMAIN Noted(c, p, d) : Noted(c, p, d)[i].photo = p
    <3>1. CASE "tags" \in DOMAIN d
      <4> DEFINE es == TagEntries(p, GetTags(c, p), d.tags)
      <4>1. GetTags(c, p) \in TagLists /\ d.tags \in TagLists
        BY <1>1, <3>1, QueriesType DEF IsDelta
      <4>2. PICK names \in Seq(Names) :
              /\ es \in Seq(Entries) /\ Len(es) = Len(names)
              /\ \A i \in 1 .. Len(names) :
                    es[i] = Entry(p, names[i], ValueIn(GetTags(c, p), names[i]),
                                  ValueIn(d.tags, names[i]))
        <5> DEFINE old == GetTags(c, p)
                   new == d.tags
        <5>1. p \in Nat /\ old \in TagLists /\ new \in TagLists
          BY <1>1, <4>1
        <5> HIDE DEF old, new, es
        <5>2. PICK names \in Seq(Names) :
                /\ IsInjective(names) /\ Range(names) = Changed(old, new)
                /\ TagEntries(p, old, new) \in Seq(Entries)
                /\ Len(TagEntries(p, old, new)) = Len(names)
                /\ \A i \in 1 .. Len(names) :
                      TagEntries(p, old, new)[i]
                      = Entry(p, names[i], ValueIn(old, names[i]), ValueIn(new, names[i]))
          BY <5>1, TagEntriesProperties
        <5>3. es = TagEntries(p, old, new)
          BY DEF es, old, new
        <5> QED  BY <5>2, <5>3 DEF old, new
      <4>3. Noted(c, p, d) = es \o <<>>
        BY <3>1 DEF Noted
      <4> HIDE DEF es
      <4>4. Noted(c, p, d) = es /\ DOMAIN es = 1 .. Len(names)
        BY <4>2, <4>3
      <4> QED  BY <4>2, <4>4 DEF Entry
    <3>2. CASE "tags" \notin DOMAIN d
      <4>1. Noted(c, p, d) = <<>>
        BY <3>2 DEF Noted
      <4> QED  BY <4>1
    <3> QED  BY <3>1, <3>2
  <2>3. SameBut(c4, c5, "log") /\ c5.log = c4.log \o Noted(c, p, d)
    <3> HIDE DEF c4
    <3> QED  BY <2>1, <2>2, LoggedTables DEF Stored, c4
  <2> HIDE DEF c4, c5
  <2>4. \A i \in DOMAIN c5.log : c5.log[i].photo \in c.photos
    <3>1. c.log \in Seq(Entries) /\ \A i \in DOMAIN c.log : c.log[i].photo \in c.photos
      BY <1>1, ForeignKeys, LogsAre DEF Contents
    <3>2. /\ Len(c5.log) = Len(c.log) + Len(Noted(c, p, d))
          /\ DOMAIN c5.log = 1 .. Len(c.log) + Len(Noted(c, p, d))
          /\ \A i \in 1 .. Len(c.log) + Len(Noted(c, p, d)) :
                c5.log[i] = IF i <= Len(c.log) THEN c.log[i] ELSE Noted(c, p, d)[i - Len(c.log)]
      BY <2>1, <2>2, <2>3, <3>1, ConcatProperties
    <3>3. ASSUME NEW i \in 1 .. Len(c.log) + Len(Noted(c, p, d))
          PROVE  IF i <= Len(c.log) THEN i \in DOMAIN c.log
                                    ELSE i - Len(c.log) \in DOMAIN Noted(c, p, d)
      BY <2>2, <3>1
    <3> QED  BY <2>2, <3>1, <3>2, <3>3
  <2>5. Consistent(c4)
    BY <1>5, <1>8
  <2> QED  BY <2>1, <2>3, <2>4, <2>5, ForeignKeys DEF SameBut
<1>10. ASSUME NEW i \in 1 .. 5  PROVE Consistent(StoreData(c, p, d)[i])
  <2>1. i = 1 \/ i = 2 \/ i = 3 \/ i = 4 \/ i = 5
    OBVIOUS
  <2>2. StoreData(c, p, d) = <<c1, c2, c3, c4, c5>>
    BY StoreDataSteps DEF c1, c2, c3
  <2> QED  BY <1>5, <1>6, <1>7, <1>8, <1>9, <2>1, <2>2
<1> QED  BY <1>10

\* So nothing is refused when a photo is added.
LEMMA AddPhotosConsistent ==
    ASSUME NEW c, Good(c), NEW id \in Photos, NEW d, IsDelta(d), "group" \notin DOMAIN d
    PROVE  LET chain == <<Inserted(c, id)>> \o StoreData(Inserted(c, id), id, d)
           IN  \A i \in 1 .. 6 : Consistent(chain[i])
<1> DEFINE x == Inserted(c, id)
           s == StoreData(x, id, d)
<1>1. x \in Contents /\ id \in x.photos /\ Consistent(x) /\ id \in Nat
  BY InsertedTables, InsertedConsistent, PhotosAreNumbers DEF Good
<1> HIDE DEF x
<1>2. s \in Seq(Contents) /\ Len(s) = 5
  BY <1>1, StoredTables
<1>3. \A i \in 1 .. 5 : Consistent(s[i])
  BY <1>1, DetailsConsistent DEF Good
<1> HIDE DEF s
<1>4. /\ <<x>> \o s \in Seq(Contents) /\ Len(<<x>> \o s) = 6
      /\ (<<x>> \o s)[1] = x /\ \A i \in 1 .. 5 : (<<x>> \o s)[i + 1] = s[i]
      /\ Last(<<x>> \o s) = s[5]
  BY <1>1, <1>2, Prepended
<1>5. ASSUME NEW i \in 1 .. 6  PROVE Consistent((<<x>> \o s)[i])
  <2>1. CASE i = 1
    BY <1>1, <1>4, <2>1
  <2>2. CASE i # 1
    <3>1. i - 1 \in 1 .. 5 /\ (i - 1) + 1 = i
      BY <2>2
    <3>2. (<<x>> \o s)[i] = s[i - 1]
      BY <1>4, <3>1
    <3> QED  BY <1>3, <3>1, <3>2
  <2> QED  BY <2>1, <2>2
<1> QED  BY <1>5 DEF s, x

-----------------------------------------------------------------------------
(* Types and foreign keys *)

\* The tables keep their types and foreign keys, connection and disk differ only
\* while a transaction is open, and none is open if nothing failed.
Sane ==
    /\ Good(db) /\ Good(disk)
    /\ open \in BOOLEAN
    /\ ~ open => db = disk
    /\ made \in [calls : 0 .. 2, photo : Photos \cup {NoId}, group : Groups \cup {NoId}]
    /\ seen \subseteq Photos
    /\ faults \in 0 .. MaxFaults
    /\ faults = 0 => ~ open

\* A transaction leaves such contents, and its photos are those of its last
\* statement or those of the disk.
LEMMA TransactionIsSane ==
    ASSUME Sane, NEW chain \in Seq(Contents), Len(chain) # 0, NEW o \in InTransaction(chain),
           Becomes(o)
    PROVE  /\ Good(db') /\ Good(disk') /\ open' \in BOOLEAN
           /\ ~ open' => db' = disk'
           /\ faults' \in 0 .. MaxFaults
           /\ o.done \in 0 .. Len(chain)
           /\ faults' = 0 => /\ faults = 0 /\ ~ open' /\ ~ open
                             /\ \/ db' = db /\ \E i \in 1 .. Len(chain) : ~ Consistent(chain[i])
                                \/ db' = Last(chain)
<1>1. /\ db' = o.db /\ disk' = o.disk /\ open' = o.open
      /\ faults' = faults + o.cost /\ faults' <= MaxFaults
  BY DEF Becomes
<1>2. faults \in Nat /\ MaxFaults \in Nat /\ Good(disk) /\ open \in BOOLEAN
  BY SqlAssumption DEF Sane
<1>3. CASE \E done \in 0 .. Len(chain), cost \in {0, 1} :
              /\ o = RolledBack(done, cost)
              /\ open => done = 0
              /\ ~ open /\ cost = 0 => \E i \in 1 .. Len(chain) : ~ Consistent(chain[i])
  <2>1. PICK done \in 0 .. Len(chain), cost \in {0, 1} :
              /\ o = RolledBack(done, cost)
              /\ ~ open /\ cost = 0 => \E i \in 1 .. Len(chain) : ~ Consistent(chain[i])
    BY <1>3
  <2>2. /\ o.db = disk /\ o.disk = disk /\ o.open = FALSE /\ o.cost = cost /\ o.done = done
    BY <2>1 DEF RolledBack
  <2>3. faults' \in 0 .. MaxFaults /\ (faults' = 0 => faults = 0 /\ cost = 0)
    BY <1>1, <1>2, <2>2
  <2>4. faults = 0 => ~ open /\ db = disk
    BY DEF Sane
  <2> QED  BY <1>1, <1>2, <2>1, <2>2, <2>3, <2>4
<1>4. CASE /\ ~ open
           /\ \A i \in 1 .. Len(chain) : Consistent(chain[i])
           /\ o \in Committed(chain) \cup CommitFailed(chain)
  <2>1. Last(chain) \in Contents /\ Last(chain) = chain[Len(chain)]
        /\ Len(chain) \in 1 .. Len(chain)
    BY LastOf
  <2>2. Good(Last(chain))
    BY <1>4, <2>1 DEF Good
  <2>3. \/ /\ o.db = Last(chain) /\ o.disk = Last(chain) /\ o.open = FALSE
           /\ o.cost = 0 /\ o.done = Len(chain)
        \/ /\ o.db = Last(chain) /\ o.disk = disk /\ o.open = TRUE
           /\ o.cost = 1 /\ o.done = Len(chain)
    <3>1. CASE o \in Committed(chain)
      BY <3>1 DEF Committed
    <3>2. CASE o \in CommitFailed(chain)
      BY <3>2 DEF CommitFailed
    <3> QED  BY <1>4, <3>1, <3>2
  <2>4. faults' \in 0 .. MaxFaults /\ (faults' = 0 => faults = 0 /\ o.cost = 0)
    BY <1>1, <1>2, <2>3
  <2>5. o.done \in 0 .. Len(chain)
    BY <2>1, <2>3
  <2>6. CASE /\ o.db = Last(chain) /\ o.disk = Last(chain) /\ o.open = FALSE
             /\ o.cost = 0 /\ o.done = Len(chain)
    <3>1. db' = Last(chain) /\ disk' = Last(chain) /\ open' = FALSE
      BY <1>1, <2>6
    <3> QED  BY <1>4, <2>2, <2>4, <2>5, <3>1
  <2>7. CASE /\ o.db = Last(chain) /\ o.disk = disk /\ o.open = TRUE
             /\ o.cost = 1 /\ o.done = Len(chain)
    <3>1. db' = Last(chain) /\ disk' = disk /\ open' = TRUE /\ faults' # 0
      BY <1>1, <1>2, <2>7
    <3> QED  BY <1>2, <2>2, <2>4, <2>5, <3>1
  <2> QED  BY <2>3, <2>6, <2>7
<1> QED  BY <1>3, <1>4, TransactionOutcomes

\* So does what is done outside of one.
LEMMA AutocommitIsSane ==
    ASSUME Sane, NEW chain \in Seq(Contents), NEW o \in Autocommit(chain), Becomes(o)
    PROVE  /\ Good(db') /\ Good(disk') /\ open' \in BOOLEAN
           /\ ~ open' => db' = disk'
           /\ faults' \in 0 .. MaxFaults
           /\ faults' = 0 => faults = 0 /\ ~ open' /\ ~ open
           /\ \/ db' = db
              \/ \E i \in 1 .. Len(chain) : db' = chain[i]
<1>1. /\ db' = o.db /\ disk' = o.disk /\ open' = o.open
      /\ faults' = faults + o.cost /\ faults' <= MaxFaults
  BY DEF Becomes
<1>2. /\ faults \in Nat /\ MaxFaults \in Nat /\ Good(disk) /\ Good(db) /\ open \in BOOLEAN
      /\ ~ open => db = disk
      /\ faults = 0 => ~ open
  BY SqlAssumption DEF Sane
<1>3. PICK k \in 0 .. Reach(chain) :
              /\ \A i \in 1 .. k : Consistent(chain[i])
              /\ o.db = After(chain, k) /\ o.open = open
              /\ o.disk = IF open THEN disk ELSE After(chain, k)
              /\ o.cost \in {0, 1}
  BY AutocommitOutcomes
<1>4. k \in 0 .. Len(chain) /\ Len(chain) \in Nat
  BY <1>3, ReachProperties
<1>5. Good(After(chain, k))
      /\ (After(chain, k) = db \/ \E i \in 1 .. Len(chain) : After(chain, k) = chain[i])
  <2>1. CASE k = 0
    BY <1>2, <2>1 DEF After
  <2>2. CASE k # 0
    <3>1. k \in 1 .. Len(chain) /\ k \in 1 .. k
      BY <1>4, <2>2
    <3>2. After(chain, k) = chain[k] /\ chain[k] \in Contents /\ Consistent(chain[k])
      BY <1>3, <2>2, <3>1 DEF After
    <3> QED  BY <3>1, <3>2 DEF Good
  <2> QED  BY <2>1, <2>2
<1>6. faults' \in 0 .. MaxFaults /\ (faults' = 0 => faults = 0)
  BY <1>1, <1>2, <1>3
<1> QED  BY <1>1, <1>2, <1>3, <1>5, <1>6

\* The program starts again from a content.
LEMMA RestartIsSane ==
    ASSUME NEW c, Good(c), Restarts(c), faults' \in 0 .. MaxFaults
    PROVE  Sane'
<1>1. c.photos \subseteq Photos
  BY DEF Good, Contents
<1>2. Nothing \in [calls : 0 .. 2, photo : Photos \cup {NoId}, group : Groups \cup {NoId}]
  BY DEF Nothing
<1> QED  BY <1>1, <1>2 DEF Restarts, Sane, Good

\* Type of what a task got from its calls.
MadeType == [calls : 0 .. 2, photo : Photos \cup {NoId}, group : Groups \cup {NoId}]

\* One more call of the task.
LEMMA OneMoreCall ==
    ASSUME made \in MadeType, made.calls < 2, NEW p \in Photos \cup {NoId},
           NEW g \in Groups \cup {NoId}
    PROVE  /\ [made EXCEPT !.calls = @ + 1] \in MadeType
           /\ [made EXCEPT !.calls = @ + 1, !.photo = p] \in MadeType
           /\ [made EXCEPT !.calls = @ + 1, !.group = g] \in MadeType
<1>1. made.calls + 1 \in 0 .. 2
  BY DEF MadeType
<1> QED  BY <1>1 DEF MadeType

\* addPhotos() of one photo, which brings no group.
LEMMA AddPhotosIsSane ==
    ASSUME Sane, NEW d, IsDelta(d), "group" \notin DOMAIN d, made.calls < 2, AddPhotos(d)
    PROVE  Sane'
<1> DEFINE id == NextId(db.photos)
           chain == <<Inserted(db, id)>> \o StoreData(Inserted(db, id), id, d)
           given(o) == IF o.done > 0 THEN id ELSE NoId
<1>1. PICK o \in InTransaction(chain) :
         /\ id \in Photos
         /\ Becomes(o)
         /\ seen' = (seen \cup ({given(o)} \ {NoId})) \ {}
         /\ made' = [made EXCEPT !.calls = @ + 1, !.photo = given(o)]
  BY DEF AddPhotos, Inserted, Reports
<1> HIDE DEF id
<1>2. Good(db) /\ db \in Contents
  BY DEF Sane, Good
<1>3. /\ chain \in Seq(Contents) /\ Len(chain) = 6
  BY <1>1, <1>2, AddPhotosChain
<1> HIDE DEF chain
<1>4. Len(chain) # 0
  BY <1>3
<1>5. /\ Good(db') /\ Good(disk') /\ open' \in BOOLEAN /\ (~ open' => db' = disk')
      /\ faults' \in 0 .. MaxFaults
      /\ faults' = 0 => ~ open'
  BY <1>1, <1>3, <1>4, TransactionIsSane
<1>6. given(o) \in Photos \cup {NoId} /\ made' \in MadeType
  <2>1. given(o) \in Photos \cup {NoId}
    BY <1>1
  <2> HIDE DEF given
  <2>2. made \in MadeType
    BY DEF Sane, MadeType
  <2> QED  BY <1>1, <2>1, <2>2, OneMoreCall
<1>7. seen' \subseteq Photos
  BY <1>1 DEF Sane
<1> QED  BY <1>5, <1>6, <1>7 DEF Sane, MadeType

\* update()
LEMMA UpdateIsSane ==
    ASSUME Sane, NEW photos \in Seq(Photos), NEW d, IsDelta(d), Update(photos, d)
    PROVE  Sane'
<1> DEFINE chain == StoreAll(db, photos, d)
<1>1. PICK o \in InTransaction(chain) :
         Becomes(o) /\ seen' = (seen \cup {}) \ {} /\ made' = made
  BY DEF Update, Reports
<1>2. Good(db) /\ db \in Contents /\ photos \in Seq(Nat)
  BY PhotosAreNumbers, SeqMonotonic DEF Sane, Good
<1>3. StageOK(chain, db)
  BY <1>2, StoreAllChain
<1> HIDE DEF chain
<1>4. chain \in Seq(Contents) /\ Len(chain) # 0
  BY <1>3 DEF StageOK
<1>5. /\ Good(db') /\ Good(disk') /\ open' \in BOOLEAN /\ (~ open' => db' = disk')
      /\ faults' \in 0 .. MaxFaults
      /\ faults' = 0 => ~ open'
  BY <1>1, <1>4, TransactionIsSane
<1> QED  BY <1>1, <1>5 DEF Sane

\* addGroup(), also when nobody catches the error of the log.
LEMMA AddGroupIsSane ==
    ASSUME Sane, NEW p \in Nat, made.calls < 2, AddGroup(p)
    PROVE  Sane'
<1> DEFINE id == NextId({g.id : g \in db.groups})
           chain == <<GroupInserted(db, id, p), GroupNoted(db, id, p)>>
<1>1. PICK o \in Autocommit(chain) :
         /\ id \in Groups
         /\ \/ /\ Becomes(o)
               /\ seen' = (seen \cup {}) \ {}
               /\ made' = [made EXCEPT !.calls = @ + 1, !.group = IF o.ok THEN id ELSE NoId]
            \/ /\ faults + o.cost <= MaxFaults
               /\ faults' = faults + o.cost
               /\ Restarts(o.disk)
  BY DEF AddGroup, GroupInserted, GroupNoted, Reports
<1> HIDE DEF id
<1>2. Good(db) /\ db \in Contents
  BY DEF Sane, Good
<1>3. chain[1] \in Contents /\ chain[2] \in Contents
  BY <1>1, <1>2, AddGroupChain
<1>4. chain \in Seq(Contents) /\ Len(chain) = 2
  BY <1>3
<1> HIDE DEF chain
<1>5. CASE Becomes(o) /\ seen' = (seen \cup {}) \ {}
           /\ made' = [made EXCEPT !.calls = @ + 1, !.group = IF o.ok THEN id ELSE NoId]
  <2>1. /\ Good(db') /\ Good(disk') /\ open' \in BOOLEAN /\ (~ open' => db' = disk')
        /\ faults' \in 0 .. MaxFaults
        /\ faults' = 0 => ~ open'
    BY <1>4, <1>5, AutocommitIsSane
  <2>2. made' \in MadeType
    <3>1. (IF o.ok THEN id ELSE NoId) \in Groups \cup {NoId}
      BY <1>1
    <3>2. made \in MadeType /\ NoId \in Photos \cup {NoId}
      BY DEF Sane, MadeType
    <3> QED  BY <1>5, <3>1, <3>2, OneMoreCall
  <2> QED  BY <1>5, <2>1, <2>2 DEF Sane, MadeType
<1>6. CASE faults + o.cost <= MaxFaults /\ faults' = faults + o.cost /\ Restarts(o.disk)
  <2>1. PICK k \in 0 .. Reach(chain) :
              /\ \A i \in 1 .. k : Consistent(chain[i])
              /\ o.disk = IF open THEN disk ELSE After(chain, k)
              /\ o.cost \in {0, 1}
    BY <1>4, AutocommitOutcomes
  <2>2. k \in 0 .. 2
    BY <1>4, <2>1, ReachProperties
  <2>3. Good(After(chain, k))
    <3>1. CASE k = 0
      BY <1>2, <3>1 DEF After
    <3>2. CASE k # 0
      <4>1. k \in {1, 2} /\ k \in 1 .. k
        BY <2>2, <3>2
      <4> QED  BY <1>3, <2>1, <3>2, <4>1 DEF After, Good
    <3> QED  BY <3>1, <3>2
  <2>4. Good(o.disk)
    BY <2>1, <2>3 DEF Sane
  <2>5. faults' \in 0 .. MaxFaults
    BY <1>6, <2>1, SqlAssumption DEF Sane
  <2> QED  BY <1>6, <2>4, <2>5, RestartIsSane
<1> QED  BY <1>1, <1>5, <1>6

\* What removeGroup() comes to: back to the disk, or the group and its members
\* gone and the first k entries of its end in the log.
Dissolves(g, row, k) ==
    /\ row \in db.groups /\ row.id = g
    /\ ~ open
    /\ Consistent(Freed(db, g)) /\ Consistent(GroupRemoved(db, g, row))
    /\ k \in 0 .. Len(Dissolution(db, g, row))
    /\ db' = Logged(GroupRemoved(db, g, row), SubSeq(Dissolution(db, g, row), 1, k))
    /\ disk' = db' /\ open' = FALSE
    /\ faults' = faults + (IF k < Len(Dissolution(db, g, row)) THEN 1 ELSE 0)

\* A removal of a group that fails: the content is what was committed.
GoesBack ==
    /\ db' = disk /\ disk' = disk /\ open' = FALSE
    /\ \E cost \in {0, 1} : faults' = faults + cost

\* What removeGroup() comes to.
LEMMA RemoveGroupOutcomes ==
    ASSUME db \in Contents, NEW g \in Groups, RemoveGroup(g)
    PROVE  /\ GoesBack \/ \E row, k : Dissolves(g, row, k)
           /\ faults' <= MaxFaults
           /\ seen' = seen
           /\ \/ made' = [made EXCEPT !.calls = @ + 1]
              \/ \E row \in db.groups :
                    \/ made' = [made EXCEPT !.calls = @ + 1, !.photo = row.representative]
                    \/ made' = [made EXCEPT !.calls = @ + 1, !.photo = NoId]
<1>1. CASE \A r \in db.groups : r.id # g
  <2>1. /\ Becomes(RolledBack(0, 0))
        /\ seen' = (seen \cup {}) \ {}
        /\ made' = [made EXCEPT !.calls = @ + 1]
    BY <1>1 DEF RemoveGroup, Reports
  <2> QED  BY <2>1 DEF Becomes, RolledBack, GoesBack
<1>2. CASE ~ \A r \in db.groups : r.id # g
  <2> DEFINE row == CHOOSE r \in db.groups : r.id = g
             chain == <<Freed(db, g), GroupRemoved(db, g, row)>>
             entries == Dissolution(db, g, row)
             Fails(o) == /\ ~ o.ok
                         /\ Becomes(IF o.open THEN RolledBack(o.done, o.cost) ELSE o)
             Cost(k) == IF k < Len(entries) THEN 1 ELSE 0
             Logs1(o, k) == /\ o.ok
                            /\ Becomes([o EXCEPT
                                  !.db = Logged(GroupRemoved(db, g, row), SubSeq(entries, 1, k)),
                                  !.disk = Logged(GroupRemoved(db, g, row), SubSeq(entries, 1, k)),
                                  !.cost = Cost(k)])
             Returns == \E ok \in BOOLEAN : \E modified :
                          /\ Reports("removeGroup", ok, {}, {}, modified)
                          /\ made' = [made EXCEPT !.calls = @ + 1,
                                                  !.photo = IF ok THEN row.representative ELSE NoId]
  <2>1. row \in db.groups /\ row.id = g
    BY <1>2
  <2>2. /\ \/ \E o \in InTransaction(chain) : Fails(o)
           \/ \E o \in InTransaction(chain) : \E k \in 0 .. Len(entries) : Logs1(o, k)
        /\ Returns
    <3>1. \/ \E o \in InTransaction(chain) : Fails(o) /\ Returns
          \/ \E o \in InTransaction(chain) : \E k \in 0 .. Len(entries) : Logs1(o, k) /\ Returns
      BY <1>2, Zenon DEF RemoveGroup, Freed, GroupRemoved, Dissolution
    <3> QED  BY <3>1
  <2> HIDE DEF row, Fails, Logs1, Returns
  <2>3. seen' = seen
        /\ \/ made' = [made EXCEPT !.calls = @ + 1, !.photo = row.representative]
           \/ made' = [made EXCEPT !.calls = @ + 1, !.photo = NoId]
    <3>1. PICK ok \in BOOLEAN :
             \E modified :
                /\ Reports("removeGroup", ok, {}, {}, modified)
                /\ made' = [made EXCEPT !.calls = @ + 1,
                                        !.photo = IF ok THEN row.representative ELSE NoId]
      BY <2>2 DEF Returns
    <3>2. seen' = (seen \cup {}) \ {}
      BY <3>1 DEF Reports
    <3>3. seen' = seen
      BY <3>2
    <3> QED  BY <3>1, <3>3
  <2>4. chain \in Seq(Contents) /\ Len(chain) = 2
    BY RemoveGroupChain
  <2>5. \A o \in InTransaction(chain) :
          \/ \E done, cost : cost \in {0, 1} /\ o = RolledBack(done, cost)
          \/ /\ ~ open
             /\ Consistent(Freed(db, g)) /\ Consistent(GroupRemoved(db, g, row))
             /\ o \in Committed(chain) \cup CommitFailed(chain)
    <3> SUFFICES ASSUME NEW o \in InTransaction(chain),
                        ~ \E done, cost : cost \in {0, 1} /\ o = RolledBack(done, cost)
                 PROVE  /\ ~ open
                        /\ Consistent(Freed(db, g)) /\ Consistent(GroupRemoved(db, g, row))
                        /\ o \in Committed(chain) \cup CommitFailed(chain)
      OBVIOUS
    <3>1. /\ ~ open
          /\ \A i \in 1 .. Len(chain) : Consistent(chain[i])
          /\ o \in Committed(chain) \cup CommitFailed(chain)
      <4> HIDE DEF chain
      <4> QED  BY <2>4, TransactionOutcomes
    <3>2. 1 \in 1 .. Len(chain) /\ 2 \in 1 .. Len(chain)
      BY <2>4
    <3>3. Consistent(chain[1]) /\ Consistent(chain[2])
      <4> HIDE DEF chain
      <4> QED  BY <3>1, <3>2
    <3> QED  BY <3>1, <3>3
  <2> HIDE DEF chain, entries
  <2>6. CASE \E o \in InTransaction(chain) : Fails(o)
    <3>1. PICK o \in InTransaction(chain) :
                 ~ o.ok /\ Becomes(IF o.open THEN RolledBack(o.done, o.cost) ELSE o)
      BY <2>6 DEF Fails
    <3>2. PICK done, cost : cost \in {0, 1} /\ Becomes(RolledBack(done, cost))
      <4>1. CASE \E done, cost : cost \in {0, 1} /\ o = RolledBack(done, cost)
        <5>1. PICK done, cost : cost \in {0, 1} /\ o = RolledBack(done, cost)
          BY <4>1
        <5>2. o.open = FALSE
          BY <5>1 DEF RolledBack
        <5> QED  BY <3>1, <5>1, <5>2
      <4>2. CASE o \in Committed(chain)
        <5>1. o.ok = TRUE
          BY <4>2 DEF Committed
        <5> QED  BY <3>1, <5>1
      <4>3. CASE o \in CommitFailed(chain)
        <5>1. o.open = TRUE /\ o.cost = 1
          BY <4>3 DEF CommitFailed
        <5> QED  BY <3>1, <5>1
      <4> QED  BY <2>5, <4>1, <4>2, <4>3
    <3>3. GoesBack /\ faults' <= MaxFaults
      BY <3>2 DEF Becomes, RolledBack, GoesBack
    <3> QED  BY <2>1, <2>3, <3>3
  <2>7. CASE \E o \in InTransaction(chain) : \E k \in 0 .. Len(entries) : Logs1(o, k)
    <3>1. PICK o \in InTransaction(chain), k \in 0 .. Len(entries) : Logs1(o, k)
      BY <2>7
    <3>2. /\ ~ open
          /\ Consistent(Freed(db, g)) /\ Consistent(GroupRemoved(db, g, row))
          /\ o \in Committed(chain)
      <4>1. o.ok
        BY <3>1 DEF Logs1
      <4>2. ~ \E done, cost : cost \in {0, 1} /\ o = RolledBack(done, cost)
        <5>1. ASSUME NEW done, NEW cost, o = RolledBack(done, cost)  PROVE FALSE
          <6>1. o.ok = FALSE
            BY <5>1 DEF RolledBack
          <6> QED  BY <4>1, <6>1
        <5> QED  BY <5>1
      <4>3. ~ (o \in CommitFailed(chain))
        <5>1. ASSUME o \in CommitFailed(chain)  PROVE FALSE
          <6>1. o.ok = FALSE
            BY <5>1 DEF CommitFailed
          <6> QED  BY <4>1, <6>1
        <5> QED  BY <5>1
      <4> QED  BY <2>5, <4>2, <4>3
    <3> DEFINE logged == Logged(GroupRemoved(db, g, row), SubSeq(entries, 1, k))
    <3>3. o = [db |-> Last(chain), disk |-> Last(chain), open |-> FALSE, ok |-> TRUE,
               done |-> Len(chain), cost |-> 0]
      BY <3>2 DEF Committed
    <3>4. Becomes([o EXCEPT !.db = logged, !.disk = logged, !.cost = Cost(k)])
      BY <3>1 DEF Logs1
    <3> HIDE DEF logged
    <3>5. db' = logged /\ disk' = logged /\ open' = FALSE /\ faults' = faults + Cost(k)
          /\ faults' <= MaxFaults
      BY <3>3, <3>4 DEF Becomes
    <3>6. Dissolves(g, row, k)
      BY <2>1, <3>1, <3>2, <3>5 DEF Dissolves, logged, entries
    <3> QED  BY <2>1, <2>3, <3>5, <3>6
  <2> QED  BY <2>2, <2>6, <2>7
<1> QED  BY <1>1, <1>2

\* The entries of the end of a group are about its photos.
LEMMA DissolutionConsistent ==
    ASSUME Good(db), NEW g \in Groups, NEW row, NEW k, Dissolves(g, row, k)
    PROVE  Good(db') /\ db'.photos = db.photos
<1> DEFINE es == Dissolution(db, g, row)
           ms == SetToSeq(MembersOf(db, g))
           c == GroupRemoved(db, g, row)
           part == SubSeq(es, 1, k)
<1>1. /\ ms \in Seq(MembersOf(db, g))
      /\ es \in Seq(Entries) /\ Len(es) = 1 + Len(ms)
      /\ es[1] = Entry(row.representative, "group", <<g, "Representative">>, <<>>)
      /\ \A i \in 1 .. Len(ms) : es[i + 1] = Entry(ms[i], "group", <<g, "Member">>, <<>>)
  BY DissolutionType DEF Dissolves
<1>2. c \in Contents /\ c.photos = db.photos /\ c.log = db.log /\ Consistent(c)
  BY RemoveGroupChain DEF Dissolves, Good, SameBut
<1> HIDE DEF es, ms, c
<1>3. /\ k \in 0 .. Len(es) /\ db' = Logged(c, part)
      /\ row.representative \in db.photos
  BY ForeignKeys DEF Dissolves, es, c, Good
<1>4. \A i \in 1 .. Len(es) : es[i].photo \in db.photos
  <2> SUFFICES ASSUME NEW i \in 1 .. Len(es)  PROVE es[i].photo \in db.photos
    OBVIOUS
  <2>1. CASE i = 1
    BY <1>1, <1>3, <2>1 DEF Entry
  <2>2. CASE i # 1
    <3>1. i - 1 \in 1 .. Len(ms) /\ (i - 1) + 1 = i
      BY <1>1, <2>2
    <3>2. es[i] = Entry(ms[i - 1], "group", <<g, "Member">>, <<>>)
      BY <1>1, <3>1
    <3>3. ms[i - 1] \in db.photos
      BY <1>1, <3>1, MembersType
    <3> QED  BY <3>2, <3>3 DEF Entry
  <2> QED  BY <2>1, <2>2
<1>5. /\ part \in Seq(Entries) /\ Len(part) = k
      /\ \A i \in 1 .. k : part[i] = es[i]
  <2>1. es \in Seq(Entries) /\ Len(es) \in Nat /\ k \in Nat /\ k <= Len(es)
    BY <1>1, <1>3
  <2> QED  BY <2>1
<1> HIDE DEF part
<1>6. /\ Logged(c, part) \in Contents /\ SameBut(c, Logged(c, part), "log")
      /\ Logged(c, part).log = c.log \o part
  BY <1>2, <1>5, LoggedTables
<1>7. \A i \in DOMAIN (c.log \o part) : (c.log \o part)[i].photo \in db.photos
  <2>1. c.log \in Seq(Entries) /\ \A i \in DOMAIN c.log : c.log[i].photo \in db.photos
    BY <1>2, ForeignKeys, LogsAre DEF Contents
  <2>2. /\ DOMAIN (c.log \o part) = 1 .. Len(c.log) + k
        /\ \A i \in 1 .. Len(c.log) + k :
              (c.log \o part)[i] = IF i <= Len(c.log) THEN c.log[i] ELSE part[i - Len(c.log)]
    <3>1. /\ Len(c.log \o part) = Len(c.log) + Len(part) /\ c.log \o part \in Seq(Entries)
          /\ \A i \in 1 .. Len(c.log) + Len(part) :
                (c.log \o part)[i] = IF i <= Len(c.log) THEN c.log[i] ELSE part[i - Len(c.log)]
      BY <1>5, <2>1, ConcatProperties
    <3> QED  BY <1>5, <3>1
  <2>3. Len(c.log) \in Nat /\ k \in Nat /\ k <= Len(es) /\ DOMAIN c.log = 1 .. Len(c.log)
    BY <1>3, <2>1
  <2>4. ASSUME NEW i \in 1 .. Len(c.log) + k
        PROVE  IF i <= Len(c.log) THEN i \in DOMAIN c.log
               ELSE i - Len(c.log) \in 1 .. k /\ i - Len(c.log) \in 1 .. Len(es)
    BY <1>1, <2>3
  <2> QED  BY <1>4, <1>5, <2>1, <2>2, <2>4
<1>8. Consistent(Logged(c, part))
  BY <1>2, <1>6, <1>7, ForeignKeys DEF SameBut
<1> QED  BY <1>2, <1>3, <1>6, <1>8 DEF Good, SameBut

\* The number of faults grows within its bound.
LEMMA FaultsGrow ==
    \A before \in 0 .. MaxFaults, cost \in {0, 1} : \A after :
       after = before + cost /\ after <= MaxFaults
         => after \in 0 .. MaxFaults /\ (after = 0 => before = 0)
BY SqlAssumption

\* removeGroup()
LEMMA RemoveGroupIsSane ==
    ASSUME Sane, NEW g \in Groups, made.calls < 2, RemoveGroup(g)
    PROVE  Sane'
<1>1. Good(db) /\ Good(disk) /\ db \in Contents /\ made \in MadeType
  BY DEF Sane, Good, MadeType
<1>2. /\ GoesBack \/ \E row, k : Dissolves(g, row, k)
      /\ faults' <= MaxFaults /\ seen' = seen
      /\ \/ made' = [made EXCEPT !.calls = @ + 1]
         \/ \E row \in db.groups :
               \/ made' = [made EXCEPT !.calls = @ + 1, !.photo = row.representative]
               \/ made' = [made EXCEPT !.calls = @ + 1, !.photo = NoId]
  BY <1>1, RemoveGroupOutcomes
<1>3. made' \in MadeType
  <2>1. NoId \in Photos \cup {NoId} /\ NoId \in Groups \cup {NoId}
    OBVIOUS
  <2>2. \A row \in db.groups : row.representative \in Photos \cup {NoId}
    BY <1>1, ForeignKeys DEF Good, Contents
  <2> QED  BY <1>1, <1>2, <2>1, <2>2, OneMoreCall
<1>4. faults \in 0 .. MaxFaults
  BY DEF Sane
<1>5. /\ Good(db') /\ Good(disk') /\ open' = FALSE /\ db' = disk'
      /\ faults' \in 0 .. MaxFaults
  <2>1. CASE GoesBack
    <3>1. PICK cost \in {0, 1} : faults' = faults + cost
      BY <2>1 DEF GoesBack
    <3>2. faults' \in 0 .. MaxFaults
      BY <1>2, <1>4, <3>1, FaultsGrow
    <3>3. db' = disk /\ disk' = disk /\ open' = FALSE
      BY <2>1 DEF GoesBack
    <3> QED  BY <1>1, <3>2, <3>3
  <2>2. CASE \E row, k : Dissolves(g, row, k)
    <3>1. PICK row, k : Dissolves(g, row, k)
      BY <2>2
    <3>2. Good(db')
      BY <1>1, <3>1, DissolutionConsistent
    <3>3. disk' = db' /\ open' = FALSE /\ \E cost \in {0, 1} : faults' = faults + cost
      BY <3>1 DEF Dissolves
    <3>4. faults' \in 0 .. MaxFaults
      BY <1>2, <1>4, <3>3, FaultsGrow
    <3> QED  BY <3>2, <3>3, <3>4
  <2> QED  BY <1>2, <2>1, <2>2
<1> QED  BY <1>2, <1>3, <1>5 DEF Sane, MadeType

\* removePhoto()
LEMMA RemovePhotoIsSane ==
    ASSUME Sane, NEW p, RemovePhoto(p)
    PROVE  Sane'
<1> DEFINE chain == RemovalChain(p)
<1>1. PICK o \in InTransaction(chain) :
         Becomes(o) /\ seen' = (seen \cup {}) \ ({p} \cap db.photos) /\ made' = made
  BY DEF RemovePhoto, Reports
<1>2. db \in Contents
  BY DEF Sane, Good
<1>3. chain \in Seq(Contents) /\ Len(chain) = 7
  BY <1>2, RemovalTables
<1> HIDE DEF chain
<1>4. Len(chain) # 0
  BY <1>3
<1>5. /\ Good(db') /\ Good(disk') /\ open' \in BOOLEAN /\ (~ open' => db' = disk')
      /\ faults' \in 0 .. MaxFaults
      /\ faults' = 0 => ~ open'
  BY <1>1, <1>3, <1>4, TransactionIsSane
<1> QED  BY <1>1, <1>5 DEF Sane

\* A statement of its own.
LEMMA StatementIsSane ==
    ASSUME Sane, NEW chain \in Seq(Contents),
           NEW o \in Autocommit(chain), Becomes(o), seen' = seen, made' = made
    PROVE  Sane'
<1>1. /\ Good(db') /\ Good(disk') /\ open' \in BOOLEAN /\ (~ open' => db' = disk')
      /\ faults' \in 0 .. MaxFaults
      /\ faults' = 0 => ~ open'
  BY AutocommitIsSane
<1> QED  BY <1>1 DEF Sane

\* markStagedAsReviewed() keeps the invariant.
LEMMA MarkStagedIsSane ==
    ASSUME Sane, MarkStagedAsReviewed
    PROVE  Sane'
<1> DEFINE chain == IF Reviewed(db) = db THEN <<>> ELSE <<Reviewed(db)>>
<1>1. PICK o \in Autocommit(chain) : Becomes(o) /\ seen' = (seen \cup {}) \ {} /\ made' = made
  BY DEF MarkStagedAsReviewed, Reviewed, Reports
<1>2. Reviewed(db) \in Contents
  BY ReviewedTables DEF Sane, Good
<1>3. chain \in Seq(Contents)
  BY <1>2
<1> HIDE DEF chain
<1>4. seen' = seen
  BY <1>1
<1> QED  BY <1>1, <1>3, <1>4, StatementIsSane

\* set() keeps the invariant.
LEMMA SetFlagIsSane ==
    ASSUME Sane, NEW p \in Nat, SetFlag(p)
    PROVE  Sane'
<1> DEFINE c == UpdateOrInsert(db, "generalFlags", [photo |-> p])
           chain == <<c>>
<1>1. PICK o \in Autocommit(chain) : Becomes(o) /\ seen' = (seen \cup {}) \ {} /\ made' = made
  BY DEF SetFlag, Reports
<1>2. c \in Contents
  BY MarkedTables DEF Sane, Good
<1> HIDE DEF c
<1>3. chain \in Seq(Contents)
  BY <1>2
<1> HIDE DEF chain
<1>4. seen' = seen
  BY <1>1
<1> QED  BY <1>1, <1>3, <1>4, StatementIsSane

-----------------------------------------------------------------------------
(* The queue *)

\* What can be asked for.
Asked == [kind : {"scan", "review"}]
         \cup [kind : {"mark"}, photo : Photos]
         \cup [kind : {"update"}, photos : Seq(Photos), edit : Edits]
         \cup [kind : {"group"}, photos : Seq(Photos) \ {<<>>}]
         \cup [kind : {"ungroup"}, group : Groups]

\* A task has made as many calls as its kind allows.
TasksOK ==
    /\ tasks \in Seq(Asked)
    /\ task \in Asked \cup {Idle}
    /\ posted \in 0 .. MaxRequests
    /\ task.kind \in {"scan", "review", "mark", "update"} => made.calls = 0
    /\ task.kind = "ungroup" => made.calls < 2

\* The photos of a batch, one by one.
LEMMA BatchIsSeq ==
    ASSUME NEW B, B \subseteq Photos
    PROVE  /\ SetToSeq(B) \in Seq(Photos) /\ Range(SetToSeq(B)) = B
           /\ Cardinality(B) > 1 => SetToSeq(B) # <<>>
<1>1. IsFiniteSet(Photos)
  BY SqlAssumption, FS_Interval DEF Photos
<1>2. IsFiniteSet(B)
  BY <1>1, FS_Subset
<1>3. SetToSeq(B) \in Seq(B) /\ Range(SetToSeq(B)) = B
  BY <1>2, SetToSeqProperties
<1>4. SetToSeq(B) \in Seq(Photos)
  BY <1>3, SeqMonotonic
<1>5. ASSUME Cardinality(B) > 1, SetToSeq(B) = <<>>  PROVE FALSE
  <2>1. Range(<<>>) = {}
    BY DEF Range
  <2>2. B = {}
    BY <1>3, <1>5, <2>1
  <2> QED  BY <1>5, <2>2, FS_EmptySet
<1> QED  BY <1>3, <1>4, <1>5

\* Requests have the types of tasks.
LEMMA RequestsAreAsked ==
    ASSUME Sane
    PROVE  Requests \subseteq Asked
<1>1. seen \subseteq Photos
  BY DEF Sane
<1>2. KnownGroups \subseteq Groups
  BY DEF KnownGroups, Sane, Good, Contents
<1> SUFFICES ASSUME NEW r \in Requests  PROVE r \in Asked
  OBVIOUS
<1>3. CASE r \in {[kind |-> "scan"], [kind |-> "review"]}
  BY <1>3 DEF Asked
<1>4. CASE r \in {[kind |-> "mark", photo |-> p] : p \in seen}
  BY <1>1, <1>4 DEF Asked
<1>5. CASE \E S \in SUBSET seen, e \in Edits :
              r = [kind |-> "update", photos |-> SetToSeq(S), edit |-> e]
  BY <1>1, <1>5, BatchIsSeq DEF Asked
<1>6. CASE \E S \in SUBSET seen : Cardinality(S) > 1
              /\ r = [kind |-> "group", photos |-> SetToSeq(S)]
  BY <1>1, <1>6, BatchIsSeq DEF Asked
<1>7. CASE r \in {[kind |-> "ungroup", group |-> g] : g \in KnownGroups}
  BY <1>2, <1>7 DEF Asked
<1>8. \/ r \in {[kind |-> "scan"], [kind |-> "review"]}
      \/ r \in {[kind |-> "mark", photo |-> p] : p \in seen}
      \/ \E S \in SUBSET seen, e \in Edits :
            r = [kind |-> "update", photos |-> SetToSeq(S), edit |-> e]
      \/ \E S \in SUBSET seen : Cardinality(S) > 1
            /\ r = [kind |-> "group", photos |-> SetToSeq(S)]
      \/ r \in {[kind |-> "ungroup", group |-> g] : g \in KnownGroups}
  BY DEF Requests
<1> QED  BY <1>3, <1>4, <1>5, <1>6, <1>7, <1>8

\* What a task of each kind brings.
LEMMA TaskFields ==
    ASSUME TasksOK
    PROVE  /\ task.kind = "mark" => task.photo \in Photos
           /\ task.kind = "update" => task.photos \in Seq(Photos) /\ task.edit \in Edits
           /\ task.kind = "group" => task.photos \in Seq(Photos) /\ task.photos # <<>>
           /\ task.kind = "ungroup" => task.group \in Groups
<1>1. CASE task \in [kind : {"scan", "review"}]
  BY <1>1
<1>2. CASE task \in [kind : {"mark"}, photo : Photos]
  BY <1>2
<1>3. CASE task \in [kind : {"update"}, photos : Seq(Photos), edit : Edits]
  BY <1>3
<1>4. CASE task \in [kind : {"group"}, photos : Seq(Photos) \ {<<>>}]
  BY <1>4
<1>5. CASE task \in [kind : {"ungroup"}, group : Groups]
  BY <1>5
<1>6. CASE task = Idle
  BY <1>6 DEF Idle
<1> QED  BY <1>1, <1>2, <1>3, <1>4, <1>5, <1>6 DEF TasksOK, Asked

\* The deltas of the scan and of group().
LEMMA OtherDeltas ==
    /\ IsDelta([flags |-> {"StagingArea"}])
    /\ \A c \in Contents : \A p :
          LET d == [tags |-> GetTags(c, p), flags |-> GetFlags(c, p) \cap {"StagingArea"}]
          IN  IsDelta(d) /\ "group" \notin DOMAIN d
    /\ \A g \in Groups \cup {NoId} :
          IsDelta([group |-> IF g = NoId THEN <<>> ELSE <<g, "Member">>])
<1>1. IsDelta([flags |-> {"StagingArea"}])
  BY DEF IsDelta, Flags
<1>2. ASSUME NEW c \in Contents, NEW p
      PROVE  LET d == [tags |-> GetTags(c, p), flags |-> GetFlags(c, p) \cap {"StagingArea"}]
             IN  IsDelta(d) /\ "group" \notin DOMAIN d
  BY QueriesType DEF IsDelta
<1>3. ASSUME NEW g \in Groups \cup {NoId}
      PROVE  IsDelta([group |-> IF g = NoId THEN <<>> ELSE <<g, "Member">>])
  <2>1. NoId \notin Groups
    BY SqlAssumption DEF Groups, NoId
  <2>2. (IF g = NoId THEN <<>> ELSE <<g, "Member">>) \in {<<>>} \cup Groups \X {"Member"}
    BY <2>1
  <2> QED  BY <2>2 DEF IsDelta
<1> QED  BY <1>1, <1>2, <1>3

\* The calls of a task keep what they leave sane.
LEMMA PerformIsSane ==
    ASSUME Sane, TasksOK, Perform
    PROVE  Sane'
<1>1. Photos \subseteq Nat /\ db \in Contents /\ made \in MadeType /\ NoId \in Nat
  BY PhotosAreNumbers DEF Sane, Good, MadeType
<1>2. CASE Scan
  <2>1. made.calls < 2 /\ AddPhotos([flags |-> {"StagingArea"}])
    BY <1>2 DEF Scan, TasksOK
  <2>2. "group" \notin DOMAIN [flags |-> {"StagingArea"}]
    OBVIOUS
  <2> QED  BY <2>1, <2>2, AddPhotosIsSane, OtherDeltas
<1>3. CASE Edit
  <2>1. task.photos \in Seq(Photos) /\ IsDelta(task.edit) /\ Update(task.photos, task.edit)
    BY <1>3, TaskFields, EditsAreDeltas DEF Edit
  <2> QED  BY <2>1, UpdateIsSane
<1>4. CASE Review
  BY <1>4, MarkStagedIsSane DEF Review
<1>5. CASE MarkBroken
  <2>1. task.photo \in Nat /\ SetFlag(task.photo)
    BY <1>1, <1>5, TaskFields DEF MarkBroken
  <2> QED  BY <2>1, SetFlagIsSane
<1>6. CASE GroupRepresentative
  <2> DEFINE first == Head(task.photos)
             d == [tags |-> GetTags(db, first), flags |-> GetFlags(db, first) \cap {"StagingArea"}]
  <2>1. made.calls < 2 /\ AddPhotos(d)
    BY <1>6 DEF GroupRepresentative
  <2>2. IsDelta(d) /\ "group" \notin DOMAIN d
    BY <1>1, OtherDeltas
  <2> HIDE DEF d
  <2> QED  BY <2>1, <2>2, AddPhotosIsSane
<1>7. CASE GroupCreate
  <2>1. made.calls < 2 /\ AddGroup(made.photo)
    BY <1>7 DEF GroupCreate
  <2>2. made.photo \in Nat
    BY <1>1 DEF MadeType
  <2> QED  BY <2>1, <2>2, AddGroupIsSane
<1>8. CASE GroupJoin
  <2> DEFINE d == [group |-> IF made.group = NoId THEN <<>> ELSE <<made.group, "Member">>]
  <2>1. task.photos \in Seq(Photos) /\ Update(task.photos, d)
    BY <1>8, TaskFields DEF GroupJoin
  <2>2. made.group \in Groups \cup {NoId}
    BY <1>1 DEF MadeType
  <2>3. IsDelta(d)
    BY <2>2, OtherDeltas
  <2> HIDE DEF d
  <2> QED  BY <2>1, <2>3, UpdateIsSane
<1>9. CASE UngroupDissolve
  <2>1. task.group \in Groups /\ made.calls < 2 /\ RemoveGroup(task.group)
    BY <1>9, TaskFields DEF UngroupDissolve
  <2> QED  BY <2>1, RemoveGroupIsSane
<1>10. CASE UngroupRemove
  BY <1>10, RemovePhotoIsSane DEF UngroupRemove
<1> QED
  BY <1>2, <1>3, <1>4, <1>5, <1>6, <1>7, <1>8, <1>9, <1>10 DEF Perform

\* The calls that are counted.
LEMMA AddPhotosCounts ==
    ASSUME NEW d, made \in MadeType, AddPhotos(d)
    PROVE  made'.calls = made.calls + 1
BY DEF AddPhotos, MadeType

\* removeGroup() is one more call of the task.
LEMMA RemoveGroupCounts ==
    ASSUME db \in Contents, NEW g \in Groups, made \in MadeType, RemoveGroup(g)
    PROVE  made'.calls = made.calls + 1
<1>1. \/ made' = [made EXCEPT !.calls = @ + 1]
      \/ \E p : made' = [made EXCEPT !.calls = @ + 1, !.photo = p]
  BY RemoveGroupOutcomes
<1> QED  BY <1>1 DEF MadeType

\* Every step keeps the queue in order.
LEMMA StepKeepsTasks ==
    ASSUME Sane, TasksOK, Next
    PROVE  TasksOK'
<1>1. made \in MadeType /\ db \in Contents
  BY DEF Sane, Good, MadeType
<1>2. Idle.kind = "idle" /\ Nothing.calls = 0
  BY DEF Idle, Nothing
<1>3. ASSUME task' = Idle, tasks' \in Seq(Asked), posted' \in 0 .. MaxRequests
      PROVE  TasksOK'
  BY <1>2, <1>3 DEF TasksOK
<1>4. CASE Post
  <2>1. PICK r \in Requests : tasks' = Append(tasks, r)
    BY <1>4 DEF Post
  <2>2. r \in Asked /\ tasks \in Seq(Asked)
    BY RequestsAreAsked DEF TasksOK
  <2>3. tasks' \in Seq(Asked)
    BY <2>1, <2>2
  <2>4. posted' \in 0 .. MaxRequests
    BY <1>4, SqlAssumption DEF Post, TasksOK
  <2> QED  BY <1>4, <2>3, <2>4 DEF Post, TasksOK
<1>5. CASE Take
  <2>1. tasks \in Seq(Asked) /\ tasks # <<>> /\ task' = Head(tasks) /\ tasks' = Tail(tasks)
    BY <1>5 DEF Take, TasksOK
  <2>2. task' \in Asked /\ tasks' \in Seq(Asked)
    BY <2>1
  <2> QED  BY <1>2, <1>5, <2>2 DEF Take, TasksOK
<1>6. CASE Crash
  <2>1. <<>> \in Seq(Asked)
    OBVIOUS
  <2> QED  BY <1>3, <1>6, <2>1 DEF Crash, Restarts, TasksOK
<1>7. CASE Perform
  <2>1. posted' \in 0 .. MaxRequests /\ tasks \in Seq(Asked) /\ <<>> \in Seq(Asked)
    BY <1>7 DEF Perform, TasksOK
  <2>2. CASE Scan \/ Edit \/ Review \/ MarkBroken \/ GroupJoin \/ UngroupRemove
    BY <1>3, <2>1, <2>2 DEF Scan, Edit, Review, MarkBroken, GroupJoin, UngroupRemove, Ends
  <2>3. CASE GroupRepresentative
    BY <2>1, <2>3 DEF GroupRepresentative, GoesOn, TasksOK
  <2>4. CASE GroupCreate
    <3>1. \/ UNCHANGED <<tasks, task>>
          \/ \E c : Restarts(c)
      BY <2>4 DEF GroupCreate, AddGroup
    <3>2. CASE UNCHANGED <<tasks, task>>
      BY <2>1, <2>4, <3>2 DEF GroupCreate, TasksOK
    <3>3. CASE \E c : Restarts(c)
      BY <1>3, <2>1, <3>3 DEF Restarts
    <3> QED  BY <3>1, <3>2, <3>3
  <2>5. CASE UngroupDissolve
    <3>1. made'.calls = 1
      <4>1. task.group \in Groups /\ RemoveGroup(task.group) /\ made.calls = 0
        BY <2>5, TaskFields DEF UngroupDissolve
      <4> QED  BY <1>1, <4>1, RemoveGroupCounts
    <3> QED  BY <2>1, <2>5, <3>1 DEF UngroupDissolve, GoesOn, TasksOK
  <2> QED  BY <1>7, <2>2, <2>3, <2>4, <2>5 DEF Perform
<1> QED  BY <1>4, <1>5, <1>6, <1>7 DEF Next

\* Together.
SaneInv == Sane /\ TasksOK

\* The strengthened invariant holds at the start.
LEMMA InitIsSane == Init => SaneInv
<1> SUFFICES ASSUME Init  PROVE SaneInv
  OBVIOUS
<1>1. Good(db) /\ db.photos \subseteq Photos
  BY CollectionsAssumption DEF Init, Good, Contents
<1>2. Nothing \in MadeType /\ MaxFaults \in Nat /\ MaxRequests \in Nat
  BY SqlAssumption DEF Nothing, MadeType
<1>3. <<>> \in Seq(Asked) /\ Idle.kind = "idle"
  BY DEF Idle
<1>4. Sane
  <2>1. Good(db) /\ Good(disk) /\ seen \subseteq Photos /\ db = disk
    BY <1>1 DEF Init
  <2>2. open = FALSE
    BY DEF Init
  <2>3. open \in BOOLEAN /\ ~ open
    BY <2>2
  <2>4. made \in MadeType
    BY <1>2 DEF Init
  <2>5. faults \in 0 .. MaxFaults
    BY <1>2 DEF Init
  <2> QED  BY <2>1, <2>3, <2>4, <2>5 DEF Sane, MadeType
<1>5. TasksOK
  BY <1>2, <1>3 DEF Init, TasksOK
<1> QED  BY <1>4, <1>5 DEF SaneInv

\* Every step keeps the strengthened invariant.
LEMMA StepIsSane == SaneInv /\ [Next]_vars => SaneInv'
<1> SUFFICES ASSUME Sane, TasksOK, [Next]_vars  PROVE Sane' /\ TasksOK'
  BY DEF SaneInv
<1>1. CASE UNCHANGED vars
  BY <1>1 DEF vars, content, Sane, TasksOK, Good
<1>2. CASE Next
  <2>1. TasksOK'
    BY <1>2, StepKeepsTasks
  <2>2. CASE Post
    BY <2>1, <2>2 DEF Post, content, Sane, Good
  <2>3. CASE Take
    BY <2>1, <2>3 DEF Take, content, Sane, Good, Nothing
  <2>4. CASE Crash
    <3>1. faults' \in 0 .. MaxFaults /\ Restarts(disk) /\ Good(disk)
      BY <2>4, SqlAssumption DEF Crash, Sane
    <3> QED  BY <2>1, <3>1, RestartIsSane
  <2>5. CASE Perform
    BY <2>1, <2>5, PerformIsSane
  <2> QED  BY <1>2, <2>1, <2>2, <2>3, <2>4, <2>5 DEF Next
<1> QED  BY <1>1, <1>2

-----------------------------------------------------------------------------
(* What a call comes to *)

\* The content is what was committed.
Back == db' = disk /\ disk' = disk

\* Nothing is changed.
Stays == db' = db /\ disk' = disk

\* The content is this one, committed or not yet.
Leads(c) == db' = c /\ disk' \in {disk, c}

\* A transaction comes to all of its chain or to what was committed.
LEMMA TransactionLeads ==
    ASSUME NEW chain \in Seq(Contents), NEW o \in InTransaction(chain), Becomes(o)
    PROVE  \/ Back
           \/ (\A i \in 1 .. Len(chain) : Consistent(chain[i])) /\ Leads(Last(chain))
<1>1. db' = o.db /\ disk' = o.disk
  BY DEF Becomes
<1>2. CASE \E done, cost : o = RolledBack(done, cost)
  <2>1. o.db = disk /\ o.disk = disk
    BY <1>2 DEF RolledBack
  <2> QED  BY <1>1, <2>1 DEF Back
<1>3. CASE /\ \A i \in 1 .. Len(chain) : Consistent(chain[i])
           /\ o \in Committed(chain) \cup CommitFailed(chain)
  <2>1. o.db = Last(chain) /\ o.disk \in {disk, Last(chain)}
    BY <1>3 DEF Committed, CommitFailed
  <2> QED  BY <1>1, <1>3, <2>1 DEF Leads
<1>4. \/ \E done, cost : o = RolledBack(done, cost)
      \/ /\ \A i \in 1 .. Len(chain) : Consistent(chain[i])
         /\ o \in Committed(chain) \cup CommitFailed(chain)
  BY TransactionOutcomes
<1> QED  BY <1>2, <1>3, <1>4

\* Outside of one, the chain may end after any of its statements.
LEMMA AutocommitLeads ==
    ASSUME NEW chain \in Seq(Contents), NEW o \in Autocommit(chain), ~ open => db = disk
    PROVE  \E k \in 0 .. Len(chain) :
              /\ \A i \in 1 .. k : Consistent(chain[i])
              /\ o.done = k
              /\ o.db = (IF k = 0 THEN db ELSE chain[k])
              /\ k = 0 => o.disk = disk
              /\ o.disk \in {disk, IF k = 0 THEN db ELSE chain[k]}
              /\ (o.ok <=> k = Len(chain))
<1>1. PICK k \in 0 .. Reach(chain) :
         /\ \A i \in 1 .. k : Consistent(chain[i])
         /\ o.db = After(chain, k) /\ o.disk = IF open THEN disk ELSE After(chain, k)
         /\ o.done = k /\ (o.ok <=> k = Len(chain))
  BY AutocommitOutcomes
<1>2. k \in 0 .. Len(chain)
  BY <1>1, ReachProperties
<1>3. After(chain, k) = IF k = 0 THEN db ELSE chain[k]
  BY DEF After
<1>4. o.disk \in {disk, After(chain, k)} /\ (k = 0 => o.disk = disk)
  BY <1>1, <1>3
<1> QED  BY <1>1, <1>2, <1>3, <1>4

\* addPhotos()
LEMMA AddPhotosLeads ==
    ASSUME Sane, NEW d, IsDelta(d), AddPhotos(d)
    PROVE  LET id == NextId(db.photos)
               c == Stored(Inserted(db, id), id, d)
           IN  id \in Photos /\ (Back \/ (Consistent(c) /\ Leads(c)))
<1> DEFINE id == NextId(db.photos)
           chain == <<Inserted(db, id)>> \o StoreData(Inserted(db, id), id, d)
<1>1. PICK o \in InTransaction(chain) : id \in Photos /\ Becomes(o)
  BY DEF AddPhotos, Inserted
<1> HIDE DEF id
<1>2. db \in Contents
  BY DEF Sane, Good
<1>3. /\ chain \in Seq(Contents) /\ Len(chain) = 6
      /\ Last(chain) = Stored(Inserted(db, id), id, d)
  BY <1>1, <1>2, AddPhotosChain
<1> HIDE DEF chain
<1>4. Last(chain) = chain[Len(chain)] /\ Len(chain) \in 1 .. Len(chain)
  BY <1>3 DEF Last
<1>5. Back \/ ((\A i \in 1 .. Len(chain) : Consistent(chain[i])) /\ Leads(Last(chain)))
  BY <1>1, <1>3, TransactionLeads
<1> QED  BY <1>1, <1>3, <1>4, <1>5 DEF id

\* update(): w are the contents between the photos.
LEMMA UpdateLeads ==
    ASSUME Sane, NEW photos \in Seq(Photos), NEW d, IsDelta(d), Update(photos, d)
    PROVE  \/ Back
           \/ \E w : /\ w \in [0 .. Len(photos) -> Contents]
                     /\ w[0] = db
                     /\ \A k \in 1 .. Len(photos) : w[k] = Stored(w[k - 1], photos[k], d)
                     /\ \A k \in 0 .. Len(photos) : Consistent(w[k])
                     /\ Leads(w[Len(photos)])
<1> DEFINE chain == StoreAll(db, photos, d)
<1>1. PICK o \in InTransaction(chain) : Becomes(o)
  BY DEF Update
<1>2. db \in Contents /\ photos \in Seq(Nat)
  BY PhotosAreNumbers, SeqMonotonic DEF Sane, Good
<1>3. StageOK(chain, db) /\ \E w : Passes(w, chain, db, photos, d)
  BY <1>2, StoreAllChain
<1> HIDE DEF chain
<1>4. chain \in Seq(Contents) /\ Len(chain) # 0
  BY <1>3 DEF StageOK
<1>5. Back \/ ((\A i \in 1 .. Len(chain) : Consistent(chain[i])) /\ Leads(Last(chain)))
  BY <1>1, <1>4, TransactionLeads
<1>6. PICK w : Passes(w, chain, db, photos, d)
  BY <1>3
<1> QED  BY <1>5, <1>6 DEF Passes

\* addGroup(): the group may be there without its entry in the log.
LEMMA AddGroupLeads ==
    ASSUME Sane, NEW p \in Nat, AddGroup(p)
    PROVE  LET id == NextId({g.id : g \in db.groups})
           IN  /\ id \in Groups
               /\ \/ Stays
                  \/ Back
                  \/ /\ Consistent(GroupInserted(db, id, p))
                     /\ \/ Leads(GroupInserted(db, id, p))
                        \/ Leads(GroupNoted(db, id, p))
<1> DEFINE id == NextId({g.id : g \in db.groups})
           chain == <<GroupInserted(db, id, p), GroupNoted(db, id, p)>>
<1>1. PICK o \in Autocommit(chain) :
         /\ id \in Groups
         /\ \/ o.done # 1 /\ Becomes(o)
            \/ o.done = 1 /\ Restarts(o.disk)
  BY DEF AddGroup, GroupInserted, GroupNoted
<1> HIDE DEF id
<1>2. db \in Contents /\ (~ open => db = disk)
  BY DEF Sane, Good
<1>3. chain \in Seq(Contents) /\ Len(chain) = 2
      /\ chain[1] = GroupInserted(db, id, p) /\ chain[2] = GroupNoted(db, id, p)
  <2>1. id \in Groups
    BY <1>1
  <2>2. GroupInserted(db, id, p) \in Contents /\ GroupNoted(db, id, p) \in Contents
    BY <1>2, <2>1, AddGroupChain
  <2> QED  BY <2>2
<1> HIDE DEF chain
<1>4. PICK k \in 0 .. Len(chain) :
         /\ \A i \in 1 .. k : Consistent(chain[i])
         /\ o.done = k
         /\ o.db = (IF k = 0 THEN db ELSE chain[k])
         /\ k = 0 => o.disk = disk
         /\ o.disk \in {disk, IF k = 0 THEN db ELSE chain[k]}
  BY <1>2, <1>3, AutocommitLeads
<1>5. k = 0 \/ k = 1 \/ k = 2
  BY <1>3
<1>6. CASE k = 0
  <2>1. Becomes(o) /\ o.db = db /\ o.disk = disk
    BY <1>1, <1>4, <1>6
  <2> QED  BY <1>1, <2>1 DEF Becomes, Stays, id
<1>7. CASE k = 1
  <2>1. Restarts(o.disk) /\ o.disk \in {disk, chain[1]} /\ Consistent(chain[1])
    BY <1>1, <1>4, <1>7
  <2>2. db' = o.disk /\ disk' = o.disk
    BY <2>1 DEF Restarts
  <2> QED  BY <1>1, <1>3, <2>1, <2>2 DEF Back, Leads, id
<1>8. CASE k = 2
  <2>1. Becomes(o) /\ o.db = chain[2] /\ o.disk \in {disk, chain[2]} /\ Consistent(chain[1])
    BY <1>1, <1>4, <1>8
  <2>2. db' = o.db /\ disk' = o.disk
    BY <2>1 DEF Becomes
  <2> QED  BY <1>1, <1>3, <2>1, <2>2 DEF Leads, id
<1> QED  BY <1>5, <1>6, <1>7, <1>8

\* removePhoto()
LEMMA RemovePhotoLeads ==
    ASSUME Sane, NEW p, RemovePhoto(p)
    PROVE  Back \/ (Consistent(Last(RemovalChain(p))) /\ Leads(Last(RemovalChain(p))))
<1> DEFINE chain == RemovalChain(p)
<1>1. PICK o \in InTransaction(chain) : Becomes(o)
  BY DEF RemovePhoto
<1>2. db \in Contents
  BY DEF Sane, Good
<1>3. chain \in Seq(Contents) /\ Len(chain) = 7 /\ chain[7] = Last(chain)
  BY <1>2, RemovalTables
<1> HIDE DEF chain
<1>4. Back \/ ((\A i \in 1 .. Len(chain) : Consistent(chain[i])) /\ Leads(Last(chain)))
  BY <1>1, <1>3, TransactionLeads
<1>5. 7 \in 1 .. Len(chain)
  BY <1>3
<1>6. Back \/ (Consistent(Last(chain)) /\ Leads(Last(chain)))
  BY <1>3, <1>4, <1>5
<1> QED  BY <1>6 DEF chain

\* A statement of its own.
LEMMA StatementLeads ==
    ASSUME Sane, NEW c \in Contents, NEW chain, chain \in {<<>>, <<c>>},
           NEW o \in Autocommit(chain), Becomes(o)
    PROVE  Stays \/ (Consistent(c) /\ Leads(c))
<1>1. chain \in Seq(Contents) /\ Len(chain) \in {0, 1} /\ (Len(chain) = 1 => chain[1] = c)
  <2>1. CASE chain = <<>>
    BY <2>1
  <2>2. CASE chain = <<c>>
    BY <2>2
  <2> QED  BY <2>1, <2>2
<1>2. ~ open => db = disk
  BY DEF Sane
<1>3. PICK k \in 0 .. Len(chain) :
         /\ \A i \in 1 .. k : Consistent(chain[i])
         /\ o.done = k
         /\ o.db = (IF k = 0 THEN db ELSE chain[k])
         /\ k = 0 => o.disk = disk
         /\ o.disk \in {disk, IF k = 0 THEN db ELSE chain[k]}
  BY <1>1, <1>2, AutocommitLeads
<1>4. db' = o.db /\ disk' = o.disk
  BY DEF Becomes
<1>5. CASE k = 0
  <2>1. o.db = db /\ o.disk = disk
    BY <1>3, <1>5
  <2> QED  BY <1>4, <2>1 DEF Stays
<1>6. CASE k = 1
  <2>1. Len(chain) = 1 /\ 1 \in 1 .. 1
    BY <1>1, <1>3, <1>6
  <2> QED  BY <1>1, <1>3, <1>4, <1>6, <2>1 DEF Leads
<1> QED  BY <1>1, <1>3, <1>5, <1>6

\* markStagedAsReviewed() and set()
LEMMA StatementsLead ==
    ASSUME Sane
    PROVE  /\ MarkStagedAsReviewed => Stays \/ Leads(Reviewed(db))
           /\ \A p \in Nat : SetFlag(p) =>
                 LET c == UpdateOrInsert(db, "generalFlags", [photo |-> p])
                 IN  Stays \/ (Consistent(c) /\ Leads(c))
<1>1. db \in Contents
  BY DEF Sane, Good
<1>2. ASSUME MarkStagedAsReviewed  PROVE Stays \/ Leads(Reviewed(db))
  <2> DEFINE chain == IF Reviewed(db) = db THEN <<>> ELSE <<Reviewed(db)>>
  <2>1. PICK o \in Autocommit(chain) : Becomes(o)
    BY <1>2 DEF MarkStagedAsReviewed, Reviewed
  <2>2. chain \in {<<>>, <<Reviewed(db)>>} /\ Reviewed(db) \in Contents
    BY <1>1, ReviewedTables
  <2> HIDE DEF chain
  <2> QED  BY <2>1, <2>2, StatementLeads
<1>3. ASSUME NEW p \in Nat, SetFlag(p)
      PROVE  LET c == UpdateOrInsert(db, "generalFlags", [photo |-> p])
             IN  Stays \/ (Consistent(c) /\ Leads(c))
  <2> DEFINE c == UpdateOrInsert(db, "generalFlags", [photo |-> p])
             chain == <<c>>
  <2>1. PICK o \in Autocommit(chain) : Becomes(o)
    BY <1>3 DEF SetFlag
  <2>2. c \in Contents
    BY <1>1, MarkedTables
  <2> HIDE DEF c
  <2>3. chain \in {<<>>, <<c>>}
    OBVIOUS
  <2> HIDE DEF chain
  <2>4. Stays \/ (Consistent(c) /\ Leads(c))
    BY <2>1, <2>2, <2>3, StatementLeads
  <2> QED  BY <2>4 DEF c
<1> QED  BY <1>2, <1>3

\* removeGroup()
LEMMA RemoveGroupLeads ==
    ASSUME Sane, NEW g \in Groups, RemoveGroup(g)
    PROVE  \/ Back
           \/ \E row, k :
                 /\ row \in db.groups /\ row.id = g
                 /\ k \in 0 .. Len(Dissolution(db, g, row))
                 /\ Leads(Logged(GroupRemoved(db, g, row), SubSeq(Dissolution(db, g, row), 1, k)))
<1>1. db \in Contents
  BY DEF Sane, Good
<1>2. GoesBack \/ \E row, k : Dissolves(g, row, k)
  BY <1>1, RemoveGroupOutcomes
<1>3. CASE GoesBack
  BY <1>3 DEF GoesBack, Back
<1>4. CASE \E row, k : Dissolves(g, row, k)
  BY <1>4 DEF Dissolves, Leads
<1> QED  BY <1>2, <1>3, <1>4

-----------------------------------------------------------------------------
(* What was reported as added *)

\* Photos reported as added are in the tables, and committed.
Granted == granted \subseteq db.photos \cap disk.photos

\* A call that comes to a content with the photos of S leaves them on the disk too.
LEMMA PhotosRemain ==
    ASSUME Granted, NEW S, S \subseteq granted,
           Stays \/ Back \/ \E c : Leads(c) /\ S \subseteq c.photos
    PROVE  S \subseteq db'.photos \cap disk'.photos
<1>1. S \subseteq db.photos /\ S \subseteq disk.photos
  BY DEF Granted
<1>2. CASE Stays \/ Back
  BY <1>1, <1>2 DEF Stays, Back
<1>3. CASE \E c : Leads(c) /\ S \subseteq c.photos
  <2>1. PICK c : Leads(c) /\ S \subseteq c.photos
    BY <1>3
  <2>2. db' = c /\ disk' \in {disk, c}
    BY <2>1 DEF Leads
  <2> QED  BY <1>1, <2>1, <2>2
<1> QED  BY <1>2, <1>3

\* addPhotos(): what is reported was committed.
LEMMA AddPhotosGrants ==
    ASSUME Sane, Granted, NEW d, IsDelta(d), AddPhotos(d)
    PROVE  Granted'
<1> DEFINE id == NextId(db.photos)
           chain == <<Inserted(db, id)>> \o StoreData(Inserted(db, id), id, d)
           given(o) == IF o.done > 0 THEN id ELSE NoId
<1>1. PICK o \in InTransaction(chain) :
         /\ id \in Photos
         /\ Becomes(o)
         /\ granted' = (granted \cup (IF o.ok THEN {given(o)} \ {NoId} ELSE {})) \ {}
  BY DEF AddPhotos, Inserted, Reports
<1>2. db \in Contents
  BY DEF Sane, Good
<1> HIDE DEF id
<1>3. /\ chain \in Seq(Contents) /\ Len(chain) = 6
      /\ \A i \in 1 .. 6 : chain[i].photos = db.photos \cup {id}
  BY <1>1, <1>2, AddPhotosChain
<1> HIDE DEF chain
<1>4. Last(chain).photos = db.photos \cup {id}
  <2>1. Last(chain) = chain[6]
    BY <1>3 DEF Last
  <2> QED  BY <1>3, <2>1
<1>5. Back \/ Leads(Last(chain))
  BY <1>1, <1>3, TransactionLeads
<1>6. granted \subseteq db'.photos \cap disk'.photos
  <2>1. granted \subseteq Last(chain).photos
    BY <1>4 DEF Granted
  <2> QED  BY <1>5, <2>1, PhotosRemain
<1>7. CASE ~ o.ok
  BY <1>1, <1>6, <1>7 DEF Granted
<1>8. CASE o.ok
  <2>1. o \in Committed(chain)
    <3>1. ASSUME NEW done, NEW cost, o = RolledBack(done, cost)  PROVE FALSE
      <4>1. o.ok = FALSE
        BY <3>1 DEF RolledBack
      <4> QED  BY <1>8, <4>1
    <3>2. ASSUME o \in CommitFailed(chain)  PROVE FALSE
      <4>1. o.ok = FALSE
        BY <3>2 DEF CommitFailed
      <4> QED  BY <1>8, <4>1
    <3> QED  BY <1>3, <3>1, <3>2, TransactionOutcomes
  <2>2. db' = Last(chain) /\ disk' = Last(chain)
    BY <1>1, <2>1 DEF Committed, Becomes
  <2>3. granted' \subseteq granted \cup {id}
    BY <1>1
  <2> QED  BY <1>4, <1>6, <2>2, <2>3 DEF Granted
<1> QED  BY <1>7, <1>8

\* update() adds and removes no photo.
LEMMA UpdateGrants ==
    ASSUME Sane, Granted, NEW photos \in Seq(Photos), NEW d, IsDelta(d), Update(photos, d)
    PROVE  Granted'
<1> DEFINE chain == StoreAll(db, photos, d)
<1>1. PICK o \in InTransaction(chain) : Becomes(o) /\ granted' = (granted \cup {}) \ {}
  <2>1. PICK o \in InTransaction(chain) :
           Becomes(o) /\ granted' = (granted \cup (IF o.ok THEN {} ELSE {})) \ {}
    BY DEF Update, Reports
  <2> QED  BY <2>1
<1>2. db \in Contents /\ photos \in Seq(Nat)
  BY PhotosAreNumbers, SeqMonotonic DEF Sane, Good
<1>3. StageOK(chain, db)
  BY <1>2, StoreAllChain
<1> HIDE DEF chain
<1>4. chain \in Seq(Contents) /\ Last(chain).photos = db.photos
  <2>1. chain \in Seq(Contents) /\ Len(chain) # 0
    BY <1>3 DEF StageOK
  <2>2. Last(chain) = chain[Len(chain)] /\ Len(chain) \in 1 .. Len(chain)
    BY <2>1, LastOf
  <2> QED  BY <1>3, <2>1, <2>2 DEF StageOK
<1>5. Back \/ Leads(Last(chain))
  BY <1>1, <1>4, TransactionLeads
<1>6. granted \subseteq Last(chain).photos
  BY <1>4 DEF Granted
<1>7. granted \subseteq db'.photos \cap disk'.photos
  BY <1>5, <1>6, PhotosRemain
<1> QED  BY <1>1, <1>7 DEF Granted

\* addGroup() adds and removes no photo, also when the program ends with it.
LEMMA AddGroupGrants ==
    ASSUME Sane, Granted, NEW p \in Nat, AddGroup(p)
    PROVE  Granted'
<1> DEFINE id == NextId({g.id : g \in db.groups})
           c1 == GroupInserted(db, id, p)
           c2 == GroupNoted(db, id, p)
<1>1. id \in Groups /\ (Stays \/ Back \/ Leads(c1) \/ Leads(c2))
  BY AddGroupLeads
<1>2. \/ granted' = granted
      \/ granted' = granted \cup db'.photos /\ disk' = db'
  <2>1. \/ \E o : granted' = (granted \cup (IF o.ok THEN {} ELSE {})) \ {}
        \/ \E c : granted' = granted \cup c.photos /\ db' = c /\ disk' = c
    BY DEF AddGroup, Reports, Restarts
  <2> QED  BY <2>1
<1> HIDE DEF id
<1>3. db \in Contents
  BY DEF Sane, Good
<1>4. c1.photos = db.photos /\ c2.photos = db.photos
  <2>1. SameBut(db, c1, "groups") /\ SameBut(c1, c2, "log")
    BY <1>1, <1>3, AddGroupChain
  <2> HIDE DEF c1, c2
  <2> QED  BY <2>1 DEF SameBut
<1> HIDE DEF c1, c2
<1>5. granted \subseteq c1.photos /\ granted \subseteq c2.photos
  BY <1>4 DEF Granted
<1>6. granted \subseteq db'.photos \cap disk'.photos
  BY <1>1, <1>5, PhotosRemain
<1> QED  BY <1>2, <1>6 DEF Granted

\* removeGroup() adds and removes no photo.
LEMMA RemoveGroupGrants ==
    ASSUME Sane, Granted, NEW g \in Groups, RemoveGroup(g)
    PROVE  Granted'
<1>1. granted' = granted
  <2>1. \E ok, modified : Reports("removeGroup", ok, {}, {}, modified)
    BY DEF RemoveGroup
  <2>2. \E ok : granted' = (granted \cup (IF ok THEN {} ELSE {})) \ {}
    BY <2>1 DEF Reports
  <2> QED  BY <2>2
<1>2. Good(db) /\ db \in Contents
  BY DEF Sane, Good
<1>3. Back \/ \E c : Leads(c) /\ granted \subseteq c.photos
  <2>1. CASE GoesBack
    BY <2>1 DEF GoesBack, Back
  <2>2. CASE \E row, k : Dissolves(g, row, k)
    <3>1. PICK row, k : Dissolves(g, row, k)
      BY <2>2
    <3>2. db'.photos = db.photos
      BY <1>2, <3>1, DissolutionConsistent
    <3>3. Leads(db')
      BY <3>1 DEF Dissolves, Leads
    <3> QED  BY <3>2, <3>3 DEF Granted
  <2> QED  BY <1>2, <2>1, <2>2, RemoveGroupOutcomes
<1>4. granted \subseteq db'.photos \cap disk'.photos
  BY <1>3, PhotosRemain
<1> QED  BY <1>1, <1>4 DEF Granted

\* removePhoto(): the photo is not counted on any more, removed or not.
LEMMA RemovePhotoGrants ==
    ASSUME Sane, Granted, NEW p, RemovePhoto(p)
    PROVE  Granted'
<1> DEFINE c == Last(RemovalChain(p))
<1>1. granted' = granted \ ({p} \cap db.photos)
  <2>1. \E ok : granted' = (granted \cup (IF ok THEN {} ELSE {})) \ ({p} \cap db.photos)
    BY DEF RemovePhoto, Reports
  <2> QED  BY <2>1
<1>2. granted' \subseteq granted /\ p \notin granted'
  BY <1>1 DEF Granted
<1>3. Back \/ Leads(c)
  BY RemovePhotoLeads
<1>4. c.photos = db.photos \ {p}
  BY RemovalTables DEF Sane, Good
<1> HIDE DEF c
<1>5. granted' \subseteq c.photos
  BY <1>2, <1>4 DEF Granted
<1>6. granted' \subseteq db'.photos \cap disk'.photos
  BY <1>2, <1>3, <1>5, PhotosRemain
<1> QED  BY <1>6 DEF Granted

\* markStagedAsReviewed() and set() add and remove no photo.
LEMMA StatementsGrant ==
    ASSUME Sane, Granted, MarkStagedAsReviewed \/ \E p \in Nat : SetFlag(p)
    PROVE  Granted'
<1>1. granted' = granted
  <2>1. granted' = (granted \cup (IF TRUE THEN {} ELSE {})) \ {}
    BY DEF MarkStagedAsReviewed, SetFlag, Reports
  <2> QED  BY <2>1
<1>2. db \in Contents
  BY DEF Sane, Good
<1>3. Stays \/ \E c : Leads(c) /\ granted \subseteq c.photos
  <2>1. CASE MarkStagedAsReviewed
    <3>1. Reviewed(db).photos = db.photos
      BY <1>2, ReviewedTables DEF SameBut
    <3>2. granted \subseteq Reviewed(db).photos
      BY <3>1 DEF Granted
    <3> QED  BY <2>1, <3>2, StatementsLead
  <2>2. CASE \E p \in Nat : SetFlag(p)
    <3>1. PICK p \in Nat : SetFlag(p)
      BY <2>2
    <3> DEFINE c == UpdateOrInsert(db, "generalFlags", [photo |-> p])
    <3>2. Stays \/ Leads(c)
      BY <3>1, StatementsLead
    <3>3. c.photos = db.photos
      BY <1>2, MarkedTables DEF SameBut
    <3> HIDE DEF c
    <3>4. granted \subseteq c.photos
      BY <3>3 DEF Granted
    <3> QED  BY <3>2, <3>4
  <2> QED  BY <2>1, <2>2
<1>4. granted \subseteq db'.photos \cap disk'.photos
  BY <1>3, PhotosRemain
<1> QED  BY <1>1, <1>4 DEF Granted

\* The calls of a task keep what was reported as added.
LEMMA PerformGrants ==
    ASSUME Sane, TasksOK, Granted, Perform
    PROVE  Granted'
<1>1. Photos \subseteq Nat /\ db \in Contents /\ made \in MadeType /\ NoId \in Nat
  BY PhotosAreNumbers DEF Sane, Good, MadeType
<1>2. CASE Scan
  <2>1. AddPhotos([flags |-> {"StagingArea"}])
    BY <1>2 DEF Scan
  <2> QED  BY <2>1, AddPhotosGrants, OtherDeltas
<1>3. CASE Edit
  <2>1. task.photos \in Seq(Photos) /\ IsDelta(task.edit) /\ Update(task.photos, task.edit)
    BY <1>3, TaskFields, EditsAreDeltas DEF Edit
  <2> QED  BY <2>1, UpdateGrants
<1>4. CASE Review
  BY <1>4, StatementsGrant DEF Review
<1>5. CASE MarkBroken
  <2>1. task.photo \in Nat /\ SetFlag(task.photo)
    BY <1>1, <1>5, TaskFields DEF MarkBroken
  <2> QED  BY <2>1, StatementsGrant
<1>6. CASE GroupRepresentative
  <2> DEFINE first == Head(task.photos)
             d == [tags |-> GetTags(db, first), flags |-> GetFlags(db, first) \cap {"StagingArea"}]
  <2>1. AddPhotos(d)
    BY <1>6 DEF GroupRepresentative
  <2>2. IsDelta(d)
    BY <1>1, OtherDeltas
  <2> HIDE DEF d
  <2> QED  BY <2>1, <2>2, AddPhotosGrants
<1>7. CASE GroupCreate
  <2>1. AddGroup(made.photo) /\ made.photo \in Nat
    BY <1>1, <1>7 DEF GroupCreate, MadeType
  <2> QED  BY <2>1, AddGroupGrants
<1>8. CASE GroupJoin
  <2> DEFINE d == [group |-> IF made.group = NoId THEN <<>> ELSE <<made.group, "Member">>]
  <2>1. task.photos \in Seq(Photos) /\ Update(task.photos, d)
    BY <1>8, TaskFields DEF GroupJoin
  <2>2. made.group \in Groups \cup {NoId}
    BY <1>1 DEF MadeType
  <2>3. IsDelta(d)
    BY <2>2, OtherDeltas
  <2> HIDE DEF d
  <2> QED  BY <2>1, <2>3, UpdateGrants
<1>9. CASE UngroupDissolve
  <2>1. task.group \in Groups /\ RemoveGroup(task.group)
    BY <1>9, TaskFields DEF UngroupDissolve
  <2> QED  BY <2>1, RemoveGroupGrants
<1>10. CASE UngroupRemove
  BY <1>10, RemovePhotoGrants DEF UngroupRemove
<1> QED
  BY <1>2, <1>3, <1>4, <1>5, <1>6, <1>7, <1>8, <1>9, <1>10 DEF Perform

\* Together.
GrantedInv == SaneInv /\ Granted

\* The strengthened invariant holds at the start.
LEMMA InitGrants == Init => GrantedInv
<1> SUFFICES ASSUME Init  PROVE GrantedInv
  OBVIOUS
<1>1. Granted
  BY DEF Init, Granted
<1> QED  BY <1>1, InitIsSane DEF GrantedInv

\* Every step keeps the strengthened invariant.
LEMMA StepGrants == GrantedInv /\ [Next]_vars => GrantedInv'
<1> SUFFICES ASSUME SaneInv, Granted, [Next]_vars  PROVE Granted'
  BY StepIsSane DEF GrantedInv
<1>1. CASE UNCHANGED vars
  BY <1>1 DEF vars, content, Granted
<1>2. CASE Post \/ Take
  BY <1>2 DEF Post, Take, content, Granted
<1>3. CASE Crash
  BY <1>3 DEF Crash, Restarts, Granted
<1>4. CASE Perform
  BY <1>4, PerformGrants DEF SaneInv
<1> QED  BY <1>1, <1>2, <1>3, <1>4 DEF Next

\* A photo that addPhotos() reported as added is in the collection and on the
\* disk until its removal is signalled: for every batch, and whatever fails.
THEOREM AnnouncedAlwaysExist == Spec => []AnnouncedExist
<1>1. GrantedInv => AnnouncedExist
  BY DEF GrantedInv, Granted, AnnouncedExist
<1> QED  BY <1>1, InitGrants, StepGrants, PTL DEF Spec

\* The tables keep their columns, ranges and foreign keys, whatever fails.
THEOREM TypeCorrect == Spec => []TypeOK
<1>1. GrantedInv => TypeOK
  BY DEF GrantedInv, SaneInv, Sane, TasksOK, Good, Granted, Contents, TypeOK
<1> QED  BY <1>1, InitGrants, StepGrants, PTL DEF Spec

-----------------------------------------------------------------------------
(* The log and the last value it tells *)

\* j is the last of the places of the entries about the field before a place.
LastAbout(log, p, field, place, j) ==
    /\ j \in About(log, p, field) /\ j < place
    /\ \A i \in About(log, p, field) : i < place => i <= j

\* Told() is the new value of the last entry, nothing when there is none.
LEMMA ToldIs ==
    ASSUME NEW log \in Seq(Entries), NEW p, NEW field, NEW place \in Nat
    PROVE  /\ (\A i \in About(log, p, field) : ~ (i < place)) => Told(log, p, field, place) = <<>>
           /\ \A j : LastAbout(log, p, field, place, j) => Told(log, p, field, place) = log[j].new
           /\ \/ \A i \in About(log, p, field) : ~ (i < place)
              \/ \E j : LastAbout(log, p, field, place, j)
<1> DEFINE earlier == {i \in About(log, p, field) : i < place}
           top == CHOOSE i \in earlier : \A j \in earlier : j <= i
<1>1. Told(log, p, field, place) = IF earlier = {} THEN <<>> ELSE log[top].new
  BY DEF Told
<1>2. earlier \subseteq Nat /\ Len(log) \in Nat /\ About(log, p, field) \subseteq 1 .. Len(log)
  BY DEF About
<1>3. ASSUME NEW j, LastAbout(log, p, field, place, j)
      PROVE  Told(log, p, field, place) = log[j].new
  <2>1. j \in earlier /\ \A i \in earlier : i <= j
    BY <1>3 DEF LastAbout
  <2>2. top \in earlier /\ \A i \in earlier : i <= top
    BY <2>1
  <2> HIDE DEF top, earlier
  <2>3. top = j /\ earlier # {}
    BY <1>2, <2>1, <2>2
  <2> QED  BY <1>1, <2>3
<1>4. CASE earlier = {}
  BY <1>1, <1>3, <1>4
<1>5. CASE earlier # {}
  <2> DEFINE above == {place - i : i \in earlier}
  <2>1. above # {} /\ above \subseteq Nat
    BY <1>2, <1>5
  <2>2. PICK m \in above : \A n \in above : m <= n
    <3> HIDE DEF above
    <3> QED  BY <2>1, LeastNumber
  <2>3. PICK j \in earlier : m = place - j
    BY <2>2
  <2>4. ASSUME NEW i \in earlier  PROVE i <= j
    <3>1. m <= place - i
      BY <2>2
    <3> QED  BY <1>2, <2>3, <3>1
  <2>5. LastAbout(log, p, field, place, j)
    BY <2>4 DEF LastAbout
  <2> QED  BY <1>1, <1>3, <1>5, <2>5
<1> QED  BY <1>4, <1>5

\* The entries of two logs before two places match: h gives for each entry of
\* one its place in the other.
Matches(h, log, place, other, there, p, field) ==
    /\ \A i \in About(log, p, field) :
          i < place => /\ h[i] \in About(other, p, field) /\ h[i] < there
                       /\ other[h[i]].new = log[i].new
    /\ \A i, j \in About(log, p, field) : i < place /\ j < place /\ i <= j => h[i] <= h[j]
    /\ \A k \in About(other, p, field) :
          k < there => \E i \in About(log, p, field) : i < place /\ h[i] = k

\* They tell the same then.
LEMMA ToldMatches ==
    ASSUME NEW log \in Seq(Entries), NEW other \in Seq(Entries), NEW p, NEW field,
           NEW place \in Nat, NEW there \in Nat,
           NEW h, Matches(h, log, place, other, there, p, field)
    PROVE  Told(other, p, field, there) = Told(log, p, field, place)
<1>1. CASE \A i \in About(log, p, field) : ~ (i < place)
  <2>1. \A k \in About(other, p, field) : ~ (k < there)
    BY <1>1 DEF Matches
  <2> QED  BY <1>1, <2>1, ToldIs
<1>2. CASE \E j : LastAbout(log, p, field, place, j)
  <2>1. PICK j : LastAbout(log, p, field, place, j)
    BY <1>2
  <2>2. /\ j \in About(log, p, field) /\ j < place
        /\ \A i \in About(log, p, field) : i < place => i <= j
    BY <2>1 DEF LastAbout
  <2>3. h[j] \in About(other, p, field) /\ h[j] < there /\ other[h[j]].new = log[j].new
    BY <2>2 DEF Matches
  <2>4. ASSUME NEW k \in About(other, p, field), k < there  PROVE k <= h[j]
    <3>1. PICK i \in About(log, p, field) : i < place /\ h[i] = k
      BY <2>4 DEF Matches
    <3>2. i <= j
      BY <2>2, <3>1
    <3> QED  BY <2>2, <3>1, <3>2 DEF Matches
  <2>5. LastAbout(other, p, field, there, h[j])
    BY <2>3, <2>4 DEF LastAbout
  <2>6. Told(log, p, field, place) = log[j].new
    BY <2>1, ToldIs
  <2>7. Told(other, p, field, there) = other[h[j]].new
    BY <2>5, ToldIs
  <2> QED  BY <2>3, <2>6, <2>7
<1> QED  BY <1>1, <1>2, ToldIs

\* The whole log is the log with some entries at its end.
Extends(whole, log, es, p, field) ==
    /\ whole \in Seq(Entries) /\ Len(whole) = Len(log) + Len(es)
    /\ About(log, p, field) \subseteq 1 .. Len(log)
    /\ \A i \in 1 .. Len(log) : /\ whole[i] = log[i]
                                /\ i \in About(whole, p, field) <=> i \in About(log, p, field)
    /\ \A k \in 1 .. Len(es) : /\ whole[Len(log) + k] = es[k]
                               /\ Len(log) + k \in About(whole, p, field)
                                    <=> k \in About(es, p, field)
    /\ \A i \in About(whole, p, field) :
          i \in 1 .. Len(log) \/ \E k \in 1 .. Len(es) : i = Len(log) + k
    /\ \A place \in 0 .. Len(log) + 1 :
          Told(whole, p, field, place) = Told(log, p, field, place)

\* What the log has about a field after more entries.
LEMMA AppendedEntries ==
    ASSUME NEW log \in Seq(Entries), NEW es \in Seq(Entries), NEW p, NEW field
    PROVE  Extends(log \o es, log, es, p, field)
<1> DEFINE whole == log \o es
<1>1. Len(log) \in Nat /\ Len(es) \in Nat /\ DOMAIN log = 1 .. Len(log) /\ DOMAIN es = 1 .. Len(es)
  OBVIOUS
<1>2. /\ whole \in Seq(Entries) /\ Len(whole) = Len(log) + Len(es)
      /\ DOMAIN whole = 1 .. Len(log) + Len(es)
      /\ \A i \in 1 .. Len(log) + Len(es) :
            whole[i] = IF i <= Len(log) THEN log[i] ELSE es[i - Len(log)]
  <2>1. /\ whole \in Seq(Entries) /\ Len(whole) = Len(log) + Len(es)
        /\ \A i \in 1 .. Len(log) + Len(es) :
              whole[i] = IF i <= Len(log) THEN log[i] ELSE es[i - Len(log)]
    BY ConcatProperties
  <2> QED  BY <2>1
<1> HIDE DEF whole
<1>3. ASSUME NEW i \in 1 .. Len(log)
      PROVE  /\ whole[i] = log[i]
             /\ i \in About(whole, p, field) <=> i \in About(log, p, field)
  <2>1. i \in 1 .. Len(log) + Len(es) /\ i <= Len(log)
    BY <1>1
  <2>2. whole[i] = log[i]
    BY <1>2, <2>1
  <2> QED  BY <1>1, <1>2, <2>1, <2>2 DEF About
<1>4. ASSUME NEW k \in 1 .. Len(es)
      PROVE  /\ whole[Len(log) + k] = es[k]
             /\ Len(log) + k \in About(whole, p, field) <=> k \in About(es, p, field)
  <2>1. /\ Len(log) + k \in 1 .. Len(log) + Len(es) /\ ~ (Len(log) + k <= Len(log))
        /\ (Len(log) + k) - Len(log) = k
    BY <1>1
  <2>2. whole[Len(log) + k] = es[k]
    BY <1>2, <2>1
  <2> QED  BY <1>1, <1>2, <2>1, <2>2 DEF About
<1>5. ASSUME NEW i \in About(whole, p, field)
      PROVE  i \in 1 .. Len(log) \/ \E k \in 1 .. Len(es) : i = Len(log) + k
  <2>1. i \in 1 .. Len(log) + Len(es)
    BY <1>2 DEF About
  <2>2. i \in 1 .. Len(log) \/ (i - Len(log) \in 1 .. Len(es) /\ i = Len(log) + (i - Len(log)))
    BY <1>1, <2>1
  <2> QED  BY <2>2
<1>6. About(log, p, field) \subseteq 1 .. Len(log)
  BY <1>1 DEF About
<1>7. ASSUME NEW place \in 0 .. Len(log) + 1
      PROVE  Told(whole, p, field, place) = Told(log, p, field, place)
  <2> DEFINE h == [i \in 1 .. Len(log) |-> i]
  <2>1. place \in Nat
    BY <1>1
  <2>2. \A i \in About(log, p, field) :
           i < place => /\ h[i] \in About(whole, p, field) /\ h[i] < place
                        /\ whole[h[i]].new = log[i].new
    BY <1>3, <1>6
  <2>3. \A i, j \in About(log, p, field) : i < place /\ j < place /\ i <= j => h[i] <= h[j]
    BY <1>6
  <2>4. \A k \in About(whole, p, field) :
           k < place => \E i \in About(log, p, field) : i < place /\ h[i] = k
    <3> SUFFICES ASSUME NEW k \in About(whole, p, field), k < place
                 PROVE  k \in About(log, p, field) /\ k \in 1 .. Len(log)
      OBVIOUS
    <3>1. k \in 1 .. Len(log)
      BY <1>1, <1>5
    <3> QED  BY <1>3, <3>1
  <2> HIDE DEF h
  <2>5. Matches(h, log, place, whole, place, p, field)
    BY <2>2, <2>3, <2>4 DEF Matches
  <2> QED  BY <1>2, <2>1, <2>5, ToldMatches
<1>8. Extends(whole, log, es, p, field)
  BY <1>2, <1>3, <1>4, <1>5, <1>6, <1>7 DEF Extends
<1> QED  BY <1>8 DEF whole

\* Entries about other things change nothing.
LEMMA TellsStill ==
    ASSUME NEW log \in Seq(Entries), NEW es \in Seq(Entries), NEW p, NEW field, NEW v,
           Tells(log, p, field, v), About(es, p, field) = {}
    PROVE  Tells(log \o es, p, field, v)
<1> DEFINE whole == log \o es
<1>1. /\ whole \in Seq(Entries) /\ Len(whole) = Len(log) + Len(es)
      /\ About(log, p, field) \subseteq 1 .. Len(log)
      /\ \A i \in 1 .. Len(log) : whole[i] = log[i]
      /\ \A place \in 0 .. Len(log) + 1 :
            Told(whole, p, field, place) = Told(log, p, field, place)
  BY AppendedEntries DEF Extends
<1>2. About(whole, p, field) = About(log, p, field)
  <2>1. Extends(whole, log, es, p, field)
    BY AppendedEntries
  <2> HIDE DEF whole
  <2> QED  BY <2>1 DEF Extends
<1> HIDE DEF whole
<1>3. Len(log) \in Nat /\ Len(es) \in Nat
  OBVIOUS
<1>4. \A i \in About(whole, p, field) : whole[i].old = Told(whole, p, field, i)
  <2> SUFFICES ASSUME NEW i \in About(log, p, field)  PROVE whole[i].old = Told(whole, p, field, i)
    BY <1>2
  <2>1. i \in 1 .. Len(log) /\ i \in 0 .. Len(log) + 1
    BY <1>1, <1>3
  <2>2. log[i].old = Told(log, p, field, i)
    BY DEF Tells
  <2> QED  BY <1>1, <2>1, <2>2
<1>5. Told(whole, p, field, Len(whole) + 1) = Told(log, p, field, Len(log) + 1)
  <2> DEFINE h == [i \in 1 .. Len(log) |-> i]
             place == Len(log) + 1
             there == Len(whole) + 1
  <2>1. place \in Nat /\ there \in Nat
    BY <1>1, <1>3
  <2>2. \A i \in About(log, p, field) :
           i < place => /\ h[i] \in About(whole, p, field) /\ h[i] < there
                        /\ whole[h[i]].new = log[i].new
    BY <1>1, <1>2, <1>3
  <2>3. \A i, j \in About(log, p, field) : i < place /\ j < place /\ i <= j => h[i] <= h[j]
    BY <1>1
  <2>4. \A k \in About(whole, p, field) :
           k < there => \E i \in About(log, p, field) : i < place /\ h[i] = k
    BY <1>1, <1>2, <1>3
  <2> HIDE DEF h, place, there
  <2>5. Matches(h, log, place, whole, there, p, field)
    BY <2>2, <2>3, <2>4 DEF Matches
  <2>6. Told(whole, p, field, there) = Told(log, p, field, place)
    BY <1>1, <2>1, <2>5, ToldMatches
  <2> QED  BY <2>6 DEF place, there
<1>6. v = Told(whole, p, field, Len(whole) + 1)
  BY <1>5 DEF Tells
<1>7. Tells(whole, p, field, v)
  BY <1>4, <1>6 DEF Tells
<1> QED  BY <1>7 DEF whole

\* One entry, from the value that was told, tells a new one.
LEMMA TellsNext ==
    ASSUME NEW log \in Seq(Entries), NEW es \in Seq(Entries), NEW p, NEW field,
           NEW k \in 1 .. Len(es), About(es, p, field) = {k},
           Tells(log, p, field, es[k].old)
    PROVE  Tells(log \o es, p, field, es[k].new)
<1> DEFINE whole == log \o es
           m == Len(log) + k
<1>1. /\ whole \in Seq(Entries) /\ Len(whole) = Len(log) + Len(es)
      /\ About(log, p, field) \subseteq 1 .. Len(log)
      /\ \A i \in 1 .. Len(log) : whole[i] = log[i]
      /\ \A place \in 0 .. Len(log) + 1 :
            Told(whole, p, field, place) = Told(log, p, field, place)
      /\ whole[m] = es[k] /\ m \in About(whole, p, field)
      /\ \A i \in About(whole, p, field) : i \in About(log, p, field) \/ i = m
      /\ \A i \in About(log, p, field) : i \in About(whole, p, field)
  <2>1. Extends(whole, log, es, p, field)
    BY AppendedEntries
  <2>2. k \in About(es, p, field) /\ \A j \in About(es, p, field) : j = k
    OBVIOUS
  <2> HIDE DEF whole, m
  <2>3. /\ whole \in Seq(Entries) /\ Len(whole) = Len(log) + Len(es)
        /\ About(log, p, field) \subseteq 1 .. Len(log)
        /\ \A i \in 1 .. Len(log) : whole[i] = log[i]
        /\ \A i \in About(log, p, field) : i \in About(whole, p, field)
    BY <2>1 DEF Extends
  <2>4. \A place \in 0 .. Len(log) + 1 :
           Told(whole, p, field, place) = Told(log, p, field, place)
    BY <2>1 DEF Extends
  <2>5. whole[m] = es[k] /\ m \in About(whole, p, field)
    BY <2>1, <2>2 DEF Extends, m
  <2>6. ASSUME NEW i \in About(whole, p, field)  PROVE i \in About(log, p, field) \/ i = m
    <3>1. CASE i \in 1 .. Len(log)
      BY <2>1, <3>1 DEF Extends
    <3>2. ASSUME NEW j \in 1 .. Len(es), i = Len(log) + j  PROVE i = m
      <4>1. j \in About(es, p, field)
        BY <2>1, <3>2 DEF Extends
      <4> QED  BY <2>2, <3>2, <4>1 DEF m
    <3> QED  BY <2>1, <3>1, <3>2 DEF Extends
  <2> QED  BY <2>3, <2>4, <2>5, <2>6
<1>2. \A i \in About(whole, p, field) : i \in About(log, p, field) \/ i = m
  BY <1>1
<1>3. \A i \in About(log, p, field) : i \in About(whole, p, field)
  BY <1>1
<1>4. Len(log) \in Nat /\ Len(es) \in Nat /\ m \in Nat /\ Len(log) < m /\ m < Len(whole) + 1
  BY <1>1
<1> HIDE DEF whole, m
<1>5. Told(whole, p, field, m) = Told(log, p, field, Len(log) + 1)
  <2> DEFINE h == [i \in 1 .. Len(log) |-> i]
             place == Len(log) + 1
  <2>1. place \in Nat /\ m \in Nat
    BY <1>4
  <2>2. \A i \in About(log, p, field) :
           i < place => /\ h[i] \in About(whole, p, field) /\ h[i] < m
                        /\ whole[h[i]].new = log[i].new
    BY <1>1, <1>3, <1>4
  <2>3. \A i, j \in About(log, p, field) : i < place /\ j < place /\ i <= j => h[i] <= h[j]
    BY <1>1
  <2>4. \A i \in About(whole, p, field) :
           i < m => \E j \in About(log, p, field) : j < place /\ h[j] = i
    BY <1>1, <1>2, <1>4
  <2> HIDE DEF h, place
  <2>5. Matches(h, log, place, whole, m, p, field)
    BY <2>2, <2>3, <2>4 DEF Matches
  <2>6. Told(whole, p, field, m) = Told(log, p, field, place)
    BY <1>1, <2>1, <2>5, ToldMatches
  <2> QED  BY <2>6 DEF place
<1>6. \A i \in About(whole, p, field) : whole[i].old = Told(whole, p, field, i)
  <2> SUFFICES ASSUME NEW i \in About(whole, p, field)
               PROVE  whole[i].old = Told(whole, p, field, i)
    OBVIOUS
  <2>1. CASE i \in About(log, p, field)
    <3>1. i \in 1 .. Len(log) /\ i \in 0 .. Len(log) + 1
      BY <1>1, <1>4, <2>1
    <3>2. log[i].old = Told(log, p, field, i)
      BY <2>1 DEF Tells
    <3> QED  BY <1>1, <3>1, <3>2
  <2>2. CASE i = m
    BY <1>1, <1>5, <2>2 DEF Tells
  <2> QED  BY <1>2, <2>1, <2>2
<1>7. Told(whole, p, field, Len(whole) + 1) = es[k].new
  <2>1. \A i \in About(whole, p, field) : i <= m
    BY <1>1, <1>2, <1>4
  <2>2. LastAbout(whole, p, field, Len(whole) + 1, m)
    BY <1>1, <1>4, <2>1 DEF LastAbout
  <2>3. Len(whole) + 1 \in Nat
    BY <1>1, <1>4
  <2>4. Told(whole, p, field, Len(whole) + 1) = whole[m].new
    <3> DEFINE place == Len(whole) + 1
    <3> HIDE DEF place
    <3>1. place \in Nat /\ LastAbout(whole, p, field, place, m)
      BY <2>2, <2>3 DEF place
    <3>2. Told(whole, p, field, place) = whole[m].new
      BY <1>1, <3>1, ToldIs
    <3> QED  BY <3>2 DEF place
  <2> QED  BY <1>1, <2>4
<1>8. Tells(whole, p, field, es[k].new)
  BY <1>6, <1>7 DEF Tells
<1> QED  BY <1>8 DEF whole

\* A photo and a field without entries: nothing is told.
LEMMA TellsNothing ==
    ASSUME NEW log \in Seq(Entries), NEW p, NEW field, About(log, p, field) = {}
    PROVE  Tells(log, p, field, <<>>)
<1> DEFINE place == Len(log) + 1
<1>1. place \in Nat
  OBVIOUS
<1> HIDE DEF place
<1>2. Told(log, p, field, place) = <<>>
  BY <1>1, ToldIs
<1> QED  BY <1>2 DEF Tells, place

\* The entries of a photo do not matter for the others.
LEMMA TellsWithout ==
    ASSUME NEW log \in Seq(Entries), NEW gone, NEW p, p # gone, NEW field, NEW v,
           Tells(log, p, field, v)
    PROVE  Tells(WithoutEntries(log, gone), p, field, v)
<1> DEFINE kept == WithoutEntries(log, gone)
<1>1. PICK h : Embeds(h, kept, log, gone, Len(log))
  BY WithoutEntriesProperties
<1>2. kept \in Seq(Entries)
  BY WithoutEntriesProperties
<1> HIDE DEF kept
<1>3. /\ Len(kept) \in Nat /\ Len(log) \in Nat /\ DOMAIN kept = 1 .. Len(kept)
      /\ DOMAIN log = 1 .. Len(log)
  BY <1>2
<1>4. /\ \A i \in 1 .. Len(kept) : h[i] \in 1 .. Len(log) /\ kept[i] = log[h[i]]
      /\ \A i, j \in 1 .. Len(kept) : i < j => h[i] < h[j]
      /\ \A k \in 1 .. Len(log) : log[k].photo # gone => \E i \in 1 .. Len(kept) : h[i] = k
  BY <1>1 DEF Embeds
<1>5. /\ About(kept, p, field) \subseteq 1 .. Len(kept)
      /\ About(log, p, field) \subseteq 1 .. Len(log)
      /\ \A i \in 1 .. Len(kept) : i \in About(kept, p, field) <=> h[i] \in About(log, p, field)
      /\ \A k \in About(log, p, field) : \E i \in About(kept, p, field) : h[i] = k
  BY <1>3, <1>4 DEF About
<1>6. ASSUME NEW place \in Nat, NEW there \in Nat,
             \A i \in 1 .. Len(kept) : i < place <=> h[i] < there
      PROVE  Told(kept, p, field, place) = Told(log, p, field, there)
  <2>1. \A i \in About(kept, p, field) :
           i < place => /\ h[i] \in About(log, p, field) /\ h[i] < there
                        /\ log[h[i]].new = kept[i].new
    BY <1>4, <1>5, <1>6
  <2>2. \A i, j \in About(kept, p, field) : i < place /\ j < place /\ i <= j => h[i] <= h[j]
    BY <1>3, <1>4, <1>5
  <2>3. \A k \in About(log, p, field) :
           k < there => \E i \in About(kept, p, field) : i < place /\ h[i] = k
    BY <1>5, <1>6
  <2>4. Matches(h, kept, place, log, there, p, field)
    BY <2>1, <2>2, <2>3 DEF Matches
  <2>5. Told(log, p, field, there) = Told(kept, p, field, place)
    BY <1>2, <2>4, ToldMatches
  <2> QED  BY <2>5
<1>7. \A i \in About(kept, p, field) : kept[i].old = Told(kept, p, field, i)
  <2> SUFFICES ASSUME NEW i \in About(kept, p, field)  PROVE kept[i].old = Told(kept, p, field, i)
    OBVIOUS
  <2>1. i \in 1 .. Len(kept) /\ i \in Nat /\ h[i] \in 1 .. Len(log) /\ h[i] \in Nat
        /\ h[i] \in About(log, p, field) /\ kept[i] = log[h[i]]
    BY <1>4, <1>5
  <2>2. ASSUME NEW j \in 1 .. Len(kept)  PROVE j < i <=> h[j] < h[i]
    <3>1. j < i \/ j = i \/ i < j
      BY <1>3, <2>1
    <3>2. h[j] \in Nat
      BY <1>4
    <3> QED  BY <1>3, <1>4, <2>1, <3>1, <3>2
  <2> DEFINE hi == h[i]
  <2>3. Told(kept, p, field, i) = Told(log, p, field, hi)
    <3>1. hi \in Nat /\ \A j \in 1 .. Len(kept) : j < i <=> h[j] < hi
      BY <2>1, <2>2
    <3> HIDE DEF hi
    <3> QED  BY <1>6, <2>1, <3>1
  <2>4. log[hi].old = Told(log, p, field, hi)
    BY <2>1 DEF Tells
  <2> QED  BY <2>1, <2>3, <2>4
<1>8. Told(kept, p, field, Len(kept) + 1) = Told(log, p, field, Len(log) + 1)
  <2> DEFINE place == Len(kept) + 1
             there == Len(log) + 1
  <2>1. place \in Nat /\ there \in Nat /\ \A i \in 1 .. Len(kept) : i < place <=> h[i] < there
    BY <1>3, <1>4
  <2> HIDE DEF place, there
  <2>2. Told(kept, p, field, place) = Told(log, p, field, there)
    BY <1>6, <2>1
  <2> QED  BY <2>2 DEF place, there
<1>9. Tells(kept, p, field, v)
  BY <1>7, <1>8 DEF Tells
<1> QED  BY <1>9 DEF kept

-----------------------------------------------------------------------------
(* The log tells the tags *)

\* The tags of a photo are read from its rows.
LEMMA SameTags ==
    ASSUME NEW c, NEW other, NEW p,
           \A r : r.photo = p => (r \in c.tags <=> r \in other.tags)
    PROVE  GetTags(other, p) = GetTags(c, p)
<1> DEFINE Read(rows) == [n \in {r.name : r \in rows} |-> (CHOOSE r \in rows : r.name = n).value]
<1>1. {r \in other.tags : r.photo = p} = {r \in c.tags : r.photo = p}
  OBVIOUS
<1>2. /\ GetTags(other, p) = Read({r \in other.tags : r.photo = p})
      /\ GetTags(c, p) = Read({r \in c.tags : r.photo = p})
  BY DEF GetTags
<1> HIDE DEF Read
<1> QED  BY <1>1, <1>2

\* Tags are read as they were stored.
LEMMA TagsAsStored ==
    ASSUME NEW c, NEW other, NEW p, NEW d, IsDelta(d), "tags" \in DOMAIN d,
           other.tags = TagRows(c.tags, p, d)
    PROVE  GetTags(other, p) = d.tags
<1> DEFINE rows == {r \in other.tags : r.photo = p}
           new == {[photo |-> p, name |-> n, value |-> d.tags[n]] : n \in DOMAIN d.tags}
<1>1. rows = new
  <2>1. \A r \in new : r.photo = p
    OBVIOUS
  <2>2. other.tags = {r \in c.tags : r.photo # p} \cup new
    BY DEF TagRows
  <2> HIDE DEF new
  <2> QED  BY <2>1, <2>2
<1>2. {r.name : r \in rows} = DOMAIN d.tags
  <2>1. \A r \in new : r.name \in DOMAIN d.tags
    OBVIOUS
  <2>2. ASSUME NEW n \in DOMAIN d.tags  PROVE \E r \in new : r.name = n
    <3>1. [photo |-> p, name |-> n, value |-> d.tags[n]] \in new
      OBVIOUS
    <3> QED  BY <3>1
  <2>3. {r.name : r \in new} = DOMAIN d.tags
    <3> HIDE DEF new
    <3> QED  BY <2>1, <2>2
  <2> HIDE DEF new, rows
  <2> QED  BY <1>1, <2>3
<1>3. ASSUME NEW n \in DOMAIN d.tags
      PROVE  (CHOOSE r \in rows : r.name = n).value = d.tags[n]
  <2>1. [photo |-> p, name |-> n, value |-> d.tags[n]] \in new
    OBVIOUS
  <2>2. \A r \in new : r.name = n => r.value = d.tags[n]
    OBVIOUS
  <2> HIDE DEF new, rows
  <2>3. \E r \in rows : r.name = n
    BY <1>1, <2>1
  <2> QED  BY <1>1, <2>2, <2>3
<1>4. GetTags(other, p) = [n \in {r.name : r \in rows} |-> (CHOOSE r \in rows : r.name = n).value]
  BY DEF GetTags
<1> HIDE DEF rows, new
<1>5. GetTags(other, p) = [n \in DOMAIN d.tags |-> d.tags[n]]
  BY <1>2, <1>3, <1>4
<1>6. d.tags = [n \in DOMAIN d.tags |-> d.tags[n]]
  BY DEF IsDelta, TagLists
<1> QED  BY <1>5, <1>6

\* What storeData() logs of the tags: one entry for a tag that it changes, from
\* the old value to the new one, and nothing else.
LEMMA NotedTags ==
    ASSUME NEW p \in Nat, NEW old \in TagLists, NEW new \in TagLists, NEW q, NEW n \in Names
    PROVE  LET es == TagEntries(p, old, new) IN
           /\ es \in Seq(Entries)
           /\ q # p \/ ValueIn(old, n) = ValueIn(new, n) => About(es, q, n) = {}
           /\ q = p /\ ValueIn(old, n) # ValueIn(new, n) =>
                 \E k \in 1 .. Len(es) : /\ About(es, q, n) = {k}
                                         /\ es[k].old = ValueIn(old, n)
                                         /\ es[k].new = ValueIn(new, n)
<1> DEFINE es == TagEntries(p, old, new)
<1>1. PICK names \in Seq(Names) :
         /\ IsInjective(names) /\ Range(names) = Changed(old, new)
         /\ es \in Seq(Entries)
         /\ Len(es) = Len(names)
         /\ \A i \in 1 .. Len(names) :
               es[i] = Entry(p, names[i], ValueIn(old, names[i]), ValueIn(new, names[i]))
  BY TagEntriesProperties
<1> HIDE DEF es
<1>2. DOMAIN es = 1 .. Len(es) /\ DOMAIN names = 1 .. Len(names) /\ Len(names) \in Nat
  BY <1>1
<1>3. \A i \in 1 .. Len(names) : /\ es[i].photo = p /\ es[i].field = names[i]
                                 /\ es[i].old = ValueIn(old, names[i])
                                 /\ es[i].new = ValueIn(new, names[i])
                                 /\ names[i] \in Changed(old, new)
  BY <1>1, <1>2 DEF Entry, Range
<1>4. ASSUME q # p \/ ValueIn(old, n) = ValueIn(new, n)
      PROVE  About(es, q, n) = {}
  <2>1. n \in Changed(old, new) => q # p
    BY <1>4 DEF Changed
  <2> QED  BY <1>1, <1>2, <1>3, <2>1 DEF About
<1>5. ASSUME q = p, ValueIn(old, n) # ValueIn(new, n)
      PROVE  \E k \in 1 .. Len(es) : /\ About(es, q, n) = {k}
                                     /\ es[k].old = ValueIn(old, n)
                                     /\ es[k].new = ValueIn(new, n)
  <2>1. n \in Range(names)
    BY <1>1, <1>5 DEF Changed
  <2>2. PICK k \in 1 .. Len(names) : names[k] = n
    BY <1>2, <2>1 DEF Range
  <2>3. \A i \in 1 .. Len(names) : names[i] = n => i = k
    BY <1>1, <1>2, <2>2 DEF IsInjective
  <2>4. About(es, q, n) = {k}
    BY <1>1, <1>2, <1>3, <1>5, <2>2, <2>3 DEF About
  <2> QED  BY <1>1, <1>3, <2>2, <2>4
<1> QED  BY <1>1, <1>4, <1>5 DEF es

\* Entries about groups say nothing of tags.
LEMMA GroupFieldIsNoTag ==
    ASSUME NEW es \in Seq(Entries), \A i \in 1 .. Len(es) : es[i].field = "group",
           NEW q, NEW n \in Names
    PROVE  About(es, q, n) = {}
BY SqlAssumption DEF About

\* The same content with more entries about groups.
LEMMA GroupEntriesKeepTags ==
    ASSUME NEW c \in Contents, NEW other, NEW es \in Seq(Entries),
           \A i \in 1 .. Len(es) : es[i].field = "group",
           other.log = c.log \o es, other.tags = c.tags, other.photos = c.photos,
           TagsAreLogged(c)
    PROVE  TagsAreLogged(other)
<1> SUFFICES ASSUME NEW q \in c.photos, NEW n \in Names
             PROVE  Tells(other.log, q, n, ValueIn(GetTags(other, q), n))
  BY DEF TagsAreLogged
<1>1. GetTags(other, q) = GetTags(c, q)
  BY SameTags
<1>2. Tells(c.log, q, n, ValueIn(GetTags(c, q), n))
  BY DEF TagsAreLogged
<1>3. About(es, q, n) = {}
  BY GroupFieldIsNoTag
<1>4. c.log \in Seq(Entries)
  BY LogsAre DEF Contents
<1> DEFINE v == ValueIn(GetTags(c, q), n)
           log == c.log
<1>5. log \in Seq(Entries) /\ Tells(log, q, n, v)
  BY <1>2, <1>4
<1> HIDE DEF v, log
<1>6. Tells(log \o es, q, n, v)
  BY <1>3, <1>5, TellsStill
<1> QED  BY <1>1, <1>6 DEF v, log

\* storeData() logs what it changes.
LEMMA StoredTagsAreLogged ==
    ASSUME NEW c \in Contents, NEW p \in Nat, NEW d, IsDelta(d), TagsAreLogged(c)
    PROVE  TagsAreLogged(Stored(c, p, d))
<1> DEFINE s == Stored(c, p, d)
           old == GetTags(c, p)
           te == IF "tags" \in DOMAIN d THEN TagEntries(p, old, d.tags) ELSE <<>>
           ge == IF "group" \in DOMAIN d THEN GroupEntries(p, GetGroup(c, p), d.group) ELSE <<>>
           log == c.log
<1>1. s.photos = c.photos /\ s.tags = TagRows(c.tags, p, d) /\ s.log = log \o Noted(c, p, d)
  <2>1. /\ Stored(c, p, d).photos = c.photos
        /\ Stored(c, p, d).tags = TagRows(c.tags, p, d)
        /\ Stored(c, p, d).log = c.log \o Noted(c, p, d)
    <3> HIDE DEF s, old, te, ge, log
    <3> QED  BY StoredTables
  <2> HIDE DEF old, te, ge
  <2> QED  BY <2>1
<1>2. Noted(c, p, d) = te \o ge
  BY DEF Noted
<1>3. log \in Seq(Entries) /\ old \in TagLists
  BY LogsAre, QueriesType DEF Contents
<1>4. te \in Seq(Entries)
  <2>1. CASE "tags" \in DOMAIN d
    <3>1. d.tags \in TagLists
      BY <2>1 DEF IsDelta
    <3> QED  BY <1>3, <2>1, <3>1, TagEntriesProperties
  <2>2. CASE "tags" \notin DOMAIN d
    BY <2>2
  <2> QED  BY <2>1, <2>2
<1>5. ge \in Seq(Entries) /\ \A i \in 1 .. Len(ge) : ge[i].field = "group"
  <2>1. CASE "group" \in DOMAIN d
    <3>1. d.group \in Loggable /\ GetGroup(c, p) \in Loggable
      BY <2>1, QueriesType DEF IsDelta, Loggable, Roles
    <3>2. Entry(p, "group", GetGroup(c, p), d.group) \in Entries
      BY <3>1 DEF Entry, Entries
    <3>3. Entry(p, "group", GetGroup(c, p), d.group).field = "group"
      BY DEF Entry
    <3> QED  BY <2>1, <3>2, <3>3 DEF GroupEntries
  <2>2. CASE "group" \notin DOMAIN d
    BY <2>2
  <2> QED  BY <2>1, <2>2
<1> SUFFICES ASSUME NEW q \in c.photos, NEW n \in Names
             PROVE  Tells(s.log, q, n, ValueIn(GetTags(s, q), n))
  BY <1>1 DEF TagsAreLogged
<1>6. Tells(log, q, n, ValueIn(GetTags(c, q), n))
  BY DEF TagsAreLogged
<1> HIDE DEF s, ge, log
<1>7. Tells(log \o te, q, n, ValueIn(GetTags(s, q), n))
  <2> DEFINE v == ValueIn(GetTags(c, q), n)
             w == ValueIn(GetTags(s, q), n)
  <2>1. ASSUME About(te, q, n) = {}, w = v  PROVE Tells(log \o te, q, n, w)
    <3> HIDE DEF v, te, w
    <3>1. Tells(log, q, n, v)
      BY <1>6 DEF v
    <3>2. Tells(log \o te, q, n, v)
      BY <1>3, <1>4, <2>1, <3>1, TellsStill
    <3> QED  BY <2>1, <3>2
  <2>2. ASSUME NEW k \in 1 .. Len(te), About(te, q, n) = {k}, te[k].old = v, te[k].new = w
        PROVE  Tells(log \o te, q, n, w)
    <3> HIDE DEF v, te, w
    <3>1. Tells(log, q, n, te[k].old)
      BY <1>6, <2>2 DEF v
    <3>2. Tells(log \o te, q, n, te[k].new)
      BY <1>3, <1>4, <2>2, <3>1, TellsNext
    <3> QED  BY <2>2, <3>2
  <2>3. CASE "tags" \notin DOMAIN d
    <3>1. te = <<>> /\ s.tags = c.tags
      BY <1>1, <2>3 DEF TagRows
    <3>2. About(te, q, n) = {}
      BY <3>1 DEF About
    <3>3. GetTags(s, q) = GetTags(c, q)
      BY <3>1, SameTags
    <3> QED  BY <2>1, <3>2, <3>3
  <2>4. CASE "tags" \in DOMAIN d /\ q # p
    <3>1. d.tags \in TagLists /\ te = TagEntries(p, old, d.tags)
      BY <2>4 DEF IsDelta
    <3>2. About(te, q, n) = {}
      <4> HIDE DEF te, old
      <4> QED  BY <1>3, <2>4, <3>1, NotedTags
    <3>3. \A r : r.photo = q => (r \in c.tags <=> r \in s.tags)
      BY <1>1, <2>4 DEF TagRows
    <3>4. GetTags(s, q) = GetTags(c, q)
      BY <3>3, SameTags
    <3> QED  BY <2>1, <3>2, <3>4
  <2>5. CASE "tags" \in DOMAIN d /\ q = p
    <3>1. d.tags \in TagLists /\ te = TagEntries(p, old, d.tags)
      BY <2>5 DEF IsDelta
    <3>2. GetTags(s, q) = d.tags
      BY <1>1, <2>5, TagsAsStored
    <3>3. v = ValueIn(old, n) /\ w = ValueIn(d.tags, n)
      BY <2>5, <3>2
    <3> HIDE DEF te, v, w, old
    <3>4. CASE v = w
      <4>1. About(te, q, n) = {}
        <5> DEFINE es == TagEntries(p, old, d.tags)
        <5>1. ValueIn(old, n) = ValueIn(d.tags, n) => About(es, q, n) = {}
          BY <1>3, <3>1, NotedTags
        <5> HIDE DEF es
        <5> QED  BY <3>1, <3>3, <3>4, <5>1 DEF es
      <4> QED  BY <2>1, <3>4, <4>1 DEF w
    <3>5. CASE v # w
      <4>1. \E k \in 1 .. Len(te) : /\ About(te, q, n) = {k}
                                    /\ te[k].old = ValueIn(old, n)
                                    /\ te[k].new = ValueIn(d.tags, n)
        BY <1>3, <2>5, <3>1, <3>3, <3>5, NotedTags
      <4> QED  BY <2>2, <3>3, <4>1 DEF w
    <3> QED  BY <3>4, <3>5
  <2> QED  BY <2>3, <2>4, <2>5
<1>8. About(ge, q, n) = {}
  BY <1>5, GroupFieldIsNoTag
<1> HIDE DEF te, old
<1>9. s.log = (log \o te) \o ge
  <2>1. (log \o te) \o ge = log \o (te \o ge)
    BY <1>3, <1>4, <1>5, ConcatAssociative
  <2> QED  BY <1>1, <1>2, <2>1
<1> DEFINE more == log \o te
           w == ValueIn(GetTags(s, q), n)
<1>10. more \in Seq(Entries) /\ Tells(more, q, n, w)
  BY <1>3, <1>4, <1>7, ConcatProperties
<1> HIDE DEF more, w
<1>11. Tells(more \o ge, q, n, w)
  BY <1>5, <1>8, <1>10, TellsStill
<1> QED  BY <1>9, <1>11 DEF more, w

\* An id that is new has not been given to a row.
LEMMA NextIdIsNew ==
    ASSUME NEW m \in Nat, NEW ids, ids \subseteq 1 .. m
    PROVE  NextId(ids) \notin ids
<1>1. CASE ids = {}
  BY <1>1
<1>2. CASE ids # {}
  <2> DEFINE above == {m - i : i \in ids}
             top == CHOOSE i \in ids : \A j \in ids : j <= i
  <2>1. above # {} /\ above \subseteq Nat
    <3>1. \A i \in ids : m - i \in Nat
      OBVIOUS
    <3> QED  BY <1>2, <3>1
  <2>2. PICK k \in above : \A n \in above : k <= n
    <3> HIDE DEF above
    <3> QED  BY <2>1, LeastNumber
  <2>3. PICK i \in ids : k = m - i
    BY <2>2
  <2>4. ASSUME NEW j \in ids  PROVE j <= i
    <3>1. k <= m - j
      BY <2>2
    <3> QED  BY <2>3, <3>1
  <2>5. top \in ids /\ \A j \in ids : j <= top
    BY <2>4
  <2>6. NextId(ids) = 1 + top
    BY <1>2 DEF NextId
  <2> HIDE DEF top
  <2>7. ASSUME NextId(ids) \in ids  PROVE FALSE
    <3>1. 1 + top <= top /\ top \in Nat
      BY <2>5, <2>6, <2>7
    <3> QED  BY <3>1
  <2> QED  BY <2>7
<1> QED  BY <1>1, <1>2

\* The next photo and the next group are new.
LEMMA NewIds ==
    ASSUME NEW c \in Contents
    PROVE  /\ NextId(c.photos) \notin c.photos
           /\ NextId({g.id : g \in c.groups}) \notin {g.id : g \in c.groups}
<1>1. c.photos \subseteq 1 .. MaxPhoto /\ {g.id : g \in c.groups} \subseteq 1 .. MaxGroup
  BY DEF Contents, Photos, Groups
<1>2. MaxPhoto \in Nat /\ MaxGroup \in Nat
  BY SqlAssumption
<1> DEFINE ids == {g.id : g \in c.groups}
<1>3. ids \subseteq 1 .. MaxGroup
  BY <1>1
<1> HIDE DEF ids
<1>4. NextId(ids) \notin ids
  BY <1>2, <1>3, NextIdIsNew
<1> QED  BY <1>1, <1>2, <1>4, NextIdIsNew DEF ids

\* Nothing of a photo that is not there is left in the tables.
LEMMA NothingIsLeft ==
    ASSUME NEW c, Good(c), NEW p, p \notin c.photos
    PROVE  /\ \A t \in TablesOfPhotos : \A row \in c[t] : row.photo # p
           /\ \A row \in c.groups : row.representative # p
           /\ \A field : About(c.log, p, field) = {}
BY DEF Good, Consistent, About

\* Other tables do not matter.
LEMMA SameLogKeepsTags ==
    ASSUME NEW c \in Contents, NEW other, other.log = c.log, other.tags = c.tags,
           other.photos = c.photos, TagsAreLogged(c)
    PROVE  TagsAreLogged(other)
<1>1. \A q : GetTags(other, q) = GetTags(c, q)
  BY SameTags
<1> QED  BY <1>1 DEF TagsAreLogged

\* A new photo has no tags.
LEMMA InsertedTagsAreLogged ==
    ASSUME NEW c, Good(c), NEW id \in Photos, id \notin c.photos, TagsAreLogged(c)
    PROVE  TagsAreLogged(Inserted(c, id))
<1> DEFINE i == Inserted(c, id)
<1>1. i.photos = c.photos \cup {id} /\ i.log = c.log /\ i.tags = c.tags
  BY InsertedTables DEF Good, SameBut
<1>2. c.log \in Seq(Entries)
  BY LogsAre DEF Good, Contents
<1> HIDE DEF i
<1>3. \A q : GetTags(i, q) = GetTags(c, q)
  BY <1>1, SameTags
<1>4. ASSUME NEW n \in Names  PROVE Tells(c.log, id, n, ValueIn(GetTags(c, id), n))
  <2>1. \A row \in c.tags : row.photo # id
    BY NothingIsLeft DEF TablesOfPhotos
  <2>2. {r \in c.tags : r.photo = id} = {}
    BY <2>1
  <2>3. DOMAIN GetTags(c, id) = {}
    <3>1. DOMAIN GetTags(c, id) = {r.name : r \in {s \in c.tags : s.photo = id}}
      BY DEF GetTags
    <3> QED  BY <2>2, <3>1
  <2>4. ValueIn(GetTags(c, id), n) = <<>>
    BY <2>3 DEF ValueIn
  <2>5. About(c.log, id, n) = {}
    BY NothingIsLeft
  <2>6. Tells(c.log, id, n, <<>>)
    <3> DEFINE log == c.log
    <3>1. log \in Seq(Entries) /\ About(log, id, n) = {}
      BY <1>2, <2>5
    <3> HIDE DEF log
    <3>2. Tells(log, id, n, <<>>)
      BY <3>1, TellsNothing
    <3> QED  BY <3>2 DEF log
  <2> QED  BY <2>4, <2>6
<1>5. ASSUME NEW q \in i.photos, NEW n \in Names
      PROVE  Tells(i.log, q, n, ValueIn(GetTags(i, q), n))
  BY <1>1, <1>3, <1>4 DEF TagsAreLogged
<1>6. TagsAreLogged(i)
  BY <1>5 DEF TagsAreLogged
<1> QED  BY <1>6 DEF i

\* One photo after the other.
LEMMA PassesTagsAreLogged ==
    ASSUME NEW photos \in Seq(Photos), NEW d, IsDelta(d),
           NEW w \in [0 .. Len(photos) -> Contents], TagsAreLogged(w[0]),
           \A k \in 1 .. Len(photos) : w[k] = Stored(w[k - 1], photos[k], d)
    PROVE  TagsAreLogged(w[Len(photos)])
<1> DEFINE Bad == {k \in 0 .. Len(photos) : ~ TagsAreLogged(w[k])}
<1>1. Len(photos) \in Nat
  OBVIOUS
<1>2. SUFFICES ASSUME Bad # {}  PROVE FALSE
  BY <1>1
<1>3. PICK m \in Bad : \A n \in Bad : m <= n
  <2>1. Bad \subseteq Nat
    OBVIOUS
  <2> HIDE DEF Bad
  <2> QED  BY <1>2, <2>1, LeastNumber
<1>4. m \in 0 .. Len(photos) /\ ~ TagsAreLogged(w[m]) /\ m # 0
  BY <1>3
<1>5. m \in 1 .. Len(photos) /\ m - 1 \in 0 .. Len(photos) /\ m - 1 < m /\ photos[m] \in Nat
  <2>1. m \in 1 .. Len(photos) /\ m - 1 \in 0 .. Len(photos) /\ m - 1 < m
    BY <1>1, <1>4
  <2>2. photos[m] \in Photos
    BY <2>1
  <2> QED  BY <2>1, <2>2, PhotosAreNumbers
<1>6. TagsAreLogged(w[m - 1]) /\ w[m - 1] \in Contents
  BY <1>3, <1>5
<1> DEFINE c == w[m - 1]
<1>7. c \in Contents /\ TagsAreLogged(c) /\ w[m] = Stored(c, photos[m], d)
  BY <1>5, <1>6
<1> HIDE DEF c
<1>8. TagsAreLogged(Stored(c, photos[m], d))
  BY <1>5, <1>7, StoredTagsAreLogged
<1> QED  BY <1>4, <1>7, <1>8

\* The entries of the end of a group are about groups.
LEMMA DissolvedTagsAreLogged ==
    ASSUME NEW c, Good(c), TagsAreLogged(c), NEW g \in Groups, NEW row \in c.groups,
           NEW k \in 0 .. Len(Dissolution(c, g, row))
    PROVE  TagsAreLogged(Logged(GroupRemoved(c, g, row), SubSeq(Dissolution(c, g, row), 1, k)))
<1> DEFINE es == Dissolution(c, g, row)
           ms == SetToSeq(MembersOf(c, g))
           r == GroupRemoved(c, g, row)
           part == SubSeq(es, 1, k)
<1>1. /\ ms \in Seq(MembersOf(c, g))
      /\ es \in Seq(Entries) /\ Len(es) = 1 + Len(ms)
      /\ es[1] = Entry(row.representative, "group", <<g, "Representative">>, <<>>)
      /\ \A i \in 1 .. Len(ms) : es[i + 1] = Entry(ms[i], "group", <<g, "Member">>, <<>>)
  BY DissolutionType
<1>2. r \in Contents /\ r.photos = c.photos /\ r.log = c.log /\ r.tags = c.tags
  BY RemoveGroupChain DEF Good, SameBut
<1> HIDE DEF es, ms, r
<1>3. \A i \in 1 .. Len(es) : es[i].field = "group"
  <2> SUFFICES ASSUME NEW i \in 1 .. Len(es)  PROVE es[i].field = "group"
    OBVIOUS
  <2>1. CASE i = 1
    BY <1>1, <2>1 DEF Entry
  <2>2. CASE i # 1
    <3>1. i - 1 \in 1 .. Len(ms) /\ (i - 1) + 1 = i
      BY <1>1, <2>2
    <3>2. es[i] = Entry(ms[i - 1], "group", <<g, "Member">>, <<>>)
      BY <1>1, <3>1
    <3> QED  BY <3>2 DEF Entry
  <2> QED  BY <2>1, <2>2
<1>4. part \in Seq(Entries) /\ \A i \in 1 .. Len(part) : part[i].field = "group"
  <2>1. es \in Seq(Entries) /\ Len(es) \in Nat /\ k \in Nat /\ k <= Len(es)
    BY <1>1 DEF es
  <2>2. part \in Seq(Entries) /\ Len(part) = k /\ \A i \in 1 .. k : part[i] = es[i]
    BY <2>1
  <2> QED  BY <1>3, <2>1, <2>2
<1> HIDE DEF part
<1>5. /\ Logged(r, part) \in Contents /\ SameBut(r, Logged(r, part), "log")
      /\ Logged(r, part).log = r.log \o part
  BY <1>2, <1>4, LoggedTables
<1> DEFINE other == Logged(r, part)
<1>6. other.log = c.log \o part /\ other.tags = c.tags /\ other.photos = c.photos
  BY <1>2, <1>5 DEF SameBut
<1>7. c \in Contents
  BY DEF Good
<1> HIDE DEF other
<1>8. TagsAreLogged(other)
  BY <1>4, <1>6, <1>7, GroupEntriesKeepTags
<1> QED  BY <1>8 DEF other, r, part, es

\* Of a removed photo the log forgets everything, of the others nothing.
LEMMA RemovedTagsAreLogged ==
    ASSUME Good(db), TagsAreLogged(db), NEW p
    PROVE  TagsAreLogged(Last(RemovalChain(p)))
<1> DEFINE last == Last(RemovalChain(p))
<1>1. /\ last.photos = db.photos \ {p}
      /\ last.tags = {r \in db.tags : r.photo # p}
      /\ last.log = WithoutEntries(db.log, p)
  BY RemovalTables DEF Good
<1> HIDE DEF last
<1>2. db.log \in Seq(Entries)
  BY LogsAre DEF Good, Contents
<1>3. ASSUME NEW q \in last.photos, NEW n \in Names
      PROVE  Tells(last.log, q, n, ValueIn(GetTags(last, q), n))
  <2>1. q # p /\ q \in db.photos
    BY <1>1
  <2>2. GetTags(last, q) = GetTags(db, q)
    BY <1>1, <2>1, SameTags
  <2> DEFINE v == ValueIn(GetTags(db, q), n)
             log == db.log
  <2>3. Tells(log, q, n, v) /\ log \in Seq(Entries)
    BY <1>2, <2>1 DEF TagsAreLogged
  <2> HIDE DEF v, log
  <2>4. Tells(WithoutEntries(log, p), q, n, v)
    BY <2>1, <2>3, TellsWithout
  <2> QED  BY <1>1, <2>2, <2>4 DEF v, log
<1>4. TagsAreLogged(last)
  BY <1>3 DEF TagsAreLogged
<1> QED  BY <1>4 DEF last

\* The state in which the log tells the tags, also after a crash.
TagsInv == SaneInv /\ TagsAreLogged(db) /\ TagsAreLogged(disk)

\* What a call leads to.
LEMMA TagsLead ==
    ASSUME TagsAreLogged(db), TagsAreLogged(disk),
           Stays \/ Back \/ \E c : TagsAreLogged(c) /\ Leads(c)
    PROVE  TagsAreLogged(db)' /\ TagsAreLogged(disk)'
<1>1. ASSUME NEW c, TagsAreLogged(c), c = db'  PROVE TagsAreLogged(db)'
  BY <1>1 DEF TagsAreLogged
<1>2. ASSUME NEW c, TagsAreLogged(c), c = disk'  PROVE TagsAreLogged(disk)'
  BY <1>2 DEF TagsAreLogged
<1>3. \E c : TagsAreLogged(c) /\ c = db'
  BY DEF Stays, Back, Leads
<1>4. \E c : TagsAreLogged(c) /\ c = disk'
  BY DEF Stays, Back, Leads
<1> QED  BY <1>1, <1>2, <1>3, <1>4

\* addPhotos() leads to a content whose log tells the tags, or goes back.
LEMMA AddPhotosKeepsTags ==
    ASSUME TagsInv, NEW d, IsDelta(d), AddPhotos(d)
    PROVE  Stays \/ Back \/ \E c : TagsAreLogged(c) /\ Leads(c)
<1> DEFINE id == NextId(db.photos)
           i == Inserted(db, id)
<1>1. Sane /\ Good(db) /\ TagsAreLogged(db) /\ db \in Contents
  BY DEF TagsInv, SaneInv, Sane, Good
<1>2. id \in Photos /\ (Back \/ Leads(Stored(i, id, d)))
  BY <1>1, AddPhotosLeads
<1>3. id \notin db.photos
  BY <1>1, NewIds
<1> HIDE DEF id
<1>4. i \in Contents /\ TagsAreLogged(i)
  BY <1>1, <1>2, <1>3, InsertedTables, InsertedTagsAreLogged
<1>5. id \in Nat
  BY <1>2, PhotosAreNumbers
<1> HIDE DEF i
<1>6. TagsAreLogged(Stored(i, id, d))
  BY <1>4, <1>5, StoredTagsAreLogged
<1> QED  BY <1>2, <1>6

\* update() leads to a content whose log tells the tags, or goes back.
LEMMA UpdateKeepsTags ==
    ASSUME TagsInv, NEW photos \in Seq(Photos), NEW d, IsDelta(d), Update(photos, d)
    PROVE  Stays \/ Back \/ \E c : TagsAreLogged(c) /\ Leads(c)
<1>1. Sane /\ TagsAreLogged(db)
  BY DEF TagsInv, SaneInv
<1>2. \/ Back
      \/ \E w : /\ w \in [0 .. Len(photos) -> Contents]
                /\ w[0] = db
                /\ \A k \in 1 .. Len(photos) : w[k] = Stored(w[k - 1], photos[k], d)
                /\ \A k \in 0 .. Len(photos) : Consistent(w[k])
                /\ Leads(w[Len(photos)])
  BY <1>1, UpdateLeads
<1>3. ASSUME NEW w, w \in [0 .. Len(photos) -> Contents], w[0] = db,
             \A k \in 1 .. Len(photos) : w[k] = Stored(w[k - 1], photos[k], d)
      PROVE  TagsAreLogged(w[Len(photos)])
  <2>1. TagsAreLogged(w[0])
    BY <1>1, <1>3
  <2> QED  BY <1>3, <2>1, PassesTagsAreLogged
<1> QED  BY <1>2, <1>3

\* addGroup() leads to a content whose log tells the tags, or goes back.
LEMMA AddGroupKeepsTags ==
    ASSUME TagsInv, NEW p \in Nat, AddGroup(p)
    PROVE  Stays \/ Back \/ \E c : TagsAreLogged(c) /\ Leads(c)
<1> DEFINE id == NextId({g.id : g \in db.groups})
           i == GroupInserted(db, id, p)
           n == GroupNoted(db, id, p)
           entry == Entry(p, "group", <<>>, <<id, "Representative">>)
<1>1. Sane /\ db \in Contents /\ TagsAreLogged(db)
  BY DEF TagsInv, SaneInv, Sane, Good
<1>2. id \in Groups /\ (Stays \/ Back \/ Leads(i) \/ Leads(n))
  BY <1>1, AddGroupLeads
<1> HIDE DEF id
<1>3. /\ i \in Contents /\ SameBut(db, i, "groups")
      /\ SameBut(i, n, "log") /\ n.log = db.log \o <<entry>>
      /\ entry \in Entries
  BY <1>1, <1>2, AddGroupChain
<1>4. entry.field = "group"
  BY DEF Entry
<1> HIDE DEF i, n, entry
<1>5. i.log = db.log /\ i.tags = db.tags /\ i.photos = db.photos
      /\ n.tags = db.tags /\ n.photos = db.photos
  BY <1>3 DEF SameBut
<1>6. TagsAreLogged(i)
  BY <1>1, <1>5, SameLogKeepsTags
<1>7. TagsAreLogged(n)
  <2> DEFINE es == <<entry>>
  <2>1. es \in Seq(Entries) /\ \A k \in 1 .. Len(es) : es[k].field = "group"
    BY <1>3, <1>4
  <2>2. n.log = db.log \o es
    BY <1>3
  <2> HIDE DEF es
  <2> QED  BY <1>1, <1>5, <2>1, <2>2, GroupEntriesKeepTags
<1> QED  BY <1>2, <1>6, <1>7

\* Every step keeps it.
LEMMA PerformKeepsTags ==
    ASSUME TagsInv, Perform
    PROVE  Stays \/ Back \/ \E c : TagsAreLogged(c) /\ Leads(c)
<1>1. /\ Sane /\ TasksOK /\ Good(db) /\ db \in Contents /\ made \in MadeType
      /\ TagsAreLogged(db) /\ Photos \subseteq Nat /\ NoId \in Nat
  BY PhotosAreNumbers DEF TagsInv, SaneInv, Sane, Good, MadeType
<1>2. CASE Scan
  <2>1. AddPhotos([flags |-> {"StagingArea"}])
    BY <1>2 DEF Scan
  <2> QED  BY <2>1, AddPhotosKeepsTags, OtherDeltas
<1>3. CASE Edit
  <2>1. task.photos \in Seq(Photos) /\ IsDelta(task.edit) /\ Update(task.photos, task.edit)
    BY <1>1, <1>3, TaskFields, EditsAreDeltas DEF Edit
  <2> QED  BY <2>1, UpdateKeepsTags
<1>4. CASE Review
  <2>1. Stays \/ Leads(Reviewed(db))
    BY <1>1, <1>4, StatementsLead DEF Review
  <2> DEFINE c == Reviewed(db)
  <2>2. c.log = db.log /\ c.tags = db.tags /\ c.photos = db.photos
    BY <1>1, ReviewedTables DEF SameBut
  <2> HIDE DEF c
  <2>3. TagsAreLogged(c)
    BY <1>1, <2>2, SameLogKeepsTags
  <2> QED  BY <2>1, <2>3 DEF c
<1>5. CASE MarkBroken
  <2> DEFINE p == task.photo
             c == UpdateOrInsert(db, "generalFlags", [photo |-> p])
  <2>1. p \in Nat /\ SetFlag(p)
    BY <1>1, <1>5, TaskFields DEF MarkBroken
  <2> HIDE DEF p
  <2>2. Stays \/ Leads(c)
    BY <1>1, <2>1, StatementsLead
  <2>3. c.log = db.log /\ c.tags = db.tags /\ c.photos = db.photos
    BY <1>1, <2>1, MarkedTables DEF SameBut
  <2> HIDE DEF c
  <2>4. TagsAreLogged(c)
    BY <1>1, <2>3, SameLogKeepsTags
  <2> QED  BY <2>2, <2>4
<1>6. CASE GroupRepresentative
  <2> DEFINE first == Head(task.photos)
             d == [tags |-> GetTags(db, first), flags |-> GetFlags(db, first) \cap {"StagingArea"}]
  <2>1. AddPhotos(d) /\ IsDelta(d)
    BY <1>1, <1>6, OtherDeltas DEF GroupRepresentative
  <2> HIDE DEF d
  <2> QED  BY <2>1, AddPhotosKeepsTags
<1>7. CASE GroupCreate
  <2>1. made.photo \in Nat /\ AddGroup(made.photo)
    BY <1>1, <1>7 DEF GroupCreate, MadeType
  <2> QED  BY <2>1, AddGroupKeepsTags
<1>8. CASE GroupJoin
  <2> DEFINE d == [group |-> IF made.group = NoId THEN <<>> ELSE <<made.group, "Member">>]
  <2>1. task.photos \in Seq(Photos) /\ Update(task.photos, d)
    BY <1>1, <1>8, TaskFields DEF GroupJoin
  <2>2. made.group \in Groups \cup {NoId}
    BY <1>1 DEF MadeType
  <2>3. IsDelta(d)
    BY <2>2, OtherDeltas
  <2> HIDE DEF d
  <2> QED  BY <2>1, <2>3, UpdateKeepsTags
<1>9. CASE UngroupDissolve
  <2> DEFINE g == task.group
  <2>1. g \in Groups /\ RemoveGroup(g)
    BY <1>1, <1>9, TaskFields DEF UngroupDissolve
  <2> HIDE DEF g
  <2>2. CASE Back
    BY <2>2
  <2>3. CASE \E row, k :
               /\ row \in db.groups /\ row.id = g
               /\ k \in 0 .. Len(Dissolution(db, g, row))
               /\ Leads(Logged(GroupRemoved(db, g, row), SubSeq(Dissolution(db, g, row), 1, k)))
    <3>1. PICK row, k :
               /\ row \in db.groups
               /\ k \in 0 .. Len(Dissolution(db, g, row))
               /\ Leads(Logged(GroupRemoved(db, g, row), SubSeq(Dissolution(db, g, row), 1, k)))
      BY <2>3
    <3>2. TagsAreLogged(Logged(GroupRemoved(db, g, row), SubSeq(Dissolution(db, g, row), 1, k)))
      BY <1>1, <2>1, <3>1, DissolvedTagsAreLogged
    <3> QED  BY <3>1, <3>2
  <2> QED  BY <1>1, <2>1, <2>2, <2>3, RemoveGroupLeads
<1>10. CASE UngroupRemove
  <2> DEFINE p == made.photo
  <2>1. RemovePhoto(p)
    BY <1>10 DEF UngroupRemove
  <2> HIDE DEF p
  <2>2. Back \/ Leads(Last(RemovalChain(p)))
    BY <1>1, <2>1, RemovePhotoLeads
  <2>3. TagsAreLogged(Last(RemovalChain(p)))
    BY <1>1, RemovedTagsAreLogged
  <2> QED  BY <2>2, <2>3
<1> QED
  BY <1>2, <1>3, <1>4, <1>5, <1>6, <1>7, <1>8, <1>9, <1>10 DEF Perform

\* Every step keeps the log in agreement with the tags, on the disk too.
LEMMA StepKeepsTags == TagsInv /\ [Next]_vars => TagsInv'
<1> SUFFICES ASSUME TagsInv, [Next]_vars  PROVE TagsInv'
  OBVIOUS
<1>1. SaneInv /\ TagsAreLogged(db) /\ TagsAreLogged(disk)
  BY DEF TagsInv
<1>2. SaneInv'
  BY <1>1, StepIsSane
<1>3. Stays \/ Back \/ \E c : TagsAreLogged(c) /\ Leads(c)
  <2>1. CASE UNCHANGED vars
    BY <2>1 DEF vars, content, Stays
  <2>2. CASE Post \/ Take
    BY <2>2 DEF Post, Take, content, Stays
  <2>3. CASE Crash
    BY <2>3 DEF Crash, Restarts, Back
  <2>4. CASE Perform
    BY <2>4, PerformKeepsTags
  <2> QED  BY <2>1, <2>2, <2>3, <2>4 DEF Next
<1>4. TagsAreLogged(db)' /\ TagsAreLogged(disk)'
  BY <1>1, <1>3, TagsLead
<1> QED  BY <1>2, <1>4 DEF TagsInv

\* Replaying the log of a photo gives its tags, whatever fails.
THEOREM LogAlwaysTellsTags == Spec => []LogTellsTags
<1>1. Init => TagsInv
  <2> SUFFICES ASSUME Init  PROVE TagsInv
    OBVIOUS
  <2>1. TagsAreLogged(db) /\ TagsAreLogged(disk)
    BY CollectionsAssumption DEF Init
  <2> QED  BY <2>1, InitIsSane DEF TagsInv
<1>2. TagsInv => LogTellsTags
  BY DEF TagsInv, LogTellsTags
<1> QED  BY <1>1, <1>2, StepKeepsTags, PTL DEF Spec

-----------------------------------------------------------------------------
(* What clients read *)

\* A photo and a group as they are read.
HasSize(c, p) == \E r \in c.geometry : r.photo = p
IsMarked(c, p) == \E r \in c.generalFlags : r.photo = p
PhotoOf(c, p) == [tags |-> GetTags(c, p), flags |-> GetFlags(c, p),
                  geometry |-> HasSize(c, p), marked |-> IsMarked(c, p)]
GroupIds(c) == {r.id : r \in c.groups}
GroupOf(c, g) == [representative |-> (CHOOSE r \in c.groups : r.id = g).representative,
                  members |-> MembersOf(c, g)]

\* What clients read, photo by photo and group by group.
LEMMA ContentIs ==
    ASSUME NEW c
    PROVE  Content(c) = [photos |-> [p \in c.photos |-> PhotoOf(c, p)],
                         groups |-> [g \in GroupIds(c) |-> GroupOf(c, g)]]
BY DEF Content, PhotoOf, HasSize, IsMarked, GroupIds, GroupOf

\* The rows of a photo are the same.
SameRows(c, other, p) ==
    /\ \A r : r.photo = p => (r \in c.tags <=> r \in other.tags)
    /\ \A r : r.photo = p => (r \in c.flags <=> r \in other.flags)
    /\ \A r : r.photo = p => (r \in c.geometry <=> r \in other.geometry)
    /\ \A r : r.photo = p => (r \in c.generalFlags <=> r \in other.generalFlags)

\* A photo with the same rows is read the same.
LEMMA SamePhoto ==
    ASSUME NEW c, NEW other, NEW p, SameRows(c, other, p)
    PROVE  PhotoOf(other, p) = PhotoOf(c, p)
<1>1. GetTags(other, p) = GetTags(c, p)
  BY SameTags DEF SameRows
<1>2. {r \in other.flags : r.photo = p} = {r \in c.flags : r.photo = p}
  BY DEF SameRows
<1>3. GetFlags(other, p) = GetFlags(c, p)
  <2> DEFINE Set(rows) == UNION {r.on : r \in rows}
  <2>1. /\ GetFlags(other, p) = Set({r \in other.flags : r.photo = p})
        /\ GetFlags(c, p) = Set({r \in c.flags : r.photo = p})
    BY DEF GetFlags
  <2> HIDE DEF Set
  <2> QED  BY <1>2, <2>1
<1>4. HasSize(other, p) = HasSize(c, p)
  BY DEF SameRows, HasSize
<1>5. IsMarked(other, p) = IsMarked(c, p)
  BY DEF SameRows, IsMarked
<1> QED  BY <1>1, <1>3, <1>4, <1>5 DEF PhotoOf

\* A group is the only one with its id.
LEMMA GroupIs ==
    ASSUME NEW c, UniqueGroups(c), NEW row \in c.groups
    PROVE  GroupOf(c, row.id) = [representative |-> row.representative,
                                 members |-> MembersOf(c, row.id)]
<1>1. (CHOOSE r \in c.groups : r.id = row.id) = row
  BY DEF UniqueGroups
<1> QED  BY <1>1 DEF GroupOf

\* The flags as they were stored.
LEMMA FlagsAsStored ==
    ASSUME NEW c, NEW other, NEW p, NEW d, "flags" \in DOMAIN d,
           other.flags = FlagRows(c.flags, p, d)
    PROVE  GetFlags(other, p) = d.flags
<1> DEFINE row == [photo |-> p, on |-> d.flags]
<1>1. other.flags = {r \in c.flags : r.photo # p} \cup {row}
  BY DEF FlagRows
<1>2. row.photo = p /\ row.on = d.flags
  OBVIOUS
<1> HIDE DEF row
<1>3. {f \in other.flags : f.photo = p} = {row}
  BY <1>1, <1>2
<1>4. {r.on : r \in {f \in other.flags : f.photo = p}} = {d.flags}
  BY <1>2, <1>3
<1> QED  BY <1>4 DEF GetFlags

\* What storeData() changes for the readers.
LEMMA StoredPhoto ==
    ASSUME NEW c \in Contents, NEW p \in Nat, NEW d, IsDelta(d)
    PROVE  /\ PhotoOf(Stored(c, p, d), p) = Promised!Change(PhotoOf(c, p), d)
           /\ \A q : q # p => PhotoOf(Stored(c, p, d), q) = PhotoOf(c, q)
<1> DEFINE s == Stored(c, p, d)
<1>1. /\ s.generalFlags = c.generalFlags
      /\ s.tags = TagRows(c.tags, p, d)
      /\ s.geometry = GeometryRows(c.geometry, p, d)
      /\ s.flags = FlagRows(c.flags, p, d)
  BY StoredTables
<1> HIDE DEF s
<1>2. ASSUME NEW q, q # p  PROVE PhotoOf(s, q) = PhotoOf(c, q)
  <2>1. \A r : r.photo = q => (r \in c.tags <=> r \in s.tags)
    BY <1>1, <1>2 DEF TagRows
  <2>2. \A r : r.photo = q => (r \in c.flags <=> r \in s.flags)
    BY <1>1, <1>2 DEF FlagRows
  <2>3. \A r : r.photo = q => (r \in c.geometry <=> r \in s.geometry)
    BY <1>1, <1>2 DEF GeometryRows
  <2>4. SameRows(c, s, q)
    BY <1>1, <2>1, <2>2, <2>3 DEF SameRows
  <2> QED  BY <2>4, SamePhoto
<1>3. GetTags(s, p) = IF "tags" \in DOMAIN d THEN d.tags ELSE GetTags(c, p)
  <2>1. CASE "tags" \in DOMAIN d
    BY <1>1, <2>1, TagsAsStored
  <2>2. CASE "tags" \notin DOMAIN d
    <3>1. s.tags = c.tags
      BY <1>1, <2>2 DEF TagRows
    <3> QED  BY <2>2, <3>1, SameTags
  <2> QED  BY <2>1, <2>2
<1>4. GetFlags(s, p) = IF "flags" \in DOMAIN d THEN d.flags ELSE GetFlags(c, p)
  <2>1. CASE "flags" \in DOMAIN d
    BY <1>1, <2>1, FlagsAsStored
  <2>2. CASE "flags" \notin DOMAIN d
    BY <1>1, <2>2 DEF FlagRows, GetFlags
  <2> QED  BY <2>1, <2>2
<1>5. HasSize(s, p) = IF "geometry" \in DOMAIN d THEN d.geometry ELSE HasSize(c, p)
  <2>1. CASE "geometry" \in DOMAIN d
    <3>1. [photo |-> p] \in s.geometry
      BY <1>1, <2>1 DEF GeometryRows
    <3>2. HasSize(s, p) = TRUE
      BY <3>1 DEF HasSize
    <3> QED  BY <2>1, <3>2 DEF IsDelta
  <2>2. CASE "geometry" \notin DOMAIN d
    BY <1>1, <2>2 DEF GeometryRows, HasSize
  <2> QED  BY <2>1, <2>2
<1>6. IsMarked(s, p) = IsMarked(c, p) /\ "marked" \notin DOMAIN d
  BY <1>1 DEF IsMarked, IsDelta
<1>7. PhotoOf(s, p) = Promised!Change(PhotoOf(c, p), d)
  <2> DEFINE t == GetTags(c, p)
             f == GetFlags(c, p)
             h == HasSize(c, p)
             m == IsMarked(c, p)
             x == [tags |-> t, flags |-> f, geometry |-> h, marked |-> m]
             y == [tags |-> IF "tags" \in DOMAIN d THEN d.tags ELSE t,
                   flags |-> IF "flags" \in DOMAIN d THEN d.flags ELSE f,
                   geometry |-> IF "geometry" \in DOMAIN d THEN d.geometry ELSE h,
                   marked |-> m]
  <2>1. PhotoOf(s, p) = y
    BY <1>3, <1>4, <1>5, <1>6 DEF PhotoOf
  <2>2. Promised!Change(x, d) = y
    <3> HIDE DEF t, f, h, m
    <3> QED  BY <1>6 DEF Promised!Change
  <2>3. PhotoOf(c, p) = x
    BY DEF PhotoOf
  <2> HIDE DEF x, y
  <2> QED  BY <2>1, <2>2, <2>3
<1> QED  BY <1>2, <1>7 DEF s

\* The two parts of what is read.
PhotosOf(c) == [p \in c.photos |-> PhotoOf(c, p)]
\* The groups as they are read.
GroupsOf(c) == [g \in GroupIds(c) |-> GroupOf(c, g)]

\* What clients read is these two parts.
LEMMA ContentParts ==
    ASSUME NEW c
    PROVE  /\ Content(c) = [photos |-> PhotosOf(c), groups |-> GroupsOf(c)]
           /\ DOMAIN PhotosOf(c) = c.photos /\ DOMAIN GroupsOf(c) = GroupIds(c)
           /\ Content(c).photos = PhotosOf(c) /\ Content(c).groups = GroupsOf(c)
BY ContentIs DEF PhotosOf, GroupsOf

\* The same rows of groups and members.
LEMMA SameGroups ==
    ASSUME NEW c, NEW other, other.groups = c.groups, other.members = c.members
    PROVE  GroupsOf(other) = GroupsOf(c)
<1>1. GroupIds(other) = GroupIds(c) /\ \A g : GroupOf(other, g) = GroupOf(c, g)
  BY DEF GroupIds, GroupOf, MembersOf
<1> QED  BY <1>1 DEF GroupsOf

\* The same rows of photos.
LEMMA SamePhotos ==
    ASSUME NEW c, NEW other, other.photos = c.photos,
           \A q \in c.photos : SameRows(c, other, q)
    PROVE  PhotosOf(other) = PhotosOf(c)
<1>1. \A q \in c.photos : PhotoOf(other, q) = PhotoOf(c, q)
  BY SamePhoto
<1> QED  BY <1>1 DEF PhotosOf

\* addPhotos(): one more photo, with some details.
NewDetails == [tags : TagLists, flags : SUBSET Flags, geometry : {FALSE}, marked : {FALSE}]

\* addPhotos() adds the photo, with its details, to what is read.
LEMMA AddedContent ==
    ASSUME NEW c, Good(c), NEW id \in Photos, id \notin c.photos, NEW d, IsDelta(d),
           DOMAIN d \subseteq {"tags", "flags"}
    PROVE  LET s == Stored(Inserted(c, id), id, d) IN
           /\ Content(s) = [Content(c) EXCEPT !.photos = Promised!With(@, id, PhotoOf(s, id))]
           /\ PhotoOf(s, id) \in NewDetails
<1> DEFINE i == Inserted(c, id)
           s == Stored(i, id, d)
<1>1. /\ i \in Contents /\ SameBut(c, i, "photos") /\ i.photos = c.photos \cup {id}
      /\ id \in Nat /\ c \in Contents
  BY InsertedTables, PhotosAreNumbers DEF Good
<1> HIDE DEF i
<1>2. /\ s \in Contents
      /\ s.photos = i.photos /\ s.groups = i.groups /\ s.generalFlags = i.generalFlags
      /\ s.geometry = GeometryRows(i.geometry, id, d)
      /\ s.members = MemberRows(i.members, id, d)
  <2>1. i \in Contents /\ id \in Nat
    BY <1>1
  <2> QED  BY <2>1, StoredTables
<1>3. /\ PhotoOf(s, id) = Promised!Change(PhotoOf(i, id), d)
      /\ \A q : q # id => PhotoOf(s, q) = PhotoOf(i, q)
  BY <1>1, StoredPhoto
<1> HIDE DEF s
<1>4. /\ s.groups = c.groups /\ s.members = c.members /\ s.photos = c.photos \cup {id}
      /\ s.geometry = c.geometry /\ s.generalFlags = c.generalFlags
  BY <1>1, <1>2 DEF SameBut, GeometryRows, MemberRows
<1>5. GroupsOf(s) = GroupsOf(c)
  BY <1>4, SameGroups
<1>6. \A q : PhotoOf(i, q) = PhotoOf(c, q)
  <2>1. \A q : SameRows(c, i, q)
    BY <1>1 DEF SameBut, SameRows
  <2> QED  BY <2>1, SamePhoto
<1>7. PhotosOf(s) = Promised!With(PhotosOf(c), id, PhotoOf(s, id))
  <2> DEFINE new == PhotoOf(s, id)
             f == PhotosOf(c)
  <2>1. DOMAIN f = c.photos /\ \A q \in c.photos : f[q] = PhotoOf(c, q)
    BY DEF PhotosOf
  <2>2. \A q \in c.photos : q # id /\ PhotoOf(s, q) = f[q]
    BY <1>3, <1>6, <2>1
  <2>3. PhotosOf(s) = [q \in c.photos \cup {id} |-> PhotoOf(s, q)]
    BY <1>4 DEF PhotosOf
  <2> HIDE DEF f
  <2>4. PhotosOf(s) = [q \in c.photos \cup {id} |-> IF q = id THEN new ELSE f[q]]
    BY <2>2, <2>3
  <2> HIDE DEF new
  <2>5. PhotosOf(s) = Promised!With(f, id, new)
    BY <2>1, <2>4 DEF Promised!With
  <2> QED  BY <2>5 DEF f, new
<1>8. PhotoOf(s, id) \in NewDetails
  <2>1. GetTags(s, id) \in TagLists /\ GetFlags(s, id) \in SUBSET Flags
    BY <1>2, QueriesType
  <2>2. HasSize(s, id) = FALSE /\ IsMarked(s, id) = FALSE
    <3>1. (\A r \in c.geometry : r.photo # id) /\ \A r \in c.generalFlags : r.photo # id
      BY NothingIsLeft DEF TablesOfPhotos
    <3> QED  BY <1>4, <3>1 DEF HasSize, IsMarked
  <2> DEFINE t == GetTags(s, id)
             f == GetFlags(s, id)
  <2>3. PhotoOf(s, id) = [tags |-> t, flags |-> f, geometry |-> FALSE, marked |-> FALSE]
    BY <2>2 DEF PhotoOf
  <2>4. t \in TagLists /\ f \in SUBSET Flags
    BY <2>1
  <2> HIDE DEF t, f
  <2> QED  BY <2>3, <2>4 DEF NewDetails
<1>9. Content(s) = [Content(c) EXCEPT !.photos = Promised!With(@, id, PhotoOf(s, id))]
  BY <1>5, <1>7, ContentParts
<1> QED  BY <1>8, <1>9 DEF s, i

\* addGroup(): one more group, without members.
LEMMA GroupAddedContent ==
    ASSUME NEW c, Good(c), UniqueGroups(c), NEW id \in Groups, id \notin GroupIds(c),
           NEW p, NEW other, other.photos = c.photos,
           \A q \in c.photos : SameRows(c, other, q),
           other.members = c.members,
           other.groups = c.groups \cup {[id |-> id, representative |-> p]}
    PROVE  /\ UniqueGroups(other)
           /\ Content(other) = [Content(c) EXCEPT !.groups =
                                  Promised!With(@, id, [representative |-> p, members |-> {}])]
<1> DEFINE row == [id |-> id, representative |-> p]
<1>1. row.id = id /\ row.representative = p /\ other.groups = c.groups \cup {row}
  OBVIOUS
<1> HIDE DEF row
<1>2. \A r \in c.groups : r.id # id
  BY DEF GroupIds
<1>3. UniqueGroups(other)
  BY <1>1, <1>2 DEF UniqueGroups
<1>4. GroupIds(other) = GroupIds(c) \cup {id}
  BY <1>1 DEF GroupIds
<1>5. \A g : MembersOf(other, g) = MembersOf(c, g)
  BY DEF MembersOf
<1>6. \A g \in GroupIds(c) : GroupOf(other, g) = GroupOf(c, g)
  <2> SUFFICES ASSUME NEW r \in c.groups  PROVE GroupOf(other, r.id) = GroupOf(c, r.id)
    BY DEF GroupIds
  <2>1. r \in other.groups
    BY <1>1
  <2> QED  BY <1>3, <1>5, <2>1, GroupIs
<1>7. GroupOf(other, id) = [representative |-> p, members |-> {}]
  <2>1. GroupOf(other, row.id) = [representative |-> row.representative,
                                  members |-> MembersOf(other, row.id)]
    BY <1>1, <1>3, GroupIs
  <2>2. MembersOf(c, id) = {}
    <3>1. \A m \in c.members : m.group # id
      BY <1>2 DEF Good, Consistent
    <3> QED  BY <3>1 DEF MembersOf
  <2> QED  BY <1>1, <1>5, <2>1, <2>2
<1>8. PhotosOf(other) = PhotosOf(c)
  BY SamePhotos
<1>9. GroupsOf(other) = Promised!With(GroupsOf(c), id, [representative |-> p, members |-> {}])
  <2> DEFINE new == [representative |-> p, members |-> {}]
             f == GroupsOf(c)
  <2>1. DOMAIN f = GroupIds(c) /\ \A g \in GroupIds(c) : f[g] = GroupOf(c, g)
    BY DEF GroupsOf
  <2>2. GroupsOf(other) = [g \in GroupIds(c) \cup {id} |-> GroupOf(other, g)]
    BY <1>4 DEF GroupsOf
  <2>3. \A g \in GroupIds(c) \cup {id} : GroupOf(other, g) = IF g = id THEN new ELSE f[g]
    BY <1>6, <1>7, <2>1
  <2> HIDE DEF f, new
  <2>4. GroupsOf(other) = [g \in GroupIds(c) \cup {id} |-> IF g = id THEN new ELSE f[g]]
    BY <2>2, <2>3
  <2>5. GroupsOf(other) = Promised!With(f, id, new)
    BY <2>1, <2>4 DEF Promised!With
  <2> QED  BY <2>5 DEF f, new
<1>10. Content(other) = [Content(c) EXCEPT !.groups =
                           Promised!With(@, id, [representative |-> p, members |-> {}])]
  BY <1>8, <1>9, ContentParts
<1> QED  BY <1>3, <1>10

\* removeGroup(): the group and its members are gone.
LEMMA GroupRemovedContent ==
    ASSUME NEW c \in Contents, UniqueGroups(c), NEW row \in c.groups,
           NEW other, other.photos = c.photos, \A q \in c.photos : SameRows(c, other, q),
           other.groups = c.groups \ {row},
           other.members = {m \in c.members : m.group # row.id}
    PROVE  /\ UniqueGroups(other)
           /\ Content(other) = [Content(c) EXCEPT !.groups =
                                  Promised!Restrict(@, DOMAIN @ \ {row.id})]
<1> DEFINE g == row.id
<1>1. UniqueGroups(other)
  BY DEF UniqueGroups
<1>2. GroupIds(other) = GroupIds(c) \ {g}
  <2>1. \A r \in c.groups : r \in other.groups <=> r.id # g
    BY DEF UniqueGroups
  <2> QED  BY <2>1 DEF GroupIds
<1>3. \A h : h # g => MembersOf(other, h) = MembersOf(c, h)
  BY DEF MembersOf
<1>4. \A h \in GroupIds(other) : GroupOf(other, h) = GroupOf(c, h)
  <2> SUFFICES ASSUME NEW r \in other.groups  PROVE GroupOf(other, r.id) = GroupOf(c, r.id)
    BY DEF GroupIds
  <2>1. r \in c.groups /\ r.id # g
    BY DEF UniqueGroups
  <2> QED  BY <1>1, <1>3, <2>1, GroupIs
<1>5. PhotosOf(other) = PhotosOf(c)
  BY SamePhotos
<1>6. GroupsOf(other) = Promised!Restrict(GroupsOf(c), GroupIds(c) \ {g})
  <2> DEFINE f == GroupsOf(c)
  <2>1. \A h \in GroupIds(other) : f[h] = GroupOf(c, h)
    BY <1>2 DEF GroupsOf
  <2>2. GroupsOf(other) = [h \in GroupIds(other) |-> GroupOf(other, h)]
    BY DEF GroupsOf
  <2> HIDE DEF f
  <2>3. GroupsOf(other) = [h \in GroupIds(other) |-> f[h]]
    BY <1>4, <2>1, <2>2
  <2> QED  BY <1>2, <2>3 DEF Promised!Restrict, f
<1>7. Content(other) = [Content(c) EXCEPT !.groups = Promised!Restrict(@, DOMAIN @ \ {g})]
  <2>1. GroupsOf(other) = Promised!Restrict(Content(c).groups, DOMAIN Content(c).groups \ {g})
    BY <1>6, ContentParts
  <2> QED  BY <1>5, <2>1, ContentParts
<1> QED  BY <1>1, <1>7

\* removePhoto(): the photo is gone, and no group needed it.
LEMMA RemovedContent ==
    ASSUME Good(db), NEW p, Consistent(Last(RemovalChain(p)))
    PROVE  LET last == Last(RemovalChain(p)) IN
           /\ Content(last) = [Content(db) EXCEPT !.photos = Promised!Restrict(@, DOMAIN @ \ {p})]
           /\ \A g \in DOMAIN Content(db).groups :
                 /\ Content(db).groups[g].representative # p
                 /\ p \notin Content(db).groups[g].members
           /\ last.groups = db.groups
           /\ p \notin db.photos => Content(last) = Content(db)
<1> DEFINE last == Last(RemovalChain(p))
<1>1. /\ last.photos = db.photos \ {p}
      /\ last.flags = {r \in db.flags : r.photo # p}
      /\ last.generalFlags = {r \in db.generalFlags : r.photo # p}
      /\ last.geometry = {r \in db.geometry : r.photo # p}
      /\ last.tags = {r \in db.tags : r.photo # p}
      /\ last.groups = db.groups /\ last.members = db.members
  BY RemovalTables DEF Good
<1>2. Consistent(last)
  OBVIOUS
<1> HIDE DEF last
<1>3. GroupsOf(last) = GroupsOf(db)
  BY <1>1, SameGroups
<1>4. ASSUME NEW q, q # p  PROVE PhotoOf(last, q) = PhotoOf(db, q)
  <2>1. SameRows(db, last, q)
    BY <1>1, <1>4 DEF SameRows
  <2> QED  BY <2>1, SamePhoto
<1>5. PhotosOf(last) = Promised!Restrict(PhotosOf(db), db.photos \ {p})
  <2> DEFINE f == PhotosOf(db)
  <2>1. \A q \in db.photos : f[q] = PhotoOf(db, q)
    BY DEF PhotosOf
  <2>2. PhotosOf(last) = [q \in db.photos \ {p} |-> PhotoOf(last, q)]
    BY <1>1 DEF PhotosOf
  <2> HIDE DEF f
  <2>3. PhotosOf(last) = [q \in db.photos \ {p} |-> f[q]]
    BY <1>4, <2>1, <2>2
  <2> QED  BY <2>3 DEF Promised!Restrict, f
<1>6. Content(last) = [Content(db) EXCEPT !.photos = Promised!Restrict(@, DOMAIN @ \ {p})]
  <2>1. PhotosOf(last) = Promised!Restrict(Content(db).photos, DOMAIN Content(db).photos \ {p})
    BY <1>5, ContentParts
  <2> QED  BY <1>3, <2>1, ContentParts
<1>7. ASSUME NEW g \in GroupIds(db)
      PROVE  GroupOf(db, g).representative # p /\ p \notin GroupOf(db, g).members
  <2>1. (CHOOSE r \in db.groups : r.id = g) \in db.groups
    BY DEF GroupIds
  <2>2. (\A r \in db.groups : r.representative # p) /\ \A m \in db.members : m.photo # p
    BY <1>1, <1>2, ForeignKeys
  <2>3. p \notin MembersOf(db, g)
    BY <2>2 DEF MembersOf
  <2> QED  BY <2>1, <2>2, <2>3 DEF GroupOf
<1>8. \A g \in DOMAIN Content(db).groups :
         /\ Content(db).groups[g].representative # p
         /\ p \notin Content(db).groups[g].members
  <2>1. Content(db).groups = GroupsOf(db) /\ DOMAIN GroupsOf(db) = GroupIds(db)
    BY ContentParts
  <2>2. \A g \in GroupIds(db) : GroupsOf(db)[g] = GroupOf(db, g)
    BY DEF GroupsOf
  <2> QED  BY <1>7, <2>1, <2>2
<1>9. ASSUME p \notin db.photos  PROVE Content(last) = Content(db)
  <2>1. last.photos = db.photos /\ \A q \in db.photos : PhotoOf(last, q) = PhotoOf(db, q)
    BY <1>1, <1>4, <1>9
  <2>2. PhotosOf(last) = PhotosOf(db)
    BY <2>1 DEF PhotosOf
  <2> QED  BY <1>3, <2>2, ContentParts
<1> QED  BY <1>1, <1>6, <1>8, <1>9 DEF last

\* markStagedAsReviewed(): no photo is to be reviewed.
LEMMA ReviewedContent ==
    ASSUME NEW c \in Contents
    PROVE  /\ Content(Reviewed(c)) =
                [Content(c) EXCEPT !.photos = [p \in DOMAIN @ |-> Promised!Reviewed(@[p])]]
           /\ Reviewed(c).groups = c.groups
<1> DEFINE s == Reviewed(c)
<1>1. /\ s \in Contents /\ SameBut(c, s, "flags")
      /\ s.flags = {Unstaged(r) : r \in c.flags}
      /\ \A r \in c.flags : /\ Unstaged(r).photo = r.photo
                            /\ Unstaged(r).on = r.on \ {"StagingArea"}
  BY ReviewedTables
<1> HIDE DEF s
<1>2. GroupsOf(s) = GroupsOf(c)
  BY <1>1, SameGroups DEF SameBut
<1>3. ASSUME NEW p  PROVE PhotoOf(s, p) = Promised!Reviewed(PhotoOf(c, p))
  <2>1. GetTags(s, p) = GetTags(c, p)
    BY <1>1, SameTags DEF SameBut
  <2>2. HasSize(s, p) = HasSize(c, p) /\ IsMarked(s, p) = IsMarked(c, p)
    BY <1>1 DEF SameBut, HasSize, IsMarked
  <2>3. GetFlags(s, p) = GetFlags(c, p) \ {"StagingArea"}
    <3>1. ASSUME NEW x  PROVE x \in GetFlags(s, p) <=> x \in GetFlags(c, p) \ {"StagingArea"}
      <4>1. x \in GetFlags(s, p) <=> \E r \in s.flags : r.photo = p /\ x \in r.on
        BY DEF GetFlags
      <4>2. x \in GetFlags(c, p) <=> \E r \in c.flags : r.photo = p /\ x \in r.on
        BY DEF GetFlags
      <4> QED  BY <1>1, <4>1, <4>2
    <3> QED  BY <3>1
  <2> QED  BY <2>1, <2>2, <2>3 DEF PhotoOf, Promised!Reviewed
<1>4. PhotosOf(s) = [p \in c.photos |-> Promised!Reviewed(PhotosOf(c)[p])]
  BY <1>1, <1>3 DEF PhotosOf, SameBut
<1>5. Content(s) = [Content(c) EXCEPT !.photos = [p \in DOMAIN @ |-> Promised!Reviewed(@[p])]]
  BY <1>2, <1>4, ContentParts
<1> QED  BY <1>1, <1>5 DEF s, SameBut

\* set(): one photo is marked.
LEMMA MarkedContent ==
    ASSUME NEW c \in Contents, NEW p \in Nat
    PROVE  LET marked == UpdateOrInsert(c, "generalFlags", [photo |-> p])
               e == [marked |-> TRUE]
           IN  /\ Content(marked) =
                    [Content(c) EXCEPT !.photos =
                       [q \in DOMAIN @ |-> IF q \in {p} THEN Promised!Change(@[q], e) ELSE @[q]]]
               /\ marked.groups = c.groups
               /\ [photo |-> p] \in marked.generalFlags /\ marked.photos = c.photos
<1> DEFINE s == UpdateOrInsert(c, "generalFlags", [photo |-> p])
           e == [marked |-> TRUE]
<1>1. /\ s \in Contents /\ SameBut(c, s, "generalFlags")
      /\ s.generalFlags = {r \in c.generalFlags : r.photo # p} \cup {[photo |-> p]}
  BY MarkedTables
<1> HIDE DEF s
<1>2. GroupsOf(s) = GroupsOf(c)
  BY <1>1, SameGroups DEF SameBut
<1>3. ASSUME NEW q, q # p  PROVE PhotoOf(s, q) = PhotoOf(c, q)
  <2>1. SameRows(c, s, q)
    BY <1>1, <1>3 DEF SameBut, SameRows
  <2> QED  BY <2>1, SamePhoto
<1>4. PhotoOf(s, p) = Promised!Change(PhotoOf(c, p), e)
  <2>1. GetTags(s, p) = GetTags(c, p)
    BY <1>1, SameTags DEF SameBut
  <2>2. GetFlags(s, p) = GetFlags(c, p) /\ HasSize(s, p) = HasSize(c, p)
    BY <1>1 DEF SameBut, GetFlags, HasSize
  <2>3. IsMarked(s, p) = TRUE
    <3>1. [photo |-> p] \in s.generalFlags
      BY <1>1
    <3> QED  BY <3>1 DEF IsMarked
  <2> DEFINE t == GetTags(c, p)
             f == GetFlags(c, p)
             h == HasSize(c, p)
             m == IsMarked(c, p)
             x == [tags |-> t, flags |-> f, geometry |-> h, marked |-> m]
  <2>4. PhotoOf(s, p) = [tags |-> t, flags |-> f, geometry |-> h, marked |-> TRUE]
    BY <2>1, <2>2, <2>3 DEF PhotoOf
  <2>5. Promised!Change(x, e) = [tags |-> t, flags |-> f, geometry |-> h, marked |-> TRUE]
    <3>1. /\ "tags" \notin DOMAIN e /\ "flags" \notin DOMAIN e /\ "geometry" \notin DOMAIN e
          /\ "marked" \in DOMAIN e /\ e["marked"] = TRUE
      OBVIOUS
    <3> HIDE DEF e, t, f, h, m
    <3>2. Promised!Change(x, e) = [g \in {"tags", "flags", "geometry", "marked"} |->
             IF g \in DOMAIN e THEN e[g] ELSE x[g]]
      BY DEF Promised!Change
    <3>3. Promised!Change(x, e) = [tags |-> t, flags |-> f, geometry |-> h, marked |-> e["marked"]]
      BY <3>1, <3>2
    <3> QED  BY <3>1, <3>3
  <2>6. PhotoOf(c, p) = x
    BY DEF PhotoOf
  <2> QED  BY <2>4, <2>5, <2>6
<1> HIDE DEF e
<1>5. PhotosOf(s) = [q \in c.photos |-> IF q \in {p} THEN Promised!Change(PhotosOf(c)[q], e)
                                        ELSE PhotosOf(c)[q]]
  <2>1. s.photos = c.photos
    BY <1>1 DEF SameBut
  <2>2. \A q \in c.photos : PhotosOf(c)[q] = PhotoOf(c, q)
    BY DEF PhotosOf
  <2>3. \A q \in c.photos : PhotoOf(s, q) = IF q \in {p} THEN Promised!Change(PhotosOf(c)[q], e)
                                            ELSE PhotosOf(c)[q]
    BY <1>3, <1>4, <2>2
  <2>4. PhotosOf(s) = [q \in c.photos |-> PhotoOf(s, q)]
    BY <2>1 DEF PhotosOf
  <2> QED  BY <2>3, <2>4
<1>6. Content(s) = [Content(c) EXCEPT !.photos =
         [q \in DOMAIN @ |-> IF q \in {p} THEN Promised!Change(@[q], e) ELSE @[q]]]
  BY <1>2, <1>5, ContentParts
<1>7. s.groups = c.groups /\ [photo |-> p] \in s.generalFlags /\ s.photos = c.photos
  BY <1>1 DEF SameBut
<1> QED  BY <1>6, <1>7 DEF s, e

-----------------------------------------------------------------------------
(* What a batch changes *)

\* The photos of S, and only they, got the delta.
Changes(c, other, S, d) ==
    /\ other.photos = c.photos /\ other.groups = c.groups
    /\ \A q : PhotoOf(other, q) = IF q \in S THEN Promised!Change(PhotoOf(c, q), d)
                                 ELSE PhotoOf(c, q)
    /\ other.members = IF "group" \in DOMAIN d /\ d.group # <<>>
                       THEN {r \in c.members : r.photo \notin S}
                            \cup {[group |-> d.group[1], photo |-> p] : p \in S}
                       ELSE c.members

\* A delta changes a photo once.
LEMMA ChangedTwice ==
    ASSUME NEW x, NEW d
    PROVE  Promised!Change(Promised!Change(x, d), d) = Promised!Change(x, d)
<1> DEFINE y == [f \in DOMAIN x |-> IF f \in DOMAIN d THEN d[f] ELSE x[f]]
<1>1. Promised!Change(x, d) = y
  BY DEF Promised!Change
<1>2. DOMAIN y = DOMAIN x /\ \A f \in DOMAIN x : f \in DOMAIN d => y[f] = d[f]
  OBVIOUS
<1>3. y = [f \in DOMAIN x |-> y[f]]
  OBVIOUS
<1> HIDE DEF y
<1>4. Promised!Change(y, d) = [f \in DOMAIN x |-> IF f \in DOMAIN d THEN d[f] ELSE y[f]]
  BY <1>2 DEF Promised!Change
<1>5. Promised!Change(y, d) = [f \in DOMAIN x |-> y[f]]
  BY <1>2, <1>4
<1> QED  BY <1>1, <1>3, <1>5

\* An empty batch.
LEMMA ChangesNothing ==
    ASSUME NEW c, NEW d
    PROVE  Changes(c, c, {}, d)
BY DEF Changes

\* One more photo.
LEMMA ChangesNext ==
    ASSUME NEW c, NEW other \in Contents, NEW S, NEW p \in Nat, NEW d, IsDelta(d),
           Changes(c, other, S, d)
    PROVE  Changes(c, Stored(other, p, d), S \cup {p}, d)
<1> DEFINE s == Stored(other, p, d)
<1>1. s.photos = other.photos /\ s.groups = other.groups
      /\ s.members = MemberRows(other.members, p, d)
  BY StoredTables
<1>2. /\ PhotoOf(s, p) = Promised!Change(PhotoOf(other, p), d)
      /\ \A q : q # p => PhotoOf(s, q) = PhotoOf(other, q)
  BY StoredPhoto
<1> HIDE DEF s
<1>3. ASSUME NEW q
      PROVE  PhotoOf(s, q) = IF q \in S \cup {p} THEN Promised!Change(PhotoOf(c, q), d)
                             ELSE PhotoOf(c, q)
  <2> DEFINE x == PhotoOf(c, q)
             y == PhotoOf(other, q)
  <2>1. y = IF q \in S THEN Promised!Change(x, d) ELSE x
    BY DEF Changes
  <2>2. PhotoOf(s, q) = IF q = p THEN Promised!Change(y, d) ELSE y
    BY <1>2
  <2> HIDE DEF x, y
  <2>3. Promised!Change(Promised!Change(x, d), d) = Promised!Change(x, d)
    BY ChangedTwice
  <2>4. PhotoOf(s, q) = IF q \in S \cup {p} THEN Promised!Change(x, d) ELSE x
    <3>1. CASE q = p
      BY <2>1, <2>2, <2>3, <3>1
    <3>2. CASE q # p
      BY <2>1, <2>2, <3>2
    <3> QED  BY <3>1, <3>2
  <2> QED  BY <2>4 DEF x
<1>4. s.members = IF "group" \in DOMAIN d /\ d.group # <<>>
                  THEN {r \in c.members : r.photo \notin S \cup {p}}
                       \cup {[group |-> d.group[1], photo |-> q] : q \in S \cup {p}}
                  ELSE c.members
  <2>1. CASE "group" \in DOMAIN d /\ d.group # <<>>
    <3> DEFINE g == d.group[1]
               Row(q) == [group |-> g, photo |-> q]
    <3>1. other.members = {r \in c.members : r.photo \notin S} \cup {Row(q) : q \in S}
      BY <2>1 DEF Changes
    <3>2. s.members = {r \in other.members : r.photo # p} \cup {Row(p)}
      BY <1>1, <2>1 DEF MemberRows
    <3>3. \A q : Row(q).photo = q
      OBVIOUS
    <3> HIDE DEF Row
    <3>4. ASSUME NEW r
          PROVE  r \in s.members <=> r \in {m \in c.members : m.photo \notin S \cup {p}}
                                           \cup {Row(q) : q \in S \cup {p}}
      BY <3>1, <3>2, <3>3
    <3>5. s.members = {m \in c.members : m.photo \notin S \cup {p}} \cup {Row(q) : q \in S \cup {p}}
      BY <3>4
    <3> QED  BY <2>1, <3>5 DEF Row
  <2>2. CASE ~ ("group" \in DOMAIN d /\ d.group # <<>>)
    <3>1. s.members = other.members
      BY <1>1, <2>2 DEF MemberRows
    <3>2. other.members = c.members
      BY <2>2 DEF Changes
    <3> QED  BY <2>2, <3>1, <3>2
  <2> QED  BY <2>1, <2>2
<1>5. s.photos = c.photos /\ s.groups = c.groups
  BY <1>1 DEF Changes
<1>6. Changes(c, s, S \cup {p}, d)
  BY <1>3, <1>4, <1>5 DEF Changes
<1> QED  BY <1>6 DEF s

\* The first photos of a batch.
Firsts(photos, k) == {photos[i] : i \in 1 .. k}

\* All of the batch, by its least part that did something else.
LEMMA ChangesAll ==
    ASSUME NEW photos \in Seq(Photos), NEW d, IsDelta(d),
           NEW w \in [0 .. Len(photos) -> Contents],
           \A k \in 1 .. Len(photos) : w[k] = Stored(w[k - 1], photos[k], d)
    PROVE  Changes(w[0], w[Len(photos)], Firsts(photos, Len(photos)), d)
<1> DEFINE Bad == {k \in 0 .. Len(photos) : ~ Changes(w[0], w[k], Firsts(photos, k), d)}
<1>1. Len(photos) \in Nat
  OBVIOUS
<1>2. SUFFICES ASSUME Bad # {}  PROVE FALSE
  BY <1>1
<1>3. PICK m \in Bad : \A n \in Bad : m <= n
  <2>1. Bad \subseteq Nat
    OBVIOUS
  <2> HIDE DEF Bad
  <2> QED  BY <1>2, <2>1, LeastNumber
<1>4. m \in 0 .. Len(photos) /\ ~ Changes(w[0], w[m], Firsts(photos, m), d)
  BY <1>3
<1>5. m # 0
  <2>1. Firsts(photos, 0) = {}
    BY DEF Firsts
  <2> QED  BY <1>4, <2>1, ChangesNothing
<1>6. m \in 1 .. Len(photos) /\ m - 1 \in 0 .. Len(photos) /\ m - 1 < m /\ photos[m] \in Nat
  <2>1. m \in 1 .. Len(photos) /\ m - 1 \in 0 .. Len(photos) /\ m - 1 < m
    BY <1>1, <1>4, <1>5
  <2>2. photos[m] \in Photos
    BY <2>1
  <2> QED  BY <2>1, <2>2, PhotosAreNumbers
<1> DEFINE c == w[0]
           other == w[m - 1]
           S == Firsts(photos, m - 1)
<1>7. other \in Contents /\ Changes(c, other, S, d) /\ w[m] = Stored(other, photos[m], d)
  BY <1>3, <1>6
<1>8. Firsts(photos, m) = S \cup {photos[m]}
  <2>1. 1 .. m = (1 .. (m - 1)) \cup {m}
    BY <1>6
  <2> QED  BY <2>1 DEF Firsts
<1> HIDE DEF c, other, S
<1>9. Changes(c, Stored(other, photos[m], d), S \cup {photos[m]}, d)
  BY <1>6, <1>7, ChangesNext
<1> QED  BY <1>4, <1>7, <1>8, <1>9 DEF c

\* update() with other details.
LEMMA UpdatedContent ==
    ASSUME NEW c, NEW other, NEW S, NEW d, Changes(c, other, S, d), "group" \notin DOMAIN d
    PROVE  Content(other) = [Content(c) EXCEPT !.photos =
              [p \in DOMAIN @ |-> IF p \in S \cap c.photos THEN Promised!Change(@[p], d) ELSE @[p]]]
<1>1. other.photos = c.photos /\ other.groups = c.groups /\ other.members = c.members
  BY DEF Changes
<1>2. GroupsOf(other) = GroupsOf(c)
  BY <1>1, SameGroups
<1> DEFINE f == PhotosOf(c)
<1>3. DOMAIN f = c.photos /\ \A q \in c.photos : f[q] = PhotoOf(c, q)
  BY DEF PhotosOf
<1>4. \A q \in c.photos : PhotoOf(other, q) = IF q \in S \cap c.photos
                                             THEN Promised!Change(f[q], d) ELSE f[q]
  BY <1>3 DEF Changes
<1>5. PhotosOf(other) = [q \in c.photos |-> PhotoOf(other, q)]
  BY <1>1 DEF PhotosOf
<1> HIDE DEF f
<1>6. PhotosOf(other) = [q \in DOMAIN f |-> IF q \in S \cap c.photos
                                           THEN Promised!Change(f[q], d) ELSE f[q]]
  BY <1>3, <1>4, <1>5
<1> QED  BY <1>2, <1>6, ContentParts DEF f

\* A delta that only names a group changes no details.
LEMMA GroupIsNoDetail ==
    ASSUME NEW c, NEW p, NEW v
    PROVE  Promised!Change(PhotoOf(c, p), [group |-> v]) = PhotoOf(c, p)
<1> DEFINE x == PhotoOf(c, p)
           d == [group |-> v]
<1>1. DOMAIN x = {"tags", "flags", "geometry", "marked"} /\ x = [f \in DOMAIN x |-> x[f]]
  BY DEF PhotoOf
<1>2. \A f \in DOMAIN x : f \notin DOMAIN d
  BY <1>1
<1> HIDE DEF x, d
<1>3. Promised!Change(x, d) = [f \in DOMAIN x |-> x[f]]
  BY <1>2 DEF Promised!Change
<1> QED  BY <1>1, <1>3 DEF x, d

\* No group to join.
LEMMA NothingJoined ==
    ASSUME NEW c, NEW other, NEW S, Changes(c, other, S, [group |-> <<>>])
    PROVE  Content(other) = Content(c) /\ other.groups = c.groups
<1> DEFINE d == [group |-> <<>>]
<1>1. d.group = <<>>
  OBVIOUS
<1>2. other.photos = c.photos /\ other.groups = c.groups /\ other.members = c.members
  BY <1>1 DEF Changes
<1>3. \A q : PhotoOf(other, q) = PhotoOf(c, q)
  BY GroupIsNoDetail DEF Changes
<1>4. PhotosOf(other) = PhotosOf(c)
  BY <1>2, <1>3 DEF PhotosOf
<1>5. GroupsOf(other) = GroupsOf(c)
  BY <1>2, SameGroups
<1> QED  BY <1>2, <1>4, <1>5, ContentParts

\* The photos of S join a group, and leave the others.
LEMMA JoinedContent ==
    ASSUME NEW c \in Contents, UniqueGroups(c), NEW other, Consistent(other), NEW g,
           NEW S, S # {}, Changes(c, other, S, [group |-> <<g, "Member">>])
    PROVE  /\ g \in GroupIds(c) /\ S \subseteq c.photos
           /\ Content(other) = [Content(c) EXCEPT !.groups =
                [h \in DOMAIN @ |-> IF h = g THEN Promised!Joined(@[h], S)
                                    ELSE Promised!Left(@[h], S)]]
           /\ other.groups = c.groups
<1> DEFINE d == [group |-> <<g, "Member">>]
           Row(p) == [group |-> g, photo |-> p]
<1>1. "group" \in DOMAIN d /\ d.group # <<>> /\ d.group[1] = g
  OBVIOUS
<1>2. Changes(c, other, S, d)
  OBVIOUS
<1> HIDE DEF d
<1>3. /\ other.photos = c.photos /\ other.groups = c.groups
      /\ other.members = {r \in c.members : r.photo \notin S} \cup {Row(p) : p \in S}
  BY <1>1, <1>2 DEF Changes
<1>4. \A p : Row(p).group = g /\ Row(p).photo = p
  OBVIOUS
<1> HIDE DEF Row
<1>5. /\ \A row \in other.members : row.photo \in other.photos
      /\ \A row \in other.members : \E r \in other.groups : r.id = row.group
  BY ForeignKeys
<1>6. S \subseteq c.photos
  BY <1>3, <1>4, <1>5
<1>7. g \in GroupIds(c)
  <2>1. PICK p \in S : TRUE
    OBVIOUS
  <2>2. Row(p) \in other.members
    BY <1>3, <2>1
  <2> QED  BY <1>3, <1>4, <1>5, <2>2 DEF GroupIds
<1>8. PhotosOf(other) = PhotosOf(c)
  <2>1. \A q : PhotoOf(other, q) = PhotoOf(c, q)
    BY GroupIsNoDetail DEF Changes
  <2> QED  BY <1>3, <2>1 DEF PhotosOf
<1>9. \A h : MembersOf(other, h) = IF h = g THEN MembersOf(c, h) \cup S ELSE MembersOf(c, h) \ S
  <2> SUFFICES ASSUME NEW h
               PROVE  MembersOf(other, h)
                      = IF h = g THEN MembersOf(c, h) \cup S ELSE MembersOf(c, h) \ S
    OBVIOUS
  <2>1. \A p : /\ p \in MembersOf(other, h) <=> \E r \in other.members : r.group = h /\ r.photo = p
               /\ p \in MembersOf(c, h) <=> \E r \in c.members : r.group = h /\ r.photo = p
    BY DEF MembersOf
  <2>2. ASSUME NEW p, p \in S  PROVE p \in MembersOf(other, h) <=> h = g
    BY <1>3, <1>4, <2>1, <2>2
  <2>3. ASSUME NEW p, p \notin S  PROVE p \in MembersOf(other, h) <=> p \in MembersOf(c, h)
    BY <1>3, <1>4, <2>1, <2>3
  <2> QED  BY <2>2, <2>3
<1>10. GroupIds(other) = GroupIds(c) /\ UniqueGroups(other)
  BY <1>3 DEF GroupIds, UniqueGroups
<1>11. ASSUME NEW h \in GroupIds(c)
       PROVE  GroupOf(other, h) = IF h = g THEN Promised!Joined(GroupOf(c, h), S)
                                  ELSE Promised!Left(GroupOf(c, h), S)
  <2>1. PICK row \in c.groups : row.id = h
    BY DEF GroupIds
  <2> DEFINE was == MembersOf(c, h)
             now == MembersOf(other, h)
             rep == row.representative
  <2>2. GroupOf(c, h) = [representative |-> rep, members |-> was]
    BY <2>1, GroupIs
  <2>3. row \in other.groups
    BY <1>3, <2>1
  <2>4. GroupOf(other, h) = [representative |-> rep, members |-> now]
    BY <1>10, <2>1, <2>3, GroupIs
  <2>5. now = IF h = g THEN was \cup S ELSE was \ S
    BY <1>9
  <2> HIDE DEF was, now, rep
  <2>6. /\ Promised!Joined([representative |-> rep, members |-> was], S)
             = [representative |-> rep, members |-> was \cup S]
        /\ Promised!Left([representative |-> rep, members |-> was], S)
             = [representative |-> rep, members |-> was \ S]
    BY DEF Promised!Joined, Promised!Left
  <2> QED  BY <2>2, <2>4, <2>5, <2>6
<1>12. GroupsOf(other) = [h \in DOMAIN GroupsOf(c) |->
                            IF h = g THEN Promised!Joined(GroupsOf(c)[h], S)
                            ELSE Promised!Left(GroupsOf(c)[h], S)]
  <2> DEFINE f == GroupsOf(c)
  <2>1. DOMAIN f = GroupIds(c) /\ \A h \in GroupIds(c) : f[h] = GroupOf(c, h)
    BY DEF GroupsOf
  <2>2. GroupsOf(other) = [h \in GroupIds(c) |-> GroupOf(other, h)]
    BY <1>10 DEF GroupsOf
  <2> HIDE DEF f
  <2>3. \A h \in GroupIds(c) : GroupOf(other, h) = IF h = g THEN Promised!Joined(f[h], S)
                                                   ELSE Promised!Left(f[h], S)
    BY <1>11, <2>1
  <2>4. GroupsOf(other) = [h \in DOMAIN f |-> IF h = g THEN Promised!Joined(f[h], S)
                                             ELSE Promised!Left(f[h], S)]
    BY <2>1, <2>2, <2>3
  <2> QED  BY <2>4 DEF f
<1>13. Content(other) = [Content(c) EXCEPT !.groups =
                [h \in DOMAIN @ |-> IF h = g THEN Promised!Joined(@[h], S)
                                    ELSE Promised!Left(@[h], S)]]
  BY <1>8, <1>12, ContentParts
<1> QED  BY <1>3, <1>6, <1>7, <1>13

-----------------------------------------------------------------------------
(* All or nothing *)

\* The content that a call leads to is what clients read next, and what was
\* durable, or is now.
LEMMA LeadsContent ==
    ASSUME NEW c, Leads(c)
    PROVE  Content(db)' = Content(c) /\ Content(disk)' \in {Content(disk), Content(db)'}
<1>1. ASSUME NEW x, x = db'  PROVE Content(db)' = Content(x)
  BY <1>1 DEF Content
<1>2. ASSUME NEW x, x = disk'  PROVE Content(disk)' = Content(x)
  BY <1>2 DEF Content
<1>3. db' = c /\ disk' \in {disk, c}
  BY DEF Leads
<1>4. Content(db)' = Content(c)
  BY <1>1, <1>3
<1>5. Content(disk)' = Content(disk) \/ Content(disk)' = Content(c)
  BY <1>2, <1>3
<1> QED  BY <1>4, <1>5

\* Going back to the committed content is a loss of the abstract backend.
LEMMA BackLoses ==
    ASSUME Back
    PROVE  Promised!Lose
<1>1. ASSUME NEW x, x = db'  PROVE Content(db)' = Content(x)
  BY <1>1 DEF Content
<1>2. ASSUME NEW x, x = disk'  PROVE Content(disk)' = Content(x)
  BY <1>2 DEF Content
<1>3. Content(db)' = Content(disk) /\ Content(disk)' = Content(disk)
  BY <1>1, <1>2 DEF Back
<1> QED  BY <1>3 DEF Promised!Lose

\* An unchanged content is a stutter of the abstract backend.
LEMMA StaysStutters ==
    ASSUME Stays
    PROVE  UNCHANGED <<Content(db), Content(disk)>>
BY DEF Stays, Content

\* What a step may come to: nothing, the committed content, or a call of the
\* abstract backend.
Answers == Stays \/ Back \/ (Promised!Call /\ \E c : UniqueGroups(c) /\ Leads(c))

\* Nothing clients could read is changed.
LEMMA SameContentAnswers ==
    ASSUME NEW c, Leads(c), UniqueGroups(c), Content(c) = Content(db)
    PROVE  Answers
<1>1. Content(db)' = Content(db) /\ Content(disk)' \in {Content(disk), Content(db)'}
  BY LeadsContent
<1> DEFINE e == [marked |-> TRUE]
           old == Content(db)
           f == PhotosOf(db)
<1>2. old = [photos |-> f, groups |-> GroupsOf(db)]
  BY ContentParts
<1>3. f = [p \in DOMAIN f |-> f[p]]
  BY DEF PhotosOf
<1> HIDE DEF f, old
<1>4. old.photos = f
  BY <1>2
<1>5. old = [old EXCEPT !.photos =
               [p \in DOMAIN @ |-> IF p \in {} THEN Promised!Change(@[p], e) ELSE @[p]]]
  <2>1. [p \in DOMAIN f |-> IF p \in {} THEN Promised!Change(f[p], e) ELSE f[p]] = f
    BY <1>3
  <2>2. [old EXCEPT !.photos = f] = old
    BY <1>2
  <2> QED  BY <1>4, <2>1, <2>2
<1>6. Promised!Update({}, e)
  BY <1>1, <1>5 DEF Promised!Update, old
<1>7. e \in Edits \cup {[marked |-> TRUE]} /\ {} \in SUBSET DOMAIN Content(db).photos
  OBVIOUS
<1> HIDE DEF e
<1>8. Promised!Call
  BY <1>1, <1>6, <1>7 DEF Promised!Call
<1> QED  BY <1>8 DEF Answers

\* A content that is read as an update of some photos is an answer.
LEMMA UpdateAnswers ==
    ASSUME NEW c, Leads(c), UniqueGroups(c), NEW S, S \subseteq db.photos,
           NEW e \in Edits \cup {[marked |-> TRUE]},
           Content(c) = [Content(db) EXCEPT !.photos =
              [p \in DOMAIN @ |-> IF p \in S THEN Promised!Change(@[p], e) ELSE @[p]]]
    PROVE  Answers
<1>1. Content(db)' = Content(c) /\ Content(disk)' \in {Content(disk), Content(db)'}
  BY LeadsContent
<1>2. S \in SUBSET DOMAIN Content(db).photos
  BY ContentParts
<1>3. Promised!Update(S, e)
  BY <1>1, <1>2 DEF Promised!Update
<1>4. Promised!Call
  BY <1>1, <1>2, <1>3 DEF Promised!Call
<1> QED  BY <1>4 DEF Answers

\* addPhotos()
LEMMA AddPhotosAnswers ==
    ASSUME Sane, UniqueGroups(db), NEW d, IsDelta(d), DOMAIN d \subseteq {"tags", "flags"},
           AddPhotos(d)
    PROVE  Answers
<1> DEFINE id == NextId(db.photos)
           i == Inserted(db, id)
           s == Stored(i, id, d)
<1>1. id \in Photos /\ (Back \/ Leads(s))
  BY AddPhotosLeads
<1>2. id \notin db.photos /\ Good(db) /\ db \in Contents
  BY NewIds DEF Sane, Good
<1> HIDE DEF id
<1>3. /\ Content(s) = [Content(db) EXCEPT !.photos = Promised!With(@, id, PhotoOf(s, id))]
      /\ PhotoOf(s, id) \in NewDetails
  BY <1>1, <1>2, AddedContent
<1>4. s.groups = db.groups
  <2>1. i \in Contents /\ id \in Nat /\ i.groups = db.groups
    BY <1>1, <1>2, InsertedTables, PhotosAreNumbers DEF SameBut
  <2> HIDE DEF i
  <2>2. s.groups = i.groups
    BY <2>1, StoredTables
  <2> QED  BY <2>1, <2>2
<1> HIDE DEF s
<1>5. UniqueGroups(s)
  BY <1>4 DEF UniqueGroups
<1>6. CASE Leads(s)
  <2>1. Content(db)' = Content(s) /\ Content(disk)' \in {Content(disk), Content(db)'}
    BY <1>6, LeadsContent
  <2>2. id \notin DOMAIN Content(db).photos
    BY <1>2, ContentParts
  <2> DEFINE new == PhotoOf(s, id)
  <2>3. Content(db)' = [Content(db) EXCEPT !.photos = Promised!With(@, id, new)]
        /\ new \in NewDetails
    BY <1>3, <2>1
  <2> HIDE DEF new
  <2>4. Promised!AddPhoto(id, new)
    BY <2>2, <2>3 DEF Promised!AddPhoto
  <2>5. Promised!Call
    BY <1>1, <2>1, <2>3, <2>4 DEF Promised!Call, NewDetails
  <2> QED  BY <1>5, <1>6, <2>5 DEF Answers
<1> QED  BY <1>1, <1>6 DEF Answers

\* update() of details.
LEMMA EditAnswers ==
    ASSUME Sane, UniqueGroups(db), NEW photos \in Seq(Photos), NEW e \in Edits, Update(photos, e)
    PROVE  Answers
<1>1. IsDelta(e) /\ "group" \notin DOMAIN e
  BY EditsAreDeltas, EditsAssumption
<1>2. \/ Back
      \/ \E w : /\ w \in [0 .. Len(photos) -> Contents]
                /\ w[0] = db
                /\ \A k \in 1 .. Len(photos) : w[k] = Stored(w[k - 1], photos[k], e)
                /\ \A k \in 0 .. Len(photos) : Consistent(w[k])
                /\ Leads(w[Len(photos)])
  BY <1>1, UpdateLeads
<1>3. ASSUME NEW w, w \in [0 .. Len(photos) -> Contents], w[0] = db,
             \A k \in 1 .. Len(photos) : w[k] = Stored(w[k - 1], photos[k], e),
             Leads(w[Len(photos)])
      PROVE  Answers
  <2> DEFINE S == Firsts(photos, Len(photos))
             c == w[Len(photos)]
  <2>1. Changes(db, c, S, e)
    <3>1. Changes(w[0], c, S, e)
      BY <1>1, <1>3, ChangesAll
    <3> QED  BY <1>3, <3>1
  <2>2. Leads(c)
    BY <1>3
  <2> HIDE DEF S, c
  <2>3. UniqueGroups(c)
    BY <2>1 DEF Changes, UniqueGroups
  <2> DEFINE T == S \cap db.photos
  <2>4. Content(c) = [Content(db) EXCEPT !.photos =
              [p \in DOMAIN @ |-> IF p \in T THEN Promised!Change(@[p], e) ELSE @[p]]]
    BY <1>1, <2>1, UpdatedContent
  <2>5. T \subseteq db.photos
    OBVIOUS
  <2> HIDE DEF T
  <2> QED  BY <2>2, <2>3, <2>4, <2>5, UpdateAnswers
<1> QED  BY <1>2, <1>3 DEF Answers

\* update() of the group.
LEMMA JoinAnswers ==
    ASSUME Sane, UniqueGroups(db), NEW photos \in Seq(Photos), photos # <<>>,
           NEW g \in Groups \cup {NoId},
           Update(photos, [group |-> IF g = NoId THEN <<>> ELSE <<g, "Member">>])
    PROVE  Answers
<1> DEFINE d == [group |-> IF g = NoId THEN <<>> ELSE <<g, "Member">>]
<1>1. IsDelta(d)
  BY OtherDeltas
<1>2. \/ Back
      \/ \E w : /\ w \in [0 .. Len(photos) -> Contents]
                /\ w[0] = db
                /\ \A k \in 1 .. Len(photos) : w[k] = Stored(w[k - 1], photos[k], d)
                /\ \A k \in 0 .. Len(photos) : Consistent(w[k])
                /\ Leads(w[Len(photos)])
  <2>1. Update(photos, d)
    OBVIOUS
  <2> HIDE DEF d
  <2> QED  BY <1>1, <2>1, UpdateLeads
<1>3. ASSUME NEW w, w \in [0 .. Len(photos) -> Contents], w[0] = db,
             \A k \in 1 .. Len(photos) : w[k] = Stored(w[k - 1], photos[k], d),
             \A k \in 0 .. Len(photos) : Consistent(w[k]),
             Leads(w[Len(photos)])
      PROVE  Answers
  <2> DEFINE S == Firsts(photos, Len(photos))
             c == w[Len(photos)]
  <2>1. Changes(db, c, S, d)
    <3> HIDE DEF d
    <3>1. Changes(w[0], c, S, d)
      BY <1>1, <1>3, ChangesAll
    <3> QED  BY <1>3, <3>1
  <2>2. Leads(c) /\ Consistent(c) /\ db \in Contents
    <3>1. Len(photos) \in 0 .. Len(photos)
      OBVIOUS
    <3> QED  BY <1>3, <3>1 DEF Sane, Good
  <2>3. S # {}
    <3>1. 1 \in 1 .. Len(photos)
      OBVIOUS
    <3> QED  BY <3>1 DEF Firsts
  <2> HIDE DEF S, c
  <2>4. CASE g = NoId
    <3>1. Changes(db, c, S, [group |-> <<>>])
      BY <2>1, <2>4
    <3>2. Content(c) = Content(db) /\ c.groups = db.groups
      BY <3>1, NothingJoined
    <3>3. UniqueGroups(c)
      BY <3>2 DEF UniqueGroups
    <3> QED  BY <2>2, <3>2, <3>3, SameContentAnswers
  <2>5. CASE g # NoId
    <3>1. Changes(db, c, S, [group |-> <<g, "Member">>])
      BY <2>1, <2>5
    <3>2. /\ g \in GroupIds(db) /\ S \subseteq db.photos
          /\ Content(c) = [Content(db) EXCEPT !.groups =
                [h \in DOMAIN @ |-> IF h = g THEN Promised!Joined(@[h], S)
                                    ELSE Promised!Left(@[h], S)]]
          /\ c.groups = db.groups
      BY <2>2, <2>3, <3>1, JoinedContent
    <3>3. UniqueGroups(c)
      BY <3>2 DEF UniqueGroups
    <3>4. Content(db)' = Content(c) /\ Content(disk)' \in {Content(disk), Content(db)'}
      BY <2>2, LeadsContent
    <3>5. g \in DOMAIN Content(db).groups /\ S \subseteq DOMAIN Content(db).photos
      BY <3>2, ContentParts
    <3>6. Promised!Join(S, g)
      BY <3>2, <3>4, <3>5 DEF Promised!Join
    <3>7. g \in Groups /\ S \in SUBSET Photos
      BY <2>2, <2>5, <3>2 DEF Contents
    <3>8. Promised!Call
      BY <3>4, <3>6, <3>7 DEF Promised!Call
    <3> QED  BY <2>2, <3>3, <3>8 DEF Answers
  <2> QED  BY <2>4, <2>5
<1> QED  BY <1>2, <1>3 DEF Answers

\* addGroup()
LEMMA AddGroupAnswers ==
    ASSUME Sane, UniqueGroups(db), NEW p \in Photos \cup {NoId}, AddGroup(p)
    PROVE  Answers
<1> DEFINE id == NextId({g.id : g \in db.groups})
           i == GroupInserted(db, id, p)
           n == GroupNoted(db, id, p)
<1>1. Good(db) /\ db \in Contents /\ p \in Nat
  BY PhotosAreNumbers DEF Sane, Good
<1>2. id \in Groups /\ (Stays \/ Back \/ (Consistent(i) /\ (Leads(i) \/ Leads(n))))
  BY <1>1, AddGroupLeads
<1>3. id \notin GroupIds(db)
  BY <1>1, NewIds DEF GroupIds
<1> HIDE DEF id
<1>4. /\ SameBut(db, i, "groups") /\ SameBut(i, n, "log")
      /\ i.groups = db.groups \cup {[id |-> id, representative |-> p]}
  BY <1>1, <1>2, AddGroupChain
<1> HIDE DEF i, n
<1>5. ASSUME NEW c, Leads(c), c = i \/ c = n, Consistent(i)  PROVE Answers
  <2>1. /\ c.photos = db.photos /\ c.members = db.members
        /\ c.groups = db.groups \cup {[id |-> id, representative |-> p]}
        /\ \A q \in db.photos : SameRows(db, c, q)
    BY <1>4, <1>5 DEF SameBut, SameRows
  <2>2. /\ UniqueGroups(c)
        /\ Content(c) = [Content(db) EXCEPT !.groups =
                           Promised!With(@, id, [representative |-> p, members |-> {}])]
    BY <1>1, <1>2, <1>3, <2>1, GroupAddedContent
  <2>3. Content(db)' = Content(c) /\ Content(disk)' \in {Content(disk), Content(db)'}
    BY <1>5, LeadsContent
  <2>4. p \in db.photos
    <3> DEFINE row == [id |-> id, representative |-> p]
    <3>1. row.representative = p /\ row \in i.groups
      BY <1>4
    <3> HIDE DEF row
    <3>2. p \in i.photos
      BY <1>5, <3>1, ForeignKeys
    <3> QED  BY <1>4, <3>2 DEF SameBut
  <2>5. id \notin DOMAIN Content(db).groups /\ p \in DOMAIN Content(db).photos
    BY <1>3, <2>4, ContentParts
  <2>6. Promised!AddGroup(id, p)
    BY <2>2, <2>3, <2>5 DEF Promised!AddGroup
  <2>7. p \in Photos
    BY <1>1, <2>4 DEF Contents
  <2>8. Promised!Call
    BY <1>2, <2>3, <2>6, <2>7 DEF Promised!Call
  <2> QED  BY <1>5, <2>2, <2>8 DEF Answers
<1> QED  BY <1>2, <1>5 DEF Answers

\* removeGroup()
LEMMA RemoveGroupAnswers ==
    ASSUME Sane, UniqueGroups(db), NEW g \in Groups, RemoveGroup(g)
    PROVE  Answers
<1>1. Good(db) /\ db \in Contents
  BY DEF Sane, Good
<1>2. \/ Back
      \/ \E row, k :
            /\ row \in db.groups /\ row.id = g
            /\ k \in 0 .. Len(Dissolution(db, g, row))
            /\ Leads(Logged(GroupRemoved(db, g, row), SubSeq(Dissolution(db, g, row), 1, k)))
  BY RemoveGroupLeads
<1>3. ASSUME NEW row \in db.groups, row.id = g, NEW k \in 0 .. Len(Dissolution(db, g, row)),
             Leads(Logged(GroupRemoved(db, g, row), SubSeq(Dissolution(db, g, row), 1, k)))
      PROVE  Answers
  <2> DEFINE r == GroupRemoved(db, g, row)
             es == Dissolution(db, g, row)
             part == SubSeq(es, 1, k)
             c == Logged(r, part)
  <2>1. /\ r \in Contents /\ r.groups = db.groups \ {row}
        /\ SameBut(db, Freed(db, g), "members") /\ SameBut(Freed(db, g), r, "groups")
        /\ Freed(db, g).members = {m \in db.members : m.group # g}
    BY <1>1, RemoveGroupChain
  <2>2. es \in Seq(Entries)
    BY <1>1, DissolutionType
  <2>3. Leads(c)
    BY <1>3
  <2>4. part \in Seq(Entries)
    <3>1. k \in 0 .. Len(es)
      OBVIOUS
    <3> HIDE DEF es
    <3> QED  BY <2>2, <3>1
  <2> HIDE DEF es, part, r
  <2>5. SameBut(r, c, "log")
    BY <2>1, <2>4, LoggedTables
  <2> HIDE DEF c
  <2>6. /\ c.photos = db.photos /\ c.groups = db.groups \ {row}
        /\ c.members = {m \in db.members : m.group # row.id}
        /\ \A q \in db.photos : SameRows(db, c, q)
    BY <1>3, <2>1, <2>5 DEF SameBut, SameRows
  <2>7. /\ UniqueGroups(c)
        /\ Content(c) = [Content(db) EXCEPT !.groups =
                           Promised!Restrict(@, DOMAIN @ \ {row.id})]
    BY <1>1, <2>6, GroupRemovedContent
  <2>8. Content(db)' = Content(c) /\ Content(disk)' \in {Content(disk), Content(db)'}
    BY <2>3, LeadsContent
  <2>9. g \in DOMAIN Content(db).groups
    <3>1. g \in GroupIds(db)
      BY <1>3 DEF GroupIds
    <3>2. DOMAIN GroupsOf(db) = GroupIds(db) /\ Content(db).groups = GroupsOf(db)
      BY ContentParts
    <3> QED  BY <3>1, <3>2
  <2>10. Promised!RemoveGroup(g)
    BY <1>3, <2>7, <2>8, <2>9 DEF Promised!RemoveGroup
  <2>11. Promised!Call
    BY <2>8, <2>10 DEF Promised!Call
  <2> QED  BY <2>3, <2>7, <2>11 DEF Answers
<1> QED  BY <1>2, <1>3 DEF Answers

\* removePhoto(): the id of no photo removes nothing.
LEMMA RemovePhotoAnswers ==
    ASSUME Sane, UniqueGroups(db), NEW p \in Photos \cup {NoId}, RemovePhoto(p)
    PROVE  Answers
<1> DEFINE c == Last(RemovalChain(p))
<1>1. Good(db) /\ db \in Contents
  BY DEF Sane, Good
<1>2. Back \/ (Consistent(c) /\ Leads(c))
  BY RemovePhotoLeads
<1>3. CASE Consistent(c) /\ Leads(c)
  <2>1. /\ Content(c) = [Content(db) EXCEPT !.photos = Promised!Restrict(@, DOMAIN @ \ {p})]
        /\ \A g \in DOMAIN Content(db).groups :
              /\ Content(db).groups[g].representative # p
              /\ p \notin Content(db).groups[g].members
        /\ c.groups = db.groups
        /\ p \notin db.photos => Content(c) = Content(db)
    BY <1>1, <1>3, RemovedContent
  <2>2. Leads(c)
    BY <1>3
  <2> HIDE DEF c
  <2>3. UniqueGroups(c)
    BY <2>1 DEF UniqueGroups
  <2>4. CASE p \notin db.photos
    BY <2>1, <2>2, <2>3, <2>4, SameContentAnswers
  <2>5. CASE p \in db.photos
    <3>1. Content(db)' = Content(c) /\ Content(disk)' \in {Content(disk), Content(db)'}
      BY <2>2, LeadsContent
    <3>2. Promised!RemovePhoto(p)
      BY <2>1, <3>1 DEF Promised!RemovePhoto
    <3>3. p \in Photos
      BY <1>1, <2>5 DEF Contents
    <3>4. Promised!Call
      BY <3>1, <3>2, <3>3 DEF Promised!Call
    <3> QED  BY <2>2, <2>3, <3>4 DEF Answers
  <2> QED  BY <2>4, <2>5
<1> QED  BY <1>2, <1>3 DEF Answers

\* markStagedAsReviewed() and set()
LEMMA StatementsAnswer ==
    ASSUME Sane, UniqueGroups(db)
    PROVE  /\ MarkStagedAsReviewed => Answers
           /\ \A p \in Photos : SetFlag(p) => Answers
<1>1. db \in Contents
  BY DEF Sane, Good
<1>2. ASSUME MarkStagedAsReviewed  PROVE Answers
  <2> DEFINE c == Reviewed(db)
  <2>1. Stays \/ Leads(c)
    BY <1>2, StatementsLead
  <2>2. /\ Content(c) = [Content(db) EXCEPT !.photos = [p \in DOMAIN @ |-> Promised!Reviewed(@[p])]]
        /\ c.groups = db.groups
    BY <1>1, ReviewedContent
  <2> HIDE DEF c
  <2>3. UniqueGroups(c)
    BY <2>2 DEF UniqueGroups
  <2>4. CASE Leads(c)
    <3>1. Content(db)' = Content(c) /\ Content(disk)' \in {Content(disk), Content(db)'}
      BY <2>4, LeadsContent
    <3>2. Promised!MarkStagedAsReviewed
      BY <2>2, <3>1 DEF Promised!MarkStagedAsReviewed
    <3>3. Promised!Call
      BY <3>1, <3>2 DEF Promised!Call
    <3> QED  BY <2>3, <2>4, <3>3 DEF Answers
  <2> QED  BY <2>1, <2>4 DEF Answers
<1>3. ASSUME NEW p \in Photos, SetFlag(p)  PROVE Answers
  <2> DEFINE c == UpdateOrInsert(db, "generalFlags", [photo |-> p])
             e == [marked |-> TRUE]
  <2>1. p \in Nat
    BY PhotosAreNumbers
  <2>2. Stays \/ (Consistent(c) /\ Leads(c))
    BY <1>3, <2>1, StatementsLead
  <2>3. /\ Content(c) = [Content(db) EXCEPT !.photos =
              [q \in DOMAIN @ |-> IF q \in {p} THEN Promised!Change(@[q], e) ELSE @[q]]]
        /\ c.groups = db.groups
        /\ [photo |-> p] \in c.generalFlags /\ c.photos = db.photos
    BY <1>1, <2>1, MarkedContent
  <2> HIDE DEF c
  <2>4. UniqueGroups(c)
    BY <2>3 DEF UniqueGroups
  <2>5. CASE Consistent(c) /\ Leads(c)
    <3> DEFINE row == [photo |-> p]
    <3>1. row \in c.generalFlags /\ row.photo = p
      BY <2>3
    <3> HIDE DEF row
    <3>2. {p} \subseteq db.photos
      BY <2>3, <2>5, <3>1, ForeignKeys
    <3>3. e \in Edits \cup {[marked |-> TRUE]} /\ Leads(c)
      BY <2>5
    <3> DEFINE S == {p}
    <3>4. /\ S \subseteq db.photos
          /\ Content(c) = [Content(db) EXCEPT !.photos =
              [q \in DOMAIN @ |-> IF q \in S THEN Promised!Change(@[q], e) ELSE @[q]]]
      BY <2>3, <3>2
    <3> HIDE DEF e, S
    <3> QED  BY <2>4, <3>3, <3>4, UpdateAnswers
  <2> QED  BY <2>2, <2>5 DEF Answers
<1> QED  BY <1>2, <1>3

\* The state in which calls do what is promised: keys are unique too, also
\* after a crash.
KeysInv == SaneInv /\ UniqueGroups(db) /\ UniqueGroups(disk)

\* Every call of a task answers as promised.
LEMMA PerformAnswers ==
    ASSUME KeysInv, Perform
    PROVE  Answers
<1>1. /\ Sane /\ TasksOK /\ UniqueGroups(db) /\ db \in Contents /\ made \in MadeType
  BY DEF KeysInv, SaneInv, Sane, Good, MadeType
<1>2. made.photo \in Photos \cup {NoId} /\ made.group \in Groups \cup {NoId}
  BY <1>1 DEF MadeType
<1>3. CASE Scan
  <2> DEFINE d == [flags |-> {"StagingArea"}]
  <2>1. AddPhotos(d) /\ IsDelta(d) /\ DOMAIN d \subseteq {"tags", "flags"}
    BY <1>3, OtherDeltas DEF Scan
  <2> HIDE DEF d
  <2> QED  BY <1>1, <2>1, AddPhotosAnswers
<1>4. CASE Edit
  <2>1. task.photos \in Seq(Photos) /\ task.edit \in Edits /\ Update(task.photos, task.edit)
    BY <1>1, <1>4, TaskFields DEF Edit
  <2> QED  BY <1>1, <2>1, EditAnswers
<1>5. CASE Review
  BY <1>1, <1>5, StatementsAnswer DEF Review
<1>6. CASE MarkBroken
  <2>1. task.photo \in Photos /\ SetFlag(task.photo)
    BY <1>1, <1>6, TaskFields DEF MarkBroken
  <2> QED  BY <1>1, <2>1, StatementsAnswer
<1>7. CASE GroupRepresentative
  <2> DEFINE first == Head(task.photos)
             d == [tags |-> GetTags(db, first), flags |-> GetFlags(db, first) \cap {"StagingArea"}]
  <2>1. AddPhotos(d) /\ IsDelta(d) /\ DOMAIN d \subseteq {"tags", "flags"}
    BY <1>1, <1>7, OtherDeltas DEF GroupRepresentative
  <2> HIDE DEF d
  <2> QED  BY <1>1, <2>1, AddPhotosAnswers
<1>8. CASE GroupCreate
  BY <1>1, <1>2, <1>8, AddGroupAnswers DEF GroupCreate
<1>9. CASE GroupJoin
  <2> DEFINE g == made.group
             d == [group |-> IF g = NoId THEN <<>> ELSE <<g, "Member">>]
  <2>1. task.photos \in Seq(Photos) /\ task.photos # <<>> /\ Update(task.photos, d)
    BY <1>1, <1>9, TaskFields DEF GroupJoin
  <2>2. g \in Groups \cup {NoId}
    BY <1>2
  <2> HIDE DEF g
  <2> QED  BY <1>1, <2>1, <2>2, JoinAnswers
<1>10. CASE UngroupDissolve
  <2>1. task.group \in Groups /\ RemoveGroup(task.group)
    BY <1>1, <1>10, TaskFields DEF UngroupDissolve
  <2> QED  BY <1>1, <2>1, RemoveGroupAnswers
<1>11. CASE UngroupRemove
  <2>1. RemovePhoto(made.photo)
    BY <1>11 DEF UngroupRemove
  <2> QED  BY <1>1, <1>2, <2>1, RemovePhotoAnswers
<1> QED
  BY <1>3, <1>4, <1>5, <1>6, <1>7, <1>8, <1>9, <1>10, <1>11 DEF Perform

\* So does every step.
LEMMA StepAnswers ==
    ASSUME KeysInv, [Next]_vars
    PROVE  Answers
<1>1. CASE UNCHANGED vars
  BY <1>1 DEF vars, content, Stays, Answers
<1>2. CASE Post \/ Take
  BY <1>2 DEF Post, Take, content, Stays, Answers
<1>3. CASE Crash
  BY <1>3 DEF Crash, Restarts, Back, Answers
<1>4. CASE Perform
  BY <1>4, PerformAnswers
<1> QED  BY <1>1, <1>2, <1>3, <1>4 DEF Next

\* The keys of groups stay unique, on the disk too.
LEMMA AnswersKeepKeys ==
    ASSUME UniqueGroups(db), UniqueGroups(disk), Answers
    PROVE  UniqueGroups(db)' /\ UniqueGroups(disk)'
<1>1. ASSUME NEW c, UniqueGroups(c), c = db'  PROVE UniqueGroups(db)'
  BY <1>1 DEF UniqueGroups
<1>2. ASSUME NEW c, UniqueGroups(c), c = disk'  PROVE UniqueGroups(disk)'
  BY <1>2 DEF UniqueGroups
<1>3. \E c : UniqueGroups(c) /\ c = db'
  BY DEF Answers, Stays, Back, Leads
<1>4. \E c : UniqueGroups(c) /\ c = disk'
  BY DEF Answers, Stays, Back, Leads
<1> QED  BY <1>1, <1>2, <1>3, <1>4

\* Every call is all or nothing, and what is lost is what was not durable.
THEOREM CallsAreAllOrNothing == Spec => AllOrNothing
<1>1. Init => KeysInv
  <2> SUFFICES ASSUME Init  PROVE KeysInv
    OBVIOUS
  <2>1. UniqueGroups(db) /\ UniqueGroups(disk)
    BY CollectionsAssumption DEF Init
  <2> QED  BY <2>1, InitIsSane DEF KeysInv
<1>2. KeysInv /\ [Next]_vars => KeysInv'
  <2> SUFFICES ASSUME KeysInv, [Next]_vars  PROVE KeysInv'
    OBVIOUS
  <2>1. SaneInv'
    BY StepIsSane DEF KeysInv
  <2>2. UniqueGroups(db)' /\ UniqueGroups(disk)'
    BY StepAnswers, AnswersKeepKeys DEF KeysInv
  <2> QED  BY <2>1, <2>2 DEF KeysInv
<1>3. Init => Promised!Init
  BY DEF Init, Promised!Init
<1>4. KeysInv /\ [Next]_vars => [Promised!Next]_<<Content(db), Content(disk)>>
  <2> SUFFICES ASSUME KeysInv, [Next]_vars
               PROVE  Promised!Next \/ UNCHANGED <<Content(db), Content(disk)>>
    OBVIOUS
  <2>1. Answers
    BY StepAnswers
  <2> QED  BY <2>1, BackLoses, StaysStutters DEF Answers, Promised!Next
<1> QED  BY <1>1, <1>2, <1>3, <1>4, PTL DEF Spec, AllOrNothing, Promised!Spec

-----------------------------------------------------------------------------
(* The log tells the groups, as long as nothing failed *)

\* What a log knows, it knows with more entries.
LEMMA KnowsMore ==
    ASSUME NEW log \in Seq(Entries), NEW es \in Seq(Entries), NEW p, NEW role,
           Knows(log, p, role)
    PROVE  Knows(log \o es, p, role)
<1> DEFINE whole == log \o es
<1>1. /\ About(log, p, "group") \subseteq 1 .. Len(log)
      /\ \A i \in 1 .. Len(log) : /\ whole[i] = log[i]
                                  /\ i \in About(whole, p, "group") <=> i \in About(log, p, "group")
  BY AppendedEntries DEF Extends
<1> HIDE DEF whole
<1>2. Knows(whole, p, role)
  BY <1>1 DEF Knows
<1> QED  BY <1>2 DEF whole

\* It knows the roles of the new entries.
LEMMA KnowsEntry ==
    ASSUME NEW log \in Seq(Entries), NEW es \in Seq(Entries), NEW p, NEW role,
           NEW k \in About(es, p, "group"),
           NEW v \in {es[k].old, es[k].new} \ {<<>>}, v[2] = role
    PROVE  Knows(log \o es, p, role)
<1> DEFINE whole == log \o es
<1>1. k \in 1 .. Len(es)
  BY DEF About
<1>2. whole[Len(log) + k] = es[k] /\ Len(log) + k \in About(whole, p, "group")
  BY <1>1, AppendedEntries DEF Extends
<1> HIDE DEF whole
<1>3. Knows(whole, p, role)
  BY <1>2 DEF Knows
<1> QED  BY <1>3 DEF whole

\* It knows the other photos when one is forgotten.
LEMMA KnowsWithout ==
    ASSUME NEW log \in Seq(Entries), NEW gone, NEW p, p # gone, NEW role, Knows(log, p, role)
    PROVE  Knows(WithoutEntries(log, gone), p, role)
<1> DEFINE kept == WithoutEntries(log, gone)
<1>1. PICK h : Embeds(h, kept, log, gone, Len(log))
  BY WithoutEntriesProperties
<1>2. kept \in Seq(Entries)
  BY WithoutEntriesProperties
<1> HIDE DEF kept
<1>3. DOMAIN kept = 1 .. Len(kept) /\ DOMAIN log = 1 .. Len(log)
  BY <1>2
<1>4. PICK k \in About(log, p, "group") :
         \E v \in {log[k].old, log[k].new} \ {<<>>} : v[2] = role
  BY DEF Knows
<1>5. k \in 1 .. Len(log) /\ log[k].photo = p /\ log[k].field = "group"
  BY <1>3, <1>4 DEF About
<1>6. PICK i \in 1 .. Len(kept) : h[i] = k
  BY <1>1, <1>5 DEF Embeds
<1>7. kept[i] = log[k]
  BY <1>1, <1>6 DEF Embeds
<1>8. i \in About(kept, p, "group")
  BY <1>3, <1>5, <1>6, <1>7 DEF About
<1>9. Knows(kept, p, role)
  BY <1>4, <1>7, <1>8 DEF Knows
<1> QED  BY <1>9 DEF kept

\* A log that knows nothing of a photo but what is told.
LEMMA KnowsNothing ==
    ASSUME NEW log, NEW p, About(log, p, "group") = {}, NEW role
    PROVE  ~ Knows(log, p, role)
BY DEF Knows

\* The group of a photo by its rows.
LEMMA GroupOfRows ==
    ASSUME NEW c, RowsAreUnique(c), NEW p
    PROVE  /\ \A r \in c.groups :
                 r.representative = p => GroupByRows(c, p) = <<r.id, "Representative">>
           /\ (\A r \in c.groups : r.representative # p) =>
                 /\ \A m \in c.members : m.photo = p => GroupByRows(c, p) = <<m.group, "Member">>
                 /\ (\A m \in c.members : m.photo # p) => GroupByRows(c, p) = <<>>
<1> DEFINE owned == {g \in c.groups : g.representative = p}
           joined == {m \in c.members : m.photo = p}
<1>1. GroupByRows(c, p)
      = IF owned # {} THEN <<(CHOOSE g \in owned : TRUE).id, "Representative">>
        ELSE IF joined # {} THEN <<(CHOOSE m \in joined : TRUE).group, "Member">>
        ELSE <<>>
  BY DEF GroupByRows
<1>2. \A r, q \in owned : r = q
  BY DEF RowsAreUnique
<1>3. \A m, n \in joined : m = n
  BY DEF RowsAreUnique
<1>4. ASSUME NEW r \in owned  PROVE owned # {} /\ (CHOOSE g \in owned : TRUE) = r
  <2>1. (CHOOSE g \in owned : TRUE) \in owned
    OBVIOUS
  <2> QED  BY <1>2, <2>1
<1>5. ASSUME NEW m \in joined  PROVE joined # {} /\ (CHOOSE n \in joined : TRUE) = m
  <2>1. (CHOOSE n \in joined : TRUE) \in joined
    OBVIOUS
  <2> QED  BY <1>3, <2>1
<1>6. ASSUME NEW r \in c.groups, r.representative = p
      PROVE  GroupByRows(c, p) = <<r.id, "Representative">>
  <2>1. r \in owned
    BY <1>6
  <2> HIDE DEF owned, joined
  <2> QED  BY <1>1, <1>4, <2>1
<1>7. ASSUME \A r \in c.groups : r.representative # p, NEW m \in c.members, m.photo = p
      PROVE  GroupByRows(c, p) = <<m.group, "Member">>
  <2>1. owned = {} /\ m \in joined
    BY <1>7
  <2> HIDE DEF owned, joined
  <2> QED  BY <1>1, <1>5, <2>1
<1>8. ASSUME \A r \in c.groups : r.representative # p, \A m \in c.members : m.photo # p
      PROVE  GroupByRows(c, p) = <<>>
  <2>1. owned = {} /\ joined = {}
    BY <1>8
  <2> HIDE DEF owned, joined
  <2> QED  BY <1>1, <2>1
<1> QED  BY <1>6, <1>7, <1>8

\* Only the rows of the photo matter.
LEMMA SameGroupByRows ==
    ASSUME NEW c, NEW other, NEW p,
           \A r : r.representative = p => (r \in c.groups <=> r \in other.groups),
           \A m : m.photo = p => (m \in c.members <=> m \in other.members)
    PROVE  GroupByRows(other, p) = GroupByRows(c, p)
<1> DEFINE Read(owned, joined) ==
             IF owned # {} THEN <<(CHOOSE g \in owned : TRUE).id, "Representative">>
             ELSE IF joined # {} THEN <<(CHOOSE m \in joined : TRUE).group, "Member">>
             ELSE <<>>
<1>1. /\ {g \in other.groups : g.representative = p} = {g \in c.groups : g.representative = p}
      /\ {m \in other.members : m.photo = p} = {m \in c.members : m.photo = p}
  OBVIOUS
<1>2. /\ GroupByRows(other, p) = Read({g \in other.groups : g.representative = p},
                                      {m \in other.members : m.photo = p})
      /\ GroupByRows(c, p) = Read({g \in c.groups : g.representative = p},
                                  {m \in c.members : m.photo = p})
  BY DEF GroupByRows
<1> HIDE DEF Read
<1> QED  BY <1>1, <1>2

\* What an entry tells of a photo, or that no entry is about it.
Follows(es, q, old, new) ==
    \/ About(es, q, "group") = {} /\ new = old
    \/ \E k \in 1 .. Len(es) : /\ About(es, q, "group") = {k}
                               /\ es[k].old = old /\ es[k].new = new

\* A content with more entries, which follow its rows.
LEMMA EntriesFollow ==
    ASSUME NEW c \in Contents, NEW other, NEW es \in Seq(Entries), GroupsAreKept(c),
           other.photos = c.photos, other.log = c.log \o es,
           RowsAreUnique(other), RolesAreKnown(other),
           \A q \in c.photos :
              OneRole(other.log, q) => Follows(es, q, GroupByRows(c, q), GroupByRows(other, q))
    PROVE  GroupsAreKept(other)
<1> SUFFICES ASSUME NEW q \in c.photos, OneRole(other.log, q)
             PROVE  Tells(other.log, q, "group", GroupByRows(other, q))
  BY DEF GroupsAreKept, GroupsAreLogged
<1> DEFINE log == c.log
           old == GroupByRows(c, q)
           new == GroupByRows(other, q)
<1>1. log \in Seq(Entries)
  BY LogsAre DEF Contents
<1>2. Follows(es, q, old, new) /\ other.log = log \o es
  OBVIOUS
<1>3. OneRole(log, q)
  <2> HIDE DEF log
  <2> QED  BY <1>1, <1>2, KnowsMore DEF OneRole
<1>4. Tells(log, q, "group", old)
  BY <1>3 DEF GroupsAreKept, GroupsAreLogged
<1> HIDE DEF log, old, new
<1>5. CASE About(es, q, "group") = {} /\ new = old
  BY <1>1, <1>2, <1>4, <1>5, TellsStill DEF new
<1>6. ASSUME NEW k \in 1 .. Len(es), About(es, q, "group") = {k}, es[k].old = old, es[k].new = new
      PROVE  Tells(other.log, q, "group", new)
  <2>1. Tells(log, q, "group", es[k].old)
    BY <1>4, <1>6
  <2>2. Tells(log \o es, q, "group", es[k].new)
    BY <1>1, <1>6, <2>1, TellsNext
  <2> QED  BY <1>2, <1>6, <2>2
<1> QED  BY <1>2, <1>5, <1>6 DEF Follows, new

\* Entries about tags leave the groups as they are.
LEMMA GroupsUntouched ==
    ASSUME NEW c \in Contents, NEW other, NEW es \in Seq(Entries), GroupsAreKept(c),
           other.photos = c.photos, other.groups = c.groups, other.members = c.members,
           other.log = c.log \o es, \A q : About(es, q, "group") = {}
    PROVE  GroupsAreKept(other)
<1>1. c.log \in Seq(Entries)
  BY LogsAre DEF Contents
<1>2. RowsAreUnique(other)
  BY DEF GroupsAreKept, RowsAreUnique
<1>3. RolesAreKnown(other)
  BY <1>1, KnowsMore DEF GroupsAreKept, RolesAreKnown
<1>4. \A q : GroupByRows(other, q) = GroupByRows(c, q)
  BY SameGroupByRows
<1>5. \A q : Follows(es, q, GroupByRows(c, q), GroupByRows(other, q))
  BY <1>4 DEF Follows
<1> QED  BY <1>2, <1>3, <1>5, EntriesFollow

\* A new photo has no group.
LEMMA InsertedKeepsGroups ==
    ASSUME NEW c, Good(c), NEW id \in Photos, id \notin c.photos, GroupsAreKept(c)
    PROVE  GroupsAreKept(Inserted(c, id))
<1> DEFINE i == Inserted(c, id)
           log == c.log
<1>1. /\ i.photos = c.photos \cup {id} /\ i.log = c.log
      /\ i.groups = c.groups /\ i.members = c.members
  BY InsertedTables DEF Good, SameBut
<1>2. log \in Seq(Entries)
  BY LogsAre DEF Good, Contents
<1> HIDE DEF i
<1>3. \A q : GroupByRows(i, q) = GroupByRows(c, q)
  BY <1>1, SameGroupByRows
<1>4. RowsAreUnique(i) /\ RolesAreKnown(i)
  BY <1>1 DEF GroupsAreKept, RowsAreUnique, RolesAreKnown
<1>5. About(log, id, "group") = {}
  BY NothingIsLeft
<1>6. GroupByRows(c, id) = <<>>
  <2>1. /\ \A r \in c.groups : r.representative # id
        /\ \A m \in c.members : m.photo # id
    BY NothingIsLeft DEF TablesOfPhotos
  <2> QED  BY <2>1, GroupOfRows DEF GroupsAreKept
<1>7. Tells(log, id, "group", <<>>)
  <2> HIDE DEF log
  <2> QED  BY <1>2, <1>5, TellsNothing
<1>8. GroupsAreLogged(i)
  BY <1>1, <1>3, <1>6, <1>7 DEF GroupsAreKept, GroupsAreLogged
<1> QED  BY <1>4, <1>8 DEF GroupsAreKept, i

\* What is logged of details says nothing of groups.
LEMMA NotedDetails ==
    ASSUME NEW c \in Contents, NEW p \in Nat, NEW d, IsDelta(d), "group" \notin DOMAIN d
    PROVE  Noted(c, p, d) \in Seq(Entries) /\ \A q : About(Noted(c, p, d), q, "group") = {}
<1> DEFINE es == Noted(c, p, d)
<1>1. es \in Seq(Entries)
  BY NotedType
<1>2. CASE "tags" \notin DOMAIN d
  <2>1. es = <<>> \o <<>>
    BY <1>2 DEF Noted
  <2>2. es = <<>>
    BY <2>1
  <2> QED  BY <1>1, <2>2 DEF About
<1>3. CASE "tags" \in DOMAIN d
  <2> DEFINE old == GetTags(c, p)
             new == d.tags
             te == TagEntries(p, old, new)
  <2>1. old \in TagLists /\ new \in TagLists
    BY <1>3, QueriesType DEF IsDelta
  <2>2. es = te \o <<>>
    BY <1>3 DEF Noted
  <2> HIDE DEF old, new, es
  <2>3. PICK names \in Seq(Names) :
           /\ te \in Seq(Entries) /\ Len(te) = Len(names)
           /\ \A i \in 1 .. Len(names) :
                 te[i] = Entry(p, names[i], ValueIn(old, names[i]), ValueIn(new, names[i]))
    BY <2>1, TagEntriesProperties
  <2> HIDE DEF te
  <2>4. es = te
    BY <2>2, <2>3
  <2>5. ASSUME NEW i \in 1 .. Len(te)  PROVE te[i].field \in Names
    <3>1. i \in 1 .. Len(names)
      BY <2>3
    <3>2. te[i] = Entry(p, names[i], ValueIn(old, names[i]), ValueIn(new, names[i]))
      BY <2>3, <3>1
    <3>3. te[i].field = names[i] /\ names[i] \in Names
      BY <3>1, <3>2 DEF Entry
    <3> QED  BY <3>3
  <2>6. \A q : About(te, q, "group") = {}
    BY <2>3, <2>5, SqlAssumption DEF About
  <2> QED  BY <1>1, <2>4, <2>6 DEF es
<1> QED  BY <1>2, <1>3

\* Storing details leaves the groups as they are.
LEMMA DetailsKeepGroups ==
    ASSUME NEW c \in Contents, NEW p \in Nat, NEW d, IsDelta(d), "group" \notin DOMAIN d,
           GroupsAreKept(c)
    PROVE  GroupsAreKept(Stored(c, p, d))
<1> DEFINE s == Stored(c, p, d)
           es == Noted(c, p, d)
<1>1. /\ s.photos = c.photos /\ s.groups = c.groups /\ s.members = MemberRows(c.members, p, d)
      /\ s.log = c.log \o es
  BY StoredTables
<1>2. s.members = c.members
  BY <1>1 DEF MemberRows
<1>3. es \in Seq(Entries) /\ \A q : About(es, q, "group") = {}
  BY NotedDetails
<1> HIDE DEF es, s
<1>4. GroupsAreKept(s)
  BY <1>1, <1>2, <1>3, GroupsUntouched
<1> QED  BY <1>4 DEF s

\* A photo that joins a group leaves the one it was in, and the log has it; the
\* representative of another group is known in both roles then.
LEMMA JoiningKeepsGroups ==
    ASSUME NEW c \in Contents, NEW p \in Nat, NEW g \in Groups, GroupsAreKept(c)
    PROVE  GroupsAreKept(Stored(c, p, [group |-> <<g, "Member">>]))
<1> DEFINE d == [group |-> <<g, "Member">>]
           s == Stored(c, p, d)
           old == GetGroup(c, p)
           es == <<Entry(p, "group", old, <<g, "Member">>)>>
           row == [group |-> g, photo |-> p]
<1>1. DOMAIN d = {"group"} /\ d.group = <<g, "Member">> /\ d.group # <<>> /\ d.group[1] = g
  OBVIOUS
<1>2. IsDelta(d)
  BY <1>1 DEF IsDelta
<1>3. /\ s.photos = c.photos /\ s.groups = c.groups /\ s.members = MemberRows(c.members, p, d)
      /\ s.log = c.log \o Noted(c, p, d)
  BY <1>2, StoredTables
<1>4. s.members = {m \in c.members : m.photo # p} \cup {row}
  BY <1>1, <1>3 DEF MemberRows
<1>5. old \in Loggable /\ <<g, "Member">> \in Loggable /\ <<g, "Member">> # <<>>
  BY QueriesType, GroupValue DEF Loggable, Roles
<1>6. es \in Seq(Entries) /\ Noted(c, p, d) = <<>> \o es
  <2>1. GroupEntries(p, old, <<g, "Member">>) = es /\ es \in Seq(Entries)
    BY <1>5, GroupEntryOf
  <2> QED  BY <1>1, <2>1 DEF Noted
<1>7. es[1].old = old /\ es[1].new = <<g, "Member">> /\ es[1].photo = p /\ es[1].field = "group"
      /\ Len(es) = 1
  BY DEF Entry
<1>8. row.photo = p /\ row.group = g
  OBVIOUS
<1> HIDE DEF d, s, es, old, row
<1>9. c.log \in Seq(Entries) /\ s.log = c.log \o es
  <2>1. <<>> \o es = es
    BY <1>6
  <2> QED  BY <1>3, <1>6, <2>1, LogsAre DEF Contents
<1>10. /\ About(es, p, "group") = {1}
       /\ \A q : q # p => About(es, q, "group") = {}
  BY <1>6, <1>7 DEF About
<1>11. RowsAreUnique(s)
  BY <1>3, <1>4, <1>8 DEF GroupsAreKept, RowsAreUnique
<1>12. Knows(s.log, p, "Member")
  <2> DEFINE v == <<g, "Member">>
  <2>1. v \in {es[1].old, es[1].new} \ {<<>>} /\ v[2] = "Member"
    BY <1>5, <1>7
  <2> HIDE DEF v
  <2>2. 1 \in About(es, p, "group")
    BY <1>10
  <2> QED  BY <1>6, <1>9, <2>1, <2>2, KnowsEntry
<1>13. RolesAreKnown(s)
  <2>1. ASSUME NEW r \in s.groups  PROVE Knows(s.log, r.representative, "Representative")
    <3>1. Knows(c.log, r.representative, "Representative")
      BY <1>3 DEF GroupsAreKept, RolesAreKnown
    <3> QED  BY <1>6, <1>9, <3>1, KnowsMore
  <2>2. ASSUME NEW m \in s.members  PROVE Knows(s.log, m.photo, "Member")
    <3>1. CASE m \in c.members
      <4>1. Knows(c.log, m.photo, "Member")
        BY <3>1 DEF GroupsAreKept, RolesAreKnown
      <4> QED  BY <1>6, <1>9, <4>1, KnowsMore
    <3>2. CASE m = row
      BY <1>8, <1>12, <3>2
    <3> QED  BY <1>4, <3>1, <3>2
  <2> QED  BY <2>1, <2>2 DEF RolesAreKnown
<1>14. ASSUME NEW q \in c.photos, OneRole(s.log, q)
       PROVE  Follows(es, q, GroupByRows(c, q), GroupByRows(s, q))
  <2>1. CASE q # p
    <3>1. GroupByRows(s, q) = GroupByRows(c, q)
      BY <1>3, <1>4, <1>8, <2>1, SameGroupByRows
    <3> QED  BY <1>10, <2>1, <3>1 DEF Follows
  <2>2. CASE q = p
    <3>1. ~ Knows(s.log, p, "Representative")
      BY <1>12, <1>14, <2>2 DEF OneRole, Roles
    <3>2. \A r \in c.groups : r.representative # p
      BY <1>3, <1>13, <3>1 DEF RolesAreKnown
    <3>3. GroupByRows(s, p) = <<row.group, "Member">>
      BY <1>3, <1>4, <1>8, <1>11, <3>2, GroupOfRows
    <3>4. old = GroupByRows(c, p)
      <4> DEFINE joined == {m \in c.members : m.photo = p}
                 value == IF joined # {} THEN <<(CHOOSE m \in joined : TRUE).group, "Member">>
                          ELSE <<>>
      <4>1. {r \in c.groups : r.representative = p /\ \E m \in c.members : m.group = r.id} = {}
        BY <3>2
      <4>2. {r \in c.groups : r.representative = p} = {}
        BY <3>2
      <4>3. old = value
        BY <4>1 DEF GetGroup, old
      <4>4. GroupByRows(c, p) = value
        BY <4>2 DEF GroupByRows
      <4> QED  BY <4>3, <4>4
    <3> QED  BY <1>7, <1>8, <1>10, <2>2, <3>3, <3>4 DEF Follows
  <2> QED  BY <2>1, <2>2
<1>15. GroupsAreKept(s)
  BY <1>3, <1>6, <1>9, <1>11, <1>13, <1>14, EntriesFollow
<1> QED  BY <1>15 DEF s, d

\* The deltas that tell the log all they change in the groups.
TellsItsGroup(d) == "group" \in DOMAIN d => \E g \in Groups : d = [group |-> <<g, "Member">>]

\* One photo after the other.
LEMMA PassesKeepGroups ==
    ASSUME NEW photos \in Seq(Photos), NEW d, IsDelta(d), TellsItsGroup(d),
           NEW w \in [0 .. Len(photos) -> Contents], GroupsAreKept(w[0]),
           \A k \in 1 .. Len(photos) : w[k] = Stored(w[k - 1], photos[k], d)
    PROVE  GroupsAreKept(w[Len(photos)])
<1> DEFINE Bad == {k \in 0 .. Len(photos) : ~ GroupsAreKept(w[k])}
<1>1. Len(photos) \in Nat
  OBVIOUS
<1>2. SUFFICES ASSUME Bad # {}  PROVE FALSE
  BY <1>1
<1>3. PICK m \in Bad : \A n \in Bad : m <= n
  <2>1. Bad \subseteq Nat
    OBVIOUS
  <2> HIDE DEF Bad
  <2> QED  BY <1>2, <2>1, LeastNumber
<1>4. m \in 0 .. Len(photos) /\ ~ GroupsAreKept(w[m]) /\ m # 0
  BY <1>3
<1>5. m \in 1 .. Len(photos) /\ m - 1 \in 0 .. Len(photos) /\ m - 1 < m /\ photos[m] \in Nat
  <2>1. m \in 1 .. Len(photos) /\ m - 1 \in 0 .. Len(photos) /\ m - 1 < m
    BY <1>1, <1>4
  <2>2. photos[m] \in Photos
    BY <2>1
  <2> QED  BY <2>1, <2>2, PhotosAreNumbers
<1>6. GroupsAreKept(w[m - 1]) /\ w[m - 1] \in Contents
  BY <1>3, <1>5
<1> DEFINE c == w[m - 1]
<1>7. c \in Contents /\ GroupsAreKept(c) /\ w[m] = Stored(c, photos[m], d)
  BY <1>5, <1>6
<1> HIDE DEF c
<1>8. GroupsAreKept(Stored(c, photos[m], d))
  <2>1. CASE "group" \notin DOMAIN d
    BY <1>5, <1>7, <2>1, DetailsKeepGroups
  <2>2. CASE \E g \in Groups : d = [group |-> <<g, "Member">>]
    BY <1>5, <1>7, <2>2, JoiningKeepsGroups
  <2> QED  BY <2>1, <2>2 DEF TellsItsGroup
<1> QED  BY <1>4, <1>7, <1>8

\* A group made for a photo that the log knows nothing of.
LEMMA CreationKeepsGroups ==
    ASSUME NEW c \in Contents, NEW id \in Groups, NEW p \in Nat, GroupsAreKept(c),
           About(c.log, p, "group") = {}, \A r \in c.groups : r.representative # p
    PROVE  GroupsAreKept(GroupNoted(c, id, p))
<1> DEFINE n == GroupNoted(c, id, p)
           i == GroupInserted(c, id, p)
           row == [id |-> id, representative |-> p]
           new == <<id, "Representative">>
           es == <<Entry(p, "group", <<>>, new)>>
<1>1. /\ SameBut(c, i, "groups") /\ i.groups = c.groups \cup {row}
      /\ SameBut(i, n, "log") /\ n.log = c.log \o es
      /\ Entry(p, "group", <<>>, new) \in Entries
  BY AddGroupChain
<1>2. es \in Seq(Entries)
  BY <1>1
<1>3. es[1].old = <<>> /\ es[1].new = new /\ es[1].photo = p /\ es[1].field = "group"
      /\ Len(es) = 1
  BY DEF Entry
<1>4. row.representative = p /\ row.id = id /\ new # <<>> /\ new[2] = "Representative"
  OBVIOUS
<1> HIDE DEF n, i, es, row
<1>5. /\ n.photos = c.photos /\ n.members = c.members /\ n.groups = c.groups \cup {row}
      /\ n.log = c.log \o es /\ c.log \in Seq(Entries)
  BY <1>1, LogsAre DEF SameBut, Contents
<1>6. /\ About(es, p, "group") = {1}
      /\ \A q : q # p => About(es, q, "group") = {}
  BY <1>2, <1>3 DEF About
<1>7. RowsAreUnique(n)
  BY <1>4, <1>5 DEF GroupsAreKept, RowsAreUnique
<1>8. Knows(n.log, p, "Representative")
  <2>1. new \in {es[1].old, es[1].new} \ {<<>>} /\ 1 \in About(es, p, "group")
    BY <1>3, <1>4, <1>6
  <2> HIDE DEF new
  <2> QED  BY <1>2, <1>4, <1>5, <2>1, KnowsEntry
<1>9. \A m \in c.members : m.photo # p
  BY KnowsNothing DEF GroupsAreKept, RolesAreKnown
<1>10. RolesAreKnown(n)
  <2>1. ASSUME NEW r \in n.groups  PROVE Knows(n.log, r.representative, "Representative")
    <3>1. CASE r \in c.groups
      <4>1. Knows(c.log, r.representative, "Representative")
        BY <3>1 DEF GroupsAreKept, RolesAreKnown
      <4> QED  BY <1>2, <1>5, <4>1, KnowsMore
    <3>2. CASE r = row
      BY <1>4, <1>8, <3>2
    <3> QED  BY <1>5, <3>1, <3>2
  <2>2. ASSUME NEW m \in n.members  PROVE Knows(n.log, m.photo, "Member")
    <3>1. Knows(c.log, m.photo, "Member")
      BY <1>5 DEF GroupsAreKept, RolesAreKnown
    <3> QED  BY <1>2, <1>5, <3>1, KnowsMore
  <2> QED  BY <2>1, <2>2 DEF RolesAreKnown
<1>11. ASSUME NEW q \in c.photos
       PROVE  Follows(es, q, GroupByRows(c, q), GroupByRows(n, q))
  <2>1. CASE q # p
    <3>1. GroupByRows(n, q) = GroupByRows(c, q)
      BY <1>4, <1>5, <2>1, SameGroupByRows
    <3> QED  BY <1>6, <2>1, <3>1 DEF Follows
  <2>2. CASE q = p
    <3>1. GroupByRows(c, p) = <<>>
      BY <1>9, GroupOfRows DEF GroupsAreKept
    <3>2. GroupByRows(n, p) = new
      <4>1. row \in n.groups
        BY <1>5
      <4> QED  BY <1>4, <1>7, <4>1, GroupOfRows
    <3> QED  BY <1>3, <1>6, <2>2, <3>1, <3>2 DEF Follows
  <2> QED  BY <2>1, <2>2
<1>12. GroupsAreKept(n)
  BY <1>2, <1>5, <1>7, <1>10, <1>11, EntriesFollow
<1> QED  BY <1>12 DEF n

\* The end of a group, with all of its entries.
LEMMA DissolutionKeepsGroups ==
    ASSUME NEW c, Good(c), GroupsAreKept(c), NEW g \in Groups, NEW row \in c.groups, row.id = g
    PROVE  LET es == Dissolution(c, g, row)
           IN  GroupsAreKept(Logged(GroupRemoved(c, g, row), SubSeq(es, 1, Len(es))))
<1> DEFINE whole == Dissolution(c, g, row)
           es == SubSeq(whole, 1, Len(whole))
           ms == SetToSeq(MembersOf(c, g))
           r == GroupRemoved(c, g, row)
           o == Logged(r, es)
           p == row.representative
<1>1. /\ ms \in Seq(MembersOf(c, g)) /\ IsInjective(ms) /\ Range(ms) = MembersOf(c, g)
      /\ whole \in Seq(Entries) /\ Len(whole) = 1 + Len(ms)
      /\ whole[1] = Entry(p, "group", <<g, "Representative">>, <<>>)
      /\ \A i \in 1 .. Len(ms) : whole[i + 1] = Entry(ms[i], "group", <<g, "Member">>, <<>>)
  BY DissolutionType
<1>2. /\ r \in Contents /\ r.photos = c.photos /\ r.log = c.log
      /\ r.groups = c.groups \ {row} /\ r.members = {m \in c.members : m.group # g}
  BY RemoveGroupChain DEF Good, SameBut
<1> HIDE DEF whole, ms, r
<1>3. es = whole
  <2>1. Len(whole) \in Nat /\ Len(es) = Len(whole) /\ es \in Seq(Entries)
        /\ \A i \in 1 .. Len(whole) : es[i] = whole[i]
    BY <1>1
  <2> QED  BY <1>1, <2>1
<1> HIDE DEF es
<1>4. /\ es \in Seq(Entries) /\ Len(es) = 1 + Len(ms) /\ Len(ms) \in Nat
      /\ DOMAIN es = 1 .. Len(es) /\ DOMAIN ms = 1 .. Len(ms)
      /\ es[1].photo = p /\ es[1].field = "group"
      /\ es[1].old = <<g, "Representative">> /\ es[1].new = <<>>
      /\ \A i \in 1 .. Len(ms) : /\ es[i + 1].photo = ms[i] /\ es[i + 1].field = "group"
                                 /\ es[i + 1].old = <<g, "Member">> /\ es[i + 1].new = <<>>
  <2>1. /\ es \in Seq(Entries) /\ Len(es) = 1 + Len(ms) /\ Len(ms) \in Nat
        /\ DOMAIN es = 1 .. Len(es) /\ DOMAIN ms = 1 .. Len(ms)
    BY <1>1, <1>3
  <2>2. /\ es[1] = Entry(p, "group", <<g, "Representative">>, <<>>)
        /\ \A i \in 1 .. Len(ms) : es[i + 1] = Entry(ms[i], "group", <<g, "Member">>, <<>>)
    BY <1>1, <1>3
  <2>3. \A q, old : LET e == Entry(q, "group", old, <<>>)
                   IN  e.photo = q /\ e.field = "group" /\ e.old = old /\ e.new = <<>>
    BY DEF Entry
  <2> QED  BY <2>1, <2>2, <2>3
<1>5. /\ o.photos = c.photos /\ o.groups = c.groups \ {row}
      /\ o.members = {m \in c.members : m.group # g}
      /\ o.log = c.log \o es /\ c.log \in Seq(Entries)
  <2>1. SameBut(r, o, "log") /\ o.log = r.log \o es
    BY <1>2, <1>4, LoggedTables
  <2> HIDE DEF o
  <2> QED  BY <1>2, <2>1, LogsAre DEF SameBut, Good, Contents
<1> HIDE DEF o, p
<1>6. /\ \A q : 1 \in About(es, q, "group") <=> q = p
      /\ \A q : \A i \in 1 .. Len(ms) : i + 1 \in About(es, q, "group") <=> q = ms[i]
      /\ \A q : \A k \in About(es, q, "group") : k = 1 \/ \E i \in 1 .. Len(ms) : k = i + 1
  <2>1. \A q : 1 \in About(es, q, "group") <=> q = p
    BY <1>4 DEF About
  <2>2. \A q : \A i \in 1 .. Len(ms) : i + 1 \in About(es, q, "group") <=> q = ms[i]
    BY <1>4 DEF About
  <2>3. ASSUME NEW q, NEW k \in About(es, q, "group"), k # 1
        PROVE  \E i \in 1 .. Len(ms) : k = i + 1
    <3>1. k \in 1 .. 1 + Len(ms)
      BY <1>4 DEF About
    <3>2. k - 1 \in 1 .. Len(ms) /\ k = (k - 1) + 1
      BY <1>4, <2>3, <3>1
    <3> QED  BY <3>2
  <2> QED  BY <2>1, <2>2, <2>3
<1>7. \A q : q \in MembersOf(c, g) <=> \E m \in c.members : m.group = g /\ m.photo = q
  BY DEF MembersOf
<1>8. \A q : q \in MembersOf(c, g) <=> \E i \in 1 .. Len(ms) : ms[i] = q
  BY <1>1, <1>4 DEF Range
<1>9. row \in c.groups /\ row.representative = p
  BY DEF p
<1>10. RowsAreUnique(o)
  BY <1>5 DEF GroupsAreKept, RowsAreUnique
<1>11. RolesAreKnown(o)
  <2>1. ASSUME NEW x \in o.groups  PROVE Knows(o.log, x.representative, "Representative")
    <3>1. Knows(c.log, x.representative, "Representative")
      BY <1>5 DEF GroupsAreKept, RolesAreKnown
    <3> QED  BY <1>4, <1>5, <3>1, KnowsMore
  <2>2. ASSUME NEW m \in o.members  PROVE Knows(o.log, m.photo, "Member")
    <3>1. Knows(c.log, m.photo, "Member")
      BY <1>5 DEF GroupsAreKept, RolesAreKnown
    <3> QED  BY <1>4, <1>5, <3>1, KnowsMore
  <2> QED  BY <2>1, <2>2 DEF RolesAreKnown
<1>12. ASSUME NEW q, OneRole(o.log, q), NEW x \in c.groups, x.representative = q
       PROVE  \A m \in c.members : m.photo # q
  <2> SUFFICES ASSUME NEW m \in c.members, m.photo = q  PROVE FALSE
    OBVIOUS
  <2>1. Knows(c.log, q, "Representative") /\ Knows(c.log, q, "Member")
    BY <1>12 DEF GroupsAreKept, RolesAreKnown
  <2>2. Knows(o.log, q, "Representative") /\ Knows(o.log, q, "Member")
    BY <1>4, <1>5, <2>1, KnowsMore
  <2> QED  BY <1>12, <2>2 DEF OneRole, Roles
<1>13. ASSUME NEW q \in c.photos, OneRole(o.log, q)
       PROVE  Follows(es, q, GroupByRows(c, q), GroupByRows(o, q))
  <2>1. CASE q = p
    <3>1. \A m \in c.members : m.photo # q
      BY <1>9, <1>12, <1>13, <2>1
    <3>2. About(es, q, "group") = {1}
      <4>1. q \notin MembersOf(c, g)
        BY <1>7, <3>1
      <4>2. \A i \in 1 .. Len(ms) : i + 1 \notin About(es, q, "group")
        BY <1>6, <1>8, <4>1
      <4> QED  BY <1>6, <2>1, <4>2
    <3>3. GroupByRows(c, q) = <<g, "Representative">>
      BY <1>9, <2>1, GroupOfRows DEF GroupsAreKept
    <3>4. \A x \in o.groups : x.representative # q
      BY <1>5, <1>9, <2>1 DEF GroupsAreKept, RowsAreUnique
    <3>5. GroupByRows(o, q) = <<>>
      BY <1>5, <1>10, <3>1, <3>4, GroupOfRows
    <3> QED  BY <1>4, <3>2, <3>3, <3>5 DEF Follows
  <2>2. CASE q # p /\ q \in MembersOf(c, g)
    <3>1. PICK m \in c.members : m.group = g /\ m.photo = q
      BY <1>7, <2>2
    <3>2. \A x \in c.groups : x.representative # q
      BY <1>12, <1>13, <3>1
    <3>3. PICK i \in 1 .. Len(ms) : ms[i] = q
      BY <1>8, <2>2
    <3>4. \A j \in 1 .. Len(ms) : ms[j] = q => j = i
      BY <1>1, <1>4, <3>3 DEF IsInjective
    <3>5. About(es, q, "group") = {i + 1}
      BY <1>6, <2>2, <3>3, <3>4
    <3>6. GroupByRows(c, q) = <<g, "Member">>
      BY <3>1, <3>2, GroupOfRows DEF GroupsAreKept
    <3>7. \A n \in o.members : n.photo # q
      BY <1>5, <3>1 DEF GroupsAreKept, RowsAreUnique
    <3>8. GroupByRows(o, q) = <<>>
      BY <1>5, <1>10, <3>2, <3>7, GroupOfRows
    <3>9. i + 1 \in 1 .. Len(es)
      BY <1>4, <3>3
    <3> QED  BY <1>4, <3>5, <3>6, <3>8, <3>9 DEF Follows
  <2>3. CASE q # p /\ q \notin MembersOf(c, g)
    <3>1. About(es, q, "group") = {}
      BY <1>6, <1>8, <2>3
    <3>2. GroupByRows(o, q) = GroupByRows(c, q)
      BY <1>5, <1>7, <1>9, <2>3, SameGroupByRows
    <3> QED  BY <3>1, <3>2 DEF Follows
  <2> QED  BY <2>1, <2>2, <2>3
<1>14. GroupsAreKept(o)
  BY <1>4, <1>5, <1>10, <1>11, <1>13, EntriesFollow DEF Good
<1> QED  BY <1>14 DEF o, r, es, whole

\* A photo that is removed has no row left that names it.
LEMMA RemovalKeepsGroups ==
    ASSUME Good(db), GroupsAreKept(db), NEW p, Consistent(Last(RemovalChain(p)))
    PROVE  GroupsAreKept(Last(RemovalChain(p)))
<1> DEFINE last == Last(RemovalChain(p))
           log == db.log
<1>1. /\ last.photos = db.photos \ {p} /\ last.log = WithoutEntries(log, p)
      /\ last.groups = db.groups /\ last.members = db.members
  BY RemovalTables DEF Good
<1>2. Consistent(last)
  OBVIOUS
<1> HIDE DEF last
<1>3. log \in Seq(Entries)
  BY LogsAre DEF Good, Contents
<1>4. /\ \A r \in db.groups : r.representative # p
      /\ \A m \in db.members : m.photo # p
  BY <1>1, <1>2, ForeignKeys
<1>5. RowsAreUnique(last)
  BY <1>1 DEF GroupsAreKept, RowsAreUnique
<1>6. \A q, role : q # p /\ Knows(log, q, role) => Knows(last.log, q, role)
  <2> HIDE DEF log
  <2> QED  BY <1>1, <1>3, KnowsWithout
<1>7. RolesAreKnown(last)
  BY <1>1, <1>4, <1>6 DEF GroupsAreKept, RolesAreKnown
<1>8. ASSUME NEW q \in last.photos, OneRole(last.log, q)
      PROVE  Tells(last.log, q, "group", GroupByRows(last, q))
  <2>1. q # p /\ q \in db.photos
    BY <1>1
  <2>2. OneRole(log, q)
    BY <1>6, <1>8, <2>1 DEF OneRole
  <2>3. GroupByRows(last, q) = GroupByRows(db, q)
    BY <1>1, SameGroupByRows
  <2> DEFINE v == GroupByRows(db, q)
  <2>4. Tells(log, q, "group", v)
    BY <2>1, <2>2 DEF GroupsAreKept, GroupsAreLogged
  <2> HIDE DEF v, log
  <2>5. Tells(WithoutEntries(log, p), q, "group", v)
    BY <1>3, <2>1, <2>4, TellsWithout
  <2> QED  BY <1>1, <2>3, <2>5 DEF v
<1>9. GroupsAreKept(last)
  BY <1>5, <1>7, <1>8 DEF GroupsAreKept, GroupsAreLogged
<1> QED  BY <1>9 DEF last

\* Without a fault a transaction comes to all of its chain, or to nothing when
\* the engine refuses it.
LEMMA FaultlessTransaction ==
    ASSUME Sane, NEW chain \in Seq(Contents), Len(chain) # 0, NEW o \in InTransaction(chain),
           Becomes(o), faults' = 0
    PROVE  /\ faults = 0
           /\ \/ db' = db /\ \E i \in 1 .. Len(chain) : ~ Consistent(chain[i])
              \/ /\ db' = Last(chain) /\ o.done = Len(chain)
                 /\ \A i \in 1 .. Len(chain) : Consistent(chain[i])
<1>1. db' = o.db /\ faults' = faults + o.cost
  BY DEF Becomes
<1>2. faults \in Nat /\ open \in BOOLEAN /\ (faults = 0 => ~ open) /\ (~ open => db = disk)
  BY SqlAssumption DEF Sane
<1>3. CASE \E done \in 0 .. Len(chain), cost \in {0, 1} :
              /\ o = RolledBack(done, cost)
              /\ ~ open /\ cost = 0 => \E i \in 1 .. Len(chain) : ~ Consistent(chain[i])
  <2>1. PICK done \in 0 .. Len(chain), cost \in {0, 1} :
              /\ o = RolledBack(done, cost)
              /\ ~ open /\ cost = 0 => \E i \in 1 .. Len(chain) : ~ Consistent(chain[i])
    BY <1>3
  <2>2. o.db = disk /\ o.cost = cost
    BY <2>1 DEF RolledBack
  <2>3. faults = 0 /\ cost = 0
    BY <1>1, <1>2, <2>2
  <2> QED  BY <1>1, <1>2, <2>1, <2>2, <2>3
<1>4. CASE /\ \A i \in 1 .. Len(chain) : Consistent(chain[i])
           /\ o \in Committed(chain) \cup CommitFailed(chain)
  <2>1. CASE o \in Committed(chain)
    <3>1. o.db = Last(chain) /\ o.cost = 0 /\ o.done = Len(chain)
      BY <2>1 DEF Committed
    <3> QED  BY <1>1, <1>2, <1>4, <3>1
  <2>2. CASE o \in CommitFailed(chain)
    <3>1. o.cost = 1
      BY <2>2 DEF CommitFailed
    <3> QED  BY <1>1, <1>2, <3>1
  <2> QED  BY <1>4, <2>1, <2>2
<1>5. \/ \E done \in 0 .. Len(chain), cost \in {0, 1} :
            /\ o = RolledBack(done, cost)
            /\ ~ open /\ cost = 0 => \E i \in 1 .. Len(chain) : ~ Consistent(chain[i])
      \/ /\ \A i \in 1 .. Len(chain) : Consistent(chain[i])
         /\ o \in Committed(chain) \cup CommitFailed(chain)
  BY TransactionOutcomes
<1> QED  BY <1>3, <1>4, <1>5

\* What the task in hand got so far: the photo that will represent a group is
\* there and new, and the group its members join was made.
IsFresh(c, p) ==
    /\ p \in c.photos /\ About(c.log, p, "group") = {}
    /\ \A r \in c.groups : r.representative # p
PhotoIsFresh == task.kind = "group" /\ made.calls = 1 => IsFresh(db, made.photo)
GroupIsMade == task.kind = "group" /\ made.calls = 2 => made.group # NoId

\* The state in which the log tells the groups, between the calls of a task too.
GroupsInv == SaneInv /\ (faults = 0 => GroupsAreKept(db) /\ PhotoIsFresh /\ GroupIsMade)

\* addPhotos() gives the id of a photo that is there, and that nothing names.
LEMMA AddPhotosKeepsGroups ==
    ASSUME Sane, faults = 0 => GroupsAreKept(db), NEW d, IsDelta(d), "group" \notin DOMAIN d,
           AddPhotos(d), faults' = 0
    PROVE  faults = 0 /\ \E c : c = db' /\ GroupsAreKept(c) /\ IsFresh(c, made'.photo)
<1> DEFINE id == NextId(db.photos)
           i == Inserted(db, id)
           chain == <<i>> \o StoreData(i, id, d)
<1>1. PICK o \in InTransaction(chain) :
         /\ id \in Photos
         /\ Becomes(o)
         /\ made' = [made EXCEPT !.calls = @ + 1, !.photo = IF o.done > 0 THEN id ELSE NoId]
  BY DEF AddPhotos, Inserted
<1>2. Good(db) /\ db \in Contents /\ made \in MadeType
  BY DEF Sane, Good, MadeType
<1>3. id \notin db.photos
  BY <1>2, NewIds
<1> HIDE DEF id
<1>4. /\ chain \in Seq(Contents) /\ Len(chain) = 6
      /\ Last(chain) = Stored(i, id, d)
      /\ \A k \in 1 .. 6 : Consistent(chain[k])
  BY <1>1, <1>2, AddPhotosChain, AddPhotosConsistent
<1> HIDE DEF chain
<1>5. faults = 0 /\ db' = Stored(i, id, d) /\ o.done = 6
  <2>1. Len(chain) # 0
    BY <1>4
  <2>2. /\ faults = 0
        /\ \/ \E k \in 1 .. Len(chain) : ~ Consistent(chain[k])
           \/ db' = Last(chain) /\ o.done = Len(chain)
    BY <1>1, <1>4, <2>1, FaultlessTransaction
  <2> QED  BY <1>4, <2>2
<1>6. made'.photo = id
  BY <1>1, <1>2, <1>5 DEF MadeType
<1>7. /\ i \in Contents /\ SameBut(db, i, "photos") /\ i.photos = db.photos \cup {id}
      /\ id \in Nat
  BY <1>1, <1>2, InsertedTables, PhotosAreNumbers
<1>8. GroupsAreKept(i)
  BY <1>1, <1>2, <1>3, <1>5, InsertedKeepsGroups
<1> HIDE DEF i
<1> DEFINE s == Stored(i, id, d)
<1>9. GroupsAreKept(s)
  BY <1>7, <1>8, DetailsKeepGroups
<1>10. s.photos = i.photos /\ s.groups = i.groups /\ s.log = i.log \o Noted(i, id, d)
  BY <1>7, StoredTables
<1>11. Noted(i, id, d) \in Seq(Entries) /\ \A q : About(Noted(i, id, d), q, "group") = {}
  BY <1>7, NotedDetails
<1>12. IsFresh(s, id)
  <2> DEFINE log == db.log
             es == Noted(i, id, d)
  <2>1. About(log, id, "group") = {} /\ \A r \in db.groups : r.representative # id
    BY <1>2, <1>3, NothingIsLeft
  <2>2. log \in Seq(Entries) /\ i.log = log
    BY <1>2, <1>7, LogsAre DEF SameBut, Contents
  <2>3. s.groups = db.groups /\ s.log = log \o es /\ id \in s.photos
    BY <1>7, <1>10, <2>2 DEF SameBut
  <2> HIDE DEF log, es, s
  <2>4. es \in Seq(Entries) /\ About(es, id, "group") = {}
    BY <1>11 DEF es
  <2>5. About(log \o es, id, "group") = {}
    <3> DEFINE both == log \o es
    <3>1. Extends(both, log, es, id, "group")
      BY <2>2, <2>4, AppendedEntries
    <3> HIDE DEF both
    <3>2. About(both, id, "group") = {}
      BY <2>1, <2>4, <3>1 DEF Extends
    <3> QED  BY <3>2 DEF both
  <2> QED  BY <2>1, <2>3, <2>5 DEF IsFresh
<1> QED  BY <1>5, <1>6, <1>9, <1>12

\* update(), with details or with a group that is there.
LEMMA UpdateKeepsGroups ==
    ASSUME Sane, faults = 0 => GroupsAreKept(db), NEW photos \in Seq(Photos), NEW d, IsDelta(d),
           Update(photos, d), faults' = 0, faults = 0 => TellsItsGroup(d)
    PROVE  faults = 0 /\ \E c : c = db' /\ GroupsAreKept(c)
<1> DEFINE chain == StoreAll(db, photos, d)
<1>1. PICK o \in InTransaction(chain) : Becomes(o)
  BY DEF Update
<1>2. Good(db) /\ db \in Contents /\ photos \in Seq(Nat)
  BY PhotosAreNumbers, SeqMonotonic DEF Sane, Good
<1>3. StageOK(chain, db) /\ \E w : Passes(w, chain, db, photos, d)
  BY <1>2, StoreAllChain
<1> HIDE DEF chain
<1>4. chain \in Seq(Contents) /\ Len(chain) # 0
  BY <1>3 DEF StageOK
<1>5. faults = 0 /\ (db' = db \/ db' = Last(chain))
  BY <1>1, <1>4, FaultlessTransaction
<1>6. PICK w : Passes(w, chain, db, photos, d)
  BY <1>3
<1>7. GroupsAreKept(w[0])
  BY <1>5, <1>6 DEF Passes
<1>8. GroupsAreKept(w[Len(photos)])
  BY <1>5, <1>6, <1>7, PassesKeepGroups DEF Passes
<1>9. Last(chain) = w[Len(photos)]
  BY <1>6 DEF Passes
<1> QED  BY <1>5, <1>8, <1>9

\* addGroup() of a new photo: the group and its entry, both.
LEMMA AddGroupKeepsGroups ==
    ASSUME Sane, faults = 0 => GroupsAreKept(db), NEW p \in Nat, faults = 0 => IsFresh(db, p),
           AddGroup(p), faults' = 0
    PROVE  faults = 0 /\ made'.group # NoId /\ \E c : c = db' /\ GroupsAreKept(c)
<1> DEFINE id == NextId({g.id : g \in db.groups})
           i == GroupInserted(db, id, p)
           n == GroupNoted(db, id, p)
           chain == <<i, n>>
<1>1. PICK o \in Autocommit(chain) :
         /\ id \in Groups
         /\ \/ /\ Becomes(o)
               /\ made' = [made EXCEPT !.calls = @ + 1, !.group = IF o.ok THEN id ELSE NoId]
            \/ /\ o.done = 1
               /\ faults' = faults + o.cost
  BY DEF AddGroup, GroupInserted, GroupNoted
<1> HIDE DEF id
<1>2. Good(db) /\ db \in Contents /\ made \in MadeType /\ faults \in Nat
  BY SqlAssumption DEF Sane, Good, MadeType
<1>3. /\ i \in Contents /\ n \in Contents
      /\ SameBut(db, i, "groups") /\ i.groups = db.groups \cup {[id |-> id, representative |-> p]}
      /\ SameBut(i, n, "log") /\ n.log = db.log \o <<Entry(p, "group", <<>>, <<id, "Representative">>)>>
      /\ Entry(p, "group", <<>>, <<id, "Representative">>) \in Entries
  BY <1>1, <1>2, AddGroupChain
<1>4. chain \in Seq(Contents) /\ Len(chain) = 2 /\ chain[1] = i /\ chain[2] = n
  BY <1>3
<1> HIDE DEF chain
<1>5. PICK k \in 0 .. Reach(chain) :
         /\ o.db = After(chain, k) /\ o.done = k /\ (o.ok <=> k = Len(chain))
         /\ (o.cost = 0 => k = Reach(chain)) /\ o.cost \in {0, 1}
  BY <1>4, AutocommitOutcomes
<1>6. faults = 0 /\ o.cost = 0
  <2>1. faults' = faults + o.cost
    BY <1>1 DEF Becomes
  <2> QED  BY <1>2, <1>5, <2>1
<1>7. Consistent(i) /\ Consistent(n)
  <2> HIDE DEF i, n
  <2>1. p \in db.photos /\ Consistent(db)
    BY <1>2, <1>6 DEF IsFresh, Good
  <2>2. Consistent(i)
    BY <1>3, <2>1, ForeignKeys DEF SameBut
  <2>3. \A k2 \in DOMAIN n.log : n.log[k2].photo \in n.photos
    <3> DEFINE e == Entry(p, "group", <<>>, <<id, "Representative">>)
               log == db.log
               es == <<e>>
    <3>1. e.photo = p
      BY DEF Entry
    <3>2. log \in Seq(Entries) /\ e \in Entries
      BY <1>2, <1>3, LogsAre DEF Contents
    <3>3. \A j \in DOMAIN log : log[j].photo \in db.photos
      BY <2>1, ForeignKeys
    <3>4. n.photos = db.photos
      BY <1>3 DEF SameBut
    <3>5. n.log = log \o es
      BY <1>3
    <3> HIDE DEF e, log
    <3>6. es \in Seq(Entries) /\ Len(es) = 1 /\ es[1] = e
      BY <3>2
    <3> HIDE DEF es
    <3>7. /\ Len(log \o es) = Len(log) + Len(es) /\ log \o es \in Seq(Entries)
          /\ \A j \in 1 .. Len(log) + Len(es) :
                (log \o es)[j] = IF j <= Len(log) THEN log[j] ELSE es[j - Len(log)]
      BY <3>2, <3>6, ConcatProperties
    <3>8. /\ DOMAIN (log \o es) = 1 .. Len(log) + 1
          /\ DOMAIN log = 1 .. Len(log) /\ Len(log) \in Nat
      BY <3>2, <3>6, <3>7
    <3>9. ASSUME NEW j \in 1 .. Len(log) + 1  PROVE (log \o es)[j].photo \in db.photos
      <4>1. CASE j <= Len(log)
        BY <3>3, <3>6, <3>7, <3>8, <4>1
      <4>2. CASE ~ (j <= Len(log))
        <5>1. j - Len(log) = 1
          BY <3>8, <4>2
        <5> QED  BY <2>1, <3>1, <3>6, <3>7, <4>2, <5>1
      <4> QED  BY <4>1, <4>2
    <3> QED  BY <3>4, <3>5, <3>8, <3>9
  <2> QED  BY <1>3, <2>2, <2>3, ForeignKeys DEF SameBut
<1>8. Reach(chain) = 2
  <2>1. \A j \in 1 .. Len(chain) : Consistent(chain[j])
    <3>1. 1 .. Len(chain) = {1, 2}
      BY <1>4
    <3> QED  BY <1>4, <1>7, <3>1
  <2> QED  BY <1>4, <2>1, ReachProperties
<1>9. k = 2 /\ o.done = 2 /\ o.ok /\ o.db = n
  <2>1. k = 2
    BY <1>5, <1>6, <1>8
  <2> QED  BY <1>4, <1>5, <2>1 DEF After
<1>10. db' = n /\ made'.group = id
  <2>1. Becomes(o) /\ made' = [made EXCEPT !.calls = @ + 1, !.group = id]
    BY <1>1, <1>9
  <2>2. made'.group = id
    BY <1>2, <2>1 DEF MadeType
  <2>3. db' = o.db
    BY <2>1 DEF Becomes
  <2> QED  BY <1>9, <2>2, <2>3
<1>11. GroupsAreKept(n)
  BY <1>1, <1>2, <1>6, CreationKeepsGroups DEF IsFresh
<1>12. id # NoId
  BY <1>1, SqlAssumption DEF Groups, NoId
<1> QED  BY <1>6, <1>10, <1>11, <1>12

\* removeGroup()
LEMMA RemoveGroupKeepsGroups ==
    ASSUME Sane, faults = 0 => GroupsAreKept(db), NEW g \in Groups, RemoveGroup(g), faults' = 0
    PROVE  faults = 0 /\ \E c : c = db' /\ GroupsAreKept(c)
<1>1. Good(db) /\ db \in Contents /\ faults \in Nat /\ (faults = 0 => db = disk)
  BY SqlAssumption DEF Sane, Good
<1>2. GoesBack \/ \E row, k : Dissolves(g, row, k)
  BY <1>1, RemoveGroupOutcomes
<1>3. CASE GoesBack
  <2>1. db' = disk /\ \E cost \in {0, 1} : faults' = faults + cost
    BY <1>3 DEF GoesBack
  <2>2. faults = 0
    BY <1>1, <2>1
  <2> QED  BY <1>1, <2>1, <2>2
<1>4. ASSUME NEW row, NEW k, Dissolves(g, row, k)
      PROVE  faults = 0 /\ \E c : c = db' /\ GroupsAreKept(c)
  <2> DEFINE es == Dissolution(db, g, row)
  <2>1. /\ row \in db.groups /\ row.id = g
        /\ k \in 0 .. Len(es)
        /\ db' = Logged(GroupRemoved(db, g, row), SubSeq(es, 1, k))
        /\ faults' = faults + (IF k < Len(es) THEN 1 ELSE 0)
    BY <1>4 DEF Dissolves
  <2>2. es \in Seq(Entries)
    BY <1>1, <2>1, DissolutionType
  <2> HIDE DEF es
  <2>3. faults = 0 /\ k = Len(es)
    <3>1. Len(es) \in Nat
      BY <2>2
    <3> QED  BY <1>1, <2>1, <3>1
  <2>4. GroupsAreKept(Logged(GroupRemoved(db, g, row), SubSeq(es, 1, Len(es))))
    BY <1>1, <2>1, <2>3, DissolutionKeepsGroups DEF es
  <2> QED  BY <2>1, <2>3, <2>4
<1> QED  BY <1>2, <1>3, <1>4

\* markStagedAsReviewed() and set(), which leave the groups alone.
LEMMA StatementKeepsGroups ==
    ASSUME Sane, faults = 0 => GroupsAreKept(db), NEW c \in Contents, c.log = db.log,
           c.photos = db.photos, c.groups = db.groups, c.members = db.members,
           NEW chain, chain \in {<<>>, <<c>>},
           NEW o \in Autocommit(chain), Becomes(o), faults' = 0
    PROVE  faults = 0 /\ \E x : x = db' /\ GroupsAreKept(x)
<1>1. chain \in Seq(Contents)
  <2>1. CASE chain = <<>>
    BY <2>1
  <2>2. CASE chain = <<c>>
    BY <2>2
  <2> QED  BY <2>1, <2>2
<1>2. faults = 0
  BY <1>1, AutocommitIsSane
<1>3. db' = db \/ db' = c
  BY StatementLeads DEF Stays, Leads
<1>4. GroupsAreKept(c)
  <2> DEFINE es == <<>>
  <2>1. es \in Seq(Entries) /\ \A q : About(es, q, "group") = {}
    BY DEF About
  <2>2. db \in Contents /\ db.log \in Seq(Entries)
    BY LogsAre DEF Sane, Good, Contents
  <2>3. c.log = db.log \o es
    BY <2>2
  <2> HIDE DEF es
  <2> QED  BY <1>2, <2>1, <2>2, <2>3, GroupsUntouched
<1> QED  BY <1>2, <1>3, <1>4

\* Every call keeps it, as long as nothing failed.
LEMMA PerformKeepsGroups ==
    ASSUME GroupsInv, Perform, faults' = 0
    PROVE  /\ faults = 0
           /\ \E c : c = db' /\ GroupsAreKept(c)
           /\ PhotoIsFresh' /\ GroupIsMade'
<1>1. /\ Sane /\ TasksOK /\ Good(db) /\ db \in Contents /\ made \in MadeType
      /\ Photos \subseteq Nat /\ NoId \in Nat
      /\ faults = 0 => GroupsAreKept(db)
  BY PhotosAreNumbers DEF GroupsInv, SaneInv, Sane, Good, MadeType
<1>2. task'.kind # "group" => PhotoIsFresh' /\ GroupIsMade'
  BY DEF PhotoIsFresh, GroupIsMade
<1>3. Ends => task'.kind # "group"
  BY DEF Ends, Idle
<1>4. CASE Scan
  <2> DEFINE d == [flags |-> {"StagingArea"}]
  <2>1. AddPhotos(d) /\ Ends
    BY <1>4 DEF Scan
  <2>2. IsDelta(d) /\ "group" \notin DOMAIN d
    BY OtherDeltas
  <2> HIDE DEF d
  <2> QED  BY <1>1, <1>2, <1>3, <2>1, <2>2, AddPhotosKeepsGroups
<1>5. CASE Edit
  <2> DEFINE d == task.edit
             photos == task.photos
  <2>1. photos \in Seq(Photos) /\ d \in Edits /\ IsDelta(d) /\ Update(photos, d) /\ Ends
    BY <1>1, <1>5, TaskFields, EditsAreDeltas DEF Edit
  <2> HIDE DEF d, photos
  <2>2. TellsItsGroup(d)
    BY <2>1, EditsAssumption DEF TellsItsGroup
  <2> QED  BY <1>1, <1>2, <1>3, <2>1, <2>2, UpdateKeepsGroups
<1>6. CASE Review
  <2> DEFINE c == Reviewed(db)
             chain == IF c = db THEN <<>> ELSE <<c>>
  <2>1. PICK o \in Autocommit(chain) : Becomes(o)
    BY <1>6 DEF Review, MarkStagedAsReviewed, Reviewed
  <2>2. /\ c \in Contents /\ c.log = db.log /\ c.photos = db.photos
        /\ c.groups = db.groups /\ c.members = db.members
    BY <1>1, ReviewedTables DEF SameBut
  <2> HIDE DEF c
  <2>3. chain \in {<<>>, <<c>>}
    OBVIOUS
  <2> HIDE DEF chain
  <2>4. faults = 0 /\ \E x : x = db' /\ GroupsAreKept(x)
    BY <1>1, <2>1, <2>2, <2>3, StatementKeepsGroups
  <2> QED  BY <1>2, <1>3, <1>6, <2>4 DEF Review
<1>7. CASE MarkBroken
  <2> DEFINE p == task.photo
             c == UpdateOrInsert(db, "generalFlags", [photo |-> p])
             chain == <<c>>
  <2>1. PICK o \in Autocommit(chain) : Becomes(o)
    BY <1>7 DEF MarkBroken, SetFlag
  <2>2. p \in Nat
    BY <1>1, <1>7, TaskFields DEF MarkBroken
  <2> HIDE DEF p
  <2>3. /\ c \in Contents /\ c.log = db.log /\ c.photos = db.photos
        /\ c.groups = db.groups /\ c.members = db.members
    BY <1>1, <2>2, MarkedTables DEF SameBut
  <2> HIDE DEF c
  <2>4. chain \in {<<>>, <<c>>}
    OBVIOUS
  <2> HIDE DEF chain
  <2>5. faults = 0 /\ \E x : x = db' /\ GroupsAreKept(x)
    BY <1>1, <2>1, <2>3, <2>4, StatementKeepsGroups
  <2> QED  BY <1>2, <1>3, <1>7, <2>5 DEF MarkBroken
<1>8. CASE GroupRepresentative
  <2> DEFINE first == Head(task.photos)
             d == [tags |-> GetTags(db, first), flags |-> GetFlags(db, first) \cap {"StagingArea"}]
  <2>1. AddPhotos(d) /\ IsDelta(d) /\ "group" \notin DOMAIN d /\ made.calls = 0
    BY <1>1, <1>8, OtherDeltas DEF GroupRepresentative
  <2> HIDE DEF d
  <2>2. faults = 0 /\ \E c : c = db' /\ GroupsAreKept(c) /\ IsFresh(c, made'.photo)
    BY <1>1, <2>1, AddPhotosKeepsGroups
  <2>3. made'.calls = 1
    BY <1>1, <2>1, AddPhotosCounts
  <2> QED  BY <2>2, <2>3 DEF PhotoIsFresh, GroupIsMade, IsFresh
<1>9. CASE GroupCreate
  <2> DEFINE p == made.photo
  <2>1. p \in Nat /\ AddGroup(p) /\ made.calls = 1 /\ task.kind = "group"
    BY <1>1, <1>9 DEF GroupCreate, MadeType
  <2>2. faults = 0 => IsFresh(db, p)
    BY <2>1 DEF GroupsInv, PhotoIsFresh
  <2> HIDE DEF p
  <2>3. faults = 0 /\ made'.group # NoId /\ \E c : c = db' /\ GroupsAreKept(c)
    BY <1>1, <2>1, <2>2, AddGroupKeepsGroups
  <2>4. made'.calls # 1
    <3>1. CASE \E x : made' = [made EXCEPT !.calls = @ + 1, !.group = x]
      <4>1. PICK x : made' = [made EXCEPT !.calls = @ + 1, !.group = x]
        BY <3>1
      <4>2. made'.calls = 2
        BY <1>1, <2>1, <4>1 DEF MadeType
      <4> QED  BY <4>2
    <3>2. CASE made' = Nothing
      <4>1. made'.calls = 0
        BY <3>2 DEF Nothing
      <4> QED  BY <4>1
    <3>3. (\E x : made' = [made EXCEPT !.calls = @ + 1, !.group = x]) \/ made' = Nothing
      BY <2>1 DEF AddGroup, Restarts
    <3> QED  BY <3>1, <3>2, <3>3
  <2> QED  BY <2>3, <2>4 DEF PhotoIsFresh, GroupIsMade
<1>10. CASE GroupJoin
  <2> DEFINE d == [group |-> IF made.group = NoId THEN <<>> ELSE <<made.group, "Member">>]
             photos == task.photos
  <2>1. photos \in Seq(Photos) /\ Update(photos, d) /\ Ends
    BY <1>1, <1>10, TaskFields DEF GroupJoin
  <2>2. made.group \in Groups \cup {NoId}
    BY <1>1 DEF MadeType
  <2>3. IsDelta(d)
    BY <2>2, OtherDeltas
  <2>4. faults = 0 => TellsItsGroup(d)
    <3>1. faults = 0 => made.group # NoId
      BY <1>10 DEF GroupsInv, GroupIsMade, GroupJoin
    <3> QED  BY <2>2, <3>1 DEF TellsItsGroup
  <2> HIDE DEF d, photos
  <2> QED  BY <1>1, <1>2, <1>3, <2>1, <2>3, <2>4, UpdateKeepsGroups
<1>11. CASE UngroupDissolve
  <2> DEFINE g == task.group
  <2>1. g \in Groups /\ RemoveGroup(g) /\ task'.kind # "group"
    BY <1>1, <1>11, TaskFields DEF UngroupDissolve, GoesOn
  <2> HIDE DEF g
  <2> QED  BY <1>1, <1>2, <2>1, RemoveGroupKeepsGroups
<1>12. CASE UngroupRemove
  <2> DEFINE p == made.photo
             chain == RemovalChain(p)
  <2>1. PICK o \in InTransaction(chain) : Becomes(o)
    BY <1>12 DEF UngroupRemove, RemovePhoto
  <2>2. chain \in Seq(Contents) /\ Len(chain) = 7 /\ chain[7] = Last(chain)
    BY <1>1, RemovalTables
  <2> HIDE DEF chain
  <2>3. /\ faults = 0
        /\ db' = db \/ (db' = Last(chain) /\ \A i \in 1 .. Len(chain) : Consistent(chain[i]))
    <3>1. Len(chain) # 0
      BY <2>2
    <3> QED  BY <1>1, <2>1, <2>2, <3>1, FaultlessTransaction
  <2>4. (\A i \in 1 .. Len(chain) : Consistent(chain[i])) => Consistent(Last(chain))
    BY <2>2
  <2>5. faults = 0 /\ \E c : c = db' /\ GroupsAreKept(c)
    <3>1. Consistent(Last(chain)) => GroupsAreKept(Last(chain))
      BY <1>1, <2>3, RemovalKeepsGroups DEF chain
    <3> QED  BY <1>1, <2>3, <2>4, <3>1
  <2> QED  BY <1>2, <1>3, <1>12, <2>5 DEF UngroupRemove
<1> QED
  BY <1>4, <1>5, <1>6, <1>7, <1>8, <1>9, <1>10, <1>11, <1>12 DEF Perform

\* Every step keeps it.
LEMMA StepKeepsGroups == GroupsInv /\ [Next]_vars => GroupsInv'
<1> SUFFICES ASSUME GroupsInv, [Next]_vars  PROVE GroupsInv'
  OBVIOUS
<1>1. SaneInv'
  BY StepIsSane DEF GroupsInv
<1> SUFFICES ASSUME faults' = 0  PROVE GroupsAreKept(db)' /\ PhotoIsFresh' /\ GroupIsMade'
  BY <1>1 DEF GroupsInv
<1>2. ASSUME NEW c, c = db', GroupsAreKept(c)  PROVE GroupsAreKept(db)'
  BY <1>2 DEF GroupsAreKept, GroupsAreLogged, RowsAreUnique, RolesAreKnown
<1>3. CASE UNCHANGED <<content, faults>> /\ (UNCHANGED <<task, made>> \/ made' = Nothing)
  <2>1. db' = db /\ faults = 0
    BY <1>3 DEF content
  <2>2. GroupsAreKept(db)'
    BY <1>2, <2>1 DEF GroupsInv
  <2>3. PhotoIsFresh' /\ GroupIsMade'
    BY <1>3, <2>1 DEF GroupsInv, PhotoIsFresh, GroupIsMade, IsFresh, Nothing
  <2> QED  BY <2>2, <2>3
<1>4. CASE UNCHANGED vars \/ Post \/ Take
  <2>1. UNCHANGED <<content, faults>> /\ (UNCHANGED <<task, made>> \/ made' = Nothing)
    BY <1>4 DEF vars, content, Post, Take
  <2> QED  BY <1>3, <2>1
<1>5. CASE Crash
  BY <1>5, SqlAssumption DEF Crash, GroupsInv, SaneInv, Sane
<1>6. CASE Perform
  BY <1>2, <1>6, PerformKeepsGroups
<1> QED  BY <1>4, <1>5, <1>6 DEF Next

\* As long as nothing fails, and nothing failed in the sessions that left the
\* tables, replaying the log of a photo that has one role gives its group.
THEOREM LogAlwaysTellsGroups ==
    ASSUME \A c \in Collections : GroupsAreKept(c)
    PROVE  Spec => []LogTellsGroups
<1>1. Init => GroupsInv
  <2> SUFFICES ASSUME Init  PROVE GroupsInv
    OBVIOUS
  <2>1. GroupsAreKept(db) /\ PhotoIsFresh /\ GroupIsMade
    BY DEF Init, PhotoIsFresh, GroupIsMade, Idle
  <2> QED  BY <2>1, InitIsSane DEF GroupsInv
<1>2. GroupsInv => LogTellsGroups
  BY DEF GroupsInv, LogTellsGroups, GroupsAreKept
<1> QED  BY <1>1, <1>2, StepKeepsGroups, PTL DEF Spec

=============================================================================
