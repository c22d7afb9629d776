------------------------------ MODULE PhotoInfo ------------------------------
(***************************************************************************)
(* The cached copy of a photo (PhotoInfo, found through PhotoInfoCache) in *)
(* front of AsyncDatabase, as the tag editor uses it.                      *)
(*                                                                         *)
(* A setter changes the copy and sends the database a delta with ALL tags  *)
(* of the copy; it holds the lock of the copy until the delta is queued.   *)
(* The backend answers every update that it stores with photosModified, on *)
(* the database's thread, and Utils then overwrites the copy with what the *)
(* backend has.  An update that fails is not answered: release builds drop *)
(* the status (async_database.cpp:268 only asserts it), so the copy stays  *)
(* ahead of the backend.  One photo is enough to show how they interact;   *)
(* its tags stand for every field that is sent as a whole (flags as well). *)
(***************************************************************************)
EXTENDS AsyncDatabase

CONSTANTS Tags,    \* tags of the photo
          Values,  \* values of a tag
          Empty,   \* TagValue of type Empty: no such tag
          Editor,  \* the client that edits through the PhotoInfo (GUI thread)
          Load,    \* the request for getPhotoFor(id)
          Nobody,  \* no lock holder, no photo
          MaxFaults \* bound of the updates that fail of themselves

ASSUME PhotoAssumption == /\ Empty \notin Values
                          /\ Editor \in Clients
                          /\ MaxFaults \in Nat

TagLists == [Tags -> Values \cup {Empty}]

\* An update's task is the list of tags it stores.
ASSUME RequestsAssumption == /\ Requests = TagLists \cup {Load}
                             /\ Load \notin TagLists

VARIABLES
    stored,   \* the photo's tags as the backend reads them
    committed, \* those that are on the disk
    open,     \* a COMMIT failed and left the transaction open
    refused,  \* history: what failed to be stored since an update last succeeded
    faults,   \* updates that failed of themselves so far
    copy,     \* PhotoInfo::m_data, or Nobody when no client holds the PhotoInfo
    locked,   \* who holds the lock of m_data
    stage,    \* how far execute() of the current task has come
    lastSet   \* history: what the user set each tag to, Nobody if not set

storeVars == <<stored, committed, open, refused, faults>>
vars == <<dbVars, storeVars, copy, locked, stage, lastSet>>

Init == /\ DbInit
        /\ stored = [t \in Tags |-> Empty]
        /\ committed = stored
        /\ open = FALSE
        /\ refused = {}
        /\ faults = 0
        /\ copy = Nobody
        /\ locked = Nobody
        /\ stage = "begin"
        /\ lastSet = [t \in Tags |-> Nobody]

MayRequest == Len(accepted) < MaxRequests

-----------------------------------------------------------------------------
(* The tag editor *)

\* TagsModel::fetchPhotos(): ask the database's thread for the photo.
Fetch ==
    /\ copy = Nobody
    /\ MayRequest
    /\ \A i \in 1 .. Len(tasks) : tasks[i] # Load
    /\ current # Load
    /\ AddTask(Editor, Load)
    /\ UNCHANGED <<storeVars, copy, locked, stage, lastSet>>

WithTag(list, t, v) == [list EXCEPT ![t] = v]

\* PhotoInfo::setTag(): the value, or Empty to remove the tag; up to addTask().
SetTag(t, v) ==
    /\ copy # Nobody
    /\ locked = Nobody
    /\ MayRequest
    /\ copy' = WithTag(copy, t, v)
    /\ locked' = Editor
    /\ lastSet' = [lastSet EXCEPT ![t] = v]
    /\ AddTask(Editor, copy')
    /\ UNCHANGED <<storeVars, stage>>

\* setTags(): std::inserter inserts, so a tag that is there keeps its value, and
\* an Empty one is not copied.
Inserted(list, new) ==
    [t \in Tags |-> IF list[t] = Empty THEN new[t] ELSE list[t]]

SetTags(new) ==
    /\ copy # Nobody
    /\ locked = Nobody
    /\ MayRequest
    /\ copy' = Inserted(copy, new)
    /\ locked' = Editor
    /\ lastSet' = [t \in Tags |->
                      IF copy'[t] = copy[t] THEN lastSet[t] ELSE new[t]]
    /\ AddTask(Editor, copy')
    /\ UNCHANGED <<storeVars, stage>>

EditorPush_KeepsLock ==
    /\ Push(Editor)
    /\ UNCHANGED <<locked, storeVars, copy, stage, lastSet>>

\* The delta is queued and the setter returns, which releases the lock.
EditorPush ==
    /\ Push(Editor)
    /\ locked' = IF locked = Editor THEN Nobody ELSE locked
    /\ UNCHANGED <<storeVars, copy, stage, lastSet>>

\* The editor lets the photo go; the cache holds a weak_ptr only.
Drop ==
    /\ copy # Nobody /\ locked = Nobody
    /\ calling[Editor] = None
    /\ ~(current # None /\ stage = "notify")  \* photosModified() may hold it
    /\ copy' = Nobody
    /\ UNCHANGED <<dbVars, storeVars, locked, stage, lastSet>>

\* Another thread updates the photo, not through the PhotoInfo: the analyzer
\* does.  It is not what the user set.
OtherUpdate(c, list) ==
    /\ c # Editor
    /\ MayRequest
    /\ AddTask(c, list)
    /\ UNCHANGED <<storeVars, copy, locked, stage, lastSet>>

OtherPush(c) ==
    /\ c # Editor
    /\ Push(c)
    /\ UNCHANGED <<storeVars, copy, locked, stage, lastSet>>

-----------------------------------------------------------------------------
(* The database's thread *)

TakeTask ==
    /\ Pop
    /\ stage' = "begin"
    /\ UNCHANGED <<storeVars, copy, locked, lastSet>>

\* After closeConnections() there is no connection: nothing is stored or read.
BackendClosed == \E i \in 1 .. Len(performed) : performed[i] = Close

\* AsyncDatabase::update(): IBackend::update() stores the delta ...
StoreDelta ==
    /\ current \in TagLists /\ stage = "begin"
    /\ ~BackendClosed /\ ~open
    /\ stored' = current
    /\ committed' = current
    /\ refused' = {}
    /\ stage' = "notify"
    /\ UNCHANGED <<dbVars, open, faults, copy, locked, lastSet>>

StoreClosed ==
    /\ current \in TagLists /\ stage = "begin"
    /\ BackendClosed
    /\ stage' = "end"
    /\ UNCHANGED <<dbVars, storeVars, copy, locked, lastSet>>

\* ... or fails.  Inside a transaction that was left open BEGIN fails, and
\* ~Transaction() rolls that one back.
BeginFails ==
    /\ open
    /\ stored' = committed
    /\ open' = FALSE
    /\ UNCHANGED faults

\* BEGIN or a statement fails and all is rolled back.
StatementFails ==
    /\ ~open
    /\ faults < MaxFaults
    /\ faults' = faults + 1
    /\ UNCHANGED <<stored, open>>

\* Transaction::commit() says that it committed before it knows: nothing is rolled
\* back, and the connection goes on reading what is not on the disk.
CommitFails ==
    /\ ~open
    /\ faults < MaxFaults
    /\ faults' = faults + 1
    /\ stored' = current
    /\ open' = TRUE

\* No photosModified follows, and nobody looks at the status.
StoreFails ==
    /\ current \in TagLists /\ stage = "begin"
    /\ ~BackendClosed
    /\ BeginFails \/ StatementFails \/ CommitFails
    /\ refused' = refused \cup {current}
    /\ stage' = "end"
    /\ UNCHANGED <<dbVars, committed, copy, locked, lastSet>>

NotifyCache_Nothing ==
    /\ current \in TagLists /\ stage = "notify"
    /\ stage' = "end"
    /\ UNCHANGED <<dbVars, storeVars, copy, locked, lastSet>>

\* ... and emits photosModified; Utils::photosModified() reads the photo back and
\* calls setData(), which needs the lock.
NotifyCache ==
    /\ current \in TagLists /\ stage = "notify"
    /\ copy # Nobody => locked = Nobody
    /\ copy' = IF copy = Nobody THEN Nobody ELSE stored
    /\ stage' = "end"
    /\ UNCHANGED <<dbVars, storeVars, locked, lastSet>>

\* Utils::getPhotoFor(): the cached photo, or a new one from the backend.
GetPhoto ==
    /\ current = Load /\ stage = "begin"
    /\ copy' = IF copy = Nobody /\ ~BackendClosed THEN stored ELSE copy
    /\ stage' = "end"
    /\ UNCHANGED <<dbVars, storeVars, locked, lastSet>>

Finish ==
    /\ stage = "end" \/ current = Close
    /\ TaskDone
    /\ stage' = "begin"
    /\ UNCHANGED <<storeVars, copy, locked, lastSet>>

Rest == UNCHANGED <<storeVars, copy, locked, stage, lastSet>>

DatabaseStep == TakeTask \/ StoreDelta \/ StoreClosed \/ StoreFails
                \/ NotifyCache \/ GetPhoto \/ Finish \/ (ThreadEnds /\ Rest)

\* The GUI thread, which is the editor's, closes the project between two calls.
CloseProject == CloseBegin /\ calling[Editor] = None /\ Rest

Next == \/ Fetch \/ EditorPush \/ Drop
        \/ \E t \in Tags, v \in Values \cup {Empty} : SetTag(t, v)
        \/ \E new \in TagLists : SetTags(new)
        \/ \E c \in Clients : OtherPush(c) \/ \E list \in TagLists : OtherUpdate(c, list)
        \/ DatabaseStep
        \/ CloseProject \/ (CloseStep /\ Rest)

Spec == Init /\ [][Next]_vars

\* The database's thread runs, tasks return, and a caller that can push does.
Fairness == /\ WF_vars(DatabaseStep)
            /\ WF_vars(EditorPush)
            /\ \A c \in Clients : WF_vars(OtherPush(c))
            /\ WF_vars(CloseStep /\ Rest)
FairSpec == Spec /\ Fairness

-----------------------------------------------------------------------------
(* Properties *)

\* Every variable holds a value of its type.
TypeOK ==
    /\ DbTypeOK
    /\ stored \in TagLists /\ committed \in TagLists
    /\ open \in BOOLEAN
    /\ refused \subseteq TagLists
    /\ faults \in Nat /\ faults <= MaxFaults
    /\ copy \in TagLists \cup {Nobody}
    /\ locked \in {Nobody, Editor}
    /\ stage \in {"begin", "notify", "end"}
    /\ lastSet \in [Tags -> Values \cup {Empty, Nobody}]

Idle == working /\ tasks = <<>> /\ current = None /\ \A c \in Clients : calling[c] = None

\* While the database is open and nothing is under way, the copy the user sees is
\* what the backend has stored, whoever changed the photo last, if no update has
\* failed since one last succeeded.  After failures it is what the backend reads,
\* what is on the disk or one of the updates that failed, and never a list that was
\* stored and replaced before them.
CopyIsStoredOrRefused ==
    Idle /\ copy # Nobody => IF refused = {} THEN copy = stored
                             ELSE copy \in refused \cup {stored, committed}

\* A caller comes back from the database, and closing it ends, as long as the
\* queue is not full: with a full queue a setter waits with the lock held that
\* the database's thread needs before it takes the next task.
NeverFull == Len(tasks) < QueueLimit
CallersReturnUnlessFull ==
    []NeverFull => /\ \A c \in Clients : calling[c] # None ~> calling[c] = None
                   /\ closer = "push" ~> closer = "closed"

(* What a comment of the source says and the code does not do *)

\* iphoto_info.hpp:65, "set tag": with nothing under way any more in an open database, a tag is what
\* the user set it to last, if nobody else updates the photo.
SetTagIsKept ==
    Idle => \A t \in Tags : lastSet[t] = Nobody \/ stored[t] = lastSet[t]
=============================================================================
