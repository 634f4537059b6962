------------------------------ MODULE Gallery -------------------------------
(***************************************************************************)
(* Elements and projects in two places: JSON documents and pictures in the *)
(* object store, rows in SQLite (internal/data/element_repo.go,            *)
(* project_repo.go).                                                       *)
(*                                                                         *)
(* Every call that writes objects holds a transaction from its first line  *)
(* to its commit, and the pool has ONE connection: at most one such call   *)
(* is in progress, the others wait.  What interleaves with it is the store *)
(* refusing a write, the client going away, and the process stopping.      *)
(* Objects are written one by one and stay; the rows are rolled back.      *)
(***************************************************************************)
EXTENDS Naturals, SequencesExt

CONSTANTS
    Projects, Elements,
    HomeOf,         \* the project an element is created in, part of its keys
    Requests,       \* settings requests that may be served at the same time
    Texts, Blank,   \* contents of a settings field; Blank is its default
    Bare, Done,     \* an element's JSON at job start, and once it has a picture
    Picture,
    Torn,           \* an object whose writing stopped half-way
    None,
    Edited,         \* the projects whose pages are opened and settings changed
    MaxVersion, MaxFaults

ASSUME GalleryAssumption ==
    /\ HomeOf \in [Elements -> Projects]
    /\ Blank \in Texts
    /\ Edited \subseteq Projects
    /\ MaxVersion \in Nat /\ MaxFaults \in Nat

VARIABLES
    store,      \* the objects by key
    row,        \* elements table: what an element's row was filled from
    prow,       \* projects table
    tx,         \* the call that holds the connection
    phase,      \* "fresh", "running" (its poller will write the picture), "over"
    pending,    \* the settings a request has read and changed but not yet written
    listing,    \* the keys a resync request has listed
    up,
    faults,
    \* History, read by no guard:
    cut,        \* elements a creation or deletion of which did not finish
    gone, late, \* projects deleted; those a call that had begun earlier wrote to since
    last,       \* name and text of the last settings saved
    raced,      \* projects whose saves overlapped or did not finish
    reset,      \* projects whose project.json was overwritten with defaults
    rebuilt     \* the database was lost at least once

objects == <<store, tx>>
tables  == <<row, prow>>
local   == <<phase, pending, listing>>
history == <<cut, gone, late, last, raced, reset, rebuilt>>
vars    == <<objects, tables, local, up, faults, history>>

Json(e)  == <<"json", e>>
Image(e) == <<"image", e>>
Meta(p)  == <<"meta", p>>

ElementKeys == {Json(e) : e \in Elements} \cup {Image(e) : e \in Elements}
Keys        == ElementKeys \cup {Meta(p) : p \in Projects}
HomeOfKey(k) == IF k \in ElementKeys THEN HomeOf[k[2]] ELSE k[2]
HomeElements(p) == {e \in Elements : HomeOf[e] = p}

\* What both project.json and the row hold: "name" is the friendly name, "text" stands
\* for description and tags.  (The hidden flag and backend_ref, which only their own
\* statements and a save touch, never a sync, are left out.)
Settings == [version : 1..MaxVersion + 1, name : Texts, text : Texts]
Defaults(name) == [version |-> 1, name |-> name, text |-> Blank]
Saved(s) == [name |-> s.name, text |-> s.text]

ElementOps == {"create", "complete", "delete"}
ProjectOps == {"newProject", "save", "deleteProject"}

Write == [key : Keys, value : {None, Bare, Done, Picture} \cup Settings]

\* A call that holds the connection: what it still has to write, and what it commits.
Call == [op : ElementOps \cup ProjectOps, of : Elements \cup Projects, todo : Seq(Write),
         content : {None, Bare, Done} \cup Settings, missed : BOOLEAN]

\* Model values are told apart from each other and from everything they stand beside.
ASSUME ValuesAssumption ==
    /\ IsFiniteSet(Projects) /\ IsFiniteSet(Elements)
    /\ None \notin {Torn, Bare, Done, Picture}
    /\ Torn \notin {Bare, Done, Picture}
    /\ Bare \notin {Done, Picture}
    /\ Done # Picture
    /\ \A v \in {None, Torn, Bare, Done, Picture} : v \notin Settings
    /\ None \notin Call
    /\ None \notin [of : Projects, settings : Settings]
    /\ None \notin [name : Texts, text : Texts]

\* The gallery's state has the shape the code gives it (tables, objects, requests).
TypeOK ==
    /\ store \in [Keys -> {None, Torn, Bare, Done, Picture} \cup Settings]
    /\ row \in [Elements -> {None, Bare, Done}]
    /\ prow \in [Projects -> Settings \cup {None}]
    /\ tx \in {None} \cup Call
    /\ tx # None => tx.of \in (IF tx.op \in ElementOps THEN Elements ELSE Projects)
    /\ phase \in [Elements -> {"fresh", "running", "over"}]
    /\ pending \in [Requests -> {None} \cup [of : Projects, settings : Settings]]
    /\ listing = None \/ listing \subseteq Keys
    /\ up \in BOOLEAN
    /\ faults \in 0..MaxFaults
    /\ cut \subseteq Elements
    /\ gone \cup late \cup raced \cup reset \subseteq Projects
    /\ last \in [Projects -> {None} \cup [name : Texts, text : Texts]]
    /\ rebuilt \in BOOLEAN

Init ==
    /\ store = [k \in Keys |-> None]
    /\ row = [e \in Elements |-> None]
    /\ prow = [p \in Projects |-> None]
    /\ tx = None
    /\ phase = [e \in Elements |-> "fresh"]
    /\ pending = [r \in Requests |-> None]
    /\ listing = None
    /\ up = TRUE
    /\ faults = 0
    /\ cut = {} /\ gone = {} /\ late = {} /\ raced = {} /\ reset = {}
    /\ last = [p \in Projects |-> None]
    /\ rebuilt = FALSE

-----------------------------------------------------------------------------
(* Calls that open a transaction *)

Put(k, v) == [key |-> k, value |-> v]
Del(k)    == [key |-> k, value |-> None]

\* BeginTx waits for the only connection.
Begin(op, of, todo, content) ==
    /\ up
    /\ tx = None
    /\ tx' = [op |-> op, of |-> of, todo |-> todo, content |-> content, missed |-> FALSE]

\* Mutant: the picture is written before the document that refers to it, and the
\* document is forgotten when there is a picture.
ElementWritesPictureOnly(e, content) ==
    IF content = Done THEN <<Put(Image(e), Picture)>> ELSE <<Put(Json(e), content)>>

\* CreateElement writes the document, then the picture if there is one.
ElementWrites(e, content) ==
    <<Put(Json(e), content)>> \o (IF content = Done THEN <<Put(Image(e), Picture)>> ELSE <<>>)

CreateElement(op, e, content) ==
    /\ Begin(op, e, ElementWrites(e, content), content)
    /\ phase' = [phase EXCEPT ![e] = "over"]
    /\ late' = late \cup ({HomeOf[e]} \cap gone)
    /\ UNCHANGED <<store, tables, pending, listing, up, faults, cut, gone, last, raced, reset, rebuilt>>

\* StartJob for a fresh element (generate, img2img, generate-clone, batch items).
StartJob(e) == phase[e] = "fresh" /\ CreateElement("create", e, Bare)

\* uploadExternal: a fresh element with its picture, no job.
Upload(e) == phase[e] = "fresh" /\ CreateElement("create", e, Done)

\* handleJobSuccess: the element's poller writes document and picture, whatever has
\* happened to the element and its project since.
Complete(e) == phase[e] = "running" /\ CreateElement("complete", e, Done)

\* The element is looked up first: one that has no row is left alone.
DeleteElement(e) ==
    /\ row[e] # None
    /\ Begin("delete", e, <<Del(Image(e)), Del(Json(e))>>, None)
    /\ UNCHANGED <<store, tables, local, up, faults, history>>

\* CreateProject: project.json is put whether or not the project exists.
NewProject(p, name) ==
    /\ Begin("newProject", p, <<Put(Meta(p), Defaults(name))>>, Defaults(name))
    /\ gone' = gone \ {p}
    /\ late' = late \ {p}
    /\ reset' = reset \cup (IF prow[p] # None THEN {p} ELSE {})
    /\ UNCHANGED <<store, tables, local, up, faults, cut, last, raced, rebuilt>>

\* createProjectFromWelcome: with a friendly name.
CreateProjectFromWelcome(p, name) == prow[p] = None /\ NewProject(p, name)

\* projectPage "ensures the row exists" of a project it has just read.  The create
\* handlers, generate and a batch make the same call without looking first.
ProjectPage(p) == prow[p] # None /\ NewProject(p, Blank)

\* updateProjectSettings reads the row and changes one field of the copy ...
ReadSettings(r, p, field, t) ==
    /\ up /\ tx = None
    /\ pending[r] = None
    /\ prow[p] # None
    /\ prow[p].version <= MaxVersion
    /\ pending' = [pending EXCEPT ![r] =
           [of |-> p, settings |-> [prow[p] EXCEPT !.version = @ + 1, ![field] = t]]]
    /\ UNCHANGED <<objects, tables, phase, listing, up, faults, history>>

\* ... and UpdateProjectSettings writes the copy, with the next version.
WriteSettings(r) ==
    /\ pending[r] # None
    /\ LET p == pending[r].of
           s == pending[r].settings
       IN  /\ Begin("save", p, <<Put(Meta(p), s)>>, s)
           /\ raced' = raced \cup (IF prow[p] # None /\ s.version = prow[p].version + 1
                                   THEN {} ELSE {p})
           /\ late' = late \cup ({p} \cap gone)
    /\ pending' = [pending EXCEPT ![r] = None]
    /\ UNCHANGED <<store, tables, phase, listing, up, faults, cut, gone, last, reset, rebuilt>>

\* Mutant: the prefix lacks its slash and picks up every project.
ObjectsUnderAnyName(p) == {k \in Keys : store[k] # None}

\* Mutant: only the elements' objects.
ObjectsUnderElements(p) == {k \in ElementKeys : store[k] # None /\ HomeOfKey(k) = p}

\* ListObjects("projects/<name>/")
ObjectsUnder(p) == {k \in Keys : store[k] # None /\ HomeOfKey(k) = p}

DeleteProject(p) ==
    /\ LET keys == SetToSeq(ObjectsUnder(p))
       IN  Begin("deleteProject", p, [i \in DOMAIN keys |-> Del(keys[i])], None)
    /\ UNCHANGED <<store, tables, local, up, faults, history>>

\* ListObjects fails: a warning, and only the rows go.
DeleteUnlistedProject(p) ==
    /\ up /\ tx = None
    /\ faults < MaxFaults
    /\ faults' = faults + 1
    /\ tx' = [op |-> "deleteProject", of |-> p, todo |-> <<>>, content |-> None, missed |-> TRUE]
    /\ cut' = cut \cup HomeElements(p)
    /\ UNCHANGED <<store, tables, local, up, gone, late, last, raced, reset, rebuilt>>

-----------------------------------------------------------------------------
(* Inside a transaction *)

\* The store after the first n of the writes in todo.
Applied(todo, n) ==
    [k \in Keys |-> LET mine == {i \in 1..n : todo[i].key = k}
                    IN  IF mine = {} THEN store[k] ELSE todo[CHOOSE i \in mine : TRUE].value]

StoreWrite ==
    /\ up /\ tx # None
    /\ tx.todo # <<>>
    /\ store' = Applied(tx.todo, 1)
    /\ tx' = [tx EXCEPT !.todo = Tail(@)]
    /\ UNCHANGED <<tables, local, up, faults, history>>

\* The rows roll back; what was written to the store stays.
RollBack ==
    /\ tx' = None
    /\ cut' = cut \cup (CASE tx.op \in ElementOps      -> {tx.of}
                         [] tx.op = "deleteProject"  -> HomeElements(tx.of)
                         [] OTHER                    -> {})
    /\ raced' = raced \cup (IF tx.op \in {"save", "deleteProject"} THEN {tx.of} ELSE {})
    /\ UNCHANGED <<gone, late, last, reset>>

Writing == tx # None /\ tx.todo # <<>> /\ Head(tx.todo).value # None
Removing == tx # None /\ tx.todo # <<>> /\ Head(tx.todo).value = None

\* PutObject fails, at once or (file back end) with a part written: the call ends.
PutFails ==
    /\ up /\ Writing
    /\ faults < MaxFaults
    /\ faults' = faults + 1
    /\ \E v \in {store[Head(tx.todo).key], Torn} : store' = [store EXCEPT ![Head(tx.todo).key] = v]
    /\ RollBack
    /\ UNCHANGED <<tables, local, up, rebuilt>>

\* DeleteObject fails: a warning, and the call goes on.
DeleteFails ==
    /\ up /\ Removing
    /\ faults < MaxFaults
    /\ faults' = faults + 1
    /\ tx' = [tx EXCEPT !.todo = Tail(@), !.missed = TRUE]
    /\ cut' = cut \cup (IF tx.op = "delete" THEN {tx.of} ELSE HomeElements(tx.of))
    /\ UNCHANGED <<store, tables, local, up, gone, late, last, raced, reset, rebuilt>>

\* The client goes away: the request's context is cancelled and database/sql rolls
\* back.  How many of the remaining writes still happen depends on the back end (S3
\* refuses them, memory and file do not look).  The poller has its own context.
Disconnect ==
    /\ up /\ tx # None
    /\ tx.op # "complete"
    /\ faults < MaxFaults
    /\ faults' = faults + 1
    /\ \E n \in 0..Len(tx.todo) : store' = Applied(tx.todo, n)
    /\ RollBack
    /\ UNCHANGED <<tables, local, up, rebuilt>>

Committing(ops) == up /\ tx # None /\ tx.todo = <<>> /\ tx.op \in ops

\* Mutant: a creation whose row is refused still counts as done.
CommitElementUnlisted ==
    /\ Committing({"create", "complete"})
    /\ prow[HomeOf[tx.of]] # None
    /\ phase' = [phase EXCEPT ![tx.of] = IF tx.content = Bare THEN "running" ELSE @]
    /\ tx' = None
    /\ UNCHANGED <<store, row, prow, pending, listing, up, faults, history>>

\* INSERT OR IGNORE: a row that is there stays as it is.  StartJob goes on to submit
\* the job.
CommitElement ==
    /\ Committing({"create", "complete"})
    /\ prow[HomeOf[tx.of]] # None
    /\ row' = [row EXCEPT ![tx.of] = IF @ = None THEN tx.content ELSE @]
    /\ phase' = [phase EXCEPT ![tx.of] = IF tx.content = Bare THEN "running" ELSE @]
    /\ tx' = None
    /\ UNCHANGED <<store, prow, pending, listing, up, faults, history>>

\* elements.project is a foreign key, which OR IGNORE does not excuse.
RejectElement ==
    /\ Committing({"create", "complete"})
    /\ prow[HomeOf[tx.of]] = None
    /\ RollBack
    /\ UNCHANGED <<store, tables, local, up, faults, rebuilt>>

CommitDeletion ==
    /\ Committing({"delete"})
    /\ row' = [row EXCEPT ![tx.of] = None]
    /\ tx' = None
    /\ UNCHANGED <<store, prow, local, up, faults, history>>

\* INSERT OR IGNORE again: the row of a project that is there keeps its settings.
CommitProject ==
    /\ Committing({"newProject"})
    /\ prow' = [prow EXCEPT ![tx.of] = IF @ = None THEN tx.content ELSE @]
    /\ last' = [last EXCEPT ![tx.of] = IF prow[tx.of] = None THEN Saved(tx.content) ELSE @]
    /\ tx' = None
    /\ UNCHANGED <<store, row, local, up, faults, cut, gone, late, raced, reset, rebuilt>>

\* UPDATE ... WHERE name = ?: no row, no effect.
CommitSave ==
    /\ Committing({"save"})
    /\ prow' = [prow EXCEPT ![tx.of] = IF @ = None THEN None ELSE tx.content]
    /\ last' = [last EXCEPT ![tx.of] = IF prow[tx.of] = None THEN @ ELSE Saved(tx.content)]
    /\ tx' = None
    /\ UNCHANGED <<store, row, local, up, faults, cut, gone, late, raced, reset, rebuilt>>

\* The jobs' and elements' rows go before the project's.
CommitProjectDeletion ==
    /\ Committing({"deleteProject"})
    /\ row' = [e \in Elements |-> IF HomeOf[e] = tx.of THEN None ELSE row[e]]
    /\ prow' = [prow EXCEPT ![tx.of] = None]
    /\ last' = [last EXCEPT ![tx.of] = None]
    /\ gone' = IF tx.missed THEN gone \ {tx.of} ELSE gone \cup {tx.of}
    /\ late' = late \ {tx.of}
    /\ tx' = None
    /\ UNCHANGED <<store, local, up, faults, cut, raced, reset, rebuilt>>

-----------------------------------------------------------------------------
(* Rebuilding the rows from the store: SyncFromStorage *)

Documents == {Bare, Done}
Readable(listed, k, good) == k \in listed /\ store[k] \in good

\* Mutant: an existing row is replaced whatever its version.
SyncedProjectBlindly(p, listed) ==
    IF Readable(listed, Meta(p), Settings) THEN Defaults(store[Meta(p)].name) ELSE prow[p]

\* Phase 1 inserts name and version, then updates WHERE version != the document's:
\* never a row it has just inserted.  Phase 2 inserts a
\* row for a project that has only elements.
SyncedProject(p, listed) ==
    IF Readable(listed, Meta(p), Settings)
    THEN LET m    == store[Meta(p)]
             kept == IF prow[p] # None THEN prow[p] ELSE [m EXCEPT !.text = Blank]
         IN  IF kept.version = m.version THEN kept ELSE m
    ELSE IF prow[p] = None /\ \E e \in HomeElements(p) : Json(e) \in listed
         THEN Defaults(Blank) ELSE prow[p]

\* Mutant: what is already listed is refreshed, what is not stays out.
SyncedElementUpdateOnly(e, listed) ==
    IF row[e] # None /\ Json(e) \in listed THEN store[Json(e)] ELSE row[e]

\* Elements all have version 1: a row that is there is never updated.
SyncedElement(e, listed) ==
    IF row[e] = None /\ Json(e) \in listed THEN store[Json(e)] ELSE row[e]

SyncFromStorage(listed) ==
    /\ row' = [e \in Elements |-> SyncedElement(e, listed)]
    /\ prow' = [p \in Projects |-> SyncedProject(p, listed)]

\* Mutant: documents are not validated.
SyncableUnread(listed) == \A e \in Elements : Json(e) \in listed => store[Json(e)] # None

\* One element document that cannot be read or parsed fails the whole sync;
\* a project document is skipped.
Syncable(listed) == \A e \in Elements : Json(e) \in listed => store[Json(e)] \in Documents

Stored == {k \in Keys : store[k] # None}

\* The "resync" request lists the objects, and then waits for the connection.
ResyncList ==
    /\ up
    /\ listing = None
    /\ listing' = Stored
    /\ UNCHANGED <<objects, tables, phase, pending, up, faults, history>>

ResyncRun ==
    /\ up /\ tx = None
    /\ listing # None
    /\ IF Syncable(listing) THEN SyncFromStorage(listing) ELSE UNCHANGED tables
    /\ listing' = None
    /\ UNCHANGED <<objects, phase, pending, up, faults, history>>

\* The process stops; the file back end may leave a part of what it was writing.
\* lose: cache.db is removed before the next start, as the manual suggests.
Crash(lose) ==
    /\ up
    /\ faults < MaxFaults
    /\ faults' = faults + 1
    /\ up' = FALSE
    /\ \/ UNCHANGED store
       \/ Writing /\ store' = [store EXCEPT ![Head(tx.todo).key] = Torn]
    /\ IF tx # None THEN RollBack
       ELSE UNCHANGED <<tx, cut, raced, gone, late, last, reset>>
    /\ IF lose THEN row' = [e \in Elements |-> None] /\ prow' = [p \in Projects |-> None]
       ELSE UNCHANGED tables
    /\ phase' = [e \in Elements |-> IF phase[e] = "running" THEN "over" ELSE phase[e]]
    /\ pending' = [r \in Requests |-> None]
    /\ listing' = None
    /\ rebuilt' = (rebuilt \/ lose)

\* Bootstrap: a sync that fails ends the process.
StartUp ==
    /\ ~up
    /\ Syncable(Stored)
    /\ SyncFromStorage(Stored)
    /\ up' = TRUE
    /\ UNCHANGED <<objects, local, faults, history>>

Next ==
    \/ \E e \in Elements : StartJob(e) \/ Upload(e) \/ Complete(e) \/ DeleteElement(e)
    \/ \E p \in Projects : DeleteProject(p) \/ DeleteUnlistedProject(p) \/ (prow[p] = None /\ NewProject(p, Blank))
    \/ \E p \in Edited : \/ ProjectPage(p)
                         \/ \E t \in Texts : CreateProjectFromWelcome(p, t)
    \/ \E r \in Requests : \/ WriteSettings(r)
                           \/ \E p \in Edited, f \in {"name", "text"}, t \in Texts :
                                  /\ prow[p] # None => prow[p][f] # t
                                  /\ ReadSettings(r, p, f, t)
    \/ StoreWrite \/ PutFails \/ DeleteFails \/ Disconnect
    \/ CommitElement \/ RejectElement \/ CommitDeletion
    \/ CommitProject \/ CommitSave \/ CommitProjectDeletion
    \/ ResyncList \/ ResyncRun
    \/ \E lose \in BOOLEAN : Crash(lose)
    \/ StartUp

Spec == Init /\ [][Next]_vars

-----------------------------------------------------------------------------
(* Properties *)

InHand(e) == tx # None /\ tx.of \in {e, HomeOf[e]}
Settled(e) == up /\ ~InHand(e) /\ e \notin cut

\* What the gallery shows is there: a row has its JSON, and an element whose JSON says
\* it is done has its picture, unless a creation or deletion of it broke off
\* (CreateElement, DeleteElement, handleJobSuccess).
RowsBackedByObjects ==
    \A e \in Elements : Settled(e) =>
        /\ row[e] # None => store[Json(e)] \in Documents
        /\ store[Json(e)] = Done => store[Image(e)] = Picture

\* What is stored is shown: an element document has its row, and its project's row, as
\* long as no call on it broke off (the FK on elements.project, INSERT OR IGNORE).
ListedOnceStored ==
    \A e \in Elements : Settled(e) /\ store[Json(e)] # None =>
        row[e] # None /\ prow[HomeOf[e]] # None

\* SyncFromStorage repairs whatever a crash left behind: after a start every stored
\* document is listed in its project, and a lost database comes back with exactly the
\* stored elements and projects.
StartUpHeals ==
    [][~up /\ up' =>
        /\ \A e \in Elements : store[Json(e)] # None => row'[e] # None /\ prow'[HomeOf[e]] # None
        /\ row = [e \in Elements |-> None] =>
               \A e \in Elements : row'[e] # None => row'[e] = store[Json(e)]
        /\ prow = [p \in Projects |-> None] =>
               \A p \in Projects : prow'[p] # None =>
                   \E k \in Stored : HomeOfKey(k) = p]_vars

\* An element's objects and row disappear only through its own deletion or its
\* project's, never through another project's (the prefix DeleteProject lists), and the
\* row of a live process only together with them.
DeletionContained ==
    [][\A e \in Elements :
        \/ store[Json(e)] \in Documents /\ store'[Json(e)] = None
        \/ store[Image(e)] = Picture /\ store'[Image(e)] = None
        \/ up' /\ row[e] # None /\ row'[e] = None
        => tx # None /\ tx.op \in {"delete", "deleteProject"} /\ tx.of \in {e, HomeOf[e]}]_vars

\* A deleted project does not come back by itself, not through a resync whose listing
\* is older than the deletion either: only a call that was under way (a settings save
\* that had read the row, a poller, an upload) can bring it back.
DeletedProjectStaysDeleted ==
    \A p \in gone \ late : prow[p] = None /\ ObjectsUnder(p) = {}

\* A saved setting is what is shown from then on, through resyncs and restarts, unless
\* saves overlapped or broke off, or project.json was overwritten with defaults, or
\* (text) the database was lost.
SavedSettingsShown ==
    \A p \in Projects \ (raced \cup reset) : prow[p] # None /\ last[p] # None =>
        /\ prow[p].name = last[p].name
        /\ rebuilt \/ prow[p].text = last[p].text

\* Claimed by DATA-MODEL.md (the database "may be deleted and must be recreated
\* automatically by scanning S3") and by the comment of SyncFromStorage's phase 1: a
\* saved description outlives a restart.
SettingsSurviveRestart ==
    \A p \in Projects \ raced : prow[p] # None /\ last[p] # None => prow[p].text = last[p].text

-----------------------------------------------------------------------------
(* The inductive invariant behind the safety properties (GalleryProofs).    *)

\* The call under way writes or removes what is stored under k ...
Aims(k) ==
    \/ tx.op \in {"create", "complete"} /\ k = Json(tx.of)
    \/ tx.op \in {"create", "complete"} /\ k = Image(tx.of) /\ tx.content = Done
    \/ tx.op = "delete" /\ k \in {Json(tx.of), Image(tx.of)}
    \/ tx.op \in {"newProject", "save"} /\ k = Meta(tx.of)
    \/ tx.op = "deleteProject" /\ HomeOfKey(k) = tx.of

\* ... and leaves this there.
Aim(k) ==
    IF tx.op \in {"delete", "deleteProject"} THEN None
    ELSE IF k = Image(tx.of) THEN Picture ELSE tx.content

\* Whatever the call is for is stored, is still to be written, or was refused, in which
\* case its elements are known to be cut.
CallFits ==
    tx # None =>
        /\ tx.op \in {"create", "complete"} => tx.content \in Documents
        /\ tx.op \in {"newProject", "save"} => tx.content \in Settings
        /\ \A i \in DOMAIN tx.todo :
               Aims(tx.todo[i].key) /\ tx.todo[i].value = Aim(tx.todo[i].key)
        /\ \A k \in Keys : Aims(k) =>
               \/ store[k] = Aim(k)
               \/ tx.missed
               \/ \E i \in DOMAIN tx.todo : tx.todo[i].key = k
        /\ tx.missed => \/ tx.op = "delete" /\ tx.of \in cut
                        \/ tx.op = "deleteProject" /\ HomeElements(tx.of) \subseteq cut

\* No call is under way while the process is down.
DownIdle == ~up => tx = None

\* The call under way is for the element, or deletes its project.
Busy(e) ==
    /\ tx # None
    /\ \/ tx.op \in ElementOps /\ tx.of = e
       \/ tx.op = "deleteProject" /\ tx.of = HomeOf[e]

\* Rows and objects of an element agree whenever no call for it is under way.
ElementsWhole ==
    \A e \in Elements \ cut : ~Busy(e) =>
        /\ row[e] # None => store[Json(e)] \in Documents
        /\ store[Json(e)] = Done => store[Image(e)] = Picture
        /\ up /\ store[Json(e)] # None => row[e] # None /\ prow[HomeOf[e]] # None

\* No call that could bring a deleted project back is under way.
GoneUntouched ==
    \A p \in gone \ late :
        /\ prow[p] = None /\ ObjectsUnder(p) = {}
        /\ tx # None /\ tx.op \notin {"delete", "deleteProject"} =>
               p # IF tx.op \in ElementOps THEN HomeOf[tx.of] ELSE tx.of

\* project.json and the row agree with the last save whenever no call for the project is
\* under way; a save that nothing overtook has its row.
SettingsKept ==
    /\ tx # None /\ tx.op = "save" /\ tx.of \notin raced => prow[tx.of] # None
    /\ \A p \in Projects \ (raced \cup reset) : last[p] # None =>
        /\ prow[p] = None => ~up /\ rebuilt
        /\ prow[p] # None => /\ prow[p].name = last[p].name
                             /\ rebuilt \/ prow[p].text = last[p].text
        /\ tx = None \/ tx.of # p \/ tx.op \in ElementOps =>
               store[Meta(p)] \in Settings /\ Saved(store[Meta(p)]) = last[p]
        /\ tx # None => tx.op # "newProject" \/ tx.of # p

GalleryInv ==
    /\ TypeOK
    /\ CallFits
    /\ DownIdle
    /\ ElementsWhole
    /\ GoneUntouched
    /\ SettingsKept
=============================================================================
