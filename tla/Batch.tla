-------------------------------- MODULE Batch -------------------------------
(***************************************************************************)
(* One batch of the batch extension (ext/joleuger/batch): its row, its     *)
(* item rows, the JSON document written once when it is created, and the   *)
(* jobs of its elements.  The creating request and the OnJobTerminal hooks *)
(* issue one statement at a time, in goroutines of their own.              *)
(***************************************************************************)
EXTENDS Integers, FiniteSets

CONSTANTS
    N,              \* number of variants
    Handlers,       \* hook calls that may be in progress at the same time
    Registered,     \* whether HandleJobTerminal was appended to Hooks.OnJobTerminal
    First,          \* the element of the first job; the others are named <batch>_<position>
    None,
    MaxMishaps

Positions == 0..(N - 1)
ElementIds == {First} \cup {<<p>> : p \in Positions}
Outcomes == {"completed", "failed", "cancelled"}
Stale == "generating"   \* the status a job's record still has when it is passed on

VARIABLES
    batch,      \* status in ext_joleuger_batch_batches, None without a row
    document,   \* whether batches/<id>.json was written: items pending, no elements
    item,       \* ext_joleuger_batch_items
    step, at,   \* the creating request, and the position it works on
    jobs,       \* live pollers of each element's job
    live,       \* elements whose job row is there, so that it can be cancelled
    hook,       \* HandleJobTerminal calls, of pollers and requests and of start-up
    mishaps,
    \* History:
    started, announced, again, early, slipped

work == <<step, at>>
Slots == Handlers \cup {"startup"}
Item == [elem : ElementIds \cup {None}, status : Outcomes \cup {Stale, "pending"}]
HookCall == [of : ElementIds, status : Outcomes \cup {Stale}, after : BOOLEAN,
             step : {"mark", "next", "start", "record"}, pos : Positions]

\* handleBatchGenerate refuses a form without variants; ids and rows are told apart.
BatchConstants ==
    /\ N \in Nat \ {0} /\ MaxMishaps \in Nat
    /\ "startup" \notin Handlers
    /\ First \notin {<<p>> : p \in Positions}
    /\ None \notin ElementIds
    /\ None \notin {"running", "completed"}
    /\ None \notin Item
    /\ None \notin HookCall
rows == <<batch, document, item>>
history == <<started, announced, again, early, slipped>>
vars == <<rows, work, jobs, live, hook, mishaps, history>>

TypeOK ==
    /\ batch \in {None, "running", "completed"}
    /\ document \in BOOLEAN
    /\ item \in [Positions -> {None} \cup Item]
    /\ step \in {"idle", "insert", "start", "record", "done", "stuck", "sync"} /\ at \in 0..N
    /\ jobs \in [ElementIds -> Nat]
    /\ live \subseteq ElementIds
    /\ hook \in [Slots -> {None} \cup HookCall]
    /\ mishaps \in 0..MaxMishaps
    /\ started \cup announced \subseteq ElementIds
    /\ again \in BOOLEAN /\ early \in BOOLEAN

Init ==
    /\ batch = None /\ document = FALSE
    /\ item = [p \in Positions |-> None]
    /\ step = "idle" /\ at = 0
    /\ jobs = [e \in ElementIds |-> 0]
    /\ live = {}
    /\ hook = [h \in Slots |-> None]
    /\ mishaps = 0
    /\ started = {} /\ announced = {}
    /\ again = FALSE /\ early = FALSE /\ slipped = FALSE

Mishap == mishaps < MaxMishaps /\ mishaps' = mishaps + 1

\* JobService.StartJob up to its polling goroutine.
StartJob(e) ==
    /\ jobs' = [jobs EXCEPT ![e] = @ + 1]
    /\ live' = live \cup {e}
    /\ started' = started \cup {e}

-----------------------------------------------------------------------------
(* CreateBatchFromVariants *)

\* The batch row; then the document, the loss of which is only a warning.
InsertBatch ==
    /\ step = "idle"
    /\ batch' = "running"
    /\ \/ document' = TRUE /\ UNCHANGED mishaps
       \/ document' = FALSE /\ Mishap
    /\ step' = "insert"
    /\ UNCHANGED <<item, at, jobs, live, hook, history>>

\* An INSERT that fails ends the request; the rows so far stay.
InsertItem ==
    /\ step = "insert"
    /\ at < N
    /\ \/ /\ item' = [item EXCEPT ![at] = [elem |-> None, status |-> "pending"]]
          /\ IF at = 0 THEN step' = "start" /\ at' = at
             ELSE at' = at + 1 /\ step' = IF at + 1 = N THEN "done" ELSE "insert"
          /\ UNCHANGED mishaps
       \/ Mishap /\ step' = "done" /\ UNCHANGED <<item, at>>
    /\ UNCHANGED <<batch, document, jobs, live, hook, history>>

\* A failure to start the first job ends the request; the rows stay.
StartFirst ==
    /\ step = "start"
    /\ \/ StartJob(First) /\ step' = "record" /\ UNCHANGED mishaps
       \/ Mishap /\ step' = "done" /\ UNCHANGED <<jobs, live, started>>
    /\ UNCHANGED <<rows, at, hook, announced, again, early, slipped>>

\* setItemElementID, whose error is not looked at.
RecordFirst ==
    /\ step = "record"
    /\ \/ item' = [item EXCEPT ![0].elem = First] /\ UNCHANGED mishaps
       \/ Mishap /\ UNCHANGED item
    /\ at' = 1
    /\ step' = IF N = 1 THEN "done" ELSE "insert"
    /\ UNCHANGED <<batch, document, jobs, live, hook, history>>

-----------------------------------------------------------------------------
(* Jobs that end, and the hook *)

\* Hooks.OnJobTerminal, called in the goroutine that announces.
CallHook(e, status, after, slots) ==
    IF Registered
    THEN \E h \in slots : /\ hook[h] = None
                          /\ hook' = [hook EXCEPT ![h] = [of |-> e, status |-> status, after |-> after,
                                                        step |-> "mark", pos |-> 0]]
    ELSE UNCHANGED hook

\* Mutant: the hooks are called while the job row is still there.
AnnounceKeepingRow(e, status, after, slots) ==
    /\ announced' = announced \cup {e}
    /\ again' = (again \/ after \/ e \in announced)
    /\ early' = (early \/ (step # "done" /\ slots = Handlers))
    /\ CallHook(e, status, after, slots)
    /\ UNCHANGED live

\* updateJobStatus removes the job row and calls the hooks; "after": the same poller
\* announces "completed" once more when this call returns.
Announce(e, status, after, slots) ==
    /\ live' = live \ {e}
    /\ announced' = announced \cup {e}
    /\ again' = (again \/ after \/ e \in announced)
    /\ early' = (early \/ (step # "done" /\ slots = Handlers))
    /\ CallHook(e, status, after, slots)

JobEnds(e, outcome) ==
    /\ jobs[e] > 0
    /\ jobs' = [jobs EXCEPT ![e] = @ - 1]
    /\ Announce(e, outcome, FALSE, Handlers)
    /\ UNCHANGED <<rows, work, mishaps, started, slipped>>

\* handleJobSuccess cannot save the picture: "failed" is announced with the record as
\* it is, and then "completed".
SaveFails(e) ==
    /\ jobs[e] > 0
    /\ Mishap
    /\ jobs' = [jobs EXCEPT ![e] = @ - 1]
    /\ Announce(e, Stale, TRUE, Handlers)
    /\ UNCHANGED <<rows, work, started, slipped>>

Serving == step \notin {"stuck", "sync"}

\* CancelJob: announced with the record as it was read; the poller goes on.
CancelJob(e) ==
    /\ Serving
    /\ e \in live
    /\ Mishap
    /\ Announce(e, Stale, FALSE, Handlers)
    /\ UNCHANGED <<rows, work, jobs, started, slipped>>

\* elements.id is a foreign key with ON DELETE SET NULL.
DeleteElement(e) ==
    /\ Serving
    /\ e \in started
    /\ Mishap
    /\ item' = [p \in Positions |-> IF item[p] # None /\ item[p].elem = e
                                    THEN [item[p] EXCEPT !.elem = None] ELSE item[p]]
    /\ live' = live \ {e}
    /\ UNCHANGED <<batch, document, work, jobs, hook, history>>

\* HandleJobTerminal returns.
Return(h) ==
    hook' = [hook EXCEPT ![h] =
        IF @.after THEN [@ EXCEPT !.after = FALSE, !.status = "completed", !.step = "mark"] ELSE None]

Pending == {p \in Positions : item[p] # None /\ item[p].status = "pending"}

\* findItemByElementID and markItem; an element no item refers to is not the batch's.
MarkItem(h) ==
    /\ hook[h] # None /\ hook[h].step = "mark"
    /\ LET mine == {p \in Positions : item[p] # None /\ item[p].elem = hook[h].of}
       IN  IF mine = {} THEN Return(h) /\ slipped' = TRUE /\ UNCHANGED item
           ELSE /\ hook' = [hook EXCEPT ![h].step = "next"]
                /\ item' = [p \in Positions |-> IF p \in mine
                                                THEN [item[p] EXCEPT !.status = hook[h].status]
                                                ELSE item[p]]
                /\ UNCHANGED slipped
    /\ UNCHANGED <<batch, document, work, jobs, live, mishaps, started, announced, again, early>>

\* Mutant: ORDER BY position DESC.
FirstPendingBackwards == CHOOSE p \in Pending : \A q \in Pending : q <= p
FirstPending == CHOOSE p \in Pending : \A q \in Pending : p <= q

\* Mutant: the batch is completed with one item still to go.
NextItemOffByOne(h) ==
    /\ hook[h] # None /\ hook[h].step = "next"
    /\ IF Cardinality(Pending) <= 1 THEN batch' = "completed" /\ Return(h)
       ELSE hook' = [hook EXCEPT ![h].step = "start", ![h].pos = FirstPending] /\ UNCHANGED batch
    /\ UNCHANGED <<document, item, work, jobs, live, mishaps, history>>

\* nextPendingItem; CompleteBatch when there is none.
NextItem(h) ==
    /\ hook[h] # None /\ hook[h].step = "next"
    /\ IF Pending = {} THEN batch' = "completed" /\ Return(h)
       ELSE hook' = [hook EXCEPT ![h].step = "start", ![h].pos = FirstPending] /\ UNCHANGED batch
    /\ UNCHANGED <<document, item, work, jobs, live, mishaps, history>>

\* buildElement and StartJob.
StartNext(h) ==
    /\ hook[h] # None /\ hook[h].step = "start"
    /\ StartJob(<<hook[h].pos>>)
    /\ hook' = [hook EXCEPT ![h].step = "record"]
    /\ UNCHANGED <<rows, work, mishaps, announced, again, early, slipped>>

RecordNext(h) ==
    /\ hook[h] # None /\ hook[h].step = "record"
    /\ item' = [item EXCEPT ![hook[h].pos].elem = <<hook[h].pos>>]
    /\ Return(h)
    /\ UNCHANGED <<batch, document, work, jobs, live, mishaps, history>>

\* Any of the hook's calls fails: a warning, and the hook returns; the batch stops here.
GiveUp(h) ==
    /\ hook[h] # None
    /\ Mishap
    /\ Return(h)
    /\ UNCHANGED <<rows, work, jobs, live, history>>

-----------------------------------------------------------------------------
(* Stop and start *)

\* "lost": the cache database is gone, and with it the rows.
Restart(lost) ==
    /\ step # "idle"
    /\ Mishap
    /\ jobs' = [e \in ElementIds |-> 0]
    /\ hook' = [h \in Slots |-> None]
    /\ step' = "stuck"
    /\ IF lost THEN batch' = None /\ item' = [p \in Positions |-> None] /\ live' = {}
       ELSE UNCHANGED <<batch, item, live>>
    /\ UNCHANGED <<document, at, history>>

\* SyncAndCleanup: CancelStuckJobs announces the jobs left over, one after the other, with
\* the record as it was read; the hooks are wired already.
CancelStuck(e) ==
    /\ step = "stuck"
    /\ hook["startup"] = None
    /\ e \in live /\ jobs[e] = 0
    /\ Announce(e, Stale, FALSE, {"startup"})
    /\ UNCHANGED <<rows, work, jobs, mishaps, started, slipped>>

CoreSynced ==
    /\ step = "stuck"
    /\ hook["startup"] = None
    /\ \A e \in live : jobs[e] > 0
    /\ step' = "sync"
    /\ UNCHANGED <<rows, at, jobs, live, hook, mishaps, history>>

\* SyncFromStorage puts the rows back to what the document says, which is how the batch
\* was created; a document that cannot be read is skipped.
SyncBatch ==
    /\ step = "sync"
    /\ step' = "done"
    /\ \/ /\ document
          /\ batch' = "running"
          /\ item' = [p \in Positions |-> [elem |-> None, status |-> "pending"]]
       \/ UNCHANGED <<batch, item>>
    /\ UNCHANGED <<document, at, jobs, live, hook, mishaps, history>>

Create == InsertBatch \/ InsertItem \/ StartFirst \/ RecordFirst
Handle(h) == MarkItem(h) \/ NextItem(h) \/ StartNext(h) \/ RecordNext(h)

Next ==
    \/ Create
    \/ \E e \in ElementIds : \/ \E o \in Outcomes : JobEnds(e, o)
                             \/ SaveFails(e) \/ CancelJob(e) \/ DeleteElement(e)
                             \/ CancelStuck(e)
    \/ \E h \in Slots : Handle(h) \/ GiveUp(h)
    \/ \E lost \in BOOLEAN : Restart(lost)
    \/ CoreSynced \/ SyncBatch

\* The request and the hooks run on; a poller ends after ten minutes at the latest.
Fairness ==
    /\ WF_vars(Create)
    /\ \A h \in Slots : WF_vars(Handle(h))
    /\ \A e \in ElementIds : WF_vars(\E o \in Outcomes : JobEnds(e, o))

Spec == Init /\ [][Next]_vars /\ Fairness

-----------------------------------------------------------------------------
(* Properties *)

\* "max_concurrent: currently always 1 (sequential)": a batch has at most one job at a
\* time, as long as no element of it is announced twice.
Sequential == ~again => Cardinality(live) <= 1

\* Items are started in the order of their positions, whatever is announced twice, lost
\* or restarted.
StartedInOrder ==
    \A q \in Positions \ {0} :
        <<q>> \in started => (IF q = 1 THEN First ELSE <<q - 1>>) \in started

\* A batch that says it is completed has no item waiting, unless a job ended while the
\* request was still inserting items, or while a start was still resetting them.
CompletedMeansNoneWaiting ==
    batch = "completed" /\ ~early => Pending = {}

\* Claimed by EXTENSION.md ("Auto-Advance"): a batch that was created comes to its end
\* as long as nothing goes wrong and no job ends before its element is recorded.
BatchFinishes ==
    batch = "running" ~> (batch = "completed" \/ mishaps > 0 \/ slipped)
-----------------------------------------------------------------------------
(* The inductive invariant behind the safety properties (BatchProofs).      *)

\* The job a position is started with by the request, or after it by a hook.
JobOf(p) == IF p = 0 THEN First ELSE <<p>>

\* Elements of which an end may still be announced for the first time, and hook calls that
\* may still start a job.
Runs == live \cup {e \in ElementIds \ announced : jobs[e] > 0}
Acting == {h \in Slots : hook[h] # None /\ hook[h].step # "record"}

\* One job, or one hook call between two jobs.
OneAtATime ==
    ~again =>
        /\ \A e, f \in Runs : e = f
        /\ \A h, i \in Acting : h = i
        /\ Runs = {} \/ Acting = {}

\* Nothing runs of which no job was started, and the request starts the first one.
JobsStarted ==
    /\ live \subseteq started
    /\ \A e \in ElementIds : jobs[e] > 0 => e \in started
    /\ started # {} => First \in started
    /\ step \in {"idle", "start"} \/ (step = "insert" /\ at = 0) => started = {}

\* Item rows are inserted in the order of their positions.
InsertedInOrder ==
    /\ \A p \in Positions \ {0} : item[p] # None => item[p - 1] # None
    /\ step = "insert" /\ at > 0 => at - 1 \in Positions /\ item[at - 1] # None
    /\ step \in {"idle", "start", "record"} => at = 0
    /\ step \in {"start", "record"} => item[0] # None

\* An item refers to its own element, and has left "pending" only through its job.
ItemsStarted ==
    \A p \in Positions : item[p] # None =>
        /\ item[p].elem \in {None, <<p>>, JobOf(p)}
        /\ item[p].status # "pending" => JobOf(p) \in started

\* A hook call is about a job that was started; the job it is to start is the next one.
HooksInOrder ==
    \A h \in Slots : hook[h] # None =>
        /\ hook[h].of \in started
        /\ hook[h].after => again
        /\ hook[h].step \in {"start", "record"} =>
               /\ item[hook[h].pos] # None
               /\ hook[h].pos # 0 => JobOf(hook[h].pos - 1) \in started

\* Hooks of a request that is over, and of a start that has not come to the items yet.
HooksInTime ==
    ~early =>
        /\ \A h \in Handlers : hook[h] # None => step = "done"
        /\ hook["startup"] # None => step = "stuck"
        /\ step \in {"idle", "insert", "start", "record"} => batch # "completed"

BatchInv ==
    /\ TypeOK
    /\ JobsStarted
    /\ OneAtATime
    /\ InsertedInOrder
    /\ ItemsStarted
    /\ HooksInOrder
    /\ StartedInOrder
    /\ HooksInTime
    /\ CompletedMeansNoneWaiting
=============================================================================
