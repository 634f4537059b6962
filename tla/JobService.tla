----------------------------- MODULE JobService -----------------------------
(***************************************************************************)
(* The life of a generation job: internal/data/job_service.go and the      *)
(* jobs table of internal/data/job_repo.go.                                *)
(*                                                                         *)
(* Three kinds of threads share the jobs table, the elements and the       *)
(* remote sdcpp server:                                                    *)
(*   - request goroutines (StartJob, CancelJob, CancelStuckJobs, the       *)
(*     delete handler), whose database calls carry the request's context   *)
(*     and fail once the client has disconnected;                          *)
(*   - one poller goroutine per submitted job (pollJob), named by its job; *)
(*   - the start-up thread, which cancels the jobs a previous process left *)
(*     behind before the HTTP server opens.                                *)
(*                                                                         *)
(* The pool holds ONE SQLite connection, so a statement or a transaction   *)
(* is one step; everything between two statements interleaves.  Statements *)
(* on the background context (pollers, updateJobStatus) do not fail here.  *)
(***************************************************************************)
EXTENDS Naturals

CONSTANTS
    Jobs,           \* job submissions (fresh UUIDs, FromDomain)
    Elements,       \* element identifiers
    Requests,       \* request goroutines that may run at the same time
    Boot,           \* the start-up thread
    NoJob, NoElement,
    MayDisconnect,  \* can a client go away while its request is served?
    MaxCrashes      \* bound on process restarts

ASSUME ThreadsAssumption ==
    /\ Requests \cap Jobs = {}
    /\ Boot \notin Requests \cup Jobs
    /\ NoJob \notin Jobs
    /\ NoElement \notin Elements

ASSUME ParametersAssumption ==
    /\ MayDisconnect \in BOOLEAN
    /\ MaxCrashes \in Nat

VARIABLES
    row,        \* jobs table: the status column, or "none" when there is no row
    linked,     \* jobs table: sdcpp_job_id is not empty
    target,     \* the element a job was submitted for, NoElement before FromDomain
    elem,       \* the element's JSON and its SQLite row
    image,      \* the job whose picture is the element's image object
    remote,     \* the job on the sdcpp server
    pc,         \* control of every thread
    arg,        \* StartJob's element
    cur,        \* the updateJobStatus call a thread is in, StartJob's job record
    todo,       \* the updateJobStatus calls a thread still has to make
    gone,       \* the request's context is cancelled
    crashes,
    \* History, read by no guard:
    fired,      \* OnJobTerminal calls for a job: none, one, or several (2)
    erased,     \* elements a user deleted
    abandoned   \* jobs whose failure could not be recorded: client gone

table   == <<row, linked>>
store   == <<elem, image>>
local   == <<arg, cur, todo, gone>>
history == <<fired, erased, abandoned>>
vars    == <<table, target, store, remote, pc, local, crashes, history>>

Threads  == Requests \cup Jobs \cup {Boot}
Active   == {"queued", "generating"}
Terminal == {"completed", "failed", "cancelled"}
Status   == Active \cup Terminal

Update == [job : Jobs, to : Status]
Idle   == [job |-> NoJob, to |-> "queued"]

Upd(j, s) == [job |-> j, to |-> s]

StartJobPc == {"lookup", "create", "insert", "submit", "reject", "link"}
UpdatePc   == {"status", "prune", "hook"}
RequestPc  == {"idle", "discard", "revoke"} \cup StartJobPc \cup UpdatePc
PollerPc   == {"none", "check", "poll", "save", "done", "dead"} \cup UpdatePc
BootPc     == {"boot", "serving"} \cup UpdatePc

Live(j)   == pc[j] \notin {"none", "done", "dead"}
Exists(e) == elem[e] = "present"
Serving   == pc[Boot] = "serving"

TypeOK ==
    /\ row \in [Jobs -> Status \cup {"none"}]
    /\ linked \in [Jobs -> BOOLEAN]
    /\ target \in [Jobs -> Elements \cup {NoElement}]
    /\ elem \in [Elements -> {"unborn", "present", "deleted"}]
    /\ image \in [Elements -> Jobs \cup {NoJob}]
    /\ remote \in [Jobs -> {"none", "working", "completed", "failed"}]
    /\ pc \in [Threads -> RequestPc \cup PollerPc \cup BootPc]
    /\ \A r \in Requests : pc[r] \in RequestPc
    /\ \A j \in Jobs : pc[j] \in PollerPc
    /\ pc[Boot] \in BootPc
    /\ arg \in [Requests -> Elements \cup {NoElement}]
    /\ cur \in [Threads -> Update \cup {Idle}]
    /\ todo \in [Threads -> SUBSET Update]
    /\ gone \in [Requests -> BOOLEAN]
    /\ crashes \in 0..MaxCrashes
    /\ fired \in [Jobs -> 0..2]
    /\ erased \subseteq Elements
    /\ abandoned \subseteq Jobs

Init ==
    /\ row = [j \in Jobs |-> "none"]
    /\ linked = [j \in Jobs |-> FALSE]
    /\ target = [j \in Jobs |-> NoElement]
    /\ elem = [e \in Elements |-> "unborn"]
    /\ image = [e \in Elements |-> NoJob]
    /\ remote = [j \in Jobs |-> "none"]
    /\ pc = [t \in Threads |-> IF t = Boot THEN "serving"
                               ELSE IF t \in Jobs THEN "none" ELSE "idle"]
    /\ arg = [r \in Requests |-> NoElement]
    /\ cur = [t \in Threads |-> Idle]
    /\ todo = [t \in Threads |-> {}]
    /\ gone = [r \in Requests |-> FALSE]
    /\ crashes = 0
    /\ fired = [j \in Jobs |-> 0]
    /\ erased = {}
    /\ abandoned = {}

-----------------------------------------------------------------------------
(* Control shared by the threads *)

Goto(t, label) == pc' = [pc EXCEPT ![t] = label]

\* The request is answered: its goroutine ends and forgets its locals.
Finish(r) ==
    /\ Goto(r, "idle")
    /\ arg' = [arg EXCEPT ![r] = NoElement]
    /\ cur' = [cur EXCEPT ![r] = Idle]
    /\ todo' = [todo EXCEPT ![r] = {}]
    /\ gone' = [gone EXCEPT ![r] = FALSE]

\* Mutant: the start-up thread ends like a request.
AfterUpdatesNoServer(t) ==
    IF t \in Jobs THEN IF cur[t].to \in Terminal THEN "done" ELSE "check" ELSE "idle"

\* Where a thread goes after its last updateJobStatus call.
AfterUpdates(t) ==
    IF t \in Jobs THEN IF cur[t].to \in Terminal THEN "done" ELSE "check"
    ELSE IF t = Boot THEN "serving" ELSE "idle"

\* The next updateJobStatus call of the loop, or the end of it.
NextUpdate(t) ==
    \/ /\ todo[t] = {}
       /\ Goto(t, AfterUpdates(t))
       /\ cur' = [cur EXCEPT ![t] = Idle]
       /\ gone' = [r \in Requests |-> IF r = t THEN FALSE ELSE gone[r]]
       /\ UNCHANGED <<todo, arg>>
    \/ \E u \in todo[t] :
          /\ Goto(t, "status")
          /\ cur' = [cur EXCEPT ![t] = u]
          /\ todo' = [todo EXCEPT ![t] = @ \ {u}]
          /\ UNCHANGED <<gone, arg>>

\* Mutant: only the jobs the server knows.
StuckLinkedJobs ==
    {Upd(j, "cancelled") : j \in {k \in Jobs : row[k] \in Active /\ linked[k]}}

\* ListStuckJobs: every queued or generating row, linked or not.
StuckJobs == {Upd(j, "cancelled") : j \in {k \in Jobs : row[k] \in Active}}

-----------------------------------------------------------------------------
(* updateJobStatus: three calls, each a step of its own *)

\* Mutant: INSERT OR REPLACE instead of UPDATE.
UpsertStatus(t) ==
    /\ pc[t] = "status"
    /\ row' = [row EXCEPT ![cur[t].job] = cur[t].to]
    /\ \/ cur[t].to \in Terminal /\ Goto(t, "prune") /\ UNCHANGED local
       \/ cur[t].to \notin Terminal /\ NextUpdate(t)
    /\ UNCHANGED <<linked, target, store, remote, crashes, history>>

\* UPDATE jobs SET status: no effect when the row is gone.
UpdateStatus(t) ==
    /\ pc[t] = "status"
    /\ LET j == cur[t].job  s == cur[t].to
       IN  /\ row' = [row EXCEPT ![j] = IF @ = "none" THEN @ ELSE s]
           /\ \/ /\ s \in Terminal
                 /\ Goto(t, "prune")
                 /\ UNCHANGED local
              \/ /\ s \notin Terminal
                 /\ NextUpdate(t)
    /\ UNCHANGED <<linked, target, store, remote, crashes, history>>

\* Mutant: failed jobs stay in the table for the user to see.
PruneUnlessFailed(t) ==
    /\ pc[t] = "prune"
    /\ row' = [row EXCEPT ![cur[t].job] = IF cur[t].to = "failed" THEN @ ELSE "none"]
    /\ Goto(t, "hook")
    /\ UNCHANGED <<linked, target, store, remote, local, crashes, history>>

\* DELETE FROM jobs: terminal rows go at once, before the hook.
PruneJob(t) ==
    /\ pc[t] = "prune"
    /\ row' = [row EXCEPT ![cur[t].job] = "none"]
    /\ linked' = [linked EXCEPT ![cur[t].job] = FALSE]
    /\ Goto(t, "hook")
    /\ UNCHANGED <<target, store, remote, local, crashes, history>>

\* OnJobTerminal, only when the element can be read.
FireHook(t) ==
    /\ pc[t] = "hook"
    /\ LET j == cur[t].job
       IN  IF target[j] # NoElement /\ Exists(target[j])
           THEN fired' = [fired EXCEPT ![j] = IF @ = 2 THEN 2 ELSE @ + 1]
           ELSE UNCHANGED fired
    /\ NextUpdate(t)
    /\ UNCHANGED <<table, target, store, remote, crashes, erased, abandoned>>

-----------------------------------------------------------------------------
(* StartJob, one step per call *)

\* The bound on submissions: a request arrives only while a job is left for it.
JobLeft == \E j \in Jobs : target[j] = NoElement

\* A fresh element (generate, clone, img2img, batch): an identifier nobody has
\* used.
Generate(r, e) ==
    /\ Serving /\ pc[r] = "idle" /\ JobLeft
    /\ elem[e] = "unborn"
    /\ \A q \in Requests : arg[q] # e
    /\ Goto(r, "lookup")
    /\ arg' = [arg EXCEPT ![r] = e]
    /\ UNCHANGED <<table, target, store, remote, cur, todo, gone, crashes, history>>

\* regenerateInPlace: the same element again.  Its CancelJob(id) looks for a job
\* whose UUID is the ELEMENT's id, finds none and does nothing.
RegenerateInPlace(r, e) ==
    /\ Serving /\ pc[r] = "idle" /\ JobLeft
    /\ Exists(e)
    /\ Goto(r, "lookup")
    /\ arg' = [arg EXCEPT ![r] = e]
    /\ UNCHANGED <<table, target, store, remote, cur, todo, gone, crashes, history>>

\* GetElement: any error, a cancelled context too, reads as "missing".
LookupElement(r) ==
    /\ pc[r] = "lookup"
    /\ Goto(r, IF Exists(arg[r]) /\ ~gone[r] THEN "insert" ELSE "create")
    /\ UNCHANGED <<table, target, store, remote, local, crashes, history>>

\* CreateElement with no image: leaves an image object that is there alone.
CreateBlank(r) ==
    /\ pc[r] = "create"
    /\ ~gone[r]
    /\ elem' = [elem EXCEPT ![arg[r]] = "present"]
    /\ Goto(r, "insert")
    /\ UNCHANGED <<table, target, image, remote, local, crashes, history>>

\* CreateElement returns an error: StartJob ends, nothing submitted.
CreateBlankFails(r) ==
    /\ pc[r] = "create"
    /\ Finish(r)
    /\ UNCHANGED <<table, target, store, remote, crashes, history>>

\* CreateJob under a fresh UUID.
InsertJob(r) ==
    /\ pc[r] = "insert"
    /\ ~gone[r]
    /\ \E j \in Jobs :
          /\ target[j] = NoElement
          /\ target' = [target EXCEPT ![j] = arg[r]]
          /\ row' = [row EXCEPT ![j] = "queued"]
          /\ cur' = [cur EXCEPT ![r] = Upd(j, "queued")]
    /\ Goto(r, "submit")
    /\ UNCHANGED <<linked, store, remote, arg, todo, gone, crashes, history>>

\* CreateJob fails on a cancelled context; so does one that finds no job left.
InsertJobFails(r) ==
    /\ pc[r] = "insert"
    /\ gone[r] \/ ~JobLeft
    /\ Finish(r)
    /\ UNCHANGED <<table, target, store, remote, crashes, history>>

\* POST img_gen.  Whatever JSON comes back is success: an error document has no
\* id and leaves no job on the server.  The post ignores the request's context.
SubmitJob(r) ==
    /\ pc[r] = "submit"
    /\ \/ remote' = [remote EXCEPT ![cur[r].job] = "working"]
       \/ UNCHANGED remote
    /\ Goto(r, "link")
    /\ UNCHANGED <<table, target, store, local, crashes, history>>

\* The post fails, or its answer is lost after the server took the job.
SubmitJobFails(r) ==
    /\ pc[r] = "submit"
    /\ \/ remote' = [remote EXCEPT ![cur[r].job] = "working"]
       \/ UNCHANGED remote
    /\ Goto(r, "reject")
    /\ UNCHANGED <<table, target, store, local, crashes, history>>

\* Mutant: the failure is only logged.
LogRejection(r) ==
    /\ pc[r] = "reject"
    /\ Finish(r)
    /\ UNCHANGED <<table, target, store, remote, crashes, history>>

\* The failure goes straight to the row: no pruning, no hook, and not even the
\* row when the context is cancelled.
RejectJob(r) ==
    /\ pc[r] = "reject"
    /\ LET j == cur[r].job
       IN  /\ row' = [row EXCEPT ![j] = IF @ = "none" \/ gone[r] THEN @ ELSE "failed"]
           /\ abandoned' = IF gone[r] THEN abandoned \cup {j} ELSE abandoned
    /\ Finish(r)
    /\ UNCHANGED <<linked, target, store, remote, crashes, fired, erased>>

\* Mutant: an UpdateSDCPPJobID error ends StartJob before the poller starts.
LinkJobOrReturn(r) ==
    /\ pc[r] = "link"
    /\ linked' = [linked EXCEPT ![cur[r].job] =
                     row[cur[r].job] # "none" /\ ~gone[r] /\ remote[cur[r].job] # "none"]
    /\ pc' = [pc EXCEPT ![r] = "idle", ![cur[r].job] = IF gone[r] THEN @ ELSE "check"]
    /\ cur' = [cur EXCEPT ![r] = Idle]
    /\ arg' = [arg EXCEPT ![r] = NoElement]
    /\ gone' = [gone EXCEPT ![r] = FALSE]
    /\ UNCHANGED <<row, target, store, remote, todo, crashes, history>>

\* UpdateSDCPPJobID (its error is only logged), then go pollJob.
LinkJob(r) ==
    /\ pc[r] = "link"
    /\ LET j == cur[r].job
       IN  /\ linked' = [linked EXCEPT ![j] =
                            row[j] # "none" /\ ~gone[r] /\ remote[j] # "none"]
           /\ pc' = [pc EXCEPT ![r] = "idle", ![j] = "check"]
           /\ cur' = [cur EXCEPT ![r] = Idle]
    /\ arg' = [arg EXCEPT ![r] = NoElement]
    /\ gone' = [gone EXCEPT ![r] = FALSE]
    /\ UNCHANGED <<row, target, store, remote, todo, crashes, history>>

-----------------------------------------------------------------------------
(* CancelJob, cancel-all and delete *)

\* Mutant: a job that is not linked yet is deleted without being settled.
CancelJobByDeleting(r, j) ==
    /\ Serving /\ pc[r] = "idle"
    /\ row[j] # "none"
    /\ Goto(r, IF row[j] \in Active /\ linked[j] THEN "revoke" ELSE "discard")
    /\ cur' = [cur EXCEPT ![r] = Upd(j, "cancelled")]
    /\ UNCHANGED <<table, target, store, remote, arg, todo, gone, crashes, history>>

\* CancelJob reads the row and decides on what it read; a missing row is a no-op.
CancelJob(r, j) ==
    /\ Serving /\ pc[r] = "idle"
    /\ \/ /\ row[j] \in Terminal
          /\ Goto(r, "discard")
       \/ /\ row[j] \in Active
          /\ Goto(r, IF linked[j] THEN "revoke" ELSE "status")
    /\ cur' = [cur EXCEPT ![r] = Upd(j, "cancelled")]
    /\ UNCHANGED <<table, target, store, remote, arg, todo, gone, crashes, history>>

\* A row read as terminal is deleted, with no hook.
DiscardRow(r) ==
    /\ pc[r] = "discard"
    /\ LET j == cur[r].job
       IN  /\ row' = [row EXCEPT ![j] = IF gone[r] THEN @ ELSE "none"]
           /\ linked' = [linked EXCEPT ![j] = gone[r] /\ @]
    /\ Finish(r)
    /\ UNCHANGED <<target, store, remote, crashes, history>>

\* POST cancel.  The answer is ignored; it goes to the default server even when
\* the job runs on another (GetElement returns no backend), and nowhere once the
\* client is gone.
RevokeJob(r) ==
    /\ pc[r] = "revoke"
    /\ LET j == cur[r].job
       IN  \/ UNCHANGED remote
           \/ /\ remote[j] = "working" /\ ~gone[r]
              /\ remote' = [remote EXCEPT ![j] = "none"]
    /\ Goto(r, "status")
    /\ UNCHANGED <<table, target, store, local, crashes, history>>

\* cancel-all: CancelStuckJobs while the process serves requests.
CancelStuckJobs(r) ==
    /\ Serving /\ pc[r] = "idle"
    /\ \E u \in StuckJobs :
          /\ cur' = [cur EXCEPT ![r] = u]
          /\ todo' = [todo EXCEPT ![r] = StuckJobs \ {u}]
    /\ Goto(r, "status")
    /\ UNCHANGED <<table, target, store, remote, arg, gone, crashes, history>>

\* Mutant: the image object is left in the bucket.
DeleteElementRowOnly(e) ==
    /\ Serving
    /\ Exists(e)
    /\ elem' = [elem EXCEPT ![e] = "deleted"]
    /\ row' = [j \in Jobs |-> IF target[j] = e THEN "none" ELSE row[j]]
    /\ linked' = [j \in Jobs |-> target[j] # e /\ linked[j]]
    /\ erased' = erased \cup {e}
    /\ UNCHANGED <<target, image, remote, pc, local, crashes, fired, abandoned>>

\* DeleteElement: one transaction on the only connection, S3 objects included.
DeleteElement(e) ==
    /\ Serving
    /\ Exists(e)
    /\ elem' = [elem EXCEPT ![e] = "deleted"]
    /\ image' = [image EXCEPT ![e] = NoJob]
    /\ row' = [j \in Jobs |-> IF target[j] = e THEN "none" ELSE row[j]]
    /\ linked' = [j \in Jobs |-> target[j] # e /\ linked[j]]
    /\ erased' = erased \cup {e}
    /\ UNCHANGED <<target, remote, pc, local, crashes, fired, abandoned>>

\* The browser goes away: every later call on the request's context fails.
Disconnect(r) ==
    /\ MayDisconnect
    /\ pc[r] # "idle" /\ ~gone[r]
    /\ gone' = [gone EXCEPT ![r] = TRUE]
    /\ UNCHANGED <<table, target, store, remote, pc, arg, cur, todo, crashes, history>>

-----------------------------------------------------------------------------
(* pollJob *)

\* What sdcppJobStatus.Status() makes of the server's answer.  A server that has
\* no such job answers an error document, or one with neither result nor error,
\* which reads as generating.
Answers(j) ==
    CASE remote[j] = "working"   -> {"queued", "generating"}
      [] remote[j] = "completed" -> {"completed"}
      [] remote[j] = "failed"    -> {"failed"}
      [] OTHER                   -> {"failed", "generating"}

\* Mutant: the poller gives up without settling its job.
PollTimeoutReturns(j) ==
    /\ pc[j] = "check"
    /\ Goto(j, "done")
    /\ UNCHANGED <<table, target, store, remote, local, crashes, history>>

\* The head of the loop, the only place that looks at the deadline.
PollTimeout(j) ==
    /\ pc[j] = "check"
    /\ cur' = [cur EXCEPT ![j] = Upd(j, "failed")]
    /\ Goto(j, "status")
    /\ UNCHANGED <<table, target, store, remote, arg, todo, gone, crashes, history>>

PollAgain(j) ==
    /\ pc[j] = "check"
    /\ Goto(j, "poll")
    /\ UNCHANGED <<table, target, store, remote, local, crashes, history>>

\* A poll that fails is retried at once.
PollError(j) ==
    /\ pc[j] = "poll"
    /\ Goto(j, "check")
    /\ UNCHANGED <<table, target, store, remote, local, crashes, history>>

PollPending(j) ==
    /\ pc[j] = "poll"
    /\ \E s \in Answers(j) \cap Active : cur' = [cur EXCEPT ![j] = Upd(j, s)]
    /\ Goto(j, "status")
    /\ UNCHANGED <<table, target, store, remote, arg, todo, gone, crashes, history>>

PollFailed(j) ==
    /\ pc[j] = "poll"
    /\ "failed" \in Answers(j)
    /\ cur' = [cur EXCEPT ![j] = Upd(j, "failed")]
    /\ Goto(j, "status")
    /\ UNCHANGED <<table, target, store, remote, arg, todo, gone, crashes, history>>

\* Completed: with output the picture is saved first, without it is not.
PollCompleted(j) ==
    /\ pc[j] = "poll"
    /\ "completed" \in Answers(j)
    /\ \/ /\ Goto(j, "save")
          /\ UNCHANGED cur
       \/ /\ Goto(j, "status")
          /\ cur' = [cur EXCEPT ![j] = Upd(j, "completed")]
    /\ UNCHANGED <<table, target, store, remote, arg, todo, gone, crashes, history>>

\* handleJobSuccess: CreateElement writes the JSON, the picture and, if it is
\* missing, the element's row.  It asks neither whether the element was deleted
\* nor whether the job was cancelled.
SaveImage(j) ==
    /\ pc[j] = "save"
    /\ elem' = [elem EXCEPT ![target[j]] = "present"]
    /\ image' = [image EXCEPT ![target[j]] = j]
    /\ cur' = [cur EXCEPT ![j] = Upd(j, "completed")]
    /\ Goto(j, "status")
    /\ UNCHANGED <<table, target, remote, arg, todo, gone, crashes, history>>

\* handleJobSuccess gives up (undecodable picture, CreateElement error): it
\* settles the job as failed, and its caller then settles it again as completed.
\* What a failed CreateElement leaves in the bucket is not followed here.
SaveImageFails(j) ==
    /\ pc[j] = "save"
    /\ cur' = [cur EXCEPT ![j] = Upd(j, "failed")]
    /\ todo' = [todo EXCEPT ![j] = {Upd(j, "completed")}]
    /\ Goto(j, "status")
    /\ UNCHANGED <<table, target, store, remote, arg, gone, crashes, history>>

-----------------------------------------------------------------------------
(* The sdcpp server, and the process as a whole *)

RemoteStep(j) ==
    /\ remote[j] = "working"
    /\ \E s \in {"completed", "failed"} : remote' = [remote EXCEPT ![j] = s]
    /\ UNCHANGED <<table, target, store, pc, local, crashes, history>>

\* The process stops anywhere; the database file and the bucket stay.
Crash ==
    /\ crashes < MaxCrashes
    /\ crashes' = crashes + 1
    /\ pc' = [t \in Threads |->
                 IF t = Boot THEN "boot"
                 ELSE IF t \in Requests THEN "idle"
                 ELSE IF Live(t) THEN "dead" ELSE pc[t]]
    /\ arg' = [r \in Requests |-> NoElement]
    /\ cur' = [t \in Threads |-> Idle]
    /\ todo' = [t \in Threads |-> {}]
    /\ gone' = [r \in Requests |-> FALSE]
    /\ UNCHANGED <<table, target, store, remote, history>>

\* SyncAndCleanup before the server opens: CancelStuckJobs, with no request to
\* the sdcpp server.
BootCleanup ==
    /\ pc[Boot] = "boot"
    /\ \/ /\ StuckJobs = {}
          /\ Goto(Boot, "serving")
          /\ UNCHANGED <<cur, todo>>
       \/ \E u \in StuckJobs :
             /\ Goto(Boot, "status")
             /\ cur' = [cur EXCEPT ![Boot] = u]
             /\ todo' = [todo EXCEPT ![Boot] = StuckJobs \ {u}]
    /\ UNCHANGED <<table, target, store, remote, arg, gone, crashes, history>>

UpdateStep(t) == UpdateStatus(t) \/ PruneJob(t) \/ FireHook(t)

\* The steps of a request that has been accepted.
RequestStep(r) ==
    \/ LookupElement(r) \/ CreateBlank(r) \/ CreateBlankFails(r)
    \/ InsertJob(r) \/ InsertJobFails(r)
    \/ SubmitJob(r) \/ SubmitJobFails(r) \/ RejectJob(r) \/ LinkJob(r)
    \/ DiscardRow(r) \/ RevokeJob(r)
    \/ UpdateStep(r)

\* The server's answer to a poll, or the error of its transport.
PollReturns(j) == PollError(j) \/ PollPending(j) \/ PollFailed(j) \/ PollCompleted(j)

PollerStep(j) ==
    \/ PollTimeout(j) \/ PollAgain(j) \/ SaveImage(j) \/ SaveImageFails(j)
    \/ UpdateStep(j)

BootStep == BootCleanup \/ UpdateStep(Boot)

Arrival(r) ==
    \/ \E e \in Elements : RegenerateInPlace(r, e) \/ Generate(r, e)
    \/ \E j \in Jobs : CancelJob(r, j)
    \/ CancelStuckJobs(r)

Next ==
    \/ \E r \in Requests : Arrival(r) \/ RequestStep(r) \/ Disconnect(r)
    \/ \E j \in Jobs : PollReturns(j) \/ PollerStep(j) \/ RemoteStep(j)
    \/ \E e \in Elements : DeleteElement(e)
    \/ BootStep
    \/ Crash

Spec == Init /\ [][Next]_vars

\* The Go scheduler runs every goroutine that can run.  Strong fairness of the
\* timeout: a poller that keeps coming back to the head of its loop finds its ten
\* minutes over in the end.
Fairness ==
    /\ \A r \in Requests : WF_vars(RequestStep(r))
    /\ \A j \in Jobs : WF_vars(PollerStep(j)) /\ SF_vars(PollTimeout(j))
    /\ WF_vars(BootStep)

\* An assumption about the sdcpp server and the network, not about this code:
\* http.DefaultClient has no timeout.
ServerAnswers == \A j \in Jobs : WF_vars(PollReturns(j))

FairSpec == Spec /\ Fairness /\ ServerAnswers

-----------------------------------------------------------------------------
(* Properties *)

\* A thread is in, or still has to make, a settling updateJobStatus call for j.
Settling(t, j) ==
    \/ pc[t] \in {"status", "prune"} /\ cur[t].job = j /\ cur[t].to \in Terminal
    \/ \E u \in todo[t] : u.job = j

\* A request is between CreateJob and the start of j's poller.
Submitting(j) ==
    \E r \in Requests : pc[r] \in {"submit", "reject", "link"} /\ cur[r].job = j

\* A queued or generating row always has somebody who will settle it: its
\* poller, the StartJob that will start one, or the start-up cleanup.  The only
\* exception is the submission whose failure could not be written because the
\* client had gone (job_service.go:67-86).
ActiveRowsAttended ==
    \A j \in Jobs :
        row[j] \in Active => Live(j) \/ Submitting(j) \/ ~Serving \/ j \in abandoned

\* "Remove terminal rows immediately" (job_service.go:310): a terminal row of a
\* job whose poller runs or ran is one some thread is about to prune.  What stays
\* behind is the row of a failed submission, and of a process that was killed.
TerminalRowsBeingPruned ==
    \A j \in Jobs :
        row[j] \in Terminal =>
            \/ \E t \in Threads : Settling(t, j)
            \/ pc[j] \in {"none", "dead"}

\* No job leaves the table unannounced: when the row of a polled job is gone and
\* its element was never deleted, OnJobTerminal was called or some thread is on
\* its way to call it, whoever removed the row (job_service.go:302-331).
NoLostHook ==
    \A j \in Jobs :
        (/\ pc[j] \notin {"none", "dead"}
         /\ row[j] = "none"
         /\ target[j] \notin erased)
        => \/ fired[j] # 0
           \/ \E t \in Threads : pc[t] = "hook" /\ cur[t].job = j
           \/ \E t \in Threads : Settling(t, j)

\* The picture of an element is one the server completed for that very element,
\* whatever pollers, cancellations and restarts there were.
ImageOfCompletedJob ==
    \A e \in Elements :
        image[e] # NoJob =>
            /\ Exists(e)
            /\ target[image[e]] = e
            /\ remote[image[e]] = "completed"

\* A row that was deleted never comes back, however late a poller's status
\* update arrives (job_repo.go:144: UPDATE, not upsert).
RowNeverReborn ==
    [][\A j \in Jobs : target[j] # NoElement /\ row[j] = "none" => row'[j] = "none"]_vars

\* "You never see orphaned jobs" (USAGE.md:227): when the server opens after a
\* restart, no queued or generating row of the previous process is left.
StartupLeavesNoActiveRow ==
    [][~Serving /\ Serving' => \A j \in Jobs : row'[j] \notin Active]_vars

\* The ledger's view of a job.  A row that is terminal is closed once no thread
\* is about to write to it again: until then it may show another status.
Phase(j) ==
    IF target[j] = NoElement THEN "new"
    ELSE IF \/ row[j] = "none"
            \/ j \in abandoned
            \/ row[j] \in Terminal /\ \A t \in Threads : ~Settling(t, j)
         THEN "closed" ELSE "open"

Ledger == INSTANCE JobLedger WITH phase <- [j \in Jobs |-> Phase(j)]

\* The job table, with all its threads, keeps the ledger's promise: a job is
\* opened once, closed once and for good, and none stays open (pollJob,
\* CancelJob, CancelStuckJobs and StartJob together).
JobsOpenAndCloseOnce == Ledger!Spec

\* Every polled job is announced in the end, unless its element is deleted or
\* the process is killed.
JobsAnnounced ==
    \A j \in Jobs :
        Live(j) ~> (fired[j] # 0 \/ target[j] \in erased \/ pc[j] = "dead")

\* server.go:58: "OnJobTerminal fires exactly once per job".
HookFiresOnce == \A j \in Jobs : fired[j] <= 1

\* USAGE.md:176: "If a job is already running for this element, it is cancelled
\* first".
OneRunningJobPerElement ==
    \A i, j \in Jobs :
        (/\ i # j /\ target[i] = target[j]
         /\ row[i] \in Active /\ row[j] \in Active)
        => Submitting(i) \/ Submitting(j)

\* USAGE.md:207: "This action is irreversible."
DeletionIsFinal == \A e \in erased : ~Exists(e)

\* EXTENDING.md:370: "OnJobTerminal fires before the job row is pruned", and the comment
\* at job_service.go:319: whenever the hook is called, the job's row is still there.
HookBeforePrune == [][\A j \in Jobs : fired'[j] > fired[j] => row[j] # "none"]_vars

-----------------------------------------------------------------------------
(* The inductive invariant behind the safety properties (JobServiceProofs).  *)

\* Where a thread works for the job of its cur.
AtWork == {"submit", "reject", "link", "discard", "revoke"} \cup UpdatePc

\* Every job a row, a poller, a hook or a thread names has been submitted.
JobsSubmitted ==
    /\ \A j \in Jobs :
          row[j] # "none" \/ pc[j] # "none" \/ fired[j] # 0 => target[j] # NoElement
    /\ \A t \in Threads :
          pc[t] \in AtWork => cur[t].job \in Jobs /\ target[cur[t].job] # NoElement
    /\ \A t \in Threads : \A u \in todo[t] : target[u.job] # NoElement
    /\ \A r \in Requests :
          pc[r] \in {"lookup", "create", "insert"} => arg[r] # NoElement

\* A poller updates its own job; the other threads only settle jobs.
UpdatesOwned ==
    /\ \A j \in Jobs : pc[j] \in UpdatePc => cur[j].job = j
    /\ \A j \in Jobs : \A u \in todo[j] : u.job = j
    /\ \A t \in Threads : \A u \in todo[t] : u.to \in Terminal
    /\ \A t \in Threads \ Jobs :
          pc[t] \in UpdatePc \cup {"revoke"} => cur[t].to \in Terminal

\* A thread that is about to call the hook has removed the row, ...
HookAfterPrune ==
    \A t \in Threads : pc[t] = "hook" => row[cur[t].job] = "none"

\* ... and no late UPDATE of another thread brings it back after the call: the contrary
\* of HookBeforePrune.
HookFindsNoRow == \A j \in Jobs : fired[j] # 0 => row[j] = "none"

\* Before the server opens only the start-up thread runs, and every queued or
\* generating row is one it is settling or has still to settle.
StartupSettlesAll ==
    ~Serving =>
        /\ \A r \in Requests : pc[r] = "idle"
        /\ \A j \in Jobs : ~Live(j)
        /\ pc[Boot] # "boot" =>
              \A j \in Jobs : row[j] \in Active =>
                  \/ pc[Boot] = "status" /\ cur[Boot].job = j
                  \/ \E u \in todo[Boot] : u.job = j

IInv ==
    /\ TypeOK
    /\ JobsSubmitted
    /\ UpdatesOwned
    /\ HookAfterPrune
    /\ HookFindsNoRow
    /\ StartupSettlesAll
    /\ ActiveRowsAttended

-----------------------------------------------------------------------------
(* What pruning, hooks and pictures rest on in addition.                    *)

\* A job is in play from CreateJob until its poller is over: as long as a poller or the
\* StartJob that will start one can still write its row.
InPlay(j) == Submitting(j) \/ pc[j] \notin {"none", "dead"}

\* A job's end was announced, or will be: the hook was called, somebody is on the way
\* to it, or there is no element to announce.
Announced(j) ==
    \/ fired[j] # 0
    \/ target[j] \in erased
    \/ \E t \in Threads : pc[t] = "hook" /\ cur[t].job = j
    \/ \E t \in Threads : Settling(t, j)

\* Only a thread in an updateJobStatus call has more of them to make.
TodoWhileUpdating == \A t \in Threads : pc[t] \notin UpdatePc => todo[t] = {}

\* A job is submitted by one request, before its poller and before the server knows it.
OneSubmitter ==
    /\ \A j \in Jobs :
           target[j] = NoElement => remote[j] = "none" /\ ~linked[j] /\ j \notin abandoned
    /\ \A r \in Requests : pc[r] \in {"submit", "reject", "link"} =>
           /\ pc[cur[r].job] = "none" /\ ~linked[cur[r].job] /\ cur[r].job \notin abandoned
           /\ pc[r] = "submit" => remote[cur[r].job] = "none"
           /\ \A q \in Requests \ {r} :
                  pc[q] \in {"submit", "reject", "link"} => cur[q].job # cur[r].job

\* The element of a job was created before the job, and only a user removes it.
ElementsOutlast ==
    /\ \A e \in Elements : elem[e] = "deleted" => e \in erased
    /\ \A j \in Jobs : target[j] # NoElement => elem[target[j]] # "unborn"
    /\ \A r \in Requests : pc[r] = "insert" => elem[arg[r]] # "unborn"

\* A poller that has settled its job has pruned and announced it.
PollersFinish ==
    \A j \in Jobs : pc[j] = "done" =>
        row[j] = "none" /\ (fired[j] # 0 \/ target[j] \in erased)

\* While a job is in play its row is terminal only on the way out, gone only once
\* announced, and discarded only once announced.
InPlayAnnounced ==
    \A j \in Jobs : InPlay(j) =>
        /\ row[j] \in Terminal => \E t \in Threads : Settling(t, j)
        /\ row[j] = "none" => Announced(j)
        /\ \A r \in Requests : pc[r] = "discard" /\ cur[r].job = j => Announced(j)

\* A poller saves the picture of a completed job.
SavesCompleted == \A j \in Jobs : pc[j] = "save" => remote[j] = "completed"

\* A request that revokes a job on the server has a polled job; one that was abandoned
\* never is.
RevokesPolled ==
    /\ \A j \in Jobs : linked[j] => pc[j] # "none"
    /\ \A j \in abandoned : pc[j] = "none"
    /\ \A r \in Requests : pc[r] = "revoke" => pc[cur[r].job] \notin {"none", "dead"}

HookInv ==
    /\ TodoWhileUpdating
    /\ OneSubmitter
    /\ ElementsOutlast
    /\ PollersFinish
    /\ InPlayAnnounced
    /\ SavesCompleted
    /\ ImageOfCompletedJob
    /\ RevokesPolled

=============================================================================
