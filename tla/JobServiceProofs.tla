-------------------------- MODULE JobServiceProofs --------------------------
(***************************************************************************)
(* Proofs about JobService, for every number of jobs, elements, requests   *)
(* and restarts.                                                           *)
(***************************************************************************)
EXTENDS JobService, TLAPS

\* What NextUpdate leaves in the locals of the threads.
LEMMA NextUpdateType ==
    ASSUME TypeOK, NEW t \in Threads, NextUpdate(t)
    PROVE  /\ pc' \in [Threads -> RequestPc \cup PollerPc \cup BootPc]
           /\ \A r \in Requests : pc'[r] \in RequestPc
           /\ \A j \in Jobs : pc'[j] \in PollerPc
           /\ pc'[Boot] \in BootPc
           /\ arg' \in [Requests -> Elements \cup {NoElement}]
           /\ cur' \in [Threads -> Update \cup {Idle}]
           /\ todo' \in [Threads -> SUBSET Update]
           /\ gone' \in [Requests -> BOOLEAN]
<1> USE ThreadsAssumption
    DEF TypeOK, Threads, Update, Idle, Goto, RequestPc, PollerPc, BootPc, StartJobPc, UpdatePc
<1>1. CASE /\ todo[t] = {}
           /\ Goto(t, AfterUpdates(t))
           /\ cur' = [cur EXCEPT ![t] = Idle]
           /\ gone' = [r \in Requests |-> IF r = t THEN FALSE ELSE gone[r]]
           /\ UNCHANGED <<todo, arg>>
    <2>1. /\ t \in Jobs => AfterUpdates(t) \in {"done", "check"}
          /\ t = Boot => AfterUpdates(t) = "serving"
          /\ t \in Requests => AfterUpdates(t) = "idle"
        BY DEF AfterUpdates
    <2>2. cur' \in [Threads -> Update \cup {Idle}]
        BY <1>1
    <2> QED
        BY <1>1, <2>1, <2>2
<1>2. ASSUME NEW u \in todo[t],
             /\ Goto(t, "status")
             /\ cur' = [cur EXCEPT ![t] = u]
             /\ todo' = [todo EXCEPT ![t] = @ \ {u}]
             /\ UNCHANGED <<gone, arg>>
      PROVE  /\ pc' \in [Threads -> RequestPc \cup PollerPc \cup BootPc]
             /\ \A r \in Requests : pc'[r] \in RequestPc
             /\ \A j \in Jobs : pc'[j] \in PollerPc
             /\ pc'[Boot] \in BootPc
             /\ arg' \in [Requests -> Elements \cup {NoElement}]
             /\ cur' \in [Threads -> Update \cup {Idle}]
             /\ todo' \in [Threads -> SUBSET Update]
             /\ gone' \in [Requests -> BOOLEAN]
    <2>1. u \in Update
        BY <1>2
    <2> QED
        BY <1>2, <2>1
<1> QED
    BY <1>1, <1>2 DEF NextUpdate

\* No step takes a variable out of its type.
LEMMA TypeStep ==
    ASSUME TypeOK, JobsSubmitted, [Next]_vars
    PROVE  TypeOK'
<1> USE ThreadsAssumption, ParametersAssumption
    DEF TypeOK, Threads, Status, Active, Terminal, Update, Idle, Upd, RequestPc, PollerPc,
        BootPc, StartJobPc, UpdatePc, table, store, local, history, Goto
<1>1. ASSUME NEW t \in Threads, UpdateStatus(t) PROVE TypeOK'
    <2>1. cur[t].to \in Status
        <3>1. cur[t] \in Update \cup {Idle}
            OBVIOUS
        <3> QED
            BY <3>1
    <2>2. row' \in [Jobs -> Status \cup {"none"}]
        <3>1. row' = [row EXCEPT ![cur[t].job] = IF @ = "none" THEN @ ELSE cur[t].to]
            BY <1>1 DEF UpdateStatus
        <3> QED
            BY <2>1, <3>1
    <2>3. CASE cur[t].to \in Terminal
        <3>1. /\ Goto(t, "prune")
              /\ UNCHANGED local
              /\ UNCHANGED <<linked, target, store, remote, crashes, history>>
            BY <1>1, <2>3 DEF UpdateStatus
        <3> QED
            BY <2>2, <3>1
    <2>4. CASE cur[t].to \notin Terminal
        BY <1>1, <2>2, <2>4, NextUpdateType DEF UpdateStatus
    <2> QED
        BY <2>3, <2>4
<1>2. ASSUME NEW t \in Threads, PruneJob(t) PROVE TypeOK'
    BY <1>2 DEF PruneJob
<1>3. ASSUME NEW t \in Threads, FireHook(t) PROVE TypeOK'
    <2>1. fired' \in [Jobs -> 0..2]
        BY <1>3 DEF FireHook
    <2> QED
        BY <1>3, <2>1, NextUpdateType DEF FireHook
<1>4. ASSUME NEW r \in Requests, NEW e \in Elements, Generate(r, e) PROVE TypeOK'
    BY <1>4 DEF Generate
<1>5. ASSUME NEW r \in Requests, NEW e \in Elements, RegenerateInPlace(r, e) PROVE TypeOK'
    BY <1>5 DEF RegenerateInPlace
<1>6. ASSUME NEW r \in Requests, LookupElement(r) PROVE TypeOK'
    BY <1>6 DEF LookupElement
<1>7. ASSUME NEW r \in Requests, CreateBlank(r) PROVE TypeOK'
    BY <1>7 DEF CreateBlank
<1>8. ASSUME NEW r \in Requests, CreateBlankFails(r) PROVE TypeOK'
    BY <1>8 DEF CreateBlankFails, Finish
<1>9. ASSUME NEW r \in Requests, InsertJob(r) PROVE TypeOK'
    BY <1>9 DEF InsertJob
<1>10. ASSUME NEW r \in Requests, InsertJobFails(r) PROVE TypeOK'
    BY <1>10 DEF InsertJobFails, Finish
<1>11. ASSUME NEW r \in Requests, SubmitJob(r) PROVE TypeOK'
    BY <1>11 DEF SubmitJob
<1>12. ASSUME NEW r \in Requests, SubmitJobFails(r) PROVE TypeOK'
    BY <1>12 DEF SubmitJobFails
<1>13. ASSUME NEW r \in Requests, RejectJob(r) PROVE TypeOK'
    BY <1>13 DEF RejectJob, Finish, JobsSubmitted, AtWork
<1>14. ASSUME NEW r \in Requests, LinkJob(r) PROVE TypeOK'
    <2>1. cur[r].job \in Jobs
        BY <1>14 DEF LinkJob, JobsSubmitted, AtWork
    <2>2. /\ pc' \in [Threads -> RequestPc \cup PollerPc \cup BootPc]
          /\ \A q \in Requests : pc'[q] \in RequestPc
          /\ \A j \in Jobs : pc'[j] \in PollerPc
          /\ pc'[Boot] \in BootPc
        BY <1>14, <2>1 DEF LinkJob
    <2>3. linked' \in [Jobs -> BOOLEAN]
        BY <1>14 DEF LinkJob
    <2>4. cur' \in [Threads -> Update \cup {Idle}]
        BY <1>14 DEF LinkJob
    <2> QED
        BY <1>14, <2>2, <2>3, <2>4 DEF LinkJob
<1>15. ASSUME NEW r \in Requests, NEW j \in Jobs, CancelJob(r, j) PROVE TypeOK'
    <2>1. \/ Goto(r, "discard")
          \/ Goto(r, "revoke")
          \/ Goto(r, "status")
        BY <1>15 DEF CancelJob
    <2>2. /\ pc' \in [Threads -> RequestPc \cup PollerPc \cup BootPc]
          /\ \A q \in Requests : pc'[q] \in RequestPc
          /\ \A k \in Jobs : pc'[k] \in PollerPc
          /\ pc'[Boot] \in BootPc
        <3>1. CASE Goto(r, "discard")
            BY <3>1
        <3>2. CASE Goto(r, "revoke")
            BY <3>2
        <3>3. CASE Goto(r, "status")
            BY <3>3
        <3> QED
            BY <2>1, <3>1, <3>2, <3>3
    <2>3. cur' \in [Threads -> Update \cup {Idle}]
        BY <1>15 DEF CancelJob
    <2>4. UNCHANGED <<table, target, store, remote, arg, todo, gone, crashes, history>>
        BY <1>15 DEF CancelJob
    <2> QED
        BY <2>2, <2>3, <2>4
<1>16. ASSUME NEW r \in Requests, DiscardRow(r) PROVE TypeOK'
    BY <1>16 DEF DiscardRow, Finish
<1>17. ASSUME NEW r \in Requests, RevokeJob(r) PROVE TypeOK'
    BY <1>17 DEF RevokeJob
<1>18. ASSUME NEW r \in Requests, CancelStuckJobs(r) PROVE TypeOK'
    BY <1>18 DEF CancelStuckJobs, StuckJobs
<1>19. ASSUME NEW e \in Elements, DeleteElement(e) PROVE TypeOK'
    BY <1>19 DEF DeleteElement
<1>20. ASSUME NEW r \in Requests, Disconnect(r) PROVE TypeOK'
    BY <1>20 DEF Disconnect
<1>21. ASSUME NEW j \in Jobs, PollTimeout(j) PROVE TypeOK'
    BY <1>21 DEF PollTimeout
<1>22. ASSUME NEW j \in Jobs, PollAgain(j) PROVE TypeOK'
    BY <1>22 DEF PollAgain
<1>23. ASSUME NEW j \in Jobs, PollError(j) PROVE TypeOK'
    BY <1>23 DEF PollError
<1>24. ASSUME NEW j \in Jobs, PollPending(j) PROVE TypeOK'
    BY <1>24 DEF PollPending, Answers
<1>25. ASSUME NEW j \in Jobs, PollFailed(j) PROVE TypeOK'
    BY <1>25 DEF PollFailed
<1>26. ASSUME NEW j \in Jobs, PollCompleted(j) PROVE TypeOK'
    <2>1. CASE Goto(j, "save") /\ UNCHANGED cur
        BY <1>26, <2>1 DEF PollCompleted
    <2>2. CASE Goto(j, "status") /\ cur' = [cur EXCEPT ![j] = Upd(j, "completed")]
        BY <1>26, <2>2 DEF PollCompleted
    <2> QED
        BY <1>26, <2>1, <2>2 DEF PollCompleted
<1>27. ASSUME NEW j \in Jobs, SaveImage(j) PROVE TypeOK'
    BY <1>27 DEF SaveImage
<1>28. ASSUME NEW j \in Jobs, SaveImageFails(j) PROVE TypeOK'
    BY <1>28 DEF SaveImageFails
<1>29. ASSUME NEW j \in Jobs, RemoteStep(j) PROVE TypeOK'
    BY <1>29 DEF RemoteStep
<1>30. ASSUME Crash PROVE TypeOK'
    BY <1>30 DEF Crash
<1>31. ASSUME BootCleanup PROVE TypeOK'
    <2>1. StuckJobs \in SUBSET Update
        BY DEF StuckJobs
    <2>2. CASE Goto(Boot, "serving") /\ UNCHANGED <<cur, todo>>
        BY <1>31, <2>2 DEF BootCleanup
    <2>3. ASSUME NEW u \in StuckJobs,
                 Goto(Boot, "status"),
                 cur' = [cur EXCEPT ![Boot] = u],
                 todo' = [todo EXCEPT ![Boot] = StuckJobs \ {u}]
          PROVE  TypeOK'
        BY <1>31, <2>1, <2>3 DEF BootCleanup
    <2> QED
        BY <1>31, <2>2, <2>3 DEF BootCleanup
<1>32. ASSUME UNCHANGED vars PROVE TypeOK'
    BY <1>32 DEF vars
<1> QED
    BY <1>1, <1>2, <1>3, <1>4, <1>5, <1>6, <1>7, <1>8, <1>9, <1>10, <1>11, <1>12, <1>13, <1>14, <1>15, <1>16, <1>17, <1>18, <1>19, <1>20, <1>21, <1>22, <1>23, <1>24, <1>25, <1>26, <1>27, <1>28, <1>29, <1>30, <1>31, <1>32
    DEF Next, Arrival, RequestStep, UpdateStep, PollReturns, PollerStep, BootStep

\* What NextUpdate does to the thread, and that it leaves the others alone.
LEMMA NextUpdateEffect ==
    ASSUME TypeOK, NEW t \in Threads, NextUpdate(t)
    PROVE  /\ \A q \in Threads \ {t} :
                  pc'[q] = pc[q] /\ cur'[q] = cur[q] /\ todo'[q] = todo[q]
           /\ \/ /\ todo[t] = {}
                 /\ pc'[t] = AfterUpdates(t)
                 /\ todo'[t] = {}
              \/ /\ pc'[t] = "status"
                 /\ cur'[t] \in todo[t]
                 /\ todo'[t] = todo[t] \ {cur'[t]}
           /\ UNCHANGED arg
<1>1. CASE todo[t] = {} /\ Goto(t, AfterUpdates(t)) /\ cur' = [cur EXCEPT ![t] = Idle]
           /\ UNCHANGED <<todo, arg>>
    BY <1>1 DEF TypeOK, Goto
<1>2. ASSUME NEW u \in todo[t],
             Goto(t, "status"),
             cur' = [cur EXCEPT ![t] = u],
             todo' = [todo EXCEPT ![t] = @ \ {u}],
             UNCHANGED arg
      PROVE  /\ \A q \in Threads \ {t} :
                    pc'[q] = pc[q] /\ cur'[q] = cur[q] /\ todo'[q] = todo[q]
             /\ pc'[t] = "status"
             /\ cur'[t] \in todo[t]
             /\ todo'[t] = todo[t] \ {cur'[t]}
             /\ UNCHANGED arg
    BY <1>2 DEF TypeOK, Goto
<1> QED
    BY <1>1, <1>2 DEF NextUpdate

\* AfterUpdates leads to a place where a thread works for no job.
LEMMA AfterUpdatesRest ==
    ASSUME NEW t \in Threads
    PROVE  /\ AfterUpdates(t) \in {"done", "check", "serving", "idle"}
           /\ t \in Jobs <=> AfterUpdates(t) \in {"done", "check"}
BY ThreadsAssumption DEF AfterUpdates, Threads

\* The end of an updateJobStatus call names no job that was not submitted.
LEMMA NextUpdateSubmitted ==
    ASSUME TypeOK, JobsSubmitted, NEW t \in Threads, NextUpdate(t),
           pc[t] \in UpdatePc, UNCHANGED target,
           \A j \in Jobs : row'[j] # "none" => row[j] # "none",
           \A j \in Jobs : fired'[j] # 0 => fired[j] # 0 \/ j = cur[t].job
    PROVE  JobsSubmitted'
<1> USE ThreadsAssumption DEF TypeOK, Threads, UpdatePc, AtWork, JobsSubmitted
<1>1. cur[t].job \in Jobs /\ target[cur[t].job] # NoElement
    OBVIOUS
<1>2. /\ \A q \in Threads \ {t} :
            pc'[q] = pc[q] /\ cur'[q] = cur[q] /\ todo'[q] = todo[q]
      /\ UNCHANGED arg
    BY NextUpdateEffect
<1>3. /\ t \in Jobs => target[t] # NoElement
      /\ pc'[t] \in {"done", "check", "serving", "idle", "status"}
      /\ pc'[t] = "status" => cur'[t] \in todo[t]
      /\ \A u \in todo'[t] : u \in todo[t]
    BY NextUpdateEffect, AfterUpdatesRest
<1>4. \A j \in Jobs :
         row'[j] # "none" \/ pc'[j] # "none" \/ fired'[j] # 0 => target'[j] # NoElement
    BY <1>1, <1>2, <1>3
<1>5. \A q \in Threads :
         pc'[q] \in AtWork => cur'[q].job \in Jobs /\ target'[cur'[q].job] # NoElement
    <2>1. \A u \in todo[t] : u.job \in Jobs /\ target[u.job] # NoElement
        BY DEF Update
    <2> QED
        BY <1>2, <1>3, <2>1
<1> QED
    BY <1>2, <1>3, <1>4, <1>5

\* Rows, pollers, hooks and threads only ever name submitted jobs.
LEMMA SubmittedStep ==
    ASSUME TypeOK, JobsSubmitted, [Next]_vars
    PROVE  JobsSubmitted'
<1> USE ThreadsAssumption
    DEF TypeOK, Threads, Upd, UpdatePc, AtWork, JobsSubmitted, Goto,
        table, store, local, history
<1>1. ASSUME NEW t \in Threads, UpdateStatus(t) PROVE JobsSubmitted'
    <2>1. /\ UNCHANGED <<target, fired>>
          /\ pc[t] = "status"
          /\ cur[t].job \in Jobs /\ target[cur[t].job] # NoElement
          /\ \A j \in Jobs : row'[j] # "none" => row[j] # "none"
        BY <1>1 DEF UpdateStatus
    <2>2. CASE Goto(t, "prune") /\ UNCHANGED local
        BY <1>1, <2>1, <2>2
    <2>3. CASE NextUpdate(t)
        BY <2>1, <2>3, NextUpdateSubmitted
    <2> QED
        BY <1>1, <2>2, <2>3 DEF UpdateStatus
<1>2. ASSUME NEW t \in Threads, PruneJob(t) PROVE JobsSubmitted'
    BY <1>2 DEF PruneJob
<1>3. ASSUME NEW t \in Threads, FireHook(t) PROVE JobsSubmitted'
    <2>1. /\ UNCHANGED <<row, target>>
          /\ pc[t] = "hook"
          /\ cur[t].job \in Jobs /\ target[cur[t].job] # NoElement
          /\ \A j \in Jobs : fired'[j] # 0 => fired[j] # 0 \/ j = cur[t].job
          /\ NextUpdate(t)
        BY <1>3 DEF FireHook
    <2> QED
        BY <2>1, NextUpdateSubmitted
<1>4. ASSUME NEW r \in Requests, NEW e \in Elements, Generate(r, e) PROVE JobsSubmitted'
    BY <1>4 DEF Generate
<1>5. ASSUME NEW r \in Requests, NEW e \in Elements, RegenerateInPlace(r, e) PROVE JobsSubmitted'
    BY <1>5 DEF RegenerateInPlace
<1>6. ASSUME NEW r \in Requests, LookupElement(r) PROVE JobsSubmitted'
    BY <1>6 DEF LookupElement
<1>7. ASSUME NEW r \in Requests, CreateBlank(r) PROVE JobsSubmitted'
    BY <1>7 DEF CreateBlank
<1>8. ASSUME NEW r \in Requests, CreateBlankFails(r) PROVE JobsSubmitted'
    BY <1>8 DEF CreateBlankFails, Finish
<1>9. ASSUME NEW r \in Requests, InsertJob(r) PROVE JobsSubmitted'
    <2>1. PICK j \in Jobs :
             /\ target[j] = NoElement
             /\ target' = [target EXCEPT ![j] = arg[r]]
             /\ row' = [row EXCEPT ![j] = "queued"]
             /\ cur' = [cur EXCEPT ![r] = Upd(j, "queued")]
        BY <1>9 DEF InsertJob
    <2>2. arg[r] # NoElement
        BY <1>9 DEF InsertJob
    <2>3. \A k \in Jobs : target'[k] = NoElement => target[k] = NoElement /\ k # j
        BY <2>1, <2>2
    <2>4. UNCHANGED <<todo, fired, arg>> /\ Goto(r, "submit")
        BY <1>9 DEF InsertJob
    <2>5. \A k \in Jobs :
             row'[k] # "none" \/ pc'[k] # "none" \/ fired'[k] # 0 => target'[k] # NoElement
        BY <2>1, <2>3, <2>4
    <2>6. \A t \in Threads :
             pc'[t] \in AtWork => cur'[t].job \in Jobs /\ target'[cur'[t].job] # NoElement
        BY <2>1, <2>3, <2>4
    <2>7. \A t \in Threads : \A u \in todo'[t] : u.job \in Jobs
        BY <2>4 DEF Update
    <2> QED
        BY <2>3, <2>4, <2>5, <2>6, <2>7
<1>10. ASSUME NEW r \in Requests, InsertJobFails(r) PROVE JobsSubmitted'
    BY <1>10 DEF InsertJobFails, Finish
<1>11. ASSUME NEW r \in Requests, SubmitJob(r) PROVE JobsSubmitted'
    BY <1>11 DEF SubmitJob
<1>12. ASSUME NEW r \in Requests, SubmitJobFails(r) PROVE JobsSubmitted'
    BY <1>12 DEF SubmitJobFails
<1>13. ASSUME NEW r \in Requests, RejectJob(r) PROVE JobsSubmitted'
    BY <1>13 DEF RejectJob, Finish
<1>14. ASSUME NEW r \in Requests, LinkJob(r) PROVE JobsSubmitted'
    BY <1>14 DEF LinkJob
<1>15. ASSUME NEW r \in Requests, NEW j \in Jobs, CancelJob(r, j) PROVE JobsSubmitted'
    <2>1. \E label \in {"discard", "revoke", "status"} : Goto(r, label)
        BY <1>15 DEF CancelJob
    <2>2. row[j] # "none"
        BY <1>15 DEF CancelJob, Active, Terminal
    <2>3. cur' = [cur EXCEPT ![r] = Upd(j, "cancelled")]
        BY <1>15 DEF CancelJob
    <2>4. UNCHANGED <<table, target, arg, todo, fired>>
        BY <1>15 DEF CancelJob
    <2> QED
        BY <2>1, <2>2, <2>3, <2>4
<1>16. ASSUME NEW r \in Requests, DiscardRow(r) PROVE JobsSubmitted'
    BY <1>16 DEF DiscardRow, Finish
<1>17. ASSUME NEW r \in Requests, RevokeJob(r) PROVE JobsSubmitted'
    BY <1>17 DEF RevokeJob
<1>18. ASSUME NEW r \in Requests, CancelStuckJobs(r) PROVE JobsSubmitted'
    <2>1. \A u \in StuckJobs : u.job \in Jobs /\ target[u.job] # NoElement
        BY DEF StuckJobs, Active
    <2>2. PICK u \in StuckJobs :
             /\ cur' = [cur EXCEPT ![r] = u]
             /\ todo' = [todo EXCEPT ![r] = StuckJobs \ {u}]
        BY <1>18 DEF CancelStuckJobs
    <2>3. UNCHANGED <<table, target, arg, fired>> /\ Goto(r, "status")
        BY <1>18 DEF CancelStuckJobs
    <2> QED
        BY <2>1, <2>2, <2>3
<1>19. ASSUME NEW e \in Elements, DeleteElement(e) PROVE JobsSubmitted'
    BY <1>19 DEF DeleteElement
<1>20. ASSUME NEW r \in Requests, Disconnect(r) PROVE JobsSubmitted'
    BY <1>20 DEF Disconnect
<1>21. ASSUME NEW j \in Jobs, PollTimeout(j) PROVE JobsSubmitted'
    BY <1>21 DEF PollTimeout
<1>22. ASSUME NEW j \in Jobs, PollAgain(j) PROVE JobsSubmitted'
    BY <1>22 DEF PollAgain
<1>23. ASSUME NEW j \in Jobs, PollError(j) PROVE JobsSubmitted'
    BY <1>23 DEF PollError
<1>24. ASSUME NEW j \in Jobs, PollPending(j) PROVE JobsSubmitted'
    BY <1>24 DEF PollPending, Answers
<1>25. ASSUME NEW j \in Jobs, PollFailed(j) PROVE JobsSubmitted'
    BY <1>25 DEF PollFailed
<1>26. ASSUME NEW j \in Jobs, PollCompleted(j) PROVE JobsSubmitted'
    BY <1>26 DEF PollCompleted
<1>27. ASSUME NEW j \in Jobs, SaveImage(j) PROVE JobsSubmitted'
    BY <1>27 DEF SaveImage
<1>28. ASSUME NEW j \in Jobs, SaveImageFails(j) PROVE JobsSubmitted'
    BY <1>28 DEF SaveImageFails
<1>29. ASSUME NEW j \in Jobs, RemoteStep(j) PROVE JobsSubmitted'
    BY <1>29 DEF RemoteStep
<1>30. ASSUME Crash PROVE JobsSubmitted'
    <2>1. \A j \in Jobs : pc'[j] # "none" => pc[j] # "none"
        BY <1>30 DEF Crash, Live
    <2>2. \A t \in Threads : pc'[t] \notin AtWork /\ todo'[t] = {}
        <3>1. \A t \in Jobs : Live(t) \/ pc[t] \in {"none", "done", "dead"}
            BY DEF Live
        <3> QED
            BY <1>30, <3>1 DEF Crash
    <2>3. \A r \in Requests : pc'[r] = "idle"
        BY <1>30 DEF Crash
    <2> QED
        BY <1>30, <2>1, <2>2, <2>3 DEF Crash
<1>31. ASSUME BootCleanup PROVE JobsSubmitted'
    <2>1. \A u \in StuckJobs : u.job \in Jobs /\ target[u.job] # NoElement
        BY DEF StuckJobs, Active
    <2>2. UNCHANGED <<table, target, arg, fired>>
        BY <1>31 DEF BootCleanup
    <2>3. CASE Goto(Boot, "serving") /\ UNCHANGED <<cur, todo>>
        BY <2>2, <2>3
    <2>4. ASSUME NEW u \in StuckJobs,
                 Goto(Boot, "status"),
                 cur' = [cur EXCEPT ![Boot] = u],
                 todo' = [todo EXCEPT ![Boot] = StuckJobs \ {u}]
          PROVE  JobsSubmitted'
        BY <2>1, <2>2, <2>4
    <2> QED
        BY <1>31, <2>3, <2>4 DEF BootCleanup
<1>32. ASSUME UNCHANGED vars PROVE JobsSubmitted'
    BY <1>32 DEF vars
<1> QED
    BY <1>1, <1>2, <1>3, <1>4, <1>5, <1>6, <1>7, <1>8, <1>9, <1>10, <1>11,
       <1>12, <1>13, <1>14, <1>15, <1>16, <1>17, <1>18, <1>19, <1>20, <1>21,
       <1>22, <1>23, <1>24, <1>25, <1>26, <1>27, <1>28, <1>29, <1>30, <1>31,
       <1>32
    DEF Next, Arrival, RequestStep, UpdateStep, PollReturns, PollerStep, BootStep

\* Pollers update their own job, the other threads settle.
LEMMA OwnedStep ==
    ASSUME TypeOK, UpdatesOwned, [Next]_vars
    PROVE  UpdatesOwned'
<1> USE ThreadsAssumption
    DEF TypeOK, Threads, Upd, UpdatePc, UpdatesOwned, Terminal, Goto,
        table, store, local, history
<1>1. ASSUME NEW t \in Threads, UpdateStatus(t) PROVE UpdatesOwned'
    BY <1>1, NextUpdateEffect, AfterUpdatesRest DEF UpdateStatus, AfterUpdates
<1>2. ASSUME NEW t \in Threads, PruneJob(t) PROVE UpdatesOwned'
    BY <1>2 DEF PruneJob
<1>3. ASSUME NEW t \in Threads, FireHook(t) PROVE UpdatesOwned'
    BY <1>3, NextUpdateEffect, AfterUpdatesRest DEF FireHook, AfterUpdates
<1>4. ASSUME NEW r \in Requests, NEW e \in Elements, Generate(r, e) PROVE UpdatesOwned'
    BY <1>4 DEF Generate
<1>5. ASSUME NEW r \in Requests, NEW e \in Elements, RegenerateInPlace(r, e) PROVE UpdatesOwned'
    BY <1>5 DEF RegenerateInPlace
<1>6. ASSUME NEW r \in Requests, LookupElement(r) PROVE UpdatesOwned'
    BY <1>6 DEF LookupElement
<1>7. ASSUME NEW r \in Requests, CreateBlank(r) PROVE UpdatesOwned'
    BY <1>7 DEF CreateBlank
<1>8. ASSUME NEW r \in Requests, CreateBlankFails(r) PROVE UpdatesOwned'
    BY <1>8 DEF CreateBlankFails, Finish
<1>9. ASSUME NEW r \in Requests, InsertJob(r) PROVE UpdatesOwned'
    BY <1>9 DEF InsertJob
<1>10. ASSUME NEW r \in Requests, InsertJobFails(r) PROVE UpdatesOwned'
    BY <1>10 DEF InsertJobFails, Finish
<1>11. ASSUME NEW r \in Requests, SubmitJob(r) PROVE UpdatesOwned'
    BY <1>11 DEF SubmitJob
<1>12. ASSUME NEW r \in Requests, SubmitJobFails(r) PROVE UpdatesOwned'
    BY <1>12 DEF SubmitJobFails
<1>13. ASSUME NEW r \in Requests, RejectJob(r) PROVE UpdatesOwned'
    BY <1>13 DEF RejectJob, Finish
<1>14. ASSUME NEW r \in Requests, LinkJob(r) PROVE UpdatesOwned'
    BY <1>14 DEF LinkJob
<1>15. ASSUME NEW r \in Requests, NEW j \in Jobs, CancelJob(r, j) PROVE UpdatesOwned'
    BY <1>15 DEF CancelJob
<1>16. ASSUME NEW r \in Requests, DiscardRow(r) PROVE UpdatesOwned'
    BY <1>16 DEF DiscardRow, Finish
<1>17. ASSUME NEW r \in Requests, RevokeJob(r) PROVE UpdatesOwned'
    BY <1>17 DEF RevokeJob
<1>18. ASSUME NEW r \in Requests, CancelStuckJobs(r) PROVE UpdatesOwned'
    BY <1>18 DEF CancelStuckJobs, StuckJobs
<1>19. ASSUME NEW e \in Elements, DeleteElement(e) PROVE UpdatesOwned'
    BY <1>19 DEF DeleteElement
<1>20. ASSUME NEW r \in Requests, Disconnect(r) PROVE UpdatesOwned'
    BY <1>20 DEF Disconnect
<1>21. ASSUME NEW j \in Jobs, PollTimeout(j) PROVE UpdatesOwned'
    BY <1>21 DEF PollTimeout
<1>22. ASSUME NEW j \in Jobs, PollAgain(j) PROVE UpdatesOwned'
    BY <1>22 DEF PollAgain
<1>23. ASSUME NEW j \in Jobs, PollError(j) PROVE UpdatesOwned'
    BY <1>23 DEF PollError
<1>24. ASSUME NEW j \in Jobs, PollPending(j) PROVE UpdatesOwned'
    BY <1>24 DEF PollPending, Answers
<1>25. ASSUME NEW j \in Jobs, PollFailed(j) PROVE UpdatesOwned'
    BY <1>25 DEF PollFailed
<1>26. ASSUME NEW j \in Jobs, PollCompleted(j) PROVE UpdatesOwned'
    BY <1>26 DEF PollCompleted
<1>27. ASSUME NEW j \in Jobs, SaveImage(j) PROVE UpdatesOwned'
    BY <1>27 DEF SaveImage
<1>28. ASSUME NEW j \in Jobs, SaveImageFails(j) PROVE UpdatesOwned'
    BY <1>28 DEF SaveImageFails
<1>29. ASSUME NEW j \in Jobs, RemoteStep(j) PROVE UpdatesOwned'
    BY <1>29 DEF RemoteStep
<1>30. ASSUME Crash PROVE UpdatesOwned'
    <2>1. \A t \in Threads : pc'[t] \notin UpdatePc \cup {"revoke"} /\ todo'[t] = {}
        <3>1. \A t \in Jobs : Live(t) \/ pc[t] \in {"none", "done", "dead"}
            BY DEF Live
        <3> QED
            BY <1>30, <3>1 DEF Crash
    <2> QED
        BY <1>30, <2>1 DEF Crash
<1>31. ASSUME BootCleanup PROVE UpdatesOwned'
    BY <1>31 DEF BootCleanup, StuckJobs
<1>32. ASSUME UNCHANGED vars PROVE UpdatesOwned'
    BY <1>32 DEF vars
<1> QED
    BY <1>1, <1>2, <1>3, <1>4, <1>5, <1>6, <1>7, <1>8, <1>9, <1>10, <1>11,
       <1>12, <1>13, <1>14, <1>15, <1>16, <1>17, <1>18, <1>19, <1>20, <1>21,
       <1>22, <1>23, <1>24, <1>25, <1>26, <1>27, <1>28, <1>29, <1>30, <1>31,
       <1>32
    DEF Next, Arrival, RequestStep, UpdateStep, PollReturns, PollerStep, BootStep

\* Whoever has called the hook, or is about to, finds no row.
LEMMA HookStep ==
    ASSUME TypeOK, JobsSubmitted, HookAfterPrune, HookFindsNoRow, [Next]_vars
    PROVE  HookAfterPrune' /\ HookFindsNoRow'
<1> USE ThreadsAssumption
    DEF TypeOK, Threads, Upd, UpdatePc, AtWork, HookAfterPrune, HookFindsNoRow, Goto,
        table, store, local, history
<1>1. ASSUME NEW t \in Threads, UpdateStatus(t) PROVE HookAfterPrune' /\ HookFindsNoRow'
    BY <1>1, NextUpdateEffect, AfterUpdatesRest DEF UpdateStatus, AfterUpdates
<1>2. ASSUME NEW t \in Threads, PruneJob(t) PROVE HookAfterPrune' /\ HookFindsNoRow'
    BY <1>2 DEF PruneJob, JobsSubmitted
<1>3. ASSUME NEW t \in Threads, FireHook(t) PROVE HookAfterPrune' /\ HookFindsNoRow'
    BY <1>3, NextUpdateEffect, AfterUpdatesRest DEF FireHook, AfterUpdates
<1>4. ASSUME NEW r \in Requests, NEW e \in Elements, Generate(r, e) PROVE HookAfterPrune' /\ HookFindsNoRow'
    BY <1>4 DEF Generate
<1>5. ASSUME NEW r \in Requests, NEW e \in Elements, RegenerateInPlace(r, e) PROVE HookAfterPrune' /\ HookFindsNoRow'
    BY <1>5 DEF RegenerateInPlace
<1>6. ASSUME NEW r \in Requests, LookupElement(r) PROVE HookAfterPrune' /\ HookFindsNoRow'
    BY <1>6 DEF LookupElement
<1>7. ASSUME NEW r \in Requests, CreateBlank(r) PROVE HookAfterPrune' /\ HookFindsNoRow'
    BY <1>7 DEF CreateBlank
<1>8. ASSUME NEW r \in Requests, CreateBlankFails(r) PROVE HookAfterPrune' /\ HookFindsNoRow'
    BY <1>8 DEF CreateBlankFails, Finish
<1>9. ASSUME NEW r \in Requests, InsertJob(r) PROVE HookAfterPrune' /\ HookFindsNoRow'
    BY <1>9 DEF InsertJob, JobsSubmitted
<1>10. ASSUME NEW r \in Requests, InsertJobFails(r) PROVE HookAfterPrune' /\ HookFindsNoRow'
    BY <1>10 DEF InsertJobFails, Finish
<1>11. ASSUME NEW r \in Requests, SubmitJob(r) PROVE HookAfterPrune' /\ HookFindsNoRow'
    BY <1>11 DEF SubmitJob
<1>12. ASSUME NEW r \in Requests, SubmitJobFails(r) PROVE HookAfterPrune' /\ HookFindsNoRow'
    BY <1>12 DEF SubmitJobFails
<1>13. ASSUME NEW r \in Requests, RejectJob(r) PROVE HookAfterPrune' /\ HookFindsNoRow'
    BY <1>13 DEF RejectJob, Finish
<1>14. ASSUME NEW r \in Requests, LinkJob(r) PROVE HookAfterPrune' /\ HookFindsNoRow'
    BY <1>14 DEF LinkJob
<1>15. ASSUME NEW r \in Requests, NEW j \in Jobs, CancelJob(r, j) PROVE HookAfterPrune' /\ HookFindsNoRow'
    BY <1>15 DEF CancelJob
<1>16. ASSUME NEW r \in Requests, DiscardRow(r) PROVE HookAfterPrune' /\ HookFindsNoRow'
    BY <1>16 DEF DiscardRow, Finish
<1>17. ASSUME NEW r \in Requests, RevokeJob(r) PROVE HookAfterPrune' /\ HookFindsNoRow'
    BY <1>17 DEF RevokeJob
<1>18. ASSUME NEW r \in Requests, CancelStuckJobs(r) PROVE HookAfterPrune' /\ HookFindsNoRow'
    BY <1>18 DEF CancelStuckJobs, StuckJobs
<1>19. ASSUME NEW e \in Elements, DeleteElement(e) PROVE HookAfterPrune' /\ HookFindsNoRow'
    BY <1>19 DEF DeleteElement, JobsSubmitted
<1>20. ASSUME NEW r \in Requests, Disconnect(r) PROVE HookAfterPrune' /\ HookFindsNoRow'
    BY <1>20 DEF Disconnect
<1>21. ASSUME NEW j \in Jobs, PollTimeout(j) PROVE HookAfterPrune' /\ HookFindsNoRow'
    BY <1>21 DEF PollTimeout
<1>22. ASSUME NEW j \in Jobs, PollAgain(j) PROVE HookAfterPrune' /\ HookFindsNoRow'
    BY <1>22 DEF PollAgain
<1>23. ASSUME NEW j \in Jobs, PollError(j) PROVE HookAfterPrune' /\ HookFindsNoRow'
    BY <1>23 DEF PollError
<1>24. ASSUME NEW j \in Jobs, PollPending(j) PROVE HookAfterPrune' /\ HookFindsNoRow'
    BY <1>24 DEF PollPending, Answers
<1>25. ASSUME NEW j \in Jobs, PollFailed(j) PROVE HookAfterPrune' /\ HookFindsNoRow'
    BY <1>25 DEF PollFailed
<1>26. ASSUME NEW j \in Jobs, PollCompleted(j) PROVE HookAfterPrune' /\ HookFindsNoRow'
    BY <1>26 DEF PollCompleted
<1>27. ASSUME NEW j \in Jobs, SaveImage(j) PROVE HookAfterPrune' /\ HookFindsNoRow'
    BY <1>27 DEF SaveImage
<1>28. ASSUME NEW j \in Jobs, SaveImageFails(j) PROVE HookAfterPrune' /\ HookFindsNoRow'
    BY <1>28 DEF SaveImageFails
<1>29. ASSUME NEW j \in Jobs, RemoteStep(j) PROVE HookAfterPrune' /\ HookFindsNoRow'
    BY <1>29 DEF RemoteStep
<1>30. ASSUME Crash PROVE HookAfterPrune' /\ HookFindsNoRow'
    <2>1. \A t \in Threads : pc'[t] \notin UpdatePc \cup {"revoke"} /\ todo'[t] = {}
        <3>1. \A t \in Jobs : Live(t) \/ pc[t] \in {"none", "done", "dead"}
            BY DEF Live
        <3> QED
            BY <1>30, <3>1 DEF Crash
    <2> QED
        BY <1>30, <2>1 DEF Crash
<1>31. ASSUME BootCleanup PROVE HookAfterPrune' /\ HookFindsNoRow'
    BY <1>31 DEF BootCleanup, StuckJobs
<1>32. ASSUME UNCHANGED vars PROVE HookAfterPrune' /\ HookFindsNoRow'
    BY <1>32 DEF vars
<1> QED
    BY <1>1, <1>2, <1>3, <1>4, <1>5, <1>6, <1>7, <1>8, <1>9, <1>10, <1>11,
       <1>12, <1>13, <1>14, <1>15, <1>16, <1>17, <1>18, <1>19, <1>20, <1>21,
       <1>22, <1>23, <1>24, <1>25, <1>26, <1>27, <1>28, <1>29, <1>30, <1>31,
       <1>32
    DEF Next, Arrival, RequestStep, UpdateStep, PollReturns, PollerStep, BootStep

\* What UpdateStatus does, read job by job.
LEMMA UpdateStatusEffect ==
    ASSUME TypeOK, NEW t \in Threads, UpdateStatus(t)
    PROVE  /\ pc[t] = "status"
           /\ \A j \in Jobs :
                 row'[j] = IF j = cur[t].job /\ row[j] # "none" THEN cur[t].to ELSE row[j]
           /\ UNCHANGED abandoned
           /\ \/ /\ cur[t].to \in Terminal
                 /\ Goto(t, "prune") /\ UNCHANGED local
              \/ cur[t].to \notin Terminal /\ NextUpdate(t)
<1>1. row' = [row EXCEPT ![cur[t].job] = IF @ = "none" THEN @ ELSE cur[t].to]
    BY DEF UpdateStatus
<1>2. row \in [Jobs -> Status \cup {"none"}]
    BY DEF TypeOK
<1>3. \A j \in Jobs :
         row'[j] = IF j = cur[t].job /\ row[j] # "none" THEN cur[t].to ELSE row[j]
    BY <1>1, <1>2
<1> QED
    BY <1>3 DEF UpdateStatus, history

\* A queued or generating row is one CancelStuckJobs finds.
LEMMA StuckJobsComplete ==
    ASSUME NEW j \in Jobs, row[j] \in Active
    PROVE  \E u \in StuckJobs : u.job = j
<1>1. Upd(j, "cancelled") \in StuckJobs
    BY DEF StuckJobs
<1> QED
    BY <1>1 DEF Upd

\* Before the server opens, nobody else runs and no row is overlooked.
LEMMA StartupStep ==
    ASSUME TypeOK, JobsSubmitted, UpdatesOwned, StartupSettlesAll, [Next]_vars
    PROVE  StartupSettlesAll'
<1> USE ThreadsAssumption
    DEF TypeOK, Threads, Upd, UpdatePc, StartupSettlesAll, Serving, Live, Active, Terminal, Goto,
        table, store, local, history
<1>1. ASSUME NEW t \in Threads, UpdateStatus(t) PROVE StartupSettlesAll'
    <2>1. pc[t] = "status" /\ Boot \in Threads
        BY <1>1 DEF UpdateStatus
    <2>2. CASE t = Boot
        <3>1. cur[Boot].to \in Terminal
            BY <2>1, <2>2 DEF UpdatesOwned
        <3>2. Goto(Boot, "prune") /\ UNCHANGED local
            BY <1>1, <2>2, <3>1, UpdateStatusEffect
        <3>3. \A j \in Jobs : row'[j] \in Active => row[j] \in Active /\ j # cur[Boot].job
            BY <1>1, <2>2, <3>1, UpdateStatusEffect
        <3> QED
            BY <2>1, <2>2, <3>2, <3>3
    <2>3. CASE t # Boot
        <3>1. Serving
            BY <2>1, <2>3
        <3>2. pc'[Boot] = pc[Boot]
            BY <1>1, <2>1, <2>3, NextUpdateEffect DEF UpdateStatus
        <3> QED
            BY <3>1, <3>2
    <2> QED
        BY <2>2, <2>3
<1>2. ASSUME NEW t \in Threads, PruneJob(t) PROVE StartupSettlesAll'
    BY <1>2 DEF PruneJob
<1>3. ASSUME NEW t \in Threads, FireHook(t) PROVE StartupSettlesAll'
    BY <1>3, NextUpdateEffect, AfterUpdatesRest DEF FireHook, AfterUpdates
<1>4. ASSUME NEW r \in Requests, NEW e \in Elements, Generate(r, e) PROVE StartupSettlesAll'
    BY <1>4 DEF Generate
<1>5. ASSUME NEW r \in Requests, NEW e \in Elements, RegenerateInPlace(r, e) PROVE StartupSettlesAll'
    BY <1>5 DEF RegenerateInPlace
<1>6. ASSUME NEW r \in Requests, LookupElement(r) PROVE StartupSettlesAll'
    BY <1>6 DEF LookupElement
<1>7. ASSUME NEW r \in Requests, CreateBlank(r) PROVE StartupSettlesAll'
    BY <1>7 DEF CreateBlank
<1>8. ASSUME NEW r \in Requests, CreateBlankFails(r) PROVE StartupSettlesAll'
    BY <1>8 DEF CreateBlankFails, Finish
<1>9. ASSUME NEW r \in Requests, InsertJob(r) PROVE StartupSettlesAll'
    BY <1>9 DEF InsertJob
<1>10. ASSUME NEW r \in Requests, InsertJobFails(r) PROVE StartupSettlesAll'
    BY <1>10 DEF InsertJobFails, Finish
<1>11. ASSUME NEW r \in Requests, SubmitJob(r) PROVE StartupSettlesAll'
    BY <1>11 DEF SubmitJob
<1>12. ASSUME NEW r \in Requests, SubmitJobFails(r) PROVE StartupSettlesAll'
    BY <1>12 DEF SubmitJobFails
<1>13. ASSUME NEW r \in Requests, RejectJob(r) PROVE StartupSettlesAll'
    BY <1>13 DEF RejectJob, Finish
<1>14. ASSUME NEW r \in Requests, LinkJob(r) PROVE StartupSettlesAll'
    <2>1. Serving /\ cur[r].job # Boot
        BY <1>14 DEF LinkJob, JobsSubmitted, AtWork
    <2> QED
        BY <1>14, <2>1 DEF LinkJob
<1>15. ASSUME NEW r \in Requests, NEW j \in Jobs, CancelJob(r, j) PROVE StartupSettlesAll'
    BY <1>15 DEF CancelJob
<1>16. ASSUME NEW r \in Requests, DiscardRow(r) PROVE StartupSettlesAll'
    BY <1>16 DEF DiscardRow, Finish
<1>17. ASSUME NEW r \in Requests, RevokeJob(r) PROVE StartupSettlesAll'
    BY <1>17 DEF RevokeJob
<1>18. ASSUME NEW r \in Requests, CancelStuckJobs(r) PROVE StartupSettlesAll'
    BY <1>18 DEF CancelStuckJobs, StuckJobs
<1>19. ASSUME NEW e \in Elements, DeleteElement(e) PROVE StartupSettlesAll'
    BY <1>19 DEF DeleteElement
<1>20. ASSUME NEW r \in Requests, Disconnect(r) PROVE StartupSettlesAll'
    BY <1>20 DEF Disconnect
<1>21. ASSUME NEW j \in Jobs, PollTimeout(j) PROVE StartupSettlesAll'
    BY <1>21 DEF PollTimeout
<1>22. ASSUME NEW j \in Jobs, PollAgain(j) PROVE StartupSettlesAll'
    BY <1>22 DEF PollAgain
<1>23. ASSUME NEW j \in Jobs, PollError(j) PROVE StartupSettlesAll'
    BY <1>23 DEF PollError
<1>24. ASSUME NEW j \in Jobs, PollPending(j) PROVE StartupSettlesAll'
    BY <1>24 DEF PollPending, Answers
<1>25. ASSUME NEW j \in Jobs, PollFailed(j) PROVE StartupSettlesAll'
    BY <1>25 DEF PollFailed
<1>26. ASSUME NEW j \in Jobs, PollCompleted(j) PROVE StartupSettlesAll'
    BY <1>26 DEF PollCompleted
<1>27. ASSUME NEW j \in Jobs, SaveImage(j) PROVE StartupSettlesAll'
    BY <1>27 DEF SaveImage
<1>28. ASSUME NEW j \in Jobs, SaveImageFails(j) PROVE StartupSettlesAll'
    BY <1>28 DEF SaveImageFails
<1>29. ASSUME NEW j \in Jobs, RemoteStep(j) PROVE StartupSettlesAll'
    BY <1>29 DEF RemoteStep
<1>30. ASSUME Crash PROVE StartupSettlesAll'
    BY <1>30 DEF Crash
<1>31. ASSUME BootCleanup PROVE StartupSettlesAll'
    <2>1. CASE Goto(Boot, "serving")
        BY <2>1
    <2>2. ASSUME NEW u \in StuckJobs,
                 Goto(Boot, "status"),
                 cur' = [cur EXCEPT ![Boot] = u],
                 todo' = [todo EXCEPT ![Boot] = StuckJobs \ {u}]
          PROVE  StartupSettlesAll'
        <3>1. \A j \in Jobs : row[j] \in Active =>
                 u.job = j \/ \E w \in StuckJobs \ {u} : w.job = j
            BY StuckJobsComplete
        <3>2. pc[Boot] = "boot" /\ UNCHANGED row
            BY <1>31 DEF BootCleanup
        <3> QED
            BY <2>2, <3>1, <3>2
    <2> QED
        BY <1>31, <2>1, <2>2 DEF BootCleanup
<1>32. ASSUME UNCHANGED vars PROVE StartupSettlesAll'
    BY <1>32 DEF vars
<1> QED
    BY <1>1, <1>2, <1>3, <1>4, <1>5, <1>6, <1>7, <1>8, <1>9, <1>10, <1>11,
       <1>12, <1>13, <1>14, <1>15, <1>16, <1>17, <1>18, <1>19, <1>20, <1>21,
       <1>22, <1>23, <1>24, <1>25, <1>26, <1>27, <1>28, <1>29, <1>30, <1>31,
       <1>32
    DEF Next, Arrival, RequestStep, UpdateStep, PollReturns, PollerStep, BootStep

\* A queued or generating row always has somebody who will settle it.
LEMMA AttendedStep ==
    ASSUME TypeOK, JobsSubmitted, UpdatesOwned, HookAfterPrune, StartupSettlesAll,
           ActiveRowsAttended, [Next]_vars
    PROVE  ActiveRowsAttended'
<1> USE ThreadsAssumption
    DEF TypeOK, Threads, Upd, UpdatePc, ActiveRowsAttended, Submitting, Serving, Live, Active,
        Terminal, Goto, table, store, local, history
<1>1. ASSUME NEW t \in Threads, UpdateStatus(t) PROVE ActiveRowsAttended'
    <2> SUFFICES ASSUME NEW k \in Jobs, row'[k] \in Active
                 PROVE  (Live(k) \/ Submitting(k) \/ ~Serving \/ k \in abandoned)'
        OBVIOUS
    <2>1. pc[t] = "status" /\ UNCHANGED abandoned
        BY <1>1, UpdateStatusEffect
    <2>2. \/ /\ cur[t].to \in Terminal
             /\ Goto(t, "prune") /\ UNCHANGED local
          \/ cur[t].to \notin Terminal /\ NextUpdate(t)
        BY <1>1, UpdateStatusEffect
    <2>3. \A q \in Threads \ {t} : pc'[q] = pc[q] /\ cur'[q] = cur[q]
        BY <2>2, NextUpdateEffect
    <2>4. t \in Jobs => Live(t)'
        <3>1. CASE Goto(t, "prune")
            BY <3>1
        <3>2. CASE cur[t].to \notin Terminal /\ NextUpdate(t)
            BY <3>2, NextUpdateEffect DEF AfterUpdates
        <3> QED
            BY <2>2, <3>1, <3>2
    <2>5. t \notin Jobs => cur[t].to \in Terminal /\ Goto(t, "prune")
        BY <2>1, <2>2 DEF UpdatesOwned
    <2>6. CASE row[k] \in Active
        <3>1. CASE Live(k)
            BY <2>3, <2>4, <3>1
        <3>2. CASE Submitting(k)
            BY <2>1, <2>3, <3>2
        <3>3. CASE ~Serving
            BY <2>3, <2>5, <3>3
        <3> QED
            BY <2>1, <2>6, <3>1, <3>2, <3>3
    <2>7. CASE row[k] \notin Active
        <3>1. k = cur[t].job /\ cur[t].to \in Active
            BY <1>1, <2>7, UpdateStatusEffect
        <3>2. t \in Jobs /\ k = t
            BY <2>1, <2>5, <3>1 DEF UpdatesOwned
        <3> QED
            BY <2>4, <3>2
    <2> QED
        BY <2>6, <2>7
<1>2. ASSUME NEW t \in Threads, PruneJob(t) PROVE ActiveRowsAttended'
    BY <1>2 DEF PruneJob
<1>3. ASSUME NEW t \in Threads, FireHook(t) PROVE ActiveRowsAttended'
    <2> SUFFICES ASSUME NEW k \in Jobs, row'[k] \in Active
                 PROVE  (Live(k) \/ Submitting(k) \/ ~Serving \/ k \in abandoned)'
        OBVIOUS
    <2>1. pc[t] = "hook" /\ NextUpdate(t) /\ UNCHANGED <<row, abandoned>>
        BY <1>3 DEF FireHook
    <2>2. \A q \in Threads \ {t} : pc'[q] = pc[q] /\ cur'[q] = cur[q]
        BY <2>1, NextUpdateEffect
    <2>3. k # t
        BY <2>1 DEF UpdatesOwned, HookAfterPrune
    <2>4. CASE Live(k)
        BY <2>2, <2>3, <2>4
    <2>5. CASE Submitting(k)
        BY <2>1, <2>2, <2>5
    <2>6. CASE ~Serving
        <3>1. t = Boot => pc'[t] = "status"
            BY <2>1, <2>6, NextUpdateEffect DEF StartupSettlesAll
        <3> QED
            BY <2>2, <2>6, <3>1
    <2> QED
        BY <2>1, <2>4, <2>5, <2>6
<1>4. ASSUME NEW r \in Requests, NEW e \in Elements, Generate(r, e) PROVE ActiveRowsAttended'
    BY <1>4 DEF Generate
<1>5. ASSUME NEW r \in Requests, NEW e \in Elements, RegenerateInPlace(r, e) PROVE ActiveRowsAttended'
    BY <1>5 DEF RegenerateInPlace
<1>6. ASSUME NEW r \in Requests, LookupElement(r) PROVE ActiveRowsAttended'
    BY <1>6 DEF LookupElement
<1>7. ASSUME NEW r \in Requests, CreateBlank(r) PROVE ActiveRowsAttended'
    BY <1>7 DEF CreateBlank
<1>8. ASSUME NEW r \in Requests, CreateBlankFails(r) PROVE ActiveRowsAttended'
    BY <1>8 DEF CreateBlankFails, Finish
<1>9. ASSUME NEW r \in Requests, InsertJob(r) PROVE ActiveRowsAttended'
    BY <1>9 DEF InsertJob
<1>10. ASSUME NEW r \in Requests, InsertJobFails(r) PROVE ActiveRowsAttended'
    BY <1>10 DEF InsertJobFails, Finish
<1>11. ASSUME NEW r \in Requests, SubmitJob(r) PROVE ActiveRowsAttended'
    BY <1>11 DEF SubmitJob
<1>12. ASSUME NEW r \in Requests, SubmitJobFails(r) PROVE ActiveRowsAttended'
    BY <1>12 DEF SubmitJobFails
<1>13. ASSUME NEW r \in Requests, RejectJob(r) PROVE ActiveRowsAttended'
    BY <1>13 DEF RejectJob, Finish
<1>14. ASSUME NEW r \in Requests, LinkJob(r) PROVE ActiveRowsAttended'
    <2>1. cur[r].job \in Jobs
        BY <1>14 DEF LinkJob, JobsSubmitted, AtWork
    <2>2. /\ pc' = [pc EXCEPT ![r] = "idle", ![cur[r].job] = "check"]
          /\ cur' = [cur EXCEPT ![r] = Idle]
          /\ UNCHANGED <<row, abandoned>>
        BY <1>14 DEF LinkJob
    <2>3. pc'[cur[r].job] = "check"
        BY <2>1, <2>2
    <2>4. \A q \in Threads : q # r /\ q # cur[r].job => pc'[q] = pc[q] /\ cur'[q] = cur[q]
        BY <2>2
    <2>5. \A k \in Jobs : Live(k) => Live(k)'
        <3> SUFFICES ASSUME NEW k \in Jobs, Live(k) PROVE Live(k)'
            OBVIOUS
        <3>1. k # r /\ k \in Threads
            OBVIOUS
        <3> QED
            BY <2>3, <2>4, <3>1
    <2>6. ASSUME NEW k \in Jobs, Submitting(k) PROVE Live(k)' \/ Submitting(k)'
        <3>1. PICK q \in Requests :
                 pc[q] \in {"submit", "reject", "link"} /\ cur[q].job = k
            BY <2>6
        <3>2. CASE q = r
            BY <2>3, <3>1, <3>2
        <3>3. CASE q # r
            BY <2>1, <2>4, <3>1, <3>3
        <3> QED
            BY <3>2, <3>3
    <2>7. pc'[Boot] = pc[Boot]
        BY <2>1, <2>4
    <2> QED
        BY <2>2, <2>5, <2>6, <2>7
<1>15. ASSUME NEW r \in Requests, NEW j \in Jobs, CancelJob(r, j) PROVE ActiveRowsAttended'
    BY <1>15 DEF CancelJob
<1>16. ASSUME NEW r \in Requests, DiscardRow(r) PROVE ActiveRowsAttended'
    BY <1>16 DEF DiscardRow, Finish
<1>17. ASSUME NEW r \in Requests, RevokeJob(r) PROVE ActiveRowsAttended'
    BY <1>17 DEF RevokeJob
<1>18. ASSUME NEW r \in Requests, CancelStuckJobs(r) PROVE ActiveRowsAttended'
    BY <1>18 DEF CancelStuckJobs, StuckJobs
<1>19. ASSUME NEW e \in Elements, DeleteElement(e) PROVE ActiveRowsAttended'
    BY <1>19 DEF DeleteElement
<1>20. ASSUME NEW r \in Requests, Disconnect(r) PROVE ActiveRowsAttended'
    BY <1>20 DEF Disconnect
<1>21. ASSUME NEW j \in Jobs, PollTimeout(j) PROVE ActiveRowsAttended'
    BY <1>21 DEF PollTimeout
<1>22. ASSUME NEW j \in Jobs, PollAgain(j) PROVE ActiveRowsAttended'
    BY <1>22 DEF PollAgain
<1>23. ASSUME NEW j \in Jobs, PollError(j) PROVE ActiveRowsAttended'
    BY <1>23 DEF PollError
<1>24. ASSUME NEW j \in Jobs, PollPending(j) PROVE ActiveRowsAttended'
    BY <1>24 DEF PollPending, Answers
<1>25. ASSUME NEW j \in Jobs, PollFailed(j) PROVE ActiveRowsAttended'
    BY <1>25 DEF PollFailed
<1>26. ASSUME NEW j \in Jobs, PollCompleted(j) PROVE ActiveRowsAttended'
    BY <1>26 DEF PollCompleted
<1>27. ASSUME NEW j \in Jobs, SaveImage(j) PROVE ActiveRowsAttended'
    BY <1>27 DEF SaveImage
<1>28. ASSUME NEW j \in Jobs, SaveImageFails(j) PROVE ActiveRowsAttended'
    BY <1>28 DEF SaveImageFails
<1>29. ASSUME NEW j \in Jobs, RemoteStep(j) PROVE ActiveRowsAttended'
    BY <1>29 DEF RemoteStep
<1>30. ASSUME Crash PROVE ActiveRowsAttended'
    BY <1>30 DEF Crash
<1>31. ASSUME BootCleanup PROVE ActiveRowsAttended'
    <2>1. CASE StuckJobs = {} /\ UNCHANGED row
        <3>1. \A j \in Jobs : row[j] \notin Active
            BY <2>1, StuckJobsComplete
        <3> QED
            BY <2>1, <3>1
    <2>2. CASE Goto(Boot, "status")
        BY <2>2
    <2> QED
        BY <1>31, <2>1, <2>2 DEF BootCleanup
<1>32. ASSUME UNCHANGED vars PROVE ActiveRowsAttended'
    BY <1>32 DEF vars
<1> QED
    BY <1>1, <1>2, <1>3, <1>4, <1>5, <1>6, <1>7, <1>8, <1>9, <1>10, <1>11,
       <1>12, <1>13, <1>14, <1>15, <1>16, <1>17, <1>18, <1>19, <1>20, <1>21,
       <1>22, <1>23, <1>24, <1>25, <1>26, <1>27, <1>28, <1>29, <1>30, <1>31,
       <1>32
    DEF Next, Arrival, RequestStep, UpdateStep, PollReturns, PollerStep, BootStep

\* The two action properties, as what one step may do.
DeletedRowsStay ==
    \A j \in Jobs : target[j] # NoElement /\ row[j] = "none" => row'[j] = "none"

OpensClean == ~Serving /\ Serving' => \A j \in Jobs : row'[j] \notin Active

\* No step brings a deleted row back.
LEMMA RebornStep ==
    ASSUME TypeOK, [Next]_vars
    PROVE  DeletedRowsStay
<1> USE ThreadsAssumption
    DEF DeletedRowsStay, TypeOK, Threads, Goto, table, store, local, history
<1>1. ASSUME NEW t \in Threads, UpdateStatus(t) PROVE DeletedRowsStay
    BY <1>1, UpdateStatusEffect
<1>2. ASSUME NEW t \in Threads, PruneJob(t) PROVE DeletedRowsStay
    BY <1>2 DEF PruneJob
<1>3. ASSUME NEW t \in Threads, FireHook(t) PROVE DeletedRowsStay
    BY <1>3 DEF FireHook, AfterUpdates
<1>4. ASSUME NEW r \in Requests, NEW e \in Elements, Generate(r, e) PROVE DeletedRowsStay
    BY <1>4 DEF Generate
<1>5. ASSUME NEW r \in Requests, NEW e \in Elements, RegenerateInPlace(r, e) PROVE DeletedRowsStay
    BY <1>5 DEF RegenerateInPlace
<1>6. ASSUME NEW r \in Requests, LookupElement(r) PROVE DeletedRowsStay
    BY <1>6 DEF LookupElement
<1>7. ASSUME NEW r \in Requests, CreateBlank(r) PROVE DeletedRowsStay
    BY <1>7 DEF CreateBlank
<1>8. ASSUME NEW r \in Requests, CreateBlankFails(r) PROVE DeletedRowsStay
    BY <1>8 DEF CreateBlankFails, Finish
<1>9. ASSUME NEW r \in Requests, InsertJob(r) PROVE DeletedRowsStay
    BY <1>9 DEF InsertJob
<1>10. ASSUME NEW r \in Requests, InsertJobFails(r) PROVE DeletedRowsStay
    BY <1>10 DEF InsertJobFails, Finish
<1>11. ASSUME NEW r \in Requests, SubmitJob(r) PROVE DeletedRowsStay
    BY <1>11 DEF SubmitJob
<1>12. ASSUME NEW r \in Requests, SubmitJobFails(r) PROVE DeletedRowsStay
    BY <1>12 DEF SubmitJobFails
<1>13. ASSUME NEW r \in Requests, RejectJob(r) PROVE DeletedRowsStay
    BY <1>13 DEF RejectJob, Finish
<1>14. ASSUME NEW r \in Requests, LinkJob(r) PROVE DeletedRowsStay
    BY <1>14 DEF LinkJob
<1>15. ASSUME NEW r \in Requests, NEW j \in Jobs, CancelJob(r, j) PROVE DeletedRowsStay
    BY <1>15 DEF CancelJob
<1>16. ASSUME NEW r \in Requests, DiscardRow(r) PROVE DeletedRowsStay
    BY <1>16 DEF DiscardRow, Finish
<1>17. ASSUME NEW r \in Requests, RevokeJob(r) PROVE DeletedRowsStay
    BY <1>17 DEF RevokeJob
<1>18. ASSUME NEW r \in Requests, CancelStuckJobs(r) PROVE DeletedRowsStay
    BY <1>18 DEF CancelStuckJobs, StuckJobs
<1>19. ASSUME NEW e \in Elements, DeleteElement(e) PROVE DeletedRowsStay
    BY <1>19 DEF DeleteElement
<1>20. ASSUME NEW r \in Requests, Disconnect(r) PROVE DeletedRowsStay
    BY <1>20 DEF Disconnect
<1>21. ASSUME NEW j \in Jobs, PollTimeout(j) PROVE DeletedRowsStay
    BY <1>21 DEF PollTimeout
<1>22. ASSUME NEW j \in Jobs, PollAgain(j) PROVE DeletedRowsStay
    BY <1>22 DEF PollAgain
<1>23. ASSUME NEW j \in Jobs, PollError(j) PROVE DeletedRowsStay
    BY <1>23 DEF PollError
<1>24. ASSUME NEW j \in Jobs, PollPending(j) PROVE DeletedRowsStay
    BY <1>24 DEF PollPending, Answers
<1>25. ASSUME NEW j \in Jobs, PollFailed(j) PROVE DeletedRowsStay
    BY <1>25 DEF PollFailed
<1>26. ASSUME NEW j \in Jobs, PollCompleted(j) PROVE DeletedRowsStay
    BY <1>26 DEF PollCompleted
<1>27. ASSUME NEW j \in Jobs, SaveImage(j) PROVE DeletedRowsStay
    BY <1>27 DEF SaveImage
<1>28. ASSUME NEW j \in Jobs, SaveImageFails(j) PROVE DeletedRowsStay
    BY <1>28 DEF SaveImageFails
<1>29. ASSUME NEW j \in Jobs, RemoteStep(j) PROVE DeletedRowsStay
    BY <1>29 DEF RemoteStep
<1>30. ASSUME Crash PROVE DeletedRowsStay
    BY <1>30 DEF Crash
<1>31. ASSUME BootCleanup PROVE DeletedRowsStay
    BY <1>31 DEF BootCleanup, StuckJobs
<1>32. ASSUME UNCHANGED vars PROVE DeletedRowsStay
    BY <1>32 DEF vars
<1> QED
    BY <1>1, <1>2, <1>3, <1>4, <1>5, <1>6, <1>7, <1>8, <1>9, <1>10, <1>11,
       <1>12, <1>13, <1>14, <1>15, <1>16, <1>17, <1>18, <1>19, <1>20, <1>21,
       <1>22, <1>23, <1>24, <1>25, <1>26, <1>27, <1>28, <1>29, <1>30, <1>31,
       <1>32
    DEF Next, Arrival, RequestStep, UpdateStep, PollReturns, PollerStep, BootStep

\* The server does not open while an active row is left.
LEMMA OpeningStep ==
    ASSUME TypeOK, JobsSubmitted, UpdatesOwned, StartupSettlesAll, [Next]_vars
    PROVE  OpensClean
<1> USE ThreadsAssumption
    DEF OpensClean, TypeOK, Threads, UpdatePc, Serving, Active, Goto, table, store, local,
        history
<1>1. ASSUME NEW t \in Threads, UpdateStatus(t) PROVE OpensClean
    <2>1. pc[t] = "status"
        BY <1>1, UpdateStatusEffect
    <2>2. CASE t = Boot
        <3>1. Goto(Boot, "prune")
            BY <1>1, <2>1, <2>2, UpdateStatusEffect DEF UpdatesOwned, Terminal
        <3> QED
            BY <3>1
    <2>3. CASE t # Boot
        BY <1>1, <2>3, NextUpdateEffect DEF UpdateStatus
    <2> QED
        BY <2>2, <2>3
<1>2. ASSUME NEW t \in Threads, PruneJob(t) PROVE OpensClean
    BY <1>2 DEF PruneJob
<1>3. ASSUME NEW t \in Threads, FireHook(t) PROVE OpensClean
    <2>1. pc[t] = "hook" /\ NextUpdate(t) /\ UNCHANGED row
        BY <1>3 DEF FireHook
    <2>2. CASE t = Boot
        BY <2>1, <2>2, NextUpdateEffect DEF StartupSettlesAll
    <2>3. CASE t # Boot
        BY <2>1, <2>3, NextUpdateEffect
    <2> QED
        BY <2>2, <2>3
<1>4. ASSUME NEW r \in Requests, NEW e \in Elements, Generate(r, e) PROVE OpensClean
    BY <1>4 DEF Generate
<1>5. ASSUME NEW r \in Requests, NEW e \in Elements, RegenerateInPlace(r, e) PROVE OpensClean
    BY <1>5 DEF RegenerateInPlace
<1>6. ASSUME NEW r \in Requests, LookupElement(r) PROVE OpensClean
    BY <1>6 DEF LookupElement
<1>7. ASSUME NEW r \in Requests, CreateBlank(r) PROVE OpensClean
    BY <1>7 DEF CreateBlank
<1>8. ASSUME NEW r \in Requests, CreateBlankFails(r) PROVE OpensClean
    BY <1>8 DEF CreateBlankFails, Finish
<1>9. ASSUME NEW r \in Requests, InsertJob(r) PROVE OpensClean
    BY <1>9 DEF InsertJob
<1>10. ASSUME NEW r \in Requests, InsertJobFails(r) PROVE OpensClean
    BY <1>10 DEF InsertJobFails, Finish
<1>11. ASSUME NEW r \in Requests, SubmitJob(r) PROVE OpensClean
    BY <1>11 DEF SubmitJob
<1>12. ASSUME NEW r \in Requests, SubmitJobFails(r) PROVE OpensClean
    BY <1>12 DEF SubmitJobFails
<1>13. ASSUME NEW r \in Requests, RejectJob(r) PROVE OpensClean
    BY <1>13 DEF RejectJob, Finish
<1>14. ASSUME NEW r \in Requests, LinkJob(r) PROVE OpensClean
    <2>1. cur[r].job \in Jobs
        BY <1>14 DEF LinkJob, JobsSubmitted, AtWork
    <2> QED
        BY <1>14, <2>1 DEF LinkJob
<1>15. ASSUME NEW r \in Requests, NEW j \in Jobs, CancelJob(r, j) PROVE OpensClean
    BY <1>15 DEF CancelJob
<1>16. ASSUME NEW r \in Requests, DiscardRow(r) PROVE OpensClean
    BY <1>16 DEF DiscardRow, Finish
<1>17. ASSUME NEW r \in Requests, RevokeJob(r) PROVE OpensClean
    BY <1>17 DEF RevokeJob
<1>18. ASSUME NEW r \in Requests, CancelStuckJobs(r) PROVE OpensClean
    BY <1>18 DEF CancelStuckJobs, StuckJobs
<1>19. ASSUME NEW e \in Elements, DeleteElement(e) PROVE OpensClean
    BY <1>19 DEF DeleteElement
<1>20. ASSUME NEW r \in Requests, Disconnect(r) PROVE OpensClean
    BY <1>20 DEF Disconnect
<1>21. ASSUME NEW j \in Jobs, PollTimeout(j) PROVE OpensClean
    BY <1>21 DEF PollTimeout
<1>22. ASSUME NEW j \in Jobs, PollAgain(j) PROVE OpensClean
    BY <1>22 DEF PollAgain
<1>23. ASSUME NEW j \in Jobs, PollError(j) PROVE OpensClean
    BY <1>23 DEF PollError
<1>24. ASSUME NEW j \in Jobs, PollPending(j) PROVE OpensClean
    BY <1>24 DEF PollPending, Answers
<1>25. ASSUME NEW j \in Jobs, PollFailed(j) PROVE OpensClean
    BY <1>25 DEF PollFailed
<1>26. ASSUME NEW j \in Jobs, PollCompleted(j) PROVE OpensClean
    BY <1>26 DEF PollCompleted
<1>27. ASSUME NEW j \in Jobs, SaveImage(j) PROVE OpensClean
    BY <1>27 DEF SaveImage
<1>28. ASSUME NEW j \in Jobs, SaveImageFails(j) PROVE OpensClean
    BY <1>28 DEF SaveImageFails
<1>29. ASSUME NEW j \in Jobs, RemoteStep(j) PROVE OpensClean
    BY <1>29 DEF RemoteStep
<1>30. ASSUME Crash PROVE OpensClean
    BY <1>30 DEF Crash
<1>31. ASSUME BootCleanup PROVE OpensClean
    <2>1. CASE StuckJobs = {} /\ UNCHANGED row
        <3>1. \A k \in Jobs : row[k] \notin Active
            BY <2>1, StuckJobsComplete
        <3> QED
            BY <2>1, <3>1
    <2>2. CASE Goto(Boot, "status")
        BY <2>2
    <2> QED
        BY <1>31, <2>1, <2>2 DEF BootCleanup
<1>32. ASSUME UNCHANGED vars PROVE OpensClean
    BY <1>32 DEF vars
<1> QED
    BY <1>1, <1>2, <1>3, <1>4, <1>5, <1>6, <1>7, <1>8, <1>9, <1>10, <1>11,
       <1>12, <1>13, <1>14, <1>15, <1>16, <1>17, <1>18, <1>19, <1>20, <1>21,
       <1>22, <1>23, <1>24, <1>25, <1>26, <1>27, <1>28, <1>29, <1>30, <1>31,
       <1>32
    DEF Next, Arrival, RequestStep, UpdateStep, PollReturns, PollerStep, BootStep

-----------------------------------------------------------------------------
\* An empty jobs table and idle threads satisfy the invariant.
LEMMA InitIInv == Init => IInv
<1> SUFFICES ASSUME Init PROVE IInv
    OBVIOUS
<1> USE ThreadsAssumption, ParametersAssumption DEF Init, Threads
<1>1. TypeOK
    BY DEF TypeOK, Status, Active, Terminal, Update, Idle, RequestPc, PollerPc, BootPc,
           StartJobPc, UpdatePc
<1>2. /\ \A j \in Jobs : row[j] = "none" /\ pc[j] = "none" /\ fired[j] = 0
      /\ \A t \in Threads : pc[t] \in {"serving", "none", "idle"} /\ todo[t] = {}
      /\ \A r \in Requests : pc[r] = "idle"
    <2>1. \A j \in Jobs : row[j] = "none" /\ fired[j] = 0
        OBVIOUS
    <2>2. \A t \in Threads : pc[t] \in {"serving", "none", "idle"} /\ todo[t] = {}
        OBVIOUS
    <2>3. (\A j \in Jobs : pc[j] = "none") /\ \A r \in Requests : pc[r] = "idle"
        OBVIOUS
    <2> QED
        BY <2>1, <2>2, <2>3
<1>3. JobsSubmitted
    <2>1. \A t \in Threads : pc[t] \notin AtWork
        BY <1>2 DEF AtWork, UpdatePc
    <2> HIDE DEF Init, Threads
    <2>2. \A r \in Requests : pc[r] \notin {"lookup", "create", "insert"}
        BY <1>2
    <2> QED
        BY <1>2, <2>1, <2>2 DEF JobsSubmitted
<1>4. UpdatesOwned /\ HookAfterPrune
    BY <1>2 DEF UpdatePc, UpdatesOwned, HookAfterPrune
<1>5. HookFindsNoRow /\ StartupSettlesAll /\ ActiveRowsAttended
    BY DEF HookFindsNoRow, StartupSettlesAll, Serving, ActiveRowsAttended, Active
<1> QED
    BY <1>1, <1>3, <1>4, <1>5 DEF IInv

\* Every step, and every stutter, preserves it: the lemmas above, part by part.
LEMMA NextIInv == IInv /\ [Next]_vars => IInv'
BY TypeStep, SubmittedStep, OwnedStep, HookStep, StartupStep, AttendedStep DEF IInv

\* The invariant is inductive: it holds in every reachable state.
THEOREM Invariance == Spec => []IInv
BY InitIInv, NextIInv, PTL DEF Spec

\* Every variable keeps its type.
THEOREM TypeCorrect == Spec => []TypeOK
<1>1. IInv => TypeOK
    BY DEF IInv
<1> QED
    BY <1>1, Invariance, PTL

\* No queued or generating row is ever left without a thread that will settle it
\* (StartJob, pollJob, SyncAndCleanup), the abandoned submissions apart.
THEOREM RowsAttended == Spec => []ActiveRowsAttended
<1>1. IInv => ActiveRowsAttended
    BY DEF IInv
<1> QED
    BY <1>1, Invariance, PTL

\* When OnJobTerminal has been called for a job, its row is gone for good
\* (updateJobStatus prunes first, and no UPDATE brings a row back).
THEOREM HookAfterRow == Spec => []HookFindsNoRow
<1>1. IInv => HookFindsNoRow
    BY DEF IInv
<1> QED
    BY <1>1, Invariance, PTL

\* A row that was deleted never comes back, whatever thread is late.
THEOREM NoRebirth == Spec => RowNeverReborn
<1>1. IInv /\ [Next]_vars =>
         [\A j \in Jobs :
             target[j] # NoElement /\ row[j] = "none" => row'[j] = "none"]_vars
    BY RebornStep DEF IInv, DeletedRowsStay
<1> QED
    BY <1>1, Invariance, PTL DEF Spec, RowNeverReborn

\* When the server opens after a restart, the previous process has left no
\* queued or generating row (SyncAndCleanup, CancelStuckJobs).
THEOREM StartupCleans == Spec => StartupLeavesNoActiveRow
<1>1. IInv /\ [Next]_vars =>
         [~Serving /\ Serving' => \A j \in Jobs : row'[j] \notin Active]_vars
    BY OpeningStep DEF IInv, OpensClean
<1> QED
    BY <1>1, Invariance, PTL DEF Spec, StartupLeavesNoActiveRow

-----------------------------------------------------------------------------
(* Pruning, hooks and pictures.                                            *)

\* What a thread in an updateJobStatus call leaves alone.
Alone(t) ==
    /\ \A q \in Threads \ {t} : pc'[q] = pc[q] /\ cur'[q] = cur[q] /\ todo'[q] = todo[q]
    /\ UNCHANGED <<target, store, remote, crashes, erased, abandoned, arg>>
    /\ \A k \in Jobs : k # cur[t].job =>
           row'[k] = row[k] /\ linked'[k] = linked[k] /\ fired'[k] = fired[k]

\* A settling UPDATE leads to the DELETE, another one ends a poller's round.
LEMMA StatusEffect ==
    ASSUME TypeOK, UpdatesOwned, NEW t \in Threads, UpdateStatus(t)
    PROVE  /\ Alone(t) /\ pc[t] = "status" /\ fired' = fired /\ linked' = linked
           /\ \A j \in Jobs : row'[j] = "none" <=> row[j] = "none"
           /\ \/ /\ cur[t].to \in Terminal /\ pc'[t] = "prune"
                 /\ cur'[t] = cur[t] /\ todo'[t] = todo[t]
              \/ /\ cur[t].to \notin Terminal /\ t \in Jobs
                 /\ \/ pc'[t] = "check" /\ todo[t] = {} /\ todo'[t] = {}
                    \/ /\ pc'[t] = "status" /\ cur'[t] \in todo[t]
                       /\ todo'[t] = todo[t] \ {cur'[t]}
<1> USE DEF Threads, Alone
<1>1. /\ pc[t] = "status"
      /\ \A j \in Jobs :
             row'[j] = IF j = cur[t].job /\ row[j] # "none" THEN cur[t].to ELSE row[j]
      /\ \/ cur[t].to \in Terminal /\ Goto(t, "prune") /\ UNCHANGED local
         \/ cur[t].to \notin Terminal /\ NextUpdate(t)
    BY UpdateStatusEffect
<1>2. UNCHANGED <<linked, target, store, remote, crashes, history>>
    BY DEF UpdateStatus
<1>3. \A j \in Jobs : row'[j] = "none" <=> row[j] = "none"
  <2>1. cur[t] \in Update \cup {Idle}
    BY DEF TypeOK
  <2>2. cur[t].to # "none"
    BY <2>1 DEF Update, Idle, Status, Active, Terminal
  <2> QED
    BY <1>1, <2>2
<1>4. CASE cur[t].to \in Terminal
    BY <1>1, <1>2, <1>3, <1>4 DEF Goto, local, history, TypeOK
<1>5. CASE cur[t].to \notin Terminal
  <2>1. t \in Jobs
    BY <1>1, <1>5 DEF UpdatesOwned, UpdatePc
  <2>2. AfterUpdates(t) = "check"
    BY <2>1, <1>5 DEF AfterUpdates
  <2> QED
    BY <1>1, <1>2, <1>3, <1>5, <2>1, <2>2, NextUpdateEffect DEF history
<1> QED
    BY <1>4, <1>5

\* The DELETE leads to the hook.
LEMMA PruneEffect ==
    ASSUME TypeOK, NEW t \in Threads, PruneJob(t)
    PROVE  /\ Alone(t) /\ pc[t] = "prune" /\ fired' = fired
           /\ \A j \in Jobs : j = cur[t].job => row'[j] = "none" /\ ~linked'[j]
           /\ pc'[t] = "hook" /\ cur'[t] = cur[t] /\ todo'[t] = todo[t]
    BY DEF TypeOK, Threads, Alone, PruneJob, Goto, local, history

\* The hook is followed by the next settling call or by the end of the loop.
LEMMA HookEffect ==
    ASSUME TypeOK, UpdatesOwned, NEW t \in Threads, FireHook(t)
    PROVE  /\ Alone(t) /\ pc[t] = "hook" /\ row' = row /\ linked' = linked
           /\ \A j \in Jobs : fired[j] # 0 => fired'[j] # 0
           /\ \A j \in Jobs :
                  j = cur[t].job /\ target[j] # NoElement /\ Exists(target[j]) =>
                      fired'[j] # 0
           /\ \/ /\ todo[t] = {} /\ todo'[t] = {}
                 /\ \/ t \in Jobs /\ cur[t].job = t /\ pc'[t] \in {"done", "check"}
                    \/ t \notin Jobs /\ pc'[t] \in {"serving", "idle"}
              \/ /\ pc'[t] = "status" /\ cur'[t] \in todo[t]
                 /\ todo'[t] = todo[t] \ {cur'[t]}
<1> USE DEF Threads, Alone
<1>1. /\ pc[t] = "hook" /\ NextUpdate(t)
      /\ UNCHANGED <<table, target, store, remote, crashes, erased, abandoned>>
    BY DEF FireHook
<1>2. /\ \A j \in Jobs : j # cur[t].job => fired'[j] = fired[j]
      /\ \A j \in Jobs : fired[j] # 0 => fired'[j] # 0
      /\ \A j \in Jobs :
             j = cur[t].job /\ target[j] # NoElement /\ Exists(target[j]) => fired'[j] # 0
    BY DEF FireHook, TypeOK
<1>3. t \in Jobs => cur[t].job = t
    BY <1>1 DEF UpdatesOwned, UpdatePc
<1>4. AfterUpdates(t) \in {"done", "check", "serving", "idle"}
      /\ (t \in Jobs <=> AfterUpdates(t) \in {"done", "check"})
    BY AfterUpdatesRest
<1> QED
    BY <1>1, <1>2, <1>3, <1>4, NextUpdateEffect DEF table

\* What the steps of an updateJobStatus call have in common.
LEMMA UpdateEffect ==
    ASSUME TypeOK, UpdatesOwned, NEW t \in Threads, UpdateStep(t)
    PROVE  /\ Alone(t)
           /\ pc[t] \in UpdatePc
           /\ pc'[t] \in UpdatePc \cup {"done", "check", "serving", "idle"}
           /\ pc'[t] \in {"done", "check"} => t \in Jobs
           /\ pc'[t] = "done" => pc[t] = "hook" /\ cur[t].job = t
           /\ pc'[t] \notin UpdatePc => todo'[t] = {}
           /\ \A u \in todo'[t] : u \in todo[t]
           /\ cur'[t] \in todo[t] \/ cur'[t] = cur[t] \/ pc'[t] \notin UpdatePc
           /\ \A j \in Jobs : linked'[j] => linked[j]
           /\ \A j \in Jobs : fired[j] # 0 => fired'[j] # 0
           /\ \A j \in Jobs : row[j] = "none" => row'[j] = "none"
<1>1. CASE UpdateStatus(t)
    BY <1>1, StatusEffect DEF UpdatePc
<1>2. CASE PruneJob(t)
  <2>1. \A j \in Jobs : j # cur[t].job => row'[j] = row[j] /\ linked'[j] = linked[j]
    BY <1>2, PruneEffect DEF Alone
  <2> QED
    BY <1>2, <2>1, PruneEffect DEF UpdatePc
<1>3. CASE FireHook(t)
    BY <1>3, HookEffect DEF UpdatePc
<1> QED
    BY <1>1, <1>2, <1>3 DEF UpdateStep

\* These steps leave a submission to its request.
LEMMA SubmitterUpdate ==
    ASSUME TypeOK, JobsSubmitted, UpdatesOwned, TodoWhileUpdating, OneSubmitter,
           NEW t \in Threads, UpdateStep(t)
    PROVE  TodoWhileUpdating' /\ OneSubmitter'
<1>1. /\ Alone(t)
      /\ pc[t] \in UpdatePc
      /\ pc'[t] \in UpdatePc \cup {"done", "check", "serving", "idle"}
      /\ pc'[t] \notin UpdatePc => todo'[t] = {}
      /\ \A j \in Jobs : linked'[j] => linked[j]
    BY UpdateEffect
<1>2. TodoWhileUpdating'
    BY <1>1 DEF TodoWhileUpdating, Alone
<1>3. ASSUME NEW r \in Requests, pc'[r] \in {"submit", "reject", "link"}
      PROVE  r # t /\ r \in Threads /\ pc'[r] = pc[r] /\ cur'[r] = cur[r]
    BY <1>1, <1>3 DEF Alone, Threads, UpdatePc
<1>4. \A r \in Requests : pc[r] \in {"submit", "reject", "link"} => cur[r].job \in Jobs
    BY DEF JobsSubmitted, Threads, AtWork
<1>5. OneSubmitter'
  <2>1. \A j \in Jobs : pc[j] = "none" => pc'[j] = "none"
    BY <1>1 DEF Alone, Threads, UpdatePc
  <2> QED
    BY <1>1, <1>3, <1>4, <2>1 DEF OneSubmitter, Alone
<1> QED
    BY <1>2, <1>5

\* These steps end a poller only when its job is pruned and announced.
LEMMA PictureUpdate ==
    ASSUME TypeOK, JobsSubmitted, UpdatesOwned, HookAfterPrune, ElementsOutlast, PollersFinish,
           SavesCompleted, ImageOfCompletedJob, NEW t \in Threads, UpdateStep(t)
    PROVE  ElementsOutlast' /\ PollersFinish' /\ SavesCompleted' /\ ImageOfCompletedJob'
<1>1. /\ Alone(t)
      /\ pc[t] \in UpdatePc
      /\ pc'[t] \in UpdatePc \cup {"done", "check", "serving", "idle"}
      /\ pc'[t] = "done" => pc[t] = "hook" /\ cur[t].job = t
      /\ \A j \in Jobs : fired[j] # 0 => fired'[j] # 0
      /\ \A j \in Jobs : row[j] = "none" => row'[j] = "none"
    BY UpdateEffect
<1>2. ElementsOutlast'
    BY <1>1 DEF ElementsOutlast, Alone, UpdatePc, Threads, store
<1>3. SavesCompleted' /\ ImageOfCompletedJob'
    BY <1>1 DEF SavesCompleted, ImageOfCompletedJob, Exists, Alone, UpdatePc, Threads, store
<1>4. PollersFinish'
  <2> SUFFICES ASSUME NEW j \in Jobs, pc'[j] = "done"
               PROVE  row'[j] = "none" /\ (fired'[j] # 0 \/ target[j] \in erased)
    BY <1>1 DEF PollersFinish, Alone
  <2>1. CASE j # t
    BY <1>1, <2>1 DEF PollersFinish, Alone, Threads
  <2>2. CASE j = t
    <3>1. pc[t] = "hook" /\ cur[t].job = t
      BY <1>1, <2>2
    <3>2. FireHook(t)
      BY <3>1 DEF UpdateStep, UpdateStatus, PruneJob
    <3>3. row[j] = "none" /\ row' = row
      BY <2>2, <3>1, <3>2, HookEffect DEF HookAfterPrune
    <3>4. target[j] # NoElement /\ target[j] \in Elements
      BY <2>2, <3>1 DEF JobsSubmitted, TypeOK
    <3>5. Exists(target[j]) \/ target[j] \in erased
      BY <3>4 DEF ElementsOutlast, TypeOK, Exists
    <3> QED
      BY <2>2, <3>1, <3>2, <3>3, <3>4, <3>5, HookEffect
  <2> QED
    BY <2>1, <2>2
<1> QED
    BY <1>2, <1>3, <1>4

\* These steps leave a revocation to its request.
LEMMA RevokeUpdate ==
    ASSUME TypeOK, JobsSubmitted, UpdatesOwned, RevokesPolled, NEW t \in Threads, UpdateStep(t)
    PROVE  RevokesPolled'
<1>1. /\ Alone(t)
      /\ pc[t] \in UpdatePc
      /\ pc'[t] \in UpdatePc \cup {"done", "check", "serving", "idle"}
      /\ \A j \in Jobs : linked'[j] => linked[j]
    BY UpdateEffect
<1>2. \A j \in Jobs : pc'[j] \in {"none", "dead"} <=> pc[j] \in {"none", "dead"}
    BY <1>1 DEF Alone, Threads, UpdatePc
<1>3. \A j \in Jobs : pc'[j] = "none" <=> pc[j] = "none"
    BY <1>1 DEF Alone, Threads, UpdatePc
<1>4. \A r \in Requests : pc'[r] = "revoke" => pc[r] = "revoke" /\ cur'[r] = cur[r]
    BY <1>1 DEF Alone, Threads, UpdatePc
<1>5. \A r \in Requests : pc[r] = "revoke" => cur[r].job \in Jobs
    BY DEF JobsSubmitted, Threads, AtWork
<1> QED
    BY <1>1, <1>2, <1>3, <1>4, <1>5 DEF RevokesPolled, Alone, TypeOK

\* A step that is not q's.
Untouched(q) == pc'[q] = pc[q] /\ cur'[q] = cur[q] /\ todo'[q] = todo[q]

\* Whoever is in an updateJobStatus call makes its next step or none.
BusyGoOn == \A q \in Threads : pc[q] \in UpdatePc => Untouched(q) \/ UpdateStep(q)

\* What happened to a job and to an element stays recorded.
HistoryGrows ==
    /\ \A j \in Jobs : /\ fired[j] # 0 => fired'[j] # 0
                       /\ target[j] # NoElement => target'[j] = target[j]
    /\ erased \subseteq erased' /\ abandoned \subseteq abandoned'

\* Who changes the row of a job that was submitted.
RowsMove ==
    \A j \in Jobs : row'[j] # row[j] =>
        \/ target[j] = NoElement
        \/ target[j] \in erased' /\ row'[j] = "none"
        \/ \E t \in Threads : UpdateStatus(t) /\ cur[t].job = j
        \/ \E t \in Threads : PruneJob(t) /\ cur[t].job = j
        \/ \E r \in Requests : (RejectJob(r) \/ DiscardRow(r)) /\ cur[r].job = j

\* Only CreateJob brings a job into play.
PlayShrinks == \A j \in Jobs : InPlay(j)' => InPlay(j) \/ target[j] = NoElement

\* A request discards a row it has read as terminal.
DiscardsRead ==
    \A r \in Requests : pc'[r] = "discard" /\ ~(pc[r] = "discard" /\ Untouched(r)) =>
        row[cur'[r].job] \in Terminal

\* Only CreateJob submits a job.
Births == target' = target \/ \E r \in Requests : InsertJob(r)

\* A settling call begins for an active row or a job in play.
SettlersCome ==
    \A t \in Threads, j \in Jobs :
        Settling(t, j)' => Settling(t, j) \/ row[j] \in Active \/ InPlay(j)

StepMoves == HistoryGrows /\ RowsMove /\ PlayShrinks /\ DiscardsRead /\ Births /\ SettlersCome

\* A thread in an updateJobStatus call moves by its own steps only.
LEMMA BusyStep ==
    ASSUME TypeOK, JobsSubmitted, OneSubmitter, [Next]_vars, ~Crash
    PROVE  BusyGoOn
<1> USE ThreadsAssumption
    DEF TypeOK, JobsSubmitted, AtWork, Threads, BusyGoOn, Untouched, UpdateStep,
        UpdatePc, Goto, table, store, local, history
<1>1. ASSUME NEW t \in Threads, UpdateStatus(t) PROVE BusyGoOn
    <2> SUFFICES ASSUME NEW q \in Threads \ {t}, pc[q] \in UpdatePc PROVE Untouched(q)
        BY <1>1
    <2> QED
        BY <1>1, NextUpdateEffect DEF UpdateStatus
<1>2. ASSUME NEW t \in Threads, PruneJob(t) PROVE BusyGoOn
    BY <1>2 DEF PruneJob
<1>3. ASSUME NEW t \in Threads, FireHook(t) PROVE BusyGoOn
    BY <1>3, NextUpdateEffect DEF FireHook
<1>4. ASSUME NEW r \in Requests, NEW e \in Elements, Generate(r, e) PROVE BusyGoOn
    BY <1>4 DEF Generate
<1>5. ASSUME NEW r \in Requests, NEW e \in Elements, RegenerateInPlace(r, e)
      PROVE  BusyGoOn
    BY <1>5 DEF RegenerateInPlace
<1>6. ASSUME NEW r \in Requests, LookupElement(r) PROVE BusyGoOn
    BY <1>6 DEF LookupElement
<1>7. ASSUME NEW r \in Requests, CreateBlank(r) PROVE BusyGoOn
    BY <1>7 DEF CreateBlank
<1>8. ASSUME NEW r \in Requests, CreateBlankFails(r) PROVE BusyGoOn
    BY <1>8 DEF CreateBlankFails, Finish
<1>9. ASSUME NEW r \in Requests, InsertJob(r) PROVE BusyGoOn
    BY <1>9 DEF InsertJob
<1>10. ASSUME NEW r \in Requests, InsertJobFails(r) PROVE BusyGoOn
    BY <1>10 DEF InsertJobFails, Finish
<1>11. ASSUME NEW r \in Requests, SubmitJob(r) PROVE BusyGoOn
    BY <1>11 DEF SubmitJob
<1>12. ASSUME NEW r \in Requests, SubmitJobFails(r) PROVE BusyGoOn
    BY <1>12 DEF SubmitJobFails
<1>13. ASSUME NEW r \in Requests, RejectJob(r) PROVE BusyGoOn
    BY <1>13 DEF RejectJob, Finish
<1>14. ASSUME NEW r \in Requests, LinkJob(r) PROVE BusyGoOn
    BY <1>14 DEF LinkJob, OneSubmitter
<1>15. ASSUME NEW r \in Requests, NEW j \in Jobs, CancelJob(r, j) PROVE BusyGoOn
    BY <1>15 DEF CancelJob
<1>16. ASSUME NEW r \in Requests, DiscardRow(r) PROVE BusyGoOn
    BY <1>16 DEF DiscardRow, Finish
<1>17. ASSUME NEW r \in Requests, RevokeJob(r) PROVE BusyGoOn
    BY <1>17 DEF RevokeJob
<1>18. ASSUME NEW r \in Requests, CancelStuckJobs(r) PROVE BusyGoOn
    BY <1>18 DEF CancelStuckJobs, StuckJobs
<1>19. ASSUME NEW e \in Elements, DeleteElement(e) PROVE BusyGoOn
    BY <1>19 DEF DeleteElement
<1>20. ASSUME NEW r \in Requests, Disconnect(r) PROVE BusyGoOn
    BY <1>20 DEF Disconnect
<1>21. ASSUME NEW j \in Jobs, PollTimeout(j) PROVE BusyGoOn
    BY <1>21 DEF PollTimeout
<1>22. ASSUME NEW j \in Jobs, PollAgain(j) PROVE BusyGoOn
    BY <1>22 DEF PollAgain
<1>23. ASSUME NEW j \in Jobs, PollError(j) PROVE BusyGoOn
    BY <1>23 DEF PollError
<1>24. ASSUME NEW j \in Jobs, PollPending(j) PROVE BusyGoOn
    BY <1>24 DEF PollPending, Answers
<1>25. ASSUME NEW j \in Jobs, PollFailed(j) PROVE BusyGoOn
    BY <1>25 DEF PollFailed
<1>26. ASSUME NEW j \in Jobs, PollCompleted(j) PROVE BusyGoOn
    BY <1>26 DEF PollCompleted
<1>27. ASSUME NEW j \in Jobs, SaveImage(j) PROVE BusyGoOn
    BY <1>27 DEF SaveImage
<1>28. ASSUME NEW j \in Jobs, SaveImageFails(j) PROVE BusyGoOn
    BY <1>28 DEF SaveImageFails
<1>29. ASSUME NEW j \in Jobs, RemoteStep(j) PROVE BusyGoOn
    BY <1>29 DEF RemoteStep
<1>30. ASSUME Crash PROVE BusyGoOn
    BY <1>30 DEF Crash
<1>31. ASSUME BootCleanup PROVE BusyGoOn
    BY <1>31 DEF BootCleanup, StuckJobs
<1>32. ASSUME UNCHANGED vars PROVE BusyGoOn
    BY <1>32 DEF vars
<1> HIDE DEF BusyGoOn
<1> QED
    BY <1>1, <1>2, <1>3, <1>4, <1>5, <1>6, <1>7, <1>8, <1>9, <1>10, <1>11, <1>12,
       <1>13, <1>14, <1>15, <1>16, <1>17, <1>18, <1>19, <1>20, <1>21, <1>22, <1>23,
       <1>24, <1>25, <1>26, <1>27, <1>28, <1>29, <1>30, <1>31, <1>32
    DEF Next, Arrival, RequestStep, UpdateStep, PollReturns, PollerStep, BootStep

\* The same for the steps of an updateJobStatus call and for CreateJob.
LEMMA UpdateMoves ==
    ASSUME TypeOK, JobsSubmitted, UpdatesOwned, NEW t \in Threads, UpdateStep(t)
    PROVE  StepMoves
<1>1. /\ Alone(t)
      /\ pc[t] \in UpdatePc
      /\ pc'[t] \in UpdatePc \cup {"done", "check", "serving", "idle"}
      /\ \A j \in Jobs : fired[j] # 0 => fired'[j] # 0
      /\ \A j \in Jobs : row[j] = "none" => row'[j] = "none"
    BY UpdateEffect
<1>2. HistoryGrows
    BY <1>1 DEF HistoryGrows, Alone
<1>3. RowsMove
  <2>1. FireHook(t) => row' = row
    BY HookEffect
  <2> QED
    BY <1>1, <2>1 DEF RowsMove, Alone, UpdateStep
<1>4. \A q \in Threads : pc'[q] \in {"discard", "submit", "reject", "link"} =>
          pc'[q] = pc[q] /\ cur'[q] = cur[q] /\ todo'[q] = todo[q]
    BY <1>1 DEF Alone, UpdatePc
<1>5. \A j \in Jobs : pc'[j] \notin {"none", "dead"} => pc[j] \notin {"none", "dead"}
    BY <1>1 DEF Alone, UpdatePc, Threads
<1>6. PlayShrinks
    BY <1>4, <1>5 DEF PlayShrinks, InPlay, Submitting, Threads
<1>7. DiscardsRead /\ Births
    BY <1>1, <1>4 DEF DiscardsRead, Births, Untouched, Alone, Threads, store
<1>8. SettlersCome
  <2>1. \A j \in Jobs : Settling(t, j)' => Settling(t, j)
    <3>1. CASE UpdateStatus(t)
      BY <3>1, StatusEffect DEF Settling
    <3>2. CASE PruneJob(t)
      BY <3>2, PruneEffect DEF Settling
    <3>3. CASE FireHook(t)
      BY <3>3, HookEffect DEF Settling
    <3> QED
      BY <3>1, <3>2, <3>3 DEF UpdateStep
  <2>2. \A q \in Threads \ {t}, j \in Jobs : Settling(q, j)' => Settling(q, j)
    BY <1>1 DEF Settling, Alone
  <2> QED
    BY <2>1, <2>2 DEF SettlersCome
<1> QED
    BY <1>2, <1>3, <1>6, <1>7, <1>8 DEF StepMoves

\* CreateJob names its fresh job and touches no other.
LEMMA InsertEffect ==
    ASSUME TypeOK, JobsSubmitted, NEW r \in Requests, InsertJob(r)
    PROVE  \E j \in Jobs :
              /\ target[j] = NoElement /\ target'[j] # NoElement /\ row'[j] = "queued"
              /\ \A k \in Jobs \ {j} : target'[k] = target[k] /\ row'[k] = row[k]
              /\ pc[r] = "insert" /\ pc'[r] = "submit" /\ cur'[r] = Upd(j, "queued")
              /\ \A q \in Threads \ {r} : pc'[q] = pc[q] /\ cur'[q] = cur[q]
              /\ todo' = todo /\ UNCHANGED <<linked, store, remote, history>>
<1>1. PICK j \in Jobs :
          /\ target[j] = NoElement
          /\ target' = [target EXCEPT ![j] = arg[r]]
          /\ row' = [row EXCEPT ![j] = "queued"]
          /\ cur' = [cur EXCEPT ![r] = Upd(j, "queued")]
    BY DEF InsertJob
<1>2. pc[r] = "insert" /\ pc' = [pc EXCEPT ![r] = "submit"]
    BY DEF InsertJob, Goto
<1>3. arg[r] # NoElement
    BY <1>2 DEF JobsSubmitted
<1>4. todo' = todo /\ UNCHANGED <<linked, store, remote, history>>
    BY DEF InsertJob
<1> QED
    BY <1>1, <1>2, <1>3, <1>4 DEF TypeOK, Threads

LEMMA InsertMoves ==
    ASSUME TypeOK, JobsSubmitted, NEW r \in Requests, InsertJob(r)
    PROVE  StepMoves
<1>1. PICK j \in Jobs :
              /\ target[j] = NoElement /\ target'[j] # NoElement /\ row'[j] = "queued"
              /\ \A k \in Jobs \ {j} : target'[k] = target[k] /\ row'[k] = row[k]
              /\ pc[r] = "insert" /\ pc'[r] = "submit" /\ cur'[r] = Upd(j, "queued")
              /\ \A q \in Threads \ {r} : pc'[q] = pc[q] /\ cur'[q] = cur[q]
              /\ todo' = todo /\ UNCHANGED <<linked, store, remote, history>>
    BY InsertEffect
<1>2. HistoryGrows /\ RowsMove /\ Births
    BY <1>1 DEF HistoryGrows, RowsMove, Births, history
<1>3. j \notin Requests
    BY ThreadsAssumption
<1>4. \A k \in Jobs : pc'[k] = pc[k]
    BY <1>1, ThreadsAssumption DEF Threads
<1>5. PlayShrinks
    BY <1>1, <1>4 DEF PlayShrinks, InPlay, Submitting, Upd, Threads
<1>6. DiscardsRead /\ SettlersCome
    BY <1>1 DEF DiscardsRead, SettlersCome, Untouched, Settling, Upd, Terminal, Threads
<1> QED
    BY <1>2, <1>5, <1>6 DEF StepMoves

\* How rows, jobs in play, announcements and settling calls move in any step.
LEMMA MovesStep ==
    ASSUME TypeOK, JobsSubmitted, UpdatesOwned, RevokesPolled, [Next]_vars
    PROVE  StepMoves
<1> USE ThreadsAssumption
    DEF TypeOK, JobsSubmitted, AtWork, StepMoves, HistoryGrows, RowsMove, PlayShrinks,
        DiscardsRead, Births, SettlersCome, Settling, Untouched, InPlay, Submitting,
        Threads, UpdatePc, Upd, Goto, table, store, local, history
<1>1. ASSUME NEW t \in Threads, UpdateStep(t) PROVE StepMoves
    BY <1>1, UpdateMoves
<1>2. ASSUME NEW r \in Requests, NEW e \in Elements, Generate(r, e) PROVE StepMoves
    BY <1>2 DEF Generate
<1>3. ASSUME NEW r \in Requests, NEW e \in Elements, RegenerateInPlace(r, e)
      PROVE  StepMoves
    BY <1>3 DEF RegenerateInPlace
<1>4. ASSUME NEW r \in Requests, LookupElement(r) PROVE StepMoves
    BY <1>4 DEF LookupElement
<1>5. ASSUME NEW r \in Requests, CreateBlank(r) PROVE StepMoves
    BY <1>5 DEF CreateBlank
<1>6. ASSUME NEW r \in Requests, CreateBlankFails(r) PROVE StepMoves
    BY <1>6 DEF CreateBlankFails, Finish
<1>7. ASSUME NEW r \in Requests, InsertJob(r) PROVE StepMoves
    BY <1>7, InsertMoves
<1>8. ASSUME NEW r \in Requests, InsertJobFails(r) PROVE StepMoves
    BY <1>8 DEF InsertJobFails, Finish
<1>9. ASSUME NEW r \in Requests, SubmitJob(r) PROVE StepMoves
    BY <1>9 DEF SubmitJob
<1>10. ASSUME NEW r \in Requests, SubmitJobFails(r) PROVE StepMoves
    BY <1>10 DEF SubmitJobFails
<1>11. ASSUME NEW r \in Requests, RejectJob(r) PROVE StepMoves
    BY <1>11 DEF RejectJob, Finish
<1>12. ASSUME NEW r \in Requests, LinkJob(r) PROVE StepMoves
    BY <1>12 DEF LinkJob
<1>13. ASSUME NEW r \in Requests, NEW j \in Jobs, CancelJob(r, j) PROVE StepMoves
    BY <1>13 DEF CancelJob, Active
<1>14. ASSUME NEW r \in Requests, DiscardRow(r) PROVE StepMoves
    BY <1>14 DEF DiscardRow, Finish
<1>15. ASSUME NEW r \in Requests, RevokeJob(r) PROVE StepMoves
    BY <1>15 DEF RevokeJob, RevokesPolled
<1>16. ASSUME NEW r \in Requests, CancelStuckJobs(r) PROVE StepMoves
    BY <1>16 DEF CancelStuckJobs, StuckJobs, Active
<1>17. ASSUME NEW e \in Elements, DeleteElement(e) PROVE StepMoves
    BY <1>17 DEF DeleteElement
<1>18. ASSUME NEW r \in Requests, Disconnect(r) PROVE StepMoves
    BY <1>18 DEF Disconnect
<1>19. ASSUME NEW j \in Jobs, PollTimeout(j) PROVE StepMoves
    BY <1>19 DEF PollTimeout
<1>20. ASSUME NEW j \in Jobs, PollAgain(j) PROVE StepMoves
    BY <1>20 DEF PollAgain
<1>21. ASSUME NEW j \in Jobs, PollError(j) PROVE StepMoves
    BY <1>21 DEF PollError
<1>22. ASSUME NEW j \in Jobs, PollPending(j) PROVE StepMoves
    BY <1>22 DEF PollPending, Answers
<1>23. ASSUME NEW j \in Jobs, PollFailed(j) PROVE StepMoves
    BY <1>23 DEF PollFailed
<1>24. ASSUME NEW j \in Jobs, PollCompleted(j) PROVE StepMoves
    BY <1>24 DEF PollCompleted
<1>25. ASSUME NEW j \in Jobs, SaveImage(j) PROVE StepMoves
    BY <1>25 DEF SaveImage
<1>26. ASSUME NEW j \in Jobs, SaveImageFails(j) PROVE StepMoves
    BY <1>26 DEF SaveImageFails
<1>27. ASSUME NEW j \in Jobs, RemoteStep(j) PROVE StepMoves
    BY <1>27 DEF RemoteStep
<1>28. ASSUME Crash PROVE StepMoves
    <2>1. \A t \in Threads : pc'[t] \in {"boot", "idle", "dead", "none", "done"} /\ todo'[t] = {}
        BY <1>28 DEF Crash, Live
    <2>2. SettlersCome
        BY <2>1
    <2>3. HistoryGrows /\ RowsMove /\ PlayShrinks /\ DiscardsRead /\ Births
        BY <1>28 DEF Crash
    <2> QED
        BY <2>2, <2>3
<1>29. ASSUME BootCleanup PROVE StepMoves
    BY <1>29 DEF BootCleanup, StuckJobs, Active
<1>30. ASSUME UNCHANGED vars PROVE StepMoves
    BY <1>30 DEF vars
<1> HIDE DEF StepMoves
<1> QED
    BY <1>1, <1>2, <1>3, <1>4, <1>5, <1>6, <1>7, <1>8, <1>9, <1>10, <1>11, <1>12,
       <1>13, <1>14, <1>15, <1>16, <1>17, <1>18, <1>19, <1>20, <1>21, <1>22, <1>23,
       <1>24, <1>25, <1>26, <1>27, <1>28, <1>29, <1>30
    DEF Next, Arrival, RequestStep, PollReturns, PollerStep, BootStep

\* A step of the call that is to announce a job announces it or goes on to it.
LEMMA AnnouncedUpdate ==
    ASSUME TypeOK, JobsSubmitted, UpdatesOwned, ElementsOutlast, HistoryGrows,
           NEW t \in Threads, UpdateStep(t), NEW j \in Jobs,
           \/ pc[t] = "hook" /\ cur[t].job = j
           \/ Settling(t, j)
    PROVE  /\ Announced(j)'
           /\ Settling(t, j) => Settling(t, j)' \/ row'[j] = "none"
<1>1. CASE UpdateStatus(t)
  <2>1. /\ pc[t] = "status"
        /\ \/ /\ cur[t].to \in Terminal /\ pc'[t] = "prune"
              /\ cur'[t] = cur[t] /\ todo'[t] = todo[t]
           \/ /\ cur[t].to \notin Terminal
              /\ \/ pc'[t] = "check" /\ todo[t] = {} /\ todo'[t] = {}
                 \/ /\ pc'[t] = "status" /\ cur'[t] \in todo[t]
                    /\ todo'[t] = todo[t] \ {cur'[t]}
    BY <1>1, StatusEffect
  <2>2. Settling(t, j)'
    BY <2>1 DEF Settling, UpdatesOwned
  <2> QED
    BY <2>2 DEF Announced, Settling, Threads
<1>2. CASE PruneJob(t)
  <2>1. /\ pc[t] = "prune" /\ pc'[t] = "hook" /\ cur'[t] = cur[t] /\ todo'[t] = todo[t]
        /\ j = cur[t].job => row'[j] = "none"
    BY <1>2, PruneEffect
  <2> QED
    BY <1>2, <2>1 DEF Settling, Announced, Threads
<1>3. CASE FireHook(t)
  <2>1. /\ pc[t] = "hook"
        /\ \A k \in Jobs :
               k = cur[t].job /\ target[k] # NoElement /\ Exists(target[k]) => fired'[k] # 0
        /\ \/ todo[t] = {} /\ todo'[t] = {}
           \/ /\ pc'[t] = "status" /\ cur'[t] \in todo[t]
              /\ todo'[t] = todo[t] \ {cur'[t]}
    BY <1>3, HookEffect
  <2>2. CASE cur[t].job = j
    <3>1. target[j] # NoElement /\ target[j] \in Elements
      BY <2>1, <2>2 DEF JobsSubmitted, AtWork, UpdatePc, TypeOK
    <3>2. Exists(target[j]) \/ target[j] \in erased
      BY <3>1 DEF ElementsOutlast, TypeOK, Exists
    <3>3. fired'[j] # 0 \/ target'[j] \in erased'
      BY <2>1, <2>2, <3>1, <3>2 DEF HistoryGrows
    <3>4. Settling(t, j) => Settling(t, j)'
      BY <2>1 DEF Settling, UpdatesOwned
    <3> QED
      BY <3>3, <3>4 DEF Announced, Settling, Threads
  <2>3. CASE Settling(t, j)
    <3>1. Settling(t, j)'
      BY <2>1, <2>3 DEF Settling, UpdatesOwned
    <3> QED
      BY <3>1 DEF Announced, Settling, Threads
  <2> QED
    BY <2>1, <2>2, <2>3
<1> QED
    BY <1>1, <1>2, <1>3 DEF UpdateStep

\* An announcement under way is not lost.
LEMMA AnnouncedStays ==
    ASSUME TypeOK, JobsSubmitted, UpdatesOwned, ElementsOutlast, TodoWhileUpdating,
           HistoryGrows, BusyGoOn, NEW j \in Jobs, target[j] # NoElement, Announced(j)
    PROVE  Announced(j)'
<1>1. CASE fired[j] # 0 \/ target[j] \in erased
    BY <1>1 DEF Announced, HistoryGrows
<1>2. ASSUME NEW t \in Threads, (pc[t] = "hook" /\ cur[t].job = j) \/ Settling(t, j)
      PROVE  Announced(j)'
  <2>1. pc[t] \in UpdatePc
    BY <1>2 DEF Settling, TodoWhileUpdating, UpdatePc
  <2>2. CASE Untouched(t)
    BY <1>2, <2>2 DEF Untouched, Announced, Settling
  <2>3. CASE UpdateStep(t)
    BY <1>2, <2>3, AnnouncedUpdate
  <2> QED
    BY <2>1, <2>2, <2>3 DEF BusyGoOn
<1> QED
    BY <1>1, <1>2 DEF Announced

\* A settling call goes on until the row is pruned.
LEMMA SettlingStays ==
    ASSUME TypeOK, JobsSubmitted, UpdatesOwned, ElementsOutlast, TodoWhileUpdating,
           HistoryGrows, BusyGoOn, NEW j \in Jobs, NEW t \in Threads, Settling(t, j)
    PROVE  Settling(t, j)' \/ row'[j] = "none"
<1>1. pc[t] \in UpdatePc
    BY DEF Settling, TodoWhileUpdating, UpdatePc
<1>2. CASE Untouched(t)
    BY <1>2 DEF Untouched, Settling
<1>3. CASE UpdateStep(t)
    BY <1>3, AnnouncedUpdate
<1> QED
    BY <1>1, <1>2, <1>3 DEF BusyGoOn

\* No row of a job in play is left terminal, and none goes unannounced.
LEMMA InPlayStep ==
    ASSUME TypeOK, JobsSubmitted, UpdatesOwned, OneSubmitter, ElementsOutlast,
           TodoWhileUpdating, PollersFinish, InPlayAnnounced, RevokesPolled,
           JobsSubmitted', [Next]_vars
    PROVE  InPlayAnnounced'
<1>1. CASE Crash
  <2> SUFFICES ASSUME NEW j \in Jobs, InPlay(j)'
               PROVE  /\ row'[j] \notin Terminal
                      /\ Announced(j)'
                      /\ \A r \in Requests : pc'[r] # "discard"
    BY DEF InPlayAnnounced
  <2>1. \A r \in Requests : pc'[r] = "idle"
    BY <1>1, ThreadsAssumption DEF Crash, Threads
  <2>2. pc[j] = "done"
    BY <1>1, <2>1, ThreadsAssumption DEF Crash, Threads, Live, InPlay, Submitting
  <2>3. UNCHANGED <<row, target, fired, erased>>
    BY <1>1 DEF Crash, table, history
  <2> QED
    BY <2>1, <2>2, <2>3 DEF PollersFinish, Announced, Terminal
<1>2. CASE ~Crash
  <2>1. BusyGoOn
    BY <1>2, BusyStep
  <2>2. HistoryGrows /\ RowsMove /\ PlayShrinks /\ DiscardsRead /\ Births
    BY MovesStep DEF StepMoves
  <2> SUFFICES ASSUME NEW j \in Jobs, InPlay(j)'
               PROVE  /\ row'[j] \in Terminal => \E t \in Threads : Settling(t, j)'
                      /\ row'[j] = "none" => Announced(j)'
                      /\ \A r \in Requests :
                             pc'[r] = "discard" /\ cur'[r].job = j => Announced(j)'
    BY DEF InPlayAnnounced
  <2>3. target'[j] # NoElement
    BY DEF JobsSubmitted, InPlay, Submitting, AtWork, Threads
  <2>4. CASE target[j] = NoElement
    <3>1. PICK r \in Requests : InsertJob(r)
      BY <2>2, <2>3, <2>4 DEF Births
    <3>2. /\ row'[j] = "queued"
          /\ \A q \in Requests : pc'[q] = "discard" => pc[q] = "discard" /\ cur'[q] = cur[q]
      BY <2>3, <2>4, <3>1, InsertEffect DEF Threads
    <3> QED
      BY <2>4, <3>2 DEF JobsSubmitted, AtWork, Terminal, Threads
  <2>5. CASE target[j] # NoElement
    <3>1. InPlay(j)
      BY <2>2, <2>5 DEF PlayShrinks
    <3>2. Announced(j) => Announced(j)'
      BY <2>1, <2>2, <2>5, AnnouncedStays
    <3>3. \A r \in Requests : pc[r] = "discard" /\ cur[r].job = j => Announced(j)
      BY <3>1 DEF InPlayAnnounced
    <3>4. row[j] \in Terminal => Announced(j)
      BY <3>1 DEF InPlayAnnounced, Announced
    <3>5. ASSUME NEW r \in Requests, pc'[r] = "discard" /\ cur'[r].job = j
          PROVE  Announced(j)'
      BY <2>2, <3>2, <3>3, <3>4, <3>5 DEF DiscardsRead, Untouched
    <3>6. CASE row'[j] = row[j]
      <4>1. ASSUME row'[j] \in Terminal PROVE \E t \in Threads : Settling(t, j)'
        <5>1. PICK t \in Threads : Settling(t, j)
          BY <3>1, <3>6, <4>1 DEF InPlayAnnounced
        <5>2. Settling(t, j)' \/ row'[j] = "none"
          BY <2>1, <2>2, <5>1, SettlingStays
        <5> QED
          BY <4>1, <5>2 DEF Terminal
      <4>2. row'[j] = "none" => Announced(j)'
        BY <3>1, <3>2, <3>6 DEF InPlayAnnounced
      <4> QED
        BY <3>5, <4>1, <4>2
    <3>7. CASE row'[j] # row[j]
      <4>1. CASE target[j] \in erased' /\ row'[j] = "none"
        BY <2>2, <2>5, <3>5, <4>1 DEF HistoryGrows, Announced, Terminal
      <4>2. ASSUME NEW t \in Threads, UpdateStatus(t), cur[t].job = j
            PROVE  /\ row'[j] # "none"
                   /\ row'[j] \in Terminal => \E q \in Threads : Settling(q, j)'
        BY <3>7, <4>2, StatusEffect, UpdateStatusEffect DEF Settling
      <4>3. ASSUME NEW t \in Threads, PruneJob(t), cur[t].job = j
            PROVE  row'[j] = "none" /\ Announced(j)'
        BY <4>3, PruneEffect DEF Announced
      <4>4. ASSUME NEW r \in Requests, RejectJob(r), cur[r].job = j PROVE FALSE
        <5>1. /\ pc[j] = "none"
              /\ \A q \in Requests \ {r} :
                     pc[q] \in {"submit", "reject", "link"} => cur[q].job # j
          BY <4>4 DEF OneSubmitter, RejectJob
        <5>2. /\ pc' = [pc EXCEPT ![r] = "idle"]
              /\ cur' = [cur EXCEPT ![r] = Idle]
          BY <4>4 DEF RejectJob, Finish, Goto
        <5>3. r \notin Jobs /\ pc'[j] = pc[j] /\ pc'[r] = "idle"
          BY <5>2, ThreadsAssumption DEF TypeOK, Threads
        <5>4. \A q \in Requests \ {r} : pc'[q] = pc[q] /\ cur'[q] = cur[q]
          BY <5>2 DEF TypeOK, Threads
        <5> QED
          BY <5>1, <5>3, <5>4 DEF InPlay, Submitting
      <4>5. ASSUME NEW r \in Requests, DiscardRow(r), cur[r].job = j
            PROVE  row'[j] = "none" /\ Announced(j)'
        BY <3>2, <3>3, <3>7, <4>5 DEF DiscardRow, TypeOK
      <4> QED
        BY <2>2, <2>5, <3>5, <3>7, <4>1, <4>2, <4>3, <4>4, <4>5 DEF RowsMove, Terminal
    <3> QED
      BY <3>6, <3>7
  <2> QED
    BY <2>4, <2>5
<1> QED
    BY <1>1, <1>2

\* The server answers completed for completed jobs only.
LEMMA CompletedAnswer ==
    ASSUME NEW j \in Jobs, "completed" \in Answers(j)
    PROVE  remote[j] = "completed"
<1>1. CASE remote[j] = "working"
    BY <1>1 DEF Answers
<1>2. CASE remote[j] = "failed"
    BY <1>2 DEF Answers
<1>3. CASE remote[j] \notin {"working", "failed", "completed"}
    BY <1>3 DEF Answers
<1> QED
    BY <1>1, <1>2, <1>3

\* A job is submitted by one request only.
LEMMA SubmitterStep ==
    ASSUME TypeOK, JobsSubmitted, UpdatesOwned, TodoWhileUpdating, OneSubmitter,
           [Next]_vars
    PROVE  TodoWhileUpdating' /\ OneSubmitter'
<1> USE ThreadsAssumption
    DEF TypeOK, JobsSubmitted, AtWork, TodoWhileUpdating, OneSubmitter, Threads, Upd,
        UpdatePc, Goto, table, store, local, history
<1>1. ASSUME NEW t \in Threads, UpdateStep(t) PROVE TodoWhileUpdating' /\ OneSubmitter'
    BY <1>1, SubmitterUpdate
<1>2. ASSUME NEW r \in Requests, NEW e \in Elements, Generate(r, e)
      PROVE  TodoWhileUpdating' /\ OneSubmitter'
    BY <1>2 DEF Generate
<1>3. ASSUME NEW r \in Requests, NEW e \in Elements, RegenerateInPlace(r, e)
      PROVE  TodoWhileUpdating' /\ OneSubmitter'
    BY <1>3 DEF RegenerateInPlace
<1>4. ASSUME NEW r \in Requests, LookupElement(r)
      PROVE  TodoWhileUpdating' /\ OneSubmitter'
    BY <1>4 DEF LookupElement
<1>5. ASSUME NEW r \in Requests, CreateBlank(r) PROVE TodoWhileUpdating' /\ OneSubmitter'
    BY <1>5 DEF CreateBlank
<1>6. ASSUME NEW r \in Requests, CreateBlankFails(r)
      PROVE  TodoWhileUpdating' /\ OneSubmitter'
    BY <1>6 DEF CreateBlankFails, Finish
<1>7. ASSUME NEW r \in Requests, InsertJob(r) PROVE TodoWhileUpdating' /\ OneSubmitter'
    BY <1>7 DEF InsertJob
<1>8. ASSUME NEW r \in Requests, InsertJobFails(r)
      PROVE  TodoWhileUpdating' /\ OneSubmitter'
    BY <1>8 DEF InsertJobFails, Finish
<1>9. ASSUME NEW r \in Requests, SubmitJob(r) PROVE TodoWhileUpdating' /\ OneSubmitter'
    BY <1>9 DEF SubmitJob
<1>10. ASSUME NEW r \in Requests, SubmitJobFails(r)
      PROVE  TodoWhileUpdating' /\ OneSubmitter'
    BY <1>10 DEF SubmitJobFails
<1>11. ASSUME NEW r \in Requests, RejectJob(r) PROVE TodoWhileUpdating' /\ OneSubmitter'
    BY <1>11 DEF RejectJob, Finish
<1>12. ASSUME NEW r \in Requests, LinkJob(r) PROVE TodoWhileUpdating' /\ OneSubmitter'
    BY <1>12 DEF LinkJob
<1>13. ASSUME NEW r \in Requests, NEW j \in Jobs, CancelJob(r, j)
      PROVE  TodoWhileUpdating' /\ OneSubmitter'
    BY <1>13 DEF CancelJob
<1>14. ASSUME NEW r \in Requests, DiscardRow(r) PROVE TodoWhileUpdating' /\ OneSubmitter'
    BY <1>14 DEF DiscardRow, Finish
<1>15. ASSUME NEW r \in Requests, RevokeJob(r) PROVE TodoWhileUpdating' /\ OneSubmitter'
    BY <1>15 DEF RevokeJob
<1>16. ASSUME NEW r \in Requests, CancelStuckJobs(r)
      PROVE  TodoWhileUpdating' /\ OneSubmitter'
    BY <1>16 DEF CancelStuckJobs, StuckJobs
<1>17. ASSUME NEW e \in Elements, DeleteElement(e)
      PROVE  TodoWhileUpdating' /\ OneSubmitter'
    BY <1>17 DEF DeleteElement
<1>18. ASSUME NEW r \in Requests, Disconnect(r) PROVE TodoWhileUpdating' /\ OneSubmitter'
    BY <1>18 DEF Disconnect
<1>19. ASSUME NEW j \in Jobs, PollTimeout(j) PROVE TodoWhileUpdating' /\ OneSubmitter'
    BY <1>19 DEF PollTimeout
<1>20. ASSUME NEW j \in Jobs, PollAgain(j) PROVE TodoWhileUpdating' /\ OneSubmitter'
    BY <1>20 DEF PollAgain
<1>21. ASSUME NEW j \in Jobs, PollError(j) PROVE TodoWhileUpdating' /\ OneSubmitter'
    BY <1>21 DEF PollError
<1>22. ASSUME NEW j \in Jobs, PollPending(j) PROVE TodoWhileUpdating' /\ OneSubmitter'
    BY <1>22 DEF PollPending, Answers
<1>23. ASSUME NEW j \in Jobs, PollFailed(j) PROVE TodoWhileUpdating' /\ OneSubmitter'
    BY <1>23 DEF PollFailed
<1>24. ASSUME NEW j \in Jobs, PollCompleted(j) PROVE TodoWhileUpdating' /\ OneSubmitter'
    BY <1>24 DEF PollCompleted
<1>25. ASSUME NEW j \in Jobs, SaveImage(j) PROVE TodoWhileUpdating' /\ OneSubmitter'
    BY <1>25 DEF SaveImage
<1>26. ASSUME NEW j \in Jobs, SaveImageFails(j) PROVE TodoWhileUpdating' /\ OneSubmitter'
    BY <1>26 DEF SaveImageFails
<1>27. ASSUME NEW j \in Jobs, RemoteStep(j) PROVE TodoWhileUpdating' /\ OneSubmitter'
    BY <1>27 DEF RemoteStep
<1>28. ASSUME Crash PROVE TodoWhileUpdating' /\ OneSubmitter'
    BY <1>28 DEF Crash
<1>29. ASSUME BootCleanup PROVE TodoWhileUpdating' /\ OneSubmitter'
    BY <1>29 DEF BootCleanup, StuckJobs
<1>30. ASSUME UNCHANGED vars PROVE TodoWhileUpdating' /\ OneSubmitter'
    BY <1>30 DEF vars
<1> QED
    BY <1>1, <1>2, <1>3, <1>4, <1>5, <1>6, <1>7, <1>8, <1>9, <1>10, <1>11, <1>12,
       <1>13, <1>14, <1>15, <1>16, <1>17, <1>18, <1>19, <1>20, <1>21, <1>22, <1>23,
       <1>24, <1>25, <1>26, <1>27, <1>28, <1>29, <1>30
    DEF Next, Arrival, RequestStep, PollReturns, PollerStep, BootStep

\* Pictures come from completed jobs, and pollers end with their jobs announced.
LEMMA PictureStep ==
    ASSUME TypeOK, JobsSubmitted, UpdatesOwned, HookAfterPrune, OneSubmitter,
           ElementsOutlast, PollersFinish, SavesCompleted, ImageOfCompletedJob,
           [Next]_vars
    PROVE  ElementsOutlast' /\ PollersFinish' /\ SavesCompleted' /\ ImageOfCompletedJob'
<1> USE ThreadsAssumption
    DEF TypeOK, JobsSubmitted, AtWork, ElementsOutlast, PollersFinish, SavesCompleted,
        ImageOfCompletedJob, Exists, Threads, Upd, UpdatePc, Goto, table, store, local,
        history
<1>1. ASSUME NEW t \in Threads, UpdateStep(t)
      PROVE  ElementsOutlast' /\ PollersFinish' /\ SavesCompleted' /\ ImageOfCompletedJob'
    BY <1>1, PictureUpdate
<1>2. ASSUME NEW r \in Requests, NEW e \in Elements, Generate(r, e)
      PROVE  ElementsOutlast' /\ PollersFinish' /\ SavesCompleted' /\ ImageOfCompletedJob'
    BY <1>2 DEF Generate
<1>3. ASSUME NEW r \in Requests, NEW e \in Elements, RegenerateInPlace(r, e)
      PROVE  ElementsOutlast' /\ PollersFinish' /\ SavesCompleted' /\ ImageOfCompletedJob'
    BY <1>3 DEF RegenerateInPlace
<1>4. ASSUME NEW r \in Requests, LookupElement(r)
      PROVE  ElementsOutlast' /\ PollersFinish' /\ SavesCompleted' /\ ImageOfCompletedJob'
    BY <1>4 DEF LookupElement
<1>5. ASSUME NEW r \in Requests, CreateBlank(r)
      PROVE  ElementsOutlast' /\ PollersFinish' /\ SavesCompleted' /\ ImageOfCompletedJob'
    BY <1>5 DEF CreateBlank
<1>6. ASSUME NEW r \in Requests, CreateBlankFails(r)
      PROVE  ElementsOutlast' /\ PollersFinish' /\ SavesCompleted' /\ ImageOfCompletedJob'
    BY <1>6 DEF CreateBlankFails, Finish
<1>7. ASSUME NEW r \in Requests, InsertJob(r)
      PROVE  ElementsOutlast' /\ PollersFinish' /\ SavesCompleted' /\ ImageOfCompletedJob'
    BY <1>7 DEF InsertJob
<1>8. ASSUME NEW r \in Requests, InsertJobFails(r)
      PROVE  ElementsOutlast' /\ PollersFinish' /\ SavesCompleted' /\ ImageOfCompletedJob'
    BY <1>8 DEF InsertJobFails, Finish
<1>9. ASSUME NEW r \in Requests, SubmitJob(r)
      PROVE  ElementsOutlast' /\ PollersFinish' /\ SavesCompleted' /\ ImageOfCompletedJob'
    BY <1>9 DEF SubmitJob, OneSubmitter
<1>10. ASSUME NEW r \in Requests, SubmitJobFails(r)
      PROVE  ElementsOutlast' /\ PollersFinish' /\ SavesCompleted' /\ ImageOfCompletedJob'
    BY <1>10 DEF SubmitJobFails, OneSubmitter
<1>11. ASSUME NEW r \in Requests, RejectJob(r)
      PROVE  ElementsOutlast' /\ PollersFinish' /\ SavesCompleted' /\ ImageOfCompletedJob'
    BY <1>11 DEF RejectJob, Finish
<1>12. ASSUME NEW r \in Requests, LinkJob(r)
      PROVE  ElementsOutlast' /\ PollersFinish' /\ SavesCompleted' /\ ImageOfCompletedJob'
    BY <1>12 DEF LinkJob, OneSubmitter
<1>13. ASSUME NEW r \in Requests, NEW j \in Jobs, CancelJob(r, j)
      PROVE  ElementsOutlast' /\ PollersFinish' /\ SavesCompleted' /\ ImageOfCompletedJob'
    BY <1>13 DEF CancelJob
<1>14. ASSUME NEW r \in Requests, DiscardRow(r)
      PROVE  ElementsOutlast' /\ PollersFinish' /\ SavesCompleted' /\ ImageOfCompletedJob'
    BY <1>14 DEF DiscardRow, Finish
<1>15. ASSUME NEW r \in Requests, RevokeJob(r)
      PROVE  ElementsOutlast' /\ PollersFinish' /\ SavesCompleted' /\ ImageOfCompletedJob'
    BY <1>15 DEF RevokeJob
<1>16. ASSUME NEW r \in Requests, CancelStuckJobs(r)
      PROVE  ElementsOutlast' /\ PollersFinish' /\ SavesCompleted' /\ ImageOfCompletedJob'
    BY <1>16 DEF CancelStuckJobs, StuckJobs
<1>17. ASSUME NEW e \in Elements, DeleteElement(e)
      PROVE  ElementsOutlast' /\ PollersFinish' /\ SavesCompleted' /\ ImageOfCompletedJob'
    BY <1>17 DEF DeleteElement
<1>18. ASSUME NEW r \in Requests, Disconnect(r)
      PROVE  ElementsOutlast' /\ PollersFinish' /\ SavesCompleted' /\ ImageOfCompletedJob'
    BY <1>18 DEF Disconnect
<1>19. ASSUME NEW j \in Jobs, PollTimeout(j)
      PROVE  ElementsOutlast' /\ PollersFinish' /\ SavesCompleted' /\ ImageOfCompletedJob'
    BY <1>19 DEF PollTimeout
<1>20. ASSUME NEW j \in Jobs, PollAgain(j)
      PROVE  ElementsOutlast' /\ PollersFinish' /\ SavesCompleted' /\ ImageOfCompletedJob'
    BY <1>20 DEF PollAgain
<1>21. ASSUME NEW j \in Jobs, PollError(j)
      PROVE  ElementsOutlast' /\ PollersFinish' /\ SavesCompleted' /\ ImageOfCompletedJob'
    BY <1>21 DEF PollError
<1>22. ASSUME NEW j \in Jobs, PollPending(j)
      PROVE  ElementsOutlast' /\ PollersFinish' /\ SavesCompleted' /\ ImageOfCompletedJob'
    BY <1>22 DEF PollPending, Answers
<1>23. ASSUME NEW j \in Jobs, PollFailed(j)
      PROVE  ElementsOutlast' /\ PollersFinish' /\ SavesCompleted' /\ ImageOfCompletedJob'
    BY <1>23 DEF PollFailed
<1>24. ASSUME NEW j \in Jobs, PollCompleted(j)
      PROVE  ElementsOutlast' /\ PollersFinish' /\ SavesCompleted' /\ ImageOfCompletedJob'
    BY <1>24, CompletedAnswer DEF PollCompleted
<1>25. ASSUME NEW j \in Jobs, SaveImage(j)
      PROVE  ElementsOutlast' /\ PollersFinish' /\ SavesCompleted' /\ ImageOfCompletedJob'
    BY <1>25 DEF SaveImage
<1>26. ASSUME NEW j \in Jobs, SaveImageFails(j)
      PROVE  ElementsOutlast' /\ PollersFinish' /\ SavesCompleted' /\ ImageOfCompletedJob'
    BY <1>26 DEF SaveImageFails
<1>27. ASSUME NEW j \in Jobs, RemoteStep(j)
      PROVE  ElementsOutlast' /\ PollersFinish' /\ SavesCompleted' /\ ImageOfCompletedJob'
    BY <1>27 DEF RemoteStep
<1>28. ASSUME Crash
      PROVE  ElementsOutlast' /\ PollersFinish' /\ SavesCompleted' /\ ImageOfCompletedJob'
    BY <1>28 DEF Crash
<1>29. ASSUME BootCleanup
      PROVE  ElementsOutlast' /\ PollersFinish' /\ SavesCompleted' /\ ImageOfCompletedJob'
    BY <1>29 DEF BootCleanup, StuckJobs
<1>30. ASSUME UNCHANGED vars
      PROVE  ElementsOutlast' /\ PollersFinish' /\ SavesCompleted' /\ ImageOfCompletedJob'
    BY <1>30 DEF vars
<1> QED
    BY <1>1, <1>2, <1>3, <1>4, <1>5, <1>6, <1>7, <1>8, <1>9, <1>10, <1>11, <1>12,
       <1>13, <1>14, <1>15, <1>16, <1>17, <1>18, <1>19, <1>20, <1>21, <1>22, <1>23,
       <1>24, <1>25, <1>26, <1>27, <1>28, <1>29, <1>30
    DEF Next, Arrival, RequestStep, PollReturns, PollerStep, BootStep

\* Only polled jobs are revoked, and an abandoned one is never polled.
LEMMA RevokeStep ==
    ASSUME TypeOK, JobsSubmitted, UpdatesOwned, HookAfterPrune, StartupSettlesAll,
           ActiveRowsAttended, OneSubmitter, RevokesPolled, [Next]_vars
    PROVE  RevokesPolled'
<1> USE ThreadsAssumption
    DEF TypeOK, JobsSubmitted, AtWork, RevokesPolled, Threads, Upd, UpdatePc, Goto,
        table, store, local, history
<1>1. ASSUME NEW t \in Threads, UpdateStep(t) PROVE RevokesPolled'
    BY <1>1, RevokeUpdate
<1>2. ASSUME NEW r \in Requests, NEW e \in Elements, Generate(r, e) PROVE RevokesPolled'
    BY <1>2 DEF Generate
<1>3. ASSUME NEW r \in Requests, NEW e \in Elements, RegenerateInPlace(r, e)
      PROVE  RevokesPolled'
    BY <1>3 DEF RegenerateInPlace
<1>4. ASSUME NEW r \in Requests, LookupElement(r) PROVE RevokesPolled'
    BY <1>4 DEF LookupElement
<1>5. ASSUME NEW r \in Requests, CreateBlank(r) PROVE RevokesPolled'
    BY <1>5 DEF CreateBlank
<1>6. ASSUME NEW r \in Requests, CreateBlankFails(r) PROVE RevokesPolled'
    BY <1>6 DEF CreateBlankFails, Finish
<1>7. ASSUME NEW r \in Requests, InsertJob(r) PROVE RevokesPolled'
    BY <1>7 DEF InsertJob
<1>8. ASSUME NEW r \in Requests, InsertJobFails(r) PROVE RevokesPolled'
    BY <1>8 DEF InsertJobFails, Finish
<1>9. ASSUME NEW r \in Requests, SubmitJob(r) PROVE RevokesPolled'
    BY <1>9 DEF SubmitJob
<1>10. ASSUME NEW r \in Requests, SubmitJobFails(r) PROVE RevokesPolled'
    BY <1>10 DEF SubmitJobFails
<1>11. ASSUME NEW r \in Requests, RejectJob(r) PROVE RevokesPolled'
    BY <1>11 DEF RejectJob, Finish, OneSubmitter
<1>12. ASSUME NEW r \in Requests, LinkJob(r) PROVE RevokesPolled'
    <2> DEFINE k == cur[r].job
    <2>a. pc[r] = "link" /\ r \in Threads
        BY <1>12 DEF LinkJob
    <2>b. k \in Jobs
        BY <2>a
    <2>c. k \notin abandoned
        BY <2>a DEF OneSubmitter
    <2>0. k \in Jobs /\ r \notin Jobs /\ k \notin abandoned /\ k \notin Requests
        BY <2>b, <2>c
    <2>1. /\ \A j \in Jobs : pc'[j] = IF j = k THEN "check" ELSE pc[j]
          /\ \A j \in Jobs : linked'[j] => linked[j] \/ j = k
          /\ \A q \in Requests : pc'[q] = "revoke" => pc[q] = "revoke" /\ cur'[q] = cur[q]
          /\ UNCHANGED abandoned
        BY <1>12, <2>0 DEF LinkJob
    <2> QED
        BY <2>0, <2>1
<1>13. ASSUME NEW r \in Requests, NEW j \in Jobs, CancelJob(r, j) PROVE RevokesPolled'
    BY <1>13 DEF CancelJob, ActiveRowsAttended, Active, Live, Submitting, Serving, OneSubmitter
<1>14. ASSUME NEW r \in Requests, DiscardRow(r) PROVE RevokesPolled'
    BY <1>14 DEF DiscardRow, Finish
<1>15. ASSUME NEW r \in Requests, RevokeJob(r) PROVE RevokesPolled'
    BY <1>15 DEF RevokeJob
<1>16. ASSUME NEW r \in Requests, CancelStuckJobs(r) PROVE RevokesPolled'
    BY <1>16 DEF CancelStuckJobs, StuckJobs
<1>17. ASSUME NEW e \in Elements, DeleteElement(e) PROVE RevokesPolled'
    BY <1>17 DEF DeleteElement
<1>18. ASSUME NEW r \in Requests, Disconnect(r) PROVE RevokesPolled'
    BY <1>18 DEF Disconnect
<1>19. ASSUME NEW j \in Jobs, PollTimeout(j) PROVE RevokesPolled'
    BY <1>19 DEF PollTimeout
<1>20. ASSUME NEW j \in Jobs, PollAgain(j) PROVE RevokesPolled'
    BY <1>20 DEF PollAgain
<1>21. ASSUME NEW j \in Jobs, PollError(j) PROVE RevokesPolled'
    BY <1>21 DEF PollError
<1>22. ASSUME NEW j \in Jobs, PollPending(j) PROVE RevokesPolled'
    BY <1>22 DEF PollPending, Answers
<1>23. ASSUME NEW j \in Jobs, PollFailed(j) PROVE RevokesPolled'
    BY <1>23 DEF PollFailed
<1>24. ASSUME NEW j \in Jobs, PollCompleted(j) PROVE RevokesPolled'
    BY <1>24 DEF PollCompleted
<1>25. ASSUME NEW j \in Jobs, SaveImage(j) PROVE RevokesPolled'
    BY <1>25 DEF SaveImage
<1>26. ASSUME NEW j \in Jobs, SaveImageFails(j) PROVE RevokesPolled'
    BY <1>26 DEF SaveImageFails
<1>27. ASSUME NEW j \in Jobs, RemoteStep(j) PROVE RevokesPolled'
    BY <1>27 DEF RemoteStep
<1>28. ASSUME Crash PROVE RevokesPolled'
    BY <1>28 DEF Crash, Live
<1>29. ASSUME BootCleanup PROVE RevokesPolled'
    BY <1>29 DEF BootCleanup, StuckJobs
<1>30. ASSUME UNCHANGED vars PROVE RevokesPolled'
    BY <1>30 DEF vars
<1> QED
    BY <1>1, <1>2, <1>3, <1>4, <1>5, <1>6, <1>7, <1>8, <1>9, <1>10, <1>11, <1>12,
       <1>13, <1>14, <1>15, <1>16, <1>17, <1>18, <1>19, <1>20, <1>21, <1>22, <1>23,
       <1>24, <1>25, <1>26, <1>27, <1>28, <1>29, <1>30
    DEF Next, Arrival, RequestStep, PollReturns, PollerStep, BootStep

\* Nothing is submitted, polled or saved at the start.
LEMMA InitHookInv == Init => HookInv
<1> SUFFICES ASSUME Init PROVE HookInv
    OBVIOUS
<1>1. /\ \A j \in Jobs : row[j] = "none" /\ ~linked[j] /\ target[j] = NoElement
      /\ \A j \in Jobs : remote[j] = "none" /\ pc[j] = "none"
      /\ \A e \in Elements : elem[e] = "unborn" /\ image[e] = NoJob
      /\ \A r \in Requests : pc[r] = "idle"
      /\ \A t \in Threads : todo[t] = {}
      /\ abandoned = {}
    BY ThreadsAssumption DEF Init, Threads
<1>2. \A j \in Jobs : ~InPlay(j)
    BY <1>1 DEF InPlay, Submitting
<1>3. TodoWhileUpdating /\ OneSubmitter /\ ElementsOutlast /\ PollersFinish /\ RevokesPolled
    BY <1>1 DEF TodoWhileUpdating, OneSubmitter, ElementsOutlast, PollersFinish, RevokesPolled
<1>4. SavesCompleted /\ ImageOfCompletedJob
    BY <1>1 DEF SavesCompleted, ImageOfCompletedJob
<1>5. InPlayAnnounced
    BY <1>2 DEF InPlayAnnounced
<1> QED
    BY <1>3, <1>4, <1>5 DEF HookInv

\* Each part is preserved, given the invariant that is proved already.
LEMMA NextHookInv == IInv /\ HookInv /\ [Next]_vars => HookInv'
<1> SUFFICES ASSUME IInv, HookInv, [Next]_vars PROVE HookInv'
    OBVIOUS
<1>1. TodoWhileUpdating' /\ OneSubmitter'
    BY SubmitterStep DEF IInv, HookInv
<1>2. ElementsOutlast' /\ PollersFinish' /\ SavesCompleted' /\ ImageOfCompletedJob'
    BY PictureStep DEF IInv, HookInv
<1>3. RevokesPolled'
    BY RevokeStep DEF IInv, HookInv
<1>4. InPlayAnnounced'
    BY InPlayStep, SubmittedStep DEF IInv, HookInv
<1> QED
    BY <1>1, <1>2, <1>3, <1>4 DEF HookInv

\* With what hooks and pictures rest on, the invariant is still inductive.
THEOREM HookInvariance == Spec => [](IInv /\ HookInv)
<1>1. Init => IInv /\ HookInv
    BY InitIInv, InitHookInv
<1>2. (IInv /\ HookInv) /\ [Next]_vars => (IInv /\ HookInv)'
    BY NextIInv, NextHookInv
<1> QED
    BY <1>1, <1>2, PTL DEF Spec

\* A terminal row of a job that is or was polled is one some thread is about to prune
\* (updateJobStatus, job_service.go:302-331).
THEOREM TerminalRowsPruned == Spec => []TerminalRowsBeingPruned
<1>1. HookInv => TerminalRowsBeingPruned
    BY DEF HookInv, InPlayAnnounced, InPlay, TerminalRowsBeingPruned
<1> QED
    BY <1>1, HookInvariance, PTL

\* No polled job leaves the table unannounced, whoever removed its row: OnJobTerminal was
\* called, or a thread is on its way to it, or the element was deleted.
THEOREM HooksNotLost == Spec => []NoLostHook
<1>1. HookInv => NoLostHook
    BY DEF HookInv, InPlayAnnounced, InPlay, Announced, NoLostHook
<1> QED
    BY <1>1, HookInvariance, PTL

\* The picture of an element is one the server completed for that element
\* (handleJobSuccess, whatever cancellations and restarts there were).
THEOREM PicturesOfCompleted == Spec => []ImageOfCompletedJob
<1>1. HookInv => ImageOfCompletedJob
    BY DEF HookInv
<1> QED
    BY <1>1, HookInvariance, PTL

-----------------------------------------------------------------------------
(* The job table implements the safety part of the ledger.                  *)

\* A job that is closed for its readers is closed for good.
LEMMA ClosedStays ==
    ASSUME IInv, HookInv, [Next]_vars, NEW j \in Jobs, Phase(j) = "closed"
    PROVE  Phase(j)' = "closed"
<1>1. target[j] # NoElement
    BY DEF Phase
<1>2. HistoryGrows /\ RowsMove /\ SettlersCome
    BY MovesStep DEF StepMoves, IInv, HookInv
<1>3. target'[j] # NoElement
    BY <1>1, <1>2 DEF HistoryGrows
<1>4. CASE row[j] = "none"
  <2>1. row'[j] = "none"
    BY <1>1, <1>4, RebornStep DEF IInv, DeletedRowsStay
  <2> QED
    BY <1>3, <2>1 DEF Phase
<1>5. CASE j \in abandoned
    BY <1>2, <1>3, <1>5 DEF HistoryGrows, Phase
<1>6. CASE row[j] # "none" /\ j \notin abandoned
  <2>1. row[j] \in Terminal /\ \A t \in Threads : ~Settling(t, j)
    BY <1>1, <1>6 DEF Phase
  <2>2. ~InPlay(j)
    BY <2>1 DEF HookInv, InPlayAnnounced
  <2>3. \A t \in Threads : ~Settling(t, j)'
    BY <1>2, <2>1, <2>2 DEF SettlersCome, Active, Terminal
  <2>4. row'[j] = row[j] \/ row'[j] = "none"
    <3>1. ASSUME NEW t \in Threads, UpdateStatus(t), cur[t].job = j PROVE FALSE
      <4>1. pc[t] = "status" /\ cur[t].to \notin Terminal
        BY <2>1, <3>1 DEF Settling, UpdateStatus
      <4>2. t = j
        BY <3>1, <4>1 DEF IInv, UpdatesOwned, UpdatePc
      <4> QED
        BY <2>2, <4>1, <4>2 DEF InPlay
    <3>2. ASSUME NEW t \in Threads, PruneJob(t), cur[t].job = j PROVE row'[j] = "none"
      BY <3>2, PruneEffect DEF IInv
    <3>3. ASSUME NEW r \in Requests, RejectJob(r), cur[r].job = j PROVE FALSE
      BY <2>2, <3>3 DEF InPlay, Submitting, RejectJob
    <3>4. ASSUME NEW r \in Requests, DiscardRow(r), cur[r].job = j
          PROVE  row'[j] = row[j] \/ row'[j] = "none"
      BY <3>4 DEF DiscardRow, IInv, TypeOK
    <3> QED
      BY <1>1, <1>2, <3>1, <3>2, <3>3, <3>4 DEF RowsMove
  <2> QED
    BY <1>3, <2>1, <2>3, <2>4 DEF Phase
<1> QED
    BY <1>4, <1>5, <1>6

\* CreateJob opens its own job and leaves the phase of every other job alone.
LEMMA InsertOpens ==
    ASSUME IInv, HookInv, NEW r \in Requests, InsertJob(r)
    PROVE  \E j \in Jobs : /\ Phase(j) = "new" /\ Phase(j)' = "open"
                           /\ \A k \in Jobs \ {j} : Phase(k)' = Phase(k)
<1>1. PICK j \in Jobs :
          /\ target[j] = NoElement /\ target'[j] # NoElement /\ row'[j] = "queued"
          /\ \A k \in Jobs \ {j} : target'[k] = target[k] /\ row'[k] = row[k]
          /\ pc[r] = "insert" /\ pc'[r] = "submit" /\ cur'[r] = Upd(j, "queued")
          /\ \A q \in Threads \ {r} : pc'[q] = pc[q] /\ cur'[q] = cur[q]
          /\ todo' = todo /\ UNCHANGED <<linked, store, remote, history>>
    BY InsertEffect DEF IInv
<1>2. abandoned' = abandoned /\ j \notin abandoned
    BY <1>1 DEF history, HookInv, OneSubmitter
<1>3. \A t \in Threads, k \in Jobs : Settling(t, k)' <=> Settling(t, k)
    BY <1>1 DEF Settling, Threads
<1>4. Phase(j) = "new" /\ Phase(j)' = "open"
    BY <1>1, <1>2 DEF Phase, Terminal
<1>5. ASSUME NEW k \in Jobs \ {j} PROVE Phase(k)' = Phase(k)
    BY <1>1, <1>2, <1>3 DEF Phase, Threads
<1> QED
    BY <1>4, <1>5

\* Every step of the job table is a step of the ledger, or none.
LEMMA LedgerStep ==
    ASSUME IInv, HookInv, [Next]_vars
    PROVE  [Ledger!Next]_([j \in Jobs |-> Phase(j)])
<1> DEFINE ph == [j \in Jobs |-> Phase(j)]
           S  == {j \in Jobs : Phase(j) = "open" /\ Phase(j)' = "closed"}
<1>1. CASE \E r \in Requests : InsertJob(r)
  <2>1. PICK j \in Jobs : /\ Phase(j) = "new" /\ Phase(j)' = "open"
                          /\ \A k \in Jobs \ {j} : Phase(k)' = Phase(k)
    BY <1>1, InsertOpens
  <2>2. ph[j] = "new" /\ ph' = [ph EXCEPT ![j] = "open"]
    BY <2>1
  <2>3. Ledger!Open(j)
    BY <2>2 DEF Ledger!Open
  <2> QED
    BY <2>3 DEF Ledger!Next
<1>2. CASE ~\E r \in Requests : InsertJob(r)
  <2>1. target' = target
    BY <1>2, MovesStep DEF StepMoves, Births, IInv, HookInv
  <2>2. \A j \in Jobs : Phase(j)' = IF j \in S THEN "closed" ELSE Phase(j)
    BY <2>1, ClosedStays DEF Phase
  <2>3. ph' = [j \in Jobs |-> IF j \in S THEN "closed" ELSE ph[j]]
    BY <2>2
  <2>4. \A j \in S : ph[j] = "open"
    OBVIOUS
  <2>5. CASE S = {}
    BY <2>3, <2>5
  <2>6. CASE S # {}
    <3>1. Ledger!Close(S)
      BY <2>3, <2>4, <2>6 DEF Ledger!Close
    <3> QED
      BY <3>1 DEF Ledger!Next
  <2> QED
    BY <2>5, <2>6
<1> QED
    BY <1>1, <1>2

\* With all its threads the job table keeps the ledger's promise: a job is opened once,
\* is closed once, and stays closed.  That none stays open needs fairness.
THEOREM OpenAndCloseOnce ==
    Spec => Ledger!Init /\ [][Ledger!Next]_([j \in Jobs |-> Phase(j)])
<1>1. Init => Ledger!Init
    BY DEF Init, Ledger!Init, Phase
<1>2. IInv /\ HookInv /\ [Next]_vars => [Ledger!Next]_([j \in Jobs |-> Phase(j)])
    BY LedgerStep
<1> QED
    BY <1>1, <1>2, HookInvariance, PTL DEF Spec

=============================================================================
