--------------------------- MODULE SchemaScanJobs ---------------------------
(***************************************************************************)
(* Schema scan jobs (internal/jobs, internal/ingestion/mysql/runner.go).   *)
(* Clients queue jobs; one worker goroutine claims them one at a time,     *)
(* scans the source, publishes what it read and finishes the job.  Every   *)
(* change is a write transaction that the worker waits for; when its       *)
(* context ends it stops waiting, and a transaction that has begun may     *)
(* still commit.  A process that ends leaves jobs and scan runs behind,    *)
(* which the next one recovers.                                            *)
(***************************************************************************)
EXTENDS Integers, FiniteSets

CONSTANTS
    Jobs,        \* job ids
    Stamps,      \* creation times, in the order of their text
    MaxPending,  \* maximumPendingSchemaScans
    MaxRestarts  \* bound: how often the process ends and starts again

ASSUME BoundsAssumption ==
    /\ Jobs \subseteq Int /\ IsFiniteSet(Jobs)
    /\ Stamps \subseteq Int
    /\ MaxPending \in Nat
    /\ MaxRestarts \in Nat

VARIABLES
    jobs,         \* the rows of jobs
    running,      \* the rows of schema_scan_runs that are RUNNING,
    failed,       \* FAILED,
    published,    \* and SUCCEEDED, by the claim they were made for
    unsignalled,  \* jobs whose creator has not yet signalled the worker
    wake,         \* the wake channel holds a signal
    worker,       \* where the worker is; it waits for the write of the same name
    claim,        \* the job it has claimed, with the revision of the claim
    completion,   \* how it finishes the job
    begun,        \* the transaction it waits for has begun
    late,         \* the transaction it no longer waits for, which has begun
    stopping,     \* the context of the worker has ended
    restarts      \* how often the process has started again

tables == <<jobs, running, failed, published>>
vars == <<tables, unsignalled, wake, worker, claim, completion, begun, late, stopping, restarts>>

Unfinished == {"Pending", "Running"}
Terminal == {"Succeeded", "Failed", "Cancelled"}

Row(status, revision, created) == [status |-> status, revision |-> revision, created |-> created]

\* A job that has not been created.
NoRow == Row("Absent", 0, 0)

Rows == [status: {"Absent"} \cup Unfinished \cup Terminal, revision: Nat, created: Stamps \cup {0}]

\* An attempt at a job: its scan run belongs to the claim with this revision.
Attempts == [job: Jobs, revision: Nat]
NoAttempt == [job |-> 0, revision |-> 0]

Writes == {"Recovering", "Claiming", "Beginning", "Publishing", "Recording", "Finishing"}

TypeOK ==
    /\ jobs \in [Jobs -> Rows]
    /\ running \in SUBSET Attempts
    /\ failed \in SUBSET Attempts
    /\ published \in SUBSET Attempts
    /\ unsignalled \in SUBSET Jobs
    /\ wake \in BOOLEAN
    /\ worker \in Writes \cup {"Waiting", "Scanning", "Stopped"}
    /\ claim \in Attempts \cup {NoAttempt}
    /\ completion \in Terminal
    /\ begun \in BOOLEAN
    /\ late \in Writes \cup {"None"}
    /\ stopping \in BOOLEAN
    /\ restarts \in 0..MaxRestarts

Init ==
    /\ jobs = [j \in Jobs |-> NoRow]
    /\ running = {}
    /\ failed = {}
    /\ published = {}
    /\ unsignalled = {}
    /\ wake = FALSE
    /\ worker = "Recovering"
    /\ claim = NoAttempt
    /\ completion = "Failed"
    /\ begun = FALSE
    /\ late = "None"
    /\ stopping = FALSE
    /\ restarts = 0

\* The process ends at any moment, with the transaction under way; another starts.
Restart ==
    /\ restarts < MaxRestarts
    /\ restarts' = restarts + 1
    /\ unsignalled' = {}
    /\ wake' = FALSE
    /\ worker' = "Recovering"
    /\ claim' = NoAttempt
    /\ completion' = "Failed"
    /\ begun' = FALSE
    /\ late' = "None"
    /\ stopping' = FALSE
    /\ UNCHANGED tables

\* The process shuts down: the context of the worker ends.
Stop ==
    /\ ~ stopping
    /\ stopping' = TRUE
    /\ UNCHANGED <<tables, unsignalled, wake, worker, claim, completion, begun, late, restarts>>

-----------------------------------------------------------------------------
(* Clients: SchemaScanCoordinator.Start. *)

WithStatus(statuses) == {j \in Jobs : jobs[j].status \in statuses}

HasRoom == Cardinality(WithStatus(Unfinished)) < MaxPending

Create(j, created) ==
    /\ jobs[j] = NoRow
    /\ HasRoom
    /\ jobs' = [jobs EXCEPT ![j] = Row("Pending", 1, created)]
    /\ unsignalled' = unsignalled \cup {j}
    /\ UNCHANGED <<running, failed, published, wake, worker, claim, completion, begun, late,
                   stopping, restarts>>

\* The wake channel holds one signal; more are dropped.
Signal(j) ==
    /\ j \in unsignalled
    /\ unsignalled' = unsignalled \ {j}
    /\ wake' = TRUE
    /\ UNCHANGED <<tables, worker, claim, completion, begun, late, stopping, restarts>>

\* A client whose context ended before the answer of its write does not signal.
CreatorLeaves(j) ==
    /\ j \in unsignalled
    /\ unsignalled' = unsignalled \ {j}
    /\ UNCHANGED <<tables, wake, worker, claim, completion, begun, late, stopping, restarts>>

-----------------------------------------------------------------------------
(* The transactions.  Store.write runs one at a time in the order of their calls. *)

\* The write the worker waits for has a context of its own: one second, whatever happens.
OwnContextOrPublishing ==  \* mutated form: a publication also has one second
    worker \in {"Publishing", "Recording"} \/ (worker = "Finishing" /\ completion = "Cancelled")
OwnContext == worker = "Recording" \/ (worker = "Finishing" /\ completion = "Cancelled")

\* A refused write of Recovering, Claiming and Finishing is tried again, so it is as if
\* the write had not been made yet.
BeginWrite ==
    /\ worker \in Writes
    /\ ~ begun
    /\ late = "None"
    /\ ~ stopping \/ OwnContext
    /\ begun' = TRUE
    /\ UNCHANGED <<tables, unsignalled, wake, worker, claim, completion, late, stopping, restarts>>

Executing(write) == late = write \/ (late = "None" /\ worker = write /\ begun)

\* The transaction has ended.  The worker goes on, unless it had stopped waiting.
GoesOn(next) ==
    IF late = "None"
    THEN worker' = next /\ begun' = FALSE /\ UNCHANGED late
    ELSE late' = "None" /\ UNCHANGED <<worker, begun>>

\* Completion of a run that failed.
Completion == IF stopping THEN "Cancelled" ELSE "Failed"

SetCompletion(status) == completion' = IF late = "None" THEN status ELSE completion

\* RecoverRunningSchemaScans of a row of jobs.
RecoveredUnchanged(row) == row  \* mutated form: only scan runs are recovered
RecoveredAll(row) ==  \* mutated form: also those that have ended
    IF row.status \notin {"Absent", "Pending"} THEN Row("Pending", row.revision + 1, row.created) ELSE row
Recovered(row) ==
    IF row.status = "Running" THEN Row("Pending", row.revision + 1, row.created) ELSE row

Recover ==
    /\ Executing("Recovering")
    /\ failed' = failed \cup running
    /\ running' = {}
    /\ jobs' = [j \in Jobs |-> Recovered(jobs[j])]
    /\ GoesOn("Claiming")
    /\ UNCHANGED <<published, unsignalled, wake, claim, completion, stopping, restarts>>

\* The first in the order of created_at, id.
IsNext(j) ==
    /\ jobs[j].status = "Pending"
    /\ \A k \in WithStatus({"Pending"}) :
          \/ jobs[j].created < jobs[k].created
          \/ jobs[j].created = jobs[k].created /\ j <= k

ClaimedRevisionRead(j) == jobs[j].revision  \* mutated form: the revision before the update
ClaimedRevision(j) == jobs[j].revision + 1

Claim ==
    /\ Executing("Claiming")
    /\ \E j \in Jobs :
          /\ IsNext(j)
          /\ jobs' = [jobs EXCEPT ![j] = Row("Running", @.revision + 1, @.created)]
          /\ claim' = IF late = "None" THEN [job |-> j, revision |-> ClaimedRevision(j)] ELSE claim
    /\ GoesOn("Beginning")
    /\ UNCHANGED <<running, failed, published, unsignalled, wake, completion, stopping, restarts>>

FindNothing ==
    /\ Executing("Claiming")
    /\ WithStatus({"Pending"}) = {}
    /\ GoesOn("Waiting")
    /\ UNCHANGED <<tables, unsignalled, wake, claim, completion, stopping, restarts>>

\* BeginSchemaScan.
Begin ==
    /\ Executing("Beginning")
    /\ running' = running \cup {claim}
    /\ GoesOn("Scanning")
    /\ UNCHANGED <<jobs, failed, published, unsignalled, wake, claim, completion, stopping, restarts>>

\* PublishStartedSnapshot, of a run that is still RUNNING.
Publish ==
    /\ Executing("Publishing")
    /\ claim \in running
    /\ running' = running \ {claim}
    /\ published' = published \cup {claim}
    /\ SetCompletion("Succeeded")
    /\ GoesOn("Finishing")
    /\ UNCHANGED <<jobs, failed, unsignalled, wake, claim, stopping, restarts>>

\* FailSchemaScan, of a run that is still RUNNING.
Record ==
    /\ Executing("Recording")
    /\ claim \in running
    /\ running' = running \ {claim}
    /\ failed' = failed \cup {claim}
    /\ SetCompletion(Completion)
    /\ GoesOn("Finishing")
    /\ UNCHANGED <<jobs, published, unsignalled, wake, claim, stopping, restarts>>

\* FinishSchemaScan checks that the claim is still the last change of the job.
StillClaimed ==
    claim.job \in Jobs /\ jobs[claim.job].status = "Running" /\ jobs[claim.job].revision = claim.revision

Finish ==
    /\ Executing("Finishing")
    /\ StillClaimed
    /\ jobs' = [jobs EXCEPT ![claim.job] = Row(completion, @.revision + 1, @.created)]
    /\ GoesOn("Claiming")
    /\ UNCHANGED <<running, failed, published, unsignalled, wake, claim, completion, stopping, restarts>>

\* A transaction that nobody waits for is rolled back.
LateFails ==
    /\ late # "None"
    /\ late' = "None"
    /\ UNCHANGED <<tables, unsignalled, wake, worker, claim, completion, begun, stopping, restarts>>

-----------------------------------------------------------------------------
(* The worker between its writes. *)

RunFailed ==
    /\ worker' = "Finishing"
    /\ completion' = Completion

\* The failure of a publication is recorded.
PublicationFailureIgnored == worker' = "Finishing" /\ completion' = "Succeeded"  \* mutated form
PublicationFailed == worker' = "Recording" /\ UNCHANGED completion

\* The source is not found, has no DSN, or its scan run is refused or rolled back; no
\* scan run is there to be failed.
RunFails ==
    /\ worker = "Beginning"
    /\ late = "None"
    /\ RunFailed
    /\ begun' = FALSE
    /\ UNCHANGED <<tables, unsignalled, wake, claim, late, stopping, restarts>>

\* Connecting to the source and reading it succeeds or fails.
ScanEnds ==
    /\ worker = "Scanning"
    /\ worker' \in {"Publishing", "Recording"}
    /\ UNCHANGED <<tables, unsignalled, wake, claim, completion, begun, late, stopping, restarts>>

\* The publication is invalid, refused or rolled back.
PublicationFails ==
    /\ worker = "Publishing"
    /\ late = "None"
    /\ PublicationFailed
    /\ begun' = FALSE
    /\ UNCHANGED <<tables, unsignalled, wake, claim, late, stopping, restarts>>

\* The failure of the scan run is not recorded: refused or rolled back.  There is one try.
RecordFails ==
    /\ worker = "Recording"
    /\ begun => late = "None"
    /\ RunFailed
    /\ begun' = FALSE
    /\ UNCHANGED <<tables, unsignalled, wake, claim, late, stopping, restarts>>

\* Any other error, a conflict too, ends the worker, and with it the process.
WorkerFails ==
    /\ worker \in {"Recovering", "Claiming", "Finishing"}
    /\ begun
    /\ worker' = "Stopped"
    /\ begun' = FALSE
    /\ UNCHANGED <<tables, unsignalled, wake, claim, completion, late, stopping, restarts>>

StoppedAsIdle == "Waiting"  \* mutated form: as if there were no job
\* Claiming finds the context of the worker ended.
StoppedByContext == "Stopped"

\* The context ends before the answer.  A transaction that has begun goes on without the
\* worker; one that has not will not begin.
GivesUp ==
    /\ stopping \/ OwnContext
    /\ late' = IF begun THEN worker ELSE late
    /\ begun' = FALSE
    /\ \/ worker = "Recovering" /\ worker' = "Claiming" /\ UNCHANGED completion
       \/ worker = "Claiming" /\ worker' = StoppedByContext /\ UNCHANGED completion
       \/ worker \in {"Beginning", "Recording"} /\ RunFailed
       \/ worker = "Publishing" /\ PublicationFailed
       \/ worker = "Finishing" /\ worker' = "Stopped" /\ UNCHANGED completion
    /\ UNCHANGED <<tables, unsignalled, wake, claim, stopping, restarts>>

TicksNever == FALSE  \* mutated form: no ticker
\* The ticker of schemaScanPollInterval.
Ticks == TRUE

WakesUp ==
    /\ worker = "Waiting"
    /\ worker' = "Claiming"
    /\ \/ wake /\ wake' = FALSE
       \/ Ticks /\ UNCHANGED wake
    /\ UNCHANGED <<tables, unsignalled, claim, completion, begun, late, stopping, restarts>>

StopsWaiting ==
    /\ worker = "Waiting"
    /\ stopping
    /\ worker' = "Stopped"
    /\ UNCHANGED <<tables, unsignalled, wake, claim, completion, begun, late, stopping, restarts>>

-----------------------------------------------------------------------------

Client == \E j \in Jobs : (\E created \in Stamps : Create(j, created)) \/ Signal(j) \/ CreatorLeaves(j)

Transaction == Recover \/ Claim \/ FindNothing \/ Begin \/ Publish \/ Record \/ Finish \/ LateFails

Worker ==
    \/ RunFails \/ ScanEnds \/ PublicationFails \/ RecordFails \/ WorkerFails
    \/ GivesUp \/ WakesUp \/ StopsWaiting

Next == Client \/ BeginWrite \/ Transaction \/ Worker \/ Stop \/ Restart

Spec == Init /\ [][Next]_vars

\* Transactions begin and end, and the worker goroutine runs: its scan ends by its
\* timeouts, and it notices that its context has ended.  Nobody has to create a job or to
\* stop the process.
Fairness ==
    /\ WF_vars(BeginWrite)
    /\ WF_vars(Transaction \/ RunFails \/ PublicationFails \/ RecordFails \/ WorkerFails)
    /\ WF_vars(ScanEnds)
    /\ WF_vars(GivesUp)
    /\ WF_vars(WakesUp)
    /\ WF_vars(StopsWaiting)

FairSpec == Spec /\ Fairness

-----------------------------------------------------------------------------
(* What the jobs promise. *)

\* The queue of jobs keeps its bound, also when a restart gives a running job back.
QueueBounded == Cardinality(WithStatus(Unfinished)) <= MaxPending

\* One job runs at a time, across restarts and claims nobody waited for.
OneScan == \A j, k \in WithStatus({"Running"}) : j = k

\* The worker finishes the job it claimed: no finish meets another revision, which would
\* end the process.
FinishNeverConflicts == Executing("Finishing") => StillClaimed

LastAttempt(j) == [job |-> j, revision |-> jobs[j].revision - 1]

\* A job that succeeded has published its snapshot.
SucceededWasPublished ==
    \A j \in WithStatus({"Succeeded"}) : LastAttempt(j) \in published

\* A job that failed has not, and its publication cannot come later.  (One that was
\* cancelled may have: its worker stopped waiting for the answer.)
FailedNotPublished ==
    \A j \in WithStatus({"Failed"}) : LastAttempt(j) \notin published

\* The inductive invariant behind the properties above.

\* The worker is running its claim.
AtWork == worker \in {"Beginning", "Scanning", "Publishing", "Recording", "Finishing"}

\* What each transaction that nobody waits for finds the worker at.
LateWrites ==
    /\ begun => worker \in Writes /\ late = "None"
    /\ late = "Recovering" => worker \in {"Claiming", "Stopped"}
    /\ late \in {"Beginning", "Publishing", "Recording"} => worker \in {"Recording", "Finishing", "Stopped"}
    /\ late \in {"Claiming", "Finishing"} => worker = "Stopped"
    /\ late \notin {"None", "Recording"} => stopping
    /\ worker = "Finishing" /\ completion = "Cancelled" => stopping

\* The job at work is the claimed one, and at the revision of the claim.
ClaimHeld ==
    AtWork \/ late \in {"Beginning", "Publishing", "Recording", "Finishing"} => StillClaimed

\* A claim that will be made finds no running job.
NothingRuns ==
    \/ worker \in {"Claiming", "Waiting"} /\ ~ stopping
    \/ worker = "Claiming" /\ begun
    \/ late = "Claiming"
    => WithStatus({"Running"}) = {}

\* No attempt is ahead of its job: the next claim is a new attempt.
AttemptsPast == \A a \in running \cup failed \cup published : a.revision <= jobs[a.job].revision

\* What the worker thinks of its publication is so, unless it is shutting down.
AnswerKnown ==
    /\ worker \in {"Beginning", "Scanning", "Publishing"} => claim \notin published
    /\ worker = "Recording" /\ ~ stopping => claim \notin published
    /\ worker = "Finishing" /\ completion = "Failed" => claim \notin published /\ late # "Publishing"
    /\ late = "Finishing" /\ completion = "Failed" => claim \notin published
    /\ (worker = "Finishing" \/ late = "Finishing") /\ completion = "Succeeded" => claim \in published

\* Whatever is interrupted, the worker knows the state of the job it works on, and what it
\* reports of the publication is so.
ScanInv ==
    /\ TypeOK
    /\ LateWrites
    /\ OneScan
    /\ ClaimHeld
    /\ NothingRuns
    /\ AttemptsPast
    /\ AnswerKnown
    /\ SucceededWasPublished
    /\ FailedNotPublished

\* A job ends once.
TerminalForever ==
    [][\A j \in Jobs : jobs[j].status \in Terminal => jobs'[j] = jobs[j]]_vars

\* Every job ends, as long as the worker runs: whether or not its creator signalled.
JobsEnd ==
    \A j \in Jobs :
        jobs[j].status \in Unfinished ~> (jobs[j].status \in Terminal \/ worker = "Stopped")

\* The worker does not keep the process from shutting down.
WorkerStops == stopping ~> (worker = "Stopped" \/ ~ stopping)

\* "Failed connection/query/publication attempts remain visible as failed schema_scan_runs
\* and jobs" (README.md): a job that failed leaves no scan run that looks as if it ran.
FailedAttemptsVisible ==
    \A j \in WithStatus({"Failed"}) : LastAttempt(j) \notin running

=============================================================================
