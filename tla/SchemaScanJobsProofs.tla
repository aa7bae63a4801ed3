------------------------ MODULE SchemaScanJobsProofs ------------------------
(***************************************************************************)
(* Proofs that the schema scan jobs keep their safety promises for every   *)
(* set of jobs, every bound on the queue and every number of restarts.     *)
(* The invariant ScanInv says what the worker, and the transaction it no   *)
(* longer waits for, know of the job at work.                              *)
(***************************************************************************)
EXTENDS SchemaScanJobs, FiniteSetTheorems, TLAPS

USE DEF tables, Row, Unfinished, Terminal, Rows, Attempts, NoAttempt, Writes, WithStatus

\* What the invariant says of the tables alone.
LEMMA TablesKept ==
    ScanInv /\ UNCHANGED tables
        => OneScan' /\ AttemptsPast' /\ SucceededWasPublished' /\ FailedNotPublished'
BY DEF ScanInv, OneScan, AttemptsPast, SucceededWasPublished, FailedNotPublished, LastAttempt

\* A process that has just started for the first time.
LEMMA InitInv == Init => ScanInv
<1> SUFFICES ASSUME Init PROVE ScanInv
  OBVIOUS
<1> USE DEF Init, NoRow
<1>1. TypeOK
  <2>1. jobs \in [Jobs -> Rows]
    OBVIOUS
  <2>2. claim \in Attempts \cup {NoAttempt}
    OBVIOUS
  <2>3. restarts \in 0..MaxRestarts
    BY BoundsAssumption
  <2> QED
    BY <2>1, <2>2, <2>3 DEF TypeOK
<1>2. LateWrites /\ OneScan /\ ClaimHeld /\ NothingRuns /\ AttemptsPast /\ AnswerKnown
  BY DEF LateWrites, OneScan, ClaimHeld, AtWork, NothingRuns, AttemptsPast, AnswerKnown
<1>3. SucceededWasPublished /\ FailedNotPublished
  BY DEF SucceededWasPublished, FailedNotPublished
<1> QED
  BY <1>1, <1>2, <1>3 DEF ScanInv

\* Clients create jobs and signal the worker.
LEMMA ClientStep == ScanInv /\ Client => ScanInv'
<1> SUFFICES ASSUME ScanInv, Client PROVE ScanInv'
  OBVIOUS
<1> USE DEF Client, Create, Signal, CreatorLeaves, NoRow
<1>0. TypeOK /\ LateWrites /\ OneScan /\ ClaimHeld /\ NothingRuns /\ AttemptsPast /\ AnswerKnown
      /\ SucceededWasPublished /\ FailedNotPublished
  BY DEF ScanInv
<1>1. TypeOK'
  <2>1. jobs' \in [Jobs -> Rows]
    BY <1>0 DEF TypeOK
  <2>2. unsignalled' \in SUBSET Jobs /\ wake' \in BOOLEAN
    BY <1>0 DEF TypeOK
  <2> QED
    BY <1>0, <2>1, <2>2 DEF TypeOK
<1>2. LateWrites'
  BY <1>0, <1>1 DEF LateWrites, TypeOK
<1>3. OneScan' /\ NothingRuns'
  BY <1>0, <1>1 DEF OneScan, NothingRuns, LateWrites, ClaimHeld, AtWork, StillClaimed, TypeOK
<1>4. ClaimHeld'
  BY <1>0, <1>1 DEF ClaimHeld, AtWork, StillClaimed, LateWrites, TypeOK
<1>5. AttemptsPast'
  BY <1>0, <1>1 DEF AttemptsPast, ClaimHeld, AtWork, StillClaimed, TypeOK
<1>6. AnswerKnown'
  BY <1>0, <1>1 DEF AnswerKnown, AttemptsPast, LateWrites, TypeOK
<1>7. SucceededWasPublished'
  BY <1>0, <1>1 DEF SucceededWasPublished, LastAttempt, AnswerKnown, ClaimHeld, AtWork, StillClaimed, TypeOK
<1>8. FailedNotPublished'
  BY <1>0, <1>1 DEF FailedNotPublished, LastAttempt, AnswerKnown, ClaimHeld, AtWork, StillClaimed, TypeOK
<1> QED
  BY <1>1, <1>2, <1>3, <1>4, <1>5, <1>6, <1>7, <1>8 DEF ScanInv

\* The worker's write begins.
LEMMA BeginWriteStep == ScanInv /\ BeginWrite => ScanInv'
<1> SUFFICES ASSUME ScanInv, BeginWrite PROVE ScanInv'
  OBVIOUS
<1> USE DEF BeginWrite, OwnContext
<1>0. TypeOK /\ LateWrites /\ ClaimHeld /\ NothingRuns /\ AnswerKnown
  BY DEF ScanInv
<1>1. TypeOK'
  BY <1>0 DEF TypeOK
<1>2. LateWrites'
  BY <1>0 DEF LateWrites, TypeOK
<1>3. OneScan' /\ AttemptsPast' /\ SucceededWasPublished' /\ FailedNotPublished'
  BY TablesKept
<1>4. NothingRuns'
  BY <1>0 DEF NothingRuns, LateWrites
<1>5. ClaimHeld'
  BY <1>0 DEF ClaimHeld, AtWork, StillClaimed, LateWrites
<1>6. AnswerKnown'
  BY <1>0 DEF AnswerKnown, LateWrites, TypeOK
<1> QED
  BY <1>1, <1>2, <1>3, <1>4, <1>5, <1>6 DEF ScanInv

\* A recovery leaves no job running.
LEMMA RecoverStep == ScanInv /\ Recover => ScanInv'
<1> SUFFICES ASSUME ScanInv, Recover PROVE ScanInv'
  OBVIOUS
<1> USE DEF Recover, Recovered, Executing, GoesOn
<1>0. TypeOK /\ LateWrites /\ OneScan /\ ClaimHeld /\ NothingRuns /\ AttemptsPast /\ AnswerKnown
      /\ SucceededWasPublished /\ FailedNotPublished
  BY DEF ScanInv
<1>1. TypeOK'
  <2>1. jobs' \in [Jobs -> Rows]
    BY <1>0 DEF TypeOK
  <2>2. worker' \in Writes \cup {"Waiting", "Scanning", "Stopped"} /\ begun' \in BOOLEAN
        /\ late' \in Writes \cup {"None"}
    BY <1>0 DEF TypeOK
  <2>3. failed' \in SUBSET Attempts /\ running' \in SUBSET Attempts
    BY <1>0 DEF TypeOK
  <2> QED
    BY <1>0, <2>1, <2>2, <2>3 DEF TypeOK
<1>2. LateWrites'
  BY <1>0, <1>1 DEF LateWrites, TypeOK
<1>3. OneScan' /\ NothingRuns'
  BY <1>0, <1>1 DEF OneScan, NothingRuns, LateWrites, ClaimHeld, AtWork, StillClaimed, TypeOK
<1>4. ClaimHeld'
  BY <1>0, <1>1 DEF ClaimHeld, AtWork, StillClaimed, LateWrites, TypeOK
<1>5. AttemptsPast'
  BY <1>0, <1>1 DEF AttemptsPast, ClaimHeld, AtWork, StillClaimed, TypeOK
<1>6. AnswerKnown'
  BY <1>0, <1>1 DEF AnswerKnown, AttemptsPast, LateWrites, TypeOK
<1>7. SucceededWasPublished'
  BY <1>0, <1>1 DEF SucceededWasPublished, LastAttempt, AnswerKnown, ClaimHeld, AtWork, StillClaimed, TypeOK
<1>8. FailedNotPublished'
  BY <1>0, <1>1 DEF FailedNotPublished, LastAttempt, AnswerKnown, ClaimHeld, AtWork, StillClaimed, TypeOK
<1> QED
  BY <1>1, <1>2, <1>3, <1>4, <1>5, <1>6, <1>7, <1>8 DEF ScanInv

\* A claim is a new attempt.
LEMMA ClaimStep == ScanInv /\ Claim => ScanInv'
<1> SUFFICES ASSUME ScanInv, Claim PROVE ScanInv'
  OBVIOUS
<1> USE DEF Claim, IsNext, ClaimedRevision, Executing, GoesOn
<1>0. TypeOK /\ LateWrites /\ OneScan /\ ClaimHeld /\ NothingRuns /\ AttemptsPast /\ AnswerKnown
      /\ SucceededWasPublished /\ FailedNotPublished
  BY DEF ScanInv
<1>1. TypeOK'
  <2>1. jobs' \in [Jobs -> Rows]
    BY <1>0 DEF TypeOK
  <2>2. worker' \in Writes \cup {"Waiting", "Scanning", "Stopped"} /\ begun' \in BOOLEAN
        /\ late' \in Writes \cup {"None"}
    BY <1>0 DEF TypeOK
  <2>3. claim' \in Attempts \cup {NoAttempt}
    BY <1>0 DEF TypeOK
  <2> QED
    BY <1>0, <2>1, <2>2, <2>3 DEF TypeOK
<1>2. LateWrites'
  BY <1>0, <1>1 DEF LateWrites, TypeOK
<1>3. OneScan' /\ NothingRuns'
  BY <1>0, <1>1 DEF OneScan, NothingRuns, LateWrites, ClaimHeld, AtWork, StillClaimed, TypeOK
<1>4. ClaimHeld'
  BY <1>0, <1>1 DEF ClaimHeld, AtWork, StillClaimed, LateWrites, TypeOK
<1>5. AttemptsPast'
  BY <1>0, <1>1 DEF AttemptsPast, ClaimHeld, AtWork, StillClaimed, TypeOK
<1>6. AnswerKnown'
  BY <1>0, <1>1 DEF AnswerKnown, AttemptsPast, LateWrites, TypeOK
<1>7. SucceededWasPublished'
  BY <1>0, <1>1 DEF SucceededWasPublished, LastAttempt, AnswerKnown, ClaimHeld, AtWork, StillClaimed, TypeOK
<1>8. FailedNotPublished'
  BY <1>0, <1>1 DEF FailedNotPublished, LastAttempt, AnswerKnown, ClaimHeld, AtWork, StillClaimed, TypeOK
<1> QED
  BY <1>1, <1>2, <1>3, <1>4, <1>5, <1>6, <1>7, <1>8 DEF ScanInv

\* No job is pending.
LEMMA FindNothingStep == ScanInv /\ FindNothing => ScanInv'
<1> SUFFICES ASSUME ScanInv, FindNothing PROVE ScanInv'
  OBVIOUS
<1> USE DEF FindNothing, Executing, GoesOn
<1>0. TypeOK /\ LateWrites /\ ClaimHeld /\ NothingRuns /\ AnswerKnown
  BY DEF ScanInv
<1>1. TypeOK'
  BY <1>0, ZenonT(60) DEF TypeOK
<1>2. LateWrites'
  BY <1>0 DEF LateWrites, TypeOK
<1>3. OneScan' /\ AttemptsPast' /\ SucceededWasPublished' /\ FailedNotPublished'
  BY TablesKept
<1>4. NothingRuns'
  BY <1>0 DEF NothingRuns, LateWrites
<1>5. ClaimHeld'
  BY <1>0 DEF ClaimHeld, AtWork, StillClaimed, LateWrites
<1>6. AnswerKnown'
  BY <1>0 DEF AnswerKnown, LateWrites, TypeOK
<1> QED
  BY <1>1, <1>2, <1>3, <1>4, <1>5, <1>6 DEF ScanInv

\* A scan run begins.
LEMMA BeginStep == ScanInv /\ Begin => ScanInv'
<1> SUFFICES ASSUME ScanInv, Begin PROVE ScanInv'
  OBVIOUS
<1> USE DEF Begin, Executing, GoesOn
<1>0. TypeOK /\ LateWrites /\ OneScan /\ ClaimHeld /\ NothingRuns /\ AttemptsPast /\ AnswerKnown
      /\ SucceededWasPublished /\ FailedNotPublished
  BY DEF ScanInv
<1>1. TypeOK'
  <2>1. running' \in SUBSET Attempts
    <3>1. StillClaimed
      BY <1>0 DEF ClaimHeld, AtWork
    <3>2. claim \in Attempts
      BY <1>0, <3>1 DEF StillClaimed, TypeOK
    <3> QED
      BY <1>0, <3>2 DEF TypeOK
  <2>2. worker' \in Writes \cup {"Waiting", "Scanning", "Stopped"} /\ begun' \in BOOLEAN
        /\ late' \in Writes \cup {"None"}
    BY <1>0 DEF TypeOK
  <2> QED
    BY <1>0, <2>1, <2>2 DEF TypeOK
<1>2. LateWrites'
  BY <1>0, <1>1 DEF LateWrites, TypeOK
<1>3. OneScan' /\ NothingRuns'
  BY <1>0, <1>1 DEF OneScan, NothingRuns, LateWrites, ClaimHeld, AtWork, StillClaimed, TypeOK
<1>4. ClaimHeld'
  BY <1>0, <1>1 DEF ClaimHeld, AtWork, StillClaimed, LateWrites, TypeOK
<1>5. AttemptsPast'
  BY <1>0, <1>1 DEF AttemptsPast, ClaimHeld, AtWork, StillClaimed, TypeOK
<1>6. AnswerKnown'
  BY <1>0, <1>1 DEF AnswerKnown, AttemptsPast, LateWrites, TypeOK
<1>7. SucceededWasPublished'
  BY <1>0, <1>1 DEF SucceededWasPublished, LastAttempt, AnswerKnown, ClaimHeld, AtWork, StillClaimed, TypeOK
<1>8. FailedNotPublished'
  BY <1>0, <1>1 DEF FailedNotPublished, LastAttempt, AnswerKnown, ClaimHeld, AtWork, StillClaimed, TypeOK
<1> QED
  BY <1>1, <1>2, <1>3, <1>4, <1>5, <1>6, <1>7, <1>8 DEF ScanInv

\* A snapshot is published.
LEMMA PublishStep == ScanInv /\ Publish => ScanInv'
<1> SUFFICES ASSUME ScanInv, Publish PROVE ScanInv'
  OBVIOUS
<1> USE DEF Publish, Executing, GoesOn, SetCompletion
<1>0. TypeOK /\ LateWrites /\ OneScan /\ ClaimHeld /\ NothingRuns /\ AttemptsPast /\ AnswerKnown
      /\ SucceededWasPublished /\ FailedNotPublished
  BY DEF ScanInv
<1>1. TypeOK'
  BY <1>0, BoundsAssumption DEF TypeOK
<1>2. LateWrites'
  BY <1>0, <1>1 DEF LateWrites, TypeOK
<1>3. OneScan' /\ NothingRuns'
  BY <1>0, <1>1 DEF OneScan, NothingRuns, LateWrites, ClaimHeld, AtWork, StillClaimed, TypeOK
<1>4. ClaimHeld'
  BY <1>0, <1>1 DEF ClaimHeld, AtWork, StillClaimed, LateWrites, TypeOK
<1>5. AttemptsPast'
  BY <1>0, <1>1 DEF AttemptsPast, ClaimHeld, AtWork, StillClaimed, TypeOK
<1>6. AnswerKnown'
  BY <1>0, <1>1 DEF AnswerKnown, AttemptsPast, LateWrites, TypeOK
<1>7. SucceededWasPublished'
  BY <1>0, <1>1 DEF SucceededWasPublished, LastAttempt, AnswerKnown, ClaimHeld, AtWork, StillClaimed, TypeOK
<1>8. FailedNotPublished'
  BY <1>0, <1>1 DEF FailedNotPublished, LastAttempt, AnswerKnown, ClaimHeld, AtWork, StillClaimed, TypeOK
<1> QED
  BY <1>1, <1>2, <1>3, <1>4, <1>5, <1>6, <1>7, <1>8 DEF ScanInv

\* A failed scan run is recorded.
LEMMA RecordStep == ScanInv /\ Record => ScanInv'
<1> SUFFICES ASSUME ScanInv, Record PROVE ScanInv'
  OBVIOUS
<1> USE DEF Record, Executing, GoesOn, SetCompletion, Completion
<1>0. TypeOK /\ LateWrites /\ OneScan /\ ClaimHeld /\ NothingRuns /\ AttemptsPast /\ AnswerKnown
      /\ SucceededWasPublished /\ FailedNotPublished
  BY DEF ScanInv
<1>1. TypeOK'
  BY <1>0, BoundsAssumption DEF TypeOK
<1>2. LateWrites'
  BY <1>0, <1>1 DEF LateWrites, TypeOK
<1>3. OneScan' /\ NothingRuns'
  BY <1>0, <1>1 DEF OneScan, NothingRuns, LateWrites, ClaimHeld, AtWork, StillClaimed, TypeOK
<1>4. ClaimHeld'
  BY <1>0, <1>1 DEF ClaimHeld, AtWork, StillClaimed, LateWrites, TypeOK
<1>5. AttemptsPast'
  BY <1>0, <1>1 DEF AttemptsPast, ClaimHeld, AtWork, StillClaimed, TypeOK
<1>6. AnswerKnown'
  BY <1>0, <1>1 DEF AnswerKnown, AttemptsPast, LateWrites, TypeOK
<1>7. SucceededWasPublished'
  BY <1>0, <1>1 DEF SucceededWasPublished, LastAttempt, AnswerKnown, ClaimHeld, AtWork, StillClaimed, TypeOK
<1>8. FailedNotPublished'
  BY <1>0, <1>1 DEF FailedNotPublished, LastAttempt, AnswerKnown, ClaimHeld, AtWork, StillClaimed, TypeOK
<1> QED
  BY <1>1, <1>2, <1>3, <1>4, <1>5, <1>6, <1>7, <1>8 DEF ScanInv

\* A job is finished.
LEMMA FinishStep == ScanInv /\ Finish => ScanInv'
<1> SUFFICES ASSUME ScanInv, Finish PROVE ScanInv'
  OBVIOUS
<1> USE DEF Finish, Executing, GoesOn
<1>0. TypeOK /\ LateWrites /\ OneScan /\ ClaimHeld /\ NothingRuns /\ AttemptsPast /\ AnswerKnown
      /\ SucceededWasPublished /\ FailedNotPublished
  BY DEF ScanInv
<1>1. TypeOK'
  <2>1. jobs' \in [Jobs -> Rows]
    BY <1>0 DEF StillClaimed, TypeOK
  <2>2. worker' \in Writes \cup {"Waiting", "Scanning", "Stopped"} /\ begun' \in BOOLEAN
        /\ late' \in Writes \cup {"None"}
    BY <1>0 DEF TypeOK
  <2> QED
    BY <1>0, <2>1, <2>2 DEF TypeOK
<1>2. LateWrites'
  BY <1>0, <1>1 DEF LateWrites, TypeOK
<1>3. OneScan' /\ NothingRuns'
  BY <1>0, <1>1 DEF OneScan, NothingRuns, LateWrites, ClaimHeld, AtWork, StillClaimed, TypeOK
<1>4. ClaimHeld'
  BY <1>0, <1>1 DEF ClaimHeld, AtWork, StillClaimed, LateWrites, TypeOK
<1>5. AttemptsPast'
  BY <1>0, <1>1 DEF AttemptsPast, ClaimHeld, AtWork, StillClaimed, TypeOK
<1>6. AnswerKnown'
  BY <1>0, <1>1 DEF AnswerKnown, AttemptsPast, LateWrites, TypeOK
<1>7. SucceededWasPublished'
  BY <1>0, <1>1 DEF SucceededWasPublished, LastAttempt, AnswerKnown, ClaimHeld, AtWork, StillClaimed, TypeOK
<1>8. FailedNotPublished'
  BY <1>0, <1>1 DEF FailedNotPublished, LastAttempt, AnswerKnown, ClaimHeld, AtWork, StillClaimed, TypeOK
<1> QED
  BY <1>1, <1>2, <1>3, <1>4, <1>5, <1>6, <1>7, <1>8 DEF ScanInv

\* A transaction nobody waits for is rolled back.
LEMMA LateFailsStep == ScanInv /\ LateFails => ScanInv'
<1> SUFFICES ASSUME ScanInv, LateFails PROVE ScanInv'
  OBVIOUS
<1> USE DEF LateFails
<1>0. TypeOK /\ LateWrites /\ ClaimHeld /\ NothingRuns /\ AnswerKnown
  BY DEF ScanInv
<1>1. TypeOK'
  BY <1>0 DEF TypeOK
<1>2. LateWrites'
  BY <1>0 DEF LateWrites, TypeOK
<1>3. OneScan' /\ AttemptsPast' /\ SucceededWasPublished' /\ FailedNotPublished'
  BY TablesKept
<1>4. NothingRuns'
  BY <1>0 DEF NothingRuns, LateWrites
<1>5. ClaimHeld'
  BY <1>0 DEF ClaimHeld, AtWork, StillClaimed, LateWrites
<1>6. AnswerKnown'
  BY <1>0 DEF AnswerKnown, LateWrites, TypeOK
<1> QED
  BY <1>1, <1>2, <1>3, <1>4, <1>5, <1>6 DEF ScanInv

\* Scanning ends, or the run or its publication fails.
LEMMA RunStep == ScanInv /\ (RunFails \/ ScanEnds \/ PublicationFails \/ RecordFails) => ScanInv'
<1> SUFFICES ASSUME ScanInv, RunFails \/ ScanEnds \/ PublicationFails \/ RecordFails PROVE ScanInv'
  OBVIOUS
<1> USE DEF RunFails, ScanEnds, PublicationFails, RecordFails, RunFailed, PublicationFailed, Completion
<1>0. TypeOK /\ LateWrites /\ ClaimHeld /\ NothingRuns /\ AnswerKnown
  BY DEF ScanInv
<1>1. TypeOK'
  BY <1>0, ZenonT(60) DEF TypeOK
<1>2. LateWrites'
  BY <1>0 DEF LateWrites, TypeOK
<1>3. OneScan' /\ AttemptsPast' /\ SucceededWasPublished' /\ FailedNotPublished'
  BY TablesKept
<1>4. NothingRuns'
  BY <1>0 DEF NothingRuns, LateWrites
<1>5. ClaimHeld'
  BY <1>0 DEF ClaimHeld, AtWork, StillClaimed, LateWrites
<1>6. AnswerKnown'
  BY <1>0 DEF AnswerKnown, LateWrites, TypeOK
<1> QED
  BY <1>1, <1>2, <1>3, <1>4, <1>5, <1>6 DEF ScanInv

\* The worker stops waiting for its write, which may go on.
LEMMA GivesUpStep == ScanInv /\ GivesUp => ScanInv'
<1> SUFFICES ASSUME ScanInv, GivesUp PROVE ScanInv'
  OBVIOUS
<1> USE DEF GivesUp, OwnContext, RunFailed, PublicationFailed, Completion, StoppedByContext
<1>0. TypeOK /\ LateWrites /\ ClaimHeld /\ NothingRuns /\ AnswerKnown
  BY DEF ScanInv
<1>1. TypeOK'
  BY <1>0 DEF TypeOK
<1>2. LateWrites'
  BY <1>0 DEF LateWrites, TypeOK
<1>3. OneScan' /\ AttemptsPast' /\ SucceededWasPublished' /\ FailedNotPublished'
  BY TablesKept
<1>4. NothingRuns'
  BY <1>0 DEF NothingRuns, LateWrites
<1>5. ClaimHeld'
  BY <1>0 DEF ClaimHeld, AtWork, StillClaimed, LateWrites
<1>6. AnswerKnown'
  BY <1>0 DEF AnswerKnown, LateWrites, TypeOK
<1> QED
  BY <1>1, <1>2, <1>3, <1>4, <1>5, <1>6 DEF ScanInv

\* The worker waits for jobs, or ends.
LEMMA IdleStep == ScanInv /\ (WorkerFails \/ WakesUp \/ StopsWaiting) => ScanInv'
<1> SUFFICES ASSUME ScanInv, WorkerFails \/ WakesUp \/ StopsWaiting PROVE ScanInv'
  OBVIOUS
<1> USE DEF WorkerFails, WakesUp, StopsWaiting, Ticks
<1>0. TypeOK /\ LateWrites /\ ClaimHeld /\ NothingRuns /\ AnswerKnown
  BY DEF ScanInv
<1>1. TypeOK'
  BY <1>0, ZenonT(60) DEF TypeOK
<1>2. LateWrites'
  BY <1>0 DEF LateWrites, TypeOK
<1>3. OneScan' /\ AttemptsPast' /\ SucceededWasPublished' /\ FailedNotPublished'
  BY TablesKept
<1>4. NothingRuns'
  BY <1>0 DEF NothingRuns, LateWrites
<1>5. ClaimHeld'
  BY <1>0 DEF ClaimHeld, AtWork, StillClaimed, LateWrites
<1>6. AnswerKnown'
  BY <1>0 DEF AnswerKnown, LateWrites, TypeOK
<1> QED
  BY <1>1, <1>2, <1>3, <1>4, <1>5, <1>6 DEF ScanInv

\* The process shuts down.
LEMMA StopStep == ScanInv /\ Stop => ScanInv'
<1> SUFFICES ASSUME ScanInv, Stop PROVE ScanInv'
  OBVIOUS
<1> USE DEF Stop
<1>0. TypeOK /\ LateWrites /\ ClaimHeld /\ NothingRuns /\ AnswerKnown
  BY DEF ScanInv
<1>1. TypeOK'
  BY <1>0 DEF TypeOK
<1>2. LateWrites'
  BY <1>0 DEF LateWrites, TypeOK
<1>3. OneScan' /\ AttemptsPast' /\ SucceededWasPublished' /\ FailedNotPublished'
  BY TablesKept
<1>4. NothingRuns'
  BY <1>0 DEF NothingRuns, LateWrites
<1>5. ClaimHeld'
  BY <1>0 DEF ClaimHeld, AtWork, StillClaimed, LateWrites
<1>6. AnswerKnown'
  BY <1>0 DEF AnswerKnown, LateWrites, TypeOK
<1> QED
  BY <1>1, <1>2, <1>3, <1>4, <1>5, <1>6 DEF ScanInv

\* The process ends and starts again.
LEMMA RestartStep == ScanInv /\ Restart => ScanInv'
<1> SUFFICES ASSUME ScanInv, Restart PROVE ScanInv'
  OBVIOUS
<1> USE DEF Restart
<1>0. TypeOK /\ LateWrites /\ ClaimHeld /\ NothingRuns /\ AnswerKnown
  BY DEF ScanInv
<1>1. TypeOK'
  <2>1. claim' \in Attempts \cup {NoAttempt}
    OBVIOUS
  <2>2. restarts' \in 0..MaxRestarts
    BY <1>0, BoundsAssumption DEF TypeOK
  <2> QED
    BY <1>0, <2>1, <2>2 DEF TypeOK
<1>2. LateWrites'
  BY <1>0 DEF LateWrites, TypeOK
<1>3. OneScan' /\ AttemptsPast' /\ SucceededWasPublished' /\ FailedNotPublished'
  BY TablesKept
<1>4. NothingRuns'
  BY <1>0 DEF NothingRuns, LateWrites
<1>5. ClaimHeld'
  BY <1>0 DEF ClaimHeld, AtWork, StillClaimed, LateWrites
<1>6. AnswerKnown'
  BY <1>0 DEF AnswerKnown, LateWrites, TypeOK
<1> QED
  BY <1>1, <1>2, <1>3, <1>4, <1>5, <1>6 DEF ScanInv

\* The worker, its transactions, the clients and restarts keep the invariant.
LEMMA NextInv == ScanInv /\ [Next]_vars => ScanInv'
<1> SUFFICES ASSUME ScanInv, [Next]_vars PROVE ScanInv'
  OBVIOUS
<1>1. CASE UNCHANGED vars
  BY <1>1 DEF vars, ScanInv, TypeOK, LateWrites, OneScan, ClaimHeld, AtWork, StillClaimed, NothingRuns,
              AttemptsPast, AnswerKnown, SucceededWasPublished, FailedNotPublished, LastAttempt
<1>2. CASE Next
  BY <1>2, ClientStep, BeginWriteStep, RecoverStep, ClaimStep, FindNothingStep, BeginStep, PublishStep,
     RecordStep, FinishStep, LateFailsStep, RunStep, GivesUpStep, IdleStep, StopStep, RestartStep
  DEF Next, Transaction, Worker
<1> QED
  BY <1>1, <1>2

\* Whenever the process is killed, shut down and started again, the worker knows the state
\* of the job it works on (processNext, RecoverRunningSchemaScans).
THEOREM ScanInvariant == Spec => []ScanInv
<1> QED
  BY InitInv, NextInv, PTL DEF Spec

\* At most one job is RUNNING, after every recovery and every claim that nobody waited for
\* (ClaimNextSchemaScan, RecoverRunningSchemaScans).
THEOREM OneScanTheorem == Spec => []OneScan
<1>1. ScanInv => OneScan
  BY DEF ScanInv
<1> QED
  BY <1>1, ScanInvariant, PTL

\* FinishSchemaScan never answers ErrJobConflict, which would end the process.
THEOREM FinishNeverConflictsTheorem == Spec => []FinishNeverConflicts
<1>1. ScanInv => FinishNeverConflicts
  BY DEF ScanInv, ClaimHeld, AtWork, FinishNeverConflicts, Executing
<1> QED
  BY <1>1, ScanInvariant, PTL

\* A job is SUCCEEDED only after the snapshot of its last claim was published.
THEOREM SucceededWasPublishedTheorem == Spec => []SucceededWasPublished
<1>1. ScanInv => SucceededWasPublished
  BY DEF ScanInv
<1> QED
  BY <1>1, ScanInvariant, PTL

\* A job that is FAILED never publishes, although a publication may outlive the worker's
\* wait for it: then the job is CANCELLED, or recovered.
THEOREM FailedNotPublishedTheorem == Spec => []FailedNotPublished
<1>1. ScanInv => FailedNotPublished
  BY DEF ScanInv
<1> QED
  BY <1>1, ScanInvariant, PTL

\* No action changes a job that has ended (the status guards of Claim, Recover and Finish).
THEOREM TerminalForeverTheorem == Spec => TerminalForever
<1> DEFINE Kept == \A j \in Jobs : jobs[j].status \in Terminal => jobs'[j] = jobs[j]
<1>1. ScanInv /\ [Next]_vars => [Kept]_vars
  <2> SUFFICES ASSUME ScanInv, Next PROVE Kept
    OBVIOUS
  <2>1. TypeOK
    BY DEF ScanInv
  <2>2. CASE Client
    BY <2>1, <2>2 DEF Client, Create, NoRow, Signal, CreatorLeaves, TypeOK
  <2>3. CASE Recover
    BY <2>1, <2>3 DEF Recover, Recovered, TypeOK
  <2>4. CASE Claim
    BY <2>1, <2>4 DEF Claim, IsNext, TypeOK
  <2>5. CASE Finish
    BY <2>1, <2>5 DEF Finish, StillClaimed, TypeOK
  <2>6. CASE FindNothing \/ Begin \/ Publish \/ Record \/ LateFails
    BY <2>6 DEF FindNothing, Begin, Publish, Record, LateFails
  <2>7. CASE Worker
    BY <2>7 DEF Worker, RunFails, ScanEnds, PublicationFails, RecordFails, WorkerFails, GivesUp, WakesUp,
                StopsWaiting
  <2>8. CASE BeginWrite \/ Stop \/ Restart
    BY <2>8 DEF BeginWrite, Stop, Restart
  <2> QED
    BY <2>2, <2>3, <2>4, <2>5, <2>6, <2>7, <2>8 DEF Next, Transaction
<1> QED
  BY <1>1, ScanInvariant, PTL DEF Spec, TerminalForever

\* A set with one more element.
LEMMA OneMore ==
    ASSUME NEW S, IsFiniteSet(S), NEW x, NEW T, T = S \cup {x}
    PROVE  Cardinality(T) <= Cardinality(S) + 1 /\ Cardinality(T) \in Nat
<1>1. Cardinality(S) \in Nat
  BY FS_CardinalityType
<1>2. Cardinality(T) = IF x \in S THEN Cardinality(S) ELSE Cardinality(S) + 1
  BY FS_AddElement
<1> QED
  BY <1>1, <1>2

\* CreateSchemaScanJob keeps the queue within its bound: nothing else adds a job to it, and
\* a recovery only gives back what was counted.
THEOREM QueueBoundedTheorem == Spec => []QueueBounded
<1> DEFINE Queue == WithStatus(Unfinished)
<1>1. ScanInv => IsFiniteSet(Queue) /\ Cardinality(Queue) \in Nat
  BY BoundsAssumption, FS_Subset, FS_CardinalityType
<1>2. Init => QueueBounded
  <2> SUFFICES ASSUME Init PROVE QueueBounded
    OBVIOUS
  <2>1. Queue = {}
    BY DEF Init, NoRow
  <2> QED
    BY <2>1, FS_EmptySet, BoundsAssumption DEF QueueBounded
<1>3. ScanInv /\ QueueBounded /\ [Next]_vars => QueueBounded'
  <2> SUFFICES ASSUME ScanInv, QueueBounded, [Next]_vars PROVE QueueBounded'
    OBVIOUS
  <2>1. TypeOK
    BY DEF ScanInv
  <2>2. ASSUME Queue' \subseteq Queue PROVE QueueBounded'
    <3>1. Cardinality(Queue') <= Cardinality(Queue) /\ Cardinality(Queue') \in Nat
      BY <1>1, <2>2, FS_Subset, FS_CardinalityType
    <3> QED
      BY <1>1, <3>1, BoundsAssumption DEF QueueBounded
  <2>3. ASSUME NEW j \in Jobs, NEW created \in Stamps, Create(j, created) PROVE QueueBounded'
    <3>1. Queue' = Queue \cup {j}
      BY <2>1, <2>3 DEF Create, NoRow, TypeOK
    <3>2. Cardinality(Queue') <= Cardinality(Queue) + 1 /\ Cardinality(Queue') \in Nat
      BY <1>1, <3>1, OneMore
    <3>3. Cardinality(Queue) < MaxPending
      BY <2>3 DEF Create, HasRoom
    <3> QED
      BY <1>1, <3>2, <3>3, BoundsAssumption DEF QueueBounded
  <2>4. CASE Recover
    BY <2>1, <2>2, <2>4 DEF Recover, Recovered, TypeOK
  <2>5. CASE Claim
    BY <2>1, <2>2, <2>5 DEF Claim, IsNext, TypeOK
  <2>6. CASE Finish
    BY <2>1, <2>2, <2>6 DEF Finish, StillClaimed, TypeOK
  <2>7. CASE UNCHANGED jobs
    BY <2>2, <2>7
  <2>8. CASE Next
    <3>1. Client => UNCHANGED jobs \/ \E j \in Jobs : \E created \in Stamps : Create(j, created)
      BY DEF Client, Signal, CreatorLeaves
    <3>2. FindNothing \/ Begin \/ Publish \/ Record \/ LateFails => UNCHANGED jobs
      BY DEF FindNothing, Begin, Publish, Record, LateFails
    <3>3. Worker \/ BeginWrite \/ Stop \/ Restart => UNCHANGED jobs
      BY DEF Worker, RunFails, ScanEnds, PublicationFails, RecordFails, WorkerFails, GivesUp, WakesUp,
             StopsWaiting, BeginWrite, Stop, Restart
    <3> QED
      BY <2>3, <2>4, <2>5, <2>6, <2>7, <2>8, <3>1, <3>2, <3>3 DEF Next, Transaction
  <2> QED
    BY <2>7, <2>8 DEF vars
<1> QED
  BY <1>2, <1>3, ScanInvariant, PTL DEF Spec

=============================================================================
