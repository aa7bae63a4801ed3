---------------------------- MODULE WriteQueue ----------------------------
(***************************************************************************)
(* The write queue of the SQLite store (internal/platform/sqlite).  Every  *)
(* write of the process is a closure that one worker goroutine runs in a   *)
(* transaction of its own.  Callers hand their write over through a        *)
(* bounded channel and wait for the answer, or stop waiting when their     *)
(* context ends; Close stops the worker, which refuses what is still       *)
(* queued, and then closes the database.                                   *)
(***************************************************************************)
EXTENDS Integers, Sequences

CONSTANTS
    Callers,   \* goroutines, each with one write to do
    Capacity,  \* Config.WriteQueueCapacity
    None       \* no answer yet, or nobody

ASSUME CapacityAssumption == Capacity \in Nat \ {0}

MaximumOutstanding == Capacity + 1

QueueCapacityAsConfigured == Capacity  \* mutated form: no room for the write in progress
\* What the writeQueue channel can hold: as much as there are slots.
QueueCapacity == MaximumOutstanding

\* What the worker answers, and what a caller is told; "Unknown" is the error of the
\* caller's own context.
Outcomes == {"Committed", "Failed", "Refused"}
Answers  == Outcomes \cup {"Full", "Unknown"}

ASSUME NoneAssumption == None \notin Callers \cup Answers

VARIABLES
    caller,      \* where each caller is in Store.write
    answer,      \* what Store.write returned to each caller
    cancelled,   \* the callers whose context has ended
    result,      \* the buffered channel of one answer in each request
    queue,       \* the writeQueue channel
    slots,       \* the number of tokens in the writeSlots channel
    mutex,       \* the caller that holds writeMu while it sends
    worker,      \* where the worker is in its loop
    current,     \* the request the worker has received
    closed,      \* the closed flag, set together with the close of writeStop
    storeClosed, \* Close has closed the database
    committed    \* the callers whose transaction has committed

callers == <<caller, answer, cancelled>>
channels == <<result, queue, slots>>
vars == <<callers, channels, mutex, worker, current, closed, storeClosed, committed>>

\* Type correctness; the channels never exceed their capacity.
TypeOK ==
    /\ caller \in [Callers -> {"Idle", "Sending", "Waiting", "Returned"}]
    /\ answer \in [Callers -> Answers \cup {None}]
    /\ cancelled \in SUBSET Callers
    /\ result \in [Callers -> Outcomes \cup {None}]
    /\ queue \in Seq(Callers) /\ Len(queue) <= QueueCapacity
    /\ slots \in 0..MaximumOutstanding
    /\ mutex \in Callers \cup {None}
    /\ worker \in {"Selecting", "Running", "Answered", "Draining", "Rejected", "Stopped"}
    /\ current \in Callers \cup {None}
    /\ closed \in BOOLEAN
    /\ storeClosed \in BOOLEAN
    /\ committed \in SUBSET Callers

Init ==
    /\ caller = [c \in Callers |-> "Idle"]
    /\ answer = [c \in Callers |-> None]
    /\ cancelled = {}
    /\ result = [c \in Callers |-> None]
    /\ queue = <<>>
    /\ slots = 0
    /\ mutex = None
    /\ worker = "Selecting"
    /\ current = None
    /\ closed = FALSE
    /\ storeClosed = FALSE
    /\ committed = {}

-----------------------------------------------------------------------------
(* A caller in Store.write. *)

Return(c, value) ==
    /\ caller' = [caller EXCEPT ![c] = "Returned"]
    /\ answer' = [answer EXCEPT ![c] = value]

SlotFree == slots < MaximumOutstanding

\* Nothing under the mutex waits: the call is refused, or it has a slot and goes on to send.
RefuseClosed(c) ==
    /\ caller[c] = "Idle"
    /\ mutex = None
    /\ closed
    /\ Return(c, "Refused")
    /\ UNCHANGED <<cancelled, channels, mutex, worker, current, closed, storeClosed, committed>>

RefuseFull(c) ==
    /\ caller[c] = "Idle"
    /\ mutex = None
    /\ ~ closed
    /\ ~ SlotFree
    /\ Return(c, "Full")
    /\ UNCHANGED <<cancelled, channels, mutex, worker, current, closed, storeClosed, committed>>

TakeSlot(c) ==
    /\ caller[c] = "Idle"
    /\ mutex = None
    /\ ~ closed
    /\ SlotFree
    /\ mutex' = c
    /\ slots' = slots + 1
    /\ caller' = [caller EXCEPT ![c] = "Sending"]
    /\ UNCHANGED <<answer, cancelled, result, queue, worker, current, closed, storeClosed,
                   committed>>

\* A send to the channel waits while the channel is full, with the mutex held.
Send(c) ==
    /\ caller[c] = "Sending"
    /\ Len(queue) < QueueCapacity
    /\ queue' = Append(queue, c)
    /\ mutex' = None
    /\ caller' = [caller EXCEPT ![c] = "Waiting"]
    /\ UNCHANGED <<answer, cancelled, result, slots, worker, current, closed, storeClosed,
                   committed>>

\* The caller selects between the answer and the end of its context.
ReceiveResult(c) ==
    /\ caller[c] = "Waiting"
    /\ result[c] # None
    /\ Return(c, result[c])
    /\ UNCHANGED <<cancelled, channels, mutex, worker, current, closed, storeClosed, committed>>

GiveUpAs(c, value) ==
    /\ caller[c] = "Waiting"
    /\ c \in cancelled
    /\ Return(c, value)
    /\ UNCHANGED <<cancelled, channels, mutex, worker, current, closed, storeClosed, committed>>

GiveUpAsFailed(c) == GiveUpAs(c, "Failed")  \* mutated form: reported as a failed write
GiveUp(c) == GiveUpAs(c, "Unknown")

\* The context of a caller ends at any time.
Cancel(c) ==
    /\ c \notin cancelled
    /\ caller[c] # "Returned"
    /\ cancelled' = cancelled \cup {c}
    /\ UNCHANGED <<caller, answer, channels, mutex, worker, current, closed, storeClosed,
                   committed>>

-----------------------------------------------------------------------------
(* The worker. *)

Reply(c, outcome) == result' = [result EXCEPT ![c] = outcome]

\* A request whose context has ended is answered without a transaction.
ReceiveWrite ==
    LET c == Head(queue)
    IN  /\ worker = "Selecting"
        /\ queue # <<>>
        /\ queue' = Tail(queue)
        /\ current' = c
        /\ \/ /\ c \in cancelled
              /\ Reply(c, "Failed")
              /\ worker' = "Answered"
           \/ /\ c \notin cancelled
              /\ worker' = "Running"
              /\ UNCHANGED result
        /\ UNCHANGED <<callers, slots, mutex, closed, storeClosed, committed>>

\* The transaction commits, or any of its steps fails and it is rolled back.
Commit ==
    /\ worker = "Running"
    /\ committed' = committed \cup {current}
    /\ Reply(current, "Committed")
    /\ worker' = "Answered"
    /\ UNCHANGED <<callers, queue, slots, mutex, current, closed, storeClosed>>

RollBack ==
    /\ worker = "Running"
    /\ Reply(current, "Failed")
    /\ worker' = "Answered"
    /\ UNCHANGED <<callers, queue, slots, mutex, current, closed, storeClosed, committed>>

\* The slot is given back only after the answer, in the loop and in the drain.
ReleaseSlot ==
    /\ worker \in {"Answered", "Rejected"}
    /\ slots' = slots - 1
    /\ current' = None
    /\ worker' = IF worker = "Answered" THEN "Selecting" ELSE "Draining"
    /\ UNCHANGED <<callers, result, queue, mutex, closed, storeClosed, committed>>

StopSeenOnReceive == closed /\ queue # <<>>  \* mutated form: looked at when a write comes
\* writeStop is closed.
StopSeen == closed

\* The worker also selects writeStop; with a write ready too the choice is random.
SeeStop ==
    /\ worker = "Selecting"
    /\ StopSeen
    /\ worker' = "Draining"
    /\ UNCHANGED <<callers, channels, mutex, current, closed, storeClosed, committed>>

RejectQueued ==
    LET c == Head(queue)
    IN  /\ worker = "Draining"
        /\ queue # <<>>
        /\ queue' = Tail(queue)
        /\ current' = c
        /\ Reply(c, "Refused")
        /\ worker' = "Rejected"
        /\ UNCHANGED <<callers, slots, mutex, closed, storeClosed, committed>>

\* The drain ends when it finds the channel empty; writeDone is closed.
Drained == queue = <<>>

FinishDrain ==
    /\ worker = "Draining"
    /\ Drained
    /\ worker' = "Stopped"
    /\ UNCHANGED <<callers, channels, mutex, current, closed, storeClosed, committed>>

-----------------------------------------------------------------------------
(* Close, which closeOnce lets run once. *)

StopWorkerUnlocked ==  \* mutated form: the flag is set without the mutex
    /\ ~ closed
    /\ closed' = TRUE
    /\ UNCHANGED <<callers, channels, mutex, worker, current, storeClosed, committed>>

StopWorker ==
    /\ mutex = None
    /\ ~ closed
    /\ closed' = TRUE
    /\ UNCHANGED <<callers, channels, mutex, worker, current, storeClosed, committed>>

CloseStore ==
    /\ closed
    /\ ~ storeClosed
    /\ worker = "Stopped"
    /\ storeClosed' = TRUE
    /\ UNCHANGED <<callers, channels, mutex, worker, current, closed, committed>>

-----------------------------------------------------------------------------

Call(c) ==
    \/ RefuseClosed(c) \/ RefuseFull(c) \/ TakeSlot(c) \/ Send(c)
    \/ ReceiveResult(c) \/ GiveUp(c) \/ Cancel(c)

Work == ReceiveWrite \/ Commit \/ RollBack \/ ReleaseSlot \/ SeeStop \/ RejectQueued \/ FinishDrain

Next == (\E c \in Callers : Call(c)) \/ Work \/ StopWorker \/ CloseStore

Spec == Init /\ [][Next]_vars

\* The worker goroutine runs, a transaction ends, a caller that can send or has an
\* answer runs, and so does Close once it has begun.  Nobody has to write, to cancel or
\* to close.
Fairness ==
    /\ WF_vars(Work)
    /\ WF_vars(CloseStore)
    /\ \A c \in Callers : WF_vars(Send(c)) /\ WF_vars(ReceiveResult(c))

FairSpec == Spec /\ Fairness

-----------------------------------------------------------------------------
(* What the queue promises. *)

\* The caller that holds the mutex finds room in the channel: no other caller, and not
\* Close, ever waits for the mutex longer than two steps of its holder.
SendNeverBlocks == \A c \in Callers : caller[c] = "Sending" => Len(queue) < QueueCapacity

\* A caller that is told what became of its write is told the truth, for good: a write
\* reported as done is durable, and one reported as failed, refused or not accepted never
\* commits later, however cancellation, the worker and Close interleave.
AnswersTellOutcome ==
    \A c \in Callers :
        /\ answer[c] = "Committed" => c \in committed
        /\ answer[c] \in {"Failed", "Refused", "Full"} =>
             /\ c \notin committed
             /\ \A i \in DOMAIN queue : queue[i] # c
             /\ ~ (worker = "Running" /\ current = c)

\* When the database is closed nothing can still reach it: the worker is gone, no write is
\* queued or about to be, and every caller that waits has its answer.
NothingLeftAtClose ==
    storeClosed =>
        /\ worker = "Stopped"
        /\ queue = <<>>
        /\ slots = 0
        /\ \A c \in Callers : /\ caller[c] # "Sending"
                              /\ caller[c] = "Waiting" => result[c] # None

\* Every write that was accepted is answered, also when the store is closed meanwhile.
AcceptedWritesAnswered ==
    \A c \in Callers : caller[c] = "Sending" ~> caller[c] = "Returned"

\* Close returns.
CloseEnds == closed ~> storeClosed

\* Neither a caller nor the goroutine that closes the store waits forever.
CallsEnd == AcceptedWritesAnswered /\ CloseEnds

-----------------------------------------------------------------------------
(* Why these promises hold: the inductive invariant. *)

\* Every token in writeSlots stands for one write: being sent, queued, or in the hand of
\* the worker.
InSend == IF mutex = None THEN 0 ELSE 1
InHand == IF current = None THEN 0 ELSE 1

SlotsCountWrites == slots = InSend + Len(queue) + InHand

Queued(c)     == \E i \in DOMAIN queue : queue[i] = c
InProgress(c) == worker = "Running" /\ current = c

QueuedOnce == \A i, j \in DOMAIN queue : queue[i] = queue[j] => i = j

\* Where the write of one caller is, and what is known of it.
CallerOK(c) ==
    /\ caller[c] = "Sending" <=> mutex = c
    /\ answer[c] = None <=> caller[c] # "Returned"
    /\ caller[c] \in {"Idle", "Sending"} =>
         result[c] = None /\ ~ Queued(c) /\ ~ InProgress(c)
    /\ Queued(c) \/ InProgress(c) => result[c] = None /\ answer[c] \in {None, "Unknown"}
    /\ ~ (Queued(c) /\ InProgress(c))
    /\ caller[c] = "Waiting" => Queued(c) \/ InProgress(c) \/ result[c] # None
    /\ c \in committed <=> result[c] = "Committed"
    /\ answer[c] = "Committed" => result[c] = "Committed"
    /\ answer[c] \in {"Failed", "Refused", "Full"} => result[c] \in {None, answer[c]}

WorkerOK ==
    /\ current # None <=> worker \in {"Running", "Answered", "Rejected"}
    /\ worker \in {"Draining", "Rejected", "Stopped"} => closed
    /\ closed => mutex = None
    /\ worker = "Stopped" => queue = <<>>
    /\ storeClosed => worker = "Stopped"

\* What the queue promises, from where every write is at every moment.
WriteInv ==
    /\ TypeOK
    /\ SlotsCountWrites
    /\ QueuedOnce
    /\ WorkerOK
    /\ \A c \in Callers : CallerOK(c)

=============================================================================
