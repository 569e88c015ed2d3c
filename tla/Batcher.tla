------------------------------ MODULE Batcher -------------------------------
(***************************************************************************)
(* The batcher of state fetches (order-watcher/src/ethereum/batcher.rs).   *)
(*                                                                         *)
(* Callers of fetch_state put jobs into one of two lanes under a mutex and *)
(* wait on a oneshot channel.  A background task, run, is woken through a  *)
(* tokio::sync::Notify, which remembers at most one notification, by a     *)
(* cork timer started when a lane was empty or by a full batch.  It then   *)
(* takes batches until it finds the lanes empty, one semaphore permit and  *)
(* one spawned task each.  That task makes the eth_call, gives the permit  *)
(* back and sends the results to the callers.                              *)
(*                                                                         *)
(* Not modelled: the length of the cork timers (a timer fires at any time) *)
(* and the contract's answer itself, of which only the order it is about   *)
(* and the version of the chain it was computed from are kept.             *)
(***************************************************************************)
EXTENDS Integers, Sequences, FiniteSets, SequencesExt

CONSTANTS
    Callers,     \* concurrent calls of fetch_state
    Orders,      \* the orders they ask about
    BatchSize,   \* options.batch_size
    Concurrent,  \* options.concurrent
    MaxHeight,   \* bound: versions of the chain's state
    MaxTimers,   \* bound: cork timers running at once
    None,        \* no call
    Failed       \* an Err answer

(* With zero of either, no fetch ever completes.                           *)
ASSUME SizeAssumption ==
    BatchSize \in Nat \ {0} /\ Concurrent \in Nat \ {0}

ASSUME BatcherBoundAssumption == MaxHeight \in Nat /\ MaxTimers \in Nat

Job == [order : Orders, senders : SUBSET Callers]
Call == [order : Orders, priority : BOOLEAN, asked : 0 .. MaxHeight]
State == [order : Orders, at : 0 .. MaxHeight]

ASSUME NoneAssumption == None \notin Call /\ Failed \notin Seq(State)

VARIABLES
    height,    \* the version of the chain's state
    pending,   \* pending[c]: the call c waits for, or None
    dropped,   \* callers whose future was dropped while they waited
    priority,  \* the jobs of submitted orders
    queue,     \* the jobs of revalidations
    timers,    \* the number of cork timers running
    notify,    \* has the Notify a stored notification?
    run,       \* the background task: "wait", "acquire" or "take"
    permits,   \* the free permits of the semaphore
    calls,     \* the batches being fetched
    replies    \* the fetched batches whose results are being sent

laneVars == <<priority, queue>>
wakeVars == <<timers, notify>>
callerVars == <<pending, dropped>>
vars == <<height, callerVars, laneVars, wakeVars, run, permits, calls, replies>>

-----------------------------------------------------------------------------
Least(a, b) == IF a <= b THEN a ELSE b

Has(lane, o) == \E i \in DOMAIN lane : lane[i].order = o

(* The job for o, if the lane Has one; QueuedOnce: there is no other.      *)
Position(lane, o) == CHOOSE i \in DOMAIN lane : lane[i].order = o

Senders(lane, o) == lane[Position(lane, o)].senders

(* Mutant of Join: the senders already queued are overwritten.             *)
MutantJoin(lane, o, c) == [lane EXCEPT ![Position(lane, o)].senders = {c}]

(* existing.1.append(&mut job.1)                                           *)
Join(lane, o, c) == [lane EXCEPT ![Position(lane, o)].senders = @ \cup {c}]

(* Mutant of Without: a promoted job is copied, not moved.                 *)
MutantWithout(lane, o) == lane

(* self.queue.remove(existing)                                             *)
Without(lane, o) == RemoveAt(lane, Position(lane, o))

NewJob(o, cs) == [order |-> o, senders |-> cs]

Waiters(jobs) == UNION {j.senders : j \in ToSet(jobs)}

-----------------------------------------------------------------------------
Init ==
    /\ height = 0
    /\ pending = [c \in Callers |-> None]
    /\ dropped = {}
    /\ priority = <<>> /\ queue = <<>>
    /\ timers = 0 /\ notify = FALSE
    /\ run = "wait"
    /\ permits = Concurrent
    /\ calls = {} /\ replies = {}

(* The chain moves on.                                                     *)
Advance ==
    /\ height < MaxHeight
    /\ height' = height + 1
    /\ UNCHANGED <<callerVars, laneVars, wakeVars, run, permits, calls, replies>>

-----------------------------------------------------------------------------
(* fetch_state and the two insert functions, all under the mutex.          *)

(* State::insert: a job for an order that is already queued joins the      *)
(* queued job, which moves to the priority lane if the new job has         *)
(* priority.                                                               *)
Merge(c, o, isPriority) ==
    \/ /\ Has(priority, o)
       /\ priority' = Join(priority, o, c)
       /\ UNCHANGED queue
    \/ /\ ~Has(priority, o) /\ Has(queue, o) /\ isPriority
       /\ priority' = Append(priority, NewJob(o, Senders(queue, o) \cup {c}))
       /\ queue' = Without(queue, o)
    \/ /\ ~Has(priority, o) /\ Has(queue, o) /\ ~isPriority
       /\ queue' = Join(queue, o, c)
       /\ UNCHANGED priority
    \/ /\ ~Has(priority, o) /\ ~Has(queue, o) /\ isPriority
       /\ priority' = Append(priority, NewJob(o, {c}))
       /\ UNCHANGED queue
    \/ /\ ~Has(priority, o) /\ ~Has(queue, o) /\ ~isPriority
       /\ queue' = Append(queue, NewJob(o, {c}))
       /\ UNCHANGED priority

(* Mutants of Signal: the lane is looked at after the insertion; only the  *)
(* priority lane has a cork timer.                                         *)
MutantSignalLate(isPriority) ==
    LET isEmpty == IF isPriority THEN priority' = <<>> ELSE queue' = <<>>
        full    == Len(priority') + Len(queue') = BatchSize
    IN  /\ notify' = (notify \/ full)
        /\ timers' = IF ~full /\ isEmpty THEN timers + 1 ELSE timers

MutantSignalPriority(isPriority) ==
    LET full == Len(priority') + Len(queue') = BatchSize
    IN  /\ notify' = (notify \/ full)
        /\ timers' = IF ~full /\ isPriority /\ priority = <<>> THEN timers + 1 ELSE timers
        /\ timers' <= MaxTimers

(* Batcher::insert: a full batch notifies at once; the first job of a lane *)
(* starts a cork timer.                                                    *)
Signal(isPriority) ==
    LET wasEmpty == IF isPriority THEN priority = <<>> ELSE queue = <<>>
        full     == Len(priority') + Len(queue') = BatchSize
    IN  /\ notify' = (notify \/ full)
        /\ timers' = IF ~full /\ wasEmpty THEN timers + 1 ELSE timers
        /\ timers' <= MaxTimers

(* Mutant of FetchState: a job that is queued already is joined where it is. *)
MutantFetchState(c, o, isPriority) ==
    /\ pending[c] = None
    /\ pending' = [pending EXCEPT ![c] =
          [order |-> o, priority |-> isPriority, asked |-> height]]
    /\ Merge(c, o, isPriority /\ ~Has(queue, o))
    /\ Signal(isPriority)
    /\ UNCHANGED <<height, dropped, run, permits, calls, replies>>

FetchState(c, o, isPriority) ==
    /\ pending[c] = None
    /\ pending' = [pending EXCEPT ![c] =
          [order |-> o, priority |-> isPriority, asked |-> height]]
    /\ Merge(c, o, isPriority)
    /\ Signal(isPriority)
    /\ UNCHANGED <<height, dropped, run, permits, calls, replies>>

(* The caller stops waiting; its sender stays in the job.                  *)
DropCall(c) ==
    /\ pending[c] # None /\ c \notin dropped
    /\ dropped' = dropped \cup {c}
    /\ UNCHANGED <<height, pending, laneVars, wakeVars, run, permits, calls,
                   replies>>

(* A cork timer ends: notify_one.                                          *)
TimerFires ==
    /\ timers > 0
    /\ timers' = timers - 1
    /\ notify' = TRUE
    /\ UNCHANGED <<height, callerVars, laneVars, run, permits, calls, replies>>

-----------------------------------------------------------------------------
(* Batcher::run                                                            *)

Notified ==
    /\ run = "wait" /\ notify
    /\ notify' = FALSE
    /\ run' = "acquire"
    /\ UNCHANGED <<height, callerVars, laneVars, timers, permits, calls, replies>>

AcquirePermit ==
    /\ run = "acquire" /\ permits > 0
    /\ permits' = permits - 1
    /\ run' = "take"
    /\ UNCHANGED <<height, callerVars, laneVars, wakeVars, calls, replies>>

(* State::take_batch: the priority lane first, the rest from the other.    *)
FromPriority == Least(Len(priority), BatchSize)
FromQueue    == Least(Len(queue), BatchSize - FromPriority)
NextBatch    == SubSeq(priority, 1, FromPriority) \o SubSeq(queue, 1, FromQueue)

(* Mutant of TakeBatch: the loop gives the permit back as well.            *)
MutantTakeBatch ==
    /\ run = "take" /\ NextBatch # <<>>
    /\ priority' = SubSeq(priority, FromPriority + 1, Len(priority))
    /\ queue' = SubSeq(queue, FromQueue + 1, Len(queue))
    /\ calls' = calls \cup {NextBatch}
    /\ run' = "acquire"
    /\ permits' = permits + 1
    /\ UNCHANGED <<height, callerVars, wakeVars, replies>>

(* A non-empty batch gets a task of its own, which owns the permit.        *)
TakeBatch ==
    /\ run = "take" /\ NextBatch # <<>>
    /\ priority' = SubSeq(priority, FromPriority + 1, Len(priority))
    /\ queue' = SubSeq(queue, FromQueue + 1, Len(queue))
    /\ calls' = calls \cup {NextBatch}
    /\ run' = "acquire"
    /\ UNCHANGED <<height, callerVars, wakeVars, permits, replies>>

(* Mutant of FindEmpty: the permit is kept.                                *)
MutantFindEmpty ==
    /\ run = "take" /\ NextBatch = <<>>
    /\ run' = "wait"
    /\ UNCHANGED <<height, callerVars, laneVars, wakeVars, permits, calls, replies>>

(* Nothing to take: the permit is dropped and the task waits again.        *)
FindEmpty ==
    /\ run = "take" /\ NextBatch = <<>>
    /\ permits' = permits + 1
    /\ run' = "wait"
    /\ UNCHANGED <<height, callerVars, laneVars, wakeVars, calls, replies>>

-----------------------------------------------------------------------------
(* The task of a batch.                                                    *)

(* Mutant of Output: the results come in another order than the jobs.      *)
MutantOutput(batch) ==
    [i \in DOMAIN batch |->
        [order |-> batch[Len(batch) + 1 - i].order, at |-> height]]

(* The eth_call of the contract: one state per order, in the same order.   *)
Output(batch) ==
    [i \in DOMAIN batch |-> [order |-> batch[i].order, at |-> height]]

(* fetch_batch_state returns and the permit is given back.                 *)
FetchBatch(batch) ==
    /\ batch \in calls
    /\ calls' = calls \ {batch}
    /\ permits' = permits + 1
    /\ \E output \in {Output(batch), Failed} :
          replies' = replies \cup {[jobs |-> batch, output |-> output]}
    /\ UNCHANGED <<height, callerVars, laneVars, wakeVars, run>>

(* Results go to the senders of the jobs they are zipped with.             *)
Result(r, i) == IF r.output = Failed THEN Failed ELSE r.output[i]

SendResult(r, i, c) ==
    LET rest == [r EXCEPT !.jobs[i].senders = @ \ {c}]
    IN  /\ r \in replies
        /\ i \in DOMAIN r.jobs
        /\ c \in r.jobs[i].senders
        /\ replies' = (replies \ {r}) \cup
                         (IF Waiters(rest.jobs) = {} THEN {} ELSE {rest})
        /\ pending' = [pending EXCEPT ![c] = None]
        /\ dropped' = dropped \ {c}
        /\ UNCHANGED <<height, laneVars, wakeVars, run, permits, calls>>

-----------------------------------------------------------------------------
RunStep == Notified \/ AcquirePermit \/ TakeBatch \/ FindEmpty

FetchFor(c) == \E batch \in calls : c \in Waiters(batch) /\ FetchBatch(batch)

SendTo(c) ==
    \E r \in replies : \E i \in DOMAIN r.jobs : SendResult(r, i, c)

(* Every step but the delivery of a result.                                *)
SilentStep ==
    \/ Advance
    \/ \E c \in Callers :
          \/ \E o \in Orders, isPriority \in BOOLEAN : FetchState(c, o, isPriority)
          \/ DropCall(c)
    \/ TimerFires
    \/ RunStep
    \/ \E batch \in calls : FetchBatch(batch)

Next == SilentStep \/ \E c \in Callers : SendTo(c)

Spec == Init /\ [][Next]_vars

(* Timers end, the background task and the batch tasks are polled, and the *)
(* node answers every eth_call or fails it.                                *)
Fairness ==
    /\ WF_vars(TimerFires)
    /\ WF_vars(RunStep)
    /\ \A c \in Callers : WF_vars(FetchFor(c)) /\ WF_vars(SendTo(c))

FairSpec == Spec /\ Fairness

-----------------------------------------------------------------------------
(* Properties.                                                             *)

TypeOK ==
    /\ height \in 0 .. MaxHeight
    /\ pending \in [Callers -> Call \cup {None}]
    /\ dropped \subseteq Callers
    /\ priority \in Seq(Job) /\ queue \in Seq(Job)
    /\ timers \in 0 .. MaxTimers
    /\ notify \in BOOLEAN
    /\ run \in {"wait", "acquire", "take"}
    /\ permits \in 0 .. Concurrent
    /\ calls \subseteq Seq(Job)
    /\ \A r \in replies :
          r.jobs \in Seq(Job) /\ (r.output = Failed \/ r.output \in Seq(State))

(* Where the sender of caller c is: <<lane, index>>, a call or a reply.    *)
JobsOf(c, jobs) == {i \in DOMAIN jobs : c \in jobs[i].senders}

Places(c) ==
    {<<"priority", i>> : i \in JobsOf(c, priority)}
    \cup {<<"queue", i>> : i \in JobsOf(c, queue)}
    \cup (UNION {{<<"call", b, i>> : i \in JobsOf(c, b)} : b \in calls})
    \cup (UNION {{<<"reply", r, i>> : i \in JobsOf(c, r.jobs)} : r \in replies})

(* The sender of every caller that waits is in exactly one job, and nobody *)
(* else's is anywhere: no caller is answered twice, and none is left with  *)
(* a closed channel, on which fetch_state would panic.                     *)
OneSenderPerCall ==
    \A c \in Callers :
        Cardinality(Places(c)) = IF pending[c] = None THEN 0 ELSE 1

(* An order is queued once, whatever the mix of lanes it was asked for in: *)
(* duplicates would waste a slot of a batch and split its waiters.         *)
QueuedOnce ==
    LET lanes == priority \o queue
    IN  \A i, j \in DOMAIN lanes : lanes[i].order = lanes[j].order => i = j

(* A submitted order never waits in the lane of the revalidations, even if *)
(* a revalidation of the same order was queued before.                     *)
PriorityIsPromoted ==
    \A c \in Waiters(queue) : ~pending[c].priority

(* Jobs are never left behind: while any is queued, the background task is *)
(* on its way to take it, or something is bound to wake it ("there is no   *)
(* race condition").                                                       *)
NoLostWakeup ==
    priority \o queue # <<>> => run # "wait" \/ notify \/ timers > 0

(* No permit is lost or used twice: at most Concurrent calls are out.      *)
PermitsAccountedFor ==
    permits + Cardinality(calls) + (IF run = "take" THEN 1 ELSE 0) = Concurrent

(* A batch has no more jobs than asked for, and takes revalidations only   *)
(* when no submitted order is left behind.                                 *)
BatchesFavourPriority ==
    [][\A batch \in calls' \ calls :
          /\ Len(batch) \in 1 .. BatchSize
          /\ Waiters(batch) \cap Waiters(queue) # {} => priority' = <<>>]_vars

(* Every call with priority is answered or dropped.                        *)
PriorityCallsAnswered ==
    \A c \in Callers :
        (pending[c] # None /\ pending[c].priority) ~> (pending[c] = None)

(* Once no more orders are submitted, every revalidation is answered too;  *)
(* until then a steady stream of submissions may fill every batch.         *)
NoMorePriority == \A c \in Callers : pending[c] = None \/ ~pending[c].priority
RevalidationsAnswered ==
    <>[]NoMorePriority => \A c \in Callers : (pending[c] # None) ~> (pending[c] = None)
=============================================================================
