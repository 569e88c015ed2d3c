---------------------------- MODULE OrderWatcher ----------------------------
(***************************************************************************)
(* The order watcher (order-watcher/src/lib.rs and database/mod.rs).       *)
(*                                                                         *)
(* Two kinds of tasks share one PostgreSQL table and one Kafka topic:      *)
(*   - App::order, one per submitted order: validate, fetch the order's    *)
(*     state from the chain, insert the row, publish an Added event;       *)
(*   - the block loop: for each block header, delete the rows that have    *)
(*     been invalid for too long, read all rows, and revalidate each of    *)
(*     them: fetch its state, publish a change, write the change.          *)
(* Up to MAX_CONCURRENT_BLOCKS headers are handled at once, and every step *)
(* above is an await point, so all of them interleave.  Any error in the   *)
(* block loop aborts the process, which then restarts from the database    *)
(* and from the Kafka offset it last committed.                            *)
(*                                                                         *)
(* The chain and Kafka are environments: state fetches return what the     *)
(* chain says at some moment during the fetch (the batcher, modelled in    *)
(* Batcher.tla), and the topic of headers is HeaderTopic, which            *)
(* HeaderPipeline is shown to implement.                                   *)
(***************************************************************************)
EXTENDS Integers, Sequences, FiniteSets

CONSTANTS
    Orders,          \* the orders clients may submit, identified by hash
    WellFormed,      \* those that LimitOrder::validate accepts
    ContractSigned,  \* those whose signature the exchange contract accepts
    LocallySigned,   \* those whose signature SignedOrder::validate accepts
    Requests,        \* calls of App::order
    Slots,           \* the concurrent header handlers
    MaxReorg,        \* options.ethereum.max_reorg
    ChainStates,     \* what the contract may report of an order
    Chains,          \* what it may report of all of them at one head
    FirstBlock,      \* the head when the watcher first starts
    MaxBlock,        \* bound: the chain grows no further
    MaxPending,      \* bound: headers waiting in the topic
    MaxUncommitted,  \* bound: headers consumed since the last offset commit
    MaxCrashes,      \* bound: crashes and restarts
    Null             \* no row, no timestamp, no event

(* OrderStatus as the contract reports it (abi_coding.rs, decode_status);  *)
(* only the watcher itself ever says "Added".                              *)
ChainStatus == {"Invalid", "Fillable", "FullyFilled", "Cancelled", "Expired"}

Blocks == FirstBlock .. MaxBlock

ASSUME SetsAssumption ==
    /\ WellFormed \subseteq Orders
    /\ ContractSigned \subseteq Orders
    /\ LocallySigned \subseteq Orders
    /\ ChainStates \subseteq [status : ChainStatus, remaining : Nat]
    /\ Chains \subseteq [Orders -> ChainStates]

(* The contract and Signature::recover agree on what a valid signature is: *)
(* what the contract accepts, the check of the rows read back accepts.     *)
ASSUME SignatureAssumption == ContractSigned \subseteq LocallySigned

ASSUME BlockAssumption ==
    /\ MaxReorg \in Nat
    /\ FirstBlock \in Nat /\ MaxBlock \in Nat
    /\ FirstBlock <= MaxBlock

ASSUME BoundAssumption ==
    MaxPending \in Nat /\ MaxUncommitted \in Nat /\ MaxCrashes \in Nat

(* An Added or changed order as seen in the topic of order events, and the *)
(* metadata of a row (database/queryable.rs): both are a status and a      *)
(* remaining amount.                                                       *)
Metadata == [status : ChainStatus \cup {"Added"}, remaining : Nat]
Row      == [remaining : Nat, invalid_since : Blocks \cup {Null}]

ASSUME NullAssumption ==
    /\ Null \notin Blocks
    /\ Null \notin Row
    /\ Null \notin Metadata
    /\ Null \notin ChainStates
    /\ Null \notin Orders

VARIABLES
    chain,        \* chain[o]: the state of order o at the current head
    head,         \* the number of the current head
    headers,      \* block headers in the topic, not yet consumed
    uncommitted,  \* headers consumed since the offset was last committed
    committed,    \* has an offset ever been committed?
    db,           \* db[o]: the row of order o, or Null
    view,         \* view[o]: the last event published for o, or Null
    told,         \* history: the blocks whose handlers published o unfillable
    phase,        \* phase[s]: what handler s is doing
    block,        \* block[s]: the number of the header it handles
    task,         \* task[s][o]: its revalidation of o
    req,          \* req[c]: an App::order call
    crashes       \* the crashes so far

chainVars  == <<chain, head>>
topicVars  == <<headers, uncommitted, committed>>
streamVars == <<view, told>>
blockVars  == <<phase, block, task>>
vars == <<chainVars, topicVars, db, streamVars, blockVars, req, crashes>>

(* The consumer's side of the topic.                                       *)
Topic == INSTANCE HeaderTopic WITH
    unread  <- headers,
    unacked <- uncommitted,
    acked   <- committed

-----------------------------------------------------------------------------
(* Helpers.                                                                *)

(* SignedOrderState::validate *)
Validates(o, state) ==
    /\ o \in ContractSigned
    /\ state.status \in {"Added", "Fillable"}

(* The row as get_orders returns it: the status is not stored, it is       *)
(* derived from invalid_since (database/queryable.rs).                     *)
MetadataOf(row) ==
    [status    |-> IF row.invalid_since = Null THEN "Fillable" ELSE "Invalid",
     remaining |-> row.remaining]

(* The sanity check of the rows read back: SignedOrder::validate.          *)
PassesSanityCheck(o) == o \in WellFormed \cap LocallySigned

(* App::revalidate: was_invalid.                                           *)
WasInvalid(row) == row.status # "Fillable"

(* Mutants: each is the definition of its name with one mistake in it, and *)
(* breaks one of the properties below.  No specification uses them.        *)

(* No event for what stops being fillable.                                 *)
MutantNeedsEventFillable(row, seen) ==
    seen # row /\ seen.status = "Fillable"

(* Only a change of the status counts, not one of the remaining amount.    *)
MutantNeedsEventStatus(row, seen) ==
    /\ seen.status # row.status
    /\ ~WasInvalid(row) \/ seen.status = "Fillable"

(* Changes between unfillable states are published too.                    *)
MutantNeedsEventAny(row, seen) == seen # row

(* An order that becomes fillable again is not announced.                  *)
MutantNeedsEventRevival(row, seen) == seen # row /\ ~WasInvalid(row)

(* was_invalid is forgotten.                                               *)
MutantNeedsUpdate(o, row, seen) ==
    Validates(o, seen) /\ row.remaining # seen.remaining

(* block_number - max_reorg wraps below zero.                              *)
MutantDeleteOrders(s) ==
    /\ phase[s] = "delete"
    /\ db' = [o \in Orders |->
                IF /\ db[o] # Null
                   /\ db[o].invalid_since # Null
                   /\ \/ block[s] < MaxReorg
                      \/ db[o].invalid_since <= block[s] - MaxReorg
                THEN Null ELSE db[o]]
    /\ phase' = [phase EXCEPT ![s] = "get"]
    /\ UNCHANGED <<chainVars, topicVars, streamVars, block, task, req, crashes>>

(* The row is dated one block late.                                        *)
MutantInvalidateOrder(s, o) ==
    /\ task[s][o].pc = "write" /\ ~Validates(o, task[s][o].seen)
    /\ db' = [db EXCEPT ![o] =
          IF @ = Null THEN Null ELSE [@ EXCEPT !.invalid_since = block[s] + 1]]
    /\ task' = [task EXCEPT ![s][o] =
          [pc |-> "none", row |-> Null, seen |-> Null]]
    /\ UNCHANGED <<chainVars, topicVars, streamVars, phase, block, req, crashes>>

(* A later block moves the date of an invalid row.                         *)
MutantInvalidateOrderAgain(s, o) ==
    /\ task[s][o].pc = "write" /\ ~Validates(o, task[s][o].seen)
    /\ db' = [db EXCEPT ![o] =
          IF @ = Null THEN Null ELSE [@ EXCEPT !.invalid_since = block[s]]]
    /\ task' = [task EXCEPT ![s][o] =
          [pc |-> "none", row |-> Null, seen |-> Null]]
    /\ UNCHANGED <<chainVars, topicVars, streamVars, phase, block, req, crashes>>

(* LimitOrder::validate is not called.                                     *)
MutantSubmit(c, o) ==
    /\ req[c].pc = "new"
    /\ req' = [req EXCEPT ![c] = [pc |-> "fetch", order |-> o, seen |-> Null]]
    /\ UNCHANGED <<chainVars, topicVars, db, streamVars, blockVars, crashes>>

(* An error is swallowed, or the call starts over.                         *)
MutantRequestFailsOk(c) ==
    /\ req[c].pc \in {"fetch", "insert", "emit"}
    /\ req' = [req EXCEPT ![c].pc = "ok"]
    /\ UNCHANGED <<chainVars, topicVars, db, streamVars, blockVars, crashes>>

MutantRequestFailsRetry(c) ==
    /\ req[c].pc \in {"fetch", "insert", "emit"}
    /\ req' = [req EXCEPT ![c].pc = "fetch"]
    /\ UNCHANGED <<chainVars, topicVars, db, streamVars, blockVars, crashes>>

-----------------------------------------------------------------------------
(* The decisions of App::revalidate.                                       *)
NeedsEvent(row, seen) ==
    /\ seen # row
    /\ ~WasInvalid(row) \/ seen.status = "Fillable"

NeedsUpdate(o, row, seen) ==
    /\ Validates(o, seen)
    /\ WasInvalid(row) \/ row.remaining # seen.remaining

NeedsInvalidate(o, row, seen) ==
    ~Validates(o, seen) /\ ~WasInvalid(row)

NeedsWrite(o, row, seen) ==
    NeedsUpdate(o, row, seen) \/ NeedsInvalidate(o, row, seen)

NoTask    == [pc |-> "none", row |-> Null, seen |-> Null]
NoTasks   == [o \in Orders |-> NoTask]
NoRequest == [pc |-> "new", order |-> Null, seen |-> Null]

Answered == {"ok", "rejected", "failed"}
InFlight(c) == req[c].pc \in {"fetch", "insert", "emit"}
Rows == {o \in Orders : db[o] # Null}

(* Publish metadata m of order o.  Events of one order keep their order in *)
(* the topic, so the last one is what a consumer ends up with.             *)
Publish(o, m) == view' = [view EXCEPT ![o] = m]

-----------------------------------------------------------------------------
(* The process starts on the table an earlier run left: any set of orders  *)
(* that were accepted and announced.  The block watcher, started with it,  *)
(* first sends the head it finds.                                          *)
Init ==
    /\ chain \in Chains
    /\ head = FirstBlock
    /\ headers \in {<<>>, <<FirstBlock>>}
    /\ Topic!Init
    /\ \E kept \in SUBSET {o \in WellFormed \cap ContractSigned :
                              chain[o].status = "Fillable"} :
          /\ db = [o \in Orders |->
                     IF o \in kept
                     THEN [remaining |-> chain[o].remaining, invalid_since |-> Null]
                     ELSE Null]
          /\ view = [o \in Orders |->
                     IF o \in kept
                     THEN [status |-> "Added", remaining |-> chain[o].remaining]
                     ELSE Null]
    /\ told = [o \in Orders |-> {}]
    /\ phase = [s \in Slots |-> "idle"]
    /\ block = [s \in Slots |-> FirstBlock]
    /\ task = [s \in Slots |-> NoTasks]
    /\ req = [c \in Requests |-> NoRequest]
    /\ crashes = 0

-----------------------------------------------------------------------------
(* The environment: the chain and the block watcher.                       *)

(* The chain gets a new head, replacing the last depth blocks.  The block  *)
(* watcher then sends a header for each new block (send_with_reorgs), and  *)
(* the state of any order may have changed.                                *)
NewHead(depth) ==
    LET fresh == [i \in 1 .. depth + 1 |-> head - depth + i]
    IN  /\ head < MaxBlock
        /\ head - depth >= FirstBlock
        /\ Len(headers) + depth < MaxPending
        /\ head' = head + 1
        /\ headers' = headers \o fresh
        /\ chain' \in Chains
        /\ UNCHANGED <<uncommitted, committed, db, streamVars, blockVars, req,
                       crashes>>

(* At the bound the chain stands still but headers keep coming; they all   *)
(* carry the last number.                                                  *)
HeadAtBound ==
    /\ head = MaxBlock
    /\ headers = <<>>
    /\ headers' = <<MaxBlock>>
    /\ UNCHANGED <<chainVars, uncommitted, committed, db, streamVars,
                   blockVars, req, crashes>>

-----------------------------------------------------------------------------
(* The block loop.                                                         *)

(* The stream yields the next header while fewer than MAX_CONCURRENT_BLOCKS *)
(* handlers run (try_for_each_concurrent).                                 *)
TakeHeader(s) ==
    /\ phase[s] = "idle"
    /\ Len(uncommitted) < MaxUncommitted
    /\ Topic!Take
    /\ phase' = [phase EXCEPT ![s] = "delete"]
    /\ block' = [block EXCEPT ![s] = Head(headers)]
    /\ UNCHANGED <<chainVars, db, streamVars, task, req, crashes>>

(* Database::delete_orders(block_number - max_reorg)                       *)
DeleteOrders(s) ==
    /\ phase[s] = "delete"
    /\ MaxReorg <= block[s]
    /\ db' = [o \in Orders |->
                IF /\ db[o] # Null
                   /\ db[o].invalid_since # Null
                   /\ db[o].invalid_since <= block[s] - MaxReorg
                THEN Null ELSE db[o]]
    /\ phase' = [phase EXCEPT ![s] = "get"]
    /\ UNCHANGED <<chainVars, topicVars, streamVars, block, task, req, crashes>>

(* Database::get_orders.  A row that fails the sanity check is an error,   *)
(* which aborts the process: that is Crash.                                *)
GetOrders(s) ==
    /\ phase[s] = "get"
    /\ \A o \in Rows : PassesSanityCheck(o)
    /\ task' = [task EXCEPT ![s] = [o \in Orders |->
                  IF o \in Rows
                  THEN [pc |-> "fetch", row |-> MetadataOf(db[o]), seen |-> Null]
                  ELSE NoTask]]
    /\ phase' = [phase EXCEPT ![s] = "revalidate"]
    /\ UNCHANGED <<chainVars, topicVars, db, streamVars, block, req, crashes>>

(* App::revalidate: the state arrives, and decides what else there is to do. *)
FetchState(s, o) ==
    LET row  == task[s][o].row
        seen == chain[o]
    IN  /\ task[s][o].pc = "fetch"
        /\ task' = [task EXCEPT ![s][o] =
              IF NeedsEvent(row, seen)
              THEN [pc |-> "emit", row |-> row, seen |-> seen]
              ELSE IF NeedsWrite(o, row, seen)
                   THEN [pc |-> "write", row |-> row, seen |-> seen]
                   ELSE NoTask]
        /\ UNCHANGED <<chainVars, topicVars, db, streamVars, phase, block, req,
                       crashes>>

(* The event goes out before the row is written.                           *)
EmitChange(s, o) ==
    LET row  == task[s][o].row
        seen == task[s][o].seen
    IN  /\ task[s][o].pc = "emit"
        /\ Publish(o, seen)
        /\ told' = [told EXCEPT ![o] =
              IF Validates(o, seen) THEN @ ELSE @ \cup {block[s]}]
        /\ task' = [task EXCEPT ![s][o] =
              IF NeedsWrite(o, row, seen)
              THEN [pc |-> "write", row |-> row, seen |-> seen]
              ELSE NoTask]
        /\ UNCHANGED <<chainVars, topicVars, db, phase, block, req, crashes>>

(* Database::update_order; an UPDATE of a missing row changes nothing.     *)
UpdateOrder(s, o) ==
    LET seen == task[s][o].seen
    IN  /\ task[s][o].pc = "write"
        /\ NeedsUpdate(o, task[s][o].row, seen)
        /\ db' = [db EXCEPT ![o] =
              IF @ = Null THEN Null
              ELSE [remaining |-> seen.remaining, invalid_since |-> Null]]
        /\ task' = [task EXCEPT ![s][o] = NoTask]
        /\ UNCHANGED <<chainVars, topicVars, streamVars, phase, block, req,
                       crashes>>

(* Database::invalidate_order: only if the row was valid in an earlier     *)
(* block.                                                                  *)
InvalidateOrder(s, o) ==
    /\ task[s][o].pc = "write"
    /\ NeedsInvalidate(o, task[s][o].row, task[s][o].seen)
    /\ db' = [db EXCEPT ![o] =
          IF @ = Null THEN Null
          ELSE IF @.invalid_since = Null \/ @.invalid_since > block[s]
               THEN [@ EXCEPT !.invalid_since = block[s]]
               ELSE @]
    /\ task' = [task EXCEPT ![s][o] = NoTask]
    /\ UNCHANGED <<chainVars, topicVars, streamVars, phase, block, req, crashes>>

(* All revalidations are done: the handler's future completes.             *)
FinishBlock(s) ==
    /\ phase[s] = "revalidate"
    /\ task[s] = NoTasks
    /\ phase' = [phase EXCEPT ![s] = "idle"]
    /\ UNCHANGED <<chainVars, topicVars, db, streamVars, block, task, req,
                   crashes>>

-----------------------------------------------------------------------------
(* App::order, one call per request.                                       *)

Submit(c, o) ==
    /\ req[c].pc = "new"
    /\ req' = [req EXCEPT ![c] =
          [pc |-> IF o \in WellFormed THEN "fetch" ELSE "rejected",
           order |-> o, seen |-> Null]]
    /\ UNCHANGED <<chainVars, topicVars, db, streamVars, blockVars, crashes>>

FetchSubmitted(c) ==
    LET o == req[c].order
    IN  /\ req[c].pc = "fetch"
        /\ req' = [req EXCEPT ![c] =
              [pc |-> IF Validates(o, chain[o]) THEN "insert" ELSE "rejected",
               order |-> o, seen |-> chain[o]]]
        /\ UNCHANGED <<chainVars, topicVars, db, streamVars, blockVars, crashes>>

(* Database::insert_order: on a conflict only the remaining amount is set. *)
InsertOrder(c) ==
    LET o == req[c].order
        r == req[c].seen.remaining
    IN  /\ req[c].pc = "insert"
        /\ db' = [db EXCEPT ![o] =
              IF @ = Null THEN [remaining |-> r, invalid_since |-> Null]
              ELSE [@ EXCEPT !.remaining = r]]
        /\ req' = [req EXCEPT ![c].pc = "emit"]
        /\ UNCHANGED <<chainVars, topicVars, streamVars, blockVars, crashes>>

(* The Added event.  An error from Kafka does not say whether the message  *)
(* is in the topic.                                                        *)
EmitAdded(c) ==
    LET o == req[c].order
    IN  /\ req[c].pc = "emit"
        /\ Publish(o, [status |-> "Added", remaining |-> req[c].seen.remaining])
        /\ \E answer \in {"ok", "failed"} : req' = [req EXCEPT ![c].pc = answer]
        /\ UNCHANGED <<chainVars, topicVars, db, told, blockVars, crashes>>

(* The fetch, the insert or the send fails: ApiError::InternalError, and   *)
(* what was done so far stays done.                                        *)
RequestFails(c) ==
    /\ InFlight(c)
    /\ req' = [req EXCEPT ![c].pc = "failed"]
    /\ UNCHANGED <<chainVars, topicVars, db, streamVars, blockVars, crashes>>

-----------------------------------------------------------------------------
(* Kafka offsets, crashes and restarts.                                    *)

(* The consumer commits in the background what it has handed out, whether  *)
(* or not it has been handled.                                             *)
AutoCommit ==
    /\ uncommitted # <<>>
    /\ Topic!Acknowledge
    /\ UNCHANGED <<chainVars, db, streamVars, blockVars, req, crashes>>

(* The process ends and is started again: handlers and calls are gone, and *)
(* the topic gives what it gives to a reader that restarts.                *)
Restart ==
    /\ Topic!Restart
    /\ phase' = [s \in Slots |-> "idle"]
    /\ task' = [s \in Slots |-> NoTasks]
    /\ req' = [c \in Requests |->
                 IF InFlight(c) THEN [req[c] EXCEPT !.pc = "failed"] ELSE req[c]]
    /\ UNCHANGED <<chainVars, db, streamVars, block>>

(* The process is killed, or aborts on an error in the block loop.         *)
Crash ==
    /\ crashes < MaxCrashes
    /\ crashes' = crashes + 1
    /\ Restart

(* block_number - max_reorg is below zero: U64 panics, and a panic aborts  *)
(* the process (Cargo.toml).                                               *)
Underflow(s) ==
    /\ phase[s] = "delete"
    /\ block[s] < MaxReorg
    /\ Restart
    /\ UNCHANGED crashes

-----------------------------------------------------------------------------
RevalidateStep(s, o) ==
    \/ FetchState(s, o)
    \/ EmitChange(s, o)
    \/ UpdateOrder(s, o)
    \/ InvalidateOrder(s, o)

HandlerStep(s) ==
    \/ TakeHeader(s)
    \/ DeleteOrders(s)
    \/ GetOrders(s)
    \/ \E o \in Orders : RevalidateStep(s, o)
    \/ FinishBlock(s)

RequestStep(c) ==
    \/ FetchSubmitted(c)
    \/ InsertOrder(c)
    \/ EmitAdded(c)

Next ==
    \/ \E depth \in 0 .. MaxReorg : NewHead(depth)
    \/ HeadAtBound
    \/ \E s \in Slots : HandlerStep(s) \/ Underflow(s)
    \/ \E c \in Requests :
          \/ \E o \in Orders : Submit(c, o)
          \/ RequestStep(c)
          \/ RequestFails(c)
    \/ AutoCommit
    \/ Crash

Spec == Init /\ [][Next]_vars

(* Tokio polls every task that is ready, the database, Kafka and the node  *)
(* answer, and headers keep coming.  Nothing is assumed of clients, of     *)
(* failures or of what the chain does.                                     *)
Fairness ==
    /\ WF_vars(HeadAtBound)
    /\ WF_vars(\E depth \in 0 .. MaxReorg : NewHead(depth))
    /\ WF_vars(AutoCommit)
    /\ \A s \in Slots :
          /\ WF_vars(TakeHeader(s))
          /\ WF_vars(DeleteOrders(s) \/ GetOrders(s) \/ FinishBlock(s))
          /\ WF_vars(Underflow(s))
          /\ \A o \in Orders : WF_vars(RevalidateStep(s, o))
    /\ \A c \in Requests : WF_vars(RequestStep(c) \/ RequestFails(c))

FairSpec == Spec /\ Fairness
-----------------------------------------------------------------------------
(* Properties.                                                             *)

Task ==
    [pc   : {"none", "fetch", "emit", "write"},
     row  : Metadata \cup {Null},
     seen : ChainStates \cup {Null}]

Request ==
    [pc    : {"new", "fetch", "insert", "emit"} \cup Answered,
     order : Orders \cup {Null},
     seen  : ChainStates \cup {Null}]

(* Every variable has its type: in particular a row's invalid_since and a  *)
(* handler's block number are always block numbers the chain has had.      *)
TypeOK ==
    /\ chain \in [Orders -> ChainStates]
    /\ head \in Blocks
    /\ headers \in Seq(Blocks)
    /\ uncommitted \in Seq(Blocks)
    /\ committed \in BOOLEAN
    /\ db \in [Orders -> Row \cup {Null}]
    /\ view \in [Orders -> Metadata \cup {Null}]
    /\ told \in [Orders -> SUBSET Blocks]
    /\ phase \in [Slots -> {"idle", "delete", "get", "revalidate"}]
    /\ block \in [Slots -> Blocks]
    /\ task \in [Slots -> [Orders -> Task]]
    /\ req \in [Requests -> Request]
    /\ crashes \in 0 .. MaxCrashes

(* No row is ever stored that get_orders would refuse: one such row makes  *)
(* every header handler abort the process, and the row is still there      *)
(* after each restart.                                                     *)
RowsPassSanityCheck == \A o \in Rows : PassesSanityCheck(o)

(* However the handlers of different blocks overlap and wherever a crash   *)
(* falls, a row that says it is invalid since block n is the row of an     *)
(* order that the handler of a block n published as unfillable.            *)
InvalidRowsWereTold ==
    \A o \in Rows :
        db[o].invalid_since # Null => db[o].invalid_since \in told[o]

(* An order leaves the table only if consumers were told, by the handler   *)
(* of a block at least max_reorg older than the block now being handled,   *)
(* that it is unfillable ("Delete invalid orders that are older than the   *)
(* maximum re-org depth").                                                 *)
DroppedAfterReorgWindow ==
    [][\A o \in Orders :
          db[o] # Null /\ db'[o] = Null =>
              \E s \in Slots, n \in told[o] :
                  phase[s] = "delete" /\ n + MaxReorg <= block[s]]_vars

(* A stored order that consumers have never heard of is one whose client   *)
(* has no positive answer: its request is about to publish it, or was      *)
(* answered with an error or lost with the process.                        *)
SilentRowsAreUnacknowledged ==
    \A o \in Rows :
        view[o] = Null =>
            /\ \E c \in Requests : req[c].order = o /\ req[c].pc \in {"emit", "failed"}
            /\ \A c \in Requests : req[c].order = o => req[c].pc # "ok"

Fillable(m) == m.status \in {"Added", "Fillable"}

(* The last event published for a stored order says what its row says,     *)
(* except while the row of an event is being written or a new row is being *)
(* announced ("Emit Kafka event if status changed").                       *)
StreamMatchesTable ==
    \A o \in Rows :
        \/ \E s \in Slots : task[s][o].pc = "write"
        \/ \E c \in Requests : req[c].order = o /\ req[c].pc = "emit"
        \/ /\ view[o] # Null
           /\ Fillable(view[o]) <=> (db[o].invalid_since = Null)
           /\ Fillable(view[o]) => view[o].remaining = db[o].remaining

(* Consumers are not sent an unfillable status after an unfillable status  *)
(* ("but not if it changed from one unfillable state to another").         *)
NoUnfillableAfterUnfillable ==
    [][\A s \in Slots, o \in Orders :
          EmitChange(s, o) /\ ~Fillable(view'[o]) =>
              view[o] # Null /\ Fillable(view[o])]_vars

(* Every call of App::order that got as far as fetching is answered.       *)
RequestsAreAnswered ==
    \A c \in Requests : InFlight(c) ~> req[c].pc \in Answered

(* Once the chain stands still, the table ends up saying of every stored   *)
(* order what the chain says, whatever stale handlers and crashes left     *)
(* behind.                                                                 *)
TableConverges ==
    <>[](\A o \in Rows :
            /\ (db[o].invalid_since = Null) <=> Validates(o, chain[o])
            /\ Validates(o, chain[o]) => db[o].remaining = chain[o].remaining)

(* Once the chain stands still, the last event published for every order   *)
(* that was announced ends up saying whether it is stored and the chain    *)
(* finds it fillable ("Emit Kafka event if status changed").  An order     *)
(* that was deleted must not be left fillable: nothing revalidates it.     *)
StreamConverges ==
    <>[](\A o \in Orders :
            view[o] # Null =>
                (Fillable(view[o]) <=> o \in Rows /\ Validates(o, chain[o])))
=============================================================================
