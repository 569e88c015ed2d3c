------------------------- MODULE OrderWatcherProofs -------------------------
(***************************************************************************)
(* Theorems about OrderWatcher, for any sets of orders, requests and       *)
(* handlers, any max_reorg and any number of crashes.                      *)
(*                                                                         *)
(* The argument: an order is stored or revalidated only after App::order   *)
(* checked it (RowInv, ReqInv, TaskInv), so for such an order a status     *)
(* change is always a change of metadata and is published before the row   *)
(* is written (WriteAfterEvent).                                           *)
(***************************************************************************)
EXTENDS OrderWatcher, TLAPS

(* What App::order checks before it stores an order.                       *)
Accepted == WellFormed \cap ContractSigned

RowInv == Rows \subseteq Accepted

(* A handler has tasks only while it revalidates.                          *)
PhaseInv == \A s \in Slots : phase[s] # "revalidate" => task[s] = NoTasks

TaskInv ==
    \A s \in Slots, o \in Orders :
        /\ task[s][o].pc # "none" =>
              /\ o \in Accepted
              /\ task[s][o].row \in Metadata
        /\ task[s][o].pc \in {"emit", "write"} => task[s][o].seen \in ChainStates

(* A handler that is about to mark a row invalid has published the order   *)
(* as unfillable, and its block is on record.                              *)
WriteAfterEvent ==
    \A s \in Slots, o \in Orders :
        task[s][o].pc = "write" /\ ~Validates(o, task[s][o].seen) =>
            block[s] \in told[o]

ReqInv ==
    \A c \in Requests :
        /\ req[c].pc # "new" => req[c].order \in Orders
        /\ InFlight(c) => req[c].order \in WellFormed
        /\ req[c].pc \in {"insert", "emit"} =>
              /\ req[c].order \in ContractSigned
              /\ req[c].seen \in ChainStates

OkInv ==
    \A c \in Requests : req[c].pc = "ok" => view[req[c].order] # Null

IInv ==
    /\ TypeOK
    /\ RowInv
    /\ PhaseInv
    /\ TaskInv
    /\ WriteAfterEvent
    /\ ReqInv
    /\ OkInv
    /\ InvalidRowsWereTold
    /\ SilentRowsAreUnacknowledged

-----------------------------------------------------------------------------
(* Every step keeps the type invariant.                                    *)
LEMMA TypeStep == IInv /\ Next => TypeOK'
<1> SUFFICES ASSUME IInv, Next PROVE TypeOK'
  OBVIOUS
<1> USE DEF IInv, chainVars, topicVars, streamVars, blockVars
<1>1. ASSUME NEW depth \in 0 .. MaxReorg, NewHead(depth) PROVE TypeOK'
  <2> DEFINE fresh == [i \in 1 .. depth + 1 |-> head - depth + i]
  <2>1. depth \in Nat /\ head \in Nat /\ head < MaxBlock /\ head - depth >= FirstBlock
    BY <1>1, BlockAssumption DEF NewHead, TypeOK, Blocks
  <2>2. fresh \in [1 .. depth + 1 -> Blocks]
    BY <2>1, BlockAssumption DEF Blocks
  <2>3. fresh \in Seq(Blocks)
    BY <2>1, <2>2
  <2>4. headers' \in Seq(Blocks)
    BY <1>1, <2>3 DEF NewHead, TypeOK
  <2>5. head' \in Blocks
    BY <1>1, <2>1, BlockAssumption DEF NewHead, Blocks
  <2> QED
    BY <1>1, <2>4, <2>5, SetsAssumption DEF NewHead, TypeOK
<1>2. ASSUME HeadAtBound PROVE TypeOK'
  <2>1. MaxBlock \in Blocks
    BY BlockAssumption DEF Blocks
  <2> QED
    BY <1>2, <2>1 DEF HeadAtBound, TypeOK
<1>3. ASSUME NEW s \in Slots, TakeHeader(s) PROVE TypeOK'
  <2>1. /\ Head(headers) \in Blocks
        /\ Tail(headers) \in Seq(Blocks)
        /\ Append(uncommitted, Head(headers)) \in Seq(Blocks)
    BY <1>3 DEF TakeHeader, Topic!Take, TypeOK
  <2> QED
    BY <1>3, <2>1 DEF TakeHeader, Topic!Take, TypeOK
<1>4. ASSUME NEW s \in Slots, DeleteOrders(s) PROVE TypeOK'
  BY <1>4 DEF DeleteOrders, TypeOK
<1>5. ASSUME NEW s \in Slots, GetOrders(s) PROVE TypeOK'
  <2>1. ASSUME NEW o \in Rows
        PROVE  [pc |-> "fetch", row |-> MetadataOf(db[o]), seen |-> Null] \in Task
    <3>1. db[o] \in Row
      BY DEF TypeOK, Rows
    <3>2. MetadataOf(db[o]) \in Metadata
      BY <3>1 DEF MetadataOf, Metadata, Row, ChainStatus
    <3> QED
      BY <3>2 DEF Task
  <2>2. NoTask \in Task
    BY DEF NoTask, Task
  <2>3. task' \in [Slots -> [Orders -> Task]]
    BY <1>5, <2>1, <2>2 DEF GetOrders, TypeOK
  <2> QED
    BY <1>5, <2>3 DEF GetOrders, TypeOK
<1>6. ASSUME NEW s \in Slots, NEW o \in Orders, FetchState(s, o) PROVE TypeOK'
  <2>1. task[s][o].row \in Metadata \cup {Null} /\ chain[o] \in ChainStates
    BY DEF TypeOK, Task
  <2>2. /\ NoTask \in Task
        /\ \A pc \in {"emit", "write"} :
              [pc |-> pc, row |-> task[s][o].row, seen |-> chain[o]] \in Task
    BY <2>1 DEF NoTask, Task
  <2>3. task' \in [Slots -> [Orders -> Task]]
    BY <1>6, <2>2 DEF FetchState, TypeOK
  <2> QED
    BY <1>6, <2>3 DEF FetchState, TypeOK
<1>7. ASSUME NEW s \in Slots, NEW o \in Orders, EmitChange(s, o) PROVE TypeOK'
  <2>1. task[s][o].row \in Metadata /\ task[s][o].seen \in ChainStates
    BY <1>7 DEF EmitChange, TaskInv
  <2>2. task[s][o].seen \in Metadata
    BY <2>1, SetsAssumption DEF Metadata
  <2>3. /\ NoTask \in Task
        /\ [pc |-> "write", row |-> task[s][o].row, seen |-> task[s][o].seen] \in Task
    BY <2>1 DEF NoTask, Task
  <2>4. task' \in [Slots -> [Orders -> Task]]
    BY <1>7, <2>3 DEF EmitChange, TypeOK
  <2>5. view' \in [Orders -> Metadata \cup {Null}]
    BY <1>7, <2>2 DEF EmitChange, Publish, TypeOK
  <2>6. told' \in [Orders -> SUBSET Blocks]
    BY <1>7 DEF EmitChange, TypeOK
  <2> QED
    BY <1>7, <2>4, <2>5, <2>6 DEF EmitChange, TypeOK
<1>8. ASSUME NEW s \in Slots, NEW o \in Orders, UpdateOrder(s, o) PROVE TypeOK'
  <2>1. task[s][o].seen.remaining \in Nat
    BY <1>8, SetsAssumption DEF UpdateOrder, TaskInv
  <2>2. [remaining |-> task[s][o].seen.remaining, invalid_since |-> Null] \in Row
    BY <2>1 DEF Row
  <2>3. db' \in [Orders -> Row \cup {Null}]
    BY <1>8, <2>2 DEF UpdateOrder, TypeOK
  <2>4. task' \in [Slots -> [Orders -> Task]]
    BY <1>8 DEF UpdateOrder, TypeOK, NoTask, Task
  <2> QED
    BY <1>8, <2>3, <2>4 DEF UpdateOrder, TypeOK
<1>9. ASSUME NEW s \in Slots, NEW o \in Orders, InvalidateOrder(s, o) PROVE TypeOK'
  <2>1. block[s] \in Blocks
    BY DEF TypeOK
  <2>2. db[o] # Null => [db[o] EXCEPT !.invalid_since = block[s]] \in Row
    BY <2>1 DEF TypeOK, Row
  <2>3. db' \in [Orders -> Row \cup {Null}]
    BY <1>9, <2>2 DEF InvalidateOrder, TypeOK
  <2>4. task' \in [Slots -> [Orders -> Task]]
    BY <1>9 DEF InvalidateOrder, TypeOK, NoTask, Task
  <2> QED
    BY <1>9, <2>3, <2>4 DEF InvalidateOrder, TypeOK
<1>10. ASSUME NEW s \in Slots, FinishBlock(s) PROVE TypeOK'
  BY <1>10 DEF FinishBlock, TypeOK
<1>11. ASSUME NEW c \in Requests, NEW o \in Orders, Submit(c, o) PROVE TypeOK'
  <2>1. \A pc \in {"fetch", "rejected"} :
           [pc |-> pc, order |-> o, seen |-> Null] \in Request
    BY DEF Request, Answered
  <2>2. req' \in [Requests -> Request]
    BY <1>11, <2>1 DEF Submit, TypeOK
  <2> QED
    BY <1>11, <2>2 DEF Submit, TypeOK
<1>12. ASSUME NEW c \in Requests, FetchSubmitted(c) PROVE TypeOK'
  <2>1. req[c].order \in Orders
    BY <1>12 DEF FetchSubmitted, ReqInv
  <2>2. chain[req[c].order] \in ChainStates
    BY <2>1 DEF TypeOK
  <2>3. \A pc \in {"insert", "rejected"} :
           [pc |-> pc, order |-> req[c].order, seen |-> chain[req[c].order]] \in Request
    BY <2>1, <2>2 DEF Request, Answered
  <2>4. req' \in [Requests -> Request]
    BY <1>12, <2>3 DEF FetchSubmitted, TypeOK
  <2> QED
    BY <1>12, <2>4 DEF FetchSubmitted, TypeOK
<1>13. ASSUME NEW c \in Requests, InsertOrder(c) PROVE TypeOK'
  <2> DEFINE o == req[c].order
             r == req[c].seen.remaining
  <2>1. o \in Orders /\ r \in Nat
    BY <1>13, SetsAssumption DEF InsertOrder, ReqInv
  <2>2. /\ [remaining |-> r, invalid_since |-> Null] \in Row
        /\ db[o] # Null => [db[o] EXCEPT !.remaining = r] \in Row
    BY <2>1 DEF TypeOK, Row
  <2>3. db' \in [Orders -> Row \cup {Null}]
    BY <1>13, <2>1, <2>2 DEF InsertOrder, TypeOK
  <2>4. [req[c] EXCEPT !.pc = "emit"] \in Request
    BY DEF TypeOK, Request
  <2>5. req' \in [Requests -> Request]
    BY <1>13, <2>4 DEF InsertOrder, TypeOK
  <2> QED
    BY <1>13, <2>3, <2>5 DEF InsertOrder, TypeOK
<1>14. ASSUME NEW c \in Requests, EmitAdded(c) PROVE TypeOK'
  <2> DEFINE m == [status |-> "Added", remaining |-> req[c].seen.remaining]
  <2>1. req[c].order \in Orders /\ req[c].seen.remaining \in Nat
    BY <1>14, SetsAssumption DEF EmitAdded, ReqInv
  <2>2. m \in Metadata
    BY <2>1 DEF Metadata
  <2>3. view' \in [Orders -> Metadata \cup {Null}]
    BY <1>14, <2>1, <2>2 DEF EmitAdded, Publish, TypeOK
  <2>4. \A answer \in {"ok", "failed"} : [req[c] EXCEPT !.pc = answer] \in Request
    <3>1. req[c] \in Request
      BY DEF TypeOK
    <3> QED
      BY <3>1 DEF Request, Answered
  <2>5. req' \in [Requests -> Request]
    BY <1>14, <2>4 DEF EmitAdded, TypeOK
  <2> QED
    BY <1>14, <2>3, <2>5 DEF EmitAdded, TypeOK
<1>15. ASSUME NEW c \in Requests, RequestFails(c) PROVE TypeOK'
  <2>1. [req[c] EXCEPT !.pc = "failed"] \in Request
    BY DEF TypeOK, Request, Answered
  <2>2. req' \in [Requests -> Request]
    BY <1>15, <2>1 DEF RequestFails, TypeOK
  <2> QED
    BY <1>15, <2>2 DEF RequestFails, TypeOK
<1>16. ASSUME AutoCommit PROVE TypeOK'
  BY <1>16 DEF AutoCommit, Topic!Acknowledge, TypeOK
<1>17. ASSUME Restart, crashes' \in 0 .. MaxCrashes PROVE TypeOK'
  <2>1. \A c \in Requests : [req[c] EXCEPT !.pc = "failed"] \in Request
    BY DEF TypeOK, Request, Answered
  <2>2. req' \in [Requests -> Request]
    BY <1>17, <2>1 DEF Restart, TypeOK
  <2>3. task' \in [Slots -> [Orders -> Task]]
    BY <1>17 DEF Restart, NoTasks, NoTask, Task
  <2>4. headers' \in Seq(Blocks) /\ uncommitted' \in Seq(Blocks)
    BY <1>17 DEF Restart, Topic!Restart, TypeOK
  <2> QED
    BY <1>17, <2>2, <2>3, <2>4 DEF Restart, Topic!Restart, TypeOK
<1>18. Crash \/ (\E s \in Slots : Underflow(s)) =>
           Restart /\ crashes' \in 0 .. MaxCrashes
  BY BoundAssumption DEF Crash, Underflow, TypeOK
<1>19. QED
  BY <1>1, <1>2, <1>3, <1>4, <1>5, <1>6, <1>7, <1>8, <1>9, <1>10, <1>11,
     <1>12, <1>13, <1>14, <1>15, <1>16, <1>17, <1>18
     DEF Next, HandlerStep, RevalidateStep, RequestStep

(* The metadata of any row, and the Added event of any order found on the  *)
(* chain, are metadata; neither is Null.                                   *)
LEMMA MetadataOfRow == \A row \in Row : MetadataOf(row) \in Metadata
  BY DEF MetadataOf, Metadata, Row, ChainStatus

(* An `Added` event tells of an order.                                     *)
LEMMA AddedIsAnEvent ==
    \A seen \in ChainStates :
        [status |-> "Added", remaining |-> seen.remaining] # Null
<1> SUFFICES ASSUME NEW seen \in ChainStates
             PROVE  [status |-> "Added", remaining |-> seen.remaining] # Null
  OBVIOUS
<1>1. [status |-> "Added", remaining |-> seen.remaining] \in Metadata
  BY SetsAssumption DEF Metadata
<1> QED
  BY <1>1, NullAssumption

(* Only a revalidating handler has tasks.                                  *)
LEMMA PhaseStep == IInv /\ Next => PhaseInv'
<1> SUFFICES ASSUME IInv, Next PROVE PhaseInv'
  OBVIOUS
<1> USE DEF IInv, chainVars, topicVars, streamVars, blockVars
<1>1. ASSUME NEW depth \in 0 .. MaxReorg, NewHead(depth) PROVE PhaseInv'
  BY <1>1 DEF NewHead, PhaseInv
<1>2. ASSUME HeadAtBound PROVE PhaseInv'
  BY <1>2 DEF HeadAtBound, PhaseInv
<1>3. ASSUME NEW s \in Slots, TakeHeader(s) PROVE PhaseInv'
  BY <1>3 DEF TakeHeader, PhaseInv, NoTasks, NoTask, TypeOK
<1>4. ASSUME NEW s \in Slots, DeleteOrders(s) PROVE PhaseInv'
  BY <1>4 DEF DeleteOrders, PhaseInv, NoTasks, NoTask, TypeOK
<1>5. ASSUME NEW s \in Slots, GetOrders(s) PROVE PhaseInv'
  BY <1>5 DEF GetOrders, PhaseInv, NoTasks, NoTask, TypeOK
<1>6. ASSUME NEW s \in Slots, NEW o \in Orders, FetchState(s, o) PROVE PhaseInv'
  BY <1>6 DEF FetchState, PhaseInv, NoTasks, NoTask, TypeOK
<1>7. ASSUME NEW s \in Slots, NEW o \in Orders, EmitChange(s, o) PROVE PhaseInv'
  BY <1>7 DEF EmitChange, PhaseInv, NoTasks, NoTask, TypeOK
<1>8. ASSUME NEW s \in Slots, NEW o \in Orders, UpdateOrder(s, o) PROVE PhaseInv'
  BY <1>8 DEF UpdateOrder, PhaseInv, NoTasks, NoTask, TypeOK
<1>9. ASSUME NEW s \in Slots, NEW o \in Orders, InvalidateOrder(s, o) PROVE PhaseInv'
  BY <1>9 DEF InvalidateOrder, PhaseInv, NoTasks, NoTask, TypeOK
<1>10. ASSUME NEW s \in Slots, FinishBlock(s) PROVE PhaseInv'
  BY <1>10 DEF FinishBlock, PhaseInv, NoTasks, NoTask, TypeOK
<1>11. ASSUME NEW c \in Requests, NEW o \in Orders, Submit(c, o) PROVE PhaseInv'
  BY <1>11 DEF Submit, PhaseInv
<1>12. ASSUME NEW c \in Requests, FetchSubmitted(c) PROVE PhaseInv'
  BY <1>12 DEF FetchSubmitted, PhaseInv
<1>13. ASSUME NEW c \in Requests, InsertOrder(c) PROVE PhaseInv'
  BY <1>13 DEF InsertOrder, PhaseInv
<1>14. ASSUME NEW c \in Requests, EmitAdded(c) PROVE PhaseInv'
  BY <1>14 DEF EmitAdded, PhaseInv
<1>15. ASSUME NEW c \in Requests, RequestFails(c) PROVE PhaseInv'
  BY <1>15 DEF RequestFails, PhaseInv
<1>16. ASSUME AutoCommit PROVE PhaseInv'
  BY <1>16 DEF AutoCommit, PhaseInv
<1>17. ASSUME Restart PROVE PhaseInv'
  BY <1>17 DEF Restart, PhaseInv, NoTasks, NoTask, TypeOK
<1>18. QED
  BY <1>1, <1>2, <1>3, <1>4, <1>5, <1>6, <1>7, <1>8, <1>9, <1>10, <1>11,
     <1>12, <1>13, <1>14, <1>15, <1>16, <1>17
     DEF Next, HandlerStep, RevalidateStep, RequestStep, Crash, Underflow

(* What a handler works on was accepted by App::order.                     *)
LEMMA TaskStep == IInv /\ Next => TaskInv'
<1> SUFFICES ASSUME IInv, Next PROVE TaskInv'
  OBVIOUS
<1> USE DEF IInv, chainVars, topicVars, streamVars, blockVars
<1>1. ASSUME NEW depth \in 0 .. MaxReorg, NewHead(depth) PROVE TaskInv'
  BY <1>1 DEF NewHead, TaskInv
<1>2. ASSUME HeadAtBound PROVE TaskInv'
  BY <1>2 DEF HeadAtBound, TaskInv
<1>3. ASSUME NEW s \in Slots, TakeHeader(s) PROVE TaskInv'
  BY <1>3 DEF TakeHeader, TaskInv, NoTasks, NoTask, TypeOK
<1>4. ASSUME NEW s \in Slots, DeleteOrders(s) PROVE TaskInv'
  BY <1>4 DEF DeleteOrders, TaskInv, NoTasks, NoTask, TypeOK
<1>5. ASSUME NEW s \in Slots, GetOrders(s) PROVE TaskInv'
  <2>1. \A o \in Rows : o \in Accepted /\ MetadataOf(db[o]) \in Metadata
    BY MetadataOfRow DEF RowInv, Rows, TypeOK
  <2> QED
    BY <1>5, <2>1 DEF GetOrders, TaskInv, NoTask, TypeOK
<1>6. ASSUME NEW s \in Slots, NEW o \in Orders, FetchState(s, o) PROVE TaskInv'
  BY <1>6 DEF FetchState, TaskInv, NoTasks, NoTask, TypeOK
<1>7. ASSUME NEW s \in Slots, NEW o \in Orders, EmitChange(s, o) PROVE TaskInv'
  BY <1>7 DEF EmitChange, TaskInv, NoTasks, NoTask, TypeOK
<1>8. ASSUME NEW s \in Slots, NEW o \in Orders, UpdateOrder(s, o) PROVE TaskInv'
  BY <1>8 DEF UpdateOrder, TaskInv, NoTasks, NoTask, TypeOK
<1>9. ASSUME NEW s \in Slots, NEW o \in Orders, InvalidateOrder(s, o) PROVE TaskInv'
  BY <1>9 DEF InvalidateOrder, TaskInv, NoTasks, NoTask, TypeOK
<1>10. ASSUME NEW s \in Slots, FinishBlock(s) PROVE TaskInv'
  BY <1>10 DEF FinishBlock, TaskInv, NoTasks, NoTask, TypeOK
<1>11. ASSUME NEW c \in Requests, NEW o \in Orders, Submit(c, o) PROVE TaskInv'
  BY <1>11 DEF Submit, TaskInv
<1>12. ASSUME NEW c \in Requests, FetchSubmitted(c) PROVE TaskInv'
  BY <1>12 DEF FetchSubmitted, TaskInv
<1>13. ASSUME NEW c \in Requests, InsertOrder(c) PROVE TaskInv'
  BY <1>13 DEF InsertOrder, TaskInv
<1>14. ASSUME NEW c \in Requests, EmitAdded(c) PROVE TaskInv'
  BY <1>14 DEF EmitAdded, TaskInv
<1>15. ASSUME NEW c \in Requests, RequestFails(c) PROVE TaskInv'
  BY <1>15 DEF RequestFails, TaskInv
<1>16. ASSUME AutoCommit PROVE TaskInv'
  BY <1>16 DEF AutoCommit, TaskInv
<1>17. ASSUME Restart PROVE TaskInv'
  BY <1>17 DEF Restart, TaskInv, NoTasks, NoTask, TypeOK
<1>18. QED
  BY <1>1, <1>2, <1>3, <1>4, <1>5, <1>6, <1>7, <1>8, <1>9, <1>10, <1>11,
     <1>12, <1>13, <1>14, <1>15, <1>16, <1>17
     DEF Next, HandlerStep, RevalidateStep, RequestStep, Crash, Underflow

(* The event of an invalidation precedes its write.                        *)
LEMMA WriteAfterEventStep == IInv /\ Next => WriteAfterEvent'
<1> SUFFICES ASSUME IInv, Next PROVE WriteAfterEvent'
  OBVIOUS
<1> USE DEF IInv, chainVars, topicVars, streamVars, blockVars
<1>1. ASSUME NEW depth \in 0 .. MaxReorg, NewHead(depth) PROVE WriteAfterEvent'
  BY <1>1 DEF NewHead, WriteAfterEvent
<1>2. ASSUME HeadAtBound PROVE WriteAfterEvent'
  BY <1>2 DEF HeadAtBound, WriteAfterEvent
<1>3. ASSUME NEW s \in Slots, TakeHeader(s) PROVE WriteAfterEvent'
  BY <1>3, SMTT(20) DEF TakeHeader, WriteAfterEvent, PhaseInv, NoTasks, NoTask, TypeOK
<1>4. ASSUME NEW s \in Slots, DeleteOrders(s) PROVE WriteAfterEvent'
  BY <1>4 DEF DeleteOrders, WriteAfterEvent, PhaseInv, NoTasks, NoTask, TypeOK
<1>5. ASSUME NEW s \in Slots, GetOrders(s) PROVE WriteAfterEvent'
  BY <1>5 DEF GetOrders, WriteAfterEvent, PhaseInv, NoTasks, NoTask, TypeOK
<1>6. ASSUME NEW s \in Slots, NEW o \in Orders, FetchState(s, o) PROVE WriteAfterEvent'
  <2> DEFINE row  == task[s][o].row
             seen == chain[o]
  <2>1. o \in ContractSigned /\ seen \in ChainStates
    BY <1>6 DEF FetchState, TaskInv, Accepted, TypeOK
  <2>2. NeedsWrite(o, row, seen) /\ ~Validates(o, seen) => NeedsEvent(row, seen)
    BY <2>1 DEF NeedsWrite, NeedsUpdate, NeedsInvalidate, NeedsEvent, Validates, WasInvalid
  <2>3. task'[s][o].pc = "write" => Validates(o, task'[s][o].seen)
    BY <1>6, <2>2 DEF FetchState, NoTask, TypeOK
  <2> QED
    BY <1>6, <2>3 DEF FetchState, WriteAfterEvent, Validates, TypeOK
<1>7. ASSUME NEW s \in Slots, NEW o \in Orders, EmitChange(s, o) PROVE WriteAfterEvent'
  BY <1>7 DEF EmitChange, WriteAfterEvent, PhaseInv, NoTasks, NoTask, TypeOK
<1>8. ASSUME NEW s \in Slots, NEW o \in Orders, UpdateOrder(s, o) PROVE WriteAfterEvent'
  BY <1>8 DEF UpdateOrder, WriteAfterEvent, PhaseInv, NoTasks, NoTask, TypeOK
<1>9. ASSUME NEW s \in Slots, NEW o \in Orders, InvalidateOrder(s, o) PROVE WriteAfterEvent'
  BY <1>9 DEF InvalidateOrder, WriteAfterEvent, PhaseInv, NoTasks, NoTask, TypeOK
<1>10. ASSUME NEW s \in Slots, FinishBlock(s) PROVE WriteAfterEvent'
  BY <1>10 DEF FinishBlock, WriteAfterEvent, PhaseInv, NoTasks, NoTask, TypeOK
<1>11. ASSUME NEW c \in Requests, NEW o \in Orders, Submit(c, o) PROVE WriteAfterEvent'
  BY <1>11 DEF Submit, WriteAfterEvent
<1>12. ASSUME NEW c \in Requests, FetchSubmitted(c) PROVE WriteAfterEvent'
  BY <1>12 DEF FetchSubmitted, WriteAfterEvent
<1>13. ASSUME NEW c \in Requests, InsertOrder(c) PROVE WriteAfterEvent'
  BY <1>13 DEF InsertOrder, WriteAfterEvent
<1>14. ASSUME NEW c \in Requests, EmitAdded(c) PROVE WriteAfterEvent'
  BY <1>14 DEF EmitAdded, WriteAfterEvent
<1>15. ASSUME NEW c \in Requests, RequestFails(c) PROVE WriteAfterEvent'
  BY <1>15 DEF RequestFails, WriteAfterEvent
<1>16. ASSUME AutoCommit PROVE WriteAfterEvent'
  BY <1>16 DEF AutoCommit, WriteAfterEvent
<1>17. ASSUME Restart PROVE WriteAfterEvent'
  BY <1>17 DEF Restart, WriteAfterEvent, PhaseInv, NoTasks, NoTask, TypeOK
<1>18. QED
  BY <1>1, <1>2, <1>3, <1>4, <1>5, <1>6, <1>7, <1>8, <1>9, <1>10, <1>11,
     <1>12, <1>13, <1>14, <1>15, <1>16, <1>17
     DEF Next, HandlerStep, RevalidateStep, RequestStep, Crash, Underflow

(* Only accepted orders are stored.                                        *)
LEMMA RowStep == IInv /\ Next => RowInv'
<1> SUFFICES ASSUME IInv, Next PROVE RowInv'
  OBVIOUS
<1> USE DEF IInv, chainVars, topicVars, streamVars, blockVars
<1>1. ASSUME NEW depth \in 0 .. MaxReorg, NewHead(depth) PROVE RowInv'
  BY <1>1 DEF NewHead, RowInv, Rows
<1>2. ASSUME HeadAtBound PROVE RowInv'
  BY <1>2 DEF HeadAtBound, RowInv, Rows
<1>3. ASSUME NEW s \in Slots, TakeHeader(s) PROVE RowInv'
  BY <1>3 DEF TakeHeader, RowInv, Rows
<1>4. ASSUME NEW s \in Slots, DeleteOrders(s) PROVE RowInv'
  BY <1>4 DEF DeleteOrders, RowInv, Rows, ReqInv, InFlight, Accepted, TypeOK
<1>5. ASSUME NEW s \in Slots, GetOrders(s) PROVE RowInv'
  BY <1>5 DEF GetOrders, RowInv, Rows
<1>6. ASSUME NEW s \in Slots, NEW o \in Orders, FetchState(s, o) PROVE RowInv'
  BY <1>6 DEF FetchState, RowInv, Rows
<1>7. ASSUME NEW s \in Slots, NEW o \in Orders, EmitChange(s, o) PROVE RowInv'
  BY <1>7 DEF EmitChange, RowInv, Rows
<1>8. ASSUME NEW s \in Slots, NEW o \in Orders, UpdateOrder(s, o) PROVE RowInv'
  BY <1>8 DEF UpdateOrder, RowInv, Rows, ReqInv, InFlight, Accepted, TypeOK
<1>9. ASSUME NEW s \in Slots, NEW o \in Orders, InvalidateOrder(s, o) PROVE RowInv'
  BY <1>9 DEF InvalidateOrder, RowInv, Rows, ReqInv, InFlight, Accepted, TypeOK
<1>10. ASSUME NEW s \in Slots, FinishBlock(s) PROVE RowInv'
  BY <1>10 DEF FinishBlock, RowInv, Rows
<1>11. ASSUME NEW c \in Requests, NEW o \in Orders, Submit(c, o) PROVE RowInv'
  BY <1>11 DEF Submit, RowInv, Rows
<1>12. ASSUME NEW c \in Requests, FetchSubmitted(c) PROVE RowInv'
  BY <1>12 DEF FetchSubmitted, RowInv, Rows
<1>13. ASSUME NEW c \in Requests, InsertOrder(c) PROVE RowInv'
  BY <1>13 DEF InsertOrder, RowInv, Rows, ReqInv, InFlight, Accepted, TypeOK
<1>14. ASSUME NEW c \in Requests, EmitAdded(c) PROVE RowInv'
  BY <1>14 DEF EmitAdded, RowInv, Rows
<1>15. ASSUME NEW c \in Requests, RequestFails(c) PROVE RowInv'
  BY <1>15 DEF RequestFails, RowInv, Rows
<1>16. ASSUME AutoCommit PROVE RowInv'
  BY <1>16 DEF AutoCommit, RowInv, Rows
<1>17. ASSUME Restart PROVE RowInv'
  BY <1>17 DEF Restart, RowInv, Rows
<1>18. QED
  BY <1>1, <1>2, <1>3, <1>4, <1>5, <1>6, <1>7, <1>8, <1>9, <1>10, <1>11,
     <1>12, <1>13, <1>14, <1>15, <1>16, <1>17
     DEF Next, HandlerStep, RevalidateStep, RequestStep, Crash, Underflow

(* A request that inserts has passed the checks.                           *)
LEMMA ReqStep == IInv /\ Next => ReqInv'
<1> SUFFICES ASSUME IInv, Next PROVE ReqInv'
  OBVIOUS
<1> USE DEF IInv, chainVars, topicVars, streamVars, blockVars
<1>1. ASSUME NEW depth \in 0 .. MaxReorg, NewHead(depth) PROVE ReqInv'
  BY <1>1 DEF NewHead, ReqInv, InFlight
<1>2. ASSUME HeadAtBound PROVE ReqInv'
  BY <1>2 DEF HeadAtBound, ReqInv, InFlight
<1>3. ASSUME NEW s \in Slots, TakeHeader(s) PROVE ReqInv'
  BY <1>3 DEF TakeHeader, ReqInv, InFlight
<1>4. ASSUME NEW s \in Slots, DeleteOrders(s) PROVE ReqInv'
  BY <1>4 DEF DeleteOrders, ReqInv, InFlight
<1>5. ASSUME NEW s \in Slots, GetOrders(s) PROVE ReqInv'
  BY <1>5 DEF GetOrders, ReqInv, InFlight
<1>6. ASSUME NEW s \in Slots, NEW o \in Orders, FetchState(s, o) PROVE ReqInv'
  BY <1>6 DEF FetchState, ReqInv, InFlight
<1>7. ASSUME NEW s \in Slots, NEW o \in Orders, EmitChange(s, o) PROVE ReqInv'
  BY <1>7 DEF EmitChange, ReqInv, InFlight
<1>8. ASSUME NEW s \in Slots, NEW o \in Orders, UpdateOrder(s, o) PROVE ReqInv'
  BY <1>8 DEF UpdateOrder, ReqInv, InFlight
<1>9. ASSUME NEW s \in Slots, NEW o \in Orders, InvalidateOrder(s, o) PROVE ReqInv'
  BY <1>9 DEF InvalidateOrder, ReqInv, InFlight
<1>10. ASSUME NEW s \in Slots, FinishBlock(s) PROVE ReqInv'
  BY <1>10 DEF FinishBlock, ReqInv, InFlight
<1>11. ASSUME NEW c \in Requests, NEW o \in Orders, Submit(c, o) PROVE ReqInv'
  BY <1>11 DEF Submit, ReqInv, InFlight, Validates, TypeOK
<1>12. ASSUME NEW c \in Requests, FetchSubmitted(c) PROVE ReqInv'
  BY <1>12 DEF FetchSubmitted, ReqInv, InFlight, Validates, TypeOK
<1>13. ASSUME NEW c \in Requests, InsertOrder(c) PROVE ReqInv'
  BY <1>13 DEF InsertOrder, ReqInv, InFlight, Validates, TypeOK
<1>14. ASSUME NEW c \in Requests, EmitAdded(c) PROVE ReqInv'
  BY <1>14 DEF EmitAdded, ReqInv, InFlight, Validates, TypeOK
<1>15. ASSUME NEW c \in Requests, RequestFails(c) PROVE ReqInv'
  BY <1>15 DEF RequestFails, ReqInv, InFlight, Validates, TypeOK
<1>16. ASSUME AutoCommit PROVE ReqInv'
  BY <1>16 DEF AutoCommit, ReqInv, InFlight
<1>17. ASSUME Restart PROVE ReqInv'
  BY <1>17 DEF Restart, ReqInv, InFlight, Validates, TypeOK
<1>18. QED
  BY <1>1, <1>2, <1>3, <1>4, <1>5, <1>6, <1>7, <1>8, <1>9, <1>10, <1>11,
     <1>12, <1>13, <1>14, <1>15, <1>16, <1>17
     DEF Next, HandlerStep, RevalidateStep, RequestStep, Crash, Underflow

(* A positive answer comes after the Added event.                          *)
LEMMA OkStep == IInv /\ Next => OkInv'
<1> SUFFICES ASSUME IInv, Next PROVE OkInv'
  OBVIOUS
<1> USE DEF IInv, chainVars, topicVars, streamVars, blockVars
<1>1. ASSUME NEW depth \in 0 .. MaxReorg, NewHead(depth) PROVE OkInv'
  BY <1>1 DEF NewHead, OkInv
<1>2. ASSUME HeadAtBound PROVE OkInv'
  BY <1>2 DEF HeadAtBound, OkInv
<1>3. ASSUME NEW s \in Slots, TakeHeader(s) PROVE OkInv'
  BY <1>3 DEF TakeHeader, OkInv
<1>4. ASSUME NEW s \in Slots, DeleteOrders(s) PROVE OkInv'
  BY <1>4 DEF DeleteOrders, OkInv
<1>5. ASSUME NEW s \in Slots, GetOrders(s) PROVE OkInv'
  BY <1>5 DEF GetOrders, OkInv
<1>6. ASSUME NEW s \in Slots, NEW o \in Orders, FetchState(s, o) PROVE OkInv'
  BY <1>6 DEF FetchState, OkInv
<1>7. ASSUME NEW s \in Slots, NEW o \in Orders, EmitChange(s, o) PROVE OkInv'
  <2>1. task[s][o].seen # Null
    BY <1>7, NullAssumption DEF EmitChange, TaskInv
  <2> QED
    BY <1>7, <2>1 DEF EmitChange, OkInv, ReqInv, Publish, TypeOK
<1>8. ASSUME NEW s \in Slots, NEW o \in Orders, UpdateOrder(s, o) PROVE OkInv'
  BY <1>8 DEF UpdateOrder, OkInv
<1>9. ASSUME NEW s \in Slots, NEW o \in Orders, InvalidateOrder(s, o) PROVE OkInv'
  BY <1>9 DEF InvalidateOrder, OkInv
<1>10. ASSUME NEW s \in Slots, FinishBlock(s) PROVE OkInv'
  BY <1>10 DEF FinishBlock, OkInv
<1>11. ASSUME NEW c \in Requests, NEW o \in Orders, Submit(c, o) PROVE OkInv'
  BY <1>11 DEF Submit, OkInv, InFlight, TypeOK
<1>12. ASSUME NEW c \in Requests, FetchSubmitted(c) PROVE OkInv'
  BY <1>12 DEF FetchSubmitted, OkInv, InFlight, TypeOK
<1>13. ASSUME NEW c \in Requests, InsertOrder(c) PROVE OkInv'
  BY <1>13 DEF InsertOrder, OkInv, InFlight, TypeOK
<1>14. ASSUME NEW c \in Requests, EmitAdded(c) PROVE OkInv'
  <2>1. [status |-> "Added", remaining |-> req[c].seen.remaining] # Null
    BY <1>14, AddedIsAnEvent DEF EmitAdded, ReqInv
  <2> QED
    BY <1>14, <2>1 DEF EmitAdded, OkInv, ReqInv, Publish, TypeOK
<1>15. ASSUME NEW c \in Requests, RequestFails(c) PROVE OkInv'
  BY <1>15 DEF RequestFails, OkInv, InFlight, TypeOK
<1>16. ASSUME AutoCommit PROVE OkInv'
  BY <1>16 DEF AutoCommit, OkInv
<1>17. ASSUME Restart PROVE OkInv'
  BY <1>17 DEF Restart, OkInv, InFlight, TypeOK
<1>18. QED
  BY <1>1, <1>2, <1>3, <1>4, <1>5, <1>6, <1>7, <1>8, <1>9, <1>10, <1>11,
     <1>12, <1>13, <1>14, <1>15, <1>16, <1>17
     DEF Next, HandlerStep, RevalidateStep, RequestStep, Crash, Underflow

(* Rows are marked invalid with a block on record.                         *)
LEMMA ToldStep == IInv /\ Next => InvalidRowsWereTold'
<1> SUFFICES ASSUME IInv, Next PROVE InvalidRowsWereTold'
  OBVIOUS
<1> USE DEF IInv, chainVars, topicVars, streamVars, blockVars
<1>1. ASSUME NEW depth \in 0 .. MaxReorg, NewHead(depth) PROVE InvalidRowsWereTold'
  BY <1>1 DEF NewHead, InvalidRowsWereTold, Rows
<1>2. ASSUME HeadAtBound PROVE InvalidRowsWereTold'
  BY <1>2 DEF HeadAtBound, InvalidRowsWereTold, Rows
<1>3. ASSUME NEW s \in Slots, TakeHeader(s) PROVE InvalidRowsWereTold'
  BY <1>3 DEF TakeHeader, InvalidRowsWereTold, Rows
<1>4. ASSUME NEW s \in Slots, DeleteOrders(s) PROVE InvalidRowsWereTold'
  BY <1>4 DEF DeleteOrders, InvalidRowsWereTold, Rows, WriteAfterEvent, NeedsInvalidate, ReqInv, TypeOK
<1>5. ASSUME NEW s \in Slots, GetOrders(s) PROVE InvalidRowsWereTold'
  BY <1>5 DEF GetOrders, InvalidRowsWereTold, Rows
<1>6. ASSUME NEW s \in Slots, NEW o \in Orders, FetchState(s, o) PROVE InvalidRowsWereTold'
  BY <1>6 DEF FetchState, InvalidRowsWereTold, Rows
<1>7. ASSUME NEW s \in Slots, NEW o \in Orders, EmitChange(s, o) PROVE InvalidRowsWereTold'
  BY <1>7 DEF EmitChange, InvalidRowsWereTold, Rows, WriteAfterEvent, NeedsInvalidate, ReqInv, TypeOK
<1>8. ASSUME NEW s \in Slots, NEW o \in Orders, UpdateOrder(s, o) PROVE InvalidRowsWereTold'
  BY <1>8 DEF UpdateOrder, InvalidRowsWereTold, Rows, WriteAfterEvent, NeedsInvalidate, ReqInv, TypeOK
<1>9. ASSUME NEW s \in Slots, NEW o \in Orders, InvalidateOrder(s, o) PROVE InvalidRowsWereTold'
  BY <1>9 DEF InvalidateOrder, InvalidRowsWereTold, Rows, WriteAfterEvent, NeedsInvalidate, ReqInv, TypeOK
<1>10. ASSUME NEW s \in Slots, FinishBlock(s) PROVE InvalidRowsWereTold'
  BY <1>10 DEF FinishBlock, InvalidRowsWereTold, Rows
<1>11. ASSUME NEW c \in Requests, NEW o \in Orders, Submit(c, o) PROVE InvalidRowsWereTold'
  BY <1>11 DEF Submit, InvalidRowsWereTold, Rows
<1>12. ASSUME NEW c \in Requests, FetchSubmitted(c) PROVE InvalidRowsWereTold'
  BY <1>12 DEF FetchSubmitted, InvalidRowsWereTold, Rows
<1>13. ASSUME NEW c \in Requests, InsertOrder(c) PROVE InvalidRowsWereTold'
  BY <1>13 DEF InsertOrder, InvalidRowsWereTold, Rows, WriteAfterEvent, NeedsInvalidate, ReqInv, TypeOK
<1>14. ASSUME NEW c \in Requests, EmitAdded(c) PROVE InvalidRowsWereTold'
  BY <1>14 DEF EmitAdded, InvalidRowsWereTold, Rows
<1>15. ASSUME NEW c \in Requests, RequestFails(c) PROVE InvalidRowsWereTold'
  BY <1>15 DEF RequestFails, InvalidRowsWereTold, Rows
<1>16. ASSUME AutoCommit PROVE InvalidRowsWereTold'
  BY <1>16 DEF AutoCommit, InvalidRowsWereTold, Rows
<1>17. ASSUME Restart PROVE InvalidRowsWereTold'
  BY <1>17 DEF Restart, InvalidRowsWereTold, Rows
<1>18. QED
  BY <1>1, <1>2, <1>3, <1>4, <1>5, <1>6, <1>7, <1>8, <1>9, <1>10, <1>11,
     <1>12, <1>13, <1>14, <1>15, <1>16, <1>17
     DEF Next, HandlerStep, RevalidateStep, RequestStep, Crash, Underflow

(* A row without an event has no positively answered request.              *)
LEMMA SilentStep == IInv /\ Next => SilentRowsAreUnacknowledged'
<1> SUFFICES ASSUME IInv, Next PROVE SilentRowsAreUnacknowledged'
  OBVIOUS
<1> USE DEF IInv, chainVars, topicVars, streamVars, blockVars
<1>1. ASSUME NEW depth \in 0 .. MaxReorg, NewHead(depth) PROVE SilentRowsAreUnacknowledged'
  BY <1>1 DEF NewHead, SilentRowsAreUnacknowledged, Rows
<1>2. ASSUME HeadAtBound PROVE SilentRowsAreUnacknowledged'
  BY <1>2 DEF HeadAtBound, SilentRowsAreUnacknowledged, Rows
<1>3. ASSUME NEW s \in Slots, TakeHeader(s) PROVE SilentRowsAreUnacknowledged'
  BY <1>3 DEF TakeHeader, SilentRowsAreUnacknowledged, Rows
<1>4. ASSUME NEW s \in Slots, DeleteOrders(s) PROVE SilentRowsAreUnacknowledged'
  BY <1>4 DEF DeleteOrders, SilentRowsAreUnacknowledged, Rows, OkInv, ReqInv, InFlight, TypeOK
<1>5. ASSUME NEW s \in Slots, GetOrders(s) PROVE SilentRowsAreUnacknowledged'
  BY <1>5 DEF GetOrders, SilentRowsAreUnacknowledged, Rows
<1>6. ASSUME NEW s \in Slots, NEW o \in Orders, FetchState(s, o) PROVE SilentRowsAreUnacknowledged'
  BY <1>6 DEF FetchState, SilentRowsAreUnacknowledged, Rows
<1>7. ASSUME NEW s \in Slots, NEW o \in Orders, EmitChange(s, o) PROVE SilentRowsAreUnacknowledged'
  <2>1. task[s][o].seen # Null
    BY <1>7, NullAssumption DEF EmitChange, TaskInv
  <2> QED
    BY <1>7, <2>1 DEF EmitChange, SilentRowsAreUnacknowledged, Rows, Publish, TypeOK
<1>8. ASSUME NEW s \in Slots, NEW o \in Orders, UpdateOrder(s, o) PROVE SilentRowsAreUnacknowledged'
  BY <1>8 DEF UpdateOrder, SilentRowsAreUnacknowledged, Rows, OkInv, ReqInv, InFlight, TypeOK
<1>9. ASSUME NEW s \in Slots, NEW o \in Orders, InvalidateOrder(s, o) PROVE SilentRowsAreUnacknowledged'
  BY <1>9 DEF InvalidateOrder, SilentRowsAreUnacknowledged, Rows, OkInv, ReqInv, InFlight, TypeOK
<1>10. ASSUME NEW s \in Slots, FinishBlock(s) PROVE SilentRowsAreUnacknowledged'
  BY <1>10 DEF FinishBlock, SilentRowsAreUnacknowledged, Rows
<1>11. ASSUME NEW c \in Requests, NEW o \in Orders, Submit(c, o) PROVE SilentRowsAreUnacknowledged'
  BY <1>11 DEF Submit, SilentRowsAreUnacknowledged, Rows, OkInv, ReqInv, InFlight, TypeOK
<1>12. ASSUME NEW c \in Requests, FetchSubmitted(c) PROVE SilentRowsAreUnacknowledged'
  BY <1>12 DEF FetchSubmitted, SilentRowsAreUnacknowledged, Rows, OkInv, ReqInv, InFlight, TypeOK
<1>13. ASSUME NEW c \in Requests, InsertOrder(c) PROVE SilentRowsAreUnacknowledged'
  BY <1>13 DEF InsertOrder, SilentRowsAreUnacknowledged, Rows, OkInv, ReqInv, InFlight, TypeOK
<1>14. ASSUME NEW c \in Requests, EmitAdded(c) PROVE SilentRowsAreUnacknowledged'
  <2>1. [status |-> "Added", remaining |-> req[c].seen.remaining] # Null
    BY <1>14, AddedIsAnEvent DEF EmitAdded, ReqInv
  <2>2. view'[req[c].order] # Null
    BY <1>14, <2>1 DEF EmitAdded, ReqInv, Publish, TypeOK
  <2> QED
    BY <1>14, <2>2 DEF EmitAdded, SilentRowsAreUnacknowledged, Rows, ReqInv, Publish, TypeOK
<1>15. ASSUME NEW c \in Requests, RequestFails(c) PROVE SilentRowsAreUnacknowledged'
  BY <1>15 DEF RequestFails, SilentRowsAreUnacknowledged, Rows, OkInv, ReqInv, InFlight, TypeOK
<1>16. ASSUME AutoCommit PROVE SilentRowsAreUnacknowledged'
  BY <1>16 DEF AutoCommit, SilentRowsAreUnacknowledged, Rows
<1>17. ASSUME Restart PROVE SilentRowsAreUnacknowledged'
  BY <1>17 DEF Restart, SilentRowsAreUnacknowledged, Rows, OkInv, ReqInv, InFlight, TypeOK
<1>18. QED
  BY <1>1, <1>2, <1>3, <1>4, <1>5, <1>6, <1>7, <1>8, <1>9, <1>10, <1>11,
     <1>12, <1>13, <1>14, <1>15, <1>16, <1>17
     DEF Next, HandlerStep, RevalidateStep, RequestStep, Crash, Underflow

-----------------------------------------------------------------------------
(* The initial states, and stuttering.                                     *)
LEMMA InitIInv == Init => IInv
<1> SUFFICES ASSUME Init PROVE IInv
  OBVIOUS
<1>1. PICK kept \in SUBSET {o \in Accepted : chain[o].status = "Fillable"} :
        /\ db = [o \in Orders |->
                   IF o \in kept
                   THEN [remaining |-> chain[o].remaining, invalid_since |-> Null]
                   ELSE Null]
        /\ view = [o \in Orders |->
                   IF o \in kept
                   THEN [status |-> "Added", remaining |-> chain[o].remaining]
                   ELSE Null]
  BY DEF Init, Accepted
<1>2. kept \subseteq Accepted /\ Accepted \subseteq Orders
  BY SetsAssumption DEF Accepted
<1>3. \A o \in Orders :
        /\ chain[o] \in ChainStates
        /\ chain[o].remaining \in Nat
        /\ [remaining |-> chain[o].remaining, invalid_since |-> Null] \in Row
        /\ [status |-> "Added", remaining |-> chain[o].remaining] \in Metadata
  BY SetsAssumption DEF Init, Row, Metadata
<1>4. TypeOK
  <2>1. db \in [Orders -> Row \cup {Null}] /\ view \in [Orders -> Metadata \cup {Null}]
    BY <1>1, <1>3
  <2>2. task \in [Slots -> [Orders -> Task]] /\ req \in [Requests -> Request]
    BY DEF Init, NoTasks, NoTask, Task, NoRequest, Request
  <2>3. FirstBlock \in Blocks
    BY BlockAssumption DEF Blocks
  <2>4. chain \in [Orders -> ChainStates] /\ head \in Blocks
    BY <2>3, SetsAssumption DEF Init
  <2>7. headers \in Seq(Blocks) /\ uncommitted \in Seq(Blocks)
    <3>1. <<FirstBlock>> \in Seq(Blocks)
      BY <2>3
    <3>2. <<>> \in Seq(Blocks)
      OBVIOUS
    <3>3. headers \in {<<>>, <<FirstBlock>>} /\ uncommitted = <<>>
      BY DEF Init, Topic!Init
    <3> QED
      BY <3>1, <3>2, <3>3
  <2>6. committed \in BOOLEAN
    BY DEF Init, Topic!Init
  <2>5. /\ told \in [Orders -> SUBSET Blocks]
        /\ phase \in [Slots -> {"idle", "delete", "get", "revalidate"}]
        /\ block \in [Slots -> Blocks]
        /\ crashes \in 0 .. MaxCrashes
    BY <2>3, BoundAssumption DEF Init
  <2> QED
    BY <2>1, <2>2, <2>4, <2>5, <2>6, <2>7 DEF TypeOK
<1>5. /\ RowInv
      /\ InvalidRowsWereTold
      /\ SilentRowsAreUnacknowledged
  BY <1>1, <1>2, <1>3, NullAssumption
     DEF RowInv, Rows, InvalidRowsWereTold, SilentRowsAreUnacknowledged
<1>6. PhaseInv /\ TaskInv /\ WriteAfterEvent
  BY DEF Init, PhaseInv, TaskInv, WriteAfterEvent, NoTasks, NoTask
<1>7. ReqInv /\ OkInv
  BY DEF Init, ReqInv, OkInv, InFlight, NoRequest
<1> QED
  BY <1>4, <1>5, <1>6, <1>7 DEF IInv

(* IInv speaks of the state only.                                          *)
LEMMA StutterIInv == IInv /\ UNCHANGED vars => IInv'
  BY DEF IInv, TypeOK, RowInv, Rows, PhaseInv, TaskInv, WriteAfterEvent, ReqInv,
         InFlight, OkInv, InvalidRowsWereTold, SilentRowsAreUnacknowledged,
         vars, chainVars, topicVars, streamVars, blockVars

(* IInv is an inductive invariant of the order watcher.                    *)
THEOREM Invariance == Spec => []IInv
<1>1. IInv /\ [Next]_vars => IInv'
  BY StutterIInv, TypeStep, PhaseStep, TaskStep, WriteAfterEventStep, RowStep,
     ReqStep, OkStep, ToldStep, SilentStep
     DEF IInv
<1> QED
  BY InitIInv, <1>1, PTL DEF Spec

-----------------------------------------------------------------------------
(* Every variable keeps its type.                                          *)
THEOREM TypeCorrect == Spec => []TypeOK
<1>1. IInv => TypeOK
  BY DEF IInv
<1> QED
  BY <1>1, Invariance, PTL

(* No header handler ever meets a row its sanity check refuses, provided   *)
(* the contract and the local signature check agree.                       *)
THEOREM RowsAreSane == Spec => []RowsPassSanityCheck
<1>1. IInv => RowsPassSanityCheck
  BY SignatureAssumption
     DEF IInv, RowInv, Accepted, RowsPassSanityCheck, PassesSanityCheck
<1> QED
  BY <1>1, Invariance, PTL

(* A row is marked invalid since a block only after the handler of that    *)
(* block published the order as unfillable.                                *)
THEOREM ToldBeforeInvalid == Spec => []InvalidRowsWereTold
<1>1. IInv => InvalidRowsWereTold
  BY DEF IInv
<1> QED
  BY <1>1, Invariance, PTL

(* An order with a positive answer has been announced.                     *)
THEOREM NoSilentAcceptance == Spec => []SilentRowsAreUnacknowledged
<1>1. IInv => SilentRowsAreUnacknowledged
  BY DEF IInv
<1> QED
  BY <1>1, Invariance, PTL

(* No order leaves the table before consumers were told, at a block at     *)
(* least max_reorg older, that it is unfillable.                           *)
THEOREM DropOnlyAfterWindow == Spec => DroppedAfterReorgWindow
<1> DEFINE Dropped(o) == db[o] # Null /\ db'[o] = Null
           Window(o) == \E s \in Slots, n \in told[o] :
                            phase[s] = "delete" /\ n + MaxReorg <= block[s]
<1>1. ASSUME IInv, Next, NEW o \in Orders, Dropped(o) PROVE Window(o)
  <2> USE DEF chainVars, topicVars, streamVars, blockVars
  <2>1. ASSUME NEW s \in Slots, DeleteOrders(s) PROVE Window(o)
    <3>1. /\ phase[s] = "delete"
          /\ db[o].invalid_since # Null
          /\ db[o].invalid_since <= block[s] - MaxReorg
      BY <1>1, <2>1 DEF DeleteOrders
    <3>2. db[o].invalid_since \in told[o]
      BY <1>1, <3>1 DEF IInv, InvalidRowsWereTold, Rows
    <3>3. db[o].invalid_since \in Int /\ block[s] \in Int /\ MaxReorg \in Int
      BY <1>1, <3>1, BlockAssumption DEF IInv, TypeOK, Row, Blocks
    <3> QED
      BY <3>1, <3>2, <3>3
  <2>2. ASSUME \A s \in Slots : ~DeleteOrders(s) PROVE FALSE
    <3> HIDE DEF Dropped
    <3>0. /\ db \in [Orders -> Row \cup {Null}]
          /\ db[o] # Null /\ db'[o] = Null
          /\ \A row \in Row : row # Null
      BY <1>1, NullAssumption DEF IInv, TypeOK, Dropped
    <3>1. ASSUME NEW s \in Slots, NEW p \in Orders, UpdateOrder(s, p) PROVE FALSE
      <4>1. task[s][p].seen.remaining \in Nat
        BY <1>1, <3>1, SetsAssumption DEF UpdateOrder, IInv, TaskInv
      <4>2. PICK r \in Row : db' = [db EXCEPT ![p] = IF @ = Null THEN Null ELSE r]
        <5>1. [remaining |-> task[s][p].seen.remaining, invalid_since |-> Null] \in Row
          BY <4>1 DEF Row
        <5> QED
          BY <3>1, <5>1 DEF UpdateOrder
      <4> QED
        BY <3>0, <4>2
    <3>2. ASSUME NEW s \in Slots, NEW p \in Orders, InvalidateOrder(s, p) PROVE FALSE
      <4>1. db[p] \in Row => [db[p] EXCEPT !.invalid_since = block[s]] \in Row
        BY <1>1 DEF IInv, TypeOK, Row
      <4>2. db'[o] \in {db[o], [db[p] EXCEPT !.invalid_since = block[s]]}
        BY <3>0, <3>2 DEF InvalidateOrder
      <4>3. p = o \/ db'[o] = db[o]
        BY <3>0, <3>2 DEF InvalidateOrder
      <4> QED
        BY <3>0, <4>1, <4>2, <4>3
    <3>3. ASSUME NEW c \in Requests, InsertOrder(c) PROVE FALSE
      <4> DEFINE p == req[c].order
                 r == req[c].seen.remaining
      <4>1. p \in Orders /\ r \in Nat
        BY <1>1, <3>3, SetsAssumption DEF InsertOrder, IInv, ReqInv
      <4>2. db[p] \in Row => [db[p] EXCEPT !.remaining = r] \in Row
        BY <4>1 DEF Row
      <4>3. db' = [db EXCEPT ![p] =
                IF @ = Null THEN [remaining |-> r, invalid_since |-> Null]
                ELSE [@ EXCEPT !.remaining = r]]
        BY <3>3 DEF InsertOrder
      <4> HIDE DEF p, r
      <4>4. p = o \/ db'[o] = db[o]
        BY <3>0, <4>1, <4>3
      <4>5. p = o => db'[o] = [db[o] EXCEPT !.remaining = r]
        BY <3>0, <4>1, <4>3
      <4> QED
        BY <3>0, <4>2, <4>4, <4>5
    <3>4. db' = db \/ (\E s \in Slots, p \in Orders : UpdateOrder(s, p) \/ InvalidateOrder(s, p))
             \/ (\E c \in Requests : InsertOrder(c))
      <4>1. Next
        BY <1>1
      <4>2. ASSUME NEW s \in Slots, HandlerStep(s) \/ Underflow(s)
            PROVE  \/ db' = db
                   \/ \E p \in Orders : UpdateOrder(s, p) \/ InvalidateOrder(s, p)
        BY <2>2, <4>2
           DEF HandlerStep, RevalidateStep, TakeHeader, GetOrders, FetchState,
               EmitChange, FinishBlock, Underflow, Restart
      <4>3. ASSUME NEW c \in Requests,
                   (\E p \in Orders : Submit(c, p)) \/ RequestStep(c) \/ RequestFails(c)
            PROVE  db' = db \/ InsertOrder(c)
        BY <4>3 DEF RequestStep, Submit, FetchSubmitted, EmitAdded, RequestFails
      <4>4. \A depth \in 0 .. MaxReorg : NewHead(depth) => db' = db
        BY DEF NewHead
      <4>5. HeadAtBound \/ AutoCommit \/ Crash => db' = db
        BY DEF HeadAtBound, AutoCommit, Crash, Restart
      <4> QED
        BY <4>1, <4>2, <4>3, <4>4, <4>5 DEF Next
    <3> QED
      BY <3>0, <3>1, <3>2, <3>3, <3>4
  <2> QED
    BY <2>1, <2>2
<1>2. IInv /\ [Next]_vars =>
        [\A o \in Orders : Dropped(o) => Window(o)]_vars
  BY <1>1
<1> QED
  BY <1>2, Invariance, PTL DEF Spec, DroppedAfterReorgWindow

-----------------------------------------------------------------------------
(* One handler at a time, no submissions and no crash: the stream of       *)
(* events agrees with the table.  All three are needed: two handlers, or a *)
(* handler and a submission, can cross (the findings of the README), and a *)
(* crash can fall between an event and the write of its row.               *)

Sequential ==
    /\ \A s, t \in Slots : s = t
    /\ Requests = {}
    /\ MaxCrashes = 0

(* What consumers believe of o agrees with the metadata m.                 *)
Agrees(o, m) ==
    /\ view[o] # Null
    /\ Fillable(view[o]) <=> Fillable(m)
    /\ Fillable(m) => view[o].remaining = m.remaining

(* A revalidation works on the present row.  The stream agrees with the    *)
(* row until the event is out, and then with the state it is to become.    *)
RowAgrees(o) ==
    (\E s \in Slots : task[s][o].pc = "write") \/ Agrees(o, MetadataOf(db[o]))

TaskFits(s, o) ==
    /\ task[s][o].pc # "none" => o \in Rows /\ task[s][o].row = MetadataOf(db[o])
    /\ task[s][o].pc = "emit" => NeedsEvent(task[s][o].row, task[s][o].seen)
    /\ task[s][o].pc = "write" =>
          /\ NeedsWrite(o, task[s][o].row, task[s][o].seen)
          /\ Agrees(o, task[s][o].seen)

StreamInv ==
    /\ \A o \in Rows : RowAgrees(o)
    /\ \A s \in Slots, o \in Orders : TaskFits(s, o)

(* An event is published, or not, so that consumers agree with what the    *)
(* row will be; and if the row need not change, with what it is.           *)
LEMMA RowFillable ==
    ASSUME NEW row \in Row
    PROVE  /\ Fillable(MetadataOf(row)) <=> row.invalid_since = Null
           /\ Fillable(MetadataOf(row)) <=> ~WasInvalid(MetadataOf(row))
           /\ MetadataOf(row).remaining = row.remaining
           /\ MetadataOf(row).status \in {"Fillable", "Invalid"}
BY DEF MetadataOf, Fillable, WasInvalid

(* What makes a state fetched for a stored order fillable.                 *)
LEMMA StateFillable ==
    ASSUME NEW o \in ContractSigned, NEW seen \in ChainStates
    PROVE  /\ Validates(o, seen) <=> Fillable(seen)
           /\ Fillable(seen) <=> seen.status = "Fillable"
           /\ seen \in Metadata /\ seen # Null
<1>1. seen.status \in ChainStatus /\ seen \in Metadata
  BY SetsAssumption DEF Metadata
<1>2. seen.status # "Added"
  BY <1>1 DEF ChainStatus
<1> QED
  BY <1>1, <1>2, NullAssumption DEF Validates, Fillable

(* A state that needs no event needs no write, and one that needs no write *)
(* agrees with the row.                                                    *)
LEMMA Decisions ==
    ASSUME NEW o \in ContractSigned, NEW seen \in ChainStates, NEW row \in Row
    PROVE  LET m == MetadataOf(row)
           IN  /\ ~NeedsEvent(m, seen) => ~NeedsWrite(o, m, seen)
               /\ ~NeedsWrite(o, m, seen) =>
                     /\ Fillable(seen) <=> Fillable(m)
                     /\ Fillable(seen) => seen.remaining = m.remaining
BY RowFillable, StateFillable DEF NeedsEvent, NeedsWrite, NeedsUpdate, NeedsInvalidate, WasInvalid

(* The rows that are there at first were announced with what they hold.    *)
LEMMA StreamInit == Init => StreamInv
<1> SUFFICES ASSUME Init PROVE StreamInv
  OBVIOUS
<1>1. PICK kept \in SUBSET {o \in WellFormed \cap ContractSigned :
                               chain[o].status = "Fillable"} :
          /\ db = [o \in Orders |->
                     IF o \in kept
                     THEN [remaining |-> chain[o].remaining, invalid_since |-> Null]
                     ELSE Null]
          /\ view = [o \in Orders |->
                     IF o \in kept
                     THEN [status |-> "Added", remaining |-> chain[o].remaining]
                     ELSE Null]
  BY DEF Init
<1>2. ASSUME NEW o \in Rows PROVE RowAgrees(o)
  <2>1. o \in Orders /\ o \in kept
    BY <1>1, <1>2 DEF Rows
  <2>2. chain[o].remaining \in Nat
    BY <2>1, SetsAssumption DEF Init
  <2>3. /\ db[o] = [remaining |-> chain[o].remaining, invalid_since |-> Null]
        /\ view[o] = [status |-> "Added", remaining |-> chain[o].remaining]
    BY <1>1, <2>1
  <2>4. view[o] \in Metadata
    BY <2>2, <2>3 DEF Metadata
  <2> QED
    BY <2>3, <2>4, NullAssumption DEF RowAgrees, Agrees, MetadataOf, Fillable
<1>3. ASSUME NEW s \in Slots, NEW o \in Orders PROVE TaskFits(s, o)
  BY DEF Init, NoTasks, NoTask, TaskFits
<1> QED
  BY <1>2, <1>3 DEF StreamInv

(* A step that leaves the table, the stream and the tasks alone.           *)
LEMMA StreamKept ==
    ASSUME StreamInv, UNCHANGED <<db, view, task>>
    PROVE  StreamInv'
BY DEF StreamInv, RowAgrees, TaskFits, Agrees, Rows

(* The steps of a revalidation of p, seen from the other orders: nothing   *)
(* they say of those changes.                                              *)
LEMMA StreamElsewhere ==
    ASSUME TypeOK, StreamInv, NEW s \in Slots, NEW p \in Orders,
           \A t \in Slots : t = s,
           \A o \in Orders \ {p} : /\ db'[o] = db[o] /\ view'[o] = view[o]
                                   /\ task'[s][o] = task[s][o],
           p \in Rows' => RowAgrees(p)', TaskFits(s, p)'
    PROVE  StreamInv'
<1>1. ASSUME NEW o \in Rows' PROVE RowAgrees(o)'
  BY <1>1 DEF StreamInv, RowAgrees, Agrees, Rows
<1>2. ASSUME NEW t \in Slots, NEW o \in Orders PROVE TaskFits(t, o)'
  BY <1>2 DEF StreamInv, TaskFits, Agrees, Rows
<1> QED
  BY <1>1, <1>2 DEF StreamInv

(* Every step of a sequential watcher keeps rows and last events in        *)
(* agreement.                                                              *)
LEMMA StreamStep ==
    ASSUME IInv, StreamInv, Sequential, Next
    PROVE  StreamInv'
<1> USE DEF chainVars, topicVars, streamVars, blockVars
<1>1. ASSUME UNCHANGED <<db, view, task>> PROVE StreamInv'
  BY <1>1, StreamKept
<1>2. ASSUME NEW s \in Slots, phase[s] # "revalidate"
      PROVE  /\ task = [t \in Slots |-> NoTasks]
             /\ \A t \in Slots, o \in Orders : task[t][o].pc = "none"
             /\ \A o \in Rows : Agrees(o, MetadataOf(db[o]))
  <2>1. \A t \in Slots : task[t] = NoTasks
    BY <1>2 DEF Sequential, IInv, PhaseInv
  <2>2. task = [t \in Slots |-> NoTasks]
    BY <2>1 DEF IInv, TypeOK
  <2>3. \A t \in Slots, o \in Orders : task[t][o].pc = "none"
    BY <2>1 DEF NoTasks, NoTask
  <2> QED
    BY <2>2, <2>3 DEF StreamInv, RowAgrees, Rows
<1>3. ASSUME NEW s \in Slots, DeleteOrders(s) PROVE StreamInv'
  <2>1. /\ \A t \in Slots, o \in Orders : task[t][o].pc = "none"
        /\ \A o \in Rows : Agrees(o, MetadataOf(db[o]))
    BY <1>2, <1>3 DEF DeleteOrders
  <2>2. task' = task /\ view' = view /\ \A o \in Rows' : o \in Rows /\ db'[o] = db[o]
    BY <1>3 DEF DeleteOrders, Rows
  <2> QED
    BY <2>1, <2>2 DEF StreamInv, RowAgrees, TaskFits, Agrees
<1>4. ASSUME NEW s \in Slots, GetOrders(s) PROVE StreamInv'
  <2>1. \A o \in Rows : Agrees(o, MetadataOf(db[o]))
    BY <1>2, <1>4 DEF GetOrders
  <2>2. /\ db' = db /\ view' = view
        /\ \A o \in Orders : task'[s][o] =
              IF o \in Rows
              THEN [pc |-> "fetch", row |-> MetadataOf(db[o]), seen |-> Null]
              ELSE NoTask
    BY <1>4 DEF GetOrders, IInv, TypeOK
  <2>3. ASSUME NEW t \in Slots, NEW o \in Orders PROVE TaskFits(t, o)'
    <3>1. t = s
      BY DEF Sequential
    <3>2. CASE o \in Rows
      <4>1. task'[t][o] = [pc |-> "fetch", row |-> MetadataOf(db[o]), seen |-> Null]
        BY <2>2, <3>1, <3>2
      <4> QED
        BY <2>2, <3>2, <4>1 DEF TaskFits, Rows
    <3>3. CASE o \notin Rows
      <4>1. task'[t][o] = NoTask
        BY <2>2, <3>1, <3>3
      <4> QED
        BY <4>1 DEF TaskFits, NoTask
    <3> QED
      BY <3>2, <3>3
  <2> QED
    BY <2>1, <2>2, <2>3 DEF StreamInv, RowAgrees, Agrees, Rows
<1>5. ASSUME NEW s \in Slots, NEW p \in Orders, RevalidateStep(s, p) PROVE StreamInv'
  <2> DEFINE was  == task[s][p].row
             seen == task[s][p].seen
  <2>0. \A t \in Slots : t = s
    BY DEF Sequential
  <2>1. /\ p \in Rows /\ p \in ContractSigned /\ db[p] \in Row
        /\ task[s][p].row = MetadataOf(db[p])
        /\ TaskFits(s, p) /\ RowAgrees(p)
    <3>1. task[s][p].pc # "none"
      BY <1>5 DEF RevalidateStep, FetchState, EmitChange, UpdateOrder, InvalidateOrder
    <3>2. TaskFits(s, p)
      BY DEF StreamInv
    <3> QED
      BY <3>1, <3>2 DEF StreamInv, TaskFits, IInv, TypeOK, TaskInv, Accepted, Rows
  <2>2. CASE FetchState(s, p)
    <3>1. chain[p] \in ChainStates
      BY DEF IInv, TypeOK
    <3>2. task[s][p].pc = "fetch"
      BY <2>2 DEF FetchState
    <3>3. Agrees(p, MetadataOf(db[p]))
      BY <2>0, <2>1, <3>2 DEF RowAgrees
    <3>4. \/ /\ NeedsEvent(was, chain[p])
             /\ task' = [task EXCEPT ![s][p] =
                           [pc |-> "emit", row |-> was, seen |-> chain[p]]]
          \/ task' = [task EXCEPT ![s][p] = NoTask]
      BY <2>1, <2>2, <3>1, Decisions DEF FetchState
    <3>5. UNCHANGED <<db, view>> /\ \A o \in Orders \ {p} : task'[s][o] = task[s][o]
      BY <2>2, <3>4 DEF FetchState, IInv, TypeOK
    <3>6. \/ /\ task'[s][p] = [pc |-> "emit", row |-> was, seen |-> chain[p]]
             /\ NeedsEvent(was, chain[p])
          \/ task'[s][p] = NoTask
      BY <3>4 DEF IInv, TypeOK
    <3>7. RowAgrees(p)'
      BY <3>3, <3>5 DEF RowAgrees, Agrees
    <3>8. TaskFits(s, p)'
      BY <2>1, <3>5, <3>6 DEF TaskFits, NoTask, Rows
    <3> QED
      BY <2>0, <3>5, <3>7, <3>8, StreamElsewhere DEF IInv
  <2>3. CASE EmitChange(s, p)
    <3>1. task[s][p].pc = "emit" /\ seen \in ChainStates
      BY <2>3 DEF EmitChange, IInv, TaskInv
    <3>2. /\ view'[p] = seen /\ db' = db
          /\ \A o \in Orders \ {p} : view'[o] = view[o] /\ task'[s][o] = task[s][o]
          /\ task'[s][p] = IF NeedsWrite(p, was, seen)
                           THEN [pc |-> "write", row |-> was, seen |-> seen]
                           ELSE NoTask
      BY <2>3 DEF EmitChange, Publish, IInv, TypeOK
    <3>3. view'[p] # Null
      BY <2>1, <3>1, <3>2, StateFillable
    <3>4. RowAgrees(p)'
      <4>1. CASE NeedsWrite(p, was, seen)
        BY <3>2, <4>1 DEF RowAgrees
      <4>2. CASE ~NeedsWrite(p, was, seen)
        <5>1. /\ Fillable(seen) <=> Fillable(MetadataOf(db[p]))
              /\ Fillable(seen) => seen.remaining = MetadataOf(db[p]).remaining
          BY <2>1, <3>1, <4>2, Decisions
        <5> QED
          BY <3>2, <3>3, <5>1 DEF RowAgrees, Agrees
      <4> QED
        BY <4>1, <4>2
    <3>5. TaskFits(s, p)'
      BY <2>1, <3>2, <3>3 DEF TaskFits, NoTask, Rows, Agrees
    <3> QED
      BY <2>0, <3>2, <3>4, <3>5, StreamElsewhere DEF IInv
  <2>4. CASE UpdateOrder(s, p)
    <3>1. /\ task[s][p].pc = "write" /\ seen \in ChainStates
          /\ NeedsUpdate(p, was, seen)
      BY <2>4 DEF UpdateOrder, IInv, TaskInv
    <3>2. /\ view' = view
          /\ \A o \in Orders \ {p} : db'[o] = db[o] /\ task'[s][o] = task[s][o]
          /\ db'[p] = [remaining |-> seen.remaining, invalid_since |-> Null]
          /\ task'[s][p] = NoTask
      BY <2>1, <2>4 DEF UpdateOrder, IInv, TypeOK, Rows
    <3>3. Agrees(p, seen) /\ Fillable(seen)
      BY <2>1, <3>1, StateFillable DEF TaskFits, NeedsUpdate
    <3>4. RowAgrees(p)'
      BY <3>2, <3>3 DEF RowAgrees, Agrees, MetadataOf, Fillable
    <3>5. TaskFits(s, p)'
      BY <3>2 DEF TaskFits, NoTask
    <3> QED
      BY <2>0, <3>2, <3>4, <3>5, StreamElsewhere DEF IInv
  <2>5. CASE InvalidateOrder(s, p)
    <3>1. /\ task[s][p].pc = "write" /\ seen \in ChainStates
          /\ ~Validates(p, seen) /\ block[s] \in Blocks
      BY <2>5 DEF InvalidateOrder, NeedsInvalidate, IInv, TaskInv, TypeOK
    <3>2. /\ view' = view
          /\ \A o \in Orders \ {p} : db'[o] = db[o] /\ task'[s][o] = task[s][o]
          /\ task'[s][p] = NoTask
      BY <2>5 DEF InvalidateOrder, IInv, TypeOK
    <3>3. db'[p].invalid_since # Null
      <4>1. db'[p] = IF db[p].invalid_since = Null \/ db[p].invalid_since > block[s]
                     THEN [db[p] EXCEPT !.invalid_since = block[s]]
                     ELSE db[p]
        BY <2>1, <2>5 DEF InvalidateOrder, IInv, TypeOK, Rows
      <4>2. [db[p] EXCEPT !.invalid_since = block[s]].invalid_since = block[s]
        BY <2>1 DEF Row
      <4> QED
        BY <3>1, <4>1, <4>2, NullAssumption
    <3>4. Agrees(p, seen) /\ ~Fillable(seen)
      BY <2>1, <3>1, StateFillable DEF TaskFits
    <3>5. RowAgrees(p)'
      BY <3>2, <3>3, <3>4 DEF RowAgrees, Agrees, MetadataOf, Fillable
    <3>6. TaskFits(s, p)'
      BY <3>2 DEF TaskFits, NoTask
    <3> QED
      BY <2>0, <3>2, <3>5, <3>6, StreamElsewhere DEF IInv
  <2> QED
    BY <1>5, <2>2, <2>3, <2>4, <2>5 DEF RevalidateStep
<1>6. ASSUME NEW s \in Slots, Underflow(s) PROVE StreamInv'
  <2>1. task = [t \in Slots |-> NoTasks]
    BY <1>2, <1>6 DEF Underflow
  <2> QED
    BY <1>1, <1>6, <2>1 DEF Underflow, Restart
<1>7. ~Crash
  BY BoundAssumption DEF Crash, Sequential, IInv, TypeOK
<1>8. \A depth \in 0 .. MaxReorg : NewHead(depth) => UNCHANGED <<db, view, task>>
  BY DEF NewHead
<1>9. HeadAtBound \/ AutoCommit => UNCHANGED <<db, view, task>>
  BY DEF HeadAtBound, AutoCommit
<1>10. \A s \in Slots : TakeHeader(s) \/ FinishBlock(s) => UNCHANGED <<db, view, task>>
  BY DEF TakeHeader, FinishBlock
<1>11. ASSUME NEW s \in Slots, HandlerStep(s) PROVE StreamInv'
  BY <1>1, <1>3, <1>4, <1>5, <1>10, <1>11 DEF HandlerStep
<1>12. Requests = {}
  BY DEF Sequential
<1> QED
  BY <1>1, <1>6, <1>7, <1>8, <1>9, <1>11, <1>12 DEF Next

(* StreamInv is inductive, given IInv, when one handler runs at a time and *)
(* nothing is submitted or crashes.                                        *)
LEMMA StreamInvariance ==
    ASSUME Sequential
    PROVE  Spec => []StreamInv
<1>1. StreamInv /\ UNCHANGED vars => StreamInv'
  BY StreamKept DEF vars, streamVars, blockVars
<1>2. IInv /\ StreamInv /\ [Next]_vars => StreamInv'
  BY <1>1, StreamStep
<1> QED
  BY Invariance, StreamInit, <1>2, PTL DEF Spec

(* With one handler, no submissions and no crash, the last event published *)
(* for a stored order says what its row says, except between the event and *)
(* the write of a revalidation: for every set of orders, every max_reorg   *)
(* and whatever the chain does.                                            *)
THEOREM SequentialStreamMatches ==
    ASSUME Sequential
    PROVE  Spec => []StreamMatchesTable
<1>1. ASSUME IInv, StreamInv PROVE StreamMatchesTable
  <2> SUFFICES ASSUME NEW o \in Rows, \A s \in Slots : task[s][o].pc # "write"
               PROVE  /\ view[o] # Null
                      /\ Fillable(view[o]) <=> (db[o].invalid_since = Null)
                      /\ Fillable(view[o]) => view[o].remaining = db[o].remaining
    BY DEF StreamMatchesTable
  <2>1. db[o] \in Row
    BY <1>1 DEF IInv, TypeOK, Rows
  <2>2. Agrees(o, MetadataOf(db[o]))
    BY <1>1 DEF StreamInv, RowAgrees
  <2> QED
    BY <2>1, <2>2, RowFillable DEF Agrees
<1> QED
  BY <1>1, Invariance, StreamInvariance, PTL

(* And consumers are never sent an unfillable status after an unfillable   *)
(* status.                                                                 *)
THEOREM SequentialNoRepeat ==
    ASSUME Sequential
    PROVE  Spec => NoUnfillableAfterUnfillable
<1> DEFINE Alternates ==
             \A s \in Slots, o \in Orders :
                 EmitChange(s, o) /\ ~Fillable(view'[o]) =>
                     view[o] # Null /\ Fillable(view[o])
<1>1. ASSUME IInv, StreamInv PROVE Alternates
  <2> SUFFICES ASSUME NEW s \in Slots, NEW o \in Orders,
                      EmitChange(s, o), ~Fillable(view'[o])
               PROVE  view[o] # Null /\ Fillable(view[o])
    OBVIOUS
  <2>1. /\ task[s][o].pc = "emit" /\ task[s][o].seen \in ChainStates
        /\ view'[o] = task[s][o].seen
    BY <1>1 DEF EmitChange, Publish, IInv, TypeOK, TaskInv
  <2>2. /\ o \in Rows /\ o \in ContractSigned /\ db[o] \in Row
        /\ NeedsEvent(MetadataOf(db[o]), task[s][o].seen)
    BY <1>1, <2>1 DEF StreamInv, TaskFits, IInv, TypeOK, TaskInv, Accepted, Rows
  <2>3. Agrees(o, MetadataOf(db[o]))
    BY <1>1, <2>1, <2>2 DEF StreamInv, RowAgrees, Sequential
  <2>4. Fillable(MetadataOf(db[o]))
    BY <2>1, <2>2, RowFillable, StateFillable DEF NeedsEvent
  <2> QED
    BY <2>3, <2>4 DEF Agrees
<1>2. IInv /\ StreamInv /\ [Next]_vars => [Alternates]_vars
  BY <1>1
<1> QED
  BY <1>2, Invariance, StreamInvariance, PTL DEF Spec, NoUnfillableAfterUnfillable
=============================================================================
