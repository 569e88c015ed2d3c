-------------------- MODULE OrderWatcherRefinementProofs --------------------
(***************************************************************************)
(* OrderWatcher implements OrderBook, for any orders, requests, handlers,  *)
(* blocks and crashes.                                                     *)
(*                                                                         *)
(* Every action of OrderWatcher that touches the table, the stream or the  *)
(* answers is one action of the abstract specification, or none when it    *)
(* changes nothing there.  That a mark is one readers were told of, and    *)
(* that only accepted orders are stored, come from IInv.                   *)
(***************************************************************************)
EXTENDS OrderWatcherRefinement, OrderWatcherProofs

-----------------------------------------------------------------------------
(* The orders with a positive answer change when a call succeeds, only.    *)
LEMMA AgreedUnchanged == UNCHANGED req => UNCHANGED Agreed
BY DEF Agreed

(* A restart leaves the answers that were given.                           *)
LEMMA AgreedAfterRestart ==
    ASSUME TypeOK, Restart
    PROVE  UNCHANGED Agreed
<1>1. ASSUME NEW c \in Requests
      PROVE  /\ req'[c].pc = "ok" <=> req[c].pc = "ok"
             /\ req'[c].order = req[c].order
  BY DEF Restart, TypeOK, Request, InFlight
<1> QED
  BY <1>1 DEF Agreed

(* Setting the state of a call that has no answer yet adds its order, or   *)
(* nothing.                                                                *)
LEMMA AgreedAfter ==
    ASSUME TypeOK, NEW c \in Requests, NEW r, req[c].pc # "ok",
           req' = [req EXCEPT ![c] = r]
    PROVE  Agreed' = IF r.pc = "ok" THEN Agreed \cup {r.order} ELSE Agreed
<1>1. /\ req'[c] = r
      /\ \A d \in Requests \ {c} : req'[d] = req[d]
  BY DEF TypeOK
<1> QED
  BY <1>1 DEF Agreed

(* The same for a call that goes on with the order it has.                 *)
LEMMA AgreedAfterMove ==
    ASSUME TypeOK, NEW c \in Requests, NEW pc, req[c].pc # "ok",
           req' = [req EXCEPT ![c].pc = pc]
    PROVE  /\ pc = "ok" => Agreed' = Agreed \cup {req[c].order}
           /\ pc # "ok" => UNCHANGED Agreed
<1> DEFINE r == [req[c] EXCEPT !.pc = pc]
<1>1. req[c] \in Request
  BY DEF TypeOK
<1>2. r.pc = pc /\ r.order = req[c].order
  BY <1>1 DEF Request
<1>3. req' = [req EXCEPT ![c] = r]
  BY DEF TypeOK
<1> QED
  BY <1>2, <1>3, AgreedAfter

(* The first state is one of OrderBook.                                    *)
LEMMA BookInit == Init => Book!Init
<1> SUFFICES ASSUME Init PROVE Book!Init
  OBVIOUS
<1>1. Agreed = {}
  BY DEF Init, Agreed, NoRequest
<1>2. told = [o \in Orders |-> {}]
  BY DEF Init
<1>3. PICK kept \in SUBSET {o \in WellFormed \cap ContractSigned :
                              chain[o].status = "Fillable"} :
        /\ db = [o \in Orders |->
                   IF o \in kept
                   THEN [remaining |-> chain[o].remaining, invalid_since |-> Null]
                   ELSE Null]
        /\ view = [o \in Orders |->
                   IF o \in kept
                   THEN [status |-> "Added", remaining |-> chain[o].remaining]
                   ELSE Null]
  BY DEF Init
<1>4. ASSUME NEW o \in Orders
      PROVE  \/ db[o] = Null /\ view[o] = Null
             \/ /\ o \in WellFormed \cap ContractSigned
                /\ view[o] # Null
                /\ db[o] = Book!Fresh(view[o].remaining)
  <2>1. CASE o \notin kept
    BY <1>3, <2>1
  <2>2. CASE o \in kept
    <3>1. chain[o] \in ChainStates /\ chain[o].remaining \in Nat
      BY SetsAssumption DEF Init
    <3>2. /\ db[o] = [remaining |-> chain[o].remaining, invalid_since |-> Null]
          /\ view[o] = [status |-> "Added", remaining |-> chain[o].remaining]
      BY <1>3, <2>2
    <3>3. view[o] \in Metadata
      BY <3>1, <3>2 DEF Metadata
    <3> QED
      BY <2>2, <3>2, <3>3, NullAssumption DEF Book!Fresh
  <2> QED
    BY <2>1, <2>2
<1> QED
  BY <1>1, <1>2, <1>4 DEF Book!Init

(* Every step of OrderWatcher is a step of OrderBook, or changes nothing   *)
(* that OrderBook speaks of.                                               *)
LEMMA BookStep == IInv /\ [Next]_vars => [Book!Next]_(Book!vars)
<1> SUFFICES ASSUME IInv, [Next]_vars PROVE [Book!Next]_(Book!vars)
  OBVIOUS
<1> DEFINE Still == UNCHANGED <<db, view, told, Agreed>>
<1>0. Still => [Book!Next]_(Book!vars)
  BY DEF Book!vars
<1>t. TypeOK
  BY DEF IInv
<1> USE DEF chainVars, topicVars, streamVars, blockVars
<1>1. ASSUME NEW depth \in 0 .. MaxReorg, NewHead(depth) PROVE Still
  BY <1>1, AgreedUnchanged DEF NewHead
<1>2. ASSUME HeadAtBound PROVE Still
  BY <1>2, AgreedUnchanged DEF HeadAtBound
<1>3. ASSUME NEW s \in Slots, TakeHeader(s) PROVE Still
  BY <1>3, AgreedUnchanged DEF TakeHeader
<1>4. ASSUME NEW s \in Slots, DeleteOrders(s) PROVE Book!Next
  <2>1. block[s] \in Blocks /\ block[s] \in Int /\ MaxReorg \in Int
    BY <1>t, BlockAssumption DEF TypeOK, Blocks
  <2>2. ASSUME NEW o \in Orders, db[o] # Null, db[o].invalid_since # Null
        PROVE  db[o].invalid_since \in Int
    BY <1>t, <2>2, BlockAssumption DEF TypeOK, Row, Blocks
  <2>3. db' = [o \in Orders |->
                IF Book!Marked(o) /\ db[o].invalid_since + MaxReorg <= block[s]
                THEN Null ELSE db[o]]
    BY <1>4, <2>1, <2>2 DEF DeleteOrders, Book!Marked, Book!Present
  <2>4. Book!Drop(block[s])
    BY <1>4, <2>3, AgreedUnchanged DEF DeleteOrders, Book!Drop
  <2> QED
    BY <2>1, <2>4 DEF Book!Next
<1>5. ASSUME NEW s \in Slots, GetOrders(s) PROVE Still
  BY <1>5, AgreedUnchanged DEF GetOrders
<1>6. ASSUME NEW s \in Slots, NEW o \in Orders, FetchState(s, o) PROVE Still
  BY <1>6, AgreedUnchanged DEF FetchState
<1>7. ASSUME NEW s \in Slots, NEW o \in Orders, EmitChange(s, o) PROVE Book!Next
  <2> DEFINE seen == task[s][o].seen
  <2>1. o \in Accepted /\ seen \in ChainStates /\ block[s] \in Blocks
    BY <1>t, <1>7 DEF EmitChange, TaskInv, IInv, TypeOK
  <2>2. seen = [status |-> seen.status, remaining |-> seen.remaining]
    BY <2>1, SetsAssumption
  <2>3. view' = [view EXCEPT ![o] = [status |-> seen.status, remaining |-> seen.remaining]]
    BY <1>7, <2>2 DEF EmitChange, Publish
  <2>4. Validates(o, seen) <=> seen.status = "Fillable"
    BY <2>1, SetsAssumption DEF Validates, Accepted, ChainStatus
  <2>5. told' = IF seen.status = "Fillable" THEN told
                ELSE [told EXCEPT ![o] = @ \cup {block[s]}]
    BY <1>t, <1>7, <2>4 DEF EmitChange, TypeOK
  <2>6. Book!Report(o, seen, block[s])
    BY <1>7, <2>1, <2>3, <2>5, AgreedUnchanged
       DEF EmitChange, Book!Report, Book!Says, Accepted
  <2> QED
    BY <2>1, <2>6 DEF Book!Next
<1>8. ASSUME NEW s \in Slots, NEW o \in Orders, UpdateOrder(s, o)
      PROVE  Still \/ Book!Next
  <2> DEFINE seen == task[s][o].seen
  <2>1. seen \in ChainStates
    BY <1>8 DEF UpdateOrder, TaskInv, IInv
  <2>2. CASE db[o] = Null
    BY <1>t, <1>8, <2>2, AgreedUnchanged DEF UpdateOrder, TypeOK
  <2>3. CASE db[o] # Null
    <3>1. Book!Revive(o, seen.remaining)
      BY <1>t, <1>8, <2>3, AgreedUnchanged
         DEF UpdateOrder, TypeOK, Book!Revive, Book!Present, Book!Fresh
    <3> QED
      BY <2>1, <3>1 DEF Book!Next
  <2> QED
    BY <2>2, <2>3
<1>9. ASSUME NEW s \in Slots, NEW o \in Orders, InvalidateOrder(s, o)
      PROVE  Still \/ Book!Next
  <2>1. block[s] \in told[o] /\ block[s] \in Blocks
    BY <1>t, <1>9 DEF InvalidateOrder, NeedsInvalidate, WriteAfterEvent, IInv, TypeOK
  <2>2. CASE db[o] # Null /\ (db[o].invalid_since = Null \/ db[o].invalid_since > block[s])
    <3>1. Book!Marked(o) => block[s] < db[o].invalid_since
      BY <1>t, <2>1, <2>2, BlockAssumption DEF Book!Marked, Book!Present, TypeOK, Row, Blocks
    <3>2. db' = [db EXCEPT ![o].invalid_since = block[s]]
      BY <1>t, <1>9, <2>2 DEF InvalidateOrder, TypeOK
    <3>3. Book!Mark(o, block[s])
      BY <1>9, <2>1, <2>2, <3>1, <3>2, AgreedUnchanged
         DEF InvalidateOrder, Book!Mark, Book!Present
    <3> QED
      BY <2>1, <3>3 DEF Book!Next
  <2>3. CASE ~(db[o] # Null /\ (db[o].invalid_since = Null \/ db[o].invalid_since > block[s]))
    BY <1>t, <1>9, <2>3, AgreedUnchanged DEF InvalidateOrder, TypeOK
  <2> QED
    BY <2>2, <2>3
<1>10. ASSUME NEW s \in Slots, FinishBlock(s) PROVE Still
  BY <1>10, AgreedUnchanged DEF FinishBlock
<1>11. ASSUME NEW c \in Requests, NEW o \in Orders, Submit(c, o) PROVE Still
  <2> DEFINE r == [pc |-> IF o \in WellFormed THEN "fetch" ELSE "rejected",
                   order |-> o, seen |-> Null]
  <2>1. req[c].pc # "ok" /\ r.pc # "ok" /\ req' = [req EXCEPT ![c] = r]
    BY <1>11 DEF Submit
  <2>2. UNCHANGED Agreed
    BY <1>t, <2>1, AgreedAfter
  <2> QED
    BY <1>11, <2>2 DEF Submit
<1>12. ASSUME NEW c \in Requests, FetchSubmitted(c) PROVE Still
  <2> DEFINE o == req[c].order
             r == [pc |-> IF Validates(o, chain[o]) THEN "insert" ELSE "rejected",
                   order |-> o, seen |-> chain[o]]
  <2>1. req[c].pc # "ok" /\ r.pc # "ok" /\ req' = [req EXCEPT ![c] = r]
    BY <1>12 DEF FetchSubmitted
  <2>2. UNCHANGED Agreed
    BY <1>t, <2>1, AgreedAfter
  <2> QED
    BY <1>12, <2>2 DEF FetchSubmitted
<1>13. ASSUME NEW c \in Requests, InsertOrder(c) PROVE Book!Next
  <2> DEFINE o == req[c].order
             r == req[c].seen.remaining
  <2>1. o \in Orders /\ o \in WellFormed \cap ContractSigned /\ req[c].seen \in ChainStates
    BY <1>13 DEF InsertOrder, ReqInv, IInv, InFlight
  <2>2. Agreed' = Agreed
    <3> DEFINE pc == "emit"
    <3>1. pc # "ok" /\ req[c].pc # "ok" /\ req' = [req EXCEPT ![c].pc = pc]
      BY <1>13 DEF InsertOrder
    <3> HIDE DEF pc
    <3> QED
      BY <1>t, <3>1, AgreedAfterMove
  <2>3. Book!Store(o, r)
    BY <1>t, <1>13, <2>1, <2>2
       DEF InsertOrder, TypeOK, Book!Store, Book!Present, Book!Fresh
  <2> QED
    BY <2>1, <2>3 DEF Book!Next
<1>14. ASSUME NEW c \in Requests, EmitAdded(c) PROVE Book!Next
  <2> DEFINE o == req[c].order
             r == req[c].seen.remaining
  <2>1. o \in Orders /\ o \in WellFormed \cap ContractSigned /\ req[c].seen \in ChainStates
    BY <1>14 DEF EmitAdded, ReqInv, IInv, InFlight
  <2>2. PICK answer \in {"ok", "failed"} : req' = [req EXCEPT ![c].pc = answer]
    BY <1>14 DEF EmitAdded
  <2>3. Agreed' \in {Agreed, Agreed \cup {o}}
    <3>1. req[c].pc # "ok"
      BY <1>14 DEF EmitAdded
    <3> QED
      BY <1>t, <2>2, <3>1, AgreedAfterMove
  <2>4. Book!Announce(o, r)
    BY <1>14, <2>1, <2>3 DEF EmitAdded, Publish, Book!Announce, Book!Says
  <2> QED
    BY <2>1, <2>4 DEF Book!Next
<1>15. ASSUME NEW c \in Requests, RequestFails(c) PROVE Still
  <2> DEFINE pc == "failed"
  <2>1. pc # "ok" /\ req[c].pc # "ok" /\ req' = [req EXCEPT ![c].pc = pc]
    BY <1>15 DEF RequestFails, InFlight
  <2>2. UNCHANGED Agreed
    <3> HIDE DEF pc
    <3> QED
      BY <1>t, <2>1, AgreedAfterMove
  <2> QED
    BY <1>15, <2>2 DEF RequestFails
<1>16. ASSUME AutoCommit PROVE Still
  BY <1>16, AgreedUnchanged DEF AutoCommit
<1>17. ASSUME Crash PROVE Still
  BY <1>t, <1>17, AgreedAfterRestart DEF Crash, Restart
<1>18. ASSUME NEW s \in Slots, Underflow(s) PROVE Still
  BY <1>t, <1>18, AgreedAfterRestart DEF Underflow, Restart
<1>19. ASSUME UNCHANGED vars PROVE Still
  BY <1>19, AgreedUnchanged DEF vars
<1> HIDE DEF Still
<1> QED
  BY <1>0, <1>1, <1>2, <1>3, <1>4, <1>5, <1>6, <1>7, <1>8, <1>9, <1>10, <1>11,
     <1>12, <1>13, <1>14, <1>15, <1>16, <1>17, <1>18, <1>19
     DEF Next, HandlerStep, RevalidateStep, RequestStep

(* OrderWatcher implements OrderBook: the promise to clients and to the    *)
(* readers of order events holds for any number of orders, handlers,       *)
(* requests, blocks and crashes.                                           *)
THEOREM ImplementsOrderBook == Spec => IsOrderBook
<1>1. IInv /\ [Next]_vars => [Book!Next]_(Book!vars)
  BY BookStep
<1> QED
  BY <1>1, BookInit, Invariance, PTL DEF Spec, IsOrderBook, Book!Spec
=============================================================================
