----------------------------- MODULE OrderBook -----------------------------
(***************************************************************************)
(* What the order watcher promises its clients and the readers of its      *)
(* order events, whatever handlers overlap and wherever it crashes: each   *)
(* step of the table and of the stream is one of the six below.            *)
(*                                                                         *)
(* Only acceptable orders are stored or spoken of.  A row is marked        *)
(* unfillable since a block only after readers were told so on account of  *)
(* that block, and is dropped only Window blocks later.  A client has its  *)
(* answer no earlier than readers have the order.                          *)
(***************************************************************************)
EXTENDS Integers

CONSTANTS
    Orders,
    Acceptable,  \* the orders that may be stored
    Amounts,     \* remaining amounts of orders
    Reports,     \* what readers may be told of an order
    Blocks,      \* block numbers
    Window,      \* blocks between a mark and the end of its row
    Null

VARIABLES
    rows,    \* rows[o]: the row of order o, or Null
    heard,   \* heard[o]: the last event about o, or Null
    told,    \* told[o]: the blocks on account of which o was told unfillable
    agreed   \* orders with a positive answer

vars == <<rows, heard, told, agreed>>

Present(o) == rows[o] # Null
Marked(o)  == Present(o) /\ rows[o].invalid_since # Null

Fresh(amount) == [remaining |-> amount, invalid_since |-> Null]

Says(o, status, amount) ==
    heard' = [heard EXCEPT ![o] = [status |-> status, remaining |-> amount]]

Init ==
    /\ \A o \in Orders :
          \/ rows[o] = Null /\ heard[o] = Null
          \/ /\ o \in Acceptable
             /\ heard[o] # Null
             /\ rows[o] = Fresh(heard[o].remaining)
    /\ told = [o \in Orders |-> {}]
    /\ agreed = {}

(* An order is stored; if it was stored before, it keeps its mark.         *)
Store(o, amount) ==
    /\ o \in Acceptable
    /\ rows' = [rows EXCEPT ![o] =
          IF Present(o) THEN [@ EXCEPT !.remaining = amount] ELSE Fresh(amount)]
    /\ UNCHANGED <<heard, told, agreed>>

(* Readers are told of a new order, and then perhaps its client.           *)
Announce(o, amount) ==
    /\ o \in Acceptable
    /\ Says(o, "Added", amount)
    /\ agreed' \in {agreed, agreed \cup {o}}
    /\ UNCHANGED <<rows, told>>

(* Readers are told what block n made of an order.                         *)
Report(o, report, n) ==
    /\ o \in Acceptable
    /\ Says(o, report.status, report.remaining)
    /\ told' = IF report.status = "Fillable" THEN told
               ELSE [told EXCEPT ![o] = @ \cup {n}]
    /\ UNCHANGED <<rows, agreed>>

(* The row of an order is marked, or its mark is set back.                 *)
Mark(o, n) ==
    /\ Present(o) /\ n \in told[o]
    /\ Marked(o) => n < rows[o].invalid_since
    /\ rows' = [rows EXCEPT ![o].invalid_since = n]
    /\ UNCHANGED <<heard, told, agreed>>

(* The mark goes away.                                                     *)
Revive(o, amount) ==
    /\ Present(o)
    /\ rows' = [rows EXCEPT ![o] = Fresh(amount)]
    /\ UNCHANGED <<heard, told, agreed>>

(* Block n ends the rows that were marked Window blocks ago.               *)
Drop(n) ==
    /\ rows' = [o \in Orders |->
          IF Marked(o) /\ rows[o].invalid_since + Window <= n THEN Null ELSE rows[o]]
    /\ UNCHANGED <<heard, told, agreed>>

Next ==
    \/ \E o \in Orders, amount \in Amounts :
          Store(o, amount) \/ Announce(o, amount) \/ Revive(o, amount)
    \/ \E o \in Orders, report \in Reports, n \in Blocks : Report(o, report, n)
    \/ \E o \in Orders, n \in Blocks : Mark(o, n)
    \/ \E n \in Blocks : Drop(n)

Spec == Init /\ [][Next]_vars
=============================================================================
