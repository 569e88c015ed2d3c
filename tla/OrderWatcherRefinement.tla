----------------------- MODULE OrderWatcherRefinement -----------------------
(* What the order watcher implements: the order book its clients and       *)
(* readers rely on.                                                        *)
EXTENDS OrderWatcher

(* The orders with a positive answer.                                      *)
Agreed == {req[c].order : c \in {d \in Requests : req[d].pc = "ok"}}

Book == INSTANCE OrderBook WITH
    Acceptable <- WellFormed \cap ContractSigned,
    Amounts    <- {state.remaining : state \in ChainStates},
    Reports    <- ChainStates,
    Window     <- MaxReorg,
    rows       <- db,
    heard      <- view,
    agreed     <- Agreed

(* Whatever handlers, requests and crashes do between any two await        *)
(* points of each other, all that the table, the stream and the answers    *)
(* ever do is what OrderBook allows: no row of an order that was not       *)
(* accepted, no mark that readers were not told of and none that makes a   *)
(* row look younger, no row dropped early, no answer before the event.     *)
IsOrderBook == Book!Spec
=============================================================================
