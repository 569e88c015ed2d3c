---------------------------- MODULE MCReaccepted ----------------------------
(* MCOrderWatcher with a history variable, for one question: what happens  *)
(* to an invalid row whose order is submitted and found fillable again?    *)
EXTENDS MCOrderWatcher

(* The requests whose state fetch found the order fillable since its row   *)
(* was last invalidated or deleted.                                        *)
VARIABLE recent

Fetched ==
    {c \in Requests : req[c].pc = "fetch" /\ req'[c].pc = "insert"}

InvalidatedOrDeleted ==
    {o \in Rows : db'[o] = Null \/ db'[o].invalid_since \notin {Null, db[o].invalid_since}}

HistoryInit == Init /\ recent = {}
HistoryNext ==
    /\ Next
    /\ recent' = {c \in recent \cup Fetched : req[c].order \notin InvalidatedOrDeleted}
HistorySpec == HistoryInit /\ [][HistoryNext]_<<vars, recent>>

(* The header handler "deletes invalid orders that are older than the      *)
(* maximum re-org depth": it does not delete a row that App::order wrote   *)
(* after finding the order fillable, and no handler invalidated since.     *)
AcceptedRowsAreKept ==
    [][\A c \in recent :
          req[c].pc \in {"emit", "ok"} /\ db[req[c].order] # Null =>
              db'[req[c].order] # Null]_<<vars, recent>>
=============================================================================
