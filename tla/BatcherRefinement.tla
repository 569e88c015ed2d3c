------------------------- MODULE BatcherRefinement --------------------------
(***************************************************************************)
(* Batcher implements FetchService.  A history variable records how each   *)
(* caller's last call was answered; it is read by no action.               *)
(***************************************************************************)
EXTENDS Batcher

(* Nor is None one of the calls the service sees.                          *)
ASSUME OpenAssumption == None \notin [order : Orders, asked : 0 .. MaxHeight]

VARIABLE answer   \* answer[c]: the result of c's last call, or None

AnswerInit == Init /\ answer = [c \in Callers |-> None]

(* rx.await yields the result; after a drop nobody receives it.            *)
Deliver(r, i, c) ==
    /\ SendResult(r, i, c)
    /\ answer' = IF c \in dropped THEN answer
                 ELSE [answer EXCEPT ![c] = Result(r, i)]

(* A new call has no answer yet.                                           *)
Forget ==
    answer' = [c \in Callers |->
                  IF pending[c] = None /\ pending'[c] # None THEN None ELSE answer[c]]

AnswerNext ==
    \/ SilentStep /\ Forget
    \/ \E c \in Callers, r \in replies : \E i \in DOMAIN r.jobs : Deliver(r, i, c)

AnswerSpec == AnswerInit /\ [][AnswerNext]_<<vars, answer>>

FairAnswerSpec == AnswerSpec /\ Fairness

(* A dropped call no longer exists for the service's callers.              *)
OpenCalls ==
    [c \in Callers |->
        IF pending[c] = None \/ c \in dropped THEN None
        ELSE [order |-> pending[c].order, asked |-> pending[c].asked]]

FS == INSTANCE FetchService WITH pending <- OpenCalls

(* However calls are merged, promoted, batched and dropped, each is        *)
(* answered at most once, about the caller's own order, and with a state   *)
(* computed after it asked.                                                *)
IsFetchService == FS!Spec
=============================================================================
