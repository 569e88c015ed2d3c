---------------------------- MODULE FetchService ----------------------------
(***************************************************************************)
(* What Batcher::fetch_state promises its callers, batching left out: a    *)
(* call is answered once, with the state of the caller's own order at some *)
(* moment between the call and the answer, or with an error.               *)
(* This is the view OrderWatcher takes of a state fetch.                   *)
(***************************************************************************)
EXTENDS Integers

CONSTANTS Callers, Orders, None, Failed

VARIABLES
    height,  \* the version of the chain's state
    pending, \* pending[c]: the call c is waiting for, or None
    answer   \* answer[c]: the answer to c's last call, or None

vars == <<height, pending, answer>>

Init ==
    /\ height = 0
    /\ pending = [c \in Callers |-> None]
    /\ answer = [c \in Callers |-> None]

Advance ==
    /\ height' = height + 1
    /\ UNCHANGED <<pending, answer>>

Request(c, o) ==
    /\ pending[c] = None
    /\ pending' = [pending EXCEPT ![c] = [order |-> o, asked |-> height]]
    /\ answer' = [answer EXCEPT ![c] = None]
    /\ UNCHANGED height

Answer(c) ==
    /\ pending[c] # None
    /\ pending' = [pending EXCEPT ![c] = None]
    /\ \E at \in pending[c].asked .. height :
          answer' = [answer EXCEPT ![c] = [order |-> pending[c].order, at |-> at]]
    /\ UNCHANGED height

Fail(c) ==
    /\ pending[c] # None
    /\ pending' = [pending EXCEPT ![c] = None]
    /\ answer' = [answer EXCEPT ![c] = Failed]
    /\ UNCHANGED height

(* The caller's future is dropped: nobody waits for the answer.            *)
GiveUp(c) ==
    /\ pending[c] # None
    /\ pending' = [pending EXCEPT ![c] = None]
    /\ UNCHANGED <<height, answer>>

Next ==
    \/ Advance
    \/ \E c \in Callers :
          \/ \E o \in Orders : Request(c, o)
          \/ Answer(c)
          \/ Fail(c)
          \/ GiveUp(c)

Spec == Init /\ [][Next]_vars
=============================================================================
