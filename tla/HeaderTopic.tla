---------------------------- MODULE HeaderTopic ----------------------------
(***************************************************************************)
(* What the order watcher and the header pipeline promise each other about *)
(* the topic of block headers: a queue whose reader takes one message at a *)
(* time, acknowledges at any moment all it has taken, and after a restart  *)
(* is given again, in order, what it did not acknowledge.  A reader that   *)
(* never acknowledged anything starts behind the last message.             *)
(***************************************************************************)
EXTENDS Integers, Sequences

VARIABLES
    unread,   \* messages the reader has not taken yet
    unacked,  \* those it took since it last acknowledged
    acked     \* has it ever acknowledged any?

vars == <<unread, unacked, acked>>

(* The reader may find messages at its first start.                        *)
Init == unacked = <<>> /\ acked = FALSE

(* New messages come last.                                                 *)
Send ==
    /\ Len(unread) <= Len(unread')
    /\ \A i \in DOMAIN unread : unread'[i] = unread[i]
    /\ UNCHANGED <<unacked, acked>>

Take ==
    /\ unread # <<>>
    /\ unread' = Tail(unread)
    /\ unacked' = Append(unacked, Head(unread))
    /\ UNCHANGED acked

Acknowledge ==
    /\ unacked' = <<>>
    /\ acked' = TRUE
    /\ UNCHANGED unread

(* The reader restarts.                                                    *)
Restart ==
    /\ unread' = IF acked THEN unacked \o unread ELSE <<>>
    /\ unacked' = <<>>
    /\ UNCHANGED acked

Next == Send \/ Take \/ Acknowledge \/ Restart

Spec == Init /\ [][Next]_vars
=============================================================================
