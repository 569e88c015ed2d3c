--------------------------- MODULE MCOrderWatcher ---------------------------
(* Instances of OrderWatcher for TLC.                                      *)
EXTENDS OrderWatcherRefinement, TLC

CONSTANTS o1, o2, s1, s2, c1, c2

Good(r) == [status |-> "Fillable", remaining |-> r]
Bad(st) == [status |-> st, remaining |-> 0]

(* One way of being fillable, one of not being it.                         *)
TwoStates == {Good(1), Bad("Cancelled")}

(* A change of the remaining amount, and of the reason not to be fillable. *)
PartialFills == {Good(1), Good(2), Bad("FullyFilled")}
TwoReasons   == {Good(1), Bad("Expired"), Bad("Cancelled")}
AllStates    == PartialFills \cup TwoReasons

AllChains == [Orders -> ChainStates]

(* The order that is never accepted is fillable, all the more reason to    *)
(* reject it.                                                              *)
BadOrderFillable == {c \in AllChains : c[o2] = Good(1)}

SlotRequestSymmetry == Permutations(Slots) \cup Permutations(Requests)
=============================================================================
