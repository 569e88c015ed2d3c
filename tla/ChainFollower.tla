--------------------------- MODULE ChainFollower ----------------------------
(***************************************************************************)
(* What the block watcher promises those who read its events: applying     *)
(* them in order -- append a header, or drop all blocks from the height of *)
(* a re-org on -- always yields a chain in which each block is the parent  *)
(* of the next.                                                            *)
(***************************************************************************)
EXTENDS Integers, Sequences

VARIABLES
    tree,   \* tree[b]: the number and the parent of block b, as mined so far
    stack   \* the reader's chain, oldest block first

vars == <<tree, stack>>

Init ==
    /\ tree = <<[number |-> 0, parent |-> 0]>>
    /\ stack = <<>>

Mine(p) ==
    /\ tree' = Append(tree, [number |-> tree[p].number + 1, parent |-> p])
    /\ UNCHANGED stack

(* The first header, and the first one after everything was dropped.       *)
Start(b) ==
    /\ stack = <<>>
    /\ stack' = <<b>>
    /\ UNCHANGED tree

Extend(b) ==
    /\ stack # <<>>
    /\ tree[b].parent = stack[Len(stack)]
    /\ stack' = Append(stack, b)
    /\ UNCHANGED tree

(* A re-org, or with length 0 the end of the stream.                       *)
Rewind(length) ==
    /\ stack' = SubSeq(stack, 1, length)
    /\ UNCHANGED tree

Next ==
    \/ \E b \in DOMAIN tree : Mine(b) \/ Start(b) \/ Extend(b)
    \/ \E length \in 0 .. Len(stack) : Rewind(length)

Spec == Init /\ [][Next]_vars
=============================================================================
