---------------------------- MODULE BlockWatcher ----------------------------
(***************************************************************************)
(* The block watcher (block-watcher/src/lib.rs): follows the head of an    *)
(* Ethereum node over one websocket connection at a time and sends every   *)
(* new header, and a Reorg event when blocks sent before were replaced, on *)
(* a broadcast channel.                                                    *)
(*                                                                         *)
(* The node is an environment: it mines blocks that name their parent by   *)
(* hash, may reorganise, pushes new heads on the subscription, answers     *)
(* fetches by hash with the block of that hash, and may fail any request.  *)
(* Blocks are numbered in the order in which the node learns of them; that *)
(* index stands for the hash.                                              *)
(***************************************************************************)
EXTENDS Integers, Sequences, FiniteSets, SequencesExt

CONSTANTS
    MaxReorg,     \* MAX_REORG
    MaxTries,     \* MAX_TRIES
    MaxBlocks,    \* bound: blocks the node learns of
    MaxHeads,     \* bound: heads waiting on the subscription
    MaxFailures,  \* bound: failing requests and lost connections
    None          \* no last block yet

ASSUME WatcherAssumption ==
    /\ MaxReorg \in Nat \ {0} /\ MaxTries \in Nat
    /\ MaxBlocks \in Nat \ {0} /\ MaxHeads \in Nat /\ MaxFailures \in Nat
    /\ None \notin 0 .. MaxBlocks

VARIABLES
    tree,      \* tree[b]: the number and the parent of block b
    head,      \* the head of the node's canonical chain
    heads,     \* new heads pushed on the subscription
    pc,        \* where run is
    last,      \* `last` in run: the last header that was sent, or None
    first,     \* `last` when this connection was opened
    retries,
    base,      \* `last` in send_with_reorgs
    queue,     \* `queue` in send_with_reorgs: newest header first
    rewound,
    stack,     \* the chain a reader of the events has put together
    failures   \* the failures so far

nodeVars == <<tree, head, heads>>
runVars  == <<last, first, retries>>
sendVars == <<base, queue, rewound>>
vars == <<nodeVars, pc, runVars, sendVars, stack, failures>>

Number(b) == tree[b].number
Parent(b) == tree[b].parent

-----------------------------------------------------------------------------
Init ==
    /\ tree = <<[number |-> 0, parent |-> 0]>>
    /\ head = 1 /\ heads = <<>>
    /\ pc = "connect"
    /\ last = None /\ first = None /\ retries = 0
    /\ base = None /\ queue = <<>> /\ rewound = 0
    /\ stack = <<>>
    /\ failures = 0

(* The node learns of a block at least as high as its head and switches to *)
(* it; a watcher that is connected is told.                                *)
Mine(p) ==
    LET b == Len(tree) + 1
    IN  /\ Len(tree) < MaxBlocks
        /\ Number(p) + 1 >= Number(head)
        /\ tree' = Append(tree, [number |-> Number(p) + 1, parent |-> p])
        /\ head' = b
        /\ heads' = IF pc \in {"connect", "aborted"} \/ Len(heads) >= MaxHeads
                    THEN heads
                    ELSE Append(heads, b)
        /\ UNCHANGED <<pc, runVars, sendVars, stack, failures>>

-----------------------------------------------------------------------------
(* Mutants of HandleError: the process never gives up; a new connection    *)
(* starts from the latest block again.                                     *)
MutantHandleErrorForever ==
    /\ heads' = <<>>
    /\ base' = None /\ queue' = <<>> /\ rewound' = 0
    /\ pc' = "connect" /\ retries' = retries + 1 /\ first' = last
    /\ UNCHANGED last

MutantHandleErrorForget ==
    /\ heads' = <<>>
    /\ base' = None /\ queue' = <<>> /\ rewound' = 0
    /\ IF retries > MaxTries
       THEN pc' = "aborted" /\ UNCHANGED <<retries, first, last>>
       ELSE pc' = "connect" /\ retries' = retries + 1 /\ first' = None /\ last' = None

(* run: an error ends run_once, and with it the connection and the locals  *)
(* of send_with_reorgs.  The process gives up after too many retries       *)
(* without progress.                                                       *)
HandleError ==
    LET tries == IF last # first THEN 0 ELSE retries
    IN  /\ heads' = <<>>
        /\ base' = None /\ queue' = <<>> /\ rewound' = 0
        /\ IF tries > MaxTries
           THEN pc' = "aborted" /\ retries' = tries /\ UNCHANGED first
           ELSE pc' = "connect" /\ retries' = tries + 1 /\ first' = last
        /\ UNCHANGED last

(* connect                                                                 *)
Connect ==
    /\ pc = "connect"
    /\ pc' = IF last = None THEN "first" ELSE "loop"
    /\ UNCHANGED <<nodeVars, runVars, sendVars, stack, failures>>

(* run_once without a last block: fetch the latest one and send it.        *)
FetchFirst ==
    /\ pc = "first"
    /\ last' = head
    /\ stack' = <<head>>
    /\ pc' = "loop"
    /\ UNCHANGED <<nodeVars, first, retries, sendVars, failures>>

(* Mutant of Consider: a header that leaves a gap is ignored too.          *)
MutantConsider(header) ==
    IF Number(header) # Number(last) + 1
    THEN UNCHANGED <<pc, sendVars>>
    ELSE /\ pc' = "link"
         /\ base' = last /\ queue' = <<header>> /\ rewound' = 0

(* fetch_loop: a header that is not higher than the last one is ignored.   *)
Consider(header) ==
    IF Number(last) >= Number(header)
    THEN UNCHANGED <<pc, sendVars>>
    ELSE /\ pc' = "link"
         /\ base' = last /\ queue' = <<header>> /\ rewound' = 0

(* next_header: from the subscription, or when that is quiet the latest    *)
(* block.                                                                  *)
NextFromStream ==
    /\ pc = "loop" /\ heads # <<>>
    /\ Consider(Head(heads))
    /\ heads' = Tail(heads)
    /\ UNCHANGED <<tree, head, runVars, stack, failures>>

NextFromPoll ==
    /\ pc = "loop"
    /\ Consider(head)
    /\ UNCHANGED <<nodeVars, runVars, stack, failures>>

-----------------------------------------------------------------------------
(* send_with_reorgs: the loop that connects the new header to the last one *)

End == Last(queue)
Adjacent == Number(End) = Number(base) + 1

(* Mutant of Linked: the parent's hash is not compared.                    *)
MutantLinked == Adjacent

Linked   == Adjacent /\ Parent(End) = base
Overflow == Len(queue) > MaxReorg

(* Fetch the parent of the queue's end; if the end is at the right height  *)
(* but not a child of base, rewind base as well.                           *)
FetchParents ==
    /\ pc = "link" /\ ~Overflow /\ ~Linked
    /\ queue' = Append(queue, Parent(End))
    /\ IF Adjacent
       THEN base' = Parent(base) /\ rewound' = rewound + 1
       ELSE UNCHANGED <<base, rewound>>
    /\ UNCHANGED <<nodeVars, pc, runVars, stack, failures>>

(* The reader's chain without the blocks from a height on.                 *)
Below(height) ==
    SubSeq(stack, 1, Cardinality({i \in DOMAIN stack : Number(stack[i]) < height}))

(* Mutants of SendReorg: the event names the block before; a re-org of one *)
(* block has no event.                                                     *)
MutantSendReorgLower ==
    /\ pc = "link" /\ ~Overflow /\ Linked
    /\ pc' = "send"
    /\ stack' = IF rewound > 0 THEN Below(Number(base)) ELSE stack
    /\ UNCHANGED <<nodeVars, runVars, sendVars, failures>>

MutantSendReorgDeep ==
    /\ pc = "link" /\ ~Overflow /\ Linked
    /\ pc' = "send"
    /\ stack' = IF rewound > 1 THEN Below(Number(base) + 1) ELSE stack
    /\ UNCHANGED <<nodeVars, runVars, sendVars, failures>>

(* The queue reaches the last block: a Reorg event if it was rewound.  The *)
(* reader drops the blocks from the event's height on.                     *)
SendReorg ==
    /\ pc = "link" /\ ~Overflow /\ Linked
    /\ pc' = "send"
    /\ stack' = IF rewound > 0 THEN Below(Number(base) + 1) ELSE stack
    /\ UNCHANGED <<nodeVars, runVars, sendVars, failures>>

(* The headers, oldest first, each checked against the one before it.      *)
Sane == Number(End) = Number(base) + 1 /\ Parent(End) = base

SendHeader ==
    /\ pc = "send" /\ Sane
    /\ stack' = Append(stack, End)
    /\ IF Len(queue) > 1
       THEN /\ base' = End /\ queue' = Front(queue)
            /\ UNCHANGED <<pc, last, rewound>>
       ELSE /\ last' = End
            /\ pc' = "loop"
            /\ base' = None /\ queue' = <<>> /\ rewound' = 0
    /\ UNCHANGED <<nodeVars, first, retries, failures>>

(* Error::ReorgOverflow, Error::InsaneNumber and Error::InsaneParentHash.   *)
RaiseError ==
    /\ (pc = "link" /\ Overflow) \/ (pc = "send" /\ ~Sane)
    /\ HandleError
    /\ UNCHANGED <<tree, head, stack, failures>>

-----------------------------------------------------------------------------
(* A request fails or times out, or the subscription ends.                 *)
RequestFails ==
    /\ pc \in {"connect", "first", "loop", "link"}
    /\ failures < MaxFailures
    /\ failures' = failures + 1
    /\ HandleError
    /\ UNCHANGED <<tree, head, stack>>

(* After an abort the process is started again; its events begin anew.     *)
Restart ==
    /\ pc = "aborted"
    /\ pc' = "connect"
    /\ last' = None /\ first' = None /\ retries' = 0
    /\ stack' = <<>>
    /\ UNCHANGED <<nodeVars, sendVars, failures>>

WatcherStep ==
    \/ Connect \/ FetchFirst \/ FetchParents \/ SendReorg \/ SendHeader
    \/ RaiseError \/ Restart

Next ==
    \/ \E p \in DOMAIN tree : Mine(p)
    \/ WatcherStep
    \/ NextFromStream
    \/ NextFromPoll
    \/ RequestFails

Spec == Init /\ [][Next]_vars

(* The task is polled, requests that do not fail are answered, the watcher *)
(* polls whenever the subscription stays quiet, and whatever runs the      *)
(* process starts it again when it has aborted.                            *)
Fairness ==
    /\ WF_vars(WatcherStep)
    /\ WF_vars(NextFromStream)
    /\ WF_vars(NextFromPoll)

FairSpec == Spec /\ Fairness

-----------------------------------------------------------------------------
(* Properties.                                                             *)

Blocks == 1 .. MaxBlocks

TypeOK ==
    /\ tree \in Seq([number : 0 .. MaxBlocks, parent : 0 .. MaxBlocks])
    /\ head \in DOMAIN tree
    /\ heads \in Seq(DOMAIN tree)
    /\ pc \in {"connect", "first", "loop", "link", "send", "aborted"}
    /\ last \in DOMAIN tree \cup {None} /\ first \in DOMAIN tree \cup {None}
    /\ retries \in 0 .. MaxTries + 1
    /\ base \in DOMAIN tree \cup {None}
    /\ queue \in Seq(DOMAIN tree)
    /\ rewound \in 0 .. MaxReorg
    /\ stack \in Seq(DOMAIN tree)
    /\ failures \in 0 .. MaxFailures

(* Ancestors[b] is b and everything below it.                              *)
Ancestors ==
    LET below[b \in DOMAIN tree] ==
            {b} \cup IF Parent(b) = 0 THEN {} ELSE below[Parent(b)]
    IN  below

(* Against a node whose blocks name their true parents, the two sanity     *)
(* checks before a header is sent never fail: the queue and the rewound    *)
(* base always fit together.                                               *)
SanityChecksHold == pc = "send" => Sane

(* The reader's chain ends in the watcher's last block whenever the        *)
(* watcher is between two sends: no failure, retry or reconnection makes   *)
(* it repeat, skip or forget a header.                                     *)
ReaderIsInStep ==
    pc \in {"connect", "first", "loop", "link"} =>
        IF last = None THEN stack = <<>>
        ELSE stack # <<>> /\ Last(stack) = last

(* Events applied in order always yield a chain linked by parent hashes.   *)
CF == INSTANCE ChainFollower
FollowsTheChain == CF!Spec

(* A Reorg event takes back exactly the blocks that the new head does not  *)
(* build on: nothing that is still canonical is dropped, nothing stale is  *)
(* kept.                                                                   *)
RewindsExactly ==
    [][pc = "link" /\ pc' = "send" =>
          ToSet(stack') = ToSet(stack) \cap Ancestors[queue[1]]]_vars

(* Once the node stands still and requests stop failing, the watcher has   *)
(* sent a header as high as the node's head, if need be by aborting and    *)
(* starting over.                                                          *)
CatchesUp == <>[](last # None /\ Number(last) = Number(head))

(* The depth of the re-org from the last block to the queue's first: the   *)
(* blocks sent before that it does not build on.                           *)
Depth == Cardinality(Ancestors[last] \ Ancestors[queue[1]])

(* "Re-org exceeded max re-org depth" is raised only for a re-org deeper   *)
(* than MAX_REORG, the "maximum acceptable re-org size".                   *)
OverflowOnlyBeyondMaxReorg == pc = "link" /\ Overflow => Depth > MaxReorg
=============================================================================
