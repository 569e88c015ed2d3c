------------------------ MODULE BlockWatcherProofs -------------------------
(***************************************************************************)
(* Theorems about BlockWatcher, for any re-org limit, any blocks, forks,   *)
(* failures and reconnections.                                             *)
(*                                                                         *)
(* The argument: while send_with_reorgs looks for the parent, its base is  *)
(* the block `rewound` places below the reader's last one, and its queue   *)
(* is a branch that ends above the base (LinkInv).  Blocks of the reader's *)
(* chain are numbered in a row (Numbered), so that dropping those from a   *)
(* height on leaves the base last.  No header of the queue was sent before *)
(* (FreshInv), so that nothing is dropped that the new head builds on.     *)
(* Proofs by induction look at the smallest counterexample.                *)
(***************************************************************************)
EXTENDS BlockWatcher, SequenceFacts, FiniteSetTheorems

(* The first block has number 0; every other names one that was known.     *)
LinkedTree ==
    /\ Len(tree) <= MaxBlocks
    /\ tree[1] = [number |-> 0, parent |-> 0]
    /\ \A b \in DOMAIN tree : Number(b) < b
    /\ \A b \in DOMAIN tree \ {1} :
          Parent(b) \in DOMAIN tree /\ Parent(b) < b /\ Number(b) = Number(Parent(b)) + 1

(* The reader's chain and the queue, which has the newest block first.     *)
LinkedStack == \A i \in DOMAIN stack : i > 1 => Parent(stack[i]) = stack[i - 1]
LinkedQueue == \A i \in DOMAIN queue : i > 1 => queue[i] = Parent(queue[i - 1])

Numbered ==
    \A i \in DOMAIN stack : Number(stack[i]) = Number(Last(stack)) - (Len(stack) - i)

PcInv ==
    /\ pc = "first" => last = None
    /\ pc \in {"loop", "link", "send"} => last # None

LinkInv == pc = "link" =>
    /\ base # None /\ queue # <<>>
    /\ rewound < Len(queue) /\ Len(queue) <= MaxReorg + 1
    /\ Number(End) > Number(base)
    /\ Number(base) = Number(last) - rewound
    /\ rewound < Len(stack) => base = stack[Len(stack) - rewound]

(* None of the queue's headers was sent before: as long as nothing is      *)
(* rewound they are higher than all that were, and from then on the queue  *)
(* and the reader's chain go down side by side and do not meet.            *)
FreshInv == pc = "link" =>
    /\ rewound > 0 => Adjacent
    /\ \A i \in DOMAIN queue, j \in DOMAIN stack : queue[i] # stack[j]

SendInv == pc = "send" =>
    /\ base # None /\ queue # <<>>
    /\ stack # <<>> => Last(stack) = base

IInv ==
    /\ TypeOK
    /\ LinkedTree
    /\ LinkedStack
    /\ LinkedQueue
    /\ Numbered
    /\ PcInv
    /\ LinkInv
    /\ FreshInv
    /\ SendInv
    /\ ReaderIsInStep
    /\ SanityChecksHold

-----------------------------------------------------------------------------
(* Indices and numbers of blocks: the genesis block is the only one with   *)
(* number 0.                                                               *)
LEMMA TreeFacts ==
    ASSUME TypeOK, LinkedTree
    PROVE  /\ DOMAIN tree = 1 .. Len(tree) /\ Len(tree) \in Nat /\ 1 \in DOMAIN tree
           /\ \A b \in DOMAIN tree : Number(b) \in Nat /\ b \in Nat /\ b # None
           /\ Number(1) = 0 /\ \A b \in DOMAIN tree : Number(b) = 0 => b = 1
           /\ \A b \in DOMAIN tree : Parent(b) \in DOMAIN tree => b # 1
<1>1. DOMAIN tree = 1 .. Len(tree) /\ Len(tree) \in Nat
  BY LenProperties DEF TypeOK
<1>2. 1 \in DOMAIN tree
  BY <1>1 DEF TypeOK
<1>3. \A b \in DOMAIN tree : Number(b) \in Nat
  <2>1. \A b \in DOMAIN tree : tree[b] \in [number : 0 .. MaxBlocks, parent : 0 .. MaxBlocks]
    BY <1>1, ElementOfSeq DEF TypeOK
  <2> QED
    BY <2>1, WatcherAssumption DEF Number
<1>4. Number(1) = 0
  BY DEF LinkedTree, Number
<1>5. \A b \in DOMAIN tree : Number(b) = 0 => b = 1
  <2> SUFFICES ASSUME NEW b \in DOMAIN tree, b # 1 PROVE Number(b) # 0
    OBVIOUS
  <2>1. Parent(b) \in DOMAIN tree /\ Number(b) = Number(Parent(b)) + 1
    BY DEF LinkedTree
  <2> QED
    BY <1>3, <2>1
<1>6. \A b \in DOMAIN tree : b \in Nat /\ b # None
  BY <1>1, WatcherAssumption DEF LinkedTree
<1>7. Parent(1) \notin DOMAIN tree
  BY <1>1 DEF LinkedTree, Parent
<1> QED
  BY <1>1, <1>2, <1>3, <1>4, <1>5, <1>6, <1>7

(* The positions of the queue and of the reader's chain.                   *)
LEMMA WatcherShapes ==
    ASSUME TypeOK
    PROVE  /\ DOMAIN stack = 1 .. Len(stack) /\ Len(stack) \in Nat
           /\ \A i \in DOMAIN stack : stack[i] \in DOMAIN tree
           /\ stack # <<>> => Len(stack) > 0 /\ Last(stack) \in DOMAIN tree
           /\ DOMAIN queue = 1 .. Len(queue) /\ Len(queue) \in Nat
           /\ \A i \in DOMAIN queue : queue[i] \in DOMAIN tree
           /\ queue # <<>> => Len(queue) > 0 /\ End \in DOMAIN tree
<1>1. ASSUME NEW s \in Seq(DOMAIN tree)
      PROVE  /\ DOMAIN s = 1 .. Len(s) /\ Len(s) \in Nat
             /\ \A i \in DOMAIN s : s[i] \in DOMAIN tree
             /\ s # <<>> => Len(s) > 0 /\ s[Len(s)] \in DOMAIN tree
  <2>1. /\ DOMAIN s = 1 .. Len(s) /\ Len(s) \in Nat
        /\ \A i \in 1 .. Len(s) : s[i] \in DOMAIN tree
    BY LenProperties, ElementOfSeq
  <2>2. s # <<>> => Len(s) \in Nat \ {0}
    BY EmptySeq
  <2> QED
    BY <2>1, <2>2
<1> QED
  BY <1>1 DEF TypeOK, End, Last

-----------------------------------------------------------------------------
(* The first state.                                                        *)
LEMMA InitIInv == Init => IInv
<1> SUFFICES ASSUME Init PROVE IInv
  OBVIOUS
<1> DEFINE genesis == [number |-> 0, parent |-> 0]
<1>1. tree = <<genesis>> /\ DOMAIN tree = {1} /\ Len(tree) = 1 /\ tree[1] = genesis
  BY DEF Init
<1>2. TypeOK
  <2>1. genesis \in [number : 0 .. MaxBlocks, parent : 0 .. MaxBlocks]
    BY WatcherAssumption
  <2>2. tree \in Seq([number : 0 .. MaxBlocks, parent : 0 .. MaxBlocks])
    BY <1>1, <2>1
  <2>3. heads \in Seq(DOMAIN tree) /\ queue \in Seq(DOMAIN tree) /\ stack \in Seq(DOMAIN tree)
    BY EmptySeq DEF Init
  <2>4. retries \in 0 .. MaxTries + 1 /\ rewound \in 0 .. MaxReorg /\ failures \in 0 .. MaxFailures
    BY WatcherAssumption DEF Init
  <2> QED
    BY <1>1, <2>2, <2>3, <2>4 DEF Init, TypeOK
<1>3. LinkedTree
  BY <1>1, WatcherAssumption DEF LinkedTree, Number
<1>4. DOMAIN stack = {} /\ DOMAIN queue = {}
  BY DEF Init
<1> QED
  BY <1>2, <1>3, <1>4
     DEF Init, IInv, LinkedStack, LinkedQueue, Numbered, PcInv, LinkInv, FreshInv,
         SendInv, ReaderIsInStep, SanityChecksHold

-----------------------------------------------------------------------------
(* The node learns of a block: what was said of the others stays true.     *)
LEMMA MineStep ==
    ASSUME IInv, NEW p \in DOMAIN tree, Mine(p)
    PROVE  IInv'
<1> PICK n : n = Len(tree)
  OBVIOUS
<1> PICK block : block = [number |-> Number(p) + 1, parent |-> p]
  OBVIOUS
<1> DEFINE Block == [number : 0 .. MaxBlocks, parent : 0 .. MaxBlocks]
<1>1. /\ n < MaxBlocks /\ tree' = Append(tree, block) /\ head' = n + 1
      /\ heads' = heads \/ heads' = Append(heads, n + 1)
      /\ pc' = pc /\ last' = last /\ first' = first /\ retries' = retries
      /\ base' = base /\ queue' = queue /\ rewound' = rewound
      /\ stack' = stack /\ failures' = failures
  BY DEF Mine, runVars, sendVars
<1>2. /\ DOMAIN tree = 1 .. n /\ n \in Nat /\ n > 0
      /\ Number(p) \in Nat /\ Number(p) < p /\ p \in 1 .. n
  BY TreeFacts DEF IInv, LinkedTree
<1>3. block \in Block
  BY <1>1, <1>2, WatcherAssumption
<1>4. /\ tree' \in Seq(Block) /\ DOMAIN tree' = 1 .. n + 1 /\ Len(tree') = n + 1
      /\ \A b \in DOMAIN tree : tree'[b] = tree[b]
      /\ tree'[n + 1] = block
  BY <1>1, <1>2, <1>3, AppendProperties, LenProperties DEF IInv, TypeOK
<1>5. DOMAIN tree \subseteq DOMAIN tree' /\ n + 1 \in DOMAIN tree'
  BY <1>2, <1>4
<1>6. TypeOK'
  <2>1. /\ heads' \in Seq(DOMAIN tree') /\ queue' \in Seq(DOMAIN tree')
        /\ stack' \in Seq(DOMAIN tree')
    <3>1. heads \in Seq(DOMAIN tree') /\ queue \in Seq(DOMAIN tree') /\ stack \in Seq(DOMAIN tree')
      BY <1>5, SeqMonotonic DEF IInv, TypeOK
    <3>2. Append(heads, n + 1) \in Seq(DOMAIN tree')
      BY <1>5, <3>1, AppendProperties
    <3> QED
      BY <1>1, <3>1, <3>2
  <2> QED
    BY <1>1, <1>4, <1>5, <2>1 DEF IInv, TypeOK
<1>7. /\ \A b \in DOMAIN tree : Number(b)' = Number(b) /\ Parent(b)' = Parent(b)
      /\ Number(n + 1)' = Number(p) + 1 /\ Parent(n + 1)' = p
  BY <1>4 DEF Number, Parent
<1>8. LinkedTree'
  <2>1. 1 \in DOMAIN tree
    BY <1>2
  <2>2. \A b \in DOMAIN tree' : b \in DOMAIN tree \/ b = n + 1
    BY <1>2, <1>4
  <2>3. tree'[1] = [number |-> 0, parent |-> 0] /\ Len(tree') <= MaxBlocks
    BY <1>1, <1>2, <1>4, <2>1, WatcherAssumption DEF IInv, LinkedTree
  <2>4. ASSUME NEW b \in DOMAIN tree' PROVE Number(b)' < b
    <3>1. CASE b \in DOMAIN tree
      BY <1>7, <3>1 DEF IInv, LinkedTree
    <3>2. CASE b = n + 1
      BY <1>2, <1>7, <3>2
    <3> QED
      BY <2>2, <3>1, <3>2
  <2>5. ASSUME NEW b \in DOMAIN tree' \ {1}
        PROVE  /\ Parent(b)' \in DOMAIN tree /\ Parent(b)' < b
               /\ Number(b)' = Number(Parent(b)') + 1
    <3>1. CASE b \in DOMAIN tree
      BY <1>7, <3>1 DEF IInv, LinkedTree
    <3>2. CASE b = n + 1
      BY <1>2, <1>7, <3>2
    <3> QED
      BY <2>2, <3>1, <3>2
  <2>6. ASSUME NEW b \in DOMAIN tree' \ {1}
        PROVE  /\ Parent(b)' \in DOMAIN tree' /\ Parent(b)' < b
               /\ Number(b)' = Number(Parent(b))' + 1
    <3>1. Number(Parent(b))' = Number(Parent(b)')
      BY <1>4, <2>5 DEF Number
    <3> QED
      BY <1>5, <2>5, <3>1
  <2> QED
    BY <2>3, <2>4, <2>6 DEF LinkedTree
<1>9. /\ \A i \in DOMAIN stack : stack[i] \in DOMAIN tree
      /\ \A i \in DOMAIN queue : queue[i] \in DOMAIN tree
      /\ stack # <<>> => Last(stack) \in DOMAIN tree
      /\ queue # <<>> => End \in DOMAIN tree
      /\ base # None => base \in DOMAIN tree
      /\ last # None => last \in DOMAIN tree
  BY WatcherShapes DEF IInv, TypeOK
<1>10. DOMAIN stack # {} => stack # <<>>
  OBVIOUS
<1>11. LinkedStack'
  BY <1>1, <1>7, <1>9 DEF IInv, LinkedStack
<1>12. LinkedQueue'
  <2>1. \A i \in DOMAIN queue : i > 1 => i - 1 \in DOMAIN queue
    BY WatcherShapes DEF IInv
  <2> QED
    BY <1>1, <1>7, <1>9, <2>1 DEF IInv, LinkedQueue
<1>13. Numbered'
  BY <1>1, <1>7, <1>9, <1>10 DEF IInv, Numbered
<1>14. End' = End
  BY <1>1 DEF End
<1>15. PcInv' /\ ReaderIsInStep'
  BY <1>1 DEF IInv, PcInv, ReaderIsInStep
<1>16. LinkInv'
  BY <1>1, <1>7, <1>9, <1>14 DEF IInv, LinkInv, PcInv
<1>17. SendInv' /\ SanityChecksHold'
  BY <1>1, <1>7, <1>9, <1>14 DEF IInv, SendInv, SanityChecksHold, Sane
<1>18. FreshInv'
  BY <1>1, <1>7, <1>9, <1>14 DEF IInv, FreshInv, LinkInv, Adjacent
<1> QED
  BY <1>6, <1>8, <1>11, <1>12, <1>13, <1>15, <1>16, <1>17, <1>18 DEF IInv

-----------------------------------------------------------------------------
(* The steps that touch neither the reader's chain nor the search.         *)

(* Where no search or sending is left, little has to hold.                 *)
LEMMA AtRest ==
    ASSUME IInv, UNCHANGED <<tree, stack>>, TypeOK', pc' \notin {"link", "send"},
           queue' = queue \/ queue' = <<>>,
           PcInv', ReaderIsInStep'
    PROVE  IInv'
<1>1. LinkedTree' /\ LinkedStack' /\ Numbered'
  BY DEF IInv, LinkedTree, LinkedStack, Numbered, Number, Parent
<1>2. LinkedQueue'
  BY DEF IInv, LinkedQueue, Parent
<1>3. LinkInv' /\ FreshInv' /\ SendInv' /\ SanityChecksHold'
  BY DEF LinkInv, FreshInv, SendInv, SanityChecksHold
<1> QED
  BY <1>1, <1>2, <1>3 DEF IInv

(* Connecting changes no block, no event and not the last header.          *)
LEMMA ConnectStep ==
    ASSUME IInv, Connect
    PROVE  IInv'
<1>1. TypeOK'
  BY DEF IInv, TypeOK, Connect, nodeVars, runVars, sendVars
<1>2. PcInv' /\ ReaderIsInStep'
  BY DEF IInv, PcInv, ReaderIsInStep, Connect, nodeVars, runVars, sendVars
<1> QED
  BY <1>1, <1>2, AtRest DEF Connect, nodeVars, sendVars

(* A restarted process knows no header, and readers begin a new chain.     *)
LEMMA RestartStep ==
    ASSUME IInv, Restart
    PROVE  IInv'
<1>1. TypeOK'
  BY WatcherAssumption DEF IInv, TypeOK, Restart, nodeVars, sendVars
<1>2. tree' = tree /\ stack' = <<>> /\ queue' = queue /\ pc' = "connect" /\ last' = None
  BY DEF Restart, nodeVars, sendVars
<1>3. LinkedTree' /\ LinkedStack' /\ Numbered' /\ LinkedQueue'
  BY <1>2 DEF IInv, LinkedTree, LinkedStack, Numbered, LinkedQueue, Number, Parent
<1> QED
  BY <1>1, <1>2, <1>3
     DEF IInv, PcInv, LinkInv, FreshInv, SendInv, ReaderIsInStep, SanityChecksHold

(* An error, wherever it can come from: the reader is in step.             *)
LEMMA ErrorStep ==
    ASSUME IInv, pc \in {"connect", "first", "loop", "link"}, HandleError,
           UNCHANGED <<tree, head, stack>>, failures' \in 0 .. MaxFailures
    PROVE  IInv'
<1>1. /\ heads' = <<>> /\ base' = None /\ queue' = <<>> /\ rewound' = 0 /\ last' = last
      /\ pc' \in {"aborted", "connect"}
      /\ first' = first \/ first' = last
      /\ retries' \in 0 .. MaxTries + 1
  <2>1. retries \in 0 .. MaxTries + 1 /\ MaxTries \in Nat
    BY WatcherAssumption DEF IInv, TypeOK
  <2> QED
    BY <2>1 DEF HandleError
<1>2. TypeOK'
  BY <1>1, WatcherAssumption DEF IInv, TypeOK
<1>3. PcInv' /\ ReaderIsInStep'
  BY <1>1 DEF PcInv, IInv, ReaderIsInStep
<1> QED
  BY <1>1, <1>2, <1>3, AtRest

(* An error in send_with_reorgs is retried from where the reader is, or    *)
(* aborts.                                                                 *)
LEMMA RaiseErrorStep ==
    ASSUME IInv, RaiseError
    PROVE  IInv'
<1>1. pc = "link" /\ HandleError /\ UNCHANGED <<tree, head, stack, failures>>
  BY DEF RaiseError, IInv, SanityChecksHold
<1> QED
  BY <1>1, ErrorStep DEF IInv, TypeOK

(* A request that fails or times out is handled as such an error.          *)
LEMMA RequestFailsStep ==
    ASSUME IInv, RequestFails
    PROVE  IInv'
<1>1. failures' \in 0 .. MaxFailures
  BY WatcherAssumption DEF RequestFails, IInv, TypeOK
<1> QED
  BY <1>1, ErrorStep DEF RequestFails

(* The first block becomes the last header and the reader's chain.         *)
LEMMA FetchFirstStep ==
    ASSUME IInv, FetchFirst
    PROVE  IInv'
<1>1. /\ pc = "first" /\ last' = head /\ stack' = <<head>> /\ pc' = "loop"
      /\ UNCHANGED <<nodeVars, first, retries, sendVars, failures>>
  BY DEF FetchFirst
<1>2. head \in DOMAIN tree /\ head # None
  BY TreeFacts DEF IInv, TypeOK
<1>3. /\ stack' \in Seq(DOMAIN tree) /\ Len(stack') = 1 /\ DOMAIN stack' = {1}
      /\ stack'[1] = head
  BY <1>1, <1>2
<1>4. TypeOK'
  BY <1>1, <1>2, <1>3 DEF IInv, TypeOK, nodeVars, sendVars
<1>5. LinkedTree' /\ LinkedQueue'
  BY <1>1 DEF IInv, LinkedTree, LinkedQueue, Number, Parent, nodeVars, sendVars
<1>6. LinkedStack'
  BY <1>3 DEF LinkedStack
<1>7. Numbered'
  <2>1. Number(head)' \in Int
    BY <1>1, <1>2, TreeFacts DEF IInv, Number, nodeVars
  <2> QED
    BY <1>1, <1>3, <2>1 DEF Numbered, Last, nodeVars
<1>8. PcInv' /\ ReaderIsInStep'
  <2>1. Last(stack') = last' /\ stack' # <<>>
    BY <1>1, <1>3 DEF Last
  <2> QED
    BY <1>1, <1>2, <2>1 DEF PcInv, ReaderIsInStep
<1>9. LinkInv' /\ FreshInv' /\ SendInv' /\ SanityChecksHold'
  BY <1>1 DEF LinkInv, FreshInv, SendInv, SanityChecksHold
<1> QED
  BY <1>4, <1>5, <1>6, <1>7, <1>8, <1>9 DEF IInv

(* A search begins with the header above the last block, or not at all.    *)
LEMMA ConsiderStep ==
    ASSUME IInv, pc = "loop", NEW header \in DOMAIN tree, Consider(header),
           heads' \in Seq(DOMAIN tree), UNCHANGED <<tree, head, runVars, stack, failures>>
    PROVE  IInv'
<1>1. tree' = tree /\ head' = head /\ last' = last /\ first' = first
      /\ retries' = retries /\ stack' = stack /\ failures' = failures
  BY DEF runVars
<1>2. CASE Number(last) >= Number(header)
  <2>1. pc' = pc /\ base' = base /\ queue' = queue /\ rewound' = rewound
    BY <1>2 DEF Consider, sendVars
  <2>2. TypeOK'
    BY <1>1, <2>1 DEF IInv, TypeOK
  <2>3. PcInv' /\ ReaderIsInStep'
    BY <1>1, <2>1 DEF IInv, PcInv, ReaderIsInStep
  <2> QED
    BY <1>1, <2>1, <2>2, <2>3, AtRest
<1>3. CASE ~(Number(last) >= Number(header))
  <2>1. pc' = "link" /\ base' = last /\ queue' = <<header>> /\ rewound' = 0
    BY <1>3 DEF Consider
  <2>2. /\ last # None /\ last \in DOMAIN tree
        /\ stack # <<>> /\ Last(stack) = last
    BY DEF IInv, PcInv, ReaderIsInStep, TypeOK
  <2>3. Number(header) \in Nat /\ Number(last) \in Nat
    BY <2>2, TreeFacts DEF IInv
  <2>4. /\ queue' \in Seq(DOMAIN tree) /\ Len(queue') = 1 /\ DOMAIN queue' = {1}
        /\ queue'[1] = header /\ queue' # <<>>
    BY <2>1
  <2>5. TypeOK'
    BY <1>1, <2>1, <2>2, <2>4, WatcherAssumption DEF IInv, TypeOK
  <2>6. LinkedTree' /\ LinkedStack' /\ Numbered'
    BY <1>1 DEF IInv, LinkedTree, LinkedStack, Numbered, Number, Parent
  <2>7. LinkedQueue'
    BY <2>4 DEF LinkedQueue
  <2>8. PcInv' /\ ReaderIsInStep'
    BY <1>1, <2>1, <2>2 DEF PcInv, ReaderIsInStep
  <2>9. LinkInv'
    <3>1. Number(last)' = Number(last) /\ Number(header)' = Number(header)
      BY <1>1 DEF Number
    <3>2. Number(base)' = Number(last) /\ Number(End)' = Number(header)
      BY <1>1, <2>1, <2>4 DEF Number, End, Last
    <3>3. Len(stack) \in Nat /\ stack[Len(stack) - 0] = last
      BY <2>2, WatcherShapes DEF IInv, Last
    <3> QED
      BY <1>1, <1>3, <2>1, <2>2, <2>3, <2>4, <3>1, <3>2, <3>3, WatcherAssumption DEF LinkInv
  <2>10. SendInv' /\ SanityChecksHold'
    BY <2>1 DEF SendInv, SanityChecksHold
  <2>11. FreshInv'
    <3>1. \A j \in DOMAIN stack : Number(stack[j]) <= Number(last)
      BY <2>2, <2>3, WatcherShapes DEF IInv, Numbered
    <3>2. \A j \in DOMAIN stack : header # stack[j]
      BY <1>3, <2>3, <3>1
    <3> QED
      BY <1>1, <2>1, <2>4, <3>2 DEF FreshInv
  <2> QED
    BY <2>5, <2>6, <2>7, <2>8, <2>9, <2>10, <2>11 DEF IInv
<1> QED
  BY <1>2, <1>3

(* A header from either source is ignored, or becomes the queue that is    *)
(* linked back to the last header.                                         *)
LEMMA NextHeaderStep ==
    ASSUME IInv, NextFromStream \/ NextFromPoll
    PROVE  IInv'
<1>1. CASE NextFromStream
  <2>1. heads \in Seq(DOMAIN tree) /\ heads # <<>>
    BY <1>1 DEF NextFromStream, IInv, TypeOK
  <2>2. Head(heads) \in DOMAIN tree /\ Tail(heads) \in Seq(DOMAIN tree)
    BY <2>1, SetOfTail
  <2> QED
    BY <1>1, <2>2, ConsiderStep DEF NextFromStream
<1>2. CASE NextFromPoll
  BY <1>2, ConsiderStep DEF NextFromPoll, nodeVars, IInv, TypeOK
<1> QED
  BY <1>1, <1>2

-----------------------------------------------------------------------------
(* The loop of send_with_reorgs: queue and base go back by one, together   *)
(* if they are at the right heights.                                       *)
LEMMA FetchParentsStep ==
    ASSUME IInv, FetchParents
    PROVE  IInv'
<1> DEFINE m == Len(queue)
           n == Len(stack)
<1>1. /\ pc = "link" /\ pc' = "link" /\ ~Overflow /\ ~Linked
      /\ queue' = Append(queue, Parent(End))
      /\ tree' = tree /\ head' = head /\ heads' = heads /\ last' = last
      /\ first' = first /\ retries' = retries /\ stack' = stack /\ failures' = failures
  BY DEF FetchParents, nodeVars, runVars
<1>2. /\ base \in DOMAIN tree /\ base # None /\ queue # <<>>
      /\ rewound < m /\ m <= MaxReorg /\ MaxReorg \in Nat /\ rewound \in Nat
      /\ Number(End) > Number(base) /\ Number(base) = Number(last) - rewound
      /\ rewound < n => base = stack[n - rewound]
  BY <1>1, WatcherAssumption, WatcherShapes DEF IInv, TypeOK, LinkInv, Overflow
<1>3. /\ DOMAIN queue = 1 .. m /\ m \in Nat /\ m > 0 /\ queue \in Seq(DOMAIN tree)
      /\ End \in DOMAIN tree /\ End = queue[m]
      /\ DOMAIN stack = 1 .. n /\ n \in Nat
  BY <1>2, WatcherShapes DEF IInv, TypeOK, End, Last
<1>4. /\ last \in DOMAIN tree /\ Number(last) \in Nat /\ last # None
      /\ Number(End) \in Nat /\ Number(base) \in Nat
  BY <1>1, <1>2, <1>3, TreeFacts DEF IInv, TypeOK, PcInv
<1>5. Parent(End) \in DOMAIN tree /\ Number(Parent(End)) = Number(End) - 1
  <2>1. End # 1
    BY <1>2, <1>4, TreeFacts DEF IInv
  <2>2. Parent(End) \in DOMAIN tree /\ Number(End) = Number(Parent(End)) + 1
    BY <1>3, <2>1 DEF IInv, LinkedTree
  <2> QED
    BY <2>2, TreeFacts DEF IInv
<1>6. /\ queue' \in Seq(DOMAIN tree) /\ DOMAIN queue' = 1 .. m + 1 /\ Len(queue') = m + 1
      /\ \A i \in 1 .. m : queue'[i] = queue[i]
      /\ queue'[m + 1] = Parent(End) /\ queue' # <<>>
  BY <1>1, <1>3, <1>5, AppendProperties, LenProperties
<1>7. \A b : Number(b)' = tree[b].number
  BY <1>1 DEF Number
<1>8. Number(End)' = Number(End) - 1
  BY <1>3, <1>5, <1>6, <1>7 DEF End, Last, Number
<1>9. /\ base' \in DOMAIN tree /\ base' # None
      /\ rewound' \in Nat /\ rewound' < m + 1
      /\ Number(End) - 1 > Number(base')
      /\ Number(base') = Number(last) - rewound'
      /\ rewound' < n => base' = stack[n - rewound']
  <2>1. CASE Adjacent
    <3>1. base' = Parent(base) /\ rewound' = rewound + 1 /\ Parent(End) # base
      BY <1>1, <2>1 DEF FetchParents, Linked
    <3>2. base # 1
      <4>1. CASE base = 1
        <5>1. Number(Parent(End)) = 0
          BY <1>4, <1>5, <2>1, <4>1, TreeFacts DEF Adjacent, IInv
        <5> QED
          BY <1>5, <3>1, <4>1, <5>1, TreeFacts DEF IInv
      <4> QED
        BY <4>1
    <3>3. Parent(base) \in DOMAIN tree /\ Number(base) = Number(Parent(base)) + 1
      BY <1>2, <3>2 DEF IInv, LinkedTree
    <3>4. Number(Parent(base)) \in Nat /\ Parent(base) # None
      BY <3>3, TreeFacts DEF IInv
    <3>5. ASSUME rewound + 1 < n PROVE Parent(base) = stack[n - (rewound + 1)]
      <4>1. n - rewound \in DOMAIN stack /\ n - rewound > 1 /\ base = stack[n - rewound]
        BY <1>2, <1>3, <3>5
      <4>2. Parent(stack[n - rewound]) = stack[n - rewound - 1]
        BY <4>1 DEF IInv, LinkedStack
      <4>3. n - rewound - 1 = n - (rewound + 1)
        BY <1>2, <1>3
      <4> QED
        BY <4>1, <4>2, <4>3
    <3> QED
      BY <1>2, <1>3, <1>4, <2>1, <3>1, <3>3, <3>4, <3>5 DEF Adjacent
  <2>2. CASE ~Adjacent
    <3>1. base' = base /\ rewound' = rewound
      BY <2>2 DEF FetchParents
    <3> QED
      BY <1>2, <1>3, <1>4, <2>2, <3>1 DEF Adjacent
  <2> QED
    BY <2>1, <2>2
<1>10. TypeOK'
  <2>1. rewound' \in 0 .. MaxReorg
    BY <1>2, <1>3, <1>9
  <2> QED
    BY <1>1, <1>6, <1>9, <2>1 DEF IInv, TypeOK
<1>11. LinkedTree' /\ LinkedStack' /\ Numbered'
  BY <1>1 DEF IInv, LinkedTree, LinkedStack, Numbered, Number, Parent
<1>12. LinkedQueue'
  <2>1. ASSUME NEW i \in DOMAIN queue', i > 1 PROVE queue'[i] = Parent(queue'[i - 1])
    <3>1. CASE i = m + 1
      <4>1. queue'[i - 1] = End
        BY <1>3, <1>6, <3>1
      <4> QED
        BY <1>6, <3>1, <4>1
    <3>2. CASE i # m + 1
      <4>1. i \in 1 .. m /\ i - 1 \in 1 .. m
        BY <1>3, <1>6, <2>1, <3>2
      <4> QED
        BY <1>3, <1>6, <2>1, <4>1 DEF IInv, LinkedQueue
    <3> QED
      BY <3>1, <3>2
  <2> QED
    BY <1>1, <2>1 DEF LinkedQueue, Parent
<1>13. PcInv' /\ ReaderIsInStep'
  BY <1>1 DEF IInv, PcInv, ReaderIsInStep
<1>14. LinkInv'
  <2>1. Number(base)' = Number(base') /\ Number(last)' = Number(last)
    BY <1>1 DEF Number
  <2> QED
    BY <1>1, <1>2, <1>3, <1>6, <1>8, <1>9, <2>1 DEF LinkInv
<1>15. SendInv' /\ SanityChecksHold'
  BY <1>1 DEF SendInv, SanityChecksHold
<1>16. FreshInv'
  <2>1. rewound' > 0 => Adjacent'
    <3>1. CASE Adjacent
      <4>1. Number(Parent(base)) = Number(base) - 1
        <5>1. base' = Parent(base) /\ rewound' = rewound + 1
          BY <1>1, <3>1 DEF FetchParents
        <5> QED
          BY <1>2, <1>4, <1>9, <5>1
      <4>2. base' = Parent(base)
        BY <1>1, <3>1 DEF FetchParents
      <4> QED
        BY <1>4, <1>7, <1>8, <3>1, <4>1, <4>2 DEF Adjacent, Number
    <3>2. CASE ~Adjacent
      BY <1>1, <3>2 DEF FetchParents, IInv, FreshInv
    <3> QED
      BY <3>1, <3>2
  <2>2. ASSUME NEW j \in DOMAIN stack PROVE Parent(End) # stack[j]
    <3>1. /\ stack # <<>> /\ Last(stack) = last /\ j \in 1 .. n
          /\ Number(stack[j]) = Number(last) - (n - j)
      BY <1>1, <1>3, <2>2 DEF IInv, PcInv, ReaderIsInStep, Numbered
    <3>2. CASE Adjacent
      <4>1. Parent(End) # base /\ Number(Parent(End)) = Number(last) - rewound
        BY <1>1, <1>2, <1>4, <1>5, <3>2 DEF Linked, Adjacent
      <4>2. CASE j = n - rewound
        BY <1>2, <1>3, <3>1, <4>1, <4>2
      <4>3. CASE j # n - rewound
        BY <1>2, <1>3, <1>4, <3>1, <4>1, <4>3
      <4> QED
        BY <4>2, <4>3
    <3>3. CASE ~Adjacent
      <4>1. rewound = 0
        BY <1>1, <1>2, <3>3 DEF IInv, FreshInv
      <4>2. Number(Parent(End)) > Number(last)
        BY <1>2, <1>4, <1>5, <3>3, <4>1 DEF Adjacent
      <4> QED
        BY <1>3, <1>4, <3>1, <4>2
    <3> QED
      BY <3>2, <3>3
  <2>3. ASSUME NEW i \in DOMAIN queue', NEW j \in DOMAIN stack PROVE queue'[i] # stack[j]
    <3>1. i \in 1 .. m \/ i = m + 1
      BY <1>3, <1>6
    <3> QED
      BY <1>1, <1>3, <1>6, <2>2, <3>1 DEF IInv, FreshInv
  <2> QED
    BY <1>1, <2>1, <2>3 DEF FreshInv
<1> QED
  BY <1>10, <1>11, <1>12, <1>13, <1>14, <1>15, <1>16 DEF IInv

-----------------------------------------------------------------------------
(* A re-org event leaves a prefix of the reader's chain.                   *)
LEMMA BelowIsPrefix ==
    ASSUME IInv, stack # <<>>, NEW height \in Int
    PROVE  \E k \in 0 .. Len(stack) :
               /\ Below(height) = SubSeq(stack, 1, k)
               /\ \A i \in DOMAIN stack : i <= k <=> Number(stack[i]) < height
<1> DEFINE n == Len(stack)
           top == Number(Last(stack))
           m == height - top + n - 1
           k == IF m < 0 THEN 0 ELSE IF m > n THEN n ELSE m
           low == {i \in DOMAIN stack : Number(stack[i]) < height}
<1>1. DOMAIN stack = 1 .. n /\ n \in Nat /\ top \in Nat
  BY WatcherShapes, TreeFacts DEF IInv
<1>2. k \in 0 .. n
  BY <1>1
<1>3. \A i \in DOMAIN stack : Number(stack[i]) = top - (n - i)
  BY DEF IInv, Numbered
<1> HIDE DEF n, top
<1>4. \A i \in DOMAIN stack : i <= k <=> Number(stack[i]) < height
  BY <1>1, <1>3
<1> HIDE DEF k
<1>5. low = 1 .. k
  BY <1>1, <1>2, <1>4
<1>6. Cardinality(low) = k
  <2>1. k \in Nat
    BY <1>1, <1>2
  <2>2. \A a, b \in Int : Cardinality(a .. b) = IF a > b THEN 0 ELSE b - a + 1
    BY FS_Interval
  <2>3. Cardinality(1 .. k) = IF 1 > k THEN 0 ELSE k - 1 + 1
    BY <2>1, <2>2
  <2>4. Cardinality(1 .. k) = k
    BY <2>1, <2>3
  <2> QED
    BY <1>5, <2>4
<1>7. Below(height) = SubSeq(stack, 1, k)
  BY <1>6 DEF Below
<1> QED
  BY <1>2, <1>4, <1>7 DEF n

(* The re-org event leaves the reader with the blocks up to the common     *)
(* ancestor, and with it on top.                                           *)
LEMMA SendReorgStep ==
    ASSUME IInv, SendReorg
    PROVE  /\ IInv'
           /\ \E k \in 0 .. Len(stack) :
                 /\ stack' = SubSeq(stack, 1, k)
                 /\ k > 0 => stack[k] = base
                 /\ \A i \in DOMAIN stack : i <= k <=> Number(stack[i]) <= Number(base)
<1> PICK n : n = Len(stack)
  OBVIOUS
<1>1. /\ pc = "link" /\ pc' = "send" /\ Linked
      /\ stack' = IF rewound > 0 THEN Below(Number(base) + 1) ELSE stack
      /\ tree' = tree /\ head' = head /\ heads' = heads /\ last' = last
      /\ first' = first /\ retries' = retries /\ failures' = failures
      /\ base' = base /\ queue' = queue /\ rewound' = rewound
  BY DEF SendReorg, nodeVars, runVars, sendVars
<1>2. /\ base \in DOMAIN tree /\ base # None /\ queue # <<>> /\ rewound \in Nat
      /\ Number(base) = Number(last) - rewound /\ Number(base) \in Nat
      /\ rewound < n => base = stack[n - rewound]
  BY <1>1, TreeFacts DEF IInv, TypeOK, LinkInv
<1>3. stack # <<>> /\ Last(stack) = last /\ Number(last) \in Nat
  BY <1>1, TreeFacts DEF IInv, TypeOK, ReaderIsInStep, PcInv
<1>4. /\ DOMAIN stack = 1 .. n /\ n \in Nat /\ n > 0 /\ stack \in Seq(DOMAIN tree)
      /\ \A i \in DOMAIN stack : Number(stack[i]) = Number(last) - (n - i)
  BY <1>3, WatcherShapes DEF IInv, TypeOK, Numbered
<1>5. \E k \in 0 .. n :
          /\ stack' = SubSeq(stack, 1, k)
          /\ k > 0 => stack[k] = base
          /\ \A i \in DOMAIN stack : i <= k <=> Number(stack[i]) <= Number(base)
  <2>1. CASE rewound = 0
    <3>1. stack' = stack /\ SubSeq(stack, 1, n) = stack
      <4>1. \A i \in 1 .. n : SubSeq(stack, 1, n)[i] = stack[i]
        BY <1>4, PrefixElements
      <4>2. SubSeq(stack, 1, n) \in Seq(DOMAIN tree) /\ Len(SubSeq(stack, 1, n)) = n
        BY <1>4, PrefixElements
      <4> QED
        BY <1>1, <1>4, <2>1, <4>1, <4>2, SeqEqual
    <3>2. n \in 0 .. n /\ stack[n] = base
      BY <1>2, <1>4, <2>1
    <3>3. \A i \in DOMAIN stack : i <= n <=> Number(stack[i]) <= Number(base)
      BY <1>2, <1>3, <1>4, <2>1
    <3>4. stack' = SubSeq(stack, 1, n)
      BY <3>1
    <3> QED
      BY <3>2, <3>3, <3>4
  <2>2. CASE rewound > 0
    <3>1. PICK k \in 0 .. n :
              /\ stack' = SubSeq(stack, 1, k)
              /\ \A i \in DOMAIN stack : i <= k <=> Number(stack[i]) < Number(base) + 1
      <4>1. PICK height \in Int : height = Number(base) + 1
        BY <1>2
      <4>2. \E k \in 0 .. n :
              /\ Below(height) = SubSeq(stack, 1, k)
              /\ \A i \in DOMAIN stack : i <= k <=> Number(stack[i]) < height
        BY <1>3, BelowIsPrefix
      <4>3. stack' = Below(height)
        BY <1>1, <2>2, <4>1
      <4> QED
        BY <4>1, <4>2, <4>3
    <3>2. \A i \in DOMAIN stack : i <= k <=> i <= n - rewound
      BY <1>2, <1>3, <1>4, <3>1
    <3>3. ASSUME k > 0 PROVE k = n - rewound
      <4>1. k \in DOMAIN stack /\ k <= n - rewound
        BY <1>4, <3>2, <3>3
      <4>2. n - rewound \in DOMAIN stack
        BY <1>2, <1>4, <2>2, <4>1
      <4> QED
        BY <1>2, <1>4, <3>2, <4>1, <4>2
    <3>4. k > 0 => stack[k] = base
      <4>1. ASSUME k > 0 PROVE rewound < n
        BY <1>2, <1>4, <3>3, <4>1
      <4> QED
        BY <1>2, <3>3, <4>1
    <3>5. \A i \in DOMAIN stack : i <= k <=> Number(stack[i]) <= Number(base)
      BY <1>2, <1>3, <1>4, <3>1
    <3> QED
      BY <3>1, <3>4, <3>5
  <2> QED
    BY <1>2, <2>1, <2>2
<1>6. PICK k \in 0 .. n :
          /\ stack' = SubSeq(stack, 1, k)
          /\ k > 0 => stack[k] = base
          /\ \A i \in DOMAIN stack : i <= k <=> Number(stack[i]) <= Number(base)
  BY <1>5
<1>7. /\ stack' \in Seq(DOMAIN tree) /\ Len(stack') = k /\ DOMAIN stack' = 1 .. k
      /\ \A i \in 1 .. k : stack'[i] = stack[i] /\ i \in DOMAIN stack
  BY <1>4, <1>6, PrefixElements
<1>8. k > 0 => Last(stack') = base
  BY <1>6, <1>7 DEF Last
<1>9. TypeOK'
  BY <1>1, <1>7 DEF IInv, TypeOK
<1>10. LinkedTree' /\ LinkedQueue'
  BY <1>1 DEF IInv, LinkedTree, LinkedQueue, Number, Parent
<1>11. LinkedStack'
  <2>1. ASSUME NEW i \in 1 .. k, i > 1 PROVE Parent(stack'[i]) = stack'[i - 1]
    <3>1. i - 1 \in 1 .. k
      BY <2>1
    <3> QED
      BY <1>7, <2>1, <3>1 DEF IInv, LinkedStack
  <2> QED
    BY <1>1, <1>7, <2>1 DEF LinkedStack, Parent
<1>12. Numbered'
  <2>1. ASSUME NEW i \in 1 .. k
        PROVE  Number(stack'[i]) = Number(Last(stack')) - (k - i)
    <3>1. k \in 1 .. k /\ k \in Nat
      BY <1>6, <2>1
    <3>2. Number(stack[i]) = Number(last) - (n - i) /\ Number(stack[k]) = Number(last) - (n - k)
      BY <1>4, <1>7, <3>1
    <3>3. stack'[i] = stack[i] /\ Last(stack') = stack[k]
      BY <1>7, <3>1 DEF Last
    <3> QED
      BY <1>3, <1>4, <3>1, <3>2, <3>3
  <2> QED
    BY <1>1, <1>7, <2>1 DEF Numbered, Number
<1>13. PcInv' /\ ReaderIsInStep' /\ LinkInv' /\ FreshInv'
  BY <1>1 DEF IInv, PcInv, ReaderIsInStep, LinkInv, FreshInv
<1>14. SendInv'
  <2>1. stack' # <<>> => k > 0
    BY <1>6, <1>7, EmptySeq
  <2> QED
    BY <1>1, <1>2, <1>8, <2>1 DEF SendInv
<1>15. SanityChecksHold'
  BY <1>1 DEF SanityChecksHold, Sane, Linked, Adjacent, End, Number, Parent
<1> QED
  BY <1>6, <1>9, <1>10, <1>11, <1>12, <1>13, <1>14, <1>15 DEF IInv

-----------------------------------------------------------------------------
(* The next header is the child of the reader's last one.                  *)
LEMMA SendHeaderStep ==
    ASSUME IInv, SendHeader
    PROVE  /\ IInv'
           /\ End \in DOMAIN tree /\ tree' = tree /\ stack' = Append(stack, End)
           /\ stack # <<>> => Parent(End) = stack[Len(stack)]
<1> PICK n : n = Len(stack)
  OBVIOUS
<1> PICK m : m = Len(queue)
  OBVIOUS
<1> PICK e : e = End
  OBVIOUS
<1>1. /\ pc = "send" /\ stack' = Append(stack, e)
      /\ tree' = tree /\ head' = head /\ heads' = heads
      /\ first' = first /\ retries' = retries /\ failures' = failures
      /\ Number(e) = Number(base) + 1 /\ Parent(e) = base
      /\ IF m > 1
         THEN /\ base' = e /\ queue' = Front(queue)
              /\ pc' = pc /\ last' = last /\ rewound' = rewound
         ELSE /\ last' = e /\ pc' = "loop"
              /\ base' = None /\ queue' = <<>> /\ rewound' = 0
  BY DEF SendHeader, Sane, nodeVars
<1>2. base \in DOMAIN tree /\ queue # <<>> /\ (stack # <<>> => Last(stack) = base)
  BY <1>1 DEF IInv, TypeOK, SendInv
<1>3. /\ DOMAIN queue = 1 .. m /\ m \in Nat /\ m > 0 /\ queue \in Seq(DOMAIN tree)
      /\ e = queue[m] /\ e \in DOMAIN tree
  BY <1>2, WatcherShapes DEF IInv, TypeOK, End, Last
<1>4. /\ DOMAIN stack = 1 .. n /\ n \in Nat /\ stack \in Seq(DOMAIN tree)
      /\ (n > 0) <=> (stack # <<>>)
  BY WatcherShapes, EmptySeq DEF IInv, TypeOK
<1>5. e # None /\ Number(e) \in Nat /\ Number(base) \in Nat
  BY <1>2, <1>3, TreeFacts DEF IInv
<1>6. /\ stack' \in Seq(DOMAIN tree) /\ DOMAIN stack' = 1 .. n + 1 /\ Len(stack') = n + 1
      /\ \A i \in 1 .. n : stack'[i] = stack[i]
      /\ stack'[n + 1] = e /\ stack' # <<>>
  BY <1>1, <1>3, <1>4, AppendProperties, LenProperties
<1>7. Last(stack') = e
  BY <1>6 DEF Last
<1>8. n > 0 => stack[n] = base
  BY <1>2, <1>4 DEF Last
<1>9. LinkedTree'
  BY <1>1 DEF IInv, LinkedTree, Number, Parent
<1>10. LinkedStack'
  <2>1. ASSUME NEW i \in 1 .. n + 1, i > 1 PROVE Parent(stack'[i]) = stack'[i - 1]
    <3>1. CASE i = n + 1
      <4>1. stack'[i - 1] = base
        BY <1>4, <1>6, <1>8, <2>1, <3>1
      <4> QED
        BY <1>1, <1>6, <3>1, <4>1
    <3>2. CASE i # n + 1
      <4>1. i \in 1 .. n /\ i - 1 \in 1 .. n
        BY <1>4, <2>1, <3>2
      <4> QED
        BY <1>4, <1>6, <2>1, <4>1 DEF IInv, LinkedStack
    <3> QED
      BY <3>1, <3>2
  <2> QED
    BY <1>1, <1>6, <2>1 DEF LinkedStack, Parent
<1>11. Numbered'
  <2>1. ASSUME NEW i \in 1 .. n + 1 PROVE Number(stack'[i]) = Number(e) - (n + 1 - i)
    <3>1. CASE i = n + 1
      BY <1>4, <1>5, <1>6, <3>1
    <3>2. CASE i # n + 1
      <4>1. i \in 1 .. n /\ n > 0
        BY <1>4, <3>2
      <4>2. Number(stack[i]) = Number(base) - (n - i)
        BY <1>2, <1>4, <4>1 DEF IInv, Numbered
      <4> QED
        BY <1>1, <1>4, <1>5, <1>6, <4>1, <4>2
    <3> QED
      BY <3>1, <3>2
  <2> QED
    BY <1>1, <1>6, <1>7, <2>1 DEF Numbered, Number
<1>12. TypeOK' /\ LinkedQueue' /\ PcInv' /\ ReaderIsInStep' /\ LinkInv' /\ FreshInv'
       /\ SendInv' /\ SanityChecksHold'
  <2>1. CASE m > 1
    <3> PICK f : f = queue[m - 1]
      OBVIOUS
    <3>1. queue' = SubSeq(queue, 1, m - 1) /\ m - 1 \in 0 .. m
      BY <1>1, <1>3, <2>1 DEF Front
    <3>2. /\ queue' \in Seq(DOMAIN tree) /\ Len(queue') = m - 1 /\ DOMAIN queue' = 1 .. m - 1
          /\ \A i \in 1 .. m - 1 : queue'[i] = queue[i]
      BY <1>3, <3>1, PrefixElements
    <3>3. queue' # <<>> /\ End' = f
      BY <2>1, <1>3, <3>2 DEF End, Last
    <3>4. TypeOK'
      BY <1>1, <1>3, <1>6, <2>1, <3>2 DEF IInv, TypeOK
    <3>5. LinkedQueue'
      <4>1. \A i \in 1 .. m - 1 : i > 1 => i - 1 \in 1 .. m - 1 /\ i \in 1 .. m
        BY <1>3
      <4> QED
        BY <1>1, <1>3, <3>2, <4>1 DEF IInv, LinkedQueue, Parent
    <3>6. Parent(f) = e /\ f \in DOMAIN tree
      <4>1. m \in DOMAIN queue /\ m - 1 \in DOMAIN queue
        BY <1>3, <2>1
      <4> QED
        BY <1>3, <2>1, <4>1, WatcherShapes DEF IInv, LinkedQueue
    <3>7. Number(f) = Number(e) + 1
      <4>1. f # 1
        BY <1>3, <3>6, TreeFacts DEF IInv
      <4> QED
        BY <3>6, <4>1 DEF IInv, LinkedTree
    <3>8. PcInv' /\ ReaderIsInStep' /\ LinkInv' /\ FreshInv'
      BY <1>1, <2>1 DEF IInv, PcInv, ReaderIsInStep, LinkInv, FreshInv
    <3>9. SendInv'
      BY <1>1, <1>5, <1>7, <2>1, <3>3 DEF SendInv
    <3>10. SanityChecksHold'
      BY <1>1, <2>1, <3>3, <3>6, <3>7 DEF SanityChecksHold, Sane, Number, Parent
    <3> QED
      BY <3>4, <3>5, <3>8, <3>9, <3>10
  <2>2. CASE ~(m > 1)
    <3>1. queue' = <<>> /\ pc' = "loop" /\ last' = e /\ base' = None /\ rewound' = 0
      BY <1>1, <2>2
    <3>2. TypeOK'
      BY <1>1, <1>3, <1>6, <3>1, WatcherAssumption DEF IInv, TypeOK
    <3>3. LinkedQueue' /\ PcInv' /\ ReaderIsInStep'
      BY <1>5, <1>6, <1>7, <3>1 DEF LinkedQueue, PcInv, ReaderIsInStep
    <3> QED
      BY <3>1, <3>2, <3>3 DEF LinkInv, FreshInv, SendInv, SanityChecksHold
  <2> QED
    BY <2>1, <2>2
<1> QED
  BY <1>1, <1>3, <1>8, <1>4, <1>9, <1>10, <1>11, <1>12 DEF IInv

-----------------------------------------------------------------------------
(* Every step preserves the invariant.                                     *)
LEMMA NextIInv == IInv /\ [Next]_vars => IInv'
<1> SUFFICES ASSUME IInv, [Next]_vars PROVE IInv'
  OBVIOUS
<1>1. CASE \E p \in DOMAIN tree : Mine(p)
  BY <1>1, MineStep
<1>2. CASE Connect
  BY <1>2, ConnectStep
<1>3. CASE FetchFirst
  BY <1>3, FetchFirstStep
<1>4. CASE FetchParents
  BY <1>4, FetchParentsStep
<1>5. CASE SendReorg
  BY <1>5, SendReorgStep
<1>6. CASE SendHeader
  BY <1>6, SendHeaderStep
<1>7. CASE RaiseError
  BY <1>7, RaiseErrorStep
<1>8. CASE Restart
  BY <1>8, RestartStep
<1>9. CASE NextFromStream \/ NextFromPoll
  BY <1>9, NextHeaderStep
<1>10. CASE RequestFails
  BY <1>10, RequestFailsStep
<1>11. CASE UNCHANGED vars
  BY <1>11 DEF vars, nodeVars, runVars, sendVars, IInv, TypeOK, LinkedTree, LinkedStack,
               LinkedQueue, Numbered, PcInv, LinkInv, FreshInv, SendInv, ReaderIsInStep,
               SanityChecksHold, Sane, Adjacent, Overflow, End, Number, Parent
<1> QED
  BY <1>1, <1>2, <1>3, <1>4, <1>5, <1>6, <1>7, <1>8, <1>9, <1>10, <1>11
     DEF Next, WatcherStep

(* IInv is an inductive invariant of the block watcher.                    *)
THEOREM WatcherInvariant == Spec => []IInv
BY InitIInv, NextIInv, PTL DEF Spec

(* The types, and the bounds on the re-org depth and the retries.          *)
THEOREM WatcherTypes == Spec => []TypeOK
<1>1. IInv => TypeOK
  BY DEF IInv
<1> QED
  BY <1>1, WatcherInvariant, PTL

(* InsaneNumber and InsaneParentHash are never raised in send_with_reorgs, *)
(* however deep the re-org and however often the node changes its head.    *)
THEOREM SanityChecksNeverFail == Spec => []SanityChecksHold
<1>1. IInv => SanityChecksHold
  BY DEF IInv
<1> QED
  BY <1>1, WatcherInvariant, PTL

(* Errors, retries and reconnections leave `last` and the events sent in   *)
(* agreement: the next header is compared with what readers saw last.      *)
THEOREM ReadersKeepUp == Spec => []ReaderIsInStep
<1>1. IInv => ReaderIsInStep
  BY DEF IInv
<1> QED
  BY <1>1, WatcherInvariant, PTL

-----------------------------------------------------------------------------
(* A step of the node or of the watcher is one of ChainFollower or leaves  *)
(* the reader's chain alone.                                               *)
LEMMA StepFollows ==
    ASSUME IInv, Next
    PROVE  [CF!Next]_<<tree, stack>>
<1>1. CASE \E p \in DOMAIN tree : Mine(p)
  <2>1. PICK p \in DOMAIN tree : Mine(p)
    BY <1>1
  <2>2. CF!Mine(p)
    BY <2>1 DEF Mine, CF!Mine, Number
  <2> QED
    BY <2>2 DEF CF!Next
<1>2. CASE FetchFirst
  <2>1. stack = <<>> /\ head \in DOMAIN tree
    BY <1>2 DEF FetchFirst, IInv, PcInv, ReaderIsInStep, TypeOK
  <2>2. CF!Start(head)
    BY <1>2, <2>1 DEF FetchFirst, CF!Start, nodeVars
  <2> QED
    BY <2>1, <2>2 DEF CF!Next
<1>3. CASE SendReorg
  <2>1. PICK k \in 0 .. Len(stack) : stack' = SubSeq(stack, 1, k)
    BY <1>3, SendReorgStep
  <2>2. CF!Rewind(k)
    BY <1>3, <2>1 DEF SendReorg, CF!Rewind, nodeVars
  <2> QED
    BY <2>2 DEF CF!Next
<1>4. CASE SendHeader
  <2> PICK e : e = End
    OBVIOUS
  <2>1. /\ e \in DOMAIN tree /\ tree' = tree /\ stack' = Append(stack, e)
        /\ stack # <<>> => Parent(e) = stack[Len(stack)]
    BY <1>4, SendHeaderStep
  <2>2. CASE stack = <<>>
    <3>1. CF!Start(e)
      BY <2>1, <2>2 DEF CF!Start
    <3> QED
      BY <2>1, <3>1 DEF CF!Next
  <2>3. CASE stack # <<>>
    <3>1. CF!Extend(e)
      BY <2>1, <2>3 DEF CF!Extend, Parent
    <3> QED
      BY <2>1, <3>1 DEF CF!Next
  <2> QED
    BY <2>2, <2>3
<1>5. CASE Restart
  <2>1. stack' = SubSeq(stack, 1, 0) /\ tree' = tree /\ 0 \in 0 .. Len(stack)
    <3>1. Len(stack) \in Nat /\ stack \in Seq(DOMAIN tree)
      BY WatcherShapes DEF IInv, TypeOK
    <3>2. SubSeq(stack, 1, 0) \in Seq(DOMAIN tree) /\ Len(SubSeq(stack, 1, 0)) = 0
      BY <3>1, PrefixElements
    <3>3. SubSeq(stack, 1, 0) = <<>>
      BY <3>2, EmptySeq
    <3> QED
      BY <1>5, <3>1, <3>3 DEF Restart, nodeVars
  <2>2. CF!Rewind(0)
    BY <2>1 DEF CF!Rewind
  <2> QED
    BY <2>1, <2>2 DEF CF!Next
<1>6. CASE Connect \/ FetchParents \/ RaiseError \/ NextFromStream \/ NextFromPoll \/ RequestFails
  BY <1>6 DEF Connect, FetchParents, RaiseError, NextFromStream, NextFromPoll, RequestFails,
              nodeVars
<1> QED
  BY <1>1, <1>2, <1>3, <1>4, <1>5, <1>6 DEF Next, WatcherStep

(* A reader who applies the events in order, through every re-org, error   *)
(* and restart, holds a chain of blocks each the parent of the next.       *)
THEOREM EventsLinkChain == Spec => FollowsTheChain
<1>1. Init => CF!Init
  BY DEF Init, CF!Init
<1>2. IInv /\ [Next]_vars => [CF!Next]_<<tree, stack>>
  BY StepFollows DEF vars, nodeVars
<1> QED
  BY <1>1, <1>2, WatcherInvariant, PTL DEF Spec, FollowsTheChain, CF!Spec, CF!vars

-----------------------------------------------------------------------------
(* Ancestors.  The recursion that defines it goes down the tree, so there  *)
(* is a function that satisfies it: one on the first n blocks extends to   *)
(* one on the first n + 1.                                                 *)
AncestorsUpTo(f, n) ==
    f = [b \in 1 .. n |-> {b} \cup (IF Parent(b) = 0 THEN {} ELSE f[Parent(b)])]

(* There is a function to the ancestors of each block; it grows with the   *)
(* tree, a block at a time.                                                *)
LEMMA AncestorsExist ==
    ASSUME TypeOK, LinkedTree
    PROVE  \E f : AncestorsUpTo(f, Len(tree))
<1>1. DOMAIN tree = 1 .. Len(tree) /\ Len(tree) \in Nat
  BY TreeFacts
<1> DEFINE T == {n \in Nat : n <= Len(tree) /\ ~\E f : AncestorsUpTo(f, n)}
<1>2. CASE T = {}
  BY <1>1, <1>2
<1>3. CASE T # {}
  <2>1. PICK n \in T : \A m \in T : n <= m
    BY <1>3, SmallestElement
  <2>2. n \in Nat /\ n <= Len(tree) /\ ~\E f : AncestorsUpTo(f, n)
    BY <2>1
  <2>3. n > 0
    <3>1. CASE n = 0
      <4>1. 1 .. 0 = {}
        OBVIOUS
      <4>2. <<>> = [b \in {} |-> {b} \cup (IF Parent(b) = 0 THEN {} ELSE <<>>[Parent(b)])]
        OBVIOUS
      <4> QED
        BY <2>2, <3>1, <4>1, <4>2 DEF AncestorsUpTo
    <3> QED
      BY <2>2, <3>1
  <2>4. PICK f : AncestorsUpTo(f, n - 1)
    <3>1. n - 1 \in Nat /\ n - 1 <= Len(tree) /\ ~(n <= n - 1)
      BY <1>1, <2>2, <2>3
    <3>2. n - 1 \notin T
      BY <2>1, <3>1
    <3> QED
      BY <3>1, <3>2
  <2> DEFINE top == {n} \cup (IF Parent(n) = 0 THEN {} ELSE f[Parent(n)])
             g == [b \in 1 .. n |-> IF b = n THEN top ELSE f[b]]
  <2>5. ASSUME NEW b \in 1 .. n
        PROVE  g[b] = {b} \cup (IF Parent(b) = 0 THEN {} ELSE g[Parent(b)])
    <3>1. Parent(b) = 0 \/ Parent(b) \in 1 .. b - 1
      BY <1>1, <2>2 DEF LinkedTree, Parent
    <3>2. Parent(b) # 0 => Parent(b) \in 1 .. n - 1 /\ g[Parent(b)] = f[Parent(b)]
      BY <2>2, <3>1
    <3>3. CASE b = n
      BY <3>2, <3>3
    <3>4. CASE b # n
      <4>1. b \in 1 .. n - 1
        BY <2>2, <3>4
      <4>2. f[b] = {b} \cup (IF Parent(b) = 0 THEN {} ELSE f[Parent(b)])
        BY <2>4, <4>1 DEF AncestorsUpTo
      <4> QED
        BY <3>2, <3>4, <4>2
    <3> QED
      BY <3>3, <3>4
  <2>6. AncestorsUpTo(g, n)
    BY <2>5 DEF AncestorsUpTo
  <2> QED
    BY <2>2, <2>6
<1> QED
  BY <1>2, <1>3

(* The recursive definition of Ancestors holds of every block: its parent  *)
(* is an earlier one.                                                      *)
LEMMA AncestorsOf ==
    ASSUME TypeOK, LinkedTree, NEW b \in DOMAIN tree
    PROVE  Ancestors[b] = {b} \cup (IF Parent(b) = 0 THEN {} ELSE Ancestors[Parent(b)])
<1>1. AncestorsUpTo(Ancestors, Len(tree))
  <2>1. \E f : f = [c \in DOMAIN tree |->
                      {c} \cup (IF Parent(c) = 0 THEN {} ELSE f[Parent(c)])]
    BY AncestorsExist, TreeFacts DEF AncestorsUpTo
  <2> QED
    BY <2>1, TreeFacts DEF Ancestors, AncestorsUpTo
<1> QED
  BY <1>1, TreeFacts DEF AncestorsUpTo

(* No ancestor is higher.                                                  *)
LEMMA AncestorsAreLower ==
    ASSUME TypeOK, LinkedTree, NEW b \in DOMAIN tree, NEW a \in Ancestors[b]
    PROVE  a \in DOMAIN tree /\ Number(a) <= Number(b)
<1> DEFINE Lower(c) == \A d \in Ancestors[c] : d \in DOMAIN tree /\ Number(d) <= Number(c)
           T == {c \in DOMAIN tree : ~Lower(c)}
<1>1. \A c \in DOMAIN tree : c \in Nat /\ Number(c) \in Nat
  BY TreeFacts
<1>2. CASE T = {}
  BY <1>2
<1>3. CASE T # {}
  <2>1. PICK c \in T : \A d \in T : c <= d
    BY <1>1, <1>3, SmallestElement
  <2>2. c \in DOMAIN tree /\ ~Lower(c)
    BY <2>1
  <2>3. Ancestors[c] = {c} \cup (IF Parent(c) = 0 THEN {} ELSE Ancestors[Parent(c)])
    BY <2>2, AncestorsOf
  <2>4. CASE Parent(c) = 0
    BY <1>1, <2>2, <2>3, <2>4
  <2>5. CASE Parent(c) # 0
    <3>1. Parent(c) \in DOMAIN tree /\ Parent(c) < c /\ Number(c) = Number(Parent(c)) + 1
      BY <2>2, <2>5 DEF LinkedTree, Parent
    <3>2. Parent(c) \notin T
      BY <1>1, <2>1, <2>2, <3>1
    <3>3. Lower(Parent(c))
      BY <3>1, <3>2
    <3> QED
      BY <1>1, <2>2, <2>3, <2>5, <3>1, <3>3
  <2> QED
    BY <2>4, <2>5
<1> QED
  BY <1>2, <1>3

(* A branch of which each block is the parent of the next descends from    *)
(* its blocks.                                                             *)
LEMMA StackDescends ==
    ASSUME IInv, NEW k \in DOMAIN stack, NEW i \in 1 .. k
    PROVE  stack[i] \in Ancestors[stack[k]]
<1> DEFINE Descends(n) == \A j \in 1 .. n : stack[j] \in Ancestors[stack[n]]
           T == {n \in DOMAIN stack : ~Descends(n)}
<1>1. DOMAIN stack = 1 .. Len(stack) /\ Len(stack) \in Nat
      /\ \A n \in DOMAIN stack : stack[n] \in DOMAIN tree
  BY WatcherShapes DEF IInv
<1>2. CASE T = {}
  BY <1>2
<1>3. CASE T # {}
  <2>1. PICK n \in T : \A m \in T : n <= m
    <3>1. T \subseteq Nat
      BY <1>1
    <3> QED
      BY <1>3, <3>1, SmallestElement
  <2>2. n \in DOMAIN stack /\ ~Descends(n) /\ stack[n] \in DOMAIN tree
    BY <1>1, <2>1
  <2>3. Ancestors[stack[n]] =
            {stack[n]} \cup (IF Parent(stack[n]) = 0 THEN {} ELSE Ancestors[Parent(stack[n])])
    BY <2>2, AncestorsOf DEF IInv
  <2>4. CASE n = 1
    BY <2>2, <2>3, <2>4
  <2>5. CASE n # 1
    <3>1. n - 1 \in DOMAIN stack /\ n > 1 /\ ~(n <= n - 1)
      BY <1>1, <2>2, <2>5
    <3>2. Descends(n - 1)
      BY <2>1, <3>1
    <3>3. Parent(stack[n]) = stack[n - 1] /\ stack[n - 1] # 0
      BY <1>1, <2>2, <3>1, TreeFacts DEF IInv, LinkedStack
    <3>4. \A j \in 1 .. n : j = n \/ j \in 1 .. n - 1
      BY <1>1, <2>2
    <3> QED
      BY <2>2, <2>3, <3>2, <3>3, <3>4
  <2> QED
    BY <2>4, <2>5
<1> QED
  BY <1>2, <1>3

(* Once linked, the queue leads from the new head down to the child of the *)
(* common ancestor.                                                        *)
LEMMA QueueDescends ==
    ASSUME IInv, pc = "link", Linked
    PROVE  Ancestors[queue[1]] = ToSet(queue) \cup Ancestors[base]
<1> PICK m : m = Len(queue)
  OBVIOUS
<1> DEFINE Descends(d) ==
        Ancestors[queue[m - d]] = {queue[j] : j \in m - d .. m} \cup Ancestors[base]
           T == {d \in 0 .. m - 1 : ~Descends(d)}
<1>1. /\ DOMAIN queue = 1 .. m /\ m \in Nat /\ m > 0
      /\ \A i \in DOMAIN queue : queue[i] \in DOMAIN tree
      /\ base \in DOMAIN tree /\ Parent(queue[m]) = base
  BY WatcherShapes DEF IInv, LinkInv, TypeOK, Linked, End, Last
<1>2. ASSUME T # {} PROVE FALSE
  <2>1. PICK d \in T : \A e \in T : d <= e
    <3>1. T \subseteq Nat
      BY <1>1
    <3> QED
      BY <1>2, <3>1, SmallestElement
  <2> PICK i : i = m - d
    OBVIOUS
  <2>2. d \in 0 .. m - 1 /\ ~Descends(d) /\ i \in 1 .. m /\ queue[i] \in DOMAIN tree
    BY <1>1, <2>1
  <2>3. Ancestors[queue[i]] =
            {queue[i]} \cup (IF Parent(queue[i]) = 0 THEN {} ELSE Ancestors[Parent(queue[i])])
    BY <2>2, AncestorsOf DEF IInv
  <2>4. CASE d = 0
    <3>1. i = m /\ i .. m = {m} /\ base # 0
      BY <1>1, <2>4, TreeFacts DEF IInv
    <3>2. Ancestors[queue[i]] = {queue[j] : j \in i .. m} \cup Ancestors[base]
      BY <1>1, <2>3, <3>1
    <3> QED
      BY <2>2, <3>2
  <2>5. CASE d # 0
    <3>1. d - 1 \in 0 .. m - 1 /\ ~(d <= d - 1) /\ m - (d - 1) = i + 1
      BY <1>1, <2>2, <2>5
    <3>2. Descends(d - 1)
      BY <2>1, <3>1
    <3>3. Ancestors[queue[i + 1]] = {queue[j] : j \in i + 1 .. m} \cup Ancestors[base]
      BY <3>1, <3>2
    <3>4. Parent(queue[i]) = queue[i + 1] /\ queue[i + 1] # 0
      <4>1. i + 1 \in DOMAIN queue /\ i + 1 > 1 /\ (i + 1) - 1 = i
        BY <1>1, <2>2, <2>5
      <4>2. queue[i + 1] = Parent(queue[(i + 1) - 1])
        BY <4>1 DEF IInv, LinkedQueue
      <4>3. queue[i + 1] \in DOMAIN tree
        BY <1>1, <4>1
      <4> QED
        BY <4>1, <4>2, <4>3, TreeFacts DEF IInv
    <3>5. i .. m = {i} \cup (i + 1 .. m)
      BY <1>1, <2>2
    <3>6. Ancestors[queue[i]] =
              {queue[i]} \cup ({queue[j] : j \in i + 1 .. m} \cup Ancestors[base])
      BY <2>3, <3>3, <3>4
    <3>7. {queue[j] : j \in i .. m} = {queue[i]} \cup {queue[j] : j \in i + 1 .. m}
      BY <3>5
    <3>8. Ancestors[queue[i]] = {queue[j] : j \in i .. m} \cup Ancestors[base]
      BY <3>6, <3>7
    <3> QED
      BY <2>2, <3>8
  <2> QED
    BY <2>4, <2>5
<1>3. Descends(m - 1)
  <2>1. m - 1 \in 0 .. m - 1
    BY <1>1
  <2> HIDE DEF Descends
  <2> QED
    BY <1>2, <2>1
<1>4. m - (m - 1) = 1
  BY <1>1
<1>5. Ancestors[queue[1]] = {queue[j] : j \in 1 .. m} \cup Ancestors[base]
  BY <1>3, <1>4
<1> QED
  BY <1>1, <1>5 DEF ToSet

(* The step that sends the event, if there has to be one.                  *)
LEMMA RewindStep ==
    ASSUME IInv, SendReorg
    PROVE  ToSet(stack') = ToSet(stack) \cap Ancestors[queue[1]]
<1>1. PICK k \in 0 .. Len(stack) :
          /\ stack' = SubSeq(stack, 1, k)
          /\ k > 0 => stack[k] = base
          /\ \A i \in DOMAIN stack : i <= k <=> Number(stack[i]) <= Number(base)
  BY SendReorgStep
<1>2. /\ pc = "link" /\ Linked /\ base \in DOMAIN tree
      /\ DOMAIN stack = 1 .. Len(stack) /\ Len(stack) \in Nat
  BY WatcherShapes DEF SendReorg, IInv, LinkInv, TypeOK
<1>3. DOMAIN stack' = 1 .. k /\ \A i \in 1 .. k : stack'[i] = stack[i] /\ i \in DOMAIN stack
  BY <1>1, <1>2, PrefixElements DEF IInv, TypeOK
<1>4. Ancestors[queue[1]] = ToSet(queue) \cup Ancestors[base]
  BY <1>2, QueueDescends
<1>5. ASSUME NEW i \in 1 .. k PROVE stack[i] \in Ancestors[queue[1]]
  <2>1. k \in DOMAIN stack /\ stack[k] = base
    BY <1>1, <1>2, <1>5
  <2> QED
    BY <1>4, <2>1, StackDescends
<1>6. ASSUME NEW i \in DOMAIN stack, stack[i] \in Ancestors[queue[1]] PROVE i \in 1 .. k
  <2>1. stack[i] \notin ToSet(queue)
    BY <1>2, <1>6 DEF IInv, FreshInv, ToSet
  <2>2. Number(stack[i]) <= Number(base)
    BY <1>2, <1>4, <1>6, <2>1, AncestorsAreLower DEF IInv
  <2> QED
    BY <1>1, <1>2, <1>6, <2>2
<1> QED
  BY <1>2, <1>3, <1>5, <1>6 DEF ToSet

(* A re-org event takes back exactly the blocks the new head does not      *)
(* build on, however deep the re-org and however long the new branch.      *)
THEOREM ReorgsTakeBackTheStale == Spec => RewindsExactly
<1>1. ASSUME IInv, Next, pc = "link", pc' = "send" PROVE SendReorg
  BY <1>1 DEF Next, WatcherStep, Mine, Connect, FetchFirst, FetchParents, SendHeader,
              RaiseError, HandleError, Restart, NextFromStream, NextFromPoll, RequestFails
<1>2. IInv /\ [Next]_vars =>
        [pc = "link" /\ pc' = "send" =>
            ToSet(stack') = ToSet(stack) \cap Ancestors[queue[1]]]_vars
  BY <1>1, RewindStep
<1> QED
  BY <1>2, WatcherInvariant, PTL DEF Spec, RewindsExactly
=============================================================================
