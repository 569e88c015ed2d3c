-------------------------- MODULE SubmitApiProofs --------------------------
(***************************************************************************)
(* Theorems about SubmitApi, for any documents, batches, buffer size and   *)
(* number of requests.                                                     *)
(*                                                                         *)
(* The argument has two parts. The first is about the forms of an order:   *)
(* what the contract accepts is what was sent (ContractReads), and the row *)
(* of an order is read back as that order (RowReadBack), both by going     *)
(* through the positions of arguments and columns one by one. The second   *)
(* follows each order through App::order: OrderInv says by its stage what  *)
(* was checked, stored and published, so that every row is that of an      *)
(* order the contract accepted (RowsInv), every event that of an order     *)
(* that was sent (EventsInv; its numbers come back from their limbs,       *)
(* LimbsGiveBack), and App::orders only adds up the results (AnswerInv,    *)
(* RefusalsInOrder). That no more than CONCURRENT orders are in progress   *)
(* follows from where the buffer begins (BufferInv).                       *)
(***************************************************************************)
EXTENDS SubmitApi, SequenceFacts, FiniteSetTheorems

Stages == {"waiting"} \cup Running \cup Results

-----------------------------------------------------------------------------
(* The checks of an order and of its state.                                *)

(* The error that is reported is one of a check that failed, and there is  *)
(* none only if all pass.                                                  *)
LEMMA FirstErrorFound ==
    ASSUME NEW n \in Nat, NEW checks, DOMAIN checks = 1 .. n
    PROVE  \/ FirstError(checks) = "none" /\ \A i \in 1 .. n : checks[i][1]
           \/ \E i \in 1 .. n : ~checks[i][1] /\ FirstError(checks) = checks[i][2]
<1>1. PICK failed : failed = {i \in 1 .. n : ~checks[i][1]}
  OBVIOUS
<1>2. FirstError(checks) = IF failed = {} THEN "none" ELSE checks[Min(failed)][2]
  BY <1>1 DEF FirstError
<1>3. CASE failed = {}
  BY <1>1, <1>2, <1>3, Zenon
<1>4. CASE failed # {}
  <2>1. failed \in SUBSET Nat
    BY <1>1
  <2>2. \E m \in failed : \A k \in failed : m <= k
    BY <1>4, <2>1, SmallestElement
  <2>3. Min(failed) \in failed
    BY <2>2 DEF Min
  <2>4. Min(failed) \in 1 .. n /\ ~checks[Min(failed)][1]
    BY <1>1, <2>3, Zenon
  <2> QED
    BY <1>2, <1>4, <2>4, Zenon
<1> QED
  BY <1>3, <1>4

(* LimitOrder::validate: an order without error is one for the chain and   *)
(* the contract of ChainInfo.  It does not look at the signature.          *)
LEMMA OrderErrors ==
    ASSUME NEW order
    PROVE  /\ OrderError(order) \in Errors \cup {"none"}
           /\ OrderError(order) # "InvalidSignature"
           /\ OrderError(order) = "none" =>
                 order.chain_id = ChainId /\ order.verifying_contract = Exchange
<1>1. PICK checks : checks = <<
        <<order.maker_amount # 0,               "ZeroMakerAmount">>,
        <<order.taker_amount # 0,               "ZeroTakerAmount">>,
        <<order.maker # ZeroAddress,            "InvalidMakerAddress">>,
        <<order.taker # FlashWallet,            "InvalidTakerAddress">>,
        <<order.chain_id = ChainId,             "InvalidVerifyingContract">>,
        <<order.verifying_contract = Exchange,  "InvalidVerifyingContract">> >>
  OBVIOUS
<1>2. OrderError(order) = FirstError(checks)
  BY <1>1 DEF OrderError
<1>3. DOMAIN checks = 1 .. 6
  BY <1>1
<1>4. \A i \in 1 .. 6 : checks[i][2] \in Errors \ {"InvalidSignature"}
  BY <1>1 DEF Errors
<1>5. /\ checks[5][1] <=> order.chain_id = ChainId
      /\ checks[6][1] <=> order.verifying_contract = Exchange
  BY <1>1
<1>6. \/ FirstError(checks) = "none" /\ \A i \in 1 .. 6 : checks[i][1]
      \/ \E i \in 1 .. 6 : ~checks[i][1] /\ FirstError(checks) = checks[i][2]
  BY <1>3, FirstErrorFound
<1>7. "none" \notin Errors
  BY DEF Errors
<1> QED
  BY <1>2, <1>4, <1>5, <1>6, <1>7

(* SignedOrderState::validate: a state without error has a valid signature *)
(* and can be filled.                                                      *)
LEMMA StateErrors ==
    ASSUME NEW fetched, fetched.status \in {Statuses[k] : k \in 1 .. 5}
    PROVE  /\ StateError(fetched) \in Errors \cup {"none"}
           /\ StateError(fetched) = "none" =>
                 fetched.is_signature_valid /\ fetched.status = "Fillable"
           /\ StateError(fetched) = "InvalidSignature" => ~fetched.is_signature_valid
<1>1. PICK checks : checks = <<
        <<fetched.is_signature_valid,        "InvalidSignature">>,
        <<fetched.status # "Invalid",        "Unfunded">>,
        <<fetched.status # "FullyFilled",    "FullyFilled">>,
        <<fetched.status # "Cancelled",      "Cancelled">>,
        <<fetched.status # "Expired",        "Expired">> >>
  OBVIOUS
<1>2. StateError(fetched) = FirstError(checks)
  BY <1>1 DEF StateError
<1>3. DOMAIN checks = 1 .. 5
  BY <1>1
<1>4. /\ \A i \in 1 .. 5 : checks[i][2] \in Errors
      /\ \A i \in 2 .. 5 : checks[i][2] # "InvalidSignature"
  BY <1>1 DEF Errors
<1>5. /\ checks[1][1] <=> fetched.is_signature_valid
      /\ checks[2][1] <=> fetched.status # "Invalid"
      /\ checks[3][1] <=> fetched.status # "FullyFilled"
      /\ checks[4][1] <=> fetched.status # "Cancelled"
      /\ checks[5][1] <=> fetched.status # "Expired"
  BY <1>1
<1>6. \/ FirstError(checks) = "none" /\ \A i \in 1 .. 5 : checks[i][1]
      \/ \E i \in 1 .. 5 : ~checks[i][1] /\ FirstError(checks) = checks[i][2]
  BY <1>3, FirstErrorFound
<1>7. "none" \notin Errors
  BY DEF Errors
<1>8. fetched.status \in {"Invalid", "Fillable", "FullyFilled", "Cancelled", "Expired"}
  BY DEF Statuses
<1> QED
  BY <1>2, <1>4, <1>5, <1>6, <1>7, <1>8

(* SignedOrder::validate passes the valid orders that their makers signed, *)
(* and no others.                                                          *)
LEMMA SignedOrderPasses ==
    ASSUME NEW signed
    PROVE  SignedOrderError(signed) = "none" <=>
              /\ OrderError(signed.order) = "none"
              /\ Recover(signed.signature, Hash(signed.order)) = signed.order.maker
<1>1. PICK checks : checks = <<
        <<OrderError(signed.order) = "none", OrderError(signed.order)>>,
        <<Recover(signed.signature, Hash(signed.order)) = signed.order.maker,
          "InvalidSignature">> >>
  OBVIOUS
<1>2. SignedOrderError(signed) = FirstError(checks)
  BY <1>1 DEF SignedOrderError
<1>3. DOMAIN checks = 1 .. 2
  BY <1>1
<1>4. /\ checks[1][1] <=> OrderError(signed.order) = "none"
      /\ checks[2][1] <=>
            Recover(signed.signature, Hash(signed.order)) = signed.order.maker
  BY <1>1
<1>5. /\ checks[1][2] = OrderError(signed.order)
      /\ checks[2][2] = "InvalidSignature"
  BY <1>1
<1>6. \/ FirstError(checks) = "none" /\ \A i \in 1 .. 2 : checks[i][1]
      \/ \E i \in 1 .. 2 : ~checks[i][1] /\ FirstError(checks) = checks[i][2]
  BY <1>3, FirstErrorFound
<1>7. \A i \in 1 .. 2 : ~checks[i][1] => checks[i][2] # "none"
  BY <1>4, <1>5
<1> QED
  BY <1>2, <1>4, <1>6, <1>7

-----------------------------------------------------------------------------
(* Numbers and their limbs.                                                *)

(* What so many limbs hold.                                                *)
LEMMA ValuesOf ==
    /\ LimbBase \in Nat \ {0, 1}
    /\ Values(0) = 1 /\ Values(1) = LimbBase
    /\ Values(2) = LimbBase * LimbBase
    /\ Values(3) = LimbBase * LimbBase * LimbBase
    /\ Values(4) = LimbBase * LimbBase * LimbBase * LimbBase
    /\ \A limbs \in 0 .. 4 : Values(limbs) \in Nat \ {0}
<1>1. LimbBase \in Nat \ {0, 1}
  BY CodecAssumption
<1>2. /\ Values(0) = 1 /\ Values(1) = LimbBase
      /\ Values(2) = LimbBase * LimbBase
      /\ Values(3) = LimbBase * LimbBase * LimbBase
      /\ Values(4) = LimbBase * LimbBase * LimbBase * LimbBase
  BY DEF Values
<1>3. \A limbs \in 0 .. 4 : Values(limbs) \in Nat \ {0}
  <2>1. \A m, n \in Nat \ {0} : m * n \in Nat \ {0}
    OBVIOUS
  <2> QED
    BY <1>1, <1>2, <2>1
<1> QED
  BY <1>1, <1>2, <1>3

(* What the limbs from each one on amount to.                              *)
AddUp(sum, limbs, width) ==
    /\ sum[width + 1] = 0
    /\ \A i \in 1 .. width : sum[i] = limbs[i] + LimbBase * sum[i + 1]

(* A fold over up to four limbs, the lowest first.                         *)
LEMMA FoldOfLimbs ==
    ASSUME NEW width \in 0 .. 4, NEW limbs, DOMAIN limbs = 1 .. width
    PROVE  \E sum : FromLimbs(limbs) = sum[1] /\ AddUp(sum, limbs, width)
<1> DEFINE W == 1 .. width
           Add(i, s, n) == IF i \in s THEN limbs[i] + LimbBase * n ELSE n
           Sum(s) == Add(1, s, Add(2, s, Add(3, s, Add(4, s, 0))))
           Rest(s) == s \ {Min(s)}
           IsSum(f) == f = [s \in SUBSET W |->
                          IF s = {} THEN 0 ELSE limbs[Min(s)] + LimbBase * f[s \ {Min(s)}]]
<1>1. ASSUME NEW s \in SUBSET W, s # {}
      PROVE  /\ Min(s) \in 1 .. 4 /\ Min(s) \in s
             /\ \A i \in s : Min(s) <= i
  <2>1. \E m \in s : \A k \in s : m <= k
    <3>1. s \in SUBSET Nat
      BY <1>1
    <3> QED
      BY <1>1, <3>1, SmallestElement
  <2>2. Min(s) \in s /\ \A k \in s : Min(s) <= k
    BY <2>1 DEF Min
  <2>3. Min(s) \in 1 .. width
    BY <2>2
  <2> QED
    BY <2>2, <2>3
<1>2. ASSUME NEW s \in SUBSET W, s # {}
      PROVE  Sum(s) = limbs[Min(s)] + LimbBase * Sum(s \ {Min(s)})
  <2>1. PICK m, t : m = Min(s) /\ t = s \ {m}
    OBVIOUS
  <2>2. /\ m \in 1 .. 4 /\ m \in s /\ m \notin t
        /\ \A i \in 1 .. 4 : i < m => i \notin s /\ i \notin t
        /\ \A i \in 1 .. 4 : m < i => (i \in s <=> i \in t)
    BY <1>1, <1>2, <2>1
  <2>3. /\ \A n : \A i \in 1 .. 4 : m < i => Add(i, s, n) = Add(i, t, n)
        /\ \A n : \A i \in 1 .. 4 : i < m => Add(i, s, n) = n /\ Add(i, t, n) = n
        /\ \A n : Add(m, s, n) = limbs[m] + LimbBase * n /\ Add(m, t, n) = n
    BY <2>2
  <2> HIDE DEF Add
  <2>4. m = 1 \/ m = 2 \/ m = 3 \/ m = 4
    BY <2>2
  <2>5. Sum(s) = limbs[m] + LimbBase * Sum(t)
    BY <2>3, <2>4
  <2> QED
    BY <2>1, <2>5
<1>3. Sum({}) = 0
  OBVIOUS
<1>4. IsSum([s \in SUBSET W |-> Sum(s)])
  <2> HIDE DEF Sum
  <2>1. \A s \in SUBSET W : s \ {Min(s)} \in SUBSET W
    OBVIOUS
  <2> QED
    BY <1>2, <1>3, <2>1
<1>5. PICK f : f = CHOOSE g : IsSum(g)
  OBVIOUS
<1>6. IsSum(f)
  BY <1>4, <1>5
<1>7. FromLimbs(limbs) = f[W]
  BY <1>5 DEF FromLimbs, FoldRight, MapThenFoldSet
<1>8. \A i \in W : f[i .. width] = limbs[i] + LimbBase * f[(i + 1) .. width]
  <2> SUFFICES ASSUME NEW i \in W
               PROVE  f[i .. width] = limbs[i] + LimbBase * f[(i + 1) .. width]
    OBVIOUS
  <2>1. PICK s : s = i .. width
    OBVIOUS
  <2>2. s \in SUBSET W /\ s # {} /\ i \in s /\ \A k \in s : i <= k
    <3>1. i \in 1 .. width /\ width \in Nat
      OBVIOUS
    <3>2. \A k \in s : k \in Int /\ i <= k /\ k <= width
      BY <2>1, <3>1
    <3>3. i \in s /\ \A k \in s : k \in 1 .. width
      BY <2>1, <3>1, <3>2
    <3> QED
      BY <3>2, <3>3
  <2>3. Min(s) = i
    BY <1>1, <2>2
  <2>4. s \ {i} = (i + 1) .. width
    BY <2>1
  <2>5. f[s] = limbs[Min(s)] + LimbBase * f[s \ {Min(s)}]
    BY <1>6, <2>2
  <2> QED
    BY <2>1, <2>3, <2>4, <2>5
<1>9. f[(width + 1) .. width] = 0
  <2>1. (width + 1) .. width = {}
    OBVIOUS
  <2> QED
    BY <1>6, <2>1
<1>10. PICK sum : sum = [i \in 1 .. width + 1 |-> f[i .. width]]
  OBVIOUS
<1>11. /\ FromLimbs(limbs) = sum[1] /\ sum[width + 1] = 0
       /\ \A i \in W : sum[i] = limbs[i] + LimbBase * sum[i + 1]
  BY <1>7, <1>8, <1>9, <1>10
<1> QED
  BY <1>11 DEF AddUp

(* Dividing by so many limbs and one more.                                 *)
LEMMA NextLimb ==
    ASSUME NEW n \in Nat, NEW i \in 1 .. 4
    PROVE  n \div Values(i - 1) = ((n \div Values(i - 1)) % LimbBase)
                                      + LimbBase * (n \div Values(i))
<1>1. \A m \in Nat, b \in Nat \ {0} : m = (m % b) + b * (m \div b)
  OBVIOUS
<1>2. \A m \in Nat, b, c \in Nat \ {0} : m \div (b * c) = (m \div b) \div c
  OBVIOUS
<1>3. \A m \in Nat, b \in Nat \ {0} : m \div b \in Nat
  OBVIOUS
<1>4. PICK v, b : v = Values(i - 1) /\ b = LimbBase
  OBVIOUS
<1>5. v \in Nat \ {0} /\ b \in Nat \ {0} /\ Values(i) = v * b
  <2>1. i - 1 \in 0 .. 4
    OBVIOUS
  <2>2. v \in Nat \ {0} /\ b \in Nat \ {0}
    BY <1>4, <2>1, ValuesOf
  <2>3. CASE i = 1
    BY <1>4, <2>2, <2>3, ValuesOf
  <2>4. CASE i = 2
    BY <1>4, <2>2, <2>4, ValuesOf
  <2>5. CASE i = 3
    BY <1>4, <2>2, <2>5, ValuesOf
  <2>6. CASE i = 4
    BY <1>4, <2>2, <2>6, ValuesOf
  <2> QED
    BY <2>2, <2>3, <2>4, <2>5, <2>6
<1>6. PICK q : q = n \div v
  OBVIOUS
<1>7. q \in Nat /\ n \div Values(i) = q \div b
  <2>1. q \in Nat
    BY <1>3, <1>5, <1>6
  <2>2. n \div (v * b) = (n \div v) \div b
    BY <1>2, <1>5
  <2> QED
    BY <1>5, <1>6, <2>1, <2>2
<1>8. q = (q % b) + b * (q \div b)
  BY <1>1, <1>5, <1>7
<1> QED
  BY <1>4, <1>6, <1>7, <1>8

(* A number that fits its limbs is given back by them.                     *)
LEMMA LimbsGiveBack ==
    ASSUME NEW width \in 1 .. 4, NEW n \in 0 .. Values(width) - 1
    PROVE  FromLimbs(IntoLimbs(n, width)) = n
<1>1. PICK limbs : limbs = IntoLimbs(n, width)
  OBVIOUS
<1>2. /\ DOMAIN limbs = 1 .. width
      /\ \A i \in 1 .. width : limbs[i] = (n \div Values(i - 1)) % LimbBase
  BY <1>1 DEF IntoLimbs
<1>3. PICK sum : FromLimbs(limbs) = sum[1] /\ AddUp(sum, limbs, width)
  <2>1. width \in 0 .. 4
    OBVIOUS
  <2> QED
    BY <1>2, <2>1, FoldOfLimbs
<1>4. n \in Nat /\ n \div Values(0) = n /\ n \div Values(width) = 0
  <2>1. Values(width) \in Nat \ {0} /\ Values(0) = 1
    BY ValuesOf
  <2>2. n \in Nat /\ n < Values(width)
    BY <2>1
  <2>3. \A v \in Nat \ {0} : n < v => n \div v = 0
    BY <2>2
  <2> QED
    BY <2>1, <2>2, <2>3
<1>5. \A i \in 1 .. width : sum[i + 1] = n \div Values(i) => sum[i] = n \div Values(i - 1)
  <2> SUFFICES ASSUME NEW i \in 1 .. width, sum[i + 1] = n \div Values(i)
               PROVE  sum[i] = n \div Values(i - 1)
    OBVIOUS
  <2>1. i \in 1 .. 4
    OBVIOUS
  <2>2. n \div Values(i - 1) = ((n \div Values(i - 1)) % LimbBase)
                                   + LimbBase * (n \div Values(i))
    BY <1>4, <2>1, NextLimb
  <2>3. sum[i] = limbs[i] + LimbBase * sum[i + 1]
    BY <1>3 DEF AddUp
  <2> QED
    BY <1>2, <2>2, <2>3
<1>6. sum[width + 1] = 0
  BY <1>3 DEF AddUp
<1>7. sum[1] = n \div Values(0)
  <2>1. CASE width = 1
    BY <1>4, <1>5, <1>6, <2>1
  <2>2. CASE width = 2
    BY <1>4, <1>5, <1>6, <2>2
  <2>3. CASE width = 3
    BY <1>4, <1>5, <1>6, <2>3
  <2>4. CASE width = 4
    BY <1>4, <1>5, <1>6, <2>4
  <2> QED
    BY <2>1, <2>2, <2>3, <2>4
<1> QED
  BY <1>1, <1>3, <1>4, <1>7

-----------------------------------------------------------------------------
(* An order in its forms.                                                  *)

(* A document that can be read is an order whose numbers fit their widths, *)
(* in whichever radix they were written.                                   *)
LEMMA ReadAs ==
    ASSUME NEW o \in Readable
    PROVE  LET order == SignedOrder[o].order
               signature == SignedOrder[o].signature
           IN  /\ order = [f \in LimitOrder |-> order[f]]
               /\ \A f \in DecimalFields : order[f] \in 0 .. Values(Width(f)) - 1
               /\ signature = [signature_type |-> signature.signature_type,
                               v |-> signature.v, r |-> signature.r, s |-> signature.s]
               /\ signature.signature_type \in {"EIP712", "EthSign"}
<1>1. SignedOrder[o] = Deserialize(Document[o]) /\ Deserializes(Document[o])
  BY DEF SignedOrder, Readable
<1>2. PICK order, signature :
        /\ order = [f \in LimitOrder |->
               IF f \in DecimalFields THEN Document[o][f].value ELSE Document[o][f]]
        /\ signature =
               [signature_type |-> SignatureOf(Document[o].signature.type),
                v |-> Document[o].signature.v, r |-> Document[o].signature.r,
                s |-> Document[o].signature.s]
  OBVIOUS
<1>3. SignedOrder[o].order = order /\ SignedOrder[o].signature = signature
  BY <1>1, <1>2 DEF Deserialize
<1>4. order = [f \in LimitOrder |-> order[f]]
  BY <1>2
<1>5. \A f \in DecimalFields : f \in LimitOrder /\ order[f] = Document[o][f].value
  BY <1>2 DEF DecimalFields, LimitOrder
<1>6. \A f \in DecimalFields : order[f] \in 0 .. Values(Width(f)) - 1
  BY <1>1, <1>5 DEF Deserializes, IsNumber
<1>7. /\ signature = [signature_type |-> signature.signature_type,
                      v |-> signature.v, r |-> signature.r, s |-> signature.s]
      /\ signature.signature_type \in {"EIP712", "EthSign"}
  BY <1>2 DEF SignatureOf
<1> QED
  BY <1>3, <1>4, <1>6, <1>7

(* The contract takes the arguments for what they were.                    *)
LEMMA AbiRoundTrip ==
    ASSUME NEW signed,
           signed.order = [f \in LimitOrder |-> signed.order[f]],
           signed.order.chain_id = ChainId,
           signed.order.verifying_contract = Exchange
    PROVE  AbiDecode(IntoTokens(signed).order) = signed.order
<1>1. PICK order : order = signed.order
  OBVIOUS
<1>2. PICK tokens : tokens = IntoTokens(signed).order
  OBVIOUS
<1>3. tokens =
         <<order.maker_token, order.taker_token, order.maker_amount,
           order.taker_amount, order.taker_token_fee_amount, order.maker,
           order.taker, order.sender, order.fee_recipient, order.pool,
           order.expiry, order.salt>>
  BY <1>1, <1>2 DEF IntoTokens
<1>4. \A i \in 1 .. 12 : tokens[i] = order[AbiOrder[i]]
  BY <1>3 DEF AbiOrder
<1>5. DOMAIN AbiOrder = 1 .. 12
  BY DEF AbiOrder
<1>6. \A f \in LimitOrder \ {"chain_id", "verifying_contract"} :
         \E i \in 1 .. 12 : AbiOrder[i] = f
  BY DEF AbiOrder, LimitOrder, AddressFields, U128Fields
<1>7. ASSUME NEW f \in LimitOrder \ {"chain_id", "verifying_contract"}
      PROVE  tokens[CHOOSE i \in DOMAIN AbiOrder : AbiOrder[i] = f] = order[f]
  BY <1>4, <1>5, <1>6
<1>8. AbiDecode(tokens) = [f \in LimitOrder |-> order[f]]
  BY <1>1, <1>7 DEF AbiDecode
<1> QED
  BY <1>1, <1>2, <1>8

(* The contract's verdict is about the order that was sent: the arguments  *)
(* arrive at their positions, the hash is of that order, and the signature *)
(* is valid if it is its maker's and has a v that the EVM takes.           *)
LEMMA ContractReads ==
    ASSUME NEW o \in Readable, NEW report \in Reports,
           OrderError(SignedOrder[o].order) = "none"
    PROVE  LET order == SignedOrder[o].order
               fetched == FetchState[o][report]
           IN  /\ fetched.hash = Hash(order)
               /\ fetched.fillable = report.fillable
               /\ fetched.status = Statuses[report.status + 1]
               /\ fetched.status \in {Statuses[k] : k \in 1 .. 5}
               /\ fetched.status = "Fillable" => report.status = 1
               /\ fetched.is_signature_valid <=>
                     /\ SignedOrder[o].signature.v \in {27, 28}
                     /\ Recover(SignedOrder[o].signature, Hash(order)) = order.maker
<1>1. PICK signed : signed = SignedOrder[o]
  OBVIOUS
<1>2. AbiDecode(IntoTokens(signed).order) = signed.order
  BY <1>1, ReadAs, OrderErrors, AbiRoundTrip
<1>3. PICK tokens : tokens = IntoTokens(signed)
  OBVIOUS
<1>4. PICK s : s = signed.signature
  OBVIOUS
<1>5. tokens.signature = <<SignatureCode(s.signature_type), s.v, s.r, s.s>>
  BY <1>3, <1>4 DEF IntoTokens
<1>6. /\ s = [signature_type |-> s.signature_type, v |-> s.v, r |-> s.r, s |-> s.s]
      /\ s.signature_type \in {"EIP712", "EthSign"}
  BY <1>1, <1>4, ReadAs
<1>7. SignatureOf(tokens.signature[1]) = s.signature_type
  BY <1>5, <1>6 DEF SignatureOf, SignatureCode
<1>8. PICK output : output = RelevantState(tokens, report)
  OBVIOUS
<1>9. /\ output[1] = [hash |-> Hash(signed.order), status |-> report.status]
      /\ output[2] = report.fillable
      /\ output[3] <=>
            s.v \in {27, 28} /\ Recover(s, Hash(signed.order)) = signed.order.maker
  <2>1. PICK signature : signature =
           [signature_type |-> SignatureOf(tokens.signature[1]),
            v |-> tokens.signature[2], r |-> tokens.signature[3],
            s |-> tokens.signature[4]]
    OBVIOUS
  <2>2. signature = s
    BY <1>5, <1>6, <1>7, <2>1
  <2>3. output =
          <<[hash |-> Hash(signed.order), status |-> report.status], report.fillable,
            tokens.signature[2] \in {27, 28}
              /\ Recover(signature, Hash(signed.order)) = signed.order.maker>>
    BY <1>2, <1>3, <1>8, <2>1 DEF RelevantState
  <2>4. tokens.signature[2] = s.v
    BY <1>5
  <2> QED
    BY <2>2, <2>3, <2>4
<1>10. FetchState[o][report] = FromTokens(output)
  BY <1>1, <1>3, <1>8 DEF FetchState
<1>11. PICK fetched : fetched = FetchState[o][report]
  OBVIOUS
<1>12. /\ fetched.hash = Hash(signed.order)
       /\ fetched.fillable = report.fillable
       /\ fetched.status = Statuses[report.status + 1]
       /\ fetched.is_signature_valid <=>
             s.v \in {27, 28} /\ Recover(s, Hash(signed.order)) = signed.order.maker
  BY <1>9, <1>10, <1>11 DEF FromTokens
<1>13. report.status \in 0 .. 4
  BY ApiAssumption
<1>14. report.status + 1 \in 1 .. 5
  BY <1>13
<1>15. Statuses[report.status + 1] = "Fillable" => report.status = 1
  BY <1>13 DEF Statuses
<1> QED
  BY <1>1, <1>4, <1>11, <1>12, <1>14, <1>15

-----------------------------------------------------------------------------
(* The rows: what insert_order writes, get_orders reads.                   *)

(* An order that was sent, whose own checks pass and whose signature is    *)
(* its maker's.                                                            *)
Genuine(o) ==
    /\ o \in Readable
    /\ OrderError(SignedOrder[o].order) = "none"
    /\ Recover(SignedOrder[o].signature, Hash(SignedOrder[o].order))
          = SignedOrder[o].order.maker

(* The contract has reason to refuse its signature.                        *)
Dubious(o) ==
    \/ SignedOrder[o].signature.v \notin {27, 28}
    \/ Recover(SignedOrder[o].signature, Hash(SignedOrder[o].order))
          # SignedOrder[o].order.maker

(* Its row and its event, with n remaining.                                *)
RecordOf(o, n) ==
    [signed_order |-> SignedOrder[o],
     metadata |-> [hash |-> Hash(SignedOrder[o].order), remaining |-> n,
                   status |-> "Added", created_at |-> [micros |-> 1, nanos |-> 1]]]

RowOf(o, n)   == IntoRow(RecordOf(o, n))
EventOf(o, n) == IntoProto(RecordOf(o, n))

(* What From<SignedOrderState> writes into each column.                    *)
LEMMA RowColumns ==
    ASSUME NEW o, NEW n
    PROVE  LET row == RowOf(o, n)
               order == SignedOrder[o].order
               s == SignedOrder[o].signature
           IN  /\ \A c \in DecimalFields : row[c] = Decimal(order[c])
               /\ \A c \in AddressFields \cup {"pool"} : row[c] = Hexadecimal(order[c])
               /\ row["hash"] = Hexadecimal(Hash(order))
               /\ row["remaining"] = Decimal(n)
               /\ row["signature"] =
                     <<Decimal(SignatureCode(s.signature_type)), Hexadecimal(s.r),
                       Hexadecimal(s.s), Decimal(s.v)>>
               /\ row["invalid_since"] = "NULL"
               /\ row["created_at"] = 1
<1>1. PICK order, s, m :
         /\ order = SignedOrder[o].order /\ s = SignedOrder[o].signature
         /\ m = [hash |-> Hash(SignedOrder[o].order), remaining |-> n,
                 status |-> "Added", created_at |-> [micros |-> 1, nanos |-> 1]]
  OBVIOUS
<1>2. PICK row : row = RowOf(o, n)
  OBVIOUS
<1>3. row = [c \in (LimitOrder \ {"chain_id"}) \cup
               {"hash", "signature", "remaining", "created_at", "invalid_since"} |->
          CASE c = "hash" -> Hexadecimal(m.hash)
            [] c = "signature" ->
                 <<Decimal(SignatureCode(s.signature_type)), Hexadecimal(s.r),
                   Hexadecimal(s.s), Decimal(s.v)>>
            [] c = "remaining" -> Decimal(m.remaining)
            [] c = "created_at" -> m.created_at.micros
            [] c = "invalid_since" -> "NULL"
            [] c \in DecimalFields -> Decimal(order[c])
            [] OTHER -> Hexadecimal(order[c])]
  BY <1>1, <1>2 DEF RowOf, RecordOf, IntoRow
<1>4. \A c \in DecimalFields : row[c] = Decimal(order[c])
  BY <1>3 DEF DecimalFields, U128Fields, LimitOrder
<1>5. \A c \in AddressFields \cup {"pool"} : row[c] = Hexadecimal(order[c])
  BY <1>3 DEF AddressFields, DecimalFields, U128Fields, LimitOrder
<1>6. /\ row["hash"] = Hexadecimal(m.hash)
      /\ row["remaining"] = Decimal(m.remaining)
      /\ row["signature"] =
            <<Decimal(SignatureCode(s.signature_type)), Hexadecimal(s.r),
              Hexadecimal(s.s), Decimal(s.v)>>
      /\ row["invalid_since"] = "NULL"
      /\ row["created_at"] = m.created_at.micros
  BY <1>3 DEF DecimalFields, U128Fields
<1> QED
  BY <1>1, <1>2, <1>4, <1>5, <1>6

(* A loaded column goes by the name it was written under.                  *)
LEMMA NamedColumn ==
    ASSUME NEW row, NEW name,
           name \in DecimalFields \cup AddressFields
                       \cup {"pool", "hash", "signature", "remaining",
                             "created_at", "invalid_since"}
    PROVE  Named(Load(row), name) = row[name]
<1>1. DOMAIN Columns = 1 .. 18 /\ DOMAIN Pattern = 1 .. 18
  BY DEF Columns, Pattern
<1>2. \A i \in 1 .. 18 : Columns[i] = Pattern[i]
  BY DEF Columns, Pattern
<1>3. \E i \in 1 .. 18 : Pattern[i] = name
  BY DEF Pattern, DecimalFields, U128Fields, AddressFields
<1>4. PICK i : i = CHOOSE k \in DOMAIN Pattern : Pattern[k] = name
  OBVIOUS
<1>5. i \in 1 .. 18 /\ Pattern[i] = name
  BY <1>1, <1>3, <1>4
<1>6. Load(row)[i] = row[Columns[i]]
  BY <1>1, <1>5 DEF Load
<1> QED
  BY <1>2, <1>4, <1>5, <1>6 DEF Named

(* Queryable reads every column of such a row under its own name, and gets *)
(* the order and the signature back.                                       *)
LEMMA RowReadBack ==
    ASSUME NEW o, Genuine(o), NEW n \in Nat, n < Values(2)
    PROVE  LET tuple == Load(RowOf(o, n))
           IN  /\ IsReadBack(RowOf(o, n))
               /\ Build(tuple).metadata.hash = Hash(SignedOrder[o].order)
               /\ Build(tuple).signed_order = SignedOrder[o]
<1>1. PICK row, tuple : row = RowOf(o, n) /\ tuple = Load(RowOf(o, n))
  OBVIOUS
<1>2. PICK order, s : order = SignedOrder[o].order /\ s = SignedOrder[o].signature
  OBVIOUS
<1>3. /\ order = [f \in LimitOrder |-> order[f]]
      /\ \A f \in DecimalFields : order[f] \in 0 .. Values(Width(f)) - 1
      /\ s = [signature_type |-> s.signature_type, v |-> s.v, r |-> s.r, s |-> s.s]
      /\ s.signature_type \in {"EIP712", "EthSign"}
      /\ SignedOrder[o] = [order |-> order, signature |-> s]
  <2>1. SignedOrder[o] = Deserialize(Document[o])
    BY DEF Genuine, SignedOrder
  <2> QED
    BY <1>2, <2>1, ReadAs DEF Genuine, Deserialize
<1>4. /\ OrderError(order) = "none" /\ order.chain_id = ChainId
      /\ Recover(s, Hash(order)) = order.maker
  BY <1>2, OrderErrors DEF Genuine
<1>5. /\ \A f \in DecimalFields : Named(tuple, f) = Decimal(order[f])
      /\ \A f \in AddressFields \cup {"pool"} : Named(tuple, f) = Hexadecimal(order[f])
      /\ Named(tuple, "hash") = Hexadecimal(Hash(order))
      /\ Named(tuple, "remaining") = Decimal(n)
      /\ Named(tuple, "signature") =
            <<Decimal(SignatureCode(s.signature_type)), Hexadecimal(s.r),
              Hexadecimal(s.s), Decimal(s.v)>>
  <2>1. /\ \A c \in DecimalFields : row[c] = Decimal(order[c])
        /\ \A c \in AddressFields \cup {"pool"} : row[c] = Hexadecimal(order[c])
        /\ row["hash"] = Hexadecimal(Hash(order))
        /\ row["remaining"] = Decimal(n)
        /\ row["signature"] =
              <<Decimal(SignatureCode(s.signature_type)), Hexadecimal(s.r),
                Hexadecimal(s.s), Decimal(s.v)>>
    BY <1>1, <1>2, RowColumns
  <2>2. \A c \in DecimalFields \cup AddressFields
                  \cup {"pool", "hash", "signature", "remaining"} :
           Named(tuple, c) = row[c]
    BY <1>1, NamedColumn
  <2> QED
    BY <2>1, <2>2
<1>6. SignatureCode(s.signature_type) \in {2, 3}
      /\ SignatureOf(SignatureCode(s.signature_type)) = s.signature_type
  BY <1>3 DEF SignatureCode, SignatureOf
<1>7. Builds(tuple)
  <2>1. \A f \in DecimalFields :
           Named(tuple, f).radix = "dec" /\ IsNumber(Named(tuple, f), Width(f))
    BY <1>3, <1>5 DEF Decimal, IsNumber
  <2>2. \A f \in AddressFields \cup {"hash", "pool"} : Named(tuple, f).radix = "hex"
    BY <1>5 DEF Hexadecimal
  <2>3. IsNumber(Named(tuple, "remaining"), 2)
    BY <1>5, ValuesOf DEF Decimal, IsNumber
  <2>4. /\ Len(Named(tuple, "signature")) = 4
        /\ Named(tuple, "signature")[1].value \in {2, 3}
    BY <1>5, <1>6 DEF Decimal
  <2> QED
    BY <2>1, <2>2, <2>3, <2>4 DEF Builds
<1>8. PICK built : built = Build(tuple)
  OBVIOUS
<1>9. built.metadata.hash = Hash(order)
  BY <1>5, <1>8 DEF Build, Hexadecimal
<1>10. built.signed_order.order = order
  <2>1. \A f \in LimitOrder :
           (IF f = "chain_id" THEN ChainId ELSE Named(tuple, f).value) = order[f]
    <3>1. \A f \in LimitOrder : \/ f = "chain_id" \/ f \in DecimalFields
                                \/ f \in AddressFields \cup {"pool"}
      BY DEF LimitOrder, DecimalFields
    <3> QED
      BY <1>4, <1>5, <3>1 DEF Decimal, Hexadecimal
  <2>2. built.signed_order.order =
           [f \in LimitOrder |->
               IF f = "chain_id" THEN ChainId ELSE Named(tuple, f).value]
    BY <1>8 DEF Build
  <2> QED
    BY <1>3, <2>1, <2>2
<1>11. built.signed_order.signature = s
  <2>1. PICK t : t = Named(tuple, "signature")
    OBVIOUS
  <2>2. built.signed_order.signature =
           [signature_type |-> SignatureOf(t[1].value), v |-> t[4].value,
            r |-> t[2].value, s |-> t[3].value]
    BY <1>8, <2>1 DEF Build
  <2>3. /\ t[1].value = SignatureCode(s.signature_type) /\ t[2].value = s.r
        /\ t[3].value = s.s /\ t[4].value = s.v
    BY <1>5, <2>1 DEF Decimal, Hexadecimal
  <2> QED
    BY <1>3, <1>6, <2>2, <2>3
<1>12. built.signed_order = SignedOrder[o]
  <2>1. built.signed_order = [order |-> built.signed_order.order,
                              signature |-> built.signed_order.signature]
    BY <1>8 DEF Build
  <2> QED
    BY <1>3, <1>10, <1>11, <2>1
<1>13. SignedOrderError(built.signed_order) = "none"
  BY <1>4, <1>10, <1>11, SignedOrderPasses
<1>14. IsReadBack(row)
  BY <1>1, <1>7, <1>8, <1>9, <1>10, <1>13 DEF IsReadBack
<1> QED
  BY <1>1, <1>2, <1>8, <1>9, <1>12, <1>14

(* On a conflict the row keeps everything but what remains.                *)
LEMMA RowUpsert ==
    ASSUME NEW o, NEW p, NEW n, NEW k
    PROVE  [RowOf(o, n) EXCEPT !["remaining"] = RowOf(p, k)["remaining"]] = RowOf(o, k)
<1>1. PICK cols : cols = (LimitOrder \ {"chain_id"}) \cup
               {"hash", "signature", "remaining", "created_at", "invalid_since"}
  OBVIOUS
<1>2. ASSUME NEW m
      PROVE  RowOf(o, m) = [c \in cols |-> RowOf(o, m)[c]]
  BY <1>1 DEF RowOf, RecordOf, IntoRow
<1>3. ASSUME NEW c \in cols, c # "remaining"
      PROVE  RowOf(o, n)[c] = RowOf(o, k)[c]
  BY <1>1, <1>3 DEF RowOf, RecordOf, IntoRow
<1>4. RowOf(p, k)["remaining"] = RowOf(o, k)["remaining"]
  BY RowColumns
<1>5. "remaining" \in cols
  BY <1>1
<1>6. RowOf(o, n) = [c \in cols |-> RowOf(o, n)[c]]
  BY <1>2
<1>7. RowOf(o, k) = [c \in cols |-> RowOf(o, k)[c]]
  BY <1>2
<1>8. PICK a, b : a = RowOf(o, n) /\ b = RowOf(o, k)
  OBVIOUS
<1>9. [a EXCEPT !["remaining"] = b["remaining"]] = b
  BY <1>3, <1>5, <1>6, <1>7, <1>8
<1> QED
  BY <1>4, <1>8, <1>9

(* from_proto gives back from such an event the order, its signature, its  *)
(* hash and what remains of it.                                            *)
LEMMA EventReadBack ==
    ASSUME NEW o, Genuine(o), NEW n \in 0 .. Values(2) - 1
    PROVE  LET record == FromProto(EventOf(o, n))
           IN  /\ record.signed_order = SignedOrder[o]
               /\ record.metadata.hash = Hash(SignedOrder[o].order)
               /\ record.metadata.remaining = n
<1>1. PICK order, s : order = SignedOrder[o].order /\ s = SignedOrder[o].signature
  OBVIOUS
<1>2. /\ order = [f \in LimitOrder |-> order[f]]
      /\ \A f \in DecimalFields : order[f] \in 0 .. Values(Width(f)) - 1
      /\ s = [signature_type |-> s.signature_type, v |-> s.v, r |-> s.r, s |-> s.s]
      /\ s.signature_type \in {"EIP712", "EthSign"}
      /\ SignedOrder[o] = [order |-> order, signature |-> s]
  <2>1. SignedOrder[o] = Deserialize(Document[o])
    BY DEF Genuine, SignedOrder
  <2> QED
    BY <1>1, <2>1, ReadAs DEF Genuine, Deserialize
<1>3. PICK fields, signature, metadata :
        /\ fields = [f \in LimitOrder |->
               CASE f \in {"expiry", "chain_id"} -> order[f]
                 [] f \in U128Fields \cup {"salt"} -> Some(IntoLimbs(order[f], Width(f)))
                 [] OTHER -> Some(order[f])]
        /\ signature =
               [type |-> EnumNumber(SignatureTypeProto, s.signature_type),
                v |-> s.v, r |-> Some(s.r), s |-> Some(s.s)]
        /\ metadata =
               [hash |-> Some(Hash(order)), remaining |-> Some(IntoLimbs(n, 2)),
                order_status |-> EnumNumber(OrderStatusProto, "Added"),
                created_at |-> Some([micros |-> 1, nanos |-> 1])]
  OBVIOUS
<1>4. EventOf(o, n) = [limit_order |-> Some(fields), signature |-> Some(signature),
                       metadata |-> Some(metadata)]
  BY <1>1, <1>3 DEF EventOf, RecordOf, IntoProto
<1>5. \A x : Unwrap(Some(x)) = x
  BY DEF Unwrap, Some
<1>6. PICK record : record = FromProto(EventOf(o, n))
  OBVIOUS
<1>7. /\ record.signed_order.order = [f \in LimitOrder |->
               CASE f \in {"expiry", "chain_id"} -> fields[f]
                 [] f \in U128Fields \cup {"salt"} -> FromLimbs(Unwrap(fields[f]))
                 [] OTHER -> Unwrap(fields[f])]
      /\ record.signed_order.signature =
               [signature_type |-> SignatureTypeProto[signature.type + 1],
                v |-> signature.v, r |-> Unwrap(signature.r), s |-> Unwrap(signature.s)]
      /\ record.signed_order = [order |-> record.signed_order.order,
                                signature |-> record.signed_order.signature]
      /\ record.metadata.hash = Unwrap(metadata.hash)
      /\ record.metadata.remaining = FromLimbs(Unwrap(metadata.remaining))
  <2>1. /\ Unwrap(EventOf(o, n).limit_order) = fields
        /\ Unwrap(EventOf(o, n).signature) = signature
        /\ Unwrap(EventOf(o, n).metadata) = metadata
    BY <1>4, <1>5
  <2> QED
    BY <1>6, <2>1 DEF FromProto
<1>8. ASSUME NEW f \in U128Fields \cup {"salt"}
      PROVE  FromLimbs(IntoLimbs(order[f], Width(f))) = order[f]
  <2>1. f \in DecimalFields /\ Width(f) \in 1 .. 4
    BY DEF DecimalFields, Width
  <2> QED
    BY <1>2, <2>1, LimbsGiveBack
<1>9. record.signed_order.order = order
  <2>1. ASSUME NEW f \in LimitOrder, f \in {"expiry", "chain_id"}
        PROVE  record.signed_order.order[f] = order[f]
    <3>1. f \notin U128Fields \cup {"salt"}
      BY <2>1 DEF U128Fields
    <3>2. fields[f] = order[f]
      BY <1>3, <2>1, <3>1
    <3>3. record.signed_order.order[f] = fields[f]
      BY <1>7, <2>1, <3>1
    <3> QED
      BY <3>2, <3>3
  <2>2. ASSUME NEW f \in LimitOrder, f \in U128Fields \cup {"salt"}
        PROVE  record.signed_order.order[f] = order[f]
    <3>1. f \notin {"expiry", "chain_id"}
      BY <2>2 DEF U128Fields
    <3>2. fields[f] = Some(IntoLimbs(order[f], Width(f)))
      BY <1>3, <2>2, <3>1
    <3>3. record.signed_order.order[f] = FromLimbs(Unwrap(fields[f]))
      BY <1>7, <2>2, <3>1
    <3> QED
      BY <1>5, <1>8, <2>2, <3>2, <3>3
  <2>3. ASSUME NEW f \in LimitOrder, f \notin {"expiry", "chain_id"},
               f \notin U128Fields \cup {"salt"}
        PROVE  record.signed_order.order[f] = order[f]
    <3>1. fields[f] = Some(order[f])
      BY <1>3, <2>3
    <3>2. record.signed_order.order[f] = Unwrap(fields[f])
      BY <1>7, <2>3
    <3> QED
      BY <1>5, <3>1, <3>2
  <2>4. record.signed_order.order = [f \in LimitOrder |-> record.signed_order.order[f]]
    BY <1>7
  <2> QED
    BY <1>2, <2>1, <2>2, <2>3, <2>4
<1>10. record.signed_order.signature = s
  <2>1. SignatureTypeProto[signature.type + 1] = s.signature_type
    <3>1. DOMAIN SignatureTypeProto = 1 .. 2
          /\ SignatureTypeProto[1] = "EIP712" /\ SignatureTypeProto[2] = "EthSign"
      BY DEF SignatureTypeProto
    <3>2. PICK k : k = CHOOSE i \in DOMAIN SignatureTypeProto :
                              SignatureTypeProto[i] = s.signature_type
      OBVIOUS
    <3>3. k \in 1 .. 2 /\ SignatureTypeProto[k] = s.signature_type
      BY <1>2, <3>1, <3>2
    <3>4. signature.type = k - 1
      BY <1>3, <3>2 DEF EnumNumber
    <3> QED
      BY <3>3, <3>4
  <2>2. signature.v = s.v /\ signature.r = Some(s.r) /\ signature.s = Some(s.s)
    BY <1>3
  <2> QED
    BY <1>2, <1>5, <1>7, <2>1, <2>2
<1>11. record.metadata.hash = Hash(order) /\ record.metadata.remaining = n
  <2>1. FromLimbs(IntoLimbs(n, 2)) = n
    <3>1. 2 \in 1 .. 4
      OBVIOUS
    <3> QED
      BY <3>1, LimbsGiveBack
  <2>2. metadata.hash = Some(Hash(order)) /\ metadata.remaining = Some(IntoLimbs(n, 2))
    BY <1>3
  <2> QED
    BY <1>5, <1>7, <2>1, <2>2
<1> QED
  BY <1>1, <1>2, <1>6, <1>7, <1>9, <1>10, <1>11

-----------------------------------------------------------------------------
(* The inductive invariant.                                                *)

Shape ==
    /\ phase \in [Requests -> {"idle", "serving", "answered", "dropped"}]
    /\ input \in [Requests -> Inputs]
    /\ stage \in [Requests -> Seq(Stages)]
    /\ state = [r \in Requests |-> state[r]]
    /\ \A r \in Requests : state[r] = [i \in DOMAIN stage[r] |-> state[r][i]]
    /\ answer = [r \in Requests |-> answer[r]]

(* Nothing happens before a request is received, nor after its answer.     *)
PhaseInv ==
    \A r \in Requests :
        /\ phase[r] = "idle" => stage[r] = <<>>
        /\ phase[r] = "answered" => \A i \in DOMAIN stage[r] : Done(r, i)
        /\ (answer[r] = Pending) = (phase[r] # "answered")

(* The buffer reaches from the first order that is not done to CONCURRENT  *)
(* orders further.                                                         *)
BufferInv ==
    \A r \in Requests : \A i \in DOMAIN stage[r] :
        stage[r][i] \in Running => i <= Yielded(r) + Concurrent

(* What is known of an order by the stage it has reached.                  *)
OrderInv(r, i) ==
    LET o == input[r].orders[i]
        s == stage[r][i]
    IN  /\ o \in Readable
        /\ s \in Running \cup {"accepted"} => OrderError(SignedOrder[o].order) = "none"
        /\ s \in {"insert", "announce", "accepted"} =>
              /\ Genuine(o)
              /\ state[r][i].hash = Hash(SignedOrder[o].order)
              /\ [status |-> 1, fillable |-> state[r][i].fillable] \in Reports
        /\ s \in {"announce", "accepted"} => state[r][i].hash \in DOMAIN stored
        /\ s = "accepted" => IntoProto(Record(r, i)) \in announced
        /\ s = "InvalidSignature" => Dubious(o)

OrdersInv == \A r \in Requests : \A i \in DOMAIN stage[r] : OrderInv(r, i)

(* Every row is that of a genuine order.                                   *)
RowsInv ==
    \A h \in DOMAIN stored :
        \E o \in Readable, report \in Reports :
            /\ Genuine(o) /\ h = Hash(SignedOrder[o].order)
            /\ stored[h] = RowOf(o, report.fillable)

(* And every event is one of a genuine order that has a row.               *)
EventsInv ==
    \A event \in announced :
        \E o \in Readable, report \in Reports :
            /\ Genuine(o) /\ report.status = 1
            /\ Hash(SignedOrder[o].order) \in DOMAIN stored
            /\ event = EventOf(o, report.fillable)

(* A response about orders is what App::orders made of their results.      *)
AnswerInv ==
    \A r \in Requests : answer[r].error \in {"ok", "OrderInvalid"} => answer[r] = Outcome(r)

IInv == Shape /\ PhaseInv /\ BufferInv /\ OrdersInv /\ RowsInv /\ EventsInv /\ AnswerInv

-----------------------------------------------------------------------------
(* A step of an order.                                                     *)

(* Order i of r, which is not done, comes to stage s, and enters the       *)
(* buffer only when there is room.                                         *)
Moved(r, i, s) ==
    /\ phase[r] \in {"serving", "dropped"} /\ i \in DOMAIN stage[r]
    /\ ~Done(r, i)
    /\ s \in Running /\ stage[r][i] = "waiting" => MayStart(r, i)
    /\ Move(r, i, s)
    /\ UNCHANGED <<phase, input, answer>>

(* The names of the stages of an order are distinct.                       *)
LEMMA StageNames ==
    /\ Results \cap Running = {} /\ "waiting" \notin Results \cup Running
    /\ "none" \notin Stages
    /\ Errors \subseteq Results /\ "internal" \in Results /\ "accepted" \in Results
    /\ Errors \cap {"accepted", "internal"} = {}
    /\ {"fetch", "insert", "announce"} = Running
    /\ "InvalidSignature" \in Errors
BY DEF Results, Running, Errors, Stages

(* An order's step changes the stage of that order only.                   *)
LEMMA MoveEffect ==
    ASSUME Shape, NEW r \in Requests, NEW i, NEW s \in Stages, Moved(r, i, s)
    PROVE  /\ stage' \in [Requests -> Seq(Stages)]
           /\ \A q \in Requests : DOMAIN stage'[q] = DOMAIN stage[q]
           /\ stage'[r][i] = s
           /\ \A q \in Requests : \A j \in DOMAIN stage[q] :
                 q # r \/ j # i => stage'[q][j] = stage[q][j]
           /\ \A q \in Requests : q # r => stage'[q] = stage[q]
<1>1. /\ stage \in [Requests -> Seq(Stages)] /\ i \in DOMAIN stage[r]
      /\ stage' = [stage EXCEPT ![r][i] = s]
  BY DEF Shape, Moved, Move
<1>2. PICK q : q = stage[r]
  OBVIOUS
<1>3. q \in Seq(Stages) /\ DOMAIN q = 1 .. Len(q) /\ Len(q) \in Nat /\ i \in DOMAIN q
  BY <1>1, <1>2
<1>4. PICK t : t = [q EXCEPT ![i] = s]
  OBVIOUS
<1>5. /\ DOMAIN t = DOMAIN q /\ t[i] = s
      /\ \A j \in DOMAIN q : j # i => t[j] = q[j]
  BY <1>3, <1>4
<1>6. t \in Seq(Stages)
  BY <1>3, <1>4, ExceptSeq
<1>7. stage' = [stage EXCEPT ![r] = t]
  BY <1>1, <1>2, <1>4
<1>8. stage'[r] = t /\ \A p \in Requests : p # r => stage'[p] = stage[p]
  BY <1>1, <1>7
<1>9. stage' \in [Requests -> Seq(Stages)]
  BY <1>1, <1>6, <1>7
<1> QED
  BY <1>2, <1>5, <1>8, <1>9

(* Every step of App::order moves its order to one of the stages.          *)
LEMMA OrderMoves ==
    ASSUME IInv, NEW r \in Requests, NEW i, OrderStep(r, i) \/ TakesEffect(r, i)
    PROVE  \E s \in Stages : Moved(r, i, s)
<1>1. Running \subseteq Stages /\ Results \subseteq Stages
  BY DEF Stages
<1>2. ASSUME Start(r, i) PROVE \E s \in Stages : Moved(r, i, s)
  <2>1. PICK s \in {"fetch"} \cup Errors : Move(r, i, s)
    BY <1>2, OrderErrors DEF Start
  <2>2. s \in Stages
    BY <1>1, <2>1, StageNames
  <2> QED
    BY <1>2, <2>1, <2>2, StageNames DEF Start, At, Moved, Done
<1>3. ASSUME Fetched(r, i) PROVE \E s \in Stages : Moved(r, i, s)
  <2>1. At(r, i, "fetch") /\ i \in DOMAIN stage[r] /\ stage[r][i] = "fetch"
    BY <1>3 DEF Fetched, At
  <2>2. OrderInv(r, i)
    BY <2>1 DEF IInv, OrdersInv
  <2>3. PICK report \in Reports :
           LET fetched == FetchState[input[r].orders[i]][report]
               error   == StateError(fetched)
           IN  IF error = "none" THEN Move(r, i, "insert") ELSE Move(r, i, error)
    BY <1>3 DEF Fetched
  <2>4. FetchState[input[r].orders[i]][report].status \in {Statuses[k] : k \in 1 .. 5}
    BY <2>1, <2>2, ContractReads, StageNames DEF OrderInv
  <2>5. StateError(FetchState[input[r].orders[i]][report]) \in Errors \cup {"none"}
    BY <2>4, StateErrors
  <2>6. \E s \in {"insert"} \cup Errors : Move(r, i, s)
    BY <2>3, <2>5
  <2> QED
    BY <1>1, <1>3, <2>1, <2>6, StageNames DEF Fetched, At, Moved, Done
<1>4. ASSUME Inserted(r, i) PROVE \E s \in Stages : Moved(r, i, s)
  BY <1>1, <1>4, StageNames DEF Inserted, At, Moved, Done
<1>5. ASSUME Announced(r, i) PROVE \E s \in Stages : Moved(r, i, s)
  BY <1>1, <1>5, StageNames DEF Announced, At, Moved, Done
<1>6. ASSUME Fails(r, i) PROVE \E s \in Stages : Moved(r, i, s)
  BY <1>1, <1>6, StageNames DEF Fails, At, Moved, Done
<1>7. ASSUME TakesEffect(r, i) PROVE \E s \in Stages : Moved(r, i, s)
  BY <1>1, <1>7, StageNames DEF TakesEffect, Moved, Done
<1> QED
  BY <1>2, <1>3, <1>4, <1>5, <1>6, <1>7 DEF OrderStep

(* What fetching changes of the states, and nothing else does.             *)
LEMMA StateEffect ==
    ASSUME IInv, NEW r \in Requests, NEW i, OrderStep(r, i) \/ TakesEffect(r, i)
    PROVE  /\ state' = [q \in Requests |-> state'[q]]
           /\ \A q \in Requests : state'[q] = [j \in DOMAIN stage[q] |-> state'[q][j]]
           /\ \A q \in Requests : \A j \in DOMAIN stage[q] :
                 q # r \/ j # i \/ ~Fetched(r, i) => state'[q][j] = state[q][j]
<1>1. /\ state = [q \in Requests |-> state[q]]
      /\ \A q \in Requests : state[q] = [j \in DOMAIN stage[q] |-> state[q][j]]
  BY DEF IInv, Shape
<1>2. CASE state' = state
  BY <1>1, <1>2
<1>3. CASE state' # state
  <2>1. Fetched(r, i)
    BY <1>3 DEF OrderStep, Start, Inserted, Announced, Fails, TakesEffect
  <2>2. i \in DOMAIN stage[r] /\ \E v : state' = [state EXCEPT ![r][i] = v]
    BY <1>3, <2>1 DEF Fetched, At
  <2>3. PICK v : state' = [state EXCEPT ![r][i] = v]
    BY <2>2
  <2>4. PICK f : f = state[r]
    OBVIOUS
  <2>5. PICK g : g = [f EXCEPT ![i] = v]
    OBVIOUS
  <2>6. /\ g = [j \in DOMAIN stage[r] |-> g[j]]
        /\ \A j \in DOMAIN stage[r] : j # i => g[j] = f[j]
    BY <1>1, <2>2, <2>4, <2>5
  <2>7. state' = [state EXCEPT ![r] = g]
    BY <2>3, <2>4, <2>5
  <2>8. /\ state' = [q \in Requests |-> state'[q]]
        /\ state'[r] = g
        /\ \A q \in Requests : q # r => state'[q] = state[q]
    BY <1>1, <2>7
  <2> QED
    BY <1>1, <2>1, <2>4, <2>6, <2>8
<1> QED
  BY <1>2, <1>3

(* A request is refused, or its orders are all readable.                   *)
LEMMA ReceiveEffect ==
    ASSUME IInv, NEW r \in Requests, Receive(r)
    PROVE  /\ phase[r] = "idle" /\ stage[r] = <<>> /\ UNCHANGED <<input, stored, announced>>
           /\ \/ /\ phase' = [phase EXCEPT ![r] = "serving"]
                 /\ \E n \in Nat :
                       /\ stage' = [stage EXCEPT ![r] = [i \in 1 .. n |-> "waiting"]]
                       /\ state' = [state EXCEPT ![r] = [i \in 1 .. n |-> NoState]]
                       /\ \A i \in 1 .. n : input[r].orders[i] \in Readable
                 /\ UNCHANGED answer
              \/ /\ phase' = [phase EXCEPT ![r] = "answered"]
                 /\ \E refusal : /\ answer' = [answer EXCEPT ![r] = refusal]
                                 /\ refusal # Pending
                                 /\ refusal.error \notin {"ok", "OrderInvalid"}
                 /\ UNCHANGED <<stage, state>>
<1>1. phase[r] = "idle" /\ stage[r] = <<>> /\ UNCHANGED <<input, stored, announced>>
  BY DEF Receive, IInv, PhaseInv
<1>2. PICK refusal : refusal = Refusal(input[r])
  OBVIOUS
<1>3. PICK in : in = input[r]
  OBVIOUS
<1>4. in \in Inputs /\ in.orders \in Seq(Orders)
  BY <1>3, ApiAssumption DEF IInv, Shape, Input
<1>5. CASE refusal = Pending
  <2>1. /\ phase' = [phase EXCEPT ![r] = "serving"]
        /\ stage' = [stage EXCEPT ![r] = [i \in DOMAIN in.orders |-> "waiting"]]
        /\ state' = [state EXCEPT ![r] = [i \in DOMAIN in.orders |-> NoState]]
        /\ UNCHANGED answer
    BY <1>2, <1>3, <1>5 DEF Receive
  <2>2. \A i \in DOMAIN in.orders : in.orders[i] \in Readable
    <3>1. Response("NotFound", 404, 404, <<>>) # Pending
      BY DEF Response, Pending
    <3>2. Response("InvalidMethod", 405, 405, <<>>) # Pending
      BY DEF Response, Pending
    <3>3. Response("InvalidContentType", 400, 400, <<>>) # Pending
      BY DEF Response, Pending
    <3>4. Response("Http", 400, 400, <<>>) # Pending
      BY DEF Response, Pending
    <3>5. Response("Json", 101, 400, <<>>) # Pending
      BY DEF Response, Pending
    <3> QED
      BY <1>2, <1>3, <1>5, <3>1, <3>2, <3>3, <3>4, <3>5 DEF Refusal
  <2>3. PICK n \in Nat : DOMAIN in.orders = 1 .. n
    BY <1>4
  <2> QED
    BY <1>1, <1>3, <2>1, <2>2, <2>3
<1>6. CASE refusal # Pending
  <2>1. /\ phase' = [phase EXCEPT ![r] = "answered"]
        /\ answer' = [answer EXCEPT ![r] = refusal]
        /\ UNCHANGED <<stage, state>>
    BY <1>2, <1>6 DEF Receive
  <2>2. refusal.error \in {"NotFound", "InvalidMethod", "InvalidContentType", "Http", "Json"}
    BY <1>2, <1>6 DEF Refusal, Response
  <2>3. refusal.error \notin {"ok", "OrderInvalid"}
    BY <2>2
  <2> QED
    BY <1>1, <1>6, <2>1, <2>3
<1> QED
  BY <1>5, <1>6

(* Every step keeps each order's stage, state and request in step.         *)
LEMMA ShapeStep ==
    ASSUME IInv, Next
    PROVE  Shape'
<1>0. Shape
  BY DEF IInv
<1>1. ASSUME NEW r \in Requests, Receive(r) PROVE Shape'
  <2>1. /\ phase' \in [Requests -> {"idle", "serving", "answered", "dropped"}]
        /\ input' = input
        /\ answer' = [q \in Requests |-> answer'[q]]
    BY <1>0, <1>1, ReceiveEffect DEF Shape
  <2>2. CASE UNCHANGED <<stage, state>>
    BY <1>0, <2>1, <2>2 DEF Shape
  <2>3. ASSUME NEW n \in Nat,
               stage' = [stage EXCEPT ![r] = [i \in 1 .. n |-> "waiting"]],
               state' = [state EXCEPT ![r] = [i \in 1 .. n |-> NoState]]
        PROVE  Shape'
    <3>1. PICK w : w = [i \in 1 .. n |-> "waiting"]
      OBVIOUS
    <3>2. w \in Seq(Stages) /\ DOMAIN w = 1 .. n
      BY <3>1 DEF Stages
    <3>3. stage' \in [Requests -> Seq(Stages)]
      BY <1>0, <2>3, <3>1, <3>2 DEF Shape
    <3>4. state' = [q \in Requests |-> state'[q]]
      BY <1>0, <2>3 DEF Shape
    <3>5. \A q \in Requests : state'[q] = [i \in DOMAIN stage'[q] |-> state'[q][i]]
      BY <1>0, <2>3, <3>1, <3>2 DEF Shape
    <3> QED
      BY <1>0, <2>1, <3>3, <3>4, <3>5 DEF Shape
  <2> QED
    BY <1>1, <2>2, <2>3, ReceiveEffect
<1>2. ASSUME NEW r \in Requests, NEW i, OrderStep(r, i) \/ TakesEffect(r, i) PROVE Shape'
  <2>1. PICK s \in Stages : Moved(r, i, s)
    BY <1>2, OrderMoves
  <2>2. /\ stage' \in [Requests -> Seq(Stages)]
        /\ \A q \in Requests : DOMAIN stage'[q] = DOMAIN stage[q]
    BY <1>0, <2>1, MoveEffect
  <2>3. UNCHANGED <<phase, input, answer>>
    BY <2>1 DEF Moved
  <2>4. /\ state' = [q \in Requests |-> state'[q]]
        /\ \A q \in Requests : state'[q] = [j \in DOMAIN stage[q] |-> state'[q][j]]
    BY <1>2, StateEffect
  <2> QED
    BY <1>0, <2>2, <2>3, <2>4 DEF Shape
<1>3. ASSUME NEW r \in Requests, Respond(r) PROVE Shape'
  BY <1>0, <1>3 DEF Respond, Shape
<1>4. ASSUME NEW r \in Requests, Disconnect(r) PROVE Shape'
  BY <1>0, <1>4 DEF Disconnect, Shape
<1> QED
  BY <1>1, <1>2, <1>3, <1>4 DEF Next

(* App::orders answers, and no error of an order is hidden.                *)
LEMMA OutcomeIsAnAnswer ==
    ASSUME NEW r
    PROVE  /\ Outcome(r) # Pending
           /\ Outcome(r).error = "ok" =>
                 /\ Outcome(r) = Response("ok", 0, 200, <<>>)
                 /\ Positions(r, Errors) = {} /\ Positions(r, {"internal"}) = {}
           /\ Outcome(r).error = "OrderInvalid" =>
                 /\ Outcome(r) = Response("OrderInvalid", 100, 400, Refusals(r))
                 /\ Positions(r, Errors) # {} /\ Positions(r, {"internal"}) = {}
<1>1. /\ Pending.error = "none"
      /\ Response("InternalError", 400, 400, <<>>).error = "InternalError"
      /\ Response("OrderInvalid", 100, 400, Refusals(r)).error = "OrderInvalid"
      /\ Response("ok", 0, 200, <<>>).error = "ok"
  BY DEF Pending, Response
<1>2. Outcome(r).error \in {"InternalError", "OrderInvalid", "ok"}
  BY <1>1 DEF Outcome
<1>3. Failed(r) <=> Positions(r, Errors) # {}
  BY DEF Failed, Positions
<1> QED
  BY <1>1, <1>2, <1>3 DEF Outcome

(* A request is answered once all of its orders have ended.                *)
LEMMA PhaseStep ==
    ASSUME IInv, Next
    PROVE  PhaseInv'
<1>0. Shape /\ PhaseInv
  BY DEF IInv
<1>1. ASSUME NEW r \in Requests, Receive(r) PROVE PhaseInv'
  <2>1. phase[r] = "idle" /\ stage[r] = <<>> /\ answer[r] = Pending
    BY <1>0, <1>1, ReceiveEffect DEF PhaseInv
  <2>2. CASE /\ phase' = [phase EXCEPT ![r] = "serving"]
             /\ \E n \in Nat : stage' = [stage EXCEPT ![r] = [i \in 1 .. n |-> "waiting"]]
             /\ UNCHANGED answer
    BY <1>0, <2>1, <2>2 DEF Shape, PhaseInv, Done
  <2>3. CASE /\ phase' = [phase EXCEPT ![r] = "answered"]
             /\ \E refusal : /\ answer' = [answer EXCEPT ![r] = refusal]
                             /\ refusal # Pending
             /\ UNCHANGED stage
    <3>1. \A i \in DOMAIN stage[r] : FALSE
      BY <2>1
    <3> QED
      BY <1>0, <2>3, <3>1 DEF Shape, PhaseInv, Done
  <2> QED
    BY <1>1, <2>2, <2>3, ReceiveEffect
<1>2. ASSUME NEW r \in Requests, NEW i, OrderStep(r, i) \/ TakesEffect(r, i) PROVE PhaseInv'
  <2>1. PICK s \in Stages : Moved(r, i, s)
    BY <1>2, OrderMoves
  <2>2. \A q \in Requests : q # r => stage'[q] = stage[q]
    BY <1>0, <2>1, MoveEffect
  <2>3. phase[r] \in {"serving", "dropped"} /\ UNCHANGED <<phase, answer>>
    BY <2>1 DEF Moved
  <2> QED
    BY <1>0, <2>2, <2>3 DEF PhaseInv, Done
<1>3. ASSUME NEW r \in Requests, Respond(r) PROVE PhaseInv'
  BY <1>0, <1>3, OutcomeIsAnAnswer DEF Respond, Collected, Shape, PhaseInv, Done
<1>4. ASSUME NEW r \in Requests, Disconnect(r) PROVE PhaseInv'
  BY <1>0, <1>4 DEF Disconnect, Shape, PhaseInv, Done
<1> QED
  BY <1>1, <1>2, <1>3, <1>4 DEF Next

(* What has left the buffer has left it.                                   *)
LEMMA YieldedGrows ==
    ASSUME IInv, NEW r \in Requests, NEW i, NEW s \in Stages, Moved(r, i, s)
    PROVE  \A q \in Requests :
              Yielded(q) \in Nat /\ Yielded(q)' \in Nat /\ Yielded(q) <= Yielded(q)'
<1> SUFFICES ASSUME NEW q \in Requests
             PROVE  Yielded(q) \in Nat /\ Yielded(q)' \in Nat /\ Yielded(q) <= Yielded(q)'
  OBVIOUS
<1>1. /\ DOMAIN stage'[q] = DOMAIN stage[q]
      /\ \A j \in DOMAIN stage[q] : q # r \/ j # i => stage'[q][j] = stage[q][j]
  BY MoveEffect DEF IInv
<1>2. PICK n \in Nat : DOMAIN stage[q] = 1 .. n
  <2>1. stage[q] \in Seq(Stages)
    BY DEF IInv, Shape
  <2> QED
    BY <2>1, LenProperties
<1>3. \A j \in 1 .. n : Done(q, j) => Done(q, j)'
  BY <1>1, <1>2 DEF Moved, Done
<1>4. PICK y, z : /\ y = {k \in 1 .. n : \A j \in 1 .. k : Done(q, j)}
                  /\ z = {k \in 1 .. n : \A j \in 1 .. k : Done(q, j)'}
  OBVIOUS
<1>5. Yielded(q) = Cardinality(y) /\ Yielded(q)' = Cardinality(z)
  BY <1>1, <1>2, <1>4 DEF Yielded
<1>6. \A k \in 1 .. n : \A j \in 1 .. k : j \in 1 .. n
  OBVIOUS
<1>7. y \subseteq z /\ z \subseteq 1 .. n
  BY <1>3, <1>4, <1>6
<1>8. IsFiniteSet(1 .. n)
  BY FS_Interval
<1>9. IsFiniteSet(z)
  BY <1>7, <1>8, FS_Subset
<1>10. IsFiniteSet(y) /\ Cardinality(y) <= Cardinality(z)
  BY <1>7, <1>9, FS_Subset
<1> QED
  BY <1>5, <1>9, <1>10, FS_CardinalityType

(* An order starts only while there is room in the buffer.                 *)
LEMMA BufferStep ==
    ASSUME IInv, Next
    PROVE  BufferInv'
<1>0. Shape /\ PhaseInv /\ BufferInv
  BY DEF IInv
<1>1. ASSUME NEW r \in Requests, Receive(r) PROVE BufferInv'
  <2>1. CASE UNCHANGED stage
    BY <1>0, <2>1 DEF BufferInv, Yielded, Done
  <2>2. ASSUME NEW n \in Nat, stage' = [stage EXCEPT ![r] = [i \in 1 .. n |-> "waiting"]]
        PROVE  BufferInv'
    <3>1. \A q \in Requests : q # r => stage'[q] = stage[q]
      BY <1>0, <2>2 DEF Shape
    <3>2. \A q \in Requests : q # r => Yielded(q)' = Yielded(q)
      BY <3>1 DEF Yielded, Done
    <3>3. \A i \in DOMAIN stage'[r] : stage'[r][i] = "waiting"
      BY <1>0, <2>2 DEF Shape
    <3> QED
      BY <1>0, <3>1, <3>2, <3>3, StageNames DEF BufferInv
  <2> QED
    BY <1>1, <2>1, <2>2, ReceiveEffect
<1>2. ASSUME NEW r \in Requests, NEW i, OrderStep(r, i) \/ TakesEffect(r, i) PROVE BufferInv'
  <2>1. PICK s \in Stages : Moved(r, i, s)
    BY <1>2, OrderMoves
  <2> SUFFICES ASSUME NEW q \in Requests, NEW j \in DOMAIN stage'[q],
                      stage'[q][j] \in Running
               PROVE  j <= Yielded(q)' + Concurrent
    BY DEF BufferInv
  <2>2. /\ j \in DOMAIN stage[q] /\ stage'[r][i] = s
        /\ q # r \/ j # i => stage'[q][j] = stage[q][j]
    BY <1>0, <2>1, MoveEffect
  <2>3. j \in Nat
    BY <1>0, <2>2 DEF Shape
  <2>4. Yielded(q) \in Nat /\ Yielded(q)' \in Nat /\ Yielded(q) <= Yielded(q)'
    BY <2>1, YieldedGrows
  <2>5. j <= Yielded(q) + Concurrent
    <3>1. CASE stage[q][j] \in Running
      BY <1>0, <2>2, <3>1 DEF BufferInv
    <3>2. CASE stage[q][j] \notin Running
      <4>1. q = r /\ j = i /\ s \in Running
        BY <2>2, <3>2
      <4>2. stage[r][i] \in Stages
        BY <1>0, <2>2, <4>1 DEF Shape
      <4>3. stage[r][i] = "waiting"
        BY <2>1, <3>2, <4>1, <4>2 DEF Moved, Done, Stages
      <4> QED
        BY <2>1, <4>1, <4>3 DEF Moved, MayStart
    <3> QED
      BY <3>1, <3>2
  <2> QED
    BY <2>3, <2>4, <2>5, ApiAssumption
<1>3. ASSUME UNCHANGED stage PROVE BufferInv'
  BY <1>0, <1>3 DEF BufferInv, Yielded, Done
<1> QED
  BY <1>1, <1>2, <1>3 DEF Next, Respond, Disconnect

(* An answer, once given, goes with the stages of its orders.              *)
LEMMA AnswerStep ==
    ASSUME IInv, Next
    PROVE  AnswerInv'
<1>1. /\ Shape /\ PhaseInv /\ AnswerInv
      /\ Pending.error \notin {"ok", "OrderInvalid"}
  BY DEF IInv, Pending, Response
<1>2. ASSUME NEW q \in Requests, stage'[q] = stage[q]
      PROVE  Outcome(q)' = Outcome(q)
  BY <1>2 DEF Outcome, Positions, Failed, Refusals
<1>3. ASSUME NEW r \in Requests,
             \A q \in Requests : q # r => stage'[q] = stage[q] /\ answer'[q] = answer[q],
             \/ answer'[r].error \notin {"ok", "OrderInvalid"}
             \/ stage'[r] = stage[r] /\ answer'[r] = Outcome(r)
      PROVE  AnswerInv'
  BY <1>1, <1>2, <1>3 DEF AnswerInv
<1>4. ASSUME NEW r \in Requests, Receive(r) PROVE AnswerInv'
  <2>1. answer[r] = Pending
    BY <1>1, <1>4, ReceiveEffect DEF PhaseInv
  <2>2. CASE /\ \E n \in Nat : stage' = [stage EXCEPT ![r] = [i \in 1 .. n |-> "waiting"]]
             /\ UNCHANGED answer
    BY <1>1, <1>3, <2>1, <2>2 DEF Shape
  <2>3. CASE /\ \E refusal : /\ answer' = [answer EXCEPT ![r] = refusal]
                             /\ refusal.error \notin {"ok", "OrderInvalid"}
             /\ UNCHANGED stage
    BY <1>1, <1>3, <2>3 DEF Shape
  <2> QED
    BY <1>4, <2>2, <2>3, ReceiveEffect
<1>5. ASSUME NEW r \in Requests, NEW i, OrderStep(r, i) \/ TakesEffect(r, i) PROVE AnswerInv'
  <2>1. PICK s \in Stages : Moved(r, i, s)
    BY <1>5, OrderMoves
  <2>2. \A q \in Requests : q # r => stage'[q] = stage[q]
    BY <1>1, <2>1, MoveEffect
  <2>3. phase[r] \in {"serving", "dropped"} /\ UNCHANGED answer
    BY <2>1 DEF Moved
  <2>4. answer[r] = Pending
    BY <1>1, <2>3 DEF PhaseInv
  <2> QED
    BY <1>1, <1>3, <2>2, <2>3, <2>4
<1>6. ASSUME NEW r \in Requests, Respond(r) PROVE AnswerInv'
  <2>1. UNCHANGED stage /\ answer' = [answer EXCEPT ![r] = Outcome(r)]
    BY <1>6 DEF Respond
  <2>2. /\ answer'[r] = Outcome(r)
        /\ \A q \in Requests : q # r => answer'[q] = answer[q]
    BY <1>1, <2>1 DEF Shape
  <2> QED
    BY <1>3, <2>1, <2>2
<1>7. ASSUME UNCHANGED <<stage, answer>> PROVE AnswerInv'
  BY <1>1, <1>2, <1>7 DEF AnswerInv
<1> QED
  BY <1>4, <1>5, <1>6, <1>7 DEF Next, Disconnect

-----------------------------------------------------------------------------
(* What is stored and announced.                                           *)

(* What is about to be inserted is the row of the order that was sent,     *)
(* with what the contract said of it.                                      *)
LEMMA RecordRow ==
    ASSUME NEW r \in Requests, NEW i \in DOMAIN stage[r], OrderInv(r, i),
           stage[r][i] = "insert"
    PROVE  LET o == input[r].orders[i]
           IN  /\ Genuine(o) /\ o \in Readable
               /\ IntoRow(Record(r, i)) = RowOf(o, state[r][i].fillable)
               /\ IntoRow(Record(r, i)).hash.value = Hash(SignedOrder[o].order)
               /\ state[r][i].hash = Hash(SignedOrder[o].order)
               /\ [status |-> 1, fillable |-> state[r][i].fillable] \in Reports
<1>1. PICK o, n : o = input[r].orders[i] /\ n = state[r][i].fillable
  OBVIOUS
<1>2. /\ Genuine(o) /\ o \in Readable
      /\ state[r][i].hash = Hash(SignedOrder[o].order)
      /\ [status |-> 1, fillable |-> n] \in Reports
  BY <1>1 DEF OrderInv
<1>3. IntoRow(Record(r, i)) = RowOf(o, n)
  BY <1>1, <1>2 DEF Record, RecordOf, RowOf
<1>4. RowOf(o, n).hash.value = Hash(SignedOrder[o].order)
  <2>1. RowOf(o, n)["hash"] = Hexadecimal(Hash(SignedOrder[o].order))
    BY RowColumns
  <2> QED
    BY <2>1 DEF Hexadecimal
<1> QED
  BY <1>1, <1>2, <1>3, <1>4

(* No step of App::order removes a row or an event.                        *)
LEMMA OnlyGrows ==
    ASSUME NEW r, NEW i, OrderStep(r, i) \/ TakesEffect(r, i)
    PROVE  DOMAIN stored \subseteq DOMAIN stored' /\ announced \subseteq announced'
BY DEF OrderStep, Start, Fetched, Inserted, Announced, Fails, TakesEffect, Insert

(* Every row comes from an order that was sent and checked.                *)
LEMMA RowsStep ==
    ASSUME IInv, Next
    PROVE  RowsInv'
<1>1. ASSUME UNCHANGED stored PROVE RowsInv'
  BY <1>1 DEF IInv, RowsInv, Genuine
<1>2. ASSUME NEW r \in Requests, NEW i \in DOMAIN stage[r], stage[r][i] = "insert",
             Insert(IntoRow(Record(r, i)))
      PROVE  RowsInv'
  <2>1. PICK p \in Readable, report \in Reports :
          /\ Genuine(p)
          /\ IntoRow(Record(r, i)) = RowOf(p, report.fillable)
          /\ IntoRow(Record(r, i)).hash.value = Hash(SignedOrder[p].order)
    <3>1. OrderInv(r, i)
      BY DEF IInv, OrdersInv
    <3>2. PICK o, n : o = input[r].orders[i] /\ n = state[r][i].fillable
      OBVIOUS
    <3>3. /\ Genuine(o) /\ o \in Readable
          /\ IntoRow(Record(r, i)) = RowOf(o, n)
          /\ IntoRow(Record(r, i)).hash.value = Hash(SignedOrder[o].order)
          /\ [status |-> 1, fillable |-> n] \in Reports
      BY <1>2, <3>1, <3>2, RecordRow
    <3>4. [status |-> 1, fillable |-> n].fillable = n
      OBVIOUS
    <3> QED
      BY <3>3, <3>4
  <2>2. PICK k, h : k = report.fillable /\ h = Hash(SignedOrder[p].order)
    OBVIOUS
  <2>3. stored' = [g \in DOMAIN stored \cup {h} |->
            IF g # h THEN stored[g]
            ELSE IF g \in DOMAIN stored
            THEN [stored[g] EXCEPT !["remaining"] = RowOf(p, k)["remaining"]]
            ELSE RowOf(p, k)]
    BY <1>2, <2>1, <2>2 DEF Insert
  <2>4. ASSUME NEW g \in DOMAIN stored'
        PROVE  \E o \in Readable, m \in Reports :
                  /\ Genuine(o) /\ g = Hash(SignedOrder[o].order)
                  /\ stored'[g] = RowOf(o, m.fillable)
    <3>1. CASE g # h
      BY <2>3, <3>1 DEF IInv, RowsInv
    <3>2. CASE g = h /\ g \in DOMAIN stored
      <4>1. PICK o \in Readable, m \in Reports :
               /\ Genuine(o) /\ g = Hash(SignedOrder[o].order)
               /\ stored[g] = RowOf(o, m.fillable)
        BY <3>2 DEF IInv, RowsInv
      <4>2. stored'[g] = [RowOf(o, m.fillable) EXCEPT !["remaining"] = RowOf(p, k)["remaining"]]
        BY <2>3, <3>2, <4>1
      <4>3. stored'[g] = RowOf(o, k)
        BY <4>2, RowUpsert
      <4> QED
        BY <2>2, <4>1, <4>3
    <3>3. CASE g = h /\ g \notin DOMAIN stored
      BY <2>1, <2>2, <2>3, <3>3
    <3> QED
      BY <3>1, <3>2, <3>3
  <2> QED
    BY <2>4 DEF RowsInv, Genuine
<1>3. ASSUME NEW r \in Requests, Receive(r) PROVE RowsInv'
  BY <1>1, <1>3, ReceiveEffect
<1>4. ASSUME NEW r \in Requests, NEW i, OrderStep(r, i) \/ TakesEffect(r, i) PROVE RowsInv'
  BY <1>1, <1>2, <1>4
     DEF OrderStep, Start, Fetched, Inserted, Announced, Fails, TakesEffect, At
<1> QED
  BY <1>1, <1>3, <1>4 DEF Next, Respond, Disconnect

(* Every event is about an order that was just stored.                     *)
LEMMA EventsStep ==
    ASSUME IInv, Next
    PROVE  EventsInv'
<1>1. ASSUME DOMAIN stored \subseteq DOMAIN stored', announced' = announced
      PROVE  EventsInv'
  BY <1>1 DEF IInv, EventsInv, Genuine
<1>2. ASSUME NEW r \in Requests, NEW i \in DOMAIN stage[r], stage[r][i] = "announce",
             announced' = announced \cup {IntoProto(Record(r, i))},
             DOMAIN stored \subseteq DOMAIN stored'
      PROVE  EventsInv'
  <2>1. PICK o, n : o = input[r].orders[i] /\ n = state[r][i].fillable
    OBVIOUS
  <2>2. /\ Genuine(o) /\ o \in Readable
        /\ state[r][i].hash = Hash(SignedOrder[o].order)
        /\ state[r][i].hash \in DOMAIN stored
        /\ [status |-> 1, fillable |-> n] \in Reports
    BY <1>2, <2>1 DEF IInv, OrdersInv, OrderInv
  <2>3. IntoProto(Record(r, i)) = EventOf(o, n)
    BY <2>1, <2>2 DEF Record, RecordOf, EventOf
  <2>4. [status |-> 1, fillable |-> n].status = 1 /\ [status |-> 1, fillable |-> n].fillable = n
    OBVIOUS
  <2>5. \A event \in announced' :
           \E p \in Readable, report \in Reports :
               /\ Genuine(p) /\ report.status = 1
               /\ Hash(SignedOrder[p].order) \in DOMAIN stored
               /\ event = EventOf(p, report.fillable)
    BY <1>2, <2>2, <2>3, <2>4 DEF IInv, EventsInv
  <2> QED
    BY <1>2, <2>5 DEF EventsInv, Genuine
<1>3. ASSUME NEW r \in Requests, Receive(r) PROVE EventsInv'
  BY <1>1, <1>3, ReceiveEffect
<1>4. ASSUME NEW r \in Requests, NEW i, OrderStep(r, i) \/ TakesEffect(r, i)
      PROVE  EventsInv'
  <2>1. DOMAIN stored \subseteq DOMAIN stored'
    BY <1>4, OnlyGrows
  <2>2. \/ announced' = announced
        \/ /\ i \in DOMAIN stage[r] /\ stage[r][i] = "announce"
           /\ announced' = announced \cup {IntoProto(Record(r, i))}
    BY <1>4 DEF OrderStep, Start, Fetched, Inserted, Announced, Fails, TakesEffect, At
  <2> QED
    BY <1>1, <1>2, <2>1, <2>2
<1> QED
  BY <1>1, <1>3, <1>4 DEF Next, Respond, Disconnect

(* What is known of an order stays known while it does not move.           *)
LEMMA OrderStays ==
    ASSUME NEW q \in Requests, NEW j, OrderInv(q, j),
           stage'[q][j] = stage[q][j], state'[q][j] = state[q][j], input' = input,
           DOMAIN stored \subseteq DOMAIN stored', announced \subseteq announced'
    PROVE  OrderInv(q, j)'
<1>1. Record(q, j)' = Record(q, j)
  BY DEF Record, SignedOrder
<1>2. IntoProto(Record(q, j)') = IntoProto(Record(q, j))
  BY <1>1
<1> QED
  BY <1>2 DEF OrderInv, Genuine, Dubious

(* Every step keeps what is known of each order at its stage.              *)
LEMMA OrdersStep ==
    ASSUME IInv, Next
    PROVE  OrdersInv'
<1>0. Shape /\ OrdersInv
  BY DEF IInv
<1>1. ASSUME UNCHANGED <<stage, state, input, stored, announced>> PROVE OrdersInv'
  BY <1>0, <1>1, OrderStays DEF OrdersInv
<1>2. ASSUME NEW r \in Requests, Receive(r) PROVE OrdersInv'
  <2>1. stage[r] = <<>> /\ UNCHANGED <<input, stored, announced>>
    BY <1>2, ReceiveEffect
  <2>2. ASSUME NEW n \in Nat,
               stage' = [stage EXCEPT ![r] = [i \in 1 .. n |-> "waiting"]],
               state' = [state EXCEPT ![r] = [i \in 1 .. n |-> NoState]],
               \A i \in 1 .. n : input[r].orders[i] \in Readable
        PROVE  OrdersInv'
    <3>1. \A i \in DOMAIN stage'[r] :
             input'[r].orders[i] \in Readable /\ stage'[r][i] = "waiting"
      BY <1>0, <2>1, <2>2 DEF Shape
    <3>2. \A i \in DOMAIN stage'[r] : OrderInv(r, i)'
      BY <3>1, StageNames DEF OrderInv
    <3>3. ASSUME NEW q \in Requests, q # r, NEW j \in DOMAIN stage'[q] PROVE OrderInv(q, j)'
      <4>1. stage'[q] = stage[q] /\ state'[q] = state[q]
        BY <1>0, <2>2, <3>3 DEF Shape
      <4>2. OrderInv(q, j)
        BY <1>0, <3>3, <4>1 DEF OrdersInv
      <4> QED
        BY <2>1, <4>1, <4>2, OrderStays
    <3> QED
      BY <3>2, <3>3 DEF OrdersInv
  <2>3. CASE UNCHANGED <<stage, state>>
    BY <1>1, <2>1, <2>3
  <2> QED
    BY <1>2, <2>2, <2>3, ReceiveEffect
<1>3. ASSUME NEW r \in Requests, NEW i, OrderStep(r, i) \/ TakesEffect(r, i) PROVE OrdersInv'
  <2>1. PICK s \in Stages : Moved(r, i, s)
    BY <1>3, OrderMoves
  <2>2. /\ i \in DOMAIN stage[r] /\ UNCHANGED input /\ stage'[r][i] = s
        /\ \A q \in Requests : DOMAIN stage'[q] = DOMAIN stage[q]
        /\ \A q \in Requests : \A j \in DOMAIN stage[q] :
              q # r \/ j # i => stage'[q][j] = stage[q][j]
    BY <1>0, <2>1, MoveEffect DEF Moved
  <2>3. \A q \in Requests : \A j \in DOMAIN stage[q] :
           q # r \/ j # i \/ ~Fetched(r, i) => state'[q][j] = state[q][j]
    BY <1>3, StateEffect
  <2>4. DOMAIN stored \subseteq DOMAIN stored' /\ announced \subseteq announced'
    BY <1>3, OnlyGrows
  <2>5. ASSUME NEW q \in Requests, NEW j \in DOMAIN stage'[q], q # r \/ j # i
        PROVE  OrderInv(q, j)'
    <3>1. /\ j \in DOMAIN stage[q] /\ OrderInv(q, j)
          /\ stage'[q][j] = stage[q][j] /\ state'[q][j] = state[q][j]
      BY <1>0, <2>2, <2>3, <2>5 DEF OrdersInv
    <3> QED
      BY <2>2, <2>4, <3>1, OrderStays
  <2>6. OrderInv(r, i)
    BY <1>0, <2>2 DEF OrdersInv
  <2>7. PICK o : o = input[r].orders[i] /\ o \in Readable /\ o = input'[r].orders[i]
    BY <2>2, <2>6 DEF OrderInv
  <2>8. ASSUME s \in Errors \cup {"internal"}, s = "InvalidSignature" => Dubious(o)
        PROVE  OrderInv(r, i)'
    BY <2>2, <2>7, <2>8, StageNames DEF OrderInv, Dubious, SignedOrder
  <2>9. OrderInv(r, i)'
    <3>1. CASE Start(r, i)
      <4>1. CASE OrderError(SignedOrder[o].order) = "none"
        <5>1. stage'[r][i] = "fetch"
          BY <1>0, <2>2, <2>7, <3>1, <4>1 DEF Start, Move, Shape
        <5> QED
          BY <2>7, <4>1, <5>1, StageNames DEF OrderInv
      <4>2. CASE OrderError(SignedOrder[o].order) # "none"
        <5>1. stage'[r][i] = OrderError(SignedOrder[o].order)
          BY <1>0, <2>2, <2>7, <3>1, <4>2 DEF Start, Move, Shape
        <5> QED
          BY <2>2, <2>8, <4>2, <5>1, OrderErrors
      <4> QED
        BY <4>1, <4>2
    <3>2. CASE Fetched(r, i)
      <4>1. OrderError(SignedOrder[o].order) = "none"
        BY <2>6, <2>7, <3>2, StageNames DEF Fetched, At, OrderInv
      <4>2. PICK report \in Reports :
               LET fetched == FetchState[o][report]
                   error   == StateError(fetched)
               IN  IF error = "none"
                   THEN /\ Move(r, i, "insert")
                        /\ state' = [state EXCEPT ![r][i] =
                               [hash |-> fetched.hash, fillable |-> fetched.fillable]]
                   ELSE Move(r, i, error)
        BY <2>7, <3>2 DEF Fetched
      <4>3. PICK fetched : fetched = FetchState[o][report]
        OBVIOUS
      <4>4. /\ fetched.hash = Hash(SignedOrder[o].order)
            /\ fetched.fillable = report.fillable
            /\ fetched.status \in {Statuses[k] : k \in 1 .. 5}
            /\ fetched.status = "Fillable" => report.status = 1
            /\ fetched.is_signature_valid <=>
                  /\ SignedOrder[o].signature.v \in {27, 28}
                  /\ Recover(SignedOrder[o].signature, Hash(SignedOrder[o].order))
                        = SignedOrder[o].order.maker
        BY <2>7, <4>1, <4>3, ContractReads
      <4>5. /\ StateError(fetched) \in Errors \cup {"none"}
            /\ StateError(fetched) = "none" =>
                  fetched.is_signature_valid /\ fetched.status = "Fillable"
            /\ StateError(fetched) = "InvalidSignature" => ~fetched.is_signature_valid
        BY <4>4, StateErrors
      <4>6. CASE StateError(fetched) # "none"
        <5>1. Move(r, i, StateError(fetched))
          BY <4>2, <4>3, <4>6
        <5>2. stage'[r][i] = StateError(fetched)
          BY <1>0, <2>2, <5>1 DEF Move, Shape
        <5>3. StateError(fetched) = "InvalidSignature" => Dubious(o)
          BY <4>4, <4>5 DEF Dubious
        <5> QED
          BY <2>2, <2>8, <4>5, <4>6, <5>2, <5>3
      <4>7. CASE StateError(fetched) = "none"
        <5>1. /\ Move(r, i, "insert")
              /\ state' = [state EXCEPT ![r][i] =
                     [hash |-> fetched.hash, fillable |-> fetched.fillable]]
          BY <4>2, <4>3, <4>7
        <5>2. stage'[r][i] = "insert"
          BY <1>0, <2>2, <5>1 DEF Move, Shape
        <5>3. state'[r][i] = [hash |-> fetched.hash, fillable |-> fetched.fillable]
          <6>1. PICK f : f = state[r]
            OBVIOUS
          <6>2. i \in DOMAIN f /\ state'[r] = [f EXCEPT ![i] =
                     [hash |-> fetched.hash, fillable |-> fetched.fillable]]
            BY <1>0, <2>2, <5>1, <6>1 DEF Shape
          <6> QED
            BY <6>2
        <5>4. [status |-> 1, fillable |-> report.fillable] \in Reports
          <6>1. report = [status |-> report.status, fillable |-> report.fillable]
            BY ApiAssumption
          <6> QED
            BY <4>4, <4>5, <4>7, <6>1
        <5>5. Genuine(o)
          BY <2>7, <4>1, <4>4, <4>5, <4>7 DEF Genuine
        <5> QED
          BY <2>7, <4>1, <4>4, <5>2, <5>3, <5>4, <5>5, StageNames DEF OrderInv
      <4> QED
        BY <4>6, <4>7
    <3>3. CASE Inserted(r, i)
      <4>1. stage[r][i] = "insert"
        BY <3>3 DEF Inserted, At
      <4>2. stage'[r][i] = "announce" /\ state'[r][i] = state[r][i]
        BY <1>0, <2>2, <3>3 DEF Inserted, Move, Shape
      <4>3. /\ Genuine(o)
            /\ IntoRow(Record(r, i)).hash.value = state[r][i].hash
            /\ state[r][i].hash = Hash(SignedOrder[o].order)
            /\ [status |-> 1, fillable |-> state[r][i].fillable] \in Reports
        BY <2>2, <2>6, <2>7, <4>1, RecordRow
      <4>4. state[r][i].hash \in DOMAIN stored'
        BY <3>3, <4>3 DEF Inserted, Insert
      <4>5. OrderError(SignedOrder[o].order) = "none"
        BY <4>3 DEF Genuine
      <4> QED
        BY <2>7, <4>2, <4>3, <4>4, <4>5, StageNames DEF OrderInv
    <3>4. CASE Announced(r, i)
      <4>1. /\ stage[r][i] = "announce"
            /\ announced' = announced \cup {IntoProto(Record(r, i))}
        BY <3>4 DEF Announced, At
      <4>2. stage'[r][i] = "accepted" /\ state'[r][i] = state[r][i]
        BY <1>0, <2>2, <3>4 DEF Announced, Move, Shape
      <4>3. Record(r, i)' = Record(r, i)
        BY <2>2, <4>2 DEF Record, SignedOrder
      <4>4. IntoProto(Record(r, i)') \in announced'
        BY <4>1, <4>3
      <4> QED
        BY <2>4, <2>6, <2>7, <4>1, <4>2, <4>4, StageNames DEF OrderInv
    <3>5. CASE Fails(r, i) \/ TakesEffect(r, i)
      <4>1. stage'[r][i] = "internal"
        BY <1>0, <2>2, <3>5 DEF Fails, TakesEffect, Move, Shape
      <4> QED
        BY <2>2, <2>8, <4>1
    <3> QED
      BY <1>3, <3>1, <3>2, <3>3, <3>4, <3>5 DEF OrderStep
  <2> QED
    BY <2>5, <2>9 DEF OrdersInv
<1> QED
  BY <1>1, <1>2, <1>3 DEF Next, Respond, Disconnect

-----------------------------------------------------------------------------
(* At first nothing is submitted or stored.                                *)
LEMMA InitIInv == Init => IInv
<1> SUFFICES ASSUME Init PROVE IInv
  OBVIOUS
<1>1. \A r \in Requests : stage[r] = <<>> /\ state[r] = <<>>
  BY DEF Init
<1>2. \A r \in Requests : DOMAIN stage[r] = {}
  BY <1>1
<1>3. Shape
  <2>1. /\ phase \in [Requests -> {"idle", "serving", "answered", "dropped"}]
        /\ input \in [Requests -> Inputs]
        /\ state = [r \in Requests |-> state[r]]
        /\ answer = [r \in Requests |-> answer[r]]
    BY DEF Init
  <2>2. stage \in [Requests -> Seq(Stages)]
    <3>1. <<>> \in Seq(Stages)
      OBVIOUS
    <3> QED
      BY <3>1 DEF Init
  <2>3. \A r \in Requests : state[r] = [i \in DOMAIN stage[r] |-> state[r][i]]
    BY <1>1
  <2> QED
    BY <2>1, <2>2, <2>3 DEF Shape
<1>4. PhaseInv
  BY <1>1 DEF Init, PhaseInv
<1>5. BufferInv /\ OrdersInv
  BY <1>2 DEF BufferInv, OrdersInv
<1>6. RowsInv
  <2>1. DOMAIN stored = {}
    BY DEF Init
  <2> QED
    BY <2>1 DEF RowsInv
<1>7. EventsInv
  BY DEF Init, EventsInv
<1>8. AnswerInv
  BY DEF Init, AnswerInv, Pending, Response
<1> QED
  BY <1>3, <1>4, <1>5, <1>6, <1>7, <1>8 DEF IInv

(* IInv is an inductive invariant of the submission API.                   *)
THEOREM ApiInvariant == Spec => []IInv
<1>1. IInv /\ UNCHANGED vars => IInv'
  <2> SUFFICES ASSUME IInv, UNCHANGED vars PROVE IInv'
    OBVIOUS
  <2>1. UNCHANGED <<phase, input, stage, state, answer, stored, announced>>
    BY DEF vars
  <2>2. Shape' /\ PhaseInv' /\ BufferInv'
    BY <2>1 DEF IInv, Shape, PhaseInv, BufferInv, Yielded, Done
  <2>3. RowsInv' /\ EventsInv'
    BY <2>1 DEF IInv, RowsInv, EventsInv
  <2>4. OrdersInv'
    BY <2>1, OrderStays DEF IInv, OrdersInv
  <2>5. AnswerInv'
    <3>1. \A r \in Requests : Outcome(r)' = Outcome(r) /\ answer'[r] = answer[r]
      BY <2>1 DEF Outcome, Positions, Failed, Refusals
    <3> QED
      BY <3>1 DEF IInv, AnswerInv
  <2> QED
    BY <2>2, <2>3, <2>4, <2>5 DEF IInv
<1>2. IInv /\ [Next]_vars => IInv'
  BY <1>1, ShapeStep, PhaseStep, BufferStep, OrdersStep, RowsStep, EventsStep, AnswerStep
     DEF IInv
<1> QED
  BY InitIInv, <1>2, PTL DEF Spec

(* Every variable keeps its type, and App::orders never has more than      *)
(* CONCURRENT orders of one request in progress, however they end.         *)
THEOREM SubmitTypes == Spec => []TypeOK
<1>1. ASSUME IInv PROVE TypeOK
  <2> SUFFICES ASSUME NEW r \in Requests
               PROVE  Cardinality({i \in DOMAIN stage[r] : stage[r][i] \in Running})
                         <= Concurrent
    BY <1>1 DEF IInv, Shape, PhaseInv, TypeOK, Stages
  <2>1. PICK n \in Nat : DOMAIN stage[r] = 1 .. n
    <3>1. stage[r] \in Seq(Stages)
      BY <1>1 DEF IInv, Shape
    <3> QED
      BY <3>1, LenProperties
  <2>2. PICK run, y :
           /\ run = {i \in 1 .. n : stage[r][i] \in Running}
           /\ y = {k \in 1 .. n : \A j \in 1 .. k : Done(r, j)}
    OBVIOUS
  <2>3. Yielded(r) = Cardinality(y)
    BY <2>1, <2>2 DEF Yielded
  <2>4. ASSUME NEW i \in run
        PROVE  i \in Nat /\ Cardinality(y) \in Nat /\ Cardinality(y) < i
                 /\ i <= Cardinality(y) + Concurrent
    <3>1. i \in 1 .. n /\ stage[r][i] \in Running
      BY <2>2
    <3>2. i \in Nat \ {0} /\ i - 1 \in Nat /\ i \in 1 .. n
      BY <3>1
    <3>3. ~Done(r, i)
      BY <3>1, StageNames DEF Done
    <3>4. y \subseteq 1 .. i - 1
      <4> SUFFICES ASSUME NEW k \in y, ~(k <= i - 1) PROVE FALSE
        BY <2>2, <3>2
      <4>1. k \in 1 .. n /\ \A j \in 1 .. k : Done(r, j)
        BY <2>2
      <4>2. i \in 1 .. k
        BY <3>2, <4>1
      <4> QED
        BY <3>3, <4>1, <4>2
    <3>5. IsFiniteSet(1 .. i - 1) /\ Cardinality(1 .. i - 1) = i - 1
      BY <3>2, FS_Interval
    <3>6. IsFiniteSet(y) /\ Cardinality(y) <= i - 1
      BY <3>4, <3>5, FS_Subset
    <3>7. Cardinality(y) \in Nat
      BY <3>6, FS_CardinalityType
    <3>8. i <= Cardinality(y) + Concurrent
      BY <1>1, <2>1, <2>3, <3>1 DEF IInv, BufferInv
    <3> QED
      BY <3>2, <3>6, <3>7, <3>8
  <2>5. CASE run = {}
    <3>1. Cardinality(run) = 0
      BY <2>5, FS_EmptySet
    <3> QED
      BY <2>1, <2>2, <3>1, ApiAssumption
  <2>6. CASE run # {}
    <3>1. PICK c \in Nat : c = Cardinality(y)
      BY <2>4, <2>6
    <3>2. run \subseteq c + 1 .. c + Concurrent
      BY <2>4, <3>1, ApiAssumption
    <3>3. /\ IsFiniteSet(c + 1 .. c + Concurrent)
          /\ Cardinality(c + 1 .. c + Concurrent) = Concurrent
      <4>1. c + 1 <= c + Concurrent /\ c + 1 \in Int /\ c + Concurrent \in Int
            /\ (c + Concurrent) - (c + 1) + 1 = Concurrent
        BY <3>1, ApiAssumption
      <4> QED
        BY <4>1, FS_Interval
    <3>4. Cardinality(run) <= Concurrent
      BY <3>2, <3>3, FS_Subset
    <3> QED
      BY <2>1, <2>2, <3>4
  <2> QED
    BY <2>5, <2>6
<1> QED
  BY <1>1, ApiInvariant, PTL

(* What the contract accepts and what SignedOrder::validate accepts of an  *)
(* order's signature is the same, but for a v the EVM does not take: no    *)
(* accepted order fails the check of the rows, and none that would pass it *)
(* is refused for its signature.                                           *)
THEOREM VerdictsAgree == Spec => []SignaturesJudgedAlike
<1>1. ASSUME IInv PROVE SignaturesJudgedAlike
  <2> SUFFICES ASSUME NEW r \in Requests, NEW i \in DOMAIN stage[r]
               PROVE  LET signed == SignedOrder[input[r].orders[i]]
                          passes == SignedOrderError(signed) = "none"
                      IN  /\ stage[r][i] \in {"insert", "announce", "accepted"} => passes
                          /\ stage[r][i] = "InvalidSignature" =>
                                ~passes \/ signed.signature.v \notin {27, 28}
    BY DEF SignaturesJudgedAlike
  <2>1. OrderInv(r, i)
    BY <1>1 DEF IInv, OrdersInv
  <2> QED
    BY <2>1, SignedOrderPasses DEF OrderInv, Genuine, Dubious
<1> QED
  BY <1>1, ApiInvariant, PTL

(* Whatever was submitted, in whichever notation and however often, every  *)
(* row is read back by get_orders as an order that was sent, under its     *)
(* hash and with its signature, and passes the checks of get_orders; and   *)
(* every event decodes to such an order, with what remains of it.          *)
THEOREM StoredAndSentAlike == Spec => []StoredAsSubmitted
<1>1. ASSUME IInv PROVE RowsAsSubmitted
  <2> SUFFICES ASSUME NEW h \in DOMAIN stored
               PROVE  /\ IsReadBack(stored[h])
                      /\ Build(Load(stored[h])).metadata.hash = h
                      /\ Build(Load(stored[h])).signed_order \in Sent
    BY DEF RowsAsSubmitted
  <2>1. PICK o \in Readable, report \in Reports :
           /\ Genuine(o) /\ h = Hash(SignedOrder[o].order)
           /\ stored[h] = RowOf(o, report.fillable)
    BY <1>1 DEF IInv, RowsInv
  <2>2. PICK n \in Nat : n = report.fillable /\ n < Values(2)
    BY ApiAssumption
  <2>3. LET tuple == Load(RowOf(o, n))
        IN  /\ IsReadBack(RowOf(o, n))
            /\ Build(tuple).metadata.hash = Hash(SignedOrder[o].order)
            /\ Build(tuple).signed_order = SignedOrder[o]
    BY <2>1, <2>2, RowReadBack
  <2> QED
    BY <2>1, <2>2, <2>3 DEF Sent
<1>2. ASSUME IInv PROVE EventsAsSubmitted
  <2> SUFFICES ASSUME NEW event \in announced
               PROVE  LET record == FromProto(event)
                      IN  /\ record.signed_order \in Sent
                          /\ record.metadata.hash = Hash(record.signed_order.order)
                          /\ record.metadata.hash \in DOMAIN stored
                          /\ [status |-> 1, fillable |-> record.metadata.remaining] \in Reports
    BY DEF EventsAsSubmitted
  <2>1. PICK o \in Readable, report \in Reports :
           /\ Genuine(o) /\ report.status = 1
           /\ Hash(SignedOrder[o].order) \in DOMAIN stored
           /\ event = EventOf(o, report.fillable)
    BY <1>2 DEF IInv, EventsInv
  <2>2. PICK n \in 0 .. Values(2) - 1 : n = report.fillable
    <3>1. report.fillable \in Nat /\ report.fillable < Values(2) /\ Values(2) \in Nat
      BY ApiAssumption, ValuesOf
    <3> QED
      BY <3>1
  <2>3. LET record == FromProto(EventOf(o, n))
        IN  /\ record.signed_order = SignedOrder[o]
            /\ record.metadata.hash = Hash(SignedOrder[o].order)
            /\ record.metadata.remaining = n
    BY <2>1, EventReadBack
  <2>4. [status |-> 1, fillable |-> n] \in Reports
    BY <2>1, <2>2, ApiAssumption
  <2> QED
    BY <2>1, <2>2, <2>3, <2>4 DEF Sent
<1>3. IInv => StoredAsSubmitted
  BY <1>1, <1>2 DEF StoredAsSubmitted
<1> QED
  BY <1>3, ApiInvariant, PTL

-----------------------------------------------------------------------------
(* The errors of an answer.                                                *)

(* The loop over the first n of the results s.                             *)
Gathers(errors, s, n) ==
    errors = [i \in 0 .. n |->
                IF i = 0 THEN <<>>
                ELSE IF s[i] \in Errors THEN Append(errors[i - 1], s[i])
                ELSE errors[i - 1]]

(* There is such a function: one for n results extends to the next.        *)
LEMMA GathersExists ==
    ASSUME NEW s, NEW n \in Nat
    PROVE  \E errors : Gathers(errors, s, n)
<1> DEFINE T == {k \in Nat : ~\E errors : Gathers(errors, s, k)}
<1>1. CASE T = {}
  BY <1>1
<1>2. CASE T # {}
  <2>1. PICK k \in T : \A m \in T : k <= m
    BY <1>2, SmallestElement
  <2>2. k \in Nat /\ ~\E errors : Gathers(errors, s, k)
    BY <2>1
  <2>3. k # 0
    <3>1. ASSUME k = 0 PROVE Gathers([i \in 0 .. 0 |-> <<>>], s, 0)
      BY DEF Gathers
    <3> QED
      BY <2>2, <3>1
  <2>4. PICK f : Gathers(f, s, k - 1)
    <3>1. k - 1 \in Nat /\ ~(k <= k - 1)
      BY <2>2, <2>3
    <3>2. k - 1 \notin T
      BY <2>1, <3>1
    <3> QED
      BY <3>1, <3>2
  <2> DEFINE last == IF s[k] \in Errors THEN Append(f[k - 1], s[k]) ELSE f[k - 1]
             g == [i \in 0 .. k |-> IF i = k THEN last ELSE f[i]]
  <2>5. ASSUME NEW i \in 0 .. k
        PROVE  g[i] = IF i = 0 THEN <<>>
                      ELSE IF s[i] \in Errors THEN Append(g[i - 1], s[i])
                      ELSE g[i - 1]
    <3>1. i # 0 => i - 1 \in 0 .. k /\ i - 1 # k /\ g[i - 1] = f[i - 1]
      BY <2>2
    <3>2. CASE i = k
      BY <2>2, <2>3, <3>1, <3>2
    <3>3. CASE i # k
      <4>1. i \in 0 .. k - 1 /\ g[i] = f[i]
        BY <2>2, <3>3
      <4>2. f[i] = IF i = 0 THEN <<>>
                   ELSE IF s[i] \in Errors THEN Append(f[i - 1], s[i])
                   ELSE f[i - 1]
        BY <2>4, <4>1 DEF Gathers
      <4> QED
        BY <3>1, <4>1, <4>2
    <3> QED
      BY <3>2, <3>3
  <2>6. Gathers(g, s, k)
    BY <2>5 DEF Gathers
  <2> QED
    BY <2>2, <2>6
<1> QED
  BY <1>1, <1>2

(* Places among the orders refused: the next order has the next one.       *)
LEMMA Places ==
    ASSUME NEW n \in Nat, NEW S \in SUBSET (1 .. n), NEW i \in Nat
    PROVE  /\ Place(i, S) \in Nat /\ Place(0, S) = 0 /\ Place(n, S) = Cardinality(S)
           /\ Place(i + 1, S) = IF i + 1 \in S THEN Place(i, S) + 1 ELSE Place(i, S)
           /\ Place(i, S) = i <=> 1 .. i \subseteq S
<1>1. \A j \in S : j \in Nat /\ 1 <= j /\ j <= n
  OBVIOUS
<1>2. PICK upto : upto = {j \in S : j <= i}
  OBVIOUS
<1>3. IsFiniteSet(1 .. i) /\ Cardinality(1 .. i) = i
  BY FS_Interval
<1>4. upto \subseteq 1 .. i /\ i + 1 \notin upto
  <2>1. ASSUME NEW j \in upto PROVE j \in 1 .. i /\ j # i + 1
    <3>1. j \in Nat /\ 1 <= j /\ j <= i
      BY <1>1, <1>2
    <3> QED
      BY <3>1
  <2> QED
    BY <2>1
<1>5. IsFiniteSet(upto) /\ (Cardinality(1 .. i) = Cardinality(upto) => 1 .. i = upto)
  BY <1>3, <1>4, FS_Subset
<1>6. Place(i, S) = Cardinality(upto) /\ Place(i, S) \in Nat
  BY <1>2, <1>5, FS_CardinalityType DEF Place
<1>7. Place(0, S) = 0
  <2>1. {j \in S : j <= 0} = {}
    <3>1. \A j \in S : ~(j <= 0)
      BY <1>1
    <3> QED
      BY <3>1
  <2> QED
    BY <2>1, FS_EmptySet DEF Place
<1>8. Place(n, S) = Cardinality(S)
  <2>1. {j \in S : j <= n} = S
    BY <1>1
  <2> QED
    BY <2>1 DEF Place
<1>9. Place(i + 1, S) = IF i + 1 \in S THEN Place(i, S) + 1 ELSE Place(i, S)
  <2>1. {j \in S : j <= i + 1} = IF i + 1 \in S THEN upto \cup {i + 1} ELSE upto
    <3>1. \A j \in S : j <= i + 1 <=> j <= i \/ j = i + 1
      BY <1>1
    <3>2. PICK next : next = {j \in S : j <= i + 1}
      OBVIOUS
    <3>3. \A j : j \in next <=> j \in upto \/ (j = i + 1 /\ j \in S)
      BY <1>2, <3>1, <3>2
    <3>4. next = IF i + 1 \in S THEN upto \cup {i + 1} ELSE upto
      BY <3>3
    <3> QED
      BY <3>2, <3>4
  <2>2. Place(i + 1, S) = Cardinality(IF i + 1 \in S THEN upto \cup {i + 1} ELSE upto)
    BY <2>1 DEF Place
  <2>3. Cardinality(upto \cup {i + 1}) = Cardinality(upto) + 1
    BY <1>4, <1>5, FS_AddElement
  <2> QED
    BY <1>6, <2>2, <2>3
<1>10. Place(i, S) = i <=> 1 .. i \subseteq S
  <2>1. 1 .. i = upto <=> 1 .. i \subseteq S
    BY <1>2, <1>4
  <2> QED
    BY <1>3, <1>5, <1>6, <2>1
<1> QED
  BY <1>6, <1>7, <1>8, <1>9, <1>10

(* Each order that was refused has its error, at its place.                *)
LEMMA RefusalsInOrder ==
    ASSUME NEW r, stage[r] \in Seq(Stages)
    PROVE  LET refused == Positions(r, Errors)
           IN  /\ Refusals(r) \in Seq(Errors)
               /\ Len(Refusals(r)) = Cardinality(refused)
               /\ \A i \in refused :
                     /\ Place(i, refused) \in 1 .. Cardinality(refused)
                     /\ Refusals(r)[Place(i, refused)] = stage[r][i]
<1>1. PICK s, n, S : s = stage[r] /\ n = Len(stage[r]) /\ S = Positions(r, Errors)
  OBVIOUS
<1>2. /\ n \in Nat /\ DOMAIN s = 1 .. n
      /\ S \in SUBSET (1 .. n) /\ \A i \in 1 .. n : i \in S <=> s[i] \in Errors
  <2>1. n \in Nat /\ DOMAIN s = 1 .. n
    BY <1>1, LenProperties
  <2> QED
    BY <1>1, <2>1 DEF Positions
<1>3. PICK errors : errors = CHOOSE f : Gathers(f, s, n)
  OBVIOUS
<1>4. Gathers(errors, s, n) /\ Refusals(r) = errors[n]
  <2>1. \E f : Gathers(f, s, n)
    BY <1>2, GathersExists
  <2>2. Gathers(errors, s, n)
    BY <1>3, <2>1
  <2>3. Refusals(r) = (CHOOSE f : Gathers(f, s, n))[n]
    BY <1>1 DEF Gathers, Refusals
  <2> QED
    BY <1>3, <2>2, <2>3
<1> DEFINE Good(i) == /\ errors[i] \in Seq(Errors)
                      /\ Len(errors[i]) = Place(i, S)
                      /\ \A j \in S : j <= i =>
                            /\ Place(j, S) \in 1 .. Place(i, S)
                            /\ errors[i][Place(j, S)] = s[j]
           T == {i \in Nat : i <= n /\ ~Good(i)}
<1>5. Good(0)
  <2>1. errors[0] = <<>>
    BY <1>2, <1>4 DEF Gathers
  <2>2. Place(0, S) = 0
    BY <1>2, Places
  <2>3. <<>> \in Seq(Errors) /\ Len(<<>>) = 0
    OBVIOUS
  <2> QED
    BY <1>2, <2>1, <2>2, <2>3
<1>6. ASSUME NEW i \in Nat, i + 1 <= n, Good(i) PROVE Good(i + 1)
  <2>1. PICK old, new, k : old = errors[i] /\ new = errors[i + 1] /\ k = Place(i, S)
    OBVIOUS
  <2>2. k \in Nat /\ Place(i + 1, S) = IF i + 1 \in S THEN k + 1 ELSE k
    BY <1>2, <2>1, Places
  <2>3. i + 1 \in 1 .. n /\ i + 1 \in 0 .. n /\ i + 1 # 0 /\ (i + 1) - 1 = i
    BY <1>2, <1>6
  <2>4. new = IF s[i + 1] \in Errors THEN Append(old, s[i + 1]) ELSE old
    BY <1>4, <2>1, <2>3 DEF Gathers
  <2>5. /\ old \in Seq(Errors) /\ Len(old) = k
        /\ \A j \in S : j <= i => Place(j, S) \in 1 .. k /\ old[Place(j, S)] = s[j]
    BY <1>6, <2>1
  <2>6. \A j \in S : j \in Nat /\ (j <= i + 1 <=> j <= i \/ j = i + 1)
    BY <1>2
  <2>7. CASE i + 1 \in S
    <3>1. s[i + 1] \in Errors /\ new = Append(old, s[i + 1]) /\ Place(i + 1, S) = k + 1
      BY <1>2, <2>2, <2>3, <2>4, <2>7
    <3>2. /\ new \in Seq(Errors) /\ Len(new) = k + 1
          /\ new[k + 1] = s[i + 1] /\ \A m \in 1 .. k : new[m] = old[m]
      BY <2>2, <2>5, <3>1
    <3>3. ASSUME NEW j \in S, j <= i + 1
          PROVE  Place(j, S) \in 1 .. k + 1 /\ new[Place(j, S)] = s[j]
      <4>1. CASE j <= i
        BY <2>2, <2>5, <3>2, <4>1
      <4>2. CASE j = i + 1
        BY <2>2, <3>1, <3>2, <4>2
      <4> QED
        BY <2>6, <3>3, <4>1, <4>2
    <3> QED
      BY <2>1, <3>1, <3>2, <3>3
  <2>8. CASE i + 1 \notin S
    <3>1. new = old /\ Place(i + 1, S) = k
      BY <1>2, <2>2, <2>3, <2>4, <2>8
    <3>2. \A j \in S : j <= i + 1 => j <= i
      BY <2>6, <2>8
    <3> QED
      BY <2>1, <2>5, <3>1, <3>2
  <2> QED
    BY <2>7, <2>8
<1>7. Good(n)
  <2> HIDE DEF Good
  <2>1. CASE T = {}
    BY <1>2, <2>1
  <2>2. CASE T # {}
    <3>1. PICK i \in T : \A m \in T : i <= m
      BY <2>2, SmallestElement
    <3>2. i \in Nat /\ i <= n /\ ~Good(i) /\ i # 0
      BY <1>5, <3>1
    <3>3. i - 1 \in Nat /\ i - 1 <= n /\ ~(i <= i - 1) /\ (i - 1) + 1 = i
      BY <1>2, <3>2
    <3>4. Good(i - 1)
      BY <3>1, <3>3
    <3>5. Good((i - 1) + 1)
      BY <1>6, <3>2, <3>3, <3>4
    <3> QED
      BY <3>2, <3>3, <3>5
  <2> QED
    BY <2>1, <2>2
<1>8. Place(n, S) = Cardinality(S) /\ \A j \in S : j <= n
  BY <1>2, Places
<1> QED
  BY <1>1, <1>4, <1>7, <1>8

(* A client can trust its answer: after "ok" all its orders were stored    *)
(* and announced; after validation errors there is one for each order that *)
(* was refused, in the order of the orders, with the right field exactly   *)
(* when all orders before it were refused too, and all others were stored  *)
(* and announced.                                                          *)
THEOREM AnswersAreTrue == Spec => []AnswerFitsOutcomes
<1>1. ASSUME IInv PROVE AnswerFitsOutcomes
  <2> SUFFICES ASSUME NEW r \in Requests, answer[r].error \in {"ok", "OrderInvalid"}
               PROVE  LET a == answer[r]
                          refused == Positions(r, Errors)
                      IN  /\ (a.error = "ok") = (refused = {})
                          /\ Len(a.errors) = Cardinality(refused)
                          /\ \A i \in refused :
                                LET error == a.errors[Place(i, refused)]
                                IN  /\ error.code = ErrorCode(stage[r][i])
                                    /\ (error.field = i - 1) = (1 .. i \subseteq refused)
                          /\ \A i \in DOMAIN stage[r] \ refused :
                                /\ state[r][i].hash \in DOMAIN stored
                                /\ IntoProto(Record(r, i)) \in announced
    BY DEF AnswerFitsOutcomes
  <2>1. PICK a, S : a = answer[r] /\ S = Positions(r, Errors)
    OBVIOUS
  <2>2. a = Outcome(r) /\ Positions(r, {"internal"}) = {}
    BY <1>1, <2>1, OutcomeIsAnAnswer DEF IInv, AnswerInv
  <2>3. (a.error = "ok") = (S = {})
    BY <2>1, <2>2, OutcomeIsAnAnswer
  <2>4. ASSUME NEW i \in DOMAIN stage[r] \ S
        PROVE  state[r][i].hash \in DOMAIN stored /\ IntoProto(Record(r, i)) \in announced
    <3>1. answer[r] # Pending
      BY DEF Pending, Response
    <3>2. Done(r, i)
      BY <1>1, <3>1 DEF IInv, PhaseInv, Shape
    <3>3. stage[r][i] \notin Errors /\ stage[r][i] # "internal"
      BY <2>1, <2>2 DEF Positions
    <3>4. stage[r][i] = "accepted"
      BY <3>2, <3>3 DEF Done, Results
    <3> QED
      BY <1>1, <3>4 DEF IInv, OrdersInv, OrderInv
  <2>5. stage[r] \in Seq(Stages)
    BY <1>1 DEF IInv, Shape
  <2>6. PICK n \in Nat : S \in SUBSET (1 .. n)
    <3>1. DOMAIN stage[r] = 1 .. Len(stage[r]) /\ Len(stage[r]) \in Nat
      BY <2>5, LenProperties
    <3> QED
      BY <2>1, <3>1 DEF Positions
  <2>7. CASE a.error = "ok"
    <3>1. a.errors = <<>> /\ S = {}
      <4>1. a = Response("ok", 0, 200, <<>>)
        BY <2>2, <2>7, OutcomeIsAnAnswer
      <4>2. Response("ok", 0, 200, <<>>).errors = <<>>
        BY DEF Response
      <4> QED
        BY <2>3, <2>7, <4>1, <4>2
    <3>2. Len(a.errors) = Cardinality(S)
      BY <3>1, FS_EmptySet
    <3> QED
      BY <2>1, <2>3, <2>4, <3>1, <3>2
  <2>8. CASE a.error = "OrderInvalid"
    <3>1. PICK errors : errors = Refusals(r)
      OBVIOUS
    <3>2. /\ errors \in Seq(Errors) /\ Len(errors) = Cardinality(S)
          /\ \A i \in S : /\ Place(i, S) \in 1 .. Len(errors)
                          /\ errors[Place(i, S)] = stage[r][i]
      BY <2>1, <2>5, <3>1, RefusalsInOrder
    <3>3. /\ Len(errors) \in Nat /\ DOMAIN errors = 1 .. Len(errors)
          /\ a.errors = [k \in 1 .. Len(errors) |->
                            [code |-> ErrorCode(errors[k]), field |-> k - 1]]
      <4>1. Len(errors) \in Nat /\ DOMAIN errors = 1 .. Len(errors)
        BY <3>2, LenProperties
      <4>2. a = Response("OrderInvalid", 100, 400, errors)
        BY <2>2, <2>8, <3>1, OutcomeIsAnAnswer
      <4> QED
        BY <4>1, <4>2 DEF Response
    <3>4. Len(a.errors) = Cardinality(S)
      BY <3>2, <3>3
    <3>5. ASSUME NEW i \in S
          PROVE  /\ a.errors[Place(i, S)].code = ErrorCode(stage[r][i])
                 /\ (a.errors[Place(i, S)].field = i - 1) = (1 .. i \subseteq S)
      <4>1. PICK k : k = Place(i, S)
        OBVIOUS
      <4>2. k \in 1 .. Len(errors) /\ errors[k] = stage[r][i]
        BY <3>2, <4>1
      <4>3. a.errors[k] = [code |-> ErrorCode(errors[k]), field |-> k - 1]
        BY <3>3, <4>2
      <4>4. i \in Nat /\ (k = i <=> 1 .. i \subseteq S)
        <5>1. i \in Nat
          BY <2>6
        <5> QED
          BY <2>6, <4>1, <5>1, Places
      <4>5. k - 1 = i - 1 <=> k = i
        BY <3>3, <4>2, <4>4
      <4> QED
        BY <4>1, <4>2, <4>3, <4>4, <4>5
    <3> QED
      BY <2>1, <2>3, <2>4, <3>4, <3>5
  <2> QED
    BY <2>1, <2>7, <2>8
<1> QED
  BY <1>1, ApiInvariant, PTL
=============================================================================
