----------------------------- MODULE OrderCodec -----------------------------
(***************************************************************************)
(* An order and the forms it takes on its way through the order watcher:   *)
(* the JSON a client sends, the arguments and results of the contract      *)
(* call, the row of the table and the protobuf event; and the checks made  *)
(* of it in between (order-watcher/src/orders/, database/queryable.rs,     *)
(* ethereum/abi_coding.rs, utils/serde.rs; types/src/*_proto.rs).          *)
(*                                                                         *)
(* Most columns, tokens and arguments have the same type, so nothing but   *)
(* their names and positions keeps them apart.  Hashes and signatures are  *)
(* abstract: a hash is what was hashed, and r names the signer and the     *)
(* message.  A number in a text keeps its radix, and a limb has LimbBase   *)
(* values instead of 2^64.                                                 *)
(***************************************************************************)
EXTENDS Integers, Sequences, FiniteSets, SequencesExt

CONSTANTS
    LimbBase,     \* the values of a 64 bit limb
    ChainId,      \* ChainInfo: the chain,
    Exchange,     \*   the contract
    FlashWallet,  \*   and a taker that is refused
    ZeroAddress,
    Nobody        \* recovered from a signature of something else; no order's maker

ASSUME CodecAssumption ==
    /\ LimbBase \in Nat \ {0, 1}
    /\ ChainId \in 0 .. LimbBase - 1
    /\ Exchange # ZeroAddress /\ FlashWallet # ZeroAddress

-----------------------------------------------------------------------------
(* Orders                                                                  *)

U128Fields    == {"maker_amount", "taker_amount", "taker_token_fee_amount"}
AddressFields == {"maker", "taker", "maker_token", "taker_token",
                  "fee_recipient", "sender", "verifying_contract"}
LimitOrder    == AddressFields \cup U128Fields
                     \cup {"expiry", "salt", "pool", "chain_id"}

(* The number of limbs of a field that is written in decimal.              *)
Width(f) == IF f \in U128Fields THEN 2 ELSE IF f = "salt" THEN 4 ELSE 1
DecimalFields == U128Fields \cup {"expiry", "salt"}

DomainHash(order) == <<order.chain_id, order.verifying_contract>>

StructHash(order) ==
    <<order.maker_token, order.taker_token, order.maker_amount,
      order.taker_amount, order.taker_token_fee_amount, order.maker,
      order.taker, order.sender, order.fee_recipient, order.pool,
      order.expiry, order.salt>>

Hash(order) == <<DomainHash(order), StructHash(order)>>

(* The first failed check of a sequence of <<check, error>>, or "none".    *)
FirstError(checks) ==
    LET failed == {i \in DOMAIN checks : ~checks[i][1]}
    IN  IF failed = {} THEN "none" ELSE checks[Min(failed)][2]

(* LimitOrder::validate *)
OrderError(order) == FirstError(<<
    <<order.maker_amount # 0,               "ZeroMakerAmount">>,
    <<order.taker_amount # 0,               "ZeroTakerAmount">>,
    <<order.maker # ZeroAddress,            "InvalidMakerAddress">>,
    <<order.taker # FlashWallet,            "InvalidTakerAddress">>,
    <<order.chain_id = ChainId,             "InvalidVerifyingContract">>,
    <<order.verifying_contract = Exchange,  "InvalidVerifyingContract">> >>)

SignatureCode(type) == IF type = "EIP712" THEN 2 ELSE 3
SignatureOf(code)   == IF code = 2 THEN "EIP712" ELSE "EthSign"

(* What is signed: the hash of the order, prefixed or not.                 *)
Message(type, hash) == [prefixed |-> type = "EthSign", hash |-> hash]

(* web3's recovery id of v; -1 is none.                                    *)
RecoveryId(v) ==
    IF v \in {27, 28} THEN v - 27 ELSE IF v >= 35 THEN (v - 1) % 2 ELSE -1

(* The elliptic curve: r names the signer and the message, s the parity.   *)
Ecrecover(message, signature) ==
    IF signature.r.message = message /\ signature.s = RecoveryId(signature.v)
    THEN signature.r.signer ELSE Nobody

Recover(signature, hash) ==
    IF RecoveryId(signature.v) = -1 THEN Nobody
    ELSE Ecrecover(Message(signature.signature_type, hash), signature)

(* SignedOrder::validate *)
SignedOrderError(signed) == FirstError(<<
    <<OrderError(signed.order) = "none", OrderError(signed.order)>>,
    <<Recover(signed.signature, Hash(signed.order)) = signed.order.maker,
      "InvalidSignature">> >>)

-----------------------------------------------------------------------------
(* JSON: a field may be missing, a number may be of either radix, none or  *)
(* too large.                                                              *)

Decimal(n)     == [radix |-> "dec", value |-> n]
Hexadecimal(x) == [radix |-> "hex", value |-> x]

(* How many values so many limbs have.                                     *)
Values(limbs) ==
    CASE limbs = 0 -> 1
      [] limbs = 1 -> LimbBase
      [] limbs = 2 -> LimbBase * LimbBase
      [] limbs = 3 -> LimbBase * LimbBase * LimbBase
      [] limbs = 4 -> LimbBase * LimbBase * LimbBase * LimbBase

IsNumber(text, limbs) ==
    text.radix \in {"dec", "hex"} /\ text.value \in 0 .. Values(limbs) - 1

Deserializes(doc) ==
    /\ LimitOrder \cup {"signature"} \subseteq DOMAIN doc
    /\ \A f \in DecimalFields : IsNumber(doc[f], Width(f))
    /\ doc.chain_id < LimbBase
    /\ doc.signature.type \in {2, 3}
    /\ doc.signature.v < 256

Deserialize(doc) ==
    [order |-> [f \in LimitOrder |->
         IF f \in DecimalFields THEN doc[f].value ELSE doc[f]],
     signature |->
         [signature_type |-> SignatureOf(doc.signature.type),
          v |-> doc.signature.v, r |-> doc.signature.r, s |-> doc.signature.s]]

-----------------------------------------------------------------------------
(* The contract call                                                       *)

(* Mutant of IntoTokens: fee_recipient and sender change places.           *)
MutantIntoTokens(signed) ==
    LET o == signed.order
        s == signed.signature
    IN  [order |->
           <<o.maker_token, o.taker_token, o.maker_amount, o.taker_amount,
             o.taker_token_fee_amount, o.maker, o.taker, o.fee_recipient,
             o.sender, o.pool, o.expiry, o.salt>>,
         signature |-> <<SignatureCode(s.signature_type), s.v, s.r, s.s>>]

(* Input::into_tokens *)
IntoTokens(signed) ==
    LET o == signed.order
        s == signed.signature
    IN  [order |->
           <<o.maker_token, o.taker_token, o.maker_amount, o.taker_amount,
             o.taker_token_fee_amount, o.maker, o.taker, o.sender,
             o.fee_recipient, o.pool, o.expiry, o.salt>>,
         signature |-> <<SignatureCode(s.signature_type), s.v, s.r, s.s>>]

(* The contract: the order it was given, of its own chain and address, and *)
(* its answer about it.                                                    *)
AbiOrder ==
    <<"maker_token", "taker_token", "maker_amount", "taker_amount",
      "taker_token_fee_amount", "maker", "taker", "sender", "fee_recipient",
      "pool", "expiry", "salt">>

AbiDecode(tokens) ==
    [f \in LimitOrder |->
        CASE f = "chain_id"           -> ChainId
          [] f = "verifying_contract" -> Exchange
          [] OTHER -> tokens[CHOOSE i \in DOMAIN AbiOrder : AbiOrder[i] = f]]

RelevantState(tokens, report) ==
    LET order == AbiDecode(tokens.order)
        t == tokens.signature
        signature == [signature_type |-> SignatureOf(t[1]), v |-> t[2],
                      r |-> t[3], s |-> t[4]]
    IN  <<[hash |-> Hash(order), status |-> report.status], report.fillable,
          t[2] \in {27, 28} /\ Recover(signature, Hash(order)) = order.maker>>

(* decode_status, from 0                                                   *)
Statuses == <<"Invalid", "Fillable", "FullyFilled", "Cancelled", "Expired">>

(* Output::from_tokens, for one order                                      *)
FromTokens(output) ==
    [hash |-> output[1].hash, status |-> Statuses[output[1].status + 1],
     fillable |-> output[2], is_signature_valid |-> output[3]]

(* SignedOrderState::validate *)
StateError(state) == FirstError(<<
    <<state.is_signature_valid,        "InvalidSignature">>,
    <<state.status # "Invalid",        "Unfunded">>,
    <<state.status # "FullyFilled",    "FullyFilled">>,
    <<state.status # "Cancelled",      "Cancelled">>,
    <<state.status # "Expired",        "Expired">> >>)

-----------------------------------------------------------------------------
(* The row                                                                 *)

(* The texts insert_order writes, by the name of the column.  The          *)
(* signature is one text of four parts; timestamps keep microseconds;      *)
(* the chain id has no column.                                             *)
IntoRow(record) ==
    LET order == record.signed_order.order
        s == record.signed_order.signature
    IN  [c \in (LimitOrder \ {"chain_id"}) \cup
               {"hash", "signature", "remaining", "created_at", "invalid_since"} |->
          CASE c = "hash" -> Hexadecimal(record.metadata.hash)
            [] c = "signature" ->
                 <<Decimal(SignatureCode(s.signature_type)), Hexadecimal(s.r),
                   Hexadecimal(s.s), Decimal(s.v)>>
            [] c = "remaining" -> Decimal(record.metadata.remaining)
            [] c = "created_at" -> record.metadata.created_at.micros
            [] c = "invalid_since" -> "NULL"
            [] c \in DecimalFields -> Decimal(order[c])
            [] OTHER -> Hexadecimal(order[c])]

(* The columns of the table, in order.                                     *)
Columns ==
    <<"hash", "maker_token", "taker_token", "maker_amount", "taker_amount",
      "maker", "taker", "pool", "expiry", "salt", "verifying_contract",
      "taker_token_fee_amount", "sender", "fee_recipient", "signature",
      "remaining", "created_at", "invalid_since">>

Load(row) == [i \in DOMAIN Columns |-> row[Columns[i]]]

(* Mutant of Pattern: fee_recipient and sender are as in the protobuf.     *)
MutantPattern ==
    <<"hash", "maker_token", "taker_token", "maker_amount", "taker_amount",
      "maker", "taker", "pool", "expiry", "salt", "verifying_contract",
      "taker_token_fee_amount", "fee_recipient", "sender", "signature",
      "remaining", "created_at", "invalid_since">>

(* The pattern that takes a loaded tuple apart.                            *)
Pattern ==
    <<"hash", "maker_token", "taker_token", "maker_amount", "taker_amount",
      "maker", "taker", "pool", "expiry", "salt", "verifying_contract",
      "taker_token_fee_amount", "sender", "fee_recipient", "signature",
      "remaining", "created_at", "invalid_since">>

Named(tuple, name) == tuple[CHOOSE i \in DOMAIN Pattern : Pattern[i] = name]

(* The parse functions: anything but a decimal number that fits, or a      *)
(* prefixed hexadecimal one, is a panic.                                   *)
Builds(tuple) ==
    /\ \A f \in DecimalFields :
          Named(tuple, f).radix = "dec" /\ IsNumber(Named(tuple, f), Width(f))
    /\ \A f \in AddressFields \cup {"hash", "pool"} : Named(tuple, f).radix = "hex"
    /\ IsNumber(Named(tuple, "remaining"), 2)
    /\ Len(Named(tuple, "signature")) = 4
    /\ Named(tuple, "signature")[1].value \in {2, 3}

(* SignedOrderWithMetadata::build, and the chain id that get_orders adds   *)
Build(tuple) ==
    LET s == Named(tuple, "signature")
    IN  [signed_order |->
           [order |-> [f \in LimitOrder |->
                IF f = "chain_id" THEN ChainId ELSE Named(tuple, f).value],
            signature |->
                [signature_type |-> SignatureOf(s[1].value), v |-> s[4].value,
                 r |-> s[2].value, s |-> s[3].value]],
         metadata |->
           [hash |-> Named(tuple, "hash").value,
            remaining |-> Named(tuple, "remaining").value,
            status |-> IF Named(tuple, "invalid_since") = "NULL"
                       THEN "Fillable" ELSE "Invalid",
            created_at |-> [micros |-> Named(tuple, "created_at"), nanos |-> 0]]]

(* The checks of get_orders                                                *)
IsReadBack(row) ==
    /\ Builds(Load(row))
    /\ LET record == Build(Load(row))
       IN  /\ record.metadata.hash = Hash(record.signed_order.order)
           /\ SignedOrderError(record.signed_order) = "none"

-----------------------------------------------------------------------------
(* The event                                                               *)

Some(x)   == <<x>>
Unwrap(p) == Head(p)

IntoLimbs(n, width) ==
    [i \in 1 .. width |-> (n \div Values(i - 1)) % LimbBase]
FromLimbs(limbs) == FoldRight(LAMBDA limb, n : limb + LimbBase * n, limbs, 0)

SignatureTypeProto == <<"EIP712", "EthSign">>
OrderStatusProto ==
    <<"Added", "Invalid", "Fillable", "FullyFilled", "Cancelled", "Expired">>
EnumNumber(enum, name) == (CHOOSE i \in DOMAIN enum : enum[i] = name) - 1

IntoProto(record) ==
    LET order == record.signed_order.order
        s == record.signed_order.signature
        m == record.metadata
    IN  [limit_order |-> Some([f \in LimitOrder |->
             CASE f \in {"expiry", "chain_id"} -> order[f]
               [] f \in U128Fields \cup {"salt"} -> Some(IntoLimbs(order[f], Width(f)))
               [] OTHER -> Some(order[f])]),
         signature |-> Some(
             [type |-> EnumNumber(SignatureTypeProto, s.signature_type),
              v |-> s.v, r |-> Some(s.r), s |-> Some(s.s)]),
         metadata |-> Some(
             [hash |-> Some(m.hash), remaining |-> Some(IntoLimbs(m.remaining, 2)),
              order_status |-> EnumNumber(OrderStatusProto, m.status),
              created_at |-> Some(m.created_at)])]

FromProto(event) ==
    LET order == Unwrap(event.limit_order)
        s == Unwrap(event.signature)
        m == Unwrap(event.metadata)
    IN  [signed_order |->
           [order |-> [f \in LimitOrder |->
                CASE f \in {"expiry", "chain_id"} -> order[f]
                  [] f \in U128Fields \cup {"salt"} -> FromLimbs(Unwrap(order[f]))
                  [] OTHER -> Unwrap(order[f])],
            signature |->
                [signature_type |-> SignatureTypeProto[s.type + 1],
                 v |-> s.v, r |-> Unwrap(s.r), s |-> Unwrap(s.s)]],
         metadata |->
           [hash |-> Unwrap(m.hash), remaining |-> FromLimbs(Unwrap(m.remaining)),
            status |-> OrderStatusProto[m.order_status + 1],
            created_at |-> Unwrap(m.created_at)]]
=============================================================================
