---------------------------- MODULE MCSubmitApi ----------------------------
(***************************************************************************)
(* The requests TLC tries.  Alice's order is sent twice, with signatures   *)
(* of both types and in both radices; other orders are refused by each of  *)
(* the checks, or cannot be deserialized; one has a v as in EIP-155,       *)
(* which only the local check takes.  Batches are longer than the buffer,  *)
(* and there is one request for each reason to refuse it.                  *)
(***************************************************************************)
EXTENDS SubmitApi

OrderOf(maker) ==
    [maker |-> maker, taker |-> ZeroAddress, maker_token |-> "weth",
     taker_token |-> "dai", maker_amount |-> 1, taker_amount |-> 6,
     taker_token_fee_amount |-> 2, fee_recipient |-> "recipient",
     sender |-> "sender", verifying_contract |-> Exchange, pool |-> "pool",
     expiry |-> 3, salt |-> 27, chain_id |-> ChainId]

(* An order as JSON, signed by its maker or by another.                    *)
Json(order, Write(_), type, signer, v) ==
    [f \in LimitOrder \cup {"signature"} |->
        IF f \in DecimalFields THEN Write(order[f])
        ELSE IF f # "signature" THEN order[f]
        ELSE [type |-> SignatureCode(type), v |-> v, s |-> RecoveryId(v),
              r |-> [signer |-> signer, message |-> Message(type, Hash(order))]]]

alice     == Json(OrderOf("alice"), Decimal, "EIP712", "alice", 27)
prefixed  == Json(OrderOf("alice"), Hexadecimal, "EthSign", "alice", 28)
bob       == Json(OrderOf("bob"), Decimal, "EthSign", "bob", 27)
forged    == Json(OrderOf("bob"), Decimal, "EIP712", "alice", 27)
eip155    == Json(OrderOf("bob"), Decimal, "EIP712", "bob", 38)
elsewhere == Json([OrderOf("bob") EXCEPT !.chain_id = 2], Decimal, "EIP712", "bob", 27)
nothing   == Json([OrderOf("bob") EXCEPT !.taker_amount = 0], Decimal, "EIP712", "bob", 28)
huge      == Json([OrderOf("bob") EXCEPT !.expiry = LimbBase], Decimal, "EIP712", "bob", 28)
unknown   == [alice EXCEPT !["signature"].type = 5]

Batch(path, orders) ==
    [path |-> path, post |-> TRUE, json |-> TRUE, body |-> "ok", orders |-> orders]

Served == {
    Batch("/order", <<"prefixed">>),
    Batch("/order", <<"bob">>),
    Batch("/orders", <<>>),
    Batch("/orders", <<"elsewhere", "nothing", "eip155">>),
    Batch("/orders", <<"alice", "forged", "prefixed">>)}

Refused == {
    [Batch("other", <<"alice">>) EXCEPT !.post = FALSE],
    [Batch("/order", <<"alice">>) EXCEPT !.post = FALSE, !.json = FALSE],
    [Batch("/orders", <<"alice">>) EXCEPT !.json = FALSE],
    [Batch("/orders", <<"alice">>) EXCEPT !.body = "broken"],
    Batch("/orders", <<"alice", "huge">>),
    Batch("/order", <<"unknown">>)}

MCInputs == Served \cup Refused
MCDocument ==
    [alice |-> alice, prefixed |-> prefixed, bob |-> bob, forged |-> forged,
     eip155 |-> eip155, elsewhere |-> elsewhere, nothing |-> nothing, huge |-> huge, unknown |-> unknown]
MCOrders == DOMAIN MCDocument

(* Fillable for more than a limb holds, or unfunded.                       *)
MCReports == {[status |-> 1, fillable |-> 6], [status |-> 0, fillable |-> 0]}
=============================================================================
