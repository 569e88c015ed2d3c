----------------------------- MODULE SubmitApi -----------------------------
(***************************************************************************)
(* The submission API of the order watcher (order-watcher/src/api/) and    *)
(* App::orders, which runs App::order for every order of a batch, a        *)
(* bounded number of them at a time, and makes one answer of the results.  *)
(*                                                                         *)
(* An order of a request goes through the await points of App::order:      *)
(* fetch its state, insert its row, announce it.  It does so in the forms  *)
(* of OrderCodec.tla, from the JSON of its client to the contract's        *)
(* tokens, the columns of its row and its event.  A client that            *)
(* disconnects drops its request at whatever await points its orders are.  *)
(* What becomes of rows at later blocks is the subject of OrderWatcher.tla.*)
(***************************************************************************)
EXTENDS OrderCodec

CONSTANTS
    Requests,    \* HTTP requests
    Inputs,      \* what a client may send
    Orders,      \* the orders that clients write down
    Document,    \* Document[o]: the JSON of order o
    Reports,     \* what the contract may say of an order's state
    Concurrent,  \* CONCURRENT of App::orders
    MaxOrders    \* bound: orders in a request

(* A request: its path, is it a POST, has it the JSON content type, how    *)
(* does reading its body go, and the orders in it ("/order" has one).      *)
Input == [path : {"/order", "/orders", "other"}, post : BOOLEAN, json : BOOLEAN,
          body : {"ok", "broken"}, orders : Seq(Orders)]

ASSUME ApiAssumption ==
    /\ DOMAIN Document = Orders
    /\ Reports \subseteq [status : 0 .. 4, fillable : Nat]
    /\ \A report \in Reports : report.fillable < Values(2)
    /\ Concurrent \in Nat \ {0}
    /\ MaxOrders \in Nat
    /\ \A in \in Inputs :
          /\ in \in Input /\ Len(in.orders) <= MaxOrders
          /\ in.path = "/order" => Len(in.orders) = 1

VARIABLES
    phase,      \* phase[r]: "idle", "serving", "answered" or "dropped"
    input,      \* input[r]: what the client of r sent
    stage,      \* stage[r][i]: how far App::order is with order i of r
    state,      \* state[r][i]: the state that was fetched for it
    answer,     \* answer[r]: the response to r
    stored,     \* stored[h]: the row with hash h
    announced   \* the Added events

vars == <<phase, input, stage, state, answer, stored, announced>>

Running == {"fetch", "insert", "announce"}

(* orders::Error                                                           *)
Errors ==
    {"ZeroMakerAmount", "ZeroTakerAmount", "InvalidMakerAddress",
     "InvalidTakerAddress", "InvalidVerifyingContract", "InvalidSignature",
     "Cancelled", "Expired", "Unfunded", "FullyFilled"}

(* What App::order may return.                                             *)
Results == {"accepted", "internal"} \cup Errors

(* ValidationError::from, error_code                                       *)
ErrorCode(e) ==
    CASE e = "InvalidSignature"         -> 1005
      [] e = "InvalidVerifyingContract" -> 1008
      [] OTHER                          -> 1007

(* The error, its code in the response, the HTTP status, and the           *)
(* validation errors, whose fields are counted from 0.                     *)
Response(error, code, status, errors) ==
    [error |-> error, code |-> code, status |-> status,
     errors |-> [k \in DOMAIN errors |->
                    [code |-> ErrorCode(errors[k]), field |-> k - 1]]]

Pending == Response("none", 0, 0, <<>>)

NoState == [hash |-> <<>>, fillable |-> 0]

-----------------------------------------------------------------------------
(* The documents that are orders, what they are read as, and what the      *)
(* contract's answer to them is read as.                                   *)
Readable == {o \in Orders : Deserializes(Document[o])}

SignedOrder == [o \in Readable |-> Deserialize(Document[o])]

FetchState == [o \in Readable |-> [report \in Reports |->
    FromTokens(RelevantState(IntoTokens(SignedOrder[o]), report))]]

Init ==
    /\ phase = [r \in Requests |-> "idle"]
    /\ input \in [Requests -> Inputs]
    /\ stage = [r \in Requests |-> <<>>]
    /\ state = [r \in Requests |-> <<>>]
    /\ answer = [r \in Requests |-> Pending]
    /\ stored = <<>> /\ announced = {}

(* route and json_middleware: the first check that fails.                  *)
Refusal(in) ==
    IF in.path = "other" THEN Response("NotFound", 404, 404, <<>>)
    ELSE IF ~in.post THEN Response("InvalidMethod", 405, 405, <<>>)
    ELSE IF ~in.json THEN Response("InvalidContentType", 400, 400, <<>>)
    ELSE IF in.body = "broken" THEN Response("Http", 400, 400, <<>>)
    ELSE IF \E i \in DOMAIN in.orders : in.orders[i] \notin Readable
    THEN Response("Json", 101, 400, <<>>)
    ELSE Pending

Receive(r) ==
    LET refusal == Refusal(input[r])
    IN  /\ phase[r] = "idle"
        /\ IF refusal = Pending
           THEN /\ phase' = [phase EXCEPT ![r] = "serving"]
                /\ stage' = [stage EXCEPT ![r] = [i \in DOMAIN input[r].orders |-> "waiting"]]
                /\ state' = [state EXCEPT ![r] = [i \in DOMAIN input[r].orders |-> NoState]]
                /\ UNCHANGED answer
           ELSE /\ phase' = [phase EXCEPT ![r] = "answered"]
                /\ answer' = [answer EXCEPT ![r] = refusal]
                /\ UNCHANGED <<stage, state>>
        /\ UNCHANGED <<input, stored, announced>>

-----------------------------------------------------------------------------
(* The buffered stream of App::orders                                      *)

Done(r, i) == stage[r][i] \in Results

(* Mutant of Yielded: rejected orders keep their place in the buffer.      *)
MutantYielded(r) ==
    Cardinality({i \in DOMAIN stage[r] :
        \A j \in 1 .. i : stage[r][j] = "accepted"})

(* Results leave the buffer in the order of the orders.                    *)
Yielded(r) ==
    Cardinality({i \in DOMAIN stage[r] : \A j \in 1 .. i : Done(r, j)})

(* Mutant of MayStart: one more than CONCURRENT.                           *)
MutantMayStart(r, i) ==
    /\ i <= Yielded(r) + Concurrent + 1
    /\ \A j \in 1 .. i - 1 : stage[r][j] # "waiting"

(* An order enters the buffer after those before it, when there is room.   *)
MayStart(r, i) ==
    /\ i <= Yielded(r) + Concurrent
    /\ \A j \in 1 .. i - 1 : stage[r][j] # "waiting"

At(r, i, s) ==
    phase[r] = "serving" /\ i \in DOMAIN stage[r] /\ stage[r][i] = s

Move(r, i, s) == stage' = [stage EXCEPT ![r][i] = s]

(* App::order up to its first await point: LimitOrder::validate.           *)
Start(r, i) ==
    /\ At(r, i, "waiting") /\ MayStart(r, i)
    /\ LET error == OrderError(SignedOrder[input[r].orders[i]].order)
       IN  Move(r, i, IF error = "none" THEN "fetch" ELSE error)
    /\ UNCHANGED <<phase, input, state, answer, stored, announced>>

(* The state is fetched, and validated.                                    *)
Fetched(r, i) ==
    /\ At(r, i, "fetch")
    /\ \E report \in Reports :
          LET fetched == FetchState[input[r].orders[i]][report]
              error   == StateError(fetched)
          IN  IF error = "none"
              THEN /\ Move(r, i, "insert")
                   /\ state' = [state EXCEPT ![r][i] =
                          [hash |-> fetched.hash, fillable |-> fetched.fillable]]
              ELSE Move(r, i, error) /\ UNCHANGED state
    /\ UNCHANGED <<phase, input, answer, stored, announced>>

(* The order with its metadata, received at some time.                     *)
Record(r, i) ==
    [signed_order |-> SignedOrder[input[r].orders[i]],
     metadata |-> [hash |-> state[r][i].hash, remaining |-> state[r][i].fillable,
                   status |-> "Added", created_at |-> [micros |-> 1, nanos |-> 1]]]

(* insert_order: the remaining amount is all that changes in an old row.   *)
Insert(row) ==
    LET hash == row.hash.value
    IN  stored' = [h \in DOMAIN stored \cup {hash} |->
            IF h # hash THEN stored[h]
            ELSE IF h \in DOMAIN stored
            THEN [stored[h] EXCEPT !["remaining"] = row["remaining"]]
            ELSE row]

Inserted(r, i) ==
    /\ At(r, i, "insert")
    /\ Insert(IntoRow(Record(r, i)))
    /\ Move(r, i, "announce")
    /\ UNCHANGED <<phase, input, state, answer, announced>>

Announced(r, i) ==
    /\ At(r, i, "announce")
    /\ announced' = announced \cup {IntoProto(Record(r, i))}
    /\ Move(r, i, "accepted")
    /\ UNCHANGED <<phase, input, state, answer, stored>>

(* An internal error: what was done so far stays done.                     *)
Fails(r, i) ==
    /\ \E s \in Running : At(r, i, s)
    /\ Move(r, i, "internal")
    /\ UNCHANGED <<phase, input, state, answer, stored, announced>>

-----------------------------------------------------------------------------
(* The answer                                                              *)

Positions(r, S) == {i \in DOMAIN stage[r] : stage[r][i] \in S}

(* All results are collected before any is looked at.                      *)
Collected(r) == \A i \in DOMAIN stage[r] : Done(r, i)

(* The loop over the results gathers the errors of the orders that were    *)
(* refused.                                                                *)
Refusals(r) ==
    LET errors[n \in 0 .. Len(stage[r])] ==
            IF n = 0 THEN <<>>
            ELSE IF stage[r][n] \in Errors THEN Append(errors[n - 1], stage[r][n])
            ELSE errors[n - 1]
    IN  errors[Len(stage[r])]

(* App::orders: failed                                                     *)
Failed(r) == \E i \in DOMAIN stage[r] : stage[r][i] \in Errors

(* Mutant of Outcome: validation errors are reported before internal ones. *)
MutantOutcome(r) ==
    IF Failed(r) THEN Response("OrderInvalid", 100, 400, Refusals(r))
    ELSE IF Positions(r, {"internal"}) # {} THEN Response("InternalError", 400, 400, <<>>)
    ELSE Response("ok", 0, 200, <<>>)

(* An internal error is the answer to the whole batch; otherwise all       *)
(* validation errors are.                                                  *)
Outcome(r) ==
    IF Positions(r, {"internal"}) # {} THEN Response("InternalError", 400, 400, <<>>)
    ELSE IF Failed(r) THEN Response("OrderInvalid", 100, 400, Refusals(r))
    ELSE Response("ok", 0, 200, <<>>)

Respond(r) ==
    /\ phase[r] = "serving" /\ Collected(r)
    /\ phase' = [phase EXCEPT ![r] = "answered"]
    /\ answer' = [answer EXCEPT ![r] = Outcome(r)]
    /\ UNCHANGED <<input, stage, state, stored, announced>>

(* The client disconnects, and the futures of its orders are dropped.      *)
Disconnect(r) ==
    /\ phase[r] = "serving"
    /\ phase' = [phase EXCEPT ![r] = "dropped"]
    /\ UNCHANGED <<input, stage, state, answer, stored, announced>>

(* A query or a message that was handed over takes effect although the     *)
(* future that waited for it is gone.                                      *)
TakesEffect(r, i) ==
    /\ phase[r] = "dropped" /\ i \in DOMAIN stage[r]
    /\ \/ /\ stage[r][i] = "insert"
          /\ Insert(IntoRow(Record(r, i)))
          /\ UNCHANGED announced
       \/ /\ stage[r][i] = "announce"
          /\ announced' = announced \cup {IntoProto(Record(r, i))}
          /\ UNCHANGED stored
    /\ Move(r, i, "internal")
    /\ UNCHANGED <<phase, input, state, answer>>

-----------------------------------------------------------------------------
OrderStep(r, i) ==
    \/ Start(r, i) \/ Fetched(r, i) \/ Inserted(r, i) \/ Announced(r, i)
    \/ Fails(r, i)

Next ==
    \E r \in Requests :
        \/ Receive(r)
        \/ \E i \in 1 .. MaxOrders : OrderStep(r, i) \/ TakesEffect(r, i)
        \/ Respond(r)
        \/ Disconnect(r)

Spec == Init /\ [][Next]_vars

(* Fetches, queries and sends end, and the server polls its requests.      *)
Fairness ==
    \A r \in Requests :
        /\ \A i \in 1 .. MaxOrders : WF_vars(OrderStep(r, i))
        /\ WF_vars(Respond(r))

FairSpec == Spec /\ Fairness

-----------------------------------------------------------------------------
(* Properties.                                                             *)

(* Types, and no more than CONCURRENT orders of a request in progress.     *)
TypeOK ==
    /\ phase \in [Requests -> {"idle", "serving", "answered", "dropped"}]
    /\ input \in [Requests -> Inputs]
    /\ \A r \in Requests :
          /\ stage[r] \in Seq({"waiting"} \cup Running \cup Results)
          /\ DOMAIN state[r] = DOMAIN stage[r]
          /\ Cardinality({i \in DOMAIN stage[r] : stage[r][i] \in Running}) <= Concurrent
          /\ (answer[r] = Pending) = (phase[r] # "answered")

(* The place of order i among those of S.                                  *)
Place(i, S) == Cardinality({j \in S : j <= i})

(* A client can trust its answer: after "ok" all its orders were stored    *)
(* and announced; after validation errors there is one for each order that *)
(* was refused, in the order of the orders, and all others were stored and *)
(* announced.  The field of an error is that of its order only when every  *)
(* order before it was refused as well.  After an internal error the       *)
(* client cannot know.                                                     *)
AnswerFitsOutcomes ==
    \A r \in Requests :
        LET a == answer[r]
            refused == Positions(r, Errors)
        IN  a.error \in {"ok", "OrderInvalid"} =>
              /\ (a.error = "ok") = (refused = {})
              /\ Len(a.errors) = Cardinality(refused)
              /\ \A i \in refused :
                    LET error == a.errors[Place(i, refused)]
                    IN  /\ error.code = ErrorCode(stage[r][i])
                        /\ (error.field = i - 1) = (1 .. i \subseteq refused)
              /\ \A i \in DOMAIN stage[r] \ refused :
                    /\ state[r][i].hash \in DOMAIN stored
                    /\ IntoProto(Record(r, i)) \in announced

Sent == {SignedOrder[o] : o \in Readable}

(* A row is read back as an order that some client sent, under its hash    *)
(* and with a signature that passes the check of get_orders, which would   *)
(* otherwise stop the order watcher.                                       *)
RowsAsSubmitted ==
    \A h \in DOMAIN stored :
        /\ IsReadBack(stored[h])
        /\ Build(Load(stored[h])).metadata.hash = h
        /\ Build(Load(stored[h])).signed_order \in Sent

(* An event decodes to such an order, with the hash of a stored row.       *)
EventsAsSubmitted ==
    \A event \in announced :
        LET record == FromProto(event)
        IN  /\ record.signed_order \in Sent
            /\ record.metadata.hash = Hash(record.signed_order.order)
            /\ record.metadata.hash \in DOMAIN stored
            /\ [status |-> 1, fillable |-> record.metadata.remaining] \in Reports

(* However often an order is submitted, by whom and in which notation, its *)
(* row and its events are those of an order that was sent.                 *)
StoredAsSubmitted == RowsAsSubmitted /\ EventsAsSubmitted

(* The contract, which is given an order as twelve arguments told apart by *)
(* position, judges its signature as SignedOrder::validate judges it of    *)
(* the row: what passes the one passes the other, but for a v the EVM does *)
(* not take.  An accepted order that fails the check would stop every      *)
(* handler; a refused one that passes is an honest client turned away.     *)
SignaturesJudgedAlike ==
    \A r \in Requests : \A i \in DOMAIN stage[r] :
        LET signed == SignedOrder[input[r].orders[i]]
            passes == SignedOrderError(signed) = "none"
        IN  /\ stage[r][i] \in {"insert", "announce", "accepted"} => passes
            /\ stage[r][i] = "InvalidSignature" =>
                  ~passes \/ signed.signature.v \notin {27, 28}

(* Every request is answered unless the client leaves, although orders     *)
(* wait for those before them to leave the buffer.                         *)
AnswersArrive ==
    \A r \in Requests : phase[r] = "serving" ~> phase[r] # "serving"
=============================================================================
