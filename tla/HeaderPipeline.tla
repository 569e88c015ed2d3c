--------------------------- MODULE HeaderPipeline ---------------------------
(***************************************************************************)
(* The way of block headers from the block watcher to the order watcher:   *)
(* a bounded broadcast channel, the producer (block-watcher/src/           *)
(* producer.rs), which sends up to MAX_CONCURRENT_BLOCKS of them at once   *)
(* through KafkaProducer::send, the topic, and the consumer of the order   *)
(* watcher (types/src/kafka/consumer.rs), which takes one at a time.       *)
(*                                                                         *)
(* Messages too large for Kafka are uploaded to object storage first, and  *)
(* a pointer is sent.  Small ones enter the Kafka client's queue as soon   *)
(* as the producer takes them, in order.  An error of any send, or of the  *)
(* channel, ends the producer and drops its other sends; nothing restarts  *)
(* it but a restart of the process.                                        *)
(*                                                                         *)
(* The Kafka client, the broker and the storage are environments.  Not     *)
(* modelled: a full queue in the Kafka client.                             *)
(***************************************************************************)
EXTENDS Integers, Sequences, FiniteSets, SequencesExt

CONSTANTS
    Capacity,     \* slots of the broadcast channel
    Concurrent,   \* MAX_CONCURRENT_BLOCKS of the producer
    MaxEvents,    \* bound: events the block watcher sends
    Reorgs,       \* the events that are Reorgs, not headers
    Large,        \* the headers of at least kafka_large_message bytes
    MaxRetries,   \* bound: messages the Kafka client sends again
    MaxFailures,  \* bound: sends that fail, processes that are killed
    None          \* no offset committed

Events == 1 .. MaxEvents

ASSUME PipelineAssumption ==
    /\ Capacity \in Nat \ {0} /\ Concurrent \in Nat \ {0} /\ MaxEvents \in Nat
    /\ Reorgs \subseteq Events /\ Large \subseteq Events \ Reorgs
    /\ MaxRetries \in Nat /\ MaxFailures \in Nat
    /\ None \notin Nat

VARIABLES
    sent,         \* events sent on the channel so far
    next,         \* the event the producer's receiver reads next
    origin,       \* history: the first event since the producer was started
    producer,     \* "running" or "ended"
    uploads,      \* headers being uploaded
    queued,       \* records in the queue of the Kafka client
    retried,      \* history: headers the client sent again
    storage,      \* headers in object storage
    topic,        \* the log of headers
    pos,          \* messages of the topic the consumer has taken
    fetching,     \* is the last of them still being fetched?
    committed,    \* the committed offset, or None
    since,        \* history: where the consumer started without an offset
    interrupted,  \* history: messages being fetched when the process died
    handed,       \* history: messages handed to the block loop
    failures

producerVars == <<next, origin, producer, uploads, queued, retried, storage>>
consumerVars == <<pos, fetching, committed, since, interrupted, handed>>
vars == <<sent, producerVars, topic, consumerVars, failures>>

-----------------------------------------------------------------------------
Init ==
    /\ sent = 0
    /\ next = 1 /\ origin = 1 /\ producer = "running"
    /\ uploads = {} /\ queued = <<>> /\ retried = {}
    /\ storage = {} /\ topic = <<>>
    /\ pos = 0 /\ fetching = FALSE /\ committed = None /\ since = 0
    /\ interrupted = {} /\ handed = {}
    /\ failures = 0

(* The block watcher never waits for receivers.                            *)
Broadcast ==
    /\ sent < MaxEvents
    /\ sent' = sent + 1
    /\ UNCHANGED <<producerVars, topic, consumerVars, failures>>

-----------------------------------------------------------------------------
(* Producer::start                                                         *)

Unread == sent - next + 1

(* try_for_each_concurrent polls the stream while there is room for        *)
(* another send.                                                           *)
Polls ==
    /\ producer = "running"
    /\ Cardinality(uploads) + Len(queued) < Concurrent
    /\ Unread > 0

(* Mutant of TakeEvent: a header that follows a re-org is skipped with it. *)
MutantTakeEvent ==
    /\ Polls /\ Unread <= Capacity
    /\ next' = IF next \in Reorgs /\ Unread > 1 THEN next + 2 ELSE next + 1
    /\ uploads' = IF next \in Large THEN uploads \cup {next} ELSE uploads
    /\ queued' = IF next \in Large \cup Reorgs THEN queued ELSE Append(queued, next)
    /\ UNCHANGED <<sent, origin, producer, retried, storage, topic, consumerVars,
                   failures>>

(* The next event: re-orgs are ignored, headers are sent.                  *)
TakeEvent ==
    /\ Polls /\ Unread <= Capacity
    /\ next' = next + 1
    /\ uploads' = IF next \in Large THEN uploads \cup {next} ELSE uploads
    /\ queued' = IF next \in Large \cup Reorgs THEN queued ELSE Append(queued, next)
    /\ UNCHANGED <<sent, origin, producer, retried, storage, topic, consumerVars,
                   failures>>

(* The producer's future ends with an error, which main ignores: the sends *)
(* it was waiting for are dropped, records already queued are not.         *)
Stop == producer' = "ended" /\ uploads' = {}

(* Mutant of Lagged: the producer goes on with the oldest event left.      *)
MutantLagged ==
    /\ Polls /\ Unread > Capacity
    /\ next' = sent - Capacity + 1
    /\ UNCHANGED <<sent, origin, producer, uploads, queued, retried, storage,
                   topic, consumerVars, failures>>

(* The channel has overwritten the event: RecvError::Lagged.               *)
Lagged ==
    /\ Polls /\ Unread > Capacity
    /\ Stop
    /\ UNCHANGED <<sent, next, origin, queued, retried, storage, topic,
                   consumerVars, failures>>

-----------------------------------------------------------------------------
(* KafkaProducer::send                                                     *)

(* Mutant of Uploaded: the pointer is sent without the upload.             *)
MutantUploaded(e) ==
    /\ e \in uploads
    /\ uploads' = uploads \ {e}
    /\ queued' = Append(queued, e)
    /\ UNCHANGED <<sent, next, origin, producer, retried, storage, topic,
                   consumerVars, failures>>

(* upload_message: first the object, then the pointer to it.               *)
Uploaded(e) ==
    /\ e \in uploads
    /\ uploads' = uploads \ {e}
    /\ storage' = storage \cup {e}
    /\ queued' = Append(queued, e)
    /\ UNCHANGED <<sent, next, origin, producer, retried, topic, consumerVars,
                   failures>>

UploadFails ==
    /\ uploads # {} /\ failures < MaxFailures
    /\ failures' = failures + 1
    /\ Stop
    /\ UNCHANGED <<sent, next, origin, queued, retried, storage, topic,
                   consumerVars>>

(* Mutant of Delivered: records have no key, and so no order.              *)
MutantDelivered ==
    \E i \in DOMAIN queued :
        /\ topic' = Append(topic, queued[i])
        /\ queued' = RemoveAt(queued, i)
        /\ UNCHANGED <<sent, next, origin, producer, uploads, retried, storage,
                       consumerVars, failures>>

(* The broker has the record, and its send completes.                      *)
Delivered ==
    /\ queued # <<>>
    /\ topic' = Append(topic, Head(queued))
    /\ queued' = Tail(queued)
    /\ UNCHANGED <<sent, next, origin, producer, uploads, retried, storage,
                   consumerVars, failures>>

(* The client sends a record again; those behind it go first.              *)
Retried ==
    /\ Len(queued) > 1 /\ Cardinality(retried) < MaxRetries
    /\ retried' = retried \cup {Head(queued)}
    /\ queued' = Append(Tail(queued), Head(queued))
    /\ UNCHANGED <<sent, next, origin, producer, uploads, storage, topic,
                   consumerVars, failures>>

DeliveryFails ==
    /\ queued # <<>> /\ failures < MaxFailures
    /\ failures' = failures + 1
    /\ queued' = Tail(queued)
    /\ Stop
    /\ UNCHANGED <<sent, next, origin, retried, storage, topic, consumerVars>>

(* The process of the block watcher is killed and started again.           *)
RestartProducer ==
    /\ failures < MaxFailures
    /\ failures' = failures + 1
    /\ next' = sent + 1 /\ origin' = sent + 1
    /\ producer' = "running"
    /\ uploads' = {} /\ queued' = <<>>
    /\ UNCHANGED <<sent, retried, storage, topic, consumerVars>>

-----------------------------------------------------------------------------
(* KafkaConsumer::stream                                                   *)

(* Mutant of TakeMessage: the next message is taken before the last one is *)
(* fetched.                                                                *)
MutantTakeMessage ==
    /\ pos < Len(topic)
    /\ pos' = pos + 1
    /\ fetching' = TRUE
    /\ UNCHANGED <<sent, producerVars, topic, committed, since, interrupted,
                   handed, failures>>

(* The client hands out a message, and from now on may commit it.          *)
TakeMessage ==
    /\ ~fetching /\ pos < Len(topic)
    /\ pos' = pos + 1
    /\ fetching' = TRUE
    /\ UNCHANGED <<sent, producerVars, topic, committed, since, interrupted,
                   handed, failures>>

(* Storage::download finds the object a pointer leads to.                  *)
Download(e) == e \in storage

(* fetch: the bytes are in the message or in the storage.                  *)
Fetched ==
    /\ fetching
    /\ topic[pos] \in Large => Download(topic[pos])
    /\ fetching' = FALSE
    /\ handed' = handed \cup {pos}
    /\ UNCHANGED <<sent, producerVars, topic, pos, committed, since, interrupted,
                   failures>>

(* Mutant of Commit: the client commits all the broker has.                *)
MutantCommit ==
    /\ pos > since /\ committed # Len(topic)
    /\ committed' = Len(topic)
    /\ UNCHANGED <<sent, producerVars, topic, pos, fetching, since, interrupted,
                   handed, failures>>

(* enable.auto.commit: the offset after the last message handed out.       *)
Commit ==
    /\ pos > since /\ committed # pos
    /\ committed' = pos
    /\ UNCHANGED <<sent, producerVars, topic, pos, fetching, since, interrupted,
                   handed, failures>>

(* The order watcher is killed, or panics as a fetch fails, and is started *)
(* again: after the committed offset, or without one at the topic's end.   *)
RestartConsumer ==
    /\ failures < MaxFailures
    /\ failures' = failures + 1
    /\ pos' = IF committed = None THEN Len(topic) ELSE committed
    /\ since' = IF committed = None THEN Len(topic) ELSE since
    /\ interrupted' = IF fetching THEN interrupted \cup {pos} ELSE interrupted
    /\ fetching' = FALSE
    /\ UNCHANGED <<sent, producerVars, topic, committed, handed>>

-----------------------------------------------------------------------------
ProducerStep == TakeEvent \/ Lagged
ClientStep   == Delivered \/ DeliveryFails
ConsumerStep == TakeMessage \/ Fetched

Next ==
    \/ Broadcast
    \/ ProducerStep
    \/ \E e \in Events : Uploaded(e)
    \/ UploadFails
    \/ ClientStep
    \/ Retried
    \/ RestartProducer
    \/ ConsumerStep
    \/ Commit
    \/ RestartConsumer

Spec == Init /\ [][Next]_vars

(* The producer and the consumer are polled, and uploads, deliveries and   *)
(* downloads end one way or the other.                                     *)
Fairness ==
    /\ WF_vars(ProducerStep)
    /\ \A e \in Events : WF_vars(Uploaded(e) \/ UploadFails)
    /\ WF_vars(ClientStep)
    /\ WF_vars(ConsumerStep)

FairSpec == Spec /\ Fairness

-----------------------------------------------------------------------------
(* Properties.                                                             *)

TypeOK ==
    /\ sent \in 0 .. MaxEvents
    /\ next \in 1 .. sent + 1 /\ origin \in 1 .. next
    /\ producer \in {"running", "ended"}
    /\ uploads \subseteq Large
    /\ queued \in Seq(Events \ Reorgs) /\ topic \in Seq(Events \ Reorgs)
    /\ retried \subseteq Events
    /\ storage \subseteq Large
    /\ pos \in 0 .. Len(topic)
    /\ fetching \in BOOLEAN
    /\ committed \in 0 .. pos \cup {None}
    /\ since \in 0 .. pos
    /\ interrupted \subseteq DOMAIN topic /\ handed \subseteq DOMAIN topic
    /\ failures \in 0 .. MaxFailures

(* A pointer in the topic leads to an object: otherwise the consumer       *)
(* panics on it after every restart.                                       *)
PointerHasObject ==
    (ToSet(topic) \cup ToSet(queued)) \cap Large \subseteq storage

(* The producer never skips a header and runs on: each one sent since it   *)
(* was started is on its way or in the topic.                              *)
NoSilentGap ==
    producer = "running" =>
        origin .. next - 1 \subseteq
            Reorgs \cup uploads \cup ToSet(queued) \cup ToSet(topic)

(* What types/src/kafka/producer.rs:22-24 says of the partition key that   *)
(* all headers share: "messages with the same key go to the same partition *)
(* and are therefore guaranteed to be delivered in order".  It is false:   *)
(* a large header is uploaded before it is given to the Kafka client, and  *)
(* the producer takes and sends the next ones meanwhile.                   *)
HeadersKeepOrder ==
    \A i, j \in DOMAIN topic : i < j => topic[i] < topic[j]

(* What is left of HeadersKeepOrder: headers overtake only those that were *)
(* uploaded or that the client sent again.                                 *)
OnlyTheSlowAreOvertaken ==
    \A i, j \in DOMAIN topic :
        i < j /\ topic[i] > topic[j] => topic[j] \in Large \cup retried

(* The block loop misses no message of the topic but those that were there *)
(* before its first offset and those being fetched as the process died,    *)
(* although offsets are committed ahead of the handling.                   *)
OnlyInterruptedAreMissed ==
    \A i \in since + 1 .. pos :
        \/ i \in handed \cup interrupted
        \/ fetching /\ i = pos

Topic == INSTANCE HeaderTopic WITH
    unread  <- SubSeq(topic, pos + 1, Len(topic)),
    unacked <- SubSeq(topic, (IF committed = None THEN since ELSE committed) + 1, pos),
    acked   <- committed # None

(* With offsets committed in the background and a log that survives both   *)
(* processes, the topic is the queue whose actions OrderWatcher takes to   *)
(* read its headers (its Topic).                                           *)
IsHeaderTopic == Topic!Spec

(* Every header that is sent reaches the block loop, unless the producer   *)
(* ends or is restarted past it, or the consumer misses it as above.       *)
HeadersArrive ==
    \A e \in Events \ Reorgs :
        e <= sent ~>
            \/ producer = "ended" \/ e < origin
            \/ \E i \in DOMAIN topic :
                  topic[i] = e /\ (i \in handed \cup interrupted \/ i <= since)
=============================================================================
