----------------------- MODULE HeaderPipelineProofs ------------------------
(***************************************************************************)
(* Theorems about HeaderPipeline, for any capacity of the channel, any     *)
(* number of concurrent sends, any events, and any failures.               *)
(*                                                                         *)
(* The argument: a header is in one of four places, the uploads, the       *)
(* client's queue, the topic or nowhere.  Small headers enter the queue in *)
(* the order of the channel, so only an upload or a second send can put a  *)
(* header behind a later one (InOrder); the committed offset stays between *)
(* the reader's first position and its present one (OffsetInv).            *)
(***************************************************************************)
EXTENDS HeaderPipeline, SequenceFacts

(* A header may be behind a later one only if it was uploaded or retried.  *)
MayFollow(d, e) == d > e => e \in Large \cup retried

(* OnlyTheSlowAreOvertaken extended to the records on their way; all of    *)
(* them were read from the channel.                                        *)
InOrder ==
    /\ \A i, j \in DOMAIN queued : i < j => MayFollow(queued[i], queued[j])
    /\ \A i \in DOMAIN topic, j \in DOMAIN queued : MayFollow(topic[i], queued[j])
    /\ \A i \in DOMAIN queued : queued[i] < next
    /\ \A i \in DOMAIN topic : topic[i] < next
    /\ \A e \in uploads : e < next

OffsetInv ==
    /\ committed # None => since <= committed
    /\ fetching => since < pos

IInv ==
    /\ TypeOK
    /\ PointerHasObject
    /\ NoSilentGap
    /\ InOrder
    /\ OnlyTheSlowAreOvertaken
    /\ OffsetInv
    /\ OnlyInterruptedAreMissed

Sent == Events \ Reorgs

-----------------------------------------------------------------------------
(* The positions of the queue and the topic.                               *)
LEMMA Shapes ==
    ASSUME TypeOK
    PROVE  /\ DOMAIN queued = 1 .. Len(queued) /\ Len(queued) \in Nat
           /\ DOMAIN topic = 1 .. Len(topic) /\ Len(topic) \in Nat
           /\ \A i \in DOMAIN queued : queued[i] \in Sent
           /\ \A i \in DOMAIN topic : topic[i] \in Sent
           /\ Sent \subseteq Nat
           /\ sent \in Nat /\ next \in Nat /\ origin \in Nat
           /\ pos \in Nat /\ since \in Nat
           /\ committed # None => committed \in Nat
BY PipelineAssumption, LenProperties DEF TypeOK, Sent, Events

-----------------------------------------------------------------------------
(* The first state.                                                        *)
LEMMA InitIInv == Init => IInv
<1> SUFFICES ASSUME Init PROVE IInv
  OBVIOUS
<1>1. DOMAIN queued = {} /\ DOMAIN topic = {}
  BY DEF Init
<1>2. Len(topic) = 0 /\ topic \in Seq(Events \ Reorgs) /\ queued \in Seq(Events \ Reorgs)
  BY EmptySeq DEF Init
<1>3. TypeOK
  <2>1. sent \in 0 .. MaxEvents /\ next \in 1 .. sent + 1 /\ origin \in 1 .. next
    BY PipelineAssumption DEF Init
  <2>2. pos \in 0 .. Len(topic) /\ committed \in 0 .. pos \cup {None} /\ since \in 0 .. pos
    BY <1>2 DEF Init
  <2>3. failures \in 0 .. MaxFailures
    BY PipelineAssumption DEF Init
  <2> QED
    BY <1>1, <1>2, <2>1, <2>2, <2>3 DEF Init, TypeOK
<1> QED
  BY <1>1, <1>3
     DEF Init, IInv, PointerHasObject, NoSilentGap, InOrder,
         OnlyTheSlowAreOvertaken, OffsetInv, OnlyInterruptedAreMissed, ToSet

-----------------------------------------------------------------------------
(* Every step keeps the type invariant.                                    *)
LEMMA TypeStep == TypeOK /\ OffsetInv /\ Next => TypeOK'
<1> SUFFICES ASSUME TypeOK, OffsetInv, Next PROVE TypeOK'
  OBVIOUS
<1>s. /\ DOMAIN topic = 1 .. Len(topic) /\ Len(topic) \in Nat
      /\ DOMAIN queued = 1 .. Len(queued) /\ Len(queued) \in Nat
  BY Shapes
<1> USE PipelineAssumption DEF TypeOK, producerVars, consumerVars
<1>1. CASE Broadcast
  BY <1>1 DEF Broadcast
<1>2. CASE TakeEvent
  <2>1. next \in Events /\ next <= sent
    BY <1>2 DEF TakeEvent, Polls, Unread, Events
  <2>2. next' \in 1 .. sent' + 1 /\ origin' \in 1 .. next'
    BY <1>2, <2>1 DEF TakeEvent
  <2>3. uploads' \subseteq Large
    BY <1>2 DEF TakeEvent
  <2>4. queued' \in Seq(Events \ Reorgs)
    BY <1>2, <2>1 DEF TakeEvent
  <2> QED
    BY <1>2, <2>2, <2>3, <2>4 DEF TakeEvent
<1>3. CASE Lagged
  BY <1>3 DEF Lagged, Stop
<1>4. ASSUME NEW e \in Events, Uploaded(e) PROVE TypeOK'
  <2>1. e \in Events \ Reorgs /\ e \in Large
    BY <1>4 DEF Uploaded
  <2> QED
    BY <1>4, <2>1 DEF Uploaded
<1>5. CASE UploadFails
  BY <1>5 DEF UploadFails, Stop
<1>6. CASE Delivered
  <2>1. /\ Head(queued) \in Events \ Reorgs
        /\ Tail(queued) \in Seq(Events \ Reorgs)
    BY <1>6, SetOfTail DEF Delivered
  <2>2. /\ Append(topic, Head(queued)) \in Seq(Events \ Reorgs)
        /\ Len(Append(topic, Head(queued))) = Len(topic) + 1
    BY <2>1, AppendProperties
  <2>3. DOMAIN topic \subseteq DOMAIN topic'
    BY <1>6, <1>s, <2>2, LenProperties DEF Delivered
  <2> QED
    BY <1>6, <1>s, <2>1, <2>2, <2>3 DEF Delivered
<1>7. CASE DeliveryFails
  BY <1>7, SetOfTail DEF DeliveryFails, Stop
<1>8. CASE Retried
  <2>1. queued # <<>>
    BY <1>8 DEF Retried
  <2>2. /\ Head(queued) \in Events \ Reorgs
        /\ Tail(queued) \in Seq(Events \ Reorgs)
    BY <2>1, SetOfTail
  <2> QED
    BY <1>8, <2>2 DEF Retried
<1>9. CASE RestartProducer
  BY <1>9 DEF RestartProducer
<1>10. CASE TakeMessage
  BY <1>10 DEF TakeMessage
<1>11. CASE Fetched
  <2>1. pos \in DOMAIN topic
    BY <1>11, <1>s DEF Fetched, OffsetInv
  <2> QED
    BY <1>11, <2>1 DEF Fetched
<1>12. CASE Commit
  BY <1>12 DEF Commit
<1>13. CASE RestartConsumer
  <2>1. /\ pos' \in 0 .. Len(topic') /\ since' \in 0 .. pos'
        /\ committed' \in 0 .. pos' \cup {None}
    BY <1>13, <1>s DEF RestartConsumer, OffsetInv
  <2>2. fetching => pos \in DOMAIN topic
    BY <1>s DEF OffsetInv
  <2>3. interrupted' \subseteq DOMAIN topic'
    BY <1>13, <2>2 DEF RestartConsumer
  <2>4. failures' \in 0 .. MaxFailures
    BY <1>13 DEF RestartConsumer
  <2> QED
    BY <1>13, <2>1, <2>3, <2>4 DEF RestartConsumer
<1> QED
  BY <1>1, <1>2, <1>3, <1>4, <1>5, <1>6, <1>7, <1>8, <1>9, <1>10, <1>11, <1>12,
     <1>13 DEF Next, ProducerStep, ClientStep, ConsumerStep

-----------------------------------------------------------------------------
(* The headers of the records that are queued or in the topic.             *)
Carried == ToSet(queued) \cup ToSet(topic)

(* What the steps of the producer and the client do to them.               *)
LEMMA CarriedSteps ==
    ASSUME TypeOK
    PROVE  /\ TakeEvent => Carried' = Carried \cup ({next} \ (Large \cup Reorgs))
           /\ \A e \in Events : Uploaded(e) => Carried' = Carried \cup {e}
           /\ Delivered \/ Retried => UNCHANGED Carried
           /\ DeliveryFails \/ RestartProducer => Carried' \subseteq Carried
<1> USE PipelineAssumption DEF Carried
<1>t. queued \in Seq(Sent) /\ topic \in Seq(Sent) /\ uploads \subseteq Sent
  BY DEF TypeOK, Sent
<1>1. ASSUME TakeEvent
      PROVE  Carried' = Carried \cup ({next} \ (Large \cup Reorgs))
  <2>1. next \in Events
    BY <1>1 DEF TakeEvent, Polls, Unread, TypeOK, Events
  <2>2. CASE next \in Large \cup Reorgs
    BY <1>1, <2>2 DEF TakeEvent
  <2>3. CASE next \notin Large \cup Reorgs
    <3>1. ToSet(queued') = ToSet(queued) \cup {next}
      BY <1>1, <1>t, <2>1, <2>3, SetOfAppend DEF TakeEvent, Sent
    <3> QED
      BY <1>1, <2>3, <3>1 DEF TakeEvent, consumerVars
  <2> QED
    BY <2>2, <2>3
<1>2. ASSUME NEW e \in Events, Uploaded(e) PROVE Carried' = Carried \cup {e}
  <2>1. ToSet(queued') = ToSet(queued) \cup {e}
    BY <1>2, <1>t, SetOfAppend DEF Uploaded
  <2> QED
    BY <1>2, <2>1 DEF Uploaded
<1>3. ASSUME Delivered PROVE UNCHANGED Carried
  <2>1. /\ Head(queued) \in Sent
        /\ ToSet(queued) = ToSet(queued') \cup {Head(queued)}
    BY <1>3, <1>t, SetOfTail DEF Delivered
  <2>2. ToSet(topic') = ToSet(topic) \cup {Head(queued)}
    BY <1>3, <1>t, <2>1, SetOfAppend DEF Delivered
  <2> QED
    BY <2>1, <2>2
<1>4. ASSUME Retried PROVE UNCHANGED Carried
  <2>1. queued # <<>>
    BY <1>4 DEF Retried
  <2>2. /\ Head(queued) \in Sent /\ Tail(queued) \in Seq(Sent)
        /\ ToSet(queued) = ToSet(Tail(queued)) \cup {Head(queued)}
    BY <1>t, <2>1, SetOfTail
  <2>3. ToSet(Append(Tail(queued), Head(queued))) = ToSet(Tail(queued)) \cup {Head(queued)}
    <3>1. \A s \in Seq(Sent), e \in Sent : ToSet(Append(s, e)) = ToSet(s) \cup {e}
      BY SetOfAppend
    <3> QED
      BY <2>2, <3>1
  <2> QED
    BY <1>4, <2>2, <2>3 DEF Retried
<1>5. ASSUME DeliveryFails PROVE Carried' \subseteq Carried
  <2>1. ToSet(queued) = ToSet(queued') \cup {Head(queued)}
    BY <1>5, <1>t, SetOfTail DEF DeliveryFails
  <2> QED
    BY <1>5, <2>1 DEF DeliveryFails
<1>6. ASSUME RestartProducer PROVE Carried' \subseteq Carried
  <2>1. ToSet(queued') = {}
    BY <1>6 DEF RestartProducer, ToSet
  <2> QED
    BY <1>6, <2>1 DEF RestartProducer
<1> QED
  BY <1>1, <1>2, <1>3, <1>4, <1>5, <1>6

-----------------------------------------------------------------------------
(* The object of a pointer is stored before the pointer is queued, and     *)
(* nothing removes it.                                                     *)
LEMMA PointerStep == IInv /\ Next => PointerHasObject'
<1> SUFFICES ASSUME IInv, Next PROVE Carried' \cap Large \subseteq storage'
  BY DEF PointerHasObject, Carried
<1>t. TypeOK /\ Carried \cap Large \subseteq storage
  BY DEF IInv, PointerHasObject, Carried
<1>1. ASSUME NEW e \in Events, Uploaded(e)
      PROVE  Carried' \cap Large \subseteq storage'
  BY <1>1, <1>t, CarriedSteps DEF Uploaded
<1>2. CASE TakeEvent
  BY <1>2, <1>t, CarriedSteps DEF TakeEvent
<1>3. CASE Delivered \/ Retried
  BY <1>3, <1>t, CarriedSteps DEF Delivered, Retried
<1>4. CASE DeliveryFails \/ RestartProducer
  BY <1>4, <1>t, CarriedSteps DEF DeliveryFails, RestartProducer
<1>5. CASE UNCHANGED <<queued, topic, storage>>
  BY <1>5, <1>t DEF Carried
<1> QED
  BY <1>1, <1>2, <1>3, <1>4, <1>5
     DEF Next, ProducerStep, ClientStep, ConsumerStep, Broadcast, Lagged,
         UploadFails, TakeMessage, Fetched, Commit, RestartConsumer,
         producerVars, consumerVars

(* A header that is read has a place to go, and leaves it only for the     *)
(* next one unless the producer ends or is restarted.                      *)
LEMMA GapStep == IInv /\ Next => NoSilentGap'
<1> DEFINE Gapless ==
        producer = "running" =>
            origin .. next - 1 \subseteq Reorgs \cup uploads \cup Carried
<1> SUFFICES ASSUME IInv, Next PROVE Gapless'
  BY DEF NoSilentGap, Carried
<1>t. TypeOK /\ Gapless
  BY DEF IInv, NoSilentGap, Carried
<1>n. next \in Nat /\ origin \in Nat /\ sent \in Nat
  BY <1>t, Shapes
<1>1. ASSUME NEW e \in Events, Uploaded(e) PROVE Gapless'
  <2>1. Carried' = Carried \cup {e}
    BY <1>1, <1>t, CarriedSteps
  <2> QED
    BY <1>1, <1>t, <2>1 DEF Uploaded
<1>2. CASE TakeEvent
  <2>1. Carried' = Carried \cup ({next} \ (Large \cup Reorgs))
    BY <1>2, <1>t, CarriedSteps
  <2>2. /\ next' = next + 1 /\ UNCHANGED <<origin, producer>>
        /\ uploads' = IF next \in Large THEN uploads \cup {next} ELSE uploads
    BY <1>2 DEF TakeEvent
  <2>3. origin .. next' - 1 \subseteq (origin .. next - 1) \cup {next}
    BY <1>n, <2>2
  <2> QED
    BY <1>t, <2>1, <2>2, <2>3
<1>3. CASE Delivered \/ Retried
  <2>1. UNCHANGED Carried
    BY <1>3, <1>t, CarriedSteps
  <2> QED
    BY <1>3, <1>t, <2>1 DEF Delivered, Retried
<1>4. CASE Lagged \/ UploadFails \/ DeliveryFails
  BY <1>4 DEF Lagged, UploadFails, DeliveryFails, Stop
<1>5. CASE RestartProducer
  <2>1. origin' .. next' - 1 = {}
    BY <1>5, <1>n DEF RestartProducer
  <2> QED
    BY <2>1
<1>6. CASE UNCHANGED <<queued, topic, uploads, next, origin, producer>>
  BY <1>6, <1>t DEF Carried
<1> QED
  BY <1>1, <1>2, <1>3, <1>4, <1>5, <1>6
     DEF Next, ProducerStep, ClientStep, ConsumerStep, Broadcast,
         TakeMessage, Fetched, Commit, RestartConsumer,
         producerVars, consumerVars

-----------------------------------------------------------------------------
(* A header enters the queue in front of no later one, unless it was       *)
(* uploaded in the meantime or is sent again.                              *)
LEMMA OrderStep == IInv /\ Next => InOrder' /\ OnlyTheSlowAreOvertaken'
<1> DEFINE OK ==
        /\ InOrder
        /\ \A i, j \in DOMAIN topic : i < j => MayFollow(topic[i], topic[j])
<1> SUFFICES ASSUME IInv, Next PROVE OK'
  BY DEF OnlyTheSlowAreOvertaken, MayFollow
<1>t. TypeOK /\ OK
  BY DEF IInv, OnlyTheSlowAreOvertaken, MayFollow
<1>s. /\ queued \in Seq(Sent) /\ topic \in Seq(Sent)
      /\ DOMAIN queued = 1 .. Len(queued) /\ Len(queued) \in Nat
      /\ DOMAIN topic = 1 .. Len(topic) /\ Len(topic) \in Nat
      /\ \A i \in DOMAIN queued : queued[i] \in Nat
      /\ \A i \in DOMAIN topic : topic[i] \in Nat
      /\ sent \in Nat /\ next \in Nat /\ next <= sent + 1
  BY <1>t, Shapes DEF TypeOK, Sent
(* A record is added to the queue.                                         *)
<1>a. ASSUME NEW e \in Sent, queued' = Append(queued, e), UNCHANGED <<topic, retried>>,
             next' \in Nat, next <= next', e < next',
             \A f \in uploads' : f < next',
             e \in Large \/ next = e
      PROVE  OK'
  <2>1. /\ DOMAIN queued' = 1 .. Len(queued) + 1
        /\ \A i \in DOMAIN queued : queued'[i] = queued[i]
        /\ queued'[Len(queued) + 1] = e
    BY <1>a, <1>s
  <2>2. e \in Nat /\ (\A i \in DOMAIN queued : queued[i] < next)
             /\ (\A i \in DOMAIN topic : topic[i] < next)
    BY <1>t, PipelineAssumption DEF InOrder, Sent, Events
  <2>3. /\ \A i \in DOMAIN queued : MayFollow(queued[i], e)'
        /\ \A i \in DOMAIN topic : MayFollow(topic[i], e)'
    BY <1>a, <1>s, <2>2 DEF MayFollow
  <2>4. \A i, j \in DOMAIN queued' : i < j => MayFollow(queued[i], queued[j])'
    BY <1>a, <1>s, <1>t, <2>1, <2>3 DEF InOrder, MayFollow
  <2>5. \A i \in DOMAIN topic', j \in DOMAIN queued' : MayFollow(topic[i], queued[j])'
    BY <1>a, <1>s, <1>t, <2>1, <2>3 DEF InOrder, MayFollow
  <2>6. /\ \A i \in DOMAIN queued' : queued'[i] < next'
        /\ \A i \in DOMAIN topic' : topic'[i] < next'
    BY <1>a, <1>s, <2>1, <2>2
  <2> QED
    BY <1>a, <1>t, <2>4, <2>5, <2>6 DEF InOrder, MayFollow
<1>1. CASE TakeEvent
  <2>0. next \in Events /\ next' = next + 1 /\ UNCHANGED <<topic, retried>>
    BY <1>1, <1>s, PipelineAssumption DEF TakeEvent, Polls, Unread, Events, TypeOK, IInv
  <2>1. \A f \in uploads' : f < next'
    BY <1>1, <1>s, <1>t, <2>0, PipelineAssumption DEF TakeEvent, InOrder, TypeOK, Events
  <2>2. CASE next \in Large \cup Reorgs
    <3>1. UNCHANGED queued
      BY <1>1, <2>2 DEF TakeEvent
    <3> QED
      BY <1>s, <1>t, <2>0, <2>1, <3>1 DEF InOrder, MayFollow
  <2>3. CASE next \notin Large \cup Reorgs
    <3>1. next \in Sent /\ queued' = Append(queued, next)
      BY <1>1, <2>0, <2>3 DEF TakeEvent, Sent
    <3> QED
      BY <1>s, <2>0, <2>1, <3>1, <1>a
  <2> QED
    BY <2>2, <2>3
<1>2. ASSUME NEW e \in Events, Uploaded(e) PROVE OK'
  <2>1. e \in Sent /\ e \in Large /\ e < next /\ (\A f \in uploads' : f < next)
    BY <1>2, <1>t, PipelineAssumption DEF Uploaded, InOrder, TypeOK, Sent
  <2> QED
    BY <1>2, <1>a, <1>s, <2>1 DEF Uploaded
<1>3. CASE Delivered
  <2> DEFINE h == Head(queued)
  <2>1. /\ h \in Sent /\ h = queued[1] /\ 1 \in DOMAIN queued
        /\ DOMAIN queued' = 1 .. Len(queued) - 1
        /\ \A i \in DOMAIN queued' : queued'[i] = queued[i + 1] /\ i + 1 \in DOMAIN queued
    BY <1>3, <1>s, HeadTailProperties, LenProperties, EmptySeq DEF Delivered
  <2>2. /\ DOMAIN topic' = 1 .. Len(topic) + 1
        /\ \A i \in DOMAIN topic : topic'[i] = topic[i]
        /\ topic'[Len(topic) + 1] = h
    BY <1>3, <1>s, <2>1 DEF Delivered
  <2>3. UNCHANGED <<next, retried, uploads>>
    BY <1>3 DEF Delivered
  <2>4. \A i, j \in DOMAIN topic' : i < j => MayFollow(topic[i], topic[j])'
    <3>1. ASSUME NEW i \in DOMAIN topic', NEW j \in DOMAIN topic', i < j
          PROVE  MayFollow(topic'[i], topic'[j])
      <4>1. i \in DOMAIN topic /\ topic'[i] = topic[i]
        BY <1>s, <2>2, <3>1
      <4>2. CASE j \in DOMAIN topic
        BY <1>t, <2>2, <3>1, <4>1, <4>2 DEF MayFollow
      <4>3. CASE j = Len(topic) + 1
        BY <2>1, <2>2, <4>1, <4>3, <1>t DEF InOrder
      <4> QED
        BY <1>s, <2>2, <4>2, <4>3
    <3> QED
      BY <2>3, <3>1 DEF MayFollow
  <2>5. \A i \in DOMAIN topic', j \in DOMAIN queued' : MayFollow(topic[i], queued[j])'
    <3>1. ASSUME NEW i \in DOMAIN topic', NEW j \in DOMAIN queued'
          PROVE  MayFollow(topic'[i], queued'[j])
      <4>1. queued'[j] = queued[j + 1] /\ j + 1 \in DOMAIN queued /\ 1 < j + 1
        BY <1>s, <2>1
      <4>2. CASE i \in DOMAIN topic
        BY <1>t, <2>2, <4>1, <4>2 DEF InOrder
      <4>3. CASE i = Len(topic) + 1
        BY <1>t, <2>1, <2>2, <4>1, <4>3 DEF InOrder
      <4> QED
        BY <1>s, <2>2, <4>2, <4>3
    <3> QED
      BY <2>3, <3>1 DEF MayFollow
  <2>6. \A i, j \in DOMAIN queued' : i < j => MayFollow(queued[i], queued[j])'
    BY <1>s, <1>t, <2>1, <2>3 DEF InOrder, MayFollow
  <2>7. /\ \A i \in DOMAIN queued' : queued'[i] < next'
        /\ \A i \in DOMAIN topic' : topic'[i] < next'
        /\ \A e \in uploads' : e < next'
    BY <1>s, <1>t, <2>1, <2>2, <2>3 DEF InOrder
  <2> QED
    BY <2>4, <2>5, <2>6, <2>7 DEF InOrder
<1>4. CASE Retried
  <2> DEFINE h == Head(queued)
             n == Len(queued)
  <2>0. queued # <<>>
    BY <1>4, <1>s DEF Retried
  <2>1. /\ h \in Sent /\ h = queued[1] /\ n \in DOMAIN queued
        /\ Tail(queued) \in Seq(Sent) /\ Len(Tail(queued)) = n - 1
        /\ \A i \in 1 .. n - 1 : Tail(queued)[i] = queued[i + 1]
    BY <1>s, <2>0, HeadTailProperties, LenProperties, EmptySeq
  <2>2. /\ DOMAIN Append(Tail(queued), h) = 1 .. n
        /\ \A i \in 1 .. n - 1 : Append(Tail(queued), h)[i] = Tail(queued)[i]
        /\ Append(Tail(queued), h)[n] = h
    BY <1>s, <2>1, AppendProperties, LenProperties
  <2>3. /\ DOMAIN queued' = 1 .. n
        /\ \A i \in 1 .. n - 1 : queued'[i] = queued[i + 1] /\ i + 1 \in DOMAIN queued
        /\ queued'[n] = h
    BY <1>4, <1>s, <2>1, <2>2 DEF Retried
  <2>4. /\ retried \subseteq retried' /\ h \in retried'
        /\ UNCHANGED <<next, topic, uploads>>
    BY <1>4 DEF Retried
  <2>5. ASSUME NEW i \in DOMAIN queued'
        PROVE  \/ i = n /\ queued'[i] = h
               \/ i < n /\ queued'[i] = queued[i + 1] /\ i + 1 \in DOMAIN queued
    BY <1>s, <2>1, <2>3
  <2>6. ASSUME NEW i \in DOMAIN queued', NEW j \in DOMAIN queued', i < j
        PROVE  MayFollow(queued[i], queued[j])'
    <3>1. i \in Nat /\ j \in Nat /\ i < n
      BY <1>s, <2>1, <2>3, <2>6
    <3>2. CASE j = n
      BY <2>3, <2>4, <3>2 DEF MayFollow
    <3>3. CASE j # n
      <4>1. /\ queued'[i] = queued[i + 1] /\ i + 1 \in DOMAIN queued
            /\ queued'[j] = queued[j + 1] /\ j + 1 \in DOMAIN queued
        BY <2>5, <3>1, <3>3
      <4>2. MayFollow(queued[i + 1], queued[j + 1])
        BY <1>t, <2>6, <3>1, <4>1 DEF InOrder
      <4> QED
        BY <2>4, <4>1, <4>2 DEF MayFollow
    <3> QED
      BY <3>2, <3>3
  <2>7. ASSUME NEW i \in DOMAIN topic', NEW j \in DOMAIN queued'
        PROVE  MayFollow(topic[i], queued[j])'
    <3>1. CASE j = n
      BY <2>3, <2>4, <3>1 DEF MayFollow
    <3>2. CASE j # n
      <4>1. queued'[j] = queued[j + 1] /\ j + 1 \in DOMAIN queued
        BY <2>5, <3>2
      <4>2. MayFollow(topic[i], queued[j + 1])
        BY <1>t, <2>4, <4>1 DEF InOrder
      <4> QED
        BY <2>4, <4>1, <4>2 DEF MayFollow
    <3> QED
      BY <3>1, <3>2
  <2>8. ASSUME NEW i \in DOMAIN queued' PROVE queued'[i] < next'
    <3>1. \E k \in DOMAIN queued : queued'[i] = queued[k]
      BY <1>s, <2>0, <2>1, <2>5, EmptySeq
    <3> QED
      BY <1>t, <2>4, <3>1 DEF InOrder
  <2> QED
    BY <1>t, <2>4, <2>6, <2>7, <2>8 DEF InOrder, MayFollow
<1>5. CASE DeliveryFails
  <2>1. /\ DOMAIN queued' = 1 .. Len(queued) - 1
        /\ \A i \in DOMAIN queued' : queued'[i] = queued[i + 1] /\ i + 1 \in DOMAIN queued
    BY <1>5, <1>s, HeadTailProperties, LenProperties, EmptySeq DEF DeliveryFails
  <2>2. UNCHANGED <<next, retried, topic>> /\ uploads' = {}
    BY <1>5 DEF DeliveryFails, Stop
  <2> QED
    BY <1>s, <1>t, <2>1, <2>2 DEF InOrder, MayFollow
<1>6. CASE RestartProducer
  <2>1. /\ DOMAIN queued' = {} /\ uploads' = {} /\ UNCHANGED <<topic, retried>>
        /\ next' \in Nat /\ next <= next'
    BY <1>6, <1>s DEF RestartProducer
  <2> QED
    BY <1>s, <1>t, <2>1 DEF InOrder, MayFollow
<1>7. CASE UNCHANGED <<queued, topic, next, retried>> /\ uploads' \subseteq uploads
  BY <1>7, <1>t DEF InOrder, MayFollow
<1> QED
  BY <1>1, <1>2, <1>3, <1>4, <1>5, <1>6, <1>7
     DEF Next, ProducerStep, ClientStep, ConsumerStep, Broadcast, Lagged, Stop,
         UploadFails, TakeMessage, Fetched, Commit, RestartConsumer,
         producerVars, consumerVars

-----------------------------------------------------------------------------
(* A commit covers only what was handed out, so a restart goes back over   *)
(* all that was not, and skips at most the message that was being fetched. *)
LEMMA OffsetStep == IInv /\ Next => OffsetInv' /\ OnlyInterruptedAreMissed'
<1> SUFFICES ASSUME IInv, Next PROVE OffsetInv' /\ OnlyInterruptedAreMissed'
  OBVIOUS
<1>s. /\ pos \in Nat /\ since \in Nat /\ since <= pos /\ Len(topic) \in Nat
      /\ committed # None => committed \in Nat /\ committed <= pos
  BY Shapes DEF IInv, TypeOK
<1>e. \A n \in Nat : n + 1 .. n = {}
  OBVIOUS
<1> USE PipelineAssumption DEF IInv, OffsetInv, OnlyInterruptedAreMissed
<1>1. CASE TakeMessage
  BY <1>1, <1>s DEF TakeMessage
<1>2. CASE Fetched
  BY <1>2, <1>s DEF Fetched
<1>3. CASE Commit
  BY <1>3, <1>s DEF Commit
<1>4. CASE RestartConsumer
  <2>1. CASE committed = None
    <3>1. since' = pos' /\ pos' \in Nat /\ ~fetching' /\ committed' = None
      BY <1>4, <1>s, <2>1 DEF RestartConsumer
    <3>2. since' + 1 .. pos' = {}
      BY <1>e, <3>1
    <3> QED
      BY <3>1, <3>2
  <2>2. CASE committed # None
    <3>1. /\ pos' = committed /\ UNCHANGED <<since, committed, handed>> /\ ~fetching'
          /\ interrupted' = IF fetching THEN interrupted \cup {pos} ELSE interrupted
      BY <1>4, <2>2 DEF RestartConsumer
    <3>2. since' + 1 .. pos' \subseteq since + 1 .. pos
      BY <1>s, <2>2, <3>1
    <3> QED
      BY <2>2, <3>1, <3>2
  <2> QED
    BY <2>1, <2>2
<1>5. CASE UNCHANGED <<pos, since, committed, fetching, handed, interrupted>>
  BY <1>5
<1> QED
  BY <1>1, <1>2, <1>3, <1>4, <1>5
     DEF Next, ProducerStep, ClientStep, ConsumerStep, Broadcast, TakeEvent,
         Lagged, UploadFails, Uploaded, Delivered, DeliveryFails, Retried,
         RestartProducer, consumerVars

-----------------------------------------------------------------------------
(* IInv speaks of the state only.                                          *)
LEMMA Stuttering == IInv /\ UNCHANGED vars => IInv'
BY DEF vars, producerVars, consumerVars, IInv, TypeOK, PointerHasObject,
       NoSilentGap, InOrder, MayFollow, OnlyTheSlowAreOvertaken, OffsetInv,
       OnlyInterruptedAreMissed

(* IInv is an inductive invariant of the pipeline.                         *)
LEMMA Invariance == Spec => []IInv
<1>1. IInv /\ Next => IInv'
  BY TypeStep, PointerStep, GapStep, OrderStep, OffsetStep DEF IInv
<1> QED
  BY <1>1, InitIInv, Stuttering, PTL DEF Spec

(* Every variable has its type: in particular no event is read before it   *)
(* was sent, and no offset is committed beyond what the reader took.       *)
THEOREM PipelineTypes == Spec => []TypeOK
<1>1. IInv => TypeOK
  BY DEF IInv
<1> QED
  BY <1>1, Invariance, PTL

(* Every pointer leads to an object, whatever fails and restarts between   *)
(* the upload and the send.                                                *)
THEOREM PointersResolve == Spec => []PointerHasObject
<1>1. IInv => PointerHasObject
  BY DEF IInv
<1> QED
  BY <1>1, Invariance, PTL

(* A producer that runs has skipped no header since it was started.        *)
THEOREM ProducerNeverSkips == Spec => []NoSilentGap
<1>1. IInv => NoSilentGap
  BY DEF IInv
<1> QED
  BY <1>1, Invariance, PTL

(* Small headers that are not sent again keep their order.                 *)
THEOREM SmallHeadersKeepOrder == Spec => []OnlyTheSlowAreOvertaken
<1>1. IInv => OnlyTheSlowAreOvertaken
  BY DEF IInv
<1> QED
  BY <1>1, Invariance, PTL

(* Committing in the background loses no message but one per crash, the    *)
(* one that was being fetched.                                             *)
THEOREM ReaderMissesOnlyInterrupted == Spec => []OnlyInterruptedAreMissed
<1>1. IInv => OnlyInterruptedAreMissed
  BY DEF IInv
<1> QED
  BY <1>1, Invariance, PTL

-----------------------------------------------------------------------------
(* The topic of HeaderTopic: the log, cut at the reader's positions.       *)

(* Where the messages begin that were taken and not acknowledged.          *)
Acked == IF committed = None THEN since ELSE committed

(* The topic begins empty, with nothing taken or acknowledged.             *)
LEMMA TopicInit == Init => Topic!Init
BY PipelineAssumption DEF Init, Topic!Init

(* Each step appends to, takes from, acknowledges or rewinds the topic, or *)
(* changes nothing its reader sees.                                        *)
LEMMA TopicStep == IInv /\ [Next]_vars => [Topic!Next]_(Topic!vars)
<1> SUFFICES ASSUME IInv, [Next]_vars PROVE [Topic!Next]_(Topic!vars)
  OBVIOUS
<1>s. /\ topic \in Seq(Sent) /\ Len(topic) \in Nat
      /\ pos \in Nat /\ pos <= Len(topic)
      /\ Acked \in Nat /\ Acked <= pos
      /\ since \in Nat /\ since <= pos
      /\ committed # None => committed \in Nat
      /\ None \notin Nat
  BY Shapes, PipelineAssumption DEF IInv, TypeOK, Sent, Acked
<1>v. UNCHANGED <<topic, pos, committed, since>> => UNCHANGED Topic!vars
  BY DEF Topic!vars
<1>1. CASE Delivered
  <2> DEFINE h == Head(queued)
  <2>1. /\ h \in Sent /\ topic' = Append(topic, h)
        /\ UNCHANGED <<pos, committed, since>>
    BY <1>1, SetOfTail DEF Delivered, consumerVars, IInv, TypeOK, Sent
  <2> DEFINE n == Len(topic)
  <2>2. /\ topic' \in Seq(Sent) /\ Len(topic') = n + 1
        /\ \A i \in 1 .. n : topic'[i] = topic[i]
    BY <1>s, <2>1, AppendProperties
  <2> DEFINE before == SubSeq(topic, pos + 1, n)
             after  == SubSeq(topic', pos + 1, n + 1)
  <2>3. \A i \in 1 .. pos - Acked : Acked + i \in 1 .. n
    BY <1>s
  <2>4. /\ Len(before) = n - pos /\ DOMAIN before = 1 .. n - pos
        /\ \A i \in 1 .. n - pos : before[i] = topic[pos + i] /\ pos + i \in 1 .. n
    BY <1>s, SliceElements
  <2>5. /\ Len(after) = n + 1 - pos
        /\ \A i \in 1 .. n + 1 - pos : after[i] = topic'[pos + i]
    BY <1>s, <2>2, SliceElements
  <2>6. /\ Len(before) <= Len(after)
        /\ \A i \in DOMAIN before : after[i] = before[i]
    <3> HIDE DEF before, after
    <3>1. Len(before) <= Len(after)
      BY <1>s, <2>4, <2>5
    <3>2. \A i \in 1 .. n - pos : i \in 1 .. n + 1 - pos
      BY <1>s
    <3>3. \A i \in 1 .. n - pos : after[i] = topic[pos + i]
      BY <2>2, <2>4, <2>5, <3>2
    <3> QED
      BY <2>4, <3>1, <3>3
  <2>7. SubSeq(topic', Acked + 1, pos) = SubSeq(topic, Acked + 1, pos)
    BY <1>s, <2>2, <2>3, SliceElements, SeqEqual
  <2> QED
    BY <2>1, <2>2, <2>6, <2>7 DEF Topic!Next, Topic!Send, Acked
<1>2. CASE TakeMessage
  <2>1. /\ pos < Len(topic) /\ pos' = pos + 1
        /\ UNCHANGED <<topic, committed, since>>
    BY <1>2 DEF TakeMessage
  <2>2. /\ SubSeq(topic, pos + 1, Len(topic)) # <<>>
        /\ SubSeq(topic, pos' + 1, Len(topic)) = Tail(SubSeq(topic, pos + 1, Len(topic)))
        /\ SubSeq(topic, Acked + 1, pos') =
              Append(SubSeq(topic, Acked + 1, pos), Head(SubSeq(topic, pos + 1, Len(topic))))
    <3>1. \A k, n \in Nat : k <= n /\ n < Len(topic) =>
            /\ SubSeq(topic, n + 1, Len(topic)) # <<>>
            /\ Head(SubSeq(topic, n + 1, Len(topic))) = topic[n + 1]
            /\ Tail(SubSeq(topic, n + 1, Len(topic))) = SubSeq(topic, n + 2, Len(topic))
            /\ SubSeq(topic, k + 1, n + 1) = Append(SubSeq(topic, k + 1, n), topic[n + 1])
      BY <1>s, SliceSteps
    <3>2. pos' + 1 = pos + 2
      BY <1>s, <2>1
    <3> QED
      BY <1>s, <2>1, <3>1, <3>2
  <2> QED
    BY <2>1, <2>2 DEF Topic!Next, Topic!Take, Acked
<1>3. CASE Commit
  <2>1. /\ committed' = pos /\ UNCHANGED <<topic, pos, since>>
    BY <1>3 DEF Commit, producerVars
  <2>2. SubSeq(topic, pos + 1, pos) = <<>> /\ committed' # None
    BY <1>s, <2>1, SubSeqEmpty
  <2> QED
    BY <2>1, <2>2 DEF Topic!Next, Topic!Acknowledge
<1>4. CASE RestartConsumer
  <2>1. UNCHANGED <<topic, committed>>
    BY <1>4 DEF RestartConsumer
  <2>2. CASE committed = None
    <3>1. pos' = Len(topic) /\ since' = Len(topic)
      BY <1>4, <2>2 DEF RestartConsumer
    <3>2. SubSeq(topic, Len(topic) + 1, Len(topic)) = <<>>
      BY <1>s, SubSeqEmpty
    <3> QED
      BY <2>1, <2>2, <3>1, <3>2 DEF Topic!Next, Topic!Restart
  <2>3. CASE committed # None
    <3>1. pos' = committed
      BY <1>4, <2>3 DEF RestartConsumer
    <3>2. SubSeq(topic, committed + 1, pos) \o SubSeq(topic, pos + 1, Len(topic))
             = SubSeq(topic, committed + 1, Len(topic))
      <4> DEFINE m == committed + 1
                 n == Len(topic)
      <4>1. m \in 1 .. n + 1 /\ pos \in m - 1 .. n /\ n \in pos .. n
        BY <1>s, <2>3 DEF Acked
      <4> HIDE DEF m, n
      <4>2. SubSeq(topic, m, pos) \o SubSeq(topic, pos + 1, n) = SubSeq(topic, m, n)
        BY <1>s, <4>1, ConcatAdjacentSubSeq DEF n
      <4> QED
        BY <4>2 DEF m, n
    <3>3. SubSeq(topic, committed + 1, committed) = <<>>
      BY <1>s, <2>3, SubSeqEmpty
    <3> QED
      BY <2>1, <2>3, <3>1, <3>2, <3>3 DEF Topic!Next, Topic!Restart
  <2> QED
    BY <2>2, <2>3
<1>5. CASE UNCHANGED <<topic, pos, committed, since>>
  BY <1>v, <1>5
<1> HIDE DEF Topic!vars
<1> QED
  BY <1>1, <1>2, <1>3, <1>4, <1>5
     DEF vars, Next, ProducerStep, ClientStep, ConsumerStep, Broadcast, TakeEvent,
         Lagged, UploadFails, Uploaded, DeliveryFails, Retried, Fetched,
         RestartProducer, consumerVars

(* The log that both processes leave behind when they fail is the queue    *)
(* that the order watcher is proved to read from: together with            *)
(* ReadsHeaderTopic of OrderWatcherRefinementProofs, the two halves of the *)
(* system meet in HeaderTopic.                                             *)
THEOREM LogIsHeaderTopic == Spec => IsHeaderTopic
<1>1. IInv /\ [Next]_vars => [Topic!Next]_(Topic!vars)
  BY TopicStep
<1> QED
  BY <1>1, TopicInit, Invariance, PTL DEF Spec, IsHeaderTopic, Topic!Spec
=============================================================================
