---------------------- MODULE BatcherRefinementProofs ----------------------
(***************************************************************************)
(* The batcher implements FetchService, for any callers, orders, batch     *)
(* size and number of permits.                                             *)
(*                                                                         *)
(* A call of fetch_state is the service's Request, the delivery of a       *)
(* result its Answer or Fail, a dropped future its GiveUp; batching is     *)
(* invisible.  That a result is the caller's own, and not older than the   *)
(* call, comes from Answers in IInv.                                       *)
(***************************************************************************)
EXTENDS BatcherRefinement, BatcherProofs

(* The history variable is a function of the callers.                      *)
AnswerType == answer \in [Callers -> State \cup {None, Failed}]

-----------------------------------------------------------------------------
(* The history variable hides no behaviour of the batcher.                 *)
LEMMA AnswerSpecSpec == AnswerSpec => Spec
<1>1. AnswerInit => Init
  BY DEF AnswerInit
<1>2. [AnswerNext]_<<vars, answer>> => [Next]_vars
  BY DEF AnswerNext, Next, Deliver, SendTo
<1> QED
  BY <1>1, <1>2, PTL DEF AnswerSpec, Spec

(* What an open call looks like to the service.                            *)
LEMMA OpenCall ==
    ASSUME TypeOK, NEW c \in Callers, pending[c] # None, c \notin dropped
    PROVE  /\ pending[c] \in Call
           /\ OpenCalls[c] = [order |-> pending[c].order, asked |-> pending[c].asked]
           /\ OpenCalls[c] # None
<1>1. pending[c] \in Call
  BY DEF TypeOK
<1>2. OpenCalls[c] = [order |-> pending[c].order, asked |-> pending[c].asked]
  BY DEF OpenCalls
<1>3. OpenCalls[c] \in [order : Orders, asked : 0 .. MaxHeight]
  BY <1>1, <1>2 DEF Call
<1> QED
  BY <1>1, <1>2, <1>3, OpenAssumption

(* A result in a reply is an error, or the state of the caller's own order *)
(* at some moment since the call.                                          *)
LEMMA OwnResult ==
    ASSUME IInv, NEW r \in replies, NEW i \in DOMAIN r.jobs, NEW c \in r.jobs[i].senders
    PROVE  /\ pending[c] # None /\ pending[c] \in Call
           /\ \/ Result(r, i) = Failed
              \/ \E at \in pending[c].asked .. height :
                    /\ Result(r, i) = [order |-> pending[c].order, at |-> at]
                    /\ Result(r, i) \in State
<1>1. /\ r \in Reply /\ OwnJobs(r.jobs, pending)
      /\ r.output # Failed => Fits(r, pending, height)
  BY DEF IInv, Answers
<1>2. /\ c \in Callers /\ pending[c] # None /\ pending[c].order = r.jobs[i].order
  BY <1>1, WaitersOf, WaitersAsked DEF OwnJobs
<1>3. pending[c] \in Call
  BY <1>2 DEF IInv, TypeOK
<1>4. ASSUME r.output # Failed
      PROVE  \E at \in pending[c].asked .. height :
                 /\ r.output[i] = [order |-> pending[c].order, at |-> at]
                 /\ r.output[i] \in State
  <2>1. r.output \in Seq(State) /\ r.jobs \in Seq(Job) /\ Len(r.output) = Len(r.jobs)
    BY <1>1, <1>4 DEF Reply, Fits
  <2>2. r.output[i] \in State
    <3>1. DOMAIN r.jobs = 1 .. Len(r.output)
      BY <2>1, LenProperties
    <3> QED
      BY <2>1, <3>1, ElementOfSeq
  <2>3. /\ r.output[i].order = pending[c].order
        /\ r.output[i].at <= height /\ pending[c].asked <= r.output[i].at
    BY <1>1, <1>2, <1>4 DEF Fits
  <2>4. r.output[i].at \in pending[c].asked .. height
    BY <1>3, <2>2, <2>3, BatcherBoundAssumption DEF State, Call, IInv, TypeOK
  <2>5. r.output[i] = [order |-> r.output[i].order, at |-> r.output[i].at]
    BY <2>2 DEF State
  <2> QED
    BY <2>2, <2>3, <2>4, <2>5
<1> QED
  BY <1>2, <1>3, <1>4 DEF Result

-----------------------------------------------------------------------------
(* Nobody has called yet.                                                  *)
LEMMA ServiceInit == AnswerInit => FS!Init
BY DEF AnswerInit, Init, FS!Init, OpenCalls

(* A step that changes no call keeps every answer.                         *)
LEMMA ForgetNothing ==
    ASSUME AnswerType, Forget, pending' = pending
    PROVE  answer' = answer
BY DEF AnswerType, Forget

(* A call is a request, whether it joins a job, promotes it or makes one.  *)
LEMMA RequestStep ==
    ASSUME IInv, AnswerType, Forget,
           NEW c \in Callers, NEW o \in Orders, NEW isPriority \in BOOLEAN,
           FetchState(c, o, isPriority)
    PROVE  AnswerType' /\ FS!Request(c, o)
<1> DEFINE call == [order |-> o, priority |-> isPriority, asked |-> height]
<1>1. /\ pending[c] = None /\ pending' = [pending EXCEPT ![c] = call]
      /\ height' = height /\ dropped' = dropped
  BY DEF FetchState
<1>2. call \in Call /\ call # None /\ call.order = o /\ call.asked = height
  BY NoneAssumption DEF IInv, TypeOK, Call
<1> HIDE DEF call
<1>3. /\ pending \in [Callers -> Call \cup {None}]
      /\ pending' \in [Callers -> Call \cup {None}] /\ pending'[c] = call
      /\ \A d \in Callers \ {c} : pending'[d] = pending[d]
  BY <1>1, <1>2 DEF IInv, TypeOK
<1>4. c \notin dropped
  BY <1>1 DEF IInv, Calls
<1>5. OpenCalls[c] = None
  BY <1>1 DEF OpenCalls
<1>6. OpenCalls' = [OpenCalls EXCEPT ![c] = [order |-> o, asked |-> height]]
  BY <1>1, <1>2, <1>3, <1>4 DEF OpenCalls
<1>7. answer' = [answer EXCEPT ![c] = None]
  BY <1>1, <1>2, <1>3 DEF Forget, AnswerType
<1> QED
  BY <1>1, <1>5, <1>6, <1>7 DEF AnswerType, FS!Request

(* A caller whose future is dropped gives up.                              *)
LEMMA GiveUpStep ==
    ASSUME IInv, AnswerType, Forget, NEW c \in Callers, DropCall(c)
    PROVE  AnswerType' /\ FS!GiveUp(c)
<1>1. /\ pending[c] # None /\ c \notin dropped /\ dropped' = dropped \cup {c}
      /\ pending' = pending /\ height' = height
  BY DEF DropCall
<1>2. OpenCalls[c] # None
  BY <1>1, OpenCall DEF IInv
<1>3. OpenCalls' = [OpenCalls EXCEPT ![c] = None]
  BY <1>1 DEF OpenCalls
<1> QED
  BY <1>1, <1>2, <1>3, ForgetNothing DEF AnswerType, FS!GiveUp

(* A result sent to a caller who still waits answers or fails its call;    *)
(* one sent to a caller who left is not seen.                              *)
LEMMA DeliverStep ==
    ASSUME IInv, AnswerType, NEW c \in Callers, NEW r \in replies, NEW i \in DOMAIN r.jobs,
           Deliver(r, i, c)
    PROVE  AnswerType' /\ (FS!Answer(c) \/ FS!Fail(c) \/ UNCHANGED FS!vars)
<1>1. /\ c \in r.jobs[i].senders
      /\ pending' = [pending EXCEPT ![c] = None] /\ dropped' = dropped \ {c}
      /\ height' = height
      /\ answer' = IF c \in dropped THEN answer ELSE [answer EXCEPT ![c] = Result(r, i)]
  BY DEF Deliver, SendResult
<1>2. pending' \in [Callers -> Call \cup {None}] /\ pending'[c] = None
      /\ \A d \in Callers \ {c} : pending'[d] = pending[d]
  BY <1>1 DEF IInv, TypeOK
<1>3. OpenCalls' = [OpenCalls EXCEPT ![c] = None]
  BY <1>1, <1>2 DEF OpenCalls
<1>4. /\ pending[c] # None
      /\ \/ Result(r, i) = Failed
         \/ \E at \in pending[c].asked .. height :
               /\ Result(r, i) = [order |-> pending[c].order, at |-> at]
               /\ Result(r, i) \in State
  BY <1>1, OwnResult
<1>5. AnswerType'
  BY <1>1, <1>4 DEF AnswerType
<1>6. CASE c \in dropped
  <2>1. OpenCalls' = OpenCalls
    BY <1>3, <1>6 DEF OpenCalls
  <2> QED
    BY <1>1, <1>5, <1>6, <2>1 DEF FS!vars
<1>7. CASE c \notin dropped
  <2>1. /\ OpenCalls[c] # None
        /\ OpenCalls[c].order = pending[c].order /\ OpenCalls[c].asked = pending[c].asked
    <3>1. TypeOK
      BY DEF IInv
    <3>2. /\ OpenCalls[c] # None
          /\ OpenCalls[c] = [order |-> pending[c].order, asked |-> pending[c].asked]
      BY <1>4, <1>7, <3>1, OpenCall
    <3> QED
      BY <3>2
  <2>2. CASE Result(r, i) = Failed
    BY <1>1, <1>3, <1>5, <1>7, <2>1, <2>2 DEF FS!Fail
  <2>3. CASE Result(r, i) # Failed
    BY <1>1, <1>3, <1>4, <1>5, <1>7, <2>1, <2>3 DEF FS!Answer
  <2> QED
    BY <2>2, <2>3
<1> QED
  BY <1>6, <1>7

(* The other steps are the chain's, or no concern of the callers.          *)
LEMMA HiddenStep ==
    ASSUME AnswerType, Forget,
           \/ Advance \/ TimerFires \/ RunStep \/ \E batch \in calls : FetchBatch(batch)
    PROVE  AnswerType' /\ (FS!Advance \/ UNCHANGED FS!vars)
<1>1. pending' = pending /\ dropped' = dropped
  BY DEF Advance, TimerFires, RunStep, Notified, AcquirePermit, TakeBatch, FindEmpty,
         FetchBatch, callerVars
<1>2. answer' = answer /\ OpenCalls' = OpenCalls
  BY <1>1, ForgetNothing DEF OpenCalls
<1>3. Advance \/ height' = height
  BY DEF TimerFires, RunStep, Notified, AcquirePermit, TakeBatch, FindEmpty, FetchBatch
<1> QED
  BY <1>2, <1>3 DEF AnswerType, Advance, FS!Advance, FS!vars

(* Every step of the batcher is a step of the service or changes nothing   *)
(* that callers see.                                                       *)
LEMMA ServiceStep ==
    IInv /\ AnswerType /\ [AnswerNext]_<<vars, answer>>
        => AnswerType' /\ [FS!Next]_(FS!vars)
<1> SUFFICES ASSUME IInv, AnswerType, [AnswerNext]_<<vars, answer>>
             PROVE  AnswerType' /\ [FS!Next]_(FS!vars)
  OBVIOUS
<1>1. CASE UNCHANGED <<vars, answer>>
  BY <1>1 DEF vars, callerVars, AnswerType, OpenCalls, FS!vars
<1>2. ASSUME NEW c \in Callers, NEW o \in Orders, NEW isPriority \in BOOLEAN,
             FetchState(c, o, isPriority), Forget
      PROVE  AnswerType' /\ FS!Next
  BY <1>2, RequestStep DEF FS!Next
<1>3. ASSUME NEW c \in Callers, DropCall(c), Forget
      PROVE  AnswerType' /\ FS!Next
  BY <1>3, GiveUpStep DEF FS!Next
<1>4. ASSUME NEW c \in Callers, NEW r \in replies, NEW i \in DOMAIN r.jobs, Deliver(r, i, c)
      PROVE  AnswerType' /\ [FS!Next]_(FS!vars)
  BY <1>4, DeliverStep DEF FS!Next
<1>5. ASSUME Forget,
             \/ Advance \/ TimerFires \/ RunStep \/ \E batch \in calls : FetchBatch(batch)
      PROVE  AnswerType' /\ [FS!Next]_(FS!vars)
  BY <1>5, HiddenStep DEF FS!Next
<1> HIDE DEF FS!vars
<1> QED
  BY <1>1, <1>2, <1>3, <1>4, <1>5 DEF AnswerNext, SilentStep

(* Whatever is merged, promoted, batched or dropped, every call is         *)
(* answered at most once, about its own order, with a state computed after *)
(* it was made, or fails.                                                  *)
THEOREM BatcherIsFetchService == AnswerSpec => IsFetchService
<1>1. AnswerInit => AnswerType
  BY DEF AnswerInit, AnswerType
<1> QED
  BY <1>1, AnswerSpecSpec, SpecIInv, ServiceInit, ServiceStep, PTL
     DEF AnswerSpec, IsFetchService, FS!Spec
=============================================================================
