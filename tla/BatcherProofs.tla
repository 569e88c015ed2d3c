--------------------------- MODULE BatcherProofs ---------------------------
(***************************************************************************)
(* Theorems about Batcher, for any callers, orders, batch size, number of  *)
(* permits and timers.                                                     *)
(*                                                                         *)
(* The argument: the senders of the callers are partitioned.  Each is in   *)
(* one job of one lane, call or reply, and that job is about the order its *)
(* caller asked for (OwnJobs); no two lanes, calls or replies share one    *)
(* (Partition); whoever waits has one (Accounted).  Merging, promoting and *)
(* batching only move whole jobs between these places, so answers reach    *)
(* all and only those who asked.                                           *)
(***************************************************************************)
EXTENDS Batcher, SequenceFacts, FiniteSetTheorems

(* No caller is twice in a sequence of jobs, and each asked for the order  *)
(* of its job: asks is the function from callers to their calls.           *)
OwnJobs(jobs, asks) ==
    /\ jobs \in Seq(Job)
    /\ \A i, j \in DOMAIN jobs :
          i # j => jobs[i].senders \cap jobs[j].senders = {}
    /\ \A i \in DOMAIN jobs : \A c \in jobs[i].senders :
          asks[c] # None /\ asks[c].order = jobs[i].order

(* An order has one job in a lane, and somebody waits for it.              *)
OneJobEach(lane) ==
    /\ \A i, j \in DOMAIN lane : lane[i].order = lane[j].order => i = j
    /\ \A i \in DOMAIN lane : lane[i].senders # {}

Asked(lane) == {lane[i].order : i \in DOMAIN lane}

Lanes ==
    /\ OwnJobs(priority, pending) /\ OneJobEach(priority)
    /\ OwnJobs(queue, pending) /\ OneJobEach(queue)
    /\ Asked(priority) \cap Asked(queue) = {}

Batches ==
    \A b \in calls : OwnJobs(b, pending) /\ Waiters(b) # {}

(* A reply has a state per job, of the order of the job, computed after    *)
(* everybody who waits for it had asked.                                   *)
Fits(r, asks, now) ==
    /\ Len(r.output) = Len(r.jobs)
    /\ \A i \in DOMAIN r.jobs :
          /\ r.output[i].order = r.jobs[i].order
          /\ r.output[i].at <= now
          /\ \A c \in r.jobs[i].senders : asks[c].asked <= r.output[i].at

Reply == [jobs : Seq(Job), output : Seq(State) \cup {Failed}]

Answers ==
    \A r \in replies :
        /\ r \in Reply
        /\ OwnJobs(r.jobs, pending) /\ Waiters(r.jobs) # {}
        /\ r.output # Failed => Fits(r, pending, height)

Queued == Waiters(priority) \cup Waiters(queue)

Partition ==
    /\ Waiters(priority) \cap Waiters(queue) = {}
    /\ \A b \in calls : Waiters(b) \cap Queued = {}
    /\ \A r \in replies : Waiters(r.jobs) \cap Queued = {}
    /\ \A a, b \in calls : a # b => Waiters(a) \cap Waiters(b) = {}
    /\ \A q, r \in replies : q # r => Waiters(q.jobs) \cap Waiters(r.jobs) = {}
    /\ \A b \in calls, r \in replies : Waiters(b) \cap Waiters(r.jobs) = {}

(* The sender of c is somewhere.                                           *)
Held(c) ==
    \/ c \in Queued
    \/ \E b \in calls : c \in Waiters(b)
    \/ \E r \in replies : c \in Waiters(r.jobs)

Accounted == \A c \in Callers : pending[c] # None => Held(c)

(* Callers ask about the present, and drop only calls they make.           *)
Calls ==
    /\ \A c \in Callers : pending[c] # None => pending[c].asked <= height
    /\ \A c \in dropped : pending[c] # None

Permits == IsFiniteSet(calls) /\ PermitsAccountedFor

IInv ==
    /\ TypeOK
    /\ Lanes
    /\ Batches
    /\ Answers
    /\ Partition
    /\ Accounted
    /\ Calls
    /\ PriorityIsPromoted
    /\ Permits
    /\ NoLostWakeup

-----------------------------------------------------------------------------
(* Sequences of jobs.                                                      *)

(* Who waits on a lane or a batch: the senders of its jobs.                *)
LEMMA WaitersOf ==
    ASSUME NEW jobs, NEW c
    PROVE  c \in Waiters(jobs) <=> \E i \in DOMAIN jobs : c \in jobs[i].senders
BY DEF Waiters, ToSet

(* Indices, orders and senders of a sequence of jobs.                      *)
LEMMA JobsShape ==
    ASSUME NEW jobs \in Seq(Job)
    PROVE  /\ DOMAIN jobs = 1 .. Len(jobs) /\ Len(jobs) \in Nat
           /\ \A i \in DOMAIN jobs :
                 /\ jobs[i] \in Job
                 /\ jobs[i].order \in Orders /\ jobs[i].senders \subseteq Callers
           /\ Waiters(jobs) \subseteq Callers
<1>1. DOMAIN jobs = 1 .. Len(jobs) /\ Len(jobs) \in Nat
  BY LenProperties
<1>2. ASSUME NEW i \in DOMAIN jobs
      PROVE  jobs[i] \in Job /\ jobs[i].order \in Orders /\ jobs[i].senders \subseteq Callers
  <2>1. jobs[i] \in Job
    BY <1>1, ElementOfSeq
  <2> QED
    BY <2>1 DEF Job
<1> QED
  BY <1>1, <1>2, WaitersOf

(* Who waits in a sequence of jobs has asked, for one of their orders.     *)
LEMMA WaitersAsked ==
    ASSUME NEW asks, NEW jobs, OwnJobs(jobs, asks), NEW c \in Waiters(jobs)
    PROVE  c \in Callers /\ asks[c] # None
BY WaitersOf, JobsShape DEF OwnJobs

(* What others ask is of no concern.                                       *)
LEMMA OthersAsk ==
    ASSUME NEW asks, NEW others, NEW jobs, OwnJobs(jobs, asks),
           \A c \in Waiters(jobs) : others[c] = asks[c]
    PROVE  OwnJobs(jobs, others)
BY WaitersOf DEF OwnJobs

(* A caller joins the job for the order it asks for.                       *)
LEMMA JoinJob ==
    ASSUME NEW asks, NEW lane, OwnJobs(lane, asks), OneJobEach(lane),
           NEW o, Has(lane, o),
           NEW c \in Callers, c \notin Waiters(lane),
           asks[c] # None, asks[c].order = o
    PROVE  /\ OwnJobs(Join(lane, o, c), asks)
           /\ OneJobEach(Join(lane, o, c))
           /\ Waiters(Join(lane, o, c)) = Waiters(lane) \cup {c}
           /\ Asked(Join(lane, o, c)) = Asked(lane)
<1> DEFINE p == Position(lane, o)
           new == Join(lane, o, c)
<1>1. p \in DOMAIN lane /\ lane[p].order = o
  BY DEF Has, Position
<1>2. /\ lane \in Seq(Job) /\ DOMAIN lane = 1 .. Len(lane)
      /\ \A i \in DOMAIN lane : lane[i] \in Job
  BY JobsShape DEF OwnJobs
<1>3. /\ [lane[p] EXCEPT !.senders = @ \cup {c}] \in Job
      /\ [lane[p] EXCEPT !.senders = @ \cup {c}].order = o
      /\ [lane[p] EXCEPT !.senders = @ \cup {c}].senders = lane[p].senders \cup {c}
  BY <1>1, <1>2 DEF Job
<1>4. new = [lane EXCEPT ![p] = [lane[p] EXCEPT !.senders = @ \cup {c}]]
  BY <1>1, <1>2 DEF Join
<1>5. /\ new \in Seq(Job) /\ DOMAIN new = DOMAIN lane
      /\ new[p].order = o /\ new[p].senders = lane[p].senders \cup {c}
      /\ \A i \in DOMAIN lane \ {p} : new[i] = lane[i]
  BY <1>1, <1>2, <1>3, <1>4, ExceptSeq
<1> HIDE DEF new, p
<1>6. \A i \in DOMAIN lane : new[i].order = lane[i].order
  BY <1>1, <1>5
<1>7. \A i \in DOMAIN lane : c \notin lane[i].senders
  BY WaitersOf
<1>8. OwnJobs(new, asks)
  BY <1>1, <1>5, <1>7 DEF OwnJobs
<1>9. OneJobEach(new)
  BY <1>1, <1>5, <1>6 DEF OneJobEach
<1>10. Waiters(new) = Waiters(lane) \cup {c}
  BY <1>1, <1>5, WaitersOf
<1>11. Asked(new) = Asked(lane)
  BY <1>5, <1>6 DEF Asked
<1> QED
  BY <1>8, <1>9, <1>10, <1>11 DEF new

(* A job for another order comes last.                                     *)
LEMMA AppendJob ==
    ASSUME NEW asks, NEW lane, OwnJobs(lane, asks), OneJobEach(lane),
           NEW o \in Orders, ~Has(lane, o),
           NEW cs \in SUBSET Callers, cs # {}, cs \cap Waiters(lane) = {},
           \A c \in cs : asks[c] # None /\ asks[c].order = o
    PROVE  /\ OwnJobs(Append(lane, NewJob(o, cs)), asks)
           /\ OneJobEach(Append(lane, NewJob(o, cs)))
           /\ Waiters(Append(lane, NewJob(o, cs))) = Waiters(lane) \cup cs
           /\ Asked(Append(lane, NewJob(o, cs))) = Asked(lane) \cup {o}
<1> DEFINE new == Append(lane, NewJob(o, cs))
           n == Len(lane)
<1>1. /\ lane \in Seq(Job) /\ DOMAIN lane = 1 .. n /\ n \in Nat
      /\ NewJob(o, cs) \in Job
  BY JobsShape DEF OwnJobs, NewJob, Job
<1>2. /\ new \in Seq(Job) /\ DOMAIN new = 1 .. n + 1
      /\ \A i \in 1 .. n : new[i] = lane[i]
      /\ new[n + 1].order = o /\ new[n + 1].senders = cs
  BY <1>1, AppendProperties, LenProperties DEF NewJob
<1> HIDE DEF new
<1>3. \A i \in 1 .. n : lane[i].senders \cap cs = {}
  BY <1>1, WaitersOf
<1>4. OwnJobs(new, asks)
  BY <1>1, <1>2, <1>3 DEF OwnJobs
<1>5. OneJobEach(new)
  BY <1>1, <1>2 DEF OneJobEach, Has
<1>6. Waiters(new) = Waiters(lane) \cup cs
  BY <1>1, <1>2, WaitersOf
<1>7. Asked(new) = Asked(lane) \cup {o}
  BY <1>1, <1>2 DEF Asked
<1> QED
  BY <1>4, <1>5, <1>6, <1>7 DEF new

(* The job for an order leaves its lane.                                   *)
LEMMA RemoveJob ==
    ASSUME NEW asks, NEW lane, OwnJobs(lane, asks), OneJobEach(lane),
           NEW o, Has(lane, o)
    PROVE  /\ OwnJobs(Without(lane, o), asks)
           /\ OneJobEach(Without(lane, o))
           /\ Senders(lane, o) \subseteq Waiters(lane) /\ Senders(lane, o) # {}
           /\ \A c \in Senders(lane, o) : asks[c] # None /\ asks[c].order = o
           /\ Waiters(Without(lane, o)) = Waiters(lane) \ Senders(lane, o)
           /\ Asked(Without(lane, o)) = Asked(lane) \ {o}
<1> DEFINE p == Position(lane, o)
           n == Len(lane)
           front == SubSeq(lane, 1, p - 1)
           rest  == SubSeq(lane, p + 1, n)
           new   == Without(lane, o)
<1>1. p \in DOMAIN lane /\ lane[p].order = o
  BY DEF Has, Position
<1>2. lane \in Seq(Job) /\ DOMAIN lane = 1 .. n /\ n \in Nat /\ p \in 1 .. n
  BY <1>1, JobsShape DEF OwnJobs
<1>3. /\ front \in Seq(Job) /\ Len(front) = p - 1
      /\ \A i \in 1 .. p - 1 : front[i] = lane[i]
  BY <1>2, SliceElements
<1>4. /\ rest \in Seq(Job) /\ Len(rest) = n - p
      /\ \A i \in 1 .. n - p : rest[i] = lane[p + i]
  BY <1>2, SliceElements
<1>5. new = front \o rest
  BY DEF Without, RemoveAt
<1> HIDE DEF front, rest, new, p
<1>6. /\ new \in Seq(Job) /\ DOMAIN new = 1 .. n - 1
      /\ \A i \in 1 .. n - 1 : new[i] = IF i < p THEN lane[i] ELSE lane[i + 1]
  <2>1. /\ front \o rest \in Seq(Job) /\ Len(front \o rest) = Len(front) + Len(rest)
        /\ \A i \in 1 .. Len(front) + Len(rest) :
              (front \o rest)[i] = IF i <= Len(front) THEN front[i] ELSE rest[i - Len(front)]
    BY <1>3, <1>4, ConcatProperties
  <2>2. Len(front) + Len(rest) = n - 1
    BY <1>2, <1>3, <1>4
  <2>3. ASSUME NEW i \in 1 .. n - 1
        PROVE  new[i] = IF i < p THEN lane[i] ELSE lane[i + 1]
    <3>1. CASE i < p
      BY <1>2, <1>3, <1>5, <2>1, <2>2, <3>1
    <3>2. CASE i >= p
      <4>1. i - (p - 1) \in 1 .. n - p /\ p + (i - (p - 1)) = i + 1 /\ ~(i <= p - 1)
        BY <1>2, <3>2
      <4>2. new[i] = rest[i - (p - 1)]
        BY <1>3, <1>5, <2>1, <2>2, <4>1
      <4>3. rest[i - (p - 1)] = lane[p + (i - (p - 1))]
        BY <1>4, <4>1
      <4> QED
        BY <1>2, <3>2, <4>1, <4>2, <4>3
    <3> QED
      BY <1>2, <3>1, <3>2
  <2> QED
    BY <1>5, <2>1, <2>2, <2>3, LenProperties
<1>7. Senders(lane, o) = lane[p].senders
  BY DEF Senders, p
<1> DEFINE From(i) == IF i < p THEN i ELSE i + 1
<1>8. /\ \A i \in DOMAIN new : From(i) \in DOMAIN lane \ {p} /\ new[i] = lane[From(i)]
      /\ \A i, j \in DOMAIN new : From(i) = From(j) => i = j
      /\ \A k \in DOMAIN lane \ {p} : \E i \in DOMAIN new : k = From(i)
  <2>1. ASSUME NEW i \in DOMAIN new
        PROVE  From(i) \in DOMAIN lane \ {p} /\ new[i] = lane[From(i)]
    BY <1>2, <1>6
  <2>2. ASSUME NEW i \in DOMAIN new, NEW j \in DOMAIN new, From(i) = From(j)
        PROVE  i = j
    BY <1>2, <1>6, <2>2
  <2>3. ASSUME NEW k \in DOMAIN lane \ {p}
        PROVE  \E i \in DOMAIN new : k = From(i)
    <3>1. CASE k < p
      BY <1>2, <1>6, <3>1
    <3>2. CASE k > p
      <4>1. k - 1 \in DOMAIN new /\ From(k - 1) = k
        BY <1>2, <1>6, <3>2
      <4> QED
        BY <4>1
    <3> QED
      BY <1>2, <3>1, <3>2
  <2> QED
    BY <2>1, <2>2, <2>3
<1> HIDE DEF From
<1>9. OwnJobs(new, asks)
  BY <1>6, <1>8 DEF OwnJobs
<1>10. OneJobEach(new)
  BY <1>8 DEF OneJobEach
<1>11. Senders(lane, o) \subseteq Waiters(lane) /\ Senders(lane, o) # {}
  BY <1>1, <1>7, WaitersOf DEF OneJobEach
<1>12. \A c \in Senders(lane, o) : asks[c] # None /\ asks[c].order = o
  BY <1>1, <1>7 DEF OwnJobs
<1>13. Waiters(new) = Waiters(lane) \ Senders(lane, o)
  <2>1. ASSUME NEW c \in Waiters(new) PROVE c \in Waiters(lane) \ Senders(lane, o)
    BY <1>1, <1>7, <1>8, <2>1, WaitersOf DEF OwnJobs
  <2>2. ASSUME NEW c \in Waiters(lane) \ Senders(lane, o) PROVE c \in Waiters(new)
    BY <1>7, <1>8, <2>2, WaitersOf
  <2> QED
    BY <2>1, <2>2
<1>14. Asked(new) = Asked(lane) \ {o}
  BY <1>1, <1>8 DEF Asked, OneJobEach
<1> QED
  BY <1>9, <1>10, <1>11, <1>12, <1>13, <1>14 DEF new

(* A part of a sequence of jobs.                                           *)
LEMMA PartOfJobs ==
    ASSUME NEW asks, NEW jobs, OwnJobs(jobs, asks),
           NEW k \in Nat, NEW n \in Nat, k <= n, n <= Len(jobs)
    PROVE  LET part == SubSeq(jobs, k + 1, n)
           IN  /\ OwnJobs(part, asks)
               /\ OneJobEach(jobs) => OneJobEach(part)
               /\ Len(part) = n - k
               /\ \A c : c \in Waiters(part) <=>
                     \E i \in k + 1 .. n : c \in jobs[i].senders
               /\ Asked(part) \subseteq Asked(jobs)
<1> DEFINE part == SubSeq(jobs, k + 1, n)
<1>1. jobs \in Seq(Job) /\ DOMAIN jobs = 1 .. Len(jobs) /\ Len(jobs) \in Nat
  BY JobsShape DEF OwnJobs
<1>2. /\ part \in Seq(Job) /\ Len(part) = n - k /\ DOMAIN part = 1 .. n - k
      /\ \A i \in 1 .. n - k : part[i] = jobs[k + i]
  BY <1>1, SliceElements
<1> DEFINE From(i) == k + i
<1> HIDE DEF part
<1>3. /\ \A i \in DOMAIN part : From(i) \in DOMAIN jobs /\ part[i] = jobs[From(i)]
      /\ \A i, j \in DOMAIN part : From(i) = From(j) => i = j
  BY <1>1, <1>2
<1> HIDE DEF From
<1>4. OwnJobs(part, asks)
  BY <1>2, <1>3 DEF OwnJobs
<1>5. OneJobEach(jobs) => OneJobEach(part)
  BY <1>3 DEF OneJobEach
<1>6. ASSUME NEW c
      PROVE  c \in Waiters(part) <=> \E i \in k + 1 .. n : c \in jobs[i].senders
  <2>1. ASSUME NEW i \in k + 1 .. n, c \in jobs[i].senders PROVE c \in Waiters(part)
    <3>1. i - k \in DOMAIN part /\ part[i - k] = jobs[i]
      BY <1>2
    <3> QED
      BY <2>1, <3>1, WaitersOf
  <2>2. ASSUME NEW i \in DOMAIN part, c \in part[i].senders
        PROVE  \E j \in k + 1 .. n : c \in jobs[j].senders
    <3>1. k + i \in k + 1 .. n /\ part[i] = jobs[k + i]
      BY <1>2
    <3> QED
      BY <2>2, <3>1
  <2> QED
    BY <2>1, <2>2, WaitersOf
<1>7. Asked(part) \subseteq Asked(jobs)
  BY <1>3 DEF Asked
<1> QED
  BY <1>2, <1>4, <1>5, <1>6, <1>7 DEF part

(* A lane is cut in two.                                                   *)
LEMMA CutJobs ==
    ASSUME NEW asks, NEW lane, OwnJobs(lane, asks), OneJobEach(lane),
           NEW m \in Nat, m <= Len(lane)
    PROVE  LET front == SubSeq(lane, 1, m)
               rest  == SubSeq(lane, m + 1, Len(lane))
           IN  /\ OwnJobs(front, asks)
               /\ OwnJobs(rest, asks) /\ OneJobEach(rest)
               /\ Len(front) = m /\ Len(rest) = Len(lane) - m
               /\ Waiters(front) \cup Waiters(rest) = Waiters(lane)
               /\ Waiters(front) \cap Waiters(rest) = {}
               /\ m > 0 => Waiters(front) # {}
               /\ Asked(rest) \subseteq Asked(lane)
<1> DEFINE n == Len(lane)
           front == SubSeq(lane, 1, m)
           rest  == SubSeq(lane, m + 1, n)
<1>1. lane \in Seq(Job) /\ DOMAIN lane = 1 .. n /\ n \in Nat
  BY JobsShape DEF OwnJobs
<1> DEFINE Part(k, e) == SubSeq(lane, k + 1, e)
<1>2. ASSUME NEW k \in Nat, NEW e \in Nat, k <= e, e <= n
      PROVE  /\ OwnJobs(Part(k, e), asks) /\ OneJobEach(Part(k, e))
             /\ Len(Part(k, e)) = e - k
             /\ \A c : c \in Waiters(Part(k, e)) <=>
                   \E i \in k + 1 .. e : c \in lane[i].senders
             /\ Asked(Part(k, e)) \subseteq Asked(lane)
  BY <1>2, PartOfJobs
<1> HIDE DEF Part
<1>3. /\ OwnJobs(Part(0, m), asks) /\ Len(Part(0, m)) = m
      /\ \A c : c \in Waiters(Part(0, m)) <=> \E i \in 1 .. m : c \in lane[i].senders
  <2>1. 0 \in Nat /\ 0 <= m /\ m <= n /\ m - 0 = m /\ 0 + 1 = 1
    BY <1>1
  <2> QED
    BY <1>2, <2>1, Zenon
<1>4. /\ OwnJobs(Part(m, n), asks) /\ OneJobEach(Part(m, n)) /\ Len(Part(m, n)) = n - m
      /\ \A c : c \in Waiters(Part(m, n)) <=> \E i \in m + 1 .. n : c \in lane[i].senders
      /\ Asked(Part(m, n)) \subseteq Asked(lane)
  <2>1. m <= n /\ n <= n
    BY <1>1
  <2> QED
    BY <1>1, <1>2, <2>1, Zenon
<1>f. front = Part(0, m) /\ rest = Part(m, n)
  BY DEF Part
<1>5. \A c : c \in Waiters(lane) <=> \E i \in 1 .. n : c \in lane[i].senders
  BY <1>1, WaitersOf
<1> HIDE DEF front, rest
<1>6. Waiters(front) \cup Waiters(rest) = Waiters(lane)
  BY <1>1, <1>3, <1>4, <1>5, <1>f
<1>7. ASSUME NEW c, c \in Waiters(front), c \in Waiters(rest) PROVE FALSE
  <2>1. PICK i \in 1 .. m : c \in lane[i].senders
    BY <1>3, <1>7, <1>f
  <2>2. PICK j \in m + 1 .. n : c \in lane[j].senders
    BY <1>4, <1>7, <1>f
  <2>3. i \in 1 .. n /\ j \in 1 .. n /\ i # j
    BY <1>1
  <2> QED
    BY <1>1, <2>1, <2>2, <2>3 DEF OwnJobs
<1>8. ASSUME m > 0 PROVE Waiters(front) # {}
  <2>1. 1 \in 1 .. m /\ 1 \in 1 .. n
    BY <1>1, <1>8
  <2>2. PICK c : c \in lane[1].senders
    BY <1>1, <2>1 DEF OneJobEach
  <2> QED
    BY <1>3, <1>f, <2>1, <2>2
<1> QED
  BY <1>3, <1>4, <1>6, <1>7, <1>8, <1>f DEF front, rest

(* Two sequences of jobs for different callers are put together.           *)
LEMMA ConcatJobs ==
    ASSUME NEW asks, NEW s, OwnJobs(s, asks), NEW t, OwnJobs(t, asks),
           Waiters(s) \cap Waiters(t) = {}
    PROVE  /\ OwnJobs(s \o t, asks)
           /\ Waiters(s \o t) = Waiters(s) \cup Waiters(t)
           /\ Len(s \o t) = Len(s) + Len(t)
<1> DEFINE u == s \o t
<1>1. /\ s \in Seq(Job) /\ DOMAIN s = 1 .. Len(s) /\ Len(s) \in Nat
      /\ t \in Seq(Job) /\ DOMAIN t = 1 .. Len(t) /\ Len(t) \in Nat
  BY JobsShape DEF OwnJobs
<1>2. /\ u \in Seq(Job) /\ Len(u) = Len(s) + Len(t) /\ DOMAIN u = 1 .. Len(s) + Len(t)
      /\ \A i \in 1 .. Len(s) + Len(t) :
            u[i] = IF i <= Len(s) THEN s[i] ELSE t[i - Len(s)]
  BY <1>1, ConcatProperties, LenProperties
<1> HIDE DEF u
<1>3. ASSUME NEW i \in DOMAIN u
      PROVE  \/ i \in DOMAIN s /\ u[i] = s[i]
             \/ i - Len(s) \in DOMAIN t /\ u[i] = t[i - Len(s)]
  BY <1>1, <1>2
<1>4. ASSUME NEW c, NEW i \in DOMAIN u, c \in u[i].senders
      PROVE  \/ i \in DOMAIN s /\ u[i] = s[i] /\ c \in Waiters(s)
             \/ i - Len(s) \in DOMAIN t /\ u[i] = t[i - Len(s)] /\ c \in Waiters(t)
  BY <1>3, <1>4, WaitersOf
<1>5. OwnJobs(u, asks)
  <2>1. ASSUME NEW i \in DOMAIN u, NEW j \in DOMAIN u, NEW c,
               c \in u[i].senders, c \in u[j].senders
        PROVE  i = j
    <3>1. i \in Nat /\ j \in Nat /\ Len(s) \in Nat
      BY <1>1, <1>2
    <3>2. CASE i \in DOMAIN s /\ u[i] = s[i] /\ c \in Waiters(s)
      <4>1. j \in DOMAIN s /\ u[j] = s[j]
        BY <1>4, <2>1, <3>2
      <4> QED
        BY <2>1, <3>2, <4>1 DEF OwnJobs
    <3>3. CASE i - Len(s) \in DOMAIN t /\ u[i] = t[i - Len(s)] /\ c \in Waiters(t)
      <4>1. j - Len(s) \in DOMAIN t /\ u[j] = t[j - Len(s)]
        BY <1>4, <2>1, <3>3
      <4>2. i - Len(s) = j - Len(s)
        BY <2>1, <3>3, <4>1 DEF OwnJobs
      <4> QED
        BY <3>1, <4>2
    <3> QED
      BY <1>4, <2>1, <3>2, <3>3
  <2>2. ASSUME NEW i \in DOMAIN u, NEW c \in u[i].senders
        PROVE  asks[c] # None /\ asks[c].order = u[i].order
    BY <1>3, <2>2 DEF OwnJobs
  <2> QED
    BY <1>2, <2>1, <2>2 DEF OwnJobs
<1>6. ASSUME NEW c \in Waiters(s) PROVE c \in Waiters(u)
  BY <1>1, <1>2, WaitersOf
<1>7. ASSUME NEW c \in Waiters(t) PROVE c \in Waiters(u)
  <2>1. PICK i \in DOMAIN t : c \in t[i].senders
    BY <1>7, WaitersOf
  <2>2. Len(s) + i \in DOMAIN u /\ u[Len(s) + i] = t[i]
    BY <1>1, <1>2
  <2> QED
    BY <2>1, <2>2, WaitersOf
<1>8. Waiters(u) = Waiters(s) \cup Waiters(t)
  BY <1>4, <1>6, <1>7, WaitersOf
<1> QED
  BY <1>2, <1>5, <1>8 DEF u

-----------------------------------------------------------------------------
(* The first state.                                                        *)
LEMMA InitIInv == Init => IInv
<1> SUFFICES ASSUME Init PROVE IInv
  OBVIOUS
<1> USE DEF Init
<1>1. /\ priority \in Seq(Job) /\ queue \in Seq(Job)
      /\ DOMAIN priority = {} /\ DOMAIN queue = {}
      /\ Waiters(priority) = {} /\ Waiters(queue) = {}
  BY DEF Waiters, ToSet
<1>2. TypeOK
  <2>1. height \in 0 .. MaxHeight /\ timers \in 0 .. MaxTimers /\ permits \in 0 .. Concurrent
    BY SizeAssumption, BatcherBoundAssumption
  <2>2. pending \in [Callers -> Call \cup {None}]
    OBVIOUS
  <2>3. dropped \subseteq Callers /\ calls \subseteq Seq(Job)
        /\ notify \in BOOLEAN /\ run \in {"wait", "acquire", "take"}
    OBVIOUS
  <2>4. \A r \in replies :
          r.jobs \in Seq(Job) /\ (r.output = Failed \/ r.output \in Seq(State))
    OBVIOUS
  <2> QED
    BY <1>1, <2>1, <2>2, <2>3, <2>4, Zenon DEF TypeOK
<1>3. Lanes
  BY <1>1 DEF Lanes, OwnJobs, OneJobEach, Asked
<1>4. Batches /\ Answers
  BY DEF Batches, Answers
<1>5. Partition
  BY <1>1 DEF Partition, Queued
<1>6. Accounted /\ Calls
  BY DEF Accounted, Calls
<1>7. Permits
  <2>1. IsFiniteSet(calls) /\ Cardinality(calls) = 0
    BY FS_EmptySet
  <2> QED
    BY <2>1, SizeAssumption DEF Permits, PermitsAccountedFor
<1>8. PriorityIsPromoted
  BY <1>1 DEF PriorityIsPromoted
<1>9. NoLostWakeup
  BY DEF NoLostWakeup
<1> QED
  BY <1>2, <1>3, <1>4, <1>5, <1>6, <1>7, <1>8, <1>9 DEF IInv

-----------------------------------------------------------------------------
(* FetchState                                                              *)

(* Who makes no call waits nowhere.                                        *)
LEMMA NotHeld ==
    ASSUME IInv, NEW c \in Callers, pending[c] = None
    PROVE  ~Held(c)
<1>1. \A jobs : OwnJobs(jobs, pending) => c \notin Waiters(jobs)
  BY WaitersAsked
<1>2. c \notin Queued
  BY <1>1 DEF IInv, Lanes, Queued
<1>3. \A b \in calls : c \notin Waiters(b)
  BY <1>1 DEF IInv, Batches
<1>4. \A r \in replies : c \notin Waiters(r.jobs)
  BY <1>1 DEF IInv, Answers
<1> QED
  BY <1>2, <1>3, <1>4 DEF Held

(* State::insert puts the caller into one lane; a promotion moves others   *)
(* with it, from the queue to the priority lane.                           *)
LEMMA MergeStep ==
    ASSUME IInv, NEW c \in Callers, NEW o \in Orders, NEW isPriority \in BOOLEAN,
           FetchState(c, o, isPriority)
    PROVE  /\ Lanes'
           /\ Waiters(priority') \cap Waiters(queue') = {}
           /\ Queued' = Queued \cup {c}
           /\ Waiters(queue') \subseteq
                 Waiters(queue) \cup (IF isPriority THEN {} ELSE {c})
<1> DEFINE Kept(lane) ==
        OwnJobs(lane, pending') /\ OneJobEach(lane)
<1>1. pending' = [pending EXCEPT ![c] = [order |-> o, priority |-> isPriority, asked |-> height]]
      /\ pending[c] = None /\ Merge(c, o, isPriority)
  BY DEF FetchState
<1>2. /\ \A d \in Callers \ {c} : pending'[d] = pending[d]
      /\ pending'[c] # None /\ pending'[c].order = o
  <2>1. [order |-> o, priority |-> isPriority, asked |-> height] \in Call
    BY DEF IInv, TypeOK, Call
  <2> QED
    BY <1>1, <2>1, NoneAssumption DEF IInv, TypeOK
<1>3. c \notin Waiters(priority) /\ c \notin Waiters(queue)
      /\ Waiters(priority) \subseteq Callers /\ Waiters(queue) \subseteq Callers
  BY <1>1, NotHeld, JobsShape DEF Held, Queued, IInv, TypeOK
<1>4. Kept(priority) /\ Kept(queue) /\ Asked(priority) \cap Asked(queue) = {}
      /\ Waiters(priority) \cap Waiters(queue) = {}
  BY <1>2, <1>3, OthersAsk DEF IInv, Lanes, Partition
<1>5. \A lane : Has(lane, o) <=> o \in Asked(lane)
  BY DEF Has, Asked
<1> HIDE DEF Kept
<1>6. CASE Has(priority, o)
  <2>1. priority' = Join(priority, o, c) /\ queue' = queue
    BY <1>1, <1>6 DEF Merge
  <2>2. /\ Kept(priority')
        /\ Waiters(priority') = Waiters(priority) \cup {c}
        /\ Asked(priority') = Asked(priority)
    BY <1>2, <1>3, <1>4, <1>6, <2>1, JoinJob DEF Kept
  <2> QED
    BY <1>3, <1>4, <2>1, <2>2 DEF Lanes, Queued, Kept
<1>7. CASE ~Has(priority, o) /\ Has(queue, o) /\ isPriority
  <2> DEFINE moved == Senders(queue, o)
             cs == moved \cup {c}
  <2>1. priority' = Append(priority, NewJob(o, cs)) /\ queue' = Without(queue, o)
    BY <1>1, <1>7 DEF Merge
  <2>2. /\ Kept(queue')
        /\ moved \subseteq Waiters(queue)
        /\ \A d \in moved : pending'[d] # None /\ pending'[d].order = o
        /\ Waiters(queue') = Waiters(queue) \ moved
        /\ Asked(queue') = Asked(queue) \ {o}
    BY <1>4, <1>7, <2>1, RemoveJob DEF Kept
  <2>3. cs \in SUBSET Callers /\ cs # {} /\ cs \cap Waiters(priority) = {}
        /\ \A d \in cs : pending'[d] # None /\ pending'[d].order = o
    BY <1>2, <1>3, <1>4, <2>2
  <2> HIDE DEF cs
  <2>4. /\ Kept(priority')
        /\ Waiters(priority') = Waiters(priority) \cup cs
        /\ Asked(priority') = Asked(priority) \cup {o}
    BY <1>4, <1>7, <2>1, <2>3, AppendJob DEF Kept
  <2> QED
    BY <1>3, <1>4, <1>7, <2>2, <2>4 DEF Lanes, Queued, Kept, cs
<1>8. CASE ~Has(priority, o) /\ Has(queue, o) /\ ~isPriority
  <2>1. priority' = priority /\ queue' = Join(queue, o, c)
    BY <1>1, <1>8 DEF Merge
  <2>2. /\ Kept(queue')
        /\ Waiters(queue') = Waiters(queue) \cup {c}
        /\ Asked(queue') = Asked(queue)
    BY <1>2, <1>3, <1>4, <1>8, <2>1, JoinJob DEF Kept
  <2> QED
    BY <1>3, <1>4, <1>8, <2>1, <2>2 DEF Lanes, Queued, Kept
<1>9. ASSUME NEW lane, Kept(lane), ~Has(lane, o), c \notin Waiters(lane)
      PROVE  /\ Kept(Append(lane, NewJob(o, {c})))
             /\ Waiters(Append(lane, NewJob(o, {c}))) = Waiters(lane) \cup {c}
             /\ Asked(Append(lane, NewJob(o, {c}))) = Asked(lane) \cup {o}
  <2> DEFINE cs == {c}
  <2>1. /\ cs \in SUBSET Callers /\ cs # {} /\ cs \cap Waiters(lane) = {}
        /\ \A d \in cs : pending'[d] # None /\ pending'[d].order = o
    BY <1>2, <1>9
  <2> HIDE DEF cs
  <2>2. /\ Kept(Append(lane, NewJob(o, cs)))
        /\ Waiters(Append(lane, NewJob(o, cs))) = Waiters(lane) \cup cs
        /\ Asked(Append(lane, NewJob(o, cs))) = Asked(lane) \cup {o}
    BY <1>9, <2>1, AppendJob DEF Kept
  <2> QED
    BY <2>2 DEF cs
<1>10. CASE ~Has(priority, o) /\ ~Has(queue, o) /\ isPriority
  <2>1. priority' = Append(priority, NewJob(o, {c})) /\ queue' = queue
    BY <1>1, <1>10 DEF Merge
  <2>2. /\ Kept(priority') /\ Waiters(priority') = Waiters(priority) \cup {c}
        /\ Asked(priority') = Asked(priority) \cup {o}
    BY <1>3, <1>4, <1>9, <1>10, <2>1
  <2>3. Waiters(priority') \cap Waiters(queue') = {} /\ Asked(priority') \cap Asked(queue') = {}
    BY <1>3, <1>4, <1>5, <1>10, <2>1, <2>2
  <2>4. Lanes'
    BY <1>4, <2>1, <2>2, <2>3 DEF Lanes, Kept
  <2> QED
    BY <2>1, <2>2, <2>3, <2>4 DEF Queued
<1>11. CASE ~Has(priority, o) /\ ~Has(queue, o) /\ ~isPriority
  <2>1. priority' = priority /\ queue' = Append(queue, NewJob(o, {c}))
    BY <1>1, <1>11 DEF Merge
  <2>2. /\ Kept(queue') /\ Waiters(queue') = Waiters(queue) \cup {c}
        /\ Asked(queue') = Asked(queue) \cup {o}
    BY <1>3, <1>4, <1>9, <1>11, <2>1
  <2>3. Waiters(priority') \cap Waiters(queue') = {} /\ Asked(priority') \cap Asked(queue') = {}
    BY <1>3, <1>4, <1>5, <1>11, <2>1, <2>2
  <2>4. Lanes'
    BY <1>4, <2>1, <2>2, <2>3 DEF Lanes, Kept
  <2> QED
    BY <1>11, <2>1, <2>2, <2>3, <2>4 DEF Queued
<1> QED
  BY <1>6, <1>7, <1>8, <1>10, <1>11

(* State::insert puts the new sender into one job: one that waits for the  *)
(* same order, a promoted one or a new one.                                *)
LEMMA FetchStateStep ==
    ASSUME IInv, NEW c \in Callers, NEW o \in Orders, NEW isPriority \in BOOLEAN,
           FetchState(c, o, isPriority)
    PROVE  IInv'
<1>1. /\ pending' = [pending EXCEPT ![c] = [order |-> o, priority |-> isPriority, asked |-> height]]
      /\ height' = height /\ dropped' = dropped /\ run' = run /\ permits' = permits
      /\ calls' = calls /\ replies' = replies
      /\ Signal(isPriority)
  BY DEF FetchState
<1>2. /\ Lanes' /\ Waiters(priority') \cap Waiters(queue') = {}
      /\ Queued' = Queued \cup {c}
      /\ Waiters(queue') \subseteq Waiters(queue) \cup (IF isPriority THEN {} ELSE {c})
  BY MergeStep
<1>3. ~Held(c)
  BY NotHeld DEF FetchState
<1>4. [order |-> o, priority |-> isPriority, asked |-> height] \in Call
  BY DEF IInv, TypeOK, Call
<1>5. /\ pending' \in [Callers -> Call \cup {None}]
      /\ \A d \in Callers \ {c} : pending'[d] = pending[d]
      /\ pending'[c] = [order |-> o, priority |-> isPriority, asked |-> height]
      /\ pending'[c] # None
  BY <1>1, <1>4, NoneAssumption DEF IInv, TypeOK
<1>6. /\ priority \in Seq(Job) /\ queue \in Seq(Job)
      /\ priority' \in Seq(Job) /\ queue' \in Seq(Job)
  BY <1>2 DEF Lanes, OwnJobs, IInv, TypeOK
<1>7. notify' \in BOOLEAN /\ timers' \in 0 .. MaxTimers
  BY <1>1, BatcherBoundAssumption DEF Signal, IInv, TypeOK
<1>8. TypeOK'
  BY <1>1, <1>5, <1>6, <1>7 DEF IInv, TypeOK
<1>9. ASSUME NEW jobs, OwnJobs(jobs, pending), c \notin Waiters(jobs)
      PROVE  OwnJobs(jobs, pending')
  <2>1. \A d \in Waiters(jobs) : pending'[d] = pending[d]
    BY <1>5, <1>9, WaitersAsked
  <2> QED
    BY <1>9, <2>1, OthersAsk
<1>10. Batches'
  BY <1>1, <1>3, <1>9 DEF IInv, Batches, Held
<1>11. Answers'
  <2>1. ASSUME NEW r \in replies, Fits(r, pending, height), OwnJobs(r.jobs, pending),
               c \notin Waiters(r.jobs)
        PROVE  Fits(r, pending', height)
    <3>1. \A i \in DOMAIN r.jobs : \A d \in r.jobs[i].senders : pending'[d] = pending[d]
      BY <1>5, <2>1, WaitersOf, WaitersAsked
    <3> QED
      BY <2>1, <3>1 DEF Fits
  <2> QED
    BY <1>1, <1>3, <1>9, <2>1 DEF IInv, Answers, Held
<1>12. Partition'
  BY <1>1, <1>2, <1>3 DEF IInv, Partition, Held
<1>13. Accounted'
  BY <1>1, <1>2, <1>5 DEF IInv, Accounted, Held
<1>14. Calls'
  BY <1>1, <1>5 DEF IInv, Calls, TypeOK
<1>15. PriorityIsPromoted'
  <2>1. ASSUME NEW d \in Waiters(queue') PROVE ~pending'[d].priority
    <3>1. Waiters(queue) \subseteq Callers
      BY <1>6, JobsShape
    <3>2. CASE d = c
      <4>1. ~isPriority
        BY <1>2, <1>3, <2>1, <3>2 DEF Held, Queued
      <4> QED
        BY <1>5, <3>2, <4>1
    <3>3. CASE d # c
      BY <1>2, <1>5, <2>1, <3>1, <3>3 DEF IInv, PriorityIsPromoted
    <3> QED
      BY <3>2, <3>3
  <2> QED
    BY <2>1 DEF PriorityIsPromoted
<1>16. Permits'
  BY <1>1 DEF IInv, Permits, PermitsAccountedFor
<1>17. NoLostWakeup'
  <2> DEFINE wasEmpty == IF isPriority THEN priority = <<>> ELSE queue = <<>>
             full == Len(priority') + Len(queue') = BatchSize
  <2>1. priority \o queue = <<>> => priority = <<>> /\ queue = <<>>
    BY <1>6, ConcatEqualIffEmpty
  <2>2. /\ notify' = (notify \/ full)
        /\ timers' = IF ~full /\ wasEmpty THEN timers + 1 ELSE timers
    BY <1>1 DEF Signal
  <2>3. timers \in Nat
    BY DEF IInv, TypeOK
  <2>4. CASE full
    BY <2>2, <2>4 DEF NoLostWakeup
  <2>5. CASE ~full /\ wasEmpty
    BY <2>2, <2>3, <2>5 DEF NoLostWakeup
  <2>6. CASE ~full /\ ~wasEmpty
    <3>1. priority \o queue # <<>> /\ notify' = notify /\ timers' = timers
      <4>1. priority # <<>> \/ queue # <<>>
        BY <2>6
      <4>2. (notify \/ FALSE) = notify
        BY DEF IInv, TypeOK
      <4> QED
        BY <2>1, <2>2, <2>6, <4>1, <4>2
    <3> QED
      BY <1>1, <3>1 DEF IInv, NoLostWakeup
  <2> QED
    BY <2>4, <2>5, <2>6
<1> QED
  BY <1>2, <1>8, <1>10, <1>11, <1>12, <1>13, <1>14, <1>15, <1>16, <1>17 DEF IInv

-----------------------------------------------------------------------------
(* TakeBatch and FindEmpty                                                 *)

(* State::take_batch: how many jobs it takes from each lane.               *)
LEMMA BatchSizes ==
    ASSUME TypeOK
    PROVE  /\ Len(priority) \in Nat /\ Len(queue) \in Nat
           /\ FromPriority \in Nat /\ FromPriority <= Len(priority)
           /\ FromQueue \in Nat /\ FromQueue <= Len(queue)
           /\ FromPriority + FromQueue <= BatchSize
           /\ FromQueue > 0 => FromPriority = Len(priority)
           /\ FromPriority + FromQueue = 0 => Len(priority) = 0 /\ Len(queue) = 0
<1>1. Len(priority) \in Nat /\ Len(queue) \in Nat
  BY LenProperties DEF TypeOK
<1>2. BatchSize \in Nat /\ BatchSize > 0
  BY SizeAssumption
<1>3. \A a, b \in Nat :
          Least(a, b) \in Nat /\ Least(a, b) <= a /\ Least(a, b) <= b
          /\ (Least(a, b) = a \/ Least(a, b) = b)
  BY DEF Least
<1>4. /\ FromPriority \in Nat /\ FromPriority <= Len(priority)
      /\ FromPriority <= BatchSize
      /\ FromPriority = Len(priority) \/ FromPriority = BatchSize
  BY <1>1, <1>2, <1>3 DEF FromPriority
<1>5. BatchSize - FromPriority \in Nat
  BY <1>2, <1>4
<1>6. /\ FromQueue \in Nat /\ FromQueue <= Len(queue)
      /\ FromQueue <= BatchSize - FromPriority
      /\ FromQueue = Len(queue) \/ FromQueue = BatchSize - FromPriority
  BY <1>1, <1>3, <1>5 DEF FromQueue
<1> QED
  BY <1>1, <1>2, <1>4, <1>6

(* What take_batch takes is as long as it counts.                          *)
LEMMA BatchLength ==
    ASSUME TypeOK
    PROVE  /\ NextBatch \in Seq(Job)
           /\ Len(NextBatch) = FromPriority + FromQueue
<1> DEFINE p == SubSeq(priority, 1, FromPriority)
           q == SubSeq(queue, 1, FromQueue)
<1>1. p \in Seq(Job) /\ Len(p) = FromPriority /\ q \in Seq(Job) /\ Len(q) = FromQueue
  <2>1. ASSUME NEW lane \in Seq(Job), NEW n \in Nat, n <= Len(lane)
        PROVE  SubSeq(lane, 1, n) \in Seq(Job) /\ Len(SubSeq(lane, 1, n)) = n
    BY <2>1, LenProperties
  <2> QED
    BY <2>1, BatchSizes DEF TypeOK
<1>2. NextBatch = p \o q
  BY DEF NextBatch
<1> HIDE DEF p, q
<1> QED
  BY <1>1, <1>2, ConcatProperties

(* A batch takes its callers out of the lanes, the submitted orders first. *)
LEMMA BatchTaken ==
    ASSUME IInv, TakeBatch
    PROVE  /\ Lanes'
           /\ OwnJobs(NextBatch, pending) /\ Waiters(NextBatch) # {}
           /\ Waiters(NextBatch) \cup Queued' = Queued
           /\ Waiters(NextBatch) \cap Queued' = {}
           /\ Waiters(priority') \subseteq Waiters(priority)
           /\ Waiters(queue') \subseteq Waiters(queue)
           /\ Len(NextBatch) \in 1 .. BatchSize
           /\ Waiters(NextBatch) \cap Waiters(queue) # {} => priority' = <<>>
<1> DEFINE p == SubSeq(priority, 1, FromPriority)
           q == SubSeq(queue, 1, FromQueue)
<1>1. /\ pending' = pending
      /\ priority' = SubSeq(priority, FromPriority + 1, Len(priority))
      /\ queue' = SubSeq(queue, FromQueue + 1, Len(queue))
      /\ NextBatch = p \o q /\ NextBatch # <<>>
  BY DEF TakeBatch, NextBatch, callerVars
<1>2. /\ OwnJobs(priority, pending) /\ OneJobEach(priority)
      /\ OwnJobs(queue, pending) /\ OneJobEach(queue)
      /\ Asked(priority) \cap Asked(queue) = {}
      /\ Waiters(priority) \cap Waiters(queue) = {}
      /\ TypeOK
  BY DEF IInv, Lanes, Partition
<1>3. /\ OwnJobs(p, pending) /\ Len(p) = FromPriority
      /\ OwnJobs(priority', pending) /\ OneJobEach(priority')
      /\ Len(priority') = Len(priority) - FromPriority
      /\ Waiters(p) \cup Waiters(priority') = Waiters(priority)
      /\ Waiters(p) \cap Waiters(priority') = {}
      /\ FromPriority > 0 => Waiters(p) # {}
      /\ Asked(priority') \subseteq Asked(priority)
  <2>1. FromPriority \in Nat /\ FromPriority <= Len(priority)
    BY <1>2, BatchSizes
  <2> QED
    BY <1>1, <1>2, <2>1, CutJobs, SMTT(20)
<1>4. /\ OwnJobs(q, pending) /\ Len(q) = FromQueue
      /\ OwnJobs(queue', pending) /\ OneJobEach(queue')
      /\ Waiters(q) \cup Waiters(queue') = Waiters(queue)
      /\ Waiters(q) \cap Waiters(queue') = {}
      /\ FromQueue > 0 => Waiters(q) # {}
      /\ Asked(queue') \subseteq Asked(queue)
  BY <1>1, <1>2, BatchSizes, CutJobs
<1> HIDE DEF p, q
<1>5. /\ OwnJobs(NextBatch, pending)
      /\ Waiters(NextBatch) = Waiters(p) \cup Waiters(q)
  BY <1>1, <1>2, <1>3, <1>4, ConcatJobs
<1>6. Lanes'
  BY <1>1, <1>2, <1>3, <1>4 DEF Lanes
<1>7. Len(NextBatch) \in 1 .. BatchSize
  <2>1. Len(NextBatch) \in Nat \ {0}
    BY <1>1, <1>2, BatchLength, EmptySeq
  <2> QED
    BY <1>2, <2>1, BatchLength, BatchSizes, SizeAssumption
<1>8. Waiters(NextBatch) # {}
  <2>1. FromPriority > 0 \/ FromQueue > 0
    BY <1>2, <1>7, BatchLength, BatchSizes
  <2> QED
    BY <1>3, <1>4, <1>5, <2>1
<1>9. ASSUME Waiters(NextBatch) \cap Waiters(queue) # {} PROVE priority' = <<>>
  <2>1. Waiters(q) # {}
    BY <1>2, <1>3, <1>5, <1>9
  <2>2. FromQueue # 0
    <3>1. q \in Seq(Job)
      BY <1>4 DEF OwnJobs
    <3> QED
      BY <1>4, <2>1, <3>1, JobsShape, WaitersOf
  <2>3. Len(priority') = 0
    BY <1>2, <1>3, <2>2, BatchSizes
  <2> QED
    BY <1>3, <2>3, EmptySeq DEF OwnJobs
<1>10. /\ Waiters(NextBatch) \cup Queued' = Queued
       /\ Waiters(NextBatch) \cap Queued' = {}
       /\ Waiters(priority') \subseteq Waiters(priority)
       /\ Waiters(queue') \subseteq Waiters(queue)
  BY <1>2, <1>3, <1>4, <1>5 DEF Queued
<1> QED
  BY <1>5, <1>6, <1>7, <1>8, <1>9, <1>10

(* State::take_batch moves whole jobs from the front of the lanes to a     *)
(* batch, and the permit of run with them.                                 *)
LEMMA TakeBatchStep ==
    ASSUME IInv, TakeBatch
    PROVE  IInv'
<1>1. /\ height' = height /\ pending' = pending /\ dropped' = dropped
      /\ timers' = timers /\ notify' = notify
      /\ run = "take" /\ run' = "acquire" /\ permits' = permits
      /\ calls' = calls \cup {NextBatch} /\ replies' = replies
  BY DEF TakeBatch, callerVars, wakeVars
<1>2. /\ Lanes'
      /\ OwnJobs(NextBatch, pending) /\ Waiters(NextBatch) # {}
      /\ Waiters(NextBatch) \cup Queued' = Queued
      /\ Waiters(NextBatch) \cap Queued' = {}
      /\ Waiters(priority') \subseteq Waiters(priority)
      /\ Waiters(queue') \subseteq Waiters(queue)
  BY BatchTaken
<1>3. TypeOK'
  <2>1. priority' \in Seq(Job) /\ queue' \in Seq(Job) /\ NextBatch \in Seq(Job)
    BY <1>2 DEF Lanes, OwnJobs
  <2> QED
    BY <1>1, <2>1 DEF IInv, TypeOK
<1>4. Batches' /\ Answers'
  BY <1>1, <1>2 DEF IInv, Batches, Answers
<1>5. NextBatch \notin calls
  BY <1>2 DEF IInv, Partition
<1>6. Partition'
  <2>1. Queued' \subseteq Queued /\ Waiters(NextBatch) \subseteq Queued
    BY <1>2
  <2>2. Waiters(priority') \cap Waiters(queue') = {}
    BY <1>2 DEF IInv, Partition
  <2>3. \A b \in calls' : Waiters(b) \cap Queued' = {}
    BY <1>1, <1>2, <2>1 DEF IInv, Partition
  <2>4. \A r \in replies' : Waiters(r.jobs) \cap Queued' = {}
    BY <1>1, <2>1 DEF IInv, Partition
  <2>5. \A a, b \in calls' : a # b => Waiters(a) \cap Waiters(b) = {}
    BY <1>1, <2>1 DEF IInv, Partition
  <2>6. \A q, r \in replies' : q # r => Waiters(q.jobs) \cap Waiters(r.jobs) = {}
    BY <1>1 DEF IInv, Partition
  <2>7. \A b \in calls', r \in replies' : Waiters(b) \cap Waiters(r.jobs) = {}
    BY <1>1, <2>1 DEF IInv, Partition
  <2> QED
    BY <2>2, <2>3, <2>4, <2>5, <2>6, <2>7 DEF Partition
<1>7. Accounted'
  BY <1>1, <1>2 DEF IInv, Accounted, Held
<1>8. Calls' /\ PriorityIsPromoted' /\ NoLostWakeup'
  BY <1>1, <1>2 DEF IInv, Calls, PriorityIsPromoted, NoLostWakeup
<1>9. Permits'
  <2>1. IsFiniteSet(calls) /\ permits + Cardinality(calls) + 1 = Concurrent
        /\ permits \in Nat
    BY <1>1 DEF IInv, Permits, PermitsAccountedFor, TypeOK
  <2>2. Cardinality(calls) \in Nat
    BY <2>1, FS_CardinalityType
  <2>3. IsFiniteSet(calls') /\ Cardinality(calls') = Cardinality(calls) + 1
    BY <1>1, <1>5, <2>1, FS_AddElement
  <2> QED
    BY <1>1, <2>1, <2>2, <2>3 DEF Permits, PermitsAccountedFor
<1> QED
  BY <1>2, <1>3, <1>4, <1>6, <1>7, <1>8, <1>9 DEF IInv

-----------------------------------------------------------------------------
(* FetchBatch                                                              *)

(* The contract's answer fits the jobs it was asked about: whoever waits   *)
(* for it asked in the past.                                               *)
LEMMA OutputFits ==
    ASSUME IInv, NEW batch \in calls
    PROVE  /\ Output(batch) \in Seq(State)
           /\ Fits([jobs |-> batch, output |-> Output(batch)], pending, height)
<1>1. /\ OwnJobs(batch, pending)
      /\ batch \in Seq(Job) /\ DOMAIN batch = 1 .. Len(batch) /\ Len(batch) \in Nat
      /\ \A i \in DOMAIN batch :
            batch[i].order \in Orders /\ batch[i].senders \subseteq Callers
  BY JobsShape DEF IInv, Batches, OwnJobs
<1>2. height \in 0 .. MaxHeight /\ height \in Nat
  BY BatcherBoundAssumption DEF IInv, TypeOK
<1>3. \A i \in DOMAIN batch : [order |-> batch[i].order, at |-> height] \in State
  BY <1>1, <1>2 DEF State
<1> DEFINE output == Output(batch)
<1>4. /\ DOMAIN output = 1 .. Len(batch)
      /\ \A i \in DOMAIN batch :
            /\ output[i] \in State
            /\ output[i].order = batch[i].order /\ output[i].at = height
  BY <1>1, <1>3 DEF Output
<1>5. output \in Seq(State)
  BY <1>1, <1>3 DEF Output
<1> HIDE DEF output
<1>6. Len(output) = Len(batch)
  BY <1>1, <1>4, <1>5, LenProperties
<1>7. \A i \in DOMAIN batch : \A c \in batch[i].senders : pending[c].asked <= height
  BY <1>1 DEF IInv, Calls, OwnJobs
<1> DEFINE r == [jobs |-> batch, output |-> output]
<1>8. r.jobs = batch /\ r.output = output
  OBVIOUS
<1> HIDE DEF r
<1>9. Fits(r, pending, height)
  BY <1>2, <1>4, <1>6, <1>7, <1>8 DEF Fits
<1> QED
  BY <1>5, <1>9 DEF output, r

(* A batch that is fetched, or fails, keeps its jobs; its permit returns.  *)
LEMMA FetchBatchStep ==
    ASSUME IInv, NEW batch \in calls, FetchBatch(batch)
    PROVE  IInv'
<1>1. PICK output \in {Output(batch), Failed} :
          replies' = replies \cup {[jobs |-> batch, output |-> output]}
  BY DEF FetchBatch
<1>2. /\ height' = height /\ pending' = pending /\ dropped' = dropped
      /\ priority' = priority /\ queue' = queue
      /\ timers' = timers /\ notify' = notify /\ run' = run
      /\ permits' = permits + 1 /\ calls' = calls \ {batch}
  BY DEF FetchBatch, callerVars, laneVars, wakeVars
<1> DEFINE new == [jobs |-> batch, output |-> output]
<1>3. /\ new \in Reply /\ new.jobs = batch
      /\ OwnJobs(new.jobs, pending) /\ Waiters(new.jobs) # {}
      /\ new.output # Failed => Fits(new, pending, height)
  <2>1. OwnJobs(batch, pending) /\ Waiters(batch) # {} /\ batch \in Seq(Job)
    BY DEF IInv, Batches, OwnJobs
  <2>2. output = Failed \/ (output \in Seq(State) /\ Fits(new, pending, height))
    BY OutputFits
  <2> QED
    BY <2>1, <2>2 DEF Reply
<1>4. replies' = replies \cup {new}
  BY <1>1
<1> HIDE DEF new
<1>5. Permits' /\ permits' \in 0 .. Concurrent
  <2>1. IsFiniteSet(calls) /\ PermitsAccountedFor /\ permits \in Nat /\ Concurrent \in Nat
    BY SizeAssumption DEF IInv, Permits, TypeOK
  <2>2. /\ Cardinality(calls) \in Nat /\ IsFiniteSet(calls')
        /\ Cardinality(calls') = Cardinality(calls) - 1 /\ Cardinality(calls') \in Nat
    BY <1>2, <2>1, FS_CardinalityType, FS_RemoveElement
  <2> QED
    BY <1>2, <2>1, <2>2 DEF Permits, PermitsAccountedFor
<1>6. TypeOK'
  <2>1. new.jobs \in Seq(Job) /\ (new.output = Failed \/ new.output \in Seq(State))
    BY <1>3 DEF Reply
  <2> QED
    BY <1>2, <1>4, <1>5, <2>1 DEF IInv, TypeOK
<1>7. Lanes' /\ Batches' /\ Answers'
  BY <1>2, <1>3, <1>4 DEF IInv, Lanes, Batches, Answers
<1>8. Partition'
  <2>1. Queued' = Queued
    BY <1>2 DEF Queued
  <2> QED
    BY <1>2, <1>3, <1>4, <2>1 DEF IInv, Partition
<1>9. Accounted'
  <2>1. ASSUME NEW c, Held(c) PROVE Held(c)'
    BY <1>2, <1>3, <1>4, <2>1 DEF Held, Queued
  <2> QED
    BY <1>2, <2>1 DEF IInv, Accounted
<1>10. Calls' /\ PriorityIsPromoted' /\ NoLostWakeup'
  BY <1>2 DEF IInv, Calls, PriorityIsPromoted, NoLostWakeup
<1> QED
  BY <1>5, <1>6, <1>7, <1>8, <1>9, <1>10 DEF IInv

-----------------------------------------------------------------------------
(* SendResult                                                              *)

(* What is left of a reply after one of its results was sent.              *)
Rest(r, i, c) == [r EXCEPT !.jobs[i].senders = @ \ {c}]

(* Sending one result takes one sender from one job, and leaves every      *)
(* result at its position.                                                 *)
LEMMA RestOfReply ==
    ASSUME NEW asks, NEW r \in Reply, OwnJobs(r.jobs, asks),
           NEW i \in DOMAIN r.jobs, NEW c \in r.jobs[i].senders
    PROVE  /\ Rest(r, i, c) \in Reply
           /\ OwnJobs(Rest(r, i, c).jobs, asks)
           /\ Waiters(Rest(r, i, c).jobs) = Waiters(r.jobs) \ {c}
           /\ Rest(r, i, c).output = r.output
           /\ \A now : Fits(r, asks, now) => Fits(Rest(r, i, c), asks, now)
<1> DEFINE jobs == r.jobs
           job  == [jobs[i] EXCEPT !.senders = @ \ {c}]
           left == [jobs EXCEPT ![i] = job]
           rest == Rest(r, i, c)
<1>1. /\ jobs \in Seq(Job) /\ DOMAIN jobs = 1 .. Len(jobs) /\ Len(jobs) \in Nat
      /\ jobs[i] \in Job
  BY JobsShape DEF OwnJobs
<1>2. job \in Job /\ job.order = jobs[i].order /\ job.senders = jobs[i].senders \ {c}
  BY <1>1 DEF Job
<1>3. /\ left \in Seq(Job) /\ DOMAIN left = DOMAIN jobs /\ Len(left) = Len(jobs)
      /\ left[i].order = jobs[i].order /\ left[i].senders = jobs[i].senders \ {c}
      /\ \A j \in DOMAIN jobs \ {i} : left[j] = jobs[j]
  BY <1>1, <1>2, ExceptSeq
<1>4. rest.jobs = left /\ rest.output = r.output /\ rest \in Reply
  BY <1>1, <1>3 DEF Rest, Reply
<1> HIDE DEF left, rest, job
<1>5. \A j \in DOMAIN jobs :
          left[j].order = jobs[j].order /\ left[j].senders \subseteq jobs[j].senders
  BY <1>3
<1>6. OwnJobs(left, asks)
  BY <1>3, <1>5 DEF OwnJobs
<1>7. Waiters(left) = Waiters(jobs) \ {c}
  <2>1. \A j \in DOMAIN jobs : c \notin left[j].senders
    BY <1>3 DEF OwnJobs
  <2>2. ASSUME NEW d, d # c, NEW j \in DOMAIN jobs
        PROVE  d \in left[j].senders <=> d \in jobs[j].senders
    BY <1>3, <2>2
  <2> QED
    BY <1>3, <2>1, <2>2, WaitersOf
<1>8. ASSUME NEW now, Fits(r, asks, now) PROVE Fits(rest, asks, now)
  BY <1>3, <1>4, <1>5, <1>8 DEF Fits
<1> QED
  BY <1>4, <1>6, <1>7, <1>8 DEF rest

(* A result is sent to one sender, who is then nowhere else.               *)
LEMMA SendResultStep ==
    ASSUME IInv, NEW c \in Callers, NEW r \in replies, NEW i \in DOMAIN r.jobs,
           SendResult(r, i, c)
    PROVE  IInv'
<1> DEFINE rest == Rest(r, i, c)
<1>1. /\ c \in r.jobs[i].senders
      /\ replies' = (replies \ {r}) \cup (IF Waiters(rest.jobs) = {} THEN {} ELSE {rest})
      /\ pending' = [pending EXCEPT ![c] = None] /\ dropped' = dropped \ {c}
      /\ height' = height /\ priority' = priority /\ queue' = queue
      /\ timers' = timers /\ notify' = notify /\ run' = run
      /\ permits' = permits /\ calls' = calls
  BY DEF SendResult, Rest, laneVars, wakeVars
<1>2. /\ pending' \in [Callers -> Call \cup {None}] /\ pending'[c] = None
      /\ \A d \in Callers \ {c} : pending'[d] = pending[d]
  BY <1>1 DEF IInv, TypeOK
<1>3. r \in Reply /\ OwnJobs(r.jobs, pending)
      /\ (r.output # Failed => Fits(r, pending, height))
  BY DEF IInv, Answers
<1>4. /\ rest \in Reply /\ OwnJobs(rest.jobs, pending)
      /\ Waiters(rest.jobs) = Waiters(r.jobs) \ {c} /\ c \in Waiters(r.jobs)
      /\ rest.output = r.output
      /\ (rest.output # Failed => Fits(rest, pending, height))
  <2>1. c \in Waiters(r.jobs)
    BY <1>1, WaitersOf
  <2>2. /\ rest \in Reply /\ OwnJobs(rest.jobs, pending)
        /\ Waiters(rest.jobs) = Waiters(r.jobs) \ {c} /\ rest.output = r.output
        /\ \A now : Fits(r, pending, now) => Fits(rest, pending, now)
    BY <1>1, <1>3, RestOfReply
  <2> HIDE DEF rest
  <2> QED
    BY <1>3, <2>1, <2>2
<1> HIDE DEF rest
<1>5. ASSUME NEW jobs, OwnJobs(jobs, pending), c \notin Waiters(jobs)
      PROVE  /\ OwnJobs(jobs, pending')
             /\ \A j \in DOMAIN jobs : \A d \in jobs[j].senders : pending'[d] = pending[d]
  <2>1. \A d \in Waiters(jobs) : pending'[d] = pending[d]
    BY <1>2, <1>5, WaitersAsked
  <2> QED
    BY <1>5, <2>1, OthersAsk, WaitersOf
<1>6. /\ c \notin Waiters(priority) /\ c \notin Waiters(queue)
      /\ \A b \in calls : c \notin Waiters(b)
      /\ \A q \in replies : q # r => c \notin Waiters(q.jobs)
      /\ c \notin Waiters(rest.jobs)
  BY <1>4 DEF IInv, Partition, Queued
<1>7. \A q \in replies' :
          \/ q \in replies /\ q # r
          \/ q = rest /\ Waiters(rest.jobs) # {}
  BY <1>1
<1>8. TypeOK'
  <2>1. \A q \in replies' :
            q.jobs \in Seq(Job) /\ (q.output = Failed \/ q.output \in Seq(State))
    BY <1>4, <1>7 DEF Reply, IInv, TypeOK
  <2> QED
    BY <1>1, <1>2, <2>1 DEF IInv, TypeOK
<1>9. Lanes' /\ Batches'
  BY <1>1, <1>5, <1>6 DEF IInv, Lanes, Batches
<1>10. Answers'
  <2>1. ASSUME NEW q, OwnJobs(q.jobs, pending), c \notin Waiters(q.jobs),
               Fits(q, pending, height)
        PROVE  Fits(q, pending', height)
    <3>1. \A j \in DOMAIN q.jobs : \A d \in q.jobs[j].senders : pending'[d] = pending[d]
      BY <1>5, <2>1
    <3> QED
      BY <2>1, <3>1 DEF Fits
  <2>2. ASSUME NEW q \in replies, q # r
        PROVE  /\ q \in Reply /\ OwnJobs(q.jobs, pending') /\ Waiters(q.jobs) # {}
               /\ q.output # Failed => Fits(q, pending', height)
    BY <1>5, <1>6, <2>1, <2>2 DEF IInv, Answers
  <2>3. /\ OwnJobs(rest.jobs, pending')
        /\ rest.output # Failed => Fits(rest, pending', height)
    BY <1>4, <1>5, <1>6, <2>1
  <2> QED
    BY <1>1, <1>4, <1>7, <2>2, <2>3 DEF Answers
<1>11. Partition'
  <2>1. Queued' = Queued
    BY <1>1 DEF Queued
  <2>2. Waiters(rest.jobs) \subseteq Waiters(r.jobs)
    BY <1>4
  <2>3. \A q \in replies' : Waiters(q.jobs) \cap Queued = {}
    BY <1>7, <2>2 DEF IInv, Partition
  <2>4. \A q, s \in replies' : q # s => Waiters(q.jobs) \cap Waiters(s.jobs) = {}
    BY <1>7, <2>2 DEF IInv, Partition
  <2>5. \A b \in calls, q \in replies' : Waiters(b) \cap Waiters(q.jobs) = {}
    BY <1>7, <2>2 DEF IInv, Partition
  <2> QED
    BY <1>1, <2>1, <2>3, <2>4, <2>5 DEF IInv, Partition
<1>12. Accounted'
  <2>1. ASSUME NEW d, d # c, Held(d) PROVE Held(d)'
    <3>1. CASE d \in Queued
      BY <1>1, <3>1 DEF Held, Queued
    <3>2. CASE \E b \in calls : d \in Waiters(b)
      BY <1>1, <3>2 DEF Held
    <3>3. CASE \E q \in replies : d \in Waiters(q.jobs)
      <4>1. PICK q \in replies : d \in Waiters(q.jobs)
        BY <3>3
      <4>2. CASE q = r
        <5>1. d \in Waiters(rest.jobs)
          BY <1>4, <2>1, <4>1, <4>2
        <5> QED
          BY <1>1, <5>1 DEF Held
      <4>3. CASE q # r
        BY <1>1, <4>1, <4>3 DEF Held
      <4> QED
        BY <4>2, <4>3
    <3> QED
      BY <2>1, <3>1, <3>2, <3>3 DEF Held
  <2> QED
    BY <1>1, <1>2, <2>1 DEF IInv, Accounted
<1>13. Calls'
  BY <1>1, <1>2 DEF IInv, Calls, TypeOK
<1>14. PriorityIsPromoted'
  <2>1. Waiters(queue) \subseteq Callers
    BY JobsShape DEF IInv, TypeOK
  <2> QED
    BY <1>1, <1>2, <1>6, <2>1 DEF IInv, PriorityIsPromoted
<1>15. Permits' /\ NoLostWakeup'
  BY <1>1 DEF IInv, Permits, PermitsAccountedFor, NoLostWakeup
<1> QED
  BY <1>8, <1>9, <1>10, <1>11, <1>12, <1>13, <1>14, <1>15 DEF IInv

-----------------------------------------------------------------------------
(* The steps that move no sender.                                          *)
LEMMA OtherSteps ==
    ASSUME IInv,
           \/ Advance \/ (\E c \in Callers : DropCall(c)) \/ TimerFires
           \/ Notified \/ AcquirePermit \/ FindEmpty \/ UNCHANGED vars
    PROVE  IInv'
<1> USE DEF callerVars, laneVars, wakeVars
<1>1. /\ pending' = pending /\ priority' = priority /\ queue' = queue
      /\ calls' = calls /\ replies' = replies
  BY DEF Advance, DropCall, TimerFires, Notified, AcquirePermit, FindEmpty, vars
<1>2. /\ height \in Nat /\ height' \in 0 .. MaxHeight /\ height <= height'
      /\ timers' \in 0 .. MaxTimers /\ notify' \in BOOLEAN
      /\ run' \in {"wait", "acquire", "take"}
      /\ dropped' \subseteq Callers
      /\ \A c \in dropped' : pending[c] # None
  <2>1. /\ height \in 0 .. MaxHeight /\ timers \in 0 .. MaxTimers /\ notify \in BOOLEAN
        /\ run \in {"wait", "acquire", "take"} /\ dropped \subseteq Callers
        /\ MaxHeight \in Nat /\ MaxTimers \in Nat
    BY BatcherBoundAssumption DEF IInv, TypeOK
  <2>2. height' = height \/ (height' = height + 1 /\ height < MaxHeight)
    BY DEF Advance, DropCall, TimerFires, Notified, AcquirePermit, FindEmpty, vars
  <2>3. timers' = timers \/ (timers' = timers - 1 /\ timers > 0)
    BY DEF Advance, DropCall, TimerFires, Notified, AcquirePermit, FindEmpty, vars
  <2>4. notify' \in BOOLEAN
    BY <2>1 DEF Advance, DropCall, TimerFires, Notified, AcquirePermit, FindEmpty, vars
  <2>5. run' \in {"wait", "acquire", "take"}
    BY <2>1 DEF Advance, DropCall, TimerFires, Notified, AcquirePermit, FindEmpty, vars
  <2>6. \/ dropped' = dropped
        \/ \E c \in Callers : pending[c] # None /\ dropped' = dropped \cup {c}
    BY DEF Advance, DropCall, TimerFires, Notified, AcquirePermit, FindEmpty, vars
  <2>7. dropped' \subseteq Callers /\ \A c \in dropped' : pending[c] # None
    BY <2>1, <2>6 DEF IInv, Calls
  <2> QED
    BY <2>1, <2>2, <2>3, <2>4, <2>5, <2>7
<1>3. Permits' /\ permits' \in 0 .. Concurrent
  <2>1. /\ IsFiniteSet(calls) /\ PermitsAccountedFor /\ permits \in 0 .. Concurrent
        /\ Concurrent \in Nat /\ Cardinality(calls) \in Nat
    BY SizeAssumption, FS_CardinalityType DEF IInv, Permits, TypeOK
  <2>2. \/ permits' = permits /\ (run' = "take" <=> run = "take")
        \/ permits' = permits - 1 /\ run # "take" /\ run' = "take" /\ permits > 0
        \/ permits' = permits + 1 /\ run = "take" /\ run' # "take"
    BY DEF Advance, DropCall, TimerFires, Notified, AcquirePermit, FindEmpty, vars
  <2> QED
    BY <1>1, <2>1, <2>2 DEF Permits, PermitsAccountedFor
<1>4. TypeOK'
  BY <1>1, <1>2, <1>3 DEF IInv, TypeOK
<1>5. Lanes' /\ Batches' /\ Partition' /\ PriorityIsPromoted'
  BY <1>1 DEF IInv, Lanes, Batches, Partition, Queued, PriorityIsPromoted
<1>6. Accounted'
  BY <1>1 DEF IInv, Accounted, Held, Queued
<1>7. Answers'
  <2>1. ASSUME NEW r \in replies, r.output # Failed
        PROVE  Fits(r, pending, height')
    <3>1. r \in Reply /\ Fits(r, pending, height)
      BY <2>1 DEF IInv, Answers
    <3>2. \A i \in DOMAIN r.jobs : r.output[i].at \in Nat
      <4>1. r.output \in Seq(State) /\ r.jobs \in Seq(Job) /\ Len(r.output) = Len(r.jobs)
        BY <2>1, <3>1 DEF Reply, Fits
      <4>2. DOMAIN r.jobs = DOMAIN r.output
        BY <4>1, LenProperties
      <4>3. \A i \in DOMAIN r.output : r.output[i] \in State
        BY <4>1, LenProperties, ElementOfSeq
      <4>4. \A x \in State : x.at \in Nat
        BY BatcherBoundAssumption DEF State
      <4> QED
        BY <4>2, <4>3, <4>4
    <3> QED
      BY <1>2, <3>1, <3>2 DEF Fits
  <2> QED
    BY <1>1, <2>1 DEF IInv, Answers
<1>8. Calls'
  <2>1. \A c \in Callers : pending[c] # None => pending[c].asked \in Nat
    BY DEF IInv, TypeOK, Call
  <2> QED
    BY <1>1, <1>2, <2>1 DEF IInv, Calls
<1>9. NoLostWakeup'
  <2>1. CASE FindEmpty
    <3>1. Len(priority) = 0 /\ Len(queue) = 0
      <4>1. Len(NextBatch) = 0
        BY <2>1, EmptySeq DEF FindEmpty
      <4> QED
        BY <4>1, BatchLength, BatchSizes DEF IInv
    <3>2. priority = <<>> /\ queue = <<>>
      BY <3>1, EmptySeq DEF IInv, TypeOK
    <3>3. priority \o queue = <<>>
      BY <3>2, ConcatEqualIffEmpty DEF IInv, TypeOK
    <3> QED
      BY <1>1, <3>3 DEF NoLostWakeup
  <2>2. CASE TimerFires
    BY <2>2 DEF TimerFires, NoLostWakeup
  <2>3. CASE Notified
    BY <2>3 DEF Notified, NoLostWakeup
  <2>4. CASE AcquirePermit
    BY <2>4 DEF AcquirePermit, NoLostWakeup
  <2>5. CASE Advance \/ (\E c \in Callers : DropCall(c)) \/ UNCHANGED vars
    <3>1. run' = run /\ notify' = notify /\ timers' = timers
      BY <2>5 DEF Advance, DropCall, vars
    <3> QED
      BY <1>1, <3>1 DEF IInv, NoLostWakeup
  <2> QED
    BY <2>1, <2>2, <2>3, <2>4, <2>5
<1> QED
  BY <1>3, <1>4, <1>5, <1>6, <1>7, <1>8, <1>9 DEF IInv

-----------------------------------------------------------------------------
(* Every step keeps the invariant.                                         *)
LEMMA NextIInv == IInv /\ [Next]_vars => IInv'
<1> SUFFICES ASSUME IInv, [Next]_vars PROVE IInv'
  OBVIOUS
<1>1. ASSUME NEW c \in Callers, NEW o \in Orders, NEW isPriority \in BOOLEAN,
             FetchState(c, o, isPriority)
      PROVE  IInv'
  BY <1>1, FetchStateStep
<1>2. CASE TakeBatch
  BY <1>2, TakeBatchStep
<1>3. ASSUME NEW batch \in calls, FetchBatch(batch) PROVE IInv'
  BY <1>3, FetchBatchStep
<1>4. ASSUME NEW c \in Callers, NEW r \in replies, NEW i \in DOMAIN r.jobs,
             SendResult(r, i, c)
      PROVE  IInv'
  BY <1>4, SendResultStep
<1>5. ASSUME \/ Advance \/ (\E c \in Callers : DropCall(c)) \/ TimerFires
             \/ Notified \/ AcquirePermit \/ FindEmpty \/ UNCHANGED vars
      PROVE  IInv'
  BY <1>5, OtherSteps
<1> QED
  BY <1>1, <1>2, <1>3, <1>4, <1>5 DEF Next, SilentStep, RunStep, SendTo

(* IInv is an inductive invariant of the batcher.                          *)
LEMMA SpecIInv == Spec => []IInv
BY InitIInv, NextIInv, PTL DEF Spec

(* The variables of the batcher keep their types.                          *)
THEOREM BatcherTypes == Spec => []TypeOK
<1>1. IInv => TypeOK
  BY DEF IInv
<1> QED
  BY <1>1, SpecIInv, PTL

(* A waiting caller's sender is in exactly one job of State, of a batch    *)
(* being fetched or of one being answered, through any merges, promotions, *)
(* batches and drops; nobody else's is anywhere.                           *)
THEOREM EachHasOneSender == Spec => []OneSenderPerCall
<1>1. ASSUME IInv, NEW c \in Callers
      PROVE  Cardinality(Places(c)) = IF pending[c] = None THEN 0 ELSE 1
  <2> DEFINE InPriority(x) ==
                 \E i \in DOMAIN priority : c \in priority[i].senders /\ x = <<"priority", i>>
             InQueue(x) ==
                 \E i \in DOMAIN queue : c \in queue[i].senders /\ x = <<"queue", i>>
             InCall(x, b) ==
                 \E i \in DOMAIN b : c \in b[i].senders /\ x = <<"call", b, i>>
             InReply(x, r) ==
                 \E i \in DOMAIN r.jobs : c \in r.jobs[i].senders /\ x = <<"reply", r, i>>
  <2>1. \A x : x \in Places(c) <=>
            \/ InPriority(x) \/ InQueue(x)
            \/ (\E b \in calls : InCall(x, b)) \/ (\E r \in replies : InReply(x, r))
    <3> DEFINE P == {<<"priority", i>> : i \in JobsOf(c, priority)}
               Q == {<<"queue", i>> : i \in JobsOf(c, queue)}
               B(b) == {<<"call", b, i>> : i \in JobsOf(c, b)}
               R(r) == {<<"reply", r, i>> : i \in JobsOf(c, r.jobs)}
    <3>1. /\ \A x : x \in P <=> InPriority(x)
          /\ \A x : x \in Q <=> InQueue(x)
          /\ \A x, b : x \in B(b) <=> InCall(x, b)
          /\ \A x, r : x \in R(r) <=> InReply(x, r)
      BY DEF JobsOf
    <3> DEFINE Bs == UNION {B(b) : b \in calls}
               Rs == UNION {R(r) : r \in replies}
    <3>2. Places(c) = P \cup Q \cup Bs \cup Rs
      BY DEF Places
    <3> HIDE DEF P, Q, B, R, InPriority, InQueue, InCall, InReply
    <3>3. /\ \A x : x \in Bs <=> \E b \in calls : x \in B(b)
          /\ \A x : x \in Rs <=> \E r \in replies : x \in R(r)
      OBVIOUS
    <3> HIDE DEF Bs, Rs
    <3>4. \A x : x \in Places(c) <=> x \in P \/ x \in Q \/ x \in Bs \/ x \in Rs
      BY <3>2
    <3> QED
      BY <3>1, <3>3, <3>4
  <2>2. /\ \A x : InPriority(x) => c \in Waiters(priority)
        /\ \A x : InQueue(x) => c \in Waiters(queue)
        /\ \A x, b : InCall(x, b) => c \in Waiters(b)
        /\ \A x, r : InReply(x, r) => c \in Waiters(r.jobs)
    BY WaitersOf
  <2>3. \A x, y : InPriority(x) /\ InPriority(y) => x = y
    BY <1>1 DEF IInv, Lanes, OwnJobs
  <2>4. \A x, y : InQueue(x) /\ InQueue(y) => x = y
    BY <1>1 DEF IInv, Lanes, OwnJobs
  <2>5. \A b \in calls : \A x, y : InCall(x, b) /\ InCall(y, b) => x = y
    BY <1>1 DEF IInv, Batches, OwnJobs
  <2>6. \A r \in replies : \A x, y : InReply(x, r) /\ InReply(y, r) => x = y
    BY <1>1 DEF IInv, Answers, OwnJobs
  <2>7. CASE pending[c] = None
    <3>1. ~Held(c)
      BY <1>1, <2>7, NotHeld
    <3> HIDE DEF InPriority, InQueue, InCall, InReply
    <3>2. Places(c) = {}
      BY <2>1, <2>2, <3>1 DEF Held, Queued
    <3> QED
      BY <2>7, <3>2, FS_EmptySet
  <2>8. CASE pending[c] # None
    <3>1. Held(c)
      BY <1>1, <2>8 DEF IInv, Accounted
    <3>2. /\ c \in Waiters(priority) => \E x : InPriority(x)
          /\ c \in Waiters(queue) => \E x : InQueue(x)
          /\ \A b : c \in Waiters(b) => \E x : InCall(x, b)
          /\ \A r : c \in Waiters(r.jobs) => \E x : InReply(x, r)
      BY WaitersOf
    <3> HIDE DEF InPriority, InQueue, InCall, InReply
    <3>3. PICK p : p \in Places(c)
      BY <2>1, <3>1, <3>2 DEF Held, Queued
    <3>4. ASSUME NEW x, NEW y, x \in Places(c), y \in Places(c) PROVE x = y
      <4>1. CASE InPriority(x) \/ InQueue(x)
        BY <1>1, <2>1, <2>2, <2>3, <2>4, <3>4, <4>1 DEF IInv, Partition, Queued
      <4>2. ASSUME NEW b \in calls, InCall(x, b) PROVE x = y
        <5>1. c \in Waiters(b)
          BY <2>2, <4>2
        <5>2. ~InPriority(y) /\ ~InQueue(y) /\ \A r \in replies : ~InReply(y, r)
          BY <1>1, <2>2, <5>1 DEF IInv, Partition, Queued
        <5>3. PICK a \in calls : InCall(y, a)
          BY <2>1, <3>4, <5>2
        <5>4. a = b
          BY <1>1, <2>2, <5>1, <5>3 DEF IInv, Partition
        <5> QED
          BY <2>5, <4>2, <5>3, <5>4
      <4>3. ASSUME NEW r \in replies, InReply(x, r) PROVE x = y
        <5>1. c \in Waiters(r.jobs)
          BY <2>2, <4>3
        <5>2. ~InPriority(y) /\ ~InQueue(y) /\ \A b \in calls : ~InCall(y, b)
          BY <1>1, <2>2, <5>1 DEF IInv, Partition, Queued
        <5>3. PICK q \in replies : InReply(y, q)
          BY <2>1, <3>4, <5>2
        <5>4. q = r
          BY <1>1, <2>2, <5>1, <5>3 DEF IInv, Partition
        <5> QED
          BY <2>6, <4>3, <5>3, <5>4
      <4> QED
        BY <2>1, <3>4, <4>1, <4>2, <4>3
    <3>5. Places(c) = {p}
      BY <3>3, <3>4
    <3> QED
      BY <2>8, <3>5, FS_Singleton
  <2> QED
    BY <2>7, <2>8
<1>2. IInv => OneSenderPerCall
  BY <1>1 DEF OneSenderPerCall
<1> QED
  BY <1>2, SpecIInv, PTL

(* State::insert never queues an order twice, in one lane or in both.      *)
THEOREM OrdersAreQueuedOnce == Spec => []QueuedOnce
<1>1. ASSUME IInv PROVE QueuedOnce
  <2> DEFINE lanes == priority \o queue
             n == Len(priority)
  <2>1. /\ priority \in Seq(Job) /\ DOMAIN priority = 1 .. n /\ n \in Nat
        /\ queue \in Seq(Job) /\ DOMAIN queue = 1 .. Len(queue) /\ Len(queue) \in Nat
    BY <1>1, JobsShape DEF IInv, TypeOK
  <2>2. /\ DOMAIN lanes = 1 .. n + Len(queue)
        /\ \A i \in 1 .. n + Len(queue) :
              lanes[i] = IF i <= n THEN priority[i] ELSE queue[i - n]
    BY <2>1, ConcatProperties, LenProperties
  <2> HIDE DEF lanes, n
  <2>3. \A i \in DOMAIN lanes :
            \/ i \in DOMAIN priority /\ lanes[i] = priority[i]
            \/ i - n \in DOMAIN queue /\ lanes[i] = queue[i - n]
    BY <2>1, <2>2
  <2>4. ASSUME NEW i \in DOMAIN lanes, NEW j \in DOMAIN lanes,
               lanes[i].order = lanes[j].order
        PROVE  i = j
    <3>1. \/ i \in DOMAIN priority /\ j \in DOMAIN priority
          \/ i - n \in DOMAIN queue /\ j - n \in DOMAIN queue
      BY <1>1, <2>3, <2>4 DEF IInv, Lanes, Asked
    <3>2. i \in Int /\ j \in Int /\ n \in Int
      BY <2>1, <2>2
    <3>3. CASE i \in DOMAIN priority /\ j \in DOMAIN priority
      <4>1. lanes[i] = priority[i] /\ lanes[j] = priority[j]
        BY <2>1, <2>2, <3>3
      <4> QED
        BY <1>1, <2>4, <3>3, <4>1 DEF IInv, Lanes, OneJobEach
    <3>4. CASE i - n \in DOMAIN queue /\ j - n \in DOMAIN queue
      <4>1. lanes[i] = queue[i - n] /\ lanes[j] = queue[j - n]
        BY <2>1, <2>2, <3>2, <3>4
      <4>2. i - n = j - n
        BY <1>1, <2>4, <3>4, <4>1 DEF IInv, Lanes, OneJobEach
      <4> QED
        BY <3>2, <4>2
    <3> QED
      BY <3>1, <3>3, <3>4
  <2> QED
    BY <2>4 DEF QueuedOnce, lanes
<1> QED
  BY <1>1, SpecIInv, PTL

(* A caller with priority is never left in the other lane.                 *)
THEOREM SubmissionsArePromoted == Spec => []PriorityIsPromoted
<1>1. IInv => PriorityIsPromoted
  BY DEF IInv
<1> QED
  BY <1>1, SpecIInv, PTL

(* Every permit of the semaphore is free, held by run or owned by one of   *)
(* the batches being fetched.                                              *)
THEOREM NoPermitIsLost == Spec => []PermitsAccountedFor
<1>1. IInv => PermitsAccountedFor
  BY DEF IInv, Permits
<1> QED
  BY <1>1, SpecIInv, PTL

(* While a job is queued, run is awake, notified or about to be by a cork  *)
(* timer, as the comment in run, "there is no race condition", says.       *)
THEOREM NoWakeupIsLost == Spec => []NoLostWakeup
<1>1. IInv => NoLostWakeup
  BY DEF IInv
<1> QED
  BY <1>1, SpecIInv, PTL

(* State::take_batch returns between one and batch_size jobs, and jobs of  *)
(* the queue only once the priority lane is empty.                         *)
THEOREM PriorityGoesFirst == Spec => BatchesFavourPriority
<1> DEFINE Favours ==
        \A batch \in calls' \ calls :
            /\ Len(batch) \in 1 .. BatchSize
            /\ Waiters(batch) \cap Waiters(queue) # {} => priority' = <<>>
<1>1. ASSUME IInv, Next PROVE Favours
  <2>1. CASE TakeBatch
    BY <1>1, <2>1, BatchTaken DEF TakeBatch
  <2>2. CASE ~TakeBatch
    <3>1. calls' \subseteq calls
      BY <1>1, <2>2
      DEF Next, SilentStep, RunStep, SendTo, Advance, FetchState, DropCall, TimerFires,
          Notified, AcquirePermit, FindEmpty, FetchBatch, SendResult
    <3> QED
      BY <3>1
  <2> QED
    BY <2>1, <2>2
<1>2. IInv /\ [Next]_vars => [Favours]_vars
  BY <1>1
<1> QED
  BY <1>2, SpecIInv, PTL DEF Spec, BatchesFavourPriority
=============================================================================
