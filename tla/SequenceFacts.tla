--------------------------- MODULE SequenceFacts ---------------------------
(***************************************************************************)
(* Facts about sequences and numbers that the proofs of several components *)
(* need.                                                                   *)
(***************************************************************************)
EXTENDS SequencesExt, SequenceTheorems, WellFoundedInduction, TLAPS

(* What a proof by induction comes down to: of the numbers for which a     *)
(* formula is false, one is the smallest.                                  *)
LEMMA SmallestElement ==
    ASSUME NEW T \in SUBSET Nat, T # {}
    PROVE  \E n \in T : \A m \in T : n <= m
<1>1. PICK less : less = {ss \in Nat \X Nat : ss[1] < ss[2]}
  OBVIOUS
<1>2. IsWellFoundedOn({ss \in Nat \X Nat : ss[1] < ss[2]}, Nat)
  BY NatLessThanWellFounded DEF OpToRel
<1>3. PICK n \in T : \A m \in T : <<m, n>> \notin less
  BY <1>1, <1>2, WFMin
<1>4. \A m \in Nat : m < n => <<m, n>> \in less
  BY <1>1
<1>5. \A m \in T : m \in Nat /\ ~(m < n)
  BY <1>3, <1>4
<1>6. \A m \in T : n <= m
  BY <1>3, <1>5
<1> QED
  BY <1>3, <1>6

(* Appending adds one element; taking the head removes at most one.        *)
LEMMA SetOfAppend ==
    ASSUME NEW S, NEW s \in Seq(S), NEW e \in S
    PROVE  ToSet(Append(s, e)) = ToSet(s) \cup {e}
<1>1. /\ DOMAIN s = 1 .. Len(s) /\ Len(s) \in Nat
      /\ DOMAIN Append(s, e) = 1 .. Len(s) + 1
      /\ \A i \in 1 .. Len(s) : Append(s, e)[i] = s[i]
      /\ Append(s, e)[Len(s) + 1] = e
  BY AppendProperties, LenProperties
<1> QED
  BY <1>1 DEF ToSet

(* A sequence consists of its head and the elements of its tail.           *)
LEMMA SetOfTail ==
    ASSUME NEW S, NEW s \in Seq(S), s # <<>>
    PROVE  /\ Head(s) \in S /\ Tail(s) \in Seq(S)
           /\ ToSet(s) = ToSet(Tail(s)) \cup {Head(s)}
<1>1. /\ Head(s) \in S /\ Tail(s) \in Seq(S)
      /\ DOMAIN s = 1 .. Len(s) /\ Len(s) \in Nat \ {0}
      /\ DOMAIN Tail(s) = 1 .. Len(s) - 1
      /\ \A i \in 1 .. Len(s) - 1 : Tail(s)[i] = s[i + 1]
  BY HeadTailProperties, LenProperties, EmptySeq
<1>2. Head(s) = s[1]
  BY <1>1
<1>3. ToSet(s) \subseteq ToSet(Tail(s)) \cup {Head(s)}
  <2> SUFFICES ASSUME NEW i \in 1 .. Len(s), i # 1
               PROVE  s[i] \in ToSet(Tail(s))
    BY <1>1, <1>2 DEF ToSet
  <2>1. i - 1 \in 1 .. Len(s) - 1 /\ Tail(s)[i - 1] = s[i]
    BY <1>1
  <2> QED
    BY <1>1, <2>1 DEF ToSet
<1>4. \A i \in 1 .. Len(s) - 1 : i + 1 \in 1 .. Len(s)
  BY <1>1
<1>5. ToSet(Tail(s)) \cup {Head(s)} \subseteq ToSet(s)
  BY <1>1, <1>2, <1>4 DEF ToSet
<1> QED
  BY <1>1, <1>3, <1>5

(* What a slice of a sequence contains.                                    *)
LEMMA SliceElements ==
    ASSUME NEW S, NEW s \in Seq(S), NEW k \in Nat, NEW n \in Nat,
           k <= n, n <= Len(s)
    PROVE  /\ SubSeq(s, k + 1, n) \in Seq(S)
           /\ Len(SubSeq(s, k + 1, n)) = n - k
           /\ DOMAIN SubSeq(s, k + 1, n) = 1 .. n - k
           /\ \A i \in 1 .. n - k : SubSeq(s, k + 1, n)[i] = s[k + i]
<1>1. k + 1 \in Int /\ n \in Int /\ \A i \in k + 1 .. n : s[i] \in S
  BY LenProperties, ElementOfSeq
<1>2. /\ SubSeq(s, k + 1, n) \in Seq(S)
      /\ Len(SubSeq(s, k + 1, n)) = IF k + 1 <= n THEN n - (k + 1) + 1 ELSE 0
      /\ \A i \in 1 .. n - (k + 1) + 1 : SubSeq(s, k + 1, n)[i] = s[k + 1 + i - 1]
  BY <1>1, SubSeqProperties
<1> QED
  BY <1>2, LenProperties

(* A prefix has the elements of the sequence at the same positions.        *)
LEMMA PrefixElements ==
    ASSUME NEW S, NEW s \in Seq(S), NEW n \in 0 .. Len(s)
    PROVE  /\ SubSeq(s, 1, n) \in Seq(S)
           /\ Len(SubSeq(s, 1, n)) = n
           /\ DOMAIN SubSeq(s, 1, n) = 1 .. n
           /\ \A i \in 1 .. n : SubSeq(s, 1, n)[i] = s[i]
<1>1. Len(s) \in Nat /\ DOMAIN s = 1 .. Len(s) /\ n \in Nat /\ n <= Len(s)
  BY LenProperties
<1>2. 1 \in Int /\ n \in Int /\ \A i \in 1 .. n : s[i] \in S
  BY <1>1, ElementOfSeq
<1>3. /\ SubSeq(s, 1, n) \in Seq(S)
      /\ Len(SubSeq(s, 1, n)) = IF 1 <= n THEN n - 1 + 1 ELSE 0
      /\ \A i \in 1 .. n - 1 + 1 : SubSeq(s, 1, n)[i] = s[1 + i - 1]
  BY <1>2, SubSeqProperties
<1>4. Len(SubSeq(s, 1, n)) = n
  BY <1>1, <1>3
<1> QED
  BY <1>1, <1>3, <1>4, LenProperties

(* A slice grows at its end, and loses its first element, one at a time.   *)
LEMMA SliceSteps ==
    ASSUME NEW S, NEW s \in Seq(S), NEW k \in Nat, NEW n \in Nat,
           k <= n, n < Len(s)
    PROVE  /\ SubSeq(s, n + 1, Len(s)) # <<>>
           /\ Head(SubSeq(s, n + 1, Len(s))) = s[n + 1]
           /\ Tail(SubSeq(s, n + 1, Len(s))) = SubSeq(s, n + 2, Len(s))
           /\ SubSeq(s, k + 1, n + 1) = Append(SubSeq(s, k + 1, n), s[n + 1])
<1>1. Len(s) \in Nat /\ n + 1 \in 1 .. Len(s) /\ Len(s) \in n + 1 .. Len(s)
  BY LenProperties
<1>2. /\ Head(SubSeq(s, n + 1, Len(s))) = s[n + 1]
      /\ Tail(SubSeq(s, n + 1, Len(s))) = SubSeq(s, n + 1 + 1, Len(s))
  BY <1>1, HeadTailOfSubSeq
<1>3. Len(SubSeq(s, n + 1, Len(s))) = Len(s) - (n + 1) + 1
  BY <1>1
<1>4. s[n + 1] \in S
  BY <1>1, ElementOfSeq
<1> DEFINE r == SubSeq(s, k + 1, n)
           t == Append(r, s[n + 1])
           u == SubSeq(s, k + 1, n + 1)
<1>5. /\ r \in Seq(S) /\ Len(r) = n - k
      /\ \A i \in 1 .. n - k : r[i] = s[k + i]
      /\ u \in Seq(S) /\ Len(u) = n + 1 - k
      /\ \A i \in 1 .. n + 1 - k : u[i] = s[k + i]
  BY <1>1, SliceElements
<1> HIDE DEF r, u
<1>6. /\ t \in Seq(S) /\ Len(t) = Len(r) + 1
      /\ \A i \in 1 .. Len(r) : t[i] = r[i]
      /\ t[Len(r) + 1] = s[n + 1]
  BY <1>4, <1>5, AppendProperties
<1>7. u = t
  <2>1. Len(u) = Len(t)
    BY <1>5, <1>6
  <2>2. ASSUME NEW i \in 1 .. Len(u) PROVE u[i] = t[i]
    <3>1. CASE i = n - k + 1
      <4>1. i \in 1 .. n + 1 - k /\ k + i = n + 1 /\ i = Len(r) + 1
        BY <1>5, <3>1
      <4> QED
        BY <1>5, <1>6, <4>1
    <3>2. CASE i # n - k + 1
      <4>1. i \in 1 .. n - k
        BY <1>5, <3>2
      <4> QED
        BY <1>5, <1>6, <4>1
    <3> QED
      BY <3>1, <3>2
  <2> HIDE DEF t
  <2> QED
    BY <1>5, <1>6, <2>1, <2>2, SeqEqual
<1> QED
  BY <1>1, <1>2, <1>3, <1>7 DEF r, u
=============================================================================
