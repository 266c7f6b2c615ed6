---------------------------- MODULE QueueLemmas ----------------------------
(***************************************************************************)
(* What the queue operations push, pop and steal do to the set of a        *)
(* queue's elements, and that they keep a queue free of duplicates.        *)
(***************************************************************************)
EXTENDS Integers, Sequences, Functions, TLAPS

(* A new queue, VecDeque or deque, holds nothing.                          *)
LEMMA EmptyRange == Range(<<>>) = {} /\ IsInjective(<<>>)
  BY DEF Range, IsInjective

(* What pop_front and steal_weak return was in the queue.                  *)
LEMMA HeadInRange ==
  ASSUME NEW S, NEW s \in Seq(S), s # <<>>
  PROVE  Head(s) \in Range(s) /\ Head(s) \in S
  BY DEF Range

(* push on a deque, or on a SegQueue: one element more, at the back; no    *)
(* duplicate appears unless the element was there before.                  *)
LEMMA AppendRange ==
  ASSUME NEW S, NEW s \in Seq(S), NEW e \in S
  PROVE  /\ Append(s, e) \in Seq(S)
         /\ Range(Append(s, e)) = Range(s) \cup {e}
         /\ IsInjective(s) /\ e \notin Range(s) => IsInjective(Append(s, e))
<1> DEFINE a == Append(s, e)
<1>1. /\ a \in Seq(S) /\ DOMAIN a = 1 .. Len(s) + 1
      /\ \A i \in 1 .. Len(s) : a[i] = s[i]
      /\ a[Len(s) + 1] = e
      /\ DOMAIN s = 1 .. Len(s) /\ Len(s) \in Nat
  OBVIOUS
<1> HIDE DEF a
<1>2. Range(a) = Range(s) \cup {e}
  BY <1>1 DEF Range
<1>3. ASSUME IsInjective(s), e \notin Range(s) PROVE IsInjective(a)
  BY <1>1, <1>3 DEF Range, IsInjective
<1> QED BY <1>1, <1>2, <1>3 DEF a

(* pop_front, steal_weak and try_pop: without duplicates, exactly the      *)
(* element taken is gone.                                                  *)
LEMMA TailRange ==
  ASSUME NEW S, NEW s \in Seq(S), s # <<>>, IsInjective(s)
  PROVE  /\ Tail(s) \in Seq(S)
         /\ Range(Tail(s)) = Range(s) \ {Head(s)}
         /\ IsInjective(Tail(s))
<1> DEFINE a == Tail(s)
<1>1. /\ a \in Seq(S) /\ DOMAIN a = 1 .. Len(s) - 1
      /\ \A i \in 1 .. Len(s) - 1 : a[i] = s[i + 1]
      /\ Head(s) = s[1]
      /\ DOMAIN s = 1 .. Len(s) /\ Len(s) \in Nat \ {0}
  OBVIOUS
<1> HIDE DEF a
<1>2. ASSUME NEW i \in 1 .. Len(s), i # 1
      PROVE  i - 1 \in 1 .. Len(s) - 1 /\ a[i - 1] = s[i] /\ s[i] # s[1]
  <2>1. i - 1 \in 1 .. Len(s) - 1 /\ (i - 1) + 1 = i /\ 1 \in 1 .. Len(s)
    BY <1>1, <1>2
  <2> QED BY <1>1, <1>2, <2>1 DEF IsInjective
<1>3. ASSUME NEW i \in 1 .. Len(s) - 1
      PROVE  i + 1 \in 1 .. Len(s) /\ i + 1 # 1 /\ a[i] = s[i + 1]
  BY <1>1
<1>4. Range(a) \subseteq Range(s) \ {Head(s)}
  <2>1. ASSUME NEW i \in 1 .. Len(s) - 1 PROVE a[i] \in Range(s) /\ a[i] # s[1]
    <3>1. s[i + 1] # s[1]
      BY <1>2, <1>3
    <3> QED BY <1>1, <1>3, <3>1 DEF Range
  <2> QED BY <1>1, <2>1 DEF Range
<1>5. Range(s) \ {Head(s)} \subseteq Range(a)
  <2>1. ASSUME NEW i \in 1 .. Len(s), s[i] # s[1] PROVE s[i] \in Range(a)
    BY <1>1, <1>2, <2>1 DEF Range
  <2> QED BY <1>1, <2>1 DEF Range
<1>6. IsInjective(a)
  <2>1. ASSUME NEW i \in 1 .. Len(s) - 1, NEW j \in 1 .. Len(s) - 1, a[i] = a[j]
        PROVE  i = j
    <3>1. i + 1 = j + 1
      BY <1>1, <1>3, <2>1 DEF IsInjective
    <3> QED BY <3>1
  <2> QED BY <1>1, <2>1 DEF IsInjective
<1> QED BY <1>1, <1>4, <1>5, <1>6 DEF a

(* push_front: one element more, at the front.                             *)
LEMMA PushFrontRange ==
  ASSUME NEW S, NEW s \in Seq(S), NEW e \in S
  PROVE  /\ <<e>> \o s \in Seq(S)
         /\ Range(<<e>> \o s) = Range(s) \cup {e}
         /\ IsInjective(s) /\ e \notin Range(s) => IsInjective(<<e>> \o s)
<1> DEFINE a == <<e>> \o s
<1>1. /\ a \in Seq(S) /\ DOMAIN a = 1 .. Len(s) + 1
      /\ \A i \in 1 .. Len(s) : a[i + 1] = s[i]
      /\ a[1] = e
      /\ DOMAIN s = 1 .. Len(s) /\ Len(s) \in Nat
  OBVIOUS
<1> HIDE DEF a
<1>2. ASSUME NEW i \in 1 .. Len(s) + 1, i # 1
      PROVE  i - 1 \in 1 .. Len(s) /\ a[i] = s[i - 1]
  <2>1. i - 1 \in 1 .. Len(s) /\ (i - 1) + 1 = i
    BY <1>1, <1>2
  <2> QED BY <1>1, <2>1
<1>3. Range(a) = Range(s) \cup {e}
  <2>1. ASSUME NEW i \in 1 .. Len(s) + 1 PROVE a[i] \in Range(s) \cup {e}
    BY <1>1, <1>2 DEF Range
  <2>2. ASSUME NEW i \in 1 .. Len(s) PROVE i + 1 \in 1 .. Len(s) + 1 /\ a[i + 1] = s[i]
    BY <1>1
  <2>3. Range(s) \subseteq Range(a)
    BY <1>1, <2>2 DEF Range
  <2>4. e \in Range(a)
    BY <1>1 DEF Range
  <2> QED BY <1>1, <2>1, <2>3, <2>4 DEF Range
<1>4. ASSUME IsInjective(s), e \notin Range(s) PROVE IsInjective(a)
  <2>1. ASSUME NEW i \in 1 .. Len(s) + 1, NEW j \in 1 .. Len(s) + 1, a[i] = a[j]
        PROVE  i = j
    <3>1. CASE i = 1 /\ j = 1
      BY <3>1
    <3>2. CASE i = 1 /\ j # 1
      BY <1>1, <1>2, <1>4, <2>1, <3>2 DEF Range
    <3>3. CASE i # 1 /\ j = 1
      BY <1>1, <1>2, <1>4, <2>1, <3>3 DEF Range
    <3>4. CASE i # 1 /\ j # 1
      <4>1. i - 1 = j - 1
        BY <1>1, <1>2, <1>4, <2>1, <3>4 DEF IsInjective
      <4> QED BY <4>1
    <3> QED BY <3>1, <3>2, <3>3, <3>4
  <2> QED BY <1>1, <2>1 DEF IsInjective
<1> QED BY <1>1, <1>3, <1>4 DEF a
=============================================================================
