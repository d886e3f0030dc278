---------------------------- MODULE QueueLemmas ----------------------------
(***************************************************************************)
(* What the queue operations of the models (channels and streams are FIFO  *)
(* sequences) do to the set of queued items and to their distinctness.     *)
(***************************************************************************)
EXTENDS Integers, Sequences, Functions, SequenceTheorems, TLAPS

(* What is queued has the type of the queue. *)
LEMMA RangeType ==
    ASSUME NEW S, NEW q \in Seq(S)
    PROVE  Range(q) \subseteq S
PROOF BY LenProperties, ElementOfSeq DEF Range

(* Taking the first item. *)
LEMMA TailRange ==
    ASSUME NEW S, NEW q \in Seq(S), q # <<>>
    PROVE  /\ Head(q) \in S /\ Head(q) \in Range(q)
           /\ Tail(q) \in Seq(S) /\ Len(Tail(q)) = Len(q) - 1
           /\ Range(Tail(q)) \subseteq Range(q)
           /\ IsInjective(q) => IsInjective(Tail(q)) /\ Head(q) \notin Range(Tail(q))
PROOF
<1>1. /\ Head(q) \in S /\ Tail(q) \in Seq(S) /\ Len(Tail(q)) = Len(q) - 1
      /\ \A i \in 1..Len(Tail(q)) : Tail(q)[i] = q[i + 1]
      /\ DOMAIN q = 1..Len(q) /\ DOMAIN Tail(q) = 1..Len(Tail(q))
      /\ Len(q) \in Nat /\ Len(q) > 0 /\ Head(q) = q[1]
    BY HeadTailProperties, LenProperties, EmptySeq
<1>2. Head(q) \in Range(q)
    BY <1>1 DEF Range
<1>3. \A i \in DOMAIN Tail(q) : i + 1 \in DOMAIN q /\ Tail(q)[i] = q[i + 1] /\ i + 1 # 1
    BY <1>1
<1>4. Range(Tail(q)) \subseteq Range(q)
    BY <1>3 DEF Range
<1>5. ASSUME IsInjective(q)
      PROVE  IsInjective(Tail(q)) /\ Head(q) \notin Range(Tail(q))
    <2>1. ASSUME NEW a \in DOMAIN Tail(q), NEW b \in DOMAIN Tail(q),
                 Tail(q)[a] = Tail(q)[b]
          PROVE  a = b
        <3>1. a + 1 = b + 1
            BY <1>3, <1>5, <2>1 DEF IsInjective
        <3> QED BY <3>1, <1>1
    <2>2. ASSUME NEW a \in DOMAIN Tail(q), Tail(q)[a] = Head(q)
          PROVE  FALSE
        <3>1. 1 \in DOMAIN q
            BY <1>1
        <3>2. a + 1 = 1
            BY <1>1, <1>3, <1>5, <2>2, <3>1 DEF IsInjective
        <3> QED BY <3>2, <1>3
    <2> QED BY <2>1, <2>2 DEF IsInjective, Range
<1> QED BY <1>1, <1>2, <1>4, <1>5

LEMMA TailItems ==
    ASSUME NEW S, NEW q \in Seq(S), q # <<>>
    PROVE  /\ Tail(q) \in Seq(S) /\ Len(Tail(q)) = Len(q) - 1
           /\ Len(q) \in Nat /\ Len(q) >= 1
           /\ DOMAIN q = 1..Len(q) /\ DOMAIN Tail(q) = 1..(Len(q) - 1)
           /\ \A i \in 1..(Len(q) - 1) : Tail(q)[i] = q[i + 1]
           /\ Head(q) = q[1] /\ Head(q) \in S
PROOF BY HeadTailProperties, LenProperties, EmptySeq

LEMMA SplitRange ==
    ASSUME NEW S, NEW q \in Seq(S), q # <<>>
    PROVE  Range(q) = {Head(q)} \cup Range(Tail(q))
PROOF
<1>1. /\ Tail(q) \in Seq(S) /\ Len(Tail(q)) = Len(q) - 1
      /\ \A i \in 1..Len(Tail(q)) : Tail(q)[i] = q[i + 1]
      /\ DOMAIN q = 1..Len(q) /\ DOMAIN Tail(q) = 1..Len(Tail(q))
      /\ Len(q) \in Nat /\ Len(q) > 0 /\ Head(q) = q[1]
    BY HeadTailProperties, LenProperties, EmptySeq
<1>2. ASSUME NEW i \in DOMAIN q PROVE q[i] \in {Head(q)} \cup Range(Tail(q))
    <2>1. CASE i = 1
        BY <1>1, <2>1
    <2>2. CASE i # 1
        <3>1. i - 1 \in DOMAIN Tail(q) /\ Tail(q)[i - 1] = q[i]
            BY <1>1, <2>2
        <3> QED BY <3>1 DEF Range
    <2> QED BY <2>1, <2>2
<1>3. Range(q) \subseteq {Head(q)} \cup Range(Tail(q))
    BY <1>2 DEF Range
<1> QED BY <1>3, TailRange

(* Adding an item at the end. *)
LEMMA AppendRange ==
    ASSUME NEW S, NEW q \in Seq(S), NEW e \in S
    PROVE  /\ Append(q, e) \in Seq(S) /\ Len(Append(q, e)) = Len(q) + 1
           /\ Append(q, e) # <<>>
           /\ Range(Append(q, e)) = Range(q) \cup {e}
           /\ IsInjective(q) /\ e \notin Range(q) => IsInjective(Append(q, e))
PROOF
<1>1. /\ Append(q, e) \in Seq(S) /\ Len(Append(q, e)) = Len(q) + 1
      /\ \A i \in 1..Len(q) : Append(q, e)[i] = q[i]
      /\ Append(q, e)[Len(q) + 1] = e
      /\ DOMAIN q = 1..Len(q) /\ DOMAIN Append(q, e) = 1..(Len(q) + 1)
      /\ Len(q) \in Nat
    BY AppendProperties, LenProperties
<1>2. Append(q, e) # <<>>
    BY <1>1, EmptySeq
<1>3. Range(Append(q, e)) = Range(q) \cup {e}
    <2>1. DOMAIN Append(q, e) = DOMAIN q \cup {Len(q) + 1}
        BY <1>1
    <2> QED BY <1>1, <2>1 DEF Range
<1>4. ASSUME IsInjective(q), e \notin Range(q)
      PROVE  IsInjective(Append(q, e))
    <2> SUFFICES ASSUME NEW a \in 1..(Len(q) + 1), NEW b \in 1..(Len(q) + 1),
                        Append(q, e)[a] = Append(q, e)[b]
                 PROVE  a = b
        BY <1>1 DEF IsInjective
    <2>1. CASE a \in 1..Len(q) /\ b \in 1..Len(q)
        BY <1>1, <1>4, <2>1 DEF IsInjective
    <2>2. CASE a = Len(q) + 1 /\ b \in 1..Len(q)
        BY <1>1, <1>4, <2>2 DEF Range
    <2>3. CASE b = Len(q) + 1 /\ a \in 1..Len(q)
        BY <1>1, <1>4, <2>3 DEF Range
    <2>4. CASE a = Len(q) + 1 /\ b = Len(q) + 1
        BY <2>4
    <2> QED BY <1>1, <2>1, <2>2, <2>3, <2>4
<1> QED BY <1>1, <1>2, <1>3, <1>4

(* Losing everything behind a point. *)
LEMMA PrefixRange ==
    ASSUME NEW S, NEW q \in Seq(S), NEW n \in 0..Len(q)
    PROVE  /\ SubSeq(q, 1, n) \in Seq(S) /\ Len(SubSeq(q, 1, n)) = n
           /\ Range(SubSeq(q, 1, n)) \subseteq Range(q)
           /\ IsInjective(q) => IsInjective(SubSeq(q, 1, n))
PROOF
<1>1. /\ Len(q) \in Nat /\ DOMAIN q = 1..Len(q) /\ n \in Nat
      /\ \A i \in 1..n : q[i] \in S
    BY LenProperties, ElementOfSeq
<1>2. /\ SubSeq(q, 1, n) \in Seq(S) /\ Len(SubSeq(q, 1, n)) = n
      /\ \A i \in 1..n : SubSeq(q, 1, n)[i] = q[i]
    BY <1>1, SubSeqProperties
<1>3. DOMAIN SubSeq(q, 1, n) = 1..n
    BY <1>2, LenProperties
<1> QED BY <1>1, <1>2, <1>3 DEF Range, IsInjective

(* What is queued first in one queue and then in the next, seen as one queue: *)
(* adding at the end, moving an item over, and taking the first. *)
LEMMA AppendToConcat ==
    ASSUME NEW S, NEW a \in Seq(S), NEW b \in Seq(S), NEW e \in S
    PROVE  a \o Append(b, e) = Append(a \o b, e)
PROOF
<1>1. <<e>> \in Seq(S) /\ a \o b \in Seq(S)
    BY ConcatProperties
<1>2. Append(b, e) = b \o <<e>> /\ Append(a \o b, e) = (a \o b) \o <<e>>
    BY <1>1, AppendIsConcat
<1> QED BY <1>1, <1>2, ConcatAssociative

LEMMA MoveBetweenQueues ==
    ASSUME NEW S, NEW a \in Seq(S), NEW b \in Seq(S), b # <<>>
    PROVE  Append(a, Head(b)) \o Tail(b) = a \o b
PROOF
<1> DEFINE h == <<Head(b)>>
<1>1. Head(b) \in S /\ Tail(b) \in Seq(S) /\ h \in Seq(S)
    BY HeadTailProperties
<1>2. h \o Tail(b) = b
    <2>1. /\ Len(h) = 1 /\ h[1] = b[1] /\ Len(b) \in Nat /\ Len(b) >= 1
          /\ Len(Tail(b)) = Len(b) - 1
          /\ \A i \in 1..(Len(b) - 1) : Tail(b)[i] = b[i + 1]
        BY HeadTailProperties, EmptySeq, LenProperties
    <2> HIDE DEF h
    <2>2. /\ h \o Tail(b) \in Seq(S) /\ Len(h \o Tail(b)) = Len(b)
          /\ \A i \in 1..Len(b) :
               (h \o Tail(b))[i] = IF i <= 1 THEN h[i] ELSE Tail(b)[i - 1]
        <3>1. /\ h \o Tail(b) \in Seq(S) /\ Len(h \o Tail(b)) = Len(h) + Len(Tail(b))
              /\ \A i \in 1..(Len(h) + Len(Tail(b))) :
                   (h \o Tail(b))[i] = IF i <= Len(h) THEN h[i]
                                                      ELSE Tail(b)[i - Len(h)]
            BY <1>1, ConcatProperties
        <3>2. Len(h) + Len(Tail(b)) = Len(b)
            BY <2>1
        <3> QED BY <2>1, <3>1, <3>2
    <2>3. \A i \in 1..Len(b) : (h \o Tail(b))[i] = b[i]
        <3> SUFFICES ASSUME NEW i \in 1..Len(b) PROVE (h \o Tail(b))[i] = b[i]
            OBVIOUS
        <3>1. CASE i = 1
            BY <2>1, <2>2, <3>1
        <3>2. CASE i # 1
            <4>1. i - 1 \in 1..(Len(b) - 1) /\ (i - 1) + 1 = i /\ ~(i <= 1)
                BY <2>1, <3>2
            <4> QED BY <2>1, <2>2, <4>1
        <3> QED BY <3>1, <3>2
    <2> QED BY <2>2, <2>3, SeqEqual
<1>3. Append(a, Head(b)) = a \o h
    BY <1>1, AppendIsConcat
<1> HIDE DEF h
<1> QED BY <1>1, <1>2, <1>3, ConcatAssociative, SMTT(30)

LEMMA TailOfConcat ==
    ASSUME NEW S, NEW a \in Seq(S), NEW b \in Seq(S), a # <<>>
    PROVE  /\ a \o b # <<>> /\ Tail(a) \o b = Tail(a \o b)
           /\ Head(a) = (a \o b)[1]
PROOF
<1>1. /\ Len(a) \in Nat /\ Len(a) >= 1 /\ Len(b) \in Nat
      /\ Tail(a) \in Seq(S) /\ Len(Tail(a)) = Len(a) - 1
      /\ \A i \in 1..(Len(a) - 1) : Tail(a)[i] = a[i + 1]
    BY HeadTailProperties, EmptySeq, LenProperties
<1>2. /\ a \o b \in Seq(S) /\ Len(a \o b) = Len(a) + Len(b)
      /\ \A i \in 1..(Len(a) + Len(b)) :
           (a \o b)[i] = IF i <= Len(a) THEN a[i] ELSE b[i - Len(a)]
    BY ConcatProperties
<1>3. a \o b # <<>>
    BY <1>1, <1>2, EmptySeq
<1>4. /\ Tail(a) \o b \in Seq(S) /\ Len(Tail(a) \o b) = Len(a) - 1 + Len(b)
      /\ \A i \in 1..(Len(a) - 1 + Len(b)) :
           (Tail(a) \o b)[i] = IF i <= Len(a) - 1 THEN Tail(a)[i]
                                                ELSE b[i - (Len(a) - 1)]
    BY <1>1, ConcatProperties
<1>5. /\ Tail(a \o b) \in Seq(S) /\ Len(Tail(a \o b)) = Len(a) + Len(b) - 1
      /\ \A i \in 1..(Len(a) + Len(b) - 1) : Tail(a \o b)[i] = (a \o b)[i + 1]
    BY <1>2, <1>3, HeadTailProperties
<1>6. \A i \in 1..(Len(a) - 1 + Len(b)) : (Tail(a) \o b)[i] = Tail(a \o b)[i]
    <2> SUFFICES ASSUME NEW i \in 1..(Len(a) - 1 + Len(b))
                 PROVE  (Tail(a) \o b)[i] = (a \o b)[i + 1]
        BY <1>1, <1>5
    <2>1. i + 1 \in 1..(Len(a) + Len(b))
        BY <1>1
    <2>2. CASE i <= Len(a) - 1
        <3>1. i + 1 <= Len(a) /\ i \in 1..(Len(a) - 1)
            BY <1>1, <2>2
        <3> QED BY <1>1, <1>2, <1>4, <2>1, <2>2, <3>1
    <2>3. CASE ~(i <= Len(a) - 1)
        <3>1. ~(i + 1 <= Len(a)) /\ i - (Len(a) - 1) = (i + 1) - Len(a)
            BY <1>1, <2>3
        <3> QED BY <1>2, <1>4, <2>1, <2>3, <3>1
    <2> QED BY <2>2, <2>3
<1>7. Tail(a) \o b = Tail(a \o b)
    BY <1>1, <1>4, <1>5, <1>6, SeqEqual
<1>8. Head(a) = (a \o b)[1]
    <2>1. 1 \in 1..(Len(a) + Len(b)) /\ 1 <= Len(a)
        BY <1>1
    <2> QED BY <1>2, <2>1
<1> QED BY <1>3, <1>7, <1>8

LEMMA EmptyRange == Range(<<>>) = {} /\ IsInjective(<<>>)
PROOF BY DEF Range, IsInjective
=============================================================================
