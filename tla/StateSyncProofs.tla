-------------------------- MODULE StateSyncProofs --------------------------
(***************************************************************************)
(* For every number of fields, set of values, channel capacity and number  *)
(* of writes, on either runtime and whatever is lost: what the client's    *)
(* copy of the connection state can hold.                                  *)
(***************************************************************************)
EXTENDS StateSync, QueueLemmas

-----------------------------------------------------------------------------
(* Updates and queues of updates.                                          *)

LEMMA ChangesType ==
    ASSUME NEW u \in Changes
    PROVE  /\ DOMAIN u \subseteq Fields /\ DOMAIN u # {}
           /\ \A f \in DOMAIN u : u[f] \in Values
PROOF
<1>1. PICK F \in (SUBSET Fields) \ {{}} : u \in [F -> Values]
    BY Zenon DEF Changes
<1>2. DOMAIN u = F /\ \A f \in F : u[f] \in Values
    BY <1>1
<1>3. F \subseteq Fields /\ F # {}
    BY Zenon
<1> QED BY <1>2, <1>3, Zenon

(* A removed item leaves the others in their order. *)
LEMMA WithoutProperties ==
    ASSUME NEW S, NEW q \in Seq(S), NEW i \in DOMAIN q
    PROVE  /\ Without(q, i) \in Seq(S) /\ Len(Without(q, i)) = Len(q) - 1
           /\ DOMAIN Without(q, i) = 1..(Len(q) - 1)
           /\ \A k \in 1..(Len(q) - 1) :
                Without(q, i)[k] = IF k < i THEN q[k] ELSE q[k + 1]
PROOF
<1> DEFINE a == SubSeq(q, 1, i - 1)
           b == SubSeq(q, i + 1, Len(q))
<1>1. /\ Len(q) \in Nat /\ i \in Nat /\ 1 <= i /\ i <= Len(q)
      /\ \A k \in 1..Len(q) : q[k] \in S
    BY LenProperties, ElementOfSeq
<1>2. /\ a \in Seq(S) /\ Len(a) = i - 1
      /\ \A k \in 1..(i - 1) : a[k] = q[k]
    <2>1. \A k \in 1..(i - 1) : q[k] \in S
        BY <1>1
    <2>2. a \in Seq(S) /\ Len(a) = IF 1 <= i - 1 THEN (i - 1) - 1 + 1 ELSE 0
        BY <1>1, <2>1, SubSeqProperties
    <2>3. \A k \in 1..(i - 1) : a[k] = q[1 + k - 1]
        BY <1>1, <2>1, SubSeqProperties
    <2> QED BY <2>2, <2>3, <1>1
<1>3. /\ b \in Seq(S) /\ Len(b) = Len(q) - i
      /\ \A k \in 1..(Len(q) - i) : b[k] = q[i + k]
    <2>1. \A k \in (i + 1)..Len(q) : q[k] \in S
        BY <1>1
    <2>2. b \in Seq(S) /\ Len(b) = IF i + 1 <= Len(q) THEN Len(q) - (i + 1) + 1 ELSE 0
        BY <1>1, <2>1, SubSeqProperties
    <2>3. \A k \in 1..(Len(q) - i) : b[k] = q[i + 1 + k - 1]
        BY <1>1, <2>1, <2>2, SubSeqProperties, SMTT(30)
    <2> QED BY <2>2, <2>3, <1>1
<1> HIDE DEF a, b
<1>4. /\ a \o b \in Seq(S) /\ Len(a \o b) = Len(q) - 1
      /\ \A k \in 1..(Len(q) - 1) :
           (a \o b)[k] = IF k <= Len(a) THEN a[k] ELSE b[k - Len(a)]
    BY <1>1, <1>2, <1>3, ConcatProperties, SMTT(30)
<1>5. \A k \in 1..(Len(q) - 1) : (a \o b)[k] = IF k < i THEN q[k] ELSE q[k + 1]
    <2> SUFFICES ASSUME NEW k \in 1..(Len(q) - 1)
                 PROVE  (a \o b)[k] = IF k < i THEN q[k] ELSE q[k + 1]
        OBVIOUS
    <2>1. CASE k < i
        <3>1. k \in 1..(i - 1) /\ (a \o b)[k] = a[k]
            BY <1>1, <1>2, <1>4, <2>1
        <3> QED BY <1>2, <2>1, <3>1
    <2>2. CASE ~(k < i)
        <3>1. /\ k - (i - 1) \in 1..(Len(q) - i) /\ (a \o b)[k] = b[k - (i - 1)]
              /\ i + (k - (i - 1)) = k + 1
            BY <1>1, <1>2, <1>4, <2>2
        <3> QED BY <1>3, <2>2, <3>1
    <2> QED BY <2>1, <2>2
<1>6. Without(q, i) = a \o b
    BY DEF Without, a, b
<1> QED BY <1>4, <1>5, <1>6, LenProperties

LEMMA AppendLast ==
    ASSUME NEW q \in Seq(Changes), NEW e \in Changes, NEW f, NEW v
    PROVE  /\ f \in DOMAIN e => EndsWith(Append(q, e), f, e[f])
           /\ f \notin DOMAIN e /\ EndsWith(q, f, v) => EndsWith(Append(q, e), f, v)
           /\ f \notin DOMAIN e /\ Silent(q, f) => Silent(Append(q, e), f)
PROOF
<1>1. /\ \A i \in 1..Len(q) : Append(q, e)[i] = q[i]
      /\ Append(q, e)[Len(q) + 1] = e
      /\ DOMAIN q = 1..Len(q) /\ DOMAIN Append(q, e) = 1..(Len(q) + 1)
      /\ Len(q) \in Nat
    BY AppendProperties, LenProperties
<1>2. f \in DOMAIN e => EndsWith(Append(q, e), f, e[f])
    BY <1>1 DEF EndsWith
<1>3. ASSUME f \notin DOMAIN e, EndsWith(q, f, v)
      PROVE  EndsWith(Append(q, e), f, v)
    <2>1. PICK i \in DOMAIN q : /\ f \in DOMAIN q[i] /\ q[i][f] = v
                                /\ \A j \in DOMAIN q : j > i => f \notin DOMAIN q[j]
        BY <1>3 DEF EndsWith
    <2>2. \A j \in DOMAIN Append(q, e) : j > i => f \notin DOMAIN Append(q, e)[j]
        BY <1>1, <1>3, <2>1
    <2> QED BY <1>1, <2>1, <2>2 DEF EndsWith
<1>4. f \notin DOMAIN e /\ Silent(q, f) => Silent(Append(q, e), f)
    BY AppendRange DEF Silent
<1> QED BY <1>2, <1>3, <1>4

LEMMA TailLast ==
    ASSUME NEW q \in Seq(Changes), q # <<>>, NEW f, NEW v
    PROVE  /\ EndsWith(q, f, v) =>
                \/ EndsWith(Tail(q), f, v)
                \/ Silent(Tail(q), f) /\ f \in DOMAIN Head(q) /\ Head(q)[f] = v
           /\ Silent(q, f) => Silent(Tail(q), f) /\ f \notin DOMAIN Head(q)
PROOF
<1>1. /\ Tail(q) \in Seq(Changes) /\ Len(Tail(q)) = Len(q) - 1
      /\ \A i \in 1..Len(Tail(q)) : Tail(q)[i] = q[i + 1]
      /\ DOMAIN q = 1..Len(q) /\ DOMAIN Tail(q) = 1..Len(Tail(q))
      /\ Len(q) \in Nat /\ Len(q) > 0 /\ Head(q) = q[1]
    BY HeadTailProperties, LenProperties, EmptySeq
<1>2. Silent(q, f) => Silent(Tail(q), f) /\ f \notin DOMAIN Head(q)
    BY TailRange DEF Silent
<1>3. ASSUME NEW i \in DOMAIN q, f \in DOMAIN q[i], q[i][f] = v,
             \A j \in DOMAIN q : j > i => f \notin DOMAIN q[j]
      PROVE  \/ EndsWith(Tail(q), f, v)
             \/ Silent(Tail(q), f) /\ f \in DOMAIN Head(q) /\ Head(q)[f] = v
    <2>1. CASE i = 1
        <3>1. \A j \in DOMAIN Tail(q) : f \notin DOMAIN Tail(q)[j]
            BY <1>1, <1>3, <2>1
        <3> QED BY <1>1, <1>3, <2>1, <3>1 DEF Silent, Range
    <2>2. CASE i # 1
        <3>1. i - 1 \in DOMAIN Tail(q) /\ Tail(q)[i - 1] = q[i]
            BY <1>1, <2>2
        <3>2. \A j \in DOMAIN Tail(q) : j > i - 1 => f \notin DOMAIN Tail(q)[j]
            BY <1>1, <1>3
        <3> QED BY <1>3, <3>1, <3>2 DEF EndsWith
    <2> QED BY <2>1, <2>2
<1> QED BY <1>2, <1>3 DEF EndsWith

(* The task at position i sends: the last update of f was either among the   *)
(* others or the one sent. *)
LEMMA WithoutLast ==
    ASSUME NEW q \in Seq(Changes), NEW i \in DOMAIN q, NEW f, NEW v
    PROVE  /\ Silent(q, f) => Silent(Without(q, i), f) /\ f \notin DOMAIN q[i]
           /\ f \notin DOMAIN q[i] /\ EndsWith(q, f, v) => EndsWith(Without(q, i), f, v)
           /\ /\ EndsWith(q, f, v)
              /\ f \in DOMAIN q[i]
              /\ i = 1 \/ \A j \in DOMAIN q : f \in DOMAIN q[j] => j = i
              => \/ EndsWith(Without(q, i), f, v)
                 \/ Silent(Without(q, i), f) /\ q[i][f] = v
PROOF
<1> DEFINE w == Without(q, i)
<1>1. /\ DOMAIN w = 1..(Len(q) - 1)
      /\ \A k \in 1..(Len(q) - 1) : w[k] = IF k < i THEN q[k] ELSE q[k + 1]
      /\ DOMAIN q = 1..Len(q) /\ Len(q) \in Nat
    BY WithoutProperties, LenProperties
<1> HIDE DEF w
<1>2. \A k \in DOMAIN w : \E j \in DOMAIN q : w[k] = q[j] /\ j # i /\ (i = 1 => j = k + 1)
    <2> SUFFICES ASSUME NEW k \in DOMAIN w
                 PROVE  \E j \in DOMAIN q : w[k] = q[j] /\ j # i /\ (i = 1 => j = k + 1)
        OBVIOUS
    <2>1. CASE k < i
        <3>1. k \in DOMAIN q /\ w[k] = q[k] /\ k # i /\ i # 1
            BY <1>1, <2>1
        <3> QED BY <3>1
    <2>2. CASE ~(k < i)
        <3>1. k + 1 \in DOMAIN q /\ w[k] = q[k + 1] /\ k + 1 # i
            BY <1>1, <2>2
        <3> QED BY <3>1
    <2> QED BY <2>1, <2>2
<1>3. Silent(q, f) => Silent(w, f) /\ f \notin DOMAIN q[i]
    BY <1>2 DEF Silent, Range
<1>4. ASSUME NEW n \in DOMAIN q, f \in DOMAIN q[n], q[n][f] = v, n # i,
             \A j \in DOMAIN q : j > n => f \notin DOMAIN q[j]
      PROVE  EndsWith(w, f, v)
    <2> DEFINE m == IF n < i THEN n ELSE n - 1
    <2>1. m \in DOMAIN w /\ w[m] = q[n]
        BY <1>1, <1>4
    <2>2. \A k \in DOMAIN w : k > m => f \notin DOMAIN w[k]
        <3> SUFFICES ASSUME NEW k \in DOMAIN w, k > m
                     PROVE  f \notin DOMAIN w[k]
            OBVIOUS
        <3>1. CASE k < i
            <4>1. k \in DOMAIN q /\ k > n /\ w[k] = q[k]
                BY <1>1, <1>4, <3>1
            <4> QED BY <4>1, <1>4
        <3>2. CASE ~(k < i)
            <4>1. k + 1 \in DOMAIN q /\ k + 1 > n /\ w[k] = q[k + 1]
                BY <1>1, <1>4, <3>2
            <4> QED BY <4>1, <1>4
        <3> QED BY <3>1, <3>2
    <2> HIDE DEF m
    <2> QED BY <1>4, <2>1, <2>2 DEF EndsWith
<1>5. f \notin DOMAIN q[i] /\ EndsWith(q, f, v) => EndsWith(w, f, v)
    BY <1>4 DEF EndsWith
<1>6. ASSUME EndsWith(q, f, v), f \in DOMAIN q[i],
             i = 1 \/ \A j \in DOMAIN q : f \in DOMAIN q[j] => j = i
      PROVE  EndsWith(w, f, v) \/ (Silent(w, f) /\ q[i][f] = v)
    <2>1. PICK n \in DOMAIN q : /\ f \in DOMAIN q[n] /\ q[n][f] = v
                                /\ \A j \in DOMAIN q : j > n => f \notin DOMAIN q[j]
        BY <1>6 DEF EndsWith
    <2>2. CASE n # i
        BY <1>4, <2>1, <2>2, Zenon
    <2>3. CASE n = i
        <3>1. \A k \in DOMAIN w : f \notin DOMAIN w[k]
            <4> SUFFICES ASSUME NEW k \in DOMAIN w, f \in DOMAIN w[k] PROVE FALSE
                OBVIOUS
            <4>1. PICK j \in DOMAIN q : w[k] = q[j] /\ j # i /\ (i = 1 => j = k + 1)
                BY <1>2
            <4>2. i = 1
                BY <1>6, <4>1
            <4>3. j > n
                BY <1>1, <2>3, <4>1, <4>2
            <4> QED BY <2>1, <4>1, <4>3
        <3> QED BY <2>1, <2>3, <3>1 DEF Silent, Range
    <2> QED BY <2>2, <2>3
<1> QED BY <1>3, <1>5, <1>6 DEF w

LEMMA EmptyLast ==
    ASSUME NEW f, NEW v
    PROVE  Silent(<<>>, f) /\ ~EndsWith(<<>>, f, v)
PROOF BY EmptyRange DEF Silent, EndsWith

-----------------------------------------------------------------------------
(* The invariant holds initially.                                          *)

LEMMA InitIInv == Init => IInv
PROOF
<1> SUFFICES ASSUME Init PROVE IInv
    OBVIOUS
<1>1. Defaults \in State
    BY DefaultAssumption DEF Defaults, State
<1>2. /\ versions \in Seq(State) /\ Len(versions) = 1 /\ versions[1] = Defaults
      /\ versions # <<>> /\ DOMAIN versions = {1}
    BY <1>1 DEF Init
<1>3. TypeOK
    <2>1. /\ <<>> \in Seq(Changes) /\ Len(<<>>) <= UpdateCap
          /\ 0 \in 0..MaxWrites /\ {} \in SUBSET Fields
        BY UpdateCapAssumption, MaxWritesAssumption, EmptySeq
    <2> QED BY <1>1, <1>2, <2>1, Zenon DEF Init, TypeOK
<1>4. GuardInv
    BY <1>2 DEF Init, GuardInv, Published
<1>5. FieldProvenance
    BY <1>2 DEF Init, FieldProvenance
<1>6. PendingProvenance
    BY EmptyRange DEF Init, PendingProvenance
<1>7. Unseen = <<>> /\ Len(Unseen) = 0
    BY DEF Init, Unseen
<1>8. ClientIsPastState /\ UnseenIsRecentHistory
    BY <1>2, <1>7 DEF Init, ClientIsPastState, UnseenIsRecentHistory
<1>9. OneTaskPerField
    BY DEF Init, OneTaskPerField
<1>10. NewestIsLast
    BY <1>2, EmptyLast DEF Init, NewestIsLast, Published
<1> QED BY <1>3, <1>4, <1>5, <1>6, <1>8, <1>9, <1>10 DEF IInv

-----------------------------------------------------------------------------
(* The steps that touch neither a queue nor the history.                   *)

LEMMA LocalIInv ==
    ASSUME IInv,
           \/ Write
           \/ \E f \in Fields, v \in Values : Assign(f, v)
           \/ TakeReadGuard \/ DropReadGuard
           \/ DropGuard /\ Changed = {}
           \/ UNCHANGED vars
    PROVE  IInv'
PROOF
<1> USE DEF IInv
<1>1. UNCHANGED <<runtime, sending, versions, spoiled, channel, wire, client_state>>
    BY DEF Write, Assign, TakeReadGuard, DropReadGuard, DropGuard, vars,
           serverVars, clientVars
<1>2. TypeOK' /\ GuardInv'
    <2>1. CASE Write
        BY <2>1, MaxWritesAssumption
           DEF Write, TypeOK, GuardInv, Published, clientVars
    <2>2. CASE \E f \in Fields, v \in Values : Assign(f, v)
        BY <2>2 DEF Assign, TypeOK, GuardInv, Published, State, clientVars
    <2>3. CASE TakeReadGuard \/ DropReadGuard
        <3>1. reading' \in BOOLEAN
            BY <2>3, Zenon DEF TakeReadGuard, DropReadGuard
        <3>2. UNCHANGED <<state, guard, starting_state, writes>>
            BY <2>3 DEF TakeReadGuard, DropReadGuard, serverVars
        <3> QED BY <1>1, <3>1, <3>2 DEF TypeOK, GuardInv, Published
    <2>4. CASE DropGuard /\ Changed = {}
        <3>1. state = starting_state
            BY <2>4 DEF Changed, TypeOK, State
        <3> QED BY <2>4, <3>1 DEF DropGuard, TypeOK, GuardInv, Published, clientVars
    <2>5. CASE UNCHANGED vars
        BY <2>5 DEF vars, serverVars, clientVars, TypeOK, GuardInv, Published
    <2> QED BY <2>1, <2>2, <2>3, <2>4, <2>5
<1>3. FieldProvenance' /\ PendingProvenance'
    BY <1>1 DEF FieldProvenance, PendingProvenance
<1>4. ClientIsPastState' /\ UnseenIsRecentHistory'
    BY <1>1 DEF ClientIsPastState, UnseenIsRecentHistory, Unseen
<1>5. OneTaskPerField' /\ NewestIsLast'
    BY <1>1 DEF OneTaskPerField, NewestIsLast, Published
<1> QED BY <1>2, <1>3, <1>4, <1>5

-----------------------------------------------------------------------------
(* A guard with changes is dropped.                                        *)

LEMMA DropGuardIInv ==
    ASSUME IInv, DropGuard, Changed # {}
    PROVE  IInv'
PROOF
<1> USE DEF IInv
<1>1. /\ guard /\ guard' = FALSE
      /\ sending' = Append(sending, Diff)
      /\ versions' = Append(versions, state)
      /\ spoiled' = IF runtime = "current_thread" THEN spoiled
                    ELSE spoiled \cup
                      {f \in Changed : \E u \in Range(sending) : f \in DOMAIN u}
      /\ UNCHANGED <<runtime, state, starting_state, writes, channel, wire, reading,
                     client_state>>
    BY DEF DropGuard, clientVars
<1>2. /\ Changed \subseteq Fields
      /\ Diff \in [Changed -> Values] /\ \A f \in Changed : Diff[f] = state[f]
    BY DEF Changed, Diff, DiffOf, TypeOK, State
<1>3. Diff \in Changes
    <2>1. Changed \in (SUBSET Fields) \ {{}}
        BY <1>2, Zenon
    <2> QED BY <1>2, <2>1, Zenon DEF Changes
<1>4. /\ sending \in Seq(Changes) /\ channel \in Seq(Changes)
      /\ wire \in Seq(Changes) /\ versions \in Seq(State) /\ state \in State
    BY DEF TypeOK
<1>5. /\ versions' \in Seq(State) /\ versions' # <<>>
      /\ Len(versions') = Len(versions) + 1 /\ Len(versions) \in Nat
      /\ \A i \in 1..Len(versions) : versions'[i] = versions[i]
      /\ versions'[Len(versions) + 1] = state
      /\ DOMAIN versions = 1..Len(versions) /\ DOMAIN versions' = 1..(Len(versions) + 1)
    <2>1. /\ versions' \in Seq(State) /\ versions' # <<>>
          /\ Len(versions') = Len(versions) + 1
          /\ \A i \in 1..Len(versions) : versions'[i] = versions[i]
          /\ versions'[Len(versions) + 1] = state
        BY <1>1, <1>4, AppendProperties
    <2> QED BY <1>4, <2>1, LenProperties
<1>6. /\ sending' \in Seq(Changes) /\ DOMAIN sending = 1..Len(sending)
      /\ DOMAIN sending' = 1..(Len(sending) + 1) /\ Len(sending) \in Nat
      /\ \A i \in 1..Len(sending) : sending'[i] = sending[i]
      /\ sending'[Len(sending) + 1] = Diff
      /\ Range(sending') = Range(sending) \cup {Diff}
    BY <1>1, <1>3, <1>4, AppendProperties, AppendRange, LenProperties
<1>7. Published' = state /\ Published = starting_state
    BY <1>1, <1>5 DEF Published, GuardInv
<1>8. TypeOK'
    <2>1. spoiled' \in SUBSET Fields
        BY <1>1, <1>2, Zenon DEF TypeOK
    <2> QED BY <1>1, <1>5, <1>6, <2>1 DEF TypeOK
<1>9. GuardInv'
    BY <1>1, <1>7 DEF GuardInv
<1>10. FieldProvenance'
    BY <1>1, <1>5 DEF FieldProvenance
<1>11. PendingProvenance'
    <2> SUFFICES ASSUME NEW u \in Range(sending') \cup Range(channel) \cup Range(wire),
                        NEW f \in DOMAIN u
                 PROVE  \E i \in DOMAIN versions' : u[f] = versions'[i][f]
        BY <1>1 DEF PendingProvenance
    <2>1. CASE u \in Range(sending) \cup Range(channel) \cup Range(wire)
        BY <1>5, <2>1 DEF PendingProvenance
    <2>2. CASE u = Diff
        BY <1>2, <1>5, <2>2
    <2> QED BY <1>6, <2>1, <2>2
<1>12. /\ Unseen' = Append(Unseen, Diff) /\ Unseen \in Seq(Changes)
       /\ Len(Unseen') = Len(Unseen) + 1 /\ Len(Unseen) \in Nat
       /\ \A i \in 1..Len(Unseen) : Unseen'[i] = Unseen[i]
       /\ Unseen'[Len(Unseen) + 1] = Diff
    <2>1. wire \o channel \in Seq(Changes)
        BY <1>4, ConcatProperties
    <2>2. Unseen' = Append(Unseen, Diff) /\ Unseen \in Seq(Changes)
        BY <1>1, <1>3, <1>4, <2>1, AppendToConcat, ConcatProperties DEF Unseen
    <2> QED BY <1>3, <2>2, AppendProperties, LenProperties
<1>13. ASSUME (runtime = "current_thread" /\ spoiled = {})'
       PROVE  /\ Len(Unseen) < Len(versions)
              /\ \A i \in 1..Len(Unseen) :
                   versions[Len(versions) - Len(Unseen) + i] =
                     Applied(versions[Len(versions) - Len(Unseen) + i - 1],
                             Unseen[i], NumFields)
              /\ client_state = versions[Len(versions) - Len(Unseen)]
    BY <1>1, <1>13 DEF ClientIsPastState, UnseenIsRecentHistory
<1>14. ClientIsPastState'
    <2> SUFFICES ASSUME (runtime = "current_thread" /\ spoiled = {})'
                 PROVE  client_state = versions'[Len(versions') - Len(Unseen')]
        BY <1>1 DEF ClientIsPastState
    <2>1. /\ Len(versions') - Len(Unseen') = Len(versions) - Len(Unseen)
          /\ Len(versions) - Len(Unseen) \in 1..Len(versions)
        BY <1>5, <1>12, <1>13
    <2> QED BY <1>5, <1>13, <2>1
<1>15. UnseenIsRecentHistory'
    <2> SUFFICES ASSUME (runtime = "current_thread" /\ spoiled = {})'
                 PROVE  /\ Len(Unseen') < Len(versions')
                        /\ \A i \in 1..Len(Unseen') :
                             versions'[Len(versions') - Len(Unseen') + i] =
                               Applied(versions'[Len(versions') - Len(Unseen') + i - 1],
                                       Unseen'[i], NumFields)
        BY DEF UnseenIsRecentHistory, Applied
    <2>1. /\ Len(versions') - Len(Unseen') = Len(versions) - Len(Unseen)
          /\ Len(Unseen') < Len(versions')
        BY <1>5, <1>12, <1>13
    <2>2. ASSUME NEW i \in 1..Len(Unseen')
          PROVE  versions'[Len(versions) - Len(Unseen) + i] =
                   Applied(versions'[Len(versions) - Len(Unseen) + i - 1],
                           Unseen'[i], NumFields)
        <3>1. CASE i \in 1..Len(Unseen)
            <4>1. /\ Len(versions) - Len(Unseen) + i \in 1..Len(versions)
                  /\ Len(versions) - Len(Unseen) + i - 1 \in 1..Len(versions)
                BY <1>5, <1>12, <1>13, <3>1
            <4> QED BY <1>5, <1>12, <1>13, <3>1, <4>1
        <3>2. CASE i = Len(Unseen) + 1
            <4>1. /\ Len(versions) - Len(Unseen) + i = Len(versions) + 1
                  /\ Len(versions) - Len(Unseen) + i - 1 = Len(versions)
                  /\ Len(versions) \in 1..Len(versions)
                BY <1>5, <1>12, <1>13, <3>2
            <4>2. /\ versions'[Len(versions) + 1] = state
                  /\ versions'[Len(versions)] = starting_state
                BY <1>5, <1>7, <4>1 DEF Published
            <4>3. state = Applied(starting_state, Diff, NumFields)
                BY <1>2, NumFieldsAssumption DEF Applied, TypeOK, State, Changed, Fields
            <4> QED BY <1>12, <3>2, <4>1, <4>2, <4>3
        <3> QED BY <1>12, <3>1, <3>2
    <2> QED BY <2>1, <2>2
<1>16. OneTaskPerField'
    <2> SUFFICES ASSUME runtime = "multi_thread", NEW f \in Fields \ spoiled',
                        NEW i \in DOMAIN sending', NEW j \in DOMAIN sending',
                        f \in DOMAIN sending'[i], f \in DOMAIN sending'[j]
                 PROVE  i = j
        BY <1>1 DEF OneTaskPerField
    <2>1. f \in Fields \ spoiled /\ (f \in Changed => Silent(sending, f))
        BY <1>1 DEF Silent
    <2>2. \A k \in 1..Len(sending) : f \in DOMAIN sending[k] => f \notin Changed
        BY <1>6, <2>1 DEF Silent, Range
    <2>3. DOMAIN Diff = Changed
        BY <1>2
    <2>4. CASE i \in 1..Len(sending) /\ j \in 1..Len(sending)
        BY <1>6, <2>1, <2>4 DEF OneTaskPerField
    <2> QED BY <1>6, <2>2, <2>3, <2>4
<1>17. NewestIsLast'
    <2> SUFFICES ASSUME NEW f \in Fields, f \notin spoiled'
                 PROVE  LET v == state[f]
                        IN  \/ EndsWith(sending', f, v)
                            \/ Silent(sending', f) /\ EndsWith(channel, f, v)
                            \/ /\ Silent(sending', f) /\ Silent(channel, f)
                               /\ EndsWith(wire, f, v)
                            \/ /\ Silent(sending', f) /\ Silent(channel, f)
                               /\ Silent(wire, f) /\ client_state[f] = v
        BY <1>1, <1>7 DEF NewestIsLast
    <2>1. f \notin spoiled
        BY <1>1
    <2>2. CASE f \in Changed
        <3>1. f \in DOMAIN Diff /\ Diff[f] = state[f]
            BY <1>2, <2>2
        <3>2. EndsWith(sending', f, Diff[f])
            BY <1>1, <1>3, <1>4, <3>1, AppendLast
        <3> QED BY <3>1, <3>2
    <2>3. CASE f \notin Changed
        <3>1. f \notin DOMAIN Diff /\ state[f] = Published[f]
            BY <1>2, <1>7, <2>3 DEF Changed
        <3>2. /\ EndsWith(sending, f, state[f]) => EndsWith(sending', f, state[f])
              /\ Silent(sending, f) => Silent(sending', f)
            BY <1>1, <1>3, <1>4, <3>1, AppendLast
        <3> QED BY <2>1, <3>1, <3>2 DEF NewestIsLast
    <2> QED BY <2>2, <2>3
<1> QED BY <1>8, <1>9, <1>10, <1>11, <1>14, <1>15, <1>16, <1>17

-----------------------------------------------------------------------------
(* The updates move to the client.                                         *)

(* While the updates keep their order, or one is lost, the history stands. *)
LEMMA HistoryKept ==
    ASSUME IInv, UNCHANGED <<runtime, versions, client_state>>,
           runtime = "current_thread" => spoiled' # {} \/ (spoiled' = spoiled /\ Unseen' = Unseen)
    PROVE  ClientIsPastState' /\ UnseenIsRecentHistory'
PROOF BY DEF IInv, ClientIsPastState, UnseenIsRecentHistory

LEMMA SendUpdateIInv ==
    ASSUME IInv, NEW i, SendUpdate(i)
    PROVE  IInv'
PROOF
<1> USE DEF IInv
<1>1. /\ i \in DOMAIN sending /\ (runtime = "current_thread" => i = 1)
      /\ Len(channel) < UpdateCap
      /\ channel' = Append(channel, sending[i])
      /\ sending' = Without(sending, i)
      /\ UNCHANGED <<runtime, state, guard, starting_state, versions, spoiled,
                     writes, wire, reading, client_state>>
    BY DEF SendUpdate, ChannelHasRoom, clientVars
<1>2. /\ sending \in Seq(Changes) /\ channel \in Seq(Changes)
      /\ wire \in Seq(Changes) /\ runtime \in {"current_thread", "multi_thread"}
    BY RuntimesAssumption DEF TypeOK
<1>3. /\ sending[i] \in Changes /\ sending[i] \in Range(sending)
      /\ Len(sending) \in Nat /\ DOMAIN sending = 1..Len(sending)
      /\ i \in Nat /\ sending # <<>>
    BY <1>1, <1>2, LenProperties, ElementOfSeq, EmptySeq DEF Range
<1>4. /\ sending' \in Seq(Changes)
      /\ DOMAIN sending' = 1..(Len(sending) - 1)
      /\ \A k \in 1..(Len(sending) - 1) :
           sending'[k] = IF k < i THEN sending[k] ELSE sending[k + 1]
    BY <1>1, <1>2, WithoutProperties
<1>5. /\ channel' \in Seq(Changes) /\ Len(channel') = Len(channel) + 1
      /\ Range(channel') = Range(channel) \cup {sending[i]}
    BY <1>1, <1>2, <1>3, AppendRange
<1>6. TypeOK'
    <2>1. Len(channel') <= UpdateCap
        BY <1>1, <1>2, <1>5, UpdateCapAssumption, LenProperties
    <2> QED BY <1>1, <1>4, <1>5, <2>1 DEF TypeOK
<1>7. GuardInv' /\ FieldProvenance'
    BY <1>1 DEF GuardInv, Published, FieldProvenance
<1>8. PendingProvenance'
    <2>1. Range(sending') \subseteq Range(sending)
        <3> SUFFICES ASSUME NEW k \in DOMAIN sending'
                     PROVE  \E j \in DOMAIN sending : sending'[k] = sending[j]
            BY DEF Range
        <3>1. CASE k < i
            BY <1>3, <1>4, <3>1
        <3>2. CASE ~(k < i)
            <4>1. k + 1 \in DOMAIN sending /\ sending'[k] = sending[k + 1]
                BY <1>3, <1>4, <3>2
            <4> QED BY <4>1
        <3> QED BY <3>1, <3>2
    <2>2. Range(sending') \cup Range(channel') \cup Range(wire')
            \subseteq Range(sending) \cup Range(channel) \cup Range(wire)
        BY <1>1, <1>3, <1>5, <2>1
    <2> QED BY <1>1, <2>2 DEF PendingProvenance
<1>9. ClientIsPastState' /\ UnseenIsRecentHistory'
    <2>1. ASSUME runtime = "current_thread" PROVE Unseen' = Unseen
        <3>1. i = 1 /\ sending[i] = Head(sending)
            BY <1>1, <1>2, <1>3, <2>1
        <3>2. sending' = Tail(sending)
            <4>1. /\ Tail(sending) \in Seq(Changes) /\ Len(Tail(sending)) = Len(sending) - 1
                  /\ \A k \in 1..Len(Tail(sending)) : Tail(sending)[k] = sending[k + 1]
                BY <1>2, <1>3, HeadTailProperties
            <4>2. Len(sending') = Len(sending) - 1
                BY <1>1, <1>2, WithoutProperties
            <4>3. \A k \in 1..Len(sending') : sending'[k] = Tail(sending)[k]
                BY <1>3, <1>4, <3>1, <4>1, <4>2
            <4> QED BY <1>4, <4>1, <4>2, <4>3, SeqEqual
        <3>3. wire \o channel \in Seq(Changes) /\ Head(sending) \in Changes
            BY <1>2, <1>3, <3>1, ConcatProperties
        <3>4. wire' \o channel' = Append(wire \o channel, Head(sending))
            BY <1>1, <1>2, <3>1, <3>3, AppendToConcat
        <3> QED BY <1>2, <1>3, <3>2, <3>3, <3>4, MoveBetweenQueues DEF Unseen
    <2> QED BY <1>1, <2>1, HistoryKept
<1>10. OneTaskPerField'
    <2> SUFFICES ASSUME runtime = "multi_thread", NEW f \in Fields \ spoiled,
                        NEW a \in DOMAIN sending', NEW b \in DOMAIN sending',
                        f \in DOMAIN sending'[a], f \in DOMAIN sending'[b]
                 PROVE  a = b
        BY <1>1 DEF OneTaskPerField
    <2> DEFINE old(k) == IF k < i THEN k ELSE k + 1
    <2>1. /\ old(a) \in DOMAIN sending /\ sending'[a] = sending[old(a)]
          /\ old(b) \in DOMAIN sending /\ sending'[b] = sending[old(b)]
        BY <1>3, <1>4
    <2>2. old(a) = old(b)
        BY <2>1 DEF OneTaskPerField
    <2> QED BY <1>3, <1>4, <2>2
<1>11. NewestIsLast'
    <2> SUFFICES ASSUME NEW f \in Fields \ spoiled
                 PROVE  LET v == Published[f]
                        IN  \/ EndsWith(sending', f, v)
                            \/ Silent(sending', f) /\ EndsWith(channel', f, v)
                            \/ /\ Silent(sending', f) /\ Silent(channel', f)
                               /\ EndsWith(wire, f, v)
                            \/ /\ Silent(sending', f) /\ Silent(channel', f)
                               /\ Silent(wire, f) /\ client_state[f] = v
        BY <1>1 DEF NewestIsLast, Published
    <2> DEFINE v == Published[f]
    <2>1. /\ Silent(sending, f) => Silent(sending', f) /\ f \notin DOMAIN sending[i]
          /\ f \notin DOMAIN sending[i] /\ EndsWith(sending, f, v) => EndsWith(sending', f, v)
        BY <1>1, <1>2, WithoutLast
    <2>2. EndsWith(sending, f, v) /\ f \in DOMAIN sending[i] =>
            \/ EndsWith(sending', f, v)
            \/ Silent(sending', f) /\ sending[i][f] = v
        <3>1. f \in DOMAIN sending[i] =>
                i = 1 \/ \A j \in DOMAIN sending : f \in DOMAIN sending[j] => j = i
            BY <1>1, <1>2 DEF OneTaskPerField
        <3> QED BY <1>1, <1>2, <3>1, WithoutLast
    <2>3. /\ f \in DOMAIN sending[i] => EndsWith(channel', f, sending[i][f])
          /\ f \notin DOMAIN sending[i] /\ EndsWith(channel, f, v) => EndsWith(channel', f, v)
          /\ f \notin DOMAIN sending[i] /\ Silent(channel, f) => Silent(channel', f)
        BY <1>1, <1>2, <1>3, AppendLast
    <2>4. \/ EndsWith(sending, f, v)
          \/ Silent(sending, f) /\ EndsWith(channel, f, v)
          \/ Silent(sending, f) /\ Silent(channel, f) /\ EndsWith(wire, f, v)
          \/ /\ Silent(sending, f) /\ Silent(channel, f) /\ Silent(wire, f)
             /\ client_state[f] = v
        BY DEF NewestIsLast
    <2> HIDE DEF v
    <2> QED BY <2>1, <2>2, <2>3, <2>4 DEF v
<1> QED BY <1>6, <1>7, <1>8, <1>9, <1>10, <1>11

LEMMA ForwardUpdateIInv ==
    ASSUME IInv, ForwardUpdate
    PROVE  IInv'
PROOF
<1> USE DEF IInv
<1>1. /\ channel # <<>> /\ channel' = Tail(channel)
      /\ \/ wire' = Append(wire, Head(channel)) /\ spoiled' = spoiled
         \/ wire' = wire /\ spoiled' = spoiled \cup DOMAIN Head(channel)
      /\ UNCHANGED <<runtime, state, guard, starting_state, sending, versions, writes,
                     reading, client_state>>
    BY DEF ForwardUpdate, serverVars, clientVars
<1>2. /\ sending \in Seq(Changes) /\ channel \in Seq(Changes)
      /\ wire \in Seq(Changes) /\ Len(channel) \in Nat /\ Len(channel) <= UpdateCap
    BY LenProperties DEF TypeOK
<1>3. /\ Head(channel) \in Changes /\ Head(channel) \in Range(channel)
      /\ channel' \in Seq(Changes) /\ Len(channel') = Len(channel) - 1
      /\ Range(channel') \subseteq Range(channel)
    BY <1>1, <1>2, TailRange
<1>4. /\ wire' \in Seq(Changes)
      /\ Range(wire') \subseteq Range(wire) \cup {Head(channel)}
    <2>1. CASE wire' = wire
        BY <1>2, <2>1
    <2>2. CASE wire' = Append(wire, Head(channel))
        BY <1>2, <1>3, <2>2, AppendRange
    <2> QED BY <1>1, <2>1, <2>2
<1>5. DOMAIN Head(channel) \subseteq Fields /\ DOMAIN Head(channel) # {}
    BY <1>3, ChangesType
<1>6. TypeOK'
    <2>1. Len(channel') <= UpdateCap
        BY <1>2, <1>3, UpdateCapAssumption
    <2>2. spoiled' \in SUBSET Fields
        BY <1>1, <1>5 DEF TypeOK
    <2> QED BY <1>1, <1>3, <1>4, <2>1, <2>2 DEF TypeOK
<1>7. GuardInv' /\ FieldProvenance'
    BY <1>1 DEF GuardInv, Published, FieldProvenance
<1>8. PendingProvenance'
    <2>1. Range(sending') \cup Range(channel') \cup Range(wire')
            \subseteq Range(sending) \cup Range(channel) \cup Range(wire)
        BY <1>1, <1>3, <1>4
    <2> QED BY <1>1, <2>1 DEF PendingProvenance
<1>9. ClientIsPastState' /\ UnseenIsRecentHistory'
    <2>1. CASE wire' = Append(wire, Head(channel)) /\ spoiled' = spoiled
        <3>1. wire' \o channel' = wire \o channel
            BY <1>1, <1>2, <2>1, MoveBetweenQueues
        <3> QED BY <1>1, <2>1, <3>1, HistoryKept DEF Unseen
    <2>2. CASE wire' = wire /\ spoiled' = spoiled \cup DOMAIN Head(channel)
        <3>1. spoiled' # {}
            BY <1>5, <2>2
        <3> QED BY <1>1, <3>1, HistoryKept
    <2> QED BY <1>1, <2>1, <2>2
<1>10. OneTaskPerField'
    BY <1>1 DEF OneTaskPerField
<1>11. NewestIsLast'
    <2> SUFFICES ASSUME NEW f \in Fields, f \notin spoiled'
                 PROVE  LET v == Published[f]
                        IN  \/ EndsWith(sending, f, v)
                            \/ Silent(sending, f) /\ EndsWith(channel', f, v)
                            \/ /\ Silent(sending, f) /\ Silent(channel', f)
                               /\ EndsWith(wire', f, v)
                            \/ /\ Silent(sending, f) /\ Silent(channel', f)
                               /\ Silent(wire', f) /\ client_state[f] = v
        BY <1>1 DEF NewestIsLast, Published
    <2> DEFINE v == Published[f]
    <2>1. /\ EndsWith(channel, f, v) =>
               \/ EndsWith(channel', f, v)
               \/ /\ Silent(channel', f) /\ f \in DOMAIN Head(channel)
                  /\ Head(channel)[f] = v
          /\ Silent(channel, f) => Silent(channel', f) /\ f \notin DOMAIN Head(channel)
        BY <1>1, <1>2, TailLast
    <2>2. /\ f \in DOMAIN Head(channel) => EndsWith(wire', f, Head(channel)[f])
          /\ f \notin DOMAIN Head(channel) /\ EndsWith(wire, f, v) => EndsWith(wire', f, v)
          /\ f \notin DOMAIN Head(channel) /\ Silent(wire, f) => Silent(wire', f)
        BY <1>1, <1>2, <1>3, AppendLast
    <2>3. f \notin spoiled
        BY <1>1
    <2>4. \/ EndsWith(sending, f, v)
          \/ Silent(sending, f) /\ EndsWith(channel, f, v)
          \/ Silent(sending, f) /\ Silent(channel, f) /\ EndsWith(wire, f, v)
          \/ /\ Silent(sending, f) /\ Silent(channel, f) /\ Silent(wire, f)
             /\ client_state[f] = v
        BY <2>3 DEF NewestIsLast
    <2> HIDE DEF v
    <2> QED BY <2>1, <2>2, <2>4 DEF v
<1> QED BY <1>6, <1>7, <1>8, <1>9, <1>10, <1>11

LEMMA ApplyChangesIInv ==
    ASSUME IInv, ApplyChanges
    PROVE  IInv'
PROOF
<1> USE DEF IInv
<1> DEFINE u == Head(wire)
<1>1. /\ wire # <<>> /\ wire' = Tail(wire)
      /\ UNCHANGED <<runtime, state, guard, starting_state, sending, versions, writes,
                     channel, reading>>
    BY DEF ApplyChanges, serverVars
<1>2. PICK n \in 0..NumFields :
        /\ client_state' = Applied(client_state, u, n)
        /\ spoiled' = spoiled \cup {f \in DOMAIN u : f > n}
    BY DEF ApplyChanges
<1>3. /\ sending \in Seq(Changes) /\ channel \in Seq(Changes)
      /\ wire \in Seq(Changes) /\ versions \in Seq(State) /\ client_state \in State
    BY DEF TypeOK
<1>4. /\ u \in Changes /\ u \in Range(wire) /\ wire' \in Seq(Changes)
      /\ Range(wire') \subseteq Range(wire)
    BY <1>1, <1>3, TailRange
<1> HIDE DEF u
<1>5. /\ DOMAIN u \subseteq Fields /\ DOMAIN u # {} /\ \A f \in DOMAIN u : u[f] \in Values
    BY <1>4, ChangesType
<1>6. /\ client_state' \in State
      /\ \A f \in Fields :
           client_state'[f] = IF f \in DOMAIN u /\ f <= n THEN u[f] ELSE client_state[f]
    BY <1>2, <1>3, <1>5 DEF Applied, State
<1>7. TypeOK'
    <2>1. spoiled' \in SUBSET Fields
        BY <1>2, <1>5 DEF TypeOK
    <2> QED BY <1>1, <1>4, <1>6, <2>1 DEF TypeOK
<1>8. GuardInv' /\ OneTaskPerField'
    BY <1>1, <1>2 DEF GuardInv, Published, OneTaskPerField
<1>9. PendingProvenance'
    <2>1. Range(sending') \cup Range(channel') \cup Range(wire')
            \subseteq Range(sending) \cup Range(channel) \cup Range(wire)
        BY <1>1, <1>4
    <2> QED BY <1>1, <2>1 DEF PendingProvenance
<1>10. FieldProvenance'
    <2> SUFFICES ASSUME NEW f \in Fields
                 PROVE  \E i \in DOMAIN versions : client_state'[f] = versions[i][f]
        BY <1>1 DEF FieldProvenance
    <2>1. CASE f \in DOMAIN u /\ f <= n
        <3>1. client_state'[f] = u[f]
            BY <1>6, <2>1
        <3> QED BY <1>4, <2>1, <3>1 DEF PendingProvenance
    <2>2. CASE ~(f \in DOMAIN u /\ f <= n)
        BY <1>6, <2>2 DEF FieldProvenance
    <2> QED BY <2>1, <2>2
<1>11. ASSUME (runtime = "current_thread" /\ spoiled = {})'
       PROVE  /\ Len(Unseen') < Len(versions)
              /\ \A i \in 1..Len(Unseen') :
                   versions[Len(versions) - Len(Unseen') + i] =
                     Applied(versions[Len(versions) - Len(Unseen') + i - 1],
                             Unseen'[i], NumFields)
              /\ client_state' = versions[Len(versions) - Len(Unseen')]
    <2>1. runtime = "current_thread" /\ spoiled = {} /\ \A f \in DOMAIN u : f <= n
        BY <1>1, <1>2, <1>5, <1>11 DEF Fields
    <2>2. /\ Unseen \in Seq(Changes) /\ Unseen # <<>>
          /\ Unseen' = Tail(Unseen) /\ u = Unseen[1]
        <3>1. /\ wire \o channel \in Seq(Changes) /\ wire \o channel # <<>>
              /\ wire' \o channel' = Tail(wire \o channel) /\ u = (wire \o channel)[1]
            BY <1>1, <1>3, ConcatProperties, TailOfConcat DEF u
        <3>2. /\ Unseen \in Seq(Changes) /\ Unseen # <<>>
              /\ Unseen' = Tail(Unseen) /\ Head(wire \o channel) = Unseen[1]
            BY <1>1, <1>3, <3>1, ConcatProperties, TailOfConcat DEF Unseen
        <3> QED BY <3>1, <3>2
    <2>3. /\ Len(Unseen) \in Nat /\ Len(Unseen) >= 1 /\ Len(versions) \in Nat
          /\ Len(Unseen') = Len(Unseen) - 1
          /\ \A i \in 1..Len(Unseen') : Unseen'[i] = Unseen[i + 1]
        BY <1>3, <2>2, HeadTailProperties, LenProperties, EmptySeq
    <2>4. /\ Len(Unseen) < Len(versions)
          /\ \A i \in 1..Len(Unseen) :
               versions[Len(versions) - Len(Unseen) + i] =
                 Applied(versions[Len(versions) - Len(Unseen) + i - 1],
                         Unseen[i], NumFields)
          /\ client_state = versions[Len(versions) - Len(Unseen)]
        BY <2>1 DEF ClientIsPastState, UnseenIsRecentHistory
    <2>5. \A i \in 1..Len(Unseen') :
               versions[Len(versions) - Len(Unseen') + i] =
                 Applied(versions[Len(versions) - Len(Unseen') + i - 1],
                         Unseen'[i], NumFields)
        <3> SUFFICES ASSUME NEW i \in 1..Len(Unseen')
                     PROVE  versions[Len(versions) - Len(Unseen') + i] =
                              Applied(versions[Len(versions) - Len(Unseen') + i - 1],
                                      Unseen'[i], NumFields)
            OBVIOUS
        <3>1. /\ i + 1 \in 1..Len(Unseen)
              /\ Len(versions) - Len(Unseen') + i = Len(versions) - Len(Unseen) + (i + 1)
              /\ Len(versions) - Len(Unseen') + i - 1 =
                   Len(versions) - Len(Unseen) + (i + 1) - 1
            BY <2>3
        <3> QED BY <2>3, <2>4, <3>1
    <2>6. client_state' = versions[Len(versions) - Len(Unseen')]
        <3>1. /\ 1 \in 1..Len(Unseen)
              /\ Len(versions) - Len(Unseen') = Len(versions) - Len(Unseen) + 1
              /\ Len(versions) - Len(Unseen) + 1 - 1 = Len(versions) - Len(Unseen)
            BY <2>3
        <3>2. versions[Len(versions) - Len(Unseen')] = Applied(client_state, u, NumFields)
            BY <2>2, <2>4, <3>1
        <3>3. Applied(client_state, u, n) = Applied(client_state, u, NumFields)
            BY <1>5, <2>1, NumFieldsAssumption DEF Applied, Fields
        <3> QED BY <1>2, <3>2, <3>3
    <2> QED BY <2>3, <2>4, <2>5, <2>6
<1>12. ClientIsPastState' /\ UnseenIsRecentHistory'
    BY <1>1, <1>11 DEF ClientIsPastState, UnseenIsRecentHistory, Applied
<1>13. NewestIsLast'
    <2> SUFFICES ASSUME NEW f \in Fields, f \notin spoiled'
                 PROVE  LET v == Published[f]
                        IN  \/ EndsWith(sending, f, v)
                            \/ Silent(sending, f) /\ EndsWith(channel, f, v)
                            \/ /\ Silent(sending, f) /\ Silent(channel, f)
                               /\ EndsWith(wire', f, v)
                            \/ /\ Silent(sending, f) /\ Silent(channel, f)
                               /\ Silent(wire', f) /\ client_state'[f] = v
        BY <1>1 DEF NewestIsLast, Published
    <2> DEFINE v == Published[f]
    <2>1. /\ EndsWith(wire, f, v) =>
               \/ EndsWith(wire', f, v)
               \/ Silent(wire', f) /\ f \in DOMAIN u /\ u[f] = v
          /\ Silent(wire, f) => Silent(wire', f) /\ f \notin DOMAIN u
        BY <1>1, <1>3, TailLast DEF u
    <2>2. f \notin spoiled /\ (f \in DOMAIN u => f <= n)
        BY <1>2 DEF Fields
    <2>3. client_state'[f] = IF f \in DOMAIN u THEN u[f] ELSE client_state[f]
        BY <1>6, <2>2
    <2>4. \/ EndsWith(sending, f, v)
          \/ Silent(sending, f) /\ EndsWith(channel, f, v)
          \/ Silent(sending, f) /\ Silent(channel, f) /\ EndsWith(wire, f, v)
          \/ /\ Silent(sending, f) /\ Silent(channel, f) /\ Silent(wire, f)
             /\ client_state[f] = v
        BY <2>2 DEF NewestIsLast
    <2> HIDE DEF v
    <2> QED BY <2>1, <2>3, <2>4 DEF v
<1> QED BY <1>7, <1>8, <1>9, <1>10, <1>12, <1>13

LEMMA NextIInv == IInv /\ [Next]_vars => IInv'
PROOF BY LocalIInv, DropGuardIInv, SendUpdateIInv, ForwardUpdateIInv, ApplyChangesIInv
      DEF Next, SendTask

-----------------------------------------------------------------------------
(* The invariant of the whole path from a handler's guard to the client. *)
THEOREM StateInvariant == Spec => []IInv
PROOF BY InitIInv, NextIInv, PTL DEF Spec

(* Every variable has its type, and no schedule of the spawned tasks puts    *)
(* more than UpdateCap updates into the channel. *)
THEOREM TypeCorrect == Spec => []TypeOK
PROOF
<1>1. IInv => TypeOK
    BY DEF IInv
<1> QED BY StateInvariant, <1>1, PTL

(* On the current-thread runtime, until an update is lost, the client's copy *)
(* is the server's state before the updates it has not seen. *)
THEOREM PastState == Spec => []ClientIsPastState
PROOF
<1>1. IInv => ClientIsPastState
    BY DEF IInv
<1> QED BY StateInvariant, <1>1, PTL

(* On either runtime and whatever is lost or cut short, the client's copy    *)
(* never holds a value the server did not give to that field. *)
THEOREM Provenance == Spec => []FieldProvenance
PROOF
<1>1. IInv => FieldProvenance
    BY DEF IInv
<1> QED BY StateInvariant, <1>1, PTL

(* At rest, a field agrees unless one of its updates was lost or two were in *)
(* the tasks of several threads at once. *)
THEOREM FieldsAgreeAtRest == Spec => []UnspoiledFieldsAgree
PROOF
<1>1. IInv => UnspoiledFieldsAgree
    <2> SUFFICES ASSUME IInv, Quiet, NEW f \in Fields \ spoiled
                 PROVE  client_state[f] = state[f]
        BY DEF UnspoiledFieldsAgree
    <2>1. sending = <<>> /\ channel = <<>> /\ wire = <<>>
        <3>1. /\ wire \in Seq(Changes) /\ channel \in Seq(Changes)
              /\ sending \in Seq(Changes)
            BY DEF IInv, TypeOK
        <3>2. wire \o channel \in Seq(Changes) /\ (wire \o channel) \o sending = <<>>
            BY <3>1, ConcatProperties DEF Quiet, Unseen
        <3> QED BY <3>1, <3>2, ConcatEqualIffEmpty
    <2>2. client_state[f] = Published[f]
        BY <2>1, EmptyLast DEF IInv, NewestIsLast
    <2> QED BY <2>2 DEF IInv, GuardInv, Quiet
<1> QED BY StateInvariant, <1>1, PTL
=============================================================================
