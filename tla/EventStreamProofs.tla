-------------------------- MODULE EventStreamProofs --------------------------
(***************************************************************************)
(* Proofs about the event stream, for every number of clients, rows, rows  *)
(* of a poll and broken connections: the order of events, the one reason   *)
(* to miss one, and that nobody sees what a rollback undid.                *)
(*                                                                         *)
(* The cursor is what has to be understood.  Everything sent to a client   *)
(* is at or behind its cursor, and the cursor stands at an event that the  *)
(* client has or that is under way to it (CursorAtEnd), committed:         *)
(* so a row that commits later is strictly behind the cursor, and is late, *)
(* or still to be polled.                                                  *)
(***************************************************************************)
EXTENDS EventStream, SequenceTheorems, FunctionTheorems, FiniteSetTheorems, TLAPS

-----------------------------------------------------------------------------
(***************************************************************************)
(* Sets of numbers in order                                                *)
(***************************************************************************)

\* Sequences that rise.
Rising(s) == \A i, j \in DOMAIN s : i < j => s[i] < s[j]

\* The place of a number among those of a set.
Place(S) == [e \in S |-> Cardinality({f \in S : f < e}) + 1]

\* A greater number has a later place.
LEMMA PlaceRises ==
    ASSUME NEW S, S \subseteq Nat, IsFiniteSet(S)
    PROVE  \A e, f \in S : e < f => Place(S)[e] < Place(S)[f]
<1> SUFFICES ASSUME NEW e \in S, NEW f \in S, e < f
             PROVE  Place(S)[e] < Place(S)[f]
  OBVIOUS
<1> DEFINE Before(x) == {y \in S : y < x}
<1>1. Before(e) \cup {e} \subseteq Before(f) /\ e \notin Before(e)
  <2>1. e \in Nat /\ f \in Nat /\ \A y \in S : y \in Nat
    OBVIOUS
  <2>2. \A y \in S : y < e => y < f
    BY <2>1
  <2>3. ~(e < e)
    BY <2>1
  <2>4. QED
    BY <2>2, <2>3
<1>2. IsFiniteSet(Before(e)) /\ IsFiniteSet(Before(f))
  BY FS_Subset
<1>3. /\ IsFiniteSet(Before(e) \cup {e})
      /\ Cardinality(Before(e) \cup {e}) = Cardinality(Before(e)) + 1
  BY <1>1, <1>2, FS_AddElement
<1>4. Cardinality(Before(e) \cup {e}) <= Cardinality(Before(f))
  BY <1>1, <1>2, FS_Subset
<1>5. Cardinality(Before(e)) \in Nat /\ Cardinality(Before(f)) \in Nat
  BY <1>2, FS_CardinalityType
<1> HIDE DEF Before
<1>6. Place(S)[e] = Cardinality(Before(e)) + 1 /\ Place(S)[f] = Cardinality(Before(f)) + 1
  BY DEF Place, Before
<1>7. QED
  BY <1>3, <1>4, <1>5, <1>6

\* Every place is taken by one number.
LEMMA PlaceBijective ==
    ASSUME NEW S, S \subseteq Nat, IsFiniteSet(S)
    PROVE  /\ Cardinality(S) \in Nat
           /\ Place(S) \in [S -> 1..Cardinality(S)]
           /\ \A i \in 1..Cardinality(S) : \E e \in S : Place(S)[e] = i
<1>1. Cardinality(S) \in Nat
  BY FS_CardinalityType
<1>2. ASSUME NEW e \in S
      PROVE  Place(S)[e] \in 1..Cardinality(S)
  <2> DEFINE before == {f \in S : f < e}
  <2>1. before \subseteq S \ {e}
    BY <1>2
  <2>2. IsFiniteSet(S \ {e}) /\ Cardinality(S \ {e}) = Cardinality(S) - 1
    BY FS_RemoveElement
  <2>3. Cardinality(before) <= Cardinality(S) - 1 /\ IsFiniteSet(before)
    BY <2>1, <2>2, FS_Subset
  <2>4. Cardinality(before) \in Nat
    BY <2>3, FS_CardinalityType
  <2> HIDE DEF before
  <2>5. Place(S)[e] = Cardinality(before) + 1
    BY DEF Place, before
  <2>6. QED
    BY <1>1, <2>3, <2>4, <2>5
<1>3. Place(S) \in [S -> 1..Cardinality(S)]
  BY <1>2 DEF Place
<1>4. \A e, f \in S : Place(S)[e] = Place(S)[f] => e = f
  <2> SUFFICES ASSUME NEW e \in S, NEW f \in S, Place(S)[e] = Place(S)[f]
               PROVE  e = f
    OBVIOUS
  <2>1. Place(S)[e] \in Nat /\ e \in Nat /\ f \in Nat
    BY <1>1, <1>2
  <2>2. ~(e < f) /\ ~(f < e)
    <3>1. \A x, y \in S : x < y => Place(S)[x] < Place(S)[y]
      BY PlaceRises
    <3>2. \A n \in Nat : ~(n < n)
      OBVIOUS
    <3>3. QED
      BY <2>1, <3>1, <3>2
  <2>3. QED
    BY <2>1, <2>2
<1>5. Place(S) \in Injection(S, 1..Cardinality(S))
  BY <1>3, <1>4, Fun_IsInj
<1>6. IsFiniteSet(1..Cardinality(S)) /\ Cardinality(1..Cardinality(S)) = Cardinality(S)
  BY <1>1, FS_Interval
<1>7. Place(S) \in Surjection(S, 1..Cardinality(S))
  BY <1>5, <1>6, FS_Injection
<1>8. \A i \in 1..Cardinality(S) : \E e \in S : Place(S)[e] = i
  BY <1>7, Fun_SurjectionProperties, Zenon
<1>9. QED
  BY <1>1, <1>3, <1>8

\* A finite set of numbers can be put in order.
LEMMA SomeOrder ==
    ASSUME NEW S, S \subseteq Nat, IsFiniteSet(S)
    PROVE  \E s \in [1..Cardinality(S) -> S] : Rising(s)
<1> DEFINE s == [i \in 1..Cardinality(S) |-> CHOOSE e \in S : Place(S)[e] = i]
<1>1. \A i \in 1..Cardinality(S) : s[i] \in S /\ Place(S)[s[i]] = i
  BY PlaceBijective
<1>2. s \in [1..Cardinality(S) -> S]
  BY <1>1
<1> HIDE DEF s
<1>3. ASSUME NEW i \in 1..Cardinality(S), NEW j \in 1..Cardinality(S), i < j
      PROVE  s[i] < s[j]
  <2>1. s[i] # s[j]
    BY <1>1, <1>3
  <2>2. s[i] \in S /\ s[j] \in S /\ Place(S)[s[i]] = i /\ Place(S)[s[j]] = j
    BY <1>1
  <2>3. s[j] < s[i] => j < i
    BY <2>2, PlaceRises
  <2>4. s[i] \in Nat /\ s[j] \in Nat
    BY <2>2
  <2>5. QED
    BY <1>3, <2>1, <2>3, <2>4
<1>4. Rising(s)
  BY <1>2, <1>3 DEF Rising
<1>5. QED
  BY <1>2, <1>4

\* ORDER BY puts each row of a set in one place of a rising sequence.
LEMMA InNumberOrderRises ==
    ASSUME NEW S, S \subseteq Nat, IsFiniteSet(S)
    PROVE  /\ InNumberOrder(S) \in Seq(S)
           /\ Rising(InNumberOrder(S))
           /\ ToSet(InNumberOrder(S)) = S
<1> DEFINE n == Cardinality(S)
           s == InNumberOrder(S)
<1>1. n \in Nat
  BY FS_CardinalityType
<1>2. s \in [1..n -> S] /\ Rising(s)
  BY SomeOrder DEF InNumberOrder, Rising
<1> HIDE DEF n, s
<1>3. s \in Seq(S)
  BY <1>1, <1>2, IsASeq
<1>4. \A i, j \in 1..n : s[i] = s[j] => i = j
  <2> SUFFICES ASSUME NEW i \in 1..n, NEW j \in 1..n, s[i] = s[j]
               PROVE  i = j
    OBVIOUS
  <2>1. ~(i < j) /\ ~(j < i)
    <3>1. s[i] \in Nat /\ DOMAIN s = 1..n
      BY <1>2
    <3>2. ~(s[i] < s[i])
      BY <3>1
    <3>3. QED
      BY <1>2, <3>1, <3>2 DEF Rising
  <2>2. QED
    BY <1>1, <2>1
<1>5. s \in Injection(1..n, S)
  BY <1>2, <1>4, Fun_IsInj
<1>6. IsFiniteSet(1..n) /\ Cardinality(1..n) = n
  BY <1>1, FS_Interval
<1>7. s \in Surjection(1..n, S)
  BY <1>5, <1>6, FS_Injection DEF n
<1>8. ToSet(s) = S
  <2>1. \A e \in S : \E i \in 1..n : s[i] = e
    BY <1>7 DEF Surjection
  <2>2. QED
    BY <1>2, <2>1 DEF ToSet
<1>9. QED
  BY <1>2, <1>3, <1>8 DEF s

-----------------------------------------------------------------------------
(***************************************************************************)
(* Sequences                                                               *)
(***************************************************************************)

\* A concatenation has the elements of both parts.
LEMMA ConcatElements ==
    ASSUME NEW S, NEW s \in Seq(S), NEW t \in Seq(S)
    PROVE  ToSet(s \o t) = ToSet(s) \cup ToSet(t)
<1>1. /\ s \o t \in Seq(S)
      /\ Len(s \o t) = Len(s) + Len(t)
      /\ \A i \in 1..Len(s) + Len(t) :
             (s \o t)[i] = IF i <= Len(s) THEN s[i] ELSE t[i - Len(s)]
  BY ConcatProperties
<1>2. /\ Len(s) \in Nat /\ DOMAIN s = 1..Len(s)
      /\ Len(t) \in Nat /\ DOMAIN t = 1..Len(t)
      /\ DOMAIN (s \o t) = 1..Len(s) + Len(t)
  BY <1>1, LenProperties
<1>3. ASSUME NEW i \in DOMAIN s
      PROVE  s[i] \in ToSet(s \o t)
  <2>1. i \in 1..Len(s) + Len(t) /\ (s \o t)[i] = s[i]
    BY <1>1, <1>2
  <2>2. QED
    BY <1>2, <2>1 DEF ToSet
<1>4. ASSUME NEW i \in DOMAIN t
      PROVE  t[i] \in ToSet(s \o t)
  <2>1. /\ Len(s) + i \in 1..Len(s) + Len(t)
        /\ ~(Len(s) + i <= Len(s))
        /\ (Len(s) + i) - Len(s) = i
    BY <1>2
  <2>2. (s \o t)[Len(s) + i] = t[i]
    BY <1>1, <2>1
  <2>3. QED
    BY <1>2, <2>1, <2>2 DEF ToSet
<1>5. ASSUME NEW i \in 1..Len(s) + Len(t)
      PROVE  (s \o t)[i] \in ToSet(s) \cup ToSet(t)
  <2>1. CASE i <= Len(s)
    <3>1. i \in DOMAIN s /\ (s \o t)[i] = s[i]
      BY <1>1, <1>2, <2>1
    <3>2. QED
      BY <3>1 DEF ToSet
  <2>2. CASE ~(i <= Len(s))
    <3>1. i - Len(s) \in DOMAIN t /\ (s \o t)[i] = t[i - Len(s)]
      BY <1>1, <1>2, <2>2
    <3>2. QED
      BY <3>1 DEF ToSet
  <2>3. QED
    BY <2>1, <2>2
<1>6. ToSet(s) \subseteq ToSet(s \o t) /\ ToSet(t) \subseteq ToSet(s \o t)
  BY <1>3, <1>4 DEF ToSet
<1>7. ToSet(s \o t) \subseteq ToSet(s) \cup ToSet(t)
  BY <1>2, <1>5 DEF ToSet
<1>8. QED
  BY <1>6, <1>7

\* The elements of a sequence.
LEMMA ElementsOfSeq ==
    ASSUME NEW S, NEW s \in Seq(S)
    PROVE  /\ ToSet(s) \subseteq S
           /\ s # <<>> => Last(s) \in ToSet(s) /\ Head(s) \in ToSet(s)
<1>1. Len(s) \in Nat /\ DOMAIN s = 1..Len(s) /\ \A i \in 1..Len(s) : s[i] \in S
  BY LenProperties, ElementOfSeq
<1>2. s # <<>> => 1 \in DOMAIN s /\ Len(s) \in DOMAIN s
  BY <1>1, EmptySeq
<1>3. s # <<>> => Head(s) = s[1]
  OBVIOUS
<1>4. QED
  BY <1>1, <1>2, <1>3 DEF ToSet, Last

\* The end of a concatenation is the end of its second part.
LEMMA LastOfConcat ==
    ASSUME NEW S, NEW s \in Seq(S), NEW t \in Seq(S), t # <<>>
    PROVE  s \o t # <<>> /\ Last(s \o t) = Last(t)
<1>1. Len(s) \in Nat /\ Len(t) \in Nat \ {0}
  BY LenProperties, EmptySeq
<1>2. /\ Len(s \o t) = Len(s) + Len(t)
      /\ \A i \in 1..Len(s) + Len(t) :
             (s \o t)[i] = IF i <= Len(s) THEN s[i] ELSE t[i - Len(s)]
  BY ConcatProperties
<1>3. /\ Len(s) + Len(t) \in 1..Len(s) + Len(t)
      /\ ~(Len(s) + Len(t) <= Len(s))
      /\ (Len(s) + Len(t)) - Len(s) = Len(t)
  BY <1>1
<1>4. (s \o t)[Len(s) + Len(t)] = t[Len(t)]
  BY <1>2, <1>3
<1>5. s \o t # <<>>
  BY ConcatEqualIffEmpty
<1>6. QED
  BY <1>2, <1>4, <1>5 DEF Last

\* An element that goes from the head of one part to the end of the other.
LEMMA HeadMoves ==
    ASSUME NEW S, NEW s \in Seq(S), NEW t \in Seq(S), t # <<>>
    PROVE  /\ Append(s, Head(t)) \in Seq(S)
           /\ Tail(t) \in Seq(S)
           /\ Append(s, Head(t)) \o Tail(t) = s \o t
           /\ ToSet(Append(s, Head(t))) = ToSet(s) \cup {Head(t)}
           /\ {Head(t)} \cup ToSet(Tail(t)) = ToSet(t)
<1> DEFINE one == <<Head(t)>>
<1>1. Head(t) \in S /\ Tail(t) \in Seq(S)
  BY HeadTailProperties
<1>2. Append(s, Head(t)) \in Seq(S) /\ Append(s, Head(t)) = s \o one
  BY <1>1, AppendProperties, AppendIsConcat
<1>3. one \in Seq(S) /\ ToSet(one) = {Head(t)}
  BY <1>1 DEF ToSet
<1> HIDE DEF one
<1>4. \A u, v \in Seq(S) :
          /\ u \o v \in Seq(S)
          /\ Len(u \o v) = Len(u) + Len(v)
          /\ \A i \in 1..Len(u) + Len(v) :
                 (u \o v)[i] = IF i <= Len(u) THEN u[i] ELSE v[i - Len(u)]
          /\ ToSet(u \o v) = ToSet(u) \cup ToSet(v)
  BY ConcatProperties, ConcatElements
<1>5. \A u, v, w \in Seq(S) : (u \o v) \o w = u \o (v \o w)
  BY ConcatAssociative
<1>6. one \o Tail(t) = t
  <2>1. Len(one) = 1 /\ one[1] = t[1]
    BY DEF one
  <2>2. Len(t) \in Nat \ {0} /\ Len(Tail(t)) = Len(t) - 1
        /\ \A i \in 1..Len(Tail(t)) : Tail(t)[i] = t[i + 1]
    BY HeadTailProperties, EmptySeq
  <2>3. /\ one \o Tail(t) \in Seq(S)
        /\ Len(one \o Tail(t)) = 1 + Len(Tail(t))
        /\ \A i \in 1..1 + Len(Tail(t)) :
               (one \o Tail(t))[i] = IF i <= 1 THEN one[i] ELSE Tail(t)[i - 1]
    <3>1. /\ one \o Tail(t) \in Seq(S)
          /\ Len(one \o Tail(t)) = Len(one) + Len(Tail(t))
          /\ \A i \in 1..Len(one) + Len(Tail(t)) :
                 (one \o Tail(t))[i] = IF i <= Len(one) THEN one[i] ELSE Tail(t)[i - Len(one)]
      BY <1>1, <1>3, <1>4, Zenon
    <3>2. QED
      BY <2>1, <3>1, Zenon
  <2>4. 1 + Len(Tail(t)) = Len(t)
    BY <2>2
  <2>5. ASSUME NEW i \in 1..Len(t)
        PROVE  (one \o Tail(t))[i] = t[i]
    <3>1. CASE i = 1
      BY <2>1, <2>3, <2>4, <3>1
    <3>2. CASE i # 1
      <4>1. ~(i <= 1) /\ i - 1 \in 1..Len(Tail(t)) /\ (i - 1) + 1 = i
        BY <2>2, <3>2
      <4>2. (one \o Tail(t))[i] = Tail(t)[i - 1]
        BY <2>3, <2>4, <4>1
      <4>3. Tail(t)[i - 1] = t[i]
        BY <2>2, <4>1
      <4>4. QED
        BY <4>2, <4>3
    <3>3. QED
      BY <3>1, <3>2
  <2>6. QED
    BY <2>3, <2>4, <2>5, SeqEqual
<1>7. Append(s, Head(t)) \o Tail(t) = s \o (one \o Tail(t))
  <2>1. (s \o one) \o Tail(t) = s \o (one \o Tail(t))
    BY <1>1, <1>3, <1>5, Zenon
  <2>2. QED
    BY <1>2, <2>1, Zenon
<1>8. ToSet(Append(s, Head(t))) = ToSet(s) \cup {Head(t)}
  BY <1>2, <1>3, <1>4, Zenon
<1>9. {Head(t)} \cup ToSet(Tail(t)) = ToSet(t)
  BY <1>1, <1>3, <1>4, <1>6, Zenon
<1>10. QED
  BY <1>1, <1>2, <1>6, <1>7, <1>8, <1>9

\* A concatenation rises if both parts do and the second is above the first.
LEMMA RisingConcat ==
    ASSUME NEW S, S \subseteq Nat, NEW s \in Seq(S), NEW t \in Seq(S)
    PROVE  Rising(s \o t) <=> /\ Rising(s) /\ Rising(t)
                              /\ \A e \in ToSet(s), f \in ToSet(t) : e < f
<1>1. /\ Len(s) \in Nat /\ DOMAIN s = 1..Len(s)
      /\ Len(t) \in Nat /\ DOMAIN t = 1..Len(t)
      /\ DOMAIN (s \o t) = 1..Len(s) + Len(t)
  BY LenProperties, ConcatProperties
<1>2. \A i \in DOMAIN s : i \in 1..Len(s) + Len(t) /\ (s \o t)[i] = s[i]
  BY <1>1, ConcatProperties
<1>3. \A i \in DOMAIN t :
          Len(s) + i \in 1..Len(s) + Len(t) /\ (s \o t)[Len(s) + i] = t[i]
  <2> SUFFICES ASSUME NEW i \in DOMAIN t
               PROVE  /\ Len(s) + i \in 1..Len(s) + Len(t)
                      /\ (s \o t)[Len(s) + i] = t[i]
    OBVIOUS
  <2>1. /\ Len(s) + i \in 1..Len(s) + Len(t)
        /\ ~(Len(s) + i <= Len(s))
        /\ (Len(s) + i) - Len(s) = i
    BY <1>1
  <2>2. QED
    BY <2>1, ConcatProperties
<1>4. \A i \in 1..Len(s) + Len(t) :
          i \in DOMAIN s \/ \E j \in DOMAIN t : i = Len(s) + j
  <2> SUFFICES ASSUME NEW i \in 1..Len(s) + Len(t), i \notin DOMAIN s
               PROVE  \E j \in DOMAIN t : i = Len(s) + j
    OBVIOUS
  <2>1. i - Len(s) \in DOMAIN t /\ i = Len(s) + (i - Len(s))
    BY <1>1
  <2>2. QED
    BY <2>1
<1>5. ASSUME Rising(s \o t)
      PROVE  /\ Rising(s) /\ Rising(t)
             /\ \A e \in ToSet(s), f \in ToSet(t) : e < f
  <2>1. Rising(s)
    BY <1>1, <1>2, <1>5 DEF Rising
  <2>2. ASSUME NEW i \in DOMAIN t, NEW j \in DOMAIN t, i < j
        PROVE  t[i] < t[j]
    <3>1. Len(s) + i < Len(s) + j
      BY <1>1, <2>2
    <3>2. QED
      BY <1>1, <1>3, <1>5, <3>1 DEF Rising
  <2>3. ASSUME NEW i \in DOMAIN s, NEW j \in DOMAIN t
        PROVE  s[i] < t[j]
    <3>1. i < Len(s) + j
      BY <1>1
    <3>2. QED
      BY <1>1, <1>2, <1>3, <1>5, <3>1 DEF Rising
  <2>4. QED
    BY <2>1, <2>2, <2>3 DEF Rising, ToSet
<1>6. ASSUME Rising(s), Rising(t), \A e \in ToSet(s), f \in ToSet(t) : e < f
      PROVE  Rising(s \o t)
  <2> SUFFICES ASSUME NEW i \in 1..Len(s) + Len(t), NEW j \in 1..Len(s) + Len(t), i < j
               PROVE  (s \o t)[i] < (s \o t)[j]
    BY <1>1 DEF Rising
  <2>1. CASE i \in DOMAIN s /\ j \in DOMAIN s
    BY <1>2, <1>6, <2>1 DEF Rising
  <2>2. CASE i \in DOMAIN s /\ j \notin DOMAIN s
    <3>1. PICK l \in DOMAIN t : j = Len(s) + l
      BY <1>4, <2>2
    <3>2. s[i] \in ToSet(s) /\ t[l] \in ToSet(t)
      BY <2>2 DEF ToSet
    <3>3. QED
      BY <1>2, <1>3, <1>6, <2>2, <3>1, <3>2
  <2>3. CASE i \notin DOMAIN s
    <3>1. PICK k \in DOMAIN t : i = Len(s) + k
      BY <1>4, <2>3
    <3>2. j \notin DOMAIN s
      BY <1>1, <2>3
    <3>3. PICK l \in DOMAIN t : j = Len(s) + l
      BY <1>4, <3>2
    <3>4. k < l
      BY <1>1, <3>1, <3>3
    <3>5. t[k] < t[l]
      BY <1>6, <3>4 DEF Rising
    <3>6. QED
      BY <1>3, <3>1, <3>3, <3>5
  <2>4. QED
    BY <2>1, <2>2, <2>3
<1>7. QED
  BY <1>5, <1>6

\* A rising sequence ends with its greatest element.
LEMMA LastGreatest ==
    ASSUME NEW S, S \subseteq Nat, NEW s \in Seq(S), Rising(s)
    PROVE  \A e \in ToSet(s) : e <= Last(s)
<1>1. Len(s) \in Nat /\ DOMAIN s = 1..Len(s) /\ \A i \in 1..Len(s) : s[i] \in Nat
  BY LenProperties, ElementOfSeq
<1>2. ASSUME NEW i \in DOMAIN s
      PROVE  s[i] <= s[Len(s)]
  <2>1. Len(s) \in DOMAIN s /\ (i < Len(s) \/ i = Len(s))
    BY <1>1
  <2>2. i < Len(s) => s[i] < s[Len(s)]
    BY <2>1 DEF Rising
  <2>3. QED
    BY <1>1, <2>1, <2>2
<1>3. QED
  BY <1>2 DEF ToSet, Last

-----------------------------------------------------------------------------
(***************************************************************************)
(* The inductive invariant                                                 *)
(***************************************************************************)

\* What a client has of its present row of events and what is under way to it.
Path(c) == got[c] \o flight[c]

Durable == {e \in Events : row[e] \in {"committed", "expired"}}

\* The table, and the cursors of its readers; the sequence never reuses a number.
StreamTypes ==
    /\ last \in 0..MaxRows
    /\ row \in [Events -> {"absent", "open", "committed", "expired", "undone"}]
    /\ \A e \in Events : row[e] = "absent" <=> e > last
    /\ after \in [Clients -> 0..MaxRows]
    /\ flight \in [Clients -> Seq(Events)]
    /\ got \in [Clients -> Seq(Events)]
    /\ seen \in [Clients -> SUBSET Events]
    /\ late \in [Clients -> SUBSET Events]
    /\ drops \in 0..MaxDrops

\* What a client received continues with what is under way, in order.
PathRises == \A c \in Clients : Rising(Path(c))

\* The cursor stands at the last event sent to the client.
CursorAtEnd ==
    \A c \in Clients : after[c] = IF Path(c) = <<>> THEN 0 ELSE Last(Path(c))

\* Nobody is told of an event before its transaction commits, nor of one that is
\* rolled back.
NothingUndone ==
    \A c \in Clients :
        /\ ToSet(got[c]) \subseteq seen[c]
        /\ seen[c] \cup ToSet(flight[c]) \subseteq Durable

IInv == StreamTypes /\ PathRises /\ CursorAtEnd /\ NothingUndone /\ SkipsExplained

\* Numbers are numbers.
LEMMA EventsAreNumbers ==
    /\ Events \subseteq Nat /\ IsFiniteSet(Events)
    /\ MaxRows \in Nat /\ MaxDrops \in Nat
    /\ 0 \notin Events /\ \A e \in Events : e \in 0..MaxRows
<1>1. MaxRows \in Nat /\ MaxDrops \in Nat
  BY ConstantsAssumption
<1>2. IsFiniteSet(Events)
  BY <1>1, FS_Interval DEF Events
<1>3. QED
  BY <1>1, <1>2 DEF Events

\* The cursor is at or beyond everything sent, and it stands at something sent.
LEMMA CursorBounds ==
    ASSUME StreamTypes, PathRises, CursorAtEnd, NEW c \in Clients
    PROVE  /\ ToSet(Path(c)) = ToSet(got[c]) \cup ToSet(flight[c])
           /\ \A e \in ToSet(Path(c)) : e \in Events /\ e <= after[c]
           /\ after[c] # 0 => after[c] \in ToSet(Path(c))
<1>1. got[c] \in Seq(Events) /\ flight[c] \in Seq(Events)
  BY DEF StreamTypes
<1>2. Path(c) \in Seq(Events) /\ ToSet(Path(c)) = ToSet(got[c]) \cup ToSet(flight[c])
  BY <1>1, ConcatProperties, ConcatElements DEF Path
<1>3. Rising(Path(c)) /\ after[c] = IF Path(c) = <<>> THEN 0 ELSE Last(Path(c))
  BY DEF PathRises, CursorAtEnd
<1> DEFINE path == Path(c)
<1>4. path = <<>> => ToSet(path) = {}
  BY DEF ToSet
<1> HIDE DEF path
<1>5. ToSet(path) \subseteq Events /\ (path # <<>> => Last(path) \in ToSet(path))
  BY <1>2, ElementsOfSeq DEF path
<1>6. \A e \in ToSet(path) : e <= Last(path)
  BY <1>2, <1>3, LastGreatest, EventsAreNumbers DEF path
<1>7. QED
  BY <1>2, <1>3, <1>4, <1>5, <1>6 DEF path

\* A poll returns the committed rows next behind the cursor, in order and without
\* leaving one out.
LEMMA PollReturns ==
    ASSUME NEW n \in Nat
    PROVE  /\ RecentEvents(n) \in Seq(Events)
           /\ Rising(RecentEvents(n))
           /\ \A e \in ToSet(RecentEvents(n)) : e > n /\ row[e] = "committed"
           /\ \A e \in Visible(n) :
                  RecentEvents(n) # <<>> /\ e <= Last(RecentEvents(n))
                      => e \in ToSet(RecentEvents(n))
<1> DEFINE first == FirstVisible(n)
           recent == RecentEvents(n)
<1>1. first \subseteq Visible(n) /\ Visible(n) \subseteq Events
  BY DEF FirstVisible, Visible
<1>2. first \subseteq Nat /\ IsFiniteSet(first) /\ IsFiniteSet(Visible(n))
  BY <1>1, FS_Subset, EventsAreNumbers
<1> HIDE DEF first
<1>3. recent \in Seq(first) /\ Rising(recent) /\ ToSet(recent) = first
  BY <1>2, InNumberOrderRises DEF RecentEvents, first
<1>4. recent \in Seq(Events)
  BY <1>1, <1>3, SeqMonotonic
<1>5. \A e \in ToSet(recent) : e > n /\ row[e] = "committed"
  BY <1>1, <1>3 DEF Visible
<1> HIDE DEF recent
<1>6. ASSUME NEW e \in Visible(n), recent # <<>>, e <= Last(recent)
      PROVE  e \in ToSet(recent)
  <2> DEFINE l == Last(recent)
             Before(x) == {f \in Visible(n) : f < x}
  <2>1. l \in first
    BY <1>3, <1>6, ElementsOfSeq
  <2>2. l \in Nat /\ e \in Nat /\ e <= l /\ Visible(n) \subseteq Nat
    BY <1>1, <1>2, <1>6, <2>1, EventsAreNumbers
  <2>3. Before(e) \subseteq Before(l)
    BY <2>2
  <2>4. IsFiniteSet(Before(l)) /\ IsFiniteSet(Before(e))
    BY <1>2, FS_Subset
  <2>5. Cardinality(Before(e)) <= Cardinality(Before(l))
    BY <2>3, <2>4, FS_Subset
  <2>6. Cardinality(Before(e)) \in Nat /\ Cardinality(Before(l)) \in Nat
    BY <2>4, FS_CardinalityType
  <2>7. Cardinality(Before(l)) < Limit
    BY <2>1 DEF first, FirstVisible
  <2>8. Limit \in Nat
    BY ConstantsAssumption
  <2> HIDE DEF Before
  <2>9. Cardinality(Before(e)) < Limit
    BY <2>5, <2>6, <2>7, <2>8
  <2>10. e \in first
    BY <2>9 DEF first, FirstVisible, Before
  <2>11. QED
    BY <1>3, <2>10
<1>7. QED
  BY <1>3, <1>4, <1>5, <1>6 DEF recent

\* The table is empty and nobody has been told anything.
LEMMA InitIInv == Init => IInv
<1> SUFFICES ASSUME Init
             PROVE  IInv
  OBVIOUS
<1>1. <<>> \in Seq(Events) /\ ToSet(<<>>) = {} /\ <<>> \o <<>> = <<>>
  BY EmptySeq, ConcatEmptySeq DEF ToSet
<1>2. StreamTypes
  <2>1. \A e \in Events : e > 0
    BY EventsAreNumbers
  <2>2. 0 \in 0..MaxRows /\ 0 \in 0..MaxDrops
    BY EventsAreNumbers
  <2>3. QED
    BY <1>1, <2>1, <2>2 DEF Init, StreamTypes
<1>3. \A c \in Clients : Path(c) = <<>> /\ got[c] = <<>> /\ flight[c] = <<>>
                            /\ after[c] = 0 /\ seen[c] = {}
  BY <1>1 DEF Init, Path
<1>4. PathRises
  BY <1>3 DEF PathRises, Rising
<1>5. CursorAtEnd
  BY <1>3 DEF CursorAtEnd
<1>6. NothingUndone
  BY <1>1, <1>3 DEF NothingUndone
<1>7. SkipsExplained
  BY DEF Init, SkipsExplained, Skipped
<1>8. QED
  BY <1>2, <1>4, <1>5, <1>6, <1>7 DEF IInv

-----------------------------------------------------------------------------
(***************************************************************************)
(* The steps                                                               *)
(***************************************************************************)

\* A step that leaves the cursors and the clients alone keeps what is said of them.
LEMMA ClientsAlone ==
    ASSUME PathRises, CursorAtEnd, UNCHANGED clientVars
    PROVE  PathRises' /\ CursorAtEnd' /\ \A c \in Clients : Path(c)' = Path(c)
<1>1. after' = after /\ flight' = flight /\ got' = got /\ seen' = seen
  BY DEF clientVars
<1>2. \A c \in Clients : Path(c)' = Path(c)
  BY <1>1 DEF Path
<1>3. PathRises' /\ CursorAtEnd'
  BY <1>1, <1>2 DEF PathRises, CursorAtEnd
<1>4. QED
  BY <1>2, <1>3

\* Insert uses a number for the first time.
LEMMA InsertStep == IInv /\ Insert => IInv'
<1> SUFFICES ASSUME IInv, Insert
             PROVE  IInv'
  OBVIOUS
<1> USE DEF IInv
<1>1. /\ last < MaxRows /\ last' = last + 1
      /\ row' = [row EXCEPT ![last + 1] = "open"]
      /\ UNCHANGED clientVars /\ UNCHANGED <<late, drops>>
      /\ after' = after /\ flight' = flight /\ got' = got /\ seen' = seen
  BY DEF Insert, clientVars
<1>2. last + 1 \in Events /\ row[last + 1] = "absent"
  BY <1>1, EventsAreNumbers DEF StreamTypes, Events
<1>3. StreamTypes'
  <2>1. last' \in 0..MaxRows
    BY <1>1, EventsAreNumbers DEF StreamTypes
  <2>2. \A e \in Events : row'[e] = "absent" <=> e > last'
    <3> SUFFICES ASSUME NEW e \in Events
                 PROVE  row'[e] = "absent" <=> e > last'
      OBVIOUS
    <3>1. e \in Nat /\ last \in Nat
      BY EventsAreNumbers DEF StreamTypes
    <3>2. CASE e = last + 1
      BY <1>1, <3>1, <3>2 DEF StreamTypes
    <3>3. CASE e # last + 1
      BY <1>1, <3>1, <3>3 DEF StreamTypes
    <3>4. QED
      BY <3>2, <3>3
  <2>3. row' \in [Events -> {"absent", "open", "committed", "expired", "undone"}]
    BY <1>1 DEF StreamTypes
  <2>4. QED
    BY <1>1, <2>1, <2>2, <2>3 DEF StreamTypes
<1>4. PathRises' /\ CursorAtEnd'
  BY <1>1, ClientsAlone
<1>5. Durable' = Durable
  BY <1>1, <1>2 DEF Durable, StreamTypes
<1>6. NothingUndone'
  BY <1>1, <1>5 DEF NothingUndone
<1>7. \A e \in Events : row'[e] = "committed" => row[e] = "committed"
  BY <1>1, <1>2 DEF StreamTypes
<1>8. SkipsExplained'
  BY <1>1, <1>7 DEF SkipsExplained, Skipped
<1>9. QED
  BY <1>3, <1>4, <1>6, <1>8

\* The row that commits is not one a cursor stands at, so every cursor that has passed
\* it is strictly beyond it, and the row is late there.
LEMMA CommitStep == \A e \in Events : IInv /\ Commit(e) => IInv'
<1> SUFFICES ASSUME NEW e \in Events, IInv, Commit(e)
             PROVE  IInv'
  OBVIOUS
<1> USE DEF IInv
<1>1. /\ row[e] = "open" /\ row' = [row EXCEPT ![e] = "committed"]
      /\ late' = [c \in Clients |-> IF after[c] > e THEN late[c] \cup {e} ELSE late[c]]
      /\ last' = last /\ UNCHANGED clientVars /\ drops' = drops
      /\ after' = after /\ flight' = flight /\ got' = got /\ seen' = seen
  BY DEF Commit, clientVars
<1>2. StreamTypes'
  BY <1>1 DEF StreamTypes
<1>3. PathRises' /\ CursorAtEnd'
  BY <1>1, ClientsAlone
<1>4. Durable \subseteq Durable' /\ e \notin Durable
  BY <1>1 DEF Durable, StreamTypes
<1>5. NothingUndone'
  BY <1>1, <1>4 DEF NothingUndone
<1>6. ASSUME NEW c \in Clients, NEW f \in Skipped(c)'
      PROVE  f \in late'[c]
  <2>1. /\ f \in Events /\ row'[f] = "committed" /\ f <= after[c]
        /\ f \notin seen[c] \cup ToSet(flight[c])
    BY <1>1, <1>6 DEF Skipped
  <2>2. CASE f = e
    <3>1. after[c] \in Nat /\ e \in Nat /\ e # 0
      BY EventsAreNumbers DEF StreamTypes
    <3>2. after[c] # e
      <4> SUFFICES ASSUME after[c] = e
                   PROVE  FALSE
        OBVIOUS
      <4>1. e \in ToSet(got[c]) \cup ToSet(flight[c])
        BY <3>1, CursorBounds
      <4>2. e \in Durable
        BY <4>1 DEF NothingUndone
      <4>3. QED
        BY <1>4, <4>2
    <3>3. after[c] > e
      BY <2>1, <2>2, <3>1, <3>2
    <3>4. QED
      BY <1>1, <2>2, <3>3
  <2>3. CASE f # e
    <3>1. row[f] = "committed"
      BY <1>1, <2>1, <2>3 DEF StreamTypes
    <3>2. f \in late[c]
      BY <2>1, <3>1 DEF SkipsExplained, Skipped
    <3>3. QED
      BY <1>1, <3>2
  <2>4. QED
    BY <2>2, <2>3
<1>7. SkipsExplained'
  BY <1>6 DEF SkipsExplained
<1>8. QED
  BY <1>2, <1>3, <1>5, <1>7

\* What a rollback undoes has been sent to nobody.
LEMMA RollbackStep == \A e \in Events : IInv /\ Rollback(e) => IInv'
<1> SUFFICES ASSUME NEW e \in Events, IInv, Rollback(e)
             PROVE  IInv'
  OBVIOUS
<1> USE DEF IInv
<1>1. /\ row[e] = "open" /\ row' = [row EXCEPT ![e] = "undone"]
      /\ last' = last /\ UNCHANGED clientVars /\ drops' = drops /\ late' = late
      /\ after' = after /\ flight' = flight /\ got' = got /\ seen' = seen
  BY DEF Rollback, clientVars
<1>2. StreamTypes'
  BY <1>1 DEF StreamTypes
<1>3. PathRises' /\ CursorAtEnd'
  BY <1>1, ClientsAlone
<1>4. Durable \subseteq Durable'
  BY <1>1 DEF Durable, StreamTypes
<1>5. NothingUndone'
  BY <1>1, <1>4 DEF NothingUndone
<1>6. \A f \in Events : row'[f] = "committed" => row[f] = "committed"
  BY <1>1 DEF StreamTypes
<1>7. SkipsExplained'
  BY <1>1, <1>6 DEF SkipsExplained, Skipped
<1>8. QED
  BY <1>2, <1>3, <1>5, <1>7

\* A row that gets old was committed.
LEMMA ExpireStep == \A e \in Events : IInv /\ Expire(e) => IInv'
<1> SUFFICES ASSUME NEW e \in Events, IInv, Expire(e)
             PROVE  IInv'
  OBVIOUS
<1> USE DEF IInv
<1>1. /\ row[e] = "committed" /\ row' = [row EXCEPT ![e] = "expired"]
      /\ last' = last /\ UNCHANGED clientVars /\ drops' = drops /\ late' = late
      /\ after' = after /\ flight' = flight /\ got' = got /\ seen' = seen
  BY DEF Expire, clientVars
<1>2. StreamTypes'
  BY <1>1 DEF StreamTypes
<1>3. PathRises' /\ CursorAtEnd'
  BY <1>1, ClientsAlone
<1>4. Durable \subseteq Durable'
  BY <1>1 DEF Durable, StreamTypes
<1>5. NothingUndone'
  BY <1>1, <1>4 DEF NothingUndone
<1>6. \A f \in Events : row'[f] = "committed" => row[f] = "committed"
  BY <1>1 DEF StreamTypes
<1>7. SkipsExplained'
  BY <1>1, <1>6 DEF SkipsExplained, Skipped
<1>8. QED
  BY <1>2, <1>3, <1>5, <1>7

\* What is to be shown of a step of one client.
ClientInv(c) ==
    /\ Rising(Path(c))
    /\ after[c] = IF Path(c) = <<>> THEN 0 ELSE Last(Path(c))
    /\ ToSet(got[c]) \subseteq seen[c] /\ seen[c] \cup ToSet(flight[c]) \subseteq Durable
    /\ Skipped(c) \subseteq late[c]

\* The invariant is one of the table and of each client.
LEMMA IInvOfClients == IInv <=> StreamTypes /\ \A c \in Clients : ClientInv(c)
BY DEF IInv, PathRises, CursorAtEnd, NothingUndone, SkipsExplained, ClientInv

\* A step of one client concerns nobody else.
LEMMA OthersAlone ==
    ASSUME IInv, UNCHANGED <<row, late>>, StreamTypes', NEW c \in Clients, ClientInv(c)',
           \A d \in Clients \ {c} : /\ after'[d] = after[d] /\ flight'[d] = flight[d]
                                    /\ got'[d] = got[d] /\ seen'[d] = seen[d]
    PROVE  IInv'
<1>1. ASSUME NEW d \in Clients \ {c}
      PROVE  ClientInv(d)'
  <2>1. ClientInv(d)
    BY IInvOfClients
  <2>2. /\ after'[d] = after[d] /\ flight'[d] = flight[d] /\ got'[d] = got[d]
        /\ seen'[d] = seen[d] /\ row' = row /\ late' = late
    BY <1>1
  <2>3. Path(d)' = Path(d) /\ Durable' = Durable /\ Skipped(d)' = Skipped(d)
    BY <2>2 DEF Path, Durable, Skipped
  <2>4. QED
    BY <2>1, <2>2, <2>3 DEF ClientInv
<1>2. \A d \in Clients : ClientInv(d)'
  BY <1>1
<1>3. QED
  BY <1>2 DEF IInv, PathRises, CursorAtEnd, NothingUndone, SkipsExplained, ClientInv

\* A poll goes on where the cursor stands and leaves no committed row out.
LEMMA PollStep == \A c \in Clients : IInv /\ Poll(c) => IInv'
<1> SUFFICES ASSUME NEW c \in Clients, IInv, Poll(c)
             PROVE  IInv'
  OBVIOUS
<1> DEFINE recent == RecentEvents(after[c])
<1>1. /\ StreamTypes /\ ClientInv(c) /\ PathRises /\ CursorAtEnd
      /\ got[c] \in Seq(Events) /\ flight[c] \in Seq(Events) /\ after[c] \in Nat
  BY IInvOfClients DEF IInv, StreamTypes
<1>2. /\ recent # <<>>
      /\ flight' = [flight EXCEPT ![c] = @ \o recent]
      /\ after' = [after EXCEPT ![c] = Last(recent)]
      /\ row' = row /\ last' = last /\ got' = got /\ seen' = seen /\ late' = late
      /\ drops' = drops
  BY DEF Poll, tableVars
<1>3. /\ recent \in Seq(Events) /\ Rising(recent)
      /\ \A e \in ToSet(recent) : e > after[c] /\ row[e] = "committed"
      /\ \A e \in Visible(after[c]) : e <= Last(recent) => e \in ToSet(recent)
  BY <1>1, <1>2, PollReturns
<1> HIDE DEF recent
<1>4. /\ ToSet(recent) \subseteq Events /\ Last(recent) \in ToSet(recent)
      /\ flight[c] \o recent \in Seq(Events)
      /\ ToSet(flight[c] \o recent) = ToSet(flight[c]) \cup ToSet(recent)
  BY <1>1, <1>2, <1>3, ElementsOfSeq, ConcatProperties, ConcatElements
<1>5. /\ flight'[c] = flight[c] \o recent /\ after'[c] = Last(recent)
      /\ got'[c] = got[c] /\ seen'[c] = seen[c]
  BY <1>1, <1>2 DEF StreamTypes
<1>6. StreamTypes'
  BY <1>1, <1>2, <1>4, EventsAreNumbers DEF StreamTypes
<1>7. Path(c)' = Path(c) \o recent
  <2>1. \A u, v, w \in Seq(Events) : (u \o v) \o w = u \o (v \o w)
    BY ConcatAssociative
  <2>2. (got[c] \o flight[c]) \o recent = got[c] \o (flight[c] \o recent)
    BY <1>1, <1>3, <2>1, Zenon
  <2>3. QED
    BY <1>5, <2>2 DEF Path
<1>8. Path(c) \in Seq(Events)
  BY <1>1, ConcatProperties DEF Path
<1>9. Rising(Path(c)')
  <2>1. \A e \in ToSet(Path(c)), f \in ToSet(recent) : e < f
    <3> SUFFICES ASSUME NEW e \in ToSet(Path(c)), NEW f \in ToSet(recent)
                 PROVE  e < f
      OBVIOUS
    <3>1. e \in Events /\ e <= after[c] /\ f \in Events /\ f > after[c]
      BY <1>1, <1>3, <1>4, CursorBounds
    <3>2. QED
      BY <1>1, <3>1, EventsAreNumbers
  <2>2. QED
    BY <1>1, <1>3, <1>7, <1>8, <2>1, RisingConcat, EventsAreNumbers DEF ClientInv
<1>10. after'[c] = IF Path(c)' = <<>> THEN 0 ELSE Last(Path(c)')
  BY <1>2, <1>3, <1>5, <1>7, <1>8, LastOfConcat
<1>11. ToSet(got'[c]) \subseteq seen'[c] /\ seen'[c] \cup ToSet(flight'[c]) \subseteq Durable'
  <2>1. ToSet(recent) \subseteq Durable /\ Durable' = Durable
    BY <1>2, <1>3, <1>4 DEF Durable
  <2>2. QED
    BY <1>1, <1>4, <1>5, <2>1 DEF ClientInv
<1>12. ASSUME NEW e \in Skipped(c)'
       PROVE  e \in late'[c]
  <2>1. /\ e \in Events /\ row[e] = "committed" /\ e <= Last(recent)
        /\ e \notin seen[c] /\ e \notin ToSet(flight[c]) /\ e \notin ToSet(recent)
    BY <1>2, <1>4, <1>5, <1>12 DEF Skipped
  <2>2. ~(e > after[c])
    BY <1>3, <2>1 DEF Visible
  <2>3. e <= after[c]
    BY <1>1, <2>1, <2>2, EventsAreNumbers
  <2>4. e \in Skipped(c)
    BY <2>1, <2>3 DEF Skipped
  <2>5. QED
    BY <1>1, <1>2, <2>4 DEF ClientInv
<1>13. ClientInv(c)'
  BY <1>9, <1>10, <1>11, <1>12 DEF ClientInv
<1>14. QED
  BY <1>1, <1>2, <1>6, <1>13, OthersAlone DEF StreamTypes

\* What arrives goes on from what is there.
LEMMA ReceiveStep == \A c \in Clients : IInv /\ Receive(c) => IInv'
<1> SUFFICES ASSUME NEW c \in Clients, IInv, Receive(c)
             PROVE  IInv'
  OBVIOUS
<1>1. /\ StreamTypes /\ ClientInv(c)
      /\ got[c] \in Seq(Events) /\ flight[c] \in Seq(Events) /\ seen[c] \subseteq Events
  BY IInvOfClients DEF IInv, StreamTypes
<1>2. /\ flight[c] # <<>>
      /\ flight' = [flight EXCEPT ![c] = Tail(@)]
      /\ got' = [got EXCEPT ![c] = Append(@, Head(flight[c]))]
      /\ seen' = [seen EXCEPT ![c] = @ \cup {Head(flight[c])}]
      /\ row' = row /\ last' = last /\ after' = after /\ late' = late /\ drops' = drops
  BY DEF Receive, tableVars
<1> DEFINE head == Head(flight[c])
           tail == Tail(flight[c])
           grown == Append(got[c], head)
<1>3. /\ grown \in Seq(Events) /\ tail \in Seq(Events)
      /\ grown \o tail = got[c] \o flight[c]
      /\ ToSet(grown) = ToSet(got[c]) \cup {head}
      /\ {head} \cup ToSet(tail) = ToSet(flight[c])
  <2>1. \A s, t \in Seq(Events) :
            t # <<>> => /\ Append(s, Head(t)) \in Seq(Events)
                        /\ Tail(t) \in Seq(Events)
                        /\ Append(s, Head(t)) \o Tail(t) = s \o t
                        /\ ToSet(Append(s, Head(t))) = ToSet(s) \cup {Head(t)}
                        /\ {Head(t)} \cup ToSet(Tail(t)) = ToSet(t)
    BY HeadMoves
  <2>2. QED
    BY <1>1, <1>2, <2>1, Zenon
<1>4. flight'[c] = tail /\ got'[c] = grown /\ seen'[c] = seen[c] \cup {head}
  BY <1>1, <1>2 DEF StreamTypes
<1>5. head \in Events
  BY <1>1, <1>3, ElementsOfSeq
<1> HIDE DEF grown, tail, head
<1>6. StreamTypes'
  <2>1. flight' \in [Clients -> Seq(Events)] /\ got' \in [Clients -> Seq(Events)]
    BY <1>1, <1>2, <1>3 DEF StreamTypes, grown, tail, head
  <2>2. seen' \in [Clients -> SUBSET Events]
    BY <1>1, <1>2, <1>5 DEF StreamTypes, head
  <2>3. QED
    BY <1>1, <1>2, <2>1, <2>2 DEF StreamTypes
<1>7. Path(c)' = Path(c)
  BY <1>3, <1>4 DEF Path
<1>8. Durable' = Durable /\ Skipped(c)' = Skipped(c)
  BY <1>2, <1>3, <1>4 DEF Durable, Skipped
<1>9. ClientInv(c)'
  BY <1>1, <1>2, <1>3, <1>4, <1>7, <1>8 DEF ClientInv
<1>10. QED
  BY <1>1, <1>2, <1>6, <1>9, OthersAlone DEF StreamTypes

\* Whoever resumes goes on behind the last event it got, so that what was under way to
\* it is sent again, and nothing it has; everybody else starts from the beginning.
LEMMA ReconnectStep == \A c \in Clients : IInv /\ Reconnect(c) => IInv'
<1> SUFFICES ASSUME NEW c \in Clients, IInv, Reconnect(c)
             PROVE  IInv'
  OBVIOUS
<1>1. /\ StreamTypes /\ PathRises /\ CursorAtEnd /\ ClientInv(c)
      /\ got[c] \in Seq(Events) /\ flight[c] \in Seq(Events) /\ after[c] \in Nat
  BY IInvOfClients DEF IInv, StreamTypes
<1>2. /\ drops < MaxDrops /\ drops' = drops + 1
      /\ after' = [after EXCEPT ![c] = LastEventID(c)]
      /\ flight' = [flight EXCEPT ![c] = <<>>]
      /\ got' = IF c \in Resuming THEN got ELSE [got EXCEPT ![c] = <<>>]
      /\ row' = row /\ last' = last /\ seen' = seen /\ late' = late
  BY DEF Reconnect, tableVars
<1>3. /\ flight'[c] = <<>> /\ after'[c] = LastEventID(c) /\ seen'[c] = seen[c]
      /\ got'[c] = IF c \in Resuming THEN got[c] ELSE <<>>
  BY <1>1, <1>2 DEF StreamTypes
<1>4. <<>> \in Seq(Events) /\ ToSet(<<>>) = {}
  BY EmptySeq DEF ToSet
<1>5. /\ got'[c] \in Seq(Events)
      /\ ToSet(got'[c]) \subseteq ToSet(got[c])
      /\ after'[c] = IF got'[c] = <<>> THEN 0 ELSE Last(got'[c])
  BY <1>1, <1>3, <1>4 DEF LastEventID
<1>6. Path(c)' = got'[c]
  <2>1. \A s \in Seq(Events) : s \o <<>> = s
    BY ConcatEmptySeq
  <2>2. QED
    BY <1>3, <1>5, <2>1 DEF Path
<1>7. /\ Rising(got[c]) /\ \A e \in ToSet(got[c]) : e <= Last(got[c])
      /\ \A e \in ToSet(got[c]), f \in ToSet(flight[c]) : e < f
  BY <1>1, RisingConcat, LastGreatest, EventsAreNumbers DEF ClientInv, Path
<1>8. Rising(got'[c])
  BY <1>3, <1>7 DEF Rising
<1>9. after'[c] \in 0..MaxRows /\ after'[c] <= after[c]
      /\ (after'[c] # 0 => c \in Resuming /\ after'[c] \in ToSet(got[c]))
  <2>1. CASE got'[c] = <<>>
    BY <1>1, <1>5, <2>1, EventsAreNumbers
  <2>2. CASE got'[c] # <<>>
    <3>1. c \in Resuming /\ got'[c] = got[c]
      BY <1>3, <2>2
    <3>2. after'[c] = Last(got[c]) /\ Last(got[c]) \in ToSet(got[c])
      BY <1>1, <1>5, <2>2, <3>1, ElementsOfSeq
    <3>3. Last(got[c]) \in Events /\ Last(got[c]) <= after[c]
      BY <1>1, <3>2, CursorBounds
    <3>4. QED
      BY <3>1, <3>2, <3>3, EventsAreNumbers
  <2>3. QED
    BY <2>1, <2>2
<1>10. StreamTypes'
  <2>1. drops' \in 0..MaxDrops
    BY <1>1, <1>2, EventsAreNumbers DEF StreamTypes
  <2>2. after' \in [Clients -> 0..MaxRows]
    BY <1>1, <1>2, <1>3, <1>9 DEF StreamTypes
  <2>3. flight' \in [Clients -> Seq(Events)] /\ got' \in [Clients -> Seq(Events)]
    BY <1>1, <1>2, <1>4 DEF StreamTypes
  <2>4. QED
    BY <1>1, <1>2, <2>1, <2>2, <2>3 DEF StreamTypes
<1>11. ASSUME NEW e \in Skipped(c)'
       PROVE  e \in late'[c]
  <2>1. /\ e \in Events /\ row[e] = "committed" /\ e <= after'[c] /\ e \notin seen[c]
    BY <1>2, <1>3, <1>11 DEF Skipped
  <2>2. e \in Nat /\ e # 0 /\ after'[c] \in Nat
    BY <1>9, <2>1, EventsAreNumbers
  <2>3. after'[c] \in ToSet(got[c])
    BY <1>9, <2>1, <2>2
  <2>4. e \notin ToSet(flight[c])
    <3> SUFFICES ASSUME e \in ToSet(flight[c])
                 PROVE  FALSE
      OBVIOUS
    <3>1. after'[c] < e
      BY <1>7, <2>3
    <3>2. QED
      BY <2>1, <2>2, <3>1
  <2>5. e <= after[c]
    BY <1>1, <1>9, <2>1, <2>2
  <2>6. e \in Skipped(c)
    BY <2>1, <2>4, <2>5 DEF Skipped
  <2>7. QED
    BY <1>1, <1>2, <2>6 DEF ClientInv
<1>12. Durable' = Durable
  BY <1>2 DEF Durable
<1>13. ClientInv(c)'
  <2>1. Rising(Path(c)') /\ after'[c] = IF Path(c)' = <<>> THEN 0 ELSE Last(Path(c)')
    BY <1>5, <1>6, <1>8
  <2>2. ToSet(got'[c]) \subseteq seen'[c] /\ seen'[c] \cup ToSet(flight'[c]) \subseteq Durable'
    BY <1>1, <1>3, <1>4, <1>5, <1>12 DEF ClientInv
  <2>3. QED
    BY <1>11, <2>1, <2>2 DEF ClientInv
<1>14. QED
  BY <1>1, <1>2, <1>10, <1>13, OthersAlone DEF StreamTypes

\* Every step keeps the invariant.
LEMMA NextIInv == IInv /\ [Next]_vars => IInv'
<1> SUFFICES ASSUME IInv, [Next]_vars
             PROVE  IInv'
  OBVIOUS
<1>1. CASE Insert
  BY <1>1, InsertStep
<1>2. CASE \E e \in Events : Commit(e) \/ Rollback(e) \/ Expire(e)
  BY <1>2, CommitStep, RollbackStep, ExpireStep
<1>3. CASE \E c \in Clients : Poll(c) \/ Receive(c) \/ Reconnect(c)
  BY <1>3, PollStep, ReceiveStep, ReconnectStep
<1>4. CASE UNCHANGED vars
  BY <1>4 DEF vars, IInv, StreamTypes, PathRises, CursorAtEnd, NothingUndone,
              SkipsExplained, Skipped, Path, Durable
<1>5. QED
  BY <1>1, <1>2, <1>3, <1>4 DEF Next

-----------------------------------------------------------------------------
(***************************************************************************)
(* The theorems                                                            *)
(***************************************************************************)

\* The invariant of the table and of every reader of it.
THEOREM Invariance == Spec => []IInv
<1>1. IInv /\ [Next]_vars => IInv'
  BY NextIInv
<1>2. QED
  BY InitIInv, <1>1, PTL DEF Spec

\* However rows overtake each other, a client gets them in the order of their numbers and
\* none twice (store.go:523, api.go:887-897).
THEOREM EventsInOrder == Spec => []InOrder
<1>1. IInv => InOrder
  <2> SUFFICES ASSUME IInv, NEW c \in Clients
               PROVE  Rising(got[c])
    BY DEF InOrder, Rising
  <2>1. got[c] \in Seq(Events) /\ flight[c] \in Seq(Events) /\ Rising(got[c] \o flight[c])
    BY DEF IInv, StreamTypes, PathRises, Path
  <2>2. QED
    BY <2>1, RisingConcat, EventsAreNumbers
<1>2. QED
  BY Invariance, <1>1, PTL

\* A client misses an event only if it committed after one with a greater number had been
\* sent to that client (store.go:403-416, 463-466, 523).
THEOREM OnlyLateEventsAreSkipped == Spec => []SkipsExplained
<1>1. IInv => SkipsExplained
  BY DEF IInv
<1>2. QED
  BY Invariance, <1>1, PTL

\* No client is told of an event whose transaction is open or was rolled back, and none
\* it was told of is rolled back afterwards (store.go:403-416, 521-526).
THEOREM NobodySeesTheUndone == Spec => []NothingUndone
<1>1. IInv => NothingUndone
  BY DEF IInv
<1>2. QED
  BY Invariance, <1>1, PTL

=============================================================================
