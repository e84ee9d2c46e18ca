------------------------- MODULE SlidingWindowProofs -------------------------
(***************************************************************************)
(* Lemmas about the window and the queue of SlidingWindow, for sequences   *)
(* of any length, and the principle of induction they rest on.  What a     *)
(* queue is used for is how many of its members are in a set, so that is   *)
(* what they say of filtering, appending and dropping.                     *)
(***************************************************************************)
EXTENDS SlidingWindow, FiniteSetTheorems, SequenceTheorems, WellFoundedInduction, TLAPS

\* Induction on the natural numbers, for a set.
LEMMA Induction ==
    ASSUME NEW T \in SUBSET Nat, 0 \in T, \A n \in T : n + 1 \in T
    PROVE  T = Nat
<1> DEFINE Less == {x \in Nat \X Nat : x[1] < x[2]}
<1> SUFFICES ASSUME Nat \ T # {}
             PROVE  FALSE
  OBVIOUS
<1>1. IsWellFoundedOn(Less, Nat)
  BY NatLessThanWellFounded DEF OpToRel
<1>2. PICK least \in Nat \ T : \A n \in Nat \ T : ~(<<n, least>> \in Less)
  BY <1>1, WFMin
<1>3. least - 1 \in Nat /\ least - 1 \notin T
  <2>1. least # 0
    OBVIOUS
  <2>2. least - 1 \in Nat /\ (least - 1) + 1 = least
    BY <2>1
  <2> QED
    BY <2>2
<1>4. <<least - 1, least>> \in Less
  BY <1>3
<1> QED
  BY <1>2, <1>3, <1>4

(***************************************************************************)
(* How many members of a queue of times are in a set.                      *)
(***************************************************************************)
Those(q, D) == {i \in DOMAIN q : q[i] \in D}
HowMany(q, D) == Cardinality(Those(q, D))

\* A number of members is one, grows with the set and is at most the length.
LEMMA HowManyAre ==
    ASSUME NEW q \in Seq(Int)
    PROVE  /\ \A D : IsFiniteSet(Those(q, D)) /\ HowMany(q, D) \in Nat /\ HowMany(q, D) <= Len(q)
           /\ \A D, E : Those(q, D) \subseteq Those(q, E) => HowMany(q, D) <= HowMany(q, E)
           /\ \A D : Int \subseteq D => HowMany(q, D) = Len(q)
           /\ Len(q) \in Nat /\ DOMAIN q = 1..Len(q)
<1>1. Len(q) \in Nat /\ DOMAIN q = 1..Len(q) /\ \A i \in 1..Len(q) : q[i] \in Int
  OBVIOUS
<1>2. IsFiniteSet(1..Len(q)) /\ Cardinality(1..Len(q)) = Len(q)
  <2>1. 1 \in Int /\ Len(q) \in Int
    BY <1>1
  <2>2. IsFiniteSet(1..Len(q)) /\ Cardinality(1..Len(q)) = IF 1 > Len(q) THEN 0 ELSE Len(q) - 1 + 1
    BY <2>1, FS_Interval
  <2> QED
    BY <1>1, <2>2
<1>3. \A D : Those(q, D) \subseteq 1..Len(q)
  BY <1>1 DEF Those
<1>4. \A D : IsFiniteSet(Those(q, D)) /\ HowMany(q, D) \in Nat /\ HowMany(q, D) <= Len(q)
  BY <1>2, <1>3, FS_Subset, FS_CardinalityType DEF HowMany
<1>5. \A D, E : Those(q, D) \subseteq Those(q, E) => HowMany(q, D) <= HowMany(q, E)
  BY <1>4, FS_Subset DEF HowMany
<1>6. ASSUME NEW D, Int \subseteq D
      PROVE  HowMany(q, D) = Len(q)
  <2>1. Those(q, D) = 1..Len(q)
    BY <1>1, <1>6 DEF Those
  <2> QED
    BY <1>2, <2>1 DEF HowMany
<1> QED
  BY <1>1, <1>4, <1>5, <1>6

\* An appended time is one more of the sets it is in.
LEMMA HowManyAppended ==
    ASSUME NEW q \in Seq(Int), NEW t \in Int, NEW D
    PROVE  HowMany(Append(q, t), D) = HowMany(q, D) + (IF t \in D THEN 1 ELSE 0)
<1>1. /\ Len(q) \in Nat /\ DOMAIN q = 1..Len(q) /\ DOMAIN Append(q, t) = 1..(Len(q) + 1)
      /\ \A i \in 1..Len(q) : Append(q, t)[i] = q[i]
      /\ Append(q, t)[Len(q) + 1] = t
  OBVIOUS
<1>2. IsFiniteSet(Those(q, D)) /\ HowMany(q, D) \in Nat
  BY HowManyAre
<1>3. Len(q) + 1 \notin Those(q, D)
  BY <1>1 DEF Those
<1>4. CASE t \in D
  <2>1. Those(Append(q, t), D) = Those(q, D) \cup {Len(q) + 1}
    BY <1>1, <1>4 DEF Those
  <2> QED
    BY <1>2, <1>3, <1>4, <2>1, FS_AddElement DEF HowMany
<1>5. CASE t \notin D
  <2>1. Those(Append(q, t), D) = Those(q, D)
    BY <1>1, <1>5 DEF Those
  <2> QED
    BY <1>2, <1>5, <2>1 DEF HowMany
<1> QED
  BY <1>4, <1>5

(***************************************************************************)
(* Filtering.  Recent is defined by recursion on the length.               *)
(***************************************************************************)
KeptOf(q, now, window) ==
    CHOOSE f : f = [i \in 0..Len(q) |->
                      IF i = 0 THEN << >>
                      ELSE IF Within(q[i], now, window) THEN Append(f[i - 1], q[i]) ELSE f[i - 1]]

Young(now, window) == {t \in Int : Within(t, now, window)}

\* There is such a function: each of its values comes from the one before.
LEMMA KeptExists ==
    ASSUME NEW q, Len(q) \in Nat, NEW now, NEW window
    PROVE  \A i \in 0..Len(q) : KeptOf(q, now, window)[i] =
              IF i = 0 THEN << >>
              ELSE IF Within(q[i], now, window)
                   THEN Append(KeptOf(q, now, window)[i - 1], q[i])
                   ELSE KeptOf(q, now, window)[i - 1]
<1> DEFINE Then(i, r) == IF Within(q[i], now, window) THEN Append(r, q[i]) ELSE r
           Upto(n, f) == f = [i \in 0..n |-> IF i = 0 THEN << >> ELSE Then(i, f[i - 1])]
           T == {n \in Nat : n <= Len(q) => \E f : Upto(n, f)}
<1>1. 0 \in T
  <2>1. Upto(0, [i \in 0..0 |-> << >>])
    OBVIOUS
  <2> QED
    BY <2>1
<1>2. ASSUME NEW n \in T
      PROVE  n + 1 \in T
  <2> SUFFICES ASSUME n + 1 <= Len(q)
               PROVE  \E f : Upto(n + 1, f)
    BY <1>2
  <2>1. PICK f : Upto(n, f)
    <3>1. n \in Nat /\ (n <= Len(q) => \E f : Upto(n, f))
      BY <1>2, Zenon
    <3>2. n <= Len(q)
      BY <3>1
    <3> QED
      BY <3>1, <3>2, Zenon
  <2> DEFINE g == [i \in 0..(n + 1) |-> IF i = n + 1 THEN Then(n + 1, f[n]) ELSE f[i]]
  <2> HIDE DEF Then
  <2>2. n \in Nat
    BY <1>2
  <2>3. \A i \in 0..n : f[i] = IF i = 0 THEN << >> ELSE Then(i, f[i - 1])
    BY <2>1
  <2>4. \A i \in 0..(n + 1) : g[i] = IF i = 0 THEN << >> ELSE Then(i, g[i - 1])
    <3> SUFFICES ASSUME NEW i \in 0..(n + 1)
                 PROVE  g[i] = IF i = 0 THEN << >> ELSE Then(i, g[i - 1])
      OBVIOUS
    <3>1. CASE i = n + 1
      <4>1. i # 0 /\ i - 1 = n /\ n \in 0..(n + 1) /\ n # n + 1
        BY <2>2, <3>1
      <4>2. g[i] = Then(n + 1, f[n]) /\ g[n] = f[n]
        BY <3>1, <4>1
      <4> QED
        BY <3>1, <4>1, <4>2
    <3>2. CASE i # n + 1
      <4>1. i \in 0..n /\ g[i] = f[i]
        BY <2>2, <3>2
      <4>2. i # 0 => i - 1 \in 0..(n + 1) /\ i - 1 # n + 1
        BY <2>2, <3>2
      <4>3. i # 0 => g[i - 1] = f[i - 1]
        BY <4>2
      <4> HIDE DEF g
      <4> QED
        BY <2>3, <4>1, <4>3
    <3> QED
      BY <3>1, <3>2
  <2>5. Upto(n + 1, g)
    BY <2>4
  <2> QED
    BY <2>5
<1>3. T = Nat
  <2>1. T \in SUBSET Nat
    OBVIOUS
  <2> HIDE DEF T
  <2> QED
    BY <1>1, <1>2, <2>1, Induction
<1>4. \E f : Upto(Len(q), f)
  <2>1. Len(q) \in T
    BY <1>3, Zenon
  <2> HIDE DEF Upto
  <2> QED
    BY <2>1
<1>5. Upto(Len(q), KeptOf(q, now, window))
  BY <1>4, Zenon DEF KeptOf
<1> QED
  BY <1>5

\* Filtering keeps those in the window, as often as they are there.
LEMMA RecentHolds ==
    ASSUME NEW S \in SUBSET Int, NEW q \in Seq(S), NEW now \in Int, NEW window \in Int
    PROVE  /\ Recent(q, now, window) \in Seq(S)
           /\ \A D : HowMany(Recent(q, now, window), D) = HowMany(q, D \cap Young(now, window))
<1> DEFINE Kept(i) == KeptOf(q, now, window)[i]
           First(i, D) == {j \in 1..i : q[j] \in D \cap Young(now, window)}
           Good(n) == /\ Kept(n) \in Seq(S)
                      /\ \A D : /\ IsFiniteSet(First(n, D))
                                /\ HowMany(Kept(n), D) = Cardinality(First(n, D))
           T == {n \in Nat : n <= Len(q) => Good(n)}
<1>1. Len(q) \in Nat /\ DOMAIN q = 1..Len(q) /\ \A i \in 1..Len(q) : q[i] \in S
  OBVIOUS
<1>2. \A i \in 0..Len(q) :
         Kept(i) = IF i = 0 THEN << >>
                   ELSE IF Within(q[i], now, window) THEN Append(Kept(i - 1), q[i]) ELSE Kept(i - 1)
  BY <1>1, KeptExists
<1>3. Recent(q, now, window) = Kept(Len(q))
  BY DEF Recent, KeptOf
<1> HIDE DEF Kept
<1>4. 0 \in T
  <2>1. Kept(0) = << >>
    BY <1>1, <1>2
  <2>2. \A D : First(0, D) = {} /\ Those(<< >>, D) = {}
    BY DEF Those
  <2>3. << >> \in Seq(S)
    OBVIOUS
  <2> HIDE DEF First
  <2>4. Good(0)
    BY <2>1, <2>2, <2>3, FS_EmptySet DEF HowMany
  <2> HIDE DEF Good
  <2> QED
    BY <2>4
<1>5. ASSUME NEW n \in T
      PROVE  n + 1 \in T
  <2> SUFFICES ASSUME n + 1 <= Len(q)
               PROVE  Good(n + 1)
    <3> HIDE DEF Good
    <3> QED
      BY <1>5
  <2>0. n \in Nat /\ (n <= Len(q) => Good(n))
    BY <1>5, Zenon
  <2>1. n \in Nat /\ n <= Len(q) /\ n + 1 \in 0..Len(q) /\ n + 1 # 0 /\ (n + 1) - 1 = n
    <3> HIDE DEF Good
    <3> QED
      BY <1>1, <2>0
  <2>g. Good(n)
    BY <2>0, <2>1, Zenon
  <2>2. Kept(n) \in Seq(S) /\ Kept(n) \in Seq(Int) /\ q[n + 1] \in S /\ q[n + 1] \in Int
    <3>1. Kept(n) \in Seq(S)
      BY <2>g, Zenon
    <3>2. n + 1 \in 1..Len(q)
      BY <2>1
    <3>3. q[n + 1] \in S
      BY <1>1, <3>2
    <3>4. Kept(n) \in Seq(Int)
      BY <3>1, SeqMonotonic
    <3> QED
      BY <3>1, <3>3, <3>4
  <2>3. Kept(n + 1) = IF Within(q[n + 1], now, window) THEN Append(Kept(n), q[n + 1]) ELSE Kept(n)
    BY <1>2, <2>1
  <2>4. Kept(n + 1) \in Seq(S)
    <3>1. Append(Kept(n), q[n + 1]) \in Seq(S)
      BY <2>2, AppendProperties
    <3> QED
      BY <2>2, <2>3, <3>1, Zenon
  <2>5. ASSUME NEW D
        PROVE  /\ IsFiniteSet(First(n + 1, D))
               /\ HowMany(Kept(n + 1), D) = Cardinality(First(n + 1, D))
    <3>1. IsFiniteSet(First(n, D)) /\ HowMany(Kept(n), D) = Cardinality(First(n, D))
      BY <2>g, Zenon
    <3>2. Within(q[n + 1], now, window) <=> q[n + 1] \in Young(now, window)
      BY <2>2 DEF Young
    <3>3. CASE q[n + 1] \in D \cap Young(now, window)
      <4>1. First(n + 1, D) = First(n, D) \cup {n + 1} /\ n + 1 \notin First(n, D)
        BY <2>1, <3>3
      <4>2. HowMany(Kept(n + 1), D) = HowMany(Kept(n), D) + 1
        BY <2>2, <2>3, <3>2, <3>3, HowManyAppended
      <4> HIDE DEF First
      <4> QED
        BY <3>1, <4>1, <4>2, FS_AddElement
    <3>4. CASE q[n + 1] \notin D \cap Young(now, window)
      <4>1. First(n + 1, D) = First(n, D)
        BY <2>1, <3>4
      <4>2. HowMany(Kept(n), D) \in Nat
        BY <2>2, HowManyAre
      <4>3. HowMany(Kept(n + 1), D) = HowMany(Kept(n), D)
        <5>1. CASE Within(q[n + 1], now, window)
          <6>1. q[n + 1] \notin D /\ Kept(n + 1) = Append(Kept(n), q[n + 1])
            BY <2>3, <3>2, <3>4, <5>1
          <6>2. HowMany(Append(Kept(n), q[n + 1]), D) = HowMany(Kept(n), D) + 0
            <7>1. HowMany(Append(Kept(n), q[n + 1]), D)
                   = HowMany(Kept(n), D) + (IF q[n + 1] \in D THEN 1 ELSE 0)
              BY <2>2, HowManyAppended
            <7> QED
              BY <6>1, <7>1
          <6>3. HowMany(Kept(n + 1), D) = HowMany(Append(Kept(n), q[n + 1]), D)
            BY <6>1, Zenon
          <6>4. HowMany(Kept(n), D) + 0 = HowMany(Kept(n), D)
            BY <4>2
          <6> QED
            BY <6>2, <6>3, <6>4, Zenon
        <5>2. CASE ~Within(q[n + 1], now, window)
          BY <2>3, <5>2
        <5> QED
          BY <5>1, <5>2
      <4> QED
        BY <3>1, <4>1, <4>3
    <3> QED
      BY <3>3, <3>4
  <2> QED
    BY <2>4, <2>5
<1>6. T = Nat
  <2>1. T \in SUBSET Nat
    OBVIOUS
  <2> HIDE DEF T
  <2> QED
    BY <1>4, <1>5, <2>1, Induction
<1>7. \A D : First(Len(q), D) = Those(q, D \cap Young(now, window))
  BY <1>1 DEF Those
<1>8. Kept(Len(q)) \in Seq(S) /\ \A D : HowMany(Kept(Len(q)), D) = Cardinality(First(Len(q), D))
  <2>0. Len(q) <= Len(q)
    BY <1>1
  <2>1. Len(q) \in T
    BY <1>1, <1>6, Zenon
  <2>2. Good(Len(q))
    BY <2>0, <2>1, Zenon
  <2> QED
    BY <2>2, Zenon
<1> HIDE DEF First
<1> QED
  BY <1>3, <1>7, <1>8 DEF HowMany

\* As many as are in the window are kept.
LEMMA RecentCounts ==
    ASSUME NEW q \in Seq(Int), NEW now \in Int, NEW window \in Int
    PROVE  /\ Len(Recent(q, now, window)) = HowMany(q, Young(now, window))
           /\ InWindow(q, now, window) = HowMany(q, Young(now, window))
           /\ Len(Recent(q, now, window)) <= Len(q)
<1>1. /\ Recent(q, now, window) \in Seq(Int)
      /\ HowMany(Recent(q, now, window), Int) = HowMany(q, Int \cap Young(now, window))
  <2>1. \A S \in SUBSET Int : q \in Seq(S) =>
           /\ Recent(q, now, window) \in Seq(S)
           /\ \A D : HowMany(Recent(q, now, window), D) = HowMany(q, D \cap Young(now, window))
    BY RecentHolds
  <2> QED
    BY <2>1
<1>2. Int \cap Young(now, window) = Young(now, window)
  BY DEF Young
<1>3. Len(Recent(q, now, window)) = HowMany(Recent(q, now, window), Int)
  BY <1>1, HowManyAre
<1>4. {i \in DOMAIN q : Within(q[i], now, window)} = Those(q, Young(now, window))
  BY DEF Those, Young
<1> QED
  BY <1>1, <1>2, <1>3, <1>4, HowManyAre DEF HowMany, InWindow

(***************************************************************************)
(* Queues of bounded length.                                               *)
(***************************************************************************)

\* Moving a set of numbers along does not change how many they are.
LEMMA Shifted ==
    ASSUME NEW A \in SUBSET Int, IsFiniteSet(A), NEW d \in Int
    PROVE  Cardinality({i + d : i \in A}) = Cardinality(A)
<1> DEFINE B == {i + d : i \in A}
           f == [i \in A |-> i + d]
<1>1. f \in [A -> B] /\ \A i, j \in A : f[i] = f[j] => i = j
  OBVIOUS
<1>2. f \in Injection(A, B)
  BY <1>1 DEF Injection, IsInjective
<1>3. f \in Surjection(A, B)
  BY <1>1 DEF Surjection
<1>4. f \in Bijection(A, B)
  BY <1>2, <1>3 DEF Bijection
<1>5. ExistsBijection(A, B)
  BY <1>4 DEF ExistsBijection
<1> HIDE DEF B
<1>6. Cardinality(B) = Cardinality(A)
  BY <1>5, FS_Bijection
<1> QED
  BY <1>6 DEF B

\* A queue is the end of a history: all of it, or its last members.
IsEnd(q, h, most) ==
    /\ Len(q) = Least(Len(h), most)
    /\ \A i \in 1..Len(q) : q[i] = h[Len(h) - Len(q) + i]

Ordered(h, now) ==
    /\ \A i, j \in DOMAIN h : i <= j => h[i] <= h[j]
    /\ \A i \in DOMAIN h : h[i] <= now

\* Pushing keeps a queue the end of its history.
LEMMA PushEnds ==
    ASSUME NEW S \in SUBSET Int, NEW q \in Seq(S), NEW h \in Seq(Int), NEW t \in S,
           NEW most \in Nat, IsEnd(q, h, most)
    PROVE  Push(q, t, most) \in Seq(S) /\ IsEnd(Push(q, t, most), Append(h, t), most)
<1>1. /\ Len(q) \in Nat /\ Len(h) \in Nat /\ Len(q) = Least(Len(h), most) /\ t \in Int
      /\ \A i \in 1..Len(q) : q[i] = h[Len(h) - Len(q) + i]
  <2>1. Len(q) \in Nat /\ Len(h) \in Nat /\ t \in Int
    BY LenProperties
  <2> QED
    BY <2>1, Zenon DEF IsEnd
<1>2. /\ Append(q, t) \in Seq(S) /\ Len(Append(q, t)) = Len(q) + 1
      /\ \A i \in 1..Len(q) : Append(q, t)[i] = q[i]
      /\ Append(q, t)[Len(q) + 1] = t
  BY AppendProperties
<1>3. /\ Len(Append(h, t)) = Len(h) + 1
      /\ \A i \in 1..Len(h) : Append(h, t)[i] = h[i]
      /\ Append(h, t)[Len(h) + 1] = t
  BY <1>1, AppendProperties
<1> DEFINE p == Append(q, t)
           g == Append(h, t)
<1>4. \A i \in 1..(Len(q) + 1) : p[i] = g[Len(h) - Len(q) + i]
  <2> SUFFICES ASSUME NEW i \in 1..(Len(q) + 1)
               PROVE  p[i] = g[Len(h) - Len(q) + i]
    OBVIOUS
  <2>1. CASE i = Len(q) + 1
    <3>1. Len(h) - Len(q) + i = Len(h) + 1
      BY <1>1, <2>1
    <3> QED
      BY <1>2, <1>3, <2>1, <3>1
  <2>2. CASE i # Len(q) + 1
    <3>1. i \in 1..Len(q) /\ Len(h) - Len(q) + i \in 1..Len(h)
      BY <1>1, <2>2 DEF Least
    <3> QED
      BY <1>1, <1>2, <1>3, <3>1
  <2> QED
    BY <2>1, <2>2
<1>5. CASE Len(p) > most
  <2>1. Push(q, t, most) = Tail(p) /\ Len(q) = most /\ p # << >> /\ most <= Len(h)
    <3>1. Len(q) = most /\ most <= Len(h)
      BY <1>1, <1>2, <1>5 DEF Least
    <3>2. Push(q, t, most) = Tail(p)
      BY <1>5 DEF Push
    <3>3. p # << >>
      BY <1>1, <1>2
    <3> QED
      BY <3>1, <3>2, <3>3
  <2> HIDE DEF p, g
  <2>2. /\ Tail(p) \in Seq(S) /\ Len(Tail(p)) = Len(q)
        /\ \A i \in 1..Len(q) : Tail(p)[i] = p[i + 1]
    <3>1. p \in Seq(S) /\ Len(p) = Len(q) + 1
      BY <1>2 DEF p
    <3>2. /\ Tail(p) \in Seq(S) /\ Len(Tail(p)) = Len(p) - 1
          /\ \A i \in 1..Len(Tail(p)) : Tail(p)[i] = p[i + 1]
      BY <2>1, <3>1, HeadTailProperties
    <3> QED
      BY <1>1, <3>1, <3>2
  <2>3. \A i \in 1..Len(q) : Tail(p)[i] = g[Len(g) - Len(q) + i]
    <3> SUFFICES ASSUME NEW i \in 1..Len(q)
                 PROVE  Tail(p)[i] = g[Len(g) - Len(q) + i]
      OBVIOUS
    <3>1. Tail(p)[i] = p[i + 1] /\ i + 1 \in 1..(Len(q) + 1)
      BY <1>1, <2>2
    <3>2. p[i + 1] = g[Len(h) - Len(q) + (i + 1)]
      BY <1>4, <3>1
    <3>3. Len(g) = Len(h) + 1
      BY <1>3 DEF g
    <3>4. Len(h) - Len(q) + (i + 1) = Len(g) - Len(q) + i
      BY <1>1, <3>3
    <3> QED
      BY <3>1, <3>2, <3>4
  <2>4. Len(q) = Least(Len(g), most)
    BY <1>1, <1>3, <2>1 DEF Least, g
  <2> QED
    BY <2>1, <2>2, <2>3, <2>4 DEF IsEnd, g
<1>6. CASE ~(Len(p) > most)
  <2>1. Push(q, t, most) = p
    BY <1>6 DEF Push
  <2>2. Len(q) = Len(h) /\ Len(p) = Least(Len(g), most)
    BY <1>1, <1>2, <1>3, <1>6 DEF Least
  <2>3. Len(g) - Len(p) = Len(h) - Len(q)
    BY <1>1, <1>2, <1>3, <2>2
  <2>4. \A i \in 1..Len(p) : p[i] = g[Len(g) - Len(p) + i]
    BY <1>2, <1>4, <2>3
  <2> HIDE DEF p, g
  <2> QED
    BY <1>2, <2>1, <2>2, <2>4 DEF IsEnd, p, g
<1> QED
  BY <1>5, <1>6

\* The history of a clock is ordered.
LEMMA OrderedAppended ==
    ASSUME NEW h \in Seq(Int), NEW now \in Int, Ordered(h, now)
    PROVE  Ordered(Append(h, now), now)
<1>1. /\ Len(h) \in Nat /\ DOMAIN h = 1..Len(h) /\ DOMAIN Append(h, now) = 1..(Len(h) + 1)
      /\ \A i \in 1..Len(h) : Append(h, now)[i] = h[i] /\ h[i] \in Int
      /\ Append(h, now)[Len(h) + 1] = now
  OBVIOUS
<1> DEFINE g == Append(h, now)
<1> HIDE DEF g
<1>2. \A i \in 1..(Len(h) + 1) : g[i] <= now
  BY <1>1 DEF Ordered, g
<1>3. ASSUME NEW i \in 1..(Len(h) + 1), NEW j \in 1..(Len(h) + 1), i <= j
      PROVE  g[i] <= g[j]
  <2>1. CASE j = Len(h) + 1
    BY <1>1, <1>2, <2>1 DEF g
  <2>2. CASE j # Len(h) + 1
    <3>1. i \in DOMAIN h /\ j \in DOMAIN h
      BY <1>1, <1>3, <2>2
    <3> QED
      BY <1>1, <1>3, <3>1 DEF Ordered, g
  <2> QED
    BY <2>1, <2>2
<1> QED
  BY <1>1, <1>2, <1>3 DEF Ordered, g

\* The end of an ordered history hides nothing of the window but what it has no
\* room for.
LEMMA EndCounts ==
    ASSUME NEW q \in Seq(Int), NEW h \in Seq(Int), NEW most \in Nat, NEW now \in Int,
           NEW window \in Int, NEW last \in Int, IsEnd(q, h, most), Ordered(h, last)
    PROVE  HowMany(q, Young(now, window)) = Least(HowMany(h, Young(now, window)), most)
<1> DEFINE D == Young(now, window)
           n == Len(h)
           m == Len(q)
           d == n - m
           Late == {i \in Those(h, D) : i > d}
<1>1. /\ n \in Nat /\ m \in Nat /\ d \in Nat /\ m = Least(n, most)
      /\ DOMAIN q = 1..m /\ DOMAIN h = 1..n
      /\ \A i \in 1..n : h[i] \in Int
      /\ \A i \in 1..m : q[i] = h[d + i]
  <2>1. /\ n \in Nat /\ m \in Nat /\ DOMAIN q = 1..m /\ DOMAIN h = 1..n
        /\ \A i \in 1..n : h[i] \in Int
    OBVIOUS
  <2>2. m = Least(n, most) /\ \A i \in 1..m : q[i] = h[d + i]
    BY Zenon DEF IsEnd
  <2> HIDE DEF n, m
  <2>3. d \in Nat
    BY <2>1, <2>2 DEF Least
  <2> QED
    BY <2>1, <2>2, <2>3
<1>2. /\ HowMany(q, D) \in Nat /\ HowMany(h, D) \in Nat /\ HowMany(q, D) <= m
      /\ IsFiniteSet(Those(q, D)) /\ IsFiniteSet(Those(h, D))
  BY HowManyAre
<1>3. HowMany(q, D) = Cardinality(Late)
  <2> HIDE DEF D
  <2>1. {i + d : i \in Those(q, D)} = Late
    <3>1. ASSUME NEW i \in Those(q, D)
          PROVE  i + d \in Late
      <4>1. i \in 1..m /\ q[i] \in D
        BY <1>1 DEF Those
      <4>2. i + d \in 1..n /\ i + d > d /\ d + i = i + d
        BY <1>1, <4>1
      <4> QED
        BY <1>1, <4>1, <4>2 DEF Those
    <3>2. ASSUME NEW j \in Late
          PROVE  \E i \in Those(q, D) : j = i + d
      <4>1. j \in 1..n /\ h[j] \in D /\ j > d
        BY <1>1 DEF Those
      <4>2. j - d \in 1..m /\ d + (j - d) = j /\ (j - d) + d = j
        <5>1. n \in Nat /\ m \in Nat /\ d = n - m
          BY <1>1
        <5> HIDE DEF n, m, d
        <5> QED
          BY <4>1, <5>1
      <4>3. j - d \in Those(q, D)
        BY <1>1, <4>1, <4>2 DEF Those
      <4> QED
        BY <4>2, <4>3
    <3> QED
      BY <3>1, <3>2
  <2>2. Those(q, D) \in SUBSET Int
    BY <1>1 DEF Those
  <2> HIDE DEF d, Late
  <2>3. d \in Int
    BY <1>1
  <2> QED
    BY <1>2, <2>1, <2>2, <2>3, Shifted DEF HowMany
<1>4. Late \subseteq Those(h, D) /\ HowMany(q, D) <= HowMany(h, D)
  <2>1. Late \subseteq Those(h, D)
    OBVIOUS
  <2> HIDE DEF Late
  <2> QED
    BY <1>2, <1>3, <2>1, FS_Subset DEF HowMany
<1>5. \A i, j \in 1..n : i <= j /\ h[i] \in D => h[j] \in D
  <2> SUFFICES ASSUME NEW i \in 1..n, NEW j \in 1..n, i <= j, h[i] \in D
               PROVE  h[j] \in D
    OBVIOUS
  <2>1. h[i] <= h[j] /\ h[i] \in Int /\ h[j] \in Int /\ now - h[i] < window
    BY <1>1 DEF Ordered, Young, Within
  <2> QED
    BY <2>1 DEF Young, Within
<1>6. CASE \E i \in 1..n : i <= d /\ h[i] \in D
  <2>1. \A i \in 1..m : q[i] \in D
    <3> SUFFICES ASSUME NEW i \in 1..m
                 PROVE  q[i] \in D
      OBVIOUS
    <3>1. d + i \in 1..n
      BY <1>1
    <3>2. h[d + i] \in D
      <4>1. PICK k \in 1..n : k <= d /\ h[k] \in D
        BY <1>6
      <4>2. k <= d + i
        BY <1>1, <4>1
      <4> QED
        BY <1>5, <3>1, <4>1, <4>2
    <3> QED
      BY <1>1, <3>2
  <2>2. Those(q, D) = Those(q, Int)
    BY <1>1, <2>1 DEF Those, Young
  <2>3. HowMany(q, Int) = m
    BY HowManyAre
  <2>4. HowMany(q, D) = m
    BY <2>2, <2>3 DEF HowMany
  <2>5. d > 0
    BY <1>1, <1>6
  <2>6. m = most
    <3>1. n \in Nat /\ m \in Nat /\ d = n - m /\ m = Least(n, most)
      BY <1>1
    <3> HIDE DEF n, m, d
    <3> QED
      BY <2>5, <3>1 DEF Least
  <2>7. HowMany(q, D) = most /\ HowMany(q, D) <= HowMany(h, D)
    BY <1>4, <2>4, <2>6
  <2> HIDE DEF D
  <2>8. HowMany(q, D) = Least(HowMany(h, D), most)
    BY <1>2, <2>7 DEF Least
  <2> QED
    BY <2>8 DEF D
<1>7. CASE ~ \E i \in 1..n : i <= d /\ h[i] \in D
  <2>1. Late = Those(h, D)
    BY <1>1, <1>7 DEF Those
  <2>2. HowMany(q, D) = HowMany(h, D)
    BY <1>3, <2>1 DEF HowMany
  <2>3. HowMany(q, D) <= most
    <3>1. m <= most
      BY <1>1 DEF Least
    <3> HIDE DEF D
    <3> QED
      BY <1>1, <1>2, <3>1
  <2> HIDE DEF D
  <2>4. HowMany(q, D) = Least(HowMany(h, D), most)
    BY <1>2, <2>2, <2>3 DEF Least
  <2> QED
    BY <2>4 DEF D
<1> QED
  BY <1>6, <1>7

\* What analyze counts: as many as are in the window, up to the length of the queue.
LEMMA BurstCounted ==
    ASSUME NEW S \in SUBSET Int, NEW q \in Seq(S), NEW h \in Seq(Int), NEW now \in S,
           NEW most \in Nat, NEW window \in Int, IsEnd(q, h, most), Ordered(h, now)
    PROVE  /\ Push(q, now, most) \in Seq(S)
           /\ IsEnd(Push(q, now, most), Append(h, now), most)
           /\ Append(h, now) \in Seq(Int) /\ Ordered(Append(h, now), now)
           /\ Len(Recent(Push(q, now, most), now, window))
                = Least(InWindow(Append(h, now), now, window), most)
           /\ InWindow(Append(h, now), now, window) \in Nat
<1>1. Push(q, now, most) \in Seq(S) /\ IsEnd(Push(q, now, most), Append(h, now), most)
  BY PushEnds
<1>2. Push(q, now, most) \in Seq(Int) /\ now \in Int /\ Append(h, now) \in Seq(Int)
  <2>1. now \in Int /\ Append(h, now) \in Seq(Int)
    BY AppendProperties
  <2>2. Push(q, now, most) \in Seq(Int)
    BY <1>1, SeqMonotonic
  <2> QED
    BY <2>1, <2>2
<1>3. Ordered(Append(h, now), now)
  BY <1>2, OrderedAppended
<1>4. HowMany(Push(q, now, most), Young(now, window))
        = Least(HowMany(Append(h, now), Young(now, window)), most)
  <2> DEFINE p == Push(q, now, most)
             g == Append(h, now)
  <2>1. p \in Seq(Int) /\ g \in Seq(Int) /\ IsEnd(p, g, most) /\ Ordered(g, now) /\ now \in Int
    BY <1>1, <1>2, <1>3
  <2> HIDE DEF p, g
  <2>2. HowMany(p, Young(now, window)) = Least(HowMany(g, Young(now, window)), most)
    BY <2>1, EndCounts
  <2> QED
    BY <2>2 DEF p, g
<1>5. /\ Len(Recent(Push(q, now, most), now, window)) = HowMany(Push(q, now, most), Young(now, window))
      /\ InWindow(Append(h, now), now, window) = HowMany(Append(h, now), Young(now, window))
      /\ HowMany(Append(h, now), Young(now, window)) \in Nat
  BY <1>2, RecentCounts, HowManyAre
<1> QED
  BY <1>1, <1>2, <1>3, <1>4, <1>5
=============================================================================
