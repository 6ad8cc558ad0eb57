------------------------- MODULE KernelTimersProofs -------------------------
(***************************************************************************)
(* Proofs about the kernel's timers: the wheel of the tasks' waits and the *)
(* list of the software timers, for any tasks, timers and intervals.       *)
(***************************************************************************)
EXTENDS KernelTimers, MinLemmas, FiniteSetTheorems, SequenceTheorems

-----------------------------------------------------------------------------
(* Lists of differences                                                    *)

\* What the sums of a list are: the loops of the source, unrolled.
LEMMA Sums ==
  ASSUME NEW list, Len(list) \in Nat
  PROVE  /\ Upto(list, 0) = 0
         /\ \A i \in 1..Len(list) : Upto(list, i) = Upto(list, i - 1) + list[i].delta
<1> DEFINE Loop(w, n) == w = [i \in 0..n |-> IF i = 0 THEN 0 ELSE w[i - 1] + list[i].delta]
           P == {n \in 0..Len(list) : \E w : Loop(w, n)}
<1>1. 0 \in P
  <2> DEFINE w == [i \in 0..0 |-> 0]
  <2>1. Loop(w, 0)
    OBVIOUS
  <2>2. 0 \in 0..Len(list)
    OBVIOUS
  <2> HIDE DEF w, Loop
  <2> QED
    BY <2>1, <2>2
<1>2. ASSUME NEW n \in 0..Len(list) - 1, n \in P
      PROVE  n + 1 \in P
  <2>1. PICK v : Loop(v, n)
    BY <1>2
  <2> DEFINE w == [i \in 0..n + 1 |-> IF i = n + 1 THEN v[n] + list[n + 1].delta ELSE v[i]]
  <2>2. \A i \in 0..n : v[i] = IF i = 0 THEN 0 ELSE v[i - 1] + list[i].delta
    BY <2>1
  <2>3. \A i \in 0..n : w[i] = v[i]
    OBVIOUS
  <2>4. w[n + 1] = v[n] + list[n + 1].delta
    OBVIOUS
  <2>5. ASSUME NEW i \in 0..n + 1
        PROVE  w[i] = IF i = 0 THEN 0 ELSE w[i - 1] + list[i].delta
    <3>1. CASE i = n + 1
      BY <2>3, <2>4, <3>1
    <3>2. CASE i # n + 1 /\ i # 0
      <4>1. i \in 0..n /\ i - 1 \in 0..n
        BY <3>2
      <4> QED
        BY <2>2, <2>3, <3>2, <4>1
    <3>3. CASE i = 0
      BY <2>2, <2>3, <3>3
    <3> QED
      BY <3>1, <3>2, <3>3
  <2>6. w = [i \in 0..n + 1 |-> w[i]]
    OBVIOUS
  <2> HIDE DEF w
  <2>7. Loop(w, n + 1)
    BY <2>5, <2>6
  <2> QED
    BY <2>7
<1>3. Len(list) \in P
  <2> HIDE DEF P
  <2>1. \A i \in 0..Len(list) : i \in P
    BY <1>1, <1>2, UpTo
  <2> QED
    BY <2>1
<1> DEFINE w == CHOOSE w : Loop(w, Len(list))
<1>4. Loop(w, Len(list))
  BY <1>3
<1>5. \A i : Upto(list, i) = w[i]
  BY DEF Upto
<1> HIDE DEF w
<1>6. \A i \in 0..Len(list) : w[i] = IF i = 0 THEN 0 ELSE w[i - 1] + list[i].delta
  BY <1>4
<1>7. \A i \in 1..Len(list) : i \in 0..Len(list) /\ i # 0
  OBVIOUS
<1>8. 0 \in 0..Len(list)
  OBVIOUS
<1> HIDE DEF Loop
<1> QED
  BY <1>5, <1>6, <1>7, <1>8

\* Numbers that begin with 0 and differ as the list says are its sums.
LEMMA SumsAre ==
  ASSUME NEW list, Len(list) \in Nat, NEW f, f[0] = 0,
         \A i \in 1..Len(list) : f[i] = f[i - 1] + list[i].delta
  PROVE  \A i \in 0..Len(list) : Upto(list, i) = f[i]
<1> DEFINE P == {i \in 0..Len(list) : Upto(list, i) = f[i]}
<1>1. 0 \in P
  BY Sums
<1>2. ASSUME NEW i \in 0..Len(list) - 1, i \in P
      PROVE  i + 1 \in P
  <2>1. i + 1 \in 1..Len(list) /\ (i + 1) - 1 = i /\ i + 1 \in 0..Len(list)
    OBVIOUS
  <2> QED
    BY <1>2, <2>1, Sums
<1> HIDE DEF P
<1>3. \A i \in 0..Len(list) : i \in P
  BY <1>1, <1>2, UpTo
<1> QED
  BY <1>3 DEF P

\* A list of items of S, each once, whose numbers are not above b.
Sound(list, S, b) ==
  /\ list \in Seq([item : S, delta : Nat])
  /\ \A i \in DOMAIN list : Upto(list, i) \in 0..b
  /\ \A i, j \in DOMAIN list : list[i].item = list[j].item => i = j

\* What the proofs use of a sound list.
LEMMA SoundSums ==
  ASSUME NEW list, NEW S, NEW b \in Nat, Sound(list, S, b)
  PROVE  /\ Len(list) \in Nat /\ DOMAIN list = 1..Len(list)
         /\ \A i \in 1..Len(list) : /\ list[i].item \in S /\ list[i].delta \in 0..b
                                    /\ list[i] = [item |-> list[i].item, delta |-> list[i].delta]
         /\ \A i \in 0..Len(list) : Upto(list, i) \in 0..b
         /\ Upto(list, 0) = 0
         /\ \A i \in 1..Len(list) : Upto(list, i) = Upto(list, i - 1) + list[i].delta
<1>1. Len(list) \in Nat /\ DOMAIN list = 1..Len(list)
  BY DEF Sound
<1>2. \A i \in 1..Len(list) : list[i] \in [item : S, delta : Nat]
  <2>1. list \in Seq([item : S, delta : Nat])
    BY DEF Sound
  <2> QED
    BY <2>1, ElementOfSeq
<1>3. /\ Upto(list, 0) = 0
      /\ \A i \in 1..Len(list) : Upto(list, i) = Upto(list, i - 1) + list[i].delta
  BY <1>1, Sums
<1>4. \A i \in 0..Len(list) : Upto(list, i) \in 0..b
  <2> TAKE i \in 0..Len(list)
  <2>1. CASE i = 0
    BY <1>3, <2>1
  <2>2. CASE i # 0
    BY <1>1, <2>2 DEF Sound
  <2> QED
    BY <2>1, <2>2
<1>5. ASSUME NEW i \in 1..Len(list)
      PROVE  list[i].delta \in 0..b
  <2>1. i - 1 \in 0..Len(list) /\ i \in 0..Len(list) /\ list[i].delta \in Nat
    BY <1>1, <1>2
  <2>2. Upto(list, i - 1) \in 0..b /\ Upto(list, i) \in 0..b
    BY <1>4, <2>1
  <2>3. Upto(list, i) = Upto(list, i - 1) + list[i].delta
    BY <1>3
  <2> QED
    BY <2>1, <2>2, <2>3
<1> QED
  BY <1>1, <1>2, <1>3, <1>4, <1>5

\* The sums of a sound list do not fall.
LEMMA SumsRise ==
  ASSUME NEW list, NEW S, NEW b \in Nat, Sound(list, S, b),
         NEW j \in 0..Len(list), NEW i \in 0..j
  PROVE  Upto(list, i) <= Upto(list, j)
<1> DEFINE P == {k \in 0..Len(list) : \A h \in 0..k : Upto(list, h) <= Upto(list, k)}
<1>0. Len(list) \in Nat
  BY SoundSums
<1>1. 0 \in P
  <2>1. Upto(list, 0) = 0 /\ 0 \in 0..Len(list) /\ \A h \in 0..0 : h = 0
    BY SoundSums
  <2> QED
    BY <2>1
<1>2. ASSUME NEW k \in 0..Len(list) - 1, k \in P
      PROVE  k + 1 \in P
  <2>1. k + 1 \in 1..Len(list) /\ (k + 1) - 1 = k /\ k + 1 \in 0..Len(list)
    BY <1>0
  <2>4. k \in 0..Len(list)
    BY <1>0
  <2>2. /\ Upto(list, k + 1) = Upto(list, k) + list[k + 1].delta
        /\ list[k + 1].delta \in 0..b
        /\ Upto(list, k) \in 0..b /\ Upto(list, k + 1) \in 0..b
    BY <2>1, <2>4, SoundSums
  <2>3. ASSUME NEW h \in 0..k + 1
        PROVE  Upto(list, h) <= Upto(list, k + 1)
    <3>1. CASE h = k + 1
      BY <2>2, <3>1
    <3>2. CASE h # k + 1
      <4>1. h \in 0..k /\ h \in 0..Len(list)
        BY <1>0, <3>2
      <4>2. Upto(list, h) <= Upto(list, k) /\ Upto(list, h) \in Nat
        BY <1>2, <4>1, SoundSums
      <4> QED
        BY <2>2, <4>2
    <3> QED
      BY <3>1, <3>2
  <2> QED
    BY <2>1, <2>3
<1> HIDE DEF P
<1>3. \A k \in 0..Len(list) : k \in P
  BY <1>0, <1>1, <1>2, UpTo
<1> QED
  BY <1>3 DEF P

\* A set of the first places is as large as the last of them.
LEMMA FirstPlaces ==
  ASSUME NEW n \in Nat, NEW P \in SUBSET (1..n), \A j \in P : \A h \in 1..j : h \in P
  PROVE  Cardinality(P) \in 0..n /\ P = 1..Cardinality(P)
<1> DEFINE Q == {j \in 1..n + 1 : j \notin P}
<1>1. Q \in SUBSET Nat /\ n + 1 \in Q
  OBVIOUS
<1>2. PICK m : m = Min(Q) /\ m \in Q /\ \A y \in Q : m <= y
  BY <1>1, MinIsLeast
<1>3. m \in 1..n + 1 /\ m \notin P /\ \A y \in 1..n + 1 : y \notin P => m <= y
  BY <1>2
<1> HIDE DEF Q
<1>4. PICK k \in 0..n : k + 1 = m
  <2>1. m - 1 \in 0..n /\ (m - 1) + 1 = m
    BY <1>3
  <2> QED
    BY <2>1
<1>5. ASSUME NEW j \in 1..k
      PROVE  j \in P
  BY <1>3, <1>4
<1>6. ASSUME NEW j \in P
      PROVE  j \in 1..k
  <2>1. j \in 1..n
    OBVIOUS
  <2>2. CASE j >= m
    <3>1. m \in 1..j
      BY <1>3, <2>1, <2>2
    <3> QED
      BY <1>3, <3>1
  <2>3. CASE ~(j >= m)
    BY <1>4, <2>1, <2>3
  <2> QED
    BY <2>2, <2>3
<1>7. P = 1..k
  BY <1>5, <1>6
<1>8. Cardinality(1..k) = k
  BY FS_Interval
<1> QED
  BY <1>7, <1>8

\* item is in the list and its number is n.
At(list, item, n) == \E i \in DOMAIN list : list[i].item = item /\ Upto(list, i) = n

\* What a sound list says of its items.
LEMMA ReadOff ==
  ASSUME NEW list, NEW S, NEW b \in Nat, b < Wrap, Sound(list, S, b), NEW item
  PROVE  /\ Listed(list, item) <=> \E n \in 0..b : At(list, item, n)
         /\ \A n : At(list, item, n) =>
              /\ n \in 0..b /\ item \in S /\ Listed(list, item) /\ Number(list, item) = n
              /\ Position(list, item) \in 1..Len(list) /\ Upto(list, Position(list, item)) = n
              /\ list[Position(list, item)].item = item
<1>1. ASSUME NEW i \in DOMAIN list, list[i].item = item
      PROVE  /\ Upto(list, i) \in 0..b /\ item \in S /\ Listed(list, item)
             /\ Position(list, item) = i /\ i \in 1..Len(list)
             /\ Number(list, item) = Upto(list, i)
  <2>1. Upto(list, i) \in 0..b /\ item \in S /\ i \in 1..Len(list)
    <3>1. i \in 1..Len(list) /\ i \in 0..Len(list)
      BY SoundSums
    <3> QED
      BY <1>1, <3>1, SoundSums
  <2>2. Position(list, item) = i
    BY <1>1 DEF Sound, Position
  <2>3. Listed(list, item)
    BY <1>1 DEF Listed
  <2>4. PICK n : n = Upto(list, i)
    OBVIOUS
  <2>5. n % Wrap = n
    BY <2>1, <2>4, DeltaListAssumption
  <2> QED
    BY <2>1, <2>2, <2>3, <2>4, <2>5 DEF Number
<1>2. ASSUME Listed(list, item)
      PROVE  \E n \in 0..b : At(list, item, n)
  BY <1>1, <1>2 DEF Listed, At
<1> QED
  BY <1>1, <1>2 DEF At

\* item is put behind the first i of list, at the distance d: the sums.
LEMMA BehindSums ==
  ASSUME NEW list, NEW S, NEW b \in Nat, Sound(list, S, b),
         NEW i \in 0..Len(list), NEW d \in Int, NEW item, NEW new, new = Behind(list, i, item, d)
  PROVE  /\ Len(new) = Len(list) + 1
         /\ \A j \in 0..i : Upto(new, j) = Upto(list, j)
         /\ Upto(new, i + 1) = Upto(list, i) + d
         /\ \A j \in i + 1..Len(list) : Upto(new, j + 1) = Upto(list, j)
<1>0. PICK n \in Nat : n = Len(list)
  BY SoundSums
<1>1. /\ new \in [1..n + 1 -> {new[j] : j \in 1..n + 1}]
      /\ \A j \in 1..i : new[j].delta = list[j].delta
      /\ new[i + 1].delta = d
      /\ i + 2 <= n + 1 => new[i + 2].delta = list[i + 1].delta - d
      /\ \A j \in i + 3..n + 1 : new[j].delta = list[j - 1].delta
  <2>1. /\ \A j \in 1..i : j \in 1..n + 1 /\ j <= i
        /\ i + 1 \in 1..n + 1 /\ ~(i + 1 <= i)
        /\ i + 2 <= n + 1 => /\ i + 2 \in 1..n + 1 /\ i + 2 # i + 1 /\ ~(i + 2 <= i)
                             /\ (i + 2) - 1 = i + 1 /\ i + 1 \in 1..n
        /\ \A j \in i + 3..n + 1 : j \in 1..n + 1 /\ ~(j <= i) /\ j # i + 1 /\ j # i + 2
    BY <1>0
  <2>2. i + 2 <= n + 1 => [list[i + 1] EXCEPT !.delta = @ - d].delta = list[i + 1].delta - d
    <3>1. i + 2 <= n + 1 => list[i + 1] = [item |-> list[i + 1].item, delta |-> list[i + 1].delta]
      BY <1>0, <2>1, SoundSums
    <3> QED
      BY <3>1
  <2>3. new = [j \in 1..n + 1 |-> CASE j <= i     -> list[j]
                                 [] j = i + 1  -> [item |-> item, delta |-> d]
                                 [] j = i + 2  -> [list[j - 1] EXCEPT !.delta = @ - d]
                                 [] OTHER      -> list[j - 1]]
    BY <1>0 DEF Behind
  <2>4. new \in [1..n + 1 -> {new[j] : j \in 1..n + 1}]
    BY <2>3, Zenon
  <2>5. \A j \in 1..i : new[j].delta = list[j].delta
    BY <2>1, <2>3
  <2>6. new[i + 1].delta = d
    BY <2>1, <2>3
  <2>7. i + 2 <= n + 1 => new[i + 2].delta = list[i + 1].delta - d
    BY <2>1, <2>2, <2>3
  <2>8. \A j \in i + 3..n + 1 : new[j].delta = list[j - 1].delta
    BY <2>1, <2>3
  <2> QED
    BY <2>4, <2>5, <2>6, <2>7, <2>8
<1>2. Len(new) = n + 1
  <2>1. DOMAIN new = 1..n + 1
    BY <1>1
  <2> QED
    BY <1>0, <1>1, <2>1, LenProperties
<1>3. /\ \A j \in 0..n : Upto(list, j) \in 0..b
      /\ \A j \in 1..n : Upto(list, j) = Upto(list, j - 1) + list[j].delta /\ list[j].delta \in 0..b
      /\ Upto(list, 0) = 0
  BY <1>0, SoundSums
<1> DEFINE f == [j \in 0..n + 1 |-> IF j <= i THEN Upto(list, j)
                                    ELSE IF j = i + 1 THEN Upto(list, i) + d ELSE Upto(list, j - 1)]
<1>4. f[0] = 0
  BY <1>0, <1>3
<1>5. ASSUME NEW j \in 1..n + 1
      PROVE  f[j] = f[j - 1] + new[j].delta
  <2>1. CASE j <= i
    <3>1. j - 1 <= i /\ j - 1 \in 0..n + 1 /\ j \in 0..n + 1 /\ j \in 1..i /\ j \in 1..n
      BY <1>0, <2>1
    <3>2. f[j] = Upto(list, j) /\ f[j - 1] = Upto(list, j - 1)
      BY <2>1, <3>1
    <3> HIDE DEF f
    <3> QED
      BY <1>1, <1>3, <3>1, <3>2
  <2>2. CASE j = i + 1
    <3>1. j - 1 = i /\ i \in 0..n + 1 /\ j \in 0..n + 1 /\ ~(j <= i) /\ i <= i
      BY <1>0, <2>2
    <3>2. f[j] = Upto(list, i) + d /\ f[j - 1] = Upto(list, i)
      BY <2>2, <3>1
    <3> HIDE DEF f
    <3> QED
      BY <1>1, <2>2, <3>2
  <2>3. CASE j = i + 2
    <3>1. /\ j - 1 = i + 1 /\ i + 1 \in 0..n + 1 /\ j \in 0..n + 1 /\ ~(j <= i) /\ ~(i + 1 <= i) /\ j # i + 1
          /\ i + 1 \in 1..n /\ i + 2 <= n + 1 /\ i \in 0..n /\ (i + 1) - 1 = i
      BY <1>0, <2>3
    <3>2. f[j] = Upto(list, i + 1) /\ f[j - 1] = Upto(list, i) + d
      BY <2>3, <3>1
    <3>3. new[j].delta = list[i + 1].delta - d
      BY <1>1, <2>3, <3>1
    <3>4. /\ Upto(list, i + 1) = Upto(list, i) + list[i + 1].delta
          /\ Upto(list, i) \in 0..b /\ list[i + 1].delta \in 0..b
      BY <1>3, <3>1
    <3> HIDE DEF f
    <3> QED
      BY <3>2, <3>3, <3>4
  <2>4. CASE j > i + 2
    <3>1. /\ ~(j - 1 <= i) /\ j - 1 # i + 1 /\ j - 1 \in 0..n + 1 /\ j \in 0..n + 1 /\ ~(j <= i) /\ j # i + 1
          /\ j - 1 \in 1..n /\ j \in i + 3..n + 1
      BY <1>0, <2>4
    <3>2. f[j] = Upto(list, j - 1) /\ f[j - 1] = Upto(list, (j - 1) - 1)
      BY <3>1
    <3>3. new[j].delta = list[j - 1].delta
      BY <1>1, <3>1
    <3>4. Upto(list, j - 1) = Upto(list, (j - 1) - 1) + list[j - 1].delta
      BY <1>3, <3>1
    <3> HIDE DEF f
    <3> QED
      BY <3>2, <3>3, <3>4
  <2> QED
    BY <1>0, <2>1, <2>2, <2>3, <2>4
<1>6. \A j \in 0..n + 1 : Upto(new, j) = f[j]
  <2> HIDE DEF f
  <2>1. /\ Len(new) = n + 1 /\ Len(new) \in Nat
        /\ \A j \in 1..Len(new) : f[j] = f[j - 1] + new[j].delta
    BY <1>2, <1>5
  <2>2. \A j \in 0..Len(new) : Upto(new, j) = f[j]
    BY <1>4, <2>1, SumsAre
  <2> QED
    BY <2>1, <2>2
<1>7. \A j \in 0..i : Upto(new, j) = Upto(list, j)
  <2>1. \A j \in 0..i : j \in 0..n + 1 /\ j <= i
    BY <1>0
  <2> QED
    BY <1>6, <2>1
<1>8. Upto(new, i + 1) = Upto(list, i) + d
  <2>1. i + 1 \in 0..n + 1 /\ ~(i + 1 <= i)
    BY <1>0
  <2> QED
    BY <1>6, <2>1
<1>9. ASSUME NEW j \in i + 1..n
      PROVE  Upto(new, j + 1) = Upto(list, j)
  <2>1. j + 1 \in 0..n + 1 /\ ~(j + 1 <= i) /\ j + 1 # i + 1 /\ (j + 1) - 1 = j
    BY <1>0
  <2>2. Upto(new, j + 1) = f[j + 1]
    BY <1>6, <2>1
  <2> QED
    BY <2>1, <2>2
<1> QED
  BY <1>0, <1>2, <1>7, <1>8, <1>9

\* new keeps the places old of list, with their items, and counts their numbers from c.
Keeps(new, list, old, c, S, b) ==
  /\ Sound(list, S, b)
  /\ new \in Seq([item : S, delta : Nat])
  /\ \A i, j \in 1..Len(new) : old[i] = old[j] => i = j
  /\ \A j \in 1..Len(new) : /\ old[j] \in 1..Len(list)
                            /\ new[j].item = list[old[j]].item
                            /\ Upto(list, old[j]) >= c
                            /\ Upto(new, j) = Upto(list, old[j]) - c

\* The numbers in new are those at the places old of list.
Kept(new, list, old, c) ==
  \A y, m : At(new, y, m) <=> \E j \in 1..Len(new) :
    list[old[j]].item = y /\ Upto(list, old[j]) - c = m

\* What keeps some places of a sound list is sound.
LEMMA SomePlaces ==
  ASSUME NEW list, NEW S, NEW b \in Nat, NEW c \in Nat, NEW new, NEW old,
         Keeps(new, list, old, c, S, b)
  PROVE  Sound(new, S, b) /\ Kept(new, list, old, c)
<1> USE DEF Keeps
<1>1. DOMAIN new = 1..Len(new) /\ DOMAIN list = 1..Len(list)
  <2>1. DOMAIN new = 1..Len(new)
    OBVIOUS
  <2> QED
    BY <2>1, SoundSums
<1>2. ASSUME NEW j \in 1..Len(new)
      PROVE  old[j] \in 1..Len(list) /\ Upto(new, j) \in 0..b
  <2>1. old[j] \in 1..Len(list)
    OBVIOUS
  <2>2. old[j] \in 0..Len(list)
    BY <2>1, SoundSums
  <2>3. Upto(list, old[j]) \in 0..b
    BY <2>2, SoundSums
  <2>4. Upto(list, old[j]) >= c /\ Upto(new, j) = Upto(list, old[j]) - c
    OBVIOUS
  <2> QED
    BY <2>1, <2>3, <2>4
<1>3. ASSUME NEW i \in 1..Len(new), NEW j \in 1..Len(new), new[i].item = new[j].item
      PROVE  i = j
  <2>1. list[old[i]].item = list[old[j]].item
    BY <1>3
  <2>2. old[i] = old[j]
    BY <1>1, <1>2, <2>1 DEF Sound
  <2> QED
    BY <2>2
<1>4. Sound(new, S, b)
  BY <1>1, <1>2, <1>3 DEF Sound
<1>5. \A y, m : At(new, y, m) <=> \E j \in 1..Len(new) : new[j].item = y /\ Upto(new, j) = m
  BY <1>1 DEF At
<1>6. ASSUME NEW y, NEW m
      PROVE  At(new, y, m) <=> \E j \in 1..Len(new) : list[old[j]].item = y /\ Upto(list, old[j]) - c = m
  <2>1. \A j \in 1..Len(new) : new[j].item = list[old[j]].item /\ Upto(new, j) = Upto(list, old[j]) - c
    OBVIOUS
  <2>2. At(new, y, m) <=> \E j \in 1..Len(new) : new[j].item = y /\ Upto(new, j) = m
    BY <1>5
  <2> QED
    BY <2>1, <2>2, Zenon
<1> QED
  BY <1>4, <1>6 DEF Kept

\* A function on the first places is a sequence.
LEMMA FunctionIsSeq ==
  ASSUME NEW T, NEW n \in Nat, NEW f \in [1..n -> T]
  PROVE  f \in Seq(T)
BY SeqDef

\* item is put behind the first i of list, at the distance d.
LEMMA BehindPuts ==
  ASSUME NEW list, NEW S, NEW b \in Nat, Sound(list, S, b),
         NEW i \in 0..Len(list), NEW d \in Nat, NEW item \in S, ~Listed(list, item),
         Upto(list, i) + d <= b, i < Len(list) => d <= list[i + 1].delta,
         NEW new, new = Behind(list, i, item, d)
  PROVE  /\ Sound(new, S, b)
         /\ \A y, m : At(new, y, m) <=> At(list, y, m) \/ (y = item /\ m = Upto(list, i) + d)
<1>0. PICK n \in Nat : n = Len(list)
  BY SoundSums
<1>1. /\ Len(new) = n + 1
      /\ \A j \in 0..i : Upto(new, j) = Upto(list, j)
      /\ Upto(new, i + 1) = Upto(list, i) + d
      /\ \A j \in i + 1..n : Upto(new, j + 1) = Upto(list, j)
  BY <1>0, BehindSums
<1>2. new = [j \in 1..n + 1 |-> CASE j <= i     -> list[j]
                                 [] j = i + 1  -> [item |-> item, delta |-> d]
                                 [] j = i + 2  -> [list[j - 1] EXCEPT !.delta = @ - d]
                                 [] OTHER      -> list[j - 1]]
  BY <1>0 DEF Behind
<1>3. /\ \A j \in 1..n : /\ list[j].item \in S /\ list[j].delta \in 0..b
                         /\ list[j] = [item |-> list[j].item, delta |-> list[j].delta]
      /\ \A j \in 0..n : Upto(list, j) \in 0..b
      /\ DOMAIN list = 1..n
  BY <1>0, SoundSums
<1> DEFINE Fits(k, j) == /\ new[k].item = list[j].item /\ Upto(new, k) = Upto(list, j)
                         /\ new[k] \in [item : S, delta : Nat]
<1>4. ASSUME NEW j \in 1..i
      PROVE  j \in 1..n + 1 /\ j \in 1..n /\ Fits(j, j)
  <2>1. j \in 1..n + 1 /\ j \in 0..i /\ j <= i /\ j \in 1..n
    BY <1>0
  <2>2. new[j] = list[j]
    BY <1>2, <2>1
  <2>3. list[j].delta \in Nat
    BY <1>3, <2>1
  <2>4. list[j] \in [item : S, delta : Nat]
    BY <1>3, <2>1, <2>3
  <2> QED
    BY <1>1, <2>1, <2>2, <2>4
<1>5. ASSUME NEW j \in i + 1..n
      PROVE  j + 1 \in 1..n + 1 /\ j \in 1..n /\ Fits(j + 1, j)
  <2>1. /\ j + 1 \in 1..n + 1 /\ j \in 1..n /\ ~(j + 1 <= i) /\ j + 1 # i + 1 /\ (j + 1) - 1 = j
    BY <1>0
  <2>2. CASE j = i + 1
    <3>1. d <= list[j].delta /\ j + 1 = i + 2
      BY <1>0, <2>2
    <3>2. new[j + 1] = [list[j] EXCEPT !.delta = @ - d]
      BY <1>2, <2>1, <3>1
    <3>3. list[j].delta - d \in Nat
      <4>1. list[j].delta \in Nat
        BY <1>3, <2>1
      <4> QED
        BY <3>1, <4>1
    <3>4. new[j + 1] = [item |-> list[j].item, delta |-> list[j].delta - d]
      BY <1>3, <2>1, <3>2
    <3>5. new[j + 1].item = list[j].item /\ new[j + 1] \in [item : S, delta : Nat]
      BY <1>3, <2>1, <3>3, <3>4
    <3> QED
      BY <1>1, <2>1, <3>5
  <2>3. CASE j # i + 1
    <3>1. j + 1 # i + 2
      BY <2>3
    <3>2. new[j + 1] = list[j]
      BY <1>2, <2>1, <3>1
    <3>3. list[j].delta \in Nat
      BY <1>3, <2>1
    <3>4. list[j] \in [item : S, delta : Nat]
      BY <1>3, <2>1, <3>3
    <3> QED
      BY <1>1, <2>1, <3>2, <3>4
  <2> QED
    BY <2>2, <2>3
<1>6. /\ i + 1 \in 1..n + 1 /\ new[i + 1] = [item |-> item, delta |-> d]
  <2>1. i + 1 \in 1..n + 1 /\ ~(i + 1 <= i)
    BY <1>0
  <2> QED
    BY <1>2, <2>1
<1> HIDE DEF Fits
<1>7. ASSUME NEW k \in 1..n + 1
      PROVE  \/ k = i + 1
             \/ \E j \in 1..n : /\ Fits(k, j)
                                /\ k = IF j <= i THEN j ELSE j + 1
  <2>1. CASE k <= i
    <3>1. k \in 1..i
      BY <2>1
    <3> QED
      BY <1>4, <2>1, <3>1
  <2>2. CASE k > i + 1
    <3>1. k - 1 \in i + 1..n /\ (k - 1) + 1 = k /\ ~(k - 1 <= i)
      BY <1>0, <2>2
    <3> QED
      BY <1>5, <3>1
  <2> QED
    BY <1>0, <2>1, <2>2
<1>8. ASSUME NEW j \in 1..n
      PROVE  \E k \in 1..n + 1 : Fits(k, j)
  <2>1. CASE j <= i
    <3>1. j \in 1..i
      BY <2>1
    <3> QED
      BY <1>4, <3>1
  <2>2. CASE ~(j <= i)
    <3>1. j \in i + 1..n
      BY <1>0, <2>2
    <3> QED
      BY <1>5, <3>1
  <2> QED
    BY <2>1, <2>2
<1>9. Upto(list, i) + d \in 0..b
  <2>1. Upto(list, i) \in 0..b
    BY <1>0, <1>3
  <2> QED
    BY <2>1
<1>10. DOMAIN new = 1..n + 1
  BY <1>2
<1>11. \A y, m : At(new, y, m) <=> At(list, y, m) \/ (y = item /\ m = Upto(list, i) + d)
  <2> TAKE y, m
  <2>1. ASSUME At(new, y, m)
        PROVE  At(list, y, m) \/ (y = item /\ m = Upto(list, i) + d)
    <3>1. PICK k \in 1..n + 1 : new[k].item = y /\ Upto(new, k) = m
      BY <1>10, <2>1 DEF At
    <3>2. CASE k = i + 1
      BY <1>1, <1>6, <3>1, <3>2
    <3>3. CASE k # i + 1
      <4>1. PICK j \in 1..n : Fits(k, j)
        BY <1>7, <3>3
      <4> QED
        BY <1>3, <3>1, <4>1 DEF At, Fits
    <3> QED
      BY <3>2, <3>3
  <2>2. ASSUME At(list, y, m)
        PROVE  At(new, y, m)
    <3>1. PICK j \in 1..n : list[j].item = y /\ Upto(list, j) = m
      BY <1>3, <2>2 DEF At
    <3>2. PICK k \in 1..n + 1 : Fits(k, j)
      BY <1>8
    <3> QED
      BY <1>10, <3>1, <3>2 DEF At, Fits
  <2>3. ASSUME y = item, m = Upto(list, i) + d
        PROVE  At(new, y, m)
    BY <1>1, <1>6, <1>10, <2>3 DEF At
  <2> QED
    BY <2>1, <2>2, <2>3
<1>12. \A k \in 1..n + 1 : new[k] \in [item : S, delta : Nat] /\ Upto(new, k) \in 0..b
  <2> TAKE k \in 1..n + 1
  <2>1. CASE k = i + 1
    BY <1>1, <1>6, <1>9, <2>1
  <2>2. CASE k # i + 1
    <3>1. PICK j \in 1..n : Fits(k, j)
      BY <1>7, <2>2
    <3>2. j \in 0..n
      OBVIOUS
    <3> QED
      BY <1>3, <3>1, <3>2 DEF Fits
  <2> QED
    BY <2>1, <2>2
<1>13. new \in Seq([item : S, delta : Nat])
  <2>1. new \in [1..n + 1 -> [item : S, delta : Nat]]
    BY <1>2, <1>12, Zenon
  <2>2. n + 1 \in Nat
    BY <1>0
  <2> QED
    BY <2>1, <2>2, FunctionIsSeq
<1>14. ASSUME NEW h \in 1..n + 1, NEW k \in 1..n + 1, new[h].item = new[k].item
       PROVE  h = k
  <2>1. \A j \in 1..n : list[j].item # item
    BY <1>3 DEF Listed
  <2>2. CASE h = i + 1 /\ k = i + 1
    BY <2>2
  <2>3. CASE h = i + 1 /\ k # i + 1
    <3>1. PICK j \in 1..n : Fits(k, j)
      BY <1>7, <2>3
    <3> QED
      BY <1>6, <1>14, <2>1, <2>3, <3>1 DEF Fits
  <2>4. CASE h # i + 1 /\ k = i + 1
    <3>1. PICK j \in 1..n : Fits(h, j)
      BY <1>7, <2>4
    <3> QED
      BY <1>6, <1>14, <2>1, <2>4, <3>1 DEF Fits
  <2>5. CASE h # i + 1 /\ k # i + 1
    <3>1. PICK j \in 1..n : Fits(h, j) /\ h = IF j <= i THEN j ELSE j + 1
      BY <1>7, <2>5
    <3>2. PICK l \in 1..n : Fits(k, l) /\ k = IF l <= i THEN l ELSE l + 1
      BY <1>7, <2>5
    <3>3. list[j].item = list[l].item
      BY <1>14, <3>1, <3>2 DEF Fits
    <3>4. j = l
      BY <1>3, <3>3 DEF Sound
    <3> QED
      BY <3>1, <3>2, <3>4
  <2> QED
    BY <2>2, <2>3, <2>4, <2>5
<1>15. Sound(new, S, b)
  BY <1>10, <1>12, <1>13, <1>14 DEF Sound
<1> QED
  BY <1>11, <1>15

\* item is inserted with the number n.
LEMMA InsertPuts ==
  ASSUME NEW list, NEW S, NEW b \in Nat, Sound(list, S, b),
         NEW n \in 0..b, NEW item \in S, ~Listed(list, item)
  PROVE  /\ Sound(Insert(list, item, n), S, b)
         /\ \A y, m : At(Insert(list, item, n), y, m) <=> At(list, y, m) \/ (y = item /\ m = n)
<1> DEFINE P == {j \in DOMAIN list : Upto(list, j) <= n}
           i == Cardinality(P)
<1>1. Len(list) \in Nat /\ DOMAIN list = 1..Len(list)
  BY SoundSums
<1>2. \A j \in P : \A h \in 1..j : h \in P
  <2> TAKE j \in P
  <2> TAKE h \in 1..j
  <2>1. j \in 0..Len(list) /\ h \in 0..j /\ h \in 0..Len(list) /\ h \in DOMAIN list /\ Upto(list, j) <= n
    BY <1>1
  <2>2. Upto(list, h) <= Upto(list, j) /\ Upto(list, h) \in 0..b /\ Upto(list, j) \in 0..b
    <3>1. Upto(list, h) <= Upto(list, j)
      BY <2>1, SumsRise
    <3> QED
      BY <2>1, <3>1, SoundSums
  <2> QED
    BY <2>1, <2>2
<1>3. P \in SUBSET (1..Len(list))
  BY <1>1
<1>4. i \in 0..Len(list) /\ P = 1..i
  <2> HIDE DEF P
  <2> QED
    BY <1>1, <1>2, <1>3, FirstPlaces
<1>5. Upto(list, i) \in 0..b /\ Upto(list, i) <= n
  <2>1. Upto(list, i) \in 0..b
    BY <1>4, SoundSums
  <2>2. CASE i = 0
    BY <2>2, SoundSums
  <2>3. CASE i # 0
    <3>1. i \in P
      <4> HIDE DEF P, i
      <4> QED
        BY <1>4, <2>3
    <3> QED
      BY <2>1, <3>1
  <2> QED
    BY <2>1, <2>2, <2>3
<1>6. ASSUME i < Len(list)
      PROVE  n - Upto(list, i) <= list[i + 1].delta
  <2> HIDE DEF i
  <2>1. i + 1 \in 1..Len(list) /\ i + 1 \notin 1..i /\ (i + 1) - 1 = i /\ i + 1 \in 0..Len(list)
    BY <1>1, <1>4, <1>6
  <2>2. ~(Upto(list, i + 1) <= n)
    BY <1>1, <1>4, <2>1
  <2>3. Upto(list, i + 1) = Upto(list, i) + list[i + 1].delta /\ list[i + 1].delta \in 0..b
    BY <2>1, SoundSums
  <2> QED
    BY <1>5, <2>2, <2>3
<1>7. Insert(list, item, n) = Behind(list, i, item, n - Upto(list, i))
  BY DEF Insert
<1> HIDE DEF i
<1>8. PICK d \in Nat : d = n - Upto(list, i)
  BY <1>5
<1>9. Upto(list, i) + d = n /\ Upto(list, i) + d <= b
  BY <1>5, <1>8
<1>10. i < Len(list) => d <= list[i + 1].delta
  BY <1>6, <1>8
<1> QED
  BY <1>4, <1>7, <1>8, <1>9, <1>10, BehindPuts

\* item is taken off.
LEMMA UnlinkedTakes ==
  ASSUME NEW list, NEW S, NEW b \in Nat, b < Wrap, Sound(list, S, b),
         NEW item, Listed(list, item)
  PROVE  /\ Sound(Unlinked(list, item), S, b)
         /\ \A y, m : At(Unlinked(list, item), y, m) <=> At(list, y, m) /\ y # item
<1>0. PICK n \in Nat : n = Len(list)
  BY SoundSums
<1> DEFINE new == Unlinked(list, item)
<1>1. PICK i : i = Position(list, item) /\ i \in 1..n /\ list[i].item = item
  <2>1. PICK m : At(list, item, m)
    BY ReadOff
  <2> QED
    BY <1>0, <2>1, ReadOff
<1>2. new = [j \in 1..n - 1 |->
               CASE j < i -> list[j]
                 [] j = i -> [list[j + 1] EXCEPT !.delta = (@ + list[i].delta) % Wrap]
                 [] OTHER -> list[j + 1]]
  BY <1>0, <1>1 DEF Unlinked
<1> HIDE DEF new
<1>3. /\ \A j \in 1..n : /\ list[j].item \in S /\ list[j].delta \in 0..b
                         /\ list[j] = [item |-> list[j].item, delta |-> list[j].delta]
      /\ \A j \in 0..n : Upto(list, j) \in 0..b
      /\ \A j \in 1..n : Upto(list, j) = Upto(list, j - 1) + list[j].delta
      /\ Upto(list, 0) = 0 /\ DOMAIN list = 1..n
  BY <1>0, SoundSums
<1> DEFINE old == [j \in 1..n - 1 |-> IF j < i THEN j ELSE j + 1]
           f == [j \in 0..n - 1 |-> IF j < i THEN Upto(list, j) ELSE Upto(list, j + 1)]
<1>4. ASSUME NEW j \in 1..n - 1
      PROVE  /\ old[j] \in 1..n /\ old[j] # i /\ new[j].item = list[old[j]].item
             /\ new[j].delta = (IF j = i THEN list[j + 1].delta + list[i].delta ELSE list[old[j]].delta)
             /\ new[j] \in [item : S, delta : Nat]
             /\ f[j] = Upto(list, old[j]) /\ f[j] = f[j - 1] + new[j].delta
  <2>1. CASE j < i
    <3>1. /\ j \in 1..n /\ j \in 0..n - 1 /\ j - 1 \in 0..n - 1 /\ j - 1 < i /\ j # i
          /\ j \in 0..n
      BY <1>1, <2>1
    <3>2. old[j] = j /\ f[j] = Upto(list, j) /\ f[j - 1] = Upto(list, j - 1) /\ new[j] = list[j]
      BY <1>2, <2>1, <3>1
    <3>3. list[j].delta \in Nat
      BY <1>3, <3>1
    <3>4. new[j] \in [item : S, delta : Nat]
      BY <1>3, <3>1, <3>2, <3>3
    <3> HIDE DEF f, old
    <3> QED
      BY <1>3, <3>1, <3>2, <3>4
  <2>2. CASE j = i
    <3>1. /\ j \in 1..n /\ j \in 0..n - 1 /\ j - 1 \in 0..n - 1 /\ j - 1 < i /\ ~(j < i)
          /\ j + 1 \in 1..n /\ j + 1 # i /\ (j + 1) - 1 = j /\ j - 1 \in 0..n
          /\ j + 1 \in 0..n
      BY <1>1, <2>2
    <3>2. /\ old[j] = j + 1 /\ f[j] = Upto(list, j + 1) /\ f[j - 1] = Upto(list, j - 1)
          /\ new[j] = [list[j + 1] EXCEPT !.delta = (@ + list[i].delta) % Wrap]
      BY <1>2, <2>2, <3>1
    <3>3. PICK x : x = list[j + 1].delta + list[j].delta
      OBVIOUS
    <3>4. /\ list[j + 1].delta \in 0..b /\ list[j].delta \in 0..b /\ Upto(list, j - 1) \in 0..b
          /\ Upto(list, j + 1) \in 0..b
          /\ Upto(list, j) = Upto(list, j - 1) + list[j].delta
          /\ Upto(list, j + 1) = Upto(list, j) + list[j + 1].delta
      BY <1>3, <3>1
    <3>5. x \in 0..b /\ Upto(list, j + 1) = Upto(list, j - 1) + x
      BY <3>3, <3>4
    <3>6. x % Wrap = x
      BY <3>5, DeltaListAssumption
    <3>7. new[j] = [item |-> list[j + 1].item, delta |-> x]
      BY <1>3, <2>2, <3>1, <3>2, <3>3, <3>6
    <3>8. new[j] \in [item : S, delta : Nat] /\ new[j].item = list[j + 1].item /\ new[j].delta = x
      BY <1>3, <3>1, <3>5, <3>7
    <3> HIDE DEF f, old
    <3> QED
      BY <2>2, <3>1, <3>2, <3>3, <3>5, <3>8
  <2>3. CASE j > i
    <3>1. /\ j \in 1..n /\ j \in 0..n - 1 /\ j - 1 \in 0..n - 1 /\ ~(j - 1 < i) /\ ~(j < i) /\ j # i
          /\ j + 1 \in 1..n /\ j + 1 # i /\ (j + 1) - 1 = j /\ (j - 1) + 1 = j
          /\ j + 1 \in 0..n
      BY <1>1, <2>3
    <3>2. old[j] = j + 1 /\ f[j] = Upto(list, j + 1) /\ f[j - 1] = Upto(list, j) /\ new[j] = list[j + 1]
      BY <1>2, <2>3, <3>1
    <3>3. list[j + 1].delta \in Nat
      BY <1>3, <3>1
    <3>4. new[j] \in [item : S, delta : Nat]
      BY <1>3, <3>1, <3>2, <3>3
    <3> HIDE DEF f, old
    <3> QED
      BY <1>3, <3>1, <3>2, <3>4
  <2> QED
    BY <1>1, <2>1, <2>2, <2>3
<1>5. n - 1 \in Nat
  BY <1>1
<1>6. new \in Seq([item : S, delta : Nat]) /\ Len(new) = n - 1
  <2>1. new \in [1..n - 1 -> [item : S, delta : Nat]]
    BY <1>2, <1>4, Zenon
  <2>2. PICK m \in Nat : m = n - 1
    BY <1>5
  <2>3. new \in Seq([item : S, delta : Nat])
    BY <2>1, <2>2, FunctionIsSeq
  <2> QED
    BY <2>1, <2>2, <2>3, LenProperties
<1>7. \A j \in 0..n - 1 : Upto(new, j) = f[j]
  <2>1. f[0] = 0
    BY <1>1, <1>3
  <2> HIDE DEF f
  <2>2. Len(new) \in Nat /\ \A j \in 1..Len(new) : f[j] = f[j - 1] + new[j].delta
    BY <1>4, <1>5, <1>6
  <2>3. \A j \in 0..Len(new) : Upto(new, j) = f[j]
    BY <2>1, <2>2, SumsAre
  <2> QED
    BY <1>6, <2>3
<1>9. \A h, j \in 1..n - 1 : old[h] = old[j] => h = j
  BY <1>1
<1>10. \A j \in 1..n : j # i => \E h \in 1..n - 1 : old[h] = j
  <2> TAKE j \in 1..n
  <2>1. CASE j < i
    <3>1. j \in 1..n - 1
      BY <1>1, <2>1
    <3> QED
      BY <2>1, <3>1
  <2>2. CASE j > i
    <3>1. j - 1 \in 1..n - 1 /\ ~(j - 1 < i) /\ (j - 1) + 1 = j
      BY <1>1, <2>2
    <3> QED
      BY <3>1
  <2> QED
    BY <1>1, <2>1, <2>2
<1> HIDE DEF old
<1>11. \A j \in 1..n - 1 : Upto(new, j) = Upto(list, old[j])
  <2> TAKE j \in 1..n - 1
  <2>1. j \in 0..n - 1
    OBVIOUS
  <2>2. Upto(new, j) = f[j]
    BY <1>7, <2>1
  <2> QED
    BY <1>4, <2>2
<1> HIDE DEF f
<1>12. \A j \in 1..n - 1 : Upto(list, old[j]) \in 0..b
  <2> TAKE j \in 1..n - 1
  <2>1. old[j] \in 0..n
    BY <1>4
  <2> QED
    BY <1>3, <2>1
<1>13. PICK c \in Nat : c = 0
  OBVIOUS
<1>14. Sound(new, S, b) /\ Kept(new, list, old, c)
  <2>1. ASSUME NEW j \in 1..Len(new)
        PROVE  /\ old[j] \in 1..Len(list)
               /\ new[j].item = list[old[j]].item
               /\ Upto(list, old[j]) >= c
               /\ Upto(new, j) = Upto(list, old[j]) - c
    <3>1. j \in 1..n - 1
      BY <1>6
    <3>2. /\ old[j] \in 1..n /\ new[j].item = list[old[j]].item
          /\ Upto(new, j) = Upto(list, old[j]) /\ Upto(list, old[j]) \in 0..b
      BY <1>4, <1>11, <1>12, <3>1
    <3> QED
      BY <1>0, <1>13, <3>2
  <2>2. \A h, j \in 1..Len(new) : old[h] = old[j] => h = j
    BY <1>6, <1>9
  <2>3. Keeps(new, list, old, c, S, b)
    BY <1>6, <2>1, <2>2 DEF Keeps
  <2> QED
    BY <2>3, SomePlaces
<1>15. ASSUME NEW y, NEW m
       PROVE  At(new, y, m) <=> At(list, y, m) /\ y # item
  <2>1. At(new, y, m) <=> \E j \in 1..n - 1 : list[old[j]].item = y /\ Upto(list, old[j]) = m
    <3>1. \A j \in 1..n - 1 : Upto(list, old[j]) - c = Upto(list, old[j])
      BY <1>12, <1>13
    <3>2. At(new, y, m) <=> \E j \in 1..n - 1 : list[old[j]].item = y /\ Upto(list, old[j]) - c = m
      BY <1>6, <1>14 DEF Kept
    <3> QED
      BY <3>1, <3>2
  <2>2. At(list, y, m) <=> \E j \in 1..n : list[j].item = y /\ Upto(list, j) = m
    BY <1>3 DEF At
  <2>3. ASSUME NEW j \in 1..n, list[j].item = item
        PROVE  j = i
    BY <1>1, <1>3, <2>3 DEF Sound
  <2>4. \A j \in 1..n - 1 : old[j] \in 1..n /\ old[j] # i
    BY <1>4
  <2> QED
    BY <1>1, <1>10, <2>1, <2>2, <2>3, <2>4
<1> QED
  BY <1>14, <1>15 DEF new

\* The first are taken off that have the number 0.
LEMMA RestOf ==
  ASSUME NEW list, NEW S, NEW b \in Nat, Sound(list, S, b)
  PROVE  /\ Sound(SubSeq(list, Len(Due(list)) + 1, Len(list)), S, b)
         /\ \A y, m : At(SubSeq(list, Len(Due(list)) + 1, Len(list)), y, m) <=> At(list, y, m) /\ m # 0
         /\ Len(Due(list)) \in 0..Len(list) /\ DOMAIN Due(list) = 1..Len(Due(list))
         /\ \A i \in 1..Len(list) : i <= Len(Due(list)) <=> Upto(list, i) = 0
<1>1. PICK n \in Nat : n = Len(list)
  BY SoundSums
<1>2. /\ \A j \in 1..n : /\ list[j].item \in S /\ list[j].delta \in 0..b
                         /\ list[j] = [item |-> list[j].item, delta |-> list[j].delta]
      /\ \A j \in 0..n : Upto(list, j) \in 0..b
      /\ \A j \in 1..n : Upto(list, j) = Upto(list, j - 1) + list[j].delta
      /\ Upto(list, 0) = 0 /\ DOMAIN list = 1..n
      /\ list \in Seq([item : S, delta : Nat])
  <2>1. list \in Seq([item : S, delta : Nat])
    BY DEF Sound
  <2> QED
    BY <1>1, <2>1, SoundSums
<1> DEFINE P == {j \in DOMAIN list : Upto(list, j) = 0}
<1>3. PICK k : k = Cardinality(P)
  OBVIOUS
<1>4. k \in 0..n /\ P = 1..k
  <2>1. P \in SUBSET (1..n)
    BY <1>2
  <2>2. \A j \in P : \A h \in 1..j : h \in P
    <3> TAKE j \in P
    <3> TAKE h \in 1..j
    <3>1. j \in 1..n /\ j \in 0..n /\ h \in 0..j /\ h \in 0..n /\ h \in 1..n /\ Upto(list, j) = 0
      BY <1>2
    <3>2. Upto(list, h) <= Upto(list, j)
      BY <1>1, <3>1, SumsRise
    <3>3. Upto(list, h) \in 0..b
      BY <1>2, <3>1
    <3> QED
      BY <1>2, <3>1, <3>2, <3>3
  <2> HIDE DEF P
  <2> QED
    BY <1>3, <2>1, <2>2, FirstPlaces
<1>5. \A j \in 1..n : j <= k <=> Upto(list, j) = 0
  <2>1. \A j \in 1..n : j \in P <=> Upto(list, j) = 0
    BY <1>2
  <2> HIDE DEF P
  <2> QED
    BY <1>4, <2>1
<1>6. Due(list) = SubSeq(list, 1, k)
  BY <1>3 DEF Due
<1>7. Len(Due(list)) = k /\ DOMAIN Due(list) = 1..k
  <2>1. \A j \in 1..k : list[j] \in [item : S, delta : Nat]
    <3> TAKE j \in 1..k
    <3>1. j \in 1..n
      BY <1>4
    <3> QED
      BY <1>1, <1>2, <3>1, ElementOfSeq
  <2>2. /\ SubSeq(list, 1, k) \in Seq([item : S, delta : Nat])
        /\ Len(SubSeq(list, 1, k)) = IF 1 <= k THEN (k - 1) + 1 ELSE 0
    BY <1>4, <2>1, SubSeqProperties
  <2> QED
    BY <1>4, <1>6, <2>2, LenProperties
<1> HIDE DEF P
<1>8. PICK new : new = SubSeq(list, k + 1, n)
  OBVIOUS
<1>9. /\ new \in Seq([item : S, delta : Nat]) /\ Len(new) = n - k
      /\ \A j \in 1..n - k : new[j] = list[k + j]
  <2>1. \A j \in k + 1..n : list[j] \in [item : S, delta : Nat]
    <3> TAKE j \in k + 1..n
    <3>1. j \in 1..n
      BY <1>4
    <3> QED
      BY <1>1, <1>2, <3>1, ElementOfSeq
  <2>2. k + 1 \in Int /\ n \in Int
    BY <1>4
  <2>3. /\ SubSeq(list, k + 1, n) \in Seq([item : S, delta : Nat])
        /\ Len(SubSeq(list, k + 1, n)) = IF k + 1 <= n THEN (n - (k + 1)) + 1 ELSE 0
        /\ \A j \in 1..(n - (k + 1)) + 1 : SubSeq(list, k + 1, n)[j] = list[((k + 1) + j) - 1]
    BY <2>1, <2>2, SubSeqProperties
  <2>4. /\ (n - (k + 1)) + 1 = n - k
        /\ ~(k + 1 <= n) => n - k = 0
        /\ \A j \in 1..n - k : ((k + 1) + j) - 1 = k + j
    BY <1>4
  <2> QED
    BY <1>8, <2>3, <2>4
<1>10. n - k \in Nat /\ \A j \in 1..n - k : k + j \in 1..n /\ k + j \in 0..n /\ ~(k + j <= k)
  BY <1>4
<1> DEFINE old == [j \in 1..n - k |-> k + j]
           f == [j \in 0..n - k |-> Upto(list, k + j)]
<1>11. \A j \in 0..n - k : Upto(new, j) = f[j]
  <2>1. Upto(list, k) = 0
    <3>1. CASE k = 0
      BY <1>2, <3>1
    <3>2. CASE k # 0
      <4>1. k \in 1..n /\ k <= k
        BY <1>4, <3>2
      <4> QED
        BY <1>5, <4>1
    <3> QED
      BY <3>1, <3>2
  <2>2. f[0] = 0
    BY <1>4, <2>1
  <2>3. ASSUME NEW j \in 1..n - k
        PROVE  f[j] = f[j - 1] + new[j].delta
    <3>1. j \in 0..n - k /\ j - 1 \in 0..n - k /\ k + (j - 1) = (k + j) - 1
      BY <1>4
    <3>2. f[j] = Upto(list, k + j) /\ f[j - 1] = Upto(list, (k + j) - 1)
      BY <3>1
    <3> HIDE DEF f
    <3> QED
      BY <1>2, <1>9, <1>10, <3>2
  <2> HIDE DEF f
  <2>4. /\ Len(new) = n - k /\ Len(new) \in Nat
        /\ \A j \in 1..Len(new) : f[j] = f[j - 1] + new[j].delta
    BY <1>9, <1>10, <2>3
  <2>5. \A j \in 0..Len(new) : Upto(new, j) = f[j]
    BY <2>2, <2>4, SumsAre
  <2> QED
    BY <2>4, <2>5
<1>12. \A i, j \in 1..Len(new) : old[i] = old[j] => i = j
  BY <1>4, <1>9
<1>13. \A j \in 1..n - k : j \in 0..n - k /\ old[j] = k + j /\ f[j] = Upto(list, k + j)
  OBVIOUS
<1> HIDE DEF old, f
<1>14. PICK c \in Nat : c = 0
  OBVIOUS
<1>15. Keeps(new, list, old, c, S, b)
  <2>1. ASSUME NEW j \in 1..Len(new)
        PROVE  /\ old[j] \in 1..Len(list)
               /\ new[j].item = list[old[j]].item
               /\ Upto(list, old[j]) >= c
               /\ Upto(new, j) = Upto(list, old[j]) - c
    <3>1. j \in 1..n - k /\ j \in 0..n - k /\ old[j] = k + j /\ Upto(new, j) = Upto(list, k + j)
      BY <1>9, <1>11, <1>13
    <3>2. Upto(list, k + j) \in 0..b /\ new[j] = list[k + j] /\ k + j \in 1..n
      BY <1>2, <1>9, <1>10, <3>1
    <3> QED
      BY <1>1, <1>14, <3>1, <3>2
  <2> QED
    BY <1>9, <1>12, <2>1 DEF Keeps
<1>16. Sound(new, S, b) /\ Kept(new, list, old, c)
  BY <1>15, SomePlaces
<1>17. ASSUME NEW y, NEW m
       PROVE  At(new, y, m) <=> At(list, y, m) /\ m # 0
  <2>1. At(new, y, m) <=> \E j \in 1..n - k : list[k + j].item = y /\ Upto(list, k + j) = m
    <3>1. \A j \in 1..n - k : old[j] = k + j /\ Upto(list, k + j) - c = Upto(list, k + j)
      <4> TAKE j \in 1..n - k
      <4>1. Upto(list, k + j) \in 0..b
        BY <1>2, <1>10
      <4> QED
        BY <1>13, <1>14, <4>1
    <3>2. At(new, y, m) <=> \E j \in 1..n - k : list[old[j]].item = y /\ Upto(list, old[j]) - c = m
      BY <1>9, <1>16 DEF Kept
    <3> QED
      BY <3>1, <3>2
  <2>2. At(list, y, m) <=> \E j \in 1..n : list[j].item = y /\ Upto(list, j) = m
    BY <1>2 DEF At
  <2>3. ASSUME NEW j \in 1..n, Upto(list, j) # 0
        PROVE  j - k \in 1..n - k /\ k + (j - k) = j
    BY <1>4, <1>5, <2>3
  <2>4. \A j \in 1..n - k : Upto(list, k + j) # 0 /\ k + j \in 1..n
    BY <1>5, <1>10
  <2> QED
    BY <2>1, <2>2, <2>3, <2>4
<1>18. new = SubSeq(list, Len(Due(list)) + 1, Len(list))
  BY <1>1, <1>7, <1>8
<1> QED
  BY <1>1, <1>4, <1>5, <1>7, <1>16, <1>17, <1>18

\* new is list with its first difference counted down.
Counted(new, list) ==
  new = [i \in DOMAIN list |-> IF i = 1 THEN [list[i] EXCEPT !.delta = @ - 1] ELSE list[i]]

\* The first difference counted down counts down all numbers.
LEMMA CountsDown ==
  ASSUME NEW list, NEW S, NEW b \in Nat, Sound(list, S, b),
         \A i \in DOMAIN list : Upto(list, i) # 0,
         NEW new, Counted(new, list)
  PROVE  /\ Sound(new, S, b)
         /\ \A y : \A m \in Nat : At(new, y, m) <=> At(list, y, m + 1)
         /\ Len(new) = Len(list)
<1>0. PICK n \in Nat : n = Len(list)
  BY SoundSums
<1>1. /\ \A j \in 1..n : /\ list[j].item \in S /\ list[j].delta \in 0..b
                         /\ list[j] = [item |-> list[j].item, delta |-> list[j].delta]
      /\ \A j \in 0..n : Upto(list, j) \in 0..b
      /\ \A j \in 1..n : Upto(list, j) = Upto(list, j - 1) + list[j].delta
      /\ Upto(list, 0) = 0 /\ DOMAIN list = 1..n
  BY <1>0, SoundSums
<1>2. \A j \in 1..n : Upto(list, j) \in 1..b
  <2> TAKE j \in 1..n
  <2>1. j \in 0..n /\ j \in DOMAIN list
    BY <1>1
  <2>2. Upto(list, j) \in 0..b /\ Upto(list, j) # 0
    BY <1>1, <2>1
  <2> QED
    BY <2>2
<1>3. ASSUME NEW j \in 1..n
      PROVE  /\ new[j] \in [item : S, delta : Nat] /\ new[j].item = list[j].item
             /\ new[j].delta = IF j = 1 THEN list[j].delta - 1 ELSE list[j].delta
  <2>1. CASE j = 1
    <3>1. Upto(list, 1) = Upto(list, 0) + list[1].delta /\ Upto(list, 1) \in 1..b
      <4>1. 1 \in 1..n /\ 1 - 1 = 0
        BY <2>1
      <4> QED
        BY <1>1, <1>2, <4>1
    <3>2. list[1].delta \in 1..b
      BY <1>1, <2>1, <3>1
    <3>3. new[j] = [list[j] EXCEPT !.delta = @ - 1]
      BY <1>1, <2>1 DEF Counted
    <3>4. new[j] = [item |-> list[j].item, delta |-> list[j].delta - 1]
      BY <1>1, <3>3
    <3>5. list[j].delta - 1 \in Nat
      BY <2>1, <3>2
    <3> QED
      BY <1>1, <2>1, <3>4, <3>5
  <2>2. CASE j # 1
    <3>1. new[j] = list[j]
      BY <1>1, <2>2 DEF Counted
    <3>2. list[j].delta \in Nat
      BY <1>1
    <3>3. list[j] \in [item : S, delta : Nat]
      BY <1>1, <3>2
    <3> QED
      BY <2>2, <3>1, <3>3
  <2> QED
    BY <2>1, <2>2
<1>4. new \in Seq([item : S, delta : Nat]) /\ Len(new) = n /\ DOMAIN new = 1..n
  <2>1. new \in [1..n -> [item : S, delta : Nat]]
    BY <1>1, <1>3, Zenon DEF Counted
  <2>2. new \in Seq([item : S, delta : Nat])
    BY <2>1, FunctionIsSeq
  <2> QED
    BY <2>1, <2>2, LenProperties
<1> DEFINE f == [j \in 0..n |-> IF j = 0 THEN 0 ELSE Upto(list, j) - 1]
<1>5. \A j \in 0..n : Upto(new, j) = f[j]
  <2>1. f[0] = 0
    OBVIOUS
  <2>2. ASSUME NEW j \in 1..n
        PROVE  f[j] = f[j - 1] + new[j].delta
    <3>1. CASE j = 1
      <4>1. f[1] = Upto(list, 1) - 1 /\ f[0] = 0 /\ j - 1 = 0
        BY <3>1
      <4>2. Upto(list, 1) = Upto(list, 0) + list[1].delta /\ list[1].delta \in 0..b
        BY <1>1, <3>1, <4>1
      <4> HIDE DEF f
      <4> QED
        BY <1>1, <1>3, <3>1, <4>1, <4>2
    <3>2. CASE j # 1
      <4>1. j - 1 \in 0..n /\ j - 1 # 0 /\ j \in 0..n /\ j # 0
        BY <3>2
      <4>2. f[j] = Upto(list, j) - 1 /\ f[j - 1] = Upto(list, j - 1) - 1
        BY <4>1
      <4>3. /\ Upto(list, j - 1) \in 0..b /\ list[j].delta \in 0..b
            /\ Upto(list, j) = Upto(list, j - 1) + list[j].delta
        BY <1>1, <4>1
      <4>4. new[j].delta = list[j].delta
        BY <1>3, <3>2
      <4> HIDE DEF f
      <4> QED
        BY <4>2, <4>3, <4>4
    <3> QED
      BY <3>1, <3>2
  <2> HIDE DEF f
  <2>3. Len(new) \in Nat /\ \A j \in 1..Len(new) : f[j] = f[j - 1] + new[j].delta
    BY <1>4, <2>2
  <2>4. \A j \in 0..Len(new) : Upto(new, j) = f[j]
    BY <2>1, <2>3, SumsAre
  <2> QED
    BY <1>4, <2>4
<1>6. \A j \in 1..n : Upto(new, j) = Upto(list, j) - 1
  <2> TAKE j \in 1..n
  <2>1. j \in 0..n /\ j # 0
    OBVIOUS
  <2>2. f[j] = Upto(list, j) - 1
    BY <2>1
  <2> HIDE DEF f
  <2> QED
    BY <1>5, <2>1, <2>2
<1> HIDE DEF f
<1> DEFINE old == [j \in 1..n |-> j]
<1>7. \A j \in 1..n : old[j] = j
  OBVIOUS
<1> HIDE DEF old
<1>8. PICK c \in Nat : c = 1
  OBVIOUS
<1>9. Keeps(new, list, old, c, S, b)
  <2>1. ASSUME NEW j \in 1..Len(new)
        PROVE  /\ old[j] \in 1..Len(list)
               /\ new[j].item = list[old[j]].item
               /\ Upto(list, old[j]) >= c
               /\ Upto(new, j) = Upto(list, old[j]) - c
    <3>1. j \in 1..n /\ old[j] = j
      BY <1>4, <1>7
    <3>2. new[j].item = list[j].item /\ Upto(new, j) = Upto(list, j) - 1 /\ Upto(list, j) \in 1..b
      BY <1>2, <1>3, <1>6, <3>1
    <3> QED
      BY <1>0, <1>8, <3>1, <3>2
  <2>2. \A h, j \in 1..Len(new) : old[h] = old[j] => h = j
    BY <1>4, <1>7
  <2> QED
    BY <1>4, <2>1, <2>2 DEF Keeps
<1>10. Sound(new, S, b) /\ Kept(new, list, old, c)
  BY <1>9, SomePlaces
<1>11. ASSUME NEW y, NEW m \in Nat
       PROVE  At(new, y, m) <=> At(list, y, m + 1)
  <2>1. At(new, y, m) <=> \E j \in 1..n : list[old[j]].item = y /\ Upto(list, old[j]) - c = m
    BY <1>4, <1>10 DEF Kept
  <2>2. \A j \in 1..n : old[j] = j /\ (Upto(list, old[j]) - c = m <=> Upto(list, j) = m + 1)
    <3> TAKE j \in 1..n
    <3>1. Upto(list, j) \in 1..b
      BY <1>2
    <3> QED
      BY <1>7, <1>8, <3>1
  <2>3. At(list, y, m + 1) <=> \E j \in 1..n : list[j].item = y /\ Upto(list, j) = m + 1
    BY <1>1 DEF At
  <2> QED
    BY <2>1, <2>2, <2>3
<1> QED
  BY <1>0, <1>4, <1>10, <1>11

-----------------------------------------------------------------------------
(* The wheel                                                               *)

\* The numbers on the wheel are turns.
MostTurns == IF MaxTimeout < Wrap THEN MaxTimeout ELSE Wrap - 1

\* The lists of the wheel s are sound, and a task is in one of them at most.
WheelOK(s) ==
  /\ s.cursor \in Wheel
  /\ s = [cursor |-> s.cursor, list |-> [i \in Wheel |-> s.list[i]]]
  /\ \A i \in Wheel : Sound(s.list[i], Task, MostTurns)
  /\ \A t : \A i, j \in Wheel : Listed(s.list[i], t) /\ Listed(s.list[j], t) => i = j

\* The bound on turns is one the fields can hold.
LEMMA TurnsFit ==
  /\ MostTurns \in Nat /\ MostTurns < Wrap /\ MostTurns <= MaxTimeout
  /\ SortLinkLen \in Nat /\ SortLinkLen > 0
BY TaskTimersAssumption, DeltaListAssumption DEF MostTurns

\* What a remainder is.
LEMMA RemainderIs ==
  ASSUME NEW l \in Nat \ {0}, NEW x \in Int
  PROVE  /\ x % l \in 0..l - 1 /\ x \div l \in Int
         /\ x = l * (x \div l) + (x % l)
<1>1. x % l \in 0..l - 1
  OBVIOUS
<1>2. x \div l \in Int
  OBVIOUS
<1>3. x = l * (x \div l) + (x % l)
  OBVIOUS
<1> QED
  BY <1>1, <1>2, <1>3

\* What lies between 0 and l and differs from x by a multiple of l is its remainder.
LEMMA RemainderIsTheOne ==
  ASSUME NEW l \in Nat \ {0}, NEW k \in Int, NEW r \in 0..l - 1, NEW x \in Int, x = l * k + r
  PROVE  x % l = r
<1>1. PICK d \in Int, s \in 0..l - 1 : d = x \div l /\ s = x % l /\ x = l * d + s
  BY RemainderIs
<1>2. CASE d = k
  <2>1. l * d = l * k
    BY <1>2
  <2> QED
    BY <1>1, <2>1
<1>3. CASE d > k
  <2>1. PICK e \in Nat : d = k + e /\ e > 0
    <3>1. d - k \in Nat /\ d - k > 0 /\ d = k + (d - k)
      BY <1>3
    <3> QED
      BY <3>1
  <2>2. l * d = l * k + l * e
    BY <2>1
  <2>3. l * e >= l /\ l * e \in Int
    BY <2>1
  <2> QED
    BY <1>1, <2>2, <2>3
<1>4. CASE d < k
  <2>1. PICK e \in Nat : k = d + e /\ e > 0
    <3>1. k - d \in Nat /\ k - d > 0 /\ k = d + (k - d)
      BY <1>4
    <3> QED
      BY <3>1
  <2>2. l * k = l * d + l * e
    BY <2>1
  <2>3. l * e >= l /\ l * e \in Int
    BY <2>1
  <2> QED
    BY <1>1, <2>2, <2>3
<1> QED
  BY <1>2, <1>3, <1>4

\* The ticks until the cursor of the wheel is at i.
Distance(i, cursor) == ((i - cursor - 1) % SortLinkLen) + 1

\* Distances go round.
LEMMA Distances ==
  ASSUME NEW c \in Wheel, NEW i \in Wheel
  PROVE  Distance(i, c) = IF i > c THEN i - c ELSE (i - c) + SortLinkLen
<1>1. PICK l \in Nat \ {0} : l = SortLinkLen
  BY TurnsFit
<1>2. c \in 0..l - 1 /\ i \in 0..l - 1
  BY <1>1 DEF Wheel
<1>3. PICK x \in Int : x = (i - c) - 1
  BY <1>2
<1>4. CASE i > c
  <2>1. x = l * 0 + x /\ x \in 0..l - 1
    BY <1>2, <1>3, <1>4
  <2>2. x % l = x
    BY <2>1, RemainderIsTheOne
  <2> QED
    BY <1>1, <1>2, <1>3, <1>4, <2>2 DEF Distance
<1>5. CASE ~(i > c)
  <2>1. PICK r \in 0..l - 1 : r = x + l
    BY <1>2, <1>3, <1>5
  <2>2. x = l * (-1) + r
    BY <1>2, <1>3, <2>1
  <2>3. x % l = r
    BY <2>2, RemainderIsTheOne
  <2> QED
    BY <1>1, <1>2, <1>3, <1>5, <2>1, <2>3 DEF Distance
<1> QED
  BY <1>4, <1>5

\* The next place of the wheel.
LEMMA NextPlace ==
  ASSUME NEW c \in Wheel, NEW d, d = (c + 1) % SortLinkLen
  PROVE  /\ d \in Wheel /\ Distance(d, c) = 1 /\ Distance(d, d) = SortLinkLen
         /\ \A i \in Wheel \ {d} : Distance(i, d) = Distance(i, c) - 1 /\ Distance(i, c) > 1
<1>1. PICK l \in Nat \ {0} : l = SortLinkLen
  BY TurnsFit
<1>2. c \in 0..l - 1 /\ Wheel = 0..l - 1
  BY <1>1 DEF Wheel
<1>3. d = IF c + 1 < l THEN c + 1 ELSE 0
  <2>1. CASE c + 1 < l
    <3>1. c + 1 \in 0..l - 1 /\ c + 1 = l * 0 + (c + 1) /\ c + 1 \in Int
      BY <1>2, <2>1
    <3>2. (c + 1) % l = c + 1
      BY <3>1, RemainderIsTheOne
    <3> QED
      BY <1>1, <2>1, <3>2
  <2>2. CASE ~(c + 1 < l)
    <3>1. 0 \in 0..l - 1 /\ c + 1 = l * 1 + 0 /\ c + 1 \in Int
      BY <1>2, <2>2
    <3>2. (c + 1) % l = 0
      BY <3>1, RemainderIsTheOne
    <3> QED
      BY <1>1, <2>2, <3>2
  <2> QED
    BY <2>1, <2>2
<1>4. d \in Wheel
  BY <1>2, <1>3
<1>5. Distance(d, c) = 1
  <2>1. Distance(d, c) = IF d > c THEN d - c ELSE (d - c) + l
    BY <1>1, <1>4, Distances
  <2> QED
    BY <1>2, <1>3, <2>1
<1>6. Distance(d, d) = SortLinkLen
  <2>1. Distance(d, d) = IF d > d THEN d - d ELSE (d - d) + l
    BY <1>1, <1>4, Distances
  <2> QED
    BY <1>1, <1>2, <1>4, <2>1
<1>7. ASSUME NEW i \in Wheel \ {d}
      PROVE  Distance(i, d) = Distance(i, c) - 1 /\ Distance(i, c) > 1
  <2>1. /\ Distance(i, c) = IF i > c THEN i - c ELSE (i - c) + l
        /\ Distance(i, d) = IF i > d THEN i - d ELSE (i - d) + l
    BY <1>1, <1>4, Distances
  <2>2. i \in 0..l - 1 /\ i # d
    BY <1>2
  <2>3. CASE c + 1 < l
    BY <1>2, <1>3, <2>1, <2>2, <2>3
  <2>4. CASE ~(c + 1 < l)
    BY <1>2, <1>3, <2>1, <2>2, <2>4
  <2> QED
    BY <2>3, <2>4
<1> QED
  BY <1>4, <1>5, <1>6, <1>7

\* Where osTaskAdd2TimerList links a wait of n ticks, and with how many turns.
LEMMA PlaceOfWait ==
  ASSUME NEW c \in Wheel, NEW n \in 1..MaxTimeout, NEW i, i = (c + n) % SortLinkLen
  PROVE  i \in Wheel /\ Turns(n) \in 0..MostTurns /\ Distance(i, c) + SortLinkLen * Turns(n) = n
<1>1. PICK l \in Nat \ {0} : l = SortLinkLen
  BY TurnsFit
<1>2. c \in 0..l - 1 /\ Wheel = 0..l - 1 /\ n \in Nat /\ n >= 1
  BY <1>1, TaskTimersAssumption DEF Wheel
<1>3. PICK q \in Int, r \in 0..l - 1 : q = n \div l /\ r = n % l /\ n = l * q + r
  <2>1. n \in Int
    BY <1>2
  <2>2. n % l \in 0..l - 1 /\ n \div l \in Int /\ n = l * (n \div l) + (n % l)
    BY <2>1, RemainderIs
  <2> QED
    BY <2>2
<1>4. PICK p \in Int : p = l * q /\ n = p + r
  BY <1>3
<1>5. q >= 0
  <2>1. SUFFICES ASSUME q < 0 PROVE FALSE
    BY <1>3
  <2>2. l * q <= -l
    BY <2>1
  <2> QED
    BY <1>2, <1>3, <1>4, <2>2
<1>6. Turns(n) = IF r = 0 THEN q - 1 ELSE q
  BY <1>1, <1>3 DEF Turns
<1>7. Turns(n) >= 0 /\ l * Turns(n) = (IF r = 0 THEN p - l ELSE p) /\ Turns(n) \in Int
  <2>1. CASE r = 0
    <3>1. q # 0
      BY <1>2, <1>3, <2>1
    <3>2. l * (q - 1) = l * q - l
      OBVIOUS
    <3> QED
      BY <1>4, <1>5, <1>6, <2>1, <3>1, <3>2
  <2>2. CASE r # 0
    BY <1>4, <1>5, <1>6, <2>2
  <2> QED
    BY <2>1, <2>2
<1>8. Turns(n) <= n
  <2>1. PICK m \in Nat : m = Turns(n)
    BY <1>7
  <2>2. l * m >= m
    OBVIOUS
  <2>3. l * m <= n
    BY <1>2, <1>4, <1>7, <2>1
  <2> QED
    BY <1>2, <2>1, <2>2, <2>3
<1>9. Turns(n) \in 0..MostTurns
  <2>1. Turns(n) < Wrap
    BY TaskTimersAssumption
  <2>2. n <= MaxTimeout /\ MaxTimeout \in Nat /\ Wrap \in Nat
    BY TaskTimersAssumption, DeltaListAssumption
  <2> QED
    BY <1>2, <1>7, <1>8, <2>1, <2>2 DEF MostTurns
<1>10. i = IF c + r < l THEN c + r ELSE (c + r) - l
  <2>1. CASE c + r < l
    <3>1. PICK s \in 0..l - 1 : s = c + r
      BY <1>2, <2>1
    <3>2. PICK x \in Int : x = c + n
      BY <1>2
    <3>3. x = l * q + s
      BY <1>2, <1>3, <3>1, <3>2
    <3>4. x % l = s
      BY <3>3, RemainderIsTheOne
    <3> QED
      BY <1>1, <2>1, <3>1, <3>2, <3>4
  <2>2. CASE ~(c + r < l)
    <3>1. PICK s \in 0..l - 1 : s = (c + r) - l
      BY <1>2, <2>2
    <3>2. PICK k \in Int : k = q + 1
      BY <1>3
    <3>3. l * k = p + l
      BY <1>4, <3>2
    <3>4. PICK x \in Int : x = c + n
      BY <1>2
    <3>5. x = l * k + s
      BY <1>2, <1>4, <3>1, <3>3, <3>4
    <3>6. x % l = s
      BY <3>5, RemainderIsTheOne
    <3>7. (c + n) % l = s
      BY <3>4, <3>6
    <3>8. i = s
      BY <1>1, <3>7
    <3> QED
      BY <2>2, <3>1, <3>8
  <2> QED
    BY <2>1, <2>2
<1>11. i \in 0..l - 1
  BY <1>2, <1>10
<1>12. Distance(i, c) = IF i > c THEN i - c ELSE (i - c) + l
  BY <1>1, <1>2, <1>11, Distances
<1>13. Distance(i, c) = IF r = 0 THEN l ELSE r
  BY <1>2, <1>10, <1>11, <1>12
<1> QED
  BY <1>1, <1>2, <1>4, <1>7, <1>9, <1>11, <1>13

\* TicksLeft of t on the wheel s.
LeftOn(s, t) ==
  LET on == {j \in Wheel : Listed(s.list[j], t)}
      i == CHOOSE j \in Wheel : j \in on
      distance == ((i - s.cursor - 1) % SortLinkLen) + 1
  IN  IF on # {} THEN distance + SortLinkLen * Number(s.list[i], t) ELSE 0

\* What is left of a wait is read off the wheel.
LEMMA LeftIs ==
  ASSUME NEW s, WheelOK(s), NEW t
  PROVE  /\ \A i \in Wheel : \A m : At(s.list[i], t, m) =>
              /\ t \in Task /\ m \in 0..MostTurns
              /\ LeftOn(s, t) = Distance(i, s.cursor) + SortLinkLen * m
         /\ (\A i \in Wheel : \A m : ~At(s.list[i], t, m)) => LeftOn(s, t) = 0
         /\ (\A i \in Wheel : ~Listed(s.list[i], t)) <=> (\A i \in Wheel : \A m : ~At(s.list[i], t, m))
<1>1. \A i \in Wheel : /\ Listed(s.list[i], t) <=> \E m \in 0..MostTurns : At(s.list[i], t, m)
                       /\ \A m : At(s.list[i], t, m) =>
                            /\ m \in 0..MostTurns /\ t \in Task /\ Listed(s.list[i], t)
                            /\ Number(s.list[i], t) = m
  BY ReadOff, TurnsFit DEF WheelOK
<1>2. ASSUME NEW i \in Wheel, NEW m, At(s.list[i], t, m)
      PROVE  /\ t \in Task /\ m \in 0..MostTurns
             /\ LeftOn(s, t) = Distance(i, s.cursor) + SortLinkLen * m
  <2>1. t \in Task /\ m \in 0..MostTurns /\ Listed(s.list[i], t) /\ Number(s.list[i], t) = m
    BY <1>1, <1>2
  <2>2. {j \in Wheel : Listed(s.list[j], t)} = {i}
    BY <2>1 DEF WheelOK
  <2>3. (CHOOSE k \in Wheel : k \in {j \in Wheel : Listed(s.list[j], t)}) = i
    BY <2>2
  <2> QED
    BY <2>1, <2>2, <2>3 DEF LeftOn, Distance
<1>3. ASSUME \A i \in Wheel : ~Listed(s.list[i], t)
      PROVE  LeftOn(s, t) = 0
  BY <1>3 DEF LeftOn
<1>4. (\A i \in Wheel : ~Listed(s.list[i], t)) <=> (\A i \in Wheel : \A m : ~At(s.list[i], t, m))
  BY <1>1
<1> QED
  BY <1>2, <1>3, <1>4

\* The wheels r and s say the same of t.
SameFor(r, s, t) ==
  /\ WheelOK(s) /\ WheelOK(r) /\ r.cursor = s.cursor
  /\ \A i \in Wheel : \A m : At(r.list[i], t, m) <=> At(s.list[i], t, m)

\* Which tasks wait on the wheel, and for how long, is told by the numbers.
LEMMA SameLeft ==
  ASSUME NEW s, NEW r, NEW t, SameFor(r, s, t)
  PROVE  LeftOn(r, t) = LeftOn(s, t)
<1> USE DEF SameFor
<1>1. CASE \E i \in Wheel : \E m : At(s.list[i], t, m)
  <2>0. PICK i \in Wheel : \E m : At(s.list[i], t, m)
    BY <1>1
  <2>1. PICK m : At(s.list[i], t, m)
    BY <2>0
  <2>2. At(r.list[i], t, m)
    BY <2>1
  <2>3. LeftOn(s, t) = Distance(i, s.cursor) + SortLinkLen * m
    BY <2>1, LeftIs
  <2>4. LeftOn(r, t) = Distance(i, r.cursor) + SortLinkLen * m
    BY <2>2, LeftIs
  <2> QED
    BY <2>3, <2>4
<1>2. CASE ~ \E i \in Wheel : \E m : At(s.list[i], t, m)
  <2>1. LeftOn(s, t) = 0
    BY <1>2, LeftIs
  <2>2. LeftOn(r, t) = 0
    BY <1>2, LeftIs
  <2> QED
    BY <2>1, <2>2
<1> QED
  BY <1>1, <1>2

\* The wheel r is s with new as its list i and its cursor at c; t may be new in it.
Relinked(r, s, i, new, t, c) ==
  /\ WheelOK(s) /\ i \in Wheel /\ c \in Wheel
  /\ Sound(new, Task, MostTurns)
  /\ \A u : Listed(new, u) => Listed(s.list[i], u) \/ (u = t /\ \A j \in Wheel : ~Listed(s.list[j], t))
  /\ r = [cursor |-> c, list |-> [j \in Wheel |-> IF j = i THEN new ELSE s.list[j]]]

\* A wheel with sound lists, in which a task is at most where it may be, is one.
LEMMA WheelFrom ==
  ASSUME NEW s, NEW r, NEW i, NEW new, NEW t, NEW c, Relinked(r, s, i, new, t, c)
  PROVE  WheelOK(r) /\ r.cursor = c /\ \A j \in Wheel : r.list[j] = IF j = i THEN new ELSE s.list[j]
<1> USE DEF Relinked
<1>1. r.cursor = c /\ \A j \in Wheel : r.list[j] = IF j = i THEN new ELSE s.list[j]
  OBVIOUS
<1>2. r = [cursor |-> r.cursor, list |-> [j \in Wheel |-> r.list[j]]]
  BY <1>1
<1>3. \A j \in Wheel : Sound(r.list[j], Task, MostTurns)
  BY <1>1 DEF WheelOK
<1>4. ASSUME NEW u, NEW j \in Wheel, NEW k \in Wheel, Listed(r.list[j], u), Listed(r.list[k], u)
      PROVE  j = k
  <2>1. CASE j = i /\ k # i
    BY <1>1, <1>4, <2>1 DEF WheelOK
  <2>2. CASE j # i /\ k = i
    BY <1>1, <1>4, <2>2 DEF WheelOK
  <2>3. CASE j # i /\ k # i
    BY <1>1, <1>4, <2>3 DEF WheelOK
  <2> QED
    BY <2>1, <2>2, <2>3
<1>5. WheelOK(r)
  BY <1>1, <1>2, <1>3, <1>4 DEF WheelOK
<1> QED
  BY <1>1, <1>5

\* A list read off before and after.
LEMMA ListedIs ==
  ASSUME NEW list, Sound(list, Task, MostTurns), NEW t
  PROVE  /\ Listed(list, t) <=> \E m : At(list, t, m)
         /\ \A m : At(list, t, m) => m \in 0..MostTurns /\ t \in Task
         /\ \A m, k : At(list, t, m) /\ At(list, t, k) => m = k
<1>1. \A m : At(list, t, m) => /\ m \in 0..MostTurns /\ t \in Task /\ Listed(list, t)
                              /\ Number(list, t) = m
  BY ReadOff, TurnsFit
<1>2. Listed(list, t) => \E m \in 0..MostTurns : At(list, t, m)
  BY ReadOff, TurnsFit
<1> QED
  BY <1>1, <1>2

\* What the three operations do to the wheel s.
Begun(r, s, i, t, n) ==
  /\ i = (s.cursor + n) % SortLinkLen
  /\ r = [s EXCEPT !.list[i] = Insert(@, t, Turns(n))]
Ended(r, s, i, t) == r = [s EXCEPT !.list[i] = Unlinked(@, t)]
Scanned(r, s, d) ==
  /\ d = (s.cursor + 1) % SortLinkLen
  /\ r = [s EXCEPT !.cursor = d, !.list[d] = Turned(@)]

\* A wait of n ticks begins.
LEMMA WaitBegins ==
  ASSUME NEW s, WheelOK(s), NEW t \in Task, NEW n \in 1..MaxTimeout,
         \A j \in Wheel : ~Listed(s.list[j], t),
         NEW i, NEW r, Begun(r, s, i, t, n)
  PROVE  WheelOK(r) /\ \A u : LeftOn(r, u) = IF u = t THEN n ELSE LeftOn(s, u)
<1>1. s.cursor \in Wheel /\ \A j \in Wheel : Sound(s.list[j], Task, MostTurns)
  BY DEF WheelOK
<1>2. i \in Wheel /\ Turns(n) \in 0..MostTurns /\ Distance(i, s.cursor) + SortLinkLen * Turns(n) = n
  BY <1>1, PlaceOfWait DEF Begun
<1>3. PICK m \in 0..MostTurns : m = Turns(n)
  BY <1>2
<1>4. PICK new : new = Insert(s.list[i], t, m)
  OBVIOUS
<1>5. r = [cursor |-> s.cursor, list |-> [j \in Wheel |-> IF j = i THEN new ELSE s.list[j]]]
  BY <1>2, <1>3, <1>4 DEF WheelOK, Begun
<1>6. /\ Sound(new, Task, MostTurns)
      /\ \A y, k : At(new, y, k) <=> At(s.list[i], y, k) \/ (y = t /\ k = m)
  BY <1>1, <1>2, <1>4, TurnsFit, InsertPuts
<1>7. \A u : Listed(new, u) => Listed(s.list[i], u) \/ (u = t /\ \A j \in Wheel : ~Listed(s.list[j], t))
  BY <1>1, <1>2, <1>6, ListedIs
<1>8. /\ WheelOK(r) /\ r.cursor = s.cursor
      /\ \A j \in Wheel : r.list[j] = IF j = i THEN new ELSE s.list[j]
  <2>1. Relinked(r, s, i, new, t, s.cursor)
    BY <1>1, <1>2, <1>5, <1>6, <1>7 DEF Relinked
  <2> QED
    BY <2>1, WheelFrom
<1>9. LeftOn(r, t) = n
  <2>1. At(r.list[i], t, m)
    BY <1>2, <1>6, <1>8
  <2>2. LeftOn(r, t) = Distance(i, r.cursor) + SortLinkLen * m
    BY <1>2, <1>8, <2>1, LeftIs
  <2> QED
    BY <1>2, <1>3, <1>8, <2>2
<1>10. ASSUME NEW u, u # t
       PROVE  LeftOn(r, u) = LeftOn(s, u)
  <2>1. \A j \in Wheel : \A k : At(r.list[j], u, k) <=> At(s.list[j], u, k)
    BY <1>6, <1>8, <1>10
  <2> QED
    BY <1>8, <2>1, SameLeft DEF SameFor
<1> QED
  BY <1>8, <1>9, <1>10

\* A wait ends before its time.
LEMMA WaitEnds ==
  ASSUME NEW s, WheelOK(s), NEW t, NEW i \in Wheel, Listed(s.list[i], t),
         NEW r, Ended(r, s, i, t)
  PROVE  WheelOK(r) /\ \A u : LeftOn(r, u) = IF u = t THEN 0 ELSE LeftOn(s, u)
<1>1. s.cursor \in Wheel /\ \A j \in Wheel : Sound(s.list[j], Task, MostTurns)
  BY DEF WheelOK
<1>2. PICK new : new = Unlinked(s.list[i], t)
  OBVIOUS
<1>3. r = [cursor |-> s.cursor, list |-> [j \in Wheel |-> IF j = i THEN new ELSE s.list[j]]]
  BY <1>2 DEF WheelOK, Ended
<1>4. /\ Sound(new, Task, MostTurns)
      /\ \A y, k : At(new, y, k) <=> At(s.list[i], y, k) /\ y # t
  BY <1>1, <1>2, TurnsFit, UnlinkedTakes
<1>5. \A u : Listed(new, u) => Listed(s.list[i], u)
  BY <1>1, <1>4, ListedIs
<1>6. /\ WheelOK(r) /\ r.cursor = s.cursor
      /\ \A j \in Wheel : r.list[j] = IF j = i THEN new ELSE s.list[j]
  <2>1. Relinked(r, s, i, new, t, s.cursor)
    BY <1>1, <1>3, <1>4, <1>5 DEF Relinked
  <2> QED
    BY <2>1, WheelFrom
<1>7. LeftOn(r, t) = 0
  <2>1. ASSUME NEW j \in Wheel, NEW m, At(r.list[j], t, m)
        PROVE  FALSE
    <3>1. j # i
      BY <1>4, <1>6, <2>1
    <3>2. At(s.list[j], t, m)
      BY <1>6, <2>1, <3>1
    <3>3. Listed(s.list[j], t)
      BY <1>1, <3>2, ListedIs
    <3> QED
      BY <3>1, <3>3 DEF WheelOK
  <2> QED
    BY <1>6, <2>1, LeftIs
<1>8. ASSUME NEW u, u # t
      PROVE  LeftOn(r, u) = LeftOn(s, u)
  <2>1. \A j \in Wheel : \A k : At(r.list[j], u, k) <=> At(s.list[j], u, k)
    BY <1>4, <1>6, <1>8
  <2> QED
    BY <1>6, <2>1, SameLeft DEF SameFor
<1> QED
  BY <1>6, <1>7, <1>8

\* One turn less for those that stay.
LEMMA TurnedDown ==
  ASSUME NEW list, NEW S, NEW b \in Nat, Sound(list, S, b)
  PROVE  /\ Sound(Turned(list), S, b)
         /\ \A y : \A m \in Nat : At(Turned(list), y, m) <=> At(list, y, m + 1)
<1>1. PICK stay : stay = SubSeq(list, Len(Due(list)) + 1, Len(list))
  OBVIOUS
<1>2. Sound(stay, S, b) /\ \A y, m : At(stay, y, m) <=> At(list, y, m) /\ m # 0
  BY <1>1, RestOf
<1>3. \A i \in DOMAIN stay : Upto(stay, i) # 0
  BY <1>2 DEF At
<1>4. Counted(Turned(list), stay)
  BY <1>1 DEF Turned, Counted
<1>5. /\ Sound(Turned(list), S, b)
      /\ \A y : \A m \in Nat : At(Turned(list), y, m) <=> At(stay, y, m + 1)
  BY <1>2, <1>3, <1>4, CountsDown
<1>6. \A m \in Nat : m + 1 # 0
  OBVIOUS
<1> QED
  BY <1>2, <1>5, <1>6

\* The wheel goes on by one place.
LEMMA WheelTurns ==
  ASSUME NEW s, WheelOK(s), NEW d, NEW r, Scanned(r, s, d)
  PROVE  /\ WheelOK(r)
         /\ \A u : LeftOn(s, u) \in Nat /\ LeftOn(r, u) = IF LeftOn(s, u) = 0 THEN 0 ELSE LeftOn(s, u) - 1
<1>1. s.cursor \in Wheel /\ \A j \in Wheel : Sound(s.list[j], Task, MostTurns)
  BY DEF WheelOK
<1>2. /\ d \in Wheel /\ Distance(d, s.cursor) = 1 /\ Distance(d, d) = SortLinkLen
      /\ \A i \in Wheel \ {d} : Distance(i, d) = Distance(i, s.cursor) - 1 /\ Distance(i, s.cursor) > 1
  BY <1>1, NextPlace DEF Scanned
<1>3. PICK new : new = Turned(s.list[d])
  OBVIOUS
<1>4. r = [cursor |-> d, list |-> [j \in Wheel |-> IF j = d THEN new ELSE s.list[j]]]
  <2>1. r = [cursor |-> d, list |-> [s.list EXCEPT ![d] = Turned(@)]]
    BY DEF WheelOK, Scanned
  <2>2. DOMAIN s.list = Wheel
    BY DEF WheelOK
  <2>3. [s.list EXCEPT ![d] = Turned(@)] = [j \in Wheel |-> IF j = d THEN new ELSE s.list[j]]
    BY <1>2, <1>3, <2>2
  <2> QED
    BY <2>1, <2>3
<1>5. /\ Sound(new, Task, MostTurns)
      /\ \A y : \A m \in Nat : At(new, y, m) <=> At(s.list[d], y, m + 1)
  BY <1>1, <1>2, <1>3, TurnsFit, TurnedDown
<1>6. \A u : Listed(new, u) => Listed(s.list[d], u)
  <2> TAKE u
  <2> HAVE Listed(new, u)
  <2>1. PICK m \in 0..MostTurns : At(new, u, m)
    BY <1>5, ListedIs
  <2>2. At(s.list[d], u, m + 1)
    BY <1>5, <2>1, TurnsFit
  <2> QED
    BY <1>1, <1>2, <2>2, ListedIs
<1>7. /\ WheelOK(r) /\ r.cursor = d
      /\ \A j \in Wheel : r.list[j] = IF j = d THEN new ELSE s.list[j]
  <2>1. Relinked(r, s, d, new, d, d)
    BY <1>2, <1>4, <1>5, <1>6 DEF Relinked
  <2> QED
    BY <2>1, WheelFrom
<1>8. ASSUME NEW u
      PROVE  LeftOn(s, u) \in Nat /\ LeftOn(r, u) = IF LeftOn(s, u) = 0 THEN 0 ELSE LeftOn(s, u) - 1
  <2>1. CASE \A i \in Wheel : \A m : ~At(s.list[i], u, m)
    <3>1. LeftOn(s, u) = 0
      BY <2>1, LeftIs
    <3>2. ASSUME NEW i \in Wheel, NEW m, At(r.list[i], u, m)
          PROVE  FALSE
      <4>1. i = d /\ At(new, u, m)
        BY <1>7, <2>1, <3>2
      <4>2. m \in 0..MostTurns
        BY <1>5, <4>1, ListedIs
      <4>3. At(s.list[d], u, m + 1)
        BY <1>5, <4>1, <4>2, TurnsFit
      <4> QED
        BY <1>2, <2>1, <4>3
    <3>3. LeftOn(r, u) = 0
      BY <1>7, <3>2, LeftIs
    <3> QED
      BY <3>1, <3>3
  <2>2. CASE \E i \in Wheel : \E m : At(s.list[i], u, m)
    <3>0. PICK i \in Wheel : \E m : At(s.list[i], u, m)
      BY <2>2
    <3>1. PICK m : At(s.list[i], u, m)
      BY <3>0
    <3>2. m \in 0..MostTurns /\ LeftOn(s, u) = Distance(i, s.cursor) + SortLinkLen * m
      BY <3>1, LeftIs
    <3>3. PICK l \in Nat : l = SortLinkLen /\ l > 0
      BY TurnsFit
    <3>4. m \in Nat /\ l * m \in Nat
      BY <3>2, TurnsFit
    <3>5. CASE i # d
      <4>1. At(r.list[i], u, m)
        BY <1>7, <3>1, <3>5
      <4>2. LeftOn(r, u) = Distance(i, d) + SortLinkLen * m
        <5>1. LeftOn(r, u) = Distance(i, r.cursor) + SortLinkLen * m
          BY <1>7, <4>1, LeftIs
        <5> QED
          BY <1>7, <5>1
      <4>3. Distance(i, d) = Distance(i, s.cursor) - 1 /\ Distance(i, s.cursor) > 1
        BY <1>2, <3>5
      <4>4. Distance(i, s.cursor) \in Int
        <5>1. Distance(i, s.cursor) = IF i > s.cursor THEN i - s.cursor ELSE (i - s.cursor) + SortLinkLen
          BY <1>1, Distances
        <5> QED
          BY <1>1, <3>3, <5>1 DEF Wheel
      <4> QED
        BY <3>2, <3>3, <3>4, <4>2, <4>3, <4>4
    <3>6. CASE i = d /\ m = 0
      <4>1. LeftOn(s, u) = 1
        BY <1>2, <3>2, <3>3, <3>6
      <4>2. ASSUME NEW j \in Wheel, NEW k, At(r.list[j], u, k)
            PROVE  FALSE
        <5>1. Listed(s.list[d], u)
          BY <1>1, <1>2, <3>1, <3>6, ListedIs
        <5>2. CASE j = d
          <6>1. k \in 0..MostTurns /\ At(new, u, k)
            BY <1>5, <1>7, <4>2, <5>2, ListedIs
          <6>2. At(s.list[d], u, k + 1) /\ k + 1 # 0
            BY <1>5, <6>1, TurnsFit
          <6>3. \A m1, m2 : At(s.list[d], u, m1) /\ At(s.list[d], u, m2) => m1 = m2
            BY <1>1, <1>2, ListedIs
          <6> QED
            BY <3>1, <3>6, <6>2, <6>3
        <5>3. CASE j # d
          <6>1. Listed(s.list[j], u)
            BY <1>1, <1>7, <4>2, <5>3, ListedIs
          <6> QED
            BY <1>2, <5>1, <5>3, <6>1 DEF WheelOK
        <5> QED
          BY <5>2, <5>3
      <4>3. LeftOn(r, u) = 0
        BY <1>7, <4>2, LeftIs
      <4> QED
        BY <4>1, <4>3
    <3>7. CASE i = d /\ m # 0
      <4>1. PICK k \in Nat : m = k + 1
        <5>1. m - 1 \in Nat /\ m = (m - 1) + 1
          BY <3>4, <3>7
        <5> QED
          BY <5>1
      <4>2. At(r.list[d], u, k)
        BY <1>2, <1>5, <1>7, <3>1, <3>7, <4>1
      <4>3. LeftOn(r, u) = SortLinkLen + SortLinkLen * k
        <5>1. LeftOn(r, u) = Distance(d, r.cursor) + SortLinkLen * k
          BY <1>2, <1>7, <4>2, LeftIs
        <5> QED
          BY <1>2, <1>7, <5>1
      <4>4. LeftOn(s, u) = 1 + l * m /\ LeftOn(r, u) = l + l * k
        BY <1>2, <3>2, <3>3, <3>7, <4>3
      <4>5. l * m = l * k + l /\ l * k \in Nat
        BY <4>1
      <4> QED
        BY <3>3, <3>4, <4>4, <4>5
    <3> QED
      BY <3>5, <3>6, <3>7
  <2> QED
    BY <2>1, <2>2
<1> QED
  BY <1>7, <1>8

\* TicksLeft, as a function of the wheel.
LEMMA TicksLeftIs ==
  ASSUME NEW t
  PROVE  /\ TicksLeft(t) = LeftOn(g_stTskSortLink, t)
         /\ TicksLeft(t)' = LeftOn(g_stTskSortLink', t)
         /\ Waits(t) <=> \E i \in Wheel : Listed(g_stTskSortLink.list[i], t)
  BY DEF TicksLeft, LeftOn, Waits, Index

\* The invariant of the waits.
WheelInv == WheelOK(g_stTskSortLink) /\ asked \in [Task -> 0..MaxTimeout]

\* The wheel begins empty.
LEMMA WheelStarts == TaskTimersInit => WheelInv /\ TaskWaits!Init
<1> SUFFICES ASSUME TaskTimersInit
             PROVE  WheelInv /\ TaskWaits!Init
  OBVIOUS
<1>1. /\ g_stTskSortLink = [cursor |-> 0, list |-> [i \in Wheel |-> <<>>]]
      /\ asked = [t \in Task |-> 0]
  BY DEF TaskTimersInit
<1>2. /\ g_stTskSortLink.cursor = 0 /\ 0 \in Wheel
      /\ \A i \in Wheel : g_stTskSortLink.list[i] = <<>>
  BY <1>1, TurnsFit DEF Wheel
<1>3. \A t : ~Listed(<<>>, t)
  BY DEF Listed
<1>4. Sound(<<>>, Task, MostTurns)
  BY DEF Sound
<1>5. g_stTskSortLink = [cursor |-> g_stTskSortLink.cursor,
                         list |-> [i \in Wheel |-> g_stTskSortLink.list[i]]]
  BY <1>1
<1>6. WheelOK(g_stTskSortLink)
  BY <1>2, <1>3, <1>4, <1>5 DEF WheelOK
<1>7. asked \in [Task -> 0..MaxTimeout]
  BY <1>1, TaskTimersAssumption
<1>8. ASSUME NEW t \in Task
      PROVE  TicksLeft(t) = 0
  <2>1. PICK s : s = g_stTskSortLink
    OBVIOUS
  <2>2. WheelOK(s) /\ \A i \in Wheel : ~Listed(s.list[i], t)
    BY <1>2, <1>3, <1>6, <2>1
  <2>3. LeftOn(s, t) = 0
    BY <2>2, LeftIs
  <2> QED
    BY <2>1, <2>3, TicksLeftIs
<1>9. TaskWaits!Init
  BY <1>7, <1>8 DEF TaskWaits!Init
<1> QED
  BY <1>6, <1>7, <1>9 DEF WheelInv

\* The calls on waits keep the invariant, and are what Deadlines says.
LEMMA WaitsMove == WheelInv /\ TaskTimersCall => WheelInv' /\ TaskWaits!Next
<1> SUFFICES ASSUME WheelInv, TaskTimersCall
             PROVE  WheelInv' /\ TaskWaits!Next
  OBVIOUS
<1>0. PICK s : s = g_stTskSortLink
  OBVIOUS
<1>1. WheelOK(s) /\ asked \in [Task -> 0..MaxTimeout]
  BY <1>0 DEF WheelInv
<1>2. PICK t \in Task : \/ \E n \in 1..MaxTimeout : osTaskAdd2TimerList(t, n)
                        \/ osTimerListDelete(t)
  BY DEF TaskTimersCall
<1>3. PICK r : r = g_stTskSortLink'
  OBVIOUS
<1>4. \A u : TicksLeft(u) = LeftOn(s, u) /\ TicksLeft(u)' = LeftOn(r, u)
  BY <1>0, <1>3, TicksLeftIs
<1>5. ASSUME NEW n \in 1..MaxTimeout, osTaskAdd2TimerList(t, n)
      PROVE  WheelInv' /\ TaskWaits!Arm(t)
  <2>1. \A j \in Wheel : ~Listed(s.list[j], t)
    BY <1>0, <1>5, TicksLeftIs DEF osTaskAdd2TimerList
  <2>2. PICK i : Begun(r, s, i, t, n)
    BY <1>0, <1>3, <1>5 DEF osTaskAdd2TimerList, Begun
  <2>3. asked' = [asked EXCEPT ![t] = n] /\ n \in 0..MaxTimeout
    BY <1>5 DEF osTaskAdd2TimerList
  <2>4. WheelOK(r) /\ \A u : LeftOn(r, u) = IF u = t THEN n ELSE LeftOn(s, u)
    BY <1>1, <2>1, <2>2, WaitBegins
  <2>5. WheelInv'
    BY <1>1, <1>3, <2>3, <2>4 DEF WheelInv
  <2>6. PICK p : p = [ticks |-> n, repeats |-> FALSE, loose |-> FALSE]
    OBVIOUS
  <2>7. p \in [ticks : 0..MaxTimeout, repeats : {FALSE}, loose : {FALSE}] /\ p.ticks = n /\ p.loose = FALSE
    BY <2>3, <2>6
  <2>8. [u \in Task |-> [ticks |-> asked[u], repeats |-> FALSE, loose |-> FALSE]]'
        = [[u \in Task |-> [ticks |-> asked[u], repeats |-> FALSE, loose |-> FALSE]] EXCEPT ![t] = p]
    BY <1>1, <2>3, <2>6
  <2>9. [u \in Task |-> TicksLeft(u)]' = [[u \in Task |-> TicksLeft(u)] EXCEPT ![t] = n]
    BY <1>4, <2>4
  <2> QED
    BY <2>5, <2>7, <2>8, <2>9 DEF TaskWaits!Arm
<1>6. ASSUME osTimerListDelete(t)
      PROVE  WheelInv' /\ TaskWaits!Disarm(t)
  <2>1. PICK i \in Wheel : Listed(s.list[i], t) /\ Ended(r, s, i, t)
    BY <1>0, <1>3, <1>6 DEF osTimerListDelete, Ended, Index
  <2>2. asked' = asked
    BY <1>6 DEF osTimerListDelete
  <2>3. WheelOK(r) /\ \A u : LeftOn(r, u) = IF u = t THEN 0 ELSE LeftOn(s, u)
    BY <1>1, <2>1, WaitEnds
  <2>4. WheelInv'
    BY <1>1, <1>3, <2>2, <2>3 DEF WheelInv
  <2>5. [u \in Task |-> TicksLeft(u)]' = [[u \in Task |-> TicksLeft(u)] EXCEPT ![t] = 0]
    BY <1>4, <2>3
  <2> QED
    BY <2>2, <2>4, <2>5 DEF TaskWaits!Disarm
<1> QED
  BY <1>2, <1>5, <1>6 DEF TaskWaits!Next

\* A tick is a tick for all waits.
LEMMA WaitsTick == WheelInv /\ osTaskScan /\ UNCHANGED asked => WheelInv' /\ TaskWaits!Tick
<1> SUFFICES ASSUME WheelInv, osTaskScan, asked' = asked
             PROVE  WheelInv' /\ TaskWaits!Tick
  OBVIOUS
<1>0. PICK s : s = g_stTskSortLink
  OBVIOUS
<1>1. WheelOK(s) /\ asked \in [Task -> 0..MaxTimeout]
  BY <1>0 DEF WheelInv
<1>2. PICK r : r = g_stTskSortLink'
  OBVIOUS
<1>3. \A u : TicksLeft(u) = LeftOn(s, u) /\ TicksLeft(u)' = LeftOn(r, u)
  BY <1>0, <1>2, TicksLeftIs
<1>4. PICK d : Scanned(r, s, d)
  BY <1>0, <1>2 DEF osTaskScan, Scanned
<1>5. /\ WheelOK(r)
      /\ \A u : LeftOn(s, u) \in Nat /\ LeftOn(r, u) = IF LeftOn(s, u) = 0 THEN 0 ELSE LeftOn(s, u) - 1
  BY <1>1, <1>4, WheelTurns
<1>6. WheelInv'
  BY <1>1, <1>2, <1>5 DEF WheelInv
<1>7. ASSUME NEW u \in Task
      PROVE  TicksLeft(u)' = TaskWaits!AfterTick(u)
  <2>1. LeftOn(s, u) \in Nat /\ LeftOn(r, u) = IF LeftOn(s, u) = 0 THEN 0 ELSE LeftOn(s, u) - 1
    BY <1>5
  <2>2. TaskWaits!AfterTick(u) = CASE LeftOn(s, u) > 1 -> LeftOn(s, u) - 1
                                   [] LeftOn(s, u) = 1 -> 0
                                   [] OTHER -> 0
    BY <1>3 DEF TaskWaits!AfterTick
  <2> QED
    BY <1>3, <2>1, <2>2
<1>8. TaskWaits!Tick
  BY <1>7 DEF TaskWaits!Tick
<1> QED
  BY <1>6, <1>8

-----------------------------------------------------------------------------
(* The list of the software timers                                         *)

MostTicks == Wrap - 1

\* What the constants are.
LEMMA TimerConstants ==
  /\ Wrap \in Nat /\ Wrap > 0 /\ MostTicks \in Nat /\ MostTicks < Wrap
  /\ LOSCFG_BASE_CORE_SWTMR_LIMIT \in Nat /\ Timer = 0..LOSCFG_BASE_CORE_SWTMR_LIMIT - 1
  /\ \A p \in TimerPlan : p.interval \in 1..MostTicks
BY DeltaListAssumption, SoftwareTimersAssumption DEF MostTicks, Timer

\* The bits of a timer that ticks.
Full(t) == IF CanAlign(t) = {} THEN {} ELSE CanAlign(t) \cup {"ALREADY"}

\* The control blocks are what their type says.
BlocksOK == swtmr \in [Timer -> [ucState : {"UNUSED", "CREATED", "TICKING"}, plan : TimerPlan]]

\* A timer is in the list while it ticks, neither due nor further away than its interval,
\* and its bits say whether it may be aligned and is.
TimerFits(t) ==
  /\ Listed(m_pstSwtmrSortList, t) <=> swtmr[t].ucState = "TICKING"
  /\ \A m : At(m_pstSwtmrSortList, t, m) => m \in 1..Interval(t)
  /\ swtmr[t].ucState = "TICKING" => m_uwSwTmrAlignID[t] = Full(t)
  /\ swtmr[t].ucState = "CREATED" => m_uwSwTmrAlignID[t] \in {{}, CanAlign(t)}
  /\ swtmr[t].ucState = "UNUSED" => m_uwSwTmrAlignID[t] = {}

\* The invariant of the timers while no tick handler is left in the middle.
SwtInv ==
  /\ BlocksOK
  /\ Sound(m_pstSwtmrSortList, Timer, MostTicks)
  /\ m_uwSwTmrAlignID \in [Timer -> SUBSET {"ALREADY", "CAN", "MULTI"}]
  /\ \A t \in Timer : TimerFits(t)
  /\ m_uwSwTmrHandlerQueue \in BoundedSeq(Timer, LOSCFG_BASE_CORE_SWTMR_LIMIT)
  /\ swt \in {"waits", "runs"} /\ parked = <<>>

\* The plan and the interval of a timer.
LEMMA PlansFit ==
  ASSUME BlocksOK, NEW t \in Timer
  PROVE  /\ swtmr[t] = [ucState |-> swtmr[t].ucState, plan |-> swtmr[t].plan]
         /\ swtmr[t].ucState \in {"UNUSED", "CREATED", "TICKING"} /\ swtmr[t].plan \in TimerPlan
         /\ Interval(t) \in 1..MostTicks /\ Interval(t) \in Nat \ {0}
         /\ swtmr[t].plan.mode \in {"once", "period", "no_selfdelete"}
         /\ CanAlign(t) \in {{}, {"CAN"}, {"CAN", "MULTI"}}
<1>1. swtmr[t] \in [ucState : {"UNUSED", "CREATED", "TICKING"}, plan : TimerPlan]
  BY DEF BlocksOK
<1>2. /\ swtmr[t] = [ucState |-> swtmr[t].ucState, plan |-> swtmr[t].plan]
      /\ swtmr[t].ucState \in {"UNUSED", "CREATED", "TICKING"} /\ swtmr[t].plan \in TimerPlan
  BY <1>1
<1>3. Interval(t) \in 1..MostTicks
  BY <1>2, TimerConstants DEF Interval
<1>4. Interval(t) \in Nat \ {0}
  BY <1>3, TimerConstants
<1>5. swtmr[t].plan.mode \in {"once", "period", "no_selfdelete"}
  BY <1>2, SoftwareTimersAssumption
<1>6. CanAlign(t) \in {{}, {"CAN"}, {"CAN", "MULTI"}}
  BY DEF CanAlign
<1> QED
  BY <1>2, <1>3, <1>4, <1>5, <1>6

\* Remaining is the number in the list.
LEMMA RemainingIs ==
  ASSUME NEW list, Sound(list, Timer, MostTicks), list = m_pstSwtmrSortList, NEW t
  PROVE  /\ \A m : At(list, t, m) => Remaining(t) = m /\ t \in Timer /\ m \in 0..MostTicks
         /\ (\A m : ~At(list, t, m)) => Remaining(t) = 0
         /\ Listed(list, t) <=> \E m : At(list, t, m)
<1>1. /\ Listed(list, t) <=> \E n \in 0..MostTicks : At(list, t, n)
      /\ \A n : At(list, t, n) =>
           n \in 0..MostTicks /\ t \in Timer /\ Listed(list, t) /\ Number(list, t) = n
  <2>1. MostTicks \in Nat /\ MostTicks < Wrap
    BY TimerConstants
  <2> QED
    BY <2>1, ReadOff
<1> QED
  BY <1>1 DEF Remaining

\* A divisor is not greater than what it divides.
LEMMA DivisorsAreLess ==
  ASSUME NEW i \in Nat \ {0}, NEW j \in Nat \ {0}, Divides(i, j)
  PROVE  i <= j
<1>1. SUFFICES ASSUME i > j
               PROVE  FALSE
  OBVIOUS
<1>2. j \in 0..i - 1 /\ j = i * 0 + j
  BY <1>1
<1>3. j % i = j
  BY <1>2, RemainderIsTheOne
<1> QED
  BY <1>3 DEF Divides

\* Nearest is one of the timers, and none is nearer.
LEMMA NearestIs ==
  ASSUME BlocksOK, NEW t \in Timer, NEW T \in SUBSET Timer, T # {}
  PROVE  /\ Nearest(t, T) \in T
         /\ (\A v \in T : Interval(v) < Interval(t)) => \A v \in T : Interval(v) <= Interval(Nearest(t, T))
<1> DEFINE distance(u) == IF Interval(u) >= Interval(t) THEN Interval(u) ELSE -Interval(u)
           far(u) == distance(u) + MostTicks
           Far == {far(u) : u \in T}
           Best(u) == \A v \in T : \/ distance(u) < distance(v)
                                   \/ distance(u) = distance(v) /\ u <= v
<1>1. \A u \in T : u \in Timer /\ u \in Nat /\ Interval(u) \in 1..MostTicks /\ Interval(t) \in 1..MostTicks
  <2>1. Interval(t) \in 1..MostTicks
    BY PlansFit
  <2> TAKE u \in T
  <2>2. u \in Timer
    OBVIOUS
  <2>3. Interval(u) \in 1..MostTicks
    BY <2>2, PlansFit
  <2>4. u \in Nat
    BY <2>2, TimerConstants
  <2> QED
    BY <2>1, <2>2, <2>3, <2>4
<1>2. \A u \in T : distance(u) \in Int /\ far(u) \in Nat
  BY <1>1, TimerConstants
<1> HIDE DEF distance
<1>3. Far \in SUBSET Nat /\ Far # {}
  BY <1>2
<1>4. Min(Far) \in Far /\ \A y \in Far : Min(Far) <= y
  <2> HIDE DEF Far
  <2> QED
    BY <1>3, MinIsLeast
<1>5. PICK a \in T : far(a) = Min(Far)
  BY <1>4
<1>6. \A v \in T : distance(a) <= distance(v)
  <2> TAKE v \in T
  <2>1. far(a) <= far(v)
    BY <1>4, <1>5
  <2> QED
    BY <1>2, <2>1, TimerConstants
<1> HIDE DEF Far
<1> DEFINE Equal == {v \in T : distance(v) = distance(a)}
<1>7. Equal \in SUBSET Nat /\ Equal # {}
  BY <1>1
<1>8. PICK u : u = Min(Equal) /\ u \in Equal /\ \A v \in Equal : u <= v
  <2> HIDE DEF Equal
  <2> QED
    BY <1>7, MinIsLeast
<1>9. u \in T /\ Best(u)
  <2>1. u \in T /\ distance(u) = distance(a)
    BY <1>8
  <2>2. ASSUME NEW v \in T
        PROVE  distance(u) < distance(v) \/ (distance(u) = distance(v) /\ u <= v)
    <3>1. CASE distance(v) = distance(a)
      BY <1>8, <2>1, <3>1
    <3>2. CASE distance(v) # distance(a)
      BY <1>2, <1>6, <2>1, <3>2
    <3> QED
      BY <3>1, <3>2
  <2> QED
    BY <2>1, <2>2
<1>10. Nearest(t, T) = CHOOSE w \in T : Best(w)
  BY DEF Nearest, distance
<1>11. Nearest(t, T) \in T /\ Best(Nearest(t, T))
  <2> HIDE DEF Best
  <2> QED
    BY <1>9, <1>10
<1>12. ASSUME \A v \in T : Interval(v) < Interval(t), NEW v \in T
       PROVE  Interval(v) <= Interval(Nearest(t, T))
  <2>1. PICK w \in T : w = Nearest(t, T)
    BY <1>11
  <2>2. distance(w) <= distance(v)
    BY <1>2, <1>11, <2>1
  <2>3. distance(w) = -Interval(w) /\ distance(v) = -Interval(v)
    BY <1>1, <1>12 DEF distance
  <2> QED
    BY <1>1, <2>1, <2>2, <2>3
<1> QED
  BY <1>11, <1>12

\* The timers that t may be put in phase with.
Larger(t, bits) == {u \in Timer \ {t} : Multiple(u, bits) /\ Divides(Interval(t), Interval(u))}
Little(t, bits) == {u \in Timer \ {t} : Multiple(u, bits) /\ Divides(Interval(u), Interval(t))}

\* With which numbers osSwTmrStart may list t.
StartsAt(t, list, bits, n) ==
  \/ /\ bits[t] = {"CAN", "MULTI"}
     /\ \E u \in Larger(t, bits) : \E m :
          At(list, u, m) /\ n = Interval(t) - ((Interval(u) - m) % Interval(t))
  \/ /\ bits[t] = {"CAN", "MULTI"} /\ Larger(t, bits) = {}
     /\ \E u \in Little(t, bits) : At(list, u, n) /\ \A v \in Little(t, bits) : Interval(v) <= Interval(u)
  \/ /\ bits[t] = {"CAN"}
     /\ \E u \in Timer : Aligned(u, bits) /\ Interval(u) = Interval(t) /\ At(list, u, n)
  \/ /\ n = Interval(t)
     /\ bits[t] = {"CAN", "MULTI"} => Larger(t, bits) = {} /\ Little(t, bits) = {}
     /\ bits[t] = {"CAN"} =>
          \A u \in Timer : \A m : At(list, u, m) => ~(Aligned(u, bits) /\ Interval(u) = Interval(t))

\* The timers other than t that are aligned are listed, and none is further from its end
\* than its interval.
Others(list, bits, t) == \A u \in Timer \ {t} :
  /\ Aligned(u, bits) => Listed(list, u)
  /\ \A m : At(list, u, m) => m \in 1..Interval(u)

\* t is put behind another timer, to expire together with it.
LEMMA TogetherPuts ==
  ASSUME NEW list, Sound(list, Timer, MostTicks), NEW t \in Timer, ~Listed(list, t),
         NEW i \in 1..Len(list)
  PROVE  /\ At(list, list[i].item, Upto(list, i)) /\ list[i].item \in Timer
         /\ Sound(Behind(list, i, t, 0), Timer, MostTicks)
         /\ \A y, m : At(Behind(list, i, t, 0), y, m) <=> At(list, y, m) \/ (y = t /\ m = Upto(list, i))
<1>1. i \in 0..Len(list) /\ DOMAIN list = 1..Len(list) /\ list[i].item \in Timer
  <2>1. Len(list) \in Nat /\ DOMAIN list = 1..Len(list) /\ list[i].item \in Timer
    BY SoundSums, TimerConstants
  <2>2. i \in 0..Len(list)
    BY <2>1
  <2> QED
    BY <2>1, <2>2
<1>2. Upto(list, i) \in 0..MostTicks
  BY <1>1, SoundSums, TimerConstants
<1>3. Upto(list, i) + 0 <= MostTicks /\ Upto(list, i) + 0 = Upto(list, i)
  BY <1>2, TimerConstants
<1>4. i < Len(list) => 0 <= list[i + 1].delta
  <2> HAVE i < Len(list)
  <2>1. i + 1 \in 1..Len(list)
    BY <1>1
  <2>2. list[i + 1].delta \in 0..MostTicks
    BY <2>1, SoundSums, TimerConstants
  <2> QED
    BY <2>2
<1>5. PICK d \in Nat : d = 0
  OBVIOUS
<1>6. PICK new : new = Behind(list, i, t, d)
  OBVIOUS
<1>7. /\ Sound(new, Timer, MostTicks)
      /\ \A y, m : At(new, y, m) <=> At(list, y, m) \/ (y = t /\ m = Upto(list, i) + d)
  BY <1>1, <1>3, <1>4, <1>5, <1>6, TimerConstants, BehindPuts
<1>8. At(list, list[i].item, Upto(list, i))
  BY <1>1 DEF At
<1> QED
  BY <1>1, <1>3, <1>5, <1>6, <1>7, <1>8

\* In phase with a longer interval: at once or later, but not after the interval.
LEMMA PhaseIs ==
  ASSUME NEW i \in Nat \ {0}, NEW j \in Int, NEW m \in Int
  PROVE  i - ((j - m) % i) \in 1..i
<1>1. PICK x \in Int : x = j - m
  OBVIOUS
<1>2. x % i \in 0..i - 1
  BY RemainderIs
<1> QED
  BY <1>1, <1>2

\* How osSwTmrStart lists t.
LEMMA StartPuts ==
  ASSUME BlocksOK, NEW list, Sound(list, Timer, MostTicks), NEW t \in Timer, ~Listed(list, t),
         NEW bits, bits[t] \in {{"CAN"}, {"CAN", "MULTI"}} => Others(list, bits, t)
  PROVE  /\ Sound(osSwTmrStart(t, list, bits), Timer, MostTicks)
         /\ \E n \in 1..Interval(t) :
              /\ StartsAt(t, list, bits, n)
              /\ \A y, m : At(osSwTmrStart(t, list, bits), y, m) <=> At(list, y, m) \/ (y = t /\ m = n)
<1> DEFINE same == {i \in DOMAIN list : /\ Aligned(list[i].item, bits)
                                        /\ Interval(list[i].item) = Interval(t)}
           Put(new, n) == /\ Sound(new, Timer, MostTicks)
                          /\ \A y, m : At(new, y, m) <=> At(list, y, m) \/ (y = t /\ m = n)
<1>1. Interval(t) \in 1..MostTicks /\ Interval(t) \in Nat \ {0}
  BY PlansFit
<1>2. DOMAIN list = 1..Len(list) /\ Len(list) \in Nat
  BY SoundSums, TimerConstants
<1>3. ASSUME NEW n \in 1..Interval(t)
      PROVE  Put(Insert(list, t, n), n)
  <2>1. n \in 0..MostTicks
    BY <1>1, <1>3, TimerConstants
  <2> QED
    BY <2>1, TimerConstants, InsertPuts
<1>4. \A u \in Timer : Listed(list, u) => \E m : At(list, u, m)
  BY ReadOff, TimerConstants
<1>5. SUFFICES \E n \in 1..Interval(t) : StartsAt(t, list, bits, n) /\ Put(osSwTmrStart(t, list, bits), n)
  OBVIOUS
<1>6. osSwTmrStart(t, list, bits) =
        CASE bits[t] = {"CAN", "MULTI"} /\ Larger(t, bits) # {} ->
               Insert(list, t, InPhase(t, Nearest(t, Larger(t, bits)), list))
          [] bits[t] = {"CAN", "MULTI"} /\ Larger(t, bits) = {} /\ Little(t, bits) # {} ->
               Behind(list, Position(list, Nearest(t, Little(t, bits))), t, 0)
          [] bits[t] = {"CAN"} /\ same # {} -> Behind(list, Min(same), t, 0)
          [] OTHER -> Insert(list, t, Interval(t))
  BY DEF osSwTmrStart, Larger, Little
<1>7. {"CAN"} # {"CAN", "MULTI"}
  OBVIOUS
<1> HIDE DEF Put, same
<1>8. CASE bits[t] = {"CAN", "MULTI"} /\ Larger(t, bits) # {}
  <2>1. PICK u \in Larger(t, bits) : u = Nearest(t, Larger(t, bits))
    BY <1>8, NearestIs DEF Larger
  <2>2. u \in Timer \ {t} /\ Listed(list, u)
    BY <1>8, <2>1 DEF Larger, Others, Multiple
  <2>3. PICK m : At(list, u, m)
    BY <1>4, <2>2
  <2>4. Number(list, u) = m /\ m \in 0..MostTicks
    BY <2>3, ReadOff, TimerConstants
  <2>5. Interval(u) \in Nat \ {0}
    BY <2>2, PlansFit
  <2>6. PICK n : n = Interval(t) - ((Interval(u) - m) % Interval(t))
    OBVIOUS
  <2>7. n \in 1..Interval(t)
    BY <1>1, <2>4, <2>5, <2>6, PhaseIs, TimerConstants
  <2>8. InPhase(t, u, list) = n
    BY <2>4, <2>6 DEF InPhase
  <2>9. osSwTmrStart(t, list, bits) = Insert(list, t, n)
    BY <1>6, <1>8, <2>1, <2>8
  <2>10. Put(osSwTmrStart(t, list, bits), n)
    BY <1>3, <2>7, <2>9
  <2>11. StartsAt(t, list, bits, n)
    BY <1>8, <2>3, <2>6 DEF StartsAt
  <2> QED
    BY <2>7, <2>10, <2>11
<1>9. CASE bits[t] = {"CAN", "MULTI"} /\ Larger(t, bits) = {} /\ Little(t, bits) # {}
  <2>1. PICK u \in Little(t, bits) : u = Nearest(t, Little(t, bits))
    BY <1>9, NearestIs DEF Little
  <2>2. u \in Timer \ {t} /\ Listed(list, u) /\ Divides(Interval(u), Interval(t))
    BY <1>9, <2>1 DEF Little, Others, Multiple
  <2>3. PICK m : At(list, u, m)
    BY <1>4, <2>2
  <2>4. PICK i : i = Position(list, u) /\ i \in 1..Len(list) /\ Upto(list, i) = m
    BY <2>3, ReadOff, TimerConstants
  <2>5. m \in 1..Interval(u) /\ Interval(u) \in Nat \ {0}
    BY <1>9, <2>2, <2>3, PlansFit DEF Others
  <2>6. Interval(u) <= Interval(t)
    BY <1>1, <2>2, <2>5, DivisorsAreLess
  <2>7. m \in 1..Interval(t)
    BY <1>1, <2>5, <2>6
  <2>8. osSwTmrStart(t, list, bits) = Behind(list, i, t, 0)
    BY <1>6, <1>9, <2>1, <2>4
  <2>9. Put(osSwTmrStart(t, list, bits), m)
    BY <2>4, <2>8, TogetherPuts DEF Put
  <2>10. \A v \in Little(t, bits) : Interval(v) < Interval(t)
    <3> TAKE v \in Little(t, bits)
    <3>1. v \in Timer \ {t} /\ Multiple(v, bits) /\ Divides(Interval(v), Interval(t))
      BY DEF Little
    <3>2. Interval(v) \in Nat \ {0}
      BY <3>1, PlansFit
    <3>3. Interval(v) <= Interval(t)
      BY <1>1, <3>1, <3>2, DivisorsAreLess
    <3>4. Interval(v) # Interval(t)
      <4>1. SUFFICES ASSUME Interval(v) = Interval(t)
                     PROVE  FALSE
        OBVIOUS
      <4>2. Divides(Interval(t), Interval(v))
        BY <3>1, <4>1
      <4> QED
        BY <1>9, <3>1, <4>2 DEF Larger
    <3> QED
      BY <1>1, <3>2, <3>3, <3>4
  <2>11. \A v \in Little(t, bits) : Interval(v) <= Interval(u)
    <3>1. Little(t, bits) \in SUBSET Timer
      BY DEF Little
    <3> QED
      BY <1>9, <2>1, <2>10, <3>1, NearestIs
  <2>12. StartsAt(t, list, bits, m)
    BY <1>9, <2>3, <2>11 DEF StartsAt
  <2> QED
    BY <2>7, <2>9, <2>12
<1>10. CASE bits[t] = {"CAN"} /\ same # {}
  <2>1. same \in SUBSET Nat
    BY <1>2 DEF same
  <2>2. PICK i \in same : i = Min(same)
    BY <1>10, <2>1, MinIsLeast
  <2>3. i \in 1..Len(list) /\ Aligned(list[i].item, bits) /\ Interval(list[i].item) = Interval(t)
    BY <1>2, <2>2 DEF same
  <2>4. PICK u, m : u = list[i].item /\ m = Upto(list, i)
    OBVIOUS
  <2>5. At(list, u, m) /\ u \in Timer
    BY <2>3, <2>4, TogetherPuts
  <2>6. u # t
    BY <2>5, ReadOff, TimerConstants
  <2>7. m \in 1..Interval(t)
    BY <1>10, <2>3, <2>4, <2>5, <2>6 DEF Others
  <2>8. osSwTmrStart(t, list, bits) = Behind(list, i, t, 0)
    BY <1>6, <1>7, <1>10, <2>2
  <2>9. Put(osSwTmrStart(t, list, bits), m)
    BY <2>3, <2>4, <2>8, TogetherPuts DEF Put
  <2>10. StartsAt(t, list, bits, m)
    BY <1>10, <2>3, <2>4, <2>5 DEF StartsAt
  <2> QED
    BY <2>7, <2>9, <2>10
<1>11. CASE /\ ~(bits[t] = {"CAN", "MULTI"} /\ Larger(t, bits) # {})
            /\ ~(bits[t] = {"CAN", "MULTI"} /\ Larger(t, bits) = {} /\ Little(t, bits) # {})
            /\ ~(bits[t] = {"CAN"} /\ same # {})
  <2>1. PICK n : n = Interval(t)
    OBVIOUS
  <2>2. osSwTmrStart(t, list, bits) = Insert(list, t, n)
    BY <1>6, <1>11, <2>1
  <2>3. n \in 1..Interval(t)
    BY <1>1, <2>1
  <2>4. Put(osSwTmrStart(t, list, bits), n)
    BY <1>3, <2>2, <2>3
  <2>5. ASSUME bits[t] = {"CAN"}, NEW u \in Timer, NEW m, At(list, u, m)
        PROVE  ~(Aligned(u, bits) /\ Interval(u) = Interval(t))
    <3>1. PICK i \in DOMAIN list : list[i].item = u
      BY <2>5 DEF At
    <3>2. i \notin same
      BY <1>11, <2>5
    <3> QED
      BY <3>1, <3>2 DEF same
  <2>6. StartsAt(t, list, bits, n)
    BY <1>11, <2>1, <2>5 DEF StartsAt
  <2> QED
    BY <2>3, <2>4, <2>6
<1> QED
  BY <1>8, <1>9, <1>10, <1>11

\* A timer that is already aligned, or may not be, is listed for its interval.
LEMMA RepeatPuts ==
  ASSUME BlocksOK, NEW list, Sound(list, Timer, MostTicks), NEW t \in Timer, ~Listed(list, t),
         NEW bits, bits[t] \notin {{"CAN"}, {"CAN", "MULTI"}}
  PROVE  /\ Sound(osSwTmrStart(t, list, bits), Timer, MostTicks)
         /\ \A y, m : At(osSwTmrStart(t, list, bits), y, m) <=> At(list, y, m) \/ (y = t /\ m = Interval(t))
<1>1. PICK n : n = Interval(t)
  OBVIOUS
<1>2. n \in 0..MostTicks
  <2>1. n \in 1..MostTicks
    BY <1>1, PlansFit
  <2> QED
    BY <2>1, TimerConstants
<1>3. PICK new : new = Insert(list, t, n)
  OBVIOUS
<1>4. /\ Sound(new, Timer, MostTicks)
      /\ \A y, m : At(new, y, m) <=> At(list, y, m) \/ (y = t /\ m = n)
  BY <1>2, <1>3, TimerConstants, InsertPuts
<1>5. osSwTmrStart(t, list, bits) = new
  BY <1>1, <1>3 DEF osSwTmrStart
<1> QED
  BY <1>1, <1>4, <1>5

\* The loop of Rearmed: what it has made of list after each timer.
RearmSpec(w, list, timers) ==
  /\ w[0] = list
  /\ \A i \in 1..Len(timers) :
       w[i] = IF Periodic(timers[i]) THEN osSwTmrStart(timers[i], w[i - 1], m_uwSwTmrAlignID) ELSE w[i - 1]
  /\ Rearmed(list, timers) = w[Len(timers)]

\* The loop, as a function of the timers it has passed.
LEMMA RearmLoop ==
  ASSUME NEW list, NEW timers, Len(timers) \in Nat
  PROVE  \E w : RearmSpec(w, list, timers)
<1> DEFINE Step(x, i) == IF Periodic(timers[i]) THEN osSwTmrStart(timers[i], x, m_uwSwTmrAlignID) ELSE x
           Loop(w, n) == w = [i \in 0..n |-> CASE i = 0 -> list
                                          [] i # 0 /\ Periodic(timers[i]) ->
                                               osSwTmrStart(timers[i], w[i - 1], m_uwSwTmrAlignID)
                                          [] OTHER -> w[i - 1]]
           Runs(w, n) == w = [i \in 0..n |-> IF i = 0 THEN list ELSE Step(w[i - 1], i)]
           P == {n \in 0..Len(timers) : \E w : Runs(w, n)}
<1>1. 0 \in P
  <2> DEFINE w == [i \in 0..0 |-> list]
  <2>1. Runs(w, 0)
    OBVIOUS
  <2>2. 0 \in 0..Len(timers)
    OBVIOUS
  <2> HIDE DEF w, Runs
  <2> QED
    BY <2>1, <2>2
<1>2. ASSUME NEW n \in 0..Len(timers) - 1, n \in P
      PROVE  n + 1 \in P
  <2> HIDE DEF Step
  <2>1. PICK v : Runs(v, n)
    BY <1>2
  <2> DEFINE w == [i \in 0..n + 1 |-> IF i = n + 1 THEN Step(v[n], n + 1) ELSE v[i]]
  <2>2. \A i \in 0..n : v[i] = IF i = 0 THEN list ELSE Step(v[i - 1], i)
    BY <2>1
  <2>3. \A i \in 0..n : w[i] = v[i]
    OBVIOUS
  <2>4. w[n + 1] = Step(v[n], n + 1)
    OBVIOUS
  <2>5. ASSUME NEW i \in 0..n + 1
        PROVE  w[i] = IF i = 0 THEN list ELSE Step(w[i - 1], i)
    <3>1. CASE i = n + 1
      BY <2>3, <2>4, <3>1
    <3>2. CASE i # n + 1 /\ i # 0
      <4>1. i \in 0..n /\ i - 1 \in 0..n
        BY <3>2
      <4> QED
        BY <2>2, <2>3, <3>2, <4>1
    <3>3. CASE i = 0
      BY <2>2, <2>3, <3>3
    <3> QED
      BY <3>1, <3>2, <3>3
  <2>6. w = [i \in 0..n + 1 |-> w[i]]
    OBVIOUS
  <2> HIDE DEF w
  <2>7. Runs(w, n + 1)
    BY <2>5, <2>6
  <2> QED
    BY <2>7
<1>3. Len(timers) \in P
  <2> HIDE DEF P
  <2>1. \A i \in 0..Len(timers) : i \in P
    BY <1>1, <1>2, UpTo
  <2> QED
    BY <2>1
<1>4. PICK v : Runs(v, Len(timers))
  BY <1>3
<1>5. \A u : Runs(u, Len(timers)) <=> Loop(u, Len(timers))
  <2> TAKE u
  <2>1. \A i : (CASE i = 0 -> list
                  [] i # 0 /\ Periodic(timers[i]) -> osSwTmrStart(timers[i], u[i - 1], m_uwSwTmrAlignID)
                  [] OTHER -> u[i - 1]) = IF i = 0 THEN list ELSE Step(u[i - 1], i)
    OBVIOUS
  <2> QED
    BY <2>1, Zenon
<1> DEFINE w == CHOOSE w : Loop(w, Len(timers))
<1>6. Loop(w, Len(timers))
  <2> HIDE DEF Loop, Runs
  <2> QED
    BY <1>4, <1>5
<1>7. Rearmed(list, timers) = w[Len(timers)]
  BY DEF Rearmed
<1> HIDE DEF w
<1>8. Runs(w, Len(timers))
  <2> HIDE DEF Loop, Runs
  <2> QED
    BY <1>5, <1>6
<1>9. \A i \in 0..Len(timers) : w[i] = IF i = 0 THEN list ELSE Step(w[i - 1], i)
  BY <1>8
<1>10. \A i \in 1..Len(timers) : i \in 0..Len(timers) /\ i # 0
  OBVIOUS
<1>11. 0 \in 0..Len(timers)
  OBVIOUS
<1> HIDE DEF Loop, Runs
<1>12. RearmSpec(w, list, timers)
  BY <1>7, <1>9, <1>10, <1>11 DEF RearmSpec
<1> QED
  BY <1>12

\* Timers to be armed again: each once, none listed, and all aligned already or not at all.
Leftover(list, timers) ==
  /\ timers \in Seq(Timer)
  /\ \A i, j \in 1..Len(timers) : timers[i] = timers[j] => i = j
  /\ \A i \in 1..Len(timers) :
       /\ ~Listed(list, timers[i])
       /\ Periodic(timers[i]) => m_uwSwTmrAlignID[timers[i]] \notin {{"CAN"}, {"CAN", "MULTI"}}

\* All periodic ones are listed for their intervals.
LEMMA RearmPuts ==
  ASSUME BlocksOK, NEW list, Sound(list, Timer, MostTicks), NEW timers, Leftover(list, timers)
  PROVE  /\ Sound(Rearmed(list, timers), Timer, MostTicks)
         /\ \A y, m : At(Rearmed(list, timers), y, m) <=>
              \/ At(list, y, m)
              \/ \E j \in 1..Len(timers) : y = timers[j] /\ Periodic(y) /\ m = Interval(y)
<1>1. PICK n \in Nat : n = Len(timers)
  BY DEF Leftover
<1>2. /\ \A i \in 1..n : timers[i] \in Timer /\ ~Listed(list, timers[i])
      /\ \A i, j \in 1..n : timers[i] = timers[j] => i = j
      /\ \A i \in 1..n : Periodic(timers[i]) =>
           m_uwSwTmrAlignID[timers[i]] \notin {{"CAN"}, {"CAN", "MULTI"}}
  BY <1>1, ElementOfSeq DEF Leftover
<1>3. PICK w : RearmSpec(w, list, timers)
  BY <1>1, RearmLoop
<1>4. /\ w[0] = list
      /\ \A i \in 1..n : w[i] = IF Periodic(timers[i])
                                THEN osSwTmrStart(timers[i], w[i - 1], m_uwSwTmrAlignID) ELSE w[i - 1]
      /\ Rearmed(list, timers) = w[n]
  BY <1>1, <1>3 DEF RearmSpec
<1> DEFINE Put(i, y, m) == \E j \in 1..i : y = timers[j] /\ Periodic(y) /\ m = Interval(y)
           P == {i \in 0..n : /\ Sound(w[i], Timer, MostTicks)
                              /\ \A y, m : At(w[i], y, m) <=> At(list, y, m) \/ Put(i, y, m)}
<1>5. 0 \in P
  BY <1>4
<1>6. ASSUME NEW i \in 0..n - 1, i \in P
      PROVE  i + 1 \in P
  <2>1. i + 1 \in 1..n /\ (i + 1) - 1 = i /\ i + 1 \in 0..n
    BY <1>1
  <2>2. PICK t : t = timers[i + 1] /\ t \in Timer /\ ~Listed(list, t)
    BY <1>2, <2>1
  <2>3. Sound(w[i], Timer, MostTicks) /\ \A y, m : At(w[i], y, m) <=> At(list, y, m) \/ Put(i, y, m)
    BY <1>6
  <2>4. ~Listed(w[i], t)
    <3>1. \A j \in 1..i : j \in 1..n /\ j # i + 1
      BY <1>1
    <3>2. \A m : ~Put(i, t, m)
      BY <1>2, <2>1, <2>2, <3>1
    <3>3. \A m : ~At(list, t, m)
      BY <2>2, ReadOff, TimerConstants
    <3> HIDE DEF Put
    <3>4. \A m : ~At(w[i], t, m)
      BY <2>3, <3>2, <3>3
    <3>5. Listed(w[i], t) => \E m \in 0..MostTicks : At(w[i], t, m)
      BY <2>3, ReadOff, TimerConstants
    <3> QED
      BY <3>4, <3>5
  <2>5. \A y, m : Put(i + 1, y, m) <=> Put(i, y, m) \/ (y = t /\ Periodic(t) /\ m = Interval(t))
    <3>1. \A j : j \in 1..i + 1 <=> j \in 1..i \/ j = i + 1
      BY <1>1
    <3> QED
      BY <2>2, <3>1
  <2> HIDE DEF Put
  <2>6. CASE Periodic(t)
    <3>1. w[i + 1] = osSwTmrStart(t, w[i], m_uwSwTmrAlignID)
      BY <1>4, <2>1, <2>2, <2>6
    <3>2. m_uwSwTmrAlignID[t] \notin {{"CAN"}, {"CAN", "MULTI"}}
      BY <1>2, <2>1, <2>2, <2>6
    <3>3. PICK list1 : list1 = w[i] /\ Sound(list1, Timer, MostTicks) /\ ~Listed(list1, t)
      BY <2>3, <2>4
    <3>4. /\ Sound(osSwTmrStart(t, list1, m_uwSwTmrAlignID), Timer, MostTicks)
          /\ \A y, m : At(osSwTmrStart(t, list1, m_uwSwTmrAlignID), y, m)
                       <=> At(list1, y, m) \/ (y = t /\ m = Interval(t))
      BY <2>2, <3>2, <3>3, RepeatPuts
    <3>5. /\ Sound(w[i + 1], Timer, MostTicks)
          /\ \A y, m : At(w[i + 1], y, m) <=> At(w[i], y, m) \/ (y = t /\ m = Interval(t))
      BY <3>1, <3>3, <3>4
    <3>6. \A y, m : At(w[i + 1], y, m) <=> At(list, y, m) \/ Put(i + 1, y, m)
      BY <2>3, <2>5, <2>6, <3>5
    <3> QED
      BY <2>1, <3>5, <3>6
  <2>7. CASE ~Periodic(t)
    <3>1. w[i + 1] = w[i]
      BY <1>4, <2>1, <2>2, <2>7
    <3>2. \A y, m : At(w[i + 1], y, m) <=> At(list, y, m) \/ Put(i + 1, y, m)
      BY <2>3, <2>5, <2>7, <3>1
    <3> QED
      BY <2>1, <2>3, <3>1, <3>2
  <2> QED
    BY <2>6, <2>7
<1>7. n \in P
  <2> HIDE DEF P
  <2>1. \A i \in 0..n : i \in P
    BY <1>1, <1>5, <1>6, UpTo
  <2> QED
    BY <1>1, <2>1
<1> QED
  BY <1>1, <1>4, <1>7

\* What does not fit in the queue of the callbacks is dropped, and only that.
LEMMA WrittenFits ==
  ASSUME NEW queue \in BoundedSeq(Timer, LOSCFG_BASE_CORE_SWTMR_LIMIT), NEW due \in Seq(Timer)
  PROVE  /\ Written(queue, due) \in BoundedSeq(Timer, LOSCFG_BASE_CORE_SWTMR_LIMIT)
         /\ \/ Len(Written(queue, due)) = LOSCFG_BASE_CORE_SWTMR_LIMIT
            \/ \A j \in 1..Len(due) : Contains(Written(queue, due), due[j])
<1> DEFINE L == LOSCFG_BASE_CORE_SWTMR_LIMIT
<1>1. PICK k \in 0..L : queue \in [1..k -> Timer]
  BY DEF BoundedSeq, SeqOf
<1>2. L \in Nat /\ k \in Nat
  BY <1>1, TimerConstants
<1>3. queue \in Seq(Timer) /\ Len(queue) = k
  <2>1. queue \in Seq(Timer)
    BY <1>1, <1>2, FunctionIsSeq
  <2> QED
    BY <1>1, <1>2, <2>1, LenProperties
<1>4. PICK c : c = queue \o due
  OBVIOUS
<1>5. Len(due) \in Nat
  BY LenProperties
<1>6. /\ Len(c) = k + Len(due)
      /\ \A i \in 1..k + Len(due) : c[i] \in Timer
      /\ \A i \in 1..k + Len(due) : c[i] = IF i <= k THEN queue[i] ELSE due[i - k]
  <2>1. /\ c \in Seq(Timer) /\ Len(c) = k + Len(due)
        /\ \A i \in 1..k + Len(due) : c[i] = IF i <= k THEN queue[i] ELSE due[i - k]
    BY <1>3, <1>4, ConcatProperties
  <2>2. \A i \in 1..Len(c) : c[i] \in Timer
    BY <2>1, ElementOfSeq
  <2> QED
    BY <2>1, <2>2
<1>7. PICK m : m = Min({L, k + Len(due)})
  OBVIOUS
<1>8. m \in Nat /\ m <= L /\ m <= k + Len(due) /\ (m = L \/ m = k + Len(due))
  <2>1. {L, k + Len(due)} \in SUBSET Nat /\ {L, k + Len(due)} # {}
    BY <1>2, <1>5
  <2>2. /\ Min({L, k + Len(due)}) \in {L, k + Len(due)}
        /\ \A y \in {L, k + Len(due)} : Min({L, k + Len(due)}) <= y
    BY <2>1, MinIsLeast
  <2> QED
    BY <1>2, <1>5, <1>7, <2>2
<1>9. PICK w : w = SubSeq(c, 1, m)
  OBVIOUS
<1>10. w \in Seq(Timer) /\ Len(w) = m /\ \A i \in 1..m : w[i] = c[i]
  <2>1. \A i \in 1..m : c[i] \in Timer
    BY <1>6, <1>8, <1>2, <1>5
  <2>2. /\ w \in Seq(Timer)
        /\ Len(w) = IF 1 <= m THEN m - 1 + 1 ELSE 0
        /\ \A i \in 1..m - 1 + 1 : w[i] = c[1 + i - 1]
    BY <1>8, <1>9, <2>1, SubSeqProperties
  <2> QED
    BY <1>8, <2>2
<1>11. Written(queue, due) = w
  BY <1>3, <1>4, <1>7, <1>9 DEF Written, HandleQueueSize
<1>12. w \in BoundedSeq(Timer, L)
  <2>1. m \in 0..L /\ w \in [1..m -> Timer]
    <3>1. w \in [1..Len(w) -> Timer]
      BY <1>10, LenProperties
    <3> QED
      BY <3>1, <1>2, <1>8, <1>10
  <2> QED
    BY <2>1 DEF BoundedSeq, SeqOf
<1>13. Len(w) = L \/ \A j \in 1..Len(due) : Contains(w, due[j])
  <2> SUFFICES ASSUME m = k + Len(due), NEW j \in 1..Len(due) PROVE Contains(w, due[j])
    BY <1>8, <1>10
  <2>1. k + j \in 1..m /\ (k + j) - k = j /\ ~(k + j <= k)
    BY <1>2, <1>5
  <2>2. w[k + j] = due[j]
    <3>1. w[k + j] = c[k + j]
      BY <1>10, <2>1
    <3>2. c[k + j] = due[(k + j) - k]
      BY <1>6, <2>1
    <3> QED
      BY <2>1, <3>1, <3>2
  <2> QED
    BY <1>10, <2>1, <2>2 DEF Contains
<1> QED
  BY <1>11, <1>12, <1>13

\* The timers at the front of a list that have the number 0 are all that have it.
LEMMA Dues ==
  ASSUME NEW list, Sound(list, Timer, MostTicks), NEW due, due = LeadingZeros(list)
  PROVE  /\ due \in Seq(Timer) /\ Len(due) = Len(Due(list))
         /\ \A i, j \in 1..Len(due) : due[i] = due[j] => i = j
         /\ \A t : Contains(due, t) <=> At(list, t, 0)
         /\ \A t : t \in Range(due) <=> At(list, t, 0)
<1>1. PICK k : k = Len(Due(list))
  OBVIOUS
<1>2. /\ Len(list) \in Nat /\ DOMAIN list = 1..Len(list)
      /\ \A i \in 1..Len(list) : list[i].item \in Timer
  BY TimerConstants, SoundSums
<1>3. /\ k \in 0..Len(list) /\ DOMAIN Due(list) = 1..k
      /\ \A i \in 1..Len(list) : i <= k <=> Upto(list, i) = 0
  BY <1>1, TimerConstants, RestOf
<1>4. due = [i \in 1..k |-> list[i].item]
  BY <1>3 DEF LeadingZeros
<1>5. k \in Nat /\ due \in [1..k -> Timer]
  <2>1. k \in Nat /\ \A i \in 1..k : i \in 1..Len(list)
    BY <1>2, <1>3
  <2>2. \A i \in 1..k : list[i].item \in Timer
    BY <1>2, <2>1
  <2> QED
    BY <1>4, <2>1, <2>2, Zenon
<1>6. due \in Seq(Timer) /\ Len(due) = k /\ DOMAIN due = 1..k
  <2>1. due \in Seq(Timer)
    BY <1>5, FunctionIsSeq
  <2> QED
    BY <1>5, <2>1, LenProperties
<1>7. \A i \in 1..k : i \in 1..Len(list) /\ due[i] = list[i].item
  BY <1>2, <1>3, <1>4
<1>8. \A i, j \in 1..Len(due) : due[i] = due[j] => i = j
  <2>1. \A i, j \in 1..Len(list) : list[i].item = list[j].item => i = j
    BY <1>2 DEF Sound
  <2> QED
    BY <1>6, <1>7, <2>1
<1>9. \A t : (\E i \in 1..k : due[i] = t) <=> At(list, t, 0)
  <2>1. ASSUME NEW t, NEW i \in 1..k, due[i] = t PROVE At(list, t, 0)
    <3>1. i \in 1..Len(list) /\ list[i].item = t /\ i <= k
      BY <1>5, <1>7, <2>1
    <3>2. Upto(list, i) = 0
      BY <1>3, <3>1
    <3> QED
      BY <1>2, <3>1, <3>2 DEF At
  <2>2. ASSUME NEW t, At(list, t, 0) PROVE \E i \in 1..k : due[i] = t
    <3>1. PICK i \in 1..Len(list) : list[i].item = t /\ Upto(list, i) = 0
      BY <1>2, <2>2 DEF At
    <3>2. i \in 1..k
      BY <1>2, <1>3, <1>5, <3>1
    <3> QED
      BY <1>7, <3>1, <3>2
  <2> QED
    BY <2>1, <2>2
<1>10. \A t : Contains(due, t) <=> At(list, t, 0)
  BY <1>6, <1>9 DEF Contains
<1>11. \A t : t \in Range(due) <=> At(list, t, 0)
  BY <1>6, <1>9 DEF Range
<1> QED
  BY <1>1, <1>6, <1>8, <1>10, <1>11

\* The head of new is that of list, counted down by one in a field of the list.
HeadDown(new, list) == new = [list EXCEPT ![1].delta = (@ - 1) % Wrap]

\* A tick counts every timer down by one, through the first difference alone.
LEMMA HeadCounts ==
  ASSUME NEW list, Sound(list, Timer, MostTicks), list # <<>>,
         \A i \in 1..Len(list) : Upto(list, i) # 0,
         NEW new, HeadDown(new, list)
  PROVE  /\ Sound(new, Timer, MostTicks) /\ Len(new) = Len(list) /\ 1 \in 1..Len(new)
         /\ \A y : \A m \in Nat : At(new, y, m) <=> At(list, y, m + 1)
         /\ Upto(new, 1) = new[1].delta
<1>1. /\ Len(list) \in Nat /\ DOMAIN list = 1..Len(list)
      /\ \A i \in 1..Len(list) : /\ list[i].item \in Timer /\ list[i].delta \in 0..MostTicks
                                  /\ list[i] = [item |-> list[i].item, delta |-> list[i].delta]
      /\ Upto(list, 0) = 0
      /\ \A i \in 1..Len(list) : Upto(list, i) = Upto(list, i - 1) + list[i].delta
  BY TimerConstants, SoundSums
<1>2. 1 \in 1..Len(list)
  <2>1. list \in Seq([item : Timer, delta : Nat])
    BY DEF Sound
  <2>2. Len(list) # 0
    BY <2>1, EmptySeq
  <2> QED
    BY <1>1, <2>2
<1>3. PICK d : d = list[1].delta
  OBVIOUS
<1>4. d \in 1..MostTicks
  <2>1. Upto(list, 1) = Upto(list, 1 - 1) + d /\ Upto(list, 1) # 0 /\ d \in 0..MostTicks
    BY <1>1, <1>2, <1>3
  <2> QED
    BY <1>1, <2>1, TimerConstants
<1>5. (d - 1) % Wrap = d - 1
  <2>1. d - 1 \in 0..Wrap - 1
    BY <1>4, TimerConstants DEF MostTicks
  <2> HIDE DEF MostTicks
  <2>2. d - 1 = Wrap * 0 + (d - 1) /\ Wrap \in Nat \ {0} /\ d - 1 \in Int
    BY <2>1, TimerConstants
  <2> QED
    BY <2>1, <2>2, RemainderIsTheOne
<1>6. PICK e : e = d - 1
  OBVIOUS
<1>7. new = [list EXCEPT ![1] = [list[1] EXCEPT !.delta = e]]
  BY <1>3, <1>5, <1>6 DEF HeadDown
<1>8. new = [i \in 1..Len(list) |-> IF i = 1 THEN [list[i] EXCEPT !.delta = e] ELSE list[i]]
  BY <1>1, <1>2, <1>7
<1>9. Counted(new, list)
  <2>1. [list[1] EXCEPT !.delta = @ - 1] = [list[1] EXCEPT !.delta = e]
    BY <1>3, <1>6
  <2>2. new = [i \in 1..Len(list) |-> IF i = 1 THEN [list[i] EXCEPT !.delta = @ - 1] ELSE list[i]]
    BY <1>8, <2>1
  <2> QED
    BY <1>1, <2>2 DEF Counted
<1>10. /\ Sound(new, Timer, MostTicks)
       /\ \A y : \A m \in Nat : At(new, y, m) <=> At(list, y, m + 1)
       /\ Len(new) = Len(list)
  <2>1. \A i \in DOMAIN list : Upto(list, i) # 0
    BY <1>1
  <2> QED
    BY <1>9, <2>1, TimerConstants, CountsDown
<1>11. Upto(new, 1) = new[1].delta
  <2>1. 1 \in 1..Len(new) /\ Upto(new, 0) = 0 /\ new[1].delta \in 0..MostTicks
        /\ Upto(new, 1) = Upto(new, 1 - 1) + new[1].delta
    <3>1. 1 \in 1..Len(new)
      BY <1>2, <1>10
    <3>2. /\ \A i \in 1..Len(new) : new[i].delta \in 0..MostTicks
          /\ Upto(new, 0) = 0
          /\ \A i \in 1..Len(new) : Upto(new, i) = Upto(new, i - 1) + new[i].delta
      BY <1>10, TimerConstants, SoundSums
    <3> QED
      BY <3>1, <3>2
  <2> QED
    BY <2>1, TimerConstants
<1> QED
  BY <1>2, <1>10, <1>11

\* new is list after a tick: every timer one tick further, those that were at the last
\* tick of their time at their whole interval if they are periodic and gone if not.
Ticked(new, list) ==
  /\ Sound(new, Timer, MostTicks)
  /\ \A y : \A m \in Nat : At(new, y, m) <=>
       \/ m # 0 /\ At(list, y, m + 1)
       \/ At(list, y, 1) /\ Periodic(y) /\ m = Interval(y)

\* A tick, read off the list: what osSwtmrScan does to every timer.
Scans ==
  /\ Ticked(m_pstSwtmrSortList', m_pstSwtmrSortList)
  /\ swtmr' = [t \in Timer |-> IF At(m_pstSwtmrSortList, t, 1) THEN Expired(t) ELSE swtmr[t]]
  /\ m_uwSwTmrAlignID' = [t \in Timer |-> IF At(m_pstSwtmrSortList, t, 1) /\ swtmr[t].plan.mode = "once"
                                          THEN {} ELSE m_uwSwTmrAlignID[t]]
  /\ m_uwSwTmrHandlerQueue' \in BoundedSeq(Timer, LOSCFG_BASE_CORE_SWTMR_LIMIT)
  /\ \A t : At(m_pstSwtmrSortList, t, 1) =>
       Len(m_uwSwTmrHandlerQueue') = LOSCFG_BASE_CORE_SWTMR_LIMIT \/ Contains(m_uwSwTmrHandlerQueue', t)
  /\ UNCHANGED <<swt, parked>>

\* The numbers of the timers that tick are never 0.
LEMMA NoneIsDue ==
  ASSUME SwtInv, NEW list, list = m_pstSwtmrSortList
  PROVE  /\ Sound(list, Timer, MostTicks)
         /\ \A i \in 1..Len(list) : Upto(list, i) # 0
         /\ \A y, m : At(list, y, m) => /\ y \in Timer /\ m \in 1..Interval(y) /\ m \in Nat
                                        /\ Listed(list, y) /\ swtmr[y].ucState = "TICKING"
<1>1. /\ Sound(list, Timer, MostTicks)
      /\ \A t \in Timer : \A m : At(list, t, m) => m \in 1..Interval(t)
      /\ \A t \in Timer : Listed(list, t) <=> swtmr[t].ucState = "TICKING"
  BY DEF SwtInv, TimerFits
<1>2. \A y, m : At(list, y, m) => y \in Timer /\ m \in 0..MostTicks /\ Listed(list, y)
  BY <1>1, TimerConstants, ReadOff
<1>3. \A y, m : At(list, y, m) => m \in 1..Interval(y) /\ m # 0 /\ m \in Nat
  <2> SUFFICES ASSUME NEW y, NEW m, At(list, y, m) PROVE m \in 1..Interval(y) /\ m # 0 /\ m \in Nat
    OBVIOUS
  <2>1. m \in 1..Interval(y) /\ m \in 0..MostTicks
    BY <1>1, <1>2
  <2> QED
    BY <2>1, TimerConstants
<1>4. \A i \in 1..Len(list) : Upto(list, i) # 0
  <2> SUFFICES ASSUME NEW i \in 1..Len(list) PROVE Upto(list, i) # 0
    OBVIOUS
  <2>1. DOMAIN list = 1..Len(list)
    BY <1>1, TimerConstants, SoundSums
  <2>2. At(list, list[i].item, Upto(list, i))
    BY <2>1 DEF At
  <2> QED
    BY <1>3, <2>2
<1> QED
  BY <1>1, <1>2, <1>3, <1>4

\* When the first difference is 0, the timers that are due are taken off, their callbacks
\* are queued and the periodic ones put back.
LEMMA LoopScans ==
  ASSUME SwtInv, ~Parks, NEW down, Sound(down, Timer, MostTicks),
         \A y : \A m \in Nat : At(down, y, m) <=> At(m_pstSwtmrSortList, y, m + 1),
         TimeoutLoop(down, <<>>, parked)
  PROVE  Scans
<1> DEFINE list == m_pstSwtmrSortList
<1> DEFINE queue == m_uwSwTmrHandlerQueue
<1>1. PICK due : due = LeadingZeros(down)
  OBVIOUS
<1>2. PICK rest : rest = SubSeq(down, Len(due) + 1, Len(down))
  OBVIOUS
<1>3. /\ m_pstSwtmrSortList' = Rearmed(rest, due)
      /\ m_uwSwTmrHandlerQueue' = Written(queue, due)
      /\ Expire(<<>> \o due)
      /\ parked' = parked /\ swt' = swt
  BY <1>1, <1>2 DEF TimeoutLoop
<1>4. /\ due \in Seq(Timer) /\ Len(due) = Len(Due(down))
      /\ \A i, j \in 1..Len(due) : due[i] = due[j] => i = j
      /\ \A t : Contains(due, t) <=> At(down, t, 0)
      /\ \A t : t \in Range(due) <=> At(down, t, 0)
  BY <1>1, Dues
<1>5. \A y : At(down, y, 0) <=> At(list, y, 1)
  <2>1. \A y : At(down, y, 0) <=> At(list, y, 0 + 1)
    OBVIOUS
  <2> QED
    BY <2>1
<1>6. Sound(rest, Timer, MostTicks) /\ \A y, m : At(rest, y, m) <=> At(down, y, m) /\ m # 0
  <2>1. rest = SubSeq(down, Len(Due(down)) + 1, Len(down))
    BY <1>2, <1>4
  <2> QED
    BY <2>1, TimerConstants, RestOf
<1>7. \A y, m : At(list, y, m) => /\ y \in Timer /\ m \in 1..Interval(y) /\ m \in Nat
                                  /\ Listed(list, y) /\ swtmr[y].ucState = "TICKING"
  BY NoneIsDue
<1>8. Leftover(rest, due)
  <2> SUFFICES ASSUME NEW i \in 1..Len(due)
               PROVE  /\ ~Listed(rest, due[i])
                      /\ Periodic(due[i]) => m_uwSwTmrAlignID[due[i]] \notin {{"CAN"}, {"CAN", "MULTI"}}
    BY <1>4 DEF Leftover
  <2>1. PICK y : y = due[i]
    OBVIOUS
  <2>2. At(down, y, 0)
    <3>1. Contains(due, y)
      BY <2>1 DEF Contains
    <3> QED
      BY <1>4, <3>1
  <2>3. ~Listed(rest, y)
    <3> SUFFICES ASSUME Listed(rest, y) PROVE FALSE
      OBVIOUS
    <3>1. PICK n \in 0..MostTicks : At(rest, y, n)
      BY <1>6, TimerConstants, ReadOff
    <3>2. At(down, y, n) /\ n # 0
      BY <1>6, <3>1
    <3>3. Number(down, y) = n /\ Number(down, y) = 0
      BY <2>2, <3>2, TimerConstants, ReadOff
    <3> QED
      BY <3>2, <3>3
  <2>4. y \in Timer /\ swtmr[y].ucState = "TICKING"
    BY <1>5, <1>7, <2>2
  <2>5. m_uwSwTmrAlignID[y] = Full(y)
    BY <2>4 DEF SwtInv, TimerFits
  <2>6. Full(y) \notin {{"CAN"}, {"CAN", "MULTI"}}
    <3>1. Full(y) = {} \/ "ALREADY" \in Full(y)
      BY DEF Full
    <3> QED
      BY <3>1
  <2> QED
    BY <2>1, <2>3, <2>5, <2>6
<1>9. PICK new : new = Rearmed(rest, due)
  OBVIOUS
<1>10. /\ Sound(new, Timer, MostTicks)
       /\ \A y, m : At(new, y, m) <=>
            \/ At(rest, y, m)
            \/ \E j \in 1..Len(due) : y = due[j] /\ Periodic(y) /\ m = Interval(y)
  <2>1. BlocksOK
    BY DEF SwtInv
  <2> QED
    BY <1>6, <1>8, <1>9, <2>1, RearmPuts
<1>11. Ticked(new, list)
  <2> SUFFICES ASSUME NEW y, NEW m \in Nat
               PROVE  At(new, y, m) <=> \/ m # 0 /\ At(list, y, m + 1)
                                        \/ At(list, y, 1) /\ Periodic(y) /\ m = Interval(y)
    BY <1>10 DEF Ticked
  <2>1. At(rest, y, m) <=> m # 0 /\ At(list, y, m + 1)
    BY <1>6
  <2>2. (\E j \in 1..Len(due) : y = due[j]) <=> At(list, y, 1)
    <3>1. (\E j \in 1..Len(due) : y = due[j]) <=> Contains(due, y)
      BY DEF Contains
    <3> QED
      BY <1>4, <1>5, <3>1
  <2> QED
    BY <1>10, <2>1, <2>2
<1>12. <<>> \o due = due
  BY <1>4, ConcatEmptySeq
<1>13. swtmr' = [t \in Timer |-> IF At(list, t, 1) THEN Expired(t) ELSE swtmr[t]]
  <2>1. swtmr' = [t \in Timer |-> IF Contains(due, t) THEN Expired(t) ELSE swtmr[t]]
    BY <1>3, <1>12 DEF Expire
  <2>2. \A t : Contains(due, t) <=> At(list, t, 1)
    BY <1>4, <1>5
  <2> HIDE DEF list
  <2> QED
    BY <2>1, <2>2
<1>14. m_uwSwTmrAlignID' = [t \in Timer |-> IF At(list, t, 1) /\ swtmr[t].plan.mode = "once"
                                            THEN {} ELSE m_uwSwTmrAlignID[t]]
  <2>1. m_uwSwTmrAlignID' = [t \in Timer |-> IF t \in {u \in Range(due) : swtmr[u].plan.mode = "once"}
                                             THEN {} ELSE m_uwSwTmrAlignID[t]]
    BY <1>3, <1>12 DEF Expire
  <2>2. \A t : t \in {u \in Range(due) : swtmr[u].plan.mode = "once"}
                 <=> At(list, t, 1) /\ swtmr[t].plan.mode = "once"
    BY <1>4, <1>5
  <2> HIDE DEF list
  <2> QED
    BY <2>1, <2>2
<1>15. /\ m_uwSwTmrHandlerQueue' \in BoundedSeq(Timer, LOSCFG_BASE_CORE_SWTMR_LIMIT)
       /\ \A t : At(list, t, 1) => \/ Len(m_uwSwTmrHandlerQueue') = LOSCFG_BASE_CORE_SWTMR_LIMIT
                                   \/ Contains(m_uwSwTmrHandlerQueue', t)
  <2>1. queue \in BoundedSeq(Timer, LOSCFG_BASE_CORE_SWTMR_LIMIT)
    BY DEF SwtInv
  <2>2. PICK w : w = Written(queue, due)
    OBVIOUS
  <2>3. /\ w \in BoundedSeq(Timer, LOSCFG_BASE_CORE_SWTMR_LIMIT)
        /\ Len(w) = LOSCFG_BASE_CORE_SWTMR_LIMIT \/ \A j \in 1..Len(due) : Contains(w, due[j])
    BY <1>4, <2>1, <2>2, WrittenFits
  <2>4. ASSUME NEW t, At(list, t, 1) PROVE Len(w) = LOSCFG_BASE_CORE_SWTMR_LIMIT \/ Contains(w, t)
    <3>1. PICK j \in 1..Len(due) : due[j] = t
      BY <1>4, <1>5, <2>4 DEF Contains
    <3> QED
      BY <2>3, <3>1
  <2> QED
    BY <1>3, <2>2, <2>3, <2>4
<1> QED
  BY <1>3, <1>9, <1>11, <1>13, <1>14, <1>15 DEF Scans

\* A tick does to the list of the timers, whatever it holds, what it should.
LEMMA ScanIs == SwtInv /\ ~Parks /\ osSwtmrScan => Scans
<1> SUFFICES ASSUME SwtInv, ~Parks, osSwtmrScan PROVE Scans
  OBVIOUS
<1> DEFINE list == m_pstSwtmrSortList
<1>1. /\ Sound(list, Timer, MostTicks)
      /\ \A i \in 1..Len(list) : Upto(list, i) # 0
      /\ \A y, m : At(list, y, m) => m \in Nat /\ m # 0
  <2>1. /\ Sound(list, Timer, MostTicks)
        /\ \A i \in 1..Len(list) : Upto(list, i) # 0
        /\ \A y, m : At(list, y, m) => /\ y \in Timer /\ m \in 1..Interval(y) /\ m \in Nat
    BY NoneIsDue
  <2> QED
    BY <2>1, PlansFit DEF At
<1>2. BlocksOK /\ m_uwSwTmrHandlerQueue \in BoundedSeq(Timer, LOSCFG_BASE_CORE_SWTMR_LIMIT)
      /\ m_uwSwTmrAlignID \in [Timer -> SUBSET {"ALREADY", "CAN", "MULTI"}]
  BY DEF SwtInv
<1>3. ASSUME UNCHANGED <<swtmr, m_uwSwTmrAlignID, m_uwSwTmrHandlerQueue, swt, parked>>,
             \A y : ~At(list, y, 1), Ticked(m_pstSwtmrSortList', list)
      PROVE  Scans
  <2>1. swtmr = [t \in Timer |-> swtmr[t]] /\ m_uwSwTmrAlignID = [t \in Timer |-> m_uwSwTmrAlignID[t]]
    BY <1>2 DEF BlocksOK
  <2>2. swtmr' = [t \in Timer |-> IF At(list, t, 1) THEN Expired(t) ELSE swtmr[t]]
    BY <1>3, <2>1
  <2>3. m_uwSwTmrAlignID' = [t \in Timer |-> IF At(list, t, 1) /\ swtmr[t].plan.mode = "once"
                                             THEN {} ELSE m_uwSwTmrAlignID[t]]
    BY <1>3, <2>1
  <2> QED
    BY <1>2, <1>3, <2>2, <2>3 DEF Scans
<1>4. CASE list = <<>>
  <2>1. UNCHANGED swtmrVars
    BY <1>4 DEF osSwtmrScan
  <2>2. \A y, m : ~At(list, y, m)
    BY <1>4 DEF At
  <2>3. Ticked(m_pstSwtmrSortList', list)
    BY <1>1, <2>1, <2>2 DEF Ticked, swtmrVars
  <2> QED
    BY <1>3, <2>1, <2>2, <2>3 DEF swtmrVars
<1>5. CASE list # <<>>
  <2>1. PICK down : HeadDown(down, list)
    BY DEF HeadDown
  <2>2. /\ Sound(down, Timer, MostTicks) /\ 1 \in 1..Len(down)
        /\ \A y : \A m \in Nat : At(down, y, m) <=> At(list, y, m + 1)
        /\ Upto(down, 1) = down[1].delta
    BY <1>1, <1>5, <2>1, HeadCounts
  <2>3. \/ down[1].delta = 0 /\ osSwTmrTimeoutHandle(down)
        \/ /\ down[1].delta # 0 /\ m_pstSwtmrSortList' = down
           /\ UNCHANGED <<swtmr, m_uwSwTmrAlignID, m_uwSwTmrHandlerQueue, swt, parked>>
    BY <1>5, <2>1 DEF osSwtmrScan, HeadDown, taskSwtVars
  <2>4. CASE osSwTmrTimeoutHandle(down)
    <3>1. TimeoutLoop(down, <<>>, parked)
      BY <2>4 DEF osSwTmrTimeoutHandle
    <3> QED
      BY <2>2, <3>1, LoopScans
  <2>5. CASE /\ down[1].delta # 0 /\ m_pstSwtmrSortList' = down
             /\ UNCHANGED <<swtmr, m_uwSwTmrAlignID, m_uwSwTmrHandlerQueue, swt, parked>>
    <3>1. /\ Len(down) \in Nat /\ DOMAIN down = 1..Len(down)
          /\ \A i \in 0..Len(down) : Upto(down, i) \in 0..MostTicks
      BY <2>2, TimerConstants, SoundSums
    <3>2. \A i \in 1..Len(down) : Upto(down, i) # 0
      <4> SUFFICES ASSUME NEW i \in 1..Len(down) PROVE Upto(down, i) # 0
        OBVIOUS
      <4>1. i \in 0..Len(down) /\ 1 \in 0..i /\ 1 \in 0..Len(down)
        BY <2>2, <3>1
      <4>2. Upto(down, 1) <= Upto(down, i)
        BY <2>2, <4>1, TimerConstants, SumsRise
      <4>3. Upto(down, 1) \in 0..MostTicks /\ Upto(down, i) \in 0..MostTicks /\ Upto(down, 1) # 0
        BY <2>2, <2>5, <3>1, <4>1
      <4> QED
        BY <4>2, <4>3, TimerConstants
    <3>3. \A y : ~At(down, y, 0)
      BY <3>1, <3>2 DEF At
    <3>4. \A y : ~At(list, y, 1)
      <4>1. \A y : At(down, y, 0) <=> At(list, y, 0 + 1)
        BY <2>2
      <4> QED
        BY <3>3, <4>1
    <3>5. Ticked(down, list)
      <4> SUFFICES ASSUME NEW y, NEW m \in Nat
                   PROVE  At(down, y, m) <=> m # 0 /\ At(list, y, m + 1)
        BY <2>2, <3>4 DEF Ticked
      <4> QED
        BY <2>2, <3>3
    <3> QED
      BY <1>3, <2>5, <3>4, <3>5
  <2> QED
    BY <2>3, <2>4, <2>5
<1> QED
  BY <1>4, <1>5

\* A timer has one number in the list, if any.
LEMMA NumberedOnce ==
  ASSUME NEW list, Sound(list, Timer, MostTicks), NEW y
  PROVE  /\ Listed(list, y) <=> \E m : At(list, y, m)
         /\ \A m : At(list, y, m) => m \in Nat /\ m \in 0..MostTicks /\ y \in Timer
         /\ \A m, k : At(list, y, m) /\ At(list, y, k) => m = k
<1>1. /\ Listed(list, y) <=> \E n \in 0..MostTicks : At(list, y, n)
      /\ \A n : At(list, y, n) => n \in 0..MostTicks /\ y \in Timer /\ Number(list, y) = n
  <2>1. MostTicks \in Nat /\ MostTicks < Wrap
    BY TimerConstants
  <2> QED
    BY <2>1, ReadOff
<1> QED
  BY <1>1, TimerConstants

\* What is left of t's time in list.
RemainingOn(list, t) == IF Listed(list, t) THEN Number(list, t) ELSE 0

\* What is left of a timer's time is its number.
LEMMA RemainingOnIs ==
  /\ \A t : Remaining(t) = RemainingOn(m_pstSwtmrSortList, t)
  /\ \A t : Remaining(t)' = RemainingOn(m_pstSwtmrSortList', t)
BY DEF Remaining, RemainingOn

\* The number of a timer in a sound list is what is left of its time.
LEMMA NumberIs ==
  ASSUME NEW list, Sound(list, Timer, MostTicks), NEW t
  PROVE  /\ \A m : At(list, t, m) => RemainingOn(list, t) = m
         /\ (\A m : ~At(list, t, m)) => RemainingOn(list, t) = 0
<1>1. /\ Listed(list, t) <=> \E n \in 0..MostTicks : At(list, t, n)
      /\ \A n : At(list, t, n) => n \in 0..MostTicks /\ Listed(list, t) /\ Number(list, t) = n
  <2>1. MostTicks \in Nat /\ MostTicks < Wrap
    BY TimerConstants
  <2> QED
    BY <2>1, ReadOff
<1> QED
  BY <1>1 DEF RemainingOn

\* The step leaves the timer t alone.
Untouched(t) ==
  /\ swtmr'[t] = swtmr[t] /\ m_uwSwTmrAlignID'[t] = m_uwSwTmrAlignID[t]
  /\ \A m : At(m_pstSwtmrSortList', t, m) <=> At(m_pstSwtmrSortList, t, m)

\* What depends on the plan of a timer alone stays with it.
LEMMA SamePlan ==
  ASSUME NEW t, swtmr'[t].plan = swtmr[t].plan
  PROVE  /\ Interval(t)' = Interval(t) /\ CanAlign(t)' = CanAlign(t) /\ Full(t)' = Full(t)
         /\ Periodic(t)' = Periodic(t)
BY DEF Interval, CanAlign, Full, Periodic

\* A timer that is left alone fits as before.
LEMMA UntouchedFits ==
  ASSUME NEW t \in Timer, TimerFits(t), Untouched(t),
         Sound(m_pstSwtmrSortList, Timer, MostTicks), Sound(m_pstSwtmrSortList', Timer, MostTicks)
  PROVE  TimerFits(t)' /\ Remaining(t)' = Remaining(t)
<1> DEFINE list == m_pstSwtmrSortList
<1> DEFINE new == m_pstSwtmrSortList'
<1>1. /\ swtmr'[t] = swtmr[t] /\ m_uwSwTmrAlignID'[t] = m_uwSwTmrAlignID[t]
      /\ \A m : At(new, t, m) <=> At(list, t, m)
  BY DEF Untouched
<1>2. Interval(t)' = Interval(t) /\ CanAlign(t)' = CanAlign(t) /\ Full(t)' = Full(t)
  BY <1>1, SamePlan
<1>3. Listed(new, t) <=> Listed(list, t)
  <2>1. Listed(list, t) <=> \E m : At(list, t, m)
    BY NumberedOnce
  <2>2. Listed(new, t) <=> \E m : At(new, t, m)
    BY NumberedOnce
  <2> QED
    BY <1>1, <2>1, <2>2
<1>4. TimerFits(t)'
  <2> HIDE DEF list, new
  <2>1. /\ Listed(list, t) <=> swtmr[t].ucState = "TICKING"
        /\ \A m : At(list, t, m) => m \in 1..Interval(t)
        /\ swtmr[t].ucState = "TICKING" => m_uwSwTmrAlignID[t] = Full(t)
        /\ swtmr[t].ucState = "CREATED" => m_uwSwTmrAlignID[t] \in {{}, CanAlign(t)}
        /\ swtmr[t].ucState = "UNUSED" => m_uwSwTmrAlignID[t] = {}
    BY DEF TimerFits, list
  <2>2. /\ Listed(new, t) <=> swtmr'[t].ucState = "TICKING"
        /\ \A m : At(new, t, m) => m \in 1..Interval(t)'
        /\ swtmr'[t].ucState = "TICKING" => m_uwSwTmrAlignID'[t] = Full(t)'
        /\ swtmr'[t].ucState = "CREATED" => m_uwSwTmrAlignID'[t] \in {{}, CanAlign(t)'}
        /\ swtmr'[t].ucState = "UNUSED" => m_uwSwTmrAlignID'[t] = {}
    BY <1>1, <1>2, <1>3, <2>1
  <2> QED
    BY <2>2 DEF TimerFits, new
<1>5. RemainingOn(new, t) = RemainingOn(list, t)
  <2>1. CASE \E m : At(list, t, m)
    <3>1. PICK m : At(list, t, m) /\ At(new, t, m)
      BY <1>1, <2>1
    <3>2. RemainingOn(list, t) = m
      BY <3>1, NumberIs
    <3>3. RemainingOn(new, t) = m
      BY <3>1, NumberIs
    <3> QED
      BY <3>2, <3>3
  <2>2. CASE \A m : ~At(list, t, m)
    <3>1. \A m : ~At(new, t, m)
      BY <1>1, <2>2
    <3>2. RemainingOn(list, t) = 0
      BY <2>2, NumberIs
    <3>3. RemainingOn(new, t) = 0
      BY <3>1, NumberIs
    <3> QED
      BY <3>2, <3>3
  <2> QED
    BY <2>1, <2>2
<1> QED
  BY <1>4, <1>5, RemainingOnIs

\* The list after a tick, for one timer.
LEMMA TickedIs ==
  ASSUME BlocksOK, NEW list, Sound(list, Timer, MostTicks), NEW new, Ticked(new, list), NEW t \in Timer,
         \A m : At(list, t, m) => m \in 1..Interval(t)
  PROVE  /\ Listed(new, t) <=> Listed(list, t) /\ (At(list, t, 1) => Periodic(t))
         /\ \A m : At(new, t, m) => m \in 1..Interval(t)
         /\ RemainingOn(list, t) \in Nat /\ (At(list, t, 1) <=> RemainingOn(list, t) = 1)
         /\ RemainingOn(new, t) = CASE RemainingOn(list, t) > 1 -> RemainingOn(list, t) - 1
                                    [] RemainingOn(list, t) = 1 -> IF Periodic(t) THEN Interval(t) ELSE 0
                                    [] OTHER -> 0
<1>1. /\ Listed(list, t) <=> \E m : At(list, t, m)
      /\ \A m : At(list, t, m) => m \in Nat
      /\ \A m, k : At(list, t, m) /\ At(list, t, k) => m = k
  BY NumberedOnce
<1>2. Sound(new, Timer, MostTicks)
  BY DEF Ticked
<1>3. /\ Listed(new, t) <=> \E m : At(new, t, m)
      /\ \A m : At(new, t, m) => m \in Nat
  BY <1>2, NumberedOnce
<1>4. \A m \in Nat : At(new, t, m) <=> \/ m # 0 /\ At(list, t, m + 1)
                                       \/ At(list, t, 1) /\ Periodic(t) /\ m = Interval(t)
  BY DEF Ticked
<1>5. Interval(t) \in Nat \ {0}
  BY PlansFit
<1>6. \A m : At(new, t, m) => RemainingOn(new, t) = m
  BY <1>2, NumberIs
<1>7. (\A m : ~At(new, t, m)) => RemainingOn(new, t) = 0
  BY <1>2, NumberIs
<1>8. CASE \A m : ~At(list, t, m)
  <2>1. \A m : ~At(new, t, m)
    BY <1>3, <1>4, <1>8
  <2>2. RemainingOn(list, t) = 0 /\ RemainingOn(new, t) = 0
    BY <1>7, <1>8, <2>1, NumberIs
  <2> QED
    BY <1>1, <1>3, <1>8, <2>1, <2>2
<1>9. CASE At(list, t, 1)
  <2>1. \A m \in Nat : m # 0 => ~At(list, t, m + 1)
    <3> SUFFICES ASSUME NEW m \in Nat, m # 0, At(list, t, m + 1) PROVE FALSE
      OBVIOUS
    <3>1. m + 1 = 1
      BY <1>1, <1>9
    <3> QED
      BY <3>1
  <2>2. \A m \in Nat : At(new, t, m) <=> Periodic(t) /\ m = Interval(t)
    BY <1>4, <1>9, <2>1
  <2>3. RemainingOn(list, t) = 1
    BY <1>9, NumberIs
  <2>4. CASE Periodic(t)
    <3>1. At(new, t, Interval(t)) /\ \A m : At(new, t, m) => m = Interval(t)
      BY <1>3, <1>5, <2>2, <2>4
    <3>2. RemainingOn(new, t) = Interval(t) /\ Interval(t) \in 1..Interval(t)
      BY <1>5, <1>6, <3>1
    <3> QED
      BY <1>1, <1>3, <1>9, <2>3, <2>4, <3>1, <3>2
  <2>5. CASE ~Periodic(t)
    <3>1. \A m : ~At(new, t, m)
      BY <1>3, <2>2, <2>5
    <3> QED
      BY <1>3, <1>7, <1>9, <2>3, <2>5, <3>1
  <2> QED
    BY <2>4, <2>5
<1>10. CASE ~At(list, t, 1) /\ \E m : At(list, t, m)
  <2>1. PICK m : At(list, t, m)
    BY <1>10
  <2>2. m \in 1..Interval(t) /\ m # 1
    BY <1>10, <2>1
  <2>3. PICK k : k = m - 1
    OBVIOUS
  <2>4. k \in Nat /\ k # 0 /\ k + 1 = m /\ k \in 1..Interval(t) /\ m > 1
    BY <1>5, <2>2, <2>3
  <2>5. At(new, t, k)
    BY <1>4, <2>1, <2>4
  <2>6. \A j : At(new, t, j) => j = k
    <3> SUFFICES ASSUME NEW j, At(new, t, j) PROVE j = k
      OBVIOUS
    <3>1. j \in Nat /\ At(list, t, j + 1)
      BY <1>3, <1>4, <1>10
    <3>2. j + 1 = m
      BY <1>1, <2>1, <3>1
    <3> QED
      BY <2>4, <3>1, <3>2
  <2>7. RemainingOn(list, t) = m
    BY <2>1, NumberIs
  <2>8. RemainingOn(new, t) = k
    BY <1>6, <2>5
  <2> QED
    BY <1>1, <1>3, <1>10, <2>1, <2>2, <2>3, <2>4, <2>5, <2>6, <2>7, <2>8
<1> QED
  BY <1>8, <1>9, <1>10

\* What a tick makes of one timer.
LEMMA TickOf ==
  ASSUME SwtInv, Scans, NEW t \in Timer
  PROVE  /\ TimerFits(t)'
         /\ Remaining(t)' = Callbacks!AfterTick(t)
         /\ swtmr'[t].plan = swtmr[t].plan
         /\ swtmr'[t] \in [ucState : {"UNUSED", "CREATED", "TICKING"}, plan : TimerPlan]
         /\ m_uwSwTmrAlignID'[t] \in SUBSET {"ALREADY", "CAN", "MULTI"}
<1>0. PICK list, new : list = m_pstSwtmrSortList /\ new = m_pstSwtmrSortList'
  OBVIOUS
<1>1. /\ BlocksOK /\ Sound(list, Timer, MostTicks) /\ Ticked(new, list) /\ TimerFits(t)
      /\ m_uwSwTmrAlignID[t] \in SUBSET {"ALREADY", "CAN", "MULTI"}
  BY <1>0 DEF SwtInv, Scans
<1>2. /\ Listed(list, t) <=> swtmr[t].ucState = "TICKING"
      /\ \A m : At(list, t, m) => m \in 1..Interval(t)
      /\ swtmr[t].ucState = "TICKING" => m_uwSwTmrAlignID[t] = Full(t)
      /\ swtmr[t].ucState = "CREATED" => m_uwSwTmrAlignID[t] \in {{}, CanAlign(t)}
      /\ swtmr[t].ucState = "UNUSED" => m_uwSwTmrAlignID[t] = {}
  BY <1>0, <1>1 DEF TimerFits
<1>3. /\ Listed(new, t) <=> Listed(list, t) /\ (At(list, t, 1) => Periodic(t))
      /\ \A m : At(new, t, m) => m \in 1..Interval(t)
      /\ RemainingOn(list, t) \in Nat
      /\ RemainingOn(new, t) = CASE RemainingOn(list, t) > 1 -> RemainingOn(list, t) - 1
                                 [] RemainingOn(list, t) = 1 -> IF Periodic(t) THEN Interval(t) ELSE 0
                                 [] OTHER -> 0
  BY <1>1, <1>2, TickedIs
<1>4. /\ swtmr[t] = [ucState |-> swtmr[t].ucState, plan |-> swtmr[t].plan]
      /\ swtmr[t].ucState \in {"UNUSED", "CREATED", "TICKING"} /\ swtmr[t].plan \in TimerPlan
      /\ swtmr[t].plan.mode \in {"once", "period", "no_selfdelete"}
  BY <1>1, PlansFit
<1>5. swtmr'[t] = IF At(list, t, 1) THEN Expired(t) ELSE swtmr[t]
  BY <1>0 DEF Scans
<1>6. m_uwSwTmrAlignID'[t] = IF At(list, t, 1) /\ swtmr[t].plan.mode = "once" THEN {} ELSE m_uwSwTmrAlignID[t]
  BY <1>0 DEF Scans
<1>7. PICK u, p : u = swtmr[t].ucState /\ p = swtmr[t].plan
  OBVIOUS
<1>8. Expired(t) = [ucState |-> CASE p.mode = "once" -> "UNUSED"
                                  [] p.mode = "period" -> "TICKING"
                                  [] OTHER -> "CREATED", plan |-> p]
  <2>1. swtmr[t] = [ucState |-> u, plan |-> p]
    BY <1>4, <1>7
  <2>2. CASE p.mode = "once"
    BY <1>7, <2>1, <2>2 DEF Expired
  <2>3. CASE p.mode = "period"
    BY <1>7, <2>1, <2>3 DEF Expired
  <2>4. CASE p.mode = "no_selfdelete"
    BY <1>7, <2>1, <2>4 DEF Expired
  <2> QED
    BY <1>4, <1>7, <2>2, <2>3, <2>4
<1>9. swtmr'[t].plan = p /\ swtmr'[t] \in [ucState : {"UNUSED", "CREATED", "TICKING"}, plan : TimerPlan]
  BY <1>4, <1>5, <1>7, <1>8
<1>10. Interval(t)' = Interval(t) /\ CanAlign(t)' = CanAlign(t) /\ Full(t)' = Full(t)
  BY <1>7, <1>9, SamePlan
<1>11. TimerFits(t)'
  <2>1. Listed(new, t) <=> swtmr'[t].ucState = "TICKING"
    <3>1. CASE At(list, t, 1)
      <4>1. Listed(list, t) /\ (Periodic(t) <=> p.mode = "period")
        BY <1>1, <1>7, <3>1, NumberedOnce DEF Periodic
      <4>2. swtmr'[t].ucState = "TICKING" <=> p.mode = "period"
        BY <1>5, <1>8, <3>1, <1>4, <1>7
      <4> QED
        BY <1>3, <3>1, <4>1, <4>2
    <3>2. CASE ~At(list, t, 1)
      BY <1>2, <1>3, <1>5, <3>2
    <3> QED
      BY <3>1, <3>2
  <2>2. swtmr'[t].ucState = "TICKING" => m_uwSwTmrAlignID'[t] = Full(t)
    <3>1. CASE At(list, t, 1)
      <4>1. swtmr[t].ucState = "TICKING"
        BY <1>1, <1>2, <3>1, NumberedOnce
      <4>2. swtmr'[t].ucState = "TICKING" => p.mode = "period"
        BY <1>5, <1>8, <3>1, <1>4, <1>7
      <4> QED
        BY <1>2, <1>6, <1>7, <4>1, <4>2
    <3>2. CASE ~At(list, t, 1)
      BY <1>2, <1>5, <1>6, <3>2
    <3> QED
      BY <3>1, <3>2
  <2>3. swtmr'[t].ucState = "CREATED" => m_uwSwTmrAlignID'[t] \in {{}, CanAlign(t)}
    <3>1. CASE At(list, t, 1)
      <4>1. swtmr[t].ucState = "TICKING"
        BY <1>1, <1>2, <3>1, NumberedOnce
      <4>2. swtmr'[t].ucState = "CREATED" => p.mode = "no_selfdelete"
        BY <1>5, <1>8, <3>1, <1>4, <1>7
      <4>3. p.mode = "no_selfdelete" => Full(t) = {}
        BY <1>7 DEF Full, CanAlign
      <4> QED
        BY <1>2, <1>6, <1>7, <4>1, <4>2, <4>3
    <3>2. CASE ~At(list, t, 1)
      BY <1>2, <1>5, <1>6, <3>2
    <3> QED
      BY <3>1, <3>2
  <2>4. swtmr'[t].ucState = "UNUSED" => m_uwSwTmrAlignID'[t] = {}
    <3>1. CASE At(list, t, 1)
      <4>1. swtmr'[t].ucState = "UNUSED" => p.mode = "once"
        BY <1>5, <1>8, <3>1, <1>4, <1>7
      <4> QED
        BY <1>6, <1>7, <3>1, <4>1
    <3>2. CASE ~At(list, t, 1)
      BY <1>2, <1>5, <1>6, <3>2
    <3> QED
      BY <3>1, <3>2
  <2> QED
    BY <1>0, <1>3, <1>10, <2>1, <2>2, <2>3, <2>4 DEF TimerFits
<1>12. Remaining(t)' = Callbacks!AfterTick(t)
  <2>1. Callbacks!AfterTick(t) = CASE Remaining(t) > 1 -> Remaining(t) - 1
                                   [] Remaining(t) = 1 -> IF Periodic(t) THEN Interval(t) ELSE 0
                                   [] OTHER -> 0
    BY DEF Callbacks!AfterTick
  <2>2. Remaining(t) = RemainingOn(list, t) /\ Remaining(t)' = RemainingOn(new, t)
    BY <1>0, RemainingOnIs
  <2> QED
    BY <1>3, <2>1, <2>2
<1>13. m_uwSwTmrAlignID'[t] \in SUBSET {"ALREADY", "CAN", "MULTI"}
  BY <1>1, <1>6
<1> QED
  BY <1>7, <1>9, <1>11, <1>12, <1>13

\* A tick keeps the invariant, and is a tick for all timers.
LEMMA TimersTick == SwtInv /\ ~Parks /\ osSwtmrScan => SwtInv' /\ Callbacks!Tick
<1> SUFFICES ASSUME SwtInv, Scans PROVE SwtInv' /\ Callbacks!Tick
  BY ScanIs
<1>1. \A t \in Timer :
        /\ TimerFits(t)'
        /\ Remaining(t)' = Callbacks!AfterTick(t)
        /\ swtmr'[t].plan = swtmr[t].plan
        /\ swtmr'[t] \in [ucState : {"UNUSED", "CREATED", "TICKING"}, plan : TimerPlan]
        /\ m_uwSwTmrAlignID'[t] \in SUBSET {"ALREADY", "CAN", "MULTI"}
  BY TickOf
<1>2. /\ swtmr' = [t \in Timer |-> IF At(m_pstSwtmrSortList, t, 1) THEN Expired(t) ELSE swtmr[t]]
      /\ m_uwSwTmrAlignID' = [t \in Timer |-> IF At(m_pstSwtmrSortList, t, 1) /\ swtmr[t].plan.mode = "once"
                                              THEN {} ELSE m_uwSwTmrAlignID[t]]
      /\ m_uwSwTmrHandlerQueue' \in BoundedSeq(Timer, LOSCFG_BASE_CORE_SWTMR_LIMIT)
      /\ swt' = swt /\ parked' = parked
      /\ Sound(m_pstSwtmrSortList', Timer, MostTicks)
  BY DEF Scans, Ticked
<1>3. BlocksOK'
  <2>1. swtmr' = [t \in Timer |-> swtmr'[t]]
    BY <1>2
  <2> QED
    BY <1>1, <2>1 DEF BlocksOK
<1>4. (m_uwSwTmrAlignID \in [Timer -> SUBSET {"ALREADY", "CAN", "MULTI"}])'
  <2>1. m_uwSwTmrAlignID' = [t \in Timer |-> m_uwSwTmrAlignID'[t]]
    BY <1>2
  <2> QED
    BY <1>1, <2>1
<1>5. SwtInv'
  BY <1>1, <1>2, <1>3, <1>4 DEF SwtInv
<1>6. \A t \in Timer : Interval(t)' = Interval(t) /\ Periodic(t)' = Periodic(t)
                       /\ Loose(swtmr[t].plan)' = Loose(swtmr[t].plan)
  BY <1>1, SamePlan
<1>7. [t \in Timer |-> [ticks |-> Interval(t), repeats |-> Periodic(t), loose |-> Loose(swtmr[t].plan)]]'
      = [t \in Timer |-> [ticks |-> Interval(t), repeats |-> Periodic(t), loose |-> Loose(swtmr[t].plan)]]
  BY <1>6
<1>8. [t \in Timer |-> Remaining(t)]' = [t \in Timer |-> Callbacks!AfterTick(t)]
  BY <1>1
<1>9. Callbacks!Tick
  BY <1>7, <1>8 DEF Callbacks!Tick
<1> QED
  BY <1>5, <1>9

\* The bits of a timer that is not listed: it is not aligned with others.
Idle(bits, t) == bits[t] \in {{}, CanAlign(t)}

\* A timer that is stopped is not in the list, and the others are where they were.
LEMMA StoppedIs ==
  ASSUME SwtInv, NEW t \in Timer, NEW list, list = Stopped(t).list, NEW bits, bits = Stopped(t).bits
  PROVE  /\ Sound(list, Timer, MostTicks) /\ ~Listed(list, t)
         /\ \A y, m : At(list, y, m) <=> At(m_pstSwtmrSortList, y, m) /\ y # t
         /\ bits = [m_uwSwTmrAlignID EXCEPT ![t] = bits[t]] /\ Idle(bits, t)
         /\ swtmr[t].ucState = "TICKING" => bits[t] = CanAlign(t)
<1>0. PICK old : old = m_pstSwtmrSortList
  OBVIOUS
<1>1. /\ BlocksOK /\ Sound(old, Timer, MostTicks) /\ TimerFits(t)
      /\ m_uwSwTmrAlignID \in [Timer -> SUBSET {"ALREADY", "CAN", "MULTI"}]
  BY <1>0 DEF SwtInv
<1>2. /\ Listed(old, t) <=> swtmr[t].ucState = "TICKING"
      /\ swtmr[t].ucState = "TICKING" => m_uwSwTmrAlignID[t] = Full(t)
      /\ swtmr[t].ucState = "CREATED" => m_uwSwTmrAlignID[t] \in {{}, CanAlign(t)}
      /\ swtmr[t].ucState = "UNUSED" => m_uwSwTmrAlignID[t] = {}
  BY <1>0, <1>1 DEF TimerFits
<1>3. swtmr[t].ucState \in {"UNUSED", "CREATED", "TICKING"} /\ CanAlign(t) \in {{}, {"CAN"}, {"CAN", "MULTI"}}
  BY <1>1, PlansFit
<1>4. CASE swtmr[t].ucState = "TICKING"
  <2>1. /\ list = Unlinked(old, t)
        /\ bits = [m_uwSwTmrAlignID EXCEPT ![t] = @ \ {"ALREADY"}]
    BY <1>0, <1>4 DEF Stopped, osSwtmrStop
  <2>2. /\ Sound(list, Timer, MostTicks)
        /\ \A y, m : At(list, y, m) <=> At(old, y, m) /\ y # t
    BY <1>1, <1>2, <1>4, <2>1, TimerConstants, UnlinkedTakes
  <2>3. ~Listed(list, t)
    BY <2>2, NumberedOnce
  <2>4. bits[t] = Full(t) \ {"ALREADY"}
    BY <1>1, <1>2, <1>4, <2>1
  <2>5. bits[t] = CanAlign(t)
    BY <1>3, <2>4 DEF Full
  <2> QED
    BY <1>0, <1>1, <2>1, <2>2, <2>3, <2>5 DEF Idle
<1>5. CASE swtmr[t].ucState # "TICKING"
  <2>1. list = old /\ bits = m_uwSwTmrAlignID
    BY <1>0, <1>5 DEF Stopped
  <2>2. \A m : ~At(old, t, m)
    BY <1>1, <1>2, <1>5, NumberedOnce
  <2>3. bits[t] \in {{}, CanAlign(t)}
    BY <1>2, <1>3, <1>5, <2>1
  <2> QED
    BY <1>0, <1>1, <1>2, <1>5, <2>1, <2>2, <2>3 DEF Idle
<1> QED
  BY <1>4, <1>5

\* The step is about t alone: b and c are its control block and its bits afterwards.
About(t, b, c) ==
  /\ swtmr' = [swtmr EXCEPT ![t] = b] /\ b \in [ucState : {"UNUSED", "CREATED", "TICKING"}, plan : TimerPlan]
  /\ m_uwSwTmrAlignID' = [m_uwSwTmrAlignID EXCEPT ![t] = c] /\ c \in SUBSET {"ALREADY", "CAN", "MULTI"}
  /\ Sound(m_pstSwtmrSortList', Timer, MostTicks)
  /\ \A y : \A m : y # t => (At(m_pstSwtmrSortList', y, m) <=> At(m_pstSwtmrSortList, y, m))
  /\ TimerFits(t)'
  /\ UNCHANGED taskSwtVars

\* The plan of a timer as Deadlines sees it.
PlanOf(p) == [ticks |-> p.interval, repeats |-> p.mode = "period", loose |-> Loose(p)]

\* The step leaves all timers but t alone.
Steady(t) == \A u \in Timer \ {t} :
  /\ swtmr'[u] = swtmr[u] /\ m_uwSwTmrAlignID'[u] = m_uwSwTmrAlignID[u]
  /\ Remaining(u)' = Remaining(u)

\* A step about one timer keeps the invariant and the other timers.
LEMMA AboutKeeps ==
  ASSUME SwtInv, NEW t \in Timer, NEW b, NEW c, About(t, b, c)
  PROVE  /\ SwtInv' /\ Steady(t)
         /\ [u \in Timer |-> Remaining(u)]' = [[u \in Timer |-> Remaining(u)] EXCEPT ![t] = Remaining(t)']
         /\ [u \in Timer |-> [ticks |-> Interval(u), repeats |-> Periodic(u), loose |-> Loose(swtmr[u].plan)]]'
            = [[u \in Timer |-> [ticks |-> Interval(u), repeats |-> Periodic(u), loose |-> Loose(swtmr[u].plan)]]
                 EXCEPT ![t] = PlanOf(b.plan)]
<1>1. /\ swtmr' = [swtmr EXCEPT ![t] = b] /\ b \in [ucState : {"UNUSED", "CREATED", "TICKING"}, plan : TimerPlan]
      /\ m_uwSwTmrAlignID' = [m_uwSwTmrAlignID EXCEPT ![t] = c] /\ c \in SUBSET {"ALREADY", "CAN", "MULTI"}
      /\ Sound(m_pstSwtmrSortList', Timer, MostTicks)
      /\ TimerFits(t)'
      /\ m_uwSwTmrHandlerQueue' = m_uwSwTmrHandlerQueue /\ swt' = swt /\ parked' = parked
  BY DEF About, taskSwtVars
<1>2. BlocksOK /\ m_uwSwTmrAlignID \in [Timer -> SUBSET {"ALREADY", "CAN", "MULTI"}]
      /\ Sound(m_pstSwtmrSortList, Timer, MostTicks) /\ \A u \in Timer : TimerFits(u)
  BY DEF SwtInv
<1>3. \A u \in Timer : /\ swtmr'[u] = IF u = t THEN b ELSE swtmr[u]
                       /\ m_uwSwTmrAlignID'[u] = IF u = t THEN c ELSE m_uwSwTmrAlignID[u]
  BY <1>1, <1>2 DEF BlocksOK
<1>4. ASSUME NEW u \in Timer, u # t PROVE TimerFits(u)' /\ Remaining(u)' = Remaining(u)
  <2>1. Untouched(u)
    <3>1. \A m : At(m_pstSwtmrSortList', u, m) <=> At(m_pstSwtmrSortList, u, m)
      BY <1>4 DEF About
    <3> QED
      BY <1>3, <1>4, <3>1 DEF Untouched
  <2> QED
    BY <1>1, <1>2, <2>1, UntouchedFits
<1>5. BlocksOK'
  BY <1>1, <1>2 DEF BlocksOK
<1>6. (m_uwSwTmrAlignID \in [Timer -> SUBSET {"ALREADY", "CAN", "MULTI"}])'
  BY <1>1, <1>2
<1>7. (\A u \in Timer : TimerFits(u))'
  BY <1>1, <1>4
<1>8. SwtInv'
  BY <1>1, <1>5, <1>6, <1>7 DEF SwtInv
<1>9. [u \in Timer |-> Remaining(u)]' = [[u \in Timer |-> Remaining(u)] EXCEPT ![t] = Remaining(t)']
  BY <1>4
<1>10. \A u \in Timer :
         [ticks |-> Interval(u), repeats |-> Periodic(u), loose |-> Loose(swtmr[u].plan)]'
         = IF u = t THEN PlanOf(b.plan)
           ELSE [ticks |-> Interval(u), repeats |-> Periodic(u), loose |-> Loose(swtmr[u].plan)]
  <2> SUFFICES ASSUME NEW u \in Timer
               PROVE  [ticks |-> Interval(u), repeats |-> Periodic(u), loose |-> Loose(swtmr[u].plan)]'
                      = IF u = t THEN PlanOf(b.plan)
                        ELSE [ticks |-> Interval(u), repeats |-> Periodic(u), loose |-> Loose(swtmr[u].plan)]
    OBVIOUS
  <2>1. swtmr'[u] = IF u = t THEN b ELSE swtmr[u]
    BY <1>3
  <2>2. CASE u = t
    BY <2>1, <2>2 DEF PlanOf, Interval, Periodic, Loose
  <2>3. CASE u # t
    BY <2>1, <2>3 DEF Interval, Periodic, Loose
  <2> QED
    BY <2>2, <2>3
<1>11. [u \in Timer |-> [ticks |-> Interval(u), repeats |-> Periodic(u), loose |-> Loose(swtmr[u].plan)]]'
       = [[u \in Timer |-> [ticks |-> Interval(u), repeats |-> Periodic(u), loose |-> Loose(swtmr[u].plan)]]
            EXCEPT ![t] = PlanOf(b.plan)]
  BY <1>10
<1>12. Steady(t)
  BY <1>3, <1>4 DEF Steady
<1> QED
  BY <1>8, <1>9, <1>11, <1>12

\* The plans of the timers, as Deadlines sees them.
LEMMA PlanIs ==
  ASSUME NEW t
  PROVE  [ticks |-> Interval(t), repeats |-> Periodic(t), loose |-> Loose(swtmr[t].plan)] = PlanOf(swtmr[t].plan)
BY DEF PlanOf, Interval, Periodic, Loose

\* A timer that is not listed has nothing left of its time, and fits if its bits do.
LEMMA UnlistedFits ==
  ASSUME NEW t \in Timer, Sound(m_pstSwtmrSortList', Timer, MostTicks), \A m : ~At(m_pstSwtmrSortList', t, m),
         swtmr'[t].ucState = "CREATED" \/ swtmr'[t].ucState = "UNUSED",
         swtmr'[t].plan = swtmr[t].plan \/ m_uwSwTmrAlignID'[t] = {},
         swtmr'[t].ucState = "CREATED" => m_uwSwTmrAlignID'[t] \in {{}, CanAlign(t)},
         swtmr'[t].ucState = "UNUSED" => m_uwSwTmrAlignID'[t] = {}
  PROVE  TimerFits(t)' /\ Remaining(t)' = 0
<1>0. PICK new : new = m_pstSwtmrSortList'
  OBVIOUS
<1>1. ~Listed(new, t) /\ RemainingOn(new, t) = 0 /\ \A m : ~At(new, t, m)
  BY <1>0, NumberedOnce, NumberIs
<1>2. swtmr'[t].ucState = "CREATED" => m_uwSwTmrAlignID'[t] \in {{}, CanAlign(t)'}
  BY SamePlan
<1> QED
  BY <1>0, <1>1, <1>2, RemainingOnIs DEF TimerFits

\* A timer that is created has a plan, and does not tick yet.
LEMMA Creates ==
  ASSUME SwtInv, NEW t \in Timer, NEW p \in TimerPlan, LOS_SwtmrCreate(t, p)
  PROVE  SwtInv' /\ Callbacks!Prepare(t) /\ Steady(t) /\ swtmr'[t].ucState # "TICKING"
<1>1. PICK b, c : b = [ucState |-> "CREATED", plan |-> p] /\ c = m_uwSwTmrAlignID[t]
  OBVIOUS
<1>2. /\ swtmr[t].ucState = "UNUSED" /\ swtmr' = [swtmr EXCEPT ![t] = b]
      /\ m_pstSwtmrSortList' = m_pstSwtmrSortList /\ m_uwSwTmrAlignID' = m_uwSwTmrAlignID
      /\ UNCHANGED taskSwtVars
  BY <1>1 DEF LOS_SwtmrCreate
<1>3. /\ BlocksOK /\ m_uwSwTmrAlignID \in [Timer -> SUBSET {"ALREADY", "CAN", "MULTI"}]
      /\ Sound(m_pstSwtmrSortList, Timer, MostTicks) /\ TimerFits(t)
  BY DEF SwtInv
<1>4. c = {} /\ ~Listed(m_pstSwtmrSortList, t)
  BY <1>1, <1>2, <1>3 DEF TimerFits
<1>5. \A m : ~At(m_pstSwtmrSortList, t, m)
  BY <1>3, <1>4, NumberedOnce
<1>6. Remaining(t) = 0
  BY <1>3, <1>5, NumberIs, RemainingOnIs
<1>7. swtmr'[t] = b /\ b.ucState = "CREATED" /\ b.plan = p
      /\ b \in [ucState : {"UNUSED", "CREATED", "TICKING"}, plan : TimerPlan]
  BY <1>1, <1>2, <1>3 DEF BlocksOK
<1>8. /\ m_uwSwTmrAlignID' = [m_uwSwTmrAlignID EXCEPT ![t] = c]
      /\ c \in SUBSET {"ALREADY", "CAN", "MULTI"} /\ m_uwSwTmrAlignID'[t] = {}
  BY <1>1, <1>2, <1>3, <1>4
<1>9. TimerFits(t)' /\ Remaining(t)' = 0
  <2>1. Sound(m_pstSwtmrSortList', Timer, MostTicks) /\ \A m : ~At(m_pstSwtmrSortList', t, m)
    BY <1>2, <1>3, <1>5
  <2> QED
    BY <1>7, <1>8, <2>1, UnlistedFits
<1>10. About(t, b, c)
  BY <1>2, <1>3, <1>7, <1>8, <1>9 DEF About
<1>11. SwtInv' /\ Steady(t)
       /\ [u \in Timer |-> Remaining(u)]' = [[u \in Timer |-> Remaining(u)] EXCEPT ![t] = Remaining(t)']
       /\ [u \in Timer |-> [ticks |-> Interval(u), repeats |-> Periodic(u), loose |-> Loose(swtmr[u].plan)]]'
          = [[u \in Timer |-> [ticks |-> Interval(u), repeats |-> Periodic(u), loose |-> Loose(swtmr[u].plan)]]
               EXCEPT ![t] = PlanOf(p)]
  BY <1>7, <1>10, AboutKeeps
<1>12. [u \in Timer |-> Remaining(u)]' = [u \in Timer |-> Remaining(u)]
  BY <1>6, <1>9, <1>11
<1>13. Callbacks!Prepare(t)
  BY <1>6, <1>11, <1>12 DEF Callbacks!Prepare, PlanOf
<1> QED
  BY <1>7, <1>11, <1>13

\* A timer that is stopped or deleted is not due any more.
LEMMA Disarms ==
  ASSUME SwtInv, NEW t \in Timer, LOS_SwtmrStop(t) \/ LOS_SwtmrDelete(t)
  PROVE  SwtInv' /\ Callbacks!Disarm(t) /\ Steady(t) /\ swtmr'[t].ucState # "TICKING"
<1>1. PICK list, bits : list = Stopped(t).list /\ bits = Stopped(t).bits
  OBVIOUS
<1>2. /\ Sound(list, Timer, MostTicks) /\ ~Listed(list, t)
      /\ \A y, m : At(list, y, m) <=> At(m_pstSwtmrSortList, y, m) /\ y # t
      /\ bits = [m_uwSwTmrAlignID EXCEPT ![t] = bits[t]]
      /\ swtmr[t].ucState = "TICKING" => bits[t] = CanAlign(t)
  BY <1>1, StoppedIs
<1>3. BlocksOK /\ m_uwSwTmrAlignID \in [Timer -> SUBSET {"ALREADY", "CAN", "MULTI"}]
  BY DEF SwtInv
<1>4. /\ swtmr[t] = [ucState |-> swtmr[t].ucState, plan |-> swtmr[t].plan] /\ swtmr[t].plan \in TimerPlan
      /\ CanAlign(t) \in {{}, {"CAN"}, {"CAN", "MULTI"}}
  BY <1>3, PlansFit
<1>5. PICK b : b = [ucState |-> IF LOS_SwtmrStop(t) THEN "CREATED" ELSE "UNUSED", plan |-> swtmr[t].plan]
  OBVIOUS
<1>6. PICK c : c = IF LOS_SwtmrStop(t) THEN bits[t] ELSE {}
  OBVIOUS
<1>7. m_pstSwtmrSortList' = list /\ UNCHANGED taskSwtVars
  BY <1>1 DEF LOS_SwtmrStop, LOS_SwtmrDelete
<1>8. swtmr' = [swtmr EXCEPT ![t] = b]
  <2>1. CASE LOS_SwtmrStop(t)
    <3>1. swtmr' = [swtmr EXCEPT ![t] = [swtmr[t] EXCEPT !.ucState = "CREATED"]]
      BY <2>1 DEF LOS_SwtmrStop
    <3>2. b = [swtmr[t] EXCEPT !.ucState = "CREATED"]
      BY <1>4, <1>5, <2>1
    <3> QED
      BY <3>1, <3>2
  <2>2. CASE ~LOS_SwtmrStop(t)
    <3>1. swtmr' = [swtmr EXCEPT ![t] = [swtmr[t] EXCEPT !.ucState = "UNUSED"]]
      BY <2>2 DEF LOS_SwtmrDelete
    <3>2. b = [swtmr[t] EXCEPT !.ucState = "UNUSED"]
      BY <1>4, <1>5, <2>2
    <3> QED
      BY <3>1, <3>2
  <2> QED
    BY <2>1, <2>2
<1>9. m_uwSwTmrAlignID' = [m_uwSwTmrAlignID EXCEPT ![t] = c]
  <2>1. CASE LOS_SwtmrStop(t)
    <3>1. m_uwSwTmrAlignID' = bits
      BY <1>1, <2>1 DEF LOS_SwtmrStop
    <3> QED
      BY <1>2, <1>6, <2>1, <3>1
  <2>2. CASE ~LOS_SwtmrStop(t)
    BY <1>6, <2>2 DEF LOS_SwtmrDelete
  <2> QED
    BY <2>1, <2>2
<1>10. c \in {{}, CanAlign(t)} /\ (~LOS_SwtmrStop(t) => c = {})
  <2>1. LOS_SwtmrStop(t) => swtmr[t].ucState = "TICKING"
    BY DEF LOS_SwtmrStop
  <2> QED
    BY <1>2, <1>6, <2>1
<1>11. /\ swtmr'[t] = b /\ b.plan = swtmr[t].plan /\ m_uwSwTmrAlignID'[t] = c
       /\ b \in [ucState : {"UNUSED", "CREATED", "TICKING"}, plan : TimerPlan]
       /\ c \in SUBSET {"ALREADY", "CAN", "MULTI"}
       /\ b.ucState = IF LOS_SwtmrStop(t) THEN "CREATED" ELSE "UNUSED"
  <2>1. swtmr'[t] = b /\ m_uwSwTmrAlignID'[t] = c
    BY <1>3, <1>8, <1>9 DEF BlocksOK
  <2>2. c \in SUBSET {"ALREADY", "CAN", "MULTI"}
    BY <1>4, <1>10
  <2> QED
    BY <1>4, <1>5, <2>1, <2>2
<1>12. Sound(m_pstSwtmrSortList', Timer, MostTicks) /\ \A m : ~At(m_pstSwtmrSortList', t, m)
  BY <1>2, <1>7
<1>13. TimerFits(t)' /\ Remaining(t)' = 0
  <2>1. swtmr'[t].ucState = "CREATED" \/ swtmr'[t].ucState = "UNUSED"
    BY <1>11
  <2>2. swtmr'[t].ucState = "CREATED" => m_uwSwTmrAlignID'[t] \in {{}, CanAlign(t)}
    BY <1>10, <1>11
  <2>3. swtmr'[t].ucState = "UNUSED" => m_uwSwTmrAlignID'[t] = {}
    BY <1>10, <1>11
  <2>4. swtmr'[t].plan = swtmr[t].plan \/ m_uwSwTmrAlignID'[t] = {}
    BY <1>11
  <2> QED
    BY <1>12, <2>1, <2>2, <2>3, <2>4, UnlistedFits
<1>14. About(t, b, c)
  <2>1. \A y : \A m : y # t => (At(m_pstSwtmrSortList', y, m) <=> At(m_pstSwtmrSortList, y, m))
    BY <1>2, <1>7
  <2> QED
    BY <1>7, <1>8, <1>9, <1>11, <1>12, <1>13, <2>1 DEF About
<1>15. SwtInv' /\ Steady(t)
       /\ [u \in Timer |-> Remaining(u)]' = [[u \in Timer |-> Remaining(u)] EXCEPT ![t] = Remaining(t)']
       /\ [u \in Timer |-> [ticks |-> Interval(u), repeats |-> Periodic(u), loose |-> Loose(swtmr[u].plan)]]'
          = [[u \in Timer |-> [ticks |-> Interval(u), repeats |-> Periodic(u), loose |-> Loose(swtmr[u].plan)]]
               EXCEPT ![t] = PlanOf(b.plan)]
  BY <1>14, AboutKeeps
<1>16. [u \in Timer |-> [ticks |-> Interval(u), repeats |-> Periodic(u), loose |-> Loose(swtmr[u].plan)]]'
       = [u \in Timer |-> [ticks |-> Interval(u), repeats |-> Periodic(u), loose |-> Loose(swtmr[u].plan)]]
  <2>1. PlanOf(b.plan) = [ticks |-> Interval(t), repeats |-> Periodic(t), loose |-> Loose(swtmr[t].plan)]
    BY <1>11, PlanIs
  <2> QED
    BY <1>15, <2>1
<1>17. Callbacks!Disarm(t)
  BY <1>13, <1>15, <1>16 DEF Callbacks!Disarm
<1> QED
  BY <1>11, <1>15, <1>17

\* t, which has the number n now, was put there by osSwTmrStart; the list and the bits are
\* those of the others.
Started(t, n) ==
  /\ Remaining(t)' = n /\ n \in 1..Interval(t)
  /\ \E list, bits :
       /\ StartsAt(t, list, bits, n)
       /\ Sound(list, Timer, MostTicks)
       /\ \A y, m : At(list, y, m) <=> At(m_pstSwtmrSortList, y, m) /\ y # t
       /\ bits[t] = CanAlign(t) /\ \A u \in Timer \ {t} : bits[u] = m_uwSwTmrAlignID[u]

\* A timer that is started is due after its interval, or earlier if it may be aligned.
LEMMA Arms ==
  ASSUME SwtInv, NEW t \in Timer, LOS_SwtmrStart(t)
  PROVE  /\ SwtInv' /\ Callbacks!Arm(t)
         /\ Steady(t) /\ swtmr'[t].plan = swtmr[t].plan /\ \E n : Started(t, n)
<1>1. PICK list, idle : list = Stopped(t).list /\ idle = Stopped(t).bits
  OBVIOUS
<1>2. PICK bits : bits = [idle EXCEPT ![t] = @ \cup CanAlign(t)]
  OBVIOUS
<1>3. /\ Sound(list, Timer, MostTicks) /\ ~Listed(list, t)
      /\ \A y, m : At(list, y, m) <=> At(m_pstSwtmrSortList, y, m) /\ y # t
      /\ idle = [m_uwSwTmrAlignID EXCEPT ![t] = idle[t]] /\ Idle(idle, t)
  BY <1>1, StoppedIs
<1>4. /\ BlocksOK /\ m_uwSwTmrAlignID \in [Timer -> SUBSET {"ALREADY", "CAN", "MULTI"}]
      /\ Sound(m_pstSwtmrSortList, Timer, MostTicks) /\ \A u \in Timer : TimerFits(u)
  BY DEF SwtInv
<1>5. /\ swtmr[t] = [ucState |-> swtmr[t].ucState, plan |-> swtmr[t].plan] /\ swtmr[t].plan \in TimerPlan
      /\ Interval(t) \in Nat \ {0}
      /\ CanAlign(t) \in {{}, {"CAN"}, {"CAN", "MULTI"}}
  BY <1>4, PlansFit
<1>6. /\ m_pstSwtmrSortList' = osSwTmrStart(t, list, bits)
      /\ m_uwSwTmrAlignID' = [bits EXCEPT ![t] = IF "CAN" \in @ THEN @ \cup {"ALREADY"} ELSE @]
      /\ swtmr' = [swtmr EXCEPT ![t].ucState = "TICKING"]
      /\ UNCHANGED taskSwtVars
  BY <1>1, <1>2 DEF LOS_SwtmrStart
<1>7. /\ bits = [m_uwSwTmrAlignID EXCEPT ![t] = CanAlign(t)]
      /\ bits[t] = CanAlign(t) /\ \A u \in Timer \ {t} : bits[u] = m_uwSwTmrAlignID[u]
  <2>1. idle[t] \cup CanAlign(t) = CanAlign(t)
    BY <1>3 DEF Idle
  <2>2. PICK e : idle = [m_uwSwTmrAlignID EXCEPT ![t] = e] /\ e = idle[t]
    BY <1>3
  <2>3. bits = [m_uwSwTmrAlignID EXCEPT ![t] = CanAlign(t)]
    BY <1>2, <1>4, <2>1, <2>2
  <2> QED
    BY <1>4, <2>3
<1>8. Others(list, bits, t)
  <2> SUFFICES ASSUME NEW u \in Timer \ {t}
               PROVE  /\ Aligned(u, bits) => Listed(list, u)
                      /\ \A m : At(list, u, m) => m \in 1..Interval(u)
    BY DEF Others
  <2>1. /\ Listed(m_pstSwtmrSortList, u) <=> swtmr[u].ucState = "TICKING"
        /\ \A m : At(m_pstSwtmrSortList, u, m) => m \in 1..Interval(u)
        /\ swtmr[u].ucState = "CREATED" => m_uwSwTmrAlignID[u] \in {{}, CanAlign(u)}
        /\ swtmr[u].ucState = "UNUSED" => m_uwSwTmrAlignID[u] = {}
    BY <1>4 DEF TimerFits
  <2>2. swtmr[u].ucState \in {"UNUSED", "CREATED", "TICKING"} /\ CanAlign(u) \in {{}, {"CAN"}, {"CAN", "MULTI"}}
    BY <1>4, PlansFit
  <2>3. Aligned(u, bits) => swtmr[u].ucState = "TICKING"
    BY <1>7, <2>1, <2>2 DEF Aligned
  <2>4. Listed(m_pstSwtmrSortList, u) => \E m : At(m_pstSwtmrSortList, u, m)
    BY <1>4, NumberedOnce
  <2>5. (\E m : At(list, u, m)) => Listed(list, u)
    BY <1>3, NumberedOnce
  <2> QED
    BY <1>3, <2>1, <2>3, <2>4, <2>5
<1>9. PICK new : new = m_pstSwtmrSortList'
  OBVIOUS
<1>10. /\ Sound(new, Timer, MostTicks)
       /\ \E n \in 1..Interval(t) :
            /\ StartsAt(t, list, bits, n)
            /\ \A y, m : At(new, y, m) <=> At(list, y, m) \/ (y = t /\ m = n)
  BY <1>3, <1>4, <1>6, <1>8, <1>9, StartPuts
<1>11. PICK n \in 1..Interval(t) :
         /\ StartsAt(t, list, bits, n)
         /\ \A y, m : At(new, y, m) <=> At(list, y, m) \/ (y = t /\ m = n)
  BY <1>10
<1>12. CanAlign(t) = {} => n = Interval(t)
  BY <1>7, <1>11 DEF StartsAt
<1>13. PICK b, c : b = [ucState |-> "TICKING", plan |-> swtmr[t].plan] /\ c = Full(t)
  OBVIOUS
<1>14. swtmr' = [swtmr EXCEPT ![t] = b]
  <2>1. swtmr' = [swtmr EXCEPT ![t] = [swtmr[t] EXCEPT !.ucState = "TICKING"]]
    BY <1>6
  <2>2. b = [swtmr[t] EXCEPT !.ucState = "TICKING"]
    BY <1>5, <1>13
  <2> QED
    BY <2>1, <2>2
<1>15. m_uwSwTmrAlignID' = [m_uwSwTmrAlignID EXCEPT ![t] = c]
  <2>1. (IF "CAN" \in CanAlign(t) THEN CanAlign(t) \cup {"ALREADY"} ELSE CanAlign(t)) = c
    BY <1>5, <1>13 DEF Full
  <2>2. m_uwSwTmrAlignID' = [bits EXCEPT ![t] = IF "CAN" \in bits[t] THEN bits[t] \cup {"ALREADY"} ELSE bits[t]]
    BY <1>6
  <2>3. m_uwSwTmrAlignID' = [bits EXCEPT ![t] = c]
    BY <1>7, <2>1, <2>2
  <2> QED
    BY <1>4, <1>7, <2>3
<1>16. /\ swtmr'[t] = b /\ b.plan = swtmr[t].plan /\ m_uwSwTmrAlignID'[t] = Full(t)
       /\ b \in [ucState : {"UNUSED", "CREATED", "TICKING"}, plan : TimerPlan]
       /\ c \in SUBSET {"ALREADY", "CAN", "MULTI"} /\ b.ucState = "TICKING"
  <2>1. swtmr'[t] = b /\ m_uwSwTmrAlignID'[t] = c
    BY <1>4, <1>14, <1>15 DEF BlocksOK
  <2>2. c \in SUBSET {"ALREADY", "CAN", "MULTI"}
    BY <1>5, <1>13 DEF Full
  <2> QED
    BY <1>5, <1>13, <2>1, <2>2
<1>17. \A m : At(new, t, m) <=> m = n
  <2>1. \A m : ~At(list, t, m)
    BY <1>3
  <2> QED
    BY <1>11, <2>1
<1>18. Listed(new, t) /\ RemainingOn(new, t) = n
  BY <1>10, <1>17, NumberedOnce, NumberIs
<1>19. Remaining(t)' = n
  BY <1>9, <1>18, RemainingOnIs
<1>20. TimerFits(t)'
  <2>1. Interval(t)' = Interval(t) /\ Full(t)' = Full(t)
    BY <1>16, SamePlan
  <2> QED
    BY <1>9, <1>11, <1>16, <1>17, <1>18, <2>1 DEF TimerFits
<1>21. About(t, b, c)
  <2>1. \A y : \A m : y # t => (At(m_pstSwtmrSortList', y, m) <=> At(m_pstSwtmrSortList, y, m))
    BY <1>3, <1>9, <1>11
  <2> QED
    BY <1>6, <1>9, <1>10, <1>14, <1>15, <1>16, <1>20, <2>1 DEF About
<1>22. SwtInv' /\ Steady(t)
       /\ [u \in Timer |-> Remaining(u)]' = [[u \in Timer |-> Remaining(u)] EXCEPT ![t] = n]
       /\ [u \in Timer |-> [ticks |-> Interval(u), repeats |-> Periodic(u), loose |-> Loose(swtmr[u].plan)]]'
          = [[u \in Timer |-> [ticks |-> Interval(u), repeats |-> Periodic(u), loose |-> Loose(swtmr[u].plan)]]
               EXCEPT ![t] = PlanOf(swtmr[t].plan)]
  <2>1. SwtInv' /\ Steady(t)
        /\ [u \in Timer |-> Remaining(u)]' = [[u \in Timer |-> Remaining(u)] EXCEPT ![t] = Remaining(t)']
        /\ [u \in Timer |-> [ticks |-> Interval(u), repeats |-> Periodic(u), loose |-> Loose(swtmr[u].plan)]]'
           = [[u \in Timer |-> [ticks |-> Interval(u), repeats |-> Periodic(u), loose |-> Loose(swtmr[u].plan)]]
                EXCEPT ![t] = PlanOf(b.plan)]
    BY <1>21, AboutKeeps
  <2>2. PlanOf(b.plan) = PlanOf(swtmr[t].plan)
    BY <1>16
  <2> QED
    BY <1>19, <2>1, <2>2
<1>23. PICK p : p = PlanOf(swtmr[t].plan)
  OBVIOUS
<1>24. /\ p \in {[ticks |-> q.interval, repeats |-> q.mode = "period", loose |-> Loose(q)] : q \in TimerPlan}
       /\ p.ticks = Interval(t) /\ p.loose = Loose(swtmr[t].plan)
  BY <1>5, <1>23 DEF PlanOf, Interval
<1>25. n \in IF p.loose THEN 1..p.ticks ELSE {p.ticks}
  <2>1. ~Loose(swtmr[t].plan) => CanAlign(t) = {}
    BY DEF Loose, CanAlign
  <2> QED
    BY <1>11, <1>12, <1>24, <2>1
<1>26. Callbacks!Arm(t)
  BY <1>22, <1>23, <1>24, <1>25 DEF Callbacks!Arm
<1>27. Started(t, n)
  BY <1>3, <1>7, <1>11, <1>19 DEF Started
<1> QED
  BY <1>16, <1>22, <1>26, <1>27

\* What Swt_Task does is not about the timers' times.
LEMMA TaskKeeps ==
  ASSUME SwtInv, osSwTmrTask
  PROVE  SwtInv' /\ UNCHANGED <<swtmr, m_pstSwtmrSortList>>
<1>1. /\ UNCHANGED <<swtmr, m_pstSwtmrSortList, m_uwSwTmrAlignID, parked>>
      /\ \/ m_uwSwTmrHandlerQueue # <<>> /\ swt' = "runs" /\ m_uwSwTmrHandlerQueue' = Tail(m_uwSwTmrHandlerQueue)
         \/ swt' = "waits" /\ m_uwSwTmrHandlerQueue' = m_uwSwTmrHandlerQueue
  BY DEF osSwTmrTask, callVars
<1>2. PICK q : q = m_uwSwTmrHandlerQueue
  OBVIOUS
<1>3. PICK k \in 0..LOSCFG_BASE_CORE_SWTMR_LIMIT : q \in [1..k -> Timer]
  BY <1>2 DEF SwtInv, BoundedSeq, SeqOf
<1>4. k \in Nat /\ LOSCFG_BASE_CORE_SWTMR_LIMIT \in Nat
  BY <1>3, TimerConstants
<1>5. q \in Seq(Timer) /\ Len(q) = k
  <2>1. q \in Seq(Timer)
    BY <1>3, <1>4, FunctionIsSeq
  <2> QED
    BY <1>3, <1>4, <2>1, LenProperties
<1>6. ASSUME q # <<>> PROVE Tail(q) \in BoundedSeq(Timer, LOSCFG_BASE_CORE_SWTMR_LIMIT)
  <2>1. Tail(q) \in Seq(Timer) /\ Len(Tail(q)) = k - 1 /\ k # 0
    <3>1. Tail(q) \in Seq(Timer) /\ Len(Tail(q)) = Len(q) - 1
      BY <1>5, <1>6, HeadTailProperties
    <3>2. Len(q) # 0
      BY <1>5, <1>6, EmptySeq
    <3> QED
      BY <1>5, <3>1, <3>2
  <2>2. Tail(q) \in [1..k - 1 -> Timer]
    BY <2>1, LenProperties
  <2>3. k - 1 \in 0..LOSCFG_BASE_CORE_SWTMR_LIMIT
    BY <1>3, <1>4, <2>1
  <2> QED
    BY <2>2, <2>3 DEF BoundedSeq, SeqOf
<1>7. m_uwSwTmrHandlerQueue' \in BoundedSeq(Timer, LOSCFG_BASE_CORE_SWTMR_LIMIT) /\ swt' \in {"waits", "runs"}
  BY <1>1, <1>2, <1>6 DEF SwtInv
<1>8. BlocksOK' /\ (\A t \in Timer : TimerFits(t))'
  <2>1. BlocksOK /\ \A t \in Timer : TimerFits(t)
    BY DEF SwtInv
  <2>2. BlocksOK'
    BY <1>1, <2>1 DEF BlocksOK
  <2>3. ASSUME NEW t \in Timer PROVE TimerFits(t)'
    <3>1. TimerFits(t)
      BY <2>1
    <3> QED
      BY <1>1, <3>1 DEF TimerFits, Full, CanAlign, Interval
  <2> QED
    BY <2>2, <2>3
<1> QED
  BY <1>1, <1>7, <1>8 DEF SwtInv

\* The calls on timers keep the invariant, and are what Deadlines says.
LEMMA TimersMove == SwtInv /\ SwtmrCall => SwtInv' /\ Callbacks!Next
<1> SUFFICES ASSUME SwtInv, SwtmrCall PROVE SwtInv' /\ Callbacks!Next
  OBVIOUS
<1>1. PICK t \in Timer : \/ \E p \in TimerPlan : LOS_SwtmrCreate(t, p)
                         \/ LOS_SwtmrStart(t)
                         \/ LOS_SwtmrStop(t) \/ LOS_SwtmrDelete(t)
  BY DEF SwtmrCall
<1>2. CASE \E p \in TimerPlan : LOS_SwtmrCreate(t, p)
  BY <1>2, Creates DEF Callbacks!Next
<1>3. CASE LOS_SwtmrStart(t)
  BY <1>3, Arms DEF Callbacks!Next
<1>4. CASE LOS_SwtmrStop(t) \/ LOS_SwtmrDelete(t)
  BY <1>4, Disarms DEF Callbacks!Next
<1> QED
  BY <1>1, <1>2, <1>3, <1>4

\* The timers begin unused.
LEMMA TimersStart == osSwTmrInit => SwtInv /\ Callbacks!Init
<1> SUFFICES ASSUME osSwTmrInit PROVE SwtInv /\ Callbacks!Init
  OBVIOUS
<1>1. /\ swtmr \in [Timer -> {[ucState |-> "UNUSED", plan |-> CHOOSE p \in TimerPlan : TRUE]}]
      /\ m_pstSwtmrSortList = <<>> /\ m_uwSwTmrAlignID = [t \in Timer |-> {}]
      /\ m_uwSwTmrHandlerQueue = <<>> /\ swt = "waits" /\ parked = <<>>
  BY DEF osSwTmrInit
<1>2. PICK p \in TimerPlan : p = CHOOSE q \in TimerPlan : TRUE
  BY SoftwareTimersAssumption
<1>3. BlocksOK /\ \A t \in Timer : swtmr[t].ucState = "UNUSED"
  BY <1>1, <1>2 DEF BlocksOK
<1>4. Sound(<<>>, Timer, MostTicks) /\ \A t : ~Listed(<<>>, t) /\ \A m : ~At(<<>>, t, m)
  BY DEF Sound, Listed, At
<1>5. \A t \in Timer : TimerFits(t)
  BY <1>1, <1>3, <1>4 DEF TimerFits
<1>6. m_uwSwTmrHandlerQueue \in BoundedSeq(Timer, LOSCFG_BASE_CORE_SWTMR_LIMIT)
  <2>1. <<>> \in [1..0 -> Timer] /\ 0 \in 0..LOSCFG_BASE_CORE_SWTMR_LIMIT
    BY TimerConstants
  <2> QED
    BY <1>1, <2>1 DEF BoundedSeq, SeqOf
<1>7. SwtInv
  BY <1>1, <1>3, <1>4, <1>5, <1>6 DEF SwtInv
<1>8. \A t \in Timer : Remaining(t) = 0
  BY <1>1, <1>4 DEF Remaining
<1>9. \A t \in Timer : [ticks |-> Interval(t), repeats |-> Periodic(t), loose |-> Loose(swtmr[t].plan)]
        \in {[ticks |-> q.interval, repeats |-> q.mode = "period", loose |-> Loose(q)] : q \in TimerPlan}
  <2> SUFFICES ASSUME NEW t \in Timer
               PROVE  [ticks |-> Interval(t), repeats |-> Periodic(t), loose |-> Loose(swtmr[t].plan)]
                      \in {[ticks |-> q.interval, repeats |-> q.mode = "period", loose |-> Loose(q)] : q \in TimerPlan}
    OBVIOUS
  <2>1. swtmr[t].plan \in TimerPlan
    BY <1>3, PlansFit
  <2> QED
    BY <2>1 DEF Interval, Periodic
<1>10. Callbacks!Init
  BY <1>8, <1>9 DEF Callbacks!Init
<1> QED
  BY <1>7, <1>10

-----------------------------------------------------------------------------
(* The tick of both                                                        *)

\* The invariant of the waits and the timers.
TimersInv == WheelInv /\ SwtInv

\* The differences that the invariant allows are within the fields' ranges.
LEMMA TimersInvTypes == TimersInv => TimersTypeOK
<1> SUFFICES ASSUME TimersInv PROVE TimersTypeOK
  OBVIOUS
<1>1. ASSUME NEW i \in DOMAIN m_pstSwtmrSortList
      PROVE  m_pstSwtmrSortList[i] \in [item : Timer, delta : 0..Wrap - 1]
  <2>1. PICK list : list = m_pstSwtmrSortList
    OBVIOUS
  <2>2. Sound(list, Timer, MostTicks)
    BY <2>1 DEF TimersInv, SwtInv
  <2>3. /\ DOMAIN list = 1..Len(list)
        /\ \A j \in 1..Len(list) : /\ list[j].item \in Timer /\ list[j].delta \in 0..MostTicks
                                   /\ list[j] = [item |-> list[j].item, delta |-> list[j].delta]
    BY <2>2, TimerConstants, SoundSums
  <2>4. PICK u, d : u = list[i].item /\ d = list[i].delta
    OBVIOUS
  <2>5. u \in Timer /\ d \in 0..Wrap - 1 /\ list[i] = [item |-> u, delta |-> d]
    BY <1>1, <2>1, <2>3, <2>4 DEF MostTicks
  <2> QED
    BY <2>1, <2>5
<1>2. SwtmrTypeOK
  BY <1>1 DEF SwtmrTypeOK, TimersInv, SwtInv, BlocksOK
<1>3. ASSUME NEW i \in Wheel, NEW j \in DOMAIN g_stTskSortLink.list[i]
      PROVE  g_stTskSortLink.list[i][j] \in [item : Task, delta : 0..MaxTimeout]
  <2>1. PICK list : list = g_stTskSortLink.list[i]
    OBVIOUS
  <2>2. Sound(list, Task, MostTurns)
    BY <2>1 DEF TimersInv, WheelInv, WheelOK
  <2>3. /\ DOMAIN list = 1..Len(list)
        /\ \A k \in 1..Len(list) : /\ list[k].item \in Task /\ list[k].delta \in 0..MostTurns
                                   /\ list[k] = [item |-> list[k].item, delta |-> list[k].delta]
    BY <2>2, TurnsFit, SoundSums
  <2>4. PICK u, d : u = list[j].item /\ d = list[j].delta
    OBVIOUS
  <2>5. u \in Task /\ d \in 0..MostTurns /\ list[j] = [item |-> u, delta |-> d]
    BY <1>3, <2>1, <2>3, <2>4
  <2>6. d \in 0..MaxTimeout
    BY <2>5, TurnsFit, TaskTimersAssumption
  <2> QED
    BY <2>1, <2>5, <2>6
<1>4. g_stTskSortLink.cursor \in Wheel
  BY DEF TimersInv, WheelInv, WheelOK
<1> QED
  BY <1>2, <1>3, <1>4 DEF TimersTypeOK

\* What is left alone stays as it was.
LEMMA LeftAlone ==
  /\ WheelInv /\ UNCHANGED sortVars =>
       WheelInv' /\ UNCHANGED <<[t \in Task |-> [ticks |-> asked[t], repeats |-> FALSE, loose |-> FALSE]],
                               [t \in Task |-> TicksLeft(t)]>>
  /\ SwtInv /\ UNCHANGED swtmrVars => SwtInv'
  /\ UNCHANGED <<swtmr, m_pstSwtmrSortList>> =>
       UNCHANGED <<[t \in Timer |-> [ticks |-> Interval(t), repeats |-> Periodic(t), loose |-> Loose(swtmr[t].plan)]],
                   [t \in Timer |-> Remaining(t)]>>
<1>1. ASSUME WheelInv, UNCHANGED sortVars
      PROVE  WheelInv' /\ UNCHANGED <<[t \in Task |-> [ticks |-> asked[t], repeats |-> FALSE, loose |-> FALSE]],
                                     [t \in Task |-> TicksLeft(t)]>>
  BY <1>1, TicksLeftIs DEF WheelInv, sortVars
<1>2. ASSUME SwtInv, UNCHANGED swtmrVars PROVE SwtInv'
  <2>1. BlocksOK /\ \A t \in Timer : TimerFits(t)
    BY <1>2 DEF SwtInv
  <2>2. BlocksOK'
    BY <1>2, <2>1 DEF BlocksOK, swtmrVars
  <2>3. ASSUME NEW t \in Timer PROVE TimerFits(t)'
    <3>1. TimerFits(t)
      BY <2>1
    <3> QED
      BY <1>2, <3>1 DEF TimerFits, Full, CanAlign, Interval, swtmrVars
  <2> QED
    BY <1>2, <2>2, <2>3 DEF SwtInv, swtmrVars
<1>3. ASSUME UNCHANGED <<swtmr, m_pstSwtmrSortList>>
      PROVE  UNCHANGED <<[t \in Timer |-> [ticks |-> Interval(t), repeats |-> Periodic(t), loose |-> Loose(swtmr[t].plan)]],
                         [t \in Timer |-> Remaining(t)]>>
  <2>1. \A t : Remaining(t)' = Remaining(t)
    BY <1>3, RemainingOnIs
  <2>2. \A t : Interval(t)' = Interval(t) /\ Periodic(t)' = Periodic(t)
    BY <1>3 DEF Interval, Periodic
  <2> QED
    BY <1>3, <2>1, <2>2
<1> QED
  BY <1>1, <1>2, <1>3

\* Every step keeps the invariant, and is for the waits and for the timers what Deadlines
\* says.
LEMMA EachStep ==
  ASSUME ~Parks
  PROVE  TimersInv /\ [Next]_vars =>
           /\ TimersInv'
           /\ [TaskWaits!Next]_<<[t \in Task |-> [ticks |-> asked[t], repeats |-> FALSE, loose |-> FALSE]],
                                 [t \in Task |-> TicksLeft(t)]>>
           /\ [Callbacks!Next]_<<[t \in Timer |-> [ticks |-> Interval(t), repeats |-> Periodic(t),
                                                   loose |-> Loose(swtmr[t].plan)]],
                                 [t \in Timer |-> Remaining(t)]>>
<1> SUFFICES ASSUME TimersInv, [Next]_vars
             PROVE  /\ TimersInv'
                    /\ [TaskWaits!Next]_<<[t \in Task |-> [ticks |-> asked[t], repeats |-> FALSE, loose |-> FALSE]],
                                          [t \in Task |-> TicksLeft(t)]>>
                    /\ [Callbacks!Next]_<<[t \in Timer |-> [ticks |-> Interval(t), repeats |-> Periodic(t),
                                                            loose |-> Loose(swtmr[t].plan)]],
                                          [t \in Timer |-> Remaining(t)]>>
  OBVIOUS
<1>0. WheelInv /\ SwtInv
  BY DEF TimersInv
<1>1. CASE osTickHandler
  <2>1. osTaskScan /\ osSwtmrScan /\ UNCHANGED asked
    BY <1>1 DEF osTickHandler
  <2>2. WheelInv' /\ TaskWaits!Tick
    BY <1>0, <2>1, WaitsTick
  <2>3. SwtInv' /\ Callbacks!Tick
    BY <1>0, <2>1, TimersTick
  <2> QED
    BY <2>2, <2>3 DEF TimersInv, TaskWaits!Next, Callbacks!Next
<1>2. CASE TaskTimersCall /\ UNCHANGED swtmrVars
  <2>1. WheelInv' /\ TaskWaits!Next
    BY <1>0, <1>2, WaitsMove
  <2>2. SwtInv' /\ UNCHANGED <<swtmr, m_pstSwtmrSortList>>
    BY <1>0, <1>2, LeftAlone DEF swtmrVars
  <2> QED
    BY <2>1, <2>2, LeftAlone DEF TimersInv
<1>3. CASE SwtmrCall /\ UNCHANGED sortVars
  <2>1. SwtInv' /\ Callbacks!Next
    BY <1>0, <1>3, TimersMove
  <2> QED
    BY <1>0, <1>3, <2>1, LeftAlone DEF TimersInv
<1>4. CASE osSwTmrTask /\ UNCHANGED sortVars
  <2>1. SwtInv' /\ UNCHANGED <<swtmr, m_pstSwtmrSortList>>
    BY <1>0, <1>4, TaskKeeps
  <2> QED
    BY <1>0, <1>4, <2>1, LeftAlone DEF TimersInv
<1>5. CASE UNCHANGED vars
  <2>1. SwtInv' /\ UNCHANGED <<swtmr, m_pstSwtmrSortList>> /\ UNCHANGED sortVars
    BY <1>0, <1>5, LeftAlone DEF vars, swtmrVars
  <2> QED
    BY <1>0, <2>1, LeftAlone DEF TimersInv
<1> QED
  BY <1>1, <1>2, <1>3, <1>4, <1>5 DEF Next

\* The waits and the timers begin as Deadlines says.
LEMMA BothStart == Init => TimersInv /\ TaskWaits!Init /\ Callbacks!Init
BY WheelStarts, TimersStart DEF Init, TimersInv

\* The invariant holds throughout.
LEMMA TimersInvHolds ==
  ASSUME ~Parks
  PROVE  Spec => []TimersInv
<1>1. Init => TimersInv
  BY BothStart
<1>2. TimersInv /\ [Next]_vars => TimersInv'
  BY EachStep
<1> QED
  BY <1>1, <1>2, PTL DEF Spec

\* Waits and timers end at the tick they were meant to end at, for every set of tasks, size
\* of the wheel, number of timers and plans, and whatever is linked in and taken out
\* meanwhile, as long as the tick handler runs to its end.
THEOREM DeadlinesHold ==
  ASSUME ~Parks
  PROVE  Spec => DeadlinesAreExact
<1>1. Init => TimersInv /\ TaskWaits!Init /\ Callbacks!Init
  BY BothStart
<1>2. TimersInv /\ [Next]_vars =>
        /\ TimersInv'
        /\ [TaskWaits!Next]_<<[t \in Task |-> [ticks |-> asked[t], repeats |-> FALSE, loose |-> FALSE]],
                              [t \in Task |-> TicksLeft(t)]>>
        /\ [Callbacks!Next]_<<[t \in Timer |-> [ticks |-> Interval(t), repeats |-> Periodic(t),
                                                loose |-> Loose(swtmr[t].plan)]],
                              [t \in Timer |-> Remaining(t)]>>
  BY EachStep
<1>3. TimersInv => TimersTypeOK
  BY TimersInvTypes
<1> QED
  BY <1>1, <1>2, <1>3, PTL
     DEF Spec, DeadlinesAreExact, WaitsAreExact, TimersAreExact, TaskWaits!Spec, Callbacks!Spec

\* While the tick handler runs to its end, what LOS_SwtmrTimeGet reports of a timer that
\* ticks are remaining ticks of its interval.
THEOREM RemainingIsWithin ==
  ASSUME ~Parks
  PROVE  Spec => []RemainingIsWithinInterval
<1>1. SwtInv => RemainingIsWithinInterval
  <2> SUFFICES ASSUME SwtInv, NEW t \in Timer, swtmr[t].ucState = "TICKING"
               PROVE  Remaining(t) <= Interval(t)
    BY DEF RemainingIsWithinInterval
  <2>1. PICK list : list = m_pstSwtmrSortList
    OBVIOUS
  <2>2. /\ BlocksOK /\ Sound(list, Timer, MostTicks) /\ Listed(list, t)
        /\ \A m : At(list, t, m) => m \in 1..Interval(t)
    BY <2>1 DEF SwtInv, TimerFits
  <2>3. PICK m : At(list, t, m)
    BY <2>2, NumberedOnce
  <2>4. Remaining(t) = m
    BY <2>1, <2>2, <2>3, NumberIs, RemainingOnIs
  <2>5. Interval(t) \in Nat
    BY <2>2, PlansFit
  <2> QED
    BY <2>2, <2>3, <2>4, <2>5
<1>2. TimersInv => RemainingIsWithinInterval
  BY <1>1 DEF TimersInv
<1> QED
  BY <1>2, TimersInvHolds, PTL

\* A queue that is full and has no timer twice has every timer.
LEMMA FullQueueHasAll ==
  ASSUME NEW queue \in BoundedSeq(Timer, LOSCFG_BASE_CORE_SWTMR_LIMIT),
         Len(queue) = LOSCFG_BASE_CORE_SWTMR_LIMIT, IsInjective(queue), NEW t \in Timer
  PROVE  Contains(queue, t)
<1> SUFFICES ASSUME ~Contains(queue, t) PROVE FALSE
  OBVIOUS
<1>1. PICK l : l = LOSCFG_BASE_CORE_SWTMR_LIMIT
  OBVIOUS
<1>2. l \in Nat /\ Timer = 0..l - 1
  BY <1>1, TimerConstants
<1>3. PICK k \in 0..l : queue \in [1..k -> Timer]
  BY <1>1 DEF BoundedSeq, SeqOf
<1>4. k = l
  <2>1. k \in Nat
    BY <1>2, <1>3
  <2>2. queue \in Seq(Timer)
    BY <1>3, <2>1, FunctionIsSeq
  <2>3. DOMAIN queue = 1..Len(queue) /\ Len(queue) \in Nat
    BY <2>2, LenProperties
  <2> QED
    BY <1>1, <1>3, <2>1, <2>2, <2>3, LenProperties
<1>5. queue \in [1..l -> Timer \ {t}]
  <2>1. \A i \in 1..l : queue[i] # t
    BY <1>1 DEF Contains
  <2> QED
    BY <1>3, <1>4, <2>1
<1>6. IsFiniteSet(1..l) /\ Cardinality(1..l) = l
  <2>1. 1 \in Int /\ l \in Int
    BY <1>2
  <2>2. IsFiniteSet(1..l) /\ Cardinality(1..l) = IF 1 > l THEN 0 ELSE l - 1 + 1
    BY <2>1, FS_Interval
  <2> QED
    BY <1>2, <2>2
<1>7. IsFiniteSet(Timer \ {t}) /\ Cardinality(Timer \ {t}) = l - 1
  <2>1. IsFiniteSet(Timer) /\ Cardinality(Timer) = l
    <3>1. 0 \in Int /\ l - 1 \in Int
      BY <1>2
    <3>2. IsFiniteSet(0..l - 1) /\ Cardinality(0..l - 1) = IF 0 > l - 1 THEN 0 ELSE l - 1 - 0 + 1
      BY <3>1, FS_Interval
    <3> QED
      BY <1>2, <3>2
  <2> QED
    BY <2>1, FS_RemoveElement
<1>8. l - 1 < l
  BY <1>2
<1>9. \E x, y \in 1..l : x # y /\ queue[x] = queue[y]
  BY <1>5, <1>6, <1>7, <1>8, FS_PigeonHole
<1> QED
  BY <1>3, <1>4, <1>9 DEF IsInjective

\* A step that moves the cursor of the wheel is a tick.
LEMMA CursorMoves ==
  ASSUME WheelInv, [Next]_vars, g_stTskSortLink'.cursor # g_stTskSortLink.cursor
  PROVE  osTickHandler
<1>1. PICK s, r : s = g_stTskSortLink /\ r = g_stTskSortLink'
  OBVIOUS
<1>2. PICK c, l : s = [cursor |-> c, list |-> l] /\ c = s.cursor
  BY <1>1 DEF WheelInv, WheelOK
<1>3. CASE TaskTimersCall
  <2>1. PICK t \in Task : \/ \E n \in 1..MaxTimeout : osTaskAdd2TimerList(t, n)
                          \/ osTimerListDelete(t)
    BY <1>3 DEF TaskTimersCall
  <2>2. \/ \E n \in 1..MaxTimeout : \E i : Begun(r, s, i, t, n)
        \/ \E i \in Wheel : Ended(r, s, i, t)
    BY <1>1, <2>1 DEF osTaskAdd2TimerList, osTimerListDelete, Begun, Ended, Index
  <2>3. r.cursor = c
    BY <1>2, <2>2 DEF Begun, Ended
  <2> QED
    BY <1>1, <1>2, <2>3
<1>4. CASE UNCHANGED sortVars
  BY <1>4 DEF sortVars
<1> QED
  BY <1>3, <1>4 DEF Next, vars

\* A callback is dropped only if one of those that wait in the queue waits there twice, for
\* every number of timers, as long as the tick handler runs to its end.
THEOREM DropsAreRepeats ==
  ASSUME ~Parks
  PROVE  Spec => OnlyRepeatedCallbacksAreDropped
<1>1. TimersInv /\ TimersInv' /\ [Next]_vars =>
        [\A t \in Timer : /\ Remaining(t) = 1
                          /\ g_stTskSortLink.cursor' # g_stTskSortLink.cursor
                          /\ ~Contains(m_uwSwTmrHandlerQueue', t)
                          => ~IsInjective(m_uwSwTmrHandlerQueue')]_vars
  <2> SUFFICES ASSUME TimersInv, [Next]_vars, NEW t \in Timer, Remaining(t) = 1,
                      g_stTskSortLink.cursor' # g_stTskSortLink.cursor,
                      ~Contains(m_uwSwTmrHandlerQueue', t), IsInjective(m_uwSwTmrHandlerQueue')
               PROVE  FALSE
    OBVIOUS
  <2>1. SwtInv /\ WheelInv
    BY DEF TimersInv
  <2>2. osSwtmrScan
    BY <2>1, CursorMoves DEF osTickHandler
  <2>3. Scans
    BY <2>1, <2>2, ScanIs
  <2>4. PICK list : list = m_pstSwtmrSortList
    OBVIOUS
  <2>5. At(list, t, 1)
    <3>1. BlocksOK /\ Sound(list, Timer, MostTicks) /\ \A m : At(list, t, m) => m \in 1..Interval(t)
      BY <2>1, <2>4 DEF SwtInv, TimerFits
    <3>2. Ticked(m_pstSwtmrSortList', list)
      BY <2>3, <2>4 DEF Scans
    <3>3. At(list, t, 1) <=> RemainingOn(list, t) = 1
      BY <3>1, <3>2, TickedIs
    <3> QED
      BY <2>4, <3>3, RemainingOnIs
  <2>6. /\ m_uwSwTmrHandlerQueue' \in BoundedSeq(Timer, LOSCFG_BASE_CORE_SWTMR_LIMIT)
        /\ Len(m_uwSwTmrHandlerQueue') = LOSCFG_BASE_CORE_SWTMR_LIMIT
    BY <2>3, <2>4, <2>5 DEF Scans
  <2> QED
    BY <2>6, FullQueueHasAll
<1> QED
  BY <1>1, TimersInvHolds, PTL DEF Spec, OnlyRepeatedCallbacksAreDropped

-----------------------------------------------------------------------------
(* Timers that are aligned                                                 *)

\* a and b differ by a multiple of i.
Same(a, b, i) == \E k \in Int : a = b + i * k

\* Remainders of a difference.
LEMMA SameIs ==
  ASSUME NEW i \in Nat \ {0}, NEW a \in Int, NEW b \in Int
  PROVE  (a - b) % i = 0 <=> Same(a, b, i)
<1>1. PICK x : x = a - b /\ x \in Int
  OBVIOUS
<1>2. x % i \in 0..i - 1 /\ x \div i \in Int /\ x = i * (x \div i) + (x % i)
  BY <1>1, RemainderIs
<1>3. ASSUME x % i = 0 PROVE Same(a, b, i)
  <2>1. PICK k \in Int : x = i * k
    <3>1. x = i * (x \div i) + 0
      BY <1>2, <1>3
    <3>2. PICK q \in Int : q = x \div i
      BY <1>2
    <3>3. x = i * q + 0
      BY <3>1, <3>2
    <3>4. i * q \in Int
      BY <3>2
    <3> QED
      BY <3>3, <3>4
  <2>2. i * k \in Int
    BY <2>1
  <2>3. a = b + i * k
    BY <1>1, <2>1, <2>2
  <2> QED
    BY <2>3 DEF Same
<1>4. ASSUME Same(a, b, i) PROVE x % i = 0
  <2>1. PICK k \in Int : a = b + i * k
    BY <1>4 DEF Same
  <2>2. i * k \in Int
    BY <2>1
  <2>3. x = i * k + 0
    BY <1>1, <2>1, <2>2
  <2>4. 0 \in 0..i - 1
    OBVIOUS
  <2> QED
    BY <1>1, <2>1, <2>3, <2>4, RemainderIsTheOne
<1> QED
  BY <1>1, <1>3, <1>4

\* What divides.
LEMMA DividesIs ==
  ASSUME NEW i \in Nat \ {0}, NEW j \in Int
  PROVE  Divides(i, j) <=> Same(j, 0, i)
<1>1. PICK z \in Int : z = 0
  OBVIOUS
<1>2. (j - z) % i = 0 <=> Same(j, z, i)
  BY SameIs
<1>3. j - z = j
  BY <1>1
<1> QED
  BY <1>1, <1>2, <1>3 DEF Divides

\* Differing by a multiple of i is an equivalence.
LEMMA SameRules ==
  ASSUME NEW i \in Int, NEW a \in Int, NEW b \in Int
  PROVE  /\ Same(a, a, i)
         /\ Same(a, b, i) => Same(b, a, i)
         /\ \A c \in Int : Same(a, b, i) /\ Same(b, c, i) => Same(a, c, i)
         /\ \A c \in Int : Same(a, b, i) => Same(a + c, b + c, i)
<1>1. Same(a, a, i)
  <2>1. a = a + i * 0
    OBVIOUS
  <2> QED
    BY <2>1 DEF Same
<1>2. ASSUME Same(a, b, i) PROVE Same(b, a, i)
  <2>1. PICK k \in Int : a = b + i * k
    BY <1>2 DEF Same
  <2>2. i * (-k) = -(i * k) /\ i * k \in Int
    BY <2>1
  <2>3. b = a + i * (-k) /\ -k \in Int
    BY <2>1, <2>2
  <2> QED
    BY <2>3 DEF Same
<1>3. ASSUME NEW c \in Int, Same(a, b, i), Same(b, c, i) PROVE Same(a, c, i)
  <2>1. PICK k \in Int : a = b + i * k
    BY <1>3 DEF Same
  <2>2. PICK l \in Int : b = c + i * l
    BY <1>3 DEF Same
  <2>3. i * (k + l) = i * k + i * l /\ i * k \in Int /\ i * l \in Int
    BY <2>1, <2>2
  <2>4. a = c + i * (k + l) /\ k + l \in Int
    BY <2>1, <2>2, <2>3
  <2> QED
    BY <2>4 DEF Same
<1>4. ASSUME NEW c \in Int, Same(a, b, i) PROVE Same(a + c, b + c, i)
  <2>1. PICK k \in Int : a = b + i * k
    BY <1>4 DEF Same
  <2>2. i * k \in Int
    BY <2>1
  <2>3. a + c = (b + c) + i * k
    BY <2>1, <2>2
  <2> QED
    BY <2>1, <2>3 DEF Same
<1> QED
  BY <1>1, <1>2, <1>3, <1>4

\* Numbers that differ by a multiple of j differ by a multiple of what divides j.
LEMMA SameForDivisors ==
  ASSUME NEW i \in Nat \ {0}, NEW j \in Int, Divides(i, j), NEW a \in Int, NEW b \in Int, Same(a, b, j)
  PROVE  Same(a, b, i)
<1>1. PICK k \in Int : j = 0 + i * k
  BY DividesIs DEF Same
<1>2. PICK l \in Int : a = b + j * l
  BY DEF Same
<1>3. j * l = i * (k * l)
  <2>1. j = i * k
    BY <1>1
  <2>2. (i * k) * l = i * (k * l)
    BY <1>1, <1>2
  <2> QED
    BY <2>1, <2>2
<1>4. a = b + i * (k * l) /\ k * l \in Int
  BY <1>1, <1>2, <1>3
<1> QED
  BY <1>4 DEF Same

\* Divisors of divisors.
LEMMA DivisorsOfDivisors ==
  ASSUME NEW i \in Nat \ {0}, NEW j \in Nat \ {0}, NEW k \in Int, Divides(i, j), Divides(j, k)
  PROVE  Divides(i, k)
<1>1. Same(k, 0, j)
  BY DividesIs
<1>2. Same(k, 0, i)
  BY <1>1, SameForDivisors
<1> QED
  BY <1>2, DividesIs

\* A timer that is put in phase with one whose interval j is a multiple of its own expires
\* with it.
LEMMA PhaseIsSame ==
  ASSUME NEW i \in Nat \ {0}, NEW j \in Nat, Divides(i, j), NEW m \in Int
  PROVE  Same(i - ((j - m) % i), m, i)
<1>1. PICK k \in Int : j = 0 + i * k
  BY DividesIs DEF Same
<1>2. PICK x : x = j - m /\ x \in Int
  OBVIOUS
<1>3. PICK q, r : q = x \div i /\ r = x % i
  OBVIOUS
<1>4. q \in Int /\ r \in 0..i - 1 /\ x = i * q + r
  BY <1>2, <1>3, RemainderIs
<1>5. /\ i * q \in Int /\ i * k \in Int
      /\ i * (1 - k + q) = i - i * k + i * q
  BY <1>1, <1>4
<1>6. i - r = m + i * (1 - k + q) /\ 1 - k + q \in Int
  BY <1>1, <1>2, <1>4, <1>5
<1> QED
  BY <1>2, <1>3, <1>6 DEF Same

\* Of two plans whose timers may be aligned by a multiple, one's interval is a multiple of
\* the other's.
Chain == \A p, q \in TimerPlan :
  /\ Loose(p) /\ Divides(LOS_COMMON_DIVISOR, p.interval)
  /\ Loose(q) /\ Divides(LOS_COMMON_DIVISOR, q.interval)
  => Divides(p.interval, q.interval) \/ Divides(q.interval, p.interval)

\* The timer may be aligned by a multiple.
ByMultiple(t) == CanAlign(t) = {"CAN", "MULTI"}

\* By their plans, u expires only when t does.
Related(t, u) ==
  \/ ByMultiple(t) /\ ByMultiple(u) /\ Divides(Interval(t), Interval(u))
  \/ CanAlign(t) # {} /\ CanAlign(u) # {} /\ Interval(t) = Interval(u)

Ticks(t) == swtmr[t].ucState = "TICKING"

\* Two timers that are related and tick, do so in phase.
AllInPhase == \A t, u \in Timer :
  t # u /\ Ticks(t) /\ Ticks(u) /\ Related(t, u) => Same(Remaining(u), Remaining(t), Interval(t))

\* What is left of a timer's time, by the invariant.
LEMMA LeftOfTimer ==
  ASSUME SwtInv, NEW t \in Timer
  PROVE  /\ Remaining(t) \in Nat /\ Interval(t) \in Nat \ {0}
         /\ Ticks(t) => Remaining(t) \in 1..Interval(t) /\ At(m_pstSwtmrSortList, t, Remaining(t))
         /\ \A m : At(m_pstSwtmrSortList, t, m) => m = Remaining(t) /\ Ticks(t)
<1>1. PICK list : list = m_pstSwtmrSortList
  OBVIOUS
<1>2. /\ BlocksOK /\ Sound(list, Timer, MostTicks)
      /\ Listed(list, t) <=> swtmr[t].ucState = "TICKING"
      /\ \A m : At(list, t, m) => m \in 1..Interval(t)
  BY <1>1 DEF SwtInv, TimerFits
<1>3. Interval(t) \in Nat \ {0}
  BY <1>2, PlansFit
<1>4. /\ Listed(list, t) <=> \E m : At(list, t, m)
      /\ \A m : At(list, t, m) => m \in Nat
  BY <1>2, NumberedOnce
<1>5. /\ \A m : At(list, t, m) => Remaining(t) = m
      /\ (\A m : ~At(list, t, m)) => Remaining(t) = 0
  BY <1>1, <1>2, NumberIs, RemainingOnIs
<1>6. Remaining(t) \in Nat
  BY <1>4, <1>5
<1> QED
  BY <1>1, <1>2, <1>3, <1>4, <1>5, <1>6 DEF Ticks

\* The bits of a timer say whether it ticks and may be aligned.
LEMMA AlignedIs ==
  ASSUME SwtInv, NEW t \in Timer, NEW bits, bits[t] = m_uwSwTmrAlignID[t]
  PROVE  /\ Aligned(t, bits) <=> Ticks(t) /\ CanAlign(t) # {}
         /\ Multiple(t, bits) <=> Ticks(t) /\ ByMultiple(t)
<1>1. BlocksOK /\ TimerFits(t)
  BY DEF SwtInv
<1>2. swtmr[t].ucState \in {"UNUSED", "CREATED", "TICKING"} /\ CanAlign(t) \in {{}, {"CAN"}, {"CAN", "MULTI"}}
  BY <1>1, PlansFit
<1>3. /\ swtmr[t].ucState = "TICKING" => bits[t] = Full(t)
      /\ swtmr[t].ucState = "CREATED" => bits[t] \in {{}, CanAlign(t)}
      /\ swtmr[t].ucState = "UNUSED" => bits[t] = {}
  BY <1>1 DEF TimerFits
<1>4. CASE swtmr[t].ucState = "TICKING"
  BY <1>2, <1>3, <1>4 DEF Aligned, Multiple, Ticks, ByMultiple, Full
<1>5. CASE swtmr[t].ucState # "TICKING"
  <2>1. "ALREADY" \notin bits[t]
    BY <1>2, <1>3, <1>5
  <2> QED
    BY <1>5, <2>1 DEF Aligned, Multiple, Ticks
<1> QED
  BY <1>4, <1>5

\* Whether a timer may be aligned by a multiple depends on its interval.
LEMMA RelatedIs ==
  ASSUME SwtInv, NEW t \in Timer, NEW u \in Timer
  PROVE  /\ Related(t, u) => /\ Divides(Interval(t), Interval(u))
                             /\ CanAlign(t) # {} /\ CanAlign(u) # {}
                             /\ ByMultiple(t) <=> ByMultiple(u)
                             /\ ~ByMultiple(t) => Interval(t) = Interval(u)
         /\ CanAlign(t) # {} /\ ~ByMultiple(t) => CanAlign(t) = {"CAN"}
         /\ Chain /\ ByMultiple(t) /\ ByMultiple(u) => Related(t, u) \/ Related(u, t)
<1>1. BlocksOK
  BY DEF SwtInv
<1>2. /\ Interval(t) \in Nat \ {0} /\ CanAlign(t) \in {{}, {"CAN"}, {"CAN", "MULTI"}}
      /\ swtmr[t].plan \in TimerPlan
      /\ Interval(u) \in Nat \ {0} /\ CanAlign(u) \in {{}, {"CAN"}, {"CAN", "MULTI"}}
      /\ swtmr[u].plan \in TimerPlan
  BY <1>1, PlansFit
<1>3. \A v : CanAlign(v) # {} => (ByMultiple(v) <=> Divides(LOS_COMMON_DIVISOR, Interval(v)))
  <2>1. {"CAN", "MULTI"} # {"CAN"} /\ {"CAN", "MULTI"} # {} /\ {"CAN"} # {}
    OBVIOUS
  <2> QED
    BY <2>1 DEF ByMultiple, CanAlign
<1>4. \A v : CanAlign(v) # {} => Loose(swtmr[v].plan)
  BY DEF CanAlign, Loose
<1>5. Divides(Interval(t), Interval(t))
  <2>1. Same(Interval(t), 0, Interval(t))
    <3>1. Interval(t) = 0 + Interval(t) * 1
      BY <1>2
    <3> QED
      BY <3>1 DEF Same
  <2> QED
    BY <1>2, <2>1, DividesIs
<1>6. ByMultiple(t) => CanAlign(t) # {}
  BY DEF ByMultiple
<1>7. ByMultiple(u) => CanAlign(u) # {}
  BY DEF ByMultiple
<1>8. ASSUME Related(t, u)
      PROVE  /\ Divides(Interval(t), Interval(u))
             /\ CanAlign(t) # {} /\ CanAlign(u) # {}
             /\ ByMultiple(t) <=> ByMultiple(u)
             /\ ~ByMultiple(t) => Interval(t) = Interval(u)
  <2>1. CASE ByMultiple(t) /\ ByMultiple(u) /\ Divides(Interval(t), Interval(u))
    BY <1>6, <1>7, <2>1
  <2>2. CASE CanAlign(t) # {} /\ CanAlign(u) # {} /\ Interval(t) = Interval(u)
    BY <1>3, <1>5, <2>2
  <2> QED
    BY <1>8, <2>1, <2>2 DEF Related
<1>9. CanAlign(t) # {} /\ ~ByMultiple(t) => CanAlign(t) = {"CAN"}
  BY <1>2 DEF ByMultiple
<1>10. ASSUME Chain, ByMultiple(t), ByMultiple(u) PROVE Related(t, u) \/ Related(u, t)
  <2>1. /\ Loose(swtmr[t].plan) /\ Divides(LOS_COMMON_DIVISOR, swtmr[t].plan.interval)
        /\ Loose(swtmr[u].plan) /\ Divides(LOS_COMMON_DIVISOR, swtmr[u].plan.interval)
    BY <1>3, <1>4, <1>6, <1>7, <1>10 DEF Interval
  <2>2. \/ Divides(swtmr[t].plan.interval, swtmr[u].plan.interval)
        \/ Divides(swtmr[u].plan.interval, swtmr[t].plan.interval)
    BY <1>2, <1>10, <2>1 DEF Chain
  <2> QED
    BY <1>10, <2>2 DEF Related, Interval
<1> QED
  BY <1>8, <1>9, <1>10

\* In phase, remainders and multiples say the same.
LEMMA TogetherIs == SwtInv => (AllInPhase <=> AlignedTimersExpireTogether)
<1> SUFFICES ASSUME SwtInv PROVE AllInPhase <=> AlignedTimersExpireTogether
  OBVIOUS
<1>1. ASSUME NEW t \in Timer, NEW u \in Timer
      PROVE  (Ticks(t) /\ Ticks(u) /\ Related(t, u)) <=>
             \/ /\ Multiple(t, m_uwSwTmrAlignID) /\ Multiple(u, m_uwSwTmrAlignID)
                /\ Divides(Interval(t), Interval(u))
             \/ /\ Aligned(t, m_uwSwTmrAlignID) /\ Aligned(u, m_uwSwTmrAlignID)
                /\ Interval(t) = Interval(u)
  <2>1. /\ Aligned(t, m_uwSwTmrAlignID) <=> Ticks(t) /\ CanAlign(t) # {}
        /\ Multiple(t, m_uwSwTmrAlignID) <=> Ticks(t) /\ ByMultiple(t)
    BY AlignedIs
  <2>2. /\ Aligned(u, m_uwSwTmrAlignID) <=> Ticks(u) /\ CanAlign(u) # {}
        /\ Multiple(u, m_uwSwTmrAlignID) <=> Ticks(u) /\ ByMultiple(u)
    BY AlignedIs
  <2> QED
    BY <2>1, <2>2 DEF Related
<1>2. ASSUME NEW t \in Timer, NEW u \in Timer
      PROVE  Same(Remaining(u), Remaining(t), Interval(t)) <=> (Remaining(u) - Remaining(t)) % Interval(t) = 0
  <2>1. Remaining(t) \in Int /\ Remaining(u) \in Int /\ Interval(t) \in Nat \ {0}
    BY LeftOfTimer
  <2> QED
    BY <2>1, SameIs
<1> QED
  BY <1>1, <1>2 DEF AllInPhase, AlignedTimersExpireTogether

\* A timer that is started is in phase with all that are related to it and tick.
LEMMA StartsInPhase ==
  ASSUME SwtInv, Chain, AllInPhase, NEW t \in Timer, NEW n, Started(t, n),
         NEW v \in Timer \ {t}, Ticks(v)
  PROVE  /\ Related(t, v) => Same(Remaining(v), n, Interval(t))
         /\ Related(v, t) => Same(n, Remaining(v), Interval(v))
<1>1. PICK list, bits :
        /\ StartsAt(t, list, bits, n)
        /\ Sound(list, Timer, MostTicks)
        /\ \A y, m : At(list, y, m) <=> At(m_pstSwtmrSortList, y, m) /\ y # t
        /\ bits[t] = CanAlign(t) /\ \A u \in Timer \ {t} : bits[u] = m_uwSwTmrAlignID[u]
  BY DEF Started
<1>2. \A u \in Timer \ {t} :
        /\ Aligned(u, bits) <=> Ticks(u) /\ CanAlign(u) # {}
        /\ Multiple(u, bits) <=> Ticks(u) /\ ByMultiple(u)
        /\ \A m : At(list, u, m) => m = Remaining(u) /\ Ticks(u)
        /\ Ticks(u) => At(list, u, Remaining(u))
  <2> SUFFICES ASSUME NEW u \in Timer \ {t}
               PROVE  /\ Aligned(u, bits) <=> Ticks(u) /\ CanAlign(u) # {}
                      /\ Multiple(u, bits) <=> Ticks(u) /\ ByMultiple(u)
                      /\ \A m : At(list, u, m) => m = Remaining(u) /\ Ticks(u)
                      /\ Ticks(u) => At(list, u, Remaining(u))
    OBVIOUS
  <2>1. /\ Aligned(u, bits) <=> Ticks(u) /\ CanAlign(u) # {}
        /\ Multiple(u, bits) <=> Ticks(u) /\ ByMultiple(u)
    BY <1>1, AlignedIs
  <2>2. /\ \A m : At(m_pstSwtmrSortList, u, m) => m = Remaining(u) /\ Ticks(u)
        /\ Ticks(u) => At(m_pstSwtmrSortList, u, Remaining(u))
    BY LeftOfTimer
  <2> QED
    BY <1>1, <2>1, <2>2
<1>3. \A u \in Timer : Remaining(u) \in Int /\ Interval(u) \in Nat \ {0} /\ Interval(u) \in Int
  BY LeftOfTimer
<1>4. n \in Int
  BY <1>3 DEF Started
<1>5. ASSUME NEW u \in Timer, NEW w \in Timer, u # w, Ticks(u), Ticks(w), Related(u, w)
      PROVE  Same(Remaining(w), Remaining(u), Interval(u)) /\ Same(Remaining(u), Remaining(w), Interval(u))
  <2>1. Same(Remaining(w), Remaining(u), Interval(u))
    BY <1>5 DEF AllInPhase
  <2> QED
    BY <1>3, <2>1, SameRules
<1>6. Same(n, n, Interval(t)) /\ Same(n, n, Interval(v))
  BY <1>3, <1>4, SameRules
<1>7. /\ Related(t, v) => /\ Divides(Interval(t), Interval(v)) /\ CanAlign(t) # {} /\ CanAlign(v) # {}
                          /\ ByMultiple(t) <=> ByMultiple(v)
                          /\ ~ByMultiple(t) => Interval(t) = Interval(v)
      /\ CanAlign(t) # {} /\ ~ByMultiple(t) => CanAlign(t) = {"CAN"}
      /\ ByMultiple(t) => CanAlign(t) = {"CAN", "MULTI"}
  BY RelatedIs DEF ByMultiple
<1>8. Related(v, t) => /\ Divides(Interval(v), Interval(t)) /\ CanAlign(t) # {} /\ CanAlign(v) # {}
                       /\ ByMultiple(t) <=> ByMultiple(v)
                       /\ ~ByMultiple(t) => Interval(t) = Interval(v)
  BY RelatedIs
<1>9. CASE /\ bits[t] = {"CAN", "MULTI"}
           /\ \E u \in Larger(t, bits) : \E m :
                At(list, u, m) /\ n = Interval(t) - ((Interval(u) - m) % Interval(t))
  <2>1. PICK u \in Larger(t, bits) : \E m :
          At(list, u, m) /\ n = Interval(t) - ((Interval(u) - m) % Interval(t))
    BY <1>9
  <2>2. u \in Timer \ {t} /\ Multiple(u, bits) /\ Divides(Interval(t), Interval(u))
    BY <2>1 DEF Larger
  <2>3. Ticks(u) /\ ByMultiple(u) /\ n = Interval(t) - ((Interval(u) - Remaining(u)) % Interval(t))
    BY <1>2, <2>1, <2>2
  <2>4. Same(n, Remaining(u), Interval(t))
    BY <1>3, <2>2, <2>3, PhaseIsSame
  <2>5. ByMultiple(t)
    BY <1>1, <1>9 DEF ByMultiple
  <2>6. ASSUME Related(t, v) PROVE Same(Remaining(v), n, Interval(t))
    <3>1. Same(Remaining(u), n, Interval(t))
      BY <1>3, <1>4, <2>2, <2>4, SameRules
    <3>2. CASE v = u
      BY <3>1, <3>2
    <3>3. CASE v # u
      <4>1. Divides(Interval(t), Interval(v)) /\ ByMultiple(v)
        BY <1>7, <2>5, <2>6
      <4>2. Related(u, v) \/ Related(v, u)
        BY <2>2, <2>3, <4>1, RelatedIs
      <4>3. Same(Remaining(v), Remaining(u), Interval(t))
        <5>1. CASE Related(u, v)
          <6>1. Same(Remaining(v), Remaining(u), Interval(u))
            BY <1>5, <2>2, <2>3, <3>3, <5>1
          <6> QED
            BY <1>3, <2>2, <6>1, SameForDivisors
        <5>2. CASE Related(v, u)
          <6>1. Same(Remaining(v), Remaining(u), Interval(v))
            BY <1>5, <2>2, <2>3, <3>3, <5>2
          <6> QED
            BY <1>3, <2>2, <4>1, <6>1, SameForDivisors
        <5> QED
          BY <4>2, <5>1, <5>2
      <4> QED
        BY <1>3, <1>4, <2>2, <3>1, <4>3, SameRules
    <3> QED
      BY <3>2, <3>3
  <2>7. ASSUME Related(v, t) PROVE Same(n, Remaining(v), Interval(v))
    <3>1. Divides(Interval(v), Interval(t)) /\ ByMultiple(v)
      BY <1>8, <2>5, <2>7
    <3>2. Same(n, Remaining(u), Interval(v))
      BY <1>3, <1>4, <2>2, <2>4, <3>1, SameForDivisors
    <3>3. CASE v = u
      BY <3>2, <3>3
    <3>4. CASE v # u
      <4>1. Divides(Interval(v), Interval(u))
        BY <1>3, <2>2, <3>1, DivisorsOfDivisors
      <4>2. Related(v, u)
        BY <2>3, <3>1, <4>1 DEF Related
      <4>3. Same(Remaining(u), Remaining(v), Interval(v))
        BY <1>5, <2>2, <2>3, <3>4, <4>2
      <4> QED
        BY <1>3, <1>4, <2>2, <3>2, <4>3, SameRules
    <3> QED
      BY <3>3, <3>4
  <2> QED
    BY <2>6, <2>7
<1>10. CASE /\ bits[t] = {"CAN", "MULTI"} /\ Larger(t, bits) = {}
            /\ \E u \in Little(t, bits) : At(list, u, n) /\ \A w \in Little(t, bits) : Interval(w) <= Interval(u)
  <2>1. PICK u \in Little(t, bits) : At(list, u, n) /\ \A w \in Little(t, bits) : Interval(w) <= Interval(u)
    BY <1>10
  <2>2. u \in Timer \ {t} /\ Multiple(u, bits) /\ Divides(Interval(u), Interval(t))
    BY <2>1 DEF Little
  <2>3. Ticks(u) /\ ByMultiple(u) /\ n = Remaining(u)
    BY <1>2, <2>1, <2>2
  <2>4. ByMultiple(t)
    BY <1>1, <1>10 DEF ByMultiple
  <2>5. ~Related(t, v)
    <3> SUFFICES ASSUME Related(t, v) PROVE FALSE
      OBVIOUS
    <3>1. v \in Larger(t, bits)
      BY <1>2, <1>7, <2>4 DEF Larger
    <3> QED
      BY <1>10, <3>1
  <2>6. ASSUME Related(v, t) PROVE Same(n, Remaining(v), Interval(v))
    <3>1. CASE v = u
      BY <1>6, <2>3, <3>1
    <3>2. CASE v # u
      <4>1. ByMultiple(v) /\ v \in Little(t, bits)
        BY <1>2, <1>8, <2>4, <2>6 DEF Little
      <4>2. Interval(v) <= Interval(u)
        BY <2>1, <4>1
      <4>3. Divides(Interval(v), Interval(u)) \/ Divides(Interval(u), Interval(v))
        <5>1. Related(v, u) \/ Related(u, v)
          BY <2>2, <2>3, <4>1, RelatedIs
        <5> QED
          BY <2>2, <5>1, RelatedIs
      <4>4. Related(v, u)
        <5>1. CASE Divides(Interval(v), Interval(u))
          BY <2>3, <4>1, <5>1 DEF Related
        <5>2. CASE Divides(Interval(u), Interval(v))
          <6>1. Interval(u) <= Interval(v)
            BY <1>3, <2>2, <5>2, DivisorsAreLess
          <6>2. Interval(u) = Interval(v)
            BY <1>3, <2>2, <4>2, <6>1
          <6>3. CanAlign(v) # {} /\ CanAlign(u) # {}
            BY <2>3, <4>1 DEF ByMultiple
          <6> QED
            BY <6>2, <6>3 DEF Related
        <5> QED
          BY <4>3, <5>1, <5>2
      <4> QED
        BY <1>5, <2>2, <2>3, <3>2, <4>4
    <3> QED
      BY <3>1, <3>2
  <2> QED
    BY <2>5, <2>6
<1>11. CASE /\ bits[t] = {"CAN"}
            /\ \E u \in Timer : Aligned(u, bits) /\ Interval(u) = Interval(t) /\ At(list, u, n)
  <2>1. PICK u \in Timer : Aligned(u, bits) /\ Interval(u) = Interval(t) /\ At(list, u, n)
    BY <1>11
  <2>2. u \in Timer \ {t}
    BY <1>1, <2>1
  <2>3. Ticks(u) /\ CanAlign(u) # {} /\ n = Remaining(u)
    BY <1>2, <2>1, <2>2
  <2>4. ~ByMultiple(t)
    BY <1>1, <1>11 DEF ByMultiple
  <2>5. ASSUME Related(t, v) \/ Related(v, t) PROVE Related(u, v) /\ Related(v, u) /\ Interval(v) = Interval(t)
    <3>1. Interval(t) = Interval(v) /\ CanAlign(v) # {}
      BY <1>7, <1>8, <2>4, <2>5
    <3> QED
      BY <2>1, <2>3, <3>1 DEF Related
  <2>6. CASE v = u
    BY <1>6, <2>3, <2>6
  <2>7. CASE v # u
    BY <1>5, <2>1, <2>2, <2>3, <2>5, <2>7
  <2> QED
    BY <2>6, <2>7
<1>12. CASE /\ bits[t] = {"CAN", "MULTI"} => Larger(t, bits) = {} /\ Little(t, bits) = {}
            /\ bits[t] = {"CAN"} =>
                 \A u \in Timer : \A m : At(list, u, m) => ~(Aligned(u, bits) /\ Interval(u) = Interval(t))
  <2> SUFFICES ASSUME Related(t, v) \/ Related(v, t) PROVE FALSE
    OBVIOUS
  <2>1. /\ CanAlign(t) # {} /\ CanAlign(v) # {} /\ (ByMultiple(t) <=> ByMultiple(v))
        /\ ~ByMultiple(t) => Interval(t) = Interval(v)
        /\ Divides(Interval(t), Interval(v)) \/ Divides(Interval(v), Interval(t))
    BY <1>7, <1>8
  <2>2. CASE ByMultiple(t)
    <3>1. v \in Larger(t, bits) \/ v \in Little(t, bits)
      BY <1>2, <2>1, <2>2 DEF Larger, Little
    <3> QED
      BY <1>1, <1>7, <1>12, <2>2, <3>1
  <2>3. CASE ~ByMultiple(t)
    <3>1. Aligned(v, bits) /\ Interval(v) = Interval(t) /\ At(list, v, Remaining(v))
      BY <1>2, <2>1, <2>3
    <3> QED
      BY <1>1, <1>7, <1>12, <2>1, <2>3, <3>1
  <2> QED
    BY <2>2, <2>3
<1> QED
  BY <1>1, <1>9, <1>10, <1>11, <1>12 DEF StartsAt

\* What depends on the plans of two timers alone stays with them.
LEMMA SameRelated ==
  ASSUME NEW t, swtmr'[t].plan = swtmr[t].plan, NEW u, swtmr'[u].plan = swtmr[u].plan
  PROVE  (Related(t, u)' <=> Related(t, u)) /\ Interval(t)' = Interval(t) /\ Interval(u)' = Interval(u)
<1>1. /\ Interval(t)' = Interval(t) /\ CanAlign(t)' = CanAlign(t)
      /\ Interval(u)' = Interval(u) /\ CanAlign(u)' = CanAlign(u)
  BY SamePlan
<1> QED
  BY <1>1 DEF Related, ByMultiple, Divides

\* A step after which a timer does not tick leaves the others in phase.
LEMMA LeavesInPhase ==
  ASSUME AllInPhase, NEW t \in Timer, Steady(t), swtmr'[t].ucState # "TICKING"
  PROVE  AllInPhase'
<1> SUFFICES ASSUME NEW u \in Timer, NEW v \in Timer, u # v, Ticks(u)', Ticks(v)', Related(u, v)'
             PROVE  Same(Remaining(v)', Remaining(u)', Interval(u)')
  BY DEF AllInPhase, Same
<1>1. u # t /\ v # t
  BY DEF Ticks
<1>2. /\ swtmr'[u] = swtmr[u] /\ Remaining(u)' = Remaining(u)
      /\ swtmr'[v] = swtmr[v] /\ Remaining(v)' = Remaining(v)
  BY <1>1 DEF Steady
<1>3. Ticks(u) /\ Ticks(v) /\ Related(u, v) /\ Interval(u)' = Interval(u)
  BY <1>2, SameRelated DEF Ticks
<1>4. Same(Remaining(v), Remaining(u), Interval(u))
  BY <1>3 DEF AllInPhase
<1> QED
  BY <1>2, <1>3, <1>4

\* A timer that is started joins in phase.
LEMMA JoinsInPhase ==
  ASSUME SwtInv, Chain, AllInPhase, NEW t \in Timer, Steady(t), swtmr'[t].plan = swtmr[t].plan,
         NEW n, Started(t, n)
  PROVE  AllInPhase'
<1> SUFFICES ASSUME NEW u \in Timer, NEW v \in Timer, u # v, Ticks(u)', Ticks(v)', Related(u, v)'
             PROVE  Same(Remaining(v)', Remaining(u)', Interval(u)')
  BY DEF AllInPhase, Same
<1>1. \A w \in Timer \ {t} : /\ swtmr'[w] = swtmr[w] /\ Remaining(w)' = Remaining(w)
                             /\ Ticks(w)' <=> Ticks(w)
  BY DEF Steady, Ticks
<1>2. Remaining(t)' = n
  BY DEF Started
<1>3. Related(u, v) /\ Interval(u)' = Interval(u)
  <2>1. swtmr'[u].plan = swtmr[u].plan /\ swtmr'[v].plan = swtmr[v].plan
    BY <1>1
  <2> QED
    BY <2>1, SameRelated
<1>4. CASE u = t
  <2>1. v \in Timer \ {t} /\ Ticks(v)
    BY <1>1, <1>4
  <2>2. Same(Remaining(v), n, Interval(t))
    BY <1>3, <1>4, <2>1, StartsInPhase
  <2> QED
    BY <1>1, <1>2, <1>3, <1>4, <2>1, <2>2
<1>5. CASE v = t
  <2>1. u \in Timer \ {t} /\ Ticks(u)
    BY <1>1, <1>5
  <2>2. Same(n, Remaining(u), Interval(u))
    BY <1>3, <1>5, <2>1, StartsInPhase
  <2> QED
    BY <1>1, <1>2, <1>3, <1>5, <2>1, <2>2
<1>6. CASE u # t /\ v # t
  <2>1. Ticks(u) /\ Ticks(v) /\ Remaining(u)' = Remaining(u) /\ Remaining(v)' = Remaining(v)
    BY <1>1, <1>6
  <2>2. Same(Remaining(v), Remaining(u), Interval(u))
    BY <1>3, <2>1 DEF AllInPhase
  <2> QED
    BY <1>3, <2>1, <2>2
<1> QED
  BY <1>4, <1>5, <1>6

\* A tick brings a timer that may be aligned one tick on, by any interval that divides its own.
LEMMA TickedBy ==
  ASSUME SwtInv, Scans, NEW t \in Timer, Ticks(t)', CanAlign(t) # {},
         NEW i \in Nat \ {0}, Divides(i, Interval(t))
  PROVE  /\ Ticks(t) /\ swtmr'[t].plan = swtmr[t].plan
         /\ Remaining(t)' \in Int /\ Same(Remaining(t)', Remaining(t) + (-1), i)
<1>0. PICK list, new : list = m_pstSwtmrSortList /\ new = m_pstSwtmrSortList'
  OBVIOUS
<1>1. /\ BlocksOK /\ Sound(list, Timer, MostTicks) /\ Ticked(new, list)
      /\ Listed(list, t) <=> Ticks(t)
      /\ \A m : At(list, t, m) => m \in 1..Interval(t)
  BY <1>0 DEF SwtInv, TimerFits, Scans, Ticks
<1>2. /\ TimerFits(t)' /\ Remaining(t)' = Callbacks!AfterTick(t) /\ swtmr'[t].plan = swtmr[t].plan
  BY TickOf
<1>3. Listed(new, t)
  BY <1>0, <1>2 DEF TimerFits, Ticks
<1>4. Listed(new, t) => Listed(list, t)
  BY <1>1, TickedIs
<1>5. Ticks(t)
  BY <1>1, <1>3, <1>4
<1>6. Remaining(t) \in 1..Interval(t) /\ Interval(t) \in Nat \ {0}
  BY <1>5, LeftOfTimer
<1>7. Periodic(t)
  BY DEF CanAlign, Periodic
<1>8. Remaining(t)' = CASE Remaining(t) > 1 -> Remaining(t) - 1
                        [] Remaining(t) = 1 -> Interval(t)
                        [] OTHER -> 0
  BY <1>2, <1>7 DEF Callbacks!AfterTick
<1>9. CASE Remaining(t) > 1
  <2>1. PICK r : r = Remaining(t) + (-1) /\ r \in Int
    BY <1>6
  <2>2. Remaining(t)' = r
    BY <1>6, <1>8, <1>9, <2>1
  <2>3. Same(r, r, i)
    BY <2>1, SameRules
  <2> QED
    BY <1>2, <1>5, <2>1, <2>2, <2>3
<1>10. CASE ~(Remaining(t) > 1)
  <2>1. Remaining(t) = 1
    BY <1>6, <1>10
  <2>2. Remaining(t)' = Interval(t) /\ Remaining(t) + (-1) = 0
    BY <1>8, <2>1
  <2>3. Same(Interval(t), 0, i)
    BY <1>6, DividesIs
  <2> QED
    BY <1>2, <1>5, <1>6, <2>2, <2>3
<1> QED
  BY <1>9, <1>10

\* A tick leaves all timers in phase.
LEMMA TicksInPhase ==
  ASSUME SwtInv, AllInPhase, Scans
  PROVE  AllInPhase'
<1> SUFFICES ASSUME NEW u \in Timer, NEW v \in Timer, u # v, Ticks(u)', Ticks(v)', Related(u, v)'
             PROVE  Same(Remaining(v)', Remaining(u)', Interval(u)')
  BY DEF AllInPhase, Same
<1>1. swtmr'[u].plan = swtmr[u].plan /\ swtmr'[v].plan = swtmr[v].plan
  BY TickOf
<1>2. Related(u, v) /\ Interval(u)' = Interval(u)
  BY <1>1, SameRelated
<1>3. PICK i : i = Interval(u)
  OBVIOUS
<1>4. /\ i \in Nat \ {0} /\ i \in Int /\ Remaining(u) \in Int /\ Remaining(v) \in Int
      /\ Remaining(u) + (-1) \in Int /\ Remaining(v) + (-1) \in Int
  BY <1>3, LeftOfTimer
<1>5. Divides(i, Interval(v)) /\ CanAlign(u) # {} /\ CanAlign(v) # {}
  BY <1>2, <1>3, RelatedIs
<1>6. Divides(i, Interval(u))
  <2>1. Same(i, 0, i)
    <3>1. i = 0 + i * 1
      BY <1>4
    <3> QED
      BY <3>1 DEF Same
  <2> QED
    BY <1>3, <1>4, <2>1, DividesIs
<1>7. Ticks(u) /\ Remaining(u)' \in Int /\ Same(Remaining(u)', Remaining(u) + (-1), i)
  BY <1>4, <1>5, <1>6, TickedBy
<1>8. Ticks(v) /\ Remaining(v)' \in Int /\ Same(Remaining(v)', Remaining(v) + (-1), i)
  BY <1>4, <1>5, TickedBy
<1>9. Same(Remaining(v), Remaining(u), i)
  BY <1>2, <1>3, <1>7, <1>8 DEF AllInPhase
<1>10. Same(Remaining(v) + (-1), Remaining(u) + (-1), i)
  <2>1. -1 \in Int
    OBVIOUS
  <2> QED
    BY <1>4, <1>9, <2>1, SameRules
<1>11. Same(Remaining(u) + (-1), Remaining(u)', i)
  BY <1>4, <1>7, SameRules
<1>12. Same(Remaining(v)', Remaining(u) + (-1), i)
  BY <1>4, <1>8, <1>10, SameRules
<1>13. Same(Remaining(v)', Remaining(u)', i)
  BY <1>4, <1>7, <1>8, <1>11, <1>12, SameRules
<1> QED
  BY <1>2, <1>3, <1>13

\* Every step leaves all timers in phase.
LEMMA StaysInPhase ==
  ASSUME ~Parks, Chain
  PROVE  TimersInv /\ AllInPhase /\ [Next]_vars => AllInPhase'
<1> SUFFICES ASSUME TimersInv, AllInPhase, [Next]_vars PROVE AllInPhase'
  OBVIOUS
<1>1. SwtInv
  BY DEF TimersInv
<1>2. CASE osSwtmrScan
  BY <1>1, <1>2, ScanIs, TicksInPhase
<1>3. CASE SwtmrCall
  <2>1. PICK t \in Timer : \/ \E p \in TimerPlan : LOS_SwtmrCreate(t, p)
                           \/ LOS_SwtmrStart(t)
                           \/ LOS_SwtmrStop(t) \/ LOS_SwtmrDelete(t)
    BY <1>3 DEF SwtmrCall
  <2>2. CASE \E p \in TimerPlan : LOS_SwtmrCreate(t, p)
    <3>1. Steady(t) /\ swtmr'[t].ucState # "TICKING"
      BY <1>1, <2>2, Creates
    <3> QED
      BY <3>1, LeavesInPhase
  <2>3. CASE LOS_SwtmrStart(t)
    <3>1. Steady(t) /\ swtmr'[t].plan = swtmr[t].plan /\ \E n : Started(t, n)
      BY <1>1, <2>3, Arms
    <3> QED
      BY <1>1, <3>1, JoinsInPhase
  <2>4. CASE LOS_SwtmrStop(t) \/ LOS_SwtmrDelete(t)
    <3>1. Steady(t) /\ swtmr'[t].ucState # "TICKING"
      BY <1>1, <2>4, Disarms
    <3> QED
      BY <3>1, LeavesInPhase
  <2> QED
    BY <2>1, <2>2, <2>3, <2>4
<1>4. CASE UNCHANGED <<swtmr, m_pstSwtmrSortList>>
  <2>1. \A t : /\ Remaining(t)' = Remaining(t) /\ (Ticks(t)' <=> Ticks(t))
               /\ Interval(t)' = Interval(t) /\ CanAlign(t)' = CanAlign(t)
    BY <1>4, RemainingOnIs DEF Ticks, Interval, CanAlign
  <2> QED
    BY <2>1 DEF AllInPhase, Related, ByMultiple, Divides, Same
<1>5. CASE osSwTmrTask
  <2>1. UNCHANGED <<swtmr, m_pstSwtmrSortList>>
    BY <1>1, <1>5, TaskKeeps
  <2> QED
    BY <1>4, <2>1
<1> QED
  BY <1>2, <1>3, <1>4, <1>5 DEF Next, osTickHandler, vars, swtmrVars

\* Timers that are aligned and whose intervals divide one another expire together, for every
\* number of timers, if of two intervals that are multiples of LOS_COMMON_DIVISOR one is
\* always a multiple of the other.
THEOREM AlignedExpireTogether ==
  ASSUME ~Parks, Chain
  PROVE  Spec => []AlignedTimersExpireTogether
<1>1. Init => AllInPhase
  <2> SUFFICES ASSUME Init, NEW t \in Timer PROVE ~Ticks(t)
    BY DEF AllInPhase
  <2>1. swtmr[t].ucState = "UNUSED"
    BY DEF Init, osSwTmrInit
  <2> QED
    BY <2>1 DEF Ticks
<1>2. TimersInv /\ AllInPhase /\ [Next]_vars => AllInPhase'
  BY StaysInPhase
<1>3. TimersInv /\ AllInPhase => AlignedTimersExpireTogether
  BY TogetherIs DEF TimersInv
<1> QED
  BY <1>1, <1>2, <1>3, TimersInvHolds, PTL DEF Spec
=============================================================================
