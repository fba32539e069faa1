--------------------------- MODULE ReorderProofs ----------------------------
(***************************************************************************)
(* Proofs about ServerReorder and ClientReorder, for every window, hold    *)
(* and bound on the sequence numbers.  The inductive invariants keep the   *)
(* held frames in the window after the expected one and the delivered ones *)
(* before it.                                                              *)
(***************************************************************************)
EXTENDS ServerReorder, ClientReorder, FunctionTheorems, Counting


Occupied(sl) == {i \in Index : sl[i] # 0}

\* Each frame of sl is at its index, from n up to one window ahead of it.
FromTo(sl, n) ==
    \A i \in Index : sl[i] # 0 =>
      sl[i] % Window = i /\ n <= sl[i] /\ sl[i] < n + Window

\* A remainder is an index.
LEMMA RemainderIndex == \A m \in Nat : m % Window \in Index
  BY ServerReorderAssumption DEF Index

\* drain stops within a window, having released only frames that were held.
LEMMA DrainEndFacts ==
    ASSUME NEW sl, NEW n \in Nat
    PROVE  LET e == DrainEnd(sl, n) IN
           /\ e \in n..(n + Window)
           /\ \A k \in n..(e - 1) : sl[k % Window] = k
           /\ e = n + Window \/ sl[e % Window] # e
  <1> DEFINE S == Stops(sl, n)
             e == DrainEnd(sl, n)
  <1>1. S \in SUBSET Nat /\ n + Window \in S
    BY ServerReorderAssumption DEF Stops
  <1>2. \E m \in S : \A k \in S : m <= k
    <2> HIDE DEF S
    <2> QED  BY Zenon, <1>1, LeastElement
  <1>3. e \in S /\ \A k \in S : e <= k
    BY Zenon, <1>2 DEF DrainEnd
  <1>4. e \in n..(n + Window) /\ (e = n + Window \/ sl[e % Window] # e)
    BY Zenon, <1>3 DEF Stops
  <1>5. ASSUME NEW k \in n..(e - 1) PROVE sl[k % Window] = k
    <2>1. k \in n..(n + Window) /\ k < e /\ k \in Nat
      BY <1>4, <1>5, ServerReorderAssumption
    <2>2. e \in Int /\ ~(e <= k)
      BY <1>4, <2>1
    <2>3. k \notin S
      BY Zenon, <1>3, <2>2
    <2> QED  BY Zenon, <2>1, <2>3 DEF Stops
  <1> HIDE DEF S, e
  <1> QED  BY Zenon, <1>4, <1>5 DEF e

\* The lowest held frame exists when one is held.
LEMMA LowestFacts ==
    ASSUME TypeOK, Held # {}
    PROVE  Lowest \in Held /\ \A m \in Held : Lowest <= m
  <1>1. Held \in SUBSET Nat
    BY ServerReorderAssumption DEF TypeOK, Held
  <1>2. \E n \in Held : \A m \in Held : n <= m
    <2> HIDE DEF Held
    <2> QED  BY Zenon, <1>1, LeastElement
  <1> QED  BY Zenon, <1>2 DEF Lowest

\* What drain does to slots in which every frame is at its index.
LEMMA DrainEffect ==
    ASSUME NEW sl \in [Index -> 0..MaxSeq], NEW b, NEW n \in Nat \ {0},
           FromTo(sl, n), Drain(sl, b, n)
    PROVE  /\ next' \in n..(n + Window)
           /\ slots' \in [Index -> 0..MaxSeq]
           /\ \A i \in Index :
                IF sl[i] < next' THEN slots'[i] = 0
                ELSE slots'[i] = sl[i] /\ next' < sl[i]
           /\ \A k \in n..(next' - 1) : k % Window \in Index /\ sl[k % Window] = k
           /\ delivered' = delivered \cup (n..(next' - 1))
           /\ buffered' = b - (next' - n)
  <1> USE ServerReorderAssumption
  <1> DEFINE e == DrainEnd(sl, n)
  <1>1. /\ e \in n..(n + Window)
        /\ \A k \in n..(e - 1) : sl[k % Window] = k
        /\ e = n + Window \/ sl[e % Window] # e
    BY Zenon, DrainEndFacts
  <1>2. /\ next' = e /\ delivered' = delivered \cup (n..(e - 1))
        /\ slots' = [i \in Index |-> IF sl[i] \in n..(e - 1) THEN 0 ELSE sl[i]]
        /\ buffered' = b - (e - n)
    BY Zenon DEF Drain
  <1> HIDE DEF e
  <1>3. ASSUME NEW i \in Index
        PROVE  IF sl[i] < e THEN slots'[i] = 0 ELSE slots'[i] = sl[i] /\ e < sl[i]
    <2>1. sl[i] \in Nat /\ e \in Nat /\ e > 0
      BY <1>1
    <2>2. CASE sl[i] = 0
      BY Zenon, <2>1, <2>2, <1>2
    <2>3. CASE sl[i] # 0
      <3>1. n <= sl[i] /\ sl[i] < n + Window /\ sl[i] % Window = i
        BY Zenon, <2>3 DEF FromTo
      <3>2. sl[i] # e
        BY <3>1, <1>1
      <3> QED  BY <3>1, <3>2, <2>1, <1>1, <1>2
    <2> QED  BY Zenon, <2>2, <2>3
  <1>4. slots' \in [Index -> 0..MaxSeq]
    BY <1>2
  <1>5. ASSUME NEW k \in n..(e - 1)
        PROVE  k % Window \in Index /\ sl[k % Window] = k
    <2>1. k \in Nat
      BY <1>1
    <2> QED  BY Zenon, <1>1, <2>1, RemainderIndex
  <1> QED  BY Zenon, <1>1, <1>2, <1>3, <1>4, <1>5

\* drain reduces the count by the number of frames it releases.
LEMMA DrainCount ==
    ASSUME NEW sl \in [Index -> 0..MaxSeq], NEW b, NEW n \in Nat \ {0},
           FromTo(sl, n), b = Cardinality(Occupied(sl)), Drain(sl, b, n)
    PROVE  buffered' = Cardinality(Occupied(slots')) /\ buffered' \in Nat
  <1> DEFINE out == n..(next' - 1)
             A == Occupied(sl)
             B == Occupied(slots')
             C == {i \in Index : sl[i] \in out}
             f == [k \in out |-> k % Window]
  <1>1. /\ next' \in n..(n + Window)
        /\ \A i \in Index : IF sl[i] < next' THEN slots'[i] = 0
                             ELSE slots'[i] = sl[i] /\ next' < sl[i]
        /\ \A k \in out : k % Window \in Index /\ sl[k % Window] = k
        /\ buffered' = b - (next' - n)
    BY ZenonT(60), DrainEffect
  <1>2. IsFiniteSet(Index)
    BY FS_Interval, ServerReorderAssumption DEF Index
  <1>3. /\ IsFiniteSet(A) /\ IsFiniteSet(B) /\ IsFiniteSet(C)
        /\ Cardinality(A) \in Nat /\ Cardinality(B) \in Nat /\ Cardinality(C) \in Nat
    <2>1. A \in SUBSET Index /\ B \in SUBSET Index /\ C \in SUBSET Index
      BY Zenon DEF Occupied
    <2> HIDE DEF A, B, C
    <2> QED  BY Zenon, <2>1, <1>2, FS_Subset, FS_CardinalityType
  <1>4. A = B \cup C /\ B \cap C = {}
    <2>1. ASSUME NEW i \in Index
          PROVE  /\ sl[i] # 0 <=> (slots'[i] # 0 \/ sl[i] \in out)
                 /\ ~(slots'[i] # 0 /\ sl[i] \in out)
      <3>1. sl[i] \in Nat /\ next' \in Nat /\ (sl[i] # 0 => n <= sl[i])
        BY <1>1 DEF FromTo
      <3> QED  BY <3>1, <1>1
    <2> QED  BY Zenon, <2>1 DEF Occupied
  <1>5. Cardinality(C) = next' - n
    <2>1. f \in Bijection(out, C)
      <3>1. f \in [out -> C]
        BY Zenon, <1>1
      <3>2. \A j, k \in out : f[j] = f[k] => j = k
        BY Zenon, <1>1
      <3>3. \A i \in C : \E k \in out : f[k] = i
        <4>1. ASSUME NEW i \in C PROVE sl[i] \in out /\ sl[i] % Window = i
          <5>1. sl[i] \in out /\ sl[i] # 0
            BY <1>1
          <5> QED  BY Zenon, <5>1 DEF FromTo
        <4> QED  BY Zenon, <4>1
      <3> QED  BY Zenon, <3>1, <3>2, <3>3, Fun_IsBij
    <2>2. ExistsBijection(out, C)
      BY Zenon, <2>1 DEF ExistsBijection
    <2>3. IsFiniteSet(out) /\ Cardinality(out) = next' - n
      <3>1. PICK e : e = next'
        BY Zenon
      <3>2. e \in Int /\ n \in Int /\ n <= e
        BY <1>1, <3>1, ServerReorderAssumption
      <3>3. /\ IsFiniteSet(n..(e - 1))
            /\ Cardinality(n..(e - 1)) = IF n > e - 1 THEN 0 ELSE e - 1 - n + 1
        <4>1. e - 1 \in Int
          BY <3>2
        <4> QED  BY Zenon, <3>2, <4>1, FS_Interval
      <3>4. Cardinality(n..(e - 1)) = e - n
        BY <3>2, <3>3
      <3> QED  BY Zenon, <3>1, <3>3, <3>4
    <2> HIDE DEF out, C
    <2> QED  BY Zenon, <2>2, <2>3, FS_Bijection
  <1>6. Cardinality(A) = Cardinality(B) + Cardinality(C)
    <2> HIDE DEF A, B, C
    <2>1. Cardinality(B \cap C) = 0
      BY Zenon, <1>4, FS_EmptySet
    <2>2. Cardinality(B \cup C) = Cardinality(B) + Cardinality(C) - Cardinality(B \cap C)
      BY Zenon, <1>3, FS_Union
    <2> QED  BY <2>1, <2>2, <1>3, <1>4
  <1> HIDE DEF A, B, C
  <1>7. b = Cardinality(A)
    BY Zenon DEF A
  <1>8. buffered' = Cardinality(B)
    BY <1>1, <1>3, <1>5, <1>6, <1>7
  <1> QED  BY Zenon, <1>8, <1>3 DEF B

-----------------------------------------------------------------------------
(* The inductive invariant. *)

\* A frame being pushed is not late; what is held or released has arrived;
\* what was released lies before next; a held frame has a running clock.
LaneInv ==
    /\ pending # 0 => pending \in received /\ next <= pending
    /\ \A i \in Index : slots[i] # 0 => slots[i] \in received
    /\ delivered \subseteq received
    /\ \A m \in delivered : m < next
    /\ Held # {} => gapSince # NotSet
    /\ pending = 0 /\ Held = {} => gapSince = NotSet

Inv == TypeOK /\ SlotsInWindow /\ BufferedExact /\ LaneInv

\* The conjuncts of Inv that drain establishes, and what it releases.
LEMMA AfterDrain ==
    ASSUME Inv, NEW sl \in [Index -> 0..MaxSeq], NEW b, NEW n \in Nat \ {0},
           FromTo(sl, n), b = Cardinality(Occupied(sl)), next <= n,
           \A i \in Index : sl[i] # 0 => sl[i] \in received,
           Drain(sl, b, n), UNCHANGED received
    PROVE  /\ next' \in Nat \ {0} /\ n <= next' /\ next' <= n + Window
           /\ slots' \in [Index -> 0..MaxSeq] /\ buffered' \in Nat
           /\ delivered' \subseteq received /\ delivered' \subseteq Seqs
           /\ SlotsInWindow' /\ BufferedExact'
           /\ \A i \in Index : slots'[i] # 0 => slots'[i] \in received
           /\ \A m \in delivered' : m < next'
           /\ delivered \subseteq delivered'
           /\ \A k \in delivered' \ delivered, m \in delivered : m < k
           /\ \A k \in delivered' \ delivered : \E i \in Index : sl[i] = k
           /\ \A i \in Index : sl[i] # 0 => sl[i] \in Held' \cup delivered'
  <1> USE ServerReorderAssumption
  <1>1. /\ next' \in n..(n + Window)
        /\ slots' \in [Index -> 0..MaxSeq]
        /\ \A i \in Index :
             IF sl[i] < next' THEN slots'[i] = 0
             ELSE slots'[i] = sl[i] /\ next' < sl[i]
        /\ \A k \in n..(next' - 1) : k % Window \in Index /\ sl[k % Window] = k
        /\ delivered' = delivered \cup (n..(next' - 1))
    BY Zenon, DrainEffect
  <1>2. buffered' = Cardinality(Occupied(slots')) /\ buffered' \in Nat
    BY Zenon, DrainCount
  <1>3. next' \in Nat \ {0} /\ n <= next' /\ next' <= n + Window
    BY <1>1
  <1>4. BufferedExact'
    BY Zenon, <1>2 DEF BufferedExact, Occupied
  <1>5. ASSUME NEW i \in Index
        PROVE  /\ sl[i] \in Nat
               /\ slots'[i] # 0 => /\ slots'[i] = sl[i] /\ sl[i] # 0
                                   /\ sl[i] % Window = i /\ next' < sl[i]
                                   /\ sl[i] < next' + Window
               /\ sl[i] # 0 => n <= sl[i]
    BY <1>1, <1>3 DEF FromTo
  <1>6. SlotsInWindow'
    BY Zenon, <1>5 DEF SlotsInWindow
  <1>7. \A i \in Index : slots'[i] # 0 => slots'[i] \in received
    BY Zenon, <1>5
  <1>8. ASSUME NEW k \in n..(next' - 1)
        PROVE  /\ k \in Nat /\ n <= k /\ k < next' /\ k # 0
               /\ \E i \in Index : sl[i] = k
               /\ k \in received /\ k \in Seqs
    <2>1. k \in Nat /\ n <= k /\ k < next' /\ k # 0
      <3>1. PICK e : e = next'
        BY Zenon
      <3>2. e \in Nat /\ k \in n..(e - 1)
        BY Zenon, <3>1, <1>3
      <3>3. k \in Nat /\ n <= k /\ k < e /\ k # 0
        BY <3>2
      <3> QED  BY Zenon, <3>1, <3>3
    <2>2. k % Window \in Index /\ sl[k % Window] = k
      BY Zenon, <1>1
    <2> QED  BY <2>1, <2>2 DEF Seqs
  <1>9. \A m \in delivered : m \in Nat /\ m < next /\ m \in received /\ m \in Seqs /\ m < next' /\ m < n
    BY <1>3 DEF Inv, LaneInv, TypeOK, Seqs
  <1>10. ASSUME NEW i \in Index, sl[i] # 0 PROVE sl[i] \in Held' \cup delivered'
    <2>1. CASE sl[i] < next'
      BY <2>1, <1>1, <1>3, <1>5, <1>10
    <2>2. CASE ~(sl[i] < next')
      BY Zenon, <2>2, <1>1, <1>10 DEF Held
    <2> QED  BY Zenon, <2>1, <2>2
  <1>11. /\ delivered' \subseteq received /\ delivered' \subseteq Seqs
         /\ \A m \in delivered' : m < next'
         /\ delivered \subseteq delivered'
         /\ \A k \in delivered' \ delivered : k \in n..(next' - 1)
    BY Zenon, <1>1, <1>8, <1>9
  <1>12. /\ \A k \in delivered' \ delivered, m \in delivered : m < k
         /\ \A k \in delivered' \ delivered : \E i \in Index : sl[i] = k
    BY <1>8, <1>9, <1>11
  <1> QED  BY ZenonT(60), <1>1, <1>2, <1>3, <1>4, <1>6, <1>7, <1>10, <1>11, <1>12

\* The count is zero exactly when no frame is held.
LEMMA CountZero ==
    TypeOK /\ BufferedExact => (buffered = 0 <=> Held = {}) /\ buffered \in Nat
  <1> SUFFICES ASSUME TypeOK, BufferedExact
               PROVE  (buffered = 0 <=> Held = {}) /\ buffered \in Nat
    BY Zenon
  <1> DEFINE S == Occupied(slots)
  <1>1. IsFiniteSet(S)
    <2>1. IsFiniteSet(Index)
      BY FS_Interval, ServerReorderAssumption DEF Index
    <2>2. S \in SUBSET Index
      BY Zenon DEF Occupied
    <2> HIDE DEF S
    <2> QED  BY Zenon, <2>1, <2>2, FS_Subset
  <1>2. buffered = Cardinality(S)
    BY Zenon DEF BufferedExact, Occupied
  <1>3. S = {} <=> Held = {}
    BY Zenon DEF Occupied, Held
  <1> HIDE DEF S
  <1> QED  BY Zenon, <1>1, <1>2, <1>3, FS_EmptySet, FS_CardinalityType

\* Where drain starts when a gap is given up.
LEMMA LowestStart ==
    ASSUME Inv, Held # {}
    PROVE  /\ Lowest \in Nat \ {0} /\ next < Lowest /\ Lowest < next + Window
           /\ FromTo(slots, Lowest)
           /\ (IF Lowest > next THEN Lowest ELSE next) = Lowest
  <1> USE ServerReorderAssumption
  <1>1. Lowest \in Held /\ \A m \in Held : Lowest <= m
    BY Zenon, LowestFacts DEF Inv
  <1>2. PICK j \in Index : slots[j] = Lowest /\ slots[j] # 0
    BY Zenon, <1>1 DEF Held
  <1> DEFINE low == Lowest
  <1> HIDE DEF low
  <1>3. low \in Nat \ {0} /\ next < low /\ low < next + Window /\ next \in Nat
    BY <1>2 DEF low, Inv, TypeOK, SlotsInWindow
  <1>4. ASSUME NEW i \in Index, slots[i] # 0
        PROVE  slots[i] % Window = i /\ low <= slots[i] /\ slots[i] < low + Window
    <2>1. slots[i] \in Nat /\ slots[i] \in Held
      BY <1>4 DEF Held, Inv, TypeOK
    <2>2. slots[i] % Window = i /\ slots[i] < next + Window
      BY Zenon, <1>4 DEF Inv, SlotsInWindow
    <2>3. low <= slots[i]
      BY Zenon, <1>1, <2>1 DEF low
    <2> QED  BY <1>3, <2>1, <2>2, <2>3
  <1>5. (IF low > next THEN low ELSE next) = low
    BY Zenon, <1>3
  <1> QED  BY Zenon, <1>3, <1>4, <1>5 DEF low, FromTo

\* What the runs check of a step, besides the invariant.
Kept == \A n \in (Held \cup {pending}) \ {0} : n \in Held' \cup {pending'} \cup delivered'

\* Giving up the gap, from Relieve and from FlushExpired.
LEMMA GiveUpGap ==
    ASSUME Inv, Held # {}, UNCHANGED <<pending, received>>,
           Drain(slots, buffered, IF Lowest > next THEN Lowest ELSE next)
    PROVE  /\ next' \in Nat \ {0} /\ next <= next'
           /\ slots' \in [Index -> 0..MaxSeq] /\ buffered' \in Nat
           /\ delivered' \subseteq received /\ delivered' \subseteq Seqs
           /\ SlotsInWindow' /\ BufferedExact'
           /\ \A i \in Index : slots'[i] # 0 => slots'[i] \in received
           /\ \A m \in delivered' : m < next'
           /\ Held' \subseteq Held
           /\ Lane!Step /\ Kept
           /\ pending >= next + Window => next' <= pending
  <1> USE ServerReorderAssumption
  <1> DEFINE low == Lowest
  <1>1. /\ low \in Nat \ {0} /\ next < low /\ FromTo(slots, low)
        /\ Drain(slots, buffered, low)
    BY Zenon, LowestStart DEF low
  <1> HIDE DEF low
  <1>2. /\ slots \in [Index -> 0..MaxSeq] /\ next \in Nat \ {0} /\ pending \in Nat
        /\ buffered = Cardinality(Occupied(slots))
        /\ \A i \in Index : slots[i] # 0 => slots[i] \in received
    BY DEF Inv, TypeOK, BufferedExact, Occupied, LaneInv
  <1>3. next <= low
    BY <1>1, <1>2
  <1>4. /\ next' \in Nat \ {0} /\ low <= next'
        /\ slots' \in [Index -> 0..MaxSeq] /\ buffered' \in Nat
        /\ delivered' \subseteq received /\ delivered' \subseteq Seqs
        /\ SlotsInWindow' /\ BufferedExact'
        /\ \A i \in Index : slots'[i] # 0 => slots'[i] \in received
        /\ \A m \in delivered' : m < next'
        /\ delivered \subseteq delivered'
        /\ \A k \in delivered' \ delivered, m \in delivered : m < k
        /\ \A i \in Index : slots[i] # 0 => slots[i] \in Held' \cup delivered'
    BY Zenon, <1>1, <1>2, <1>3, AfterDrain
  <1>5. /\ next' \in low..(low + Window)
        /\ \A i \in Index : IF slots[i] < next' THEN slots'[i] = 0
                             ELSE slots'[i] = slots[i] /\ next' < slots[i]
        /\ \A k \in low..(next' - 1) : k % Window \in Index /\ slots[k % Window] = k
    BY Zenon, <1>1, <1>2, DrainEffect
  <1>6. next <= next'
    BY <1>2, <1>3, <1>4, <1>1
  <1>7. Held' \subseteq Held
    BY ZenonT(60), <1>5 DEF Held
  <1>8. Lane!Step
    BY Zenon, <1>4 DEF Lane!Step
  <1>9. Kept
    BY Zenon, <1>4 DEF Kept, Held
  <1>10. ASSUME pending >= next + Window PROVE next' <= pending
    <2>1. PICK e : e = next'
      BY Zenon
    <2>2. e \in Nat /\ low <= e
      BY Zenon, <2>1, <1>4
    <2>3. low < next + Window
      BY Zenon, LowestStart DEF low
    <2>4. CASE e = low
      BY <2>3, <2>4, <1>1, <1>2, <1>10, <2>1
    <2>5. CASE e # low
      <3>1. e - 1 \in low..(e - 1)
        BY <2>2, <2>5, <1>1
      <3>2. (e - 1) % Window \in Index /\ slots[(e - 1) % Window] = e - 1
        BY Zenon, <3>1, <1>5, <2>1
      <3>3. e - 1 < next + Window
        BY <3>2, <2>2, <2>5, <1>1 DEF Inv, SlotsInWindow
      <3>4. e <= pending
        BY <3>3, <2>2, <1>2, <1>10
      <3> QED  BY Zenon, <3>4, <2>1
    <2> QED  BY Zenon, <2>4, <2>5
  <1> QED  BY Zenon, <1>4, <1>6, <1>7, <1>8, <1>9, <1>10

\* The frame being pushed goes to an empty slot, or is there already.
LEMMA StoreSlot ==
    ASSUME Inv, pending # 0, ~OverWindow
    PROVE  /\ pending \in Nat \ {0} /\ pending % Window \in Index
           /\ slots[pending % Window] \in {0, pending}
  <1> USE ServerReorderAssumption
  <1> DEFINE p == pending
             i == p % Window
             q == slots[i]
  <1>1. /\ p \in Nat \ {0} /\ next \in Nat /\ next <= p /\ p < next + Window
        /\ i \in Index
    BY RemainderIndex DEF Inv, TypeOK, LaneInv, OverWindow
  <1>2. q \in Nat
    BY <1>1 DEF Inv, TypeOK
  <1>3. ASSUME q # 0 PROVE q % Window = p % Window /\ next < q /\ q < next + Window
    BY Zenon, <1>1, <1>3 DEF Inv, SlotsInWindow
  <1> HIDE DEF p, i, q
  <1>4. ASSUME q # 0 PROVE q = p
    <2>1. q % Window = p % Window /\ next < q /\ q < next + Window
      BY Zenon, <1>3, <1>4
    <2>2. CASE q <= p
      <3>1. p - q < Window
        BY <2>1, <1>1, <1>2
      <3> QED  BY Zenon, <2>1, <2>2, <3>1, <1>1, <1>2, SameRemainder
    <2>3. CASE p <= q
      <3>1. q - p < Window
        BY <2>1, <1>1, <1>2
      <3> QED  BY Zenon, <2>1, <2>3, <3>1, <1>1, <1>2, SameRemainder
    <2> QED  BY <2>2, <2>3, <1>1, <1>2
  <1> QED  BY Zenon, <1>1, <1>4 DEF p, i, q

\* push's last step keeps the invariant.
LEMMA PushStoreKeeps ==
    ASSUME Inv, PushStore PROVE Inv' /\ Lane!Step /\ Kept
  <1> USE ServerReorderAssumption
  <1> DEFINE i == pending % Window
             sl == [slots EXCEPT ![i] = pending]
             b == buffered - (IF slots[i] = 0 THEN 0 ELSE 1) + 1
  <1>1. /\ pending # 0 /\ ~OverWindow /\ slots[i] # pending
        /\ Drain(sl, b, next) /\ pending' = 0 /\ received' = received
        /\ gapSince' = IF buffered' = 0 THEN NotSet
                       ELSE IF gapSince = NotSet THEN 0 ELSE gapSince

    BY Zenon DEF PushStore
  <1>2. pending \in Nat \ {0} /\ i \in Index /\ slots[i] = 0
    BY Zenon, <1>1, StoreSlot
  <1>3. /\ slots \in [Index -> 0..MaxSeq] /\ next \in Nat \ {0}
        /\ pending \in received /\ next <= pending /\ pending \in 0..MaxSeq
        /\ pending < next + Window
    BY <1>1 DEF Inv, TypeOK, LaneInv, OverWindow
  <1>4. /\ sl \in [Index -> 0..MaxSeq] /\ sl[i] = pending
        /\ \A j \in Index : j # i => sl[j] = slots[j]
    BY Zenon, <1>2, <1>3
  <1>5. FromTo(sl, next)
    <2>1. ASSUME NEW j \in Index, sl[j] # 0
          PROVE  sl[j] % Window = j /\ next <= sl[j] /\ sl[j] < next + Window
      <3>1. CASE j = i
        BY Zenon, <3>1, <1>3, <1>4
      <3>2. CASE j # i
        <4>1. sl[j] = slots[j] /\ slots[j] \in Nat
          BY <3>2, <1>3, <1>4
        <4> QED  BY <4>1, <2>1, <1>3 DEF Inv, SlotsInWindow
      <3> QED  BY Zenon, <3>1, <3>2
    <2> QED  BY Zenon, <2>1 DEF FromTo
  <1>6. b = Cardinality(Occupied(sl))
    <2>1. b = buffered + 1 /\ buffered = Cardinality(Occupied(slots)) /\ buffered \in Nat
      BY <1>2, CountZero DEF Inv, BufferedExact, Occupied
    <2>2. Occupied(sl) \in SUBSET Index /\ Occupied(slots) \in SUBSET Index
      BY Zenon DEF Occupied
    <2>3. /\ i \notin Occupied(slots) /\ i \in Occupied(sl)
          /\ \A j \in Index \ {i} : j \in Occupied(slots) <=> j \in Occupied(sl)
      BY Zenon, <1>2, <1>4 DEF Occupied
    <2>4. IsFiniteSet(Index)
      BY FS_Interval DEF Index
    <2> HIDE DEF i, sl, b
    <2>5. Cardinality(Occupied(sl)) = Cardinality(Occupied(slots)) + 1
      BY <2>2, <2>3, <2>4, <1>2, CountOne
    <2> QED  BY Zenon, <2>1, <2>5
  <1>7. \A j \in Index : sl[j] # 0 => sl[j] \in received
    BY Zenon, <1>3, <1>4 DEF Inv, LaneInv
  <1> HIDE DEF i, sl, b
  <1>8. /\ next' \in Nat \ {0} /\ next <= next'
        /\ slots' \in [Index -> 0..MaxSeq] /\ buffered' \in Nat
        /\ delivered' \subseteq received /\ delivered' \subseteq Seqs
        /\ SlotsInWindow' /\ BufferedExact'
        /\ \A j \in Index : slots'[j] # 0 => slots'[j] \in received
        /\ \A m \in delivered' : m < next'
        /\ delivered \subseteq delivered'
        /\ \A k \in delivered' \ delivered, m \in delivered : m < k
        /\ \A j \in Index : sl[j] # 0 => sl[j] \in Held' \cup delivered'
    BY <1>1, <1>3, <1>4, <1>5, <1>6, <1>7, AfterDrain
  <1>9. TypeOK'
    BY <1>1, <1>8 DEF Inv, TypeOK
  <1>10. buffered' = 0 <=> Held' = {}
    <2>1. (TypeOK /\ BufferedExact => (buffered = 0 <=> Held = {}) /\ buffered \in Nat)'
      BY CountZero, PTL
    <2> QED  BY Zenon, <2>1, <1>8, <1>9
  <1>11. LaneInv'
    BY <1>1, <1>8, <1>10, <1>9 DEF LaneInv, NotSet, TypeOK
  <1>12. Lane!Step
    BY Zenon, <1>1, <1>8 DEF Lane!Step
  <1>13. Kept
    <2>1. pending \in Held' \cup delivered'
      BY Zenon, <1>2, <1>4, <1>8
    <2>2. ASSUME NEW j \in Index, slots[j] # 0 PROVE slots[j] \in Held' \cup delivered'
      BY Zenon, <2>2, <1>2, <1>4, <1>8
    <2> QED  BY Zenon, <2>1, <2>2 DEF Kept, Held
  <1> QED  BY Zenon, <1>8, <1>9, <1>11, <1>12, <1>13 DEF Inv

\* One iteration of the window-pressure loop keeps the invariant.
LEMMA RelieveKeeps ==
    ASSUME Inv, Relieve PROVE Inv' /\ Lane!Step /\ Kept
  <1> USE ServerReorderAssumption
  <1>1. /\ pending # 0 /\ pending' = pending /\ received' = received
        /\ gapSince' = gapSince
    BY Zenon DEF Relieve
  <1>2. /\ next \in Nat \ {0} /\ pending \in Nat \ {0} /\ next <= pending
        /\ pending >= next + Window
    BY <1>1 DEF Inv, TypeOK, LaneInv, Relieve, OverWindow
  <1>3. CASE Held = {}
    <2>1. next' = pending /\ UNCHANGED <<slots, buffered, delivered>>
      BY Zenon, <1>3 DEF Relieve
    <2>2. \A j \in Index : slots[j] = 0
      BY Zenon, <1>3 DEF Held
    <2>3. TypeOK' /\ SlotsInWindow' /\ BufferedExact'
      BY Zenon, <1>1, <1>2, <2>1, <2>2 DEF Inv, TypeOK, SlotsInWindow, BufferedExact
    <2>4. \A m \in delivered : m \in Nat /\ m < next
      BY DEF Inv, TypeOK, LaneInv, Seqs
    <2>5. \A m \in delivered : m < pending
      BY <1>2, <2>4
    <2>6. LaneInv'
      BY <1>1, <1>2, <2>1, <2>2, <2>5 DEF Inv, LaneInv, Held
    <2>7. Lane!Step /\ Kept
      BY Zenon, <1>1, <1>3, <2>1 DEF Lane!Step, Kept, Inv, LaneInv
    <2> QED  BY Zenon, <2>3, <2>6, <2>7 DEF Inv
  <1>4. CASE Held # {}
    <2>1. Drain(slots, buffered, IF Lowest > next THEN Lowest ELSE next)
      BY Zenon, <1>4 DEF Relieve
    <2>2. /\ next' \in Nat \ {0} /\ next <= next' /\ next' <= pending
          /\ slots' \in [Index -> 0..MaxSeq] /\ buffered' \in Nat
          /\ delivered' \subseteq received /\ delivered' \subseteq Seqs
          /\ SlotsInWindow' /\ BufferedExact'
          /\ \A j \in Index : slots'[j] # 0 => slots'[j] \in received
          /\ \A m \in delivered' : m < next'
          /\ Lane!Step /\ Kept
      BY Zenon, <1>1, <1>2, <1>4, <2>1, GiveUpGap
    <2>3. TypeOK'
      BY <1>1, <2>2 DEF Inv, TypeOK
    <2>4. LaneInv'
      BY Zenon, <1>1, <1>4, <2>2 DEF Inv, LaneInv
    <2> QED  BY Zenon, <2>2, <2>3, <2>4 DEF Inv
  <1> QED  BY Zenon, <1>3, <1>4

\* flushExpired keeps the invariant.
LEMMA FlushExpiredKeeps ==
    ASSUME Inv, FlushExpired PROVE Inv' /\ Lane!Step /\ Kept
  <1>1. /\ pending = 0 /\ Held # {} /\ pending' = pending /\ received' = received
        /\ gapSince' = (IF buffered' > 0 THEN 0 ELSE NotSet)
        /\ Drain(slots, buffered, IF Lowest > next THEN Lowest ELSE next)
    BY Zenon DEF FlushExpired
  <1>2. /\ next' \in Nat \ {0}
        /\ slots' \in [Index -> 0..MaxSeq] /\ buffered' \in Nat
        /\ delivered' \subseteq received /\ delivered' \subseteq Seqs
        /\ SlotsInWindow' /\ BufferedExact'
        /\ \A j \in Index : slots'[j] # 0 => slots'[j] \in received
        /\ \A m \in delivered' : m < next'
        /\ Lane!Step /\ Kept
    BY Zenon, <1>1, GiveUpGap
  <1>3. TypeOK'
    BY <1>1, <1>2 DEF Inv, TypeOK
  <1>4. gapSince' = NotSet <=> Held' = {}
    <2>1. (TypeOK /\ BufferedExact => (buffered = 0 <=> Held = {}) /\ buffered \in Nat)'
      BY CountZero, PTL
    <2>2. buffered' = 0 <=> Held' = {}
      BY Zenon, <2>1, <1>2, <1>3
    <2> QED  BY <2>2, <1>1, <1>2 DEF NotSet
  <1>5. LaneInv'
    BY Zenon, <1>1, <1>2, <1>4 DEF Inv, LaneInv
  <1> QED  BY Zenon, <1>2, <1>3, <1>5 DEF Inv

\* Every step keeps the invariant, is a step of the abstract lane, and loses
\* no frame.
LEMMA StepKeeps ==
    ASSUME Inv, [Next]_vars PROVE Inv' /\ [Lane!Step]_(Lane!laneVars) /\ (vars' = vars \/ Kept)
  <1> USE ServerReorderAssumption
  <1>1. CASE UNCHANGED vars
    BY Zenon, <1>1 DEF vars, Lane!laneVars, Inv, TypeOK, SlotsInWindow, BufferedExact, LaneInv, Held
  <1>2. ASSUME NEW n \in 0..MaxSeq, PushLate(n) PROVE Inv' /\ Lane!Step /\ Kept
    <2>1. /\ pending = 0 /\ received' = received \cup {n}
          /\ UNCHANGED <<next, slots, buffered, gapSince, pending, delivered>>
      BY Zenon, <1>2 DEF PushLate
    <2>2. Inv'
      BY Zenon, <2>1 DEF Inv, TypeOK, SlotsInWindow, BufferedExact, LaneInv, Held
    <2>3. Lane!Step /\ Kept
      BY Zenon, <2>1 DEF Lane!Step, Kept, Inv, LaneInv, Held
    <2> QED  BY Zenon, <2>2, <2>3
  <1>3. ASSUME NEW n \in 0..MaxSeq, Push(n) PROVE Inv' /\ Lane!Step /\ Kept
    <2>1. /\ pending = 0 /\ n >= next /\ pending' = n /\ received' = received \cup {n}
          /\ UNCHANGED <<next, slots, buffered, gapSince, delivered>>
      BY Zenon, <1>3 DEF Push
    <2>2. next <= n /\ n # 0
      BY <2>1 DEF Inv, TypeOK
    <2>3. Inv'
      BY Zenon, <2>1, <2>2 DEF Inv, TypeOK, SlotsInWindow, BufferedExact, LaneInv, Held
    <2>4. Lane!Step /\ Kept
      BY Zenon, <2>1 DEF Lane!Step, Kept, Inv, LaneInv, Held
    <2> QED  BY Zenon, <2>3, <2>4
  <1>4. CASE PushDuplicate
    <2>1. /\ pending # 0 /\ ~OverWindow /\ slots[pending % Window] = pending /\ pending' = 0
          /\ UNCHANGED <<next, slots, buffered, gapSince, received, delivered>>
      BY Zenon, <1>4 DEF PushDuplicate
    <2>2. pending \in Held
      BY Zenon, <2>1, StoreSlot DEF Held
    <2>3. Inv'
      BY <2>1, <2>2 DEF Inv, TypeOK, SlotsInWindow, BufferedExact, LaneInv, Held
    <2>4. Lane!Step /\ Kept
      BY Zenon, <2>1, <2>2 DEF Lane!Step, Kept, Inv, LaneInv, Held
    <2> QED  BY Zenon, <2>3, <2>4
  <1>5. CASE Tick
    <2>1. /\ pending = 0
          /\ gapSince' = IF gapSince = NotSet THEN NotSet ELSE gapSince + 1
          /\ UNCHANGED <<next, slots, buffered, pending, received, delivered>>
      BY Zenon, <1>5 DEF Tick
    <2>2. /\ gapSince' \in Nat \cup {NotSet}
          /\ gapSince' = NotSet <=> gapSince = NotSet
      BY <2>1 DEF Inv, TypeOK, NotSet
    <2>3. Inv'
      BY Zenon, <2>1, <2>2 DEF Inv, TypeOK, SlotsInWindow, BufferedExact, LaneInv, Held
    <2>4. Lane!Step /\ Kept
      BY Zenon, <2>1 DEF Lane!Step, Kept, Inv, LaneInv, Held
    <2> QED  BY Zenon, <2>3, <2>4
  <1> QED
    BY Zenon, <1>1, <1>2, <1>3, <1>4, <1>5, PushStoreKeeps, RelieveKeeps, FlushExpiredKeeps
    DEF Next

\* The buffer starts empty.
LEMMA InitInv == Init => Inv /\ Lane!Init
  <1> SUFFICES ASSUME Init PROVE Inv /\ Lane!Init
    BY Zenon
  <1> USE ServerReorderAssumption
  <1>1. TypeOK /\ SlotsInWindow /\ LaneInv /\ Lane!Init
    BY DEF Init, TypeOK, SlotsInWindow, LaneInv, Lane!Init, Held, NotSet
  <1>2. BufferedExact
    <2>1. {i \in Index : slots[i] # 0} = {}
      BY Zenon DEF Init
    <2> QED  BY Zenon, <2>1, FS_EmptySet DEF Init, BufferedExact
  <1> QED  BY Zenon, <1>1, <1>2 DEF Inv

-----------------------------------------------------------------------------
\* The inductive invariant holds, and with it the types.
THEOREM Invariance == Spec => []Inv
  <1>1. Inv /\ [Next]_vars => Inv'
    BY Zenon, StepKeeps
  <1> QED  BY <1>1, InitInv, PTL DEF Spec

\* Each held frame is at its own index in the window ahead of next, so the
\* stale slot that push guards against does not exist.
THEOREM SlotsAlwaysInWindow == Spec => []SlotsInWindow
  BY Invariance, PTL DEF Inv

\* r.buffered always counts the frames held.
THEOREM BufferedAlwaysExact == Spec => []BufferedExact
  BY Invariance, PTL DEF Inv

\* Between two calls the clock of a gap runs exactly while frames are held.
THEOREM GapAlwaysTimed == Spec => []GapTimed
  <1>1. Inv => GapTimed
    BY Zenon DEF Inv, LaneInv, GapTimed
  <1> QED  BY <1>1, Invariance, PTL

\* No call loses a frame that has arrived in time.
THEOREM NeverLost == Spec => NothingLost
  <1>1. Inv /\ [Next]_vars => [Kept]_vars
    BY Zenon, StepKeeps
  <1> QED  BY <1>1, Invariance, PTL DEF Spec, NothingLost, Kept

\* The buffer implements the lane's promise: what it releases under b.mu has arrived, and
\* in increasing order.
THEOREM ImplementsLane == Spec => InOrder
  <1>1. Inv /\ [Next]_vars => [Lane!Step]_(Lane!laneVars)
    BY Zenon, StepKeeps
  <1> QED  BY <1>1, InitInv, Invariance, PTL DEF Spec, InOrder, Lane!Spec

-----------------------------------------------------------------------------
(* bondReorderBuffer of the client. *)


\* Besides what the runs check: what is in the map or was handed on has
\* arrived, and what was handed on lies before the expected frame.
ClientLaneInv ==
    /\ buf \subseteq clientReceived
    /\ clientDelivered \subseteq clientReceived
    /\ \A m \in clientDelivered : m < expect

ClientInv == ClientTypeOK /\ BufInWindow /\ ClientGapTimed /\ ClientLaneInv

ClientKept == \A n \in buf : n \in buf' \cup clientDelivered' \/ expect' > expect + ClientWindow

\* Handing n on with b in the map, where b is ahead of n and within a window
\* of it.
LEMMA HandOnFacts ==
    ASSUME NEW b \in SUBSET ClientSeqs, NEW n \in ClientSeqs,
           \A k \in b : n <= k /\ k < n + ClientWindow, HandOn(b, n)
    PROVE  \E e \in Nat \ {0} :
             /\ expect' = e /\ n < e
             /\ buf' = {k \in b : e <= k} /\ \A k \in buf' : e < k /\ k < e + ClientWindow
             /\ clientDelivered' = clientDelivered \cup (n..(e - 1))
             /\ \A k \in n..(e - 1) : k \in ClientSeqs /\ (k = n \/ k \in b)
             /\ \A k \in b : k \in buf' \/ k \in n..(e - 1)
  <1> USE ClientReorderAssumption
  <1> DEFINE S == ClientStops(b, n)
             e == CHOOSE m \in S : \A k \in S : m <= k
  <1>1. n \in Nat /\ n > 0 /\ \A k \in b : k \in Nat
    BY DEF ClientSeqs
  <1>2. S \in SUBSET Nat /\ n + ClientWindow \in S
    BY <1>1 DEF ClientStops
  <1>3. \E m \in S : \A k \in S : m <= k
    <2> HIDE DEF S
    <2> QED  BY Zenon, <1>2, LeastElement
  <1>4. e \in S /\ \A k \in S : e <= k
    BY Zenon, <1>3
  <1>5. /\ expect' = e /\ buf' = b \ (n..(e - 1))
        /\ clientDelivered' = clientDelivered \cup (n..(e - 1))
    BY Zenon DEF HandOn
  <1> HIDE DEF e
  <1>6. e \in Nat /\ n < e /\ e <= n + ClientWindow /\ e \notin b
    BY <1>1, <1>4 DEF ClientStops
  <1>7. ASSUME NEW k \in n..(e - 1) PROVE k \in Nat /\ n <= k /\ k < e /\ (k = n \/ k \in b)
    <2>1. k \in Nat /\ n <= k /\ k < e
      BY <1>1, <1>6
    <2>2. k \notin S
      BY <1>2, <1>4, <1>6, <2>1
    <2> QED  BY <1>1, <1>6, <2>1, <2>2 DEF ClientStops
  <1>8. \A k \in n..(e - 1) : k \in ClientSeqs /\ (k = n \/ k \in b)
    BY Zenon, <1>7
  <1>9. ASSUME NEW k \in b
        PROVE  /\ k \in n..(e - 1) <=> ~(e <= k)
               /\ e <= k => e < k /\ k < e + ClientWindow
    BY <1>1, <1>6
  <1> HIDE DEF S
  <1>10. buf' = {k \in b : e <= k}
    BY Zenon, <1>5, <1>9
  <1>11. /\ \A k \in buf' : e < k /\ k < e + ClientWindow
         /\ \A k \in b : k \in buf' \/ k \in n..(e - 1)
    BY Zenon, <1>9, <1>10
  <1>12. e \in Nat \ {0}
    BY <1>1, <1>6
  <1> WITNESS e \in Nat \ {0}
  <1> QED  BY Zenon, <1>5, <1>6, <1>8, <1>10, <1>11

\* The invariant after HandOn, and what it does to the lane.
LEMMA AfterHandOn ==
    ASSUME ClientInv, NEW b \in SUBSET ClientSeqs, NEW n \in ClientSeqs,
           \A k \in b : n <= k /\ k < n + ClientWindow, HandOn(b, n),
           expect <= n, b \subseteq clientReceived', n \in clientReceived',
           clientReceived \subseteq clientReceived', clientReceived' \subseteq 0..ClientMaxSeq,
           first' \in Nat \cup {ClientNotSet}, first' = ClientNotSet <=> buf' = {}
    PROVE  /\ ClientInv' /\ n < expect'
           /\ clientDelivered \subseteq clientDelivered' /\ clientDelivered' \subseteq clientReceived'
           /\ \A k \in clientDelivered' \ clientDelivered, m \in clientDelivered : m < k
           /\ \A k \in b : k \in buf' \cup clientDelivered'
  <1>1. PICK e \in Nat \ {0} :
             /\ expect' = e /\ n < e
             /\ buf' = {k \in b : e <= k} /\ \A k \in buf' : e < k /\ k < e + ClientWindow
             /\ clientDelivered' = clientDelivered \cup (n..(e - 1))
             /\ \A k \in n..(e - 1) : k \in ClientSeqs /\ (k = n \/ k \in b)
             /\ \A k \in b : k \in buf' \/ k \in n..(e - 1)
    BY Zenon, HandOnFacts
  <1>2. n \in Nat /\ expect \in Nat /\ \A m \in clientDelivered : m \in Nat /\ m < expect /\ m \in clientReceived
    BY DEF ClientInv, ClientTypeOK, ClientLaneInv, ClientSeqs
  <1>3. \A m \in clientDelivered : m < n /\ m < e
    BY <1>1, <1>2
  <1>4. \A k \in n..(e - 1) : k < e /\ n <= k /\ k \in Nat
    BY <1>1, <1>2
  <1>5. /\ \A k \in clientDelivered' \ clientDelivered, m \in clientDelivered : m < k
        /\ clientDelivered' \subseteq clientReceived' /\ \A m \in clientDelivered' : m < e
    BY <1>1, <1>2, <1>3, <1>4
  <1>6. ClientTypeOK' /\ BufInWindow' /\ ClientGapTimed' /\ ClientLaneInv'
    BY Zenon, <1>1, <1>5 DEF ClientInv, ClientTypeOK, BufInWindow, ClientGapTimed, ClientLaneInv
  <1> QED  BY Zenon, <1>1, <1>5, <1>6 DEF ClientInv

\* Every step keeps the invariant, is a step of the lane, and loses a frame of
\* the map only when the lane jumps a window.
LEMMA ClientStepKeeps ==
    ASSUME ClientInv, [ClientNext]_clientVars
    PROVE  ClientInv' /\ [ClientLane!Step]_(ClientLane!laneVars) /\ (clientVars' = clientVars \/ ClientKept)
  <1> USE ClientReorderAssumption
  <1>1. CASE UNCHANGED clientVars
    BY Zenon, <1>1 DEF clientVars, ClientLane!laneVars, ClientInv, ClientTypeOK, BufInWindow, ClientGapTimed, ClientLaneInv
  <1>2. ASSUME NEW n \in 0..ClientMaxSeq, ClientPushLate(n) \/ ClientPushDuplicate(n)
        PROVE  ClientInv' /\ ClientLane!Step /\ ClientKept
    <2>1. clientReceived' = clientReceived \cup {n} /\ UNCHANGED <<expect, buf, first, clientDelivered>>
      BY Zenon, <1>2 DEF ClientPushLate, ClientPushDuplicate, Arrives
    <2>2. ClientInv'
      BY Zenon, <2>1 DEF ClientInv, ClientTypeOK, BufInWindow, ClientGapTimed, ClientLaneInv
    <2> QED  BY Zenon, <2>1, <2>2 DEF ClientLane!Step, ClientKept, ClientInv, ClientLaneInv
  <1>3. ASSUME NEW n \in 0..ClientMaxSeq, PushExpected(n) PROVE ClientInv' /\ ClientLane!Step /\ ClientKept
    <2>1. /\ n = expect /\ HandOn(buf, n) /\ clientReceived' = clientReceived \cup {n}
          /\ first' = IF buf' = {} THEN ClientNotSet ELSE first
      BY Zenon, <1>3 DEF PushExpected, Arrives
    <2>2. /\ n \in ClientSeqs /\ expect <= n /\ buf \in SUBSET ClientSeqs
          /\ \A k \in buf : n <= k /\ k < n + ClientWindow
      BY <2>1 DEF ClientInv, ClientTypeOK, BufInWindow, ClientSeqs
    <2>3. buf' \subseteq buf
      BY Zenon, <2>1 DEF HandOn
    <2>4. first' \in Nat \cup {ClientNotSet} /\ (first' = ClientNotSet <=> buf' = {})
      BY Zenon, <2>1, <2>3 DEF ClientInv, ClientTypeOK, ClientGapTimed
    <2>5. /\ buf \subseteq clientReceived' /\ n \in clientReceived' /\ clientReceived \subseteq clientReceived'
          /\ clientReceived' \subseteq 0..ClientMaxSeq
      BY Zenon, <2>1 DEF ClientInv, ClientTypeOK, ClientLaneInv
    <2>6. /\ ClientInv' /\ clientDelivered \subseteq clientDelivered' /\ clientDelivered' \subseteq clientReceived'
          /\ \A k \in clientDelivered' \ clientDelivered, m \in clientDelivered : m < k
          /\ \A k \in buf : k \in buf' \cup clientDelivered'
      BY Zenon, <2>1, <2>2, <2>4, <2>5, AfterHandOn
    <2> QED  BY Zenon, <2>1, <2>6 DEF ClientLane!Step, ClientKept
  <1>4. ASSUME NEW n \in 0..ClientMaxSeq, PushJump(n) PROVE ClientInv' /\ ClientLane!Step /\ ClientKept
    <2>1. /\ n > expect /\ n - expect >= ClientWindow /\ HandOn({}, n)
          /\ first' = ClientNotSet /\ clientReceived' = clientReceived \cup {n}
      BY Zenon, <1>4 DEF PushJump, Arrives
    <2>2. n \in ClientSeqs /\ expect \in Nat /\ expect <= n /\ expect + ClientWindow <= n
      BY <2>1 DEF ClientInv, ClientTypeOK, ClientSeqs
    <2>3. buf' = {}
      BY Zenon, <2>1 DEF HandOn
    <2>4. /\ n \in clientReceived' /\ clientReceived \subseteq clientReceived' /\ clientReceived' \subseteq 0..ClientMaxSeq
      BY Zenon, <2>1 DEF ClientInv, ClientTypeOK
    <2>5. /\ ClientInv' /\ n < expect' /\ clientDelivered \subseteq clientDelivered' /\ clientDelivered' \subseteq clientReceived'
          /\ \A k \in clientDelivered' \ clientDelivered, m \in clientDelivered : m < k
      BY <2>1, <2>2, <2>3, <2>4, AfterHandOn
    <2>6. expect' > expect + ClientWindow
      <3>1. PICK e : e = expect'
        BY Zenon
      <3>2. e \in Nat /\ n < e
        BY Zenon, <2>5, <3>1 DEF ClientInv, ClientTypeOK
      <3>3. e > expect + ClientWindow
        BY <3>2, <2>2
      <3> QED  BY Zenon, <3>1, <3>3
    <2> QED  BY Zenon, <2>1, <2>5, <2>6 DEF ClientLane!Step, ClientKept
  <1>5. ASSUME NEW n \in 0..ClientMaxSeq, PushHold(n) PROVE ClientInv' /\ ClientLane!Step /\ ClientKept
    <2>1. /\ n > expect /\ n - expect < ClientWindow /\ buf' = buf \cup {n}
          /\ first' = (IF first = ClientNotSet THEN 0 ELSE first)
          /\ clientReceived' = clientReceived \cup {n} /\ UNCHANGED <<expect, clientDelivered>>
      BY Zenon, <1>5 DEF PushHold, Arrives
    <2>2. n \in ClientSeqs /\ expect < n /\ n < expect + ClientWindow
      BY <2>1 DEF ClientInv, ClientTypeOK, ClientSeqs
    <2>3. ClientInv'
      BY <2>1, <2>2 DEF ClientInv, ClientTypeOK, BufInWindow, ClientGapTimed, ClientLaneInv, ClientNotSet
    <2> QED  BY Zenon, <2>1, <2>3 DEF ClientLane!Step, ClientKept, ClientInv, ClientLaneInv
  <1>6. CASE ClientFlushExpired
    <2>1. /\ buf # {} /\ HandOn(buf, ClientLowest) /\ clientReceived' = clientReceived
          /\ first' = IF buf' = {} THEN ClientNotSet ELSE 0
      BY Zenon, <1>6 DEF ClientFlushExpired, ClientExpired
    <2>2. \E n \in buf : \A m \in buf : n <= m
      BY <2>1, LeastElement DEF ClientInv, ClientTypeOK, ClientSeqs
    <2>3. ClientLowest \in buf /\ \A m \in buf : ClientLowest <= m
      BY Zenon, <2>2 DEF ClientLowest
    <2>4. PICK n \in ClientSeqs : n = ClientLowest /\ n \in buf
      BY Zenon, <2>3 DEF ClientInv, ClientTypeOK
    <2>5. /\ expect <= n /\ buf \in SUBSET ClientSeqs
          /\ \A k \in buf : n <= k /\ k < n + ClientWindow
      <3>1. n \in Nat /\ expect \in Nat /\ expect < n
        BY <2>4 DEF ClientInv, ClientTypeOK, BufInWindow, ClientSeqs
      <3>2. ASSUME NEW k \in buf PROVE n <= k /\ k < n + ClientWindow
        <4>1. k \in Nat /\ k < expect + ClientWindow /\ n <= k
          BY <2>3, <2>4 DEF ClientInv, ClientTypeOK, BufInWindow, ClientSeqs
        <4> QED  BY <3>1, <4>1
      <3> QED  BY <3>1, <3>2 DEF ClientInv, ClientTypeOK
    <2>6. first' \in Nat \cup {ClientNotSet} /\ (first' = ClientNotSet <=> buf' = {})
      BY <2>1 DEF ClientNotSet
    <2>7. /\ buf \subseteq clientReceived' /\ n \in clientReceived' /\ clientReceived \subseteq clientReceived'
          /\ clientReceived' \subseteq 0..ClientMaxSeq
      BY Zenon, <2>1, <2>4 DEF ClientInv, ClientTypeOK, ClientLaneInv
    <2>8. /\ ClientInv' /\ clientDelivered \subseteq clientDelivered' /\ clientDelivered' \subseteq clientReceived'
          /\ \A k \in clientDelivered' \ clientDelivered, m \in clientDelivered : m < k
          /\ \A k \in buf : k \in buf' \cup clientDelivered'
      BY Zenon, <2>1, <2>4, <2>5, <2>6, <2>7, AfterHandOn
    <2> QED  BY Zenon, <2>1, <2>8 DEF ClientLane!Step, ClientKept
  <1>7. CASE ClientTick
    <2>1. /\ first' = (IF first = ClientNotSet THEN ClientNotSet ELSE first + 1)
          /\ UNCHANGED <<expect, buf, clientReceived, clientDelivered>>
      BY Zenon, <1>7 DEF ClientTick
    <2>2. first' \in Nat \cup {ClientNotSet} /\ (first' = ClientNotSet <=> first = ClientNotSet)
      BY <2>1 DEF ClientInv, ClientTypeOK, ClientNotSet
    <2>3. ClientInv'
      BY Zenon, <2>1, <2>2 DEF ClientInv, ClientTypeOK, BufInWindow, ClientGapTimed, ClientLaneInv
    <2> QED  BY Zenon, <2>1, <2>3 DEF ClientLane!Step, ClientKept, ClientInv, ClientLaneInv
  <1> QED  BY Zenon, <1>1, <1>2, <1>3, <1>4, <1>5, <1>6, <1>7 DEF ClientNext, ClientPush

\* The buffer starts empty.
LEMMA ClientInitInv == ClientInit => ClientInv /\ ClientLane!Init
  BY SMTT(60), ClientReorderAssumption
  DEF ClientInit, ClientInv, ClientTypeOK, BufInWindow, ClientGapTimed, ClientLaneInv, ClientLane!Init, ClientNotSet

-----------------------------------------------------------------------------
\* The inductive invariant holds, and with it the types.
THEOREM ClientInvariance == ClientSpec => []ClientInv
  <1>1. ClientInv /\ [ClientNext]_clientVars => ClientInv'
    BY Zenon, ClientStepKeeps
  <1> QED  BY <1>1, ClientInitInv, PTL DEF ClientSpec

\* r.buf only holds frames within a window after the missing one.
THEOREM BufAlwaysInWindow == ClientSpec => []BufInWindow
  BY ClientInvariance, PTL DEF ClientInv

\* The clock of a gap runs exactly while frames wait behind it.
THEOREM ClientGapAlwaysTimed == ClientSpec => []ClientGapTimed
  BY ClientInvariance, PTL DEF ClientInv

\* A frame leaves r.buf to WireGuard, unless the lane jumps a whole window.
THEOREM AlwaysLeavesToWireGuard == ClientSpec => LeavesToWireGuard
  <1>1. ClientInv /\ [ClientNext]_clientVars => [ClientKept]_clientVars
    BY Zenon, ClientStepKeeps
  <1> QED  BY <1>1, ClientInvariance, PTL DEF ClientSpec, LeavesToWireGuard, ClientKept

\* The buffer implements the lane's promise: in order, and only what arrived.
THEOREM ClientImplementsLane == ClientSpec => ClientInOrder
  <1>1. ClientInv /\ [ClientNext]_clientVars => [ClientLane!Step]_(ClientLane!laneVars)
    BY Zenon, ClientStepKeeps
  <1> QED  BY <1>1, ClientInitInv, ClientInvariance, PTL DEF ClientSpec, ClientInOrder, ClientLane!Spec
=============================================================================
