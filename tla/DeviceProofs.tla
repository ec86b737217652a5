---------------------------- MODULE DeviceProofs ----------------------------
(***************************************************************************)
(* Theorems about the virtio-MMIO transport (Virtqueue): its safety, and   *)
(* that each of its queues implements RequestQueue; and about the machine  *)
(* (KVMMachine) and the serial console (Uart) of a guest.  Those about the *)
(* queues rest on index arithmetic (a ring of QNum entries, indices modulo *)
(* IdxMod), on what the window between two indices holds when an entry is  *)
(* written or taken, and on the fact that every chain is free, offered or  *)
(* returned.                                                               *)
(***************************************************************************)
EXTENDS Virtqueue, Uart, KVMMachine, SequenceTheorems, FiniteSetTheorems, TLAPS

-----------------------------------------------------------------------------
(* Index arithmetic: IdxMod is a multiple of QNum.                         *)

\* A number below the modulus is its own remainder.
LEMMA ModSmall ==
  ASSUME NEW m \in Nat \ {0}, NEW i \in 0..m-1
  PROVE  i % m = i
  OBVIOUS

\* A number below twice the modulus wraps once.
LEMMA ModOver ==
  ASSUME NEW m \in Nat \ {0}, NEW i \in m..(2 * m - 1)
  PROVE  i % m = i - m
  OBVIOUS

\* Quotient and remainder.
LEMMA DivMod ==
  ASSUME NEW m \in Nat \ {0}, NEW i \in Nat
  PROVE  i \div m \in Nat /\ i % m \in 0..m-1 /\ i = m * (i \div m) + (i % m)
<1>1. i \div m \in Nat
  OBVIOUS
<1>2. i % m \in 0..m-1
  OBVIOUS
<1>3. i = m * (i \div m) + (i % m)
  OBVIOUS
<1> QED
  BY <1>1, <1>2, <1>3

\* A multiple of the modulus.
LEMMA DivWhole ==
  ASSUME NEW m \in Nat \ {0}, NEW i \in Nat, i % m = 0
  PROVE  i \div m \in Nat /\ i = m * (i \div m)
<1>1. i \div m \in Nat /\ i = m * (i \div m) + 0
  BY DivMod
<1>2. m * (i \div m) \in Int
  BY <1>1
<1> QED
  BY <1>1, <1>2

\* The remainder is the only one.
LEMMA ModUnique ==
  ASSUME NEW m \in Nat \ {0}, NEW k \in Nat, NEW r \in 0..m-1
  PROVE  (m * k + r) % m = r
  OBVIOUS

\* The sizes of a queue and of its indices.
LEMMA Sizes == QNum \in Nat \ {0} /\ IdxMod \in Nat \ {0} /\ QNum < IdxMod
<1>1. QNum \in Nat \ {0} /\ IdxMod \in Nat /\ IdxMod > QNum
  BY VirtqueueAssumption, Zenon
<1> QED
  BY <1>1

\* The indices wrap after whole turns of the ring.
LEMMA WholeTurns == IdxMod % QNum = 0
  BY VirtqueueAssumption

\* An index that wrapped stands for the same entry of the ring.
LEMMA SlotTurns ==
  ASSUME NEW i \in Nat
  PROVE  Slot(i + IdxMod) = Slot(i)
<1> DEFINE a == i \div QNum
           k == IdxMod \div QNum
           r == i % QNum
<1>1. a \in Nat /\ r \in 0..QNum-1 /\ i = QNum * a + r
  BY DivMod, Sizes
<1>2. k \in Nat /\ IdxMod = QNum * k
  BY Sizes, WholeTurns, DivWhole
<1> HIDE DEF a, k, r
<1>3. i + IdxMod = QNum * (a + k) + r
  BY <1>1, <1>2, Sizes
<1>4. (QNum * (a + k) + r) % QNum = r
  BY <1>1, <1>2, ModUnique, Sizes
<1> QED
  BY <1>3, <1>4 DEF Slot, r

\* Indices less than a ring apart stand for different entries.
LEMMA SlotsDiffer ==
  ASSUME NEW x \in Nat, NEW y \in Nat, x < y, y < x + QNum
  PROVE  Slot(x) # Slot(y)
<1> DEFINE a == x \div QNum
           b == y \div QNum
           r == x % QNum
<1>1. SUFFICES ASSUME x % QNum = y % QNum PROVE FALSE
  BY DEF Slot
<1>2. a \in Nat /\ b \in Nat /\ r \in 0..QNum-1 /\ x = QNum * a + r /\ y = QNum * b + r
  BY <1>1, DivMod, Sizes
<1> HIDE DEF a, b, r
<1>3. CASE b <= a
  <2>1. PICK d \in Nat : a = b + d
    BY <1>2, <1>3
  <2>2. QNum * a = QNum * b + QNum * d /\ QNum * d \in Nat
    BY <1>2, <2>1, Sizes
  <2> QED
    BY <1>2, <2>2, Sizes
<1>4. CASE b > a
  <2>1. PICK d \in Nat : b = a + 1 + d
    <3>1. b - a - 1 \in Nat /\ b = a + 1 + (b - a - 1)
      BY <1>2, <1>4
    <3> QED
      BY <3>1
  <2>2. QNum * b = QNum * a + QNum + QNum * d /\ QNum * d \in Nat
    BY <1>2, <2>1, Sizes
  <2> QED
    BY <1>2, <2>2, Sizes
<1> QED
  BY <1>2, <1>3, <1>4

\* The indices of a queue, and the entries of its rings.
Index == 0..IdxMod-1
Ring == [0..QNum-1 -> 0..QNum]

\* An index steps by one or wraps to zero.
LEMMA IncFacts ==
  ASSUME NEW i \in Index
  PROVE  /\ Inc(i) \in Index
         /\ Inc(i) = IF i + 1 = IdxMod THEN 0 ELSE i + 1
<1>1. CASE i + 1 = IdxMod
  <2>1. i + 1 \in IdxMod..(2 * IdxMod - 1)
    BY <1>1, Sizes
  <2> QED
    BY <1>1, <2>1, ModOver, Sizes DEF Inc, Index
<1>2. CASE i + 1 # IdxMod
  <2>1. i + 1 \in 0..IdxMod-1
    BY <1>2, Sizes DEF Index
  <2> QED
    BY <1>2, <2>1, ModSmall, Sizes DEF Inc, Index
<1> QED
  BY <1>1, <1>2

\* How far two indices are apart.
LEMMA GapFacts ==
  ASSUME NEW f \in Index, NEW t \in Index
  PROVE  /\ Gap(f, t) \in Index
         /\ Gap(f, t) = IF f <= t THEN t - f ELSE t + IdxMod - f
         /\ Gap(f, t) = 0 <=> f = t
<1>1. CASE f <= t
  <2>1. t + IdxMod - f \in IdxMod..(2 * IdxMod - 1)
    BY <1>1, Sizes DEF Index
  <2> QED
    BY <1>1, <2>1, ModOver, Sizes DEF Gap, Index
<1>2. CASE ~(f <= t)
  <2>1. t + IdxMod - f \in 0..IdxMod-1
    BY <1>2, Sizes DEF Index
  <2> QED
    BY <1>2, <2>1, ModSmall, Sizes DEF Gap, Index
<1> QED
  BY <1>1, <1>2

\* An index stands for an entry of the ring.
LEMMA SlotType ==
  ASSUME NEW i \in Nat
  PROVE  Slot(i) \in 0..QNum-1
  BY DivMod, Sizes DEF Slot

\* The index that a window ends at.
LEMMA SlotOfEnd ==
  ASSUME NEW f \in Index, NEW t \in Index
  PROVE  Slot(t) = Slot(f + Gap(f, t))
<1>1. CASE f <= t
  <2>1. f + Gap(f, t) = t
    BY <1>1, GapFacts, Sizes DEF Index
  <2> QED
    BY <2>1
<1>2. CASE ~(f <= t)
  <2>1. f + Gap(f, t) = t + IdxMod /\ t \in Nat
    BY <1>2, GapFacts, Sizes DEF Index
  <2> QED
    BY <2>1, SlotTurns
<1> QED
  BY <1>1, <1>2

\* The index that a window goes on from.
LEMMA SlotOfNext ==
  ASSUME NEW f \in Index, NEW i \in Nat \ {0}
  PROVE  Slot(Inc(f) + i - 1) = Slot(f + i)
<1>1. CASE f + 1 = IdxMod
  <2>1. Inc(f) + i - 1 = i - 1 /\ f + i = (i - 1) + IdxMod /\ i - 1 \in Nat
    BY <1>1, IncFacts, Sizes DEF Index
  <2> QED
    BY <2>1, SlotTurns
<1>2. CASE f + 1 # IdxMod
  <2>1. Inc(f) + i - 1 = f + i
    BY <1>2, IncFacts, Sizes DEF Index
  <2> QED
    BY <2>1
<1> QED
  BY <1>1, <1>2

-----------------------------------------------------------------------------
\* A function on 1..n is a sequence.
LEMMA FunctionIsSeq ==
  ASSUME NEW S, NEW n \in Nat, NEW s \in [1..n -> S]
  PROVE  s \in Seq(S)
  OBVIOUS

(* The entries between two indices.                                        *)

\* They are a sequence.
LEMMA EntriesFacts ==
  ASSUME NEW e \in Ring, NEW f \in Index, NEW t \in Index
  PROVE  /\ Entries(e, f, t) \in Seq(0..QNum)
         /\ Len(Entries(e, f, t)) = Gap(f, t)
         /\ \A i \in 1..Gap(f, t) : Entries(e, f, t)[i] = e[Slot(f + i - 1)]
         /\ Entries(e, f, t) = <<>> <=> f = t
<1>1. Gap(f, t) \in Nat /\ (Gap(f, t) = 0 <=> f = t)
  BY GapFacts, Sizes DEF Index
<1>2. ASSUME NEW i \in 1..Gap(f, t) PROVE e[Slot(f + i - 1)] \in 0..QNum
  <2>1. f + i - 1 \in Nat
    BY <1>1, Sizes DEF Index
  <2> QED
    BY <2>1, SlotType DEF Ring
<1> DEFINE s == [i \in 1..Gap(f, t) |-> e[Slot(f + i - 1)]]
<1>3. s \in Seq(0..QNum)
  <2>1. s \in [1..Gap(f, t) -> 0..QNum]
    BY <1>2
  <2> QED
    BY <1>1, <2>1, FunctionIsSeq
<1>4. Len(s) = Gap(f, t) /\ \A i \in 1..Gap(f, t) : s[i] = e[Slot(f + i - 1)]
  BY <1>1
<1>5. s = Entries(e, f, t)
  BY DEF Entries
<1> HIDE DEF s
<1>6. s = <<>> <=> Len(s) = 0
  BY <1>3, EmptySeq
<1> QED
  BY <1>1, <1>3, <1>4, <1>5, <1>6

\* Taking the first entry.
LEMMA EntriesTail ==
  ASSUME NEW e \in Ring, NEW f \in Index, NEW t \in Index, f # t
  PROVE  /\ Entries(e, f, t) # <<>>
         /\ Head(Entries(e, f, t)) = e[Slot(f)]
         /\ Entries(e, Inc(f), t) = Tail(Entries(e, f, t))
<1> DEFINE s == Entries(e, f, t)
           r == Entries(e, Inc(f), t)
<1>1. Inc(f) \in Index /\ f \in Nat
  BY IncFacts, Sizes DEF Index
<1>2. /\ s \in Seq(0..QNum) /\ Len(s) = Gap(f, t) /\ s # <<>>
      /\ \A i \in 1..Gap(f, t) : s[i] = e[Slot(f + i - 1)]
  BY EntriesFacts
<1>3. /\ r \in Seq(0..QNum) /\ Len(r) = Gap(Inc(f), t)
      /\ \A i \in 1..Gap(Inc(f), t) : r[i] = e[Slot(Inc(f) + i - 1)]
  <2>1. ASSUME NEW g \in Index
        PROVE  /\ Entries(e, g, t) \in Seq(0..QNum) /\ Len(Entries(e, g, t)) = Gap(g, t)
               /\ \A i \in 1..Gap(g, t) : Entries(e, g, t)[i] = e[Slot(g + i - 1)]
    BY EntriesFacts
  <2> QED
    BY <1>1, <2>1, Zenon
<1> HIDE DEF s, r
<1>4. Gap(f, t) \in Nat \ {0} /\ Gap(Inc(f), t) = Gap(f, t) - 1
  <2>1. /\ Gap(f, t) = IF f <= t THEN t - f ELSE t + IdxMod - f
        /\ Gap(Inc(f), t) = IF Inc(f) <= t THEN t - Inc(f) ELSE t + IdxMod - Inc(f)
    BY <1>1, GapFacts
  <2>2. Inc(f) = IF f + 1 = IdxMod THEN 0 ELSE f + 1
    BY IncFacts
  <2> QED
    BY <2>1, <2>2, Sizes DEF Index
<1>5. Head(s) = s[1] /\ s[1] = e[Slot(f)]
  <2>1. Head(s) = s[1]
    BY <1>2
  <2>2. s[1] = e[Slot(f + 1 - 1)] /\ f + 1 - 1 = f
    BY <1>1, <1>2, <1>4
  <2> QED
    BY <2>1, <2>2
<1>6. /\ Tail(s) \in Seq(0..QNum) /\ Len(Tail(s)) = Gap(f, t) - 1
      /\ \A i \in 1..(Gap(f, t) - 1) : Tail(s)[i] = s[i + 1]
  BY <1>2, HeadTailProperties
<1>7. ASSUME NEW i \in 1..Len(r) PROVE r[i] = Tail(s)[i]
  <2>1. i \in Nat \ {0} /\ i \in 1..(Gap(f, t) - 1) /\ i + 1 \in 1..Gap(f, t)
    BY <1>3, <1>4
  <2>2. r[i] = e[Slot(f + i)]
    BY <1>3, <2>1, SlotOfNext
  <2>3. s[i + 1] = e[Slot(f + (i + 1) - 1)] /\ f + (i + 1) - 1 = f + i
    BY <1>1, <1>2, <2>1
  <2> QED
    BY <1>6, <2>1, <2>2, <2>3
<1>8. r = Tail(s)
  BY <1>3, <1>4, <1>6, <1>7, SeqEqual
<1> QED
  BY <1>2, <1>5, <1>8 DEF s, r

\* Writing one more entry.
LEMMA EntriesAppend ==
  ASSUME NEW e \in Ring, NEW f \in Index, NEW t \in Index, Gap(f, t) < QNum, NEW c \in 0..QNum
  PROVE  /\ [e EXCEPT ![Slot(t)] = c] \in Ring
         /\ Entries([e EXCEPT ![Slot(t)] = c], f, Inc(t)) = Append(Entries(e, f, t), c)
<1> DEFINE d == [e EXCEPT ![Slot(t)] = c]
           s == Entries(e, f, t)
           r == Entries(d, f, Inc(t))
           g == Gap(f, t)
<1>0. f \in Nat /\ t \in Nat /\ g \in Nat
  BY GapFacts, Sizes DEF Index
<1>1. d \in Ring /\ Inc(t) \in Index
  BY IncFacts DEF Ring
<1>2. /\ d[Slot(t)] = c
      /\ \A k \in 0..QNum-1 : k # Slot(t) => d[k] = e[k]
  BY <1>0, SlotType DEF Ring
<1>3. /\ s \in Seq(0..QNum) /\ Len(s) = g
      /\ \A i \in 1..g : s[i] = e[Slot(f + i - 1)]
  BY EntriesFacts
<1> HIDE DEF d
<1>4. /\ r \in Seq(0..QNum) /\ Len(r) = Gap(f, Inc(t))
      /\ \A i \in 1..Gap(f, Inc(t)) : r[i] = d[Slot(f + i - 1)]
  BY <1>1, EntriesFacts
<1> HIDE DEF s, r
<1>5. Gap(f, Inc(t)) = g + 1
  <2>1. /\ g = IF f <= t THEN t - f ELSE t + IdxMod - f
        /\ Gap(f, Inc(t)) = IF f <= Inc(t) THEN Inc(t) - f ELSE Inc(t) + IdxMod - f
    BY <1>1, GapFacts
  <2>2. Inc(t) = IF t + 1 = IdxMod THEN 0 ELSE t + 1
    BY IncFacts
  <2> QED
    BY <2>1, <2>2, Sizes DEF Index
<1>6. Slot(t) = Slot(f + g)
  BY SlotOfEnd
<1> HIDE DEF g
<1>7. ASSUME NEW i \in 1..g PROVE r[i] = s[i]
  <2>1. /\ f + i - 1 \in Nat /\ f + g \in Nat /\ f + i - 1 < f + g
        /\ f + g < (f + i - 1) + QNum
    BY <1>0, Sizes DEF g
  <2>2. Slot(f + i - 1) # Slot(f + g) /\ Slot(f + i - 1) \in 0..QNum-1
    BY <2>1, SlotsDiffer, SlotType
  <2>3. i \in 1..(g + 1)
    BY <1>0
  <2> QED
    BY <1>2, <1>3, <1>4, <1>5, <1>6, <2>2, <2>3
<1>8. r[g + 1] = c
  <2>1. f + (g + 1) - 1 = f + g /\ g + 1 \in 1..(g + 1)
    BY <1>0
  <2> QED
    BY <1>2, <1>4, <1>5, <1>6, <2>1
<1>9. /\ Append(s, c) \in Seq(0..QNum) /\ Len(Append(s, c)) = g + 1
      /\ \A i \in 1..g : Append(s, c)[i] = s[i]
      /\ Append(s, c)[g + 1] = c
  BY <1>3, AppendProperties
<1>10. ASSUME NEW i \in 1..Len(r) PROVE r[i] = Append(s, c)[i]
  <2>1. i \in 1..g \/ i = g + 1
    BY <1>0, <1>4, <1>5
  <2> QED
    BY <1>7, <1>8, <1>9, <2>1
<1>11. r = Append(s, c)
  BY <1>4, <1>5, <1>9, <1>10, SeqEqual
<1> QED
  BY <1>1, <1>11 DEF d, s, r

-----------------------------------------------------------------------------
(* Where the chains of a driver are.                                       *)

\* Every chain is free, offered or returned, and in one place only.
Parted(fr, off, ret) ==
  /\ fr \subseteq Chains /\ off \in Seq(Chains) /\ ret \in Seq(Chains)
  /\ Len(off) + Len(ret) + Cardinality(fr) = QNum
  /\ \A i \in 1..Len(off) : off[i] \notin fr
  /\ \A i \in 1..Len(ret) : ret[i] \notin fr
  /\ \A i, j \in 1..Len(off) : off[i] = off[j] => i = j
  /\ \A i, j \in 1..Len(ret) : ret[i] = ret[j] => i = j
  /\ \A i \in 1..Len(off), j \in 1..Len(ret) : off[i] # ret[j]

\* The numbers that go with it.
LEMMA PartedNumbers ==
  ASSUME NEW fr, NEW off, NEW ret, Parted(fr, off, ret)
  PROVE  /\ IsFiniteSet(fr) /\ Cardinality(fr) \in Nat
         /\ Len(off) \in Nat /\ Len(ret) \in Nat
         /\ (fr # {} => Len(off) < QNum /\ Len(ret) < QNum)
         /\ (off # <<>> => Len(ret) < QNum)
<1>1. IsFiniteSet(Chains)
  BY Sizes, FS_Interval DEF Chains
<1>2. IsFiniteSet(fr)
  BY <1>1, FS_Subset DEF Parted
<1>3. Cardinality(fr) \in Nat /\ (fr # {} => Cardinality(fr) # 0)
  BY <1>2, FS_CardinalityType, FS_EmptySet
<1>4. Len(off) \in Nat /\ Len(ret) \in Nat /\ (off # <<>> => Len(off) # 0)
  BY EmptySeq DEF Parted
<1>5. Len(off) + Len(ret) + Cardinality(fr) = QNum
  BY DEF Parted
<1> QED
  BY <1>2, <1>3, <1>4, <1>5, Sizes

\* At first the driver has them all.
LEMMA PartedAtFirst == Parted(Chains, <<>>, <<>>)
<1>1. Cardinality(Chains) = QNum
  <2>1. 1 \in Int /\ QNum \in Int /\ ~(1 > QNum)
    BY Sizes
  <2>2. Cardinality(1..QNum) = QNum - 1 + 1
    BY <2>1, FS_Interval
  <2> QED
    BY <2>1, <2>2 DEF Chains
<1>2. <<>> \in Seq(Chains) /\ Len(<<>>) = 0
  OBVIOUS
<1>3. 0 + 0 + QNum = QNum
  BY Sizes
<1>4. \A i \in 1..0 : FALSE
  OBVIOUS
<1> QED
  BY <1>1, <1>2, <1>3, <1>4 DEF Parted

\* Offering a free chain.
LEMMA PartedOffer ==
  ASSUME NEW fr, NEW off, NEW ret, Parted(fr, off, ret), NEW c \in fr
  PROVE  Parted(fr \ {c}, Append(off, c), ret)
<1> DEFINE new == Append(off, c)
<1>0. c \in Chains /\ off \in Seq(Chains)
  BY DEF Parted
<1>1. /\ new \in Seq(Chains) /\ Len(new) = Len(off) + 1
      /\ \A i \in 1..Len(off) : new[i] = off[i]
      /\ new[Len(off) + 1] = c
  BY <1>0, AppendProperties
<1> HIDE DEF new
<1>2. Cardinality(fr \ {c}) = Cardinality(fr) - 1
  BY PartedNumbers, FS_RemoveElement
<1>3. Len(off) \in Nat /\ Len(ret) \in Nat /\ Cardinality(fr) \in Nat
  BY PartedNumbers
<1>4. Len(new) + Len(ret) + Cardinality(fr \ {c}) = QNum
  <2>1. Len(off) + Len(ret) + Cardinality(fr) = QNum
    BY DEF Parted
  <2> QED
    BY <1>1, <1>2, <1>3, <2>1
<1>5. \A i \in 1..Len(new) : i \in 1..Len(off) \/ i = Len(off) + 1
  BY <1>1, <1>3
<1>6. \A i \in 1..Len(off) : off[i] # c /\ \A j \in 1..Len(ret) : ret[j] # c
  BY DEF Parted
<1>7. \A i \in 1..Len(new) : new[i] \notin fr \ {c}
  BY <1>1, <1>5 DEF Parted
<1>8. \A i, j \in 1..Len(new) : new[i] = new[j] => i = j
  BY <1>1, <1>5, <1>6 DEF Parted
<1>9. \A i \in 1..Len(new), j \in 1..Len(ret) : new[i] # ret[j]
  BY <1>1, <1>5 DEF Parted
<1>10. Parted(fr \ {c}, new, ret)
  BY <1>1, <1>4, <1>7, <1>8, <1>9 DEF Parted
<1> QED
  BY <1>10 DEF new

\* Returning the oldest one.
LEMMA PartedReturn ==
  ASSUME NEW fr, NEW off, NEW ret, Parted(fr, off, ret), off # <<>>
  PROVE  Parted(fr, Tail(off), Append(ret, Head(off)))
<1> DEFINE new == Append(ret, Head(off))
           rest == Tail(off)
<1>0. Len(off) \in Nat \ {0} /\ Len(ret) \in Nat /\ Cardinality(fr) \in Nat
  BY PartedNumbers, EmptySeq DEF Parted
<1>1. off \in Seq(Chains) /\ ret \in Seq(Chains)
  BY DEF Parted
<1>2. /\ Head(off) = off[1] /\ Head(off) \in Chains
      /\ rest \in Seq(Chains) /\ Len(rest) = Len(off) - 1
      /\ \A i \in 1..Len(rest) : rest[i] = off[i + 1]
  BY <1>1, HeadTailProperties
<1>3. /\ new \in Seq(Chains) /\ Len(new) = Len(ret) + 1
      /\ \A i \in 1..Len(ret) : new[i] = ret[i]
      /\ new[Len(ret) + 1] = off[1]
  BY <1>1, <1>2, AppendProperties
<1> HIDE DEF new, rest
<1>4. Len(rest) + Len(new) + Cardinality(fr) = QNum
  <2>1. Len(off) + Len(ret) + Cardinality(fr) = QNum
    BY DEF Parted
  <2> QED
    BY <1>0, <1>2, <1>3, <2>1
<1>5. /\ \A i \in 1..Len(new) : i \in 1..Len(ret) \/ i = Len(ret) + 1
      /\ \A i \in 1..Len(rest) : i + 1 \in 1..Len(off) /\ i + 1 # 1
      /\ \A i, j \in 1..Len(rest) : i + 1 = j + 1 => i = j
      /\ 1 \in 1..Len(off)
  BY <1>0, <1>2, <1>3
<1>6. \A i \in 1..Len(new) : new[i] \notin fr
  BY <1>3, <1>5 DEF Parted
<1>7. \A i \in 1..Len(rest) : rest[i] \notin fr
  BY <1>2, <1>5 DEF Parted
<1>8. \A i, j \in 1..Len(rest) : rest[i] = rest[j] => i = j
  BY <1>2, <1>5 DEF Parted
<1>9. \A i, j \in 1..Len(new) : new[i] = new[j] => i = j
  BY <1>3, <1>5 DEF Parted
<1>10. \A i \in 1..Len(rest), j \in 1..Len(new) : rest[i] # new[j]
  BY <1>2, <1>3, <1>5 DEF Parted
<1>11. Parted(fr, rest, new)
  BY <1>2, <1>3, <1>4, <1>6, <1>7, <1>8, <1>9, <1>10 DEF Parted
<1> QED
  BY <1>11 DEF new, rest

\* Collecting the oldest one.
LEMMA PartedCollect ==
  ASSUME NEW fr, NEW off, NEW ret, Parted(fr, off, ret), ret # <<>>
  PROVE  Parted(fr \cup {Head(ret)}, off, Tail(ret))
<1> DEFINE rest == Tail(ret)
           c == ret[1]
<1>0. Len(ret) \in Nat \ {0} /\ Len(off) \in Nat /\ Cardinality(fr) \in Nat /\ IsFiniteSet(fr)
  BY PartedNumbers, EmptySeq DEF Parted
<1>1. ret \in Seq(Chains)
  BY DEF Parted
<1>2. /\ Head(ret) = c /\ c \in Chains
      /\ rest \in Seq(Chains) /\ Len(rest) = Len(ret) - 1
      /\ \A i \in 1..Len(rest) : rest[i] = ret[i + 1]
  BY <1>1, HeadTailProperties
<1> HIDE DEF rest
<1>3. 1 \in 1..Len(ret) /\ c \notin fr
  BY <1>0 DEF Parted
<1>4. Cardinality(fr \cup {c}) = Cardinality(fr) + 1
  BY <1>0, <1>3, FS_AddElement
<1>5. Len(off) + Len(rest) + Cardinality(fr \cup {c}) = QNum
  <2>1. Len(off) + Len(ret) + Cardinality(fr) = QNum
    BY DEF Parted
  <2> QED
    BY <1>0, <1>2, <1>4, <2>1
<1>6. /\ \A i \in 1..Len(rest) : i + 1 \in 1..Len(ret) /\ i + 1 # 1
      /\ \A i, j \in 1..Len(rest) : i + 1 = j + 1 => i = j
  BY <1>0, <1>2
<1>7. \A i \in 1..Len(off) : off[i] \notin fr \cup {c}
  BY <1>3 DEF Parted
<1>8. \A i \in 1..Len(rest) : rest[i] \notin fr \cup {c}
  BY <1>2, <1>3, <1>6 DEF Parted
<1>9. \A i, j \in 1..Len(rest) : rest[i] = rest[j] => i = j
  BY <1>2, <1>6 DEF Parted
<1>10. \A i \in 1..Len(off), j \in 1..Len(rest) : off[i] # rest[j]
  BY <1>2, <1>6 DEF Parted
<1>11. Parted(fr \cup {c}, off, rest)
  BY <1>2, <1>5, <1>7, <1>8, <1>9, <1>10 DEF Parted
<1> QED
  BY <1>2, <1>11 DEF rest
-----------------------------------------------------------------------------
(* The inductive invariant.                                                *)

\* Types of all the variables.
MmioTypes == [status : {"reset", "driver", "ok"}, ready : BOOLEAN, stat : {0, 1},
              efd : BOOLEAN, vhost : {"off", "setup", "on", "failed"}]
RingTypes == [avail : Ring, aidx : Index, used : Ring, uidx : Index]
GuestTypes == [free : [Queues -> SUBSET Chains], seen : [Queues -> Index],
               isr : BOOLEAN, kick : BOOLEAN, got : Nat]
Positions == InCritical \cup {"none", "wait", "lock", "poll", "more", "rxlock"}
QTypes ==
  /\ kind \in Kinds /\ mmio \in MmioTypes
  /\ last \in [Queues -> Index] /\ mutex \in [Queues -> Workers \cup {Nobody}]
  /\ ring \in [Queues -> RingTypes]
  /\ pc \in [Workers -> Positions]
  /\ chain \in [Workers -> 0..QNum]
  /\ did \in [Workers -> BOOLEAN]
  /\ token \in BOOLEAN /\ lostKick \in BOOLEAN
  /\ tap \in Nat /\ pkt \in [RxServer -> Nat] /\ buf \in [Chains -> Nat]
  /\ guest \in GuestTypes
  /\ posts \in Nat /\ resets \in Nat

\* Where a goroutine of each sort can be, and who serves which device.
Places ==
  /\ \A w \in RxServer :
       pc[w] \in {"none", "poll", "more", "rxlock", "handle", "used", "stat", "efd"}
  /\ \A w \in Server : pc[w] \in {"none", "wait", "lock"} \cup InCritical
  /\ pc[Kernel] \in {"none"} \cup InCritical
  /\ pc[Kernel] # "none" => mmio.vhost = "on"
  /\ mmio.vhost = "on" => kind = "vhost"
  /\ kind = "vhost" => \A w \in Server \cup RxServer : pc[w] = "none"

\* The registers: a queue is set up from the reset of the device to the next.
Registers ==
  /\ mmio.ready <=> mmio.status # "reset"
  /\ mmio.vhost \in {"setup", "on"} => mmio.status = "ok"
  /\ ~mmio.ready => \A q \in Queues : last[q] = 0
  /\ \A w \in Workers : Inside(w) /\ pc[w] # "unlock" => mmio.ready

\* A goroutine between Lock and Unlock is the one that has locked.
Locks == \A w \in Workers : Inside(w) => mutex[Serving(w)] = w

\* A goroutine works on the oldest chain on offer.
Holds ==
  \A w \in Workers : pc[w] \in {"handle", "used"} =>
    Offered(Serving(w)) # <<>> /\ chain[w] = Head(Offered(Serving(w)))

\* Every chain is in one place.
Placed == \A q \in Queues : Parted(Free(q), Offered(q), Returned(q))

\* w has put something into the used ring since its last interrupt, and has
\* not raised the bit for it yet.
Owes(w) == did[w] /\ pc[w] \in {"read", "handle", "used", "more", "rxlock", "stat"}

\* Between the bit and the eventfd.
Raises(w) == did[w] /\ pc[w] = "efd"

\* Why the driver of q will look at its used ring: InterruptPending, where a
\* worker between the bit and the eventfd counts only while the bit is set.
Cause(q) ==
  \/ guest.isr
  \/ mmio.stat = 1 /\ mmio.efd
  \/ \E w \in Workers : Serving(w) = q /\ (Owes(w) \/ (Raises(w) /\ mmio.stat = 1))
Signalled == \A q \in Queues : Returned(q) # <<>> => Cause(q)

\* Packets are numbered as they are read from the TAP.
Counted ==
  /\ tap <= Bounds[kind].packets
  /\ guest.got <= tap
  /\ \A c \in Chains : buf[c] <= tap
  /\ \A w \in RxServer : pkt[w] <= tap
  /\ (\A w \in RxServer : pc[w] = "none") => tap = 0

\* Until the first reset there is one rxLoop.
OneLoop ==
  resets = 0 =>
    /\ \A v, w \in RxServer : pc[v] # "none" /\ pc[w] # "none" => v = w
    /\ \A w \in RxServer : pc[w] # "none" => mmio.status = "ok" /\ mmio.vhost # "setup"

\* n comes after every packet in the used ring and after the last one received.
Later(n) == n > guest.got /\ \A i \in 1..Len(Returned(Rx)) : buf[Returned(Rx)[i]] < n

\* What is returned is in order, and what the loop has read comes after it.
InOrder ==
  resets = 0 =>
    /\ \A i \in 1..Len(Returned(Rx)) : buf[Returned(Rx)[i]] > guest.got
    /\ \A i, j \in 1..Len(Returned(Rx)) : i < j => buf[Returned(Rx)[i]] < buf[Returned(Rx)[j]]
    /\ \A w \in RxServer : pc[w] \in {"rxlock", "handle"} => Later(pkt[w])
    /\ \A w \in RxServer : pc[w] = "used" => Later(buf[chain[w]])

QueueInv ==
  /\ QTypes /\ Places /\ Registers /\ Locks /\ Holds /\ Placed /\ Signalled
  /\ Counted /\ OneLoop /\ InOrder


\* The two queues, and who serves them.
LEMMA QueueNames == Req \in Queues /\ Rx \in Queues /\ Req # Rx /\ \A w : Serving(w) \in Queues
  BY DEF Queues, Req, Rx, Serving

\* The kernel's worker is no goroutine, and nobody is no worker.
LEMMA WorkerNames ==
  /\ Server \subseteq Workers /\ RxServer \subseteq Workers /\ Kernel \in Workers
  /\ Kernel \notin Server /\ Kernel \notin RxServer /\ Nobody \notin Workers
  /\ \A w \in RxServer : w \notin Server /\ Serving(w) = Rx
  /\ \A w \in Server \cup {Kernel} : Serving(w) = Req
  BY VirtqueueAssumption DEF Workers, Kernel, Nobody, Serving, Req, Rx

\* Who serves, the registers and the mutex.
LEMMA ControlStep ==
  ASSUME QueueInv, [VQNext]_vqVars, TornResets = FALSE
  PROVE  Places' /\ Registers' /\ Locks'
<1>0. /\ pc \in [Workers -> Positions] /\ mmio \in MmioTypes
      /\ last \in [Queues -> Index] /\ mutex \in [Queues -> Workers \cup {Nobody}]
      /\ Places /\ Registers /\ Locks
  BY DEF QueueInv, QTypes
<1> USE <1>0, QueueNames, WorkerNames DEF Places, Registers, Locks, Inside, InCritical, Workers, Positions, MmioTypes
<1>1. CASE SetupQueues
  BY <1>1 DEF SetupQueues
<1>2. CASE DriverOK
  BY <1>2 DEF DriverOK
<1>3. CASE SetupVhost
  BY <1>3 DEF SetupVhost
<1>4. CASE SetupVhostNet
  <2>1. CASE kind' = "vhost" /\ pc' = pc /\ \A w \in Workers : pc[w] = "none"
    BY <1>4, <2>1 DEF SetupVhostNet
  <2>2. ASSUME NEW u \in Server, NEW v \in RxServer, pc[u] = "none", pc[v] = "none",
               kind' = kind, mmio' = [mmio EXCEPT !.vhost = "off"],
               pc' = [pc EXCEPT ![u] = "wait", ![v] = "poll"]
        PROVE  Places' /\ Registers' /\ Locks'
    <3>1. /\ pc'[u] = "wait" /\ pc'[v] = "poll"
          /\ \A w \in Workers \ {u, v} : pc'[w] = pc[w]
      BY <2>2
    <3>2. UNCHANGED <<last, mutex>>
      BY <1>4 DEF SetupVhostNet
    <3>3. Places'
      BY <1>4, <2>2, <3>1 DEF SetupVhostNet
    <3>4. Registers'
      BY <1>4, <2>2, <3>1, <3>2
    <3>5. Locks'
      BY <2>2, <3>1, <3>2
    <3> QED
      BY <3>3, <3>4, <3>5
  <2> QED
    BY <1>4, <2>1, <2>2 DEF SetupVhostNet
<1>5. ASSUME NEW q \in Queues, NEW c \in Chains, Post(q, c) PROVE Places' /\ Registers' /\ Locks'
  BY <1>5 DEF Post
<1>6. CASE Notify
  <2>1. CASE pc' = pc
    BY <1>6, <2>1 DEF Notify
  <2>2. ASSUME NEW w \in Server, pc[w] = "none", kind = "blk", pc' = [pc EXCEPT ![w] = "lock"]
        PROVE  Places' /\ Registers' /\ Locks'
    BY <1>6, <2>2 DEF Notify
  <2> QED
    BY <1>6, <2>1, <2>2 DEF Notify
<1>7. CASE Interrupt
  BY <1>7 DEF Interrupt
<1>8. CASE InterruptReturns
  BY <1>8 DEF InterruptReturns
<1>9. CASE Reset
  BY <1>9 DEF Reset
<1>10. ASSUME NEW q \in Queues, CollectUsed(q) PROVE Places' /\ Registers' /\ Locks'
  BY <1>10 DEF CollectUsed
<1>11. CASE KernelWakes
  BY <1>11 DEF KernelWakes
<1>12. ASSUME NEW w \in Workers, Wake(w) PROVE Places' /\ Registers' /\ Locks'
  BY <1>12 DEF Wake
<1>13. ASSUME NEW w \in Workers, LockQueue(w) PROVE Places' /\ Registers' /\ Locks'
  BY <1>13 DEF LockQueue
<1>14. ASSUME NEW w \in Workers, TakeChain(w) PROVE Places' /\ Registers' /\ Locks'
  <2>1. Places'
    BY <1>14 DEF TakeChain
  <2>2. Registers'
    BY <1>14 DEF TakeChain
  <2>3. Locks'
    BY <1>14 DEF TakeChain
  <2> QED
    BY <2>1, <2>2, <2>3
<1>15. ASSUME NEW w \in Workers, Handle(w) PROVE Places' /\ Registers' /\ Locks'
  BY <1>15 DEF Handle
<1>16. ASSUME NEW w \in Workers, PutUsed(w) PROVE Places' /\ Registers' /\ Locks'
  <2>1. mmio.ready /\ pc[w] = "used"
    BY <1>16 DEF PutUsed
  <2>2. CASE w \in RxServer
    <3>1. /\ pc' = [pc EXCEPT ![w] = "more"] /\ mutex' = [mutex EXCEPT ![Rx] = Nobody]
          /\ last' = [last EXCEPT ![Rx] = Inc(@)] /\ UNCHANGED <<mmio, kind>>
      BY <1>16, <2>1, <2>2 DEF PutUsed
    <3> QED
      BY <2>1, <2>2, <3>1
  <2>3. CASE w \notin RxServer
    <3>1. /\ pc' = [pc EXCEPT ![w] = "read"] /\ mutex' = mutex
          /\ last' = [last EXCEPT ![Req] = Inc(@)] /\ UNCHANGED <<mmio, kind>>
      BY <1>16, <2>1, <2>3 DEF PutUsed
    <3> QED
      BY <2>1, <2>3, <3>1
  <2> QED
    BY <2>2, <2>3
<1>17. ASSUME NEW w \in Workers, RaiseStat(w) PROVE Places' /\ Registers' /\ Locks'
  BY <1>17 DEF RaiseStat
<1>18. ASSUME NEW w \in Workers, SignalEfd(w) PROVE Places' /\ Registers' /\ Locks'
  <2>1. Places'
    BY <1>18 DEF SignalEfd
  <2>2. Registers'
    BY <1>18 DEF SignalEfd
  <2>3. Locks'
    BY <1>18 DEF SignalEfd
  <2> QED
    BY <2>1, <2>2, <2>3
<1>19. ASSUME NEW w \in Workers, UnlockQueue(w) PROVE Places' /\ Registers' /\ Locks'
  <2>1. w \notin RxServer /\ pc[w] = "unlock" /\ mutex[Req] = w
    BY <1>19 DEF UnlockQueue
  <2>2. /\ mutex' = [mutex EXCEPT ![Req] = Nobody] /\ UNCHANGED <<mmio, kind, last>>
        /\ pc' = [pc EXCEPT ![w] = IF kind = "net" THEN "wait" ELSE "none"]
    BY <1>19, <2>1 DEF UnlockQueue
  <2>3. Places'
    BY <2>1, <2>2
  <2>4. Registers'
    BY <2>1, <2>2
  <2>5. Locks'
    BY <2>1, <2>2
  <2> QED
    BY <2>3, <2>4, <2>5
<1>20. ASSUME NEW w \in Workers, BatchEnds(w) PROVE Places' /\ Registers' /\ Locks'
  BY <1>20 DEF BatchEnds
<1>21. ASSUME NEW w \in Workers, RxTake(w) PROVE Places' /\ Registers' /\ Locks'
  <2>1. Places'
    BY <1>21 DEF RxTake
  <2>2. Registers'
    BY <1>21 DEF RxTake
  <2>3. Locks'
    BY <1>21 DEF RxTake
  <2> QED
    BY <2>1, <2>2, <2>3
<1>22. ASSUME NEW w \in Workers, RxCopy(w) PROVE Places' /\ Registers' /\ Locks'
  BY <1>22 DEF RxCopy
<1>23. ASSUME NEW w \in RxServer, ReadPacket(w) PROVE Places' /\ Registers' /\ Locks'
  BY <1>23 DEF ReadPacket
<1>24. CASE UNCHANGED vqVars
  BY <1>24 DEF vqVars
<1> QED
  BY <1>1, <1>2, <1>3, <1>4, <1>5, <1>6, <1>7, <1>8, <1>9, <1>10, <1>11, <1>12, <1>13, <1>14, <1>15, <1>16, <1>17, <1>18, <1>19, <1>20, <1>21, <1>22, <1>23, <1>24 DEF VQNext, Serve

-----------------------------------------------------------------------------
(* The refinement, one queue at a time.                                    *)

\* A step of RequestQueue, or a stutter, for queue q.
Moves(q) ==
  \/ UNCHANGED <<Free(q), Offered(q), Worked(q), Returned(q)>>
  \/ \E c \in Chains :
       /\ c \in Free(q)
       /\ Free(q)' = Free(q) \ {c}
       /\ Offered(q)' = Append(Offered(q), c)
       /\ UNCHANGED <<Worked(q), Returned(q)>>
  \/ /\ Offered(q) # <<>>
     /\ ~Worked(q)
     /\ Worked(q)' = TRUE
     /\ UNCHANGED <<Free(q), Offered(q), Returned(q)>>
  \/ /\ Offered(q) # <<>>
     /\ Worked(q)
     /\ Returned(q)' = Append(Returned(q), Head(Offered(q)))
     /\ Offered(q)' = Tail(Offered(q))
     /\ Worked(q)' = FALSE
     /\ UNCHANGED Free(q)
  \/ /\ Returned(q) # <<>>
     /\ Free(q)' = Free(q) \cup {Head(Returned(q))}
     /\ Returned(q)' = Tail(Returned(q))
     /\ UNCHANGED <<Offered(q), Worked(q)>>
  \/ /\ Free(q)' = Chains
     /\ Offered(q)' = <<>>
     /\ Worked(q)' = FALSE
     /\ Returned(q)' = <<>>

\* The part of a queue that its driver sees is left alone.
SameQueue(q) ==
  /\ mmio'.ready = mmio.ready
  /\ ring'[q] = ring[q] /\ last'[q] = last[q]
  /\ guest'.free[q] = guest.free[q] /\ guest'.seen[q] = guest.seen[q]

\* Nothing but that part decides the queue's free, offered and returned chains.
LEMMA SameView ==
  ASSUME NEW q \in Queues, SameQueue(q)
  PROVE  UNCHANGED <<Free(q), Offered(q), Returned(q)>>
  BY DEF SameQueue, Free, Offered, Returned, Entries

\* Nor does a worker that neither begins nor ends its work on a chain.
LEMMA SameWork ==
  ASSUME NEW q \in Queues,
         \A w \in Workers : Serving(w) = q => (pc'[w] = "used" <=> pc[w] = "used")
  PROVE  UNCHANGED Worked(q)
  BY Zenon DEF Worked, Serving

\* Both together are a stutter of the queue.
LEMMA SameMove ==
  ASSUME NEW q \in Queues, SameQueue(q),
         \A w \in Workers : Serving(w) = q => (pc'[w] = "used" <=> pc[w] = "used")
  PROVE  Moves(q)
  BY SameView, SameWork DEF Moves

\* The two rings of a queue that is set up, as sequences of chains.
LEMMA QueueView ==
  ASSUME QTypes, Placed, NEW q \in Queues, mmio.ready
  PROVE  /\ Free(q) = guest.free[q]
         /\ Offered(q) = Entries(ring[q].avail, last[q], ring[q].aidx)
         /\ Returned(q) = Entries(ring[q].used, guest.seen[q], ring[q].uidx)
         /\ ring[q].avail \in Ring /\ ring[q].used \in Ring
         /\ {last[q], ring[q].aidx, guest.seen[q], ring[q].uidx} \subseteq Index
         /\ Parted(Free(q), Offered(q), Returned(q))
         /\ Len(Offered(q)) = Gap(last[q], ring[q].aidx)
         /\ Len(Returned(q)) = Gap(guest.seen[q], ring[q].uidx)
<1>1. ring[q] \in [avail : Ring, aidx : Index, used : Ring, uidx : Index]
  BY DEF QTypes, RingTypes
<1>2. last[q] \in Index /\ guest.seen[q] \in Index
  BY DEF QTypes, GuestTypes
<1>3. /\ Free(q) = guest.free[q]
      /\ Offered(q) = Entries(ring[q].avail, last[q], ring[q].aidx)
      /\ Returned(q) = Entries(ring[q].used, guest.seen[q], ring[q].uidx)
  BY DEF Free, Offered, Returned
<1>4. ring[q].avail \in Ring /\ ring[q].used \in Ring /\ ring[q].aidx \in Index /\ ring[q].uidx \in Index
  BY <1>1
<1>5. /\ Len(Entries(ring[q].avail, last[q], ring[q].aidx)) = Gap(last[q], ring[q].aidx)
      /\ Len(Entries(ring[q].used, guest.seen[q], ring[q].uidx)) = Gap(guest.seen[q], ring[q].uidx)
  <2>1. Len(Entries(ring[q].avail, last[q], ring[q].aidx)) = Gap(last[q], ring[q].aidx)
    BY <1>2, <1>4, EntriesFacts, SMTT(30)
  <2>2. Len(Entries(ring[q].used, guest.seen[q], ring[q].uidx)) = Gap(guest.seen[q], ring[q].uidx)
    BY <1>2, <1>4, EntriesFacts, SMTT(30)
  <2> QED
    BY <2>1, <2>2
<1> QED
  BY <1>2, <1>3, <1>4, <1>5 DEF Placed

\* Posting leaves the used ring alone.
LEMMA PostKeepsUsed ==
  ASSUME QTypes, NEW q \in Queues, NEW c \in Chains, Post(q, c), NEW p \in Queues
  PROVE  ring'[p].used = ring[p].used /\ ring'[p].uidx = ring[p].uidx
<1>1. ring[p] \in RingTypes /\ ring[q] \in RingTypes /\ DOMAIN ring = Queues
  BY DEF QTypes
<1> QED
  BY <1>1 DEF Post, RingTypes

\* A chain is put into the used ring: the queue returns its oldest chain.
LEMMA PutUsedEffect ==
  ASSUME QueueInv, NEW w \in Workers, PutUsed(w), NEW q \in Queues, q = Serving(w)
  PROVE  /\ mmio.ready /\ pc[w] = "used" /\ Offered(q) # <<>> /\ chain[w] = Head(Offered(q))
         /\ pc' = [pc EXCEPT ![w] = IF w \in RxServer THEN "more" ELSE "read"]
         /\ UNCHANGED <<mmio, guest>>
         /\ Free(q)' = Free(q) /\ Offered(q)' = Tail(Offered(q))
         /\ Returned(q)' = Append(Returned(q), Head(Offered(q)))
         /\ \A p \in Queues \ {q} : SameQueue(p)
<1> DEFINE e == [ring[q].used EXCEPT ![Slot(ring[q].uidx)] = chain[w]]
<1>0. QTypes /\ Registers /\ Holds /\ Placed
  BY DEF QueueInv
<1>1. mmio.ready /\ pc[w] = "used"
  BY <1>0 DEF PutUsed, Registers, Inside, InCritical
<1>2. /\ ring' = [ring EXCEPT ![q] = [ring[q] EXCEPT !.used = e, !.uidx = Inc(ring[q].uidx)]]
      /\ last' = [last EXCEPT ![q] = Inc(last[q])]
      /\ pc' = [pc EXCEPT ![w] = IF w \in RxServer THEN "more" ELSE "read"]
      /\ mmio' = mmio /\ guest' = guest
  BY <1>1 DEF PutUsed
<1>3. ring \in [Queues -> RingTypes] /\ last \in [Queues -> Index]
  BY <1>0 DEF QTypes
<1>4. ASSUME NEW p \in Queues \ {q} PROVE SameQueue(p)
  <2>1. ring'[p] = ring[p] /\ last'[p] = last[p]
    BY <1>2, <1>3
  <2> QED
    BY <1>2, <2>1 DEF SameQueue
<1>5. /\ ring'[q].avail = ring[q].avail /\ ring'[q].aidx = ring[q].aidx
      /\ ring'[q].used = e /\ ring'[q].uidx = Inc(ring[q].uidx)
      /\ last'[q] = Inc(last[q])
  BY <1>2, <1>3 DEF RingTypes
<1>6. Offered(q) # <<>> /\ chain[w] = Head(Offered(q))
  BY <1>0, <1>1 DEF Holds
<1>7. last[q] # ring[q].aidx
  BY <1>0, <1>1, <1>6, QueueView, EntriesFacts
<1>8. Entries(ring[q].avail, Inc(last[q]), ring[q].aidx) = Tail(Offered(q))
  BY <1>0, <1>1, <1>7, QueueView, EntriesTail, SMTT(30)
<1>9. Entries(e, guest.seen[q], Inc(ring[q].uidx)) = Append(Returned(q), chain[w])
  <2>1. ring[q].used \in Ring /\ guest.seen[q] \in Index /\ ring[q].uidx \in Index
    BY <1>0, <1>1, QueueView
  <2>2. Gap(guest.seen[q], ring[q].uidx) < QNum
    BY <1>0, <1>1, <1>6, QueueView, PartedNumbers
  <2>3. chain[w] \in 0..QNum
    BY <1>0 DEF QTypes
  <2>4. Entries(e, guest.seen[q], Inc(ring[q].uidx))
          = Append(Entries(ring[q].used, guest.seen[q], ring[q].uidx), chain[w])
    BY <2>1, <2>2, <2>3, EntriesAppend, ZenonT(40)
  <2> QED
    BY <1>0, <1>1, <2>4, QueueView
<1> HIDE DEF e
<1>10. Free(q)' = Free(q) /\ Offered(q)' = Tail(Offered(q))
  BY <1>1, <1>2, <1>5, <1>8 DEF Free, Offered
<1>11. Returned(q)' = Append(Returned(q), Head(Offered(q)))
  BY <1>1, <1>2, <1>5, <1>6, <1>9 DEF Returned
<1> QED
  BY <1>1, <1>2, <1>4, <1>6, <1>10, <1>11

\* The step of one queue.
LEMMA MoveStep ==
  ASSUME QueueInv, [VQNext]_vqVars, TornResets = FALSE, NEW p \in Queues
  PROVE  Moves(p)
<1>0. /\ QTypes /\ Places /\ Registers /\ Locks /\ Holds /\ Placed
  BY DEF QueueInv
<1>a. \A v \in Workers : pc[v] \in {"handle", "used"} => mmio.ready /\ Inside(v)
  BY <1>0 DEF Registers, Inside, InCritical
<1>b. \A v, w \in Workers : Inside(v) /\ Inside(w) /\ Serving(v) = Serving(w) => v = w
  BY <1>0 DEF Locks
<1>c. pc \in [Workers -> Positions]
  BY <1>0 DEF QTypes
<1>d. RxServer \subseteq Workers /\ Server \subseteq Workers /\ Kernel \in Workers
  BY WorkerNames
<1>1. CASE SetupQueues
  <2>1. /\ ~mmio.ready /\ mmio'.ready /\ last'[p] = 0
        /\ guest'.free[p] = Chains /\ guest'.seen[p] = 0 /\ ring'[p] = EmptyRing /\ pc' = pc
    BY <1>1, <1>0 DEF SetupQueues, QTypes, RingTypes, GuestTypes, MmioTypes, Registers
  <2>2. Free(p) = Chains /\ Offered(p) = <<>> /\ Returned(p) = <<>> /\ Free(p)' = Chains
    BY <2>1 DEF Free, Offered, Returned
  <2>3. EmptyRing.avail \in Ring /\ EmptyRing.used \in Ring /\ 0 \in Index
    BY Sizes DEF EmptyRing, Ring, Index
  <2>4. Entries(EmptyRing.avail, 0, 0) = <<>> /\ Entries(EmptyRing.used, 0, 0) = <<>>
    BY <2>3, EntriesFacts
  <2>5. Offered(p)' = <<>> /\ Returned(p)' = <<>>
    BY <2>1, <2>4 DEF Offered, Returned, EmptyRing
  <2>6. UNCHANGED Worked(p)
    BY <2>1, SameWork
  <2> QED
    BY <2>2, <2>5, <2>6 DEF Moves
<1>2. CASE DriverOK
  <2>1. SameQueue(p)
    BY <1>2, <1>0 DEF DriverOK, QTypes, MmioTypes, GuestTypes, SameQueue
  <2>2. \A v \in Workers : pc'[v] = "used" <=> pc[v] = "used"
    BY <1>2, <1>c, <1>d DEF DriverOK, InCritical, Positions
  <2> QED
    BY <2>1, <2>2, SameMove
<1>3. CASE SetupVhost
  <2>1. SameQueue(p)
    BY <1>3, <1>0 DEF SetupVhost, QTypes, MmioTypes, GuestTypes, SameQueue
  <2>2. \A v \in Workers : pc'[v] = "used" <=> pc[v] = "used"
    BY <1>3, <1>c, <1>d DEF SetupVhost, InCritical, Positions
  <2> QED
    BY <2>1, <2>2, SameMove
<1>4. CASE SetupVhostNet
  <2>1. SameQueue(p)
    BY <1>4, <1>0 DEF SetupVhostNet, QTypes, MmioTypes, GuestTypes, SameQueue
  <2>2. \A v \in Workers : pc'[v] = "used" <=> pc[v] = "used"
    BY <1>4, <1>c, <1>d DEF SetupVhostNet, InCritical, Positions
  <2> QED
    BY <2>1, <2>2, SameMove
<1>5. ASSUME NEW q \in Queues, NEW c \in Chains, Post(q, c) PROVE Moves(p)
  <2> DEFINE e == [ring[q].avail EXCEPT ![Slot(ring[q].aidx)] = c]
  <2>0. mmio.ready /\ mmio' = mmio /\ c \in guest.free[q] /\ last' = last /\ pc' = pc
    BY <1>5, <1>0 DEF Post, Registers
  <2>1. /\ ring' = [ring EXCEPT ![q] = [ring[q] EXCEPT !.avail = e, !.aidx = Inc(ring[q].aidx)]]
        /\ guest'.free = [guest.free EXCEPT ![q] = guest.free[q] \ {c}]
        /\ guest'.seen = guest.seen
    BY <1>5, <1>0 DEF Post, QTypes, RingTypes, GuestTypes, MmioTypes
  <2>2. CASE p # q
    <3>1. /\ DOMAIN ring = Queues
          /\ guest.free \in [Queues -> SUBSET Chains] /\ guest.seen \in [Queues -> Index]
      BY <1>0 DEF QTypes, GuestTypes
    <3>2. ring'[p] = ring[p]
      BY <2>0, <2>1, <2>2, <3>1
    <3>3. guest'.free[p] = guest.free[p] /\ guest'.seen[p] = guest.seen[p]
      BY <2>1, <2>2, <3>1
    <3>4. SameQueue(p)
      BY <2>0, <3>2, <3>3 DEF SameQueue
    <3> QED
      BY <2>0, <3>4, SameMove
  <2>3. CASE p = q
    <3>1. /\ ring'[q].avail = e /\ ring'[q].aidx = Inc(ring[q].aidx)
          /\ ring'[q].used = ring[q].used /\ ring'[q].uidx = ring[q].uidx
          /\ guest'.free[q] = guest.free[q] \ {c}
      BY <1>0, <2>1 DEF QTypes, RingTypes, GuestTypes
    <3>2. Gap(last[q], ring[q].aidx) < QNum
      BY <1>0, <2>0, QueueView, PartedNumbers
    <3>3. c \in 0..QNum
      BY Sizes DEF Chains
    <3>4. Entries(e, last[q], Inc(ring[q].aidx)) = Append(Entries(ring[q].avail, last[q], ring[q].aidx), c)
      <4>1. ring[q].avail \in Ring /\ last[q] \in Index /\ ring[q].aidx \in Index
        BY <1>0, <2>0, QueueView
      <4> QED
        BY <3>2, <3>3, <4>1, EntriesAppend
    <3> HIDE DEF e
    <3>5. /\ Free(q)' = Free(q) \ {c} /\ c \in Free(q)
          /\ Offered(q)' = Append(Offered(q), c) /\ Returned(q)' = Returned(q)
      BY <2>0, <2>1, <3>1, <3>4 DEF Free, Offered, Returned
    <3>6. UNCHANGED Worked(q)
      BY <2>0, SameWork
    <3> QED
      BY <2>3, <3>5, <3>6 DEF Moves
  <2> QED
    BY <2>2, <2>3
<1>6. CASE Notify
  <2>1. SameQueue(p)
    BY <1>6, <1>0 DEF Notify, QTypes, MmioTypes, GuestTypes, SameQueue
  <2>2. \A v \in Workers : pc'[v] = "used" <=> pc[v] = "used"
    BY <1>6, <1>c, <1>d DEF Notify, InCritical, Positions
  <2> QED
    BY <2>1, <2>2, SameMove
<1>7. CASE Interrupt
  <2>1. SameQueue(p)
    BY <1>7, <1>0 DEF Interrupt, QTypes, MmioTypes, GuestTypes, SameQueue
  <2>2. \A v \in Workers : pc'[v] = "used" <=> pc[v] = "used"
    BY <1>7, <1>c, <1>d DEF Interrupt, InCritical, Positions
  <2> QED
    BY <2>1, <2>2, SameMove
<1>8. CASE InterruptReturns
  <2>1. SameQueue(p)
    BY <1>8, <1>0 DEF InterruptReturns, QTypes, MmioTypes, GuestTypes, SameQueue
  <2>2. \A v \in Workers : pc'[v] = "used" <=> pc[v] = "used"
    BY <1>8, <1>c, <1>d DEF InterruptReturns, InCritical, Positions
  <2> QED
    BY <2>1, <2>2, SameMove
<1>9. CASE Reset
  <2>1. mmio'.ready = FALSE /\ pc' = pc /\ \A w \in Workers : ~Inside(w)
    BY <1>9, <1>0 DEF Reset, QTypes, RingTypes, GuestTypes, MmioTypes
  <2>2. Free(p)' = Chains /\ Offered(p)' = <<>> /\ Returned(p)' = <<>>
    BY <2>1 DEF Free, Offered, Returned
  <2>3. \A w \in Workers : pc'[w] # "used"
    BY <1>a, <2>1
  <2>4. Worked(p)' = FALSE
    BY <2>3 DEF Worked
  <2> QED
    BY <2>2, <2>4 DEF Moves
<1>10. ASSUME NEW q \in Queues, CollectUsed(q) PROVE Moves(p)
  <2> DEFINE c == ring[q].used[Slot(guest.seen[q])]
  <2>0. mmio.ready /\ mmio' = mmio /\ last' = last /\ pc' = pc /\ ring' = ring
        /\ guest.seen[q] # ring[q].uidx
    BY <1>10 DEF CollectUsed
  <2>1. /\ guest'.free = [guest.free EXCEPT ![q] = guest.free[q] \cup {c}]
        /\ guest'.seen = [guest.seen EXCEPT ![q] = Inc(guest.seen[q])]
    BY <1>10, <1>0 DEF CollectUsed, QTypes, RingTypes, GuestTypes, MmioTypes
  <2>2. CASE p # q
    <3>1. /\ DOMAIN ring = Queues
          /\ guest.free \in [Queues -> SUBSET Chains] /\ guest.seen \in [Queues -> Index]
      BY <1>0 DEF QTypes, GuestTypes
    <3>2. ring'[p] = ring[p]
      BY <2>0, <2>1, <2>2, <3>1
    <3>3. guest'.free[p] = guest.free[p] /\ guest'.seen[p] = guest.seen[p]
      BY <2>1, <2>2, <3>1
    <3>4. SameQueue(p)
      BY <2>0, <3>2, <3>3 DEF SameQueue
    <3> QED
      BY <2>0, <3>4, SameMove
  <2>3. CASE p = q
    <3>1. guest'.free[q] = guest.free[q] \cup {c} /\ guest'.seen[q] = Inc(guest.seen[q])
      BY <1>0, <2>1 DEF QTypes, RingTypes, GuestTypes
    <3>2. /\ Returned(q) # <<>> /\ Head(Returned(q)) = c
          /\ Entries(ring[q].used, Inc(guest.seen[q]), ring[q].uidx) = Tail(Returned(q))
      BY <1>0, <2>0, QueueView, EntriesTail
    <3> HIDE DEF c
    <3>3. /\ Free(q)' = Free(q) \cup {c} /\ Offered(q)' = Offered(q)
          /\ Returned(q)' = Tail(Returned(q))
      BY <2>0, <3>1, <3>2 DEF Free, Offered, Returned
    <3>4. UNCHANGED Worked(q)
      BY <2>0, SameWork
    <3> QED
      BY <2>3, <3>2, <3>3, <3>4 DEF Moves
  <2> QED
    BY <2>2, <2>3
<1>11. CASE KernelWakes
  <2>1. SameQueue(p)
    BY <1>11, <1>0 DEF KernelWakes, QTypes, MmioTypes, GuestTypes, SameQueue
  <2>2. \A v \in Workers : pc'[v] = "used" <=> pc[v] = "used"
    BY <1>11, <1>c, <1>d DEF KernelWakes, InCritical, Positions
  <2> QED
    BY <2>1, <2>2, SameMove
<1>12. ASSUME NEW w \in Workers, Wake(w) PROVE Moves(p)
  <2>1. SameQueue(p)
    BY <1>12, <1>0 DEF Wake, QTypes, MmioTypes, GuestTypes, SameQueue
  <2>2. \A v \in Workers : pc'[v] = "used" <=> pc[v] = "used"
    BY <1>12, <1>c, <1>d DEF Wake, InCritical, Positions
  <2> QED
    BY <2>1, <2>2, SameMove
<1>13. ASSUME NEW w \in Workers, LockQueue(w) PROVE Moves(p)
  <2>1. SameQueue(p)
    BY <1>13, <1>0 DEF LockQueue, QTypes, MmioTypes, GuestTypes, SameQueue
  <2>2. \A v \in Workers : pc'[v] = "used" <=> pc[v] = "used"
    BY <1>13, <1>c, <1>d DEF LockQueue, InCritical, Positions
  <2> QED
    BY <2>1, <2>2, SameMove
<1>14. ASSUME NEW w \in Workers, TakeChain(w) PROVE Moves(p)
  <2>1. SameQueue(p)
    BY <1>14, <1>0 DEF TakeChain, QTypes, MmioTypes, GuestTypes, SameQueue
  <2>2. \A v \in Workers : pc'[v] = "used" <=> pc[v] = "used"
    BY <1>14, <1>c, <1>d DEF TakeChain, InCritical, Positions
  <2> QED
    BY <2>1, <2>2, SameMove
<1>15. ASSUME NEW w \in Workers, Handle(w) PROVE Moves(p)
  <2>1. SameQueue(p)
    BY <1>15 DEF Handle, SameQueue
  <2>2. pc[w] = "handle" /\ pc' = [pc EXCEPT ![w] = "used"]
    BY <1>15 DEF Handle
  <2>3. CASE p # Serving(w)
    <3>1. \A v \in Workers : Serving(v) = p => (pc'[v] = "used" <=> pc[v] = "used")
      BY <1>c, <2>2, <2>3
    <3> QED
      BY <2>1, <3>1, SameMove
  <2>4. CASE p = Serving(w)
    <3>1. \A v \in Workers : Serving(v) = p => pc[v] # "used"
      BY <1>a, <1>b, <2>2, <2>4
    <3>2. Worked(p)' = TRUE /\ ~Worked(p)
      <4>1. pc'[w] = "used"
        BY <1>c, <2>2
      <4>2. Worked(p)'
        BY <2>4, <4>1 DEF Worked, Serving
      <4>3. Worked(p)' \in BOOLEAN
        BY DEF Worked
      <4> QED
        BY <3>1, <4>2, <4>3 DEF Worked
    <3>3. Offered(p) # <<>>
      BY <1>0, <2>2, <2>4 DEF Holds
    <3> QED
      BY <2>1, <3>2, <3>3, SameView DEF Moves
  <2> QED
    BY <2>3, <2>4
<1>16. ASSUME NEW w \in Workers, PutUsed(w) PROVE Moves(p)
  <2>0. PICK q \in Queues : q = Serving(w)
    BY QueueNames
  <2>1. /\ pc[w] = "used" /\ Offered(q) # <<>> /\ \A r \in Queues \ {q} : SameQueue(r)
        /\ pc' = [pc EXCEPT ![w] = IF w \in RxServer THEN "more" ELSE "read"]
        /\ Free(q)' = Free(q) /\ Offered(q)' = Tail(Offered(q))
        /\ Returned(q)' = Append(Returned(q), Head(Offered(q)))
    BY <1>16, <2>0, PutUsedEffect
  <2>2. CASE p # q
    <3>1. \A v \in Workers : Serving(v) = p => (pc'[v] = "used" <=> pc[v] = "used")
      BY <1>c, <2>0, <2>1, <2>2
    <3> QED
      BY <2>1, <2>2, <3>1, SameMove
  <2>3. CASE p = q
    <3>1. Worked(q)
      BY <2>0, <2>1 DEF Worked
    <3>2. Worked(q)' = FALSE
      <4>1. \A v \in Workers : Serving(v) = q => pc'[v] # "used"
        BY <1>a, <1>b, <1>c, <2>0, <2>1
      <4> QED
        BY <4>1 DEF Worked, Serving
    <3> QED
      BY <2>1, <2>3, <3>1, <3>2 DEF Moves
  <2> QED
    BY <2>2, <2>3
<1>17. ASSUME NEW w \in Workers, RaiseStat(w) PROVE Moves(p)
  <2>1. SameQueue(p)
    BY <1>17, <1>0 DEF RaiseStat, QTypes, MmioTypes, GuestTypes, SameQueue
  <2>2. \A v \in Workers : pc'[v] = "used" <=> pc[v] = "used"
    BY <1>17, <1>c, <1>d DEF RaiseStat, InCritical, Positions
  <2> QED
    BY <2>1, <2>2, SameMove
<1>18. ASSUME NEW w \in Workers, SignalEfd(w) PROVE Moves(p)
  <2>1. SameQueue(p)
    BY <1>18, <1>0 DEF SignalEfd, QTypes, MmioTypes, GuestTypes, SameQueue
  <2>2. \A v \in Workers : pc'[v] = "used" <=> pc[v] = "used"
    BY <1>18, <1>c, <1>d DEF SignalEfd, InCritical, Positions
  <2> QED
    BY <2>1, <2>2, SameMove
<1>19. ASSUME NEW w \in Workers, UnlockQueue(w) PROVE Moves(p)
  <2>1. SameQueue(p)
    BY <1>19, <1>0 DEF UnlockQueue, QTypes, MmioTypes, GuestTypes, SameQueue
  <2>2. \A v \in Workers : pc'[v] = "used" <=> pc[v] = "used"
    BY <1>19, <1>c, <1>d DEF UnlockQueue, InCritical, Positions
  <2> QED
    BY <2>1, <2>2, SameMove
<1>20. ASSUME NEW w \in Workers, BatchEnds(w) PROVE Moves(p)
  <2>1. SameQueue(p)
    BY <1>20, <1>0 DEF BatchEnds, QTypes, MmioTypes, GuestTypes, SameQueue
  <2>2. \A v \in Workers : pc'[v] = "used" <=> pc[v] = "used"
    BY <1>20, <1>c, <1>d DEF BatchEnds, InCritical, Positions
  <2> QED
    BY <2>1, <2>2, SameMove
<1>21. ASSUME NEW w \in Workers, RxTake(w) PROVE Moves(p)
  <2>1. SameQueue(p)
    BY <1>21, <1>0 DEF RxTake, QTypes, MmioTypes, GuestTypes, SameQueue
  <2>2. \A v \in Workers : pc'[v] = "used" <=> pc[v] = "used"
    BY <1>21, <1>c, <1>d DEF RxTake, InCritical, Positions
  <2> QED
    BY <2>1, <2>2, SameMove
<1>22. ASSUME NEW w \in Workers, RxCopy(w) PROVE Moves(p)
  <2>1. SameQueue(p)
    BY <1>22 DEF RxCopy, SameQueue
  <2>2. pc[w] = "handle" /\ pc' = [pc EXCEPT ![w] = "used"]
    BY <1>22 DEF RxCopy
  <2>3. CASE p # Serving(w)
    <3>1. \A v \in Workers : Serving(v) = p => (pc'[v] = "used" <=> pc[v] = "used")
      BY <1>c, <2>2, <2>3
    <3> QED
      BY <2>1, <3>1, SameMove
  <2>4. CASE p = Serving(w)
    <3>1. \A v \in Workers : Serving(v) = p => pc[v] # "used"
      BY <1>a, <1>b, <2>2, <2>4
    <3>2. Worked(p)' = TRUE /\ ~Worked(p)
      <4>1. pc'[w] = "used"
        BY <1>c, <2>2
      <4>2. Worked(p)'
        BY <2>4, <4>1 DEF Worked, Serving
      <4>3. Worked(p)' \in BOOLEAN
        BY DEF Worked
      <4> QED
        BY <3>1, <4>2, <4>3 DEF Worked
    <3>3. Offered(p) # <<>>
      BY <1>0, <2>2, <2>4 DEF Holds
    <3> QED
      BY <2>1, <3>2, <3>3, SameView DEF Moves
  <2> QED
    BY <2>3, <2>4
<1>23. ASSUME NEW w \in RxServer, ReadPacket(w) PROVE Moves(p)
  <2>1. SameQueue(p)
    BY <1>23, <1>0 DEF ReadPacket, QTypes, MmioTypes, GuestTypes, SameQueue
  <2>2. \A v \in Workers : pc'[v] = "used" <=> pc[v] = "used"
    BY <1>23, <1>c, <1>d DEF ReadPacket, InCritical, Positions
  <2> QED
    BY <2>1, <2>2, SameMove
<1>24. CASE UNCHANGED vqVars
  <2>1. SameQueue(p)
    BY <1>24, <1>0 DEF vqVars, QTypes, MmioTypes, GuestTypes, SameQueue
  <2>2. \A v \in Workers : pc'[v] = "used" <=> pc[v] = "used"
    BY <1>24, <1>c, <1>d DEF vqVars, InCritical, Positions
  <2> QED
    BY <2>1, <2>2, SameMove
<1> QED
  BY <1>1, <1>2, <1>3, <1>4, <1>5, <1>6, <1>7, <1>8, <1>9, <1>10, <1>11, <1>12, <1>13, <1>14, <1>15, <1>16, <1>17, <1>18, <1>19, <1>20, <1>21, <1>22, <1>23, <1>24 DEF VQNext, Serve

\* A move keeps every chain in one place.
LEMMA PlacedStep ==
  ASSUME Placed, \A q \in Queues : Moves(q)
  PROVE  Placed'
<1>1. ASSUME NEW q \in Queues PROVE Parted(Free(q), Offered(q), Returned(q))'
  <2>1. Parted(Free(q), Offered(q), Returned(q)) /\ Moves(q)
    BY DEF Placed
  <2>2. CASE UNCHANGED <<Free(q), Offered(q), Returned(q)>>
    BY <2>1, <2>2
  <2>3. ASSUME NEW c \in Free(q), Free(q)' = Free(q) \ {c}, UNCHANGED Returned(q),
               Offered(q)' = Append(Offered(q), c)
        PROVE  Parted(Free(q), Offered(q), Returned(q))'
    BY <2>1, <2>3, PartedOffer
  <2>4. CASE /\ Offered(q) # <<>> /\ UNCHANGED Free(q) /\ Offered(q)' = Tail(Offered(q))
             /\ Returned(q)' = Append(Returned(q), Head(Offered(q)))
    BY <2>1, <2>4, PartedReturn
  <2>5. CASE /\ Returned(q) # <<>> /\ Free(q)' = Free(q) \cup {Head(Returned(q))}
             /\ Returned(q)' = Tail(Returned(q)) /\ UNCHANGED Offered(q)
    BY <2>1, <2>5, PartedCollect
  <2>6. CASE Free(q)' = Chains /\ Offered(q)' = <<>> /\ Returned(q)' = <<>>
    BY <2>6, PartedAtFirst
  <2> QED
    BY <2>1, <2>2, <2>3, <2>4, <2>5, <2>6 DEF Moves
<1> QED
  BY <1>1 DEF Placed

\* The types of all the variables.
LEMMA TypesStep ==
  ASSUME QueueInv, [VQNext]_vqVars, TornResets = FALSE
  PROVE  QTypes'
<1>0. /\ QTypes /\ Places /\ Registers /\ Locks /\ Holds /\ Placed
  BY DEF QueueInv
<1>a. RxServer \subseteq Workers /\ Server \subseteq Workers /\ Kernel \in Workers /\ Req \in Queues /\ Rx \in Queues
  BY QueueNames, WorkerNames
<1>b. \A w \in Workers : pc[w] \in {"handle", "used"} => mmio.ready
  BY <1>0 DEF Registers, Inside, InCritical
<1>c. 0 \in Index /\ Chains \subseteq 0..QNum
  BY Sizes DEF Index, Chains
<1> USE <1>0, <1>a DEF QTypes
<1>1. CASE SetupQueues
  <2>1. mmio' \in MmioTypes
    BY <1>1 DEF SetupQueues, MmioTypes
  <2>2. EmptyRing \in RingTypes
    BY <1>c, Sizes DEF EmptyRing, RingTypes, Ring
  <2>3. ring' \in [Queues -> RingTypes]
    BY <1>1, <2>2 DEF SetupQueues
  <2>4. guest' \in GuestTypes
    BY <1>1, <1>c DEF SetupQueues, GuestTypes
  <2> QED
    BY <1>1, <2>1, <2>3, <2>4 DEF SetupQueues
<1>2. CASE DriverOK
  BY <1>2 DEF DriverOK, Positions, InCritical, MmioTypes, GuestTypes
<1>3. CASE SetupVhost
  BY <1>3 DEF SetupVhost, Positions, InCritical, MmioTypes, GuestTypes
<1>4. CASE SetupVhostNet
  <2>1. kind' \in Kinds
    <3>1. "net" \in Kinds => "vhost" \in Kinds
      BY VirtqueueAssumption, Zenon
    <3> QED
      BY <1>4, <3>1 DEF SetupVhostNet
  <2>2. mmio' \in MmioTypes
    BY <1>4 DEF SetupVhostNet, MmioTypes
  <2>3. pc' \in [Workers -> Positions]
    BY <1>4 DEF SetupVhostNet, Positions
  <2>4. token' \in BOOLEAN /\ lostKick' \in BOOLEAN
    BY <1>4 DEF SetupVhostNet
  <2> QED
    BY <1>4, <2>1, <2>2, <2>3, <2>4 DEF SetupVhostNet
<1>5. ASSUME NEW q \in Queues, NEW c \in Chains, Post(q, c) PROVE QTypes'
  <2> DEFINE e == [ring[q].avail EXCEPT ![Slot(ring[q].aidx)] = c]
  <2>1. ring' = [ring EXCEPT ![q] = [ring[q] EXCEPT !.avail = e, !.aidx = Inc(ring[q].aidx)]]
    BY <1>5 DEF Post
  <2>2. ring[q] \in RingTypes
    OBVIOUS
  <2>3. e \in Ring /\ Inc(ring[q].aidx) \in Index
    BY <1>c, <2>2, IncFacts DEF RingTypes, Ring
  <2> HIDE DEF e
  <2>4. ring' \in [Queues -> RingTypes]
    BY <2>1, <2>2, <2>3 DEF RingTypes
  <2>5. guest' \in GuestTypes
    BY <1>5 DEF Post, GuestTypes
  <2>6. posts' \in Nat
    BY <1>5 DEF Post
  <2> QED
    BY <1>5, <2>4, <2>5, <2>6 DEF Post
<1>6. CASE Notify
  <2>1. guest' \in GuestTypes
    BY <1>6 DEF Notify, GuestTypes
  <2>2. pc' \in [Workers -> Positions]
    BY <1>6 DEF Notify, Positions
  <2>3. token' \in BOOLEAN /\ lostKick' \in BOOLEAN
    BY <1>6 DEF Notify
  <2> QED
    BY <1>6, <2>1, <2>2, <2>3 DEF Notify
<1>7. CASE Interrupt
  <2>1. guest' \in GuestTypes
    BY <1>7 DEF Interrupt, GuestTypes
  <2>2. mmio' \in MmioTypes
    BY <1>7 DEF Interrupt, MmioTypes
  <2> QED
    BY <1>7, <2>1, <2>2 DEF Interrupt
<1>8. CASE InterruptReturns
  BY <1>8, ZenonT(40) DEF InterruptReturns, Positions, InCritical, MmioTypes, GuestTypes
<1>9. CASE Reset
  <2>1. guest' \in GuestTypes
    BY <1>9 DEF Reset, GuestTypes
  <2>2. mmio' \in MmioTypes
    BY <1>9 DEF Reset, MmioTypes
  <2>3. last' \in [Queues -> Index] /\ mutex' \in [Queues -> Workers \cup {Nobody}] /\ resets' \in Nat
    BY <1>9, <1>c DEF Reset
  <2> QED
    BY <1>9, <2>1, <2>2, <2>3 DEF Reset
<1>10. ASSUME NEW q \in Queues, CollectUsed(q) PROVE QTypes'
  <2> DEFINE c == ring[q].used[Slot(guest.seen[q])]
  <2>1. mmio.ready /\ guest.seen[q] # ring[q].uidx
    BY <1>10 DEF CollectUsed
  <2>2. c \in Chains
    <3>1. Returned(q) # <<>> /\ Head(Returned(q)) = c
      BY <2>1, QueueView, EntriesTail
    <3>2. Returned(q) \in Seq(Chains)
      BY DEF Placed, Parted
    <3> QED
      BY <3>1, <3>2, HeadTailProperties
  <2>3. buf[c] \in Nat
    BY <2>2
  <2>4. Inc(guest.seen[q]) \in Index
    BY IncFacts DEF GuestTypes
  <2>5. /\ guest' = [guest EXCEPT !.free[q] = guest.free[q] \cup {c}, !.seen[q] = Inc(guest.seen[q]),
                                  !.got = IF q = Rx THEN buf[c] ELSE guest.got]
        /\ buf' = IF q = Rx THEN [buf EXCEPT ![c] = 0] ELSE buf
    BY <1>10 DEF CollectUsed
  <2> HIDE DEF c
  <2>6. guest' \in GuestTypes
    BY <2>2, <2>3, <2>4, <2>5 DEF GuestTypes
  <2>7. buf' \in [Chains -> Nat]
    BY <2>5
  <2> QED
    BY <1>10, <2>6, <2>7 DEF CollectUsed
<1>11. CASE KernelWakes
  BY <1>11 DEF KernelWakes, Positions, InCritical, MmioTypes, GuestTypes
<1>12. ASSUME NEW w \in Workers, Wake(w) PROVE QTypes'
  BY <1>12, ZenonT(40) DEF Wake, Positions, InCritical, MmioTypes, GuestTypes
<1>13. ASSUME NEW w \in Workers, LockQueue(w) PROVE QTypes'
  BY <1>13 DEF LockQueue, Positions, InCritical, MmioTypes, GuestTypes
<1>14. ASSUME NEW w \in Workers, TakeChain(w) PROVE QTypes'
  <2>1. ring[Req].avail[Slot(last[Req])] \in 0..QNum
    <3>1. last[Req] \in Nat /\ ring[Req].avail \in Ring
      BY Sizes DEF Index, RingTypes
    <3> QED
      BY <3>1, SlotType DEF Ring
  <2>2. chain' \in [Workers -> 0..QNum] /\ pc' \in [Workers -> Positions]
    BY <1>14, <2>1 DEF TakeChain, Positions, InCritical
  <2> QED
    BY <1>14, <2>2 DEF TakeChain
<1>15. ASSUME NEW w \in Workers, Handle(w) PROVE QTypes'
  BY <1>15 DEF Handle, Positions, InCritical, MmioTypes, GuestTypes
<1>16. ASSUME NEW w \in Workers, PutUsed(w) PROVE QTypes'
  <2> DEFINE q == Serving(w)
             e == [ring[q].used EXCEPT ![Slot(ring[q].uidx)] = chain[w]]
  <2>1. q \in Queues /\ mmio.ready /\ pc[w] = "used"
    BY <1>16, <1>b, QueueNames DEF PutUsed
  <2>2. /\ ring' = [ring EXCEPT ![q] = [ring[q] EXCEPT !.used = e, !.uidx = Inc(ring[q].uidx)]]
        /\ last' = [last EXCEPT ![q] = Inc(last[q])]
    BY <1>16, <2>1 DEF PutUsed
  <2>3. ring[q] \in RingTypes
    BY <2>1
  <2>4. e \in Ring /\ Inc(ring[q].uidx) \in Index
    BY <2>3, IncFacts DEF RingTypes, Ring
  <2>5. Inc(last[q]) \in Index
    BY <2>1, IncFacts
  <2>6. /\ did' \in [Workers -> BOOLEAN] /\ pc' \in [Workers -> Positions]
        /\ mutex' \in [Queues -> Workers \cup {Nobody}]
    BY <1>16, <2>1, ZenonT(40) DEF PutUsed, Positions, InCritical
  <2>7. chain' \in [Workers -> 0..QNum]
    BY <1>16, <2>1, Sizes DEF PutUsed
  <2>8. UNCHANGED <<kind, mmio, token, lostKick, tap, pkt, buf, guest, posts, resets>>
    BY <1>16, <2>1 DEF PutUsed
  <2> HIDE DEF e, q
  <2>9. ring' \in [Queues -> RingTypes]
    BY <2>1, <2>2, <2>3, <2>4 DEF RingTypes
  <2>10. last' \in [Queues -> Index]
    BY <2>1, <2>2, <2>5
  <2> QED
    BY <2>6, <2>7, <2>8, <2>9, <2>10
<1>17. ASSUME NEW w \in Workers, RaiseStat(w) PROVE QTypes'
  BY <1>17 DEF RaiseStat, Positions, InCritical, MmioTypes, GuestTypes
<1>18. ASSUME NEW w \in Workers, SignalEfd(w) PROVE QTypes'
  BY <1>18 DEF SignalEfd, Positions, InCritical, MmioTypes, GuestTypes
<1>19. ASSUME NEW w \in Workers, UnlockQueue(w) PROVE QTypes'
  <2>1. mutex[Req] # Nobody
    BY <1>19, WorkerNames DEF UnlockQueue, Locks, Inside, InCritical, Places, Workers
  <2>2. mutex' \in [Queues -> Workers \cup {Nobody}] /\ pc' \in [Workers -> Positions]
    BY <1>19, <2>1 DEF UnlockQueue, Positions
  <2> QED
    BY <1>19, <2>1, <2>2 DEF UnlockQueue
<1>20. ASSUME NEW w \in Workers, BatchEnds(w) PROVE QTypes'
  BY <1>20 DEF BatchEnds, Positions, InCritical, MmioTypes, GuestTypes
<1>21. ASSUME NEW w \in Workers, RxTake(w) PROVE QTypes'
  <2>1. ring[Rx].avail[Slot(last[Rx])] \in 0..QNum
    <3>1. last[Rx] \in Nat /\ ring[Rx].avail \in Ring
      BY Sizes DEF Index, RingTypes
    <3> QED
      BY <3>1, SlotType DEF Ring
  <2>2. chain' \in [Workers -> 0..QNum] /\ pc' \in [Workers -> Positions]
    BY <1>21, <2>1 DEF RxTake, Positions, InCritical
  <2>3. w \in RxServer /\ pkt' \in [RxServer -> Nat]
    BY <1>21 DEF RxTake, Places, InCritical, Workers
  <2>4. mutex' \in [Queues -> Workers \cup {Nobody}]
    BY <1>21 DEF RxTake
  <2> QED
    BY <1>21, <2>2, <2>3, <2>4 DEF RxTake
<1>22. ASSUME NEW w \in Workers, RxCopy(w) PROVE QTypes'
  BY <1>22, ZenonT(40) DEF RxCopy, Positions, InCritical, MmioTypes, GuestTypes
<1>23. ASSUME NEW w \in RxServer, ReadPacket(w) PROVE QTypes'
  BY <1>23 DEF ReadPacket, Positions, InCritical, MmioTypes, GuestTypes
<1>24. CASE UNCHANGED vqVars
  BY <1>24 DEF vqVars
<1> QED
  BY <1>1, <1>2, <1>3, <1>4, <1>5, <1>6, <1>7, <1>8, <1>9, <1>10, <1>11, <1>12, <1>13, <1>14, <1>15, <1>16, <1>17, <1>18, <1>19, <1>20, <1>21, <1>22, <1>23, <1>24 DEF VQNext, Serve

\* A goroutine keeps the chain it works on, the oldest on offer.
LEMMA HoldsStep ==
  ASSUME QueueInv, [VQNext]_vqVars, TornResets = FALSE
  PROVE  Holds'
<1>0. QTypes /\ Places /\ Registers /\ Locks /\ Holds /\ Placed
  BY DEF QueueInv
<1> DEFINE Busy(v) == pc[v] \in {"handle", "used"}
           Kept(v) == Busy(v) /\ chain'[v] = chain[v]
<1>a. \A v \in Workers : Busy(v) => mmio.ready /\ Inside(v)
  BY <1>0 DEF Registers, Inside, InCritical
<1>b. \A v, w \in Workers : Inside(v) /\ Inside(w) /\ Serving(v) = Serving(w) => v = w
  BY <1>0 DEF Locks
<1>c. pc \in [Workers -> Positions] /\ chain \in [Workers -> 0..QNum] /\ ring \in [Queues -> RingTypes]
  BY <1>0 DEF QTypes
<1>d. RxServer \subseteq Workers /\ Server \subseteq Workers /\ Kernel \in Workers
  BY WorkerNames
<1>e. ASSUME NEW v \in Workers, Kept(v), SameQueue(Serving(v))
      PROVE  Offered(Serving(v))' # <<>> /\ chain'[v] = Head(Offered(Serving(v)))'
  BY <1>0, <1>e, SameView, QueueNames DEF Holds
<1>f. ASSUME \A v \in Workers : (Busy(v))' => Kept(v) /\ SameQueue(Serving(v))
      PROVE  Holds'
  BY <1>e, <1>f DEF Holds, Serving
<1>1. CASE SetupQueues
  <2>1. ~mmio.ready /\ pc' = pc
    BY <1>1, <1>0 DEF SetupQueues, Registers
  <2> QED
    BY <1>a, <2>1 DEF Holds
<1>2. CASE DriverOK
  <2>1. \A v \in Workers : (Busy(v))' => Kept(v)
    BY <1>2, <1>c, <1>d DEF DriverOK, InCritical, Positions
  <2>2. \A p \in Queues : SameQueue(p)
    BY <1>2, <1>0 DEF DriverOK, QTypes, MmioTypes, GuestTypes, SameQueue
  <2> QED
    BY <1>f, <2>1, <2>2, QueueNames
<1>3. CASE SetupVhost
  <2>1. \A v \in Workers : (Busy(v))' => Kept(v)
    BY <1>3, <1>c, <1>d DEF SetupVhost, InCritical, Positions
  <2>2. \A p \in Queues : SameQueue(p)
    BY <1>3, <1>0 DEF SetupVhost, QTypes, MmioTypes, GuestTypes, SameQueue
  <2> QED
    BY <1>f, <2>1, <2>2, QueueNames
<1>4. CASE SetupVhostNet
  <2>1. \A v \in Workers : (Busy(v))' => Kept(v)
    BY <1>4, <1>c, <1>d DEF SetupVhostNet, InCritical, Positions
  <2>2. \A p \in Queues : SameQueue(p)
    BY <1>4, <1>0 DEF SetupVhostNet, QTypes, MmioTypes, GuestTypes, SameQueue
  <2> QED
    BY <1>f, <2>1, <2>2, QueueNames
<1>5. ASSUME NEW q \in Queues, NEW c \in Chains, Post(q, c) PROVE Holds'
  <2>1. pc' = pc /\ chain' = chain
    BY <1>5 DEF Post
  <2>2. ASSUME NEW v \in Workers, Busy(v), NEW p \in Queues, p = Serving(v)
        PROVE  Offered(p)' # <<>> /\ chain[v] = Head(Offered(p)')
    <3>1. Offered(p) # <<>> /\ chain[v] = Head(Offered(p))
      BY <1>0, <2>2 DEF Holds
    <3>2. Offered(p)' = Offered(p) \/ \E d \in Chains : Offered(p)' = Append(Offered(p), d)
      <4> DEFINE e == [ring[q].avail EXCEPT ![Slot(ring[q].aidx)] = c]
      <4>1. /\ mmio.ready /\ mmio' = mmio /\ last' = last /\ c \in guest.free[q]
            /\ ring' = [ring EXCEPT ![q] = [ring[q] EXCEPT !.avail = e, !.aidx = Inc(ring[q].aidx)]]
        BY <1>5, <1>0 DEF Post, Registers
      <4>2. CASE p # q
        <5>1. ring'[p] = ring[p]
          BY <1>c, <3>1, <4>1, <4>2
        <5>2. mmio' = mmio /\ last' = last
          BY <4>1
        <5>3. Offered(p)' = Offered(p)
          BY <5>1, <5>2 DEF Offered
        <5> QED
          BY <5>3
      <4>3. CASE p = q
        <5>1. ring'[q].avail = e /\ ring'[q].aidx = Inc(ring[q].aidx)
          BY <1>c, <4>1 DEF RingTypes
        <5>2. /\ ring[q].avail \in Ring /\ last[q] \in Index /\ ring[q].aidx \in Index
              /\ Gap(last[q], ring[q].aidx) < QNum
          BY <1>0, <4>1, QueueView, PartedNumbers
        <5>3. c \in 0..QNum
          BY Sizes DEF Chains
        <5>4. Entries(e, last[q], Inc(ring[q].aidx)) = Append(Entries(ring[q].avail, last[q], ring[q].aidx), c)
          BY <5>2, <5>3, EntriesAppend
        <5> HIDE DEF e
        <5> QED
          BY <4>1, <4>3, <5>1, <5>4 DEF Offered
      <4> QED
        BY <4>2, <4>3
    <3>3. Offered(p) \in Seq(Chains)
      BY <1>0, <3>1 DEF Placed, Parted
    <3>4. CASE Offered(p)' = Offered(p)
      BY <3>1, <3>4
    <3>5. ASSUME NEW d \in Chains, Offered(p)' = Append(Offered(p), d)
          PROVE  Offered(p)' # <<>> /\ Head(Offered(p)') = Head(Offered(p))
      <4> DEFINE s == Offered(p)
      <4>1. s \in Seq(Chains) /\ s # <<>>
        BY <3>1, <3>3
      <4> HIDE DEF s
      <4>2. Append(s, d) # <<>> /\ Head(Append(s, d)) = Head(s)
        BY <4>1
      <4> QED
        BY <3>5, <4>2 DEF s
    <3> QED
      BY <3>1, <3>2, <3>4, <3>5
  <2> QED
    BY <2>1, <2>2, QueueNames DEF Holds, Serving
<1>6. CASE Notify
  <2>1. \A v \in Workers : (Busy(v))' => Kept(v)
    BY <1>6, <1>c, <1>d DEF Notify, InCritical, Positions
  <2>2. \A p \in Queues : SameQueue(p)
    BY <1>6, <1>0 DEF Notify, QTypes, MmioTypes, GuestTypes, SameQueue
  <2> QED
    BY <1>f, <2>1, <2>2, QueueNames
<1>7. CASE Interrupt
  <2>1. \A v \in Workers : (Busy(v))' => Kept(v)
    BY <1>7, <1>c, <1>d DEF Interrupt, InCritical, Positions
  <2>2. \A p \in Queues : SameQueue(p)
    BY <1>7, <1>0 DEF Interrupt, QTypes, MmioTypes, GuestTypes, SameQueue
  <2> QED
    BY <1>f, <2>1, <2>2, QueueNames
<1>8. CASE InterruptReturns
  <2>1. \A v \in Workers : (Busy(v))' => Kept(v)
    BY <1>8, <1>c, <1>d DEF InterruptReturns, InCritical, Positions
  <2>2. \A p \in Queues : SameQueue(p)
    BY <1>8, <1>0 DEF InterruptReturns, QTypes, MmioTypes, GuestTypes, SameQueue
  <2> QED
    BY <1>f, <2>1, <2>2, QueueNames
<1>9. CASE Reset
  <2>1. pc' = pc /\ \A w \in Workers : ~Inside(w)
    BY <1>9 DEF Reset
  <2> QED
    BY <1>a, <2>1 DEF Holds
<1>10. ASSUME NEW q \in Queues, CollectUsed(q) PROVE Holds'
  <2>1. UNCHANGED <<pc, chain, mmio, ring, last>>
    BY <1>10 DEF CollectUsed
  <2>2. \A p \in Queues : Offered(p)' = Offered(p)
    BY <2>1 DEF Offered
  <2> QED
    BY <1>0, <2>1, <2>2, QueueNames DEF Holds, Serving
<1>11. CASE KernelWakes
  <2>1. \A v \in Workers : (Busy(v))' => Kept(v)
    BY <1>11, <1>c, <1>d DEF KernelWakes, InCritical, Positions
  <2>2. \A p \in Queues : SameQueue(p)
    BY <1>11, <1>0 DEF KernelWakes, QTypes, MmioTypes, GuestTypes, SameQueue
  <2> QED
    BY <1>f, <2>1, <2>2, QueueNames
<1>12. ASSUME NEW w \in Workers, Wake(w) PROVE Holds'
  <2>1. \A v \in Workers : (Busy(v))' => Kept(v)
    BY <1>12, <1>c, <1>d DEF Wake, InCritical, Positions
  <2>2. \A p \in Queues : SameQueue(p)
    BY <1>12, <1>0 DEF Wake, QTypes, MmioTypes, GuestTypes, SameQueue
  <2> QED
    BY <1>f, <2>1, <2>2, QueueNames
<1>13. ASSUME NEW w \in Workers, LockQueue(w) PROVE Holds'
  <2>1. \A v \in Workers : (Busy(v))' => Kept(v)
    BY <1>13, <1>c, <1>d DEF LockQueue, InCritical, Positions
  <2>2. \A p \in Queues : SameQueue(p)
    BY <1>13, <1>0 DEF LockQueue, QTypes, MmioTypes, GuestTypes, SameQueue
  <2> QED
    BY <1>f, <2>1, <2>2, QueueNames
<1>14. ASSUME NEW w \in Workers, TakeChain(w) PROVE Holds'
  <2>1. \A v \in Workers \ {w} : (Busy(v))' => Kept(v)
    BY <1>14, <1>c, <1>d DEF TakeChain, InCritical, Positions
  <2>2. \A p \in Queues : SameQueue(p)
    BY <1>14 DEF TakeChain, SameQueue
  <2>3. Serving(w) = Req
    BY <1>14, <1>0, WorkerNames DEF TakeChain, Places, Workers, InCritical
  <2>4. CASE pc'[w] = "handle"
    <3>1. mmio.ready /\ last[Req] # ring[Req].aidx /\ chain'[w] = ring[Req].avail[Slot(last[Req])]
      <4>1. pc'[w] # "handle" \/ (last[Req] # ring[Req].aidx /\ chain'[w] = ring[Req].avail[Slot(last[Req])])
        BY <1>14, <1>c DEF TakeChain
      <4>2. mmio.ready
        BY <1>14, <1>0, <1>c, <2>3, <2>4, QueueNames, WorkerNames DEF TakeChain, Registers, Inside, InCritical
      <4> QED
        BY <2>4, <4>1, <4>2
    <3>2. Offered(Req) # <<>> /\ chain'[w] = Head(Offered(Req))
      BY <1>0, <3>1, QueueView, QueueNames, EntriesTail
    <3>3. Offered(Req)' = Offered(Req)
      BY <2>2, SameView, QueueNames
    <3> QED
      BY <1>e, <2>1, <2>2, <2>3, <3>2, <3>3, QueueNames DEF Holds, Serving
  <2>5. CASE pc'[w] # "handle"
    <3>1. ~(Busy(w))'
      BY <1>14, <1>c, <2>5 DEF TakeChain
    <3> QED
      BY <1>f, <2>1, <2>2, <3>1, QueueNames
  <2> QED
    BY <2>4, <2>5
<1>15. ASSUME NEW w \in Workers, Handle(w) PROVE Holds'
  <2>1. \A v \in Workers : (Busy(v))' => Kept(v)
    BY <1>15, <1>c, <1>d DEF Handle, InCritical, Positions
  <2>2. \A p \in Queues : SameQueue(p)
    BY <1>15, <1>0 DEF Handle, QTypes, MmioTypes, GuestTypes, SameQueue
  <2> QED
    BY <1>f, <2>1, <2>2, QueueNames
<1>16. ASSUME NEW w \in Workers, PutUsed(w) PROVE Holds'
  <2>0. PICK q \in Queues : q = Serving(w)
    BY QueueNames
  <2>1. /\ pc[w] = "used" /\ \A p \in Queues \ {q} : SameQueue(p)
        /\ pc' = [pc EXCEPT ![w] = IF w \in RxServer THEN "more" ELSE "read"]
    BY <1>16, <2>0, PutUsedEffect
  <2>2. ASSUME NEW v \in Workers, (Busy(v))'
        PROVE  Kept(v) /\ SameQueue(Serving(v))
    <3>1. v # w /\ Busy(v)
      BY <1>c, <2>1, <2>2
    <3>2. chain'[v] = chain[v]
      BY <1>16, <1>a, <1>c, <2>1, <3>1 DEF PutUsed
    <3>3. Serving(v) # q
      BY <1>a, <1>b, <2>0, <2>1, <3>1
    <3> QED
      BY <2>1, <3>1, <3>2, <3>3, QueueNames
  <2> QED
    BY <1>f, <2>2
<1>17. ASSUME NEW w \in Workers, RaiseStat(w) PROVE Holds'
  <2>1. \A v \in Workers : (Busy(v))' => Kept(v)
    BY <1>17, <1>c, <1>d DEF RaiseStat, InCritical, Positions
  <2>2. \A p \in Queues : SameQueue(p)
    BY <1>17, <1>0 DEF RaiseStat, QTypes, MmioTypes, GuestTypes, SameQueue
  <2> QED
    BY <1>f, <2>1, <2>2, QueueNames
<1>18. ASSUME NEW w \in Workers, SignalEfd(w) PROVE Holds'
  <2>1. \A v \in Workers : (Busy(v))' => Kept(v)
    BY <1>18, <1>c, <1>d DEF SignalEfd, InCritical, Positions
  <2>2. \A p \in Queues : SameQueue(p)
    BY <1>18, <1>0 DEF SignalEfd, QTypes, MmioTypes, GuestTypes, SameQueue
  <2> QED
    BY <1>f, <2>1, <2>2, QueueNames
<1>19. ASSUME NEW w \in Workers, UnlockQueue(w) PROVE Holds'
  <2>1. \A v \in Workers : (Busy(v))' => Kept(v)
    BY <1>19, <1>c, <1>d DEF UnlockQueue, InCritical, Positions
  <2>2. \A p \in Queues : SameQueue(p)
    BY <1>19, <1>0 DEF UnlockQueue, QTypes, MmioTypes, GuestTypes, SameQueue
  <2> QED
    BY <1>f, <2>1, <2>2, QueueNames
<1>20. ASSUME NEW w \in Workers, BatchEnds(w) PROVE Holds'
  <2>1. \A v \in Workers : (Busy(v))' => Kept(v)
    BY <1>20, <1>c, <1>d DEF BatchEnds, InCritical, Positions
  <2>2. \A p \in Queues : SameQueue(p)
    BY <1>20, <1>0 DEF BatchEnds, QTypes, MmioTypes, GuestTypes, SameQueue
  <2> QED
    BY <1>f, <2>1, <2>2, QueueNames
<1>21. ASSUME NEW w \in Workers, RxTake(w) PROVE Holds'
  <2>1. \A v \in Workers \ {w} : (Busy(v))' => Kept(v)
    BY <1>21, <1>c, <1>d DEF RxTake, InCritical, Positions
  <2>2. \A p \in Queues : SameQueue(p)
    BY <1>21 DEF RxTake, SameQueue
  <2>3. Serving(w) = Rx
    BY <1>21, <1>0, WorkerNames DEF RxTake, Places, Workers, InCritical
  <2>4. CASE pc'[w] = "handle"
    <3>1. mmio.ready /\ last[Rx] # ring[Rx].aidx /\ chain'[w] = ring[Rx].avail[Slot(last[Rx])]
      <4>1. pc'[w] # "handle" \/ (last[Rx] # ring[Rx].aidx /\ chain'[w] = ring[Rx].avail[Slot(last[Rx])])
        BY <1>21, <1>c DEF RxTake
      <4>2. mmio.ready
        BY <1>21, <1>0, <1>c, <2>3, <2>4, QueueNames, WorkerNames DEF RxTake, Registers, Inside, InCritical
      <4> QED
        BY <2>4, <4>1, <4>2
    <3>2. Offered(Rx) # <<>> /\ chain'[w] = Head(Offered(Rx))
      BY <1>0, <3>1, QueueView, QueueNames, EntriesTail
    <3>3. Offered(Rx)' = Offered(Rx)
      BY <2>2, SameView, QueueNames
    <3> QED
      BY <1>e, <2>1, <2>2, <2>3, <3>2, <3>3, QueueNames DEF Holds, Serving
  <2>5. CASE pc'[w] # "handle"
    <3>1. ~(Busy(w))'
      BY <1>21, <1>c, <2>5 DEF RxTake
    <3> QED
      BY <1>f, <2>1, <2>2, <3>1, QueueNames
  <2> QED
    BY <2>4, <2>5
<1>22. ASSUME NEW w \in Workers, RxCopy(w) PROVE Holds'
  <2>1. \A v \in Workers : (Busy(v))' => Kept(v)
    BY <1>22, <1>c, <1>d DEF RxCopy, InCritical, Positions
  <2>2. \A p \in Queues : SameQueue(p)
    BY <1>22, <1>0 DEF RxCopy, QTypes, MmioTypes, GuestTypes, SameQueue
  <2> QED
    BY <1>f, <2>1, <2>2, QueueNames
<1>23. ASSUME NEW w \in RxServer, ReadPacket(w) PROVE Holds'
  <2>1. \A v \in Workers : (Busy(v))' => Kept(v)
    BY <1>23, <1>c, <1>d DEF ReadPacket, InCritical, Positions
  <2>2. \A p \in Queues : SameQueue(p)
    BY <1>23, <1>0 DEF ReadPacket, QTypes, MmioTypes, GuestTypes, SameQueue
  <2> QED
    BY <1>f, <2>1, <2>2, QueueNames
<1>24. CASE UNCHANGED vqVars
  <2>1. \A v \in Workers : (Busy(v))' => Kept(v)
    BY <1>24, <1>c, <1>d DEF vqVars, InCritical, Positions
  <2>2. \A p \in Queues : SameQueue(p)
    BY <1>24, <1>0 DEF vqVars, QTypes, MmioTypes, GuestTypes, SameQueue
  <2> QED
    BY <1>f, <2>1, <2>2, QueueNames
<1> QED
  BY <1>1, <1>2, <1>3, <1>4, <1>5, <1>6, <1>7, <1>8, <1>9, <1>10, <1>11, <1>12, <1>13, <1>14, <1>15, <1>16, <1>17, <1>18, <1>19, <1>20, <1>21, <1>22, <1>23, <1>24 DEF VQNext, Serve

\* A cause stays while its worker goes on and the registers stay.
LEMMA CauseStays ==
  ASSUME NEW q \in Queues, Cause(q),
         guest'.isr = guest.isr, mmio'.stat = mmio.stat, mmio'.efd = mmio.efd,
         \A w \in Workers : (Owes(w) => Owes(w)') /\ (Raises(w) => Raises(w)')
  PROVE  Cause(q)'
<1>1. CASE guest.isr \/ (mmio.stat = 1 /\ mmio.efd)
  BY <1>1 DEF Cause
<1>2. ASSUME NEW w \in Workers, Serving(w) = q, Owes(w) \/ (Raises(w) /\ mmio.stat = 1)
      PROVE  Cause(q)'
  <2>1. Owes(w)' \/ (Raises(w)' /\ mmio'.stat = 1)
    BY <1>2
  <2> QED
    BY <1>2, <2>1 DEF Cause, Serving
<1> QED
  BY <1>1, <1>2 DEF Cause

\* An interrupt is not lost.
LEMMA SignalledStep ==
  ASSUME QueueInv, [VQNext]_vqVars, TornResets = FALSE, NEW p \in Queues, Returned(p)' # <<>>
  PROVE  Cause(p)'
<1>0. QTypes /\ Places /\ Registers /\ Locks /\ Holds /\ Placed /\ Signalled
  BY DEF QueueInv
<1>c. pc \in [Workers -> Positions] /\ did \in [Workers -> BOOLEAN]
  BY <1>0 DEF QTypes
<1>d. RxServer \subseteq Workers /\ Server \subseteq Workers /\ Kernel \in Workers
  BY WorkerNames
<1>e. mmio \in MmioTypes /\ guest \in GuestTypes
  BY <1>0 DEF QTypes
<1>f. ASSUME SameQueue(p), guest'.isr = guest.isr, mmio'.stat = mmio.stat, mmio'.efd = mmio.efd,
             \A w \in Workers : (Owes(w) => Owes(w)') /\ (Raises(w) => Raises(w)')
      PROVE  Cause(p)'
  <2>1. Returned(p) # <<>>
    BY <1>f, SameView
  <2> QED
    BY <1>0, <1>f, <2>1, CauseStays DEF Signalled
<1>1. CASE SetupQueues
  <2>1. /\ guest'.seen[p] = 0 /\ ring'[p] = EmptyRing
    BY <1>1, <1>e DEF SetupQueues, GuestTypes
  <2>2. EmptyRing.used \in Ring /\ 0 \in Index
    BY Sizes DEF EmptyRing, Ring, Index
  <2>3. Entries(EmptyRing.used, 0, 0) = <<>>
    BY <2>2, EntriesFacts
  <2> QED
    BY <2>1, <2>3 DEF Returned, EmptyRing
<1>2. CASE DriverOK
  <2>1. \A v \in Workers : (Owes(v) => Owes(v)') /\ (Raises(v) => Raises(v)')
    BY <1>2, <1>c, <1>d DEF DriverOK, Owes, Raises, InCritical, Positions
  <2>2. SameQueue(p) /\ guest'.isr = guest.isr /\ mmio'.stat = mmio.stat /\ mmio'.efd = mmio.efd
    BY <1>2, <1>e DEF DriverOK, MmioTypes, GuestTypes, SameQueue
  <2> QED
    BY <1>f, <2>1, <2>2
<1>3. CASE SetupVhost
  <2>1. \A v \in Workers : (Owes(v) => Owes(v)') /\ (Raises(v) => Raises(v)')
    BY <1>3, <1>c, <1>d DEF SetupVhost, Owes, Raises, InCritical, Positions
  <2>2. SameQueue(p) /\ guest'.isr = guest.isr /\ mmio'.stat = mmio.stat /\ mmio'.efd = mmio.efd
    BY <1>3, <1>e DEF SetupVhost, MmioTypes, GuestTypes, SameQueue
  <2> QED
    BY <1>f, <2>1, <2>2
<1>4. CASE SetupVhostNet
  <2>1. \A v \in Workers : (Owes(v) => Owes(v)') /\ (Raises(v) => Raises(v)')
    BY <1>4, <1>c, <1>d DEF SetupVhostNet, Owes, Raises, InCritical, Positions
  <2>2. SameQueue(p) /\ guest'.isr = guest.isr /\ mmio'.stat = mmio.stat /\ mmio'.efd = mmio.efd
    BY <1>4, <1>e DEF SetupVhostNet, MmioTypes, GuestTypes, SameQueue
  <2> QED
    BY <1>f, <2>1, <2>2
<1>5. ASSUME NEW q \in Queues, NEW c \in Chains, Post(q, c) PROVE Cause(p)'
  <2>1. \A v \in Workers : (Owes(v) => Owes(v)') /\ (Raises(v) => Raises(v)')
    BY <1>5 DEF Post, Owes, Raises
  <2>2. /\ mmio' = mmio /\ guest'.isr = guest.isr /\ guest'.seen = guest.seen
    BY <1>5, <1>e DEF Post, GuestTypes
  <2>3. ring'[p].used = ring[p].used /\ ring'[p].uidx = ring[p].uidx
    BY <1>5, <1>0, PostKeepsUsed
  <2>4. Returned(p)' = Returned(p)
    BY <2>2, <2>3 DEF Returned
  <2> QED
    BY <1>0, <2>1, <2>2, <2>4, CauseStays DEF Signalled
<1>6. CASE Notify
  <2>1. \A v \in Workers : (Owes(v) => Owes(v)') /\ (Raises(v) => Raises(v)')
    BY <1>6, <1>c, <1>d DEF Notify, Owes, Raises, InCritical, Positions
  <2>2. SameQueue(p) /\ guest'.isr = guest.isr /\ mmio'.stat = mmio.stat /\ mmio'.efd = mmio.efd
    BY <1>6, <1>e DEF Notify, MmioTypes, GuestTypes, SameQueue
  <2> QED
    BY <1>f, <2>1, <2>2
<1>7. CASE Interrupt
  <2>1. /\ SameQueue(p) /\ did' = did /\ pc' = pc
        /\ guest'.isr = (mmio.stat = 1) /\ ~guest.isr /\ mmio.efd
    BY <1>7, <1>e DEF Interrupt, MmioTypes, GuestTypes, SameQueue
  <2>2. CASE mmio.stat = 1
    BY <2>1, <2>2 DEF Cause
  <2>3. CASE mmio.stat # 1
    <3>1. Returned(p) # <<>>
      BY <2>1, SameView
    <3>2. PICK w \in Workers : Serving(w) = p /\ Owes(w)
      BY <1>0, <2>1, <2>3, <3>1 DEF Signalled, Cause
    <3>3. Owes(w)'
      BY <2>1, <3>2 DEF Owes
    <3> QED
      BY <3>2, <3>3 DEF Cause, Serving
  <2> QED
    BY <2>2, <2>3
<1>8. CASE InterruptReturns
  <2>1. /\ UNCHANGED <<mmio, ring>> /\ guest'.seen = guest.seen
        /\ mmio.ready => guest.seen[p] = ring[p].uidx
    BY <1>8, <1>e DEF InterruptReturns, GuestTypes
  <2>2. Returned(p)' = Returned(p)
    BY <2>1 DEF Returned
  <2>3. mmio.ready
    BY <2>2 DEF Returned
  <2>4. Returned(p) = <<>>
    BY <1>0, <2>1, <2>3, QueueView, EntriesFacts
  <2> QED
    BY <2>2, <2>4
<1>9. CASE Reset
  <2>1. mmio'.ready = FALSE
    BY <1>9, <1>e DEF Reset, MmioTypes
  <2> QED
    BY <2>1 DEF Returned
<1>10. ASSUME NEW q \in Queues, CollectUsed(q) PROVE Cause(p)'
  <2>1. guest'.isr
    BY <1>10, <1>e DEF CollectUsed, GuestTypes
  <2> QED
    BY <2>1 DEF Cause
<1>11. CASE KernelWakes
  <2>1. \A v \in Workers : (Owes(v) => Owes(v)') /\ (Raises(v) => Raises(v)')
    BY <1>11, <1>c, <1>d DEF KernelWakes, Owes, Raises, InCritical, Positions
  <2>2. SameQueue(p) /\ guest'.isr = guest.isr /\ mmio'.stat = mmio.stat /\ mmio'.efd = mmio.efd
    BY <1>11, <1>e DEF KernelWakes, MmioTypes, GuestTypes, SameQueue
  <2> QED
    BY <1>f, <2>1, <2>2
<1>12. ASSUME NEW w \in Workers, Wake(w) PROVE Cause(p)'
  <2>1. \A v \in Workers : (Owes(v) => Owes(v)') /\ (Raises(v) => Raises(v)')
    BY <1>12, <1>c, <1>d DEF Wake, Owes, Raises, InCritical, Positions
  <2>2. SameQueue(p) /\ guest'.isr = guest.isr /\ mmio'.stat = mmio.stat /\ mmio'.efd = mmio.efd
    BY <1>12, <1>e DEF Wake, MmioTypes, GuestTypes, SameQueue
  <2> QED
    BY <1>f, <2>1, <2>2
<1>13. ASSUME NEW w \in Workers, LockQueue(w) PROVE Cause(p)'
  <2>1. \A v \in Workers : (Owes(v) => Owes(v)') /\ (Raises(v) => Raises(v)')
    BY <1>13, <1>c, <1>d DEF LockQueue, Owes, Raises, InCritical, Positions
  <2>2. SameQueue(p) /\ guest'.isr = guest.isr /\ mmio'.stat = mmio.stat /\ mmio'.efd = mmio.efd
    BY <1>13, <1>e DEF LockQueue, MmioTypes, GuestTypes, SameQueue
  <2> QED
    BY <1>f, <2>1, <2>2
<1>14. ASSUME NEW w \in Workers, TakeChain(w) PROVE Cause(p)'
  <2>1. \A v \in Workers : (Owes(v) => Owes(v)') /\ (Raises(v) => Raises(v)')
    BY <1>14, <1>c, <1>d DEF TakeChain, Owes, Raises, InCritical, Positions
  <2>2. SameQueue(p) /\ guest'.isr = guest.isr /\ mmio'.stat = mmio.stat /\ mmio'.efd = mmio.efd
    BY <1>14, <1>e DEF TakeChain, MmioTypes, GuestTypes, SameQueue
  <2> QED
    BY <1>f, <2>1, <2>2
<1>15. ASSUME NEW w \in Workers, Handle(w) PROVE Cause(p)'
  <2>1. \A v \in Workers : (Owes(v) => Owes(v)') /\ (Raises(v) => Raises(v)')
    BY <1>15, <1>c, <1>d DEF Handle, Owes, Raises, InCritical, Positions
  <2>2. SameQueue(p) /\ guest'.isr = guest.isr /\ mmio'.stat = mmio.stat /\ mmio'.efd = mmio.efd
    BY <1>15, <1>e DEF Handle, MmioTypes, GuestTypes, SameQueue
  <2> QED
    BY <1>f, <2>1, <2>2
<1>16. ASSUME NEW w \in Workers, PutUsed(w) PROVE Cause(p)'
  <2>0. PICK q \in Queues : q = Serving(w)
    BY QueueNames
  <2>1. /\ mmio.ready /\ pc[w] = "used" /\ UNCHANGED <<mmio, guest>>
        /\ \A r \in Queues \ {q} : SameQueue(r)
    BY <1>16, <2>0, PutUsedEffect
  <2>2. Owes(w)'
    BY <1>16, <1>c, <2>1 DEF PutUsed, Owes
  <2>3. CASE q = p
    BY <2>0, <2>2, <2>3 DEF Cause, Serving
  <2>4. CASE q # p
    <3>1. \A v \in Workers : (Owes(v) => Owes(v)') /\ (Raises(v) => Raises(v)')
      BY <1>16, <1>c, <2>1 DEF PutUsed, Owes, Raises
    <3> QED
      BY <1>f, <2>1, <2>4, <3>1
  <2> QED
    BY <2>3, <2>4
<1>17. ASSUME NEW w \in Workers, RaiseStat(w) PROVE Cause(p)'
  <2>1. /\ SameQueue(p) /\ mmio'.stat = 1 /\ mmio'.efd = mmio.efd /\ guest' = guest
        /\ did' = did /\ pc[w] = "stat" /\ pc' = [pc EXCEPT ![w] = "efd"]
    BY <1>17, <1>e DEF RaiseStat, MmioTypes, SameQueue
  <2>2. Cause(p)
    BY <1>0, <2>1, SameView DEF Signalled
  <2>3. CASE guest.isr \/ (mmio.stat = 1 /\ mmio.efd)
    BY <2>1, <2>3 DEF Cause
  <2>4. ASSUME NEW v \in Workers, Serving(v) = p, Owes(v) \/ Raises(v)
        PROVE  Cause(p)'
    <3>1. Owes(v)' \/ Raises(v)'
      BY <1>c, <2>1, <2>4 DEF Owes, Raises
    <3> QED
      BY <2>1, <2>4, <3>1 DEF Cause, Serving
  <2> QED
    BY <2>2, <2>3, <2>4 DEF Cause
<1>18. ASSUME NEW w \in Workers, SignalEfd(w) PROVE Cause(p)'
  <2>1. /\ SameQueue(p) /\ mmio'.stat = mmio.stat /\ mmio'.efd /\ guest' = guest
        /\ did' = [did EXCEPT ![w] = FALSE] /\ pc[w] = "efd"
        /\ pc' = [pc EXCEPT ![w] = IF w \in RxServer THEN "poll" ELSE "unlock"]
    BY <1>18, <1>e DEF SignalEfd, MmioTypes, SameQueue
  <2>2. Cause(p)
    BY <1>0, <2>1, SameView DEF Signalled
  <2>3. CASE guest.isr \/ mmio.stat = 1
    BY <2>1, <2>3 DEF Cause
  <2>4. ASSUME NEW v \in Workers, Serving(v) = p, Owes(v)
        PROVE  Cause(p)'
    <3>1. Owes(v)'
      BY <1>c, <2>1, <2>4 DEF Owes
    <3> QED
      BY <2>4, <3>1 DEF Cause, Serving
  <2> QED
    BY <2>2, <2>3, <2>4 DEF Cause
<1>19. ASSUME NEW w \in Workers, UnlockQueue(w) PROVE Cause(p)'
  <2>1. \A v \in Workers : (Owes(v) => Owes(v)') /\ (Raises(v) => Raises(v)')
    BY <1>19, <1>c, <1>d DEF UnlockQueue, Owes, Raises, InCritical, Positions
  <2>2. SameQueue(p) /\ guest'.isr = guest.isr /\ mmio'.stat = mmio.stat /\ mmio'.efd = mmio.efd
    BY <1>19, <1>e DEF UnlockQueue, MmioTypes, GuestTypes, SameQueue
  <2> QED
    BY <1>f, <2>1, <2>2
<1>20. ASSUME NEW w \in Workers, BatchEnds(w) PROVE Cause(p)'
  <2>1. \A v \in Workers : (Owes(v) => Owes(v)') /\ (Raises(v) => Raises(v)')
    BY <1>20, <1>c, <1>d DEF BatchEnds, Owes, Raises, InCritical, Positions
  <2>2. SameQueue(p) /\ guest'.isr = guest.isr /\ mmio'.stat = mmio.stat /\ mmio'.efd = mmio.efd
    BY <1>20, <1>e DEF BatchEnds, MmioTypes, GuestTypes, SameQueue
  <2> QED
    BY <1>f, <2>1, <2>2
<1>21. ASSUME NEW w \in Workers, RxTake(w) PROVE Cause(p)'
  <2>1. \A v \in Workers : (Owes(v) => Owes(v)') /\ (Raises(v) => Raises(v)')
    BY <1>21, <1>c, <1>d DEF RxTake, Owes, Raises, InCritical, Positions
  <2>2. SameQueue(p) /\ guest'.isr = guest.isr /\ mmio'.stat = mmio.stat /\ mmio'.efd = mmio.efd
    BY <1>21, <1>e DEF RxTake, MmioTypes, GuestTypes, SameQueue
  <2> QED
    BY <1>f, <2>1, <2>2
<1>22. ASSUME NEW w \in Workers, RxCopy(w) PROVE Cause(p)'
  <2>1. \A v \in Workers : (Owes(v) => Owes(v)') /\ (Raises(v) => Raises(v)')
    BY <1>22, <1>c, <1>d DEF RxCopy, Owes, Raises, InCritical, Positions
  <2>2. SameQueue(p) /\ guest'.isr = guest.isr /\ mmio'.stat = mmio.stat /\ mmio'.efd = mmio.efd
    BY <1>22, <1>e DEF RxCopy, MmioTypes, GuestTypes, SameQueue
  <2> QED
    BY <1>f, <2>1, <2>2
<1>23. ASSUME NEW w \in RxServer, ReadPacket(w) PROVE Cause(p)'
  <2>1. \A v \in Workers : (Owes(v) => Owes(v)') /\ (Raises(v) => Raises(v)')
    BY <1>23, <1>c, <1>d DEF ReadPacket, Owes, Raises, InCritical, Positions
  <2>2. SameQueue(p) /\ guest'.isr = guest.isr /\ mmio'.stat = mmio.stat /\ mmio'.efd = mmio.efd
    BY <1>23, <1>e DEF ReadPacket, MmioTypes, GuestTypes, SameQueue
  <2> QED
    BY <1>f, <2>1, <2>2
<1>24. CASE UNCHANGED vqVars
  <2>1. \A v \in Workers : (Owes(v) => Owes(v)') /\ (Raises(v) => Raises(v)')
    BY <1>24, <1>c, <1>d DEF vqVars, Owes, Raises, InCritical, Positions
  <2>2. SameQueue(p) /\ guest'.isr = guest.isr /\ mmio'.stat = mmio.stat /\ mmio'.efd = mmio.efd
    BY <1>24, <1>e DEF vqVars, MmioTypes, GuestTypes, SameQueue
  <2> QED
    BY <1>f, <2>1, <2>2
<1> QED
  BY <1>1, <1>2, <1>3, <1>4, <1>5, <1>6, <1>7, <1>8, <1>9, <1>10, <1>11, <1>12, <1>13, <1>14, <1>15, <1>16, <1>17, <1>18, <1>19, <1>20, <1>21, <1>22, <1>23, <1>24 DEF VQNext, Serve

\* Numbers of packets, and the loop that reads them.
LEMMA CountedStep ==
  ASSUME QueueInv, [VQNext]_vqVars, TornResets = FALSE
  PROVE  Counted' /\ OneLoop'
<1>0. QTypes /\ Places /\ Registers /\ Holds /\ Placed /\ Counted /\ OneLoop
  BY DEF QueueInv
<1>a. /\ pc \in [Workers -> Positions] /\ mmio \in MmioTypes /\ guest \in GuestTypes
      /\ tap \in Nat /\ pkt \in [RxServer -> Nat] /\ buf \in [Chains -> Nat]
      /\ resets \in Nat /\ kind \in Kinds
  BY <1>0 DEF QTypes
<1>b. /\ RxServer \subseteq Workers /\ Server \subseteq Workers /\ Kernel \in Workers
      /\ Kernel \notin RxServer /\ \A w \in Server : w \notin RxServer
  BY WorkerNames
<1>c. ASSUME UNCHANGED <<kind, tap, pkt, buf>>, guest'.got = guest.got, resets' = resets,
             \A w \in RxServer : pc'[w] = "none" <=> pc[w] = "none",
             mmio'.status = mmio.status, mmio'.vhost = mmio.vhost
      PROVE  Counted' /\ OneLoop'
  <2>1. Counted'
    BY <1>0, <1>c DEF Counted
  <2>2. OneLoop'
    BY <1>0, <1>c DEF OneLoop
  <2> QED
    BY <2>1, <2>2
<1>d. ASSUME UNCHANGED <<kind, tap, pkt, buf>>, guest'.got = guest.got, pc' = pc, resets' = resets,
             mmio.status # "ok" \/ \A w \in RxServer : pc[w] = "none"
      PROVE  Counted' /\ OneLoop'
  <2>1. Counted'
    BY <1>0, <1>d DEF Counted
  <2>2. OneLoop'
    BY <1>0, <1>d DEF OneLoop
  <2> QED
    BY <2>1, <2>2
<1>1. CASE SetupQueues
  <2>1. /\ mmio.status # "ok" \/ \A w \in RxServer : pc[w] = "none"
        /\ UNCHANGED <<kind, tap, pkt, buf, pc, resets>> /\ guest'.got = guest.got
    BY <1>1, <1>0, <1>a, <1>b DEF SetupQueues, Places, GuestTypes
  <2> QED
    BY <1>d, <2>1
<1>2. CASE DriverOK
  <2>1. /\ mmio.status # "ok" \/ \A w \in RxServer : pc[w] = "none"
        /\ UNCHANGED <<kind, tap, pkt, buf, pc, resets>> /\ guest'.got = guest.got
    BY <1>2, <1>0, <1>a, <1>b DEF DriverOK, Places, GuestTypes
  <2> QED
    BY <1>d, <2>1
<1>3. CASE SetupVhost
  <2>1. /\ mmio.status # "ok" \/ \A w \in RxServer : pc[w] = "none"
        /\ UNCHANGED <<kind, tap, pkt, buf, pc, resets>> /\ guest'.got = guest.got
    BY <1>3, <1>0, <1>a, <1>b DEF SetupVhost, Places, GuestTypes
  <2> QED
    BY <1>d, <2>1
<1>4. CASE SetupVhostNet
  <2>0. UNCHANGED <<tap, pkt, buf, guest, resets>> /\ mmio.vhost = "setup" /\ mmio'.status = mmio.status
    BY <1>4, <1>a DEF SetupVhostNet, MmioTypes
  <2>1. CASE kind' = "vhost" /\ pc' = pc /\ \A w \in Workers : pc[w] = "none"
    <3>1. tap = 0 /\ guest.got = 0 /\ (\A c \in Chains : buf[c] = 0) /\ \A w \in RxServer : pkt[w] = 0
      BY <1>0, <1>a, <1>b, <2>1 DEF Counted, GuestTypes
    <3>2. Bounds[kind'].packets \in Nat
      <4>1. "vhost" \in Kinds
        <5>1. "net" \in Kinds => "vhost" \in Kinds
          BY VirtqueueAssumption, Zenon
        <5> QED
          BY <1>4, <1>a, <5>1 DEF SetupVhostNet
      <4>2. Bounds \in [Kinds -> [posts : Nat, packets : Nat, resets : Nat]]
        BY VirtqueueAssumption, Zenon
      <4> QED
        BY <2>1, <4>1, <4>2
    <3>3. Counted'
      BY <2>0, <2>1, <3>1, <3>2 DEF Counted
    <3>4. OneLoop'
      BY <1>b, <2>0, <2>1 DEF OneLoop
    <3> QED
      BY <3>3, <3>4
  <2>2. ASSUME NEW u \in Server, NEW v \in RxServer, kind' = kind, mmio' = [mmio EXCEPT !.vhost = "off"],
               pc' = [pc EXCEPT ![u] = "wait", ![v] = "poll"]
        PROVE  Counted' /\ OneLoop'
    <3>1. \A w \in RxServer : pc'[w] = IF w = v THEN "poll" ELSE pc[w]
      BY <1>a, <1>b, <2>2
    <3>2. resets = 0 => \A w \in RxServer : pc[w] = "none"
      BY <1>0, <2>0 DEF OneLoop
    <3>3. mmio.status = "ok" /\ mmio'.vhost = "off"
      BY <1>0, <1>a, <2>0, <2>2 DEF Registers, MmioTypes
    <3>4. Counted'
      <4>1. pc'[v] # "none"
        BY <3>1
      <4> QED
        BY <1>0, <2>0, <2>2, <4>1 DEF Counted
    <3>5. OneLoop'
      BY <2>0, <3>1, <3>2, <3>3 DEF OneLoop
    <3> QED
      BY <3>4, <3>5
  <2> QED
    BY <1>4, <2>1, <2>2 DEF SetupVhostNet
<1>5. ASSUME NEW q \in Queues, NEW c \in Chains, Post(q, c) PROVE Counted' /\ OneLoop'
  <2>1. \A v \in RxServer : pc'[v] = "none" <=> pc[v] = "none"
    BY <1>5, <1>0, <1>a, <1>b DEF Post, Positions, InCritical, Places
  <2>2. /\ UNCHANGED <<kind, tap, pkt, buf>> /\ guest'.got = guest.got /\ resets' = resets
        /\ mmio'.status = mmio.status /\ mmio'.vhost = mmio.vhost
    BY <1>5, <1>a DEF Post, MmioTypes, GuestTypes
  <2> QED
    BY <1>c, <2>1, <2>2
<1>6. CASE Notify
  <2>1. \A v \in RxServer : pc'[v] = "none" <=> pc[v] = "none"
    BY <1>6, <1>0, <1>a, <1>b DEF Notify, Positions, InCritical, Places
  <2>2. /\ UNCHANGED <<kind, tap, pkt, buf>> /\ guest'.got = guest.got /\ resets' = resets
        /\ mmio'.status = mmio.status /\ mmio'.vhost = mmio.vhost
    BY <1>6, <1>a DEF Notify, MmioTypes, GuestTypes
  <2> QED
    BY <1>c, <2>1, <2>2
<1>7. CASE Interrupt
  <2>1. \A v \in RxServer : pc'[v] = "none" <=> pc[v] = "none"
    BY <1>7, <1>0, <1>a, <1>b DEF Interrupt, Positions, InCritical, Places
  <2>2. /\ UNCHANGED <<kind, tap, pkt, buf>> /\ guest'.got = guest.got /\ resets' = resets
        /\ mmio'.status = mmio.status /\ mmio'.vhost = mmio.vhost
    BY <1>7, <1>a DEF Interrupt, MmioTypes, GuestTypes
  <2> QED
    BY <1>c, <2>1, <2>2
<1>8. CASE InterruptReturns
  <2>1. \A v \in RxServer : pc'[v] = "none" <=> pc[v] = "none"
    BY <1>8, <1>0, <1>a, <1>b DEF InterruptReturns, Positions, InCritical, Places
  <2>2. /\ UNCHANGED <<kind, tap, pkt, buf>> /\ guest'.got = guest.got /\ resets' = resets
        /\ mmio'.status = mmio.status /\ mmio'.vhost = mmio.vhost
    BY <1>8, <1>a DEF InterruptReturns, MmioTypes, GuestTypes
  <2> QED
    BY <1>c, <2>1, <2>2
<1>9. CASE Reset
  <2>1. UNCHANGED <<kind, tap, pkt, buf, pc>> /\ guest'.got = guest.got /\ resets' # 0
    BY <1>9, <1>a DEF Reset, GuestTypes
  <2>2. Counted'
    BY <1>0, <2>1 DEF Counted
  <2> QED
    BY <2>1, <2>2 DEF OneLoop
<1>10. ASSUME NEW q \in Queues, CollectUsed(q) PROVE Counted' /\ OneLoop'
  <2> DEFINE c == ring[q].used[Slot(guest.seen[q])]
  <2>1. c \in Chains
    <3>1. Returned(q) # <<>> /\ Head(Returned(q)) = c
      BY <1>10, <1>0, QueueView, EntriesTail DEF CollectUsed
    <3>2. Returned(q) \in Seq(Chains)
      BY <1>0 DEF Placed, Parted
    <3> QED
      BY <3>1, <3>2, HeadTailProperties
  <2>2. /\ guest'.got = IF q = Rx THEN buf[c] ELSE guest.got
        /\ buf' = IF q = Rx THEN [buf EXCEPT ![c] = 0] ELSE buf
        /\ UNCHANGED <<kind, tap, pkt, pc, mmio, resets>>
    BY <1>10, <1>a DEF CollectUsed, GuestTypes
  <2> HIDE DEF c
  <2>3. Counted'
    BY <1>0, <1>a, <2>1, <2>2 DEF Counted
  <2>4. OneLoop'
    BY <1>0, <2>2 DEF OneLoop
  <2> QED
    BY <2>3, <2>4
<1>11. CASE KernelWakes
  <2>1. \A v \in RxServer : pc'[v] = "none" <=> pc[v] = "none"
    BY <1>11, <1>0, <1>a, <1>b DEF KernelWakes, Positions, InCritical, Places
  <2>2. /\ UNCHANGED <<kind, tap, pkt, buf>> /\ guest'.got = guest.got /\ resets' = resets
        /\ mmio'.status = mmio.status /\ mmio'.vhost = mmio.vhost
    BY <1>11, <1>a DEF KernelWakes, MmioTypes, GuestTypes
  <2> QED
    BY <1>c, <2>1, <2>2
<1>12. ASSUME NEW w \in Workers, Wake(w) PROVE Counted' /\ OneLoop'
  <2>1. \A v \in RxServer : pc'[v] = "none" <=> pc[v] = "none"
    BY <1>12, <1>0, <1>a, <1>b DEF Wake, Positions, InCritical, Places
  <2>2. /\ UNCHANGED <<kind, tap, pkt, buf>> /\ guest'.got = guest.got /\ resets' = resets
        /\ mmio'.status = mmio.status /\ mmio'.vhost = mmio.vhost
    BY <1>12, <1>a DEF Wake, MmioTypes, GuestTypes
  <2> QED
    BY <1>c, <2>1, <2>2
<1>13. ASSUME NEW w \in Workers, LockQueue(w) PROVE Counted' /\ OneLoop'
  <2>1. \A v \in RxServer : pc'[v] = "none" <=> pc[v] = "none"
    BY <1>13, <1>0, <1>a, <1>b DEF LockQueue, Positions, InCritical, Places
  <2>2. /\ UNCHANGED <<kind, tap, pkt, buf>> /\ guest'.got = guest.got /\ resets' = resets
        /\ mmio'.status = mmio.status /\ mmio'.vhost = mmio.vhost
    BY <1>13, <1>a DEF LockQueue, MmioTypes, GuestTypes
  <2> QED
    BY <1>c, <2>1, <2>2
<1>14. ASSUME NEW w \in Workers, TakeChain(w) PROVE Counted' /\ OneLoop'
  <2>1. \A v \in RxServer : pc'[v] = "none" <=> pc[v] = "none"
    BY <1>14, <1>0, <1>a, <1>b DEF TakeChain, Positions, InCritical, Places
  <2>2. /\ UNCHANGED <<kind, tap, pkt, buf>> /\ guest'.got = guest.got /\ resets' = resets
        /\ mmio'.status = mmio.status /\ mmio'.vhost = mmio.vhost
    BY <1>14, <1>a DEF TakeChain, MmioTypes, GuestTypes
  <2> QED
    BY <1>c, <2>1, <2>2
<1>15. ASSUME NEW w \in Workers, Handle(w) PROVE Counted' /\ OneLoop'
  <2>1. \A v \in RxServer : pc'[v] = "none" <=> pc[v] = "none"
    BY <1>15, <1>0, <1>a, <1>b DEF Handle, Positions, InCritical, Places
  <2>2. /\ UNCHANGED <<kind, tap, pkt, buf>> /\ guest'.got = guest.got /\ resets' = resets
        /\ mmio'.status = mmio.status /\ mmio'.vhost = mmio.vhost
    BY <1>15, <1>a DEF Handle, MmioTypes, GuestTypes
  <2> QED
    BY <1>c, <2>1, <2>2
<1>16. ASSUME NEW w \in Workers, PutUsed(w) PROVE Counted' /\ OneLoop'
  <2>0. mmio.ready /\ pc[w] = "used"
    BY <1>16, <1>0 DEF PutUsed, Registers, Inside, InCritical
  <2>1. \A v \in RxServer : pc'[v] = "none" <=> pc[v] = "none"
    BY <1>16, <1>a, <1>b, <2>0 DEF PutUsed, Positions, InCritical, Places
  <2>2. /\ UNCHANGED <<kind, tap, pkt, buf>> /\ guest'.got = guest.got /\ resets' = resets
        /\ mmio'.status = mmio.status /\ mmio'.vhost = mmio.vhost
    BY <1>16, <1>a, <2>0 DEF PutUsed, MmioTypes, GuestTypes
  <2> QED
    BY <1>c, <2>1, <2>2
<1>17. ASSUME NEW w \in Workers, RaiseStat(w) PROVE Counted' /\ OneLoop'
  <2>1. \A v \in RxServer : pc'[v] = "none" <=> pc[v] = "none"
    BY <1>17, <1>0, <1>a, <1>b DEF RaiseStat, Positions, InCritical, Places
  <2>2. /\ UNCHANGED <<kind, tap, pkt, buf>> /\ guest'.got = guest.got /\ resets' = resets
        /\ mmio'.status = mmio.status /\ mmio'.vhost = mmio.vhost
    BY <1>17, <1>a DEF RaiseStat, MmioTypes, GuestTypes
  <2> QED
    BY <1>c, <2>1, <2>2
<1>18. ASSUME NEW w \in Workers, SignalEfd(w) PROVE Counted' /\ OneLoop'
  <2>1. \A v \in RxServer : pc'[v] = "none" <=> pc[v] = "none"
    BY <1>18, <1>0, <1>a, <1>b DEF SignalEfd, Positions, InCritical, Places
  <2>2. /\ UNCHANGED <<kind, tap, pkt, buf>> /\ guest'.got = guest.got /\ resets' = resets
        /\ mmio'.status = mmio.status /\ mmio'.vhost = mmio.vhost
    BY <1>18, <1>a DEF SignalEfd, MmioTypes, GuestTypes
  <2> QED
    BY <1>c, <2>1, <2>2
<1>19. ASSUME NEW w \in Workers, UnlockQueue(w) PROVE Counted' /\ OneLoop'
  <2>0. mutex[Req] # Nobody /\ w \notin RxServer
    BY <1>19, <1>0, <1>b, WorkerNames DEF UnlockQueue, QueueInv, Locks, Inside, InCritical, Places, Workers
  <2>1. \A v \in RxServer : pc'[v] = "none" <=> pc[v] = "none"
    BY <1>19, <1>a, <1>b, <2>0 DEF UnlockQueue, Positions, InCritical, Places
  <2>2. /\ UNCHANGED <<kind, tap, pkt, buf>> /\ guest'.got = guest.got /\ resets' = resets
        /\ mmio'.status = mmio.status /\ mmio'.vhost = mmio.vhost
    BY <1>19, <1>a, <2>0 DEF UnlockQueue, MmioTypes, GuestTypes
  <2> QED
    BY <1>c, <2>1, <2>2
<1>20. ASSUME NEW w \in Workers, BatchEnds(w) PROVE Counted' /\ OneLoop'
  <2>1. \A v \in RxServer : pc'[v] = "none" <=> pc[v] = "none"
    BY <1>20, <1>0, <1>a, <1>b DEF BatchEnds, Positions, InCritical, Places
  <2>2. /\ UNCHANGED <<kind, tap, pkt, buf>> /\ guest'.got = guest.got /\ resets' = resets
        /\ mmio'.status = mmio.status /\ mmio'.vhost = mmio.vhost
    BY <1>20, <1>a DEF BatchEnds, MmioTypes, GuestTypes
  <2> QED
    BY <1>c, <2>1, <2>2
<1>21. ASSUME NEW w \in Workers, RxTake(w) PROVE Counted' /\ OneLoop'
  <2>1. w \in RxServer
    BY <1>21, <1>0 DEF RxTake, Places, InCritical, Workers
  <2>2. /\ \A v \in RxServer : pc'[v] = "none" <=> pc[v] = "none"
        /\ \A v \in RxServer : pkt'[v] = pkt[v] \/ pkt'[v] = 0
    BY <1>21, <1>a, <1>b, <2>1 DEF RxTake
  <2>3. UNCHANGED <<kind, tap, buf, guest, mmio, resets>>
    BY <1>21 DEF RxTake
  <2>4. Counted'
    BY <1>0, <1>a, <2>2, <2>3 DEF Counted
  <2>5. OneLoop'
    BY <1>0, <2>2, <2>3 DEF OneLoop
  <2> QED
    BY <2>4, <2>5
<1>22. ASSUME NEW w \in Workers, RxCopy(w) PROVE Counted' /\ OneLoop'
  <2>1. /\ w \in RxServer /\ pc[w] = "handle" /\ pc' = [pc EXCEPT ![w] = "used"]
        /\ buf' = [buf EXCEPT ![chain[w]] = pkt[w]] /\ pkt' = [pkt EXCEPT ![w] = 0]
        /\ UNCHANGED <<kind, tap, guest, mmio, resets>>
    BY <1>22 DEF RxCopy
  <2>2. \A v \in RxServer : pc'[v] = "none" <=> pc[v] = "none"
    BY <1>a, <1>b, <2>1
  <2>3. Counted'
    BY <1>0, <1>a, <2>1, <2>2 DEF Counted
  <2>4. OneLoop'
    BY <1>0, <2>1, <2>2 DEF OneLoop
  <2> QED
    BY <2>3, <2>4
<1>23. ASSUME NEW w \in RxServer, ReadPacket(w) PROVE Counted' /\ OneLoop'
  <2>1. /\ pc[w] \in {"poll", "more"} /\ pc' = [pc EXCEPT ![w] = "rxlock"]
        /\ tap < Bounds[kind].packets /\ tap' = tap + 1 /\ pkt' = [pkt EXCEPT ![w] = tap + 1]
        /\ UNCHANGED <<kind, buf, guest, mmio, resets>>
    BY <1>23 DEF ReadPacket
  <2>2. \A v \in RxServer : pc'[v] = "none" <=> pc[v] = "none"
    BY <1>a, <1>b, <2>1
  <2>3. Counted'
    <3>1. Bounds[kind].packets \in Nat
      <4>1. Bounds \in [Kinds -> [posts : Nat, packets : Nat, resets : Nat]]
        BY VirtqueueAssumption, Zenon
      <4> QED
        BY <1>a, <4>1
    <3>2. guest.got \in Nat
      BY <1>a DEF GuestTypes
    <3>3. tap' <= Bounds[kind].packets /\ guest.got <= tap' /\ \A c \in Chains : buf[c] <= tap'
      BY <1>0, <1>a, <2>1, <3>1, <3>2 DEF Counted
    <3>4. \A v \in RxServer : pkt'[v] <= tap'
      BY <1>0, <1>a, <2>1 DEF Counted
    <3>5. pc'[w] # "none"
      BY <1>a, <1>b, <2>1
    <3> QED
      BY <2>1, <3>3, <3>4, <3>5 DEF Counted
  <2>4. OneLoop'
    BY <1>0, <2>1, <2>2 DEF OneLoop
  <2> QED
    BY <2>3, <2>4
<1>24. CASE UNCHANGED vqVars
  <2>1. \A v \in RxServer : pc'[v] = "none" <=> pc[v] = "none"
    BY <1>24, <1>0, <1>a, <1>b DEF vqVars, Positions, InCritical, Places
  <2>2. /\ UNCHANGED <<kind, tap, pkt, buf>> /\ guest'.got = guest.got /\ resets' = resets
        /\ mmio'.status = mmio.status /\ mmio'.vhost = mmio.vhost
    BY <1>24, <1>a DEF vqVars, MmioTypes, GuestTypes
  <2> QED
    BY <1>c, <2>1, <2>2
<1> QED
  BY <1>1, <1>2, <1>3, <1>4, <1>5, <1>6, <1>7, <1>8, <1>9, <1>10, <1>11, <1>12, <1>13, <1>14, <1>15, <1>16, <1>17, <1>18, <1>19, <1>20, <1>21, <1>22, <1>23, <1>24 DEF VQNext, Serve

\* Packets stay in the order of the TAP.
LEMMA InOrderStep ==
  ASSUME QueueInv, [VQNext]_vqVars, TornResets = FALSE
  PROVE  InOrder'
<1>0. QTypes /\ Places /\ Registers /\ Holds /\ Placed /\ Counted /\ OneLoop /\ InOrder
  BY DEF QueueInv
<1>a. /\ pc \in [Workers -> Positions] /\ mmio \in MmioTypes /\ guest \in GuestTypes
      /\ tap \in Nat /\ pkt \in [RxServer -> Nat] /\ buf \in [Chains -> Nat]
      /\ chain \in [Workers -> 0..QNum] /\ resets \in Nat
  BY <1>0 DEF QTypes
<1>b. /\ RxServer \subseteq Workers /\ Server \subseteq Workers /\ Kernel \in Workers
      /\ Kernel \notin RxServer /\ \A w \in Server : w \notin RxServer
  BY WorkerNames
<1> DEFINE R == Returned(Rx)
           Loaded(v) == pc[v] \in {"rxlock", "handle"}
<1>c. R \in Seq(Chains) /\ Len(R) \in Nat /\ \A i \in 1..Len(R) : R[i] \in Chains
  BY <1>0, QueueNames DEF Placed, Parted
<1>d. ASSUME R' = R, UNCHANGED buf, guest'.got = guest.got, resets' = resets,
             \A v \in RxServer : /\ (Loaded(v))' => Loaded(v) /\ pkt'[v] = pkt[v]
                                 /\ pc'[v] = "used" => pc[v] = "used" /\ chain'[v] = chain[v]
      PROVE  InOrder'
  <2>1. SUFFICES ASSUME resets = 0 PROVE InOrder'
    BY <1>d DEF InOrder
  <2>2. \A n : Later(n) => Later(n)'
    BY <1>d DEF Later
  <2>3. ASSUME NEW v \in RxServer, (Loaded(v))' PROVE Later(pkt[v])'
    BY <1>0, <1>d, <2>1, <2>2, <2>3 DEF InOrder
  <2>4. ASSUME NEW v \in RxServer, pc'[v] = "used" PROVE Later(buf[chain[v]])'
    BY <1>0, <1>d, <2>1, <2>2, <2>4 DEF InOrder
  <2> QED
    BY <1>0, <1>d, <2>1, <2>3, <2>4 DEF InOrder
<1>1. CASE SetupQueues
  <2>1. /\ ~mmio.ready /\ mmio.status = "reset" /\ guest'.seen[Rx] = 0 /\ ring'[Rx] = EmptyRing
        /\ UNCHANGED <<pc, resets>>
    BY <1>1, <1>0, <1>a, QueueNames DEF SetupQueues, GuestTypes, Registers
  <2>2. EmptyRing.used \in Ring /\ 0 \in Index
    BY Sizes DEF EmptyRing, Ring, Index
  <2>3. R' = <<>>
    <3>1. Entries(EmptyRing.used, 0, 0) = <<>>
      BY <2>2, EntriesFacts
    <3> QED
      BY <2>1, <3>1 DEF Returned, EmptyRing
  <2>4. resets = 0 => \A v \in RxServer : pc[v] = "none"
    BY <1>0, <2>1 DEF OneLoop
  <2>5. \A i \in 1..Len(R') : FALSE
    BY <2>3
  <2> HIDE DEF R
  <2> QED
    BY <2>1, <2>4, <2>5 DEF InOrder, R
<1>2. CASE DriverOK
  <2>1. \A v \in RxServer : /\ (Loaded(v))' => Loaded(v) /\ pkt'[v] = pkt[v]
                            /\ pc'[v] = "used" => pc[v] = "used" /\ chain'[v] = chain[v]
    BY <1>2, <1>0, <1>a, <1>b DEF DriverOK, Positions, InCritical, Places
  <2>2. SameQueue(Rx) /\ UNCHANGED buf /\ guest'.got = guest.got /\ resets' = resets
    BY <1>2, <1>a DEF DriverOK, MmioTypes, GuestTypes, SameQueue
  <2>3. R' = R
    BY <2>2, SameView, QueueNames
  <2> QED
    BY <1>d, <2>1, <2>2, <2>3
<1>3. CASE SetupVhost
  <2>1. \A v \in RxServer : /\ (Loaded(v))' => Loaded(v) /\ pkt'[v] = pkt[v]
                            /\ pc'[v] = "used" => pc[v] = "used" /\ chain'[v] = chain[v]
    BY <1>3, <1>0, <1>a, <1>b DEF SetupVhost, Positions, InCritical, Places
  <2>2. SameQueue(Rx) /\ UNCHANGED buf /\ guest'.got = guest.got /\ resets' = resets
    BY <1>3, <1>a DEF SetupVhost, MmioTypes, GuestTypes, SameQueue
  <2>3. R' = R
    BY <2>2, SameView, QueueNames
  <2> QED
    BY <1>d, <2>1, <2>2, <2>3
<1>4. CASE SetupVhostNet
  <2>1. \A v \in RxServer : /\ (Loaded(v))' => Loaded(v) /\ pkt'[v] = pkt[v]
                            /\ pc'[v] = "used" => pc[v] = "used" /\ chain'[v] = chain[v]
    BY <1>4, <1>0, <1>a, <1>b DEF SetupVhostNet, Positions, InCritical, Places
  <2>2. SameQueue(Rx) /\ UNCHANGED buf /\ guest'.got = guest.got /\ resets' = resets
    BY <1>4, <1>a DEF SetupVhostNet, MmioTypes, GuestTypes, SameQueue
  <2>3. R' = R
    BY <2>2, SameView, QueueNames
  <2> QED
    BY <1>d, <2>1, <2>2, <2>3
<1>5. ASSUME NEW q \in Queues, NEW c \in Chains, Post(q, c) PROVE InOrder'
  <2>1. UNCHANGED <<pc, pkt, chain, buf, resets, mmio>> /\ guest'.got = guest.got /\ guest'.seen = guest.seen
    BY <1>5, <1>a DEF Post, GuestTypes
  <2>2. ring'[Rx].used = ring[Rx].used /\ ring'[Rx].uidx = ring[Rx].uidx
    BY <1>5, <1>0, PostKeepsUsed, QueueNames
  <2>3. R' = R
    BY <2>1, <2>2 DEF Returned
  <2> QED
    BY <1>d, <2>1, <2>3
<1>6. CASE Notify
  <2>1. \A v \in RxServer : /\ (Loaded(v))' => Loaded(v) /\ pkt'[v] = pkt[v]
                            /\ pc'[v] = "used" => pc[v] = "used" /\ chain'[v] = chain[v]
    BY <1>6, <1>0, <1>a, <1>b DEF Notify, Positions, InCritical, Places
  <2>2. SameQueue(Rx) /\ UNCHANGED buf /\ guest'.got = guest.got /\ resets' = resets
    BY <1>6, <1>a DEF Notify, MmioTypes, GuestTypes, SameQueue
  <2>3. R' = R
    BY <2>2, SameView, QueueNames
  <2> QED
    BY <1>d, <2>1, <2>2, <2>3
<1>7. CASE Interrupt
  <2>1. \A v \in RxServer : /\ (Loaded(v))' => Loaded(v) /\ pkt'[v] = pkt[v]
                            /\ pc'[v] = "used" => pc[v] = "used" /\ chain'[v] = chain[v]
    BY <1>7, <1>0, <1>a, <1>b DEF Interrupt, Positions, InCritical, Places
  <2>2. SameQueue(Rx) /\ UNCHANGED buf /\ guest'.got = guest.got /\ resets' = resets
    BY <1>7, <1>a DEF Interrupt, MmioTypes, GuestTypes, SameQueue
  <2>3. R' = R
    BY <2>2, SameView, QueueNames
  <2> QED
    BY <1>d, <2>1, <2>2, <2>3
<1>8. CASE InterruptReturns
  <2>1. \A v \in RxServer : /\ (Loaded(v))' => Loaded(v) /\ pkt'[v] = pkt[v]
                            /\ pc'[v] = "used" => pc[v] = "used" /\ chain'[v] = chain[v]
    BY <1>8, <1>0, <1>a, <1>b DEF InterruptReturns, Positions, InCritical, Places
  <2>2. SameQueue(Rx) /\ UNCHANGED buf /\ guest'.got = guest.got /\ resets' = resets
    BY <1>8, <1>a DEF InterruptReturns, MmioTypes, GuestTypes, SameQueue
  <2>3. R' = R
    BY <2>2, SameView, QueueNames
  <2> QED
    BY <1>d, <2>1, <2>2, <2>3
<1>9. CASE Reset
  <2>1. resets' # 0
    BY <1>9, <1>a DEF Reset
  <2> QED
    BY <2>1 DEF InOrder
<1>10. ASSUME NEW q \in Queues, CollectUsed(q) PROVE InOrder'
  <2> DEFINE c == ring[q].used[Slot(guest.seen[q])]
  <2>0. /\ UNCHANGED <<pc, pkt, chain, mmio, ring, last, resets>> /\ mmio.ready
        /\ guest.seen[q] # ring[q].uidx
        /\ guest'.got = IF q = Rx THEN buf[c] ELSE guest.got
        /\ guest'.seen = [guest.seen EXCEPT ![q] = Inc(guest.seen[q])]
        /\ buf' = IF q = Rx THEN [buf EXCEPT ![c] = 0] ELSE buf
    BY <1>10, <1>a DEF CollectUsed, GuestTypes
  <2>1. CASE q # Rx
    <3>1. guest'.seen[Rx] = guest.seen[Rx]
      BY <1>a, <2>0, <2>1, QueueNames DEF GuestTypes
    <3>2. R' = R
      BY <2>0, <3>1 DEF Returned
    <3> QED
      BY <1>d, <2>0, <2>1, <3>2
  <2>2. CASE q = Rx
    <3>1. SUFFICES ASSUME resets = 0 PROVE InOrder'
      BY <2>0 DEF InOrder
    <3>2. /\ R # <<>> /\ Head(R) = c
          /\ Entries(ring[Rx].used, Inc(guest.seen[Rx]), ring[Rx].uidx) = Tail(R)
      <4>1. /\ R = Entries(ring[Rx].used, guest.seen[Rx], ring[Rx].uidx)
            /\ ring[Rx].used \in Ring /\ guest.seen[Rx] \in Index /\ ring[Rx].uidx \in Index
        BY <1>0, <2>0, <2>2, QueueView
      <4>2. guest.seen[Rx] # ring[Rx].uidx /\ c = ring[Rx].used[Slot(guest.seen[Rx])]
        BY <2>0, <2>2
      <4>3. \A e \in Ring, f \in Index, t \in Index : f # t =>
              /\ Entries(e, f, t) # <<>> /\ Head(Entries(e, f, t)) = e[Slot(f)]
              /\ Entries(e, Inc(f), t) = Tail(Entries(e, f, t))
        BY EntriesTail
      <4> HIDE DEF c
      <4> QED
        BY <4>1, <4>2, <4>3, Zenon
    <3>3. R' = Tail(R)
      <4>1. guest'.seen[Rx] = Inc(guest.seen[Rx])
        BY <1>a, <2>0, <2>2 DEF GuestTypes
      <4> QED
        BY <2>0, <3>2, <4>1 DEF Returned
    <3>4. /\ c = R[1] /\ c \in Chains /\ Len(R) \in Nat \ {0} /\ Len(Tail(R)) = Len(R) - 1
          /\ \A i \in 1..Len(Tail(R)) : Tail(R)[i] = R[i + 1]
      BY <1>c, <3>2, HeadTailProperties, EmptySeq
    <3>5. guest'.got = buf[c] /\ buf' = [buf EXCEPT ![c] = 0]
      BY <2>0, <2>2
    <3>6. /\ \A i \in 1..Len(R) : buf[R[i]] > guest.got
          /\ \A i, j \in 1..Len(R) : i < j => buf[R[i]] < buf[R[j]]
      BY <1>0, <3>1 DEF InOrder
    <3>7. /\ \A i, j \in 1..Len(R) : R[i] = R[j] => i = j
          /\ \A i \in 1..Len(Offered(Rx)), j \in 1..Len(R) : Offered(Rx)[i] # R[j]
      BY <1>0, QueueNames DEF Placed, Parted
    <3> DEFINE T == Tail(R)
    <3> HIDE DEF c, R
    <3>8. \A i \in 1..Len(T) : /\ i + 1 \in 1..Len(R) /\ 1 \in 1..Len(R) /\ 1 < i + 1
                               /\ T[i] = R[i + 1] /\ T[i] # c /\ T[i] \in Chains
      BY <1>c, <3>4, <3>7
    <3> HIDE DEF T
    <3>9. \A i \in 1..Len(T) : buf'[T[i]] = buf[T[i]] /\ buf[T[i]] > buf[c]
      BY <1>a, <3>4, <3>5, <3>6, <3>8
    <3>10. \A i, j \in 1..Len(T) : i < j => buf[T[i]] < buf[T[j]]
      BY <3>6, <3>8
    <3>11. ASSUME NEW n \in Nat, n > guest.got, \A i \in 1..Len(R) : buf[R[i]] < n
           PROVE  n > guest'.got /\ \A i \in 1..Len(T) : buf'[T[i]] < n
      BY <3>4, <3>5, <3>8, <3>9, <3>11
    <3>12. ASSUME NEW v \in RxServer, pc'[v] \in {"rxlock", "handle"} PROVE Later(pkt[v])'
      <4>1. pkt[v] \in Nat /\ Later(pkt[v])
        BY <1>0, <1>a, <2>0, <3>1, <3>12 DEF InOrder
      <4> QED
        BY <2>0, <3>3, <3>11, <4>1 DEF Later, T, R
    <3>13. ASSUME NEW v \in RxServer, pc'[v] = "used" PROVE Later(buf[chain[v]])'
      <4>1. Offered(Rx) # <<>> /\ chain[v] = Head(Offered(Rx)) /\ Offered(Rx) \in Seq(Chains)
        BY <1>0, <1>b, <2>0, <3>13, WorkerNames, QueueNames DEF Holds, Placed, Parted
      <4>2. 1 \in 1..Len(Offered(Rx)) /\ chain[v] = Offered(Rx)[1] /\ chain[v] \in Chains
        BY <4>1, HeadTailProperties, EmptySeq
      <4>3. chain[v] # c
        BY <3>4, <3>7, <4>2
      <4>4. buf'[chain[v]] = buf[chain[v]] /\ buf[chain[v]] \in Nat
        BY <1>a, <3>5, <4>2, <4>3
      <4>5. Later(buf[chain[v]])
        BY <1>0, <2>0, <3>1, <3>13 DEF InOrder
      <4> QED
        BY <2>0, <3>3, <3>11, <4>4, <4>5 DEF Later, T, R
    <3> QED
      BY <2>0, <3>3, <3>5, <3>9, <3>10, <3>12, <3>13 DEF InOrder, T, R
  <2> QED
    BY <2>1, <2>2
<1>11. CASE KernelWakes
  <2>1. \A v \in RxServer : /\ (Loaded(v))' => Loaded(v) /\ pkt'[v] = pkt[v]
                            /\ pc'[v] = "used" => pc[v] = "used" /\ chain'[v] = chain[v]
    BY <1>11, <1>0, <1>a, <1>b DEF KernelWakes, Positions, InCritical, Places
  <2>2. SameQueue(Rx) /\ UNCHANGED buf /\ guest'.got = guest.got /\ resets' = resets
    BY <1>11, <1>a DEF KernelWakes, MmioTypes, GuestTypes, SameQueue
  <2>3. R' = R
    BY <2>2, SameView, QueueNames
  <2> QED
    BY <1>d, <2>1, <2>2, <2>3
<1>12. ASSUME NEW w \in Workers, Wake(w) PROVE InOrder'
  <2>1. \A v \in RxServer : /\ (Loaded(v))' => Loaded(v) /\ pkt'[v] = pkt[v]
                            /\ pc'[v] = "used" => pc[v] = "used" /\ chain'[v] = chain[v]
    BY <1>12, <1>0, <1>a, <1>b DEF Wake, Positions, InCritical, Places
  <2>2. SameQueue(Rx) /\ UNCHANGED buf /\ guest'.got = guest.got /\ resets' = resets
    BY <1>12, <1>a DEF Wake, MmioTypes, GuestTypes, SameQueue
  <2>3. R' = R
    BY <2>2, SameView, QueueNames
  <2> QED
    BY <1>d, <2>1, <2>2, <2>3
<1>13. ASSUME NEW w \in Workers, LockQueue(w) PROVE InOrder'
  <2>1. \A v \in RxServer : /\ (Loaded(v))' => Loaded(v) /\ pkt'[v] = pkt[v]
                            /\ pc'[v] = "used" => pc[v] = "used" /\ chain'[v] = chain[v]
    BY <1>13, <1>0, <1>a, <1>b DEF LockQueue, Positions, InCritical, Places
  <2>2. SameQueue(Rx) /\ UNCHANGED buf /\ guest'.got = guest.got /\ resets' = resets
    BY <1>13, <1>a DEF LockQueue, MmioTypes, GuestTypes, SameQueue
  <2>3. R' = R
    BY <2>2, SameView, QueueNames
  <2> QED
    BY <1>d, <2>1, <2>2, <2>3
<1>14. ASSUME NEW w \in Workers, TakeChain(w) PROVE InOrder'
  <2>1. \A v \in RxServer : /\ (Loaded(v))' => Loaded(v) /\ pkt'[v] = pkt[v]
                            /\ pc'[v] = "used" => pc[v] = "used" /\ chain'[v] = chain[v]
    BY <1>14, <1>0, <1>a, <1>b DEF TakeChain, Positions, InCritical, Places
  <2>2. SameQueue(Rx) /\ UNCHANGED buf /\ guest'.got = guest.got /\ resets' = resets
    BY <1>14, <1>a DEF TakeChain, MmioTypes, GuestTypes, SameQueue
  <2>3. R' = R
    BY <2>2, SameView, QueueNames
  <2> QED
    BY <1>d, <2>1, <2>2, <2>3
<1>15. ASSUME NEW w \in Workers, Handle(w) PROVE InOrder'
  <2>1. \A v \in RxServer : /\ (Loaded(v))' => Loaded(v) /\ pkt'[v] = pkt[v]
                            /\ pc'[v] = "used" => pc[v] = "used" /\ chain'[v] = chain[v]
    BY <1>15, <1>0, <1>a, <1>b DEF Handle, Positions, InCritical, Places
  <2>2. SameQueue(Rx) /\ UNCHANGED buf /\ guest'.got = guest.got /\ resets' = resets
    BY <1>15, <1>a DEF Handle, MmioTypes, GuestTypes, SameQueue
  <2>3. R' = R
    BY <2>2, SameView, QueueNames
  <2> QED
    BY <1>d, <2>1, <2>2, <2>3
<1>16. ASSUME NEW w \in Workers, PutUsed(w) PROVE InOrder'
  <2>0. PICK q \in Queues : q = Serving(w)
    BY QueueNames
  <2>1. /\ mmio.ready /\ pc[w] = "used" /\ Offered(q) # <<>> /\ chain[w] = Head(Offered(q))
        /\ pc' = [pc EXCEPT ![w] = IF w \in RxServer THEN "more" ELSE "read"]
        /\ Returned(q)' = Append(Returned(q), Head(Offered(q)))
        /\ \A r \in Queues \ {q} : SameQueue(r)
    BY <1>16, <2>0, PutUsedEffect
  <2>2. chain' = [chain EXCEPT ![w] = 0] /\ UNCHANGED <<pkt, buf, guest, mmio, resets>>
    BY <1>16, <2>1 DEF PutUsed
  <2>3. CASE w \notin RxServer
    <3>1. \A v \in RxServer : pc'[v] = pc[v] /\ chain'[v] = chain[v] /\ pkt'[v] = pkt[v]
      BY <1>a, <1>b, <2>1, <2>2, <2>3
    <3>2. q # Rx
      BY <2>0, <2>3, QueueNames DEF Serving
    <3>3. R' = R
      BY <2>1, <3>2, SameView, QueueNames
    <3> QED
      BY <1>d, <2>2, <3>1, <3>3
  <2>4. CASE w \in RxServer
    <3>1. SUFFICES ASSUME resets = 0 PROVE InOrder'
      BY <2>2 DEF InOrder
    <3>2. \A v \in RxServer : pc'[v] \in {"none", "more"}
      BY <1>0, <1>a, <1>b, <2>1, <2>4, <3>1 DEF OneLoop
    <3>3. q = Rx /\ Offered(Rx) \in Seq(Chains)
      BY <1>0, <2>0, <2>4, WorkerNames, QueueNames DEF Placed, Parted
    <3>4. chain[w] \in Chains /\ R' = Append(R, chain[w])
      BY <2>1, <3>3, HeadTailProperties
    <3>5. Later(buf[chain[w]])
      BY <1>0, <2>1, <2>4, <3>1 DEF InOrder
    <3>6. /\ \A i \in 1..Len(R) : buf[R[i]] > guest.got
          /\ \A i, j \in 1..Len(R) : i < j => buf[R[i]] < buf[R[j]]
      BY <1>0, <3>1 DEF InOrder
    <3>7. buf[chain[w]] > guest.got /\ \A i \in 1..Len(R) : buf[R[i]] < buf[chain[w]]
      BY <3>5 DEF Later
    <3> HIDE DEF R
    <3> DEFINE A == Append(R, chain[w])
    <3>8. Len(A) = Len(R) + 1 /\ (\A i \in 1..Len(R) : A[i] = R[i]) /\ A[Len(R) + 1] = chain[w]
      BY <1>c, <3>4, AppendProperties
    <3> HIDE DEF A
    <3>9. \A i \in 1..Len(A) : i \in 1..Len(R) \/ i = Len(R) + 1
      BY <1>c, <3>8
    <3>10. \A i \in 1..Len(A) : buf[A[i]] > guest.got
      BY <3>6, <3>7, <3>8, <3>9
    <3>11. \A i, j \in 1..Len(A) : i < j => buf[A[i]] < buf[A[j]]
      <4>1. \A i, j \in 1..Len(A) : i < j => i \in 1..Len(R)
        BY <1>c, <3>8
      <4> QED
        BY <3>6, <3>7, <3>8, <3>9, <4>1
    <3> QED
      BY <2>2, <3>2, <3>4, <3>10, <3>11 DEF InOrder, A, R
  <2> QED
    BY <2>3, <2>4
<1>17. ASSUME NEW w \in Workers, RaiseStat(w) PROVE InOrder'
  <2>1. \A v \in RxServer : /\ (Loaded(v))' => Loaded(v) /\ pkt'[v] = pkt[v]
                            /\ pc'[v] = "used" => pc[v] = "used" /\ chain'[v] = chain[v]
    BY <1>17, <1>0, <1>a, <1>b DEF RaiseStat, Positions, InCritical, Places
  <2>2. SameQueue(Rx) /\ UNCHANGED buf /\ guest'.got = guest.got /\ resets' = resets
    BY <1>17, <1>a DEF RaiseStat, MmioTypes, GuestTypes, SameQueue
  <2>3. R' = R
    BY <2>2, SameView, QueueNames
  <2> QED
    BY <1>d, <2>1, <2>2, <2>3
<1>18. ASSUME NEW w \in Workers, SignalEfd(w) PROVE InOrder'
  <2>1. \A v \in RxServer : /\ (Loaded(v))' => Loaded(v) /\ pkt'[v] = pkt[v]
                            /\ pc'[v] = "used" => pc[v] = "used" /\ chain'[v] = chain[v]
    BY <1>18, <1>0, <1>a, <1>b DEF SignalEfd, Positions, InCritical, Places
  <2>2. SameQueue(Rx) /\ UNCHANGED buf /\ guest'.got = guest.got /\ resets' = resets
    BY <1>18, <1>a DEF SignalEfd, MmioTypes, GuestTypes, SameQueue
  <2>3. R' = R
    BY <2>2, SameView, QueueNames
  <2> QED
    BY <1>d, <2>1, <2>2, <2>3
<1>19. ASSUME NEW w \in Workers, UnlockQueue(w) PROVE InOrder'
  <2>1. \A v \in RxServer : /\ (Loaded(v))' => Loaded(v) /\ pkt'[v] = pkt[v]
                            /\ pc'[v] = "used" => pc[v] = "used" /\ chain'[v] = chain[v]
    BY <1>19, <1>0, <1>a, <1>b DEF UnlockQueue, Positions, InCritical, Places
  <2>2. SameQueue(Rx) /\ UNCHANGED buf /\ guest'.got = guest.got /\ resets' = resets
    BY <1>19, <1>a DEF UnlockQueue, MmioTypes, GuestTypes, SameQueue
  <2>3. R' = R
    BY <2>2, SameView, QueueNames
  <2> QED
    BY <1>d, <2>1, <2>2, <2>3
<1>20. ASSUME NEW w \in Workers, BatchEnds(w) PROVE InOrder'
  <2>1. \A v \in RxServer : /\ (Loaded(v))' => Loaded(v) /\ pkt'[v] = pkt[v]
                            /\ pc'[v] = "used" => pc[v] = "used" /\ chain'[v] = chain[v]
    BY <1>20, <1>0, <1>a, <1>b DEF BatchEnds, Positions, InCritical, Places
  <2>2. SameQueue(Rx) /\ UNCHANGED buf /\ guest'.got = guest.got /\ resets' = resets
    BY <1>20, <1>a DEF BatchEnds, MmioTypes, GuestTypes, SameQueue
  <2>3. R' = R
    BY <2>2, SameView, QueueNames
  <2> QED
    BY <1>d, <2>1, <2>2, <2>3
<1>21. ASSUME NEW w \in Workers, RxTake(w) PROVE InOrder'
  <2>1. w \in RxServer
    BY <1>21, <1>0 DEF RxTake, Places, InCritical, Workers
  <2>2. \A v \in RxServer : /\ (Loaded(v))' => Loaded(v) /\ pkt'[v] = pkt[v]
                            /\ pc'[v] = "used" => pc[v] = "used" /\ chain'[v] = chain[v]
    BY <1>21, <1>a, <1>b, <2>1 DEF RxTake
  <2>3. SameQueue(Rx) /\ UNCHANGED <<buf, guest, resets>>
    BY <1>21 DEF RxTake, SameQueue
  <2>4. R' = R
    BY <2>3, SameView, QueueNames
  <2> QED
    BY <1>d, <2>2, <2>3, <2>4
<1>22. ASSUME NEW w \in Workers, RxCopy(w) PROVE InOrder'
  <2>1. /\ w \in RxServer /\ pc[w] = "handle" /\ pc' = [pc EXCEPT ![w] = "used"]
        /\ buf' = [buf EXCEPT ![chain[w]] = pkt[w]]
        /\ UNCHANGED <<tap, guest, mmio, resets, ring, last, chain>>
    BY <1>22 DEF RxCopy
  <2>2. SUFFICES ASSUME resets = 0 PROVE InOrder'
    BY <2>1 DEF InOrder
  <2>3. \A v \in RxServer : v # w => pc'[v] = "none"
    BY <1>0, <1>a, <1>b, <2>1, <2>2 DEF OneLoop
  <2>4. R' = R
    BY <2>1, SameView, QueueNames DEF SameQueue
  <2>5. Offered(Rx) # <<>> /\ chain[w] = Head(Offered(Rx)) /\ Offered(Rx) \in Seq(Chains)
    BY <1>0, <1>b, <2>1, WorkerNames, QueueNames DEF Holds, Placed, Parted
  <2>6. 1 \in 1..Len(Offered(Rx)) /\ chain[w] = Offered(Rx)[1] /\ chain[w] \in Chains
    BY <2>5, HeadTailProperties, EmptySeq
  <2>7. \A i \in 1..Len(Offered(Rx)), j \in 1..Len(R) : Offered(Rx)[i] # R[j]
    BY <1>0, QueueNames DEF Placed, Parted
  <2> HIDE DEF R
  <2>8. \A i \in 1..Len(R) : buf'[R[i]] = buf[R[i]]
    BY <1>a, <1>c, <2>1, <2>6, <2>7
  <2>9. buf'[chain[w]] = pkt[w] /\ pc'[w] = "used"
    BY <1>a, <1>b, <2>1, <2>6
  <2>10. Later(pkt[w])
    BY <1>0, <2>1, <2>2 DEF InOrder
  <2>11. Later(buf[chain[w]])'
    BY <2>1, <2>4, <2>8, <2>9, <2>10 DEF Later, R
  <2>12. /\ \A i \in 1..Len(R) : buf[R[i]] > guest.got
         /\ \A i, j \in 1..Len(R) : i < j => buf[R[i]] < buf[R[j]]
    BY <1>0, <2>2 DEF InOrder, R
  <2> QED
    BY <2>1, <2>3, <2>4, <2>8, <2>9, <2>11, <2>12 DEF InOrder, R
<1>23. ASSUME NEW w \in RxServer, ReadPacket(w) PROVE InOrder'
  <2>1. /\ pc[w] \in {"poll", "more"} /\ pc' = [pc EXCEPT ![w] = "rxlock"]
        /\ tap' = tap + 1 /\ pkt' = [pkt EXCEPT ![w] = tap + 1]
        /\ UNCHANGED <<buf, guest, mmio, ring, last, resets>>
    BY <1>23 DEF ReadPacket
  <2>2. SUFFICES ASSUME resets = 0 PROVE InOrder'
    BY <2>1 DEF InOrder
  <2>3. /\ \A v \in RxServer : v # w => pc'[v] = "none"
        /\ pc'[w] = "rxlock" /\ pkt'[w] = tap + 1
    BY <1>0, <1>a, <1>b, <2>1, <2>2 DEF OneLoop
  <2>4. R' = R
    BY <2>1, SameView, QueueNames DEF SameQueue
  <2>5. /\ \A i \in 1..Len(R) : buf[R[i]] > guest.got
        /\ \A i, j \in 1..Len(R) : i < j => buf[R[i]] < buf[R[j]]
    BY <1>0, <2>2 DEF InOrder
  <2>6. tap + 1 > guest.got /\ \A i \in 1..Len(R) : buf[R[i]] < tap + 1
    <3>1. guest.got \in Nat /\ guest.got <= tap
      BY <1>0, <1>a DEF Counted, GuestTypes
    <3> HIDE DEF R
    <3>2. \A i \in 1..Len(R) : buf[R[i]] \in Nat /\ buf[R[i]] <= tap
      BY <1>0, <1>a, <1>c DEF Counted
    <3> QED
      BY <1>a, <3>1, <3>2
  <2>7. Later(pkt[w])'
    BY <2>1, <2>3, <2>4, <2>6 DEF Later
  <2> QED
    BY <2>1, <2>3, <2>4, <2>5, <2>7 DEF InOrder
<1>24. CASE UNCHANGED vqVars
  <2>1. \A v \in RxServer : /\ (Loaded(v))' => Loaded(v) /\ pkt'[v] = pkt[v]
                            /\ pc'[v] = "used" => pc[v] = "used" /\ chain'[v] = chain[v]
    BY <1>24, <1>0, <1>a, <1>b DEF vqVars, Positions, InCritical, Places
  <2>2. SameQueue(Rx) /\ UNCHANGED buf /\ guest'.got = guest.got /\ resets' = resets
    BY <1>24, <1>a DEF vqVars, MmioTypes, GuestTypes, SameQueue
  <2>3. R' = R
    BY <2>2, SameView, QueueNames
  <2> QED
    BY <1>d, <2>1, <2>2, <2>3
<1> QED
  BY <1>1, <1>2, <1>3, <1>4, <1>5, <1>6, <1>7, <1>8, <1>9, <1>10, <1>11, <1>12, <1>13, <1>14, <1>15, <1>16, <1>17, <1>18, <1>19, <1>20, <1>21, <1>22, <1>23, <1>24 DEF VQNext, Serve

-----------------------------------------------------------------------------
\* A device that no driver has touched.
LEMMA QueueInitial == VQInit => QueueInv
<1> SUFFICES ASSUME VQInit PROVE QueueInv
  OBVIOUS
<1>1. 0 \in Index /\ 0 \in 0..QNum /\ EmptyRing \in RingTypes
  BY Sizes DEF Index, EmptyRing, RingTypes, Ring
<1>2. mmio \in MmioTypes /\ guest \in GuestTypes
  BY <1>1 DEF VQInit, MmioTypes, GuestTypes
<1>3. QTypes
  BY <1>1, <1>2 DEF VQInit, QTypes, Positions
<1>4. Places /\ Registers /\ Locks /\ Holds
  BY WorkerNames DEF VQInit, Places, Registers, Locks, Holds, Inside, InCritical
<1>5. \A q \in Queues : Free(q) = Chains /\ Offered(q) = <<>> /\ Returned(q) = <<>>
  BY DEF VQInit, Free, Offered, Returned
<1>6. Placed /\ Signalled
  BY <1>5, PartedAtFirst DEF Placed, Signalled
<1>7. Counted
  <2>1. Bounds \in [Kinds -> [posts : Nat, packets : Nat, resets : Nat]]
    BY VirtqueueAssumption, Zenon
  <2>2. Bounds[kind].packets \in Nat
    BY <1>3, <2>1 DEF QTypes
  <2> QED
    BY <2>2 DEF VQInit, Counted
<1>8. OneLoop
  BY WorkerNames DEF VQInit, OneLoop
<1>9. InOrder
  <2>1. \A i \in 1..Len(Returned(Rx)) : FALSE
    BY <1>5, QueueNames
  <2>2. \A w \in RxServer : pc[w] = "none"
    BY WorkerNames DEF VQInit
  <2> QED
    BY <2>1, <2>2 DEF InOrder
<1> QED
  BY <1>3, <1>4, <1>6, <1>7, <1>8, <1>9 DEF QueueInv

\* Each step of the driver, of a goroutine and of the kernel keeps it.
LEMMA QueueStep ==
  ASSUME TornResets = FALSE, QueueInv, [VQNext]_vqVars
  PROVE  QueueInv'
<1>1. \A q \in Queues : Moves(q)
  BY MoveStep
<1>2. Placed'
  BY <1>1, PlacedStep DEF QueueInv
<1>3. Signalled'
  BY SignalledStep DEF Signalled
<1> QED
  BY <1>2, <1>3, ControlStep, TypesStep, HoldsStep, CountedStep, InOrderStep DEF QueueInv

\* What it is for.
LEMMA QueueInvIsSafe == QueueInv => QueueSafe
<1> SUFFICES ASSUME QueueInv PROVE QueueSafe
  OBVIOUS
<1>0. QTypes /\ Places /\ Locks /\ Counted /\ Signalled
  BY DEF QueueInv
<1>1. VQTypeOK
  <2>1. \A q \in Queues : ring[q] \in RingTypes
    BY <1>0 DEF QTypes
  <2>2. \A q \in Queues : /\ ring[q].avail \in [0..QNum-1 -> 0..QNum]
                          /\ ring[q].used \in [0..QNum-1 -> 0..QNum]
                          /\ {ring[q].aidx, ring[q].uidx} \subseteq 0..IdxMod-1
    BY <2>1 DEF RingTypes, Ring, Index
  <2>3. buf \in [Chains -> 0..Bounds[kind].packets]
    <3>1. Bounds \in [Kinds -> [posts : Nat, packets : Nat, resets : Nat]]
      BY VirtqueueAssumption, Zenon
    <3>2. Bounds[kind].packets \in Nat /\ tap \in Nat /\ buf \in [Chains -> Nat]
      BY <1>0, <3>1 DEF QTypes
    <3>3. \A c \in Chains : buf[c] \in 0..Bounds[kind].packets
      BY <1>0, <3>2 DEF Counted
    <3> QED
      BY <3>2, <3>3
  <2>4. mmio \in [status : {"reset", "driver", "ok", "dead"}, ready : BOOLEAN, stat : {0, 1},
                  efd : BOOLEAN, vhost : {"off", "setup", "on", "failed"}]
    BY <1>0 DEF QTypes, MmioTypes
  <2>5. guest.free \in [Queues -> SUBSET Chains]
    BY <1>0 DEF QTypes, GuestTypes
  <2>6. /\ kind \in Kinds /\ last \in [Queues -> 0..IdxMod-1]
        /\ mutex \in [Queues -> Workers \cup {Nobody}]
        /\ pc \in [Workers -> InCritical \cup {"none", "wait", "lock", "poll", "more", "rxlock"}]
        /\ chain \in [Workers -> 0..QNum] /\ did \in [Workers -> BOOLEAN]
        /\ {token, lostKick} \subseteq BOOLEAN
    BY <1>0 DEF QTypes, Index, Positions
  <2> QED
    BY <2>2, <2>3, <2>4, <2>5, <2>6 DEF VQTypeOK
<1>2. WorkersExclude
  BY <1>0 DEF WorkersExclude, Locks
<1>3. VMMSurvives
  BY <1>0 DEF VMMSurvives, Alive, QTypes, MmioTypes
<1>4. InterruptPending
  BY <1>0 DEF InterruptPending, Signalled, Cause, Owes, Raises
<1> QED
  BY <1>1, <1>2, <1>3, <1>4 DEF QueueSafe

\* No goroutine shares a queue with another, no used entry waits without an
\* interrupt, and the VMM does not panic over a queue that was reset
\* (ProcessAvailRing, injectIRQ and reset of virtio.go), for every queue size,
\* number of goroutines and number of requests: provided that the driver
\* resets the device only while no goroutine holds q.mu.
THEOREM QueuesAreSafe ==
  ASSUME TornResets = FALSE
  PROVE  VQSpec => []QueueSafe
<1>1. VQInit => QueueInv
  BY QueueInitial
<1>2. QueueInv /\ [VQNext]_vqVars => QueueInv'
  BY QueueStep
<1>3. QueueInv => QueueSafe
  BY QueueInvIsSafe
<1> QED
  BY <1>1, <1>2, <1>3, PTL DEF VQSpec

\* A step of the transport is a step of either queue, or none of it.
LEMMA QueueMoves ==
  ASSUME TornResets = FALSE, QueueInv, [VQNext]_vqVars
  PROVE  [ReqQueue!RQNext]_(ReqQueue!rqVars) /\ [RxQueue!RQNext]_(RxQueue!rqVars)
<1>1. Moves(Req) /\ Moves(Rx)
  BY MoveStep, QueueNames
<1>2. [ReqQueue!RQNext]_(ReqQueue!rqVars)
  BY <1>1, Zenon DEF Moves, ReqQueue!RQNext, ReqQueue!rqVars, ReqQueue!Offer, ReqQueue!Work,
            ReqQueue!Return, ReqQueue!Collect, ReqQueue!Forget
<1>3. [RxQueue!RQNext]_(RxQueue!rqVars)
  BY <1>1, Zenon DEF Moves, RxQueue!RQNext, RxQueue!rqVars, RxQueue!Offer, RxQueue!Work,
            RxQueue!Return, RxQueue!Collect, RxQueue!Forget
<1> QED
  BY <1>2, <1>3

\* The oldest packet in the used ring is newer than the one received last.
LEMMA PacketIsNew ==
  ASSUME QueueInv, CollectUsed(Rx), resets = 0
  PROVE  guest'.got > guest.got
<1>0. QTypes /\ Placed /\ InOrder
  BY DEF QueueInv
<1> DEFINE c == ring[Rx].used[Slot(guest.seen[Rx])]
<1>1. mmio.ready /\ guest.seen[Rx] # ring[Rx].uidx
  BY DEF CollectUsed
<1>2. /\ Returned(Rx) = Entries(ring[Rx].used, guest.seen[Rx], ring[Rx].uidx)
      /\ ring[Rx].used \in Ring /\ guest.seen[Rx] \in Index /\ ring[Rx].uidx \in Index
      /\ Returned(Rx) \in Seq(Chains)
  BY <1>0, <1>1, QueueView, QueueNames DEF Parted
<1>3. Returned(Rx) # <<>> /\ Head(Returned(Rx)) = c
  BY <1>1, <1>2, EntriesTail
<1>4. 1 \in 1..Len(Returned(Rx)) /\ c = Returned(Rx)[1]
  BY <1>2, <1>3, EmptySeq
<1>5. buf[c] > guest.got
  BY <1>0, <1>4 DEF InOrder
<1>6. guest'.got = buf[c]
  BY <1>0 DEF CollectUsed, QTypes, GuestTypes
<1> QED
  BY <1>5, <1>6

\* Each queue implements RequestQueue: every chain a driver posts is worked on
\* once, in the order it was posted, and returned once, whatever goroutines
\* serve the queue and however often the indices wrap (ProcessAvailRing and
\* ProcessSingleAvailNoIRQ); and packets reach the guest in the order of the
\* TAP (rxLoop of virtio_net.go).
THEOREM QueuesImplement ==
  ASSUME TornResets = FALSE
  PROVE  VQSpec => QueuesServe
<1>1. VQInit => QueueInv
  BY QueueInitial
<1>2. QueueInv /\ [VQNext]_vqVars => QueueInv'
  BY QueueStep
<1>3. VQInit => ReqQueue!RQInit /\ RxQueue!RQInit
  <2> SUFFICES ASSUME VQInit PROVE ReqQueue!RQInit /\ RxQueue!RQInit
    OBVIOUS
  <2>1. \A q \in Queues : Free(q) = Chains /\ Offered(q) = <<>> /\ Returned(q) = <<>>
    BY DEF VQInit, Free, Offered, Returned
  <2>2. \A q \in Queues : Worked(q) = FALSE
    BY DEF VQInit, Worked
  <2> QED
    BY <2>1, <2>2, QueueNames DEF ReqQueue!RQInit, RxQueue!RQInit
<1>4. QueueInv /\ [VQNext]_vqVars => [ReqQueue!RQNext]_(ReqQueue!rqVars) /\ [RxQueue!RQNext]_(RxQueue!rqVars)
  BY QueueMoves
<1>5. QueueInv /\ [VQNext]_vqVars => [CollectUsed(Rx) /\ resets = 0 => guest'.got > guest.got]_vqVars
  BY PacketIsNew
<1> QED
  BY <1>1, <1>2, <1>3, <1>4, <1>5, PTL
     DEF VQSpec, QueuesServe, PacketsInOrder, ReqQueue!RQSpec, RxQueue!RQSpec

-----------------------------------------------------------------------------
(* The serial console.                                                     *)

\* What makes UartSafe inductive: irqAsserted is what the wire carries, the
\* counters are numbers, and the buffer holds the bytes between the two.
UartInv ==
  /\ UTypeOK
  /\ typed \in 0..MaxInput /\ got \in 0..typed
  /\ dropped \in BOOLEAN
  /\ asserted = line
  /\ LineFollows /\ RxWhileInput /\ BytesInOrder

\* What updateIRQLocked leaves when irqAsserted and the wire agree.
LEMMA UpdateFacts ==
  ASSUME NEW lv, NEW mk, asserted = line, UpdateIRQ(lv, mk)
  PROVE  /\ asserted' = line'
         /\ line' = (lv \cap mk # {})
         /\ asserted' \in BOOLEAN /\ line' \in BOOLEAN
  BY DEF UpdateIRQ

\* The bytes after number a up to number b.
Bytes(a, b) == [i \in 1..(b - a) |-> a + i]

\* Such a run of bytes is a sequence, grows by the next ones and gives up its
\* first.
LEMMA BytesType ==
  ASSUME NEW a \in Nat, NEW b \in Nat, a <= b
  PROVE  /\ Bytes(a, b) \in Seq(Nat)
         /\ Len(Bytes(a, b)) = b - a
         /\ \A i \in 1..(b - a) : Bytes(a, b)[i] = a + i
  BY DEF Bytes

\* It fits the buffer of the model.
LEMMA BytesBound ==
  ASSUME NEW a \in Nat, NEW b \in Nat, a <= b, b <= MaxInput
  PROVE  Bytes(a, b) \in Seq(1..MaxInput)
  BY UartAssumption DEF Bytes

\* It is empty when nothing is outstanding.
LEMMA BytesEmpty ==
  ASSUME NEW a \in Nat, NEW b \in Nat, a <= b
  PROVE  Bytes(a, b) = <<>> <=> a = b
<1>1. Bytes(a, b) \in Seq(Nat) /\ Len(Bytes(a, b)) = b - a
  BY BytesType
<1>2. QED
  BY <1>1, EmptySeq

\* Typing appends the next bytes.
LEMMA AppendBytes ==
  ASSUME NEW a \in Nat, NEW b \in Nat, a <= b, NEW n \in Nat
  PROVE  Bytes(a, b) \o [i \in 1..n |-> b + i] = Bytes(a, b + n)
<1> DEFINE t == [i \in 1..n |-> b + i]
<1>1. t \in Seq(Nat) /\ Len(t) = n /\ \A i \in 1..n : t[i] = b + i
  OBVIOUS
<1> HIDE DEF t
<1>2. /\ Bytes(a, b) \in Seq(Nat) /\ Len(Bytes(a, b)) = b - a
      /\ \A i \in 1..(b - a) : Bytes(a, b)[i] = a + i
  BY BytesType
<1>3. /\ Bytes(a, b + n) \in Seq(Nat) /\ Len(Bytes(a, b + n)) = (b + n) - a
      /\ \A i \in 1..((b + n) - a) : Bytes(a, b + n)[i] = a + i
  <2>1. b + n \in Nat /\ a <= b + n
    OBVIOUS
  <2>2. QED
    BY <2>1, BytesType
<1>4. Bytes(a, b) \o t \in Seq(Nat) /\ Len(Bytes(a, b) \o t) = Len(Bytes(a, b + n))
  BY <1>1, <1>2, <1>3
<1>5. ASSUME NEW i \in 1..Len(Bytes(a, b) \o t) PROVE (Bytes(a, b) \o t)[i] = Bytes(a, b + n)[i]
  <2>1. i \in 1..(Len(Bytes(a, b)) + Len(t)) /\ i \in 1..((b + n) - a)
    BY <1>1, <1>2, <1>3, <1>4
  <2>2. (Bytes(a, b) \o t)[i] = IF i <= b - a THEN Bytes(a, b)[i] ELSE t[i - (b - a)]
    BY <1>1, <1>2, <2>1, ConcatProperties, SMTT(30)
  <2>3. QED
    BY <1>1, <1>2, <1>3, <2>1, <2>2
<1>6. Bytes(a, b) \o t = Bytes(a, b + n)
  BY <1>3, <1>4, <1>5, SeqEqual, Zenon
<1>7. QED
  BY <1>6 DEF t

\* Reading takes the first byte.
LEMMA HeadAndTailBytes ==
  ASSUME NEW a \in Nat, NEW b \in Nat, a < b
  PROVE  Head(Bytes(a, b)) = a + 1 /\ Tail(Bytes(a, b)) = Bytes(a + 1, b)
<1>1. /\ Bytes(a, b) \in Seq(Nat) /\ Len(Bytes(a, b)) = b - a /\ Bytes(a, b) # <<>>
      /\ \A i \in 1..(b - a) : Bytes(a, b)[i] = a + i
  BY BytesType, BytesEmpty
<1>2. /\ Bytes(a + 1, b) \in Seq(Nat) /\ Len(Bytes(a + 1, b)) = b - (a + 1)
      /\ \A i \in 1..(b - (a + 1)) : Bytes(a + 1, b)[i] = (a + 1) + i
  BY BytesType
<1>3. Head(Bytes(a, b)) = a + 1
  BY <1>1
<1>4. Tail(Bytes(a, b)) \in Seq(Nat) /\ Len(Tail(Bytes(a, b))) = Len(Bytes(a + 1, b))
  BY <1>1, <1>2
<1>5. ASSUME NEW i \in 1..Len(Tail(Bytes(a, b))) PROVE Tail(Bytes(a, b))[i] = Bytes(a + 1, b)[i]
  <2>1. Tail(Bytes(a, b))[i] = Bytes(a, b)[i + 1]
    BY <1>1, HeadTailProperties
  <2>2. i \in 1..(b - (a + 1)) /\ i + 1 \in 1..(b - a)
    BY <1>1, <1>2, <1>4
  <2>3. Bytes(a, b)[i + 1] = a + (i + 1) /\ Bytes(a + 1, b)[i] = (a + 1) + i
    BY <1>1, <1>2, <2>2
  <2>4. QED
    BY <2>1, <2>2, <2>3
<1>6. Tail(Bytes(a, b)) = Bytes(a + 1, b)
  BY <1>2, <1>4, <1>5, SeqEqual, Zenon
<1>7. QED
  BY <1>3, <1>6

\* The console starts in the invariant.
LEMMA UartInitial == UInit => UartInv
<1> SUFFICES ASSUME UInit PROVE UartInv
  OBVIOUS
<1>1. inputBuf = Bytes(got, typed) /\ inputBuf \in Seq(1..MaxInput)
  BY BytesEmpty, EmptySeq DEF UInit
<1>2. typed \in 0..MaxInput /\ got \in 0..typed
  BY UartAssumption DEF UInit
<1>3. UTypeOK
  BY <1>1 DEF UInit, UTypeOK
<1>4. LineFollows /\ RxWhileInput
  BY DEF UInit, LineFollows, RxWhileInput
<1>5. QED
  BY <1>1, <1>2, <1>3, <1>4 DEF UInit, UartInv, BytesInOrder, Bytes

\* Each operation of the serial console keeps the invariant.
LEMMA UartStep == UartInv /\ [UNext]_uartVars => UartInv'
<1> SUFFICES ASSUME UartInv, [UNext]_uartVars PROVE UartInv'
  OBVIOUS
<1>0. /\ MaxInput \in Nat /\ typed \in Nat /\ got \in Nat /\ got <= typed /\ typed <= MaxInput
      /\ inputBuf = Bytes(got, typed)
      /\ level \subseteq {RX, TX} /\ mask \subseteq {RX, TX} /\ dropped \in BOOLEAN
      /\ asserted = line /\ line = (level \cap mask # {})
      /\ (inputBuf # <<>> => RX \in level \/ dropped) /\ (RX \in level => inputBuf # <<>>)
  BY UartAssumption, SMTT(30) DEF UartInv, UTypeOK, LineFollows, RxWhileInput, BytesInOrder, Bytes
<1> DEFINE Counts == typed' \in Nat /\ got' \in Nat /\ got' <= typed' /\ typed' <= MaxInput
           Order == inputBuf' = Bytes(got', typed')
           Sets == /\ dropped' \in BOOLEAN
                   /\ level' \subseteq {RX, TX} /\ mask' \subseteq {RX, TX}
           Wire == asserted' = line' /\ line' = (level' \cap mask' # {})
           Receive == /\ inputBuf' # <<>> => RX \in level' \/ dropped'
                      /\ RX \in level' => inputBuf' # <<>>
           Kept == inputBuf' = inputBuf /\ typed' = typed /\ got' = got
<1>a. SUFFICES Counts /\ Order /\ Sets /\ Wire /\ Receive
  <2>1. inputBuf' \in Seq(1..MaxInput)
    BY <1>a, BytesBound
  <2>2. typed' \in 0..MaxInput /\ got' \in 0..typed'
    BY <1>0, <1>a
  <2>3. BytesInOrder'
    BY <1>a DEF BytesInOrder, Bytes
  <2>4. UTypeOK' /\ LineFollows' /\ RxWhileInput'
    BY <1>a, <2>1, Zenon DEF UTypeOK, LineFollows, RxWhileInput
  <2>5. QED
    BY <1>a, <2>2, <2>3, <2>4, Zenon DEF UartInv
<1>1. CASE \E n \in 1..2 : ReadInput(n)
  <2>1. PICK n \in 1..2 : ReadInput(n)
    BY <1>1
  <2>2. /\ typed' = typed + n /\ got' = got /\ typed + n <= MaxInput
        /\ level' = level \cup {RX} /\ mask' = mask /\ dropped' = FALSE
        /\ inputBuf' = inputBuf \o [i \in 1..n |-> typed + i]
    BY <2>1 DEF ReadInput
  <2>3. Counts
    BY <2>2, <1>0
  <2>4. Order
    <3>1. Bytes(got, typed) \o [i \in 1..n |-> typed + i] = Bytes(got, typed + n)
      <4>1. n \in Nat
        OBVIOUS
      <4>2. QED
        BY <1>0, <4>1, AppendBytes
    <3>2. QED
      BY <2>2, <1>0, <3>1, Zenon
  <2>5. inputBuf' # <<>>
    BY <2>2, <2>3, <2>4, <1>0, BytesEmpty
  <2>6. Sets /\ Receive
    BY <2>2, <2>5, <1>0, Zenon
  <2>7. Wire
    BY <2>1, <2>2, <1>0, UpdateFacts, Zenon DEF ReadInput
  <2>8. QED
    BY <2>3, <2>4, <2>6, <2>7
<1>2. CASE ReadByte
  <2>1. /\ inputBuf # <<>> /\ got' = Head(inputBuf) /\ inputBuf' = Tail(inputBuf)
        /\ typed' = typed /\ mask' = mask /\ dropped' = (dropped /\ inputBuf' # <<>>)
        /\ level' = IF inputBuf' = <<>> THEN level \ {RX} ELSE level
    BY <1>2 DEF ReadByte
  <2>2. got < typed
    BY <2>1, <1>0, BytesEmpty
  <2>3. got' = got + 1 /\ inputBuf' = Bytes(got + 1, typed)
    BY <2>1, <2>2, <1>0, HeadAndTailBytes
  <2>4. Counts /\ Order
    BY <2>1, <2>2, <2>3, <1>0
  <2>5. Sets /\ Receive
    BY <2>1, <1>0
  <2>6. Wire
    BY <1>2, <2>1, <1>0, UpdateFacts, Zenon DEF ReadByte
  <2>7. QED
    BY <2>4, <2>5, <2>6
<1>3. CASE WriteByte
  <2>1. Kept /\ level' = level \cup {TX} /\ mask' = mask /\ dropped' = dropped
    BY <1>3 DEF WriteByte
  <2>2. Wire
    BY <1>3, <2>1, <1>0, UpdateFacts, Zenon DEF WriteByte
  <2>3. Counts /\ Order
    BY <2>1, <1>0
  <2>4. Sets /\ Receive
    BY <2>1, <1>0 DEF RX, TX
  <2>5. QED
    BY <2>2, <2>3, <2>4
<1>4. CASE \E mk \in SUBSET {RX, TX} : SetMask(mk)
  <2>1. PICK mk \in SUBSET {RX, TX} : SetMask(mk)
    BY <1>4
  <2>2. Kept /\ level' = (IF TX \in mk THEN level \cup {TX} ELSE level) /\ mask' = mk
        /\ dropped' = dropped
    BY <2>1 DEF SetMask
  <2>3. Wire
    BY <2>1, <2>2, <1>0, UpdateFacts, Zenon DEF SetMask
  <2>4. Counts /\ Order
    BY <2>2, <1>0
  <2>5. Sets /\ Receive
    BY <2>2, <1>0 DEF RX, TX
  <2>6. QED
    BY <2>3, <2>4, <2>5
<1>5. CASE \E bits \in SUBSET {RX, TX} : ClearInterrupts(bits)
  <2>1. PICK bits \in SUBSET {RX, TX} : ClearInterrupts(bits)
    BY <1>5
  <2>2. Kept /\ level' = level \ bits /\ mask' = mask
        /\ dropped' = (dropped \/ (RX \in bits /\ inputBuf # <<>>))
    BY <2>1 DEF ClearInterrupts
  <2>3. Wire
    BY <2>1, <2>2, <1>0, UpdateFacts, Zenon DEF ClearInterrupts
  <2>4. Counts /\ Order
    BY <2>2, <1>0
  <2>5. Sets /\ Receive
    BY <2>2, <1>0
  <2>6. QED
    BY <2>3, <2>4, <2>5
<1>6. CASE UNCHANGED uartVars
  <2>1. Kept /\ level' = level /\ mask' = mask /\ dropped' = dropped /\ asserted' = asserted
        /\ line' = line
    BY <1>6 DEF uartVars
  <2>2. Counts /\ Order /\ Sets /\ Wire /\ Receive
    BY <2>1, <1>0, Zenon
  <2>3. QED
    BY <2>2
<1>7. QED
  BY <1>1, <1>2, <1>3, <1>4, <1>5, <1>6 DEF UNext

\* The wire always carries the masked status, the receive interrupt stands for
\* waiting input, and the guest reads exactly the bytes typed, in order: for
\* every amount of input and output.
THEOREM UartIsSafe == USpec => []UartSafe
<1>1. UartInv => UartSafe
  BY DEF UartInv, UartSafe
<1>2. QED
  BY UartInitial, UartStep, <1>1, PTL DEF USpec

-----------------------------------------------------------------------------
(* The machine.                                                            *)

\* Before Start has run no vCPU exists and nobody can have stopped the VM.
NotStarted ==
  boot \in {"new", "devices", "forwards", "start", "failed"} =>
    /\ \A c \in CPU : vpc[c] = "none"
    /\ vmstate = "stopped" /\ answer = NoReason /\ stopErr = NoReason

\* Start holds the state while it starts the threads, so a stop request finds
\* it starting; once it is done the VM is stopped exactly when it has answered.
StateFollowsBoot ==
  /\ boot = "starting" => vmstate = "starting" /\ answer = NoReason
  /\ boot = "running" => vmstate # "starting" /\ (vmstate = "stopped" <=> answer # NoReason)
  /\ boot = "returned" => vmstate = "stopped" /\ answer # NoReason

\* The guest's memory is mapped from NewVM until Boot returns.
MemoryIsMapped ==
  boot \in {"devices", "forwards", "start", "starting", "running"} => "memory" \in resources

\* Only a stopping VM has a reason, and the answer is made from it when the
\* last thread is gone.
ReasonOfStop ==
  /\ vmstate \in {"starting", "running"} => stopErr = NoReason
  /\ vmstate = "stopping" => stopErr # NoReason
  /\ answer # NoReason =>
       /\ \A c \in CPU : vpc[c] = "done"
       /\ answer = IF stopErr \in ErrorExits THEN stopErr ELSE "ok"

\* Unless a request came too early, the reason kept is the first one; a signal
\* that finds the VM answered adds none.
FirstIsKept ==
  ~early => first = stopErr \/ (stopErr = NoReason /\ answer = "ok" /\ first = HostStop)

MachineInv ==
  /\ KTypeOK /\ NotStarted /\ StateFollowsBoot /\ MemoryIsMapped /\ ReasonOfStop /\ FirstIsKept

\* A machine that was not booted satisfies the invariant.
LEMMA MachineInitial == KInit => MachineInv
  BY DEF KInit, MachineInv, KTypeOK, NotStarted, StateFollowsBoot, MemoryIsMapped, ReasonOfStop,
         FirstIsKept, Reasons, CleanExits, ErrorExits, NoReason, HostStop

\* Each step of Boot, of a signal and of a vCPU keeps the invariant.
LEMMA MachineStep == MachineInv /\ [KNext]_kVars => MachineInv'
<1> SUFFICES ASSUME MachineInv, [KNext]_kVars PROVE MachineInv'
  OBVIOUS
<1> USE DEF MachineInv, KTypeOK, NotStarted, StateFollowsBoot, MemoryIsMapped, ReasonOfStop,
            FirstIsKept, Reasons, CleanExits, ErrorExits, NoReason, HostStop, Mu
<1>1. CASE NewVM
  BY <1>1 DEF NewVM
<1>2. CASE AttachDevices
  BY <1>2 DEF AttachDevices
<1>3. CASE StartForwards
  BY <1>3 DEF StartForwards
<1>4. CASE StartVCPUs
  BY <1>4 DEF StartVCPUs
<1>5. CASE StartDone
  BY <1>5 DEF StartDone
<1>6. CASE AllReturned
  BY <1>6 DEF AllReturned
<1>7. CASE BootReturns
  BY <1>7 DEF BootReturns
<1>8. CASE StopSignals
  BY <1>8 DEF StopSignals
<1>9. CASE StopCloses
  BY <1>9 DEF StopCloses
<1>10. CASE Signal
  BY <1>10 DEF Signal
<1>11. CASE TakeSignal
  BY <1>11, ZenonT(40) DEF TakeSignal, StopBegin
<1>12. ASSUME NEW c \in CPU, VCPUStarts(c) PROVE MachineInv'
  BY <1>12 DEF VCPUStarts
<1>13. ASSUME NEW c \in CPU, VCPUChecks(c) PROVE MachineInv'
  BY <1>13 DEF VCPUChecks
<1>14. ASSUME NEW c \in CPU, VCPUEnters(c) PROVE MachineInv'
  BY <1>14 DEF VCPUEnters
<1>15. ASSUME NEW c \in CPU, VCPUExits(c) PROVE MachineInv'
  BY <1>15 DEF VCPUExits
<1>16. ASSUME NEW c \in CPU, VCPUStops(c) PROVE MachineInv'
  <2>1. PICK r \in CleanExits \cup ErrorExits :
          ended' = [ended EXCEPT ![c] = r] /\ StopBegin(r)
    BY <1>16 DEF VCPUStops
  <2>2. CASE vmstate = "running"
    BY <1>16, <2>1, <2>2, ZenonT(40) DEF VCPUStops, StopBegin
  <2>3. CASE vmstate # "running"
    BY <1>16, <2>1, <2>3, ZenonT(40) DEF VCPUStops, StopBegin
  <2> QED
    BY <2>2, <2>3
<1>17. CASE UNCHANGED kVars
  BY <1>17 DEF kVars
<1>18. QED
  BY <1>1, <1>2, <1>3, <1>4, <1>5, <1>6, <1>7, <1>8, <1>9, <1>10, <1>11, <1>12, <1>13, <1>14, <1>15, <1>16, <1>17 DEF KNext, RunVCPU

\* Boot releases the guest's memory only after every vCPU thread is gone, and
\* the answer it gives is the first reason that stopped the VM: for any number
\* of vCPUs and signals.
THEOREM MachineIsSafe == KSpec => []MachineSafe
<1>1. MachineInv => MachineSafe
  BY DEF MachineInv, MachineSafe, KTypeOK, NotStarted, StateFollowsBoot, MemoryIsMapped,
         ReasonOfStop, FirstIsKept, MappedWhileRunning, AnswerIsFirstReason, Reasons, CleanExits,
         ErrorExits, NoReason, HostStop
<1>2. QED
  BY MachineInitial, MachineStep, <1>1, PTL DEF KSpec
=============================================================================
