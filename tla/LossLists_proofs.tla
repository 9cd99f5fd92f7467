-------------------------- MODULE LossLists_proofs --------------------------
(***************************************************************************)
(* Both loss lists hold the lost packets and no others, wherever the       *)
(* window of the numbers is in the number space, for every size of the     *)
(* arrays: the sender's, provided that its buffer, which a dropped message *)
(* lets it count as sent, is smaller than its list; the receiver's,        *)
(* provided that no message is dropped whose numbers run past the largest  *)
(* one.                                                                    *)
(*                                                                         *)
(* The argument is about positions, which do not wrap.  w gives positions  *)
(* their sequence numbers and c their slots of the array: both are rings,  *)
(* and the code's arithmetic on numbers and slots is that of positions, as *)
(* long as they are within a window that fits the array.  A list is then a *)
(* set B of nodes, each the position of the first number of its range, and *)
(* a function E that gives the last: SndRep and RcvRep say how the arrays  *)
(* data1, data2, next and prior represent B and E.  One lemma per          *)
(* operation of the lists says which positions the new nodes cover, and    *)
(* SndHolds and RcvHolds hide the nodes.                                   *)
(***************************************************************************)
EXTENDS LossLists, FiniteSetTheorems, WellFoundedInduction, TLAPS

-----------------------------------------------------------------------------
(* Rings: numbers, and the slots of an array, that are given to one        *)
(* position after the other and start again.                               *)

LEMMA ModUnique ==
    ASSUME NEW n \in Nat \ {0}, NEW x \in Int, NEW q \in Int, NEW r \in 0 .. n - 1,
           x = n * q + r
    PROVE  x % n = r
OBVIOUS

LEMMA ModQuotient ==
    ASSUME NEW n \in Nat \ {0}, NEW x \in Int
    PROVE  x % n \in 0 .. n - 1 /\ \E q \in Int : x = n * q + (x % n)
<1>1. x \div n \in Int /\ x % n \in 0 .. n - 1
  OBVIOUS
<1>2. x = n * (x \div n) + (x % n)
  OBVIOUS
<1> QED
  BY <1>1, <1>2

LEMMA ModAdd ==
    ASSUME NEW n \in Nat \ {0}, NEW x \in Int, NEW d \in 0 .. n - 1
    PROVE  (x + d) % n = IF (x % n) + d < n THEN (x % n) + d ELSE (x % n) + d - n
<1>1. PICK q \in Int : x = n * q + (x % n)
  BY ModQuotient
<1>2. PICK r \in 0 .. n - 1 : r = x % n
  BY ModQuotient
<1>3. x = n * q + r /\ x + d \in Int
  BY <1>1, <1>2
<1>4. CASE r + d < n
  <2>1. r + d \in 0 .. n - 1
    BY <1>4
  <2>2. x + d = n * q + (r + d)
    BY <1>3
  <2>3. (x + d) % n = r + d
    BY <2>1, <2>2, <1>3, ModUnique
  <2> QED
    BY <2>3, <1>2, <1>4
<1>5. CASE ~(r + d < n)
  <2>1. r + d - n \in 0 .. n - 1
    BY <1>5
  <2>2. x + d = n * (q + 1) + (r + d - n)
    <3>1. n * (q + 1) = n * q + n
      OBVIOUS
    <3> QED
      BY <1>3, <3>1
  <2>3. (x + d) % n = r + d - n
    <3>1. q + 1 \in Int
      OBVIOUS
    <3> QED
      BY <2>1, <2>2, <3>1, <1>3, ModUnique
  <2> QED
    BY <2>3, <1>2, <1>5
<1> QED
  BY <1>4, <1>5

LEMMA ModSmall ==
    ASSUME NEW n \in Nat \ {0}, NEW x \in 0 .. n - 1
    PROVE  x % n = x /\ (x + n) % n = x /\ (x + n + n) % n = x
<1>1. x = n * 0 + x /\ x + n = n * 1 + x /\ x + n + n = n * 2 + x
  OBVIOUS
<1>2. x + n \in Int /\ x + n + n \in Int /\ 0 \in Int /\ 1 \in Int /\ 2 \in Int
  OBVIOUS
<1> QED
  BY <1>1, <1>2, ModUnique

Rings(n) ==
    {r \in [Int -> 0 .. n - 1] : \A x \in Int : \A d \in 0 .. n - 1 :
        r[x + d] = IF r[x] + d < n THEN r[x] + d ELSE r[x] + d - n}

\* One through a given place.
LEMMA RingThrough ==
    ASSUME NEW n \in Nat \ {0}, NEW p \in Int
    PROVE  \E r \in Rings(n) : r[p] = 0
<1> DEFINE r == [x \in Int |-> (x - p) % n]
<1>1. r \in [Int -> 0 .. n - 1]
  <2>1. \A x \in Int : x - p \in Int
    OBVIOUS
  <2> QED
    BY <2>1, ModQuotient
<1>2. ASSUME NEW x \in Int, NEW d \in 0 .. n - 1
      PROVE  r[x + d] = IF r[x] + d < n THEN r[x] + d ELSE r[x] + d - n
  <2>1. x - p \in Int /\ (x + d) - p = (x - p) + d /\ x + d \in Int
    OBVIOUS
  <2>2. ((x - p) + d) % n = IF ((x - p) % n) + d < n THEN ((x - p) % n) + d
                                                  ELSE ((x - p) % n) + d - n
    BY <2>1, ModAdd
  <2> QED
    BY <2>1, <2>2
<1>3. r[p] = 0
  <2>1. p - p = 0 /\ 0 \in 0 .. n - 1
    OBVIOUS
  <2> QED
    BY <2>1, ModSmall
<1>4. r \in Rings(n)
  BY <1>1, <1>2 DEF Rings
<1> QED
  BY <1>3, <1>4

LEMMA RingAt ==
    ASSUME NEW n \in Nat \ {0}, NEW r \in Rings(n), NEW x \in Int
    PROVE  r[x] \in Int /\ 0 <= r[x] /\ r[x] < n
<1>1. r[x] \in 0 .. n - 1
  BY DEF Rings
<1> QED
  BY <1>1

LEMMA RingAhead ==
    ASSUME NEW n \in Nat \ {0}, NEW r \in Rings(n), NEW x \in Int, NEW y \in Int,
           x <= y, y - x < n
    PROVE  \/ r[y] = r[x] + (y - x)
           \/ r[y] = r[x] + (y - x) - n
<1>1. y - x \in 0 .. n - 1 /\ x + (y - x) = y
  OBVIOUS
<1>2. r[x + (y - x)] = IF r[x] + (y - x) < n THEN r[x] + (y - x) ELSE r[x] + (y - x) - n
  BY <1>1 DEF Rings
<1> QED
  BY <1>1, <1>2

\* Places closer than the size are different ones.
LEMMA RingInjective ==
    ASSUME NEW n \in Nat \ {0}, NEW r \in Rings(n), NEW x \in Int, NEW y \in Int,
           x - y < n, y - x < n, r[x] = r[y]
    PROVE  x = y
<1>1. r[x] \in Int /\ r[y] \in Int
  BY RingAt
<1>2. CASE x <= y
  BY <1>1, <1>2, RingAhead
<1>3. CASE y <= x
  BY <1>1, <1>3, RingAhead
<1> QED
  BY <1>2, <1>3

\* How the code finds a place from another, with or without adding the size.
LEMMA RingOffset ==
    ASSUME NEW n \in Nat \ {0}, NEW r \in Rings(n), NEW x \in Int, NEW y \in Int,
           x - y < n, y - x < n
    PROVE  /\ (r[x] + (y - x) + n) % n = r[y]
           /\ x <= y => (r[x] + (y - x)) % n = r[y]
<1>1. /\ r[x] \in Int /\ 0 <= r[x] /\ r[x] < n
      /\ r[y] \in Int /\ 0 <= r[y] /\ r[y] < n
  BY RingAt
<1>2. r[y] \in 0 .. n - 1
  BY <1>1
<1>3. r[y] % n = r[y] /\ (r[y] + n) % n = r[y] /\ (r[y] + n + n) % n = r[y]
  BY <1>2, ModSmall
<1>4. CASE x <= y
  <2>1. r[y] = r[x] + (y - x) \/ r[y] = r[x] + (y - x) - n
    BY <1>4, RingAhead
  <2>2. r[x] + (y - x) = r[y] \/ r[x] + (y - x) = r[y] + n
    BY <2>1, <1>1
  <2> QED
    BY <2>2, <1>3
<1>5. CASE y < x
  <2>1. r[x] = r[y] + (x - y) \/ r[x] = r[y] + (x - y) - n
    BY <1>5, RingAhead
  <2>2. r[x] + (y - x) + n = r[y] + n \/ r[x] + (y - x) + n = r[y]
    BY <2>1, <1>1
  <2> QED
    BY <2>2, <1>3, <1>5
<1> QED
  BY <1>4, <1>5

LEMMA RingNext ==
    ASSUME NEW n \in Nat, n > 1, NEW r \in Rings(n), NEW x \in Int
    PROVE  (r[x] + 1) % n = r[x + 1] /\ (r[x] - 1 + n) % n = r[x - 1]
<1>1. /\ x + 1 \in Int /\ (x + 1) - x = 1 /\ x - (x + 1) < n
      /\ x - 1 \in Int /\ (x - 1) - x = -1 /\ x - (x - 1) < n
  OBVIOUS
<1>2. (r[x] + 1) % n = r[x + 1]
  BY <1>1, RingOffset
<1>3. (r[x] + (-1) + n) % n = r[x - 1]
  BY <1>1, RingOffset
<1>4. r[x] + (-1) = r[x] - 1
  BY RingAt
<1> QED
  BY <1>2, <1>3, <1>4

-----------------------------------------------------------------------------
(* Numbers as positions: w gives the packets their numbers.                *)

Wires == Rings(MaxSeqNo + 1)

LEMMA WireAt ==
    ASSUME NEW w \in Wires, NEW x \in Int
    PROVE  /\ w[x] \in SeqNos /\ w[x] \in Int /\ 0 <= w[x] /\ w[x] <= MaxSeqNo
           /\ w[x] # Nil
<1>1. MaxSeqNo + 1 \in Nat \ {0} /\ MaxSeqNo \in Nat
  BY SeqNoAssumption
<1>2. w[x] \in Int /\ 0 <= w[x] /\ w[x] < MaxSeqNo + 1
  BY <1>1, RingAt DEF Wires
<1> QED
  BY <1>1, <1>2 DEF SeqNos, Nil

LEMMA WireAhead ==
    ASSUME NEW w \in Wires, NEW x \in Int, NEW y \in Int, x <= y, y - x <= MaxSeqNo
    PROVE  \/ w[y] = w[x] + (y - x)
           \/ w[y] = w[x] + (y - x) - (MaxSeqNo + 1)
<1>1. MaxSeqNo + 1 \in Nat \ {0} /\ y - x < MaxSeqNo + 1
  BY SeqNoAssumption
<1> QED
  BY <1>1, RingAhead DEF Wires

\* seqoff and seqcmp are the differences and the order of positions.
LEMMA WireOffset ==
    ASSUME NEW w \in Wires, NEW x \in Int, NEW y \in Int,
           y - x < SeqNoTH, x - y < SeqNoTH
    PROVE  SeqOff(w[x], w[y]) = y - x
<1>1. /\ w[x] \in Int /\ 0 <= w[x] /\ w[x] <= MaxSeqNo
      /\ w[y] \in Int /\ 0 <= w[y] /\ w[y] <= MaxSeqNo
  BY WireAt
<1>2. y - x <= MaxSeqNo /\ x - y <= MaxSeqNo
  BY SeqNoAssumption
<1>3. CASE x <= y
  <2>1. w[y] = w[x] + (y - x) \/ w[y] = w[x] + (y - x) - (MaxSeqNo + 1)
    BY <1>2, <1>3, WireAhead
  <2> QED
    BY <1>1, <1>3, <2>1, SeqNoAssumption DEF SeqOff, Distance
<1>4. CASE y < x
  <2>1. w[x] = w[y] + (x - y) \/ w[x] = w[y] + (x - y) - (MaxSeqNo + 1)
    BY <1>2, <1>4, WireAhead
  <2> QED
    BY <1>1, <1>4, <2>1, SeqNoAssumption DEF SeqOff, Distance
<1> QED
  BY <1>3, <1>4

LEMMA WireOrder ==
    ASSUME NEW w \in Wires, NEW x \in Int, NEW y \in Int,
           y - x < SeqNoTH, x - y < SeqNoTH
    PROVE  /\ SeqCmp(w[x], w[y]) < 0 <=> x < y
           /\ SeqCmp(w[x], w[y]) <= 0 <=> x <= y
           /\ SeqCmp(w[x], w[y]) > 0 <=> x > y
           /\ SeqCmp(w[x], w[y]) >= 0 <=> x >= y
           /\ w[x] = w[y] <=> x = y
<1>1. /\ w[x] \in Int /\ 0 <= w[x] /\ w[x] <= MaxSeqNo
      /\ w[y] \in Int /\ 0 <= w[y] /\ w[y] <= MaxSeqNo
  BY WireAt
<1>2. y - x <= MaxSeqNo /\ x - y <= MaxSeqNo
  BY SeqNoAssumption
<1>3. CASE x < y
  <2>1. w[y] = w[x] + (y - x) \/ w[y] = w[x] + (y - x) - (MaxSeqNo + 1)
    BY <1>2, <1>3, WireAhead
  <2>2. SeqCmp(w[x], w[y]) \in Int /\ SeqCmp(w[x], w[y]) < 0 /\ w[x] # w[y]
    BY <1>1, <1>3, <2>1, SeqNoAssumption DEF SeqCmp, Distance
  <2> QED
    BY <2>2, <1>3
<1>4. CASE y < x
  <2>1. w[x] = w[y] + (x - y) \/ w[x] = w[y] + (x - y) - (MaxSeqNo + 1)
    BY <1>2, <1>4, WireAhead
  <2>2. SeqCmp(w[x], w[y]) \in Int /\ SeqCmp(w[x], w[y]) > 0 /\ w[x] # w[y]
    BY <1>1, <1>4, <2>1, SeqNoAssumption DEF SeqCmp, Distance
  <2> QED
    BY <2>2, <1>4
<1>5. CASE x = y
  <2>1. SeqCmp(w[x], w[y]) = 0
    BY <1>1, <1>5, SeqNoAssumption DEF SeqCmp, Distance
  <2> QED
    BY <2>1, <1>5
<1> QED
  BY <1>3, <1>4, <1>5

\* Numbers are different ones within less than a turn.
LEMMA WireInjective ==
    ASSUME NEW w \in Wires, NEW x \in Int, NEW y \in Int,
           y - x <= MaxSeqNo, x - y <= MaxSeqNo, w[x] = w[y]
    PROVE  x = y
<1>1. /\ MaxSeqNo + 1 \in Nat \ {0}
      /\ y - x < MaxSeqNo + 1 /\ x - y < MaxSeqNo + 1
  BY SeqNoAssumption
<1> QED
  BY <1>1, RingInjective DEF Wires

LEMMA WireLen ==
    ASSUME NEW w \in Wires, NEW x \in Int, NEW y \in Int, x <= y, y - x <= MaxSeqNo
    PROVE  SeqLen(w[x], w[y]) = y - x + 1
<1>1. /\ w[x] \in Int /\ 0 <= w[x] /\ w[x] <= MaxSeqNo
      /\ w[y] \in Int /\ 0 <= w[y] /\ w[y] <= MaxSeqNo
  BY WireAt
<1>2. w[y] = w[x] + (y - x) \/ w[y] = w[x] + (y - x) - (MaxSeqNo + 1)
  BY WireAhead
<1> QED
  BY <1>1, <1>2, SeqNoAssumption DEF SeqLen

LEMMA WireBy ==
    ASSUME NEW w \in Wires, NEW x \in Int, NEW d \in 0 .. MaxSeqNo
    PROVE  IncSeqBy(w[x], d) = w[x + d]
<1>1. /\ w[x] \in Int /\ 0 <= w[x] /\ w[x] <= MaxSeqNo
      /\ w[x + d] \in Int /\ 0 <= w[x + d] /\ w[x + d] <= MaxSeqNo
  BY WireAt
<1>2. w[x + d] = w[x] + d \/ w[x + d] = w[x] + d - (MaxSeqNo + 1)
  <2>1. x + d \in Int /\ (x + d) - x = d /\ x <= x + d /\ d <= MaxSeqNo
    BY SeqNoAssumption
  <2> QED
    BY <2>1, WireAhead
<1> QED
  BY <1>1, <1>2, SeqNoAssumption DEF IncSeqBy

LEMMA WireStep ==
    ASSUME NEW w \in Wires, NEW x \in Int
    PROVE  IncSeq(w[x]) = w[x + 1] /\ DecSeq(w[x]) = w[x - 1]
<1>1. /\ w[x] \in Int /\ 0 <= w[x] /\ w[x] <= MaxSeqNo
      /\ w[x + 1] \in Int /\ 0 <= w[x + 1] /\ w[x + 1] <= MaxSeqNo
      /\ w[x - 1] \in Int /\ 0 <= w[x - 1] /\ w[x - 1] <= MaxSeqNo
  BY WireAt
<1>2. 1 <= MaxSeqNo /\ MaxSeqNo \in Nat
  BY SeqNoAssumption
<1>3. w[x + 1] = w[x] + 1 \/ w[x + 1] = w[x] + 1 - (MaxSeqNo + 1)
  <2>1. x + 1 \in Int /\ (x + 1) - x = 1 /\ x <= x + 1
    OBVIOUS
  <2> QED
    BY <2>1, <1>2, WireAhead
<1>4. w[x] = w[x - 1] + 1 \/ w[x] = w[x - 1] + 1 - (MaxSeqNo + 1)
  <2>1. x - 1 \in Int /\ x - (x - 1) = 1 /\ x - 1 <= x
    OBVIOUS
  <2> QED
    BY <2>1, <1>2, WireAhead
<1>5. IncSeq(w[x]) = w[x + 1]
  BY <1>1, <1>2, <1>3 DEF IncSeq
<1>6. DecSeq(w[x]) = w[x - 1]
  BY <1>1, <1>2, <1>4 DEF DecSeq
<1> QED
  BY <1>5, <1>6

\* An offset within the window is not one of a number far behind or ahead.
LEMMA WireNear ==
    ASSUME NEW w \in Wires, NEW x \in Int, NEW y \in Int, x <= y, y - x < 2 * SeqNoTH,
           0 <= SeqOff(w[x], w[y]), SeqOff(w[x], w[y]) < SeqNoTH
    PROVE  SeqOff(w[x], w[y]) = y - x
<1>1. /\ w[x] \in Int /\ 0 <= w[x] /\ w[x] <= MaxSeqNo
      /\ w[y] \in Int /\ 0 <= w[y] /\ w[y] <= MaxSeqNo
  BY WireAt
<1>2. w[y] = w[x] + (y - x) \/ w[y] = w[x] + (y - x) - (MaxSeqNo + 1)
  <2>1. y - x <= MaxSeqNo
    BY SeqNoAssumption
  <2> QED
    BY <2>1, WireAhead
<1> QED
  BY <1>1, <1>2, SeqNoAssumption DEF SeqOff, Distance

\* Every number has a position, at its offset from any other.
LEMMA WireOf ==
    ASSUME NEW w \in Wires, NEW x \in Int, NEW s \in SeqNos
    PROVE  SeqOff(w[x], s) \in Int /\ w[x + SeqOff(w[x], s)] = s
<1>1. /\ w[x] \in Int /\ 0 <= w[x] /\ w[x] <= MaxSeqNo
      /\ s \in Int /\ 0 <= s /\ s <= MaxSeqNo /\ MaxSeqNo \in Nat
  BY WireAt, SeqNoAssumption DEF SeqNos
<1>2. PICK o : o = SeqOff(w[x], s)
  OBVIOUS
<1>3. /\ o \in Int /\ o <= MaxSeqNo /\ - o <= MaxSeqNo
      /\ s = w[x] + o \/ s = w[x] + o - (MaxSeqNo + 1) \/ s = w[x] + o + (MaxSeqNo + 1)
  BY <1>1, <1>2, SeqNoAssumption DEF SeqOff, Distance
<1>4. PICK y \in Int : y = x + o
  BY <1>3
<1>5. w[y] \in Int /\ 0 <= w[y] /\ w[y] <= MaxSeqNo
  BY WireAt
<1>6. w[y] = w[x] + o \/ w[y] = w[x] + o - (MaxSeqNo + 1) \/ w[y] = w[x] + o + (MaxSeqNo + 1)
  <2>1. CASE o >= 0
    <3>1. x <= y /\ y - x <= MaxSeqNo /\ y - x = o
      BY <1>3, <1>4, <2>1
    <3>2. w[y] = w[x] + (y - x) \/ w[y] = w[x] + (y - x) - (MaxSeqNo + 1)
      BY <3>1, WireAhead
    <3> QED
      BY <3>1, <3>2
  <2>2. CASE o < 0
    <3>1. y <= x /\ x - y <= MaxSeqNo /\ x - y = - o
      BY <1>3, <1>4, <2>2
    <3>2. w[x] = w[y] + (x - y) \/ w[x] = w[y] + (x - y) - (MaxSeqNo + 1)
      BY <3>1, WireAhead
    <3> QED
      BY <1>1, <1>3, <1>5, <3>1, <3>2
  <2> QED
    BY <1>3, <2>1, <2>2
<1>7. w[y] = s
  BY <1>1, <1>3, <1>5, <1>6
<1> QED
  BY <1>2, <1>3, <1>4, <1>7

\* The numbers of positions.
WireSet(w, P) == {w[x] : x \in P}

LEMMA WireSeqRange ==
    ASSUME NEW w \in Wires, NEW x \in Int, NEW y \in Int, x <= y + 1, y + 1 - x <= MaxSeqNo
    PROVE  SeqRange(w[x], w[y]) = WireSet(w, x .. y)
<1>1. MaxSeqNo \in Nat
  BY SeqNoAssumption
<1>2. IncSeq(w[y]) = w[y + 1] /\ y + 1 \in Int
  BY WireStep
<1>3. CASE x = y + 1
  BY <1>2, <1>3 DEF SeqRange, WireSet
<1>4. CASE x <= y
  <2>1. w[x] # w[y + 1]
    BY <1>1, <1>2, <1>4, WireInjective
  <2>2. SeqLen(w[x], w[y]) = y - x + 1
    BY <1>1, <1>4, WireLen
  <2>3. SeqRange(w[x], w[y]) = {IncSeqBy(w[x], d) : d \in 0 .. y - x}
    <3>1. SeqLen(w[x], w[y]) - 1 = y - x
      BY <2>2
    <3> QED
      BY <2>1, <3>1, <1>2 DEF SeqRange
  <2>4. \A d \in 0 .. y - x : IncSeqBy(w[x], d) = w[x + d] /\ x + d \in x .. y
    <3> TAKE d \in 0 .. y - x
    <3>1. d \in 0 .. MaxSeqNo
      BY <1>1
    <3> QED
      BY <3>1, WireBy
  <2>5. \A z \in x .. y : z - x \in 0 .. y - x /\ x + (z - x) = z
    OBVIOUS
  <2>6. ASSUME NEW s PROVE s \in SeqRange(w[x], w[y]) => s \in WireSet(w, x .. y)
    BY <2>3, <2>4 DEF WireSet
  <2>7. ASSUME NEW s PROVE s \in WireSet(w, x .. y) => s \in SeqRange(w[x], w[y])
    <3> SUFFICES ASSUME NEW z \in x .. y, s = w[z] PROVE s \in SeqRange(w[x], w[y])
      BY DEF WireSet
    <3>1. z - x \in 0 .. y - x /\ IncSeqBy(w[x], z - x) = w[z]
      BY <2>4, <2>5
    <3> QED
      BY <3>1, <2>3
  <2> QED
    BY <2>6, <2>7
<1> QED
  BY <1>3, <1>4
-----------------------------------------------------------------------------
(* Loops: a recursive function that applies F until it gets into Stop.     *)

IsLoop(g, X, Stop, F) ==
    /\ g = [x \in X |-> g[x]]
    /\ \A x \in X : g[x] = IF x \in Stop THEN x ELSE g[F[x]]

StaysIn(X, Stop, F) == \A x \in X : x \notin Stop => F[x] \in X

Decreases(V, I, Stop, F) ==
    V \in [I -> Nat] /\ \A x \in I : x \notin Stop => F[x] \in I /\ V[F[x]] < V[x]

\* The loop at x ends at y, after n steps.
Trace(X, Stop, F, x, y, n, t) ==
    /\ t \in [0 .. n -> X] /\ t[0] = x /\ t[n] = y /\ y \in Stop
    /\ \A i \in 0 .. n - 1 : t[i] \notin Stop /\ t[i + 1] = F[t[i]]

Ends(X, Stop, F, x) == {y \in X : \E n \in Nat : \E t : Trace(X, Stop, F, x, y, n, t)}

LEMMA EndsAtStop ==
    ASSUME NEW X, NEW Stop, NEW F, NEW x \in X, x \in Stop
    PROVE  Ends(X, Stop, F, x) = {x}
<1>1. x \in Ends(X, Stop, F, x)
  <2> DEFINE t == [i \in 0 .. 0 |-> x]
  <2>1. Trace(X, Stop, F, x, x, 0, t)
    BY DEF Trace
  <2> QED
    BY <2>1 DEF Ends
<1>2. ASSUME NEW y \in Ends(X, Stop, F, x) PROVE y = x
  <2>0. PICK n \in Nat : \E t : Trace(X, Stop, F, x, y, n, t)
    BY DEF Ends
  <2>1. PICK t : Trace(X, Stop, F, x, y, n, t)
    BY <2>0
  <2>2. n = 0
    <3> SUFFICES ASSUME n # 0 PROVE FALSE
      OBVIOUS
    <3>1. 0 \in 0 .. n - 1
      OBVIOUS
    <3> QED
      BY <3>1, <2>1 DEF Trace
  <2> QED
    BY <2>1, <2>2 DEF Trace
<1> QED
  BY <1>1, <1>2

LEMMA EndsAfterStep ==
    ASSUME NEW X, NEW Stop, NEW F, NEW x \in X, x \notin Stop, F[x] \in X
    PROVE  Ends(X, Stop, F, x) = Ends(X, Stop, F, F[x])
<1>1. ASSUME NEW y \in Ends(X, Stop, F, x) PROVE y \in Ends(X, Stop, F, F[x])
  <2>0. PICK n \in Nat : \E t : Trace(X, Stop, F, x, y, n, t)
    BY DEF Ends
  <2>1. PICK t : Trace(X, Stop, F, x, y, n, t)
    BY <2>0
  <2>2. n # 0
    BY <2>1 DEF Trace
  <2>3. n - 1 \in Nat
    BY <2>2
  <2> DEFINE u == [i \in 0 .. n - 1 |-> t[i + 1]]
  <2>4. \A i \in 0 .. n - 1 : i + 1 \in 0 .. n /\ u[i] = t[i + 1]
    OBVIOUS
  <2>5. u \in [0 .. n - 1 -> X]
    BY <2>1, <2>4 DEF Trace
  <2>6. u[0] = F[x]
    <3>1. 0 \in 0 .. n - 1 /\ 0 + 1 = 1
      BY <2>3
    <3> QED
      BY <3>1, <2>1 DEF Trace
  <2>7. u[n - 1] = y
    <3>1. n - 1 \in 0 .. n - 1 /\ (n - 1) + 1 = n
      BY <2>3
    <3> QED
      BY <3>1, <2>1 DEF Trace
  <2>8. \A i \in 0 .. (n - 1) - 1 : u[i] \notin Stop /\ u[i + 1] = F[u[i]]
    <3> TAKE i \in 0 .. (n - 1) - 1
    <3>1. i \in 0 .. n - 1 /\ i + 1 \in 0 .. n - 1
      OBVIOUS
    <3>2. u[i] = t[i + 1] /\ u[i + 1] = t[(i + 1) + 1]
      BY <3>1
    <3>3. t[i + 1] \notin Stop /\ t[(i + 1) + 1] = F[t[i + 1]]
      BY <3>1, <2>1 DEF Trace
    <3> QED
      BY <3>2, <3>3
  <2> HIDE DEF u
  <2>9. Trace(X, Stop, F, F[x], y, n - 1, u)
    BY <2>1, <2>5, <2>6, <2>7, <2>8 DEF Trace
  <2> QED
    BY <2>3, <2>9 DEF Ends
<1>2. ASSUME NEW y \in Ends(X, Stop, F, F[x]) PROVE y \in Ends(X, Stop, F, x)
  <2>0. PICK n \in Nat : \E t : Trace(X, Stop, F, F[x], y, n, t)
    BY DEF Ends
  <2>1. PICK t : Trace(X, Stop, F, F[x], y, n, t)
    BY <2>0
  <2> DEFINE u == [i \in 0 .. n + 1 |-> IF i = 0 THEN x ELSE t[i - 1]]
  <2>2. \A i \in 1 .. n + 1 : i - 1 \in 0 .. n /\ i \in 0 .. n + 1 /\ u[i] = t[i - 1]
    OBVIOUS
  <2>3. u[0] = x
    OBVIOUS
  <2>4. u \in [0 .. n + 1 -> X]
    <3>1. \A i \in 0 .. n + 1 : i # 0 => i - 1 \in 0 .. n
      OBVIOUS
    <3> QED
      BY <2>1, <3>1 DEF Trace
  <2>5. u[n + 1] = y
    <3>1. n + 1 \in 1 .. n + 1 /\ (n + 1) - 1 = n
      OBVIOUS
    <3> QED
      BY <3>1, <2>1, <2>2 DEF Trace
  <2>6. \A i \in 0 .. (n + 1) - 1 : u[i] \notin Stop /\ u[i + 1] = F[u[i]]
    <3> TAKE i \in 0 .. (n + 1) - 1
    <3>1. i + 1 \in 1 .. n + 1 /\ (i + 1) - 1 = i
      OBVIOUS
    <3>2. u[i + 1] = t[i]
      BY <3>1, <2>2
    <3>3. CASE i = 0
      BY <3>2, <3>3, <2>1, <2>3 DEF Trace
    <3>4. CASE i # 0
      <4>1. i \in 1 .. n + 1 /\ i - 1 \in 0 .. n - 1 /\ (i - 1) + 1 = i
        BY <3>4
      <4>2. u[i] = t[i - 1]
        BY <4>1, <2>2
      <4>3. t[i - 1] \notin Stop /\ t[(i - 1) + 1] = F[t[i - 1]]
        BY <4>1, <2>1 DEF Trace
      <4> QED
        BY <4>1, <4>2, <4>3, <3>2
    <3> QED
      BY <3>3, <3>4
  <2> HIDE DEF u
  <2>7. Trace(X, Stop, F, x, y, n + 1, u) /\ n + 1 \in Nat
    BY <2>1, <2>3, <2>4, <2>5, <2>6 DEF Trace
  <2> QED
    BY <2>7, <2>1 DEF Ends
<1> QED
  BY <1>1, <1>2

\* So the loop is a function, even where it would not end.
LEMMA LoopExists ==
    ASSUME NEW X, NEW Stop, NEW F, StaysIn(X, Stop, F)
    PROVE  \E g : IsLoop(g, X, Stop, F)
<1> DEFINE E == [x \in X |-> Ends(X, Stop, F, x)]
           g == [x \in X |-> CHOOSE y : y \in E[x]]
<1>1. ASSUME NEW x \in X, x \in Stop PROVE g[x] = x
  <2>1. E[x] = {x}
    BY <1>1, EndsAtStop
  <2> QED
    BY <2>1
<1>2. ASSUME NEW x \in X, x \notin Stop PROVE g[x] = g[F[x]]
  <2>1. F[x] \in X
    BY <1>2 DEF StaysIn
  <2>2. E[x] = E[F[x]]
    BY <1>2, <2>1, EndsAfterStep
  <2> HIDE DEF E
  <2> QED
    BY <2>1, <2>2
<1>3. \A x \in X : g[x] = IF x \in Stop THEN x ELSE g[F[x]]
  BY <1>1, <1>2
<1>4. g = [x \in X |-> g[x]]
  OBVIOUS
<1> HIDE DEF g
<1> QED
  BY <1>3, <1>4 DEF IsLoop

\* The least element of a set of natural numbers.
LEMMA LeastOfNat ==
    ASSUME NEW S \in SUBSET Nat, S # {}
    PROVE  \E x \in S : \A y \in S : x <= y
<1> DEFINE R == OpToRel(<, Nat)
<1>1. IsWellFoundedOn(R, Nat)
  BY NatLessThanWellFounded
<1> HIDE DEF R
<1>2. PICK x \in S : \A y \in S : <<y, x>> \notin R
  BY <1>1, WFMin
<1>3. \A y \in S : ~(y < x)
  BY <1>2 DEF R, OpToRel
<1> QED
  BY <1>3

\* Where a variant decreases, the loop ends within its invariant.
LEMMA LoopEnds ==
    ASSUME NEW X, NEW Stop, NEW F, NEW g, IsLoop(g, X, Stop, F),
           NEW I \in SUBSET X, NEW V, Decreases(V, I, Stop, F)
    PROVE  \A x \in I : g[x] \in I \cap Stop
<1> DEFINE Bad == {x \in I : g[x] \notin I \cap Stop}
           Values == {V[x] : x \in Bad}
<1>1. /\ \A x \in X : g[x] = IF x \in Stop THEN x ELSE g[F[x]]
      /\ V \in [I -> Nat]
  BY DEF IsLoop, Decreases
<1> SUFFICES ASSUME Bad # {} PROVE FALSE
  OBVIOUS
<1>2. Values \in SUBSET Nat /\ Values # {}
  <2>1. Bad \subseteq I /\ \A x \in I : V[x] \in Nat
    BY <1>1
  <2> HIDE DEF Bad
  <2> QED
    BY <2>1
<1>3. PICK v \in Values : \A u \in Values : v <= u
  BY <1>2, LeastOfNat
<1>4. PICK x \in Bad : v = V[x]
  BY <1>3
<1>5. x \notin Stop
  BY <1>1, <1>4
<1>6. F[x] \in I /\ V[F[x]] < V[x] /\ g[x] = g[F[x]]
  BY <1>1, <1>4, <1>5 DEF Decreases
<1>7. F[x] \in Bad
  BY <1>4, <1>6
<1>8. V[x] <= V[F[x]]
  BY <1>3, <1>4, <1>7
<1>9. V[x] \in Nat /\ V[F[x]] \in Nat
  BY <1>1, <1>4, <1>6
<1> QED
  BY <1>6, <1>8, <1>9

-----------------------------------------------------------------------------
(* Both lists as sets of nodes.  A node is the position b of its first     *)
(* number; E[b] is that of its last one.  Array c gives positions their    *)
(* slots.  All of them are within lo .. hi, a window that fits the array.  *)

Window(n, w, c, lo, hi) ==
    /\ n \in Nat \ {0} /\ n <= SeqNoTH
    /\ w \in Wires /\ c \in Rings(n)
    /\ lo \in Int /\ hi \in Int /\ hi - lo < n

LEMMA WindowFacts ==
    ASSUME NEW n, NEW w, NEW c, NEW lo, NEW hi, Window(n, w, c, lo, hi)
    PROVE  /\ \A x \in lo .. hi : c[x] \in 0 .. n - 1 /\ c[x] # Nil
           /\ \A x, y \in lo .. hi : c[x] = c[y] => x = y
           /\ \A x \in lo .. hi : w[x] \in SeqNos /\ w[x] # Nil
           /\ \A x, y \in lo .. hi :
                /\ SeqCmp(w[x], w[y]) < 0 <=> x < y
                /\ SeqCmp(w[x], w[y]) <= 0 <=> x <= y
                /\ SeqCmp(w[x], w[y]) > 0 <=> x > y
                /\ SeqCmp(w[x], w[y]) >= 0 <=> x >= y
                /\ w[x] = w[y] <=> x = y
<1>1. \A x \in lo .. hi : c[x] \in 0 .. n - 1 /\ c[x] # Nil
  <2> TAKE x \in lo .. hi
  <2>1. x \in Int /\ n \in Nat \ {0} /\ c \in Rings(n)
    BY DEF Window
  <2>2. c[x] \in Int /\ 0 <= c[x] /\ c[x] < n
    BY <2>1, RingAt
  <2> QED
    BY <2>1, <2>2 DEF Nil
<1>2. \A x, y \in lo .. hi : x \in Int /\ y \in Int /\ x - y < n /\ y - x < n
                              /\ y - x < SeqNoTH /\ x - y < SeqNoTH
  BY SeqNoAssumption DEF Window
<1>3. \A x, y \in lo .. hi : c[x] = c[y] => x = y
  BY <1>2, RingInjective DEF Window
<1>4. \A x \in lo .. hi : w[x] \in SeqNos /\ w[x] # Nil
  BY WireAt DEF Window
<1>5. ASSUME NEW x \in lo .. hi, NEW y \in lo .. hi
      PROVE  /\ SeqCmp(w[x], w[y]) < 0 <=> x < y
             /\ SeqCmp(w[x], w[y]) <= 0 <=> x <= y
             /\ SeqCmp(w[x], w[y]) > 0 <=> x > y
             /\ SeqCmp(w[x], w[y]) >= 0 <=> x >= y
             /\ w[x] = w[y] <=> x = y
  BY <1>2, WireOrder DEF Window
<1> QED
  BY <1>1, <1>3, <1>4, <1>5

\* The second number of a node, which a range of one does not have.
LastData(w, b, e) == IF e = b THEN Nil ELSE w[e]

Stored(d1, d2, n, w, c, B, E) ==
    /\ d1 \in [0 .. n - 1 -> SeqNos \cup {Nil}] /\ d2 \in [0 .. n - 1 -> SeqNos \cup {Nil}]
    /\ \A b \in B : d1[c[b]] = w[b] /\ d2[c[b]] = LastData(w, b, E[b])
    /\ \A i \in 0 .. n - 1 : (\A b \in B : c[b] # i) => d1[i] = Nil /\ d2[i] = Nil

LEMMA StoredPut ==
    ASSUME NEW n, NEW w, NEW c, NEW lo, NEW hi, Window(n, w, c, lo, hi),
           NEW B \in SUBSET (lo .. hi), NEW E \in [Int -> Int],
           NEW p \in lo .. hi, NEW e \in lo .. hi,
           NEW F \in [Int -> Int], F[p] = e, \A b \in B : b # p => F[b] = E[b],
           NEW d1, NEW d2, Stored(d1, d2, n, w, c, B, E),
           NEW f1, f1 = [d1 EXCEPT ![c[p]] = w[p]],
           NEW f2, f2 = [d2 EXCEPT ![c[p]] = LastData(w, p, e)]
    PROVE  Stored(f1, f2, n, w, c, B \cup {p}, F)
<1> DEFINE C == B \cup {p}
<1>1. /\ \A x \in lo .. hi : c[x] \in 0 .. n - 1 /\ w[x] \in SeqNos
      /\ \A x, y \in lo .. hi : c[x] = c[y] => x = y
  BY WindowFacts
<1>2. w[p] \in SeqNos \cup {Nil} /\ LastData(w, p, e) \in SeqNos \cup {Nil}
  BY <1>1 DEF LastData
<1>3. /\ d1 \in [0 .. n - 1 -> SeqNos \cup {Nil}] /\ d2 \in [0 .. n - 1 -> SeqNos \cup {Nil}]
      /\ \A b \in B : d1[c[b]] = w[b] /\ d2[c[b]] = LastData(w, b, E[b])
      /\ \A i \in 0 .. n - 1 : (\A b \in B : c[b] # i) => d1[i] = Nil /\ d2[i] = Nil
  BY DEF Stored
<1>4. /\ f1 \in [0 .. n - 1 -> SeqNos \cup {Nil}] /\ f2 \in [0 .. n - 1 -> SeqNos \cup {Nil}]
  BY <1>2, <1>3
<1>5. f1[c[p]] = w[p] /\ f2[c[p]] = LastData(w, p, e) /\ F[p] = e
  <2>1. p \in Int
    OBVIOUS
  <2> QED
    BY <1>1, <1>3, <2>1
<1>6. \A i \in 0 .. n - 1 : i # c[p] => f1[i] = d1[i] /\ f2[i] = d2[i]
  BY <1>3
<1>7. \A b \in B : b # p => c[b] # c[p] /\ F[b] = E[b] /\ c[b] \in 0 .. n - 1
  <2>1. \A b \in B : b \in lo .. hi /\ b \in Int
    OBVIOUS
  <2> QED
    BY <1>1, <2>1
<1>8. ASSUME NEW b \in C PROVE f1[c[b]] = w[b] /\ f2[c[b]] = LastData(w, b, F[b])
  <2>1. CASE b = p
    BY <1>5, <2>1
  <2>2. CASE b # p
    <3>1. b \in B /\ c[b] # c[p] /\ F[b] = E[b] /\ c[b] \in 0 .. n - 1
      BY <1>7, <2>2
    <3>2. f1[c[b]] = d1[c[b]] /\ f2[c[b]] = d2[c[b]]
      BY <1>6, <3>1
    <3> QED
      BY <1>3, <3>1, <3>2
  <2> QED
    BY <2>1, <2>2
<1>9. \A i \in 0 .. n - 1 : (\A b \in C : c[b] # i) => f1[i] = Nil /\ f2[i] = Nil
  BY <1>3, <1>6
<1>10. Stored(f1, f2, n, w, c, C, F)
  BY <1>4, <1>8, <1>9 DEF Stored
<1> QED
  BY <1>10

LEMMA StoredDelete ==
    ASSUME NEW n, NEW w, NEW c, NEW lo, NEW hi, Window(n, w, c, lo, hi),
           NEW B \in SUBSET (lo .. hi), NEW E \in [Int -> Int], NEW p \in lo .. hi,
           NEW d1, NEW d2, Stored(d1, d2, n, w, c, B, E),
           NEW f1, f1 = [d1 EXCEPT ![c[p]] = Nil],
           NEW f2, f2 = [d2 EXCEPT ![c[p]] = Nil]
    PROVE  Stored(f1, f2, n, w, c, B \ {p}, E)
<1>1. /\ \A x \in lo .. hi : c[x] \in 0 .. n - 1
      /\ \A x, y \in lo .. hi : c[x] = c[y] => x = y
  BY WindowFacts
<1>3. /\ d1 \in [0 .. n - 1 -> SeqNos \cup {Nil}] /\ d2 \in [0 .. n - 1 -> SeqNos \cup {Nil}]
      /\ \A b \in B : d1[c[b]] = w[b] /\ d2[c[b]] = LastData(w, b, E[b])
      /\ \A i \in 0 .. n - 1 : (\A b \in B : c[b] # i) => d1[i] = Nil /\ d2[i] = Nil
  BY DEF Stored
<1>4. /\ f1 \in [0 .. n - 1 -> SeqNos \cup {Nil}] /\ f2 \in [0 .. n - 1 -> SeqNos \cup {Nil}]
      /\ f1[c[p]] = Nil /\ f2[c[p]] = Nil
  BY <1>1, <1>3
<1>5. \A i \in 0 .. n - 1 : i # c[p] => f1[i] = d1[i] /\ f2[i] = d2[i]
  BY <1>3
<1>6. \A b \in B \ {p} : c[b] # c[p] /\ c[b] \in 0 .. n - 1
  BY <1>1
<1>7. \A b \in B \ {p} : f1[c[b]] = w[b] /\ f2[c[b]] = LastData(w, b, E[b])
  BY <1>3, <1>5, <1>6
<1>8. ASSUME NEW i \in 0 .. n - 1, \A b \in B \ {p} : c[b] # i PROVE f1[i] = Nil /\ f2[i] = Nil
  <2>1. CASE i = c[p]
    BY <2>1, <1>4
  <2>2. CASE i # c[p]
    BY <2>2, <1>3, <1>5, <1>8
  <2> QED
    BY <2>1, <2>2
<1>9. Stored(f1, f2, n, w, c, B \ {p}, E)
  BY <1>4, <1>7, <1>8 DEF Stored
<1> QED
  BY <1>9
-----------------------------------------------------------------------------
(* The links.                                                              *)

\* d is the node after b.
Follows(B, b, d) == b < d /\ \A x \in B : x <= b \/ d <= x

IsFirst(B, b) == \A d \in B : b <= d
IsLast(B, b) == \A d \in B : d <= b

Linked(nx, n, c, B) ==
    /\ nx \in [0 .. n - 1 -> (0 .. n - 1) \cup {Nil}]
    /\ \A b \in B : IsLast(B, b) => nx[c[b]] = Nil
    /\ \A b, d \in B : Follows(B, b, d) => nx[c[b]] = c[d]

HeadIs(head, c, B) ==
    /\ B = {} => head = Nil
    /\ \A b \in B : IsFirst(B, b) => head = c[b]

LEMMA LeastInt ==
    ASSUME NEW lo \in Int, NEW hi \in Int, NEW B \in SUBSET (lo .. hi), B # {}
    PROVE  \E b \in B : IsFirst(B, b)
<1> DEFINE S == {b - lo : b \in B}
<1>1. \A b \in B : b \in Int /\ b - lo \in Nat
  OBVIOUS
<1>2. S \in SUBSET Nat /\ S # {}
  BY <1>1
<1>3. PICK x \in S : \A y \in S : x <= y
  BY <1>2, LeastOfNat
<1>4. PICK b \in B : x = b - lo
  BY <1>3
<1>5. \A d \in B : b - lo <= d - lo
  BY <1>3, <1>4
<1>6. \A d \in B : b <= d
  BY <1>1, <1>5
<1> QED
  BY <1>6 DEF IsFirst

LEMMA GreatestInt ==
    ASSUME NEW lo \in Int, NEW hi \in Int, NEW B \in SUBSET (lo .. hi), B # {}
    PROVE  \E b \in B : IsLast(B, b)
<1> DEFINE S == {hi - b : b \in B}
<1>1. \A b \in B : b \in Int /\ hi - b \in Nat
  OBVIOUS
<1>2. S \in SUBSET Nat /\ S # {}
  BY <1>1
<1>3. PICK x \in S : \A y \in S : x <= y
  BY <1>2, LeastOfNat
<1>4. PICK b \in B : x = hi - b
  BY <1>3
<1>5. \A d \in B : hi - b <= hi - d
  BY <1>3, <1>4
<1>6. \A d \in B : d <= b
  BY <1>1, <1>5
<1> QED
  BY <1>6 DEF IsLast

\* A node that is not the last has one after it.
LEMMA FollowerExists ==
    ASSUME NEW lo \in Int, NEW hi \in Int, NEW B \in SUBSET (lo .. hi), NEW b \in B,
           ~IsLast(B, b)
    PROVE  \E d \in B : Follows(B, b, d)
<1> DEFINE S == {d \in B : b < d}
<1>1. \A d \in B : d \in Int
  OBVIOUS
<1>2. S \in SUBSET (lo .. hi) /\ S # {}
  <2>1. PICK d \in B : ~(d <= b)
    BY DEF IsLast
  <2>2. d \in S
    BY <1>1, <2>1
  <2> QED
    BY <2>2
<1>3. PICK d \in S : IsFirst(S, d)
  BY <1>2, LeastInt
<1>4. \A x \in B : x <= b \/ d <= x
  BY <1>1, <1>3 DEF IsFirst
<1> QED
  BY <1>3, <1>4 DEF Follows

\* b is the last node before p.
Below(B, b, p) == b < p /\ \A x \in B : x <= b \/ p <= x

LEMMA NodeBelow ==
    ASSUME NEW lo \in Int, NEW hi \in Int, NEW B \in SUBSET (lo .. hi), NEW p \in Int,
           NEW a \in B, a < p
    PROVE  \E b \in B : Below(B, b, p)
<1> DEFINE S == {d \in B : d < p}
<1>1. \A d \in B : d \in Int
  OBVIOUS
<1>2. S \in SUBSET (lo .. hi) /\ S # {}
  OBVIOUS
<1>3. PICK d \in S : IsLast(S, d)
  BY <1>2, GreatestInt
<1>4. \A x \in B : x <= d \/ p <= x
  BY <1>1, <1>3 DEF IsLast
<1> QED
  BY <1>3, <1>4 DEF Below

\* What the link of a node says.
LEMMA LinkIs ==
    ASSUME NEW n, NEW w, NEW c, NEW lo, NEW hi, Window(n, w, c, lo, hi),
           NEW B \in SUBSET (lo .. hi), NEW b \in B, NEW nx, Linked(nx, n, c, B)
    PROVE  \/ IsLast(B, b) /\ nx[c[b]] = Nil
           \/ \E d \in B : Follows(B, b, d) /\ nx[c[b]] = c[d] /\ nx[c[b]] # Nil
<1>1. lo \in Int /\ hi \in Int
  BY DEF Window
<1>2. CASE IsLast(B, b)
  BY <1>2 DEF Linked
<1>3. CASE ~IsLast(B, b)
  <2>1. PICK d \in B : Follows(B, b, d)
    BY <1>1, <1>3, FollowerExists
  <2>2. nx[c[b]] = c[d] /\ c[d] # Nil
    BY <2>1, WindowFacts DEF Linked
  <2> QED
    BY <2>1, <2>2
<1> QED
  BY <1>2, <1>3

\* A node before all others.
LEMMA LinkFirst ==
    ASSUME NEW n, NEW w, NEW c, NEW lo, NEW hi, Window(n, w, c, lo, hi),
           NEW B \in SUBSET (lo .. hi), NEW p \in lo .. hi, \A b \in B : p < b,
           NEW nx, Linked(nx, n, c, B), NEW head, HeadIs(head, c, B),
           NEW f, f = [nx EXCEPT ![c[p]] = head]
    PROVE  Linked(f, n, c, B \cup {p}) /\ HeadIs(c[p], c, B \cup {p})
<1> DEFINE C == B \cup {p}
<1>1. /\ \A x \in lo .. hi : c[x] \in 0 .. n - 1
      /\ \A x, y \in lo .. hi : c[x] = c[y] => x = y
  BY WindowFacts
<1>0. lo \in Int /\ hi \in Int
  BY DEF Window
<1>2. /\ nx \in [0 .. n - 1 -> (0 .. n - 1) \cup {Nil}]
      /\ \A b \in B : IsLast(B, b) => nx[c[b]] = Nil
      /\ \A b, d \in B : Follows(B, b, d) => nx[c[b]] = c[d]
  BY DEF Linked
<1>3. head \in (0 .. n - 1) \cup {Nil}
  <2>1. CASE B = {}
    BY <2>1 DEF HeadIs
  <2>2. CASE B # {}
    <3>1. PICK b \in B : IsFirst(B, b)
      BY <1>0, <2>2, LeastInt
    <3> QED
      BY <3>1, <1>1 DEF HeadIs
  <2> QED
    BY <2>1, <2>2
<1>4. f \in [0 .. n - 1 -> (0 .. n - 1) \cup {Nil}] /\ f[c[p]] = head
  BY <1>1, <1>2, <1>3
<1>5. \A b \in B : f[c[b]] = nx[c[b]]
  BY <1>1, <1>2
<1>6. \A b \in C : b \in Int
  OBVIOUS
<1>7. ASSUME NEW b \in C, IsLast(C, b) PROVE f[c[b]] = Nil
  <2>1. CASE b = p
    <3>1. B = {}
      BY <1>6, <1>7, <2>1 DEF IsLast
    <3> QED
      BY <2>1, <3>1, <1>4 DEF HeadIs
  <2>2. CASE b \in B
    <3>1. IsLast(B, b)
      BY <1>7 DEF IsLast
    <3> QED
      BY <2>2, <3>1, <1>2, <1>5
  <2> QED
    BY <2>1, <2>2
<1>8. ASSUME NEW b \in C, NEW d \in C, Follows(C, b, d) PROVE f[c[b]] = c[d]
  <2>1. d \in B
    BY <1>6, <1>8 DEF Follows
  <2>2. CASE b = p
    <3>1. IsFirst(B, d)
      BY <1>6, <1>8, <2>2 DEF Follows, IsFirst
    <3> QED
      BY <2>1, <2>2, <3>1, <1>4 DEF HeadIs
  <2>3. CASE b \in B
    <3>1. Follows(B, b, d)
      BY <1>8 DEF Follows
    <3> QED
      BY <2>1, <2>3, <3>1, <1>2, <1>5
  <2> QED
    BY <2>2, <2>3
<1>9. Linked(f, n, c, C)
  BY <1>4, <1>7, <1>8 DEF Linked
<1>10. HeadIs(c[p], c, C)
  BY <1>6 DEF HeadIs, IsFirst
<1> QED
  BY <1>9, <1>10

\* A node after b and before what was after b.
LEMMA LinkAfter ==
    ASSUME NEW n, NEW w, NEW c, NEW lo, NEW hi, Window(n, w, c, lo, hi),
           NEW B \in SUBSET (lo .. hi), NEW b \in B, NEW p \in lo .. hi,
           b < p, \A x \in B : x <= b \/ p < x,
           NEW nx, Linked(nx, n, c, B),
           NEW f, f = [nx EXCEPT ![c[p]] = nx[c[b]], ![c[b]] = c[p]]
    PROVE  Linked(f, n, c, B \cup {p})
<1> DEFINE C == B \cup {p}
<1>1. /\ \A x \in lo .. hi : c[x] \in 0 .. n - 1
      /\ \A x, y \in lo .. hi : c[x] = c[y] => x = y
  BY WindowFacts
<1>2. /\ nx \in [0 .. n - 1 -> (0 .. n - 1) \cup {Nil}]
      /\ \A x \in B : IsLast(B, x) => nx[c[x]] = Nil
      /\ \A x, d \in B : Follows(B, x, d) => nx[c[x]] = c[d]
  BY DEF Linked
<1>3. \A x \in C : x \in Int /\ x \in lo .. hi
  OBVIOUS
<1>4. c[b] # c[p] /\ c[b] \in 0 .. n - 1 /\ c[p] \in 0 .. n - 1
  BY <1>1, <1>3
<1>5. f \in [0 .. n - 1 -> (0 .. n - 1) \cup {Nil}] /\ f[c[p]] = nx[c[b]] /\ f[c[b]] = c[p]
  BY <1>2, <1>4
<1>6. \A x \in B : x # b => f[c[x]] = nx[c[x]]
  <2>1. \A x \in B : x # p
    BY <1>3
  <2>2. \A x \in B : x # b => c[x] # c[b] /\ c[x] # c[p] /\ c[x] \in 0 .. n - 1
    BY <1>1, <1>3, <2>1
  <2> QED
    BY <1>2, <2>2
<1>7. ASSUME NEW x \in C, IsLast(C, x) PROVE f[c[x]] = Nil
  <2>1. CASE x = p
    <3>1. IsLast(B, b)
      BY <1>3, <1>7, <2>1 DEF IsLast
    <3> QED
      BY <2>1, <3>1, <1>2, <1>5
  <2>2. CASE x \in B
    <3>1. IsLast(B, x) /\ x # b
      BY <1>3, <1>7 DEF IsLast
    <3> QED
      BY <2>2, <3>1, <1>2, <1>6
  <2> QED
    BY <2>1, <2>2
<1>8. ASSUME NEW x \in C, NEW d \in C, Follows(C, x, d) PROVE f[c[x]] = c[d]
  <2>1. CASE x = p
    <3>1. d \in B /\ Follows(B, b, d)
      BY <1>3, <1>8, <2>1 DEF Follows
    <3> QED
      BY <2>1, <3>1, <1>2, <1>5
  <2>2. CASE x = b
    <3>1. d = p
      BY <1>3, <1>8, <2>2 DEF Follows
    <3> QED
      BY <2>2, <3>1, <1>5
  <2>3. CASE x \in B /\ x # b
    <3>1. d # p
      BY <1>3, <1>8, <2>3 DEF Follows
    <3>2. d \in B /\ Follows(B, x, d)
      BY <1>8, <3>1 DEF Follows
    <3> QED
      BY <2>3, <3>2, <1>2, <1>6
  <2> QED
    BY <2>1, <2>2, <2>3
<1>9. Linked(f, n, c, C)
  BY <1>5, <1>7, <1>8 DEF Linked
<1> QED
  BY <1>9

\* The node after b leaves the list.
LEMMA UnlinkAfter ==
    ASSUME NEW n, NEW w, NEW c, NEW lo, NEW hi, Window(n, w, c, lo, hi),
           NEW B \in SUBSET (lo .. hi), NEW b \in B, NEW p \in B, Follows(B, b, p),
           NEW nx, Linked(nx, n, c, B),
           NEW f, f = [nx EXCEPT ![c[b]] = nx[c[p]], ![c[p]] = Nil]
    PROVE  Linked(f, n, c, B \ {p})
<1> DEFINE C == B \ {p}
<1>1. /\ \A x \in lo .. hi : c[x] \in 0 .. n - 1
      /\ \A x, y \in lo .. hi : c[x] = c[y] => x = y
  BY WindowFacts
<1>2. /\ nx \in [0 .. n - 1 -> (0 .. n - 1) \cup {Nil}]
      /\ \A x \in B : IsLast(B, x) => nx[c[x]] = Nil
      /\ \A x, d \in B : Follows(B, x, d) => nx[c[x]] = c[d]
  BY DEF Linked
<1>3. \A x \in B : x \in Int /\ x \in lo .. hi
  OBVIOUS
<1>4. b < p /\ c[b] # c[p] /\ c[b] \in 0 .. n - 1 /\ c[p] \in 0 .. n - 1
  BY <1>1, <1>3 DEF Follows
<1>5. f \in [0 .. n - 1 -> (0 .. n - 1) \cup {Nil}] /\ f[c[b]] = nx[c[p]]
  BY <1>2, <1>4
<1>6. \A x \in C : x # b => f[c[x]] = nx[c[x]]
  <2>1. \A x \in C : x # b => c[x] # c[b] /\ c[x] # c[p] /\ c[x] \in 0 .. n - 1
    BY <1>1, <1>3
  <2> QED
    BY <1>2, <2>1
<1>7. ASSUME NEW x \in C, IsLast(C, x) PROVE f[c[x]] = Nil
  <2>1. CASE x = b
    <3>1. IsLast(B, p)
      BY <1>3, <1>4, <1>7, <2>1 DEF IsLast, Follows
    <3> QED
      BY <2>1, <3>1, <1>2, <1>5
  <2>2. CASE x # b
    <3>1. b \in C
      BY <1>3, <1>4
    <3>2. IsLast(B, x)
      BY <1>3, <1>4, <1>7, <2>2, <3>1 DEF IsLast, Follows
    <3> QED
      BY <2>2, <3>2, <1>2, <1>6
  <2> QED
    BY <2>1, <2>2
<1>8. ASSUME NEW x \in C, NEW d \in C, Follows(C, x, d) PROVE f[c[x]] = c[d]
  <2>1. CASE x = b
    <3>1. Follows(B, p, d)
      BY <1>3, <1>4, <1>8, <2>1 DEF Follows
    <3> QED
      BY <2>1, <3>1, <1>2, <1>5
  <2>2. CASE x # b
    <3>1. b \in C
      BY <1>3, <1>4
    <3>2. Follows(B, x, d)
      BY <1>3, <1>4, <1>8, <2>2, <3>1 DEF Follows
    <3> QED
      BY <2>2, <3>2, <1>2, <1>6
  <2> QED
    BY <2>1, <2>2
<1>9. Linked(f, n, c, C)
  BY <1>5, <1>7, <1>8 DEF Linked
<1> QED
  BY <1>9

\* The first node leaves the list.
LEMMA UnlinkFirst ==
    ASSUME NEW n, NEW w, NEW c, NEW lo, NEW hi, Window(n, w, c, lo, hi),
           NEW B \in SUBSET (lo .. hi), NEW p \in B, IsFirst(B, p),
           NEW nx, Linked(nx, n, c, B), NEW f, f = [nx EXCEPT ![c[p]] = Nil]
    PROVE  Linked(f, n, c, B \ {p}) /\ HeadIs(nx[c[p]], c, B \ {p})
<1> DEFINE C == B \ {p}
<1>1. /\ \A x \in lo .. hi : c[x] \in 0 .. n - 1
      /\ \A x, y \in lo .. hi : c[x] = c[y] => x = y
  BY WindowFacts
<1>2. /\ nx \in [0 .. n - 1 -> (0 .. n - 1) \cup {Nil}]
      /\ \A x \in B : IsLast(B, x) => nx[c[x]] = Nil
      /\ \A x, d \in B : Follows(B, x, d) => nx[c[x]] = c[d]
  BY DEF Linked
<1>3. \A x \in B : x \in Int /\ x \in lo .. hi /\ p <= x
  BY DEF IsFirst
<1>4. f \in [0 .. n - 1 -> (0 .. n - 1) \cup {Nil}]
  BY <1>2
<1>5. \A x \in C : f[c[x]] = nx[c[x]]
  <2>1. \A x \in C : c[x] # c[p] /\ c[x] \in 0 .. n - 1
    BY <1>1, <1>3
  <2> QED
    BY <1>2, <2>1
<1>6. ASSUME NEW x \in C, IsLast(C, x) PROVE f[c[x]] = Nil
  <2>1. IsLast(B, x)
    BY <1>3, <1>6 DEF IsLast
  <2> QED
    BY <2>1, <1>2, <1>5
<1>7. ASSUME NEW x \in C, NEW d \in C, Follows(C, x, d) PROVE f[c[x]] = c[d]
  <2>1. Follows(B, x, d)
    BY <1>3, <1>7 DEF Follows
  <2> QED
    BY <2>1, <1>2, <1>5
<1>8. Linked(f, n, c, C)
  BY <1>4, <1>6, <1>7 DEF Linked
<1>9. HeadIs(nx[c[p]], c, C)
  <2>1. ASSUME C = {} PROVE nx[c[p]] = Nil
    <3>1. IsLast(B, p)
      BY <1>3, <2>1 DEF IsLast
    <3> QED
      BY <3>1, <1>2
  <2>2. ASSUME NEW d \in C, IsFirst(C, d) PROVE nx[c[p]] = c[d]
    <3>1. Follows(B, p, d)
      BY <1>3, <2>2 DEF IsFirst, Follows
    <3> QED
      BY <3>1, <1>2
  <2> QED
    BY <2>1, <2>2 DEF HeadIs
<1> QED
  BY <1>8, <1>9

-----------------------------------------------------------------------------
(* What the nodes cover.                                                   *)

Spans(B, E, lo, hi) ==
    /\ B \in SUBSET (lo .. hi) /\ E \in [Int -> Int]
    /\ \A b \in B : b <= E[b] /\ E[b] <= hi

Apart(B, E) == \A b, d \in B : b < d => E[b] < d

Covered(B, E) == {x \in Int : \E b \in B : b <= x /\ x <= E[b]}

LEMMA CardAdd ==
    ASSUME NEW S, IsFiniteSet(S), NEW p \in Int, NEW q \in Int, p <= q + 1,
           \A x \in p .. q : x \notin S
    PROVE  /\ IsFiniteSet(S \cup (p .. q))
           /\ Cardinality(S \cup (p .. q)) = Cardinality(S) + (q - p + 1)
<1>1. IsFiniteSet(p .. q) /\ Cardinality(p .. q) = q - p + 1
  <2>1. /\ IsFiniteSet(p .. q)
        /\ Cardinality(p .. q) = IF p > q THEN 0 ELSE q - p + 1
    BY FS_Interval
  <2> QED
    BY <2>1
<1>2. S \cap (p .. q) = {}
  OBVIOUS
<1>3. Cardinality(S \cap (p .. q)) = 0
  BY <1>2, FS_EmptySet
<1>4. /\ IsFiniteSet(S \cup (p .. q))
      /\ Cardinality(S \cup (p .. q)) =
           Cardinality(S) + Cardinality(p .. q) - Cardinality(S \cap (p .. q))
  BY <1>1, FS_Union
<1>5. Cardinality(S) \in Nat
  BY FS_CardinalityType
<1> QED
  BY <1>1, <1>3, <1>4, <1>5

LEMMA CoveredFinite ==
    ASSUME NEW lo \in Int, NEW hi \in Int, NEW B, NEW E, Spans(B, E, lo, hi)
    PROVE  /\ Covered(B, E) \in SUBSET (lo .. hi)
           /\ IsFiniteSet(Covered(B, E)) /\ Cardinality(Covered(B, E)) \in Nat
<1>1. \A b \in B : b \in Int /\ lo <= b /\ b <= E[b] /\ E[b] <= hi /\ E[b] \in Int
  BY DEF Spans
<1>2. Covered(B, E) \in SUBSET (lo .. hi)
  <2> SUFFICES ASSUME NEW x \in Int, NEW b \in B, b <= x, x <= E[b] PROVE x \in lo .. hi
    BY DEF Covered
  <2> QED
    BY <1>1
<1>3. IsFiniteSet(lo .. hi)
  BY FS_Interval
<1>4. IsFiniteSet(Covered(B, E))
  BY <1>2, <1>3, FS_Subset
<1>5. Cardinality(Covered(B, E)) \in Nat
  BY <1>4, FS_CardinalityType
<1> QED
  BY <1>2, <1>4, <1>5

LEMMA CoveredNone ==
    ASSUME NEW lo \in Int, NEW hi \in Int, NEW B, NEW E, Spans(B, E, lo, hi)
    PROVE  Cardinality(Covered(B, E)) = 0 <=> B = {}
<1>1. IsFiniteSet(Covered(B, E))
  BY CoveredFinite
<1>2. Cardinality(Covered(B, E)) = 0 <=> Covered(B, E) = {}
  BY <1>1, FS_EmptySet
<1>3. Covered(B, E) = {} <=> B = {}
  <2>1. \A b \in B : b \in Covered(B, E)
    BY DEF Covered, Spans
  <2>2. B = {} => Covered(B, E) = {}
    BY DEF Covered
  <2> QED
    BY <2>1, <2>2
<1> QED
  BY <1>2, <1>3

LEMMA CoveredPut ==
    ASSUME NEW B \in SUBSET Int, NEW E \in [Int -> Int], NEW p \in Int, NEW e \in Int,
           NEW F \in [Int -> Int], F[p] = e, \A b \in B : b # p => F[b] = E[b]
    PROVE  \A x : x \in Covered(B \cup {p}, F) <=> x \in Covered(B \ {p}, E) \/ x \in p .. e
<1>1. ASSUME NEW x \in Covered(B \cup {p}, F) PROVE x \in Covered(B \ {p}, E) \/ x \in p .. e
  <2>1. x \in Int
    BY <1>1 DEF Covered
  <2>2. PICK b \in B \cup {p} : b <= x /\ x <= F[b]
    BY <1>1 DEF Covered
  <2> QED
    BY <2>1, <2>2 DEF Covered
<1>2. ASSUME NEW x \in Covered(B \ {p}, E) PROVE x \in Covered(B \cup {p}, F)
  BY <1>2 DEF Covered
<1>3. ASSUME NEW x \in p .. e PROVE x \in Covered(B \cup {p}, F)
  BY <1>3 DEF Covered
<1> QED
  BY <1>1, <1>2, <1>3

\* The numbers of a node are covered by no other one.
LEMMA CoveredNode ==
    ASSUME NEW lo \in Int, NEW hi \in Int, NEW B, NEW E, Spans(B, E, lo, hi),
           NEW p \in B, Apart(B, E)
    PROVE  /\ Covered(B, E) = Covered(B \ {p}, E) \cup (p .. E[p])
           /\ \A x \in p .. E[p] : x \notin Covered(B \ {p}, E)
<1>1. \A b \in B : b \in Int /\ lo <= b /\ b <= E[b] /\ E[b] <= hi /\ E[b] \in Int
  BY DEF Spans
<1>2. Covered(B, E) = Covered(B \ {p}, E) \cup (p .. E[p])
  <2>1. ASSUME NEW x \in Covered(B, E) PROVE x \in Covered(B \ {p}, E) \cup (p .. E[p])
    BY <1>1, <2>1 DEF Covered
  <2>2. ASSUME NEW x \in Covered(B \ {p}, E) PROVE x \in Covered(B, E)
    BY <2>2 DEF Covered
  <2>3. ASSUME NEW x \in p .. E[p] PROVE x \in Covered(B, E)
    BY <1>1, <2>3 DEF Covered
  <2> QED
    BY <2>1, <2>2, <2>3
<1>3. ASSUME NEW x \in p .. E[p] PROVE x \notin Covered(B \ {p}, E)
  <2> SUFFICES ASSUME NEW b \in B, b # p, b <= x, x <= E[b] PROVE FALSE
    BY DEF Covered
  <2>1. b < p => E[b] < p
    BY DEF Apart
  <2>2. p < b => E[p] < b
    BY DEF Apart
  <2> QED
    BY <1>1, <2>1, <2>2
<1> QED
  BY <1>2, <1>3

LEMMA CoveredCount ==
    ASSUME NEW lo \in Int, NEW hi \in Int, NEW B, NEW E, Spans(B, E, lo, hi),
           NEW p \in B, Apart(B, E)
    PROVE  Cardinality(Covered(B, E)) = Cardinality(Covered(B \ {p}, E)) + (E[p] - p + 1)
<1>1. p \in Int /\ E[p] \in Int /\ p <= E[p] + 1
  BY DEF Spans
<1>2. Covered(B, E) = Covered(B \ {p}, E) \cup (p .. E[p])
  BY CoveredNode
<1>3. \A x \in p .. E[p] : x \notin Covered(B \ {p}, E)
  BY CoveredNode
<1>4. IsFiniteSet(Covered(B \ {p}, E))
  <2>1. Spans(B \ {p}, E, lo, hi)
    BY DEF Spans
  <2> QED
    BY <2>1, CoveredFinite
<1>5. Cardinality(Covered(B \ {p}, E) \cup (p .. E[p])) =
         Cardinality(Covered(B \ {p}, E)) + (E[p] - p + 1)
  BY <1>1, <1>3, <1>4, CardAdd
<1> QED
  BY <1>2, <1>5

-----------------------------------------------------------------------------
(* The sender's list.                                                      *)

SndBody(l, w, c, B, E, lo, hi) ==
    /\ l \in SndLists
    /\ Spans(B, E, lo, hi)
    /\ Stored(l.data1, l.data2, SndListSize, w, c, B, E)
    /\ Linked(l.next, SndListSize, c, B)
    /\ l.lastInsertPos = Nil \/ \E b \in B : l.lastInsertPos = c[b]

SndRep(l, w, c, B, E, lo, hi) ==
    /\ SndBody(l, w, c, B, E, lo, hi)
    /\ Apart(B, E)
    /\ HeadIs(l.head, c, B)
    /\ l.length = Cardinality(Covered(B, E))

SndWindow(w, c, lo, hi) == Window(SndListSize, w, c, lo, hi)

LEMMA SndFields ==
    ASSUME NEW l \in SndLists
    PROVE  /\ l.data1 \in [SndSlots -> SeqNos \cup {Nil}]
           /\ l.data2 \in [SndSlots -> SeqNos \cup {Nil}]
           /\ l.next \in [SndSlots -> SndSlots \cup {Nil}]
           /\ l.head \in SndSlots \cup {Nil} /\ l.length \in Int
           /\ l.lastInsertPos \in SndSlots \cup {Nil}
BY DEF SndLists

\* What a node's slot holds.
LEMMA SndNode ==
    ASSUME NEW l, NEW w, NEW c, NEW B, NEW E, NEW lo, NEW hi,
           SndWindow(w, c, lo, hi), SndBody(l, w, c, B, E, lo, hi), NEW b \in B
    PROVE  /\ b \in lo .. hi /\ E[b] \in lo .. hi /\ b <= E[b] /\ b \in Int /\ E[b] \in Int
           /\ c[b] \in SndSlots /\ c[b] # Nil
           /\ l.data1[c[b]] = w[b] /\ LastOf(l, c[b]) = w[E[b]]
           /\ l.data2[c[b]] = Nil <=> E[b] = b
           /\ l.data2[c[b]] # Nil => l.data2[c[b]] = w[E[b]]
<1>1. b \in lo .. hi /\ E[b] \in Int /\ b <= E[b] /\ E[b] <= hi
  BY DEF SndBody, Spans
<1>2. E[b] \in lo .. hi /\ b \in Int
  BY <1>1 DEF SndWindow, Window
<1>3. c[b] \in SndSlots /\ c[b] # Nil /\ w[E[b]] # Nil
  BY <1>1, <1>2, WindowFacts DEF SndWindow, SndSlots
<1>4. l.data1[c[b]] = w[b] /\ l.data2[c[b]] = LastData(w, b, E[b])
  BY DEF SndBody, Stored
<1> QED
  BY <1>1, <1>2, <1>3, <1>4 DEF LastOf, LastData

\* The search from node a ends at the last node before p.
PriorFound(l, w, c, B, a, p) ==
    \E b \in B : /\ b < p /\ \A x \in B : x <= b \/ p <= x
                 /\ PriorNode(l, c[a], w[p]) = c[b]

\* The search finds the last node before a position, from any node before it.
LEMMA PriorNodeIs ==
    ASSUME NEW l, NEW w, NEW c, NEW B, NEW E, NEW lo, NEW hi,
           SndWindow(w, c, lo, hi), SndBody(l, w, c, B, E, lo, hi),
           NEW p \in lo .. hi, NEW a \in B, a < p
    PROVE  PriorFound(l, w, c, B, a, p)
<1> DEFINE Before == {b \in B : b < p}
           Step(j) == l.next[j] # Nil /\ SeqCmp(l.data1[l.next[j]], w[p]) < 0
           Stop == {j \in SndSlots : ~Step(j)}
           I == {c[b] : b \in Before}
           V == [j \in I |-> SeqOff(l.data1[j], w[p])]
<1>1. l \in SndLists /\ Linked(l.next, SndListSize, c, B) /\ B \in SUBSET (lo .. hi)
  BY DEF SndBody, Spans
<1>2. /\ \A b \in B : b \in lo .. hi /\ b \in Int /\ c[b] \in SndSlots /\ l.data1[c[b]] = w[b]
  BY SndNode
<1>3. \A b \in B : \/ IsLast(B, b) /\ l.next[c[b]] = Nil
                   \/ \E d \in B : /\ Follows(B, b, d)
                                   /\ l.next[c[b]] = c[d] /\ l.next[c[b]] # Nil
  BY <1>1, LinkIs DEF SndWindow
<1>4. \A b \in B : SeqCmp(w[b], w[p]) < 0 <=> b < p
  BY <1>2, WindowFacts DEF SndWindow
<1>5. \A b \in Before : /\ SeqOff(l.data1[c[b]], w[p]) = p - b /\ p - b \in Nat
  <2> TAKE b \in Before
  <2>1. b \in Int /\ p \in Int /\ p - b < SeqNoTH /\ b - p < SeqNoTH /\ p - b \in Nat
    BY <1>2, SeqNoAssumption DEF SndWindow, Window
  <2>2. SeqOff(w[b], w[p]) = p - b
    BY <2>1, WireOffset DEF SndWindow, Window
  <2> QED
    BY <1>2, <2>1, <2>2
<1>6. \A j \in SndSlots : j \notin Stop => l.next[j] \in SndSlots
  BY <1>1, SndFields
<1>7. PICK g : IsLoop(g, SndSlots, Stop, l.next)
  <2>1. StaysIn(SndSlots, Stop, l.next)
    BY <1>6 DEF StaysIn
  <2> QED
    BY <2>1, LoopExists
<1>8. g = [j \in SndSlots |-> IF Step(j) THEN g[l.next[j]] ELSE j]
  BY <1>7 DEF IsLoop
<1>9. PICK h : /\ h = [j \in SndSlots |-> IF Step(j) THEN h[l.next[j]] ELSE j]
               /\ PriorNode(l, c[a], w[p]) = h[c[a]]
  BY <1>8 DEF PriorNode
<1>10. IsLoop(h, SndSlots, Stop, l.next)
  <2>1. \A j \in SndSlots : h[j] = IF j \in Stop THEN j ELSE h[l.next[j]]
    BY <1>9
  <2>2. h = [j \in SndSlots |-> h[j]]
    BY <1>9
  <2> QED
    BY <2>1, <2>2 DEF IsLoop
<1>11. I \in SUBSET SndSlots
  BY <1>2
<1>12. V \in [I -> Nat]
  BY <1>5
<1>13. ASSUME NEW j \in I, j \notin Stop PROVE l.next[j] \in I /\ V[l.next[j]] < V[j]
  <2>1. PICK b \in Before : j = c[b]
    OBVIOUS
  <2>2. Step(j)
    BY <1>11, <1>13
  <2>3. PICK d \in B : Follows(B, b, d) /\ l.next[j] = c[d]
    BY <1>3, <2>1, <2>2
  <2>4. d < p /\ b < d
    BY <1>2, <1>4, <2>2, <2>3 DEF Follows
  <2>5. d \in Before /\ c[d] \in I
    BY <2>4
  <2>6. V[j] = p - b /\ V[l.next[j]] = p - d
    BY <1>5, <2>1, <2>3, <2>5
  <2> QED
    BY <1>2, <2>3, <2>4, <2>5, <2>6
<1>14. \A x \in I : h[x] \in I \cap Stop
  <2>1. Decreases(V, I, Stop, l.next)
    BY <1>12, <1>13 DEF Decreases
  <2> QED
    BY <1>10, <1>11, <2>1, LoopEnds
<1>15. PICK b \in Before : h[c[a]] = c[b]
  BY <1>14
<1>16. ~Step(c[b])
  BY <1>14, <1>15
<1>17. \A x \in B : x <= b \/ p <= x
  <2>1. CASE IsLast(B, b)
    BY <2>1 DEF IsLast
  <2>2. CASE ~IsLast(B, b)
    <3>1. PICK d \in B : Follows(B, b, d) /\ l.next[c[b]] = c[d] /\ l.next[c[b]] # Nil
      BY <1>3, <2>2
    <3>2. p <= d
      BY <1>2, <1>4, <1>16, <3>1
    <3> QED
      BY <1>2, <3>1, <3>2 DEF Follows
  <2> QED
    BY <2>1, <2>2
<1> QED
  BY <1>9, <1>15, <1>17 DEF PriorFound

-----------------------------------------------------------------------------
(* A node takes in the nodes after it that it has grown into.              *)

Filled(l) == {i \in SndSlots : l.data1[i] # Nil}

LEMMA FilledFinite ==
    ASSUME NEW l \in SndLists
    PROVE  IsFiniteSet(Filled(l)) /\ Cardinality(Filled(l)) \in Nat
<1>1. SndListSize \in Int /\ 0 \in Int /\ SndListSize - 1 \in Int
  BY LossListsAssumption
<1>2. IsFiniteSet(SndSlots)
  BY <1>1, FS_Interval DEF SndSlots
<1>3. Filled(l) \in SUBSET SndSlots
  BY DEF Filled
<1>4. IsFiniteSet(Filled(l))
  BY <1>2, <1>3, FS_Subset
<1> QED
  BY <1>4, FS_CardinalityType

LEMMA FilledLess ==
    ASSUME NEW l \in SndLists, NEW m, NEW i \in SndSlots, l.data1[i] # Nil,
           m.data1 = [l.data1 EXCEPT ![i] = Nil]
    PROVE  Cardinality(Filled(m)) < Cardinality(Filled(l))
<1>1. l.data1 \in [SndSlots -> SeqNos \cup {Nil}]
  BY SndFields
<1>2. \A j \in SndSlots : m.data1[j] = IF j = i THEN Nil ELSE l.data1[j]
  BY <1>1
<1>3. Filled(m) = Filled(l) \ {i} /\ i \in Filled(l)
  BY <1>2 DEF Filled
<1>4. IsFiniteSet(Filled(l)) /\ Cardinality(Filled(l)) \in Nat
  BY FilledFinite
<1>5. Cardinality(Filled(l) \ {i}) = Cardinality(Filled(l)) - 1
  BY <1>3, <1>4, FS_RemoveElement
<1> QED
  BY <1>3, <1>4, <1>5

\* Node b may overlap or touch those after it; the rest is as it should be,
\* and the length counts the overlap twice.
Joining(l, w, c, B, E, b, lo, hi) ==
    /\ SndBody(l, w, c, B, E, lo, hi)
    /\ b \in B /\ l.lastInsertPos = c[b]
    /\ HeadIs(l.head, c, B)
    /\ Apart(B \ {b}, E)
    /\ \A d \in B : d < b => E[d] < b
    /\ l.length = Cardinality(Covered(B \ {b}, E)) + (E[b] - b + 1)

LEMMA CommonInt ==
    ASSUME NEW l \in SndLists, NEW i \in SndSlots, NEW end \in SeqNos \cup {Nil}
    PROVE  Common(l, i, end) \in Int
<1>1. \A x \in SeqNos \cup {Nil} : x \in Int
  BY SeqNoAssumption DEF SeqNos, Nil
<1>2. l.data1[i] \in Int /\ l.data2[i] \in Int /\ end \in Int
  BY <1>1, SndFields
<1>3. LastOf(l, i) \in Int
  BY <1>2 DEF LastOf
<1>4. MaxSeqNo \in Int
  BY SeqNoAssumption
<1>5. SeqLen(l.data1[i], LastOf(l, i)) \in Int /\ SeqLen(l.data1[i], end) \in Int
  BY <1>2, <1>3, <1>4 DEF SeqLen
<1> QED
  BY <1>5 DEF Common

LEMMA MergeFields ==
    ASSUME NEW l \in SndLists, NEW loc \in SndSlots, Touches(l, loc),
           NEW i, i = l.next[loc]
    PROVE  /\ Merge(l, loc) \in SndLists
           /\ Merge(l, loc).length = l.length - Common(l, i, l.data2[loc])
           /\ Merge(l, loc).data1 = [l.data1 EXCEPT ![i] = Nil]
           /\ Merge(l, loc).data2 =
                [l.data2 EXCEPT ![loc] = IF SeqCmp(LastOf(l, i), l.data2[loc]) > 0
                                           THEN LastOf(l, i) ELSE l.data2[loc],
                                ![i] = Nil]
           /\ Merge(l, loc).next = [l.next EXCEPT ![loc] = l.next[i], ![i] = Nil]
           /\ Merge(l, loc).head = l.head /\ Merge(l, loc).lastInsertPos = l.lastInsertPos
<1> DEFINE len == l.length - Common(l, i, l.data2[loc])
           d1 == [l.data1 EXCEPT ![i] = Nil]
           d2 == [l.data2 EXCEPT ![loc] = IF SeqCmp(LastOf(l, i), l.data2[loc]) > 0
                                            THEN LastOf(l, i) ELSE l.data2[loc],
                                 ![i] = Nil]
           nx == [l.next EXCEPT ![loc] = l.next[i], ![i] = Nil]
<1>1. /\ l.data1 \in [SndSlots -> SeqNos \cup {Nil}]
      /\ l.data2 \in [SndSlots -> SeqNos \cup {Nil}]
      /\ l.next \in [SndSlots -> SndSlots \cup {Nil}]
      /\ l.head \in SndSlots \cup {Nil} /\ l.length \in Int
      /\ l.lastInsertPos \in SndSlots \cup {Nil}
  BY SndFields
<1>2. i \in SndSlots
  BY <1>1 DEF Touches
<1>3. Merge(l, loc) = [l EXCEPT !.length = len, !.data2 = d2, !.data1 = d1, !.next = nx]
  BY DEF Merge
<1>4. LastOf(l, i) \in SeqNos \cup {Nil} /\ l.data2[loc] \in SeqNos \cup {Nil}
  BY <1>1, <1>2 DEF LastOf
<1>5. d1 \in [SndSlots -> SeqNos \cup {Nil}]
  BY <1>1, <1>2
<1>6. d2 \in [SndSlots -> SeqNos \cup {Nil}]
  BY <1>1, <1>4
<1>7. nx \in [SndSlots -> SndSlots \cup {Nil}]
  BY <1>1, <1>2
<1>8. len \in Int
  <2>1. Common(l, i, l.data2[loc]) \in Int
    BY <1>2, <1>4, CommonInt
  <2> QED
    BY <1>1, <2>1
<1> HIDE DEF len, d1, d2, nx
<1>9. Merge(l, loc) \in SndLists
  BY <1>3, <1>5, <1>6, <1>7, <1>8 DEF SndLists
<1>10. /\ Merge(l, loc).length = len /\ Merge(l, loc).data1 = d1
       /\ Merge(l, loc).data2 = d2 /\ Merge(l, loc).next = nx
       /\ Merge(l, loc).head = l.head /\ Merge(l, loc).lastInsertPos = l.lastInsertPos
  BY <1>3 DEF SndLists
<1> QED
  BY <1>9, <1>10 DEF len, d1, d2, nx

LEMMA MergeStep ==
    ASSUME NEW l, NEW w, NEW c, NEW B, NEW E, NEW b, NEW lo, NEW hi,
           SndWindow(w, c, lo, hi), Joining(l, w, c, B, E, b, lo, hi),
           Touches(l, c[b])
    PROVE  /\ \E C, F : /\ Joining(Merge(l, c[b]), w, c, C, F, b, lo, hi)
                        /\ Covered(C, F) = Covered(B, E)
           /\ Cardinality(Filled(Merge(l, c[b]))) < Cardinality(Filled(l))
<1> DEFINE m == Merge(l, c[b])
<1>1. /\ SndBody(l, w, c, B, E, lo, hi) /\ b \in B /\ l.lastInsertPos = c[b]
      /\ HeadIs(l.head, c, B) /\ Apart(B \ {b}, E)
      /\ \A d \in B : d < b => E[d] < b
      /\ l.length = Cardinality(Covered(B \ {b}, E)) + (E[b] - b + 1)
  BY DEF Joining
<1>2. /\ l \in SndLists /\ Spans(B, E, lo, hi)
      /\ Stored(l.data1, l.data2, SndListSize, w, c, B, E)
      /\ Linked(l.next, SndListSize, c, B)
      /\ B \in SUBSET (lo .. hi) /\ E \in [Int -> Int] /\ lo \in Int /\ hi \in Int
      /\ Window(SndListSize, w, c, lo, hi)
  BY <1>1 DEF SndBody, Spans, SndWindow, Window
<1>3. \A x \in B : /\ x \in lo .. hi /\ E[x] \in lo .. hi /\ x <= E[x] /\ x \in Int /\ E[x] \in Int
                   /\ c[x] \in SndSlots /\ c[x] # Nil
                   /\ l.data1[c[x]] = w[x] /\ LastOf(l, c[x]) = w[E[x]]
                   /\ l.data2[c[x]] = Nil <=> E[x] = x
                   /\ l.data2[c[x]] # Nil => l.data2[c[x]] = w[E[x]]
  BY <1>1, SndNode
<1>4. PICK d \in B : Follows(B, b, d) /\ l.next[c[b]] = c[d]
  BY <1>1, <1>2, LinkIs DEF Touches
<1>5. /\ l.data2[c[b]] = w[E[b]] /\ E[b] # b /\ b < d /\ d <= E[b] + 1
      /\ d \in lo .. hi /\ E[d] \in lo .. hi /\ E[b] \in lo .. hi
  <2>1. SeqCmp(w[d], IncSeq(w[E[b]])) <= 0 /\ l.data2[c[b]] = w[E[b]] /\ E[b] # b
    BY <1>1, <1>3, <1>4 DEF Touches
  <2>2. IncSeq(w[E[b]]) = w[E[b] + 1]
    BY <1>1, <1>2, <1>3, WireStep DEF Window
  <2>3. d <= E[b] + 1
    <3>1. /\ d \in Int /\ E[b] + 1 \in Int /\ w \in Wires
          /\ d - (E[b] + 1) < SeqNoTH /\ (E[b] + 1) - d < SeqNoTH
      <4>1. /\ hi - lo < SndListSize /\ SndListSize <= SeqNoTH
            /\ SeqNoTH \in Int /\ SndListSize \in Int
        BY <1>2, SeqNoAssumption DEF Window
      <4>2. /\ b \in Int /\ d \in Int /\ E[b] \in Int /\ lo <= b /\ b < d /\ d <= hi
            /\ b <= E[b] /\ E[b] <= hi
        BY <1>1, <1>2, <1>3, <1>4 DEF Follows
      <4> QED
        BY <1>2, <4>1, <4>2 DEF Window
    <3> QED
      BY <2>1, <2>2, <3>1, WireOrder
  <2> QED
    BY <1>1, <1>3, <1>4, <2>1, <2>3 DEF Follows
<1> DEFINE C == B \ {d}
           e == IF E[d] > E[b] THEN E[d] ELSE E[b]
           F == [E EXCEPT ![b] = e]
<1>6. /\ m \in SndLists
      /\ m.length = l.length - Common(l, c[d], w[E[b]])
      /\ m.data1 = [l.data1 EXCEPT ![c[d]] = Nil]
      /\ m.data2 = [l.data2 EXCEPT ![c[b]] = IF SeqCmp(w[E[d]], w[E[b]]) > 0
                                              THEN w[E[d]] ELSE w[E[b]],
                                   ![c[d]] = Nil]
      /\ m.next = [l.next EXCEPT ![c[b]] = l.next[c[d]], ![c[d]] = Nil]
      /\ m.head = l.head /\ m.lastInsertPos = l.lastInsertPos
  <2>1. c[b] \in SndSlots /\ c[d] = l.next[c[b]]
    BY <1>1, <1>3, <1>4
  <2>2. /\ m \in SndLists
        /\ m.length = l.length - Common(l, c[d], l.data2[c[b]])
        /\ m.data1 = [l.data1 EXCEPT ![c[d]] = Nil]
        /\ m.data2 = [l.data2 EXCEPT ![c[b]] = IF SeqCmp(LastOf(l, c[d]), l.data2[c[b]]) > 0
                                                THEN LastOf(l, c[d]) ELSE l.data2[c[b]],
                                     ![c[d]] = Nil]
        /\ m.next = [l.next EXCEPT ![c[b]] = l.next[c[d]], ![c[d]] = Nil]
        /\ m.head = l.head /\ m.lastInsertPos = l.lastInsertPos
    BY <1>2, <2>1, MergeFields
  <2>3. LastOf(l, c[d]) = w[E[d]] /\ l.data2[c[b]] = w[E[b]]
    BY <1>3, <1>5
  <2> HIDE DEF m
  <2> QED
    BY <2>2, <2>3
<1> HIDE DEF m
<1>7. /\ e \in lo .. hi /\ e \in Int /\ e >= E[b] /\ e >= E[d] /\ (e = E[b] \/ e = E[d]) /\ e # b /\ b <= e
      /\ LastData(w, b, e) = IF SeqCmp(w[E[d]], w[E[b]]) > 0 THEN w[E[d]] ELSE w[E[b]]
  <2>1. SeqCmp(w[E[d]], w[E[b]]) > 0 <=> E[d] > E[b]
    BY <1>2, <1>5, WindowFacts
  <2>2. e # b /\ b <= e /\ e \in lo .. hi /\ e \in Int /\ e >= E[b] /\ e >= E[d] /\ (e = E[b] \/ e = E[d])
    BY <1>1, <1>3, <1>5
  <2> QED
    BY <2>1, <2>2 DEF LastData
<1> HIDE DEF e
<1>8. /\ F \in [Int -> Int] /\ F[b] = e /\ \A x \in B : x # b => F[x] = E[x]
  BY <1>1, <1>2, <1>3, <1>7
<1> HIDE DEF F
<1>9. Spans(C, F, lo, hi)
  BY <1>2, <1>3, <1>7, <1>8 DEF Spans
<1>10. Stored(m.data1, m.data2, SndListSize, w, c, C, F)
  <2> DEFINE f1 == [l.data1 EXCEPT ![c[b]] = w[b]]
             f2 == [l.data2 EXCEPT ![c[b]] = LastData(w, b, e)]
  <2>1. Stored(f1, f2, SndListSize, w, c, B \cup {b}, F)
    BY <1>1, <1>2, <1>3, <1>7, <1>8, StoredPut
  <2>2. B \cup {b} = B
    BY <1>1
  <2>3. f1 = l.data1
    BY <1>1, <1>2, <1>3, SndFields
  <2>4. m.data1 = [f1 EXCEPT ![c[d]] = Nil]
    BY <1>6, <2>3
  <2>5. m.data2 = [f2 EXCEPT ![c[d]] = Nil]
    BY <1>6, <1>7
  <2>6. Stored(f1, f2, SndListSize, w, c, B, F)
    BY <2>1, <2>2
  <2> HIDE DEF f1, f2
  <2>7. /\ Window(SndListSize, w, c, lo, hi) /\ B \in SUBSET (lo .. hi)
        /\ F \in [Int -> Int] /\ d \in lo .. hi
    BY <1>2, <1>5, <1>8
  <2>8. Stored(m.data1, m.data2, SndListSize, w, c, B \ {d}, F)
    BY <2>4, <2>5, <2>6, <2>7, StoredDelete, SMTT(30)
  <2> QED
    BY <2>8
<1>11. Linked(m.next, SndListSize, c, C)
  BY <1>1, <1>2, <1>4, <1>6, UnlinkAfter
<1>12. b \in C /\ m.lastInsertPos = c[b]
  BY <1>1, <1>3, <1>5, <1>6
<1>13. SndBody(m, w, c, C, F, lo, hi)
  BY <1>6, <1>9, <1>10, <1>11, <1>12 DEF SndBody
<1>14. HeadIs(m.head, c, C)
  <2>1. \A x \in C : IsFirst(C, x) => IsFirst(B, x)
    BY <1>3, <1>5, <1>12 DEF IsFirst
  <2> QED
    BY <1>1, <1>6, <1>12, <2>1 DEF HeadIs
<1>15. Apart(C \ {b}, F)
  BY <1>1, <1>8 DEF Apart
<1>16. \A x \in C : x < b => F[x] < b
  BY <1>1, <1>8, <1>3
<1>17. /\ Covered(B \ {b}, E) = Covered(C \ {b}, E) \cup (d .. E[d])
       /\ Cardinality(Covered(B \ {b}, E)) = Cardinality(Covered(C \ {b}, E)) + (E[d] - d + 1)
  <2>1. PICK D : D = B \ {b}
    OBVIOUS
  <2>2. Spans(D, E, lo, hi) /\ d \in D /\ D \ {d} = C \ {b} /\ Apart(D, E)
    BY <1>1, <1>2, <1>3, <1>5, <2>1 DEF Spans
  <2>3. Covered(D, E) = Covered(D \ {d}, E) \cup (d .. E[d])
    BY <1>2, <2>2, CoveredNode
  <2>4. Cardinality(Covered(D, E)) = Cardinality(Covered(D \ {d}, E)) + (E[d] - d + 1)
    BY <1>2, <2>2, CoveredCount
  <2> QED
    BY <2>1, <2>2, <2>3, <2>4
<1>18. Covered(C \ {b}, F) = Covered(C \ {b}, E)
  BY <1>8 DEF Covered
<1>19. Cardinality(Covered(C \ {b}, E)) \in Nat
  <2>1. Spans(C \ {b}, E, lo, hi)
    BY <1>2 DEF Spans
  <2> QED
    BY <1>2, <2>1, CoveredFinite
<1>20. m.length = Cardinality(Covered(C \ {b}, F)) + (F[b] - b + 1)
  <2>1. /\ SeqCmp(w[E[d]], w[E[b]]) <= 0 <=> E[d] <= E[b]
        /\ SeqCmp(w[E[b]], w[d]) >= 0 <=> E[b] >= d
    BY <1>2, <1>5, WindowFacts
  <2>2. SeqLen(w[d], w[E[d]]) = E[d] - d + 1
    <3>1. d \in Int /\ E[d] \in Int /\ d <= E[d] /\ E[d] - d <= MaxSeqNo /\ w \in Wires
      BY <1>2, <1>3, SeqNoAssumption DEF Window
    <3> QED
      BY <3>1, WireLen
  <2>3. E[b] >= d => SeqLen(w[d], w[E[b]]) = E[b] - d + 1
    <3>1. /\ d \in Int /\ E[b] \in Int /\ E[b] - d <= MaxSeqNo /\ w \in Wires
          /\ E[b] >= d <=> d <= E[b]
      BY <1>1, <1>2, <1>3, SeqNoAssumption DEF Window
    <3> QED
      BY <3>1, WireLen
  <2>4. Common(l, c[d], w[E[b]]) = IF E[d] <= E[b] THEN E[d] - d + 1
                                   ELSE IF E[b] >= d THEN E[b] - d + 1 ELSE 0
    BY <1>3, <2>1, <2>2, <2>3 DEF Common
  <2>5. Common(l, c[d], w[E[b]]) = (E[d] - d + 1) + (E[b] - b + 1) - (e - b + 1)
    BY <1>1, <1>3, <1>5, <1>7, <2>4
  <2> QED
    BY <1>1, <1>3, <1>6, <1>7, <1>8, <1>17, <1>18, <1>19, <2>5
<1>21. Covered(C, F) = Covered(B, E)
  <2>1. ASSUME NEW x \in Covered(B, E) PROVE x \in Covered(C, F)
    <3>1. x \in Int
      BY <2>1 DEF Covered
    <3>2. PICK y \in B : y <= x /\ x <= E[y]
      BY <2>1 DEF Covered
    <3>3. CASE y = d \/ y = b
      <4>1. b <= x /\ x <= F[b]
        BY <1>3, <1>5, <1>7, <1>8, <1>12, <3>1, <3>2, <3>3
      <4> QED
        BY <1>12, <3>1, <4>1 DEF Covered
    <3>4. CASE y # d /\ y # b
      BY <1>8, <3>1, <3>2, <3>4 DEF Covered
    <3> QED
      BY <3>3, <3>4
  <2>2. ASSUME NEW x \in Covered(C, F) PROVE x \in Covered(B, E)
    <3>1. x \in Int
      BY <2>2 DEF Covered
    <3>2. PICK y \in C : y <= x /\ x <= F[y]
      BY <2>2 DEF Covered
    <3>3. CASE y = b
      <4>1. x <= E[b] \/ (d <= x /\ x <= E[d])
        BY <1>1, <1>3, <1>5, <1>7, <1>8, <3>1, <3>2, <3>3
      <4> QED
        BY <1>1, <3>1, <3>2, <3>3, <4>1 DEF Covered
    <3>4. CASE y # b
      BY <1>8, <3>1, <3>2, <3>4 DEF Covered
    <3> QED
      BY <3>3, <3>4
  <2> QED
    BY <2>1, <2>2
<1>22. Joining(m, w, c, C, F, b, lo, hi)
  BY <1>12, <1>13, <1>14, <1>15, <1>16, <1>20 DEF Joining
<1>23. Cardinality(Filled(m)) < Cardinality(Filled(l))
  <2>1. c[d] \in SndSlots /\ l.data1[c[d]] # Nil
    BY <1>2, <1>3, <1>5, WindowFacts
  <2> QED
    BY <1>2, <1>6, <2>1, FilledLess
<1> QED
  BY <1>21, <1>22, <1>23 DEF m

LEMMA JoinEnds ==
    ASSUME NEW l, NEW w, NEW c, NEW B, NEW E, NEW b, NEW lo, NEW hi,
           SndWindow(w, c, lo, hi), Joining(l, w, c, B, E, b, lo, hi),
           ~Touches(l, c[b])
    PROVE  SndRep(l, w, c, B, E, lo, hi)
<1>1. /\ SndBody(l, w, c, B, E, lo, hi) /\ b \in B
      /\ HeadIs(l.head, c, B) /\ Apart(B \ {b}, E)
      /\ \A d \in B : d < b => E[d] < b
      /\ l.length = Cardinality(Covered(B \ {b}, E)) + (E[b] - b + 1)
  BY DEF Joining
<1>2. /\ l \in SndLists /\ Spans(B, E, lo, hi)
      /\ Linked(l.next, SndListSize, c, B)
      /\ B \in SUBSET (lo .. hi) /\ lo \in Int /\ hi \in Int
      /\ Window(SndListSize, w, c, lo, hi)
  BY <1>1 DEF SndBody, Spans, SndWindow, Window
<1>3. \A x \in B : /\ x \in lo .. hi /\ E[x] \in lo .. hi /\ x <= E[x] /\ x \in Int /\ E[x] \in Int
                   /\ c[x] \in SndSlots /\ c[x] # Nil
                   /\ l.data1[c[x]] = w[x] /\ LastOf(l, c[x]) = w[E[x]]
                   /\ l.data2[c[x]] = Nil <=> E[x] = x
                   /\ l.data2[c[x]] # Nil => l.data2[c[x]] = w[E[x]]
  BY <1>1, SndNode
<1>4. \A x \in B : b < x => E[b] < x
  <2>1. CASE IsLast(B, b)
    BY <1>1, <1>3, <2>1 DEF IsLast
  <2>2. CASE ~IsLast(B, b)
    <3>1. PICK d \in B : Follows(B, b, d) /\ l.next[c[b]] = c[d] /\ l.next[c[b]] # Nil
      BY <1>1, <1>2, <2>2, LinkIs
    <3>2. E[b] < d
      <4>1. CASE E[b] = b
        BY <3>1, <4>1 DEF Follows
      <4>2. CASE E[b] # b
        <5>1. ~(SeqCmp(w[d], IncSeq(w[E[b]])) <= 0)
          BY <1>1, <1>3, <3>1, <4>2 DEF Touches
        <5>2. IncSeq(w[E[b]]) = w[E[b] + 1]
          BY <1>1, <1>2, <1>3, WireStep DEF Window
        <5>3. /\ d \in Int /\ E[b] + 1 \in Int /\ w \in Wires
              /\ d - (E[b] + 1) < SeqNoTH /\ (E[b] + 1) - d < SeqNoTH
          <6>1. /\ hi - lo < SndListSize /\ SndListSize <= SeqNoTH
                /\ SeqNoTH \in Int /\ SndListSize \in Int
            BY <1>2, SeqNoAssumption DEF Window
          <6>2. /\ b \in Int /\ d \in Int /\ E[b] \in Int /\ lo <= b /\ b < d /\ d <= hi
                /\ b <= E[b] /\ E[b] <= hi
            BY <1>1, <1>2, <1>3, <3>1 DEF Follows
          <6> QED
            BY <1>2, <6>1, <6>2 DEF Window
        <5> QED
          BY <1>1, <1>3, <5>1, <5>2, <5>3, WireOrder
      <4> QED
        BY <4>1, <4>2
    <3> QED
      BY <1>1, <1>3, <3>1, <3>2 DEF Follows
  <2> QED
    BY <2>1, <2>2
<1>5. Apart(B, E)
  BY <1>1, <1>4 DEF Apart
<1>6. l.length = Cardinality(Covered(B, E))
  BY <1>1, <1>2, <1>5, CoveredCount
<1> QED
  BY <1>1, <1>5, <1>6 DEF SndRep

LEMMA CoalesceJoins ==
    ASSUME NEW l, NEW w, NEW c, NEW B, NEW E, NEW b, NEW lo, NEW hi,
           SndWindow(w, c, lo, hi), Joining(l, w, c, B, E, b, lo, hi)
    PROVE  \E C, F : /\ SndRep(Coalesce(l, c[b]), w, c, C, F, lo, hi)
                     /\ Covered(C, F) = Covered(B, E)
<1> DEFINE loc == c[b]
           Stop == {k \in SndLists : ~Touches(k, loc)}
           Step == [k \in SndLists |-> Merge(k, loc)]
           I == {k \in SndLists : \E C, F : /\ Joining(k, w, c, C, F, b, lo, hi)
                                            /\ Covered(C, F) = Covered(B, E)}
           V == [k \in I |-> Cardinality(Filled(k))]
<1>1. l \in SndLists /\ loc \in SndSlots
  <2>1. SndBody(l, w, c, B, E, lo, hi) /\ b \in B
    BY DEF Joining
  <2> QED
    BY <2>1, SndNode DEF SndBody
<1>2. l \in I
  BY <1>1
<1>3. \A k \in SndLists : k \notin Stop => Touches(k, loc) /\ Step[k] = Merge(k, loc) /\ Step[k] \in SndLists
  BY <1>1, MergeFields
<1>4. PICK g : IsLoop(g, SndLists, Stop, Step)
  <2>1. StaysIn(SndLists, Stop, Step)
    BY <1>3 DEF StaysIn
  <2> QED
    BY <2>1, LoopExists
<1>5. g = [k \in SndLists |-> IF Touches(k, loc) THEN g[Merge(k, loc)] ELSE k]
  BY <1>4 DEF IsLoop
<1>6. PICK h : /\ h = [k \in SndLists |-> IF Touches(k, loc) THEN h[Merge(k, loc)] ELSE k]
               /\ Coalesce(l, loc) = h[l]
  BY <1>5 DEF Coalesce
<1>7. IsLoop(h, SndLists, Stop, Step)
  <2>1. \A k \in SndLists : h[k] = IF k \in Stop THEN k ELSE h[Step[k]]
    BY <1>6
  <2>2. h = [k \in SndLists |-> h[k]]
    BY <1>6
  <2> QED
    BY <2>1, <2>2 DEF IsLoop
<1>8. I \in SUBSET SndLists
  OBVIOUS
<1>9. ASSUME NEW k \in I, k \notin Stop PROVE Step[k] \in I /\ V[Step[k]] < V[k]
  <2>1. PICK C, F : Joining(k, w, c, C, F, b, lo, hi) /\ Covered(C, F) = Covered(B, E)
    OBVIOUS
  <2>2. Touches(k, loc) /\ Step[k] = Merge(k, loc) /\ Step[k] \in SndLists
    BY <1>3, <1>8, <1>9
  <2>3. /\ \E C2, F2 : /\ Joining(Merge(k, loc), w, c, C2, F2, b, lo, hi)
                       /\ Covered(C2, F2) = Covered(C, F)
        /\ Cardinality(Filled(Merge(k, loc))) < Cardinality(Filled(k))
    BY <2>1, <2>2, MergeStep
  <2>4. Step[k] \in I
    BY <2>1, <2>2, <2>3
  <2>5. V[Step[k]] = Cardinality(Filled(Merge(k, loc))) /\ V[k] = Cardinality(Filled(k))
    BY <2>2, <2>4
  <2> QED
    BY <2>3, <2>4, <2>5
<1>10. V \in [I -> Nat]
  BY <1>8, FilledFinite
<1>11. h[l] \in I \cap Stop
  <2>1. Decreases(V, I, Stop, Step)
    BY <1>9, <1>10 DEF Decreases
  <2>2. \A k \in I : h[k] \in I \cap Stop
    BY <1>7, <1>8, <2>1, LoopEnds
  <2> QED
    BY <1>2, <2>2
<1>12. PICK C, F : Joining(h[l], w, c, C, F, b, lo, hi) /\ Covered(C, F) = Covered(B, E)
  BY <1>11
<1>13. SndRep(h[l], w, c, C, F, lo, hi)
  BY <1>11, <1>12, JoinEnds
<1> QED
  BY <1>6, <1>12, <1>13

-----------------------------------------------------------------------------
(* insert                                                                  *)

\* The list holds the numbers of the positions S.
SndHolds(l, w, S, lo, hi) ==
    \E c, B, E : /\ SndWindow(w, c, lo, hi) /\ SndRep(l, w, c, B, E, lo, hi)
                 /\ Covered(B, E) = S

LEMMA SndRepFacts ==
    ASSUME NEW l, NEW w, NEW c, NEW B, NEW E, NEW lo, NEW hi,
           SndWindow(w, c, lo, hi), SndRep(l, w, c, B, E, lo, hi)
    PROVE  /\ SndBody(l, w, c, B, E, lo, hi) /\ Apart(B, E) /\ HeadIs(l.head, c, B)
           /\ l.length = Cardinality(Covered(B, E))
           /\ l \in SndLists /\ Spans(B, E, lo, hi)
           /\ Stored(l.data1, l.data2, SndListSize, w, c, B, E)
           /\ Linked(l.next, SndListSize, c, B)
           /\ B \in SUBSET (lo .. hi) /\ E \in [Int -> Int]
           /\ lo \in Int /\ hi \in Int /\ Window(SndListSize, w, c, lo, hi)
           /\ l.length = 0 <=> B = {}
           /\ l.length \in Nat
<1>1. /\ SndBody(l, w, c, B, E, lo, hi) /\ Apart(B, E) /\ HeadIs(l.head, c, B)
      /\ l.length = Cardinality(Covered(B, E))
  BY DEF SndRep
<1>2. /\ l \in SndLists /\ Spans(B, E, lo, hi)
      /\ Stored(l.data1, l.data2, SndListSize, w, c, B, E)
      /\ Linked(l.next, SndListSize, c, B)
  BY <1>1 DEF SndBody
<1>3. /\ B \in SUBSET (lo .. hi) /\ E \in [Int -> Int]
      /\ lo \in Int /\ hi \in Int /\ Window(SndListSize, w, c, lo, hi)
  BY <1>2 DEF Spans, SndWindow, Window
<1>4. (l.length = 0 <=> B = {}) /\ l.length \in Nat
  <2>1. Cardinality(Covered(B, E)) \in Nat
    BY <1>2, <1>3, CoveredFinite
  <2>2. Cardinality(Covered(B, E)) = 0 <=> B = {}
    BY <1>2, <1>3, CoveredNone, ZenonT(60)
  <2> QED
    BY <1>1, <2>1, <2>2
<1> QED
  BY <1>1, <1>2, <1>3, <1>4

\* Slots without a node are empty.
LEMMA SndEmpty ==
    ASSUME NEW l, NEW w, NEW c, NEW B, NEW E, NEW lo, NEW hi,
           SndWindow(w, c, lo, hi), SndBody(l, w, c, B, E, lo, hi),
           NEW p \in lo .. hi
    PROVE  /\ c[p] \in SndSlots
           /\ p \notin B => l.data1[c[p]] = Nil /\ l.data2[c[p]] = Nil
<1>1. /\ Stored(l.data1, l.data2, SndListSize, w, c, B, E) /\ B \in SUBSET (lo .. hi)
      /\ Window(SndListSize, w, c, lo, hi)
  BY DEF SndBody, Spans, SndWindow
<1>2. c[p] \in 0 .. SndListSize - 1 /\ \A b \in B : c[b] = c[p] => b = p
  BY <1>1, WindowFacts
<1> QED
  BY <1>1, <1>2 DEF Stored, SndSlots

\* The head is the first node, and its number says where the others are.
LEMMA SndHead ==
    ASSUME NEW l, NEW w, NEW c, NEW B, NEW E, NEW lo, NEW hi,
           SndWindow(w, c, lo, hi), SndRep(l, w, c, B, E, lo, hi), B # {}
    PROVE  \E h \in B : /\ IsFirst(B, h) /\ l.head = c[h] /\ l.data1[l.head] = w[h]
                        /\ \A p \in lo .. hi :
                             SeqOff(l.data1[l.head], w[p]) = p - h /\ SlotOf(l, w[p]) = c[p]
<1>1. /\ SndBody(l, w, c, B, E, lo, hi) /\ HeadIs(l.head, c, B) /\ B \in SUBSET (lo .. hi)
      /\ lo \in Int /\ hi \in Int /\ Window(SndListSize, w, c, lo, hi)
  BY SndRepFacts
<1>2. PICK h \in B : IsFirst(B, h)
  BY <1>1, LeastInt
<1>3. l.head = c[h] /\ l.data1[l.head] = w[h] /\ h \in Int /\ h \in lo .. hi
  BY <1>1, <1>2, SndNode DEF HeadIs
<1>4. ASSUME NEW p \in lo .. hi
      PROVE  SeqOff(l.data1[l.head], w[p]) = p - h /\ SlotOf(l, w[p]) = c[p]
  <2>1. /\ hi - lo < SndListSize /\ SndListSize <= SeqNoTH /\ SeqNoTH \in Int
        /\ SndListSize \in Nat \ {0} /\ w \in Wires /\ c \in Rings(SndListSize)
    BY <1>1, SeqNoAssumption DEF Window
  <2>2. /\ p \in Int /\ p - h < SndListSize /\ h - p < SndListSize
        /\ p - h < SeqNoTH /\ h - p < SeqNoTH
    BY <1>1, <1>3, <2>1
  <2>3. SeqOff(w[h], w[p]) = p - h
    BY <1>3, <2>1, <2>2, WireOffset
  <2>4. (c[h] + (p - h) + SndListSize) % SndListSize = c[p]
    BY <1>3, <2>1, <2>2, RingOffset
  <2> QED
    BY <1>3, <2>3, <2>4 DEF SlotOf
<1> QED
  BY <1>2, <1>3, <1>4

\* m is l with a node for p .. q.
NodeAdded(l, m, w, c, B, p, q) ==
    /\ m \in SndLists /\ m.data1 = [l.data1 EXCEPT ![c[p]] = w[p]]
    /\ m.data2 = [l.data2 EXCEPT ![c[p]] = LastData(w, p, q)]
    /\ Linked(m.next, SndListSize, c, B \cup {p}) /\ HeadIs(m.head, c, B \cup {p})
    /\ m.lastInsertPos = c[p] /\ m.length = l.length + (q - p + 1)

\* p is in none of the ranges.
Clear(B, E, p) == p \notin B /\ \A b \in B : b < p => E[b] < p

\* It may overlap those after it.
NodeJoined(m, w, c, B, E, p, q, lo, hi) ==
    \E C, F : /\ Joining(m, w, c, C, F, p, lo, hi)
              /\ Covered(C, F) = Covered(B, E) \cup (p .. q)

LEMMA NodeJoins ==
    ASSUME NEW l, NEW w, NEW c, NEW B, NEW E, NEW lo, NEW hi,
           SndWindow(w, c, lo, hi), SndRep(l, w, c, B, E, lo, hi),
           NEW p \in lo .. hi, NEW q \in lo .. hi, p <= q, Clear(B, E, p),
           NEW m, NodeAdded(l, m, w, c, B, p, q)
    PROVE  NodeJoined(m, w, c, B, E, p, q, lo, hi)
<1> DEFINE C == B \cup {p}
           F == [E EXCEPT ![p] = q]
<1>1. /\ SndBody(l, w, c, B, E, lo, hi) /\ Apart(B, E)
      /\ l.length = Cardinality(Covered(B, E)) /\ Spans(B, E, lo, hi)
      /\ Stored(l.data1, l.data2, SndListSize, w, c, B, E)
      /\ B \in SUBSET (lo .. hi) /\ E \in [Int -> Int]
      /\ lo \in Int /\ hi \in Int /\ Window(SndListSize, w, c, lo, hi)
  BY SndRepFacts
<1>2. p \in Int /\ q \in Int /\ B \in SUBSET Int
  BY <1>1
<1>12. p \notin B /\ \A b \in B : b < p => E[b] < p
  BY DEF Clear
<1>13. /\ m \in SndLists /\ m.data1 = [l.data1 EXCEPT ![c[p]] = w[p]]
      /\ m.data2 = [l.data2 EXCEPT ![c[p]] = LastData(w, p, q)]
      /\ Linked(m.next, SndListSize, c, C) /\ HeadIs(m.head, c, C)
      /\ m.lastInsertPos = c[p] /\ m.length = l.length + (q - p + 1)
  BY DEF NodeAdded
<1>3. F \in [Int -> Int] /\ F[p] = q /\ \A b \in B : b # p => F[b] = E[b]
  BY <1>1, <1>2
<1> HIDE DEF F
<1>4. Spans(C, F, lo, hi)
  <2>1. \A b \in B : b <= E[b] /\ E[b] <= hi
    BY <1>1 DEF Spans
  <2> QED
    BY <1>1, <1>2, <1>3, <2>1 DEF Spans
<1>5. Stored(m.data1, m.data2, SndListSize, w, c, C, F)
  <2>1. PICK f1, f2 : f1 = m.data1 /\ f2 = m.data2
    OBVIOUS
  <2>2. f1 = [l.data1 EXCEPT ![c[p]] = w[p]] /\ f2 = [l.data2 EXCEPT ![c[p]] = LastData(w, p, q)]
    BY <1>13, <2>1
  <2>3. Stored(f1, f2, SndListSize, w, c, B \cup {p}, F)
    BY <1>1, <1>3, <2>2, StoredPut
  <2> QED
    BY <2>1, <2>3
<1>6. SndBody(m, w, c, C, F, lo, hi)
  BY <1>13, <1>4, <1>5 DEF SndBody
<1>7. C \ {p} = B
  BY <1>12
<1>8. Apart(C \ {p}, F) /\ \A d \in C : d < p => F[d] < p
  BY <1>12, <1>1, <1>2, <1>3, <1>7 DEF Apart
<1>9. Covered(C \ {p}, F) = Covered(B, E)
  BY <1>3, <1>7 DEF Covered
<1>10. Joining(m, w, c, C, F, p, lo, hi)
  BY <1>13, <1>1, <1>3, <1>6, <1>8, <1>9 DEF Joining
<1>11. Covered(C, F) = Covered(B, E) \cup (p .. q)
  <2>1. E \in [Int -> Int]
    BY <1>1
  <2>3. \A x : x \in Covered(B \cup {p}, F) <=> x \in Covered(B \ {p}, E) \/ x \in p .. q
    BY <1>2, <1>3, <2>1, CoveredPut
  <2>2. B \ {p} = B
    BY <1>12
  <2> QED
    BY <2>2, <2>3
<1> QED
  BY <1>10, <1>11 DEF NodeJoined

\* A node that grows, or has enough already.
LEMMA ExtendHolds ==
    ASSUME NEW l, NEW w, NEW c, NEW B, NEW E, NEW lo, NEW hi,
           SndWindow(w, c, lo, hi), SndRep(l, w, c, B, E, lo, hi),
           NEW b \in B, NEW p \in lo .. hi, NEW q \in lo .. hi, p <= q,
           b <= p, p <= E[b]
    PROVE  SndHolds(Extend(l, c[b], w[q]), w, Covered(B, E) \cup (p .. q), lo, hi)
<1>1. /\ SndBody(l, w, c, B, E, lo, hi) /\ Apart(B, E) /\ HeadIs(l.head, c, B)
      /\ l.length = Cardinality(Covered(B, E)) /\ l \in SndLists /\ Spans(B, E, lo, hi)
      /\ Stored(l.data1, l.data2, SndListSize, w, c, B, E)
      /\ Linked(l.next, SndListSize, c, B)
      /\ B \in SUBSET (lo .. hi) /\ E \in [Int -> Int]
      /\ lo \in Int /\ hi \in Int /\ Window(SndListSize, w, c, lo, hi)
  BY SndRepFacts
<1>2. /\ b \in lo .. hi /\ E[b] \in lo .. hi /\ b <= E[b] /\ b \in Int /\ E[b] \in Int
      /\ c[b] \in SndSlots /\ LastOf(l, c[b]) = w[E[b]] /\ l.data1[c[b]] = w[b]
  BY <1>1, SndNode
<1>3. p \in Int /\ q \in Int
  BY <1>1
<1>4. SeqCmp(w[q], w[E[b]]) > 0 <=> q > E[b]
  BY <1>1, <1>2, WindowFacts
<1> DEFINE at == [l EXCEPT !.lastInsertPos = c[b]]
<1>5. /\ at \in SndLists /\ at.lastInsertPos = c[b] /\ at.data1 = l.data1
      /\ at.data2 = l.data2 /\ at.next = l.next /\ at.head = l.head /\ at.length = l.length
  BY <1>1, <1>2 DEF SndLists
<1> HIDE DEF at
<1>6. CASE q <= E[b]
  <2>1. Extend(l, c[b], w[q]) = at
    BY <1>2, <1>3, <1>4, <1>6 DEF Extend, at
  <2>2. SndRep(at, w, c, B, E, lo, hi)
    BY <1>1, <1>5 DEF SndRep, SndBody
  <2>3. Covered(B, E) \cup (p .. q) = Covered(B, E)
    BY <1>2, <1>3, <1>6 DEF Covered
  <2> QED
    BY <2>1, <2>2, <2>3 DEF SndHolds
<1>7. CASE E[b] < q
  <2> DEFINE grown == [at EXCEPT !.length = @ + SeqLen(LastOf(l, c[b]), w[q]) - 1,
                                 !.data2[c[b]] = w[q]]
             F == [E EXCEPT ![b] = q]
  <2>1. Extend(l, c[b], w[q]) = Coalesce(grown, c[b])
    BY <1>2, <1>3, <1>4, <1>7 DEF Extend, at
  <2>2. SeqLen(w[E[b]], w[q]) = q - E[b] + 1
    <3>1. q - E[b] <= MaxSeqNo /\ E[b] <= q /\ w \in Wires
      BY <1>1, <1>2, <1>3, <1>7, SeqNoAssumption DEF Window
    <3> QED
      BY <1>2, <1>3, <3>1, WireLen
  <2>3. w[q] \in SeqNos \cup {Nil}
    BY <1>1, WindowFacts
  <2>4. /\ grown \in SndLists /\ grown.length = l.length + (q - E[b])
        /\ grown.data1 = l.data1 /\ grown.data2 = [l.data2 EXCEPT ![c[b]] = w[q]]
        /\ grown.next = l.next /\ grown.head = l.head /\ grown.lastInsertPos = c[b]
    <3>1. l.length + (q - E[b] + 1) - 1 \in Int /\ l.length \in Int
      BY <1>1, <1>2, <1>3, SndFields
    <3>2. [l.data2 EXCEPT ![c[b]] = w[q]] \in [SndSlots -> SeqNos \cup {Nil}]
      BY <1>1, <2>3, SndFields
    <3>3. grown = [at EXCEPT !.length = l.length + (q - E[b] + 1) - 1,
                             !.data2 = [l.data2 EXCEPT ![c[b]] = w[q]]]
      BY <1>2, <1>5, <2>2 DEF SndLists
    <3> HIDE DEF grown
    <3>4. /\ grown \in SndLists /\ grown.length = l.length + (q - E[b] + 1) - 1
          /\ grown.data1 = l.data1 /\ grown.data2 = [l.data2 EXCEPT ![c[b]] = w[q]]
          /\ grown.next = l.next /\ grown.head = l.head /\ grown.lastInsertPos = c[b]
      BY <1>5, <3>1, <3>2, <3>3 DEF SndLists
    <3> QED
      BY <1>2, <1>3, <3>1, <3>4
  <2> HIDE DEF grown
  <2>5. F \in [Int -> Int] /\ F[b] = q /\ \A x \in B : x # b => F[x] = E[x]
    BY <1>1, <1>2, <1>3
  <2> HIDE DEF F
  <2>6. Spans(B, F, lo, hi)
    <3>1. \A x \in B : x <= E[x] /\ E[x] <= hi
      BY <1>1 DEF Spans
    <3> QED
      BY <1>1, <1>2, <1>3, <1>7, <2>5, <3>1 DEF Spans
  <2>7. Stored(grown.data1, grown.data2, SndListSize, w, c, B, F)
    <3>1. l.data1 = [l.data1 EXCEPT ![c[b]] = w[b]]
      BY <1>1, <1>2, SndFields
    <3>2. w[q] = LastData(w, b, q)
      BY <1>2, <1>3, <1>7 DEF LastData
    <3>3. grown.data1 = [l.data1 EXCEPT ![c[b]] = w[b]]
          /\ grown.data2 = [l.data2 EXCEPT ![c[b]] = LastData(w, b, q)]
      BY <2>4, <3>1, <3>2
    <3>4. PICK f1, f2 : f1 = grown.data1 /\ f2 = grown.data2
      OBVIOUS
    <3>5. f1 = [l.data1 EXCEPT ![c[b]] = w[b]] /\ f2 = [l.data2 EXCEPT ![c[b]] = LastData(w, b, q)]
      BY <3>3, <3>4
    <3>6. Stored(f1, f2, SndListSize, w, c, B \cup {b}, F)
      BY <1>1, <1>2, <2>5, <3>5, StoredPut
    <3>7. B \cup {b} = B
      OBVIOUS
    <3> QED
      BY <3>4, <3>6, <3>7
  <2>8. SndBody(grown, w, c, B, F, lo, hi)
    BY <1>1, <2>4, <2>6, <2>7 DEF SndBody
  <2>9. Apart(B \ {b}, F) /\ \A d \in B : d < b => F[d] < b
    BY <1>1, <1>2, <2>5 DEF Apart
  <2>10. Covered(B \ {b}, F) = Covered(B \ {b}, E)
    BY <2>5 DEF Covered
  <2>11. grown.length = Cardinality(Covered(B \ {b}, F)) + (F[b] - b + 1)
    <3>1. Cardinality(Covered(B, E)) = Cardinality(Covered(B \ {b}, E)) + (E[b] - b + 1)
      BY <1>1, CoveredCount
    <3>2. Cardinality(Covered(B \ {b}, E)) \in Nat
      <4>1. Spans(B \ {b}, E, lo, hi)
        BY <1>1 DEF Spans
      <4> QED
        BY <1>1, <4>1, CoveredFinite
    <3> QED
      BY <1>1, <1>2, <1>3, <2>4, <2>5, <2>10, <3>1, <3>2
  <2>12. Joining(grown, w, c, B, F, b, lo, hi)
    BY <1>1, <2>4, <2>8, <2>9, <2>11 DEF Joining
  <2>13. Covered(B, F) = Covered(B, E) \cup (p .. q)
    <3>1. ASSUME NEW x \in Covered(B, F) PROVE x \in Covered(B, E) \cup (p .. q)
      <4>1. x \in Int
        BY <3>1 DEF Covered
      <4>2. PICK y \in B : y <= x /\ x <= F[y]
        BY <3>1 DEF Covered
      <4>3. CASE y # b
        BY <2>5, <4>1, <4>2, <4>3 DEF Covered
      <4>4. CASE y = b
        <5>1. x <= E[b] \/ p <= x
          BY <1>2, <1>3, <4>1
        <5> QED
          BY <1>2, <1>3, <2>5, <4>1, <4>2, <4>4, <5>1 DEF Covered
      <4> QED
        BY <4>3, <4>4
    <3>2. ASSUME NEW x \in Covered(B, E) PROVE x \in Covered(B, F)
      <4>1. x \in Int
        BY <3>2 DEF Covered
      <4>2. PICK y \in B : y <= x /\ x <= E[y]
        BY <3>2 DEF Covered
      <4>3. x <= F[y]
        BY <1>2, <1>3, <1>7, <2>5, <4>1, <4>2
      <4> QED
        BY <4>1, <4>2, <4>3 DEF Covered
    <3>3. ASSUME NEW x \in p .. q PROVE x \in Covered(B, F)
      BY <1>2, <1>3, <2>5, <3>3 DEF Covered
    <3> QED
      BY <3>1, <3>2, <3>3
  <2>14. PICK C, G : SndRep(Coalesce(grown, c[b]), w, c, C, G, lo, hi) /\ Covered(C, G) = Covered(B, F)
    BY <2>12, CoalesceJoins
  <2> QED
    BY <2>1, <2>13, <2>14 DEF SndHolds
<1> QED
  BY <1>2, <1>3, <1>6, <1>7

NodeAt(l, loc, seq1, seq2) ==
    [SetNode(l, loc, seq1, seq2) EXCEPT !.length = @ + SeqLen(seq1, seq2),
                                        !.lastInsertPos = loc]
Relinked(l, h, nx) == [l EXCEPT !.head = h, !.next = nx]

IsNewNode(l, new, w, p, q, loc) ==
    /\ new \in SndLists /\ new.data1 = [l.data1 EXCEPT ![loc] = w[p]]
    /\ new.data2 = [l.data2 EXCEPT ![loc] = LastData(w, p, q)]
    /\ new.next = l.next /\ new.head = l.head
    /\ new.length = l.length + (q - p + 1) /\ new.lastInsertPos = loc

LEMMA NewNode ==
    ASSUME NEW l \in SndLists, NEW w \in Wires, NEW p \in Int, NEW q \in Int,
           p <= q, q - p <= MaxSeqNo, NEW loc \in SndSlots, l.data2[loc] = Nil,
           NEW new, new = NodeAt(l, loc, w[p], w[q])
    PROVE  IsNewNode(l, new, w, p, q, loc)
<1>1. /\ l.data1 \in [SndSlots -> SeqNos \cup {Nil}]
      /\ l.data2 \in [SndSlots -> SeqNos \cup {Nil}]
      /\ l.next \in [SndSlots -> SndSlots \cup {Nil}]
      /\ l.head \in SndSlots \cup {Nil} /\ l.length \in Int
      /\ l.lastInsertPos \in SndSlots \cup {Nil}
  BY SndFields
<1>2. w[p] \in SeqNos /\ w[q] \in SeqNos
  BY WireAt
<1>3. w[q] = w[p] <=> q = p
  <2>1. MaxSeqNo \in Nat
    BY SeqNoAssumption
  <2> QED
    BY <2>1, WireInjective
<1>4. SeqLen(w[p], w[q]) = q - p + 1
  BY WireLen
<1> DEFINE f1 == [l.data1 EXCEPT ![loc] = w[p]]
           f2 == [l.data2 EXCEPT ![loc] = LastData(w, p, q)]
           len == l.length + (q - p + 1)
<1>5. SetNode(l, loc, w[p], w[q]) = [l EXCEPT !.data1 = f1, !.data2 = f2]
  <2>1. (IF w[q] # w[p] THEN w[q] ELSE l.data2[loc]) = LastData(w, p, q)
    BY <1>3 DEF LastData
  <2> QED
    BY <2>1 DEF SetNode, SndLists
<1>6. /\ f1 \in [SndSlots -> SeqNos \cup {Nil}] /\ f2 \in [SndSlots -> SeqNos \cup {Nil}]
      /\ len \in Int
  BY <1>1, <1>2 DEF LastData
<1> HIDE DEF f1, f2
<1>7. new = [l EXCEPT !.data1 = f1, !.data2 = f2, !.length = len, !.lastInsertPos = loc]
  BY <1>4, <1>5 DEF SndLists, NodeAt
<1> HIDE DEF len
<1>8. new \in SndLists
  BY <1>6, <1>7 DEF SndLists
<1>9. /\ new.data1 = f1 /\ new.data2 = f2 /\ new.length = len
      /\ new.next = l.next /\ new.head = l.head /\ new.lastInsertPos = loc
  BY <1>7 DEF SndLists
<1> QED
  BY <1>8, <1>9 DEF f1, f2, len, IsNewNode

LEMMA RelinkFields ==
    ASSUME NEW l \in SndLists, NEW h \in SndSlots \cup {Nil},
           NEW nx \in [SndSlots -> SndSlots \cup {Nil}],
           NEW m, m = Relinked(l, h, nx)
    PROVE  /\ m \in SndLists /\ m.data1 = l.data1 /\ m.data2 = l.data2 /\ m.next = nx
           /\ m.head = h /\ m.length = l.length /\ m.lastInsertPos = l.lastInsertPos
BY DEF SndLists, Relinked

LEMMA InsertEmpty ==
    ASSUME NEW l, NEW w, NEW c, NEW B, NEW E, NEW lo, NEW hi,
           SndWindow(w, c, lo, hi), SndRep(l, w, c, B, E, lo, hi),
           NEW p \in lo .. hi, NEW q \in lo .. hi, p <= q, l.length = 0
    PROVE  SndHolds(SndInsert(l, w[p], w[q]), w, Covered(B, E) \cup (p .. q), lo, hi)
<1>1. /\ SndBody(l, w, c, B, E, lo, hi) /\ HeadIs(l.head, c, B)
      /\ l.length = Cardinality(Covered(B, E)) /\ l \in SndLists /\ Spans(B, E, lo, hi)
      /\ Stored(l.data1, l.data2, SndListSize, w, c, B, E)
      /\ Linked(l.next, SndListSize, c, B)
      /\ E \in [Int -> Int] /\ B = {}
      /\ lo \in Int /\ hi \in Int /\ Window(SndListSize, w, c, lo, hi)
  BY SndRepFacts
<1>2. /\ SndListSize \in Nat \ {0} /\ SndListSize <= SeqNoTH /\ w \in Wires
      /\ hi - lo < SndListSize /\ p \in Int /\ q \in Int
  BY <1>1 DEF Window
<1>3. PICK r \in Rings(SndListSize) : r[p] = 0
  BY <1>2, RingThrough
<1>4. Window(SndListSize, w, r, lo, hi) /\ SndWindow(w, r, lo, hi)
  BY <1>1 DEF Window, SndWindow
<1>5. SndRep(l, w, r, B, E, lo, hi)
  <2>1. Stored(l.data1, l.data2, SndListSize, w, r, B, E)
    BY <1>1 DEF Stored
  <2>2. Linked(l.next, SndListSize, r, B)
    BY <1>1 DEF Linked
  <2>3. l.lastInsertPos = Nil
    BY <1>1 DEF SndBody
  <2>4. HeadIs(l.head, r, B) /\ Apart(B, E)
    BY <1>1 DEF HeadIs, Apart
  <2> QED
    BY <1>1, <2>1, <2>2, <2>3, <2>4 DEF SndRep, SndBody
<1>6. l.head = Nil
  BY <1>1 DEF HeadIs
<1>7. 0 \in SndSlots /\ r[p] \in SndSlots /\ l.data2[r[p]] = Nil
  BY <1>1, <1>3, <1>4, <1>5, SndEmpty, SndRepFacts
<1>8. q - p <= MaxSeqNo
  BY <1>1, <1>2, SeqNoAssumption
<1>9. PICK new : new = NodeAt(l, r[p], w[p], w[q])
  OBVIOUS
<1>10. /\ new \in SndLists /\ new.data1 = [l.data1 EXCEPT ![r[p]] = w[p]]
       /\ new.data2 = [l.data2 EXCEPT ![r[p]] = LastData(w, p, q)]
       /\ new.next = l.next /\ new.head = l.head
       /\ new.length = l.length + (q - p + 1) /\ new.lastInsertPos = r[p]
  <2>1. IsNewNode(l, new, w, p, q, r[p])
    BY <1>1, <1>2, <1>7, <1>8, <1>9, NewNode
  <2> QED
    BY <2>1 DEF IsNewNode
<1>11. PICK nx : nx = [l.next EXCEPT ![r[p]] = l.head]
  OBVIOUS
<1>12. nx \in [SndSlots -> SndSlots \cup {Nil}]
  BY <1>1, <1>6, <1>11, SndFields
<1>13. PICK m : m = Relinked(new, r[p], nx)
  OBVIOUS
<1>14. SndInsert(l, w[p], w[q]) = m
  <2>1. SndInsert(l, w[p], w[q]) = [new EXCEPT !.head = r[p], !.next[r[p]] = Nil]
    BY <1>3, <1>9 DEF SndInsert, NodeAt
  <2> QED
    BY <1>6, <1>10, <1>11, <1>13, <2>1 DEF SndLists, Relinked
<1>15. /\ m \in SndLists /\ m.data1 = new.data1 /\ m.data2 = new.data2 /\ m.next = nx
       /\ m.head = r[p] /\ m.length = new.length /\ m.lastInsertPos = new.lastInsertPos
  BY <1>7, <1>10, <1>12, <1>13, RelinkFields
<1>16. Linked(nx, SndListSize, r, B \cup {p}) /\ HeadIs(r[p], r, B \cup {p})
  <2>1. Linked(l.next, SndListSize, r, B) /\ HeadIs(l.head, r, B)
    BY <1>1 DEF Linked, HeadIs
  <2>2. B \in SUBSET (lo .. hi) /\ \A b \in B : p < b
    BY <1>1
  <2> QED
    BY <1>4, <1>11, <2>1, <2>2, LinkFirst
<1>17. PICK C, F : /\ Joining(m, w, r, C, F, p, lo, hi)
                   /\ Covered(C, F) = Covered(B, E) \cup (p .. q)
  <2>1. Clear(B, E, p)
    BY <1>1 DEF Clear
  <2>2. NodeAdded(l, m, w, r, B, p, q)
    BY <1>10, <1>15, <1>16 DEF NodeAdded
  <2>3. NodeJoined(m, w, r, B, E, p, q, lo, hi)
    BY <1>4, <1>5, <2>1, <2>2, NodeJoins
  <2> QED
    BY <2>3 DEF NodeJoined
<1>18. ~Touches(m, r[p])
  BY <1>1, <1>6, <1>7, <1>11, <1>15, SndFields DEF Touches
<1>19. SndRep(m, w, r, C, F, lo, hi)
  BY <1>4, <1>17, <1>18, JoinEnds
<1> QED
  BY <1>4, <1>14, <1>17, <1>19 DEF SndHolds

LEMMA InsertNonEmpty ==
    ASSUME NEW l, NEW w, NEW c, NEW B, NEW E, NEW lo, NEW hi,
           SndWindow(w, c, lo, hi), SndRep(l, w, c, B, E, lo, hi),
           NEW p \in lo .. hi, NEW q \in lo .. hi, p <= q, l.length # 0
    PROVE  SndHolds(SndInsert(l, w[p], w[q]), w, Covered(B, E) \cup (p .. q), lo, hi)
<1>1. /\ SndBody(l, w, c, B, E, lo, hi) /\ Apart(B, E) /\ HeadIs(l.head, c, B)
      /\ l \in SndLists /\ Spans(B, E, lo, hi)
      /\ Stored(l.data1, l.data2, SndListSize, w, c, B, E)
      /\ Linked(l.next, SndListSize, c, B)
      /\ B \in SUBSET (lo .. hi) /\ E \in [Int -> Int] /\ B # {}
      /\ lo \in Int /\ hi \in Int /\ Window(SndListSize, w, c, lo, hi)
  BY SndRepFacts
<1>2. /\ SndListSize \in Nat \ {0} /\ SndListSize <= SeqNoTH /\ w \in Wires
      /\ hi - lo < SndListSize /\ p \in Int /\ q \in Int
  BY <1>1 DEF Window
<1>3. \A x \in B : /\ x \in lo .. hi /\ E[x] \in lo .. hi /\ x <= E[x] /\ x \in Int /\ E[x] \in Int
                   /\ c[x] \in SndSlots /\ c[x] # Nil
                   /\ l.data1[c[x]] = w[x]
                   /\ l.data2[c[x]] = Nil <=> E[x] = x
                   /\ l.data2[c[x]] # Nil => l.data2[c[x]] = w[E[x]]
  BY <1>1, SndNode
<1>4. PICK h \in B : /\ IsFirst(B, h) /\ l.head = c[h] /\ l.data1[l.head] = w[h]
                     /\ SeqOff(l.data1[l.head], w[p]) = p - h /\ SlotOf(l, w[p]) = c[p]
  BY <1>1, SndHead
<1>5. c[p] \in SndSlots /\ (p \notin B => l.data1[c[p]] = Nil /\ l.data2[c[p]] = Nil)
  BY <1>1, SndEmpty
<1>6. q - p <= MaxSeqNo
  BY <1>1, <1>2, SeqNoAssumption
<1>7. PICK new : new = NodeAt(l, c[p], w[p], w[q])
  OBVIOUS
<1>8. ASSUME p \notin B
      PROVE  /\ new \in SndLists /\ new.data1 = [l.data1 EXCEPT ![c[p]] = w[p]]
             /\ new.data2 = [l.data2 EXCEPT ![c[p]] = LastData(w, p, q)]
             /\ new.next = l.next /\ new.head = l.head
             /\ new.length = l.length + (q - p + 1) /\ new.lastInsertPos = c[p]
  <2>1. IsNewNode(l, new, w, p, q, c[p])
    BY <1>1, <1>2, <1>5, <1>6, <1>7, <1>8, NewNode
  <2> QED
    BY <2>1 DEF IsNewNode
<1>9. w[p] = l.data1[c[p]] <=> p \in B
  <2>1. w[p] # Nil
    BY <1>1, WindowFacts
  <2> QED
    BY <1>3, <1>5, <2>1
<1>10. CASE p < h
  <2>1. p \notin B /\ \A b \in B : p < b
    BY <1>2, <1>3, <1>4, <1>10 DEF IsFirst
  <2>2. PICK nx : nx = [l.next EXCEPT ![c[p]] = l.head]
    OBVIOUS
  <2>3. nx \in [SndSlots -> SndSlots \cup {Nil}]
    BY <1>1, <2>2, SndFields
  <2>4. PICK m : m = Relinked(new, c[p], nx)
    OBVIOUS
  <2>5. SndInsert(l, w[p], w[q]) = Coalesce(m, c[p])
    <3>1. SndInsert(l, w[p], w[q]) =
            Coalesce([new EXCEPT !.next[c[p]] = l.head, !.head = c[p]], c[p])
      <4>1. SeqOff(l.data1[l.head], w[p]) < 0
        BY <1>2, <1>3, <1>4, <1>10
      <4> QED
        BY <1>4, <1>7, <4>1 DEF SndInsert, NodeAt
    <3>2. m = [new EXCEPT !.next[c[p]] = l.head, !.head = c[p]]
      BY <1>8, <2>1, <2>2, <2>4 DEF SndLists, Relinked
    <3> QED
      BY <3>1, <3>2
  <2>6. /\ m \in SndLists /\ m.data1 = new.data1 /\ m.data2 = new.data2 /\ m.next = nx
        /\ m.head = c[p] /\ m.length = new.length /\ m.lastInsertPos = new.lastInsertPos
    BY <1>5, <1>8, <2>1, <2>3, <2>4, RelinkFields
  <2>7. Linked(nx, SndListSize, c, B \cup {p}) /\ HeadIs(c[p], c, B \cup {p})
    BY <1>1, <2>1, <2>2, LinkFirst
  <2>8. PICK C, F : /\ Joining(m, w, c, C, F, p, lo, hi)
                    /\ Covered(C, F) = Covered(B, E) \cup (p .. q)
    <3>1. Clear(B, E, p)
      BY <1>2, <1>3, <2>1 DEF Clear
    <3>2. NodeAdded(l, m, w, c, B, p, q)
      BY <1>8, <2>1, <2>6, <2>7 DEF NodeAdded
    <3>3. NodeJoined(m, w, c, B, E, p, q, lo, hi)
      BY <3>1, <3>2, NodeJoins
    <3> QED
      BY <3>3 DEF NodeJoined
  <2>9. PICK C2, F2 : /\ SndRep(Coalesce(m, c[p]), w, c, C2, F2, lo, hi)
                      /\ Covered(C2, F2) = Covered(C, F)
    BY <2>8, CoalesceJoins
  <2> QED
    BY <2>5, <2>8, <2>9 DEF SndHolds
<1>11. CASE p \in B
  <2>1. SndInsert(l, w[p], w[q]) = Extend(l, c[p], w[q])
    <3>1. ~(SeqOff(l.data1[l.head], w[p]) < 0)
      BY <1>2, <1>3, <1>4, <1>11 DEF IsFirst
    <3> QED
      BY <1>4, <1>9, <1>11, <3>1 DEF SndInsert, NodeAt
  <2>2. p <= p /\ p <= E[p]
    BY <1>3, <1>11
  <2> QED
    BY <1>11, <2>1, <2>2, ExtendHolds
<1>12. CASE ~(p < h) /\ p \notin B
  <2>1. h < p /\ h \in Int
    BY <1>2, <1>3, <1>4, <1>12
  <2>2. PICK a \in B : a < p /\ FirstCandidate(l, w[p]) = c[a]
    <3>1. CASE l.lastInsertPos # Nil /\ SeqCmp(l.data1[l.lastInsertPos], w[p]) < 0
      <4>1. PICK a \in B : l.lastInsertPos = c[a]
        BY <1>1, <3>1 DEF SndBody
      <4>2. SeqCmp(w[a], w[p]) < 0
        BY <1>3, <3>1, <4>1
      <4>3. a < p
        BY <1>1, <1>3, <4>2, WindowFacts
      <4> QED
        BY <3>1, <4>1, <4>3 DEF FirstCandidate
    <3>2. CASE ~(l.lastInsertPos # Nil /\ SeqCmp(l.data1[l.lastInsertPos], w[p]) < 0)
      BY <1>4, <2>1, <3>2 DEF FirstCandidate
    <3> QED
      BY <3>1, <3>2
  <2>3. PICK b \in B : /\ b < p /\ \A x \in B : x <= b \/ p <= x
                       /\ PriorNode(l, c[a], w[p]) = c[b]
    <3>1. PriorFound(l, w, c, B, a, p)
      BY <1>1, <2>2, PriorNodeIs
    <3> QED
      BY <3>1 DEF PriorFound
  <2>4. (l.data2[c[b]] = Nil \/ SeqCmp(l.data2[c[b]], w[p]) < 0) <=> E[b] < p
    <3>1. SeqCmp(w[E[b]], w[p]) < 0 <=> E[b] < p
      BY <1>1, <1>3, WindowFacts
    <3> QED
      BY <1>3, <2>3, <3>1
  <2>5. ~(SeqOff(l.data1[l.head], w[p]) < 0) /\ w[p] # l.data1[c[p]]
    BY <1>2, <1>4, <1>9, <1>12, <2>1
  <2>6. CASE ~(E[b] < p)
    <3>1. SndInsert(l, w[p], w[q]) = Extend(l, c[b], w[q])
      BY <1>4, <2>2, <2>3, <2>4, <2>5, <2>6 DEF SndInsert, NodeAt
    <3>2. b <= p /\ p <= E[b]
      BY <1>2, <1>3, <2>3, <2>6
    <3> QED
      BY <3>1, <3>2, ExtendHolds
  <2>7. CASE E[b] < p
    <3>1. PICK nx : nx = [l.next EXCEPT ![c[p]] = l.next[c[b]], ![c[b]] = c[p]]
      OBVIOUS
    <3>2. nx \in [SndSlots -> SndSlots \cup {Nil}]
      <4>1. l.next \in [SndSlots -> SndSlots \cup {Nil}] /\ c[b] \in SndSlots
        BY <1>1, <1>3, SndFields
      <4> QED
        BY <1>5, <3>1, <4>1
    <3>3. PICK m : m = Relinked(new, l.head, nx)
      OBVIOUS
    <3>4. SndInsert(l, w[p], w[q]) = Coalesce(m, c[p])
      <4>1. SndInsert(l, w[p], w[q]) =
              Coalesce([new EXCEPT !.next[c[p]] = l.next[c[b]], !.next[c[b]] = c[p]], c[p])
        BY <1>4, <1>7, <2>2, <2>3, <2>4, <2>5, <2>7 DEF SndInsert, NodeAt
      <4>2. m = [new EXCEPT !.next[c[p]] = l.next[c[b]], !.next[c[b]] = c[p]]
        BY <1>8, <1>12, <3>1, <3>3 DEF SndLists, Relinked
      <4> QED
        BY <4>1, <4>2
    <3>5. /\ m \in SndLists /\ m.data1 = new.data1 /\ m.data2 = new.data2 /\ m.next = nx
          /\ m.head = l.head /\ m.length = new.length /\ m.lastInsertPos = new.lastInsertPos
      <4>1. l.head \in SndSlots \cup {Nil} /\ new \in SndLists
        BY <1>1, <1>8, <1>12, SndFields
      <4> QED
        BY <3>2, <3>3, <4>1, RelinkFields
    <3>6. Linked(nx, SndListSize, c, B \cup {p})
      <4>1. \A x \in B : x <= b \/ p < x
        BY <1>2, <1>3, <1>12, <2>3
      <4> QED
        BY <1>1, <2>3, <3>1, <4>1, LinkAfter
    <3>7. HeadIs(l.head, c, B \cup {p})
      <4>1. \A x \in B \cup {p} : IsFirst(B \cup {p}, x) => x = h
        BY <1>2, <1>3, <1>4, <2>1 DEF IsFirst
      <4> QED
        BY <1>1, <1>4, <4>1 DEF HeadIs
    <3>8. Clear(B, E, p)
      BY <1>1, <1>2, <1>3, <1>12, <2>3, <2>7 DEF Apart, Clear
    <3>9. PICK C, F : /\ Joining(m, w, c, C, F, p, lo, hi)
                      /\ Covered(C, F) = Covered(B, E) \cup (p .. q)
      <4>1. NodeAdded(l, m, w, c, B, p, q)
        BY <1>8, <1>12, <3>5, <3>6, <3>7 DEF NodeAdded
      <4>2. NodeJoined(m, w, c, B, E, p, q, lo, hi)
        BY <3>8, <4>1, NodeJoins
      <4> QED
        BY <4>2 DEF NodeJoined
    <3>10. PICK C2, F2 : /\ SndRep(Coalesce(m, c[p]), w, c, C2, F2, lo, hi)
                         /\ Covered(C2, F2) = Covered(C, F)
      BY <3>9, CoalesceJoins
    <3> QED
      BY <3>4, <3>9, <3>10 DEF SndHolds
  <2> QED
    BY <2>6, <2>7
<1> QED
  BY <1>10, <1>11, <1>12

LEMMA SndInsertHolds ==
    ASSUME NEW l, NEW w, NEW S, NEW lo, NEW hi, SndHolds(l, w, S, lo, hi),
           NEW p \in lo .. hi, NEW q \in lo .. hi, p <= q
    PROVE  SndHolds(SndInsert(l, w[p], w[q]), w, S \cup (p .. q), lo, hi)
<1>1. PICK c, B, E : /\ SndWindow(w, c, lo, hi) /\ SndRep(l, w, c, B, E, lo, hi)
                     /\ Covered(B, E) = S
  BY DEF SndHolds
<1>2. CASE l.length = 0
  BY <1>1, <1>2, InsertEmpty
<1>3. CASE l.length # 0
  BY <1>1, <1>3, InsertNonEmpty
<1> QED
  BY <1>2, <1>3

-----------------------------------------------------------------------------
(* remove and getLostSeq                                                   *)

\* The nodes of the list from h on, wherever its head points.
Chained(l, h, w, c, B, E, lo, hi) ==
    /\ SndBody(l, w, c, B, E, lo, hi) /\ Apart(B, E) /\ HeadIs(h, c, B)
    /\ l.length = Cardinality(Covered(B, E))

LEMMA ChainedFacts ==
    ASSUME NEW l, NEW h, NEW w, NEW c, NEW B, NEW E, NEW lo, NEW hi,
           SndWindow(w, c, lo, hi), Chained(l, h, w, c, B, E, lo, hi)
    PROVE  /\ SndBody(l, w, c, B, E, lo, hi) /\ Apart(B, E) /\ HeadIs(h, c, B)
           /\ l.length = Cardinality(Covered(B, E))
           /\ l \in SndLists /\ Spans(B, E, lo, hi)
           /\ Stored(l.data1, l.data2, SndListSize, w, c, B, E)
           /\ Linked(l.next, SndListSize, c, B)
           /\ B \in SUBSET (lo .. hi) /\ E \in [Int -> Int]
           /\ lo \in Int /\ hi \in Int /\ Window(SndListSize, w, c, lo, hi)
           /\ l.length \in Nat
           /\ l.lastInsertPos = Nil \/ \E b \in B : l.lastInsertPos = c[b]
           /\ w \in Wires /\ c \in Rings(SndListSize) /\ hi - lo < SndListSize
           /\ SndListSize \in Nat \ {0} /\ SndListSize <= MaxSeqNo /\ SndListSize <= SeqNoTH
<1>1. /\ SndBody(l, w, c, B, E, lo, hi) /\ Apart(B, E) /\ HeadIs(h, c, B)
      /\ l.length = Cardinality(Covered(B, E))
  BY DEF Chained
<1>2. /\ l \in SndLists /\ Spans(B, E, lo, hi)
      /\ Stored(l.data1, l.data2, SndListSize, w, c, B, E)
      /\ Linked(l.next, SndListSize, c, B)
      /\ l.lastInsertPos = Nil \/ \E b \in B : l.lastInsertPos = c[b]
  BY <1>1 DEF SndBody
<1>3. /\ B \in SUBSET (lo .. hi) /\ E \in [Int -> Int]
      /\ lo \in Int /\ hi \in Int /\ Window(SndListSize, w, c, lo, hi)
  BY <1>2 DEF Spans, SndWindow, Window
<1>4. l.length \in Nat
  BY <1>1, <1>2, <1>3, CoveredFinite
<1>5. /\ w \in Wires /\ c \in Rings(SndListSize) /\ hi - lo < SndListSize
      /\ SndListSize \in Nat \ {0} /\ SndListSize <= SeqNoTH
  BY <1>3 DEF Window
<1>6. SndListSize <= MaxSeqNo
  BY <1>5, SeqNoAssumption
<1> QED
  BY <1>1, <1>2, <1>3, <1>4, <1>5, <1>6

\* What m is after node b has left l.
IsDropped(l, m, w, c, E, b) ==
    /\ m \in SndLists
    /\ m.data1 = [l.data1 EXCEPT ![c[b]] = Nil] /\ m.data2 = [l.data2 EXCEPT ![c[b]] = Nil]
    /\ m.next = [l.next EXCEPT ![c[b]] = Nil]
    /\ m.length = l.length - (E[b] - b + 1)
    /\ m.lastInsertPos = IF l.lastInsertPos = c[b] THEN Nil ELSE l.lastInsertPos

LEMMA DropNodeFields ==
    ASSUME NEW l, NEW h, NEW w, NEW c, NEW B, NEW E, NEW lo, NEW hi,
           SndWindow(w, c, lo, hi), Chained(l, h, w, c, B, E, lo, hi), NEW b \in B
    PROVE  IsDropped(l, DropNode(l, c[b]), w, c, E, b) /\ DropNode(l, c[b]).head = l.head
<1>1. /\ SndBody(l, w, c, B, E, lo, hi) /\ l \in SndLists /\ lo \in Int /\ hi \in Int
      /\ w \in Wires /\ hi - lo < SndListSize /\ SndListSize <= MaxSeqNo /\ l.length \in Nat
      /\ SndListSize \in Nat
  BY ChainedFacts
<1>2. /\ b \in lo .. hi /\ E[b] \in lo .. hi /\ b <= E[b] /\ b \in Int /\ E[b] \in Int
      /\ c[b] \in SndSlots /\ l.data1[c[b]] = w[b] /\ LastOf(l, c[b]) = w[E[b]]
  BY <1>1, SndNode
<1>3. SeqLen(l.data1[c[b]], LastOf(l, c[b])) = E[b] - b + 1
  <2>1. E[b] - b <= MaxSeqNo
    BY <1>1, <1>2, SeqNoAssumption
  <2> QED
    BY <1>1, <1>2, <2>1, WireLen
<1>4. /\ l.data1 \in [SndSlots -> SeqNos \cup {Nil}]
      /\ l.data2 \in [SndSlots -> SeqNos \cup {Nil}]
      /\ l.next \in [SndSlots -> SndSlots \cup {Nil}]
      /\ l.lastInsertPos \in SndSlots \cup {Nil}
  BY <1>1, SndFields
<1> DEFINE f1 == [l.data1 EXCEPT ![c[b]] = Nil]
           f2 == [l.data2 EXCEPT ![c[b]] = Nil]
           nx == [l.next EXCEPT ![c[b]] = Nil]
           len == l.length - (E[b] - b + 1)
           pos == IF l.lastInsertPos = c[b] THEN Nil ELSE l.lastInsertPos
<1>5. /\ f1 \in [SndSlots -> SeqNos \cup {Nil}] /\ f2 \in [SndSlots -> SeqNos \cup {Nil}]
      /\ nx \in [SndSlots -> SndSlots \cup {Nil}] /\ len \in Int
      /\ pos \in SndSlots \cup {Nil}
  BY <1>1, <1>2, <1>4
<1>6. DropNode(l, c[b]) = [l EXCEPT !.length = len, !.data1 = f1, !.data2 = f2,
                                    !.next = nx, !.lastInsertPos = pos]
  BY <1>1, <1>3 DEF DropNode, SndLists
<1> HIDE DEF f1, f2, nx, len, pos
<1>7. /\ DropNode(l, c[b]) \in SndLists /\ DropNode(l, c[b]).head = l.head
      /\ DropNode(l, c[b]).data1 = f1 /\ DropNode(l, c[b]).data2 = f2
      /\ DropNode(l, c[b]).next = nx /\ DropNode(l, c[b]).length = len
      /\ DropNode(l, c[b]).lastInsertPos = pos
  BY <1>1, <1>5, <1>6 DEF SndLists
<1> QED
  BY <1>7 DEF IsDropped, f1, f2, nx, len, pos

LEMMA FirstDropped ==
    ASSUME NEW l, NEW h, NEW w, NEW c, NEW B, NEW E, NEW lo, NEW hi,
           SndWindow(w, c, lo, hi), Chained(l, h, w, c, B, E, lo, hi),
           NEW b \in B, IsFirst(B, b), NEW m, IsDropped(l, m, w, c, E, b)
    PROVE  /\ Chained(m, l.next[c[b]], w, c, B \ {b}, E, lo, hi)
           /\ Cardinality(Filled(m)) < Cardinality(Filled(l))
<1>1. /\ SndBody(l, w, c, B, E, lo, hi) /\ Apart(B, E) /\ l \in SndLists
      /\ l.length = Cardinality(Covered(B, E)) /\ Spans(B, E, lo, hi)
      /\ Stored(l.data1, l.data2, SndListSize, w, c, B, E)
      /\ Linked(l.next, SndListSize, c, B)
      /\ B \in SUBSET (lo .. hi) /\ E \in [Int -> Int]
      /\ lo \in Int /\ hi \in Int /\ Window(SndListSize, w, c, lo, hi)
      /\ l.lastInsertPos = Nil \/ \E x \in B : l.lastInsertPos = c[x]
  BY ChainedFacts
<1>2. b \in lo .. hi /\ E[b] \in Int /\ b \in Int /\ c[b] \in SndSlots /\ l.data1[c[b]] = w[b]
  BY <1>1, SndNode
<1>3. /\ m \in SndLists
      /\ m.data1 = [l.data1 EXCEPT ![c[b]] = Nil] /\ m.data2 = [l.data2 EXCEPT ![c[b]] = Nil]
      /\ m.next = [l.next EXCEPT ![c[b]] = Nil]
      /\ m.length = l.length - (E[b] - b + 1)
      /\ m.lastInsertPos = IF l.lastInsertPos = c[b] THEN Nil ELSE l.lastInsertPos
  BY DEF IsDropped
<1>4. Stored(m.data1, m.data2, SndListSize, w, c, B \ {b}, E)
  <2>1. PICK f1, f2 : f1 = m.data1 /\ f2 = m.data2
    OBVIOUS
  <2>2. f1 = [l.data1 EXCEPT ![c[b]] = Nil] /\ f2 = [l.data2 EXCEPT ![c[b]] = Nil]
    BY <1>3, <2>1
  <2>3. Stored(f1, f2, SndListSize, w, c, B \ {b}, E)
    BY <1>1, <1>2, <2>2, StoredDelete
  <2> QED
    BY <2>1, <2>3
<1>5. Linked(m.next, SndListSize, c, B \ {b}) /\ HeadIs(l.next[c[b]], c, B \ {b})
  <2>1. PICK f, nx : f = m.next /\ nx = l.next
    OBVIOUS
  <2>2. f = [nx EXCEPT ![c[b]] = Nil] /\ Linked(nx, SndListSize, c, B)
    BY <1>1, <1>3, <2>1
  <2>3. Linked(f, SndListSize, c, B \ {b}) /\ HeadIs(nx[c[b]], c, B \ {b})
    BY <1>1, <2>2, UnlinkFirst
  <2> QED
    BY <2>1, <2>3
<1>6. Spans(B \ {b}, E, lo, hi) /\ Apart(B \ {b}, E)
  BY <1>1 DEF Spans, Apart
<1>7. m.lastInsertPos = Nil \/ \E x \in B \ {b} : m.lastInsertPos = c[x]
  BY <1>1, <1>3
<1>8. m.length = Cardinality(Covered(B \ {b}, E))
  <2>1. Cardinality(Covered(B, E)) = Cardinality(Covered(B \ {b}, E)) + (E[b] - b + 1)
    <3>1. Spans(B, E, lo, hi) /\ Apart(B, E) /\ lo \in Int /\ hi \in Int
      BY <1>1
    <3> QED
      BY <3>1, CoveredCount
  <2>2. Cardinality(Covered(B \ {b}, E)) \in Nat
    BY <1>1, <1>6, CoveredFinite
  <2> QED
    BY <1>1, <1>2, <1>3, <2>1, <2>2
<1>9. Cardinality(Filled(m)) < Cardinality(Filled(l))
  <2>1. l.data1[c[b]] # Nil
    BY <1>1, <1>2, WindowFacts
  <2> QED
    BY <1>1, <1>2, <1>3, <2>1, FilledLess
<1>10. SndBody(m, w, c, B \ {b}, E, lo, hi)
  BY <1>3, <1>4, <1>5, <1>6, <1>7 DEF SndBody
<1> QED
  BY <1>5, <1>6, <1>8, <1>9, <1>10 DEF Chained

\* What m is after node p .. q has been put before node h of l.
IsPrefixed(l, m, h, w, c, p, q) ==
    /\ m \in SndLists
    /\ m.data1 = [l.data1 EXCEPT ![c[p]] = w[p]]
    /\ m.data2 = [l.data2 EXCEPT ![c[p]] = LastData(w, p, q)]
    /\ m.next = [l.next EXCEPT ![c[p]] = h]
    /\ m.length = l.length + (q - p + 1)
    /\ m.lastInsertPos = l.lastInsertPos

Prefixed(m, w, c, B, E, p, q, lo, hi) ==
    \E F : /\ Chained(m, c[p], w, c, B \cup {p}, F, lo, hi)
           /\ Covered(B \cup {p}, F) = Covered(B, E) \cup (p .. q)

LEMMA FirstPut ==
    ASSUME NEW l, NEW h, NEW w, NEW c, NEW B, NEW E, NEW lo, NEW hi,
           SndWindow(w, c, lo, hi), Chained(l, h, w, c, B, E, lo, hi),
           NEW p \in lo .. hi, NEW q \in lo .. hi, p <= q, \A b \in B : q < b,
           NEW m, IsPrefixed(l, m, h, w, c, p, q)
    PROVE  Prefixed(m, w, c, B, E, p, q, lo, hi)
<1> DEFINE C == B \cup {p}
           F == [E EXCEPT ![p] = q]
<1>1. /\ Apart(B, E) /\ l \in SndLists /\ HeadIs(h, c, B)
      /\ l.length = Cardinality(Covered(B, E)) /\ Spans(B, E, lo, hi)
      /\ Stored(l.data1, l.data2, SndListSize, w, c, B, E)
      /\ Linked(l.next, SndListSize, c, B)
      /\ B \in SUBSET (lo .. hi) /\ E \in [Int -> Int]
      /\ lo \in Int /\ hi \in Int /\ Window(SndListSize, w, c, lo, hi)
      /\ l.lastInsertPos = Nil \/ \E x \in B : l.lastInsertPos = c[x]
  BY ChainedFacts
<1>2. /\ m \in SndLists
      /\ m.data1 = [l.data1 EXCEPT ![c[p]] = w[p]]
      /\ m.data2 = [l.data2 EXCEPT ![c[p]] = LastData(w, p, q)]
      /\ m.next = [l.next EXCEPT ![c[p]] = h]
      /\ m.length = l.length + (q - p + 1)
      /\ m.lastInsertPos = l.lastInsertPos
  BY DEF IsPrefixed
<1>3. p \in Int /\ q \in Int /\ B \in SUBSET Int /\ p \notin B /\ \A b \in B : p < b
  BY <1>1
<1>4. F \in [Int -> Int] /\ F[p] = q /\ \A b \in B : b # p => F[b] = E[b]
  BY <1>1, <1>3
<1> HIDE DEF F
<1>5. Spans(C, F, lo, hi)
  <2>1. \A b \in B : b <= E[b] /\ E[b] <= hi
    BY <1>1 DEF Spans
  <2> QED
    BY <1>1, <1>3, <1>4, <2>1 DEF Spans
<1>6. Stored(m.data1, m.data2, SndListSize, w, c, C, F)
  <2>1. PICK f1, f2 : f1 = m.data1 /\ f2 = m.data2
    OBVIOUS
  <2>2. f1 = [l.data1 EXCEPT ![c[p]] = w[p]] /\ f2 = [l.data2 EXCEPT ![c[p]] = LastData(w, p, q)]
    BY <1>2, <2>1
  <2>3. Stored(f1, f2, SndListSize, w, c, B \cup {p}, F)
    BY <1>1, <1>4, <2>2, StoredPut
  <2> QED
    BY <2>1, <2>3
<1>7. Linked(m.next, SndListSize, c, C) /\ HeadIs(c[p], c, C)
  <2>1. PICK f, nx : f = m.next /\ nx = l.next
    OBVIOUS
  <2>2. f = [nx EXCEPT ![c[p]] = h] /\ Linked(nx, SndListSize, c, B)
    BY <1>1, <1>2, <2>1
  <2>3. Linked(f, SndListSize, c, B \cup {p}) /\ HeadIs(c[p], c, B \cup {p})
    BY <1>1, <1>3, <2>2, LinkFirst
  <2> QED
    BY <2>1, <2>3
<1>8. Apart(C, F)
  <2>1. \A b, d \in B : b < d => E[b] < d
    BY <1>1 DEF Apart
  <2> QED
    BY <1>3, <1>4, <2>1 DEF Apart
<1>9. \A x : x \in Covered(C, F) <=> x \in Covered(B, E) \/ x \in p .. q
  <2>1. E \in [Int -> Int]
    BY <1>1
  <2>2. \A x : x \in Covered(B \cup {p}, F) <=> x \in Covered(B \ {p}, E) \/ x \in p .. q
    BY <1>3, <1>4, <2>1, CoveredPut
  <2>3. B \ {p} = B
    BY <1>3
  <2> QED
    BY <2>2, <2>3
<1>10. m.length = Cardinality(Covered(C, F))
  <2>1. Cardinality(Covered(C, F)) = Cardinality(Covered(C \ {p}, F)) + (F[p] - p + 1)
    <3>1. p \in C
      OBVIOUS
    <3> QED
      BY <1>1, <1>5, <1>8, <3>1, CoveredCount
  <2>2. Covered(C \ {p}, F) = Covered(B, E)
    <3>1. C \ {p} = B
      BY <1>3
    <3> QED
      BY <1>3, <1>4, <3>1 DEF Covered
  <2> QED
    BY <1>1, <1>2, <1>4, <2>1, <2>2
<1>11. SndBody(m, w, c, C, F, lo, hi)
  BY <1>1, <1>2, <1>5, <1>6, <1>7 DEF SndBody
<1>12. Chained(m, c[p], w, c, C, F, lo, hi)
  BY <1>7, <1>8, <1>10, <1>11 DEF Chained
<1> QED
  BY <1>9, <1>12 DEF Prefixed

\* What getLostSeq() does: it takes the first number.
SndTakes(l, m, w, S, lo, hi) ==
    \E x \in S : /\ \A y \in S : x <= y
                 /\ SndFirst(l) = w[x] /\ SndHolds(m, w, S \ {x}, lo, hi)

LEMMA DropFirstHolds ==
    ASSUME NEW l, NEW w, NEW S, NEW lo, NEW hi, SndHolds(l, w, S, lo, hi), l.length # 0
    PROVE  SndTakes(l, DropFirst(l), w, S, lo, hi)
<1>1. PICK c, B, E : /\ SndWindow(w, c, lo, hi) /\ SndRep(l, w, c, B, E, lo, hi)
                     /\ Covered(B, E) = S
  BY DEF SndHolds
<1>2. Chained(l, l.head, w, c, B, E, lo, hi) /\ B # {}
  BY <1>1, SndRepFacts DEF Chained
<1>3. /\ SndBody(l, w, c, B, E, lo, hi) /\ Apart(B, E) /\ Spans(B, E, lo, hi) /\ l \in SndLists
      /\ B \in SUBSET (lo .. hi) /\ lo \in Int /\ hi \in Int /\ l.length \in Nat
      /\ w \in Wires /\ c \in Rings(SndListSize) /\ hi - lo < SndListSize
      /\ SndListSize \in Nat \ {0} /\ SndListSize <= SeqNoTH
      /\ Window(SndListSize, w, c, lo, hi)
  BY <1>1, <1>2, ChainedFacts
<1>4. PICK h \in B : IsFirst(B, h) /\ l.head = c[h] /\ l.data1[l.head] = w[h]
  BY <1>1, <1>2, SndHead
<1>5. /\ h \in lo .. hi /\ E[h] \in lo .. hi /\ h <= E[h] /\ h \in Int /\ E[h] \in Int
      /\ c[h] \in SndSlots
      /\ l.data2[c[h]] = Nil <=> E[h] = h
      /\ l.data2[c[h]] # Nil => l.data2[c[h]] = w[E[h]]
      /\ l.data1[c[h]] = w[h] /\ LastOf(l, c[h]) = w[E[h]]
  BY <1>1, <1>3, SndNode
<1>6. \A b \in B : b \in Int /\ b <= E[b] /\ E[b] \in Int
  BY <1>3 DEF Spans
<1>7. h \in S /\ \A y \in S : h <= y
  BY <1>1, <1>4, <1>5, <1>6 DEF Covered, IsFirst
<1>8. SndFirst(l) = w[h]
  BY <1>4 DEF SndFirst
<1>9. PICK d, D, nh : d = DropNode(l, c[h]) /\ D = B \ {h} /\ nh = l.next[c[h]]
  OBVIOUS
<1>10. IsDropped(l, d, w, c, E, h) /\ d.head = l.head
  BY <1>1, <1>2, <1>9, DropNodeFields
<1>11. Chained(d, nh, w, c, D, E, lo, hi)
  BY <1>1, <1>2, <1>4, <1>9, <1>10, FirstDropped
<1>12. S = Covered(D, E) \cup (h .. E[h]) /\ \A x \in h .. E[h] : x \notin Covered(D, E)
  BY <1>1, <1>3, <1>9, CoveredNode
<1>13. /\ d \in SndLists
       /\ d.data1 = [l.data1 EXCEPT ![c[h]] = Nil] /\ d.data2 = [l.data2 EXCEPT ![c[h]] = Nil]
       /\ d.next = [l.next EXCEPT ![c[h]] = Nil]
       /\ d.length = l.length - (E[h] - h + 1)
       /\ d.lastInsertPos = IF l.lastInsertPos = c[h] THEN Nil ELSE l.lastInsertPos
  BY <1>10 DEF IsDropped
<1>14. nh \in SndSlots \cup {Nil}
  BY <1>3, <1>5, <1>9, SndFields
<1>15. CASE E[h] = h
  <2>1. DropFirst(l) = [d EXCEPT !.head = nh]
    <3>1. l.data2[l.head] = Nil
      BY <1>4, <1>5, <1>15
    <3>2. DropFirst(l) = [l EXCEPT !.head = nh, !.data1[c[h]] = Nil, !.data2[c[h]] = Nil,
                                   !.next[c[h]] = Nil, !.length = @ - 1,
                                   !.lastInsertPos = IF @ = c[h] THEN Nil ELSE @]
      BY <1>3, <1>4, <1>9, <3>1 DEF DropFirst, SndLists
    <3>3. l.length - 1 = d.length
      BY <1>3, <1>5, <1>13, <1>15
    <3> QED
      BY <1>3, <1>13, <3>2, <3>3 DEF SndLists
  <2>2. PICK m : m = [d EXCEPT !.head = nh]
    OBVIOUS
  <2>3. /\ m \in SndLists /\ m.data1 = d.data1 /\ m.data2 = d.data2 /\ m.next = d.next
        /\ m.length = d.length /\ m.lastInsertPos = d.lastInsertPos /\ m.head = nh
    BY <1>13, <1>14, <2>2 DEF SndLists
  <2>4. SndRep(m, w, c, D, E, lo, hi)
    BY <1>11, <2>3 DEF Chained, SndRep, SndBody
  <2>5. Covered(D, E) = S \ {h}
    BY <1>5, <1>12, <1>15
  <2> QED
    BY <1>1, <1>7, <1>8, <2>1, <2>2, <2>4, <2>5 DEF SndTakes, SndHolds
<1>16. CASE E[h] > h
  <2>1. PICK p : p = h + 1
    OBVIOUS
  <2>2. p \in lo .. hi /\ p \in Int /\ p <= E[h] /\ h # p
    BY <1>3, <1>5, <1>16, <2>1
  <2>3. (c[h] + 1) % SndListSize = c[p] /\ IncSeq(w[h]) = w[p]
    <3>1. SndListSize > 1 /\ SndListSize \in Nat
      BY <1>3, <1>5, <1>16
    <3> QED
      BY <1>3, <1>5, <2>1, <3>1, RingNext, WireStep
  <2>4. p \notin B
    BY <1>3, <1>5, <1>16, <2>1 DEF Apart
  <2>5. c[p] \in SndSlots /\ l.data1[c[p]] = Nil /\ l.data2[c[p]] = Nil /\ c[p] # c[h]
    <3>1. c[p] \in SndSlots /\ l.data1[c[p]] = Nil /\ l.data2[c[p]] = Nil
      BY <1>1, <1>3, <2>2, <2>4, SndEmpty
    <3>2. w[h] # Nil
      BY <1>3, <1>5, WindowFacts
    <3> QED
      BY <1>5, <3>1, <3>2
  <2>6. (IF SeqCmp(l.data2[c[h]], w[p]) > 0 THEN l.data2[c[h]] ELSE l.data2[c[p]])
          = LastData(w, p, E[h])
    <3>1. l.data2[c[h]] = w[E[h]]
      BY <1>5, <1>16
    <3>2. SeqCmp(w[E[h]], w[p]) > 0 <=> E[h] > p
      BY <1>3, <1>5, <2>2, WindowFacts
    <3> QED
      BY <1>5, <2>2, <2>5, <3>1, <3>2 DEF LastData
  <2>7. w[p] \in SeqNos \cup {Nil} /\ LastData(w, p, E[h]) \in SeqNos \cup {Nil}
    BY <1>3, <1>5, <2>2, WindowFacts DEF LastData
  <2> DEFINE f1 == [d.data1 EXCEPT ![c[p]] = w[p]]
             f2 == [d.data2 EXCEPT ![c[p]] = LastData(w, p, E[h])]
             nx == [d.next EXCEPT ![c[p]] = nh]
             len == d.length + (E[h] - p + 1)
  <2>8. DropFirst(l) = [l EXCEPT !.data1 = f1, !.data2 = f2, !.next = nx, !.head = c[p],
                                 !.length = len, !.lastInsertPos = d.lastInsertPos]
    <3>1. l.data2[l.head] # Nil
      BY <1>4, <1>5, <1>16
    <3>2. /\ l.data1 \in [SndSlots -> SeqNos \cup {Nil}]
          /\ l.data2 \in [SndSlots -> SeqNos \cup {Nil}]
          /\ l.next \in [SndSlots -> SndSlots \cup {Nil}]
      BY <1>3, SndFields
    <3>3. /\ f1 = [[l.data1 EXCEPT ![c[p]] = w[p]] EXCEPT ![c[h]] = Nil]
          /\ f2 = [[l.data2 EXCEPT ![c[p]] = LastData(w, p, E[h])] EXCEPT ![c[h]] = Nil]
          /\ nx = [[l.next EXCEPT ![c[p]] = nh] EXCEPT ![c[h]] = Nil]
      BY <1>5, <1>13, <2>5, <3>2
    <3>4. len = l.length - 1
      BY <1>3, <1>5, <1>13, <2>1, <2>2
    <3> HIDE DEF f1, f2, nx, len
    <3>5. PICK r : r = [l EXCEPT !.data1[c[p]] = w[p], !.data2[c[p]] = LastData(w, p, E[h]),
                                 !.next[c[p]] = nh, !.head = c[p]]
      OBVIOUS
    <3>6. DropFirst(l) =
            [r EXCEPT !.data1[c[h]] = Nil, !.data2[c[h]] = Nil, !.next[c[h]] = Nil,
                      !.length = @ - 1, !.lastInsertPos = IF @ = c[h] THEN Nil ELSE @]
      <4>1. (l.head + 1) % SndListSize = c[p] /\ IncSeq(l.data1[l.head]) = w[p]
        BY <1>4, <2>3
      <4>2. r = [l EXCEPT !.data1[(l.head + 1) % SndListSize] = IncSeq(l.data1[l.head]),
                          !.data2[(l.head + 1) % SndListSize] =
                              IF SeqCmp(l.data2[l.head], IncSeq(l.data1[l.head])) > 0
                                THEN l.data2[l.head] ELSE @,
                          !.next[(l.head + 1) % SndListSize] = l.next[l.head],
                          !.head = (l.head + 1) % SndListSize]
        BY <1>4, <1>9, <2>6, <3>5, <4>1
      <4> QED
        BY <1>4, <3>1, <4>2 DEF DropFirst
    <3>7. /\ r.data1 = [l.data1 EXCEPT ![c[p]] = w[p]]
          /\ r.data2 = [l.data2 EXCEPT ![c[p]] = LastData(w, p, E[h])]
          /\ r.next = [l.next EXCEPT ![c[p]] = nh] /\ r.head = c[p]
          /\ r.length = l.length /\ r.lastInsertPos = l.lastInsertPos
          /\ r = [l EXCEPT !.data1 = r.data1, !.data2 = r.data2, !.next = r.next,
                           !.head = r.head]
      BY <1>3, <3>5 DEF SndLists
    <3>8. r \in SndLists
      <4>1. /\ r.data1 \in [SndSlots -> SeqNos \cup {Nil}]
            /\ r.data2 \in [SndSlots -> SeqNos \cup {Nil}]
            /\ r.next \in [SndSlots -> SndSlots \cup {Nil}]
        BY <1>14, <2>5, <2>7, <3>2, <3>7
      <4> QED
        BY <1>3, <2>5, <3>7, <4>1 DEF SndLists
    <3>9. PICK m : m = DropFirst(l)
      OBVIOUS
    <3>10. /\ m.data1 = f1 /\ m.data2 = f2 /\ m.next = nx /\ m.length = len
           /\ m.lastInsertPos = d.lastInsertPos /\ m.head = c[p]
           /\ m = [r EXCEPT !.data1 = m.data1, !.data2 = m.data2, !.next = m.next,
                            !.length = m.length, !.lastInsertPos = m.lastInsertPos]
      <4>1. /\ m.data1 = [r.data1 EXCEPT ![c[h]] = Nil] /\ m.data2 = [r.data2 EXCEPT ![c[h]] = Nil]
            /\ m.next = [r.next EXCEPT ![c[h]] = Nil] /\ m.length = r.length - 1
            /\ m.lastInsertPos = (IF r.lastInsertPos = c[h] THEN Nil ELSE r.lastInsertPos)
            /\ m.head = r.head
        BY <3>6, <3>8, <3>9 DEF SndLists
      <4>2. m = [r EXCEPT !.data1 = m.data1, !.data2 = m.data2, !.next = m.next,
                          !.length = m.length, !.lastInsertPos = m.lastInsertPos]
        BY <3>6, <3>8, <3>9, <4>1 DEF SndLists
      <4>3. m.data1 = f1 /\ m.data2 = f2 /\ m.next = nx /\ m.head = c[p]
        BY <3>3, <3>7, <4>1
      <4>4. m.length = len /\ m.lastInsertPos = d.lastInsertPos
        BY <1>13, <3>4, <3>7, <4>1
      <4> QED
        BY <4>2, <4>3, <4>4
    <3> QED
      BY <1>3, <3>7, <3>8, <3>9, <3>10, ZenonT(60) DEF SndLists
  <2>9. /\ f1 \in [SndSlots -> SeqNos \cup {Nil}] /\ f2 \in [SndSlots -> SeqNos \cup {Nil}]
        /\ nx \in [SndSlots -> SndSlots \cup {Nil}] /\ len \in Int
        /\ d.lastInsertPos \in SndSlots \cup {Nil}
    BY <1>5, <1>13, <1>14, <2>2, <2>5, <2>7, SndFields
  <2>10. PICK m : m = DropFirst(l)
    OBVIOUS
  <2> HIDE DEF f1, f2, nx, len
  <2>11. /\ m \in SndLists /\ m.data1 = f1 /\ m.data2 = f2 /\ m.next = nx
         /\ m.length = len /\ m.lastInsertPos = d.lastInsertPos /\ m.head = c[p]
    BY <1>3, <2>5, <2>8, <2>9, <2>10 DEF SndLists
  <2>12. IsPrefixed(d, m, nh, w, c, p, E[h])
    BY <2>11 DEF IsPrefixed, f1, f2, nx, len
  <2>13. \A b \in D : E[h] < b
    BY <1>3, <1>4, <1>6, <1>9 DEF Apart, IsFirst
  <2>14. Prefixed(m, w, c, D, E, p, E[h], lo, hi)
    BY <1>1, <1>5, <1>11, <2>2, <2>12, <2>13, FirstPut
  <2>15. PICK F : /\ Chained(m, c[p], w, c, D \cup {p}, F, lo, hi)
                  /\ Covered(D \cup {p}, F) = Covered(D, E) \cup (p .. E[h])
    BY <2>14 DEF Prefixed
  <2>16. SndRep(m, w, c, D \cup {p}, F, lo, hi)
    BY <2>11, <2>15 DEF Chained, SndRep
  <2>17. Covered(D, E) \cup (p .. E[h]) = S \ {h}
    BY <1>5, <1>12, <2>1, <2>2
  <2> QED
    BY <1>1, <1>7, <1>8, <2>10, <2>15, <2>16, <2>17 DEF SndTakes, SndHolds
<1> QED
  BY <1>5, <1>15, <1>16

LEMMA DropNodeType ==
    ASSUME NEW l \in SndLists, NEW h \in SndSlots
    PROVE  DropNode(l, h) \in SndLists
<1>1. \A x \in SeqNos \cup {Nil} : x \in Int
  BY SeqNoAssumption DEF SeqNos, Nil
<1>2. /\ l.data1 \in [SndSlots -> SeqNos \cup {Nil}]
      /\ l.data2 \in [SndSlots -> SeqNos \cup {Nil}]
      /\ l.next \in [SndSlots -> SndSlots \cup {Nil}]
      /\ l.lastInsertPos \in SndSlots \cup {Nil} /\ l.length \in Int
  BY SndFields
<1>3. SeqLen(l.data1[h], LastOf(l, h)) \in Int
  <2>1. l.data1[h] \in Int /\ LastOf(l, h) \in Int /\ MaxSeqNo \in Int
    BY <1>1, <1>2, SeqNoAssumption DEF LastOf
  <2> QED
    BY <2>1 DEF SeqLen
<1> DEFINE f1 == [l.data1 EXCEPT ![h] = Nil]
           f2 == [l.data2 EXCEPT ![h] = Nil]
           nx == [l.next EXCEPT ![h] = Nil]
           len == l.length - SeqLen(l.data1[h], LastOf(l, h))
           pos == IF l.lastInsertPos = h THEN Nil ELSE l.lastInsertPos
<1>4. /\ f1 \in [SndSlots -> SeqNos \cup {Nil}] /\ f2 \in [SndSlots -> SeqNos \cup {Nil}]
      /\ nx \in [SndSlots -> SndSlots \cup {Nil}] /\ len \in Int
      /\ pos \in SndSlots \cup {Nil}
  BY <1>2, <1>3
<1>5. DropNode(l, h) = [l EXCEPT !.length = len, !.data1 = f1, !.data2 = f2,
                                 !.next = nx, !.lastInsertPos = pos]
  BY DEF DropNode, SndLists
<1> HIDE DEF f1, f2, nx, len, pos
<1> QED
  BY <1>4, <1>5 DEF SndLists

\* The nodes from h on are those before the list's head, which are to leave the
\* list and end up to p, and those behind it, which hold T.
Cutting(l, h, w, c, p, T, lo, hi) ==
    \E B, E : /\ Chained(l, h, w, c, B, E, lo, hi)
              /\ HeadIs(l.head, c, {x \in B : x > p})
              /\ \A x \in B : x <= p => E[x] <= p
              /\ \A x : x \in T <=> x \in Covered(B, E) /\ x > p

LEMMA CuttingStep ==
    ASSUME NEW l, NEW h, NEW w, NEW c, NEW p \in Int, NEW T, NEW lo, NEW hi,
           SndWindow(w, c, lo, hi), Cutting(l, h, w, c, p, T, lo, hi),
           h # l.head, h # Nil
    PROVE  /\ Cutting(DropNode(l, h), l.next[h], w, c, p, T, lo, hi)
           /\ Cardinality(Filled(DropNode(l, h))) < Cardinality(Filled(l))
<1>1. PICK B, E : /\ Chained(l, h, w, c, B, E, lo, hi)
                  /\ HeadIs(l.head, c, {x \in B : x > p})
                  /\ \A x \in B : x <= p => E[x] <= p
                  /\ \A x : x \in T <=> x \in Covered(B, E) /\ x > p
  BY DEF Cutting
<1>2. /\ SndBody(l, w, c, B, E, lo, hi) /\ HeadIs(h, c, B) /\ Spans(B, E, lo, hi)
      /\ B \in SUBSET (lo .. hi) /\ lo \in Int /\ hi \in Int /\ Apart(B, E)
  BY <1>1, ChainedFacts
<1>3. PICK b \in B : IsFirst(B, b)
  <2>1. B # {}
    BY <1>2 DEF HeadIs
  <2> QED
    BY <1>2, <2>1, LeastInt
<1>4. h = c[b]
  BY <1>2, <1>3 DEF HeadIs
<1>5. \A x \in B : x \in Int /\ E[x] \in Int /\ x <= E[x]
  BY <1>2 DEF Spans
<1>6. b <= p /\ E[b] <= p
  <2>1. ASSUME b > p PROVE FALSE
    <3>1. b \in {x \in B : x > p} /\ IsFirst({x \in B : x > p}, b)
      BY <1>3, <2>1 DEF IsFirst
    <3>2. l.head = c[b]
      BY <1>1, <3>1 DEF HeadIs
    <3> QED
      BY <1>4, <3>2
  <2> QED
    BY <1>1, <1>3, <1>5, <2>1
<1>7. PICK m, D, nh : m = DropNode(l, c[b]) /\ D = B \ {b} /\ nh = l.next[c[b]]
  OBVIOUS
<1>8. IsDropped(l, m, w, c, E, b) /\ m.head = l.head
  BY <1>1, <1>7, DropNodeFields
<1>9. Chained(m, nh, w, c, D, E, lo, hi) /\ Cardinality(Filled(m)) < Cardinality(Filled(l))
  BY <1>1, <1>3, <1>7, <1>8, FirstDropped
<1>10. HeadIs(m.head, c, {x \in D : x > p})
  <2>1. {x \in D : x > p} = {x \in B : x > p}
    BY <1>5, <1>6, <1>7
  <2> QED
    BY <1>1, <1>8, <2>1
<1>11. \A x : x \in T <=> x \in Covered(D, E) /\ x > p
  <2>1. Covered(B, E) = Covered(B \ {b}, E) \cup (b .. E[b])
    BY <1>2, CoveredNode
  <2>2. \A x \in b .. E[b] : ~(x > p)
    BY <1>5, <1>6
  <2> QED
    BY <1>1, <1>7, <2>1, <2>2
<1>12. Cutting(m, nh, w, c, p, T, lo, hi)
  BY <1>1, <1>7, <1>9, <1>10, <1>11 DEF Cutting
<1> QED
  BY <1>4, <1>7, <1>9, <1>12

LEMMA CuttingEnd ==
    ASSUME NEW l, NEW h, NEW w, NEW c, NEW p \in Int, NEW T, NEW lo, NEW hi,
           SndWindow(w, c, lo, hi), Cutting(l, h, w, c, p, T, lo, hi),
           h \in {l.head, Nil}
    PROVE  SndHolds(l, w, T, lo, hi)
<1>1. PICK B, E : /\ Chained(l, h, w, c, B, E, lo, hi)
                  /\ HeadIs(l.head, c, {x \in B : x > p})
                  /\ \A x \in B : x <= p => E[x] <= p
                  /\ \A x : x \in T <=> x \in Covered(B, E) /\ x > p
  BY DEF Cutting
<1>2. /\ SndBody(l, w, c, B, E, lo, hi) /\ HeadIs(h, c, B) /\ Spans(B, E, lo, hi)
      /\ B \in SUBSET (lo .. hi) /\ lo \in Int /\ hi \in Int /\ Apart(B, E)
      /\ Window(SndListSize, w, c, lo, hi)
      /\ l.length = Cardinality(Covered(B, E))
  BY <1>1, ChainedFacts
<1>3. \A x \in B : x > p
  <2>1. CASE B = {}
    BY <2>1
  <2>2. CASE B # {}
    <3>1. PICK b \in B : IsFirst(B, b)
      BY <1>2, <2>2, LeastInt
    <3>2. \A x \in B : c[x] # Nil
      BY <1>2, WindowFacts
    <3>3. h = c[b] /\ h = l.head
      BY <1>2, <3>1, <3>2 DEF HeadIs
    <3>4. PICK A : A = {x \in B : x > p}
      OBVIOUS
    <3>5. A # {} /\ A \in SUBSET (lo .. hi)
      BY <1>1, <1>2, <3>1, <3>2, <3>3, <3>4 DEF HeadIs
    <3>6. PICK a \in A : IsFirst(A, a)
      BY <1>2, <3>5, LeastInt
    <3>7. c[a] = c[b]
      BY <1>1, <3>3, <3>4, <3>6 DEF HeadIs
    <3>8. a \in lo .. hi /\ b \in lo .. hi
      BY <1>2, <3>1, <3>4, <3>6
    <3>9. a = b
      BY <1>2, <3>7, <3>8, WindowFacts
    <3> QED
      BY <1>2, <3>1, <3>4, <3>6, <3>9 DEF IsFirst
  <2> QED
    BY <2>1, <2>2
<1>4. HeadIs(l.head, c, B)
  <2>1. {x \in B : x > p} = B
    BY <1>3
  <2> QED
    BY <1>1, <2>1
<1>5. Covered(B, E) = T
  <2>1. \A x \in Covered(B, E) : x > p
    BY <1>2, <1>3 DEF Covered, Spans
  <2> QED
    BY <1>1, <2>1
<1>6. SndRep(l, w, c, B, E, lo, hi)
  BY <1>2, <1>4 DEF SndRep
<1> QED
  BY <1>5, <1>6 DEF SndHolds

LEMMA DropBeforeHeadHolds ==
    ASSUME NEW l, NEW h, NEW w, NEW c, NEW p \in Int, NEW T, NEW lo, NEW hi,
           SndWindow(w, c, lo, hi), Cutting(l, h, w, c, p, T, lo, hi),
           h \in SndSlots \cup {Nil}
    PROVE  SndHolds(DropBeforeHead(l, h), w, T, lo, hi)
<1> DEFINE X == [list : SndLists, h : SndSlots \cup {Nil}]
           Stop == {k \in X : k.h \in {k.list.head, Nil}}
           Step == [k \in X |-> [list |-> DropNode(k.list, k.h), h |-> k.list.next[k.h]]]
           I == {k \in X : Cutting(k.list, k.h, w, c, p, T, lo, hi)}
           V == [k \in I |-> Cardinality(Filled(k.list))]
           start == [list |-> l, h |-> h]
<1>1. l \in SndLists
  BY ChainedFacts DEF Cutting
<1>2. start \in I
  BY <1>1
<1>3. \A k \in X : k \notin Stop => /\ k.h \in SndSlots /\ k.h # k.list.head /\ k.h # Nil
                                    /\ k.list \in SndLists /\ Step[k] \in X
  <2> SUFFICES ASSUME NEW k \in X, k \notin Stop
               PROVE  /\ k.h \in SndSlots /\ k.h # k.list.head /\ k.h # Nil
                      /\ k.list \in SndLists /\ Step[k] \in X
    OBVIOUS
  <2>1. k.h \in SndSlots /\ k.h # k.list.head /\ k.h # Nil /\ k.list \in SndLists
    OBVIOUS
  <2>2. DropNode(k.list, k.h) \in SndLists /\ k.list.next[k.h] \in SndSlots \cup {Nil}
    BY <2>1, DropNodeType, SndFields
  <2> QED
    BY <2>1, <2>2
<1>4. PICK g : IsLoop(g, X, Stop, Step)
  <2>1. StaysIn(X, Stop, Step)
    BY <1>3 DEF StaysIn
  <2> HIDE DEF X, Stop, Step
  <2> QED
    BY <2>1, LoopExists
<1>5. g = [k \in X |->
             IF k.h \in {k.list.head, Nil} THEN k
             ELSE g[[list |-> DropNode(k.list, k.h), h |-> k.list.next[k.h]]]]
  BY <1>4 DEF IsLoop
<1>6. PICK r : /\ r = [k \in X |->
                         IF k.h \in {k.list.head, Nil} THEN k
                         ELSE r[[list |-> DropNode(k.list, k.h), h |-> k.list.next[k.h]]]]
               /\ DropBeforeHead(l, h) = r[start].list
  BY <1>5 DEF DropBeforeHead
<1>7. IsLoop(r, X, Stop, Step)
  <2>1. \A k \in X : r[k] = IF k \in Stop THEN k ELSE r[Step[k]]
    BY <1>6
  <2>2. r = [k \in X |-> r[k]]
    BY <1>6
  <2> QED
    BY <2>1, <2>2 DEF IsLoop
<1>8. I \in SUBSET X
  OBVIOUS
<1>9. ASSUME NEW k \in I, k \notin Stop PROVE Step[k] \in I /\ V[Step[k]] < V[k]
  <2>1. k \in X /\ Cutting(k.list, k.h, w, c, p, T, lo, hi)
    OBVIOUS
  <2>2. k.h # k.list.head /\ k.h # Nil /\ Step[k] \in X
    BY <1>3, <1>9, <2>1
  <2>3. /\ Cutting(DropNode(k.list, k.h), k.list.next[k.h], w, c, p, T, lo, hi)
        /\ Cardinality(Filled(DropNode(k.list, k.h))) < Cardinality(Filled(k.list))
    BY <2>1, <2>2, CuttingStep
  <2>4. Step[k].list = DropNode(k.list, k.h) /\ Step[k].h = k.list.next[k.h]
    BY <2>1
  <2>5. Step[k] \in I
    BY <2>2, <2>3, <2>4
  <2>6. V[Step[k]] = Cardinality(Filled(DropNode(k.list, k.h)))
        /\ V[k] = Cardinality(Filled(k.list))
    BY <2>4, <2>5
  <2> QED
    BY <2>3, <2>5, <2>6
<1>10. V \in [I -> Nat]
  <2>1. \A k \in I : k.list \in SndLists
    OBVIOUS
  <2> QED
    BY <2>1, FilledFinite
<1>11. r[start] \in I \cap Stop
  <2>1. Decreases(V, I, Stop, Step)
    BY <1>9, <1>10 DEF Decreases
  <2> HIDE DEF X, Stop, Step, I, V, start
  <2>2. \A k \in I : r[k] \in I \cap Stop
    BY <1>7, <1>8, <2>1, LoopEnds
  <2> QED
    BY <1>2, <2>2
<1>12. /\ Cutting(r[start].list, r[start].h, w, c, p, T, lo, hi)
       /\ r[start].h \in {r[start].list.head, Nil}
  BY <1>11
<1> HIDE DEF start
<1>13. SndHolds(r[start].list, w, T, lo, hi)
  BY <1>12, CuttingEnd
<1> QED
  BY <1>6, <1>13

\* What m is after node b of l has been split behind p.
IsSplit(l, m, w, c, E, b, p) ==
    /\ m \in SndLists
    /\ m.data1 = [l.data1 EXCEPT ![c[p + 1]] = w[p + 1]]
    /\ m.data2 = [l.data2 EXCEPT ![c[p + 1]] = LastData(w, p + 1, E[b]),
                                 ![c[b]] = LastData(w, b, p)]
    /\ m.next = [l.next EXCEPT ![c[p + 1]] = l.next[c[b]], ![c[b]] = c[p + 1]]
    /\ m.head = c[p + 1] /\ m.length = l.length /\ m.lastInsertPos = l.lastInsertPos

\* b is the last node up to p.
Up(B, b, p) == b <= p /\ \A x \in B : x <= b \/ p < x

LEMMA SplitFields ==
    ASSUME NEW l, NEW h, NEW w, NEW c, NEW B, NEW E, NEW lo, NEW hi,
           SndWindow(w, c, lo, hi), Chained(l, h, w, c, B, E, lo, hi),
           NEW b \in B, NEW p \in lo .. hi, Up(B, b, p), p < E[b],
           SlotOf(l, w[p]) = c[p]
    PROVE  /\ IsSplit(l, HeadAfter(l, c[b], w[p]), w, c, E, b, p)
           /\ p + 1 \in lo .. hi /\ p + 1 \notin B /\ c[p + 1] # c[b]
<1>1. /\ SndBody(l, w, c, B, E, lo, hi) /\ Apart(B, E) /\ l \in SndLists
      /\ lo \in Int /\ hi \in Int /\ Window(SndListSize, w, c, lo, hi)
      /\ w \in Wires /\ c \in Rings(SndListSize) /\ hi - lo < SndListSize
      /\ SndListSize \in Nat \ {0}
  BY ChainedFacts
<1>2. /\ b \in lo .. hi /\ E[b] \in lo .. hi /\ b \in Int /\ E[b] \in Int
      /\ c[b] \in SndSlots /\ l.data1[c[b]] = w[b]
  BY <1>1, SndNode
<1>3. /\ l.data2[c[b]] = Nil <=> E[b] = b
      /\ l.data2[c[b]] # Nil => l.data2[c[b]] = w[E[b]]
  BY <1>1, SndNode
<1>4. p \in Int /\ b <= p /\ \A x \in B : x <= b \/ p < x
  BY <1>1 DEF Up
<1>5. PICK q : q = p + 1
  OBVIOUS
<1>6. q \in lo .. hi /\ q \in Int /\ q <= E[b] /\ b < q
  BY <1>1, <1>2, <1>4, <1>5
<1>7. (c[p] + 1) % SndListSize = c[q] /\ IncSeq(w[p]) = w[q]
  <2>1. SndListSize > 1 /\ SndListSize \in Nat
    BY <1>1, <1>2, <1>4, <1>6
  <2> QED
    BY <1>1, <1>4, <1>5, <2>1, RingNext, WireStep
<1>8. q \notin B
  BY <1>1, <1>2, <1>6 DEF Apart
<1>9. c[q] \in SndSlots /\ l.data2[c[q]] = Nil /\ c[q] # c[b]
  <2>1. c[q] \in SndSlots /\ l.data2[c[q]] = Nil
    BY <1>1, <1>6, <1>8, SndEmpty
  <2>2. c[q] # c[b]
    BY <1>1, <1>2, <1>6, WindowFacts
  <2> QED
    BY <2>1, <2>2
<1>10. l.data2[c[b]] = w[E[b]] /\ l.data2[c[b]] # Nil
  BY <1>2, <1>3, <1>4
<1>11. ~(l.data2[c[b]] = Nil \/ SeqCmp(l.data2[c[b]], w[p]) <= 0)
  <2>1. SeqCmp(w[E[b]], w[p]) <= 0 <=> E[b] <= p
    BY <1>1, <1>2, WindowFacts
  <2> QED
    BY <1>2, <1>4, <1>10, <2>1
<1>12. (IF SeqCmp(l.data2[c[b]], w[q]) > 0 THEN l.data2[c[b]] ELSE l.data2[c[q]])
         = LastData(w, q, E[b])
  <2>1. SeqCmp(w[E[b]], w[q]) > 0 <=> E[b] > q
    BY <1>1, <1>2, <1>6, WindowFacts
  <2> QED
    BY <1>2, <1>6, <1>9, <1>10, <2>1 DEF LastData
<1>13. (IF w[p] = l.data1[c[b]] THEN Nil ELSE w[p]) = LastData(w, b, p)
  <2>1. w[p] = w[b] <=> p = b
    BY <1>1, <1>2, WindowFacts
  <2> QED
    BY <1>2, <2>1 DEF LastData
<1>14. /\ w[q] \in SeqNos \cup {Nil} /\ LastData(w, q, E[b]) \in SeqNos \cup {Nil}
       /\ LastData(w, b, p) \in SeqNos \cup {Nil}
  <2>1. \A x \in lo .. hi : w[x] \in SeqNos
    BY <1>1, WindowFacts
  <2> QED
    BY <1>2, <1>6, <2>1 DEF LastData
<1> DEFINE f1 == [l.data1 EXCEPT ![c[q]] = w[q]]
           f2 == [l.data2 EXCEPT ![c[q]] = LastData(w, q, E[b]), ![c[b]] = LastData(w, b, p)]
           nx == [l.next EXCEPT ![c[q]] = l.next[c[b]], ![c[b]] = c[q]]
<1>15. /\ f1 \in [SndSlots -> SeqNos \cup {Nil}] /\ f2 \in [SndSlots -> SeqNos \cup {Nil}]
       /\ nx \in [SndSlots -> SndSlots \cup {Nil}]
  <2>1. /\ l.data1 \in [SndSlots -> SeqNos \cup {Nil}]
        /\ l.data2 \in [SndSlots -> SeqNos \cup {Nil}]
        /\ l.next \in [SndSlots -> SndSlots \cup {Nil}]
    BY <1>1, SndFields
  <2> QED
    BY <1>2, <1>9, <1>14, <2>1
<1>16. PICK m : m = HeadAfter(l, c[b], w[p])
  OBVIOUS
<1>17. m = [l EXCEPT !.data1 = f1, !.data2 = f2, !.next = nx, !.head = c[q]]
  <2>1. m = [l EXCEPT !.data1[c[q]] = w[q],
                      !.data2[c[q]] = IF SeqCmp(l.data2[c[b]], w[q]) > 0
                                        THEN l.data2[c[b]] ELSE @,
                      !.data2[c[b]] = IF w[p] = l.data1[c[b]] THEN Nil ELSE w[p],
                      !.next[c[q]] = l.next[c[b]], !.next[c[b]] = c[q],
                      !.head = c[q]]
    BY <1>7, <1>11, <1>16 DEF HeadAfter
  <2> QED
    BY <1>1, <1>12, <1>13, <2>1, ZenonT(60) DEF SndLists
<1> HIDE DEF f1, f2, nx
<1>18. /\ m \in SndLists /\ m.data1 = f1 /\ m.data2 = f2 /\ m.next = nx /\ m.head = c[q]
       /\ m.length = l.length /\ m.lastInsertPos = l.lastInsertPos
  BY <1>1, <1>9, <1>15, <1>17 DEF SndLists
<1>19. IsSplit(l, m, w, c, E, b, p)
  BY <1>5, <1>18 DEF IsSplit, f1, f2, nx
<1> QED
  BY <1>5, <1>6, <1>8, <1>9, <1>16, <1>19

\* The ranges after the split.
IsCut(B, E, F, b, p, q) ==
    /\ F \in [Int -> Int] /\ F[b] = p /\ F[q] = E[b]
    /\ \A x \in B : x # b => F[x] = E[x]

LEMMA SplitCovers ==
    ASSUME NEW lo \in Int, NEW hi \in Int, NEW B, NEW E, Spans(B, E, lo, hi), Apart(B, E),
           NEW b \in B, NEW p \in lo .. hi, b <= p, p < E[b],
           NEW q, q = p + 1, NEW F, IsCut(B, E, F, b, p, q)
    PROVE  /\ \A x : x \in Covered(B \cup {q}, F) <=> x \in Covered(B, E)
           /\ Spans(B \cup {q}, F, lo, hi) /\ Apart(B \cup {q}, F)
<1>1. /\ B \in SUBSET (lo .. hi) /\ E \in [Int -> Int]
      /\ \A x \in B : x \in Int /\ x <= E[x] /\ E[x] <= hi /\ E[x] \in Int
  BY DEF Spans
<1>9. /\ F \in [Int -> Int] /\ F[b] = p /\ F[q] = E[b]
      /\ \A x \in B : x # b => F[x] = E[x]
  BY DEF IsCut
<1>2. p \in Int /\ q \in Int /\ q \in lo .. hi /\ b \in Int
  BY <1>9, <1>1
<1>3. \A x, y \in B : x < y => E[x] < y
  BY DEF Apart
<1>4. q \notin B
  BY <1>9, <1>1, <1>2, <1>3
<1>5. Spans(B \cup {q}, F, lo, hi)
  BY <1>9, <1>1, <1>2, <1>4 DEF Spans
<1>6. Apart(B \cup {q}, F)
  <2>1. \A x, y \in B : x < y => F[x] < y
    BY <1>9, <1>1, <1>2, <1>3
  <2>2. \A x \in B : x < q => F[x] < q
    BY <1>9, <1>1, <1>2, <1>3
  <2>3. \A x \in B : q < x => F[q] < x
    BY <1>9, <1>1, <1>2, <1>3
  <2> QED
    BY <1>9, <1>2, <2>1, <2>2, <2>3 DEF Apart
<1>7. ASSUME NEW x \in Covered(B \cup {q}, F) PROVE x \in Covered(B, E)
  <2>1. PICK y \in B \cup {q} : x \in Int /\ y <= x /\ x <= F[y]
    BY DEF Covered
  <2>2. CASE y = q
    <3>1. b <= x /\ x <= E[b]
      BY <1>9, <1>1, <1>2, <2>1, <2>2
    <3> QED
      BY <1>9, <2>1, <3>1 DEF Covered
  <2>3. CASE y \in B /\ y # b
    BY <1>9, <2>1, <2>3 DEF Covered
  <2>4. CASE y = b
    <3>1. x <= E[b]
      BY <1>9, <1>1, <1>2, <2>1, <2>4
    <3> QED
      BY <1>9, <2>1, <2>4, <3>1 DEF Covered
  <2> QED
    BY <1>9, <2>1, <2>2, <2>3, <2>4
<1>8. ASSUME NEW x \in Covered(B, E) PROVE x \in Covered(B \cup {q}, F)
  <2>1. PICK y \in B : x \in Int /\ y <= x /\ x <= E[y]
    BY DEF Covered
  <2>2. CASE y # b
    BY <1>9, <2>1, <2>2 DEF Covered
  <2>3. CASE y = b /\ x <= p
    BY <1>9, <2>1, <2>3 DEF Covered
  <2>4. CASE y = b /\ q <= x
    BY <1>9, <2>1, <2>4 DEF Covered
  <2> QED
    BY <1>9, <1>2, <2>1, <2>2, <2>3, <2>4
<1> QED
  BY <1>5, <1>6, <1>7, <1>8

LEMMA SplitHolds ==
    ASSUME NEW l, NEW h, NEW w, NEW c, NEW B, NEW E, NEW lo, NEW hi,
           SndWindow(w, c, lo, hi), Chained(l, h, w, c, B, E, lo, hi),
           NEW b \in B, NEW p \in lo .. hi, Up(B, b, p), p < E[b],
           NEW m, IsSplit(l, m, w, c, E, b, p), NEW T,
           \A x : x \in T <=> x \in Covered(B, E) /\ x > p,
           p + 1 \in lo .. hi, p + 1 \notin B, c[p + 1] # c[b]
    PROVE  Cutting(m, h, w, c, p, T, lo, hi)
<1>1. /\ SndBody(l, w, c, B, E, lo, hi) /\ Apart(B, E) /\ l \in SndLists
      /\ HeadIs(h, c, B) /\ Spans(B, E, lo, hi) /\ l.length = Cardinality(Covered(B, E))
      /\ Stored(l.data1, l.data2, SndListSize, w, c, B, E)
      /\ Linked(l.next, SndListSize, c, B)
      /\ B \in SUBSET (lo .. hi) /\ E \in [Int -> Int]
      /\ lo \in Int /\ hi \in Int /\ Window(SndListSize, w, c, lo, hi)
      /\ l.lastInsertPos = Nil \/ \E x \in B : l.lastInsertPos = c[x]
  BY ChainedFacts
<1>2. /\ b \in lo .. hi /\ E[b] \in lo .. hi /\ b \in Int /\ E[b] \in Int
      /\ c[b] \in SndSlots /\ l.data1[c[b]] = w[b]
  BY <1>1, SndNode
<1>3. p \in Int /\ b <= p /\ \A x \in B : x <= b \/ p < x
  BY <1>1 DEF Up
<1>4. PICK q : q = p + 1
  OBVIOUS
<1>5. q \in lo .. hi /\ q \in Int /\ q <= E[b] /\ b < q /\ q \notin B /\ c[q] # c[b]
  BY <1>1, <1>2, <1>3, <1>4
<1>6. /\ m \in SndLists
      /\ m.data1 = [l.data1 EXCEPT ![c[q]] = w[q]]
      /\ m.data2 = [l.data2 EXCEPT ![c[q]] = LastData(w, q, E[b]),
                                   ![c[b]] = LastData(w, b, p)]
      /\ m.next = [l.next EXCEPT ![c[q]] = l.next[c[b]], ![c[b]] = c[q]]
      /\ m.head = c[q] /\ m.length = l.length /\ m.lastInsertPos = l.lastInsertPos
  BY <1>4 DEF IsSplit
<1> DEFINE G == [E EXCEPT ![b] = p]
           F == [G EXCEPT ![q] = E[b]]
           C == B \cup {q}
<1>7. G \in [Int -> Int] /\ G[b] = p /\ \A x \in B : x # b => G[x] = E[x]
  BY <1>1, <1>2, <1>3
<1> HIDE DEF G
<1>8. F \in [Int -> Int] /\ F[q] = E[b] /\ \A x \in B : x # q => F[x] = G[x]
  BY <1>2, <1>5, <1>7
<1> HIDE DEF F
<1>9. F[b] = p /\ \A x \in B : x # b => F[x] = E[x]
  BY <1>5, <1>7, <1>8
<1>10. Covered(C, F) = Covered(B, E) /\ Spans(C, F, lo, hi) /\ Apart(C, F)
  <2>1. /\ \A x : x \in Covered(B \cup {q}, F) <=> x \in Covered(B, E)
        /\ Spans(B \cup {q}, F, lo, hi) /\ Apart(B \cup {q}, F)
    <3>1. IsCut(B, E, F, b, p, q)
      BY <1>8, <1>9 DEF IsCut
    <3>2. /\ lo \in Int /\ hi \in Int /\ Spans(B, E, lo, hi) /\ Apart(B, E)
          /\ b <= p /\ p < E[b] /\ q = p + 1
      BY <1>1, <1>3, <1>4
    <3> QED
      BY <3>1, <3>2, SplitCovers
  <2> QED
    BY <2>1
<1>11. Stored(m.data1, m.data2, SndListSize, w, c, C, F)
  <2>1. PICK d1, d2, g1, g2, f1, f2 :
           /\ d1 = l.data1 /\ d2 = l.data2 /\ f1 = m.data1 /\ f2 = m.data2
           /\ g1 = [d1 EXCEPT ![c[b]] = w[b]] /\ g2 = [d2 EXCEPT ![c[b]] = LastData(w, b, p)]
    OBVIOUS
  <2>2. Stored(d1, d2, SndListSize, w, c, B, E)
    BY <1>1, <2>1
  <2>3. Stored(g1, g2, SndListSize, w, c, B \cup {b}, G)
    BY <1>1, <1>2, <1>7, <2>1, <2>2, StoredPut
  <2>4. Stored(g1, g2, SndListSize, w, c, B, G)
    <3>1. B \cup {b} = B
      OBVIOUS
    <3> QED
      BY <2>3, <3>1
  <2>5. d1 \in [SndSlots -> SeqNos \cup {Nil}] /\ d2 \in [SndSlots -> SeqNos \cup {Nil}]
    BY <1>1, <2>1, SndFields
  <2>6. g1 = d1
    BY <1>2, <2>1, <2>5
  <2>7. f1 = [g1 EXCEPT ![c[q]] = w[q]] /\ f2 = [g2 EXCEPT ![c[q]] = LastData(w, q, E[b])]
    BY <1>2, <1>5, <1>6, <2>1, <2>5, <2>6
  <2>8. Stored(f1, f2, SndListSize, w, c, B \cup {q}, F)
    BY <1>1, <1>2, <1>5, <1>7, <1>8, <2>4, <2>7, StoredPut
  <2> QED
    BY <2>1, <2>8
<1>12. Linked(m.next, SndListSize, c, C)
  <2>1. PICK f, nx : f = m.next /\ nx = l.next
    OBVIOUS
  <2>2. f = [nx EXCEPT ![c[q]] = nx[c[b]], ![c[b]] = c[q]] /\ Linked(nx, SndListSize, c, B)
    BY <1>1, <1>6, <2>1
  <2>3. \A x \in B : x <= b \/ q < x
    BY <1>1, <1>3, <1>4, <1>5
  <2>4. Linked(f, SndListSize, c, B \cup {q})
    BY <1>1, <1>5, <2>2, <2>3, LinkAfter
  <2> QED
    BY <2>1, <2>4
<1>13. HeadIs(h, c, C)
  <2>1. \A x \in C : IsFirst(C, x) => x \in B /\ IsFirst(B, x)
    BY <1>2, <1>5 DEF IsFirst
  <2> QED
    BY <1>1, <2>1 DEF HeadIs
<1>14. HeadIs(m.head, c, {x \in C : x > p})
  <2>1. q \in {x \in C : x > p}
    BY <1>3, <1>4
  <2>2. \A y \in {x \in C : x > p} : IsFirst({x \in C : x > p}, y) => y = q
    <3>1. \A x \in C : x \in Int
      BY <1>1, <1>5
    <3> QED
      BY <1>3, <1>4, <2>1, <3>1 DEF IsFirst
  <2> QED
    BY <1>6, <2>1, <2>2 DEF HeadIs
<1>15. \A x \in C : x <= p => F[x] <= p
  <2>1. \A x \in B : x < b => E[x] < b
    BY <1>1 DEF Apart
  <2>2. \A x \in B : x \in Int /\ E[x] \in Int
    BY <1>1
  <2> QED
    BY <1>2, <1>3, <1>4, <1>9, <2>1, <2>2
<1>16. SndBody(m, w, c, C, F, lo, hi)
  BY <1>1, <1>6, <1>10, <1>11, <1>12 DEF SndBody
<1>17. Chained(m, h, w, c, C, F, lo, hi)
  BY <1>1, <1>6, <1>10, <1>13, <1>16 DEF Chained
<1> HIDE DEF C
<1> QED
  BY <1>10, <1>14, <1>15, <1>17 DEF Cutting

LEMMA HeadAfterCuts ==
    ASSUME NEW l, NEW h, NEW w, NEW c, NEW B, NEW E, NEW lo, NEW hi,
           SndWindow(w, c, lo, hi), Chained(l, h, w, c, B, E, lo, hi),
           NEW b \in B, NEW p \in lo .. hi, Up(B, b, p), SlotOf(l, w[p]) = c[p],
           NEW T, \A x : x \in T <=> x \in Covered(B, E) /\ x > p
    PROVE  Cutting(HeadAfter(l, c[b], w[p]), h, w, c, p, T, lo, hi)
<1>1. /\ SndBody(l, w, c, B, E, lo, hi) /\ Apart(B, E) /\ l \in SndLists
      /\ HeadIs(h, c, B) /\ Spans(B, E, lo, hi) /\ l.length = Cardinality(Covered(B, E))
      /\ Stored(l.data1, l.data2, SndListSize, w, c, B, E)
      /\ Linked(l.next, SndListSize, c, B)
      /\ B \in SUBSET (lo .. hi) /\ E \in [Int -> Int]
      /\ lo \in Int /\ hi \in Int /\ Window(SndListSize, w, c, lo, hi)
      /\ l.lastInsertPos = Nil \/ \E x \in B : l.lastInsertPos = c[x]
  BY ChainedFacts
<1>2. /\ b \in lo .. hi /\ E[b] \in lo .. hi /\ b \in Int /\ E[b] \in Int /\ c[b] \in SndSlots
      /\ b <= E[b]
  BY <1>1, SndNode
<1>3. /\ l.data2[c[b]] = Nil <=> E[b] = b
      /\ l.data2[c[b]] # Nil => l.data2[c[b]] = w[E[b]]
  BY <1>1, SndNode
<1>4. p \in Int /\ b <= p /\ \A x \in B : x <= b \/ p < x
  BY <1>1 DEF Up
<1>5. CASE p < E[b]
  BY <1>5, SplitFields, SplitHolds
<1>6. CASE E[b] <= p
  <2>1. HeadAfter(l, c[b], w[p]) = [l EXCEPT !.head = l.next[c[b]]]
    <3>1. SeqCmp(w[E[b]], w[p]) <= 0 <=> E[b] <= p
      BY <1>1, <1>2, WindowFacts
    <3> QED
      BY <1>3, <1>6, <3>1 DEF HeadAfter
  <2>2. PICK m, nh : m = [l EXCEPT !.head = nh] /\ nh = l.next[c[b]]
    OBVIOUS
  <2>3. /\ m \in SndLists /\ m.data1 = l.data1 /\ m.data2 = l.data2 /\ m.next = l.next
        /\ m.head = nh /\ m.length = l.length /\ m.lastInsertPos = l.lastInsertPos
    <3>1. nh \in SndSlots \cup {Nil}
      BY <1>1, <1>2, <2>2, SndFields
    <3> QED
      BY <1>1, <2>2, <3>1 DEF SndLists
  <2>4. Chained(m, h, w, c, B, E, lo, hi)
    BY <1>1, <2>3 DEF Chained, SndBody
  <2>5. HeadIs(nh, c, {x \in B : x > p})
    <3>1. PICK A : A = {x \in B : x > p}
      OBVIOUS
    <3>2. A = {} => nh = Nil
      <4>1. \/ IsLast(B, b) /\ l.next[c[b]] = Nil
            \/ \E d \in B : Follows(B, b, d) /\ l.next[c[b]] = c[d] /\ l.next[c[b]] # Nil
        BY <1>1, LinkIs
      <4>2. ASSUME NEW d \in B, Follows(B, b, d) PROVE d \in A
        BY <1>1, <1>4, <3>1, <4>2 DEF Follows
      <4> QED
        BY <2>2, <4>1, <4>2
    <3>3. ASSUME NEW a \in A, IsFirst(A, a) PROVE nh = c[a]
      <4>1. a \in B /\ a > p
        BY <3>1
      <4>2. \A x \in B : x \in Int
        BY <1>1
      <4>3. Follows(B, b, a)
        BY <1>2, <1>4, <3>1, <3>3, <4>1, <4>2 DEF Follows, IsFirst
      <4> QED
        BY <1>1, <2>2, <4>1, <4>3 DEF Linked
    <3> QED
      BY <3>1, <3>2, <3>3 DEF HeadIs
  <2>6. \A x \in B : x <= p => E[x] <= p
    <3>1. \A x \in B : x < b => E[x] < b
      BY <1>1 DEF Apart
    <3>2. \A x \in B : x \in Int /\ E[x] \in Int
      BY <1>1
    <3> QED
      BY <1>2, <1>4, <1>6, <3>1, <3>2
  <2>7. Cutting(m, h, w, c, p, T, lo, hi)
    BY <2>3, <2>4, <2>5, <2>6 DEF Cutting
  <2> QED
    BY <2>1, <2>2, <2>7
<1> QED
  BY <1>2, <1>4, <1>5, <1>6

LEMMA SndRemoveHolds ==
    ASSUME NEW l, NEW w, NEW S, NEW lo, NEW hi, SndHolds(l, w, S, lo, hi),
           NEW p \in lo .. hi, NEW T, \A x : x \in T <=> x \in S /\ x > p
    PROVE  SndHolds(SndRemove(l, w[p]), w, T, lo, hi)
<1>1. PICK c, B, E : /\ SndWindow(w, c, lo, hi) /\ SndRep(l, w, c, B, E, lo, hi)
                     /\ Covered(B, E) = S
  BY DEF SndHolds
<1>2. /\ Chained(l, l.head, w, c, B, E, lo, hi)
      /\ l.length = 0 <=> B = {}
  BY <1>1, SndRepFacts DEF Chained
<1>3. /\ SndBody(l, w, c, B, E, lo, hi) /\ Apart(B, E) /\ Spans(B, E, lo, hi) /\ l \in SndLists
      /\ B \in SUBSET (lo .. hi) /\ lo \in Int /\ hi \in Int
      /\ Window(SndListSize, w, c, lo, hi)
  BY <1>1, <1>2, ChainedFacts
<1>4. \A x \in B : x \in Int /\ x <= E[x] /\ E[x] \in Int
  BY <1>3 DEF Spans
<1>5. p \in Int
  BY <1>3
<1>6. CASE B = {}
  <2>1. S = T
    BY <1>1, <1>6 DEF Covered
  <2> QED
    BY <1>2, <1>6, <2>1 DEF SndRemove
<1>7. CASE B # {}
  <2>1. PICK h \in B : /\ IsFirst(B, h) /\ l.head = c[h] /\ l.data1[l.head] = w[h]
                       /\ SeqOff(l.data1[l.head], w[p]) = p - h /\ SlotOf(l, w[p]) = c[p]
    BY <1>1, <1>7, SndHead
  <2>2. h \in lo .. hi /\ h \in Int /\ c[h] \in SndSlots
    BY <1>1, <1>3, SndNode
  <2>3. h \in S /\ \A x \in S : x \in Int /\ h <= x
    BY <1>1, <1>4, <2>1 DEF Covered, IsFirst
  <2>4. l.length # 0
    BY <1>2, <1>7
  <2>5. w[p] = w[h] <=> p = h
    BY <1>3, <2>2, WindowFacts
  <2>6. CASE p < h
    <3>1. S = T
      <4>1. \A x \in S : x > p
        BY <1>5, <2>2, <2>3, <2>6
      <4>2. \A x : x \in S <=> x \in T
        BY <4>1
      <4> QED
        BY <4>2
    <3>2. p - h < 0
      BY <1>5, <2>2, <2>6
    <3> QED
      BY <2>1, <3>1, <3>2 DEF SndRemove
  <2>7. CASE p = h
    <3>1. SndRemove(l, w[p]) = DropFirst(l)
      BY <1>5, <2>1, <2>2, <2>4, <2>7 DEF SndRemove
    <3>2. SndTakes(l, DropFirst(l), w, S, lo, hi)
      BY <2>4, DropFirstHolds
    <3>3. PICK x \in S : /\ \A y \in S : x <= y
                         /\ SndHolds(DropFirst(l), w, S \ {x}, lo, hi)
      BY <3>2 DEF SndTakes
    <3>4. x = h
      BY <2>3, <3>3
    <3>5. S \ {x} = T
      <4>1. \A y \in S : y > p <=> y # x
        BY <1>5, <2>2, <2>3, <2>7, <3>4
      <4>2. \A y : y \in S \ {x} <=> y \in T
        BY <4>1
      <4> QED
        BY <4>2
    <3> QED
      BY <3>1, <3>3, <3>5
  <2>8. CASE h < p
    <3>1. ~(l.length = 0 \/ SeqOff(l.data1[l.head], w[p]) < 0) /\ w[p] # l.data1[l.head]
      BY <1>5, <2>1, <2>2, <2>4, <2>5, <2>8
    <3>2. w[p] = l.data1[c[p]] <=> p \in B
      <4>1. p \in B => l.data1[c[p]] = w[p]
        BY <1>1, <1>3, SndNode
      <4>2. p \notin B => l.data1[c[p]] = Nil
        BY <1>1, <1>3, SndEmpty
      <4>3. w[p] # Nil
        BY <1>3, WindowFacts
      <4> QED
        BY <4>1, <4>2, <4>3
    <3>3. PICK i : i = IF w[p] = l.data1[c[p]] THEN c[p] ELSE PriorNode(l, l.head, w[p])
      OBVIOUS
    <3>4. SndRemove(l, w[p]) = DropBeforeHead(HeadAfter(l, i, w[p]), l.head)
      BY <2>1, <3>1, <3>3 DEF SndRemove
    <3>5. \E b \in B : Up(B, b, p) /\ i = c[b]
      <4>1. CASE p \in B
        BY <1>3, <1>5, <3>2, <3>3, <4>1 DEF Up
      <4>2. CASE p \notin B
        <5>1. PriorFound(l, w, c, B, h, p)
          BY <1>1, <1>3, <2>8, PriorNodeIs
        <5>2. PICK b \in B : /\ b < p /\ \A x \in B : x <= b \/ p <= x
                             /\ PriorNode(l, c[h], w[p]) = c[b]
          BY <5>1 DEF PriorFound
        <5> QED
          BY <1>4, <1>5, <2>1, <3>2, <3>3, <4>2, <5>2 DEF Up
      <4> QED
        BY <4>1, <4>2
    <3>6. PICK b \in B : Up(B, b, p) /\ i = c[b]
      BY <3>5
    <3>7. Cutting(HeadAfter(l, i, w[p]), l.head, w, c, p, T, lo, hi)
      BY <1>1, <1>2, <2>1, <3>6, HeadAfterCuts
    <3>8. l.head \in SndSlots \cup {Nil}
      BY <1>3, SndFields
    <3>9. SndHolds(DropBeforeHead(HeadAfter(l, i, w[p]), l.head), w, T, lo, hi)
      BY <1>1, <1>5, <3>7, <3>8, DropBeforeHeadHolds
    <3> QED
      BY <3>4, <3>9
  <2> QED
    BY <1>5, <2>2, <2>6, <2>7, <2>8
<1> QED
  BY <1>6, <1>7

-----------------------------------------------------------------------------
(* The walk along a list.                                                  *)

WalkStates(n, r) ==
    [at : (0 .. n - 1) \cup {Nil}, seen : SUBSET {r[i] : i \in 0 .. n - 1}]

\* g walks along the links nx and collects what r has.
IsWalk(g, n, nx, r) ==
    g = [k \in WalkStates(n, r) |->
           IF k.at = Nil THEN k ELSE g[[at |-> nx[k.at], seen |-> k.seen \cup {r[k.at]}]]]

\* What it has seen of the nodes before position p.
Seen(r, c, B, p) == {r[c[b]] : b \in {x \in B : x < p}}
SeenAll(r, c, B) == {r[c[b]] : b \in B}
Walked(g, h) == g[[at |-> h, seen |-> {}]].seen

LEMMA WalkExists ==
    ASSUME NEW n, NEW r, NEW nx, nx \in [0 .. n - 1 -> (0 .. n - 1) \cup {Nil}]
    PROVE  \E g : IsWalk(g, n, nx, r)
<1> DEFINE X == WalkStates(n, r)
           Stop == {k \in X : k.at = Nil}
           Step == [k \in X |-> [at |-> nx[k.at], seen |-> k.seen \cup {r[k.at]}]]
<1>1. \A k \in X : k \notin Stop => Step[k] \in X
  BY DEF WalkStates
<1>2. PICK g : IsLoop(g, X, Stop, Step)
  <2>1. StaysIn(X, Stop, Step)
    BY <1>1 DEF StaysIn
  <2> HIDE DEF X, Stop, Step
  <2> QED
    BY <2>1, LoopExists
<1>3. g = [k \in X |-> g[k]] /\ \A k \in X : g[k] = IF k \in Stop THEN k ELSE g[Step[k]]
  BY <1>2 DEF IsLoop
<1>4. \A k \in X : g[k] = IF k.at = Nil THEN k
                          ELSE g[[at |-> nx[k.at], seen |-> k.seen \cup {r[k.at]}]]
  BY <1>3
<1> QED
  BY <1>3, <1>4, SMTT(30) DEF IsWalk

LEMMA WalkSees ==
    ASSUME NEW n, NEW w, NEW c, NEW lo, NEW hi, Window(n, w, c, lo, hi),
           NEW B \in SUBSET (lo .. hi), NEW nx, Linked(nx, n, c, B),
           NEW h, HeadIs(h, c, B), NEW r, NEW g, IsWalk(g, n, nx, r)
    PROVE  Walked(g, h) = SeenAll(r, c, B)
<1> DEFINE Slots == 0 .. n - 1
           All == {r[c[b]] : b \in B}
           X == WalkStates(n, r)
           Stop == {k \in X : k.at = Nil}
           Step == [k \in X |-> [at |-> nx[k.at], seen |-> k.seen \cup {r[k.at]}]]
           PosOf(i) == CHOOSE b \in B : c[b] = i
           I == {k \in X : \/ k.at = Nil /\ k.seen = All
                           \/ \E b \in B : k.at = c[b] /\ k.seen = Seen(r, c, B, b)}
           V == [k \in I |-> IF k.at = Nil THEN 0 ELSE hi + 1 - PosOf(k.at)]
           start == [at |-> h, seen |-> {}]
<1>1. /\ lo \in Int /\ hi \in Int
      /\ \A b \in B : b \in Int /\ b <= hi /\ c[b] \in Slots /\ c[b] # Nil /\ PosOf(c[b]) = b
  <2>1. lo \in Int /\ hi \in Int
    BY DEF Window
  <2>2. \A b \in B : c[b] \in Slots /\ c[b] # Nil
    BY WindowFacts
  <2>3. \A a, b \in B : c[a] = c[b] => a = b
    BY WindowFacts
  <2> QED
    BY <2>1, <2>2, <2>3
<1> HIDE DEF PosOf
<1>2. /\ nx \in [Slots -> Slots \cup {Nil}]
      /\ \A b \in B : \/ IsLast(B, b) /\ nx[c[b]] = Nil
                      \/ \E d \in B : Follows(B, b, d) /\ nx[c[b]] = c[d] /\ nx[c[b]] # Nil
  <2>1. ASSUME NEW b \in B
        PROVE  \/ IsLast(B, b) /\ nx[c[b]] = Nil
               \/ \E d \in B : Follows(B, b, d) /\ nx[c[b]] = c[d] /\ nx[c[b]] # Nil
    BY LinkIs
  <2> QED
    BY <2>1 DEF Linked
<1>3. \A k \in X : k \notin Stop => Step[k] \in X
  BY <1>2 DEF WalkStates
<1>4. IsLoop(g, X, Stop, Step)
  <2>1. g = [k \in X |-> g[k]]
    BY DEF IsWalk
  <2>2. \A k \in X : g[k] = IF k \in Stop THEN k ELSE g[Step[k]]
    BY DEF IsWalk
  <2> QED
    BY <2>1, <2>2 DEF IsLoop
<1>5. start \in I
  <2>1. CASE B = {}
    BY <2>1 DEF HeadIs, WalkStates
  <2>2. CASE B # {}
    <3>1. PICK b \in B : IsFirst(B, b)
      BY <1>1, <2>2, LeastInt
    <3>2. h = c[b]
      BY <3>1 DEF HeadIs
    <3>3. Seen(r, c, B, b) = {}
      BY <1>1, <3>1 DEF Seen, IsFirst
    <3> QED
      BY <1>1, <3>2, <3>3 DEF WalkStates
  <2> QED
    BY <2>1, <2>2
<1>6. ASSUME NEW k \in I, k \notin Stop PROVE Step[k] \in I /\ V[Step[k]] < V[k]
  <2>1. k \in X /\ k.at # Nil /\ Step[k] \in X
    BY <1>3, <1>6
  <2>2. PICK b \in B : k.at = c[b] /\ k.seen = Seen(r, c, B, b)
    BY <2>1
  <2>3. Step[k].at = nx[c[b]] /\ Step[k].seen = Seen(r, c, B, b) \cup {r[c[b]]}
    BY <2>1, <2>2
  <2>4. CASE IsLast(B, b) /\ nx[c[b]] = Nil
    <3>1. Seen(r, c, B, b) \cup {r[c[b]]} = All
      <4>1. \A x \in B : x = b \/ x < b
        BY <1>1, <2>4 DEF IsLast
      <4> QED
        BY <4>1 DEF Seen
    <3>2. Step[k] \in I
      BY <2>1, <2>3, <2>4, <3>1
    <3>3. V[Step[k]] = 0 /\ V[k] = hi + 1 - b
      BY <1>1, <2>1, <2>2, <2>3, <2>4, <3>2
    <3> QED
      <4>1. 0 < hi + 1 - b
        BY <1>1
      <4> HIDE DEF V, I, X, Step
      <4> QED
        BY <3>2, <3>3, <4>1
  <2>5. ASSUME NEW d \in B, Follows(B, b, d), nx[c[b]] = c[d], nx[c[b]] # Nil
        PROVE  Step[k] \in I /\ V[Step[k]] < V[k]
    <3>1. Seen(r, c, B, b) \cup {r[c[b]]} = Seen(r, c, B, d)
      <4>1. \A x \in B : x < d <=> x = b \/ x < b
        BY <1>1, <2>5 DEF Follows
      <4> QED
        BY <4>1 DEF Seen
    <3>2. Step[k] \in I
      BY <2>1, <2>3, <2>5, <3>1
    <3>3. V[Step[k]] = hi + 1 - d /\ V[k] = hi + 1 - b
      BY <1>1, <2>1, <2>2, <2>3, <2>5, <3>2
    <3>4. b < d
      BY <2>5 DEF Follows
    <3> QED
      <4>1. hi + 1 - d < hi + 1 - b
        BY <1>1, <3>4
      <4> HIDE DEF V, I, X, Step
      <4> QED
        BY <3>2, <3>3, <4>1
  <2> QED
    BY <1>2, <2>4, <2>5
<1>7. V \in [I -> Nat]
  <2>1. ASSUME NEW k \in I PROVE V[k] \in Nat
    <3>1. CASE k.at = Nil
      BY <3>1
    <3>2. CASE k.at # Nil
      <4>1. PICK b \in B : k.at = c[b]
        BY <3>2
      <4> QED
        BY <1>1, <3>2, <4>1
    <3> QED
      BY <3>1, <3>2
  <2> QED
    BY <2>1
<1>8. g[start] \in I \cap Stop
  <2>1. Decreases(V, I, Stop, Step) /\ I \in SUBSET X
    BY <1>6, <1>7 DEF Decreases
  <2> HIDE DEF X, Stop, Step, I, V, start
  <2>2. \A k \in I : g[k] \in I \cap Stop
    BY <1>4, <2>1, LoopEnds
  <2> QED
    BY <1>5, <2>2
<1> QED
  BY <1>1, <1>8 DEF SeenAll, Walked

NodeRanges(w, B, E) == {<<w[b], w[E[b]]>> : b \in B}

\* The ranges are those of the nodes.
LEMMA SndRangesAre ==
    ASSUME NEW l, NEW w, NEW c, NEW B, NEW E, NEW lo, NEW hi,
           SndWindow(w, c, lo, hi), SndRep(l, w, c, B, E, lo, hi)
    PROVE  SndRanges(l) = NodeRanges(w, B, E)
<1>1. /\ SndBody(l, w, c, B, E, lo, hi) /\ HeadIs(l.head, c, B) /\ l \in SndLists
      /\ Linked(l.next, SndListSize, c, B) /\ B \in SUBSET (lo .. hi)
      /\ Window(SndListSize, w, c, lo, hi)
  BY SndRepFacts
<1> DEFINE r == [i \in SndSlots |-> <<l.data1[i], LastOf(l, i)>>]
           X == [at : SndSlots \cup {Nil},
                 seen : SUBSET {<<l.data1[i], LastOf(l, i)>> : i \in SndSlots}]
<1>2. X = WalkStates(SndListSize, r)
  BY DEF WalkStates, SndSlots
<1>3. PICK g : IsWalk(g, SndListSize, l.next, r)
  <2>1. l.next \in [0 .. SndListSize - 1 -> (0 .. SndListSize - 1) \cup {Nil}]
    BY <1>1, SndFields DEF SndSlots
  <2> QED
    BY <2>1, WalkExists
<1>4. g = [k \in X |->
             IF k.at = Nil THEN k
             ELSE g[[at |-> l.next[k.at],
                     seen |-> k.seen \cup {<<l.data1[k.at], LastOf(l, k.at)>>}]]]
  <2>1. g = [k \in WalkStates(SndListSize, r) |-> g[k]]
    BY <1>3 DEF IsWalk
  <2>2. \A k \in X : g[k] = IF k.at = Nil THEN k
                            ELSE g[[at |-> l.next[k.at], seen |-> k.seen \cup {r[k.at]}]]
    BY <1>2, <1>3 DEF IsWalk
  <2>3. \A k \in X : k.at # Nil => r[k.at] = <<l.data1[k.at], LastOf(l, k.at)>>
    OBVIOUS
  <2> QED
    BY <1>2, <2>1, <2>2, <2>3
<1>5. PICK f : /\ f = [k \in X |->
                         IF k.at = Nil THEN k
                         ELSE f[[at |-> l.next[k.at],
                                 seen |-> k.seen \cup {<<l.data1[k.at], LastOf(l, k.at)>>}]]]
               /\ SndRanges(l) = f[[at |-> l.head, seen |-> {}]].seen
  BY <1>4 DEF SndRanges
<1>6. IsWalk(f, SndListSize, l.next, r)
  <2>1. f = [k \in X |-> f[k]]
    BY <1>5
  <2>2. \A k \in X : k.at # Nil => r[k.at] = <<l.data1[k.at], LastOf(l, k.at)>>
    OBVIOUS
  <2>3. \A k \in X : f[k] = IF k.at = Nil THEN k
                            ELSE f[[at |-> l.next[k.at], seen |-> k.seen \cup {r[k.at]}]]
    BY <1>5, <2>2
  <2> HIDE DEF r, X
  <2> QED
    BY <1>2, <2>1, <2>3 DEF IsWalk
<1>7. \A b \in B : r[c[b]] = <<w[b], w[E[b]]>>
  BY <1>1, SndNode
<1> HIDE DEF r
<1>8. Walked(f, l.head) = SeenAll(r, c, B)
  <2>1. PICK nx, h : nx = l.next /\ h = l.head
    OBVIOUS
  <2>2. Linked(nx, SndListSize, c, B) /\ HeadIs(h, c, B) /\ IsWalk(f, SndListSize, nx, r)
    BY <1>1, <1>6, <2>1
  <2>3. Walked(f, h) = SeenAll(r, c, B)
    BY <1>1, <2>2, WalkSees
  <2> QED
    BY <2>1, <2>3
<1> QED
  <2>1. SeenAll(r, c, B) = {<<w[b], w[E[b]]>> : b \in B}
    BY <1>7 DEF SeenAll
  <2> QED
    BY <1>5, <1>8, <2>1 DEF Walked, NodeRanges

-----------------------------------------------------------------------------
(* Positions and numbers.                                                  *)

LEMMA WireSetSize ==
    ASSUME NEW n, NEW w, NEW c, NEW lo, NEW hi, Window(n, w, c, lo, hi),
           NEW S \in SUBSET (lo .. hi)
    PROVE  Cardinality(WireSet(w, S)) = Cardinality(S)
<1>1. IsFiniteSet(S)
  <2>1. lo \in Int /\ hi \in Int
    BY DEF Window
  <2>2. IsFiniteSet(lo .. hi)
    BY <2>1, FS_Interval
  <2> QED
    BY <2>2, FS_Subset
<1> DEFINE f == [x \in S |-> w[x]]
<1>2. f \in Surjection(S, WireSet(w, S))
  BY DEF Surjection, WireSet
<1>3. f \in Injection(S, WireSet(w, S))
  <2>1. \A x, y \in S : w[x] = w[y] => x = y
    BY WindowFacts
  <2> QED
    BY <2>1 DEF Injection, IsInjective, WireSet
<1> QED
  BY <1>1, <1>2, <1>3, FS_Surjection

LEMMA WireSetMinus ==
    ASSUME NEW n, NEW w, NEW c, NEW lo, NEW hi, Window(n, w, c, lo, hi),
           NEW S \in SUBSET (lo .. hi), NEW R \in SUBSET (lo .. hi)
    PROVE  \A s : s \in WireSet(w, S \ R) <=> s \in WireSet(w, S) /\ s \notin WireSet(w, R)
<1>1. \A x, y \in lo .. hi : w[x] = w[y] => x = y
  BY WindowFacts
<1> QED
  BY <1>1 DEF WireSet

LEMMA WireSetOldest ==
    ASSUME NEW n, NEW w, NEW c, NEW lo, NEW hi, Window(n, w, c, lo, hi),
           NEW S \in SUBSET (lo .. hi), NEW x \in S, \A y \in S : x <= y
    PROVE  Oldest(WireSet(w, S)) = w[x]
<1>1. \A y, z \in lo .. hi : /\ SeqCmp(w[y], w[z]) <= 0 <=> y <= z
                             /\ w[y] = w[z] <=> y = z
  BY WindowFacts
<1>2. /\ w[x] \in WireSet(w, S)
      /\ \A t \in WireSet(w, S) : SeqCmp(w[x], t) <= 0
  BY <1>1 DEF WireSet
<1>3. ASSUME NEW s \in WireSet(w, S), \A t \in WireSet(w, S) : SeqCmp(s, t) <= 0
      PROVE  s = w[x]
  <2>1. PICK y \in S : s = w[y]
    BY DEF WireSet
  <2>2. y <= x
    BY <1>1, <1>2, <1>3, <2>1
  <2>3. y = x
    BY <2>2
  <2> QED
    BY <2>1, <2>3
<1> QED
  BY <1>2, <1>3 DEF Oldest

NumbersOf(R) == UNION {SeqRange(r[1], r[2]) : r \in R}

LEMMA RangesHold ==
    ASSUME NEW n, NEW w, NEW c, NEW B, NEW E, NEW lo, NEW hi,
           Window(n, w, c, lo, hi), Spans(B, E, lo, hi)
    PROVE  NumbersOf(NodeRanges(w, B, E)) = WireSet(w, Covered(B, E))
<1>1. ASSUME NEW b \in B PROVE SeqRange(w[b], w[E[b]]) = WireSet(w, b .. E[b])
  <2>1. b \in Int /\ E[b] \in Int /\ b <= E[b] /\ lo <= b /\ E[b] <= hi /\ lo \in Int /\ hi \in Int
    BY DEF Spans, Window
  <2>2. w \in Wires /\ hi - lo < n /\ n <= SeqNoTH /\ n \in Nat
    BY DEF Window
  <2>3. SeqNoTH < MaxSeqNo + 1 /\ SeqNoTH \in Nat /\ MaxSeqNo \in Nat
    BY SeqNoAssumption
  <2>4. b <= E[b] + 1 /\ E[b] + 1 - b <= MaxSeqNo
    BY <2>1, <2>2, <2>3
  <2> QED
    BY <2>1, <2>2, <2>4, WireSeqRange
<1>2. \A b \in B : b \in Int /\ E[b] \in Int
  BY DEF Spans
<1> DEFINE RR == {<<w[b], w[E[b]]>> : b \in B}
<1>3. ASSUME NEW s \in UNION {SeqRange(r[1], r[2]) : r \in RR} PROVE s \in WireSet(w, Covered(B, E))
  <2>1. PICK b \in B : s \in SeqRange(w[b], w[E[b]])
    OBVIOUS
  <2>2. PICK x \in b .. E[b] : s = w[x]
    BY <1>1, <2>1 DEF WireSet
  <2> QED
    BY <1>2, <2>2 DEF WireSet, Covered
<1>4. ASSUME NEW s \in WireSet(w, Covered(B, E)) PROVE s \in UNION {SeqRange(r[1], r[2]) : r \in RR}
  <2>1. PICK x \in Int, b \in B : s = w[x] /\ b <= x /\ x <= E[b]
    BY DEF WireSet, Covered
  <2>2. s \in SeqRange(w[b], w[E[b]])
    BY <1>1, <1>2, <2>1 DEF WireSet
  <2>3. <<w[b], w[E[b]]>> \in RR /\ SeqRange(<<w[b], w[E[b]]>>[1], <<w[b], w[E[b]]>>[2]) = SeqRange(w[b], w[E[b]])
    OBVIOUS
  <2> HIDE DEF RR
  <2>4. \E r \in RR : s \in SeqRange(r[1], r[2])
    BY <2>2, <2>3
  <2> QED
    BY <2>4
<1> QED
  BY <1>3, <1>4 DEF NumbersOf, NodeRanges

\* A list that holds S has the window of any positions that contain S.
LEMMA SndNarrow ==
    ASSUME NEW l, NEW w, NEW S, NEW lo, NEW hi, SndHolds(l, w, S, lo, hi),
           NEW lo2 \in Int, NEW hi2 \in Int, S \in SUBSET (lo2 .. hi2),
           hi2 - lo2 < SndListSize
    PROVE  SndHolds(l, w, S, lo2, hi2)
<1>1. PICK c, B, E : /\ SndWindow(w, c, lo, hi) /\ SndRep(l, w, c, B, E, lo, hi)
                     /\ Covered(B, E) = S
  BY DEF SndHolds
<1>2. SndWindow(w, c, lo2, hi2)
  BY <1>1 DEF SndWindow, Window
<1>3. SndBody(l, w, c, B, E, lo, hi) /\ Spans(B, E, lo, hi)
  BY <1>1, SndRepFacts
<1>4. \A b \in B : b \in Covered(B, E) /\ E[b] \in Covered(B, E)
  BY <1>3 DEF Covered, Spans
<1>5. Spans(B, E, lo2, hi2)
  BY <1>1, <1>3, <1>4 DEF Spans
<1>6. SndRep(l, w, c, B, E, lo2, hi2)
  BY <1>1, <1>5 DEF SndRep, SndBody
<1> QED
  BY <1>1, <1>2, <1>6 DEF SndHolds

\* What the list says of S.
SndSays(l, w, S) ==
    /\ (IF l.length = 0 THEN {} ELSE UNION {SeqRange(r[1], r[2]) : r \in SndRanges(l)})
         = WireSet(w, S)
    /\ l.length = Cardinality(WireSet(w, S))
    /\ S # {} => SndFirst(l) = Oldest(WireSet(w, S))

LEMMA SndSaysAll ==
    ASSUME NEW l, NEW w, NEW S, NEW lo, NEW hi, SndHolds(l, w, S, lo, hi)
    PROVE  SndSays(l, w, S)
<1>1. PICK c, B, E : /\ SndWindow(w, c, lo, hi) /\ SndRep(l, w, c, B, E, lo, hi)
                     /\ Covered(B, E) = S
  BY DEF SndHolds
<1>2. /\ l.length = Cardinality(Covered(B, E)) /\ Spans(B, E, lo, hi)
      /\ B \in SUBSET (lo .. hi) /\ lo \in Int /\ hi \in Int
      /\ Window(SndListSize, w, c, lo, hi)
      /\ l.length = 0 <=> B = {}
  BY <1>1, SndRepFacts
<1>3. S \in SUBSET (lo .. hi)
  BY <1>1, <1>2, CoveredFinite
<1>4. l.length = Cardinality(WireSet(w, S))
  BY <1>1, <1>2, <1>3, WireSetSize
<1>5. CASE l.length = 0
  <2>1. S = {}
    BY <1>1, <1>2, <1>5 DEF Covered
  <2> QED
    BY <1>4, <1>5, <2>1 DEF SndSays, WireSet
<1>6. CASE l.length # 0
  <2>1. SndRanges(l) = NodeRanges(w, B, E)
    BY <1>1, SndRangesAre
  <2>2. UNION {SeqRange(r[1], r[2]) : r \in SndRanges(l)} = WireSet(w, S)
    <3>1. NumbersOf(SndRanges(l)) = WireSet(w, Covered(B, E))
      <4>1. PICK R : R = SndRanges(l)
        OBVIOUS
      <4>2. NumbersOf(R) = WireSet(w, Covered(B, E))
        BY <1>2, <2>1, <4>1, RangesHold
      <4> QED
        BY <4>1, <4>2
    <3> QED
      BY <1>1, <3>1 DEF NumbersOf
  <2>3. SndFirst(l) = Oldest(WireSet(w, S))
    <3>1. SndTakes(l, DropFirst(l), w, S, lo, hi)
      BY <1>6, DropFirstHolds
    <3>2. PICK x \in S : (\A y \in S : x <= y) /\ SndFirst(l) = w[x]
      BY <3>1 DEF SndTakes
    <3> QED
      BY <1>2, <1>3, <3>2, WireSetOldest
  <2> QED
    BY <1>4, <1>6, <2>2, <2>3 DEF SndSays
<1> QED
  BY <1>5, <1>6

-----------------------------------------------------------------------------
(* The sender's behaviours.                                                *)

LEMMA SndReach ==
    ASSUME NEW l, NEW w, NEW S, NEW lo, NEW hi, SndHolds(l, w, S, lo, hi),
           NEW x \in lo .. hi, l.length # 0
    PROVE  Distance(0, SeqOff(l.data1[l.head], w[x])) < SndListSize
<1>1. PICK c, B, E : /\ SndWindow(w, c, lo, hi) /\ SndRep(l, w, c, B, E, lo, hi)
  BY DEF SndHolds
<1>2. /\ B \in SUBSET (lo .. hi) /\ lo \in Int /\ hi \in Int
      /\ Window(SndListSize, w, c, lo, hi) /\ B # {}
  BY <1>1, SndRepFacts
<1>3. PICK h \in B : /\ IsFirst(B, h) /\ l.head = c[h] /\ l.data1[l.head] = w[h]
                     /\ SeqOff(l.data1[l.head], w[x]) = x - h /\ SlotOf(l, w[x]) = c[x]
  <2>1. B # {}
    BY <1>2
  <2> QED
    BY <1>1, <2>1, SndHead
<1>4. hi - lo < SndListSize /\ SndListSize \in Int
  BY <1>2 DEF Window
<1> QED
  BY <1>2, <1>3, <1>4 DEF Distance

LEMMA SndStart ==
    ASSUME NEW w \in Wires, NEW lo \in Int, NEW hi \in Int, hi - lo < SndListSize,
           SndListSize \in Nat \ {0}, SndListSize <= SeqNoTH
    PROVE  SndHolds(NewSndList, w, {}, lo, hi)
<1>1. PICK c \in Rings(SndListSize) : c[0] = 0
  BY RingThrough
<1>2. SndWindow(w, c, lo, hi)
  BY DEF SndWindow, Window
<1> DEFINE E == [x \in Int |-> x]
           l == NewSndList
<1>3. /\ l \in SndLists /\ l.data1 = [i \in SndSlots |-> Nil]
      /\ l.data2 = [i \in SndSlots |-> Nil] /\ l.next = [i \in SndSlots |-> Nil]
      /\ l.head = Nil /\ l.length = 0 /\ l.lastInsertPos = Nil
  BY DEF NewSndList, SndLists
<1> HIDE DEF l
<1>4. Spans({}, E, lo, hi) /\ Apart({}, E) /\ Covered({}, E) = {}
  BY DEF Spans, Apart, Covered
<1>5. Stored(l.data1, l.data2, SndListSize, w, c, {}, E)
  BY <1>3 DEF Stored, SndSlots
<1>6. Linked(l.next, SndListSize, c, {}) /\ HeadIs(l.head, c, {})
  BY <1>3 DEF Linked, HeadIs, SndSlots
<1>7. l.length = Cardinality(Covered({}, E))
  BY <1>3, <1>4, FS_EmptySet
<1>8. SndRep(l, w, c, {}, E, lo, hi)
  BY <1>3, <1>4, <1>5, <1>6, <1>7 DEF SndRep, SndBody
<1> QED
  BY <1>2, <1>4, <1>8 DEF SndHolds, l

\* The sender at the positions f <= v <= a <= c + 1: what it has acknowledged,
\* what it is about to acknowledge, what it has been told of, what it has sent
\* or skipped; h is the last that the list has a slot for, t has been taken.
SndAt(w, f, v, a, c, h, S) ==
    /\ from = w[f] /\ ack = w[a] /\ curr = w[c]
    /\ f <= v /\ v <= a /\ a <= c + 1 /\ v <= h + 1 /\ h = f + SndListSize - 1
    /\ c <= h \/ c < v + FlowWindowSize
    /\ IF taking = Nil THEN v = f ELSE taking = w[v]
    /\ window \in Int /\ (window <= 0 \/ a + window <= v + FlowWindowSize)
    /\ taken = Nil \/ \E t \in Int : taken = w[t] /\ t <= c /\ c < t + 3 * FlowWindowSize
    /\ lost = WireSet(w, S) /\ S \in SUBSET (f .. h) /\ \A x \in S : x <= c
    /\ SndHolds(list, w, S, f, h)

SndInv ==
    side = "snd" =>
        \E w \in Wires, f \in Int, v \in Int, a \in Int, c \in Int, h \in Int : \E S :
            SndAt(w, f, v, a, c, h, S)

\* What the bounds of the flow window are.
LEMMA FlowBounds ==
    /\ FlowWindowSize \in Nat \ {0} /\ SndListSize = 2 * FlowWindowSize
    /\ 3 * FlowWindowSize < SeqNoTH
    /\ SndListSize \in Nat \ {0} /\ SndListSize <= SeqNoTH /\ SndListSize <= MaxSeqNo
    /\ MaxSeqNo \in Nat /\ SeqNoTH \in Nat /\ SeqNoTH <= MaxSeqNo
    /\ SndBufSize \in Nat \ {0}
BY SeqNoAssumption, LossListsAssumption

\* What is so at the positions.
SndKnows(w, f, a, c, h) ==
    /\ h - f < SndListSize /\ c < f + 3 * FlowWindowSize
    /\ SeqRange(from, curr) = WireSet(w, f .. c)
    /\ SeqRange(ack, curr) = WireSet(w, a .. c)
    /\ IncSeq(curr) = w[c + 1]
    /\ \E n, r : Window(n, w, r, f, h)

LEMMA SndKnown ==
    ASSUME NEW w \in Wires, NEW f \in Int, NEW v \in Int, NEW a \in Int, NEW c \in Int,
           NEW h \in Int, NEW S, SndAt(w, f, v, a, c, h, S)
    PROVE  SndKnows(w, f, a, c, h)
<1>1. /\ from = w[f] /\ ack = w[a] /\ curr = w[c]
      /\ f <= v /\ v <= a /\ a <= c + 1 /\ v <= h + 1 /\ h = f + SndListSize - 1
      /\ c <= h \/ c < v + FlowWindowSize
      /\ SndHolds(list, w, S, f, h)
  BY DEF SndAt
<1>2. h - f < SndListSize /\ c < f + 3 * FlowWindowSize
  BY <1>1, FlowBounds
<1>3. /\ f <= c + 1 /\ c + 1 - f <= MaxSeqNo /\ c + 1 - a <= MaxSeqNo
  BY <1>1, <1>2, FlowBounds
<1>4. SeqRange(w[f], w[c]) = WireSet(w, f .. c) /\ SeqRange(w[a], w[c]) = WireSet(w, a .. c)
  BY <1>1, <1>3, WireSeqRange
<1>5. IncSeq(w[c]) = w[c + 1]
  BY WireStep
<1>6. \E n, r : Window(n, w, r, f, h)
  BY <1>1 DEF SndHolds, SndWindow
<1> QED
  BY <1>1, <1>2, <1>4, <1>5, <1>6 DEF SndKnows

\* What an ACK may acknowledge.
LEMMA SndAcks ==
    ASSUME NEW w \in Wires, NEW x \in Int, NEW c \in Int, NEW s, x <= c + 1,
           curr = w[c], c + 1 - x <= MaxSeqNo, s \in Acks(w[x])
    PROVE  \E y \in Int : x <= y /\ y <= c + 1 /\ s = w[y]
<1>1. SeqRange(w[x], w[c]) = WireSet(w, x .. c) /\ IncSeq(w[c]) = w[c + 1]
  BY WireSeqRange, WireStep
<1>2. CASE s = w[c + 1]
  BY <1>2
<1>3. CASE s \in WireSet(w, x .. c)
  <2>1. PICK y \in x .. c : s = w[y]
    BY <1>3 DEF WireSet
  <2> QED
    BY <2>1
<1> QED
  BY <1>1, <1>2, <1>3 DEF Acks

\* What goes up to position p.
LEMMA SndCut ==
    ASSUME NEW w \in Wires, NEW f \in Int, NEW h \in Int, NEW S \in SUBSET (f .. h),
           NEW p \in f .. h, lost = WireSet(w, S), SndHolds(list, w, S, f, h)
    PROVE  \E T : /\ SndHolds(SndRemove(list, w[p]), w, T, f, h)
                  /\ lost \ SeqRange(w[f], w[p]) = WireSet(w, T)
                  /\ \A x : x \in T <=> x \in S /\ x > p
<1>1. PICK T, R : R = f .. p /\ T = S \ R
  OBVIOUS
<1>2. PICK r : SndWindow(w, r, f, h)
  BY DEF SndHolds
<1>3. Window(SndListSize, w, r, f, h) /\ h - f < SndListSize
  BY <1>2 DEF SndWindow, Window
<1>4. p \in Int /\ f <= p + 1 /\ p + 1 - f <= MaxSeqNo
  BY <1>3, FlowBounds
<1>5. SeqRange(w[f], w[p]) = WireSet(w, R)
  BY <1>1, <1>4, WireSeqRange
<1>6. R \in SUBSET (f .. h)
  BY <1>1
<1>7. \A s : s \in WireSet(w, S \ R) <=> s \in WireSet(w, S) /\ s \notin WireSet(w, R)
  BY <1>3, <1>6, WireSetMinus
<1>8. lost \ SeqRange(w[f], w[p]) = WireSet(w, T)
  BY <1>1, <1>5, <1>7
<1>9. \A x : x \in T <=> x \in S /\ x > p
  <2>1. \A x \in S : x \in Int /\ f <= x
    OBVIOUS
  <2>2. \A x \in S : x \notin R <=> x > p
    BY <1>1, <1>4, <2>1
  <2> QED
    BY <1>1, <2>2
<1>10. SndHolds(SndRemove(list, w[p]), w, T, f, h)
  BY <1>9, SndRemoveHolds
<1> QED
  BY <1>8, <1>9, <1>10

LEMMA SndInitInv == Init => SndInv
<1> SUFFICES ASSUME Init, side = "snd" PROVE SndInv
  BY DEF SndInv
<1>1. PICK w \in Wires : w[0] = 0
  BY FlowBounds, RingThrough DEF Wires
<1>2. w[-1] = MaxSeqNo
  <2>1. DecSeq(w[0]) = w[0 - 1]
    BY WireStep
  <2> QED
    BY <1>1, <2>1 DEF DecSeq
<1>3. PICK h \in Int : h = 0 + SndListSize - 1 /\ 0 <= h
  <2>1. SndListSize - 1 \in Int /\ 0 <= SndListSize - 1 /\ SndListSize - 1 = 0 + SndListSize - 1
    BY FlowBounds
  <2> QED
    BY <2>1
<1>4. SndHolds(list, w, {}, 0, h)
  <2>1. h - 0 < SndListSize
    BY <1>3, FlowBounds
  <2>2. SndHolds(NewSndList, w, {}, 0, h)
    BY <2>1, FlowBounds, SndStart
  <2> QED
    BY <2>2 DEF Init
<1>5. SndAt(w, 0, 0, 0, -1, h, {})
  <2>1. /\ from = w[0] /\ ack = w[0] /\ curr = w[-1] /\ taking = Nil /\ taken = Nil
        /\ window = FlowWindowSize /\ lost = {}
    BY <1>1, <1>2 DEF Init
  <2>2. WireSet(w, {}) = {}
    BY DEF WireSet
  <2>3. window \in Int /\ 0 + window <= 0 + FlowWindowSize
    BY <2>1, FlowBounds
  <2>4. 0 <= -1 + 1 /\ 0 <= h + 1 /\ -1 <= h /\ {} \in SUBSET (0 .. h)
    BY <1>3
  <2> QED
    BY <1>3, <1>4, <2>1, <2>2, <2>3, <2>4, 0 <= 0 DEF SndAt
<1> QED
  BY <1>5 DEF SndInv

LEMMA TakeLiteAckInv ==
    ASSUME NEW w \in Wires, NEW f \in Int, NEW v \in Int, NEW a \in Int, NEW c \in Int,
           NEW h \in Int, NEW S, SndAt(w, f, v, a, c, h, S), TakeLiteAck
    PROVE  SndInv'
<1>1. /\ from = w[f] /\ ack = w[a] /\ curr = w[c]
      /\ f <= v /\ v <= a /\ a <= c + 1 /\ v <= h + 1 /\ h = f + SndListSize - 1
      /\ c <= h \/ c < v + FlowWindowSize
      /\ IF taking = Nil THEN v = f ELSE taking = w[v]
      /\ window \in Int /\ (window <= 0 \/ a + window <= v + FlowWindowSize)
      /\ taken = Nil \/ \E t \in Int : taken = w[t] /\ t <= c /\ c < t + 3 * FlowWindowSize
      /\ lost = WireSet(w, S) /\ S \in SUBSET (f .. h) /\ \A x \in S : x <= c
      /\ SndHolds(list, w, S, f, h)
  BY DEF SndAt
<1>2. /\ h - f < SndListSize /\ c < f + 3 * FlowWindowSize
      /\ SeqRange(from, curr) = WireSet(w, f .. c)
      /\ SeqRange(ack, curr) = WireSet(w, a .. c)
      /\ IncSeq(curr) = w[c + 1]
      /\ \E n, r : Window(n, w, r, f, h)
  BY SndKnown DEF SndKnows
<1>3. PICK y \in Int : a <= y /\ y <= c + 1 /\ ack' = w[y]
  <2>1. ack' \in Acks(w[a])
    BY <1>1 DEF TakeLiteAck
  <2>2. c + 1 - a <= MaxSeqNo /\ a <= c + 1 /\ curr = w[c]
    BY <1>1, <1>2, FlowBounds
  <2> QED
    BY <2>1, <2>2, SndAcks
<1>4. SeqOff(w[a], w[y]) = y - a
  <2>1. y - a < SeqNoTH /\ a - y < SeqNoTH
    BY <1>1, <1>2, <1>3, FlowBounds
  <2> QED
    BY <2>1, WireOffset
<1>5. window' = IF window > y - a THEN window - (y - a) ELSE 0
  BY <1>1, <1>3, <1>4 DEF TakeLiteAck, WindowAfter
<1>6. window' \in Int /\ (window' <= 0 \/ y + window' <= v + FlowWindowSize)
  BY <1>1, <1>3, <1>5, FlowBounds
<1>7. v <= y
  BY <1>1, <1>3
<1>8. SndAt(w, f, v, y, c, h, S)'
  BY <1>1, <1>3, <1>6, <1>7 DEF SndAt, TakeLiteAck
<1> QED
  BY <1>8 DEF SndInv

LEMMA TakeAckInv ==
    ASSUME NEW w \in Wires, NEW f \in Int, NEW v \in Int, NEW a \in Int, NEW c \in Int,
           NEW h \in Int, NEW S, SndAt(w, f, v, a, c, h, S), TakeAck
    PROVE  SndInv'
<1>1. /\ from = w[f] /\ ack = w[a] /\ curr = w[c]
      /\ f <= v /\ v <= a /\ a <= c + 1 /\ v <= h + 1 /\ h = f + SndListSize - 1
      /\ c <= h \/ c < v + FlowWindowSize
      /\ IF taking = Nil THEN v = f ELSE taking = w[v]
      /\ window \in Int /\ (window <= 0 \/ a + window <= v + FlowWindowSize)
      /\ taken = Nil \/ \E t \in Int : taken = w[t] /\ t <= c /\ c < t + 3 * FlowWindowSize
      /\ lost = WireSet(w, S) /\ S \in SUBSET (f .. h) /\ \A x \in S : x <= c
      /\ SndHolds(list, w, S, f, h)
  BY DEF SndAt
<1>2. /\ h - f < SndListSize /\ c < f + 3 * FlowWindowSize
      /\ SeqRange(from, curr) = WireSet(w, f .. c)
      /\ SeqRange(ack, curr) = WireSet(w, a .. c)
      /\ IncSeq(curr) = w[c + 1]
      /\ \E n, r : Window(n, w, r, f, h)
  BY SndKnown DEF SndKnows
<1>3. taking = Nil /\ v = f
  BY <1>1 DEF TakeAck
<1>4. PICK s \in Acks(w[f]) :
         /\ taking' = s
         /\ IF SeqCmp(s, ack) >= 0 THEN ack' = s /\ window' = FlowWindowSize
                                   ELSE ack' = ack /\ window' = window
  BY <1>1 DEF TakeAck
<1>5. PICK y \in Int : f <= y /\ y <= c + 1 /\ s = w[y]
  <2>1. f <= c + 1 /\ c + 1 - f <= MaxSeqNo /\ curr = w[c]
    BY <1>1, <1>2, FlowBounds
  <2> QED
    BY <2>1, SndAcks
<1>6. SeqCmp(s, ack) >= 0 <=> y >= a
  <2>1. y - a < SeqNoTH /\ a - y < SeqNoTH
    BY <1>1, <1>2, <1>5, FlowBounds
  <2> QED
    BY <1>1, <1>5, <2>1, WireOrder
<1>7. PICK b \in Int : b = IF y >= a THEN y ELSE a
  OBVIOUS
<1>8. /\ ack' = w[b] /\ y <= b /\ b <= c + 1
      /\ window' \in Int /\ (window' <= 0 \/ b + window' <= y + FlowWindowSize)
  BY <1>1, <1>3, <1>4, <1>5, <1>6, <1>7, FlowBounds
<1>9. c <= h /\ y <= h + 1
  BY <1>1, <1>3, <1>5, FlowBounds
<1>10. taking' = w[y] /\ w[y] # Nil
  BY <1>4, <1>5, WireAt
<1>11. SndAt(w, f, y, b, c, h, S)'
  BY <1>1, <1>5, <1>8, <1>9, <1>10 DEF SndAt, TakeAck
<1> QED
  BY <1>11 DEF SndInv

LEMMA AckDataInv ==
    ASSUME NEW w \in Wires, NEW f \in Int, NEW v \in Int, NEW a \in Int, NEW c \in Int,
           NEW h \in Int, NEW S, SndAt(w, f, v, a, c, h, S), AckData
    PROVE  SndInv'
<1>1. /\ from = w[f] /\ ack = w[a] /\ curr = w[c]
      /\ f <= v /\ v <= a /\ a <= c + 1 /\ v <= h + 1 /\ h = f + SndListSize - 1
      /\ c <= h \/ c < v + FlowWindowSize
      /\ IF taking = Nil THEN v = f ELSE taking = w[v]
      /\ window \in Int /\ (window <= 0 \/ a + window <= v + FlowWindowSize)
      /\ taken = Nil \/ \E t \in Int : taken = w[t] /\ t <= c /\ c < t + 3 * FlowWindowSize
      /\ lost = WireSet(w, S) /\ S \in SUBSET (f .. h) /\ \A x \in S : x <= c
      /\ SndHolds(list, w, S, f, h)
  BY DEF SndAt
<1>2. /\ h - f < SndListSize /\ c < f + 3 * FlowWindowSize
      /\ SeqRange(from, curr) = WireSet(w, f .. c)
      /\ SeqRange(ack, curr) = WireSet(w, a .. c)
      /\ IncSeq(curr) = w[c + 1]
      /\ \E n, r : Window(n, w, r, f, h)
  BY SndKnown DEF SndKnows
<1>3. taking = w[v] /\ taking' = Nil /\ from' = w[v] /\ ack' = w[a] /\ curr' = w[c]
  BY <1>1 DEF AckData
<1>4. SeqOff(w[f], w[v]) = v - f
  <2>1. v - f < SeqNoTH /\ f - v < SeqNoTH
    BY <1>1, FlowBounds
  <2> QED
    BY <2>1, WireOffset
<1>5. PICK k \in Int : k = v + SndListSize - 1
  BY FlowBounds
<1>6. c <= k /\ v <= k + 1 /\ k - v < SndListSize /\ h <= k
  BY <1>1, <1>5, FlowBounds
<1>7. \E T : /\ lost' = WireSet(w, T) /\ SndHolds(list', w, T, f, h)
             /\ T \in SUBSET (v .. h) /\ \A x \in T : x <= c
  <2>1. CASE v = f
    <3>1. list' = list /\ lost' = lost
      BY <1>1, <1>3, <1>4, <2>1 DEF AckData
    <3> QED
      BY <1>1, <2>1, <3>1
  <2>2. CASE v # f
    <3>1. PICK p \in Int : p = v - 1
      OBVIOUS
    <3>2. p \in f .. h /\ DecSeq(w[v]) = w[p] /\ v - f > 0
      BY <1>1, <2>2, <3>1, WireStep
    <3>3. list' = SndRemove(list, w[p]) /\ lost' = lost \ SeqRange(w[f], w[p])
      BY <1>1, <1>3, <1>4, <3>2 DEF AckData
    <3>4. PICK T : /\ SndHolds(list', w, T, f, h) /\ lost' = WireSet(w, T)
                   /\ \A x : x \in T <=> x \in S /\ x > p
      BY <1>1, <3>2, <3>3, SndCut
    <3>5. T \in SUBSET (v .. h) /\ \A x \in T : x <= c
      <4>1. /\ S \in SUBSET (f .. h) /\ \A x \in S : x <= c
            /\ p = v - 1 /\ \A x : x \in T <=> x \in S /\ x > p
        BY <1>1, <3>1, <3>4
      <4>2. \A x \in T : x \in f .. h /\ x > p /\ x <= c
        BY <4>1
      <4>3. \A x \in f .. h : x > p => x \in v .. h
        BY <4>1
      <4> QED
        BY <4>2, <4>3
    <3> QED
      BY <3>4, <3>5
  <2> QED
    BY <2>1, <2>2
<1>8. PICK T : /\ lost' = WireSet(w, T) /\ SndHolds(list', w, T, f, h)
               /\ T \in SUBSET (v .. h) /\ \A x \in T : x <= c
  BY <1>7
<1>9. T \in SUBSET (v .. k)
  BY <1>6, <1>8
<1>10. SndHolds(list', w, T, v, k)
  BY <1>6, <1>8, <1>9, SndNarrow
<1>11. SndAt(w, v, v, a, c, k, T)'
  <2>1. window' = window /\ taken' = taken
    BY DEF AckData
  <2> QED
    BY <1>1, <1>3, <1>5, <1>6, <1>8, <1>9, <1>10, <2>1, v <= v DEF SndAt
<1> QED
  BY <1>11 DEF SndInv

LEMMA ReportInv ==
    ASSUME NEW w \in Wires, NEW f \in Int, NEW v \in Int, NEW a \in Int, NEW c \in Int,
           NEW h \in Int, NEW S, SndAt(w, f, v, a, c, h, S), Report
    PROVE  SndInv'
<1>1. /\ from = w[f] /\ ack = w[a] /\ curr = w[c]
      /\ f <= v /\ v <= a /\ a <= c + 1 /\ v <= h + 1 /\ h = f + SndListSize - 1
      /\ c <= h \/ c < v + FlowWindowSize
      /\ IF taking = Nil THEN v = f ELSE taking = w[v]
      /\ window \in Int /\ (window <= 0 \/ a + window <= v + FlowWindowSize)
      /\ taken = Nil \/ \E t \in Int : taken = w[t] /\ t <= c /\ c < t + 3 * FlowWindowSize
      /\ lost = WireSet(w, S) /\ S \in SUBSET (f .. h) /\ \A x \in S : x <= c
      /\ SndHolds(list, w, S, f, h)
  BY DEF SndAt
<1>2. /\ h - f < SndListSize /\ c < f + 3 * FlowWindowSize
      /\ SeqRange(from, curr) = WireSet(w, f .. c)
      /\ SeqRange(ack, curr) = WireSet(w, a .. c)
      /\ IncSeq(curr) = w[c + 1]
      /\ \E n, r : Window(n, w, r, f, h)
  BY SndKnown DEF SndKnows
<1>3. taking = Nil /\ v = f /\ c <= h
  BY <1>1, FlowBounds DEF Report
<1>4. PICK s \in SeqRange(ack, curr) : \E t \in SeqRange(s, curr) :
         /\ list' = SndInsert(list, s, t) /\ lost' = lost \cup SeqRange(s, t)
  BY DEF Report
<1>5. PICK x \in a .. c : s = w[x]
  BY <1>2, <1>4 DEF WireSet
<1>6. x \in Int /\ x \in f .. h /\ f <= x /\ x <= c
  BY <1>1, <1>3, <1>5
<1>7. SeqRange(s, curr) = WireSet(w, x .. c)
  <2>1. x <= c + 1 /\ c + 1 - x <= MaxSeqNo
    BY <1>1, <1>2, <1>6, FlowBounds
  <2> QED
    BY <1>1, <1>5, <1>6, <2>1, WireSeqRange
<1>8. PICK y \in x .. c : /\ list' = SndInsert(list, w[x], w[y])
                         /\ lost' = lost \cup SeqRange(w[x], w[y])
  BY <1>4, <1>5, <1>7 DEF WireSet
<1>9. y \in Int /\ y \in f .. h /\ x <= y /\ y <= c
  BY <1>3, <1>6, <1>8
<1>10. SeqRange(w[x], w[y]) = WireSet(w, x .. y)
  <2>1. x <= y + 1 /\ y + 1 - x <= MaxSeqNo
    BY <1>2, <1>6, <1>9, FlowBounds
  <2> QED
    BY <1>6, <1>9, <2>1, WireSeqRange
<1>11. PICK T : T = S \cup (x .. y)
  OBVIOUS
<1>12. lost' = WireSet(w, T)
  BY <1>1, <1>8, <1>10, <1>11 DEF WireSet
<1>13. SndHolds(list', w, T, f, h)
  BY <1>1, <1>6, <1>8, <1>9, <1>11, SndInsertHolds
<1>14. T \in SUBSET (f .. h) /\ \A z \in T : z <= c
  BY <1>1, <1>6, <1>9, <1>11
<1>15. SndAt(w, f, v, a, c, h, T)'
  <2>1. /\ from' = from /\ ack' = ack /\ curr' = curr
        /\ taking' = taking /\ window' = window /\ taken' = taken
    BY DEF Report, sndVars
  <2> QED
    BY <1>1, <1>12, <1>13, <1>14, <2>1 DEF SndAt
<1> QED
  BY <1>15 DEF SndInv

LEMMA SendNewInv ==
    ASSUME NEW w \in Wires, NEW f \in Int, NEW v \in Int, NEW a \in Int, NEW c \in Int,
           NEW h \in Int, NEW S, SndAt(w, f, v, a, c, h, S), SendNew
    PROVE  SndInv'
<1>1. /\ from = w[f] /\ ack = w[a] /\ curr = w[c]
      /\ f <= v /\ v <= a /\ a <= c + 1 /\ v <= h + 1 /\ h = f + SndListSize - 1
      /\ c <= h \/ c < v + FlowWindowSize
      /\ IF taking = Nil THEN v = f ELSE taking = w[v]
      /\ window \in Int /\ (window <= 0 \/ a + window <= v + FlowWindowSize)
      /\ taken = Nil \/ \E t \in Int : taken = w[t] /\ t <= c /\ c < t + 3 * FlowWindowSize
      /\ lost = WireSet(w, S) /\ S \in SUBSET (f .. h) /\ \A x \in S : x <= c
      /\ SndHolds(list, w, S, f, h)
  BY DEF SndAt
<1>2. /\ h - f < SndListSize /\ c < f + 3 * FlowWindowSize
      /\ SeqRange(from, curr) = WireSet(w, f .. c)
      /\ SeqRange(ack, curr) = WireSet(w, a .. c)
      /\ IncSeq(curr) = w[c + 1]
      /\ \E n, r : Window(n, w, r, f, h)
  BY SndKnown DEF SndKnows
<1>3. /\ curr' = w[c + 1] /\ taken = Nil /\ window >= SeqLen(w[a], w[c + 1])
      /\ from' = from /\ ack' = ack /\ taking' = taking /\ window' = window
      /\ taken' = taken /\ list' = list /\ lost' = lost
  BY <1>1, <1>2 DEF SendNew, sndVars
<1>4. SeqLen(w[a], w[c + 1]) = c + 1 - a + 1
  <2>1. a <= c + 1 /\ c + 1 - a <= MaxSeqNo /\ c + 1 \in Int
    BY <1>1, <1>2, FlowBounds
  <2> QED
    BY <2>1, WireLen
<1>5. c + 1 < v + FlowWindowSize
  BY <1>1, <1>3, <1>4, FlowBounds
<1>6. PICK e \in Int : e = c + 1
  OBVIOUS
<1>7. a <= e + 1 /\ (e <= h \/ e < v + FlowWindowSize) /\ \A x \in S : x <= e
  BY <1>1, <1>5, <1>6
<1>8. SndAt(w, f, v, a, e, h, S)'
  BY <1>1, <1>3, <1>6, <1>7 DEF SndAt
<1> QED
  BY <1>8 DEF SndInv

LEMMA TakeLostInv ==
    ASSUME NEW w \in Wires, NEW f \in Int, NEW v \in Int, NEW a \in Int, NEW c \in Int,
           NEW h \in Int, NEW S, SndAt(w, f, v, a, c, h, S), TakeLost
    PROVE  SndInv'
<1>1. /\ from = w[f] /\ ack = w[a] /\ curr = w[c]
      /\ f <= v /\ v <= a /\ a <= c + 1 /\ v <= h + 1 /\ h = f + SndListSize - 1
      /\ c <= h \/ c < v + FlowWindowSize
      /\ IF taking = Nil THEN v = f ELSE taking = w[v]
      /\ window \in Int /\ (window <= 0 \/ a + window <= v + FlowWindowSize)
      /\ taken = Nil \/ \E t \in Int : taken = w[t] /\ t <= c /\ c < t + 3 * FlowWindowSize
      /\ lost = WireSet(w, S) /\ S \in SUBSET (f .. h) /\ \A x \in S : x <= c
      /\ SndHolds(list, w, S, f, h)
  BY DEF SndAt
<1>2. /\ h - f < SndListSize /\ c < f + 3 * FlowWindowSize
      /\ SeqRange(from, curr) = WireSet(w, f .. c)
      /\ SeqRange(ack, curr) = WireSet(w, a .. c)
      /\ IncSeq(curr) = w[c + 1]
      /\ \E n, r : Window(n, w, r, f, h)
  BY SndKnown DEF SndKnows
<1>3. SndTakes(list, DropFirst(list), w, S, f, h)
  BY <1>1, DropFirstHolds DEF TakeLost
<1>4. PICK x \in S : SndFirst(list) = w[x] /\ SndHolds(DropFirst(list), w, S \ {x}, f, h)
  BY <1>3 DEF SndTakes
<1>5. PICK T, R : R = {x} /\ T = S \ R
  OBVIOUS
<1>6. lost' = WireSet(w, T)
  <2>1. R \in SUBSET (f .. h)
    BY <1>1, <1>5
  <2>2. \A s : s \in WireSet(w, S \ R) <=> s \in WireSet(w, S) /\ s \notin WireSet(w, R)
    <3>1. PICK n, r : Window(n, w, r, f, h)
      BY <1>2
    <3>2. S \in SUBSET (f .. h)
      BY <1>1
    <3> QED
      BY <2>1, <3>1, <3>2, WireSetMinus
  <2>3. WireSet(w, R) = {w[x]}
    BY <1>5 DEF WireSet
  <2> QED
    BY <1>1, <1>4, <1>5, <2>2, <2>3 DEF TakeLost
<1>7. SndHolds(list', w, T, f, h) /\ T \in SUBSET (f .. h) /\ \A z \in T : z <= c
  BY <1>1, <1>4, <1>5 DEF TakeLost
<1>8. x \in Int /\ taken' = w[x] /\ x <= c /\ c < x + 3 * FlowWindowSize
  BY <1>1, <1>2, <1>4, FlowBounds DEF TakeLost
<1>9. SndAt(w, f, v, a, c, h, T)'
  <2>1. /\ from' = from /\ ack' = ack /\ curr' = curr
        /\ taking' = taking /\ window' = window
    BY DEF TakeLost
  <2> QED
    BY <1>1, <1>6, <1>7, <1>8, <2>1 DEF SndAt
<1> QED
  BY <1>9 DEF SndInv

LEMMA DropExpiredInv ==
    ASSUME NEW w \in Wires, NEW f \in Int, NEW v \in Int, NEW a \in Int, NEW c \in Int,
           NEW h \in Int, NEW S, SndAt(w, f, v, a, c, h, S), DropExpired,
           SndBufSize + 2 <= SndListSize
    PROVE  SndInv'
<1>1. /\ from = w[f] /\ ack = w[a] /\ curr = w[c]
      /\ f <= v /\ v <= a /\ a <= c + 1 /\ v <= h + 1 /\ h = f + SndListSize - 1
      /\ c <= h \/ c < v + FlowWindowSize
      /\ IF taking = Nil THEN v = f ELSE taking = w[v]
      /\ window \in Int /\ (window <= 0 \/ a + window <= v + FlowWindowSize)
      /\ taken = Nil \/ \E t \in Int : taken = w[t] /\ t <= c /\ c < t + 3 * FlowWindowSize
      /\ lost = WireSet(w, S) /\ S \in SUBSET (f .. h) /\ \A x \in S : x <= c
      /\ SndHolds(list, w, S, f, h)
  BY DEF SndAt
<1>2. /\ h - f < SndListSize /\ c < f + 3 * FlowWindowSize
      /\ SeqRange(from, curr) = WireSet(w, f .. c)
      /\ SeqRange(ack, curr) = WireSet(w, a .. c)
      /\ IncSeq(curr) = w[c + 1]
      /\ \E n, r : Window(n, w, r, f, h)
  BY SndKnown DEF SndKnows
<1>3. PICK d \in 1 .. SndBufSize :
         /\ SeqOff(from, taken) + d <= SndBufSize
         /\ list' = SndRemove(list, IncSeqBy(taken, d))
         /\ lost' = lost \ SeqRange(from, IncSeqBy(taken, d))
         /\ curr' = Skipped(IncSeqBy(taken, d))
  BY DEF DropExpired
<1>4. /\ taken # Nil /\ SeqOff(from, taken) >= 0 /\ taken' = Nil
      /\ from' = from /\ ack' = ack /\ taking' = taking /\ window' = window
  BY DEF DropExpired
<1>5. PICK t \in Int : taken = w[t] /\ t <= c /\ c < t + 3 * FlowWindowSize
  BY <1>1, <1>4
<1>6. SeqOff(w[f], w[t]) = t - f
  <2>1. t - f < SeqNoTH /\ f - t < SeqNoTH
    BY <1>1, <1>2, <1>5, FlowBounds
  <2> QED
    BY <2>1, WireOffset
<1>7. PICK p \in Int, q \in Int : p = t + d /\ q = p + 1
  OBVIOUS
<1>8. f <= p /\ p <= f + SndBufSize
  BY <1>1, <1>3, <1>4, <1>5, <1>6, <1>7, FlowBounds
<1>9. p \in f .. h /\ q \in f .. h
  BY <1>1, <1>7, <1>8, FlowBounds
<1>10. IncSeqBy(taken, d) = w[p] /\ IncSeq(w[p]) = w[q]
  <2>1. d \in 0 .. MaxSeqNo
    BY FlowBounds
  <2> QED
    BY <1>5, <1>7, <2>1, WireBy, WireStep
<1>11. SeqCmp(w[c], w[q]) < 0 <=> c < q
  <2>1. c - q < SeqNoTH /\ q - c < SeqNoTH
    BY <1>1, <1>2, <1>9, FlowBounds
  <2> QED
    BY <2>1, WireOrder
<1>12. PICK e \in Int : e = IF c < q THEN q ELSE c
  OBVIOUS
<1>13. curr' = w[e]
  BY <1>1, <1>3, <1>10, <1>11, <1>12 DEF Skipped
<1>14. PICK T : /\ SndHolds(list', w, T, f, h) /\ lost' = WireSet(w, T)
                /\ \A x : x \in T <=> x \in S /\ x > p
  BY <1>1, <1>3, <1>9, <1>10, SndCut
<1>15. /\ c <= e /\ (e <= h \/ e < v + FlowWindowSize) /\ a <= e + 1
       /\ T \in SUBSET (f .. h) /\ \A x \in T : x <= e
  <2>1. c <= e /\ (e <= h \/ e < v + FlowWindowSize) /\ a <= e + 1
    BY <1>1, <1>9, <1>12
  <2>2. \A x \in S : x <= e
    BY <1>1, <2>1
  <2> QED
    BY <1>1, <1>14, <2>1, <2>2
<1>16. SndAt(w, f, v, a, e, h, T)'
  BY <1>1, <1>4, <1>13, <1>14, <1>15 DEF SndAt
<1> QED
  BY <1>16 DEF SndInv

LEMMA SndNextInv ==
    ASSUME SndBufSize + 2 <= SndListSize, SndInv, [Next]_vars
    PROVE  SndInv'
<1> SUFFICES ASSUME side' = "snd" PROVE SndInv'
  BY DEF SndInv
<1>1. side = "snd"
  BY DEF Next, SndNext, RcvNext, TakeLiteAck, TakeAck, AckData, Report, SendNew, TakeLost,
         Retransmit, DropExpired, ArriveNew, ArriveOld, DropMessage, SendAck, vars
<1>2. PICK w \in Wires, f \in Int, v \in Int, a \in Int, c \in Int, h \in Int :
         \E S : SndAt(w, f, v, a, c, h, S)
  BY <1>1 DEF SndInv
<1>3. PICK S : SndAt(w, f, v, a, c, h, S)
  BY <1>2
<1>4. CASE TakeLiteAck
  BY <1>3, <1>4, TakeLiteAckInv
<1>5. CASE TakeAck
  BY <1>3, <1>5, TakeAckInv
<1>6. CASE AckData
  BY <1>3, <1>6, AckDataInv
<1>7. CASE Report
  BY <1>3, <1>7, ReportInv
<1>8. CASE SendNew
  BY <1>3, <1>8, SendNewInv
<1>9. CASE TakeLost
  BY <1>3, <1>9, TakeLostInv
<1>10. CASE Retransmit
  <2>1. SndAt(w, f, v, a, c, h, S)'
    BY <1>3, <1>10 DEF SndAt, Retransmit
  <2> QED
    BY <2>1 DEF SndInv
<1>11. CASE DropExpired
  BY <1>3, <1>11, DropExpiredInv
<1>12. CASE UNCHANGED vars
  <2>1. SndAt(w, f, v, a, c, h, S)'
    BY <1>3, <1>12 DEF SndAt, vars, sndVars
  <2> QED
    BY <2>1 DEF SndInv
<1>13. ~RcvNext
  BY <1>1 DEF RcvNext, ArriveNew, ArriveOld, DropMessage, SendAck
<1> QED
  BY <1>4, <1>5, <1>6, <1>7, <1>8, <1>9, <1>10, <1>11, <1>12, <1>13 DEF Next, SndNext

LEMMA SndInvImplies == SndInv => SndListExact /\ SndListFits
<1> SUFFICES ASSUME SndInv, side = "snd" PROVE SndListExact /\ SndListFits
  BY DEF SndListExact, SndListFits
<1>1. PICK w \in Wires, f \in Int, v \in Int, a \in Int, c \in Int, h \in Int :
         \E S : SndAt(w, f, v, a, c, h, S)
  BY DEF SndInv
<1>2. PICK S : SndAt(w, f, v, a, c, h, S)
  BY <1>1
<1>3. /\ lost = WireSet(w, S) /\ SndHolds(list, w, S, f, h)
      /\ SeqRange(from, curr) = WireSet(w, f .. c)
  <2>1. SndKnows(w, f, a, c, h)
    BY <1>2, SndKnown
  <2> QED
    BY <1>2, <2>1 DEF SndAt, SndKnows
<1>4. SndListExact
  <2>1. SndSays(list, w, S)
    BY <1>3, SndSaysAll
  <2>2. lost # {} => S # {}
    BY <1>3 DEF WireSet
  <2> QED
    BY <1>3, <2>1, <2>2 DEF SndSays, SndListExact, Contents, Ranges
<1>5. SndListFits
  <2> SUFFICES ASSUME taking = Nil, list.length # 0, NEW x \in f .. c
               PROVE  Distance(0, SeqOff(list.data1[list.head], w[x])) < SndListSize
    BY <1>3 DEF SndListFits, WireSet
  <2>1. c <= h
    BY <1>2, FlowBounds DEF SndAt
  <2>2. x \in f .. h
    BY <2>1
  <2> QED
    BY <1>3, <2>2, SndReach
<1> QED
  BY <1>4, <1>5

\* SndInv is inductive: the numbers of the sender are those of positions, and
\* its list represents what is lost, before and after every step, if messages
\* that are dropped end within the list's size from the last ACK.
THEOREM SndListInvariant ==
    ASSUME SndBufSize + 2 <= SndListSize
    PROVE  Spec => []SndInv
<1>1. Init => SndInv
  BY SndInitInv
<1>2. SndInv /\ [Next]_vars => SndInv'
  BY SndNextInv
<1> QED
  BY <1>1, <1>2, PTL DEF Spec

\* Whatever is reported lost, acknowledged, taken for retransmission or dropped
\* because it has expired, in any order, CSndLossList holds the lost packets and
\* no others, and knows how many and which is the oldest; if all that its
\* sender's buffer can hold has a slot.
THEOREM SndListIsExact ==
    ASSUME SndBufSize + 2 <= SndListSize
    PROVE  Spec => []SndListExact
<1>1. SndInv => SndListExact
  BY SndInvImplies
<1>2. Spec => []SndInv
  BY SndListInvariant
<1> QED
  BY <1>1, <1>2, PTL

\* Every number from the last data ACK to the newest packet has a slot of the
\* sender's array whenever one may be reported lost, though light ACKs leave the
\* list uncleared and dropped messages move the newest number past the window.
THEOREM SndListAlwaysFits ==
    ASSUME SndBufSize + 2 <= SndListSize
    PROVE  Spec => []SndListFits
<1>1. SndInv => SndListFits
  BY SndInvImplies
<1>2. Spec => []SndInv
  BY SndListInvariant
<1> QED
  BY <1>1, <1>2, PTL

-----------------------------------------------------------------------------
(* Links backwards, and nodes that move.                                   *)

Links(n) == [0 .. n - 1 -> (0 .. n - 1) \cup {Nil}]

BackLinked(pr, n, c, B) ==
    /\ pr \in Links(n)
    /\ \A b, d \in B : Follows(B, b, d) => pr[c[d]] = c[b]

TailIs(tail, c, B) == \A b \in B : IsLast(B, b) => tail = c[b]

\* f are the links pr after p has been put behind node b,
IsBackPut(pr, f, n, c, B, b, p) ==
    /\ f \in Links(n) /\ f[c[p]] = c[b]
    /\ \A d \in B : f[c[d]] = IF Follows(B, b, d) THEN c[p] ELSE pr[c[d]]

\* after node p has left, and
IsBackRemoved(pr, f, n, c, B, p) ==
    /\ f \in Links(n)
    /\ \A b, d \in B : Follows(B, b, p) /\ Follows(B, p, d) => f[c[d]] = c[b]
    /\ \A d \in B : d # p /\ ~Follows(B, p, d) => f[c[d]] = pr[c[d]]

\* after it has moved to q.
IsBackMoved(pr, f, n, c, B, p, q) ==
    /\ f \in Links(n) /\ f[c[q]] = pr[c[p]]
    /\ \A d \in B : d # p => f[c[d]] = IF Follows(B, p, d) THEN c[q] ELSE pr[c[d]]

\* The same for the links nx.
IsMoved(nx, f, n, c, B, p, q) ==
    /\ f \in Links(n) /\ f[c[q]] = nx[c[p]]
    /\ \A b \in B : b # p => f[c[b]] = IF Follows(B, b, p) THEN c[q] ELSE nx[c[b]]

LEMMA FollowsOne ==
    ASSUME NEW B \in SUBSET Int, NEW a \in B, NEW b \in B, NEW d \in B
    PROVE  /\ Follows(B, a, d) /\ Follows(B, b, d) => a = b
           /\ Follows(B, d, a) /\ Follows(B, d, b) => a = b
BY DEF Follows

LEMMA BackPut ==
    ASSUME NEW n, NEW c, NEW B \in SUBSET Int, NEW b \in B, NEW p \in Int,
           b < p, \A x \in B : x <= b \/ p < x,
           NEW pr, BackLinked(pr, n, c, B), NEW f, IsBackPut(pr, f, n, c, B, b, p)
    PROVE  BackLinked(f, n, c, B \cup {p})
<1> DEFINE C == B \cup {p}
<1>1. \A x, d \in B : Follows(B, x, d) => pr[c[d]] = c[x]
  BY DEF BackLinked
<1>2. /\ f \in Links(n) /\ f[c[p]] = c[b]
      /\ \A d \in B : f[c[d]] = IF Follows(B, b, d) THEN c[p] ELSE pr[c[d]]
  BY DEF IsBackPut
<1>3. \A x \in C : x \in Int
  OBVIOUS
<1>4. ASSUME NEW x \in C, NEW d \in C, Follows(C, x, d) PROVE f[c[d]] = c[x]
  <2>1. CASE d = p
    <3>1. x = b
      BY <1>3, <1>4, <2>1 DEF Follows
    <3> QED
      BY <1>2, <2>1, <3>1
  <2>2. CASE d \in B /\ x = p
    <3>1. Follows(B, b, d)
      BY <1>3, <1>4, <2>2 DEF Follows
    <3> QED
      BY <1>2, <2>2, <3>1
  <2>3. CASE d \in B /\ x \in B
    <3>1. Follows(B, x, d)
      BY <1>4, <2>3 DEF Follows
    <3>2. x # b
      BY <1>3, <1>4, <2>3 DEF Follows
    <3>3. ~Follows(B, b, d)
      BY <2>3, <3>1, <3>2, FollowsOne
    <3> QED
      BY <1>1, <1>2, <2>3, <3>1, <3>3
  <2> QED
    BY <2>1, <2>2, <2>3
<1>5. BackLinked(f, n, c, C)
  BY <1>2, <1>4 DEF BackLinked
<1> QED
  BY <1>5

LEMMA BackRemove ==
    ASSUME NEW n, NEW c, NEW B \in SUBSET Int, NEW p \in B,
           NEW pr, BackLinked(pr, n, c, B), NEW f, IsBackRemoved(pr, f, n, c, B, p)
    PROVE  BackLinked(f, n, c, B \ {p})
<1> DEFINE C == B \ {p}
<1>1. \A x, d \in B : Follows(B, x, d) => pr[c[d]] = c[x]
  BY DEF BackLinked
<1>2. /\ f \in Links(n)
      /\ \A b, d \in B : Follows(B, b, p) /\ Follows(B, p, d) => f[c[d]] = c[b]
      /\ \A d \in B : d # p /\ ~Follows(B, p, d) => f[c[d]] = pr[c[d]]
  BY DEF IsBackRemoved
<1>3. ASSUME NEW x \in C, NEW d \in C, Follows(C, x, d) PROVE f[c[d]] = c[x]
  <2>1. x \in B /\ d \in B /\ x # p /\ d # p /\ x \in Int /\ d \in Int /\ p \in Int
    OBVIOUS
  <2>2. CASE x < p /\ p < d
    <3>1. Follows(B, x, p) /\ Follows(B, p, d)
      BY <1>3, <2>1, <2>2 DEF Follows
    <3> QED
      BY <1>2, <2>1, <3>1
  <2>3. CASE ~(x < p /\ p < d)
    <3>1. Follows(B, x, d)
      BY <1>3, <2>1, <2>3 DEF Follows
    <3>2. ~Follows(B, p, d)
      BY <2>1, <3>1, FollowsOne
    <3> QED
      BY <1>1, <1>2, <2>1, <3>1, <3>2
  <2> QED
    BY <2>2, <2>3
<1>4. BackLinked(f, n, c, C)
  BY <1>2, <1>3 DEF BackLinked
<1> QED
  BY <1>4

\* Node p moves to q, which is nowhere near the others.
MovedOrder(B, C, p, q) ==
    /\ \A x \in C : x # q => x \in B /\ x # p
    /\ \A x \in C : x # q => /\ Follows(C, q, x) <=> Follows(B, p, x)
                             /\ Follows(C, x, q) <=> Follows(B, x, p)
                             /\ IsLast(C, x) <=> IsLast(B, x)
                             /\ IsFirst(C, x) <=> IsFirst(B, x)
    /\ \A x, y \in C : x # q /\ y # q => (Follows(C, x, y) <=> Follows(B, x, y))
    /\ IsLast(C, q) <=> IsLast(B, p)
    /\ IsFirst(C, q) <=> IsFirst(B, p)

LEMMA FollowsMoved ==
    ASSUME NEW B \in SUBSET Int, NEW p \in B, NEW q \in Int, p < q,
           \A x \in B : x <= p \/ q < x, NEW C, C = (B \ {p}) \cup {q}
    PROVE  MovedOrder(B, C, p, q)
<1>1. \A x \in C : x # q => x \in B /\ x # p /\ x \in Int
  OBVIOUS
<1>2. \A x \in B : x \in Int /\ (x = p \/ x \in C) /\ (x < p \/ x = p \/ q < x)
  OBVIOUS
<1>3. q \in C /\ p \in Int
  OBVIOUS
<1>4. ASSUME NEW x \in C, x # q
      PROVE  /\ Follows(C, q, x) <=> Follows(B, p, x)
             /\ Follows(C, x, q) <=> Follows(B, x, p)
             /\ IsLast(C, x) <=> IsLast(B, x)
             /\ IsFirst(C, x) <=> IsFirst(B, x)
  <2>1. x \in B /\ x # p /\ x \in Int /\ (x < p \/ q < x)
    BY <1>1, <1>2, <1>4
  <2>2. Follows(C, q, x) <=> Follows(B, p, x)
    BY <1>1, <1>2, <1>3, <2>1 DEF Follows
  <2>3. Follows(C, x, q) <=> Follows(B, x, p)
    BY <1>1, <1>2, <1>3, <2>1 DEF Follows
  <2>4. IsLast(C, x) <=> IsLast(B, x)
    BY <1>1, <1>2, <1>3, <2>1 DEF IsLast
  <2>5. IsFirst(C, x) <=> IsFirst(B, x)
    BY <1>1, <1>2, <1>3, <2>1 DEF IsFirst
  <2> QED
    BY <2>2, <2>3, <2>4, <2>5
<1>5. ASSUME NEW x \in C, NEW y \in C, x # q, y # q
      PROVE  Follows(C, x, y) <=> Follows(B, x, y)
  BY <1>1, <1>2, <1>3, <1>5 DEF Follows
<1>6. IsLast(C, q) <=> IsLast(B, p)
  BY <1>1, <1>2, <1>3 DEF IsLast
<1>7. IsFirst(C, q) <=> IsFirst(B, p)
  BY <1>1, <1>2, <1>3 DEF IsFirst
<1> QED
  BY <1>1, <1>4, <1>5, <1>6, <1>7 DEF MovedOrder

LEMMA LinksMoved ==
    ASSUME NEW n, NEW c, NEW B \in SUBSET Int, NEW p \in B, NEW q \in Int, p < q,
           \A x \in B : x <= p \/ q < x, NEW C, C = (B \ {p}) \cup {q},
           NEW nx, Linked(nx, n, c, B), NEW f, IsMoved(nx, f, n, c, B, p, q),
           NEW pr, BackLinked(pr, n, c, B), NEW g, IsBackMoved(pr, g, n, c, B, p, q)
    PROVE  Linked(f, n, c, C) /\ BackLinked(g, n, c, C)
<1>1. /\ \A x \in C : x # q => x \in B /\ x # p
      /\ \A x \in C : x # q => /\ Follows(C, q, x) <=> Follows(B, p, x)
                               /\ Follows(C, x, q) <=> Follows(B, x, p)
                               /\ IsLast(C, x) <=> IsLast(B, x)
      /\ \A x, y \in C : x # q /\ y # q => (Follows(C, x, y) <=> Follows(B, x, y))
      /\ IsLast(C, q) <=> IsLast(B, p)
  <2>1. MovedOrder(B, C, p, q)
    BY FollowsMoved
  <2> QED
    BY <2>1 DEF MovedOrder
<1>2. /\ \A b \in B : IsLast(B, b) => nx[c[b]] = Nil
      /\ \A b, d \in B : Follows(B, b, d) => nx[c[b]] = c[d]
      /\ \A b, d \in B : Follows(B, b, d) => pr[c[d]] = c[b]
  BY DEF Linked, BackLinked
<1>3. /\ f \in Links(n) /\ f[c[q]] = nx[c[p]]
      /\ \A b \in B : b # p => f[c[b]] = IF Follows(B, b, p) THEN c[q] ELSE nx[c[b]]
  BY DEF IsMoved
<1>4. /\ g \in Links(n) /\ g[c[q]] = pr[c[p]]
      /\ \A d \in B : d # p => g[c[d]] = IF Follows(B, p, d) THEN c[q] ELSE pr[c[d]]
  BY DEF IsBackMoved
<1>5. \A x, y \in C : Follows(C, x, y) => ~(x = q /\ y = q)
  BY DEF Follows
<1>6. \A b \in B : IsLast(B, b) => ~Follows(B, b, p)
  BY DEF IsLast, Follows
<1>7. ASSUME NEW x \in C, IsLast(C, x) PROVE f[c[x]] = Nil
  BY <1>1, <1>2, <1>3, <1>6, <1>7
<1>8. ASSUME NEW x \in C, NEW y \in C, Follows(C, x, y) PROVE f[c[x]] = c[y]
  <2>1. CASE x = q
    BY <1>1, <1>2, <1>3, <1>5, <1>8, <2>1
  <2>2. CASE y = q
    BY <1>1, <1>2, <1>3, <1>5, <1>8, <2>2
  <2>3. CASE x # q /\ y # q
    <3>1. Follows(B, x, y) /\ x \in B /\ y \in B /\ x # p /\ y # p
      BY <1>1, <1>8, <2>3
    <3>2. ~Follows(B, x, p)
      BY <3>1, FollowsOne
    <3> QED
      BY <1>2, <1>3, <3>1, <3>2
  <2> QED
    BY <2>1, <2>2, <2>3
<1>9. ASSUME NEW x \in C, NEW y \in C, Follows(C, x, y) PROVE g[c[y]] = c[x]
  <2>1. CASE x = q
    BY <1>1, <1>2, <1>4, <1>5, <1>9, <2>1
  <2>2. CASE y = q
    BY <1>1, <1>2, <1>4, <1>5, <1>9, <2>2
  <2>3. CASE x # q /\ y # q
    <3>1. Follows(B, x, y) /\ x \in B /\ y \in B /\ x # p /\ y # p
      BY <1>1, <1>9, <2>3
    <3>2. ~Follows(B, p, y)
      BY <3>1, FollowsOne
    <3> QED
      BY <1>2, <1>4, <3>1, <3>2
  <2> QED
    BY <2>1, <2>2, <2>3
<1>10. Linked(f, n, c, C)
  BY <1>3, <1>7, <1>8 DEF Linked, Links
<1>11. BackLinked(g, n, c, C)
  BY <1>4, <1>9 DEF BackLinked
<1> QED
  BY <1>10, <1>11

-----------------------------------------------------------------------------
(* The receiver's list as a set of nodes.                                  *)

RcvLists ==
    [data1 : [RcvSlots -> SeqNos \cup {Nil}], data2 : [RcvSlots -> SeqNos \cup {Nil}],
     next : Links(RcvListSize), prior : Links(RcvListSize),
     head : RcvSlots \cup {Nil}, tail : RcvSlots \cup {Nil}, length : Int]

RcvWindow(w, c, lo, hi) == Window(RcvListSize, w, c, lo, hi)

RcvBody(l, w, c, B, E, lo, hi) ==
    /\ l \in RcvLists
    /\ Spans(B, E, lo, hi) /\ Apart(B, E)
    /\ Stored(l.data1, l.data2, RcvListSize, w, c, B, E)
    /\ Linked(l.next, RcvListSize, c, B) /\ BackLinked(l.prior, RcvListSize, c, B)
    /\ HeadIs(l.head, c, B) /\ TailIs(l.tail, c, B)

RcvRep(l, w, c, B, E, lo, hi) ==
    RcvBody(l, w, c, B, E, lo, hi) /\ l.length = Cardinality(Covered(B, E))

\* The list holds the numbers of the positions S.
RcvHolds(l, w, S, lo, hi) ==
    \E c, B, E : /\ RcvWindow(w, c, lo, hi) /\ RcvRep(l, w, c, B, E, lo, hi)
                 /\ Covered(B, E) = S

LEMMA RcvFields ==
    ASSUME NEW l \in RcvLists
    PROVE  /\ l.data1 \in [RcvSlots -> SeqNos \cup {Nil}]
           /\ l.data2 \in [RcvSlots -> SeqNos \cup {Nil}]
           /\ l.next \in [RcvSlots -> RcvSlots \cup {Nil}]
           /\ l.prior \in [RcvSlots -> RcvSlots \cup {Nil}]
           /\ l.next \in Links(RcvListSize) /\ l.prior \in Links(RcvListSize)
           /\ l.head \in RcvSlots \cup {Nil} /\ l.tail \in RcvSlots \cup {Nil}
           /\ l.length \in Int
BY DEF RcvLists, Links, RcvSlots

LEMMA RcvBodyFacts ==
    ASSUME NEW l, NEW w, NEW c, NEW B, NEW E, NEW lo, NEW hi,
           RcvWindow(w, c, lo, hi), RcvBody(l, w, c, B, E, lo, hi)
    PROVE  /\ l \in RcvLists /\ Spans(B, E, lo, hi) /\ Apart(B, E)
           /\ Stored(l.data1, l.data2, RcvListSize, w, c, B, E)
           /\ Linked(l.next, RcvListSize, c, B) /\ BackLinked(l.prior, RcvListSize, c, B)
           /\ HeadIs(l.head, c, B) /\ TailIs(l.tail, c, B)
           /\ B \in SUBSET (lo .. hi) /\ B \in SUBSET Int /\ E \in [Int -> Int]
           /\ lo \in Int /\ hi \in Int /\ Window(RcvListSize, w, c, lo, hi)
           /\ w \in Wires /\ c \in Rings(RcvListSize) /\ hi - lo < RcvListSize
           /\ RcvListSize \in Nat \ {0} /\ RcvListSize <= SeqNoTH /\ SeqNoTH \in Int
           /\ RcvListSize <= MaxSeqNo /\ MaxSeqNo \in Int
BY SeqNoAssumption DEF RcvBody, Spans, RcvWindow, Window

LEMMA RcvRepFacts ==
    ASSUME NEW l, NEW w, NEW c, NEW B, NEW E, NEW lo, NEW hi,
           RcvWindow(w, c, lo, hi), RcvRep(l, w, c, B, E, lo, hi)
    PROVE  /\ RcvBody(l, w, c, B, E, lo, hi) /\ l.length = Cardinality(Covered(B, E))
           /\ l.length = 0 <=> B = {}
           /\ l.length \in Nat
<1>1. /\ RcvBody(l, w, c, B, E, lo, hi) /\ l.length = Cardinality(Covered(B, E))
  BY DEF RcvRep
<1>2. Spans(B, E, lo, hi) /\ lo \in Int /\ hi \in Int
  BY <1>1, RcvBodyFacts
<1>3. Cardinality(Covered(B, E)) \in Nat
  BY <1>2, CoveredFinite
<1>4. Cardinality(Covered(B, E)) = 0 <=> B = {}
  BY <1>2, CoveredNone
<1> QED
  BY <1>1, <1>3, <1>4

LEMMA RcvNode ==
    ASSUME NEW l, NEW w, NEW c, NEW B, NEW E, NEW lo, NEW hi,
           RcvWindow(w, c, lo, hi), RcvBody(l, w, c, B, E, lo, hi), NEW b \in B
    PROVE  /\ b \in lo .. hi /\ E[b] \in lo .. hi /\ b <= E[b] /\ b \in Int /\ E[b] \in Int
           /\ c[b] \in RcvSlots /\ c[b] # Nil
           /\ l.data1[c[b]] = w[b]
           /\ l.data2[c[b]] = Nil <=> E[b] = b
           /\ l.data2[c[b]] # Nil => l.data2[c[b]] = w[E[b]]
<1>1. b \in lo .. hi /\ E[b] \in lo .. hi /\ b <= E[b] /\ b \in Int /\ E[b] \in Int
  BY DEF RcvBody, Spans, RcvWindow, Window
<1>2. w[E[b]] # Nil
  BY <1>1, WindowFacts DEF RcvWindow
<1>3. c[b] \in RcvSlots /\ c[b] # Nil
  BY <1>1, WindowFacts DEF RcvWindow, RcvSlots
<1>4. l.data1[c[b]] = w[b] /\ l.data2[c[b]] = LastData(w, b, E[b])
  BY DEF RcvBody, Stored
<1> QED
  BY <1>1, <1>2, <1>3, <1>4 DEF LastData

\* Slots without a node are empty.
LEMMA RcvEmpty ==
    ASSUME NEW l, NEW w, NEW c, NEW B, NEW E, NEW lo, NEW hi,
           RcvWindow(w, c, lo, hi), RcvBody(l, w, c, B, E, lo, hi),
           NEW p \in lo .. hi
    PROVE  /\ c[p] \in RcvSlots
           /\ p \notin B => l.data1[c[p]] = Nil /\ l.data2[c[p]] = Nil
<1>1. /\ Stored(l.data1, l.data2, RcvListSize, w, c, B, E) /\ B \in SUBSET (lo .. hi)
      /\ Window(RcvListSize, w, c, lo, hi)
  BY RcvBodyFacts
<1>2. c[p] \in 0 .. RcvListSize - 1 /\ \A b \in B : c[b] = c[p] => b = p
  BY <1>1, WindowFacts
<1> QED
  BY <1>1, <1>2 DEF Stored, RcvSlots

\* Different positions have different slots.
LEMMA RcvSlotsDiffer ==
    ASSUME NEW w, NEW c, NEW lo, NEW hi, RcvWindow(w, c, lo, hi),
           NEW x \in lo .. hi, NEW y \in lo .. hi, x # y
    PROVE  c[x] # c[y]
BY WindowFacts DEF RcvWindow

\* The head is the first node, and its number says where the others are.
RcvHeadIs(l, w, c, B, h, lo, hi) ==
    /\ IsFirst(B, h) /\ l.head = c[h] /\ l.data1[l.head] = w[h]
    /\ \A p \in lo .. hi : SeqOff(l.data1[l.head], w[p]) = p - h
    /\ \A p \in lo .. hi : h <= p =>
         (l.head + SeqOff(l.data1[l.head], w[p])) % RcvListSize = c[p]

LEMMA RcvHead ==
    ASSUME NEW l, NEW w, NEW c, NEW B, NEW E, NEW lo, NEW hi,
           RcvWindow(w, c, lo, hi), RcvBody(l, w, c, B, E, lo, hi), B # {}
    PROVE  \E h \in B : RcvHeadIs(l, w, c, B, h, lo, hi)
<1>1. /\ HeadIs(l.head, c, B) /\ B \in SUBSET (lo .. hi)
      /\ lo \in Int /\ hi \in Int /\ Window(RcvListSize, w, c, lo, hi)
      /\ hi - lo < RcvListSize /\ RcvListSize <= SeqNoTH /\ SeqNoTH \in Int
      /\ RcvListSize \in Nat \ {0} /\ w \in Wires /\ c \in Rings(RcvListSize)
  BY RcvBodyFacts
<1>2. PICK h \in B : IsFirst(B, h)
  BY <1>1, LeastInt
<1>3. l.head = c[h] /\ l.data1[l.head] = w[h] /\ h \in Int /\ h \in lo .. hi
  BY <1>1, <1>2, RcvNode DEF HeadIs
<1>4. ASSUME NEW p \in lo .. hi
      PROVE  /\ SeqOff(l.data1[l.head], w[p]) = p - h
             /\ h <= p => (l.head + SeqOff(l.data1[l.head], w[p])) % RcvListSize = c[p]
  <2>2. /\ p \in Int /\ p - h < RcvListSize /\ h - p < RcvListSize
        /\ p - h < SeqNoTH /\ h - p < SeqNoTH
    BY <1>1, <1>3
  <2>3. SeqOff(w[h], w[p]) = p - h
    BY <1>1, <1>3, <2>2, WireOffset
  <2>4. h <= p => (c[h] + (p - h)) % RcvListSize = c[p]
    BY <1>1, <1>3, <2>2, RingOffset
  <2> QED
    BY <1>3, <2>3, <2>4
<1> QED
  BY <1>2, <1>3, <1>4 DEF RcvHeadIs

\* m is l without p.
RcvLoses(m, w, c, B, E, p, lo, hi) ==
    \E C, F : /\ RcvBody(m, w, c, C, F, lo, hi)
              /\ \A x : x \in Covered(C, F) <=> x \in Covered(B, E) /\ x # p

LEMMA RcvLost ==
    ASSUME NEW l, NEW w, NEW c, NEW B, NEW E, NEW lo, NEW hi,
           RcvWindow(w, c, lo, hi), RcvRep(l, w, c, B, E, lo, hi), NEW p \in Covered(B, E),
           NEW m, RcvLoses(m, w, c, B, E, p, lo, hi), m.length = l.length - 1,
           NEW T, \A x : x \in T <=> x \in Covered(B, E) /\ x # p
    PROVE  RcvHolds(m, w, T, lo, hi)
<1>1. PICK C, F : /\ RcvBody(m, w, c, C, F, lo, hi)
                  /\ \A x : x \in Covered(C, F) <=> x \in Covered(B, E) /\ x # p
  BY DEF RcvLoses
<1>2. Covered(C, F) = T
  BY <1>1
<1>3. Covered(C, F) = Covered(B, E) \ {p}
  BY <1>1
<1>4. IsFiniteSet(Covered(B, E)) /\ Cardinality(Covered(B, E)) \in Nat
  BY RcvRepFacts, RcvBodyFacts, CoveredFinite
<1>5. Cardinality(Covered(C, F)) = Cardinality(Covered(B, E)) - 1
  BY <1>3, <1>4, FS_RemoveElement
<1>6. RcvRep(m, w, c, C, F, lo, hi)
  BY <1>1, <1>5 DEF RcvRep
<1> QED
  BY <1>1, <1>2, <1>6 DEF RcvHolds

\* Where the links of node b lead.
NodeLinks(l, c, B, b) ==
    /\ l.head = c[b] <=> IsFirst(B, b)
    /\ l.tail = c[b] <=> IsLast(B, b)
    /\ IsFirst(B, b) \/ \E a \in B : Follows(B, a, b) /\ l.prior[c[b]] = c[a]
    /\ \/ IsLast(B, b) /\ l.next[c[b]] = Nil
       \/ \E d \in B : Follows(B, b, d) /\ l.next[c[b]] = c[d] /\ l.next[c[b]] # Nil

LEMMA RcvLinks ==
    ASSUME NEW l, NEW w, NEW c, NEW B, NEW E, NEW lo, NEW hi,
           RcvWindow(w, c, lo, hi), RcvBody(l, w, c, B, E, lo, hi), NEW b \in B
    PROVE  NodeLinks(l, c, B, b)
<1>1. /\ Linked(l.next, RcvListSize, c, B) /\ BackLinked(l.prior, RcvListSize, c, B)
      /\ HeadIs(l.head, c, B) /\ TailIs(l.tail, c, B) /\ B \in SUBSET (lo .. hi)
      /\ lo \in Int /\ hi \in Int /\ Window(RcvListSize, w, c, lo, hi)
  BY RcvBodyFacts
<1>2. \A x, y \in B : c[x] = c[y] => x = y
  BY <1>1, WindowFacts
<1>3. l.head = c[b] <=> IsFirst(B, b)
  <2>1. PICK h \in B : IsFirst(B, h)
    BY <1>1, LeastInt
  <2>2. l.head = c[h]
    BY <1>1, <2>1 DEF HeadIs
  <2> QED
    BY <1>1, <1>2, <2>1, <2>2 DEF HeadIs
<1>4. l.tail = c[b] <=> IsLast(B, b)
  <2>1. PICK h \in B : IsLast(B, h)
    BY <1>1, GreatestInt
  <2>2. l.tail = c[h]
    BY <1>1, <2>1 DEF TailIs
  <2> QED
    BY <1>1, <1>2, <2>1, <2>2 DEF TailIs
<1>5. IsFirst(B, b) \/ \E a \in B : Follows(B, a, b) /\ l.prior[c[b]] = c[a]
  <2>1. SUFFICES ASSUME ~IsFirst(B, b)
                 PROVE  \E a \in B : Follows(B, a, b) /\ l.prior[c[b]] = c[a]
    OBVIOUS
  <2>2. \A x \in B : x \in Int
    BY <1>1
  <2>3. PICK z \in B : z < b
    BY <2>1, <2>2 DEF IsFirst
  <2>4. PICK a \in B : Below(B, a, b)
    BY <1>1, <2>2, <2>3, NodeBelow
  <2>5. Follows(B, a, b)
    BY <2>4 DEF Follows, Below
  <2> QED
    BY <1>1, <2>5 DEF BackLinked
<1>6. \/ IsLast(B, b) /\ l.next[c[b]] = Nil
      \/ \E d \in B : Follows(B, b, d) /\ l.next[c[b]] = c[d] /\ l.next[c[b]] # Nil
  BY <1>1, LinkIs
<1> QED
  BY <1>3, <1>4, <1>5, <1>6 DEF NodeLinks

\* What node p takes with it.
LEMMA CoveredLess ==
    ASSUME NEW lo \in Int, NEW hi \in Int, NEW B, NEW E, Spans(B, E, lo, hi), Apart(B, E),
           NEW p \in B, E[p] = p
    PROVE  /\ \A x : x \in Covered(B \ {p}, E) <=> x \in Covered(B, E) /\ x # p
           /\ Spans(B \ {p}, E, lo, hi) /\ Apart(B \ {p}, E)
<1>1. /\ Covered(B, E) = Covered(B \ {p}, E) \cup (p .. E[p])
      /\ \A x \in p .. E[p] : x \notin Covered(B \ {p}, E)
  BY CoveredNode
<1>2. p \in Int /\ p .. E[p] = {p}
  BY DEF Spans
<1>3. \A x : x \in Covered(B \ {p}, E) <=> x \in Covered(B, E) /\ x # p
  BY <1>1, <1>2
<1>4. Spans(B \ {p}, E, lo, hi) /\ Apart(B \ {p}, E)
  BY DEF Spans, Apart
<1> QED
  BY <1>3, <1>4

\* What m is after node loc of l has left.
IsUnlinked(l, m, loc) ==
    /\ m \in RcvLists /\ m.length = l.length /\ m.data2 = l.data2
    /\ m.data1 = [l.data1 EXCEPT ![loc] = Nil]
    /\ m.prior = IF l.next[loc] = Nil THEN [l.prior EXCEPT ![loc] = Nil]
                 ELSE [l.prior EXCEPT ![loc] = Nil,
                          ![l.next[loc]] = IF loc = l.head THEN Nil ELSE l.prior[loc]]
    /\ m.next = IF loc = l.head THEN [l.next EXCEPT ![loc] = Nil]
                ELSE [l.next EXCEPT ![loc] = Nil, ![l.prior[loc]] = l.next[loc]]
    /\ m.head = IF loc = l.head THEN l.next[loc] ELSE l.head
    /\ m.tail = IF loc # l.head /\ l.next[loc] = Nil THEN l.prior[loc] ELSE l.tail

LEMMA UnlinkFields ==
    ASSUME NEW l \in RcvLists, NEW loc \in RcvSlots
    PROVE  IsUnlinked(l, Unlink(l, loc), loc)
<1>1. /\ l.data1 \in [RcvSlots -> SeqNos \cup {Nil}]
      /\ l.data2 \in [RcvSlots -> SeqNos \cup {Nil}]
      /\ l.next \in [RcvSlots -> RcvSlots \cup {Nil}]
      /\ l.prior \in [RcvSlots -> RcvSlots \cup {Nil}]
      /\ l.head \in RcvSlots \cup {Nil} /\ l.tail \in RcvSlots \cup {Nil}
      /\ l.length \in Int
  BY RcvFields
<1> DEFINE d1 == [l.data1 EXCEPT ![loc] = Nil]
           pr == IF l.next[loc] = Nil THEN [l.prior EXCEPT ![loc] = Nil]
                 ELSE [l.prior EXCEPT ![loc] = Nil,
                          ![l.next[loc]] = IF loc = l.head THEN Nil ELSE l.prior[loc]]
           nx == IF loc = l.head THEN [l.next EXCEPT ![loc] = Nil]
                 ELSE [l.next EXCEPT ![loc] = Nil, ![l.prior[loc]] = l.next[loc]]
           hd == IF loc = l.head THEN l.next[loc] ELSE l.head
           tl == IF loc # l.head /\ l.next[loc] = Nil THEN l.prior[loc] ELSE l.tail
<1>2. /\ d1 \in [RcvSlots -> SeqNos \cup {Nil}]
      /\ pr \in [RcvSlots -> RcvSlots \cup {Nil}] /\ nx \in [RcvSlots -> RcvSlots \cup {Nil}]
      /\ hd \in RcvSlots \cup {Nil} /\ tl \in RcvSlots \cup {Nil}
  BY <1>1
<1>3. PICK m : m = Unlink(l, loc)
  OBVIOUS
<1>4. m = [l EXCEPT !.data1 = d1, !.next = nx, !.prior = pr, !.head = hd, !.tail = tl]
  <2>1. CASE loc = l.head
    BY <1>1, <1>3, <2>1 DEF Unlink, RcvLists
  <2>2. CASE loc # l.head
    BY <1>1, <1>3, <2>2 DEF Unlink, RcvLists
  <2> QED
    BY <2>1, <2>2
<1> HIDE DEF d1, pr, nx, hd, tl
<1>5. /\ m \in RcvLists /\ m.length = l.length /\ m.data2 = l.data2
      /\ m.data1 = d1 /\ m.next = nx /\ m.prior = pr /\ m.head = hd /\ m.tail = tl
  BY <1>1, <1>2, <1>4 DEF RcvLists, Links, RcvSlots
<1> QED
  BY <1>3, <1>5 DEF IsUnlinked, d1, pr, nx, hd, tl

\* A slot that is empty already is emptied.
LEMMA StoredWithout ==
    ASSUME NEW n, NEW w, NEW c, NEW lo, NEW hi, Window(n, w, c, lo, hi),
           NEW B \in SUBSET (lo .. hi), NEW E \in [Int -> Int], NEW p \in B, E[p] = p,
           NEW d1, NEW d2, Stored(d1, d2, n, w, c, B, E),
           NEW f1, f1 = [d1 EXCEPT ![c[p]] = Nil]
    PROVE  Stored(f1, d2, n, w, c, B \ {p}, E)
<1>1. d2 \in [0 .. n - 1 -> SeqNos \cup {Nil}] /\ d2[c[p]] = Nil
  BY DEF Stored, LastData
<1>2. PICK f2 : f2 = [d2 EXCEPT ![c[p]] = Nil]
  OBVIOUS
<1>3. f2 = d2
  BY <1>1, <1>2
<1>4. p \in lo .. hi
  OBVIOUS
<1>5. Stored(f1, f2, n, w, c, B \ {p}, E)
  BY <1>2, <1>4, StoredDelete
<1> QED
  BY <1>3, <1>5

LEMMA UnlinkedFirst ==
    ASSUME NEW l, NEW w, NEW c, NEW B, NEW E, NEW lo, NEW hi,
           RcvWindow(w, c, lo, hi), RcvBody(l, w, c, B, E, lo, hi),
           NEW p \in B, E[p] = p, IsFirst(B, p), NEW m, IsUnlinked(l, m, c[p])
    PROVE  RcvBody(m, w, c, B \ {p}, E, lo, hi)
<1>1. /\ l \in RcvLists /\ Spans(B, E, lo, hi) /\ Apart(B, E)
      /\ Stored(l.data1, l.data2, RcvListSize, w, c, B, E)
      /\ Linked(l.next, RcvListSize, c, B) /\ BackLinked(l.prior, RcvListSize, c, B)
      /\ TailIs(l.tail, c, B)
      /\ B \in SUBSET (lo .. hi) /\ B \in SUBSET Int /\ E \in [Int -> Int]
      /\ lo \in Int /\ hi \in Int /\ Window(RcvListSize, w, c, lo, hi)
  BY RcvBodyFacts
<1>2. \A b \in B : c[b] \in RcvSlots /\ c[b] # Nil
  BY RcvNode
<1>3. \A x, y \in B : c[x] = c[y] => x = y
  BY <1>1, WindowFacts
<1>4. NodeLinks(l, c, B, p)
  BY RcvLinks
<1>5. /\ l.head = c[p]
      /\ \/ IsLast(B, p) /\ l.next[c[p]] = Nil
         \/ \E d \in B : Follows(B, p, d) /\ l.next[c[p]] = c[d] /\ l.next[c[p]] # Nil
  BY <1>4 DEF NodeLinks
<1>6. /\ m \in RcvLists /\ m.data2 = l.data2 /\ m.data1 = [l.data1 EXCEPT ![c[p]] = Nil]
      /\ m.prior = IF l.next[c[p]] = Nil THEN [l.prior EXCEPT ![c[p]] = Nil]
                   ELSE [l.prior EXCEPT ![c[p]] = Nil, ![l.next[c[p]]] = Nil]
      /\ m.next = [l.next EXCEPT ![c[p]] = Nil]
      /\ m.head = l.next[c[p]] /\ m.tail = l.tail
  BY <1>5 DEF IsUnlinked
<1>7. Spans(B \ {p}, E, lo, hi) /\ Apart(B \ {p}, E)
  BY <1>1, CoveredLess
<1>8. Stored(m.data1, m.data2, RcvListSize, w, c, B \ {p}, E)
  <2>1. PICK d1, d2, f1 : d1 = l.data1 /\ d2 = l.data2 /\ f1 = m.data1
    OBVIOUS
  <2>2. Stored(d1, d2, RcvListSize, w, c, B, E) /\ f1 = [d1 EXCEPT ![c[p]] = Nil]
    BY <1>1, <1>6, <2>1
  <2>3. Stored(f1, d2, RcvListSize, w, c, B \ {p}, E)
    BY <1>1, <2>2, StoredWithout
  <2> QED
    BY <1>6, <2>1, <2>3
<1>9. Linked(m.next, RcvListSize, c, B \ {p}) /\ HeadIs(m.head, c, B \ {p})
  <2>1. PICK nx, f : nx = l.next /\ f = m.next
    OBVIOUS
  <2>2. f = [nx EXCEPT ![c[p]] = Nil] /\ Linked(nx, RcvListSize, c, B)
    BY <1>1, <1>6, <2>1
  <2>3. Linked(f, RcvListSize, c, B \ {p}) /\ HeadIs(nx[c[p]], c, B \ {p})
    BY <1>1, <2>2, UnlinkFirst
  <2> QED
    BY <1>6, <2>1, <2>3
<1>10. BackLinked(m.prior, RcvListSize, c, B \ {p})
  <2>1. m.prior \in Links(RcvListSize) /\ l.prior \in [RcvSlots -> RcvSlots \cup {Nil}]
    BY <1>1, <1>6, RcvFields
  <2>2. \A b \in B : ~Follows(B, b, p)
    BY <1>1 DEF Follows, IsFirst
  <2>3. ASSUME NEW d \in B, d # p, ~Follows(B, p, d) PROVE m.prior[c[d]] = l.prior[c[d]]
    <3>1. c[d] # c[p] /\ c[d] \in RcvSlots
      BY <1>2, <1>3, <2>3
    <3>2. c[d] # l.next[c[p]]
      BY <1>2, <1>3, <1>5, <2>3
    <3> QED
      BY <1>6, <2>1, <3>1, <3>2
  <2>4. IsBackRemoved(l.prior, m.prior, RcvListSize, c, B, p)
    BY <2>1, <2>2, <2>3 DEF IsBackRemoved
  <2>5. PICK pr, f : pr = l.prior /\ f = m.prior
    OBVIOUS
  <2>6. BackLinked(f, RcvListSize, c, B \ {p})
    BY <1>1, <2>4, <2>5, BackRemove
  <2> QED
    BY <2>5, <2>6
<1>11. TailIs(m.tail, c, B \ {p})
  <2>1. \A b \in B \ {p} : IsLast(B \ {p}, b) => IsLast(B, b)
    BY <1>1 DEF IsFirst, IsLast
  <2> QED
    BY <1>1, <1>6, <2>1 DEF TailIs
<1> QED
  BY <1>6, <1>7, <1>8, <1>9, <1>10, <1>11 DEF RcvBody

LEMMA UnlinkedLater ==
    ASSUME NEW l, NEW w, NEW c, NEW B, NEW E, NEW lo, NEW hi,
           RcvWindow(w, c, lo, hi), RcvBody(l, w, c, B, E, lo, hi),
           NEW p \in B, E[p] = p, ~IsFirst(B, p), NEW m, IsUnlinked(l, m, c[p])
    PROVE  RcvBody(m, w, c, B \ {p}, E, lo, hi)
<1>1. /\ l \in RcvLists /\ Spans(B, E, lo, hi) /\ Apart(B, E)
      /\ Stored(l.data1, l.data2, RcvListSize, w, c, B, E)
      /\ Linked(l.next, RcvListSize, c, B) /\ BackLinked(l.prior, RcvListSize, c, B)
      /\ HeadIs(l.head, c, B) /\ TailIs(l.tail, c, B)
      /\ B \in SUBSET (lo .. hi) /\ B \in SUBSET Int /\ E \in [Int -> Int]
      /\ lo \in Int /\ hi \in Int /\ Window(RcvListSize, w, c, lo, hi)
  BY RcvBodyFacts
<1>2. \A b \in B : c[b] \in RcvSlots /\ c[b] # Nil
  BY RcvNode
<1>3. \A x, y \in B : c[x] = c[y] => x = y
  BY <1>1, WindowFacts
<1>4. NodeLinks(l, c, B, p)
  BY RcvLinks
<1>5. /\ l.head # c[p]
      /\ \/ IsLast(B, p) /\ l.next[c[p]] = Nil
         \/ \E d \in B : Follows(B, p, d) /\ l.next[c[p]] = c[d] /\ l.next[c[p]] # Nil
  BY <1>4 DEF NodeLinks
<1>6. PICK a \in B : Follows(B, a, p) /\ l.prior[c[p]] = c[a]
  BY <1>4 DEF NodeLinks
<1>7. /\ m \in RcvLists /\ m.data2 = l.data2 /\ m.data1 = [l.data1 EXCEPT ![c[p]] = Nil]
      /\ m.prior = IF l.next[c[p]] = Nil THEN [l.prior EXCEPT ![c[p]] = Nil]
                   ELSE [l.prior EXCEPT ![c[p]] = Nil, ![l.next[c[p]]] = c[a]]
      /\ m.next = [l.next EXCEPT ![c[p]] = Nil, ![c[a]] = l.next[c[p]]]
      /\ m.head = l.head
      /\ m.tail = IF l.next[c[p]] = Nil THEN c[a] ELSE l.tail
  BY <1>5, <1>6 DEF IsUnlinked
<1>8. Spans(B \ {p}, E, lo, hi) /\ Apart(B \ {p}, E)
  BY <1>1, CoveredLess
<1>9. a < p /\ a \in B \ {p} /\ a \in Int /\ p \in Int /\ \A x \in B : x <= a \/ p <= x
  BY <1>1, <1>6 DEF Follows
<1>10. Stored(m.data1, m.data2, RcvListSize, w, c, B \ {p}, E)
  <2>1. PICK d1, d2, f1 : d1 = l.data1 /\ d2 = l.data2 /\ f1 = m.data1
    OBVIOUS
  <2>2. Stored(d1, d2, RcvListSize, w, c, B, E) /\ f1 = [d1 EXCEPT ![c[p]] = Nil]
    BY <1>1, <1>7, <2>1
  <2>3. Stored(f1, d2, RcvListSize, w, c, B \ {p}, E)
    BY <1>1, <2>2, StoredWithout
  <2> QED
    BY <1>7, <2>1, <2>3
<1>11. Linked(m.next, RcvListSize, c, B \ {p})
  <2>1. PICK nx, f : nx = l.next /\ f = m.next
    OBVIOUS
  <2>2. /\ nx \in [RcvSlots -> RcvSlots \cup {Nil}] /\ Linked(nx, RcvListSize, c, B)
        /\ f = [nx EXCEPT ![c[p]] = Nil, ![c[a]] = nx[c[p]]]
    BY <1>1, <1>7, <2>1, RcvFields
  <2>3. c[a] # c[p]
    BY <1>3, <1>9
  <2>4. f = [nx EXCEPT ![c[a]] = nx[c[p]], ![c[p]] = Nil]
    BY <1>2, <2>2, <2>3
  <2>5. Linked(f, RcvListSize, c, B \ {p})
    BY <1>1, <1>6, <2>2, <2>4, UnlinkAfter
  <2> QED
    BY <2>1, <2>5
<1>12. HeadIs(m.head, c, B \ {p})
  <2>1. \A b \in B \ {p} : IsFirst(B \ {p}, b) => IsFirst(B, b)
    BY <1>1, <1>9 DEF IsFirst
  <2> QED
    BY <1>1, <1>7, <1>9, <2>1 DEF HeadIs
<1>13. BackLinked(m.prior, RcvListSize, c, B \ {p})
  <2>1. m.prior \in Links(RcvListSize) /\ l.prior \in [RcvSlots -> RcvSlots \cup {Nil}]
    BY <1>1, <1>7, RcvFields
  <2>2. ASSUME NEW b \in B, NEW d \in B, Follows(B, b, p), Follows(B, p, d)
        PROVE  m.prior[c[d]] = c[b]
    <3>1. b = a
      BY <1>1, <1>6, <2>2, FollowsOne
    <3>2. l.next[c[p]] = c[d]
      BY <1>1, <2>2 DEF Linked
    <3> QED
      BY <1>2, <1>7, <2>1, <3>1, <3>2
  <2>3. ASSUME NEW d \in B, d # p, ~Follows(B, p, d) PROVE m.prior[c[d]] = l.prior[c[d]]
    <3>1. c[d] # c[p] /\ c[d] \in RcvSlots
      BY <1>2, <1>3, <2>3
    <3>2. c[d] # l.next[c[p]]
      BY <1>2, <1>3, <1>5, <2>3
    <3> QED
      BY <1>7, <2>1, <3>1, <3>2
  <2>4. IsBackRemoved(l.prior, m.prior, RcvListSize, c, B, p)
    BY <2>1, <2>2, <2>3 DEF IsBackRemoved
  <2>5. PICK pr, f : pr = l.prior /\ f = m.prior
    OBVIOUS
  <2>6. BackLinked(f, RcvListSize, c, B \ {p})
    BY <1>1, <2>4, <2>5, BackRemove
  <2> QED
    BY <2>5, <2>6
<1>14. TailIs(m.tail, c, B \ {p})
  <2>1. CASE l.next[c[p]] = Nil
    <3>1. IsLast(B, p)
      BY <1>5, <2>1
    <3>2. \A b \in B \ {p} : IsLast(B \ {p}, b) => b = a
      BY <1>1, <1>9, <3>1 DEF IsLast
    <3> QED
      BY <1>7, <2>1, <3>2 DEF TailIs
  <2>2. CASE l.next[c[p]] # Nil
    <3>1. PICK d \in B : Follows(B, p, d)
      BY <1>5, <2>2
    <3>2. \A b \in B \ {p} : IsLast(B \ {p}, b) => IsLast(B, b)
      BY <1>1, <3>1 DEF IsLast, Follows
    <3> QED
      BY <1>1, <1>7, <2>2, <3>2 DEF TailIs
  <2> QED
    BY <2>1, <2>2
<1> QED
  BY <1>7, <1>8, <1>10, <1>11, <1>12, <1>13, <1>14 DEF RcvBody

\* A node of one number leaves the list.
LEMMA UnlinkLoses ==
    ASSUME NEW l, NEW w, NEW c, NEW B, NEW E, NEW lo, NEW hi,
           RcvWindow(w, c, lo, hi), RcvBody(l, w, c, B, E, lo, hi), NEW p \in B, E[p] = p
    PROVE  /\ RcvLoses(Unlink(l, c[p]), w, c, B, E, p, lo, hi)
           /\ Unlink(l, c[p]).length = l.length
<1>1. /\ l \in RcvLists /\ Spans(B, E, lo, hi) /\ Apart(B, E) /\ lo \in Int /\ hi \in Int
  BY RcvBodyFacts
<1>2. c[p] \in RcvSlots
  BY RcvNode
<1>3. IsUnlinked(l, Unlink(l, c[p]), c[p])
  BY <1>1, <1>2, UnlinkFields
<1>4. RcvBody(Unlink(l, c[p]), w, c, B \ {p}, E, lo, hi)
  BY <1>3, UnlinkedFirst, UnlinkedLater
<1>5. \A x : x \in Covered(B \ {p}, E) <=> x \in Covered(B, E) /\ x # p
  BY <1>1, CoveredLess
<1>6. Unlink(l, c[p]).length = l.length
  BY <1>3 DEF IsUnlinked
<1> QED
  BY <1>4, <1>5, <1>6 DEF RcvLoses

\* What m is after the links of l at loc have moved to i.
IsRelinked(l, m, loc, i) ==
    /\ m \in RcvLists /\ m.length = l.length /\ m.data1 = l.data1 /\ m.data2 = l.data2
    /\ m.next = IF loc = l.head
                  THEN [l.next EXCEPT ![i] = l.next[loc], ![loc] = Nil]
                  ELSE [l.next EXCEPT ![i] = l.next[loc], ![loc] = Nil, ![l.prior[loc]] = i]
    /\ m.prior = IF loc = l.tail
                   THEN [l.prior EXCEPT ![i] = l.prior[loc], ![loc] = Nil]
                   ELSE [l.prior EXCEPT ![i] = l.prior[loc], ![loc] = Nil, ![l.next[loc]] = i]
    /\ m.head = IF l.head = loc THEN i ELSE l.head
    /\ m.tail = IF l.tail = loc THEN i ELSE l.tail

LEMMA MoveLinksFields ==
    ASSUME NEW l \in RcvLists, NEW loc \in RcvSlots, NEW i \in RcvSlots,
           loc # l.head => l.prior[loc] \in RcvSlots, loc # l.tail => l.next[loc] \in RcvSlots
    PROVE  IsRelinked(l, MoveLinks(l, loc, i), loc, i)
<1>1. /\ l.data1 \in [RcvSlots -> SeqNos \cup {Nil}]
      /\ l.data2 \in [RcvSlots -> SeqNos \cup {Nil}]
      /\ l.next \in [RcvSlots -> RcvSlots \cup {Nil}]
      /\ l.prior \in [RcvSlots -> RcvSlots \cup {Nil}]
      /\ l.head \in RcvSlots \cup {Nil} /\ l.tail \in RcvSlots \cup {Nil}
      /\ l.length \in Int
  BY RcvFields
<1> DEFINE n1 == [l.next EXCEPT ![i] = l.next[loc], ![loc] = Nil]
           p1 == [l.prior EXCEPT ![i] = l.prior[loc], ![loc] = Nil]
           nx == IF loc = l.head THEN n1 ELSE [n1 EXCEPT ![l.prior[loc]] = i]
           pr == IF loc = l.tail THEN p1 ELSE [p1 EXCEPT ![l.next[loc]] = i]
           hd == IF l.head = loc THEN i ELSE l.head
           tl == IF l.tail = loc THEN i ELSE l.tail
<1>2. n1 \in [RcvSlots -> RcvSlots \cup {Nil}] /\ p1 \in [RcvSlots -> RcvSlots \cup {Nil}]
  BY <1>1
<1>3. PICK m : m = MoveLinks(l, loc, i)
  OBVIOUS
<1>4. m = [data1 |-> l.data1, data2 |-> l.data2, next |-> nx, prior |-> pr, head |-> hd,
           tail |-> tl, length |-> l.length]
  <2>1. PICK k : k = [l EXCEPT !.next = n1, !.prior = p1]
    OBVIOUS
  <2>2. k = [l EXCEPT !.next[i] = l.next[loc], !.prior[i] = l.prior[loc],
                      !.next[loc] = Nil, !.prior[loc] = Nil]
    BY <2>1 DEF RcvLists
  <2>3. m = [k EXCEPT
                !.next = IF loc # l.head THEN [@ EXCEPT ![l.prior[loc]] = i] ELSE @,
                !.prior = IF loc # l.tail THEN [@ EXCEPT ![l.next[loc]] = i] ELSE @,
                !.head = IF @ = loc THEN i ELSE @,
                !.tail = IF @ = loc THEN i ELSE @]
    BY <1>3, <2>2 DEF MoveLinks
  <2> HIDE DEF n1, p1
  <2>4. k = [data1 |-> l.data1, data2 |-> l.data2, next |-> n1, prior |-> p1,
             head |-> l.head, tail |-> l.tail, length |-> l.length]
    BY <2>1 DEF RcvLists
  <2> QED
    BY <2>3, <2>4
<1> HIDE DEF n1, p1
<1>5. nx \in [RcvSlots -> RcvSlots \cup {Nil}] /\ pr \in [RcvSlots -> RcvSlots \cup {Nil}]
  BY <1>2
<1>6. hd \in RcvSlots \cup {Nil} /\ tl \in RcvSlots \cup {Nil}
  BY <1>1
<1> HIDE DEF nx, pr, hd, tl
<1>7. /\ m \in RcvLists /\ m.length = l.length /\ m.data1 = l.data1 /\ m.data2 = l.data2
      /\ m.next = nx /\ m.prior = pr /\ m.head = hd /\ m.tail = tl
  BY <1>1, <1>4, <1>5, <1>6 DEF RcvLists, Links, RcvSlots
<1> QED
  BY <1>3, <1>7 DEF IsRelinked, nx, pr, hd, tl, n1, p1

\* What m is after the first number of node p has left, and q is the next.
IsAdvanced(l, m, w, c, E, p, q) ==
    \E k : /\ IsRelinked(l, k, c[p], c[q])
           /\ m \in RcvLists /\ m.length = k.length
           /\ m.data1 = [l.data1 EXCEPT ![c[q]] = w[q], ![c[p]] = Nil]
           /\ m.data2 = [l.data2 EXCEPT ![c[q]] = LastData(w, q, E[p]), ![c[p]] = Nil]
           /\ m.next = k.next /\ m.prior = k.prior /\ m.head = k.head /\ m.tail = k.tail

LEMMA AdvanceFields ==
    ASSUME NEW l, NEW w, NEW c, NEW B, NEW E, NEW lo, NEW hi,
           RcvWindow(w, c, lo, hi), RcvBody(l, w, c, B, E, lo, hi),
           NEW p \in B, p < E[p], NEW q, q = p + 1
    PROVE  /\ IsAdvanced(l, Advance(l, c[p]), w, c, E, p, q)
           /\ q \in lo .. hi /\ q \notin B
<1>1. /\ l \in RcvLists /\ Apart(B, E)
      /\ B \in SUBSET (lo .. hi) /\ lo \in Int /\ hi \in Int
      /\ Window(RcvListSize, w, c, lo, hi)
      /\ w \in Wires /\ c \in Rings(RcvListSize) /\ hi - lo < RcvListSize
      /\ RcvListSize \in Nat \ {0}
  BY RcvBodyFacts
<1>2. /\ p \in lo .. hi /\ E[p] \in lo .. hi /\ p \in Int /\ E[p] \in Int
      /\ c[p] \in RcvSlots /\ l.data1[c[p]] = w[p]
      /\ l.data2[c[p]] = Nil <=> E[p] = p
      /\ l.data2[c[p]] # Nil => l.data2[c[p]] = w[E[p]]
  BY RcvNode
<1>3. q \in lo .. hi /\ q \in Int /\ q <= E[p]
  BY <1>1, <1>2
<1>4. (c[p] + 1) % RcvListSize = c[q] /\ IncSeq(w[p]) = w[q]
  <2>1. RcvListSize > 1 /\ RcvListSize \in Nat
    BY <1>1, <1>2, <1>3
  <2> QED
    BY <1>1, <1>2, <2>1, RingNext, WireStep
<1>5. q \notin B
  BY <1>2, <1>1, <1>3 DEF Apart
<1>6. c[q] \in RcvSlots /\ l.data2[c[q]] = Nil
  BY <1>1, <1>3, <1>5, RcvEmpty
<1>7. c[q] # c[p]
  BY <1>1, <1>2, <1>3, <1>5, RcvSlotsDiffer
<1>8. l.data2[c[p]] = w[E[p]]
  BY <1>2
<1>9. (IF SeqCmp(l.data2[c[p]], w[q]) > 0 THEN l.data2[c[p]] ELSE l.data2[c[q]])
        = LastData(w, q, E[p])
  <2>1. SeqCmp(w[E[p]], w[q]) > 0 <=> E[p] > q
    BY <1>1, <1>2, <1>3, WindowFacts
  <2> QED
    BY <1>2, <1>3, <1>6, <1>8, <2>1 DEF LastData
<1>10. w[q] \in SeqNos \cup {Nil} /\ LastData(w, q, E[p]) \in SeqNos \cup {Nil}
  <2>1. \A x \in lo .. hi : w[x] \in SeqNos
    BY <1>1, WindowFacts
  <2> QED
    BY <1>2, <1>3, <2>1 DEF LastData
<1>11. /\ l.data1 \in [RcvSlots -> SeqNos \cup {Nil}]
       /\ l.data2 \in [RcvSlots -> SeqNos \cup {Nil}]
       /\ l.next \in [RcvSlots -> RcvSlots \cup {Nil}]
       /\ l.prior \in [RcvSlots -> RcvSlots \cup {Nil}]
       /\ l.head \in RcvSlots \cup {Nil} /\ l.tail \in RcvSlots \cup {Nil}
       /\ l.length \in Int
  BY <1>1, RcvFields
<1>12. PICK k : k = MoveLinks(l, c[p], c[q])
  OBVIOUS
<1>13. IsRelinked(l, k, c[p], c[q])
  <2>1. NodeLinks(l, c, B, p)
    BY RcvLinks
  <2>2. \A b \in B : c[b] \in RcvSlots
    BY RcvNode
  <2>3. c[p] # l.head => l.prior[c[p]] \in RcvSlots
    BY <2>1, <2>2 DEF NodeLinks
  <2>4. c[p] # l.tail => l.next[c[p]] \in RcvSlots
    BY <2>1, <2>2 DEF NodeLinks
  <2> QED
    BY <1>1, <1>2, <1>6, <1>12, <2>3, <2>4, MoveLinksFields
<1>14. k \in RcvLists /\ k.data1 = l.data1 /\ k.data2 = l.data2
  BY <1>13 DEF IsRelinked
<1> DEFINE d1 == [l.data1 EXCEPT ![c[q]] = w[q], ![c[p]] = Nil]
           d2 == [l.data2 EXCEPT ![c[q]] = LastData(w, q, E[p]), ![c[p]] = Nil]
<1>15. d1 \in [RcvSlots -> SeqNos \cup {Nil}] /\ d2 \in [RcvSlots -> SeqNos \cup {Nil}]
  BY <1>2, <1>6, <1>10, <1>11
<1>16. PICK m : m = Advance(l, c[p])
  OBVIOUS
<1>17. m = [k EXCEPT !.data1 = d1, !.data2 = d2]
  <2>1. m = [k EXCEPT !.data1[c[q]] = w[q], !.data1[c[p]] = Nil,
                      !.data2[c[q]] = IF SeqCmp(l.data2[c[p]], w[q]) > 0
                                        THEN l.data2[c[p]] ELSE @,
                      !.data2[c[p]] = Nil]
    BY <1>2, <1>4, <1>12, <1>16 DEF Advance
  <2> QED
    BY <1>9, <1>14, <2>1 DEF RcvLists
<1> HIDE DEF d1, d2
<1>18. /\ m \in RcvLists /\ m.length = k.length /\ m.data1 = d1 /\ m.data2 = d2
       /\ m.next = k.next /\ m.prior = k.prior /\ m.head = k.head /\ m.tail = k.tail
  BY <1>14, <1>15, <1>17 DEF RcvLists
<1>19. IsAdvanced(l, m, w, c, E, p, q)
  BY <1>13, <1>18 DEF IsAdvanced, d1, d2
<1> QED
  BY <1>3, <1>5, <1>16, <1>19

\* The nodes C cover what the nodes B do, but for p.
Lacks(B, E, C, F, p, lo, hi) ==
    /\ \A x : x \in Covered(C, F) <=> x \in Covered(B, E) /\ x # p
    /\ Spans(C, F, lo, hi) /\ Apart(C, F)

\* Node p starts at q from now on.
LEMMA CoveredNext ==
    ASSUME NEW lo \in Int, NEW hi \in Int, NEW B, NEW E, Spans(B, E, lo, hi), Apart(B, E),
           NEW p \in B, p < E[p], NEW q, q = p + 1, NEW C, C = (B \ {p}) \cup {q},
           NEW F \in [Int -> Int], F[q] = E[p], \A x \in B : x # q => F[x] = E[x]
    PROVE  Lacks(B, E, C, F, p, lo, hi)
<1>1. /\ B \in SUBSET (lo .. hi) /\ E \in [Int -> Int]
      /\ \A x \in B : x \in Int /\ x <= E[x] /\ E[x] <= hi /\ E[x] \in Int
  BY DEF Spans
<1>2. p \in Int /\ q \in Int /\ q \in lo .. hi /\ q <= E[p]
  BY <1>1
<1>3. \A x, y \in B : x < y => E[x] < y
  BY DEF Apart
<1>4. q \notin B
  BY <1>1, <1>2, <1>3
<1>5. \A x \in C : x = q \/ (x \in B /\ x # p /\ x # q /\ F[x] = E[x])
  BY <1>4
<1>6. \A x \in B : x = p \/ x \in C
  OBVIOUS
<1>7. Spans(C, F, lo, hi)
  <2>1. C \in SUBSET (lo .. hi)
    BY <1>1, <1>2
  <2>2. \A x \in C : x <= F[x] /\ F[x] <= hi
    BY <1>1, <1>2, <1>5
  <2> QED
    BY <2>1, <2>2 DEF Spans
<1>8. Apart(C, F)
  <2>1. ASSUME NEW x \in C, NEW y \in C, x < y PROVE F[x] < y
    BY <1>1, <1>2, <1>3, <1>5, <2>1
  <2> QED
    BY <2>1 DEF Apart
<1>9. ASSUME NEW x, x \in Covered(C, F) PROVE x \in Covered(B, E) /\ x # p
  <2>1. PICK y \in C : x \in Int /\ y <= x /\ x <= F[y]
    BY <1>9 DEF Covered
  <2>2. CASE y = q
    <3>1. p <= x /\ x <= E[p] /\ x # p
      BY <1>1, <1>2, <2>1, <2>2
    <3> QED
      BY <2>1, <3>1 DEF Covered
  <2>3. CASE y # q
    <3>1. y \in B /\ y # p /\ x <= E[y] /\ y \in Int
      BY <1>1, <1>5, <2>1, <2>3
    <3>2. x # p
      BY <1>1, <1>2, <1>3, <2>1, <3>1
    <3> QED
      BY <2>1, <3>1, <3>2 DEF Covered
  <2> QED
    BY <2>2, <2>3
<1>10. ASSUME NEW x, x \in Covered(B, E), x # p PROVE x \in Covered(C, F)
  <2>1. PICK y \in B : x \in Int /\ y <= x /\ x <= E[y]
    BY <1>10 DEF Covered
  <2>2. CASE y = p
    <3>1. q <= x /\ x <= F[q] /\ q \in C
      BY <1>1, <1>2, <1>10, <2>1, <2>2
    <3> QED
      BY <2>1, <3>1 DEF Covered
  <2>3. CASE y # p
    <3>1. y \in C /\ F[y] = E[y]
      BY <1>4, <1>6, <2>3
    <3> QED
      BY <2>1, <3>1 DEF Covered
  <2> QED
    BY <2>2, <2>3
<1> QED
  BY <1>7, <1>8, <1>9, <1>10 DEF Lacks

\* A node moves on, together with what leads to it.
LEMMA RelinkedHolds ==
    ASSUME NEW l, NEW w, NEW c, NEW B, NEW E, NEW lo, NEW hi,
           RcvWindow(w, c, lo, hi), RcvBody(l, w, c, B, E, lo, hi),
           NEW p \in B, p < E[p], NEW q, q = p + 1, q \in lo .. hi, q \notin B,
           NEW k, IsRelinked(l, k, c[p], c[q]), NEW C, C = (B \ {p}) \cup {q}
    PROVE  /\ Linked(k.next, RcvListSize, c, C) /\ BackLinked(k.prior, RcvListSize, c, C)
           /\ HeadIs(k.head, c, C) /\ TailIs(k.tail, c, C)
<1>1. /\ l \in RcvLists /\ Apart(B, E)
      /\ Linked(l.next, RcvListSize, c, B) /\ BackLinked(l.prior, RcvListSize, c, B)
      /\ HeadIs(l.head, c, B) /\ TailIs(l.tail, c, B)
      /\ B \in SUBSET (lo .. hi) /\ B \in SUBSET Int
      /\ lo \in Int /\ hi \in Int /\ Window(RcvListSize, w, c, lo, hi)
  BY RcvBodyFacts
<1>2. \A b \in B : c[b] \in RcvSlots /\ c[b] # Nil /\ c[b] # c[q] /\ b \in Int
  BY <1>1, RcvNode, RcvSlotsDiffer
<1>3. \A x, y \in B : c[x] = c[y] => x = y
  BY <1>1, WindowFacts
<1>4. c[q] \in RcvSlots /\ c[q] # Nil /\ c[p] # c[q] /\ q \in Int /\ p \in Int /\ p < q
  <2>1. c[q] \in RcvSlots
    BY RcvEmpty
  <2> QED
    BY <1>1, <1>2, <2>1 DEF RcvSlots, Nil
<1>5. \A x \in B : x <= p \/ q < x
  BY <1>1, <1>4
<1>6. MovedOrder(B, C, p, q)
  BY <1>1, <1>4, <1>5, FollowsMoved
<1>7. /\ k \in RcvLists
      /\ k.next = IF c[p] = l.head
                    THEN [l.next EXCEPT ![c[q]] = l.next[c[p]], ![c[p]] = Nil]
                    ELSE [l.next EXCEPT ![c[q]] = l.next[c[p]], ![c[p]] = Nil,
                                        ![l.prior[c[p]]] = c[q]]
      /\ k.prior = IF c[p] = l.tail
                     THEN [l.prior EXCEPT ![c[q]] = l.prior[c[p]], ![c[p]] = Nil]
                     ELSE [l.prior EXCEPT ![c[q]] = l.prior[c[p]], ![c[p]] = Nil,
                                          ![l.next[c[p]]] = c[q]]
      /\ k.head = IF l.head = c[p] THEN c[q] ELSE l.head
      /\ k.tail = IF l.tail = c[p] THEN c[q] ELSE l.tail
  BY DEF IsRelinked
<1>8. /\ l.next \in [RcvSlots -> RcvSlots \cup {Nil}]
      /\ l.prior \in [RcvSlots -> RcvSlots \cup {Nil}]
      /\ k.next \in Links(RcvListSize) /\ k.prior \in Links(RcvListSize)
  BY <1>1, <1>7, RcvFields
<1>9. NodeLinks(l, c, B, p)
  BY RcvLinks
<1>10. /\ l.head = c[p] <=> IsFirst(B, p)
       /\ l.tail = c[p] <=> IsLast(B, p)
       /\ IsFirst(B, p) \/ \E a \in B : Follows(B, a, p) /\ l.prior[c[p]] = c[a]
       /\ \/ IsLast(B, p) /\ l.next[c[p]] = Nil
          \/ \E d \in B : Follows(B, p, d) /\ l.next[c[p]] = c[d] /\ l.next[c[p]] # Nil
  BY <1>9 DEF NodeLinks
<1>11. IsMoved(l.next, k.next, RcvListSize, c, B, p, q)
  <2>1. CASE IsFirst(B, p)
    <3>1. k.next = [l.next EXCEPT ![c[q]] = l.next[c[p]], ![c[p]] = Nil]
      BY <1>7, <1>10, <2>1
    <3>2. \A b \in B : ~Follows(B, b, p)
      BY <1>2, <2>1 DEF Follows, IsFirst
    <3>3. k.next[c[q]] = l.next[c[p]]
      BY <1>2, <1>4, <1>8, <3>1
    <3>4. \A b \in B : b # p => k.next[c[b]] = l.next[c[b]]
      BY <1>2, <1>3, <1>8, <3>1
    <3> QED
      BY <1>8, <3>2, <3>3, <3>4 DEF IsMoved
  <2>2. CASE ~IsFirst(B, p)
    <3>1. PICK a \in B : Follows(B, a, p) /\ l.prior[c[p]] = c[a]
      BY <1>10, <2>2
    <3>2. k.next = [l.next EXCEPT ![c[q]] = l.next[c[p]], ![c[p]] = Nil, ![c[a]] = c[q]]
      BY <1>7, <1>10, <2>2, <3>1
    <3>3. a # p
      BY <1>2, <3>1 DEF Follows
    <3>4. k.next[c[q]] = l.next[c[p]]
      BY <1>2, <1>3, <1>4, <1>8, <3>2, <3>3
    <3>5. k.next[c[a]] = c[q]
      BY <1>2, <1>8, <3>2
    <3>6. \A b \in B : b # p /\ b # a => k.next[c[b]] = l.next[c[b]]
      BY <1>2, <1>3, <1>8, <3>2
    <3>7. \A b \in B : Follows(B, b, p) <=> b = a
      BY <1>1, <3>1, FollowsOne
    <3>8. \A b \in B : b # p => k.next[c[b]] = IF Follows(B, b, p) THEN c[q] ELSE l.next[c[b]]
      BY <3>5, <3>6, <3>7
    <3> QED
      BY <1>8, <3>4, <3>8 DEF IsMoved
  <2> QED
    BY <2>1, <2>2
<1>12. IsBackMoved(l.prior, k.prior, RcvListSize, c, B, p, q)
  <2>1. CASE IsLast(B, p)
    <3>1. k.prior = [l.prior EXCEPT ![c[q]] = l.prior[c[p]], ![c[p]] = Nil]
      BY <1>7, <1>10, <2>1
    <3>2. \A b \in B : ~Follows(B, p, b)
      BY <1>2, <2>1 DEF Follows, IsLast
    <3>3. k.prior[c[q]] = l.prior[c[p]]
      BY <1>2, <1>4, <1>8, <3>1
    <3>4. \A b \in B : b # p => k.prior[c[b]] = l.prior[c[b]]
      BY <1>2, <1>3, <1>8, <3>1
    <3> QED
      BY <1>8, <3>2, <3>3, <3>4 DEF IsBackMoved
  <2>2. CASE ~IsLast(B, p)
    <3>1. PICK a \in B : Follows(B, p, a) /\ l.next[c[p]] = c[a]
      BY <1>10, <2>2
    <3>2. k.prior = [l.prior EXCEPT ![c[q]] = l.prior[c[p]], ![c[p]] = Nil, ![c[a]] = c[q]]
      BY <1>7, <1>10, <2>2, <3>1
    <3>3. a # p
      BY <1>2, <3>1 DEF Follows
    <3>4. k.prior[c[q]] = l.prior[c[p]]
      BY <1>2, <1>3, <1>4, <1>8, <3>2, <3>3
    <3>5. k.prior[c[a]] = c[q]
      BY <1>2, <1>8, <3>2
    <3>6. \A b \in B : b # p /\ b # a => k.prior[c[b]] = l.prior[c[b]]
      BY <1>2, <1>3, <1>8, <3>2
    <3>7. \A b \in B : Follows(B, p, b) <=> b = a
      BY <1>1, <3>1, FollowsOne
    <3>8. \A b \in B : b # p =>
            k.prior[c[b]] = IF Follows(B, p, b) THEN c[q] ELSE l.prior[c[b]]
      BY <3>5, <3>6, <3>7
    <3> QED
      BY <1>8, <3>4, <3>8 DEF IsBackMoved
  <2> QED
    BY <2>1, <2>2
<1>13. Linked(k.next, RcvListSize, c, C) /\ BackLinked(k.prior, RcvListSize, c, C)
  <2>1. PICK nx, f, pr, g : nx = l.next /\ f = k.next /\ pr = l.prior /\ g = k.prior
    OBVIOUS
  <2>2. /\ Linked(nx, RcvListSize, c, B) /\ IsMoved(nx, f, RcvListSize, c, B, p, q)
        /\ BackLinked(pr, RcvListSize, c, B) /\ IsBackMoved(pr, g, RcvListSize, c, B, p, q)
    BY <1>1, <1>11, <1>12, <2>1
  <2>3. Linked(f, RcvListSize, c, C) /\ BackLinked(g, RcvListSize, c, C)
    BY <1>1, <1>4, <1>5, <2>2, LinksMoved
  <2> QED
    BY <2>1, <2>3
<1>14. /\ \A x \in C : x # q => /\ x \in B /\ x # p
                                /\ IsLast(C, x) <=> IsLast(B, x)
                                /\ IsFirst(C, x) <=> IsFirst(B, x)
       /\ IsLast(C, q) <=> IsLast(B, p)
       /\ IsFirst(C, q) <=> IsFirst(B, p)
  BY <1>6 DEF MovedOrder
<1>15. HeadIs(k.head, c, C)
  <2>1. C # {}
    OBVIOUS
  <2>2. ASSUME NEW x \in C, IsFirst(C, x) PROVE k.head = c[x]
    <3>1. CASE x = q
      BY <1>7, <1>10, <1>14, <2>2, <3>1
    <3>2. CASE x # q
      <4>1. IsFirst(B, x) /\ x \in B /\ x # p
        BY <1>14, <2>2, <3>2
      <4>2. l.head = c[x]
        BY <1>1, <4>1 DEF HeadIs
      <4>3. l.head # c[p]
        BY <1>3, <4>1, <4>2
      <4> QED
        BY <1>7, <4>2, <4>3
    <3> QED
      BY <3>1, <3>2
  <2> QED
    BY <2>1, <2>2 DEF HeadIs
<1>16. TailIs(k.tail, c, C)
  <2>2. ASSUME NEW x \in C, IsLast(C, x) PROVE k.tail = c[x]
    <3>1. CASE x = q
      BY <1>7, <1>10, <1>14, <2>2, <3>1
    <3>2. CASE x # q
      <4>1. IsLast(B, x) /\ x \in B /\ x # p
        BY <1>14, <2>2, <3>2
      <4>2. l.tail = c[x]
        BY <1>1, <4>1 DEF TailIs
      <4>3. l.tail # c[p]
        BY <1>3, <4>1, <4>2
      <4> QED
        BY <1>7, <4>2, <4>3
    <3> QED
      BY <3>1, <3>2
  <2> QED
    BY <2>2 DEF TailIs
<1> QED
  BY <1>13, <1>15, <1>16

\* The first of several numbers of a node leaves the list.
LEMMA AdvanceLoses ==
    ASSUME NEW l, NEW w, NEW c, NEW B, NEW E, NEW lo, NEW hi,
           RcvWindow(w, c, lo, hi), RcvBody(l, w, c, B, E, lo, hi), NEW p \in B, p < E[p]
    PROVE  /\ RcvLoses(Advance(l, c[p]), w, c, B, E, p, lo, hi)
           /\ Advance(l, c[p]).length = l.length
<1>1. /\ l \in RcvLists /\ Spans(B, E, lo, hi) /\ Apart(B, E)
      /\ Stored(l.data1, l.data2, RcvListSize, w, c, B, E)
      /\ B \in SUBSET (lo .. hi) /\ E \in [Int -> Int]
      /\ lo \in Int /\ hi \in Int /\ Window(RcvListSize, w, c, lo, hi)
  BY RcvBodyFacts
<1>2. p \in lo .. hi /\ E[p] \in lo .. hi /\ p \in Int /\ E[p] \in Int
  BY RcvNode
<1>3. PICK q : q = p + 1
  OBVIOUS
<1>4. PICK m : m = Advance(l, c[p])
  OBVIOUS
<1>5. IsAdvanced(l, m, w, c, E, p, q) /\ q \in lo .. hi /\ q \notin B
  BY <1>3, <1>4, AdvanceFields
<1>6. PICK k : /\ IsRelinked(l, k, c[p], c[q])
               /\ m \in RcvLists /\ m.length = k.length
               /\ m.data1 = [l.data1 EXCEPT ![c[q]] = w[q], ![c[p]] = Nil]
               /\ m.data2 = [l.data2 EXCEPT ![c[q]] = LastData(w, q, E[p]), ![c[p]] = Nil]
               /\ m.next = k.next /\ m.prior = k.prior /\ m.head = k.head /\ m.tail = k.tail
  BY <1>5 DEF IsAdvanced
<1>7. PICK C : C = (B \ {p}) \cup {q}
  OBVIOUS
<1>8. PICK F : F = [E EXCEPT ![q] = E[p]]
  OBVIOUS
<1>9. F \in [Int -> Int] /\ F[q] = E[p] /\ \A x \in B : x # q => F[x] = E[x]
  BY <1>1, <1>2, <1>3, <1>8
<1>10. /\ Linked(k.next, RcvListSize, c, C) /\ BackLinked(k.prior, RcvListSize, c, C)
       /\ HeadIs(k.head, c, C) /\ TailIs(k.tail, c, C)
  BY <1>3, <1>5, <1>6, <1>7, RelinkedHolds, SMTT(30)
<1>11. /\ \A x : x \in Covered(C, F) <=> x \in Covered(B, E) /\ x # p
       /\ Spans(C, F, lo, hi) /\ Apart(C, F)
  <2>1. Lacks(B, E, C, F, p, lo, hi)
    BY <1>1, <1>3, <1>7, <1>9, CoveredNext
  <2> QED
    BY <2>1 DEF Lacks
<1>12. Stored(m.data1, m.data2, RcvListSize, w, c, C, F)
  <2>1. PICK d1, d2, g1, g2, f1, f2 :
           /\ d1 = l.data1 /\ d2 = l.data2 /\ f1 = m.data1 /\ f2 = m.data2
           /\ g1 = [d1 EXCEPT ![c[q]] = w[q]]
           /\ g2 = [d2 EXCEPT ![c[q]] = LastData(w, q, E[p])]
    OBVIOUS
  <2>2. PICK e : e = E[p]
    OBVIOUS
  <2>3. Stored(d1, d2, RcvListSize, w, c, B, E) /\ e \in lo .. hi /\ F[q] = e
    BY <1>1, <1>2, <1>9, <2>1, <2>2
  <2>4. g1 = [d1 EXCEPT ![c[q]] = w[q]] /\ g2 = [d2 EXCEPT ![c[q]] = LastData(w, q, e)]
    BY <2>1, <2>2
  <2>5. Stored(g1, g2, RcvListSize, w, c, B \cup {q}, F)
    BY <1>1, <1>5, <1>9, <2>3, <2>4, StoredPut
  <2>6. f1 = [g1 EXCEPT ![c[p]] = Nil] /\ f2 = [g2 EXCEPT ![c[p]] = Nil]
    BY <1>6, <2>1
  <2>7. PICK D : D = B \cup {q}
    OBVIOUS
  <2>8. D \in SUBSET (lo .. hi) /\ Stored(g1, g2, RcvListSize, w, c, D, F)
    BY <1>1, <1>5, <2>5, <2>7
  <2>9. Stored(f1, f2, RcvListSize, w, c, D \ {p}, F)
    BY <1>1, <1>2, <1>9, <2>6, <2>8, StoredDelete
  <2>10. D \ {p} = C
    BY <1>2, <1>3, <1>7, <2>7
  <2> QED
    BY <2>1, <2>9, <2>10
<1>13. RcvBody(m, w, c, C, F, lo, hi)
  BY <1>6, <1>10, <1>11, <1>12 DEF RcvBody
<1>14. m.length = l.length
  BY <1>6 DEF IsRelinked
<1> QED
  BY <1>4, <1>11, <1>13, <1>14 DEF RcvLoses

\* The search backwards ends at the last node before p.
NodeFound(l, c, B, p) == \E b \in B : Below(B, b, p) /\ NodeBefore(l, c[p]) = c[b]

LEMMA NodeBeforeIs ==
    ASSUME NEW l, NEW w, NEW c, NEW B, NEW E, NEW lo, NEW hi,
           RcvWindow(w, c, lo, hi), RcvBody(l, w, c, B, E, lo, hi),
           NEW p \in lo .. hi, NEW a \in B, a < p
    PROVE  NodeFound(l, c, B, p)
<1>1. /\ l \in RcvLists /\ B \in SUBSET (lo .. hi) /\ lo \in Int /\ hi \in Int
      /\ Window(RcvListSize, w, c, lo, hi) /\ c \in Rings(RcvListSize)
      /\ hi - lo < RcvListSize /\ RcvListSize \in Nat \ {0}
  BY RcvBodyFacts
<1>2. \A b \in B : b \in lo .. hi /\ b \in Int /\ c[b] \in RcvSlots /\ l.data1[c[b]] # Nil
  <2>1. \A b \in B : b \in lo .. hi /\ c[b] \in RcvSlots /\ l.data1[c[b]] = w[b]
    BY RcvNode
  <2>2. \A x \in lo .. hi : w[x] # Nil
    BY <1>1, WindowFacts
  <2> QED
    BY <1>1, <2>1, <2>2
<1>3. p \in Int /\ a \in Int /\ a \in lo .. hi
  BY <1>1, <1>2
<1>4. PICK b \in B : Below(B, b, p)
  BY <1>1, <1>3, NodeBelow
<1>5. b < p /\ b \in Int /\ b \in lo .. hi /\ \A x \in B : x <= b \/ p <= x
  BY <1>2, <1>4 DEF Below
<1>6. \A x \in lo .. hi : c[x] \in RcvSlots /\ x \in Int
  BY <1>1, WindowFacts DEF RcvSlots
<1>7. \A x \in lo .. hi : (c[x] - 1 + RcvListSize) % RcvListSize = c[x - 1]
  <2>1. RcvListSize > 1 /\ RcvListSize \in Nat
    BY <1>1, <1>3, <1>5
  <2> QED
    BY <1>1, <1>6, <2>1, RingNext
<1> DEFINE Back == [i \in RcvSlots |-> (i - 1 + RcvListSize) % RcvListSize]
           Stop == {i \in RcvSlots : l.data1[i] # Nil}
           W == b .. p - 1
           I == {c[x] : x \in W}
           At(i) == CHOOSE x \in W : c[x] = i
           V == [i \in I |-> At(i) - b]
<1>8. \A x \in W : x \in lo .. hi /\ x \in Int
  BY <1>1, <1>3, <1>5
<1>9. \A x \in W : At(c[x]) = x
  <2>1. \A x, y \in lo .. hi : c[x] = c[y] => x = y
    BY <1>1, WindowFacts
  <2> QED
    BY <1>8, <2>1
<1> HIDE DEF At
<1>10. \A x \in W : x # b => c[x] \notin Stop
  <2> TAKE x \in W
  <2> HAVE x # b
  <2>1. x \notin B /\ x \in lo .. hi
    BY <1>3, <1>5, <1>8
  <2> QED
    BY <2>1, RcvEmpty
<1>11. \A x \in W : x # b => Back[c[x]] = c[x - 1] /\ x - 1 \in W
  BY <1>3, <1>5, <1>6, <1>7, <1>8
<1>12. \A i \in RcvSlots : Back[i] \in RcvSlots
  <2> TAKE i \in RcvSlots
  <2>1. i - 1 + RcvListSize \in Int
    BY <1>1 DEF RcvSlots
  <2> QED
    BY <1>1, <2>1, ModQuotient DEF RcvSlots
<1>13. PICK g : IsLoop(g, RcvSlots, Stop, Back)
  <2>1. StaysIn(RcvSlots, Stop, Back)
    BY <1>12 DEF StaysIn
  <2> QED
    BY <2>1, LoopExists
<1>14. g = [i \in RcvSlots |-> IF l.data1[i] = Nil
                                 THEN g[(i - 1 + RcvListSize) % RcvListSize] ELSE i]
  BY <1>13 DEF IsLoop
<1>15. PICK h : /\ h = [i \in RcvSlots |-> IF l.data1[i] = Nil
                                 THEN h[(i - 1 + RcvListSize) % RcvListSize] ELSE i]
                /\ NodeBefore(l, c[p]) = h[(c[p] - 1 + RcvListSize) % RcvListSize]
  BY <1>14 DEF NodeBefore
<1>16. IsLoop(h, RcvSlots, Stop, Back)
  <2>1. \A i \in RcvSlots : h[i] = IF i \in Stop THEN i ELSE h[Back[i]]
    BY <1>15
  <2>2. h = [i \in RcvSlots |-> h[i]]
    BY <1>15
  <2> QED
    BY <2>1, <2>2 DEF IsLoop
<1>17. I \in SUBSET RcvSlots
  BY <1>6, <1>8
<1>18. V \in [I -> Nat]
  <2>1. \A x \in W : At(c[x]) - b \in Nat
    <3>1. \A x \in W : x - b \in Nat
      BY <1>3, <1>5
    <3> QED
      BY <1>9, <3>1
  <2> QED
    BY <2>1
<1>19. ASSUME NEW i \in I, i \notin Stop PROVE Back[i] \in I /\ V[Back[i]] < V[i]
  <2>1. PICK x \in W : i = c[x]
    OBVIOUS
  <2>2. x # b
    BY <1>2, <1>19, <2>1
  <2>3. Back[i] = c[x - 1] /\ x - 1 \in W
    BY <1>11, <2>1, <2>2
  <2>4. V[i] = x - b
    BY <1>9, <2>1
  <2>5. V[c[x - 1]] = (x - 1) - b /\ c[x - 1] \in I
    BY <1>9, <2>3
  <2>6. (x - 1) - b < x - b
    BY <1>5, <1>8
  <2> QED
    BY <2>3, <2>4, <2>5, <2>6
<1>20. \A i \in I : h[i] \in I \cap Stop
  <2>1. Decreases(V, I, Stop, Back)
    BY <1>18, <1>19 DEF Decreases
  <2> HIDE DEF V, I, Stop, Back
  <2> QED
    BY <1>16, <1>17, <2>1, LoopEnds
<1>21. NodeBefore(l, c[p]) = h[c[p - 1]] /\ p - 1 \in W
  BY <1>3, <1>5, <1>7, <1>15
<1>22. PICK x \in W : h[c[p - 1]] = c[x] /\ c[x] \in Stop
  BY <1>20, <1>21
<1>23. x = b
  BY <1>10, <1>22
<1> QED
  BY <1>4, <1>21, <1>22, <1>23 DEF NodeFound

\* Node b ends at o, before p, from now on; what was behind p has a node at q.
LEMMA CoveredShort ==
    ASSUME NEW lo \in Int, NEW hi \in Int, NEW B, NEW E, Spans(B, E, lo, hi), Apart(B, E),
           NEW b \in B, NEW p \in Int, b < p, p = E[b], NEW o, o = p - 1,
           NEW F \in [Int -> Int], F[b] = o, \A x \in B : x # b => F[x] = E[x]
    PROVE  Lacks(B, E, B, F, p, lo, hi)
<1>1. /\ B \in SUBSET (lo .. hi) /\ E \in [Int -> Int]
      /\ \A x \in B : x \in Int /\ x <= E[x] /\ E[x] <= hi /\ E[x] \in Int
  BY DEF Spans
<1>2. b \in Int /\ o \in Int /\ b <= o /\ o < p
  BY <1>1
<1>3. \A x, y \in B : x < y => E[x] < y
  BY DEF Apart
<1>4. Spans(B, F, lo, hi)
  BY <1>1, <1>2 DEF Spans
<1>5. Apart(B, F)
  <2>1. ASSUME NEW x \in B, NEW y \in B, x < y PROVE F[x] < y
    <3>1. E[x] < y /\ x \in Int /\ y \in Int /\ E[x] \in Int
      BY <1>1, <1>3, <2>1
    <3> QED
      BY <1>2, <3>1
  <2> QED
    BY <2>1 DEF Apart
<1>6. ASSUME NEW x, x \in Covered(B, F) PROVE x \in Covered(B, E) /\ x # p
  <2>1. PICK y \in B : x \in Int /\ y <= x /\ x <= F[y]
    BY <1>6 DEF Covered
  <2>2. y \in Int /\ E[y] \in Int
    BY <1>1
  <2>3. CASE y = b
    <3>1. x <= E[y] /\ x # p
      BY <1>2, <2>1, <2>2, <2>3
    <3> QED
      BY <2>1, <3>1 DEF Covered
  <2>4. CASE y # b
    <3>1. x <= E[y]
      BY <2>1, <2>4
    <3>2. y < b => E[y] < b
      BY <1>3
    <3>3. b < y => p < y
      BY <1>3
    <3>4. x # p
      BY <1>2, <2>1, <2>2, <2>4, <3>1, <3>2, <3>3
    <3> QED
      BY <2>1, <3>1, <3>4 DEF Covered
  <2> QED
    BY <2>3, <2>4
<1>7. ASSUME NEW x, x \in Covered(B, E), x # p PROVE x \in Covered(B, F)
  <2>1. PICK y \in B : x \in Int /\ y <= x /\ x <= E[y]
    BY <1>7 DEF Covered
  <2>2. x <= F[y]
    BY <1>1, <1>2, <1>7, <2>1
  <2> QED
    BY <2>1, <2>2 DEF Covered
<1> QED
  BY <1>4, <1>5, <1>6, <1>7 DEF Lacks

LEMMA CoveredSplit ==
    ASSUME NEW lo \in Int, NEW hi \in Int, NEW B, NEW E, Spans(B, E, lo, hi), Apart(B, E),
           NEW b \in B, NEW p \in Int, b < p, p < E[b], NEW o, o = p - 1, NEW q, q = p + 1,
           NEW C, C = B \cup {q},
           NEW F, IsCut(B, E, F, b, o, q)
    PROVE  Lacks(B, E, C, F, p, lo, hi)
<1>1. /\ B \in SUBSET (lo .. hi) /\ E \in [Int -> Int]
      /\ \A x \in B : x \in Int /\ x <= E[x] /\ E[x] <= hi /\ E[x] \in Int
  BY DEF Spans
<1>2. /\ b \in Int /\ o \in Int /\ b <= o /\ o < p /\ q \in Int /\ p < q /\ q <= E[b]
      /\ E[b] \in Int /\ q \in lo .. hi /\ q # b
  BY <1>1
<1>3. \A x, y \in B : x < y => E[x] < y
  BY DEF Apart
<1>4. q \notin B
  BY <1>1, <1>2, <1>3
<1>5. /\ F \in [Int -> Int] /\ F[b] = o /\ F[q] = E[b]
      /\ \A x \in B : x # b => F[x] = E[x]
      /\ \A x \in C : x = q \/ x \in B
      /\ \A x \in C : x \in Int
  BY <1>1, <1>2, <1>4 DEF IsCut
<1>6. Spans(C, F, lo, hi)
  <2>1. C \in SUBSET (lo .. hi)
    BY <1>1, <1>2
  <2>2. \A x \in C : x <= F[x] /\ F[x] <= hi
    BY <1>1, <1>2, <1>5
  <2> QED
    BY <1>5, <2>1, <2>2 DEF Spans
<1>7. Apart(C, F)
  <2>1. ASSUME NEW x \in C, NEW y \in C, x < y PROVE F[x] < y
    <3>1. CASE x = q
      <4>1. y \in B /\ y \in Int /\ b < y
        BY <1>2, <1>5, <2>1, <3>1
      <4> QED
        BY <1>3, <1>5, <3>1, <4>1
    <3>2. CASE x = b
      <4>1. y = q \/ (y \in B /\ y \in Int /\ E[b] < y)
        BY <1>3, <1>5, <2>1, <3>2
      <4> QED
        BY <1>2, <1>5, <3>2, <4>1
    <3>3. CASE x \in B /\ x # b
      <4>1. x \in Int /\ E[x] \in Int /\ F[x] = E[x]
        BY <1>1, <1>5, <3>3
      <4>2. CASE y = q
        <5>1. x < b \/ b < x
          BY <1>2, <3>3, <4>1
        <5>2. x < b => E[x] < b
          BY <1>3, <3>3
        <5>3. b < x => E[b] < x
          BY <1>3, <3>3
        <5> QED
          BY <1>2, <2>1, <4>1, <4>2, <5>1, <5>2, <5>3
      <4>3. CASE y \in B
        BY <1>3, <2>1, <3>3, <4>1, <4>3
      <4> QED
        BY <1>5, <4>2, <4>3
    <3> QED
      BY <1>5, <3>1, <3>2, <3>3
  <2> QED
    BY <2>1 DEF Apart
<1>8. ASSUME NEW x, x \in Covered(C, F) PROVE x \in Covered(B, E) /\ x # p
  <2>1. PICK y \in C : x \in Int /\ y <= x /\ x <= F[y]
    BY <1>8 DEF Covered
  <2>2. y \in Int
    BY <1>5
  <2>3. CASE y = q
    <3>1. b <= x /\ x <= E[b] /\ x # p
      BY <1>2, <1>5, <2>1, <2>2, <2>3
    <3> QED
      BY <2>1, <3>1 DEF Covered
  <2>4. CASE y = b
    <3>1. b <= x /\ x <= E[b] /\ x # p
      BY <1>2, <1>5, <2>1, <2>2, <2>4
    <3> QED
      BY <2>1, <3>1 DEF Covered
  <2>5. CASE y \in B /\ y # b
    <3>1. x <= E[y] /\ E[y] \in Int
      BY <1>1, <1>5, <2>1, <2>5
    <3>2. y < b => E[y] < b
      BY <1>3, <2>5
    <3>3. b < y => E[b] < y
      BY <1>3, <2>5
    <3>4. x # p
      BY <1>2, <2>1, <2>2, <2>5, <3>1, <3>2, <3>3
    <3> QED
      BY <2>1, <2>5, <3>1, <3>4 DEF Covered
  <2> QED
    BY <1>5, <2>3, <2>4, <2>5
<1>9. ASSUME NEW x, x \in Covered(B, E), x # p PROVE x \in Covered(C, F)
  <2>1. PICK y \in B : x \in Int /\ y <= x /\ x <= E[y]
    BY <1>9 DEF Covered
  <2>2. CASE y # b
    BY <1>5, <2>1, <2>2 DEF Covered
  <2>3. CASE y = b /\ x < p
    <3>1. x <= F[b] /\ b \in C
      BY <1>2, <1>5, <2>1, <2>3
    <3> QED
      BY <2>1, <2>3, <3>1 DEF Covered
  <2>4. CASE y = b /\ p < x
    <3>1. q <= x /\ x <= F[q] /\ q \in C
      BY <1>2, <1>5, <2>1, <2>4
    <3> QED
      BY <2>1, <3>1 DEF Covered
  <2> QED
    BY <1>9, <2>1, <2>2, <2>3, <2>4
<1> QED
  BY <1>6, <1>7, <1>8, <1>9 DEF Lacks

\* What m is after the last number of node b of l has left,
IsShortened(l, m, w, c, b, o) ==
    /\ m \in RcvLists /\ m.length = l.length /\ m.data1 = l.data1
    /\ m.data2 = [l.data2 EXCEPT ![c[b]] = LastData(w, b, o)]
    /\ m.next = l.next /\ m.prior = l.prior /\ m.head = l.head /\ m.tail = l.tail

\* and after one within has, between o and q.
IsParted(l, m, w, c, E, b, o, q) ==
    /\ m \in RcvLists /\ m.length = l.length
    /\ m.data1 = [l.data1 EXCEPT ![c[q]] = w[q]]
    /\ m.data2 = [l.data2 EXCEPT ![c[b]] = LastData(w, b, o), ![c[q]] = LastData(w, q, E[b])]
    /\ m.next = [l.next EXCEPT ![c[q]] = l.next[c[b]], ![c[b]] = c[q]]
    /\ m.prior = IF l.tail = c[b] THEN [l.prior EXCEPT ![c[q]] = c[b]]
                 ELSE [l.prior EXCEPT ![c[q]] = c[b], ![l.next[c[b]]] = c[q]]
    /\ m.head = l.head /\ m.tail = IF l.tail = c[b] THEN c[q] ELSE l.tail

\* What both have in common.
LEMMA CutFacts ==
    ASSUME NEW l, NEW w, NEW c, NEW B, NEW E, NEW lo, NEW hi,
           RcvWindow(w, c, lo, hi), RcvBody(l, w, c, B, E, lo, hi),
           NEW b \in B, NEW p \in lo .. hi, b < p, p <= E[b], NEW o, o = p - 1
    PROVE  /\ (IF w[p] = IncSeq(l.data1[c[b]]) THEN Nil ELSE DecSeq(w[p])) = LastData(w, b, o)
           /\ LastData(w, b, o) \in SeqNos \cup {Nil}
           /\ l.data2[c[b]] = w[E[b]]
           /\ w[p] = l.data2[c[b]] <=> p = E[b]
<1>1. /\ lo \in Int /\ hi \in Int /\ Window(RcvListSize, w, c, lo, hi) /\ w \in Wires
  BY RcvBodyFacts
<1>2. /\ b \in lo .. hi /\ E[b] \in lo .. hi /\ b \in Int /\ E[b] \in Int
      /\ l.data1[c[b]] = w[b]
      /\ l.data2[c[b]] = Nil <=> E[b] = b
      /\ l.data2[c[b]] # Nil => l.data2[c[b]] = w[E[b]]
  BY RcvNode
<1>3. p \in Int /\ o \in Int /\ o \in lo .. hi
  BY <1>1, <1>2
<1>4. PICK x : x = b + 1
  OBVIOUS
<1>5. x \in lo .. hi
  BY <1>1, <1>2, <1>3, <1>4
<1>6. IncSeq(w[b]) = w[x] /\ DecSeq(w[p]) = w[o]
  BY <1>1, <1>2, <1>3, <1>4, WireStep
<1>7. w[p] = w[x] <=> p = x
  BY <1>1, <1>5, WindowFacts
<1>8. w[p] = w[E[b]] <=> p = E[b]
  BY <1>1, <1>2, WindowFacts
<1>9. w[o] \in SeqNos
  BY <1>1, <1>3, WindowFacts
<1>10. p = x <=> o = b
  BY <1>2, <1>3, <1>4
<1> QED
  BY <1>2, <1>3, <1>6, <1>7, <1>8, <1>9, <1>10 DEF LastData

LEMMA CutShort ==
    ASSUME NEW l, NEW w, NEW c, NEW B, NEW E, NEW lo, NEW hi,
           RcvWindow(w, c, lo, hi), RcvBody(l, w, c, B, E, lo, hi),
           NEW b \in B, NEW p \in lo .. hi, b < p, p = E[b], NEW o, o = p - 1
    PROVE  IsShortened(l, Cut(l, c[b], c[p], w[p]), w, c, b, o)
<1>1. l \in RcvLists /\ b \in Int /\ p \in Int /\ p <= E[b] /\ c[b] \in RcvSlots
  BY RcvBodyFacts, RcvNode
<1>2. /\ (IF w[p] = IncSeq(l.data1[c[b]]) THEN Nil ELSE DecSeq(w[p])) = LastData(w, b, o)
      /\ LastData(w, b, o) \in SeqNos \cup {Nil}
      /\ w[p] = l.data2[c[b]]
  BY <1>1, CutFacts
<1>3. PICK m, d2 : /\ m = Cut(l, c[b], c[p], w[p])
                   /\ d2 = [l.data2 EXCEPT ![c[b]] = LastData(w, b, o)]
  OBVIOUS
<1>4. d2 \in [RcvSlots -> SeqNos \cup {Nil}]
  BY <1>1, <1>2, <1>3, RcvFields
<1>5. m = [l EXCEPT !.data2 = d2]
  BY <1>1, <1>2, <1>3 DEF Cut, EndBefore, RcvLists
<1>6. /\ m \in RcvLists /\ m.length = l.length /\ m.data1 = l.data1 /\ m.data2 = d2
      /\ m.next = l.next /\ m.prior = l.prior /\ m.head = l.head /\ m.tail = l.tail
  BY <1>1, <1>4, <1>5 DEF RcvLists
<1> QED
  BY <1>3, <1>6 DEF IsShortened

LEMMA CutParts ==
    ASSUME NEW l, NEW w, NEW c, NEW B, NEW E, NEW lo, NEW hi,
           RcvWindow(w, c, lo, hi), RcvBody(l, w, c, B, E, lo, hi),
           NEW b \in B, NEW p \in lo .. hi, b < p, p < E[b],
           NEW o, o = p - 1, NEW q, q = p + 1
    PROVE  /\ IsParted(l, Cut(l, c[b], c[p], w[p]), w, c, E, b, o, q)
           /\ q \in lo .. hi /\ q \notin B
<1>1. /\ l \in RcvLists /\ Apart(B, E)
      /\ B \in SUBSET (lo .. hi) /\ lo \in Int /\ hi \in Int
      /\ Window(RcvListSize, w, c, lo, hi)
      /\ w \in Wires /\ c \in Rings(RcvListSize) /\ hi - lo < RcvListSize
      /\ RcvListSize \in Nat \ {0}
  BY RcvBodyFacts
<1>2. /\ b \in lo .. hi /\ E[b] \in lo .. hi /\ b \in Int /\ E[b] \in Int
      /\ c[b] \in RcvSlots
  BY RcvNode
<1>3. p \in Int /\ q \in Int /\ q \in lo .. hi /\ q <= E[b] /\ b < q /\ p <= E[b]
  BY <1>1, <1>2
<1>4. (c[p] + 1) % RcvListSize = c[q] /\ IncSeq(w[p]) = w[q]
  <2>1. RcvListSize > 1 /\ RcvListSize \in Nat
    BY <1>1, <1>2, <1>3
  <2> QED
    BY <1>1, <1>3, <2>1, RingNext, WireStep
<1>5. q \notin B
  BY <1>1, <1>2, <1>3 DEF Apart
<1>6. c[q] \in RcvSlots /\ l.data2[c[q]] = Nil
  BY <1>1, <1>3, <1>5, RcvEmpty
<1>7. c[q] # c[b]
  BY <1>1, <1>2, <1>3, <1>5, RcvSlotsDiffer
<1>8. /\ (IF w[p] = IncSeq(l.data1[c[b]]) THEN Nil ELSE DecSeq(w[p])) = LastData(w, b, o)
      /\ LastData(w, b, o) \in SeqNos \cup {Nil}
      /\ l.data2[c[b]] = w[E[b]]
      /\ w[p] = l.data2[c[b]] <=> p = E[b]
  BY <1>3, CutFacts
<1>9. (IF SeqCmp(l.data2[c[b]], w[q]) > 0 THEN l.data2[c[b]] ELSE l.data2[c[q]])
        = LastData(w, q, E[b])
  <2>1. SeqCmp(w[E[b]], w[q]) > 0 <=> E[b] > q
    BY <1>1, <1>2, <1>3, WindowFacts
  <2> QED
    BY <1>2, <1>3, <1>6, <1>8, <2>1 DEF LastData
<1>10. w[q] \in SeqNos \cup {Nil} /\ LastData(w, q, E[b]) \in SeqNos \cup {Nil}
  <2>1. \A x \in lo .. hi : w[x] \in SeqNos
    BY <1>1, WindowFacts
  <2> QED
    BY <1>2, <1>3, <2>1 DEF LastData
<1>11. /\ l.data1 \in [RcvSlots -> SeqNos \cup {Nil}]
       /\ l.data2 \in [RcvSlots -> SeqNos \cup {Nil}]
       /\ l.next \in [RcvSlots -> RcvSlots \cup {Nil}]
       /\ l.prior \in [RcvSlots -> RcvSlots \cup {Nil}]
       /\ l.head \in RcvSlots \cup {Nil} /\ l.tail \in RcvSlots \cup {Nil}
       /\ l.length \in Int
  BY <1>1, RcvFields
<1> DEFINE d1 == [l.data1 EXCEPT ![c[q]] = w[q]]
           e2 == [l.data2 EXCEPT ![c[q]] = LastData(w, q, E[b])]
           d2 == [l.data2 EXCEPT ![c[b]] = LastData(w, b, o), ![c[q]] = LastData(w, q, E[b])]
           nx == [l.next EXCEPT ![c[q]] = l.next[c[b]], ![c[b]] = c[q]]
           pr == IF l.tail = c[b] THEN [l.prior EXCEPT ![c[q]] = c[b]]
                 ELSE [l.prior EXCEPT ![c[q]] = c[b], ![l.next[c[b]]] = c[q]]
           tl == IF l.tail = c[b] THEN c[q] ELSE l.tail
<1>12. /\ d1 \in [RcvSlots -> SeqNos \cup {Nil}] /\ d2 \in [RcvSlots -> SeqNos \cup {Nil}]
       /\ nx \in [RcvSlots -> RcvSlots \cup {Nil}]
  BY <1>2, <1>6, <1>8, <1>10, <1>11
<1>13. pr \in [RcvSlots -> RcvSlots \cup {Nil}]
  <2>1. PICK p1 : p1 = [l.prior EXCEPT ![c[q]] = c[b]]
    OBVIOUS
  <2>2. p1 \in [RcvSlots -> RcvSlots \cup {Nil}]
    BY <1>2, <1>6, <1>11, <2>1
  <2>3. pr = IF l.tail = c[b] THEN p1 ELSE [p1 EXCEPT ![l.next[c[b]]] = c[q]]
    BY <2>1
  <2> HIDE DEF pr
  <2> QED
    BY <1>6, <2>2, <2>3
<1>14. tl \in RcvSlots \cup {Nil}
  BY <1>6, <1>11
<1>15. PICK m, s : m = Cut(l, c[b], c[p], w[p]) /\ s = Part(l, c[b], c[q], w[q])
  OBVIOUS
<1>16. m = [data1 |-> d1, data2 |-> d2, next |-> nx, prior |-> pr,
            head |-> l.head, tail |-> tl, length |-> l.length]
  <2>1. w[p] # l.data2[c[b]]
    BY <1>2, <1>3, <1>8
  <2>2. m = EndBefore(s, c[b], w[p])
    BY <1>4, <1>15, <2>1 DEF Cut
  <2>3. s = [l EXCEPT !.data1 = d1, !.data2 = e2, !.next = nx, !.prior = pr, !.tail = tl]
    BY <1>1, <1>9, <1>15, ZenonT(60) DEF Part, RcvLists
  <2>4. d1[c[b]] = l.data1[c[b]]
    BY <1>2, <1>7, <1>11
  <2>5. d2 = [e2 EXCEPT ![c[b]] = LastData(w, b, o)]
    BY <1>2, <1>6, <1>7, <1>11
  <2> HIDE DEF d1, d2, nx, pr, tl, e2
  <2>6. s = [data1 |-> d1, data2 |-> e2, next |-> nx, prior |-> pr,
             head |-> l.head, tail |-> tl, length |-> l.length]
    BY <1>1, <2>3 DEF RcvLists
  <2>7. m = [s EXCEPT !.data2[c[b]] = LastData(w, b, o)]
    BY <1>8, <2>2, <2>4, <2>6 DEF EndBefore
  <2> QED
    BY <2>5, <2>6, <2>7
<1> HIDE DEF d1, d2, nx, pr, tl, e2
<1>17. /\ m \in RcvLists /\ m.length = l.length /\ m.data1 = d1 /\ m.data2 = d2
       /\ m.next = nx /\ m.prior = pr /\ m.head = l.head /\ m.tail = tl
  BY <1>1, <1>11, <1>12, <1>13, <1>14, <1>16 DEF RcvLists, Links, RcvSlots
<1>18. IsParted(l, m, w, c, E, b, o, q)
  BY <1>17 DEF IsParted, d1, d2, nx, pr, tl
<1> QED
  BY <1>3, <1>5, <1>15, <1>18

LEMMA ShortenedHolds ==
    ASSUME NEW l, NEW w, NEW c, NEW B, NEW E, NEW lo, NEW hi,
           RcvWindow(w, c, lo, hi), RcvBody(l, w, c, B, E, lo, hi),
           NEW b \in B, NEW p \in lo .. hi, b < p, p = E[b], NEW o, o = p - 1,
           NEW m, IsShortened(l, m, w, c, b, o)
    PROVE  RcvLoses(m, w, c, B, E, p, lo, hi)
<1>1. /\ l \in RcvLists /\ Spans(B, E, lo, hi) /\ Apart(B, E)
      /\ Stored(l.data1, l.data2, RcvListSize, w, c, B, E)
      /\ Linked(l.next, RcvListSize, c, B) /\ BackLinked(l.prior, RcvListSize, c, B)
      /\ HeadIs(l.head, c, B) /\ TailIs(l.tail, c, B)
      /\ B \in SUBSET (lo .. hi) /\ E \in [Int -> Int]
      /\ lo \in Int /\ hi \in Int /\ Window(RcvListSize, w, c, lo, hi)
  BY RcvBodyFacts
<1>2. /\ b \in lo .. hi /\ b \in Int /\ c[b] \in RcvSlots /\ l.data1[c[b]] = w[b]
  BY RcvNode
<1>3. p \in Int /\ o \in lo .. hi /\ o \in Int
  BY <1>1, <1>2
<1>4. PICK F : F = [E EXCEPT ![b] = o]
  OBVIOUS
<1>5. F \in [Int -> Int] /\ F[b] = o /\ \A x \in B : x # b => F[x] = E[x]
  BY <1>1, <1>2, <1>3, <1>4
<1>6. /\ \A x : x \in Covered(B, F) <=> x \in Covered(B, E) /\ x # p
      /\ Spans(B, F, lo, hi) /\ Apart(B, F)
  <2>1. Lacks(B, E, B, F, p, lo, hi)
    BY <1>1, <1>3, <1>5, CoveredShort
  <2> QED
    BY <2>1 DEF Lacks
<1>7. /\ m \in RcvLists /\ m.data1 = l.data1
      /\ m.data2 = [l.data2 EXCEPT ![c[b]] = LastData(w, b, o)]
      /\ m.next = l.next /\ m.prior = l.prior /\ m.head = l.head /\ m.tail = l.tail
  BY DEF IsShortened
<1>8. Stored(m.data1, m.data2, RcvListSize, w, c, B, F)
  <2>1. PICK d1, d2, g1, g2 :
           /\ d1 = l.data1 /\ d2 = l.data2 /\ g1 = [d1 EXCEPT ![c[b]] = w[b]]
           /\ g2 = [d2 EXCEPT ![c[b]] = LastData(w, b, o)]
    OBVIOUS
  <2>2. Stored(d1, d2, RcvListSize, w, c, B, E)
    BY <1>1, <2>1
  <2>3. Stored(g1, g2, RcvListSize, w, c, B \cup {b}, F)
    BY <1>1, <1>2, <1>3, <1>5, <2>1, <2>2, StoredPut
  <2>4. B \cup {b} = B
    OBVIOUS
  <2>5. d1 \in [RcvSlots -> SeqNos \cup {Nil}]
    BY <1>1, <2>1, RcvFields
  <2>6. g1 = d1
    BY <1>2, <2>1, <2>5
  <2> QED
    BY <1>7, <2>1, <2>3, <2>4, <2>6
<1>9. RcvBody(m, w, c, B, F, lo, hi)
  BY <1>1, <1>6, <1>7, <1>8 DEF RcvBody
<1> QED
  BY <1>6, <1>9 DEF RcvLoses

LEMMA PartedHolds ==
    ASSUME NEW l, NEW w, NEW c, NEW B, NEW E, NEW lo, NEW hi,
           RcvWindow(w, c, lo, hi), RcvBody(l, w, c, B, E, lo, hi),
           NEW b \in B, NEW p \in lo .. hi, b < p, p < E[b],
           NEW o, o = p - 1, NEW q, q = p + 1, q \in lo .. hi, q \notin B,
           NEW m, IsParted(l, m, w, c, E, b, o, q)
    PROVE  RcvLoses(m, w, c, B, E, p, lo, hi)
<1>1. /\ l \in RcvLists /\ Spans(B, E, lo, hi) /\ Apart(B, E)
      /\ Stored(l.data1, l.data2, RcvListSize, w, c, B, E)
      /\ Linked(l.next, RcvListSize, c, B) /\ BackLinked(l.prior, RcvListSize, c, B)
      /\ HeadIs(l.head, c, B) /\ TailIs(l.tail, c, B)
      /\ B \in SUBSET (lo .. hi) /\ B \in SUBSET Int /\ E \in [Int -> Int]
      /\ lo \in Int /\ hi \in Int /\ Window(RcvListSize, w, c, lo, hi)
  BY RcvBodyFacts
<1>2. /\ b \in lo .. hi /\ E[b] \in lo .. hi /\ b \in Int /\ E[b] \in Int
      /\ c[b] \in RcvSlots /\ l.data1[c[b]] = w[b]
  BY RcvNode
<1>3. p \in Int /\ o \in lo .. hi /\ o \in Int /\ q \in Int /\ b < q /\ q <= E[b] /\ b # q
  BY <1>1, <1>2
<1>4. \A x \in B : x \in Int /\ c[x] \in RcvSlots /\ c[x] # Nil /\ c[x] # c[q]
  BY <1>1, RcvNode, RcvSlotsDiffer, SMTT(30)
<1>5. \A x, y \in B : c[x] = c[y] => x = y
  BY <1>1, WindowFacts
<1>6. c[q] \in RcvSlots
  BY RcvEmpty
<1>7. PICK C : C = B \cup {q}
  OBVIOUS
<1>8. PICK G, F : G = [E EXCEPT ![b] = o] /\ F = [G EXCEPT ![q] = E[b]]
  OBVIOUS
<1>9. G \in [Int -> Int] /\ G[b] = o /\ \A x \in B : x # b => G[x] = E[x]
  BY <1>1, <1>2, <1>3, <1>8
<1>10. F \in [Int -> Int] /\ F[q] = E[b] /\ \A x \in B : x # q => F[x] = G[x]
  BY <1>2, <1>3, <1>8, <1>9
<1>11. F[b] = o /\ \A x \in B : x # b /\ x # q => F[x] = E[x]
  BY <1>3, <1>9, <1>10
<1>12. /\ \A x : x \in Covered(C, F) <=> x \in Covered(B, E) /\ x # p
       /\ Spans(C, F, lo, hi) /\ Apart(C, F)
  <2>1. Lacks(B, E, C, F, p, lo, hi)
    <3>1. IsCut(B, E, F, b, o, q)
      BY <1>10, <1>11 DEF IsCut
    <3> QED
      BY <1>1, <1>3, <1>7, <3>1, CoveredSplit
  <2> QED
    BY <2>1 DEF Lacks
<1>13. /\ m \in RcvLists
       /\ m.data1 = [l.data1 EXCEPT ![c[q]] = w[q]]
       /\ m.data2 = [l.data2 EXCEPT ![c[b]] = LastData(w, b, o),
                                    ![c[q]] = LastData(w, q, E[b])]
       /\ m.next = [l.next EXCEPT ![c[q]] = l.next[c[b]], ![c[b]] = c[q]]
       /\ m.prior = IF l.tail = c[b] THEN [l.prior EXCEPT ![c[q]] = c[b]]
                    ELSE [l.prior EXCEPT ![c[q]] = c[b], ![l.next[c[b]]] = c[q]]
       /\ m.head = l.head /\ m.tail = IF l.tail = c[b] THEN c[q] ELSE l.tail
  BY DEF IsParted
<1>14. Stored(m.data1, m.data2, RcvListSize, w, c, C, F)
  <2>1. PICK d1, d2, g1, g2, f1, f2, e :
           /\ d1 = l.data1 /\ d2 = l.data2 /\ f1 = m.data1 /\ f2 = m.data2
           /\ g1 = [d1 EXCEPT ![c[b]] = w[b]] /\ g2 = [d2 EXCEPT ![c[b]] = LastData(w, b, o)]
           /\ e = E[b]
    OBVIOUS
  <2>2. Stored(d1, d2, RcvListSize, w, c, B, E) /\ e \in lo .. hi /\ F[q] = e
    BY <1>1, <1>2, <1>10, <2>1
  <2>3. Stored(g1, g2, RcvListSize, w, c, B \cup {b}, G)
    BY <1>1, <1>2, <1>3, <1>9, <2>1, <2>2, StoredPut
  <2>4. B \cup {b} = B
    OBVIOUS
  <2>5. Stored(g1, g2, RcvListSize, w, c, B, G)
    BY <2>3, <2>4
  <2>6. d1 \in [RcvSlots -> SeqNos \cup {Nil}]
    BY <1>1, <2>1, RcvFields
  <2>7. g1 = d1
    BY <1>2, <2>1, <2>6
  <2>8. f1 = [g1 EXCEPT ![c[q]] = w[q]] /\ f2 = [g2 EXCEPT ![c[q]] = LastData(w, q, e)]
    BY <1>13, <2>1, <2>7
  <2>9. Stored(f1, f2, RcvListSize, w, c, B \cup {q}, F)
    BY <1>1, <1>9, <1>10, <2>2, <2>5, <2>8, StoredPut
  <2> QED
    BY <1>7, <2>1, <2>9
<1>15. \A x \in B : x <= b \/ q < x
  <2>1. \A x \in B : b < x => E[b] < x
    BY <1>1 DEF Apart
  <2> QED
    BY <1>2, <1>3, <1>4, <2>1
<1>16. Linked(m.next, RcvListSize, c, C)
  <2>1. PICK nx, f : nx = l.next /\ f = m.next
    OBVIOUS
  <2>2. f = [nx EXCEPT ![c[q]] = nx[c[b]], ![c[b]] = c[q]] /\ Linked(nx, RcvListSize, c, B)
    BY <1>1, <1>13, <2>1
  <2>3. Linked(f, RcvListSize, c, B \cup {q})
    BY <1>1, <1>3, <1>15, <2>2, LinkAfter
  <2> QED
    BY <1>7, <2>1, <2>3
<1>17. NodeLinks(l, c, B, b)
  BY RcvLinks
<1>18. /\ l.tail = c[b] <=> IsLast(B, b)
       /\ \/ IsLast(B, b) /\ l.next[c[b]] = Nil
          \/ \E d \in B : Follows(B, b, d) /\ l.next[c[b]] = c[d] /\ l.next[c[b]] # Nil
  BY <1>17 DEF NodeLinks
<1>19. BackLinked(m.prior, RcvListSize, c, C)
  <2>1. /\ l.prior \in [RcvSlots -> RcvSlots \cup {Nil}]
        /\ m.prior \in Links(RcvListSize)
    BY <1>1, <1>13, RcvFields
  <2>2. IsBackPut(l.prior, m.prior, RcvListSize, c, B, b, q)
    <3>1. CASE IsLast(B, b)
      <4>1. m.prior = [l.prior EXCEPT ![c[q]] = c[b]]
        BY <1>13, <1>18, <3>1
      <4>2. \A d \in B : ~Follows(B, b, d)
        BY <1>4, <3>1 DEF Follows, IsLast
      <4>3. m.prior[c[q]] = c[b]
        BY <1>6, <2>1, <4>1
      <4>4. \A d \in B : m.prior[c[d]] = l.prior[c[d]]
        BY <1>4, <2>1, <4>1
      <4> QED
        BY <2>1, <4>2, <4>3, <4>4 DEF IsBackPut
    <3>2. CASE ~IsLast(B, b)
      <4>1. PICK a \in B : Follows(B, b, a) /\ l.next[c[b]] = c[a]
        BY <1>18, <3>2
      <4>2. m.prior = [l.prior EXCEPT ![c[q]] = c[b], ![c[a]] = c[q]]
        BY <1>13, <1>18, <3>2, <4>1
      <4>3. m.prior[c[q]] = c[b]
        BY <1>4, <1>6, <2>1, <4>2
      <4>4. m.prior[c[a]] = c[q]
        BY <1>4, <2>1, <4>2
      <4>5. \A d \in B : d # a => m.prior[c[d]] = l.prior[c[d]]
        BY <1>4, <1>5, <2>1, <4>2
      <4>6. \A d \in B : Follows(B, b, d) <=> d = a
        BY <1>1, <4>1, FollowsOne
      <4>7. \A d \in B : m.prior[c[d]] = IF Follows(B, b, d) THEN c[q] ELSE l.prior[c[d]]
        BY <4>4, <4>5, <4>6
      <4> QED
        BY <2>1, <4>3, <4>7 DEF IsBackPut
    <3> QED
      BY <3>1, <3>2
  <2>3. PICK pr, f : pr = l.prior /\ f = m.prior
    OBVIOUS
  <2>4. BackLinked(pr, RcvListSize, c, B) /\ IsBackPut(pr, f, RcvListSize, c, B, b, q)
    BY <1>1, <2>2, <2>3
  <2>5. BackLinked(f, RcvListSize, c, B \cup {q})
    BY <1>1, <1>3, <1>15, <2>4, BackPut
  <2> QED
    BY <1>7, <2>3, <2>5
<1>20. HeadIs(m.head, c, C)
  <2>1. \A x \in C : IsFirst(C, x) => x \in B /\ IsFirst(B, x)
    BY <1>2, <1>3, <1>7 DEF IsFirst
  <2> QED
    BY <1>1, <1>7, <1>13, <2>1 DEF HeadIs
<1>21. TailIs(m.tail, c, C)
  <2>1. CASE IsLast(B, b)
    <3>1. \A x \in C : IsLast(C, x) => x = q
      BY <1>3, <1>4, <1>7, <2>1 DEF IsLast
    <3>2. m.tail = c[q]
      BY <1>13, <1>18, <2>1
    <3> QED
      BY <3>1, <3>2 DEF TailIs
  <2>2. CASE ~IsLast(B, b)
    <3>1. PICK d \in B : b < d
      BY <1>2, <1>4, <2>2 DEF IsLast
    <3>2. q < d
      BY <1>2, <1>3, <1>4, <1>15, <3>1
    <3>3. \A x \in C : IsLast(C, x) => x \in B /\ IsLast(B, x)
      BY <1>3, <1>4, <1>7, <3>1, <3>2 DEF IsLast
    <3>4. m.tail = l.tail
      BY <1>13, <1>18, <2>2
    <3> QED
      BY <1>1, <3>3, <3>4 DEF TailIs
  <2> QED
    BY <2>1, <2>2
<1>22. RcvBody(m, w, c, C, F, lo, hi)
  BY <1>12, <1>13, <1>14, <1>16, <1>19, <1>20, <1>21 DEF RcvBody
<1> QED
  BY <1>12, <1>22 DEF RcvLoses

\* A number that is not the first of its node leaves the list.
LEMMA CutLoses ==
    ASSUME NEW l, NEW w, NEW c, NEW B, NEW E, NEW lo, NEW hi,
           RcvWindow(w, c, lo, hi), RcvBody(l, w, c, B, E, lo, hi),
           NEW b \in B, NEW p \in lo .. hi, b < p, p <= E[b]
    PROVE  /\ RcvLoses(Cut(l, c[b], c[p], w[p]), w, c, B, E, p, lo, hi)
           /\ Cut(l, c[b], c[p], w[p]).length = l.length
<1>1. p \in Int /\ E[b] \in Int
  BY RcvNode, RcvBodyFacts
<1>2. PICK o, q, m : o = p - 1 /\ q = p + 1 /\ m = Cut(l, c[b], c[p], w[p])
  OBVIOUS
<1>3. CASE p = E[b]
  <2>1. IsShortened(l, m, w, c, b, o)
    BY <1>2, <1>3, CutShort
  <2>2. RcvLoses(m, w, c, B, E, p, lo, hi)
    BY <1>2, <1>3, <2>1, ShortenedHolds
  <2> QED
    BY <1>2, <2>1, <2>2 DEF IsShortened
<1>4. CASE p < E[b]
  <2>1. IsParted(l, m, w, c, E, b, o, q) /\ q \in lo .. hi /\ q \notin B
    BY <1>2, <1>4, CutParts
  <2>2. RcvLoses(m, w, c, B, E, p, lo, hi)
    BY <1>2, <1>4, <2>1, PartedHolds
  <2> QED
    BY <1>2, <2>1, <2>2 DEF IsParted
<1> QED
  BY <1>1, <1>3, <1>4

\* remove counts first.
LEMMA ShorterBody ==
    ASSUME NEW l, NEW w, NEW c, NEW B, NEW E, NEW lo, NEW hi,
           RcvWindow(w, c, lo, hi), RcvBody(l, w, c, B, E, lo, hi),
           NEW k, k = [l EXCEPT !.length = @ - 1]
    PROVE  /\ RcvBody(k, w, c, B, E, lo, hi)
           /\ k.length = l.length - 1 /\ k.data1 = l.data1 /\ k.data2 = l.data2
<1>1. l \in RcvLists
  BY RcvBodyFacts
<1>2. l.length \in Int
  BY <1>1, RcvFields
<1>3. /\ k \in RcvLists /\ k.length = l.length - 1 /\ k.data1 = l.data1 /\ k.data2 = l.data2
      /\ k.next = l.next /\ k.prior = l.prior /\ k.head = l.head /\ k.tail = l.tail
  BY <1>1, <1>2 DEF RcvLists
<1> QED
  BY <1>3 DEF RcvBody

\* remove(seqno): that number leaves the list, if it is in it.
LEMMA RcvRemoveHolds ==
    ASSUME NEW l, NEW w, NEW S, NEW lo, NEW hi, RcvHolds(l, w, S, lo, hi),
           NEW p \in lo .. hi, NEW T, \A x : x \in T <=> x \in S /\ x # p
    PROVE  RcvHolds(RcvRemove(l, w[p]), w, T, lo, hi)
<1>1. PICK c, B, E : /\ RcvWindow(w, c, lo, hi) /\ RcvRep(l, w, c, B, E, lo, hi)
                     /\ Covered(B, E) = S
  BY DEF RcvHolds
<1>2. RcvBody(l, w, c, B, E, lo, hi) /\ (l.length = 0 <=> B = {})
  BY <1>1, RcvRepFacts
<1>3. /\ Apart(B, E) /\ Spans(B, E, lo, hi)
      /\ B \in SUBSET (lo .. hi) /\ lo \in Int /\ hi \in Int
      /\ Window(RcvListSize, w, c, lo, hi)
  BY <1>1, <1>2, RcvBodyFacts
<1>4. \A x \in B : x \in Int /\ x <= E[x] /\ E[x] \in Int
  BY <1>3 DEF Spans
<1>5. p \in Int
  BY <1>3
<1>6. ASSUME p \notin S, RcvRemove(l, w[p]) = l
      PROVE  RcvHolds(RcvRemove(l, w[p]), w, T, lo, hi)
  <2>1. \A x : x \in S <=> x \in T
    BY <1>6
  <2>2. S = T
    BY <2>1
  <2> QED
    BY <1>6, <2>2
<1>7. CASE B = {}
  <2>1. p \notin S
    BY <1>1, <1>7 DEF Covered
  <2>2. RcvRemove(l, w[p]) = l
    BY <1>2, <1>7 DEF RcvRemove
  <2> QED
    BY <1>6, <2>1, <2>2
<1>8. CASE B # {}
  <2>1. PICK h \in B : RcvHeadIs(l, w, c, B, h, lo, hi)
    BY <1>1, <1>2, <1>8, RcvHead
  <2>2. /\ IsFirst(B, h) /\ l.head = c[h] /\ l.data1[l.head] = w[h]
        /\ SeqOff(l.data1[l.head], w[p]) = p - h
        /\ h <= p => (l.head + SeqOff(l.data1[l.head], w[p])) % RcvListSize = c[p]
    BY <2>1 DEF RcvHeadIs
  <2>3. h \in Int /\ \A x \in S : x \in Int /\ h <= x
    BY <1>1, <1>4, <2>2 DEF Covered, IsFirst
  <2>4. CASE p < h
    <3>1. p \notin S
      BY <1>5, <2>3, <2>4
    <3>2. p - h < 0
      BY <1>5, <2>3, <2>4
    <3>3. RcvRemove(l, w[p]) = l
      BY <2>2, <3>2 DEF RcvRemove
    <3> QED
      BY <1>6, <3>1, <3>3
  <2>5. CASE h <= p
    <3>1. ~(l.length = 0 \/ SeqOff(l.data1[l.head], w[p]) < 0)
      BY <1>2, <1>5, <1>8, <2>2, <2>3, <2>5
    <3>2. PICK k, i : k = [l EXCEPT !.length = @ - 1] /\ i = NodeBefore(l, c[p])
      OBVIOUS
    <3>3. RcvRemove(l, w[p]) =
            IF w[p] = l.data1[c[p]]
              THEN IF l.data2[c[p]] = Nil THEN Unlink(k, c[p]) ELSE Advance(k, c[p])
            ELSE IF l.data2[i] = Nil \/ SeqCmp(w[p], l.data2[i]) > 0 THEN l
            ELSE Cut(k, i, c[p], w[p])
      BY <2>2, <2>5, <3>1, <3>2 DEF RcvRemove
    <3>4. /\ RcvBody(k, w, c, B, E, lo, hi)
          /\ k.length = l.length - 1 /\ k.data1 = l.data1 /\ k.data2 = l.data2
      BY <1>1, <1>2, <3>2, ShorterBody
    <3>5. w[p] = l.data1[c[p]] <=> p \in B
      <4>1. p \in B => l.data1[c[p]] = w[p]
        BY <1>1, <1>2, RcvNode
      <4>2. p \notin B => l.data1[c[p]] = Nil
        BY <1>1, <1>2, RcvEmpty
      <4>3. w[p] # Nil
        BY <1>3, WindowFacts
      <4> QED
        BY <4>1, <4>2, <4>3
    <3>6. ASSUME NEW m, RcvLoses(m, w, c, B, E, p, lo, hi), m.length = k.length,
                 RcvRemove(l, w[p]) = m, p \in S
          PROVE  RcvHolds(RcvRemove(l, w[p]), w, T, lo, hi)
      <4>1. p \in Covered(B, E) /\ m.length = l.length - 1
        BY <1>1, <3>4, <3>6
      <4>2. \A x : x \in T <=> x \in Covered(B, E) /\ x # p
        BY <1>1
      <4>3. RcvHolds(m, w, T, lo, hi)
        BY <1>1, <3>6, <4>1, <4>2, RcvLost
      <4> QED
        BY <3>6, <4>3
    <3>7. CASE p \in B
      <4>1. l.data2[c[p]] = Nil <=> E[p] = p
        BY <1>1, <1>2, <3>7, RcvNode
      <4>2. p \in S
        BY <1>1, <1>4, <3>7 DEF Covered
      <4>3. CASE E[p] = p
        <5>1. /\ RcvLoses(Unlink(k, c[p]), w, c, B, E, p, lo, hi)
              /\ Unlink(k, c[p]).length = k.length
          BY <1>1, <3>4, <3>7, <4>3, UnlinkLoses
        <5>2. RcvRemove(l, w[p]) = Unlink(k, c[p])
          BY <3>3, <3>5, <3>7, <4>1, <4>3
        <5> QED
          BY <3>6, <4>2, <5>1, <5>2
      <4>4. CASE p < E[p]
        <5>1. /\ RcvLoses(Advance(k, c[p]), w, c, B, E, p, lo, hi)
              /\ Advance(k, c[p]).length = k.length
          BY <1>1, <3>4, <3>7, <4>4, AdvanceLoses
        <5>2. RcvRemove(l, w[p]) = Advance(k, c[p])
          BY <1>4, <3>3, <3>5, <3>7, <4>1, <4>4
        <5> QED
          BY <3>6, <4>2, <5>1, <5>2
      <4> QED
        BY <1>4, <1>5, <3>7, <4>3, <4>4
    <3>8. CASE p \notin B
      <4>1. h < p
        BY <1>5, <2>3, <2>5, <3>8
      <4>2. NodeFound(l, c, B, p)
        BY <1>1, <1>2, <4>1, NodeBeforeIs
      <4>3. PICK b \in B : Below(B, b, p) /\ i = c[b]
        BY <3>2, <4>2 DEF NodeFound
      <4>4. b < p /\ \A x \in B : x <= b \/ p <= x
        BY <4>3 DEF Below
      <4>5. /\ b \in Int /\ E[b] \in Int /\ E[b] \in lo .. hi
            /\ l.data2[c[b]] = Nil <=> E[b] = b
            /\ l.data2[c[b]] # Nil => l.data2[c[b]] = w[E[b]]
        BY <1>1, <1>2, RcvNode
      <4>6. SeqCmp(w[p], w[E[b]]) > 0 <=> p > E[b]
        BY <1>3, <4>5, WindowFacts
      <4>7. CASE E[b] < p
        <5>1. p \notin S
          <6>1. ASSUME NEW x \in B, x <= p, p <= E[x] PROVE FALSE
            <7>1. x < b => E[x] < b
              BY <1>3 DEF Apart
            <7>2. x <= b
              BY <1>4, <1>5, <3>8, <4>4, <6>1
            <7> QED
              BY <1>4, <1>5, <4>4, <4>5, <4>7, <6>1, <7>1, <7>2
          <6> QED
            BY <1>1, <6>1 DEF Covered
        <5>2. RcvRemove(l, w[p]) = l
          BY <1>5, <3>3, <3>5, <3>8, <4>3, <4>5, <4>6, <4>7
        <5> QED
          BY <1>6, <5>1, <5>2
      <4>8. CASE p <= E[b]
        <5>1. /\ RcvLoses(Cut(k, c[b], c[p], w[p]), w, c, B, E, p, lo, hi)
              /\ Cut(k, c[b], c[p], w[p]).length = k.length
          BY <1>1, <3>4, <4>4, <4>8, CutLoses
        <5>2. RcvRemove(l, w[p]) = Cut(k, c[b], c[p], w[p])
          BY <1>5, <3>3, <3>5, <3>8, <4>3, <4>4, <4>5, <4>6, <4>8
        <5>3. p \in S
          BY <1>1, <1>5, <4>4, <4>5, <4>8 DEF Covered
        <5> QED
          BY <3>6, <5>1, <5>2, <5>3
      <4> QED
        BY <1>5, <4>5, <4>7, <4>8
    <3> QED
      BY <3>7, <3>8
  <2> QED
    BY <1>5, <2>3, <2>4, <2>5
<1> QED
  BY <1>7, <1>8

\* From anywhere the search backwards ends at some node.
LEMMA NodeBeforeSome ==
    ASSUME NEW l, NEW w, NEW c, NEW B, NEW E, NEW lo, NEW hi,
           RcvWindow(w, c, lo, hi), RcvBody(l, w, c, B, E, lo, hi), B # {},
           NEW s \in RcvSlots
    PROVE  \E b \in B : NodeBefore(l, s) = c[b]
<1>1. /\ l \in RcvLists /\ RcvListSize \in Nat \ {0}
      /\ Stored(l.data1, l.data2, RcvListSize, w, c, B, E)
      /\ Window(RcvListSize, w, c, lo, hi) /\ B \in SUBSET (lo .. hi)
  BY RcvBodyFacts
<1>2. PICK a \in B : TRUE
  OBVIOUS
<1>3. PICK k \in RcvSlots : k = c[a] /\ l.data1[k] # Nil
  <2>1. c[a] \in RcvSlots /\ l.data1[c[a]] = w[a]
    BY RcvNode
  <2>2. w[a] # Nil
    BY <1>1, WindowFacts
  <2> QED
    BY <2>1, <2>2
<1> DEFINE Back == [i \in RcvSlots |-> (i - 1 + RcvListSize) % RcvListSize]
           Stop == {i \in RcvSlots : l.data1[i] # Nil}
           V == [i \in RcvSlots |-> IF i >= k THEN i - k ELSE i - k + RcvListSize]
<1>4. ASSUME NEW i \in RcvSlots
      PROVE  Back[i] = IF i = 0 THEN RcvListSize - 1 ELSE i - 1
  <2>1. CASE i = 0
    <3>1. RcvListSize - 1 \in 0 .. RcvListSize - 1 /\ 0 - 1 + RcvListSize = RcvListSize - 1
      BY <1>1
    <3> QED
      BY <1>1, <2>1, <3>1, ModSmall
  <2>2. CASE i # 0
    <3>1. i - 1 \in 0 .. RcvListSize - 1
      BY <1>1, <2>2 DEF RcvSlots
    <3> QED
      BY <1>1, <2>2, <3>1, ModSmall
  <2> QED
    BY <2>1, <2>2
<1>5. \A i \in RcvSlots : Back[i] \in RcvSlots
  BY <1>1, <1>4 DEF RcvSlots
<1>6. V \in [RcvSlots -> Nat]
  <2>1. \A i \in RcvSlots : (IF i >= k THEN i - k ELSE i - k + RcvListSize) \in Nat
    BY <1>1 DEF RcvSlots
  <2> QED
    BY <2>1
<1>7. ASSUME NEW i \in RcvSlots, i \notin Stop PROVE V[Back[i]] < V[i]
  <2>1. i # k
    BY <1>3, <1>7
  <2>2. PICK j \in RcvSlots : j = Back[i] /\ j = IF i = 0 THEN RcvListSize - 1 ELSE i - 1
    BY <1>4, <1>5
  <2>3. /\ V[i] = IF i >= k THEN i - k ELSE i - k + RcvListSize
        /\ V[j] = IF j >= k THEN j - k ELSE j - k + RcvListSize
    OBVIOUS
  <2> HIDE DEF V, Back, Stop
  <2>4. V[j] < V[i]
    BY <1>1, <2>1, <2>2, <2>3 DEF RcvSlots
  <2> QED
    BY <2>2, <2>4
<1>8. PICK g : IsLoop(g, RcvSlots, Stop, Back)
  <2>1. StaysIn(RcvSlots, Stop, Back)
    BY <1>5 DEF StaysIn
  <2> QED
    BY <2>1, LoopExists
<1>9. g = [i \in RcvSlots |-> IF l.data1[i] = Nil
                                THEN g[(i - 1 + RcvListSize) % RcvListSize] ELSE i]
  BY <1>8 DEF IsLoop
<1>10. PICK h : /\ h = [i \in RcvSlots |-> IF l.data1[i] = Nil
                                THEN h[(i - 1 + RcvListSize) % RcvListSize] ELSE i]
                /\ NodeBefore(l, s) = h[(s - 1 + RcvListSize) % RcvListSize]
  BY <1>9 DEF NodeBefore
<1>11. IsLoop(h, RcvSlots, Stop, Back)
  <2>1. \A i \in RcvSlots : h[i] = IF i \in Stop THEN i ELSE h[Back[i]]
    BY <1>10
  <2>2. h = [i \in RcvSlots |-> h[i]]
    BY <1>10
  <2> QED
    BY <2>1, <2>2 DEF IsLoop
<1>12. \A i \in RcvSlots : h[i] \in RcvSlots \cap Stop
  <2>1. Decreases(V, RcvSlots, Stop, Back)
    BY <1>5, <1>6, <1>7 DEF Decreases
  <2>2. RcvSlots \in SUBSET RcvSlots
    OBVIOUS
  <2> HIDE DEF V, Stop, Back
  <2> QED
    BY <1>11, <2>1, <2>2, LoopEnds
<1>13. PICK i \in RcvSlots : NodeBefore(l, s) = i /\ l.data1[i] # Nil
  <2>1. NodeBefore(l, s) = h[Back[s]]
    BY <1>10
  <2> QED
    BY <1>5, <1>12, <2>1
<1> QED
  BY <1>1, <1>13 DEF Stored, RcvSlots

\* A number before or after the window is not in the list.
LEMMA RcvRemoveOutside ==
    ASSUME NEW l, NEW w, NEW S, NEW lo, NEW hi, RcvHolds(l, w, S, lo, hi),
           NEW p \in Int, p < lo \/ hi < p, p - lo < SeqNoTH, hi - p < SeqNoTH
    PROVE  RcvRemove(l, w[p]) = l
<1>1. PICK c, B, E : /\ RcvWindow(w, c, lo, hi) /\ RcvRep(l, w, c, B, E, lo, hi)
  BY DEF RcvHolds
<1>2. RcvBody(l, w, c, B, E, lo, hi) /\ (l.length = 0 <=> B = {})
  BY <1>1, RcvRepFacts
<1>3. /\ l \in RcvLists /\ B \in SUBSET (lo .. hi) /\ B \in SUBSET Int
      /\ lo \in Int /\ hi \in Int /\ Window(RcvListSize, w, c, lo, hi)
      /\ Stored(l.data1, l.data2, RcvListSize, w, c, B, E)
      /\ RcvListSize \in Nat \ {0} /\ w \in Wires
  BY <1>1, <1>2, RcvBodyFacts
<1>4. CASE B = {}
  BY <1>2, <1>4 DEF RcvRemove
<1>5. CASE B # {}
  <2>1. PICK h \in B : RcvHeadIs(l, w, c, B, h, lo, hi)
    BY <1>1, <1>2, <1>5, RcvHead
  <2>2. l.head = c[h] /\ l.data1[l.head] = w[h] /\ h \in lo .. hi /\ h \in Int
    BY <1>3, <2>1 DEF RcvHeadIs
  <2>3. SeqOff(w[h], w[p]) = p - h
    <3>1. p - h < SeqNoTH /\ h - p < SeqNoTH
      BY <1>3, <2>2, SeqNoAssumption
    <3> QED
      BY <1>3, <2>2, <3>1, WireOffset
  <2>4. CASE p < lo
    <3>1. p - h < 0
      BY <1>3, <2>2, <2>4
    <3> QED
      BY <2>2, <2>3, <3>1 DEF RcvRemove
  <2>5. CASE hi < p
    <3>1. ~(l.length = 0 \/ SeqOff(l.data1[l.head], w[p]) < 0)
      <4>1. ~(p - h < 0)
        BY <1>3, <2>2, <2>5
      <4> QED
        BY <1>2, <1>5, <2>2, <2>3, <4>1
    <3>2. PICK s : s = (l.head + SeqOff(l.data1[l.head], w[p])) % RcvListSize
      OBVIOUS
    <3>3. s \in RcvSlots
      <4>1. c[h] \in RcvSlots
        BY <1>1, <1>2, RcvNode
      <4>2. PICK x \in Int : x = c[h] + (p - h)
        BY <2>2, <4>1 DEF RcvSlots
      <4>3. s = x % RcvListSize
        BY <2>2, <2>3, <3>2, <4>2
      <4> QED
        BY <1>3, <4>2, <4>3, ModQuotient DEF RcvSlots
    <3>4. PICK b \in B : NodeBefore(l, s) = c[b]
      BY <1>1, <1>2, <1>5, <3>3, NodeBeforeSome
    <3>5. w[p] # l.data1[s]
      <4>1. CASE \E x \in B : s = c[x]
        <5>1. PICK x \in B : s = c[x]
          BY <4>1
        <5>2. l.data1[s] = w[x] /\ x \in lo .. hi /\ x \in Int
          BY <1>1, <1>2, <5>1, RcvNode
        <5>3. p - x < SeqNoTH /\ x - p < SeqNoTH /\ p # x
          BY <1>3, <2>5, <5>2, SeqNoAssumption
        <5> QED
          BY <1>3, <5>2, <5>3, WireOrder
      <4>2. CASE ~\E x \in B : s = c[x]
        <5>1. l.data1[s] = Nil
          BY <1>3, <3>3, <4>2 DEF Stored, RcvSlots
        <5> QED
          BY <1>3, <5>1, WireAt
      <4> QED
        BY <4>1, <4>2
    <3>6. l.data2[c[b]] = Nil \/ SeqCmp(w[p], l.data2[c[b]]) > 0
      <4>1. /\ E[b] \in Int /\ E[b] \in lo .. hi
            /\ l.data2[c[b]] # Nil => l.data2[c[b]] = w[E[b]]
        BY <1>1, <1>2, RcvNode
      <4>2. p - E[b] < SeqNoTH /\ E[b] - p < SeqNoTH /\ p > E[b]
        BY <1>3, <2>5, <4>1, SeqNoAssumption
      <4>3. SeqCmp(w[p], w[E[b]]) > 0
        BY <1>3, <4>1, <4>2, WireOrder
      <4> QED
        BY <4>1, <4>3
    <3> QED
      BY <3>1, <3>2, <3>4, <3>5, <3>6 DEF RcvRemove
  <2> QED
    BY <2>4, <2>5
<1> QED
  BY <1>4, <1>5

\* remove(seqno) takes a number out, wherever it is.
LEMMA RcvRemoveAnywhere ==
    ASSUME NEW l, NEW w, NEW S \in SUBSET Int, NEW lo \in Int, NEW hi \in Int,
           RcvHolds(l, w, S, lo, hi), S \in SUBSET (lo .. hi),
           NEW p \in Int, p - lo < SeqNoTH, hi - p < SeqNoTH,
           NEW T, \A x : x \in T <=> x \in S /\ x # p
    PROVE  RcvHolds(RcvRemove(l, w[p]), w, T, lo, hi)
<1>1. CASE p \in lo .. hi
  BY <1>1, RcvRemoveHolds
<1>2. CASE p \notin lo .. hi
  <2>1. p < lo \/ hi < p
    BY <1>2
  <2>2. RcvRemove(l, w[p]) = l
    BY <2>1, RcvRemoveOutside
  <2>3. p \notin S
    BY <1>2
  <2>4. \A x : x \in S <=> x \in T
    BY <2>3
  <2>5. S = T
    BY <2>4
  <2> QED
    BY <2>2, <2>5
<1> QED
  BY <1>1, <1>2

\* What m is when p .. q have become the last node of l.
IsPutLast(l, m, w, loc, p, q) ==
    /\ m \in RcvLists
    /\ m.data1 = [l.data1 EXCEPT ![loc] = w[p]]
    /\ m.data2 = [l.data2 EXCEPT ![loc] = LastData(w, p, q)]
    /\ m.tail = loc /\ m.length = l.length + (q - p + 1)

IsAppended(l, m, w, loc, p, q) ==
    /\ IsPutLast(l, m, w, loc, p, q) /\ m.head = l.head /\ m.prior = l.prior
    /\ m.next = [l.next EXCEPT ![loc] = Nil]

LEMMA PutLastFields ==
    ASSUME NEW l \in RcvLists, NEW w \in Wires, NEW p \in Int, NEW q \in Int,
           p <= q, q - p < SeqNoTH, NEW loc \in RcvSlots, l.data2[loc] = Nil,
           NEW m, m = PutLast(l, loc, w[p], w[q])
    PROVE  IsAppended(l, m, w, loc, p, q)
<1>1. /\ l.data1 \in [RcvSlots -> SeqNos \cup {Nil}]
      /\ l.data2 \in [RcvSlots -> SeqNos \cup {Nil}]
      /\ l.next \in [RcvSlots -> RcvSlots \cup {Nil}] /\ l.length \in Int
  BY RcvFields
<1>2. q - p <= MaxSeqNo /\ p - q < SeqNoTH
  BY SeqNoAssumption
<1>3. SeqLen(w[p], w[q]) = q - p + 1
  BY <1>2, WireLen
<1>4. w[q] = w[p] <=> q = p
  BY <1>2, WireOrder
<1>5. w[p] \in SeqNos /\ w[q] \in SeqNos
  BY WireAt
<1> DEFINE d1 == [l.data1 EXCEPT ![loc] = w[p]]
           d2 == [l.data2 EXCEPT ![loc] = LastData(w, p, q)]
           nx == [l.next EXCEPT ![loc] = Nil]
           len == l.length + (q - p + 1)
<1>6. /\ d1 \in [RcvSlots -> SeqNos \cup {Nil}] /\ d2 \in [RcvSlots -> SeqNos \cup {Nil}]
      /\ nx \in [RcvSlots -> RcvSlots \cup {Nil}] /\ len \in Int
  BY <1>1, <1>5 DEF LastData
<1>7. (IF w[q] # w[p] THEN w[q] ELSE l.data2[loc]) = LastData(w, p, q)
  BY <1>4 DEF LastData
<1>8. m = [l EXCEPT !.data1 = d1, !.data2 = d2, !.next = nx, !.tail = loc, !.length = len]
  BY <1>3, <1>7 DEF PutLast, RcvLists
<1> HIDE DEF d1, d2, nx, len
<1>9. /\ m \in RcvLists /\ m.data1 = d1 /\ m.data2 = d2 /\ m.next = nx /\ m.prior = l.prior
      /\ m.head = l.head /\ m.tail = loc /\ m.length = len
  BY <1>6, <1>8, ZenonT(60) DEF RcvLists, Links, RcvSlots
<1> QED
  BY <1>9 DEF IsAppended, IsPutLast, d1, d2, nx, len

LEMMA LastPut ==
    ASSUME NEW l, NEW w, NEW c, NEW B, NEW E, NEW lo, NEW hi,
           RcvWindow(w, c, lo, hi), RcvRep(l, w, c, B, E, lo, hi),
           NEW p \in lo .. hi, NEW q \in lo .. hi, p <= q, \A x \in B : E[x] < p,
           NEW m, IsPutLast(l, m, w, c[p], p, q), NEW C, C = B \cup {p},
           Linked(m.next, RcvListSize, c, C), BackLinked(m.prior, RcvListSize, c, C),
           HeadIs(m.head, c, C)
    PROVE  RcvHolds(m, w, Covered(B, E) \cup (p .. q), lo, hi)
<1>1. RcvBody(l, w, c, B, E, lo, hi) /\ l.length = Cardinality(Covered(B, E))
  BY RcvRepFacts
<1>2. /\ Spans(B, E, lo, hi) /\ Apart(B, E)
      /\ Stored(l.data1, l.data2, RcvListSize, w, c, B, E)
      /\ B \in SUBSET (lo .. hi) /\ E \in [Int -> Int]
      /\ lo \in Int /\ hi \in Int /\ Window(RcvListSize, w, c, lo, hi)
  BY <1>1, RcvBodyFacts
<1>3. /\ \A x \in B : x \in Int /\ x <= E[x] /\ E[x] <= hi /\ E[x] \in Int
      /\ p \in Int /\ q \in Int
  BY <1>2 DEF Spans
<1>4. \A x \in B : x < p
  BY <1>3
<1>5. PICK F : F = [E EXCEPT ![p] = q]
  OBVIOUS
<1>6. F \in [Int -> Int] /\ F[p] = q /\ \A x \in B : x # p => F[x] = E[x]
  BY <1>2, <1>3, <1>5
<1>7. /\ m \in RcvLists /\ m.tail = c[p] /\ m.length = l.length + (q - p + 1)
      /\ m.data1 = [l.data1 EXCEPT ![c[p]] = w[p]]
      /\ m.data2 = [l.data2 EXCEPT ![c[p]] = LastData(w, p, q)]
  BY DEF IsPutLast
<1>8. Stored(m.data1, m.data2, RcvListSize, w, c, C, F)
  <2>1. PICK d1, d2, f1, f2 : d1 = l.data1 /\ d2 = l.data2 /\ f1 = m.data1 /\ f2 = m.data2
    OBVIOUS
  <2>2. /\ Stored(d1, d2, RcvListSize, w, c, B, E) /\ f1 = [d1 EXCEPT ![c[p]] = w[p]]
        /\ f2 = [d2 EXCEPT ![c[p]] = LastData(w, p, q)]
    BY <1>2, <1>7, <2>1
  <2>3. Stored(f1, f2, RcvListSize, w, c, B \cup {p}, F)
    BY <1>2, <1>6, <2>2, StoredPut
  <2> QED
    BY <2>1, <2>3
<1>9. Spans(C, F, lo, hi)
  <2>1. C \in SUBSET (lo .. hi)
    BY <1>2
  <2>2. \A x \in C : x <= F[x] /\ F[x] <= hi
    BY <1>2, <1>3, <1>4, <1>6
  <2> QED
    BY <1>6, <2>1, <2>2 DEF Spans
<1>10. Apart(C, F)
  <2>1. \A x, y \in B : x < y => E[x] < y
    BY <1>2 DEF Apart
  <2>2. ASSUME NEW x \in C, NEW y \in C, x < y PROVE F[x] < y
    <3>1. x \in B /\ x # p /\ F[x] = E[x]
      BY <1>3, <1>4, <1>6, <2>2
    <3> QED
      BY <2>1, <2>2, <3>1
  <2> QED
    BY <2>2 DEF Apart
<1>11. TailIs(m.tail, c, C)
  <2>1. \A x \in C : IsLast(C, x) => x = p
    BY <1>3, <1>4 DEF IsLast
  <2> QED
    BY <1>7, <2>1 DEF TailIs
<1>12. Covered(C, F) = Covered(B, E) \cup (p .. q)
  <2>1. \A x : x \in Covered(B \cup {p}, F) <=> x \in Covered(B \ {p}, E) \/ x \in p .. q
    <3>1. B \in SUBSET Int
      BY <1>3
    <3> QED
      BY <1>2, <1>3, <1>6, <3>1, CoveredPut
  <2>2. B \ {p} = B
    BY <1>3, <1>4
  <2>3. \A x : x \in Covered(C, F) <=> x \in Covered(B, E) \cup (p .. q)
    BY <2>1, <2>2
  <2> QED
    BY <2>3
<1>13. m.length = Cardinality(Covered(C, F))
  <2>1. PICK S : S = Covered(B, E)
    OBVIOUS
  <2>2. IsFiniteSet(S) /\ l.length = Cardinality(S)
    BY <1>1, <1>2, <2>1, CoveredFinite
  <2>3. \A x \in p .. q : x \notin S
    BY <1>3, <2>1 DEF Covered
  <2>4. p <= q + 1
    BY <1>3
  <2>5. Cardinality(S \cup (p .. q)) = Cardinality(S) + (q - p + 1)
    BY <1>3, <2>2, <2>3, <2>4, CardAdd
  <2> QED
    BY <1>7, <1>12, <2>1, <2>2, <2>5
<1>14. RcvRep(m, w, c, C, F, lo, hi)
  BY <1>7, <1>8, <1>9, <1>10, <1>11, <1>13 DEF RcvRep, RcvBody
<1> QED
  BY <1>12, <1>14 DEF RcvHolds

\* An empty list starts at slot 0: its slots are given out anew.
LEMMA RcvInsertFirst ==
    ASSUME NEW l, NEW w, NEW c, NEW B, NEW E, NEW lo, NEW hi,
           RcvWindow(w, c, lo, hi), RcvRep(l, w, c, B, E, lo, hi),
           NEW p \in lo .. hi, NEW q \in lo .. hi, p <= q, l.length = 0
    PROVE  RcvHolds(RcvInsert(l, w[p], w[q]), w, Covered(B, E) \cup (p .. q), lo, hi)
<1>1. RcvBody(l, w, c, B, E, lo, hi) /\ l.length = Cardinality(Covered(B, E)) /\ B = {}
  BY RcvRepFacts
<1>2. /\ l \in RcvLists /\ Spans(B, E, lo, hi) /\ Apart(B, E)
      /\ Stored(l.data1, l.data2, RcvListSize, w, c, B, E)
      /\ Linked(l.next, RcvListSize, c, B) /\ BackLinked(l.prior, RcvListSize, c, B)
      /\ HeadIs(l.head, c, B)
      /\ lo \in Int /\ hi \in Int /\ Window(RcvListSize, w, c, lo, hi)
      /\ w \in Wires /\ hi - lo < RcvListSize
      /\ RcvListSize \in Nat \ {0} /\ RcvListSize <= SeqNoTH /\ SeqNoTH \in Int
  BY <1>1, RcvBodyFacts
<1>3. p \in Int /\ q \in Int /\ q - p < SeqNoTH
  BY <1>2
<1>4. PICK r \in Rings(RcvListSize) : r[p] = 0
  BY <1>2, <1>3, RingThrough
<1>5. RcvWindow(w, r, lo, hi)
  BY <1>2 DEF Window, RcvWindow
<1>6. RcvRep(l, w, r, B, E, lo, hi)
  <2>1. Stored(l.data1, l.data2, RcvListSize, w, r, B, E)
    BY <1>1, <1>2 DEF Stored
  <2>2. Linked(l.next, RcvListSize, r, B) /\ BackLinked(l.prior, RcvListSize, r, B)
    BY <1>1, <1>2 DEF Linked, BackLinked
  <2>3. HeadIs(l.head, r, B) /\ TailIs(l.tail, r, B)
    BY <1>1, <1>2 DEF HeadIs, TailIs
  <2> QED
    BY <1>1, <1>2, <2>1, <2>2, <2>3 DEF RcvRep, RcvBody
<1>7. 0 \in RcvSlots /\ r[p] \in RcvSlots /\ l.data2[r[p]] = Nil
  <2>1. RcvBody(l, w, r, B, E, lo, hi)
    BY <1>6 DEF RcvRep
  <2> QED
    BY <1>1, <1>4, <1>5, <2>1, RcvEmpty
<1>8. PICK k : k = PutLast(l, r[p], w[p], w[q])
  OBVIOUS
<1>9. /\ IsPutLast(l, k, w, r[p], p, q) /\ k.head = l.head /\ k.prior = l.prior
      /\ k.next = [l.next EXCEPT ![r[p]] = Nil]
  <2>1. IsAppended(l, k, w, r[p], p, q)
    BY <1>2, <1>3, <1>7, <1>8, PutLastFields
  <2> QED
    BY <2>1 DEF IsAppended
<1>10. PICK m, pr : /\ m = [k EXCEPT !.head = r[p], !.prior = pr]
                    /\ pr = [k.prior EXCEPT ![r[p]] = Nil]
  OBVIOUS
<1>11. k \in RcvLists
  BY <1>9 DEF IsPutLast
<1>12. pr \in Links(RcvListSize)
  BY <1>2, <1>7, <1>9, <1>10, RcvFields DEF Links, RcvSlots
<1>13. RcvInsert(l, w[p], w[q]) = m
  <2>1. RcvInsert(l, w[p], w[q]) = [k EXCEPT !.head = r[p], !.prior[r[p]] = Nil]
    BY <1>4, <1>8 DEF RcvInsert
  <2> QED
    BY <1>10, <1>11, <2>1 DEF RcvLists
<1>14. /\ m \in RcvLists /\ m.data1 = k.data1 /\ m.data2 = k.data2 /\ m.next = k.next
       /\ m.prior = pr /\ m.head = r[p] /\ m.tail = k.tail /\ m.length = k.length
  BY <1>7, <1>10, <1>11, <1>12 DEF RcvLists
<1>15. PICK C : C = B \cup {p}
  OBVIOUS
<1>16. C = {p}
  BY <1>1, <1>15
<1>17. \A x, y \in C : ~Follows(C, x, y)
  BY <1>3, <1>16 DEF Follows
<1>18. Linked(m.next, RcvListSize, r, C)
  <2>1. /\ l.next \in [RcvSlots -> RcvSlots \cup {Nil}]
        /\ m.next = [l.next EXCEPT ![r[p]] = Nil]
    BY <1>2, <1>9, <1>14, RcvFields
  <2>2. m.next \in [RcvSlots -> RcvSlots \cup {Nil}] /\ m.next[r[p]] = Nil
    BY <1>7, <2>1
  <2> QED
    BY <1>16, <1>17, <2>2 DEF Linked, RcvSlots
<1>19. BackLinked(m.prior, RcvListSize, r, C)
  BY <1>12, <1>14, <1>17 DEF BackLinked
<1>20. HeadIs(m.head, r, C)
  BY <1>14, <1>16 DEF HeadIs
<1>21. IsPutLast(l, m, w, r[p], p, q)
  BY <1>9, <1>14 DEF IsPutLast
<1>22. RcvHolds(m, w, Covered(B, E) \cup (p .. q), lo, hi)
  BY <1>1, <1>5, <1>6, <1>15, <1>18, <1>19, <1>20, <1>21, LastPut
<1> QED
  BY <1>13, <1>22

\* The numbers come after the last node, but not right after it.
LEMMA RcvInsertLast ==
    ASSUME NEW l, NEW w, NEW c, NEW B, NEW E, NEW lo, NEW hi,
           RcvWindow(w, c, lo, hi), RcvRep(l, w, c, B, E, lo, hi),
           NEW p \in lo .. hi, NEW q \in lo .. hi, p <= q, l.length # 0,
           \A x \in B : E[x] < p, ~JoinsTail(l, w[p])
    PROVE  RcvHolds(RcvInsert(l, w[p], w[q]), w, Covered(B, E) \cup (p .. q), lo, hi)
<1>1. RcvBody(l, w, c, B, E, lo, hi) /\ B # {}
  BY RcvRepFacts
<1>2. /\ l \in RcvLists
      /\ Linked(l.next, RcvListSize, c, B) /\ BackLinked(l.prior, RcvListSize, c, B)
      /\ HeadIs(l.head, c, B) /\ TailIs(l.tail, c, B)
      /\ B \in SUBSET (lo .. hi) /\ B \in SUBSET Int
      /\ lo \in Int /\ hi \in Int /\ Window(RcvListSize, w, c, lo, hi)
      /\ w \in Wires /\ hi - lo < RcvListSize
      /\ RcvListSize \in Nat \ {0} /\ RcvListSize <= SeqNoTH /\ SeqNoTH \in Int
  BY <1>1, RcvBodyFacts
<1>3. p \in Int /\ q \in Int /\ q - p < SeqNoTH
  BY <1>2
<1>4. \A x \in B : x \in Int /\ x < p /\ c[x] \in RcvSlots /\ c[x] # c[p]
  <2>1. \A x \in B : x \in Int /\ x <= E[x] /\ E[x] \in Int /\ c[x] \in RcvSlots /\ x \in lo .. hi
    BY <1>1, RcvNode
  <2>2. \A x \in B : x # p => c[x] # c[p]
    BY <2>1, RcvSlotsDiffer
  <2> QED
    BY <1>3, <2>1, <2>2
<1>5. c[p] \in RcvSlots /\ l.data2[c[p]] = Nil /\ p \notin B
  BY <1>1, <1>3, <1>4, RcvEmpty
<1>6. PICK b \in B : IsLast(B, b)
  BY <1>1, <1>2, GreatestInt
<1>7. l.tail = c[b] /\ l.next[c[b]] = Nil /\ \A x \in B : x <= b
  BY <1>2, <1>6 DEF TailIs, Linked, IsLast
<1>8. (l.head + SeqOff(l.data1[l.head], w[p])) % RcvListSize = c[p]
  <2>1. PICK h \in B : RcvHeadIs(l, w, c, B, h, lo, hi)
    BY <1>1, RcvHead
  <2>2. h <= p
    BY <1>3, <1>4
  <2> QED
    BY <2>1, <2>2 DEF RcvHeadIs
<1>9. PICK k : k = PutLast(l, c[p], w[p], w[q])
  OBVIOUS
<1>10. /\ IsPutLast(l, k, w, c[p], p, q) /\ k.head = l.head /\ k.prior = l.prior
       /\ k.next = [l.next EXCEPT ![c[p]] = Nil]
  <2>1. PICK loc : loc = c[p]
    OBVIOUS
  <2>2. /\ l \in RcvLists /\ w \in Wires /\ loc \in RcvSlots /\ l.data2[loc] = Nil
        /\ k = PutLast(l, loc, w[p], w[q])
    BY <1>2, <1>5, <1>9, <2>1
  <2>3. IsAppended(l, k, w, loc, p, q)
    BY <1>3, <2>2, PutLastFields
  <2> QED
    BY <2>1, <2>3 DEF IsAppended
<1>11. k \in RcvLists
  BY <1>10 DEF IsPutLast
<1>12. PICK m, nx, pr : /\ nx = [k.next EXCEPT ![c[b]] = c[p]]
                        /\ pr = [k.prior EXCEPT ![c[p]] = c[b]]
                        /\ m = [k EXCEPT !.next = nx, !.prior = pr]
  OBVIOUS
<1>13. nx \in Links(RcvListSize) /\ pr \in Links(RcvListSize)
  BY <1>4, <1>5, <1>11, <1>12, RcvFields DEF Links, RcvSlots
<1>14. RcvInsert(l, w[p], w[q]) = m
  <2>1. RcvInsert(l, w[p], w[q]) = [k EXCEPT !.next[c[b]] = c[p], !.prior[c[p]] = c[b]]
    BY <1>7, <1>8, <1>9 DEF RcvInsert
  <2> QED
    BY <1>11, <1>12, <2>1 DEF RcvLists
<1>15. /\ m \in RcvLists /\ m.data1 = k.data1 /\ m.data2 = k.data2 /\ m.next = nx
       /\ m.prior = pr /\ m.head = l.head /\ m.tail = k.tail /\ m.length = k.length
  BY <1>10, <1>11, <1>12, <1>13 DEF RcvLists
<1>16. PICK C : C = B \cup {p}
  OBVIOUS
<1>17. Linked(m.next, RcvListSize, c, C)
  <2>1. PICK f, g : f = l.next /\ g = m.next
    OBVIOUS
  <2>2. f \in [RcvSlots -> RcvSlots \cup {Nil}] /\ Linked(f, RcvListSize, c, B)
    BY <1>2, <2>1, RcvFields
  <2>3. g = [f EXCEPT ![c[p]] = f[c[b]], ![c[b]] = c[p]]
    BY <1>7, <1>10, <1>12, <1>15, <2>1
  <2>4. b < p /\ \A x \in B : x <= b \/ p < x
    BY <1>4, <1>7
  <2>5. Linked(g, RcvListSize, c, B \cup {p})
    BY <1>2, <2>2, <2>3, <2>4, LinkAfter
  <2> QED
    BY <1>16, <2>1, <2>5
<1>18. BackLinked(m.prior, RcvListSize, c, C)
  <2>1. PICK f, g : f = l.prior /\ g = m.prior
    OBVIOUS
  <2>2. /\ f \in [RcvSlots -> RcvSlots \cup {Nil}] /\ g = [f EXCEPT ![c[p]] = c[b]]
        /\ g \in Links(RcvListSize) /\ BackLinked(f, RcvListSize, c, B)
    BY <1>2, <1>10, <1>12, <1>13, <1>15, <2>1, RcvFields
  <2>3. IsBackPut(f, g, RcvListSize, c, B, b, p)
    <3>1. \A d \in B : ~Follows(B, b, d)
      BY <1>4, <1>7 DEF Follows
    <3>2. g[c[p]] = c[b] /\ \A d \in B : g[c[d]] = f[c[d]]
      BY <1>4, <1>5, <2>2
    <3> QED
      BY <2>2, <3>1, <3>2 DEF IsBackPut
  <2>4. b < p /\ \A x \in B : x <= b \/ p < x
    BY <1>4, <1>7
  <2>5. BackLinked(g, RcvListSize, c, B \cup {p})
    BY <1>2, <1>3, <2>2, <2>3, <2>4, BackPut
  <2> QED
    BY <1>16, <2>1, <2>5
<1>19. HeadIs(m.head, c, C)
  <2>1. \A x \in C : IsFirst(C, x) => x \in B /\ IsFirst(B, x)
    BY <1>1, <1>3, <1>4, <1>16 DEF IsFirst
  <2> QED
    BY <1>2, <1>15, <1>16, <2>1 DEF HeadIs
<1>20. IsPutLast(l, m, w, c[p], p, q)
  BY <1>10, <1>15 DEF IsPutLast
<1>21. RcvHolds(m, w, Covered(B, E) \cup (p .. q), lo, hi)
  BY <1>16, <1>17, <1>18, <1>19, <1>20, LastPut
<1> QED
  BY <1>14, <1>21

\* The last node reaches further.
LEMMA RcvInsertJoins ==
    ASSUME NEW l, NEW w, NEW c, NEW B, NEW E, NEW lo, NEW hi,
           RcvWindow(w, c, lo, hi), RcvRep(l, w, c, B, E, lo, hi),
           NEW p \in lo .. hi, NEW q \in lo .. hi, p <= q, l.length # 0,
           \A x \in B : E[x] < p, JoinsTail(l, w[p])
    PROVE  RcvHolds(RcvInsert(l, w[p], w[q]), w, Covered(B, E) \cup (p .. q), lo, hi)
<1>1. /\ RcvBody(l, w, c, B, E, lo, hi) /\ B # {}
      /\ l.length = Cardinality(Covered(B, E))
  BY RcvRepFacts
<1>2. /\ l \in RcvLists /\ Spans(B, E, lo, hi) /\ Apart(B, E)
      /\ Stored(l.data1, l.data2, RcvListSize, w, c, B, E)
      /\ Linked(l.next, RcvListSize, c, B) /\ BackLinked(l.prior, RcvListSize, c, B)
      /\ HeadIs(l.head, c, B) /\ TailIs(l.tail, c, B)
      /\ B \in SUBSET (lo .. hi) /\ B \in SUBSET Int /\ E \in [Int -> Int]
      /\ lo \in Int /\ hi \in Int /\ Window(RcvListSize, w, c, lo, hi)
      /\ w \in Wires /\ hi - lo < RcvListSize
      /\ RcvListSize \in Nat \ {0} /\ RcvListSize <= MaxSeqNo /\ MaxSeqNo \in Int
  BY <1>1, RcvBodyFacts
<1>3. p \in Int /\ q \in Int /\ q - p <= MaxSeqNo
  BY <1>2
<1>4. PICK b \in B : IsLast(B, b)
  BY <1>1, <1>2, GreatestInt
<1>5. l.tail = c[b] /\ \A x \in B : x <= b
  BY <1>2, <1>4 DEF TailIs, IsLast
<1>6. /\ b \in lo .. hi /\ b \in Int /\ E[b] \in Int /\ b <= E[b] /\ E[b] \in lo .. hi
      /\ c[b] \in RcvSlots /\ l.data1[c[b]] = w[b]
      /\ l.data2[c[b]] # Nil => l.data2[c[b]] = w[E[b]]
  BY <1>1, RcvNode
<1>7. p = E[b] + 1
  <2>1. IncSeq(w[E[b]]) = w[p]
    BY <1>5, <1>6 DEF JoinsTail
  <2>2. PICK e : e = E[b] + 1
    OBVIOUS
  <2>3. IncSeq(w[E[b]]) = w[e]
    BY <1>2, <1>6, <2>2, WireStep
  <2>4. E[b] < p
    OBVIOUS
  <2>5. e \in lo .. hi
    BY <1>2, <1>3, <1>6, <2>2, <2>4
  <2>6. w[e] = w[p] <=> e = p
    BY <1>2, <2>5, WindowFacts
  <2> QED
    BY <2>1, <2>2, <2>3, <2>6
<1>8. PICK m, d2, len : /\ d2 = [l.data2 EXCEPT ![c[b]] = w[q]]
                        /\ len = l.length + (q - p + 1)
                        /\ m = [l EXCEPT !.data2 = d2, !.length = len]
  OBVIOUS
<1>9. RcvInsert(l, w[p], w[q]) = m
  <2>1. SeqLen(w[p], w[q]) = q - p + 1
    BY <1>2, <1>3, WireLen
  <2>2. RcvInsert(l, w[p], w[q]) = [l EXCEPT !.data2[c[b]] = w[q], !.length = @ + (q - p + 1)]
    BY <1>5, <2>1 DEF RcvInsert
  <2> QED
    BY <1>2, <1>8, <2>2 DEF RcvLists
<1>10. len \in Int /\ d2 \in [RcvSlots -> SeqNos \cup {Nil}]
  <2>1. w[q] \in SeqNos
    BY <1>2, <1>3, WireAt
  <2> QED
    BY <1>2, <1>3, <1>6, <1>8, <2>1, RcvFields
<1>11. /\ m \in RcvLists /\ m.data1 = l.data1 /\ m.data2 = d2 /\ m.next = l.next
       /\ m.prior = l.prior /\ m.head = l.head /\ m.tail = l.tail /\ m.length = len
  BY <1>2, <1>8, <1>10 DEF RcvLists
<1>12. PICK F : F = [E EXCEPT ![b] = q]
  OBVIOUS
<1>13. F \in [Int -> Int] /\ F[b] = q /\ \A x \in B : x # b => F[x] = E[x]
  BY <1>2, <1>3, <1>6, <1>12
<1>14. Stored(m.data1, m.data2, RcvListSize, w, c, B, F)
  <2>1. PICK f1, f2, g1, g2 : /\ f1 = l.data1 /\ f2 = l.data2
                              /\ g1 = [f1 EXCEPT ![c[b]] = w[b]]
                              /\ g2 = [f2 EXCEPT ![c[b]] = LastData(w, b, q)]
    OBVIOUS
  <2>2. Stored(f1, f2, RcvListSize, w, c, B, E)
    BY <1>2, <2>1
  <2>3. Stored(g1, g2, RcvListSize, w, c, B \cup {b}, F)
    BY <1>2, <1>6, <1>13, <2>1, <2>2, StoredPut
  <2>4. B \cup {b} = B
    OBVIOUS
  <2>5. f1 \in [RcvSlots -> SeqNos \cup {Nil}]
    BY <1>2, <2>1, RcvFields
  <2>6. g1 = f1
    BY <1>6, <2>1, <2>5
  <2>7. LastData(w, b, q) = w[q]
    BY <1>3, <1>6, <1>7 DEF LastData
  <2>8. g2 = d2
    BY <1>8, <2>1, <2>7
  <2> QED
    BY <1>11, <2>1, <2>3, <2>4, <2>6, <2>8
<1>15. \A x \in B : x \in Int /\ x <= E[x] /\ E[x] <= hi /\ E[x] \in Int
  BY <1>2 DEF Spans
<1>16. Spans(B, F, lo, hi)
  <2>1. \A x \in B : x <= F[x] /\ F[x] <= hi
    BY <1>2, <1>3, <1>6, <1>7, <1>13, <1>15
  <2> QED
    BY <1>2, <1>13, <2>1 DEF Spans
<1>17. Apart(B, F)
  <2>1. \A x, y \in B : x < y => E[x] < y
    BY <1>2 DEF Apart
  <2>2. ASSUME NEW x \in B, NEW y \in B, x < y PROVE F[x] < y
    <3>1. x # b
      BY <1>5, <1>6, <1>15, <2>2
    <3> QED
      BY <1>13, <2>1, <2>2, <3>1
  <2> QED
    BY <2>2 DEF Apart
<1>18. Covered(B, F) = Covered(B, E) \cup (p .. q)
  <2>1. \A x : x \in Covered(B \cup {b}, F) <=> x \in Covered(B \ {b}, E) \/ x \in b .. q
    BY <1>2, <1>3, <1>6, <1>13, CoveredPut
  <2>2. B \cup {b} = B
    OBVIOUS
  <2>3. Covered(B, E) = Covered(B \ {b}, E) \cup (b .. E[b])
    BY <1>2, CoveredNode
  <2>4. \A x : x \in b .. q <=> x \in b .. E[b] \/ x \in p .. q
    BY <1>3, <1>6, <1>7
  <2>5. \A x : x \in Covered(B, F) <=> x \in Covered(B, E) \cup (p .. q)
    BY <2>1, <2>2, <2>3, <2>4
  <2> QED
    BY <2>5
<1>19. m.length = Cardinality(Covered(B, F))
  <2>1. PICK S : S = Covered(B, E)
    OBVIOUS
  <2>2. IsFiniteSet(S) /\ l.length = Cardinality(S)
    BY <1>1, <1>2, <2>1, CoveredFinite
  <2>3. \A x \in p .. q : x \notin S
    BY <1>3, <1>15, <2>1 DEF Covered
  <2>4. p <= q + 1
    BY <1>3
  <2>5. Cardinality(S \cup (p .. q)) = Cardinality(S) + (q - p + 1)
    BY <1>3, <2>2, <2>3, <2>4, CardAdd
  <2> QED
    BY <1>8, <1>11, <1>18, <2>1, <2>2, <2>5
<1>20. RcvRep(m, w, c, B, F, lo, hi)
  BY <1>2, <1>11, <1>14, <1>16, <1>17, <1>19 DEF RcvRep, RcvBody
<1>21. RcvHolds(m, w, Covered(B, E) \cup (p .. q), lo, hi)
  BY <1>18, <1>20 DEF RcvHolds
<1> QED
  BY <1>9, <1>21

\* insert(seqno1, seqno2), after all numbers in the list
LEMMA RcvInsertHolds ==
    ASSUME NEW l, NEW w, NEW S, NEW lo, NEW hi, RcvHolds(l, w, S, lo, hi),
           NEW p \in lo .. hi, NEW q \in lo .. hi, p <= q, \A x \in S : x < p
    PROVE  RcvHolds(RcvInsert(l, w[p], w[q]), w, S \cup (p .. q), lo, hi)
<1>1. PICK c, B, E : /\ RcvWindow(w, c, lo, hi) /\ RcvRep(l, w, c, B, E, lo, hi)
                     /\ Covered(B, E) = S
  BY DEF RcvHolds
<1>2. RcvBody(l, w, c, B, E, lo, hi)
  BY <1>1, RcvRepFacts
<1>3. \A x \in B : E[x] < p
  <2>1. \A x \in B : x \in Int /\ x <= E[x] /\ E[x] \in Int
    BY <1>1, <1>2, RcvNode
  <2> QED
    BY <1>1, <2>1 DEF Covered
<1>4. CASE l.length = 0
  BY <1>1, <1>4, RcvInsertFirst
<1>5. CASE l.length # 0 /\ JoinsTail(l, w[p])
  BY <1>1, <1>3, <1>5, RcvInsertJoins
<1>6. CASE l.length # 0 /\ ~JoinsTail(l, w[p])
  BY <1>1, <1>3, <1>6, RcvInsertLast
<1> QED
  BY <1>4, <1>5, <1>6

-----------------------------------------------------------------------------
(* The receiver's list when a whole message goes.                          *)

\* f[k] is l after the first k numbers of s have been removed.
IsRemoving(f, l, s, n) ==
    f = [k \in 0 .. n |-> IF k = 0 THEN l ELSE RcvRemove(f[k - 1], s[k])]

LEMMA RemovingExists ==
    ASSUME NEW l, NEW s, NEW n \in Nat
    PROVE  \E f : IsRemoving(f, l, s, n)
<1> DEFINE Bad == {m \in Nat : ~\E f : IsRemoving(f, l, s, m)}
<1> SUFFICES ASSUME Bad # {} PROVE FALSE
  OBVIOUS
<1>1. PICK m \in Bad : \A k \in Bad : m <= k
  <2>1. Bad \in SUBSET Nat
    OBVIOUS
  <2> HIDE DEF Bad
  <2> QED
    BY <2>1, LeastOfNat
<1>2. m \in Nat /\ ~\E f : IsRemoving(f, l, s, m)
  BY <1>1
<1>3. m # 0
  <2>1. PICK f : f = [k \in 0 .. 0 |-> l]
    OBVIOUS
  <2>2. \A k \in 0 .. 0 : k = 0
    OBVIOUS
  <2>3. IsRemoving(f, l, s, 0)
    BY <2>1, <2>2 DEF IsRemoving
  <2> QED
    BY <1>2, <2>3
<1>4. PICK j \in Nat : m = j + 1
  <2>1. m - 1 \in Nat /\ m = (m - 1) + 1
    BY <1>2, <1>3
  <2> QED
    BY <2>1
<1>5. PICK f : IsRemoving(f, l, s, j)
  <2>1. ~(m <= j)
    BY <1>2, <1>4
  <2> QED
    BY <1>1, <1>4, <2>1
<1>6. /\ DOMAIN f = 0 .. j
      /\ \A k \in 0 .. j : f[k] = IF k = 0 THEN l ELSE RcvRemove(f[k - 1], s[k])
  BY <1>5 DEF IsRemoving
<1> DEFINE g == [k \in 0 .. m |-> IF k = m THEN RcvRemove(f[j], s[m]) ELSE f[k]]
<1>7. ASSUME NEW k \in 0 .. m
      PROVE  g[k] = IF k = 0 THEN l ELSE RcvRemove(g[k - 1], s[k])
  <2>1. CASE k = m
    <3>1. k # 0 /\ k - 1 = j /\ j \in 0 .. m /\ j # m
      BY <1>2, <1>3, <1>4, <2>1
    <3>2. g[j] = f[j] /\ g[k] = RcvRemove(f[j], s[k])
      BY <2>1, <3>1
    <3> HIDE DEF g
    <3> QED
      BY <3>1, <3>2
  <2>2. CASE k # m
    <3>1. k \in 0 .. j
      BY <1>2, <1>4, <2>2
    <3>2. k # 0 => k - 1 \in 0 .. m /\ k - 1 # m
      BY <1>2, <1>4, <3>1
    <3>3. g[k] = f[k] /\ (k # 0 => g[k - 1] = f[k - 1])
      BY <2>2, <3>2
    <3> HIDE DEF g
    <3> QED
      BY <1>6, <3>1, <3>3
  <2> QED
    BY <2>1, <2>2
<1>8. IsRemoving(g, l, s, m)
  <2>1. g = [k \in 0 .. m |-> g[k]]
    OBVIOUS
  <2> HIDE DEF g
  <2> QED
    BY <1>7, <2>1 DEF IsRemoving
<1> QED
  BY <1>2, <1>8

\* m holds S without the k positions from x on.
HoldsWithout(m, w, S, x, k, lo, hi) ==
    \E T : /\ \A z : z \in T <=> z \in S /\ ~(x <= z /\ z < x + k)
           /\ RcvHolds(m, w, T, lo, hi)

LEMMA RemovingHolds ==
    ASSUME NEW l, NEW w, NEW S \in SUBSET Int, NEW lo \in Int, NEW hi \in Int,
           RcvHolds(l, w, S, lo, hi), S \in SUBSET (lo .. hi),
           NEW x \in Int, NEW n \in Nat, x + n - 1 - lo < SeqNoTH, hi - x < SeqNoTH,
           NEW s, \A k \in 1 .. n : s[k] = w[x + k - 1],
           NEW f, IsRemoving(f, l, s, n)
    PROVE  HoldsWithout(f[n], w, S, x, n, lo, hi)
<1> DEFINE Bad == {k \in 0 .. n : ~HoldsWithout(f[k], w, S, x, k, lo, hi)}
<1> SUFFICES ASSUME Bad # {} PROVE FALSE
  <2>1. n \in 0 .. n
    OBVIOUS
  <2> QED
    BY <2>1
<1>1. PICK k \in Bad : \A j \in Bad : k <= j
  <2>1. Bad \in SUBSET Nat
    OBVIOUS
  <2> HIDE DEF Bad
  <2> QED
    BY <2>1, LeastOfNat
<1>2. k \in 0 .. n /\ k \in Nat /\ ~HoldsWithout(f[k], w, S, x, k, lo, hi)
  BY <1>1
<1>3. \A j \in 0 .. n : f[j] = IF j = 0 THEN l ELSE RcvRemove(f[j - 1], s[j])
  BY DEF IsRemoving
<1>4. k # 0
  <2>1. f[0] = l
    BY <1>3
  <2>2. \A z : z \in S <=> z \in S /\ ~(x <= z /\ z < x + 0)
    <3>1. x \in Int /\ \A z \in Int : ~(x <= z /\ z < x + 0)
      OBVIOUS
    <3> QED
      BY <3>1
  <2>3. HoldsWithout(f[0], w, S, x, 0, lo, hi)
    BY <2>1, <2>2 DEF HoldsWithout
  <2> QED
    BY <1>2, <2>3
<1>5. PICK j : j = k - 1
  OBVIOUS
<1>6. /\ j \in 0 .. n /\ j \in Nat /\ k = j + 1 /\ ~(k <= j)
      /\ x + j - lo < SeqNoTH /\ hi - (x + j) < SeqNoTH
      /\ k \in 1 .. n /\ x + k - 1 = x + j
  BY <1>2, <1>4, <1>5, SeqNoAssumption
<1>7. HoldsWithout(f[j], w, S, x, j, lo, hi)
  BY <1>1, <1>6
<1>8. PICK T : /\ \A z : z \in T <=> z \in S /\ ~(x <= z /\ z < x + j)
               /\ RcvHolds(f[j], w, T, lo, hi)
  BY <1>7 DEF HoldsWithout
<1>9. PICK p : p = x + j
  OBVIOUS
<1>10. f[k] = RcvRemove(f[j], w[p])
  BY <1>2, <1>3, <1>4, <1>5, <1>6, <1>9
<1>11. PICK U : U = T \ {p}
  OBVIOUS
<1>12. RcvHolds(f[k], w, U, lo, hi)
  <2>1. p \in Int /\ p - lo < SeqNoTH /\ hi - p < SeqNoTH
    BY <1>6, <1>9
  <2>2. \A z : z \in U <=> z \in T /\ z # p
    BY <1>11
  <2>3. T \in SUBSET Int /\ T \in SUBSET (lo .. hi)
    BY <1>8
  <2>4. PICK m : m = f[j]
    OBVIOUS
  <2>5. RcvHolds(m, w, T, lo, hi)
    BY <1>8, <2>4
  <2>6. RcvHolds(RcvRemove(m, w[p]), w, U, lo, hi)
    BY <2>1, <2>2, <2>3, <2>5, RcvRemoveAnywhere
  <2> QED
    BY <1>10, <2>4, <2>6
<1>13. ASSUME NEW z PROVE z \in U <=> z \in S /\ ~(x <= z /\ z < x + k)
  <2>1. z \in U <=> z \in S /\ ~(x <= z /\ z < x + j) /\ z # p
    BY <1>8, <1>11
  <2>2. z \in S => z \in Int
    OBVIOUS
  <2>3. z \in Int => (~(x <= z /\ z < x + k) <=> ~(x <= z /\ z < x + j) /\ z # p)
    BY <1>6, <1>9
  <2> QED
    BY <2>1, <2>2, <2>3
<1>14. HoldsWithout(f[k], w, S, x, k, lo, hi)
  BY <1>12, <1>13 DEF HoldsWithout
<1> QED
  BY <1>2, <1>14

\* The loops of a range that does not wrap are one.
LEMMA LoopOf ==
    ASSUME NEW a \in Int, NEW b \in Int, a <= b
    PROVE  /\ Len(RangeLoop(a, b)) = b - a + 1
           /\ \A k \in 1 .. b - a + 1 : RangeLoop(a, b)[k] = a + k - 1
<1>1. PICK n : n = b - a + 1
  OBVIOUS
<1>2. n \in Nat
  BY <1>1
<1>3. PICK s : s = RangeLoop(a, b)
  OBVIOUS
<1>4. s = [k \in 1 .. n |-> a + k - 1]
  BY <1>1, <1>3 DEF RangeLoop, Ascending
<1>5. s \in Seq(Int)
  <2>1. s \in [1 .. n -> Int]
    BY <1>4
  <2> QED
    BY <1>2, <2>1
<1>6. Len(s) = n
  <2>1. Len(s) \in Nat /\ DOMAIN s = 1 .. Len(s)
    BY <1>5
  <2>2. DOMAIN s = 1 .. n
    BY <1>4
  <2>3. PICK m \in Nat : m = Len(s)
    BY <2>1
  <2>4. \A i : i \in 1 .. m <=> i \in 1 .. n
    BY <2>1, <2>2, <2>3
  <2>5. ~(m < n)
    <3>1. m < n => n \in 1 .. n /\ n \notin 1 .. m
      BY <1>2
    <3> QED
      BY <2>4, <3>1
  <2>6. ~(n < m)
    <3>1. n < m => m \in 1 .. m /\ m \notin 1 .. n
      BY <1>2
    <3> QED
      BY <2>4, <3>1
  <2> QED
    BY <1>2, <2>3, <2>5, <2>6
<1> QED
  BY <1>1, <1>3, <1>4, <1>6

\* remove(seqno1, seqno2) takes the range out.
LEMMA RcvRemoveRangeHolds ==
    ASSUME NEW l, NEW w \in Wires, NEW S \in SUBSET Int, NEW lo \in Int, NEW hi \in Int,
           RcvHolds(l, w, S, lo, hi), S \in SUBSET (lo .. hi),
           NEW x \in Int, NEW y \in Int, x <= y, y - x <= MaxSeqNo, w[x] <= w[y],
           hi - x < SeqNoTH, y - lo < SeqNoTH,
           NEW T, \A z : z \in T <=> z \in S /\ z \notin x .. y
    PROVE  RcvHolds(RcvRemoveRange(l, w[x], w[y]), w, T, lo, hi)
<1>1. x \in Int /\ y \in Int /\ y - x <= MaxSeqNo /\ MaxSeqNo \in Nat
  BY SeqNoAssumption
<1>2. /\ w[x] \in Int /\ 0 <= w[x] /\ w[y] \in Int /\ w[y] <= MaxSeqNo
  BY <1>1, WireAt
<1>3. w[y] = w[x] + (y - x)
  BY <1>1, <1>2, WireAhead
<1>4. ASSUME NEW z \in x .. y PROVE w[z] = w[x] + (z - x)
  <2>1. z \in Int /\ x <= z /\ z <= y /\ z - x <= MaxSeqNo
    BY <1>1
  <2>2. w[z] \in Int /\ 0 <= w[z]
    BY <2>1, WireAt
  <2>3. w[z] = w[x] + (z - x) \/ w[z] = w[x] + (z - x) - (MaxSeqNo + 1)
    BY <1>1, <2>1, WireAhead
  <2> QED
    BY <1>1, <1>2, <1>3, <2>1, <2>2, <2>3
<1>5. PICK n, s : n = y - x + 1 /\ s = RangeLoop(w[x], w[y])
  OBVIOUS
<1>6. /\ n \in Nat /\ x + n - 1 - lo < SeqNoTH /\ Len(s) = n
      /\ \A k \in 1 .. n : s[k] = w[x] + k - 1
  <2>1. PICK a, b : a = w[x] /\ b = w[y]
    OBVIOUS
  <2>2. a \in Int /\ b \in Int /\ a <= b /\ b - a + 1 = n
    BY <1>1, <1>2, <1>3, <1>5, <2>1
  <2>3. /\ Len(RangeLoop(a, b)) = b - a + 1
        /\ \A k \in 1 .. b - a + 1 : RangeLoop(a, b)[k] = a + k - 1
    BY <2>2, LoopOf
  <2>4. n \in Nat /\ x + n - 1 = y
    BY <1>1, <1>5
  <2> QED
    BY <1>5, <2>1, <2>2, <2>3, <2>4
<1>7. ASSUME NEW k \in 1 .. n PROVE s[k] = w[x + k - 1]
  <2>1. x + k - 1 \in x .. y
    BY <1>1, <1>5
  <2>2. w[x + k - 1] = w[x] + (x + k - 1 - x)
    BY <1>4, <2>1
  <2>3. s[k] = w[x] + k - 1
    BY <1>6
  <2> QED
    BY <1>1, <1>2, <2>2, <2>3
<1>8. PICK g : IsRemoving(g, l, s, n)
  BY <1>6, RemovingExists
<1>9. PICK f : /\ f = [k \in 0 .. Len(s) |-> IF k = 0 THEN l ELSE RcvRemove(f[k - 1], s[k])]
               /\ RcvRemoveRange(l, w[x], w[y]) = f[Len(s)]
  BY <1>5, <1>6, <1>8 DEF RcvRemoveRange, IsRemoving
<1>10. IsRemoving(f, l, s, n) /\ RcvRemoveRange(l, w[x], w[y]) = f[n]
  BY <1>6, <1>9 DEF IsRemoving
<1>11. HoldsWithout(f[n], w, S, x, n, lo, hi)
  BY <1>6, <1>7, <1>10, RemovingHolds
<1>12. PICK U : /\ \A z : z \in U <=> z \in S /\ ~(x <= z /\ z < x + n)
                /\ RcvHolds(f[n], w, U, lo, hi)
  BY <1>11 DEF HoldsWithout
<1>13. U = T
  <2>1. \A z \in Int : z \in x .. y <=> x <= z /\ z < x + n
    BY <1>1, <1>5
  <2>2. \A z : z \in U <=> z \in T
    BY <1>12, <2>1
  <2> QED
    BY <2>2
<1> QED
  BY <1>10, <1>12, <1>13

-----------------------------------------------------------------------------
(* What the receiver's list says.                                          *)

LEMMA RcvRangesAre ==
    ASSUME NEW l, NEW w, NEW c, NEW B, NEW E, NEW lo, NEW hi,
           RcvWindow(w, c, lo, hi), RcvBody(l, w, c, B, E, lo, hi)
    PROVE  RcvRanges(l) = NodeRanges(w, B, E)
<1>1. /\ HeadIs(l.head, c, B) /\ l \in RcvLists
      /\ Linked(l.next, RcvListSize, c, B) /\ B \in SUBSET (lo .. hi)
      /\ Window(RcvListSize, w, c, lo, hi)
  BY RcvBodyFacts
<1> DEFINE R(i) == <<l.data1[i], IF l.data2[i] = Nil THEN l.data1[i] ELSE l.data2[i]>>
           r == [i \in RcvSlots |-> R(i)]
           X == [at : RcvSlots \cup {Nil}, seen : SUBSET {R(i) : i \in RcvSlots}]
<1>2. X = WalkStates(RcvListSize, r)
  BY DEF WalkStates, RcvSlots
<1>3. PICK g : IsWalk(g, RcvListSize, l.next, r)
  <2>1. l.next \in [0 .. RcvListSize - 1 -> (0 .. RcvListSize - 1) \cup {Nil}]
    BY <1>1, RcvFields DEF RcvSlots
  <2> QED
    BY <2>1, WalkExists
<1>4. g = [k \in X |->
             IF k.at = Nil THEN k
             ELSE g[[at |-> l.next[k.at], seen |-> k.seen \cup {R(k.at)}]]]
  <2>1. g = [k \in WalkStates(RcvListSize, r) |-> g[k]]
    BY <1>3 DEF IsWalk
  <2>2. \A k \in X : g[k] = IF k.at = Nil THEN k
                            ELSE g[[at |-> l.next[k.at], seen |-> k.seen \cup {r[k.at]}]]
    BY <1>2, <1>3 DEF IsWalk
  <2>3. \A k \in X : k.at # Nil => r[k.at] = R(k.at)
    OBVIOUS
  <2> QED
    BY <1>2, <2>1, <2>2, <2>3
<1>5. PICK f : /\ f = [k \in X |->
                         IF k.at = Nil THEN k
                         ELSE f[[at |-> l.next[k.at], seen |-> k.seen \cup {R(k.at)}]]]
               /\ RcvRanges(l) = f[[at |-> l.head, seen |-> {}]].seen
  BY <1>4 DEF RcvRanges
<1>6. IsWalk(f, RcvListSize, l.next, r)
  <2>1. f = [k \in X |-> f[k]]
    BY <1>5
  <2>2. \A k \in X : k.at # Nil => r[k.at] = R(k.at)
    OBVIOUS
  <2>3. \A k \in X : f[k] = IF k.at = Nil THEN k
                            ELSE f[[at |-> l.next[k.at], seen |-> k.seen \cup {r[k.at]}]]
    BY <1>5, <2>2
  <2> HIDE DEF r, X, R
  <2> QED
    BY <1>2, <2>1, <2>3 DEF IsWalk
<1>7. ASSUME NEW b \in B PROVE r[c[b]] = <<w[b], w[E[b]]>>
  <2>1. /\ c[b] \in RcvSlots /\ l.data1[c[b]] = w[b]
        /\ l.data2[c[b]] # Nil => l.data2[c[b]] = w[E[b]]
    BY RcvNode
  <2>2. l.data2[c[b]] = Nil => E[b] = b
    BY RcvNode
  <2> QED
    BY <2>1, <2>2
<1> HIDE DEF r
<1>8. Walked(f, l.head) = SeenAll(r, c, B)
  <2>1. PICK nx, h : nx = l.next /\ h = l.head
    OBVIOUS
  <2>2. Linked(nx, RcvListSize, c, B) /\ HeadIs(h, c, B) /\ IsWalk(f, RcvListSize, nx, r)
    BY <1>1, <1>6, <2>1
  <2>3. Walked(f, h) = SeenAll(r, c, B)
    BY <1>1, <2>2, WalkSees
  <2> QED
    BY <2>1, <2>3
<1> QED
  <2>1. SeenAll(r, c, B) = {<<w[b], w[E[b]]>> : b \in B}
    BY <1>7 DEF SeenAll
  <2> QED
    BY <1>5, <1>8, <2>1 DEF Walked, NodeRanges

\* A list that holds S has the window of any positions that contain S.
LEMMA RcvNarrow ==
    ASSUME NEW l, NEW w, NEW S, NEW lo, NEW hi, RcvHolds(l, w, S, lo, hi),
           NEW lo2 \in Int, NEW hi2 \in Int, S \in SUBSET (lo2 .. hi2),
           hi2 - lo2 < RcvListSize
    PROVE  RcvHolds(l, w, S, lo2, hi2)
<1>1. PICK c, B, E : /\ RcvWindow(w, c, lo, hi) /\ RcvRep(l, w, c, B, E, lo, hi)
                     /\ Covered(B, E) = S
  BY DEF RcvHolds
<1>2. RcvWindow(w, c, lo2, hi2)
  BY <1>1 DEF RcvWindow, Window
<1>3. RcvBody(l, w, c, B, E, lo, hi)
  BY <1>1, RcvRepFacts
<1>4. Spans(B, E, lo, hi)
  BY <1>1, <1>3, RcvBodyFacts
<1>5. \A b \in B : b \in Covered(B, E) /\ E[b] \in Covered(B, E)
  BY <1>4 DEF Covered, Spans
<1>6. Spans(B, E, lo2, hi2)
  BY <1>1, <1>4, <1>5 DEF Spans
<1>7. RcvRep(l, w, c, B, E, lo2, hi2)
  BY <1>1, <1>6 DEF RcvRep, RcvBody
<1> QED
  BY <1>1, <1>2, <1>7 DEF RcvHolds

\* What the list says of S.
RcvSays(l, w, S) ==
    /\ (IF l.length = 0 THEN {} ELSE UNION {SeqRange(r[1], r[2]) : r \in RcvRanges(l)})
         = WireSet(w, S)
    /\ l.length = Cardinality(WireSet(w, S))
    /\ l.length = 0 <=> S = {}
    /\ S # {} => RcvFirst(l) = Oldest(WireSet(w, S))
    /\ S # {} => \E x \in S : (\A y \in S : x <= y) /\ RcvFirst(l) = w[x]

LEMMA RcvSaysAll ==
    ASSUME NEW l, NEW w, NEW S, NEW lo, NEW hi, RcvHolds(l, w, S, lo, hi)
    PROVE  RcvSays(l, w, S)
<1>1. PICK c, B, E : /\ RcvWindow(w, c, lo, hi) /\ RcvRep(l, w, c, B, E, lo, hi)
                     /\ Covered(B, E) = S
  BY DEF RcvHolds
<1>2. RcvBody(l, w, c, B, E, lo, hi) /\ l.length = Cardinality(Covered(B, E))
  BY <1>1, RcvRepFacts
<1>3. l.length = 0 <=> B = {}
  BY <1>1, RcvRepFacts
<1>4. /\ Spans(B, E, lo, hi) /\ B \in SUBSET (lo .. hi) /\ lo \in Int /\ hi \in Int
      /\ Window(RcvListSize, w, c, lo, hi)
  BY <1>1, <1>2, RcvBodyFacts
<1>5. S \in SUBSET (lo .. hi)
  BY <1>1, <1>4, CoveredFinite
<1>6. l.length = Cardinality(WireSet(w, S))
  BY <1>1, <1>2, <1>4, <1>5, WireSetSize
<1>7. \A b \in B : b \in S
  BY <1>1, <1>4 DEF Covered, Spans
<1>8. CASE l.length = 0
  <2>1. S = {}
    BY <1>1, <1>3, <1>8 DEF Covered
  <2>2. WireSet(w, S) = {}
    BY <2>1 DEF WireSet
  <2> QED
    BY <1>6, <1>8, <2>1, <2>2 DEF RcvSays
<1>9. CASE l.length # 0
  <2>1. RcvRanges(l) = NodeRanges(w, B, E)
    BY <1>1, <1>2, RcvRangesAre
  <2>2. UNION {SeqRange(r[1], r[2]) : r \in RcvRanges(l)} = WireSet(w, S)
    <3>1. PICK R : R = RcvRanges(l)
      OBVIOUS
    <3>2. NumbersOf(R) = WireSet(w, Covered(B, E))
      BY <1>4, <2>1, <3>1, RangesHold
    <3> QED
      BY <1>1, <3>1, <3>2 DEF NumbersOf
  <2>3. B # {}
    BY <1>3, <1>9
  <2>4. PICK h \in B : RcvHeadIs(l, w, c, B, h, lo, hi)
    BY <1>1, <1>2, <2>3, RcvHead
  <2>5. IsFirst(B, h) /\ l.data1[l.head] = w[h]
    BY <2>4 DEF RcvHeadIs
  <2>6. h \in S /\ \A y \in S : h <= y
    BY <1>1, <1>4, <1>7, <2>5 DEF IsFirst, Covered
  <2>7. RcvFirst(l) = w[h]
    BY <1>9, <2>5 DEF RcvFirst
  <2>8. RcvFirst(l) = Oldest(WireSet(w, S))
    BY <1>4, <1>5, <2>6, <2>7, WireSetOldest
  <2>9. S # {}
    BY <2>6
  <2> QED
    BY <1>6, <1>9, <2>2, <2>6, <2>7, <2>8, <2>9 DEF RcvSays
<1> QED
  BY <1>8, <1>9

LEMMA RcvStart ==
    ASSUME NEW w \in Wires, NEW lo \in Int, NEW hi \in Int, hi - lo < RcvListSize,
           RcvListSize \in Nat \ {0}, RcvListSize <= SeqNoTH
    PROVE  RcvHolds(NewRcvList, w, {}, lo, hi)
<1>1. PICK c \in Rings(RcvListSize) : c[0] = 0
  BY RingThrough
<1>2. RcvWindow(w, c, lo, hi)
  BY DEF RcvWindow, Window
<1> DEFINE E == [x \in Int |-> x]
           l == NewRcvList
<1>3. /\ l \in RcvLists /\ l.data1 = [i \in RcvSlots |-> Nil]
      /\ l.data2 = [i \in RcvSlots |-> Nil] /\ l.next = [i \in RcvSlots |-> Nil]
      /\ l.prior = [i \in RcvSlots |-> Nil]
      /\ l.head = Nil /\ l.tail = Nil /\ l.length = 0
  BY DEF NewRcvList, RcvLists, Links, RcvSlots
<1> HIDE DEF l
<1>4. Spans({}, E, lo, hi) /\ Apart({}, E) /\ Covered({}, E) = {}
  BY DEF Spans, Apart, Covered
<1>5. Stored(l.data1, l.data2, RcvListSize, w, c, {}, E)
  BY <1>3 DEF Stored, RcvSlots
<1>6. Linked(l.next, RcvListSize, c, {}) /\ HeadIs(l.head, c, {})
  BY <1>3 DEF Linked, HeadIs, RcvSlots
<1>7. BackLinked(l.prior, RcvListSize, c, {}) /\ TailIs(l.tail, c, {})
  BY <1>3 DEF BackLinked, TailIs, Links, RcvSlots
<1>8. l.length = Cardinality(Covered({}, E))
  BY <1>3, <1>4, FS_EmptySet
<1>9. RcvRep(l, w, c, {}, E, lo, hi)
  BY <1>3, <1>4, <1>5, <1>6, <1>7, <1>8 DEF RcvRep, RcvBody
<1> QED
  BY <1>2, <1>4, <1>9 DEF RcvHolds, l

-----------------------------------------------------------------------------
(* The receiver's behaviours.                                              *)

\* The receiver at the positions f <= c + 1: what it has acknowledged and the
\* newest it has seen; h is the last it would store.  A dropped message may have
\* taken the newest beyond that, but not beyond what the peer's buffer holds.
RcvAt(w, f, c, h, S) ==
    /\ from = w[f] /\ curr = w[c]
    /\ f <= c + 1 /\ (c <= h \/ c <= f + PeerBufSize) /\ h = f + RcvSpan - 1
    /\ lost = WireSet(w, S) /\ S \in SUBSET (f .. h) /\ \A x \in S : x <= c
    /\ RcvHolds(list, w, S, f, h)

RcvInv ==
    side = "rcv" =>
        \E w \in Wires, f \in Int, c \in Int, h \in Int : \E S : RcvAt(w, f, c, h, S)

\* What the bounds of the receiver's window are.
LEMMA RcvBounds ==
    /\ RcvSpan \in Nat \ {0} /\ RcvSpan <= RcvListSize /\ RcvSpan <= SeqNoTH
    /\ RcvListSize \in Nat \ {0} /\ RcvListSize <= SeqNoTH /\ RcvListSize <= MaxSeqNo
    /\ MaxSeqNo \in Nat /\ SeqNoTH \in Nat \ {0} /\ SeqNoTH <= MaxSeqNo
    /\ PeerBufSize \in Nat \ {0} /\ 2 * PeerBufSize + 1 < SeqNoTH
    /\ PeerBufSize + RcvSpan < SeqNoTH
BY SeqNoAssumption, LossListsAssumption

LEMMA RcvInitInv == Init => RcvInv
<1> SUFFICES ASSUME Init, side = "rcv" PROVE RcvInv
  BY DEF RcvInv
<1>1. PICK w \in Wires : w[0] = 0
  BY RcvBounds, RingThrough DEF Wires
<1>2. w[-1] = MaxSeqNo
  <2>1. DecSeq(w[0]) = w[0 - 1]
    BY WireStep
  <2> QED
    BY <1>1, <2>1 DEF DecSeq
<1>3. PICK h \in Int : h = RcvSpan - 1 /\ -1 <= h
  <2>1. RcvSpan - 1 \in Int /\ -1 <= RcvSpan - 1
    BY RcvBounds
  <2> QED
    BY <2>1
<1>4. RcvHolds(list, w, {}, 0, h)
  <2>1. h - 0 < RcvListSize
    BY <1>3, RcvBounds
  <2>2. RcvHolds(NewRcvList, w, {}, 0, h)
    BY <2>1, RcvBounds, RcvStart
  <2> QED
    BY <2>2 DEF Init
<1>5. RcvAt(w, 0, -1, h, {})
  <2>1. from = w[0] /\ curr = w[-1] /\ lost = {}
    BY <1>1, <1>2 DEF Init
  <2>2. WireSet(w, {}) = {}
    BY DEF WireSet
  <2>3. h = 0 + RcvSpan - 1
    BY <1>3, RcvBounds
  <2> QED
    BY <1>3, <1>4, <2>1, <2>2, <2>3, 0 <= -1 + 1 DEF RcvAt
<1> QED
  BY <1>5 DEF RcvInv

\* What is so at the positions.
RcvKnows(w, f, c, h, S) ==
    /\ h - f < RcvListSize /\ h - f < SeqNoTH /\ c - f < SeqNoTH
    /\ S \in SUBSET Int
    /\ SeqRange(from, curr) = WireSet(w, f .. c)
    /\ IncSeq(curr) = w[c + 1]

LEMMA RcvKnown ==
    ASSUME NEW w \in Wires, NEW f \in Int, NEW c \in Int, NEW h \in Int, NEW S,
           RcvAt(w, f, c, h, S)
    PROVE  RcvKnows(w, f, c, h, S)
<1>1. /\ from = w[f] /\ curr = w[c]
      /\ f <= c + 1 /\ (c <= h \/ c <= f + PeerBufSize) /\ h = f + RcvSpan - 1
      /\ S \in SUBSET (f .. h)
  BY DEF RcvAt
<1>2. h - f < RcvListSize /\ h - f < SeqNoTH /\ c - f < SeqNoTH
  BY <1>1, RcvBounds
<1>3. S \in SUBSET Int
  BY <1>1
<1>4. SeqRange(w[f], w[c]) = WireSet(w, f .. c)
  <2>1. c + 1 - f <= MaxSeqNo
    BY <1>2, RcvBounds
  <2> QED
    BY <1>1, <2>1, WireSeqRange
<1>5. IncSeq(w[c]) = w[c + 1]
  BY WireStep
<1> QED
  BY <1>1, <1>2, <1>3, <1>4, <1>5 DEF RcvKnows

\* A number from one of the window on that lies within the window by its offset
\* is the one of that position.
LEMMA RcvWithin ==
    ASSUME NEW w \in Wires, NEW f \in Int, NEW x \in Int, NEW d \in 0 .. RcvSpan,
           f <= x + d, x - f < SeqNoTH,
           SeqOff(w[f], IncSeqBy(w[x], d)) \in 0 .. RcvSpan - 1
    PROVE  IncSeqBy(w[x], d) = w[x + d] /\ x + d <= f + RcvSpan - 1
<1>1. d \in 0 .. MaxSeqNo /\ x + d \in Int
  BY RcvBounds
<1>2. IncSeqBy(w[x], d) = w[x + d]
  BY <1>1, WireBy
<1>3. PICK y \in Int : y = x + d
  BY <1>1
<1>4. /\ f <= y /\ y - f < 2 * SeqNoTH
      /\ 0 <= SeqOff(w[f], w[y]) /\ SeqOff(w[f], w[y]) < SeqNoTH
  BY <1>2, <1>3, RcvBounds
<1>5. SeqOff(w[f], w[y]) = y - f
  BY <1>4, WireNear
<1> QED
  BY <1>2, <1>3, <1>5, RcvBounds

LEMMA ArriveNewInv ==
    ASSUME NEW w \in Wires, NEW f \in Int, NEW c \in Int, NEW h \in Int, NEW S,
           RcvAt(w, f, c, h, S), ArriveNew
    PROVE  RcvInv'
<1>1. /\ from = w[f] /\ curr = w[c]
      /\ f <= c + 1 /\ h = f + RcvSpan - 1
      /\ lost = WireSet(w, S) /\ S \in SUBSET (f .. h) /\ \A x \in S : x <= c
      /\ RcvHolds(list, w, S, f, h)
  BY DEF RcvAt
<1>2. IncSeq(curr) = w[c + 1] /\ h - f < RcvListSize /\ c - f < SeqNoTH /\ S \in SUBSET Int
  BY RcvKnown DEF RcvKnows
<1>3. PICK d \in 1 .. RcvSpan :
         /\ SeqOff(from, IncSeqBy(curr, d)) \in 0 .. RcvSpan - 1
         /\ curr' = IncSeqBy(curr, d)
         /\ IF d > 1
              THEN /\ list' = RcvInsert(list, IncSeq(curr), DecSeq(IncSeqBy(curr, d)))
                   /\ lost' = lost \cup SeqRange(IncSeq(curr), DecSeq(IncSeqBy(curr, d)))
              ELSE list' = list /\ lost' = lost
  BY DEF ArriveNew, InWindow
<1>4. from' = from /\ side' = side
  BY DEF ArriveNew
<1>5. PICK e \in Int : e = c + d
  OBVIOUS
<1>6. IncSeqBy(w[c], d) = w[e] /\ e <= h
  <2>1. d \in 0 .. RcvSpan /\ f <= c + d
    BY <1>1, RcvBounds
  <2>2. SeqOff(w[f], IncSeqBy(w[c], d)) \in 0 .. RcvSpan - 1
    BY <1>1, <1>3
  <2> QED
    BY <1>1, <1>2, <1>5, <2>1, <2>2, RcvWithin
<1>7. f <= e + 1 /\ \A x \in S : x <= e
  BY <1>1, <1>2, <1>5
<1>8. CASE d = 1
  <2>1. RcvAt(w, f, e, h, S)'
    BY <1>1, <1>3, <1>4, <1>6, <1>7, <1>8 DEF RcvAt
  <2> QED
    BY <2>1 DEF RcvInv
<1>9. CASE d > 1
  <2>1. PICK p \in Int, q \in Int : p = c + 1 /\ q = e - 1
    OBVIOUS
  <2>2. /\ p \in f .. h /\ q \in f .. h /\ p <= q /\ q <= e
        /\ \A x \in S : x < p
    BY <1>1, <1>2, <1>5, <1>6, <1>9, <2>1
  <2>3. DecSeq(w[e]) = w[q]
    BY <2>1, WireStep
  <2>4. /\ list' = RcvInsert(list, w[p], w[q])
        /\ lost' = lost \cup SeqRange(w[p], w[q])
    BY <1>1, <1>2, <1>3, <1>6, <1>9, <2>1, <2>3
  <2>5. SeqRange(w[p], w[q]) = WireSet(w, p .. q)
    <3>1. p <= q + 1 /\ q + 1 - p <= MaxSeqNo
      BY <1>1, <2>2, RcvBounds
    <3> QED
      BY <3>1, WireSeqRange
  <2>6. PICK T : T = S \cup (p .. q)
    OBVIOUS
  <2>7. lost' = WireSet(w, T)
    BY <1>1, <2>4, <2>5, <2>6 DEF WireSet
  <2>8. RcvHolds(list', w, T, f, h)
    BY <1>1, <1>2, <2>2, <2>4, <2>6, RcvInsertHolds
  <2>9. T \in SUBSET (f .. h) /\ \A x \in T : x <= e
    BY <1>1, <1>7, <2>2, <2>6
  <2>10. RcvAt(w, f, e, h, T)'
    BY <1>1, <1>3, <1>4, <1>6, <1>7, <2>7, <2>8, <2>9 DEF RcvAt
  <2> QED
    BY <2>10 DEF RcvInv
<1> QED
  BY <1>8, <1>9

LEMMA ArriveOldInv ==
    ASSUME NEW w \in Wires, NEW f \in Int, NEW c \in Int, NEW h \in Int, NEW S,
           RcvAt(w, f, c, h, S), ArriveOld
    PROVE  RcvInv'
<1>1. /\ from = w[f] /\ curr = w[c]
      /\ f <= c + 1 /\ (c <= h \/ c <= f + PeerBufSize) /\ h = f + RcvSpan - 1
      /\ lost = WireSet(w, S) /\ S \in SUBSET (f .. h) /\ \A x \in S : x <= c
      /\ RcvHolds(list, w, S, f, h)
  BY DEF RcvAt
<1>2. /\ SeqRange(from, curr) = WireSet(w, f .. c) /\ S \in SUBSET Int
      /\ h - f < SeqNoTH /\ c - f < SeqNoTH
  BY RcvKnown DEF RcvKnows
<1>3. PICK s \in SeqRange(from, curr) : /\ SeqOff(from, s) \in 0 .. RcvSpan - 1
                                        /\ list' = RcvRemove(list, s)
                                        /\ lost' = lost \ {s}
  BY DEF ArriveOld, InWindow
<1>4. from' = from /\ curr' = curr /\ side' = side
  BY DEF ArriveOld
<1>5. PICK p \in f .. c : s = w[p]
  BY <1>2, <1>3 DEF WireSet
<1>6. p \in f .. h
  <2>1. p \in Int /\ p - f < SeqNoTH /\ f - p < SeqNoTH
    BY <1>2, <1>5, RcvBounds
  <2>2. SeqOff(w[f], w[p]) = p - f
    BY <2>1, WireOffset
  <2>3. SeqOff(w[f], w[p]) \in 0 .. RcvSpan - 1
    BY <1>1, <1>3, <1>5
  <2> QED
    BY <1>1, <2>1, <2>2, <2>3, RcvBounds
<1>7. PICK T : T = S \ {p}
  OBVIOUS
<1>8. lost' = WireSet(w, T)
  <2>1. ASSUME NEW x \in S, w[x] = w[p] PROVE x = p
    <3>1. x \in f .. h
      BY <1>1
    <3>2. x \in Int /\ p \in Int /\ p - x <= MaxSeqNo /\ x - p <= MaxSeqNo
      BY <1>2, <1>6, <3>1, RcvBounds
    <3> QED
      BY <2>1, <3>2, WireInjective
  <2>2. WireSet(w, S) \ {w[p]} = WireSet(w, T)
    BY <1>7, <2>1 DEF WireSet
  <2> QED
    BY <1>1, <1>3, <1>5, <2>2
<1>9. RcvHolds(list', w, T, f, h)
  <2>1. \A x : x \in T <=> x \in S /\ x # p
    BY <1>7
  <2>2. list' = RcvRemove(list, w[p])
    BY <1>3, <1>5
  <2> QED
    BY <1>1, <1>2, <1>6, <2>1, <2>2, RcvRemoveHolds
<1>10. T \in SUBSET (f .. h) /\ \A x \in T : x <= c
  BY <1>1, <1>7
<1>11. RcvAt(w, f, c, h, T)'
  BY <1>1, <1>4, <1>8, <1>9, <1>10 DEF RcvAt
<1> QED
  BY <1>11 DEF RcvInv

LEMMA DropMessageInv ==
    ASSUME NEW w \in Wires, NEW f \in Int, NEW c \in Int, NEW h \in Int, NEW S,
           RcvAt(w, f, c, h, S), DropMessage, WrappedDrops = FALSE
    PROVE  RcvInv'
<1>1. /\ from = w[f] /\ curr = w[c]
      /\ f <= c + 1 /\ (c <= h \/ c <= f + PeerBufSize) /\ h = f + RcvSpan - 1
      /\ lost = WireSet(w, S) /\ S \in SUBSET (f .. h) /\ \A x \in S : x <= c
      /\ RcvHolds(list, w, S, f, h)
  BY DEF RcvAt
<1>2. S \in SUBSET Int /\ IncSeq(curr) = w[c + 1]
  BY RcvKnown DEF RcvKnows
<1>3. PICK d \in 1 .. PeerBufSize, a \in SeqNos :
         /\ SeqOff(from, a) \in - PeerBufSize .. PeerBufSize - d
         /\ a <= IncSeqBy(a, d)
         /\ list' = RcvRemoveRange(list, a, IncSeqBy(a, d))
         /\ lost' = lost \ SeqRange(a, IncSeqBy(a, d))
         /\ curr' = IF SeqCmp(a, IncSeq(curr)) <= 0 /\ SeqCmp(IncSeqBy(a, d), curr) > 0
                      THEN IncSeqBy(a, d) ELSE curr
  BY DEF DropMessage
<1>4. from' = from /\ side' = side
  BY DEF DropMessage
<1>5. PICK o : o = SeqOff(w[f], a)
  OBVIOUS
<1>6. o \in Int /\ w[f + o] = a /\ - PeerBufSize <= o /\ o <= PeerBufSize - d
  <2>1. o \in Int /\ w[f + o] = a
    BY <1>5, WireOf
  <2>2. o \in - PeerBufSize .. PeerBufSize - d
    BY <1>1, <1>3, <1>5
  <2> QED
    BY <2>1, <2>2, RcvBounds
<1>7. PICK x \in Int, y \in Int : x = f + o /\ y = x + d
  BY <1>6
<1>8. a = w[x] /\ IncSeqBy(a, d) = w[y]
  <2>1. d \in 0 .. MaxSeqNo
    BY RcvBounds
  <2> QED
    BY <1>6, <1>7, <2>1, WireBy
<1>9. /\ f - PeerBufSize <= x /\ x < y /\ y <= f + PeerBufSize /\ y - x <= PeerBufSize
  BY <1>6, <1>7, RcvBounds
<1>10. PICK R, T : R = x .. y /\ T = S \ R
  OBVIOUS
<1>11. SeqRange(w[x], w[y]) = WireSet(w, R)
  <2>1. x <= y + 1 /\ y + 1 - x <= MaxSeqNo
    BY <1>9, RcvBounds
  <2> QED
    BY <1>10, <2>1, WireSeqRange
<1>12. lost' = WireSet(w, T)
  <2>1. ASSUME NEW s \in S, NEW z \in R, w[s] = w[z] PROVE s = z
    <3>1. s \in f .. h /\ z \in x .. y
      BY <1>1, <1>10
    <3>2. s \in Int /\ z \in Int /\ z - s <= MaxSeqNo /\ s - z <= MaxSeqNo
      BY <1>1, <1>9, <3>1, RcvBounds
    <3> QED
      BY <2>1, <3>2, WireInjective
  <2>2. WireSet(w, S) \ WireSet(w, R) = WireSet(w, T)
    BY <1>10, <2>1 DEF WireSet
  <2> QED
    BY <1>1, <1>3, <1>8, <1>11, <2>2
<1>13. RcvHolds(list', w, T, f, h)
  <2>1. \A z : z \in T <=> z \in S /\ z \notin x .. y
    BY <1>10
  <2>2. list' = RcvRemoveRange(list, w[x], w[y]) /\ w[x] <= w[y]
    BY <1>3, <1>8
  <2>3. /\ x <= y /\ y - x <= MaxSeqNo
        /\ h - x < SeqNoTH /\ y - f < SeqNoTH
    BY <1>1, <1>9, RcvBounds
  <2>4. RcvHolds(RcvRemoveRange(list, w[x], w[y]), w, T, f, h)
    BY <1>1, <1>2, <2>1, <2>2, <2>3, RcvRemoveRangeHolds
  <2> QED
    BY <2>2, <2>4
<1>14. SeqCmp(w[x], w[c + 1]) <= 0 <=> x <= c + 1
  <2>1. c + 1 \in Int /\ (c + 1) - x < SeqNoTH /\ x - (c + 1) < SeqNoTH
    BY <1>1, <1>9, RcvBounds
  <2> QED
    BY <2>1, WireOrder
<1>15. SeqCmp(w[y], w[c]) > 0 <=> y > c
  <2>1. y - c < SeqNoTH /\ c - y < SeqNoTH
    BY <1>1, <1>9, RcvBounds
  <2> QED
    BY <2>1, WireOrder
<1>16. PICK e \in Int : e = IF x <= c + 1 /\ y > c THEN y ELSE c
  OBVIOUS
<1>17. curr' = w[e]
  BY <1>1, <1>2, <1>3, <1>8, <1>14, <1>15, <1>16
<1>18. c <= e /\ f <= e + 1 /\ (e <= h \/ e <= f + PeerBufSize)
  BY <1>1, <1>9, <1>16, RcvBounds
<1>19. T \in SUBSET (f .. h) /\ \A z \in T : z <= e
  BY <1>1, <1>2, <1>10, <1>18
<1>20. RcvAt(w, f, e, h, T)'
  BY <1>1, <1>4, <1>12, <1>13, <1>17, <1>18, <1>19 DEF RcvAt
<1> QED
  BY <1>20 DEF RcvInv

LEMMA SendAckInv ==
    ASSUME NEW w \in Wires, NEW f \in Int, NEW c \in Int, NEW h \in Int, NEW S,
           RcvAt(w, f, c, h, S), SendAck
    PROVE  RcvInv'
<1>1. /\ from = w[f] /\ curr = w[c]
      /\ f <= c + 1 /\ (c <= h \/ c <= f + PeerBufSize) /\ h = f + RcvSpan - 1
      /\ lost = WireSet(w, S) /\ S \in SUBSET (f .. h) /\ \A x \in S : x <= c
      /\ RcvHolds(list, w, S, f, h)
  BY DEF RcvAt
<1>2. IncSeq(curr) = w[c + 1]
  BY RcvKnown DEF RcvKnows
<1>3. /\ from' = IF list.length = 0 THEN IncSeq(curr) ELSE RcvFirst(list)
      /\ list' = list /\ lost' = lost /\ curr' = curr /\ side' = side
  BY DEF SendAck
<1>4. RcvSays(list, w, S)
  BY <1>1, RcvSaysAll
<1>5. list.length = 0 <=> S = {}
  BY <1>4 DEF RcvSays
<1>6. \E g \in f .. c + 1 : from' = w[g] /\ S \in SUBSET (g .. h)
  <2>1. CASE S = {}
    <3>1. c + 1 \in f .. c + 1
      BY <1>1
    <3> QED
      BY <1>2, <1>3, <1>5, <2>1, <3>1
  <2>2. CASE S # {}
    <3>1. PICK x \in S : (\A y \in S : x <= y) /\ RcvFirst(list) = w[x]
      BY <1>4, <2>2 DEF RcvSays
    <3>2. x \in f .. c + 1 /\ S \in SUBSET (x .. h)
      BY <1>1, <3>1
    <3> QED
      BY <1>3, <1>5, <2>2, <3>1, <3>2
  <2> QED
    BY <2>1, <2>2
<1>7. PICK g \in Int : f <= g /\ g <= c + 1 /\ from' = w[g] /\ S \in SUBSET (g .. h)
  BY <1>6
<1>8. PICK k \in Int : k = g + RcvSpan - 1
  BY RcvBounds
<1>9. /\ h <= k /\ k - g < RcvListSize /\ S \in SUBSET (g .. k)
      /\ c <= k \/ c <= g + PeerBufSize
  <2>1. h <= k /\ k - g < RcvListSize /\ (c <= k \/ c <= g + PeerBufSize)
    BY <1>1, <1>7, <1>8, RcvBounds
  <2> QED
    BY <1>7, <2>1
<1>10. RcvHolds(list, w, S, g, k)
  BY <1>1, <1>9, RcvNarrow
<1>11. RcvAt(w, g, c, k, S)'
  BY <1>1, <1>3, <1>7, <1>8, <1>9, <1>10 DEF RcvAt
<1> QED
  BY <1>11 DEF RcvInv

LEMMA RcvNextInv ==
    ASSUME WrappedDrops = FALSE, RcvInv, [Next]_vars
    PROVE  RcvInv'
<1> SUFFICES ASSUME side' = "rcv" PROVE RcvInv'
  BY DEF RcvInv
<1>1. side = "rcv"
  BY DEF Next, SndNext, RcvNext, SendNew, TakeLiteAck, TakeAck, AckData, Report, TakeLost,
         Retransmit, DropExpired, ArriveNew, ArriveOld, DropMessage, SendAck, vars
<1>2. PICK w \in Wires, f \in Int, c \in Int, h \in Int : \E S : RcvAt(w, f, c, h, S)
  BY <1>1 DEF RcvInv
<1>3. PICK S : RcvAt(w, f, c, h, S)
  BY <1>2
<1>4. CASE ArriveNew
  BY <1>3, <1>4, ArriveNewInv
<1>5. CASE ArriveOld
  BY <1>3, <1>5, ArriveOldInv
<1>6. CASE DropMessage
  BY <1>3, <1>6, DropMessageInv
<1>7. CASE SendAck
  BY <1>3, <1>7, SendAckInv
<1>8. CASE UNCHANGED vars
  <2>1. RcvAt(w, f, c, h, S)'
    BY <1>3, <1>8 DEF RcvAt, vars
  <2> QED
    BY <2>1 DEF RcvInv
<1>9. ~SndNext
  BY <1>1 DEF SndNext, SendNew, TakeLiteAck, TakeAck, AckData, Report, TakeLost,
              Retransmit, DropExpired
<1> QED
  BY <1>4, <1>5, <1>6, <1>7, <1>8, <1>9 DEF Next, RcvNext

LEMMA RcvInvImplies == RcvInv => RcvListExact
<1> SUFFICES ASSUME RcvInv, side = "rcv" PROVE RcvListExact
  BY DEF RcvListExact
<1>1. PICK w \in Wires, f \in Int, c \in Int, h \in Int : \E S : RcvAt(w, f, c, h, S)
  BY DEF RcvInv
<1>2. PICK S : RcvAt(w, f, c, h, S)
  BY <1>1
<1>3. lost = WireSet(w, S) /\ RcvHolds(list, w, S, f, h)
  BY <1>2 DEF RcvAt
<1>4. RcvSays(list, w, S)
  BY <1>3, RcvSaysAll
<1>5. lost # {} => S # {}
  BY <1>3 DEF WireSet
<1> QED
  BY <1>3, <1>4, <1>5 DEF RcvSays, RcvListExact, Contents, Ranges

\* RcvInv is inductive: the receiver's list represents what is missing, before
\* and after every packet, dropped message and ACK.
THEOREM RcvListInvariant ==
    ASSUME WrappedDrops = FALSE
    PROVE  Spec => []RcvInv
<1>1. Init => RcvInv
  BY RcvInitInv
<1>2. RcvInv /\ [Next]_vars => RcvInv'
  BY RcvNextInv
<1> QED
  BY <1>1, <1>2, PTL DEF Spec

\* CRcvLossList holds the missing packets and no others, so that the number an
\* ACK takes from it acknowledges nothing that is missing; but for messages that
\* wrap, which remove(seqno1, seqno2) does not take out as a whole.
THEOREM RcvListIsExact ==
    ASSUME WrappedDrops = FALSE
    PROVE  Spec => []RcvListExact
<1>1. RcvInv => RcvListExact
  BY RcvInvImplies
<1>2. Spec => []RcvInv
  BY RcvListInvariant
<1> QED
  BY <1>1, <1>2, PTL
=============================================================================
