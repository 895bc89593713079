----------------------------- MODULE PsnProofs -----------------------------
(***************************************************************************)
(* What the proofs about the window, the jitter buffer and the tables rest *)
(* on: arithmetic modulo a number that is not known, the order of PSNs on  *)
(* their circle, searches from the front of a table, and sets of           *)
(* consecutive numbers.                                                    *)
(***************************************************************************)
EXTENDS Psn, Tables, FiniteSets, FiniteSetTheorems, WellFoundedInduction, TLAPS

----------------------------------------------------------------------------
(* Residues. *)

\* Division with remainder.
LEMMA ModIs ==
  ASSUME NEW N \in Nat, N > 0, NEW x \in Int
  PROVE  /\ x \div N \in Int
         /\ x % N \in 0 .. N - 1
         /\ x = N * (x \div N) + (x % N)
  OBVIOUS

LEMMA ModUnique ==
  ASSUME NEW N \in Nat, N > 0, NEW q \in Int, NEW r \in 0 .. N - 1
  PROVE  (N * q + r) % N = r
  OBVIOUS

\* A residue may be taken before or after an addition.
LEMMA ModPlus ==
  ASSUME NEW N \in Nat, N > 0, NEW x \in Int, NEW y \in Int
  PROVE  ((x % N) + y) % N = (x + y) % N
<1> DEFINE a == x \div N
           b == ((x % N) + y) \div N
           r == ((x % N) + y) % N
<1>1. a \in Int /\ x % N \in 0 .. N - 1 /\ x = N * a + (x % N)
  BY ModIs
<1>2. b \in Int /\ r \in 0 .. N - 1 /\ (x % N) + y = N * b + r
  <2>1. (x % N) + y \in Int
    BY <1>1
  <2>2. QED
    BY <2>1, ModIs
<1> HIDE DEF a, b, r
<1>3. x + y = N * (a + b) + r
  <2>1. N * (a + b) = N * a + N * b
    BY <1>1, <1>2
  <2>2. N * a \in Int /\ N * b \in Int
    BY <1>1, <1>2
  <2>3. QED
    BY <1>1, <1>2, <2>1, <2>2
<1>4. (N * (a + b) + r) % N = r
  <2>1. a + b \in Int
    BY <1>1, <1>2
  <2>2. QED
    BY <1>2, <2>1, ModUnique
<1>5. QED
  BY <1>3, <1>4 DEF r

\* Two numbers with the same residue are the same or at least N apart.
LEMMA ModApart ==
  ASSUME NEW N \in Nat, N > 0, NEW x \in Int, NEW y \in Int,
         x % N = y % N, x <= y, y < x + N
  PROVE  x = y
<1> DEFINE a == x \div N
           b == y \div N
<1>1. a \in Int /\ x % N \in Int /\ x = N * a + (x % N)
  BY ModIs
<1>2. b \in Int /\ y = N * b + (x % N)
  BY ModIs
<1> HIDE DEF a, b
<1>3. y - x = N * (b - a)
  <2>1. N * (b - a) = N * b - N * a /\ N * a \in Int /\ N * b \in Int
    BY <1>1, <1>2
  <2>2. QED
    BY <1>1, <1>2, <2>1
<1>4. b - a \in Int /\ N * (b - a) >= 0 /\ N * (b - a) < N
  BY <1>1, <1>2, <1>3
<1>5. b - a = 0
  <2>1. ASSUME NEW k \in Int, N * k >= 0, N * k < N PROVE k = 0
    BY <2>1
  <2>2. QED
    BY <1>4, <2>1
<1>6. QED
  BY <1>1, <1>2, <1>5

\* A residue modulo a divisor.
LEMMA ModDivisor ==
  ASSUME NEW N \in Nat, N > 0, NEW D \in Nat, D > 0, N % D = 0, NEW x \in Int
  PROVE  (x % N) % D = x % D
<1> DEFINE c == N \div D
           a == x \div N
           b == (x % N) \div D
           r == (x % N) % D
<1>1. c \in Int /\ N = D * c
  BY ModIs
<1>2. a \in Int /\ x % N \in Int /\ x = N * a + (x % N)
  BY ModIs
<1>3. b \in Int /\ r \in 0 .. D - 1 /\ x % N = D * b + r
  BY <1>2, ModIs
<1> HIDE DEF a, b, c, r
<1>4. x = D * (c * a + b) + r
  <2>1. N * a = D * (c * a)
    BY <1>1, <1>2
  <2>2. c * a \in Int /\ D * (c * a) \in Int /\ D * b \in Int
    BY <1>1, <1>2, <1>3
  <2>3. D * (c * a + b) = D * (c * a) + D * b
    BY <1>3, <2>2
  <2>4. QED
    BY <1>2, <1>3, <2>1, <2>2, <2>3
<1>5. c * a + b \in Int
  BY <1>1, <1>2, <1>3
<1>6. (D * (c * a + b) + r) % D = r
  BY <1>3, <1>5, ModUnique
<1>7. QED
  BY <1>4, <1>6 DEF r

----------------------------------------------------------------------------
(* PSNs. *)

LEMMA PsnIsInt == /\ MAX_PSN \in Nat /\ MAX_PSN > 1
                  /\ PSN \subseteq Nat
                  /\ \A x \in Int : x % MAX_PSN \in PSN
                  /\ \A p \in PSN : p % MAX_PSN = p
  BY PsnAssumption DEF PSN

\* The forward distance is a number of steps below MAX_PSN, and that many
\* steps lead from the one PSN to the other.
LEMMA DistIs ==
  ASSUME NEW p \in PSN, NEW q \in PSN
  PROVE  /\ psn_forward_dist(p, q) \in 0 .. MAX_PSN - 1
         /\ (p + psn_forward_dist(p, q)) % MAX_PSN = q
         /\ psn_forward_dist(p, q) = 0 <=> p = q
<1>1. p % MAX_PSN = p /\ q % MAX_PSN = q /\ p \in 0 .. MAX_PSN - 1 /\ q \in 0 .. MAX_PSN - 1
  BY PsnIsInt DEF PSN
<1>2. CASE q >= p
  BY <1>1, <1>2, PsnAssumption DEF psn_forward_dist
<1>3. CASE q < p
  <2>1. psn_forward_dist(p, q) = MAX_PSN - p + q
    BY <1>1, <1>3, PsnAssumption DEF psn_forward_dist
  <2>2. p + psn_forward_dist(p, q) = MAX_PSN * 1 + q
    BY <1>1, <2>1, PsnAssumption
  <2>3. (MAX_PSN * 1 + q) % MAX_PSN = q
    BY <1>1, PsnIsInt, ModUnique
  <2>4. QED
    BY <1>1, <1>3, <2>1, <2>2, <2>3, PsnAssumption
<1>4. QED
  BY <1>1, <1>2, <1>3

\* d steps lead to the PSN at distance d.
LEMMA DistOf ==
  ASSUME NEW p \in PSN, NEW d \in 0 .. MAX_PSN - 1
  PROVE  psn_forward_dist(p, (p + d) % MAX_PSN) = d
<1> DEFINE q == (p + d) % MAX_PSN
           e == psn_forward_dist(p, q)
<1>1. p \in Int /\ d \in Int /\ p + d \in Int /\ MAX_PSN \in Nat /\ MAX_PSN > 0
  BY PsnIsInt
<1>2. q \in PSN
  BY <1>1, PsnIsInt
<1>3. e \in 0 .. MAX_PSN - 1 /\ (p + e) % MAX_PSN = (p + d) % MAX_PSN
  BY <1>2, DistIs
<1> HIDE DEF e, q
<1>4. p + e \in Int /\ p + d \in Int
  BY <1>1, <1>3
<1>5. CASE e <= d
  <2>1. p + e <= p + d /\ p + d < (p + e) + MAX_PSN
    BY <1>1, <1>3, <1>5
  <2>2. p + e = p + d
    BY <1>1, <1>3, <1>4, <2>1, ModApart
  <2>3. QED
    BY <1>1, <1>3, <2>2 DEF e, q
<1>6. CASE d <= e
  <2>0. p + d <= p + e /\ p + e < (p + d) + MAX_PSN
    BY <1>1, <1>3, <1>6
  <2>1. p + d = p + e
    BY <1>1, <1>3, <1>4, <2>0, ModApart
  <2>2. QED
    BY <1>1, <1>3, <2>1 DEF e, q
<1>7. QED
  BY <1>1, <1>3, <1>5, <1>6

LEMMA ModSelf ==
  ASSUME NEW N \in Nat, N > 0, NEW x \in Int
  PROVE  (x + N) % N = x % N
<1>1. x \div N \in Int /\ x % N \in 0 .. N - 1 /\ x = N * (x \div N) + (x % N)
  BY ModIs
<1> DEFINE a == x \div N
           r == x % N
<1> HIDE DEF a, r
<1>2. x + N = N * (a + 1) + r
  <2>1. N * (a + 1) = N * a + N /\ N * a \in Int
    BY <1>1 DEF a
  <2>2. QED
    BY <1>1, <2>1 DEF a, r
<1>3. (N * (a + 1) + r) % N = r
  <2>1. a + 1 \in Int /\ r \in 0 .. N - 1
    BY <1>1 DEF a, r
  <2>2. QED
    BY <2>1, ModUnique
<1>4. QED
  BY <1>2, <1>3 DEF r

\* Counted from one origin, PSNs of the first half of the circle are compared
\* by "diff < 0x800000" like the numbers they stand for.
LEMMA BeforeIs ==
  ASSUME NEW o \in PSN, NEW p \in PSN, NEW q \in PSN,
         psn_forward_dist(o, p) < MAX_PSN \div 2,
         psn_forward_dist(o, q) < MAX_PSN \div 2
  PROVE  AtOrBefore(p, q) <=> psn_forward_dist(o, p) <= psn_forward_dist(o, q)
<1> DEFINE a == psn_forward_dist(o, p)
           b == psn_forward_dist(o, q)
           H == MAX_PSN \div 2
<1>1. /\ a \in Nat /\ b \in Nat /\ a < H /\ b < H
      /\ (o + a) % MAX_PSN = p /\ (o + b) % MAX_PSN = q
  BY DistIs, PsnIsInt
<1>2. /\ MAX_PSN \in Nat /\ MAX_PSN > 0 /\ H \in Nat /\ MAX_PSN = H + H
      /\ o \in Int /\ p \in Int /\ q \in Int
  BY PsnAssumption, PsnIsInt
<1> HIDE DEF a, b, H
<1>3. CASE a <= b
  <2>1. (p + (b - a)) % MAX_PSN = ((o + a) + (b - a)) % MAX_PSN
    <3>1. o + a \in Int /\ b - a \in Int
      BY <1>1, <1>2
    <3>2. (((o + a) % MAX_PSN) + (b - a)) % MAX_PSN = ((o + a) + (b - a)) % MAX_PSN
      BY <1>2, <3>1, ModPlus
    <3>3. QED
      BY <1>1, <3>2
  <2>2. (o + a) + (b - a) = o + b /\ b - a \in 0 .. MAX_PSN - 1
    BY <1>1, <1>2, <1>3
  <2>3. (p + (b - a)) % MAX_PSN = q
    BY <1>1, <2>1, <2>2
  <2>4. psn_forward_dist(p, q) = b - a
    BY <2>2, <2>3, DistOf
  <2>5. AtOrBefore(p, q)
    BY <1>1, <1>2, <1>3, <2>4 DEF AtOrBefore, H
  <2>6. QED
    BY <1>3, <2>5 DEF a, b
<1>4. CASE b < a
  <2> DEFINE d == MAX_PSN - (a - b)
  <2>1. (p + d) % MAX_PSN = ((o + a) + d) % MAX_PSN
    <3>1. o + a \in Int /\ d \in Int
      BY <1>1, <1>2
    <3> HIDE DEF d
    <3>2. (((o + a) % MAX_PSN) + d) % MAX_PSN = ((o + a) + d) % MAX_PSN
      BY <1>2, <3>1, ModPlus
    <3>3. QED
      BY <1>1, <3>2
  <2>2. (o + a) + d = (o + b) + MAX_PSN /\ d \in 0 .. MAX_PSN - 1 /\ ~(d < H)
    BY <1>1, <1>2, <1>4
  <2>3. ((o + b) + MAX_PSN) % MAX_PSN = (o + b) % MAX_PSN
    BY <1>1, <1>2, ModSelf
  <2> HIDE DEF d
  <2>4. (p + d) % MAX_PSN = q
    BY <1>1, <2>1, <2>2, <2>3
  <2>5. psn_forward_dist(p, q) = d
    BY <2>2, <2>4, DistOf
  <2>6. ~AtOrBefore(p, q)
    BY <2>2, <2>5 DEF AtOrBefore, H
  <2>7. ~(a <= b)
    BY <1>1, <1>4
  <2>8. QED
    BY <2>6, <2>7 DEF a, b
<1>5. QED
  BY <1>1, <1>3, <1>4

----------------------------------------------------------------------------
(* Least members. *)

LEMMA LeastMember ==
  ASSUME NEW S, S \subseteq Nat, S # {}
  PROVE  \E x \in S : \A y \in S : x <= y
<1> DEFINE R == {pair \in Nat \X Nat : pair[1] < pair[2]}
<1>1. IsWellFoundedOn(R, Nat)
  BY NatLessThanWellFounded, Zenon DEF OpToRel
<1>2. PICK x \in S : \A y \in S : <<y, x>> \notin R
  BY <1>1, WFMin, Zenon
<1>3. ASSUME NEW y \in S PROVE x <= y
  <2>1. ~(y < x)
    <3>1. <<y, x>> \in Nat \X Nat /\ <<y, x>>[1] = y /\ <<y, x>>[2] = x
      OBVIOUS
    <3>2. <<y, x>> \notin R
      BY <1>2
    <3>3. QED
      BY <3>1, <3>2
  <2>2. x \in Nat /\ y \in Nat
    OBVIOUS
  <2>3. QED
    BY <2>1, <2>2
<1>4. QED
  BY <1>3

\* A search of a table finds a hit if there is one, and says 0 otherwise.
LEMMA FirstEntryIs ==
  ASSUME NEW hits, hits \subseteq Nat \ {0}
  PROVE  /\ hits = {} => FirstEntry(hits) = 0
         /\ hits # {} => /\ FirstEntry(hits) \in hits
                         /\ FirstEntry(hits) # 0
                         /\ \A j \in hits : FirstEntry(hits) <= j
<1>1. CASE hits = {}
  BY <1>1 DEF FirstEntry
<1>2. CASE hits # {}
  <2>1. \E i \in hits : \A j \in hits : i <= j
    BY <1>2, LeastMember, hits \subseteq Nat
  <2>2. FirstEntry(hits) \in hits /\ \A j \in hits : FirstEntry(hits) <= j
    BY <1>2, <2>1, Zenon DEF FirstEntry
  <2>3. QED
    BY <1>2, <2>2
<1>3. QED
  BY <1>1, <1>2

\* A set of numbers from a to b that has with every member all the smaller
\* ones is itself an interval, and its size says how far it reaches.
LEMMA PrefixIsInterval ==
  ASSUME NEW a \in Nat, NEW b \in Int, NEW S \in SUBSET (a .. b),
         \A k \in S : \A j \in a .. k : j \in S
  PROVE  /\ IsFiniteSet(S)
         /\ Cardinality(S) \in Nat
         /\ S = a .. a + Cardinality(S) - 1
<1>1. CASE b < a
  <2>1. S = {}
    BY <1>1
  <2>2. QED
    BY <2>1, FS_EmptySet
<1>2. CASE a <= b
  <2> DEFINE Rest == (a .. b + 1) \ S
  <2>1. b + 1 \in Rest /\ Rest \subseteq Nat
    BY <1>2
  <2>2. PICK m \in Rest : \A y \in Rest : m <= y
    BY <2>1, LeastMember
  <2>3. m \in Nat /\ a <= m /\ m <= b + 1 /\ m \notin S
    BY <2>1, <2>2
  <2>4. ASSUME NEW k \in a .. m - 1 PROVE k \in S
    BY <2>2, <2>3
  <2>5. ASSUME NEW k \in S PROVE k \in a .. m - 1
    <3>1. ~(m \in a .. k)
      BY <2>3
    <3>2. QED
      BY <2>3, <3>1
  <2>6. S = a .. m - 1
    BY <2>4, <2>5
  <2>7. IsFiniteSet(a .. m - 1) /\ Cardinality(a .. m - 1) = m - a
    <3>1. a \in Int /\ m - 1 \in Int
      BY <2>3
    <3>2. /\ IsFiniteSet(a .. m - 1)
          /\ Cardinality(a .. m - 1) = IF a > m - 1 THEN 0 ELSE (m - 1) - a + 1
      BY <3>1, FS_Interval
    <3>3. QED
      BY <2>3, <3>2
  <2>8. QED
    BY <2>3, <2>6, <2>7
<1>3. QED
  BY <1>1, <1>2

============================================================================
