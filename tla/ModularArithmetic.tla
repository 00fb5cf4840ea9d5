--------------------------- MODULE ModularArithmetic ---------------------------
(***************************************************************************)
(* Remainders.  The code keeps the numbers of cells, blocks, slots, index  *)
(* entries and columns modulo the size of what they number; these are the  *)
(* facts about div and mod that the proofs about it need.                  *)
(***************************************************************************)
EXTENDS Integers, TLAPS

(* Quotient and remainder.                                                 *)
LEMMA DivMod ==
    ASSUME NEW m \in Nat, 0 < m, NEW x \in Nat
    PROVE  /\ x \div m \in Nat /\ x % m \in Nat /\ x % m < m
           /\ x = (x \div m) * m + (x % m)
<1> DEFINE q == x \div m
           e == x % m
<1>1. q \in Nat /\ e \in Nat /\ e < m /\ x = m * q + e
  OBVIOUS
<1> HIDE DEF q, e
<1>2. x = q * m + e
  BY <1>1
<1> QED
  BY <1>1, <1>2 DEF q, e

(* They are determined by the decomposition.                               *)
LEMMA DivModUnique ==
    ASSUME NEW m \in Nat, 0 < m, NEW x \in Nat,
           NEW q \in Int, NEW e \in Nat, e < m, x = q * m + e
    PROVE  x \div m = q /\ x % m = e
<1> DEFINE k == x \div m
           f == x % m
<1>1. k \in Nat /\ f \in Nat /\ f < m /\ x = k * m + f
  BY DivMod
<1> HIDE DEF k, f
<1> DEFINE i == k - q
<1>2. i \in Int /\ i * m = e - f
  BY <1>1
<1> HIDE DEF i
<1>3. i * m < m /\ i * m > - m
  BY <1>1, <1>2
<1>4. i >= 1 => i * m >= m
  BY <1>2
<1>5. i <= -1 => i * m <= - m
  BY <1>2
<1>6. i = 0
  BY <1>2, <1>3, <1>4, <1>5
<1>7. k = q
  BY <1>1, <1>6 DEF i
<1>8. f = e
  BY <1>1, <1>2, <1>6
<1> QED
  BY <1>7, <1>8 DEF k, f

(* Adding before or after the reduction makes no difference.               *)
LEMMA ModAdd ==
    ASSUME NEW m \in Nat, 0 < m, NEW x \in Nat, NEW d \in Nat
    PROVE  (x + d) % m = ((x % m) + d) % m
<1> DEFINE e == x % m
           k == x \div m
           y == e + d
           f == y % m
           j == y \div m
<1>1. e \in Nat /\ k \in Nat /\ x = k * m + e
  BY DivMod
<1>2. y \in Nat
  BY <1>1
<1> HIDE DEF y
<1>3. f \in Nat /\ j \in Nat /\ f < m /\ y = j * m + f
  BY <1>2, DivMod
<1> HIDE DEF e, k, f, j
<1>4. x + d = (k + j) * m + f /\ x + d \in Nat /\ k + j \in Int
  BY <1>1, <1>3 DEF y
<1>5. (x + d) % m = f
  BY <1>1, <1>3, <1>4, DivModUnique
<1> QED
  BY <1>5 DEF f, y, e

(* Equal remainders: the numbers are equal or at least m apart.            *)
LEMMA ModApart ==
    ASSUME NEW m \in Nat, 0 < m, NEW x \in Nat, NEW y \in Nat,
           x % m = y % m, x < y
    PROVE  x + m <= y
<1> DEFINE e == x % m
           k == x \div m
           j == y \div m
<1>1. e \in Nat /\ k \in Nat /\ j \in Nat /\ x = k * m + e /\ y = j * m + e
  BY DivMod
<1> HIDE DEF e, k, j
<1> DEFINE i == j - k
<1>2. i \in Int /\ i * m = y - x
  BY <1>1
<1> HIDE DEF i
<1>3. i <= 0 => i * m <= 0
  BY <1>2
<1>4. i >= 1 => i * m >= m
  BY <1>2
<1> QED
  BY <1>2, <1>3, <1>4

(* A multiple of the modulus does not show.                                *)
LEMMA ModShift ==
    ASSUME NEW m \in Nat, 0 < m, NEW x \in Nat
    PROVE  (x + m) % m = x % m
<1> DEFINE e == x % m
           k == x \div m
<1>1. e \in Nat /\ e < m /\ k \in Nat /\ x = k * m + e
  BY DivMod
<1> HIDE DEF e, k
<1>2. x + m = (k + 1) * m + e /\ k + 1 \in Int /\ x + m \in Nat
  BY <1>1
<1>3. (x + m) % m = e
  BY <1>1, <1>2, DivModUnique
<1> QED
  BY <1>3 DEF e

(* Reducing modulo a multiple first makes no difference.                   *)
LEMMA ModMod ==
    ASSUME NEW m \in Nat, 0 < m, NEW k \in Nat, NEW l \in Nat, 0 < l, l = k * m,
           NEW x \in Nat
    PROVE  (x % l) % m = x % m
<1> DEFINE e == x % l
           j == x \div l
           f == e % m
           i == e \div m
<1>1. e \in Nat /\ j \in Nat /\ x = j * l + e
  BY DivMod
<1> HIDE DEF e, j
<1>2. f \in Nat /\ i \in Nat /\ f < m /\ e = i * m + f
  BY <1>1, DivMod
<1> HIDE DEF f, i
<1>3. j * l = (j * k) * m /\ j * k \in Nat
  BY <1>1
<1> DEFINE h == j * k
<1>4. h \in Nat /\ x = h * m + (i * m + f)
  BY <1>1, <1>2, <1>3
<1> HIDE DEF h
<1>5. x = (h + i) * m + f
  BY <1>2, <1>4
<1>6. h + i \in Int
  BY <1>2, <1>4
<1>7. x % m = f
  BY <1>2, <1>5, <1>6, DivModUnique
<1> QED
  BY <1>7 DEF f, e

(* The same, of a modulus that the smaller one divides.                    *)
LEMMA ModDivides ==
    ASSUME NEW m \in Nat, 0 < m, NEW l \in Nat, 0 < l, l % m = 0, NEW x \in Nat
    PROVE  (x % l) % m = x % m
<1>1. PICK k \in Nat : k = l \div m
  BY DivMod
<1>2. l = k * m + (l % m)
  BY <1>1, DivMod
<1>3. k * m \in Nat
  OBVIOUS
<1>4. l = k * m
  BY <1>2, <1>3
<1> QED
  BY <1>4, ModMod

(* One reduction within two laps.                                          *)
LEMMA ModSmall ==
    ASSUME NEW m \in Nat, 0 < m, NEW x \in Nat
    PROVE  /\ x < m => x % m = x
           /\ m <= x /\ x < 2 * m => x % m = x - m
<1>1. ASSUME x < m PROVE x % m = x
  <2>1. x = 0 * m + x /\ 0 \in Int
    OBVIOUS
  <2> QED
    BY <1>1, <2>1, DivModUnique
<1>2. ASSUME m <= x, x < 2 * m PROVE x % m = x - m
  <2>1. x = 1 * m + (x - m) /\ 1 \in Int /\ x - m \in Nat /\ x - m < m
    BY <1>2
  <2> QED
    BY <2>1, DivModUnique
<1> QED
  BY <1>1, <1>2

(* The number after x.                                                     *)
LEMMA ModSucc ==
    ASSUME NEW m \in Nat, 0 < m, NEW x \in Nat
    PROVE  (x + 1) % m = IF (x % m) + 1 = m THEN 0 ELSE (x % m) + 1
<1> DEFINE e == x % m
<1>1. e \in Nat /\ e < m
  BY DivMod
<1>2. (x + 1) % m = (e + 1) % m
  BY ModAdd
<1> HIDE DEF e
<1>3. CASE e + 1 < m
  <2>1. e + 1 \in Nat
    BY <1>1
  <2>2. (e + 1) % m = e + 1
    BY <1>3, <2>1, ModSmall
  <2> QED
    BY <1>1, <1>2, <1>3, <2>2 DEF e
<1>4. CASE e + 1 = m
  <2>1. m % m = m - m
    BY ModSmall
  <2> QED
    BY <1>2, <1>4, <2>1 DEF e
<1> QED
  BY <1>1, <1>3, <1>4

(* How far y is from x, from their remainders.                             *)
LEMMA ModDistance ==
    ASSUME NEW m \in Nat, 0 < m, NEW x \in Nat, NEW y \in Nat, x <= y, y < x + m
    PROVE  ((y % m) + m - (x % m)) % m = y - x
<1> DEFINE e == x % m
           k == x \div m
<1>1. e \in Nat /\ e < m /\ k \in Nat /\ x = k * m + e /\ k * m \in Nat
  BY DivMod
<1>2. PICK d \in Nat : d < m /\ y = x + d
  <2>1. y - x \in Nat /\ y - x < m /\ y = x + (y - x)
    OBVIOUS
  <2> QED
    BY <2>1
<1>3. y % m = (e + d) % m
  BY <1>2, ModAdd
<1> HIDE DEF e, k
<1>4. e + d \in Nat
  BY <1>1, <1>2
<1>5. CASE e + d < m
  <2>1. (e + d) % m = e + d
    BY <1>4, <1>5, ModSmall
  <2>2. (y % m) + m - e = d + m
    BY <1>1, <1>2, <1>3, <2>1
  <2>3. (d + m) % m = d
    <3>1. (d + m) % m = d % m
      BY <1>2, ModShift
    <3> QED
      BY <1>2, <3>1, ModSmall
  <2>4. ((y % m) + m - e) % m = d
    BY <2>2, <2>3
  <2> QED
    BY <1>2, <2>4 DEF e
<1>6. CASE m <= e + d
  <2>1. (e + d) % m = e + d - m
    BY <1>1, <1>2, <1>4, <1>6, ModSmall
  <2>2. (y % m) + m - e = d
    BY <1>1, <1>2, <1>3, <2>1
  <2> QED
    BY <1>2, <2>2, ModSmall DEF e
<1> QED
  BY <1>1, <1>2, <1>5, <1>6

(* Among m numbers in a row there is one with each remainder.              *)
LEMMA ModCover ==
    ASSUME NEW m \in Nat, 0 < m, NEW x \in Nat, NEW n \in Nat, n < m
    PROVE  \E y \in Nat : x <= y /\ y < x + m /\ y % m = n
<1> DEFINE e == x % m
           k == x \div m
<1>1. e \in Nat /\ e < m /\ k \in Nat /\ x = k * m + e /\ k * m \in Nat
  BY DivMod
<1> HIDE DEF e, k
<1>2. CASE e <= n
  <2> DEFINE y == k * m + n
  <2>1. y \in Nat /\ x <= y /\ y < x + m
    BY <1>1, <1>2
  <2>2. y % m = n
    BY <1>1, <2>1, DivModUnique
  <2> QED
    BY <2>1, <2>2
<1>3. CASE n < e
  <2> DEFINE y == (k + 1) * m + n
  <2>1. (k + 1) * m = k * m + m
    BY <1>1
  <2>2. y \in Nat /\ x <= y /\ y < x + m
    BY <1>1, <1>3, <2>1
  <2>3. y % m = n
    BY <1>1, <2>2, DivModUnique
  <2> QED
    BY <2>2, <2>3
<1> QED
  BY <1>1, <1>2, <1>3
=============================================================================
