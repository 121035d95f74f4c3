----------------------------- MODULE Remainders -----------------------------
(***************************************************************************)
(* Rings with free-running counters: the pipe's nread and nwrite           *)
(* (kernel/pipe.c) and the indexes of the virtio rings                     *)
(* (kernel/virtio_disk.c) count modulo u and are used modulo m, the size   *)
(* of the ring.  These lemmas say why that works when m divides u.         *)
(***************************************************************************)
EXTENDS Integers, TLAPS

\* Seconds that a prover may take over one leaf.
USE SMTT(20), ZenonT(40)

\* What % means for a positive modulus: a remainder below m, a multiple of m
\* away.
LEMMA ModDef ==
  ASSUME NEW a \in Int, NEW m \in Nat, m > 0
  PROVE  (a % m \in 0 .. m - 1) /\ \E q \in Int : a = m * q + (a % m)
<1>1. a % m \in 0 .. m - 1
  OBVIOUS
<1>2. a = m * (a \div m) + (a % m)
  OBVIOUS
<1>3. QED BY <1>1, <1>2

\* The only multiple of m strictly between -m and m is 0.
LEMMA SmallMultiple ==
  ASSUME NEW m \in Nat, NEW q \in Int, -m < m * q, m * q < m
  PROVE  q = 0
<1>1. q >= 1 => m * q >= m
  OBVIOUS
<1>2. q <= -1 => m * q <= -m
  OBVIOUS
<1>3. QED BY <1>1, <1>2

\* The remainder is unique.
LEMMA ModIs ==
  ASSUME NEW a \in Int, NEW m \in Nat, m > 0, NEW r \in 0 .. m - 1, NEW q \in Int, a = m * q + r
  PROVE  a % m = r
<1>1. PICK k \in Int : a = m * k + (a % m)
  BY ModDef
<1>2. a % m \in 0 .. m - 1
  BY ModDef
<1>3. m * (k - q) = r - (a % m)
  BY <1>1, <1>2
<1>4. k - q = 0
  <2>1. k - q \in Int
    OBVIOUS
  <2>2. -m < m * (k - q) /\ m * (k - q) < m
    BY <1>2, <1>3
  <2>3. QED BY <2>1, <2>2, SmallMultiple
<1>5. QED BY <1>1, <1>2, <1>4

\* a and b differ by a multiple of m.
Apart(a, b, m) == \E q \in Int : a = b + m * q

\* Numbers that differ by a multiple of m have the same remainder.
LEMMA ModShift ==
  ASSUME NEW a \in Int, NEW b \in Int, NEW m \in Nat, m > 0, Apart(a, b, m)
  PROVE  a % m = b % m
<1>0. PICK q \in Int : a = b + m * q
  BY DEF Apart
<1>1. PICK k \in Int : b = m * k + (b % m)
  BY ModDef
<1>2. b % m \in 0 .. m - 1
  BY ModDef
<1>3. a = m * (k + q) + (b % m)
  BY <1>0, <1>1, <1>2
<1>4. k + q \in Int
  OBVIOUS
<1> DEFINE r == b % m
           j == k + q
<1>5. r \in 0 .. m - 1 /\ j \in Int /\ a = m * j + r
  BY <1>2, <1>3, <1>4
<1> HIDE DEF r, j
<1>6. a % m = r
  BY Zenon, <1>5, ModIs
<1>7. QED BY <1>6 DEF r

\* A remainder taken inside a sum makes no difference to the remainder of
\* the sum.
LEMMA ModInner ==
  ASSUME NEW a \in Int, NEW b \in Int, NEW m \in Nat, m > 0
  PROVE  ((a % m) + b) % m = (a + b) % m /\ (b - (a % m)) % m = (b - a) % m
<1>1. PICK q \in Int : a = m * q + (a % m)
  BY ModDef
<1> DEFINE r == a % m
<1>2. r \in Int /\ a = m * q + r
  BY <1>1, ModDef
<1> HIDE DEF r
<1>3. (a + b) % m = (r + b) % m
  <2> DEFINE x == a + b
             y == r + b
  <2>2. x \in Int /\ y \in Int /\ Apart(x, y, m)
    BY <1>2 DEF Apart
  <2> HIDE DEF x, y
  <2>3. x % m = y % m
    BY Zenon, <2>2, ModShift
  <2>4. QED BY <2>3 DEF x, y
<1>4. (b - r) % m = (b - a) % m
  <2> DEFINE x == b - r
             y == b - a
  <2>2. x \in Int /\ y \in Int /\ Apart(x, y, m)
    BY <1>2 DEF Apart
  <2> HIDE DEF x, y
  <2>3. x % m = y % m
    BY Zenon, <2>2, ModShift
  <2>4. QED BY <2>3 DEF x, y
<1>5. QED BY <1>3, <1>4 DEF r

\* When m divides u, reducing modulo u first makes no difference modulo m.
LEMMA ModDivides ==
  ASSUME NEW a \in Int, NEW b \in Int, NEW m \in Nat, m > 0, NEW u \in Nat, u > 0, u % m = 0
  PROVE  ((a % u) + b) % m = (a + b) % m
<1>1. PICK q \in Int : a = u * q + (a % u)
  BY ModDef
<1>2. PICK d \in Int : u = m * d
  BY ModDef
<1> DEFINE r == a % u
<1>3. r \in Int /\ a = u * q + r
  BY <1>1, ModDef
<1> HIDE DEF r
<1> DEFINE x == a + b
           y == r + b
<1>4. x \in Int /\ y \in Int /\ Apart(x, y, m)
  BY <1>2, <1>3 DEF Apart
<1> HIDE DEF x, y
<1>5. x % m = y % m
  BY Zenon, <1>4, ModShift
<1>6. QED BY <1>5 DEF r, x, y

\* Numbers less than m apart have different remainders.
LEMMA ModApart ==
  ASSUME NEW a \in Int, NEW b \in Int, NEW m \in Nat, m > 0, 0 < a - b, a - b < m
  PROVE  a % m # b % m
<1> SUFFICES ASSUME a % m = b % m PROVE FALSE
  OBVIOUS
<1>1. PICK q \in Int : a = m * q + (a % m)
  BY Zenon, ModDef
<1>2. PICK k \in Int : b = m * k + (b % m)
  BY Zenon, ModDef
<1>3. a % m \in Int
  BY ModDef
<1>4. a - b = m * (q - k)
  BY <1>1, <1>2, <1>3
<1>5. q - k = 0
  <2>1. q - k \in Int /\ -m < m * (q - k) /\ m * (q - k) < m
    BY <1>4
  <2>2. QED BY <2>1, SmallMultiple
<1>6. QED BY <1>4, <1>5

\* A number below m is its own remainder.
LEMMA ModSmall == ASSUME NEW m \in Nat, NEW r \in 0 .. m - 1 PROVE r % m = r
OBVIOUS

\* Adding one below the modulus.
LEMMA ModBump ==
  ASSUME NEW m \in Nat, m > 0, NEW a \in Int, (a % m) + 1 < m
  PROVE  (a + 1) % m = (a % m) + 1
<1>1. ((a % m) + 1) % m = (a + 1) % m
  BY ModInner
<1>2. a % m \in 0 .. m - 1
  BY ModDef
<1> DEFINE r == (a % m) + 1
<1>3. r \in 0 .. m - 1
  BY <1>2
<1> HIDE DEF r
<1>4. r % m = r
  BY <1>3, ModSmall
<1>5. QED BY <1>1, <1>4 DEF r

\* Taking one off above zero.
LEMMA ModDrop ==
  ASSUME NEW m \in Nat, m > 0, NEW a \in Int, a % m > 0
  PROVE  (a - 1) % m = (a % m) - 1
<1>1. ((a % m) + (-1)) % m = (a + (-1)) % m
  BY ModInner
<1>2. a % m \in 0 .. m - 1
  BY ModDef
<1> DEFINE r == (a % m) - 1
<1>3. r \in 0 .. m - 1 /\ r = (a % m) + (-1) /\ a + (-1) = a - 1
  BY <1>2
<1> HIDE DEF r
<1>4. r % m = r
  BY <1>3, ModSmall
<1>5. QED BY <1>1, <1>3, <1>4 DEF r

\* Bumping the writer's counter makes the distance one more, wherever the
\* counter wraps.
LEMMA DistanceUp ==
  ASSUME NEW m \in Nat, m > 0, NEW a \in Int, NEW b \in Int, ((a - b) % m) + 1 < m
  PROVE  (((a + 1) % m) - b) % m = ((a - b) % m) + 1
<1> DEFINE x == a + 1
           y == - b
<1>1. x \in Int /\ y \in Int /\ (x % m) + y = ((a + 1) % m) - b /\ x + y = (a - b) + 1
  BY ModDef
<1>2. ((x % m) + y) % m = (x + y) % m
  <2> HIDE DEF x, y
  <2>1. QED BY Zenon, <1>1, ModInner
<1>3. ((a - b) + 1) % m = ((a - b) % m) + 1
  <2>1. a - b \in Int
    OBVIOUS
  <2>2. QED BY Zenon, <2>1, ModBump
<1>4. QED BY <1>1, <1>2, <1>3

\* Bumping the reader's counter makes the distance one less.
LEMMA DistanceDown ==
  ASSUME NEW m \in Nat, m > 0, NEW a \in Int, NEW b \in Int, (a - b) % m > 0
  PROVE  (a - ((b + 1) % m)) % m = ((a - b) % m) - 1
<1> DEFINE x == b + 1
<1>1. x \in Int /\ a - x = (a - b) - 1
  OBVIOUS
<1>2. (a - (x % m)) % m = (a - x) % m
  <2> HIDE DEF x
  <2>1. QED BY Zenon, <1>1, ModInner
<1>3. ((a - b) - 1) % m = ((a - b) % m) - 1
  <2>1. a - b \in Int
    OBVIOUS
  <2>2. QED BY Zenon, <2>1, ModDrop
<1>4. QED BY <1>1, <1>2, <1>3

\* A counter is the other counter plus the distance.
LEMMA DistanceBack ==
  ASSUME NEW m \in Nat, m > 0, NEW a \in 0 .. m - 1, NEW b \in Int
  PROVE  a = (b + ((a - b) % m)) % m
<1> DEFINE x == a - b
<1>1. x \in Int /\ x + b = a /\ x % m \in Int
  BY ModDef
<1>2. ((x % m) + b) % m = (x + b) % m
  <2> HIDE DEF x
  <2>1. QED BY Zenon, <1>1, ModInner
<1>3. a % m = a
  BY ModSmall
<1>4. (x % m) + b = b + (x % m)
  BY <1>1
<1>5. QED BY <1>1, <1>2, <1>3, <1>4

\* The index of a slot does not depend on where the counter wrapped.
LEMMA WrapIndex ==
  ASSUME NEW m \in Nat, m > 0, NEW u \in Nat, u > 0, u % m = 0, NEW a \in Int
  PROVE  (a % u) % m = a % m
<1> DEFINE z == 0
<1>0. z \in Int
  OBVIOUS
<1>1. ((a % u) + z) % m = (a + z) % m
  <2> HIDE DEF z
  <2>1. QED BY Zenon, <1>0, ModDivides
<1>2. (a % u) + 0 = a % u /\ a + 0 = a
  BY ModDef
<1>3. QED BY <1>1, <1>2

\* Slot k after the bumped counter is slot k + 1 after the old one.
LEMMA WrapNext ==
  ASSUME NEW m \in Nat, m > 0, NEW u \in Nat, u > 0, u % m = 0, NEW a \in Int, NEW k \in Int
  PROVE  (((a + 1) % u) + k) % m = (a + (k + 1)) % m
<1> DEFINE x == a + 1
<1>1. x \in Int /\ x + k = a + (k + 1)
  OBVIOUS
<1>2. ((x % u) + k) % m = (x + k) % m
  <2> HIDE DEF x
  <2>1. QED BY Zenon, <1>1, ModDivides
<1>3. QED BY <1>1, <1>2

\* Adding the modulus changes no remainder.
LEMMA ModAround ==
  ASSUME NEW m \in Nat, m > 0, NEW a \in Int
  PROVE  (a + m) % m = a % m
<1> DEFINE b == a + m
<1>1. b \in Int /\ b = a + m * 1
  OBVIOUS
<1>2. Apart(b, a, m)
  BY <1>1 DEF Apart
<1> HIDE DEF b
<1>3. b % m = a % m
  BY Zenon, <1>1, <1>2, ModShift
<1>4. QED BY <1>3 DEF b
=============================================================================
