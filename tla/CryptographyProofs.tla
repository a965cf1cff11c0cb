--------------------------- MODULE CryptographyProofs ---------------------------
(* Proofs about the algebra of the confidential balances, for every prime order of the
   group, all keys, all randomness and all challenges: a true statement is accepted, a
   false one passes for no weight of the batch but zero, and the cached ciphertext of an
   account is always its balance. At the end, the words of a seed give the key back, for
   word lists of any length whose cube is not less than the number of values of 32 bits,
   for keys of any length and any languages.

   The algebra rests on two facts about arithmetic modulo Q: remainders may be taken
   before or after adding and multiplying, and every scalar but zero has an inverse.  *)
EXTENDS Cryptography, WellFoundedInduction, TLAPS

(* Remainders *)

LEMMA Remainder ==
    ASSUME NEW a \in Int
    PROVE  a % Q \in Scalars /\ \E k \in Int : a = (a % Q) + k * Q
<1>1. Q \in Nat /\ Q > 0 BY GroupAssumption
<1>2. a % Q \in 0..(Q - 1) /\ a \div Q \in Int /\ a = (a % Q) + (a \div Q) * Q BY <1>1, SMT
<1>3. QED BY <1>2 DEF Scalars

LEMMA Shift ==
    ASSUME NEW a \in Int, NEW k \in Int
    PROVE  (a + k * Q) % Q = a % Q
<1>1. Q \in Nat /\ Q > 0 BY GroupAssumption
<1>2. PICK r \in 0..(Q - 1), j \in Int : r = a % Q /\ a = r + j * Q BY Remainder DEF Scalars
<1>3. a + k * Q = (j + k) * Q + r BY <1>1, <1>2, SMT
<1>4. \A m \in Int : (m * Q + r) % Q = r BY <1>1, SMT
<1>5. j + k \in Int OBVIOUS
<1>6. QED BY <1>2, <1>3, <1>4, <1>5

LEMMA RemainderPlus ==
    ASSUME NEW a \in Int, NEW b \in Int
    PROVE  ((a % Q) + (b % Q)) % Q = (a + b) % Q
<1>1. Q \in Nat /\ Q > 0 BY GroupAssumption
<1>2. PICK r \in Scalars, j \in Int : r = a % Q /\ a = r + j * Q BY Remainder
<1>3. PICK t \in Scalars, k \in Int : t = b % Q /\ b = t + k * Q BY Remainder
<1>4. r + t \in Int /\ j + k \in Int /\ a + b = (r + t) + (j + k) * Q
  BY <1>1, <1>2, <1>3, SMT DEF Scalars
<1>5. (a + b) % Q = (r + t) % Q BY <1>4, Shift
<1>6. QED BY <1>2, <1>3, <1>5

LEMMA RemainderTimes ==
    ASSUME NEW a \in Int, NEW b \in Int
    PROVE  (a * (b % Q)) % Q = (a * b) % Q
<1>1. Q \in Nat /\ Q > 0 BY GroupAssumption
<1>2. PICK r \in Scalars, j \in Int : r = b % Q /\ b = r + j * Q BY Remainder
<1>3. a * r \in Int /\ a * j \in Int /\ a * b = (a * r) + (a * j) * Q
  BY <1>1, <1>2, SMT DEF Scalars
<1>4. (a * b) % Q = (a * r) % Q BY <1>3, Shift
<1>5. QED BY <1>2, <1>4

LEMMA Small ==
    ASSUME NEW a \in Scalars
    PROVE  a % Q = a /\ a \in Int
BY GroupAssumption, SMT DEF Scalars

LEMMA ZeroOne == /\ 0 % Q = 0 /\ 1 % Q = 1 /\ 0 \in Scalars /\ 1 \in Scalars
                 /\ Q - 1 \in Int /\ Q \in Int
<1>1. Q \in Nat /\ Q > 2 BY GroupAssumption
<1>2. 0 \in Scalars /\ 1 \in Scalars BY <1>1 DEF Scalars
<1>3. QED BY <1>1, <1>2, Small

(* The inverse of a scalar: the least remainder of its multiples is one, because the
   remainder of Q by a larger one would be a multiple that is smaller.                *)
LEMMA InverseExists ==
    ASSUME NEW s \in 1..(Q - 1)
    PROVE  \E b \in Scalars : (s * b) % Q = 1
<1> DEFINE Multiples == {m \in Nat : m # 0 /\ \E b \in Scalars : (s * b) % Q = m}
           R == OpToRel(<, Nat)
<1>1. Q \in Nat /\ Q > 2 /\ s \in Nat BY GroupAssumption
<1>2. Multiples # {}
  <2>1. s \in Scalars /\ s # 0 BY <1>1 DEF Scalars
  <2>2. (s * 1) % Q = s BY <1>1, <2>1, Small
  <2>3. QED BY <1>1, <2>1, <2>2, ZeroOne
<1>3. IsWellFoundedOn(R, Nat) BY NatLessThanWellFounded
<1>4. Multiples \subseteq Nat OBVIOUS
<1>5. PICK m \in Multiples : \A y \in Multiples : ~ (y < m)
  <2> HIDE DEF R, Multiples
  <2>1. PICK x \in Multiples : \A y \in Multiples : ~ (<<y, x>> \in R)
    BY <1>2, <1>3, <1>4, WFMin
  <2>2. QED BY <1>4, <2>1 DEF R, OpToRel
<1>6. PICK b \in Scalars : (s * b) % Q = m BY <1>5
<1>7. b \in Int /\ s * b \in Int /\ m \in Nat /\ m # 0 BY <1>1, <1>5, <1>6, SMT DEF Scalars
<1>8. m \in Scalars BY <1>6, <1>7, Remainder
<1>9. CASE m = 1 BY <1>6, <1>9
<1>10. CASE m # 1
  <2>1. m \in 2..(Q - 1) BY <1>1, <1>7, <1>8, <1>10 DEF Scalars
  <2>2. Q % m # 0 BY <2>1, GroupAssumption
  <2>3. PICK k \in Nat, r \in Nat : Q = m * k + r /\ r < m /\ r # 0
    <3>1. Q = m * (Q \div m) + (Q % m) /\ Q \div m \in Nat /\ Q % m \in 0..(m - 1) BY <1>1, <2>1, SMT
    <3>2. PICK k \in Nat : k = Q \div m BY <3>1
    <3>3. PICK r \in 0..(m - 1) : r = Q % m BY <3>1
    <3>4. Q = m * k + r /\ r < m /\ r # 0 /\ r \in Nat BY <1>7, <2>2, <3>1, <3>2, <3>3
    <3>5. QED BY <3>4
  <2>4. PICK j \in Int : s * b = m + j * Q BY <1>6, <1>7, Remainder
  <2>5. (-k) * b \in Int /\ -(1 + k * j) \in Int /\ 1 - k * j \in Int BY <1>7, SMT
  <2>6. s * ((-k) * b) = (-k) * (s * b) BY <1>1, <1>7, SMT
  <2>7. (-k) * (m + j * Q) = r + (-(1 + k * j)) * Q BY <1>1, <1>7, <2>3, SMT
  <2>8. (s * ((-k) * b)) % Q = r % Q BY <2>4, <2>5, <2>6, <2>7, Shift
  <2>9. r \in Scalars BY <2>3, <1>1, <2>1 DEF Scalars
  <2>10. PICK b2 \in Scalars : b2 = ((-k) * b) % Q BY <2>5, Remainder
  <2>11. (s * b2) % Q = r
    <3>1. (s * b2) % Q = (s * ((-k) * b)) % Q BY <1>1, <2>5, <2>10, RemainderTimes
    <3>2. QED BY <2>8, <2>9, <3>1, Small
  <2>12. r \in Multiples BY <2>3, <2>10, <2>11
  <2>13. QED BY <1>5, <2>3, <2>12
<1>11. QED BY <1>9, <1>10

LEMMA InverseIs ==
    ASSUME NEW s \in 1..(Q - 1)
    PROVE  Invert(s) \in Scalars /\ \E n \in Int : s * Invert(s) = 1 + n * Q
<1>1. Q \in Nat /\ s \in Int BY GroupAssumption
<1>2. Invert(s) \in Scalars /\ (s * Invert(s)) % Q = 1 BY InverseExists, Zenon DEF Invert
<1>3. PICK i \in Scalars : i = Invert(s) BY <1>2
<1>4. s * i \in Int BY <1>1, <1>3, SMT DEF Scalars
<1>5. PICK n \in Int : s * i = ((s * i) % Q) + n * Q BY <1>4, Remainder
<1>6. QED BY <1>2, <1>3, <1>5

(* Q is prime: a product is zero only if a factor is. *)
LEMMA NoZeroDivisor ==
    ASSUME NEW a \in Int, NEW b \in Int, a % Q # 0, (a * b) % Q = 0
    PROVE  b % Q = 0
<1>1. Q \in Nat /\ Q > 2 BY GroupAssumption
<1>2. PICK s \in Scalars, k \in Int : s = a % Q /\ a = s + k * Q BY Remainder
<1>3. s \in 1..(Q - 1) /\ s \in Int BY <1>1, <1>2 DEF Scalars
<1>4. PICK i \in Scalars, n \in Int : s * i = 1 + n * Q BY <1>3, InverseIs
<1>5. i \in Int /\ a * b \in Int BY <1>1, <1>4, SMT DEF Scalars
<1>6. PICK j \in Int : a * b = 0 + j * Q BY <1>5, Remainder
<1>7. b = 0 + (i * j - i * k * b - n * b) * Q
  <2>1. i * (s * b + k * Q * b) = i * (j * Q) BY <1>1, <1>2, <1>3, <1>5, <1>6, SMT
  <2>2. i * (s * b) = (1 + n * Q) * b BY <1>1, <1>3, <1>4, <1>5, SMT
  <2>3. i * (s * b + k * Q * b) = (1 + n * Q) * b + i * (k * Q * b) BY <1>1, <1>3, <1>5, <2>2, SMT
  <2>4. QED BY <1>1, <1>3, <1>4, <1>5, <2>1, <2>3, SMT
<1>8. i * j - i * k * b - n * b \in Int BY <1>3, <1>4, <1>5, SMT
<1>9. (0 + (i * j - i * k * b - n * b) * Q) % Q = 0 % Q BY <1>8, Shift
<1>10. QED BY <1>7, <1>9, ZeroOne
--------------------------------------------------------------------------------
(* Points: coordinates may be calculated with integers and reduced at the end. *)

LEMMA Same ==
    ASSUME NEW a \in Int, NEW b \in Int, NEW k \in Int, NEW l \in Int
    PROVE  At(a + k * Q, b + l * Q) = At(a, b)
BY Shift DEF At

LEMMA PlusAt ==
    ASSUME NEW a \in Int, NEW b \in Int, NEW c \in Int, NEW d \in Int
    PROVE  Plus(At(a, b), At(c, d)) = At(a + c, b + d)
BY RemainderPlus DEF Plus, At

(* Scalars that are the same modulo Q, and products of integers: names that the provers
   do not look behind.                                                                *)
Congruent(k, j) == k % Q = j % Q
Mul(a, b) == a * b

LEMMA MulInt == \A a, b \in Int : Mul(a, b) \in Int
BY SMT DEF Mul

LEMMA CongruentSelf == \A k : Congruent(k, k)
BY DEF Congruent

LEMMA Products ==
    ASSUME NEW k \in Int, NEW j \in Int, Congruent(k, j), NEW c \in Int
    PROVE  Congruent(Mul(k, c), Mul(j, c))
<1>1. (c * (k % Q)) % Q = (c * k) % Q /\ (c * (j % Q)) % Q = (c * j) % Q BY RemainderTimes
<1>2. c * k = k * c /\ c * j = j * c BY SMT
<1>3. QED BY <1>1, <1>2 DEF Congruent, Mul

LEMMA Sums ==
    ASSUME NEW k \in Int, NEW j \in Int, Congruent(k, j),
           NEW c \in Int, NEW d \in Int, Congruent(c, d)
    PROVE  Congruent(k + c, j + d)
<1>1. ((k % Q) + (c % Q)) % Q = (k + c) % Q /\ ((j % Q) + (d % Q)) % Q = (j + d) % Q BY RemainderPlus
<1>2. QED BY <1>1 DEF Congruent

LEMMA TimesAt ==
    ASSUME NEW k \in Int, NEW j \in Int, Congruent(k, j), NEW a \in Int, NEW b \in Int
    PROVE  Times(k, At(a, b)) = At(Mul(j, a), Mul(j, b))
<1>1. (k * (a % Q)) % Q = (k * a) % Q /\ (k * (b % Q)) % Q = (k * b) % Q BY RemainderTimes
<1>2. Congruent(Mul(k, a), Mul(j, a)) /\ Congruent(Mul(k, b), Mul(j, b)) BY Products
<1>3. (k * a) % Q = (j * a) % Q /\ (k * b) % Q = (j * b) % Q BY <1>2 DEF Congruent, Mul
<1>4. QED BY <1>1, <1>3 DEF Times, At, Mul

(* The last scalar is minus one. *)
LEMMA MinusOne == \E e \in Int, q \in Int : e = -1 /\ q = Q - 1 /\ Congruent(q, e)
<1>1. PICK e \in Int, q \in Int : e = -1 /\ q = Q - 1 /\ q = e + 1 * Q BY ZeroOne
<1>2. q % Q = e % Q BY <1>1, Shift
<1>3. QED BY <1>1, <1>2 DEF Congruent

LEMMA LessAt ==
    ASSUME NEW a \in Int, NEW b \in Int, NEW c \in Int, NEW d \in Int
    PROVE  Less(At(a, b), At(c, d)) = At(a - c, b - d)
<1>1. PICK e \in Int, q \in Int : e = -1 /\ q = Q - 1 /\ Congruent(q, e) BY MinusOne
<1>2. Times(q, At(c, d)) = At(Mul(e, c), Mul(e, d)) BY <1>1, TimesAt
<1>3. Mul(e, c) \in Int /\ Mul(e, d) \in Int BY MulInt
<1>4. a + Mul(e, c) = a - c /\ b + Mul(e, d) = b - d BY <1>1, SMT DEF Mul
<1>5. Plus(At(a, b), At(Mul(e, c), Mul(e, d))) = At(a + Mul(e, c), b + Mul(e, d)) BY <1>3, PlusAt, SMTT(30)
<1>6. QED BY <1>1, <1>2, <1>4, <1>5 DEF Less

LEMMA MulZero == \A j \in Int : Mul(j, 0) = 0 /\ Mul(j, 1) = j
BY SMT DEF Mul

LEMMA Generators ==
    ASSUME NEW k \in Int, NEW j \in Int, Congruent(k, j)
    PROVE  Times(k, G) = At(j, 0) /\ Times(k, H) = At(0, j)
<1>1. /\ Times(k, At(1, 0)) = At(Mul(j, 1), Mul(j, 0))
      /\ Times(k, At(0, 1)) = At(Mul(j, 0), Mul(j, 1))
  BY TimesAt
<1>2. QED BY <1>1, MulZero DEF G, H

(* A response of a proof stands for the sum it is the remainder of. *)
LEMMA Response ==
    ASSUME NEW a \in Int
    PROVE  \E z \in Int : z = a % Q /\ Congruent(z, a)
<1>1. PICK z \in Scalars : z = a % Q BY Remainder
<1>2. z \in Int /\ z % Q = z BY Small
<1>3. QED BY <1>1, <1>2 DEF Congruent

(* Likewise for what Neg returns. *)
LEMMA Negative ==
    ASSUME NEW a \in Int
    PROVE  \E z \in Int, v \in Int : z = Neg(a) /\ v = -a /\ Congruent(z, v)
<1>1. PICK v \in Int, u \in Int : v = -a /\ u = Q - a /\ u = v + 1 * Q BY GroupAssumption
<1>2. u % Q = v % Q BY <1>1, Shift
<1>3. PICK z \in Int : z = u % Q /\ Congruent(z, u) BY Response
<1>4. QED BY <1>1, <1>2, <1>3 DEF Neg, Congruent

LEMMA CommitmentAt ==
    ASSUME NEW x \in Int, NEW r \in Int
    PROVE  Commitment(x, r) = At(x, r)
<1>1. Times(x, G) = At(x, 0) /\ Times(r, H) = At(0, r) BY CongruentSelf, Generators
<1>2. Plus(At(x, 0), At(0, r)) = At(x + 0, 0 + r) BY PlusAt
<1>3. QED BY <1>1, <1>2 DEF Commitment

LEMMA KeyAt ==
    ASSUME NEW s \in 1..(Q - 1)
    PROVE  \E i \in Int, n \in Int : s * i = 1 + n * Q /\ PublicKey(s) = At(0, i)
<1>1. PICK i \in Scalars, n \in Int : i = Invert(s) /\ s * i = 1 + n * Q BY InverseIs
<1>2. i \in Int BY GroupAssumption DEF Scalars
<1>3. PublicKey(s) = At(0, i) BY <1>1, <1>2, CongruentSelf, Generators DEF PublicKey
<1>4. QED BY <1>1, <1>2, <1>3

(* The ciphertext of x, in coordinates: i is the inverse of the secret. *)
LEMMA EncryptAt ==
    ASSUME NEW i \in Int, NEW key, key = At(0, i), NEW x \in Int, NEW o \in Int
    PROVE  EncryptWithOpening(key, x, o) = Ciphertext(At(x, o), At(0, Mul(o, i)))
<1>1. Times(o, At(0, i)) = At(0, Mul(o, i)) BY CongruentSelf, TimesAt, MulZero
<1>2. QED BY <1>1, CommitmentAt DEF EncryptWithOpening, DecryptHandle
--------------------------------------------------------------------------------
(* The proofs *)

(* What a CommitmentEqProof adds to the batch: the difference of the amounts, weighed
   by the challenge and the weight. The other two equations hold, whatever ww is.     *)
LEMMA EqSum ==
    ASSUME NEW s \in 1..(Q - 1), NEW x \in Int, NEW said \in Int, NEW o \in Int, NEW r \in Int,
           NEW y \in [s : Int, x : Int, r : Int], NEW c \in Int, NEW w \in Int,
           NEW key, key = PublicKey(s), NEW ct, ct = EncryptWithOpening(key, x, o),
           NEW p, p = EqProof(s, ct, r, said, y, c), NEW commitment, commitment = Commitment(said, r),
           NEW t, t = w * c * (said - x)
    PROVE  EqProofSum(p, key, ct, commitment, c, w) = At(t, 0)
<1>1. Q \in Nat /\ Q > 2 /\ s \in Int BY GroupAssumption
<1>2. PICK ys \in Int, yx \in Int, yr \in Int : ys = y.s /\ yx = y.x /\ yr = y.r OBVIOUS
<1>3. PICK i \in Int, n \in Int : s * i = 1 + n * Q /\ key = At(0, i) BY KeyAt
<1>4. PICK ww \in Int : ww = (w * w) % Q
  <2>1. w * w \in Int BY SMT
  <2>2. QED BY <2>1, Response
<1>5. PICK d \in Int : d = Mul(o, i) BY MulInt
<1>6. ct = Ciphertext(At(x, o), At(0, d)) BY <1>3, <1>5, EncryptAt
<1>7. /\ p.z_s = (c * s + ys) % Q /\ p.z_x = (c * said + yx) % Q /\ p.z_r = (c * r + yr) % Q
      /\ p.Y_0 = Times(ys, key) /\ p.Y_1 = Plus(Times(yx, G), Times(ys, ct.handle)) /\ p.Y_2 = Commitment(yx, yr)
  BY <1>2 DEF EqProof
<1>8. ct.commitment = At(x, o) /\ ct.handle = At(0, d) /\ Commitment(said, r) = At(said, r)
  BY <1>6, CommitmentAt DEF Ciphertext
<1>9. PICK e \in Int, f \in Int :
         /\ e = Mul(ys, d) /\ f = Mul(ys, i)
         /\ p.Y_0 = At(0, f) /\ p.Y_1 = At(yx, e) /\ p.Y_2 = At(yx, yr)
  <2>1. PICK e \in Int, f \in Int : e = Mul(ys, d) /\ f = Mul(ys, i) BY MulInt
  <2>2. Times(ys, At(0, i)) = At(0, f) BY <2>1, CongruentSelf, TimesAt, MulZero
  <2>3. Times(ys, At(0, d)) = At(0, e) BY <2>1, CongruentSelf, TimesAt, MulZero
  <2>4. Plus(At(yx, 0), At(0, e)) = At(yx + 0, 0 + e) BY PlusAt
  <2>5. Times(yx, G) = At(yx, 0) /\ Commitment(yx, yr) = At(yx, yr) BY CongruentSelf, Generators, CommitmentAt
  <2>6. QED BY <1>3, <1>7, <1>8, <2>1, <2>2, <2>3, <2>4, <2>5
<1>10. PICK us \in Int, ux \in Int, ur \in Int : us = c * s + ys /\ ux = c * said + yx /\ ur = c * r + yr
  BY <1>1, SMT
<1>11. PICK zs \in Int : zs = p.z_s /\ Congruent(zs, us) BY <1>7, <1>10, Response
<1>12. PICK zx \in Int : zx = p.z_x /\ Congruent(zx, ux) BY <1>7, <1>10, Response
<1>13. PICK zr \in Int : zr = p.z_r /\ Congruent(zr, ur) BY <1>7, <1>10, Response
<1>14. PICK nc \in Int, vc \in Int : nc = Neg(c) /\ vc = -c /\ Congruent(nc, vc) BY Negative
<1>15. PICK nw \in Int, vw \in Int : nw = Neg(w) /\ vw = -w /\ Congruent(nw, vw) BY Negative
<1>16. PICK nww \in Int, vww \in Int : nww = Neg(ww) /\ vww = -ww /\ Congruent(nww, vww) BY Negative
\* The nine terms of the sum
<1>17. PICK a1 \in Int : a1 = Mul(ux, w + ww) /\ Times((w + ww) * p.z_x, G) = At(a1, 0)
  <2>1. PICK v \in Int : v = w + ww OBVIOUS
  <2>2. Congruent(Mul(zx, v), Mul(ux, v)) /\ Mul(zx, v) \in Int /\ Mul(ux, v) \in Int
    BY <1>12, Products, MulInt
  <2>3. Mul(zx, v) = (w + ww) * p.z_x BY <1>12, <2>1, SMT DEF Mul
  <2>4. QED BY <2>1, <2>2, <2>3, Generators
<1>18. PICK b2 \in Int : b2 = vc + Mul(ur, ww) /\ Times(Neg(c) + ww * p.z_r, H) = At(0, b2)
  <2>1. Congruent(Mul(zr, ww), Mul(ur, ww)) /\ Mul(zr, ww) \in Int /\ Mul(ur, ww) \in Int
    BY <1>13, Products, MulInt
  <2>2. PICK k \in Int, j \in Int : k = nc + Mul(zr, ww) /\ j = vc + Mul(ur, ww) BY <2>1
  <2>3. Congruent(k, j) BY <1>14, <2>1, <2>2, Sums
  <2>4. Mul(zr, ww) = ww * p.z_r BY <1>13, SMT DEF Mul
  <2>5. QED BY <1>14, <2>2, <2>3, <2>4, Generators
<1>19. PICK b3 \in Int : b3 = Mul(us, i) /\ Times(p.z_s, key) = At(0, b3)
  <2>1. Times(zs, At(0, i)) = At(0, Mul(us, i)) BY <1>11, TimesAt, MulZero
  <2>2. QED BY <1>3, <1>11, <2>1, MulInt
<1>20. PICK b4 \in Int : b4 = -f /\ Times(Q - 1, p.Y_0) = At(0, b4)
  <2>1. PICK m \in Int, q \in Int : m = -1 /\ q = Q - 1 /\ Congruent(q, m) BY MinusOne
  <2>2. Times(q, At(0, f)) = At(0, Mul(m, f)) BY <2>1, TimesAt, MulZero
  <2>3. Mul(m, f) = -f BY <2>1, SMT DEF Mul
  <2>4. QED BY <1>9, <2>1, <2>2, <2>3
<1>21. PICK b5 \in Int : b5 = Mul(Mul(us, w), d) /\ Times(w * p.z_s, ct.handle) = At(0, b5)
  <2>1. Congruent(Mul(zs, w), Mul(us, w)) /\ Mul(zs, w) \in Int /\ Mul(us, w) \in Int
    BY <1>11, Products, MulInt
  <2>2. Times(Mul(zs, w), At(0, d)) = At(0, Mul(Mul(us, w), d)) BY <2>1, TimesAt, MulZero
  <2>3. Mul(zs, w) = w * p.z_s BY <1>11, SMT DEF Mul
  <2>4. QED BY <1>8, <2>1, <2>2, <2>3, MulInt
<1>22. PICK a6 \in Int, b6 \in Int :
          /\ a6 = Mul(Mul(vw, c), x) /\ b6 = Mul(Mul(vw, c), o)
          /\ Times(Neg(w) * c, ct.commitment) = At(a6, b6)
  <2>1. Congruent(Mul(nw, c), Mul(vw, c)) /\ Mul(nw, c) \in Int /\ Mul(vw, c) \in Int
    BY <1>15, Products, MulInt
  <2>2. Times(Mul(nw, c), At(x, o)) = At(Mul(Mul(vw, c), x), Mul(Mul(vw, c), o)) BY <2>1, TimesAt
  <2>3. Mul(nw, c) = Neg(w) * c BY <1>15 DEF Mul
  <2>4. QED BY <1>8, <2>1, <2>2, <2>3, MulInt
<1>23. PICK a7 \in Int, b7 \in Int : /\ a7 = Mul(vw, yx) /\ b7 = Mul(vw, e)
                                   /\ Times(Neg(w), p.Y_1) = At(a7, b7)
  <2>1. Times(nw, At(yx, e)) = At(Mul(vw, yx), Mul(vw, e)) BY <1>15, TimesAt
  <2>2. Mul(vw, yx) \in Int /\ Mul(vw, e) \in Int BY MulInt
  <2>3. Times(Neg(w), p.Y_1) = At(Mul(vw, yx), Mul(vw, e)) BY <1>9, <1>15, <2>1
  <2>4. QED BY <2>2, <2>3
<1>24. PICK a8 \in Int, b8 \in Int :
          /\ a8 = Mul(Mul(vww, c), said) /\ b8 = Mul(Mul(vww, c), r)
          /\ Times(Neg(ww) * c, Commitment(said, r)) = At(a8, b8)
  <2>1. Congruent(Mul(nww, c), Mul(vww, c)) /\ Mul(nww, c) \in Int /\ Mul(vww, c) \in Int
    BY <1>16, Products, MulInt
  <2>2. Times(Mul(nww, c), At(said, r)) = At(Mul(Mul(vww, c), said), Mul(Mul(vww, c), r)) BY <2>1, TimesAt
  <2>3. Mul(nww, c) = Neg(ww) * c BY <1>16 DEF Mul
  <2>4. QED BY <1>8, <2>1, <2>2, <2>3, MulInt
<1>25. PICK a9 \in Int, b9 \in Int : /\ a9 = Mul(vww, yx) /\ b9 = Mul(vww, yr)
                                   /\ Times(Neg(ww), p.Y_2) = At(a9, b9)
  <2>1. Times(nww, At(yx, yr)) = At(Mul(vww, yx), Mul(vww, yr)) BY <1>16, TimesAt
  <2>2. QED BY <1>9, <1>16, <2>1, MulInt
<1>26. EqProofSum(p, key, ct, Commitment(said, r), c, w)
         = Plus(Plus(Plus(At(a1, 0), At(0, b2)), Plus(At(0, b3), At(0, b4))),
                Plus(Plus(At(0, b5), At(a6, b6)), Plus(At(a7, b7), Plus(At(a8, b8), At(a9, b9)))))
  BY <1>4, <1>17, <1>18, <1>19, <1>20, <1>21, <1>22, <1>23, <1>24, <1>25 DEF EqProofSum
<1>27. PICK a \in Int, b \in Int :
          /\ a = a1 + a6 + a7 + a8 + a9 /\ b = b2 + b3 + b4 + b5 + b6 + b7 + b8 + b9
          /\ EqProofSum(p, key, ct, Commitment(said, r), c, w) = At(a, b)
  <2>1. Plus(At(a1, 0), At(0, b2)) = At(a1, b2) BY PlusAt
  <2>2. Plus(At(0, b3), At(0, b4)) = At(0, b3 + b4) BY PlusAt
  <2>3. Plus(At(0, b5), At(a6, b6)) = At(a6, b5 + b6) BY PlusAt
  <2>4. Plus(At(a8, b8), At(a9, b9)) = At(a8 + a9, b8 + b9) BY PlusAt
  <2>5. PICK b34 \in Int, b56 \in Int, a89 \in Int, b89 \in Int :
           b34 = b3 + b4 /\ b56 = b5 + b6 /\ a89 = a8 + a9 /\ b89 = b8 + b9 OBVIOUS
  <2>6. Plus(At(a1, b2), At(0, b34)) = At(a1, b2 + b34) BY PlusAt
  <2>7. Plus(At(a7, b7), At(a89, b89)) = At(a7 + a89, b7 + b89) BY PlusAt
  <2>8. PICK b14 \in Int, a79 \in Int, b79 \in Int : b14 = b2 + b34 /\ a79 = a7 + a89 /\ b79 = b7 + b89 OBVIOUS
  <2>9. Plus(At(a6, b56), At(a79, b79)) = At(a6 + a79, b56 + b79) BY PlusAt
  <2>10. PICK a59 \in Int, b59 \in Int : a59 = a6 + a79 /\ b59 = b56 + b79 OBVIOUS
  <2>11. Plus(At(a1, b14), At(a59, b59)) = At(a1 + a59, b14 + b59) BY PlusAt
  <2>12. PICK a \in Int, b \in Int : a = a1 + a59 /\ b = b14 + b59 OBVIOUS
  <2>13. a = a1 + a6 + a7 + a8 + a9 /\ b = b2 + b3 + b4 + b5 + b6 + b7 + b8 + b9
    BY <2>5, <2>8, <2>10, <2>12
  <2>14. EqProofSum(p, key, ct, Commitment(said, r), c, w) = At(a, b)
    BY <1>26, <2>1, <2>2, <2>3, <2>4, <2>5, <2>6, <2>7, <2>8, <2>9, <2>10, <2>11, <2>12, ZenonT(60)
  <2>15. QED BY <2>13, <2>14
<1>28. PICK m \in Int : t \in Int /\ m = (c + w * c * o) * n BY <1>1, SMT
<1>29. a = t + 0 * Q
  <2>1. /\ a1 = (c * said + yx) * (w + ww) /\ a6 = ((-w) * c) * x /\ a7 = (-w) * yx
        /\ a8 = ((-ww) * c) * said /\ a9 = (-ww) * yx
    BY <1>10, <1>15, <1>16, <1>17, <1>22, <1>23, <1>24, <1>25 DEF Mul
  <2>2. QED BY <1>1, <1>27, <1>28, <2>1, SMT
<1>30. b = 0 + m * Q
  <2>1. /\ b2 = (-c) + (c * r + yr) * ww /\ b3 = (c * s + ys) * i /\ b4 = -(ys * i)
        /\ b5 = ((c * s + ys) * w) * (o * i) /\ b6 = ((-w) * c) * o /\ b7 = (-w) * (ys * (o * i))
        /\ b8 = ((-ww) * c) * r /\ b9 = (-ww) * yr
    BY <1>5, <1>9, <1>10, <1>14, <1>15, <1>16, <1>18, <1>19, <1>20, <1>21, <1>22, <1>23, <1>24, <1>25 DEF Mul
  <2>2. b = (c + w * c * o) * (s * i - 1) BY <1>1, <1>27, <2>1, SMT
  <2>3. s * i - 1 = n * Q BY <1>1, <1>3, SMT
  <2>4. b = (c + w * c * o) * (n * Q) BY <2>2, <2>3
  <2>5. (c + w * c * o) * (n * Q) = ((c + w * c * o) * n) * Q BY <1>1, SMT
  <2>6. QED BY <1>1, <1>28, <2>4, <2>5
<1>31. At(a, b) = At(t, 0) BY <1>29, <1>30, Same
<1>32. QED BY <1>27, <1>28, <1>31

(* What a CiphertextValidityProof adds to the batch: the difference of the openings, at
   the key of the receiver.                                                           *)
LEMMA ValiditySum ==
    ASSUME NEW s \in 1..(Q - 1), NEW x \in Int, NEW o \in Int, NEW r \in Int,
           NEW y \in [x : Int, r : Int], NEW c \in Int, NEW i \in Int,
           PublicKey(s) = At(0, i), NEW w \in Int
    PROVE  LET key == PublicKey(s)
           IN  ValidityProofSum(ValidityProof(key, x, r, y, c), Commitment(x, r), key,
                                DecryptHandle(key, o), c, w)
               = At(0, i * (w * c * (r - o)))
<1> DEFINE key == PublicKey(s)
           p == ValidityProof(key, x, r, y, c)
           handle == DecryptHandle(key, o)
<1>1. PICK yx \in Int, yr \in Int : yx = y.x /\ yr = y.r OBVIOUS
<1>2. key = At(0, i) OBVIOUS
<1>3. /\ p.z_x = (c * x + yx) % Q /\ p.z_r = (c * r + yr) % Q
      /\ p.Y_0 = Commitment(yx, yr) /\ p.Y_1 = Times(yr, key)
  BY <1>1 DEF ValidityProof
<1>4. handle = Times(o, key) BY DEF DecryptHandle
<1> HIDE DEF p, handle, key
<1>5. PICK d \in Int, f \in Int : d = Mul(o, i) /\ f = Mul(yr, i) BY MulInt
<1>6. Times(yr, At(0, i)) = At(0, f) /\ Times(o, At(0, i)) = At(0, d)
  BY <1>5, CongruentSelf, TimesAt, MulZero
<1>7. p.Y_0 = At(yx, yr) /\ p.Y_1 = At(0, f) /\ handle = At(0, d) /\ Commitment(x, r) = At(x, r)
  BY <1>2, <1>3, <1>4, <1>6, CommitmentAt
<1>8. PICK ux \in Int, ur \in Int : ux = c * x + yx /\ ur = c * r + yr BY SMT
<1>9. PICK zx \in Int : zx = p.z_x /\ Congruent(zx, ux) BY <1>3, <1>8, Response
<1>10. PICK zr \in Int : zr = p.z_r /\ Congruent(zr, ur) BY <1>3, <1>8, Response
<1>11. PICK nc \in Int, vc \in Int : nc = Neg(c) /\ vc = -c /\ Congruent(nc, vc) BY Negative
<1>12. PICK nw \in Int, vw \in Int : nw = Neg(w) /\ vw = -w /\ Congruent(nw, vw) BY Negative
\* The seven terms of the sum
<1>13. Times(p.z_x, G) = At(ux, 0) /\ Times(p.z_r, H) = At(0, ur) BY <1>9, <1>10, Generators
<1>14. PICK a3 \in Int, b3 \in Int : /\ a3 = Mul(vc, x) /\ b3 = Mul(vc, r)
                                   /\ Times(Neg(c), Commitment(x, r)) = At(a3, b3)
  <2>1. Times(nc, At(x, r)) = At(Mul(vc, x), Mul(vc, r)) BY <1>11, TimesAt
  <2>2. QED BY <1>7, <1>11, <2>1, MulInt
<1>15. PICK a4 \in Int, b4 \in Int : a4 = -yx /\ b4 = -yr /\ Times(Q - 1, p.Y_0) = At(a4, b4)
  <2>1. PICK m \in Int, q \in Int : m = -1 /\ q = Q - 1 /\ Congruent(q, m) BY MinusOne
  <2>2. Times(q, At(yx, yr)) = At(Mul(m, yx), Mul(m, yr)) BY <2>1, TimesAt
  <2>3. Mul(m, yx) = -yx /\ Mul(m, yr) = -yr BY <2>1, SMT DEF Mul
  <2>4. QED BY <1>7, <2>1, <2>2, <2>3
<1>16. PICK b5 \in Int : b5 = Mul(Mul(ur, w), i) /\ Times(w * p.z_r, key) = At(0, b5)
  <2>1. Congruent(Mul(zr, w), Mul(ur, w)) /\ Mul(zr, w) \in Int /\ Mul(ur, w) \in Int
    BY <1>10, Products, MulInt
  <2>2. Times(Mul(zr, w), At(0, i)) = At(0, Mul(Mul(ur, w), i)) BY <2>1, TimesAt, MulZero
  <2>3. Mul(zr, w) = w * p.z_r BY <1>10, SMT DEF Mul
  <2>4. QED BY <1>2, <2>1, <2>2, <2>3, MulInt
<1>17. PICK b6 \in Int : b6 = Mul(Mul(vw, c), d) /\ Times(Neg(w) * c, handle) = At(0, b6)
  <2>1. Congruent(Mul(nw, c), Mul(vw, c)) /\ Mul(nw, c) \in Int /\ Mul(vw, c) \in Int
    BY <1>12, Products, MulInt
  <2>2. Times(Mul(nw, c), At(0, d)) = At(0, Mul(Mul(vw, c), d)) BY <2>1, TimesAt, MulZero
  <2>3. Mul(nw, c) = Neg(w) * c BY <1>12 DEF Mul
  <2>4. QED BY <1>7, <2>1, <2>2, <2>3, MulInt
<1>18. PICK b7 \in Int : b7 = Mul(vw, f) /\ Times(Neg(w), p.Y_1) = At(0, b7)
  <2>1. Times(nw, At(0, f)) = At(0, Mul(vw, f)) BY <1>12, TimesAt, MulZero
  <2>2. QED BY <1>7, <1>12, <2>1, MulInt
<1>19. ValidityProofSum(p, Commitment(x, r), key, handle, c, w)
         = Plus(Plus(Plus(At(ux, 0), At(0, ur)), Plus(At(a3, b3), At(a4, b4))),
                Plus(At(0, b5), Plus(At(0, b6), At(0, b7))))
  BY <1>13, <1>14, <1>15, <1>16, <1>17, <1>18 DEF ValidityProofSum
<1>20. PICK a \in Int, b \in Int :
          /\ a = ux + a3 + a4 /\ b = ur + b3 + b4 + b5 + b6 + b7
          /\ ValidityProofSum(p, Commitment(x, r), key, handle, c, w) = At(a, b)
  <2>1. Plus(At(ux, 0), At(0, ur)) = At(ux, ur) BY PlusAt
  <2>2. Plus(At(a3, b3), At(a4, b4)) = At(a3 + a4, b3 + b4) BY PlusAt
  <2>3. Plus(At(0, b6), At(0, b7)) = At(0, b6 + b7) BY PlusAt
  <2>4. PICK a34 \in Int, b34 \in Int, b67 \in Int : a34 = a3 + a4 /\ b34 = b3 + b4 /\ b67 = b6 + b7 OBVIOUS
  <2>5. Plus(At(ux, ur), At(a34, b34)) = At(ux + a34, ur + b34) BY PlusAt
  <2>6. Plus(At(0, b5), At(0, b67)) = At(0, b5 + b67) BY PlusAt
  <2>7. PICK a14 \in Int, b14 \in Int, b57 \in Int : a14 = ux + a34 /\ b14 = ur + b34 /\ b57 = b5 + b67 OBVIOUS
  <2>8. Plus(At(a14, b14), At(0, b57)) = At(a14, b14 + b57) BY PlusAt
  <2>9. PICK b \in Int : b = b14 + b57 OBVIOUS
  <2>10. a14 = ux + a3 + a4 /\ b = ur + b3 + b4 + b5 + b6 + b7 BY <2>4, <2>7, <2>9
  <2>11. ValidityProofSum(p, Commitment(x, r), key, handle, c, w) = At(a14, b)
    BY <1>19, <2>1, <2>2, <2>3, <2>4, <2>5, <2>6, <2>7, <2>8, <2>9, Zenon
  <2>12. QED BY <2>10, <2>11
<1>21. a = 0
  <2>1. a3 = (-c) * x /\ a4 = -yx BY <1>11, <1>14, <1>15 DEF Mul
  <2>2. QED BY <1>8, <1>20, <2>1, SMT
<1>22. b = i * (w * c * (r - o))
  <2>1. /\ b3 = (-c) * r /\ b4 = -yr /\ b5 = ((c * r + yr) * w) * i
        /\ b6 = ((-w) * c) * (o * i) /\ b7 = (-w) * (yr * i)
    BY <1>5, <1>8, <1>11, <1>12, <1>14, <1>15, <1>16, <1>17, <1>18 DEF Mul
  <2>2. QED BY <1>8, <1>20, <2>1, SMT
<1>23. QED BY <1>20, <1>21, <1>22 DEF p, handle, key

(* A signature: the point that the verifier calculates is the one that was hashed. *)
LEMMA SignatureSum ==
    ASSUME NEW s \in 1..(Q - 1), NEW k \in Int, NEW e \in Int
    PROVE  SignedPoint(Sign(s, k, e), PublicKey(s)) = Times(k, H)
<1>1. PICK i \in Int : i = Invert(s) /\ i \in Scalars BY InverseIs, Small
<1>2. PublicKey(s) = At(0, i) BY <1>1, CongruentSelf, Generators DEF PublicKey
<1>3. PICK u \in Int : u = i * e + k BY SMT
<1>4. PICK z \in Int : z = Sign(s, k, e).s /\ Congruent(z, u) BY <1>1, <1>3, Response DEF Sign
<1>5. Times(z, H) = At(0, u) /\ Times(k, H) = At(0, k) BY <1>4, CongruentSelf, Generators
<1>6. PICK d \in Int : d = Mul(e, i) /\ Times(e, At(0, i)) = At(0, d)
  <2>1. Times(e, At(0, i)) = At(0, Mul(e, i)) BY CongruentSelf, TimesAt, MulZero
  <2>2. QED BY <2>1, MulInt
<1>7. Less(At(0, u), At(0, d)) = At(0, u - d) BY LessAt
<1>8. u - d = k BY <1>3, <1>6, SMT DEF Mul
<1>9. Sign(s, k, e).e = e BY DEF Sign
<1>10. QED BY <1>2, <1>4, <1>5, <1>6, <1>7, <1>8, <1>9 DEF SignedPoint
--------------------------------------------------------------------------------
(* The inductive invariant of the proofs: a claim is what one of the actions made. *)

EqClaim(s, x, said, o, r, y, c) ==
    LET ct == EncryptWithOpening(PublicKey(s), x, o)
    IN  [is |-> "eq", holds |-> x = said, c |-> c, key |-> PublicKey(s), ct |-> ct,
         commitment |-> Commitment(said, r), proof |-> EqProof(s, ct, r, said, y, c)]

ValidityClaim(s, x, o, r, y, c) ==
    [is |-> "validity", holds |-> o = r, c |-> c, key |-> PublicKey(s),
     commitment |-> Commitment(x, r), handle |-> DecryptHandle(PublicKey(s), o),
     proof |-> ValidityProof(PublicKey(s), x, r, y, c)]

SignatureClaim(s, k, e) ==
    [is |-> "signature", key |-> PublicKey(s), signature |-> Sign(s, k, e), point |-> Times(k, H)]

EqMade ==
    \E s \in Secrets, x, said, c \in Scalars, o, r \in Randomness, y \in [s : Masks, x : Masks, r : Masks] :
        claim = EqClaim(s, x, said, o, r, y, c)
ValidityMade ==
    \E s \in Secrets, x, c \in Scalars, o, r \in Randomness, y \in [x : Masks, r : Masks] :
        claim = ValidityClaim(s, x, o, r, y, c)
SignatureMade ==
    \E s \in Secrets, k \in Masks, e \in Scalars : claim = SignatureClaim(s, k, e)

ProofInv == (claim = NoClaim \/ EqMade \/ ValidityMade \/ SignatureMade) /\ TrueIsAccepted

LEMMA ScalarTypes == /\ Secrets \subseteq 1..(Q - 1) /\ Scalars \subseteq Int
                     /\ Randomness \subseteq Scalars /\ Masks \subseteq Int
BY GroupAssumption DEF Scalars

LEMMA EqClaimSum ==
    ASSUME EqMade, NEW w \in Scalars
    PROVE  /\ claim.is = "eq"
           /\ \E x, said, c \in Scalars : /\ claim.holds = (x = said) /\ claim.c = c
                                          /\ ProofSum(w) = At(w * c * (said - x), 0)
<1>1. PICK s \in Secrets, x \in Scalars, said \in Scalars, c \in Scalars, o \in Randomness,
           r \in Randomness, y \in [s : Masks, x : Masks, r : Masks] :
              claim = EqClaim(s, x, said, o, r, y, c)
  BY DEF EqMade
<1> DEFINE ct == EncryptWithOpening(PublicKey(s), x, o)
           pf == EqProof(s, ct, r, said, y, c)
<1>2. /\ claim.is = "eq" /\ claim.holds = (x = said) /\ claim.c = c /\ claim.key = PublicKey(s)
      /\ claim.ct = ct /\ claim.commitment = Commitment(said, r) /\ claim.proof = pf
  BY <1>1 DEF EqClaim
<1>3. y \in [s : Int, x : Int, r : Int] BY ScalarTypes
<1>4. /\ s \in 1..(Q - 1) /\ x \in Int /\ said \in Int /\ c \in Int /\ o \in Int /\ r \in Int /\ w \in Int
  BY ScalarTypes
<1>5. PICK key, e, f, g, t : key = PublicKey(s) /\ e = ct /\ f = pf /\ g = Commitment(said, r) /\ t = w * c * (said - x) OBVIOUS
<1>6. /\ key = PublicKey(s) /\ e = EncryptWithOpening(key, x, o) /\ f = EqProof(s, e, r, said, y, c)
       /\ g = Commitment(said, r) /\ t = w * c * (said - x) BY <1>5
<1> HIDE DEF ct, pf
<1>7. EqProofSum(f, key, e, g, c, w) = At(t, 0)
  BY <1>3, <1>4, <1>6, EqSum
<1>8. ProofSum(w) = At(w * c * (said - x), 0) BY <1>2, <1>5, <1>7 DEF ProofSum
<1>9. QED BY <1>2, <1>8

LEMMA ValidityClaimSum ==
    ASSUME ValidityMade, NEW w \in Scalars
    PROVE  /\ claim.is = "validity"
           /\ \E s \in Secrets, i, n \in Int, o, r, c \in Scalars :
                 /\ s * i = 1 + n * Q /\ claim.holds = (o = r) /\ claim.c = c
                 /\ ProofSum(w) = At(0, i * (w * c * (r - o)))
<1>1. PICK s \in Secrets, x \in Scalars, c \in Scalars, o \in Randomness, r \in Randomness,
           y \in [x : Masks, r : Masks] : claim = ValidityClaim(s, x, o, r, y, c)
  BY DEF ValidityMade
<1> DEFINE pf == ValidityProof(PublicKey(s), x, r, y, c)
           handle == DecryptHandle(PublicKey(s), o)
<1>2. /\ claim.is = "validity" /\ claim.holds = (o = r) /\ claim.c = c /\ claim.key = PublicKey(s)
      /\ claim.commitment = Commitment(x, r) /\ claim.handle = handle /\ claim.proof = pf
  BY <1>1 DEF ValidityClaim
<1>3. y \in [x : Int, r : Int] BY ScalarTypes
<1>4. /\ s \in 1..(Q - 1) /\ x \in Int /\ c \in Int /\ o \in Int /\ r \in Int /\ w \in Int
      /\ o \in Scalars /\ r \in Scalars
  BY ScalarTypes
<1>5. PICK i \in Int, n \in Int : s * i = 1 + n * Q /\ PublicKey(s) = At(0, i) BY <1>4, KeyAt
<1>6. ValidityProofSum(pf, Commitment(x, r), PublicKey(s), handle, c, w) = At(0, i * (w * c * (r - o)))
  BY <1>3, <1>4, <1>5, ValiditySum
<1> HIDE DEF pf, handle
<1>7. ProofSum(w) = At(0, i * (w * c * (r - o))) BY <1>2, <1>6 DEF ProofSum
<1>8. QED BY <1>2, <1>4, <1>5, <1>7

(* A claim that holds adds nothing to the batch. *)
LEMMA HoldsVerified ==
    ASSUME EqMade \/ ValidityMade, claim.holds, NEW w \in Scalars, NEW factor \in Masks
    PROVE  Verify(ProofSum(w), factor)
<1>1. ProofSum(w) = Identity
  <2>1. w \in Int BY ScalarTypes
  <2>2. CASE EqMade
    <3>0. PICK x \in Scalars, said \in Scalars, c \in Scalars :
             claim.holds = (x = said) /\ ProofSum(w) = At(w * c * (said - x), 0)
      <4>1. \E x, said, c \in Scalars : /\ claim.holds = (x = said) /\ claim.c = c
                                         /\ ProofSum(w) = At(w * c * (said - x), 0)
        BY <2>2, EqClaimSum
      <4>2. QED BY <4>1, Zenon
    <3>1. x = said /\ ProofSum(w) = At(w * c * (said - x), 0) BY <3>0
    <3>2. w * c * (said - x) = 0 BY <2>1, <3>1, ScalarTypes, SMT
    <3>3. QED BY <3>1, <3>2 DEF Identity
  <2>3. CASE ValidityMade
    <3>0. PICK s \in Secrets, i \in Int, n \in Int, o \in Scalars, r \in Scalars, c \in Scalars :
             /\ s * i = 1 + n * Q /\ claim.holds = (o = r) /\ claim.c = c
             /\ ProofSum(w) = At(0, i * (w * c * (r - o)))
      BY <2>3, ValidityClaimSum
    <3>1. o = r /\ ProofSum(w) = At(0, i * (w * c * (r - o))) BY <3>0
    <3>2. i * (w * c * (r - o)) = 0 BY <2>1, <3>1, ScalarTypes, SMT
    <3>3. QED BY <3>1, <3>2 DEF Identity
  <2>4. QED BY <2>2, <2>3
<1>2. factor \in Int BY ScalarTypes
<1>3. Times(factor, At(0, 0)) = At(0, 0) BY <1>2, CongruentSelf, TimesAt, MulZero
<1>4. QED BY <1>1, <1>3 DEF Verify, Identity

LEMMA ProofStep == ASSUME ProofInv, [NextProofs]_proofVars PROVE ProofInv'
<1>1. CASE UNCHANGED proofVars
  BY <1>1 DEF ProofInv, proofVars, EqMade, ValidityMade, SignatureMade, TrueIsAccepted
<1>2. ASSUME claim = NoClaim, verdict' = verdict PROVE TrueIsAccepted'
  BY <1>2 DEF ProofInv, TrueIsAccepted, NoClaim
<1>3. ASSUME NEW s \in Secrets, NEW x \in Scalars, NEW said \in Scalars, NEW c \in Scalars,
             NEW o \in Randomness, NEW r \in Randomness, ProveEq(s, x, said, o, r, c)
      PROVE  ProofInv'
  <2>1. EqMade'
    <3>1. PICK y \in [s : Masks, x : Masks, r : Masks] : claim' = EqClaim(s, x, said, o, r, y, c)
      BY <1>3, Zenon DEF ProveEq, EqClaim
    <3>2. QED BY <3>1, Zenon DEF EqMade
  <2>2. QED BY <1>2, <1>3, <2>1 DEF ProveEq, ProofInv
<1>4. ASSUME NEW s \in Secrets, NEW x \in Scalars, NEW c \in Scalars,
             NEW o \in Randomness, NEW r \in Randomness, ProveValidity(s, x, o, r, c)
      PROVE  ProofInv'
  <2>1. ValidityMade' BY <1>4 DEF ProveValidity, ValidityMade, ValidityClaim
  <2>2. QED BY <1>2, <1>4, <2>1 DEF ProveValidity, ProofInv
<1>5. ASSUME NEW s \in Secrets, NEW k \in Masks, NEW e \in Scalars, ProveSignature(s, k, e)
      PROVE  ProofInv'
  <2>1. SignatureMade' BY <1>5 DEF ProveSignature, SignatureMade, SignatureClaim
  <2>2. QED BY <1>2, <1>5, <2>1 DEF ProveSignature, ProofInv
<1>6. CASE Check
  <2>1. claim.is \in {"eq", "validity"} /\ claim' = claim BY <1>6 DEF Check
  <2>2. (EqMade \/ ValidityMade) /\ (EqMade \/ ValidityMade)'
    BY <2>1 DEF ProofInv, NoClaim, SignatureMade, SignatureClaim, EqMade, ValidityMade
  <2>3. PICK w \in Scalars, factor \in Masks :
           verdict' = IF Appendable(claim.proof) /\ Verify(ProofSum(w), factor) THEN "accepted" ELSE "refused"
    BY <1>6 DEF Check
  <2>4. claim.holds => Verify(ProofSum(w), factor) BY <2>2, HoldsVerified
  <2>5. TrueIsAccepted' BY <2>1, <2>3, <2>4 DEF TrueIsAccepted
  <2>6. QED BY <2>2, <2>5 DEF ProofInv
<1>7. CASE CheckSignature
  <2>1. claim.is = "signature" /\ claim' = claim
        /\ verdict' = IF SignedPoint(claim.signature, claim.key) = claim.point THEN "accepted" ELSE "refused"
    BY <1>7 DEF CheckSignature
  <2>2. SignatureMade /\ SignatureMade'
    BY <2>1 DEF ProofInv, NoClaim, SignatureMade, EqMade, EqClaim, ValidityMade, ValidityClaim
  <2>3. PICK s \in Secrets, k \in Masks, e \in Scalars : claim = SignatureClaim(s, k, e)
    BY <2>2 DEF SignatureMade
  <2>4. claim.signature = Sign(s, k, e) /\ claim.key = PublicKey(s) /\ claim.point = Times(k, H)
    BY <2>3 DEF SignatureClaim
  <2>5. SignedPoint(Sign(s, k, e), PublicKey(s)) = Times(k, H) BY ScalarTypes, SignatureSum
  <2>6. verdict' = "accepted" BY <2>1, <2>4, <2>5
  <2>7. QED BY <2>2, <2>6 DEF ProofInv, TrueIsAccepted
<1>8. QED BY <1>1, <1>3, <1>4, <1>5, <1>6, <1>7 DEF NextProofs

LEMMA ProofInvariant == ProofSpec => []ProofInv
<1>1. InitProofs => ProofInv BY DEF InitProofs, ProofInv, TrueIsAccepted
<1>2. ProofInv /\ [NextProofs]_proofVars => ProofInv' BY ProofStep
<1>3. QED BY <1>1, <1>2, PTL DEF ProofSpec

(* A difference of two scalars is zero modulo Q only if they are the same. *)
LEMMA Different ==
    ASSUME NEW a \in Scalars, NEW b \in Scalars, a # b
    PROVE  a - b \in Int /\ (a - b) % Q # 0
<1>1. Q \in Nat /\ Q > 2 /\ a \in Int /\ b \in Int BY GroupAssumption DEF Scalars
<1>2. PICK d \in Int : d = a - b /\ d # 0 /\ d < Q /\ -Q < d BY <1>1 DEF Scalars
<1>3. CASE d > 0
  <2>1. d \in Scalars BY <1>1, <1>2, <1>3 DEF Scalars
  <2>2. QED BY <1>2, <2>1, Small
<1>4. CASE d < 0
  <2>1. PICK f \in Scalars : f = d + 1 * Q /\ f # 0 BY <1>1, <1>2, <1>4 DEF Scalars
  <2>2. f % Q = d % Q BY <2>1, Shift
  <2>3. QED BY <1>2, <2>1, <2>2, Small
<1>5. QED BY <1>2, <1>3, <1>4

(* A claim that does not hold passes for no weight but zero. *)
LEMMA FalseFails ==
    ASSUME EqMade \/ ValidityMade, ~claim.holds, claim.c # 0,
           NEW w \in Scalars, ProofSum(w) = Identity
    PROVE  w = 0
<1>1. Q \in Nat /\ Q > 2 /\ w \in Int /\ w % Q = w BY GroupAssumption, ScalarTypes, Small
<1>2. ASSUME NEW c \in Scalars, c # 0, NEW d \in Int, d % Q # 0, (w * c * d) % Q = 0 PROVE w = 0
  <2>1. c \in Int /\ c % Q # 0 BY <1>2, Small
  <2>2. d * (w * c) = w * c * d /\ w * c = c * w /\ w * c \in Int BY <1>1, <2>1, SMT
  <2>3. (w * c) % Q = 0 BY <1>2, <2>2, NoZeroDivisor
  <2>4. w % Q = 0 BY <1>1, <2>1, <2>2, <2>3, NoZeroDivisor
  <2>5. QED BY <1>1, <2>4
<1>3. CASE EqMade
  <2>1. PICK x \in Scalars, said \in Scalars, c \in Scalars :
           claim.holds = (x = said) /\ claim.c = c /\ ProofSum(w) = At(w * c * (said - x), 0)
    BY <1>3, EqClaimSum
  <2>2. said # x /\ c # 0 BY <2>1
  <2>3. PICK d \in Int : d = said - x /\ d % Q # 0 BY <2>2, Different
  <2>4. (w * c * d) % Q = 0 % Q BY <2>1, <2>3 DEF At, Identity
  <2>5. QED BY <1>2, <2>2, <2>3, <2>4, ZeroOne
<1>4. CASE ValidityMade
  <2>1. PICK s \in Secrets, i \in Int, n \in Int, o \in Scalars, r \in Scalars, c \in Scalars :
           /\ s * i = 1 + n * Q /\ claim.holds = (o = r) /\ claim.c = c
           /\ ProofSum(w) = At(0, i * (w * c * (r - o)))
    BY <1>4, ValidityClaimSum
  <2>2. r # o /\ c # 0 BY <2>1
  <2>3. PICK d \in Int : d = r - o /\ d % Q # 0 BY <2>2, Different
  <2>4. PICK v \in Int : v = w * c * d BY <1>1, ScalarTypes, SMT
  <2>5. (i * v) % Q = 0 % Q BY <2>1, <2>3, <2>4 DEF At, Identity
  <2>6. i % Q # 0
    <3>1. SUFFICES ASSUME i % Q = 0 PROVE FALSE OBVIOUS
    <3>2. s \in Int /\ s * i \in Int BY <2>1, ScalarTypes, SMT
    <3>3. (s * i) % Q = (s * 0) % Q BY <3>1, <3>2, RemainderTimes
    <3>4. (1 + n * Q) % Q = 1 % Q BY Shift
    <3>5. s * 0 = 0 BY <3>2, SMT
    <3>6. QED BY <2>1, <3>3, <3>4, <3>5, ZeroOne
  <2>7. v % Q = 0 BY <2>5, <2>6, ZeroOne, NoZeroDivisor
  <2>8. QED BY <1>2, <2>2, <2>3, <2>4, <2>7
<1>5. QED BY <1>3, <1>4

(* Proofs and signatures of what is true are accepted for all keys, amounts, openings,
   masks and challenges, and what is false is accepted for no weight of the batch
   but zero, whatever the prime order of the group is.                                   *)
THEOREM ProofsAreSound == ProofSpec => []ProofsSound
<1>1. ProofInv => ProofsSound
  <2>1. SUFFICES ASSUME ProofInv PROVE FalseIsRefused BY DEF ProofInv, ProofsSound
  <2>2. SUFFICES ASSUME claim.is \in {"eq", "validity"}, ~claim.holds, claim.c # 0,
                        NEW w \in Scalars, ProofSum(w) = Identity
                 PROVE  w = 0
    BY DEF FalseIsRefused
  <2>3. EqMade \/ ValidityMade
    BY <2>1, <2>2 DEF ProofInv, NoClaim, SignatureMade, SignatureClaim
  <2>4. QED BY <2>2, <2>3, FalseFails
<1>2. QED BY ProofInvariant, <1>1, PTL
--------------------------------------------------------------------------------
(* The cache of an account. The owner reads v from a ciphertext if its coordinates
   satisfy two equations modulo Q.                                                    *)
Encrypts(ct, v) ==
    \E a, b, c, d, k, l \in Int :
        /\ ct = Ciphertext(At(a, b), At(c, d))
        /\ a - Owner * c = v + k * Q /\ b - Owner * d = l * Q

(* The cache holds ct: in one of its forms, or in both and the flag says which is right *)
Form(k, ct) ==
    \/ k = Compressed(Compress(ct))
    \/ k = Decompressed(ct)
    \/ \E c, dirty : k = BothOf(c, ct, dirty) /\ dirty \in BOOLEAN /\ (dirty \/ c = Compress(ct))

CacheInv == balance \in Scalars /\ \E ct : Form(cache, ct) /\ Encrypts(ct, balance)

LEMMA OwnerIs == Owner \in 1..(Q - 1) /\ Owner \in Int
<1> DEFINE R == OpToRel(<, Nat)
<1>1. Secrets # {} /\ Secrets \subseteq 1..(Q - 1) /\ Q \in Nat BY GroupAssumption
<1>2. Secrets \subseteq Nat BY <1>1
<1>3. IsWellFoundedOn(R, Nat) BY NatLessThanWellFounded
<1>4. PICK s \in Secrets : \A t \in Secrets : s <= t
  <2> HIDE DEF R
  <2>1. PICK s \in Secrets : \A t \in Secrets : ~ (<<t, s>> \in R) BY <1>1, <1>2, <1>3, WFMin
  <2>2. \A t \in Secrets : ~ (t < s) BY <1>2, <2>1 DEF R, OpToRel
  <2>3. QED BY <1>2, <2>2
<1>5. Owner \in Secrets BY <1>4, Zenon DEF Owner
<1>6. QED BY <1>1, <1>5

LEMMA DecodeEncrypts ==
    ASSUME NEW v \in Scalars, NEW ct, Encrypts(ct, v)
    PROVE  DecodePoint(DecryptToPoint(Owner, ct)) = v
<1>1. PICK a \in Int, b \in Int, c \in Int, d \in Int, k \in Int, l \in Int :
         /\ ct = Ciphertext(At(a, b), At(c, d))
         /\ a - Owner * c = v + k * Q /\ b - Owner * d = l * Q
  BY DEF Encrypts
<1>2. v \in Int /\ v % Q = v BY Small
<1>3. PICK s \in Int : s = Owner BY OwnerIs
<1>4. PICK sc \in Int, sd \in Int : sc = Mul(s, c) /\ sd = Mul(s, d) BY MulInt
<1>5. Times(s, At(c, d)) = At(sc, sd) BY <1>4, CongruentSelf, TimesAt
<1>6. Less(At(a, b), At(sc, sd)) = At(a - sc, b - sd) BY LessAt
<1>7. a - sc = v + k * Q /\ b - sd = 0 + l * Q BY <1>1, <1>3, <1>4, ZeroOne, SMT DEF Mul
<1>8. At(v + k * Q, 0 + l * Q) = At(v, 0) BY <1>2, Same
<1>9. DecryptToPoint(s, ct) = At(v, 0) BY <1>1, <1>5, <1>6, <1>7, <1>8 DEF DecryptToPoint, Ciphertext
<1>10. QED BY <1>2, <1>3, <1>9, ZeroOne DEF DecodePoint, At

LEMMA Encrypted ==
    ASSUME NEW a \in Int, NEW b \in Int, NEW c \in Int, NEW d \in Int, NEW v \in Int,
           NEW k \in Int, NEW l \in Int, a - Owner * c = v + k * Q, b - Owner * d = l * Q
    PROVE  Encrypts(Ciphertext(At(a, b), At(c, d)), v % Q)
<1>0. PICK u \in Scalars, m \in Int : u = v % Q /\ v = u + m * Q BY Remainder
<1>1. u \in Int /\ u = v % Q /\ v = u + m * Q BY <1>0, ScalarTypes
<1>2. PICK j \in Int : j = m + k OBVIOUS
<1>3. v + k * Q = u + j * Q BY <1>1, <1>2, ZeroOne, SMT
<1>4. a - Owner * c = u + j * Q BY <1>3
<1>5. QED BY <1>1, <1>4 DEF Encrypts

(* The four changes of a ciphertext change the amount that it holds. *)
LEMMA AddEncrypts ==
    ASSUME NEW v \in Int, NEW ct, Encrypts(ct, v), NEW x \in Int, NEW o \in Int
    PROVE  Encrypts(AddCt(ct, EncryptWithOpening(PublicKey(Owner), x, o)), (v + x) % Q)
<1>1. PICK a \in Int, b \in Int, c \in Int, d \in Int, k \in Int, l \in Int :
         /\ ct = Ciphertext(At(a, b), At(c, d))
         /\ a - Owner * c = v + k * Q /\ b - Owner * d = l * Q
  BY DEF Encrypts
<1>2. PICK s \in Int : s = Owner /\ s \in 1..(Q - 1) BY OwnerIs
<1>3. PICK i \in Int, n \in Int : s * i = 1 + n * Q /\ PublicKey(s) = At(0, i) BY <1>2, KeyAt
<1>4. PICK oi \in Int : oi = Mul(o, i) BY MulInt
<1>5. EncryptWithOpening(PublicKey(s), x, o) = Ciphertext(At(x, o), At(0, oi)) BY <1>3, <1>4, EncryptAt
<1>6. PICK a2 \in Int, b2 \in Int, d2 \in Int, k2 \in Int, l2 \in Int, u \in Int :
         a2 = a + x /\ b2 = b + o /\ d2 = d + oi /\ k2 = k /\ l2 = l - o * n /\ u = v + x BY SMT
<1>7. Plus(At(a, b), At(x, o)) = At(a2, b2) BY <1>6, PlusAt
<1>8. Plus(At(c, d), At(0, oi)) = At(c, d2) BY <1>6, PlusAt
<1>9. AddCt(ct, EncryptWithOpening(PublicKey(Owner), x, o)) = Ciphertext(At(a2, b2), At(c, d2))
  BY <1>1, <1>2, <1>5, <1>7, <1>8 DEF AddCt, Ciphertext
<1>10. a2 - Owner * c = u + k2 * Q /\ b2 - Owner * d2 = l2 * Q
  <2>1. Q \in Int BY ZeroOne
  <2>2. s * d2 = s * d + o * (s * i) BY <1>4, <1>6, SMT DEF Mul
  <2>3. o * (s * i) = o + (o * n) * Q BY <1>3, <2>1, SMT
  <2>4. QED BY <1>1, <1>2, <1>6, <2>1, <2>2, <2>3, SMT
<1>11. QED BY <1>6, <1>9, <1>10, Encrypted

LEMMA SubEncrypts ==
    ASSUME NEW v \in Int, NEW ct, Encrypts(ct, v), NEW x \in Int, NEW o \in Int
    PROVE  Encrypts(SubCt(ct, EncryptWithOpening(PublicKey(Owner), x, o)), (v - x) % Q)
<1>1. PICK a \in Int, b \in Int, c \in Int, d \in Int, k \in Int, l \in Int :
         /\ ct = Ciphertext(At(a, b), At(c, d))
         /\ a - Owner * c = v + k * Q /\ b - Owner * d = l * Q
  BY DEF Encrypts
<1>2. PICK s \in Int : s = Owner /\ s \in 1..(Q - 1) BY OwnerIs
<1>3. PICK i \in Int, n \in Int : s * i = 1 + n * Q /\ PublicKey(s) = At(0, i) BY <1>2, KeyAt
<1>4. PICK oi \in Int : oi = Mul(o, i) BY MulInt
<1>5. EncryptWithOpening(PublicKey(s), x, o) = Ciphertext(At(x, o), At(0, oi)) BY <1>3, <1>4, EncryptAt
<1>6. PICK a2 \in Int, b2 \in Int, d2 \in Int, k2 \in Int, l2 \in Int, u \in Int :
         a2 = a - x /\ b2 = b - o /\ d2 = d - oi /\ k2 = k /\ l2 = l + o * n /\ u = v - x BY SMT
<1>7. Less(At(a, b), At(x, o)) = At(a2, b2) BY <1>6, LessAt
<1>8. Less(At(c, d), At(0, oi)) = At(c, d2) BY <1>6, LessAt
<1>9. SubCt(ct, EncryptWithOpening(PublicKey(Owner), x, o)) = Ciphertext(At(a2, b2), At(c, d2))
  BY <1>1, <1>2, <1>5, <1>7, <1>8 DEF SubCt, Ciphertext
<1>10. a2 - Owner * c = u + k2 * Q /\ b2 - Owner * d2 = l2 * Q
  <2>1. Q \in Int BY ZeroOne
  <2>2. s * d2 = s * d - o * (s * i) BY <1>4, <1>6, SMT DEF Mul
  <2>3. o * (s * i) = o + (o * n) * Q BY <1>3, <2>1, SMT
  <2>4. QED BY <1>1, <1>2, <1>6, <2>1, <2>2, <2>3, SMT
<1>11. QED BY <1>6, <1>9, <1>10, Encrypted

LEMMA AddScalarEncrypts ==
    ASSUME NEW v \in Int, NEW ct, Encrypts(ct, v), NEW x \in Int
    PROVE  Encrypts(AddScalar(ct, x), (v + x) % Q)
<1>1. PICK a \in Int, b \in Int, c \in Int, d \in Int, k \in Int, l \in Int :
         /\ ct = Ciphertext(At(a, b), At(c, d))
         /\ a - Owner * c = v + k * Q /\ b - Owner * d = l * Q
  BY DEF Encrypts
<1>2. Times(x, G) = At(x, 0) BY CongruentSelf, Generators
<1>3. PICK a2 \in Int, u \in Int : a2 = a + x /\ u = v + x OBVIOUS
<1>4. Plus(At(a, b), At(x, 0)) = At(a2, b) BY <1>3, PlusAt
<1>5. AddScalar(ct, x) = Ciphertext(At(a2, b), At(c, d)) BY <1>1, <1>2, <1>4 DEF AddScalar, Ciphertext
<1>6. a2 - Owner * c = u + k * Q BY <1>1, <1>3, OwnerIs, ZeroOne, SMT
<1>7. QED BY <1>1, <1>3, <1>5, <1>6, Encrypted

LEMMA SubScalarEncrypts ==
    ASSUME NEW v \in Int, NEW ct, Encrypts(ct, v), NEW x \in Int
    PROVE  Encrypts(SubScalar(ct, x), (v - x) % Q)
<1>1. PICK a \in Int, b \in Int, c \in Int, d \in Int, k \in Int, l \in Int :
         /\ ct = Ciphertext(At(a, b), At(c, d))
         /\ a - Owner * c = v + k * Q /\ b - Owner * d = l * Q
  BY DEF Encrypts
<1>2. Times(x, G) = At(x, 0) BY CongruentSelf, Generators
<1>3. PICK a2 \in Int, u \in Int : a2 = a - x /\ u = v - x OBVIOUS
<1>4. Less(At(a, b), At(x, 0)) = At(a2, b) BY <1>3, LessAt
<1>5. SubScalar(ct, x) = Ciphertext(At(a2, b), At(c, d)) BY <1>1, <1>2, <1>4 DEF SubScalar, Ciphertext
<1>6. a2 - Owner * c = u + k * Q BY <1>1, <1>3, OwnerIs, ZeroOne, SMT
<1>7. QED BY <1>1, <1>3, <1>5, <1>6, Encrypted

LEMMA ZeroEncrypts == Encrypts(Zero, 0)
<1>1. 0 - Owner * 0 = 0 + 0 * Q /\ 0 - Owner * 0 = 0 * Q BY OwnerIs, ZeroOne, SMT
<1>2. Zero = Ciphertext(At(0, 0), At(0, 0)) BY DEF Zero, Identity
<1>3. QED BY <1>1, <1>2 DEF Encrypts

LEMMA TakeAway ==
    ASSUME NEW v \in Int, NEW x \in Int
    PROVE  (v + Neg(x)) % Q = (v - x) % Q
<1>1. PICK z \in Int, m \in Int : z = Neg(x) /\ m = -x /\ Congruent(z, m) BY Negative
<1>2. Congruent(v + z, v + m) BY <1>1, CongruentSelf, Sums
<1>3. v + m = v - x BY <1>1
<1>4. QED BY <1>1, <1>2, <1>3 DEF Congruent

(* What would be written of a cache that holds ct. *)
LEMMA FormCompress ==
    ASSUME NEW k, NEW ct, Form(k, ct)
    PROVE  CompressCache(k) = Compress(ct)
BY DEF Form, CompressCache, Compressed, Decompressed, BothOf

LEMMA FormFields ==
    ASSUME NEW k, NEW ct, Form(k, ct)
    PROVE  \/ k.is = "Compressed" /\ k = Compressed(Compress(ct)) /\ k.c = Compress(ct) /\ Decompress(k.c) = ct
           \/ k.is = "Decompressed" /\ k.e = ct
           \/ /\ k.is = "Both" /\ k.e = ct /\ k.dirty \in BOOLEAN
              /\ k.dirty \/ k.c = Compress(ct)
BY DEF Form, Compressed, Decompressed, BothOf, Compress, Decompress

LEMMA Forms ==
    ASSUME NEW ct
    PROVE  /\ Form(Compressed(Compress(ct)), ct) /\ Form(Decompressed(ct), ct)
           /\ \A c : Form(BothOf(c, ct, TRUE), ct)
           /\ \A d \in BOOLEAN : Form(BothOf(Compress(ct), ct, d), ct)
BY Zenon DEF Form

LEMMA CacheStep == ASSUME CacheInv, [NextCache]_cacheVars PROVE CacheInv'
<1>1. PICK ct : Form(cache, ct) /\ Encrypts(ct, balance) BY DEF CacheInv
<1>2. balance \in Scalars /\ balance \in Int BY ScalarTypes DEF CacheInv
<1>3. CASE UNCHANGED cacheVars BY <1>3 DEF CacheInv, cacheVars
<1>4. ASSUME NEW x \in Scalars, NEW o \in Randomness, Receive(x, o) PROVE CacheInv'
  <2> DEFINE new == AddCt(ct, EncryptWithOpening(PublicKey(Owner), x, o))
  <2>1. Form(cache', new)
    <3>1. cache' = IF cache.is = "Both" THEN BothOf(cache.c, new, TRUE) ELSE Decompressed(new)
      BY <1>1, <1>4, FormFields DEF Receive, Change, Computable
    <3> HIDE DEF new
    <3>2. QED BY <3>1, Forms
  <2>2. balance' = (balance + x) % Q BY <1>4 DEF Receive, Change
  <2>3. balance' = (balance + x) % Q BY <2>2
  <2>4. x \in Int /\ o \in Int BY ScalarTypes
  <2>5. Encrypts(new, balance') BY <1>1, <1>2, <2>3, <2>4, AddEncrypts
  <2> HIDE DEF new
  <2>6. balance' \in Scalars
    <3>1. balance + x \in Int BY <1>2, <2>4
    <3>2. QED BY <2>3, <3>1, Remainder
  <2>7. QED BY <2>1, <2>5, <2>6 DEF CacheInv
<1>5. ASSUME NEW x \in Scalars, NEW o \in Randomness, Spend(x, o) PROVE CacheInv'
  <2> DEFINE new == SubCt(ct, EncryptWithOpening(PublicKey(Owner), x, o))
  <2>1. Form(cache', new)
    <3>1. cache' = IF cache.is = "Both" THEN BothOf(cache.c, new, TRUE) ELSE Decompressed(new)
      BY <1>1, <1>5, FormFields DEF Spend, Change, Computable
    <3> HIDE DEF new
    <3>2. QED BY <3>1, Forms
  <2>2. balance' = (balance + Neg(x)) % Q BY <1>5 DEF Spend, Change
  <2>3. balance' = (balance - x) % Q BY <1>2, <2>2, TakeAway, ScalarTypes
  <2>4. x \in Int /\ o \in Int BY ScalarTypes
  <2>5. Encrypts(new, balance') BY <1>1, <1>2, <2>3, <2>4, SubEncrypts
  <2> HIDE DEF new
  <2>6. balance' \in Scalars
    <3>1. balance - x \in Int BY <1>2, <2>4
    <3>2. QED BY <2>3, <3>1, Remainder
  <2>7. QED BY <2>1, <2>5, <2>6 DEF CacheInv
<1>6. ASSUME NEW x \in Scalars, Reward(x) PROVE CacheInv'
  <2> DEFINE new == AddScalar(ct, x)
  <2>1. Form(cache', new)
    <3>1. cache' = IF cache.is = "Both" THEN BothOf(cache.c, new, TRUE) ELSE Decompressed(new)
      BY <1>1, <1>6, FormFields DEF Reward, Change, Computable
    <3> HIDE DEF new
    <3>2. QED BY <3>1, Forms
  <2>2. balance' = (balance + x) % Q BY <1>6 DEF Reward, Change
  <2>3. balance' = (balance + x) % Q BY <2>2
  <2>4. x \in Int BY ScalarTypes
  <2>5. Encrypts(new, balance') BY <1>1, <1>2, <2>3, <2>4, AddScalarEncrypts
  <2> HIDE DEF new
  <2>6. balance' \in Scalars
    <3>1. balance + x \in Int BY <1>2, <2>4
    <3>2. QED BY <2>3, <3>1, Remainder
  <2>7. QED BY <2>1, <2>5, <2>6 DEF CacheInv
<1>7. ASSUME NEW x \in Scalars, PayFee(x) PROVE CacheInv'
  <2> DEFINE new == SubScalar(ct, x)
  <2>1. Form(cache', new)
    <3>1. cache' = IF cache.is = "Both" THEN BothOf(cache.c, new, TRUE) ELSE Decompressed(new)
      BY <1>1, <1>7, FormFields DEF PayFee, Change, Computable
    <3> HIDE DEF new
    <3>2. QED BY <3>1, Forms
  <2>2. balance' = (balance + Neg(x)) % Q BY <1>7 DEF PayFee, Change
  <2>3. balance' = (balance - x) % Q BY <1>2, <2>2, TakeAway, ScalarTypes
  <2>4. x \in Int BY ScalarTypes
  <2>5. Encrypts(new, balance') BY <1>1, <1>2, <2>3, <2>4, SubScalarEncrypts
  <2> HIDE DEF new
  <2>6. balance' \in Scalars
    <3>1. balance - x \in Int BY <1>2, <2>4
    <3>2. QED BY <2>3, <3>1, Remainder
  <2>7. QED BY <2>1, <2>5, <2>6 DEF CacheInv
<1>8. CASE ShowCompressed
  <2>0. \/ cache' = Compressed(Compress(ct)) \/ cache' = BothOf(Compress(ct), ct, FALSE)
        \/ cache.dirty \in BOOLEAN /\ cache' = BothOf(Compress(ct), ct, cache.dirty)
    BY <1>1, <1>8, FormFields, FormCompress DEF ShowCompressed
  <2>1. Form(cache', ct) BY <2>0, Forms
  <2>2. balance' = balance BY <1>8 DEF ShowCompressed
  <2>3. QED BY <1>1, <2>1, <2>2 DEF CacheInv
<1>9. CASE ShowBoth
  <2>0. \E d \in BOOLEAN : cache' = BothOf(Compress(ct), ct, d)
    BY <1>1, <1>9, FormFields, FormCompress DEF ShowBoth
  <2>1. Form(cache', ct) BY <2>0, Forms
  <2>2. balance' = balance BY <1>9 DEF ShowBoth
  <2>3. QED BY <1>1, <2>1, <2>2 DEF CacheInv
<1>10. CASE ShowDecompressed
  <2>0. cache' = cache \/ cache' = BothOf(Compress(ct), ct, FALSE)
    BY <1>1, <1>10, FormFields DEF ShowDecompressed, Compressed
  <2>1. Form(cache', ct) BY <1>1, <2>0, Forms
  <2>2. balance' = balance BY <1>10 DEF ShowDecompressed
  <2>3. QED BY <1>1, <2>1, <2>2 DEF CacheInv
<1>11. CASE Save
  <2>0. cache' = Compressed(Compress(ct)) BY <1>1, <1>11, FormCompress DEF Save
  <2>1. Form(cache', ct) BY <2>0, Forms
  <2>2. balance' = balance BY <1>11 DEF Save
  <2>3. QED BY <1>1, <2>1, <2>2 DEF CacheInv
<1>12. QED BY <1>3, <1>4, <1>5, <1>6, <1>7, <1>8, <1>9, <1>10, <1>11 DEF NextCache

LEMMA CacheInvariant == CacheSpec => []CacheInv
<1>1. InitCache => CacheInv BY ZeroEncrypts, ZeroOne DEF InitCache, CacheInv, Form
<1>2. CacheInv /\ [NextCache]_cacheVars => CacheInv' BY CacheStep
<1>3. QED BY <1>1, <1>2, PTL DEF CacheSpec

(* Whatever is received, spent, paid, shown and saved, in whatever order: the owner reads
   the balance from what the cache would write, and a form that is not current is marked. *)
THEOREM CacheHoldsBalance == CacheSpec => []CacheIsBalance
<1>1. CacheInv => CacheIsBalance
  <2>1. SUFFICES ASSUME CacheInv PROVE CacheIsBalance OBVIOUS
  <2>2. PICK ct : Form(cache, ct) /\ Encrypts(ct, balance) BY <2>1 DEF CacheInv
  <2>3. balance \in Scalars BY <2>1 DEF CacheInv
  <2>4. Decompress(CompressCache(cache)) = ct BY <2>2, FormCompress DEF Compress, Decompress
  <2>5. DecodePoint(DecryptToPoint(Owner, Decompress(CompressCache(cache)))) = balance
    BY <2>2, <2>3, <2>4, DecodeEncrypts
  <2>6. cache.is = "Both" => (cache.dirty \/ Decompress(cache.c) = cache.e)
    BY <2>2 DEF Form, Compressed, Decompressed, BothOf, Compress, Decompress
  <2>7. QED BY <2>5, <2>6 DEF CacheIsBalance
<1>2. QED BY CacheInvariant, <1>1, PTL

(* What compressed() and both() return is the balance at that moment. *)
THEOREM CacheShowsBalance == CacheSpec => ShownIsCurrent
<1> DEFINE Fresh == shown' # shown => DecodePoint(DecryptToPoint(Owner, Decompress(shown'))) = balance'
<1>1. CacheInv /\ [NextCache]_cacheVars => [Fresh]_cacheVars
  <2>1. SUFFICES ASSUME CacheInv, NextCache, shown' # shown
                 PROVE  DecodePoint(DecryptToPoint(Owner, Decompress(shown'))) = balance'
    OBVIOUS
  <2>2. shown' = CompressCache(cache) /\ balance' = balance
    BY <2>1 DEF NextCache, Receive, Spend, Reward, PayFee, Change, ShowCompressed, ShowBoth, ShowDecompressed, Save
  <2>3. PICK ct : Form(cache, ct) /\ Encrypts(ct, balance) BY <2>1 DEF CacheInv
  <2>4. balance \in Scalars BY <2>1 DEF CacheInv
  <2>5. Decompress(shown') = ct BY <2>2, <2>3, FormCompress DEF Compress, Decompress
  <2>6. QED BY <2>2, <2>3, <2>4, <2>5, DecodeEncrypts
<1>2. QED BY CacheInvariant, <1>1, PTL DEF CacheSpec, ShownIsCurrent

-------------------------------------------------------------------------------
(* Seeds *)

LEMMA DivMod ==
    ASSUME NEW x \in Nat, NEW n \in Nat \ {0}
    PROVE  /\ x = (n * (x \div n)) + (x % n)
           /\ x \div n \in Nat /\ x % n \in 0..(n - 1)
BY SMT

LEMMA ModUnique ==
    ASSUME NEW n \in Nat \ {0}, NEW q \in Int, NEW r \in 0..(n - 1)
    PROVE  ((n * q) + r) % n = r
BY SMT

\* Taking b away again from what was added to b leaves the remainder of what was added.
LEMMA RemainderBack ==
    ASSUME NEW n \in Nat \ {0}, NEW x \in Nat, NEW b \in 0..(n - 1)
    PROVE  ((n - b) + ((x + b) % n)) % n = x % n
<1> DEFINE k == (x + b) \div n
           d == x \div n
           m == x % n
<1>1. x + b \in Nat /\ x + b = (n * k) + ((x + b) % n) /\ k \in Nat /\ (x + b) % n \in 0..(n - 1)
  <2>1. x + b \in Nat
    OBVIOUS
  <2>2. QED
    BY <2>1, DivMod
<1>2. x = (n * d) + m /\ d \in Nat /\ m \in 0..(n - 1)
  BY DivMod
<1> DEFINE c == (x + b) % n
<1> HIDE DEF k, d, m, c
<1>3. x + b = (n * k) + c /\ c \in 0..(n - 1) /\ k \in Nat
  BY <1>1 DEF c
<1>4. (n - b) + c = (n * (1 + d - k)) + m
  BY <1>2, <1>3, SMT
<1>5. 1 + d - k \in Int
  BY <1>2, <1>3
<1>6. ((n - b) + c) % n = m
  BY <1>2, <1>4, <1>5, ModUnique
<1>7. QED
  BY <1>6 DEF c, m

\* The three words of a value of 32 bits give it back: the third quotient is below the
\* number of words because the value is below its cube.
LEMMA ValueBack ==
    ASSUME NEW v \in 0..(Word - 1)
    PROVE  /\ ValueOf(First(v), Second(v), Third(v)) = v
           /\ Sum(First(v), Second(v), Third(v)) % WORDS_LIST = First(v)
           /\ First(v) \in 0..(WORDS_LIST - 1) /\ Second(v) \in 0..(WORDS_LIST - 1)
           /\ Third(v) \in 0..(WORDS_LIST - 1)
<1> DEFINE n == WORDS_LIST
           q == v \div n
           r == q \div n
<1>1. n \in Nat \ {0} /\ v \in Nat /\ v < n * (n * n) /\ Word \in Nat \ {0} /\ v < Word
  BY MnemonicAssumption
<1>2. v = (n * q) + First(v) /\ q \in Nat /\ First(v) \in 0..(n - 1)
  BY <1>1, DivMod DEF First
<1>3. q = (n * r) + (q % n) /\ r \in Nat /\ q % n \in 0..(n - 1)
  BY <1>1, <1>2, DivMod
<1>4. Second(v) = (q + First(v)) % n /\ Third(v) = (r + Second(v)) % n
  BY DEF Second, Third
<1> HIDE DEF n, q, r
<1>5. Second(v) \in 0..(n - 1)
  <2>1. q + First(v) \in Nat
    BY <1>1, <1>2
  <2>2. QED
    BY <1>1, <1>4, <2>1, DivMod
<1>6. Third(v) \in 0..(n - 1)
  <2>1. r + Second(v) \in Nat
    BY <1>1, <1>3, <1>5
  <2>2. QED
    BY <1>1, <1>4, <2>1, DivMod
<1>7. ((n - First(v)) + Second(v)) % n = q % n
  BY <1>1, <1>2, <1>4, RemainderBack
<1>8. r < n
  <2>1. SUFFICES ASSUME r >= n PROVE FALSE
    BY <1>1, <1>3
  <2>2. n * r >= n * n
    BY <1>1, <1>3, <2>1, SMT
  <2>3. q \in Nat /\ q >= n * n
    BY <1>1, <1>2, <1>3, <2>2, SMT
  <2>4. n * q >= n * (n * n)
    BY <1>1, <2>3, SMT
  <2>5. QED
    BY <1>1, <1>2, <2>4, SMT
<1>9. r % n = r
  BY <1>1, <1>3, <1>8, SMT
<1>10. ((n - Second(v)) + Third(v)) % n = r
  BY <1>1, <1>3, <1>4, <1>5, <1>9, RemainderBack
<1>11. n * ((n * r) + (q % n)) = (n * (n * r)) + (n * (q % n))
  BY <1>1, <1>3, SMT
<1>12. (First(v) + (n * (q % n))) + (n * (n * r)) = v
  BY <1>1, <1>2, <1>3, <1>11, SMT
<1>13. v % Word = v
  BY <1>1, SMT
<1>14. Sum(First(v), Second(v), Third(v)) = v
  BY <1>7, <1>10, <1>12 DEF Sum, n
<1>15. Sum(First(v), Second(v), Third(v)) % WORDS_LIST = First(v)
  BY <1>14 DEF First
<1>16. ValueOf(First(v), Second(v), Third(v)) = v
  BY <1>13, <1>14 DEF ValueOf
<1>17. QED
  BY <1>2, <1>5, <1>6, <1>15, <1>16 DEF n

--------------------------------------------------------------------------------
\* Where the three words of a part of the key are.
LEMMA Places ==
    ASSUME NEW g \in 1..Groups, NEW key \in Keys
    PROVE  /\ 3 * (g - 1) \in 0..(SEED_LENGTH - 1) /\ IndexAt(key, 3 * (g - 1)) = First(key[g])
           /\ 3 * (g - 1) + 1 \in 0..(SEED_LENGTH - 1) /\ IndexAt(key, 3 * (g - 1) + 1) = Second(key[g])
           /\ 3 * (g - 1) + 2 \in 0..(SEED_LENGTH - 1) /\ IndexAt(key, 3 * (g - 1) + 2) = Third(key[g])
<1>1. g \in Nat /\ g >= 1 /\ g <= Groups /\ Groups \in Nat
  BY MnemonicAssumption
<1>2. /\ (3 * (g - 1)) \div 3 = g - 1 /\ (3 * (g - 1)) % 3 = 0
      /\ (3 * (g - 1) + 1) \div 3 = g - 1 /\ (3 * (g - 1) + 1) % 3 = 1
      /\ (3 * (g - 1) + 2) \div 3 = g - 1 /\ (3 * (g - 1) + 2) % 3 = 2
  BY <1>1, SMT
<1>3. (g - 1) + 1 = g
  BY <1>1
<1>4. QED
  BY <1>1, <1>2, <1>3 DEF IndexAt, SEED_LENGTH

\* Every word of a seed has an index.
LEMMA IndexRange ==
    ASSUME NEW i \in 0..(SEED_LENGTH - 1), NEW key \in Keys
    PROVE  IndexAt(key, i) \in 0..(WORDS_LIST - 1)
<1>1. i \in Nat /\ i < 3 * Groups /\ Groups \in Nat
  BY MnemonicAssumption DEF SEED_LENGTH
<1>2. (i \div 3) + 1 \in 1..Groups
  BY <1>1, SMT
<1>3. key[(i \div 3) + 1] \in 0..(Word - 1)
  BY <1>2, MnemonicAssumption
<1>4. \A v \in 0..(Word - 1) : /\ First(v) \in 0..(WORDS_LIST - 1) /\ Second(v) \in 0..(WORDS_LIST - 1)
                               /\ Third(v) \in 0..(WORDS_LIST - 1)
  BY ValueBack
<1>5. QED
  BY <1>3, <1>4 DEF IndexAt

LEMMA IndexOfWord ==
    ASSUME NEW l \in Tried, NEW i \in 0..(WORDS_LIST - 1)
    PROVE  IndexOf(l, LANGUAGES[l].words[i]) = i
BY MnemonicAssumption DEF IndexOf, Tried

\* In the language it was written in, a phrase is the key.
LEMMA OwnLanguage ==
    ASSUME NEW key \in Keys, NEW l \in Tried, NEW sum \in 0..(SEED_LENGTH - 1)
    PROVE  LET phrase == Phrase(key, l, sum)
           IN /\ DOMAIN phrase = 0..SEED_LENGTH /\ Knows(l, phrase) /\ KeyOf(l, phrase) = key
              /\ phrase[sum] = phrase[SEED_LENGTH] /\ \A g \in 1..Groups : Sane(l, phrase, g)
<1> DEFINE phrase == Phrase(key, l, sum)
           word(i) == LANGUAGES[l].words[IndexAt(key, i)]
<1>1. SEED_LENGTH \in Nat \ {0}
  BY MnemonicAssumption DEF SEED_LENGTH
<1>2. \A i \in 0..(SEED_LENGTH - 1) : i \in 0..SEED_LENGTH /\ i # SEED_LENGTH /\ phrase[i] = word(i)
  BY <1>1 DEF Phrase
<1>3. DOMAIN phrase = 0..SEED_LENGTH /\ phrase[SEED_LENGTH] = word(sum)
  BY <1>1 DEF Phrase
<1>4. \A i \in 0..SEED_LENGTH : i = SEED_LENGTH \/ i \in 0..(SEED_LENGTH - 1)
  BY <1>1
<1>5. \A i \in 0..(SEED_LENGTH - 1) : IndexAt(key, i) \in 0..(WORDS_LIST - 1)
  BY IndexRange
<1> HIDE DEF phrase
<1>6. Knows(l, phrase)
  <2>1. ASSUME NEW i \in 0..SEED_LENGTH
        PROVE  \E j \in 0..(WORDS_LIST - 1) : LANGUAGES[l].words[j] = phrase[i]
    <3>1. CASE i = SEED_LENGTH
      BY <1>3, <1>5, <3>1
    <3>2. CASE i \in 0..(SEED_LENGTH - 1)
      BY <1>2, <1>5, <3>2
    <3>3. QED
      BY <1>4, <3>1, <3>2
  <2>2. QED
    BY <2>1 DEF Knows
<1>7. \A i \in 0..(SEED_LENGTH - 1) : IndexOf(l, phrase[i]) = IndexAt(key, i)
  BY <1>2, <1>5, IndexOfWord
<1>8. ASSUME NEW g \in 1..Groups
      PROVE  KeyOf(l, phrase)[g] = key[g] /\ Sane(l, phrase, g)
  <2>1. /\ IndexOf(l, phrase[3 * (g - 1)]) = First(key[g])
        /\ IndexOf(l, phrase[3 * (g - 1) + 1]) = Second(key[g])
        /\ IndexOf(l, phrase[3 * (g - 1) + 2]) = Third(key[g])
    BY <1>7, Places
  <2>2. key[g] \in 0..(Word - 1)
    BY MnemonicAssumption
  <2>3. KeyOf(l, phrase)[g] = ValueOf(First(key[g]), Second(key[g]), Third(key[g]))
    BY <2>1 DEF KeyOf, Triple
  <2>4. Sane(l, phrase, g)
    BY <2>1, <2>2, ValueBack DEF Sane, SumOf, Triple
  <2>5. QED
    BY <2>2, <2>3, <2>4, ValueBack
<1>9. KeyOf(l, phrase) = key
  <2>1. KeyOf(l, phrase) = [g \in 1..Groups |-> KeyOf(l, phrase)[g]]
    BY DEF KeyOf
  <2>2. key = [g \in 1..Groups |-> key[g]]
    BY MnemonicAssumption
  <2>3. [g \in 1..Groups |-> KeyOf(l, phrase)[g]] = [g \in 1..Groups |-> key[g]]
    BY <1>8
  <2>4. QED
    BY <2>1, <2>2, <2>3
<1>10. QED
  BY <1>2, <1>3, <1>6, <1>8, <1>9 DEF phrase

--------------------------------------------------------------------------------
\* A seed that was written is the phrase of its key, and SeedReadBack.
Written ==
    seed.is = "written" =>
        /\ seed.key \in Keys /\ seed.language \in Tried
        /\ seed.sums \in [PrefixLengths -> 0..(SEED_LENGTH - 1)]
        /\ seed.phrase = Phrase(seed.key, seed.language, seed.sums[LANGUAGES[seed.language].prefix_length])

SeedInv == Written /\ (seed = NoSeed => restored = NoSeed) /\ SeedReadBack

LEMMA WriteKeeps ==
    ASSUME SeedInv, NEW key \in Keys, NEW l \in Tried, NEW sums \in [PrefixLengths -> 0..(SEED_LENGTH - 1)],
           key_to_words(key, l, sums)
    PROVE  SeedInv'
<1>1. restored' = NoSeed /\ seed' # NoSeed
  BY DEF SeedInv, key_to_words, NoSeed
<1>2. Written'
  BY DEF key_to_words, Written
<1>3. QED
  BY <1>1, <1>2 DEF SeedInv, SeedReadBack

LEMMA TypeKeeps ==
    ASSUME SeedInv, NEW phrase, NEW sums, Type(phrase, sums)
    PROVE  SeedInv'
<1>1. restored' = NoSeed /\ seed' # NoSeed /\ seed'.is = "typed"
  BY DEF SeedInv, Type, NoSeed
<1>2. QED
  BY <1>1 DEF SeedInv, SeedReadBack, Written

LEMMA ReadKeeps ==
    ASSUME SeedInv, words_to_key
    PROVE  SeedInv'
<1>0. CASE seed.is # "written"
  BY <1>0 DEF words_to_key, SeedInv, SeedReadBack, Written
<1> SUFFICES ASSUME seed.is = "written" PROVE SeedInv'
  BY <1>0
<1> DEFINE own == seed.language
           phrase == seed.phrase
           sum == seed.sums[LANGUAGES[own].prefix_length]
<1>1. seed # NoSeed /\ seed' = seed
  BY DEF words_to_key
<1>2. /\ seed.key \in Keys /\ own \in Tried /\ phrase = Phrase(seed.key, own, sum)
      /\ sum \in 0..(SEED_LENGTH - 1)
  BY <1>1 DEF SeedInv, Written, PrefixLengths
<1>3. /\ DOMAIN phrase = 0..SEED_LENGTH /\ Knows(own, phrase) /\ KeyOf(own, phrase) = seed.key
      /\ phrase[sum] = phrase[SEED_LENGTH] /\ \A g \in 1..Groups : Sane(own, phrase, g)
  BY <1>2, OwnLanguage
<1>4. ASSUME \A l \in Tried : l < own => ~Knows(l, phrase)
      PROVE  restored' = [is |-> "key", key |-> seed.key]
  <2>1. IsFirst(own, phrase)
    <3>1. \A k \in Tried : k \in Int
      BY MnemonicAssumption DEF Tried
    <3>2. ASSUME NEW k \in Tried, Knows(k, phrase)
          PROVE  own <= k
      <4>1. ~(k < own) BY <1>4, <3>2
      <4>2. k \in Int /\ own \in Int BY <1>2, <3>1
      <4>3. QED BY <4>1, <4>2
    <3>3. QED BY <1>3, <3>2 DEF IsFirst
  <2>2. \A l \in Tried : IsFirst(l, phrase) => l = own
    BY <1>2, <2>1, MnemonicAssumption DEF IsFirst, Tried
  <2>3. (CHOOSE l \in Tried : IsFirst(l, phrase)) = own
    BY <1>2, <2>1, <2>2
  <2>4. \E l \in Tried : Knows(l, phrase)
    BY <1>2, <1>3
  <2>5. Readable(phrase, seed.sums)
    BY <1>2, <1>3, <2>3, <2>4 DEF Readable
  <2>6. QED
    BY <1>3, <2>3, <2>5 DEF words_to_key
<1>5. SeedReadBack'
  BY <1>1, <1>4 DEF SeedReadBack, Knows
<1>6. QED
  BY <1>1, <1>5 DEF SeedInv, Written

\* In every reachable state what was read of a seed a wallet wrote is its key, unless a language that is tried
\* before the one it was written in has all its words: words_to_key undoes key_to_words.
THEOREM SeedsReadBack == SeedSpec => []SeedReadBack
<1>1. InitSeeds => SeedInv
  BY DEF InitSeeds, SeedInv, Written, SeedReadBack, NoSeed
<1>2. SeedInv /\ [NextSeeds]_seedVars => SeedInv'
  <2>1. ASSUME SeedInv, UNCHANGED seedVars PROVE SeedInv'
    BY <2>1 DEF SeedInv, Written, SeedReadBack, seedVars, Knows
  <2>2. QED
    BY <2>1, WriteKeeps, TypeKeeps, ReadKeeps DEF NextSeeds
<1>3. SeedInv => SeedReadBack
  BY DEF SeedInv
<1>4. QED
  BY <1>1, <1>2, <1>3, PTL DEF SeedSpec
===============================================================================
