----------------------------- MODULE RamProofs -----------------------------
(***************************************************************************)
(* Proofs about the allocator (MiniRam) as Cth runs it, for every size of  *)
(* the RAM and of the floats.  Inv says of each link, list, id and sum     *)
(* what the functions of the class leave behind.                           *)
(***************************************************************************)
EXTENDS Cth, FiniteSetTheorems, TLAPS

-----------------------------------------------------------------------------
(* Induction.                                                              *)

\* Induction, said of a set of numbers.
LEMMA InductionOnNat ==
  ASSUME NEW T, T \subseteq Nat, 0 \in T, \A n \in T : n + 1 \in T
  PROVE  T = Nat
<1> DEFINE R == OpToRel(<, Nat)
<1>1. IsWellFoundedOn(R, Nat)
  BY NatLessThanWellFounded
<1>2. \A x, y \in Nat : x < y => <<x, y>> \in R
  BY DEF OpToRel
<1> HIDE DEF R
<1>3. ASSUME Nat \ T # {} PROVE FALSE
  <2>1. PICK x \in Nat \ T : \A y \in Nat \ T : ~(<<y, x>> \in R)
    BY <1>1, <1>3, WFMin
  <2>2. x # 0 /\ x - 1 \in Nat /\ x - 1 < x
    OBVIOUS
  <2>3. x - 1 \in T
    BY <1>2, <2>1, <2>2
  <2> QED BY <2>1, <2>2, <2>3
<1> QED BY <1>3

Steps(S, N) == [1 .. N -> [S -> S]]

IsRun(w, S, N, first, step) ==
  /\ w \in [0 .. N -> S]
  /\ \A n \in 0 .. N : w[n] = IF n = 0 THEN first ELSE step[n][w[n - 1]]

\* Steps on S can be taken one after the other.
LEMMA Repeated ==
  ASSUME NEW S, NEW N \in Nat, NEW first \in S, NEW step \in Steps(S, N)
  PROVE  \E w : IsRun(w, S, N, first, step)
<1> USE DEF Steps
<1> DEFINE Fits(m, w) ==
             \A n \in 0 .. m : w[n] = IF n = 0 THEN first ELSE step[n][w[n - 1]]
           T == { m \in Nat : m <= N => \E w \in [0 .. m -> S] : Fits(m, w) }
<1>1. 0 \in T
  <2> DEFINE w == [n \in 0 .. 0 |-> first]
  <2>1. w \in [0 .. 0 -> S] /\ Fits(0, w)
    OBVIOUS
  <2> QED BY <2>1
<1>2. ASSUME NEW m \in T PROVE m + 1 \in T
  <2>1. m \in Nat /\ m + 1 \in Nat
    OBVIOUS
  <2> SUFFICES ASSUME m + 1 <= N
               PROVE  \E w \in [0 .. m + 1 -> S] : Fits(m + 1, w)
    BY <2>1
  <2>2. PICK v \in [0 .. m -> S] : Fits(m, v)
    BY <2>1
  <2>3. m \in 0 .. m /\ m + 1 \in 1 .. N
    BY <2>1
  <2>4. PICK p \in S : p = step[m + 1][v[m]]
    <3>1. v[m] \in S
      BY <2>2, <2>3
    <3>2. step[m + 1] \in [S -> S]
      BY <2>3, <3>1
    <3> QED BY <3>2
  <2> DEFINE w == [n \in 0 .. m + 1 |-> IF n = m + 1 THEN p ELSE v[n]]
  <2>5. w \in [0 .. m + 1 -> S]
    BY <2>1
  <2>6. w[m + 1] = p /\ \A n \in 0 .. m : w[n] = v[n]
    BY <2>1
  <2> HIDE DEF w
  <2>7. ASSUME NEW n \in 0 .. m + 1
        PROVE  w[n] = IF n = 0 THEN first ELSE step[n][w[n - 1]]
    <3>1. CASE n = m + 1
      <4>1. n # 0 /\ n - 1 = m
        BY <2>1, <3>1
      <4> QED BY <2>3, <2>4, <2>6, <3>1, <4>1
    <3>2. CASE n # m + 1
      <4>1. n \in 0 .. m /\ (n # 0 => n - 1 \in 0 .. m)
        BY <2>1, <3>2
      <4> QED BY <2>2, <2>6, <4>1
    <3> QED BY <3>1, <3>2
  <2> QED BY <2>5, <2>7
<1>3. N \in T
  <2>1. T \subseteq Nat
    OBVIOUS
  <2> HIDE DEF T
  <2> QED BY <1>1, <1>2, <2>1, InductionOnNat
<1> QED BY <1>3 DEF IsRun

\* What holds at first and is kept by each step holds up to the last.
LEMMA UpTo ==
  ASSUME NEW N \in Nat, NEW T \in SUBSET (0 .. N), 0 \in T,
         \A n \in 1 .. N : n - 1 \in T => n \in T
  PROVE  T = 0 .. N
<1> DEFINE U == { n \in Nat : n <= N => n \in T }
<1>1. 0 \in U
  OBVIOUS
<1>2. ASSUME NEW n \in U PROVE n + 1 \in U
  <2> SUFFICES ASSUME n + 1 <= N PROVE n + 1 \in T
    OBVIOUS
  <2>1. n \in Nat /\ n \in T /\ n + 1 \in 1 .. N /\ (n + 1) - 1 = n
    OBVIOUS
  <2> QED BY <2>1
<1>3. U = Nat
  <2>1. U \subseteq Nat
    OBVIOUS
  <2> HIDE DEF U
  <2> QED BY <1>1, <1>2, <2>1, InductionOnNat
<1>4. \A n \in 0 .. N : n \in U /\ n <= N
  BY <1>3
<1>5. \A n \in 0 .. N : n \in T
  BY <1>4
<1> HIDE DEF U
<1> QED BY <1>5

-----------------------------------------------------------------------------
(* Powers of two.                                                          *)

LEMMA PowerIs ==
  ASSUME NEW n \in Nat
  PROVE  \E p \in [0 .. n -> Nat \ {0}] :
           /\ Ram!Power(n) = p[n]
           /\ \A k \in 0 .. n : p[k] = IF k = 0 THEN 1 ELSE 2 * p[k - 1]
<1> DEFINE P == Nat \ {0}
           IsPower(w) == w = [k \in 0 .. n |-> IF k = 0 THEN 1 ELSE 2 * w[k - 1]]
           power == CHOOSE w : IsPower(w)
<1>1. PICK v \in [0 .. n -> P] : \A k \in 0 .. n : v[k] = IF k = 0 THEN 1 ELSE 2 * v[k - 1]
  <2> DEFINE step == [k \in 1 .. n |-> [x \in P |-> 2 * x]]
  <2>1. step \in Steps(P, n) /\ \A k \in 1 .. n : \A x \in P : step[k][x] = 2 * x
    BY DEF Steps
  <2> HIDE DEF step
  <2>2. PICK a \in P : a = 1
    OBVIOUS
  <2>3. PICK s \in Steps(P, n) : s = step
    BY <2>1
  <2> HIDE DEF P
  <2>4. PICK v : IsRun(v, P, n, a, s)
    BY Repeated
  <2>5. v \in [0 .. n -> P]
    BY <2>4 DEF IsRun
  <2>6. ASSUME NEW k \in 0 .. n, k # 0 PROVE v[k] = 2 * v[k - 1]
    <3>1. k \in 1 .. n /\ k - 1 \in 0 .. n
      BY <2>6
    <3>2. v[k] = s[k][v[k - 1]]
      BY <2>4, <2>6 DEF IsRun
    <3> QED BY <2>1, <2>3, <2>5, <3>1, <3>2
  <2>7. \A k \in 0 .. n : k = 0 => v[k] = 1
    BY <2>2, <2>4 DEF IsRun
  <2> QED BY <2>5, <2>6, <2>7
<1>2. IsPower(v)
  <2>1. v = [k \in 0 .. n |-> v[k]]
    OBVIOUS
  <2> HIDE DEF P
  <2> QED BY <1>1, <2>1, Zenon
<1>3. Ram!Power(n) = power[n]
  BY DEF Ram!Power
<1>4. IsPower(power)
  <2> HIDE DEF IsPower
  <2> QED BY <1>2
<1> HIDE DEF power
<1>5. \A k \in 0 .. n : power[k] = IF k = 0 THEN 1 ELSE 2 * power[k - 1]
  BY <1>4, Zenon
<1> DEFINE T == { k \in 0 .. n : power[k] \in P }
<1>6. T = 0 .. n
  <2>1. T \in SUBSET (0 .. n) /\ 0 \in T
    BY <1>5
  <2>2. ASSUME NEW k \in 1 .. n, k - 1 \in T PROVE k \in T
    <3>1. k \in 0 .. n /\ k # 0 /\ power[k] = 2 * power[k - 1]
      BY <1>5
    <3> QED BY <2>2, <3>1
  <2> HIDE DEF T
  <2> QED BY <2>1, <2>2, UpTo
<1>7. power \in [0 .. n -> P]
  <2>1. power = [k \in 0 .. n |-> power[k]]
    BY <1>4
  <2>2. \A k \in 0 .. n : power[k] \in P
    BY <1>6
  <2> HIDE DEF P
  <2> QED BY <2>1, <2>2
<1> QED BY <1>3, <1>5, <1>7

LEMMA PowerNext ==
  /\ Ram!Power(0) = 1
  /\ \A n \in Nat : Ram!Power(n) \in Nat \ {0} /\ Ram!Power(n + 1) = 2 * Ram!Power(n)
<1>1. Ram!Power(0) = 1
  <2>1. PICK n \in Nat : n = 0
    OBVIOUS
  <2>2. PICK p \in [0 .. n -> Nat \ {0}] :
           /\ Ram!Power(n) = p[n]
           /\ \A k \in 0 .. n : p[k] = IF k = 0 THEN 1 ELSE 2 * p[k - 1]
    BY PowerIs
  <2> QED BY <2>1, <2>2
<1>2. ASSUME NEW n \in Nat PROVE Ram!Power(n) \in Nat \ {0} /\ Ram!Power(n + 1) = 2 * Ram!Power(n)
  <2>1. PICK p \in [0 .. n -> Nat \ {0}] :
           /\ Ram!Power(n) = p[n]
           /\ \A k \in 0 .. n : p[k] = IF k = 0 THEN 1 ELSE 2 * p[k - 1]
    BY PowerIs
  <2>0. PICK m \in Nat : m = n + 1
    OBVIOUS
  <2>2. PICK q \in [0 .. m -> Nat \ {0}] :
           /\ Ram!Power(m) = q[m]
           /\ \A k \in 0 .. m : q[k] = IF k = 0 THEN 1 ELSE 2 * q[k - 1]
    BY PowerIs
  <2> DEFINE T == { k \in 0 .. n : q[k] = p[k] }
  <2>3. T = 0 .. n
    <3>1. T \in SUBSET (0 .. n) /\ 0 \in T
      BY <2>0, <2>1, <2>2
    <3>2. ASSUME NEW k \in 1 .. n, k - 1 \in T PROVE k \in T
      <4>1. k \in 0 .. n /\ k # 0 /\ k \in 0 .. m
        BY <2>0
      <4> QED BY <2>1, <2>2, <3>2, <4>1
    <3> HIDE DEF T
    <3> QED BY <3>1, <3>2, UpTo
  <2>4. n \in 0 .. n /\ m \in 0 .. m /\ m # 0 /\ m - 1 = n
    BY <2>0
  <2>5. q[n] = p[n]
    BY <2>3, <2>4
  <2>6. Ram!Power(m) = 2 * Ram!Power(n)
    BY <2>1, <2>2, <2>4, <2>5
  <2> QED BY <2>0, <2>1, <2>4, <2>6
<1> QED BY <1>1, <1>2

LEMMA PowerGrows ==
  ASSUME NEW m \in Nat, NEW n \in Nat, m < n
  PROVE  Ram!Power(m) < Ram!Power(n)
<1> DEFINE T == { d \in Nat : Ram!Power(m) < Ram!Power(m + d + 1) }
<1>1. 0 \in T
  BY PowerNext
<1>2. ASSUME NEW d \in T PROVE d + 1 \in T
  <2>1. PICK k \in Nat : k = m + d + 1
    OBVIOUS
  <2>2. Ram!Power(k + 1) = 2 * Ram!Power(k) /\ Ram!Power(k) \in Nat \ {0} /\ Ram!Power(m) \in Nat
    BY PowerNext
  <2>3. m + (d + 1) + 1 = k + 1
    BY <2>1
  <2> QED BY <2>1, <2>2, <2>3
<1>3. T = Nat
  <2>1. T \subseteq Nat
    OBVIOUS
  <2> HIDE DEF T
  <2> QED BY <1>1, <1>2, <2>1, InductionOnNat
<1>4. n - m - 1 \in Nat /\ m + (n - m - 1) + 1 = n
  OBVIOUS
<1>5. n - m - 1 \in T
  BY <1>3, <1>4
<1> QED BY <1>4, <1>5

LEMMA PowerSum ==
  ASSUME NEW m \in Nat, NEW n \in Nat
  PROVE  Ram!Power(m + n) = Ram!Power(m) * Ram!Power(n)
<1> DEFINE T == { d \in Nat : Ram!Power(m + d) = Ram!Power(m) * Ram!Power(d) }
<1>1. 0 \in T
  BY PowerNext
<1>2. ASSUME NEW d \in T PROVE d + 1 \in T
  <2>1. PICK k \in Nat : k = m + d
    OBVIOUS
  <2>2. PICK p \in Nat, q \in Nat, r \in Nat : p = Ram!Power(m) /\ q = Ram!Power(d) /\ r = Ram!Power(k)
    BY PowerNext
  <2>3. Ram!Power(k + 1) = 2 * r /\ Ram!Power(d + 1) = 2 * q
    BY <2>2, PowerNext
  <2>4. r = p * q /\ 2 * r = p * (2 * q)
    BY <2>1, <2>2
  <2>5. m + (d + 1) = k + 1
    BY <2>1
  <2>6. Ram!Power(m + (d + 1)) = Ram!Power(m) * Ram!Power(d + 1)
    BY <2>2, <2>3, <2>4, <2>5
  <2> QED BY <2>6
<1>3. T = Nat
  <2>1. T \subseteq Nat
    OBVIOUS
  <2> HIDE DEF T
  <2> QED BY <1>1, <1>2, <2>1, InductionOnNat
<1> QED BY <1>3

LEMMA Highest ==
  ASSUME NEW n \in Nat, n # 0
  PROVE  /\ Ram!HighestBit(n) \in Nat
         /\ Ram!Power(Ram!HighestBit(n)) <= n /\ n < Ram!Power(Ram!HighestBit(n) + 1)
<1> DEFINE IsHighest(k, b) == Ram!Power(b) <= k /\ k < Ram!Power(b + 1)
           T == { k \in Nat : \E b \in 0 .. k + 1 : IsHighest(k + 1, b) }
<1>1. 0 \in T
  <2>1. IsHighest(0 + 1, 0)
    BY PowerNext
  <2> QED BY <2>1
<1>2. ASSUME NEW k \in T PROVE k + 1 \in T
  <2>1. PICK b \in 0 .. k + 1 : IsHighest(k + 1, b)
    OBVIOUS
  <2>2. b \in Nat /\ b + 1 \in Nat /\ k \in Nat
    OBVIOUS
  <2>3. PICK p \in Nat \ {0} : p = Ram!Power(b + 1) /\ Ram!Power(b) \in Nat /\ Ram!Power((b + 1) + 1) = 2 * p
    BY <2>2, PowerNext
  <2>4. CASE k + 2 < p
    <3>1. IsHighest((k + 1) + 1, b) /\ b \in 0 .. (k + 1) + 1
      BY <2>1, <2>2, <2>3, <2>4
    <3> QED BY <3>1
  <2>5. CASE k + 2 = p
    <3>1. IsHighest((k + 1) + 1, b + 1) /\ b + 1 \in 0 .. (k + 1) + 1
      BY <2>1, <2>2, <2>3, <2>5
    <3> QED BY <3>1
  <2> QED BY <2>1, <2>2, <2>3, <2>4, <2>5
<1>3. T = Nat
  <2>1. T \subseteq Nat
    OBVIOUS
  <2> HIDE DEF T
  <2> QED BY <1>1, <1>2, <2>1, InductionOnNat
<1>4. n - 1 \in Nat /\ (n - 1) + 1 = n
  OBVIOUS
<1>5. \E b \in 0 .. n : IsHighest(n, b)
  <2>1. n - 1 \in T
    BY <1>3, <1>4
  <2> QED BY <1>4, <2>1
<1>6. Ram!HighestBit(n) = CHOOSE b \in 0 .. n : IsHighest(n, b)
  BY DEF Ram!HighestBit
<1>7. Ram!HighestBit(n) \in 0 .. n /\ IsHighest(n, Ram!HighestBit(n))
  <2> HIDE DEF IsHighest
  <2> QED BY <1>5, <1>6
<1> QED BY <1>7

-----------------------------------------------------------------------------
(* Floats.                                                                 *)

LEMMA Mantissa ==
  ASSUME Ram!MiniRamAssumption
  PROVE  Ram!MantissaValue \in Nat /\ Ram!MantissaValue >= 2
<1>1. MantissaBits \in Nat /\ 0 < MantissaBits
  BY DEF Ram!MiniRamAssumption
<1>2. Ram!Power(0) < Ram!Power(MantissaBits) /\ Ram!Power(MantissaBits) \in Nat
  BY <1>1, PowerGrows, PowerNext
<1> QED BY <1>2, PowerNext DEF Ram!MantissaValue

LEMMA DivMod ==
  ASSUME NEW a \in Nat \ {0}, NEW q \in Nat, NEW r \in 0 .. a - 1, NEW m, m = a * q + r
  PROVE  m \in Nat /\ m \div a = q /\ m % a = r
<1>1. a * q \in Nat /\ m \in Nat
  OBVIOUS
<1>2. m \div a \in Nat /\ m % a \in 0 .. a - 1 /\ m = a * (m \div a) + (m % a)
  BY <1>1
<1>3. PICK d \in Nat, s \in 0 .. a - 1 : d = m \div a /\ s = m % a /\ m = a * d + s
  BY <1>2
<1>4. ASSUME NEW x \in Nat, NEW y \in Nat, NEW v \in 0 .. a - 1, NEW w \in 0 .. a - 1,
             a * x + v = a * y + w
      PROVE  ~(x < y)
  <2> SUFFICES ASSUME x < y PROVE FALSE
    OBVIOUS
  <2>1. PICK z \in Nat : y = (x + z) + 1
    <3>1. y - x - 1 \in Nat /\ y = (x + (y - x - 1)) + 1
      OBVIOUS
    <3> QED BY <3>1
  <2>2. a * y = (a * x + a * z) + a /\ a * x \in Nat /\ a * z \in Nat
    BY <2>1
  <2> QED BY <1>4, <2>2
<1>5. ~(q < d) /\ ~(d < q)
  BY <1>3, <1>4
<1>6. q = d
  BY <1>5
<1> QED BY <1>1, <1>3, <1>6

\* A float of e turns of the mantissa and a rest q.
LEMMA ToUintOf ==
  ASSUME Ram!MiniRamAssumption, NEW e \in Nat, NEW q \in Nat,
         Ram!MantissaValue <= q, q <= 2 * Ram!MantissaValue
  PROVE  Ram!ToUint(e * Ram!MantissaValue + q) = q * Ram!Power(e)
<1>1. PICK M \in Nat : M = Ram!MantissaValue /\ M >= 2
  BY Mantissa
<1>2. ASSUME NEW d \in Nat, NEW r \in Nat, M <= r, r < 2 * M
      PROVE  Ram!ToUint(d * M + r) = r * Ram!Power(d)
  <2>1. PICK x \in Nat : x = d * M
    OBVIOUS
  <2>2. PICK f \in Nat : f = x + r
    BY <2>1
  <2>3. f = M * (d + 1) + (r - M) /\ r - M \in 0 .. M - 1
    BY <1>1, <1>2, <2>1, <2>2
  <2>4. f \div M = d + 1 /\ f % M = r - M
    <3>1. PICK g \in Nat, t \in 0 .. M - 1 : g = d + 1 /\ t = r - M
      BY <2>3
    <3>2. M \in Nat \ {0} /\ f = M * g + t
      BY <1>1, <2>3, <3>1
    <3>3. f \div M = g /\ f % M = t
      BY <3>2, DivMod
    <3> QED BY <3>1, <3>3
  <2>5. ~(f < M)
    BY <1>1, <1>2, <2>1, <2>2
  <2>6. Ram!ToUint(f) = ((r - M) + M) * Ram!Power((d + 1) - 1)
    BY <1>1, <2>4, <2>5 DEF Ram!ToUint
  <2>7. (r - M) + M = r /\ (d + 1) - 1 = d
    BY <1>1
  <2> QED BY <2>1, <2>2, <2>6, <2>7
<1>3. CASE q < 2 * M
  BY <1>1, <1>2, <1>3
<1>4. CASE q = 2 * M
  <2>1. Ram!ToUint((e + 1) * M + M) = M * Ram!Power(e + 1)
    BY <1>1, <1>2
  <2>2. PICK p \in Nat : p = Ram!Power(e) /\ Ram!Power(e + 1) = 2 * p
    BY PowerNext
  <2>3. (e + 1) * M + M = e * M + q /\ M * (2 * p) = q * p
    BY <1>1, <1>4, <2>2
  <2> QED BY <1>1, <2>1, <2>2, <2>3
<1> QED BY <1>1, <1>3, <1>4

LEMMA ToUintBelow ==
  ASSUME NEW f \in Nat, f < Ram!MantissaValue
  PROVE  Ram!ToUint(f) = f
  BY DEF Ram!ToUint

LEMMA ToUintNext ==
  ASSUME Ram!MiniRamAssumption, NEW f \in Nat
  PROVE  Ram!ToUint(f) \in Nat /\ Ram!ToUint(f) < Ram!ToUint(f + 1)
<1>1. PICK M \in Nat : M = Ram!MantissaValue /\ M >= 2
  BY Mantissa
<1>2. CASE f + 1 < M
  BY <1>1, <1>2, ToUintBelow
<1>3. CASE f + 1 = M
  <2>1. Ram!ToUint(0 * M + M) = M * Ram!Power(0)
    BY <1>1, ToUintOf
  <2>2. f + 1 = 0 * M + M /\ M * 1 = M
    BY <1>1, <1>3
  <2>3. Ram!ToUint(f + 1) = M
    BY <2>1, <2>2, PowerNext
  <2>4. Ram!ToUint(f) = f
    BY <1>1, <1>3, ToUintBelow
  <2> QED BY <1>3, <2>3, <2>4
<1>4. CASE M <= f
  <2>1. PICK e \in Nat, q \in Nat : f = e * M + q /\ M <= q /\ q < 2 * M
    <3>1. (f - M) \div M \in Nat /\ (f - M) % M \in 0 .. M - 1
          /\ f - M = M * ((f - M) \div M) + ((f - M) % M)
      BY <1>1, <1>4
    <3>4. PICK e \in Nat : e = (f - M) \div M
      BY <3>1
    <3>5. PICK r \in Nat : r = (f - M) % M
      BY <3>1
    <3>2. f - M = M * e + r /\ r < M
      BY <1>1, <3>1, <3>4, <3>5
    <3>3. f = e * M + (r + M) /\ r + M \in Nat /\ M <= r + M /\ r + M < 2 * M
      BY <1>1, <3>2
    <3> QED BY <3>3
  <2>2. PICK p \in Nat \ {0} : p = Ram!Power(e)
    BY PowerNext
  <2>3. Ram!ToUint(f) = q * p
    BY <1>1, <2>1, <2>2, ToUintOf
  <2>4. Ram!ToUint(f + 1) = (q + 1) * p
    <3>1. f + 1 = e * M + (q + 1) /\ M <= q + 1 /\ q + 1 <= 2 * M /\ q + 1 \in Nat
      BY <1>1, <2>1
    <3>2. Ram!ToUint(e * M + (q + 1)) = (q + 1) * Ram!Power(e)
      BY <1>1, <3>1, ToUintOf
    <3> QED BY <2>2, <3>1, <3>2
  <2>5. q * p \in Nat /\ q * p < (q + 1) * p
    BY <2>1, <2>2
  <2> QED BY <2>3, <2>4, <2>5
<1> QED BY <1>1, <1>2, <1>3, <1>4

LEMMA ToUintGrows ==
  ASSUME Ram!MiniRamAssumption, NEW f \in Nat, NEW g \in Nat
  PROVE  f < g <=> Ram!ToUint(f) < Ram!ToUint(g)
<1>1. ASSUME NEW x \in Nat, NEW y \in Nat, x < y PROVE Ram!ToUint(x) < Ram!ToUint(y)
  <2> DEFINE T == { d \in Nat : Ram!ToUint(x) < Ram!ToUint(x + d + 1) }
  <2>1. 0 \in T
    BY ToUintNext
  <2>2. ASSUME NEW d \in T PROVE d + 1 \in T
    <3>1. PICK k \in Nat : k = x + d + 1
      OBVIOUS
    <3>2. Ram!ToUint(k) < Ram!ToUint(k + 1) /\ Ram!ToUint(k) \in Nat /\ Ram!ToUint(x) \in Nat
      BY ToUintNext
    <3>3. k + 1 \in Nat /\ x + (d + 1) + 1 = k + 1
      BY <3>1
    <3>4. Ram!ToUint(k + 1) \in Nat
      BY <3>3, ToUintNext
    <3>5. Ram!ToUint(x) < Ram!ToUint(k)
      BY <3>1
    <3> QED BY <3>2, <3>3, <3>4, <3>5
  <2>3. T = Nat
    <3>1. T \subseteq Nat
      OBVIOUS
    <3> HIDE DEF T
    <3> QED BY <2>1, <2>2, <3>1, InductionOnNat
  <2>4. y - x - 1 \in Nat /\ x + (y - x - 1) + 1 = y
    BY <1>1
  <2>5. y - x - 1 \in T
    BY <2>3, <2>4
  <2> QED BY <2>4, <2>5
<1>2. Ram!ToUint(f) \in Nat /\ Ram!ToUint(g) \in Nat
  BY ToUintNext
<1>3. CASE f < g
  BY <1>1, <1>3
<1>4. CASE g < f
  BY <1>1, <1>2, <1>4
<1>5. CASE f = g
  BY <1>2, <1>5
<1> QED BY <1>3, <1>4, <1>5

\* A size between two floats: the whole and the rest of its leading bits.
LEMMA Leading ==
  ASSUME Ram!MiniRamAssumption, NEW s \in Nat, Ram!MantissaValue <= s
  PROVE  \E start \in Nat, q \in Nat, p \in Nat \ {0} :
           /\ start = Ram!HighestBit(s) - MantissaBits /\ p = Ram!Power(start)
           /\ q = s \div p /\ Ram!MantissaValue <= q /\ q < 2 * Ram!MantissaValue
           /\ q * p <= s /\ s < (q + 1) * p
           /\ s % p = 0 <=> s = q * p
           /\ q % Ram!MantissaValue = q - Ram!MantissaValue
<1>1. PICK M \in Nat : M = Ram!MantissaValue /\ M >= 2 /\ M = Ram!Power(MantissaBits)
  BY Mantissa DEF Ram!MantissaValue
<1>2. PICK h \in Nat : h = Ram!HighestBit(s) /\ Ram!Power(h) <= s /\ s < Ram!Power(h + 1)
  BY <1>1, Highest
<1>3. MantissaBits \in Nat
  BY DEF Ram!MiniRamAssumption
<1>4. ~(h < MantissaBits)
  <2> SUFFICES ASSUME h < MantissaBits PROVE FALSE
    OBVIOUS
  <2>1. CASE h + 1 = MantissaBits
    BY <1>1, <1>2, <2>1
  <2>2. CASE h + 1 < MantissaBits
    <3>1. h + 1 \in Nat
      OBVIOUS
    <3>2. Ram!Power(h + 1) < Ram!Power(MantissaBits) /\ Ram!Power(h + 1) \in Nat
      BY <1>3, <2>2, <3>1, PowerGrows, PowerNext
    <3> QED BY <1>1, <1>2, <3>2
  <2> QED BY <1>3, <2>1, <2>2
<1>5. PICK start \in Nat : start = h - MantissaBits
  BY <1>3, <1>4
<1>6. PICK p \in Nat \ {0} : p = Ram!Power(start)
  BY PowerNext
<1>7. Ram!Power(h) = M * p /\ Ram!Power(h + 1) = 2 * (M * p)
  <2>1. Ram!Power(MantissaBits + start) = M * p
    BY <1>1, <1>3, <1>6, PowerSum
  <2>2. MantissaBits + start = h
    BY <1>3, <1>5
  <2> QED BY <2>1, <2>2, PowerNext
<1>8. s \div p \in Nat /\ s % p \in 0 .. p - 1 /\ s = p * (s \div p) + (s % p)
  OBVIOUS
<1>9. PICK q \in Nat : q = s \div p
  BY <1>8
<1>10. PICK t \in 0 .. p - 1 : t = s % p
  BY <1>8
<1>11. s = p * q + t /\ p * q \in Nat
  BY <1>8, <1>9, <1>10
<1>12. M <= q
  <2> SUFFICES ASSUME q < M PROVE FALSE
    BY <1>1
  <2>1. PICK d \in Nat : M = (q + d) + 1
    <3>1. M - q - 1 \in Nat /\ M = (q + (M - q - 1)) + 1
      OBVIOUS
    <3> QED BY <3>1
  <2>2. M * p = (p * q + d * p) + p /\ d * p \in Nat
    BY <2>1
  <2> QED BY <1>2, <1>7, <1>10, <1>11, <2>2
<1>13. q < 2 * M
  <2> SUFFICES ASSUME 2 * M <= q PROVE FALSE
    BY <1>1
  <2>1. PICK d \in Nat : q = 2 * M + d
    <3>1. q - 2 * M \in Nat /\ q = 2 * M + (q - 2 * M)
      OBVIOUS
    <3> QED BY <3>1
  <2>2. p * q = 2 * (M * p) + d * p /\ d * p \in Nat
    BY <2>1
  <2> QED BY <1>2, <1>7, <1>10, <1>11, <2>2
<1>14. q * p = p * q /\ (q + 1) * p = p * q + p
  OBVIOUS
<1>15. q % M = q - M
  <2>1. PICK u \in 0 .. M - 1, one \in Nat : u = q - M /\ one = 1
    BY <1>12, <1>13
  <2>2. M \in Nat \ {0} /\ q = M * one + u
    BY <1>1, <2>1
  <2>3. q % M = u
    BY <2>2, DivMod
  <2> QED BY <2>1, <2>3
<1>16. /\ start = Ram!HighestBit(s) - MantissaBits /\ p = Ram!Power(start)
       /\ q = s \div p /\ Ram!MantissaValue <= q /\ q < 2 * Ram!MantissaValue
       /\ q % Ram!MantissaValue = q - Ram!MantissaValue
  BY <1>1, <1>2, <1>5, <1>6, <1>9, <1>12, <1>13, <1>15
<1>17. q * p <= s /\ s < (q + 1) * p /\ (t = 0 <=> s = q * p)
  BY <1>10, <1>11, <1>14
<1>18. s % p = 0 <=> s = q * p
  BY <1>10, <1>17
<1> QED BY <1>16, <1>17, <1>18

\* A bin holds the sizes from its own up to that of the next.
LEMMA FloorBetween ==
  ASSUME Ram!MiniRamAssumption, NEW s \in Nat
  PROVE  /\ Ram!FloorToFloat(s) \in Nat
         /\ Ram!ToUint(Ram!FloorToFloat(s)) <= s /\ s < Ram!ToUint(Ram!FloorToFloat(s) + 1)
         /\ Ram!CeilToFloat(s) = IF Ram!ToUint(Ram!FloorToFloat(s)) = s THEN Ram!FloorToFloat(s)
                                 ELSE Ram!FloorToFloat(s) + 1
<1>1. CASE s < Ram!MantissaValue
  <2>1. Ram!FloorToFloat(s) = s /\ Ram!CeilToFloat(s) = s
    BY <1>1 DEF Ram!FloorToFloat, Ram!CeilToFloat
  <2>2. Ram!ToUint(s) = s /\ Ram!ToUint(s) < Ram!ToUint(s + 1)
    BY <1>1, ToUintBelow, ToUintNext
  <2> QED BY <2>1, <2>2
<1>2. CASE Ram!MantissaValue <= s
  <2>1. PICK start \in Nat, q \in Nat, p \in Nat \ {0} :
           /\ start = Ram!HighestBit(s) - MantissaBits /\ p = Ram!Power(start)
           /\ q = s \div p /\ Ram!MantissaValue <= q /\ q < 2 * Ram!MantissaValue
           /\ q * p <= s /\ s < (q + 1) * p
           /\ s % p = 0 <=> s = q * p
           /\ q % Ram!MantissaValue = q - Ram!MantissaValue
    BY <1>2, Leading
  <2>2. PICK M \in Nat : M = Ram!MantissaValue /\ M >= 2 /\ ~(s < M)
    BY <1>2, Mantissa
  <2>3. (start + 1) * M + (q - M) = start * M + q /\ start * M \in Nat
    BY <2>1, <2>2
  <2>4. Ram!FloorToFloat(s) = (start + 1) * M + (q - M)
    BY <2>1, <2>2 DEF Ram!FloorToFloat
  <2>5. Ram!CeilToFloat(s) = (start + 1) * M + (q - M) + (IF s % p # 0 THEN 1 ELSE 0)
    BY <2>1, <2>2 DEF Ram!CeilToFloat
  <2>6. PICK f \in Nat : f = start * M + q
    BY <2>3
  <2>7. Ram!FloorToFloat(s) = f /\ Ram!CeilToFloat(s) = IF s % p # 0 THEN f + 1 ELSE f
    BY <2>1, <2>2, <2>3, <2>4, <2>5, <2>6
  <2>8. Ram!ToUint(f) = q * p
    BY <2>1, <2>2, <2>6, ToUintOf
  <2>9. Ram!ToUint(f + 1) = (q + 1) * p
    <3>1. PICK v \in Nat : v = q + 1
      OBVIOUS
    <3>2. Ram!ToUint(start * M + v) = v * p
      BY <2>1, <2>2, <3>1, ToUintOf
    <3>3. f + 1 = start * M + v
      BY <2>3, <2>6, <3>1
    <3> QED BY <3>1, <3>2, <3>3
  <2> QED BY <2>1, <2>7, <2>8, <2>9
<1>3. Ram!MantissaValue \in Nat
  BY Mantissa
<1> QED BY <1>1, <1>2, <1>3

\* Rounding down is the right bin to fill, rounding up the right one to search.
LEMMA FloorIs ==
  ASSUME Ram!MiniRamAssumption, NEW s \in Nat, NEW b \in Nat
  PROVE  /\ b <= Ram!FloorToFloat(s) <=> Ram!ToUint(b) <= s
         /\ Ram!CeilToFloat(s) <= b <=> s <= Ram!ToUint(b)
<1>1. PICK f \in Nat : f = Ram!FloorToFloat(s)
  BY FloorBetween
<1>2. PICK g \in Nat : g = f + 1
  OBVIOUS
<1>3. PICK x \in Nat, y \in Nat, z \in Nat : x = Ram!ToUint(f) /\ y = Ram!ToUint(g) /\ z = Ram!ToUint(b)
  BY ToUintNext
<1>4. x <= s /\ s < y /\ Ram!CeilToFloat(s) = IF x = s THEN f ELSE g
  BY <1>1, <1>2, <1>3, FloorBetween
<1>5. f < b <=> x < z
  BY <1>3, ToUintGrows
<1>6. b < g <=> z < y
  BY <1>3, ToUintGrows
<1>7. b < f <=> z < x
  BY <1>3, ToUintGrows
<1>8. g < b <=> y < z
  BY <1>3, ToUintGrows
<1> QED BY <1>1, <1>2, <1>3, <1>4, <1>5, <1>6, <1>7, <1>8

LEMMA InBins ==
  ASSUME Ram!MiniRamAssumption, NEW s \in 0 .. Capacity
  PROVE  Ram!FloorToFloat(s) \in Ram!Bin
<1>1. PICK M \in Nat : M = Ram!MantissaValue /\ M >= 2
  BY Mantissa
<1>2. TopBins \in Nat \ {0} /\ Capacity \in Nat /\ Capacity < Ram!Power(TopBins)
  BY DEF Ram!MiniRamAssumption
<1>3. PICK t \in Nat : t = TopBins - 1
  BY <1>2
<1>4. PICK p \in Nat : p = Ram!Power(t) /\ Ram!Power(TopBins) = 2 * p
  BY <1>2, <1>3, PowerNext
<1>5. PICK b \in Nat : b = TopBins * M
  BY <1>2
<1>6. Ram!ToUint(b) = M * p
  <2>1. Ram!ToUint(t * M + M) = M * p
    BY <1>1, <1>4, ToUintOf
  <2>2. b = t * M + M
    BY <1>2, <1>3, <1>5
  <2> QED BY <2>1, <2>2
<1>7. 2 * p <= M * p
  <2>1. PICK d \in Nat : M = 2 + d
    <3>1. M - 2 \in Nat /\ M = 2 + (M - 2)
      BY <1>1
    <3> QED BY <3>1
  <2>2. M * p = 2 * p + d * p /\ d * p \in Nat
    BY <2>1
  <2> QED BY <2>2
<1>8. M * p \in Nat /\ s \in Nat /\ s < 2 * p
  BY <1>2, <1>4
<1>9. ~(b <= Ram!FloorToFloat(s))
  BY <1>6, <1>7, <1>8, FloorIs
<1>10. Ram!FloorToFloat(s) \in Nat
  BY <1>8, FloorBetween
<1> QED BY <1>1, <1>5, <1>9, <1>10 DEF Ram!Bin

-----------------------------------------------------------------------------
(* The invariant, said of a record r of n nodes.                           *)

Node ==
  [dataOffset : Nat, dataSize : 0 .. Capacity, binPrev : Int, binNext : Int,
   prev : Int, next : Int, used : BOOLEAN]

Ids(n) == 0 .. n - 1

Shaped(r, n) ==
  r \in [nodes : [Ids(n) -> Node], freeNodes : [Ids(n) -> Ids(n)], sp : 0 .. n,
         maxAllocs : Nat, capacity : {Capacity}, bins : [Ram!Bin -> Int],
         usedBins : SUBSET Ram!Bin, freeStorage : Nat, aborted : {FALSE}]

\* The ids on the stack, and those that are not, as many as it is high.
Above(free, sp, n) == { free[i] : i \in sp .. n - 1 }

StackHolds(free, sp, n) ==
  /\ \A i, j \in sp .. n - 1 : i # j => free[i] # free[j]
  /\ Cardinality(Ids(n) \ Above(free, sp, n)) = sp

\* The lists of the bins hold the nodes of a set H: the links agree in both
\* directions and stay in the bin.
Lists(r, H) ==
  LET node == r.nodes
      BinOf(i) == Ram!FloorToFloat(node[i].dataSize)
  IN /\ r.usedBins = { b \in Ram!Bin : r.bins[b] # Ram!Invalid }
     /\ \A b \in Ram!Bin : r.bins[b] # Ram!Invalid =>
          r.bins[b] \in H /\ BinOf(r.bins[b]) = b /\ node[r.bins[b]].binPrev = Ram!Invalid
     /\ \A i \in H :
          /\ IF node[i].binPrev = Ram!Invalid THEN r.bins[BinOf(i)] = i
             ELSE /\ node[i].binPrev \in H /\ BinOf(node[i].binPrev) = BinOf(i)
                  /\ node[node[i].binPrev].binNext = i
          /\ node[i].binNext # Ram!Invalid =>
               /\ node[i].binNext \in H /\ BinOf(node[i].binNext) = BinOf(i)
               /\ node[node[i].binNext].binPrev = i

\* Along a list a rank grows, so that no list runs in a circle.
Ranked(r, n, H) ==
  \E rank \in [Ids(n) -> Nat] :
    \A i \in H : r.nodes[i].binNext # Ram!Invalid => rank[i] < rank[r.nodes[i].binNext]

\* s sums the weights w.
IsSum(s, w, n) ==
  /\ s \in [0 .. n -> Int] /\ s[0] = 0
  /\ \A k \in 1 .. n : s[k] = s[k - 1] + w[k - 1]

Weights(r) == [i \in DOMAIN r.nodes |-> IF i \in Ram!Holes(r) THEN r.nodes[i].dataSize ELSE 0]

Stored(r, n) == \E s : IsSum(s, Weights(r), n) /\ r.freeStorage = s[n]

\* Nodes L lie one behind the other in the RAM, from the first to its end.
Chain(node, L, first) ==
  /\ first \in L /\ node[first].dataOffset = 0 /\ node[first].prev = Ram!Invalid
  /\ \A i \in L :
       /\ node[i].dataOffset + node[i].dataSize <= Capacity
       /\ node[i].dataSize = 0 => node[i].prev = Ram!Invalid /\ node[i].next = Ram!Invalid
       /\ IF node[i].prev = Ram!Invalid THEN i = first
          ELSE node[i].prev \in L /\ node[node[i].prev].next = i
       /\ IF node[i].next = Ram!Invalid THEN node[i].dataOffset + node[i].dataSize = Capacity
          ELSE /\ node[i].next \in L /\ node[node[i].next].prev = i
               /\ node[node[i].next].dataOffset = node[i].dataOffset + node[i].dataSize
               /\ node[i].used \/ node[node[i].next].used

\* What holds between the calls of the class's own functions...
Core(r, n) ==
  /\ n \in Nat \ {0} /\ Shaped(r, n) /\ StackHolds(r.freeNodes, r.sp, n)
  /\ \A i \in Ids(n) : r.nodes[i].used => i \in Ram!LiveIds(r)
  /\ Lists(r, Ram!Holes(r)) /\ Ranked(r, n, Ram!Holes(r)) /\ Stored(r, n)

\* What the caller holds, as the nodes say it.
HeldBy(r) ==
  { [id |-> i, offset |-> r.nodes[i].dataOffset, size |-> r.nodes[i].dataSize] :
      i \in Ram!LiveIds(r) \ Ram!Holes(r) }

\* ... and between those of the caller.
Whole(r, given, n) ==
  /\ n \in Nat /\ n >= 2 /\ Core(r, n)
  /\ \E first : Chain(r.nodes, Ram!LiveIds(r), first)
  /\ given = HeldBy(r)

Inv == \E n : Whole(ram, allocs, n)

-----------------------------------------------------------------------------
(* The stack of free ids.                                                  *)

\* The allocator and the library count alike.
LEMMA RamCardinality == \A S : Ram!Cardinality(S) = Cardinality(S)
  BY DEF Ram!Cardinality, Cardinality

LEMMA IdsCount ==
  ASSUME NEW n \in Nat
  PROVE  IsFiniteSet(Ids(n)) /\ Cardinality(Ids(n)) = n
<1>1. IsFiniteSet(0 .. n - 1) /\ Cardinality(0 .. n - 1) = IF 0 > n - 1 THEN 0 ELSE (n - 1) - 0 + 1
  <2>1. PICK a \in Int, b \in Int : a = 0 /\ b = n - 1
    OBVIOUS
  <2> QED BY <2>1, FS_Interval
<1> QED BY <1>1 DEF Ids

LEMMA StackPops ==
  ASSUME NEW n \in Nat, NEW sp \in 0 .. n, sp < n, NEW free \in [Ids(n) -> Ids(n)],
         StackHolds(free, sp, n), NEW id, id = free[sp]
  PROVE  /\ id \in Ids(n) /\ id \in Above(free, sp, n)
         /\ Ids(n) \ Above(free, sp + 1, n) = (Ids(n) \ Above(free, sp, n)) \cup {id}
         /\ StackHolds(free, sp + 1, n)
<1> USE DEF Ids, Above
<1>1. id \in Ids(n) /\ id \in Above(free, sp, n)
  OBVIOUS
<1>2. Above(free, sp, n) = Above(free, sp + 1, n) \cup {id}
  <2>1. sp .. n - 1 = ((sp + 1) .. n - 1) \cup {sp}
    OBVIOUS
  <2> QED BY <2>1
<1>3. id \notin Above(free, sp + 1, n)
  <2>1. \A i \in (sp + 1) .. n - 1 : i \in sp .. n - 1 /\ sp \in sp .. n - 1 /\ i # sp
    OBVIOUS
  <2> QED BY <2>1 DEF StackHolds
<1>4. Ids(n) \ Above(free, sp + 1, n) = (Ids(n) \ Above(free, sp, n)) \cup {id}
  BY <1>1, <1>2, <1>3
<1>5. Cardinality(Ids(n) \ Above(free, sp + 1, n)) = sp + 1
  <2>1. IsFiniteSet(Ids(n) \ Above(free, sp, n))
    BY IdsCount, FS_Subset
  <2>2. id \notin Ids(n) \ Above(free, sp, n)
    BY <1>1
  <2>3. Cardinality((Ids(n) \ Above(free, sp, n)) \cup {id}) = Cardinality(Ids(n) \ Above(free, sp, n)) + 1
    BY <2>1, <2>2, FS_AddElement
  <2> QED BY <1>4, <2>3 DEF StackHolds
<1>6. \A i, j \in (sp + 1) .. n - 1 : i # j => free[i] # free[j]
  <2>1. \A i \in (sp + 1) .. n - 1 : i \in sp .. n - 1
    OBVIOUS
  <2> QED BY <2>1 DEF StackHolds
<1> QED BY <1>1, <1>4, <1>5, <1>6 DEF StackHolds

PushedOn(pushed, free, sp, id) == pushed = [free EXCEPT ![sp - 1] = id]

LEMMA StackPushes ==
  ASSUME NEW n \in Nat, NEW sp \in 0 .. n, NEW free \in [Ids(n) -> Ids(n)],
         StackHolds(free, sp, n), NEW id \in Ids(n) \ Above(free, sp, n),
         NEW pushed, PushedOn(pushed, free, sp, id)
  PROVE  /\ sp - 1 \in 0 .. n /\ sp - 1 < n /\ pushed \in [Ids(n) -> Ids(n)]
         /\ pushed[sp - 1] = id
         /\ Ids(n) \ Above(pushed, sp - 1, n) = (Ids(n) \ Above(free, sp, n)) \ {id}
         /\ StackHolds(pushed, sp - 1, n)
<1>1. IsFiniteSet(Ids(n) \ Above(free, sp, n))
  BY IdsCount, FS_Subset
<1>2. /\ Cardinality((Ids(n) \ Above(free, sp, n)) \ {id}) = sp - 1
      /\ Cardinality((Ids(n) \ Above(free, sp, n)) \ {id}) \in Nat
  <2>1. Cardinality((Ids(n) \ Above(free, sp, n)) \ {id}) = Cardinality(Ids(n) \ Above(free, sp, n)) - 1
    BY <1>1, FS_RemoveElement
  <2>2. IsFiniteSet((Ids(n) \ Above(free, sp, n)) \ {id})
    BY <1>1, FS_Subset
  <2> QED BY <2>1, <2>2, FS_CardinalityType DEF StackHolds
<1>3. sp - 1 \in 0 .. n /\ sp - 1 < n /\ sp - 1 \in Ids(n)
  BY <1>2 DEF Ids
<1>4. pushed \in [Ids(n) -> Ids(n)] /\ pushed[sp - 1] = id
      /\ \A i \in sp .. n - 1 : pushed[i] = free[i] /\ i \in Ids(n)
  <2>1. \A i \in sp .. n - 1 : i \in Ids(n) /\ i # sp - 1
    BY DEF Ids
  <2>2. PICK k \in Ids(n) : k = sp - 1
    BY <1>3
  <2>3. pushed = [free EXCEPT ![k] = id] /\ id \in Ids(n)
    BY <2>2 DEF PushedOn
  <2> QED BY <2>1, <2>2, <2>3
<1>5. Above(pushed, sp - 1, n) = Above(free, sp, n) \cup {id}
  <2>1. (sp - 1) .. n - 1 = (sp .. n - 1) \cup {sp - 1}
    BY <1>3
  <2> QED BY <1>4, <2>1 DEF Above
<1>6. \A i, j \in (sp - 1) .. n - 1 : i # j => pushed[i] # pushed[j]
  <2>1. \A i \in (sp - 1) .. n - 1 : i = sp - 1 \/ i \in sp .. n - 1
    BY <1>3
  <2>2. \A i \in sp .. n - 1 : pushed[i] # id
    BY <1>4 DEF Above
  <2> QED BY <1>4, <2>1, <2>2 DEF StackHolds
<1>7. Ids(n) \ Above(pushed, sp - 1, n) = (Ids(n) \ Above(free, sp, n)) \ {id}
  BY <1>5
<1> QED BY <1>2, <1>3, <1>4, <1>6, <1>7 DEF StackHolds

LEMMA StackGrows ==
  ASSUME NEW n \in Nat, NEW m \in Nat, n <= m, NEW sp \in 0 .. n, NEW free \in [Ids(n) -> Ids(n)],
         StackHolds(free, sp, n),
         NEW grown, grown = [i \in Ids(m) |-> IF i \in Ids(n) THEN free[i] ELSE i]
  PROVE  /\ grown \in [Ids(m) -> Ids(m)]
         /\ Ids(m) \ Above(grown, sp, m) = Ids(n) \ Above(free, sp, n)
         /\ StackHolds(grown, sp, m)
<1> USE DEF Ids
<1>1. grown \in [Ids(m) -> Ids(m)]
  OBVIOUS
<1>2. (\A i \in sp .. n - 1 : grown[i] = free[i] /\ free[i] \in Ids(n))
      /\ (\A i \in n .. m - 1 : grown[i] = i)
  OBVIOUS
<1>3. sp .. m - 1 = (sp .. n - 1) \cup (n .. m - 1)
  OBVIOUS
<1>4. Above(grown, sp, m) = Above(free, sp, n) \cup (n .. m - 1)
  BY <1>2, <1>3 DEF Above
<1>5. Ids(m) \ Above(grown, sp, m) = Ids(n) \ Above(free, sp, n)
  <2>1. Ids(m) = Ids(n) \cup (n .. m - 1) /\ Ids(n) \cap (n .. m - 1) = {}
    OBVIOUS
  <2> QED BY <1>4, <2>1
<1>6. ASSUME NEW i \in sp .. m - 1, NEW j \in sp .. m - 1, i # j PROVE grown[i] # grown[j]
  <2>1. CASE i \in sp .. n - 1 /\ j \in sp .. n - 1
    BY <1>2, <1>6, <2>1 DEF StackHolds
  <2>2. CASE i \in n .. m - 1 /\ j \in n .. m - 1
    BY <1>2, <1>6, <2>2
  <2>3. CASE i \in sp .. n - 1 /\ j \in n .. m - 1
    BY <1>2, <2>3
  <2>4. CASE i \in n .. m - 1 /\ j \in sp .. n - 1
    BY <1>2, <2>4
  <2> QED BY <1>3, <2>1, <2>2, <2>3, <2>4
<1> QED BY <1>1, <1>5, <1>6 DEF StackHolds

-----------------------------------------------------------------------------
(* Sums.                                                                   *)

LEMMA SumChanges ==
  ASSUME NEW n \in Nat, NEW w \in [Ids(n) -> Int], NEW s, IsSum(s, w, n), NEW v \in [Ids(n) -> Int],
         NEW i \in Ids(n), \A j \in Ids(n) : j # i => v[j] = w[j]
  PROVE  \E t : IsSum(t, v, n) /\ t[n] = s[n] - w[i] + v[i]
<1> USE DEF Ids
<1> DEFINE t == [k \in 0 .. n |-> IF k <= i THEN s[k] ELSE s[k] - w[i] + v[i]]
<1>1. s \in [0 .. n -> Int] /\ s[0] = 0 /\ \A k \in 1 .. n : s[k] = s[k - 1] + w[k - 1]
  BY DEF IsSum
<1>2. t \in [0 .. n -> Int] /\ t[0] = 0 /\ t[n] = s[n] - w[i] + v[i]
  BY <1>1
<1>3. ASSUME NEW k \in 1 .. n PROVE t[k] = t[k - 1] + v[k - 1]
  <2>1. k \in 0 .. n /\ k - 1 \in 0 .. n /\ k - 1 \in Ids(n)
    OBVIOUS
  <2>2. s[k] = s[k - 1] + w[k - 1] /\ s[k] \in Int /\ s[k - 1] \in Int /\ w[i] \in Int /\ v[i] \in Int
    BY <1>1, <2>1
  <2>3. CASE k <= i
    <3>1. k - 1 # i /\ k - 1 <= i
      BY <2>3
    <3> QED BY <2>1, <2>2, <2>3, <3>1
  <2>4. CASE k = i + 1
    <3>1. k - 1 = i /\ ~(k <= i) /\ k - 1 <= i
      BY <2>4
    <3> QED BY <2>1, <2>2, <3>1
  <2>5. CASE k > i + 1
    <3>1. k - 1 # i /\ ~(k <= i) /\ ~(k - 1 <= i)
      BY <2>5
    <3> QED BY <2>1, <2>2, <3>1
  <2> QED BY <2>3, <2>4, <2>5
<1> HIDE DEF t
<1> QED BY <1>2, <1>3 DEF IsSum

LEMMA SumExtends ==
  ASSUME NEW n \in Nat, NEW m \in Nat, n <= m, NEW w \in [Ids(n) -> Int], NEW s, IsSum(s, w, n),
         NEW v \in [Ids(m) -> Int], \A j \in Ids(m) : v[j] = IF j \in Ids(n) THEN w[j] ELSE 0
  PROVE  \E t : IsSum(t, v, m) /\ t[m] = s[n]
<1> USE DEF Ids
<1> DEFINE t == [k \in 0 .. m |-> IF k <= n THEN s[k] ELSE s[n]]
<1>1. s \in [0 .. n -> Int] /\ s[0] = 0 /\ \A k \in 1 .. n : s[k] = s[k - 1] + w[k - 1]
  BY DEF IsSum
<1>2. t \in [0 .. m -> Int] /\ t[0] = 0 /\ t[m] = s[n]
  BY <1>1
<1>3. ASSUME NEW k \in 1 .. m PROVE t[k] = t[k - 1] + v[k - 1]
  <2>1. k \in 0 .. m /\ k - 1 \in 0 .. m /\ k - 1 \in Ids(m)
    OBVIOUS
  <2>2. CASE k <= n
    <3>1. k - 1 \in Ids(n) /\ k \in 1 .. n /\ k - 1 <= n
      BY <2>2
    <3> QED BY <1>1, <2>1, <2>2, <3>1
  <2>3. CASE k > n
    <3>1. k - 1 \notin Ids(n) /\ ~(k <= n) /\ (k - 1 <= n => k - 1 = n)
      BY <2>3
    <3>2. s[n] \in Int
      BY <1>1
    <3> QED BY <2>1, <3>1, <3>2
  <2> QED BY <2>2, <2>3
<1> HIDE DEF t
<1> QED BY <1>2, <1>3 DEF IsSum

LEMMA SumAtLeast ==
  ASSUME NEW n \in Nat, NEW w \in [Ids(n) -> Nat], NEW s, IsSum(s, w, n)
  PROVE  s[n] \in Nat /\ \A i \in Ids(n) : w[i] <= s[n]
<1> USE DEF Ids
<1>1. s \in [0 .. n -> Int] /\ s[0] = 0 /\ \A k \in 1 .. n : s[k] = s[k - 1] + w[k - 1]
  BY DEF IsSum
<1> DEFINE T == { k \in 0 .. n : s[k] \in Nat /\ \A i \in Ids(n) : i < k => w[i] <= s[k] }
<1>2. 0 \in T /\ T \in SUBSET (0 .. n)
  BY <1>1
<1>3. ASSUME NEW k \in 1 .. n, k - 1 \in T PROVE k \in T
  <2>1. k \in 0 .. n /\ k - 1 \in Ids(n) /\ s[k] = s[k - 1] + w[k - 1] /\ s[k - 1] \in Nat
    BY <1>1, <1>3
  <2>2. s[k] \in Nat
    BY <2>1
  <2>3. ASSUME NEW i \in Ids(n), i < k PROVE w[i] <= s[k]
    <3>1. i = k - 1 \/ i < k - 1
      BY <2>3
    <3> QED BY <1>3, <2>1, <3>1
  <2> QED BY <2>1, <2>2, <2>3
<1>4. T = 0 .. n
  <2> HIDE DEF T
  <2> QED BY <1>2, <1>3, UpTo
<1>5. n \in T
  BY <1>4
<1> QED BY <1>5

LEMMA SumUnique ==
  ASSUME NEW n \in Nat, NEW w, NEW s, NEW t, IsSum(s, w, n), IsSum(t, w, n)
  PROVE  s[n] = t[n]
<1> DEFINE T == { k \in 0 .. n : s[k] = t[k] }
<1>1. 0 \in T /\ T \in SUBSET (0 .. n)
  BY DEF IsSum
<1>2. ASSUME NEW k \in 1 .. n, k - 1 \in T PROVE k \in T
  BY <1>2 DEF IsSum
<1>3. T = 0 .. n
  <2> HIDE DEF T
  <2> QED BY <1>1, <1>2, UpTo
<1>4. n \in T
  BY <1>3
<1> QED BY <1>4

-----------------------------------------------------------------------------
(* The lists of the bins.                                                  *)

LinksKept(r, q, H) ==
  /\ q.bins = r.bins /\ q.usedBins = r.usedBins
  /\ \A i \in H : /\ q.nodes[i].dataSize = r.nodes[i].dataSize
                  /\ q.nodes[i].binPrev = r.nodes[i].binPrev
                  /\ q.nodes[i].binNext = r.nodes[i].binNext

LEMMA ListsFrame ==
  ASSUME NEW n, NEW H, NEW r, Lists(r, H), Ranked(r, n, H), NEW q, LinksKept(r, q, H)
  PROVE  Lists(q, H) /\ Ranked(q, n, H)
<1>1. Lists(q, H)
  BY DEF Lists, LinksKept
<1>2. Ranked(q, n, H)
  BY DEF Ranked, LinksKept
<1> QED BY <1>1, <1>2

\* From r to q a node becomes the head of a bin's list.
ListedFirst(r, q, H, id, bin) ==
  /\ q.bins = [r.bins EXCEPT ![bin] = id] /\ q.usedBins = r.usedBins \cup {bin}
  /\ Ram!FloorToFloat(q.nodes[id].dataSize) = bin
  /\ q.nodes[id].binPrev = Ram!Invalid /\ q.nodes[id].binNext = r.bins[bin]
  /\ \A i \in H : /\ q.nodes[i].dataSize = r.nodes[i].dataSize
                  /\ q.nodes[i].binPrev = IF i = r.bins[bin] THEN id ELSE r.nodes[i].binPrev
                  /\ q.nodes[i].binNext = r.nodes[i].binNext

LEMMA ListsInsert ==
  ASSUME NEW n \in Nat, NEW H \in SUBSET Ids(n), NEW r, Lists(r, H), Ranked(r, n, H),
         \A i \in H : Ram!FloorToFloat(r.nodes[i].dataSize) \in Ram!Bin, r.bins \in [Ram!Bin -> Int],
         NEW id \in Ids(n) \ H, NEW bin \in Ram!Bin, NEW q, ListedFirst(r, q, H, id, bin)
  PROVE  Lists(q, H \cup {id}) /\ Ranked(q, n, H \cup {id})
<1> DEFINE front == r.bins[bin]
<1>0. /\ q.bins = [r.bins EXCEPT ![bin] = id] /\ q.usedBins = r.usedBins \cup {bin}
      /\ Ram!FloorToFloat(q.nodes[id].dataSize) = bin
      /\ q.nodes[id].binPrev = Ram!Invalid /\ q.nodes[id].binNext = front
      /\ \A i \in H : /\ q.nodes[i].dataSize = r.nodes[i].dataSize
                      /\ q.nodes[i].binPrev = IF i = front THEN id ELSE r.nodes[i].binPrev
                      /\ q.nodes[i].binNext = r.nodes[i].binNext
  BY DEF ListedFirst
<1> USE <1>0
<1>1. id # Ram!Invalid /\ \A i \in H : i # Ram!Invalid
  BY DEF Ids, Ram!Invalid
<1>2. \A b \in Ram!Bin : q.bins[b] = IF b = bin THEN id ELSE r.bins[b]
  OBVIOUS
<1>3. q.usedBins = { b \in Ram!Bin : q.bins[b] # Ram!Invalid }
  BY <1>1, <1>2 DEF Lists
<1>4. ASSUME NEW b \in Ram!Bin, q.bins[b] # Ram!Invalid
      PROVE  /\ q.bins[b] \in H \cup {id} /\ Ram!FloorToFloat(q.nodes[q.bins[b]].dataSize) = b
             /\ q.nodes[q.bins[b]].binPrev = Ram!Invalid
  <2>1. CASE b = bin
    BY <1>2, <2>1
  <2>2. CASE b # bin
    <3>1. r.bins[b] # Ram!Invalid /\ q.bins[b] = r.bins[b]
      BY <1>2, <1>4, <2>2
    <3>2. r.bins[b] \in H /\ Ram!FloorToFloat(r.nodes[r.bins[b]].dataSize) = b
          /\ r.nodes[r.bins[b]].binPrev = Ram!Invalid
      BY <3>1 DEF Lists
    <3>3. front # Ram!Invalid => Ram!FloorToFloat(r.nodes[front].dataSize) = bin
      BY DEF Lists
    <3>4. r.bins[b] # front
      BY <1>1, <2>2, <3>2, <3>3
    <3> QED BY <3>1, <3>2, <3>4
  <2> QED BY <2>1, <2>2
<1>5. ASSUME NEW i \in H
      PROVE  /\ IF q.nodes[i].binPrev = Ram!Invalid THEN q.bins[Ram!FloorToFloat(q.nodes[i].dataSize)] = i
                ELSE /\ q.nodes[i].binPrev \in H \cup {id}
                     /\ Ram!FloorToFloat(q.nodes[q.nodes[i].binPrev].dataSize)
                          = Ram!FloorToFloat(q.nodes[i].dataSize)
                     /\ q.nodes[q.nodes[i].binPrev].binNext = i
             /\ q.nodes[i].binNext # Ram!Invalid =>
                  /\ q.nodes[i].binNext \in H \cup {id}
                  /\ Ram!FloorToFloat(q.nodes[q.nodes[i].binNext].dataSize)
                       = Ram!FloorToFloat(q.nodes[i].dataSize)
                  /\ q.nodes[q.nodes[i].binNext].binPrev = i
  <2>1. /\ IF r.nodes[i].binPrev = Ram!Invalid THEN r.bins[Ram!FloorToFloat(r.nodes[i].dataSize)] = i
           ELSE /\ r.nodes[i].binPrev \in H
                /\ Ram!FloorToFloat(r.nodes[r.nodes[i].binPrev].dataSize)
                     = Ram!FloorToFloat(r.nodes[i].dataSize)
                /\ r.nodes[r.nodes[i].binPrev].binNext = i
        /\ r.nodes[i].binNext # Ram!Invalid =>
             /\ r.nodes[i].binNext \in H
             /\ Ram!FloorToFloat(r.nodes[r.nodes[i].binNext].dataSize)
                  = Ram!FloorToFloat(r.nodes[i].dataSize)
             /\ r.nodes[r.nodes[i].binNext].binPrev = i
    BY DEF Lists
  <2>2. front # Ram!Invalid =>
          front \in H /\ Ram!FloorToFloat(r.nodes[front].dataSize) = bin /\ r.nodes[front].binPrev = Ram!Invalid
    BY DEF Lists
  <2>3. q.nodes[i].binNext # Ram!Invalid =>
          /\ q.nodes[i].binNext \in H \cup {id}
          /\ Ram!FloorToFloat(q.nodes[q.nodes[i].binNext].dataSize) = Ram!FloorToFloat(q.nodes[i].dataSize)
          /\ q.nodes[q.nodes[i].binNext].binPrev = i
    BY <1>1, <2>1, <2>2
  <2>4. CASE i = front
    BY <1>1, <2>1, <2>2, <2>3, <2>4
  <2>5. CASE i # front
    <3>1. q.nodes[i].binPrev = r.nodes[i].binPrev /\ q.nodes[i].dataSize = r.nodes[i].dataSize
      BY <2>5
    <3>2. CASE r.nodes[i].binPrev = Ram!Invalid
      <4>1. Ram!FloorToFloat(r.nodes[i].dataSize) # bin
        BY <2>1, <2>5, <3>2
      <4>2. r.bins[Ram!FloorToFloat(r.nodes[i].dataSize)] = i
        BY <2>1, <3>2
      <4>3. q.bins[Ram!FloorToFloat(r.nodes[i].dataSize)] = i
        BY <1>2, <4>1, <4>2
      <4> QED BY <2>3, <3>1, <3>2, <4>3
    <3>3. CASE r.nodes[i].binPrev # Ram!Invalid
      BY <2>1, <2>3, <3>1, <3>3
    <3> QED BY <3>2, <3>3
  <2> QED BY <2>4, <2>5
<1>6. /\ q.bins[Ram!FloorToFloat(q.nodes[id].dataSize)] = id
      /\ front # Ram!Invalid =>
           /\ front \in H \cup {id}
           /\ Ram!FloorToFloat(q.nodes[front].dataSize) = Ram!FloorToFloat(q.nodes[id].dataSize)
           /\ q.nodes[front].binPrev = id
  BY <1>1, <1>2 DEF Lists
<1>7. Lists(q, H \cup {id})
  BY <1>3, <1>4, <1>5, <1>6 DEF Lists
<1>8. Ranked(q, n, H \cup {id})
  <2>1. PICK rank \in [Ids(n) -> Nat] :
          \A i \in H : r.nodes[i].binNext # Ram!Invalid => rank[i] < rank[r.nodes[i].binNext]
    BY DEF Ranked
  <2> DEFINE later == [i \in Ids(n) |-> IF i = id THEN 0 ELSE rank[i] + 1]
  <2>2. later \in [Ids(n) -> Nat] /\ later[id] = 0
        /\ \A i \in H : later[i] = rank[i] + 1 /\ rank[i] \in Nat
    OBVIOUS
  <2> HIDE DEF later
  <2>3. ASSUME NEW i \in H \cup {id}, q.nodes[i].binNext # Ram!Invalid
        PROVE  later[i] < later[q.nodes[i].binNext]
    <3>1. CASE i = id
      <4>1. front # Ram!Invalid /\ front \in H
        BY <2>3, <3>1 DEF Lists
      <4> QED BY <2>2, <3>1, <4>1
    <3>2. CASE i # id
      <4>1. i \in H /\ q.nodes[i].binNext = r.nodes[i].binNext
        BY <3>2
      <4>2. r.nodes[i].binNext \in H
        BY <2>3, <4>1 DEF Lists
      <4>3. rank[i] < rank[r.nodes[i].binNext]
        BY <2>1, <2>3, <4>1
      <4> QED BY <2>2, <4>1, <4>2, <4>3
    <3> QED BY <3>1, <3>2
  <2> QED BY <2>2, <2>3 DEF Ranked
<1> QED BY <1>7, <1>8

\* From r to q a node leaves its list: the links to it go to its neighbour
\* on the other side.
Unlinked(r, q, H, id) ==
  LET node == r.nodes
      bin == Ram!FloorToFloat(node[id].dataSize)
      Past(link, beyond) == IF link = id THEN beyond ELSE link
  IN /\ q.bins = IF node[id].binPrev = Ram!Invalid
                  THEN [r.bins EXCEPT ![bin] = node[id].binNext] ELSE r.bins
     /\ q.usedBins = IF node[id].binPrev = Ram!Invalid /\ node[id].binNext = Ram!Invalid
                      THEN r.usedBins \ {bin} ELSE r.usedBins
     /\ \A i \in H \ {id} :
          /\ q.nodes[i].dataSize = node[i].dataSize
          /\ q.nodes[i].binNext = Past(node[i].binNext, node[id].binNext)
          /\ q.nodes[i].binPrev = Past(node[i].binPrev, node[id].binPrev)

LEMMA ListsUnlink ==
  ASSUME NEW n \in Nat, NEW H \in SUBSET Ids(n), NEW r, Lists(r, H), Ranked(r, n, H),
         \A i \in H : Ram!FloorToFloat(r.nodes[i].dataSize) \in Ram!Bin,
         r.bins \in [Ram!Bin -> Int], NEW id \in H, NEW q, Unlinked(r, q, H, id)
  PROVE  Lists(q, H \ {id}) /\ Ranked(q, n, H \ {id})
<1>1. \A i \in H : i # Ram!Invalid
  BY DEF Ids, Ram!Invalid
<1> DEFINE N(i) == r.nodes[i].binNext
           P(i) == r.nodes[i].binPrev
           F(i) == Ram!FloorToFloat(r.nodes[i].dataSize)
<1>2. /\ r.usedBins = { b \in Ram!Bin : r.bins[b] # Ram!Invalid }
      /\ \A b \in Ram!Bin : r.bins[b] # Ram!Invalid =>
           r.bins[b] \in H /\ F(r.bins[b]) = b /\ P(r.bins[b]) = Ram!Invalid
      /\ \A i \in H :
           /\ IF P(i) = Ram!Invalid THEN r.bins[F(i)] = i
              ELSE P(i) \in H /\ F(P(i)) = F(i) /\ N(P(i)) = i
           /\ N(i) # Ram!Invalid => N(i) \in H /\ F(N(i)) = F(i) /\ P(N(i)) = i
  BY DEF Lists
<1>3. \A i \in H : F(i) \in Ram!Bin
  OBVIOUS
<1>4. \A i \in H \ {id} :
        /\ Ram!FloorToFloat(q.nodes[i].dataSize) = F(i)
        /\ q.nodes[i].binNext = IF N(i) = id THEN N(id) ELSE N(i)
        /\ q.nodes[i].binPrev = IF P(i) = id THEN P(id) ELSE P(i)
  BY DEF Unlinked
<1>5. \A b \in Ram!Bin : q.bins[b] = IF P(id) = Ram!Invalid /\ b = F(id) THEN N(id) ELSE r.bins[b]
  BY DEF Unlinked
<1>6. q.usedBins = { b \in Ram!Bin : q.bins[b] # Ram!Invalid }
  <2>1. q.usedBins = IF P(id) = Ram!Invalid /\ N(id) = Ram!Invalid THEN r.usedBins \ {F(id)} ELSE r.usedBins
    BY DEF Unlinked
  <2> QED BY <1>1, <1>2, <1>3, <1>5, <2>1
<1>7. PICK rank \in [Ids(n) -> Nat] : \A i \in H : N(i) # Ram!Invalid => rank[i] < rank[N(i)]
  BY DEF Ranked
<1>8. N(id) # id /\ P(id) # id
  <2>1. \A i \in H : rank[i] \in Nat
    OBVIOUS
  <2> QED BY <1>1, <1>2, <1>7, <2>1
<1> HIDE DEF N, P, F
<1>9. ASSUME NEW b \in Ram!Bin, q.bins[b] # Ram!Invalid
      PROVE  /\ q.bins[b] \in H \ {id} /\ Ram!FloorToFloat(q.nodes[q.bins[b]].dataSize) = b
             /\ q.nodes[q.bins[b]].binPrev = Ram!Invalid
  <2>1. CASE P(id) = Ram!Invalid /\ b = F(id)
    BY <1>2, <1>4, <1>5, <1>8, <1>9, <2>1
  <2>2. CASE ~(P(id) = Ram!Invalid /\ b = F(id))
    <3>1. q.bins[b] = r.bins[b] /\ r.bins[b] \in H /\ F(r.bins[b]) = b /\ P(r.bins[b]) = Ram!Invalid
      BY <1>2, <1>5, <1>9, <2>2
    <3>2. r.bins[b] # id
      BY <2>2, <3>1
    <3> QED BY <1>1, <1>4, <3>1, <3>2
  <2> QED BY <2>1, <2>2
<1>10. ASSUME NEW i \in H \ {id}
       PROVE  IF q.nodes[i].binPrev = Ram!Invalid THEN q.bins[Ram!FloorToFloat(q.nodes[i].dataSize)] = i
              ELSE /\ q.nodes[i].binPrev \in H \ {id}
                   /\ Ram!FloorToFloat(q.nodes[q.nodes[i].binPrev].dataSize)
                        = Ram!FloorToFloat(q.nodes[i].dataSize)
                   /\ q.nodes[q.nodes[i].binPrev].binNext = i
  <2>1. CASE P(i) = id
    <3>1. N(id) = i /\ F(id) = F(i) /\ q.nodes[i].binPrev = P(id)
      BY <1>1, <1>2, <1>4, <2>1
    <3>2. CASE P(id) = Ram!Invalid
      BY <1>3, <1>4, <1>5, <3>1, <3>2
    <3>3. CASE P(id) # Ram!Invalid
      <4>1. P(id) \in H \ {id} /\ F(P(id)) = F(id) /\ N(P(id)) = id
        BY <1>2, <1>8, <3>3
      <4> QED BY <1>4, <3>1, <3>3, <4>1
    <3> QED BY <3>2, <3>3
  <2>2. CASE P(i) # id /\ P(i) = Ram!Invalid
    <3>1. r.bins[F(i)] = i /\ F(i) \in Ram!Bin /\ q.nodes[i].binPrev = Ram!Invalid
      BY <1>2, <1>3, <1>4, <2>2
    <3>2. ~(P(id) = Ram!Invalid /\ F(i) = F(id))
      BY <1>2, <3>1
    <3> QED BY <1>4, <1>5, <3>1, <3>2
  <2>3. CASE P(i) # id /\ P(i) # Ram!Invalid
    <3>1. P(i) \in H \ {id} /\ F(P(i)) = F(i) /\ N(P(i)) = i /\ q.nodes[i].binPrev = P(i)
      BY <1>2, <1>4, <2>3
    <3> QED BY <1>4, <2>3, <3>1
  <2> QED BY <2>1, <2>2, <2>3
<1>11. ASSUME NEW i \in H \ {id}, q.nodes[i].binNext # Ram!Invalid
       PROVE  /\ q.nodes[i].binNext \in H \ {id}
              /\ Ram!FloorToFloat(q.nodes[q.nodes[i].binNext].dataSize)
                   = Ram!FloorToFloat(q.nodes[i].dataSize)
              /\ q.nodes[q.nodes[i].binNext].binPrev = i
              /\ rank[i] < rank[q.nodes[i].binNext]
  <2>0. \A j \in H : rank[j] \in Nat
    OBVIOUS
  <2>1. CASE N(i) = id
    <3>1. P(id) = i /\ F(id) = F(i) /\ q.nodes[i].binNext = N(id) /\ rank[i] < rank[id]
      BY <1>1, <1>2, <1>4, <1>7, <2>1
    <3>2. N(id) \in H \ {id} /\ F(N(id)) = F(id) /\ P(N(id)) = id /\ rank[id] < rank[N(id)]
      BY <1>2, <1>7, <1>8, <1>11, <3>1
    <3> QED BY <1>4, <2>0, <3>1, <3>2
  <2>2. CASE N(i) # id
    <3>1. N(i) \in H \ {id} /\ F(N(i)) = F(i) /\ P(N(i)) = i /\ q.nodes[i].binNext = N(i)
          /\ rank[i] < rank[N(i)]
      BY <1>2, <1>4, <1>7, <1>11, <2>2
    <3> QED BY <1>4, <3>1
  <2> QED BY <2>1, <2>2
<1>12. Lists(q, H \ {id})
  BY <1>6, <1>9, <1>10, <1>11 DEF Lists
<1>13. Ranked(q, n, H \ {id})
  BY <1>11 DEF Ranked
<1> QED BY <1>12, <1>13

-----------------------------------------------------------------------------
(* The functions of the class.                                             *)

SameInChain(a, b) ==
  /\ a.dataOffset = b.dataOffset /\ a.dataSize = b.dataSize /\ a.used = b.used
  /\ a.prev = b.prev /\ a.next = b.next

LEMMA ShapeFacts ==
  ASSUME Ram!MiniRamAssumption, NEW n \in Nat, NEW r, Shaped(r, n)
  PROVE  /\ r.nodes \in [Ids(n) -> Node] /\ DOMAIN r.nodes = Ids(n) /\ Ram!NodeCount(r) = n
         /\ r.freeNodes \in [Ids(n) -> Ids(n)] /\ r.sp \in 0 .. n
         /\ r.bins \in [Ram!Bin -> Int] /\ r.usedBins \subseteq Ram!Bin
         /\ r.freeStorage \in Nat /\ r.aborted = FALSE
         /\ Ram!LiveIds(r) = Ids(n) \ Above(r.freeNodes, r.sp, n)
         /\ Ram!Holes(r) = { i \in Ram!LiveIds(r) : ~r.nodes[i].used }
         /\ \A i \in Ids(n) : Ram!FloorToFloat(r.nodes[i].dataSize) \in Ram!Bin
<1>1. /\ r.nodes \in [Ids(n) -> Node] /\ r.freeNodes \in [Ids(n) -> Ids(n)] /\ r.sp \in 0 .. n
      /\ r.bins \in [Ram!Bin -> Int] /\ r.usedBins \subseteq Ram!Bin
      /\ r.freeStorage \in Nat /\ r.aborted = FALSE
  BY DEF Shaped
<1>2. DOMAIN r.nodes = Ids(n)
  BY <1>1
<1>3. Ram!NodeCount(r) = n
  BY <1>2, IdsCount, RamCardinality DEF Ram!NodeCount
<1>4. Ram!LiveIds(r) = Ids(n) \ Above(r.freeNodes, r.sp, n)
  BY <1>2, <1>3 DEF Ram!LiveIds, Above
<1>5. ASSUME NEW i \in Ids(n) PROVE Ram!FloorToFloat(r.nodes[i].dataSize) \in Ram!Bin
  <2>1. PICK s \in 0 .. Capacity : s = r.nodes[i].dataSize
    BY <1>1 DEF Node
  <2> QED BY <2>1, InBins
<1> QED BY <1>1, <1>2, <1>3, <1>4, <1>5 DEF Ram!Holes

LEMMA FreshIs ==
  ASSUME Ram!MiniRamAssumption
  PROVE  Ram!FreshNode \in Node
  BY DEF Ram!FreshNode, Node, Ram!Invalid, Ram!MiniRamAssumption

LEMMA WeightsAre ==
  ASSUME NEW n, NEW r, r.nodes \in [Ids(n) -> Node]
  PROVE  /\ Weights(r) \in [Ids(n) -> Nat] /\ Weights(r) \in [Ids(n) -> Int]
         /\ \A i \in Ids(n) : Weights(r)[i] = IF i \in Ram!Holes(r) THEN r.nodes[i].dataSize ELSE 0
<1>1. DOMAIN r.nodes = Ids(n)
  OBVIOUS
<1>2. \A i \in Ids(n) : r.nodes[i].dataSize \in Nat
  <2>1. \A x \in Node : x.dataSize \in Nat
    BY DEF Node
  <2> QED BY <2>1
<1> QED BY <1>1, <1>2 DEF Weights

\* From r to q a hole has been made.
Inserted(r, q, n, id, size, offset) ==
  /\ Core(q, n) /\ id \in Ids(n) \ Ram!LiveIds(r)
  /\ Ram!LiveIds(q) = Ram!LiveIds(r) \cup {id} /\ Ram!Holes(q) = Ram!Holes(r) \cup {id}
  /\ q.nodes[id].dataSize = size /\ q.nodes[id].dataOffset = offset /\ ~q.nodes[id].used
  /\ q.nodes[id].prev = Ram!Invalid /\ q.nodes[id].next = Ram!Invalid
  /\ \A i \in Ids(n) \ {id} : SameInChain(q.nodes[i], r.nodes[i])

LEMMA InsertCore ==
  ASSUME Ram!MiniRamAssumption, NEW n, NEW r, Core(r, n), r.sp < n, NEW size \in 0 .. Capacity,
         NEW offset \in Nat
  PROVE  Inserted(r, Ram!InsertNode(r, size, offset), n, Ram!TopFreeNode(r), size, offset)
<1> PICK id : id = Ram!TopFreeNode(r)
  OBVIOUS
<1> PICK q : q = Ram!InsertNode(r, size, offset)
  OBVIOUS
<1>0. n \in Nat /\ Shaped(r, n) /\ StackHolds(r.freeNodes, r.sp, n)
      /\ (\A i \in Ids(n) : r.nodes[i].used => i \in Ram!LiveIds(r))
      /\ Lists(r, Ram!Holes(r)) /\ Ranked(r, n, Ram!Holes(r)) /\ Stored(r, n)
  BY DEF Core
<1>1. /\ r.nodes \in [Ids(n) -> Node] /\ DOMAIN r.nodes = Ids(n) /\ Ram!NodeCount(r) = n
      /\ r.freeNodes \in [Ids(n) -> Ids(n)] /\ r.sp \in 0 .. n
      /\ r.bins \in [Ram!Bin -> Int] /\ r.usedBins \subseteq Ram!Bin
      /\ r.freeStorage \in Nat /\ r.aborted = FALSE
      /\ Ram!LiveIds(r) = Ids(n) \ Above(r.freeNodes, r.sp, n)
      /\ Ram!Holes(r) = { i \in Ram!LiveIds(r) : ~r.nodes[i].used }
      /\ \A i \in Ids(n) : Ram!FloorToFloat(r.nodes[i].dataSize) \in Ram!Bin
  BY <1>0, ShapeFacts
<1>2. /\ id = r.freeNodes[r.sp] /\ id \in Ids(n) /\ id \notin Ram!LiveIds(r)
      /\ Ids(n) \ Above(r.freeNodes, r.sp + 1, n) = Ram!LiveIds(r) \cup {id}
      /\ StackHolds(r.freeNodes, r.sp + 1, n)
  <2>1. id = r.freeNodes[r.sp]
    BY DEF Ram!TopFreeNode
  <2>2. PICK sp \in 0 .. n : sp = r.sp
    BY <1>1
  <2>3. PICK free \in [Ids(n) -> Ids(n)] : free = r.freeNodes
    BY <1>1
  <2>4. /\ id \in Ids(n) /\ id \in Above(free, sp, n)
        /\ Ids(n) \ Above(free, sp + 1, n) = (Ids(n) \ Above(free, sp, n)) \cup {id}
        /\ StackHolds(free, sp + 1, n)
    BY <1>0, <2>1, <2>2, <2>3, StackPops
  <2> QED BY <1>1, <2>1, <2>2, <2>3, <2>4
<1>3. PICK bin \in Ram!Bin : bin = Ram!FloorToFloat(size)
  BY InBins
<1>4. PICK front \in Int : front = r.bins[bin]
  BY <1>1
<1>5. front # Ram!Invalid => front \in Ram!Holes(r) /\ front \in Ids(n) /\ front # id
  BY <1>0, <1>1, <1>2, <1>4 DEF Lists
<1> DEFINE node == [Ram!FreshNode EXCEPT !.dataOffset = offset, !.dataSize = size, !.binNext = front]
<1>6. q = [r EXCEPT !.freeStorage = @ + size,
                    !.sp = @ + 1,
                    !.nodes = Ram!Linked([@ EXCEPT ![id] = node], front, "binPrev", id),
                    !.usedBins = IF front = Ram!Invalid THEN @ \cup {bin} ELSE @,
                    !.bins[bin] = id]
  <2>1. ~(r.sp >= Ram!NodeCount(r))
    BY <1>0, <1>1
  <2> QED BY <1>2, <1>3, <1>4, <2>1 DEF Ram!InsertNode
<1>7. /\ node \in Node /\ id \in Int
      /\ node.dataOffset = offset /\ node.dataSize = size /\ node.binPrev = Ram!Invalid
      /\ node.binNext = front /\ node.prev = Ram!Invalid /\ node.next = Ram!Invalid /\ node.used = FALSE
  <2>1. /\ node.dataOffset = offset /\ node.dataSize = size /\ node.binPrev = Ram!Invalid
        /\ node.binNext = front /\ node.prev = Ram!Invalid /\ node.next = Ram!Invalid /\ node.used = FALSE
    BY DEF Ram!FreshNode
  <2>3. node \in Node
    BY <1>4, FreshIs DEF Node
  <2> QED BY <1>2, <2>1, <2>3 DEF Ids
<1> HIDE DEF node
<1> DEFINE linked == Ram!Linked([r.nodes EXCEPT ![id] = node], front, "binPrev", id)
<1>8. /\ linked \in [Ids(n) -> Node] /\ linked[id] = node
      /\ \A i \in Ids(n) \ {id} :
           /\ SameInChain(linked[i], r.nodes[i]) /\ linked[i].binNext = r.nodes[i].binNext
           /\ linked[i].binPrev = IF i = front THEN id ELSE r.nodes[i].binPrev
  <2> DEFINE put == [r.nodes EXCEPT ![id] = node]
  <2>1. put \in [Ids(n) -> Node] /\ put[id] = node /\ \A i \in Ids(n) \ {id} : put[i] = r.nodes[i]
    BY <1>1, <1>2, <1>7
  <2>2. CASE front = Ram!Invalid
    <3>1. linked = put
      BY <2>2 DEF Ram!Linked
    <3>2. \A i \in Ids(n) \ {id} : i # front
      BY <2>2 DEF Ids, Ram!Invalid
    <3> HIDE DEF put, linked, node
    <3> QED BY <2>1, <3>1, <3>2 DEF SameInChain
  <2>3. CASE front # Ram!Invalid
    <3>1. linked = [put EXCEPT ![front]["binPrev"] = id]
      BY <2>3 DEF Ram!Linked
    <3> HIDE DEF put, linked, node
    <3> QED BY <1>5, <1>7, <2>1, <2>3, <3>1 DEF SameInChain, Node
  <2> QED BY <2>2, <2>3
<1>9. /\ q.nodes = linked /\ q.sp = r.sp + 1 /\ q.freeNodes = r.freeNodes
      /\ q.bins = [r.bins EXCEPT ![bin] = id] /\ q.usedBins = r.usedBins \cup {bin}
      /\ q.freeStorage = r.freeStorage + size /\ Shaped(q, n)
  <2>1. (IF front = Ram!Invalid THEN r.usedBins \cup {bin} ELSE r.usedBins) = r.usedBins \cup {bin}
    BY <1>0, <1>4 DEF Lists
  <2>5. PICK nodes, sp, room, bins, used :
          /\ nodes = linked /\ sp = r.sp + 1 /\ room = r.freeStorage + size
          /\ bins = [r.bins EXCEPT ![bin] = id] /\ used = r.usedBins \cup {bin}
    OBVIOUS
  <2>6. q = [r EXCEPT !.freeStorage = room, !.sp = sp, !.nodes = nodes, !.usedBins = used,
                      !.bins = bins]
    BY <1>6, <2>1, <2>5
  <2> HIDE DEF linked
  <2>2. /\ q.nodes = linked /\ q.sp = r.sp + 1 /\ q.freeNodes = r.freeNodes
        /\ q.bins = [r.bins EXCEPT ![bin] = id] /\ q.usedBins = r.usedBins \cup {bin}
        /\ q.freeStorage = r.freeStorage + size
        /\ q.maxAllocs = r.maxAllocs /\ q.capacity = r.capacity /\ q.aborted = r.aborted
        /\ q = [nodes |-> q.nodes, freeNodes |-> q.freeNodes, sp |-> q.sp,
                maxAllocs |-> q.maxAllocs, capacity |-> q.capacity, bins |-> q.bins,
                usedBins |-> q.usedBins, freeStorage |-> q.freeStorage, aborted |-> q.aborted]
    BY <1>0, <2>5, <2>6 DEF Shaped
  <2>3. /\ r.sp + 1 \in 0 .. n /\ r.freeStorage + size \in Nat
        /\ [r.bins EXCEPT ![bin] = id] \in [Ram!Bin -> Int]
    BY <1>0, <1>1, <1>7 DEF Ram!MiniRamAssumption
  <2>4. Shaped(q, n)
    BY <1>0, <1>1, <1>8, <2>2, <2>3 DEF Shaped
  <2> QED BY <2>2, <2>4
<1> HIDE DEF linked
<1>10. Ram!LiveIds(q) = Ram!LiveIds(r) \cup {id} /\ StackHolds(q.freeNodes, q.sp, n)
  BY <1>0, <1>2, <1>9, ShapeFacts
<1>11. ~q.nodes[id].used /\ \A i \in Ids(n) \ {id} : q.nodes[i].used = r.nodes[i].used
  BY <1>7, <1>8, <1>9 DEF SameInChain
<1>12. Ram!Holes(q) = Ram!Holes(r) \cup {id} /\ Ram!Holes(r) \subseteq Ids(n) /\ id \notin Ram!Holes(r)
  BY <1>1, <1>2, <1>10, <1>11 DEF Ram!Holes
<1>13. Lists(q, Ram!Holes(q)) /\ Ranked(q, n, Ram!Holes(q))
  <2>1. PICK H \in SUBSET Ids(n) : H = Ram!Holes(r) /\ id \notin H
    BY <1>12
  <2>2. Ram!FloorToFloat(q.nodes[id].dataSize) = bin /\ q.nodes[id].binPrev = Ram!Invalid
        /\ q.nodes[id].binNext = front
    BY <1>3, <1>7, <1>8, <1>9
  <2>3. \A i \in H : /\ q.nodes[i].dataSize = r.nodes[i].dataSize
                     /\ q.nodes[i].binPrev = IF i = front THEN id ELSE r.nodes[i].binPrev
                     /\ q.nodes[i].binNext = r.nodes[i].binNext
    BY <1>8, <1>9, <2>1 DEF SameInChain
  <2>5. Lists(r, H) /\ Ranked(r, n, H) /\ id \in Ids(n) \ H
    BY <1>0, <1>2, <2>1
  <2>6. \A i \in H : Ram!FloorToFloat(r.nodes[i].dataSize) \in Ram!Bin
    BY <1>1, <2>1
  <2>7. ListedFirst(r, q, H, id, bin)
    BY <1>4, <1>9, <2>2, <2>3 DEF ListedFirst
  <2>4. Lists(q, H \cup {id}) /\ Ranked(q, n, H \cup {id})
    BY <1>0, <1>1, <2>5, <2>6, <2>7, ListsInsert
  <2> QED BY <1>12, <2>1, <2>4
<1>14. Stored(q, n)
  <2>1. PICK s : IsSum(s, Weights(r), n) /\ r.freeStorage = s[n]
    BY <1>0 DEF Stored
  <2>3. PICK w \in [Ids(n) -> Int] : w = Weights(r)
    BY <1>1, WeightsAre
  <2>2. q.nodes \in [Ids(n) -> Node]
    BY <1>8, <1>9
  <2>4. PICK v \in [Ids(n) -> Int] : v = Weights(q)
    BY <2>2, WeightsAre
  <2>5. w[id] = 0 /\ v[id] = size
    BY <1>1, <1>2, <1>7, <1>8, <1>9, <1>12, <2>2, <2>3, <2>4, WeightsAre
  <2>6. \A j \in Ids(n) : j # id => v[j] = w[j]
    BY <1>1, <1>8, <1>9, <1>12, <2>2, <2>3, <2>4, WeightsAre DEF SameInChain
  <2>7. PICK t : IsSum(t, v, n) /\ t[n] = s[n] - w[id] + v[id]
    BY <1>0, <1>2, <2>1, <2>3, <2>6, SumChanges
  <2>8. t[n] = q.freeStorage
    BY <1>1, <1>9, <2>1, <2>5, <2>7
  <2> QED BY <2>4, <2>7, <2>8 DEF Stored
<1>15. \A i \in Ids(n) : q.nodes[i].used => i \in Ram!LiveIds(q)
  BY <1>0, <1>10, <1>11
<1>16. Core(q, n)
  BY <1>9, <1>10, <1>13, <1>14, <1>15 DEF Core
<1>17. \A i \in Ids(n) \ {id} : SameInChain(q.nodes[i], r.nodes[i])
  BY <1>8, <1>9
<1>18. /\ q.nodes[id].dataSize = size /\ q.nodes[id].dataOffset = offset
       /\ q.nodes[id].prev = Ram!Invalid /\ q.nodes[id].next = Ram!Invalid
  BY <1>7, <1>8, <1>9
<1> QED BY <1>2, <1>10, <1>11, <1>12, <1>16, <1>17, <1>18 DEF Inserted

\* From r to q an id went back to the stack.
PushedBack(r, q, n, id) ==
  /\ Shaped(q, n) /\ StackHolds(q.freeNodes, q.sp, n) /\ Ram!LiveIds(q) = Ram!LiveIds(r) \ {id}
  /\ q.sp < n /\ Ram!TopFreeNode(q) = id
  /\ q.nodes = [r.nodes EXCEPT ![id] = Ram!FreshNode]
  /\ q.bins = r.bins /\ q.usedBins = r.usedBins /\ q.freeStorage = r.freeStorage

LEMMA PushFields ==
  ASSUME Ram!MiniRamAssumption, NEW n \in Nat, NEW r, Shaped(r, n), StackHolds(r.freeNodes, r.sp, n),
         NEW id \in Ram!LiveIds(r)
  PROVE  PushedBack(r, Ram!PushFreeNode(r, id), n, id)
<1>0. PICK q : q = Ram!PushFreeNode(r, id)
  OBVIOUS
<1>1. /\ r.nodes \in [Ids(n) -> Node] /\ r.freeNodes \in [Ids(n) -> Ids(n)] /\ r.sp \in 0 .. n
      /\ Ram!LiveIds(r) = Ids(n) \ Above(r.freeNodes, r.sp, n)
  BY ShapeFacts
<1>2. PICK nodes, free, sp :
        /\ nodes = [r.nodes EXCEPT ![id] = Ram!FreshNode] /\ sp = r.sp - 1
        /\ free = [r.freeNodes EXCEPT ![r.sp - 1] = id]
  OBVIOUS
<1>3. /\ sp \in 0 .. n /\ sp < n /\ free \in [Ids(n) -> Ids(n)] /\ free[sp] = id
      /\ Ids(n) \ Above(free, sp, n) = Ram!LiveIds(r) \ {id} /\ StackHolds(free, sp, n)
  <2>1. PICK old \in [Ids(n) -> Ids(n)], top \in 0 .. n : old = r.freeNodes /\ top = r.sp
    BY <1>1
  <2>2. id \in Ids(n) \ Above(old, top, n) /\ StackHolds(old, top, n)
        /\ PushedOn(free, old, top, id)
    BY <1>1, <1>2, <2>1 DEF PushedOn
  <2>3. /\ top - 1 \in 0 .. n /\ top - 1 < n /\ free \in [Ids(n) -> Ids(n)] /\ free[top - 1] = id
        /\ Ids(n) \ Above(free, top - 1, n) = (Ids(n) \ Above(old, top, n)) \ {id}
        /\ StackHolds(free, top - 1, n)
    BY <2>2, StackPushes
  <2> QED BY <1>1, <1>2, <2>1, <2>3
<1>4. nodes \in [Ids(n) -> Node]
  BY <1>1, <1>2, FreshIs
<1>5. q = [r EXCEPT !.sp = sp, !.freeNodes = free, !.nodes = nodes]
  BY <1>0, <1>2 DEF Ram!PushFreeNode
<1>6. /\ q.sp = sp /\ q.freeNodes = free /\ q.nodes = nodes /\ q.bins = r.bins
      /\ q.usedBins = r.usedBins /\ q.freeStorage = r.freeStorage /\ Shaped(q, n)
  BY <1>3, <1>4, <1>5 DEF Shaped
<1>7. Ram!LiveIds(q) = Ids(n) \ Above(q.freeNodes, q.sp, n)
  BY <1>6, ShapeFacts
<1> QED BY <1>0, <1>2, <1>3, <1>6, <1>7 DEF Ram!TopFreeNode, PushedBack

\* From r to q a node is no more.
Gone(r, q, n, id) ==
  /\ Core(q, n) /\ Ram!LiveIds(q) = Ram!LiveIds(r) \ {id} /\ Ram!Holes(q) = Ram!Holes(r) \ {id}
  /\ q.sp < n /\ Ram!TopFreeNode(q) = id
  /\ \A i \in Ids(n) \ {id} : SameInChain(q.nodes[i], r.nodes[i])

\* A node in no list goes back to the stack.
LEMMA PushCore ==
  ASSUME Ram!MiniRamAssumption, NEW n, NEW r, Core(r, n), NEW id \in Ram!LiveIds(r), r.nodes[id].used
  PROVE  Gone(r, Ram!PushFreeNode(r, id), n, id)
<1> PICK q : q = Ram!PushFreeNode(r, id)
  OBVIOUS
<1>0. n \in Nat /\ Shaped(r, n) /\ StackHolds(r.freeNodes, r.sp, n)
      /\ (\A i \in Ids(n) : r.nodes[i].used => i \in Ram!LiveIds(r))
      /\ Lists(r, Ram!Holes(r)) /\ Ranked(r, n, Ram!Holes(r)) /\ Stored(r, n)
  BY DEF Core
<1>1. /\ r.nodes \in [Ids(n) -> Node] /\ DOMAIN r.nodes = Ids(n)
      /\ Ram!LiveIds(r) = Ids(n) \ Above(r.freeNodes, r.sp, n)
      /\ Ram!Holes(r) = { i \in Ram!LiveIds(r) : ~r.nodes[i].used }
  BY <1>0, ShapeFacts
<1>2. /\ Shaped(q, n) /\ StackHolds(q.freeNodes, q.sp, n) /\ Ram!LiveIds(q) = Ram!LiveIds(r) \ {id}
      /\ q.sp < n /\ Ram!TopFreeNode(q) = id
      /\ q.nodes = [r.nodes EXCEPT ![id] = Ram!FreshNode]
      /\ q.bins = r.bins /\ q.usedBins = r.usedBins /\ q.freeStorage = r.freeStorage
  <2>1. PushedBack(r, Ram!PushFreeNode(r, id), n, id)
    BY <1>0, PushFields
  <2> QED BY <2>1 DEF PushedBack
<1>3. q.nodes[id].used = FALSE /\ \A i \in Ids(n) \ {id} : q.nodes[i] = r.nodes[i]
  BY <1>1, <1>2 DEF Ram!FreshNode
<1>4. Ram!Holes(q) = Ram!Holes(r) /\ id \notin Ram!Holes(r) /\ Ram!Holes(r) \subseteq Ids(n)
  BY <1>1, <1>2, <1>3 DEF Ram!Holes
<1>5. \A i \in Ram!Holes(r) : q.nodes[i] = r.nodes[i]
  BY <1>3, <1>4
<1>6. Lists(q, Ram!Holes(q)) /\ Ranked(q, n, Ram!Holes(q))
  <2>1. LinksKept(r, q, Ram!Holes(r))
    BY <1>2, <1>5 DEF LinksKept
  <2> QED BY <1>0, <1>4, <2>1, ListsFrame
<1>7. Stored(q, n)
  <2>1. q.nodes \in [Ids(n) -> Node]
    BY <1>1, <1>2, FreshIs
  <2>2. Weights(q) = Weights(r)
    <3>1. DOMAIN q.nodes = DOMAIN r.nodes
      BY <1>1, <2>1
    <3> QED BY <1>4, <1>5, <3>1 DEF Weights
  <2> QED BY <1>0, <1>2, <2>2 DEF Stored
<1>8. \A i \in Ids(n) : q.nodes[i].used => i \in Ram!LiveIds(q)
  BY <1>0, <1>2, <1>3
<1>9. Core(q, n)
  BY <1>0, <1>2, <1>6, <1>7, <1>8 DEF Core
<1>10. \A i \in Ids(n) \ {id} : SameInChain(q.nodes[i], r.nodes[i])
  BY <1>3 DEF SameInChain
<1>11. Ram!Holes(q) = Ram!Holes(r) \ {id}
  BY <1>4
<1> QED BY <1>2, <1>9, <1>10, <1>11 DEF Gone

\* A hole taken out of its list, as RemoveNode begins.
OutOfList(r, id) ==
  LET node == r.nodes[id]
  IN IF node.binPrev # Ram!Invalid
     THEN [r EXCEPT !.nodes = Ram!Linked(Ram!Linked(@, node.binPrev, "binNext", node.binNext),
                                         node.binNext, "binPrev", node.binPrev)]
     ELSE Ram!UnlinkHead(r, Ram!FloorToFloat(node.dataSize), node.binNext)

LeftList(r, q, n, H, id) ==
  /\ Shaped(q, n) /\ Unlinked(r, q, H, id) /\ q.sp = r.sp /\ q.freeNodes = r.freeNodes
  /\ q.freeStorage = r.freeStorage
  /\ \A i \in Ids(n) : SameInChain(q.nodes[i], r.nodes[i])

LEMMA UnlinkFields ==
  ASSUME Ram!MiniRamAssumption, NEW n \in Nat, NEW r, Shaped(r, n), NEW H \in SUBSET Ids(n), Lists(r, H),
         NEW id \in H
  PROVE  LeftList(r, OutOfList(r, id), n, H, id)
<1> PICK node : node = r.nodes[id]
  OBVIOUS
<1> PICK q : q = OutOfList(r, id)
  OBVIOUS
<1>0. q = IF node.binPrev # Ram!Invalid
          THEN [r EXCEPT !.nodes = Ram!Linked(Ram!Linked(@, node.binPrev, "binNext", node.binNext),
                                              node.binNext, "binPrev", node.binPrev)]
          ELSE Ram!UnlinkHead(r, Ram!FloorToFloat(node.dataSize), node.binNext)
  BY DEF OutOfList
<1>1. /\ r.nodes \in [Ids(n) -> Node] /\ r.bins \in [Ram!Bin -> Int] /\ r.usedBins \subseteq Ram!Bin
      /\ \A i \in Ids(n) : Ram!FloorToFloat(r.nodes[i].dataSize) \in Ram!Bin
  BY ShapeFacts
<1>2. PICK p \in Int, x \in Int, b \in Ram!Bin :
        p = node.binPrev /\ x = node.binNext /\ b = Ram!FloorToFloat(node.dataSize)
  <2>1. node \in Node /\ id \in Ids(n)
    BY <1>1
  <2>2. node.binPrev \in Int /\ node.binNext \in Int
    BY <2>1 DEF Node
  <2>3. Ram!FloorToFloat(node.dataSize) \in Ram!Bin
    BY <1>1, <2>1
  <2> QED BY <2>2, <2>3
<1>3. /\ p # Ram!Invalid => p \in H /\ r.nodes[p].binNext = id
      /\ x # Ram!Invalid => x \in H /\ r.nodes[x].binPrev = id
      /\ \A i \in H : (r.nodes[i].binNext = id => i = p) /\ (r.nodes[i].binPrev = id => i = x)
      /\ \A i \in H : i # Ram!Invalid
  BY <1>2 DEF Lists, Ids, Ram!Invalid
<1>4. CASE p # Ram!Invalid
  <2> DEFINE one == Ram!Linked(r.nodes, p, "binNext", x)
             two == Ram!Linked(one, x, "binPrev", p)
  <2>1. one = [r.nodes EXCEPT ![p]["binNext"] = x]
    BY <1>4 DEF Ram!Linked
  <2>2. one \in [Ids(n) -> Node]
        /\ \A i \in Ids(n) : /\ SameInChain(one[i], r.nodes[i])
                             /\ one[i].binPrev = r.nodes[i].binPrev
                             /\ one[i].binNext = IF i = p THEN x ELSE r.nodes[i].binNext
    BY <1>1, <1>3, <1>4, <2>1 DEF Node, SameInChain
  <2> HIDE DEF one
  <2>3. two \in [Ids(n) -> Node]
        /\ \A i \in Ids(n) : /\ SameInChain(two[i], one[i])
                             /\ two[i].binNext = one[i].binNext
                             /\ two[i].binPrev = IF x # Ram!Invalid /\ i = x THEN p ELSE one[i].binPrev
    <3>1. CASE x = Ram!Invalid
      <4>1. two = one
        BY <3>1 DEF Ram!Linked
      <4> QED BY <2>2, <3>1, <4>1 DEF SameInChain
    <3>2. CASE x # Ram!Invalid
      <4>1. two = [one EXCEPT ![x]["binPrev"] = p]
        BY <3>2 DEF Ram!Linked
      <4> HIDE DEF two
      <4> QED BY <1>3, <2>2, <3>2, <4>1 DEF Node, SameInChain
    <3> QED BY <3>1, <3>2
  <2>4. PICK nodes : nodes = two
    OBVIOUS
  <2>5. q = [r EXCEPT !.nodes = nodes]
    BY <1>0, <1>2, <1>4, <2>4 DEF one
  <2> HIDE DEF two
  <2>6. /\ q.nodes = nodes /\ q.sp = r.sp /\ q.freeNodes = r.freeNodes /\ q.bins = r.bins
        /\ q.usedBins = r.usedBins /\ q.freeStorage = r.freeStorage /\ Shaped(q, n)
    BY <2>3, <2>4, <2>5 DEF Shaped
  <2>7. \A i \in Ids(n) : SameInChain(q.nodes[i], r.nodes[i])
    BY <2>2, <2>3, <2>4, <2>6 DEF SameInChain
  <2>8. ASSUME NEW i \in H \ {id}
        PROVE  /\ q.nodes[i].dataSize = r.nodes[i].dataSize
               /\ q.nodes[i].binNext = IF r.nodes[i].binNext = id THEN x ELSE r.nodes[i].binNext
               /\ q.nodes[i].binPrev = IF r.nodes[i].binPrev = id THEN p ELSE r.nodes[i].binPrev
    <3>1. i \in Ids(n) /\ i \in H /\ q.nodes[i] = two[i]
      BY <2>4, <2>6
    <3>2. q.nodes[i].binNext = IF i = p THEN x ELSE r.nodes[i].binNext
      BY <2>2, <2>3, <3>1
    <3>3. q.nodes[i].binPrev = IF x # Ram!Invalid /\ i = x THEN p ELSE r.nodes[i].binPrev
      BY <2>2, <2>3, <3>1
    <3>4. (r.nodes[i].binNext = id <=> i = p) /\ (r.nodes[i].binPrev = id <=> x # Ram!Invalid /\ i = x)
      BY <1>3, <1>4, <3>1
    <3>5. q.nodes[i].dataSize = r.nodes[i].dataSize
      BY <2>7, <3>1 DEF SameInChain
    <3> QED BY <3>2, <3>3, <3>4, <3>5
  <2>9. Unlinked(r, q, H, id)
    BY <1>2, <1>4, <2>6, <2>8 DEF Unlinked
  <2> QED BY <2>6, <2>7, <2>9 DEF LeftList
<1>5. CASE p = Ram!Invalid
  <2> DEFINE one == Ram!Linked(r.nodes, x, "binPrev", Ram!Invalid)
  <2>1. one \in [Ids(n) -> Node]
        /\ \A i \in Ids(n) : /\ SameInChain(one[i], r.nodes[i])
                             /\ one[i].binNext = r.nodes[i].binNext
                             /\ one[i].binPrev = IF x # Ram!Invalid /\ i = x THEN Ram!Invalid
                                                 ELSE r.nodes[i].binPrev
    <3>1. CASE x = Ram!Invalid
      <4>1. one = r.nodes
        BY <3>1 DEF Ram!Linked
      <4> QED BY <1>1, <3>1, <4>1 DEF SameInChain
    <3>2. CASE x # Ram!Invalid
      <4>1. one = [r.nodes EXCEPT ![x]["binPrev"] = Ram!Invalid]
        BY <3>2 DEF Ram!Linked
      <4> HIDE DEF one
      <4> QED BY <1>1, <1>2, <1>3, <1>5, <3>2, <4>1 DEF Node, SameInChain
    <3> QED BY <3>1, <3>2
  <2>2. PICK nodes, bins, used :
          /\ nodes = one /\ bins = [r.bins EXCEPT ![b] = x]
          /\ used = IF x = Ram!Invalid THEN r.usedBins \ {b} ELSE r.usedBins
    OBVIOUS
  <2>3. q = [r EXCEPT !.bins = bins, !.nodes = nodes, !.usedBins = used]
    BY <1>0, <1>2, <1>5, <2>2 DEF Ram!UnlinkHead
  <2> HIDE DEF one
  <2>4. bins \in [Ram!Bin -> Int] /\ used \in SUBSET Ram!Bin
    BY <1>1, <2>2
  <2>5. /\ q.nodes = nodes /\ q.sp = r.sp /\ q.freeNodes = r.freeNodes /\ q.bins = bins
        /\ q.usedBins = used /\ q.freeStorage = r.freeStorage /\ Shaped(q, n)
    BY <2>1, <2>2, <2>3, <2>4 DEF Shaped
  <2>6. \A i \in H \ {id} :
          /\ q.nodes[i].dataSize = r.nodes[i].dataSize
          /\ q.nodes[i].binNext = IF r.nodes[i].binNext = id THEN x ELSE r.nodes[i].binNext
          /\ q.nodes[i].binPrev = IF r.nodes[i].binPrev = id THEN p ELSE r.nodes[i].binPrev
    BY <1>3, <1>5, <2>1, <2>2, <2>5 DEF SameInChain
  <2>7. Unlinked(r, q, H, id)
    BY <1>2, <1>5, <2>2, <2>5, <2>6 DEF Unlinked
  <2> QED BY <2>1, <2>2, <2>5, <2>7 DEF LeftList
<1> QED BY <1>4, <1>5

LEMMA RemoveCore ==
  ASSUME Ram!MiniRamAssumption, NEW n, NEW r, Core(r, n), NEW id \in Ram!Holes(r)
  PROVE  Gone(r, Ram!RemoveNode(r, id), n, id)
<1>0. n \in Nat /\ Shaped(r, n) /\ StackHolds(r.freeNodes, r.sp, n)
      /\ (\A i \in Ids(n) : r.nodes[i].used => i \in Ram!LiveIds(r))
      /\ Lists(r, Ram!Holes(r)) /\ Ranked(r, n, Ram!Holes(r)) /\ Stored(r, n)
  BY DEF Core
<1>1. /\ r.nodes \in [Ids(n) -> Node] /\ DOMAIN r.nodes = Ids(n)
      /\ r.bins \in [Ram!Bin -> Int] /\ r.freeStorage \in Nat
      /\ Ram!LiveIds(r) = Ids(n) \ Above(r.freeNodes, r.sp, n)
      /\ Ram!Holes(r) = { i \in Ram!LiveIds(r) : ~r.nodes[i].used }
      /\ \A i \in Ids(n) : Ram!FloorToFloat(r.nodes[i].dataSize) \in Ram!Bin
  BY <1>0, ShapeFacts
<1>2. PICK H \in SUBSET Ids(n) : H = Ram!Holes(r)
  BY <1>1
<1>3. id \in H /\ id \in Ids(n) /\ id \in Ram!LiveIds(r)
  BY <1>1, <1>2
<1>4. PICK node \in Node : node = r.nodes[id]
  BY <1>1, <1>3
<1>5. PICK u : u = OutOfList(r, id)
  OBVIOUS
<1>6. /\ Shaped(u, n) /\ Unlinked(r, u, H, id) /\ u.sp = r.sp /\ u.freeNodes = r.freeNodes
      /\ u.freeStorage = r.freeStorage
      /\ \A i \in Ids(n) : SameInChain(u.nodes[i], r.nodes[i])
  <2>1. LeftList(r, OutOfList(r, id), n, H, id)
    BY <1>0, <1>2, <1>3, UnlinkFields
  <2> QED BY <1>5, <2>1 DEF LeftList
<1>7. PICK w \in [Ids(n) -> Nat] :
        w = Weights(r) /\ \A i \in Ids(n) : w[i] = IF i \in H THEN r.nodes[i].dataSize ELSE 0
  BY <1>1, <1>2, WeightsAre
<1>8. PICK s : IsSum(s, w, n) /\ r.freeStorage = s[n]
  BY <1>0, <1>7 DEF Stored
<1>9. w[id] = node.dataSize /\ w[id] <= s[n] /\ w[id] \in Nat
  BY <1>0, <1>3, <1>4, <1>7, <1>8, SumAtLeast
<1>10. PICK room \in Nat : room = r.freeStorage - node.dataSize
  BY <1>1, <1>8, <1>9
<1>11. PICK v : v = [u EXCEPT !.freeStorage = room]
  OBVIOUS
<1>12. /\ Shaped(v, n) /\ v.sp = u.sp /\ v.freeNodes = u.freeNodes /\ v.nodes = u.nodes
       /\ v.bins = u.bins /\ v.usedBins = u.usedBins /\ v.freeStorage = room
  BY <1>6, <1>11 DEF Shaped
<1>13. Ram!LiveIds(v) = Ram!LiveIds(r) /\ StackHolds(v.freeNodes, v.sp, n)
  BY <1>0, <1>1, <1>6, <1>12, ShapeFacts
<1>14. PICK q : q = Ram!PushFreeNode(v, id)
  OBVIOUS
<1>15. q = Ram!RemoveNode(r, id)
  <2>1. q = Ram!PushFreeNode([u EXCEPT !.freeStorage = @ - node.dataSize], id)
    BY <1>6, <1>10, <1>11, <1>14
  <2> QED BY <1>4, <1>5, <2>1 DEF Ram!RemoveNode, OutOfList
<1>16. PushedBack(v, q, n, id)
  BY <1>0, <1>3, <1>12, <1>13, <1>14, PushFields
<1>17. /\ Shaped(q, n) /\ StackHolds(q.freeNodes, q.sp, n) /\ Ram!LiveIds(q) = Ram!LiveIds(r) \ {id}
       /\ q.sp < n /\ Ram!TopFreeNode(q) = id
       /\ q.nodes = [u.nodes EXCEPT ![id] = Ram!FreshNode] /\ q.freeStorage = room
       /\ q.bins = u.bins /\ q.usedBins = u.usedBins
  BY <1>12, <1>13, <1>16 DEF PushedBack
<1>18. u.nodes \in [Ids(n) -> Node]
  BY <1>0, <1>6, ShapeFacts
<1>19. q.nodes[id].used = FALSE /\ \A i \in Ids(n) \ {id} : q.nodes[i] = u.nodes[i]
  BY <1>3, <1>17, <1>18 DEF Ram!FreshNode
<1>20. \A i \in Ids(n) \ {id} : SameInChain(q.nodes[i], r.nodes[i])
  BY <1>6, <1>19
<1>21. Ram!Holes(q) = H \ {id}
  BY <1>1, <1>2, <1>17, <1>19, <1>20 DEF Ram!Holes, SameInChain
<1>22. Lists(q, H \ {id}) /\ Ranked(q, n, H \ {id})
  <2>1. Unlinked(r, q, H, id)
    <3>1. \A i \in H \ {id} : q.nodes[i] = u.nodes[i]
      BY <1>19
    <3> QED BY <1>6, <1>17, <3>1 DEF Unlinked
  <2>2. \A i \in H : Ram!FloorToFloat(r.nodes[i].dataSize) \in Ram!Bin
    BY <1>1
  <2> QED BY <1>0, <1>1, <1>2, <1>3, <2>1, <2>2, ListsUnlink
<1>23. Stored(q, n)
  <2>1. q.nodes \in [Ids(n) -> Node]
    BY <1>17, <1>18, FreshIs
  <2>2. PICK x \in [Ids(n) -> Int] :
          x = Weights(q) /\ \A i \in Ids(n) : x[i] = IF i \in H \ {id} THEN q.nodes[i].dataSize ELSE 0
    BY <1>21, <2>1, WeightsAre
  <2>3. PICK y \in [Ids(n) -> Int] : y = w
    BY <1>7
  <2>4. \A i \in Ids(n) : i # id => x[i] = y[i]
    BY <1>7, <1>20, <2>2, <2>3 DEF SameInChain
  <2>5. PICK t : IsSum(t, x, n) /\ t[n] = s[n] - y[id] + x[id]
    BY <1>0, <1>3, <1>8, <2>3, <2>4, SumChanges
  <2>6. x[id] = 0 /\ s[n] \in Int
    BY <1>1, <1>3, <1>8, <2>2
  <2>7. t[n] = q.freeStorage
    BY <1>8, <1>9, <1>10, <1>17, <2>3, <2>5, <2>6
  <2> QED BY <2>2, <2>5, <2>7 DEF Stored
<1>24. \A i \in Ids(n) : q.nodes[i].used => i \in Ram!LiveIds(q)
  BY <1>0, <1>17, <1>19, <1>20 DEF SameInChain
<1>25. Core(q, n)
  <2>1. n \in Nat \ {0}
    BY DEF Core
  <2> QED BY <1>17, <1>21, <1>22, <1>23, <1>24, <2>1 DEF Core
<1> QED BY <1>2, <1>15, <1>17, <1>20, <1>21, <1>25 DEF Gone

\* From r to q node id was put between two others.
Joined(r, q, n, prev, id, next) ==
  /\ Core(q, n) /\ Ram!LiveIds(q) = Ram!LiveIds(r) /\ Ram!Holes(q) = Ram!Holes(r)
  /\ \A i \in Ids(n) :
       /\ q.nodes[i].dataOffset = r.nodes[i].dataOffset
       /\ q.nodes[i].dataSize = r.nodes[i].dataSize /\ q.nodes[i].used = r.nodes[i].used
       /\ q.nodes[i].prev = IF i = id THEN prev ELSE IF i = next THEN id ELSE r.nodes[i].prev
       /\ q.nodes[i].next = IF i = id THEN next ELSE IF i = prev THEN id ELSE r.nodes[i].next

LEMMA JoinCore ==
  ASSUME Ram!MiniRamAssumption, NEW n, NEW r, Core(r, n), NEW id \in Ids(n),
         NEW prev \in (Ids(n) \ {id}) \cup {Ram!Invalid}, NEW next \in (Ids(n) \ {id}) \cup {Ram!Invalid}
  PROVE  Joined(r, Ram!Join(r, prev, id, next), n, prev, id, next)
<1>0. n \in Nat \ {0} /\ Shaped(r, n) /\ StackHolds(r.freeNodes, r.sp, n)
      /\ (\A i \in Ids(n) : r.nodes[i].used => i \in Ram!LiveIds(r))
      /\ Lists(r, Ram!Holes(r)) /\ Ranked(r, n, Ram!Holes(r)) /\ Stored(r, n)
  BY DEF Core
<1>1. /\ r.nodes \in [Ids(n) -> Node] /\ DOMAIN r.nodes = Ids(n)
      /\ Ram!LiveIds(r) = Ids(n) \ Above(r.freeNodes, r.sp, n)
      /\ Ram!Holes(r) = { i \in Ram!LiveIds(r) : ~r.nodes[i].used }
  BY <1>0, ShapeFacts
<1>2. \A i \in Ids(n) : i # Ram!Invalid /\ i \in Int
  BY DEF Ids, Ram!Invalid
<1>3. Ram!Invalid \in Int
  BY DEF Ram!Invalid
<1> DEFINE one == [r.nodes EXCEPT ![id].prev = prev, ![id].next = next]
           two == Ram!Linked(one, next, "prev", id)
           three == Ram!Linked(two, prev, "next", id)
           Rest(a, b) == /\ a.dataOffset = b.dataOffset /\ a.dataSize = b.dataSize
                         /\ a.used = b.used /\ a.binPrev = b.binPrev /\ a.binNext = b.binNext
<1>4. one \in [Ids(n) -> Node]
      /\ \A i \in Ids(n) : /\ Rest(one[i], r.nodes[i])
                           /\ one[i].prev = IF i = id THEN prev ELSE r.nodes[i].prev
                           /\ one[i].next = IF i = id THEN next ELSE r.nodes[i].next
  BY <1>1, <1>2, <1>3 DEF Node
<1> HIDE DEF one
<1>5. two \in [Ids(n) -> Node]
      /\ \A i \in Ids(n) : /\ Rest(two[i], one[i]) /\ two[i].next = one[i].next
                           /\ two[i].prev = IF i = next THEN id ELSE one[i].prev
  <2>1. CASE next = Ram!Invalid
    <3>1. two = one
      BY <2>1 DEF Ram!Linked
    <3> QED BY <1>2, <1>4, <2>1, <3>1
  <2>2. CASE next # Ram!Invalid
    <3>1. two = [one EXCEPT ![next]["prev"] = id]
      BY <2>2 DEF Ram!Linked
    <3> HIDE DEF two
    <3> QED BY <1>2, <1>4, <2>2, <3>1 DEF Node
  <2> QED BY <2>1, <2>2
<1> HIDE DEF two
<1>6. three \in [Ids(n) -> Node]
      /\ \A i \in Ids(n) : /\ Rest(three[i], two[i]) /\ three[i].prev = two[i].prev
                           /\ three[i].next = IF i = prev THEN id ELSE two[i].next
  <2>1. CASE prev = Ram!Invalid
    <3>1. three = two
      BY <2>1 DEF Ram!Linked
    <3> QED BY <1>2, <1>5, <2>1, <3>1
  <2>2. CASE prev # Ram!Invalid
    <3>1. three = [two EXCEPT ![prev]["next"] = id]
      BY <2>2 DEF Ram!Linked
    <3> HIDE DEF three
    <3> QED BY <1>2, <1>5, <2>2, <3>1 DEF Node
  <2> QED BY <2>1, <2>2
<1>7. PICK q : q = Ram!Join(r, prev, id, next)
  OBVIOUS
<1>8. PICK nodes : nodes = three
  OBVIOUS
<1>9. q = [r EXCEPT !.nodes = nodes]
  BY <1>7, <1>8 DEF Ram!Join, one, two
<1> HIDE DEF three
<1>10. /\ q.nodes = nodes /\ q.sp = r.sp /\ q.freeNodes = r.freeNodes /\ q.bins = r.bins
       /\ q.usedBins = r.usedBins /\ q.freeStorage = r.freeStorage /\ Shaped(q, n)
  BY <1>0, <1>6, <1>8, <1>9 DEF Shaped
<1>11. \A i \in Ids(n) :
         /\ Rest(q.nodes[i], r.nodes[i])
         /\ q.nodes[i].prev = IF i = id THEN prev ELSE IF i = next THEN id ELSE r.nodes[i].prev
         /\ q.nodes[i].next = IF i = id THEN next ELSE IF i = prev THEN id ELSE r.nodes[i].next
  <2> HIDE DEF Rest
  <2>1. \A a, b, c : Rest(a, b) /\ Rest(b, c) => Rest(a, c)
    BY DEF Rest
  <2> QED BY <1>2, <1>4, <1>5, <1>6, <1>8, <1>10, <2>1
<1>12. Ram!LiveIds(q) = Ram!LiveIds(r)
  BY <1>0, <1>1, <1>10, ShapeFacts
<1>13. Ram!Holes(q) = Ram!Holes(r) /\ Ram!Holes(r) \subseteq Ids(n)
  BY <1>1, <1>11, <1>12 DEF Ram!Holes
<1>14. Lists(q, Ram!Holes(q)) /\ Ranked(q, n, Ram!Holes(q))
  <2>1. LinksKept(r, q, Ram!Holes(r))
    BY <1>10, <1>11, <1>13 DEF LinksKept
  <2> QED BY <1>0, <1>13, <2>1, ListsFrame
<1>15. Stored(q, n)
  <2>1. Weights(q) = Weights(r)
    <3>1. DOMAIN q.nodes = Ids(n)
      BY <1>6, <1>8, <1>10
    <3> QED BY <1>1, <1>11, <1>13, <3>1 DEF Weights
  <2> QED BY <1>0, <1>10, <2>1 DEF Stored
<1>16. Core(q, n)
  BY <1>0, <1>10, <1>11, <1>12, <1>14, <1>15 DEF Core
<1> QED BY <1>7, <1>11, <1>12, <1>13, <1>16 DEF Joined

\* From r to q there are m nodes instead of n.
Grew(r, q, n, m) ==
  /\ Core(q, m) /\ Ram!LiveIds(q) = Ram!LiveIds(r) /\ Ram!Holes(q) = Ram!Holes(r) /\ q.sp = r.sp
  /\ q.bins = r.bins /\ q.usedBins = r.usedBins /\ q.freeStorage = r.freeStorage
  /\ \A i \in Ids(n) : q.nodes[i] = r.nodes[i]

AtLeast(n, number) == IF number <= n THEN n ELSE number

LEMMA ReserveCore ==
  ASSUME Ram!MiniRamAssumption, NEW n, NEW r, Core(r, n), NEW number \in Nat
  PROVE  Grew(r, Ram!ReserveNodes(r, number), n, AtLeast(n, number))
<1>0. n \in Nat \ {0} /\ Shaped(r, n) /\ StackHolds(r.freeNodes, r.sp, n)
      /\ (\A i \in Ids(n) : r.nodes[i].used => i \in Ram!LiveIds(r))
      /\ Lists(r, Ram!Holes(r)) /\ Ranked(r, n, Ram!Holes(r)) /\ Stored(r, n)
  BY DEF Core
<1>1. /\ r.nodes \in [Ids(n) -> Node] /\ DOMAIN r.nodes = Ids(n) /\ Ram!NodeCount(r) = n
      /\ r.freeNodes \in [Ids(n) -> Ids(n)] /\ r.sp \in 0 .. n
      /\ Ram!LiveIds(r) = Ids(n) \ Above(r.freeNodes, r.sp, n)
      /\ Ram!Holes(r) = { i \in Ram!LiveIds(r) : ~r.nodes[i].used }
  BY <1>0, ShapeFacts
<1>2. PICK q : q = Ram!ReserveNodes(r, number)
  OBVIOUS
<1>3. CASE number <= n
  <2>1. q = r /\ AtLeast(n, number) = n
    BY <1>1, <1>2, <1>3 DEF Ram!ReserveNodes, AtLeast
  <2> QED BY <1>2, <2>1 DEF Grew
<1>4. CASE number > n
  <2>1. ~(number <= n) /\ AtLeast(n, number) = number /\ n <= number
    BY <1>0, <1>4 DEF AtLeast
  <2>2. PICK nodes, free :
          /\ nodes = [i \in Ids(number) |-> IF i \in Ids(n) THEN r.nodes[i] ELSE Ram!FreshNode]
          /\ free = [i \in Ids(number) |-> IF i \in Ids(n) THEN r.freeNodes[i] ELSE i]
    OBVIOUS
  <2>3. q = [r EXCEPT !.nodes = nodes, !.freeNodes = free]
    <3>1. DOMAIN r.freeNodes = Ids(n)
      BY <1>1
    <3> QED BY <1>1, <1>2, <2>1, <2>2, <3>1 DEF Ram!ReserveNodes, Ids
  <2>4. Ids(n) \subseteq Ids(number)
    BY <1>0, <2>1 DEF Ids
  <2>5. nodes \in [Ids(number) -> Node]
    BY <1>1, <2>2, FreshIs
  <2>6. /\ free \in [Ids(number) -> Ids(number)]
        /\ Ids(number) \ Above(free, r.sp, number) = Ids(n) \ Above(r.freeNodes, r.sp, n)
        /\ StackHolds(free, r.sp, number)
    <3>1. PICK old \in [Ids(n) -> Ids(n)], sp \in 0 .. n : old = r.freeNodes /\ sp = r.sp
      BY <1>1
    <3>2. free = [i \in Ids(number) |-> IF i \in Ids(n) THEN old[i] ELSE i] /\ StackHolds(old, sp, n)
      BY <1>0, <2>2, <3>1
    <3>3. /\ free \in [Ids(number) -> Ids(number)]
          /\ Ids(number) \ Above(free, sp, number) = Ids(n) \ Above(old, sp, n)
          /\ StackHolds(free, sp, number)
      BY <1>0, <2>1, <3>2, StackGrows
    <3> QED BY <3>1, <3>3
  <2>7. r.sp \in 0 .. number
    BY <1>0, <1>1, <2>1
  <2>8. /\ q.nodes = nodes /\ q.freeNodes = free /\ q.sp = r.sp /\ q.bins = r.bins
        /\ q.usedBins = r.usedBins /\ q.freeStorage = r.freeStorage /\ Shaped(q, number)
    BY <1>0, <2>3, <2>5, <2>6, <2>7 DEF Shaped
  <2>9. Ram!LiveIds(q) = Ram!LiveIds(r) /\ StackHolds(q.freeNodes, q.sp, number)
    BY <1>1, <2>6, <2>8, ShapeFacts
  <2>10. /\ \A i \in Ids(n) : q.nodes[i] = r.nodes[i]
         /\ \A i \in Ids(number) \ Ids(n) : q.nodes[i].used = FALSE
    BY <2>2, <2>4, <2>8 DEF Ram!FreshNode
  <2>11. Ram!Holes(q) = Ram!Holes(r) /\ Ram!Holes(r) \subseteq Ids(n)
    BY <1>1, <2>9, <2>10 DEF Ram!Holes
  <2>12. Lists(q, Ram!Holes(q)) /\ Ranked(q, number, Ram!Holes(q))
    <3>1. LinksKept(r, q, Ram!Holes(r))
      BY <2>8, <2>10, <2>11 DEF LinksKept
    <3>2. Lists(q, Ram!Holes(r)) /\ Ranked(q, n, Ram!Holes(r))
      BY <1>0, <3>1, ListsFrame
    <3>3. PICK rank \in [Ids(n) -> Nat] :
            \A i \in Ram!Holes(r) : q.nodes[i].binNext # Ram!Invalid => rank[i] < rank[q.nodes[i].binNext]
      BY <3>2 DEF Ranked
    <3> DEFINE wide == [i \in Ids(number) |-> IF i \in Ids(n) THEN rank[i] ELSE 0]
    <3>4. wide \in [Ids(number) -> Nat] /\ \A i \in Ids(n) : wide[i] = rank[i]
      BY <2>4
    <3> HIDE DEF wide
    <3>5. \A i \in Ram!Holes(r) : q.nodes[i].binNext # Ram!Invalid => q.nodes[i].binNext \in Ram!Holes(r)
      BY <3>2 DEF Lists
    <3>6. \A i \in Ram!Holes(r) : q.nodes[i].binNext # Ram!Invalid => wide[i] < wide[q.nodes[i].binNext]
      BY <2>11, <3>3, <3>4, <3>5
    <3>7. Ranked(q, number, Ram!Holes(r))
      BY <3>4, <3>6 DEF Ranked
    <3> QED BY <2>11, <3>2, <3>7
  <2>13. Stored(q, number)
    <3>1. PICK w \in [Ids(n) -> Int] :
            w = Weights(r) /\ \A i \in Ids(n) : w[i] = IF i \in Ram!Holes(r) THEN r.nodes[i].dataSize ELSE 0
      BY <1>1, WeightsAre
    <3>2. PICK v \in [Ids(number) -> Int] :
            v = Weights(q)
            /\ \A i \in Ids(number) : v[i] = IF i \in Ram!Holes(q) THEN q.nodes[i].dataSize ELSE 0
      BY <2>5, <2>8, WeightsAre
    <3>3. PICK s : IsSum(s, w, n) /\ r.freeStorage = s[n]
      BY <1>0, <3>1 DEF Stored
    <3>4. \A j \in Ids(number) : v[j] = IF j \in Ids(n) THEN w[j] ELSE 0
      BY <2>10, <2>11, <3>1, <3>2
    <3>5. PICK t : IsSum(t, v, number) /\ t[number] = s[n]
      BY <1>0, <2>1, <3>3, <3>4, SumExtends
    <3> QED BY <2>8, <3>2, <3>3, <3>5 DEF Stored
  <2>14. \A i \in Ids(number) : q.nodes[i].used => i \in Ram!LiveIds(q)
    BY <1>0, <2>9, <2>10
  <2>15. Core(q, number)
    <3>1. number \in Nat \ {0}
      BY <1>0, <1>4
    <3> QED BY <2>8, <2>9, <2>12, <2>13, <2>14, <3>1 DEF Core
  <2> QED BY <1>2, <2>1, <2>8, <2>9, <2>10, <2>11, <2>15 DEF Grew
<1> QED BY <1>0, <1>3, <1>4

\* The head of a list is taken for an allocation of a part of it.
Taken(r, bin, id, size) ==
  Ram!UnlinkHead([r EXCEPT !.freeStorage = @ - r.nodes[id].dataSize, !.nodes[id].dataSize = size,
                           !.nodes[id].used = TRUE, !.nodes[id].binNext = Ram!Invalid],
                 bin, r.nodes[id].binNext)

TakenFrom(r, q, n, id, size) ==
  /\ Core(q, n) /\ Ram!LiveIds(q) = Ram!LiveIds(r) /\ Ram!Holes(q) = Ram!Holes(r) \ {id} /\ q.sp = r.sp
  /\ q.nodes[id].used /\ q.nodes[id].dataSize = size
  /\ q.nodes[id].dataOffset = r.nodes[id].dataOffset
  /\ q.nodes[id].prev = r.nodes[id].prev /\ q.nodes[id].next = r.nodes[id].next
  /\ \A i \in Ids(n) \ {id} : SameInChain(q.nodes[i], r.nodes[i])

LEMMA TakenCore ==
  ASSUME Ram!MiniRamAssumption, NEW n, NEW r, Core(r, n), NEW bin \in Ram!Bin, NEW id, id = r.bins[bin],
         id # Ram!Invalid, NEW size \in 0 .. r.nodes[id].dataSize
  PROVE  TakenFrom(r, Taken(r, bin, id, size), n, id, size)
<1>0. n \in Nat \ {0} /\ Shaped(r, n) /\ StackHolds(r.freeNodes, r.sp, n)
      /\ (\A i \in Ids(n) : r.nodes[i].used => i \in Ram!LiveIds(r))
      /\ Lists(r, Ram!Holes(r)) /\ Ranked(r, n, Ram!Holes(r)) /\ Stored(r, n)
  BY DEF Core
<1>1. /\ r.nodes \in [Ids(n) -> Node] /\ DOMAIN r.nodes = Ids(n)
      /\ r.bins \in [Ram!Bin -> Int] /\ r.usedBins \subseteq Ram!Bin /\ r.freeStorage \in Nat
      /\ Ram!LiveIds(r) = Ids(n) \ Above(r.freeNodes, r.sp, n)
      /\ Ram!Holes(r) = { i \in Ram!LiveIds(r) : ~r.nodes[i].used }
      /\ \A i \in Ids(n) : Ram!FloorToFloat(r.nodes[i].dataSize) \in Ram!Bin
  BY <1>0, ShapeFacts
<1>2. PICK H \in SUBSET Ids(n) : H = Ram!Holes(r)
  BY <1>1
<1>3. /\ id \in H /\ id \in Ids(n) /\ id \in Ram!LiveIds(r)
      /\ Ram!FloorToFloat(r.nodes[id].dataSize) = bin /\ r.nodes[id].binPrev = Ram!Invalid
  BY <1>0, <1>1, <1>2 DEF Lists
<1>4. PICK x \in Int, full \in 0 .. Capacity :
        x = r.nodes[id].binNext /\ full = r.nodes[id].dataSize
  <2>1. r.nodes[id] \in Node
    BY <1>1, <1>3
  <2> QED BY <2>1 DEF Node
<1>5. size \in 0 .. Capacity /\ Capacity \in Nat
  BY <1>4 DEF Ram!MiniRamAssumption
<1>6. /\ x # Ram!Invalid => x \in H /\ x \in Ids(n) /\ r.nodes[x].binPrev = id
      /\ \A i \in H : r.nodes[i].binNext # id /\ (r.nodes[i].binPrev = id => i = x)
      /\ \A i \in Ids(n) : i # Ram!Invalid
  BY <1>0, <1>2, <1>3, <1>4 DEF Lists, Ids, Ram!Invalid
<1>7. x # id
  <2>1. PICK rank \in [Ids(n) -> Nat] :
          \A i \in H : r.nodes[i].binNext # Ram!Invalid => rank[i] < rank[r.nodes[i].binNext]
    BY <1>0, <1>2 DEF Ranked
  <2>2. rank[id] \in Nat
    BY <1>3
  <2> QED BY <1>3, <1>4, <1>6, <2>1, <2>2
<1> DEFINE one == [r.nodes EXCEPT ![id].dataSize = size, ![id].used = TRUE, ![id].binNext = Ram!Invalid]
           two == Ram!Linked(one, x, "binPrev", Ram!Invalid)
<1>8. /\ one \in [Ids(n) -> Node]
      /\ \A i \in Ids(n) \ {id} : one[i] = r.nodes[i]
      /\ one[id].used = TRUE /\ one[id].dataSize = size
      /\ one[id].dataOffset = r.nodes[id].dataOffset
      /\ one[id].prev = r.nodes[id].prev /\ one[id].next = r.nodes[id].next
  <2> DEFINE sized == [r.nodes EXCEPT ![id].dataSize = size]
             taken == [sized EXCEPT ![id].used = TRUE]
  <2>1. /\ sized \in [Ids(n) -> Node] /\ \A i \in Ids(n) \ {id} : sized[i] = r.nodes[i]
        /\ sized[id].dataSize = size /\ sized[id].dataOffset = r.nodes[id].dataOffset
        /\ sized[id].prev = r.nodes[id].prev /\ sized[id].next = r.nodes[id].next
    BY <1>1, <1>3, <1>5 DEF Node
  <2> HIDE DEF sized
  <2>2. /\ taken \in [Ids(n) -> Node] /\ \A i \in Ids(n) \ {id} : taken[i] = r.nodes[i]
        /\ taken[id].used = TRUE
        /\ taken[id].dataSize = size /\ taken[id].dataOffset = r.nodes[id].dataOffset
        /\ taken[id].prev = r.nodes[id].prev /\ taken[id].next = r.nodes[id].next
    BY <1>3, <2>1 DEF Node
  <2>3. one = [taken EXCEPT ![id].binNext = Ram!Invalid]
    BY DEF sized
  <2> HIDE DEF taken, one
  <2> QED BY <1>3, <2>2, <2>3 DEF Node, Ram!Invalid
<1> HIDE DEF one
<1>9. /\ two \in [Ids(n) -> Node]
      /\ \A i \in Ids(n) \ {id} :
           /\ SameInChain(two[i], r.nodes[i]) /\ two[i].binNext = r.nodes[i].binNext
           /\ two[i].binPrev = IF i = x THEN Ram!Invalid ELSE r.nodes[i].binPrev
      /\ two[id] = one[id]
  <2>1. CASE x = Ram!Invalid
    <3>1. two = one
      BY <2>1 DEF Ram!Linked
    <3> QED BY <1>6, <1>8, <2>1, <3>1 DEF SameInChain
  <2>2. CASE x # Ram!Invalid
    <3>1. two = [one EXCEPT ![x]["binPrev"] = Ram!Invalid]
      BY <2>2 DEF Ram!Linked
    <3> HIDE DEF two
    <3>2. x \in Ids(n) \ {id} /\ Ram!Invalid \in Int
      BY <1>6, <1>7, <2>2 DEF Ram!Invalid
    <3>3. two \in [Ids(n) -> Node]
      BY <1>8, <3>1, <3>2 DEF Node
    <3>4. \A i \in Ids(n) :
            /\ SameInChain(two[i], one[i]) /\ two[i].binNext = one[i].binNext
            /\ two[i].binPrev = IF i = x THEN Ram!Invalid ELSE one[i].binPrev
      BY <1>8, <3>1, <3>2 DEF Node, SameInChain
    <3>5. two[id] = one[id]
      BY <1>3, <1>8, <3>1, <3>2
    <3> QED BY <1>8, <3>3, <3>4, <3>5
  <2> QED BY <2>1, <2>2
<1>10. PICK q : q = Taken(r, bin, id, size)
  OBVIOUS
<1>11. PICK w \in [Ids(n) -> Nat] :
        w = Weights(r) /\ \A i \in Ids(n) : w[i] = IF i \in H THEN r.nodes[i].dataSize ELSE 0
  BY <1>1, <1>2, WeightsAre
<1>12. PICK s : IsSum(s, w, n) /\ r.freeStorage = s[n]
  BY <1>0, <1>11 DEF Stored
<1>13. w[id] = full /\ w[id] <= s[n] /\ w[id] \in Nat
  BY <1>0, <1>3, <1>4, <1>11, <1>12, SumAtLeast
<1>14. PICK room \in Nat : room = r.freeStorage - full
  BY <1>1, <1>12, <1>13
<1>15. PICK nodes, bins, used :
         /\ nodes = two /\ bins = [r.bins EXCEPT ![bin] = x]
         /\ used = IF x = Ram!Invalid THEN r.usedBins \ {bin} ELSE r.usedBins
  OBVIOUS
<1>16. q = [r EXCEPT !.freeStorage = room, !.nodes = nodes, !.bins = bins, !.usedBins = used]
  <2>1. PICK u : u = [r EXCEPT !.freeStorage = room, !.nodes = one]
    OBVIOUS
  <2>2. u = [r EXCEPT !.freeStorage = @ - r.nodes[id].dataSize, !.nodes[id].dataSize = size,
                      !.nodes[id].used = TRUE, !.nodes[id].binNext = Ram!Invalid]
    BY <1>4, <1>14, <2>1 DEF one
  <2>3. q = Ram!UnlinkHead(u, bin, x)
    BY <1>4, <1>10, <2>2 DEF Taken
  <2>4. u.nodes = one /\ u.bins = r.bins /\ u.usedBins = r.usedBins
    BY <1>0, <2>1 DEF Shaped
  <2> QED BY <1>0, <1>15, <2>1, <2>3, <2>4 DEF Ram!UnlinkHead, Shaped
<1> HIDE DEF two
<1>17. bins \in [Ram!Bin -> Int] /\ used \in SUBSET Ram!Bin
  BY <1>1, <1>15
<1>18. /\ q.nodes = nodes /\ q.sp = r.sp /\ q.freeNodes = r.freeNodes /\ q.bins = bins
       /\ q.usedBins = used /\ q.freeStorage = room /\ Shaped(q, n)
  BY <1>0, <1>9, <1>15, <1>16, <1>17 DEF Shaped
<1>19. Ram!LiveIds(q) = Ram!LiveIds(r) /\ StackHolds(q.freeNodes, q.sp, n)
  BY <1>0, <1>1, <1>18, ShapeFacts
<1>20. /\ \A i \in Ids(n) \ {id} : SameInChain(q.nodes[i], r.nodes[i])
       /\ q.nodes[id] = one[id]
  BY <1>9, <1>15, <1>18
<1>21. Ram!Holes(q) = H \ {id}
  BY <1>1, <1>2, <1>8, <1>19, <1>20 DEF Ram!Holes, SameInChain
<1>22. Lists(q, H \ {id}) /\ Ranked(q, n, H \ {id})
  <2>1. \A i \in H \ {id} :
          /\ q.nodes[i].dataSize = r.nodes[i].dataSize
          /\ q.nodes[i].binNext = IF r.nodes[i].binNext = id THEN x ELSE r.nodes[i].binNext
          /\ q.nodes[i].binPrev = IF r.nodes[i].binPrev = id THEN Ram!Invalid ELSE r.nodes[i].binPrev
    <3> SUFFICES ASSUME NEW i \in H \ {id}
                 PROVE  /\ q.nodes[i].dataSize = r.nodes[i].dataSize
                        /\ q.nodes[i].binNext = IF r.nodes[i].binNext = id THEN x ELSE r.nodes[i].binNext
                        /\ q.nodes[i].binPrev = IF r.nodes[i].binPrev = id THEN Ram!Invalid ELSE r.nodes[i].binPrev
      OBVIOUS
    <3>1. i \in Ids(n) \ {id} /\ q.nodes[i] = two[i] /\ (i = x <=> r.nodes[i].binPrev = id)
      BY <1>6, <1>15, <1>18
    <3> QED BY <1>6, <1>9, <3>1 DEF SameInChain
  <2>2. Unlinked(r, q, H, id)
    BY <1>3, <1>4, <1>15, <1>18, <2>1 DEF Unlinked
  <2>3. \A i \in H : Ram!FloorToFloat(r.nodes[i].dataSize) \in Ram!Bin
    BY <1>1
  <2> QED BY <1>0, <1>1, <1>2, <1>3, <2>2, <2>3, ListsUnlink
<1>23. Stored(q, n)
  <2>1. q.nodes \in [Ids(n) -> Node]
    BY <1>9, <1>15, <1>18
  <2>2. PICK v \in [Ids(n) -> Int] :
          v = Weights(q) /\ \A i \in Ids(n) : v[i] = IF i \in H \ {id} THEN q.nodes[i].dataSize ELSE 0
    BY <1>21, <2>1, WeightsAre
  <2>3. PICK y \in [Ids(n) -> Int] : y = w
    BY <1>11
  <2>4. \A i \in Ids(n) : i # id => v[i] = y[i]
    BY <1>11, <1>20, <2>2, <2>3 DEF SameInChain
  <2>5. PICK t : IsSum(t, v, n) /\ t[n] = s[n] - y[id] + v[id]
    BY <1>0, <1>3, <1>12, <2>3, <2>4, SumChanges
  <2>6. v[id] = 0 /\ s[n] \in Int
    BY <1>1, <1>3, <1>12, <2>2
  <2>7. t[n] = q.freeStorage
    BY <1>12, <1>13, <1>14, <1>18, <2>3, <2>5, <2>6
  <2> QED BY <2>2, <2>5, <2>7 DEF Stored
<1>24. \A i \in Ids(n) : q.nodes[i].used => i \in Ram!LiveIds(q)
  BY <1>0, <1>3, <1>19, <1>20 DEF SameInChain
<1>25. Core(q, n)
  BY <1>0, <1>18, <1>19, <1>21, <1>22, <1>23, <1>24 DEF Core
<1> QED BY <1>2, <1>8, <1>10, <1>18, <1>19, <1>20, <1>21, <1>25 DEF TakenFrom

-----------------------------------------------------------------------------
(* The nodes one behind the other.                                         *)

Numbers(node, L) ==
  \A i \in L : i # Ram!Invalid /\ node[i].dataOffset \in Nat /\ node[i].dataSize \in Nat
               /\ node[i].used \in BOOLEAN

LEMMA Behind ==
  ASSUME NEW node, NEW L, NEW first, Chain(node, L, first), Numbers(node, L)
  PROVE  /\ \A i \in L : node[i].next # Ram!Invalid =>
              /\ node[i].next \in L /\ node[node[i].next].prev = i /\ node[i].dataSize > 0
              /\ node[node[i].next].dataOffset = node[i].dataOffset + node[i].dataSize
              /\ node[i].dataOffset < node[node[i].next].dataOffset
              /\ node[i].used \/ node[node[i].next].used
         /\ \A i \in L : node[i].prev # Ram!Invalid =>
              /\ node[i].prev \in L /\ node[node[i].prev].next = i /\ node[i].dataSize > 0
              /\ node[i].dataOffset = node[node[i].prev].dataOffset + node[node[i].prev].dataSize
              /\ node[node[i].prev].dataOffset < node[i].dataOffset
              /\ node[i].used \/ node[node[i].prev].used
<1>1. ASSUME NEW i \in L, node[i].next # Ram!Invalid
      PROVE  /\ node[i].next \in L /\ node[node[i].next].prev = i /\ node[i].dataSize > 0
             /\ node[node[i].next].dataOffset = node[i].dataOffset + node[i].dataSize
             /\ node[i].dataOffset < node[node[i].next].dataOffset
             /\ node[i].used \/ node[node[i].next].used
  BY <1>1 DEF Chain, Numbers
<1>2. ASSUME NEW i \in L, node[i].prev # Ram!Invalid
      PROVE  /\ node[i].prev \in L /\ node[node[i].prev].next = i /\ node[i].dataSize > 0
             /\ node[i].dataOffset = node[node[i].prev].dataOffset + node[node[i].prev].dataSize
             /\ node[node[i].prev].dataOffset < node[i].dataOffset
             /\ node[i].used \/ node[node[i].prev].used
  <2>1. node[i].prev \in L /\ node[node[i].prev].next = i /\ node[i].dataSize > 0
    BY <1>2 DEF Chain, Numbers
  <2>2. PICK p \in L : p = node[i].prev /\ node[p].next = i
    BY <2>1
  <2>3. node[p].next # Ram!Invalid
    BY <2>2 DEF Numbers
  <2> QED BY <1>1, <2>1, <2>2, <2>3
<1> QED BY <1>1, <1>2

\* From node to later a hole was cut in two, the first part of it used.
CutInTwo(node, later, L, id, new, size) ==
  /\ later[id].dataOffset = node[id].dataOffset /\ later[id].dataSize = size /\ later[id].used
  /\ later[id].prev = node[id].prev /\ later[id].next = new
  /\ later[new].dataOffset = node[id].dataOffset + size
  /\ later[new].dataSize = node[id].dataSize - size /\ later[new].used = FALSE
  /\ later[new].prev = id /\ later[new].next = node[id].next
  /\ \A i \in L \ {id} :
       /\ later[i].dataOffset = node[i].dataOffset /\ later[i].dataSize = node[i].dataSize
       /\ later[i].used = node[i].used /\ later[i].next = node[i].next
       /\ later[i].prev = IF i = node[id].next THEN new ELSE node[i].prev

LEMMA ChainCut ==
  ASSUME NEW node, NEW L, NEW first, Chain(node, L, first), Numbers(node, L), Capacity \in Nat,
         NEW id \in L, ~node[id].used, NEW new, new \notin L, new # Ram!Invalid,
         NEW size \in Nat, size > 0, size < node[id].dataSize,
         NEW later, CutInTwo(node, later, L, id, new, size)
  PROVE  Chain(later, L \cup {new}, first)
<1>1. node[id].dataOffset \in Nat /\ node[id].dataSize \in Nat /\ id # Ram!Invalid /\ id # new
  BY DEF Numbers
<1>2. PICK x : x = node[id].next
  OBVIOUS
<1>3. x # Ram!Invalid => x \in L /\ x # id /\ node[x].prev = id /\ node[x].used
                         /\ node[x].dataOffset = node[id].dataOffset + node[id].dataSize
  BY <1>1, <1>2, Behind
<1>4. \A i \in L : (node[i].next = id => node[i].used)
  BY <1>1, Behind
<1>5. first \in L /\ later[first].dataOffset = 0 /\ later[first].prev = Ram!Invalid
  <2>1. first \in L /\ node[first].dataOffset = 0 /\ node[first].prev = Ram!Invalid
    BY DEF Chain
  <2>2. x # first
    BY <1>1, <1>3, <2>1 DEF Numbers
  <2> QED BY <1>2, <2>1, <2>2 DEF CutInTwo
<1>6. ASSUME NEW i \in L \cup {new}
      PROVE  /\ later[i].dataOffset + later[i].dataSize <= Capacity
             /\ later[i].dataSize = 0 => later[i].prev = Ram!Invalid /\ later[i].next = Ram!Invalid
  <2>1. CASE i = id
    BY <1>1, <2>1 DEF CutInTwo, Chain
  <2>2. CASE i = new
    BY <1>1, <2>2 DEF CutInTwo, Chain
  <2>3. CASE i \in L \ {id}
    <3>1. /\ node[i].dataOffset + node[i].dataSize <= Capacity
          /\ node[i].dataSize = 0 => node[i].prev = Ram!Invalid /\ node[i].next = Ram!Invalid
      BY <2>3 DEF Chain
    <3>2. i = x => node[i].prev # Ram!Invalid
      BY <1>1, <1>2, <1>3, <2>3 DEF Numbers
    <3> QED BY <1>2, <2>3, <3>1, <3>2 DEF CutInTwo
  <2> QED BY <2>1, <2>2, <2>3
<1>7. ASSUME NEW i \in L \cup {new}
      PROVE  IF later[i].prev = Ram!Invalid THEN i = first
             ELSE later[i].prev \in L \cup {new} /\ later[later[i].prev].next = i
  <2>1. CASE i = new
    BY <1>1, <2>1 DEF CutInTwo
  <2>2. CASE i \in L /\ i = x
    <3>1. x \in L \ {id}
      BY <1>3, <2>2 DEF Numbers
    <3>2. later[x].prev = new /\ later[new].next = x
      BY <1>2, <3>1 DEF CutInTwo
    <3> QED BY <2>2, <3>2
  <2>3. CASE i \in L /\ i # x
    <3>1. later[i].prev = node[i].prev
      BY <1>2, <2>3 DEF CutInTwo
    <3>2. IF node[i].prev = Ram!Invalid THEN i = first
          ELSE node[i].prev \in L /\ node[node[i].prev].next = i
      BY <2>3 DEF Chain
    <3>3. node[i].prev # Ram!Invalid => node[i].prev # id /\ later[node[i].prev].next = i
      BY <1>2, <2>3, <3>2 DEF CutInTwo
    <3> QED BY <3>1, <3>2, <3>3
  <2> QED BY <2>1, <2>2, <2>3
<1>8. ASSUME NEW i \in L \cup {new}
      PROVE  IF later[i].next = Ram!Invalid THEN later[i].dataOffset + later[i].dataSize = Capacity
             ELSE /\ later[i].next \in L \cup {new} /\ later[later[i].next].prev = i
                  /\ later[later[i].next].dataOffset = later[i].dataOffset + later[i].dataSize
                  /\ later[i].used \/ later[later[i].next].used
  <2>1. CASE i = id
    BY <1>1, <2>1 DEF CutInTwo
  <2>2. CASE i = new
    <3>1. later[new].dataOffset + later[new].dataSize = node[id].dataOffset + node[id].dataSize
      BY <1>1 DEF CutInTwo
    <3>2. x = Ram!Invalid => node[id].dataOffset + node[id].dataSize = Capacity
      BY <1>2 DEF Chain
    <3> QED BY <1>2, <1>3, <2>2, <3>1, <3>2 DEF CutInTwo
  <2>3. CASE i \in L \ {id}
    <3>1. IF node[i].next = Ram!Invalid THEN node[i].dataOffset + node[i].dataSize = Capacity
          ELSE /\ node[i].next \in L /\ node[node[i].next].prev = i
               /\ node[node[i].next].dataOffset = node[i].dataOffset + node[i].dataSize
               /\ node[i].used \/ node[node[i].next].used
      BY <2>3 DEF Chain
    <3>2. node[i].next # Ram!Invalid =>
            /\ later[node[i].next].prev = i
            /\ later[node[i].next].dataOffset = node[node[i].next].dataOffset
            /\ node[node[i].next].used => later[node[i].next].used
      <4>1. CASE node[i].next = id
        <5>1. node[id].prev = i
          BY <1>1, <3>1, <4>1
        <5> QED BY <4>1, <5>1 DEF CutInTwo
      <4>2. CASE node[i].next # Ram!Invalid /\ node[i].next # id
        <5>1. PICK y \in L : y = node[i].next
          BY <3>1, <4>2
        <5>2. y # x
          BY <1>1, <1>3, <2>3, <3>1, <4>2, <5>1
        <5>3. node[y].prev = i /\ y \in L \ {id} /\ y # node[id].next
          BY <1>2, <3>1, <4>2, <5>1, <5>2
        <5> QED BY <5>1, <5>3 DEF CutInTwo
      <4> QED BY <1>1, <4>1, <4>2
    <3> QED BY <2>3, <3>1, <3>2 DEF CutInTwo
  <2> QED BY <2>1, <2>2, <2>3
<1> QED BY <1>5, <1>6, <1>7, <1>8 DEF Chain

\* The same nodes, one hole used as a whole.
LEMMA ChainUsed ==
  ASSUME NEW node, NEW L, NEW first, Chain(node, L, first), NEW later,
         \A i \in L : /\ later[i].dataOffset = node[i].dataOffset
                      /\ later[i].dataSize = node[i].dataSize
                      /\ node[i].used => later[i].used
                      /\ later[i].prev = node[i].prev /\ later[i].next = node[i].next
  PROVE  Chain(later, L, first)
  BY DEF Chain

FreeIn(node, i) == i # Ram!Invalid /\ ~node[i].used
FreeBeside(node, id) == { i \in {node[id].prev, node[id].next} : FreeIn(node, i) }
BeforeHole(node, id) ==
  IF FreeIn(node, node[id].prev) THEN node[node[id].prev].prev ELSE node[id].prev
AfterHole(node, id) ==
  IF FreeIn(node, node[id].next) THEN node[node[id].next].next ELSE node[id].next
HoleStart(node, id) ==
  IF FreeIn(node, node[id].prev) THEN node[node[id].prev].dataOffset ELSE node[id].dataOffset
HoleSize(node, id) ==
  (IF FreeIn(node, node[id].prev) THEN node[node[id].prev].dataSize ELSE 0)
  + node[id].dataSize
  + (IF FreeIn(node, node[id].next) THEN node[node[id].next].dataSize ELSE 0)

LEMMA Surroundings ==
  ASSUME NEW node, NEW L, NEW first, Chain(node, L, first), Numbers(node, L), Capacity \in Nat,
         NEW id \in L, node[id].used, NEW D, D = FreeBeside(node, id) \cup {id},
         NEW b, b = BeforeHole(node, id), NEW a, a = AfterHole(node, id)
  PROVE  /\ HoleStart(node, id) \in Nat /\ HoleSize(node, id) \in Nat /\ D \subseteq L
         /\ HoleStart(node, id) + HoleSize(node, id) <= Capacity
         /\ node[id].dataSize <= HoleSize(node, id)
         /\ (\A i \in D : node[i].dataSize <= HoleSize(node, id))
         /\ IF b = Ram!Invalid THEN HoleStart(node, id) = 0 /\ first \in D
            ELSE /\ b \in L \ D /\ node[b].used /\ node[b].next \in D /\ node[id].dataSize > 0
                 /\ HoleStart(node, id) = node[b].dataOffset + node[b].dataSize
         /\ IF a = Ram!Invalid THEN HoleStart(node, id) + HoleSize(node, id) = Capacity
            ELSE /\ a \in L \ D /\ node[a].used /\ node[a].prev \in D /\ node[id].dataSize > 0
                 /\ node[a].dataOffset = HoleStart(node, id) + HoleSize(node, id)
         /\ (b # Ram!Invalid => first \notin D)
         /\ \A i \in L \ D : (node[i].next \in D => i = b) /\ (node[i].prev \in D => i = a)
<1>1. PICK p, x : p = node[id].prev /\ x = node[id].next
  OBVIOUS
<1>2. /\ node[id].dataOffset \in Nat /\ node[id].dataSize \in Nat
      /\ node[id].dataOffset + node[id].dataSize <= Capacity /\ id # Ram!Invalid
      /\ x = Ram!Invalid => node[id].dataOffset + node[id].dataSize = Capacity
      /\ p = Ram!Invalid => id = first
      /\ first \in L /\ node[first].dataOffset = 0 /\ node[first].prev = Ram!Invalid
  BY <1>1 DEF Chain, Numbers
<1>3. p # Ram!Invalid =>
        /\ p \in L /\ node[p].next = id /\ node[id].dataSize > 0
        /\ node[id].dataOffset = node[p].dataOffset + node[p].dataSize
        /\ node[p].dataOffset < node[id].dataOffset
        /\ node[p].dataOffset \in Nat /\ node[p].dataSize \in Nat
        /\ node[p].prev = Ram!Invalid => p = first
  <2>1. p # Ram!Invalid =>
        /\ p \in L /\ node[p].next = id /\ node[id].dataSize > 0
        /\ node[id].dataOffset = node[p].dataOffset + node[p].dataSize
        /\ node[p].dataOffset < node[id].dataOffset
    BY <1>1, Behind
  <2> QED BY <2>1 DEF Numbers, Chain
<1>4. x # Ram!Invalid =>
        /\ x \in L /\ node[x].prev = id /\ node[id].dataSize > 0
        /\ node[x].dataOffset = node[id].dataOffset + node[id].dataSize
        /\ node[id].dataOffset < node[x].dataOffset
        /\ node[x].dataOffset \in Nat /\ node[x].dataSize \in Nat
        /\ node[x].dataOffset + node[x].dataSize <= Capacity
        /\ node[x].next = Ram!Invalid => node[x].dataOffset + node[x].dataSize = Capacity
  <2>1. x # Ram!Invalid =>
        /\ x \in L /\ node[x].prev = id /\ node[id].dataSize > 0
        /\ node[x].dataOffset = node[id].dataOffset + node[id].dataSize
        /\ node[id].dataOffset < node[x].dataOffset
    BY <1>1, Behind
  <2> QED BY <2>1 DEF Numbers, Chain
<1>5. /\ D \subseteq L /\ D = { i \in {p, x} : FreeIn(node, i) } \cup {id}
      /\ (FreeIn(node, p) => p # Ram!Invalid /\ ~node[p].used)
      /\ (FreeIn(node, x) => x # Ram!Invalid /\ ~node[x].used)
  BY <1>1, <1>3, <1>4 DEF FreeBeside, FreeIn
<1>6. /\ b = IF FreeIn(node, p) THEN node[p].prev ELSE p
      /\ a = IF FreeIn(node, x) THEN node[x].next ELSE x
      /\ HoleStart(node, id) = IF FreeIn(node, p) THEN node[p].dataOffset ELSE node[id].dataOffset
      /\ HoleSize(node, id) = (IF FreeIn(node, p) THEN node[p].dataSize ELSE 0) + node[id].dataSize
                              + (IF FreeIn(node, x) THEN node[x].dataSize ELSE 0)
  BY <1>1 DEF BeforeHole, AfterHole, HoleStart, HoleSize
<1>7. /\ HoleStart(node, id) \in Nat /\ HoleSize(node, id) \in Nat
      /\ HoleStart(node, id) + HoleSize(node, id)
           = IF FreeIn(node, x) THEN node[x].dataOffset + node[x].dataSize
             ELSE node[id].dataOffset + node[id].dataSize
      /\ node[id].dataSize <= HoleSize(node, id)
      /\ HoleStart(node, id) <= node[id].dataOffset
  BY <1>2, <1>3, <1>4, <1>5, <1>6
<1>8. \A i \in D : /\ HoleStart(node, id) <= node[i].dataOffset
                   /\ \/ node[i].dataOffset < HoleStart(node, id) + HoleSize(node, id)
                      \/ HoleSize(node, id) = 0
                   /\ node[i].dataSize <= HoleSize(node, id)
  <2>1. FreeIn(node, x) => node[x].dataSize > 0
    BY <1>2, <1>4, <1>5 DEF Chain, Numbers
  <2> QED BY <1>2, <1>3, <1>4, <1>5, <1>6, <1>7, <2>1
<1>9. IF b = Ram!Invalid THEN HoleStart(node, id) = 0 /\ first \in D
      ELSE /\ b \in L \ D /\ node[b].used /\ node[b].next \in D /\ node[id].dataSize > 0
           /\ HoleStart(node, id) = node[b].dataOffset + node[b].dataSize
  <2>1. CASE FreeIn(node, p)
    <3>1. CASE b = Ram!Invalid
      BY <1>2, <1>3, <1>5, <1>6, <2>1, <3>1
    <3>2. CASE b # Ram!Invalid
      <4>1. /\ b \in L /\ node[b].next = p /\ node[p].dataOffset = node[b].dataOffset + node[b].dataSize
            /\ node[b].dataOffset < node[p].dataOffset /\ (node[p].used \/ node[b].used)
        BY <1>3, <1>5, <1>6, <2>1, <3>2, Behind
      <4>2. node[b].used /\ p \in D
        BY <1>5, <2>1, <4>1
      <4>3. b \notin D
        <5>1. node[b].dataOffset < HoleStart(node, id) /\ HoleStart(node, id) \in Nat
          BY <1>6, <1>7, <2>1, <4>1
        <5>2. node[b].dataOffset \in Nat
          BY <4>1 DEF Numbers
        <5> QED BY <1>8, <5>1, <5>2
      <4> QED BY <1>3, <1>5, <1>6, <2>1, <3>2, <4>1, <4>2, <4>3
    <3> QED BY <3>1, <3>2
  <2>2. CASE ~FreeIn(node, p)
    <3>1. CASE p = Ram!Invalid
      BY <1>2, <1>5, <1>6, <2>2, <3>1
    <3>2. CASE p # Ram!Invalid
      <4>1. node[p].used
        BY <2>2, <3>2 DEF FreeIn
      <4>2. p # id /\ ~FreeIn(node, p)
        BY <1>2, <1>3, <2>2, <3>2
      <4> QED BY <1>3, <1>5, <1>6, <2>2, <3>2, <4>1, <4>2
    <3> QED BY <3>1, <3>2
  <2> QED BY <2>1, <2>2
<1>10. IF a = Ram!Invalid THEN HoleStart(node, id) + HoleSize(node, id) = Capacity
       ELSE /\ a \in L \ D /\ node[a].used /\ node[a].prev \in D /\ node[id].dataSize > 0
            /\ node[a].dataOffset = HoleStart(node, id) + HoleSize(node, id)
  <2>1. CASE FreeIn(node, x)
    <3>1. CASE a = Ram!Invalid
      BY <1>4, <1>5, <1>6, <1>7, <2>1, <3>1
    <3>2. CASE a # Ram!Invalid
      <4>1. /\ a \in L /\ node[a].prev = x /\ node[a].dataOffset = node[x].dataOffset + node[x].dataSize
            /\ node[x].dataOffset < node[a].dataOffset /\ (node[x].used \/ node[a].used)
        BY <1>4, <1>5, <1>6, <2>1, <3>2, Behind
      <4>2. node[a].used /\ x \in D
        BY <1>5, <2>1, <4>1
      <4>3. a \notin D
        BY <1>2, <1>4, <1>5, <1>7, <1>8, <2>1, <4>1 DEF Numbers
      <4> QED BY <1>4, <1>5, <1>7, <2>1, <3>2, <4>1, <4>2, <4>3
    <3> QED BY <3>1, <3>2
  <2>2. CASE ~FreeIn(node, x)
    <3>1. CASE x = Ram!Invalid
      BY <1>2, <1>6, <1>7, <2>2, <3>1
    <3>2. CASE x # Ram!Invalid
      <4>1. node[x].used
        BY <2>2, <3>2 DEF FreeIn
      <4>2. x # id /\ ~FreeIn(node, x)
        BY <1>2, <1>4, <2>2, <3>2
      <4> QED BY <1>4, <1>5, <1>6, <1>7, <2>2, <3>2, <4>1, <4>2
    <3> QED BY <3>1, <3>2
  <2> QED BY <2>1, <2>2
<1>11. HoleStart(node, id) + HoleSize(node, id) <= Capacity
  BY <1>2, <1>4, <1>5, <1>7
<1>12. b # Ram!Invalid => first \notin D
  <2> SUFFICES ASSUME b # Ram!Invalid, first \in D PROVE FALSE
    OBVIOUS
  <2>1. HoleStart(node, id) <= 0
    BY <1>2, <1>8
  <2>2. node[b].dataOffset \in Nat /\ node[b].dataSize \in Nat
    BY <1>9 DEF Numbers
  <2>3. node[b].next # Ram!Invalid
    BY <1>5, <1>9 DEF Numbers
  <2>4. node[b].dataSize > 0
    BY <1>9, <2>3, Behind
  <2> QED BY <1>9, <2>1, <2>2, <2>4
<1>13. ASSUME NEW i \in L \ D
       PROVE  (node[i].next \in D => i = b) /\ (node[i].prev \in D => i = a)
  <2>0. i # Ram!Invalid /\ i \in L /\ i \notin D
    BY DEF Numbers
  <2>1. ASSUME node[i].next \in D PROVE i = b
    <3>1. node[i].next \in L /\ node[i].next # Ram!Invalid /\ node[node[i].next].prev = i
      BY <1>5, <2>0, <2>1, Behind DEF Numbers
    <3>2. CASE node[i].next = id
      BY <1>1, <1>5, <1>6, <2>0, <3>1, <3>2
    <3>3. CASE node[i].next = p /\ FreeIn(node, p)
      BY <1>6, <3>1, <3>3
    <3>4. CASE node[i].next = x /\ FreeIn(node, x)
      BY <1>4, <1>5, <2>0, <3>1, <3>4
    <3> QED BY <1>5, <2>1, <3>2, <3>3, <3>4
  <2>2. ASSUME node[i].prev \in D PROVE i = a
    <3>1. node[i].prev \in L /\ node[i].prev # Ram!Invalid /\ node[node[i].prev].next = i
      BY <1>5, <2>0, <2>2, Behind DEF Numbers
    <3>2. CASE node[i].prev = id
      BY <1>1, <1>5, <1>6, <2>0, <3>1, <3>2
    <3>3. CASE node[i].prev = p /\ FreeIn(node, p)
      BY <1>3, <1>5, <2>0, <3>1, <3>3
    <3>4. CASE node[i].prev = x /\ FreeIn(node, x)
      BY <1>6, <3>1, <3>4
    <3> QED BY <1>5, <2>2, <3>2, <3>3, <3>4
  <2> QED BY <2>1, <2>2
<1>14. \A i \in D : node[i].dataSize <= HoleSize(node, id)
  BY <1>8
<1> QED BY <1>5, <1>7, <1>9, <1>10, <1>11, <1>12, <1>13, <1>14

\* Nodes D of L make one piece of the RAM, at start, of this size, between
\* the used nodes b and a.
Piece(node, L, first, D, b, a, start, size) ==
  /\ start \in Nat /\ size \in Nat /\ D \subseteq L /\ start + size <= Capacity
  /\ IF b = Ram!Invalid THEN start = 0 /\ first \in D
     ELSE /\ b \in L \ D /\ node[b].used /\ node[b].next \in D /\ size > 0 /\ first \notin D
          /\ start = node[b].dataOffset + node[b].dataSize
  /\ IF a = Ram!Invalid THEN start + size = Capacity
     ELSE /\ a \in L \ D /\ node[a].used /\ node[a].prev \in D /\ size > 0
          /\ node[a].dataOffset = start + size
  /\ \A i \in L \ D : (node[i].next \in D => i = b) /\ (node[i].prev \in D => i = a)

LEMMA FreedPiece ==
  ASSUME NEW node, NEW L, NEW first, Chain(node, L, first), Numbers(node, L), Capacity \in Nat,
         NEW id \in L, node[id].used, NEW D, D = FreeBeside(node, id) \cup {id}
  PROVE  Piece(node, L, first, D, BeforeHole(node, id), AfterHole(node, id),
               HoleStart(node, id), HoleSize(node, id))
<1>1. PICK b, a : b = BeforeHole(node, id) /\ a = AfterHole(node, id)
  OBVIOUS
<1>2. PICK start, size : start = HoleStart(node, id) /\ size = HoleSize(node, id)
  OBVIOUS
<1>3. /\ start \in Nat /\ size \in Nat /\ D \subseteq L /\ start + size <= Capacity
      /\ node[id].dataSize <= size
      /\ IF b = Ram!Invalid THEN start = 0 /\ first \in D
         ELSE /\ b \in L \ D /\ node[b].used /\ node[b].next \in D /\ node[id].dataSize > 0
              /\ start = node[b].dataOffset + node[b].dataSize
      /\ IF a = Ram!Invalid THEN start + size = Capacity
         ELSE /\ a \in L \ D /\ node[a].used /\ node[a].prev \in D /\ node[id].dataSize > 0
              /\ node[a].dataOffset = start + size
      /\ (b # Ram!Invalid => first \notin D)
      /\ \A i \in L \ D : (node[i].next \in D => i = b) /\ (node[i].prev \in D => i = a)
  BY <1>1, <1>2, Surroundings
<1>4. node[id].dataSize > 0 => size > 0
  <2>1. node[id].dataSize \in Nat
    BY DEF Numbers
  <2> QED BY <1>3, <2>1
<1> QED BY <1>1, <1>2, <1>3, <1>4 DEF Piece

\* From node to later a piece became one hole.
Combined(node, later, L, D, b, a, start, size, id) ==
  /\ later[id].dataOffset = start /\ later[id].dataSize = size /\ later[id].used = FALSE
  /\ later[id].prev = b /\ later[id].next = a
  /\ \A i \in L \ D :
       /\ later[i].dataOffset = node[i].dataOffset /\ later[i].dataSize = node[i].dataSize
       /\ later[i].used = node[i].used
       /\ later[i].prev = IF i = a THEN id ELSE node[i].prev
       /\ later[i].next = IF i = b THEN id ELSE node[i].next

LEMMA ChainCombined ==
  ASSUME NEW node, NEW L, NEW first, Chain(node, L, first), Numbers(node, L), Capacity \in Nat,
         NEW D, NEW b, NEW a, NEW start, NEW size, Piece(node, L, first, D, b, a, start, size),
         NEW id, id \notin L \ D, id # Ram!Invalid,
         NEW later, Combined(node, later, L, D, b, a, start, size, id)
  PROVE  Chain(later, (L \ D) \cup {id}, IF b = Ram!Invalid THEN id ELSE first)
<1>1. PICK front : front = IF b = Ram!Invalid THEN id ELSE first
  OBVIOUS
<1>2. \A i \in L : i # Ram!Invalid
  BY DEF Numbers
<1>3. front \in (L \ D) \cup {id} /\ later[front].dataOffset = 0 /\ later[front].prev = Ram!Invalid
  <2>1. CASE b = Ram!Invalid
    BY <1>1, <2>1 DEF Piece, Combined
  <2>2. CASE b # Ram!Invalid
    <3>1. /\ first \in L \ D /\ node[first].dataOffset = 0 /\ node[first].prev = Ram!Invalid
          /\ front = first
      BY <1>1, <2>2 DEF Piece, Chain
    <3>2. later[first].prev = IF first = a THEN id ELSE Ram!Invalid
      BY <3>1 DEF Combined
    <3>3. first # a
      <4> SUFFICES ASSUME first = a PROVE FALSE
        OBVIOUS
      <4>1. node[a].prev \in D /\ D \subseteq L
        BY <1>2, <3>1 DEF Piece
      <4> QED BY <1>2, <3>1, <4>1
    <3> QED BY <3>1, <3>2, <3>3 DEF Combined
  <2> QED BY <2>1, <2>2
<1>4. ASSUME NEW i \in (L \ D) \cup {id}
      PROVE  /\ later[i].dataOffset + later[i].dataSize <= Capacity
             /\ later[i].dataSize = 0 => later[i].prev = Ram!Invalid /\ later[i].next = Ram!Invalid
  <2>1. CASE i = id
    BY <2>1 DEF Piece, Combined
  <2>2. CASE i \in L \ D
    <3>1. /\ node[i].dataOffset + node[i].dataSize <= Capacity
          /\ node[i].dataSize = 0 => node[i].prev = Ram!Invalid /\ node[i].next = Ram!Invalid
      BY <2>2 DEF Chain
    <3>2. /\ i = a => node[i].prev # Ram!Invalid
          /\ i = b => node[i].next # Ram!Invalid
      BY <1>2, <2>2 DEF Piece
    <3> QED BY <2>2, <3>1, <3>2 DEF Combined
  <2> QED BY <2>1, <2>2
<1>5. ASSUME NEW i \in (L \ D) \cup {id}
      PROVE  IF later[i].prev = Ram!Invalid THEN i = front
             ELSE later[i].prev \in (L \ D) \cup {id} /\ later[later[i].prev].next = i
  <2>1. CASE i = id
    BY <1>1, <2>1 DEF Piece, Combined
  <2>2. CASE i \in L \ D /\ i = a
    <3>1. later[i].prev = id /\ later[id].next = a
      BY <2>2 DEF Combined
    <3> QED BY <2>2, <3>1
  <2>3. CASE i \in L \ D /\ i # a
    <3>1. later[i].prev = node[i].prev /\ node[i].prev \notin D
      BY <2>3 DEF Piece, Combined
    <3>2. IF node[i].prev = Ram!Invalid THEN i = first
          ELSE node[i].prev \in L /\ node[node[i].prev].next = i
      BY <2>3 DEF Chain
    <3>3. CASE node[i].prev = Ram!Invalid
      <4>1. b # Ram!Invalid
        BY <2>3, <3>2, <3>3 DEF Piece
      <4> QED BY <1>1, <3>1, <3>2, <3>3, <4>1
    <3>4. CASE node[i].prev # Ram!Invalid
      <4>1. PICK y \in L \ D : y = node[i].prev /\ node[y].next = i
        BY <3>1, <3>2, <3>4
      <4>2. y # b
        BY <1>2, <2>3, <4>1 DEF Piece
      <4>3. later[y].next = i
        BY <4>1, <4>2 DEF Combined
      <4> QED BY <3>1, <3>4, <4>1, <4>3
    <3> QED BY <3>3, <3>4
  <2> QED BY <2>1, <2>2, <2>3
<1>6. ASSUME NEW i \in (L \ D) \cup {id}
      PROVE  IF later[i].next = Ram!Invalid THEN later[i].dataOffset + later[i].dataSize = Capacity
             ELSE /\ later[i].next \in (L \ D) \cup {id} /\ later[later[i].next].prev = i
                  /\ later[later[i].next].dataOffset = later[i].dataOffset + later[i].dataSize
                  /\ later[i].used \/ later[later[i].next].used
  <2>1. CASE i = id
    <3>1. CASE a = Ram!Invalid
      BY <2>1, <3>1 DEF Piece, Combined
    <3>2. CASE a # Ram!Invalid
      <4>1. a \in L \ D /\ node[a].used /\ node[a].dataOffset = start + size
        BY <3>2 DEF Piece
      <4> QED BY <2>1, <3>2, <4>1 DEF Combined
    <3> QED BY <3>1, <3>2
  <2>2. CASE i \in L \ D /\ i = b
    <3>1. node[b].used /\ start = node[b].dataOffset + node[b].dataSize
      BY <1>2, <2>2 DEF Piece
    <3>2. /\ later[i].next = id /\ later[id].prev = b /\ later[i].used /\ later[id].dataOffset = start
          /\ later[i].dataOffset = node[b].dataOffset /\ later[i].dataSize = node[b].dataSize
      BY <2>2, <3>1 DEF Combined
    <3> QED BY <2>2, <3>1, <3>2
  <2>3. CASE i \in L \ D /\ i # b
    <3>1. /\ later[i].next = node[i].next /\ node[i].next \notin D
          /\ later[i].dataOffset = node[i].dataOffset /\ later[i].dataSize = node[i].dataSize
          /\ later[i].used = node[i].used
      BY <2>3 DEF Piece, Combined
    <3>2. IF node[i].next = Ram!Invalid THEN node[i].dataOffset + node[i].dataSize = Capacity
          ELSE /\ node[i].next \in L /\ node[node[i].next].prev = i
               /\ node[node[i].next].dataOffset = node[i].dataOffset + node[i].dataSize
               /\ node[i].used \/ node[node[i].next].used
      BY <2>3 DEF Chain
    <3>3. CASE node[i].next = Ram!Invalid
      BY <3>1, <3>2, <3>3
    <3>4. CASE node[i].next # Ram!Invalid
      <4>1. PICK y \in L \ D : y = node[i].next /\ node[y].prev = i
        BY <3>1, <3>2, <3>4
      <4>2. y # a
        BY <1>2, <2>3, <4>1 DEF Piece
      <4>3. /\ later[y].prev = i /\ later[y].dataOffset = node[y].dataOffset
            /\ later[y].used = node[y].used
        BY <4>1, <4>2 DEF Combined
      <4> QED BY <3>1, <3>2, <3>4, <4>1, <4>3
    <3> QED BY <3>3, <3>4
  <2> QED BY <2>1, <2>2, <2>3
<1> QED BY <1>1, <1>3, <1>4, <1>5, <1>6 DEF Chain

LEMMA CoreFacts ==
  ASSUME Ram!MiniRamAssumption, NEW n, NEW r, Core(r, n)
  PROVE  /\ n \in Nat \ {0} /\ Shaped(r, n) /\ r.nodes \in [Ids(n) -> Node] /\ DOMAIN r.nodes = Ids(n)
         /\ Ram!NodeCount(r) = n /\ r.sp \in 0 .. n /\ r.aborted = FALSE /\ Capacity \in Nat
         /\ Ram!LiveIds(r) \subseteq Ids(n) /\ Ram!Holes(r) = { i \in Ram!LiveIds(r) : ~r.nodes[i].used }
         /\ r.bins \in [Ram!Bin -> Int] /\ r.usedBins \subseteq Ram!Bin
         /\ Numbers(r.nodes, Ram!LiveIds(r))
         /\ \A i \in Ids(n) : r.nodes[i].dataSize \in 0 .. Capacity /\ r.nodes[i].dataOffset \in Nat
                              /\ r.nodes[i].used \in BOOLEAN /\ i # Ram!Invalid
<1>1. /\ n \in Nat \ {0} /\ Shaped(r, n) /\ r.nodes \in [Ids(n) -> Node] /\ DOMAIN r.nodes = Ids(n)
      /\ Ram!NodeCount(r) = n /\ r.sp \in 0 .. n /\ r.aborted = FALSE
      /\ Ram!LiveIds(r) \subseteq Ids(n) /\ Ram!Holes(r) = { i \in Ram!LiveIds(r) : ~r.nodes[i].used }
      /\ r.bins \in [Ram!Bin -> Int] /\ r.usedBins \subseteq Ram!Bin
  <2>1. n \in Nat \ {0} /\ n \in Nat /\ Shaped(r, n)
    BY DEF Core
  <2>2. /\ r.nodes \in [Ids(n) -> Node] /\ DOMAIN r.nodes = Ids(n) /\ Ram!NodeCount(r) = n
        /\ r.sp \in 0 .. n /\ r.bins \in [Ram!Bin -> Int] /\ r.usedBins \subseteq Ram!Bin
        /\ r.aborted = FALSE
        /\ Ram!LiveIds(r) = Ids(n) \ Above(r.freeNodes, r.sp, n)
        /\ Ram!Holes(r) = { i \in Ram!LiveIds(r) : ~r.nodes[i].used }
    BY <2>1, ShapeFacts
  <2>3. Ram!LiveIds(r) \subseteq Ids(n)
    BY <2>2
  <2> QED BY <2>1, <2>2, <2>3
<1>2. \A x \in Node : x.dataSize \in 0 .. Capacity /\ x.dataOffset \in Nat /\ x.used \in BOOLEAN
  BY DEF Node
<1>3. \A i \in Ids(n) : i # Ram!Invalid
  BY DEF Ids, Ram!Invalid
<1>4. Capacity \in Nat
  BY DEF Ram!MiniRamAssumption
<1>5. \A i \in Ids(n) : r.nodes[i].dataSize \in 0 .. Capacity /\ r.nodes[i].dataOffset \in Nat
                        /\ r.nodes[i].used \in BOOLEAN /\ i # Ram!Invalid
  BY <1>1, <1>2, <1>3
<1>6. Numbers(r.nodes, Ram!LiveIds(r))
  BY <1>1, <1>4, <1>5 DEF Numbers
<1> QED BY <1>1, <1>4, <1>5, <1>6

\* How SliceTopBinNode goes on.
SlicedAs(r, id, taken, size) ==
  LET reminder == r.nodes[id].dataSize - size
      cut == Ram!InsertNode(taken, reminder, r.nodes[id].dataOffset + size)
  IN IF reminder = 0 THEN taken
     ELSE IF cut.aborted THEN cut
     ELSE Ram!Join(cut, id, Ram!TopFreeNode(taken), r.nodes[id].next)

\* From r to q the first size units of a hole came into use.
Sliced(r, q, n, first, id, size) ==
  /\ Core(q, n) /\ Chain(q.nodes, Ram!LiveIds(q), first) /\ id \in Ram!Holes(r)
  /\ Ram!LiveIds(q) \ Ram!Holes(q) = (Ram!LiveIds(r) \ Ram!Holes(r)) \cup {id}
  /\ q.nodes[id].dataOffset = r.nodes[id].dataOffset /\ q.nodes[id].dataSize = size
  /\ \A i \in Ram!LiveIds(r) \ Ram!Holes(r) :
       q.nodes[i].dataOffset = r.nodes[i].dataOffset /\ q.nodes[i].dataSize = r.nodes[i].dataSize

LEMMA SliceCore ==
  ASSUME Ram!MiniRamAssumption, NEW n, NEW r, Core(r, n), r.sp < n,
         NEW first, Chain(r.nodes, Ram!LiveIds(r), first), NEW bin \in Ram!Bin, NEW id, id = r.bins[bin],
         id # Ram!Invalid, NEW size \in Nat, size > 0, size <= r.nodes[id].dataSize
  PROVE  Sliced(r, Ram!SliceTopBinNode(r, size, bin), n, first, id, size)
<1>1. /\ n \in Nat \ {0} /\ Capacity \in Nat
      /\ Ram!LiveIds(r) \subseteq Ids(n) /\ Ram!Holes(r) = { i \in Ram!LiveIds(r) : ~r.nodes[i].used }
      /\ Numbers(r.nodes, Ram!LiveIds(r))
      /\ \A i \in Ids(n) : r.nodes[i].dataSize \in 0 .. Capacity /\ r.nodes[i].dataOffset \in Nat
                           /\ r.nodes[i].used \in BOOLEAN /\ i # Ram!Invalid
  BY CoreFacts
<1>2. id \in Ram!Holes(r) /\ id \in Ram!LiveIds(r) /\ id \in Ids(n) /\ ~r.nodes[id].used
  <2>1. id \in Ram!Holes(r)
    BY DEF Core, Lists
  <2> QED BY <1>1, <2>1
<1>3. PICK L, node : L = Ram!LiveIds(r) /\ node = r.nodes
  OBVIOUS
<1>4. PICK x : x = node[id].next
  OBVIOUS
<1>5. x # Ram!Invalid => x \in L /\ x # id
  BY <1>1, <1>2, <1>3, <1>4, Behind
<1>6. PICK taken : taken = Taken(r, bin, id, size)
  OBVIOUS
<1>7. /\ Core(taken, n) /\ Ram!LiveIds(taken) = L /\ Ram!Holes(taken) = Ram!Holes(r) \ {id} /\ taken.sp = r.sp
      /\ taken.nodes[id].used /\ taken.nodes[id].dataSize = size
      /\ taken.nodes[id].dataOffset = node[id].dataOffset
      /\ taken.nodes[id].prev = node[id].prev /\ taken.nodes[id].next = x
      /\ \A i \in Ids(n) \ {id} : SameInChain(taken.nodes[i], node[i])
  <2>1. size \in 0 .. r.nodes[id].dataSize
    BY <1>1, <1>2
  <2>2. TakenFrom(r, Taken(r, bin, id, size), n, id, size)
    BY <2>1, TakenCore
  <2> QED BY <1>3, <1>4, <1>6, <2>2 DEF TakenFrom
<1>8. PICK reminder \in 0 .. Capacity : reminder = node[id].dataSize - size
  BY <1>1, <1>2, <1>3
<1>9. PICK q : q = Ram!SliceTopBinNode(r, size, bin)
  OBVIOUS
<1>10. CASE reminder = 0
  <2>1. q = taken
    BY <1>3, <1>6, <1>8, <1>9, <1>10 DEF Ram!SliceTopBinNode, Taken
  <2>2. size = node[id].dataSize
    BY <1>1, <1>2, <1>3, <1>8, <1>10
  <2>3. \A i \in L : /\ q.nodes[i].dataOffset = node[i].dataOffset
                     /\ q.nodes[i].dataSize = node[i].dataSize
                     /\ node[i].used => q.nodes[i].used
                     /\ q.nodes[i].prev = node[i].prev /\ q.nodes[i].next = node[i].next
    BY <1>1, <1>3, <1>4, <1>7, <2>1, <2>2 DEF SameInChain
  <2>4. Chain(q.nodes, L, first)
    BY <1>3, <2>3, ChainUsed
  <2>5. Ram!LiveIds(q) \ Ram!Holes(q) = (Ram!LiveIds(r) \ Ram!Holes(r)) \cup {id}
    BY <1>2, <1>3, <1>7, <2>1
  <2>6. \A i \in Ram!LiveIds(r) \ Ram!Holes(r) : q.nodes[i].dataOffset = r.nodes[i].dataOffset
                                                /\ q.nodes[i].dataSize = r.nodes[i].dataSize
    BY <1>3, <2>3
  <2> QED BY <1>2, <1>3, <1>7, <1>9, <2>1, <2>4, <2>5, <2>6 DEF Sliced
<1>11. CASE reminder # 0
  <2>1. PICK offset \in Nat : offset = node[id].dataOffset + size
    BY <1>1, <1>2, <1>3
  <2>2. PICK new, cut : new = Ram!TopFreeNode(taken) /\ cut = Ram!InsertNode(taken, reminder, offset)
    OBVIOUS
  <2>3. /\ Core(cut, n) /\ new \in Ids(n) \ L
        /\ Ram!LiveIds(cut) = L \cup {new} /\ Ram!Holes(cut) = Ram!Holes(taken) \cup {new}
        /\ cut.nodes[new].dataSize = reminder /\ cut.nodes[new].dataOffset = offset
        /\ ~cut.nodes[new].used
        /\ \A i \in Ids(n) \ {new} : SameInChain(cut.nodes[i], taken.nodes[i])
    <3>1. Inserted(taken, Ram!InsertNode(taken, reminder, offset), n, Ram!TopFreeNode(taken), reminder, offset)
      BY <1>7, InsertCore
    <3> QED BY <1>7, <2>2, <3>1 DEF Inserted
  <2>4. q = Ram!Join(cut, id, new, x)
    <3>1. cut.aborted = FALSE
      BY <2>3, CoreFacts
    <3>2. q = IF reminder = 0 THEN taken
              ELSE IF cut.aborted THEN cut ELSE Ram!Join(cut, id, new, x)
      <4>1. Ram!SliceTopBinNode(r, size, bin) = SlicedAs(r, r.bins[bin], Taken(r, bin, r.bins[bin], size), size)
        BY DEF Ram!SliceTopBinNode, SlicedAs, Taken
      <4>2. q = SlicedAs(r, id, taken, size)
        BY <1>6, <1>9, <4>1
      <4> QED BY <1>3, <1>4, <1>8, <2>1, <2>2, <4>2 DEF SlicedAs
    <3> QED BY <1>11, <3>1, <3>2
  <2>5. Joined(cut, Ram!Join(cut, id, new, x), n, id, new, x)
    <3>1. id \in (Ids(n) \ {new}) \cup {Ram!Invalid} /\ x \in (Ids(n) \ {new}) \cup {Ram!Invalid}
      BY <1>1, <1>2, <1>3, <1>5, <2>3
    <3> QED BY <2>3, <3>1, JoinCore
  <2>6. /\ Core(q, n) /\ Ram!LiveIds(q) = L \cup {new} /\ Ram!Holes(q) = (Ram!Holes(r) \ {id}) \cup {new}
        /\ \A i \in Ids(n) :
             /\ q.nodes[i].dataOffset = cut.nodes[i].dataOffset
             /\ q.nodes[i].dataSize = cut.nodes[i].dataSize /\ q.nodes[i].used = cut.nodes[i].used
             /\ q.nodes[i].prev = IF i = new THEN id ELSE IF i = x THEN new ELSE cut.nodes[i].prev
             /\ q.nodes[i].next = IF i = new THEN x ELSE IF i = id THEN new ELSE cut.nodes[i].next
    BY <1>7, <2>3, <2>4, <2>5 DEF Joined
  <2>7. id # new /\ new \notin L /\ new # Ram!Invalid
    BY <1>1, <1>2, <1>3, <2>3
  <2>8. CutInTwo(node, q.nodes, L, id, new, size)
    <3>1. /\ q.nodes[id].dataOffset = node[id].dataOffset /\ q.nodes[id].dataSize = size
          /\ q.nodes[id].used /\ q.nodes[id].next = new /\ q.nodes[id].prev = node[id].prev
      <4>1. id # x
        BY <1>1, <1>2, <1>5
      <4>2. SameInChain(cut.nodes[id], taken.nodes[id])
        BY <1>2, <2>3, <2>7
      <4> QED BY <1>2, <1>7, <2>6, <2>7, <4>1, <4>2 DEF SameInChain
    <3>2. /\ q.nodes[new].dataOffset = node[id].dataOffset + size
          /\ q.nodes[new].dataSize = node[id].dataSize - size
          /\ q.nodes[new].used = FALSE /\ q.nodes[new].prev = id /\ q.nodes[new].next = node[id].next
      <4>1. new \in Ids(n) /\ q.nodes[new].used \in BOOLEAN
        BY <2>3, <2>6, CoreFacts
      <4> QED BY <1>4, <1>8, <2>1, <2>3, <2>6, <4>1
    <3>3. ASSUME NEW i \in L \ {id}
          PROVE  /\ q.nodes[i].dataOffset = node[i].dataOffset
                 /\ q.nodes[i].dataSize = node[i].dataSize
                 /\ q.nodes[i].used = node[i].used /\ q.nodes[i].next = node[i].next
                 /\ q.nodes[i].prev = IF i = node[id].next THEN new ELSE node[i].prev
      <4>1. i \in Ids(n) /\ i # new
        BY <1>1, <1>3, <2>7
      <4>2. SameInChain(cut.nodes[i], taken.nodes[i]) /\ SameInChain(taken.nodes[i], node[i])
        BY <1>7, <2>3, <4>1
      <4> QED BY <1>4, <2>6, <4>1, <4>2 DEF SameInChain
    <3> QED BY <3>1, <3>2, <3>3 DEF CutInTwo
  <2>9. Chain(q.nodes, L \cup {new}, first)
    <3>1. size < node[id].dataSize
      BY <1>1, <1>2, <1>3, <1>8, <1>11
    <3> QED BY <1>1, <1>2, <1>3, <2>7, <2>8, <3>1, ChainCut
  <2>10. Ram!LiveIds(q) \ Ram!Holes(q) = (Ram!LiveIds(r) \ Ram!Holes(r)) \cup {id}
    BY <1>1, <1>2, <1>3, <2>6, <2>7
  <2>11. \A i \in Ram!LiveIds(r) \ Ram!Holes(r) : q.nodes[i].dataOffset = r.nodes[i].dataOffset
                                                /\ q.nodes[i].dataSize = r.nodes[i].dataSize
    BY <1>2, <1>3, <2>8 DEF CutInTwo
  <2>12. q.nodes[id].dataOffset = node[id].dataOffset /\ q.nodes[id].dataSize = size
    BY <2>8 DEF CutInTwo
  <2> QED BY <1>2, <1>3, <1>9, <2>6, <2>9, <2>10, <2>11, <2>12 DEF Sliced
<1> QED BY <1>10, <1>11

\* Free, with the surroundings named.
OneMerged(r, id) == IF FreeIn(r.nodes, r.nodes[id].prev) THEN Ram!RemoveNode(r, r.nodes[id].prev) ELSE r
TwoMerged(r, one, id) ==
  IF FreeIn(r.nodes, r.nodes[id].next) THEN Ram!RemoveNode(one, r.nodes[id].next) ELSE one
FreedAs(r, two, id) ==
  Ram!Join(Ram!InsertNode(Ram!PushFreeNode(two, id), HoleSize(r.nodes, id), HoleStart(r.nodes, id)),
           BeforeHole(r.nodes, id), Ram!TopFreeNode(Ram!PushFreeNode(two, id)), AfterHole(r.nodes, id))

LEMMA FreeNodeIs ==
  ASSUME NEW r, NEW id
  PROVE  Ram!FreeNode(r, id) = FreedAs(r, TwoMerged(r, OneMerged(r, id), id), id)
<1>1. PICK p, x : p = r.nodes[id].prev /\ x = r.nodes[id].next
  OBVIOUS
<1> DEFINE node == r.nodes[id]
           before == IF Ram!IsFree(r, node.prev) THEN r.nodes[node.prev]
                     ELSE [Ram!FreshNode EXCEPT !.dataOffset = node.dataOffset, !.prev = node.prev]
           after == IF Ram!IsFree(r, node.next) THEN r.nodes[node.next]
                    ELSE [Ram!FreshNode EXCEPT !.next = node.next]
           two == TwoMerged(r, OneMerged(r, id), id)
<1>2. Ram!FreeNode(r, id) =
        Ram!Join(Ram!InsertNode(Ram!PushFreeNode(two, id), before.dataSize + node.dataSize + after.dataSize,
                                before.dataOffset),
                 before.prev, Ram!TopFreeNode(Ram!PushFreeNode(two, id)), after.next)
  BY DEF Ram!FreeNode, OneMerged, TwoMerged, Ram!IsFree, FreeIn
<1>3. /\ before.dataOffset = HoleStart(r.nodes, id) /\ before.prev = BeforeHole(r.nodes, id)
      /\ before.dataSize = IF FreeIn(r.nodes, node.prev) THEN r.nodes[node.prev].dataSize ELSE 0
  BY DEF HoleStart, BeforeHole, Ram!FreshNode, Ram!IsFree, FreeIn
<1>4. /\ after.next = AfterHole(r.nodes, id)
      /\ after.dataSize = IF FreeIn(r.nodes, node.next) THEN r.nodes[node.next].dataSize ELSE 0
  BY DEF AfterHole, Ram!FreshNode, Ram!IsFree, FreeIn
<1>5. before.dataSize + node.dataSize + after.dataSize = HoleSize(r.nodes, id)
  BY <1>3, <1>4 DEF HoleSize
<1> HIDE DEF two, before, after
<1> QED BY <1>2, <1>3, <1>4, <1>5 DEF FreedAs, two

\* From r to q an allocation was given back.
Freed(r, q, n, id) ==
  /\ Core(q, n) /\ \E first : Chain(q.nodes, Ram!LiveIds(q), first)
  /\ Ram!LiveIds(q) \ Ram!Holes(q) = (Ram!LiveIds(r) \ Ram!Holes(r)) \ {id}
  /\ \A i \in Ram!LiveIds(q) \ Ram!Holes(q) :
       q.nodes[i].dataOffset = r.nodes[i].dataOffset /\ q.nodes[i].dataSize = r.nodes[i].dataSize

LEMMA FreeCore ==
  ASSUME Ram!MiniRamAssumption, NEW n, NEW r, Core(r, n),
         NEW first, Chain(r.nodes, Ram!LiveIds(r), first), NEW id \in Ram!LiveIds(r) \ Ram!Holes(r)
  PROVE  Freed(r, Ram!FreeNode(r, id), n, id)
<1>1. /\ n \in Nat \ {0} /\ Capacity \in Nat
      /\ Ram!LiveIds(r) \subseteq Ids(n) /\ Ram!Holes(r) = { i \in Ram!LiveIds(r) : ~r.nodes[i].used }
      /\ Numbers(r.nodes, Ram!LiveIds(r))
      /\ \A i \in Ids(n) : r.nodes[i].dataSize \in 0 .. Capacity /\ r.nodes[i].dataOffset \in Nat
                           /\ r.nodes[i].used \in BOOLEAN /\ i # Ram!Invalid
  BY CoreFacts
<1>2. PICK L, node : L = Ram!LiveIds(r) /\ node = r.nodes
  OBVIOUS
<1>3. id \in L /\ id \in Ids(n) /\ node[id].used
  BY <1>1, <1>2
<1>4. PICK p, x : p = node[id].prev /\ x = node[id].next
  OBVIOUS
<1>5. (FreeIn(node, p) => p \in Ram!Holes(r) /\ p \in Ids(n) /\ p # id)
      /\ (FreeIn(node, x) => x \in Ram!Holes(r) /\ x \in Ids(n) /\ x # id)
      /\ (FreeIn(node, p) /\ FreeIn(node, x) => x # p)
  <2>1. /\ p # Ram!Invalid => p \in L /\ node[p].dataOffset < node[id].dataOffset
        /\ x # Ram!Invalid => x \in L /\ node[id].dataOffset < node[x].dataOffset
    BY <1>1, <1>2, <1>3, <1>4, Behind
  <2>2. \A i \in L : node[i].dataOffset \in Nat
    BY <1>1, <1>2
  <2>3. /\ p # Ram!Invalid => p # id
        /\ x # Ram!Invalid => x # id
        /\ p # Ram!Invalid /\ x # Ram!Invalid => x # p
    BY <1>3, <2>1, <2>2
  <2> QED BY <1>1, <1>2, <2>1, <2>3 DEF FreeIn
<1>6. PICK D : D = FreeBeside(node, id) \cup {id}
  OBVIOUS
<1>7. PICK b, a, start, size : /\ b = BeforeHole(node, id) /\ a = AfterHole(node, id)
                               /\ start = HoleStart(node, id) /\ size = HoleSize(node, id)
  OBVIOUS
<1>8. Piece(node, L, first, D, b, a, start, size)
  BY <1>1, <1>2, <1>3, <1>6, <1>7, FreedPiece
<1>9. PICK D1 : D1 = IF FreeIn(node, p) THEN {p} ELSE {}
  OBVIOUS
<1>10. PICK D2 : D2 = IF FreeIn(node, x) THEN {x} ELSE {}
  OBVIOUS
<1>11. D = D1 \cup D2 \cup {id} /\ D1 \cup D2 \subseteq Ram!Holes(r) /\ id \notin D1 \cup D2
  BY <1>4, <1>5, <1>6, <1>9, <1>10 DEF FreeBeside
<1>12. PICK one : one = OneMerged(r, id)
  OBVIOUS
<1>13. /\ Core(one, n) /\ Ram!LiveIds(one) = L \ D1 /\ Ram!Holes(one) = Ram!Holes(r) \ D1
       /\ \A i \in Ids(n) \ D1 : SameInChain(one.nodes[i], node[i])
  <2>1. CASE FreeIn(node, p)
    <3>1. one = Ram!RemoveNode(r, p)
      BY <1>2, <1>4, <1>12, <2>1 DEF OneMerged
    <3>2. Gone(r, Ram!RemoveNode(r, p), n, p)
      BY <1>5, <2>1, RemoveCore
    <3> QED BY <1>2, <1>9, <2>1, <3>1, <3>2 DEF Gone
  <2>2. CASE ~FreeIn(node, p)
    <3>1. one = r /\ D1 = {}
      BY <1>2, <1>4, <1>9, <1>12, <2>2 DEF OneMerged
    <3> QED BY <1>2, <3>1 DEF SameInChain
  <2> QED BY <2>1, <2>2
<1>14. PICK two : two = TwoMerged(r, one, id)
  OBVIOUS
<1>15. /\ Core(two, n) /\ Ram!LiveIds(two) = (L \ D1) \ D2 /\ Ram!Holes(two) = (Ram!Holes(r) \ D1) \ D2
       /\ \A i \in (Ids(n) \ D1) \ D2 : SameInChain(two.nodes[i], node[i])
  <2>1. CASE FreeIn(node, x)
    <3>1. two = Ram!RemoveNode(one, x)
      BY <1>2, <1>4, <1>14, <2>1 DEF TwoMerged
    <3>2. x \in Ram!Holes(one)
      BY <1>5, <1>9, <1>13, <2>1
    <3>3. Gone(one, Ram!RemoveNode(one, x), n, x)
      BY <1>13, <3>2, RemoveCore
    <3>4. /\ Core(two, n) /\ Ram!LiveIds(two) = Ram!LiveIds(one) \ {x} /\ Ram!Holes(two) = Ram!Holes(one) \ {x}
          /\ \A i \in Ids(n) \ {x} : SameInChain(two.nodes[i], one.nodes[i])
      BY <3>1, <3>3 DEF Gone
    <3>5. \A i \in (Ids(n) \ D1) \ D2 : SameInChain(two.nodes[i], node[i])
      BY <1>10, <1>13, <2>1, <3>4 DEF SameInChain
    <3> QED BY <1>10, <1>13, <2>1, <3>4, <3>5
  <2>2. CASE ~FreeIn(node, x)
    <3>1. two = one /\ D2 = {}
      BY <1>2, <1>4, <1>10, <1>14, <2>2 DEF TwoMerged
    <3> QED BY <1>13, <3>1
  <2> QED BY <2>1, <2>2
<1>16. PICK returned : returned = Ram!PushFreeNode(two, id)
  OBVIOUS
<1>17. /\ Core(returned, n) /\ Ram!LiveIds(returned) = L \ D /\ Ram!Holes(returned) = Ram!Holes(r) \ D
       /\ returned.sp < n /\ Ram!TopFreeNode(returned) = id
       /\ \A i \in Ids(n) \ D : SameInChain(returned.nodes[i], node[i])
  <2>1. id \in Ram!LiveIds(two) /\ two.nodes[id].used
    <3>1. id \in (Ids(n) \ D1) \ D2
      BY <1>3, <1>11
    <3> QED BY <1>3, <1>11, <1>15, <3>1 DEF SameInChain
  <2>2. Gone(two, Ram!PushFreeNode(two, id), n, id)
    BY <1>15, <2>1, PushCore
  <2>3. /\ Core(returned, n) /\ Ram!LiveIds(returned) = Ram!LiveIds(two) \ {id}
        /\ Ram!Holes(returned) = Ram!Holes(two) \ {id}
        /\ returned.sp < n /\ Ram!TopFreeNode(returned) = id
        /\ \A i \in Ids(n) \ {id} : SameInChain(returned.nodes[i], two.nodes[i])
    BY <1>16, <2>2 DEF Gone
  <2>4. \A i \in Ids(n) \ D : SameInChain(returned.nodes[i], node[i])
    BY <1>11, <1>15, <2>3 DEF SameInChain
  <2> QED BY <1>11, <1>15, <2>3, <2>4
<1>18. /\ start \in Nat /\ size \in 0 .. Capacity
       /\ b \in (Ids(n) \ {id}) \cup {Ram!Invalid} /\ a \in (Ids(n) \ {id}) \cup {Ram!Invalid}
  <2>1. /\ start \in Nat /\ size \in Nat /\ start + size <= Capacity
        /\ b # Ram!Invalid => b \in L \ D
        /\ a # Ram!Invalid => a \in L \ D
    BY <1>8 DEF Piece
  <2> QED BY <1>1, <1>2, <1>11, <2>1
<1>19. PICK combined : combined = Ram!InsertNode(returned, size, start)
  OBVIOUS
<1>20. /\ Core(combined, n) /\ Ram!LiveIds(combined) = (L \ D) \cup {id}
       /\ Ram!Holes(combined) = (Ram!Holes(r) \ D) \cup {id}
       /\ combined.nodes[id].dataSize = size /\ combined.nodes[id].dataOffset = start
       /\ ~combined.nodes[id].used
       /\ \A i \in Ids(n) \ {id} : SameInChain(combined.nodes[i], returned.nodes[i])
  <2>1. Inserted(returned, Ram!InsertNode(returned, size, start), n, Ram!TopFreeNode(returned), size, start)
    BY <1>17, <1>18, InsertCore
  <2> QED BY <1>17, <1>19, <2>1 DEF Inserted
<1>21. PICK q : q = Ram!FreeNode(r, id)
  OBVIOUS
<1>22. q = Ram!Join(combined, b, id, a)
  <2>1. q = FreedAs(r, two, id)
    BY <1>12, <1>14, <1>21, FreeNodeIs
  <2> QED BY <1>2, <1>7, <1>16, <1>17, <1>19, <2>1 DEF FreedAs
<1>23. /\ Core(q, n) /\ Ram!LiveIds(q) = (L \ D) \cup {id} /\ Ram!Holes(q) = (Ram!Holes(r) \ D) \cup {id}
       /\ \A i \in Ids(n) :
            /\ q.nodes[i].dataOffset = combined.nodes[i].dataOffset
            /\ q.nodes[i].dataSize = combined.nodes[i].dataSize
            /\ q.nodes[i].used = combined.nodes[i].used
            /\ q.nodes[i].prev = IF i = id THEN b ELSE IF i = a THEN id ELSE combined.nodes[i].prev
            /\ q.nodes[i].next = IF i = id THEN a ELSE IF i = b THEN id ELSE combined.nodes[i].next
  <2>1. Joined(combined, Ram!Join(combined, b, id, a), n, b, id, a)
    BY <1>3, <1>18, <1>20, JoinCore
  <2> QED BY <1>20, <1>22, <2>1 DEF Joined
<1>24. Combined(node, q.nodes, L, D, b, a, start, size, id)
  <2>1. /\ q.nodes[id].dataOffset = start /\ q.nodes[id].dataSize = size /\ q.nodes[id].used = FALSE
        /\ q.nodes[id].prev = b /\ q.nodes[id].next = a
    <3>1. q.nodes[id].used \in BOOLEAN
      BY <1>3, <1>23, CoreFacts
    <3> QED BY <1>3, <1>20, <1>23, <3>1
  <2>2. ASSUME NEW i \in L \ D
        PROVE  /\ q.nodes[i].dataOffset = node[i].dataOffset /\ q.nodes[i].dataSize = node[i].dataSize
               /\ q.nodes[i].used = node[i].used
               /\ q.nodes[i].prev = IF i = a THEN id ELSE node[i].prev
               /\ q.nodes[i].next = IF i = b THEN id ELSE node[i].next
    <3>1. i \in Ids(n) /\ i \notin D /\ i # id
      BY <1>1, <1>2, <1>11
    <3>2. SameInChain(combined.nodes[i], returned.nodes[i]) /\ SameInChain(returned.nodes[i], node[i])
      BY <1>17, <1>20, <3>1
    <3> QED BY <1>23, <3>1, <3>2 DEF SameInChain
  <2> QED BY <2>1, <2>2 DEF Combined
<1>25. \E front : Chain(q.nodes, Ram!LiveIds(q), front)
  <2>1. id \notin L \ D /\ id # Ram!Invalid
    BY <1>1, <1>3, <1>11
  <2>2. Chain(q.nodes, (L \ D) \cup {id}, IF b = Ram!Invalid THEN id ELSE first)
    BY <1>1, <1>2, <1>8, <1>24, <2>1, ChainCombined
  <2> QED BY <1>23, <2>2
<1>26. Ram!LiveIds(q) \ Ram!Holes(q) = (Ram!LiveIds(r) \ Ram!Holes(r)) \ {id}
  BY <1>1, <1>2, <1>3, <1>11, <1>23
<1>27. \A i \in Ram!LiveIds(q) \ Ram!Holes(q) : q.nodes[i].dataOffset = r.nodes[i].dataOffset
                                               /\ q.nodes[i].dataSize = r.nodes[i].dataSize
  <2>1. Ram!LiveIds(q) \ Ram!Holes(q) \subseteq L \ D
    BY <1>23
  <2> QED BY <1>2, <1>24, <2>1 DEF Combined
<1> QED BY <1>21, <1>23, <1>25, <1>26, <1>27 DEF Freed

-----------------------------------------------------------------------------
(* The invariant.                                                          *)

\* An object of m free ids: no nodes are live.
Blank(m) ==
  [nodes |-> [i \in Ids(m) |-> Ram!FreshNode], freeNodes |-> [i \in Ids(m) |-> i], sp |-> 0,
   maxAllocs |-> 0, capacity |-> Capacity, bins |-> [b \in Ram!Bin |-> Ram!Invalid], usedBins |-> {},
   freeStorage |-> 0, aborted |-> FALSE]

LEMMA BlankCore ==
  ASSUME Ram!MiniRamAssumption, NEW m \in Nat \ {0}
  PROVE  Core(Blank(m), m) /\ Ram!LiveIds(Blank(m)) = {} /\ Ram!TopFreeNode(Blank(m)) = 0
<1>1. PICK r : r = Blank(m)
  OBVIOUS
<1>2. PICK nodes \in [Ids(m) -> Node], free \in [Ids(m) -> Ids(m)] :
        /\ nodes = [i \in Ids(m) |-> Ram!FreshNode] /\ free = [i \in Ids(m) |-> i]
  BY FreshIs
<1>3. PICK bins \in [Ram!Bin -> Int] : bins = [b \in Ram!Bin |-> Ram!Invalid]
  <2>1. Ram!Invalid \in Int
    BY DEF Ram!Invalid
  <2>2. [b \in Ram!Bin |-> Ram!Invalid] \in [Ram!Bin -> Int]
    BY <2>1
  <2> QED BY <2>2
<1>4. /\ r.nodes = nodes /\ r.freeNodes = free /\ r.sp = 0 /\ r.bins = bins /\ r.usedBins = {}
      /\ r.freeStorage = 0
  BY <1>1, <1>2, <1>3 DEF Blank
<1>5. Shaped(r, m)
  <2>1. 0 \in 0 .. m /\ 0 \in Nat /\ {} \in SUBSET Ram!Bin
    OBVIOUS
  <2>2. r = [nodes |-> nodes, freeNodes |-> free, sp |-> 0, maxAllocs |-> 0, capacity |-> Capacity,
             bins |-> bins, usedBins |-> {}, freeStorage |-> 0, aborted |-> FALSE]
    BY <1>1, <1>2, <1>3 DEF Blank
  <2> QED BY <2>1, <2>2 DEF Shaped
<1>6. Above(free, 0, m) = Ids(m)
  BY <1>2 DEF Above, Ids
<1>7. StackHolds(r.freeNodes, r.sp, m)
  <2>1. Cardinality(Ids(m) \ Above(free, 0, m)) = 0
    BY <1>6, FS_EmptySet
  <2>2. \A i, j \in 0 .. m - 1 : i # j => free[i] # free[j]
    BY <1>2 DEF Ids
  <2> QED BY <1>4, <2>1, <2>2 DEF StackHolds
<1>8. Ram!LiveIds(r) = {} /\ Ram!Holes(r) = {}
  <2>1. Ram!LiveIds(r) = Ids(m) \ Above(r.freeNodes, r.sp, m)
    BY <1>5, ShapeFacts
  <2>2. Ram!LiveIds(r) = {}
    BY <1>4, <1>6, <2>1
  <2> QED BY <2>2 DEF Ram!Holes
<1>9. \A i \in Ids(m) : ~r.nodes[i].used
  BY <1>2, <1>4 DEF Ram!FreshNode
<1>10. Lists(r, {})
  <2>1. \A b \in Ram!Bin : r.bins[b] = Ram!Invalid
    BY <1>3, <1>4
  <2> QED BY <1>4, <2>1 DEF Lists
<1>11. Ranked(r, m, {})
  <2>1. [i \in Ids(m) |-> 0] \in [Ids(m) -> Nat]
    OBVIOUS
  <2> QED BY <2>1 DEF Ranked
<1>12. Stored(r, m)
  <2> DEFINE s == [k \in 0 .. m |-> 0]
  <2>1. \A i \in Ids(m) : Weights(r)[i] = 0
    BY <1>4, <1>8, WeightsAre
  <2>2. s \in [0 .. m -> Int] /\ s[0] = 0 /\ s[m] = 0
    OBVIOUS
  <2>3. ASSUME NEW k \in 1 .. m PROVE s[k] = s[k - 1] + Weights(r)[k - 1]
    <3>1. k \in 0 .. m /\ k - 1 \in 0 .. m /\ k - 1 \in Ids(m)
      BY DEF Ids
    <3> QED BY <2>1, <3>1
  <2> HIDE DEF s
  <2> QED BY <1>4, <2>2, <2>3 DEF Stored, IsSum
<1>13. Ram!TopFreeNode(r) = 0
  <2>1. 0 \in Ids(m)
    BY DEF Ids
  <2> QED BY <1>2, <1>4, <2>1 DEF Ram!TopFreeNode
<1>14. Core(r, m)
  BY <1>5, <1>7, <1>8, <1>9, <1>10, <1>11, <1>12 DEF Core
<1> QED BY <1>1, <1>8, <1>13, <1>14

LEMMA InitInv ==
  ASSUME Ram!MiniRamAssumption, Ram!Init
  PROVE  Inv
<1>1. PICK m \in Nat : m = InitialAllocs + 1 /\ m >= 2
  BY DEF Ram!MiniRamAssumption
<1>2. PICK blank : blank = Blank(m)
  OBVIOUS
<1>3. ram = Ram!InsertNode(blank, Capacity, 0)
  <2>1. PICK none, before :
          /\ none = [i \in {} |-> Ram!FreshNode]
          /\ before = [nodes |-> none, freeNodes |-> [i \in {} |-> 0],
                       sp |-> 0, maxAllocs |-> InitialAllocs, capacity |-> Capacity,
                       bins |-> <<>>, usedBins |-> {}, freeStorage |-> 0, aborted |-> FALSE]
    OBVIOUS
  <2>2. ram = Ram!Clear(before)
    BY <2>1 DEF Ram!Init
  <2>3. PICK reset : reset = [Ram!DefragmentReset(before) EXCEPT !.sp = 0, !.maxAllocs = 0]
    OBVIOUS
  <2>4. ram = Ram!InsertNode(Ram!ReserveNodes(reset, m), Capacity, 0)
    <3>1. before.maxAllocs = InitialAllocs /\ before.capacity = Capacity
      BY <2>1
    <3> QED BY <1>1, <2>2, <2>3, <3>1 DEF Ram!Clear
  <2>5. reset = [nodes |-> none, freeNodes |-> [i \in {} |-> 0], sp |-> 0, maxAllocs |-> 0,
                 capacity |-> Capacity, bins |-> [b \in Ram!Bin |-> Ram!Invalid], usedBins |-> {},
                 freeStorage |-> 0, aborted |-> FALSE]
    BY <2>1, <2>3 DEF Ram!DefragmentReset
  <2>6. DOMAIN reset.nodes = {} /\ DOMAIN reset.freeNodes = {} /\ Ram!NodeCount(reset) = 0
    <3>1. DOMAIN reset.nodes = {} /\ DOMAIN reset.freeNodes = {}
      BY <2>1, <2>5
    <3> QED BY <3>1, FS_EmptySet, RamCardinality DEF Ram!NodeCount
  <2>7. Ram!ReserveNodes(reset, m) =
          [reset EXCEPT !.nodes = [i \in Ids(m) |-> Ram!FreshNode], !.freeNodes = [i \in Ids(m) |-> i]]
    <3>1. ~(m <= 0)
      BY <1>1
    <3> QED BY <2>6, <3>1 DEF Ram!ReserveNodes, Ids
  <2>8. Ram!ReserveNodes(reset, m) = blank
    BY <1>2, <2>5, <2>7 DEF Blank
  <2> QED BY <2>4, <2>8
<1>4. Core(blank, m) /\ Ram!LiveIds(blank) = {} /\ Ram!TopFreeNode(blank) = 0 /\ Ram!Holes(blank) = {}
  <2>1. Core(blank, m) /\ Ram!LiveIds(blank) = {} /\ Ram!TopFreeNode(blank) = 0
    BY <1>1, <1>2, BlankCore
  <2> QED BY <2>1 DEF Ram!Holes
<1>5. /\ Core(ram, m) /\ Ram!LiveIds(ram) = {0} /\ Ram!Holes(ram) = {0}
      /\ ram.nodes[0].dataSize = Capacity /\ ram.nodes[0].dataOffset = 0
      /\ ram.nodes[0].prev = Ram!Invalid /\ ram.nodes[0].next = Ram!Invalid
  <2>1. blank.sp < m
    BY <1>1, <1>2 DEF Blank
  <2>2. Capacity \in 0 .. Capacity /\ 0 \in Nat
    BY DEF Ram!MiniRamAssumption
  <2>3. Inserted(blank, Ram!InsertNode(blank, Capacity, 0), m, Ram!TopFreeNode(blank), Capacity, 0)
    BY <1>4, <2>1, <2>2, InsertCore
  <2> QED BY <1>3, <1>4, <2>3 DEF Inserted
<1>6. Chain(ram.nodes, {0}, 0)
  BY <1>5 DEF Chain, Ram!MiniRamAssumption
<1>7. HeldBy(ram) = {} /\ allocs = {}
  BY <1>5 DEF Ram!Init, HeldBy
<1> QED BY <1>1, <1>5, <1>6, <1>7 DEF Inv, Whole

LEMMA Least ==
  ASSUME NEW S, S \subseteq Nat, S # {}
  PROVE  \E x \in S : \A y \in S : x <= y
<1> SUFFICES ASSUME \A x \in S : \E y \in S : ~(x <= y) PROVE FALSE
  OBVIOUS
<1> DEFINE T == { n \in Nat : \A x \in S : n <= x }
<1>1. T \subseteq Nat /\ 0 \in T
  OBVIOUS
<1>2. ASSUME NEW n \in T PROVE n + 1 \in T
  <2>1. n \notin S
    OBVIOUS
  <2>2. \A x \in S : x \in Nat /\ n <= x /\ x # n
    BY <2>1
  <2> QED BY <2>2
<1>3. T = Nat
  <2> HIDE DEF T
  <2> QED BY <1>1, <1>2, InductionOnNat
<1>4. PICK x \in S : x \in Nat
  OBVIOUS
<1>5. x + 1 \in T
  BY <1>3, <1>4
<1> QED BY <1>4, <1>5

LEMMA Greatest ==
  ASSUME NEW N \in Nat, NEW S, S \subseteq 0 .. N, S # {}
  PROVE  \E x \in S : \A y \in S : x >= y
<1>1. { N - x : x \in S } \subseteq Nat /\ { N - x : x \in S } # {}
  <2>1. \A x \in S : N - x \in Nat
    OBVIOUS
  <2> QED BY <2>1
<1>2. PICK z \in { N - x : x \in S } : \A y \in { N - x : x \in S } : z <= y
  BY <1>1, Least
<1>3. PICK x \in S : z = N - x
  OBVIOUS
<1>4. \A y \in S : N - x <= N - y
  BY <1>2, <1>3
<1>5. \A y \in S : y \in 0 .. N
  OBVIOUS
<1>6. \A y \in S : y \in Nat
  <2>1. \A y \in 0 .. N : y \in Nat
    OBVIOUS
  <2> QED BY <1>5, <2>1
<1> QED BY <1>4, <1>6

LEMMA BinsAreNumbers ==
  ASSUME Ram!MiniRamAssumption
  PROVE  /\ TopBins * Ram!MantissaValue - 1 \in Nat /\ Ram!Bin = 0 .. TopBins * Ram!MantissaValue - 1
         /\ Ram!Bin \subseteq Nat /\ Ram!Invalid \notin Ram!Bin
<1>1. PICK M \in Nat, t \in Nat : M = Ram!MantissaValue /\ t = TopBins - 1 /\ TopBins = t + 1 /\ M >= 2
  BY Mantissa DEF Ram!MiniRamAssumption
<1>2. t * M \in Nat /\ TopBins * M = t * M + M
  BY <1>1
<1>3. TopBins * Ram!MantissaValue - 1 \in Nat
  BY <1>1, <1>2
<1> QED BY <1>3 DEF Ram!Bin, Ram!Invalid

LEMMA FittingBinIs ==
  ASSUME Ram!MiniRamAssumption, NEW n, NEW r, Core(r, n), NEW size \in Nat
  PROVE  \/ Ram!FittingBin(r, size) = Ram!Invalid /\ \A b \in r.usedBins : ~(b >= Ram!CeilToFloat(size))
         \/ Ram!FittingBin(r, size) \in r.usedBins /\ Ram!FittingBin(r, size) >= Ram!CeilToFloat(size)
<1> DEFINE fitting == { b \in r.usedBins : b >= Ram!CeilToFloat(size) }
<1>1. fitting \subseteq Nat
  BY CoreFacts, BinsAreNumbers
<1>2. CASE fitting = {}
  BY <1>2 DEF Ram!FittingBin
<1>3. CASE fitting # {}
  <2>1. \E b \in fitting : \A c \in fitting : b <= c
    <3> HIDE DEF fitting
    <3> QED BY <1>1, <1>3, Least
  <2>2. Ram!FittingBin(r, size) \in fitting
    <3>1. Ram!FittingBin(r, size) = CHOOSE b \in fitting : \A c \in fitting : b <= c
      BY <1>3 DEF Ram!FittingBin
    <3> HIDE DEF fitting
    <3> QED BY <2>1, <3>1
  <2> QED BY <2>2
<1> QED BY <1>2, <1>3

LEMMA HolesAre ==
  ASSUME Ram!MiniRamAssumption, NEW n, NEW r, Core(r, n), NEW i \in Ram!Holes(r)
  PROVE  /\ i \in Ids(n) /\ i \in Ram!LiveIds(r) /\ ~r.nodes[i].used
         /\ r.nodes[i].dataSize \in 0 .. Capacity
         /\ r.nodes[i].dataSize \in Nat /\ r.nodes[i].dataOffset \in Nat
<1>1. i \in Ids(n) /\ i \in Ram!LiveIds(r) /\ ~r.nodes[i].used
  <2>1. Ram!LiveIds(r) \subseteq Ids(n) /\ Ram!Holes(r) = { j \in Ram!LiveIds(r) : ~r.nodes[j].used }
    BY CoreFacts
  <2> QED BY <2>1
<1>2. r.nodes[i].dataSize \in 0 .. Capacity /\ r.nodes[i].dataOffset \in Nat
  BY <1>1, CoreFacts
<1> QED BY <1>1, <1>2

\* The first node in the list of a bin that is not empty is a hole at least
\* as large as the bin says.
LEMMA HeadFits ==
  ASSUME Ram!MiniRamAssumption, NEW n, NEW r, Core(r, n), NEW bin \in r.usedBins
  PROVE  /\ bin \in Ram!Bin /\ r.bins[bin] # Ram!Invalid /\ r.bins[bin] \in Ram!Holes(r)
         /\ Ram!ToUint(bin) <= r.nodes[r.bins[bin]].dataSize
<1>1. bin \in Ram!Bin /\ bin \in Nat /\ r.bins[bin] # Ram!Invalid
  BY BinsAreNumbers DEF Core, Lists
<1>2. r.bins[bin] \in Ram!Holes(r) /\ Ram!FloorToFloat(r.nodes[r.bins[bin]].dataSize) = bin
  BY <1>1 DEF Core, Lists
<1>3. PICK s \in Nat : s = r.nodes[r.bins[bin]].dataSize
  BY <1>2, HolesAre
<1>4. Ram!ToUint(bin) <= s
  BY <1>1, <1>2, <1>3, FloorIs
<1> QED BY <1>1, <1>2, <1>3, <1>4

LEMMA BinFits ==
  ASSUME Ram!MiniRamAssumption, NEW n, NEW r, Core(r, n), NEW size \in Nat, NEW bin \in r.usedBins,
         bin >= Ram!CeilToFloat(size)
  PROVE  size <= r.nodes[r.bins[bin]].dataSize
<1>1. bin \in Nat /\ Ram!ToUint(bin) \in Nat
  BY CoreFacts, BinsAreNumbers, ToUintNext
<1>2. Ram!CeilToFloat(size) \in Nat
  BY FloorBetween
<1>3. size <= Ram!ToUint(bin)
  BY <1>1, <1>2, FloorIs
<1>4. r.nodes[r.bins[bin]].dataSize \in Nat
  BY HeadFits, HolesAre
<1> QED BY <1>1, <1>3, <1>4, HeadFits

\* Allocate first sees to it that an id is left.
Reserved(r) ==
  IF Ram!RemainingAllocs(r) # 0 THEN r ELSE Ram!ReserveNodes(r, 2 * (Ram!NodeCount(r) - 1) + 1)

AllocatedAs(r, s, size) ==
  IF size > r.freeStorage THEN [ram |-> r, alloc |-> Ram!NoSpace]
  ELSE IF Ram!FittingBin(s, size) = Ram!Invalid THEN [ram |-> s, alloc |-> Ram!NoSpace]
  ELSE [ram |-> Ram!SliceTopBinNode(s, size, Ram!FittingBin(s, size)),
        alloc |-> [offset |-> s.nodes[s.bins[Ram!FittingBin(s, size)]].dataOffset,
                   id |-> s.bins[Ram!FittingBin(s, size)]]]

LEMMA AllocateResultIs ==
  ASSUME NEW r, NEW size
  PROVE  Ram!AllocateResult(r, size) = AllocatedAs(r, Reserved(r), size)
BY DEF Ram!AllocateResult, AllocatedAs, Reserved

LEMMA ReservedIs ==
  ASSUME Ram!MiniRamAssumption, NEW n \in Nat, n >= 2, NEW r, Core(r, n)
  PROVE  \E m \in Nat : /\ m >= 2 /\ Grew(r, Reserved(r), n, m) /\ Reserved(r).sp < m
                        /\ Reserved(r) = r \/ Reserved(r) = Ram!ReserveNodes(r, m)
<1>1. Ram!NodeCount(r) = n /\ r.sp \in 0 .. n
  BY CoreFacts
<1>2. CASE Ram!RemainingAllocs(r) # 0
  <2>1. Reserved(r) = r /\ r.sp < n
    BY <1>1, <1>2 DEF Reserved, Ram!RemainingAllocs
  <2> QED BY <2>1 DEF Grew
<1>3. CASE Ram!RemainingAllocs(r) = 0
  <2>1. r.sp = n
    BY <1>1, <1>3 DEF Ram!RemainingAllocs
  <2>2. PICK m \in Nat : m = 2 * (n - 1) + 1 /\ m > n
    OBVIOUS
  <2>3. Reserved(r) = Ram!ReserveNodes(r, m)
    BY <1>1, <1>3, <2>2 DEF Reserved
  <2>4. AtLeast(n, m) = m
    BY <2>2 DEF AtLeast
  <2>5. Grew(r, Reserved(r), n, m)
    BY <2>3, <2>4, ReserveCore
  <2>6. Reserved(r).sp < m
    BY <2>1, <2>2, <2>5 DEF Grew
  <2> QED BY <2>2, <2>3, <2>5, <2>6
<1> QED BY <1>2, <1>3

LEMMA GrewWhole ==
  ASSUME Ram!MiniRamAssumption, NEW n, NEW r, NEW given, Whole(r, given, n), NEW m \in Nat, m >= 2,
         NEW q, Grew(r, q, n, m)
  PROVE  /\ Whole(q, given, m) /\ HeldBy(q) = HeldBy(r)
         /\ \A first : Chain(r.nodes, Ram!LiveIds(r), first) => Chain(q.nodes, Ram!LiveIds(q), first)
<1>1. /\ Core(q, m) /\ Ram!LiveIds(q) = Ram!LiveIds(r) /\ Ram!Holes(q) = Ram!Holes(r)
      /\ \A i \in Ids(n) : q.nodes[i] = r.nodes[i]
  BY DEF Grew
<1>2. Ram!LiveIds(r) \subseteq Ids(n)
  BY CoreFacts DEF Whole
<1>3. \A i \in Ram!LiveIds(r) : q.nodes[i] = r.nodes[i]
  BY <1>1, <1>2
<1>4. HeldBy(q) = HeldBy(r)
  BY <1>1, <1>3 DEF HeldBy
<1>5. ASSUME NEW first, Chain(r.nodes, Ram!LiveIds(r), first) PROVE Chain(q.nodes, Ram!LiveIds(q), first)
  BY <1>1, <1>3, <1>5, ChainUsed
<1>6. Whole(q, given, m)
  BY <1>1, <1>4, <1>5 DEF Whole
<1> QED BY <1>4, <1>5, <1>6

\* The caller got what it asked for, or nothing.
Answered(r, answer, size) ==
  \E m : Whole(answer.ram,
               IF answer.alloc = Ram!NoSpace THEN HeldBy(r)
               ELSE HeldBy(r) \cup {[id |-> answer.alloc.id, size |-> size,
                                     offset |-> answer.alloc.offset]},
               m)

LEMMA AllocateKeeps ==
  ASSUME Ram!MiniRamAssumption, NEW n, NEW r, NEW given, Whole(r, given, n), NEW size \in Nat, size > 0
  PROVE  Answered(r, Ram!AllocateResult(r, size), size)
<1>1. PICK answer, s : answer = Ram!AllocateResult(r, size) /\ s = Reserved(r)
  OBVIOUS
<1>2. answer = AllocatedAs(r, s, size)
  BY <1>1, AllocateResultIs
<1>3. n \in Nat /\ n >= 2 /\ Core(r, n) /\ given = HeldBy(r)
  BY DEF Whole
<1>4. PICK m \in Nat : m >= 2 /\ Grew(r, s, n, m) /\ s.sp < m
  BY <1>1, <1>3, ReservedIs
<1>5. /\ Whole(s, given, m) /\ HeldBy(s) = HeldBy(r) /\ Core(s, m)
      /\ \E first : Chain(s.nodes, Ram!LiveIds(s), first)
  BY <1>4, GrewWhole DEF Whole
<1>6. CASE size > r.freeStorage
  <2>1. answer.ram = r /\ answer.alloc = Ram!NoSpace
    BY <1>2, <1>6 DEF AllocatedAs
  <2> QED BY <1>1, <1>3, <2>1 DEF Answered
<1>7. CASE ~(size > r.freeStorage) /\ Ram!FittingBin(s, size) = Ram!Invalid
  <2>1. answer.ram = s /\ answer.alloc = Ram!NoSpace
    BY <1>2, <1>7 DEF AllocatedAs
  <2> QED BY <1>1, <1>3, <1>5, <2>1 DEF Answered
<1>8. CASE ~(size > r.freeStorage) /\ Ram!FittingBin(s, size) # Ram!Invalid
  <2>1. PICK bin : bin = Ram!FittingBin(s, size)
    OBVIOUS
  <2>2. PICK id : id = s.bins[bin]
    OBVIOUS
  <2>3. answer = [ram |-> Ram!SliceTopBinNode(s, size, bin),
                  alloc |-> [offset |-> s.nodes[id].dataOffset, id |-> id]]
    BY <1>2, <1>8, <2>1, <2>2 DEF AllocatedAs
  <2>4. bin \in s.usedBins /\ bin >= Ram!CeilToFloat(size)
    BY <1>5, <1>8, <2>1, FittingBinIs
  <2>5. bin \in Ram!Bin /\ id # Ram!Invalid /\ id \in Ram!Holes(s) /\ size <= s.nodes[id].dataSize
    BY <1>5, <2>2, <2>4, HeadFits, BinFits
  <2>6. PICK first : Chain(s.nodes, Ram!LiveIds(s), first)
    BY <1>5
  <2>7. PICK q : q = Ram!SliceTopBinNode(s, size, bin)
    OBVIOUS
  <2>8. Sliced(s, q, m, first, id, size)
    BY <1>4, <1>5, <2>2, <2>5, <2>6, <2>7, SliceCore
  <2>9. PICK alloc : alloc = [id |-> id, size |-> size, offset |-> s.nodes[id].dataOffset]
    OBVIOUS
  <2>10. HeldBy(q) = HeldBy(s) \cup {alloc}
    <3>1. /\ Ram!LiveIds(q) \ Ram!Holes(q) = (Ram!LiveIds(s) \ Ram!Holes(s)) \cup {id}
          /\ q.nodes[id].dataOffset = s.nodes[id].dataOffset /\ q.nodes[id].dataSize = size
          /\ \A i \in Ram!LiveIds(s) \ Ram!Holes(s) : q.nodes[i].dataOffset = s.nodes[i].dataOffset
                                                     /\ q.nodes[i].dataSize = s.nodes[i].dataSize
      BY <2>8 DEF Sliced
    <3>2. PICK U : U = Ram!LiveIds(s) \ Ram!Holes(s)
      OBVIOUS
    <3> DEFINE Q(i) == [id |-> i, offset |-> q.nodes[i].dataOffset, size |-> q.nodes[i].dataSize]
               R(i) == [id |-> i, offset |-> s.nodes[i].dataOffset, size |-> s.nodes[i].dataSize]
    <3>3. HeldBy(q) = { Q(i) : i \in U \cup {id} } /\ HeldBy(s) = { R(i) : i \in U }
      BY <3>1, <3>2 DEF HeldBy
    <3>4. Q(id) = alloc /\ \A i \in U : Q(i) = R(i)
      BY <2>9, <3>1, <3>2
    <3> HIDE DEF Q, R
    <3> QED BY <3>3, <3>4
  <2>11. Whole(q, HeldBy(r) \cup {alloc}, m)
    BY <1>4, <1>5, <2>8, <2>10 DEF Sliced, Whole
  <2>12. answer.ram = q /\ answer.alloc # Ram!NoSpace
         /\ alloc = [id |-> answer.alloc.id, size |-> size, offset |-> answer.alloc.offset]
    BY <2>3, <2>5, <2>7, <2>9 DEF Ram!NoSpace
  <2> QED BY <1>1, <2>11, <2>12 DEF Answered
<1> QED BY <1>6, <1>7, <1>8

LEMMA AllocateInv ==
  ASSUME Ram!MiniRamAssumption, Inv, NEW size \in Sizes, Ram!Allocate(size)
  PROVE  Inv'
<1>1. PICK n : Whole(ram, allocs, n)
  BY DEF Inv
<1>2. PICK answer : answer = Ram!AllocateResult(ram, size)
  OBVIOUS
<1>3. /\ ram' = answer.ram
      /\ allocs' = IF answer.alloc = Ram!NoSpace THEN allocs
                   ELSE allocs \cup {[id |-> answer.alloc.id, size |-> size,
                                      offset |-> answer.alloc.offset]}
  BY <1>2 DEF Ram!Allocate
<1>4. size \in Nat /\ size > 0
  BY DEF Ram!MiniRamAssumption
<1>5. Answered(ram, answer, size)
  BY <1>1, <1>2, <1>4, AllocateKeeps
<1>6. allocs = HeldBy(ram)
  BY <1>1 DEF Whole
<1>7. \E m : Whole(ram', allocs', m)
  BY <1>3, <1>5, <1>6 DEF Answered
<1> QED BY <1>7 DEF Inv

LEMMA FreeInv ==
  ASSUME Ram!MiniRamAssumption, Inv, NEW a \in allocs, Ram!Free(a)
  PROVE  Inv'
<1>1. PICK n : Whole(ram, allocs, n)
  BY DEF Inv
<1>2. /\ n \in Nat /\ n >= 2 /\ Core(ram, n) /\ allocs = HeldBy(ram)
      /\ \E first : Chain(ram.nodes, Ram!LiveIds(ram), first)
  BY <1>1 DEF Whole
<1>3. PICK id \in Ram!LiveIds(ram) \ Ram!Holes(ram) :
        a = [id |-> id, offset |-> ram.nodes[id].dataOffset, size |-> ram.nodes[id].dataSize]
  BY <1>2 DEF HeldBy
<1>4. PICK r, q : r = ram /\ q = Ram!FreeNode(ram, id)
  OBVIOUS
<1>5. ram' = q /\ allocs' = allocs \ {a}
  BY <1>3, <1>4 DEF Ram!Free
<1>6. Freed(r, q, n, id)
  BY <1>2, <1>3, <1>4, FreeCore
<1>7. HeldBy(q) = HeldBy(r) \ {a}
  <2>1. /\ Ram!LiveIds(q) \ Ram!Holes(q) = (Ram!LiveIds(r) \ Ram!Holes(r)) \ {id}
        /\ \A i \in Ram!LiveIds(q) \ Ram!Holes(q) : q.nodes[i].dataOffset = r.nodes[i].dataOffset
                                                   /\ q.nodes[i].dataSize = r.nodes[i].dataSize
    BY <1>6 DEF Freed
  <2>2. PICK U : U = Ram!LiveIds(r) \ Ram!Holes(r)
    OBVIOUS
  <2> DEFINE Q(i) == [id |-> i, offset |-> q.nodes[i].dataOffset, size |-> q.nodes[i].dataSize]
             R(i) == [id |-> i, offset |-> r.nodes[i].dataOffset, size |-> r.nodes[i].dataSize]
  <2>3. HeldBy(q) = { Q(i) : i \in U \ {id} } /\ HeldBy(r) = { R(i) : i \in U }
    BY <2>1, <2>2 DEF HeldBy
  <2>4. a = R(id) /\ (\A i \in U \ {id} : Q(i) = R(i)) /\ \A i : R(i).id = i
    BY <1>3, <1>4, <2>1, <2>2
  <2> HIDE DEF Q, R
  <2> QED BY <2>3, <2>4
<1>8. Whole(q, allocs \ {a}, n)
  BY <1>2, <1>4, <1>6, <1>7 DEF Freed, Whole
<1>9. Whole(ram', allocs', n)
  BY <1>5, <1>8
<1> QED BY <1>9 DEF Inv

LEMMA ReserveInv ==
  ASSUME Ram!MiniRamAssumption, Inv, NEW number \in 1 .. MaxNodes, Ram!ReserveAllocations(number)
  PROVE  Inv'
<1>1. PICK n : Whole(ram, allocs, n)
  BY DEF Inv
<1>2. PICK more \in Nat : more = number + 1
  BY DEF Ram!MiniRamAssumption
<1>3. PICK r, q : r = ram /\ q = Ram!ReserveNodes(ram, more)
  OBVIOUS
<1>4. ram' = q /\ allocs' = allocs
  BY <1>2, <1>3 DEF Ram!ReserveAllocations
<1>5. n \in Nat /\ n >= 2 /\ Core(r, n)
  BY <1>1, <1>3 DEF Whole
<1>6. Grew(r, q, n, AtLeast(n, more))
  BY <1>3, <1>5, ReserveCore
<1>7. AtLeast(n, more) \in Nat /\ AtLeast(n, more) >= 2
  BY <1>5 DEF AtLeast
<1>8. Whole(q, allocs, AtLeast(n, more))
  BY <1>1, <1>3, <1>6, <1>7, GrewWhole
<1>9. Whole(ram', allocs', AtLeast(n, more))
  BY <1>4, <1>8
<1> QED BY <1>9 DEF Inv

LEMMA StepKeeps ==
  ASSUME Ram!MiniRamAssumption, Inv, [Ram!Next]_Ram!vars
  PROVE  Inv'
<1>1. ASSUME NEW size \in Sizes, Ram!Allocate(size) PROVE Inv'
  BY <1>1, AllocateInv
<1>2. ASSUME NEW a \in allocs, Ram!Free(a) PROVE Inv'
  BY <1>2, FreeInv
<1>3. ASSUME NEW number \in 1 .. MaxNodes, Ram!ReserveAllocations(number) PROVE Inv'
  BY <1>3, ReserveInv
<1>4. CASE UNCHANGED Ram!vars
  <2>1. ram' = ram /\ allocs' = allocs
    BY <1>4 DEF Ram!vars
  <2>2. PICK n : Whole(ram, allocs, n)
    BY DEF Inv
  <2>3. Whole(ram', allocs', n)
    BY <2>1, <2>2
  <2> QED BY <2>3 DEF Inv
<1> QED BY <1>1, <1>2, <1>3, <1>4 DEF Ram!Next

-----------------------------------------------------------------------------
(* The nodes tile the RAM.                                                 *)

LEMMA HoleSizesAre ==
  ASSUME Ram!MiniRamAssumption, NEW n, NEW r, Core(r, n)
  PROVE  r.freeStorage = Ram!HoleSizes(r)
<1> DEFINE Weight(k) == IF k \in Ram!Holes(r) THEN r.nodes[k].dataSize ELSE 0
           IsSums(w) == w = [k \in 0 .. Ram!NodeCount(r) |-> IF k = 0 THEN 0 ELSE w[k - 1] + Weight(k - 1)]
           sum == CHOOSE w : IsSums(w)
<1>1. Ram!HoleSizes(r) = sum[Ram!NodeCount(r)]
  BY DEF Ram!HoleSizes
<1>2. n \in Nat /\ Ram!NodeCount(r) = n /\ r.nodes \in [Ids(n) -> Node]
  BY CoreFacts
<1>3. PICK s : IsSum(s, Weights(r), n) /\ r.freeStorage = s[n]
  BY DEF Core, Stored
<1>4. \A k \in 1 .. n : Weights(r)[k - 1] = Weight(k - 1)
  <2>1. \A k \in 1 .. n : k - 1 \in Ids(n)
    BY <1>2 DEF Ids
  <2> QED BY <1>2, <2>1, WeightsAre
<1> HIDE DEF Weight
<1>5. IsSums(s)
  <2>1. s \in [0 .. n -> Int] /\ s[0] = 0 /\ \A k \in 1 .. n : s[k] = s[k - 1] + Weight(k - 1)
    BY <1>3, <1>4 DEF IsSum
  <2>2. \A k \in 0 .. n : s[k] = IF k = 0 THEN 0 ELSE s[k - 1] + Weight(k - 1)
    BY <2>1
  <2>3. s = [k \in 0 .. n |-> s[k]]
    BY <2>1
  <2>4. s = [k \in 0 .. n |-> IF k = 0 THEN 0 ELSE s[k - 1] + Weight(k - 1)]
    BY <2>2, <2>3, Zenon
  <2> QED BY <1>2, <2>4
<1>6. IsSums(sum)
  <2> HIDE DEF IsSums
  <2> QED BY <1>5
<1> HIDE DEF sum
<1>7. \A k \in 0 .. n : sum[k] = IF k = 0 THEN 0 ELSE sum[k - 1] + Weight(k - 1)
  <2>1. sum = [k \in 0 .. n |-> IF k = 0 THEN 0 ELSE sum[k - 1] + Weight(k - 1)]
    BY <1>2, <1>6
  <2> QED BY <2>1, Zenon
<1> DEFINE T == { k \in 0 .. n : sum[k] = s[k] }
<1>8. 0 \in T /\ T \in SUBSET (0 .. n)
  BY <1>2, <1>3, <1>7 DEF IsSum
<1>9. ASSUME NEW k \in 1 .. n, k - 1 \in T PROVE k \in T
  <2>1. k \in 0 .. n /\ k # 0 /\ sum[k] = sum[k - 1] + Weight(k - 1)
    BY <1>7
  <2>2. s[k] = s[k - 1] + Weight(k - 1)
    BY <1>3, <1>4 DEF IsSum
  <2> QED BY <1>9, <2>1, <2>2
<1>10. T = 0 .. n
  <2> HIDE DEF T
  <2> QED BY <1>2, <1>8, <1>9, UpTo
<1>11. sum[n] = s[n]
  BY <1>2, <1>10
<1> QED BY <1>1, <1>2, <1>3, <1>11

LEMMA InvTiled ==
  ASSUME Ram!MiniRamAssumption, Inv
  PROVE  Ram!RamTiled
<1>1. PICK n : Whole(ram, allocs, n)
  BY DEF Inv
<1>2. n \in Nat /\ Core(ram, n) /\ allocs = HeldBy(ram)
  BY <1>1 DEF Whole
<1>3. PICK r : r = ram
  OBVIOUS
<1>4. /\ r.nodes \in [Ids(n) -> Node] /\ Ram!NodeCount(r) = n /\ r.aborted = FALSE /\ Shaped(r, n)
      /\ Numbers(r.nodes, Ram!LiveIds(r))
      /\ r.sp \in 0 .. n /\ r.freeNodes \in [Ids(n) -> Ids(n)]
      /\ Ram!LiveIds(r) = Ids(n) \ Above(r.freeNodes, r.sp, n)
  <2>1. Core(r, n) /\ Shaped(r, n)
    BY <1>2, <1>3 DEF Core
  <2> QED BY <1>2, <2>1, CoreFacts, ShapeFacts
<1>5. PICK first : Chain(r.nodes, Ram!LiveIds(r), first)
  BY <1>1, <1>3 DEF Whole
<1>6. Ram!FreeNodeLeft
  BY <1>3, <1>4 DEF Ram!FreeNodeLeft
<1>7. Ram!FreeStackHonest
  <2>1. StackHolds(r.freeNodes, r.sp, n) /\ \A i \in Ids(n) : r.nodes[i].used => i \in Ram!LiveIds(r)
    BY <1>2, <1>3 DEF Core
  <2>2. \A i \in r.sp .. n - 1 : r.freeNodes[i] \in Ids(n) /\ r.freeNodes[i] \notin Ram!LiveIds(r)
    <3>1. \A i \in r.sp .. n - 1 : i \in Ids(n) /\ r.freeNodes[i] \in Above(r.freeNodes, r.sp, n)
      <4>1. PICK sp \in 0 .. n : sp = r.sp
        BY <1>4
      <4>2. \A i \in sp .. n - 1 : i \in Ids(n)
        BY <1>2 DEF Ids
      <4> QED BY <4>1, <4>2 DEF Above
    <3> QED BY <1>4, <3>1
  <2>3. \A i \in r.sp .. n - 1 : ~r.nodes[r.freeNodes[i]].used
    BY <2>1, <2>2
  <2> QED BY <1>3, <1>4, <2>1, <2>3 DEF Ram!FreeStackHonest, StackHolds
<1>8. ASSUME NEW i \in Ram!LiveIds(r)
      PROVE  IF r.nodes[i].next = Ram!Invalid THEN r.nodes[i].dataOffset + r.nodes[i].dataSize = r.capacity
             ELSE /\ r.nodes[i].next \in Ram!LiveIds(r)
                  /\ r.nodes[r.nodes[i].next].prev = i
                  /\ r.nodes[r.nodes[i].next].dataOffset = r.nodes[i].dataOffset + r.nodes[i].dataSize
                  /\ r.nodes[i].used \/ r.nodes[r.nodes[i].next].used
  <2>1. r.capacity = Capacity
    BY <1>4 DEF Shaped
  <2> QED BY <1>5, <2>1 DEF Chain
<1>9. /\ first \in Ram!LiveIds(r) /\ r.nodes[first].dataOffset = 0
      /\ { i \in Ram!LiveIds(r) : r.nodes[i].prev = Ram!Invalid } = {first}
  BY <1>5 DEF Chain
<1>10. allocs = { [id |-> i, offset |-> r.nodes[i].dataOffset, size |-> r.nodes[i].dataSize] :
                    i \in Ram!LiveIds(r) \ Ram!Holes(r) }
  BY <1>2, <1>3 DEF HeldBy
<1>11. r.freeStorage = Ram!HoleSizes(r)
  BY <1>2, <1>3, HoleSizesAre
<1> QED BY <1>3, <1>6, <1>7, <1>8, <1>9, <1>10, <1>11 DEF Ram!RamTiled

-----------------------------------------------------------------------------
(* The walks along the lists of the bins.                                  *)

\* The holes of a bin, and a rank that grows along its list.
HolesOf(r, bin) == { i \in Ram!Holes(r) : Ram!FloorToFloat(r.nodes[i].dataSize) = bin }

Walked(r, bin, list, n) ==
  /\ list \in [0 .. n -> HolesOf(r, bin) \cup {Ram!Invalid}]
  /\ \A k \in 0 .. n : list[k] = IF k = 0 THEN r.bins[bin]
                                 ELSE IF list[k - 1] = Ram!Invalid THEN Ram!Invalid
                                      ELSE r.nodes[list[k - 1]].binNext

LEMMA ListOf ==
  ASSUME Ram!MiniRamAssumption, NEW n, NEW r, Core(r, n), NEW bin \in Ram!Bin
  PROVE  /\ HolesOf(r, bin) \subseteq Ids(n) /\ Ram!Invalid \notin HolesOf(r, bin)
         /\ r.bins[bin] \in HolesOf(r, bin) \cup {Ram!Invalid}
         /\ \A i \in HolesOf(r, bin) : /\ r.nodes[i].binNext \in HolesOf(r, bin) \cup {Ram!Invalid}
                                       /\ IF r.nodes[i].binPrev = Ram!Invalid THEN r.bins[bin] = i
                                          ELSE /\ r.nodes[i].binPrev \in HolesOf(r, bin)
                                               /\ r.nodes[r.nodes[i].binPrev].binNext = i
<1>1. \A i \in Ram!Holes(r) : i \in Ids(n) /\ i # Ram!Invalid
  <2>1. Ram!LiveIds(r) \subseteq Ids(n) /\ \A i \in Ids(n) : i # Ram!Invalid
    BY CoreFacts
  <2> QED BY <2>1 DEF Ram!Holes
<1>2. Lists(r, Ram!Holes(r))
  BY DEF Core
<1>3. r.bins[bin] \in HolesOf(r, bin) \cup {Ram!Invalid}
  BY <1>2 DEF Lists, HolesOf
<1>4. ASSUME NEW i \in HolesOf(r, bin)
      PROVE  /\ r.nodes[i].binNext \in HolesOf(r, bin) \cup {Ram!Invalid}
             /\ IF r.nodes[i].binPrev = Ram!Invalid THEN r.bins[bin] = i
                ELSE /\ r.nodes[i].binPrev \in HolesOf(r, bin)
                     /\ r.nodes[r.nodes[i].binPrev].binNext = i
  BY <1>2 DEF Lists, HolesOf
<1> QED BY <1>1, <1>3, <1>4 DEF HolesOf

LEMMA WalkIs ==
  ASSUME Ram!MiniRamAssumption, NEW n, NEW r, Core(r, n), NEW bin \in Ram!Bin
  PROVE  Walked(r, bin, Ram!BinList(r, bin), n)
<1> DEFINE Link(x) == IF x = Ram!Invalid THEN Ram!Invalid ELSE r.nodes[x].binNext
           IsWalk(w) == w = [k \in 0 .. Ram!NodeCount(r) |->
                               IF k = 0 THEN r.bins[bin]
                               ELSE IF w[k - 1] = Ram!Invalid THEN Ram!Invalid ELSE r.nodes[w[k - 1]].binNext]
           walk == CHOOSE w : IsWalk(w)
<1>1. n \in Nat /\ Ram!NodeCount(r) = n
  BY CoreFacts
<1>2. PICK S : S = HolesOf(r, bin) \cup {Ram!Invalid}
  OBVIOUS
<1>3. r.bins[bin] \in S /\ \A x \in S : Link(x) \in S
  BY <1>2, ListOf
<1>4. PICK v \in [0 .. n -> S] :
        \A k \in 0 .. n : v[k] = IF k = 0 THEN r.bins[bin] ELSE Link(v[k - 1])
  <2> HIDE DEF Link
  <2>1. PICK step : step = [k \in 1 .. n |-> [x \in S |-> Link(x)]]
    OBVIOUS
  <2>2. step \in Steps(S, n) /\ \A k \in 1 .. n : \A x \in S : step[k][x] = Link(x)
    BY <1>3, <2>1 DEF Steps
  <2>3. PICK a \in S : a = r.bins[bin]
    BY <1>3
  <2>4. PICK v : IsRun(v, S, n, a, step)
    BY <1>1, <2>2, Repeated
  <2>5. v \in [0 .. n -> S]
    BY <2>4 DEF IsRun
  <2>6. ASSUME NEW k \in 0 .. n, k # 0 PROVE v[k] = Link(v[k - 1])
    <3>1. k \in 1 .. n /\ k - 1 \in 0 .. n
      BY <1>1, <2>6
    <3>2. v[k] = step[k][v[k - 1]]
      BY <2>4, <2>6 DEF IsRun
    <3> QED BY <2>2, <2>5, <3>1, <3>2
  <2>7. \A k \in 0 .. n : k = 0 => v[k] = r.bins[bin]
    BY <2>3, <2>4 DEF IsRun
  <2> QED BY <2>5, <2>6, <2>7
<1>5. IsWalk(v)
  <2>1. v = [k \in 0 .. n |-> v[k]]
    OBVIOUS
  <2>2. v = [k \in 0 .. n |-> IF k = 0 THEN r.bins[bin] ELSE Link(v[k - 1])]
    BY <1>4, <2>1, Zenon
  <2> QED BY <1>1, <2>2
<1>6. Ram!BinList(r, bin) = walk
  BY DEF Ram!BinList
<1>7. IsWalk(walk)
  <2> HIDE DEF IsWalk
  <2> QED BY <1>5
<1> HIDE DEF walk
<1>8. \A k \in 0 .. n : walk[k] = IF k = 0 THEN r.bins[bin] ELSE Link(walk[k - 1])
  <2>1. walk = [k \in 0 .. n |-> IF k = 0 THEN r.bins[bin] ELSE Link(walk[k - 1])]
    BY <1>1, <1>7
  <2> HIDE DEF Link
  <2> QED BY <2>1, Zenon
<1> DEFINE T == { k \in 0 .. n : walk[k] \in S }
<1>9. T = 0 .. n
  <2> HIDE DEF Link
  <2>1. T \in SUBSET (0 .. n) /\ 0 \in T
    BY <1>1, <1>3, <1>8
  <2>2. ASSUME NEW k \in 1 .. n, k - 1 \in T PROVE k \in T
    <3>1. k \in 0 .. n /\ k # 0 /\ walk[k] = Link(walk[k - 1])
      BY <1>8
    <3> QED BY <1>3, <2>2, <3>1
  <2> HIDE DEF T
  <2> QED BY <1>1, <2>1, <2>2, UpTo
<1>10. walk \in [0 .. n -> S]
  <2>1. walk = [k \in 0 .. n |-> walk[k]]
    BY <1>1, <1>7
  <2>2. \A k \in 0 .. n : walk[k] \in S
    BY <1>9
  <2> QED BY <2>1, <2>2
<1> QED BY <1>2, <1>6, <1>8, <1>10 DEF Walked

\* Along a walk ids are met once, and those met come first.
LEMMA WalkGrows ==
  ASSUME Ram!MiniRamAssumption, NEW n \in Nat, NEW r, NEW bin, NEW list, Walked(r, bin, list, n),
         Ram!Invalid \notin HolesOf(r, bin), NEW rank \in [Ids(n) -> Nat], HolesOf(r, bin) \subseteq Ids(n),
         \A i \in HolesOf(r, bin) :
           r.nodes[i].binNext # Ram!Invalid => rank[i] < rank[r.nodes[i].binNext]
  PROVE  \A k \in 0 .. n : list[k] # Ram!Invalid =>
           \A j \in 0 .. n : j < k => list[j] # Ram!Invalid /\ rank[list[j]] < rank[list[k]]
<1> DEFINE Q(k) == list[k] # Ram!Invalid =>
                     \A j \in 0 .. n : j < k => list[j] # Ram!Invalid /\ rank[list[j]] < rank[list[k]]
           T == { k \in 0 .. n : Q(k) }
<1>1. T \in SUBSET (0 .. n) /\ 0 \in T
  OBVIOUS
<1>2. ASSUME NEW k \in 1 .. n, k - 1 \in T PROVE k \in T
  <2>1. k \in 0 .. n /\ k - 1 \in 0 .. n /\ k # 0
    OBVIOUS
  <2> SUFFICES ASSUME list[k] # Ram!Invalid, NEW j \in 0 .. n, j < k
               PROVE  list[j] # Ram!Invalid /\ rank[list[j]] < rank[list[k]]
    BY <2>1
  <2>2. list[k - 1] # Ram!Invalid /\ list[k] = r.nodes[list[k - 1]].binNext
    BY <2>1 DEF Walked
  <2>3. list[k - 1] \in HolesOf(r, bin) /\ list[k] \in HolesOf(r, bin)
    BY <2>1, <2>2 DEF Walked
  <2>4. rank[list[k - 1]] < rank[list[k]]
    BY <2>2, <2>3
  <2>5. CASE j = k - 1
    BY <2>2, <2>4, <2>5
  <2>6. CASE j < k - 1
    <3>1. list[j] # Ram!Invalid /\ rank[list[j]] < rank[list[k - 1]]
      BY <1>2, <2>2, <2>6
    <3>2. list[j] \in HolesOf(r, bin)
      BY <3>1 DEF Walked
    <3>3. rank[list[j]] \in Nat /\ rank[list[k - 1]] \in Nat /\ rank[list[k]] \in Nat
      BY <2>3, <3>2
    <3> QED BY <2>4, <3>1, <3>3
  <2> QED BY <2>5, <2>6
<1>3. T = 0 .. n
  <2> HIDE DEF T
  <2> QED BY <1>1, <1>2, UpTo
<1> QED BY <1>3

LEMMA WalkEnds ==
  ASSUME Ram!MiniRamAssumption, NEW n \in Nat, NEW r, NEW bin, NEW list, Walked(r, bin, list, n),
         HolesOf(r, bin) \subseteq Ids(n), NEW rank \in [Ids(n) -> Nat],
         \A k \in 0 .. n : list[k] # Ram!Invalid =>
           \A j \in 0 .. n : j < k => list[j] # Ram!Invalid /\ rank[list[j]] < rank[list[k]]
  PROVE  list[n] = Ram!Invalid
<1> SUFFICES ASSUME list[n] # Ram!Invalid PROVE FALSE
  OBVIOUS
<1>1. \A j \in 0 .. n : list[j] # Ram!Invalid /\ list[j] \in Ids(n)
  <2>1. \A j \in 0 .. n : list[j] # Ram!Invalid
    <3>1. \A j \in 0 .. n : j = n \/ j < n
      OBVIOUS
    <3>2. n \in 0 .. n
      OBVIOUS
    <3> QED BY <3>1, <3>2
  <2> QED BY <2>1 DEF Walked
<1>2. \A j, k \in 0 .. n : j < k => list[j] # list[k]
  <2> SUFFICES ASSUME NEW j \in 0 .. n, NEW k \in 0 .. n, j < k, list[j] = list[k] PROVE FALSE
    OBVIOUS
  <2>1. rank[list[j]] < rank[list[k]] /\ rank[list[k]] \in Nat
    BY <1>1
  <2> QED BY <2>1
<1>3. \A j, k \in 0 .. n : j # k => list[j] # list[k]
  <2>1. \A j, k \in 0 .. n : j # k => j < k \/ k < j
    OBVIOUS
  <2> QED BY <1>2, <2>1
<1>4. list \in Injection(0 .. n, Ids(n))
  <2>1. list \in [0 .. n -> Ids(n)]
    BY <1>1 DEF Walked
  <2> QED BY <1>3, <2>1 DEF Injection, IsInjective
<1>5. Cardinality(0 .. n) = n + 1
  <2>1. PICK m \in Nat : m = n + 1
    OBVIOUS
  <2>2. Ids(m) = 0 .. n
    BY <2>1 DEF Ids
  <2>3. Cardinality(Ids(m)) = m
    BY IdsCount
  <2> QED BY <2>1, <2>2, <2>3
<1>6. IsFiniteSet(Ids(n)) /\ Cardinality(Ids(n)) = n
  BY IdsCount
<1>7. Cardinality(0 .. n) <= Cardinality(Ids(n))
  BY <1>4, <1>6, FS_Injection
<1> QED BY <1>5, <1>6, <1>7

\* The walk meets the holes of its bin, each once.
MeetsAll(list, H) ==
  /\ { list[k] : k \in Ram!Met(list) } = H /\ Cardinality(Ram!Met(list)) = Cardinality(H)
  /\ H # {} => list[0] # Ram!Invalid

LEMMA WalkMeets ==
  ASSUME Ram!MiniRamAssumption, NEW n, NEW r, Core(r, n), NEW bin \in Ram!Bin
  PROVE  MeetsAll(Ram!BinList(r, bin), HolesOf(r, bin))
<1>1. PICK list, H : list = Ram!BinList(r, bin) /\ H = HolesOf(r, bin)
  OBVIOUS
<1>2. n \in Nat /\ Walked(r, bin, list, n)
  BY <1>1, CoreFacts, WalkIs
<1>3. /\ H \subseteq Ids(n) /\ Ram!Invalid \notin H
      /\ \A i \in H : /\ r.nodes[i].binNext \in H \cup {Ram!Invalid}
                      /\ IF r.nodes[i].binPrev = Ram!Invalid THEN r.bins[bin] = i
                         ELSE /\ r.nodes[i].binPrev \in H
                              /\ r.nodes[r.nodes[i].binPrev].binNext = i
  BY <1>1, ListOf
<1>4. PICK rank \in [Ids(n) -> Nat] :
        \A i \in H : r.nodes[i].binNext # Ram!Invalid => rank[i] < rank[r.nodes[i].binNext]
  <2>1. PICK rank \in [Ids(n) -> Nat] :
          \A i \in Ram!Holes(r) : r.nodes[i].binNext # Ram!Invalid => rank[i] < rank[r.nodes[i].binNext]
    BY DEF Core, Ranked
  <2>2. H \subseteq Ram!Holes(r)
    BY <1>1 DEF HolesOf
  <2> QED BY <2>1, <2>2
<1>5. \A k \in 0 .. n : list[k] # Ram!Invalid =>
        \A j \in 0 .. n : j < k => list[j] # Ram!Invalid /\ rank[list[j]] < rank[list[k]]
  BY <1>1, <1>2, <1>3, <1>4, WalkGrows
<1>6. list[n] = Ram!Invalid
  BY <1>1, <1>2, <1>3, <1>5, WalkEnds
<1>7. Ram!Met(list) = { k \in 0 .. n : list[k] # Ram!Invalid } /\ \A k \in Ram!Met(list) : list[k] \in H
  BY <1>1, <1>2 DEF Ram!Met, Walked
<1>8. ASSUME NEW i \in H PROVE \E k \in Ram!Met(list) : list[k] = i
  <2> DEFINE T == { m \in Nat : \A j \in H : rank[j] <= m => \E k \in Ram!Met(list) : list[k] = j }
             Reached(j) == \E k \in Ram!Met(list) : list[k] = j
  <2>1. ASSUME NEW j \in H, r.nodes[j].binPrev = Ram!Invalid PROVE Reached(j)
    <3>1. 0 \in 0 .. n /\ list[0] = j
      BY <1>2, <1>3, <2>1 DEF Walked
    <3> QED BY <1>3, <1>7, <3>1
  <2>2. ASSUME NEW j \in H, r.nodes[j].binPrev # Ram!Invalid, Reached(r.nodes[j].binPrev) PROVE Reached(j)
    <3>1. PICK k \in Ram!Met(list) : list[k] = r.nodes[j].binPrev
      BY <2>2
    <3>2. k \in 0 .. n /\ k # n
      BY <1>6, <1>7, <3>1
    <3>3. k + 1 \in 0 .. n /\ k + 1 # 0 /\ (k + 1) - 1 = k
      BY <1>2, <3>2
    <3>4. list[k + 1] = r.nodes[list[k]].binNext
      BY <1>2, <1>7, <3>1, <3>3 DEF Walked
    <3>5. list[k + 1] = j
      BY <1>3, <2>2, <3>1, <3>4
    <3> QED BY <1>3, <1>7, <3>3, <3>5
  <2>3. \A j \in H : r.nodes[j].binPrev # Ram!Invalid =>
          /\ r.nodes[j].binPrev \in H /\ rank[r.nodes[j].binPrev] < rank[j]
          /\ rank[j] \in Nat /\ rank[r.nodes[j].binPrev] \in Nat
    <3>1. ASSUME NEW j \in H, r.nodes[j].binPrev # Ram!Invalid
          PROVE  /\ r.nodes[j].binPrev \in H /\ rank[r.nodes[j].binPrev] < rank[j]
                 /\ rank[j] \in Nat /\ rank[r.nodes[j].binPrev] \in Nat
      <4>1. PICK y \in H : y = r.nodes[j].binPrev /\ r.nodes[y].binNext = j
        BY <1>3, <3>1
      <4>2. j # Ram!Invalid
        BY <1>3
      <4>3. rank[y] < rank[j]
        BY <1>4, <4>1, <4>2
      <4> QED BY <1>3, <4>1, <4>3
    <3> QED BY <3>1
  <2>4. T \subseteq Nat /\ 0 \in T
    <3>1. ASSUME NEW j \in H, rank[j] <= 0 PROVE Reached(j)
      <4>1. r.nodes[j].binPrev = Ram!Invalid
        BY <2>3, <3>1
      <4> QED BY <2>1, <4>1
    <3> QED BY <3>1
  <2>5. ASSUME NEW m \in T PROVE m + 1 \in T
    <3>1. ASSUME NEW j \in H, rank[j] <= m + 1 PROVE Reached(j)
      <4>1. CASE r.nodes[j].binPrev = Ram!Invalid
        BY <2>1, <4>1
      <4>2. CASE r.nodes[j].binPrev # Ram!Invalid
        <5>1. PICK y \in H : y = r.nodes[j].binPrev /\ rank[y] <= m
          BY <2>3, <3>1, <4>2
        <5> QED BY <2>2, <4>2, <5>1
      <4> QED BY <4>1, <4>2
    <3> QED BY <3>1
  <2>6. T = Nat
    <3> HIDE DEF T
    <3> QED BY <2>4, <2>5, InductionOnNat
  <2>7. rank[i] \in Nat
    BY <1>3
  <2>8. rank[i] \in T
    BY <2>6, <2>7
  <2> QED BY <2>7, <2>8
<1>9. { list[k] : k \in Ram!Met(list) } = H
  BY <1>7, <1>8
<1>10. Cardinality(Ram!Met(list)) = Cardinality(H)
  <2>1. PICK M : M = Ram!Met(list)
    OBVIOUS
  <2>2. PICK f \in [M -> H] : f = [k \in M |-> list[k]]
    BY <1>7, <2>1
  <2>3. \A j, k \in M : j # k => f[j] # f[k]
    <3>1. \A j, k \in M : j < k => list[j] # list[k]
      <4> SUFFICES ASSUME NEW j \in M, NEW k \in M, j < k, list[j] = list[k] PROVE FALSE
        OBVIOUS
      <4>1. j \in 0 .. n /\ k \in 0 .. n /\ list[k] # Ram!Invalid /\ list[k] \in H
        BY <1>7, <2>1
      <4>2. rank[list[j]] < rank[list[k]] /\ rank[list[k]] \in Nat
        BY <1>3, <1>5, <4>1
      <4> QED BY <4>2
    <3>2. \A j, k \in M : j # k => j < k \/ k < j
      BY <1>7, <2>1
    <3> QED BY <2>2, <3>1, <3>2
  <2>4. f \in Injection(M, H)
    BY <2>3 DEF Injection, IsInjective
  <2>5. f \in Surjection(M, H)
    BY <1>8, <2>1, <2>2 DEF Surjection
  <2>6. IsFiniteSet(H)
    BY <1>2, <1>3, IdsCount, FS_Subset
  <2>7. Cardinality(M) = Cardinality(H)
    BY <2>4, <2>5, <2>6, FS_Injection
  <2> QED BY <2>1, <2>7
<1>11. H # {} => list[0] # Ram!Invalid
  <2> SUFFICES ASSUME NEW i \in H PROVE list[0] # Ram!Invalid
    OBVIOUS
  <2>1. PICK k \in 0 .. n : list[k] # Ram!Invalid
    BY <1>3, <1>7, <1>8
  <2>2. k = 0 \/ 0 < k
    OBVIOUS
  <2>3. 0 \in 0 .. n
    BY <1>2
  <2> QED BY <1>5, <2>1, <2>2, <2>3
<1> QED BY <1>1, <1>9, <1>10, <1>11 DEF MeetsAll

LEMMA InvBins ==
  ASSUME Ram!MiniRamAssumption, Inv
  PROVE  Ram!BinsExact
<1>1. PICK n : Core(ram, n)
  BY DEF Inv, Whole
<1>2. PICK r : r = ram
  OBVIOUS
<1>3. ASSUME NEW b \in Ram!Bin
      PROVE  /\ { Ram!BinList(r, b)[k] : k \in Ram!Met(Ram!BinList(r, b)) } = HolesOf(r, b)
             /\ Ram!FreeRegions(r)[b].count = Cardinality(HolesOf(r, b))
             /\ b \in r.usedBins <=> HolesOf(r, b) # {}
             /\ \A i \in HolesOf(r, b) : r.nodes[i].dataSize >= Ram!FreeRegions(r)[b].size
  <2>1. PICK list, H : list = Ram!BinList(r, b) /\ H = HolesOf(r, b)
    OBVIOUS
  <2>2. { list[k] : k \in Ram!Met(list) } = H /\ Cardinality(Ram!Met(list)) = Cardinality(H)
        /\ (H # {} => list[0] # Ram!Invalid)
    BY <1>1, <1>2, <2>1, WalkMeets DEF MeetsAll
  <2>3. Ram!FreeRegions(r)[b] = [size |-> Ram!ToUint(b), count |-> Cardinality(Ram!Met(list))]
    BY <2>1, RamCardinality DEF Ram!FreeRegions
  <2>4. b \in r.usedBins <=> H # {}
    <3>1. list[0] = r.bins[b]
      <4>1. n \in Nat /\ Walked(r, b, list, n)
        BY <1>1, <1>2, <2>1, CoreFacts, WalkIs
      <4> QED BY <4>1 DEF Walked
    <3>2. r.usedBins = { c \in Ram!Bin : r.bins[c] # Ram!Invalid }
      BY <1>1, <1>2 DEF Core, Lists
    <3>3. r.bins[b] \in H \cup {Ram!Invalid}
      BY <1>1, <1>2, <2>1, ListOf
    <3> QED BY <2>2, <3>1, <3>2, <3>3
  <2>5. ASSUME NEW i \in H PROVE r.nodes[i].dataSize >= Ram!ToUint(b)
    <3>1. i \in Ram!Holes(r) /\ Ram!FloorToFloat(r.nodes[i].dataSize) = b
      BY <2>1 DEF HolesOf
    <3>2. PICK s \in Nat : s = r.nodes[i].dataSize
      BY <1>1, <1>2, <3>1, HolesAre
    <3>3. b \in Nat /\ Ram!ToUint(b) \in Nat /\ b <= b
      BY BinsAreNumbers, ToUintNext
    <3>4. Ram!ToUint(b) <= s
      BY <3>1, <3>2, <3>3, FloorIs
    <3> QED BY <3>2, <3>3, <3>4
  <2> QED BY <2>1, <2>2, <2>3, <2>4, <2>5
<1>4. ASSUME NEW b \in Ram!Bin, NEW holes, holes = { i \in Ram!Holes(ram) : Ram!FloorToFloat(ram.nodes[i].dataSize) = b },
             NEW list, list = Ram!BinList(ram, b)
      PROVE  /\ { list[k] : k \in Ram!Met(list) } = holes
             /\ Ram!FreeRegions(ram)[b].count = Ram!Cardinality(holes)
             /\ b \in ram.usedBins <=> holes # {}
             /\ \A i \in holes : ram.nodes[i].dataSize >= Ram!FreeRegions(ram)[b].size
  <2>1. holes = HolesOf(r, b) /\ list = Ram!BinList(r, b)
    BY <1>2, <1>4 DEF HolesOf
  <2> QED BY <1>2, <1>3, <2>1, RamCardinality
<1> QED BY <1>4, Zenon DEF Ram!BinsExact

\* The largest bin that is not empty.
LEMMA MaxAllocIs ==
  ASSUME Ram!MiniRamAssumption, NEW n, NEW r, Core(r, n), r.freeStorage # 0, r.usedBins # {}
  PROVE  \E b \in r.usedBins : b \in Nat /\ Ram!MaxAlloc(r) = Ram!ToUint(b) /\ \A c \in r.usedBins : c <= b
<1>1. PICK N \in Nat : N = TopBins * Ram!MantissaValue - 1 /\ r.usedBins \subseteq 0 .. N
  BY CoreFacts, BinsAreNumbers
<1>2. PICK S : S = r.usedBins
  OBVIOUS
<1>3. \E b \in S : \A c \in S : b >= c
  BY <1>1, <1>2, Greatest
<1>4. PICK b : b = CHOOSE x \in S : \A c \in S : x >= c
  OBVIOUS
<1>5. b \in S /\ \A c \in S : b >= c
  BY <1>3, <1>4
<1>6. Ram!MaxAlloc(r) = Ram!ToUint(b)
  BY <1>2, <1>4 DEF Ram!MaxAlloc
<1> QED BY <1>1, <1>2, <1>5, <1>6

LEMMA InvAllocatable ==
  ASSUME Ram!MiniRamAssumption, Inv
  PROVE  Ram!AllocatableExact
<1> SUFFICES ASSUME NEW size \in Sizes, NEW answer, answer = Ram!AllocateResult(ram, size)
             PROVE  IF size <= Ram!MaxAlloc(ram) /\ ram.usedBins # {}
                    THEN answer.alloc # Ram!NoSpace
                    ELSE answer.alloc = Ram!NoSpace
                         /\ answer.ram.nodes = Ram!ReserveNodes(ram, Ram!NodeCount(answer.ram)).nodes
  BY DEF Ram!AllocatableExact
<1>1. PICK r, s : r = ram /\ s = Reserved(r)
  OBVIOUS
<1>2. PICK n \in Nat : n >= 2 /\ Core(r, n)
  BY <1>1 DEF Inv, Whole
<1>3. PICK m \in Nat : m >= 2 /\ Grew(r, s, n, m) /\ (s = r \/ s = Ram!ReserveNodes(r, m))
  BY <1>1, <1>2, ReservedIs
<1>4. Core(s, m) /\ s.usedBins = r.usedBins
  BY <1>3 DEF Grew
<1>5. answer = AllocatedAs(r, s, size)
  BY <1>1, AllocateResultIs
<1>6. size \in Nat /\ size > 0
  BY DEF Ram!MiniRamAssumption
<1>7. r.freeStorage \in Nat
  BY <1>2, ShapeFacts DEF Core
<1>8. CASE size <= Ram!MaxAlloc(r) /\ r.usedBins # {}
  <2>1. r.freeStorage # 0
    BY <1>6, <1>8 DEF Ram!MaxAlloc
  <2>2. PICK b \in r.usedBins : b \in Nat /\ Ram!MaxAlloc(r) = Ram!ToUint(b)
    BY <1>2, <1>8, <2>1, MaxAllocIs
  <2>3. Ram!CeilToFloat(size) <= b /\ Ram!CeilToFloat(size) \in Nat
    BY <1>6, <1>8, <2>2, FloorIs, FloorBetween
  <2>4. Ram!FittingBin(s, size) \in s.usedBins
    BY <1>4, <1>6, <2>2, <2>3, FittingBinIs
  <2>5. Ram!FittingBin(s, size) # Ram!Invalid /\ s.bins[Ram!FittingBin(s, size)] # Ram!Invalid
    <3>1. Ram!FittingBin(s, size) \in Ram!Bin /\ s.bins[Ram!FittingBin(s, size)] # Ram!Invalid
      BY <1>4, <2>4, HeadFits
    <3> QED BY <3>1, BinsAreNumbers
  <2>6. ~(size > r.freeStorage)
    <3>1. PICK h : h = r.bins[b]
      OBVIOUS
    <3>2. h \in Ram!Holes(r) /\ Ram!ToUint(b) <= r.nodes[h].dataSize
      BY <1>2, <3>1, HeadFits
    <3>3. h \in Ids(n) /\ r.nodes[h].dataSize \in Nat /\ r.nodes \in [Ids(n) -> Node]
      BY <1>2, <3>2, HolesAre, CoreFacts
    <3>4. PICK w \in [Ids(n) -> Nat] : w = Weights(r) /\ w[h] = r.nodes[h].dataSize
      BY <3>2, <3>3, WeightsAre
    <3>5. PICK t : IsSum(t, w, n) /\ r.freeStorage = t[n]
      BY <1>2, <3>4 DEF Core, Stored
    <3>6. w[h] <= r.freeStorage
      BY <3>3, <3>5, SumAtLeast
    <3>7. Ram!ToUint(b) \in Nat
      BY <2>2, ToUintNext
    <3> QED BY <1>6, <1>7, <1>8, <2>2, <3>2, <3>3, <3>4, <3>6, <3>7
  <2>7. answer.alloc.id = s.bins[Ram!FittingBin(s, size)]
    BY <1>5, <2>5, <2>6 DEF AllocatedAs
  <2>8. answer.alloc # Ram!NoSpace
    BY <2>5, <2>7 DEF Ram!NoSpace
  <2> QED BY <1>1, <1>8, <2>8
<1>9. CASE ~(size <= Ram!MaxAlloc(r) /\ r.usedBins # {})
  <2>1. size > r.freeStorage \/ Ram!FittingBin(s, size) = Ram!Invalid
    <3> SUFFICES ASSUME ~(size > r.freeStorage), Ram!FittingBin(s, size) # Ram!Invalid PROVE FALSE
      OBVIOUS
    <3>1. PICK c \in r.usedBins : c >= Ram!CeilToFloat(size)
      BY <1>4, <1>6, FittingBinIs
    <3>2. r.freeStorage # 0 /\ r.usedBins # {}
      BY <1>6, <1>7, <3>1
    <3>3. PICK b \in r.usedBins : b \in Nat /\ Ram!MaxAlloc(r) = Ram!ToUint(b) /\ c <= b
      BY <1>2, <3>1, <3>2, MaxAllocIs
    <3>4. c \in Nat /\ Ram!CeilToFloat(size) \in Nat
      <4>1. r.usedBins \subseteq Ram!Bin
        BY <1>2, CoreFacts
      <4>2. Ram!FloorToFloat(size) \in Nat /\ Ram!FloorToFloat(size) + 1 \in Nat
            /\ Ram!CeilToFloat(size) \in {Ram!FloorToFloat(size), Ram!FloorToFloat(size) + 1}
        BY <1>6, FloorBetween
      <4> QED BY <3>1, <4>1, <4>2, BinsAreNumbers
    <3>5. Ram!CeilToFloat(size) <= b
      BY <3>1, <3>3, <3>4
    <3>6. size <= Ram!ToUint(b)
      BY <1>6, <3>3, <3>5, FloorIs
    <3> QED BY <1>9, <3>2, <3>3, <3>6
  <2>2. answer.alloc = Ram!NoSpace /\ answer.ram \in {r, s}
    BY <1>5, <2>1 DEF AllocatedAs
  <2>3. Ram!ReserveNodes(r, n) = r /\ Ram!NodeCount(r) = n /\ Ram!NodeCount(s) = m
    <3>1. Ram!NodeCount(r) = n /\ Ram!NodeCount(s) = m
      BY <1>2, <1>4, CoreFacts
    <3> QED BY <3>1 DEF Ram!ReserveNodes
  <2>4. answer.ram = Ram!ReserveNodes(r, Ram!NodeCount(answer.ram))
    BY <1>3, <2>2, <2>3
  <2> QED BY <1>1, <1>9, <2>2, <2>4
<1> QED BY <1>8, <1>9

-----------------------------------------------------------------------------
(* Copies to the left, one after the other.                                *)

LeftMoves ==
  { m \in [src : Nat, dst : Nat, size : Nat] : m.dst < m.src /\ m.src + m.size <= Capacity }

\* Both where they come from and where they go to, the moves follow each other.
InTurn(moves) ==
  \A p, q \in DOMAIN moves : p < q => /\ moves[p].dst + moves[p].size <= moves[q].dst
                                      /\ moves[p].src + moves[p].size <= moves[q].src

Into(m) == m.dst .. m.dst + m.size - 1

\* Of the first n copies each has brought what was there before all of them.
CopiedSoFar(memory, after, copies, n) ==
  /\ \A k \in 1 .. n : \A x \in Into(copies[k]) :
       after[x] = memory[x - copies[k].dst + copies[k].src]
  /\ \A x \in 0 .. Capacity - 1 :
       (\A k \in 1 .. n : x \notin Into(copies[k])) => after[x] = memory[x]

LEMMA MoveFacts ==
  ASSUME Ram!MiniRamAssumption, NEW m \in LeftMoves
  PROVE  /\ m.src \in Nat /\ m.dst \in Nat /\ m.size \in Nat /\ Capacity \in Nat
         /\ m.dst < m.src /\ m.src + m.size <= Capacity
         /\ \A x \in Into(m) : /\ x \in 0 .. Capacity - 1 /\ x - m.dst + m.src \in 0 .. Capacity - 1
                               /\ m.dst <= x /\ x < m.dst + m.size
                               /\ m.src <= x - m.dst + m.src /\ x - m.dst + m.src < m.src + m.size
  BY DEF LeftMoves, Into, Ram!MiniRamAssumption

LEMMA CopyKeeps ==
  ASSUME Ram!MiniRamAssumption, NEW T, NEW memory \in [0 .. Capacity - 1 -> T], NEW m \in LeftMoves
  PROVE  /\ Ram!Copied(memory, m) \in [0 .. Capacity - 1 -> T]
         /\ \A x \in Into(m) : Ram!Copied(memory, m)[x] = memory[x - m.dst + m.src]
         /\ \A x \in 0 .. Capacity - 1 : x \notin Into(m) => Ram!Copied(memory, m)[x] = memory[x]
<1>1. \A x \in Into(m) : x \in 0 .. Capacity - 1 /\ x - m.dst + m.src \in 0 .. Capacity - 1
  BY MoveFacts
<1>2. Ram!Copied(memory, m) = [x \in 0 .. Capacity - 1 |->
                                 IF x \in Into(m) THEN memory[x - m.dst + m.src] ELSE memory[x]]
  BY DEF Ram!Copied, Into
<1> QED BY <1>1, <1>2

LEMMA CopiesInTurn ==
  ASSUME Ram!MiniRamAssumption, NEW T, NEW memory \in [0 .. Capacity - 1 -> T],
         NEW copies \in Seq(LeftMoves), InTurn(copies), NEW n \in 1 .. Len(copies),
         NEW old \in [0 .. Capacity - 1 -> T], CopiedSoFar(memory, old, copies, n - 1),
         NEW new, new = Ram!Copied(old, copies[n])
  PROVE  new \in [0 .. Capacity - 1 -> T] /\ CopiedSoFar(memory, new, copies, n)
<1>0. n \in Nat /\ n \in DOMAIN copies /\ Len(copies) \in Nat /\ DOMAIN copies = 1 .. Len(copies)
      /\ \A k \in DOMAIN copies : copies[k] \in LeftMoves
  OBVIOUS
<1>1. PICK m \in LeftMoves : m = copies[n]
  BY <1>0
<1>2. /\ new \in [0 .. Capacity - 1 -> T]
      /\ \A x \in Into(m) : new[x] = old[x - m.dst + m.src]
      /\ \A x \in 0 .. Capacity - 1 : x \notin Into(m) => new[x] = old[x]
  <2>1. new = Ram!Copied(old, m)
    BY <1>1
  <2>2. /\ Ram!Copied(old, m) \in [0 .. Capacity - 1 -> T]
        /\ \A x \in Into(m) : Ram!Copied(old, m)[x] = old[x - m.dst + m.src]
        /\ \A x \in 0 .. Capacity - 1 : x \notin Into(m) => Ram!Copied(old, m)[x] = old[x]
    BY CopyKeeps
  <2> HIDE <1>1
  <2> QED BY <2>1, <2>2
<1>3. ASSUME NEW k \in 1 .. n, k # n
      PROVE  /\ k \in 1 .. n - 1 /\ copies[k] \in LeftMoves
             /\ copies[k].dst + copies[k].size <= m.dst /\ copies[k].src + copies[k].size <= m.src
  <2>1. k \in DOMAIN copies /\ k < n /\ k \in 1 .. n - 1
    BY <1>0, <1>3
  <2> QED BY <1>0, <1>1, <2>1 DEF InTurn
<1>4. ASSUME NEW x \in Into(m) PROVE new[x] = memory[x - m.dst + m.src]
  <2>1. PICK y \in 0 .. Capacity - 1 : y = x - m.dst + m.src /\ m.src <= y
    BY <1>4, MoveFacts
  <2>2. ASSUME NEW k \in 1 .. n - 1 PROVE y \notin Into(copies[k])
    <3>1. k \in 1 .. n /\ k # n
      BY <1>0
    <3>2. copies[k] \in LeftMoves /\ copies[k].src + copies[k].size <= m.src
      BY <1>3, <3>1
    <3>3. PICK c \in LeftMoves : c = copies[k]
      BY <3>2
    <3>4. \A z \in Into(c) : z < c.dst + c.size
      BY MoveFacts
    <3>5. c.src \in Nat /\ c.dst \in Nat /\ c.size \in Nat /\ c.dst < c.src /\ m.src \in Nat
      BY MoveFacts
    <3> QED BY <2>1, <3>2, <3>3, <3>4, <3>5
  <2>3. old[y] = memory[y]
    BY <2>1, <2>2 DEF CopiedSoFar
  <2> QED BY <1>2, <2>1, <2>3
<1>5. ASSUME NEW k \in 1 .. n, k # n, NEW x \in Into(copies[k])
      PROVE  new[x] = memory[x - copies[k].dst + copies[k].src]
  <2>1. PICK c \in LeftMoves : c = copies[k] /\ c.dst + c.size <= m.dst /\ k \in 1 .. n - 1
    BY <1>3, <1>5
  <2>2. x \in 0 .. Capacity - 1 /\ x < c.dst + c.size
    BY <1>5, <2>1, MoveFacts
  <2>3. x \notin Into(m)
    <3>1. \A z \in Into(m) : m.dst <= z
      BY MoveFacts
    <3>2. c.dst \in Nat /\ c.size \in Nat /\ m.dst \in Nat
      BY MoveFacts
    <3> QED BY <2>1, <2>2, <3>1, <3>2
  <2>4. old[x] = memory[x - c.dst + c.src]
    BY <1>5, <2>1 DEF CopiedSoFar
  <2> QED BY <1>2, <2>1, <2>2, <2>3, <2>4
<1>6. ASSUME NEW x \in 0 .. Capacity - 1, \A k \in 1 .. n : x \notin Into(copies[k])
      PROVE  new[x] = memory[x]
  <2>1. x \notin Into(m) /\ \A k \in 1 .. n - 1 : x \notin Into(copies[k])
    <3>1. n \in 1 .. n /\ \A k \in 1 .. n - 1 : k \in 1 .. n
      BY <1>0
    <3> QED BY <1>1, <1>6, <3>1
  <2>2. old[x] = memory[x]
    BY <2>1 DEF CopiedSoFar
  <2> QED BY <1>2, <2>1, <2>2
<1>7. ASSUME NEW k \in 1 .. n, NEW x \in Into(copies[k])
      PROVE  new[x] = memory[x - copies[k].dst + copies[k].src]
  <2>1. CASE k = n
    BY <1>1, <1>4, <1>7, <2>1
  <2>2. CASE k # n
    BY <1>5, <1>7, <2>2
  <2> QED BY <2>1, <2>2
<1> QED BY <1>2, <1>6, <1>7 DEF CopiedSoFar

LEMMA CarriedOutIs ==
  ASSUME Ram!MiniRamAssumption, NEW T, NEW memory \in [0 .. Capacity - 1 -> T],
         NEW copies \in Seq(LeftMoves), InTurn(copies)
  PROVE  CopiedSoFar(memory, Ram!CarriedOut(memory, copies), copies, Len(copies))
<1> DEFINE N == Len(copies)
           IsAfter(w) == w = [k \in 0 .. Len(copies) |->
                                IF k = 0 THEN memory ELSE Ram!Copied(w[k - 1], copies[k])]
           after == CHOOSE w : IsAfter(w)
<1>0. N \in Nat /\ \A k \in 1 .. N : copies[k] \in LeftMoves
  OBVIOUS
<1>1. Ram!CarriedOut(memory, copies) = after[N]
  BY DEF Ram!CarriedOut
<1> HIDE DEF N
<1>2. PICK S : S = [0 .. Capacity - 1 -> T]
  OBVIOUS
<1>3. \A x \in S : \A k \in 1 .. N : Ram!Copied(x, copies[k]) \in S
  BY <1>0, <1>2, CopyKeeps
<1>4. PICK v \in [0 .. N -> S] :
        \A k \in 0 .. N : v[k] = IF k = 0 THEN memory ELSE Ram!Copied(v[k - 1], copies[k])
  <2>1. PICK step : step = [k \in 1 .. N |-> [x \in S |-> Ram!Copied(x, copies[k])]]
    OBVIOUS
  <2>2. step \in Steps(S, N) /\ \A k \in 1 .. N : \A x \in S : step[k][x] = Ram!Copied(x, copies[k])
    BY <1>3, <2>1 DEF Steps
  <2>3. PICK a \in S : a = memory
    BY <1>2
  <2>4. PICK v : IsRun(v, S, N, a, step)
    BY <1>0, <2>2, Repeated
  <2>5. v \in [0 .. N -> S]
    BY <2>4 DEF IsRun
  <2>6. ASSUME NEW k \in 0 .. N, k # 0 PROVE v[k] = Ram!Copied(v[k - 1], copies[k])
    <3>1. k \in 1 .. N /\ k - 1 \in 0 .. N
      BY <1>0, <2>6
    <3>2. v[k] = step[k][v[k - 1]]
      BY <2>4, <2>6 DEF IsRun
    <3> QED BY <2>2, <2>5, <3>1, <3>2
  <2>7. \A k \in 0 .. N : k = 0 => v[k] = memory
    BY <2>3, <2>4 DEF IsRun
  <2> QED BY <2>5, <2>6, <2>7
<1>5. IsAfter(v)
  <2>1. v = [k \in 0 .. N |-> v[k]]
    OBVIOUS
  <2>2. v = [k \in 0 .. N |-> IF k = 0 THEN memory ELSE Ram!Copied(v[k - 1], copies[k])]
    BY <1>4, <2>1, Zenon
  <2> QED BY <2>2 DEF N
<1>6. IsAfter(after)
  <2> HIDE DEF IsAfter
  <2> QED BY <1>5
<1> HIDE DEF after
<1>7. \A k \in 0 .. N : after[k] = IF k = 0 THEN memory ELSE Ram!Copied(after[k - 1], copies[k])
  <2>1. after = [k \in 0 .. N |-> IF k = 0 THEN memory ELSE Ram!Copied(after[k - 1], copies[k])]
    BY <1>6 DEF N
  <2> QED BY <2>1, Zenon
<1> HIDE DEF IsAfter
<1> DEFINE U == { k \in 0 .. N : after[k] \in [0 .. Capacity - 1 -> T]
                                 /\ CopiedSoFar(memory, after[k], copies, k) }
<1>8. 0 \in U /\ U \in SUBSET (0 .. N)
  <2>1. 0 \in 0 .. N /\ after[0] = memory
    BY <1>0, <1>7
  <2>2. CopiedSoFar(memory, memory, copies, 0)
    BY DEF CopiedSoFar
  <2> QED BY <2>1, <2>2
<1>9. ASSUME NEW k \in 1 .. N, k - 1 \in U PROVE k \in U
  <2>1. k \in 0 .. N /\ after[k] = Ram!Copied(after[k - 1], copies[k])
    BY <1>0, <1>7
  <2>2. after[k - 1] \in [0 .. Capacity - 1 -> T] /\ CopiedSoFar(memory, after[k - 1], copies, k - 1)
    BY <1>9
  <2>3. PICK old, new : old = after[k - 1] /\ new = after[k]
    OBVIOUS
  <2>4. new \in [0 .. Capacity - 1 -> T] /\ CopiedSoFar(memory, new, copies, k)
    BY <2>1, <2>2, <2>3, CopiesInTurn DEF N
  <2> QED BY <2>1, <2>3, <2>4
<1>10. U = 0 .. N
  <2> HIDE DEF U
  <2> QED BY <1>0, <1>8, <1>9, UpTo
<1> QED BY <1>0, <1>1, <1>10 DEF N

-----------------------------------------------------------------------------
(* The copies a move is cut into.                                          *)

\* The copy is a part of the move.
PartOf(c, m) ==
  /\ c.src - c.dst = m.src - m.dst
  /\ m.dst <= c.dst /\ c.dst + c.size <= m.dst + m.size

\* Copies that bring as a whole what the move is to bring.
CutOf(copies, m) ==
  /\ copies \in Seq(LeftMoves) /\ InTurn(copies)
  /\ \A k \in DOMAIN copies : PartOf(copies[k], m) /\ copies[k].src >= copies[k].dst + copies[k].size
  /\ \A x \in Into(m) : \E k \in DOMAIN copies : x \in Into(copies[k])

LEMMA Multiples ==
  ASSUME NEW c \in Nat \ {0}
  PROVE  /\ \A k \in Nat : c * k \in Nat /\ c * (k + 1) = c * k + c
         /\ \A j, k \in Nat : j < k => c * j + c <= c * k
         /\ \A j, k \in Nat : c * j < c * k => j < k
<1>1. \A k \in Nat : c * k \in Nat /\ c * (k + 1) = c * k + c
  OBVIOUS
<1>2. ASSUME NEW j \in Nat, NEW k \in Nat, j < k PROVE c * j + c <= c * k
  <2>1. PICK d \in Nat : k = j + 1 + d
    <3>1. k - j - 1 \in Nat /\ k = j + 1 + (k - j - 1)
      BY <1>2
    <3> QED BY <3>1
  <2>2. c * k = c * (j + 1) + c * d /\ c * d \in Nat /\ c * (j + 1) = c * j + c /\ c * j \in Nat
    BY <2>1
  <2> QED BY <2>2
<1>3. ASSUME NEW j \in Nat, NEW k \in Nat, c * j < c * k PROVE j < k
  <2> SUFFICES ASSUME k <= j PROVE FALSE
    OBVIOUS
  <2>1. PICK d \in Nat : j = k + d
    <3>1. j - k \in Nat /\ j = k + (j - k)
      OBVIOUS
    <3> QED BY <3>1
  <2>2. c * j = c * k + c * d /\ c * d \in Nat /\ c * k \in Nat
    BY <2>1
  <2> QED BY <1>3, <2>2
<1> QED BY <1>1, <1>2, <1>3

\* As many chunks as are needed, each as large but the last.
LEMMA Chunks ==
  ASSUME NEW c \in Nat \ {0}, NEW size \in Nat, size > c,
         NEW parts, parts = (size + c - 1) \div c
  PROVE  /\ parts \in Nat /\ parts >= 1 /\ c * (parts - 1) \in Nat
         /\ c * (parts - 1) < size /\ size <= c * (parts - 1) + c
<1>1. PICK z \in Nat : z = size + c - 1
  OBVIOUS
<1>2. z \div c \in Nat /\ z % c \in 0 .. c - 1 /\ z = c * (z \div c) + (z % c)
  OBVIOUS
<1>3. PICK q \in Nat, r \in 0 .. c - 1 : q = z \div c /\ z = c * q + r
  BY <1>2
<1>4. parts = q
  BY <1>1, <1>3
<1>5. q # 0
  <2> SUFFICES ASSUME q = 0 PROVE FALSE
    OBVIOUS
  <2>1. c * q = 0
    OBVIOUS
  <2> QED BY <1>1, <1>3, <2>1
<1>6. PICK p \in Nat : q = p + 1
  <2>1. q - 1 \in Nat /\ q = (q - 1) + 1
    BY <1>5
  <2> QED BY <2>1
<1>7. c * q = c * p + c /\ c * p \in Nat /\ parts - 1 = p
  BY <1>4, <1>6, Multiples
<1>8. c * p < size /\ size <= c * p + c
  <2>1. size + c - 1 = c * p + c + r
    BY <1>1, <1>3, <1>7
  <2> QED BY <1>7, <2>1
<1> QED BY <1>4, <1>6, <1>7, <1>8

LEMMA ChunkOf ==
  ASSUME NEW c \in Nat \ {0}, NEW y \in Nat
  PROVE  \E j \in Nat : c * j \in Nat /\ c * j <= y /\ y < c * j + c
<1>1. y \div c \in Nat /\ y % c \in 0 .. c - 1 /\ y = c * (y \div c) + (y % c)
  OBVIOUS
<1>2. PICK j \in Nat : j = y \div c
  BY <1>1
<1>3. c * j \in Nat
  OBVIOUS
<1> QED BY <1>1, <1>2, <1>3

LEMMA DisjunctCopiesCut ==
  ASSUME Ram!MiniRamAssumption, NEW m \in LeftMoves
  PROVE  CutOf(Ram!DisjunctCopies(m), m)
<1> DEFINE c == m.src - m.dst
           parts == (m.size + c - 1) \div c
           Chunk(k) == [src |-> m.src + (k - 1) * c, dst |-> m.dst + (k - 1) * c,
                        size |-> IF k < parts THEN c ELSE m.size - (parts - 1) * c]
<1>1. /\ m.src \in Nat /\ m.dst \in Nat /\ m.size \in Nat /\ Capacity \in Nat
      /\ m.dst < m.src /\ m.src + m.size <= Capacity /\ c \in Nat \ {0} /\ m.src = m.dst + c
  BY MoveFacts
<1>2. CASE m.size <= c
  <2>1. Ram!DisjunctCopies(m) = <<m>>
    BY <1>2 DEF Ram!DisjunctCopies
  <2>2. <<m>> \in Seq(LeftMoves) /\ DOMAIN <<m>> = {1} /\ <<m>>[1] = m
    OBVIOUS
  <2>3. InTurn(<<m>>)
    BY <2>2 DEF InTurn
  <2>4. PartOf(m, m) /\ m.src >= m.dst + m.size
    BY <1>1, <1>2 DEF PartOf
  <2> HIDE DEF c
  <2> QED BY <2>1, <2>2, <2>3, <2>4 DEF CutOf
<1>3. CASE m.size > c
  <2>1. Ram!DisjunctCopies(m) = [k \in 1 .. parts |-> Chunk(k)]
    <3>1. ~(m.size <= m.src - m.dst)
      BY <1>1, <1>3
    <3> QED BY <3>1 DEF Ram!DisjunctCopies
  <2> HIDE DEF parts, c
  <2>2. /\ parts \in Nat /\ parts >= 1 /\ c * (parts - 1) \in Nat
        /\ c * (parts - 1) < m.size /\ m.size <= c * (parts - 1) + c
    BY <1>1, <1>3, Chunks DEF parts
  <2>3. ASSUME NEW k \in 1 .. parts
        PROVE  /\ k - 1 \in Nat /\ (k - 1) * c = c * (k - 1) /\ c * (k - 1) \in Nat
               /\ k < parts => c * (k - 1) + c <= c * (parts - 1)
    <3>1. k - 1 \in Nat /\ parts - 1 \in Nat /\ (k < parts => k - 1 < parts - 1)
      BY <2>2
    <3>2. PICK j \in Nat, d \in Nat : j = k - 1 /\ d = parts - 1
      BY <3>1
    <3>3. j * c = c * j /\ c * j \in Nat /\ (j < d => c * j + c <= c * d)
      BY <1>1, Multiples
    <3> QED BY <3>1, <3>2, <3>3
  <2>4. ASSUME NEW k \in 1 .. parts
        PROVE  /\ Chunk(k).src = m.src + c * (k - 1) /\ Chunk(k).dst = m.dst + c * (k - 1)
               /\ Chunk(k).size \in Nat /\ Chunk(k).size <= c
               /\ k < parts => Chunk(k).size = c
               /\ k = parts => Chunk(k).size = m.size - c * (parts - 1)
               /\ c * (k - 1) + Chunk(k).size <= m.size
    <3>1. parts \in 1 .. parts
      BY <2>2
    <3>2. (k - 1) * c = c * (k - 1) /\ c * (k - 1) \in Nat /\ (parts - 1) * c = c * (parts - 1)
          /\ (k < parts => c * (k - 1) + c <= c * (parts - 1))
      BY <2>3, <3>1
    <3>3. Chunk(k).size = IF k < parts THEN c ELSE m.size - c * (parts - 1)
      BY <3>2
    <3>4. Chunk(k).src = m.src + c * (k - 1) /\ Chunk(k).dst = m.dst + c * (k - 1)
      BY <3>2
    <3> HIDE DEF Chunk
    <3>5. PICK p, d, s : p = c * (k - 1) /\ d = c * (parts - 1) /\ s = Chunk(k).size
      OBVIOUS
    <3>6. CASE k < parts
      <4>1. s = c /\ p + c <= d /\ d < m.size /\ p \in Nat /\ d \in Nat
        BY <2>2, <3>2, <3>3, <3>5, <3>6
      <4>2. s \in Nat /\ s <= c /\ p + s <= m.size
        BY <1>1, <4>1
      <4> QED BY <3>4, <3>5, <3>6, <4>1, <4>2
    <3>7. CASE ~(k < parts)
      <4>1. k = parts
        BY <2>2, <3>7
      <4>2. s = m.size - d /\ d < m.size /\ m.size <= d + c /\ d \in Nat /\ p = d
        BY <2>2, <3>3, <3>5, <4>1
      <4>3. s \in Nat /\ s <= c /\ p + s <= m.size
        BY <1>1, <4>2
      <4> QED BY <3>3, <3>4, <3>5, <4>1, <4>3
    <3> QED BY <3>6, <3>7
  <2>5. ASSUME NEW k \in 1 .. parts
        PROVE  /\ Chunk(k) \in LeftMoves /\ PartOf(Chunk(k), m)
               /\ Chunk(k).src >= Chunk(k).dst + Chunk(k).size
    <3>1. Chunk(k) = [src |-> Chunk(k).src, dst |-> Chunk(k).dst, size |-> Chunk(k).size]
      OBVIOUS
    <3> HIDE DEF Chunk
    <3>2. PICK p \in Nat : p = c * (k - 1)
      BY <2>3
    <3>3. PICK s \in Nat : s = Chunk(k).size
      BY <2>4
    <3>4. Chunk(k).src = m.src + p /\ Chunk(k).dst = m.dst + p /\ s <= c /\ p + s <= m.size
      BY <2>4, <3>2, <3>3
    <3>5. Chunk(k) = [src |-> m.src + p, dst |-> m.dst + p, size |-> s]
      BY <3>1, <3>3, <3>4
    <3>6. m.src + p \in Nat /\ m.dst + p \in Nat /\ m.dst + p < m.src + p
          /\ m.src + p + s <= Capacity
      BY <1>1, <3>4
    <3>7. Chunk(k) \in LeftMoves
      BY <3>5, <3>6 DEF LeftMoves
    <3>8. PartOf(Chunk(k), m) /\ Chunk(k).src >= Chunk(k).dst + Chunk(k).size
      BY <1>1, <3>3, <3>4 DEF PartOf
    <3> QED BY <3>7, <3>8
  <2>6. ASSUME NEW x \in Into(m) PROVE \E k \in 1 .. parts : x \in Into(Chunk(k))
    <3>1. PICK y \in Nat : y = x - m.dst /\ y < m.size
      <4>1. x \in Nat /\ m.dst <= x /\ x < m.dst + m.size
        BY <1>1, <2>6, MoveFacts
      <4> QED BY <1>1, <4>1
    <3>2. PICK j \in Nat : c * j \in Nat /\ c * j <= y /\ y < c * j + c
      BY <1>1, ChunkOf
    <3>3. PICK d \in Nat : d = parts - 1
      BY <2>2
    <3>4. ~(d < j)
      <4> SUFFICES ASSUME d < j PROVE FALSE
        OBVIOUS
      <4>1. c * d + c <= c * j
        BY <1>1, Multiples
      <4> QED BY <1>1, <2>2, <3>1, <3>2, <3>3, <4>1
    <3>5. PICK k \in 1 .. parts : k = j + 1 /\ k - 1 = j
      <4>1. j + 1 \in 1 .. parts
        BY <2>2, <3>3, <3>4
      <4> QED BY <4>1
    <3>6. /\ Chunk(k).dst = m.dst + c * j /\ Chunk(k).size \in Nat
          /\ k < parts => Chunk(k).size = c
          /\ k = parts => Chunk(k).size = m.size - c * j
      BY <2>4, <3>5
    <3> HIDE DEF Chunk
    <3>7. y < c * j + Chunk(k).size
      <4>1. CASE k < parts
        BY <3>2, <3>6, <4>1
      <4>2. CASE k = parts
        BY <1>1, <3>1, <3>2, <3>6, <4>2
      <4> QED BY <2>2, <4>1, <4>2
    <3>8. PICK p \in Nat, s \in Nat, e \in Nat : p = c * j /\ s = Chunk(k).size /\ e = Chunk(k).dst
      <4>1. PICK p \in Nat : p = c * j
        BY <3>2
      <4>2. Chunk(k).dst = m.dst + p
        BY <3>6, <4>1
      <4>3. Chunk(k).dst \in Nat
        BY <1>1, <4>2
      <4> QED BY <3>6, <4>1, <4>3
    <3>9. x \in e .. e + s - 1
      <4>1. x = m.dst + y /\ e = m.dst + p /\ p <= y /\ y < p + s
        <5>1. x \in Nat
          BY <2>6, MoveFacts
        <5> QED BY <1>1, <3>1, <3>2, <3>6, <3>7, <3>8, <5>1
      <4> QED BY <1>1, <4>1
    <3> QED BY <3>8, <3>9 DEF Into
  <2>7. PICK copies : copies = [k \in 1 .. parts |-> Chunk(k)]
    OBVIOUS
  <2>8. copies \in Seq(LeftMoves) /\ DOMAIN copies = 1 .. parts
        /\ \A k \in 1 .. parts : copies[k] = Chunk(k)
    BY <2>2, <2>5, <2>7
  <2>9. InTurn(copies)
    <3> SUFFICES ASSUME NEW p \in 1 .. parts, NEW q \in 1 .. parts, p < q
                 PROVE  /\ Chunk(p).dst + Chunk(p).size <= Chunk(q).dst
                        /\ Chunk(p).src + Chunk(p).size <= Chunk(q).src
      BY <2>8 DEF InTurn
    <3>1. PICK i \in Nat, j \in Nat : i = p - 1 /\ j = q - 1 /\ i < j
      BY <2>2
    <3>2. c * i + c <= c * j /\ c * i \in Nat /\ c * j \in Nat
      BY <1>1, <3>1, Multiples
    <3>3. /\ Chunk(p).src = m.src + c * i /\ Chunk(p).dst = m.dst + c * i
          /\ Chunk(q).src = m.src + c * j /\ Chunk(q).dst = m.dst + c * j
          /\ Chunk(p).size \in Nat /\ Chunk(p).size <= c
      BY <2>4, <3>1
    <3> HIDE DEF Chunk
    <3> QED BY <1>1, <3>2, <3>3
  <2> HIDE DEF Chunk
  <2>10. CutOf(copies, m)
    BY <2>5, <2>6, <2>8, <2>9 DEF CutOf
  <2> QED BY <2>1, <2>7, <2>10
<1> QED BY <1>1, <1>2, <1>3

\* Parts of moves that follow each other do so too.
LEMMA PartsFollow ==
  ASSUME Ram!MiniRamAssumption, NEW c \in LeftMoves, NEW d \in LeftMoves, NEW e \in LeftMoves,
         NEW m \in LeftMoves, PartOf(c, e), PartOf(d, m),
         e.dst + e.size <= m.dst, e.src + e.size <= m.src
  PROVE  c.dst + c.size <= d.dst /\ c.src + c.size <= d.src
<1>1. \A x \in LeftMoves : \E s, t, z \in Nat : s = x.src /\ t = x.dst /\ z = x.size
  BY MoveFacts
<1>2. PICK cs, ct, cz \in Nat : cs = c.src /\ ct = c.dst /\ cz = c.size
  BY <1>1
<1>3. PICK ds, dt, dz \in Nat : ds = d.src /\ dt = d.dst /\ dz = d.size
  BY <1>1
<1>4. PICK es, et, ez \in Nat : es = e.src /\ et = e.dst /\ ez = e.size
  BY <1>1
<1>5. PICK ms, mt, mz \in Nat : ms = m.src /\ mt = m.dst /\ mz = m.size
  BY <1>1
<1>6. cs - ct = es - et /\ ct + cz <= et + ez /\ ds - dt = ms - mt /\ mt <= dt
  BY <1>2, <1>3, <1>4, <1>5 DEF PartOf
<1>7. et + ez <= mt /\ es + ez <= ms
  BY <1>4, <1>5
<1>8. ct + cz <= dt /\ cs + cz <= ds
  BY <1>6, <1>7
<1> QED BY <1>2, <1>3, <1>8

\* What is cut of the first n moves.
CutSoFar(copies, moves, n) ==
  /\ copies \in Seq(LeftMoves) /\ InTurn(copies)
  /\ \A k \in DOMAIN copies : /\ copies[k].src >= copies[k].dst + copies[k].size
                              /\ \E q \in 1 .. n : PartOf(copies[k], moves[q])
  /\ \A q \in 1 .. n : \A x \in Into(moves[q]) :
       \E k \in DOMAIN copies : x \in Into(copies[k]) /\ PartOf(copies[k], moves[q])

LEMMA CutNext ==
  ASSUME Ram!MiniRamAssumption, NEW moves \in Seq(LeftMoves), InTurn(moves), NEW n \in 1 .. Len(moves),
         NEW old, CutSoFar(old, moves, n - 1), NEW cut, CutOf(cut, moves[n])
  PROVE  CutSoFar(old \o cut, moves, n)
<1>1. /\ Len(moves) \in Nat /\ DOMAIN moves = 1 .. Len(moves) /\ n \in Nat /\ n - 1 \in Nat
      /\ \A q \in 1 .. Len(moves) : moves[q] \in LeftMoves
  OBVIOUS
<1>2. PICK m \in LeftMoves : m = moves[n]
  BY <1>1
<1>3. /\ old \in Seq(LeftMoves) /\ InTurn(old)
      /\ \A k \in DOMAIN old : /\ old[k].src >= old[k].dst + old[k].size
                               /\ \E q \in 1 .. n - 1 : PartOf(old[k], moves[q])
      /\ \A q \in 1 .. n - 1 : \A x \in Into(moves[q]) :
           \E k \in DOMAIN old : x \in Into(old[k]) /\ PartOf(old[k], moves[q])
  BY DEF CutSoFar
<1>4. /\ cut \in Seq(LeftMoves) /\ InTurn(cut)
      /\ \A k \in DOMAIN cut : PartOf(cut[k], m) /\ cut[k].src >= cut[k].dst + cut[k].size
      /\ \A x \in Into(m) : \E k \in DOMAIN cut : x \in Into(cut[k])
  BY <1>2 DEF CutOf
<1>5. PICK a \in Nat, b \in Nat : /\ a = Len(old) /\ b = Len(cut)
                                  /\ DOMAIN old = 1 .. a /\ DOMAIN cut = 1 .. b
  BY <1>3, <1>4
<1>6. PICK all \in Seq(LeftMoves) :
        /\ all = old \o cut /\ DOMAIN all = 1 .. a + b
        /\ \A k \in 1 .. a + b : all[k] = IF k <= a THEN old[k] ELSE cut[k - a]
  <2>1. old \o cut \in Seq(LeftMoves) /\ Len(old \o cut) = a + b
        /\ \A k \in 1 .. a + b : (old \o cut)[k] = IF k <= a THEN old[k] ELSE cut[k - a]
    BY <1>3, <1>4, <1>5
  <2>2. DOMAIN (old \o cut) = 1 .. a + b
    BY <2>1
  <2> QED BY <2>1, <2>2
<1>7. ASSUME NEW k \in 1 .. a
      PROVE  k \in DOMAIN all /\ k \in DOMAIN old /\ all[k] = old[k] /\ old[k] \in LeftMoves
  <2>1. k \in 1 .. a + b /\ k <= a
    BY <1>5
  <2> QED BY <1>3, <1>5, <1>6, <2>1
<1>8. ASSUME NEW k \in 1 .. b
      PROVE  a + k \in DOMAIN all /\ k \in DOMAIN cut /\ all[a + k] = cut[k] /\ cut[k] \in LeftMoves
  <2>1. a + k \in 1 .. a + b /\ ~(a + k <= a) /\ (a + k) - a = k
    BY <1>5
  <2> QED BY <1>4, <1>5, <1>6, <2>1
<1>9. ASSUME NEW k \in DOMAIN all, ~(k \in 1 .. a)
      PROVE  \E j \in 1 .. b : k = a + j
  <2>1. k - a \in 1 .. b /\ k = a + (k - a)
    BY <1>5, <1>6, <1>9
  <2> QED BY <2>1
<1>10. ASSUME NEW k \in 1 .. a, NEW j \in 1 .. b
       PROVE  old[k].dst + old[k].size <= cut[j].dst /\ old[k].src + old[k].size <= cut[j].src
  <2>1. PICK c \in LeftMoves, d \in LeftMoves : c = old[k] /\ d = cut[j]
    BY <1>7, <1>8
  <2>2. PICK q \in 1 .. n - 1 : PartOf(c, moves[q])
    BY <1>3, <1>7, <2>1
  <2>3. q \in 1 .. Len(moves) /\ q < n
    BY <1>1
  <2>4. PICK e \in LeftMoves : e = moves[q] /\ e.dst + e.size <= m.dst /\ e.src + e.size <= m.src
    BY <1>1, <1>2, <2>3 DEF InTurn
  <2>5. PartOf(d, m) /\ PartOf(c, e)
    BY <1>4, <1>8, <2>1, <2>2, <2>4
  <2>6. c.dst + c.size <= d.dst /\ c.src + c.size <= d.src
    BY <2>4, <2>5, PartsFollow
  <2> QED BY <2>1, <2>6
<1>11. InTurn(all)
  <2> SUFFICES ASSUME NEW p \in DOMAIN all, NEW q \in DOMAIN all, p < q
               PROVE  /\ all[p].dst + all[p].size <= all[q].dst
                      /\ all[p].src + all[p].size <= all[q].src
    BY DEF InTurn
  <2>1. CASE p \in 1 .. a /\ q \in 1 .. a
    BY <1>3, <1>7, <2>1 DEF InTurn
  <2>2. CASE p \in 1 .. a /\ ~(q \in 1 .. a)
    <3>1. PICK j \in 1 .. b : q = a + j
      BY <1>9, <2>2
    <3> QED BY <1>7, <1>8, <1>10, <2>2, <3>1
  <2>3. CASE ~(p \in 1 .. a) /\ q \in 1 .. a
    <3>1. PICK j \in 1 .. b : p = a + j
      BY <1>9, <2>3
    <3> QED BY <1>5, <2>3, <3>1
  <2>4. CASE ~(p \in 1 .. a) /\ ~(q \in 1 .. a)
    <3>1. PICK i \in 1 .. b, j \in 1 .. b : p = a + i /\ q = a + j
      BY <1>9, <2>4
    <3>2. i < j
      BY <1>5, <3>1
    <3>3. i \in DOMAIN cut /\ j \in DOMAIN cut /\ all[p] = cut[i] /\ all[q] = cut[j]
      BY <1>8, <3>1
    <3> QED BY <1>4, <3>2, <3>3 DEF InTurn
  <2> QED BY <2>1, <2>2, <2>3, <2>4
<1>12. /\ n \in 1 .. n /\ \A q \in 1 .. n : q # n => q \in 1 .. n - 1
       /\ \A q \in 1 .. n - 1 : q \in 1 .. n
  BY <1>1
<1>13. ASSUME NEW k \in DOMAIN all
       PROVE  /\ all[k].src >= all[k].dst + all[k].size
              /\ \E q \in 1 .. n : PartOf(all[k], moves[q])
  <2>1. CASE k \in 1 .. a
    <3>1. PICK q \in 1 .. n - 1 : PartOf(old[k], moves[q])
      BY <1>3, <1>7, <2>1
    <3> QED BY <1>3, <1>7, <1>12, <2>1, <3>1
  <2>2. CASE ~(k \in 1 .. a)
    <3>1. PICK j \in 1 .. b : k = a + j
      BY <1>9, <2>2
    <3>2. all[k] = cut[j] /\ PartOf(cut[j], moves[n]) /\ cut[j].src >= cut[j].dst + cut[j].size
      BY <1>2, <1>4, <1>8, <3>1
    <3> QED BY <1>12, <3>2
  <2> QED BY <2>1, <2>2
<1>14. ASSUME NEW q \in 1 .. n, NEW x \in Into(moves[q])
       PROVE  \E k \in DOMAIN all : x \in Into(all[k]) /\ PartOf(all[k], moves[q])
  <2>1. CASE q = n
    <3>1. PICK j \in DOMAIN cut : x \in Into(cut[j]) /\ PartOf(cut[j], m)
      BY <1>2, <1>4, <1>14, <2>1
    <3> QED BY <1>2, <1>5, <1>8, <2>1, <3>1
  <2>2. CASE q # n
    <3>1. PICK k \in DOMAIN old : x \in Into(old[k]) /\ PartOf(old[k], moves[q])
      BY <1>3, <1>12, <1>14, <2>2
    <3> QED BY <1>5, <1>7, <3>1
  <2> QED BY <2>1, <2>2
<1> QED BY <1>6, <1>11, <1>13, <1>14 DEF CutSoFar

LEMMA ToDisjunctCopiesIs ==
  ASSUME Ram!MiniRamAssumption, NEW moves \in Seq(LeftMoves), InTurn(moves)
  PROVE  CutSoFar(Ram!ToDisjunctCopies(moves), moves, Len(moves))
<1> DEFINE N == Len(moves)
           IsCut(w) == w = [k \in 0 .. Len(moves) |->
                              IF k = 0 THEN <<>> ELSE w[k - 1] \o Ram!DisjunctCopies(moves[k])]
           copies == CHOOSE w : IsCut(w)
<1>0. N \in Nat /\ \A k \in 1 .. N : moves[k] \in LeftMoves
  OBVIOUS
<1>1. Ram!ToDisjunctCopies(moves) = copies[N]
  BY DEF Ram!ToDisjunctCopies
<1> HIDE DEF N
<1>2. PICK S : S = Seq(LeftMoves)
  OBVIOUS
<1>3. ASSUME NEW x \in S, NEW k \in 1 .. N PROVE x \o Ram!DisjunctCopies(moves[k]) \in S
  <2>1. CutOf(Ram!DisjunctCopies(moves[k]), moves[k])
    BY <1>0, DisjunctCopiesCut
  <2>2. Ram!DisjunctCopies(moves[k]) \in Seq(LeftMoves)
    BY <2>1 DEF CutOf
  <2> QED BY <1>2, <2>2
<1>4. PICK v \in [0 .. N -> S] :
        \A k \in 0 .. N : v[k] = IF k = 0 THEN <<>> ELSE v[k - 1] \o Ram!DisjunctCopies(moves[k])
  <2>1. PICK step : step = [k \in 1 .. N |-> [x \in S |-> x \o Ram!DisjunctCopies(moves[k])]]
    OBVIOUS
  <2>2. step \in Steps(S, N)
        /\ \A k \in 1 .. N : \A x \in S : step[k][x] = x \o Ram!DisjunctCopies(moves[k])
    BY <1>3, <2>1 DEF Steps
  <2>3. PICK a \in S : a = <<>>
    <3>1. <<>> \in Seq(LeftMoves)
      OBVIOUS
    <3> QED BY <1>2, <3>1
  <2>4. PICK v : IsRun(v, S, N, a, step)
    BY <1>0, <2>2, Repeated
  <2>5. v \in [0 .. N -> S]
    BY <2>4 DEF IsRun
  <2>6. ASSUME NEW k \in 0 .. N, k # 0 PROVE v[k] = v[k - 1] \o Ram!DisjunctCopies(moves[k])
    <3>1. k \in 1 .. N /\ k - 1 \in 0 .. N
      BY <1>0, <2>6
    <3>2. v[k] = step[k][v[k - 1]]
      BY <2>4, <2>6 DEF IsRun
    <3> QED BY <2>2, <2>5, <3>1, <3>2
  <2>7. \A k \in 0 .. N : k = 0 => v[k] = <<>>
    BY <2>3, <2>4 DEF IsRun
  <2> QED BY <2>5, <2>6, <2>7
<1>5. IsCut(v)
  <2>1. v = [k \in 0 .. N |-> v[k]]
    OBVIOUS
  <2>2. v = [k \in 0 .. N |-> IF k = 0 THEN <<>> ELSE v[k - 1] \o Ram!DisjunctCopies(moves[k])]
    BY <1>4, <2>1, Zenon
  <2> QED BY <2>2 DEF N
<1>6. IsCut(copies)
  <2> HIDE DEF IsCut
  <2> QED BY <1>5
<1> HIDE DEF copies
<1>7. \A k \in 0 .. N : copies[k] = IF k = 0 THEN <<>> ELSE copies[k - 1] \o Ram!DisjunctCopies(moves[k])
  <2>1. copies = [k \in 0 .. N |-> IF k = 0 THEN <<>> ELSE copies[k - 1] \o Ram!DisjunctCopies(moves[k])]
    BY <1>6 DEF N
  <2> QED BY <2>1, Zenon
<1> HIDE DEF IsCut
<1> DEFINE U == { k \in 0 .. N : CutSoFar(copies[k], moves, k) }
<1>8. 0 \in U /\ U \in SUBSET (0 .. N)
  <2>1. 0 \in 0 .. N /\ copies[0] = <<>>
    BY <1>0, <1>7
  <2>2. <<>> \in Seq(LeftMoves) /\ DOMAIN <<>> = {} /\ 1 .. 0 = {}
    OBVIOUS
  <2>3. CutSoFar(<<>>, moves, 0)
    BY <2>2 DEF CutSoFar, InTurn
  <2> QED BY <2>1, <2>3
<1>9. ASSUME NEW k \in 1 .. N, k - 1 \in U PROVE k \in U
  <2>1. k \in 0 .. N /\ copies[k] = copies[k - 1] \o Ram!DisjunctCopies(moves[k])
    <3>1. k \in 0 .. N /\ k # 0
      BY <1>0
    <3> QED BY <1>7, <3>1, Zenon
  <2>2. CutSoFar(copies[k - 1], moves, k - 1)
    BY <1>9
  <2>3. PICK old, cut : old = copies[k - 1] /\ cut = Ram!DisjunctCopies(moves[k])
    OBVIOUS
  <2>4. CutOf(cut, moves[k])
    BY <1>0, <2>3, DisjunctCopiesCut
  <2>5. CutSoFar(old \o cut, moves, k)
    BY <2>2, <2>3, <2>4, CutNext DEF N
  <2> QED BY <2>1, <2>3, <2>5
<1>10. U = 0 .. N
  <2> HIDE DEF U
  <2> QED BY <1>0, <1>8, <1>9, UpTo
<1> QED BY <1>0, <1>1, <1>10 DEF N

-----------------------------------------------------------------------------
(* The nodes in use, from left to right.                                   *)

OrderedBy(order, number, n) ==
  \A j, k \in 1 .. n : j < k => order[j] # order[k] /\ number[order[j]] <= number[order[k]]

LEMMA OrderExists ==
  ASSUME NEW N \in Nat, NEW number, NEW S, IsFiniteSet(S), \A x \in S : number[x] \in 0 .. N
  PROVE  \E order \in [1 .. Cardinality(S) -> S] : OrderedBy(order, number, Cardinality(S))
<1> DEFINE T == { c \in Nat : \A R \in SUBSET S : IsFiniteSet(R) /\ Cardinality(R) = c =>
                                \E order \in [1 .. c -> R] : OrderedBy(order, number, c) }
<1>1. 0 \in T
  <2> SUFFICES ASSUME NEW R \in SUBSET S, IsFiniteSet(R), Cardinality(R) = 0
               PROVE  \E order \in [1 .. 0 -> R] : OrderedBy(order, number, 0)
    OBVIOUS
  <2>1. PICK order : order = [k \in 1 .. 0 |-> number]
    OBVIOUS
  <2>2. order \in [1 .. 0 -> R] /\ OrderedBy(order, number, 0)
    BY <2>1 DEF OrderedBy
  <2> QED BY <2>2
<1>2. ASSUME NEW c \in T PROVE c + 1 \in T
  <2>1. c \in Nat /\ c + 1 \in Nat
    OBVIOUS
  <2> SUFFICES ASSUME NEW R \in SUBSET S, IsFiniteSet(R), Cardinality(R) = c + 1
               PROVE  \E order \in [1 .. c + 1 -> R] : OrderedBy(order, number, c + 1)
    BY <2>1
  <2>2. R # {}
    BY <2>1, FS_EmptySet
  <2>3. PICK m \in R : \A x \in R : number[x] <= number[m]
    <3>1. PICK V : V = { number[x] : x \in R }
      OBVIOUS
    <3>2. V \subseteq 0 .. N /\ V # {}
      BY <2>2, <3>1
    <3>3. PICK v \in V : \A w \in V : v >= w
      BY <3>2, Greatest
    <3>4. PICK m \in R : v = number[m]
      BY <3>1, <3>3
    <3>5. \A x \in R : number[x] \in V /\ number[x] \in 0 .. N
      BY <3>1
    <3>6. \A x \in R : number[x] <= number[m]
      BY <3>3, <3>4, <3>5
    <3> QED BY <3>6
  <2>4. PICK Q \in SUBSET S : Q = R \ {m}
    OBVIOUS
  <2>5. IsFiniteSet(Q) /\ Cardinality(Q) = c
    <3>1. IsFiniteSet(R \ {m}) /\ Cardinality(R \ {m}) = Cardinality(R) - 1
      BY FS_RemoveElement
    <3> QED BY <2>1, <2>4, <3>1
  <2>6. PICK o \in [1 .. c -> Q] : OrderedBy(o, number, c)
    BY <2>5
  <2>7. PICK order : order = [k \in 1 .. c + 1 |-> IF k = c + 1 THEN m ELSE o[k]]
    OBVIOUS
  <2>8. \A k \in 1 .. c + 1 : k # c + 1 => k \in 1 .. c
    BY <2>1
  <2>9. order \in [1 .. c + 1 -> R]
    BY <2>4, <2>6, <2>7, <2>8
  <2>10. ASSUME NEW j \in 1 .. c + 1, NEW k \in 1 .. c + 1, j < k
         PROVE  order[j] # order[k] /\ number[order[j]] <= number[order[k]]
    <3>1. j \in 1 .. c /\ order[j] = o[j] /\ o[j] \in Q
      <4>1. j # c + 1 /\ j \in 1 .. c
        BY <2>1, <2>10
      <4> QED BY <2>6, <2>7, <4>1
    <3>2. CASE k = c + 1
      <4>1. order[k] = m
        BY <2>7, <3>2
      <4> QED BY <2>3, <2>4, <3>1, <4>1
    <3>3. CASE k # c + 1
      <4>1. k \in 1 .. c /\ order[k] = o[k]
        BY <2>7, <2>8, <3>3
      <4> QED BY <2>6, <2>10, <3>1, <4>1 DEF OrderedBy
    <3> QED BY <3>2, <3>3
  <2>11. OrderedBy(order, number, c + 1)
    BY <2>10 DEF OrderedBy
  <2> QED BY <2>9, <2>11
<1>3. T = Nat
  <2>1. T \subseteq Nat
    OBVIOUS
  <2> HIDE DEF T
  <2> QED BY <1>1, <1>2, <2>1, InductionOnNat
<1>4. Cardinality(S) \in T
  <2>1. Cardinality(S) \in Nat
    BY FS_CardinalityType
  <2> HIDE DEF T
  <2> QED BY <1>3, <2>1
<1> QED BY <1>4

LEMMA SortedIs ==
  ASSUME NEW N \in Nat, NEW number, NEW S, IsFiniteSet(S), \A x \in S : number[x] \in 0 .. N
  PROVE  /\ Cardinality(S) \in Nat
         /\ Ram!Sorted(S, number) \in [1 .. Cardinality(S) -> S]
         /\ OrderedBy(Ram!Sorted(S, number), number, Cardinality(S))
         /\ \A x \in S : \E k \in 1 .. Cardinality(S) : Ram!Sorted(S, number)[k] = x
<1> DEFINE InOrder(o) == \A j, k \in DOMAIN o :
                           j < k => o[j] # o[k] /\ number[o[j]] <= number[o[k]]
           n == Cardinality(S)
           order == CHOOSE o \in [1 .. Ram!Cardinality(S) -> S] : InOrder(o)
<1>1. n \in Nat /\ Ram!Cardinality(S) = n
  BY FS_CardinalityType, RamCardinality
<1>2. Ram!Sorted(S, number) = order
  BY DEF Ram!Sorted
<1>3. \E o \in [1 .. n -> S] : OrderedBy(o, number, n)
  BY OrderExists
<1> HIDE DEF n
<1>4. \A o \in [1 .. n -> S] : InOrder(o) <=> OrderedBy(o, number, n)
  BY DEF OrderedBy
<1>5. \E o \in [1 .. Ram!Cardinality(S) -> S] : InOrder(o)
  BY <1>1, <1>3, <1>4
<1>6. order \in [1 .. Ram!Cardinality(S) -> S] /\ InOrder(order)
  <2> HIDE DEF InOrder
  <2> QED BY <1>5
<1> HIDE DEF order
<1>7. OrderedBy(order, number, n)
  BY <1>1, <1>4, <1>6
<1>8. \A j, k \in 1 .. n : order[j] = order[k] => j = k
  BY <1>7 DEF OrderedBy
<1>9. \A x \in S : \E k \in 1 .. n : order[k] = x
  <2>1. order \in Injection(1 .. n, S)
    BY <1>1, <1>6, <1>8 DEF Injection, IsInjective
  <2>2. Cardinality(1 .. n) = n
    <3>1. PICK a \in Int, b \in Int : a = 1 /\ b = n
      BY <1>1
    <3>2. Cardinality(a .. b) = IF a > b THEN 0 ELSE b - a + 1
      BY FS_Interval
    <3> QED BY <1>1, <3>1, <3>2
  <2>3. order \in Surjection(1 .. n, S)
    <3>1. Cardinality(1 .. n) = Cardinality(S) <=> order \in Surjection(1 .. n, S)
      BY <2>1, FS_Injection
    <3> QED BY <2>2, <3>1 DEF n
  <2> QED BY <2>3 DEF Surjection
<1> QED BY <1>1, <1>2, <1>6, <1>7, <1>9 DEF n

\* Two nodes share nothing: the one that begins first ends before the other.
LEMMA ChainApart ==
  ASSUME NEW node, NEW L, NEW first, Chain(node, L, first), Numbers(node, L)
  PROVE  \A i, j \in L : i # j /\ node[i].dataOffset <= node[j].dataOffset =>
           node[i].dataOffset + node[i].dataSize <= node[j].dataOffset
<1> DEFINE Off(i) == node[i].dataOffset
           Past(i) == node[i].dataOffset + node[i].dataSize
           T == { n \in Nat : \A i, j \in L : i # j /\ Off(i) <= Off(j) /\ Off(j) < n =>
                                Past(i) <= Off(j) }
<1>1. \A i \in L : Off(i) \in Nat /\ Past(i) \in Nat
  BY DEF Numbers
<1>2. ASSUME NEW i \in L
      PROVE  \/ i = first /\ Off(i) = 0
             \/ \E p \in L : node[p].next = i /\ Off(p) < Off(i) /\ Past(p) = Off(i)
  <2>1. CASE node[i].prev = Ram!Invalid
    BY <2>1 DEF Chain
  <2>2. CASE node[i].prev # Ram!Invalid
    BY <2>2, Behind
  <2> QED BY <2>1, <2>2
<1> HIDE DEF Off, Past
<1>3. 0 \in T
  BY <1>1
<1>4. ASSUME NEW n \in T PROVE n + 1 \in T
  <2>1. \A i, j \in L : i # j /\ Off(i) <= Off(j) /\ Off(j) < n => Past(i) <= Off(j)
    OBVIOUS
  <2>2. n \in Nat
    OBVIOUS
  <2> SUFFICES ASSUME NEW i \in L, NEW j \in L, i # j, Off(i) <= Off(j), Off(j) < n + 1
               PROVE  Past(i) <= Off(j)
    BY <2>2
  <2> HIDE DEF T
  <2>3. Off(i) \in Nat /\ Off(j) \in Nat /\ Past(i) \in Nat
    BY <1>1
  <2>4. PICK p \in L : node[p].next = j /\ Off(p) < Off(j) /\ Past(p) = Off(j)
    <3> SUFFICES ASSUME j = first, Off(j) = 0 PROVE FALSE
      BY <1>2
    <3>1. Off(i) = 0
      BY <2>3
    <3>2. PICK q \in L : Off(q) < Off(i)
      BY <1>2
    <3> QED BY <1>1, <3>1, <3>2
  <2>5. Off(p) \in Nat /\ Off(p) < n
    BY <1>1, <2>2, <2>3, <2>4
  <2>6. CASE p = i
    BY <2>3, <2>4, <2>6
  <2>7. CASE p # i /\ Off(i) <= Off(p)
    <3>1. Past(i) <= Off(p)
      BY <2>1, <2>5, <2>7
    <3> QED BY <2>3, <2>4, <2>5, <3>1
  <2>8. CASE p # i /\ Off(p) < Off(i) /\ Off(i) < Off(j)
    <3>1. Past(p) <= Off(i)
      BY <2>1, <2>2, <2>3, <2>5, <2>8
    <3> QED BY <2>3, <2>4, <2>8, <3>1
  <2>9. CASE Off(i) = Off(j)
    <3>1. PICK q \in L : node[q].next = i /\ Off(q) < Off(i) /\ Past(q) = Off(i)
      <4> SUFFICES ASSUME i = first, Off(i) = 0 PROVE FALSE
        BY <1>2
      <4> QED BY <2>4, <2>5, <2>9
    <3>2. q # p /\ Off(q) \in Nat /\ Off(q) < n
      BY <1>1, <2>2, <2>3, <2>4, <3>1
    <3>3. CASE Off(q) <= Off(p)
      <4>1. Past(q) <= Off(p)
        BY <2>1, <2>5, <3>2, <3>3
      <4> QED BY <2>3, <2>4, <2>5, <2>9, <3>1, <4>1
    <3>4. CASE Off(p) <= Off(q)
      <4>1. Past(p) <= Off(q)
        BY <2>1, <3>2, <3>4
      <4> QED BY <2>3, <2>4, <2>9, <3>1, <3>2, <4>1
    <3> QED BY <2>5, <3>2, <3>3, <3>4
  <2> QED BY <2>3, <2>5, <2>6, <2>7, <2>8, <2>9
<1>5. T = Nat
  <2>1. T \subseteq Nat
    OBVIOUS
  <2> HIDE DEF T
  <2> QED BY <1>3, <1>4, <2>1, InductionOnNat
<1> SUFFICES ASSUME NEW i \in L, NEW j \in L, i # j, Off(i) <= Off(j)
             PROVE  Past(i) <= Off(j)
  BY DEF Off, Past
<1>6. Off(j) + 1 \in T /\ Off(j) < Off(j) + 1
  <2>1. Off(j) + 1 \in Nat /\ Off(j) < Off(j) + 1
    BY <1>1
  <2> HIDE DEF T
  <2> QED BY <1>5, <2>1
<1> QED BY <1>6

-----------------------------------------------------------------------------
(* What a defragmentation reports.                                         *)

UsedIds(r) == { i \in DOMAIN r.nodes : r.nodes[i].used }
OffsetOf(r, i) == r.nodes[i].dataOffset
SizeOf(r, i) == r.nodes[i].dataSize
PastOf(r, i) == OffsetOf(r, i) + SizeOf(r, i)

\* The nodes in use are apart.
Compactable(r, n) ==
  /\ n \in Nat /\ r.nodes \in [Ids(n) -> Node]
  /\ \A i \in UsedIds(r) : PastOf(r, i) <= Capacity
  /\ \A i, j \in UsedIds(r) :
       i # j /\ OffsetOf(r, i) <= OffsetOf(r, j) => PastOf(r, i) <= OffsetOf(r, j)

LeftToRight(order, r, m) ==
  /\ m \in Nat /\ order \in [1 .. m -> UsedIds(r)]
  /\ \A j, k \in 1 .. m : j < k =>
       order[j] # order[k] /\ PastOf(r, order[j]) <= OffsetOf(r, order[k])
  /\ \A i \in UsedIds(r) : \E k \in 1 .. m : order[k] = i

LEMMA UsedFacts ==
  ASSUME Ram!MiniRamAssumption, NEW n, NEW r, Compactable(r, n)
  PROVE  /\ n \in Nat /\ Capacity \in Nat /\ r.nodes \in [Ids(n) -> Node] /\ DOMAIN r.nodes = Ids(n)
         /\ UsedIds(r) \subseteq Ids(n)
         /\ \A i \in Ids(n) : /\ i # Ram!Invalid /\ SizeOf(r, i) \in Nat /\ OffsetOf(r, i) \in Nat
                              /\ PastOf(r, i) = OffsetOf(r, i) + SizeOf(r, i) /\ PastOf(r, i) \in Nat
<1>1. n \in Nat /\ Capacity \in Nat /\ r.nodes \in [Ids(n) -> Node] /\ DOMAIN r.nodes = Ids(n)
  BY DEF Compactable, Ram!MiniRamAssumption
<1>2. UsedIds(r) \subseteq Ids(n)
  BY <1>1 DEF UsedIds
<1>3. ASSUME NEW i \in Ids(n)
      PROVE  /\ i # Ram!Invalid /\ SizeOf(r, i) \in Nat /\ OffsetOf(r, i) \in Nat
             /\ PastOf(r, i) = OffsetOf(r, i) + SizeOf(r, i) /\ PastOf(r, i) \in Nat
  <2>1. i # Ram!Invalid
    BY <1>1 DEF Ids, Ram!Invalid
  <2>2. r.nodes[i].dataSize \in Nat /\ r.nodes[i].dataOffset \in Nat
    BY <1>1 DEF Node
  <2> QED BY <2>1, <2>2 DEF SizeOf, OffsetOf, PastOf
<1> QED BY <1>1, <1>2, <1>3

LEMMA UsedNodesIs ==
  ASSUME Ram!MiniRamAssumption, NEW n, NEW r, Compactable(r, n)
  PROVE  \E m : LeftToRight(Ram!UsedNodes(r), r, m) /\ Len(Ram!UsedNodes(r)) = m
<1>1. /\ n \in Nat /\ Capacity \in Nat /\ DOMAIN r.nodes = Ids(n) /\ UsedIds(r) \subseteq Ids(n)
      /\ \A i \in Ids(n) : OffsetOf(r, i) \in Nat /\ SizeOf(r, i) \in Nat
                           /\ PastOf(r, i) = OffsetOf(r, i) + SizeOf(r, i)
  BY UsedFacts
<1>2. PICK number : number = [i \in DOMAIN r.nodes |-> r.nodes[i].dataOffset]
  OBVIOUS
<1>3. \A i \in UsedIds(r) : number[i] = OffsetOf(r, i)
  BY <1>1, <1>2 DEF OffsetOf
<1>4. \A i \in UsedIds(r) : number[i] \in 0 .. Capacity
  <2> SUFFICES ASSUME NEW i \in UsedIds(r) PROVE OffsetOf(r, i) \in 0 .. Capacity
    BY <1>3
  <2>1. PastOf(r, i) <= Capacity
    BY DEF Compactable
  <2> QED BY <1>1, <2>1
<1>5. IsFiniteSet(UsedIds(r))
  <2>1. IsFiniteSet(Ids(n))
    BY <1>1, IdsCount
  <2> QED BY <1>1, <2>1, FS_Subset
<1>6. PICK order, m : order = Ram!Sorted(UsedIds(r), number) /\ m = Cardinality(UsedIds(r))
  OBVIOUS
<1>7. /\ m \in Nat /\ order \in [1 .. m -> UsedIds(r)] /\ OrderedBy(order, number, m)
      /\ \A x \in UsedIds(r) : \E k \in 1 .. m : order[k] = x
  <2>1. PICK S : S = UsedIds(r)
    OBVIOUS
  <2>2. PICK N \in Nat : N = Capacity
    BY <1>1
  <2>3. IsFiniteSet(S) /\ \A x \in S : number[x] \in 0 .. N
    BY <1>4, <1>5, <2>1, <2>2
  <2>4. /\ Cardinality(S) \in Nat
        /\ Ram!Sorted(S, number) \in [1 .. Cardinality(S) -> S]
        /\ OrderedBy(Ram!Sorted(S, number), number, Cardinality(S))
        /\ \A x \in S : \E k \in 1 .. Cardinality(S) : Ram!Sorted(S, number)[k] = x
    BY <2>3, SortedIs
  <2> QED BY <1>6, <2>1, <2>4
<1>8. Ram!UsedNodes(r) = order
  BY <1>2, <1>6 DEF Ram!UsedNodes, UsedIds
<1>9. Len(order) = m
  BY <1>7
<1>10. ASSUME NEW j \in 1 .. m, NEW k \in 1 .. m, j < k
       PROVE  order[j] # order[k] /\ PastOf(r, order[j]) <= OffsetOf(r, order[k])
  <2>1. order[j] \in UsedIds(r) /\ order[k] \in UsedIds(r)
    BY <1>7
  <2>2. order[j] # order[k] /\ number[order[j]] <= number[order[k]]
    BY <1>7, <1>10 DEF OrderedBy
  <2>3. OffsetOf(r, order[j]) <= OffsetOf(r, order[k])
    BY <1>3, <2>1, <2>2
  <2> QED BY <2>1, <2>2, <2>3 DEF Compactable
<1> QED BY <1>7, <1>8, <1>9, <1>10 DEF LeftToRight

AnyMove == [src : Nat, dst : Nat, size : Nat]
Reports(n) ==
  [offset : Nat, prevNode : Ids(n) \cup {Ram!Invalid}, prevOldOffset : Nat,
   updated : Seq([offset : Nat, id : Ids(n)]), moves : Seq(AnyMove), nodes : [Ids(n) -> Node]]

Contiguous(acc, id) ==
  /\ acc.prevNode # Ram!Invalid /\ acc.moves # <<>>
  /\ acc.nodes[id].dataOffset = acc.prevOldOffset + acc.nodes[acc.prevNode].dataSize

\* What CompactNode makes of acc.
Adds(new, acc, id) ==
  LET node == acc.nodes[id]
  IN /\ new.offset = acc.offset + node.dataSize /\ new.prevNode = id
     /\ new.prevOldOffset = node.dataOffset
     /\ new.updated = Append(acc.updated, [offset |-> acc.offset, id |-> id])
     /\ node.dataOffset = acc.offset => new.moves = acc.moves
     /\ node.dataOffset # acc.offset =>
          new.moves = IF Contiguous(acc, id) THEN Ram!Prolonged(acc.moves, node.dataSize)
                      ELSE Append(acc.moves, [src |-> node.dataOffset, dst |-> acc.offset,
                                              size |-> node.dataSize])
     /\ \A i \in DOMAIN acc.nodes :
          /\ new.nodes[i].dataSize = acc.nodes[i].dataSize
          /\ i # id => new.nodes[i].dataOffset = acc.nodes[i].dataOffset

LEMMA CompactNodeAdds ==
  ASSUME Ram!MiniRamAssumption, NEW n \in Nat, NEW acc \in Reports(n), NEW id \in Ids(n)
  PROVE  Ram!CompactNode(acc, id) \in Reports(n) /\ Adds(Ram!CompactNode(acc, id), acc, id)
<1>1. /\ acc.offset \in Nat /\ acc.prevNode \in Ids(n) \cup {Ram!Invalid}
      /\ acc.updated \in Seq([offset : Nat, id : Ids(n)]) /\ acc.moves \in Seq(AnyMove)
      /\ acc.nodes \in [Ids(n) -> Node] /\ DOMAIN acc.nodes = Ids(n)
  BY DEF Reports
<1>2. PICK o \in Nat, s \in Nat : o = acc.nodes[id].dataOffset /\ s = acc.nodes[id].dataSize
  <2>1. Capacity \in Nat
    BY DEF Ram!MiniRamAssumption
  <2>2. acc.nodes[id] \in Node
    BY <1>1
  <2>3. acc.nodes[id].dataOffset \in Nat /\ acc.nodes[id].dataSize \in Nat
    BY <2>1, <2>2 DEF Node
  <2> QED BY <2>3
<1>3. \A i \in Ids(n) : i # Ram!Invalid /\ i \in Int
  BY DEF Ids, Ram!Invalid
<1>4. Ram!Invalid \in Int
  BY DEF Ram!Invalid
<1> DEFINE one == [acc.nodes EXCEPT ![id] = [@ EXCEPT !.dataOffset = acc.offset,
                                                      !.prev = acc.prevNode]]
           two == Ram!Linked(one, acc.prevNode, "next", id)
           moves == IF o = acc.offset THEN acc.moves
                    ELSE IF Contiguous(acc, id) THEN Ram!Prolonged(acc.moves, s)
                    ELSE Append(acc.moves, [src |-> o, dst |-> acc.offset, size |-> s])
           updated == Append(acc.updated, [offset |-> acc.offset, id |-> id])
<1>5. /\ one \in [Ids(n) -> Node]
      /\ \A i \in Ids(n) : /\ one[i].dataSize = acc.nodes[i].dataSize
                           /\ i # id => one[i].dataOffset = acc.nodes[i].dataOffset
  <2>1. acc.prevNode \in Int
    BY <1>1, <1>3, <1>4
  <2>2. PICK p : p = [acc.nodes[id] EXCEPT !.dataOffset = acc.offset, !.prev = acc.prevNode]
    OBVIOUS
  <2>3. p \in Node /\ p.dataSize = acc.nodes[id].dataSize
    BY <1>1, <2>1, <2>2 DEF Node
  <2>4. one = [acc.nodes EXCEPT ![id] = p]
    BY <1>1, <2>2
  <2> HIDE DEF one
  <2> QED BY <1>1, <2>3, <2>4
<1> HIDE DEF one
<1>6. /\ two \in [Ids(n) -> Node]
      /\ \A i \in Ids(n) : two[i].dataSize = one[i].dataSize /\ two[i].dataOffset = one[i].dataOffset
  <2>1. CASE acc.prevNode = Ram!Invalid
    <3>1. two = one
      BY <2>1 DEF Ram!Linked
    <3> QED BY <1>5, <3>1
  <2>2. CASE acc.prevNode # Ram!Invalid
    <3>1. two = [one EXCEPT ![acc.prevNode]["next"] = id] /\ acc.prevNode \in Ids(n)
      BY <1>1, <2>2 DEF Ram!Linked
    <3> HIDE DEF two
    <3>2. PICK q \in Ids(n) : q = acc.prevNode
      BY <3>1
    <3> QED BY <1>3, <1>5, <3>1, <3>2 DEF Node
  <2> QED BY <2>1, <2>2
<1> HIDE DEF two
<1>7. updated \in Seq([offset : Nat, id : Ids(n)])
  BY <1>1
<1> HIDE DEF updated
<1>8. moves \in Seq(AnyMove)
  <2>1. PICK m \in AnyMove : m = [src |-> o, dst |-> acc.offset, size |-> s]
    BY <1>1 DEF AnyMove
  <2>2. Append(acc.moves, m) \in Seq(AnyMove)
    BY <1>1
  <2>3. ASSUME acc.moves # <<>> PROVE Ram!Prolonged(acc.moves, s) \in Seq(AnyMove)
    <3>1. Len(acc.moves) \in DOMAIN acc.moves /\ Len(acc.moves) \in Nat
          /\ DOMAIN acc.moves = 1 .. Len(acc.moves) /\ acc.moves \in [1 .. Len(acc.moves) -> AnyMove]
      BY <1>1, <2>3
    <3>2. PICK e \in AnyMove : e = acc.moves[Len(acc.moves)]
      BY <3>1
    <3>3. PICK f : f = [e EXCEPT !.size = e.size + s]
      OBVIOUS
    <3>4. f \in AnyMove
      <4>1. e.src \in Nat /\ e.dst \in Nat /\ e.size \in Nat
        BY DEF AnyMove
      <4>2. f = [src |-> e.src, dst |-> e.dst, size |-> e.size + s]
        BY <3>3 DEF AnyMove
      <4> QED BY <4>1, <4>2 DEF AnyMove
    <3>5. Ram!Prolonged(acc.moves, s) = [acc.moves EXCEPT ![Len(acc.moves)] = f]
      BY <3>2, <3>3 DEF Ram!Prolonged
    <3>6. Ram!Prolonged(acc.moves, s) \in [1 .. Len(acc.moves) -> AnyMove]
      BY <3>1, <3>4, <3>5
    <3> QED BY <3>1, <3>6
  <2> QED BY <1>1, <2>1, <2>2, <2>3 DEF Contiguous
<1>9. PICK new : new = Ram!CompactNode(acc, id)
  OBVIOUS
<1>10. new = [offset |-> acc.offset + s, prevNode |-> id, prevOldOffset |-> o,
              updated |-> updated, moves |-> moves, nodes |-> two]
  BY <1>2, <1>9 DEF Ram!CompactNode, Contiguous, Ram!Prolonged, updated, two, one
<1>11. moves = IF o = acc.offset THEN acc.moves
               ELSE IF Contiguous(acc, id) THEN Ram!Prolonged(acc.moves, s)
               ELSE Append(acc.moves, [src |-> o, dst |-> acc.offset, size |-> s])
  OBVIOUS
<1> HIDE DEF moves
<1>12. new \in Reports(n)
  BY <1>1, <1>6, <1>7, <1>8, <1>10 DEF Reports
<1>13. updated = Append(acc.updated, [offset |-> acc.offset, id |-> id])
  BY DEF updated
<1>14. Adds(new, acc, id)
  <2>1. /\ new.offset = acc.offset + s /\ new.prevNode = id /\ new.prevOldOffset = o
        /\ new.updated = updated /\ new.moves = moves /\ new.nodes = two
    BY <1>10
  <2>2. \A i \in DOMAIN acc.nodes :
          /\ new.nodes[i].dataSize = acc.nodes[i].dataSize
          /\ i # id => new.nodes[i].dataOffset = acc.nodes[i].dataOffset
    BY <1>1, <1>5, <1>6, <2>1
  <2> QED BY <1>2, <1>11, <1>13, <2>1, <2>2 DEF Adds
<1> QED BY <1>9, <1>12, <1>14

\* A move more, behind the last.
LEMMA MoveAppended ==
  ASSUME Ram!MiniRamAssumption, NEW moves \in Seq(LeftMoves), InTurn(moves), NEW m \in LeftMoves,
         NEW last, last = moves[Len(moves)],
         moves # <<>> => last.dst + last.size <= m.dst /\ last.src + last.size <= m.src
  PROVE  /\ Append(moves, m) \in Seq(LeftMoves) /\ InTurn(Append(moves, m))
         /\ Len(moves) \in Nat /\ DOMAIN moves = 1 .. Len(moves)
         /\ Len(Append(moves, m)) = Len(moves) + 1 /\ Append(moves, m) # <<>>
         /\ DOMAIN Append(moves, m) = 1 .. Len(moves) + 1
         /\ Append(moves, m)[Len(moves) + 1] = m
         /\ \A q \in DOMAIN moves : Append(moves, m)[q] = moves[q]
<1>1. PICK N \in Nat : N = Len(moves) /\ DOMAIN moves = 1 .. N
      /\ \A q \in 1 .. N : moves[q] \in LeftMoves
  OBVIOUS
<1>2. PICK all \in Seq(LeftMoves) :
        /\ all = Append(moves, m) /\ Len(all) = N + 1 /\ DOMAIN all = 1 .. N + 1
        /\ all[N + 1] = m /\ \A q \in 1 .. N : all[q] = moves[q]
  <2>1. Append(moves, m) \in Seq(LeftMoves) /\ Len(Append(moves, m)) = N + 1
        /\ DOMAIN Append(moves, m) = 1 .. N + 1
    BY <1>1
  <2>2. Append(moves, m)[N + 1] = m /\ \A q \in 1 .. N : Append(moves, m)[q] = moves[q]
    BY <1>1
  <2> QED BY <2>1, <2>2
<1>3. ASSUME NEW p \in 1 .. N
      PROVE  moves[p].dst + moves[p].size <= m.dst /\ moves[p].src + moves[p].size <= m.src
  <2>1. N \in 1 .. N /\ moves # <<>> /\ last = moves[N] /\ last \in LeftMoves
    BY <1>1, <1>3
  <2>2. last.dst + last.size <= m.dst /\ last.src + last.size <= m.src
    BY <2>1
  <2>3. CASE p = N
    BY <2>1, <2>2, <2>3
  <2>4. CASE p # N
    <3>1. p < N
      BY <1>1, <2>4
    <3>2. PICK c \in LeftMoves : c = moves[p]
      BY <1>1
    <3>3. c.dst + c.size <= last.dst /\ c.src + c.size <= last.src
      BY <1>1, <2>1, <3>1, <3>2 DEF InTurn
    <3>4. /\ c.src \in Nat /\ c.dst \in Nat /\ c.size \in Nat
          /\ last.src \in Nat /\ last.dst \in Nat /\ last.size \in Nat
      BY <2>1, MoveFacts
    <3>5. m.src \in Nat /\ m.dst \in Nat
      BY MoveFacts
    <3>6. PICK cs, ct, cz \in Nat : cs = c.src /\ ct = c.dst /\ cz = c.size
      BY <3>4
    <3>7. PICK ls, lt, lz \in Nat : ls = last.src /\ lt = last.dst /\ lz = last.size
      BY <3>4
    <3>8. PICK mt, ms \in Nat : mt = m.dst /\ ms = m.src
      BY <3>5
    <3>9. ct + cz <= lt /\ cs + cz <= ls
      BY <3>3, <3>6, <3>7
    <3>10. lt + lz <= mt /\ ls + lz <= ms
      BY <2>2, <3>7, <3>8
    <3>11. ct + cz <= mt /\ cs + cz <= ms
      BY <3>9, <3>10
    <3> QED BY <3>2, <3>6, <3>8, <3>11
  <2> QED BY <2>3, <2>4
<1>4. InTurn(all)
  <2> SUFFICES ASSUME NEW p \in 1 .. N + 1, NEW q \in 1 .. N + 1, p < q
               PROVE  /\ all[p].dst + all[p].size <= all[q].dst
                      /\ all[p].src + all[p].size <= all[q].src
    BY <1>2 DEF InTurn
  <2>1. p \in 1 .. N /\ all[p] = moves[p]
    <3>1. p \in 1 .. N
      OBVIOUS
    <3> QED BY <1>2, <3>1
  <2>2. CASE q = N + 1
    BY <1>2, <1>3, <2>1, <2>2
  <2>3. CASE q # N + 1
    <3>1. q \in 1 .. N
      BY <2>3
    <3>2. all[q] = moves[q]
      BY <1>2, <3>1
    <3> QED BY <1>1, <2>1, <3>1, <3>2 DEF InTurn
  <2> QED BY <2>2, <2>3
<1> QED BY <1>1, <1>2, <1>4

LEMMA MoveProlonged ==
  ASSUME Ram!MiniRamAssumption, NEW moves \in Seq(LeftMoves), InTurn(moves), moves # <<>>,
         NEW last, last = moves[Len(moves)], NEW s \in Nat, last.src + last.size + s <= Capacity
  PROVE  /\ Ram!Prolonged(moves, s) \in Seq(LeftMoves) /\ InTurn(Ram!Prolonged(moves, s))
         /\ Len(moves) \in DOMAIN moves /\ Len(Ram!Prolonged(moves, s)) = Len(moves)
         /\ Ram!Prolonged(moves, s) # <<>> /\ DOMAIN Ram!Prolonged(moves, s) = DOMAIN moves
         /\ \A q \in DOMAIN moves :
              /\ Ram!Prolonged(moves, s)[q].src = moves[q].src
              /\ Ram!Prolonged(moves, s)[q].dst = moves[q].dst
              /\ Ram!Prolonged(moves, s)[q].size
                       = IF q = Len(moves) THEN moves[q].size + s ELSE moves[q].size
<1>1. PICK N \in Nat : N = Len(moves) /\ DOMAIN moves = 1 .. N /\ N \in 1 .. N
      /\ moves \in [1 .. N -> LeftMoves]
  OBVIOUS
<1>2. last \in LeftMoves /\ last = moves[N]
  BY <1>1
<1>3. PICK f : f = [last EXCEPT !.size = last.size + s]
  OBVIOUS
<1>4. f \in LeftMoves /\ f.src = last.src /\ f.dst = last.dst /\ f.size = last.size + s
  <2>1. /\ last.src \in Nat /\ last.dst \in Nat /\ last.size \in Nat /\ last.dst < last.src
        /\ Capacity \in Nat
    BY <1>2, MoveFacts
  <2>2. f = [src |-> last.src, dst |-> last.dst, size |-> last.size + s]
    BY <1>2, <1>3 DEF LeftMoves
  <2>3. last.size + s \in Nat /\ last.src + (last.size + s) <= Capacity
    BY <2>1
  <2>4. f.src = last.src /\ f.dst = last.dst /\ f.size = last.size + s
    BY <2>2
  <2>5. f \in [src : Nat, dst : Nat, size : Nat]
    BY <2>1, <2>2, <2>3
  <2> QED BY <2>1, <2>3, <2>4, <2>5 DEF LeftMoves
<1>5. PICK all : all = Ram!Prolonged(moves, s)
  OBVIOUS
<1>6. all = [moves EXCEPT ![N] = f]
  BY <1>1, <1>2, <1>3, <1>5 DEF Ram!Prolonged
<1>7. all \in [1 .. N -> LeftMoves] /\ all[N] = f /\ \A q \in 1 .. N : q # N => all[q] = moves[q]
  BY <1>1, <1>4, <1>6
<1>8. all \in Seq(LeftMoves) /\ Len(all) = N /\ DOMAIN all = 1 .. N /\ all # <<>>
  <2>1. all \in Seq(LeftMoves) /\ Len(all) = N /\ DOMAIN all = 1 .. N
    <3>1. N \in Nat /\ all \in [1 .. N -> LeftMoves]
      BY <1>7
    <3>2. PICK LM : LM = LeftMoves
      OBVIOUS
    <3>3. \A f1 \in [1 .. N -> LM] : f1 \in Seq(LM)
      OBVIOUS
    <3>4. all \in Seq(LM) /\ DOMAIN all = 1 .. N
      BY <3>1, <3>2, <3>3
    <3>5. Len(all) = N
      BY <3>4
    <3> QED BY <3>2, <3>4, <3>5
  <2>2. Len(<<>>) = 0 /\ N # 0
    BY <1>1
  <2> QED BY <2>1, <2>2
<1>9. \A q \in 1 .. N : /\ all[q].src = moves[q].src /\ all[q].dst = moves[q].dst
                        /\ all[q].size = IF q = N THEN moves[q].size + s ELSE moves[q].size
  BY <1>2, <1>4, <1>7
<1>10. InTurn(all)
  <2> SUFFICES ASSUME NEW p \in 1 .. N, NEW q \in 1 .. N, p < q
               PROVE  /\ all[p].dst + all[p].size <= all[q].dst
                      /\ all[p].src + all[p].size <= all[q].src
    BY <1>8 DEF InTurn
  <2>1. p # N
    OBVIOUS
  <2>2. all[p].size = moves[p].size
    BY <1>9, <2>1
  <2>3. moves[p].dst + moves[p].size <= moves[q].dst /\ moves[p].src + moves[p].size <= moves[q].src
    BY <1>1 DEF InTurn
  <2> QED BY <1>9, <2>2, <2>3
<1> QED BY <1>1, <1>5, <1>8, <1>9, <1>10

\* The moves so far: as far as the nodes before k stood and as far as they
\* stand now, where the last of them was moved.
MovedSoFar(moves, offset, r, order, k) ==
  /\ moves \in Seq(LeftMoves) /\ InTurn(moves)
  /\ moves # <<>> =>
       /\ k > 0
       /\ moves[Len(moves)].dst + moves[Len(moves)].size = offset
       /\ moves[Len(moves)].src + moves[Len(moves)].size = PastOf(r, order[k])

Stays(place, moves, r, i) ==
  place = OffsetOf(r, i) /\ \A q \in DOMAIN moves : PastOf(r, i) <= moves[q].dst

Goes(place, moves, r, i) ==
  \E q \in DOMAIN moves :
    /\ moves[q].src <= OffsetOf(r, i) /\ PastOf(r, i) <= moves[q].src + moves[q].size
    /\ place + moves[q].src = OffsetOf(r, i) + moves[q].dst

Placed(acc, r, order, k) ==
  /\ Len(acc.updated) = k
  /\ \A j \in 1 .. k :
       /\ acc.updated[j].id = order[j]
       /\ acc.updated[j].offset + SizeOf(r, order[j]) <= acc.offset
       /\ Stays(acc.updated[j].offset, acc.moves, r, order[j])
          \/ Goes(acc.updated[j].offset, acc.moves, r, order[j])

NoGap(acc, r, order, k) ==
  \A x \in 0 .. acc.offset - 1 : \E j \in 1 .. k :
    acc.updated[j].offset <= x /\ x < acc.updated[j].offset + SizeOf(r, order[j])

Unread(acc, r, order, k) ==
  /\ \A i \in Ids(Ram!NodeCount(r)) : acc.nodes[i].dataSize = r.nodes[i].dataSize
  /\ \A i \in Ids(Ram!NodeCount(r)) : (\A j \in 1 .. k : order[j] # i) =>
       acc.nodes[i].dataOffset = r.nodes[i].dataOffset

Behindhand(acc, r, order, k) ==
  IF k = 0 THEN acc.prevNode = Ram!Invalid /\ acc.offset = 0
  ELSE /\ acc.prevNode = order[k] /\ acc.prevOldOffset = OffsetOf(r, order[k])
       /\ acc.offset <= PastOf(r, order[k])

CompactedTo(acc, r, n, order, k) ==
  /\ acc \in Reports(n) /\ Unread(acc, r, order, k) /\ Behindhand(acc, r, order, k)
  /\ MovedSoFar(acc.moves, acc.offset, r, order, k)
  /\ Placed(acc, r, order, k) /\ NoGap(acc, r, order, k)

\* How the next node, at o and of size s, changes the moves.
MovesNext(new, acc, o, s) ==
  \/ o = acc.offset /\ new.moves = acc.moves /\ acc.moves = <<>>
  \/ /\ o > acc.offset /\ acc.moves # <<>> /\ new.moves = Ram!Prolonged(acc.moves, s)
     /\ acc.moves[Len(acc.moves)].src + acc.moves[Len(acc.moves)].size = o
  \/ /\ o > acc.offset
     /\ new.moves = Append(acc.moves, [src |-> o, dst |-> acc.offset, size |-> s])
     /\ acc.moves # <<>> => acc.moves[Len(acc.moves)].src + acc.moves[Len(acc.moves)].size <= o

LEMMA NodeNext ==
  ASSUME Ram!MiniRamAssumption, NEW n, NEW r, Compactable(r, n), NEW order, NEW m,
         LeftToRight(order, r, m), NEW k \in 1 .. m, NEW acc, CompactedTo(acc, r, n, order, k - 1),
         NEW id, id = order[k], NEW o, o = OffsetOf(r, id), NEW s, s = SizeOf(r, id),
         NEW new, new = Ram!CompactNode(acc, id)
  PROVE  /\ id \in UsedIds(r) /\ id \in Ids(n) /\ o \in Nat /\ s \in Nat /\ o + s = PastOf(r, id)
         /\ o + s <= Capacity /\ acc.offset \in Nat /\ acc.offset <= o /\ new \in Reports(n)
         /\ new.offset = acc.offset + s /\ new.prevNode = id /\ new.prevOldOffset = o
         /\ new.updated = Append(acc.updated, [offset |-> acc.offset, id |-> id])
         /\ MovesNext(new, acc, o, s) /\ Unread(new, r, order, k)
<1>1. /\ n \in Nat /\ Capacity \in Nat /\ r.nodes \in [Ids(n) -> Node] /\ DOMAIN r.nodes = Ids(n)
      /\ UsedIds(r) \subseteq Ids(n)
      /\ \A i \in Ids(n) : /\ i # Ram!Invalid /\ SizeOf(r, i) \in Nat /\ OffsetOf(r, i) \in Nat
                           /\ PastOf(r, i) = OffsetOf(r, i) + SizeOf(r, i) /\ PastOf(r, i) \in Nat
  BY UsedFacts
<1>2. /\ m \in Nat /\ order \in [1 .. m -> UsedIds(r)]
      /\ \A i, j \in 1 .. m : i < j =>
           order[i] # order[j] /\ PastOf(r, order[i]) <= OffsetOf(r, order[j])
  BY DEF LeftToRight
<1>3. id \in UsedIds(r) /\ id \in Ids(n)
  BY <1>1, <1>2
<1>4. o \in Nat /\ s \in Nat /\ o + s = PastOf(r, id) /\ o + s <= Capacity
  BY <1>1, <1>3 DEF Compactable
<1>5. k \in Nat /\ k - 1 \in Nat /\ (k - 1 # 0 => k - 1 \in 1 .. m)
  BY <1>2
<1>6. Ram!NodeCount(r) = n
  <2>1. Cardinality(DOMAIN r.nodes) = n
    BY <1>1, IdsCount, RamCardinality
  <2> QED BY <2>1, RamCardinality DEF Ram!NodeCount
<1>7. /\ acc \in Reports(n) /\ Unread(acc, r, order, k - 1) /\ Behindhand(acc, r, order, k - 1)
      /\ MovedSoFar(acc.moves, acc.offset, r, order, k - 1)
  BY DEF CompactedTo
<1>8. acc.offset \in Nat /\ DOMAIN acc.nodes = Ids(n) /\ acc.nodes \in [Ids(n) -> Node]
  BY <1>7 DEF Reports
<1>9. acc.nodes[id].dataSize = s /\ acc.nodes[id].dataOffset = o
  <2>1. acc.nodes[id].dataSize = r.nodes[id].dataSize
    BY <1>3, <1>6, <1>7 DEF Unread
  <2>2. ASSUME NEW j \in 1 .. k - 1 PROVE order[j] # id
    <3>1. j \in 1 .. m /\ j < k
      BY <1>2, <1>5
    <3> QED BY <1>2, <3>1
  <2>3. acc.nodes[id].dataOffset = r.nodes[id].dataOffset
    BY <1>3, <1>6, <1>7, <2>2 DEF Unread
  <2> QED BY <2>1, <2>3 DEF SizeOf, OffsetOf
<1>10. new \in Reports(n) /\ Adds(new, acc, id)
  BY <1>1, <1>3, <1>7, CompactNodeAdds
<1>11. CASE k - 1 = 0
  <2>1. acc.prevNode = Ram!Invalid /\ acc.offset = 0 /\ acc.moves = <<>>
    BY <1>7, <1>11 DEF Behindhand, MovedSoFar
  <2>2. ~Contiguous(acc, id)
    BY <2>1 DEF Contiguous
  <2>3. acc.offset <= o /\ MovesNext(new, acc, o, s)
    BY <1>4, <1>8, <1>9, <1>10, <2>1, <2>2 DEF Adds, MovesNext
  <2>4. Unread(new, r, order, k)
    <3>1. \A i \in Ids(n) : new.nodes[i].dataSize = r.nodes[i].dataSize
      BY <1>6, <1>7, <1>8, <1>10 DEF Adds, Unread
    <3>2. ASSUME NEW i \in Ids(n), \A j \in 1 .. k : order[j] # i
          PROVE  new.nodes[i].dataOffset = r.nodes[i].dataOffset
      <4>1. i # id /\ \A j \in 1 .. k - 1 : order[j] # i
        BY <1>5, <3>2
      <4> QED BY <1>6, <1>7, <1>8, <1>10, <4>1 DEF Adds, Unread
    <3> QED BY <1>6, <3>1, <3>2 DEF Unread
  <2> QED BY <1>3, <1>4, <1>8, <1>9, <1>10, <2>3, <2>4 DEF Adds
<1>12. CASE k - 1 # 0
  <2>1. PICK p \in UsedIds(r) : p = order[k - 1] /\ p \in Ids(n) /\ PastOf(r, p) <= o
    <3>1. k - 1 \in 1 .. m /\ k - 1 < k
      BY <1>5, <1>12
    <3>2. PICK l \in 1 .. m : l = k - 1 /\ l < k
      BY <3>1
    <3>3. PastOf(r, order[l]) <= OffsetOf(r, order[k]) /\ order[l] \in UsedIds(r)
      BY <1>2, <3>2
    <3> QED BY <1>1, <3>2, <3>3
  <2>2. acc.prevNode = p /\ acc.prevOldOffset = OffsetOf(r, p) /\ acc.offset <= PastOf(r, p)
    BY <1>7, <1>12, <2>1 DEF Behindhand
  <2>3. acc.nodes[acc.prevNode].dataSize = SizeOf(r, p)
    BY <1>6, <1>7, <2>1, <2>2 DEF Unread, SizeOf
  <2>4. PICK past \in Nat : past = PastOf(r, p) /\ past = acc.prevOldOffset + acc.nodes[acc.prevNode].dataSize
    BY <1>1, <2>1, <2>2, <2>3
  <2>5. acc.offset <= past /\ past <= o /\ acc.offset <= o
    BY <1>4, <1>8, <2>1, <2>2, <2>4
  <2>6. acc.moves # <<>> => /\ acc.moves[Len(acc.moves)].src + acc.moves[Len(acc.moves)].size = past
                            /\ acc.offset < past
    <3> SUFFICES ASSUME acc.moves # <<>>
                 PROVE  /\ acc.moves[Len(acc.moves)].src + acc.moves[Len(acc.moves)].size = past
                        /\ acc.offset < past
      OBVIOUS
    <3>1. acc.moves \in Seq(LeftMoves)
      BY <1>7 DEF MovedSoFar
    <3>2. PICK last \in LeftMoves : last = acc.moves[Len(acc.moves)]
      BY <3>1
    <3>3. last.dst + last.size = acc.offset /\ last.src + last.size = past
      BY <1>7, <2>1, <2>4, <3>2 DEF MovedSoFar
    <3>4. last.src \in Nat /\ last.dst \in Nat /\ last.size \in Nat /\ last.dst < last.src
      BY MoveFacts
    <3> QED BY <3>2, <3>3, <3>4
  <2>7. Contiguous(acc, id) <=> acc.moves # <<>> /\ o = past
    BY <1>1, <1>9, <2>1, <2>2, <2>4 DEF Contiguous
  <2>8. MovesNext(new, acc, o, s)
    <3>1. CASE o = acc.offset
      BY <1>4, <1>8, <1>9, <1>10, <2>4, <2>5, <2>6, <3>1 DEF Adds, MovesNext
    <3>2. CASE o # acc.offset
      <4>1. o > acc.offset
        BY <1>4, <1>8, <2>5, <3>2
      <4>2. new.moves = IF Contiguous(acc, id) THEN Ram!Prolonged(acc.moves, s)
                        ELSE Append(acc.moves, [src |-> o, dst |-> acc.offset, size |-> s])
        BY <1>9, <1>10, <3>2 DEF Adds
      <4> QED BY <2>5, <2>6, <2>7, <4>1, <4>2 DEF MovesNext
    <3> QED BY <3>1, <3>2
  <2>9. Unread(new, r, order, k)
    <3>1. \A i \in Ids(n) : new.nodes[i].dataSize = r.nodes[i].dataSize
      BY <1>6, <1>7, <1>8, <1>10 DEF Adds, Unread
    <3>2. ASSUME NEW i \in Ids(n), \A j \in 1 .. k : order[j] # i
          PROVE  new.nodes[i].dataOffset = r.nodes[i].dataOffset
      <4>1. i # id /\ \A j \in 1 .. k - 1 : order[j] # i
        BY <1>5, <3>2
      <4> QED BY <1>6, <1>7, <1>8, <1>10, <4>1 DEF Adds, Unread
    <3> QED BY <1>6, <3>1, <3>2 DEF Unread
  <2> QED BY <1>3, <1>4, <1>8, <1>9, <1>10, <2>5, <2>8, <2>9 DEF Adds
<1> QED BY <1>11, <1>12

LEMMA CompactNext ==
  ASSUME Ram!MiniRamAssumption, NEW n, NEW r, Compactable(r, n), NEW order, NEW m,
         LeftToRight(order, r, m), NEW k \in 1 .. m, NEW acc, CompactedTo(acc, r, n, order, k - 1)
  PROVE  CompactedTo(Ram!CompactNode(acc, order[k]), r, n, order, k)
<1>1. PICK id, new : id = order[k] /\ new = Ram!CompactNode(acc, id)
  OBVIOUS
<1>2. PICK o, s, place : o = OffsetOf(r, id) /\ s = SizeOf(r, id) /\ place = acc.offset
  OBVIOUS
<1>3. /\ id \in UsedIds(r) /\ id \in Ids(n) /\ o \in Nat /\ s \in Nat /\ o + s = PastOf(r, id)
      /\ o + s <= Capacity /\ place \in Nat /\ place <= o /\ new \in Reports(n)
      /\ new.offset = place + s /\ new.prevNode = id /\ new.prevOldOffset = o
      /\ new.updated = Append(acc.updated, [offset |-> place, id |-> id])
      /\ MovesNext(new, acc, o, s) /\ Unread(new, r, order, k)
  BY <1>1, <1>2, NodeNext
<1>4. m \in Nat /\ k \in Nat /\ k - 1 \in Nat /\ k \in 1 .. k /\ k # 0
      /\ \A j \in 1 .. k : j # k => j \in 1 .. k - 1
  BY DEF LeftToRight
<1>5. /\ acc \in Reports(n) /\ Placed(acc, r, order, k - 1) /\ NoGap(acc, r, order, k - 1)
      /\ acc.moves \in Seq(LeftMoves) /\ InTurn(acc.moves)
      /\ acc.moves # <<>> => acc.moves[Len(acc.moves)].dst + acc.moves[Len(acc.moves)].size = place
  BY <1>2 DEF CompactedTo, MovedSoFar
<1>6. /\ new.updated[k] = [offset |-> place, id |-> id] /\ Len(new.updated) = k
      /\ \A j \in 1 .. k - 1 : new.updated[j] = acc.updated[j]
  <2>1. acc.updated \in Seq([offset : Nat, id : Ids(n)]) /\ Len(acc.updated) = k - 1
    BY <1>5 DEF Reports, Placed
  <2>2. PICK e \in [offset : Nat, id : Ids(n)] : e = [offset |-> place, id |-> id]
    BY <1>3
  <2>3. new.updated = Append(acc.updated, e)
    BY <1>3, <2>2
  <2> QED BY <1>4, <2>1, <2>2, <2>3
<1>7. ASSUME NEW j \in 1 .. k - 1
      PROVE  /\ order[j] \in UsedIds(r) /\ SizeOf(r, order[j]) \in Nat /\ OffsetOf(r, order[j]) \in Nat
             /\ PastOf(r, order[j]) = OffsetOf(r, order[j]) + SizeOf(r, order[j])
             /\ acc.updated[j].offset \in Nat
             /\ acc.updated[j].offset + SizeOf(r, order[j]) <= place
  <2>1. j \in 1 .. m
    BY <1>4
  <2>2. order[j] \in UsedIds(r) /\ order[j] \in Ids(n)
    BY <2>1, UsedFacts DEF LeftToRight
  <2>3. acc.updated \in Seq([offset : Nat, id : Ids(n)]) /\ Len(acc.updated) = k - 1
    BY <1>5 DEF Reports, Placed
  <2>4. acc.updated[j] \in [offset : Nat, id : Ids(n)]
    <3>1. PICK up, R : up = acc.updated /\ R = [offset : Nat, id : Ids(n)]
      OBVIOUS
    <3>2. up \in Seq(R) /\ j \in 1 .. Len(up)
      BY <2>3, <3>1
    <3>3. up[j] \in R
      BY <3>2
    <3> QED BY <3>1, <3>3
  <2>5. acc.updated[j].offset \in Nat
    BY <2>4
  <2> QED BY <1>2, <1>5, <2>2, <2>5, UsedFacts DEF Placed
\* The moves.
<1>8. /\ MovedSoFar(new.moves, place + s, r, order, k)
      /\ Stays(place, new.moves, r, id) \/ Goes(place, new.moves, r, id)
      /\ \A j \in 1 .. k - 1 : \A p : p = acc.updated[j].offset =>
           /\ Stays(p, acc.moves, r, order[j]) => Stays(p, new.moves, r, order[j])
           /\ Goes(p, acc.moves, r, order[j]) => Goes(p, new.moves, r, order[j])
  <2>1. CASE o = place /\ new.moves = acc.moves /\ acc.moves = <<>>
    <3>1. MovedSoFar(new.moves, place + s, r, order, k)
      BY <1>5, <2>1 DEF MovedSoFar
    <3>2. DOMAIN new.moves = {}
      BY <2>1
    <3>3. Stays(place, new.moves, r, id)
      BY <1>2, <2>1, <3>2 DEF Stays
    <3> QED BY <2>1, <3>1, <3>3
  <2>2. CASE /\ o > place /\ acc.moves # <<>> /\ new.moves = Ram!Prolonged(acc.moves, s)
             /\ acc.moves[Len(acc.moves)].src + acc.moves[Len(acc.moves)].size = o
    <3>1. PICK L, last : L = Len(acc.moves) /\ last = acc.moves[L]
      OBVIOUS
    <3>2. last.dst + last.size = place /\ last.src + last.size = o
      BY <1>5, <2>2, <3>1
    <3>3. /\ new.moves \in Seq(LeftMoves) /\ InTurn(new.moves) /\ L \in DOMAIN acc.moves
          /\ Len(new.moves) = L /\ DOMAIN new.moves = DOMAIN acc.moves
          /\ \A q \in DOMAIN acc.moves :
               /\ new.moves[q].src = acc.moves[q].src /\ new.moves[q].dst = acc.moves[q].dst
               /\ new.moves[q].size = IF q = L THEN acc.moves[q].size + s ELSE acc.moves[q].size
      <4>1. PICK mv \in Seq(LeftMoves) : mv = acc.moves
        BY <1>5
      <4>2. InTurn(mv) /\ mv # <<>> /\ last = mv[Len(mv)] /\ new.moves = Ram!Prolonged(mv, s)
        BY <1>5, <2>2, <3>1, <4>1
      <4>3. last.src + last.size + s <= Capacity
        BY <1>3, <3>2
      <4>4. /\ Ram!Prolonged(mv, s) \in Seq(LeftMoves) /\ InTurn(Ram!Prolonged(mv, s))
            /\ Len(mv) \in DOMAIN mv /\ Len(Ram!Prolonged(mv, s)) = Len(mv)
            /\ DOMAIN Ram!Prolonged(mv, s) = DOMAIN mv
            /\ \A q \in DOMAIN mv :
                 /\ Ram!Prolonged(mv, s)[q].src = mv[q].src /\ Ram!Prolonged(mv, s)[q].dst = mv[q].dst
                 /\ Ram!Prolonged(mv, s)[q].size = IF q = Len(mv) THEN mv[q].size + s ELSE mv[q].size
        BY <1>3, <4>2, <4>3, MoveProlonged
      <4> QED BY <3>1, <4>1, <4>2, <4>4
    <3>4. last \in LeftMoves /\ last.src \in Nat /\ last.dst \in Nat /\ last.size \in Nat
      <4>1. last \in LeftMoves
        BY <1>5, <3>1, <3>3
      <4> QED BY <4>1, MoveFacts
    <3>5. new.moves[L].src = last.src /\ new.moves[L].dst = last.dst /\ new.moves[L].size = last.size + s
      BY <3>1, <3>3
    <3>6. PICK ls, lt, lz \in Nat : ls = last.src /\ lt = last.dst /\ lz = last.size
      BY <3>4
    <3>7. /\ lt + (lz + s) = place + s /\ ls + (lz + s) = PastOf(r, id) /\ ls <= o
          /\ place + ls = o + lt
      <4>1. lt + lz = place /\ ls + lz = o
        BY <3>2, <3>6
      <4>2. PICK past : past = PastOf(r, id) /\ o + s = past
        BY <1>3
      <4>3. lt + (lz + s) = place + s /\ ls + (lz + s) = past /\ ls <= o /\ place + ls = o + lt
        <5>1. o \in Nat /\ s \in Nat /\ place \in Nat
          BY <1>3
        <5>2. lt + (lz + s) = place + s
          BY <4>1, <5>1
        <5>3. ls + (lz + s) = past
          BY <4>1, <4>2, <5>1
        <5>4. ls <= o /\ place + ls = o + lt
          BY <4>1, <5>1
        <5> QED BY <5>2, <5>3, <5>4
      <4> QED BY <4>2, <4>3
    <3>8. MovedSoFar(new.moves, place + s, r, order, k)
      BY <1>1, <1>4, <3>3, <3>5, <3>6, <3>7 DEF MovedSoFar
    <3>9. Goes(place, new.moves, r, id)
      <4>1. /\ L \in DOMAIN new.moves /\ new.moves[L].src <= OffsetOf(r, id)
            /\ PastOf(r, id) <= new.moves[L].src + new.moves[L].size
            /\ place + new.moves[L].src = OffsetOf(r, id) + new.moves[L].dst
        BY <1>2, <1>3, <3>3, <3>5, <3>6, <3>7
      <4> QED BY <4>1 DEF Goes
    <3>10. ASSUME NEW j \in 1 .. k - 1, NEW p, p = acc.updated[j].offset
           PROVE  /\ Stays(p, acc.moves, r, order[j]) => Stays(p, new.moves, r, order[j])
                  /\ Goes(p, acc.moves, r, order[j]) => Goes(p, new.moves, r, order[j])
      <4>1. Stays(p, acc.moves, r, order[j]) => Stays(p, new.moves, r, order[j])
        BY <3>3 DEF Stays
      <4>2. ASSUME Goes(p, acc.moves, r, order[j]) PROVE Goes(p, new.moves, r, order[j])
        <5>1. PICK q \in DOMAIN acc.moves :
                /\ acc.moves[q].src <= OffsetOf(r, order[j])
                /\ PastOf(r, order[j]) <= acc.moves[q].src + acc.moves[q].size
                /\ p + acc.moves[q].src = OffsetOf(r, order[j]) + acc.moves[q].dst
          BY <4>2 DEF Goes
        <5>2. PICK e \in LeftMoves : e = acc.moves[q]
          BY <1>5
        <5>3. e.src \in Nat /\ e.dst \in Nat /\ e.size \in Nat
          BY MoveFacts
        <5>4. PICK es, ez \in Nat : es = e.src /\ ez = e.size
          BY <5>3
        <5>5. PICK past \in Nat : past = PastOf(r, order[j])
          BY <1>7
        <5>6. new.moves[q].size = ez \/ new.moves[q].size = ez + s
          BY <3>3, <5>2, <5>4
        <5>7. past <= es + ez /\ past <= es + (ez + s)
          <6>1. past <= es + ez
            BY <5>1, <5>2, <5>4, <5>5
          <6>2. s \in Nat
            BY <1>3
          <6> QED BY <5>4, <5>5, <6>1, <6>2
        <5>8. PastOf(r, order[j]) <= new.moves[q].src + new.moves[q].size
          BY <3>3, <5>2, <5>4, <5>5, <5>6, <5>7
        <5> QED BY <3>3, <5>1, <5>8 DEF Goes
      <4> QED BY <4>1, <4>2
    <3> QED BY <3>8, <3>9, <3>10
  <2>3. CASE /\ o > place
             /\ new.moves = Append(acc.moves, [src |-> o, dst |-> place, size |-> s])
             /\ acc.moves # <<>> => acc.moves[Len(acc.moves)].src + acc.moves[Len(acc.moves)].size <= o
    <3>1. PICK L, last : L = Len(acc.moves) /\ last = acc.moves[L]
      OBVIOUS
    <3>2. PICK e : e = [src |-> o, dst |-> place, size |-> s]
      OBVIOUS
    <3>3. e.src = o /\ e.dst = place /\ e.size = s /\ e \in LeftMoves
      <4>1. e.src = o /\ e.dst = place /\ e.size = s /\ e \in [src : Nat, dst : Nat, size : Nat]
        BY <1>3, <3>2
      <4> QED BY <1>3, <2>3, <4>1 DEF LeftMoves
    <3>4. acc.moves # <<>> => last.dst + last.size <= e.dst /\ last.src + last.size <= e.src
      BY <1>3, <1>5, <2>3, <3>1, <3>3
    <3>5. /\ new.moves \in Seq(LeftMoves) /\ InTurn(new.moves) /\ L \in Nat
          /\ DOMAIN acc.moves = 1 .. L /\ Len(new.moves) = L + 1 /\ new.moves # <<>>
          /\ DOMAIN new.moves = 1 .. L + 1 /\ new.moves[L + 1] = e
          /\ \A q \in DOMAIN acc.moves : new.moves[q] = acc.moves[q]
      BY <1>5, <2>3, <3>1, <3>2, <3>3, <3>4, MoveAppended
    <3>6. L + 1 \in DOMAIN new.moves /\ \A q \in DOMAIN acc.moves : q \in DOMAIN new.moves
      BY <3>5
    <3>7. MovedSoFar(new.moves, place + s, r, order, k)
      BY <1>1, <1>3, <1>4, <3>3, <3>5 DEF MovedSoFar
    <3>8. Goes(place, new.moves, r, id)
      <4>1. /\ new.moves[L + 1].src <= OffsetOf(r, id)
            /\ PastOf(r, id) <= new.moves[L + 1].src + new.moves[L + 1].size
            /\ place + new.moves[L + 1].src = OffsetOf(r, id) + new.moves[L + 1].dst
        BY <1>2, <1>3, <3>3, <3>5
      <4> QED BY <3>6, <4>1 DEF Goes
    <3>9. ASSUME NEW j \in 1 .. k - 1, NEW p, p = acc.updated[j].offset
          PROVE  /\ Stays(p, acc.moves, r, order[j]) => Stays(p, new.moves, r, order[j])
                 /\ Goes(p, acc.moves, r, order[j]) => Goes(p, new.moves, r, order[j])
      <4>1. ASSUME Stays(p, acc.moves, r, order[j]) PROVE Stays(p, new.moves, r, order[j])
        <5>1. p = OffsetOf(r, order[j]) /\ \A q \in DOMAIN acc.moves : PastOf(r, order[j]) <= acc.moves[q].dst
          BY <4>1 DEF Stays
        <5>2. PastOf(r, order[j]) <= place
          BY <1>7, <3>9, <5>1
        <5>3. ASSUME NEW q \in DOMAIN new.moves PROVE PastOf(r, order[j]) <= new.moves[q].dst
          <6>1. CASE q = L + 1
            BY <3>3, <3>5, <5>2, <6>1
          <6>2. CASE q # L + 1
            <7>1. q \in DOMAIN acc.moves
              BY <3>5, <6>2
            <7> QED BY <3>5, <5>1, <7>1
          <6> QED BY <6>1, <6>2
        <5> QED BY <5>1, <5>3 DEF Stays
      <4>2. Goes(p, acc.moves, r, order[j]) => Goes(p, new.moves, r, order[j])
        BY <3>5, <3>6 DEF Goes
      <4> QED BY <4>1, <4>2
    <3> QED BY <3>7, <3>8, <3>9
  <2> QED BY <1>2, <1>3, <2>1, <2>2, <2>3 DEF MovesNext
<1>9. Placed(new, r, order, k)
  <2> SUFFICES ASSUME NEW j \in 1 .. k
               PROVE  /\ new.updated[j].id = order[j]
                      /\ new.updated[j].offset + SizeOf(r, order[j]) <= new.offset
                      /\ Stays(new.updated[j].offset, new.moves, r, order[j])
                         \/ Goes(new.updated[j].offset, new.moves, r, order[j])
    BY <1>6 DEF Placed
  <2>1. CASE j = k
    <3>1. new.updated[j].id = id /\ new.updated[j].offset = place /\ order[j] = id
      BY <1>1, <1>6, <2>1
    <3>2. place + SizeOf(r, order[j]) <= new.offset
      BY <1>2, <1>3, <3>1
    <3>3. Stays(place, new.moves, r, order[j]) \/ Goes(place, new.moves, r, order[j])
      BY <1>8, <3>1
    <3> QED BY <1>1, <1>6, <2>1, <3>1, <3>2, <3>3
  <2>2. CASE j # k
    <3>1. j \in 1 .. k - 1
      BY <1>4, <2>2
    <3>2. new.updated[j] = acc.updated[j] /\ acc.updated[j].id = order[j]
      BY <1>5, <1>6, <3>1 DEF Placed
    <3>3. PICK p : p = acc.updated[j].offset
      OBVIOUS
    <3>4. Stays(p, acc.moves, r, order[j]) \/ Goes(p, acc.moves, r, order[j])
      BY <1>5, <3>1, <3>3 DEF Placed
    <3>5. p + SizeOf(r, order[j]) <= place + s
      BY <1>3, <1>7, <3>1, <3>3
    <3> QED BY <1>3, <1>8, <3>1, <3>2, <3>3, <3>4, <3>5
  <2> QED BY <2>1, <2>2
<1>10. NoGap(new, r, order, k)
  <2>0. PICK e \in Int : e = place + s /\ new.offset = e
    BY <1>3
  <2>1. ASSUME NEW x \in 0 .. e - 1
        PROVE  \E j \in 1 .. k : /\ new.updated[j].offset <= x
                                 /\ x < new.updated[j].offset + SizeOf(r, order[j])
    <3>1. CASE x < place
      <4>1. x \in 0 .. acc.offset - 1
        BY <1>2, <1>3, <3>1
      <4>2. PICK j \in 1 .. k - 1 : /\ acc.updated[j].offset <= x
                                    /\ x < acc.updated[j].offset + SizeOf(r, order[j])
        BY <1>5, <4>1 DEF NoGap
      <4>3. j \in 1 .. k
        BY <1>4
      <4> QED BY <1>6, <4>2, <4>3
    <3>2. CASE ~(x < place)
      <4>1. new.updated[k].offset = place /\ SizeOf(r, order[k]) = s
        BY <1>1, <1>2, <1>6
      <4>2. place <= x /\ x < place + s
        BY <1>3, <2>0, <3>2
      <4> QED BY <1>4, <4>1, <4>2
    <3> QED BY <3>1, <3>2
  <2>2. 0 .. new.offset - 1 = 0 .. e - 1
    <3>1. \A f : f = e => 0 .. f - 1 = 0 .. e - 1
      OBVIOUS
    <3> QED BY <2>0, <3>1
  <2>3. \A x \in 0 .. new.offset - 1 :
          \E j \in 1 .. k : /\ new.updated[j].offset <= x
                            /\ x < new.updated[j].offset + SizeOf(r, order[j])
    BY <2>1, <2>2, Zenon
  <2> QED BY <2>3, Zenon DEF NoGap
<1>11. Behindhand(new, r, order, k)
  <2>1. place + s <= PastOf(r, id)
    BY <1>3
  <2> QED BY <1>1, <1>2, <1>3, <1>4, <2>1 DEF Behindhand
<1>12. MovedSoFar(new.moves, new.offset, r, order, k)
  BY <1>3, <1>8
<1> QED BY <1>1, <1>3, <1>9, <1>10, <1>11, <1>12 DEF CompactedTo

LEMMA CompactedIs ==
  ASSUME Ram!MiniRamAssumption, NEW n, NEW r, Compactable(r, n)
  PROVE  \E order, m, acc :
           /\ LeftToRight(order, r, m) /\ CompactedTo(acc, r, n, order, m)
           /\ Ram!CompactUsedNodes(r).moves = acc.moves /\ Ram!CompactUsedNodes(r).updated = acc.updated
<1>1. PICK order, m : LeftToRight(order, r, m) /\ order = Ram!UsedNodes(r) /\ Len(order) = m
  BY UsedNodesIs
<1>2. PICK start : start = [offset |-> 0, prevNode |-> Ram!Invalid, prevOldOffset |-> 0,
                            updated |-> <<>>, moves |-> <<>>, nodes |-> r.nodes]
  OBVIOUS
<1> DEFINE IsCompacted(w) == w = [k \in 0 .. Len(order) |->
                                    IF k = 0 THEN start ELSE Ram!CompactNode(w[k - 1], order[k])]
           compacted == CHOOSE w : IsCompacted(w)
           all == compacted[Len(order)]
<1>3. Ram!CompactUsedNodes(r) = [all EXCEPT !.nodes = Ram!Linked(@, all.prevNode, "next", Ram!Invalid)]
  BY <1>1, <1>2 DEF Ram!CompactUsedNodes
<1>4. /\ m \in Nat /\ n \in Nat /\ order \in [1 .. m -> UsedIds(r)]
      /\ r.nodes \in [Ids(n) -> Node] /\ UsedIds(r) \subseteq Ids(n)
  BY <1>1, UsedFacts DEF LeftToRight
<1>5. PICK S : S = Reports(n)
  OBVIOUS
<1>6. ASSUME NEW x \in S, NEW k \in 1 .. m PROVE Ram!CompactNode(x, order[k]) \in S
  <2>1. PICK acc \in Reports(n), id \in Ids(n) : acc = x /\ id = order[k]
    BY <1>4, <1>5
  <2>2. Ram!CompactNode(acc, id) \in Reports(n)
    BY <1>4, CompactNodeAdds
  <2> QED BY <1>5, <2>1, <2>2
<1>7. start \in S
  <2>1. <<>> \in Seq([offset : Nat, id : Ids(n)]) /\ <<>> \in Seq(AnyMove)
    OBVIOUS
  <2> QED BY <1>2, <1>4, <1>5, <2>1 DEF Reports
<1>8. PICK v \in [0 .. m -> S] :
        \A k \in 0 .. m : v[k] = IF k = 0 THEN start ELSE Ram!CompactNode(v[k - 1], order[k])
  <2>1. PICK step : step = [k \in 1 .. m |-> [x \in S |-> Ram!CompactNode(x, order[k])]]
    OBVIOUS
  <2>2. step \in Steps(S, m)
        /\ \A k \in 1 .. m : \A x \in S : step[k][x] = Ram!CompactNode(x, order[k])
    BY <1>6, <2>1 DEF Steps
  <2>3. PICK a \in S : a = start
    BY <1>7
  <2>4. PICK v : IsRun(v, S, m, a, step)
    BY <1>4, <2>2, Repeated
  <2>5. v \in [0 .. m -> S]
    BY <2>4 DEF IsRun
  <2>6. ASSUME NEW k \in 0 .. m, k # 0 PROVE v[k] = Ram!CompactNode(v[k - 1], order[k])
    <3>1. k \in 1 .. m /\ k - 1 \in 0 .. m
      BY <1>4, <2>6
    <3>2. v[k] = step[k][v[k - 1]]
      BY <2>4, <2>6 DEF IsRun
    <3> QED BY <2>2, <2>5, <3>1, <3>2
  <2>7. \A k \in 0 .. m : k = 0 => v[k] = start
    BY <2>3, <2>4 DEF IsRun
  <2> QED BY <2>5, <2>6, <2>7
<1>9. IsCompacted(v)
  <2>1. v = [k \in 0 .. m |-> v[k]]
    OBVIOUS
  <2>2. v = [k \in 0 .. m |-> IF k = 0 THEN start ELSE Ram!CompactNode(v[k - 1], order[k])]
    BY <1>8, <2>1, Zenon
  <2> QED BY <1>1, <2>2
<1>10. IsCompacted(compacted)
  <2> HIDE DEF IsCompacted
  <2> QED BY <1>9
<1> HIDE DEF compacted
<1>11. \A k \in 0 .. m : compacted[k] = IF k = 0 THEN start ELSE Ram!CompactNode(compacted[k - 1], order[k])
  <2>1. compacted = [k \in 0 .. m |-> IF k = 0 THEN start ELSE Ram!CompactNode(compacted[k - 1], order[k])]
    BY <1>1, <1>10
  <2> QED BY <2>1, Zenon
<1> HIDE DEF IsCompacted
<1> DEFINE U == { k \in 0 .. m : CompactedTo(compacted[k], r, n, order, k) }
<1>12. 0 \in U /\ U \in SUBSET (0 .. m)
  <2>1. 0 \in 0 .. m /\ compacted[0] = start
    BY <1>4, <1>11
  <2>2. CompactedTo(start, r, n, order, 0)
    <3>1. /\ start.offset = 0 /\ start.prevNode = Ram!Invalid /\ start.updated = <<>>
          /\ start.moves = <<>> /\ start.nodes = r.nodes
      BY <1>2
    <3>2. start \in Reports(n) /\ Unread(start, r, order, 0) /\ Behindhand(start, r, order, 0)
      BY <1>5, <1>7, <3>1 DEF Unread, Behindhand
    <3>3. MovedSoFar(start.moves, start.offset, r, order, 0)
      BY <3>1 DEF MovedSoFar, InTurn
    <3>4. Placed(start, r, order, 0) /\ NoGap(start, r, order, 0)
      BY <3>1 DEF Placed, NoGap
    <3> QED BY <3>2, <3>3, <3>4 DEF CompactedTo
  <2> QED BY <2>1, <2>2
<1>13. ASSUME NEW k \in 1 .. m, k - 1 \in U PROVE k \in U
  <2>1. k \in 0 .. m /\ compacted[k] = Ram!CompactNode(compacted[k - 1], order[k])
    <3>1. k \in 0 .. m /\ k # 0
      BY <1>4
    <3> QED BY <1>11, <3>1, Zenon
  <2>2. CompactedTo(compacted[k - 1], r, n, order, k - 1)
    BY <1>13
  <2>3. PICK acc : acc = compacted[k - 1]
    OBVIOUS
  <2>4. CompactedTo(Ram!CompactNode(acc, order[k]), r, n, order, k)
    BY <1>1, <2>2, <2>3, CompactNext
  <2> QED BY <2>1, <2>3, <2>4
<1>14. U = 0 .. m
  <2> HIDE DEF U
  <2> QED BY <1>4, <1>12, <1>13, UpTo
<1>15. PICK acc : acc = compacted[m] /\ CompactedTo(acc, r, n, order, m)
  BY <1>4, <1>14
<1>16. acc = all
  BY <1>1, <1>15
<1> HIDE DEF all
<1>17. Ram!CompactUsedNodes(r).moves = acc.moves /\ Ram!CompactUsedNodes(r).updated = acc.updated
  <2>1. acc \in Reports(n)
    BY <1>15 DEF CompactedTo
  <2> QED BY <1>3, <1>16, <2>1 DEF Reports
<1> QED BY <1>1, <1>15, <1>17

\* The copies bring the data of each node to its new place.
LEMMA DataFollow ==
  ASSUME Ram!MiniRamAssumption, NEW n, NEW r, Compactable(r, n), NEW order, NEW m,
         LeftToRight(order, r, m), NEW acc, CompactedTo(acc, r, n, order, m),
         NEW copies, CutSoFar(copies, acc.moves, Len(acc.moves)), NEW memory, NEW after,
         CopiedSoFar(memory, after, copies, Len(copies)),
         NEW j \in 1 .. m, NEW x \in 0 .. SizeOf(r, order[j]) - 1
  PROVE  after[acc.updated[j].offset + x] = memory[OffsetOf(r, order[j]) + x]
<1>1. PICK id \in Ids(n) : id = order[j] /\ id \in UsedIds(r)
  BY UsedFacts DEF LeftToRight
<1>2. PICK o, s \in Nat : /\ o = OffsetOf(r, id) /\ s = SizeOf(r, id) /\ PastOf(r, id) = o + s
                          /\ o + s <= Capacity /\ x \in 0 .. s - 1
  BY <1>1, UsedFacts DEF Compactable
<1>3. Capacity \in Nat
  BY DEF Ram!MiniRamAssumption
<1>4. PICK z \in Nat : z = x /\ z < s
  BY <1>2
<1>5. PICK L \in Nat : /\ L = Len(acc.moves) /\ DOMAIN acc.moves = 1 .. L
                       /\ \A q \in 1 .. L : acc.moves[q] \in LeftMoves
  BY DEF CompactedTo, MovedSoFar
<1>6. PICK c \in Nat : /\ c = Len(copies) /\ DOMAIN copies = 1 .. c
                       /\ \A k \in 1 .. c : copies[k] \in LeftMoves
  BY DEF CutSoFar
<1>7. PICK p : p = acc.updated[j].offset
  OBVIOUS
<1>8. CASE Stays(p, acc.moves, r, id)
  <2>1. p = o /\ \A q \in 1 .. L : o + s <= acc.moves[q].dst
    BY <1>2, <1>5, <1>8 DEF Stays
  <2>2. o + x \in 0 .. Capacity - 1
    BY <1>2, <1>3
  <2>3. ASSUME NEW k \in 1 .. c PROVE o + x \notin Into(copies[k])
    <3>1. PICK q \in 1 .. L : PartOf(copies[k], acc.moves[q])
      BY <1>5, <1>6 DEF CutSoFar
    <3>2. PICK e \in LeftMoves : e = copies[k]
      BY <1>6
    <3>3. PICK t, u \in Nat : t = e.dst /\ u = acc.moves[q].dst /\ u <= t
      <4>1. PICK f \in LeftMoves : f = acc.moves[q]
        BY <1>5
      <4>2. e.dst \in Nat /\ f.dst \in Nat
        BY MoveFacts
      <4> QED BY <3>1, <3>2, <4>1, <4>2 DEF PartOf
    <3>4. o + s <= u
      BY <2>1, <3>3
    <3>5. \A y \in Into(e) : t <= y
      BY <3>3, MoveFacts
    <3>6. o + z < t
      BY <1>4, <3>3, <3>4
    <3>7. o + x < t /\ o + x \in Nat
      BY <1>4, <3>6
    <3> QED BY <3>2, <3>3, <3>5, <3>7
  <2>4. after[o + x] = memory[o + x]
    BY <1>6, <2>2, <2>3 DEF CopiedSoFar
  <2> QED BY <1>1, <1>2, <1>7, <2>1, <2>4
<1>9. CASE Goes(p, acc.moves, r, id)
  <2>1. PICK q \in 1 .. L : /\ acc.moves[q].src <= o /\ o + s <= acc.moves[q].src + acc.moves[q].size
                            /\ p + acc.moves[q].src = o + acc.moves[q].dst
    BY <1>2, <1>5, <1>9 DEF Goes
  <2>2. PICK f \in LeftMoves : f = acc.moves[q]
    BY <1>5
  <2>3. PICK fs, ft, fz \in Nat : fs = f.src /\ ft = f.dst /\ fz = f.size
    BY MoveFacts
  <2>4. p \in Nat
    <3>1. acc.updated \in Seq([offset : Nat, id : Ids(n)]) /\ Len(acc.updated) = m /\ m \in Nat
      BY DEF CompactedTo, Reports, Placed, LeftToRight
    <3>2. PICK up, R : up = acc.updated /\ R = [offset : Nat, id : Ids(n)]
      OBVIOUS
    <3>3. up \in Seq(R) /\ j \in 1 .. Len(up)
      BY <3>1, <3>2
    <3>4. up[j] \in R
      BY <3>3
    <3> QED BY <1>7, <3>2, <3>4
  <2>5. fs <= o /\ o + s <= fs + fz /\ p + fs = o + ft
    BY <2>1, <2>2, <2>3
  <2>6. p + x \in ft .. ft + fz - 1
    <3>1. PICK w \in Nat : w = p
      BY <2>4
    <3>2. o + s <= fs + fz /\ w + fs = o + ft /\ fs <= o
      BY <2>5, <3>1
    <3>3. w + z >= ft /\ w + z < ft + fz
      BY <1>4, <3>2
    <3> QED BY <1>4, <3>1, <3>3
  <2>7. p + x \in Into(f)
    BY <2>3, <2>6 DEF Into
  <2>8. PICK k \in 1 .. c : p + x \in Into(copies[k]) /\ PartOf(copies[k], acc.moves[q])
    BY <1>5, <1>6, <2>2, <2>7 DEF CutSoFar
  <2>9. PICK e \in LeftMoves : e = copies[k]
    BY <1>6
  <2>10. PICK es, et \in Nat : es = e.src /\ et = e.dst
    BY MoveFacts
  <2>11. es - et = fs - ft
    BY <2>2, <2>3, <2>8, <2>9, <2>10 DEF PartOf
  <2>12. after[p + x] = memory[(p + x) - et + es]
    BY <1>6, <2>8, <2>9, <2>10 DEF CopiedSoFar
  <2>13. (p + x) - et + es = o + x
    <3>1. PICK w \in Nat : w = p
      BY <2>4
    <3>2. w + fs = o + ft
      BY <2>5, <3>1
    <3>3. (w + z) - et + es = o + z
      BY <2>11, <3>2
    <3> QED BY <1>4, <3>1, <3>3
  <2> QED BY <1>1, <1>2, <1>7, <2>12, <2>13
<1>10. Stays(p, acc.moves, r, id) \/ Goes(p, acc.moves, r, id)
  BY <1>1, <1>7 DEF CompactedTo, Placed
<1> QED BY <1>8, <1>9, <1>10

HeldOf(r) == { [id |-> i, offset |-> OffsetOf(r, i), size |-> SizeOf(r, i)] : i \in UsedIds(r) }

Bytes(given, x) ==
  { <<a.id, x - a.offset>> : a \in { b \in given : x \in b.offset .. b.offset + b.size - 1 } }

\* A byte of a node in use belongs to no other.
LEMMA OwnBytes ==
  ASSUME Ram!MiniRamAssumption, NEW n, NEW r, Compactable(r, n), NEW i \in UsedIds(r),
         NEW x \in 0 .. SizeOf(r, i) - 1
  PROVE  OffsetOf(r, i) + x \in 0 .. Capacity - 1 /\ Bytes(HeldOf(r), OffsetOf(r, i) + x) = {<<i, x>>}
<1>1. /\ Capacity \in Nat
      /\ \A j \in UsedIds(r) : /\ OffsetOf(r, j) \in Nat /\ SizeOf(r, j) \in Nat
                               /\ PastOf(r, j) = OffsetOf(r, j) + SizeOf(r, j) /\ PastOf(r, j) <= Capacity
  BY UsedFacts DEF Compactable
<1>2. PICK o, s, z \in Nat : o = OffsetOf(r, i) /\ s = SizeOf(r, i) /\ z = x /\ z < s /\ o + s <= Capacity
  <2>1. PICK o, s \in Nat : o = OffsetOf(r, i) /\ s = SizeOf(r, i) /\ o + s <= Capacity
    BY <1>1
  <2>2. x \in 0 .. s - 1
    BY <2>1
  <2>3. x \in Nat /\ x < s
    BY <2>1, <2>2
  <2> QED BY <2>1, <2>3
<1>3. PICK y \in Nat : y = o + z /\ y \in 0 .. Capacity - 1
  BY <1>1, <1>2
<1>4. PICK a : a = [id |-> i, offset |-> o, size |-> s]
  OBVIOUS
<1>5. a \in HeldOf(r) /\ a.id = i /\ a.offset = o /\ a.size = s
  BY <1>2, <1>4 DEF HeldOf
<1>6. y \in a.offset .. a.offset + a.size - 1
  BY <1>2, <1>3, <1>5
<1>7. ASSUME NEW b \in HeldOf(r), y \in b.offset .. b.offset + b.size - 1
      PROVE  b = a
  <2>1. PICK j \in UsedIds(r) : b = [id |-> j, offset |-> OffsetOf(r, j), size |-> SizeOf(r, j)]
    BY DEF HeldOf
  <2>2. CASE j = i
    BY <1>2, <1>4, <2>1, <2>2
  <2>3. CASE j # i
    <3>1. PICK p, t \in Nat : p = OffsetOf(r, j) /\ t = SizeOf(r, j) /\ PastOf(r, j) = p + t
                              /\ PastOf(r, i) = o + s
      BY <1>1, <1>2
    <3>2. (o <= p => o + s <= p) /\ (p <= o => p + t <= o)
      BY <1>2, <2>3, <3>1 DEF Compactable
    <3>3. y \in p .. p + t - 1
      BY <1>7, <2>1, <3>1
    <3>4. p <= y /\ y < p + t
      BY <3>1, <3>3
    <3> QED BY <1>2, <1>3, <3>1, <3>2, <3>4
  <2> QED BY <2>2, <2>3
<1>8. { b \in HeldOf(r) : y \in b.offset .. b.offset + b.size - 1 } = {a}
  BY <1>5, <1>6, <1>7
<1>9. Bytes(HeldOf(r), y) = {<<a.id, y - a.offset>>}
  BY <1>8 DEF Bytes
<1>10. y - a.offset = x
  BY <1>2, <1>3, <1>5
<1> QED BY <1>2, <1>3, <1>5, <1>9, <1>10

LEMMA DataKept ==
  ASSUME Ram!MiniRamAssumption, NEW n, Compactable(ram, n), ram.capacity = Capacity, allocs = HeldOf(ram)
  PROVE  Ram!CompactionKeepsData
<1>1. PICK r : r = ram
  OBVIOUS
<1>2. PICK order, m, acc :
        /\ LeftToRight(order, r, m) /\ CompactedTo(acc, r, n, order, m)
        /\ Ram!CompactUsedNodes(r).moves = acc.moves /\ Ram!CompactUsedNodes(r).updated = acc.updated
  BY <1>1, CompactedIs
<1>3. PICK copies, told :
        copies = Ram!ToDisjunctCopies(told.moves) /\ told = Ram!Defragment(ram, ram.capacity)
  OBVIOUS
<1>4. told.moves = acc.moves /\ told.updatedAllocs = acc.updated
  BY <1>1, <1>2, <1>3 DEF Ram!Defragment
<1>5. CutSoFar(copies, acc.moves, Len(acc.moves))
  <2>1. PICK moves \in Seq(LeftMoves) : moves = acc.moves /\ InTurn(moves)
    BY <1>2 DEF CompactedTo, MovedSoFar
  <2> QED BY <1>3, <1>4, <2>1, ToDisjunctCopiesIs
<1>6. PICK before : before = [x \in 0 .. Capacity - 1 |-> Bytes(allocs, x)]
  OBVIOUS
<1>7. PICK after : after = Ram!CarriedOut(before, copies) /\ CopiedSoFar(before, after, copies, Len(copies))
  <2>1. PICK T : T = { before[x] : x \in 0 .. Capacity - 1 }
    OBVIOUS
  <2>2. before \in [0 .. Capacity - 1 -> T]
    BY <1>6, <2>1
  <2>3. copies \in Seq(LeftMoves) /\ InTurn(copies)
    BY <1>5 DEF CutSoFar
  <2> QED BY <2>2, <2>3, CarriedOutIs
<1>8. PICK moved : moved = Ram!Listed(told.updatedAllocs)
  OBVIOUS
<1>9. /\ m \in Nat /\ order \in [1 .. m -> UsedIds(r)]
      /\ \A i \in UsedIds(r) : \E k \in 1 .. m : order[k] = i
  BY <1>2 DEF LeftToRight
<1>10. DOMAIN acc.updated = 1 .. m /\ \A k \in 1 .. m : acc.updated[k].id = order[k]
  <2>1. acc.updated \in Seq([offset : Nat, id : Ids(n)]) /\ Len(acc.updated) = m
        /\ \A k \in 1 .. m : acc.updated[k].id = order[k]
    BY <1>2 DEF CompactedTo, Reports, Placed
  <2>2. DOMAIN acc.updated = 1 .. m
    BY <2>1
  <2> QED BY <2>1, <2>2
<1>11. moved = { acc.updated[k] : k \in 1 .. m }
  BY <1>4, <1>8, <1>10 DEF Ram!Listed
<1>12. \A a \in allocs : a.id \in UsedIds(r) /\ a.offset = OffsetOf(r, a.id) /\ a.size = SizeOf(r, a.id)
  BY <1>1 DEF HeldOf
<1>13. \A i \in UsedIds(r) : \E a \in allocs : a.id = i
  <2> TAKE i \in UsedIds(r)
  <2>1. PICK a : a = [id |-> i, offset |-> OffsetOf(r, i), size |-> SizeOf(r, i)]
    OBVIOUS
  <2>2. a \in allocs /\ a.id = i
    BY <1>1, <2>1 DEF HeldOf
  <2> QED BY <2>2
\* The copies do not overlap.
<1>14. \A k \in DOMAIN copies : copies[k].src >= copies[k].dst + copies[k].size
  BY <1>5 DEF CutSoFar
\* The same allocations.
<1>15. { u.id : u \in moved } = { a.id : a \in allocs }
  <2>1. { u.id : u \in moved } = UsedIds(r)
    BY <1>9, <1>10, <1>11
  <2>2. { a.id : a \in allocs } = UsedIds(r)
    BY <1>12, <1>13
  <2> QED BY <2>1, <2>2
\* Their data.
<1>16. ASSUME NEW u \in moved, NEW a \in { b \in allocs : b.id = u.id }, NEW x \in 0 .. a.size - 1
       PROVE  after[u.offset + x] = {<<a.id, x>>}
  <2>1. PICK j \in 1 .. m : u = acc.updated[j] /\ u.id = order[j]
    BY <1>10, <1>11
  <2>2. PICK i \in UsedIds(r) : i = a.id /\ i = order[j] /\ a.size = SizeOf(r, i)
    BY <1>12, <2>1
  <2>3. x \in 0 .. SizeOf(r, i) - 1 /\ x \in 0 .. SizeOf(r, order[j]) - 1
    BY <1>16, <2>2
  <2>4. after[acc.updated[j].offset + x] = before[OffsetOf(r, order[j]) + x]
    BY <1>1, <1>2, <1>5, <1>7, <2>3, DataFollow
  <2>5. OffsetOf(r, i) + x \in 0 .. Capacity - 1 /\ Bytes(HeldOf(r), OffsetOf(r, i) + x) = {<<i, x>>}
    BY <1>1, <2>3, OwnBytes
  <2>6. before[OffsetOf(r, i) + x] = {<<i, x>>}
    BY <1>1, <1>6, <2>5
  <2> QED BY <2>1, <2>2, <2>4, <2>6
\* No gap between them.
<1>17. ASSUME NEW u \in moved, NEW x \in 0 .. u.offset - 1
       PROVE  \E v \in moved : \E a \in { b \in allocs : b.id = v.id } :
                x \in v.offset .. v.offset + a.size - 1
  <2>1. PICK j \in 1 .. m : u = acc.updated[j]
    BY <1>11
  <2>2. PICK up, R : up = acc.updated /\ R = [offset : Nat, id : Ids(n)]
    OBVIOUS
  <2>3. up \in Seq(R) /\ \A k \in 1 .. m : k \in 1 .. Len(up)
    BY <1>2, <2>2 DEF CompactedTo, Reports, Placed
  <2>4. \A k \in 1 .. m : up[k] \in R
    BY <2>3
  <2>5. \A k \in 1 .. m : acc.updated[k].offset \in Nat
    BY <2>2, <2>4
  <2>6. \A k \in 1 .. m : order[k] \in UsedIds(r) /\ SizeOf(r, order[k]) \in Nat
    BY <1>1, <1>9, UsedFacts
  <2>7. x \in 0 .. acc.offset - 1
    <3>1. acc.updated[j].offset + SizeOf(r, order[j]) <= acc.offset /\ acc.offset \in Nat
      BY <1>2 DEF CompactedTo, Placed, Reports
    <3>2. PICK f, s, e \in Nat : f = u.offset /\ s = SizeOf(r, order[j]) /\ e = acc.offset /\ f + s <= e
      BY <2>1, <2>5, <2>6, <3>1
    <3>3. x \in 0 .. f - 1
      BY <1>17, <3>2
    <3>4. x \in 0 .. e - 1
      BY <3>2, <3>3
    <3> QED BY <3>2, <3>4
  <2>8. PICK k \in 1 .. m : /\ acc.updated[k].offset <= x
                            /\ x < acc.updated[k].offset + SizeOf(r, order[k])
    BY <1>2, <2>7 DEF CompactedTo, NoGap
  <2>9. PICK v \in moved : v = acc.updated[k] /\ v.id = order[k]
    BY <1>10, <1>11
  <2>10. PICK a \in allocs : a.id = order[k] /\ a.size = SizeOf(r, order[k])
    BY <1>12, <1>13, <2>6
  <2>11. x \in v.offset .. v.offset + a.size - 1
    <3>1. PICK f, s \in Nat : f = v.offset /\ s = a.size
      BY <2>5, <2>6, <2>9, <2>10
    <3>2. x \in Int /\ f <= x /\ x < f + s
      BY <2>7, <2>8, <2>9, <2>10, <3>1
    <3>3. x \in f .. f + s - 1
      BY <3>2
    <3> QED BY <3>1, <3>3
  <2> QED BY <2>9, <2>10, <2>11
<1>18. before = [x \in 0 .. ram.capacity - 1 |->
                   { <<a.id, x - a.offset>> :
                       a \in { b \in allocs : x \in b.offset .. b.offset + b.size - 1 } }]
  <2>1. before = [x \in 0 .. Capacity - 1 |->
                     { <<a.id, x - a.offset>> :
                         a \in { b \in allocs : x \in b.offset .. b.offset + b.size - 1 } }]
    BY <1>6, Zenon DEF Bytes
  <2>2. ram.capacity = Capacity
    OBVIOUS
  <2> QED BY <2>1, <2>2, Zenon
<1> DEFINE told0 == Ram!Defragment(ram, ram.capacity)
           copies0 == Ram!ToDisjunctCopies(told0.moves)
           before0 == [x \in 0 .. ram.capacity - 1 |->
                         { <<a.id, x - a.offset>> :
                             a \in { b \in allocs : x \in b.offset .. b.offset + b.size - 1 } }]
           after0 == Ram!CarriedOut(before0, copies0)
           moved0 == Ram!Listed(told0.updatedAllocs)
           Kept(c, f, mv) ==
             /\ \A k \in DOMAIN c : c[k].src >= c[k].dst + c[k].size
             /\ { u.id : u \in mv } = { a.id : a \in allocs }
             /\ \A u \in mv : \A a \in { b \in allocs : b.id = u.id } :
                  \A x \in 0 .. a.size - 1 : f[u.offset + x] = {<<a.id, x>>}
             /\ \A u \in mv : \A x \in 0 .. u.offset - 1 :
                  \E v \in mv : \E a \in { b \in allocs : b.id = v.id } :
                    x \in v.offset .. v.offset + a.size - 1
<1>19. Kept(copies, after, moved)
  BY <1>14, <1>15, <1>16, <1>17
<1>20. copies0 = copies /\ after0 = after /\ moved0 = moved
  <2>1. told0 = told
    BY <1>3
  <2>2. before0 = before
    BY <1>18
  <2> HIDE DEF told0, before0
  <2> QED BY <1>3, <1>7, <1>8, <2>1, <2>2
<1>21. Kept(copies0, after0, moved0) => Ram!CompactionKeepsData
  BY DEF Ram!CompactionKeepsData
<1> HIDE DEF Kept, copies0, after0, moved0
<1> QED BY <1>19, <1>20, <1>21

LEMMA InvCompaction ==
  ASSUME Ram!MiniRamAssumption, Inv
  PROVE  Ram!CompactionKeepsData
<1>1. PICK n : Whole(ram, allocs, n)
  BY DEF Inv
<1>2. PICK r : r = ram
  OBVIOUS
<1>3. n \in Nat /\ Core(r, n) /\ allocs = HeldBy(r)
  BY <1>1, <1>2 DEF Whole
<1>4. PICK L : L = Ram!LiveIds(r)
  OBVIOUS
<1>5. PICK first : Chain(r.nodes, L, first)
  BY <1>1, <1>2, <1>4 DEF Whole
<1>6. /\ Shaped(r, n) /\ r.nodes \in [Ids(n) -> Node] /\ DOMAIN r.nodes = Ids(n) /\ L \subseteq Ids(n)
      /\ Ram!Holes(r) = { i \in L : ~r.nodes[i].used } /\ Numbers(r.nodes, L)
  BY <1>3, <1>4, CoreFacts
<1>7. r.capacity = Capacity
  BY <1>6 DEF Shaped
<1>8. UsedIds(r) \subseteq L
  BY <1>3, <1>4, <1>6 DEF Core, UsedIds
<1>9. UsedIds(r) = L \ Ram!Holes(r)
  BY <1>6, <1>8 DEF UsedIds
<1>10. Compactable(r, n)
  <2>1. PICK node : node = r.nodes
    OBVIOUS
  <2>2. \A i, j \in L : i # j /\ node[i].dataOffset <= node[j].dataOffset =>
          node[i].dataOffset + node[i].dataSize <= node[j].dataOffset
    BY <1>5, <1>6, <2>1, ChainApart
  <2>3. \A i \in L : node[i].dataOffset + node[i].dataSize <= Capacity
    BY <1>5, <2>1 DEF Chain
  <2>4. \A i \in UsedIds(r) : PastOf(r, i) <= Capacity
    BY <1>8, <2>1, <2>3 DEF PastOf, OffsetOf, SizeOf
  <2>5. \A i, j \in UsedIds(r) :
          i # j /\ OffsetOf(r, i) <= OffsetOf(r, j) => PastOf(r, i) <= OffsetOf(r, j)
    BY <1>8, <2>1, <2>2 DEF PastOf, OffsetOf, SizeOf
  <2> QED BY <1>3, <1>6, <2>4, <2>5 DEF Compactable
<1>11. HeldBy(r) = HeldOf(r)
  BY <1>4, <1>9 DEF HeldBy, HeldOf, OffsetOf, SizeOf
<1>12. Compactable(ram, n) /\ ram.capacity = Capacity /\ allocs = HeldOf(ram)
  BY <1>2, <1>3, <1>7, <1>10, <1>11
<1> QED BY <1>12, DataKept

-----------------------------------------------------------------------------
(* The allocator among the parts.                                          *)

\* A step of another part is none of the allocator's.
LEMMA RamRuns == [Next]_vars => [Ram!Next]_Ram!vars
<1>1. RamCall => Ram!Next
  BY DEF RamCall
<1>2. ASSUME NEW name, name # "ram", Only(name) PROVE UNCHANGED ramVars
  BY <1>2 DEF Only
<1>3. ASSUME Next, ~RamCall PROVE UNCHANGED ramVars
  <2>1. PICK name : name # "ram" /\ Only(name)
    BY <1>3 DEF Next, RingStep, PoolCall, ForestCall, OwnerCall, PolyCall, CoroStep,
         FenceStep, SwitchStep, SocketStep, AssignTurn, StreamCall, LogStep
  <2> QED BY <1>2, <2>1
<1>4. UNCHANGED vars => UNCHANGED ramVars
  BY DEF vars
<1>5. UNCHANGED ramVars => UNCHANGED Ram!vars
  BY DEF ramVars, Ram!vars
<1> QED BY <1>1, <1>3, <1>4, <1>5

(***************************************************************************)
(* For every capacity, mantissa and set of requests, and however often the *)
(* object is asked to grow: the nodes tile the RAM and the free ids are    *)
(* honest, every hole is in the list of its bin and of no other, and       *)
(* allocatable tells the truth (miniram.inl:8-158, 211-372).               *)
(***************************************************************************)
THEOREM RamSoundAlways == Spec => []RamSound
<1>1. Ram!MiniRamAssumption
  BY CthAssumption
<1>2. Init => Inv
  <2>1. Init => Ram!Init
    BY DEF Init
  <2> QED BY <1>1, <2>1, InitInv
<1>3. Inv /\ [Next]_vars => Inv'
  BY <1>1, RamRuns, StepKeeps
<1>4. Inv => RamSound
  BY <1>1, InvTiled, InvBins, InvAllocatable DEF RamSound
<1> QED BY <1>2, <1>3, <1>4, PTL DEF Spec

(***************************************************************************)
(* Whoever carries out the moves of a defragmentation, cut by              *)
(* to_disjunct_copies, in the order reported, finds the data of every      *)
(* allocation where the report says, however the RAM was used before       *)
(* (miniram.inl:160-209, 446-515).                                         *)
(***************************************************************************)
THEOREM CompactionKeepsDataAlways == Spec => []CompactionKeepsData
<1>1. Ram!MiniRamAssumption
  BY CthAssumption
<1>2. Init => Inv
  <2>1. Init => Ram!Init
    BY DEF Init
  <2> QED BY <1>1, <2>1, InitInv
<1>3. Inv /\ [Next]_vars => Inv'
  BY <1>1, RamRuns, StepKeeps
<1>4. Inv => CompactionKeepsData
  BY <1>1, InvCompaction DEF CompactionKeepsData
<1> QED BY <1>2, <1>3, <1>4, PTL DEF Spec
=============================================================================
