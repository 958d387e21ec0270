------------------------- MODULE RelicBridge_proofs -------------------------
(***************************************************************************)
(* The RELIC bridge, for every prime, every number of scalars, and         *)
(* whichever allocation or call of RELIC fails: the blocks a call leaves   *)
(* allocated, and the verdict of upsi_relic_bucket_verify_x.               *)
(***************************************************************************)
EXTENDS RelicBridge, TLAPS, WellFoundedInduction

(* Blocks of different names are different blocks, and an array has a      *)
(* block of its own.                                                       *)
LEMMA Apart ==
  ASSUME NEW k \in Nat
  PROVE  /\ XBn(k) \cap (Fixed \cup Points(k)) = {}
         /\ Locals \cap (Fixed \cup Points(k)) = {}
         /\ <<"s", 0>> \in Points(k) /\ <<"d", 0>> \in Points(k)
BY DEF XBn, Fixed, Points, Array, Locals

LEMMA Sizes ==
  ASSUME NEW s \in ScalarLists
  PROVE  Len(s) \in Nat /\ Len(s) >= 2
<1>1. PICK k \in 2 .. MaxX : s \in [1 .. k -> Scalars]
  BY DEF ScalarLists
<1>2. k \in Nat /\ s \in Seq(Scalars) /\ Len(s) = k
  BY <1>1, RelicBridgeAssumption
<1> QED
  BY <1>1, <1>2, RelicBridgeAssumption

(* What is allocated at every point of a call. *)
HeapAt ==
  /\ x \in ScalarLists
  /\ handle # NoHandle => handle.nx = nx
  /\ pc \in {"idle", "points", "scalars", "ask", "parse", "point", "pair"}
  /\ pc \in {"points", "scalars", "ask"} => handle = NoHandle
  /\ pc \in {"parse", "point", "pair"} => handle # NoHandle
  /\ heap = IF pc = "points" THEN Fixed
            ELSE IF pc = "scalars" THEN Fixed \cup Points(nx)
            ELSE IF pc = "ask" THEN Fixed \cup Points(nx) \cup XBn(nx)
            ELSE IF pc \in {"point", "pair"}
              THEN Fixed \cup Points(nx) \cup Locals
            ELSE IF handle = NoHandle THEN {} ELSE Fixed \cup Points(nx)

(* A call's step keeps the blocks in step with the control state: every    *)
(* failing step of create frees what the steps before it allocated.        *)
LEMMA HeapStep == HeapAt /\ [Next]_vars => HeapAt'
<1> SUFFICES ASSUME HeapAt, [Next]_vars PROVE HeapAt'
  OBVIOUS
<1> USE DEF HeapAt
<1>a. nx \in Nat /\ nx >= 2
  BY Sizes DEF nx
<1>b. /\ XBn(nx) \cap (Fixed \cup Points(nx)) = {}
      /\ Locals \cap (Fixed \cup Points(nx)) = {}
      /\ <<"s", 0>> \in Points(nx) /\ <<"d", 0>> \in Points(nx)
  BY <1>a, Apart
<1>1. ASSUME NEW scalars \in ScalarLists, CreateCtx(scalars)
      PROVE  HeapAt'
  <2>1. /\ pc = "idle" /\ handle = NoHandle /\ x' = scalars
        /\ handle' = handle /\ heap = {}
        /\ \/ pc' = "idle" /\ heap' = heap
           \/ pc' = "points" /\ heap' = Fixed
    BY <1>1 DEF CreateCtx
  <2> QED
    BY <2>1
<1>2. CASE CreatePoints
  <2>1. /\ pc = "points" /\ x' = x /\ handle' = handle
        /\ \/ pc' = "scalars" /\ heap' = heap \cup Points(nx)
           \/ \E got \in {{}, {<<"s", 0>>}, {<<"d", 0>>}} :
                /\ heap' = Destroyed(heap \cup got, nx)
                /\ pc' = "idle"
    BY <1>2 DEF CreatePoints
  <2>2. nx' = nx
    BY <2>1 DEF nx
  <2>3. CASE pc' = "scalars" /\ heap' = heap \cup Points(nx)
    BY <2>1, <2>2, <2>3
  <2>4. ASSUME NEW got \in {{}, {<<"s", 0>>}, {<<"d", 0>>}}, pc' = "idle",
               heap' = Destroyed(heap \cup got, nx)
        PROVE  HeapAt'
    <3>1. got \subseteq Points(nx)
      BY <1>b
    <3>2. heap' = {}
      BY <2>1, <2>4, <3>1 DEF Destroyed
    <3> QED
      BY <2>1, <2>4, <3>2
  <2> QED
    BY <2>1, <2>3, <2>4
<1>3. CASE CreateScalars
  <2>1. /\ pc = "scalars" /\ x' = x /\ handle' = handle
        /\ \/ pc' = "ask" /\ heap' = heap \cup XBn(nx)
           \/ pc' = "idle" /\ heap' = Destroyed(heap, nx)
    BY <1>3 DEF CreateScalars
  <2>2. nx' = nx
    BY <2>1 DEF nx
  <2>3. Destroyed(heap, nx) = {}
    BY <2>1 DEF Destroyed
  <2> QED
    BY <2>1, <2>2, <2>3
<1>4. CASE CreateAskFails
  <2>1. /\ pc = "ask" /\ x' = x /\ handle' = handle /\ pc' = "idle"
        /\ heap' = Destroyed(heap \ XBn(nx), nx)
    BY <1>4 DEF CreateAskFails
  <2>2. heap' = {}
    BY <2>1 DEF Destroyed
  <2> QED
    BY <2>1, <2>2
<1>5. CASE CreateAsk
  <2>1. /\ pc = "ask" /\ x' = x /\ pc' = "idle"
        /\ heap' = heap \ XBn(nx)
        /\ handle'.nx = nx
    BY <1>5 DEF CreateAsk
  <2>2. handle' # NoHandle
    BY <1>a, <2>1 DEF NoHandle
  <2>3. heap' = Fixed \cup Points(nx)
    BY <1>b, <2>1
  <2>4. nx' = nx
    BY <2>1 DEF nx
  <2> QED
    BY <2>1, <2>2, <2>3, <2>4
<1>6. CASE Destroy
  <2>1. /\ pc = "idle" /\ handle # NoHandle /\ handle' = NoHandle
        /\ heap' = Destroyed(heap, handle.nx) /\ pc' = pc /\ x' = x
    BY <1>6 DEF Destroy
  <2>2. heap' = {}
    BY <2>1 DEF Destroyed
  <2> QED
    BY <2>1, <2>2
<1>7. ASSUME NEW y \in Scalars, Sign(y)
      PROVE  HeapAt'
  <2>1. pc' = pc /\ heap' = heap /\ x' = x /\ handle' = handle
    BY <1>7 DEF Sign
  <2> QED
    BY <2>1 DEF nx
<1>8. ASSUME NEW i \in 1 .. MaxX + 1, NEW load \in {payload} \cup Junk,
             VerifyBegin(i, load)
      PROVE  HeapAt'
  <2>1. /\ pc = "idle" /\ handle # NoHandle /\ pc' \in {"idle", "parse"}
        /\ heap' = heap /\ x' = x /\ handle' = handle
    BY <1>8 DEF VerifyBegin
  <2> QED
    BY <2>1 DEF nx
<1>9. CASE VerifyParse
  <2>1. /\ pc = "parse" /\ x' = x /\ handle' = handle
        /\ \/ pc' = "idle" /\ heap' = heap
           \/ pc' = "point" /\ heap' = heap \cup Locals
    BY <1>9 DEF VerifyParse
  <2> QED
    BY <2>1 DEF nx
<1>10. CASE VerifyPoint \/ VerifyPair
  <2>1. /\ pc \in {"point", "pair"} /\ x' = x /\ handle' = handle
        /\ \/ pc' = "pair" /\ heap' = heap
           \/ pc' = "idle" /\ heap' = heap \ Locals
    BY <1>10 DEF VerifyPoint, VerifyPair
  <2>2. heap \ Locals = Fixed \cup Points(nx)
    BY <1>b, <2>1
  <2> QED
    BY <2>1, <2>2 DEF nx
<1>11. CASE UNCHANGED vars
  BY <1>11 DEF vars, nx
<1> QED
  BY <1>1, <1>2, <1>3, <1>4, <1>5, <1>6, <1>7, <1>8, <1>9, <1>10, <1>11
  DEF Next, Continue

(* Between two calls exactly the handle's blocks are allocated.            *)
THEOREM HeapAlwaysExact == Spec => []HeapExact
<1>1. Init => HeapAt
  BY DEF Init, HeapAt
<1>2. HeapAt => HeapExact
  BY DEF HeapAt, HeapExact
<1> QED
  BY <1>1, <1>2, HeapStep, PTL DEF Spec

----------------------------------------------------------------------------
(* Remainders, with a divisor that is not a number. *)

(* What the solver does not see through once the factors are terms. *)
LEMMA Distribute ==
  ASSUME NEW a \in Int, NEW b \in Int, NEW c \in Int
  PROVE  /\ (a + b) * c = a * c + b * c
         /\ (a - b) * c = a * c - b * c
         /\ c * (a + b) = a * c + b * c
         /\ (a * b) * c = a * (b * c)
         /\ a * b = b * a
         /\ a * b \in Int
OBVIOUS

(* Division leaves a remainder below the divisor, *)
LEMMA Remainder ==
  ASSUME NEW N \in Nat \ {0}, NEW a \in Int
  PROVE  \E k \in Int, r \in 0 .. N - 1 : a = k * N + r /\ a % N = r
<1>1. a % N \in 0 .. N - 1
  OBVIOUS
<1>2. a \div N \in Int
  OBVIOUS
<1>3. a % N = a - N * (a \div N)
  OBVIOUS
<1> DEFINE q == a \div N
           r == a % N
<1> HIDE DEF q, r
<1>4. q \in Int /\ r \in 0 .. N - 1 /\ r = a - N * q
  BY <1>1, <1>2, <1>3 DEF q, r
<1>5. N * q = q * N
  BY <1>4
<1>6. a = q * N + r /\ a % N = r
  BY <1>4, <1>5 DEF r
<1> QED
  BY <1>4, <1>6

(* and only one number below the divisor is it. *)
LEMMA RemainderUnique ==
  ASSUME NEW N \in Nat \ {0}, NEW k \in Int, NEW r \in 0 .. N - 1
  PROVE  (k * N + r) % N = r
<1>1. k * N + r \in Int
  OBVIOUS
<1>2. PICK l \in Int, s \in 0 .. N - 1 :
        k * N + r = l * N + s /\ (k * N + r) % N = s
  BY <1>1, Remainder
<1>4. (k - l) * N = s - r
  <2>1. (k - l) * N = k * N - l * N
    BY Distribute
  <2> QED
    BY <1>2, <2>1
<1>5. k = l
  <2>1. CASE k > l
    <3>1. (k - l) * N >= N
      BY <2>1
    <3> QED
      BY <3>1, <1>4
  <2>2. CASE k < l
    <3>1. (l - k) * N >= N
      BY <2>2
    <3>2. (l - k) * N = r - s
      BY <1>4
    <3> QED
      BY <3>1, <3>2
  <2> QED
    BY <2>1, <2>2
<1> QED
  BY <1>2, <1>5

LEMMA RemainderShift ==
  ASSUME NEW N \in Nat \ {0}, NEW a \in Int, NEW k \in Int
  PROVE  (a + k * N) % N = a % N
<1>1. PICK l \in Int, r \in 0 .. N - 1 : a = l * N + r /\ a % N = r
  BY Remainder
<1>2. (k + l) * N = k * N + l * N
  BY Distribute
<1>3. a + k * N = (k + l) * N + r
  BY <1>1, <1>2
<1>4. k + l \in Int
  OBVIOUS
<1>5. ((k + l) * N + r) % N = r
  BY <1>4, RemainderUnique
<1> QED
  BY <1>1, <1>3, <1>5

LEMMA RemainderTimes ==
  ASSUME NEW N \in Nat \ {0}, NEW a \in Int, NEW b \in Int
  PROVE  (a * (b % N)) % N = (a * b) % N
<1>1. PICK l \in Int, r \in 0 .. N - 1 : b = l * N + r /\ b % N = r
  BY Remainder
<1>2. a * (l * N + r) = a * r + (a * l) * N
  OBVIOUS
<1>4. a * r \in Int /\ a * l \in Int
  OBVIOUS
<1>5. (a * r + (a * l) * N) % N = (a * r) % N
  BY <1>4, RemainderShift
<1> QED
  BY <1>1, <1>2, <1>5

----------------------------------------------------------------------------
(* A set that holds 0 and with a number the next one holds them all. *)
LEMMA CountUp ==
  ASSUME NEW S, 0 \in S, \A n \in Nat : n \in S => n + 1 \in S
  PROVE  Nat \subseteq S
<1> SUFFICES ASSUME NEW k \in Nat \ S PROVE FALSE
  OBVIOUS
<1> DEFINE R == OpToRel(<, Nat)
           Missing == Nat \ S
<1>1. \E c \in Missing : \A d \in Missing : ~(<<d, c>> \in R)
  <2>1. Missing \subseteq Nat /\ Missing # {}
    OBVIOUS
  <2> HIDE DEF R, Missing
  <2> QED
    BY <2>1, NatLessThanWellFounded, WFMin, Zenon DEF R
<1>2. PICK c \in Missing : \A d \in Missing : ~(<<d, c>> \in R)
  BY <1>1
<1>3. c # 0 /\ c - 1 \in Nat /\ c - 1 < c
  OBVIOUS
<1>4. <<c - 1, c>> \in R
  BY <1>3 DEF OpToRel
<1>5. c - 1 \in S
  <2> HIDE DEF R
  <2> QED
    BY <1>2, <1>3, <1>4
<1>6. (c - 1) + 1 \in S
  BY <1>3, <1>5
<1> QED
  BY <1>6

(* One more factor of the product: none for the scalar that is left out. *)
Factor(v, sk, i, j) == IF j = i THEN v ELSE (v * (sk - x[j])) % p

(* The products of the first scalars, as far as n. *)
Partial(f, sk, i, n) ==
  f = [j \in 0 .. n |-> IF j = 0 THEN 1 ELSE Factor(f[j - 1], sk, i, j)]

LEMMA PartialExists ==
  ASSUME NEW sk, NEW i, NEW n \in Nat
  PROVE  \E f : Partial(f, sk, i, n)
<1> DEFINE S == {k \in Nat : \E f : Partial(f, sk, i, k)}
<1>1. 0 \in S
  <2>1. Partial([j \in 0 .. 0 |-> 1], sk, i, 0)
    BY DEF Partial
  <2> QED
    BY <2>1
<1>2. ASSUME NEW k \in Nat, k \in S
      PROVE  k + 1 \in S
  <2>1. PICK f : Partial(f, sk, i, k)
    BY <1>2
  <2> DEFINE g == [j \in 0 .. k + 1 |->
                     IF j = k + 1 THEN Factor(f[k], sk, i, k + 1) ELSE f[j]]
  <2>2. ASSUME NEW j \in 0 .. k + 1
        PROVE  g[j] = IF j = 0 THEN 1 ELSE Factor(g[j - 1], sk, i, j)
    <3>1. CASE j = k + 1
      <4>1. g[j - 1] = f[k]
        BY <3>1
      <4> QED
        BY <3>1, <4>1
    <3>2. CASE j \in 0 .. k
      <4>1. f[j] = IF j = 0 THEN 1 ELSE Factor(f[j - 1], sk, i, j)
        BY <2>1, <3>2 DEF Partial
      <4>2. g[j] = f[j] /\ (j # 0 => g[j - 1] = f[j - 1])
        BY <3>2
      <4> QED
        BY <4>1, <4>2
    <3> QED
      BY <3>1, <3>2
  <2>3. g = [j \in 0 .. k + 1 |->
               IF j = 0 THEN 1 ELSE Factor(g[j - 1], sk, i, j)]
    <3>1. g = [j \in 0 .. k + 1 |-> g[j]]
      OBVIOUS
    <3> HIDE DEF g
    <3> QED
      BY <2>2, <3>1
  <2>4. Partial(g, sk, i, k + 1)
    <3> HIDE DEF g
    <3> QED
      BY <2>3 DEF Partial
  <2> QED
    BY <2>4
<1>3. Nat \subseteq S
  <2> HIDE DEF S
  <2> QED
    BY <1>1, <1>2, CountUp
<1> QED
  BY <1>3

LEMMA ProductIsPartial ==
  ASSUME NEW sk, NEW i, nx \in Nat
  PROVE  \E f : Partial(f, sk, i, nx) /\ ProductBut(sk, i) = f[nx]
<1> DEFINE f == CHOOSE f : Partial(f, sk, i, nx)
<1>1. Partial(f, sk, i, nx)
  BY PartialExists
<1>2. ProductBut(sk, i) = f[nx]
  BY DEF ProductBut, Partial, Factor
<1> QED
  BY <1>1, <1>2

(* The product is an exponent, and the whole product is the one without a  *)
(* scalar times the scalar's factor.                                       *)
LEMMA ProductSplits ==
  ASSUME NEW sk \in Exponents, NEW i \in 1 .. nx, nx \in Nat,
         \A j \in 1 .. nx : x[j] \in Exponents
  PROVE  /\ ProductBut(sk, i) \in Exponents
         /\ ProductBut(sk, 0) = (ProductBut(sk, i) * (sk - x[i])) % p
<1> DEFINE N == nx
<1>p. p \in Nat \ {0} /\ 1 \in Exponents /\ Exponents \subseteq Int /\ N \in Nat
  BY RelicBridgeAssumption DEF Exponents
<1>1. PICK f : Partial(f, sk, i, N) /\ ProductBut(sk, i) = f[N]
  BY ProductIsPartial
<1>2. PICK g : Partial(g, sk, 0, N) /\ ProductBut(sk, 0) = g[N]
  BY ProductIsPartial
<1>x. \A j \in 1 .. N : x[j] \in Exponents
  OBVIOUS
<1> HIDE DEF N
<1>f. \A j \in 0 .. N :
        f[j] = IF j = 0 THEN 1
               ELSE IF j = i THEN f[j - 1] ELSE (f[j - 1] * (sk - x[j])) % p
  BY <1>1 DEF Partial, Factor
<1>g. \A j \in 0 .. N :
        g[j] = IF j = 0 THEN 1 ELSE (g[j - 1] * (sk - x[j])) % p
  BY <1>2 DEF Partial, Factor
<1> DEFINE S == {k \in Nat :
                   k <= N => /\ f[k] \in Exponents /\ g[k] \in Exponents
                             /\ k < i => f[k] = g[k]
                             /\ k >= i => g[k] = (f[k] * (sk - x[i])) % p}
<1>i. i \in 1 .. N /\ i \in Nat /\ i > 0
  BY <1>p DEF N
<1>3. 0 \in S
  BY <1>p, <1>f, <1>g, <1>i
<1>4. ASSUME NEW k \in Nat, k \in S
      PROVE  k + 1 \in S
  <2> SUFFICES ASSUME k + 1 <= N
               PROVE  /\ f[k + 1] \in Exponents /\ g[k + 1] \in Exponents
                      /\ k + 1 < i => f[k + 1] = g[k + 1]
                      /\ k + 1 >= i =>
                           g[k + 1] = (f[k + 1] * (sk - x[i])) % p
    BY <1>4
  <2>a. k <= N
    BY <1>p
  <2>b. /\ f[k] \in Exponents /\ g[k] \in Exponents
        /\ k < i => f[k] = g[k]
        /\ k >= i => g[k] = (f[k] * (sk - x[i])) % p
    BY <1>4, <2>a
  <2>1. f[k] \in Int /\ g[k] \in Int
    BY <2>b, <1>p
  <2>2. k + 1 \in 0 .. N /\ k + 1 \in 1 .. N /\ k + 1 # 0 /\ (k + 1) - 1 = k
    BY <1>p
  <2>3. f[k + 1] = IF k + 1 = i THEN f[k] ELSE (f[k] * (sk - x[k + 1])) % p
    BY <1>f, <2>2
  <2>4. g[k + 1] = (g[k] * (sk - x[k + 1])) % p
    BY <1>g, <2>2
  <2> DEFINE h == sk - x[k + 1]
             l == sk - x[i]
             a == f[k]
             b == g[k]
  <2>5. h \in Int /\ l \in Int /\ a \in Int /\ b \in Int
    <3>1. x[k + 1] \in Int /\ x[i] \in Int /\ sk \in Int
      BY <1>x, <1>p, <1>i, <2>2
    <3> QED
      BY <3>1, <2>1
  <2>6. /\ f[k + 1] = IF k + 1 = i THEN a ELSE (a * h) % p
        /\ g[k + 1] = (b * h) % p
        /\ k < i => a = b
        /\ k >= i => b = (a * l) % p
        /\ k + 1 = i => h = l
    BY <2>b, <2>3, <2>4
  <2>0. a \in Exponents
    BY <2>b
  <2> HIDE DEF h, l, a, b
  <2>7. ASSUME NEW c \in Int PROVE c % p \in Exponents
    BY <1>p DEF Exponents
  <2>8. a * h \in Int /\ b * h \in Int
    BY <2>5
  <2>9. f[k + 1] \in Exponents /\ g[k + 1] \in Exponents
    BY <2>0, <2>6, <2>7, <2>8
  <2>10. CASE k + 1 < i
    BY <2>6, <2>9, <2>10, <1>i
  <2>11. CASE k + 1 = i
    BY <2>6, <2>9, <2>11, <1>i DEF l
  <2>12. CASE k >= i
    <3>1. g[k + 1] = (((a * l) % p) * h) % p
      BY <2>6, <2>12
    <3>2. f[k + 1] = (a * h) % p
      BY <2>6, <2>12, <1>i
    <3>3. a * l \in Int
      BY <2>5
    <3>4. (h * ((a * l) % p)) % p = (h * (a * l)) % p
      BY <3>3, <2>5, <1>p, RemainderTimes
    <3>5. (l * ((a * h) % p)) % p = (l * (a * h)) % p
      BY <2>8, <2>5, <1>p, RemainderTimes
    <3>6. h * (a * l) = l * (a * h)
      BY <2>5
    <3>7. (a * l) % p \in Int /\ (a * h) % p \in Int
      BY <3>3, <2>8, <2>7, <1>p
    <3>8. ((a * l) % p) * h = h * ((a * l) % p)
      BY <3>7, <2>5, Distribute
    <3>9. ((a * h) % p) * l = l * ((a * h) % p)
      BY <3>7, <2>5, Distribute
    <3>10. g[k + 1] = (((a * h) % p) * l) % p
      BY <3>1, <3>4, <3>5, <3>6, <3>8, <3>9
    <3> QED
      BY <3>2, <3>10, <2>9, <2>12, <1>i DEF l
  <2> QED
    BY <2>10, <2>11, <2>12, <1>i
<1>5. Nat \subseteq S
  <2> HIDE DEF S
  <2> QED
    BY <1>3, <1>4, CountUp
<1>6. N \in S
  BY <1>5, <1>p
<1>7. f[N] \in Exponents /\ g[N] = (f[N] * (sk - x[i])) % p
  BY <1>6, <1>p, <1>i
<1> QED
  BY <1>1, <1>2, <1>7

(* Two exponents that give the same pairing, not unity, are the same. *)
LEMMA SameExponent ==
  ASSUME NEW K \in Int, NEW s \in Int, NEW a \in Exponents, NEW b \in Exponents,
         (K * (s - a)) % p = (K * (s - b)) % p, (K * (s - a)) % p # 0
  PROVE  a = b
<1> SUFFICES ASSUME a # b PROVE FALSE
  OBVIOUS
<1>p. p \in Nat \ {0}
  BY RelicBridgeAssumption
<1>0. a \in Int /\ b \in Int /\ a - b < p /\ b - a < p
  BY <1>p DEF Exponents
<1>a. s - a \in Int /\ s - b \in Int
  BY <1>0
<1>b. K * (s - a) \in Int /\ K * (s - b) \in Int
  BY <1>a
<1>1. PICK k \in Int, c \in 0 .. p - 1 : K = k * p + c /\ K % p = c
  BY <1>p, Remainder
<1>2. PICK l \in Int, r \in 0 .. p - 1 :
        K * (s - a) = l * p + r /\ (K * (s - a)) % p = r
  BY <1>p, <1>b, Remainder
<1>3. PICK o \in Int, u \in 0 .. p - 1 :
        K * (s - b) = o * p + u /\ (K * (s - b)) % p = u
  BY <1>p, <1>b, Remainder
<1>4. r = u
  BY <1>2, <1>3
<1>5. c # 0
  <2> SUFFICES ASSUME c = 0 PROVE FALSE
    OBVIOUS
  <2>1. K = k * p
    BY <1>1, <1>p
  <2>2. k * (s - a) \in Int
    BY <1>a
  <2>3. K * (s - a) = (k * (s - a)) * p + 0
    <3> DEFINE d == s - a
    <3>1. d \in Int
      BY <1>a
    <3> HIDE DEF d
    <3>2. K * d = (k * d) * p
      BY <2>1, <3>1, <1>p
    <3>3. (k * d) * p \in Int
      BY <3>1, <1>p
    <3> QED
      BY <3>2, <3>3 DEF d
  <2>4. ((k * (s - a)) * p + 0) % p = 0
    BY <2>2, <1>p, RemainderUnique
  <2> QED
    BY <2>3, <2>4
<1>6. ASSUME NEW d \in 1 .. p - 1, NEW e \in Int, c * d = e * p
      PROVE  FALSE
  <2>1. (e * p + 0) % p = 0
    BY <1>6, <1>p, RemainderUnique
  <2>2. e * p \in Int
    BY <1>p
  <2>3. (c * d) % p = 0
    BY <1>6, <2>1, <2>2
  <2>4. c \in 1 .. p - 1
    BY <1>5, <1>p
  <2> QED
    BY <2>3, <2>4, RelicBridgeAssumption
<1>7. K * (b - a) = (l - o) * p
  <2>1. K * (b - a) = K * (s - a) - K * (s - b)
    BY <1>0
  <2>2. (l - o) * p = l * p - o * p
    BY <1>p
  <2>3. l * p \in Int /\ o * p \in Int
    BY <1>p
  <2> QED
    BY <2>1, <2>2, <2>3, <1>2, <1>3, <1>4
<1>8. CASE b > a
  <2> DEFINE d == b - a
  <2>1. d \in 1 .. p - 1 /\ d \in Int
    BY <1>8, <1>0, <1>p
  <2>2. K * d = (l - o) * p
    BY <1>7
  <2> HIDE DEF d
  <2>3. K * d = k * p * d + c * d
    BY <1>1, <1>p, <2>1
  <2>4. c * d = ((l - o) - k * d) * p
    BY <2>2, <2>3, <2>1, <1>p
  <2>5. (l - o) - k * d \in Int
    BY <2>1
  <2> QED
    BY <1>6, <2>1, <2>4, <2>5
<1>9. CASE b < a
  <2> DEFINE d == a - b
  <2>1. d \in 1 .. p - 1 /\ d \in Int
    BY <1>9, <1>0, <1>p
  <2>2. K * d = (o - l) * p
    BY <1>7, <1>0, <1>p
  <2> HIDE DEF d
  <2>3. K * d = k * p * d + c * d
    BY <1>1, <1>p, <2>1
  <2>4. c * d = ((o - l) - k * d) * p
    BY <2>2, <2>3, <2>1, <1>p
  <2>5. (o - l) - k * d \in Int
    BY <2>1
  <2> QED
    BY <1>6, <2>1, <2>4, <2>5
<1> QED
  BY <1>0, <1>8, <1>9

----------------------------------------------------------------------------
(* What a handle holds: the products for its scalars, blinded. *)
Asked(h) ==
  /\ h.sk \in Exponents
  /\ \E r \in Exponents :
       h.d = [i \in 0 .. nx |-> (r * ProductBut(h.sk, i)) % p]

(* What P1 signs with such a handle. *)
Signed(load, h) ==
  /\ load.y \in Exponents /\ load.t \in Exponents
  /\ load.cy = (load.t * (h.sk - load.y)) % p
  /\ load.v = (load.t * h.d[0]) % p

LEMMA ScalarsAreExponents ==
  ASSUME x \in ScalarLists
  PROVE  nx \in Nat /\ \A j \in 1 .. nx : x[j] \in Exponents
<1>1. PICK k \in 2 .. MaxX : x \in [1 .. k -> Scalars]
  BY DEF ScalarLists
<1>2. k \in Nat /\ x \in Seq(Scalars) /\ Len(x) = k
  BY <1>1, RelicBridgeAssumption
<1> QED
  BY <1>1, <1>2, RelicBridgeAssumption DEF nx, Exponents

(* Pairing a signature with a scalar's entry and the hash that came with   *)
(* it are the same multiple of the two factors that tell the signed scalar *)
(* from the scalar of the entry.                                           *)
LEMMA PairingValue ==
  ASSUME x \in ScalarLists, NEW h, Asked(h), NEW load, Signed(load, h),
         NEW i \in 1 .. nx
  PROVE  \E K \in Int :
           /\ (load.cy * h.d[i]) % p = (K * (h.sk - load.y)) % p
           /\ load.v = (K * (h.sk - x[i])) % p
<1>p. p \in Nat \ {0} /\ Exponents \subseteq Int
  BY RelicBridgeAssumption DEF Exponents
<1>x. nx \in Nat /\ x[i] \in Exponents /\ \A j \in 1 .. nx : x[j] \in Exponents
  BY ScalarsAreExponents
<1>1. PICK r \in Exponents :
        h.d = [j \in 0 .. nx |-> (r * ProductBut(h.sk, j)) % p]
  BY DEF Asked
<1> DEFINE P == ProductBut(h.sk, i)
           t == load.t
           sy == h.sk - load.y
           sx == h.sk - x[i]
<1>2. h.sk \in Exponents /\ load.y \in Exponents /\ t \in Exponents
  BY DEF Asked, Signed
<1>3. P \in Exponents /\ ProductBut(h.sk, 0) = (P * sx) % p
  BY <1>2, <1>x, ProductSplits
<1>4. /\ h.d[i] = (r * P) % p
      /\ h.d[0] = (r * ((P * sx) % p)) % p
  BY <1>1, <1>3, <1>x
<1>5. load.cy = (t * sy) % p /\ load.v = (t * h.d[0]) % p
  BY DEF Signed
<1>6. /\ r \in Int /\ P \in Int /\ t \in Int /\ sy \in Int /\ sx \in Int
  <2>1. h.sk \in Int /\ load.y \in Int /\ x[i] \in Int
    BY <1>p, <1>2, <1>x
  <2>2. r \in Int /\ P \in Int /\ t \in Int
    BY <1>p, <1>2, <1>3
  <2> QED
    BY <2>1, <2>2
<1> DEFINE di == h.d[i]
           d0 == h.d[0]
<1> HIDE DEF P, t, sy, sx, di, d0
<1>7. r * P \in Int /\ t * sy \in Int /\ P * sx \in Int /\ t * (r * P) \in Int
      /\ r * (P * sx) \in Int
  BY <1>6
<1>8. d0 = (r * (P * sx)) % p
  <2>1. (r * ((P * sx) % p)) % p = (r * (P * sx)) % p
    BY <1>p, <1>6, <1>7, RemainderTimes
  <2> QED
    BY <2>1, <1>4 DEF d0
<1>9. load.v = (t * (r * (P * sx))) % p
  <2>1. (t * ((r * (P * sx)) % p)) % p = (t * (r * (P * sx))) % p
    BY <1>p, <1>6, <1>7, RemainderTimes
  <2> QED
    BY <2>1, <1>5, <1>8 DEF d0
<1>10. (load.cy * di) % p = ((t * sy) * (r * P)) % p
  <2> DEFINE a == t * sy
             b == r * P
             am == a % p
             bm == b % p
  <2>1. a \in Int /\ b \in Int
    BY <1>7
  <2> HIDE DEF a, b
  <2>2. am \in Int /\ bm \in Int
    BY <2>1, <1>p
  <2>3. (am * bm) % p = (am * b) % p
    <3> HIDE DEF am
    <3> QED
      BY <2>1, <2>2, <1>p, RemainderTimes
  <2>4. (b * am) % p = (b * a) % p
    BY <2>1, <1>p, RemainderTimes
  <2>5. am * b = b * am /\ b * a = a * b
    <3> HIDE DEF am
    <3> QED
      BY <2>1, <2>2, Distribute
  <2>6. (am * bm) % p = (a * b) % p
    BY <2>3, <2>4, <2>5
  <2> QED
    BY <2>6, <1>4, <1>5 DEF a, b, di
<1>11. (t * sy) * (r * P) = (t * (r * P)) * sy
  BY <1>6
<1>12. t * (r * (P * sx)) = (t * (r * P)) * sx
  BY <1>6
<1>13. /\ (load.cy * di) % p = ((t * (r * P)) * sy) % p
       /\ load.v = ((t * (r * P)) * sx) % p
  BY <1>9, <1>10, <1>11, <1>12
<1> QED
  BY <1>7, <1>13 DEF sy, sx, di

----------------------------------------------------------------------------
(* What verify_x has to find in order to report a match. *)
Passes ==
  /\ arg.index \in 1 .. nx
  /\ arg.payload.cy \in Exponents \ {0}
  /\ echeck # 0 /\ arg.payload.v = echeck

(* The handle, what was signed with it, and how far a verification is. *)
VerdictAt ==
  /\ handle = NoHandle => payload = NoPayload /\ arg = NoArg /\ ret = NoReturn
  /\ handle # NoHandle => Asked(handle)
  /\ payload = NoPayload \/ Signed(payload, handle)
  /\ arg.payload \in {NoPayload} \cup Junk \/ Signed(arg.payload, handle)
  /\ arg.index \in Nat
  /\ ret \in [value : {0, 1}, is_match : BOOLEAN]
  /\ ret.is_match => pc = "idle"
  /\ pc \in {"parse", "point", "pair"} =>
       /\ arg.index \in 1 .. nx
       /\ arg.payload.cy # 0
  /\ pc = "pair" => arg.payload.cy \in Exponents
  /\ pc = "idle" => (ret.is_match <=> Passes)

Verdict == HeapAt /\ VerdictAt

LEMMA VerdictInit == Init => Verdict
<1> SUFFICES ASSUME Init PROVE Verdict
  OBVIOUS
<1>1. HeapAt
  BY DEF Init, HeapAt
<1>2. VerdictAt
  BY DEF Init, VerdictAt, NoArg, NoReturn, Passes
<1> QED
  BY <1>1, <1>2 DEF Verdict

LEMMA VerdictStep == Verdict /\ [Next]_vars => Verdict'
<1> SUFFICES ASSUME Verdict, [Next]_vars PROVE Verdict'
  OBVIOUS
<1>h. HeapAt /\ HeapAt' /\ VerdictAt
  BY HeapStep DEF Verdict
<1> SUFFICES VerdictAt'
  BY <1>h DEF Verdict
<1>n. nx \in Nat /\ nx >= 2
  BY <1>h, Sizes DEF nx, HeapAt
<1>s. ASSUME x' = x, handle' = handle
      PROVE  /\ nx' = nx
             /\ Asked(handle)' <=> Asked(handle)
             /\ Signed(payload, handle)' <=> Signed(payload', handle)
             /\ Signed(arg.payload, handle)' <=> Signed(arg'.payload, handle)
  BY <1>s DEF nx, Asked, Signed, ProductBut
<1>k. ASSUME x' = x, handle' = handle, payload' = payload, arg' = arg
      PROVE  /\ Passes' <=> Passes
             /\ Signed(payload, handle)' <=> Signed(payload, handle)
             /\ Signed(arg.payload, handle)' <=> Signed(arg.payload, handle)
  BY <1>k DEF nx, Passes, echeck, Signed
<1>1. ASSUME NEW scalars \in ScalarLists, CreateCtx(scalars)
      PROVE  VerdictAt'
  <2>1. /\ handle = NoHandle /\ handle' = handle /\ payload' = payload
        /\ arg' = arg /\ ret' = NoReturn /\ pc' \in {"idle", "points"}
    BY <1>1 DEF CreateCtx
  <2>2. payload = NoPayload /\ arg = NoArg
    BY <2>1, <1>h DEF VerdictAt
  <2>3. ~Passes'
    BY <2>1, <2>2 DEF Passes, NoArg
  <2> QED
    BY <2>1, <2>2, <2>3 DEF VerdictAt, NoArg, NoReturn
<1>2. CASE CreatePoints \/ CreateScalars \/ CreateAskFails
  <2>1. /\ pc \in {"points", "scalars", "ask"}
        /\ x' = x /\ handle' = handle /\ payload' = payload
        /\ arg' = arg /\ ret' = ret /\ pc' \in {"scalars", "ask", "idle"}
    BY <1>2 DEF CreatePoints, CreateScalars, CreateAskFails
  <2>2. handle = NoHandle /\ payload = NoPayload /\ arg = NoArg /\ ret = NoReturn
    BY <2>1, <1>h DEF VerdictAt, HeapAt
  <2>3. ~Passes'
    BY <2>1, <2>2 DEF Passes, NoArg
  <2> QED
    BY <2>1, <2>2, <2>3 DEF VerdictAt, NoArg, NoReturn
<1>3. CASE CreateAsk
  <2>1. /\ pc = "ask" /\ x' = x /\ payload' = payload
        /\ arg' = arg /\ ret' = ret /\ pc' = "idle"
    BY <1>3 DEF CreateAsk
  <2>2. payload = NoPayload /\ arg = NoArg /\ ret = NoReturn
    BY <2>1, <1>h DEF VerdictAt, HeapAt
  <2>3. ~Passes'
    BY <2>1, <2>2 DEF Passes, NoArg
  <2>4. PICK sk \in Exponents, r \in Exponents :
          handle' = [nx |-> nx, sk |-> sk,
                     d |-> [i \in 0 .. nx |-> (r * ProductBut(sk, i)) % p]]
    BY <1>3 DEF CreateAsk
  <2>5. Asked(handle')
    BY <2>4 DEF Asked
  <2>6. Asked(handle)'
    BY <2>1, <2>5 DEF Asked, nx, ProductBut
  <2>7. handle' # NoHandle
    BY <2>4, <1>n DEF NoHandle
  <2> QED
    BY <2>1, <2>2, <2>3, <2>6, <2>7 DEF VerdictAt, NoArg, NoReturn
<1>4. CASE Destroy
  <2>1. /\ pc = "idle" /\ pc' = pc /\ handle' = NoHandle /\ payload' = NoPayload
        /\ arg' = NoArg /\ ret' = NoReturn
    BY <1>4 DEF Destroy
  <2>2. ~Passes'
    BY <2>1 DEF Passes, NoArg
  <2> QED
    BY <2>1, <2>2 DEF VerdictAt, NoArg, NoReturn
<1>5. ASSUME NEW y \in Scalars, Sign(y)
      PROVE  VerdictAt'
  <2>1. /\ pc = "idle" /\ pc' = pc /\ x' = x /\ handle # NoHandle
        /\ handle' = handle /\ arg' = NoArg /\ ret' = NoReturn
    BY <1>5 DEF Sign
  <2>2. ~Passes'
    BY <2>1 DEF Passes, NoArg
  <2>3. PICK t \in Exponents :
          payload' = [cy |-> (t * (handle.sk - y)) % p,
                      v |-> (t * handle.d[0]) % p,
                      y |-> y, t |-> t]
    BY <1>5 DEF Sign
  <2>4. Signed(payload', handle)
    BY <2>3, RelicBridgeAssumption DEF Signed, Exponents
  <2> QED
    BY <2>1, <2>2, <2>4, <1>h, <1>s DEF VerdictAt, NoArg, NoReturn
<1>6. ASSUME NEW i \in 1 .. MaxX + 1, NEW load \in {payload} \cup Junk,
             VerifyBegin(i, load)
      PROVE  VerdictAt'
  <2>1. /\ pc = "idle" /\ handle # NoHandle /\ arg' = [payload |-> load, index |-> i]
        /\ x' = x /\ handle' = handle /\ payload' = payload
        /\ handle.nx = nx
    BY <1>6, <1>h DEF VerifyBegin, HeapAt
  <2>a. ret' = NoReturn \/ ret' = [value |-> 1, is_match |-> FALSE]
    BY <1>6 DEF VerifyBegin
  <2>b. ret'.is_match = FALSE /\ ret' \in [value : {0, 1}, is_match : BOOLEAN]
    <3>1. CASE ret' = NoReturn
      BY <3>1, Zenon DEF NoReturn
    <3>2. CASE ret' = [value |-> 1, is_match |-> FALSE]
      BY <3>2, Zenon
    <3> QED
      BY <2>a, <3>1, <3>2
  <2>2. \/ i > nx /\ pc' = "idle"
        \/ i <= nx /\ load.cy \in {Untagged, 0} /\ pc' = "idle"
        \/ i <= nx /\ load.cy \notin {Untagged, 0} /\ pc' = "parse"
    <3>1. i \in Nat /\ handle.nx \in Nat
      BY <2>1, <1>n, RelicBridgeAssumption
    <3> QED
      BY <3>1, <2>1, <1>6 DEF VerifyBegin
  <2>3. nx' = nx /\ arg'.payload = load /\ arg'.index = i
    BY <2>1, <1>s
  <2>4. i \in Nat /\ i > 0
    BY RelicBridgeAssumption
  <2>5. pc' = "idle" => ~Passes'
    <3>1. Untagged \notin Exponents
      BY RelicBridgeAssumption DEF Untagged, Exponents
    <3> QED
      BY <3>1, <2>2, <2>3, <2>4, <1>n DEF Passes
  <2>6. load \in {NoPayload} \cup Junk \/ Signed(load, handle)
    BY <1>h DEF VerdictAt
  <2>7. Signed(arg.payload, handle)' <=> Signed(load, handle)
    BY <2>1, <2>3, <1>s
  <2>8. Asked(handle)' /\ (payload = NoPayload \/ Signed(payload, handle))'
    BY <2>1, <1>s, <1>h DEF VerdictAt
  <2>9. arg'.payload \in {NoPayload} \cup Junk \/ Signed(arg.payload, handle)'
    BY <2>3, <2>6, <2>7
  <2>10. pc' \in {"idle", "parse"}
         /\ (pc' = "parse" => i \in 1 .. nx /\ load.cy # 0)
    BY <2>2, <2>4, <1>n
  <2> QED
    BY <2>1, <2>b, <2>3, <2>5, <2>8, <2>9, <2>10 DEF VerdictAt
<1>7. CASE VerifyParse
  <2>1. /\ pc = "parse" /\ x' = x /\ handle' = handle /\ payload' = payload
        /\ arg' = arg /\ ret' = ret
        /\ pc' = "point" \/ (pc' = "idle" /\ arg.payload.cy = Malformed)
    BY <1>7 DEF VerifyParse
  <2>2. Malformed \notin Exponents
    BY RelicBridgeAssumption DEF Malformed, Exponents
  <2>3. pc' = "idle" => ~Passes
    BY <2>1, <2>2 DEF Passes
  <2> QED
    BY <2>1, <2>3, <1>s, <1>k, <1>h DEF VerdictAt, HeapAt
<1>8. CASE VerifyPoint
  <2>1. /\ pc = "point" /\ x' = x /\ handle' = handle /\ payload' = payload
        /\ arg' = arg /\ ret' = ret
        /\ \/ pc' = "pair" /\ arg.payload.cy \in Exponents
           \/ pc' = "idle" /\ arg.payload.cy \notin Exponents
    BY <1>8 DEF VerifyPoint
  <2>3. pc' = "idle" => ~Passes
    BY <2>1 DEF Passes
  <2> QED
    BY <2>1, <2>3, <1>s, <1>k, <1>h DEF VerdictAt, HeapAt
<1>9. CASE VerifyPair
  <2>1. /\ pc = "pair" /\ x' = x /\ handle' = handle /\ payload' = payload
        /\ arg' = arg /\ pc' = "idle"
        /\ ret' = [ret EXCEPT !.is_match = echeck # 0 /\ arg.payload.v = echeck]
    BY <1>9 DEF VerifyPair
  <2>2. ret \in [value : {0, 1}, is_match : BOOLEAN]
        /\ arg.index \in 1 .. nx /\ arg.payload.cy \in Exponents \ {0}
    BY <2>1, <1>h DEF VerdictAt
  <2>3. ret'.is_match <=> Passes
    BY <2>1, <2>2 DEF Passes
  <2>4. ret' \in [value : {0, 1}, is_match : BOOLEAN]
    BY <2>1, <2>2
  <2>5. handle # NoHandle
    BY <2>1, <1>h DEF HeapAt
  <2> QED
    BY <2>1, <2>3, <2>4, <2>5, <1>s, <1>k, <1>h DEF VerdictAt
<1>10. CASE UNCHANGED vars
  <2>1. /\ x' = x /\ handle' = handle /\ payload' = payload /\ arg' = arg
        /\ ret' = ret /\ pc' = pc
    BY <1>10 DEF vars
  <2> QED
    BY <2>1, <1>s, <1>k, <1>h DEF VerdictAt
<1> QED
  BY <1>1, <1>2, <1>3, <1>4, <1>5, <1>6, <1>7, <1>8, <1>9, <1>10
  DEF Next, Continue

LEMMA VerdictAlways == Spec => []Verdict
  BY VerdictInit, VerdictStep, PTL DEF Spec

(* With the handle's scalars and whatever its exponents are, a payload     *)
(* signed for another scalar does not pass.                                *)
LEMMA PassesIsTrue ==
  ASSUME Verdict, handle # NoHandle, Passes
  PROVE  arg.payload.y = x[arg.index]
<1> DEFINE i == arg.index
           load == arg.payload
<1>p. p \in Nat \ {0} /\ Exponents \subseteq Int /\ NoHash \notin Exponents
  BY RelicBridgeAssumption DEF Exponents, NoHash
<1>h. x \in ScalarLists /\ Asked(handle)
  BY DEF Verdict, HeapAt, VerdictAt
<1>1. i \in 1 .. nx /\ echeck # 0 /\ load.v = echeck
      /\ load.cy \in Exponents
  BY DEF Passes
<1>2. nx \in Nat /\ x[i] \in Exponents
  BY <1>h, <1>1, ScalarsAreExponents
<1>3. echeck \in Exponents
  <2>1. PICK r \in Exponents :
          handle.d = [j \in 0 .. nx |-> (r * ProductBut(handle.sk, j)) % p]
    BY <1>h DEF Asked
  <2>2. handle.d[i] = (r * ProductBut(handle.sk, i)) % p
    BY <2>1, <1>1, <1>2
  <2>3. ProductBut(handle.sk, i) \in Exponents
    BY <1>h, <1>1, ScalarsAreExponents, ProductSplits DEF Asked
  <2>4. r * ProductBut(handle.sk, i) \in Int
    <3>1. r \in Int /\ ProductBut(handle.sk, i) \in Int
      BY <2>1, <2>3, <1>p
    <3> QED
      BY <3>1
  <2>c. \A c \in Int : c % p \in Exponents
    BY <1>p DEF Exponents
  <2>5. handle.d[i] \in Int /\ load.cy \in Int
    <3>1. handle.d[i] \in Exponents
      BY <2>2, <2>4, <2>c
    <3> QED
      BY <3>1, <1>1, <1>p
  <2>6. load.cy * handle.d[i] \in Int
    BY <2>5
  <2> QED
    BY <2>6, <2>c DEF echeck
<1>4. Signed(load, handle)
  <2>1. load \in {NoPayload} \cup Junk => load.v = NoHash
    BY DEF Junk, NoPayload
  <2>2. load.v # NoHash
    BY <1>1, <1>3, <1>p
  <2> QED
    BY <2>1, <2>2 DEF Verdict, VerdictAt
<1>5. PICK K \in Int :
        /\ (load.cy * handle.d[i]) % p = (K * (handle.sk - load.y)) % p
        /\ load.v = (K * (handle.sk - x[i])) % p
  <2> HIDE DEF i, load
  <2> QED
    BY <1>h, <1>1, <1>4, PairingValue
<1>6. /\ (K * (handle.sk - load.y)) % p = (K * (handle.sk - x[i])) % p
      /\ (K * (handle.sk - load.y)) % p # 0
  BY <1>1, <1>5 DEF echeck
<1>7. handle.sk \in Int /\ load.y \in Exponents
  BY <1>h, <1>4, <1>p DEF Asked, Signed
<1> QED
  <2> HIDE DEF i, load
  <2>1. load.y = x[i]
    BY <1>2, <1>6, <1>7, SameExponent
  <2> QED
    BY <2>1 DEF i, load

(* A payload signed for the scalar passes, unless its blinding or the      *)
(* handle's d[0] is degenerate.                                            *)
LEMMA TruePasses ==
  ASSUME Verdict, handle # NoHandle, arg.index \in 1 .. nx,
         arg.payload.y = x[arg.index],
         handle.d[0] # 0, arg.payload.t # 0
  PROVE  Passes
<1> DEFINE i == arg.index
           load == arg.payload
<1>p. p \in Nat \ {0} /\ Exponents \subseteq Int /\ NoHash \notin Exponents
  BY RelicBridgeAssumption DEF Exponents, NoHash
<1>h. x \in ScalarLists /\ Asked(handle)
  BY DEF Verdict, HeapAt, VerdictAt
<1>2. nx \in Nat /\ x[i] \in Exponents
  BY <1>h, ScalarsAreExponents
<1>3. PICK r \in Exponents :
        handle.d = [j \in 0 .. nx |-> (r * ProductBut(handle.sk, j)) % p]
  BY <1>h DEF Asked
<1>4. Signed(load, handle)
  <2>1. load \in {NoPayload} \cup Junk => load.y = NoHash
    BY DEF Junk, NoPayload
  <2> QED
    BY <2>1, <1>2, <1>p DEF Verdict, VerdictAt
<1>5. PICK K \in Int :
        /\ (load.cy * handle.d[i]) % p = (K * (handle.sk - load.y)) % p
        /\ load.v = (K * (handle.sk - x[i])) % p
  <2> HIDE DEF i, load
  <2>1. i \in 1 .. nx
    BY DEF i
  <2> QED
    BY <2>1, <1>h, <1>4, PairingValue
<1>6. load.v = echeck
  BY <1>5 DEF echeck
<1>7. load.v # 0
  <2>1. PICK P \in Exponents : ProductBut(handle.sk, 0) = (P * (handle.sk - x[i])) % p
    BY <1>h, ScalarsAreExponents, ProductSplits DEF Asked
  <2>2. handle.sk \in Int /\ x[i] \in Int /\ P \in Int /\ r \in Int
    BY <1>h, <1>2, <1>p DEF Asked
  <2>3. P * (handle.sk - x[i]) \in Int
    BY <2>2
  <2>4. ProductBut(handle.sk, 0) \in Int
    BY <2>1, <2>3, <1>p
  <2>5. handle.d[0] = (r * ProductBut(handle.sk, 0)) % p
    BY <1>3, <1>2
  <2>6. r * ProductBut(handle.sk, 0) \in Int
    BY <2>2, <2>4
  <2>7. handle.d[0] \in 1 .. p - 1
    BY <2>5, <2>6, <1>p
  <2>8. load.t \in 1 .. p - 1
    BY <1>4, <1>p DEF Signed, Exponents
  <2> QED
    BY <2>7, <2>8, <1>4, RelicBridgeAssumption DEF Signed
<1>8. load.cy \in Exponents
  <2>1. load.t \in Int /\ handle.sk \in Int /\ load.y \in Int
    BY <1>h, <1>4, <1>p DEF Asked, Signed
  <2>2. load.t * (handle.sk - load.y) \in Int
    BY <2>1
  <2> QED
    BY <2>2, <1>4, <1>p DEF Signed, Exponents
<1>9. load.cy # 0
  <2> SUFFICES ASSUME load.cy = 0 PROVE FALSE
    OBVIOUS
  <2>1. handle.d[i] \in Int
    <3>1. ProductBut(handle.sk, i) \in Exponents
      BY <1>h, ScalarsAreExponents, ProductSplits DEF Asked
    <3>2. handle.d[i] = (r * ProductBut(handle.sk, i)) % p
      BY <1>3, <1>2
    <3>3. r * ProductBut(handle.sk, i) \in Int
      BY <3>1, <1>p
    <3> QED
      BY <3>2, <3>3, <1>p
  <2>2. load.cy * handle.d[i] = 0
    BY <2>1
  <2>3. 0 % p = 0
    BY <1>p
  <2> QED
    BY <2>2, <2>3, <1>6, <1>7 DEF echeck
<1> QED
  BY <1>6, <1>7, <1>8, <1>9 DEF Passes

(* A match is reported only for a payload signed for the very scalar,      *)
(* whatever the random exponents come out as.                              *)
THEOREM NeverFalseMatch == Spec => []NoFalseMatch
<1>1. Verdict => NoFalseMatch
  <2> SUFFICES ASSUME Verdict, ret.is_match
               PROVE  arg.index \in 1 .. nx /\ arg.payload.y = x[arg.index]
    BY DEF NoFalseMatch
  <2>1. Passes /\ handle # NoHandle
    BY DEF Verdict, VerdictAt, NoReturn
  <2> QED
    BY <2>1, PassesIsTrue DEF Passes
<1> QED
  BY <1>1, VerdictAlways, PTL

(* A payload signed for the scalar is reported, unless an exponent is      *)
(* degenerate; also if the scalar occurs twice.                            *)
THEOREM AlwaysMatchFound == Spec => []MatchFound
<1>1. Verdict => MatchFound
  <2> SUFFICES ASSUME Verdict, pc = "idle", arg.index \in 1 .. nx,
                      arg.payload.y = x[arg.index],
                      handle.d[0] # 0, arg.payload.t # 0
               PROVE  ret.is_match
    BY DEF MatchFound
  <2>1. handle # NoHandle
    BY DEF Verdict, VerdictAt, NoArg
  <2> QED
    BY <2>1, TruePasses DEF Verdict, VerdictAt
<1> QED
  BY <1>1, VerdictAlways, PTL

=============================================================================
