--------------------------- MODULE FramingProofs ----------------------------
(***************************************************************************)
(* The parser of WebSocket frames takes every byte for what its writer     *)
(* meant it to be and hands out whole messages in the order of their       *)
(* writers, wherever reads cut the stream and for any lengths and masks.   *)
(*                                                                         *)
(* A parser state and bytes lead to a Path of states, one per byte.  What  *)
(* execute does with what a read returned is a part of that path, and what *)
(* a writer appends makes it longer: the invariant is about the path that  *)
(* is still ahead.                                                         *)
(***************************************************************************)
EXTENDS Framing, WellFoundedInduction, TLAPS

-----------------------------------------------------------------------------
(* Induction on numbers, and functions that are defined by it.               *)

LEMMA Least ==
    ASSUME NEW T, T \subseteq Nat, T # {}
    PROVE  \E x \in T : \A y \in T : x <= y
<1>1. \E x \in T : \A y \in T : ~ (<<y, x>> \in OpToRel(<, Nat))
  BY WFMin, NatLessThanWellFounded, Zenon
<1>2. \E x \in T : \A y \in T : ~ (y < x)
  BY <1>1, Zenon DEF OpToRel
<1> QED
  BY <1>2

\* A set that has 0 and with each number up to n the next one.
LEMMA Inductive ==
    ASSUME NEW n \in Nat, NEW T, 0 \in T, \A k \in 0..n - 1 : k \in T => k + 1 \in T
    PROVE  \A k \in 0..n : k \in T
<1> DEFINE U == {k \in 0..n : k \notin T}
<1>1. SUFFICES ASSUME U # {} PROVE FALSE
  OBVIOUS
<1>2. U \subseteq Nat
  OBVIOUS
<1>3. PICK k \in U : \A j \in U : k <= j
  <2> HIDE DEF U
  <2> QED
    BY <1>1, <1>2, Least
<1>4. k \in 0..n /\ k \notin T /\ k # 0
  OBVIOUS
<1>5. k - 1 \in 0..n - 1 /\ ~ (k <= k - 1) /\ (k - 1) + 1 = k
  BY <1>4
<1>6. k - 1 \in T
  BY <1>3, <1>5
<1> QED
  BY <1>4, <1>5, <1>6

\* Steps F[1], F[2], ... F[n] from s lead to states g[1], g[2], ... g[n].
Steps(F, s, g, n) == g[0] = s /\ \A k \in 1..n : g[k] = F[k][g[k - 1]]

LEMMA Iterates ==
    ASSUME NEW S, NEW n \in Nat, NEW F, \A k \in 1..n : F[k] \in [S -> S], NEW s \in S
    PROVE  \E g \in [0..n -> S] : Steps(F, s, g, n)
<1> DEFINE T == {k \in 0..n : \E g \in [0..k -> S] : Steps(F, s, g, k)}
<1>1. 0 \in T
  <2>1. [k \in 0..0 |-> s] \in [0..0 -> S] /\ Steps(F, s, [k \in 0..0 |-> s], 0)
    BY DEF Steps
  <2> QED
    BY <2>1
<1>2. ASSUME NEW k \in 0..n - 1, k \in T PROVE k + 1 \in T
  <2>1. PICK g \in [0..k -> S] : Steps(F, s, g, k)
    BY <1>2
  <2> DEFINE h == [j \in 0..k + 1 |-> IF j = k + 1 THEN F[k + 1][g[k]] ELSE g[j]]
  <2>2. k + 1 \in 1..n /\ k \in 0..k
    OBVIOUS
  <2>3. g[k] \in S /\ F[k + 1] \in [S -> S]
    BY <2>1, <2>2
  <2>4. F[k + 1][g[k]] \in S
    BY <2>3
  <2>5. h \in [0..k + 1 -> S]
    BY <2>1, <2>4
  <2>6. Steps(F, s, h, k + 1)
    BY <2>1, <2>2 DEF Steps
  <2>7. k + 1 \in 0..n
    OBVIOUS
  <2> QED
    BY <2>5, <2>6, <2>7
<1>3. n \in T
  <2> HIDE DEF T
  <2>1. \A k \in 0..n : k \in T
    BY <1>1, <1>2, Inductive
  <2> QED
    BY <2>1
<1> QED
  BY <1>3

LEMMA SameSteps ==
    ASSUME NEW F, NEW s, NEW n \in Nat, NEW g, NEW h, Steps(F, s, g, n), Steps(F, s, h, n)
    PROVE  \A k \in 0..n : g[k] = h[k]
<1> DEFINE T == {k \in 0..n : g[k] = h[k]}
<1>1. 0 \in T
  BY DEF Steps
<1>2. ASSUME NEW k \in 0..n - 1, k \in T PROVE k + 1 \in T
  <2>1. k + 1 \in 1..n /\ (k + 1) - 1 = k /\ k + 1 \in 0..n
    OBVIOUS
  <2>2. g[k + 1] = F[k + 1][g[k]] /\ h[k + 1] = F[k + 1][h[k]]
    BY <2>1 DEF Steps
  <2> QED
    BY <1>2, <2>1, <2>2
<1>3. \A k \in 0..n : k \in T
  <2> HIDE DEF T
  <2> QED
    BY <1>1, <1>2, Inductive
<1> QED
  BY <1>3

-----------------------------------------------------------------------------
(* Division.                                                                 *)

LEMMA Quotient ==
    ASSUME NEW a \in Nat, NEW m \in Nat \ {0}
    PROVE  \E q \in Nat : \E r \in 0..m - 1 : q = a \div m /\ r = a % m /\ a = m * q + r
<1> DEFINE q == a \div m
           r == a % m
<1>1. q \in Nat /\ r \in 0..m - 1
  OBVIOUS
<1>2. a = m * q + r
  BY <1>1
<1> QED
  BY <1>1, <1>2

\* Quotient and remainder are the only ones.
LEMMA Divided ==
    ASSUME NEW m \in Nat \ {0}, NEW q \in Nat, NEW r \in 0..m - 1
    PROVE  (m * q + r) \div m = q /\ (m * q + r) % m = r
<1>1. (m * q + r) \div m = q
  OBVIOUS
<1>2. (m * q + r) % m = r
  OBVIOUS
<1> QED
  BY <1>1, <1>2

LEMMA Modulo ==
    ASSUME NEW m \in Nat \ {0}
    PROVE  /\ \A r \in 0..m - 1 : r % m = r
           /\ \A a \in Nat : (a % m) % m = a % m
           /\ \A a \in Nat : ((a % m) + 1) % m = (a + 1) % m
<1>1. ASSUME NEW r \in 0..m - 1 PROVE r % m = r
  <2>1. m * 0 + r = r
    OBVIOUS
  <2>2. (m * 0 + r) % m = r
    BY Divided
  <2> QED
    BY <2>1, <2>2
<1>2. \A a \in Nat : a % m \in 0..m - 1
  BY Quotient
<1>3. ASSUME NEW a \in Nat PROVE ((a % m) + 1) % m = (a + 1) % m
  <2>1. PICK q \in Nat, r \in 0..m - 1 : q = a \div m /\ r = a % m /\ a = m * q + r
    BY Quotient
  <2>2. CASE r + 1 \in 0..m - 1
    <3>1. a + 1 = m * q + (r + 1)
      BY <2>1
    <3>2. (m * q + (r + 1)) % m = r + 1
      BY <2>2, Divided
    <3> QED
      BY <1>1, <2>1, <2>2, <3>1, <3>2
  <2>3. CASE r + 1 = m
    <3>1. a + 1 = m * (q + 1) + 0
      BY <2>1, <2>3
    <3>2. (m * (q + 1) + 0) % m = 0 /\ (m * 1 + 0) % m = 0
      BY Divided
    <3>3. m * 1 + 0 = m
      OBVIOUS
    <3> QED
      BY <2>1, <2>3, <3>1, <3>2, <3>3
  <2> QED
    BY <2>2, <2>3
<1> QED
  BY <1>1, <1>2, <1>3

-----------------------------------------------------------------------------
(* An extended length: its bytes are its digits, from the left.              *)

LEMMA Parameters ==
    /\ Radix \in Nat \ {0} /\ Digits2 \in Nat \ {0} /\ Digits8 \in Nat \ {0}
    /\ MaskLen \in Nat \ {0} /\ Short \in Nat \ {0} /\ Fragment \in Nat \ {0}
    /\ Lengths \subseteq Nat /\ NoSender \notin Sender
    /\ \A n \in Lengths : n < Weight[Digits8]
BY FramingAssumption

LEMMA WeightsExist ==
    \E g \in [Nat -> Nat] : g = [i \in Nat |-> IF i = 0 THEN 1 ELSE Radix * g[i - 1]]
<1> DEFINE F == [k \in Nat |-> [x \in Nat |-> Radix * x]]
           W(n) == CHOOSE g \in [0..n -> Nat] : Steps(F, 1, g, n)
           g == [n \in Nat |-> W(n)[n]]
<1>1. \A k \in Nat : F[k] \in [Nat -> Nat]
  BY Parameters
<1>2. ASSUME NEW n \in Nat PROVE W(n) \in [0..n -> Nat] /\ Steps(F, 1, W(n), n)
  <2>1. \A k \in 1..n : F[k] \in [Nat -> Nat]
    BY <1>1
  <2> HIDE DEF F
  <2>2. \E h \in [0..n -> Nat] : Steps(F, 1, h, n)
    BY <2>1, Iterates
  <2> QED
    BY <2>2
<1> HIDE DEF W
<1>3. g \in [Nat -> Nat]
  <2>1. \A n \in Nat : W(n)[n] \in Nat
    <3>1. \A n \in Nat : n \in 0..n
      OBVIOUS
    <3> QED
      BY <1>2, <3>1
  <2> QED
    BY <2>1
<1>4. g[0] = 1
  <2>1. W(0)[0] = 1 /\ g[0] = W(0)[0]
    BY <1>2 DEF Steps
  <2> QED
    BY <2>1
<1>5. ASSUME NEW i \in Nat, i # 0 PROVE g[i] = Radix * g[i - 1]
  <2>1. i - 1 \in Nat /\ i - 1 \in 0..i - 1 /\ i \in 1..i /\ i - 1 \in 0..i
    BY <1>5
  <2>2. Steps(F, 1, W(i), i - 1)
    <3>1. \A k \in 1..i - 1 : k \in 1..i
      BY <2>1
    <3>2. Steps(F, 1, W(i), i)
      BY <1>2
    <3> HIDE DEF F
    <3> QED
      BY <3>1, <3>2 DEF Steps
  <2>3. W(i)[i - 1] = W(i - 1)[i - 1]
    <3> HIDE DEF F
    <3> QED
      BY <1>2, <2>1, <2>2, SameSteps
  <2>4. W(i)[i] = F[i][W(i)[i - 1]]
    BY <1>2, <2>1 DEF Steps
  <2>5. W(i)[i - 1] \in Nat
    BY <1>2, <2>1
  <2> QED
    BY <2>1, <2>3, <2>4, <2>5
<1>6. g = [i \in Nat |-> IF i = 0 THEN 1 ELSE Radix * g[i - 1]]
  <2> HIDE DEF g
  <2> QED
    BY <1>3, <1>4, <1>5
<1> QED
  BY <1>3, <1>6

LEMMA Weights ==
    /\ Weight \in [Nat -> Nat \ {0}] /\ Weight[0] = 1
    /\ \A i \in Nat : Weight[i + 1] = Radix * Weight[i]
<1>1. PICK g \in [Nat -> Nat] : g = [i \in Nat |-> IF i = 0 THEN 1 ELSE Radix * g[i - 1]]
  BY WeightsExist
<1>2. Weight = [i \in Nat |-> IF i = 0 THEN 1 ELSE Radix * Weight[i - 1]]
  BY <1>1, Zenon DEF Weight
<1>3. Weight[0] = 1 /\ \A i \in Nat : i # 0 => Weight[i] = Radix * Weight[i - 1]
  BY <1>2
<1>4. ASSUME NEW i \in Nat PROVE Weight[i + 1] = Radix * Weight[i]
  <2>1. i + 1 \in Nat /\ i + 1 # 0 /\ (i + 1) - 1 = i
    OBVIOUS
  <2> QED
    BY <1>3, <2>1
<1>5. ASSUME NEW n \in Nat PROVE Weight[n] \in Nat \ {0}
  <2> DEFINE T == {k \in Nat : Weight[k] \in Nat \ {0}}
  <2>1. 0 \in T
    BY <1>3
  <2>2. ASSUME NEW k \in 0..n - 1, k \in T PROVE k + 1 \in T
    <3>1. Weight[k] \in Nat \ {0} /\ Weight[k + 1] = Radix * Weight[k]
      BY <1>4, <2>2
    <3>2. \A a, b \in Nat \ {0} : a * b \in Nat \ {0}
      OBVIOUS
    <3> QED
      BY <3>1, <3>2, Parameters
  <2>3. \A k \in 0..n : k \in T
    <3> HIDE DEF T
    <3> QED
      BY <2>1, <2>2, Inductive
  <2> QED
    BY <2>3
<1>6. Weight \in [Nat -> Nat \ {0}]
  <2>1. DOMAIN Weight = Nat /\ Weight = [i \in DOMAIN Weight |-> Weight[i]]
    BY <1>2
  <2> QED
    BY <1>5, <2>1
<1> QED
  BY <1>3, <1>4, <1>6

\* Taking off a digit and adding it again.
LEMMA Digit ==
    ASSUME NEW a \in Nat, NEW m \in Nat \ {0}, NEW w \in Nat \ {0}
    PROVE  m * (a \div (m * w)) + ((a \div w) % m) = a \div w
<1>1. PICK q \in Nat, r \in 0..w - 1 : q = a \div w /\ a = w * q + r
  BY Quotient
<1>2. PICK p \in Nat, s \in 0..m - 1 : p = q \div m /\ s = q % m /\ q = m * p + s
  BY Quotient
<1>3. w * s + r \in 0..m * w - 1 /\ m * w \in Nat \ {0}
  <2>1. s <= m - 1 /\ w * s <= w * (m - 1)
    OBVIOUS
  <2>2. w * (m - 1) + w = m * w
    OBVIOUS
  <2>3. w * s \in Nat /\ m * w \in Nat
    OBVIOUS
  <2> QED
    BY <2>1, <2>2, <2>3
<1>4. a = (m * w) * p + (w * s + r)
  <2>1. a = w * (m * p + s) + r
    BY <1>1, <1>2
  <2>2. w * (m * p + s) = (m * w) * p + w * s
    OBVIOUS
  <2>3. (m * w) * p \in Nat /\ w * s \in Nat
    OBVIOUS
  <2> QED
    BY <2>1, <2>2, <2>3
<1>5. a \div (m * w) = p
  BY <1>3, <1>4, Divided
<1>6. m * (a \div (m * w)) = m * p /\ (a \div w) % m = s
  BY <1>1, <1>2, <1>5
<1>7. q = a \div w /\ q = m * p + s
  BY <1>1, <1>2
<1> QED
  BY <1>6, <1>7

-----------------------------------------------------------------------------
(* Paths.                                                                    *)

\* What one byte makes of a parser state.
Feed(c, b) == ByState(c, <<b>>)

\* The states that c and the bytes of w lead to.
Path(c, w) == LET g[k \in 0..Len(w)] == IF k = 0 THEN c ELSE Feed(g[k - 1], w[k]) IN g

\* From c the bytes of w lead to d, each taken for what it was meant to be.
Leads(c, w, d) ==
    /\ Path(c, w)[Len(w)] = d
    /\ \A k \in 1..Len(w) : w[k].k = Path(c, w)[k - 1].state

LEMMA Paths ==
    ASSUME NEW c, NEW w, Len(w) \in Nat
    PROVE  Path(c, w)[0] = c /\ \A k \in 1..Len(w) : Path(c, w)[k] = Feed(Path(c, w)[k - 1], w[k])
<1> DEFINE n == Len(w)
           Is(g, m) == g = [j \in 0..m |-> IF j = 0 THEN c ELSE Feed(g[j - 1], w[j])]
           T == {k \in 0..n : \E g : Is(g, k)}
<1>1. 0 \in T
  <2>1. Is([j \in 0..0 |-> c], 0) /\ 0 \in 0..n
    OBVIOUS
  <2> HIDE DEF Is
  <2> QED
    BY <2>1
<1>2. ASSUME NEW k \in 0..n - 1, k \in T PROVE k + 1 \in T
  <2>1. PICK g : Is(g, k)
    BY <1>2
  <2> DEFINE h == [j \in 0..k + 1 |-> IF j = k + 1 THEN Feed(g[k], w[k + 1]) ELSE g[j]]
  <2>2. \A j \in 0..k + 1 : h[j] = IF j = 0 THEN c ELSE Feed(h[j - 1], w[j])
    <3>1. CASE k \in Nat
      <4>1. h[0] = c
        BY <2>1
      <4>2. h[k + 1] = Feed(h[(k + 1) - 1], w[k + 1])
        OBVIOUS
      <4>3. ASSUME NEW j \in 1..k PROVE h[j] = Feed(h[j - 1], w[j])
        <5>1. j \in 0..k /\ j - 1 \in 0..k /\ j \in 0..k + 1 /\ j - 1 \in 0..k + 1 /\ j # k + 1 /\ j - 1 # k + 1 /\ j # 0
          OBVIOUS
        <5>2. h[j] = g[j] /\ h[j - 1] = g[j - 1]
          BY <5>1
        <5> HIDE DEF h
        <5> QED
          BY <2>1, <5>1, <5>2
      <4>4. \A j \in 0..k + 1 : j = 0 \/ j = k + 1 \/ j \in 1..k
        OBVIOUS
      <4>5. \A j \in 0..k + 1 : j = k + 1 => j # 0
        OBVIOUS
      <4>6. \A j \in 1..k : j # 0
        OBVIOUS
      <4> HIDE DEF h
      <4> QED
        BY <4>1, <4>2, <4>3, <4>4, <4>5, <4>6
    <3> QED
      BY <3>1
  <2>3. Is(h, k + 1)
    <3>1. h = [j \in 0..k + 1 |-> h[j]]
      OBVIOUS
    <3> HIDE DEF h
    <3> QED
      BY <2>2, <3>1
  <2>4. k + 1 \in 0..n
    OBVIOUS
  <2> HIDE DEF h, Is
  <2> QED
    BY <2>3, <2>4
<1>3. n \in T
  <2> HIDE DEF T
  <2>1. \A k \in 0..n : k \in T
    BY <1>1, <1>2, Inductive
  <2> QED
    BY <2>1
<1>4. PICK g : g = [k \in 0..Len(w) |-> IF k = 0 THEN c ELSE Feed(g[k - 1], w[k])]
  BY <1>3
<1>5. Path(c, w) = [k \in 0..Len(w) |-> IF k = 0 THEN c ELSE Feed(Path(c, w)[k - 1], w[k])]
  BY <1>4, Zenon DEF Path
<1> QED
  BY <1>5

\* States that follow from one another by the bytes of w are the path.
LEMMA PathIs ==
    ASSUME NEW c, NEW w, Len(w) \in Nat, NEW h, h[0] = c,
           \A k \in 1..Len(w) : h[k] = Feed(h[k - 1], w[k])
    PROVE  \A k \in 0..Len(w) : Path(c, w)[k] = h[k]
<1> DEFINE T == {k \in 0..Len(w) : Path(c, w)[k] = h[k]}
<1>1. 0 \in T
  BY Paths
<1>2. ASSUME NEW k \in 0..Len(w) - 1, k \in T PROVE k + 1 \in T
  <2>1. k + 1 \in 1..Len(w) /\ (k + 1) - 1 = k /\ k + 1 \in 0..Len(w)
    OBVIOUS
  <2>2. h[k + 1] = Feed(h[k], w[k + 1]) /\ Path(c, w)[k + 1] = Feed(Path(c, w)[k], w[k + 1])
    BY <2>1, Paths
  <2> QED
    BY <1>2, <2>1, <2>2
<1>3. \A k \in 0..Len(w) : k \in T
  <2> HIDE DEF T
  <2> QED
    BY <1>1, <1>2, Inductive
<1> QED
  BY <1>3

\* v is the part of w that follows its first j bytes, or begins there.
Part(v, w, j) ==
    /\ Len(v) \in Nat /\ Len(w) \in Nat /\ j \in Nat /\ j + Len(v) <= Len(w)
    /\ \A i \in 1..Len(v) : v[i] = w[j + i]

\* A part of a path is the path of a part.
LEMMA PathFrom ==
    ASSUME NEW c, NEW w, NEW v, NEW j, Part(v, w, j)
    PROVE  \A i \in 0..Len(v) : Path(Path(c, w)[j], v)[i] = Path(c, w)[j + i]
<1> DEFINE h == [i \in 0..Len(v) |-> Path(c, w)[j + i]]
<1> USE DEF Part
<1>1. h[0] = Path(c, w)[j]
  OBVIOUS
<1>2. ASSUME NEW k \in 1..Len(v) PROVE h[k] = Feed(h[k - 1], v[k])
  <2>1. k \in 0..Len(v) /\ k - 1 \in 0..Len(v) /\ j + k \in 1..Len(w) /\ (j + k) - 1 = j + (k - 1)
    OBVIOUS
  <2>2. Path(c, w)[j + k] = Feed(Path(c, w)[(j + k) - 1], w[j + k])
    BY <2>1, Paths
  <2> QED
    BY <2>1, <2>2
<1>3. \A i \in 0..Len(v) : Path(Path(c, w)[j], v)[i] = h[i]
  <2> HIDE DEF h
  <2> QED
    BY <1>1, <1>2, PathIs
<1> QED
  BY <1>3

LEMMA JoinedAs ==
    ASSUME NEW c, NEW d, NEW e, NEW w, NEW v, NEW u,
           Part(w, u, 0), Part(v, u, Len(w)), Len(u) = Len(w) + Len(v),
           Leads(c, w, d), Leads(d, v, e)
    PROVE  Leads(c, u, e)
<1>1. Len(u) \in Nat /\ Len(w) \in Nat /\ Len(v) \in Nat
  BY DEF Part
<1>4. \A i \in 0..Len(w) : Path(c, u)[i] = Path(c, w)[i]
  <2>1. Path(c, u)[0] = c
    BY <1>1, Paths
  <2>2. \A i \in 0..Len(w) : Path(Path(c, u)[0], w)[i] = Path(c, u)[0 + i]
    BY PathFrom
  <2>3. \A i \in 0..Len(w) : 0 + i = i
    BY <1>1
  <2> QED
    BY <2>1, <2>2, <2>3
<1>5. Path(c, u)[Len(w)] = d
  <2>1. Len(w) \in 0..Len(w)
    BY <1>1
  <2> QED
    BY <1>4, <2>1 DEF Leads
<1>6. \A i \in 0..Len(v) : Path(c, u)[Len(w) + i] = Path(d, v)[i]
  <2>2. \A i \in 0..Len(v) : Path(Path(c, u)[Len(w)], v)[i] = Path(c, u)[Len(w) + i]
    BY PathFrom
  <2> QED
    BY <1>5, <2>2
<1>7. Path(c, u)[Len(u)] = e
  <2>1. Len(v) \in 0..Len(v)
    BY <1>1
  <2> QED
    BY <1>1, <1>6, <2>1 DEF Leads
<1>8. ASSUME NEW k \in 1..Len(u) PROVE u[k].k = Path(c, u)[k - 1].state
  <2>1. CASE k <= Len(w)
    <3>1. k \in 1..Len(w) /\ k - 1 \in 0..Len(w)
      BY <1>1, <2>1
    <3> QED
      BY <1>1, <1>4, <3>1 DEF Leads, Part
  <2>2. CASE k > Len(w)
    <3>1. PICK i \in 1..Len(v) : k = Len(w) + i
      <4>1. k - Len(w) \in 1..Len(v) /\ k = Len(w) + (k - Len(w))
        BY <1>1, <2>2
      <4> QED
        BY <4>1
    <3>2. i - 1 \in 0..Len(v) /\ k - 1 = Len(w) + (i - 1)
      BY <1>1, <3>1
    <3>3. u[k] = v[i] /\ Path(c, u)[k - 1] = Path(d, v)[i - 1]
      BY <1>6, <3>1, <3>2 DEF Part
    <3> QED
      BY <3>3 DEF Leads
  <2> QED
    BY <1>1, <2>1, <2>2
<1> QED
  BY <1>7, <1>8 DEF Leads

LEMMA Joined ==
    ASSUME NEW B, NEW w \in Seq(B), NEW v \in Seq(B), NEW c, NEW d, NEW e,
           Leads(c, w, d), Leads(d, v, e)
    PROVE  Leads(c, w \o v, e)
<1>1. Part(w, w \o v, 0)
  BY DEF Part
<1>2. Part(v, w \o v, Len(w))
  BY DEF Part
<1>3. Len(w \o v) = Len(w) + Len(v)
  OBVIOUS
<1> QED
  BY <1>1, <1>2, <1>3, JoinedAs

LEMMA LedBy ==
    ASSUME NEW c, NEW w, Len(w) \in Nat, NEW h, h[0] = c,
           \A k \in 1..Len(w) : w[k].k = h[k - 1].state /\ h[k] = Feed(h[k - 1], w[k])
    PROVE  Leads(c, w, h[Len(w)])
<1>1. \A k \in 0..Len(w) : Path(c, w)[k] = h[k]
  BY PathIs
<1>2. Len(w) \in 0..Len(w) /\ \A k \in 1..Len(w) : k - 1 \in 0..Len(w)
  OBVIOUS
<1> QED
  BY <1>1, <1>2 DEF Leads

-----------------------------------------------------------------------------
(* The states of the parser.                                                 *)

Bit == 0..1
Kinds == {"start", "head", "length", "mask", "body"}
ByteSet == [k : Kinds, v : Nat, f : BOOLEAN]
MessageSet == [op : Nat, data : Seq(Nat)]

ParserRecord ==
    [state : Kinds, length : Nat, require : Nat, fin : BOOLEAN, flags : Nat, masked : BOOLEAN,
     mask : [0..MaskLen - 1 -> Nat], mask_offset : 0..MaskLen - 1,
     frame : {"BEGIN", "HEADER", "BODY", "FIN", "END"}, opcode : Nat, message : Seq(Nat),
     out : Seq(MessageSet)]

\* What waits for bytes waits for one at least.
ParserSet == {c \in ParserRecord : c.state \in {"length", "mask", "body"} => c.require > 0}

LEMMA HeaderType ==
    ASSUME NEW c \in ParserRecord
    PROVE  /\ frame_header(c) \in ParserRecord
           /\ frame_header(c).state = c.state /\ frame_header(c).require = c.require
<1> DEFINE o == IF c.flags # CONTINUE THEN c.flags ELSE c.opcode
           m == IF c.frame \in {"BEGIN", "FIN"} THEN <<>> ELSE c.message
<1>1. o \in Nat /\ m \in Seq(Nat)
  BY DEF ParserRecord
<1>2. frame_header(c) = [c EXCEPT !.opcode = o, !.message = m, !.frame = "HEADER"]
  BY DEF frame_header
<1> HIDE DEF o, m
<1> QED
  BY <1>1, <1>2, ZenonT(60) DEF ParserRecord

LEMMA EndType ==
    ASSUME NEW c \in ParserRecord
    PROVE  /\ frame_end(c) \in ParserRecord
           /\ frame_end(c).state = c.state /\ frame_end(c).require = c.require
<1>1. Message(c.opcode, c.message) \in MessageSet
  BY DEF Message, MessageSet, ParserRecord
<1>2. Append(c.out, Message(c.opcode, c.message)) \in Seq(MessageSet)
  BY <1>1 DEF ParserRecord
<1> QED
  BY <1>2 DEF frame_end, ParserRecord

LEMMA MaskedType ==
    ASSUME NEW data \in Seq(Nat), NEW mask \in [0..MaskLen - 1 -> Nat], NEW o \in Nat
    PROVE  Masked(data, mask, o) \in Seq(Nat) /\ Len(Masked(data, mask, o)) = Len(data)
<1>1. ASSUME NEW i \in 1..Len(data) PROVE (data[i] + mask[(i - 1 + o) % MaskLen]) % 2 \in Nat
  <2>1. i - 1 + o \in Nat
    OBVIOUS
  <2>2. (i - 1 + o) % MaskLen \in 0..MaskLen - 1
    BY <2>1, Parameters
  <2> DEFINE j == (i - 1 + o) % MaskLen
  <2>3. mask[j] \in Nat /\ data[i] \in Nat
    BY <2>2
  <2> HIDE DEF j
  <2>4. (data[i] + mask[j]) % 2 \in Nat
    BY <2>3
  <2> QED
    BY <2>4 DEF j
<1>2. DOMAIN data = 1..Len(data)
  OBVIOUS
<1> QED
  BY <1>1, <1>2 DEF Masked

LEMMA BodyType ==
    ASSUME NEW c \in ParserRecord, NEW data \in Seq(Nat)
    PROVE  /\ frame_body(c, data) \in ParserRecord
           /\ frame_body(c, data).state = c.state /\ frame_body(c, data).require = c.require
<1>1. c.mask \in [0..MaskLen - 1 -> Nat] /\ c.mask_offset \in 0..MaskLen - 1 /\ c.message \in Seq(Nat)
  BY DEF ParserRecord
<1>2. c.mask_offset \in Nat
  BY <1>1, Parameters
<1>3. Masked(data, c.mask, c.mask_offset) \in Seq(Nat)
  BY <1>1, <1>2, MaskedType
<1> DEFINE m == c.message \o (IF c.masked THEN Masked(data, c.mask, c.mask_offset) ELSE data)
           o == IF c.masked THEN (c.mask_offset + Len(data)) % MaskLen ELSE c.mask_offset
<1>4. m \in Seq(Nat)
  BY <1>1, <1>3
<1>5. o \in 0..MaskLen - 1
  <2>1. c.mask_offset + Len(data) \in Nat
    BY <1>2
  <2>2. (c.mask_offset + Len(data)) % MaskLen \in 0..MaskLen - 1
    BY <2>1, Parameters
  <2> QED
    BY <1>1, <2>2
<1>6. frame_body(c, data) = [c EXCEPT !.frame = "BODY", !.message = m, !.mask_offset = o]
  BY DEF frame_body
<1> HIDE DEF m, o
<1> QED
  BY <1>4, <1>5, <1>6 DEF ParserRecord

LEMMA HeadedType ==
    ASSUME NEW c \in ParserRecord
    PROVE  Headed(c) \in ParserSet
<1>1. CASE c.length > 0
  <2> DEFINE d == [c EXCEPT !.state = "body", !.require = c.length]
  <2>1. d \in ParserRecord /\ d.state = "body" /\ d.require = c.length
    BY DEF ParserRecord, Kinds
  <2>2. Headed(c) = frame_header(d)
    BY <1>1 DEF Headed
  <2> HIDE DEF d
  <2> QED
    BY <1>1, <2>1, <2>2, HeaderType DEF ParserSet
<1>2. CASE ~ (c.length > 0)
  <2> DEFINE d == [c EXCEPT !.state = "start"]
  <2>1. d \in ParserRecord /\ d.state = "start"
    BY DEF ParserRecord, Kinds
  <2>2. Headed(c) = frame_end(frame_header(d))
    BY <1>2 DEF Headed
  <2> HIDE DEF d
  <2> QED
    BY <2>1, <2>2, HeaderType, EndType DEF ParserSet
<1> QED
  BY <1>1, <1>2

LEMMA MeasuredType ==
    ASSUME NEW c \in ParserRecord
    PROVE  Measured(c) \in ParserSet
<1> DEFINE d == [c EXCEPT !.state = "mask", !.require = MaskLen]
<1>1. d \in ParserSet
  <2>1. MaskLen \in Nat /\ MaskLen > 0
    BY Parameters
  <2>2. d \in ParserRecord /\ d.require = MaskLen
    BY <2>1 DEF ParserRecord, Kinds
  <2> HIDE DEF d
  <2> QED
    BY <2>1, <2>2 DEF ParserSet
<1> QED
  BY <1>1, HeadedType DEF Measured

LEMMA BodyCaseType ==
    ASSUME NEW c \in ParserRecord, NEW data \in Seq(ByteSet), Len(data) <= c.require
    PROVE  BodyCase(c, data) \in ParserRecord /\ (c.state = "body" => BodyCase(c, data) \in ParserSet)
<1> DEFINE w == [i \in DOMAIN data |-> data[i].v]
           d == frame_body(c, w)
<1>1. w \in Seq(Nat)
  <2>1. DOMAIN data = 1..Len(data) /\ \A i \in 1..Len(data) : data[i] \in ByteSet
    OBVIOUS
  <2> QED
    BY <2>1 DEF ByteSet
<1>2. d \in ParserRecord /\ d.state = c.state /\ d.require = c.require
  <2> HIDE DEF w
  <2> QED
    BY <1>1, BodyType
<1> HIDE DEF d
<1>3. Len(data) \in Nat /\ c.require \in Nat
  BY DEF ParserRecord
<1>4. CASE c.require = Len(data)
  <2> DEFINE e == [d EXCEPT !.state = "start", !.require = 0]
  <2>1. e \in ParserRecord /\ e.state = "start"
    BY <1>2 DEF ParserRecord, Kinds
  <2>2. BodyCase(c, data) = frame_end(e)
    BY <1>4 DEF BodyCase, d, w
  <2> HIDE DEF e
  <2> QED
    BY <2>1, <2>2, EndType DEF ParserSet
<1>5. CASE c.require # Len(data)
  <2>1. c.require - Len(data) \in Nat /\ c.require - Len(data) > 0
    BY <1>3, <1>5
  <2>2. BodyCase(c, data) = [d EXCEPT !.require = c.require - Len(data)]
    BY <1>2, <1>5 DEF BodyCase, d, w
  <2>3. BodyCase(c, data) \in ParserRecord /\ BodyCase(c, data).require > 0
    BY <1>2, <2>1, <2>2 DEF ParserRecord
  <2> QED
    BY <2>3 DEF ParserSet
<1> QED
  BY <1>4, <1>5

LEMMA FeedType ==
    ASSUME NEW c \in ParserSet, NEW b \in ByteSet
    PROVE  Feed(c, b) \in ParserSet
<1>1. c \in ParserRecord /\ b.v \in Nat /\ b.f \in BOOLEAN
  BY DEF ParserSet, ByteSet
<1>2. Head(<<b>>) = b /\ <<b>> \in Seq(ByteSet) /\ Len(<<b>>) = 1
  OBVIOUS
<1>3. CASE c.state = "start"
  <2>1. Feed(c, b) = StartCase(c, b)
    BY <1>2, <1>3 DEF Feed, ByState
  <2>2. 0 \in 0..MaskLen - 1
    BY Parameters
  <2>3. StartCase(c, b) \in ParserRecord /\ StartCase(c, b).state = "head"
    BY <1>1, <2>2 DEF StartCase, ParserRecord, Kinds
  <2> QED
    BY <2>1, <2>3 DEF ParserSet
<1>4. CASE c.state = "head"
  <2>1. Feed(c, b) = HeadCase(c, b)
    BY <1>2, <1>4 DEF Feed, ByState
  <2>2. [c EXCEPT !.masked = b.f, !.length = b.v] \in ParserRecord
    BY <1>1 DEF ParserRecord
  <2> DEFINE d == [c EXCEPT !.masked = b.f, !.length = b.v]
             e(r) == [d EXCEPT !.length = 0, !.state = "length", !.require = r]
  <2>3. ASSUME NEW r \in Nat, r > 0 PROVE e(r) \in ParserSet
    <3> HIDE DEF d
    <3>1. e(r) \in ParserRecord /\ e(r).require = r
      BY <2>2 DEF ParserRecord, Kinds, d
    <3> HIDE DEF e
    <3> QED
      BY <2>3, <3>1 DEF ParserSet
  <2>4. HeadCase(c, b) = IF b.v <= Short THEN Measured(d) ELSE e(IF b.v = Short + 2 THEN Digits8 ELSE Digits2)
    BY DEF HeadCase
  <2>5. e(Digits8) \in ParserSet /\ e(Digits2) \in ParserSet
    <3> HIDE DEF e
    <3>1. Digits8 > 0 /\ Digits2 > 0
      BY Parameters
    <3> QED
      BY <2>3, <3>1, Parameters
  <2>6. Measured(d) \in ParserSet
    BY <2>2, MeasuredType
  <2> HIDE DEF e, d
  <2> QED
    BY <2>1, <2>4, <2>5, <2>6
<1>5. CASE c.state = "length"
  <2>1. Feed(c, b) = LengthCase(c, b)
    BY <1>2, <1>5 DEF Feed, ByState
  <2> DEFINE l == Radix * c.length + b.v
             d == [c EXCEPT !.length = l, !.require = c.require - 1]
  <2>2. c.length \in Nat /\ c.require \in Nat /\ c.require > 0
    BY <1>1, <1>5 DEF ParserSet, ParserRecord
  <2>3. l \in Nat
    <3>1. \A x, y, z \in Nat : x * y + z \in Nat
      OBVIOUS
    <3> QED
      BY <1>1, <2>2, <3>1, Parameters
  <2>4. c.require - 1 \in Nat
    BY <2>2
  <2>5. LengthCase(c, b) = IF d.require = 0 THEN Measured(d) ELSE d
    BY DEF LengthCase
  <2> HIDE DEF l
  <2>7. d \in ParserRecord
    BY <1>1, <2>3, <2>4 DEF ParserRecord
  <2> HIDE DEF d
  <2>6. d.require # 0 => d \in ParserSet
    <3>1. d.require \in Nat
      BY <2>7 DEF ParserRecord
    <3>2. d.require # 0 => d.require > 0
      BY <3>1
    <3> HIDE DEF ParserRecord
    <3> QED
      BY <2>7, <3>2 DEF ParserSet
  <2> QED
    BY <2>1, <2>5, <2>6, <2>7, MeasuredType
<1>6. CASE c.state = "mask"
  <2>1. Feed(c, b) = MaskCase(c, b)
    BY <1>2, <1>6 DEF Feed, ByState
  <2> DEFINE d == [c EXCEPT !.mask[MaskLen - c.require] = b.v, !.require = c.require - 1]
  <2>2. c.require \in Nat /\ c.require > 0
    BY <1>1, <1>6 DEF ParserSet, ParserRecord
  <2>3. c.require - 1 \in Nat
    BY <2>2
  <2>4. [c.mask EXCEPT ![MaskLen - c.require] = b.v] \in [0..MaskLen - 1 -> Nat]
    BY <1>1 DEF ParserRecord
  <2>5. MaskCase(c, b) = IF d.require = 0 THEN Headed(d) ELSE d
    BY DEF MaskCase
  <2>7. d \in ParserRecord
    BY <1>1, <2>3, <2>4 DEF ParserRecord
  <2> HIDE DEF d
  <2>6. d.require # 0 => d \in ParserSet
    <3>1. d.require \in Nat
      BY <2>7 DEF ParserRecord
    <3>2. d.require # 0 => d.require > 0
      BY <3>1
    <3> HIDE DEF ParserRecord
    <3> QED
      BY <2>7, <3>2 DEF ParserSet
  <2> QED
    BY <2>1, <2>5, <2>6, <2>7, HeadedType
<1>7. CASE c.state = "body"
  <2>1. Feed(c, b) = BodyCase(c, <<b>>)
    BY <1>7 DEF Feed, ByState
  <2>2. Len(<<b>>) <= c.require
    BY <1>1, <1>2, <1>7 DEF ParserSet, ParserRecord
  <2> QED
    BY <1>1, <1>2, <1>7, <2>1, <2>2, BodyCaseType
<1>8. c.state \in {"start", "head", "length", "mask", "body"}
  BY <1>1 DEF ParserRecord, Kinds
<1> QED
  BY <1>3, <1>4, <1>5, <1>6, <1>7, <1>8

LEMMA PathType ==
    ASSUME NEW c \in ParserSet, NEW w \in Seq(ByteSet)
    PROVE  \A k \in 0..Len(w) : Path(c, w)[k] \in ParserSet
<1> DEFINE T == {k \in 0..Len(w) : Path(c, w)[k] \in ParserSet}
<1>0. Len(w) \in Nat
  OBVIOUS
<1>1. 0 \in T
  BY <1>0, Paths
<1>2. ASSUME NEW k \in 0..Len(w) - 1, k \in T PROVE k + 1 \in T
  <2>1. k + 1 \in 1..Len(w) /\ (k + 1) - 1 = k /\ k + 1 \in 0..Len(w)
    OBVIOUS
  <2>2. Path(c, w)[k + 1] = Feed(Path(c, w)[k], w[k + 1])
    BY <1>0, <2>1, Paths
  <2>3. w[k + 1] \in ByteSet
    BY <2>1
  <2> QED
    BY <1>2, <2>1, <2>2, <2>3, FeedType
<1>3. \A k \in 0..Len(w) : k \in T
  <2> HIDE DEF T
  <2> QED
    BY <1>0, <1>1, <1>2, Inductive
<1> QED
  BY <1>3

-----------------------------------------------------------------------------
(* What execute takes at once it might take byte by byte.                    *)

LEMMA Concatenated ==
    ASSUME NEW B, NEW v \in Seq(B), NEW w \in Seq(B)
    PROVE  /\ v \o w \in Seq(B) /\ Len(v \o w) = Len(v) + Len(w)
           /\ \A i \in 1..Len(v) : (v \o w)[i] = v[i]
           /\ \A i \in 1..Len(w) : (v \o w)[Len(v) + i] = w[i]
OBVIOUS

LEMMA SameSequence ==
    ASSUME NEW B, NEW v \in Seq(B), NEW w \in Seq(B), Len(v) = Len(w), \A i \in 1..Len(v) : v[i] = w[i]
    PROVE  v = w
OBVIOUS

LEMMA Rest ==
    ASSUME NEW B, NEW s \in Seq(B), NEW m \in 0..Len(s)
    PROVE  /\ SubSeq(s, m + 1, Len(s)) \in Seq(B) /\ Len(SubSeq(s, m + 1, Len(s))) = Len(s) - m
           /\ \A i \in 1..Len(s) - m : SubSeq(s, m + 1, Len(s))[i] = s[m + i]
OBVIOUS

LEMMA Associated == \A u, v, w \in Seq(Nat) : (u \o v) \o w = u \o (v \o w)
OBVIOUS

Values(data) == [i \in DOMAIN data |-> data[i].v]

LEMMA ValuesType ==
    ASSUME NEW data \in Seq(ByteSet)
    PROVE  /\ Values(data) \in Seq(Nat) /\ Len(Values(data)) = Len(data)
           /\ \A i \in 1..Len(data) : Values(data)[i] = data[i].v
<1>1. DOMAIN data = 1..Len(data) /\ \A i \in 1..Len(data) : data[i] \in ByteSet
  OBVIOUS
<1> QED
  BY <1>1 DEF ByteSet, Values

LEMMA ValuesMore ==
    ASSUME NEW data \in Seq(ByteSet), NEW b \in ByteSet
    PROVE  Values(Append(data, b)) = Append(Values(data), b.v) /\ Values(<<b>>) = <<b.v>>
<1>1. b.v \in Nat
  BY DEF ByteSet
<1>2. Values(data) \in Seq(Nat) /\ Len(Values(data)) = Len(data) /\ \A i \in 1..Len(data) : Values(data)[i] = data[i].v
  BY ValuesType
<1>3. Append(data, b) \in Seq(ByteSet) /\ <<b>> \in Seq(ByteSet)
  OBVIOUS
<1> DEFINE x == Values(Append(data, b))
           y == Append(Values(data), b.v)
<1>4. x \in Seq(Nat) /\ y \in Seq(Nat) /\ Len(x) = Len(data) + 1 /\ Len(y) = Len(data) + 1
  <2>1. x \in Seq(Nat) /\ Len(x) = Len(Append(data, b))
    BY <1>3, ValuesType
  <2>2. Len(Append(data, b)) = Len(data) + 1
    OBVIOUS
  <2>3. y \in Seq(Nat) /\ Len(y) = Len(data) + 1
    BY <1>1, <1>2
  <2> HIDE DEF x, y
  <2> QED
    BY <2>1, <2>2, <2>3
<1>5. ASSUME NEW i \in 1..Len(data) + 1 PROVE x[i] = y[i]
  <2>1. i \in 1..Len(Append(data, b))
    OBVIOUS
  <2>2. x[i] = Append(data, b)[i].v
    BY <1>3, <2>1, ValuesType
  <2>3. CASE i \in 1..Len(data)
    <3>1. Append(data, b)[i] = data[i] /\ y[i] = Values(data)[i]
      BY <1>1, <1>2, <2>3
    <3> QED
      BY <1>2, <2>2, <2>3, <3>1
  <2>4. CASE i = Len(data) + 1
    <3>1. Append(data, b)[i] = b /\ y[i] = b.v
      BY <1>1, <1>2, <2>4
    <3> QED
      BY <2>2, <3>1
  <2>5. i \in 1..Len(data) \/ i = Len(data) + 1
    OBVIOUS
  <2> QED
    BY <2>3, <2>4, <2>5
<1>6. x = y
  <2> HIDE DEF x, y
  <2> QED
    BY <1>4, <1>5
<1>7. Values(<<b>>) = <<b.v>>
  BY DEF Values
<1> QED
  BY <1>6, <1>7

LEMMA MaskedMore ==
    ASSUME NEW data \in Seq(Nat), NEW x \in Nat, NEW mask \in [0..MaskLen - 1 -> Nat], NEW o \in Nat
    PROVE  Masked(Append(data, x), mask, o)
             = Masked(data, mask, o) \o Masked(<<x>>, mask, (o + Len(data)) % MaskLen)
<1> DEFINE n == Len(data)
           p == (o + n) % MaskLen
           u == Masked(Append(data, x), mask, o)
           v == Masked(data, mask, o)
           w == Masked(<<x>>, mask, p)
<1>1. n \in Nat /\ p \in 0..MaskLen - 1 /\ p \in Nat /\ p % MaskLen = p
  <2>1. n \in Nat /\ o + n \in Nat
    OBVIOUS
  <2>2. p \in 0..MaskLen - 1 /\ p \in Nat
    BY <2>1, Parameters
  <2> QED
    BY <2>1, <2>2, Modulo, Parameters
<1>2. Append(data, x) \in Seq(Nat) /\ Len(Append(data, x)) = n + 1 /\ <<x>> \in Seq(Nat) /\ Len(<<x>>) = 1
  OBVIOUS
<1>3. u \in Seq(Nat) /\ Len(u) = n + 1 /\ v \in Seq(Nat) /\ Len(v) = n
  <2> HIDE DEF n
  <2> QED
    BY <1>2, MaskedType DEF n
<1>4. w \in Seq(Nat) /\ Len(w) = 1
  <2> HIDE DEF p
  <2> QED
    BY <1>1, <1>2, MaskedType
<1>5. v \o w \in Seq(Nat) /\ Len(v \o w) = n + 1
  <2> HIDE DEF n, v, w
  <2> QED
    <3>1. v \in Seq(Nat) /\ w \in Seq(Nat)
      BY <1>3, <1>4
    <3>2. v \o w \in Seq(Nat) /\ Len(v \o w) = Len(v) + Len(w)
      BY <3>1, Concatenated, Zenon
    <3> QED
      BY <1>3, <1>4, <3>2
<1>6. ASSUME NEW i \in 1..n + 1 PROVE u[i] = (v \o w)[i]
  <2>1. u[i] = (Append(data, x)[i] + mask[(i - 1 + o) % MaskLen]) % 2
    BY DEF Masked
  <2>2. CASE i \in 1..n
    <3>1. (v \o w)[i] = v[i]
      <4> HIDE DEF n, v, w
      <4> QED
        BY <1>3, <1>4, <2>2, Concatenated
    <3>2. v[i] = (data[i] + mask[(i - 1 + o) % MaskLen]) % 2
      BY <2>2 DEF Masked
    <3>3. Append(data, x)[i] = data[i]
      BY <2>2
    <3> QED
      BY <2>1, <3>1, <3>2, <3>3
  <2>3. CASE i = n + 1
    <3>1. (v \o w)[i] = w[1]
      <4> HIDE DEF n, v, w
      <4> QED
        <5>1. \A j \in 1..Len(w) : (v \o w)[Len(v) + j] = w[j]
          <6>1. v \in Seq(Nat) /\ w \in Seq(Nat)
            BY <1>3, <1>4
          <6> QED
            BY <6>1, Concatenated
        <5>2. 1 \in 1..Len(w)
          BY <1>4
        <5> QED
          BY <1>3, <2>3, <5>1, <5>2
    <3>2. w[1] = (x + mask[(1 - 1 + p) % MaskLen]) % 2
      <4> HIDE DEF p
      <4> QED
        BY DEF Masked
    <3>3. (1 - 1 + p) % MaskLen = p
      <4> HIDE DEF p
      <4>1. 1 - 1 + p = p
        BY <1>1
      <4> QED
        BY <1>1, <4>1
    <3>4. (i - 1 + o) % MaskLen = p
      <4>1. i - 1 + o = o + n
        BY <2>3
      <4> QED
        BY <4>1
    <3>5. Append(data, x)[i] = x
      BY <2>3
    <3> HIDE DEF p, u, v, w, n
    <3> QED
      BY <2>1, <3>1, <3>2, <3>3, <3>4, <3>5
  <2>4. i \in 1..n \/ i = n + 1
    BY <1>1
  <2> QED
    BY <2>2, <2>3, <2>4
<1> HIDE DEF u, v, w, n, p
<1>7. u = v \o w
  <2>1. \A i \in 1..Len(u) : u[i] = (v \o w)[i]
    BY <1>3, <1>6
  <2> QED
    BY <1>3, <1>5, <2>1, SameSequence
<1> QED
  BY <1>7 DEF u, v, w, n, p

\* What a body's bytes are for the message.
Unmasked(c, data) ==
    IF c.masked THEN Masked(Values(data), c.mask, c.mask_offset) ELSE Values(data)

\* A body with data taken from it.
Eaten(c, data) ==
    [c EXCEPT !.frame = "BODY", !.message = @ \o Unmasked(c, data),
              !.mask_offset = IF c.masked THEN (@ + Len(data)) % MaskLen ELSE @,
              !.require = c.require - Len(data)]

LEMMA BodyCaseIs ==
    ASSUME NEW c \in ParserRecord, NEW data \in Seq(ByteSet)
    PROVE  BodyCase(c, data)
             = IF c.require = Len(data) THEN frame_end([Eaten(c, data) EXCEPT !.state = "start"])
               ELSE Eaten(c, data)
<1> DEFINE m == c.message \o Unmasked(c, data)
           o == IF c.masked THEN (c.mask_offset + Len(data)) % MaskLen ELSE c.mask_offset
           d == [c EXCEPT !.frame = "BODY", !.message = m, !.mask_offset = o]
<1>1. Len(Values(data)) = Len(data)
  BY ValuesType
<1>2. frame_body(c, [i \in DOMAIN data |-> data[i].v]) = d
  BY <1>1 DEF frame_body, Unmasked, Values
<1>3. Eaten(c, data) = [c EXCEPT !.frame = "BODY", !.message = m, !.mask_offset = o, !.require = c.require - Len(data)]
  BY DEF Eaten
<1>4. BodyCase(c, data) = IF c.require = Len(data) THEN frame_end([d EXCEPT !.state = "start", !.require = 0])
                          ELSE [d EXCEPT !.require = @ - Len(data)]
  <2> HIDE DEF d
  <2> QED
    BY <1>2 DEF BodyCase
<1> HIDE DEF m, o
<1>5. c.require \in Nat /\ Len(data) \in Nat
  BY DEF ParserRecord
<1>6. c.require = Len(data) => c.require - Len(data) = 0
  BY <1>5
<1>7. [d EXCEPT !.require = @ - Len(data)] = Eaten(c, data)
  <2> DEFINE r == c.require - Len(data)
  <2>1. d.require = c.require
    BY DEF ParserRecord
  <2>2. [d EXCEPT !.require = @ - Len(data)] = [d EXCEPT !.require = r]
    BY <2>1
  <2>3. Eaten(c, data) = [c EXCEPT !.frame = "BODY", !.message = m, !.mask_offset = o, !.require = r]
    BY <1>3
  <2> HIDE DEF r
  <2> QED
    BY <2>2, <2>3 DEF ParserRecord
<1>8. c.require - Len(data) = 0 => [d EXCEPT !.state = "start", !.require = 0] = [Eaten(c, data) EXCEPT !.state = "start"]
  <2> DEFINE r == c.require - Len(data)
  <2>1. Eaten(c, data) = [c EXCEPT !.frame = "BODY", !.message = m, !.mask_offset = o, !.require = r]
    BY <1>3
  <2> HIDE DEF r
  <2>2. [d EXCEPT !.state = "start", !.require = r] = [Eaten(c, data) EXCEPT !.state = "start"]
    BY <2>1 DEF ParserRecord
  <2> QED
    BY <2>2 DEF r
<1> QED
  BY <1>4, <1>6, <1>7, <1>8

LEMMA EatenType ==
    ASSUME NEW c \in ParserRecord, NEW data \in Seq(ByteSet), Len(data) <= c.require
    PROVE  /\ Unmasked(c, data) \in Seq(Nat)
           /\ Eaten(c, data) \in ParserRecord
           /\ Eaten(c, data).state = c.state /\ Eaten(c, data).require = c.require - Len(data)
           /\ Eaten(c, data).masked = c.masked /\ Eaten(c, data).mask = c.mask
           /\ Eaten(c, data).message = c.message \o Unmasked(c, data)
           /\ Eaten(c, data).mask_offset
                = IF c.masked THEN (c.mask_offset + Len(data)) % MaskLen ELSE c.mask_offset
<1>1. c.mask_offset \in Nat /\ c.mask \in [0..MaskLen - 1 -> Nat] /\ c.message \in Seq(Nat)
  BY Parameters DEF ParserRecord
<1>2. Unmasked(c, data) \in Seq(Nat)
  BY <1>1, ValuesType, MaskedType DEF Unmasked
<1> DEFINE m == c.message \o Unmasked(c, data)
           o == IF c.masked THEN (c.mask_offset + Len(data)) % MaskLen ELSE c.mask_offset
           r == c.require - Len(data)
<1>3. m \in Seq(Nat)
  BY <1>1, <1>2
<1>4. o \in 0..MaskLen - 1
  <2>1. c.mask_offset + Len(data) \in Nat /\ c.mask_offset \in 0..MaskLen - 1
    BY <1>1 DEF ParserRecord
  <2>2. (c.mask_offset + Len(data)) % MaskLen \in 0..MaskLen - 1
    BY <2>1, Parameters
  <2> QED
    BY <2>1, <2>2
<1>5. r \in Nat
  BY DEF ParserRecord
<1>6. Eaten(c, data) = [c EXCEPT !.frame = "BODY", !.message = m, !.mask_offset = o, !.require = r]
  BY DEF Eaten
<1> HIDE DEF m, o, r
<1>7. /\ Eaten(c, data) \in ParserRecord
      /\ Eaten(c, data).state = c.state /\ Eaten(c, data).require = r
      /\ Eaten(c, data).masked = c.masked /\ Eaten(c, data).mask = c.mask
      /\ Eaten(c, data).message = m /\ Eaten(c, data).mask_offset = o
  BY <1>3, <1>4, <1>5, <1>6, ZenonT(60) DEF ParserRecord
<1> QED
  BY <1>2, <1>7 DEF m, o, r

\* A byte more of a body.
LEMMA EatenMore ==
    ASSUME NEW c \in ParserRecord, NEW data \in Seq(ByteSet), NEW b \in ByteSet, Len(data) < c.require
    PROVE  Eaten(Eaten(c, data), <<b>>) = Eaten(c, Append(data, b))
<1> DEFINE e == Eaten(c, data)
           n == Len(data)
           x == Append(data, b)
           s == <<b>>
           o == IF c.masked THEN (c.mask_offset + (n + 1)) % MaskLen ELSE c.mask_offset
           r == c.require - (n + 1)
           m == c.message \o Unmasked(c, x)
<1>1. n \in Nat /\ c.require \in Nat /\ c.mask_offset \in Nat /\ x \in Seq(ByteSet) /\ Len(x) = n + 1
      /\ s \in Seq(ByteSet) /\ Len(s) = 1 /\ b.v \in Nat
  BY Parameters DEF ParserRecord, ByteSet
<1>2. /\ Unmasked(c, data) \in Seq(Nat) /\ e \in ParserRecord
      /\ e.require = c.require - n /\ e.masked = c.masked /\ e.mask = c.mask
      /\ e.message = c.message \o Unmasked(c, data)
      /\ e.mask_offset = IF c.masked THEN (c.mask_offset + n) % MaskLen ELSE c.mask_offset
  <2>1. Len(data) <= c.require
    BY DEF ParserRecord
  <2> QED
    BY <2>1, EatenType
<1>3. Values(data) \in Seq(Nat) /\ Len(Values(data)) = n
  BY ValuesType
<1>4. Values(x) = Append(Values(data), b.v) /\ Values(s) = <<b.v>>
  BY ValuesMore
<1>5. c.mask \in [0..MaskLen - 1 -> Nat] /\ c.message \in Seq(Nat)
  BY DEF ParserRecord
<1>6. Unmasked(c, x) = Unmasked(c, data) \o Unmasked(e, s)
  <2>1. CASE c.masked
    <3>1. Masked(Append(Values(data), b.v), c.mask, c.mask_offset)
            = Masked(Values(data), c.mask, c.mask_offset) \o Masked(<<b.v>>, c.mask, (c.mask_offset + n) % MaskLen)
      <4> HIDE DEF n
      <4> QED
        BY <1>1, <1>3, <1>5, MaskedMore, ZenonT(60)
    <3> HIDE DEF e, x, s, n
    <3> QED
      BY <1>2, <1>4, <2>1, <3>1 DEF Unmasked
  <2>2. CASE ~ c.masked
    <3>1. Append(Values(data), b.v) = Values(data) \o <<b.v>>
      BY <1>1, <1>3
    <3> HIDE DEF e, x, s, n
    <3> QED
      BY <1>2, <1>4, <2>2, <3>1 DEF Unmasked
  <2> QED
    BY <2>1, <2>2
<1>7. e.message \o Unmasked(e, s) = m
  <2>1. Unmasked(e, s) \in Seq(Nat)
    <3>1. Len(s) <= e.require
      <4> HIDE DEF e, s, n
      <4> QED
        BY <1>1, <1>2 DEF n
    <3> HIDE DEF e, s, n
    <3> QED
      BY <1>1, <1>2, <3>1, EatenType
  <2> DEFINE q == Unmasked(c, data)
             t == Unmasked(e, s)
  <2>2. q \in Seq(Nat) /\ t \in Seq(Nat)
    BY <1>2, <2>1
  <2> HIDE DEF e, s, x, n, q, t
  <2>3. (c.message \o q) \o t = c.message \o (q \o t)
    <3> DEFINE p == c.message
    <3>1. p \in Seq(Nat)
      BY <1>5
    <3> HIDE DEF p
    <3>2. (p \o q) \o t = p \o (q \o t)
      BY <2>2, <3>1, Associated
    <3> QED
      BY <3>2 DEF p
  <2> QED
    BY <1>2, <1>6, <2>3 DEF q, t
<1>8. (IF e.masked THEN (e.mask_offset + Len(s)) % MaskLen ELSE e.mask_offset) = o
  <2>1. CASE c.masked
    <3> DEFINE a == c.mask_offset + n
    <3>1. a \in Nat /\ c.mask_offset + (n + 1) = a + 1
      BY <1>1
    <3>2. ((a % MaskLen) + 1) % MaskLen = (a + 1) % MaskLen
      <4> HIDE DEF a
      <4> QED
        BY <3>1, Modulo, Parameters
    <3>3. e.mask_offset = a % MaskLen /\ e.masked
      BY <1>2, <2>1
    <3> HIDE DEF a, e, s, n
    <3> QED
      BY <1>1, <2>1, <3>1, <3>2, <3>3
  <2>2. CASE ~ c.masked
    <3> HIDE DEF e, s, n
    <3> QED
      BY <1>2, <2>2
  <2> QED
    BY <2>1, <2>2
<1>9. e.require - Len(s) = r
  <2> HIDE DEF e, s, n
  <2> QED
    BY <1>1, <1>2
<1>10. Eaten(e, s) = [e EXCEPT !.frame = "BODY", !.message = m, !.mask_offset = o, !.require = r]
  <2> HIDE DEF e, s, n, m, o, r
  <2> QED
    BY <1>7, <1>8, <1>9 DEF Eaten
<1>11. Eaten(c, x) = [c EXCEPT !.frame = "BODY", !.message = m, !.mask_offset = o, !.require = r]
  <2> HIDE DEF x, n
  <2> QED
    BY <1>1 DEF Eaten
<1>12. \E f, g, h, i : e = [c EXCEPT !.frame = f, !.message = g, !.mask_offset = h, !.require = i]
  BY DEF Eaten
<1>13. c \in [state : Kinds, length : Nat, require : Nat, fin : BOOLEAN, flags : Nat, masked : BOOLEAN,
     mask : [0..MaskLen - 1 -> Nat], mask_offset : 0..MaskLen - 1,
     frame : {"BEGIN", "HEADER", "BODY", "FIN", "END"}, opcode : Nat, message : Seq(Nat),
     out : Seq(MessageSet)]
  BY DEF ParserRecord
<1> HIDE DEF e, s, x, n, m, o, r
<1>14. PICK f, g, h, i : e = [c EXCEPT !.frame = f, !.message = g, !.mask_offset = h, !.require = i]
  BY <1>12
<1>15. [e EXCEPT !.frame = "BODY", !.message = m, !.mask_offset = o, !.require = r]
         = [c EXCEPT !.frame = "BODY", !.message = m, !.mask_offset = o, !.require = r]
  BY <1>13, <1>14
<1> QED
  BY <1>10, <1>11, <1>15 DEF e, s, x

LEMMA BodyMore ==
    ASSUME NEW c \in ParserSet, c.state = "body", NEW data \in Seq(ByteSet), NEW b \in ByteSet,
           Len(data) < c.require
    PROVE  /\ Feed(Eaten(c, data), b) = BodyCase(c, Append(data, b))
           /\ data # <<>> => BodyCase(c, data) = Eaten(c, data)
<1> DEFINE e == Eaten(c, data)
<1>1. c \in ParserRecord /\ c.require \in Nat /\ Len(data) \in Nat
  BY DEF ParserSet, ParserRecord
<1>2. e \in ParserRecord /\ e.state = "body" /\ e.require = c.require - Len(data)
  BY <1>1, EatenType
<1>3. <<b>> \in Seq(ByteSet) /\ Append(data, b) \in Seq(ByteSet) /\ Len(<<b>>) = 1 /\ Len(Append(data, b)) = Len(data) + 1
  OBVIOUS
<1>4. Feed(e, b) = BodyCase(e, <<b>>)
  <2> HIDE DEF e
  <2> QED
    BY <1>2 DEF Feed, ByState
<1>5. Eaten(e, <<b>>) = Eaten(c, Append(data, b))
  BY <1>1, EatenMore
<1>6. BodyCase(e, <<b>>) = IF e.require = 1 THEN frame_end([Eaten(e, <<b>>) EXCEPT !.state = "start"])
                           ELSE Eaten(e, <<b>>)
  <2> HIDE DEF e
  <2> QED
    BY <1>2, <1>3, BodyCaseIs
<1>7. BodyCase(c, Append(data, b))
        = IF c.require = Len(data) + 1 THEN frame_end([Eaten(c, Append(data, b)) EXCEPT !.state = "start"])
          ELSE Eaten(c, Append(data, b))
  BY <1>1, <1>3, BodyCaseIs
<1>8. e.require = 1 <=> c.require = Len(data) + 1
  <2> HIDE DEF e
  <2> QED
    BY <1>1, <1>2
<1>9. BodyCase(c, data) = Eaten(c, data)
  <2>1. c.require # Len(data)
    BY <1>1
  <2> QED
    BY <1>1, <2>1, BodyCaseIs
<1> HIDE DEF e
<1> QED
  BY <1>4, <1>5, <1>6, <1>7, <1>8, <1>9 DEF e

\* Taking part of a body at once is taking it byte by byte.
LEMMA BodyChunk ==
    ASSUME NEW c \in ParserSet, c.state = "body", NEW data \in Seq(ByteSet), data # <<>>,
           Len(data) <= c.require
    PROVE  BodyCase(c, data) = Path(c, data)[Len(data)]
<1> DEFINE T == {k \in 0..Len(data) : k = 0 \/ Path(c, data)[k] = BodyCase(c, SubSeq(data, 1, k))}
<1>0. Len(data) \in Nat /\ Len(data) # 0 /\ c.require \in Nat /\ c \in ParserRecord
  BY DEF ParserSet, ParserRecord
<1>1. 0 \in T
  BY <1>0
<1>2. ASSUME NEW k \in 0..Len(data) - 1, k \in T PROVE k + 1 \in T
  <2> DEFINE d == SubSeq(data, 1, k)
             b == data[k + 1]
  <2>1. k + 1 \in 1..Len(data) /\ (k + 1) - 1 = k /\ k + 1 \in 0..Len(data) /\ k \in Nat
    BY <1>0
  <2>2. Path(c, data)[k + 1] = Feed(Path(c, data)[k], b)
    BY <1>0, <2>1, Paths
  <2>3. d \in Seq(ByteSet) /\ b \in ByteSet /\ Len(d) = k
    BY <1>0, <2>1
  <2>4. SubSeq(data, 1, k + 1) = Append(d, b)
    BY <1>0, <2>1
  <2>5. Len(d) < c.require
    BY <1>0, <2>1, <2>3
  <2>6. Feed(Eaten(c, d), b) = BodyCase(c, Append(d, b)) /\ (d # <<>> => BodyCase(c, d) = Eaten(c, d))
    <3> HIDE DEF d, b
    <3> QED
      BY <2>3, <2>5, BodyMore
  <2>7. CASE k # 0
    <3>1. d # <<>>
      BY <2>3, <2>7
    <3>2. Path(c, data)[k] = BodyCase(c, d)
      BY <1>2, <2>7
    <3> HIDE DEF d, b
    <3> QED
      BY <2>1, <2>2, <2>4, <2>6, <3>1, <3>2
  <2>8. CASE k = 0
    <3>1. Path(c, data)[k] = c
      BY <1>0, <2>8, Paths
    <3>2. Feed(c, b) = BodyCase(c, <<b>>)
      <4> HIDE DEF b
      <4> QED
        BY DEF Feed, ByState
    <3>3. SubSeq(data, 1, k + 1) = <<b>>
      <4> DEFINE z == SubSeq(data, 1, 1)
      <4>1. z \in Seq(ByteSet) /\ Len(z) = 1 /\ z[1] = data[1]
        BY <1>0
      <4>2. z = <<z[1]>>
        <5> HIDE DEF z
        <5> QED
          BY <4>1
      <4>3. z = <<data[1]>>
        <5> HIDE DEF z
        <5> QED
          BY <4>1, <4>2
      <4> QED
        BY <2>8, <4>3
    <3> HIDE DEF b
    <3> QED
      BY <2>1, <2>2, <3>1, <3>2, <3>3
  <2> QED
    BY <2>7, <2>8
<1>3. Len(data) \in T
  <2>1. \A k \in 0..Len(data) : k \in T
    <3> HIDE DEF T
    <3> QED
      BY <1>0, <1>1, <1>2, Inductive
  <2> QED
    BY <1>0, <2>1
<1>4. SubSeq(data, 1, Len(data)) = data
  OBVIOUS
<1> QED
  BY <1>0, <1>3, <1>4

LEMMA LoopTurns ==
    ASSUME NEW c, NEW data, Len(data) \in Nat
    PROVE  \E g : /\ g[0] = [parser |-> c, rest |-> data]
                  /\ \A k \in 1..Len(data) : g[k] = Turn(g[k - 1])
                  /\ execute(c, data) = g[Len(data)].parser
<1> DEFINE n == Len(data)
           s == [parser |-> c, rest |-> data]
           Is(g, m) == g = [j \in 0..m |-> IF j = 0 THEN s ELSE Turn(g[j - 1])]
           T == {k \in 0..n : \E g : Is(g, k)}
<1>1. 0 \in T
  <2> HIDE DEF s
  <2>1. Is([j \in 0..0 |-> s], 0) /\ 0 \in 0..n
    OBVIOUS
  <2> HIDE DEF Is
  <2> QED
    BY <2>1
<1>2. ASSUME NEW k \in 0..n - 1, k \in T PROVE k + 1 \in T
  <2> HIDE DEF s
  <2>1. PICK g : Is(g, k)
    BY <1>2
  <2> DEFINE h == [j \in 0..k + 1 |-> IF j = k + 1 THEN Turn(g[k]) ELSE g[j]]
  <2>2. \A j \in 0..k + 1 : h[j] = IF j = 0 THEN s ELSE Turn(h[j - 1])
    <3>1. h[0] = s
      BY <2>1
    <3>2. h[k + 1] = Turn(h[(k + 1) - 1])
      OBVIOUS
    <3>3. ASSUME NEW j \in 1..k PROVE h[j] = Turn(h[j - 1])
      <4>1. j \in 0..k /\ j - 1 \in 0..k /\ j \in 0..k + 1 /\ j - 1 \in 0..k + 1 /\ j # k + 1 /\ j - 1 # k + 1 /\ j # 0
        OBVIOUS
      <4>2. h[j] = g[j] /\ h[j - 1] = g[j - 1]
        BY <4>1
      <4> HIDE DEF h
      <4> QED
        BY <2>1, <4>1, <4>2
    <3>4. \A j \in 0..k + 1 : j = 0 \/ j = k + 1 \/ j \in 1..k
      OBVIOUS
    <3>5. \A j \in 0..k + 1 : j = k + 1 => j # 0
      OBVIOUS
    <3>6. \A j \in 1..k : j # 0
      OBVIOUS
    <3> HIDE DEF h
    <3> QED
      BY <3>1, <3>2, <3>3, <3>4, <3>5, <3>6
  <2>3. Is(h, k + 1)
    <3>1. h = [j \in 0..k + 1 |-> h[j]]
      OBVIOUS
    <3> HIDE DEF h
    <3> QED
      BY <2>2, <3>1
  <2>4. k + 1 \in 0..n
    OBVIOUS
  <2> HIDE DEF h, Is
  <2> QED
    BY <2>3, <2>4
<1>3. n \in T
  <2> HIDE DEF T
  <2>1. \A k \in 0..n : k \in T
    BY <1>1, <1>2, Inductive
  <2> QED
    BY <2>1
<1> DEFINE Loop == CHOOSE g : g = [k \in 0..Len(data) |-> IF k = 0 THEN [parser |-> c, rest |-> data] ELSE Turn(g[k - 1])]
<1>4. PICK g : g = [k \in 0..Len(data) |-> IF k = 0 THEN [parser |-> c, rest |-> data] ELSE Turn(g[k - 1])]
  BY <1>3
<1>5. Loop = [k \in 0..Len(data) |-> IF k = 0 THEN [parser |-> c, rest |-> data] ELSE Turn(Loop[k - 1])]
  BY <1>4, Zenon
<1>6. execute(c, data) = Loop[Len(data)].parser
  BY Zenon DEF execute
<1> HIDE DEF Loop
<1>7. Loop[0] = [parser |-> c, rest |-> data]
  BY <1>5
<1>8. \A k \in 1..Len(data) : Loop[k] = Turn(Loop[k - 1])
  BY <1>5
<1> QED
  BY <1>6, <1>7, <1>8

\* Wherever execute is called, it leaves what byte after byte would leave.
LEMMA ExecuteIsPath ==
    ASSUME NEW c \in ParserSet, NEW data \in Seq(ByteSet)
    PROVE  execute(c, data) = Path(c, data)[Len(data)]
<1> DEFINE n == Len(data)
           P == Path(c, data)
<1>0. n \in Nat
  OBVIOUS
<1>1. PICK g : /\ g[0] = [parser |-> c, rest |-> data]
               /\ \A k \in 1..n : g[k] = Turn(g[k - 1])
               /\ execute(c, data) = g[n].parser
  BY <1>0, LoopTurns
<1> DEFINE At(t, j) == t = [parser |-> P[j], rest |-> SubSeq(data, j + 1, n)]
           T == {k \in 0..n : \E j \in k..n : At(g[k], j)}
<1>2. 0 \in T
  <2>1. P[0] = c
    BY <1>0, Paths
  <2>2. SubSeq(data, 0 + 1, n) = data
    OBVIOUS
  <2>3. At(g[0], 0)
    <3> HIDE DEF P, n
    <3> QED
      BY <1>1, <2>1, <2>2
  <2>4. 0 \in 0..n
    BY <1>0
  <2> HIDE DEF At
  <2> QED
    BY <2>3, <2>4
<1>3. ASSUME NEW k \in 0..n - 1, k \in T PROVE k + 1 \in T
  <2>1. PICK j \in k..n : At(g[k], j)
    BY <1>3
  <2> DEFINE rest == SubSeq(data, j + 1, n)
             m == Portion(P[j], rest)
  <2>2. k \in Nat /\ k + 1 \in 1..n /\ k + 1 \in 0..n /\ (k + 1) - 1 = k /\ j \in 0..n
    BY <1>0
  <2>3. g[k + 1] = Turn([parser |-> P[j], rest |-> rest])
    <3> HIDE DEF P, n
    <3> QED
      BY <1>1, <2>1, <2>2
  <2>4. rest \in Seq(ByteSet) /\ Len(rest) = n - j /\ \A i \in 1..n - j : rest[i] = data[j + i]
    BY <2>2
  <2>5. CASE j = n
    <3>1. rest = <<>>
      BY <1>0, <2>5
    <3>2. g[k + 1] = [parser |-> P[j], rest |-> rest]
      <4> HIDE DEF P, rest
      <4> QED
        BY <2>3, <3>1 DEF Turn
    <3>3. At(g[k + 1], j) /\ j \in k + 1..n
      BY <2>2, <2>5, <3>2
    <3> HIDE DEF At
    <3> QED
      BY <2>2, <3>3
  <2>6. CASE j # n
    <3> DEFINE p == P[j]
               part == SubSeq(rest, 1, m)
    <3>1. p \in ParserSet
      BY <2>2, PathType
    <3>2. p.require \in Nat /\ (p.state = "body" => p.require > 0)
      <4> HIDE DEF p
      <4> QED
        BY <3>1 DEF ParserSet, ParserRecord
    <3>3. Len(rest) \in Nat /\ Len(rest) > 0
      <4> HIDE DEF rest, n, P
      <4> QED
        BY <1>0, <2>2, <2>4, <2>6
    <3>4. m \in 1..Len(rest) /\ (p.state # "body" => m = 1) /\ (p.state = "body" => m <= p.require)
      <4> HIDE DEF rest, p
      <4>1. m = IF p.state # "body" THEN 1 ELSE IF p.require < Len(rest) THEN p.require ELSE Len(rest)
        BY DEF Portion, p
      <4> HIDE DEF m
      <4>2. CASE p.state = "body"
        BY <3>2, <3>3, <4>1, <4>2
      <4>3. CASE p.state # "body"
        BY <3>2, <3>3, <4>1, <4>3
      <4> QED
        BY <4>2, <4>3
    <3>5. rest # <<>>
      <4> HIDE DEF rest
      <4> QED
        BY <3>3
    <3>6. g[k + 1] = [parser |-> ByState(p, part), rest |-> SubSeq(rest, m + 1, Len(rest))]
      <4>1. Turn([parser |-> p, rest |-> rest])
              = [parser |-> ByState(p, part), rest |-> SubSeq(rest, m + 1, Len(rest))]
        <5> HIDE DEF rest, P
        <5> QED
          BY <3>5, Zenon DEF Turn, m
      <4> QED
        BY <2>3, <4>1, Zenon
    <3>7. part \in Seq(ByteSet) /\ Len(part) = m /\ \A i \in 1..m : part[i] = rest[i]
      <4> HIDE DEF rest, m
      <4> QED
        BY <2>4, <3>4
    <3>8. Part(part, data, j)
      <4>1. \A i \in 1..m : part[i] = data[j + i]
        <5>1. \A i \in 1..m : i \in 1..n - j
          <6> HIDE DEF rest, m
          <6> QED
            BY <2>4, <3>4
        <5> HIDE DEF rest, m, part
        <5> QED
          BY <2>4, <3>7, <5>1
      <4>2. m \in Nat /\ j \in Nat /\ j + m <= n
        <5> HIDE DEF rest, m
        <5> QED
          BY <1>0, <2>2, <2>4, <3>4
      <4> HIDE DEF part, rest, m
      <4> QED
        BY <1>0, <3>7, <4>1, <4>2 DEF Part
    <3>9. Path(p, part)[m] = P[j + m]
      <4>1. \A i \in 0..Len(part) : Path(p, part)[i] = P[j + i]
        <5> HIDE DEF part
        <5> QED
          BY <3>8, PathFrom
      <4>2. m \in 0..Len(part)
        <5> HIDE DEF part, m
        <5> QED
          BY <3>4, <3>7
      <4> HIDE DEF part, m, P
      <4> QED
        BY <4>1, <4>2
    <3>10. ByState(p, part) = Path(p, part)[m]
      <4>1. CASE p.state = "body"
        <5>1. part # <<>> /\ Len(part) <= p.require
          <6> HIDE DEF part, m, p
          <6> QED
            BY <3>4, <3>7, <4>1
        <5>2. BodyCase(p, part) = Path(p, part)[Len(part)]
          <6> HIDE DEF part, m, p
          <6> QED
            BY <3>1, <3>7, <4>1, <5>1, BodyChunk
        <5>3. ByState(p, part) = BodyCase(p, part)
          <6> HIDE DEF part, m, p
          <6> QED
            BY <4>1 DEF ByState
        <5> HIDE DEF part, m, p
        <5> QED
          BY <3>7, <5>2, <5>3
      <4>2. CASE p.state # "body"
        <5>1. m = 1
          BY <3>4, <4>2
        <5>2. part = <<part[1]>>
          <6> HIDE DEF part, m, p
          <6> QED
            BY <3>7, <5>1
        <5>3. Len(part) = 1 /\ Len(part) \in Nat
          <6> HIDE DEF part, m
          <6> QED
            BY <3>7, <5>1
        <5>4. Path(p, part)[1] = Feed(Path(p, part)[0], part[1]) /\ Path(p, part)[0] = p
          <6> HIDE DEF part, m, p
          <6>1. Len(part) \in Nat
            BY <5>3
          <6>2. Path(p, part)[0] = p /\ \A i \in 1..Len(part) : Path(p, part)[i] = Feed(Path(p, part)[i - 1], part[i])
            BY <6>1, Paths
          <6>3. 1 \in 1..Len(part) /\ 1 - 1 = 0
            BY <5>3
          <6> QED
            BY <6>2, <6>3
        <5> HIDE DEF part, m, p
        <5> QED
          BY <5>1, <5>2, <5>3, <5>4 DEF Feed
      <4> QED
        BY <4>1, <4>2
    <3>11. SubSeq(rest, m + 1, Len(rest)) = SubSeq(data, (j + m) + 1, n)
      <4> DEFINE x == SubSeq(rest, m + 1, Len(rest))
                 y == SubSeq(data, (j + m) + 1, n)
      <4>1. m \in 1..n - j /\ m \in Nat /\ j \in Nat
        <5> HIDE DEF rest, m
        <5> QED
          BY <2>2, <2>4, <3>4
      <4>2. x \in Seq(ByteSet) /\ Len(x) = n - j - m /\ \A i \in 1..n - j - m : x[i] = rest[m + i]
        <5>1. m \in 0..Len(rest)
          <6> HIDE DEF rest, m, n
          <6> QED
            BY <2>4, <4>1
        <5>2. x \in Seq(ByteSet) /\ Len(x) = Len(rest) - m /\ \A i \in 1..Len(rest) - m : x[i] = rest[m + i]
          <6> HIDE DEF rest, m, n
          <6> QED
            BY <2>4, <5>1, Rest
        <5> HIDE DEF x, rest, m, n
        <5> QED
          BY <2>4, <5>2
      <4>3. y \in Seq(ByteSet) /\ Len(y) = n - j - m /\ \A i \in 1..n - j - m : y[i] = data[j + m + i]
        <5> HIDE DEF rest, m
        <5> QED
          BY <4>1
      <4>4. \A i \in 1..n - j - m : rest[m + i] = data[j + m + i]
        <5>1. ASSUME NEW i \in 1..n - j - m PROVE m + i \in 1..n - j /\ j + (m + i) = j + m + i
          <6> HIDE DEF rest, m
          <6> QED
            BY <4>1
        <5> HIDE DEF rest, m
        <5> QED
          BY <2>4, <5>1
      <4> HIDE DEF rest, m, n, x, y
      <4> QED
        <5>1. Len(x) = Len(y) /\ \A i \in 1..Len(x) : x[i] = y[i]
          BY <4>2, <4>3, <4>4
        <5>2. x \in Seq(ByteSet) /\ y \in Seq(ByteSet)
          BY <4>2, <4>3
        <5>3. x = y
          BY <5>1, <5>2, SameSequence
        <5> QED
          BY <5>3 DEF x, y
    <3>12. At(g[k + 1], j + m)
      <4> HIDE DEF P, n, rest, m, part
      <4> QED
        BY <3>6, <3>9, <3>10, <3>11
    <3>13. j + m \in k + 1..n
      <4> HIDE DEF rest, m
      <4> QED
        BY <1>0, <2>2, <2>4, <3>4
    <3> HIDE DEF At, m
    <3> QED
      BY <2>2, <3>12, <3>13
  <2> QED
    BY <2>5, <2>6
<1>4. n \in T
  <2>1. \A k \in 0..n : k \in T
    <3> HIDE DEF T
    <3> QED
      BY <1>0, <1>2, <1>3, Inductive
  <2>2. n \in 0..n
    BY <1>0
  <2> HIDE DEF T, n
  <2> QED
    BY <2>1, <2>2
<1>5. PICK j \in n..n : At(g[n], j)
  BY <1>4
<1>6. j = n
  BY <1>0
<1> HIDE DEF P, n
<1> QED
  BY <1>1, <1>5, <1>6 DEF P, n

-----------------------------------------------------------------------------
(* What was handed out before makes no difference.                           *)

After(o, c) == [c EXCEPT !.out = o \o @]

LEMMA AfterType ==
    ASSUME NEW c \in ParserRecord, NEW o \in Seq(MessageSet)
    PROVE  /\ After(o, c) \in ParserRecord /\ (c \in ParserSet => After(o, c) \in ParserSet)
           /\ After(o, c).state = c.state /\ After(o, c).require = c.require
<1>1. o \o c.out \in Seq(MessageSet)
  BY DEF ParserRecord
<1>2. /\ After(o, c) \in ParserRecord /\ After(o, c).state = c.state /\ After(o, c).require = c.require
  BY <1>1 DEF After, ParserRecord
<1> QED
  BY <1>2 DEF ParserSet

LEMMA HeaderAfter ==
    ASSUME NEW c \in ParserRecord, NEW o \in Seq(MessageSet)
    PROVE  frame_header(After(o, c)) = After(o, frame_header(c))
<1> DEFINE p == IF c.flags # CONTINUE THEN c.flags ELSE c.opcode
           m == IF c.frame \in {"BEGIN", "FIN"} THEN <<>> ELSE c.message
           d == After(o, c)
<1>1. d.flags = c.flags /\ d.opcode = c.opcode /\ d.frame = c.frame /\ d.message = c.message
  BY DEF After, ParserRecord
<1>2. frame_header(d) = [d EXCEPT !.opcode = p, !.message = m, !.frame = "HEADER"]
  <2> HIDE DEF d
  <2> QED
    BY <1>1 DEF frame_header
<1>3. frame_header(c) = [c EXCEPT !.opcode = p, !.message = m, !.frame = "HEADER"]
  BY DEF frame_header
<1> HIDE DEF p, m
<1> QED
  BY <1>2, <1>3 DEF After, ParserRecord

LEMMA Appended ==
    \A o, q \in Seq(MessageSet) : \A m \in MessageSet : Append(o \o q, m) = o \o Append(q, m)
<1> SUFFICES ASSUME NEW o \in Seq(MessageSet), NEW q \in Seq(MessageSet), NEW m \in MessageSet
             PROVE  Append(o \o q, m) = o \o Append(q, m)
  OBVIOUS
<1> DEFINE x == Append(o \o q, m)
           y == o \o Append(q, m)
           n == Len(o) + Len(q) + 1
<1>1. x \in Seq(MessageSet) /\ Len(x) = n
  OBVIOUS
<1>2. y \in Seq(MessageSet) /\ Len(y) = n
  OBVIOUS
<1>3. \A i \in 1..n : x[i] = y[i]
  OBVIOUS
<1>4. x = y
  <2> HIDE DEF x, y, n
  <2> QED
    BY <1>1, <1>2, <1>3
<1> QED
  BY <1>4

LEMMA EndAfter ==
    ASSUME NEW c \in ParserRecord, NEW o \in Seq(MessageSet)
    PROVE  frame_end(After(o, c)) = After(o, frame_end(c))
<1> DEFINE d == After(o, c)
           m == Message(c.opcode, c.message)
<1>1. d.fin = c.fin /\ d.opcode = c.opcode /\ d.message = c.message /\ d.out = o \o c.out
  BY DEF After, ParserRecord
<1>2. m \in MessageSet /\ c.out \in Seq(MessageSet)
  BY DEF Message, MessageSet, ParserRecord
<1>3. Append(o \o c.out, m) = o \o Append(c.out, m)
  <2> DEFINE q == c.out
  <2>1. q \in Seq(MessageSet)
    BY <1>2
  <2> HIDE DEF m, q
  <2>2. Append(o \o q, m) = o \o Append(q, m)
    BY <1>2, <2>1, Appended
  <2> QED
    BY <2>2 DEF q
<1>4. frame_end(d) = [d EXCEPT !.frame = IF c.fin THEN "FIN" ELSE "END", !.out = IF c.fin THEN Append(o \o c.out, m) ELSE @]
  <2> HIDE DEF d
  <2> QED
    BY <1>1 DEF frame_end
<1> HIDE DEF m
<1>5. frame_end(c) = [c EXCEPT !.frame = IF c.fin THEN "FIN" ELSE "END", !.out = IF c.fin THEN Append(@, m) ELSE @]
  BY DEF frame_end, m
<1>6. CASE c.fin
  <2>1. frame_end(d) = [d EXCEPT !.frame = "FIN", !.out = o \o Append(c.out, m)]
    BY <1>3, <1>4, <1>6
  <2>2. frame_end(c) = [c EXCEPT !.frame = "FIN", !.out = Append(c.out, m)]
    BY <1>5, <1>6
  <2> DEFINE q == Append(c.out, m)
  <2>3. frame_end(d) = [d EXCEPT !.frame = "FIN", !.out = o \o q] /\ frame_end(c) = [c EXCEPT !.frame = "FIN", !.out = q]
    BY <2>1, <2>2
  <2> HIDE DEF q
  <2> QED
    BY <2>3 DEF After, ParserRecord
<1>7. CASE ~ c.fin
  <2>1. frame_end(d) = [d EXCEPT !.frame = "END"]
    <3>1. frame_end(d) = [d EXCEPT !.frame = "END", !.out = d.out]
      BY <1>4, <1>7
    <3> QED
      BY <3>1 DEF After, ParserRecord
  <2>2. frame_end(c) = [c EXCEPT !.frame = "END"]
    <3>1. frame_end(c) = [c EXCEPT !.frame = "END", !.out = c.out]
      BY <1>5, <1>7
    <3> QED
      BY <3>1 DEF ParserRecord
  <2> QED
    BY <2>1, <2>2 DEF After, ParserRecord
<1> QED
  BY <1>6, <1>7

LEMMA HeadedAfter ==
    ASSUME NEW c \in ParserRecord, NEW o \in Seq(MessageSet)
    PROVE  Headed(After(o, c)) = After(o, Headed(c))
<1>1. After(o, c).length = c.length
  BY DEF After, ParserRecord
<1>2. CASE c.length > 0
  <2> DEFINE d == [c EXCEPT !.state = "body", !.require = c.length]
  <2>1. d \in ParserRecord
    BY DEF ParserRecord, Kinds
  <2>2. [After(o, c) EXCEPT !.state = "body", !.require = c.length] = After(o, d)
    BY DEF After, ParserRecord
  <2>3. Headed(c) = frame_header(d) /\ Headed(After(o, c)) = frame_header(After(o, d))
    <3> HIDE DEF d
    <3> QED
      BY <1>1, <1>2, <2>2 DEF Headed, d
  <2> HIDE DEF d
  <2> QED
    BY <2>1, <2>3, HeaderAfter
<1>3. CASE ~ (c.length > 0)
  <2> DEFINE d == [c EXCEPT !.state = "start"]
  <2>1. d \in ParserRecord
    BY DEF ParserRecord, Kinds
  <2>2. [After(o, c) EXCEPT !.state = "start"] = After(o, d)
    BY DEF After, ParserRecord
  <2>3. Headed(c) = frame_end(frame_header(d)) /\ Headed(After(o, c)) = frame_end(frame_header(After(o, d)))
    <3> HIDE DEF d
    <3> QED
      BY <1>1, <1>3, <2>2 DEF Headed, d
  <2> HIDE DEF d
  <2>4. frame_header(After(o, d)) = After(o, frame_header(d)) /\ frame_header(d) \in ParserRecord
    BY <2>1, HeaderAfter, HeaderType
  <2> QED
    BY <2>3, <2>4, EndAfter
<1> QED
  BY <1>2, <1>3

LEMMA MeasuredAfter ==
    ASSUME NEW c \in ParserRecord, NEW o \in Seq(MessageSet)
    PROVE  Measured(After(o, c)) = After(o, Measured(c))
<1>1. After(o, c).masked = c.masked
  BY DEF After, ParserRecord
<1>2. [After(o, c) EXCEPT !.state = "mask", !.require = MaskLen] = After(o, [c EXCEPT !.state = "mask", !.require = MaskLen])
  BY DEF After, ParserRecord
<1> QED
  BY <1>1, <1>2, HeadedAfter DEF Measured

LEMMA BodyAfter ==
    ASSUME NEW c \in ParserRecord, NEW o \in Seq(MessageSet), NEW data \in Seq(ByteSet),
           Len(data) <= c.require
    PROVE  BodyCase(After(o, c), data) = After(o, BodyCase(c, data))
<1> DEFINE d == After(o, c)
           e == Eaten(c, data)
           f == [e EXCEPT !.state = "start"]
<1>1. d \in ParserRecord /\ d.require = c.require
  BY AfterType
<1>2. e \in ParserRecord
  BY EatenType
<1>3. Eaten(d, data) = After(o, e)
  <2>1. d.masked = c.masked /\ d.mask = c.mask /\ d.mask_offset = c.mask_offset /\ d.message = c.message
    BY DEF After, ParserRecord
  <2>2. Unmasked(d, data) = Unmasked(c, data)
    <3> HIDE DEF d
    <3> QED
      BY <2>1 DEF Unmasked
  <2> DEFINE m == c.message \o Unmasked(c, data)
             p == IF c.masked THEN (c.mask_offset + Len(data)) % MaskLen ELSE c.mask_offset
             r == c.require - Len(data)
  <2>3. Eaten(d, data) = [d EXCEPT !.frame = "BODY", !.message = m, !.mask_offset = p, !.require = r]
    <3> HIDE DEF d
    <3> QED
      BY <1>1, <2>1, <2>2 DEF Eaten
  <2>4. e = [c EXCEPT !.frame = "BODY", !.message = m, !.mask_offset = p, !.require = r]
    BY DEF Eaten
  <2> HIDE DEF m, p, r, e
  <2> QED
    BY <2>3, <2>4 DEF After, ParserRecord
<1>4. f \in ParserRecord
  <2> HIDE DEF e
  <2> QED
    BY <1>2 DEF ParserRecord, Kinds
<1>5. [After(o, e) EXCEPT !.state = "start"] = After(o, f)
  <2> HIDE DEF e
  <2> QED
    BY <1>2 DEF After, ParserRecord
<1>6. frame_end(After(o, f)) = After(o, frame_end(f))
  <2> HIDE DEF f
  <2> QED
    BY <1>4, EndAfter
<1>7. BodyCase(c, data) = IF c.require = Len(data) THEN frame_end(f) ELSE e
  BY BodyCaseIs
<1>8. BodyCase(d, data) = IF d.require = Len(data) THEN frame_end([Eaten(d, data) EXCEPT !.state = "start"]) ELSE Eaten(d, data)
  <2> HIDE DEF d
  <2> QED
    BY <1>1, BodyCaseIs
<1> HIDE DEF d, e, f
<1>9. BodyCase(d, data) = After(o, BodyCase(c, data))
  BY <1>1, <1>3, <1>5, <1>6, <1>7, <1>8
<1> QED
  BY <1>9 DEF d

LEMMA FeedAfter ==
    ASSUME NEW c \in ParserSet, NEW o \in Seq(MessageSet), NEW b \in ByteSet
    PROVE  Feed(After(o, c), b) = After(o, Feed(c, b))
<1> DEFINE q == After(o, c)
<1>1. c \in ParserRecord /\ q \in ParserRecord /\ q.state = c.state /\ q.require = c.require
      /\ b.v \in Nat /\ b.f \in BOOLEAN
  <2>1. c \in ParserRecord
    BY DEF ParserSet
  <2> QED
    BY <2>1, AfterType DEF ByteSet
<1>2. Head(<<b>>) = b /\ <<b>> \in Seq(ByteSet) /\ Len(<<b>>) = 1
  OBVIOUS
<1>3. CASE c.state = "start"
  <2>1. Feed(c, b) = StartCase(c, b) /\ Feed(q, b) = StartCase(q, b)
    <3> HIDE DEF q
    <3> QED
      BY <1>1, <1>2, <1>3 DEF Feed, ByState
  <2>2. StartCase(q, b) = After(o, StartCase(c, b))
    BY <1>1 DEF StartCase, After, ParserRecord
  <2> QED
    BY <2>1, <2>2
<1>4. CASE c.state = "head"
  <2>1. Feed(c, b) = HeadCase(c, b) /\ Feed(q, b) = HeadCase(q, b)
    <3> HIDE DEF q
    <3> QED
      BY <1>1, <1>2, <1>4 DEF Feed, ByState
  <2> DEFINE d == [c EXCEPT !.masked = b.f, !.length = b.v]
             r == IF b.v = Short + 2 THEN Digits8 ELSE Digits2
             e == [d EXCEPT !.length = 0, !.state = "length", !.require = r]
  <2>2. d \in ParserRecord
    BY <1>1 DEF ParserRecord
  <2>3. [q EXCEPT !.masked = b.f, !.length = b.v] = After(o, d)
    BY <1>1 DEF After, ParserRecord
  <2>4. [After(o, d) EXCEPT !.length = 0, !.state = "length", !.require = r] = After(o, e)
    <3> HIDE DEF d, r
    <3> QED
      BY <2>2 DEF After, ParserRecord
  <2>5. HeadCase(c, b) = IF b.v <= Short THEN Measured(d) ELSE e
    BY DEF HeadCase
  <2>6. HeadCase(q, b) = IF b.v <= Short THEN Measured(After(o, d)) ELSE After(o, e)
    <3> HIDE DEF q, d
    <3> QED
      BY <2>3, <2>4 DEF HeadCase
  <2> HIDE DEF q, d, e
  <2>7. Measured(After(o, d)) = After(o, Measured(d))
    BY <2>2, MeasuredAfter
  <2> QED
    BY <2>1, <2>5, <2>6, <2>7 DEF q
<1>5. CASE c.state = "length"
  <2>1. Feed(c, b) = LengthCase(c, b) /\ Feed(q, b) = LengthCase(q, b)
    <3> HIDE DEF q
    <3> QED
      BY <1>1, <1>2, <1>5 DEF Feed, ByState
  <2> DEFINE l == Radix * c.length + b.v
             r == c.require - 1
             d == [c EXCEPT !.length = l, !.require = r]
  <2>2. c.length \in Nat /\ c.require \in Nat /\ c.require > 0
    BY <1>1, <1>5 DEF ParserSet, ParserRecord
  <2>3. l \in Nat
    <3>1. \A x, y, z \in Nat : x * y + z \in Nat
      OBVIOUS
    <3> QED
      BY <1>1, <2>2, <3>1, Parameters
  <2>4. r \in Nat
    BY <2>2
  <2>5. q.length = c.length
    BY <1>1 DEF After, ParserRecord
  <2>6. LengthCase(c, b) = IF d.require = 0 THEN Measured(d) ELSE d
    BY DEF LengthCase
  <2>7. [q EXCEPT !.length = Radix * @ + b.v, !.require = @ - 1] = [q EXCEPT !.length = l, !.require = r]
    <3> HIDE DEF q
    <3> QED
      BY <1>1, <2>5
  <2> HIDE DEF l, r
  <2>8. d \in ParserRecord
    BY <1>1, <2>3, <2>4 DEF ParserRecord
  <2>9. [q EXCEPT !.length = l, !.require = r] = After(o, d) /\ After(o, d).require = d.require
    BY <1>1 DEF After, ParserRecord
  <2>10. LengthCase(q, b) = IF After(o, d).require = 0 THEN Measured(After(o, d)) ELSE After(o, d)
    <3> HIDE DEF q, d
    <3> QED
      BY <2>7, <2>9 DEF LengthCase
  <2> HIDE DEF q, d
  <2>11. Measured(After(o, d)) = After(o, Measured(d))
    BY <2>8, MeasuredAfter
  <2> QED
    BY <2>1, <2>6, <2>9, <2>10, <2>11 DEF q
<1>6. CASE c.state = "mask"
  <2>1. Feed(c, b) = MaskCase(c, b) /\ Feed(q, b) = MaskCase(q, b)
    <3> HIDE DEF q
    <3> QED
      BY <1>1, <1>2, <1>6 DEF Feed, ByState
  <2> DEFINE m == [c.mask EXCEPT ![MaskLen - c.require] = b.v]
             r == c.require - 1
             d == [c EXCEPT !.mask = m, !.require = r]
  <2>2. c.require \in Nat /\ c.require > 0
    BY <1>1, <1>6 DEF ParserSet, ParserRecord
  <2>3. r \in Nat
    BY <2>2
  <2>4. m \in [0..MaskLen - 1 -> Nat]
    BY <1>1 DEF ParserRecord
  <2>5. q.mask = c.mask
    BY <1>1 DEF After, ParserRecord
  <2>6. MaskCase(c, b) = IF d.require = 0 THEN Headed(d) ELSE d
    BY DEF MaskCase
  <2>7. [q EXCEPT !.mask[MaskLen - q.require] = b.v, !.require = @ - 1] = [q EXCEPT !.mask = m, !.require = r]
    <3> HIDE DEF q
    <3> QED
      BY <1>1, <2>5
  <2> HIDE DEF m, r
  <2>8. d \in ParserRecord
    BY <1>1, <2>3, <2>4 DEF ParserRecord
  <2>9. [q EXCEPT !.mask = m, !.require = r] = After(o, d) /\ After(o, d).require = d.require
    BY <1>1 DEF After, ParserRecord
  <2>10. MaskCase(q, b) = IF After(o, d).require = 0 THEN Headed(After(o, d)) ELSE After(o, d)
    <3> HIDE DEF q, d
    <3> QED
      BY <2>7, <2>9 DEF MaskCase
  <2> HIDE DEF q, d
  <2>11. Headed(After(o, d)) = After(o, Headed(d))
    BY <2>8, HeadedAfter
  <2> QED
    BY <2>1, <2>6, <2>9, <2>10, <2>11 DEF q
<1>7. CASE c.state = "body"
  <2>1. Feed(c, b) = BodyCase(c, <<b>>) /\ Feed(q, b) = BodyCase(q, <<b>>)
    <3> HIDE DEF q
    <3> QED
      BY <1>1, <1>7 DEF Feed, ByState
  <2>2. Len(<<b>>) <= c.require
    BY <1>1, <1>2, <1>7 DEF ParserSet, ParserRecord
  <2> QED
    BY <1>1, <1>2, <2>1, <2>2, BodyAfter
<1>8. c.state \in {"start", "head", "length", "mask", "body"}
  BY <1>1 DEF ParserRecord, Kinds
<1> QED
  BY <1>3, <1>4, <1>5, <1>6, <1>7, <1>8

LEMMA PathAfter ==
    ASSUME NEW c \in ParserSet, NEW o \in Seq(MessageSet), NEW w \in Seq(ByteSet)
    PROVE  \A k \in 0..Len(w) : Path(After(o, c), w)[k] = After(o, Path(c, w)[k])
<1> DEFINE h == [k \in 0..Len(w) |-> After(o, Path(c, w)[k])]
<1>0. Len(w) \in Nat
  OBVIOUS
<1>1. h[0] = After(o, c)
  <2>1. Path(c, w)[0] = c /\ 0 \in 0..Len(w)
    BY <1>0, Paths
  <2> QED
    BY <2>1
<1>2. ASSUME NEW k \in 1..Len(w) PROVE h[k] = Feed(h[k - 1], w[k])
  <2>1. k \in 0..Len(w) /\ k - 1 \in 0..Len(w) /\ w[k] \in ByteSet
    OBVIOUS
  <2>2. Path(c, w)[k] = Feed(Path(c, w)[k - 1], w[k])
    BY <1>0, Paths
  <2>3. Path(c, w)[k - 1] \in ParserSet
    BY <2>1, PathType
  <2>4. Feed(After(o, Path(c, w)[k - 1]), w[k]) = After(o, Feed(Path(c, w)[k - 1], w[k]))
    BY <2>1, <2>3, FeedAfter
  <2>5. h[k] = After(o, Path(c, w)[k]) /\ h[k - 1] = After(o, Path(c, w)[k - 1])
    BY <2>1
  <2> HIDE DEF h
  <2> QED
    BY <2>2, <2>4, <2>5
<1>3. \A k \in 0..Len(w) : Path(After(o, c), w)[k] = h[k]
  <2> HIDE DEF h
  <2> QED
    BY <1>0, <1>1, <1>2, PathIs
<1> QED
  BY <1>3

-----------------------------------------------------------------------------
(* The parts of a frame.                                                     *)

\* What no byte of a header but the first one changes.
Carried(c, d) ==
    /\ d \in ParserRecord
    /\ d.fin = c.fin /\ d.flags = c.flags /\ d.frame = c.frame /\ d.opcode = c.opcode
    /\ d.message = c.message /\ d.out = c.out /\ d.mask_offset = c.mask_offset

LEMMA LedByOne ==
    ASSUME NEW c, NEW b, b.k = c.state
    PROVE  Leads(c, <<b>>, Feed(c, b))
<1> DEFINE w == <<b>>
           h == [k \in 0..1 |-> IF k = 0 THEN c ELSE Feed(c, b)]
<1>1. Len(w) = 1 /\ w[1] = b
  OBVIOUS
<1>2. h[0] = c /\ h[1] = Feed(c, b)
  OBVIOUS
<1>3. \A k \in 1..1 : k = 1 /\ k - 1 = 0
  OBVIOUS
<1> HIDE DEF w, h
<1>4. Len(w) \in Nat
  BY <1>1
<1>5. \A k \in 1..Len(w) : w[k].k = h[k - 1].state /\ h[k] = Feed(h[k - 1], w[k])
  BY <1>1, <1>2, <1>3
<1>6. Leads(c, w, h[Len(w)])
  BY <1>2, <1>4, <1>5, LedBy
<1> QED
  BY <1>1, <1>2, <1>6 DEF w

LEMMA AsSequence ==
    ASSUME NEW n \in Nat, NEW f \in [1..n -> ByteSet]
    PROVE  f \in Seq(ByteSet) /\ Len(f) = n
OBVIOUS

LEMMA BytesType ==
    ASSUME NEW k \in Kinds, NEW values \in Seq(Nat)
    PROVE  /\ Bytes(k, values) \in Seq(ByteSet) /\ Len(Bytes(k, values)) = Len(values)
           /\ \A i \in 1..Len(values) : Bytes(k, values)[i] = Byte(k, values[i], FALSE)
           /\ Values(Bytes(k, values)) = values
<1> DEFINE w == Bytes(k, values)
<1>1. DOMAIN values = 1..Len(values) /\ \A i \in 1..Len(values) : values[i] \in Nat
  OBVIOUS
<1>2. \A x \in Nat : Byte(k, x, FALSE) \in ByteSet /\ Byte(k, x, FALSE).v = x
  BY DEF Byte, ByteSet
<1>3. DOMAIN w = 1..Len(values) /\ \A i \in 1..Len(values) : w[i] = Byte(k, values[i], FALSE)
  BY <1>1 DEF Bytes
<1>4. w \in Seq(ByteSet) /\ Len(w) = Len(values)
  <2>1. w = [i \in 1..Len(values) |-> Byte(k, values[i], FALSE)]
    BY <1>1 DEF Bytes
  <2>2. w \in [1..Len(values) -> ByteSet]
    BY <1>1, <1>2, <2>1
  <2>3. Len(values) \in Nat
    OBVIOUS
  <2> HIDE DEF w
  <2> QED
    BY <2>2, <2>3, AsSequence
<1>5. Values(w) = values
  <2>1. Values(w) \in Seq(Nat) /\ Len(Values(w)) = Len(w) /\ \A i \in 1..Len(w) : Values(w)[i] = w[i].v
    <3> HIDE DEF w
    <3> QED
      BY <1>4, ValuesType
  <2>2. \A i \in 1..Len(values) : Values(w)[i] = values[i]
    <3> HIDE DEF w
    <3> QED
      BY <1>1, <1>2, <1>3, <1>4, <2>1
  <2> DEFINE v == Values(w)
  <2>3. v \in Seq(Nat) /\ Len(v) = Len(values) /\ \A i \in 1..Len(v) : v[i] = values[i]
    <3> HIDE DEF w
    <3> QED
      BY <1>4, <2>1, <2>2
  <2> HIDE DEF w, v
  <2>4. v = values
    BY <2>3, SameSequence
  <2> QED
    BY <2>4 DEF v
<1> QED
  BY <1>3, <1>4, <1>5

LEMMA DigitsType ==
    ASSUME NEW n \in Nat, NEW d \in Nat
    PROVE  /\ DigitsOf(n, d) \in Seq(ByteSet) /\ Len(DigitsOf(n, d)) = d
           /\ \A i \in 1..d : DigitsOf(n, d)[i] = Byte("length", (n \div Weight[d - i]) % Radix, FALSE)
<1>1. ASSUME NEW i \in 1..d PROVE Byte("length", (n \div Weight[d - i]) % Radix, FALSE) \in ByteSet
  <2>1. Weight[d - i] \in Nat \ {0}
    <3>1. d - i \in Nat
      OBVIOUS
    <3> QED
      BY <3>1, Weights
  <2>2. n \div Weight[d - i] \in Nat
    BY <2>1
  <2>3. (n \div Weight[d - i]) % Radix \in Nat
    BY <2>2, Parameters
  <2> QED
    BY <2>3 DEF Byte, ByteSet, Kinds
<1>2. DigitsOf(n, d) \in [1..d -> ByteSet]
  BY <1>1 DEF DigitsOf
<1>3. \A i \in 1..d : DigitsOf(n, d)[i] = Byte("length", (n \div Weight[d - i]) % Radix, FALSE)
  BY DEF DigitsOf
<1> QED
  BY <1>2, <1>3, AsSequence

LEMMA DigitsLeg ==
    ASSUME NEW n \in Nat, NEW D \in Nat \ {0}, n < Weight[D],
           NEW e \in ParserRecord, e.state = "length", e.length = 0, e.require = D
    PROVE  \E d : /\ Leads(e, DigitsOf(n, D), Measured(d)) /\ Carried(e, d)
                  /\ d.masked = e.masked /\ d.length = n
<1> DEFINE w == DigitsOf(n, D)
           L(i) == n \div Weight[D - i]
           H(i) == [e EXCEPT !.length = L(i), !.require = D - i]
           h == [i \in 0..D |-> IF i < D THEN H(i) ELSE Measured(H(D))]
<1>1. w \in Seq(ByteSet) /\ Len(w) = D /\ \A i \in 1..D : w[i] = Byte("length", L(i) % Radix, FALSE)
  BY DigitsType
<1>2. ASSUME NEW i \in 0..D PROVE Weight[D - i] \in Nat \ {0} /\ L(i) \in Nat
  <2>1. D - i \in Nat
    OBVIOUS
  <2>2. Weight[D - i] \in Nat \ {0}
    BY <2>1, Weights
  <2> QED
    BY <2>2
<1>3. L(0) = 0 /\ L(D) = n
  <2>1. ASSUME NEW m \in Nat \ {0}, n < m PROVE n \div m = 0
    <3>1. n \in 0..m - 1 /\ m * 0 + n = n
      BY <2>1
    <3>2. (m * 0 + n) \div m = 0
      BY <3>1, Divided
    <3> QED
      BY <3>1, <3>2
  <2>2. D - 0 = D /\ D - D = 0 /\ Weight[D] \in Nat \ {0} /\ Weight[0] = 1
    BY Weights
  <2>3. n \div 1 = n
    OBVIOUS
  <2> QED
    BY <2>1, <2>2, <2>3
<1>4. ASSUME NEW i \in 1..D PROVE Radix * L(i - 1) + (L(i) % Radix) = L(i)
  <2>1. D - i \in Nat /\ D - (i - 1) = (D - i) + 1
    OBVIOUS
  <2>2. Weight[(D - i) + 1] = Radix * Weight[D - i] /\ Weight[D - i] \in Nat \ {0}
    BY <2>1, Weights
  <2>3. Radix * (n \div (Radix * Weight[D - i])) + ((n \div Weight[D - i]) % Radix) = n \div Weight[D - i]
    <3> DEFINE W == Weight[D - i]
    <3>1. W \in Nat \ {0}
      BY <2>2
    <3> HIDE DEF W
    <3>2. Radix * (n \div (Radix * W)) + ((n \div W) % Radix) = n \div W
      <4>1. Radix \in Nat \ {0}
        BY Parameters
      <4> QED
        BY <3>1, <4>1, Digit, Zenon
    <3> QED
      BY <3>2 DEF W
  <2> QED
    BY <2>1, <2>2, <2>3
<1> HIDE DEF L, w
<1>5. ASSUME NEW i \in 0..D
      PROVE  /\ H(i) \in ParserRecord /\ H(i).state = "length" /\ H(i).length = L(i) /\ H(i).require = D - i
             /\ Carried(e, H(i)) /\ H(i).masked = e.masked
  <2>1. L(i) \in Nat /\ D - i \in Nat
    BY <1>2
  <2> DEFINE l == L(i)
             r == D - i
  <2> HIDE DEF l, r
  <2>2. [e EXCEPT !.length = l, !.require = r] \in ParserRecord
    BY <2>1 DEF ParserRecord, l, r
  <2> QED
    BY <2>2 DEF Carried, ParserRecord, l, r
<1>6. H(0) = e
  <2>1. D - 0 = D
    OBVIOUS
  <2> QED
    BY <1>3, <2>1 DEF ParserRecord
<1>7. ASSUME NEW i \in 1..D
      PROVE  Feed(H(i - 1), w[i]) = IF i = D THEN Measured(H(i)) ELSE H(i)
  <2> DEFINE p == H(i - 1)
             b == w[i]
  <2>1. i - 1 \in 0..D /\ i \in 0..D /\ D - (i - 1) \in Int /\ (D - (i - 1)) - 1 = D - i /\ (D - i = 0 <=> i = D)
    OBVIOUS
  <2>2. p \in ParserRecord /\ p.state = "length" /\ p.length = L(i - 1) /\ p.require = D - (i - 1)
    BY <1>5, <2>1
  <2>3. b.v = L(i) % Radix
    BY <1>1 DEF Byte
  <2>4. Feed(p, b) = LengthCase(p, b)
    <3>1. Head(<<b>>) = b
      OBVIOUS
    <3> HIDE DEF p, b
    <3> QED
      BY <2>2, <3>1 DEF Feed, ByState
  <2>5. Radix * p.length + b.v = L(i) /\ p.require - 1 = D - i
    <3> HIDE DEF p, b
    <3> QED
      BY <1>4, <2>1, <2>2, <2>3
  <2>6. [p EXCEPT !.length = Radix * @ + b.v, !.require = @ - 1] = [p EXCEPT !.length = L(i), !.require = D - i]
    <3> HIDE DEF p, b
    <3> QED
      BY <2>5
  <2>7. [p EXCEPT !.length = L(i), !.require = D - i] = H(i)
    <3> DEFINE l == L(i)
               r == D - i
               x == L(i - 1)
               y == D - (i - 1)
    <3>1. p = [e EXCEPT !.length = x, !.require = y]
      OBVIOUS
    <3> HIDE DEF l, r, x, y, p
    <3>2. [p EXCEPT !.length = l, !.require = r] = [e EXCEPT !.length = l, !.require = r]
      BY <3>1 DEF ParserRecord
    <3> QED
      BY <3>2 DEF l, r
  <2>8. H(i).require = D - i
    BY <1>5, <2>1
  <2> HIDE DEF p, b, H
  <2>9. LengthCase(p, b) = IF H(i).require = 0 THEN Measured(H(i)) ELSE H(i)
    BY <2>6, <2>7 DEF LengthCase
  <2> QED
    BY <2>1, <2>4, <2>8, <2>9 DEF p, b
<1> HIDE DEF H
<1>8. h[0] = e /\ h[D] = Measured(H(D)) /\ \A i \in 0..D - 1 : h[i] = H(i)
  <2>1. 0 \in 0..D /\ 0 < D /\ D \in 0..D /\ ~ (D < D) /\ \A i \in 0..D - 1 : i < D /\ i \in 0..D
    OBVIOUS
  <2> QED
    BY <1>6, <2>1
<1>9. ASSUME NEW k \in 1..Len(w) PROVE w[k].k = h[k - 1].state /\ h[k] = Feed(h[k - 1], w[k])
  <2>1. k \in 1..D /\ k - 1 \in 0..D - 1 /\ k - 1 \in 0..D /\ (k # D => k \in 0..D - 1)
    BY <1>1
  <2>2. h[k - 1] = H(k - 1) /\ (k # D => h[k] = H(k)) /\ (k = D => h[k] = Measured(H(k)))
    <3> HIDE DEF h
    <3> QED
      BY <1>8, <2>1
  <2>3. H(k - 1).state = "length" /\ Feed(H(k - 1), w[k]) = IF k = D THEN Measured(H(k)) ELSE H(k)
    BY <1>5, <1>7, <2>1
  <2>4. w[k].k = "length"
    BY <1>1, <2>1 DEF Byte
  <2> HIDE DEF h
  <2> QED
    BY <2>2, <2>3, <2>4
<1>10. Leads(e, w, Measured(H(D)))
  <2> HIDE DEF h
  <2>1. Leads(e, w, h[Len(w)])
    BY <1>1, <1>8, <1>9, LedBy
  <2> QED
    BY <1>1, <1>8, <2>1
<1>11. Carried(e, H(D)) /\ H(D).masked = e.masked /\ H(D).length = n
  <2>1. D \in 0..D
    OBVIOUS
  <2> QED
    BY <1>3, <1>5, <2>1
<1> QED
  BY <1>10, <1>11 DEF w

LEMMA ByteType ==
    ASSUME NEW k \in Kinds, NEW v \in Nat, NEW f \in BOOLEAN
    PROVE  /\ Byte(k, v, f) \in ByteSet
           /\ Byte(k, v, f).k = k /\ Byte(k, v, f).v = v /\ Byte(k, v, f).f = f
           /\ <<Byte(k, v, f)>> \in Seq(ByteSet)
<1>1. Byte(k, v, f) \in ByteSet /\ Byte(k, v, f).k = k /\ Byte(k, v, f).v = v /\ Byte(k, v, f).f = f
  BY DEF Byte, ByteSet
<1> QED
  BY <1>1

LEMMA LengthLeg ==
    ASSUME NEW n \in Nat, n < Weight[Digits8], NEW m \in BOOLEAN,
           NEW c \in ParserRecord, c.state = "head"
    PROVE  /\ LengthBytes(n, m) \in Seq(ByteSet)
           /\ \E d : /\ Leads(c, LengthBytes(n, m), Measured(d)) /\ Carried(c, d)
                     /\ d.masked = m /\ d.length = n
<1>1. ASSUME NEW v \in Nat
      PROVE  /\ <<Byte("head", v, m)>> \in Seq(ByteSet)
             /\ Leads(c, <<Byte("head", v, m)>>, HeadCase(c, Byte("head", v, m)))
  <2> DEFINE b == Byte("head", v, m)
  <2>1. b.k = "head" /\ <<b>> \in Seq(ByteSet)
    BY ByteType DEF Kinds
  <2>2. Leads(c, <<b>>, Feed(c, b))
    <3> HIDE DEF b
    <3> QED
      BY <2>1, LedByOne
  <2>3. Head(<<b>>) = b
    OBVIOUS
  <2>4. Feed(c, b) = HeadCase(c, b)
    <3> HIDE DEF b
    <3> QED
      BY <2>3 DEF Feed, ByState
  <2> QED
    BY <2>1, <2>2, <2>4
<1>2. CASE n <= Short
  <2> DEFINE b == Byte("head", n, m)
             d == [c EXCEPT !.masked = m, !.length = n]
  <2>1. b.v = n /\ b.f = m
    BY ByteType DEF Kinds
  <2>2. HeadCase(c, b) = Measured(d)
    <3> HIDE DEF b
    <3> QED
      BY <1>2, <2>1 DEF HeadCase
  <2>3. Carried(c, d) /\ d.masked = m /\ d.length = n
    BY DEF Carried, ParserRecord
  <2>4. LengthBytes(n, m) = <<b>>
    BY <1>2 DEF LengthBytes
  <2> HIDE DEF b, d
  <2>5. <<b>> \in Seq(ByteSet) /\ Leads(c, <<b>>, HeadCase(c, b))
    BY <1>1 DEF b
  <2> QED
    BY <2>2, <2>3, <2>4, <2>5
<1>3. ASSUME NEW D \in Nat \ {0}, n < Weight[D], NEW v \in {Short + 1, Short + 2},
             D = IF v = Short + 2 THEN Digits8 ELSE Digits2
      PROVE  /\ <<Byte("head", v, m)>> \o DigitsOf(n, D) \in Seq(ByteSet)
             /\ \E d : /\ Leads(c, <<Byte("head", v, m)>> \o DigitsOf(n, D), Measured(d)) /\ Carried(c, d)
                       /\ d.masked = m /\ d.length = n
  <2> DEFINE b == Byte("head", v, m)
             e == [c EXCEPT !.masked = m, !.length = 0, !.state = "length", !.require = D]
             w == DigitsOf(n, D)
  <2>1. v \in Nat /\ ~ (v <= Short)
    BY Parameters
  <2>2. b.v = v /\ b.f = m
    BY <2>1, ByteType DEF Kinds
  <2>3. HeadCase(c, b) = e
    <3> HIDE DEF b
    <3>1. HeadCase(c, b) = [[c EXCEPT !.masked = m, !.length = v] EXCEPT !.length = 0, !.state = "length", !.require = D]
      BY <1>3, <2>1, <2>2 DEF HeadCase
    <3> QED
      BY <3>1 DEF ParserRecord
  <2>4. e \in ParserRecord /\ e.state = "length" /\ e.length = 0 /\ e.require = D /\ e.masked = m
    BY DEF ParserRecord, Kinds
  <2>5. Carried(c, e)
    <3> HIDE DEF e
    <3>1. e.fin = c.fin /\ e.flags = c.flags /\ e.frame = c.frame /\ e.opcode = c.opcode
          /\ e.message = c.message /\ e.out = c.out /\ e.mask_offset = c.mask_offset
      BY DEF e, ParserRecord
    <3> QED
      BY <2>4, <3>1 DEF Carried
  <2> HIDE DEF e
  <2>6. PICK d : Leads(e, w, Measured(d)) /\ Carried(e, d) /\ d.masked = e.masked /\ d.length = n
    BY <1>3, <2>4, DigitsLeg
  <2>7. Carried(c, d) /\ d.masked = m
    BY <2>4, <2>5, <2>6 DEF Carried
  <2>8. w \in Seq(ByteSet)
    BY DigitsType
  <2> HIDE DEF b, w
  <2>9. <<b>> \in Seq(ByteSet) /\ Leads(c, <<b>>, e)
    BY <1>1, <2>1, <2>3 DEF b
  <2>10. Leads(c, <<b>> \o w, Measured(d))
    <3> DEFINE x == <<b>>
               f == Measured(d)
    <3>1. x \in Seq(ByteSet) /\ Leads(c, x, e) /\ Leads(e, w, f)
      BY <2>6, <2>9
    <3> HIDE DEF x, f
    <3>2. Leads(c, x \o w, f)
      BY <2>8, <3>1, Joined, Zenon
    <3> QED
      BY <3>2 DEF x, f
  <2>11. <<b>> \o w \in Seq(ByteSet)
    BY <2>8, <2>9
  <2> QED
    BY <2>6, <2>7, <2>10, <2>11 DEF b, w
<1>4. CASE ~ (n <= Short) /\ n < Weight[Digits2]
  <2>1. LengthBytes(n, m) = <<Byte("head", Short + 1, m)>> \o DigitsOf(n, Digits2)
    BY <1>4 DEF LengthBytes
  <2>2. Short + 1 # Short + 2 /\ Digits2 \in Nat \ {0}
    BY Parameters
  <2> QED
    BY <1>3, <1>4, <2>1, <2>2
<1>5. CASE ~ (n <= Short) /\ ~ (n < Weight[Digits2])
  <2>1. LengthBytes(n, m) = <<Byte("head", Short + 2, m)>> \o DigitsOf(n, Digits8)
    BY <1>5 DEF LengthBytes
  <2>2. Digits8 \in Nat \ {0}
    BY Parameters
  <2> QED
    BY <1>3, <2>1, <2>2
<1> QED
  BY <1>2, <1>4, <1>5

LEMMA MaskLeg ==
    ASSUME NEW e \in ParserRecord, e.state = "mask", e.require = MaskLen, NEW mask \in Masks
    PROVE  LET w == Bytes("mask", [i \in 1..MaskLen |-> mask[i - 1]])
           IN  /\ w \in Seq(ByteSet)
               /\ \E d : /\ Leads(e, w, Headed(d)) /\ Carried(e, d)
                         /\ d.masked = e.masked /\ d.length = e.length /\ d.mask = mask
<1> DEFINE v == [i \in 1..MaskLen |-> mask[i - 1]]
           w == Bytes("mask", v)
           M(i) == [j \in 0..MaskLen - 1 |-> IF j < i THEN mask[j] ELSE e.mask[j]]
           H(i) == [e EXCEPT !.mask = M(i), !.require = MaskLen - i]
           h == [i \in 0..MaskLen |-> IF i < MaskLen THEN H(i) ELSE Headed(H(MaskLen))]
<1>1. MaskLen \in Nat /\ MaskLen # 0
  BY Parameters
<1>2. mask \in [0..MaskLen - 1 -> Nat] /\ e.mask \in [0..MaskLen - 1 -> Nat]
  <2>1. e.mask \in [0..MaskLen - 1 -> Nat]
    BY DEF ParserRecord
  <2>2. \A x \in 0..1 : x \in Nat
    OBVIOUS
  <2> QED
    BY <2>1, <2>2 DEF Masks
<1>3. w \in Seq(ByteSet) /\ Len(w) = MaskLen /\ \A i \in 1..MaskLen : w[i] = Byte("mask", mask[i - 1], FALSE)
  <2>1. \A i \in 1..MaskLen : mask[i - 1] \in Nat
    <3>1. \A i \in 1..MaskLen : i - 1 \in 0..MaskLen - 1
      BY <1>1
    <3> QED
      BY <1>2, <3>1
  <2>2. v \in Seq(Nat) /\ Len(v) = MaskLen /\ \A i \in 1..MaskLen : v[i] = mask[i - 1]
    BY <1>1, <2>1
  <2> HIDE DEF v
  <2> QED
    <3>1. "mask" \in Kinds
      BY DEF Kinds
    <3>2. /\ w \in Seq(ByteSet) /\ Len(w) = Len(v)
          /\ \A i \in 1..Len(v) : w[i] = Byte("mask", v[i], FALSE)
      BY <2>2, <3>1, BytesType
    <3> HIDE DEF w
    <3> QED
      BY <2>2, <3>2
<1> HIDE DEF w
<1>4. ASSUME NEW i \in 0..MaskLen
      PROVE  /\ H(i) \in ParserRecord /\ H(i).state = "mask" /\ H(i).mask = M(i) /\ H(i).require = MaskLen - i
             /\ Carried(e, H(i)) /\ H(i).masked = e.masked /\ H(i).length = e.length
  <2>1. M(i) \in [0..MaskLen - 1 -> Nat] /\ MaskLen - i \in Nat
    BY <1>1, <1>2
  <2> HIDE DEF M
  <2> DEFINE m == M(i)
             r == MaskLen - i
  <2> HIDE DEF m, r
  <2>2. [e EXCEPT !.mask = m, !.require = r] \in ParserRecord
    BY <2>1 DEF ParserRecord, m, r
  <2> QED
    BY <2>2 DEF Carried, ParserRecord, m, r
<1>5. H(0) = e
  <2>1. M(0) = e.mask
    <3>1. \A j \in 0..MaskLen - 1 : ~ (j < 0)
      BY <1>1
    <3>2. \A j \in 0..MaskLen - 1 : M(0)[j] = e.mask[j]
      BY <3>1
    <3>3. M(0) = [j \in 0..MaskLen - 1 |-> M(0)[j]]
      OBVIOUS
    <3> HIDE DEF M
    <3> QED
      BY <1>2, <3>2, <3>3
  <2>2. MaskLen - 0 = e.require
    BY <1>1
  <2> HIDE DEF M
  <2>3. H(0) = [e EXCEPT !.mask = e.mask, !.require = e.require]
    BY <2>1, <2>2
  <2> QED
    BY <2>3 DEF ParserRecord
<1>6. ASSUME NEW i \in 1..MaskLen
      PROVE  Feed(H(i - 1), w[i]) = IF i = MaskLen THEN Headed(H(i)) ELSE H(i)
  <2> DEFINE p == H(i - 1)
             b == w[i]
  <2>1. /\ i - 1 \in 0..MaskLen /\ i \in 0..MaskLen /\ (MaskLen - (i - 1)) - 1 = MaskLen - i
        /\ MaskLen - (MaskLen - (i - 1)) = i - 1 /\ (MaskLen - i = 0 <=> i = MaskLen)
    BY <1>1
  <2>2. p \in ParserRecord /\ p.state = "mask" /\ p.mask = M(i - 1) /\ p.require = MaskLen - (i - 1)
    BY <1>4, <2>1
  <2>3. b.v = mask[i - 1]
    BY <1>3 DEF Byte
  <2>4. Feed(p, b) = MaskCase(p, b)
    <3>1. Head(<<b>>) = b
      OBVIOUS
    <3> HIDE DEF p, b
    <3> QED
      BY <2>2, <3>1 DEF Feed, ByState
  <2>5. [M(i - 1) EXCEPT ![i - 1] = mask[i - 1]] = M(i)
    <3>1. \A j \in 0..MaskLen - 1 : j < i <=> (j = i - 1 \/ j < i - 1)
      BY <1>1
    <3>2. \A j \in 0..MaskLen - 1 : [M(i - 1) EXCEPT ![i - 1] = mask[i - 1]][j] = M(i)[j]
      BY <3>1
    <3>3. M(i) = [j \in 0..MaskLen - 1 |-> M(i)[j]] /\ DOMAIN M(i - 1) = 0..MaskLen - 1
      OBVIOUS
    <3> HIDE DEF M
    <3> QED
      BY <3>2, <3>3
  <2>6. [p EXCEPT !.mask[MaskLen - p.require] = b.v, !.require = @ - 1] = [p EXCEPT !.mask = M(i), !.require = MaskLen - i]
    <3>1. MaskLen - p.require = i - 1 /\ p.require - 1 = MaskLen - i
      <4> HIDE DEF p
      <4> QED
        BY <2>1, <2>2
    <3> HIDE DEF p, b, M
    <3> QED
      BY <2>2, <2>3, <2>5, <3>1
  <2>7. [p EXCEPT !.mask = M(i), !.require = MaskLen - i] = H(i)
    <3> DEFINE l == M(i)
               r == MaskLen - i
               x == M(i - 1)
               y == MaskLen - (i - 1)
    <3>1. p = [e EXCEPT !.mask = x, !.require = y]
      OBVIOUS
    <3> HIDE DEF l, r, x, y, p
    <3>2. [p EXCEPT !.mask = l, !.require = r] = [e EXCEPT !.mask = l, !.require = r]
      BY <3>1 DEF ParserRecord
    <3> QED
      BY <3>2 DEF l, r
  <2>8. H(i).require = MaskLen - i
    BY <1>4, <2>1
  <2> HIDE DEF p, b, H, M
  <2>9. MaskCase(p, b) = IF H(i).require = 0 THEN Headed(H(i)) ELSE H(i)
    BY <2>6, <2>7 DEF MaskCase
  <2> QED
    BY <2>1, <2>4, <2>8, <2>9 DEF p, b
<1> HIDE DEF H
<1>7. h[0] = e /\ h[MaskLen] = Headed(H(MaskLen)) /\ \A i \in 0..MaskLen - 1 : h[i] = H(i)
  <2>1. 0 \in 0..MaskLen /\ 0 < MaskLen /\ MaskLen \in 0..MaskLen /\ ~ (MaskLen < MaskLen)
        /\ \A i \in 0..MaskLen - 1 : i < MaskLen /\ i \in 0..MaskLen
    BY <1>1
  <2> QED
    BY <1>5, <2>1
<1>8. ASSUME NEW k \in 1..Len(w) PROVE w[k].k = h[k - 1].state /\ h[k] = Feed(h[k - 1], w[k])
  <2>1. k \in 1..MaskLen /\ k - 1 \in 0..MaskLen - 1 /\ k - 1 \in 0..MaskLen /\ (k # MaskLen => k \in 0..MaskLen - 1)
    BY <1>1, <1>3
  <2>2. h[k - 1] = H(k - 1) /\ (k # MaskLen => h[k] = H(k)) /\ (k = MaskLen => h[k] = Headed(H(k)))
    <3> HIDE DEF h
    <3> QED
      BY <1>7, <2>1
  <2>3. H(k - 1).state = "mask" /\ Feed(H(k - 1), w[k]) = IF k = MaskLen THEN Headed(H(k)) ELSE H(k)
    BY <1>4, <1>6, <2>1
  <2>4. w[k].k = "mask"
    BY <1>3, <2>1 DEF Byte
  <2> HIDE DEF h
  <2> QED
    BY <2>2, <2>3, <2>4
<1>9. Leads(e, w, Headed(H(MaskLen)))
  <2> HIDE DEF h
  <2>1. Leads(e, w, h[Len(w)])
    BY <1>1, <1>3, <1>7, <1>8, LedBy
  <2> QED
    BY <1>3, <1>7, <2>1
<1>10. Carried(e, H(MaskLen)) /\ H(MaskLen).masked = e.masked /\ H(MaskLen).length = e.length /\ H(MaskLen).mask = mask
  <2>1. MaskLen \in 0..MaskLen /\ \A j \in 0..MaskLen - 1 : j < MaskLen
    BY <1>1
  <2>2. M(MaskLen) = [j \in 0..MaskLen - 1 |-> mask[j]]
    BY <2>1
  <2>3. M(MaskLen) = mask
    <3> HIDE DEF M
    <3> QED
      BY <1>2, <2>2
  <2> HIDE DEF M
  <2> QED
    BY <1>4, <2>1, <2>3
<1> QED
  BY <1>3, <1>9, <1>10 DEF w

\* A body is body up to its end.
LEMMA BodyLeg ==
    ASSUME NEW e \in ParserSet, e.state = "body", NEW w \in Seq(ByteSet), Len(w) = e.require,
           \A i \in 1..Len(w) : w[i].k = "body"
    PROVE  Leads(e, w, BodyCase(e, w))
<1>1. Len(w) \in Nat /\ Len(w) > 0 /\ w # <<>> /\ e \in ParserRecord
  BY DEF ParserSet, ParserRecord
<1>2. Path(e, w)[Len(w)] = BodyCase(e, w)
  BY <1>1, BodyChunk
<1>3. ASSUME NEW k \in 1..Len(w) PROVE Path(e, w)[k - 1].state = "body"
  <2>1. CASE k = 1
    <3>1. Path(e, w)[0] = e /\ k - 1 = 0
      BY <1>1, <2>1, Paths
    <3> QED
      BY <3>1
  <2>2. CASE k # 1
    <3> DEFINE j == k - 1
               v == SubSeq(w, 1, j)
    <3>1. j \in Nat /\ j > 0 /\ j < Len(w)
      BY <1>1, <2>2
    <3>2. v \in Seq(ByteSet) /\ Len(v) = j /\ \A i \in 1..j : v[i] = w[i]
      <4> HIDE DEF j
      <4> QED
        BY <1>1, <3>1
    <3> HIDE DEF j, v
    <3>3. v # <<>> /\ Len(v) <= e.require /\ Len(v) # e.require
      BY <3>1, <3>2
    <3>4. BodyCase(e, v) = Path(e, v)[j]
      BY <3>2, <3>3, BodyChunk
    <3>5. Path(e, v)[j] = Path(e, w)[j]
      <4>1. Part(v, w, 0)
        BY <1>1, <3>1, <3>2 DEF Part
      <4>2. Path(e, w)[0] = e
        BY <1>1, Paths
      <4>3. \A i \in 0..Len(v) : Path(Path(e, w)[0], v)[i] = Path(e, w)[0 + i]
        BY <4>1, PathFrom
      <4>4. j \in 0..Len(v) /\ 0 + j = j
        BY <3>1, <3>2
      <4> QED
        BY <4>2, <4>3, <4>4
    <3>6. BodyCase(e, v) = Eaten(e, v)
      BY <1>1, <3>2, <3>3, BodyCaseIs
    <3>7. Eaten(e, v).state = "body"
      BY <1>1, <3>2, <3>3, EatenType
    <3> QED
      BY <3>4, <3>5, <3>6, <3>7 DEF j
  <2> QED
    BY <2>1, <2>2
<1> QED
  BY <1>2, <1>3 DEF Leads

LEMMA MaskedTwice ==
    ASSUME NEW data \in Seq(Bit), NEW mask \in Masks
    PROVE  /\ Masked(data, mask, 0) \in Seq(Nat) /\ Len(Masked(data, mask, 0)) = Len(data)
           /\ Masked(Masked(data, mask, 0), mask, 0) = data
<1>1. data \in Seq(Nat) /\ mask \in [0..MaskLen - 1 -> Nat]
  BY DEF Bit, Masks
<1> DEFINE x == Masked(data, mask, 0)
           y == Masked(x, mask, 0)
<1>2. x \in Seq(Nat) /\ Len(x) = Len(data)
  BY <1>1, MaskedType
<1>3. y \in Seq(Nat) /\ Len(y) = Len(data)
  <2> HIDE DEF x
  <2> QED
    BY <1>1, <1>2, MaskedType
<1>4. ASSUME NEW i \in 1..Len(data) PROVE y[i] = data[i]
  <2> DEFINE j == (i - 1 + 0) % MaskLen
  <2>1. x[i] = (data[i] + mask[j]) % 2
    <3>1. i \in DOMAIN data
      OBVIOUS
    <3> QED
      BY <3>1 DEF Masked
  <2>2. y[i] = (x[i] + mask[j]) % 2
    <3>1. i \in DOMAIN x
      <4> HIDE DEF x
      <4> QED
        BY <1>2
    <3> HIDE DEF x
    <3> QED
      BY <3>1 DEF Masked
  <2>3. j \in 0..MaskLen - 1
    <3>1. i - 1 + 0 \in Nat
      OBVIOUS
    <3> QED
      BY <3>1, Parameters
  <2> HIDE DEF j, x, y
  <2>4. data[i] \in 0..1 /\ mask[j] \in 0..1
    BY <2>3 DEF Bit, Masks
  <2>5. \A a, b \in 0..1 : (((a + b) % 2) + b) % 2 = a
    <3>1. \A a, b \in 0..1 : (a = 0 \/ a = 1) /\ (b = 0 \/ b = 1)
      OBVIOUS
    <3> QED
      BY <3>1
  <2> QED
    BY <2>1, <2>2, <2>4, <2>5
<1>5. y = data
  <2> HIDE DEF x, y
  <2> QED
    BY <1>1, <1>3, <1>4, SMTT(60)
<1> QED
  BY <1>2, <1>5

\* What the end of a frame leaves.
Ended(c, op, fin, data, r) ==
    /\ r \in ParserSet /\ r.state = "start" /\ r.frame = IF fin THEN "FIN" ELSE "END"
    /\ r.opcode = IF op # CONTINUE THEN op ELSE c.opcode
    /\ r.message = (IF c.frame \in {"BEGIN", "FIN"} THEN <<>> ELSE c.message) \o data
    /\ r.out = IF fin THEN Append(c.out, Message(r.opcode, r.message)) ELSE c.out

LEMMA EndEnds ==
    ASSUME NEW c \in ParserRecord, c.state = "start"
    PROVE  LET r == frame_end(c)
           IN  /\ r \in ParserSet /\ r.state = "start" /\ r.frame = IF c.fin THEN "FIN" ELSE "END"
               /\ r.opcode = c.opcode /\ r.message = c.message
               /\ r.out = IF c.fin THEN Append(c.out, Message(r.opcode, r.message)) ELSE c.out
<1> DEFINE r == frame_end(c)
<1>1. r \in ParserRecord /\ r.state = "start"
  BY EndType
<1>2. /\ r.frame = IF c.fin THEN "FIN" ELSE "END"
      /\ r.opcode = c.opcode /\ r.message = c.message
      /\ r.out = IF c.fin THEN Append(c.out, Message(c.opcode, c.message)) ELSE c.out
  BY DEF frame_end, ParserRecord
<1> HIDE DEF r
<1>3. r \in ParserSet
  BY <1>1 DEF ParserSet
<1> QED
  BY <1>1, <1>2, <1>3 DEF r

LEMMA HeadedLeg ==
    ASSUME NEW c \in ParserRecord, NEW w \in Seq(ByteSet), \A i \in 1..Len(w) : w[i].k = "body",
           c.length = Len(w), NEW data, Unmasked(c, w) = data, data \in Seq(Nat)
    PROVE  \E r : Leads(Headed(c), w, r) /\ Ended(c, c.flags, c.fin, data, r)
<1> DEFINE op == IF c.flags # CONTINUE THEN c.flags ELSE c.opcode
           m == IF c.frame \in {"BEGIN", "FIN"} THEN <<>> ELSE c.message
<1>1. op \in Nat /\ m \in Seq(Nat) /\ Len(w) \in Nat
  BY DEF ParserRecord
<1>2. ASSUME NEW d \in ParserRecord, d.flags = c.flags, d.opcode = c.opcode, d.frame = c.frame, d.message = c.message
      PROVE  frame_header(d) = [d EXCEPT !.opcode = op, !.message = m, !.frame = "HEADER"]
  BY <1>2 DEF frame_header
<1> HIDE DEF op, m
<1>3. CASE Len(w) = 0
  <2> DEFINE d == [c EXCEPT !.state = "start"]
             e == frame_header(d)
  <2>1. d \in ParserRecord /\ d.flags = c.flags /\ d.opcode = c.opcode /\ d.frame = c.frame /\ d.message = c.message
        /\ d.state = "start" /\ d.fin = c.fin /\ d.out = c.out
    BY DEF ParserRecord, Kinds
  <2>2. Headed(c) = frame_end(e)
    BY <1>3 DEF Headed
  <2> HIDE DEF d
  <2>3. e \in ParserRecord /\ e.state = "start"
    BY <2>1, HeaderType
  <2>4. e = [d EXCEPT !.opcode = op, !.message = m, !.frame = "HEADER"]
    BY <1>2, <2>1
  <2> HIDE DEF e
  <2>5. e.fin = c.fin /\ e.out = c.out /\ e.opcode = op /\ e.message = m
    BY <2>1, <2>4 DEF ParserRecord
  <2> DEFINE r == frame_end(e)
  <2>6. /\ r \in ParserSet /\ r.state = "start" /\ r.frame = IF e.fin THEN "FIN" ELSE "END"
        /\ r.opcode = e.opcode /\ r.message = e.message
        /\ r.out = IF e.fin THEN Append(e.out, Message(r.opcode, r.message)) ELSE e.out
    BY <2>3, EndEnds
  <2>7. m \o data = m
    <3>1. w = <<>> /\ DOMAIN w = {}
      BY <1>3
    <3>2. Len(data) = 0
      <4>1. Values(w) \in Seq(Nat) /\ Len(Values(w)) = Len(w)
        BY ValuesType
      <4>2. c.mask \in [0..MaskLen - 1 -> Nat] /\ c.mask_offset \in Nat
        BY Parameters DEF ParserRecord
      <4>3. Len(Masked(Values(w), c.mask, c.mask_offset)) = Len(Values(w))
        BY <4>1, <4>2, MaskedType
      <4> QED
        BY <1>3, <4>1, <4>3 DEF Unmasked
    <3>3. data = <<>>
      BY <3>2
    <3> QED
      BY <1>1, <3>3
  <2> HIDE DEF r
  <2>8. Ended(c, c.flags, c.fin, data, r)
    BY <2>5, <2>6, <2>7 DEF Ended, op, m
  <2>9. Leads(r, w, r)
    <3>1. Path(r, w)[0] = r
      BY <1>1, Paths
    <3>2. \A k \in 1..Len(w) : FALSE
      BY <1>3
    <3> QED
      BY <1>3, <3>1, <3>2 DEF Leads
  <2> QED
    BY <2>2, <2>8, <2>9 DEF r
<1>4. CASE Len(w) > 0
  <2> DEFINE d == [c EXCEPT !.state = "body", !.require = c.length]
             e == frame_header(d)
  <2>1. d \in ParserRecord /\ d.flags = c.flags /\ d.opcode = c.opcode /\ d.frame = c.frame /\ d.message = c.message
        /\ d.state = "body" /\ d.fin = c.fin /\ d.out = c.out /\ d.masked = c.masked /\ d.mask = c.mask
        /\ d.mask_offset = c.mask_offset /\ d.require = c.length
    BY DEF ParserRecord, Kinds
  <2>2. Headed(c) = e
    BY <1>4 DEF Headed
  <2> HIDE DEF d
  <2>3. e \in ParserRecord /\ e.state = "body" /\ e.require = Len(w)
    BY <2>1, HeaderType
  <2>4. e = [d EXCEPT !.opcode = op, !.message = m, !.frame = "HEADER"]
    BY <1>2, <2>1
  <2> HIDE DEF e
  <2>5. e.fin = c.fin /\ e.out = c.out /\ e.opcode = op /\ e.message = m /\ e.masked = c.masked /\ e.mask = c.mask
        /\ e.mask_offset = c.mask_offset
    BY <2>1, <2>4 DEF ParserRecord
  <2>6. e \in ParserSet
    BY <1>4, <2>3 DEF ParserSet
  <2>7. Leads(e, w, BodyCase(e, w))
    BY <2>3, <2>6, BodyLeg
  <2> DEFINE x == Eaten(e, w)
             f == [x EXCEPT !.state = "start"]
             r == frame_end(f)
  <2>8. Unmasked(e, w) = data
    BY <2>5 DEF Unmasked
  <2>9. x \in ParserRecord /\ x.message = m \o data
    <3>1. Len(w) <= e.require
      BY <1>1, <2>3
    <3>2. x \in ParserRecord /\ x.message = e.message \o Unmasked(e, w)
      BY <2>3, <3>1, EatenType
    <3> HIDE DEF x
    <3> QED
      BY <2>5, <2>8, <3>2
  <2>10. x.fin = e.fin /\ x.out = e.out /\ x.opcode = e.opcode
    BY <2>3 DEF Eaten, ParserRecord
  <2>11. BodyCase(e, w) = r
    <3> HIDE DEF x
    <3> QED
      BY <2>3, BodyCaseIs DEF x
  <2> HIDE DEF x
  <2>12. f \in ParserRecord /\ f.state = "start" /\ f.fin = c.fin /\ f.out = c.out /\ f.opcode = op /\ f.message = m \o data
    BY <2>5, <2>9, <2>10 DEF ParserRecord, Kinds
  <2> HIDE DEF f
  <2>13. /\ r \in ParserSet /\ r.state = "start" /\ r.frame = IF f.fin THEN "FIN" ELSE "END"
         /\ r.opcode = f.opcode /\ r.message = f.message
         /\ r.out = IF f.fin THEN Append(f.out, Message(r.opcode, r.message)) ELSE f.out
    BY <2>12, EndEnds
  <2> HIDE DEF r
  <2>14. Ended(c, c.flags, c.fin, data, r)
    BY <2>12, <2>13 DEF Ended, op, m
  <2> QED
    BY <2>2, <2>7, <2>11, <2>14
<1> QED
  BY <1>1, <1>3, <1>4

\* From the start of a frame to its end, whoever sends it.
LEMMA FrameLeads ==
    ASSUME NEW c \in ParserSet, c.state = "start", NEW op \in Nat, NEW fin \in BOOLEAN,
           NEW data \in Seq(Bit), Len(data) < Weight[Digits8], NEW mask \in Masks, isClient \in BOOLEAN
    PROVE  /\ Frame(op, fin, data, mask) \in Seq(ByteSet)
           /\ \E r : Leads(c, Frame(op, fin, data, mask), r) /\ Ended(c, op, fin, data, r)
<1> DEFINE b == Byte("start", op, fin)
           d1 == StartCase(c, b)
           n == Len(data)
           w1 == <<b>>
           w2 == LengthBytes(n, isClient)
<1>1. c \in ParserRecord /\ data \in Seq(Nat) /\ n \in Nat
  BY DEF ParserSet, Bit
<1>2. b.k = "start" /\ b.v = op /\ b.f = fin /\ w1 \in Seq(ByteSet)
  BY ByteType DEF Kinds
<1>3. Leads(c, w1, d1)
  <2>1. Leads(c, <<b>>, Feed(c, b))
    <3> HIDE DEF b
    <3> QED
      BY <1>2, LedByOne
  <2>2. Feed(c, b) = d1
    <3>1. Head(<<b>>) = b
      OBVIOUS
    <3> HIDE DEF b
    <3> QED
      BY <3>1 DEF Feed, ByState
  <2> QED
    BY <2>1, <2>2
<1>4. d1 \in ParserRecord /\ d1.state = "head"
      /\ d1.fin = fin /\ d1.flags = op /\ d1.mask_offset = 0 /\ d1.frame = c.frame /\ d1.opcode = c.opcode
      /\ d1.message = c.message /\ d1.out = c.out
  <2>1. 0 \in 0..MaskLen - 1
    BY Parameters
  <2> HIDE DEF b
  <2> QED
    BY <1>1, <1>2, <2>1 DEF StartCase, ParserRecord, Kinds
<1> HIDE DEF d1, b
<1>5. /\ w2 \in Seq(ByteSet)
      /\ \E d : Leads(d1, w2, Measured(d)) /\ Carried(d1, d) /\ d.masked = isClient /\ d.length = n
  <2> HIDE DEF n
  <2> QED
    BY <1>1, <1>4, LengthLeg DEF n
<1>6. PICK d : Leads(d1, w2, Measured(d)) /\ Carried(d1, d) /\ d.masked = isClient /\ d.length = n
  BY <1>5
<1>7. d \in ParserRecord /\ d.fin = fin /\ d.flags = op /\ d.mask_offset = 0 /\ d.frame = c.frame /\ d.opcode = c.opcode
      /\ d.message = c.message /\ d.out = c.out
  BY <1>4, <1>6 DEF Carried
<1> HIDE DEF n, w1, w2
<1>8. Leads(c, w1 \o w2, Measured(d)) /\ w1 \o w2 \in Seq(ByteSet)
  <2> DEFINE f == Measured(d)
  <2>1. Leads(d1, w2, f)
    BY <1>6
  <2> HIDE DEF f
  <2>2. Leads(c, w1 \o w2, f)
    BY <1>2, <1>3, <1>5, <2>1, Joined, Zenon
  <2>3. w1 \o w2 \in Seq(ByteSet)
    BY <1>2, <1>5
  <2> QED
    BY <2>2, <2>3 DEF f
<1> DEFINE x == w1 \o w2
<1> HIDE DEF x
<1>9. ASSUME NEW e \in ParserRecord, NEW values \in Seq(Nat), Len(values) = n, e.length = n,
             Unmasked(e, Bytes("body", values)) = data,
             e.fin = fin, e.flags = op, e.frame = c.frame, e.opcode = c.opcode, e.message = c.message, e.out = c.out
      PROVE  /\ Bytes("body", values) \in Seq(ByteSet)
             /\ \E r : Leads(Headed(e), Bytes("body", values), r) /\ Ended(c, op, fin, data, r)
  <2> DEFINE w == Bytes("body", values)
  <2>1. w \in Seq(ByteSet) /\ Len(w) = n /\ \A i \in 1..n : w[i] = Byte("body", values[i], FALSE)
    <3>1. "body" \in Kinds
      BY DEF Kinds
    <3> QED
      BY <1>9, <3>1, BytesType
  <2> HIDE DEF w
  <2>2. \A i \in 1..Len(w) : w[i].k = "body"
    BY <2>1 DEF Byte
  <2>3. e.length = Len(w)
    BY <1>9, <2>1
  <2>4. Unmasked(e, w) = data
    BY <1>9 DEF w
  <2>5. PICK r : Leads(Headed(e), w, r) /\ Ended(e, e.flags, e.fin, data, r)
    BY <1>1, <2>1, <2>2, <2>3, <2>4, HeadedLeg
  <2>6. Ended(c, op, fin, data, r)
    BY <1>9, <2>5 DEF Ended
  <2> QED
    BY <2>1, <2>5, <2>6 DEF w
<1>10. CASE isClient
  <2> DEFINE v1 == [i \in 1..MaskLen |-> mask[i - 1]]
             w3 == Bytes("mask", v1)
             values == Masked(data, mask, 0)
             w4 == Bytes("body", values)
             e == [d EXCEPT !.state = "mask", !.require = MaskLen]
  <2>1. e \in ParserRecord /\ e.state = "mask" /\ e.require = MaskLen
        /\ e.fin = fin /\ e.flags = op /\ e.mask_offset = 0 /\ e.frame = c.frame /\ e.opcode = c.opcode
        /\ e.message = c.message /\ e.out = c.out /\ e.masked = isClient /\ e.length = n
    BY <1>6, <1>7, Parameters DEF ParserRecord, Kinds
  <2>2. Measured(d) = e
    BY <1>6, <1>10 DEF Measured
  <2> HIDE DEF e
  <2>3. w3 \in Seq(ByteSet)
        /\ \E g : /\ Leads(e, w3, Headed(g)) /\ Carried(e, g)
                  /\ g.masked = e.masked /\ g.length = e.length /\ g.mask = mask
    BY <2>1, MaskLeg
  <2> HIDE DEF w3
  <2>4. PICK g : /\ Leads(e, w3, Headed(g)) /\ Carried(e, g)
                 /\ g.masked = e.masked /\ g.length = e.length /\ g.mask = mask
    BY <2>3
  <2>5. g \in ParserRecord /\ g.fin = fin /\ g.flags = op /\ g.mask_offset = 0 /\ g.frame = c.frame
        /\ g.opcode = c.opcode /\ g.message = c.message /\ g.out = c.out
    BY <2>1, <2>4 DEF Carried
  <2>6. values \in Seq(Nat) /\ Len(values) = n /\ Masked(values, mask, 0) = data
    BY MaskedTwice DEF n
  <2> HIDE DEF values
  <2>7. Unmasked(g, w4) = data
    <3>1. Values(w4) = values
      <4>1. "body" \in Kinds
        BY DEF Kinds
      <4> QED
        BY <2>6, <4>1, BytesType
    <3> HIDE DEF w4
    <3> QED
      BY <1>10, <2>1, <2>4, <2>5, <2>6, <3>1 DEF Unmasked
  <2>8. g.length = n
    BY <2>1, <2>4
  <2>9. w4 \in Seq(ByteSet) /\ \E r : Leads(Headed(g), w4, r) /\ Ended(c, op, fin, data, r)
    BY <1>9, <2>5, <2>6, <2>7, <2>8
  <2> HIDE DEF w4
  <2>10. PICK r : Leads(Headed(g), w4, r) /\ Ended(c, op, fin, data, r)
    BY <2>9
  <2>11. Leads(e, w3 \o w4, r)
    <3> DEFINE f == Headed(g)
    <3>1. Leads(e, w3, f) /\ Leads(f, w4, r)
      BY <2>4, <2>10
    <3> HIDE DEF f
    <3> QED
      BY <2>3, <2>9, <3>1, Joined, Zenon
  <2> DEFINE y == w3 \o w4
  <2>12. y \in Seq(ByteSet)
    BY <2>3, <2>9
  <2>13. Leads(e, y, r)
    BY <2>11
  <2> HIDE DEF y
  <2>14. x \in Seq(ByteSet) /\ Leads(c, x, e)
    BY <1>8, <2>2 DEF x
  <2>15. Leads(c, x \o y, r)
    BY <2>12, <2>13, <2>14, Joined, Zenon
  <2>16. x \o y \in Seq(ByteSet)
    BY <2>12, <2>14
  <2>17. Frame(op, fin, data, mask) = x \o y
    BY <1>10 DEF Frame, x, y, w1, w2, w3, w4, b, n, values
  <2> QED
    BY <2>10, <2>15, <2>16, <2>17
<1>11. CASE ~ isClient
  <2> DEFINE y == Bytes("body", data)
  <2>1. Measured(d) = Headed(d)
    BY <1>6, <1>11 DEF Measured
  <2>2. Unmasked(d, y) = data
    <3>1. Values(y) = data
      <4>1. "body" \in Kinds
        BY DEF Kinds
      <4> QED
        BY <1>1, <4>1, BytesType
    <3> HIDE DEF y
    <3> QED
      BY <1>6, <1>11, <3>1 DEF Unmasked
  <2>3. Len(data) = n
    BY DEF n
  <2>4. y \in Seq(ByteSet) /\ \E r : Leads(Headed(d), y, r) /\ Ended(c, op, fin, data, r)
    BY <1>1, <1>6, <1>7, <1>9, <2>2, <2>3
  <2> HIDE DEF y
  <2>5. PICK r : Leads(Headed(d), y, r) /\ Ended(c, op, fin, data, r)
    BY <2>4
  <2> DEFINE f == Headed(d)
  <2>6. Leads(f, y, r)
    BY <2>5
  <2>7. x \in Seq(ByteSet) /\ Leads(c, x, f)
    BY <1>8, <2>1 DEF x
  <2> HIDE DEF f
  <2>8. Leads(c, x \o y, r)
    BY <2>4, <2>6, <2>7, Joined, Zenon
  <2>9. x \o y \in Seq(ByteSet)
    BY <2>4, <2>7
  <2>10. Frame(op, fin, data, mask) = x \o y
    BY <1>11 DEF Frame, x, y, w1, w2, b, n
  <2> QED
    BY <2>5, <2>8, <2>9, <2>10
<1> QED
  BY <1>10, <1>11

-----------------------------------------------------------------------------
(* The invariant: what is on its way will be understood, and then all that   *)
(* its writers have finished has been handed out.                            *)

\* The parser, had it handed out all messages at once.
Whole == After(messages, parser)

\* Where the bytes on their way lead it.
End == Path(Whole, wire)[Len(wire)]

FTypes ==
    /\ isClient \in BOOLEAN /\ len \in [Sender -> Lengths]
    /\ spc \in [Sender -> {"idle", "sending", "done"}] /\ off \in [Sender -> Nat]
    /\ holder \in Sender \cup {NoSender}
    /\ wire \in Seq(ByteSet) /\ parser \in ParserSet /\ parser.out = <<>>
    /\ messages \in Seq(MessageSet) /\ sent \in Seq(MessageSet)

\* Who has the mutex is sending, and nobody else is.
Sending ==
    \A s \in Sender :
        /\ spc[s] = "sending" <=> holder = s
        /\ spc[s] = "idle" => off[s] = 0
        /\ off[s] <= len[s] /\ (spc[s] = "sending" => off[s] < len[s] \/ len[s] = 0)

\* Fragments of a message have been sent, and not the last.
Midway == holder # NoSender /\ off[holder] > 0

\* What the parser has of the message that is being sent.
EndFits ==
    /\ Leads(Whole, wire, End) /\ End.state = "start"
    /\ IF Midway
       THEN /\ End.frame = "END" /\ End.opcode = TEXT
            /\ End.message = SubSeq(Payload(holder), 1, off[holder])
       ELSE End.frame \in {"BEGIN", "FIN"}

\* What it will have handed out; a message counts as sent from its Locks on.
EndHands ==
    IF holder = NoSender THEN End.out = sent
    ELSE Append(End.out, Message(TEXT, Payload(holder))) = sent

FInv == FTypes /\ Sending /\ EndFits /\ EndHands

LEMMA PayloadType ==
    ASSUME FTypes, NEW s \in Sender
    PROVE  Payload(s) \in Seq(Bit) /\ Len(Payload(s)) = len[s] /\ len[s] \in Nat /\ len[s] \in Lengths
<1>1. len[s] \in Lengths /\ len[s] \in Nat
  BY Parameters DEF FTypes
<1>2. \A i \in 1..len[s] : (i \div 2) % 2 \in 0..1
  <2>1. \A i \in 1..len[s] : i \div 2 \in Nat
    BY <1>1
  <2>2. \A q \in Nat : q % 2 \in 0..1
    OBVIOUS
  <2> QED
    BY <2>1, <2>2
<1> QED
  BY <1>1, <1>2 DEF Payload, Bit

LEMMA WholeType ==
    ASSUME FTypes
    PROVE  /\ Whole \in ParserSet /\ Whole.state = parser.state /\ Whole.out = messages
           /\ End \in ParserSet /\ Path(Whole, wire)[0] = Whole /\ Len(wire) \in Nat
           /\ \E x \in Seq(MessageSet) : End.out = messages \o x
<1>1. parser \in ParserRecord /\ parser \in ParserSet /\ messages \in Seq(MessageSet) /\ wire \in Seq(ByteSet)
      /\ Len(wire) \in Nat /\ Len(wire) \in 0..Len(wire)
  BY DEF FTypes, ParserSet
<1>2. Whole \in ParserSet /\ Whole.state = parser.state
  BY <1>1, AfterType DEF Whole
<1>3. Whole.out = messages \o <<>>
  BY <1>1 DEF Whole, After, ParserRecord, FTypes
<1>4. messages \o <<>> = messages
  BY <1>1
<1>5. End \in ParserSet
  BY <1>1, <1>2, PathType DEF End
<1>6. Path(Whole, wire)[0] = Whole
  BY <1>1, Paths
<1>7. \E x \in Seq(MessageSet) : End.out = messages \o x
  <2> DEFINE p == Path(parser, wire)[Len(wire)]
  <2>1. p \in ParserSet
    BY <1>1, PathType
  <2>2. End = After(messages, p)
    BY <1>1, PathAfter DEF End, Whole
  <2> HIDE DEF p
  <2>3. p \in ParserRecord /\ p.out \in Seq(MessageSet)
    BY <2>1 DEF ParserSet, ParserRecord
  <2>4. End.out = messages \o p.out
    BY <2>2, <2>3 DEF After, ParserRecord
  <2> QED
    BY <2>3, <2>4
<1> QED
  BY <1>1, <1>2, <1>3, <1>4, <1>5, <1>6, <1>7

LEMMA Sound ==
    ASSUME FInv
    PROVE  FramesSound
<1>1. FTypes /\ EndFits /\ EndHands
  BY DEF FInv
<1>2. InStep
  <2> SUFFICES ASSUME wire # <<>> PROVE Head(wire).k = parser.state
    BY DEF InStep
  <2>1. 1 \in 1..Len(wire) /\ 1 - 1 = 0 /\ Head(wire) = wire[1]
    BY <1>1 DEF FTypes
  <2>2. wire[1].k = Path(Whole, wire)[0].state
    BY <1>1, <2>1 DEF EndFits, Leads
  <2> QED
    BY <1>1, <2>1, <2>2, WholeType
<1>3. PICK x \in Seq(MessageSet) : End.out = messages \o x
  BY <1>1, WholeType
<1>4. messages \in Seq(MessageSet) /\ sent \in Seq(MessageSet)
  BY <1>1 DEF FTypes
<1>5. PICK y \in Seq(MessageSet) : sent = messages \o y
  <2>1. CASE holder = NoSender
    BY <1>1, <1>3, <2>1 DEF EndHands
  <2>2. CASE holder # NoSender
    <3> DEFINE m == Message(TEXT, Payload(holder))
    <3>1. Append(messages \o x, m) = sent
      BY <1>1, <1>3, <2>2 DEF EndHands
    <3>2. m \in MessageSet
      <4>1. holder \in Sender
        BY <1>1, <2>2 DEF FTypes
      <4>2. Payload(holder) \in Seq(Bit)
        BY <1>1, <4>1, PayloadType
      <4> QED
        BY <4>2 DEF Message, MessageSet, TEXT, Bit
    <3> HIDE DEF m
    <3>3. Append(messages \o x, m) = messages \o Append(x, m) /\ Append(x, m) \in Seq(MessageSet)
      <4>1. Append(x, m) \in Seq(MessageSet)
        BY <3>2
      <4>2. Append(messages \o x, m) = messages \o Append(x, m)
        BY <1>4, <3>2, Appended
      <4> QED
        BY <4>1, <4>2
    <3> QED
      BY <3>1, <3>3
  <2> QED
    BY <2>1, <2>2
<1>6. Len(messages) <= Len(sent) /\ \A i \in DOMAIN messages : messages[i] = sent[i]
  BY <1>4, <1>5
<1>7. ASSUME wire = <<>>, holder = NoSender PROVE messages = sent
  <2>1. Len(wire) = 0
    BY <1>7
  <2>2. End = Whole /\ Whole.out = messages
    BY <1>1, <2>1, WholeType DEF End
  <2> QED
    BY <1>1, <1>7, <2>2 DEF EndHands
<1> QED
  BY <1>2, <1>6, <1>7 DEF FramesSound, WholeInOrder

LEMMA Initially ==
    ASSUME FInit
    PROVE  FInv
<1>1. \A s \in Sender : len[s] \in Nat /\ len[s] \in Lengths
  BY Parameters DEF FInit
<1>2. parser \in ParserRecord /\ parser.out = <<>> /\ parser.state = "start" /\ parser.frame = "BEGIN"
  <2>1. 0 \in 0..MaskLen - 1 /\ [i \in 0..MaskLen - 1 |-> 0] \in [0..MaskLen - 1 -> Nat]
    BY Parameters
  <2>2. <<>> \in Seq(Nat) /\ <<>> \in Seq(MessageSet)
    OBVIOUS
  <2> QED
    BY <2>1, <2>2 DEF FInit, ParserRecord, Kinds
<1>3. parser \in ParserSet
  BY <1>2 DEF ParserSet
<1>4. FTypes
  <2>1. wire \in Seq(ByteSet) /\ messages \in Seq(MessageSet) /\ sent \in Seq(MessageSet)
    BY DEF FInit
  <2>2. isClient \in BOOLEAN /\ len \in [Sender -> Lengths] /\ holder \in Sender \cup {NoSender}
    BY DEF FInit
  <2>3. spc \in [Sender -> {"idle", "sending", "done"}] /\ off \in [Sender -> Nat]
    BY DEF FInit
  <2> QED
    BY <1>2, <1>3, <2>1, <2>2, <2>3 DEF FTypes
<1>5. Sending
  <2>1. \A s \in Sender : s # NoSender
    BY Parameters
  <2>2. ASSUME NEW s \in Sender
        PROVE  spc[s] = "idle" /\ off[s] = 0 /\ off[s] <= len[s] /\ holder # s
    <3>1. spc[s] = "idle" /\ off[s] = 0 /\ holder # s
      BY <2>1 DEF FInit
    <3> QED
      BY <1>1, <3>1
  <2> QED
    BY <2>2 DEF Sending
<1>6. wire = <<>> /\ Len(wire) = 0 /\ holder = NoSender /\ messages = sent
  BY DEF FInit
<1>7. End = Whole /\ Path(Whole, wire)[0] = Whole /\ Whole.out = messages /\ Whole.state = "start"
  BY <1>2, <1>4, <1>6, WholeType DEF End
<1>8. Whole.frame = "BEGIN"
  BY <1>2 DEF Whole, After, ParserRecord
<1>9. Leads(Whole, wire, End)
  <2>1. \A k \in 1..Len(wire) : FALSE
    BY <1>6
  <2> QED
    BY <2>1 DEF Leads, End
<1>10. EndFits
  BY <1>6, <1>7, <1>8, <1>9 DEF EndFits, Midway
<1>11. EndHands
  BY <1>6, <1>7 DEF EndHands
<1> QED
  BY <1>4, <1>5, <1>10, <1>11 DEF FInv

\* A writer's bytes lead on from where those before them lead.
LEMMA Written ==
    ASSUME FTypes, Leads(Whole, wire, End), NEW F \in Seq(ByteSet), NEW r, Leads(End, F, r),
           wire' = wire \o F, parser' = parser, messages' = messages
    PROVE  Leads(Whole', wire', End') /\ End' = r /\ wire' \in Seq(ByteSet)
<1> DEFINE c == Whole
           e == End
           w == wire
<1>1. w \in Seq(ByteSet) /\ Leads(c, w, e) /\ Leads(e, F, r)
  BY DEF FTypes
<1>2. Whole' = c
  BY DEF Whole
<1> HIDE DEF c, e, w
<1>3. Leads(c, w \o F, r)
  BY <1>1, Joined, Zenon
<1>4. wire' = w \o F /\ w \o F \in Seq(ByteSet)
  BY <1>1 DEF w
<1>5. Leads(Whole', wire', r)
  BY <1>2, <1>3, <1>4
<1>6. End' = Path(Whole', wire')[Len(wire')]
  BY DEF End
<1>7. End' = r
  BY <1>5, <1>6 DEF Leads
<1> QED
  BY <1>4, <1>5, <1>7

LEMMA LocksKeeps ==
    ASSUME FInv, NEW s \in Sender, Locks(s)
    PROVE  FInv'
<1> USE DEF Locks
<1>1. FTypes /\ Sending /\ EndFits /\ EndHands
  BY DEF FInv
<1>2. s # NoSender /\ holder = NoSender /\ holder' = s /\ spc[s] = "idle" /\ off[s] = 0
  BY <1>1, Parameters DEF Sending
<1>3. Payload(s) \in Seq(Bit) /\ len[s] \in Nat
  BY <1>1, PayloadType
<1> DEFINE m == Message(TEXT, Payload(s))
<1>4. m \in MessageSet /\ sent' = Append(sent, m) /\ sent \in Seq(MessageSet)
  BY <1>1, <1>3 DEF Message, MessageSet, TEXT, Bit, FTypes
<1> HIDE DEF m
<1>5. FTypes'
  <2>1. sent' \in Seq(MessageSet)
    BY <1>4
  <2>2. spc' \in [Sender -> {"idle", "sending", "done"}]
    BY <1>1 DEF FTypes
  <2>3. holder' \in Sender \cup {NoSender}
    BY <1>2
  <2> QED
    BY <1>1, <2>1, <2>2, <2>3 DEF FTypes
<1>6. Sending'
  <2>1. \A t \in Sender : t # NoSender
    BY Parameters
  <2>2. \A t \in Sender : spc'[t] = IF t = s THEN "sending" ELSE spc[t]
    BY <1>1 DEF FTypes
  <2>3. 0 < len[s] \/ len[s] = 0
    BY <1>3
  <2>4. ASSUME NEW t \in Sender
        PROVE  /\ spc'[t] = "sending" <=> holder' = t
               /\ spc'[t] = "idle" => off[t] = 0
               /\ off[t] <= len[t] /\ (spc'[t] = "sending" => off[t] < len[t] \/ len[t] = 0)
    <3>1. /\ spc[t] = "sending" <=> holder = t
          /\ spc[t] = "idle" => off[t] = 0
          /\ off[t] <= len[t] /\ (spc[t] = "sending" => off[t] < len[t] \/ len[t] = 0)
      BY <1>1 DEF Sending
    <3>2. CASE t = s
      BY <1>2, <2>2, <2>3, <3>1, <3>2
    <3>3. CASE t # s
      BY <1>2, <2>1, <2>2, <3>1, <3>3
    <3> QED
      BY <3>2, <3>3
  <2> QED
    BY <2>4 DEF Sending
<1>7. End' = End /\ Whole' = Whole
  BY DEF End, Whole
<1>8. EndFits'
  <2>1. ~ Midway /\ ~ Midway'
    BY <1>2 DEF Midway
  <2>2. Leads(Whole', wire', End')
    BY <1>1, <1>7 DEF EndFits
  <2> QED
    BY <1>1, <1>7, <2>1, <2>2 DEF EndFits
<1>9. EndHands'
  <2>1. End.out = sent
    BY <1>1, <1>2 DEF EndHands
  <2>2. Payload(s)' = Payload(s)
    BY DEF Payload
  <2>3. Payload(holder)' = Payload(s)
    BY <1>2 DEF Payload
  <2> QED
    BY <1>2, <1>4, <1>7, <2>1, <2>3 DEF EndHands, m
<1> QED
  BY <1>5, <1>6, <1>8, <1>9 DEF FInv

LEMMA PingKeeps ==
    ASSUME FInv, sendPing
    PROVE  FInv'
<1>1. FTypes /\ Sending /\ EndFits /\ EndHands
  BY DEF FInv
<1>2. holder = NoSender /\ holder' = NoSender /\ ~ Midway /\ ~ Midway'
  BY DEF sendPing, Midway
<1>3. End \in ParserSet /\ End.state = "start" /\ End.frame \in {"BEGIN", "FIN"} /\ Leads(Whole, wire, End)
      /\ End.out = sent
  BY <1>1, <1>2, WholeType DEF EndFits, EndHands
<1> DEFINE mask == [i \in 0..MaskLen - 1 |-> i % 2]
           F == Frame(PING, TRUE, <<>>, mask)
<1>4. mask \in Masks
  <2>1. \A i \in 0..MaskLen - 1 : i % 2 \in 0..1
    OBVIOUS
  <2> QED
    BY <2>1 DEF Masks
<1>5. <<>> \in Seq(Bit) /\ Len(<<>>) < Weight[Digits8] /\ PING \in Nat /\ PING # CONTINUE /\ isClient \in BOOLEAN
  <2>1. Weight[Digits8] \in Nat \ {0}
    BY Weights, Parameters
  <2> QED
    BY <1>1, <2>1 DEF PING, CONTINUE, FTypes
<1>6. wire' = wire \o F
  BY DEF sendPing
<1> HIDE DEF mask
<1>7. F \in Seq(ByteSet) /\ \E r : Leads(End, F, r) /\ Ended(End, PING, TRUE, <<>>, r)
  BY <1>3, <1>4, <1>5, FrameLeads
<1> HIDE DEF F
<1>8. PICK r : Leads(End, F, r) /\ Ended(End, PING, TRUE, <<>>, r)
  BY <1>7
<1>9. Leads(Whole', wire', End') /\ End' = r /\ wire' \in Seq(ByteSet)
  <2>1. parser' = parser /\ messages' = messages
    BY DEF sendPing
  <2> QED
    BY <1>1, <1>3, <1>6, <1>7, <1>8, <2>1, Written
<1>10. r.state = "start" /\ r.frame = "FIN" /\ r.out = Append(sent, Message(PING, <<>>))
  <2>1. <<>> \o <<>> = <<>>
    OBVIOUS
  <2> QED
    BY <1>3, <1>5, <1>8, <2>1 DEF Ended
<1>11. sent' = Append(sent, Message(PING, <<>>)) /\ sent' \in Seq(MessageSet)
  <2>1. Message(PING, <<>>) \in MessageSet /\ sent \in Seq(MessageSet)
    BY <1>1 DEF Message, MessageSet, PING, FTypes
  <2>2. sent' = Append(sent, Message(PING, <<>>))
    BY DEF sendPing
  <2> QED
    BY <2>1, <2>2
<1>12. FTypes'
  BY <1>1, <1>9, <1>11 DEF FTypes, sendPing
<1>13. Sending'
  BY <1>1 DEF Sending, sendPing
<1>14. EndFits' /\ EndHands'
  BY <1>2, <1>9, <1>10, <1>11 DEF EndFits, EndHands
<1> QED
  BY <1>12, <1>13, <1>14 DEF FInv

LEMMA Fragments ==
    ASSUME NEW P \in Seq(Bit), NEW o \in Nat, NEW n \in Nat, o + n <= Len(P)
    PROVE  /\ SubSeq(P, o + 1, o + n) \in Seq(Bit) /\ Len(SubSeq(P, o + 1, o + n)) = n
           /\ SubSeq(P, 1, o) \o SubSeq(P, o + 1, o + n) = SubSeq(P, 1, o + n)
           /\ <<>> \o SubSeq(P, 1, n) = SubSeq(P, 1, n)
<1> DEFINE x == SubSeq(P, 1, o)
           y == SubSeq(P, o + 1, o + n)
           z == SubSeq(P, 1, o + n)
<1>1. x \in Seq(Bit) /\ Len(x) = o /\ \A i \in 1..o : x[i] = P[i]
  OBVIOUS
<1>2. y \in Seq(Bit) /\ Len(y) = n /\ \A i \in 1..n : y[i] = P[o + i]
  BY SMTT(60)
<1>3. z \in Seq(Bit) /\ Len(z) = o + n /\ \A i \in 1..o + n : z[i] = P[i]
  OBVIOUS
<1>4. <<>> \o SubSeq(P, 1, n) = SubSeq(P, 1, n)
  <2> DEFINE u == SubSeq(P, 1, n)
  <2>1. u \in Seq(Bit)
    OBVIOUS
  <2> HIDE DEF u
  <2>2. <<>> \o u = u
    BY <2>1
  <2> QED
    BY <2>2 DEF u
<1> HIDE DEF x, y, z
<1>5. x \o y \in Seq(Bit) /\ Len(x \o y) = o + n
  <2>1. x \in Seq(Bit) /\ y \in Seq(Bit)
    BY <1>1, <1>2
  <2>2. x \o y \in Seq(Bit) /\ Len(x \o y) = Len(x) + Len(y)
    BY <2>1, Concatenated
  <2> QED
    BY <1>1, <1>2, <2>2
<1>6. ASSUME NEW i \in 1..o + n PROVE (x \o y)[i] = z[i]
  <2>1. CASE i \in 1..o
    BY <1>1, <1>2, <1>3, <2>1
  <2>2. CASE i \notin 1..o
    <3>1. i - o \in 1..n /\ o + (i - o) = i
      BY <2>2
    <3>2. (x \o y)[i] = y[i - o]
      BY <1>1, <1>2, <2>2
    <3> QED
      BY <1>2, <1>3, <3>1, <3>2
  <2> QED
    BY <2>1, <2>2
<1>7. x \o y = z
  BY <1>3, <1>5, <1>6, SMTT(60)
<1> QED
  BY <1>2, <1>4, <1>7 DEF x, y, z

LEMMA FragmentKeeps ==
    ASSUME FInv, NEW s \in Sender, SendsFragment(s)
    PROVE  FInv'
<1> DEFINE P == Payload(s)
           o == off[s]
           n == IF len[s] - off[s] > Fragment THEN Fragment ELSE len[s] - off[s]
           last == off[s] + n = len[s]
           op == IF o = 0 THEN TEXT ELSE CONTINUE
           data == SubSeq(P, o + 1, o + n)
<1>1. FTypes /\ Sending /\ EndFits /\ EndHands
  BY DEF FInv
<1>2. spc[s] = "sending" /\ holder = s /\ s # NoSender /\ o \in Nat /\ o <= len[s] /\ (o < len[s] \/ len[s] = 0)
  BY <1>1, Parameters DEF Sending, SendsFragment, FTypes
<1>3. P \in Seq(Bit) /\ Len(P) = len[s] /\ len[s] \in Nat /\ len[s] < Weight[Digits8]
  BY <1>1, PayloadType, Parameters
<1>4. n \in Nat /\ o + n <= len[s] /\ n <= len[s] /\ (~ last => n > 0 /\ o + n < len[s])
  <2>1. Fragment \in Nat /\ Fragment > 0
    BY Parameters
  <2> DEFINE l == len[s]
  <2>2. l \in Nat /\ o \in Nat /\ o <= l
    BY <1>2, <1>3
  <2> HIDE DEF o, l
  <2> SUFFICES LET k == IF l - o > Fragment THEN Fragment ELSE l - o
               IN  k \in Nat /\ o + k <= l /\ k <= l /\ (~ (o + k = l) => k > 0 /\ o + k < l)
    BY DEF o, l
  <2> QED
    BY <2>1, <2>2
<1>5. /\ \E mask \in Masks : wire' = wire \o Frame(op, last, data, mask)
      /\ off' = [off EXCEPT ![s] = o + n]
      /\ spc' = IF last THEN [spc EXCEPT ![s] = "done"] ELSE spc
      /\ holder' = IF last THEN NoSender ELSE s
      /\ isClient' = isClient /\ len' = len /\ parser' = parser /\ messages' = messages /\ sent' = sent
  BY <1>2 DEF SendsFragment
<1>6. last \in BOOLEAN /\ op \in Nat /\ isClient \in BOOLEAN
  BY <1>1 DEF TEXT, CONTINUE, FTypes
<1> HIDE DEF P, n, o
<1>7. /\ data \in Seq(Bit) /\ Len(data) = n
      /\ SubSeq(P, 1, o) \o data = SubSeq(P, 1, o + n)
      /\ <<>> \o SubSeq(P, 1, n) = SubSeq(P, 1, n)
  BY <1>2, <1>3, <1>4, Fragments
<1>8. n < Weight[Digits8]
  <2>1. Weight[Digits8] \in Nat
    BY Weights, Parameters
  <2> QED
    BY <1>3, <1>4, <2>1
<1>9. PICK mask \in Masks : wire' = wire \o Frame(op, last, data, mask)
  BY <1>5
<1> DEFINE F == Frame(op, last, data, mask)
<1>10. End \in ParserSet /\ End.state = "start" /\ Leads(Whole, wire, End)
       /\ Append(End.out, Message(TEXT, P)) = sent
  BY <1>1, <1>2, WholeType DEF EndFits, EndHands, P
<1> HIDE DEF last, op, data
<1>11. F \in Seq(ByteSet) /\ \E r : Leads(End, F, r) /\ Ended(End, op, last, data, r)
  BY <1>6, <1>7, <1>8, <1>10, FrameLeads
<1>12. wire' = wire \o F
  BY <1>9
<1> HIDE DEF F
<1>13. PICK r : Leads(End, F, r) /\ Ended(End, op, last, data, r)
  BY <1>11
<1>14. Leads(Whole', wire', End') /\ End' = r /\ wire' \in Seq(ByteSet)
  BY <1>1, <1>5, <1>10, <1>11, <1>12, <1>13, Written
<1>15. r.opcode = TEXT /\ r.message = SubSeq(P, 1, o + n)
  <2>1. CASE o = 0
    <3>1. End.frame \in {"BEGIN", "FIN"}
      BY <1>1, <1>2, <2>1 DEF EndFits, Midway, o
    <3>2. op = TEXT /\ TEXT # CONTINUE
      BY <2>1 DEF op, TEXT, CONTINUE
    <3>3. 0 + 1 = 1 /\ 0 + n = n
      BY <1>4
    <3>4. data = SubSeq(P, 1, n) /\ o + n = n
      BY <2>1, <3>3 DEF data
    <3> QED
      BY <1>7, <1>13, <3>1, <3>2, <3>4 DEF Ended
  <2>2. CASE o # 0
    <3>1. Midway
      <4>1. off[holder] > 0
        BY <1>2, <2>2 DEF o
      <4> QED
        BY <1>2, <4>1 DEF Midway
    <3>2. End.frame = "END" /\ End.opcode = TEXT /\ End.message = SubSeq(P, 1, o)
      BY <1>1, <1>2, <3>1 DEF EndFits, P, o
    <3>3. op = CONTINUE
      BY <2>2 DEF op
    <3> QED
      BY <1>7, <1>13, <3>2, <3>3 DEF Ended
  <2> QED
    BY <2>1, <2>2
<1>16. /\ r.state = "start" /\ r.frame = IF last THEN "FIN" ELSE "END"
       /\ r.out = IF last THEN Append(End.out, Message(TEXT, SubSeq(P, 1, o + n))) ELSE End.out
  BY <1>13, <1>15 DEF Ended
<1>17. off' \in [Sender -> Nat] /\ off'[s] = o + n /\ o + n \in Nat /\ \A t \in Sender : t # s => off'[t] = off[t]
  <2>1. o + n \in Nat
    BY <1>2, <1>4
  <2> QED
    BY <1>1, <1>5, <2>1 DEF FTypes
<1>18. spc' \in [Sender -> {"idle", "sending", "done"}] /\ (last => spc'[s] = "done") /\ (~ last => spc'[s] = "sending")
       /\ \A t \in Sender : t # s => spc'[t] = spc[t]
  BY <1>1, <1>2, <1>5 DEF FTypes
<1>19. FTypes'
  <2>1. isClient' \in BOOLEAN /\ len' \in [Sender -> Lengths] /\ holder' \in Sender \cup {NoSender}
    BY <1>1, <1>2, <1>5 DEF FTypes
  <2>2. parser' \in ParserSet /\ parser'.out = <<>> /\ messages' \in Seq(MessageSet) /\ sent' \in Seq(MessageSet)
    BY <1>1, <1>5 DEF FTypes
  <2> QED
    BY <1>14, <1>17, <1>18, <2>1, <2>2 DEF FTypes
<1>20. Sending'
  <2>1. ASSUME NEW t \in Sender
        PROVE  /\ spc'[t] = "sending" <=> holder' = t
               /\ spc'[t] = "idle" => off'[t] = 0
               /\ off'[t] <= len'[t] /\ (spc'[t] = "sending" => off'[t] < len'[t] \/ len'[t] = 0)
    <3>1. /\ spc[t] = "sending" <=> holder = t
          /\ spc[t] = "idle" => off[t] = 0
          /\ off[t] <= len[t] /\ (spc[t] = "sending" => off[t] < len[t] \/ len[t] = 0)
      BY <1>1 DEF Sending
    <3>2. t # NoSender
      BY Parameters
    <3>3. CASE t # s
      BY <1>2, <1>5, <1>17, <1>18, <3>1, <3>2, <3>3
    <3>4. CASE t = s /\ last
      <4>1. spc'[t] = "done" /\ holder' = NoSender
        BY <1>5, <1>18, <3>4
      <4>2. off'[t] <= len'[t]
        BY <1>4, <1>5, <1>17, <3>4
      <4> QED
        BY <3>2, <4>1, <4>2
    <3>5. CASE t = s /\ ~ last
      <4>1. spc'[t] = "sending" /\ holder' = t
        BY <1>5, <1>18, <3>5
      <4>2. off'[t] < len'[t] /\ off'[t] <= len'[t]
        <5>1. o + n < len[s] /\ o + n <= len[s]
          BY <1>4, <3>5
        <5> QED
          BY <1>5, <1>17, <3>5, <5>1
      <4> QED
        BY <4>1, <4>2
    <3> QED
      BY <3>3, <3>4, <3>5
  <2> QED
    BY <2>1 DEF Sending
<1>21. Payload(s)' = P
  BY <1>5 DEF Payload, P
<1>22. CASE last
  <2>1. holder' = NoSender /\ ~ Midway'
    BY <1>5, <1>22 DEF Midway
  <2>2. SubSeq(P, 1, o + n) = P
    <3>1. o + n = Len(P)
      BY <1>3, <1>22 DEF last, o
    <3> QED
      BY <1>3, <3>1
  <2>3. r.out = sent'
    BY <1>5, <1>10, <1>16, <1>22, <2>2
  <2> QED
    BY <1>14, <1>16, <1>19, <1>20, <1>22, <2>1, <2>3 DEF FInv, EndFits, EndHands
<1>23. CASE ~ last
  <2>1. holder' = s
    BY <1>5, <1>23
  <2>2. off'[holder'] = o + n /\ o + n > 0
    <3>1. o + n > 0
      BY <1>2, <1>4, <1>23
    <3> QED
      BY <1>17, <2>1, <3>1
  <2>3. Midway'
    BY <1>2, <2>1, <2>2 DEF Midway
  <2>4. Payload(holder)' = P
    BY <1>5, <2>1 DEF Payload, P
  <2>5. EndFits'
    BY <1>14, <1>15, <1>16, <1>23, <2>2, <2>3, <2>4 DEF EndFits
  <2>6. EndHands'
    BY <1>2, <1>5, <1>10, <1>14, <1>16, <1>23, <2>1, <2>4 DEF EndHands
  <2> QED
    BY <1>19, <1>20, <2>5, <2>6 DEF FInv
<1> QED
  BY <1>22, <1>23

\* What a read makes of the parser is where the bytes that it returns lead.
LEMMA ReadsAlong ==
    ASSUME FTypes, NEW n \in Nat, Reads(n)
    PROVE  /\ n \in 1..Len(wire) /\ Whole' = Path(Whole, wire)[n]
           /\ parser' \in ParserSet /\ parser'.out = <<>> /\ messages' \in Seq(MessageSet)
<1> DEFINE chunk == SubSeq(wire, 1, n)
           c == execute(parser, chunk)
<1>1. n \in 1..Len(wire) /\ wire \in Seq(ByteSet) /\ parser \in ParserSet /\ messages \in Seq(MessageSet)
      /\ Len(wire) \in Nat
  BY DEF Reads, FTypes
<1>2. parser' = [c EXCEPT !.out = <<>>] /\ messages' = messages \o c.out
  BY DEF Reads
<1>3. chunk \in Seq(ByteSet) /\ Len(chunk) = n /\ \A i \in 1..n : chunk[i] = wire[0 + i]
  BY <1>1
<1> HIDE DEF chunk
<1>4. c = Path(parser, chunk)[n] /\ c \in ParserSet
  <2>1. n \in 0..Len(chunk)
    BY <1>1, <1>3
  <2>2. c = Path(parser, chunk)[Len(chunk)]
    BY <1>1, <1>3, ExecuteIsPath
  <2> QED
    BY <1>1, <1>3, <2>1, <2>2, PathType
<1> HIDE DEF c
<1>5. c \in ParserRecord /\ c.out \in Seq(MessageSet)
  BY <1>4 DEF ParserSet, ParserRecord
<1>6. parser' \in ParserSet /\ parser'.out = <<>> /\ messages' \in Seq(MessageSet)
  <2>1. <<>> \in Seq(MessageSet)
    OBVIOUS
  <2>2. parser' \in ParserRecord /\ parser'.out = <<>> /\ parser'.state = c.state /\ parser'.require = c.require
    BY <1>2, <1>5, <2>1 DEF ParserRecord
  <2>3. parser' \in ParserSet
    BY <1>4, <2>2 DEF ParserSet
  <2>4. messages \o c.out \in Seq(MessageSet)
    BY <1>1, <1>5
  <2> QED
    BY <1>2, <2>2, <2>3, <2>4
<1>7. Whole' = After(messages, c)
  <2>1. Whole' = After(messages', parser')
    BY DEF Whole
  <2> DEFINE q == messages \o c.out
  <2>2. q \o <<>> = q
    <3>1. q \in Seq(MessageSet)
      BY <1>1, <1>5
    <3> HIDE DEF q
    <3> QED
      BY <3>1
  <2>3. After(messages', parser') = [c EXCEPT !.out = q \o <<>>]
    <3> HIDE DEF q
    <3> QED
      BY <1>2, <1>5 DEF After, ParserRecord, q
  <2>4. After(messages, c) = [c EXCEPT !.out = q]
    BY DEF After
  <2> QED
    BY <2>1, <2>2, <2>3, <2>4
<1>8. Whole' = Path(Whole, wire)[n]
  <2>1. After(messages, c) = Path(Whole, chunk)[n]
    <3>1. n \in 0..Len(chunk)
      BY <1>1, <1>3
    <3>2. Path(After(messages, parser), chunk)[n] = After(messages, Path(parser, chunk)[n])
      BY <1>1, <1>3, <3>1, PathAfter
    <3> QED
      BY <1>4, <3>2 DEF Whole
  <2>2. Path(Whole, chunk)[n] = Path(Whole, wire)[n]
    <3>1. Part(chunk, wire, 0)
      BY <1>1, <1>3 DEF Part
    <3>2. Path(Whole, wire)[0] = Whole
      BY <1>1, Paths
    <3>3. \A i \in 0..Len(chunk) : Path(Path(Whole, wire)[0], chunk)[i] = Path(Whole, wire)[0 + i]
      BY <3>1, PathFrom
    <3>4. n \in 0..Len(chunk) /\ 0 + n = n
      BY <1>1, <1>3
    <3> QED
      BY <3>2, <3>3, <3>4
  <2> QED
    BY <1>7, <2>1, <2>2
<1> QED
  BY <1>1, <1>6, <1>8

LEMMA ReadsKeeps ==
    ASSUME FInv, NEW n \in Nat, Reads(n)
    PROVE  FInv'
<1> DEFINE rest == SubSeq(wire, n + 1, Len(wire))
<1>1. FTypes /\ Sending /\ EndFits /\ EndHands
  BY DEF FInv
<1>2. /\ n \in 1..Len(wire) /\ Whole' = Path(Whole, wire)[n]
      /\ parser' \in ParserSet /\ parser'.out = <<>> /\ messages' \in Seq(MessageSet)
      /\ wire \in Seq(ByteSet) /\ Len(wire) \in Nat
  <2>1. wire \in Seq(ByteSet) /\ Len(wire) \in Nat
    BY <1>1 DEF FTypes
  <2> QED
    BY <1>1, <2>1, ReadsAlong
<1>3. /\ wire' = rest /\ isClient' = isClient /\ spc' = spc /\ off' = off /\ len' = len
      /\ holder' = holder /\ sent' = sent
  BY DEF Reads
<1>4. rest \in Seq(ByteSet) /\ Len(rest) = Len(wire) - n /\ \A i \in 1..Len(wire) - n : rest[i] = wire[n + i]
  <2>1. n \in 0..Len(wire)
    BY <1>2
  <2> QED
    BY <1>2, <2>1, Rest
<1> HIDE DEF rest
<1>5. \A i \in 0..Len(rest) : Path(Whole', rest)[i] = Path(Whole, wire)[n + i]
  <2>1. Part(rest, wire, n)
    BY <1>2, <1>4 DEF Part
  <2>2. \A i \in 0..Len(rest) : Path(Path(Whole, wire)[n], rest)[i] = Path(Whole, wire)[n + i]
    BY <2>1, PathFrom
  <2> QED
    BY <1>2, <2>2
<1>6. End' = End
  <2>1. End' = Path(Whole', rest)[Len(rest)]
    BY <1>3 DEF End
  <2>2. Len(rest) \in 0..Len(rest) /\ n + Len(rest) = Len(wire)
    BY <1>2, <1>4
  <2> QED
    BY <1>5, <2>1, <2>2 DEF End
<1>7. Leads(Whole', wire', End')
  <2>1. ASSUME NEW k \in 1..Len(rest) PROVE rest[k].k = Path(Whole', rest)[k - 1].state
    <3>1. n + k \in 1..Len(wire) /\ (n + k) - 1 = n + (k - 1) /\ k - 1 \in 0..Len(rest) /\ k \in 1..Len(wire) - n
      <4>1. Len(rest) = Len(wire) - n /\ n \in 1..Len(wire) /\ Len(wire) \in Nat
        BY <1>2, <1>4
      <4> QED
        BY <2>1, <4>1
    <3>2. wire[n + k].k = Path(Whole, wire)[(n + k) - 1].state
      BY <1>1, <3>1 DEF EndFits, Leads
    <3> QED
      BY <1>4, <1>5, <3>1, <3>2
  <2>2. Leads(Whole', rest, Path(Whole', rest)[Len(rest)])
    BY <2>1 DEF Leads
  <2> QED
    BY <1>3, <2>2 DEF End
<1>8. FTypes'
  BY <1>1, <1>2, <1>3, <1>4 DEF FTypes
<1>9. Sending'
  BY <1>1, <1>3 DEF Sending
<1>10. Payload(holder)' = Payload(holder)
  BY <1>3 DEF Payload
<1>11. EndFits' /\ EndHands'
  BY <1>1, <1>3, <1>6, <1>7, <1>10 DEF EndFits, EndHands, Midway
<1> QED
  BY <1>8, <1>9, <1>11 DEF FInv

LEMMA StutterKeeps ==
    ASSUME FInv, UNCHANGED fvars
    PROVE  FInv'
BY DEF FInv, FTypes, Sending, EndFits, EndHands, Midway, End, Whole, Payload, fvars

LEMMA FInvNext ==
    ASSUME FInv, [FNext]_fvars
    PROVE  FInv'
<1>1. ASSUME NEW s \in Sender, Locks(s) PROVE FInv'
  BY <1>1, LocksKeeps
<1>2. ASSUME NEW s \in Sender, SendsFragment(s) PROVE FInv'
  BY <1>2, FragmentKeeps
<1>3. CASE sendPing
  BY <1>3, PingKeeps
<1>4. ASSUME NEW n \in 1..MaxRead, Reads(n) PROVE FInv'
  <2>1. n \in Nat
    BY FramingAssumption
  <2> QED
    BY <1>4, <2>1, ReadsKeeps
<1>5. CASE UNCHANGED fvars
  BY <1>5, StutterKeeps
<1> QED
  BY <1>1, <1>2, <1>3, <1>4, <1>5 DEF FNext

(* Wherever reads cut the stream, the parser of websocket_parser_execute     *)
(* takes every byte for what websocket_build_frame meant it to be, and the   *)
(* onMessage of WebSocketParser gets whole messages, unmasked, in the order  *)
(* in which their senders had the mutex: for any number of threads, any      *)
(* lengths that the format can express, any masks and any reads.             *)
THEOREM FramesAreSound == FSpec => []FramesSound
<1>1. FInit => FInv
  BY Initially
<1>2. FInv /\ [FNext]_fvars => FInv'
  BY FInvNext
<1>3. FInv => FramesSound
  BY Sound
<1> QED
  BY <1>1, <1>2, <1>3, PTL DEF FSpec

-----------------------------------------------------------------------------
(* Lengths.                                                                  *)

\* A digit is below Radix, and a short length is one the format has anyway.
FormatByte ==
    {b \in ByteSet : /\ b.k = "length" => b.v < Radix
                     /\ b.k = "head" /\ b.v <= Short => b.v < Weight[Digits8]}

LEMMA DigitsFit ==
    /\ Digits8 \in Nat \ {0} /\ Digits2 \in 1..Digits8 /\ Weight[0] = 1
    /\ \A i \in 0..Digits8 : Weight[i] \in Nat \ {0}
    /\ \A i \in 1..Digits8 : Weight[Digits8 - (i - 1)] = Radix * Weight[Digits8 - i]
<1>1. Digits8 \in Nat \ {0} /\ Digits2 \in 1..Digits8
  BY FramingAssumption
<1>2. ASSUME NEW i \in 1..Digits8 PROVE Weight[Digits8 - (i - 1)] = Radix * Weight[Digits8 - i]
  <2>1. Digits8 - i \in Nat /\ Digits8 - (i - 1) = (Digits8 - i) + 1
    BY <1>1
  <2> QED
    BY <2>1, Weights
<1>3. \A i \in 0..Digits8 : i \in Nat
  BY <1>1
<1> QED
  BY <1>1, <1>2, <1>3, Weights

\* More digits tell more lengths apart.
LEMMA HeaviestIsLast ==
    \A k \in 0..Digits8 : Weight[Digits8 - k] <= Weight[Digits8]
<1> DEFINE T == {k \in 0..Digits8 : Weight[Digits8 - k] <= Weight[Digits8]}
<1>1. Digits8 \in Nat /\ Weight[Digits8] \in Nat
  BY DigitsFit
<1>2. 0 \in T
  BY <1>1
<1>3. ASSUME NEW k \in 0..Digits8 - 1, k \in T PROVE k + 1 \in T
  <2>1. k + 1 \in 1..Digits8 /\ (k + 1) - 1 = k /\ k + 1 \in 0..Digits8
        /\ Digits8 - (k + 1) \in 0..Digits8
    BY <1>1
  <2>2. Weight[Digits8 - k] = Radix * Weight[Digits8 - (k + 1)] /\ Weight[Digits8 - (k + 1)] \in Nat
    BY <2>1, DigitsFit
  <2>3. \A x \in Nat, y \in Nat \ {0} : x <= y * x /\ y * x \in Nat
    OBVIOUS
  <2> DEFINE w == Weight[Digits8 - (k + 1)]
  <2>4. w <= Radix * w /\ Radix * w \in Nat
    BY <2>2, <2>3, Parameters
  <2>5. Radix * w <= Weight[Digits8]
    BY <1>3, <2>2
  <2>6. w <= Weight[Digits8]
    BY <1>1, <2>2, <2>4, <2>5
  <2> QED
    BY <2>1, <2>6
<1>4. \A k \in 0..Digits8 : k \in T
  <2> HIDE DEF T
  <2> QED
    BY <1>1, <1>2, <1>3, Inductive
<1> QED
  BY <1>4

\* The last digit brings the length to what is below the weight of one more.
LEMMA DigitFits ==
    ASSUME NEW r \in Nat \ {0}, NEW w \in Nat, NEW l \in Nat, l < w, NEW v \in Nat, v < r
    PROVE  r * l + v \in Nat /\ r * l + v < r * w
<1>1. r * l \in Nat /\ r * (w - l) \in Nat /\ r * w = r * l + r * (w - l)
  OBVIOUS
<1>2. r <= r * (w - l)
  <2> DEFINE d == w - l - 1
  <2>1. d \in Nat /\ w - l = d + 1
    OBVIOUS
  <2> HIDE DEF d
  <2>2. r * (d + 1) = r * d + r /\ r * d \in Nat
    BY <2>1
  <2> QED
    BY <2>1, <2>2
<1> QED
  BY <1>1, <1>2

\* What follows when a length, and then the mask, is known.
LEMMA HeadedFits ==
    ASSUME NEW c \in ParserRecord, c.length < Weight[Digits8], c.require = 0
    PROVE  LengthFits(Headed(c))
<1>1. c.length \in Nat /\ Weight[Digits8] \in Nat
  BY DigitsFit DEF ParserRecord
<1>2. CASE c.length > 0
  <2> DEFINE d == [c EXCEPT !.state = "body", !.require = c.length]
             e == frame_header(d)
  <2>1. d.length = c.length /\ d.state = "body" /\ d.require = c.length
    BY DEF ParserRecord
  <2>2. e.length = d.length /\ e.state = d.state /\ e.require = d.require
    BY DEF frame_header, ParserRecord
  <2>3. Headed(c) = e
    BY <1>2 DEF Headed
  <2> HIDE DEF d, e
  <2> QED
    BY <1>1, <1>2, <2>1, <2>2, <2>3 DEF LengthFits
<1>3. CASE ~ (c.length > 0)
  <2> DEFINE d == [c EXCEPT !.state = "start"]
             f == frame_header(d)
             e == frame_end(f)
  <2>1. d.length = c.length /\ d.state = "start" /\ d.require = 0
    BY DEF ParserRecord
  <2>2. f.length = d.length /\ f.state = d.state /\ f.require = d.require
    BY DEF frame_header, ParserRecord
  <2>3. e.length = f.length /\ e.state = f.state /\ e.require = f.require
    BY DEF frame_header, frame_end, ParserRecord
  <2>4. Headed(c) = e
    BY <1>3 DEF Headed
  <2> HIDE DEF d, e, f
  <2> QED
    BY <1>1, <2>1, <2>2, <2>3, <2>4 DEF LengthFits
<1> QED
  BY <1>2, <1>3

LEMMA MeasuredFits ==
    ASSUME NEW c \in ParserRecord, c.length < Weight[Digits8], c.require = 0
    PROVE  LengthFits(Measured(c))
<1>1. CASE c.masked
  <2> DEFINE d == [c EXCEPT !.state = "mask", !.require = MaskLen]
  <2>1. d.length = c.length /\ d.state = "mask" /\ d.require = MaskLen /\ c.length \in Nat
    BY DEF ParserRecord
  <2>2. Measured(c) = d
    BY <1>1 DEF Measured
  <2> HIDE DEF d
  <2> QED
    BY <2>1, <2>2, DigitsFit, Parameters DEF LengthFits
<1>2. CASE ~c.masked
  BY <1>2, HeadedFits DEF Measured
<1> QED
  BY <1>1, <1>2

\* A byte that is taken for what it was meant to be keeps the length within the format.
LEMMA FeedFits ==
    ASSUME NEW c \in ParserSet, LengthFits(c), NEW b \in FormatByte, b.k = c.state
    PROVE  LengthFits(Feed(c, b))
<1>1. /\ c \in ParserRecord /\ b.v \in Nat /\ b.f \in BOOLEAN /\ b.k = c.state
      /\ c.length \in Nat /\ c.require \in Nat /\ c.length < Weight[Digits8]
      /\ Weight[Digits8] \in Nat \ {0}
  <2>1. c \in ParserRecord /\ c.length \in Nat /\ c.require \in Nat
    BY DEF ParserSet, ParserRecord
  <2>2. b.v \in Nat /\ b.f \in BOOLEAN
    BY DEF ByteSet, FormatByte
  <2>3. Weight[Digits8] \in Nat \ {0}
    <3>1. Digits8 \in 0..Digits8
      BY DigitsFit
    <3> QED
      BY <3>1, DigitsFit
  <2>4. c.length < Weight[Digits8]
    BY <2>1, <2>3 DEF LengthFits
  <2> QED
    BY <2>1, <2>2, <2>3, <2>4
<1>2. Head(<<b>>) = b /\ Len(<<b>>) = 1
  OBVIOUS
<1>3. CASE c.state = "start"
  <2> DEFINE d == StartCase(c, b)
  <2>1. d.length = 0 /\ d.state = "head" /\ d.require = c.require /\ c.require = 0
    BY <1>1, <1>3 DEF StartCase, ParserRecord, LengthFits
  <2>2. Feed(c, b) = d
    BY <1>2, <1>3 DEF Feed, ByState
  <2> HIDE DEF d
  <2> QED
    BY <1>1, <2>1, <2>2 DEF LengthFits
<1>4. CASE c.state = "head"
  <2> DEFINE d == [c EXCEPT !.masked = b.f, !.length = b.v]
             e(r) == [d EXCEPT !.length = 0, !.state = "length", !.require = r]
  <2>1. d \in ParserRecord /\ d.length = b.v /\ d.require = 0
    BY <1>1, <1>4 DEF ParserRecord, LengthFits
  <2>2. Feed(c, b) = HeadCase(c, b)
    BY <1>2, <1>4 DEF Feed, ByState
  <2>3. HeadCase(c, b) = IF b.v <= Short THEN Measured(d)
                         ELSE e(IF b.v = Short + 2 THEN Digits8 ELSE Digits2)
    BY DEF HeadCase
  <2>4. b.v <= Short => b.v < Weight[Digits8]
    BY <1>1, <1>4 DEF FormatByte
  <2>5. ASSUME NEW r \in 1..Digits8 PROVE LengthFits(e(r))
    <3> HIDE DEF d
    <3>1. e(r).length = 0 /\ e(r).state = "length" /\ e(r).require = r
      BY <2>1 DEF ParserRecord
    <3>2. Weight[Digits8 - r] \in Nat \ {0}
      <4>1. Digits8 - r \in 0..Digits8
        BY DigitsFit
      <4> QED
        BY <4>1, DigitsFit
    <3> HIDE DEF e
    <3> QED
      BY <1>1, <2>5, <3>1, <3>2 DEF LengthFits
  <2>6. Digits8 \in 1..Digits8 /\ Digits2 \in 1..Digits8
    BY DigitsFit
  <2> HIDE DEF d, e
  <2> QED
    BY <2>1, <2>2, <2>3, <2>4, <2>5, <2>6, MeasuredFits
<1>5. CASE c.state = "length"
  <2> DEFINE l == Radix * c.length + b.v
             d == [c EXCEPT !.length = l, !.require = c.require - 1]
             n == Weight[Digits8 - c.require]
             m == Weight[Digits8 - (c.require - 1)]
  <2>1. c.require \in 1..Digits8 /\ c.length < n /\ b.v < Radix
    BY <1>1, <1>5 DEF FormatByte, LengthFits
  <2>2. m = Radix * n /\ n \in Nat /\ m \in Nat
    <3>1. Digits8 - c.require \in 0..Digits8 /\ Digits8 - (c.require - 1) \in 0..Digits8
      BY <2>1, DigitsFit
    <3> QED
      BY <2>1, <3>1, DigitsFit
  <2>3. l \in Nat /\ l < m
    <3> HIDE DEF n, m
    <3> QED
      BY <1>1, <2>1, <2>2, DigitFits, Parameters
  <2>4. Feed(c, b) = IF d.require = 0 THEN Measured(d) ELSE d
    BY <1>2, <1>5 DEF Feed, ByState, LengthCase
  <2>5. m <= Weight[Digits8] /\ (c.require - 1 = 0 => m = Weight[Digits8])
    <3>1. c.require - 1 \in 0..Digits8 /\ Digits8 - 0 = Digits8
      BY <2>1, DigitsFit
    <3> QED
      BY <3>1, HeaviestIsLast
  <2>6. d \in ParserRecord /\ d.length = l /\ d.require = c.require - 1 /\ d.state = "length"
    <3>1. c.require - 1 \in Nat
      BY <2>1, DigitsFit
    <3> HIDE DEF l
    <3> QED
      BY <1>1, <1>5, <2>3, <3>1 DEF ParserRecord
  <2> HIDE DEF l, d
  <2>7. l < Weight[Digits8]
    <3> HIDE DEF n, m
    <3> QED
      BY <1>1, <2>2, <2>3, <2>5
  <2>8. CASE d.require = 0
    <3>1. LengthFits(Measured(d))
      BY <2>6, <2>7, <2>8, MeasuredFits
    <3> QED
      BY <2>4, <2>8, <3>1
  <2>9. CASE d.require # 0
    <3>1. d.require \in 1..Digits8
      BY <2>1, <2>6, <2>9, DigitsFit
    <3>2. d.length < Weight[Digits8 - d.require] /\ d.length \in 0..Weight[Digits8] - 1
      <4> HIDE DEF n
      <4> QED
        BY <1>1, <2>3, <2>6, <2>7
    <3>3. LengthFits(d)
      BY <2>6, <3>1, <3>2 DEF LengthFits
    <3> QED
      BY <2>4, <2>9, <3>3
  <2> QED
    BY <2>8, <2>9
<1>6. CASE c.state = "mask"
  <2> DEFINE m == [c.mask EXCEPT ![MaskLen - c.require] = b.v]
             d == [c EXCEPT !.mask = m, !.require = c.require - 1]
  <2>1. c.require \in 1..MaskLen
    BY <1>6 DEF LengthFits
  <2>2. Feed(c, b) = IF d.require = 0 THEN Headed(d) ELSE d
    BY <1>2, <1>6 DEF Feed, ByState, MaskCase
  <2>3. m \in [0..MaskLen - 1 -> Nat]
    BY <1>1 DEF ParserRecord
  <2>4. d \in ParserRecord /\ d.length = c.length /\ d.require = c.require - 1 /\ d.state = "mask"
    <3>1. c.require - 1 \in Nat
      BY <2>1, Parameters
    <3> HIDE DEF m
    <3> QED
      BY <1>1, <1>6, <2>3, <3>1 DEF ParserRecord
  <2> HIDE DEF m, d
  <2>5. CASE d.require = 0
    BY <1>1, <2>2, <2>4, <2>5, HeadedFits
  <2>6. CASE d.require # 0
    <3>1. d.require \in 1..MaskLen
      BY <2>1, <2>4, <2>6, Parameters
    <3>2. LengthFits(d)
      BY <1>1, <2>4, <3>1 DEF LengthFits
    <3> QED
      BY <2>2, <2>6, <3>2
  <2> QED
    BY <2>5, <2>6
<1>7. CASE c.state = "body"
  <2> DEFINE s == <<b>>
             e == Eaten(c, s)
             f == [e EXCEPT !.state = "start"]
  <2>1. c.require \in 1..c.length
    BY <1>7 DEF LengthFits
  <2>2. s \in Seq(ByteSet) /\ Len(s) = 1 /\ Len(s) <= c.require
    BY <1>1, <2>1 DEF FormatByte
  <2>3. Feed(c, b) = BodyCase(c, s)
    BY <1>7 DEF Feed, ByState
  <2>4. e.length = c.length
    <3> HIDE DEF s
    <3> QED
      BY <1>1 DEF Eaten, ParserRecord
  <2> HIDE DEF s, e
  <2>5. e \in ParserRecord /\ e.state = "body" /\ e.require = c.require - 1
    BY <1>1, <1>7, <2>2, EatenType DEF e
  <2>6. BodyCase(c, s) = IF c.require = 1 THEN frame_end(f) ELSE e
    BY <1>1, <2>2, BodyCaseIs DEF e
  <2>7. CASE c.require = 1
    <3>1. f \in ParserRecord /\ f.state = "start" /\ f.require = e.require /\ f.length = e.length
      BY <2>5 DEF ParserRecord, Kinds
    <3>4. e.require = 0 /\ e.length = c.length
      BY <2>4, <2>5, <2>7
    <3> HIDE DEF f
    <3>2. frame_end(f).state = "start" /\ frame_end(f).require = 0 /\ frame_end(f).length = c.length
      BY <3>1, <3>4 DEF frame_end, ParserRecord
    <3>3. LengthFits(frame_end(f))
      BY <1>1, <3>2 DEF LengthFits
    <3> QED
      BY <2>3, <2>6, <2>7, <3>3
  <2>8. CASE c.require # 1
    <3>1. e.require \in 1..e.length
      BY <1>1, <2>1, <2>4, <2>5, <2>8
    <3>2. LengthFits(e)
      BY <1>1, <2>4, <2>5, <3>1 DEF LengthFits
    <3> QED
      BY <2>3, <2>6, <2>8, <3>2
  <2> QED
    BY <2>7, <2>8
<1>8. c.state \in {"start", "head", "length", "mask", "body"}
  BY <1>1 DEF ParserRecord, Kinds
<1> QED
  BY <1>3, <1>4, <1>5, <1>6, <1>7, <1>8

LEMMA PathFits ==
    ASSUME NEW c \in ParserSet, LengthFits(c), NEW w \in Seq(FormatByte),
           \A k \in 1..Len(w) : w[k].k = Path(c, w)[k - 1].state
    PROVE  \A k \in 0..Len(w) : LengthFits(Path(c, w)[k])
<1> DEFINE T == {k \in 0..Len(w) : LengthFits(Path(c, w)[k])}
<1>1. Len(w) \in Nat /\ w \in Seq(ByteSet)
  BY DEF FormatByte
<1>2. 0 \in T
  BY <1>1, Paths
<1>3. ASSUME NEW k \in 0..Len(w) - 1, k \in T PROVE k + 1 \in T
  <2>1. k + 1 \in 1..Len(w) /\ (k + 1) - 1 = k /\ k \in 0..Len(w) /\ k + 1 \in 0..Len(w)
    BY <1>1
  <2>2. Path(c, w)[k + 1] = Feed(Path(c, w)[k], w[k + 1])
    BY <1>1, <2>1, Paths
  <2>3. w[k + 1] \in FormatByte /\ w[k + 1].k = Path(c, w)[k].state
    BY <2>1
  <2>4. Path(c, w)[k] \in ParserSet
    BY <1>1, <2>1, PathType
  <2>5. LengthFits(Feed(Path(c, w)[k], w[k + 1]))
    BY <1>3, <2>3, <2>4, FeedFits
  <2> QED
    BY <2>1, <2>2, <2>5
<1>4. \A k \in 0..Len(w) : k \in T
  <2> HIDE DEF T
  <2> QED
    BY <1>1, <1>2, <1>3, Inductive
<1> QED
  BY <1>4

LEMMA MeantBytes ==
    ASSUME NEW w \in Seq(ByteSet), \A i \in 1..Len(w) : w[i] \in FormatByte
    PROVE  w \in Seq(FormatByte)
OBVIOUS

\* Bytes of a mask or a body may be any.
LEMMA PayloadMeant ==
    ASSUME NEW k \in {"mask", "body"}, NEW values \in Seq(Nat)
    PROVE  Bytes(k, values) \in Seq(FormatByte)
<1> DEFINE w == Bytes(k, values)
<1>1. k \in Kinds
  BY DEF Kinds
<1>2. w \in Seq(ByteSet) /\ Len(w) = Len(values)
      /\ \A i \in 1..Len(values) : w[i] = Byte(k, values[i], FALSE)
  BY <1>1, BytesType
<1> HIDE DEF w
<1>3. ASSUME NEW i \in 1..Len(w) PROVE w[i] \in FormatByte
  <2>1. i \in 1..Len(values) /\ w[i] = Byte(k, values[i], FALSE)
    BY <1>2, <1>3
  <2> DEFINE v == values[i]
  <2>2. v \in Nat
    BY <2>1
  <2> HIDE DEF v
  <2>3. Byte(k, v, FALSE) \in ByteSet /\ Byte(k, v, FALSE).k = k
    BY <1>1, <2>2, ByteType
  <2>4. Byte(k, v, FALSE) \in FormatByte
    BY <2>3 DEF FormatByte
  <2> QED
    BY <2>1, <2>4 DEF v
<1>4. w \in Seq(FormatByte)
  BY <1>2, <1>3, MeantBytes
<1> QED
  BY <1>4 DEF w

LEMMA LengthMeant ==
    ASSUME NEW n \in Nat, n < Weight[Digits8], NEW m \in BOOLEAN
    PROVE  LengthBytes(n, m) \in Seq(FormatByte)
<1>1. ASSUME NEW v \in Nat, v <= Short => v < Weight[Digits8]
      PROVE  <<Byte("head", v, m)>> \in Seq(FormatByte)
  <2> DEFINE b == Byte("head", v, m)
  <2>1. b \in ByteSet /\ b.k = "head" /\ b.v = v
    BY ByteType DEF Kinds
  <2> HIDE DEF b
  <2>2. b \in FormatByte
    BY <1>1, <2>1 DEF FormatByte
  <2>3. <<b>> \in Seq(FormatByte)
    BY <2>2
  <2> QED
    BY <2>3 DEF b
<1>2. ASSUME NEW d \in Nat PROVE DigitsOf(n, d) \in Seq(FormatByte)
  <2> DEFINE w == DigitsOf(n, d)
  <2>1. w \in Seq(ByteSet) /\ Len(w) = d
        /\ \A i \in 1..d : w[i] = Byte("length", (n \div Weight[d - i]) % Radix, FALSE)
    BY DigitsType
  <2> HIDE DEF w
  <2>2. ASSUME NEW i \in 1..Len(w) PROVE w[i] \in FormatByte
    <3>1. d - i \in Nat /\ i \in 1..d
      BY <2>1, <2>2
    <3> DEFINE a == n \div Weight[d - i]
    <3>2. a \in Nat
      <4>1. Weight[d - i] \in Nat \ {0}
        BY <3>1, Weights
      <4> QED
        BY <4>1
    <3> HIDE DEF a
    <3>3. a % Radix \in 0..Radix - 1
      BY <3>2, Parameters
    <3>4. w[i] = Byte("length", a % Radix, FALSE)
      BY <2>1, <3>1 DEF a
    <3> DEFINE v == a % Radix
    <3>5. v \in Nat /\ v < Radix
      BY <3>3, Parameters
    <3> HIDE DEF v
    <3>6. Byte("length", v, FALSE) \in ByteSet /\ Byte("length", v, FALSE).k = "length"
          /\ Byte("length", v, FALSE).v = v
      <4>1. "length" \in Kinds
        BY DEF Kinds
      <4> QED
        BY <3>5, <4>1, ByteType
    <3>7. Byte("length", v, FALSE) \in FormatByte
      BY <3>5, <3>6 DEF FormatByte
    <3> QED
      BY <3>4, <3>7 DEF v
  <2>3. w \in Seq(FormatByte)
    BY <2>1, <2>2, MeantBytes
  <2> QED
    BY <2>3 DEF w
<1>3. ASSUME NEW v \in Nat, v <= Short => v < Weight[Digits8], NEW d \in Nat
      PROVE  <<Byte("head", v, m)>> \o DigitsOf(n, d) \in Seq(FormatByte)
  BY <1>1, <1>2, <1>3, Concatenated, Zenon
<1>4. Short + 1 \in Nat /\ Short + 2 \in Nat /\ ~ (Short + 1 <= Short) /\ ~ (Short + 2 <= Short)
      /\ Digits2 \in Nat /\ Digits8 \in Nat
  BY Parameters
<1>5. CASE n <= Short
  BY <1>1, <1>5 DEF LengthBytes
<1>6. CASE ~ (n <= Short) /\ n < Weight[Digits2]
  <2>1. LengthBytes(n, m) = <<Byte("head", Short + 1, m)>> \o DigitsOf(n, Digits2)
    BY <1>6 DEF LengthBytes
  <2> QED
    BY <1>3, <1>4, <2>1
<1>7. CASE ~ (n <= Short) /\ ~ (n < Weight[Digits2])
  <2>1. LengthBytes(n, m) = <<Byte("head", Short + 2, m)>> \o DigitsOf(n, Digits8)
    BY <1>7 DEF LengthBytes
  <2> QED
    BY <1>3, <1>4, <2>1
<1> QED
  BY <1>5, <1>6, <1>7

\* What a writer sends are bytes of the format.
LEMMA FrameMeant ==
    ASSUME NEW op \in Nat, NEW fin \in BOOLEAN, NEW data \in Seq(Bit), Len(data) < Weight[Digits8],
           NEW mask \in Masks, isClient \in BOOLEAN
    PROVE  Frame(op, fin, data, mask) \in Seq(FormatByte)
<1> DEFINE w1 == <<Byte("start", op, fin)>>
           w2 == LengthBytes(Len(data), isClient)
           w3 == Bytes("mask", [i \in 1..MaskLen |-> mask[i - 1]])
           w4 == Bytes("body", Masked(data, mask, 0))
           w5 == Bytes("body", data)
<1>1. data \in Seq(Nat) /\ Len(data) \in Nat /\ MaskLen \in Nat
  BY Parameters DEF Bit
<1>2. w1 \in Seq(FormatByte)
  <2> DEFINE b == Byte("start", op, fin)
  <2>1. b \in ByteSet /\ b.k = "start"
    BY ByteType DEF Kinds
  <2> HIDE DEF b
  <2>2. b \in FormatByte
    BY <2>1 DEF FormatByte
  <2>3. <<b>> \in Seq(FormatByte)
    BY <2>2
  <2> QED
    BY <2>3 DEF b
<1>3. w2 \in Seq(FormatByte)
  <2> DEFINE n == Len(data)
  <2>1. n \in Nat /\ n < Weight[Digits8]
    BY <1>1
  <2> HIDE DEF n
  <2>2. LengthBytes(n, isClient) \in Seq(FormatByte)
    BY <2>1, LengthMeant
  <2> QED
    BY <2>2 DEF n
<1>4. w3 \in Seq(FormatByte)
  <2> DEFINE v == [i \in 1..MaskLen |-> mask[i - 1]]
  <2>1. \A i \in 1..MaskLen : mask[i - 1] \in Nat
    BY <1>1 DEF Masks
  <2>2. v \in Seq(Nat)
    BY <1>1, <2>1
  <2> HIDE DEF v
  <2>3. Bytes("mask", v) \in Seq(FormatByte)
    BY <2>2, PayloadMeant
  <2> QED
    BY <2>3 DEF v
<1>5. w4 \in Seq(FormatByte)
  <2>1. mask \in [0..MaskLen - 1 -> Nat]
    BY DEF Masks
  <2> DEFINE v == Masked(data, mask, 0)
  <2>2. v \in Seq(Nat)
    BY <1>1, <2>1, MaskedType
  <2> HIDE DEF v
  <2>3. Bytes("body", v) \in Seq(FormatByte)
    BY <2>2, PayloadMeant
  <2> QED
    BY <2>3 DEF v
<1>6. w5 \in Seq(FormatByte)
  BY <1>1, PayloadMeant
<1>7. Frame(op, fin, data, mask) = w1 \o w2 \o (IF isClient THEN w3 \o w4 ELSE w5)
  BY DEF Frame
<1> HIDE DEF w1, w2, w3, w4, w5
<1>8. w1 \o w2 \in Seq(FormatByte) /\ w3 \o w4 \in Seq(FormatByte)
  BY <1>2, <1>3, <1>4, <1>5, Concatenated, Zenon
<1> DEFINE x == w1 \o w2
           y == IF isClient THEN w3 \o w4 ELSE w5
<1>9. x \in Seq(FormatByte) /\ y \in Seq(FormatByte)
  BY <1>6, <1>8
<1> HIDE DEF x, y
<1>10. x \o y \in Seq(FormatByte)
  BY <1>9, Concatenated, Zenon
<1> QED
  BY <1>7, <1>10 DEF x, y

-----------------------------------------------------------------------------
(* What the variables hold.                                                  *)

\* Bytes of the format are under way, and who is done has sent its message.
Formatted ==
    /\ wire \in Seq(FormatByte) /\ LengthFits(Whole)
    /\ \A s \in Sender : spc[s] = "done" => off[s] = len[s]

FTyped == FInv /\ Formatted

LEMMA FitsAfter ==
    ASSUME FTypes
    PROVE  LengthFits(Whole) <=> LengthFits(parser)
<1>1. parser \in ParserRecord
  BY DEF FTypes, ParserSet
<1>2. Whole.length = parser.length /\ Whole.state = parser.state /\ Whole.require = parser.require
  BY <1>1 DEF Whole, After, ParserRecord
<1> QED
  BY <1>2, ZenonT(60) DEF LengthFits

LEMMA TypedOK ==
    ASSUME FTyped
    PROVE  FTypeOK
<1>1. FTypes /\ Sending /\ Formatted
  BY DEF FTyped, FInv
<1>2. LengthFits(parser)
  BY <1>1, FitsAfter DEF Formatted
<1>3. parser.mask_offset \in 0..MaskLen - 1 /\ parser.out = <<>>
  BY <1>1 DEF FTypes, ParserSet, ParserRecord
<1>4. \A s \in Sender : off[s] \in 0..len[s] /\ (spc[s] = "done" => off[s] = len[s])
  <2>1. ASSUME NEW s \in Sender PROVE off[s] \in 0..len[s] /\ (spc[s] = "done" => off[s] = len[s])
    <3>1. off[s] \in Nat /\ len[s] \in Nat /\ off[s] <= len[s]
      BY <1>1, Parameters DEF FTypes, Sending
    <3> QED
      BY <1>1, <3>1 DEF Formatted
  <2> QED
    BY <2>1
<1> QED
  BY <1>1, <1>2, <1>3, <1>4 DEF FTypeOK, FTypes

LEMMA FormattedInit ==
    ASSUME FInit
    PROVE  FTyped
<1>1. FInv /\ FTypes
  BY Initially DEF FInv
<1>2. wire \in Seq(FormatByte) /\ \A s \in Sender : spc[s] # "done"
  BY DEF FInit
<1>3. LengthFits(parser)
  <2>1. parser.length = 0 /\ parser.require = 0 /\ parser.state = "start"
    BY DEF FInit
  <2>2. 0 \in 0..Weight[Digits8] - 1
    BY DigitsFit
  <2> QED
    BY <2>1, <2>2 DEF LengthFits
<1> QED
  BY <1>1, <1>2, <1>3, FitsAfter DEF FTyped, Formatted

LEMMA FormattedFragment ==
    ASSUME FTyped, NEW s \in Sender, SendsFragment(s)
    PROVE  Formatted'
<1> DEFINE n == IF len[s] - off[s] > Fragment THEN Fragment ELSE len[s] - off[s]
           last == off[s] + n = len[s]
           op == IF off[s] = 0 THEN TEXT ELSE CONTINUE
           data == SubSeq(Payload(s), off[s] + 1, off[s] + n)
<1>1. FTypes /\ Sending /\ Formatted
  BY DEF FTyped, FInv
<1>2. spc[s] = "sending" /\ holder = s
  BY <1>1 DEF Sending, SendsFragment
<1>3. Payload(s) \in Seq(Bit) /\ Len(Payload(s)) = len[s] /\ len[s] \in Nat /\ len[s] < Weight[Digits8]
      /\ off[s] \in Nat /\ off[s] <= len[s]
  BY <1>1, PayloadType, Parameters DEF FTypes, Sending
<1>4. n \in Nat /\ off[s] + n <= len[s] /\ n <= len[s]
  <2>1. Fragment \in Nat
    BY Parameters
  <2> DEFINE l == len[s]
             o == off[s]
  <2>2. l \in Nat /\ o \in Nat /\ o <= l
    BY <1>3
  <2> HIDE DEF o, l
  <2> SUFFICES LET k == IF l - o > Fragment THEN Fragment ELSE l - o
               IN  k \in Nat /\ o + k <= l /\ k <= l
    BY DEF o, l
  <2> QED
    BY <2>1, <2>2
<1>5. /\ \E mask \in Masks : wire' = wire \o Frame(op, last, data, mask)
      /\ off' = [off EXCEPT ![s] = off[s] + n]
      /\ spc' = IF last THEN [spc EXCEPT ![s] = "done"] ELSE spc
      /\ len' = len /\ parser' = parser /\ messages' = messages
  BY DEF SendsFragment
<1>6. last \in BOOLEAN /\ op \in Nat /\ isClient \in BOOLEAN
  BY <1>1 DEF TEXT, CONTINUE, FTypes
<1> HIDE DEF n
<1>7. data \in Seq(Bit) /\ Len(data) = n
  <2> DEFINE P == Payload(s)
             o == off[s]
  <2>1. P \in Seq(Bit) /\ o \in Nat /\ n \in Nat /\ o + n <= Len(P)
    BY <1>3, <1>4
  <2> HIDE DEF P, o
  <2>2. SubSeq(P, o + 1, o + n) \in Seq(Bit) /\ Len(SubSeq(P, o + 1, o + n)) = n
    BY <2>1, Fragments
  <2> QED
    BY <2>2 DEF P, o
<1>8. Len(data) < Weight[Digits8]
  <2>1. Weight[Digits8] \in Nat
    BY DigitsFit
  <2> HIDE DEF data
  <2> QED
    BY <1>3, <1>4, <1>7, <2>1
<1>9. PICK mask \in Masks : wire' = wire \o Frame(op, last, data, mask)
  BY <1>5
<1>10. wire' \in Seq(FormatByte)
  <2> DEFINE F == Frame(op, last, data, mask)
  <2> HIDE DEF last, op, data
  <2>1. F \in Seq(FormatByte)
    BY <1>6, <1>7, <1>8, FrameMeant
  <2> HIDE DEF F
  <2>2. wire \in Seq(FormatByte) /\ wire' = wire \o F
    BY <1>1, <1>9 DEF Formatted, F
  <2>3. wire \o F \in Seq(FormatByte)
    BY <2>1, <2>2, Concatenated, Zenon
  <2> QED
    BY <2>2, <2>3
<1>11. LengthFits(Whole)'
  <2>1. Whole' = Whole
    BY <1>5 DEF Whole
  <2> QED
    BY <1>1, <2>1 DEF Formatted, LengthFits
<1>12. ASSUME NEW t \in Sender, spc'[t] = "done" PROVE off'[t] = len'[t]
  <2>1. CASE t # s
    <3>1. spc'[t] = spc[t] /\ off'[t] = off[t]
      BY <1>1, <1>5, <2>1 DEF FTypes
    <3> QED
      BY <1>1, <1>5, <1>12, <3>1 DEF Formatted
  <2>2. CASE t = s
    <3>1. last
      BY <1>2, <1>5, <1>12, <2>2
    <3>2. off'[s] = off[s] + n
      BY <1>1, <1>5 DEF FTypes
    <3> QED
      BY <1>5, <2>2, <3>1, <3>2
  <2> QED
    BY <2>1, <2>2
<1> QED
  BY <1>10, <1>11, <1>12 DEF Formatted

LEMMA FormattedPing ==
    ASSUME FTyped, sendPing
    PROVE  Formatted'
<1> DEFINE mask == [i \in 0..MaskLen - 1 |-> i % 2]
           F == Frame(PING, TRUE, <<>>, mask)
<1>1. FTypes /\ Formatted
  BY DEF FTyped, FInv
<1>2. mask \in Masks
  <2>1. \A i \in 0..MaskLen - 1 : i % 2 \in 0..1
    OBVIOUS
  <2> QED
    BY <2>1 DEF Masks
<1>3. <<>> \in Seq(Bit) /\ Len(<<>>) < Weight[Digits8] /\ PING \in Nat /\ isClient \in BOOLEAN
  BY <1>1, DigitsFit DEF PING, FTypes
<1>4. wire' = wire \o F
  BY DEF sendPing
<1> HIDE DEF mask
<1>5. F \in Seq(FormatByte)
  BY <1>2, <1>3, FrameMeant
<1> HIDE DEF F
<1>6. wire \in Seq(FormatByte)
  BY <1>1 DEF Formatted
<1>7. wire \o F \in Seq(FormatByte)
  BY <1>5, <1>6, Concatenated, Zenon
<1>8. Whole' = Whole /\ spc' = spc /\ off' = off /\ len' = len
  BY DEF Whole, sendPing
<1> QED
  BY <1>1, <1>4, <1>7, <1>8 DEF Formatted, LengthFits

LEMMA FormattedReads ==
    ASSUME FTyped, NEW n \in Nat, Reads(n)
    PROVE  Formatted'
<1>1. FTypes /\ EndFits /\ Formatted
  BY DEF FTyped, FInv
<1>2. n \in 1..Len(wire) /\ Whole' = Path(Whole, wire)[n] /\ wire \in Seq(FormatByte)
  BY <1>1, ReadsAlong DEF Formatted
<1>3. LengthFits(Path(Whole, wire)[n])
  <2> DEFINE c == Whole
             w == wire
  <2>1. c \in ParserSet /\ LengthFits(c) /\ w \in Seq(FormatByte)
    BY <1>1, WholeType DEF Formatted
  <2>2. \A k \in 1..Len(w) : w[k].k = Path(c, w)[k - 1].state
    BY <1>1 DEF EndFits, Leads
  <2>3. n \in 0..Len(w)
    BY <1>2
  <2> HIDE DEF c, w
  <2>4. LengthFits(Path(c, w)[n])
    BY <2>1, <2>2, <2>3, PathFits
  <2> QED
    BY <2>4 DEF c, w
<1>4. LengthFits(Whole)'
  BY <1>2, <1>3 DEF LengthFits
<1>5. wire' = SubSeq(wire, n + 1, Len(wire)) /\ spc' = spc /\ off' = off /\ len' = len
  BY DEF Reads
<1>6. wire' \in Seq(FormatByte)
  <2>1. n \in 0..Len(wire)
    BY <1>2
  <2> QED
    BY <1>2, <1>5, <2>1, Rest
<1> QED
  BY <1>1, <1>4, <1>5, <1>6 DEF Formatted

LEMMA FormattedNext ==
    ASSUME FTyped, [FNext]_fvars
    PROVE  FTyped'
<1>1. FInv'
  BY FInvNext DEF FTyped
<1>2. ASSUME NEW s \in Sender, Locks(s) PROVE Formatted'
  <2>1. wire' = wire /\ Whole' = Whole /\ off' = off /\ len' = len
    BY <1>2 DEF Locks, Whole
  <2>2. \A t \in Sender : spc'[t] = "done" => spc[t] = "done"
    BY <1>2 DEF Locks, FTyped, FInv, FTypes
  <2> QED
    BY <2>1, <2>2 DEF FTyped, Formatted, LengthFits
<1>3. ASSUME NEW s \in Sender, SendsFragment(s) PROVE Formatted'
  BY <1>3, FormattedFragment
<1>4. CASE sendPing
  BY <1>1, <1>4, FormattedPing DEF FTyped
<1>5. ASSUME NEW n \in 1..MaxRead, Reads(n) PROVE Formatted'
  <2>1. n \in Nat
    BY FramingAssumption
  <2> QED
    BY <1>5, <2>1, FormattedReads
<1>6. ASSUME UNCHANGED fvars PROVE Formatted'
  BY <1>6 DEF FTyped, Formatted, LengthFits, Whole, fvars
<1>7. CASE FNext
  <2>1. ASSUME NEW s \in Sender, Locks(s) \/ SendsFragment(s) PROVE FTyped'
    BY <1>1, <1>2, <1>3, <2>1 DEF FTyped
  <2>2. ASSUME NEW n \in 1..MaxRead, Reads(n) PROVE FTyped'
    BY <1>1, <1>5, <2>2 DEF FTyped
  <2> QED
    BY <1>4, <1>7, <2>1, <2>2 DEF FNext
<1> QED
  BY <1>1, <1>6, <1>7 DEF FTyped

(* Whatever the reads, the parser holds a length that the format has, with   *)
(* room for the digits that are to come, and never waits for more of a body  *)
(* than its length: the arithmetic of the LENGTH and BODY states of          *)
(* websocket_parser_execute stays in bounds; and a sender that is done has   *)
(* sent all of its message.                                                  *)
THEOREM FrameTypeCorrect == FSpec => []FTypeOK
<1>1. FInit => FTyped
  BY FormattedInit
<1>2. FTyped /\ [FNext]_fvars => FTyped'
  BY FormattedNext
<1>3. FTyped => FTypeOK
  BY TypedOK
<1> QED
  BY <1>1, <1>2, <1>3, PTL DEF FSpec
=============================================================================
