--------------------------- MODULE RuntimeProofs ----------------------------
(***************************************************************************)
(* What codegen.rs emits for integers, and for dicts and sets.             *)
(*                                                                         *)
(* For every set of widths, an integer operation computes what Python does *)
(* wherever that fits the type, wraps it once where it does not, and has   *)
(* no value only where UndefinedWhere says.  The arithmetic of a width is  *)
(* that of the integers modulo a power of two: what an instruction         *)
(* computes is congruent to what it stands for, and of the numbers         *)
(* congruent to one only one has the width.                                *)
(*                                                                         *)
(* For every set of keys and values and every literal, the size word of a  *)
(* hash table counts the occupied slots, a table always keeps an empty     *)
(* slot for its probe loops to stop at, and growing never recurses into a  *)
(* second growth.  Then, the table is a Python mapping: a key is reachable *)
(* from its home, no key is held twice, and each step of the runtime is a  *)
(* step of PyDict or none.                                                 *)
(***************************************************************************)
EXTENDS IntOps, DictTable, FiniteSetTheorems, WellFoundedInduction, TLAPS

-----------------------------------------------------------------------------
(* Induction over the naturals. *)

(* The order of the naturals, as a set of pairs.                           *)
Below == {ij \in Nat \X Nat : ij[1] < ij[2]}

(* A set of naturals has a least element. *)
LEMMA Least ==
  ASSUME NEW T, T \subseteq Nat, T # {}
  PROVE  \E x \in T : \A y \in T : x <= y
<1>1. IsWellFoundedOn(Below, Nat)
  <2>1. OpToRel(<, Nat) = Below
    BY DEF OpToRel, Below
  <2> QED BY <2>1, NatLessThanWellFounded
<1>2. PICK x \in T : \A y \in T : ~ (<<y, x>> \in Below)
  BY <1>1, WFMin
<1>3. ASSUME NEW y \in T PROVE x <= y
  <2>1. x \in Nat /\ y \in Nat
    OBVIOUS
  <2>2. y < x => <<y, x>> \in Below
    BY <2>1 DEF Below
  <2> QED BY <1>2, <2>1, <2>2
<1> QED BY <1>3

(* What holds of 0 and passes on to the next number holds of every number. *)
LEMMA UpTo ==
  ASSUME NEW S, 0 \in S, \A n \in Nat : n \in S => n + 1 \in S
  PROVE  Nat \subseteq S
<1> SUFFICES ASSUME Nat \ S # {} PROVE FALSE
  OBVIOUS
<1>1. PICK n \in Nat \ S : \A y \in Nat \ S : n <= y
  BY Least
<1>2. n # 0 /\ n - 1 \in Nat /\ n - 1 \notin Nat \ S
  BY <1>1
<1> QED BY <1>1, <1>2

-----------------------------------------------------------------------------
(* Powers. *)

(* g lists the powers of a up to the n-th.                                 *)
Lists(g, a, n) == /\ g \in [0 .. n -> Int]
                  /\ g[0] = 1
                  /\ \A k \in 1 .. n : g[k] = a * g[k - 1]

(* There is a list of the powers up to each exponent. *)
LEMMA SomeList ==
  ASSUME NEW a \in Int, NEW n \in Nat
  PROVE  \E g : Lists(g, a, n)
<1> DEFINE T == {m \in Nat : \E g : Lists(g, a, m)}
<1>1. 0 \in T
  <2>1. Lists([k \in 0 .. 0 |-> 1], a, 0)
    BY DEF Lists
  <2> QED BY <2>1
<1>2. ASSUME NEW m \in Nat, m \in T PROVE m + 1 \in T
  <2>1. PICK g : Lists(g, a, m)
    BY <1>2
  <2> DEFINE h == [k \in 0 .. m + 1 |-> IF k = m + 1 THEN a * g[m] ELSE g[k]]
  <2>2. g \in [0 .. m -> Int] /\ g[0] = 1 /\ \A k \in 1 .. m : g[k] = a * g[k - 1]
    BY <2>1 DEF Lists
  <2>3. h \in [0 .. m + 1 -> Int]
    <3>1. \A k \in 0 .. m + 1 : k = m + 1 \/ k \in 0 .. m
      OBVIOUS
    <3>2. a * g[m] \in Int
      BY <2>2
    <3> QED BY <2>2, <3>1, <3>2
  <2>4. ASSUME NEW k \in 1 .. m + 1 PROVE h[k] = a * h[k - 1]
    BY <2>2
  <2>5. h[0] = 1
    BY <2>2
  <2>6. Lists(h, a, m + 1)
    <3> HIDE DEF h
    <3> QED BY <2>3, <2>4, <2>5 DEF Lists
  <2> QED BY <2>6
<1>3. Nat \subseteq T
  <2> HIDE DEF T
  <2> QED BY <1>1, <1>2, UpTo
<1> QED BY <1>3

(* Two lists agree as far as both go. *)
LEMMA SameLists ==
  ASSUME NEW a \in Int, NEW n \in Nat, NEW m \in Nat, NEW g, NEW h,
         Lists(g, a, n), Lists(h, a, m), NEW k \in Nat, k <= n, k <= m
  PROVE  g[k] = h[k]
<1> DEFINE T == {j \in Nat : j <= n /\ j <= m => g[j] = h[j]}
<1>1. 0 \in T
  BY DEF Lists
<1>2. ASSUME NEW j \in Nat, j \in T PROVE j + 1 \in T
  <2> SUFFICES ASSUME j + 1 <= n, j + 1 <= m PROVE g[j + 1] = h[j + 1]
    OBVIOUS
  <2>1. j + 1 \in 1 .. n /\ j + 1 \in 1 .. m /\ (j + 1) - 1 = j /\ g[j] = h[j]
    BY <1>2
  <2> QED BY <2>1 DEF Lists
<1>3. Nat \subseteq T
  <2> HIDE DEF T
  <2> QED BY <1>1, <1>2, UpTo
<1> QED BY <1>3

(* The recursion Power is written with has a solution: Power is a product. *)
LEMMA PowerIs ==
  ASSUME NEW a \in Int
  PROVE  /\ Power(a, 0) = 1
         /\ \A n \in Nat : Power(a, n) \in Int /\ Power(a, n + 1) = a * Power(a, n)
<1> DEFINE G(n)    == CHOOSE g : Lists(g, a, n)
           p       == [n \in Nat |-> G(n)[n]]
           Rec(q)  == [n \in Nat |-> IF n = 0 THEN 1 ELSE a * q[n - 1]]
           product == CHOOSE q : q = Rec(q)
<1>1. \A n \in Nat : Lists(G(n), a, n)
  BY SomeList
<1> HIDE DEF G
<1>2. p[0] = 1
  BY <1>1 DEF Lists
<1>3. ASSUME NEW n \in Nat PROVE p[n] \in Int /\ p[n + 1] = a * p[n]
  <2>1. Lists(G(n), a, n) /\ Lists(G(n + 1), a, n + 1)
    BY <1>1
  <2>2. G(n)[n] = G(n + 1)[n]
    BY <2>1, SameLists
  <2>3. n + 1 \in 1 .. n + 1 /\ (n + 1) - 1 = n /\ n \in 0 .. n
    OBVIOUS
  <2>4. G(n)[n] \in Int /\ G(n + 1)[n + 1] = a * G(n + 1)[n]
    BY <2>1, <2>3 DEF Lists
  <2> QED BY <2>2, <2>4
<1>4. p = Rec(p)
  <2>1. ASSUME NEW n \in Nat PROVE p[n] = IF n = 0 THEN 1 ELSE a * p[n - 1]
    <3>1. CASE n = 0
      BY <1>2, <3>1
    <3>2. CASE n # 0
      <4>1. n - 1 \in Nat /\ (n - 1) + 1 = n
        BY <3>2
      <4> HIDE DEF p
      <4>2. p[(n - 1) + 1] = a * p[n - 1]
        BY <1>3, <4>1
      <4> QED BY <3>2, <4>1, <4>2
    <3> QED BY <3>1, <3>2
  <2> QED BY <2>1
<1>5. product = Rec(product)
  <2> HIDE DEF p
  <2> QED BY <1>4
<1> HIDE DEF product
<1>6. product[0] = 1
  BY <1>5
<1>7. ASSUME NEW n \in Nat PROVE product[n + 1] = a * product[n]
  <2>1. product[n + 1] = Rec(product)[n + 1]
    BY <1>5
  <2>2. n + 1 \in Nat /\ n + 1 # 0 /\ (n + 1) - 1 = n
    OBVIOUS
  <2> QED BY <2>1, <2>2
<1>8. \A n \in Nat : product[n] \in Int
  <2> DEFINE T == {n \in Nat : product[n] \in Int}
  <2>1. 0 \in T
    BY <1>6
  <2>2. ASSUME NEW n \in Nat, n \in T PROVE n + 1 \in T
    BY <1>7, <2>2
  <2>3. Nat \subseteq T
    <3> HIDE DEF T
    <3> QED BY <2>1, <2>2, UpTo
  <2> QED BY <2>3
<1>9. \A n : Power(a, n) = product[n]
  BY DEF Power, product
<1> QED BY <1>6, <1>7, <1>8, <1>9

LEMMA PowerInt ==
  ASSUME NEW a \in Int, NEW n \in Nat
  PROVE  Power(a, n) \in Int
BY PowerIs

(* Two to the t: positive, doubling, more than t. *)
LEMMA TwoTo ==
  ASSUME NEW t \in Nat
  PROVE  /\ Power(2, t) \in Nat \ {0}
         /\ Power(2, t + 1) = 2 * Power(2, t)
         /\ t + 1 <= Power(2, t)
<1> DEFINE T == {n \in Nat : Power(2, n) \in Int /\ n + 1 <= Power(2, n)}
<1>1. 0 \in T
  BY PowerIs
<1>2. ASSUME NEW n \in Nat, n \in T PROVE n + 1 \in T
  <2>1. Power(2, n + 1) = 2 * Power(2, n)
    BY PowerIs
  <2> QED BY <1>2, <2>1
<1>3. Nat \subseteq T
  <2> HIDE DEF T
  <2> QED BY <1>1, <1>2, UpTo
<1>4. Power(2, t + 1) = 2 * Power(2, t)
  BY PowerIs
<1> QED BY <1>3, <1>4

(* A wider range is a whole number of narrower ones. *)
LEMMA TwoToDivides ==
  ASSUME NEW t \in Nat, NEW u \in Nat, t <= u
  PROVE  \E k \in Nat \ {0} : Power(2, u) = k * Power(2, t)
<1> DEFINE T == {n \in Nat : \E k \in Nat \ {0} : Power(2, t + n) = k * Power(2, t)}
<1>1. 0 \in T
  <2>1. Power(2, t + 0) = 1 * Power(2, t)
    BY TwoTo
  <2> QED BY <2>1
<1>2. ASSUME NEW n \in Nat, n \in T PROVE n + 1 \in T
  <2>1. PICK k \in Nat \ {0} : Power(2, t + n) = k * Power(2, t)
    BY <1>2
  <2>2. Power(2, t) \in Nat
    BY TwoTo
  <2>3. Power(2, t + (n + 1)) = 2 * Power(2, t + n)
    <3>1. t + n \in Nat /\ t + (n + 1) = (t + n) + 1
      OBVIOUS
    <3> QED BY <3>1, TwoTo
  <2>4. Power(2, t + (n + 1)) = (2 * k) * Power(2, t)
    BY <2>1, <2>2, <2>3
  <2>5. 2 * k \in Nat \ {0}
    OBVIOUS
  <2> QED BY <2>4, <2>5
<1>3. Nat \subseteq T
  <2> HIDE DEF T
  <2> QED BY <1>1, <1>2, UpTo
<1>4. u - t \in Nat /\ t + (u - t) = u
  OBVIOUS
<1> QED BY <1>3, <1>4

(* The powers of a square. *)
LEMMA PowerOfSquare ==
  ASSUME NEW a \in Int, NEW n \in Nat
  PROVE  Power(a * a, n) = Power(a, 2 * n)
<1> DEFINE T == {m \in Nat : Power(a * a, m) = Power(a, 2 * m)}
<1>0. a * a \in Int
  OBVIOUS
<1>1. 0 \in T
  BY <1>0, PowerIs
<1>2. ASSUME NEW m \in Nat, m \in T PROVE m + 1 \in T
  <2>1. Power(a * a, m + 1) = (a * a) * Power(a * a, m)
    BY <1>0, PowerIs
  <2>2. Power(a, (2 * m + 1) + 1) = a * (a * Power(a, 2 * m))
    <3>1. 2 * m \in Nat /\ 2 * m + 1 \in Nat
      OBVIOUS
    <3> QED BY <3>1, PowerIs
  <2>3. 2 * (m + 1) = (2 * m + 1) + 1 /\ Power(a, 2 * m) \in Int
    <3>1. 2 * m \in Nat
      OBVIOUS
    <3> QED BY <3>1, PowerIs
  <2>4. (a * a) * Power(a, 2 * m) = a * (a * Power(a, 2 * m))
    BY <2>3
  <2> QED BY <1>2, <2>1, <2>2, <2>3, <2>4
<1>3. Nat \subseteq T
  <2> HIDE DEF T
  <2> QED BY <1>1, <1>2, UpTo
<1> QED BY <1>3

-----------------------------------------------------------------------------
(* Congruence: a and b differ by a multiple of m.                           *)
Congruent(m, a, b) == \E k \in Int : a = b + k * m

LEMMA CongruentRefl ==
  ASSUME NEW m \in Int, NEW a \in Int
  PROVE  Congruent(m, a, a)
<1>1. a = a + 0 * m
  OBVIOUS
<1> QED BY <1>1 DEF Congruent

LEMMA CongruentSym ==
  ASSUME NEW m \in Int, NEW a \in Int, NEW b \in Int, Congruent(m, a, b)
  PROVE  Congruent(m, b, a)
<1>1. PICK k \in Int : a = b + k * m
  BY DEF Congruent
<1>2. b = a + (-k) * m /\ -k \in Int
  BY <1>1
<1> QED BY <1>2 DEF Congruent

LEMMA CongruentTrans ==
  ASSUME NEW m \in Int, NEW a \in Int, NEW b \in Int, NEW c \in Int,
         Congruent(m, a, b), Congruent(m, b, c)
  PROVE  Congruent(m, a, c)
<1>1. PICK j \in Int : a = b + j * m
  BY DEF Congruent
<1>2. PICK k \in Int : b = c + k * m
  BY DEF Congruent
<1>3. a = c + (j + k) * m /\ j + k \in Int
  BY <1>1, <1>2
<1> QED BY <1>3 DEF Congruent

(* Products of congruent numbers are congruent. *)
LEMMA CongruentTimes ==
  ASSUME NEW m \in Int, NEW a \in Int, NEW b \in Int, NEW c \in Int, NEW d \in Int,
         Congruent(m, a, b), Congruent(m, c, d)
  PROVE  Congruent(m, a * c, b * d)
<1>1. PICK j \in Int : a = b + j * m
  BY DEF Congruent
<1>2. PICK k \in Int : c = d + k * m
  BY DEF Congruent
<1>3. a * c = b * d + (b * k + j * d + j * k * m) * m
  BY <1>1, <1>2
<1>4. b * k + j * d + j * k * m \in Int
  OBVIOUS
<1> QED BY <1>3, <1>4 DEF Congruent

(* Powers of congruent numbers are congruent. *)
LEMMA CongruentPower ==
  ASSUME NEW m \in Int, NEW a \in Int, NEW b \in Int, Congruent(m, a, b), NEW n \in Nat
  PROVE  Congruent(m, Power(a, n), Power(b, n))
<1> DEFINE T == {k \in Nat : Congruent(m, Power(a, k), Power(b, k))}
<1>1. 0 \in T
  <2>1. Power(a, 0) = 1 /\ Power(b, 0) = 1 /\ 1 \in Int
    BY PowerIs
  <2> QED BY <2>1, CongruentRefl
<1>2. ASSUME NEW k \in Nat, k \in T PROVE k + 1 \in T
  <2>1. /\ Power(a, k) \in Int /\ Power(a, k + 1) = a * Power(a, k)
        /\ Power(b, k) \in Int /\ Power(b, k + 1) = b * Power(b, k)
    BY PowerIs
  <2>2. Congruent(m, a * Power(a, k), b * Power(b, k))
    BY <1>2, <2>1, CongruentTimes
  <2> QED BY <2>1, <2>2
<1>3. Nat \subseteq T
  <2> HIDE DEF T
  <2> QED BY <1>1, <1>2, UpTo
<1> QED BY <1>3

(* Numbers congruent modulo a multiple of m are congruent modulo m. *)
LEMMA CongruentFiner ==
  ASSUME NEW m \in Int, NEW k \in Int, NEW a \in Int, NEW b \in Int,
         Congruent(k * m, a, b)
  PROVE  Congruent(m, a, b)
<1>1. PICK j \in Int : a = b + j * (k * m)
  BY DEF Congruent
<1>2. a = b + (j * k) * m /\ j * k \in Int
  BY <1>1
<1> QED BY <1>2 DEF Congruent

(* Of two different numbers of m in a row, none is congruent to the other. *)
LEMMA CongruentUnique ==
  ASSUME NEW m \in Nat \ {0}, NEW f \in Int, NEW a \in f .. f + m - 1,
         NEW b \in f .. f + m - 1, Congruent(m, a, b)
  PROVE  a = b
<1>1. PICK k \in Int : a = b + k * m
  BY DEF Congruent
<1>2. k >= 1 => k * m >= m
  OBVIOUS
<1>3. k <= -1 => k * m <= -m
  <2>1. k <= -1 => (-k) * m >= m
    OBVIOUS
  <2>2. (-k) * m = -(k * m)
    OBVIOUS
  <2> QED BY <2>1, <2>2
<1>4. ~ k >= 1 /\ ~ k <= -1
  BY <1>1, <1>2, <1>3
<1> QED BY <1>1, <1>4

-----------------------------------------------------------------------------
(* Widths. *)

(* A width has as many negative numbers as others, more of them than bits. *)
LEMMA WidthIs ==
  ASSUME NEW t \in Widths
  PROVE  \E h \in Nat \ {0} :
           /\ t \in Nat /\ t >= 2 /\ t <= h
           /\ Power(2, t) = 2 * h
           /\ MinOf(t) = -h
           /\ Values(t) = -h .. h - 1
<1>1. t \in Nat /\ t >= 2 /\ t # Bool
  BY WidthAssumption DEF Bool
<1>2. t - 1 \in Nat /\ (t - 1) + 1 = t
  BY <1>1
<1> DEFINE h == Power(2, t - 1)
<1>3. h \in Nat \ {0} /\ Power(2, t) = 2 * h /\ t <= h
  BY <1>2, TwoTo
<1>4. MinOf(t) = -h
  BY DEF MinOf
<1>5. Values(t) = -h .. h - 1
  BY <1>1, <1>3, <1>4 DEF Values
<1> QED BY <1>1, <1>3, <1>4, <1>5

LEMMA WordIs == Word \in Widths /\ Word \in Nat /\ \A w \in Widths : w <= Word
BY WidthAssumption

(* A wider type holds the numbers of a narrower one, and the bools. *)
LEMMA ValuesWiden ==
  ASSUME NEW t \in Widths, NEW u \in Widths, u <= t
  PROVE  Values(u) \subseteq Values(t)
<1>1. PICK h \in Nat \ {0} : t \in Nat /\ Power(2, t) = 2 * h /\ Values(t) = -h .. h - 1
  BY WidthIs
<1>2. PICK g \in Nat \ {0} : u \in Nat /\ Power(2, u) = 2 * g /\ Values(u) = -g .. g - 1
  BY WidthIs
<1>3. PICK k \in Nat \ {0} : Power(2, t) = k * Power(2, u)
  BY <1>1, <1>2, TwoToDivides
<1>4. 2 * h = k * (2 * g) /\ k * (2 * g) >= 2 * g
  BY <1>1, <1>2, <1>3
<1>5. g <= h
  BY <1>4
<1> QED BY <1>1, <1>2, <1>5

LEMMA BoolsFit ==
  ASSUME NEW t \in Widths
  PROVE  {0, 1} \subseteq Values(t) /\ Values(t) \subseteq Int
<1>1. PICK h \in Nat \ {0} : t \in Nat /\ t >= 2 /\ t <= h /\ Values(t) = -h .. h - 1
  BY WidthIs
<1> QED BY <1>1

(* Wrap finds a congruent number of the width. *)
LEMMA WrapIs ==
  ASSUME NEW t \in Widths, NEW n \in Int
  PROVE  Wrap(t, n) \in Values(t) /\ Congruent(Power(2, t), Wrap(t, n), n)
<1>1. PICK h \in Nat \ {0} :
        Power(2, t) = 2 * h /\ MinOf(t) = -h /\ Values(t) = -h .. h - 1
  BY WidthIs
<1> DEFINE m == 2 * h
           d == n + h
<1>2. m \in Nat \ {0} /\ d \in Int
  OBVIOUS
<1> HIDE DEF m, d
<1>3. d % m \in 0 .. m - 1 /\ d \div m \in Int /\ d = m * (d \div m) + (d % m)
  BY <1>2
<1>4. Wrap(t, n) = (d % m) - h
  <2>1. n - MinOf(t) = d
    BY <1>1 DEF d
  <2> QED BY <1>1, <1>3, <2>1 DEF Wrap, m
<1>5. Wrap(t, n) \in Values(t)
  <2>1. \A k \in 0 .. 2 * h - 1 : k - h \in -h .. h - 1
    OBVIOUS
  <2> QED BY <1>1, <1>3, <1>4, <2>1 DEF m
<1>6. Wrap(t, n) = n + (-(d \div m)) * m /\ -(d \div m) \in Int
  <2>1. (-(d \div m)) * m = -(m * (d \div m))
    BY <1>2, <1>3
  <2>2. d - h = n
    BY DEF d
  <2>3. m * (d \div m) \in Int /\ d % m \in Int
    BY <1>2, <1>3
  <2> QED BY <1>2, <1>3, <1>4, <2>1, <2>2, <2>3
<1>7. Congruent(m, Wrap(t, n), n)
  BY <1>6 DEF Congruent
<1> QED BY <1>1, <1>5, <1>7 DEF m

(* No other number of the width is. *)
LEMMA WrapUnique ==
  ASSUME NEW t \in Widths, NEW v \in Values(t), NEW n \in Int,
         Congruent(Power(2, t), v, n)
  PROVE  v = Wrap(t, n)
<1>1. PICK h \in Nat \ {0} :
        Power(2, t) = 2 * h /\ MinOf(t) = -h /\ Values(t) = -h .. h - 1
  BY WidthIs
<1>2. 2 * h \in Nat \ {0} /\ -h \in Int /\ Values(t) = -h .. (-h) + 2 * h - 1
  BY <1>1
<1>3. v \in Int /\ Wrap(t, n) \in Int /\ Wrap(t, n) \in Values(t)
  BY WrapIs, BoolsFit
<1>4. Congruent(2 * h, v, Wrap(t, n))
  <2>1. Congruent(2 * h, v, n) /\ Congruent(2 * h, Wrap(t, n), n)
    BY <1>1, WrapIs
  <2>2. Congruent(2 * h, n, Wrap(t, n))
    BY <1>2, <1>3, <2>1, CongruentSym
  <2> QED BY <1>2, <1>3, <2>1, <2>2, CongruentTrans
<1> QED BY <1>2, <1>3, <1>4, CongruentUnique

(* A number of the width is left alone. *)
LEMMA WrapFits ==
  ASSUME NEW t \in Widths, NEW n \in Values(t)
  PROVE  Wrap(t, n) = n
<1>1. n \in Int /\ Power(2, t) \in Int
  BY BoolsFit, WidthIs
<1> QED BY <1>1, WrapUnique, CongruentRefl

(* Wrapping to a width first makes no difference to a narrower one. *)
LEMMA WrapTwice ==
  ASSUME NEW t \in Widths, NEW u \in Widths, u <= t, NEW n \in Int
  PROVE  Wrap(u, Wrap(t, n)) = Wrap(u, n)
<1>1. t \in Nat /\ u \in Nat /\ Power(2, u) \in Int
  BY WidthIs
<1>2. PICK k \in Nat \ {0} : Power(2, t) = k * Power(2, u)
  BY <1>1, TwoToDivides
<1>3. k \in Int /\ Wrap(t, n) \in Int /\ Congruent(k * Power(2, u), Wrap(t, n), n)
  BY <1>2, WrapIs, BoolsFit
<1>4. Congruent(Power(2, u), Wrap(t, n), n)
  BY <1>1, <1>3, CongruentFiner, Zenon
<1> DEFINE w == Wrap(u, Wrap(t, n))
<1>5. w \in Values(u) /\ w \in Int /\ Congruent(Power(2, u), w, Wrap(t, n))
  BY <1>3, WrapIs, BoolsFit
<1> HIDE DEF w
<1>6. Congruent(Power(2, u), w, n)
  BY <1>1, <1>3, <1>4, <1>5, CongruentTrans
<1>7. w = Wrap(u, n)
  BY <1>5, <1>6, WrapUnique
<1> QED BY <1>7 DEF w

-----------------------------------------------------------------------------
(* Operands. *)

LEMMA TypedIs ==
  ASSUME NEW x \in Typed
  PROVE  /\ x.t \in Widths \cup {Bool} /\ x.v \in Values(x.t) /\ x.v \in Int
         /\ IntShaped(x.t) \in Widths
         /\ x.t = Bool => x.v \in {0, 1}
         /\ x.t # Bool => x.v \in Values(IntShaped(x.t))
<1>1. x.t \in Widths \cup {Bool} /\ x.v \in Values(x.t)
  BY DEF Typed
<1>2. CASE x.t = Bool
  BY <1>1, <1>2, WordIs DEF Values, IntShaped
<1>3. CASE x.t # Bool
  BY <1>1, <1>3, BoolsFit DEF IntShaped
<1> QED BY <1>1, <1>2, <1>3

(* A coercion gives a number of its type. *)
LEMMA CoerceFits ==
  ASSUME NEW x, x.v \in Int, NEW t \in Widths \cup {Bool}
  PROVE  Coerce(x, t) \in Values(t)
<1>1. CASE t = Bool
  BY <1>1 DEF Coerce, Values
<1>2. CASE t # Bool
  BY <1>2, WrapIs DEF Coerce
<1> QED BY <1>1, <1>2

(* To a width it is a wrap, which leaves an operand no wider alone. *)
LEMMA CoerceIs ==
  ASSUME NEW x, x.v \in Int, NEW t \in Widths
  PROVE  Coerce(x, t) = Wrap(t, x.v)
BY WidthAssumption DEF Coerce

LEMMA CoerceWidens ==
  ASSUME NEW x \in Typed, NEW t \in Widths, IntShaped(x.t) <= t
  PROVE  Coerce(x, t) = x.v /\ x.v \in Values(t)
<1>1. x.v \in Values(t)
  <2>1. CASE x.t = Bool
    BY <2>1, TypedIs, BoolsFit
  <2>2. CASE x.t # Bool
    BY <2>2, TypedIs, ValuesWiden
  <2> QED BY <2>1, <2>2
<1>2. x.v \in Int
  BY TypedIs
<1> QED BY <1>1, <1>2, CoerceIs, WrapFits

-----------------------------------------------------------------------------
(* Division. *)

(* Of two multiples of b next below a, one is the other. *)
LEMMA OneQuotient ==
  ASSUME NEW b \in Nat \ {0}, NEW a \in Int, NEW p \in Int, NEW q \in Int,
         b * p <= a, a < b * p + b, b * q <= a, a < b * q + b
  PROVE  p = q
<1>1. ASSUME NEW x \in Int, NEW y \in Int, b * x <= a, a < b * y + b PROVE x <= y
  <2> SUFFICES ASSUME x >= y + 1 PROVE FALSE
    BY <1>1
  <2>1. b * x >= b * (y + 1)
    <3>1. x - (y + 1) \in Nat /\ b * (x - (y + 1)) >= 0
      OBVIOUS
    <3>2. b * (x - (y + 1)) = b * x - b * (y + 1)
      OBVIOUS
    <3>3. b * x \in Int /\ b * (y + 1) \in Int
      OBVIOUS
    <3> QED BY <3>1, <3>2, <3>3
  <2>2. b * (y + 1) = b * y + b
    OBVIOUS
  <2>3. b * x \in Int /\ b * y \in Int
    OBVIOUS
  <2> QED BY <1>1, <2>1, <2>2, <2>3
<1> QED BY <1>1

(* The floor quotient is the multiple of b next to a on the side of minus   *)
(* infinity.                                                                *)
LEMMA FloorQuotient ==
  ASSUME NEW a \in Int, NEW b \in Int, b # 0, NEW q \in Int,
         b > 0 => b * q <= a /\ a < b * q + b,
         b < 0 => a <= b * q /\ b * q + b < a
  PROVE  PyFloorDiv(a, b) = q
<1>1. CASE b > 0
  <2>1. b \in Nat \ {0} /\ a \div b \in Int
    BY <1>1
  <2>2. a = b * (a \div b) + (a % b) /\ a % b \in 0 .. b - 1
    BY <2>1
  <2>3. b * (a \div b) <= a /\ a < b * (a \div b) + b
    <3>1. b * (a \div b) \in Int
      BY <2>1
    <3> QED BY <2>1, <2>2, <3>1
  <2>4. a \div b = q
    BY <1>1, <2>1, <2>3, OneQuotient
  <2> QED BY <1>1, <2>4 DEF PyFloorDiv
<1>2. CASE b < 0
  <2> DEFINE c == -b
             d == -a
  <2>1. c \in Nat \ {0} /\ d \in Int
    BY <1>2
  <2> HIDE DEF c, d
  <2>2. d = c * (d \div c) + (d % c) /\ d % c \in 0 .. c - 1 /\ d \div c \in Int
    BY <2>1
  <2>3. c * (d \div c) <= d /\ d < c * (d \div c) + c
    <3>1. c * (d \div c) \in Int
      BY <2>1, <2>2
    <3> QED BY <2>1, <2>2, <3>1
  <2>4. c * q <= d /\ d < c * q + c
    <3>1. c * q = -(b * q) /\ b * q \in Int
      BY DEF c
    <3> QED BY <1>2, <3>1 DEF c, d
  <2>5. d \div c = q
    BY <2>1, <2>2, <2>3, <2>4, OneQuotient
  <2> QED BY <1>2, <2>5 DEF PyFloorDiv, c, d
<1> QED BY <1>1, <1>2

(* The instruction's quotient is cut towards zero: the remainder is smaller *)
(* than the divisor and has the sign of the dividend.                       *)
LEMMA Truncated ==
  ASSUME NEW a \in Int, NEW b \in Int, b # 0
  PROVE  /\ SDiv(a, b) \in Int /\ SRem(a, b) \in Int
         /\ a = b * SDiv(a, b) + SRem(a, b)
         /\ a >= 0 => SRem(a, b) >= 0
         /\ a <= 0 => SRem(a, b) <= 0
         /\ b > 0 => -b < SRem(a, b) /\ SRem(a, b) < b
         /\ b < 0 => b < SRem(a, b) /\ SRem(a, b) < -b
<1> DEFINE c == IF a < 0 THEN -a ELSE a
           d == IF b < 0 THEN -b ELSE b
           k == c \div d
           m == c % d
<1>1. c \in Nat /\ d \in Nat \ {0}
  OBVIOUS
<1>2. k \in Int /\ m \in 0 .. d - 1 /\ c = d * k + m
  <2> HIDE DEF c, d
  <2> QED BY <1>1
<1>3. SDiv(a, b) = IF (a < 0) = (b < 0) THEN k ELSE -k
  BY DEF SDiv
<1> HIDE DEF k, m
<1>4. SDiv(a, b) \in Int
  BY <1>2, <1>3
<1>5. b * SDiv(a, b) = IF a < 0 THEN -(d * k) ELSE d * k
  <2>1. (-b) * k = -(b * k) /\ b * (-k) = -(b * k) /\ -(-(b * k)) = b * k
    BY <1>2
  <2>2. CASE a < 0 /\ b < 0
    BY <1>3, <2>1, <2>2
  <2>3. CASE a < 0 /\ ~ b < 0
    BY <1>3, <2>1, <2>3
  <2>4. CASE ~ a < 0 /\ b < 0
    BY <1>3, <2>1, <2>4
  <2>5. CASE ~ a < 0 /\ ~ b < 0
    BY <1>3, <2>1, <2>5
  <2> QED BY <2>2, <2>3, <2>4, <2>5
<1>6. d * k \in Int
  BY <1>1, <1>2
<1>7. SRem(a, b) = IF a < 0 THEN -m ELSE m
  BY <1>2, <1>5, <1>6 DEF SRem
<1>8. SRem(a, b) \in Int /\ a = b * SDiv(a, b) + SRem(a, b)
  BY <1>2, <1>5, <1>6, <1>7
<1> QED BY <1>2, <1>4, <1>7, <1>8

(* The sign tests turn the truncated quotient into the floor quotient. *)
LEMMA FloorDivIs ==
  ASSUME NEW t, NEW a \in Int, NEW b \in Int, b # 0
  PROVE  FloorDiv(t, a, b) = Wrap(t, PyFloorDiv(a, b))
<1> DEFINE q     == SDiv(a, b)
           rem   == SRem(a, b)
           needs == rem # 0 /\ (a < 0) # (b < 0)
           f     == q - IF needs THEN 1 ELSE 0
<1>1. /\ q \in Int /\ rem \in Int /\ a = b * q + rem
      /\ a >= 0 => rem >= 0
      /\ a <= 0 => rem <= 0
      /\ b > 0 => -b < rem /\ rem < b
      /\ b < 0 => b < rem /\ rem < -b
  BY Truncated
<1> HIDE DEF q, rem
<1>2. b * q \in Int /\ b * (q - 1) = b * q - b
  BY <1>1
<1>3. f \in Int /\ b * f = IF needs THEN b * q - b ELSE b * q
  BY <1>1, <1>2
<1>4. b > 0 => b * f <= a /\ a < b * f + b
  <2> HIDE DEF f
  <2> QED BY <1>1, <1>2, <1>3
<1>5. b < 0 => a <= b * f /\ b * f + b < a
  <2> HIDE DEF f
  <2> QED BY <1>1, <1>2, <1>3
<1>6. PyFloorDiv(a, b) = f
  <2> HIDE DEF f
  <2> QED BY <1>3, <1>4, <1>5, FloorQuotient
<1> QED BY <1>6 DEF FloorDiv, q, rem

(* And the remainder into Python's, which has the sign of the divisor. *)
LEMMA FloorModIs ==
  ASSUME NEW t, NEW a \in Int, NEW b \in Int, b # 0
  PROVE  FloorMod(t, a, b) = Wrap(t, a - b * PyFloorDiv(a, b))
<1> DEFINE q     == SDiv(a, b)
           rem   == SRem(a, b)
           needs == rem # 0 /\ (rem < 0) # (b < 0)
           f     == q - IF needs THEN 1 ELSE 0
           m     == rem + IF needs THEN b ELSE 0
<1>1. /\ q \in Int /\ rem \in Int /\ a = b * q + rem
      /\ a >= 0 => rem >= 0
      /\ a <= 0 => rem <= 0
      /\ b > 0 => -b < rem /\ rem < b
      /\ b < 0 => b < rem /\ rem < -b
  BY Truncated
<1> HIDE DEF q, rem
<1>2. b * q \in Int /\ b * (q - 1) = b * q - b
  BY <1>1
<1>3. f \in Int /\ b * f = IF needs THEN b * q - b ELSE b * q
  BY <1>1, <1>2
<1>4. b > 0 => b * f <= a /\ a < b * f + b
  <2> HIDE DEF f
  <2> QED BY <1>1, <1>2, <1>3
<1>5. b < 0 => a <= b * f /\ b * f + b < a
  <2> HIDE DEF f
  <2> QED BY <1>1, <1>2, <1>3
<1>6. PyFloorDiv(a, b) = f
  <2> HIDE DEF f
  <2> QED BY <1>3, <1>4, <1>5, FloorQuotient
<1>7. a - b * f = m
  BY <1>1, <1>2, <1>3
<1> QED BY <1>6, <1>7 DEF FloorMod, q, rem

(* A right shift stays in the width. *)
LEMMA ShiftedFits ==
  ASSUME NEW h \in Nat, NEW d \in Nat \ {0}, NEW a \in -h .. h - 1
  PROVE  a \div d \in -h .. h - 1
<1> DEFINE k == a \div d
<1>1. k \in Int /\ a = d * k + (a % d) /\ a % d \in 0 .. d - 1
  OBVIOUS
<1> HIDE DEF k
<1>2. k >= 0 => d * k >= k
  BY <1>1
<1>3. k <= -1 => d * (k + 1) <= k + 1
  BY <1>1
<1>4. d * k \in Int /\ d * (k + 1) = d * k + d
  BY <1>1
<1>5. k \in -h .. h - 1
  BY <1>1, <1>2, <1>3, <1>4
<1> QED BY <1>5 DEF k

-----------------------------------------------------------------------------
(* One instruction, at a width its operands have: Python's result, wrapped. *)

LEMMA InstructionIs ==
  ASSUME op \in PyOps \ {"pow"}, NEW t \in Widths, NEW a \in Values(t), NEW b \in Values(t),
         ~ Undefined(t, a, b)
  PROVE  /\ PyResult(op, a, b) \in Int
         /\ Instruction(t, a, b) = Wrap(t, PyResult(op, a, b))
<1>1. PICK h \in Nat \ {0} : t \in Nat /\ MinOf(t) = -h /\ Values(t) = -h .. h - 1
  BY WidthIs
<1>2. a \in Int /\ b \in Int
  BY <1>1
<1>3. /\ op \in {"floordiv", "mod"} => b # 0
      /\ op \in Shifts => b \in Nat
  BY <1>1, <1>2 DEF Undefined
<1>4. CASE op \in {"neg", "bitnot", "add", "sub", "mul"}
  <2>1. 0 - a = -a /\ -1 - a = -a - 1 /\ a * b \in Int
    BY <1>2
  <2> QED BY <1>2, <1>4, <2>1 DEF Instruction, PyResult
<1>5. CASE op \in {"floordiv", "mod"}
  <2>1. b # 0
    BY <1>3, <1>5
  <2>2. PyFloorDiv(a, b) \in Int
    <3>1. CASE b > 0
      BY <1>2, <3>1 DEF PyFloorDiv
    <3>2. CASE ~ b > 0
      <4>1. -b \in Nat \ {0} /\ -a \in Int
        BY <1>2, <2>1, <3>2
      <4> QED BY <3>2, <4>1 DEF PyFloorDiv
    <3> QED BY <3>1, <3>2
  <2>3. a - b * PyFloorDiv(a, b) \in Int
    BY <1>2, <2>2
  <2> QED BY <1>2, <1>5, <2>1, <2>2, <2>3, FloorDivIs, FloorModIs DEF Instruction, PyResult
<1>6. CASE op = "shl"
  <2>1. Power(2, b) \in Int
    BY <1>3, <1>6, TwoTo DEF Shifts
  <2>2. a * Power(2, b) \in Int
    BY <1>2, <2>1
  <2> QED BY <1>6, <2>2 DEF Instruction, PyResult
<1>7. CASE op = "shr"
  <2>1. Power(2, b) \in Nat \ {0}
    BY <1>3, <1>7, TwoTo DEF Shifts
  <2>2. a \div Power(2, b) \in Values(t)
    BY <1>1, <2>1, ShiftedFits
  <2>3. a \div Power(2, b) \in Int
    BY <1>1, <2>2
  <2> QED BY <1>7, <2>2, <2>3, WrapFits DEF Instruction, PyResult
<1> QED BY <1>4, <1>5, <1>6, <1>7 DEF PyOps, Unary, Shifts

-----------------------------------------------------------------------------
(* The inductive invariant. *)

Inputs == /\ op \in PyOps /\ l \in Typed /\ r \in Typed /\ to \in Widths \cup {Bool}
          /\ op \in Unary => r = l

(* The powers still to be multiplied complete the accumulator to the whole  *)
(* one, modulo the range of a word.                                         *)
Squared ==
  stage = "pow" =>
    /\ op = "pow" /\ r.v \in Nat /\ exp \in Nat
    /\ Congruent(Power(2, Word), acc * Power(base, exp), Power(l.v, r.v))

(* The computed result is Python's, wrapped once to the type of the result. *)
Computed ==
  stage \in {"store", "done"} /\ PyInt(op, l.v, r.v) /\ CountFits =>
    /\ PyValue \in Int
    /\ acc = Wrap(ResultType, PyValue)

Stored ==
  stage = "done" => slot = Coerce([t |-> ResultType, v |-> acc], to)

IntInv == IntTypeOK /\ Inputs /\ Squared /\ Computed /\ Stored /\ UndefinedWhere

(* The type of the result is a width that holds the operands. *)
LEMMA ResultTypeIs ==
  ASSUME Inputs
  PROVE  /\ ResultType \in Widths /\ ResultType \in Nat
         /\ op = "pow" => ResultType = Word
         /\ IntShaped(l.t) <= ResultType
         /\ op \notin Shifts => IntShaped(r.t) <= ResultType
<1>1. IntShaped(l.t) \in Widths /\ IntShaped(r.t) \in Widths
  BY TypedIs DEF Inputs
<1>2. /\ IntShaped(l.t) \in Nat /\ IntShaped(r.t) \in Nat
      /\ IntShaped(l.t) <= Word /\ IntShaped(r.t) <= Word
  BY <1>1, WordIs, WidthIs
<1>3. CASE op = "pow"
  BY <1>2, <1>3, WordIs DEF ResultType, Shifts
<1>4. CASE op \in Shifts
  BY <1>1, <1>2, <1>4 DEF ResultType, Shifts
<1>5. CASE op \in Unary
  BY <1>1, <1>2, <1>5 DEF ResultType, Unary, Inputs
<1>6. CASE op \notin Shifts \cup Unary \cup {"pow"}
  BY <1>1, <1>2, <1>6 DEF ResultType, Unify
<1> QED BY <1>3, <1>4, <1>5, <1>6

(* The operands an operation computes with are those of the program, and a  *)
(* shift's count too, if it is less than the type has bits.                 *)
LEMMA OperandsAre ==
  ASSUME Inputs
  PROVE  /\ Coerce(l, ResultType) = l.v /\ Coerce(l, ResultType) \in Values(ResultType)
         /\ Coerce(r, ResultType) \in Values(ResultType)
         /\ PyInt(op, l.v, r.v) /\ CountFits => Coerce(r, ResultType) = r.v
<1>1. ResultType \in Widths /\ l \in Typed /\ r \in Typed /\ r.v \in Int
  BY ResultTypeIs, TypedIs DEF Inputs
<1>2. Coerce(l, ResultType) = l.v /\ Coerce(l, ResultType) \in Values(ResultType)
  BY <1>1, ResultTypeIs, CoerceWidens
<1>3. Coerce(r, ResultType) \in Values(ResultType)
  BY <1>1, CoerceFits
<1>4. CASE op \in Shifts
  <2> SUFFICES ASSUME PyInt(op, l.v, r.v), CountFits
      PROVE  Coerce(r, ResultType) = r.v
    BY <1>2, <1>3
  <2>1. r.v >= 0 /\ r.v < ResultType
    BY <1>4 DEF PyInt, CountFits
  <2>2. r.v \in Values(ResultType)
    <3>1. PICK h \in Nat \ {0} : /\ ResultType \in Nat /\ ResultType <= h
                                 /\ Values(ResultType) = -h .. h - 1
      BY <1>1, WidthIs
    <3> QED BY <1>1, <2>1, <3>1
  <2> QED BY <1>1, <2>2, CoerceIs, WrapFits
<1>5. CASE op \notin Shifts
  BY <1>1, <1>2, <1>3, <1>5, ResultTypeIs, CoerceWidens
<1> QED BY <1>4, <1>5

-----------------------------------------------------------------------------
(* The steps. *)

LEMMA IntInitInv == IntInit => IntInv
<1> SUFFICES ASSUME IntInit PROVE IntInv
  OBVIOUS
<1>1. 0 \in Values(Word) /\ 0 \in Values(to)
  <2>1. to \in Widths \cup {Bool}
    BY DEF IntInit
  <2>2. CASE to = Bool
    BY <2>2, WordIs, BoolsFit DEF Values
  <2>3. CASE to # Bool
    BY <2>1, <2>3, WordIs, BoolsFit
  <2> QED BY <2>2, <2>3
<1>2. IntTypeOK /\ Inputs
  BY <1>1 DEF IntInit, IntTypeOK, Inputs
<1>3. Squared /\ Computed /\ Stored /\ UndefinedWhere
  BY DEF IntInit, Squared, Computed, Stored, UndefinedWhere
<1> QED BY <1>2, <1>3 DEF IntInv

LEMMA OperateInv ==
  ASSUME IntInv, Operate
  PROVE  IntInv'
<1> DEFINE t == ResultType
           a == Coerce(l, t)
           b == Coerce(r, t)
<1>1. /\ op' = op /\ l' = l /\ r' = r /\ to' = to
      /\ base' = base /\ exp' = exp /\ slot' = slot
      /\ stage = "start" /\ op # "pow"
  BY DEF Operate, input
<1>2. /\ t \in Widths /\ a = l.v /\ a \in Values(t) /\ b \in Values(t)
      /\ PyInt(op, l.v, r.v) /\ CountFits => b = r.v
  BY ResultTypeIs, OperandsAre DEF IntInv
<1>3. ResultType' = ResultType /\ Inputs' /\ PyValue' = PyValue /\ CountFits' = CountFits
  BY <1>1 DEF IntInv, ResultType, Inputs, PyValue, CountFits
<1>4. CASE Undefined(t, a, b) /\ stage' = "undefined" /\ UNCHANGED acc
  <2>1. IntTypeOK'
    BY <1>1, <1>3, <1>4 DEF IntInv, IntTypeOK
  <2>2. Squared' /\ Computed' /\ Stored'
    BY <1>4 DEF Squared, Computed, Stored
  <2>3. UndefinedWhere
    BY DEF IntInv
  <2>4. ASSUME PyInt(op, l.v, r.v), PyValue \in Values(t), op \in Shifts => CountFits
        PROVE  op = "mod" /\ l.v = MinOf(t) /\ r.v = -1
    <3>1. CountFits /\ b = r.v
      BY <1>2, <2>4 DEF CountFits
    <3>2. op \notin Shifts
      <4> SUFFICES ASSUME op \in Shifts PROVE FALSE
        OBVIOUS
      <4>1. r.v >= 0 /\ r.v < t /\ r.v \in Int /\ t \in Nat
        BY <1>2, <2>4, <3>1, ResultTypeIs, TypedIs DEF IntInv, Inputs, PyInt, CountFits
      <4>2. op \notin {"floordiv", "mod"} /\ r.v \in 0 .. t - 1
        BY <4>1 DEF Shifts
      <4> QED BY <1>4, <3>1, <4>2 DEF Undefined
    <3>3. op \in {"floordiv", "mod"} /\ b # 0 /\ a = MinOf(t) /\ b = -1
      BY <1>4, <2>4, <3>1, <3>2 DEF Undefined, PyInt
    <3>4. op # "floordiv"
      <4> SUFFICES ASSUME op = "floordiv" PROVE FALSE
        OBVIOUS
      <4>1. PICK h \in Nat \ {0} : MinOf(t) = -h /\ Values(t) = -h .. h - 1
        BY <1>2, WidthIs
      <4>2. PyValue = PyFloorDiv(l.v, r.v)
        BY DEF PyValue, PyResult
      <4>3. l.v = -h /\ r.v = -1
        BY <1>2, <3>1, <3>3, <4>1
      <4>4. PyFloorDiv(-h, -1) = h
        <5>1. (-1) * h = -h
          OBVIOUS
        <5> QED BY <5>1, FloorQuotient
      <4> QED BY <2>4, <4>1, <4>2, <4>3, <4>4
    <3> QED BY <1>2, <3>1, <3>3, <3>4
  <2>5. UndefinedWhere'
    BY <1>1, <1>3, <2>4 DEF UndefinedWhere, MinOf
  <2> QED BY <1>3, <2>1, <2>2, <2>5 DEF IntInv
<1>5. CASE ~ Undefined(t, a, b) /\ stage' = "store" /\ acc' = Instruction(t, a, b)
  <2>1. op \in PyOps \ {"pow"}
    BY <1>1 DEF IntInv, Inputs
  <2>2. PyResult(op, a, b) \in Int /\ acc' = Wrap(t, PyResult(op, a, b))
    BY <1>2, <1>5, <2>1, InstructionIs
  <2>3. acc' \in Values(t) /\ acc' \in Values(Word)
    <3>1. acc' \in Values(t)
      BY <1>2, <2>2, WrapIs
    <3> QED BY <1>2, <3>1, WordIs, ValuesWiden
  <2>4. IntTypeOK'
    BY <1>1, <1>3, <1>5, <2>3 DEF IntInv, IntTypeOK
  <2>5. Squared' /\ Stored' /\ UndefinedWhere'
    BY <1>5 DEF Squared, Stored, UndefinedWhere
  <2>6. Computed'
    <3>1. ASSUME PyInt(op, l.v, r.v), CountFits
          PROVE  PyValue = PyResult(op, a, b)
      BY <1>2, <3>1 DEF PyValue
    <3> QED BY <1>1, <1>3, <2>2, <3>1 DEF Computed
  <2> QED BY <1>3, <2>4, <2>5, <2>6 DEF IntInv
<1>6. QED
  BY <1>4, <1>5 DEF Operate

LEMMA EnterPowInv ==
  ASSUME IntInv, EnterPow
  PROVE  IntInv'
<1>1. /\ op' = op /\ l' = l /\ r' = r /\ to' = to /\ slot' = slot
      /\ stage = "start" /\ op = "pow"
  BY DEF EnterPow, input
<1>2. /\ Word \in Widths /\ ResultType = Word
      /\ Coerce(l, Word) = l.v /\ Coerce(l, Word) \in Values(Word)
      /\ Coerce(r, Word) \in Values(Word)
      /\ Coerce(r, Word) = r.v /\ r.v \in Int /\ l.v \in Int
  <2>1. ResultType = Word /\ op \notin Shifts /\ l \in Typed /\ r \in Typed
    BY <1>1, ResultTypeIs DEF IntInv, Inputs, Shifts
  <2> QED BY <2>1, WordIs, OperandsAre, ResultTypeIs, CoerceWidens, TypedIs DEF IntInv
<1>3. ResultType' = ResultType /\ Inputs' /\ PyValue' = PyValue /\ CountFits' = CountFits
  BY <1>1 DEF IntInv, ResultType, Inputs, PyValue, CountFits
<1>4. 0 \in Values(Word) /\ 1 \in Values(Word)
  BY <1>2, BoolsFit
<1>5. CASE r.v < 0 /\ stage' = "store" /\ acc' = 0 /\ UNCHANGED <<base, exp>>
  <2>1. IntTypeOK'
    BY <1>1, <1>2, <1>3, <1>4, <1>5 DEF IntInv, IntTypeOK
  <2>2. ~ PyInt(op, l.v, r.v)
    BY <1>1, <1>2, <1>5 DEF PyInt
  <2>3. Squared' /\ Computed' /\ Stored' /\ UndefinedWhere'
    BY <1>1, <1>5, <2>2 DEF Squared, Computed, Stored, UndefinedWhere
  <2> QED BY <1>3, <2>1, <2>3 DEF IntInv
<1>6. CASE ~ r.v < 0 /\ stage' = "pow" /\ acc' = 1 /\ base' = l.v /\ exp' = r.v
  <2>1. IntTypeOK'
    BY <1>1, <1>2, <1>3, <1>4, <1>6 DEF IntInv, IntTypeOK
  <2>2. Congruent(Power(2, Word), 1 * Power(l.v, r.v), Power(l.v, r.v))
    <3>1. r.v \in Nat /\ Power(l.v, r.v) \in Int /\ Power(2, Word) \in Int
      <4>1. r.v \in Nat
        BY <1>2, <1>6
      <4>2. Power(2, Word) \in Int
        BY WordIs, PowerInt
      <4> QED BY <1>2, <4>1, <4>2, PowerInt
    <3>2. 1 * Power(l.v, r.v) = Power(l.v, r.v)
      BY <3>1
    <3> QED BY <3>1, <3>2, CongruentRefl
  <2>3. Squared'
    BY <1>1, <1>2, <1>6, <2>2 DEF Squared
  <2>4. Computed' /\ Stored' /\ UndefinedWhere'
    BY <1>6 DEF Computed, Stored, UndefinedWhere
  <2> QED BY <1>3, <2>1, <2>3, <2>4 DEF IntInv
<1> QED BY <1>2, <1>5, <1>6 DEF EnterPow

LEMMA SquareStepInv ==
  ASSUME IntInv, SquareStep
  PROVE  IntInv'
<1> DEFINE m == Power(2, Word)
           q == exp \div 2
           p == Power(base, 2 * q)
<1>1. /\ op' = op /\ l' = l /\ r' = r /\ to' = to /\ slot' = slot
      /\ stage = "pow" /\ stage' = "pow" /\ exp # 0
      /\ acc' = IF exp % 2 = 1 THEN Wrap(Word, acc * base) ELSE acc
      /\ base' = Wrap(Word, base * base)
      /\ exp' = q
  BY DEF SquareStep, input
<1>2. /\ Word \in Widths /\ op = "pow" /\ r.v \in Nat /\ exp \in Nat
      /\ acc \in Int /\ base \in Int /\ l.v \in Int
      /\ Congruent(m, acc * Power(base, exp), Power(l.v, r.v))
  <2>1. acc \in Values(Word) /\ base \in Values(Word) /\ l \in Typed /\ Word \in Widths
    BY WordIs DEF IntInv, IntTypeOK
  <2> QED BY <1>1, <2>1, BoolsFit, TypedIs DEF IntInv, Squared
<1>3. ResultType' = ResultType /\ Inputs'
  BY <1>1 DEF IntInv, ResultType, Inputs
<1>4. acc * base \in Int /\ base * base \in Int /\ m \in Int
  BY <1>2, WordIs, TwoTo
<1>5. q \in Nat /\ q <= exp /\ (exp % 2 = 1 => exp = 2 * q + 1) /\ (exp % 2 # 1 => exp = 2 * q)
  BY <1>2
<1>6. acc' \in Values(Word) /\ base' \in Values(Word) /\ exp' \in Values(Word)
  <2>1. acc' \in Values(Word)
    BY <1>1, <1>2, <1>4, WrapIs DEF IntInv, IntTypeOK
  <2>2. base' \in Values(Word)
    BY <1>1, <1>2, <1>4, WrapIs
  <2>3. exp' \in Values(Word)
    <3>1. PICK h \in Nat \ {0} : Values(Word) = -h .. h - 1
      BY <1>2, WidthIs
    <3>2. exp \in Values(Word)
      BY DEF IntInv, IntTypeOK
    <3> HIDE DEF q
    <3> QED BY <1>1, <1>5, <3>1, <3>2
  <2> QED BY <2>1, <2>2, <2>3
<1>7. acc' \in Int /\ base' \in Int
  BY <1>2, <1>6, BoolsFit
<1> HIDE DEF q
<1>8. p \in Int /\ Power(base', q) \in Int /\ Congruent(m, Power(base', q), p)
  <2>1. Congruent(m, base', base * base)
    BY <1>1, <1>2, <1>4, WrapIs
  <2>2. Congruent(m, Power(base', q), Power(base * base, q))
    BY <1>4, <1>5, <1>7, <2>1, CongruentPower
  <2>3. 2 * q \in Nat
    BY <1>5
  <2> QED BY <1>2, <1>5, <1>7, <2>2, <2>3, PowerOfSquare, PowerIs
<1> HIDE DEF m, p
<1>9. Congruent(m, acc' * Power(base', q), acc * Power(base, exp))
  <2>1. CASE exp % 2 = 1
    <3>1. Congruent(m, acc', acc * base)
      BY <1>1, <1>2, <1>4, <2>1, WrapIs DEF m
    <3>2. Congruent(m, acc' * Power(base', q), (acc * base) * p)
      BY <1>4, <1>7, <1>8, <3>1, CongruentTimes
    <3>3. Power(base, exp) = base * p
      <4>1. 2 * q \in Nat /\ exp = 2 * q + 1
        BY <1>5, <2>1
      <4> QED BY <1>2, <4>1, PowerIs DEF p
    <3>4. (acc * base) * p = acc * (base * p)
      BY <1>2, <1>8
    <3> QED BY <3>2, <3>3, <3>4
  <2>2. CASE exp % 2 # 1
    <3>1. Congruent(m, acc' * Power(base', q), acc * p)
      BY <1>1, <1>2, <1>4, <1>8, <2>2, CongruentTimes, CongruentRefl
    <3>2. Power(base, exp) = p
      BY <1>5, <2>2 DEF p
    <3> QED BY <3>1, <3>2
  <2> QED BY <2>1, <2>2
<1>10. Congruent(m, acc' * Power(base', q), Power(l.v, r.v))
  <2>1. /\ acc' * Power(base', q) \in Int /\ acc * Power(base, exp) \in Int
        /\ Power(l.v, r.v) \in Int
    <3>1. Power(base, exp) \in Int /\ Power(l.v, r.v) \in Int
      BY <1>2, PowerInt
    <3> QED BY <1>2, <1>7, <1>8, <3>1
  <2> QED BY <1>2, <1>4, <1>9, <2>1, CongruentTrans DEF m
<1>11. IntTypeOK'
  BY <1>1, <1>3, <1>6 DEF IntInv, IntTypeOK
<1>12. Squared'
  BY <1>1, <1>2, <1>5, <1>10 DEF Squared, m
<1>13. Computed' /\ Stored' /\ UndefinedWhere'
  BY <1>1 DEF Computed, Stored, UndefinedWhere
<1> QED BY <1>3, <1>11, <1>12, <1>13 DEF IntInv

LEMMA LeavePowInv ==
  ASSUME IntInv, LeavePow
  PROVE  IntInv'
<1>1. /\ op' = op /\ l' = l /\ r' = r /\ to' = to /\ slot' = slot
      /\ acc' = acc /\ base' = base /\ exp' = exp
      /\ stage = "pow" /\ stage' = "store" /\ exp = 0
  BY DEF LeavePow, input
<1>2. /\ Word \in Widths /\ op = "pow" /\ ResultType = Word /\ r.v \in Nat
      /\ acc \in Values(Word) /\ acc \in Int /\ base \in Int /\ l.v \in Int
      /\ Congruent(Power(2, Word), acc * Power(base, 0), Power(l.v, r.v))
  <2>1. /\ acc \in Values(Word) /\ base \in Values(Word) /\ l \in Typed
        /\ Word \in Widths /\ op = "pow" /\ Inputs
    BY <1>1, WordIs DEF IntInv, IntTypeOK, Squared
  <2> QED BY <1>1, <2>1, BoolsFit, TypedIs, ResultTypeIs DEF IntInv, Squared
<1>3. ResultType' = ResultType /\ Inputs' /\ PyValue' = PyValue /\ CountFits' = CountFits
  BY <1>1 DEF IntInv, ResultType, Inputs, PyValue, CountFits
<1>4. PyValue = Power(l.v, r.v) /\ PyValue \in Int
  BY <1>2, PowerIs DEF PyValue, PyResult
<1>5. acc = Wrap(Word, PyValue)
  <2>1. acc * Power(base, 0) = acc
    BY <1>2, PowerIs
  <2> QED BY <1>2, <1>4, <2>1, WrapUnique
<1>6. IntTypeOK'
  BY <1>1, <1>2, <1>3 DEF IntInv, IntTypeOK
<1>7. Computed'
  BY <1>1, <1>2, <1>3, <1>4, <1>5 DEF Computed
<1>8. Squared' /\ Stored' /\ UndefinedWhere'
  BY <1>1 DEF Squared, Stored, UndefinedWhere
<1> QED BY <1>3, <1>6, <1>7, <1>8 DEF IntInv

LEMMA StoreInv ==
  ASSUME IntInv, Store
  PROVE  IntInv'
<1> DEFINE x == [t |-> ResultType, v |-> acc]
<1>1. /\ op' = op /\ l' = l /\ r' = r /\ to' = to
      /\ acc' = acc /\ base' = base /\ exp' = exp
      /\ stage = "store" /\ stage' = "done" /\ slot' = Coerce(x, to)
  BY DEF Store, input
<1>2. ResultType' = ResultType /\ Inputs' /\ PyValue' = PyValue /\ CountFits' = CountFits
  BY <1>1 DEF IntInv, ResultType, Inputs, PyValue, CountFits
<1>3. slot' \in Values(to)
  <2>1. acc \in Int /\ to \in Widths \cup {Bool}
    BY WordIs, BoolsFit DEF IntInv, IntTypeOK
  <2>2. x.v = acc
    OBVIOUS
  <2> HIDE DEF x
  <2> QED BY <1>1, <2>1, <2>2, CoerceFits
<1>4. IntTypeOK'
  BY <1>1, <1>2, <1>3 DEF IntInv, IntTypeOK
<1>5. Computed' /\ Stored'
  BY <1>1, <1>2 DEF IntInv, Computed, Stored, Coerce
<1>6. Squared' /\ UndefinedWhere'
  BY <1>1 DEF Squared, UndefinedWhere
<1> QED BY <1>2, <1>4, <1>5, <1>6 DEF IntInv

(* Every step keeps the invariant. *)
LEMMA IntStepInv == IntInv /\ [IntNext]_intVars => IntInv'
<1> SUFFICES ASSUME IntInv, [IntNext]_intVars PROVE IntInv'
  OBVIOUS
<1>1. CASE Operate
  BY <1>1, OperateInv
<1>2. CASE EnterPow
  BY <1>2, EnterPowInv
<1>3. CASE SquareStep
  BY <1>3, SquareStepInv
<1>4. CASE LeavePow
  BY <1>4, LeavePowInv
<1>5. CASE Store
  BY <1>5, StoreInv
<1>6. CASE UNCHANGED intVars
  BY <1>6 DEF intVars, input, IntInv, IntTypeOK, Inputs, Squared, Computed, Stored, UndefinedWhere,
              PyValue, CountFits, ResultType
<1> QED BY <1>1, <1>2, <1>3, <1>4, <1>5, <1>6 DEF IntNext

LEMMA Inductive == IntSpec => []IntInv
BY IntInitInv, IntStepInv, PTL DEF IntSpec

-----------------------------------------------------------------------------
(* The properties, for every set of widths.                                 *)

(* A register holds a number of its width and the slot one of its type,     *)
(* whatever the operands: what codegen.rs emits for an operation keeps the  *)
(* width the checker gave it.                                               *)
THEOREM IntTypeCorrect == IntSpec => []IntTypeOK
<1>1. IntInv => IntTypeOK
  BY DEF IntInv
<1> QED BY <1>1, Inductive, PTL

(* What a finished operation stored is its Python result, wrapped to the    *)
(* type of the operation and then coerced to that of the slot.              *)
LEMMA Finished ==
  ASSUME IntInv, stage = "done", PyInt(op, l.v, r.v), CountFits
  PROVE  /\ ResultType \in Widths /\ PyValue \in Int
         /\ slot = Coerce([t |-> ResultType, v |-> Wrap(ResultType, PyValue)], to)
BY ResultTypeIs DEF IntInv, Computed, Stored

(* An operation whose Python result fits the type the checker gave it       *)
(* (apply_binop) computes exactly that: sums and products, the sign-tested  *)
(* floor division and modulo, shifts and the squarings of pyx86_pow_i64.    *)
THEOREM Exact == IntSpec => []ExactInRange
<1>1. IntInv => ExactInRange
  <2> SUFFICES ASSUME IntInv, stage = "done", PyInt(op, l.v, r.v), CountFits,
                      PyValue \in Values(ResultType)
      PROVE  slot = Coerce([t |-> ResultType, v |-> PyValue], to)
    BY DEF ExactInRange
  <2>1. Wrap(ResultType, PyValue) = PyValue
    BY Finished, WrapFits
  <2> QED BY <2>1, Finished
<1> QED BY <1>1, Inductive, PTL

(* Beyond that type a result wraps: the many wrapped steps of the squaring, *)
(* and the wraps of the operation and of the store, amount to one.          *)
THEOREM Wraps == IntSpec => []WrapsOnce
<1>1. IntInv => WrapsOnce
  <2> SUFFICES ASSUME IntInv, stage = "done", PyInt(op, l.v, r.v), CountFits,
                      to \in Widths, to <= ResultType
      PROVE  slot = Wrap(to, PyValue)
    BY DEF WrapsOnce
  <2> DEFINE x == [t |-> ResultType, v |-> Wrap(ResultType, PyValue)]
  <2>1. x.v = Wrap(ResultType, PyValue) /\ x.v \in Int
    BY Finished, WrapIs, BoolsFit
  <2>2. slot = Wrap(to, x.v)
    <3>1. slot = Coerce(x, to)
      BY Finished
    <3> HIDE DEF x
    <3> QED BY <2>1, <3>1, CoerceIs
  <2>3. Wrap(to, Wrap(ResultType, PyValue)) = Wrap(to, PyValue)
    BY Finished, WrapTwice
  <2> QED BY <2>1, <2>2, <2>3
<1> QED BY <1>1, Inductive, PTL

(* A program is left without a value (an LLVM instruction with no defined   *)
(* result) only in the places UndefinedWhere lists.                         *)
THEOREM Undefinedness == IntSpec => []UndefinedWhere
<1>1. IntInv => UndefinedWhere
  BY DEF IntInv
<1> QED BY <1>1, Inductive, PTL

-----------------------------------------------------------------------------
(* The hash table.                                                          *)

(* The capacity is a positive multiple of 4, so 3*cap/4 is a whole number   *)
(* of slots and the load bound below leaves at least one of them empty.     *)
CapShape == \E q \in 1 .. cap : cap = 4 * q

(* While growing, the old table has half the slots of the new one and the   *)
(* scan has put at most one entry into the new one per slot it has passed.  *)
GrowShape ==
  /\ Growing => \E n \in 0 .. cap :
       /\ cap = 2 * n
       /\ old \in [0 .. n - 1 -> Slot]
       /\ gi \in 0 .. n
       /\ pc \in {"re_enter", "re_probe"} => gi < n
       /\ size <= gi
  /\ pc \in {"re_enter", "re_probe"} => old[gi] # Empty

(* The load factor: at most 75%, and below it while an insert is probing.   *)
LoadShape ==
  /\ 4 * size <= 3 * cap
  /\ pc = "probe" => 4 * size < 3 * cap

(* Which operation each runtime function was called for.                    *)
ReqShape ==
  /\ pc \in {"enter", "probe", "grow", "re_enter", "re_probe", "re_grow"} =>
       req \in Call /\ req.op = "insert"
  /\ pc = "find" => req \in Call /\ req.op \in {"get", "has"}

IInv ==
  /\ TypeOK
  /\ CapShape
  /\ GrowShape
  /\ LoadShape
  /\ ReqShape
  /\ SizeCounts
  /\ NoNestedGrowth

-----------------------------------------------------------------------------
(* A key's home slot and a probe's next slot are slots of the table.        *)
LEMMA HomeInTable ==
  ASSUME NEW k \in Keys, NEW c \in Nat \ {0}
  PROVE  Home(k, c) \in 0 .. c - 1
BY KeysAssumption DEF Home

LEMMA NextInTable ==
  ASSUME NEW c \in Nat \ {0}, NEW j \in 0 .. c - 1
  PROVE  NextSlot(j, c) \in 0 .. c - 1
BY DEF NextSlot

(* A freshly zeroed table has the right shape and holds nothing.            *)
LEMMA BlankTable ==
  ASSUME NEW c \in Nat
  PROVE  /\ Blank(c) \in [0 .. c - 1 -> Slot]
         /\ Occupied(Blank(c)) = {}
         /\ Cardinality(Occupied(Blank(c))) = 0
<1>1. Blank(c) \in [0 .. c - 1 -> Slot]
  BY DEF Blank, Slot
<1>2. Occupied(Blank(c)) = {}
  BY DEF Blank, Occupied
<1>3. QED  BY <1>1, <1>2, FS_EmptySet

(* The occupied slots of a table are finitely many, at most its capacity.   *)
LEMMA OccupiedFinite ==
  ASSUME NEW c \in Nat, NEW s \in [0 .. c - 1 -> Slot]
  PROVE  /\ IsFiniteSet(Occupied(s))
         /\ Cardinality(Occupied(s)) \in Nat
<1>1. IsFiniteSet(0 .. c - 1)
  BY FS_Interval
<1>2. Occupied(s) \subseteq 0 .. c - 1
  BY DEF Occupied
<1>3. QED  BY <1>1, <1>2, FS_Subset, FS_CardinalityType

(* do_insert adds one occupied slot and one to the size word, do_overwrite  *)
(* neither.                                                                 *)
LEMMA WriteCounts ==
  ASSUME cap \in Nat \ {0}, size \in Nat, i \in 0 .. cap - 1,
         slots \in [0 .. cap - 1 -> Slot], SizeCounts,
         NEW e \in Entry, Write(e)
  PROVE  /\ slots' \in [0 .. cap - 1 -> Slot]
         /\ size' \in {size, size + 1}
         /\ SizeCounts'
         /\ cap' = cap
<1>1. slots' \in [0 .. cap - 1 -> Slot] /\ cap' = cap
  BY DEF Write, Slot
<1>2. size' \in {size, size + 1}
  BY DEF Write
<1>3. IsFiniteSet(Occupied(slots))
  BY OccupiedFinite
<1>4. e # Empty
  BY EmptyAssumption
<1>5. Occupied(slots') = Occupied(slots) \cup {i}
  BY <1>1, <1>4 DEF Write, Occupied
<1>6. SizeCounts'
  <2>1. CASE slots[i] = Empty
    <3>1. i \notin Occupied(slots)
      BY <2>1 DEF Occupied
    <3>2. Cardinality(Occupied(slots')) = Cardinality(Occupied(slots)) + 1
      BY <1>3, <1>5, <3>1, FS_AddElement
    <3>3. QED  BY <2>1, <3>2 DEF Write, SizeCounts
  <2>2. CASE slots[i] # Empty
    <3>1. Occupied(slots') = Occupied(slots)
      BY <1>5, <2>2 DEF Occupied
    <3>2. QED  BY <2>2, <3>1 DEF Write, SizeCounts
  <2>3. QED  BY <2>1, <2>2
<1>7. QED  BY <1>1, <1>2, <1>6

-----------------------------------------------------------------------------
(* The two linear facts behind the load bound.                              *)
LEMMA QuarterLeft ==
  ASSUME NEW n \in Nat, NEW q \in Nat, n <= 3 * q
  PROVE  4 * n <= 3 * (4 * q)
OBVIOUS

LEMMA HalfLeft ==
  ASSUME NEW n \in Nat, NEW m \in Nat, n <= m
  PROVE  4 * n <= 3 * (2 * m)
OBVIOUS

LEMMA InitIInv == Init => IInv
<1> SUFFICES ASSUME Init PROVE IInv
  OBVIOUS
<1>1. todo \in Seq(Entry)
  BY MaxEntriesAssumption DEF Init, Literals
<1>2. Occupied(slots) = {}
  BY DEF Init, Occupied, NoSlots
<1>3. SizeCounts
  BY <1>2, FS_EmptySet DEF Init, SizeCounts
<1>4. TypeOK
  BY <1>1 DEF Init, TypeOK, NoSlots
<1>5. CapShape /\ GrowShape /\ LoadShape /\ ReqShape /\ NoNestedGrowth
  BY DEF Init, CapShape, GrowShape, LoadShape, ReqShape, NoNestedGrowth, Growing
<1>6. QED  BY <1>3, <1>4, <1>5 DEF IInv

(* Every action of the compiled program and its runtime keeps the invariant. *)
LEMMA StepIInv == IInv /\ [Next]_vars => IInv'
<1> SUFFICES ASSUME IInv, [Next]_vars PROVE IInv'
  OBVIOUS
<1> USE DEF IInv
<1>1. CASE WidenLiteral
  <2>1. TypeOK'
    BY <1>1 DEF WidenLiteral, TypeOK, table, grow
  <2>2. CapShape' /\ LoadShape'
    BY <1>1 DEF WidenLiteral, TypeOK, CapShape, LoadShape, table, grow
  <2>3. GrowShape' /\ ReqShape' /\ SizeCounts' /\ NoNestedGrowth'
    BY <1>1 DEF WidenLiteral, GrowShape, ReqShape, SizeCounts, NoNestedGrowth,
                Growing, grow
  <2>4. QED  BY <2>1, <2>2, <2>3
<1>2. CASE AllocLiteral
  <2>1. slots' \in [0 .. cap - 1 -> Slot] /\ Occupied(slots') = {}
    BY <1>2, BlankTable DEF AllocLiteral, TypeOK
  <2>2. size = 0
    BY <1>2, FS_EmptySet DEF AllocLiteral, TypeOK, SizeCounts, Occupied
  <2>3. TypeOK'
    BY <1>2, <2>1 DEF AllocLiteral, TypeOK, Slot, grow
  <2>4. SizeCounts'
    BY <1>2, <2>1, <2>2, FS_EmptySet DEF AllocLiteral, SizeCounts
  <2>5. CapShape' /\ GrowShape' /\ LoadShape' /\ ReqShape' /\ NoNestedGrowth'
    BY <1>2 DEF AllocLiteral, CapShape, GrowShape, LoadShape, ReqShape,
                NoNestedGrowth, Growing, grow
  <2>6. QED  BY <2>3, <2>4, <2>5
<1>3. CASE InsertEntry
  <2>1. Head(todo) \in Entry
    BY <1>3 DEF InsertEntry, TypeOK
  <2>2. req' \in Call /\ req'.op = "insert"
    BY <1>3, <2>1 DEF InsertEntry, Call, Entry
  <2>3. TypeOK'
    BY <1>3, <2>2 DEF InsertEntry, TypeOK, table, grow
  <2>4. CapShape' /\ GrowShape' /\ LoadShape' /\ ReqShape' /\ SizeCounts' /\ NoNestedGrowth'
    BY <1>3, <2>2 DEF InsertEntry, CapShape, GrowShape, LoadShape, ReqShape, SizeCounts,
                NoNestedGrowth, Growing, table, grow
  <2>5. QED  BY <2>3, <2>4
<1>4. CASE \E k \in Keys, v \in Vals : CallInsert(k, v)
  <2>1. req' \in Call /\ req'.op = "insert"
    BY <1>4 DEF CallInsert, Call
  <2>2. TypeOK'
    BY <1>4, <2>1 DEF CallInsert, TypeOK, table, grow
  <2>3. CapShape' /\ GrowShape' /\ LoadShape' /\ ReqShape' /\ SizeCounts' /\ NoNestedGrowth'
    BY <1>4, <2>1 DEF CallInsert, CapShape, GrowShape, LoadShape, ReqShape, SizeCounts,
                NoNestedGrowth, Growing, table, grow
  <2>4. QED  BY <2>2, <2>3
<1>5. CASE \E o \in {"get", "has"}, k \in Keys : CallFind(o, k)
  <2>1. req' \in Call /\ req'.op \in {"get", "has"}
    BY <1>5 DEF CallFind, Call
  <2>2. i' \in 0 .. cap - 1
    BY <1>5, HomeInTable DEF CallFind, TypeOK
  <2>3. TypeOK'
    BY <1>5, <2>1, <2>2 DEF CallFind, TypeOK, table, grow
  <2>4. CapShape' /\ GrowShape' /\ LoadShape' /\ ReqShape' /\ SizeCounts' /\ NoNestedGrowth'
    BY <1>5, <2>1 DEF CallFind, CapShape, GrowShape, LoadShape, ReqShape, SizeCounts,
                NoNestedGrowth, Growing, table, grow
  <2>5. QED  BY <2>3, <2>4
<1>6. CASE CallLen
  <2>1. TypeOK'
    BY <1>6 DEF CallLen, TypeOK, table, grow
  <2>2. CapShape' /\ GrowShape' /\ LoadShape' /\ ReqShape' /\ SizeCounts' /\ NoNestedGrowth'
    BY <1>6 DEF CallLen, CapShape, GrowShape, LoadShape, ReqShape, SizeCounts,
                NoNestedGrowth, Growing, table, grow
  <2>3. QED  BY <2>1, <2>2
<1>7. CASE FindNext \/ InsertNext \/ ReinsertNext
  <2>1. i' \in 0 .. cap - 1
    BY <1>7, NextInTable DEF FindNext, InsertNext, ReinsertNext, StepPast, TypeOK
  <2>2. TypeOK'
    BY <1>7, <2>1 DEF FindNext, InsertNext, ReinsertNext, TypeOK, table, grow
  <2>3. CapShape' /\ GrowShape' /\ LoadShape' /\ ReqShape' /\ SizeCounts' /\ NoNestedGrowth'
    BY <1>7 DEF FindNext, InsertNext, ReinsertNext, CapShape, GrowShape, LoadShape,
                ReqShape, SizeCounts, NoNestedGrowth, Growing, table, grow
  <2>4. QED  BY <2>2, <2>3
<1>8. CASE FindReturn
  <2>1. slots[i] # Empty => slots[i] \in Entry
    BY <1>8 DEF FindReturn, TypeOK, Slot
  <2>2. res' \in Vals \cup Nat
    BY <1>8, <2>1 DEF FindReturn, Entry
  <2>3. TypeOK'
    BY <1>8, <2>2 DEF FindReturn, TypeOK, table, grow
  <2>4. CapShape' /\ GrowShape' /\ LoadShape' /\ ReqShape' /\ SizeCounts' /\ NoNestedGrowth'
    BY <1>8 DEF FindReturn, CapShape, GrowShape, LoadShape, ReqShape, SizeCounts,
                NoNestedGrowth, Growing, table, grow
  <2>5. QED  BY <2>3, <2>4
<1>9. CASE InsertEnter
  <2>1. i' \in 0 .. cap - 1
    <3>1. req.key \in Keys
      BY <1>9 DEF InsertEnter, ReqShape, Call
    <3>2. QED  BY <1>9, <3>1, HomeInTable DEF InsertEnter, TypeOK
  <2>2. TypeOK'
    BY <1>9, <2>1 DEF InsertEnter, TypeOK, table, grow
  <2>3. LoadShape'
    BY <1>9 DEF InsertEnter, LoadShape, NeedsGrow, TypeOK, table
  <2>4. CapShape' /\ GrowShape' /\ ReqShape' /\ SizeCounts' /\ NoNestedGrowth'
    BY <1>9 DEF InsertEnter, CapShape, GrowShape, ReqShape, SizeCounts,
                NoNestedGrowth, Growing, table, grow
  <2>5. QED  BY <2>2, <2>3, <2>4
<1>10. CASE GrowEnter
  <2>1. cap' = 2 * cap /\ cap' \in Nat \ {0}
    BY <1>10 DEF GrowEnter, GrownCap, TypeOK
  <2>2. slots' \in [0 .. cap' - 1 -> Slot] /\ Cardinality(Occupied(slots')) = 0
    BY <1>10, <2>1, BlankTable DEF GrowEnter
  <2>3. old' \in [0 .. cap - 1 -> Slot]
    BY <1>10 DEF GrowEnter, TypeOK, Slot
  <2>4. TypeOK'
    <3>1. \E n \in 0 .. cap' : old' \in [0 .. n - 1 -> Slot] /\ gi' <= n
      BY <1>10, <2>1, <2>3 DEF GrowEnter, TypeOK
    <3>2. i' \in 0 .. cap' - 1
      BY <1>10, <2>1 DEF GrowEnter, TypeOK
    <3>3. QED  BY <1>10, <2>1, <2>2, <3>1, <3>2 DEF GrowEnter, TypeOK
  <2>5. CapShape'
    BY <2>1 DEF CapShape, TypeOK
  <2>6. SizeCounts'
    BY <1>10, <2>2 DEF GrowEnter, SizeCounts
  <2>7. GrowShape'
    BY <1>10, <2>1, <2>3 DEF GrowEnter, GrowShape, TypeOK
  <2>8. LoadShape' /\ ReqShape' /\ NoNestedGrowth'
    BY <1>10, <2>1 DEF GrowEnter, LoadShape, ReqShape, NoNestedGrowth
  <2>9. QED  BY <2>4, <2>5, <2>6, <2>7, <2>8
<1>11. CASE InsertWrite
  <2>1. [key |-> req.key, val |-> req.val] \in Entry
    BY <1>11 DEF InsertWrite, ReqShape, Call, Entry
  <2>2. /\ slots' \in [0 .. cap - 1 -> Slot]
        /\ size' \in {size, size + 1}
        /\ SizeCounts'
        /\ cap' = cap
    BY <1>11, <2>1, WriteCounts DEF InsertWrite, TypeOK, Slot
  <2>3. todo' \in Seq(Entry)
    BY <1>11 DEF InsertWrite, TypeOK
  <2>4. TypeOK'
    <3>1. size' \in Nat /\ i' \in 0 .. cap' - 1
      BY <1>11, <2>2 DEF InsertWrite, TypeOK
    <3>2. req' \in Call \cup {NoCall} /\ pc' = "idle"
      BY <1>11 DEF InsertWrite
    <3>3. UNCHANGED <<old, gi, res, cap>>
      BY <1>11, <2>2 DEF InsertWrite, grow
    <3>4. QED  BY <2>2, <2>3, <3>1, <3>2, <3>3 DEF TypeOK
  <2>5. LoadShape'
    <3>1. PICK q \in 1 .. cap : cap = 4 * q
      BY DEF CapShape
    <3>2. 4 * size < 3 * cap
      BY <1>11 DEF InsertWrite, LoadShape
    <3>3. size \in Nat /\ cap \in Nat /\ q \in Nat
      BY DEF TypeOK
    <3>4. size + 1 <= 3 * q
      BY <3>1, <3>2, <3>3
    <3>5. size' \in Nat /\ size' <= 3 * q
      BY <2>2, <3>3, <3>4
    <3>6. cap' = 4 * q /\ cap' \in Nat
      BY <2>2, <3>1, <3>3
    <3>7. 4 * size' <= 3 * cap'
      BY <3>3, <3>5, <3>6, QuarterLeft
    <3>8. QED  BY <1>11, <3>7 DEF InsertWrite, LoadShape
  <2>6. CapShape' /\ GrowShape' /\ ReqShape' /\ NoNestedGrowth'
    BY <1>11, <2>2 DEF InsertWrite, CapShape, GrowShape, ReqShape, NoNestedGrowth, Growing
  <2>7. QED  BY <2>2, <2>4, <2>5, <2>6
<1>12. CASE GrowSkip \/ GrowReinsert
  <2>1. PICK n \in 0 .. cap : /\ cap = 2 * n
                              /\ old \in [0 .. n - 1 -> Slot]
                              /\ gi \in 0 .. n - 1
                              /\ size <= gi
    BY <1>12 DEF GrowSkip, GrowReinsert, GrowShape, Growing, TypeOK
  <2>2. TypeOK'
    <3>1. \E k \in 0 .. cap' : old' \in [0 .. k - 1 -> Slot] /\ gi' <= k
      <4>1. gi' <= n /\ n \in 0 .. cap' /\ old' \in [0 .. n - 1 -> Slot]
        BY <1>12, <2>1 DEF GrowSkip, GrowReinsert, TypeOK, table, grow
      <4>2. QED  BY <4>1
    <3>2. gi' \in Nat
      BY <1>12 DEF GrowSkip, GrowReinsert, TypeOK, grow
    <3>3. pc' \in {"grow", "re_enter"} /\ pc = "grow"
      BY <1>12 DEF GrowSkip, GrowReinsert
    <3>4. UNCHANGED <<size, cap, slots, todo, req, i, res>>
      BY <1>12 DEF GrowSkip, GrowReinsert, table, grow
    <3>5. QED  BY <3>1, <3>2, <3>3, <3>4 DEF TypeOK
  <2>3. GrowShape'
    <3>1. /\ n \in 0 .. cap'
          /\ cap' = 2 * n
          /\ old' \in [0 .. n - 1 -> Slot]
      BY <1>12, <2>1 DEF GrowSkip, GrowReinsert, table, grow
    <3>2. CASE GrowSkip
      <4>1. pc' = "grow" /\ gi' \in 0 .. n /\ size' <= gi'
        BY <2>1, <3>2 DEF GrowSkip, TypeOK, table
      <4>2. QED  BY <3>1, <4>1 DEF GrowShape
    <3>3. CASE GrowReinsert
      <4>1. /\ pc' = "re_enter"
            /\ gi' \in 0 .. n
            /\ gi' < n
            /\ size' <= gi'
            /\ old'[gi'] # Empty
        BY <2>1, <3>3 DEF GrowReinsert, table, grow
      <4>2. QED  BY <3>1, <4>1 DEF GrowShape
    <3>4. QED  BY <1>12, <3>2, <3>3
  <2>4. CapShape' /\ LoadShape' /\ ReqShape' /\ SizeCounts' /\ NoNestedGrowth'
    BY <1>12 DEF GrowSkip, GrowReinsert, CapShape, LoadShape, ReqShape, SizeCounts,
                 NoNestedGrowth, table, grow
  <2>5. QED  BY <2>2, <2>3, <2>4
<1>13. CASE GrowReturn
  <2>1. i' \in 0 .. cap - 1
    <3>1. req.key \in Keys
      BY <1>13 DEF GrowReturn, ReqShape, Call
    <3>2. QED  BY <1>13, <3>1, HomeInTable DEF GrowReturn, TypeOK
  <2>2. TypeOK'
    <3>1. \E k \in 0 .. cap' : old' \in [0 .. k - 1 -> Slot] /\ gi' <= k
      <4>1. old' \in [0 .. 0 - 1 -> Slot] /\ gi' = 0
        BY <1>13 DEF GrowReturn, NoSlots
      <4>2. 0 \in 0 .. cap'
        BY <1>13 DEF GrowReturn, TypeOK, table
      <4>3. QED  BY <4>1, <4>2
    <3>2. QED  BY <1>13, <2>1, <3>1 DEF GrowReturn, TypeOK, table
  <2>3. 4 * size < 3 * cap
    <3>1. Growing
      BY <1>13 DEF GrowReturn, Growing
    <3>2. PICK n \in 0 .. cap : cap = 2 * n /\ gi \in 0 .. n /\ size <= gi
      BY <3>1 DEF GrowShape
    <3>3. QED  BY <3>2 DEF TypeOK
  <2>4. LoadShape'
    BY <1>13, <2>3 DEF GrowReturn, LoadShape, table
  <2>5. CapShape' /\ GrowShape' /\ ReqShape' /\ SizeCounts' /\ NoNestedGrowth'
    BY <1>13 DEF GrowReturn, CapShape, GrowShape, ReqShape, SizeCounts,
                 NoNestedGrowth, Growing, table
  <2>6. QED  BY <2>2, <2>4, <2>5
<1>14. CASE ReinsertEnter
  <2>1. PICK n \in 0 .. cap : /\ cap = 2 * n
                              /\ old \in [0 .. n - 1 -> Slot]
                              /\ gi \in 0 .. n - 1
                              /\ size <= gi
    <3>1. Growing /\ pc \in {"re_enter", "re_probe"}
      BY <1>14 DEF ReinsertEnter, Growing
    <3>2. PICK n \in 0 .. cap : /\ cap = 2 * n
                                /\ old \in [0 .. n - 1 -> Slot]
                                /\ gi \in 0 .. n
                                /\ gi < n
                                /\ size <= gi
      BY <3>1 DEF GrowShape
    <3>3. gi \in 0 .. n - 1
      BY <3>2 DEF TypeOK
    <3>4. QED  BY <3>2, <3>3
  <2>2. old[gi] \in Entry
    BY <1>14, <2>1 DEF ReinsertEnter, GrowShape, Slot
  <2>3. i' \in 0 .. cap - 1
    BY <1>14, <2>2, HomeInTable DEF ReinsertEnter, Entry, TypeOK
  <2>4. pc' = "re_probe"
    BY <1>14, <2>1 DEF ReinsertEnter, NeedsGrow, TypeOK
  <2>5. TypeOK'
    BY <1>14, <2>3, <2>4 DEF ReinsertEnter, TypeOK, table, grow
  <2>6. GrowShape'
    BY <1>14, <2>4 DEF ReinsertEnter, GrowShape, Growing, table, grow
  <2>7. CapShape' /\ LoadShape' /\ ReqShape' /\ SizeCounts' /\ NoNestedGrowth'
    BY <1>14, <2>4 DEF ReinsertEnter, CapShape, LoadShape, ReqShape, SizeCounts,
                       NoNestedGrowth, table
  <2>8. QED  BY <2>5, <2>6, <2>7
<1>15. CASE ReinsertWrite
  <2>1. PICK n \in 0 .. cap : /\ cap = 2 * n
                              /\ old \in [0 .. n - 1 -> Slot]
                              /\ gi \in 0 .. n - 1
                              /\ size <= gi
    <3>1. Growing /\ pc \in {"re_enter", "re_probe"}
      BY <1>15 DEF ReinsertWrite, Growing
    <3>2. PICK n \in 0 .. cap : /\ cap = 2 * n
                                /\ old \in [0 .. n - 1 -> Slot]
                                /\ gi \in 0 .. n
                                /\ gi < n
                                /\ size <= gi
      BY <3>1 DEF GrowShape
    <3>3. gi \in 0 .. n - 1
      BY <3>2 DEF TypeOK
    <3>4. QED  BY <3>2, <3>3
  <2>2. old[gi] \in Entry
    BY <1>15, <2>1 DEF ReinsertWrite, GrowShape, Slot
  <2>3. /\ slots' \in [0 .. cap - 1 -> Slot]
        /\ size' \in {size, size + 1}
        /\ SizeCounts'
        /\ cap' = cap
    BY <1>15, <2>2, WriteCounts DEF ReinsertWrite, TypeOK, Slot
  <2>4. TypeOK'
    <3>1. /\ UNCHANGED <<todo, req, old, res>>
          /\ pc' = "grow" /\ gi' = gi + 1 /\ i' = 0
      BY <1>15 DEF ReinsertWrite
    <3>2. size' \in Nat /\ gi' \in Nat /\ i' \in 0 .. cap' - 1
      BY <2>1, <2>3, <3>1 DEF TypeOK
    <3>3. \E m \in 0 .. cap' : old' \in [0 .. m - 1 -> Slot] /\ gi' <= m
      BY <2>1, <2>3, <3>1
    <3>4. QED  BY <2>3, <3>1, <3>2, <3>3 DEF TypeOK
  <2>5. GrowShape'
    <3>1. pc' = "grow" /\ gi' = gi + 1 /\ old' = old
      BY <1>15 DEF ReinsertWrite
    <3>2. gi' \in 0 .. n /\ size' <= gi' /\ n \in 0 .. cap' /\ cap' = 2 * n
      BY <2>1, <2>3, <3>1 DEF TypeOK
    <3>3. QED  BY <2>1, <3>1, <3>2 DEF GrowShape
  <2>6. LoadShape'
    <3>1. size' <= n /\ n \in Nat /\ size' \in Nat /\ cap' = 2 * n /\ cap' \in Nat
      BY <2>1, <2>3 DEF TypeOK
    <3>2. 4 * size' <= 3 * cap'
      BY <3>1, HalfLeft
    <3>3. pc' = "grow"
      BY <1>15 DEF ReinsertWrite
    <3>4. QED  BY <3>2, <3>3 DEF LoadShape
  <2>7. CapShape' /\ ReqShape' /\ NoNestedGrowth'
    BY <1>15, <2>3 DEF ReinsertWrite, CapShape, ReqShape, NoNestedGrowth
  <2>8. QED  BY <2>3, <2>4, <2>5, <2>6, <2>7
<1>16. CASE UNCHANGED vars
  BY <1>16 DEF vars, table, grow, TypeOK, CapShape, GrowShape, LoadShape, ReqShape,
               SizeCounts, NoNestedGrowth, Growing
<1>17. QED
  BY <1>1, <1>2, <1>3, <1>4, <1>5, <1>6, <1>7, <1>8, <1>9, <1>10, <1>11, <1>12,
     <1>13, <1>14, <1>15, <1>16 DEF Next, Literal, Program, Runtime

LEMMA SpecIInv == Spec => []IInv
BY InitIInv, StepIInv, PTL DEF Spec

-----------------------------------------------------------------------------
(* Type correctness, cursor bounds included: no probe and no grow scan ever *)
(* addresses a slot outside its table.                                      *)
THEOREM TypeCorrect == Spec => []TypeOK
<1>1. IInv => TypeOK
  BY DEF IInv
<1>2. QED  BY <1>1, SpecIInv, PTL

(* The size word that len() returns counts the occupied slots.              *)
THEOREM SizeIsCount == Spec => []SizeCounts
<1>1. IInv => SizeCounts
  BY DEF IInv
<1>2. QED  BY <1>1, SpecIInv, PTL

(* Every probe loop has an empty slot to stop at, whatever the keys, the    *)
(* literal and the sequence of operations.                                  *)
THEOREM TableNeverFull == Spec => []FreeSlot
<1>1. IInv => FreeSlot
  <2> SUFFICES ASSUME IInv, pc # "sizing", \A j \in DOMAIN slots : slots[j] # Empty
               PROVE  FALSE
    BY DEF FreeSlot
  <2>1. cap \in Nat \ {0} /\ slots \in [0 .. cap - 1 -> Slot]
    BY DEF IInv, TypeOK
  <2>2. Occupied(slots) = 0 .. cap - 1
    BY <2>1 DEF Occupied
  <2>3. Cardinality(0 .. cap - 1) = cap
    BY <2>1, FS_Interval
  <2>4. size = cap
    BY <2>2, <2>3 DEF IInv, SizeCounts
  <2>5. 4 * size <= 3 * cap
    BY DEF IInv, LoadShape
  <2>6. QED  BY <2>1, <2>4, <2>5
<1>2. QED  BY <1>1, SpecIInv, PTL

(* A growth never starts another one, so the mutual recursion of grow and   *)
(* insert is two calls deep at most.                                        *)
THEOREM GrowthDoesNotRecur == Spec => []NoNestedGrowth
<1>1. IInv => NoNestedGrowth
  BY DEF IInv
<1>2. QED  BY <1>1, SpecIInv, PTL

-----------------------------------------------------------------------------
(* The table as a mapping. *)

(* The key the running probe loop looks for. *)
Wanted == IF pc = "re_probe" THEN old[gi].key ELSE req.key

(* A probe has passed only slots that other keys occupy.                    *)
Walked ==
  pc \in {"find", "probe", "re_probe"} =>
    \A n \in Between(Home(Wanted, cap), i, cap) : Blocks(slots[n], Wanted)

(* Outside a growth there is no old table.  During one, it holds no key     *)
(* twice, and the new one holds what the scan has passed.                   *)
OldTable ==
  /\ ~ Growing => old = NoSlots
  /\ \A a, b \in Occupied(old) : old[a].key = old[b].key => a = b
  /\ Growing => \A j \in Occupied(slots) :
                  \E n \in Occupied(old) : n < gi /\ old[n] = slots[j]

(* The program waits for an operation exactly while a function runs.        *)
Waiting == pc \in {"sizing", "idle"} => req = NoCall

MInv == IInv /\ Reachable /\ Walked /\ OldTable /\ Waiting

-----------------------------------------------------------------------------
(* The slots from a home up to, and without, another slot, around the end.  *)

LEMMA NextIs ==
  ASSUME NEW c \in Nat \ {0}, NEW j \in 0 .. c - 1
  PROVE  NextSlot(j, c) = IF j = c - 1 THEN 0 ELSE j + 1
<1>1. CASE j = c - 1
  BY <1>1 DEF NextSlot
<1>2. CASE j # c - 1
  <2>1. j + 1 \in 0 .. c - 1
    BY <1>2
  <2>2. QED  BY <1>2, <2>1 DEF NextSlot
<1>3. QED  BY <1>1, <1>2

(* One more step of a walk passes one more slot (or comes home).            *)
LEMMA BetweenNext ==
  ASSUME NEW c \in Nat \ {0}, NEW h \in 0 .. c - 1, NEW j \in 0 .. c - 1
  PROVE  Between(h, NextSlot(j, c), c) \subseteq Between(h, j, c) \cup {j}
BY NextIs DEF Between

LEMMA BetweenHome ==
  ASSUME NEW c \in Nat \ {0}, NEW h \in 0 .. c - 1
  PROVE  Between(h, h, c) = {}
BY DEF Between

LEMMA BetweenIn ==
  ASSUME NEW c \in Nat \ {0}, NEW h \in 0 .. c - 1, NEW j \in 0 .. c - 1
  PROVE  Between(h, j, c) \subseteq 0 .. c - 1 /\ j \notin Between(h, j, c)
BY DEF Between

(* Of two walks from the same home, one passes the end of the other.        *)
LEMMA BetweenLinear ==
  ASSUME NEW c \in Nat \ {0}, NEW h \in 0 .. c - 1,
         NEW j \in 0 .. c - 1, NEW k \in 0 .. c - 1
  PROVE  j = k \/ j \in Between(h, k, c) \/ k \in Between(h, j, c)
BY DEF Between

(* Hence a table in which every key is reachable holds none twice, and a    *)
(* walk that ends at an empty slot has not missed its key.                  *)
LEMMA KeysDistinct ==
  ASSUME cap \in Nat \ {0}, slots \in [0 .. cap - 1 -> Slot], Reachable,
         NEW j \in Occupied(slots), NEW k \in Occupied(slots),
         slots[j].key = slots[k].key
  PROVE  j = k
<1>1. /\ j \in 0 .. cap - 1 /\ k \in 0 .. cap - 1
      /\ slots[j] \in Entry /\ slots[k] \in Entry
  BY DEF Occupied, Slot
<1>2. Home(slots[j].key, cap) \in 0 .. cap - 1
  BY <1>1, HomeInTable DEF Entry
<1>3. k \notin Between(Home(slots[j].key, cap), j, cap)
  BY DEF Reachable, Blocks
<1>4. j \notin Between(Home(slots[j].key, cap), k, cap)
  BY DEF Reachable, Blocks
<1>5. QED  BY <1>1, <1>2, <1>3, <1>4, BetweenLinear

LEMMA WalkFindsKey ==
  ASSUME cap \in Nat \ {0}, slots \in [0 .. cap - 1 -> Slot], Reachable,
         NEW x \in Keys, NEW m \in 0 .. cap - 1,
         \A n \in Between(Home(x, cap), m, cap) : Blocks(slots[n], x),
         slots[m] = Empty,
         NEW j \in Occupied(slots)
  PROVE  slots[j].key # x
<1> SUFFICES ASSUME slots[j].key = x PROVE FALSE
  OBVIOUS
<1>1. j \in 0 .. cap - 1 /\ Home(x, cap) \in 0 .. cap - 1
  BY HomeInTable DEF Occupied
<1>2. m \notin Between(Home(x, cap), j, cap)
  BY DEF Reachable, Blocks
<1>3. j \notin Between(Home(x, cap), m, cap)
  BY DEF Blocks
<1>4. j # m
  BY DEF Occupied
<1>5. QED  BY <1>1, <1>2, <1>3, <1>4, BetweenLinear

-----------------------------------------------------------------------------
(* do_insert and do_overwrite at the end of a walk.                         *)
LEMMA WriteKeepsReachable ==
  ASSUME cap \in Nat \ {0}, slots \in [0 .. cap - 1 -> Slot], Reachable,
         NEW e \in Entry, i \in 0 .. cap - 1,
         \A n \in Between(Home(e.key, cap), i, cap) : Blocks(slots[n], e.key),
         Write(e)
  PROVE  Reachable'
<1>1. /\ slots' = [slots EXCEPT ![i] = e] /\ cap' = cap
      /\ ~ Blocks(slots[i], e.key)
  BY DEF Write
<1>2. /\ DOMAIN slots' = 0 .. cap - 1
      /\ slots'[i] = e
      /\ \A n \in 0 .. cap - 1 : n # i => slots'[n] = slots[n]
  BY <1>1
<1>3. e # Empty /\ e.key \in Keys
  BY EmptyAssumption DEF Entry
<1>4. ASSUME NEW j \in Occupied(slots'),
             NEW n \in Between(Home(slots'[j].key, cap), j, cap)
      PROVE  Blocks(slots'[n], slots'[j].key)
  <2>1. CASE j = i
    <3>1. n \in 0 .. cap - 1 /\ n # i
      BY <1>2, <1>3, <1>4, <2>1, HomeInTable, BetweenIn
    <3>2. QED  BY <1>2, <1>4, <2>1, <3>1
  <2>2. CASE j # i
    <3>1. /\ j \in Occupied(slots) /\ slots'[j] = slots[j]
          /\ j \in 0 .. cap - 1 /\ slots[j] \in Entry
      BY <1>2, <2>2 DEF Occupied, Slot
    <3>2. n \in 0 .. cap - 1
      BY <1>4, <3>1, HomeInTable, BetweenIn DEF Entry
    <3>3. Blocks(slots[n], slots[j].key)
      BY <1>4, <3>1 DEF Reachable
    <3>4. CASE n # i
      BY <1>2, <3>1, <3>2, <3>3, <3>4
    <3>5. CASE n = i
      <4>1. slots[i].key = e.key
        BY <1>1, <3>3, <3>5 DEF Blocks
      <4>2. QED  BY <1>2, <1>3, <3>1, <3>3, <3>5, <4>1 DEF Blocks
    <3>6. QED  BY <3>4, <3>5
  <2>3. QED  BY <2>1, <2>2
<1>5. QED  BY <1>1, <1>4 DEF Reachable

(* The turn of a probe loop.                                                *)
LEMMA StepKeepsWalk ==
  ASSUME cap \in Nat \ {0}, i \in 0 .. cap - 1, NEW x \in Keys, StepPast(x),
         \A n \in Between(Home(x, cap), i, cap) : Blocks(slots[n], x)
  PROVE  \A n \in Between(Home(x, cap), i', cap) : Blocks(slots[n], x)
<1>1. Home(x, cap) \in 0 .. cap - 1
  BY HomeInTable
<1>2. i' = NextSlot(i, cap) /\ Blocks(slots[i], x)
  BY DEF StepPast
<1>3. QED  BY <1>1, <1>2, BetweenNext

LEMMA TableTyped ==
  ASSUME IInv
  PROVE  /\ cap \in Nat \ {0} /\ i \in 0 .. cap - 1
         /\ pc # "sizing" => slots \in [0 .. cap - 1 -> Slot]
         /\ pc = "sizing" => DOMAIN slots = {}
         /\ pc \in {"find", "enter", "probe", "grow", "re_enter", "re_probe"} =>
              req.key \in Keys
         /\ pc \in {"enter", "probe"} => req.val \in Vals
         /\ pc \in {"re_enter", "re_probe"} =>
              gi \in Occupied(old) /\ old[gi] \in Entry
<1>1. /\ cap \in Nat \ {0} /\ i \in 0 .. cap - 1
      /\ pc # "sizing" => slots \in [0 .. cap - 1 -> Slot]
      /\ pc = "sizing" => DOMAIN slots = {}
  BY DEF IInv, TypeOK
<1>2. /\ pc \in {"find", "enter", "probe", "grow", "re_enter", "re_probe"} =>
           req.key \in Keys
      /\ pc \in {"enter", "probe"} => req.val \in Vals
  BY DEF IInv, ReqShape, Call
<1>3. ASSUME pc \in {"re_enter", "re_probe"}
      PROVE  gi \in Occupied(old) /\ old[gi] \in Entry
  <2>1. PICK n \in 0 .. cap : old \in [0 .. n - 1 -> Slot] /\ gi \in 0 .. n /\ gi < n
    BY <1>3 DEF IInv, GrowShape, Growing
  <2>2. gi \in 0 .. n - 1
    BY <1>1, <2>1
  <2>3. old[gi] # Empty
    BY <1>3 DEF IInv, GrowShape
  <2>4. QED  BY <2>1, <2>2, <2>3 DEF Occupied, Slot
<1>4. QED  BY <1>1, <1>2, <1>3

LEMMA InitMInv == Init => MInv
<1> SUFFICES ASSUME Init PROVE MInv
  OBVIOUS
<1>1. Occupied(slots) = {} /\ Occupied(old) = {}
  BY DEF Init, Occupied, NoSlots
<1>2. Reachable /\ OldTable
  BY <1>1 DEF Init, Reachable, OldTable, Growing
<1>3. Walked /\ Waiting
  BY DEF Init, Walked, Waiting
<1>4. QED  BY <1>2, <1>3, InitIInv DEF MInv

(* Every action keeps the keys reachable, the walks complete and the old    *)
(* table a source of distinct keys.                                         *)
LEMMA StepMInv == MInv /\ [Next]_vars => MInv'
<1> SUFFICES ASSUME MInv, [Next]_vars PROVE MInv'
  OBVIOUS
<1>ind. IInv'
  BY StepIInv DEF MInv
<1>typed. /\ cap \in Nat \ {0} /\ i \in 0 .. cap - 1
          /\ pc # "sizing" => slots \in [0 .. cap - 1 -> Slot]
          /\ pc = "sizing" => DOMAIN slots = {}
          /\ pc \in {"find", "enter", "probe", "grow", "re_enter", "re_probe"} =>
               req.key \in Keys
          /\ pc \in {"enter", "probe"} => req.val \in Vals
          /\ pc \in {"re_enter", "re_probe"} =>
               gi \in Occupied(old) /\ old[gi] \in Entry
  BY TableTyped DEF MInv
<1>walks. Reachable /\ Walked /\ OldTable /\ Waiting
  BY DEF MInv
<1>1. CASE WidenLiteral
  <2>1. Occupied(slots) = {} /\ slots' = slots
    BY <1>1, <1>typed DEF WidenLiteral, Occupied
  <2>2. Reachable'
    BY <2>1 DEF Reachable, Occupied
  <2>3. Walked' /\ OldTable' /\ Waiting'
    BY <1>1, <1>walks DEF WidenLiteral, Walked, OldTable, Waiting, Growing, Occupied, grow
  <2>4. QED  BY <1>ind, <2>2, <2>3 DEF MInv
<1>2. CASE AllocLiteral
  <2>1. Occupied(slots') = {}
    BY <1>2, <1>typed, BlankTable DEF AllocLiteral
  <2>2. Reachable'
    BY <2>1 DEF Reachable, Occupied
  <2>3. Walked' /\ OldTable' /\ Waiting'
    BY <1>2, <1>walks DEF AllocLiteral, Walked, OldTable, Waiting, Growing, Occupied, grow
  <2>4. QED  BY <1>ind, <2>2, <2>3 DEF MInv
<1>3. CASE \/ InsertEntry \/ CallLen \/ FindReturn
           \/ \E k \in Keys, v \in Vals : CallInsert(k, v)
  <2>1. UNCHANGED <<table, grow>> /\ pc' \in {"idle", "enter"} /\ ~ Growing
    BY <1>3 DEF InsertEntry, CallLen, FindReturn, CallInsert, Growing
  <2>2. Reachable' /\ Walked' /\ OldTable'
    BY <1>walks, <2>1 DEF Reachable, Walked, OldTable, Growing, Occupied, table, grow
  <2>3. Waiting'
    BY <1>3, <1>walks DEF InsertEntry, CallLen, FindReturn, CallInsert, Waiting
  <2>4. QED  BY <1>ind, <2>2, <2>3 DEF MInv
<1>4. CASE \/ \E o \in {"get", "has"}, k \in Keys : CallFind(o, k)
           \/ InsertEnter \/ GrowReturn \/ ReinsertEnter
  <2>1. UNCHANGED table /\ pc' \in {"find", "probe", "re_probe", "re_grow"}
    BY <1>4 DEF CallFind, InsertEnter, GrowReturn, ReinsertEnter
  <2>2. Reachable'
    BY <1>walks, <2>1 DEF Reachable, Occupied, table
  <2>3. Walked'
    <3>1. pc' # "re_grow" => Wanted' \in Keys /\ i' = Home(Wanted', cap)
      <4>1. CASE \E o \in {"get", "has"}, k \in Keys : CallFind(o, k)
        BY <4>1 DEF CallFind, Wanted
      <4>2. CASE InsertEnter
        BY <1>typed, <4>2 DEF InsertEnter, Wanted
      <4>3. CASE GrowReturn
        BY <1>typed, <4>3 DEF GrowReturn, Wanted
      <4>4. CASE ReinsertEnter
        BY <1>typed, <4>4 DEF ReinsertEnter, Wanted, Entry, grow
      <4>5. QED  BY <1>4, <4>1, <4>2, <4>3, <4>4
    <3>2. pc' # "re_grow" => Between(Home(Wanted', cap), i', cap) = {}
      BY <1>typed, <3>1, HomeInTable, BetweenHome
    <3>3. cap' = cap
      BY <2>1 DEF table
    <3>4. QED  BY <2>1, <3>2, <3>3 DEF Walked
  <2>4. OldTable'
    <3>1. CASE GrowReturn
      <4>1. old' = NoSlots /\ Occupied(old') = {} /\ ~ Growing'
        BY <3>1 DEF GrowReturn, Growing, NoSlots, Occupied
      <4>2. QED  BY <4>1 DEF OldTable, Occupied
    <3>2. CASE ~ GrowReturn
      <4>1. UNCHANGED grow /\ (Growing' <=> Growing)
        BY <1>4, <3>2 DEF CallFind, InsertEnter, ReinsertEnter, Growing
      <4>2. QED  BY <1>walks, <2>1, <4>1 DEF OldTable, Occupied, table, grow
    <3>3. QED  BY <3>1, <3>2
  <2>5. Waiting'
    BY <2>1 DEF Waiting
  <2>6. QED  BY <1>ind, <2>2, <2>3, <2>4, <2>5 DEF MInv
<1>5. CASE FindNext \/ InsertNext \/ ReinsertNext
  <2>1. /\ UNCHANGED <<table, pc, req, grow>>
        /\ pc \in {"find", "probe", "re_probe"}
        /\ StepPast(Wanted)
    BY <1>5 DEF FindNext, InsertNext, ReinsertNext, Wanted
  <2>2. Wanted \in Keys
    BY <1>typed, <2>1 DEF Wanted, Entry
  <2>3. \A n \in Between(Home(Wanted, cap), i', cap) : Blocks(slots[n], Wanted)
    BY <1>typed, <1>walks, <2>1, <2>2, StepKeepsWalk DEF Walked
  <2>4. Wanted' = Wanted /\ cap' = cap /\ slots' = slots
    BY <2>1 DEF Wanted, table, grow
  <2>5. Walked'
    BY <2>3, <2>4 DEF Walked
  <2>6. Reachable' /\ OldTable' /\ Waiting'
    BY <1>walks, <2>1 DEF Reachable, OldTable, Waiting, Growing, Occupied, table, grow
  <2>7. QED  BY <1>ind, <2>5, <2>6 DEF MInv
<1>6. CASE GrowEnter
  <2>1. /\ old' = slots /\ gi' = 0 /\ pc = "enter" /\ pc' = "grow"
        /\ slots' = Blank(cap') /\ cap' = 2 * cap
    BY <1>6 DEF GrowEnter, GrownCap
  <2>2. Occupied(slots') = {}
    BY <1>typed, <2>1, BlankTable
  <2>3. \A a, b \in Occupied(slots) : slots[a].key = slots[b].key => a = b
    BY <1>typed, <1>walks, <2>1, KeysDistinct
  <2>4. Reachable' /\ Walked' /\ Waiting'
    BY <2>1, <2>2 DEF Reachable, Walked, Waiting, Occupied
  <2>5. OldTable'
    BY <2>1, <2>2, <2>3 DEF OldTable, Growing, Occupied
  <2>6. QED  BY <1>ind, <2>4, <2>5 DEF MInv
<1>7. CASE InsertWrite
  <2> DEFINE e == [key |-> req.key, val |-> req.val]
  <2>1. /\ pc = "probe" /\ pc' = "idle" /\ req' = NoCall /\ UNCHANGED grow
        /\ Write(e)
    BY <1>7 DEF InsertWrite
  <2>2. e \in Entry /\ e.key = Wanted
    BY <1>typed, <2>1 DEF Entry, Wanted
  <2> HIDE DEF e
  <2>3. \A n \in Between(Home(e.key, cap), i, cap) : Blocks(slots[n], e.key)
    BY <1>walks, <2>1, <2>2 DEF Walked
  <2>4. slots \in [0 .. cap - 1 -> Slot]
    BY <1>typed, <2>1
  <2>5. Reachable'
    BY <1>typed, <1>walks, <2>1, <2>2, <2>3, <2>4, WriteKeepsReachable
  <2>6. Walked' /\ OldTable' /\ Waiting'
    BY <1>walks, <2>1 DEF Walked, OldTable, Waiting, Growing, Occupied, grow
  <2>7. QED  BY <1>ind, <2>5, <2>6 DEF MInv
<1>8. CASE GrowSkip \/ GrowReinsert
  <2>1. /\ UNCHANGED <<table, old>> /\ gi' \in {gi, gi + 1} /\ gi \in Nat
        /\ pc = "grow" /\ pc' \in {"grow", "re_enter"}
    BY <1>8 DEF GrowSkip, GrowReinsert, grow, MInv, IInv, TypeOK
  <2>2. Reachable' /\ Walked' /\ Waiting'
    BY <1>walks, <2>1 DEF Reachable, Walked, Waiting, Occupied, table
  <2>3. OldTable'
    <3>1. \A n \in Occupied(old) : n \in Int
      BY DEF MInv, IInv, TypeOK, Occupied
    <3>2. \A n \in Occupied(old) : n < gi => n < gi'
      BY <2>1, <3>1
    <3>3. QED  BY <1>walks, <2>1, <3>2 DEF OldTable, Growing, Occupied, table
  <2>4. QED  BY <1>ind, <2>2, <2>3 DEF MInv
<1>9. CASE ReinsertWrite
  <2> DEFINE e == old[gi]
  <2>1. /\ pc = "re_probe" /\ pc' = "grow" /\ old' = old /\ gi' = gi + 1
        /\ Write(e)
    BY <1>9 DEF ReinsertWrite
  <2>2. e \in Entry /\ e.key = Wanted /\ gi \in Occupied(old)
    BY <1>typed, <2>1 DEF Wanted
  <2>3. \A n \in Between(Home(e.key, cap), i, cap) : Blocks(slots[n], e.key)
    BY <1>walks, <2>1, <2>2 DEF Walked
  <2>4. slots \in [0 .. cap - 1 -> Slot]
    BY <1>typed, <2>1
  <2>5. Reachable'
    BY <1>typed, <1>walks, <2>1, <2>2, <2>3, <2>4, WriteKeepsReachable
  <2>6. OldTable'
    <3>1. ASSUME NEW j \in Occupied(slots')
          PROVE  \E n \in Occupied(old) : n < gi + 1 /\ old[n] = slots'[j]
      <4>1. slots' = [slots EXCEPT ![i] = e]
        BY <2>1 DEF Write
      <4>2. gi \in Int /\ \A n \in Occupied(old) : n \in Int
        BY DEF MInv, IInv, TypeOK, Occupied
      <4>3. CASE j = i
        <5>1. slots'[j] = old[gi] /\ gi < gi + 1
          BY <1>typed, <2>4, <4>1, <4>2, <4>3
        <5>2. QED  BY <2>2, <5>1
      <4>4. CASE j # i
        <5>1. j \in Occupied(slots) /\ slots'[j] = slots[j]
          BY <2>4, <4>1, <4>4 DEF Occupied
        <5>2. PICK n \in Occupied(old) : n < gi /\ old[n] = slots[j]
          BY <1>walks, <2>1, <5>1 DEF OldTable, Growing
        <5>3. n < gi + 1
          BY <4>2, <5>2
        <5>4. QED  BY <5>1, <5>2, <5>3
      <4>5. QED  BY <4>3, <4>4
    <3>2. QED  BY <1>walks, <2>1, <3>1 DEF OldTable, Growing, Occupied
  <2>7. Walked' /\ Waiting'
    BY <2>1 DEF Walked, Waiting
  <2>8. QED  BY <1>ind, <2>5, <2>6, <2>7 DEF MInv
<1>10. CASE UNCHANGED vars
  BY <1>ind, <1>walks, <1>10 DEF MInv, Reachable, Walked, Wanted, OldTable, Waiting, Growing,
                           Occupied, vars, table, grow
<1>11. QED
  BY <1>1, <1>2, <1>3, <1>4, <1>5, <1>6, <1>7, <1>8, <1>9, <1>10
     DEF Next, Literal, Program, Runtime

LEMMA SpecMInv == Spec => []MInv
BY InitMInv, StepMInv, PTL DEF Spec

(* From its home, every key in the table is found before an empty slot,     *)
(* through any inserts and growths.                                         *)
THEOREM KeysReachable == Spec => []Reachable
<1>1. MInv => Reachable
  BY DEF MInv
<1>2. QED  BY <1>1, SpecMInv, PTL

-----------------------------------------------------------------------------
(* The mapping behind the table. *)

(* Content is this function of the entries held.                            *)
MapOf(H) == [k \in {e.key : e \in H} |-> (CHOOSE e \in H : e.key = k).val]

LEMMA MapAt ==
  ASSUME NEW H, \A e, f \in H : e.key = f.key => e = f, NEW e \in H
  PROVE  e.key \in DOMAIN MapOf(H) /\ MapOf(H)[e.key] = e.val
<1>1. e.key \in DOMAIN MapOf(H)
  BY DEF MapOf
<1>2. (CHOOSE f \in H : f.key = e.key) = e
  OBVIOUS
<1>3. QED  BY <1>1, <1>2 DEF MapOf

(* No key is held twice, not even while a growth moves the entries.         *)
LEMMA HeldDistinct ==
  ASSUME MInv, pc # "sizing"
  PROVE  \A e, f \in Held : e.key = f.key => e = f
<1>1. cap \in Nat \ {0} /\ slots \in [0 .. cap - 1 -> Slot] /\ Reachable
  BY TableTyped DEF MInv
<1>2. ASSUME NEW e \in Live(slots), NEW f \in Live(slots), e.key = f.key
      PROVE  e = f
  <2>1. PICK j \in Occupied(slots), k \in Occupied(slots) : e = slots[j] /\ f = slots[k]
    BY DEF Live, Occupied
  <2>2. QED  BY <1>1, <1>2, <2>1, KeysDistinct
<1>3. ASSUME NEW e \in Pending, NEW f \in Pending, e.key = f.key
      PROVE  e = f
  BY <1>3 DEF Pending, MInv, OldTable, Occupied
<1>4. ASSUME NEW e \in Live(slots), NEW f \in Pending
      PROVE  e.key # f.key
  <2>1. PICK j \in Occupied(slots) : e = slots[j]
    BY DEF Live, Occupied
  <2>2. PICK m \in Occupied(old) : m >= gi /\ f = old[m]
    BY DEF Pending, Occupied
  <2>3. Growing
    BY <2>2 DEF MInv, OldTable, NoSlots, Occupied
  <2>4. PICK n \in Occupied(old) : n < gi /\ old[n] = slots[j]
    BY <2>3 DEF MInv, OldTable
  <2>5. n # m
    BY <2>2, <2>4 DEF MInv, IInv, TypeOK, Occupied
  <2>6. QED  BY <2>1, <2>2, <2>4, <2>5 DEF MInv, OldTable
<1>5. QED  BY <1>2, <1>3, <1>4 DEF Held

(* Outside a growth the table alone holds the entries.                      *)
LEMMA HeldIdle ==
  ASSUME MInv, ~ Growing
  PROVE  Held = {slots[j] : j \in Occupied(slots)}
<1>1. Pending = {}
  BY DEF MInv, OldTable, Pending, NoSlots
<1>2. QED  BY <1>1 DEF Held, Live, Occupied

(* The size word is the number of keys.                                     *)
LEMMA KeysCounted ==
  ASSUME MInv, pc = "idle"
  PROVE  Cardinality(DOMAIN Content) = size
<1> DEFINE S == Occupied(slots)
           T == DOMAIN Content
           f == [j \in S |-> slots[j].key]
<1>1. cap \in Nat \ {0} /\ slots \in [0 .. cap - 1 -> Slot] /\ Reachable
  BY TableTyped DEF MInv
<1>2. T = {slots[j].key : j \in S}
  <2>1. Held = {slots[j] : j \in S}
    BY HeldIdle DEF Growing
  <2>2. QED  BY <2>1 DEF Content
<1>3. f \in Bijection(S, T)
  <2>1. f \in [S -> T] /\ \A t \in T : \E j \in S : f[j] = t
    BY <1>2
  <2>2. \A j, k \in S : f[j] = f[k] => j = k
    BY <1>1, KeysDistinct
  <2>3. QED  BY <2>1, <2>2 DEF Bijection, Injection, Surjection, IsInjective
<1>4. IsFiniteSet(S)
  BY <1>1, OccupiedFinite
<1>5. Cardinality(T) = Cardinality(S)
  BY <1>3, <1>4, FS_Bijection DEF ExistsBijection
<1>6. QED  BY <1>5 DEF MInv, IInv, SizeCounts

(* What a find returns at the end of its walk is the mapping's answer.      *)
LEMMA FindAnswers ==
  ASSUME MInv, pc = "find", ~ Blocks(slots[i], req.key)
  PROVE  IF slots[i] = Empty
         THEN req.key \notin DOMAIN Content
         ELSE req.key \in DOMAIN Content /\ Content[req.key] = slots[i].val
<1>1. /\ cap \in Nat \ {0} /\ i \in 0 .. cap - 1
      /\ slots \in [0 .. cap - 1 -> Slot] /\ Reachable
      /\ req.key \in Keys
  BY TableTyped DEF MInv
<1>2. Held = {slots[j] : j \in Occupied(slots)} /\ Content = MapOf(Held)
  BY HeldIdle DEF Growing, Content, MapOf
<1>3. CASE slots[i] = Empty
  <2>1. \A n \in Between(Home(req.key, cap), i, cap) : Blocks(slots[n], req.key)
    BY DEF MInv, Walked, Wanted
  <2>2. \A j \in Occupied(slots) : slots[j].key # req.key
    BY <1>1, <1>3, <2>1, WalkFindsKey
  <2>3. \A e \in Held : e.key # req.key
    BY <1>2, <2>2
  <2>4. DOMAIN Content = {e.key : e \in Held}
    BY DEF Content
  <2>5. req.key \notin DOMAIN Content
    BY <2>3, <2>4
  <2>6. QED  BY <1>3, <2>5
<1>4. CASE slots[i] # Empty
  <2>1. slots[i].key = req.key
    BY <1>4 DEF Blocks
  <2>2. slots[i] \in Held
    BY <1>1, <1>2, <1>4 DEF Occupied
  <2>3. QED  BY <1>2, <1>4, <2>1, <2>2, HeldDistinct, MapAt
<1>5. QED  BY <1>3, <1>4

(* do_insert and do_overwrite: the entry replaces the one of its key.       *)
LEMMA WritePuts ==
  ASSUME MInv, MInv', InsertWrite
  PROVE  Content' = Python!Put(Content, req.key, req.val)
<1> DEFINE k == req.key
           e == [key |-> k, val |-> req.val]
           H == {slots[j] : j \in Occupied(slots)}
           G == {slots'[j] : j \in Occupied(slots')}
<1>1. /\ pc = "probe" /\ pc' = "idle" /\ Write(e)
  BY DEF InsertWrite
<1>2. /\ cap \in Nat \ {0} /\ i \in 0 .. cap - 1
      /\ slots \in [0 .. cap - 1 -> Slot]
  BY <1>1, TableTyped DEF MInv
<1>3. /\ slots' = [slots EXCEPT ![i] = e]
      /\ ~ Blocks(slots[i], k)
  BY <1>1 DEF Write
<1>4. Held = H /\ \A x, y \in H : x.key = y.key => x = y
  BY <1>1, HeldIdle, HeldDistinct DEF Growing
<1>5. Held' = G /\ \A x, y \in G : x.key = y.key => x = y
  <2>1. Held' = G
    <3>1. Pending' = {}
      BY <1>1 DEF MInv, OldTable, Pending, NoSlots, Growing
    <3>2. QED  BY <3>1 DEF Held, Live, Occupied
  <2>2. /\ cap' \in Nat \ {0} /\ slots' \in [0 .. cap' - 1 -> Slot] /\ Reachable'
    BY <1>1 DEF MInv, IInv, TypeOK
  <2>3. ASSUME NEW j \in Occupied(slots'), NEW n \in Occupied(slots'),
               slots'[j].key = slots'[n].key
        PROVE  j = n
    <3>1. /\ j \in 0 .. cap' - 1 /\ n \in 0 .. cap' - 1
          /\ slots'[j] \in Entry
      BY <2>2 DEF Occupied, Slot
    <3>2. Home(slots'[j].key, cap') \in 0 .. cap' - 1
      BY <2>2, <3>1, HomeInTable DEF Entry
    <3>3. n \notin Between(Home(slots'[j].key, cap'), j, cap')
      BY <2>2, <2>3 DEF Reachable, Blocks
    <3>4. j \notin Between(Home(slots'[j].key, cap'), n, cap')
      BY <2>2, <2>3 DEF Reachable, Blocks
    <3>5. QED  BY <2>2, <3>1, <3>2, <3>3, <3>4, BetweenLinear
  <2>4. QED  BY <2>1, <2>3
<1>6. e # Empty /\ e.key = k /\ e.val = req.val
  <2>1. k \in Keys /\ req.val \in Vals
    BY <1>1, TableTyped DEF MInv
  <2>2. e \in Entry
    BY <2>1 DEF Entry
  <2>3. QED  BY <2>2, EmptyAssumption
<1> HIDE DEF e
<1>7. /\ e \in G
      /\ \A x \in G : x = e \/ x \in H
      /\ \A x \in H : x \in G \/ x.key = k
  <2>1. /\ DOMAIN slots' = 0 .. cap - 1 /\ DOMAIN slots = 0 .. cap - 1
        /\ slots'[i] = e /\ \A j \in 0 .. cap - 1 : j # i => slots'[j] = slots[j]
    BY <1>2, <1>3
  <2>2. e \in G
    BY <1>2, <1>6, <2>1 DEF Occupied
  <2>3. \A x \in G : x = e \/ x \in H
    BY <2>1 DEF Occupied
  <2>4. \A j \in Occupied(slots) : j # i => j \in Occupied(slots') /\ slots'[j] = slots[j]
    BY <2>1 DEF Occupied
  <2>5. i \in Occupied(slots) => slots[i].key = k
    BY <1>3 DEF Occupied, Blocks
  <2>6. QED  BY <2>2, <2>3, <2>4, <2>5
<1> HIDE DEF H, G
<1>8. Content = MapOf(H) /\ Content' = MapOf(G)
  BY <1>4, <1>5 DEF Content, MapOf
<1>keys. DOMAIN MapOf(G) = {x.key : x \in G} /\ DOMAIN MapOf(H) = {x.key : x \in H}
  BY DEF MapOf
<1>9. DOMAIN MapOf(G) = DOMAIN MapOf(H) \cup {k}
  <2>1. \A x \in G : x.key \in {y.key : y \in H} \cup {k}
    BY <1>6, <1>7
  <2>2. \A x \in H : x.key \in {y.key : y \in G}
    BY <1>6, <1>7
  <2>3. k \in {y.key : y \in G}
    BY <1>6, <1>7
  <2>4. QED  BY <1>keys, <2>1, <2>2, <2>3
<1>10. ASSUME NEW x \in DOMAIN MapOf(G)
       PROVE  MapOf(G)[x] = IF x = k THEN req.val ELSE MapOf(H)[x]
  <2>1. PICK y \in G : y.key = x
    BY <1>keys
  <2>2. MapOf(G)[x] = y.val
    BY <1>5, <2>1, MapAt
  <2>3. CASE x = k
    BY <1>5, <1>6, <1>7, <2>1, <2>2, <2>3
  <2>4. CASE x # k
    <3>1. y \in H
      BY <1>6, <1>7, <2>1, <2>4
    <3>2. QED  BY <1>4, <2>1, <2>2, <2>4, <3>1, MapAt
  <2>5. QED  BY <2>3, <2>4
<1>11. MapOf(G) = [x \in DOMAIN MapOf(G) |-> MapOf(G)[x]]
  BY DEF MapOf
<1>12. QED  BY <1>8, <1>9, <1>10, <1>11 DEF Python!Put

(* The entries held before and after a step.                                *)
LEMMA ContentKept ==
  ASSUME Held' = Held
  PROVE  Content' = Content
BY DEF Content

LEMMA QuietKeepsContent ==
  ASSUME MInv, UNCHANGED <<slots, grow>>
  PROVE  Content' = Content
<1>1. Held' = Held
  BY DEF Held, Live, Pending, grow
<1>2. QED  BY <1>1, ContentKept

(* A growth holds the same entries throughout.                              *)
LEMMA GrowthKeepsContent ==
  ASSUME MInv, MInv',
         \/ AllocLiteral \/ GrowEnter \/ GrowSkip \/ GrowReinsert
         \/ GrowReturn \/ ReinsertWrite
  PROVE  Content' = Content
<1> SUFFICES Held' = Held
  BY ContentKept
<1>0. gi \in Nat /\ \A n \in DOMAIN old : n \in Int
  BY DEF MInv, IInv, TypeOK
<1>1. CASE AllocLiteral
  <2>1. old = NoSlots /\ old' = old /\ gi' = gi /\ DOMAIN slots = {}
    BY <1>1, TableTyped DEF AllocLiteral, MInv, OldTable, Growing, grow
  <2>2. Live(slots) = {} /\ Pending = {} /\ Pending' = {}
    BY <2>1 DEF Live, Pending, NoSlots
  <2>3. Live(slots') = {}
    BY <1>1 DEF AllocLiteral, Live, Blank
  <2>4. QED  BY <2>2, <2>3 DEF Held
<1>2. CASE GrowEnter
  <2>1. /\ old = NoSlots /\ old' = slots /\ gi' = 0 /\ slots' = Blank(cap')
        /\ slots \in [0 .. cap - 1 -> Slot] /\ cap \in Nat
    BY <1>2, TableTyped DEF GrowEnter, MInv, OldTable, Growing
  <2>2. Pending = {} /\ Live(slots') = {}
    BY <2>1 DEF Live, Pending, NoSlots, Blank
  <2>3. Pending' = Live(slots)
    BY <2>1 DEF Pending, Live
  <2>4. QED  BY <2>2, <2>3 DEF Held
<1>3. CASE GrowSkip
  <2>1. /\ slots' = slots /\ old' = old /\ gi' = gi + 1 /\ old[gi] = Empty
    BY <1>3 DEF GrowSkip, table
  <2>2. \A n \in DOMAIN old : old[n] # Empty => (n >= gi <=> n >= gi + 1)
    BY <1>0, <2>1
  <2>3. Pending' = Pending
    BY <2>1, <2>2 DEF Pending
  <2>4. QED  BY <2>1, <2>3 DEF Held
<1>4. CASE GrowReinsert
  BY <1>4 DEF GrowReinsert, Held, Live, Pending, table, grow
<1>5. CASE GrowReturn
  <2>1. slots' = slots /\ old' = NoSlots /\ gi \notin DOMAIN old
    BY <1>5 DEF GrowReturn, table
  <2>2. \A n \in DOMAIN old : n < gi
    <3>1. PICK n \in 0 .. cap : old \in [0 .. n - 1 -> Slot] /\ gi \in 0 .. n
      BY <1>5 DEF GrowReturn, MInv, IInv, GrowShape, Growing
    <3>2. cap \in Nat
      BY DEF MInv, IInv, TypeOK
    <3>3. gi = n
      BY <2>1, <3>1, <3>2
    <3>4. QED  BY <3>1, <3>2, <3>3
  <2>3. Pending = {} /\ Pending' = {}
    BY <1>0, <2>1, <2>2 DEF Pending, NoSlots
  <2>4. QED  BY <2>1, <2>3 DEF Held
<1>6. CASE ReinsertWrite
  <2> DEFINE e == old[gi]
  <2>1. /\ pc = "re_probe" /\ old' = old /\ gi' = gi + 1
        /\ slots' = [slots EXCEPT ![i] = e]
        /\ ~ Blocks(slots[i], e.key)
    BY <1>6 DEF ReinsertWrite, Write
  <2>2. /\ cap \in Nat \ {0} /\ i \in 0 .. cap - 1
        /\ slots \in [0 .. cap - 1 -> Slot]
        /\ gi \in Occupied(old) /\ e # Empty
    BY <2>1, TableTyped, EmptyAssumption DEF MInv
  <2>3. slots[i] = Empty
    <3>1. SUFFICES ASSUME slots[i] # Empty PROVE FALSE
      OBVIOUS
    <3>2. slots[i].key = e.key /\ i \in Occupied(slots)
      BY <2>1, <2>2, <3>1 DEF Blocks, Occupied
    <3>3. PICK n \in Occupied(old) : n < gi /\ old[n] = slots[i]
      BY <2>1, <3>2 DEF MInv, OldTable, Growing
    <3>4. n = gi
      BY <2>2, <3>2, <3>3 DEF MInv, OldTable
    <3>5. QED  BY <1>0, <3>3, <3>4
  <2>4. Live(slots') = Live(slots) \cup {e}
    <3>1. /\ DOMAIN slots' = 0 .. cap - 1 /\ DOMAIN slots = 0 .. cap - 1
          /\ slots'[i] = e /\ \A j \in 0 .. cap - 1 : j # i => slots'[j] = slots[j]
      BY <2>1, <2>2
    <3>2. QED  BY <2>2, <2>3, <3>1 DEF Live
  <2>5. Pending = Pending' \cup {e}
    <3>1. \A n \in DOMAIN old : n >= gi <=> n >= gi + 1 \/ n = gi
      BY <1>0
    <3>2. gi \in DOMAIN old
      BY <2>2 DEF Occupied
    <3>3. QED  BY <1>0, <2>1, <2>2, <3>1, <3>2 DEF Pending
  <2>6. QED  BY <2>4, <2>5 DEF Held
<1>7. QED  BY <1>1, <1>2, <1>3, <1>4, <1>5, <1>6

-----------------------------------------------------------------------------
(* The refinement. *)

LEMMA InitRefines == Init => Python!PyInit
<1> SUFFICES ASSUME Init PROVE Python!PyInit
  OBVIOUS
<1>1. Held = {}
  BY DEF Init, Held, Live, Pending, NoSlots
<1>2. Content = [k \in {} |-> 0]
  BY <1>1 DEF Content
<1>3. QED  BY <1>2 DEF Init, Python!PyInit, NoCall, Python!NoCall

LEMMA StepRefines ==
  MInv /\ MInv' /\ [Next]_vars => [Python!PyNext]_(Python!pyVars)
<1> SUFFICES ASSUME MInv, MInv', [Next]_vars
             PROVE  Python!PyNext \/ UNCHANGED Python!pyVars
  OBVIOUS
<1>1. Python!NoCall = NoCall /\ Python!Call = Call
  BY DEF NoCall, Python!NoCall, Call, Python!Call
<1>2. pc = "idle" => req = NoCall
  BY DEF MInv, Waiting
<1>3. CASE InsertEntry \/ (\E k \in Keys, v \in Vals : CallInsert(k, v))
             \/ (\E o \in {"get", "has"}, k \in Keys : CallFind(o, k))
  <2>1. pc = "idle" /\ UNCHANGED <<slots, grow, res>>
    BY <1>3 DEF InsertEntry, CallInsert, CallFind, table
  <2>2. req' \in Call
    <3>1. CASE InsertEntry
      <4>1. Head(todo) \in Entry
        BY <3>1 DEF InsertEntry, MInv, IInv, TypeOK
      <4>2. QED  BY <3>1, <4>1 DEF InsertEntry, Entry, Call
    <3>2. CASE ~ InsertEntry
      BY <1>3, <3>2 DEF CallInsert, CallFind, Call
    <3>3. QED  BY <3>1, <3>2
  <2>3. Content' = Content
    BY <2>1, QuietKeepsContent
  <2>4. Python!Begin(req')
    BY <1>1, <1>2, <2>1, <2>3 DEF Python!Begin
  <2>5. QED  BY <1>1, <2>2, <2>4 DEF Python!PyNext
<1>4. CASE CallLen
  <2>1. /\ pc = "idle" /\ UNCHANGED <<slots, grow, req>> /\ res' = size
    BY <1>4 DEF CallLen, table
  <2>2. Content' = Content /\ res' = Cardinality(DOMAIN Content)
    BY <2>1, QuietKeepsContent, KeysCounted
  <2>3. Python!Cardinality(DOMAIN Content) = Cardinality(DOMAIN Content)
    BY DEF Cardinality, Python!Cardinality
  <2>4. QED  BY <1>1, <1>2, <2>1, <2>2, <2>3 DEF Python!PyNext, Python!Length
<1>5. CASE FindReturn
  <2>1. /\ pc = "find" /\ UNCHANGED <<slots, grow>> /\ req' = NoCall
        /\ ~ Blocks(slots[i], req.key)
        /\ res' = IF slots[i] = Empty THEN 0
                  ELSE IF req.op = "get" THEN slots[i].val ELSE 1
    BY <1>5 DEF FindReturn, table
  <2>2. Content' = Content
    BY <2>1, QuietKeepsContent
  <2>3. req.op \in {"get", "has"}
    BY <2>1 DEF MInv, IInv, ReqShape
  <2>4. res' = IF req.op = "get" THEN Python!Get(Content, req.key)
               ELSE Python!Has(Content, req.key)
    BY <2>1, <2>3, FindAnswers DEF Python!Get, Python!Has
  <2>5. QED  BY <1>1, <2>1, <2>2, <2>3, <2>4 DEF Python!PyNext, Python!Find
<1>6. CASE InsertWrite
  <2>1. pc = "probe" /\ req' = NoCall /\ res' = res
    BY <1>6 DEF InsertWrite
  <2>2. req.op = "insert"
    BY <2>1 DEF MInv, IInv, ReqShape
  <2>3. QED  BY <1>1, <1>6, <2>1, <2>2, WritePuts DEF Python!PyNext, Python!Insert
<1>7. CASE AllocLiteral \/ GrowEnter \/ GrowSkip \/ GrowReinsert \/ GrowReturn
             \/ ReinsertWrite
  <2>1. UNCHANGED <<req, res>>
    BY <1>7 DEF AllocLiteral, GrowEnter, GrowSkip, GrowReinsert, GrowReturn, ReinsertWrite
  <2>2. QED  BY <1>7, <2>1, GrowthKeepsContent DEF Python!pyVars
<1>8. CASE WidenLiteral \/ FindNext \/ InsertEnter \/ InsertNext \/ ReinsertEnter
             \/ ReinsertNext \/ UNCHANGED vars
  <2>1. UNCHANGED <<slots, grow, req, res>>
    BY <1>8 DEF WidenLiteral, FindNext, InsertEnter, InsertNext, ReinsertEnter,
                ReinsertNext, vars, table
  <2>2. QED  BY <2>1, QuietKeepsContent DEF Python!pyVars
<1>9. QED
  BY <1>3, <1>4, <1>5, <1>6, <1>7, <1>8 DEF Next, Literal, Program, Runtime

(* The table implements Python's mapping: what a find or len returns, after *)
(* any inserts, overwrites and growths, is what the mapping holds.          *)
THEOREM TableIsMapping == Spec => ImplementsPyDict
<1>1. Spec => [][Next]_vars
  BY PTL DEF Spec
<1>2. QED
  BY <1>1, InitRefines, StepRefines, SpecMInv, PTL
     DEF Spec, ImplementsPyDict, Python!PySpec
=============================================================================
