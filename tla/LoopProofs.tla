----------------------------- MODULE LoopProofs -----------------------------
(***************************************************************************)
(* Whatever bodies are lowered, nested and gathered however: every slot    *)
(* keeps the type of its name, and the index a loop reads its list with    *)
(* lies inside the list.                                                   *)
(*                                                                         *)
(* The proof follows the compiler: the nesting of a text, from the         *)
(* recursion that defines it; the instructions of each token, place by     *)
(* place; where every branch lands, so that the flow of control is known;  *)
(* which names are known at each place, being made on every way to it; and *)
(* that every instruction has its types and reads only what is known.      *)
(*                                                                         *)
(* Then what the proof that the loops follow Python's begins with: what    *)
(* Python sees at a place (PlaceAt, ShownIn, ItersAt), the invariant of    *)
(* the refinement (FollowInv), and where Follows keeps names apart: the    *)
(* helpers of loops under way from each other and from the names of the    *)
(* program, and what a step stores from what the loops around it read.     *)
(***************************************************************************)
EXTENDS LoopLowering, FiniteSetTheorems, WellFoundedInduction, TLAPS

-----------------------------------------------------------------------------
(* Induction over the naturals. *)

(* The order of the naturals, as a set of pairs.                           *)
Below == {ij \in Nat \X Nat : ij[1] < ij[2]}

(* A set of naturals has a least element. *)
LEMMA Least ==
  ASSUME NEW T, T \subseteq Nat, T # {}
  PROVE  \E x \in T : \A y \in T : x <= y
<1>1. IsWellFoundedOn(Below, Nat)
  <2>1. OpToRel(<, Nat) = Below
    BY DEF OpToRel, Below
  <2> QED BY <2>1, NatLessThanWellFounded
<1>2. PICK x \in T : \A y \in T : ~ (<<y, x>> \in Below)
  BY <1>1, WFMin
<1>3. ASSUME NEW y \in T PROVE x <= y
  <2>1. x \in Nat /\ y \in Nat
    OBVIOUS
  <2>2. y < x => <<y, x>> \in Below
    BY <2>1 DEF Below
  <2> QED BY <1>2, <2>1, <2>2
<1> QED BY <1>3

(* What holds of 0 and passes on to the next number holds of every number. *)
LEMMA UpTo ==
  ASSUME NEW S, 0 \in S, \A n \in Nat : n \in S => n + 1 \in S
  PROVE  Nat \subseteq S
<1> SUFFICES ASSUME Nat \ S # {} PROVE FALSE
  OBVIOUS
<1>1. PICK n \in Nat \ S : \A y \in Nat \ S : n <= y
  BY Least
<1>2. n # 0 /\ n - 1 \in Nat /\ n - 1 \notin Nat \ S
  BY <1>1
<1> QED BY <1>1, <1>2

-----------------------------------------------------------------------------
(* The nesting of a text. *)

(* The constructs around each place are those its tokens make. *)
LEMMA NestingIs ==
  ASSUME NEW p, Len(p) \in Nat
  PROVE  /\ Nesting(p)[0] = {}
         /\ \A k \in 1 .. Len(p) :
              LET before == Nesting(p)[k - 1]
              IN  Nesting(p)[k] =
                    CASE p[k].op \in Opens  -> before \cup {k}
                      [] p[k].op \in Closes -> before \ {p[k].of}
                      [] OTHER              -> before
<1> DEFINE n         == Len(p)
           Step(b, k) == CASE p[k].op \in Opens  -> b \cup {k}
                           [] p[k].op \in Closes -> b \ {p[k].of}
                           [] OTHER              -> b
           Rec(q)    == [k \in 0 .. n |-> IF k = 0 THEN {} ELSE Step(q[k - 1], k)]
           sol       == CHOOSE q : q = Rec(q)
           Sol(q, m) == /\ DOMAIN q = 0 .. n
                        /\ q = [k \in 0 .. n |-> q[k]]
                        /\ q[0] = {}
                        /\ \A k \in 1 .. m : q[k] = Step(q[k - 1], k)
           T         == {m \in Nat : m <= n => \E q : Sol(q, m)}
<1>1. Nesting(p) = sol
  BY DEF Nesting
<1> HIDE DEF Step
<1>2. 0 \in T
  <2>1. Sol([k \in 0 .. n |-> {}], 0)
    OBVIOUS
  <2> QED BY <2>1
<1>3. ASSUME NEW m \in Nat, m \in T PROVE m + 1 \in T
  <2> SUFFICES ASSUME m + 1 <= n PROVE \E q : Sol(q, m + 1)
    OBVIOUS
  <2>1. PICK q : Sol(q, m)
    BY <1>3
  <2> DEFINE r == [k \in 0 .. n |-> IF k = m + 1 THEN Step(q[m], m + 1) ELSE q[k]]
  <2>2. r[0] = {}
    BY <2>1
  <2>3. ASSUME NEW k \in 1 .. m + 1 PROVE r[k] = Step(r[k - 1], k)
    <3>1. k - 1 \in 0 .. n /\ k - 1 # m + 1 /\ k \in 0 .. n
      OBVIOUS
    <3>2. r[k - 1] = q[k - 1]
      BY <3>1
    <3>3. CASE k = m + 1
      BY <3>1, <3>2, <3>3
    <3>4. CASE k # m + 1
      <4>1. k \in 1 .. m /\ r[k] = q[k]
        BY <3>1, <3>4
      <4>2. q[k] = Step(q[k - 1], k)
        BY <4>1, <2>1
      <4> QED BY <4>1, <4>2, <3>2
    <3> QED BY <3>3, <3>4
  <2>4. Sol(r, m + 1)
    BY <2>2, <2>3
  <2> QED BY <2>4
<1>4. \E q : Sol(q, n)
  <2>1. Nat \subseteq T
    <3> HIDE DEF T
    <3> QED BY <1>2, <1>3, UpTo
  <2>2. n \in Nat /\ n <= n
    OBVIOUS
  <2>3. n \in T
    <3> HIDE DEF T, n
    <3> QED BY ONLY <2>1, <2>2
  <2>4. n <= n => \E q : Sol(q, n)
    <3> HIDE DEF Sol
    <3> QED BY ONLY <2>3
  <2> HIDE DEF Sol, n
  <2> QED BY ONLY <2>2, <2>4
<1>5. \E q : q = Rec(q)
  <2>1. PICK q : Sol(q, n)
    BY <1>4
  <2> DEFINE S(k) == IF k = 0 THEN {} ELSE Step(q[k - 1], k)
  <2>2. \A k \in 0 .. n : q[k] = S(k)
    <3> SUFFICES ASSUME NEW k \in 0 .. n PROVE q[k] = S(k)
      OBVIOUS
    <3>1. CASE k = 0
      BY <2>1, <3>1
    <3>2. CASE k # 0
      <4>1. k \in 1 .. n
        BY <3>2
      <4> QED BY <2>1, <3>2, <4>1
    <3> QED BY <3>1, <3>2
  <2>3. q = [k \in 0 .. n |-> S(k)]
    <3> HIDE DEF S
    <3> QED BY <2>1, <2>2
  <2> QED BY <2>3
<1>6. sol = Rec(sol)
  <2> HIDE DEF Rec
  <2> QED BY <1>5
<1> HIDE DEF sol
<1>7. sol[0] = {}
  BY <1>6
<1>8. ASSUME NEW k \in 1 .. n PROVE sol[k] = Step(sol[k - 1], k)
  <2>1. k \in 0 .. n /\ k # 0
    OBVIOUS
  <2> DEFINE S(j) == IF j = 0 THEN {} ELSE Step(sol[j - 1], j)
  <2>2. sol = [j \in 0 .. n |-> S(j)]
    BY <1>6
  <2>3. sol[k] = S(k)
    <3> HIDE DEF S
    <3> QED BY <2>1, <2>2
  <2> QED BY <2>1, <2>3
<1> QED BY <1>1, <1>7, <1>8 DEF Step

(* Bodies. *)
LEMMA BodyIs ==
  ASSUME NEW p, IsBody(p)
  PROVE  /\ Len(p) \in Nat /\ DOMAIN p = 1 .. Len(p)
         /\ \A k \in 1 .. Len(p) : Typed(p, k) /\ Fits(p, k) /\ Uses(p[k]) \subseteq Bound(p, k)
         /\ Around(p, Len(p) + 1) = {}
<1>1. p \in Seq(ToSet(p)) /\ WellNested(p)
      /\ \A k \in DOMAIN p : Typed(p, k) /\ Uses(p[k]) \subseteq Bound(p, k)
  BY DEF IsBody
<1>2. Len(p) \in Nat /\ DOMAIN p = 1 .. Len(p)
  <2> HIDE DEF ToSet
  <2>1. \A S : p \in Seq(S) => Len(p) \in Nat /\ DOMAIN p = 1 .. Len(p)
    OBVIOUS
  <2> QED BY <1>1, <2>1
<1>3. Len(p) + 1 - 1 = Len(p)
  BY <1>2
<1> QED BY <1>1, <1>2, <1>3 DEF WellNested, Around

(* One token further. *)
LEMMA AroundIs ==
  ASSUME NEW p, IsBody(p)
  PROVE  /\ Around(p, 1) = {}
         /\ \A k \in 1 .. Len(p) :
              /\ p[k].op \in Opens => Around(p, k + 1) = Around(p, k) \cup {k}
              /\ p[k].op \in Closes => Around(p, k + 1) = Around(p, k) \ {p[k].of}
              /\ p[k].op \notin Opens \cup Closes => Around(p, k + 1) = Around(p, k)
<1>1. Len(p) \in Nat
  BY BodyIs
<1>2. Opens \cap Closes = {}
  BY DEF Opens, Closes
<1>3. 1 - 1 = 0 /\ \A k \in 1 .. Len(p) : k + 1 - 1 = k
  BY <1>1
<1>4. Around(p, 1) = {}
  BY <1>1, <1>3, NestingIs DEF Around
<1>5. ASSUME NEW k \in 1 .. Len(p)
      PROVE  /\ p[k].op \in Opens => Around(p, k + 1) = Around(p, k) \cup {k}
             /\ p[k].op \in Closes => Around(p, k + 1) = Around(p, k) \ {p[k].of}
             /\ p[k].op \notin Opens \cup Closes => Around(p, k + 1) = Around(p, k)
  <2>1. Around(p, k + 1) = Nesting(p)[k] /\ Around(p, k) = Nesting(p)[k - 1]
    BY <1>3 DEF Around
  <2>2. p[k].op \in Closes => p[k].op \notin Opens
    BY <1>2
  <2> QED BY <1>1, <2>1, <2>2, NestingIs
<1> QED BY <1>4, <1>5

(* What is around a token opened before it. *)
LEMMA AroundOf ==
  ASSUME NEW p, IsBody(p), NEW k \in 1 .. Len(p) + 1
  PROVE  /\ Around(p, k) \subseteq 1 .. k - 1 /\ Around(p, k) \subseteq 1 .. Len(p)
         /\ \A j \in Around(p, k) : p[j].op \in Opens
<1> DEFINE OK(i) == Around(p, i) \subseteq 1 .. i - 1 /\ \A j \in Around(p, i) : p[j].op \in Opens
           S == {n \in Nat : n + 1 <= Len(p) + 1 => OK(n + 1)}
<1>0. Len(p) \in Nat
  BY BodyIs
<1>1. 0 \in S
  <2>1. OK(0 + 1)
    BY AroundIs
  <2> QED BY <2>1
<1>2. ASSUME NEW n \in Nat, n \in S PROVE n + 1 \in S
  <2> SUFFICES ASSUME n + 1 + 1 <= Len(p) + 1 PROVE OK(n + 1 + 1)
    OBVIOUS
  <2> DEFINE i == n + 1
  <2>1. i \in 1 .. Len(p)
    BY <1>0
  <2>2. OK(i)
    BY <1>2, <2>1
  <2>3. \/ Around(p, i + 1) = Around(p, i) \cup {i} /\ p[i].op \in Opens
        \/ Around(p, i + 1) \subseteq Around(p, i)
    BY <2>1, AroundIs
  <2> HIDE DEF i
  <2>4. 1 .. i - 1 \subseteq 1 .. i + 1 - 1 /\ i \in 1 .. i + 1 - 1
    BY <2>1
  <2>5. OK(i + 1)
    BY <2>2, <2>3, <2>4
  <2> QED BY <2>5 DEF i
<1>3. Nat \subseteq S
  <2> HIDE DEF S
  <2> QED BY <1>1, <1>2, UpTo
<1>4. k - 1 \in Nat /\ k - 1 + 1 = k /\ k - 1 + 1 <= Len(p) + 1
  BY <1>0
<1>5. k - 1 \in S
  BY <1>3, <1>4
<1>6. OK(k)
  BY <1>4, <1>5
<1> QED BY <1>0, <1>6

(* The token that closes a construct. *)
End(p, k) == CHOOSE j \in 1 .. Len(p) : p[j].op \in Closes /\ p[j].of = k

(* What closes belongs to what it closes. *)
LEMMA ClosesIs ==
  ASSUME NEW p, IsBody(p), NEW c \in 1 .. Len(p), p[c].op \in Closes
  PROVE  Belongs(p, c)
<1>1. Fits(p, c)
  BY BodyIs
<1>2. /\ p[c].op = "end" \/ p[c].op = "yield" \/ p[c].op = "result"
      /\ ~ Each(p[c])
  BY DEF Closes, Each
<1> QED BY <1>1, <1>2 DEF Fits

(* A construct is around the tokens after the one that opens it, up to the  *)
(* one that closes it, and a single token does.                             *)
LEMMA EndIs ==
  ASSUME NEW p, IsBody(p), NEW k \in 1 .. Len(p), p[k].op \in Opens
  PROVE  /\ End(p, k) \in k + 1 .. Len(p)
         /\ p[End(p, k)].op \in Closes /\ p[End(p, k)].of = k
         /\ \A j \in 1 .. Len(p) + 1 : k \in Around(p, j) <=> (k < j /\ j <= End(p, k))
         /\ \A d \in 1 .. Len(p) : p[d].op \in Closes /\ p[d].of = k => d = End(p, k)
<1> DEFINE n == Len(p)
           In(j) == k \in Around(p, j)
           Shuts(j) == p[j].op \in Closes /\ p[j].of = k
<1>0. n \in Nat /\ k \in Nat
  BY BodyIs
<1>1. In(k + 1)
  <2>1. Around(p, k + 1) = Around(p, k) \cup {k}
    BY AroundIs
  <2> QED BY <2>1
<1>2. \A j \in 1 .. n : ~ Shuts(j) /\ In(j) => In(j + 1)
  <2> SUFFICES ASSUME NEW j \in 1 .. n, ~ Shuts(j), In(j) PROVE In(j + 1)
    OBVIOUS
  <2>1. CASE p[j].op \in Closes
    BY <2>1, AroundIs
  <2>2. CASE p[j].op \notin Closes
    BY <2>2, AroundIs
  <2> QED BY <2>1, <2>2
<1>3. \A j \in 1 .. n : Shuts(j) => In(j) /\ ~ In(j + 1)
  <2> SUFFICES ASSUME NEW j \in 1 .. n, Shuts(j) PROVE In(j) /\ ~ In(j + 1)
    OBVIOUS
  <2>1. In(j)
    BY ClosesIs DEF Belongs, Innermost
  <2> QED BY <2>1, AroundIs
<1>4. \A j \in 1 .. n : j # k /\ ~ In(j) => ~ In(j + 1)
  <2> SUFFICES ASSUME NEW j \in 1 .. n, j # k, ~ In(j) PROVE ~ In(j + 1)
    OBVIOUS
  <2>1. Around(p, j + 1) \subseteq Around(p, j) \cup {j}
    BY AroundIs
  <2> QED BY <2>1
<1>5. \A j \in 1 .. n + 1 : In(j) => k < j
  <2> SUFFICES ASSUME NEW j \in 1 .. n + 1, In(j) PROVE k < j
    OBVIOUS
  <2>1. k \in 1 .. j - 1
    BY AroundOf
  <2> QED BY <1>0, <2>1
<1>6. ~ In(n + 1)
  BY BodyIs
<1> HIDE DEF In, Shuts
<1> DEFINE D == {j \in k + 1 .. n : Shuts(j)}
<1>7. ASSUME NEW m \in k + 1 .. n + 1, \A j \in k + 1 .. m - 1 : ~ Shuts(j) PROVE In(m)
  <2> DEFINE S == {i \in Nat : k + 1 + i <= m => In(k + 1 + i)}
  <2>1. 0 \in S
    BY <1>0, <1>1
  <2>2. ASSUME NEW i \in Nat, i \in S PROVE i + 1 \in S
    <3> SUFFICES ASSUME k + 1 + (i + 1) <= m PROVE In(k + 1 + (i + 1))
      OBVIOUS
    <3>1. k + 1 + i \in k + 1 .. m - 1 /\ k + 1 + i \in 1 .. n /\ k + 1 + i <= m
          /\ k + 1 + (i + 1) = (k + 1 + i) + 1
      BY <1>0
    <3> QED BY <1>2, <1>7, <2>2, <3>1
  <2>3. Nat \subseteq S
    <3> HIDE DEF S
    <3> QED BY <2>1, <2>2, UpTo
  <2>4. m - (k + 1) \in Nat /\ k + 1 + (m - (k + 1)) = m
    BY <1>0
  <2>5. k + 1 + (m - (k + 1)) <= m => In(k + 1 + (m - (k + 1)))
    BY <2>3, <2>4
  <2>6. m <= m
    BY <1>0
  <2> QED BY <2>4, <2>5, <2>6
<1>8. D # {}
  <2> SUFFICES ASSUME D = {} PROVE FALSE
    OBVIOUS
  <2>1. n + 1 \in k + 1 .. n + 1 /\ n + 1 - 1 = n
    BY <1>0
  <2>2. In(n + 1)
    BY <1>7, <2>1
  <2> QED BY <1>6, <2>2
<1>9. PICK c \in D : \A d \in D : c <= d
  <2>1. D \subseteq Nat
    BY <1>0
  <2> HIDE DEF D
  <2> QED BY <1>8, <2>1, Least
<1>10. \A j \in k + 1 .. c : In(j)
  <2> SUFFICES ASSUME NEW j \in k + 1 .. c PROVE In(j)
    OBVIOUS
  <2>1. j \in k + 1 .. n + 1 /\ \A i \in k + 1 .. j - 1 : i \in k + 1 .. n /\ ~ c <= i
    BY <1>0, <1>9
  <2> QED BY <1>7, <1>9, <2>1
<1>11. \A j \in c + 1 .. n + 1 : ~ In(j)
  <2> SUFFICES ASSUME NEW m \in c + 1 .. n + 1 PROVE ~ In(m)
    OBVIOUS
  <2> DEFINE S == {i \in Nat : c + 1 + i <= m => ~ In(c + 1 + i)}
  <2>1. 0 \in S
    BY <1>0, <1>3, <1>9
  <2>2. ASSUME NEW i \in Nat, i \in S PROVE i + 1 \in S
    <3> SUFFICES ASSUME c + 1 + (i + 1) <= m PROVE ~ In(c + 1 + (i + 1))
      OBVIOUS
    <3>1. c + 1 + i \in 1 .. n /\ c + 1 + i # k /\ c + 1 + i <= m
          /\ c + 1 + (i + 1) = (c + 1 + i) + 1
      BY <1>0, <1>9
    <3> QED BY <1>4, <2>2, <3>1
  <2>3. Nat \subseteq S
    <3> HIDE DEF S
    <3> QED BY <2>1, <2>2, UpTo
  <2>4. m - (c + 1) \in Nat /\ c + 1 + (m - (c + 1)) = m
    BY <1>0, <1>9
  <2>5. m - (c + 1) \in S
    BY <2>3, <2>4
  <2>6. m <= m
    BY <1>0, <1>9
  <2> QED BY <2>4, <2>5, <2>6
<1>12. \A j \in 1 .. n + 1 : In(j) <=> (k < j /\ j <= c)
  <2> SUFFICES ASSUME NEW j \in 1 .. n + 1 PROVE In(j) <=> (k < j /\ j <= c)
    OBVIOUS
  <2>1. CASE j <= k
    BY <1>0, <1>5, <2>1
  <2>2. CASE k < j /\ j <= c
    BY <1>0, <1>9, <1>10, <2>2
  <2>3. CASE c < j
    <3>1. j \in c + 1 .. n + 1
      BY <1>0, <1>9, <2>3
    <3> QED BY <1>0, <1>9, <1>11, <2>3, <3>1
  <2> QED BY <1>0, <1>9, <2>1, <2>2, <2>3
<1>13. \A d \in 1 .. n : Shuts(d) => d = c
  <2> SUFFICES ASSUME NEW d \in 1 .. n, Shuts(d), d # c PROVE FALSE
    OBVIOUS
  <2>1. In(d) /\ ~ In(d + 1)
    BY <1>3
  <2>2. d + 1 \in 1 .. n + 1 /\ d \in 1 .. n + 1
    BY <1>0
  <2> QED BY <1>0, <1>9, <1>12, <2>1, <2>2
<1>14. End(p, k) = c
  <2>1. c \in 1 .. n /\ Shuts(c)
    BY <1>0, <1>9
  <2>2. End(p, k) = CHOOSE j \in 1 .. n : Shuts(j)
    BY DEF End, Shuts
  <2> QED BY <1>13, <2>1, <2>2
<1>15. c \in k + 1 .. n /\ Shuts(c)
  BY <1>9
<1> QED BY <1>12, <1>13, <1>14, <1>15 DEF In, Shuts

(* Of two constructs around a place, the later is in the earlier. *)
LEMMA Nested ==
  ASSUME NEW p, IsBody(p), NEW j \in 1 .. Len(p) + 1,
         NEW a \in Around(p, j), NEW b \in Around(p, j), a < b
  PROVE  a \in Around(p, b) /\ End(p, b) < End(p, a)
<1>0. Len(p) \in Nat
  BY BodyIs
<1>1. a \in 1 .. Len(p) /\ b \in 1 .. Len(p) /\ p[a].op \in Opens /\ p[b].op \in Opens
  BY AroundOf
<1>2. b < j /\ j <= End(p, b) /\ End(p, b) \in b + 1 .. Len(p)
  BY <1>1, EndIs
<1>3. a < j /\ j <= End(p, a) /\ End(p, a) \in a + 1 .. Len(p)
  BY <1>1, EndIs
<1>4. a \in Around(p, b)
  <2>1. b \in 1 .. Len(p) + 1 /\ b <= End(p, a)
    BY <1>0, <1>1, <1>2, <1>3
  <2> QED BY <1>1, <2>1, EndIs
<1>5. Innermost(a, Around(p, End(p, a)))
  <2>1. End(p, a) \in 1 .. Len(p) /\ p[End(p, a)].op \in Closes /\ p[End(p, a)].of = a
    BY <1>0, <1>1, EndIs
  <2> QED BY <2>1, ClosesIs DEF Belongs
<1>6. ASSUME End(p, a) <= End(p, b) PROVE FALSE
  <2>1. b < End(p, a) /\ End(p, a) \in 1 .. Len(p) + 1
    BY <1>0, <1>1, <1>2, <1>3
  <2>2. b \in Around(p, End(p, a))
    BY <1>1, <1>6, <2>1, EndIs
  <2>3. b <= a
    BY <1>5, <2>2 DEF Innermost
  <2> QED BY <1>1, <2>3
<1> QED BY <1>2, <1>3, <1>4, <1>6

(* What is around a place, by its innermost construct. *)
LEMMA InnermostIs ==
  ASSUME NEW p, IsBody(p), NEW j \in 1 .. Len(p) + 1, NEW k, Innermost(k, Around(p, j))
  PROVE  /\ Around(p, j) = Around(p, k) \cup {k}
         /\ k \in 1 .. Len(p) /\ p[k].op \in Opens
<1>0. Len(p) \in Nat
  BY BodyIs
<1>1. k \in Around(p, j) /\ \A i \in Around(p, j) : i <= k
  BY DEF Innermost
<1>2. k \in 1 .. Len(p) /\ p[k].op \in Opens /\ Around(p, j) \subseteq 1 .. Len(p)
      /\ k \in 1 .. Len(p) + 1
  BY <1>0, <1>1, AroundOf
<1>3. k < j /\ j <= End(p, k) /\ End(p, k) \in k + 1 .. Len(p)
  BY <1>1, <1>2, EndIs
<1>4. ASSUME NEW i \in Around(p, j), i # k PROVE i \in Around(p, k)
  <2>1. i < k
    BY <1>1, <1>2, <1>4
  <2> QED BY <1>1, <2>1, Nested
<1>5. ASSUME NEW i \in Around(p, k) PROVE i \in Around(p, j)
  <2>1. i \in 1 .. Len(p) /\ p[i].op \in Opens
    BY <1>2, <1>5, AroundOf
  <2>2. i < k /\ k <= End(p, i) /\ End(p, i) \in i + 1 .. Len(p)
    BY <1>2, <2>1, EndIs
  <2>3. k # End(p, i)
    <3>1. p[End(p, i)].op \in Closes
      BY <2>1, EndIs
    <3> QED BY <1>2, <3>1 DEF Opens, Closes
  <2>4. k + 1 \in 1 .. Len(p) + 1 /\ i < k + 1 /\ k + 1 <= End(p, i) /\ k < k + 1
        /\ k + 1 <= End(p, k)
    BY <1>0, <1>2, <1>3, <2>1, <2>2, <2>3
  <2>5. i \in Around(p, k + 1) /\ k \in Around(p, k + 1)
    BY <1>2, <2>1, <2>4, EndIs
  <2>6. End(p, k) < End(p, i)
    BY <2>2, <2>4, <2>5, Nested
  <2>7. i < j /\ j <= End(p, i)
    BY <1>0, <1>2, <1>3, <2>1, <2>2, <2>6
  <2> QED BY <2>1, <2>7, EndIs
<1> QED BY <1>1, <1>2, <1>4, <1>5

(* Around the end of a construct, and after it. *)
LEMMA AfterEnd ==
  ASSUME NEW p, IsBody(p), NEW k \in 1 .. Len(p), p[k].op \in Opens
  PROVE  /\ Around(p, End(p, k)) = Around(p, k) \cup {k}
         /\ Around(p, End(p, k) + 1) = Around(p, k)
         /\ Around(p, k + 1) = Around(p, k) \cup {k}
         /\ k \notin Around(p, k)
<1>0. Len(p) \in Nat
  BY BodyIs
<1>1. End(p, k) \in 1 .. Len(p) /\ p[End(p, k)].op \in Closes /\ p[End(p, k)].of = k
      /\ End(p, k) \in 1 .. Len(p) + 1
  BY <1>0, EndIs
<1>2. Around(p, End(p, k)) = Around(p, k) \cup {k}
  BY <1>1, ClosesIs, InnermostIs DEF Belongs
<1>3. Around(p, End(p, k) + 1) = Around(p, End(p, k)) \ {k}
  <2> DEFINE e == End(p, k)
  <2>1. e \in 1 .. Len(p) /\ p[e].op \in Closes /\ p[e].of = k
    BY <1>1
  <2> HIDE DEF e
  <2>2. Around(p, e + 1) = Around(p, e) \ {k}
    BY <2>1, AroundIs
  <2> QED BY <2>2 DEF e
<1>4. k \notin Around(p, k)
  <2>1. k \in 1 .. Len(p) + 1 /\ k \notin 1 .. k - 1
    BY <1>0
  <2> QED BY <2>1, AroundOf
<1>5. Around(p, k + 1) = Around(p, k) \cup {k}
  BY AroundIs
<1> QED BY <1>2, <1>3, <1>4, <1>5

(* Which tokens close which constructs. *)
LEMMA CloseIs ==
  ASSUME NEW p, IsBody(p), NEW k \in 1 .. Len(p), p[k].op \in Opens
  PROVE  /\ p[End(p, k)].op =
              IF p[k].op = "gather" THEN "result" ELSE IF Each(p[k]) THEN "yield" ELSE "end"
         /\ p[k].op # "gather" => Close(p, k) = End(p, k)
<1> DEFINE c == End(p, k)
<1>0. Len(p) \in Nat
  BY BodyIs
<1>1. c \in 1 .. Len(p) /\ p[c].op \in Closes /\ p[c].of = k
  BY <1>0, EndIs
<1>2. Fits(p, c)
  BY <1>1, BodyIs
<1>3. /\ p[c].op = "end" => p[k].op \in {"if", "while", "for"} /\ ~ Each(p[k])
      /\ p[c].op = "yield" => Each(p[k])
      /\ p[c].op = "result" => p[k].op = "gather"
  <2>1. ~ (Each(p[c]) /\ p[c].op \in Closes)
    BY DEF Each, Closes
  <2> QED BY <1>1, <1>2, <2>1 DEF Fits
<1>4. p[c].op = "end" \/ p[c].op = "yield" \/ p[c].op = "result"
  BY <1>1 DEF Closes
<1>5. Each(p[k]) => p[k].op = "for"
  BY DEF Each
<1>6. p[c].op = IF p[k].op = "gather" THEN "result" ELSE IF Each(p[k]) THEN "yield" ELSE "end"
  BY <1>3, <1>4, <1>5
<1>7. ASSUME p[k].op # "gather" PROVE Close(p, k) = c
  <2>1. p[c].op \in {"end", "yield"}
    BY <1>6, <1>7
  <2>2. \A j \in 1 .. Len(p) : p[j].op \in {"end", "yield"} /\ p[j].of = k => j = c
    <3>1. \A j : p[j].op \in {"end", "yield"} => p[j].op \in Closes
      BY DEF Closes
    <3> QED BY <3>1, EndIs
  <2>3. DOMAIN p = 1 .. Len(p)
    BY BodyIs
  <2> HIDE DEF c
  <2> QED BY <1>1, <2>1, <2>2, <2>3 DEF Close
<1> QED BY <1>6, <1>7

(* The else of an if. *)
LEMMA ElseIs ==
  ASSUME NEW p, IsBody(p), NEW k \in 1 .. Len(p), p[k].op = "if"
  PROVE  /\ Else(p, k) \in k + 1 .. End(p, k) - 1
         /\ p[Else(p, k)].op = "else" /\ p[Else(p, k)].of = k
         /\ \A d \in 1 .. Len(p) : p[d].op = "else" /\ p[d].of = k => d = Else(p, k)
         /\ Around(p, Else(p, k)) = Around(p, k) \cup {k}
         /\ Around(p, Else(p, k) + 1) = Around(p, k) \cup {k}
<1> DEFINE c == End(p, k)
           Is(j) == p[j].op = "else" /\ p[j].of = k
<1>0. Len(p) \in Nat /\ DOMAIN p = 1 .. Len(p)
  BY BodyIs
<1>1. p[k].op \in Opens /\ ~ Each(p[k])
  BY DEF Opens, Each
<1>2. c \in k + 1 .. Len(p) /\ p[c].op = "end" /\ p[c].of = k
  BY <1>1, EndIs, CloseIs
<1>3. Fits(p, c)
  BY <1>2, <1>0, BodyIs
<1>4. PICK e \in 1 .. c - 1 : Is(e)
  BY <1>2, <1>3 DEF Fits
<1>5. \A d \in 1 .. Len(p) : Is(d) => Belongs(p, d) /\ \A j \in 1 .. d - 1 : ~ Is(j)
  <2> SUFFICES ASSUME NEW d \in 1 .. Len(p), Is(d)
               PROVE  Belongs(p, d) /\ \A j \in 1 .. d - 1 : ~ Is(j)
    OBVIOUS
  <2>1. Fits(p, d)
    BY BodyIs
  <2> QED BY <2>1 DEF Fits
<1> HIDE DEF c, Is
<1>6. e \in 1 .. Len(p)
  BY <1>0, <1>2, <1>4
<1>7. \A d \in 1 .. Len(p) : Is(d) => d = e
  <2> SUFFICES ASSUME NEW d \in 1 .. Len(p), Is(d), d # e PROVE FALSE
    OBVIOUS
  <2>1. d < e => d \in 1 .. e - 1
    BY <1>6
  <2>2. e < d => e \in 1 .. d - 1
    BY <1>6
  <2>3. d < e \/ e < d
    BY <1>6
  <2> QED BY <1>4, <1>5, <1>6, <2>1, <2>2, <2>3
<1>8. Else(p, k) = e
  BY <1>0, <1>4, <1>6, <1>7 DEF Else, Is
<1>9. Innermost(k, Around(p, e)) /\ e \in 1 .. Len(p) + 1
  BY <1>0, <1>4, <1>5, <1>6 DEF Is, Belongs
<1>10. Around(p, e) = Around(p, k) \cup {k}
  BY <1>9, InnermostIs
<1>11. Around(p, e + 1) = Around(p, e)
  <2>1. p[e].op \notin Opens \cup Closes
    BY <1>4 DEF Is, Opens, Closes
  <2> QED BY <1>6, <2>1, AroundIs
<1>12. k < e
  BY <1>1, <1>9, EndIs DEF Innermost
<1>13. e \in k + 1 .. c - 1
  BY <1>0, <1>2, <1>4, <1>12
<1> QED BY <1>4, <1>7, <1>8, <1>10, <1>11, <1>13 DEF Is, c

-----------------------------------------------------------------------------
(* Sequences of instructions. *)

Listed(s) == s \in Seq(ToSet(s))

LEMMA ListedIs ==
  ASSUME NEW s, Listed(s)
  PROVE  Len(s) \in Nat /\ DOMAIN s = 1 .. Len(s)
<1> HIDE DEF ToSet
<1>1. \A S : s \in Seq(S) => Len(s) \in Nat /\ DOMAIN s = 1 .. Len(s)
  OBVIOUS
<1> QED BY <1>1 DEF Listed

LEMMA FunctionListed ==
  ASSUME NEW n \in Nat, NEW s, s = [i \in 1 .. n |-> s[i]]
  PROVE  Listed(s) /\ Len(s) = n /\ DOMAIN s = 1 .. n
<1>1. DOMAIN s = 1 .. n
  OBVIOUS
<1>2. \A i \in 1 .. n : s[i] \in ToSet(s)
  BY <1>1 DEF ToSet
<1> DEFINE S == ToSet(s)
<1>3. \A i \in 1 .. n : s[i] \in S
  BY <1>2
<1> HIDE DEF S
<1>4. s \in Seq(S) /\ Len(s) = n
  BY <1>3
<1> QED BY <1>1, <1>4 DEF Listed, S

LEMMA NoneListed == Listed(<<>>) /\ Len(<<>>) = 0
BY DEF Listed

LEMMA OneListed ==
  ASSUME NEW a
  PROVE  Listed(<<a>>) /\ Len(<<a>>) = 1 /\ <<a>>[1] = a
<1>1. ToSet(<<a>>) = {a}
  BY DEF ToSet
<1> QED BY <1>1 DEF Listed

LEMMA TwoListed ==
  ASSUME NEW a, NEW b
  PROVE  Listed(<<a, b>>) /\ Len(<<a, b>>) = 2 /\ <<a, b>>[1] = a /\ <<a, b>>[2] = b
<1>1. a \in ToSet(<<a, b>>) /\ b \in ToSet(<<a, b>>)
  BY DEF ToSet
<1> HIDE DEF ToSet
<1> QED BY <1>1 DEF Listed

LEMMA FourListed ==
  ASSUME NEW a, NEW b, NEW c, NEW d
  PROVE  /\ Listed(<<a, b, c, d>>) /\ Len(<<a, b, c, d>>) = 4
         /\ <<a, b, c, d>>[1] = a /\ <<a, b, c, d>>[2] = b
         /\ <<a, b, c, d>>[3] = c /\ <<a, b, c, d>>[4] = d
<1> DEFINE S == {a, b, c, d}
           s == <<a, b, c, d>>
<1>1. ToSet(s) = S
  BY DEF ToSet
<1>2. s \in Seq(S)
  OBVIOUS
<1> QED BY <1>1, <1>2 DEF Listed

LEMMA FiveListed ==
  ASSUME NEW a, NEW b, NEW c, NEW d, NEW e
  PROVE  LET s == <<a, b, c, d, e>>
         IN  /\ Listed(s) /\ Len(s) = 5
             /\ s[1] = a /\ s[2] = b /\ s[3] = c /\ s[4] = d /\ s[5] = e
<1> DEFINE S == {a, b, c, d, e}
           s == <<a, b, c, d, e>>
<1>1. ToSet(s) = S
  BY DEF ToSet
<1>2. s \in Seq(S)
  OBVIOUS
<1> QED BY <1>1, <1>2 DEF Listed

LEMMA SixListed ==
  ASSUME NEW a, NEW b, NEW c, NEW d, NEW e, NEW f
  PROVE  LET s == <<a, b, c, d, e, f>>
         IN  /\ Listed(s) /\ Len(s) = 6
             /\ s[1] = a /\ s[2] = b /\ s[3] = c /\ s[4] = d /\ s[5] = e /\ s[6] = f
<1> DEFINE S == {a, b, c, d, e, f}
           s == <<a, b, c, d, e, f>>
<1>1. ToSet(s) = S
  BY DEF ToSet
<1>2. s \in Seq(S)
  OBVIOUS
<1> QED BY <1>1, <1>2 DEF Listed

LEMMA CatListed ==
  ASSUME NEW a, NEW b, Listed(a), Listed(b)
  PROVE  /\ Listed(a \o b) /\ Len(a \o b) = Len(a) + Len(b)
         /\ \A i \in 1 .. Len(a) : (a \o b)[i] = a[i]
         /\ \A i \in 1 .. Len(b) : (a \o b)[Len(a) + i] = b[i]
<1>1. Len(a) \in Nat /\ Len(b) \in Nat
  BY ListedIs
<1> DEFINE S == ToSet(a) \cup ToSet(b)
<1>2. a \in Seq(S) /\ b \in Seq(S)
  <2>1. \A i \in 1 .. Len(a) : a[i] \in S
    BY <1>1 DEF Listed
  <2>2. \A i \in 1 .. Len(b) : b[i] \in S
    BY <1>1 DEF Listed
  <2> HIDE DEF S
  <2>3. a \in Seq(ToSet(a)) /\ b \in Seq(ToSet(b))
    BY DEF Listed
  <2>4. \A T : a \in Seq(T) => a \in Seq(S)
    BY <2>1
  <2>5. \A T : b \in Seq(T) => b \in Seq(S)
    BY <2>2
  <2> QED BY <2>3, <2>4, <2>5
<1> HIDE DEF S
<1>3. /\ a \o b \in Seq(S) /\ Len(a \o b) = Len(a) + Len(b)
      /\ \A i \in 1 .. Len(a) : (a \o b)[i] = a[i]
      /\ \A i \in 1 .. Len(b) : (a \o b)[Len(a) + i] = b[i]
  BY <1>1, <1>2
<1> DEFINE c == a \o b
<1> HIDE DEF c
<1>4. c \in Seq(S) => c = [i \in 1 .. Len(c) |-> c[i]] /\ Len(c) \in Nat
  OBVIOUS
<1>5. Listed(c)
  BY <1>3, <1>4, FunctionListed DEF c
<1> QED BY <1>3, <1>5 DEF c

LEMMA OnIs ==
  ASSUME NEW a, NEW s, Listed(s)
  PROVE  /\ Listed(On(a, s)) /\ Len(On(a, s)) = Len(s)
         /\ \A i \in 1 .. Len(s) : On(a, s)[i].at = a /\ On(a, s)[i].do = s[i]
<1>1. Len(s) \in Nat /\ DOMAIN s = 1 .. Len(s)
  BY ListedIs
<1>2. On(a, s) = [i \in 1 .. Len(s) |-> [at |-> a, do |-> s[i]]]
  BY <1>1 DEF On, Ins
<1> DEFINE o == On(a, s)
<1>3. o = [i \in 1 .. Len(s) |-> o[i]]
  BY <1>2
<1>4. \A i \in 1 .. Len(s) : o[i].at = a /\ o[i].do = s[i]
  BY <1>2
<1> HIDE DEF o
<1>5. Listed(o) /\ Len(o) = Len(s)
  BY <1>1, <1>3, FunctionListed
<1> QED BY <1>4, <1>5 DEF o

LEMMA TailListed ==
  ASSUME NEW s, Listed(s), Len(s) >= 1
  PROVE  /\ Listed(Tail(s)) /\ Len(Tail(s)) = Len(s) - 1 /\ Head(s) = s[1]
         /\ \A i \in 1 .. Len(s) - 1 : Tail(s)[i] = s[i + 1]
<1>1. Len(s) \in Nat
  BY ListedIs
<1> DEFINE S == ToSet(s)
<1>2. s \in Seq(S)
  BY DEF Listed
<1> HIDE DEF S
<1>3. s # <<>>
  BY <1>1
<1>4. /\ Tail(s) \in Seq(S) /\ Len(Tail(s)) = Len(s) - 1
      /\ \A i \in 1 .. Len(s) - 1 : Tail(s)[i] = s[i + 1]
  BY <1>1, <1>2, <1>3
<1>5. Head(s) = s[1]
  BY <1>2, <1>3
<1> DEFINE c == Tail(s)
<1> HIDE DEF c
<1>6. c \in Seq(S) => c = [i \in 1 .. Len(c) |-> c[i]] /\ Len(c) \in Nat
  OBVIOUS
<1>7. Listed(c)
  BY <1>4, <1>6, FunctionListed DEF c
<1> QED BY <1>4, <1>5, <1>7 DEF c

-----------------------------------------------------------------------------
(* The instructions of each token. *)

Ranged(p, k) == p[k].its[1].k = "range"
Enum(p, k)   == IF p[k].how = "enumerate" THEN 1 ELSE 0

(* The place of the while in a loop's head, the length of the head, what a  *)
(* filter adds to the end of a turn, the length of the latch's bumps.       *)
W(p, k) ==
  IF p[k].op = "while" THEN 1
  ELSE IF p[k].how = "zip" THEN 4 ELSE (IF Ranged(p, k) THEN 2 ELSE 3) + Enum(p, k)
H(p, k) ==
  W(p, k) + (IF p[k].op = "while" THEN 0
             ELSE IF p[k].how = "zip" THEN 2 ELSE IF Ranged(p, k) THEN 0 ELSE 1)
F(p, k) == IF Filtered(p, k) THEN 2 ELSE 0
B(p, k) == IF p[k].op = "while" THEN 0 ELSE 1 + Enum(p, k)

(* What the gathering of a loop adds before the end of a turn.              *)
Q(p, k) == IF ~ Each(p[k]) THEN 0 ELSE IF p[p[k].of].how \in {"sum", "list"} THEN 1 ELSE 5

Zip0(p, k) == <<"__zip_l0", Uniq(p, k)>>
Zip1(p, k) == <<"__zip_l1", Uniq(p, k)>>

(* The counter of a loop, and by how much it goes up.                       *)
Counter(p, k) == IF Ranged(p, k) THEN Over(p[k]) ELSE IndexOf(p, k)
Stride(p, k)  == IF Ranged(p, k) THEN p[k].its[1].step ELSE 1

LEMMA ForIs ==
  ASSUME NEW p, IsBody(p), NEW k \in 1 .. Len(p), p[k].op = "for"
  PROVE  /\ p[k].how \in {"plain", "enumerate", "zip", "generator", "each"}
         /\ DOMAIN p[k].t = 1 .. (IF p[k].how \in {"enumerate", "zip"} THEN 2 ELSE 1)
         /\ DOMAIN p[k].its = 1 .. (IF p[k].how = "zip" THEN 2 ELSE 1)
         /\ Targets(p, k) = IF p[k].how \in {"enumerate", "zip"}
                            THEN {p[k].t[1], p[k].t[2]} ELSE {p[k].t[1]}
         /\ \A x \in Targets(p, k) : x[1] \in DOMAIN Types /\ Kind(x) = "int"
         /\ Over(p[k]) \in Targets(p, k)
         /\ IsIterable(p[k].its[1])
         /\ p[k].how = "zip" =>
              /\ p[k].its[1].k = "list" /\ p[k].its[2].k = "list"
              /\ IsIterable(p[k].its[2])
         /\ p[k].start \in Int
<1> DEFINE t == p[k]
           n == IF t.how \in {"enumerate", "zip"} THEN 2 ELSE 1
           m == IF t.how = "zip" THEN 2 ELSE 1
<1>1. IsFor(t)
  BY BodyIs DEF Typed
<1>2. Listed(t.t) /\ Len(t.t) = n /\ Listed(t.its) /\ Len(t.its) = m
  BY <1>1 DEF IsFor, Listed
<1>3. DOMAIN t.t = 1 .. n /\ DOMAIN t.its = 1 .. m
  BY <1>2, ListedIs
<1>4. Targets(p, k) = {t.t[i] : i \in 1 .. n}
  BY <1>3 DEF Targets, ToSet
<1>5. Targets(p, k) = IF t.how \in {"enumerate", "zip"} THEN {t.t[1], t.t[2]} ELSE {t.t[1]}
  <2>1. 1 .. 2 = {1, 2} /\ 1 .. 1 = {1}
    OBVIOUS
  <2> QED BY <1>4, <2>1
<1>6. \A x \in Targets(p, k) : x[1] \in DOMAIN Types /\ Kind(x) = "int"
  BY <1>1 DEF Targets, IsFor
<1>7. /\ t.how \in {"plain", "enumerate", "zip", "generator", "each"} /\ t.start \in Int
      /\ \A i \in DOMAIN t.its : IsIterable(t.its[i])
      /\ t.how = "zip" => \A i \in DOMAIN t.its : t.its[i].k = "list"
  BY <1>1 DEF IsFor
<1>8. Over(t) \in Targets(p, k)
  BY <1>5 DEF Over
<1>9. 1 \in DOMAIN t.its /\ (t.how = "zip" => 2 \in DOMAIN t.its)
  BY <1>3
<1> QED BY <1>3, <1>5, <1>6, <1>7, <1>8, <1>9

LEMMA HeadIs ==
  ASSUME NEW p, IsBody(p), NEW k \in 1 .. Len(p), p[k].op = "for"
  PROVE  LET s  == ForHead(p, k)
             t  == p[k]
             o  == Enum(p, k)
             l  == ListOf(p, k)
             i  == IndexOf(p, k)
             id == <<"loop", k>>
         IN  /\ Listed(s) /\ Len(s) = H(p, k)
             /\ t.how = "zip" =>
                  /\ s[1] = Let(Zip0(p, k), Var(t.its[1].x))
                  /\ s[2] = Let(Zip1(p, k), Var(t.its[2].x))
                  /\ s[3] = Let(i, Num(0))
                  /\ s[4] = While(Both(Less(Var(i), Len_(Zip0(p, k))),
                                       Less(Var(i), Len_(Zip1(p, k)))), id)
                  /\ s[5] = Load(t.t[1], Zip0(p, k), i)
                  /\ s[6] = Load(t.t[2], Zip1(p, k), i)
             /\ t.how = "enumerate" => s[1] = Let(t.t[1], Num(t.start))
             /\ t.how # "zip" /\ Ranged(p, k) =>
                  /\ s[o + 1] = Let(Over(t), t.its[1].start)
                  /\ s[o + 2] = While(Less(Var(Over(t)), t.its[1].stop), id)
             /\ t.how # "zip" /\ ~ Ranged(p, k) =>
                  /\ s[o + 1] = Let(l, Var(t.its[1].x))
                  /\ s[o + 2] = Let(i, Num(0))
                  /\ s[o + 3] = While(Less(Var(i), Len_(l)), id)
                  /\ s[o + 4] = Load(Over(t), l, i)
<1> DEFINE s    == ForHead(p, k)
           t    == p[k]
           o    == Enum(p, k)
           l    == ListOf(p, k)
           i    == IndexOf(p, k)
           id   == <<"loop", k>>
           loop == IF t.its[1].k = "range" THEN CountedLoop(Over(t), t.its[1], id)
                   ELSE IndexedLoop(Over(t), t.its[1].x, l, i, id)
           size == IF Ranged(p, k) THEN 2 ELSE 4
           first == <<Let(t.t[1], Num(t.start))>>
<1>1. /\ t.how = "zip" => s = ZipLoop(p, k)
      /\ t.how = "enumerate" => s = first \o loop
      /\ t.how # "zip" /\ t.how # "enumerate" => s = loop
  BY DEF ForHead
<1>2. CASE t.how = "zip"
  <2> DEFINE a == Let(Zip0(p, k), Var(t.its[1].x))
             b == Let(Zip1(p, k), Var(t.its[2].x))
             c == Let(i, Num(0))
             d == While(Both(Less(Var(i), Len_(Zip0(p, k))), Less(Var(i), Len_(Zip1(p, k)))), id)
             e == Load(t.t[1], Zip0(p, k), i)
             f == Load(t.t[2], Zip1(p, k), i)
  <2>1. s = <<a, b, c, d, e, f>>
    BY <1>1, <1>2 DEF ZipLoop, Zip0, Zip1
  <2>2. H(p, k) = 6
    BY <1>2 DEF H, W
  <2> HIDE DEF a, b, c, d, e, f, s
  <2>3. /\ Listed(s) /\ Len(s) = 6
        /\ s[1] = a /\ s[2] = b /\ s[3] = c /\ s[4] = d /\ s[5] = e /\ s[6] = f
    BY <2>1, SixListed
  <2> QED BY <1>2, <2>2, <2>3 DEF a, b, c, d, e, f, s
<1>3. CASE t.how # "zip"
  <2>1. /\ Listed(loop) /\ Len(loop) = size
        /\ Ranged(p, k) => /\ loop[1] = Let(Over(t), t.its[1].start)
                           /\ loop[2] = While(Less(Var(Over(t)), t.its[1].stop), id)
        /\ ~ Ranged(p, k) => /\ loop[1] = Let(l, Var(t.its[1].x))
                             /\ loop[2] = Let(i, Num(0))
                             /\ loop[3] = While(Less(Var(i), Len_(l)), id)
                             /\ loop[4] = Load(Over(t), l, i)
    <3>1. CASE Ranged(p, k)
      <4> DEFINE a == Let(Over(t), t.its[1].start)
                 b == While(Less(Var(Over(t)), t.its[1].stop), id)
      <4>1. loop = <<a, b>>
        BY <3>1 DEF Ranged, CountedLoop
      <4> HIDE DEF a, b, loop
      <4>2. Listed(loop) /\ Len(loop) = 2 /\ loop[1] = a /\ loop[2] = b
        BY <4>1, TwoListed
      <4> QED BY <3>1, <4>2 DEF a, b
    <3>2. CASE ~ Ranged(p, k)
      <4> DEFINE a == Let(l, Var(t.its[1].x))
                 b == Let(i, Num(0))
                 c == While(Less(Var(i), Len_(l)), id)
                 d == Load(Over(t), l, i)
      <4>1. loop = <<a, b, c, d>>
        BY <3>2 DEF Ranged, IndexedLoop
      <4> HIDE DEF a, b, c, d, loop
      <4>2. /\ Listed(loop) /\ Len(loop) = 4
            /\ loop[1] = a /\ loop[2] = b /\ loop[3] = c /\ loop[4] = d
        BY <4>1, FourListed
      <4> QED BY <3>2, <4>2 DEF a, b, c, d
    <3> QED BY <3>1, <3>2
  <2> HIDE DEF loop, first, s
  <2>2. /\ Listed(s) /\ Len(s) = o + size /\ \A j \in 1 .. size : s[o + j] = loop[j]
        /\ t.how = "enumerate" => s[1] = Let(t.t[1], Num(t.start))
    <3>1. CASE t.how = "enumerate"
      <4>1. Listed(first) /\ Len(first) = 1 /\ first[1] = Let(t.t[1], Num(t.start))
        BY OneListed DEF first
      <4>2. s = first \o loop /\ o = 1
        BY <1>1, <3>1 DEF s, Enum
      <4>3. /\ Listed(s) /\ Len(s) = 1 + Len(loop) /\ s[1] = first[1]
            /\ \A j \in 1 .. Len(loop) : s[1 + j] = loop[j]
        <5>1. /\ Listed(first \o loop) /\ Len(first \o loop) = Len(first) + Len(loop)
              /\ \A j \in 1 .. Len(first) : (first \o loop)[j] = first[j]
              /\ \A j \in 1 .. Len(loop) : (first \o loop)[Len(first) + j] = loop[j]
          <6>1. Listed(first) /\ Listed(loop)
            BY <2>1, <4>1
          <6> HIDE DEF loop, first
          <6> QED BY ONLY <6>1, CatListed
        <5>2. 1 \in 1 .. Len(first)
          BY <4>1
        <5> QED BY <4>1, <4>2, <5>1, <5>2
      <4> QED BY <2>1, <4>1, <4>2, <4>3
    <3>2. CASE t.how # "enumerate"
      <4>1. s = loop /\ o = 0
        BY <1>1, <1>3, <3>2 DEF Enum, s, loop
      <4>2. \A j \in 1 .. size : 0 + j = j
        OBVIOUS
      <4> QED BY <2>1, <3>2, <4>1, <4>2
    <3> QED BY <3>1, <3>2
  <2>3. H(p, k) = o + size
    BY <1>3 DEF H, W, Enum
  <2>4. 1 \in 1 .. size /\ 2 \in 1 .. size
        /\ (~ Ranged(p, k) => 3 \in 1 .. size /\ 4 \in 1 .. size)
    OBVIOUS
  <2> QED BY <1>3, <2>1, <2>2, <2>3, <2>4 DEF s
<1> QED BY <1>2, <1>3

LEMMA LatchIs ==
  ASSUME NEW p, IsBody(p), NEW k \in 1 .. Len(p), p[k].op = "for"
  PROVE  LET s == Latch(p, k)
         IN  /\ Listed(s) /\ Len(s) = B(p, k) /\ B(p, k) \in {1, 2}
             /\ s[1] = Bump(Counter(p, k), Stride(p, k))
             /\ B(p, k) = 2 => p[k].how = "enumerate" /\ s[2] = Bump(p[k].t[1], 1)
<1> DEFINE a == Bump(Counter(p, k), Stride(p, k))
           b == Bump(p[k].t[1], 1)
           s == Latch(p, k)
<1>1. s = IF p[k].how = "enumerate" THEN <<a, b>> ELSE <<a>>
  <2>1. a = IF p[k].its[1].k = "range" THEN Bump(Over(p[k]), p[k].its[1].step)
            ELSE Bump(IndexOf(p, k), 1)
    BY DEF Counter, Stride, Ranged
  <2> QED BY <2>1 DEF Latch
<1>2. B(p, k) = IF p[k].how = "enumerate" THEN 2 ELSE 1
  BY DEF B, Enum
<1> HIDE DEF a, b, s
<1>3. /\ Listed(<<a, b>>) /\ Len(<<a, b>>) = 2 /\ <<a, b>>[1] = a /\ <<a, b>>[2] = b
      /\ Listed(<<a>>) /\ Len(<<a>>) = 1 /\ <<a>>[1] = a
  BY OneListed, TwoListed
<1>4. /\ Listed(s) /\ Len(s) = B(p, k) /\ B(p, k) \in {1, 2}
      /\ s[1] = a
      /\ B(p, k) = 2 => p[k].how = "enumerate" /\ s[2] = b
  BY <1>1, <1>2, <1>3
<1> QED BY <1>4 DEF a, b, s

LEMMA TurnedIs ==
  ASSUME NEW p, IsBody(p), NEW k \in 1 .. Len(p), IsLoop(p[k])
  PROVE  LET s  == Turned(p, k)
             f  == F(p, k)
             b  == B(p, k)
             id == <<"loop", k>>
         IN  /\ Listed(s) /\ Len(s) = f + b + 3
             /\ f \in {0, 2} /\ b \in {0, 1, 2} /\ (p[k].op = "for" => b # 0)
             /\ f = 2 => s[1] = Mark("else", <<"filter", k>>) /\ s[2] = Mark("fi", <<"filter", k>>)
             /\ s[f + 1] = Mark("next", id)
             /\ s[f + 2] = Mark("latch", id)
             /\ b >= 1 => s[f + 3] = Bump(Counter(p, k), Stride(p, k))
             /\ b = 2 => p[k].how = "enumerate" /\ s[f + 4] = Bump(p[k].t[1], 1)
             /\ s[f + b + 3] = Mark("end", id)
<1> DEFINE f  == F(p, k)
           b  == B(p, k)
           id == <<"loop", k>>
           e1 == Mark("else", <<"filter", k>>)
           e2 == Mark("fi", <<"filter", k>>)
           n1 == Mark("next", id)
           n2 == Mark("latch", id)
           x1 == Mark("end", id)
           a  == IF Filtered(p, k) THEN <<e1, e2>> ELSE <<>>
           c  == <<n1, n2>>
           d  == IF p[k].op = "for" THEN Latch(p, k) ELSE <<>>
           e  == <<x1>>
           u1 == Bump(Counter(p, k), Stride(p, k))
           u2 == Bump(p[k].t[1], 1)
<1>1. Turned(p, k) = a \o c \o d \o e
  BY DEF Turned
<1>2. f \in {0, 2} /\ Listed(a) /\ Len(a) = f /\ (f = 2 => a[1] = e1 /\ a[2] = e2)
  <2> HIDE DEF e1, e2
  <2> QED BY NoneListed, TwoListed DEF F
<1>3. Listed(c) /\ Len(c) = 2 /\ c[1] = n1 /\ c[2] = n2
  <2> HIDE DEF n1, n2
  <2> QED BY TwoListed
<1>4. Listed(e) /\ Len(e) = 1 /\ e[1] = x1
  <2> HIDE DEF x1
  <2> QED BY OneListed
<1>5. /\ b \in {0, 1, 2} /\ (p[k].op = "for" => b # 0) /\ Listed(d) /\ Len(d) = b
      /\ b >= 1 => d[1] = u1
      /\ b = 2 => p[k].how = "enumerate" /\ d[2] = u2
  <2>1. CASE p[k].op = "for"
    <3>1. d = Latch(p, k)
      BY <2>1
    <3> HIDE DEF d, u1, u2
    <3>2. /\ Listed(d) /\ Len(d) = b /\ b \in {1, 2} /\ d[1] = u1
          /\ b = 2 => p[k].how = "enumerate" /\ d[2] = u2
      BY <2>1, <3>1, LatchIs DEF u1, u2
    <3> QED BY <3>2
  <2>2. CASE p[k].op # "for"
    <3>1. d = <<>> /\ b = 0
      BY <2>2 DEF IsLoop, B
    <3> HIDE DEF d, u1, u2, b
    <3> QED BY <2>2, <3>1, NoneListed
  <2> QED BY <2>1, <2>2
<1> HIDE DEF a, c, d, e, e1, e2, n1, n2, x1, u1, u2, f, b
<1> DEFINE ac == a \o c
           acd == ac \o d
           s == acd \o e
<1>6. /\ Listed(ac) /\ Len(ac) = f + 2
      /\ f = 2 => ac[1] = e1 /\ ac[2] = e2
      /\ ac[f + 1] = n1 /\ ac[f + 2] = n2
  <2>1. /\ Listed(ac) /\ Len(ac) = f + 2
        /\ \A i \in 1 .. f : ac[i] = a[i]
        /\ \A j \in 1 .. 2 : ac[f + j] = c[j]
    <3>1. Listed(a) /\ Listed(c)
      BY <1>2, <1>3
    <3>2. /\ Listed(ac) /\ Len(ac) = Len(a) + Len(c)
          /\ \A i \in 1 .. Len(a) : ac[i] = a[i]
          /\ \A j \in 1 .. Len(c) : ac[Len(a) + j] = c[j]
      BY ONLY <3>1, CatListed
    <3> HIDE DEF ac
    <3> QED BY <1>2, <1>3, <3>2
  <2> HIDE DEF ac
  <2>2. 1 \in 1 .. 2 /\ 2 \in 1 .. 2
    OBVIOUS
  <2> QED BY <1>2, <1>3, <2>1, <2>2
<1> HIDE DEF ac
<1>7. /\ Listed(acd) /\ Len(acd) = f + 2 + b
      /\ f = 2 => acd[1] = e1 /\ acd[2] = e2
      /\ acd[f + 1] = n1 /\ acd[f + 2] = n2
      /\ b >= 1 => acd[f + 3] = u1
      /\ b = 2 => acd[f + 4] = u2
  <2>1. /\ Listed(acd) /\ Len(acd) = f + 2 + b
        /\ \A i \in 1 .. f + 2 : acd[i] = ac[i]
        /\ \A j \in 1 .. b : acd[f + 2 + j] = d[j]
    BY <1>5, <1>6, CatListed
  <2> HIDE DEF acd
  <2>2. f + 1 \in 1 .. f + 2 /\ f + 2 \in 1 .. f + 2 /\ (f = 2 => 1 \in 1 .. f + 2)
        /\ (f = 2 => 2 \in 1 .. f + 2)
    BY <1>2
  <2>3. b >= 1 => 1 \in 1 .. b /\ f + 2 + 1 = f + 3
    BY <1>2, <1>5
  <2>4. b = 2 => 2 \in 1 .. b /\ f + 2 + 2 = f + 4
    BY <1>2
  <2>5. b >= 1 => acd[f + 3] = u1
    BY <1>5, <2>1, <2>3
  <2>6. b = 2 => acd[f + 4] = u2
    BY <1>5, <2>1, <2>4
  <2>7. acd[f + 1] = n1 /\ acd[f + 2] = n2
    BY <1>6, <2>1, <2>2
  <2>8. f = 2 => acd[1] = e1 /\ acd[2] = e2
    BY <1>6, <2>1, <2>2
  <2> QED BY <2>1, <2>5, <2>6, <2>7, <2>8
<1> HIDE DEF acd
<1>8. /\ Listed(s) /\ Len(s) = f + b + 3
      /\ \A i \in 1 .. f + 2 + b : s[i] = acd[i]
      /\ s[f + b + 3] = x1
  <2>1. /\ Listed(s) /\ Len(s) = f + 2 + b + 1
        /\ \A i \in 1 .. f + 2 + b : s[i] = acd[i]
        /\ \A j \in 1 .. 1 : s[f + 2 + b + j] = e[j]
    <3>1. Listed(acd) /\ Listed(e)
      BY <1>4, <1>7
    <3>2. /\ Listed(s) /\ Len(s) = Len(acd) + Len(e)
          /\ \A i \in 1 .. Len(acd) : s[i] = acd[i]
          /\ \A j \in 1 .. Len(e) : s[Len(acd) + j] = e[j]
      BY ONLY <3>1, CatListed
    <3> HIDE DEF s
    <3> QED BY <1>4, <1>7, <3>2
  <2> HIDE DEF s
  <2>2. f + 2 + b + 1 = f + b + 3 /\ 1 \in 1 .. 1
    BY <1>2, <1>5
  <2> QED BY <1>4, <2>1, <2>2
<1> HIDE DEF s
<1>9. f + 1 \in 1 .. f + 2 + b /\ f + 2 \in 1 .. f + 2 + b
      /\ (f = 2 => 1 \in 1 .. f + 2 + b /\ 2 \in 1 .. f + 2 + b)
      /\ (b >= 1 => f + 3 \in 1 .. f + 2 + b) /\ (b = 2 => f + 4 \in 1 .. f + 2 + b)
  BY <1>2, <1>5
<1>10. Turned(p, k) = s
  BY <1>1 DEF s, acd, ac
<1>11. s[f + 1] = n1 /\ s[f + 2] = n2 /\ (f = 2 => s[1] = e1 /\ s[2] = e2)
  BY <1>7, <1>8, <1>9
<1>12. (b >= 1 => s[f + 3] = u1) /\ (b = 2 => s[f + 4] = u2)
  BY <1>7, <1>8, <1>9
<1> HIDE DEF id
<1>13. /\ Listed(s) /\ Len(s) = f + b + 3
       /\ f \in {0, 2} /\ b \in {0, 1, 2} /\ (p[k].op = "for" => b # 0)
       /\ s[f + b + 3] = x1 /\ (b = 2 => p[k].how = "enumerate")
  BY <1>2, <1>5, <1>8
<1> QED BY <1>10, <1>11, <1>12, <1>13 DEF e1, e2, n1, n2, x1, u1, u2, f, b, id

(* The instructions of a body. *)
LEMMA CodeIs ==
  ASSUME NEW p, IsBody(p)
  PROVE  /\ Len(Compiled(p)) = Len(p) /\ DOMAIN Compiled(p) = 1 .. Len(p)
         /\ \A k \in 1 .. Len(p) : Compiled(p)[k] = TokenCode(p, k)
<1> DEFINE c == Compiled(p)
<1>1. Len(p) \in Nat
  BY BodyIs
<1>2. c = [k \in 1 .. Len(p) |-> TokenCode(p, k)]
  BY DEF Compiled
<1>3. c = [k \in 1 .. Len(p) |-> c[k]] /\ \A k \in 1 .. Len(p) : c[k] = TokenCode(p, k)
  BY <1>2
<1> HIDE DEF c
<1>4. Len(c) = Len(p) /\ DOMAIN c = 1 .. Len(p)
  BY <1>1, <1>3, FunctionListed
<1> QED BY <1>3, <1>4 DEF c

(* Tokens with one instruction. *)
Single(t) == t.op \notin {"for", "filter", "end", "yield"}

Only(p, k) ==
  LET t == p[k]
  IN  CASE t.op = "let"    -> Let(t.x, t.e)
        [] t.op = "append" -> [op |-> "append", l |-> t.l, e |-> t.e]
        [] t.op = "if"     -> If(t.c, <<"if", k>>)
        [] t.op = "else"   -> Mark("else", <<"if", t.of>>)
        [] t.op = "while"  -> While(t.c, <<"loop", k>>)
        [] t.op = "gather" -> Start(p, k)
        [] t.op = "result" -> Let(t.x, Var(Acc(p, t.of)))
        [] OTHER           -> [op |-> t.op]

LEMMA SingleIs ==
  ASSUME NEW p, NEW k, Single(p[k])
  PROVE  LET c == TokenCode(p, k)
         IN  Listed(c) /\ Len(c) = 1 /\ c[1].at = k /\ c[1].do = Only(p, k)
<1>1. TokenCode(p, k) = On(k, <<Only(p, k)>>)
  BY DEF Single, TokenCode, Only
<1> DEFINE d == Only(p, k)
<1> HIDE DEF d
<1>2. Listed(<<d>>) /\ Len(<<d>>) = 1 /\ <<d>>[1] = d
  BY OneListed
<1>3. 1 \in 1 .. 1
  OBVIOUS
<1>4. Listed(On(k, <<d>>)) /\ Len(On(k, <<d>>)) = 1
      /\ On(k, <<d>>)[1].at = k /\ On(k, <<d>>)[1].do = d
  BY <1>2, <1>3, OnIs
<1> QED BY <1>1, <1>4 DEF d

(* Does a gathering read its accumulator before the element is computed?    *)
Grows(p, g) == p[g].how \in {"sum", "list"}

LEMMA ReadOldIs ==
  ASSUME NEW p, NEW g
  PROVE  LET s == ReadOld(p, g)
         IN  /\ Listed(s) /\ Len(s) = IF Grows(p, g) THEN 1 ELSE 0
             /\ Grows(p, g) => s[1] = Let(Old(p, g), Var(Acc(p, g)))
<1> DEFINE d == Let(Old(p, g), Var(Acc(p, g)))
<1>1. ReadOld(p, g) = IF Grows(p, g) THEN <<d>> ELSE <<>>
  BY DEF ReadOld, Grows
<1> HIDE DEF d
<1>2. Listed(<<d>>) /\ Len(<<d>>) = 1 /\ <<d>>[1] = d
  BY OneListed
<1>3. Listed(<<>>) /\ Len(<<>>) = 0
  BY NoneListed
<1> QED BY <1>1, <1>2, <1>3 DEF d

(* Some instructions at a, and those that may follow at b.                  *)
LEMMA FollowedIs ==
  ASSUME NEW a, NEW s, NEW b, NEW t, Listed(s), Listed(t)
  PROVE  LET c == On(a, s) \o On(b, t)
         IN  /\ Listed(c) /\ Len(c) = Len(s) + Len(t)
             /\ \A i \in 1 .. Len(s) : c[i].at = a /\ c[i].do = s[i]
             /\ \A i \in 1 .. Len(t) : c[Len(s) + i].at = b /\ c[Len(s) + i].do = t[i]
<1> DEFINE u == On(a, s)
           v == On(b, t)
<1>1. /\ Listed(u) /\ Len(u) = Len(s) /\ \A i \in 1 .. Len(s) : u[i].at = a /\ u[i].do = s[i]
      /\ Listed(v) /\ Len(v) = Len(t) /\ \A i \in 1 .. Len(t) : v[i].at = b /\ v[i].do = t[i]
  BY OnIs
<1> HIDE DEF u, v
<1>2. Listed(u) /\ Listed(v)
  BY <1>1
<1> DEFINE c == u \o v
<1>3. /\ Listed(c) /\ Len(c) = Len(u) + Len(v)
      /\ \A i \in 1 .. Len(u) : c[i] = u[i]
      /\ \A i \in 1 .. Len(v) : c[Len(u) + i] = v[i]
  BY ONLY <1>2, CatListed
<1> HIDE DEF c
<1>4. /\ Listed(c) /\ Len(c) = Len(s) + Len(t)
      /\ \A i \in 1 .. Len(s) : c[i].at = a /\ c[i].do = s[i]
      /\ \A i \in 1 .. Len(t) : c[Len(s) + i].at = b /\ c[Len(s) + i].do = t[i]
  BY <1>1, <1>3
<1> QED BY <1>4 DEF c, u, v

(* Does a for, or a filter, end with the load of the old value?             *)
Reloads(p, k) ==
  IF p[k].op = "for" THEN Each(p[k]) /\ ~ Filtered(p, k) /\ Grows(p, p[k].of)
  ELSE Each(p[p[k].of]) /\ Grows(p, p[p[k].of].of)

LEMMA ForCodeIs ==
  ASSUME NEW p, IsBody(p), NEW k \in 1 .. Len(p), p[k].op = "for"
  PROVE  LET c == TokenCode(p, k)
             h == H(p, k)
             g == p[k].of
         IN  /\ Listed(c) /\ Len(c) = h + IF Reloads(p, k) THEN 1 ELSE 0
             /\ \A i \in 1 .. h : c[i].at = k /\ c[i].do = ForHead(p, k)[i]
             /\ Reloads(p, k) => /\ c[h + 1].at = k + 1
                                 /\ c[h + 1].do = Let(Old(p, g), Var(Acc(p, g)))
<1> DEFINE s == ForHead(p, k)
           r == IF Each(p[k]) /\ ~ Filtered(p, k) THEN ReadOld(p, p[k].of) ELSE <<>>
           h == H(p, k)
           d == Let(Old(p, p[k].of), Var(Acc(p, p[k].of)))
<1>1. Listed(s) /\ Len(s) = h
  BY HeadIs
<1>2. Listed(r) /\ Len(r) = (IF Reloads(p, k) THEN 1 ELSE 0) /\ (Reloads(p, k) => r[1] = d)
  <2>1. Reloads(p, k) <=> Each(p[k]) /\ ~ Filtered(p, k) /\ Grows(p, p[k].of)
    BY DEF Reloads
  <2>2. CASE Each(p[k]) /\ ~ Filtered(p, k)
    <3>1. r = ReadOld(p, p[k].of)
      BY <2>2
    <3> QED BY <2>1, <2>2, <3>1, ReadOldIs
  <2>3. CASE ~ (Each(p[k]) /\ ~ Filtered(p, k))
    <3>1. r = <<>>
      BY <2>3
    <3> HIDE DEF r, d
    <3> QED BY <2>1, <2>3, <3>1, NoneListed
  <2> QED BY <2>2, <2>3
<1>3. TokenCode(p, k) = On(k, s) \o On(k + 1, r)
  <2>1. On(k + 1, <<>>) = <<>>
    BY DEF On
  <2>2. TokenCode(p, k) = ForCode(p, k)
    BY DEF TokenCode
  <2>3. CASE Each(p[k]) /\ ~ Filtered(p, k)
    BY <2>2, <2>3 DEF ForCode
  <2>4. CASE ~ (Each(p[k]) /\ ~ Filtered(p, k))
    BY <2>1, <2>2, <2>4 DEF ForCode
  <2> QED BY <2>3, <2>4
<1> HIDE DEF s, r, d, h
<1> DEFINE c == On(k, s) \o On(k + 1, r)
<1>4. /\ Listed(c) /\ Len(c) = Len(s) + Len(r)
      /\ \A i \in 1 .. Len(s) : c[i].at = k /\ c[i].do = s[i]
      /\ \A i \in 1 .. Len(r) : c[Len(s) + i].at = k + 1 /\ c[Len(s) + i].do = r[i]
  <2>1. Listed(s) /\ Listed(r)
    BY <1>1, <1>2
  <2> DEFINE b == k + 1
  <2>2. c = On(k, s) \o On(b, r)
    OBVIOUS
  <2> HIDE DEF b
  <2>3. /\ Listed(c) /\ Len(c) = Len(s) + Len(r)
        /\ \A i \in 1 .. Len(s) : c[i].at = k /\ c[i].do = s[i]
        /\ \A i \in 1 .. Len(r) : c[Len(s) + i].at = b /\ c[Len(s) + i].do = r[i]
    <3> HIDE DEF c
    <3> QED BY ONLY <2>1, <2>2, FollowedIs
  <2> QED BY <2>3 DEF b
<1> HIDE DEF c
<1>5. Reloads(p, k) => 1 \in 1 .. Len(r)
  BY <1>2
<1>6. /\ Listed(c) /\ Len(c) = h + IF Reloads(p, k) THEN 1 ELSE 0
      /\ \A i \in 1 .. h : c[i].at = k /\ c[i].do = s[i]
      /\ Reloads(p, k) => c[h + 1].at = k + 1 /\ c[h + 1].do = d
  BY <1>1, <1>2, <1>4, <1>5
<1> QED BY <1>3, <1>6 DEF s, d, h, c

LEMMA FilterCodeIs ==
  ASSUME NEW p, IsBody(p), NEW k \in 1 .. Len(p), p[k].op = "filter"
  PROVE  LET c == TokenCode(p, k)
             l == p[k].of
             g == p[l].of
         IN  /\ Listed(c) /\ Len(c) = 1 + IF Reloads(p, k) THEN 1 ELSE 0
             /\ c[1].at = k /\ c[1].do = If(p[k].c, <<"filter", l>>)
             /\ Reloads(p, k) => /\ c[2].at = k + 1
                                 /\ c[2].do = Let(Old(p, g), Var(Acc(p, g)))
<1> DEFINE l == p[k].of
           e == If(p[k].c, <<"filter", l>>)
           s == <<e>>
           r == IF Each(p[l]) THEN ReadOld(p, p[l].of) ELSE <<>>
           d == Let(Old(p, p[l].of), Var(Acc(p, p[l].of)))
<1>1. Listed(s) /\ Len(s) = 1 /\ s[1] = e
  <2> HIDE DEF e
  <2> QED BY OneListed
<1>2. Listed(r) /\ Len(r) = (IF Reloads(p, k) THEN 1 ELSE 0) /\ (Reloads(p, k) => r[1] = d)
  <2>1. Reloads(p, k) <=> Each(p[l]) /\ Grows(p, p[l].of)
    BY DEF Reloads
  <2>2. CASE Each(p[l])
    <3>1. r = ReadOld(p, p[l].of)
      BY <2>2
    <3> QED BY <2>1, <2>2, <3>1, ReadOldIs
  <2>3. CASE ~ Each(p[l])
    <3>1. r = <<>>
      BY <2>3
    <3> HIDE DEF r, d
    <3> QED BY <2>1, <2>3, <3>1, NoneListed
  <2> QED BY <2>2, <2>3
<1>3. TokenCode(p, k) = On(k, s) \o On(k + 1, r)
  <2>1. On(k + 1, <<>>) = <<>>
    BY DEF On
  <2>2. TokenCode(p, k) = FilterCode(p, k)
    BY DEF TokenCode
  <2>3. CASE Each(p[l])
    BY <2>2, <2>3 DEF FilterCode
  <2>4. CASE ~ Each(p[l])
    BY <2>1, <2>2, <2>4 DEF FilterCode
  <2> QED BY <2>3, <2>4
<1> HIDE DEF s, r, d, e
<1> DEFINE c == On(k, s) \o On(k + 1, r)
<1>4. /\ Listed(c) /\ Len(c) = Len(s) + Len(r)
      /\ \A i \in 1 .. Len(s) : c[i].at = k /\ c[i].do = s[i]
      /\ \A i \in 1 .. Len(r) : c[Len(s) + i].at = k + 1 /\ c[Len(s) + i].do = r[i]
  <2>1. Listed(s) /\ Listed(r)
    BY <1>1, <1>2
  <2> DEFINE b == k + 1
  <2>2. c = On(k, s) \o On(b, r)
    OBVIOUS
  <2> HIDE DEF b
  <2>3. /\ Listed(c) /\ Len(c) = Len(s) + Len(r)
        /\ \A i \in 1 .. Len(s) : c[i].at = k /\ c[i].do = s[i]
        /\ \A i \in 1 .. Len(r) : c[Len(s) + i].at = b /\ c[Len(s) + i].do = r[i]
    <3> HIDE DEF c
    <3> QED BY ONLY <2>1, <2>2, FollowedIs
  <2> QED BY <2>3 DEF b
<1> HIDE DEF c
<1>5. 1 \in 1 .. 1
  OBVIOUS
<1>6. /\ Listed(c) /\ Len(c) = 1 + IF Reloads(p, k) THEN 1 ELSE 0
      /\ c[1].at = k /\ c[1].do = e
      /\ Reloads(p, k) => c[1 + 1].at = k + 1 /\ c[1 + 1].do = d
  BY <1>1, <1>2, <1>4, <1>5
<1> QED BY <1>3, <1>6 DEF d, e, c

-----------------------------------------------------------------------------
(* What the closing token of a loop is lowered to. *)

Gained(p, g, k) ==
  [op |-> IF p[g].how = "sum" THEN "add" ELSE "concat",
   x |-> Acc(p, g), l |-> Old(p, g), e |-> p[k].e]

Stop == [op |-> "break"]

GainShape(p, g, l, k) ==
  LET s    == Gain(p, g, l, k)
      test == <<"test", k>>
      any  == p[g].how = "any"
  IN  IF Grows(p, g) THEN s[1] = Ins(k, Gained(p, g, k))
      ELSE /\ s[1] = Ins(k, If(p[k].e, test))
           /\ s[IF any THEN 2 ELSE 3] = Ins(k, Let(Acc(p, g), Truth(any)))
           /\ s[IF any THEN 3 ELSE 4] = Ins(k + 1, Stop)
           /\ s[IF any THEN 4 ELSE 2] = Ins(l, Mark("else", test))
           /\ s[5] = Ins(l, Mark("fi", test))

LEMMA GainIs ==
  ASSUME NEW p, NEW g, NEW l, NEW k, p[g].how \in {"sum", "any", "all", "list"}
  PROVE  /\ Listed(Gain(p, g, l, k))
         /\ Len(Gain(p, g, l, k)) = IF Grows(p, g) THEN 1 ELSE 5
         /\ GainShape(p, g, l, k)
<1> DEFINE test == <<"test", k>>
           grow(op) == Ins(k, [op |-> op, x |-> Acc(p, g), l |-> Old(p, g), e |-> p[k].e])
           known(v) == Ins(k, Let(Acc(p, g), Truth(v)))
           a == Ins(k, If(p[k].e, test))
           b == Ins(k + 1, Stop)
           c == Ins(l, Mark("else", test))
           d == Ins(l, Mark("fi", test))
           s == Gain(p, g, l, k)
           add == grow("add")
           cat == grow("concat")
           yes == known(TRUE)
           no  == known(FALSE)
<1>1. CASE p[g].how = "sum"
  <2>1. s = <<add>>
    BY <1>1 DEF Gain
  <2>2. Grows(p, g) /\ add = Ins(k, Gained(p, g, k))
    BY <1>1 DEF Grows, Gained
  <2> HIDE DEF add, s
  <2>3. Listed(s) /\ Len(s) = 1 /\ s[1] = add
    BY <2>1, OneListed
  <2> QED BY <2>2, <2>3 DEF s, GainShape
<1>2. CASE p[g].how = "list"
  <2>1. s = <<cat>>
    BY <1>2 DEF Gain
  <2>2. Grows(p, g) /\ cat = Ins(k, Gained(p, g, k))
    BY <1>2 DEF Grows, Gained
  <2> HIDE DEF cat, s
  <2>3. Listed(s) /\ Len(s) = 1 /\ s[1] = cat
    BY <2>1, OneListed
  <2> QED BY <2>2, <2>3 DEF s, GainShape
<1>3. CASE p[g].how = "any"
  <2>1. s = <<a, yes, b, c, d>>
    BY <1>3 DEF Gain, Stop
  <2>2. ~ Grows(p, g) /\ yes = known(p[g].how = "any")
    BY <1>3 DEF Grows
  <2> HIDE DEF a, b, c, d, yes, s
  <2>3. Listed(s) /\ Len(s) = 5 /\ s[1] = a /\ s[2] = yes /\ s[3] = b /\ s[4] = c /\ s[5] = d
    BY <2>1, FiveListed
  <2> QED BY <1>3, <2>2, <2>3 DEF s, a, b, c, d, GainShape
<1>4. CASE p[g].how = "all"
  <2>1. s = <<a, c, no, b, d>>
    BY <1>4 DEF Gain, Stop
  <2>2. ~ Grows(p, g) /\ no = known(p[g].how = "any")
    BY <1>4 DEF Grows
  <2> HIDE DEF a, b, c, d, no, s
  <2>3. Listed(s) /\ Len(s) = 5 /\ s[1] = a /\ s[2] = c /\ s[3] = no /\ s[4] = b /\ s[5] = d
    BY <2>1, FiveListed
  <2> QED BY <1>4, <2>2, <2>3 DEF s, a, b, c, d, GainShape
<1> QED BY <1>1, <1>2, <1>3, <1>4

(* The closing token of a loop. *)
Closing(p, k) == p[k].op \in {"end", "yield"} /\ IsLoop(p[p[k].of])

(* The loop of a gathering, by its yield.                                   *)
LEMMA YieldIs ==
  ASSUME NEW p, IsBody(p), NEW k \in 1 .. Len(p), p[k].op = "yield"
  PROVE  LET l == p[k].of
         IN  /\ l \in 1 .. Len(p) /\ Each(p[l]) /\ IsLoop(p[l]) /\ k = End(p, l)
             /\ p[l].of \in 1 .. Len(p) /\ p[p[l].of].op = "gather" /\ Innermost(p[l].of, Around(p, l))
             /\ p[p[l].of].how \in {"sum", "any", "all", "list"}
<1> DEFINE l == p[k].of
<1>1. Fits(p, k)
  BY BodyIs
<1>2. Belongs(p, k) /\ Each(p[l])
  BY <1>1 DEF Fits, Each
<1>3. l \in 1 .. Len(p)
  <2>1. l \in Around(p, k) /\ k \in 1 .. Len(p) + 1
    BY <1>2, BodyIs DEF Belongs, Innermost
  <2> QED BY <2>1, AroundOf
<1>4. p[l].op = "for" /\ IsLoop(p[l])
  BY <1>2 DEF Each, IsLoop
<1>5. k = End(p, l)
  <2>1. p[l].op \in Opens /\ p[k].op \in Closes
    BY <1>4 DEF Opens, Closes
  <2> QED BY <1>3, <2>1, EndIs
<1>6. Belongs(p, l) /\ p[p[l].of].op = "gather"
  <2>1. Fits(p, l)
    BY <1>3, BodyIs
  <2> DEFINE t == p[l]
  <2>2. Each(t) /\ t.op = "for"
    BY <1>2, <1>4
  <2>3. Fits(p, l) = (Belongs(p, l) /\ p[t.of].op = "gather" /\ p[l - 1].op \in {"gather", "result"})
    BY <2>2 DEF Fits
  <2> QED BY <2>1, <2>3
<1>7. p[l].of \in 1 .. Len(p)
  <2>1. p[l].of \in Around(p, l) /\ l \in 1 .. Len(p) + 1
    BY <1>3, <1>6, BodyIs DEF Belongs, Innermost
  <2> QED BY <2>1, AroundOf
<1>8. p[p[l].of].how \in {"sum", "any", "all", "list"}
  BY <1>6, <1>7, BodyIs DEF Typed
<1> QED BY <1>2, <1>3, <1>4, <1>5, <1>6, <1>7, <1>8 DEF Belongs

LEMMA ClosingOf ==
  ASSUME NEW p, IsBody(p), NEW k \in 1 .. Len(p), Closing(p, k)
  PROVE  LET l == p[k].of
         IN  /\ l \in 1 .. Len(p) /\ IsLoop(p[l]) /\ k = End(p, l) /\ p[l].op \in Opens
             /\ p[k].op = "yield" <=> Each(p[l])
<1> DEFINE l == p[k].of
<1>1. p[k].op \in Closes /\ IsLoop(p[l])
  BY DEF Closing, Closes
<1>2. l \in Around(p, k) /\ k \in 1 .. Len(p) + 1
  BY <1>1, ClosesIs, BodyIs DEF Belongs, Innermost
<1>3. l \in 1 .. Len(p) /\ p[l].op \in Opens
  BY <1>2, AroundOf
<1>4. k = End(p, l)
  BY <1>1, <1>3, EndIs
<1>5. p[k].op = IF p[l].op = "gather" THEN "result" ELSE IF Each(p[l]) THEN "yield" ELSE "end"
  BY <1>3, <1>4, CloseIs
<1>6. p[l].op # "gather"
  BY <1>1 DEF IsLoop
<1> QED BY <1>1, <1>3, <1>4, <1>5, <1>6

LEMMA ClosingIs ==
  ASSUME NEW p, IsBody(p), NEW k \in 1 .. Len(p), Closing(p, k)
  PROVE  LET c == TokenCode(p, k)
             l == p[k].of
             s == Turned(p, l)
             q == Q(p, l)
         IN  /\ Listed(c) /\ Len(c) = q + Len(s) /\ q \in {0, 1, 5}
             /\ p[k].op = "yield" => \A i \in 1 .. q : c[i] = Gain(p, p[l].of, l, k)[i]
             /\ p[k].op # "yield" => q = 0
             /\ \A i \in 1 .. Len(s) :
                  c[q + i].do = s[i] /\ c[q + i].at = IF q + i = 1 THEN k ELSE l
<1> DEFINE l == p[k].of
           s == Turned(p, l)
           q == Q(p, l)
           c == TokenCode(p, k)
<1>1. l \in 1 .. Len(p) /\ IsLoop(p[l]) /\ (p[k].op = "yield" <=> Each(p[l]))
  BY ClosingOf
<1>2. Listed(s) /\ Len(s) \in Nat /\ Len(s) >= 1
  <2>1. Listed(s) /\ Len(s) = F(p, l) + B(p, l) + 3 /\ F(p, l) \in {0, 2} /\ B(p, l) \in {0, 1, 2}
    BY <1>1, TurnedIs
  <2> HIDE DEF s
  <2> QED BY <2>1
<1>3. CASE p[k].op = "yield"
  <2> DEFINE g == Gain(p, p[l].of, l, k)
             o == On(l, s)
  <2>1. c = g \o o
    BY <1>3 DEF TokenCode, YieldCode
  <2>2. Listed(g) /\ Len(g) = q /\ q \in {1, 5}
    <3>1. p[p[l].of].how \in {"sum", "any", "all", "list"}
      BY <1>3, YieldIs
    <3>2. Each(p[l])
      BY <1>1, <1>3
    <3>3. q = IF Grows(p, p[l].of) THEN 1 ELSE 5
      BY <3>2 DEF Q, Grows
    <3>4. Listed(g) /\ Len(g) = IF Grows(p, p[l].of) THEN 1 ELSE 5
      <4> DEFINE m == p[l].of
      <4>1. p[m].how \in {"sum", "any", "all", "list"}
        BY <3>1
      <4> HIDE DEF q, s, m, l
      <4>2. Listed(Gain(p, m, l, k)) /\ Len(Gain(p, m, l, k)) = IF Grows(p, m) THEN 1 ELSE 5
        BY ONLY <4>1, GainIs
      <4> QED BY <4>2 DEF m
    <3> HIDE DEF g
    <3> QED BY <3>3, <3>4
  <2>3. Listed(o) /\ Len(o) = Len(s) /\ \A i \in 1 .. Len(s) : o[i].at = l /\ o[i].do = s[i]
    <3> HIDE DEF s
    <3> QED BY <1>2, OnIs
  <2> HIDE DEF g, o, c, q, s
  <2>4. Listed(g) /\ Listed(o)
    BY <2>2, <2>3
  <2>5. /\ Listed(c) /\ Len(c) = Len(g) + Len(o)
        /\ \A i \in 1 .. Len(g) : c[i] = g[i]
        /\ \A i \in 1 .. Len(o) : c[Len(g) + i] = o[i]
    BY ONLY <2>1, <2>4, CatListed
  <2>6. /\ Listed(c) /\ Len(c) = q + Len(s) /\ \A i \in 1 .. q : c[i] = g[i]
        /\ \A i \in 1 .. Len(s) : c[q + i].do = s[i] /\ c[q + i].at = l
    BY <2>2, <2>3, <2>5
  <2>7. \A i \in 1 .. Len(s) : q + i # 1
    BY <1>2, <2>2
  <2> QED BY <1>3, <2>2, <2>6, <2>7 DEF c, s, q, g
<1>4. CASE p[k].op # "yield"
  <2> DEFINE h == <<Head(s)>>
             r == Tail(s)
             a == On(k, h)
             b == On(l, r)
  <2>1. p[k].op = "end" /\ p[l].op # "if" /\ ~ Each(p[l])
    BY <1>1, <1>4 DEF Closing, IsLoop
  <2>2. c = a \o b
    BY <2>1 DEF TokenCode, EndCode
  <2>3. q = 0
    BY <2>1 DEF Q
  <2> HIDE DEF s
  <2>4. /\ Listed(r) /\ Len(r) = Len(s) - 1 /\ Head(s) = s[1]
        /\ \A i \in 1 .. Len(s) - 1 : r[i] = s[i + 1]
    BY <1>2, TailListed
  <2>5. Listed(h) /\ Len(h) = 1 /\ h[1] = s[1]
    BY <2>4, OneListed
  <2> HIDE DEF h, r
  <2>6. Listed(h) /\ Listed(r)
    BY <2>4, <2>5
  <2>7. /\ Listed(c) /\ Len(c) = Len(h) + Len(r)
        /\ \A i \in 1 .. Len(h) : c[i].at = k /\ c[i].do = h[i]
        /\ \A i \in 1 .. Len(r) : c[Len(h) + i].at = l /\ c[Len(h) + i].do = r[i]
    <3> HIDE DEF c, l
    <3> QED BY ONLY <2>2, <2>6, FollowedIs
  <2> HIDE DEF c, q, l
  <2>8. c[1].at = k /\ c[1].do = s[1] /\ Len(c) = 0 + Len(s)
    <3>1. 1 \in 1 .. Len(h)
      BY <2>5
    <3> QED BY <1>2, <2>4, <2>5, <2>7, <3>1
  <2>9. ASSUME NEW i \in 2 .. Len(s)
        PROVE  c[i].at = l /\ c[i].do = s[i]
    <3>1. i - 1 \in 1 .. Len(r) /\ i - 1 \in 1 .. Len(s) - 1 /\ Len(h) + (i - 1) = i /\ (i - 1) + 1 = i
      BY <1>2, <2>4, <2>5
    <3>2. c[Len(h) + (i - 1)].at = l /\ c[Len(h) + (i - 1)].do = r[i - 1]
      BY <2>7, <3>1
    <3>3. r[i - 1] = s[(i - 1) + 1]
      BY <2>4, <3>1
    <3> QED BY <3>1, <3>2, <3>3
  <2>10. ASSUME NEW i \in 1 .. Len(s)
         PROVE  c[0 + i].do = s[i] /\ c[0 + i].at = IF 0 + i = 1 THEN k ELSE l
    <3>1. 0 + i = i /\ (i = 1 \/ i \in 2 .. Len(s))
      BY <1>2
    <3>2. CASE i = 1
      BY <2>8, <3>1, <3>2
    <3>3. CASE i \in 2 .. Len(s)
      <4>1. i # 1
        BY <1>2, <3>3
      <4> QED BY <2>9, <3>1, <3>3, <4>1
    <3> QED BY <3>1, <3>2, <3>3
  <2> QED BY <1>4, <2>3, <2>7, <2>8, <2>10 DEF c, s, q, l
<1> QED BY <1>3, <1>4

-----------------------------------------------------------------------------
(* Every instruction there is: of the token k, the number i. *)
D(p, k, i) == TokenCode(p, k)[i].do
A(p, k, i) == TokenCode(p, k)[i].at
N(p, k)    == Len(TokenCode(p, k))

LoopId(k) == <<"loop", k>>

(* Does a for walk lists by an index, and its nth list.                     *)
Indexed(p, k) == p[k].op = "for" /\ (p[k].how = "zip" \/ ~ Ranged(p, k))
Holder(p, k, n) ==
  IF p[k].how = "zip" THEN (IF n = 1 THEN Zip0(p, k) ELSE Zip1(p, k)) ELSE ListOf(p, k)

Cond(p, k) ==
  IF p[k].op = "while" THEN p[k].c
  ELSE IF p[k].how = "zip"
       THEN Both(Less(Var(IndexOf(p, k)), Len_(Zip0(p, k))), Less(Var(IndexOf(p, k)), Len_(Zip1(p, k))))
       ELSE IF Ranged(p, k) THEN Less(Var(Over(p[k])), p[k].its[1].stop)
            ELSE Less(Var(IndexOf(p, k)), Len_(ListOf(p, k)))

AtSingle(p, k, i) ==
  Single(p[k]) /\ p[k].op # "while" /\ i = 1 /\ D(p, k, i) = Only(p, k) /\ A(p, k, i) = k
AtWhile(p, k, i) ==
  IsLoop(p[k]) /\ i = W(p, k) /\ D(p, k, i) = While(Cond(p, k), LoopId(k)) /\ A(p, k, i) = k
AtCount(p, k, i) ==
  /\ p[k].op = "for" /\ p[k].how = "enumerate" /\ i = 1 /\ i < W(p, k)
  /\ D(p, k, i) = Let(p[k].t[1], Num(p[k].start)) /\ A(p, k, i) = k
AtCounter(p, k, i) ==
  /\ p[k].op = "for" /\ ~ Indexed(p, k) /\ i = W(p, k) - 1
  /\ D(p, k, i) = Let(Over(p[k]), p[k].its[1].start) /\ A(p, k, i) = k
AtList(p, k, i, n) ==
  /\ Indexed(p, k) /\ n \in DOMAIN p[k].its /\ i = (IF p[k].how = "zip" THEN n ELSE W(p, k) - 2)
  /\ i < W(p, k)
  /\ D(p, k, i) = Let(Holder(p, k, n), Var(p[k].its[n].x)) /\ A(p, k, i) = k
AtIndex(p, k, i) ==
  /\ Indexed(p, k) /\ i = W(p, k) - 1
  /\ D(p, k, i) = Let(IndexOf(p, k), Num(0)) /\ A(p, k, i) = k
AtLoad(p, k, i, n) ==
  /\ Indexed(p, k) /\ n \in DOMAIN p[k].its /\ i = W(p, k) + n
  /\ D(p, k, i) = Load(IF p[k].how = "zip" THEN p[k].t[n] ELSE Over(p[k]),
                       Holder(p, k, n), IndexOf(p, k))
  /\ A(p, k, i) = k
AtReload(p, k, i) ==
  LET g == IF p[k].op = "for" THEN p[k].of ELSE p[p[k].of].of
  IN  /\ p[k].op \in {"for", "filter"} /\ Reloads(p, k)
      /\ i = IF p[k].op = "for" THEN H(p, k) + 1 ELSE 2
      /\ D(p, k, i) = Let(Old(p, g), Var(Acc(p, g))) /\ A(p, k, i) = k + 1
AtFilter(p, k, i) ==
  /\ p[k].op = "filter" /\ i = 1
  /\ D(p, k, i) = If(p[k].c, <<"filter", p[k].of>>) /\ A(p, k, i) = k
AtJoin(p, k, i) ==
  /\ p[k].op = "end" /\ p[p[k].of].op = "if" /\ i = 1
  /\ D(p, k, i) = Mark("fi", <<"if", p[k].of>>) /\ A(p, k, i) = k

(* A turn's gain.                                                           *)
Whole(p, k) == p[p[k].of].of
AnyOf(p, k) == p[Whole(p, k)].how = "any"
AtGain(p, k, i) ==
  /\ p[k].op = "yield" /\ Grows(p, Whole(p, k)) /\ i = 1
  /\ D(p, k, i) = Gained(p, Whole(p, k), k) /\ A(p, k, i) = k
Deciding(p, k) == p[k].op = "yield" /\ ~ Grows(p, Whole(p, k))
AtTest(p, k, i) ==
  /\ Deciding(p, k) /\ i = 1
  /\ D(p, k, i) = If(p[k].e, <<"test", k>>) /\ A(p, k, i) = k
AtKnown(p, k, i) ==
  /\ Deciding(p, k) /\ i = (IF AnyOf(p, k) THEN 2 ELSE 3)
  /\ D(p, k, i) = Let(Acc(p, Whole(p, k)), Truth(AnyOf(p, k))) /\ A(p, k, i) = k
AtStop(p, k, i) ==
  /\ Deciding(p, k) /\ i = (IF AnyOf(p, k) THEN 3 ELSE 4)
  /\ D(p, k, i) = Stop /\ A(p, k, i) = k + 1
AtOther(p, k, i) ==
  /\ Deciding(p, k) /\ i = (IF AnyOf(p, k) THEN 4 ELSE 2)
  /\ D(p, k, i) = Mark("else", <<"test", k>>) /\ A(p, k, i) = p[k].of
AtSettled(p, k, i) ==
  /\ Deciding(p, k) /\ i = 5
  /\ D(p, k, i) = Mark("fi", <<"test", k>>) /\ A(p, k, i) = p[k].of

(* The end of a turn.                                                       *)
Turn(p, k, i, n, d) ==
  LET l == p[k].of
  IN  /\ Closing(p, k) /\ i = Q(p, l) + n /\ D(p, k, i) = d
      /\ A(p, k, i) = IF i = 1 THEN k ELSE l
AtSkipped(p, k, i) ==
  Filtered(p, p[k].of) /\ Turn(p, k, i, 1, Mark("else", <<"filter", p[k].of>>))
AtKept(p, k, i) ==
  Filtered(p, p[k].of) /\ Turn(p, k, i, 2, Mark("fi", <<"filter", p[k].of>>))
AtNext(p, k, i) == Turn(p, k, i, F(p, p[k].of) + 1, Mark("next", LoopId(p[k].of)))
AtLatch(p, k, i) == Turn(p, k, i, F(p, p[k].of) + 2, Mark("latch", LoopId(p[k].of)))
AtBump(p, k, i) ==
  LET l == p[k].of
  IN  p[l].op = "for" /\ Turn(p, k, i, F(p, l) + 3, Bump(Counter(p, l), Stride(p, l)))
AtCountUp(p, k, i) ==
  LET l == p[k].of
  IN  /\ p[l].op = "for" /\ p[l].how = "enumerate"
      /\ Turn(p, k, i, F(p, l) + 4, Bump(p[l].t[1], 1))
AtEnd(p, k, i) ==
  LET l == p[k].of
  IN  Turn(p, k, i, F(p, l) + B(p, l) + 3, Mark("end", LoopId(l)))

OfHead(p, k, i) ==
  \/ AtWhile(p, k, i) \/ AtCount(p, k, i) \/ AtCounter(p, k, i) \/ AtIndex(p, k, i)
  \/ AtReload(p, k, i) \/ \E n \in {1, 2} : AtList(p, k, i, n) \/ AtLoad(p, k, i, n)
OfGain(p, k, i) ==
  \/ AtGain(p, k, i) \/ AtTest(p, k, i) \/ AtKnown(p, k, i) \/ AtStop(p, k, i)
  \/ AtOther(p, k, i) \/ AtSettled(p, k, i)
OfTurn(p, k, i) ==
  \/ AtSkipped(p, k, i) \/ AtKept(p, k, i) \/ AtNext(p, k, i) \/ AtLatch(p, k, i)
  \/ AtBump(p, k, i) \/ AtCountUp(p, k, i) \/ AtEnd(p, k, i)

(* What the lists of a for are, and its walk's place.                       *)
LEMMA WalkIs ==
  ASSUME NEW p, IsBody(p), NEW k \in 1 .. Len(p), p[k].op = "for"
  PROVE  /\ W(p, k) \in 2 .. 4 /\ H(p, k) \in 2 .. 6 /\ Enum(p, k) \in {0, 1}
         /\ p[k].how = "zip" => W(p, k) = 4 /\ H(p, k) = 6 /\ DOMAIN p[k].its = {1, 2}
         /\ p[k].how # "zip" => DOMAIN p[k].its = {1}
         /\ Indexed(p, k) => H(p, k) = W(p, k) + Len(p[k].its)
         /\ ~ Indexed(p, k) => H(p, k) = W(p, k) /\ p[k].how # "zip"
         /\ p[k].how # "zip" => W(p, k) = (IF Ranged(p, k) THEN 2 ELSE 3) + Enum(p, k)
         /\ Len(p[k].its) = IF p[k].how = "zip" THEN 2 ELSE 1
<1>1. /\ p[k].how \in {"plain", "enumerate", "zip", "generator", "each"}
      /\ DOMAIN p[k].its = 1 .. (IF p[k].how = "zip" THEN 2 ELSE 1)
      /\ p[k].how = "zip" => p[k].its[1].k = "list"
  BY ForIs
<1>2. Len(p[k].its) = IF p[k].how = "zip" THEN 2 ELSE 1
  <2>1. Typed(p, k)
    BY BodyIs
  <2>2. IsFor(p[k])
    BY <2>1 DEF Typed
  <2> QED BY <2>2 DEF IsFor
<1>3. p[k].how = "zip" => ~ Ranged(p, k) /\ DOMAIN p[k].its = {1, 2}
  BY <1>1 DEF Ranged
<1>4. p[k].how # "zip" => DOMAIN p[k].its = {1}
  BY <1>1
<1> QED BY <1>2, <1>3, <1>4 DEF W, H, Enum, Indexed

LEMMA HeadPlaces ==
  ASSUME NEW p, IsBody(p), NEW k \in 1 .. Len(p), p[k].op = "for", NEW i \in 1 .. N(p, k)
  PROVE  OfHead(p, k, i)
<1> DEFINE s == ForHead(p, k)
           h == H(p, k)
           w == W(p, k)
           o == Enum(p, k)
           how == p[k].how
<1>1. /\ N(p, k) = h + IF Reloads(p, k) THEN 1 ELSE 0
      /\ \A j \in 1 .. h : A(p, k, j) = k /\ D(p, k, j) = s[j]
      /\ Reloads(p, k) => /\ A(p, k, h + 1) = k + 1
                          /\ D(p, k, h + 1) = Let(Old(p, p[k].of), Var(Acc(p, p[k].of)))
  BY ForCodeIs DEF N, A, D
<1>2. /\ w \in 2 .. 4 /\ h \in 2 .. 6 /\ o \in {0, 1}
      /\ how = "zip" => w = 4 /\ h = 6 /\ DOMAIN p[k].its = {1, 2}
      /\ how # "zip" => DOMAIN p[k].its = {1}
      /\ Indexed(p, k) => h = w + Len(p[k].its)
      /\ ~ Indexed(p, k) => h = w /\ how # "zip"
      /\ how # "zip" => w = (IF Ranged(p, k) THEN 2 ELSE 3) + o
      /\ Len(p[k].its) = IF how = "zip" THEN 2 ELSE 1
  BY WalkIs
<1>3. CASE i = h + 1
  <2>1. Reloads(p, k)
    BY <1>1, <1>2, <1>3
  <2>2. AtReload(p, k, i)
    BY <1>1, <1>3, <2>1 DEF AtReload
  <2> QED BY <2>2 DEF OfHead
<1>4. CASE i \in 1 .. h
  <2>1. A(p, k, i) = k /\ D(p, k, i) = s[i] /\ IsLoop(p[k])
    BY <1>1, <1>4 DEF IsLoop
  <2>2. CASE how = "zip"
    <3>1. Indexed(p, k) /\ how # "enumerate"
      BY <2>2 DEF Indexed
    <3>2. /\ s[1] = Let(Zip0(p, k), Var(p[k].its[1].x))
          /\ s[2] = Let(Zip1(p, k), Var(p[k].its[2].x))
          /\ s[3] = Let(IndexOf(p, k), Num(0))
          /\ s[4] = While(Cond(p, k), LoopId(k))
          /\ s[5] = Load(p[k].t[1], Zip0(p, k), IndexOf(p, k))
          /\ s[6] = Load(p[k].t[2], Zip1(p, k), IndexOf(p, k))
      BY <2>2, HeadIs DEF Cond, LoopId
    <3>3. i \in {1, 2, 3, 4, 5, 6}
      BY <1>2, <1>4, <2>2
    <3>4. w = 4 /\ DOMAIN p[k].its = {1, 2}
      BY <1>2, <2>2
    <3>5. Holder(p, k, 1) = Zip0(p, k) /\ Holder(p, k, 2) = Zip1(p, k)
      BY <2>2 DEF Holder
    <3>6. CASE i = 1
      <4>1. AtList(p, k, 1, 1)
        BY <2>1, <2>2, <3>1, <3>2, <3>4, <3>5, <3>6 DEF AtList
      <4> QED BY <3>6, <4>1 DEF OfHead
    <3>7. CASE i = 2
      <4>1. AtList(p, k, 2, 2)
        BY <2>1, <2>2, <3>1, <3>2, <3>4, <3>5, <3>7 DEF AtList
      <4> QED BY <3>7, <4>1 DEF OfHead
    <3>8. CASE i = 3
      <4>1. AtIndex(p, k, 3)
        BY <2>1, <3>1, <3>2, <3>4, <3>8 DEF AtIndex
      <4> QED BY <3>8, <4>1 DEF OfHead
    <3>9. CASE i = 4
      <4>1. AtWhile(p, k, 4)
        BY <2>1, <3>1, <3>2, <3>4, <3>9 DEF AtWhile
      <4> QED BY <3>9, <4>1 DEF OfHead
    <3>10. CASE i = 5
      <4>1. AtLoad(p, k, 5, 1)
        BY <2>1, <2>2, <3>1, <3>2, <3>4, <3>5, <3>10 DEF AtLoad
      <4> QED BY <3>10, <4>1 DEF OfHead
    <3>11. CASE i = 6
      <4>1. AtLoad(p, k, 6, 2)
        BY <2>1, <2>2, <3>1, <3>2, <3>4, <3>5, <3>11 DEF AtLoad
      <4> QED BY <3>11, <4>1 DEF OfHead
    <3> QED BY <3>3, <3>6, <3>7, <3>8, <3>9, <3>10, <3>11
  <2>3. CASE how # "zip"
    <3>1. CASE i <= o
      <4>1. i = 1 /\ how = "enumerate"
        BY <1>2, <1>4, <3>1 DEF Enum
      <4>2. s[1] = Let(p[k].t[1], Num(p[k].start))
        BY <4>1, HeadIs
      <4>3. 1 < w
        BY <1>2, <2>3, <3>1, <4>1
      <4>4. AtCount(p, k, i)
        BY <2>1, <4>1, <4>2, <4>3 DEF AtCount
      <4> QED BY <4>4 DEF OfHead
    <3>2. CASE i > o /\ Ranged(p, k)
      <4>1. /\ s[o + 1] = Let(Over(p[k]), p[k].its[1].start)
            /\ s[o + 2] = While(Less(Var(Over(p[k])), p[k].its[1].stop), LoopId(k))
        BY <2>3, <3>2, HeadIs DEF LoopId
      <4>2. ~ Indexed(p, k) /\ w = o + 2 /\ h = w /\ w - 1 = o + 1
        BY <1>2, <2>3, <3>2 DEF Indexed
      <4>3. i = o + 1 \/ i = o + 2
        BY <1>2, <1>4, <3>2, <4>2
      <4>4. Cond(p, k) = Less(Var(Over(p[k])), p[k].its[1].stop)
        BY <2>3, <3>2 DEF Cond
      <4>5. CASE i = o + 1
        <5>1. AtCounter(p, k, i)
          BY <2>1, <4>1, <4>2, <4>5 DEF AtCounter
        <5> QED BY <5>1 DEF OfHead
      <4>6. CASE i = o + 2
        <5>1. AtWhile(p, k, i)
          BY <2>1, <4>1, <4>2, <4>4, <4>6 DEF AtWhile
        <5> QED BY <5>1 DEF OfHead
      <4> QED BY <4>3, <4>5, <4>6
    <3>3. CASE i > o /\ ~ Ranged(p, k)
      <4>1. /\ s[o + 1] = Let(ListOf(p, k), Var(p[k].its[1].x))
            /\ s[o + 2] = Let(IndexOf(p, k), Num(0))
            /\ s[o + 3] = While(Less(Var(IndexOf(p, k)), Len_(ListOf(p, k))), LoopId(k))
            /\ s[o + 4] = Load(Over(p[k]), ListOf(p, k), IndexOf(p, k))
        BY <2>3, <3>3, HeadIs DEF LoopId
      <4>2. Indexed(p, k) /\ w = o + 3 /\ h = o + 4 /\ w - 1 = o + 2 /\ w - 2 = o + 1 /\ w + 1 = o + 4
        BY <1>2, <2>3, <3>3 DEF Indexed
      <4>3. i = o + 1 \/ i = o + 2 \/ i = o + 3 \/ i = o + 4
        BY <1>2, <1>4, <3>3, <4>2
      <4>4. Cond(p, k) = Less(Var(IndexOf(p, k)), Len_(ListOf(p, k)))
        BY <2>3, <3>3 DEF Cond
      <4>5. Holder(p, k, 1) = ListOf(p, k) /\ 1 \in DOMAIN p[k].its
        BY <1>2, <2>3 DEF Holder
      <4>6. CASE i = o + 1
        <5>1. i < w
          BY <1>2, <4>2, <4>6
        <5>2. AtList(p, k, i, 1)
          BY <2>1, <2>3, <4>1, <4>2, <4>5, <4>6, <5>1 DEF AtList
        <5> QED BY <5>2 DEF OfHead
      <4>7. CASE i = o + 2
        <5>1. AtIndex(p, k, i)
          BY <2>1, <4>1, <4>2, <4>7 DEF AtIndex
        <5> QED BY <5>1 DEF OfHead
      <4>8. CASE i = o + 3
        <5>1. AtWhile(p, k, i)
          BY <2>1, <4>1, <4>2, <4>4, <4>8 DEF AtWhile
        <5> QED BY <5>1 DEF OfHead
      <4>9. CASE i = o + 4
        <5>1. AtLoad(p, k, i, 1)
          BY <2>1, <2>3, <4>1, <4>2, <4>5, <4>9 DEF AtLoad
        <5> QED BY <5>1 DEF OfHead
      <4> QED BY <4>3, <4>6, <4>7, <4>8, <4>9
    <3> QED BY <1>2, <1>4, <3>1, <3>2, <3>3
  <2> QED BY <2>2, <2>3
<1> QED BY <1>1, <1>2, <1>3, <1>4

LEMMA FilterIs ==
  ASSUME NEW p, IsBody(p), NEW k \in 1 .. Len(p), p[k].op = "filter"
  PROVE  LET l == p[k].of
         IN  /\ l = k - 1 /\ l \in 1 .. Len(p) /\ p[l].op = "for" /\ Filtered(p, l)
             /\ p[l].how \in {"generator", "each"}
             /\ Around(p, k) = Around(p, l) \cup {l}
<1> DEFINE l == p[k].of
<1>1. Belongs(p, k) /\ l = k - 1 /\ p[l].op = "for" /\ p[l].how \in {"generator", "each"}
  <2>1. Fits(p, k)
    BY BodyIs
  <2> DEFINE t == p[k]
  <2>2. t.op = "filter" /\ ~ Each(t)
    BY DEF Each
  <2>3. Fits(p, k) = (Belongs(p, k) /\ t.of = k - 1 /\ p[t.of].op = "for" /\ p[t.of].how \in {"generator", "each"})
    BY <2>2 DEF Fits
  <2> QED BY <2>1, <2>3
<1>2. l \in 1 .. Len(p)
  <2>1. l \in Around(p, k) /\ k \in 1 .. Len(p) + 1
    BY <1>1, BodyIs DEF Belongs, Innermost
  <2> QED BY <2>1, AroundOf
<1>3. k = l + 1
  BY <1>1, <1>2
<1>4. Filtered(p, l)
  BY <1>1, <1>3 DEF Filtered
<1>5. Around(p, l + 1) = Around(p, l) \cup {l}
  BY <1>1, <1>2, AfterEnd DEF Opens
<1> QED BY <1>1, <1>2, <1>3, <1>4, <1>5

LEMMA GainPlaces ==
  ASSUME NEW p, IsBody(p), NEW k \in 1 .. Len(p), p[k].op = "yield", NEW i \in 1 .. Q(p, p[k].of)
  PROVE  OfGain(p, k, i)
<1> DEFINE l == p[k].of
           g == p[l].of
           s == Gain(p, g, l, k)
           any == p[g].how = "any"
<1>1. Each(p[l]) /\ IsLoop(p[l]) /\ p[g].how \in {"sum", "any", "all", "list"}
  BY YieldIs
<1>2. Closing(p, k)
  BY <1>1 DEF Closing
<1>3. TokenCode(p, k)[i] = s[i]
  BY <1>2, ClosingIs
<1>4. g = Whole(p, k) /\ (any <=> AnyOf(p, k))
  BY DEF Whole, AnyOf
<1>5. GainShape(p, g, l, k)
  BY <1>1, GainIs
<1>6. CASE Grows(p, g)
  <2>1. i = 1
    BY <1>1, <1>6 DEF Q, Grows
  <2>2. s[1] = Ins(k, Gained(p, g, k))
    BY <1>5, <1>6 DEF GainShape
  <2>3. AtGain(p, k, i)
    BY <1>3, <1>4, <1>6, <2>1, <2>2 DEF AtGain, D, A, Ins
  <2> QED BY <2>3 DEF OfGain
<1>7. CASE ~ Grows(p, g)
  <2>1. i \in 1 .. 5
    BY <1>1, <1>7 DEF Q, Grows
  <2>2. Deciding(p, k)
    BY <1>4, <1>7 DEF Deciding
  <2>3. /\ s[1] = Ins(k, If(p[k].e, <<"test", k>>))
        /\ s[IF any THEN 2 ELSE 3] = Ins(k, Let(Acc(p, g), Truth(any)))
        /\ s[IF any THEN 3 ELSE 4] = Ins(k + 1, Stop)
        /\ s[IF any THEN 4 ELSE 2] = Ins(l, Mark("else", <<"test", k>>))
        /\ s[5] = Ins(l, Mark("fi", <<"test", k>>))
    BY <1>5, <1>7 DEF GainShape
  <2>4. CASE i = 1
    <3>1. D(p, k, i) = Ins(k, If(p[k].e, <<"test", k>>)).do
          /\ A(p, k, i) = Ins(k, If(p[k].e, <<"test", k>>)).at
      BY <1>3, <2>3, <2>4 DEF D, A
    <3> HIDE DEF s, g, any
    <3>2. AtTest(p, k, i)
      BY <2>2, <2>4, <3>1 DEF AtTest, Ins
    <3> QED BY <3>2 DEF OfGain
  <2>5. CASE i = IF any THEN 2 ELSE 3
    <3>1. s[i] = Ins(k, Let(Acc(p, g), Truth(AnyOf(p, k))))
      BY <2>3, <2>5 DEF AnyOf, Whole
    <3>2. i = (IF AnyOf(p, k) THEN 2 ELSE 3)
      BY <1>4, <2>5
    <3> HIDE DEF s, g, any
    <3>3. D(p, k, i) = Ins(k, Let(Acc(p, g), Truth(AnyOf(p, k)))).do /\ A(p, k, i) = Ins(k, Let(Acc(p, g), Truth(AnyOf(p, k)))).at
      BY <1>3, <3>1 DEF D, A
    <3>4. AtKnown(p, k, i)
      BY <1>4, <2>2, <3>2, <3>3 DEF AtKnown, Ins, l
    <3> QED BY <3>4 DEF OfGain
  <2>6. CASE i = IF any THEN 3 ELSE 4
    <3>1. s[i] = Ins(k + 1, Stop)
      BY <2>3, <2>6 DEF AnyOf, Whole
    <3>2. i = (IF AnyOf(p, k) THEN 3 ELSE 4)
      BY <1>4, <2>6
    <3> HIDE DEF s, g, any
    <3>3. D(p, k, i) = Ins(k + 1, Stop).do /\ A(p, k, i) = Ins(k + 1, Stop).at
      BY <1>3, <3>1 DEF D, A
    <3>4. AtStop(p, k, i)
      BY <1>4, <2>2, <3>2, <3>3 DEF AtStop, Ins, l
    <3> QED BY <3>4 DEF OfGain
  <2>7. CASE i = IF any THEN 4 ELSE 2
    <3>1. s[i] = Ins(l, Mark("else", <<"test", k>>))
      BY <2>3, <2>7 DEF AnyOf, Whole
    <3>2. i = (IF AnyOf(p, k) THEN 4 ELSE 2)
      BY <1>4, <2>7
    <3> HIDE DEF s, g, any
    <3>3. D(p, k, i) = Ins(l, Mark("else", <<"test", k>>)).do /\ A(p, k, i) = Ins(l, Mark("else", <<"test", k>>)).at
      BY <1>3, <3>1 DEF D, A
    <3>4. AtOther(p, k, i)
      BY <1>4, <2>2, <3>2, <3>3 DEF AtOther, Ins, l
    <3> QED BY <3>4 DEF OfGain
  <2>8. CASE i = 5
    <3>1. AtSettled(p, k, i)
      BY <1>3, <1>4, <2>2, <2>3, <2>8 DEF AtSettled, D, A, Ins
    <3> QED BY <3>1 DEF OfGain
  <2> QED BY <2>1, <2>4, <2>5, <2>6, <2>7, <2>8
<1> QED BY <1>6, <1>7

LEMMA TurnPlaces ==
  ASSUME NEW p, IsBody(p), NEW k \in 1 .. Len(p), Closing(p, k),
         NEW i \in 1 .. N(p, k), i > Q(p, p[k].of)
  PROVE  OfTurn(p, k, i)
<1> DEFINE l  == p[k].of
           s  == Turned(p, l)
           f  == F(p, l)
           b  == B(p, l)
           q  == Q(p, l)
           n  == i - q
<1>1. l \in 1 .. Len(p) /\ IsLoop(p[l])
  BY ClosingOf
<1>2. /\ Len(s) = f + b + 3
      /\ f \in {0, 2} /\ b \in {0, 1, 2} /\ (p[l].op = "for" => b # 0)
      /\ f = 2 => s[1] = Mark("else", <<"filter", l>>) /\ s[2] = Mark("fi", <<"filter", l>>)
      /\ s[f + 1] = Mark("next", LoopId(l))
      /\ s[f + 2] = Mark("latch", LoopId(l))
      /\ b >= 1 => s[f + 3] = Bump(Counter(p, l), Stride(p, l))
      /\ b = 2 => p[l].how = "enumerate" /\ s[f + 4] = Bump(p[l].t[1], 1)
      /\ s[f + b + 3] = Mark("end", LoopId(l))
  <2>1. LoopId(l) = <<"loop", l>>
    BY DEF LoopId
  <2> HIDE DEF l
  <2> QED BY <1>1, <2>1, TurnedIs
<1>3. /\ N(p, k) = q + Len(s) /\ q \in {0, 1, 5}
      /\ \A j \in 1 .. Len(s) : D(p, k, q + j) = s[j] /\ A(p, k, q + j) = IF q + j = 1 THEN k ELSE l
  BY ClosingIs DEF N, D, A
<1>4. n \in 1 .. f + b + 3 /\ i = q + n
  BY <1>2, <1>3
<1>5. D(p, k, i) = s[n] /\ A(p, k, i) = IF i = 1 THEN k ELSE l
  BY <1>2, <1>3, <1>4
<1>6. ASSUME NEW m, NEW d, n = m, s[n] = d PROVE Turn(p, k, i, m, d)
  BY <1>4, <1>5, <1>6 DEF Turn
<1>7. f = 2 <=> Filtered(p, l)
  BY DEF F
<1>8. b # 0 => p[l].op = "for"
  BY <1>1 DEF B, IsLoop
<1> HIDE DEF s, f, b, q, n
<1>9. CASE f = 2 /\ n = 1
  <2>1. AtSkipped(p, k, i)
    BY <1>2, <1>6, <1>7, <1>9 DEF AtSkipped
  <2> QED BY <2>1 DEF OfTurn
<1>10. CASE f = 2 /\ n = 2
  <2>1. AtKept(p, k, i)
    BY <1>2, <1>6, <1>7, <1>10 DEF AtKept
  <2> QED BY <2>1 DEF OfTurn
<1>11. CASE n = f + 1
  <2>1. AtNext(p, k, i)
    BY <1>2, <1>6, <1>11 DEF AtNext, f
  <2> QED BY <2>1 DEF OfTurn
<1>12. CASE n = f + 2
  <2>1. AtLatch(p, k, i)
    BY <1>2, <1>6, <1>12 DEF AtLatch, f
  <2> QED BY <2>1 DEF OfTurn
<1>13. CASE b >= 1 /\ n = f + 3
  <2>1. b # 0
    BY <1>2, <1>13
  <2>2. AtBump(p, k, i)
    BY <1>2, <1>6, <1>8, <1>13, <2>1 DEF AtBump, f
  <2> QED BY <2>2 DEF OfTurn
<1>14. CASE b = 2 /\ n = f + 4
  <2>1. AtCountUp(p, k, i)
    BY <1>2, <1>6, <1>8, <1>14 DEF AtCountUp, f
  <2> QED BY <2>1 DEF OfTurn
<1>15. CASE n = f + b + 3
  <2>1. AtEnd(p, k, i)
    BY <1>2, <1>6, <1>15 DEF AtEnd, f, b
  <2> QED BY <2>1 DEF OfTurn
<1>16. \/ f = 2 /\ (n = 1 \/ n = 2)
       \/ n = f + 1 \/ n = f + 2 \/ n = f + b + 3
       \/ (b >= 1 /\ n = f + 3) \/ (b = 2 /\ n = f + 4)
  <2>1. n \in 1 .. f + b + 3 /\ f \in {0, 2} /\ b \in {0, 1, 2}
    BY <1>2, <1>4
  <2> QED BY <2>1
<1> QED BY <1>9, <1>10, <1>11, <1>12, <1>13, <1>14, <1>15, <1>16

(* An instruction is one of these. *)
LEMMA PlaceIs ==
  ASSUME NEW p, IsBody(p), NEW k \in 1 .. Len(p), NEW i \in 1 .. N(p, k)
  PROVE  \/ AtSingle(p, k, i) \/ AtFilter(p, k, i) \/ AtJoin(p, k, i)
         \/ OfHead(p, k, i) \/ OfGain(p, k, i) \/ OfTurn(p, k, i)
<1>1. CASE Single(p[k])
  <2>1. N(p, k) = 1 /\ A(p, k, 1) = k /\ D(p, k, 1) = Only(p, k)
    BY <1>1, SingleIs DEF N, A, D
  <2>2. i = 1
    BY <2>1
  <2>3. CASE p[k].op = "while"
    <3>1. IsLoop(p[k]) /\ W(p, k) = 1 /\ Only(p, k) = While(Cond(p, k), LoopId(k))
      BY <2>3 DEF IsLoop, W, Only, Cond, LoopId
    <3>2. AtWhile(p, k, i)
      BY <2>1, <2>2, <3>1 DEF AtWhile
    <3> QED BY <3>2 DEF OfHead
  <2>4. CASE p[k].op # "while"
    BY <1>1, <2>1, <2>2, <2>4 DEF AtSingle
  <2> QED BY <2>3, <2>4
<1>2. CASE p[k].op = "for"
  BY <1>2, HeadPlaces
<1>3. CASE p[k].op = "filter"
  <2> DEFINE g == p[p[k].of].of
  <2>1. /\ N(p, k) = 1 + IF Reloads(p, k) THEN 1 ELSE 0
        /\ A(p, k, 1) = k /\ D(p, k, 1) = If(p[k].c, <<"filter", p[k].of>>)
        /\ Reloads(p, k) => A(p, k, 2) = k + 1 /\ D(p, k, 2) = Let(Old(p, g), Var(Acc(p, g)))
    BY <1>3, FilterCodeIs DEF N, A, D
  <2>2. i = 1 \/ (Reloads(p, k) /\ i = 2)
    BY <2>1
  <2>3. CASE i = 1
    BY <1>3, <2>1, <2>3 DEF AtFilter
  <2>4. CASE Reloads(p, k) /\ i = 2
    <3>1. AtReload(p, k, i)
      BY <1>3, <2>1, <2>4 DEF AtReload
    <3> QED BY <3>1 DEF OfHead
  <2> QED BY <2>2, <2>3, <2>4
<1>4. CASE p[k].op = "end" /\ p[p[k].of].op = "if"
  <2> DEFINE d == Mark("fi", <<"if", p[k].of>>)
  <2>1. TokenCode(p, k) = On(k, <<d>>)
    BY <1>4 DEF TokenCode, EndCode
  <2> HIDE DEF d
  <2>2. Listed(<<d>>) /\ Len(<<d>>) = 1 /\ <<d>>[1] = d
    BY OneListed
  <2>3. 1 \in 1 .. 1
    OBVIOUS
  <2>4. N(p, k) = 1 /\ A(p, k, 1) = k /\ D(p, k, 1) = d
    BY <2>1, <2>2, <2>3, OnIs DEF N, A, D
  <2>5. i = 1
    BY <2>4
  <2>6. AtJoin(p, k, i)
    BY <1>4, <2>4, <2>5 DEF AtJoin, d
  <2> QED BY <2>6
<1>5. CASE Closing(p, k)
  <2>1. Q(p, p[k].of) \in {0, 1, 5} /\ (p[k].op # "yield" => Q(p, p[k].of) = 0)
    BY <1>5, ClosingIs
  <2>2. CASE i > Q(p, p[k].of)
    BY <1>5, <2>2, TurnPlaces
  <2>3. CASE i <= Q(p, p[k].of)
    <3>1. i \in 1 .. Q(p, p[k].of)
      BY <2>1, <2>3
    <3>2. p[k].op = "yield"
      BY <2>1, <3>1
    <3> QED BY <3>1, <3>2, GainPlaces
  <2>4. Q(p, p[k].of) \in Int /\ i \in Int
    BY <2>1
  <2> QED BY <2>2, <2>3, <2>4
<1>6. ~ Single(p[k]) => p[k].op \in {"for", "filter"} \/ (p[k].op = "end" /\ p[p[k].of].op = "if") \/ Closing(p, k)
  <2>1. CASE p[k].op = "yield"
    <3>1. IsLoop(p[p[k].of])
      BY <2>1, YieldIs
    <3> QED BY <2>1, <3>1 DEF Closing
  <2>2. CASE p[k].op = "end"
    <3>1. Fits(p, k)
      BY BodyIs
    <3> DEFINE t == p[k]
    <3>2. t.op = "end" /\ ~ Each(t)
      BY <2>2 DEF Each
    <3>3. p[t.of].op \in {"if", "while", "for"}
      BY <3>1, <3>2 DEF Fits
    <3> QED BY <2>2, <3>3 DEF Closing, IsLoop
  <2> QED BY <2>1, <2>2 DEF Single
<1> QED BY <1>1, <1>2, <1>3, <1>4, <1>5, <1>6

-----------------------------------------------------------------------------
(* Where the marks are. *)

(* How many instructions a token has. *)
LEMMA NIs ==
  ASSUME NEW p, IsBody(p), NEW k \in 1 .. Len(p)
  PROVE  /\ N(p, k) \in Nat /\ N(p, k) >= 1 /\ DOMAIN TokenCode(p, k) = 1 .. N(p, k)
         /\ Single(p[k]) => N(p, k) = 1
         /\ p[k].op = "for" => N(p, k) = H(p, k) + (IF Reloads(p, k) THEN 1 ELSE 0)
         /\ p[k].op = "filter" => N(p, k) = 1 + IF Reloads(p, k) THEN 1 ELSE 0
         /\ p[k].op = "end" /\ p[p[k].of].op = "if" => N(p, k) = 1
         /\ Closing(p, k) =>
              LET l == p[k].of
              IN  /\ N(p, k) = Q(p, l) + F(p, l) + B(p, l) + 3
                  /\ Q(p, l) \in {0, 1, 5} /\ F(p, l) \in {0, 2} /\ B(p, l) \in {0, 1, 2}
                  /\ p[l].op = "for" => B(p, l) # 0
         /\ ~ Single(p[k]) => \/ p[k].op \in {"for", "filter"}
                              \/ p[k].op = "end" /\ p[p[k].of].op = "if"
                              \/ Closing(p, k)
<1> DEFINE c == TokenCode(p, k)
<1>1. Single(p[k]) => Listed(c) /\ N(p, k) = 1
  BY SingleIs DEF N
<1>2. p[k].op = "for" => Listed(c) /\ N(p, k) = H(p, k) + (IF Reloads(p, k) THEN 1 ELSE 0)
  BY ForCodeIs DEF N
<1>3. p[k].op = "for" => H(p, k) \in 2 .. 6
  BY WalkIs
<1>4. p[k].op = "filter" => Listed(c) /\ N(p, k) = 1 + IF Reloads(p, k) THEN 1 ELSE 0
  BY FilterCodeIs DEF N
<1>5. p[k].op = "end" /\ p[p[k].of].op = "if" => Listed(c) /\ N(p, k) = 1
  <2> SUFFICES ASSUME p[k].op = "end" /\ p[p[k].of].op = "if" PROVE Listed(c) /\ N(p, k) = 1
    OBVIOUS
  <2> DEFINE d == Mark("fi", <<"if", p[k].of>>)
  <2>1. c = On(k, <<d>>)
    BY DEF TokenCode, EndCode
  <2> HIDE DEF d
  <2>2. Listed(<<d>>) /\ Len(<<d>>) = 1 /\ <<d>>[1] = d
    BY OneListed
  <2> QED BY <2>1, <2>2, OnIs DEF N
<1>6. ASSUME Closing(p, k)
      PROVE  LET l == p[k].of
             IN  /\ Listed(c)
                 /\ N(p, k) = Q(p, l) + F(p, l) + B(p, l) + 3
                 /\ Q(p, l) \in {0, 1, 5} /\ F(p, l) \in {0, 2} /\ B(p, l) \in {0, 1, 2}
                 /\ p[l].op = "for" => B(p, l) # 0
  <2> DEFINE l == p[k].of
             s == Turned(p, l)
  <2>1. Listed(c) /\ N(p, k) = Q(p, l) + Len(s) /\ Q(p, l) \in {0, 1, 5}
    BY <1>6, ClosingIs DEF N
  <2>2. l \in 1 .. Len(p) /\ IsLoop(p[l])
    BY <1>6, ClosingOf
  <2>3. /\ Len(s) = F(p, l) + B(p, l) + 3 /\ F(p, l) \in {0, 2} /\ B(p, l) \in {0, 1, 2}
        /\ (p[l].op = "for" => B(p, l) # 0)
    BY <2>2, TurnedIs
  <2> HIDE DEF s
  <2> QED BY <2>1, <2>3
<1>7. ~ Single(p[k]) => p[k].op \in {"for", "filter"} \/ (p[k].op = "end" /\ p[p[k].of].op = "if") \/ Closing(p, k)
  <2>1. CASE p[k].op = "yield"
    <3>1. IsLoop(p[p[k].of])
      BY <2>1, YieldIs
    <3> QED BY <2>1, <3>1 DEF Closing
  <2>2. CASE p[k].op = "end"
    <3>1. Fits(p, k)
      BY BodyIs
    <3> DEFINE t == p[k]
    <3>2. t.op = "end" /\ ~ Each(t)
      BY <2>2 DEF Each
    <3>3. p[t.of].op \in {"if", "while", "for"}
      BY <3>1, <3>2 DEF Fits
    <3> QED BY <2>2, <3>3 DEF Closing, IsLoop
  <2> QED BY <2>1, <2>2 DEF Single
<1>8. Listed(c)
  BY <1>1, <1>2, <1>4, <1>5, <1>6, <1>7
<1>9. N(p, k) \in Nat /\ N(p, k) >= 1 /\ DOMAIN c = 1 .. N(p, k)
  <2>1. N(p, k) \in Nat /\ DOMAIN c = 1 .. N(p, k)
    BY <1>8, ListedIs DEF N
  <2>2. N(p, k) # 0
    <3>1. CASE Closing(p, k)
      <4> DEFINE l == p[k].of
      <4>1. /\ N(p, k) = Q(p, l) + F(p, l) + B(p, l) + 3
            /\ Q(p, l) \in {0, 1, 5} /\ F(p, l) \in {0, 2} /\ B(p, l) \in {0, 1, 2}
        BY <1>6, <3>1
      <4> QED BY <4>1
    <3>2. CASE p[k].op \in {"for", "filter"}
      BY <1>2, <1>3, <1>4, <3>2
    <3> QED BY <1>1, <1>5, <1>7, <3>1, <3>2
  <2> QED BY <2>1, <2>2
<1> HIDE DEF c
<1>10. Closing(p, k) =>
         LET l == p[k].of
         IN  /\ N(p, k) = Q(p, l) + F(p, l) + B(p, l) + 3
             /\ Q(p, l) \in {0, 1, 5} /\ F(p, l) \in {0, 2} /\ B(p, l) \in {0, 1, 2}
             /\ p[l].op = "for" => B(p, l) # 0
  BY <1>6
<1> QED BY <1>1, <1>2, <1>4, <1>5, <1>7, <1>9, <1>10 DEF c

LEMMA PlacesIs ==
  ASSUME NEW p, IsBody(p)
  PROVE  /\ Places(Compiled(p)) = UNION {{k} \X (1 .. N(p, k)) : k \in 1 .. Len(p)}
         /\ \A k \in 1 .. Len(p) : \A i \in 1 .. N(p, k) :
              <<k, i>> \in Places(Compiled(p)) /\ Do(Compiled(p), <<k, i>>) = D(p, k, i)
         /\ \A at \in Places(Compiled(p)) :
              /\ at[1] \in 1 .. Len(p) /\ at[2] \in 1 .. N(p, at[1]) /\ at = <<at[1], at[2]>>
              /\ Do(Compiled(p), at) = D(p, at[1], at[2])
<1> DEFINE c == Compiled(p)
<1>1. DOMAIN c = 1 .. Len(p) /\ \A k \in 1 .. Len(p) : c[k] = TokenCode(p, k)
  BY CodeIs
<1>2. \A k \in 1 .. Len(p) : DOMAIN TokenCode(p, k) = 1 .. N(p, k)
  BY NIs
<1> HIDE DEF c
<1>3. \A k \in 1 .. Len(p) : DOMAIN c[k] = 1 .. N(p, k)
  BY <1>1, <1>2
<1>4. Places(c) = UNION {{k} \X (1 .. N(p, k)) : k \in 1 .. Len(p)}
  BY <1>1, <1>3 DEF Places
<1>5. ASSUME NEW k \in 1 .. Len(p), NEW i \in 1 .. N(p, k)
      PROVE  <<k, i>> \in Places(c) /\ Do(c, <<k, i>>) = D(p, k, i)
  BY <1>1, <1>4 DEF Do, D
<1>6. ASSUME NEW at \in Places(c)
      PROVE  /\ at[1] \in 1 .. Len(p) /\ at[2] \in 1 .. N(p, at[1]) /\ at = <<at[1], at[2]>>
             /\ Do(c, at) = D(p, at[1], at[2])
  <2>1. PICK k \in 1 .. Len(p) : at \in {k} \X (1 .. N(p, k))
    BY <1>4
  <2>2. at = <<at[1], at[2]>> /\ at[1] = k /\ at[2] \in 1 .. N(p, k)
    BY <2>1
  <2> QED BY <1>1, <2>2 DEF Do, D
<1> QED BY <1>4, <1>5, <1>6 DEF c

(* The tokens with one instruction. *)
LEMMA SingleOps ==
  ASSUME NEW p, IsBody(p), NEW k \in 1 .. Len(p), Single(p[k]), p[k].op # "while"
  PROVE  p[k].op \in {"let", "append", "if", "else", "gather", "result", "break", "continue", "return"}
<1>1. Typed(p, k)
  BY BodyIs
<1> DEFINE t == p[k]
<1>2. t.op \in {"let", "append", "if", "while", "filter", "for", "gather", "yield", "result",
                "else", "end", "break", "continue", "return"}
  BY <1>1 DEF Typed
<1> QED BY <1>2 DEF Single

(* What an instruction's kind tells of its place. *)
Tells(p, k, i) ==
  LET d == D(p, k, i)
      l == p[k].of
  IN  /\ d.op = "while" => IsLoop(p[k]) /\ i = W(p, k) /\ d.id = LoopId(k)
      /\ d.op = "latch" => Closing(p, k) /\ i = Q(p, l) + F(p, l) + 2 /\ d.id = LoopId(l)
      /\ d.op = "next" => Closing(p, k) /\ i = Q(p, l) + F(p, l) + 1 /\ d.id = LoopId(l)
      /\ d.op = "end" => Closing(p, k) /\ i = Q(p, l) + F(p, l) + B(p, l) + 3 /\ d.id = LoopId(l)
      /\ d.op = "else" =>
           \/ p[k].op = "else" /\ i = 1 /\ d.id = <<"if", l>>
           \/ Closing(p, k) /\ Filtered(p, l) /\ i = Q(p, l) + 1 /\ d.id = <<"filter", l>>
           \/ Deciding(p, k) /\ i = (IF AnyOf(p, k) THEN 4 ELSE 2) /\ d.id = <<"test", k>>
      /\ d.op = "fi" =>
           \/ p[k].op = "end" /\ p[l].op = "if" /\ i = 1 /\ d.id = <<"if", l>>
           \/ Closing(p, k) /\ Filtered(p, l) /\ i = Q(p, l) + 2 /\ d.id = <<"filter", l>>
           \/ Deciding(p, k) /\ i = 5 /\ d.id = <<"test", k>>
      /\ d.op = "if" =>
           \/ p[k].op = "if" /\ i = 1 /\ d.id = <<"if", k>>
           \/ p[k].op = "filter" /\ i = 1 /\ d.id = <<"filter", l>>
           \/ Deciding(p, k) /\ i = 1 /\ d.id = <<"test", k>>
      /\ d.op \in {"break", "continue"} =>
           \/ p[k].op \in {"break", "continue"} /\ i = 1
           \/ d.op = "break" /\ Deciding(p, k) /\ i = (IF AnyOf(p, k) THEN 3 ELSE 4)
      /\ d.op = "load" => \E n \in {1, 2} : AtLoad(p, k, i, n)

LEMMA TellsIs ==
  ASSUME NEW p, IsBody(p), NEW k \in 1 .. Len(p), NEW i \in 1 .. N(p, k)
  PROVE  Tells(p, k, i)
<1> DEFINE d == D(p, k, i)
           l == p[k].of
<1> USE DEF Let, Load, Bump, If, While, Mark, Stop
<1>1. CASE AtSingle(p, k, i)
  <2>1. /\ p[k].op \in {"let", "append", "if", "else", "gather", "result", "break", "continue", "return"}
        /\ d = Only(p, k) /\ i = 1
    BY <1>1, SingleOps DEF AtSingle
  <2>2. CASE p[k].op = "gather"
    <3>1. p[k].how \in {"sum", "any", "all", "list"}
      BY <2>2, BodyIs DEF Typed
    <3>2. d = Start(p, k)
      BY <2>1, <2>2 DEF Only
    <3>3. d.op \in {"let", "new"}
      BY <3>1, <3>2 DEF Start
    <3> QED BY <3>3 DEF Tells
  <2>3. CASE p[k].op = "let"
    <3>1. d.op = "let"
      BY <2>1, <2>3 DEF Only
    <3> QED BY <3>1 DEF Tells
  <2>4. CASE p[k].op = "append"
    <3>1. d.op = "append"
      BY <2>1, <2>4 DEF Only
    <3> QED BY <3>1 DEF Tells
  <2>5. CASE p[k].op = "if"
    <3>1. d.op = "if" /\ d.id = <<"if", k>>
      BY <2>1, <2>5 DEF Only
    <3> QED BY <2>1, <2>5, <3>1 DEF Tells
  <2>6. CASE p[k].op = "else"
    <3>1. d.op = "else" /\ d.id = <<"if", l>>
      BY <2>1, <2>6 DEF Only
    <3> QED BY <2>1, <2>6, <3>1 DEF Tells
  <2>7. CASE p[k].op = "result"
    <3>1. d.op = "let"
      BY <2>1, <2>7 DEF Only
    <3> QED BY <3>1 DEF Tells
  <2>8. CASE p[k].op \in {"break", "continue", "return"}
    <3>1. d.op = p[k].op
      BY <2>1, <2>8 DEF Only
    <3> QED BY <2>1, <2>8, <3>1 DEF Tells
  <2> QED BY <2>1, <2>2, <2>3, <2>4, <2>5, <2>6, <2>7, <2>8
<1>2. CASE AtFilter(p, k, i)
  <2>1. d.op = "if" /\ d.id = <<"filter", l>> /\ p[k].op = "filter" /\ i = 1
    BY <1>2 DEF AtFilter
  <2> QED BY <2>1 DEF Tells
<1>3. CASE AtJoin(p, k, i)
  <2>1. d.op = "fi" /\ d.id = <<"if", l>> /\ p[k].op = "end" /\ p[l].op = "if" /\ i = 1
    BY <1>3 DEF AtJoin
  <2> QED BY <2>1 DEF Tells
<1>4. CASE OfHead(p, k, i)
  <2>1. CASE AtWhile(p, k, i)
    <3>1. d.op = "while" /\ d.id = LoopId(k) /\ IsLoop(p[k]) /\ i = W(p, k)
      BY <2>1 DEF AtWhile
    <3> QED BY <3>1 DEF Tells
  <2>2. CASE AtCount(p, k, i) \/ AtCounter(p, k, i) \/ AtIndex(p, k, i) \/ AtReload(p, k, i)
             \/ \E n \in {1, 2} : AtList(p, k, i, n)
    <3>1. d.op = "let"
      BY <2>2 DEF AtCount, AtCounter, AtIndex, AtReload, AtList
    <3> QED BY <3>1 DEF Tells
  <2>3. CASE \E n \in {1, 2} : AtLoad(p, k, i, n)
    <3>1. d.op = "load"
      BY <2>3 DEF AtLoad
    <3> QED BY <2>3, <3>1 DEF Tells
  <2> QED BY <1>4, <2>1, <2>2, <2>3 DEF OfHead
<1>5. CASE OfGain(p, k, i)
  <2>1. CASE AtGain(p, k, i)
    <3>1. d.op \in {"add", "concat"}
      BY <2>1 DEF AtGain, Gained
    <3> QED BY <3>1 DEF Tells
  <2>2. CASE AtTest(p, k, i)
    <3>1. d.op = "if" /\ d.id = <<"test", k>> /\ Deciding(p, k) /\ i = 1
      BY <2>2 DEF AtTest
    <3> QED BY <3>1 DEF Tells
  <2>3. CASE AtKnown(p, k, i)
    <3>1. d.op = "let"
      BY <2>3 DEF AtKnown
    <3> QED BY <3>1 DEF Tells
  <2>4. CASE AtStop(p, k, i)
    <3>1. d.op = "break" /\ Deciding(p, k) /\ i = (IF AnyOf(p, k) THEN 3 ELSE 4)
      BY <2>4 DEF AtStop
    <3> QED BY <3>1 DEF Tells
  <2>5. CASE AtOther(p, k, i)
    <3>1. d.op = "else" /\ d.id = <<"test", k>> /\ Deciding(p, k) /\ i = (IF AnyOf(p, k) THEN 4 ELSE 2)
      BY <2>5 DEF AtOther
    <3> QED BY <3>1 DEF Tells
  <2>6. CASE AtSettled(p, k, i)
    <3>1. d.op = "fi" /\ d.id = <<"test", k>> /\ Deciding(p, k) /\ i = 5
      BY <2>6 DEF AtSettled
    <3> QED BY <3>1 DEF Tells
  <2> QED BY <1>5, <2>1, <2>2, <2>3, <2>4, <2>5, <2>6 DEF OfGain
<1>6. CASE OfTurn(p, k, i)
  <2>0. OfTurn(p, k, i) => Closing(p, k)
    BY DEF OfTurn, AtSkipped, AtKept, AtNext, AtLatch, AtBump, AtCountUp, AtEnd, Turn
  <2>1. F(p, l) \in {0, 2} /\ B(p, l) \in {0, 1, 2} /\ Q(p, l) \in {0, 1, 5} /\ Closing(p, k)
    BY <1>6, <2>0, NIs
  <2>2. CASE AtSkipped(p, k, i)
    <3>1. d.op = "else" /\ d.id = <<"filter", l>> /\ Filtered(p, l) /\ i = Q(p, l) + 1
      BY <2>2 DEF AtSkipped, Turn
    <3> QED BY <2>1, <3>1 DEF Tells
  <2>3. CASE AtKept(p, k, i)
    <3>1. d.op = "fi" /\ d.id = <<"filter", l>> /\ Filtered(p, l) /\ i = Q(p, l) + 2
      BY <2>3 DEF AtKept, Turn
    <3> QED BY <2>1, <3>1 DEF Tells
  <2>4. CASE AtNext(p, k, i)
    <3>1. d.op = "next" /\ d.id = LoopId(l) /\ i = Q(p, l) + (F(p, l) + 1)
      BY <2>4 DEF AtNext, Turn
    <3>2. i = Q(p, l) + F(p, l) + 1
      BY <2>1, <3>1
    <3> QED BY <2>1, <3>1, <3>2 DEF Tells
  <2>5. CASE AtLatch(p, k, i)
    <3>1. d.op = "latch" /\ d.id = LoopId(l) /\ i = Q(p, l) + (F(p, l) + 2)
      BY <2>5 DEF AtLatch, Turn
    <3>2. i = Q(p, l) + F(p, l) + 2
      BY <2>1, <3>1
    <3> QED BY <2>1, <3>1, <3>2 DEF Tells
  <2>6. CASE AtBump(p, k, i) \/ AtCountUp(p, k, i)
    <3>1. d.op = "let"
      BY <2>6 DEF AtBump, AtCountUp, Turn
    <3> QED BY <3>1 DEF Tells
  <2>7. CASE AtEnd(p, k, i)
    <3>1. d.op = "end" /\ d.id = LoopId(l) /\ i = Q(p, l) + (F(p, l) + B(p, l) + 3)
      BY <2>7 DEF AtEnd, Turn
    <3>2. i = Q(p, l) + F(p, l) + B(p, l) + 3
      BY <2>1, <3>1
    <3> QED BY <2>1, <3>1, <3>2 DEF Tells
  <2> QED BY <1>6, <2>2, <2>3, <2>4, <2>5, <2>6, <2>7 DEF OfTurn
<1> QED BY <1>1, <1>2, <1>3, <1>4, <1>5, <1>6, PlaceIs

LEMMA PositionIs ==
  ASSUME NEW c, NEW op, NEW id, NEW at \in Places(c), Do(c, at).op = op, Do(c, at).id = id,
         \A b \in Places(c) : Do(c, b).op = op /\ Do(c, b).id = id => b = at
  PROVE  Position(c, op, id) = at
BY DEF Position

(* The numbers of a loop's marks, at the token that closes it. *)
LatchAt(p, l) == Q(p, l) + F(p, l) + 2
EndAt(p, l)   == Q(p, l) + F(p, l) + B(p, l) + 3

(* The instructions of a loop. *)
LEMMA LoopIs ==
  ASSUME NEW p, IsBody(p), NEW l \in 1 .. Len(p), IsLoop(p[l])
  PROVE  LET e == End(p, l)
         IN  /\ e \in l + 1 .. Len(p) /\ Closing(p, e) /\ p[e].of = l
             /\ Q(p, l) \in {0, 1, 5} /\ F(p, l) \in {0, 2} /\ B(p, l) \in {0, 1, 2}
             /\ W(p, l) \in 1 .. N(p, l) /\ AtWhile(p, l, W(p, l))
             /\ N(p, e) = EndAt(p, l)
             /\ LatchAt(p, l) \in 2 .. N(p, e) /\ AtLatch(p, e, LatchAt(p, l))
             /\ EndAt(p, l) \in 3 .. N(p, e) /\ AtEnd(p, e, EndAt(p, l))
             /\ Filtered(p, l) => /\ AtSkipped(p, e, Q(p, l) + 1) /\ AtKept(p, e, Q(p, l) + 2)
                                  /\ Q(p, l) + 1 \in 1 .. N(p, e) /\ Q(p, l) + 2 \in 1 .. N(p, e)
<1> DEFINE e == End(p, l)
           q == Q(p, l)
           f == F(p, l)
           b == B(p, l)
           s == Turned(p, l)
<1>1. e \in l + 1 .. Len(p) /\ p[e].of = l /\ p[e].op = (IF Each(p[l]) THEN "yield" ELSE "end")
  <2>1. p[l].op \in Opens /\ p[l].op # "gather"
    BY DEF IsLoop, Opens
  <2> QED BY <2>1, EndIs, CloseIs
<1>2. Closing(p, e) /\ e \in 1 .. Len(p)
  BY <1>1 DEF Closing
<1>3. /\ N(p, e) = q + f + b + 3 /\ q \in {0, 1, 5} /\ f \in {0, 2} /\ b \in {0, 1, 2}
  BY <1>1, <1>2, NIs
<1>4. \A j \in 1 .. Len(s) : D(p, e, q + j) = s[j] /\ A(p, e, q + j) = IF q + j = 1 THEN e ELSE l
  BY <1>1, <1>2, ClosingIs DEF D, A
<1>5. /\ Len(s) = f + b + 3
      /\ f = 2 => s[1] = Mark("else", <<"filter", l>>) /\ s[2] = Mark("fi", <<"filter", l>>)
      /\ s[f + 2] = Mark("latch", LoopId(l))
      /\ s[f + b + 3] = Mark("end", LoopId(l))
  BY TurnedIs DEF LoopId
<1>6. ASSUME NEW j, NEW d, j \in 1 .. f + b + 3, s[j] = d PROVE Turn(p, e, q + j, j, d)
  BY <1>1, <1>2, <1>4, <1>5, <1>6 DEF Turn
<1>7. (f = 2) <=> Filtered(p, l)
  BY DEF F
<1>8. W(p, l) \in 1 .. N(p, l) /\ AtWhile(p, l, W(p, l))
  <2> DEFINE w == W(p, l)
  <2>1. CASE p[l].op = "while"
    <3>1. w = 1 /\ N(p, l) = 1 /\ A(p, l, 1) = l /\ D(p, l, 1) = Only(p, l)
      <4>1. Single(p[l])
        BY <2>1 DEF Single
      <4> QED BY <2>1, <4>1, SingleIs DEF N, A, D, W
    <3>2. Only(p, l) = While(Cond(p, l), LoopId(l))
      BY <2>1 DEF Only, Cond, LoopId
    <3> QED BY <3>1, <3>2 DEF AtWhile
  <2>2. CASE p[l].op = "for"
    <3>1. /\ w \in 2 .. 4 /\ H(p, l) \in 2 .. 6 /\ Enum(p, l) \in {0, 1}
          /\ Indexed(p, l) => H(p, l) = w + Len(p[l].its)
          /\ ~ Indexed(p, l) => H(p, l) = w
          /\ Len(p[l].its) = IF p[l].how = "zip" THEN 2 ELSE 1
      BY <2>2, WalkIs
    <3>2. N(p, l) = H(p, l) + (IF Reloads(p, l) THEN 1 ELSE 0)
      BY <2>2, NIs
    <3>3. w \in 1 .. N(p, l) /\ w <= H(p, l)
      BY <3>1, <3>2
    <3>4. OfHead(p, l, w)
      BY <2>2, <3>3, HeadPlaces
    <3>5. ~ AtCount(p, l, w) /\ ~ AtCounter(p, l, w) /\ ~ AtIndex(p, l, w)
      BY <3>1 DEF AtCount, AtCounter, AtIndex
    <3>6. ~ AtReload(p, l, w)
      BY <2>2, <3>1, <3>3 DEF AtReload
    <3>7. \A n \in {1, 2} : ~ AtList(p, l, w, n) /\ ~ AtLoad(p, l, w, n)
      BY <3>1 DEF AtList, AtLoad
    <3> QED BY <3>3, <3>4, <3>5, <3>6, <3>7 DEF OfHead
  <2> QED BY <2>1, <2>2 DEF IsLoop
<1> HIDE DEF s
<1>9. AtLatch(p, e, LatchAt(p, l)) /\ LatchAt(p, l) \in 2 .. N(p, e)
  <2>1. LatchAt(p, l) = q + (f + 2) /\ f + 2 \in 1 .. f + b + 3
    BY <1>3 DEF LatchAt
  <2>2. Turn(p, e, q + (f + 2), f + 2, Mark("latch", LoopId(l)))
    BY <1>5, <1>6, <2>1
  <2>3. LatchAt(p, l) \in 2 .. N(p, e)
    BY <1>3 DEF LatchAt
  <2> QED BY <1>1, <2>1, <2>2, <2>3 DEF AtLatch
<1>10. AtEnd(p, e, EndAt(p, l)) /\ EndAt(p, l) \in 3 .. N(p, e)
  <2>1. EndAt(p, l) = q + (f + b + 3) /\ f + b + 3 \in 1 .. f + b + 3
    BY <1>3 DEF EndAt
  <2>2. Turn(p, e, q + (f + b + 3), f + b + 3, Mark("end", LoopId(l)))
    BY <1>5, <1>6, <2>1
  <2>3. EndAt(p, l) \in 3 .. N(p, e)
    BY <1>3 DEF EndAt
  <2> QED BY <1>1, <2>1, <2>2, <2>3 DEF AtEnd
<1>11. ASSUME Filtered(p, l)
       PROVE  /\ AtSkipped(p, e, q + 1) /\ AtKept(p, e, q + 2)
              /\ q + 1 \in 1 .. N(p, e) /\ q + 2 \in 1 .. N(p, e)
  <2>1. f = 2 /\ 1 \in 1 .. f + b + 3 /\ 2 \in 1 .. f + b + 3
    BY <1>3, <1>7, <1>11
  <2>2. /\ Turn(p, e, q + 1, 1, Mark("else", <<"filter", l>>))
        /\ Turn(p, e, q + 2, 2, Mark("fi", <<"filter", l>>))
    BY <1>5, <1>6, <2>1
  <2>3. q + 1 \in 1 .. N(p, e) /\ q + 2 \in 1 .. N(p, e)
    BY <1>3
  <2> QED BY <1>1, <1>11, <2>2, <2>3 DEF AtSkipped, AtKept
<1>12. N(p, e) = EndAt(p, l)
  BY <1>3 DEF EndAt
<1> QED BY <1>1, <1>2, <1>3, <1>8, <1>9, <1>10, <1>11, <1>12

(* Where a branch goes by an id. *)
LEMMA LoopPositions ==
  ASSUME NEW p, IsBody(p), NEW l \in 1 .. Len(p), IsLoop(p[l])
  PROVE  LET c == Compiled(p)
             e == End(p, l)
         IN  /\ Position(c, "while", LoopId(l)) = <<l, W(p, l)>>
             /\ Position(c, "latch", LoopId(l)) = <<e, LatchAt(p, l)>>
             /\ Position(c, "end", LoopId(l)) = <<e, EndAt(p, l)>>
             /\ Filtered(p, l) => /\ Position(c, "else", <<"filter", l>>) = <<e, Q(p, l) + 1>>
                                  /\ Position(c, "fi", <<"filter", l>>) = <<e, Q(p, l) + 2>>
<1> DEFINE c == Compiled(p)
           e == End(p, l)
<1>1. /\ e \in 1 .. Len(p) /\ Closing(p, e) /\ p[e].of = l
      /\ W(p, l) \in 1 .. N(p, l) /\ AtWhile(p, l, W(p, l))
      /\ LatchAt(p, l) \in 1 .. N(p, e) /\ AtLatch(p, e, LatchAt(p, l))
      /\ EndAt(p, l) \in 1 .. N(p, e) /\ AtEnd(p, e, EndAt(p, l))
      /\ Filtered(p, l) => /\ AtSkipped(p, e, Q(p, l) + 1) /\ AtKept(p, e, Q(p, l) + 2)
                           /\ Q(p, l) + 1 \in 1 .. N(p, e) /\ Q(p, l) + 2 \in 1 .. N(p, e)
  BY LoopIs
<1>2. \A k \in 1 .. Len(p) : Closing(p, k) /\ p[k].of = l => k = e
  BY ClosingOf
<1>3. /\ \A k \in 1 .. Len(p) : \A i \in 1 .. N(p, k) :
           <<k, i>> \in Places(c) /\ Do(c, <<k, i>>) = D(p, k, i)
      /\ \A at \in Places(c) :
           /\ at[1] \in 1 .. Len(p) /\ at[2] \in 1 .. N(p, at[1]) /\ at = <<at[1], at[2]>>
           /\ Do(c, at) = D(p, at[1], at[2])
  BY PlacesIs
<1> HIDE DEF c, e
<1>4. \A at \in Places(c) : Tells(p, at[1], at[2])
  BY <1>3, TellsIs
<1>5. Position(c, "while", LoopId(l)) = <<l, W(p, l)>>
  <2> DEFINE at == <<l, W(p, l)>>
  <2>1. at \in Places(c) /\ Do(c, at).op = "while" /\ Do(c, at).id = LoopId(l)
    BY <1>1, <1>3 DEF AtWhile, While
  <2>2. ASSUME NEW b \in Places(c), Do(c, b).op = "while", Do(c, b).id = LoopId(l)
        PROVE  b = at
    <3>1. b[2] = W(p, b[1]) /\ LoopId(b[1]) = LoopId(l) /\ b = <<b[1], b[2]>>
      BY <1>3, <1>4, <2>2 DEF Tells
    <3>2. b[1] = l
      BY <3>1 DEF LoopId
    <3> QED BY <3>1, <3>2
  <2> HIDE DEF at
  <2>3. Position(c, "while", LoopId(l)) = at
    BY <2>1, <2>2, PositionIs
  <2> QED BY <2>3 DEF at
<1>6. Position(c, "latch", LoopId(l)) = <<e, LatchAt(p, l)>>
  <2> DEFINE at == <<e, LatchAt(p, l)>>
  <2>1. at \in Places(c) /\ Do(c, at).op = "latch" /\ Do(c, at).id = LoopId(l)
    BY <1>1, <1>3 DEF AtLatch, Turn, Mark
  <2>2. ASSUME NEW b \in Places(c), Do(c, b).op = "latch", Do(c, b).id = LoopId(l)
        PROVE  b = at
    <3>1. /\ Closing(p, b[1]) /\ b[2] = LatchAt(p, p[b[1]].of) /\ LoopId(p[b[1]].of) = LoopId(l)
          /\ b = <<b[1], b[2]>> /\ b[1] \in 1 .. Len(p)
      BY <1>3, <1>4, <2>2 DEF Tells, LatchAt
    <3>2. p[b[1]].of = l
      BY <3>1 DEF LoopId
    <3> QED BY <1>2, <3>1, <3>2
  <2> HIDE DEF at
  <2>3. Position(c, "latch", LoopId(l)) = at
    BY <2>1, <2>2, PositionIs
  <2> QED BY <2>3 DEF at
<1>7. Position(c, "end", LoopId(l)) = <<e, EndAt(p, l)>>
  <2> DEFINE at == <<e, EndAt(p, l)>>
  <2>1. at \in Places(c) /\ Do(c, at).op = "end" /\ Do(c, at).id = LoopId(l)
    BY <1>1, <1>3 DEF AtEnd, Turn, Mark
  <2>2. ASSUME NEW b \in Places(c), Do(c, b).op = "end", Do(c, b).id = LoopId(l)
        PROVE  b = at
    <3>1. /\ Closing(p, b[1]) /\ b[2] = EndAt(p, p[b[1]].of) /\ LoopId(p[b[1]].of) = LoopId(l)
          /\ b = <<b[1], b[2]>> /\ b[1] \in 1 .. Len(p)
      BY <1>3, <1>4, <2>2 DEF Tells, EndAt
    <3>2. p[b[1]].of = l
      BY <3>1 DEF LoopId
    <3> QED BY <1>2, <3>1, <3>2
  <2> HIDE DEF at
  <2>3. Position(c, "end", LoopId(l)) = at
    BY <2>1, <2>2, PositionIs
  <2> QED BY <2>3 DEF at
<1>8. ASSUME Filtered(p, l)
      PROVE  Position(c, "else", <<"filter", l>>) = <<e, Q(p, l) + 1>>
  <2> DEFINE at == <<e, Q(p, l) + 1>>
             id == <<"filter", l>>
  <2>1. at \in Places(c) /\ Do(c, at).op = "else" /\ Do(c, at).id = id
    BY <1>1, <1>3, <1>8 DEF AtSkipped, Turn, Mark
  <2>2. ASSUME NEW b \in Places(c), Do(c, b).op = "else", Do(c, b).id = id
        PROVE  b = at
    <3>1. /\ Closing(p, b[1]) /\ b[2] = Q(p, p[b[1]].of) + 1 /\ p[b[1]].of = l
          /\ b = <<b[1], b[2]>> /\ b[1] \in 1 .. Len(p)
      BY <1>3, <1>4, <2>2 DEF Tells
    <3> QED BY <1>2, <3>1
  <2> HIDE DEF at, id
  <2>3. Position(c, "else", id) = at
    BY <2>1, <2>2, PositionIs
  <2> QED BY <2>3 DEF at, id
<1>9. ASSUME Filtered(p, l)
      PROVE  Position(c, "fi", <<"filter", l>>) = <<e, Q(p, l) + 2>>
  <2> DEFINE at == <<e, Q(p, l) + 2>>
             id == <<"filter", l>>
  <2>1. at \in Places(c) /\ Do(c, at).op = "fi" /\ Do(c, at).id = id
    BY <1>1, <1>3, <1>9 DEF AtKept, Turn, Mark
  <2>2. ASSUME NEW b \in Places(c), Do(c, b).op = "fi", Do(c, b).id = id
        PROVE  b = at
    <3>1. /\ Closing(p, b[1]) /\ b[2] = Q(p, p[b[1]].of) + 2 /\ p[b[1]].of = l
          /\ b = <<b[1], b[2]>> /\ b[1] \in 1 .. Len(p)
      BY <1>3, <1>4, <2>2 DEF Tells
    <3> QED BY <1>2, <3>1
  <2> HIDE DEF at, id
  <2>3. Position(c, "fi", id) = at
    BY <2>1, <2>2, PositionIs
  <2> QED BY <2>3 DEF at, id
<1> QED BY <1>5, <1>6, <1>7, <1>8, <1>9 DEF c, e

(* The marks of an if, and of a test. *)
LEMMA IfPositions ==
  ASSUME NEW p, IsBody(p), NEW l \in 1 .. Len(p), p[l].op = "if"
  PROVE  LET c == Compiled(p)
         IN  /\ Position(c, "else", <<"if", l>>) = <<Else(p, l), 1>>
             /\ Position(c, "fi", <<"if", l>>) = <<End(p, l), 1>>
             /\ End(p, l) \in 1 .. Len(p) /\ N(p, End(p, l)) = 1
             /\ Else(p, l) \in 1 .. Len(p) /\ N(p, Else(p, l)) = 1
<1> DEFINE c == Compiled(p)
           e == End(p, l)
           m == Else(p, l)
<1>1. /\ e \in 1 .. Len(p) /\ p[e].op = "end" /\ p[e].of = l
      /\ \A d \in 1 .. Len(p) : p[d].op \in Closes /\ p[d].of = l => d = e
  <2>1. p[l].op \in Opens /\ p[l].op # "gather" /\ ~ Each(p[l])
    BY DEF Opens, Each
  <2> QED BY <2>1, EndIs, CloseIs
<1>2. /\ m \in 1 .. Len(p) /\ p[m].op = "else" /\ p[m].of = l
      /\ \A d \in 1 .. Len(p) : p[d].op = "else" /\ p[d].of = l => d = m
  <2>1. m \in l + 1 .. End(p, l) - 1
    BY ElseIs
  <2>2. m \in 1 .. Len(p)
    BY <1>1, <2>1
  <2> QED BY <2>2, ElseIs
<1>3. /\ \A k \in 1 .. Len(p) : \A i \in 1 .. N(p, k) :
           <<k, i>> \in Places(c) /\ Do(c, <<k, i>>) = D(p, k, i)
      /\ \A at \in Places(c) :
           /\ at[1] \in 1 .. Len(p) /\ at[2] \in 1 .. N(p, at[1]) /\ at = <<at[1], at[2]>>
           /\ Do(c, at) = D(p, at[1], at[2])
  BY PlacesIs
<1>4. \A at \in Places(c) : Tells(p, at[1], at[2])
  BY <1>3, TellsIs
<1>5. N(p, m) = 1 /\ N(p, e) = 1 /\ D(p, m, 1) = Mark("else", <<"if", l>>)
  <2>1. Single(p[m])
    BY <1>2 DEF Single
  <2>2. D(p, m, 1) = Only(p, m)
    BY <2>1, SingleIs DEF D
  <2>3. Only(p, m) = Mark("else", <<"if", l>>)
    BY <1>2 DEF Only
  <2> QED BY <1>1, <1>2, <2>1, <2>2, <2>3, NIs
<1>6. D(p, e, 1) = Mark("fi", <<"if", l>>)
  <2>1. AtSingle(p, e, 1) \/ AtFilter(p, e, 1) \/ AtJoin(p, e, 1)
          \/ OfHead(p, e, 1) \/ OfGain(p, e, 1) \/ OfTurn(p, e, 1)
    BY <1>1, <1>5, PlaceIs
  <2>2. ~ IsLoop(p[l]) /\ ~ IsLoop(p[e])
    BY <1>1 DEF IsLoop
  <2>3. ~ OfTurn(p, e, 1)
    BY <1>1, <2>2 DEF OfTurn, AtSkipped, AtKept, AtNext, AtLatch, AtBump, AtCountUp, AtEnd, Turn, Closing
  <2>4. ~ OfGain(p, e, 1)
    BY <1>1 DEF OfGain, AtGain, AtTest, AtKnown, AtStop, AtOther, AtSettled, Deciding
  <2>5. ~ OfHead(p, e, 1)
    BY <1>1, <2>2 DEF OfHead, AtWhile, AtCount, AtCounter, AtIndex, AtReload, AtList, AtLoad, Indexed
  <2>6. ~ AtSingle(p, e, 1) /\ ~ AtFilter(p, e, 1)
    BY <1>1 DEF AtSingle, AtFilter, Single
  <2> QED BY <1>1, <2>1, <2>3, <2>4, <2>5, <2>6 DEF AtJoin
<1> HIDE DEF c, e, m
<1>7. Position(c, "else", <<"if", l>>) = <<m, 1>>
  <2> DEFINE at == <<m, 1>>
             id == <<"if", l>>
  <2>1. at \in Places(c) /\ Do(c, at).op = "else" /\ Do(c, at).id = id
    <3>1. 1 \in 1 .. N(p, m)
      BY <1>5
    <3> QED BY <1>2, <1>3, <1>5, <3>1 DEF Mark
  <2>2. ASSUME NEW b \in Places(c), Do(c, b).op = "else", Do(c, b).id = id
        PROVE  b = at
    <3>1. /\ p[b[1]].op = "else" /\ b[2] = 1 /\ p[b[1]].of = l
          /\ b = <<b[1], b[2]>> /\ b[1] \in 1 .. Len(p)
      BY <1>3, <1>4, <2>2 DEF Tells
    <3> QED BY <1>2, <3>1
  <2> HIDE DEF at, id
  <2>3. Position(c, "else", id) = at
    BY <2>1, <2>2, PositionIs
  <2> QED BY <2>3 DEF at, id
<1>8. Position(c, "fi", <<"if", l>>) = <<e, 1>>
  <2> DEFINE at == <<e, 1>>
             id == <<"if", l>>
  <2>1. at \in Places(c) /\ Do(c, at).op = "fi" /\ Do(c, at).id = id
    <3>1. 1 \in 1 .. N(p, e)
      BY <1>5
    <3> QED BY <1>1, <1>3, <1>6, <3>1 DEF Mark
  <2>2. ASSUME NEW b \in Places(c), Do(c, b).op = "fi", Do(c, b).id = id
        PROVE  b = at
    <3>1. /\ p[b[1]].op = "end" /\ b[2] = 1 /\ p[b[1]].of = l
          /\ b = <<b[1], b[2]>> /\ b[1] \in 1 .. Len(p)
      BY <1>3, <1>4, <2>2 DEF Tells
    <3> QED BY <1>1, <3>1 DEF Closes
  <2> HIDE DEF at, id
  <2>3. Position(c, "fi", id) = at
    BY <2>1, <2>2, PositionIs
  <2> QED BY <2>3 DEF at, id
<1> QED BY <1>1, <1>2, <1>5, <1>7, <1>8 DEF c, e, m

LEMMA TestPositions ==
  ASSUME NEW p, IsBody(p), NEW k \in 1 .. Len(p), Deciding(p, k)
  PROVE  LET c == Compiled(p)
             n == IF AnyOf(p, k) THEN 4 ELSE 2
         IN  /\ Position(c, "else", <<"test", k>>) = <<k, n>>
             /\ Position(c, "fi", <<"test", k>>) = <<k, 5>>
             /\ Q(p, p[k].of) = 5 /\ N(p, k) > 5
<1> DEFINE c == Compiled(p)
           n == IF AnyOf(p, k) THEN 4 ELSE 2
           l == p[k].of
<1>1. Each(p[l]) /\ IsLoop(p[l]) /\ p[k].op = "yield" /\ Closing(p, k)
  BY YieldIs DEF Deciding, Closing
<1>2. Q(p, l) = 5
  BY <1>1 DEF Q, Deciding, Grows, Whole
<1>3. N(p, k) = Q(p, l) + F(p, l) + B(p, l) + 3 /\ F(p, l) \in {0, 2} /\ B(p, l) \in {0, 1, 2}
  BY <1>1, NIs
<1>4. N(p, k) > 5 /\ n \in 1 .. 5 /\ n \in 1 .. N(p, k) /\ 5 \in 1 .. N(p, k) /\ 5 \in 1 .. 5
  BY <1>2, <1>3
<1>5. /\ \A j \in 1 .. Len(p) : \A i \in 1 .. N(p, j) :
           <<j, i>> \in Places(c) /\ Do(c, <<j, i>>) = D(p, j, i)
      /\ \A at \in Places(c) :
           /\ at[1] \in 1 .. Len(p) /\ at[2] \in 1 .. N(p, at[1]) /\ at = <<at[1], at[2]>>
           /\ Do(c, at) = D(p, at[1], at[2])
  BY PlacesIs
<1>6. \A at \in Places(c) : Tells(p, at[1], at[2])
  BY <1>5, TellsIs
<1>7. OfGain(p, k, n) /\ OfGain(p, k, 5)
  BY <1>1, <1>2, <1>4, GainPlaces
<1>8. AtOther(p, k, n) /\ AtSettled(p, k, 5)
  <2>1. ~ AtGain(p, k, n) /\ ~ AtTest(p, k, n) /\ ~ AtKnown(p, k, n) /\ ~ AtStop(p, k, n) /\ ~ AtSettled(p, k, n)
    BY DEF AtGain, AtTest, AtKnown, AtStop, AtSettled, Deciding
  <2>2. ~ AtGain(p, k, 5) /\ ~ AtTest(p, k, 5) /\ ~ AtKnown(p, k, 5) /\ ~ AtStop(p, k, 5) /\ ~ AtOther(p, k, 5)
    BY DEF AtGain, AtTest, AtKnown, AtStop, AtOther, Deciding
  <2> HIDE DEF n
  <2> QED BY <1>7, <2>1, <2>2 DEF OfGain
<1> HIDE DEF c
<1>9. Position(c, "else", <<"test", k>>) = <<k, n>>
  <2> DEFINE at == <<k, n>>
             id == <<"test", k>>
  <2>1. at \in Places(c) /\ Do(c, at).op = "else" /\ Do(c, at).id = id
    BY <1>4, <1>5, <1>8 DEF Mark, AtOther
  <2>2. ASSUME NEW b \in Places(c), Do(c, b).op = "else", Do(c, b).id = id
        PROVE  b = at
    <3>1. /\ b[1] = k /\ b[2] = (IF AnyOf(p, b[1]) THEN 4 ELSE 2) /\ b = <<b[1], b[2]>>
      BY <1>5, <1>6, <2>2 DEF Tells
    <3> QED BY <3>1
  <2> HIDE DEF at, id
  <2>3. Position(c, "else", id) = at
    BY <2>1, <2>2, PositionIs
  <2> QED BY <2>3 DEF at, id
<1>10. Position(c, "fi", <<"test", k>>) = <<k, 5>>
  <2> DEFINE at == <<k, 5>>
             id == <<"test", k>>
  <2>1. at \in Places(c) /\ Do(c, at).op = "fi" /\ Do(c, at).id = id
    BY <1>4, <1>5, <1>8 DEF Mark, AtSettled
  <2>2. ASSUME NEW b \in Places(c), Do(c, b).op = "fi", Do(c, b).id = id
        PROVE  b = at
    <3>1. /\ b[1] = k /\ b[2] = 5 /\ b = <<b[1], b[2]>>
      BY <1>5, <1>6, <2>2 DEF Tells
    <3> QED BY <3>1
  <2> HIDE DEF at, id
  <2>3. Position(c, "fi", id) = at
    BY <2>1, <2>2, PositionIs
  <2> QED BY <2>3 DEF at, id
<1> QED BY <1>2, <1>4, <1>9, <1>10 DEF c

(* The loop a break or a continue means. *)
LEMMA LoopTargetIs ==
  ASSUME NEW p, IsBody(p), NEW k \in 1 .. Len(p), NEW i \in 1 .. N(p, k), NEW l,
         Innermost(l, {j \in Around(p, k) : IsLoop(p[j])}),
         ~ IsLoop(p[k]), Closing(p, k) => i <= LatchAt(p, p[k].of)
  PROVE  LoopTarget(Compiled(p), <<k, i>>) = LoopId(l)
<1> DEFINE c  == Compiled(p)
           at == <<k, i>>
           pushed == {w \in Places(c) : Before(w, at) /\ Do(c, w).op = "while"}
           popped(w) == \E j \in Places(c) :
                          Before(j, at) /\ Do(c, j).op = "latch" /\ Do(c, j).id = Do(c, w).id
           targets == {w \in pushed : ~ popped(w)}
           top == CHOOSE w \in targets : \A v \in targets : v = w \/ Before(v, w)
           x   == <<l, W(p, l)>>
<1>1. LoopTarget(c, at) = Do(c, top).id
  BY DEF LoopTarget
<1>2. /\ \A j \in 1 .. Len(p) : \A n \in 1 .. N(p, j) :
           <<j, n>> \in Places(c) /\ Do(c, <<j, n>>) = D(p, j, n)
      /\ \A b \in Places(c) :
           /\ b[1] \in 1 .. Len(p) /\ b[2] \in 1 .. N(p, b[1]) /\ b = <<b[1], b[2]>>
           /\ Do(c, b) = D(p, b[1], b[2])
  BY PlacesIs
<1>3. \A b \in Places(c) : Tells(p, b[1], b[2])
  BY <1>2, TellsIs
<1>4. k \in 1 .. Len(p) + 1 /\ Len(p) \in Nat
  BY BodyIs
<1>5. Around(p, k) \subseteq 1 .. k - 1 /\ Around(p, k) \subseteq 1 .. Len(p)
  BY <1>4, AroundOf
<1>6. ASSUME NEW j \in 1 .. Len(p), IsLoop(p[j])
      PROVE  /\ j \in Around(p, k) <=> (j < k /\ k <= End(p, j))
             /\ End(p, j) \in 1 .. Len(p) /\ Closing(p, End(p, j)) /\ p[End(p, j)].of = j
             /\ W(p, j) \in 1 .. N(p, j) /\ D(p, j, W(p, j)) = While(Cond(p, j), LoopId(j))
             /\ LatchAt(p, j) \in 1 .. N(p, End(p, j))
             /\ D(p, End(p, j), LatchAt(p, j)) = Mark("latch", LoopId(j))
  <2>1. p[j].op \in Opens
    BY <1>6 DEF IsLoop, Opens
  <2>2. j \in Around(p, k) <=> (j < k /\ k <= End(p, j))
    BY <1>4, <2>1, EndIs
  <2>3. /\ End(p, j) \in j + 1 .. Len(p) /\ Closing(p, End(p, j)) /\ p[End(p, j)].of = j
        /\ W(p, j) \in 1 .. N(p, j) /\ AtWhile(p, j, W(p, j))
        /\ LatchAt(p, j) \in 2 .. N(p, End(p, j)) /\ AtLatch(p, End(p, j), LatchAt(p, j))
    BY <1>6, LoopIs
  <2>4. End(p, j) \in 1 .. Len(p) /\ LatchAt(p, j) \in 1 .. N(p, End(p, j))
    BY <2>3
  <2> QED BY <2>2, <2>3, <2>4 DEF AtWhile, AtLatch, Turn
<1> HIDE DEF c
<1>7. ASSUME NEW w \in targets
      PROVE  /\ w[1] \in Around(p, k) /\ IsLoop(p[w[1]]) /\ w = <<w[1], W(p, w[1])>>
             /\ Do(c, w).id = LoopId(w[1])
  <2> DEFINE j == w[1]
             e == End(p, j)
             v == <<e, LatchAt(p, j)>>
  <2>1. w \in Places(c) /\ Before(w, at) /\ Do(c, w).op = "while" /\ ~ popped(w)
    OBVIOUS
  <2>2. /\ j \in 1 .. Len(p) /\ w = <<j, w[2]>> /\ Do(c, w) = D(p, j, w[2])
        /\ IsLoop(p[j]) /\ w[2] = W(p, j) /\ Do(c, w).id = LoopId(j)
    BY <1>2, <1>3, <2>1 DEF Tells
  <2>3. j < k
    BY <2>1, <2>2 DEF Before
  <2>4. v \in Places(c) /\ Do(c, v) = Mark("latch", LoopId(j)) /\ v[1] = e
    <3>1. e \in 1 .. Len(p) /\ LatchAt(p, j) \in 1 .. N(p, e) /\ D(p, e, LatchAt(p, j)) = Mark("latch", LoopId(j))
      BY <1>6, <2>2
    <3> HIDE DEF e
    <3> QED BY <1>2, <3>1
  <2>5. ~ Before(v, at)
    BY <2>1, <2>2, <2>4 DEF Mark
  <2>6. e \in 1 .. Len(p)
    BY <1>6, <2>2
  <2>7. k <= e
    BY <1>4, <2>4, <2>5, <2>6 DEF Before
  <2>8. j \in Around(p, k)
    BY <1>6, <2>2, <2>3, <2>7
  <2> QED BY <2>2, <2>8
<1>8. ASSUME NEW j \in Around(p, k), IsLoop(p[j])
      PROVE  <<j, W(p, j)>> \in targets
  <2> DEFINE w == <<j, W(p, j)>>
             e == End(p, j)
  <2>1. j \in 1 .. Len(p) /\ j < k
    BY <1>5
  <2>2. /\ k <= e /\ e \in 1 .. Len(p) /\ W(p, j) \in 1 .. N(p, j)
        /\ D(p, j, W(p, j)) = While(Cond(p, j), LoopId(j))
    BY <1>6, <1>8, <2>1
  <2>3. w \in Places(c) /\ Do(c, w).op = "while" /\ Do(c, w).id = LoopId(j) /\ Before(w, at)
    BY <1>2, <2>1, <2>2 DEF While, Before
  <2>4. ASSUME NEW b \in Places(c), Before(b, at), Do(c, b).op = "latch", Do(c, b).id = LoopId(j)
        PROVE  FALSE
    <3>1. /\ b[1] \in 1 .. Len(p) /\ Closing(p, b[1]) /\ b[2] = LatchAt(p, p[b[1]].of)
          /\ LoopId(p[b[1]].of) = LoopId(j) /\ b[2] \in 1 .. N(p, b[1])
      BY <1>2, <1>3, <2>4 DEF Tells, LatchAt
    <3>2. p[b[1]].of = j
      BY <3>1 DEF LoopId
    <3>3. b[1] = e
      BY <3>1, <3>2, ClosingOf
    <3>4. b[1] < k \/ (b[1] = k /\ b[2] < i)
      BY <2>4 DEF Before
    <3>5. b[1] = k /\ b[2] < i
      BY <1>4, <2>2, <3>3, <3>4
    <3>6. i <= LatchAt(p, p[k].of)
      BY <3>1, <3>5
    <3>7. N(p, k) \in Nat
      BY NIs
    <3> QED BY <3>1, <3>5, <3>6, <3>7
  <2>5. ~ popped(w)
    BY <2>3, <2>4
  <2> QED BY <2>3, <2>5
<1>9. l \in Around(p, k) /\ IsLoop(p[l]) /\ \A j \in Around(p, k) : IsLoop(p[j]) => j <= l
  BY DEF Innermost
<1> HIDE DEF targets
<1>10. x \in targets /\ \A v \in targets : v = x \/ Before(v, x)
  <2>1. ASSUME NEW v \in targets PROVE v = x \/ Before(v, x)
    <3>1. v[1] \in Around(p, k) /\ v[1] <= l /\ v = <<v[1], W(p, v[1])>>
      BY <1>7, <1>9
    <3>2. v[1] \in Int /\ l \in Int
      BY <1>5, <1>9, <3>1
    <3>3. v[1] = l \/ v[1] < l
      BY <3>1, <3>2
    <3> QED BY <3>1, <3>3 DEF Before
  <2> QED BY <1>8, <1>9, <2>1
<1>11. top \in targets /\ \A v \in targets : v = top \/ Before(v, top)
  <2> HIDE DEF x
  <2> QED BY <1>10
<1>12. top = x
  <2> HIDE DEF top
  <2>0. /\ top[1] \in Around(p, k) /\ IsLoop(p[top[1]]) /\ top = <<top[1], W(p, top[1])>>
    BY <1>7, <1>11
  <2>1. top[1] <= l /\ top = <<top[1], W(p, top[1])>> /\ top[1] \in Int /\ l \in Int
    BY <1>5, <1>9, <2>0
  <2>2. x = top \/ Before(x, top)
    BY <1>10, <1>11
  <2>3. ~ (l < top[1])
    BY <2>1
  <2>4. ~ Before(x, top)
    <3> SUFFICES ASSUME Before(x, top) PROVE FALSE
      OBVIOUS
    <3>1. l = top[1] /\ W(p, l) < top[2]
      BY <2>3 DEF Before
    <3>2. top[2] = W(p, l)
      BY <2>1, <3>1
    <3>3. W(p, l) \in Int
      <4>1. l \in 1 .. Len(p)
        BY <1>5, <1>9
      <4>2. W(p, l) \in 1 .. N(p, l) /\ N(p, l) \in Nat
        BY <1>6, <1>9, <4>1, NIs
      <4> QED BY <4>2
    <3> QED BY <3>1, <3>2, <3>3
  <2> QED BY <2>2, <2>4
<1>13. Do(c, x).id = LoopId(l)
  BY <1>7, <1>10
<1> QED BY <1>1, <1>12, <1>13 DEF c

-----------------------------------------------------------------------------
(* Where control goes. *)

(* The machine's branches: the false side of a test, or a goto. *)
Branch(c, at) ==
  LET d == Do(c, at)
  IN  CASE d.op = "if"       -> After(c, Position(c, "else", d.id))
        [] d.op = "while"    -> After(c, Position(c, "end", d.id))
        [] d.op = "else"     -> Position(c, "fi", d.id)
        [] d.op = "next"     -> Position(c, "latch", d.id)
        [] d.op = "end"      -> Position(c, "while", d.id)
        [] d.op = "break"    -> After(c, Position(c, "end", LoopTarget(c, at)))
        [] d.op = "continue" -> Position(c, "latch", LoopTarget(c, at))

Branches == {"if", "while", "else", "next", "end", "break", "continue"}

(* The same, by the text.                                                   *)
IfDest(p, k) ==
  CASE p[k].op = "if"     -> <<Else(p, k) + 1, 1>>
    [] p[k].op = "filter" -> <<End(p, p[k].of), Q(p, p[k].of) + 2>>
    [] OTHER              -> <<k, IF AnyOf(p, k) THEN 5 ELSE 3>>
ElseDest(p, k, i) ==
  IF p[k].op = "else" THEN <<End(p, p[k].of), 1>>
  ELSE <<k, IF i <= Q(p, p[k].of) THEN 5 ELSE i + 1>>
Dest(p, k, i) ==
  LET op == D(p, k, i).op
      l  == p[k].of
  IN  CASE op = "if"       -> IfDest(p, k)
        [] op = "while"    -> <<End(p, k) + 1, 1>>
        [] op = "else"     -> ElseDest(p, k, i)
        [] op = "next"     -> <<k, i + 1>>
        [] op = "end"      -> <<l, W(p, l)>>
        [] op = "break"    -> <<End(p, l) + 1, 1>>
        [] op = "continue" -> <<End(p, l), LatchAt(p, l)>>

LEMMA AfterIs ==
  ASSUME NEW p, IsBody(p), NEW k \in 1 .. Len(p), NEW i \in 1 .. N(p, k)
  PROVE  After(Compiled(p), <<k, i>>) = IF i < N(p, k) THEN <<k, i + 1>> ELSE <<k + 1, 1>>
BY CodeIs DEF After, N

(* The loop of a break or a continue. *)
LEMMA JumpIs ==
  ASSUME NEW p, IsBody(p), NEW k \in 1 .. Len(p), NEW i \in 1 .. N(p, k),
         D(p, k, i).op \in {"break", "continue"}
  PROVE  LET l == p[k].of
         IN  /\ LoopTarget(Compiled(p), <<k, i>>) = LoopId(l)
             /\ l \in Around(p, k) /\ l \in 1 .. Len(p) /\ IsLoop(p[l]) /\ k <= End(p, l)
             /\ \A j \in Around(p, k) : IsLoop(p[j]) => j <= l
             /\ p[k].op \in {"break", "continue"} => k < End(p, l)
<1> DEFINE l == p[k].of
<1>1. \/ p[k].op \in {"break", "continue"} /\ i = 1
      \/ Deciding(p, k) /\ i = (IF AnyOf(p, k) THEN 3 ELSE 4)
  BY TellsIs DEF Tells
<1>2. k \in 1 .. Len(p) + 1
  BY BodyIs
<1>3. Innermost(l, {j \in Around(p, k) : IsLoop(p[j])}) /\ (Closing(p, k) => i <= LatchAt(p, l))
      /\ ~ IsLoop(p[k])
  <2>1. CASE p[k].op \in {"break", "continue"}
    <3>1. Fits(p, k)
      BY BodyIs
    <3> DEFINE t == p[k]
    <3>2. t.op \in {"break", "continue"}
      BY <2>1
    <3>3. Innermost(t.of, {j \in Around(p, k) : IsLoop(p[j])})
      <4>1. ~ Each(t)
        BY <3>2 DEF Each
      <4>2. Fits(p, k) = (~ InExpression(p, k) /\ Innermost(t.of, {j \in Around(p, k) : IsLoop(p[j])}))
        BY <3>2, <4>1 DEF Fits
      <4> QED BY <3>1, <4>2
    <3> QED BY <2>1, <3>3 DEF Closing, IsLoop
  <2>2. CASE Deciding(p, k) /\ i = (IF AnyOf(p, k) THEN 3 ELSE 4)
    <3>1. p[k].op = "yield" /\ IsLoop(p[l])
      BY <2>2, YieldIs DEF Deciding
    <3>2. Belongs(p, k)
      BY <3>1, ClosesIs DEF Closes
    <3>3. Q(p, l) = 5
      BY <2>2, TestPositions
    <3>4. F(p, l) \in {0, 2}
      BY DEF F
    <3>5. i <= LatchAt(p, l)
      BY <2>2, <3>3, <3>4 DEF LatchAt
    <3> QED BY <3>1, <3>2, <3>5 DEF Belongs, Innermost, IsLoop
  <2> QED BY <1>1, <2>1, <2>2
<1>4. LoopTarget(Compiled(p), <<k, i>>) = LoopId(l)
  BY <1>3, LoopTargetIs
<1>5. l \in Around(p, k) /\ IsLoop(p[l]) /\ \A j \in Around(p, k) : IsLoop(p[j]) => j <= l
  BY <1>3 DEF Innermost
<1>6. l \in 1 .. Len(p)
  BY <1>2, <1>5, AroundOf
<1>7. k <= End(p, l)
  <2>1. p[l].op \in Opens
    BY <1>5 DEF IsLoop, Opens
  <2> QED BY <1>2, <1>5, <1>6, <2>1, EndIs
<1>8. p[k].op \in {"break", "continue"} => k < End(p, l)
  <2> SUFFICES ASSUME p[k].op \in {"break", "continue"} PROVE k # End(p, l)
    <3>1. End(p, l) \in Int
      BY <1>5, <1>6, LoopIs
    <3> QED BY <1>7, <3>1
  <2>1. Closing(p, End(p, l))
    BY <1>5, <1>6, LoopIs
  <2> QED BY <2>1 DEF Closing
<1> QED BY <1>4, <1>5, <1>6, <1>7, <1>8

LEMMA BranchIs ==
  ASSUME NEW p, IsBody(p), NEW k \in 1 .. Len(p), NEW i \in 1 .. N(p, k),
         D(p, k, i).op \in Branches
  PROVE  Branch(Compiled(p), <<k, i>>) = Dest(p, k, i)
<1> DEFINE c == Compiled(p)
           at == <<k, i>>
           d == D(p, k, i)
           l == p[k].of
<1>1. Do(c, at) = d /\ at \in Places(c)
  BY PlacesIs
<1>2. Tells(p, k, i)
  BY TellsIs
<1>3. ASSUME NEW m \in 1 .. Len(p), NEW n \in 1 .. N(p, m)
      PROVE  After(c, <<m, n>>) = IF n < N(p, m) THEN <<m, n + 1>> ELSE <<m + 1, 1>>
  BY AfterIs
<1>4. ASSUME NEW m \in 1 .. Len(p), IsLoop(p[m])
      PROVE  /\ After(c, Position(c, "end", LoopId(m))) = <<End(p, m) + 1, 1>>
             /\ Position(c, "latch", LoopId(m)) = <<End(p, m), LatchAt(p, m)>>
  <2>1. /\ End(p, m) \in 1 .. Len(p) /\ N(p, End(p, m)) = EndAt(p, m)
        /\ EndAt(p, m) \in 1 .. N(p, End(p, m))
    BY <1>4, LoopIs
  <2>2. /\ Position(c, "end", LoopId(m)) = <<End(p, m), EndAt(p, m)>>
        /\ Position(c, "latch", LoopId(m)) = <<End(p, m), LatchAt(p, m)>>
    BY <1>4, LoopPositions
  <2>3. N(p, End(p, m)) \in Nat
    BY <2>1, NIs
  <2>4. After(c, <<End(p, m), EndAt(p, m)>>) = <<End(p, m) + 1, 1>>
    <3> DEFINE e == End(p, m)
               n == EndAt(p, m)
    <3> HIDE DEF c, e, n
    <3>1. e \in 1 .. Len(p) /\ n \in 1 .. N(p, e) /\ ~ (n < N(p, e))
      BY <2>1, <2>3 DEF e, n
    <3>2. After(c, <<e, n>>) = <<e + 1, 1>>
      BY <1>3, <3>1
    <3> QED BY <3>2 DEF e, n
  <2> QED BY <2>2, <2>4
<1> HIDE DEF c
<1>5. CASE d.op = "if"
  <2>0. Branch(c, at) = After(c, Position(c, "else", d.id)) /\ Dest(p, k, i) = IfDest(p, k)
    BY <1>1, <1>5 DEF Branch, Dest
  <2>1. CASE p[k].op = "if" /\ d.id = <<"if", k>>
    <3>1. /\ Position(c, "else", <<"if", k>>) = <<Else(p, k), 1>>
          /\ Else(p, k) \in 1 .. Len(p) /\ N(p, Else(p, k)) = 1
      BY <2>1, IfPositions DEF c
    <3>2. After(c, <<Else(p, k), 1>>) = <<Else(p, k) + 1, 1>>
      <4>1. 1 \in 1 .. N(p, Else(p, k)) /\ ~ (1 < N(p, Else(p, k)))
        BY <3>1
      <4> QED BY <1>3, <3>1, <4>1
    <3>3. IfDest(p, k) = <<Else(p, k) + 1, 1>>
      BY <2>1 DEF IfDest
    <3> QED BY <2>0, <2>1, <3>1, <3>2, <3>3 DEF c
  <2>2. CASE p[k].op = "filter" /\ d.id = <<"filter", l>>
    <3>1. l \in 1 .. Len(p) /\ p[l].op = "for" /\ Filtered(p, l) /\ IsLoop(p[l])
      BY <2>2, FilterIs DEF IsLoop
    <3>2. Position(c, "else", <<"filter", l>>) = <<End(p, l), Q(p, l) + 1>>
      BY <3>1, LoopPositions DEF c
    <3>3. /\ End(p, l) \in 1 .. Len(p) /\ Q(p, l) \in {0, 1, 5}
          /\ Q(p, l) + 1 \in 1 .. N(p, End(p, l)) /\ Q(p, l) + 2 \in 1 .. N(p, End(p, l))
      BY <3>1, LoopIs
    <3>4. N(p, End(p, l)) \in Nat
      BY <3>3, NIs
    <3>5. After(c, <<End(p, l), Q(p, l) + 1>>) = <<End(p, l), Q(p, l) + 2>>
      <4>1. Q(p, l) + 1 < N(p, End(p, l)) /\ (Q(p, l) + 1) + 1 = Q(p, l) + 2
        BY <3>3, <3>4
      <4> QED BY <1>3, <3>3, <4>1
    <3>6. IfDest(p, k) = <<End(p, l), Q(p, l) + 2>>
      BY <2>2 DEF IfDest
    <3> QED BY <2>0, <2>2, <3>2, <3>5, <3>6 DEF c
  <2>3. CASE Deciding(p, k) /\ d.id = <<"test", k>>
    <3> DEFINE n == IF AnyOf(p, k) THEN 4 ELSE 2
    <3>1. Position(c, "else", <<"test", k>>) = <<k, n>> /\ N(p, k) > 5 /\ N(p, k) \in Nat
      BY <2>3, TestPositions, NIs DEF c
    <3>2. n \in 1 .. N(p, k) /\ n < N(p, k) /\ n + 1 = (IF AnyOf(p, k) THEN 5 ELSE 3)
      BY <3>1
    <3> HIDE DEF n
    <3>3. After(c, <<k, n>>) = <<k, n + 1>>
      BY <1>3, <3>2
    <3>4. IfDest(p, k) = <<k, IF AnyOf(p, k) THEN 5 ELSE 3>>
      BY <2>3 DEF IfDest, Deciding
    <3> QED BY <2>0, <2>3, <3>1, <3>2, <3>3, <3>4 DEF c
  <2> QED BY <1>2, <1>5, <2>1, <2>2, <2>3 DEF Tells
<1>6. CASE d.op = "while"
  <2>1. IsLoop(p[k]) /\ d.id = LoopId(k)
    BY <1>2, <1>6 DEF Tells
  <2>2. Branch(c, at) = After(c, Position(c, "end", d.id)) /\ Dest(p, k, i) = <<End(p, k) + 1, 1>>
    BY <1>1, <1>6 DEF Branch, Dest
  <2> QED BY <1>4, <2>1, <2>2 DEF c
<1>7. CASE d.op = "else"
  <2>0. Branch(c, at) = Position(c, "fi", d.id) /\ Dest(p, k, i) = ElseDest(p, k, i)
    BY <1>1, <1>7 DEF Branch, Dest
  <2>1. CASE p[k].op = "else" /\ d.id = <<"if", l>>
    <3>1. l \in 1 .. Len(p) /\ p[l].op = "if"
      <4>1. Fits(p, k)
        BY BodyIs
      <4> DEFINE t == p[k]
      <4>2. t.op = "else"
        BY <2>1
      <4>3. Belongs(p, k) /\ p[t.of].op = "if"
        <5>1. ~ Each(t)
          BY <4>2 DEF Each
        <5> QED BY <4>1, <4>2, <5>1 DEF Fits
      <4>4. l \in Around(p, k) /\ k \in 1 .. Len(p) + 1
        BY <4>3, BodyIs DEF Belongs, Innermost
      <4> QED BY <4>3, <4>4, AroundOf
    <3>2. Position(c, "fi", <<"if", l>>) = <<End(p, l), 1>>
      BY <3>1, IfPositions DEF c
    <3> QED BY <2>0, <2>1, <3>2 DEF ElseDest, c
  <2>2. CASE Closing(p, k) /\ Filtered(p, l) /\ i = Q(p, l) + 1 /\ d.id = <<"filter", l>>
    <3>1. l \in 1 .. Len(p) /\ IsLoop(p[l]) /\ k = End(p, l)
      BY <2>2, ClosingOf
    <3>2. Position(c, "fi", <<"filter", l>>) = <<k, Q(p, l) + 2>>
      BY <2>2, <3>1, LoopPositions DEF c
    <3>3. ~ (i <= Q(p, l)) /\ i + 1 = Q(p, l) + 2
      <4>1. Q(p, l) \in {0, 1, 5}
        BY <3>1, LoopIs
      <4> QED BY <2>2, <4>1
    <3>4. ElseDest(p, k, i) = <<k, i + 1>>
      BY <2>2, <3>3 DEF ElseDest, Closing
    <3> QED BY <2>0, <2>2, <3>2, <3>3, <3>4 DEF c
  <2>3. CASE Deciding(p, k) /\ i = (IF AnyOf(p, k) THEN 4 ELSE 2) /\ d.id = <<"test", k>>
    <3>1. Position(c, "fi", <<"test", k>>) = <<k, 5>> /\ Q(p, l) = 5
      BY <2>3, TestPositions DEF c
    <3>2. i <= Q(p, l)
      BY <2>3, <3>1
    <3>3. ElseDest(p, k, i) = <<k, 5>>
      BY <2>3, <3>2 DEF ElseDest, Deciding
    <3> QED BY <2>0, <2>3, <3>1, <3>3 DEF c
  <2> QED BY <1>2, <1>7, <2>1, <2>2, <2>3 DEF Tells
<1>8. CASE d.op = "next"
  <2>1. Closing(p, k) /\ i = Q(p, l) + F(p, l) + 1 /\ d.id = LoopId(l)
    BY <1>2, <1>8 DEF Tells
  <2>2. l \in 1 .. Len(p) /\ IsLoop(p[l]) /\ k = End(p, l)
    BY <2>1, ClosingOf
  <2>3. Q(p, l) \in {0, 1, 5} /\ F(p, l) \in {0, 2}
    BY <2>2, LoopIs
  <2>4. LatchAt(p, l) = i + 1
    BY <2>1, <2>3 DEF LatchAt
  <2>5. Branch(c, at) = Position(c, "latch", d.id) /\ Dest(p, k, i) = <<k, i + 1>>
    BY <1>1, <1>8 DEF Branch, Dest
  <2> QED BY <1>4, <2>1, <2>2, <2>4, <2>5 DEF c
<1>9. CASE d.op = "end"
  <2>1. Closing(p, k) /\ d.id = LoopId(l)
    BY <1>2, <1>9 DEF Tells
  <2>2. l \in 1 .. Len(p) /\ IsLoop(p[l])
    BY <2>1, ClosingOf
  <2>3. Position(c, "while", LoopId(l)) = <<l, W(p, l)>>
    BY <2>2, LoopPositions DEF c
  <2>4. Branch(c, at) = Position(c, "while", d.id) /\ Dest(p, k, i) = <<l, W(p, l)>>
    BY <1>1, <1>9 DEF Branch, Dest
  <2> QED BY <2>1, <2>3, <2>4 DEF c
<1>10. CASE d.op \in {"break", "continue"}
  <2>1. LoopTarget(c, at) = LoopId(l) /\ l \in 1 .. Len(p) /\ IsLoop(p[l])
    BY <1>10, JumpIs DEF c
  <2>2. CASE d.op = "break"
    <3>1. Branch(c, at) = After(c, Position(c, "end", LoopTarget(c, at))) /\ Dest(p, k, i) = <<End(p, l) + 1, 1>>
      BY <1>1, <2>2 DEF Branch, Dest
    <3> QED BY <1>4, <2>1, <3>1 DEF c
  <2>3. CASE d.op = "continue"
    <3>1. Branch(c, at) = Position(c, "latch", LoopTarget(c, at)) /\ Dest(p, k, i) = <<End(p, l), LatchAt(p, l)>>
      BY <1>1, <2>3 DEF Branch, Dest
    <3> QED BY <1>4, <2>1, <3>1 DEF c
  <2> QED BY <1>10, <2>2, <2>3
<1> QED BY <1>5, <1>6, <1>7, <1>8, <1>9, <1>10 DEF Branches, c

-----------------------------------------------------------------------------
(* The slots that are stored to before control comes to a place. *)

(* The names the token that opens a construct stores to.                    *)
Made(p, j) ==
  CASE p[j].op = "gather" -> {Acc(p, j)}
    [] p[j].op = "for"    ->
         Targets(p, j)
           \cup (IF Indexed(p, j) THEN {Holder(p, j, n) : n \in DOMAIN p[j].its} \cup {IndexOf(p, j)}
                 ELSE {})
           \cup (IF Reloads(p, j) THEN {Old(p, p[j].of)} ELSE {})
    [] OTHER              -> {}

MadeAround(p, k) == UNION {Made(p, j) : j \in Around(p, k)}

(* Those the token k itself has stored to, and the old value that the       *)
(* filter of a gathering has read.                                          *)
MadeHere(p, k, i) ==
  IF p[k].op = "for" THEN {D(p, k, n).x : n \in (1 .. i - 1) \ {W(p, k)}} ELSE {}

Filtering(p, l, k, i) ==
  /\ Each(p[l]) /\ Filtered(p, l) /\ Grows(p, p[l].of)
  /\ k >= l + 2 /\ (k < End(p, l) \/ i = 1)
MadeByFilter(p, k, i) ==
  {Old(p, p[l].of) : l \in {j \in Around(p, k) : Filtering(p, j, k, i)}}

Known(p, k, i) ==
  DOMAIN Env0 \cup MadeAround(p, k) \cup MadeHere(p, k, i) \cup MadeByFilter(p, k, i)

Stored(d) == IF d.op \in {"let", "load", "add", "new", "concat"} THEN {d.x} ELSE {}

(* The head of a for stores to just these. *)
LEMMA MadeIs ==
  ASSUME NEW p, IsBody(p), NEW k \in 1 .. Len(p), p[k].op = "for"
  PROVE  /\ \A n \in 1 .. N(p, k) : n # W(p, k) =>
              Stored(D(p, k, n)) = {D(p, k, n).x} /\ D(p, k, n).x \in Made(p, k)
         /\ \A x \in Made(p, k) : \E n \in 1 .. N(p, k) : n # W(p, k) /\ D(p, k, n).x = x
<1>f. \A x, e : Let(x, e).x = x /\ Let(x, e).op = "let"
  BY DEF Let
<1>g. \A x, l, i : Load(x, l, i).x = x /\ Load(x, l, i).op = "load"
  BY DEF Load
<1> DEFINE w == W(p, k)
           M == Made(p, k)
<1>0. /\ w \in 2 .. 4 /\ H(p, k) \in 2 .. 6 /\ Enum(p, k) \in {0, 1}
      /\ p[k].how = "zip" => w = 4 /\ H(p, k) = 6 /\ DOMAIN p[k].its = {1, 2}
      /\ p[k].how # "zip" => DOMAIN p[k].its = {1}
      /\ Indexed(p, k) => H(p, k) = w + Len(p[k].its)
      /\ ~ Indexed(p, k) => H(p, k) = w /\ p[k].how # "zip"
      /\ p[k].how # "zip" => w = (IF Ranged(p, k) THEN 2 ELSE 3) + Enum(p, k)
      /\ Len(p[k].its) = IF p[k].how = "zip" THEN 2 ELSE 1
      /\ N(p, k) = H(p, k) + (IF Reloads(p, k) THEN 1 ELSE 0)
  BY WalkIs, NIs
<1>1. /\ Targets(p, k) = IF p[k].how \in {"enumerate", "zip"}
                         THEN {p[k].t[1], p[k].t[2]} ELSE {p[k].t[1]}
      /\ Over(p[k]) = IF p[k].how = "enumerate" THEN p[k].t[2] ELSE p[k].t[1]
  BY ForIs DEF Over
<1>2. /\ Targets(p, k) \subseteq M
      /\ Indexed(p, k) => IndexOf(p, k) \in M /\ \A n \in DOMAIN p[k].its : Holder(p, k, n) \in M
      /\ Reloads(p, k) => Old(p, p[k].of) \in M
  BY DEF Made
<1>3. ASSUME NEW n \in 1 .. N(p, k), n # w
      PROVE  Stored(D(p, k, n)) = {D(p, k, n).x} /\ D(p, k, n).x \in M
  <2> HIDE DEF M
  <2>1. OfHead(p, k, n)
    BY HeadPlaces
  <2>2. ~ AtWhile(p, k, n)
    BY <1>3 DEF AtWhile
  <2>3. CASE AtCount(p, k, n)
    <3>1. D(p, k, n).x = p[k].t[1] /\ D(p, k, n).op = "let" /\ p[k].how = "enumerate"
      BY <1>f, <1>g, <2>3 DEF AtCount
    <3> QED BY <1>1, <1>2, <3>1 DEF Stored
  <2>4. CASE AtCounter(p, k, n)
    <3>1. D(p, k, n).x = Over(p[k]) /\ D(p, k, n).op = "let"
      BY <1>f, <1>g, <2>4 DEF AtCounter
    <3> QED BY <1>1, <1>2, <3>1 DEF Stored
  <2>5. CASE AtIndex(p, k, n)
    <3>1. D(p, k, n).x = IndexOf(p, k) /\ D(p, k, n).op = "let" /\ Indexed(p, k)
      BY <1>f, <1>g, <2>5 DEF AtIndex
    <3> QED BY <1>2, <3>1 DEF Stored
  <2>6. CASE AtReload(p, k, n)
    <3>1. D(p, k, n).x = Old(p, p[k].of) /\ D(p, k, n).op = "let" /\ Reloads(p, k)
      BY <1>f, <1>g, <2>6 DEF AtReload
    <3> QED BY <1>2, <3>1 DEF Stored
  <2>7. ASSUME NEW m \in {1, 2}, AtList(p, k, n, m) \/ AtLoad(p, k, n, m)
        PROVE  Stored(D(p, k, n)) = {D(p, k, n).x} /\ D(p, k, n).x \in M
    <3>1. CASE AtList(p, k, n, m)
      <4>1. D(p, k, n).x = Holder(p, k, m) /\ D(p, k, n).op = "let" /\ Indexed(p, k) /\ m \in DOMAIN p[k].its
        BY <1>f, <1>g, <3>1 DEF AtList
      <4> QED BY <1>2, <4>1 DEF Stored
    <3>2. CASE AtLoad(p, k, n, m)
      <4>1. /\ D(p, k, n).x = (IF p[k].how = "zip" THEN p[k].t[m] ELSE Over(p[k]))
            /\ D(p, k, n).op = "load" /\ m \in DOMAIN p[k].its
        BY <1>f, <1>g, <3>2 DEF AtLoad
      <4>2. D(p, k, n).x \in Targets(p, k)
        BY <1>0, <1>1, <4>1
      <4> QED BY <1>2, <4>1, <4>2 DEF Stored
    <3> QED BY <2>7, <3>1, <3>2
  <2> QED BY <2>1, <2>2, <2>3, <2>4, <2>5, <2>6, <2>7 DEF OfHead
<1>4. ASSUME NEW x \in M
      PROVE  \E n \in 1 .. N(p, k) : n # w /\ D(p, k, n).x = x
  <2>1. \/ x \in Targets(p, k)
        \/ Indexed(p, k) /\ x = IndexOf(p, k)
        \/ Indexed(p, k) /\ \E n \in DOMAIN p[k].its : x = Holder(p, k, n)
        \/ Reloads(p, k) /\ x = Old(p, p[k].of)
    BY DEF Made
  <2> HIDE DEF M
  <2>2. /\ \A j \in 1 .. H(p, k) : D(p, k, j) = ForHead(p, k)[j]
        /\ Reloads(p, k) => D(p, k, H(p, k) + 1).x = Old(p, p[k].of)
    <3>1. /\ \A j \in 1 .. H(p, k) : D(p, k, j) = ForHead(p, k)[j]
          /\ Reloads(p, k) => D(p, k, H(p, k) + 1) = Let(Old(p, p[k].of), Var(Acc(p, p[k].of)))
      BY ForCodeIs DEF D
    <3> QED BY <1>f, <1>g, <3>1
  <2>3. CASE Reloads(p, k) /\ x = Old(p, p[k].of)
    <3>1. H(p, k) + 1 \in 1 .. N(p, k) /\ H(p, k) + 1 # w
      BY <1>0, <2>3
    <3> QED BY <2>2, <2>3, <3>1
  <2>4. CASE p[k].how = "zip" /\ (x \in Targets(p, k) \/ x = IndexOf(p, k) \/ \E n \in DOMAIN p[k].its : x = Holder(p, k, n))
    <3> DEFINE s == ForHead(p, k)
    <3>1. s[1].x = Zip0(p, k) /\ s[2].x = Zip1(p, k) /\ s[3].x = IndexOf(p, k)
          /\ s[5].x = p[k].t[1] /\ s[6].x = p[k].t[2]
      <4>1. /\ s[1] = Let(Zip0(p, k), Var(p[k].its[1].x))
            /\ s[2] = Let(Zip1(p, k), Var(p[k].its[2].x))
            /\ s[3] = Let(IndexOf(p, k), Num(0))
            /\ s[5] = Load(p[k].t[1], Zip0(p, k), IndexOf(p, k))
            /\ s[6] = Load(p[k].t[2], Zip1(p, k), IndexOf(p, k))
        BY <2>4, HeadIs
      <4> HIDE DEF s
      <4> QED BY <1>f, <1>g, <4>1
    <3>2. x \in {Zip0(p, k), Zip1(p, k), IndexOf(p, k), p[k].t[1], p[k].t[2]}
      BY <1>0, <1>1, <2>4 DEF Holder
    <3>3. w = 4 /\ H(p, k) = 6 /\ N(p, k) \in {6, 7}
      BY <1>0, <2>4
    <3> HIDE DEF s, w
    <3>4. \E n \in {1, 2, 3, 5, 6} : s[n].x = x
      BY <3>1, <3>2
    <3>5. \A n \in {1, 2, 3, 5, 6} : n \in 1 .. H(p, k) /\ n \in 1 .. N(p, k) /\ n # w
      BY <3>3
    <3> QED BY <2>2, <3>4, <3>5 DEF s, w
  <2>5. CASE p[k].how # "zip" /\ Ranged(p, k) /\ x \in Targets(p, k)
    <3> DEFINE s == ForHead(p, k)
               o == Enum(p, k)
    <3>1. s[o + 1].x = Over(p[k]) /\ (p[k].how = "enumerate" => s[1].x = p[k].t[1])
      <4>1. /\ s[o + 1] = Let(Over(p[k]), p[k].its[1].start)
            /\ p[k].how = "enumerate" => s[1] = Let(p[k].t[1], Num(p[k].start))
        BY <2>5, HeadIs
      <4> QED BY <1>f, <1>g, <4>1
    <3>2. x = Over(p[k]) \/ (p[k].how = "enumerate" /\ x = p[k].t[1])
      BY <1>1, <2>5
    <3>3. o + 1 \in 1 .. H(p, k) /\ o + 1 \in 1 .. N(p, k) /\ o + 1 # w
          /\ 1 \in 1 .. H(p, k) /\ 1 \in 1 .. N(p, k) /\ 1 # w
      BY <1>0, <2>5 DEF Indexed
    <3> QED BY <2>2, <3>1, <3>2, <3>3
  <2>6. CASE p[k].how # "zip" /\ ~ Ranged(p, k)
             /\ (x \in Targets(p, k) \/ x = IndexOf(p, k) \/ \E n \in DOMAIN p[k].its : x = Holder(p, k, n))
    <3> DEFINE s == ForHead(p, k)
               o == Enum(p, k)
    <3>1. s[o + 1].x = ListOf(p, k) /\ s[o + 2].x = IndexOf(p, k) /\ s[o + 4].x = Over(p[k])
          /\ (p[k].how = "enumerate" => s[1].x = p[k].t[1])
      <4>1. /\ s[o + 1] = Let(ListOf(p, k), Var(p[k].its[1].x))
            /\ s[o + 2] = Let(IndexOf(p, k), Num(0))
            /\ s[o + 4] = Load(Over(p[k]), ListOf(p, k), IndexOf(p, k))
            /\ p[k].how = "enumerate" => s[1] = Let(p[k].t[1], Num(p[k].start))
        BY <2>6, HeadIs
      <4> HIDE DEF s, o
      <4> QED BY <1>f, <1>g, <4>1
    <3>2. \/ x \in {Over(p[k]), IndexOf(p, k), ListOf(p, k)}
          \/ (p[k].how = "enumerate" /\ x = p[k].t[1])
      BY <1>0, <1>1, <2>6 DEF Holder
    <3>3. Indexed(p, k) /\ w = o + 3 /\ H(p, k) = o + 4 /\ o \in {0, 1} /\ N(p, k) \in {o + 4, o + 5}
      BY <1>0, <2>6 DEF Indexed, Ranged
    <3> HIDE DEF s, w, o
    <3>4. \A n \in {1, o + 1, o + 2, o + 4} : n \in 1 .. H(p, k) /\ n \in 1 .. N(p, k) /\ n # w
      BY <3>3
    <3>5. \E n \in {1, o + 1, o + 2, o + 4} : s[n].x = x
      BY <3>1, <3>2 DEF o
    <3> QED BY <2>2, <3>4, <3>5 DEF s, w
  <2>7. p[k].how = "zip" => ~ Ranged(p, k)
    BY ForIs DEF Ranged
  <2> QED BY <2>1, <2>3, <2>4, <2>5, <2>6, <2>7 DEF Indexed
<1> QED BY <1>3, <1>4

(* From one instruction to the next. *)
LEMMA KnownNext ==
  ASSUME NEW p, IsBody(p), NEW k \in 1 .. Len(p), NEW i \in 1 .. N(p, k), i < N(p, k)
  PROVE  Known(p, k, i + 1) \subseteq Known(p, k, i) \cup Stored(D(p, k, i))
<1>0. N(p, k) \in Nat
  BY NIs
<1>1. MadeByFilter(p, k, i + 1) \subseteq MadeByFilter(p, k, i)
  <2>1. \A j : Filtering(p, j, k, i + 1) => Filtering(p, j, k, i)
    BY <1>0 DEF Filtering
  <2> QED BY <2>1 DEF MadeByFilter
<1>2. MadeHere(p, k, i + 1) \subseteq MadeHere(p, k, i) \cup Stored(D(p, k, i))
  <2>1. CASE p[k].op # "for"
    BY <2>1 DEF MadeHere
  <2>2. CASE p[k].op = "for"
    <3>1. ASSUME NEW n \in 1 .. i, n # W(p, k)
          PROVE  D(p, k, n).x \in MadeHere(p, k, i) \cup Stored(D(p, k, i))
      <4>1. CASE n = i
        <5>1. Stored(D(p, k, i)) = {D(p, k, i).x}
          BY <2>2, <3>1, <4>1, MadeIs
        <5> QED BY <4>1, <5>1
      <4>2. CASE n \in 1 .. i - 1
        BY <2>2, <3>1, <4>2 DEF MadeHere
      <4>3. n = i \/ n \in 1 .. i - 1
        BY <1>0, <3>1
      <4> QED BY <4>1, <4>2, <4>3
    <3>2. (i + 1) - 1 = i
      BY <1>0
    <3> QED BY <2>2, <3>1, <3>2 DEF MadeHere
  <2> QED BY <2>1, <2>2
<1> QED BY <1>1, <1>2 DEF Known

(* From a token to the next one. *)
LEMMA KnownAfter ==
  ASSUME NEW p, IsBody(p), NEW k \in 1 .. Len(p), k < Len(p)
  PROVE  Known(p, k + 1, 1) \subseteq Known(p, k, N(p, k)) \cup Stored(D(p, k, N(p, k)))
<1> DEFINE n == N(p, k)
           K == Known(p, k, n) \cup Stored(D(p, k, n))
<1>0. n \in Nat /\ n >= 1 /\ Len(p) \in Nat /\ k + 1 \in 1 .. Len(p) /\ k + 1 \in 1 .. Len(p) + 1 /\ k \in 1 .. Len(p) + 1
  BY NIs, BodyIs
<1>1. Around(p, k + 1) \subseteq Around(p, k) \cup {k}
      /\ (p[k].op \notin Opens => Around(p, k + 1) \subseteq Around(p, k))
  <2>1. /\ p[k].op \in Opens => Around(p, k + 1) = Around(p, k) \cup {k}
        /\ p[k].op \in Closes => Around(p, k + 1) = Around(p, k) \ {p[k].of}
        /\ p[k].op \notin Opens \cup Closes => Around(p, k + 1) = Around(p, k)
    BY AroundIs
  <2> QED BY <2>1
<1>2. p[k].op \in Opens => Made(p, k) \subseteq K
  <2>1. CASE p[k].op = "gather"
    <3>1. n = 1 /\ D(p, k, 1) = Start(p, k)
      <4>1. Single(p[k])
        BY <2>1 DEF Single
      <4>2. D(p, k, 1) = Only(p, k) /\ n = 1
        BY <4>1, SingleIs DEF D, N
      <4> QED BY <2>1, <4>2 DEF Only
    <3>2. Stored(Start(p, k)) = {Acc(p, k)}
      <4>1. p[k].how \in {"sum", "any", "all", "list"}
        BY <2>1, BodyIs DEF Typed
      <4> QED BY <4>1 DEF Stored, Start, Let
    <3> QED BY <2>1, <3>1, <3>2 DEF Made
  <2>2. CASE p[k].op = "for"
    <3>1. ASSUME NEW x \in Made(p, k) PROVE x \in K
      <4>1. PICK m \in 1 .. N(p, k) : m # W(p, k) /\ D(p, k, m).x = x
        BY <2>2, MadeIs
      <4>2. CASE m = n
        <5>1. Stored(D(p, k, m)) = {D(p, k, m).x}
          BY <2>2, <4>1, MadeIs
        <5> QED BY <4>1, <4>2, <5>1
      <4>3. CASE m # n
        <5>1. m \in (1 .. n - 1) \ {W(p, k)}
          BY <1>0, <4>1, <4>3
        <5> QED BY <2>2, <4>1, <5>1 DEF MadeHere, Known
      <4> QED BY <4>2, <4>3
    <3> QED BY <3>1
  <2>3. CASE p[k].op \notin {"gather", "for"}
    BY <2>3 DEF Made
  <2> QED BY <2>1, <2>2, <2>3
<1>3. MadeAround(p, k + 1) \subseteq K
  <2>1. \A j \in Around(p, k) : Made(p, j) \subseteq K
    BY DEF Known, MadeAround
  <2> HIDE DEF K
  <2>2. \A j \in Around(p, k + 1) : Made(p, j) \subseteq K
    BY <1>1, <1>2, <2>1
  <2> QED BY <2>2 DEF MadeAround
<1>4. MadeHere(p, k + 1, 1) = {}
  BY DEF MadeHere
<1>5. MadeByFilter(p, k + 1, 1) \subseteq K
  <2> SUFFICES ASSUME NEW l \in Around(p, k + 1), Filtering(p, l, k + 1, 1)
               PROVE  Old(p, p[l].of) \in K
    BY DEF MadeByFilter
  <2>1. Each(p[l]) /\ Filtered(p, l) /\ Grows(p, p[l].of) /\ k + 1 >= l + 2
    BY DEF Filtering
  <2>2. l \in 1 .. Len(p) /\ p[l].op \in Opens
    BY <1>0, AroundOf
  <2>3. k < End(p, l) /\ l < k
    <3>1. l < k + 1 /\ k + 1 <= End(p, l)
      BY <1>0, <2>2, EndIs
    <3>2. End(p, l) \in l + 1 .. Len(p)
      BY <2>2, EndIs
    <3> QED BY <1>0, <2>1, <2>2, <3>1, <3>2
  <2>4. l \in Around(p, k)
    BY <1>1, <2>3
  <2>5. CASE k = l + 1
    <3>1. p[k].op = "filter"
      BY <2>1, <2>5 DEF Filtered
    <3>2. p[k].of = l
      <4>1. p[k].of = k - 1
        BY <3>1, FilterIs
      <4> QED BY <2>2, <2>5, <4>1
    <3>3. Reloads(p, k)
      BY <2>1, <3>1, <3>2 DEF Reloads
    <3>4. n = 2
      BY <3>1, <3>3, NIs
    <3>5. D(p, k, 2) = Let(Old(p, p[l].of), Var(Acc(p, p[l].of)))
      BY <3>1, <3>2, <3>3, FilterCodeIs DEF D
    <3>6. Stored(D(p, k, 2)) = {Old(p, p[l].of)}
      BY <3>5 DEF Stored, Let
    <3> QED BY <3>4, <3>6
  <2>6. CASE k # l + 1
    <3>1. k >= l + 2
      BY <1>0, <2>2, <2>3, <2>6
    <3>2. Filtering(p, l, k, n)
      BY <2>1, <2>3, <3>1 DEF Filtering
    <3> QED BY <2>4, <3>2 DEF Known, MadeByFilter
  <2> QED BY <2>5, <2>6
<1>6. DOMAIN Env0 \subseteq K
  BY DEF Known
<1> HIDE DEF K
<1>7. Known(p, k + 1, 1) \subseteq K
  BY <1>3, <1>4, <1>5, <1>6 DEF Known
<1> QED BY <1>7 DEF K

LEMMA AroundUp ==
  ASSUME NEW p, IsBody(p), NEW k \in 1 .. Len(p) + 1, NEW l \in Around(p, k)
  PROVE  /\ Around(p, l) \subseteq Around(p, k) /\ l \notin Around(p, l)
         /\ l \in 1 .. Len(p) /\ p[l].op \in Opens /\ l < k /\ k <= End(p, l)
         /\ Around(p, End(p, l)) = Around(p, l) \cup {l}
         /\ Around(p, End(p, l) + 1) = Around(p, l)
<1>1. l \in 1 .. Len(p) /\ p[l].op \in Opens
  BY AroundOf
<1>2. l < k /\ k <= End(p, l)
  BY <1>1, EndIs
<1>3. /\ Around(p, End(p, l)) = Around(p, l) \cup {l} /\ l \notin Around(p, l)
      /\ Around(p, End(p, l) + 1) = Around(p, l)
  BY <1>1, AfterEnd
<1>4. End(p, l) \in l + 1 .. Len(p)
  BY <1>1, EndIs
<1>5. End(p, l) \in 1 .. Len(p) + 1 /\ l \in 1 .. Len(p) + 1 /\ Len(p) \in Nat
  BY <1>1, <1>4, BodyIs
<1>6. ASSUME NEW j \in Around(p, l) PROVE j \in Around(p, k)
  <2>1. j \in 1 .. Len(p) /\ p[j].op \in Opens
    BY <1>5, AroundOf
  <2>2. j < l /\ End(p, l) <= End(p, j)
    <3>1. j \in Around(p, End(p, l))
      BY <1>3
    <3> QED BY <1>5, <2>1, <3>1, EndIs
  <2>3. End(p, j) \in j + 1 .. Len(p)
    BY <2>1, EndIs
  <2>4. j < k /\ k <= End(p, j)
    BY <1>1, <1>2, <1>5, <2>1, <2>2, <2>3
  <2> QED BY <2>1, <2>4, EndIs
<1> QED BY <1>1, <1>2, <1>3, <1>6

(* What a filter's old value is known for stays known along a branch. *)
LEMMA FilterStays ==
  ASSUME NEW p, IsBody(p), NEW k \in 1 .. Len(p), NEW i \in Nat, NEW r, NEW j,
         NEW l \in Around(p, k), Filtering(p, l, r, j),
         p[k].op = "filter" => p[k].of # l,
         p[k].op \in Closes /\ p[k].of = l => i = 1
  PROVE  Filtering(p, l, k, i)
<1>1. Each(p[l]) /\ Filtered(p, l) /\ Grows(p, p[l].of)
  BY DEF Filtering
<1>2. k \in 1 .. Len(p) + 1
  BY BodyIs
<1>3. l \in 1 .. Len(p) /\ p[l].op \in Opens /\ l < k /\ k <= End(p, l)
  BY <1>2, AroundUp
<1>4. End(p, l) \in l + 1 .. Len(p) /\ p[End(p, l)].op \in Closes /\ p[End(p, l)].of = l
  BY <1>3, EndIs
<1>5. k >= l + 2
  <2>1. k # l + 1
    <3> SUFFICES ASSUME k = l + 1 PROVE FALSE
      OBVIOUS
    <3>1. p[k].op = "filter"
      BY <1>1 DEF Filtered
    <3>2. p[k].of = k - 1
      BY <3>1, FilterIs
    <3> QED BY <1>3, <3>1, <3>2
  <2> QED BY <1>3, <2>1
<1>6. k < End(p, l) \/ i = 1
  <2>1. CASE k = End(p, l)
    BY <1>4, <2>1
  <2>2. CASE k # End(p, l)
    BY <1>3, <1>4, <2>2
  <2> QED BY <2>1, <2>2
<1> QED BY <1>1, <1>5, <1>6 DEF Filtering

LEMMA KnownAlong ==
  ASSUME NEW p, IsBody(p), NEW k \in 1 .. Len(p), NEW i \in 1 .. N(p, k),
         NEW r \in 1 .. Len(p), NEW j \in 1 .. N(p, r),
         \A l \in Around(p, r) : l \in Around(p, k) \/ Made(p, l) = {},
         p[r].op = "for" => j = 1 \/ r \in Around(p, k),
         \A l \in Around(p, r) : Filtering(p, l, r, j) => l \in Around(p, k) /\ Filtering(p, l, k, i)
  PROVE  Known(p, r, j) \subseteq Known(p, k, i)
<1>1. MadeAround(p, r) \subseteq MadeAround(p, k)
  BY DEF MadeAround
<1>2. MadeByFilter(p, r, j) \subseteq MadeByFilter(p, k, i)
  BY DEF MadeByFilter
<1>3. MadeHere(p, r, j) \subseteq MadeAround(p, k)
  <2>1. CASE p[r].op # "for" \/ j = 1
    BY <2>1 DEF MadeHere
  <2>2. CASE p[r].op = "for" /\ r \in Around(p, k)
    <3>1. N(p, r) \in Nat
      BY NIs
    <3>2. \A n \in (1 .. j - 1) \ {W(p, r)} : n \in 1 .. N(p, r) /\ n # W(p, r)
      BY <3>1
    <3>3. MadeHere(p, r, j) \subseteq Made(p, r)
      BY <2>2, <3>2, MadeIs DEF MadeHere
    <3> QED BY <2>2, <3>3 DEF MadeAround
  <2> QED BY <2>1, <2>2
<1> QED BY <1>1, <1>2, <1>3 DEF Known

(* Where an instruction leads. *)
Flows(p, k, i, r) ==
  \/ r = IF i < N(p, k) THEN <<k, i + 1>> ELSE <<k + 1, 1>>
  \/ D(p, k, i).op \in Branches /\ r = Dest(p, k, i)

Leads(p, k, i, r) ==
  \/ r = <<Len(p) + 1, 1>>
  \/ /\ r = <<r[1], r[2]>> /\ r[1] \in 1 .. Len(p) /\ r[2] \in 1 .. N(p, r[1])
     /\ Known(p, r[1], r[2]) \subseteq Known(p, k, i) \cup Stored(D(p, k, i))
     /\ p[r[1]].op = "for" /\ r[2] > W(p, r[1]) => r[1] = k /\ r[2] = i + 1

LEMMA LeadsIs ==
  ASSUME NEW p, NEW k, NEW i, NEW r \in 1 .. Len(p), NEW j \in 1 .. N(p, r),
         Known(p, r, j) \subseteq Known(p, k, i) \cup Stored(D(p, k, i)),
         p[r].op = "for" /\ j > W(p, r) => r = k /\ j = i + 1
  PROVE  Leads(p, k, i, <<r, j>>)
<1> DEFINE x == <<r, j>>
<1>1. x[1] = r /\ x[2] = j /\ x = <<x[1], x[2]>>
  OBVIOUS
<1> HIDE DEF x
<1>2. Leads(p, k, i, x)
  BY <1>1 DEF Leads
<1> QED BY <1>2 DEF x

LEMMA FlowIs ==
  ASSUME NEW p, IsBody(p), NEW k \in 1 .. Len(p), NEW i \in 1 .. N(p, k), NEW r, Flows(p, k, i, r)
  PROVE  Leads(p, k, i, r)
<1> DEFINE d == D(p, k, i)
           l == p[k].of
<1>0. N(p, k) \in Nat /\ N(p, k) >= 1 /\ Len(p) \in Nat /\ k \in 1 .. Len(p) + 1 /\ i \in Nat
  BY NIs, BodyIs
<1>1. \A m \in 1 .. Len(p) : N(p, m) \in Nat /\ N(p, m) >= 1 /\ 1 \in 1 .. N(p, m)
  BY NIs
<1>2. \A m \in 1 .. Len(p) : p[m].op = "for" => W(p, m) \in 2 .. 4
  BY WalkIs
<1>3. CASE r = IF i < N(p, k) THEN <<k, i + 1>> ELSE <<k + 1, 1>>
  <2>1. CASE i < N(p, k)
    <3>1. i + 1 \in 1 .. N(p, k)
      BY <1>0, <2>1
    <3>2. Known(p, k, i + 1) \subseteq Known(p, k, i) \cup Stored(d)
      BY <2>1, KnownNext
    <3>3. Leads(p, k, i, <<k, i + 1>>)
      <4> DEFINE n == i + 1
      <4>1. n \in 1 .. N(p, k) /\ Known(p, k, n) \subseteq Known(p, k, i) \cup Stored(d) /\ n = i + 1
        BY <3>1, <3>2
      <4> HIDE DEF n
      <4>2. Leads(p, k, i, <<k, n>>)
        BY <4>1, LeadsIs
      <4> QED BY <4>2 DEF n
    <3> QED BY <1>3, <2>1, <3>3
  <2>2. CASE ~ (i < N(p, k))
    <3>1. i = N(p, k) /\ r = <<k + 1, 1>>
      BY <1>0, <1>3, <2>2
    <3>2. CASE k = Len(p)
      BY <3>1, <3>2 DEF Leads
    <3>3. CASE k # Len(p)
      <4> DEFINE m == k + 1
      <4>1. k < Len(p) /\ m \in 1 .. Len(p)
        BY <1>0, <3>3
      <4>2. Known(p, m, 1) \subseteq Known(p, k, i) \cup Stored(d)
        BY <3>1, <4>1, KnownAfter
      <4>3. p[m].op = "for" => ~ (1 > W(p, m))
        BY <1>2, <4>1
      <4>4. 1 \in 1 .. N(p, m)
        BY <1>1, <4>1
      <4> HIDE DEF m
      <4>5. Leads(p, k, i, <<m, 1>>)
        BY <4>1, <4>2, <4>3, <4>4, LeadsIs
      <4> QED BY <3>1, <4>5 DEF m
    <3> QED BY <3>2, <3>3
  <2> QED BY <2>1, <2>2
<1>4. CASE d.op \in Branches /\ r = Dest(p, k, i)
  <2>0. Tells(p, k, i)
    BY TellsIs
  <2>1. ASSUME NEW m \in 1 .. Len(p), NEW j \in 1 .. N(p, m),
               \A n \in Around(p, m) : n \in Around(p, k) \/ Made(p, n) = {},
               p[m].op = "for" => j = 1 \/ (j = W(p, m) /\ m \in Around(p, k)),
               \A n \in Around(p, m) : Filtering(p, n, m, j) => n \in Around(p, k) /\ Filtering(p, n, k, i)
        PROVE  Leads(p, k, i, <<m, j>>)
    <3>1. Known(p, m, j) \subseteq Known(p, k, i)
      BY <2>1, KnownAlong
    <3>2. ~ (p[m].op = "for" /\ j > W(p, m))
      BY <1>2, <2>1
    <3> QED BY <3>1, <3>2, LeadsIs
  <2>2. ASSUME NEW j \in 2 .. N(p, k), p[k].op # "for" PROVE Leads(p, k, i, <<k, j>>)
    <3>1. \A n \in Around(p, k) : Filtering(p, n, k, j) => Filtering(p, n, k, i)
      BY DEF Filtering
    <3>2. j \in 1 .. N(p, k)
      BY <1>0
    <3> QED BY <2>1, <2>2, <3>1, <3>2
  (* From a token to after the construct m, around it or opened by it. *)
  <2>3. ASSUME NEW m \in 1 .. Len(p), p[m].op \in Opens, Around(p, m) \subseteq Around(p, k),
               \A n \in Around(p, m) : /\ p[k].op = "filter" => l # n
                                       /\ p[k].op \in Closes => l # n
        PROVE  Leads(p, k, i, <<End(p, m) + 1, 1>>)
    <3>1. End(p, m) \in m + 1 .. Len(p) /\ Around(p, End(p, m) + 1) = Around(p, m)
      BY <2>3, EndIs, AfterEnd
    <3>2. CASE End(p, m) = Len(p)
      BY <3>2 DEF Leads
    <3>3. CASE End(p, m) # Len(p)
      <4> DEFINE q == End(p, m) + 1
      <4>1. q \in 1 .. Len(p) /\ Around(p, q) = Around(p, m)
        BY <1>0, <3>1, <3>3
      <4>2. 1 \in 1 .. N(p, q)
        BY <1>1, <4>1
      <4> HIDE DEF q
      <4>3. \A n \in Around(p, q) : Filtering(p, n, q, 1) => n \in Around(p, k) /\ Filtering(p, n, k, i)
        BY <1>0, <2>3, <4>1, FilterStays
      <4>4. Leads(p, k, i, <<q, 1>>)
        BY <2>1, <2>3, <4>1, <4>2, <4>3
      <4> QED BY <4>4 DEF q
    <3> QED BY <3>2, <3>3
  <2>4. CASE d.op = "if"
    <3>0. r = IfDest(p, k)
      BY <1>4, <2>4 DEF Dest
    <3>1. CASE p[k].op = "if"
      <4> DEFINE m == Else(p, k) + 1
      <4>1. /\ Else(p, k) \in k + 1 .. End(p, k) - 1 /\ Around(p, m) = Around(p, k) \cup {k}
            /\ End(p, k) \in k + 1 .. Len(p)
        BY <3>1, ElseIs, EndIs DEF Opens
      <4>2. m \in 1 .. Len(p)
        BY <1>0, <4>1
      <4>3. 1 \in 1 .. N(p, m) /\ r = <<m, 1>>
        BY <1>1, <3>0, <3>1, <4>2 DEF IfDest
      <4> HIDE DEF m
      <4>4. Made(p, k) = {} /\ ~ Filtering(p, k, m, 1)
        BY <3>1 DEF Made, Filtering, Each
      <4>5. \A n \in Around(p, m) : n \in Around(p, k) \/ Made(p, n) = {}
        BY <4>1, <4>4
      <4>6. \A n \in Around(p, m) : Filtering(p, n, m, 1) => n \in Around(p, k) /\ Filtering(p, n, k, i)
        <5>1. p[k].op \notin Closes /\ p[k].op # "filter"
          BY <3>1 DEF Closes
        <5> QED BY <1>0, <4>1, <4>4, <5>1, FilterStays
      <4> QED BY <2>1, <4>2, <4>3, <4>5, <4>6
    <3>2. CASE p[k].op = "filter"
      <4> DEFINE e == End(p, l)
                 j == Q(p, l) + 2
      <4>1. l \in 1 .. Len(p) /\ p[l].op = "for" /\ Filtered(p, l) /\ Around(p, k) = Around(p, l) \cup {l}
        BY <3>2, FilterIs
      <4>2. Around(p, e) = Around(p, l) \cup {l} /\ e \in 1 .. Len(p) /\ p[e].op \in Closes
        <5>1. p[l].op \in Opens
          BY <4>1 DEF Opens
        <5>2. e \in l + 1 .. Len(p)
          BY <4>1, <5>1, EndIs
        <5> QED BY <4>1, <5>1, <5>2, AfterEnd, EndIs
      <4>3. j \in 1 .. N(p, e) /\ Q(p, l) \in {0, 1, 5}
        BY <4>1, LoopIs DEF IsLoop
      <4>4. r = <<e, j>>
        BY <3>0, <3>2 DEF IfDest
      <4>5. ~ Filtering(p, l, e, j)
        BY <4>2, <4>3 DEF Filtering
      <4> HIDE DEF e, j
      <4>6. \A n \in Around(p, e) : Filtering(p, n, e, j) => n \in Around(p, k) /\ Filtering(p, n, k, i)
        <5>1. p[k].op \notin Closes
          BY <3>2 DEF Closes
        <5> QED BY <1>0, <4>1, <4>2, <4>5, <5>1, FilterStays
      <4>7. p[e].op # "for"
        BY <4>2 DEF Closes
      <4> QED BY <2>1, <4>1, <4>2, <4>3, <4>4, <4>6, <4>7
    <3>3. CASE Deciding(p, k)
      <4>1. N(p, k) > 5
        BY <3>3, TestPositions
      <4>2. p[k].op = "yield"
        BY <3>3 DEF Deciding
      <4> DEFINE j == IF AnyOf(p, k) THEN 5 ELSE 3
      <4>3. j \in 2 .. N(p, k) /\ r = <<k, j>>
        BY <1>0, <3>0, <4>1, <4>2 DEF IfDest
      <4> HIDE DEF j
      <4> QED BY <2>2, <4>2, <4>3
    <3> QED BY <2>0, <2>4, <3>1, <3>2, <3>3 DEF Tells
  <2>5. CASE d.op = "while"
    <3>1. IsLoop(p[k]) /\ r = <<End(p, k) + 1, 1>>
      BY <1>4, <2>0, <2>5 DEF Tells, Dest
    <3>2. p[k].op \in Opens /\ p[k].op \notin Closes /\ p[k].op # "filter"
      BY <3>1 DEF IsLoop, Opens, Closes
    <3> QED BY <2>3, <3>1, <3>2
  <2>6. CASE d.op = "else"
    <3>0. r = ElseDest(p, k, i)
      BY <1>4, <2>6 DEF Dest
    <3>1. CASE p[k].op = "else"
      <4> DEFINE e == End(p, l)
      <4>1. l \in 1 .. Len(p) /\ p[l].op = "if"
        <5>1. Fits(p, k)
          BY BodyIs
        <5> DEFINE t == p[k]
        <5>2. t.op = "else" /\ ~ Each(t)
          BY <3>1 DEF Each
        <5>3. Belongs(p, k) /\ p[t.of].op = "if"
          BY <5>1, <5>2 DEF Fits
        <5>4. l \in Around(p, k)
          BY <5>3 DEF Belongs, Innermost
        <5> QED BY <1>0, <5>3, <5>4, AroundOf
      <4>2. p[l].op \in Opens
        BY <4>1 DEF Opens
      <4>3. Around(p, e) = Around(p, l) \cup {l} /\ e \in 1 .. Len(p) /\ p[e].op \in Closes
        <5>1. e \in l + 1 .. Len(p)
          BY <4>1, <4>2, EndIs
        <5> QED BY <4>1, <4>2, <5>1, AfterEnd, EndIs
      <4>4. Around(p, k) = Around(p, l) \cup {l}
        BY <3>1, <4>1, ElseIs
      <4>5. r = <<e, 1>> /\ 1 \in 1 .. N(p, e)
        BY <1>1, <3>0, <3>1, <4>3 DEF ElseDest
      <4> HIDE DEF e
      <4>6. \A n \in Around(p, e) : Filtering(p, n, e, 1) => n \in Around(p, k) /\ Filtering(p, n, k, i)
        <5>1. p[k].op \notin Closes /\ p[k].op # "filter"
          BY <3>1 DEF Closes
        <5> QED BY <1>0, <4>3, <4>4, <5>1, FilterStays
      <4> QED BY <2>1, <4>3, <4>4, <4>5, <4>6
    <3>2. CASE Closing(p, k) /\ i = Q(p, l) + 1 /\ Filtered(p, l)
      <4>1. l \in 1 .. Len(p) /\ IsLoop(p[l]) /\ k = End(p, l)
        BY <3>2, ClosingOf
      <4>2. Q(p, l) \in {0, 1, 5} /\ Q(p, l) + 2 \in 1 .. N(p, k)
        BY <3>2, <4>1, LoopIs
      <4>3. i + 1 \in 2 .. N(p, k)
        BY <1>0, <3>2, <4>2
      <4>4. ~ (i <= Q(p, l))
        BY <3>2, <4>2
      <4>5. p[k].op # "else" /\ p[k].op # "for"
        BY <3>2 DEF Closing
      <4>6. r = <<k, i + 1>>
        BY <3>0, <4>4, <4>5 DEF ElseDest
      <4> DEFINE j == i + 1
      <4>7. j \in 2 .. N(p, k) /\ r = <<k, j>>
        BY <4>3, <4>6
      <4> HIDE DEF j
      <4> QED BY <2>2, <4>5, <4>7
    <3>3. CASE Deciding(p, k) /\ i = (IF AnyOf(p, k) THEN 4 ELSE 2)
      <4>1. N(p, k) > 5 /\ Q(p, l) = 5
        BY <3>3, TestPositions
      <4>2. p[k].op = "yield"
        BY <3>3 DEF Deciding
      <4>3. i <= Q(p, l)
        BY <3>3, <4>1
      <4>4. 5 \in 2 .. N(p, k) /\ r = <<k, 5>>
        BY <1>0, <3>0, <4>1, <4>2, <4>3 DEF ElseDest
      <4> QED BY <2>2, <4>2, <4>4
    <3> QED BY <2>0, <2>6, <3>1, <3>2, <3>3 DEF Tells
  <2>7. CASE d.op = "next"
    <3>1. Closing(p, k) /\ i = Q(p, l) + F(p, l) + 1
      BY <2>0, <2>7 DEF Tells
    <3>2. l \in 1 .. Len(p) /\ IsLoop(p[l]) /\ k = End(p, l) /\ p[k].op # "for"
      BY <3>1, ClosingOf DEF Closing
    <3>3. LatchAt(p, l) \in 2 .. N(p, k) /\ Q(p, l) \in {0, 1, 5} /\ F(p, l) \in {0, 2}
      BY <3>2, LoopIs
    <3> DEFINE j == i + 1
    <3>4. j \in 2 .. N(p, k)
      BY <1>0, <3>1, <3>3 DEF LatchAt
    <3>5. r = <<k, j>>
      BY <1>4, <2>7 DEF Dest
    <3> HIDE DEF j
    <3> QED BY <2>2, <3>2, <3>4, <3>5
  <2>8. CASE d.op = "end"
    <3>1. Closing(p, k)
      BY <2>0, <2>8 DEF Tells
    <3>2. l \in 1 .. Len(p) /\ IsLoop(p[l]) /\ k = End(p, l) /\ p[l].op \in Opens
      BY <3>1, ClosingOf
    <3>3. W(p, l) \in 1 .. N(p, l)
      BY <3>2, LoopIs
    <3>4. r = <<l, W(p, l)>>
      BY <1>4, <2>8 DEF Dest
    <3>5. Around(p, k) = Around(p, l) \cup {l} /\ l \notin Around(p, l)
      BY <3>2, AfterEnd
    <3>6. \A n \in Around(p, l) : Filtering(p, n, l, W(p, l)) => n \in Around(p, k) /\ Filtering(p, n, k, i)
      <4>1. p[k].op # "filter"
        BY <3>1 DEF Closing
      <4> SUFFICES ASSUME NEW n \in Around(p, l), Filtering(p, n, l, W(p, l))
                   PROVE  n \in Around(p, k) /\ Filtering(p, n, k, i)
        OBVIOUS
      <4>2. n \in Around(p, k) /\ l # n
        BY <3>5
      <4> QED BY <1>0, <4>1, <4>2, FilterStays
    <3> QED BY <2>1, <3>2, <3>3, <3>4, <3>5, <3>6
  <2>9. CASE d.op \in {"break", "continue"}
    <3>1. l \in Around(p, k) /\ l \in 1 .. Len(p) /\ IsLoop(p[l])
      BY <2>9, JumpIs
    <3>2. /\ Around(p, l) \subseteq Around(p, k) /\ l \notin Around(p, l) /\ p[l].op \in Opens
          /\ Around(p, End(p, l)) = Around(p, l) \cup {l}
      BY <1>0, <3>1, AroundUp
    <3>3. CASE d.op = "break"
      <4>1. r = <<End(p, l) + 1, 1>>
        BY <1>4, <3>3 DEF Dest
      <4>2. \A n \in Around(p, l) : l # n
        BY <3>2
      <4> QED BY <2>3, <3>1, <3>2, <4>1, <4>2
    <3>4. CASE d.op = "continue"
      <4> DEFINE e == End(p, l)
                 j == LatchAt(p, l)
      <4>1. r = <<e, j>>
        BY <1>4, <3>4 DEF Dest
      <4>2. p[k].op = "continue"
        <5>1. p[k].op \in {"break", "continue"} /\ i = 1
          BY <2>0, <3>4 DEF Tells
        <5>2. Single(p[k])
          BY <5>1 DEF Single
        <5>3. d = Only(p, k)
          BY <5>1, <5>2, SingleIs DEF D
        <5>4. Only(p, k).op = p[k].op
          BY <5>1 DEF Only
        <5> QED BY <3>4, <5>3, <5>4
      <4>3. e \in 1 .. Len(p) /\ j \in 2 .. N(p, e) /\ Closing(p, e)
        BY <3>1, LoopIs
      <4>4. j \in 1 .. N(p, e)
        BY <1>1, <4>3
      <4> HIDE DEF e, j
      <4>5. \A n \in Around(p, e) : n \in Around(p, k)
        BY <3>1, <3>2 DEF e
      <4>6. \A n \in Around(p, e) : Filtering(p, n, e, j) => n \in Around(p, k) /\ Filtering(p, n, k, i)
        <5>1. p[k].op \notin Closes /\ p[k].op # "filter"
          BY <4>2 DEF Closes
        <5> QED BY <1>0, <4>5, <5>1, FilterStays
      <4>7. p[e].op # "for"
        BY <4>3 DEF Closing
      <4> QED BY <2>1, <4>1, <4>3, <4>4, <4>5, <4>6, <4>7
    <3> QED BY <2>9, <3>3, <3>4
  <2> QED BY <1>4, <2>4, <2>5, <2>6, <2>7, <2>8, <2>9 DEF Branches
<1> QED BY <1>3, <1>4 DEF Flows

-----------------------------------------------------------------------------
(* The types of instructions, and the names they read. *)

LEMMA Expressions ==
  /\ \A n \in Int : HasType(Num(n), "int") /\ Reads(Num(n)) = {}
  /\ \A b \in BOOLEAN : HasType(Truth(b), "bool") /\ Reads(Truth(b)) = {}
  /\ \A x : HasType(Var(x), Kind(x)) /\ Reads(Var(x)) = {x}
  /\ \A x, n : Reads(Plus(Var(x), Num(n))) = {x}
               /\ (n \in Int /\ Kind(x) = "int" => HasType(Plus(Var(x), Num(n)), "int"))
<1>1. \A n \in Int : HasType(Num(n), "int") /\ Reads(Num(n)) = {}
  BY DEF Num, HasType, IsNumber, IsAtom, Reads, NumberReads, AtomReads, Comparisons
<1>2. \A b \in BOOLEAN : HasType(Truth(b), "bool") /\ Reads(Truth(b)) = {}
  BY DEF Truth, HasType, IsNumber, IsAtom, Reads, NumberReads, AtomReads, Comparisons
<1>3. \A x : HasType(Var(x), Kind(x)) /\ Reads(Var(x)) = {x}
  BY DEF Var, HasType, IsNumber, IsAtom, Reads, NumberReads, AtomReads, Comparisons
<1>4. \A x, n : Reads(Plus(Var(x), Num(n))) = {x}
  BY DEF Var, Plus, Num, Reads, NumberReads, AtomReads, Comparisons
<1>5. \A x, n : n \in Int /\ Kind(x) = "int" => HasType(Plus(Var(x), Num(n)), "int")
  BY DEF Var, Plus, Num, HasType, IsNumber, IsAtom, Comparisons
<1> QED BY ONLY <1>1, <1>2, <1>3, <1>4, <1>5

LEMMA NumberTyped ==
  ASSUME NEW e, IsNumber(e, "int")
  PROVE  HasType(e, "int") /\ Reads(e) = NumberReads(e)
BY DEF HasType, IsNumber, IsAtom, Reads, Comparisons

LEMMA Conditions ==
  /\ \A x, e : Kind(x) = "int" /\ IsNumber(e, "int") =>
       HasType(Less(Var(x), e), "bool") /\ Reads(Less(Var(x), e)) = {x} \cup NumberReads(e)
  /\ \A i, l : Kind(i) = "int" /\ Kind(l) = "list" =>
       HasType(Less(Var(i), Len_(l)), "bool") /\ Reads(Less(Var(i), Len_(l))) = {i, l}
  /\ \A i, l, m : Kind(i) = "int" /\ Kind(l) = "list" /\ Kind(m) = "list" =>
       LET c == Both(Less(Var(i), Len_(l)), Less(Var(i), Len_(m)))
       IN  HasType(c, "bool") /\ Reads(c) = {i, l, m}
<1> USE DEF HasType, IsComparison, IsNumber, IsAtom, Reads, CompReads, NumberReads, AtomReads, Comparisons
<1>1. \A x, e : Kind(x) = "int" /\ IsNumber(e, "int") =>
        HasType(Less(Var(x), e), "bool") /\ Reads(Less(Var(x), e)) = {x} \cup NumberReads(e)
  BY DEF Less, Var
<1>2. \A i, l : Kind(i) = "int" /\ Kind(l) = "list" =>
        HasType(Less(Var(i), Len_(l)), "bool") /\ Reads(Less(Var(i), Len_(l))) = {i, l}
  BY DEF Less, Var, Len_
<1>3. \A i, l, m : Kind(i) = "int" /\ Kind(l) = "list" /\ Kind(m) = "list" =>
        LET c == Both(Less(Var(i), Len_(l)), Less(Var(i), Len_(m)))
        IN  HasType(c, "bool") /\ Reads(c) = {i, l, m}
  BY DEF Less, Var, Len_, Both
<1> QED BY <1>1, <1>2, <1>3

(* The kinds of names. *)
LEMMA Kinds ==
  /\ \A x : x[1] \in DOMAIN Types =>
       x[1] \notin Helpers /\ Kind(x) = Types[x[1]] /\ Kind(x) \in {"int", "bool", "list"}
  /\ \A x : x[1] \in IndexHelpers => Kind(x) = "int"
  /\ \A x : x[1] \in ListHelpers => Kind(x) = "list" /\ x[1] \notin IndexHelpers
  /\ \A x : x[1] \in SumHelpers => Kind(x) = "int" /\ x[1] \notin IndexHelpers
  /\ \A x : x[1] \in BoolHelpers => Kind(x) = "bool" /\ x[1] \notin IndexHelpers
<1> USE DEF Kind, Helpers, ListHelpers, IndexHelpers, SumHelpers, BoolHelpers
<1>1. \A x : x[1] \in DOMAIN Types =>
        x[1] \notin Helpers /\ Kind(x) = Types[x[1]] /\ Kind(x) \in {"int", "bool", "list"}
  BY ProgramsAssumption
<1>2. \A x : x[1] \in IndexHelpers => Kind(x) = "int"
  OBVIOUS
<1>3. \A x : x[1] \in ListHelpers => Kind(x) = "list" /\ x[1] \notin IndexHelpers
  OBVIOUS
<1>4. \A x : x[1] \in SumHelpers => Kind(x) = "int" /\ x[1] \notin IndexHelpers
  OBVIOUS
<1>5. \A x : x[1] \in BoolHelpers => Kind(x) = "bool" /\ x[1] \notin IndexHelpers
  OBVIOUS
<1> QED BY <1>1, <1>2, <1>3, <1>4, <1>5

(* The names the compiler makes up have these kinds. *)
LEMMA HelperKinds ==
  ASSUME NEW p, NEW k
  PROVE  /\ ListOf(p, k)[1] \in ListHelpers /\ Zip0(p, k)[1] \in ListHelpers /\ Zip1(p, k)[1] \in ListHelpers
         /\ IndexOf(p, k)[1] \in IndexHelpers
         /\ p[k].how = "sum" => Acc(p, k)[1] \in SumHelpers /\ Old(p, k)[1] \in SumHelpers
         /\ p[k].how = "list" => Acc(p, k)[1] \in ListHelpers /\ Old(p, k)[1] \in ListHelpers
         /\ p[k].how \in {"any", "all"} => Acc(p, k)[1] \in BoolHelpers
<1> USE DEF ListHelpers, IndexHelpers, SumHelpers, BoolHelpers
<1>1. ListOf(p, k)[1] \in ListHelpers
  BY DEF ListOf, ForList
<1>2. Zip0(p, k)[1] \in ListHelpers /\ Zip1(p, k)[1] \in ListHelpers
  BY DEF Zip0, Zip1
<1>3. IndexOf(p, k)[1] \in IndexHelpers
  BY DEF IndexOf, ForIndex
<1>4. p[k].how = "sum" => Acc(p, k)[1] \in SumHelpers /\ Old(p, k)[1] \in SumHelpers
  BY DEF Acc, Old
<1>5. p[k].how = "list" => Acc(p, k)[1] \in ListHelpers /\ Old(p, k)[1] \in ListHelpers
  BY DEF Acc, Old
<1>6. p[k].how \in {"any", "all"} => Acc(p, k)[1] \in BoolHelpers
  BY DEF Acc
<1> QED BY <1>1, <1>2, <1>3, <1>4, <1>5, <1>6

LEMMA AccKinds ==
  ASSUME NEW p, IsBody(p), NEW g \in 1 .. Len(p), p[g].op = "gather"
  PROVE  /\ p[g].how \in {"sum", "any", "all", "list"}
         /\ Kind(Acc(p, g)) = Makes(p[g].how) /\ Acc(p, g)[1] \notin IndexHelpers
         /\ Grows(p, g) => Kind(Old(p, g)) = Makes(p[g].how) /\ Old(p, g)[1] \notin IndexHelpers
         /\ Makes(p[g].how) = IF p[g].how = "sum" THEN "int" ELSE IF p[g].how = "list" THEN "list" ELSE "bool"
<1>1. p[g].how \in {"sum", "any", "all", "list"}
  BY BodyIs DEF Typed
<1>2. Makes(p[g].how) = IF p[g].how = "sum" THEN "int" ELSE IF p[g].how = "list" THEN "list" ELSE "bool"
  BY <1>1 DEF Makes, Yields
<1>3. Kind(Acc(p, g)) = Makes(p[g].how) /\ Acc(p, g)[1] \notin IndexHelpers
  BY <1>1, <1>2, HelperKinds, Kinds
<1>4. Grows(p, g) => Kind(Old(p, g)) = Makes(p[g].how) /\ Old(p, g)[1] \notin IndexHelpers
  BY <1>1, <1>2, HelperKinds, Kinds DEF Grows
<1> QED BY <1>1, <1>2, <1>3, <1>4

(* What a token uses is known at each of its instructions. *)
LEMMA UsesKnown ==
  ASSUME NEW p, IsBody(p), NEW k \in 1 .. Len(p), NEW i
  PROVE  Uses(p[k]) \subseteq Known(p, k, i)
<1>1. Uses(p[k]) \subseteq Bound(p, k)
  BY BodyIs
<1>2. \A j : Targets(p, j) \subseteq Made(p, j)
  BY DEF Targets, Made
<1>3. Bound(p, k) \subseteq Known(p, k, i)
  BY <1>2 DEF Bound, Known, MadeAround
<1> QED BY <1>1, <1>3

LEMMA AroundKnown ==
  ASSUME NEW p, NEW k, NEW i, NEW j \in Around(p, k)
  PROVE  Made(p, j) \subseteq Known(p, k, i)
BY DEF Known, MadeAround

Sound(p, k, i) ==
  LET d == D(p, k, i)
      K == Known(p, k, i)
  IN  /\ d.op \in {"let", "load", "add", "new", "concat", "append", "if", "while", "else", "fi",
                   "next", "latch", "end", "break", "continue", "return"}
      /\ d.op = "let" =>
           /\ HasType(d.e, Kind(d.x)) /\ Reads(d.e) \subseteq K
           /\ d.x[1] \in IndexHelpers => d.e = Num(0) \/ d.e = Plus(Var(d.x), Num(1))
      /\ d.op = "load" =>
           /\ Kind(d.x) = "int" /\ d.x[1] \notin IndexHelpers
           /\ Kind(d.l) = "list" /\ d.i[1] \in IndexHelpers /\ {d.l, d.i} \subseteq K
      /\ d.op = "add" =>
           /\ Kind(d.x) = "int" /\ d.x[1] \notin IndexHelpers
           /\ Kind(d.l) = "int" /\ d.l \in K /\ HasType(d.e, "int") /\ Reads(d.e) \subseteq K
      /\ d.op = "new" => Kind(d.x) = "list"
      /\ d.op = "concat" =>
           /\ Kind(d.x) = "list" /\ Kind(d.l) = "list" /\ d.l \in K
           /\ HasType(d.e, "int") /\ Reads(d.e) \subseteq K
      /\ d.op = "append" =>
           Kind(d.l) = "list" /\ d.l \in K /\ HasType(d.e, "int") /\ Reads(d.e) \subseteq K
      /\ d.op \in {"if", "while"} => HasType(d.c, "bool") /\ Reads(d.c) \subseteq K

(* An instruction by what it is. *)
LEMMA SoundLet ==
  ASSUME NEW p, NEW k, NEW i, NEW x, NEW e, D(p, k, i) = Let(x, e),
         HasType(e, Kind(x)), Reads(e) \subseteq Known(p, k, i),
         x[1] \in IndexHelpers => e = Num(0) \/ e = Plus(Var(x), Num(1))
  PROVE  Sound(p, k, i)
<1>1. D(p, k, i).op = "let" /\ D(p, k, i).x = x /\ D(p, k, i).e = e
  BY DEF Let
<1> QED BY <1>1 DEF Sound

LEMMA SoundTest ==
  ASSUME NEW p, NEW k, NEW i, NEW c, NEW id, D(p, k, i) = If(c, id) \/ D(p, k, i) = While(c, id),
         HasType(c, "bool"), Reads(c) \subseteq Known(p, k, i)
  PROVE  Sound(p, k, i)
<1>1. D(p, k, i).op \in {"if", "while"} /\ D(p, k, i).c = c
  BY DEF If, While
<1> QED BY <1>1 DEF Sound

LEMMA SoundMark ==
  ASSUME NEW p, NEW k, NEW i,
         D(p, k, i).op \in {"else", "fi", "next", "latch", "end", "break", "continue", "return"}
  PROVE  Sound(p, k, i)
BY DEF Sound

LEMMA SoundSingle ==
  ASSUME NEW p, IsBody(p), NEW k \in 1 .. Len(p), NEW i, AtSingle(p, k, i)
  PROVE  Sound(p, k, i)
<1> DEFINE d == D(p, k, i)
           g == p[k].of
<1>1. /\ p[k].op \in {"let", "append", "if", "else", "gather", "result", "break", "continue", "return"}
      /\ d = Only(p, k)
  BY SingleOps DEF AtSingle
<1>2. Uses(p[k]) \subseteq Known(p, k, i)
  BY UsesKnown
<1>3. Typed(p, k)
  BY BodyIs
<1>4. CASE p[k].op = "let"
  <2>1. p[k].x \in DOMAIN Env0 /\ HasType(p[k].e, Kind(p[k].x)) /\ Uses(p[k]) = Reads(p[k].e)
    BY <1>3, <1>4 DEF Typed, Uses
  <2>2. p[k].x[1] \notin IndexHelpers
    BY <2>1, ProgramsAssumption, Kinds DEF Helpers
  <2>3. d = Let(p[k].x, p[k].e)
    BY <1>1, <1>4 DEF Only
  <2> QED BY <1>2, <2>1, <2>2, <2>3, SoundLet
<1>5. CASE p[k].op = "append"
  <2>1. Kind(p[k].l) = "list" /\ HasType(p[k].e, "int") /\ Uses(p[k]) = {p[k].l} \cup Reads(p[k].e)
    BY <1>3, <1>5 DEF Typed, Uses
  <2>2. d = [op |-> "append", l |-> p[k].l, e |-> p[k].e]
    BY <1>1, <1>5 DEF Only
  <2>3. d.op = "append" /\ d.l = p[k].l /\ d.e = p[k].e
    BY <2>2
  <2> HIDE DEF d
  <2> QED BY <1>2, <2>1, <2>3 DEF Sound, d
<1>6. CASE p[k].op = "if"
  <2>1. HasType(p[k].c, "bool") /\ Uses(p[k]) = Reads(p[k].c)
    BY <1>3, <1>6 DEF Typed, Uses
  <2>2. d = If(p[k].c, <<"if", k>>)
    BY <1>1, <1>6 DEF Only
  <2> QED BY <1>2, <2>1, <2>2, SoundTest
<1>7. CASE p[k].op = "else"
  <2>1. d.op = "else"
    BY <1>1, <1>7 DEF Only, Mark
  <2> QED BY <2>1, SoundMark
<1>8. CASE p[k].op \in {"break", "continue", "return"}
  <2>1. d.op = p[k].op
    BY <1>1, <1>8 DEF Only
  <2> QED BY <1>8, <2>1, SoundMark
<1>9. CASE p[k].op = "gather"
  <2>1. /\ p[k].how \in {"sum", "any", "all", "list"}
        /\ Kind(Acc(p, k)) = Makes(p[k].how) /\ Acc(p, k)[1] \notin IndexHelpers
        /\ Makes(p[k].how) = IF p[k].how = "sum" THEN "int" ELSE IF p[k].how = "list" THEN "list" ELSE "bool"
    BY <1>9, AccKinds
  <2>2. d = Start(p, k)
    BY <1>1, <1>9 DEF Only
  <2>3. CASE p[k].how = "list"
    <3>1. d.op = "new" /\ d.x = Acc(p, k)
      BY <2>2, <2>3 DEF Start
    <3> QED BY <2>1, <2>3, <3>1 DEF Sound
  <2>4. CASE p[k].how = "sum"
    <3>1. d = Let(Acc(p, k), Num(0))
      BY <2>2, <2>4 DEF Start
    <3>2. HasType(Num(0), "int") /\ Reads(Num(0)) = {}
      BY Expressions
    <3> QED BY <2>1, <2>4, <3>1, <3>2, SoundLet
  <2>5. CASE p[k].how \in {"any", "all"}
    <3>1. d = Let(Acc(p, k), Truth(p[k].how = "all"))
      BY <2>2, <2>5 DEF Start
    <3>2. \A b \in BOOLEAN : HasType(Truth(b), "bool") /\ Reads(Truth(b)) = {}
      BY Expressions
    <3>3. HasType(Truth(p[k].how = "all"), "bool") /\ Reads(Truth(p[k].how = "all")) = {}
      BY <3>2
    <3>4. Kind(Acc(p, k)) = "bool"
      BY <2>1, <2>5
    <3> QED BY <2>1, <3>1, <3>3, <3>4, SoundLet
  <2> QED BY <2>1, <2>3, <2>4, <2>5
<1>10. CASE p[k].op = "result"
  <2>1. p[k].x \in DOMAIN Env0 /\ Kind(p[k].x) = Makes(p[g].how)
    BY <1>3, <1>10 DEF Typed
  <2>2. p[k].x[1] \notin IndexHelpers
    BY <2>1, ProgramsAssumption, Kinds DEF Helpers
  <2>3. d = Let(p[k].x, Var(Acc(p, g)))
    BY <1>1, <1>10 DEF Only
  <2>4. g \in Around(p, k) /\ p[g].op = "gather"
    <3>1. Fits(p, k)
      BY BodyIs
    <3> DEFINE t == p[k]
    <3>2. t.op = "result" /\ ~ Each(t)
      BY <1>10 DEF Each
    <3>3. Belongs(p, k) /\ p[t.of].op = "gather"
      BY <3>1, <3>2 DEF Fits
    <3> QED BY <3>3 DEF Belongs, Innermost
  <2>5. g \in 1 .. Len(p)
    <3>1. k \in 1 .. Len(p) + 1
      BY BodyIs
    <3> QED BY <2>4, <3>1, AroundOf
  <2>6. Kind(Acc(p, g)) = Makes(p[g].how)
    BY <2>4, <2>5, AccKinds
  <2>7. Acc(p, g) \in Known(p, k, i)
    BY <2>4, AroundKnown DEF Made
  <2>8. HasType(Var(Acc(p, g)), Kind(p[k].x)) /\ Reads(Var(Acc(p, g))) \subseteq Known(p, k, i)
    BY <2>1, <2>6, <2>7, Expressions
  <2> QED BY <2>2, <2>3, <2>8, SoundLet
<1> QED BY <1>1, <1>4, <1>5, <1>6, <1>7, <1>8, <1>9, <1>10

(* What a for makes it may use after it has made it. *)
LEMMA HereKnown ==
  ASSUME NEW p, IsBody(p), NEW k \in 1 .. Len(p), p[k].op = "for", NEW i \in 1 .. N(p, k),
         NEW n \in 1 .. i - 1, n # W(p, k)
  PROVE  D(p, k, n).x \in Known(p, k, i)
BY DEF Known, MadeHere

LEMMA SoundHead ==
  ASSUME NEW p, IsBody(p), NEW k \in 1 .. Len(p), p[k].op = "for", NEW i \in 1 .. N(p, k)
  PROVE  Sound(p, k, i)
<1> DEFINE d == D(p, k, i)
           w == W(p, k)
           K == Known(p, k, i)
           s == ForHead(p, k)
<1>0. /\ w \in 2 .. 4 /\ H(p, k) \in 2 .. 6 /\ Enum(p, k) \in {0, 1}
      /\ p[k].how = "zip" => w = 4 /\ H(p, k) = 6 /\ DOMAIN p[k].its = {1, 2}
      /\ p[k].how # "zip" => DOMAIN p[k].its = {1}
      /\ Indexed(p, k) => H(p, k) = w + Len(p[k].its)
      /\ ~ Indexed(p, k) => H(p, k) = w /\ p[k].how # "zip"
      /\ p[k].how # "zip" => w = (IF Ranged(p, k) THEN 2 ELSE 3) + Enum(p, k)
      /\ Len(p[k].its) = IF p[k].how = "zip" THEN 2 ELSE 1
      /\ N(p, k) = H(p, k) + (IF Reloads(p, k) THEN 1 ELSE 0)
  BY WalkIs, NIs
<1>1. /\ Targets(p, k) = IF p[k].how \in {"enumerate", "zip"}
                         THEN {p[k].t[1], p[k].t[2]} ELSE {p[k].t[1]}
      /\ Over(p[k]) = IF p[k].how = "enumerate" THEN p[k].t[2] ELSE p[k].t[1]
      /\ \A x \in Targets(p, k) : x[1] \in DOMAIN Types /\ Kind(x) = "int"
      /\ IsIterable(p[k].its[1]) /\ p[k].start \in Int
      /\ p[k].how = "zip" => /\ p[k].its[1].k = "list" /\ p[k].its[2].k = "list"
                             /\ IsIterable(p[k].its[2])
  BY ForIs DEF Over
<1>2. \A x \in Targets(p, k) : Kind(x) = "int" /\ x[1] \notin IndexHelpers
  BY <1>1, Kinds DEF Helpers
<1>3. Over(p[k]) \in Targets(p, k)
  BY <1>1
<1>4. Kind(IndexOf(p, k)) = "int" /\ IndexOf(p, k)[1] \in IndexHelpers
      /\ \A n : Kind(Holder(p, k, n)) = "list" /\ Holder(p, k, n)[1] \notin IndexHelpers
  <2>1. \A n : Holder(p, k, n)[1] \in ListHelpers
    BY HelperKinds DEF Holder
  <2> QED BY <2>1, HelperKinds, Kinds
<1>5. Uses(p[k]) \subseteq K
  BY UsesKnown
<1>6. \A n \in DOMAIN p[k].its :
        IF p[k].its[n].k = "range"
        THEN NumberReads(p[k].its[n].start) \cup NumberReads(p[k].its[n].stop) \subseteq K
        ELSE p[k].its[n].x \in K
  <2>1. Uses(p[k]) = UNION {IF it.k = "range" THEN NumberReads(it.start) \cup NumberReads(it.stop)
                           ELSE {it.x} : it \in ToSet(p[k].its)}
    BY DEF Uses
  <2>2. \A n \in DOMAIN p[k].its : p[k].its[n] \in ToSet(p[k].its)
    BY DEF ToSet
  <2> QED BY <1>5, <2>1, <2>2
<1>7. \A n \in DOMAIN p[k].its : Indexed(p, k) => p[k].its[n].k = "list" /\ Kind(p[k].its[n].x) = "list"
  BY <1>0, <1>1 DEF Indexed, Ranged, IsIterable
<1>8. ~ Indexed(p, k) =>
        /\ p[k].its[1].k = "range" /\ 1 \in DOMAIN p[k].its
        /\ IsNumber(p[k].its[1].start, "int") /\ IsNumber(p[k].its[1].stop, "int")
  BY <1>0, <1>1 DEF Indexed, Ranged, IsIterable
<1>9. \A n \in 1 .. H(p, k) : D(p, k, n) = s[n]
  BY ForCodeIs DEF D
<1>f. \A x, e : Let(x, e).x = x
  BY DEF Let
(* By the while, the index, the lists and the counter are known. *)
<1>10. i >= w => IF Indexed(p, k) THEN IndexOf(p, k) \in K /\ \A n \in DOMAIN p[k].its : Holder(p, k, n) \in K
                 ELSE Over(p[k]) \in K
  <2> SUFFICES ASSUME i >= w
               PROVE  IF Indexed(p, k) THEN IndexOf(p, k) \in K /\ \A n \in DOMAIN p[k].its : Holder(p, k, n) \in K
                      ELSE Over(p[k]) \in K
    OBVIOUS
  <2>1. N(p, k) \in Nat /\ w <= H(p, k)
    BY <1>0
  <2>2. ASSUME NEW n \in 1 .. w - 1 PROVE s[n].x \in K
    <3>1. n \in 1 .. i - 1 /\ n # w /\ n \in 1 .. H(p, k)
      BY <1>0, <2>1
    <3> QED BY <1>9, <3>1, HereKnown
  <2>3. CASE p[k].how = "zip"
    <3>1. /\ s[1] = Let(Zip0(p, k), Var(p[k].its[1].x))
          /\ s[2] = Let(Zip1(p, k), Var(p[k].its[2].x))
          /\ s[3] = Let(IndexOf(p, k), Num(0))
      BY <2>3, HeadIs
    <3>2. s[1].x = Zip0(p, k) /\ s[2].x = Zip1(p, k) /\ s[3].x = IndexOf(p, k)
      <4> HIDE DEF s
      <4> QED BY <1>f, <3>1
    <3>3. 1 \in 1 .. w - 1 /\ 2 \in 1 .. w - 1 /\ 3 \in 1 .. w - 1
      BY <1>0, <2>3
    <3>4. {Zip0(p, k), Zip1(p, k), IndexOf(p, k)} \subseteq K
      <4> HIDE DEF s, K, w
      <4> QED BY <2>2, <3>2, <3>3
    <3>5. Indexed(p, k) /\ DOMAIN p[k].its = {1, 2}
      BY <1>0, <2>3 DEF Indexed
    <3> HIDE DEF K
    <3> QED BY <2>3, <3>4, <3>5 DEF Holder
  <2>4. CASE p[k].how # "zip" /\ Ranged(p, k)
    <3>1. s[Enum(p, k) + 1] = Let(Over(p[k]), p[k].its[1].start)
      BY <2>4, HeadIs
    <3>2. s[Enum(p, k) + 1].x = Over(p[k])
      <4> HIDE DEF s
      <4> QED BY <1>f, <3>1
    <3>3. Enum(p, k) + 1 \in 1 .. w - 1 /\ ~ Indexed(p, k)
      BY <1>0, <2>4 DEF Indexed
    <3> HIDE DEF s, K
    <3> QED BY <2>2, <3>2, <3>3
  <2>5. CASE p[k].how # "zip" /\ ~ Ranged(p, k)
    <3>1. /\ s[Enum(p, k) + 1] = Let(ListOf(p, k), Var(p[k].its[1].x))
          /\ s[Enum(p, k) + 2] = Let(IndexOf(p, k), Num(0))
      BY <2>5, HeadIs
    <3>2. s[Enum(p, k) + 1].x = ListOf(p, k) /\ s[Enum(p, k) + 2].x = IndexOf(p, k)
      <4> HIDE DEF s
      <4> QED BY <1>f, <3>1
    <3>3. Enum(p, k) + 1 \in 1 .. w - 1 /\ Enum(p, k) + 2 \in 1 .. w - 1 /\ Indexed(p, k)
      BY <1>0, <2>5 DEF Indexed
    <3> HIDE DEF s, K
    <3> QED BY <2>2, <2>5, <3>2, <3>3 DEF Holder
  <2> QED BY <2>3, <2>4, <2>5
<1> HIDE DEF K, s, d, w
<1>11. OfHead(p, k, i)
  BY HeadPlaces
<1>12. CASE AtWhile(p, k, i)
  <2>1. d = While(Cond(p, k), LoopId(k)) /\ i >= w
    BY <1>0, <1>12 DEF AtWhile, d, w
  <2>2. HasType(Cond(p, k), "bool") /\ Reads(Cond(p, k)) \subseteq K
    <3>1. CASE p[k].how = "zip"
      <4>1. Cond(p, k) = Both(Less(Var(IndexOf(p, k)), Len_(Zip0(p, k))), Less(Var(IndexOf(p, k)), Len_(Zip1(p, k))))
        BY <3>1 DEF Cond
      <4>2. Indexed(p, k) /\ DOMAIN p[k].its = {1, 2} /\ Holder(p, k, 1) = Zip0(p, k) /\ Holder(p, k, 2) = Zip1(p, k)
        BY <1>0, <3>1 DEF Indexed, Holder
      <4>3. {IndexOf(p, k), Zip0(p, k), Zip1(p, k)} \subseteq K
        BY <1>10, <2>1, <4>2
      <4>4. Kind(IndexOf(p, k)) = "int" /\ Kind(Zip0(p, k)) = "list" /\ Kind(Zip1(p, k)) = "list"
        BY <1>4, <4>2
      <4> DEFINE i0 == IndexOf(p, k)
                 l0 == Zip0(p, k)
                 l1 == Zip1(p, k)
      <4> HIDE DEF i0, l0, l1
      <4>5. LET c == Both(Less(Var(i0), Len_(l0)), Less(Var(i0), Len_(l1)))
            IN  HasType(c, "bool") /\ Reads(c) = {i0, l0, l1}
        BY <4>4, Conditions DEF i0, l0, l1
      <4> QED BY <4>1, <4>3, <4>5 DEF i0, l0, l1
    <3>2. CASE p[k].how # "zip" /\ Ranged(p, k)
      <4>1. Cond(p, k) = Less(Var(Over(p[k])), p[k].its[1].stop) /\ ~ Indexed(p, k)
        BY <3>2 DEF Cond, Indexed
      <4>2. Over(p[k]) \in K /\ NumberReads(p[k].its[1].stop) \subseteq K
        BY <1>6, <1>8, <1>10, <2>1, <4>1
      <4>3. Kind(Over(p[k])) = "int" /\ IsNumber(p[k].its[1].stop, "int")
        BY <1>2, <1>3, <1>8, <4>1
      <4> QED BY <4>1, <4>2, <4>3, Conditions
    <3>3. CASE p[k].how # "zip" /\ ~ Ranged(p, k)
      <4>1. Cond(p, k) = Less(Var(IndexOf(p, k)), Len_(ListOf(p, k))) /\ Indexed(p, k)
            /\ Holder(p, k, 1) = ListOf(p, k) /\ 1 \in DOMAIN p[k].its
        BY <1>0, <3>3 DEF Cond, Indexed, Holder
      <4>2. IndexOf(p, k) \in K /\ ListOf(p, k) \in K
        BY <1>10, <2>1, <4>1
      <4>3. Kind(IndexOf(p, k)) = "int" /\ Kind(ListOf(p, k)) = "list"
        BY <1>4, <4>1
      <4> QED BY <4>1, <4>2, <4>3, Conditions
    <3> QED BY <3>1, <3>2, <3>3
  <2> QED BY <2>1, <2>2, SoundTest DEF d, K
<1>13. CASE AtCount(p, k, i)
  <2>1. d = Let(p[k].t[1], Num(p[k].start)) /\ p[k].how = "enumerate"
    BY <1>13 DEF AtCount, d
  <2>2. p[k].t[1] \in Targets(p, k)
    BY <1>1, <2>1
  <2>3. Kind(p[k].t[1]) = "int" /\ p[k].t[1][1] \notin IndexHelpers
    BY <1>2, <2>2
  <2>4. HasType(Num(p[k].start), "int") /\ Reads(Num(p[k].start)) = {}
    BY <1>1, Expressions
  <2> QED BY <2>1, <2>3, <2>4, SoundLet DEF d, K
<1>14. CASE AtCounter(p, k, i)
  <2>1. d = Let(Over(p[k]), p[k].its[1].start) /\ ~ Indexed(p, k)
    BY <1>14 DEF AtCounter, d
  <2>2. Kind(Over(p[k])) = "int" /\ Over(p[k])[1] \notin IndexHelpers
    BY <1>2, <1>3
  <2>3. HasType(p[k].its[1].start, "int") /\ Reads(p[k].its[1].start) \subseteq K
    BY <1>6, <1>8, <2>1, NumberTyped
  <2> QED BY <2>1, <2>2, <2>3, SoundLet DEF d, K
<1>15. CASE AtIndex(p, k, i)
  <2>1. d = Let(IndexOf(p, k), Num(0))
    BY <1>15 DEF AtIndex, d
  <2>2. HasType(Num(0), "int") /\ Reads(Num(0)) = {}
    BY Expressions
  <2> QED BY <1>4, <2>1, <2>2, SoundLet DEF d, K
<1>16. ASSUME NEW n, AtList(p, k, i, n) PROVE Sound(p, k, i)
  <2>1. d = Let(Holder(p, k, n), Var(p[k].its[n].x)) /\ n \in DOMAIN p[k].its /\ Indexed(p, k)
    BY <1>16 DEF AtList, d
  <2>2. Kind(p[k].its[n].x) = "list" /\ p[k].its[n].x \in K
    BY <1>6, <1>7, <2>1
  <2>3. HasType(Var(p[k].its[n].x), "list") /\ Reads(Var(p[k].its[n].x)) = {p[k].its[n].x}
    BY <2>2, Expressions
  <2> QED BY <1>4, <2>1, <2>2, <2>3, SoundLet DEF d, K
<1>17. ASSUME NEW n, AtLoad(p, k, i, n) PROVE Sound(p, k, i)
  <2>1. /\ d = Load(IF p[k].how = "zip" THEN p[k].t[n] ELSE Over(p[k]), Holder(p, k, n), IndexOf(p, k))
        /\ n \in DOMAIN p[k].its /\ Indexed(p, k) /\ i = w + n
    BY <1>17 DEF AtLoad, d, w
  <2>2. (IF p[k].how = "zip" THEN p[k].t[n] ELSE Over(p[k])) \in Targets(p, k)
    BY <1>0, <1>1, <2>1
  <2>3. i >= w
    BY <1>0, <2>1
  <2>4. /\ d.op = "load" /\ d.x \in Targets(p, k) /\ d.l = Holder(p, k, n) /\ d.i = IndexOf(p, k)
    BY <2>1, <2>2 DEF Load
  <2>5. d.l \in K /\ d.i \in K
    BY <1>10, <2>1, <2>3, <2>4
  <2>6. Kind(d.x) = "int" /\ d.x[1] \notin IndexHelpers /\ Kind(d.l) = "list" /\ d.i[1] \in IndexHelpers
    BY <1>2, <1>4, <2>4
  <2> QED BY <2>4, <2>5, <2>6 DEF Sound, d, K
<1>18. CASE AtReload(p, k, i)
  <2> DEFINE g == p[k].of
  <2>1. d = Let(Old(p, g), Var(Acc(p, g))) /\ Reloads(p, k)
    BY <1>18 DEF AtReload, d
  <2>2. Each(p[k]) /\ Grows(p, g)
    BY <2>1 DEF Reloads
  <2>3. g \in Around(p, k) /\ p[g].op = "gather"
    <3>1. Fits(p, k)
      BY BodyIs
    <3> DEFINE t == p[k]
    <3>2. t.op = "for" /\ Each(t)
      BY <2>2
    <3>3. Fits(p, k) = (Belongs(p, k) /\ p[t.of].op = "gather" /\ p[k - 1].op \in {"gather", "result"})
      BY <3>2 DEF Fits
    <3> QED BY <3>1, <3>3 DEF Belongs, Innermost
  <2>4. g \in 1 .. Len(p)
    <3>1. k \in 1 .. Len(p) + 1
      BY BodyIs
    <3> QED BY <2>3, <3>1, AroundOf
  <2>5. Kind(Acc(p, g)) = Makes(p[g].how) /\ Kind(Old(p, g)) = Makes(p[g].how) /\ Old(p, g)[1] \notin IndexHelpers
    BY <2>2, <2>3, <2>4, AccKinds
  <2>6. Acc(p, g) \in K
    BY <2>3, AroundKnown DEF Made, K
  <2>7. HasType(Var(Acc(p, g)), Kind(Old(p, g))) /\ Reads(Var(Acc(p, g))) \subseteq K
    BY <2>5, <2>6, Expressions
  <2> QED BY <2>1, <2>5, <2>7, SoundLet DEF d, K
<1> QED BY <1>11, <1>12, <1>13, <1>14, <1>15, <1>16, <1>17, <1>18 DEF OfHead

(* What a generator's or a gathering's filter is, and where its element     *)
(* comes.                                                                   *)
LEMMA EachIs ==
  ASSUME NEW p, IsBody(p), NEW l \in 1 .. Len(p), Each(p[l])
  PROVE  LET g == p[l].of
         IN  /\ p[l].op = "for" /\ p[l].how = "each"
             /\ Innermost(g, Around(p, l)) /\ g \in Around(p, l)
             /\ g \in 1 .. Len(p) /\ p[g].op = "gather"
             /\ p[l - 1].op \in {"gather", "result"}
<1>1. Fits(p, l)
  BY BodyIs
<1> DEFINE t == p[l]
<1>2. t.op = "for" /\ t.how = "each" /\ Each(t)
  BY DEF Each
<1>3. Fits(p, l) = (Belongs(p, l) /\ p[t.of].op = "gather" /\ p[l - 1].op \in {"gather", "result"})
  BY <1>2 DEF Fits
<1>4. Innermost(p[l].of, Around(p, l)) /\ p[p[l].of].op = "gather" /\ p[l - 1].op \in {"gather", "result"}
  BY <1>1, <1>3 DEF Belongs
<1>5. p[l].of \in Around(p, l)
  BY <1>4 DEF Innermost
<1>6. l \in 1 .. Len(p) + 1
  BY BodyIs
<1>7. p[l].of \in 1 .. Len(p)
  BY <1>5, <1>6, AroundOf
<1> QED BY <1>2, <1>4, <1>5, <1>7

LEMMA SoundFilter ==
  ASSUME NEW p, IsBody(p), NEW k \in 1 .. Len(p), NEW i, AtFilter(p, k, i)
  PROVE  Sound(p, k, i)
<1>1. D(p, k, i) = If(p[k].c, <<"filter", p[k].of>>) /\ p[k].op = "filter"
  BY DEF AtFilter
<1>2. Typed(p, k)
  BY BodyIs
<1>3. HasType(p[k].c, "bool") /\ Uses(p[k]) = Reads(p[k].c)
  BY <1>1, <1>2 DEF Typed, Uses
<1>4. Uses(p[k]) \subseteq Known(p, k, i)
  BY UsesKnown
<1> QED BY <1>1, <1>3, <1>4, SoundTest

LEMMA SoundJoin ==
  ASSUME NEW p, NEW k, NEW i, AtJoin(p, k, i)
  PROVE  Sound(p, k, i)
<1>1. D(p, k, i).op = "fi"
  BY DEF AtJoin, Mark
<1> QED BY <1>1, SoundMark

(* The load of the old value comes with a for or with its filter.           *)
LEMMA SoundReload ==
  ASSUME NEW p, IsBody(p), NEW k \in 1 .. Len(p), NEW i, AtReload(p, k, i)
  PROVE  Sound(p, k, i)
<1> DEFINE l == IF p[k].op = "for" THEN k ELSE p[k].of
           g == p[l].of
           K == Known(p, k, i)
<1>1. D(p, k, i) = Let(Old(p, g), Var(Acc(p, g))) /\ Each(p[l]) /\ Grows(p, g)
      /\ p[k].op \in {"for", "filter"}
  BY DEF AtReload, Reloads
<1>2. l \in 1 .. Len(p) /\ Around(p, l) \subseteq Around(p, k)
  <2>1. CASE p[k].op = "for"
    BY <2>1
  <2>2. CASE p[k].op = "filter"
    BY <2>2, FilterIs
  <2> QED BY <1>1, <2>1, <2>2
<1> HIDE DEF l
<1>3. g \in Around(p, l) /\ g \in 1 .. Len(p) /\ p[g].op = "gather"
  BY <1>1, <1>2, EachIs
<1>4. g \in Around(p, k)
  BY <1>2, <1>3
<1> HIDE DEF g
<1>5. Kind(Acc(p, g)) = Makes(p[g].how) /\ Kind(Old(p, g)) = Makes(p[g].how)
      /\ Old(p, g)[1] \notin IndexHelpers
  BY <1>1, <1>3, AccKinds
<1>6. Acc(p, g) \in K
  BY <1>3, <1>4, AroundKnown DEF Made
<1>7. HasType(Var(Acc(p, g)), Kind(Old(p, g))) /\ Reads(Var(Acc(p, g))) \subseteq K
  BY <1>5, <1>6, Expressions
<1> QED BY <1>1, <1>5, <1>7, SoundLet

(* At the yield, the old value is known.                                    *)
LEMMA OldKnown ==
  ASSUME NEW p, IsBody(p), NEW k \in 1 .. Len(p), p[k].op = "yield", Grows(p, Whole(p, k))
  PROVE  Old(p, Whole(p, k)) \in Known(p, k, 1)
<1> DEFINE l == p[k].of
           g == p[l].of
<1>1. l \in 1 .. Len(p) /\ Each(p[l]) /\ k = End(p, l) /\ p[l].op = "for" /\ p[l].op \in Opens
  BY YieldIs DEF Each, Opens
<1>2. Around(p, k) = Around(p, l) \cup {l}
  BY <1>1, AfterEnd
<1>3. g = Whole(p, k) /\ Grows(p, g)
  BY DEF Whole
<1>4. CASE Filtered(p, l)
  <2>1. k \in l + 1 .. Len(p)
    BY <1>1, EndIs
  <2>2. p[l + 1].op = "filter"
    BY <1>4 DEF Filtered
  <2>3. k # l + 1
    BY <2>2
  <2>4. Filtering(p, l, k, 1)
    BY <1>1, <1>3, <1>4, <2>1, <2>3 DEF Filtering
  <2>5. l \in {j \in Around(p, k) : Filtering(p, j, k, 1)}
    BY <1>2, <2>4
  <2>6. Old(p, p[l].of) \in MadeByFilter(p, k, 1)
    BY <2>5 DEF MadeByFilter
  <2> QED BY <1>3, <2>6 DEF Known
<1>5. CASE ~ Filtered(p, l)
  <2>1. Reloads(p, l)
    BY <1>1, <1>3, <1>5 DEF Reloads
  <2>2. Old(p, p[l].of) \in Made(p, l)
    BY <1>1, <2>1 DEF Made
  <2>3. l \in Around(p, k)
    BY <1>2
  <2> HIDE DEF l
  <2>4. Made(p, l) \subseteq Known(p, k, 1)
    BY <2>3, AroundKnown
  <2> QED BY <1>3, <2>2, <2>4 DEF l
<1> QED BY <1>4, <1>5

LEMMA SoundGain ==
  ASSUME NEW p, IsBody(p), NEW k \in 1 .. Len(p), NEW i, OfGain(p, k, i)
  PROVE  Sound(p, k, i)
<1> DEFINE l == p[k].of
           g == Whole(p, k)
           K == Known(p, k, i)
           d == D(p, k, i)
<1>1. p[k].op = "yield"
  BY DEF OfGain, AtGain, AtTest, AtKnown, AtStop, AtOther, AtSettled, Deciding
<1>2. /\ l \in 1 .. Len(p) /\ Each(p[l]) /\ IsLoop(p[l]) /\ k = End(p, l) /\ p[l].op \in Opens
      /\ g \in 1 .. Len(p) /\ p[g].op = "gather" /\ Innermost(g, Around(p, l))
      /\ p[g].how \in {"sum", "any", "all", "list"}
  BY <1>1, YieldIs DEF Whole, Each, Opens
<1>3. g \in Around(p, k)
  BY <1>2, AfterEnd DEF Innermost
<1>4. HasType(p[k].e, Yields(p[g].how)) /\ Uses(p[k]) = Reads(p[k].e)
  <2>1. Typed(p, k)
    BY BodyIs
  <2> QED BY <1>1, <2>1 DEF Typed, Uses, Whole
<1>5. Reads(p[k].e) \subseteq K
  BY <1>4, UsesKnown
<1> HIDE DEF l, g
<1>6. /\ Kind(Acc(p, g)) = Makes(p[g].how) /\ Acc(p, g)[1] \notin IndexHelpers
      /\ Grows(p, g) => Kind(Old(p, g)) = Makes(p[g].how) /\ Old(p, g)[1] \notin IndexHelpers
      /\ Makes(p[g].how) = IF p[g].how = "sum" THEN "int" ELSE IF p[g].how = "list" THEN "list" ELSE "bool"
  BY <1>2, AccKinds
<1>7. CASE AtGain(p, k, i)
  <2>1. d = Gained(p, g, k) /\ Grows(p, g) /\ i = 1
    BY <1>7 DEF AtGain, g
  <2>2. d.op = (IF p[g].how = "sum" THEN "add" ELSE "concat") /\ d.x = Acc(p, g)
        /\ d.l = Old(p, g) /\ d.e = p[k].e
    BY <2>1 DEF Gained
  <2>3. Old(p, g) \in K
    BY <1>1, <2>1, OldKnown DEF g
  <2>4. Yields(p[g].how) = "int" /\ p[g].how \in {"sum", "list"}
    BY <2>1 DEF Grows, Yields
  <2>5. HasType(d.e, "int") /\ Reads(d.e) \subseteq K /\ d.l \in K
    BY <1>4, <1>5, <2>2, <2>3, <2>4
  <2>6. Kind(d.x) = Makes(p[g].how) /\ d.x[1] \notin IndexHelpers /\ Kind(d.l) = Makes(p[g].how)
    BY <1>6, <2>1, <2>2
  <2>7. CASE p[g].how = "sum"
    <3>1. d.op = "add" /\ Kind(d.x) = "int" /\ Kind(d.l) = "int"
      BY <1>6, <2>2, <2>6, <2>7
    <3> HIDE DEF d, K
    <3> QED BY <2>5, <2>6, <3>1 DEF Sound, d, K
  <2>8. CASE p[g].how = "list"
    <3>1. d.op = "concat" /\ Kind(d.x) = "list" /\ Kind(d.l) = "list"
      BY <1>6, <2>2, <2>6, <2>8
    <3> HIDE DEF d, K
    <3> QED BY <2>5, <2>6, <3>1 DEF Sound, d, K
  <2> QED BY <2>4, <2>7, <2>8
<1>8. CASE AtTest(p, k, i)
  <2>1. d = If(p[k].e, <<"test", k>>) /\ p[g].how \in {"any", "all"}
    BY <1>2, <1>8 DEF AtTest, Deciding, Grows, g
  <2>2. HasType(p[k].e, "bool")
    BY <1>4, <2>1 DEF Yields
  <2> QED BY <1>5, <2>1, <2>2, SoundTest
<1>9. CASE AtKnown(p, k, i)
  <2>1. d = Let(Acc(p, g), Truth(p[g].how = "any")) /\ p[g].how \in {"any", "all"}
    BY <1>2, <1>9 DEF AtKnown, AnyOf, Deciding, Grows, g
  <2>2. \A b \in BOOLEAN : HasType(Truth(b), "bool") /\ Reads(Truth(b)) = {}
    BY Expressions
  <2>3. HasType(Truth(p[g].how = "any"), "bool") /\ Reads(Truth(p[g].how = "any")) = {}
    BY <2>2
  <2>4. Kind(Acc(p, g)) = "bool"
    BY <1>6, <2>1
  <2> QED BY <1>6, <2>1, <2>3, <2>4, SoundLet
<1>10. CASE AtStop(p, k, i) \/ AtOther(p, k, i) \/ AtSettled(p, k, i)
  <2>1. d.op \in {"break", "else", "fi"}
    BY <1>10 DEF AtStop, AtOther, AtSettled, Stop, Mark
  <2> QED BY <2>1, SoundMark
<1> QED BY <1>7, <1>8, <1>9, <1>10 DEF OfGain

LEMMA SoundTurn ==
  ASSUME NEW p, IsBody(p), NEW k \in 1 .. Len(p), NEW i, OfTurn(p, k, i)
  PROVE  Sound(p, k, i)
<1> DEFINE l == p[k].of
           K == Known(p, k, i)
           d == D(p, k, i)
<1>1. Closing(p, k)
  BY DEF OfTurn, AtSkipped, AtKept, AtNext, AtLatch, AtBump, AtCountUp, AtEnd, Turn
<1>2. l \in 1 .. Len(p) /\ IsLoop(p[l]) /\ k = End(p, l) /\ p[l].op \in Opens
  BY <1>1, ClosingOf
<1>3. l \in Around(p, k)
  BY <1>2, AfterEnd
<1> HIDE DEF l
<1>4. Made(p, l) \subseteq K
  BY <1>3, AroundKnown
<1>5. CASE AtBump(p, k, i)
  <2>1. p[l].op = "for" /\ d = Bump(Counter(p, l), Stride(p, l))
    BY <1>5 DEF AtBump, Turn, l
  <2>2. /\ Targets(p, l) \subseteq Made(p, l)
        /\ Indexed(p, l) => IndexOf(p, l) \in Made(p, l)
    BY <2>1 DEF Made
  <2>3. /\ Over(p[l]) \in Targets(p, l) /\ IsIterable(p[l].its[1])
        /\ \A x \in Targets(p, l) : x[1] \in DOMAIN Types /\ Kind(x) = "int"
        /\ p[l].how = "zip" => p[l].its[1].k = "list"
    BY <1>2, <2>1, ForIs
  <2>4. CASE Ranged(p, l)
    <3>1. d = Let(Over(p[l]), Plus(Var(Over(p[l])), Num(p[l].its[1].step)))
      BY <2>1, <2>4 DEF Bump, Counter, Stride
    <3>2. p[l].its[1].step \in Int
      BY <2>3, <2>4 DEF IsIterable, Ranged
    <3>3. Over(p[l]) \in K /\ Kind(Over(p[l])) = "int" /\ Over(p[l])[1] \notin IndexHelpers
      BY <1>4, <2>2, <2>3, Kinds DEF Helpers
    <3>4. HasType(Plus(Var(Over(p[l])), Num(p[l].its[1].step)), "int")
          /\ Reads(Plus(Var(Over(p[l])), Num(p[l].its[1].step))) = {Over(p[l])}
      BY <3>2, <3>3, Expressions
    <3> QED BY <3>1, <3>3, <3>4, SoundLet
  <2>5. CASE ~ Ranged(p, l)
    <3>1. d = Let(IndexOf(p, l), Plus(Var(IndexOf(p, l)), Num(1)))
      BY <2>1, <2>5 DEF Bump, Counter, Stride
    <3>2. Indexed(p, l)
      BY <2>1, <2>5 DEF Indexed
    <3>3. IndexOf(p, l) \in K /\ Kind(IndexOf(p, l)) = "int"
      BY <1>4, <2>2, <3>2, HelperKinds, Kinds
    <3>4. HasType(Plus(Var(IndexOf(p, l)), Num(1)), "int")
          /\ Reads(Plus(Var(IndexOf(p, l)), Num(1))) = {IndexOf(p, l)}
      BY <3>3, Expressions
    <3> QED BY <3>1, <3>3, <3>4, SoundLet
  <2> QED BY <2>4, <2>5
<1>6. CASE AtCountUp(p, k, i)
  <2> DEFINE x == p[l].t[1]
  <2>1. p[l].op = "for" /\ p[l].how = "enumerate" /\ d = Let(x, Plus(Var(x), Num(1)))
    BY <1>6 DEF AtCountUp, Turn, Bump, l
  <2>2. x \in Targets(p, l) /\ x[1] \in DOMAIN Types /\ Kind(x) = "int"
    BY <1>2, <2>1, ForIs
  <2>3. x \in K /\ x[1] \notin IndexHelpers
    BY <1>4, <2>1, <2>2, Kinds DEF Helpers, Made
  <2> HIDE DEF x
  <2>4. HasType(Plus(Var(x), Num(1)), "int") /\ Reads(Plus(Var(x), Num(1))) = {x}
    BY <2>2, Expressions
  <2> QED BY <2>1, <2>2, <2>3, <2>4, SoundLet
<1>7. CASE AtSkipped(p, k, i) \/ AtKept(p, k, i) \/ AtNext(p, k, i) \/ AtLatch(p, k, i) \/ AtEnd(p, k, i)
  <2>1. d.op \in {"else", "fi", "next", "latch", "end"}
    BY <1>7 DEF AtSkipped, AtKept, AtNext, AtLatch, AtEnd, Turn, Mark
  <2> QED BY <2>1, SoundMark
<1> QED BY <1>5, <1>6, <1>7 DEF OfTurn

(* Every instruction of a body has its types, and reads what is known at it. *)
LEMMA SoundIs ==
  ASSUME NEW p, IsBody(p), NEW k \in 1 .. Len(p), NEW i \in 1 .. N(p, k)
  PROVE  Sound(p, k, i)
<1>1. CASE OfHead(p, k, i)
  <2>1. CASE p[k].op = "for"
    BY <2>1, SoundHead
  <2>2. CASE p[k].op = "while"
    <3>1. AtWhile(p, k, i)
      BY <1>1, <2>2 DEF OfHead, AtCount, AtCounter, AtIndex, AtReload, AtList, AtLoad, Indexed
    <3>2. D(p, k, i) = While(p[k].c, LoopId(k))
      BY <2>2, <3>1 DEF AtWhile, Cond
    <3>3. Typed(p, k)
      BY BodyIs
    <3>4. HasType(p[k].c, "bool") /\ Uses(p[k]) = Reads(p[k].c)
      BY <2>2, <3>3 DEF Typed, Uses
    <3>5. Uses(p[k]) \subseteq Known(p, k, i)
      BY UsesKnown
    <3> QED BY <3>2, <3>4, <3>5, SoundTest
  <2>3. CASE p[k].op \notin {"for", "while"}
    <3>1. AtReload(p, k, i)
      BY <1>1, <2>3 DEF OfHead, AtWhile, AtCount, AtCounter, AtIndex, AtList, AtLoad, Indexed, IsLoop
    <3> QED BY <3>1, SoundReload
  <2> QED BY <2>1, <2>2, <2>3
<1> QED BY <1>1, PlaceIs, SoundSingle, SoundFilter, SoundJoin, SoundGain, SoundTurn

(* Every name bound has a value of its type; the heap is the lists.         *)
Sorts == {"int", "bool", "list"}
Fine(e, h) ==
  h \in Seq(Seq(Int)) /\ \A x \in DOMAIN e : Kind(x) \in Sorts /\ OfType(e[x], Kind(x), h)

LEMMA AtomTyped ==
  ASSUME NEW en, NEW h, Fine(en, h), NEW e, NEW type, IsAtom(e, type), AtomReads(e) \subseteq DOMAIN en
  PROVE  type \in Sorts /\ OfType(Atom(e, en, h), type, h)
<1>1. CASE e.k = "num"
  BY <1>1 DEF IsAtom, Atom, OfType, Sorts
<1>2. CASE e.k = "truth"
  BY <1>2 DEF IsAtom, Atom, OfType, Sorts
<1>3. CASE e.k = "var"
  <2>1. Kind(e.x) = type /\ e.x \in DOMAIN en /\ Atom(e, en, h) = en[e.x]
    BY <1>3 DEF IsAtom, AtomReads, Atom
  <2> QED BY <2>1 DEF Fine
<1>4. CASE e.k = "len"
  <2>1. Kind(e.x) = "list" /\ type = "int" /\ e.x \in DOMAIN en /\ Atom(e, en, h) = Len(h[en[e.x]])
    BY <1>4 DEF IsAtom, AtomReads, Atom
  <2>2. en[e.x] \in DOMAIN h /\ h \in Seq(Seq(Int))
    BY <2>1 DEF Fine, OfType
  <2>3. h[en[e.x]] \in Seq(Int)
    BY <2>2
  <2>4. Len(h[en[e.x]]) \in Int
    BY <2>3
  <2> QED BY <2>1, <2>4 DEF OfType, Sorts
<1> QED BY <1>1, <1>2, <1>3, <1>4 DEF IsAtom

LEMMA NumberHasType ==
  ASSUME NEW en, NEW h, Fine(en, h), NEW e, NEW type, IsNumber(e, type), NumberReads(e) \subseteq DOMAIN en
  PROVE  type \in Sorts /\ OfType(Number(e, en, h), type, h)
<1>1. CASE e.k = "plus"
  <2>1. /\ IsAtom(e.a, "int") /\ IsAtom(e.b, "int") /\ type = "int"
        /\ AtomReads(e.a) \subseteq DOMAIN en /\ AtomReads(e.b) \subseteq DOMAIN en
        /\ Number(e, en, h) = Atom(e.a, en, h) + Atom(e.b, en, h)
    BY <1>1 DEF IsNumber, NumberReads, Number
  <2>2. OfType(Atom(e.a, en, h), "int", h) /\ OfType(Atom(e.b, en, h), "int", h)
    BY <2>1, AtomTyped
  <2> QED BY <2>1, <2>2 DEF OfType, Sorts
<1>2. CASE e.k # "plus"
  BY <1>2, AtomTyped DEF IsNumber, NumberReads, Number
<1> QED BY <1>1, <1>2

LEMMA ComparisonHasType ==
  ASSUME NEW en, NEW h, Fine(en, h), NEW e, IsComparison(e), CompReads(e) \subseteq DOMAIN en
  PROVE  Comparison(e, en, h) \in BOOLEAN
<1> DEFINE a == Number(e.a, en, h)
           b == Number(e.b, en, h)
<1>1. /\ e.k \in Comparisons /\ IsNumber(e.a, "int") /\ IsNumber(e.b, "int")
      /\ NumberReads(e.a) \subseteq DOMAIN en /\ NumberReads(e.b) \subseteq DOMAIN en
  BY DEF IsComparison, CompReads
<1>2. OfType(a, "int", h) /\ OfType(b, "int", h)
  BY <1>1, NumberHasType
<1>3. a \in Int /\ b \in Int
  BY <1>2 DEF OfType
<1>4. CASE e.k = "less"
  <2>1. Comparison(e, en, h) <=> a < b
    BY <1>4 DEF Comparison
  <2> HIDE DEF a, b
  <2>2. (a < b) \in BOOLEAN
    BY <1>3
  <2>3. Comparison(e, en, h) = (a < b)
    BY <1>4 DEF Comparison, a, b
  <2> QED BY <2>2, <2>3
<1>5. CASE e.k = "equal"
  <2>1. Comparison(e, en, h) = (a = b)
    BY <1>5 DEF Comparison
  <2> QED BY <2>1
<1>6. CASE e.k = "differ"
  <2>1. Comparison(e, en, h) = (a # b)
    BY <1>6 DEF Comparison
  <2> QED BY <2>1
<1> QED BY <1>1, <1>4, <1>5, <1>6 DEF Comparisons

(* What an expression of a type comes to has the type.                      *)
LEMMA EvalTyped ==
  ASSUME NEW en, NEW h, Fine(en, h), NEW e, NEW type, HasType(e, type), Reads(e) \subseteq DOMAIN en
  PROVE  type \in Sorts /\ OfType(Eval(e, en, h), type, h)
<1>1. CASE e.k = "both"
  <2>1. type = "bool" /\ IsComparison(e.a) /\ IsComparison(e.b)
        /\ CompReads(e.a) \subseteq DOMAIN en /\ CompReads(e.b) \subseteq DOMAIN en
    BY <1>1 DEF HasType, Reads, Comparisons
  <2>2. Eval(e, en, h) = (Comparison(e.a, en, h) /\ Comparison(e.b, en, h))
    BY <1>1 DEF Eval, Comparisons
  <2>3. Eval(e, en, h) \in BOOLEAN
    BY <2>2
  <2> QED BY <2>1, <2>3 DEF OfType, Sorts
<1>2. CASE e.k \in Comparisons
  <2>1. e.k # "both" /\ type = "bool" /\ IsComparison(e) /\ CompReads(e) \subseteq DOMAIN en
    BY <1>2 DEF HasType, Reads, Comparisons
  <2>2. Eval(e, en, h) = Comparison(e, en, h)
    BY <1>2, <2>1 DEF Eval
  <2>3. Comparison(e, en, h) \in BOOLEAN
    BY <2>1, ComparisonHasType
  <2> QED BY <2>1, <2>2, <2>3 DEF OfType, Sorts
<1>3. CASE e.k # "both" /\ e.k \notin Comparisons
  <2>1. IsNumber(e, type) /\ Reads(e) = NumberReads(e) /\ Eval(e, en, h) = Number(e, en, h)
    BY <1>3 DEF HasType, Reads, Eval
  <2> QED BY <2>1, NumberHasType
<1> QED BY <1>1, <1>2, <1>3

(* A name that is stored to.                                                *)
LEMMA WithIs ==
  ASSUME NEW f, NEW x, NEW v
  PROVE  /\ DOMAIN With(f, x, v) = DOMAIN f \cup {x}
         /\ With(f, x, v)[x] = v
         /\ \A y \in DOMAIN f : y # x => With(f, x, v)[y] = f[y]
BY DEF With

LEMMA FineStore ==
  ASSUME NEW en, NEW h, Fine(en, h), NEW x, NEW v, Kind(x) \in Sorts, OfType(v, Kind(x), h)
  PROVE  Fine(With(en, x, v), h)
<1> DEFINE w == With(en, x, v)
<1>1. ASSUME NEW y \in DOMAIN w PROVE Kind(y) \in Sorts /\ OfType(w[y], Kind(y), h)
  <2>1. CASE y = x
    <3>1. w[y] = v
      BY <2>1 DEF With
    <3> HIDE DEF w
    <3> QED BY <2>1, <3>1
  <2>2. CASE y # x
    <3>1. y \in DOMAIN en
      BY <1>1, <2>2 DEF With
    <3>2. w[y] = en[y]
      BY <2>2, <3>1 DEF With
    <3> HIDE DEF w
    <3> QED BY <3>1, <3>2 DEF Fine
  <2> QED BY <2>1, <2>2
<1> HIDE DEF w
<1>2. Fine(w, h)
  BY <1>1 DEF Fine
<1> QED BY <1>2 DEF w

LEMMA FineHeap ==
  ASSUME NEW en, NEW h, Fine(en, h), NEW hh \in Seq(Seq(Int)), DOMAIN h \subseteq DOMAIN hh
  PROVE  Fine(en, hh)
<1>1. ASSUME NEW x \in DOMAIN en PROVE Kind(x) \in Sorts /\ OfType(en[x], Kind(x), hh)
  <2>1. Kind(x) \in Sorts /\ OfType(en[x], Kind(x), h)
    BY DEF Fine
  <2>2. CASE Kind(x) = "int"
    BY <2>1, <2>2 DEF OfType
  <2>3. CASE Kind(x) = "bool"
    BY <2>1, <2>3 DEF OfType
  <2>4. CASE Kind(x) = "list"
    BY <2>1, <2>4 DEF OfType
  <2> QED BY <2>1, <2>2, <2>3, <2>4 DEF Sorts
<1> QED BY <1>1 DEF Fine

(* Where a function can be.                                                 *)
InText(p, at) ==
  \/ at = <<Len(p) + 1, 1>>
  \/ at = <<at[1], at[2]>> /\ at[1] \in 1 .. Len(p) /\ at[2] \in 1 .. N(p, at[1])

(* Between the test of a loop over lists and its loads, the index is in the *)
(* lists that are still to be read.                                         *)
Looking(p, at, en, h) ==
  LET k == at[1]
  IN  k \in 1 .. Len(p) /\ Indexed(p, k) /\ at[2] > W(p, k) =>
        \A n \in DOMAIN p[k].its :
          W(p, k) + n >= at[2] => en[IndexOf(p, k)] < Len(h[en[Holder(p, k, n)]])

Counts(en) == \A x \in DOMAIN en : x[1] \in IndexHelpers => en[x] \in Nat

HasKnown(p, at, en) == at[1] \in 1 .. Len(p) => Known(p, at[1], at[2]) \subseteq DOMAIN en

(* The inductive invariant.                                                 *)
LoopInv ==
  /\ prog \in Programs /\ code = Compiled(prog)
  /\ InText(prog, pc)
  /\ Fine(env, heap)
  /\ Counts(env)
  /\ HasKnown(prog, pc, env)
  /\ Looking(prog, pc, env, heap)

LEMMA InitInv == Init => LoopInv
<1> SUFFICES ASSUME Init PROVE LoopInv
  OBVIOUS
<1>1. prog \in Programs /\ code = Compiled(prog) /\ pc = <<1, 1>> /\ env = Env0 /\ heap = Heap0
  BY DEF Init
<1>2. IsBody(prog)
  BY <1>1, ProgramsAssumption
<1>3. Len(prog) \in Nat
  BY <1>2, BodyIs
<1>4. InText(prog, pc)
  <2>1. CASE Len(prog) = 0
    BY <1>1, <2>1 DEF InText
  <2>2. CASE Len(prog) # 0
    <3>1. 1 \in 1 .. Len(prog)
      BY <1>3, <2>2
    <3>2. N(prog, 1) \in Nat /\ N(prog, 1) >= 1
      BY <1>2, <3>1, NIs
    <3>3. 1 \in 1 .. N(prog, 1)
      BY <3>2
    <3>4. pc[1] = 1 /\ pc[2] = 1 /\ pc = <<pc[1], pc[2]>>
      BY <1>1
    <3> QED BY <3>1, <3>3, <3>4 DEF InText
  <2> QED BY <2>1, <2>2
<1>5. \A x \in DOMAIN Env0 : Kind(x) \in Sorts /\ x[1] \notin IndexHelpers
  BY ProgramsAssumption, Kinds DEF Helpers, Sorts
<1>6. Fine(env, heap) /\ Counts(env)
  BY <1>1, <1>5, ProgramsAssumption DEF Fine, Counts
<1>7. HasKnown(prog, pc, env)
  <2> SUFFICES ASSUME 1 \in 1 .. Len(prog) PROVE Known(prog, 1, 1) \subseteq DOMAIN Env0
    BY <1>1 DEF HasKnown
  <2>1. Around(prog, 1) = {}
    BY <1>2, AroundIs
  <2>2. MadeAround(prog, 1) = {} /\ MadeByFilter(prog, 1, 1) = {}
    BY <2>1 DEF MadeAround, MadeByFilter
  <2>3. MadeHere(prog, 1, 1) = {}
    BY DEF MadeHere
  <2> QED BY <2>2, <2>3 DEF Known
<1>8. Looking(prog, pc, env, heap)
  <2> SUFFICES ASSUME 1 \in 1 .. Len(prog), Indexed(prog, 1), 1 > W(prog, 1) PROVE FALSE
    BY <1>1 DEF Looking
  <2>1. prog[1].op = "for"
    BY DEF Indexed
  <2>2. W(prog, 1) \in 2 .. 4
    BY <1>2, <2>1, WalkIs
  <2> QED BY <2>2
<1> QED BY <1>1, <1>4, <1>6, <1>7, <1>8 DEF LoopInv

(* The instruction the function is at.                                      *)
LEMMA NowIs ==
  ASSUME LoopInv, ~ Done
  PROVE  LET k == pc[1]
             i == pc[2]
         IN  /\ IsBody(prog) /\ pc = <<k, i>> /\ k \in 1 .. Len(prog) /\ i \in 1 .. N(prog, k)
             /\ Now = D(prog, k, i) /\ Sound(prog, k, i)
             /\ Known(prog, k, i) \subseteq DOMAIN env
             /\ Len(code) = Len(prog)
<1>1. IsBody(prog) /\ code = Compiled(prog) /\ InText(prog, pc) /\ HasKnown(prog, pc, env)
  BY ProgramsAssumption DEF LoopInv
<1>2. Len(code) = Len(prog) /\ Len(prog) \in Nat
  BY <1>1, CodeIs, BodyIs
<1>3. ~ pc[1] > Len(prog)
  BY <1>2 DEF Done
<1>4. pc # <<Len(prog) + 1, 1>>
  BY <1>2, <1>3
<1>5. pc = <<pc[1], pc[2]>> /\ pc[1] \in 1 .. Len(prog) /\ pc[2] \in 1 .. N(prog, pc[1])
  BY <1>1, <1>4 DEF InText
<1> DEFINE k == pc[1]
           i == pc[2]
<1> HIDE DEF k, i
<1>6. k \in 1 .. Len(prog) /\ i \in 1 .. N(prog, k) /\ pc = <<k, i>>
  BY <1>5 DEF k, i
<1>7. Do(Compiled(prog), <<k, i>>) = D(prog, k, i) /\ Sound(prog, k, i)
  BY <1>1, <1>6, PlacesIs, SoundIs
<1>8. Now = D(prog, k, i)
  BY <1>1, <1>6, <1>7 DEF Now
<1>9. Known(prog, k, i) \subseteq DOMAIN env
  BY <1>1, <1>5 DEF HasKnown, k, i
<1> QED BY <1>1, <1>2, <1>5, <1>7, <1>8, <1>9 DEF k, i

LEMMA InvTypes == LoopInv => TypeOK
<1> SUFFICES ASSUME LoopInv PROVE TypeOK
  OBVIOUS
<1>1. IsBody(prog) /\ code = Compiled(prog) /\ InText(prog, pc) /\ Fine(env, heap)
  BY ProgramsAssumption DEF LoopInv
<1>2. Len(code) = Len(prog)
  BY <1>1, CodeIs
<1>3. pc = <<Len(code) + 1, 1>> \/ pc \in Places(code)
  <2>1. CASE pc = <<Len(prog) + 1, 1>>
    BY <1>2, <2>1
  <2>2. CASE pc = <<pc[1], pc[2]>> /\ pc[1] \in 1 .. Len(prog) /\ pc[2] \in 1 .. N(prog, pc[1])
    <3> DEFINE k == pc[1]
               i == pc[2]
    <3> HIDE DEF k, i
    <3>1. k \in 1 .. Len(prog) /\ i \in 1 .. N(prog, k) /\ pc = <<k, i>>
      BY <2>2 DEF k, i
    <3>2. <<k, i>> \in Places(Compiled(prog))
      BY <1>1, <3>1, PlacesIs
    <3> QED BY <1>1, <3>1, <3>2
  <2> QED BY <1>1, <2>1, <2>2 DEF InText
<1> QED BY <1>1, <1>3 DEF TypeOK, Fine

LEMMA InvBounds == LoopInv => IndexInBounds
<1> SUFFICES ASSUME LoopInv, At_({"load"})
             PROVE  env[Now.i] \in 0 .. Len(heap[env[Now.l]]) - 1
  BY DEF IndexInBounds
<1> DEFINE k == pc[1]
           i == pc[2]
           d == D(prog, k, i)
<1>1. ~ Done /\ Now.op = "load"
  BY DEF At_
<1>2. /\ IsBody(prog) /\ k \in 1 .. Len(prog) /\ i \in 1 .. N(prog, k)
      /\ Now = d /\ Sound(prog, k, i) /\ Known(prog, k, i) \subseteq DOMAIN env
  BY <1>1, NowIs
<1>3. Looking(prog, pc, env, heap) /\ Fine(env, heap) /\ Counts(env)
  BY DEF LoopInv
<1> HIDE DEF k, i
<1>4. PICK n \in {1, 2} : AtLoad(prog, k, i, n)
  <2>1. Tells(prog, k, i)
    BY <1>2, TellsIs
  <2> QED BY <1>1, <1>2, <2>1 DEF Tells
<1>5. /\ Indexed(prog, k) /\ n \in DOMAIN prog[k].its /\ i = W(prog, k) + n
      /\ d.i = IndexOf(prog, k) /\ d.l = Holder(prog, k, n)
  BY <1>4 DEF AtLoad, Load
<1>6. W(prog, k) \in 2 .. 4
  BY <1>2, <1>5, WalkIs DEF Indexed
<1>7. i > W(prog, k) /\ W(prog, k) + n >= i
  BY <1>5, <1>6
<1>8. env[d.i] < Len(heap[env[d.l]])
  BY <1>2, <1>3, <1>5, <1>7 DEF Looking, k, i
<1>9. d.i \in DOMAIN env /\ d.l \in DOMAIN env /\ Kind(d.l) = "list" /\ d.i[1] \in IndexHelpers
  BY <1>1, <1>2 DEF Sound
<1>10. env[d.i] \in Nat
  BY <1>3, <1>9 DEF Counts
<1>11. env[d.l] \in DOMAIN heap /\ heap \in Seq(Seq(Int))
  BY <1>3, <1>9 DEF Fine, OfType
<1>12. heap[env[d.l]] \in Seq(Int)
  BY <1>11
<1>13. Len(heap[env[d.l]]) \in Nat
  BY <1>12
<1> HIDE DEF d
<1> QED BY <1>2, <1>8, <1>10, <1>13

(* What a step does to the function's place, its names and its lists.       *)
Updated ==
  LET d == D(prog, pc[1], pc[2])
  IN  /\ prog' = prog /\ code' = code
      /\ Fine(env', heap') /\ Counts(env')
      /\ DOMAIN env \cup Stored(d) \subseteq DOMAIN env'

Straight == pc' = After(code, pc)

LEMMA StoreUpdates == ASSUME LoopInv, Store PROVE Updated /\ Straight /\ heap' = heap
<1> DEFINE k == pc[1]
           i == pc[2]
           d == D(prog, k, i)
<1>1. ~ Done /\ Now.op \in {"let", "load", "add"}
  BY DEF Store, At_
<1>2. Now = d /\ Sound(prog, k, i) /\ Known(prog, k, i) \subseteq DOMAIN env /\ d.op \in {"let", "load", "add"}
  BY <1>1, NowIs
<1>3. Fine(env, heap) /\ Counts(env) /\ IndexInBounds
  BY InvBounds DEF LoopInv
<1> DEFINE v == CASE d.op = "let"  -> Eval(d.e, env, heap)
                  [] d.op = "load" -> heap[env[d.l]][env[d.i] + 1]
                  [] d.op = "add"  -> env[d.l] + Eval(d.e, env, heap)
<1>4. env' = With(env, d.x, v) /\ heap' = heap /\ prog' = prog /\ code' = code /\ Straight
  <2> HIDE DEF d
  <2> QED BY <1>1, <1>2 DEF Store, fixed, Value, Straight
<1>5. Kind(d.x) \in Sorts /\ OfType(v, Kind(d.x), heap) /\ (d.x[1] \in IndexHelpers => v \in Nat)
  <2>1. CASE d.op = "let"
    <3>1. /\ HasType(d.e, Kind(d.x)) /\ Reads(d.e) \subseteq DOMAIN env
          /\ d.x[1] \in IndexHelpers => d.e = Num(0) \/ d.e = Plus(Var(d.x), Num(1))
      BY <1>2, <2>1 DEF Sound
    <3>2. v = Eval(d.e, env, heap)
      BY <2>1
    <3> HIDE DEF d, v
    <3>3. Kind(d.x) \in Sorts /\ OfType(v, Kind(d.x), heap)
      BY <1>3, <3>1, <3>2, EvalTyped
    <3>4. CASE d.x[1] \in IndexHelpers /\ d.e = Num(0)
      <4>1. v = 0
        BY <3>2, <3>4 DEF Num, Eval, Number, Atom, Comparisons
      <4> QED BY <3>3, <4>1
    <3>5. CASE d.x[1] \in IndexHelpers /\ d.e = Plus(Var(d.x), Num(1))
      <4>1. v = env[d.x] + 1
        BY <3>2, <3>5 DEF Num, Plus, Var, Eval, Number, Atom, Comparisons
      <4>2. Reads(d.e) = {d.x}
        BY <3>5, Expressions
      <4>3. env[d.x] \in Nat
        BY <1>3, <3>1, <3>5, <4>2 DEF Counts
      <4> QED BY <3>3, <4>1, <4>3
    <3> QED BY <3>1, <3>3, <3>4, <3>5
  <2>2. CASE d.op = "load"
    <3>1. /\ Kind(d.x) = "int" /\ d.x[1] \notin IndexHelpers /\ Kind(d.l) = "list"
          /\ d.i[1] \in IndexHelpers /\ d.l \in DOMAIN env /\ d.i \in DOMAIN env
      BY <1>2, <2>2 DEF Sound
    <3>2. v = heap[env[d.l]][env[d.i] + 1]
      BY <2>2
    <3>3. env[d.i] \in 0 .. Len(heap[env[d.l]]) - 1
      BY <1>1, <1>2, <1>3, <2>2 DEF IndexInBounds, At_
    <3> HIDE DEF d, v
    <3>4. env[d.l] \in DOMAIN heap /\ heap \in Seq(Seq(Int))
      BY <1>3, <3>1 DEF Fine, OfType
    <3>5. heap[env[d.l]] \in Seq(Int)
      BY <3>4
    <3>6. v \in Int
      BY <3>2, <3>3, <3>5
    <3> QED BY <3>1, <3>6 DEF OfType, Sorts
  <2>3. CASE d.op = "add"
    <3>1. /\ Kind(d.x) = "int" /\ d.x[1] \notin IndexHelpers /\ Kind(d.l) = "int" /\ d.l \in DOMAIN env
          /\ HasType(d.e, "int") /\ Reads(d.e) \subseteq DOMAIN env
      BY <1>2, <2>3 DEF Sound
    <3>2. v = env[d.l] + Eval(d.e, env, heap)
      BY <2>3
    <3> HIDE DEF d, v
    <3>3. OfType(Eval(d.e, env, heap), "int", heap)
      BY <1>3, <3>1, EvalTyped
    <3>4. env[d.l] \in Int
      BY <1>3, <3>1 DEF Fine, OfType
    <3> QED BY <3>1, <3>2, <3>3, <3>4 DEF OfType, Sorts
  <2> QED BY <1>2, <2>1, <2>2, <2>3
<1>6. Stored(d) = {d.x}
  BY <1>2 DEF Stored
<1>7. D(prog, pc[1], pc[2]) = d
  OBVIOUS
<1> HIDE DEF d, v
<1>8. Fine(env', heap')
  BY <1>3, <1>4, <1>5, FineStore
<1>9. DOMAIN env' = DOMAIN env \cup {d.x}
  BY <1>4 DEF With
<1>10. Counts(env')
  <2> SUFFICES ASSUME NEW x \in DOMAIN env', x[1] \in IndexHelpers PROVE env'[x] \in Nat
    BY DEF Counts
  <2>1. CASE x = d.x
    <3>1. env'[x] = v
      BY <1>4, <2>1 DEF With
    <3> QED BY <1>5, <2>1, <3>1
  <2>2. CASE x # d.x
    <3>1. x \in DOMAIN env /\ env'[x] = env[x]
      BY <1>4, <1>9, <2>2 DEF With
    <3> QED BY <1>3, <3>1 DEF Counts
  <2> QED BY <2>1, <2>2
<1> QED BY <1>4, <1>6, <1>7, <1>8, <1>9, <1>10 DEF Updated

LEMMA MakeUpdates == ASSUME LoopInv, Make PROVE Updated /\ Straight
<1> DEFINE k == pc[1]
           i == pc[2]
           d == D(prog, k, i)
<1>1. ~ Done /\ Now.op \in {"new", "concat"}
  BY DEF Make, At_
<1>2. Now = d /\ Sound(prog, k, i) /\ Known(prog, k, i) \subseteq DOMAIN env /\ d.op \in {"new", "concat"}
  BY <1>1, NowIs
<1>3. Fine(env, heap) /\ Counts(env)
  BY DEF LoopInv
<1> DEFINE s == IF d.op = "new" THEN <<>> ELSE Append(heap[env[d.l]], Eval(d.e, env, heap))
           v == Len(heap) + 1
<1>4. env' = With(env, d.x, v) /\ heap' = Append(heap, s) /\ prog' = prog /\ code' = code /\ Straight
  <2> HIDE DEF d
  <2> QED BY <1>1, <1>2 DEF Make, fixed, Value, Straight
<1>5. Kind(d.x) = "list"
  BY <1>2 DEF Sound
<1>6. heap \in Seq(Seq(Int))
  BY <1>3 DEF Fine
<1>7. s \in Seq(Int)
  <2>1. CASE d.op = "new"
    BY <2>1
  <2>2. CASE d.op = "concat"
    <3>1. /\ Kind(d.l) = "list" /\ d.l \in DOMAIN env /\ HasType(d.e, "int") /\ Reads(d.e) \subseteq DOMAIN env
      BY <1>2, <2>2 DEF Sound
    <3>2. s = Append(heap[env[d.l]], Eval(d.e, env, heap))
      BY <2>2
    <3> HIDE DEF d, s
    <3>3. OfType(Eval(d.e, env, heap), "int", heap)
      BY <1>3, <3>1, EvalTyped
    <3>4. env[d.l] \in DOMAIN heap
      BY <1>3, <3>1 DEF Fine, OfType
    <3>5. heap[env[d.l]] \in Seq(Int) /\ Eval(d.e, env, heap) \in Int
      BY <1>6, <3>3, <3>4 DEF OfType
    <3> QED BY <3>2, <3>5
  <2> QED BY <1>2, <2>1, <2>2
<1>8. Stored(d) = {d.x}
  BY <1>2 DEF Stored
<1>9. D(prog, pc[1], pc[2]) = d
  OBVIOUS
<1>10. d.x[1] \notin IndexHelpers
  BY <1>5, Kinds
<1> HIDE DEF d, s
<1>11. heap' \in Seq(Seq(Int)) /\ DOMAIN heap \subseteq DOMAIN heap' /\ v \in DOMAIN heap'
  BY <1>4, <1>6, <1>7
<1>12. Fine(env, heap')
  BY <1>3, <1>11, FineHeap
<1>13. OfType(v, Kind(d.x), heap') /\ Kind(d.x) \in Sorts
  BY <1>5, <1>11 DEF OfType, Sorts
<1> HIDE DEF v
<1>14. Fine(env', heap')
  BY <1>4, <1>12, <1>13, FineStore
<1>15. DOMAIN env' = DOMAIN env \cup {d.x}
  BY <1>4 DEF With
<1>16. Counts(env')
  <2> SUFFICES ASSUME NEW x \in DOMAIN env', x[1] \in IndexHelpers PROVE env'[x] \in Nat
    BY DEF Counts
  <2>1. x # d.x
    BY <1>10
  <2>2. x \in DOMAIN env /\ env'[x] = env[x]
    BY <1>4, <1>15, <2>1 DEF With
  <2> QED BY <1>3, <2>2 DEF Counts
<1> QED BY <1>4, <1>8, <1>9, <1>14, <1>15, <1>16 DEF Updated

LEMMA PushUpdates == ASSUME LoopInv, Push PROVE Updated /\ Straight
<1> DEFINE k == pc[1]
           i == pc[2]
           d == D(prog, k, i)
<1>1. ~ Done /\ Now.op = "append"
  BY DEF Push, At_
<1>2. Now = d /\ Sound(prog, k, i) /\ Known(prog, k, i) \subseteq DOMAIN env /\ d.op = "append"
  BY <1>1, NowIs
<1>3. Fine(env, heap) /\ Counts(env)
  BY DEF LoopInv
<1> DEFINE r == env[d.l]
           v == Eval(d.e, env, heap)
<1>4. heap' = [heap EXCEPT ![r] = Append(@, v)] /\ env' = env /\ prog' = prog /\ code' = code /\ Straight
  <2> HIDE DEF d
  <2> QED BY <1>1, <1>2 DEF Push, fixed, Value, Straight
<1>5. Kind(d.l) = "list" /\ d.l \in DOMAIN env /\ HasType(d.e, "int") /\ Reads(d.e) \subseteq DOMAIN env
  BY <1>2 DEF Sound
<1>6. Stored(d) = {}
  BY <1>2 DEF Stored
<1>7. D(prog, pc[1], pc[2]) = d
  OBVIOUS
<1> HIDE DEF d
<1>8. heap \in Seq(Seq(Int)) /\ r \in DOMAIN heap
  BY <1>3, <1>5 DEF Fine, OfType
<1>9. OfType(v, "int", heap)
  BY <1>3, <1>5, EvalTyped
<1>10. v \in Int
  BY <1>9 DEF OfType
<1> HIDE DEF r, v
<1>11. heap[r] \in Seq(Int)
  BY <1>8
<1>12. Append(heap[r], v) \in Seq(Int)
  BY <1>10, <1>11
<1>13. heap' \in Seq(Seq(Int)) /\ DOMAIN heap' = DOMAIN heap
  BY <1>4, <1>8, <1>12
<1>14. Fine(env, heap')
  BY <1>3, <1>13, FineHeap
<1> QED BY <1>3, <1>4, <1>6, <1>7, <1>14 DEF Updated

(* The other steps change the place alone.                                  *)
Stays == env' = env /\ heap' = heap /\ prog' = prog /\ code' = code

LEMMA StaysUpdated ==
  ASSUME LoopInv, Stays, ~ Done, Now.op \notin {"let", "load", "add", "new", "concat"}
  PROVE  Updated
<1>1. Now = D(prog, pc[1], pc[2])
  BY NowIs
<1>2. Stored(D(prog, pc[1], pc[2])) = {}
  BY <1>1 DEF Stored
<1> QED BY <1>2 DEF Updated, Stays, LoopInv

(* Where a step goes.                                                       *)
LEMMA NextFlows ==
  ASSUME LoopInv, Next
  PROVE  /\ ~ Done /\ Updated
         /\ pc' = <<Len(prog) + 1, 1>> \/ Flows(prog, pc[1], pc[2], pc')
<1> DEFINE k == pc[1]
           i == pc[2]
           d == D(prog, k, i)
<1>1. ~ Done
  BY DEF Next, Store, Make, Push, Goto, Fall, Test, Leave, At_
<1>2. /\ IsBody(prog) /\ pc = <<k, i>> /\ k \in 1 .. Len(prog) /\ i \in 1 .. N(prog, k)
      /\ Now = d /\ Len(code) = Len(prog) /\ code = Compiled(prog)
  BY <1>1, NowIs DEF LoopInv
<1>3. Straight => Flows(prog, k, i, pc')
  <2> HIDE DEF k, i
  <2>1. After(Compiled(prog), <<k, i>>) = IF i < N(prog, k) THEN <<k, i + 1>> ELSE <<k + 1, 1>>
    BY <1>2, AfterIs
  <2> QED BY <1>2, <2>1 DEF Straight, Flows
<1>4. d.op \in Branches /\ pc' = Branch(code, pc) => Flows(prog, k, i, pc')
  <2> HIDE DEF k, i
  <2>1. d.op \in Branches => Branch(Compiled(prog), <<k, i>>) = Dest(prog, k, i)
    BY <1>2, BranchIs
  <2> QED BY <1>2, <2>1 DEF Flows
<1>5. CASE Store
  BY <1>1, <1>3, <1>5, StoreUpdates
<1>6. CASE Make
  BY <1>1, <1>3, <1>6, MakeUpdates
<1>7. CASE Push
  BY <1>1, <1>3, <1>7, PushUpdates
<1>8. CASE Goto
  <2>1. Stays /\ Now.op \in {"else", "next", "end", "break", "continue"} /\ pc' = Target
    BY <1>8 DEF Goto, Stays, fixed, At_
  <2>2. Updated
    BY <1>1, <2>1, StaysUpdated
  <2>3. d.op \in Branches /\ Now = Do(code, pc) /\ Now = d
    BY <1>2, <2>1 DEF Branches, Now
  <2> HIDE DEF d
  <2>4. Target = Branch(code, pc)
    BY <2>1, <2>3 DEF Target, Branch
  <2> QED BY <1>1, <1>4, <2>1, <2>2, <2>3, <2>4 DEF d
<1>9. CASE Fall
  <2>1. Stays /\ Now.op \in {"fi", "latch"} /\ Straight
    BY <1>9 DEF Fall, Stays, fixed, At_, Straight
  <2>2. Updated
    BY <1>1, <2>1, StaysUpdated
  <2> QED BY <1>1, <1>3, <2>1, <2>2
<1>10. CASE Test
  <2>1. Stays /\ Now.op \in {"if", "while"}
        /\ pc' = IF Value(Now.c) THEN After(code, pc)
                 ELSE After(code, Position(code, IF Now.op = "if" THEN "else" ELSE "end", Now.id))
    BY <1>10 DEF Test, Stays, fixed, At_
  <2>2. Updated
    BY <1>1, <2>1, StaysUpdated
  <2>3. d.op \in Branches /\ Now = Do(code, pc) /\ Now = d
    BY <1>2, <2>1 DEF Branches, Now
  <2> HIDE DEF d
  <2>4. CASE Value(Now.c)
    BY <1>1, <1>3, <2>1, <2>2, <2>4 DEF Straight
  <2>5. CASE ~ Value(Now.c)
    <3>1. pc' = Branch(code, pc)
      BY <2>1, <2>3, <2>5 DEF Branch
    <3> QED BY <1>1, <1>4, <2>2, <2>3, <3>1 DEF d
  <2> QED BY <2>4, <2>5
<1>11. CASE Leave
  <2>1. Stays /\ Now.op = "return" /\ pc' = <<Len(code) + 1, 1>>
    BY <1>11 DEF Leave, Stays, fixed, At_
  <2>2. Updated
    BY <1>1, <2>1, StaysUpdated
  <2> QED BY <1>1, <1>2, <2>1, <2>2
<1> QED BY <1>5, <1>6, <1>7, <1>8, <1>9, <1>10, <1>11 DEF Next

(* The test of a loop over lists finds the index in all of them.            *)
LEMMA CondBounds ==
  ASSUME NEW p, IsBody(p), NEW k \in 1 .. Len(p), Indexed(p, k), NEW en, NEW h,
         Eval(Cond(p, k), en, h)
  PROVE  \A n \in DOMAIN p[k].its : en[IndexOf(p, k)] < Len(h[en[Holder(p, k, n)]])
<1>0. p[k].op = "for"
  BY DEF Indexed
<1>1. CASE p[k].how = "zip"
  <2>1. Cond(p, k) = Both(Less(Var(IndexOf(p, k)), Len_(Zip0(p, k))), Less(Var(IndexOf(p, k)), Len_(Zip1(p, k))))
    BY <1>0, <1>1 DEF Cond
  <2>2. DOMAIN p[k].its = {1, 2} /\ Holder(p, k, 1) = Zip0(p, k) /\ Holder(p, k, 2) = Zip1(p, k)
    BY <1>0, <1>1, WalkIs DEF Holder
  <2> DEFINE i == IndexOf(p, k)
             a == Zip0(p, k)
             b == Zip1(p, k)
  <2> HIDE DEF i, a, b
  <2>3. Eval(Both(Less(Var(i), Len_(a)), Less(Var(i), Len_(b))), en, h)
        <=> (en[i] < Len(h[en[a]]) /\ en[i] < Len(h[en[b]]))
    <3>1. \A l : Comparison(Less(Var(i), Len_(l)), en, h) <=> en[i] < Len(h[en[l]])
      BY DEF Less, Var, Len_, Comparison, Number, Atom
    <3>2. \A c, e : Eval(Both(c, e), en, h) <=> Comparison(c, en, h) /\ Comparison(e, en, h)
      BY DEF Both, Eval, Comparisons
    <3> QED BY <3>1, <3>2
  <2> QED BY <2>1, <2>2, <2>3 DEF i, a, b
<1>2. CASE p[k].how # "zip"
  <2>1. Cond(p, k) = Less(Var(IndexOf(p, k)), Len_(ListOf(p, k)))
    BY <1>0, <1>2 DEF Cond, Indexed
  <2>2. DOMAIN p[k].its = {1} /\ Holder(p, k, 1) = ListOf(p, k)
    BY <1>0, <1>2, WalkIs DEF Holder
  <2> DEFINE i == IndexOf(p, k)
             a == ListOf(p, k)
  <2> HIDE DEF i, a
  <2>3. Eval(Less(Var(i), Len_(a)), en, h) <=> en[i] < Len(h[en[a]])
    BY DEF Less, Var, Len_, Eval, Comparison, Number, Atom, Comparisons
  <2> QED BY <2>1, <2>2, <2>3 DEF i, a
<1> QED BY <1>1, <1>2

(* The place after an instruction of a head is reached in no other way.     *)
LEMMA IntoLoads ==
  ASSUME NEW p, IsBody(p), NEW k \in 1 .. Len(p), NEW i \in 1 .. N(p, k), NEW r,
         Flows(p, k, i, r), r # <<Len(p) + 1, 1>>,
         r[1] \in 1 .. Len(p), Indexed(p, r[1]), r[2] > W(p, r[1])
  PROVE  r[1] = k /\ r[2] = i + 1 /\ i >= W(p, k)
<1>1. Leads(p, k, i, r)
  BY FlowIs
<1>2. p[r[1]].op = "for"
  BY DEF Indexed
<1>3. r[1] = k /\ r[2] = i + 1
  BY <1>1, <1>2 DEF Leads
<1>4. W(p, k) \in 2 .. 4
  BY <1>2, <1>3, WalkIs
<1>5. N(p, k) \in Nat
  BY NIs
<1> QED BY <1>3, <1>4, <1>5

LEMMA LookingStays ==
  ASSUME LoopInv, Next
  PROVE  Looking(prog', pc', env', heap')
<1> DEFINE k == pc[1]
           i == pc[2]
           d == D(prog, k, i)
           w == W(prog, k)
<1>1. /\ ~ Done /\ prog' = prog
      /\ pc' = <<Len(prog) + 1, 1>> \/ Flows(prog, k, i, pc')
  BY NextFlows DEF Updated
<1>2. /\ IsBody(prog) /\ k \in 1 .. Len(prog) /\ i \in 1 .. N(prog, k) /\ Now = d
      /\ Looking(prog, pc, env, heap) /\ pc = <<k, i>>
  BY <1>1, NowIs DEF LoopInv
<1> SUFFICES ASSUME pc'[1] \in 1 .. Len(prog), Indexed(prog, pc'[1]), pc'[2] > W(prog, pc'[1]),
                    NEW n \in DOMAIN prog[pc'[1]].its, W(prog, pc'[1]) + n >= pc'[2]
             PROVE  env'[IndexOf(prog, pc'[1])] < Len(heap'[env'[Holder(prog, pc'[1], n)]])
  BY <1>1 DEF Looking
<1>3. Len(prog) \in Nat
  BY <1>2, BodyIs
<1>4. pc' # <<Len(prog) + 1, 1>>
  BY <1>3
<1> HIDE DEF d, w, k, i
<1>5. pc'[1] = k /\ pc'[2] = i + 1 /\ i >= W(prog, k)
  BY <1>1, <1>2, <1>4, IntoLoads
<1>6. Indexed(prog, k) /\ n \in DOMAIN prog[k].its /\ w + n >= i + 1 /\ i >= w
  BY <1>5 DEF w
<1>7. prog[k].op = "for"
  BY <1>6 DEF Indexed
<1>8. /\ w \in 2 .. 4 /\ N(prog, k) \in Nat /\ H(prog, k) = w + Len(prog[k].its)
      /\ Len(prog[k].its) \in {1, 2} /\ DOMAIN prog[k].its = 1 .. Len(prog[k].its)
  <2>1. /\ w \in 2 .. 4 /\ H(prog, k) = w + Len(prog[k].its)
        /\ Len(prog[k].its) = IF prog[k].how = "zip" THEN 2 ELSE 1
    BY <1>2, <1>6, <1>7, WalkIs DEF w
  <2>2. N(prog, k) \in Nat
    BY <1>2, NIs
  <2>3. DOMAIN prog[k].its = 1 .. (IF prog[k].how = "zip" THEN 2 ELSE 1)
    BY <1>2, <1>7, ForIs
  <2> QED BY <2>1, <2>2, <2>3
<1>9. n \in 1 .. 2
  <2>1. \A m \in {1, 2} : n \in 1 .. m => n \in 1 .. 2
    OBVIOUS
  <2> QED BY <1>6, <1>8, <2>1
<1>10. CASE i = w
  <2>1. AtWhile(prog, k, W(prog, k))
    BY <1>2, <1>7, LoopIs DEF IsLoop
  <2>2. d = While(Cond(prog, k), LoopId(k))
    BY <1>10, <2>1 DEF AtWhile, d, w
  <2>3. Now.op = "while" /\ Now.c = Cond(prog, k)
    BY <1>2, <2>2 DEF While
  <2>4. Test
    BY <2>3 DEF Next, Store, Make, Push, Goto, Fall, Leave, Test, At_
  <2>5. env' = env /\ heap' = heap
    BY <2>4 DEF Test
  <2>6. Eval(Cond(prog, k), env, heap)
    <3> SUFFICES ASSUME ~ Eval(Cond(prog, k), env, heap) PROVE FALSE
      OBVIOUS
    <3>1. pc' = After(code, Position(code, "end", LoopId(k)))
      BY <2>2, <2>3, <2>4, <1>2 DEF Test, Value, While
    <3>2. Do(code, pc) = d
      BY <1>2 DEF Now
    <3>3. pc' = Branch(code, pc)
      BY <2>2, <3>1, <3>2 DEF Branch, While
    <3>4. code = Compiled(prog) /\ d.op \in Branches
      BY <2>2 DEF LoopInv, Branches, While
    <3>5. pc' = Dest(prog, k, i)
      BY <1>2, <3>3, <3>4, BranchIs DEF d
    <3>6. pc' = <<End(prog, k) + 1, 1>>
      BY <2>2, <3>5 DEF Dest, d, While
    <3>7. End(prog, k) \in k + 1 .. Len(prog)
      BY <1>2, <1>7, EndIs DEF Opens
    <3> QED BY <1>2, <1>5, <3>6, <3>7
  <2>7. env[IndexOf(prog, k)] < Len(heap[env[Holder(prog, k, n)]])
    BY <1>2, <1>6, <2>6, CondBounds
  <2> QED BY <1>5, <2>5, <2>7
<1>11. CASE i > w
  <2>1. i = w + 1 /\ n = 2
    BY <1>2, <1>6, <1>8, <1>9, <1>11
  <2>2. env[IndexOf(prog, k)] < Len(heap[env[Holder(prog, k, n)]])
    <3>1. w + n >= i
      BY <1>8, <2>1
    <3> QED BY <1>2, <1>6, <1>11, <3>1 DEF Looking, w, k, i
  <2>3. OfHead(prog, k, i)
    BY <1>2, <1>7, HeadPlaces
  <2>4. AtLoad(prog, k, i, 1)
    <3>1. i # w - 1 /\ i # w /\ ~ i < w /\ i # H(prog, k) + 1 /\ i # w + 2
      BY <1>6, <1>8, <2>1
    <3>2. ~ AtWhile(prog, k, i) /\ ~ AtCounter(prog, k, i) /\ ~ AtIndex(prog, k, i)
      BY <3>1 DEF AtWhile, AtCounter, AtIndex, w
    <3>3. ~ AtCount(prog, k, i) /\ \A m \in {1, 2} : ~ AtList(prog, k, i, m)
      BY <3>1 DEF AtCount, AtList, w
    <3>4. ~ AtReload(prog, k, i) /\ ~ AtLoad(prog, k, i, 2)
      BY <1>7, <3>1 DEF AtReload, AtLoad, w
    <3> QED BY <2>3, <3>2, <3>3, <3>4 DEF OfHead
  <2> DEFINE x == IF prog[k].how = "zip" THEN prog[k].t[1] ELSE Over(prog[k])
  <2>5. d = Load(x, Holder(prog, k, 1), IndexOf(prog, k))
    BY <2>4 DEF AtLoad, d
  <2>6. x \in Targets(prog, k) /\ x[1] \in DOMAIN Types
    <3>1. /\ Over(prog[k]) \in Targets(prog, k)
          /\ prog[k].how = "zip" => prog[k].t[1] \in Targets(prog, k)
          /\ \A y \in Targets(prog, k) : y[1] \in DOMAIN Types
      BY <1>2, <1>7, ForIs
    <3> QED BY <3>1
  <2> HIDE DEF x
  <2>7. Now.op = "load" /\ Now.x = x
    BY <1>2, <2>5 DEF Load
  <2>8. Store
    BY <2>7 DEF Next, Store, Make, Push, Goto, Fall, Leave, Test, At_
  <2>9. heap' = heap /\ DOMAIN env' = DOMAIN env \cup {x}
        /\ \A y \in DOMAIN env : y # x => env'[y] = env[y]
    BY <2>7, <2>8 DEF Store, With
  <2>10. x[1] \notin Helpers
    BY <2>6, Kinds
  <2>11. IndexOf(prog, k)[1] \in Helpers /\ Holder(prog, k, n)[1] \in Helpers
    BY HelperKinds DEF Helpers, Holder
  <2>12. IndexOf(prog, k) # x /\ Holder(prog, k, n) # x
    BY <2>10, <2>11
  <2>13. AtLoad(prog, k, i + 1, n)
    <3>1. Indexed(prog, k) /\ n \in DOMAIN prog[k].its /\ i + 1 = w + n
      BY <1>6, <1>8, <2>1
    <3>2. i + 1 <= N(prog, k)
      BY <1>1, <1>2, <1>4, <1>5, FlowIs DEF Leads
    <3>3. i + 1 \in 1 .. N(prog, k)
      BY <1>2, <1>8, <3>2
    <3> DEFINE j == i + 1
    <3> HIDE DEF j
    <3>4. OfHead(prog, k, j)
      BY <1>2, <1>7, <3>3, HeadPlaces DEF j
    <3>5. j = w + 2 /\ j # w - 1 /\ j # w /\ ~ j < w /\ j # H(prog, k) + 1 /\ j # w + 1
      BY <1>6, <1>8, <2>1 DEF j
    <3>6. ~ AtWhile(prog, k, j) /\ ~ AtCounter(prog, k, j) /\ ~ AtIndex(prog, k, j)
      BY <3>5 DEF AtWhile, AtCounter, AtIndex, w
    <3>7. ~ AtCount(prog, k, j) /\ \A m \in {1, 2} : ~ AtList(prog, k, j, m)
      BY <3>5 DEF AtCount, AtList, w
    <3>8. ~ AtReload(prog, k, j) /\ ~ AtLoad(prog, k, j, 1)
      BY <1>7, <3>5 DEF AtReload, AtLoad, w
    <3> QED BY <2>1, <3>4, <3>6, <3>7, <3>8 DEF OfHead, j
  <2>14. IndexOf(prog, k) \in DOMAIN env /\ Holder(prog, k, n) \in DOMAIN env
    <3> DEFINE j == i + 1
    <3>1. j \in 1 .. N(prog, k)
      <4>1. i + 1 <= N(prog, k)
        BY <1>1, <1>2, <1>4, <1>5, FlowIs DEF Leads
      <4> QED BY <1>2, <1>8, <4>1
    <3> HIDE DEF j
    <3>2. Sound(prog, k, j) /\ D(prog, k, j).op = "load" /\ D(prog, k, j).l = Holder(prog, k, n)
          /\ D(prog, k, j).i = IndexOf(prog, k)
      BY <1>2, <2>13, <3>1, SoundIs DEF AtLoad, Load, j
    <3>3. {IndexOf(prog, k), Holder(prog, k, n)} \subseteq Known(prog, k, j)
      BY <3>2 DEF Sound
    <3>4. Known(prog, k, j) \subseteq Known(prog, k, i) \cup Stored(d)
      <4>1. Leads(prog, k, i, pc')
        BY <1>1, <1>2, <1>4, FlowIs
      <4> QED BY <1>4, <1>5, <4>1 DEF Leads, j, d
    <3>5. Stored(d) = {x}
      BY <2>5 DEF Stored, Load
    <3>6. Known(prog, k, i) \subseteq DOMAIN env
      BY <1>1, NowIs DEF k, i
    <3> QED BY <2>12, <3>3, <3>4, <3>5, <3>6
  <2> QED BY <1>5, <2>2, <2>9, <2>12, <2>14
<1> QED BY <1>2, <1>6, <1>8, <1>10, <1>11

LEMMA NextInv == LoopInv /\ Next => LoopInv'
<1> SUFFICES ASSUME LoopInv, Next PROVE LoopInv'
  OBVIOUS
<1> DEFINE k == pc[1]
           i == pc[2]
           d == D(prog, k, i)
<1>1. ~ Done /\ Updated /\ (pc' = <<Len(prog) + 1, 1>> \/ Flows(prog, k, i, pc'))
  BY NextFlows
<1>2. /\ prog' = prog /\ code' = code /\ Fine(env', heap') /\ Counts(env')
      /\ DOMAIN env \cup Stored(d) \subseteq DOMAIN env'
  BY <1>1 DEF Updated
<1>3. /\ IsBody(prog) /\ k \in 1 .. Len(prog) /\ i \in 1 .. N(prog, k)
      /\ Known(prog, k, i) \subseteq DOMAIN env
  BY <1>1, NowIs
<1>4. Leads(prog, k, i, pc')
  BY <1>1, <1>3, FlowIs DEF Leads
<1>5. Len(prog) \in Nat
  BY <1>3, BodyIs
<1> HIDE DEF k, i, d
<1>6. InText(prog, pc') /\ HasKnown(prog, pc', env')
  <2>1. CASE pc' = <<Len(prog) + 1, 1>>
    <3>1. pc'[1] \notin 1 .. Len(prog)
      BY <1>5, <2>1
    <3> QED BY <2>1, <3>1 DEF InText, HasKnown
  <2>2. CASE pc' # <<Len(prog) + 1, 1>>
    <3>1. /\ pc' = <<pc'[1], pc'[2]>> /\ pc'[1] \in 1 .. Len(prog) /\ pc'[2] \in 1 .. N(prog, pc'[1])
          /\ Known(prog, pc'[1], pc'[2]) \subseteq Known(prog, k, i) \cup Stored(D(prog, k, i))
      BY <1>4, <2>2 DEF Leads
    <3>2. Known(prog, pc'[1], pc'[2]) \subseteq DOMAIN env'
      BY <1>2, <1>3, <3>1 DEF d
    <3> QED BY <3>1, <3>2 DEF InText, HasKnown
  <2> QED BY <2>1, <2>2
<1>7. Looking(prog', pc', env', heap')
  BY LookingStays
<1> QED BY <1>2, <1>6, <1>7 DEF LoopInv

(* The inductive invariant: the function is in the text of its body, every *)
(* slot has the type of its name, no index is negative, what is known at   *)
(* the place is bound, and between a while that went on and the load of    *)
(* its element the index stays below the length (check.rs::build_comp_loop *)
(* makes no call and no store between them).                               *)
THEOREM LoopInvariant == Spec => []LoopInv
<1>1. LoopInv /\ UNCHANGED vars => LoopInv'
  BY DEF LoopInv, vars, fixed
<1> QED BY <1>1, InitInv, NextInv, PTL DEF Spec

(* Whatever bodies are compiled, a slot of collect_locals only ever holds a *)
(* value of the type of its name, every list variable a list there is, and *)
(* every branch of codegen.rs::lower_block goes to an instruction there is. *)
THEOREM TypeCorrect == Spec => []TypeOK
BY LoopInvariant, InvTypes, PTL

(* The load of an element, which codegen.rs leaves without a bounds check, *)
(* is inside its list in every loop of every body, appends included.       *)
THEOREM IndicesInBounds == Spec => []IndexInBounds
BY LoopInvariant, InvBounds, PTL

-----------------------------------------------------------------------------
(* What Python sees at an instruction. *)

PlaceAt(p, at) == IF at[1] > Len(p) THEN Len(p) + 1 ELSE A(p, at[1], at[2])

(* The loops and gatherings around a place.                                 *)
Surround(p, a) == {l \in Around(p, a) : p[l].op \in {"for", "gather"}}

(* Is the place a loop that has been entered, and has the turn's element    *)
(* been taken, the latch not yet having moved on the counter that is nth?   *)
Entered(p, at) ==
  LET a == PlaceAt(p, at)
  IN  a \in 1 .. Len(p) /\ p[a].op = "for" /\ (at[1] = a => at[2] >= W(p, a))

TakenAt(p, at, nth) ==
  LET a == PlaceAt(p, at)
  IN  at[1] # a /\ at[2] <= LatchAt(p, a) + nth

Going(p, at) ==
  Surround(p, PlaceAt(p, at)) \cup (IF Entered(p, at) THEN {PlaceAt(p, at)} ELSE {})

(* The iterators that slots and counters stand for.                         *)
WalkIn(p, l, m, taken, en, h) ==
  IF Indexed(p, l)
  THEN [k |-> "list", list |-> en[Holder(p, l, m)],
        pos |-> en[IndexOf(p, l)] + (IF taken THEN 1 ELSE 0)]
  ELSE [k |-> "range",
        next |-> en[Over(p[l])] + (IF taken THEN p[l].its[1].step ELSE 0),
        stop |-> Eval(p[l].its[1].stop, en, h), step |-> p[l].its[1].step]

LoopIn(p, l, first, second, en, h) ==
  [of |-> [m \in DOMAIN p[l].its |-> WalkIn(p, l, m, first, en, h)],
   n  |-> IF p[l].how = "enumerate" THEN en[p[l].t[1]] + (IF second THEN 1 ELSE 0)
          ELSE p[l].start]

GatherIn(p, g, en, h) ==
  [of |-> <<>>, acc |-> IF p[g].how = "list" THEN h[en[Acc(p, g)]] ELSE en[Acc(p, g)]]

UnderIn(p, l, first, second, en, h) ==
  IF p[l].op = "gather" THEN GatherIn(p, l, en, h) ELSE LoopIn(p, l, first, second, en, h)

ShownIn(p, a, en) == [x \in Bound(p, a) |-> en[x]]

ItersIn(p, a, entered, first, second, en, h) ==
  [l \in Surround(p, a) \cup (IF entered THEN {a} ELSE {}) |->
     UnderIn(p, l, l # a \/ first, l # a \/ second, en, h)]

ItersAt(p, at, en, h) ==
  ItersIn(p, PlaceAt(p, at), Entered(p, at), TakenAt(p, at, 1), TakenAt(p, at, 2), en, h)

-----------------------------------------------------------------------------
(* The invariant of the refinement. *)

(* What the first instructions of a for have prepared when it is entered.   *)
Prepared(p, at, en) ==
  LET k == at[1]
  IN  k \in 1 .. Len(p) /\ p[k].op = "for" /\ at[2] < W(p, k) =>
        /\ \A m \in DOMAIN p[k].its, n \in 1 .. at[2] - 1 :
             AtList(p, k, n, m) => en[Holder(p, k, m)] = en[p[k].its[m].x]
        /\ p[k].how = "enumerate" /\ at[2] > 1 => en[p[k].t[1]] = p[k].start

(* There are elements for the turn, and the first of a zip has been taken.  *)
Loading(p, at, en, h) ==
  LET k == at[1]
      i == en[IndexOf(p, k)]
  IN  k \in 1 .. Len(p) /\ Indexed(p, k) /\ at[2] > W(p, k) /\ at[2] <= H(p, k) =>
        /\ \A m \in DOMAIN p[k].its : i < Len(h[en[Holder(p, k, m)]])
        /\ at[2] = W(p, k) + 2 => en[p[k].t[1]] = h[en[Holder(p, k, 1)]][i + 1]

(* An accumulator has not changed since its old value was read.             *)
Fresh(p, l, k, i) ==
  /\ Each(p[l]) /\ Grows(p, p[l].of)
  /\ Filtered(p, l) => k >= l + 2
  /\ k < End(p, l) \/ i = 1

OldIsNew(p, at, en) ==
  at[1] \in 1 .. Len(p) =>
    \A l \in Around(p, at[1]) :
      Fresh(p, l, at[1], at[2]) => en[Old(p, p[l].of)] = en[Acc(p, p[l].of)]

(* The lists that are gathered are nobody else's.                           *)
ListAccs(p, a) == {g \in Surround(p, a) : p[g].op = "gather" /\ p[g].how = "list"}

Holders(p, at) ==
  {x \in Bound(p, PlaceAt(p, at)) : Kind(x) = "list"}
    \cup UNION {{Holder(p, l, m) : m \in DOMAIN p[l].its} : l \in {j \in Going(p, at) : Indexed(p, j)}}

AccsApart(p, at, en) ==
  \A g \in ListAccs(p, PlaceAt(p, at)) :
    /\ en[Acc(p, g)] \notin DOMAIN Heap0
    /\ \A x \in Holders(p, at) : en[x] # en[Acc(p, g)]
    /\ \A o \in ListAccs(p, PlaceAt(p, at)) : o # g => en[Acc(p, o)] # en[Acc(p, g)]

(* any and all do not know yet.                                             *)
Unknown(p, at, en) ==
  \A g \in Surround(p, PlaceAt(p, at)) :
    p[g].op = "gather" /\ ~ Grows(p, g) /\ PlaceAt(p, at) # End(p, g) =>
      en[Acc(p, g)] = (p[g].how = "all")

(* ... but where they have just found out.                                  *)
FoundOut(p, at, en, h) ==
  at[1] \in 1 .. Len(p) /\ AtKnown(p, at[1], at[2]) =>
    Eval(p[at[1]].e, en, h) = AnyOf(p, at[1])

FollowInv ==
  /\ LoopInv
  /\ Len(heap) >= Len(Heap0)
  /\ Prepared(prog, pc, env)
  /\ Loading(prog, pc, env, heap)
  /\ OldIsNew(prog, pc, env)
  /\ AccsApart(prog, pc, env)
  /\ Unknown(prog, pc, env)
  /\ FoundOut(prog, pc, env, heap)

Mapped ==
  /\ Place = PlaceAt(prog, pc)
  /\ Shown = ShownIn(prog, PlaceAt(prog, pc), env)
  /\ Iterators = ItersAt(prog, pc, env, heap)

-----------------------------------------------------------------------------
(* Statements, and the elements of a gathering. *)

Gathers(t) == t.op = "gather" \/ Each(t)

(* Around a statement nothing is gathered: where something is, what is      *)
(* innermost is a gathering or its loop.                                    *)
LEMMA StatementIs ==
  ASSUME NEW p, IsBody(p), NEW k \in 1 .. Len(p) + 1,
         NEW g \in Around(p, k), Gathers(p[g])
  PROVE  InExpression(p, k)
<1> DEFINE n == Len(p)
           Expr(j) == (\E x \in Around(p, j) : Gathers(p[x])) => InExpression(p, j)
           S == {m \in Nat : \A j \in 1 .. n + 1 : j <= m + 1 => Expr(j)}
<1>1. n \in Nat /\ Around(p, 1) = {}
  BY BodyIs, AroundIs
<1>2. 0 \in S
  <2>1. \A j \in 1 .. n + 1 : j <= 0 + 1 => j = 1
    BY <1>1
  <2> QED BY <1>1, <2>1
<1>3. ASSUME NEW m \in Nat, m \in S PROVE m + 1 \in S
  <2> SUFFICES ASSUME m + 2 \in 1 .. n + 1 PROVE Expr(m + 2)
    <3>1. \A j \in 1 .. n + 1 : j <= m + 2 => j <= m + 1 \/ j = m + 2
      BY <1>1
    <3>2. m + 1 + 1 = m + 2
      OBVIOUS
    <3> HIDE DEF Expr, n
    <3> QED BY <1>3, <3>1, <3>2
  <2> DEFINE c == m + 1
  <2>1. c \in 1 .. n /\ c \in 1 .. n + 1 /\ m + 2 = c + 1 /\ c <= m + 1
    BY <1>1
  <2>2. Expr(c)
    <3> HIDE DEF Expr, n, c
    <3> QED BY <1>3, <2>1
  <2>3. Fits(p, c)
    BY <2>1, BodyIs
  <2>4. \A j \in Around(p, c) : j <= c - 1
    BY <2>1, AroundOf
  <2> HIDE DEF n, c
  <2>5. CASE p[c].op \in Opens
    <3>1. Around(p, c + 1) = Around(p, c) \cup {c}
      BY <2>1, <2>5, AroundIs DEF n
    <3>2. CASE Gathers(p[c])
      <4>1. Innermost(c, Around(p, c + 1))
        <5>1. c \in Nat /\ \A j \in Around(p, c) : j <= c
          <6>1. c \in Nat /\ \A j \in Around(p, c) : j \in Nat
            BY <1>1, <2>1, AroundOf DEF n
          <6> QED BY <2>4, <6>1
        <5> QED BY <3>1, <5>1 DEF Innermost
      <4> QED BY <2>1, <3>1, <3>2, <4>1 DEF Gathers, InExpression
    <3>3. CASE ~ Gathers(p[c])
      <4> DEFINE t == p[c]
      <4>1. t.op \in {"if", "while", "for"} /\ ~ Each(t)
        BY <2>5, <3>3 DEF Opens, Gathers
      <4>2. ~ InExpression(p, c)
        BY <2>3, <4>1 DEF Fits
      <4>3. \A j \in Around(p, c + 1) : ~ Gathers(p[j])
        BY <2>2, <3>1, <3>3, <4>2
      <4> QED BY <2>1, <4>3
    <3> QED BY <3>2, <3>3
  <2>6. CASE p[c].op \in Closes
    <3> DEFINE o == p[c].of
    <3>1. Innermost(o, Around(p, c)) /\ o \in 1 .. n /\ p[o].op \in Opens
      BY <2>1, <2>6, ClosesIs, InnermostIs DEF Belongs, n
    <3>2. c = End(p, o)
      BY <2>1, <2>6, <3>1, EndIs DEF n
    <3>3. Around(p, c + 1) = Around(p, o)
      BY <3>1, <3>2, AfterEnd DEF n
    <3>4. o \in 1 .. n + 1 /\ o <= m + 1
      <4>1. o <= c - 1
        BY <2>4, <3>1 DEF Innermost
      <4> QED BY <1>1, <2>1, <3>1, <4>1
    <3>5. Expr(o)
      <4> HIDE DEF Expr, o
      <4> QED BY <1>3, <3>4
    <3> HIDE DEF o
    <3> QED BY <2>1, <3>3, <3>5 DEF InExpression
  <2>7. CASE p[c].op \notin Opens \cup Closes
    <3>1. Around(p, c + 1) = Around(p, c)
      BY <2>1, <2>7, AroundIs DEF n
    <3> QED BY <2>1, <2>2, <3>1 DEF InExpression
  <2> QED BY <2>5, <2>6, <2>7
<1>4. Nat \subseteq S
  <2> HIDE DEF S
  <2> QED BY <1>2, <1>3, UpTo
<1>5. Expr(k)
  <2>1. k - 1 \in Nat /\ k <= k - 1 + 1
    BY <1>1
  <2>2. k - 1 \in S
    BY <1>4, <2>1
  <2> HIDE DEF Expr
  <2> QED BY <2>1, <2>2 DEF n
<1> QED BY <1>5

(* Which tokens can be in an expression.                                    *)
LEMMA ExpressionIs ==
  ASSUME NEW p, IsBody(p), NEW k \in 1 .. Len(p), InExpression(p, k)
  PROVE  \/ p[k].op \in {"gather", "filter", "yield", "result"}
         \/ Each(p[k])
<1> DEFINE t == p[k]
<1>1. Fits(p, k)
  BY BodyIs
<1> SUFFICES ASSUME t.op \notin {"gather", "filter", "yield", "result"}, ~ Each(t)
             PROVE  FALSE
  OBVIOUS
<1>2. PICK j \in Around(p, k) : Innermost(j, Around(p, k)) /\ (p[j].op = "gather" \/ Each(p[j]))
  BY DEF InExpression
<1>3. \A i : Innermost(i, Around(p, k)) => i = j
  BY <1>2, AroundOf, BodyIs DEF Innermost
<1>4. CASE t.op = "else"
  <2>1. Belongs(p, k) /\ p[t.of].op = "if"
    BY <1>1, <1>4 DEF Fits
  <2> QED BY <1>2, <1>3, <2>1 DEF Belongs, Each
<1>5. CASE t.op = "end"
  <2>1. Belongs(p, k) /\ p[t.of].op \in {"if", "while", "for"} /\ ~ Each(p[t.of])
    BY <1>1, <1>5 DEF Fits
  <2> QED BY <1>2, <1>3, <2>1 DEF Belongs
<1>6. CASE t.op \in {"break", "continue"}
  <2>1. ~ InExpression(p, k)
    BY <1>1, <1>6 DEF Fits
  <2> QED BY <2>1
<1>7. CASE t.op \notin {"else", "end", "break", "continue"}
  <2>1. ~ InExpression(p, k)
    BY <1>1, <1>7 DEF Fits
  <2> QED BY <2>1
<1> QED BY <1>4, <1>5, <1>6, <1>7

(* After a yield comes the result.                                          *)
LEMMA ResultIs ==
  ASSUME NEW p, IsBody(p), NEW k \in 1 .. Len(p), p[k].op = "yield"
  PROVE  LET g == Whole(p, k)
         IN  /\ k + 1 \in 1 .. Len(p) /\ p[k + 1].op = "result" /\ p[k + 1].of = g
             /\ End(p, g) = k + 1 /\ g \in 1 .. Len(p) /\ p[g].op = "gather"
             /\ Around(p, k + 1) = Around(p, g) \cup {g}
<1> DEFINE l == p[k].of
           g == Whole(p, k)
           t == p[k + 1]
<1>1. /\ l \in 1 .. Len(p) /\ Each(p[l]) /\ k = End(p, l)
      /\ g \in 1 .. Len(p) /\ p[g].op = "gather" /\ Innermost(g, Around(p, l))
  BY YieldIs DEF Whole
<1>2. l \in 1 .. Len(p) + 1 /\ k + 1 \in 1 .. Len(p) + 1 /\ Len(p) \in Nat
  BY <1>1, BodyIs
<1>3. Around(p, k + 1) = Around(p, l) /\ Around(p, l) = Around(p, g) \cup {g}
  <2>1. p[l].op \in Opens
    BY <1>1 DEF Each, Opens
  <2> QED BY <1>1, <1>2, <2>1, AfterEnd, InnermostIs
<1>4. k + 1 \in 1 .. Len(p)
  <2>1. k + 1 # Len(p) + 1
    BY <1>3, BodyIs
  <2> QED BY <1>2, <2>1
<1>5. Innermost(g, Around(p, k + 1)) /\ InExpression(p, k + 1)
  BY <1>1, <1>3 DEF InExpression, Innermost
<1>6. \A i : Innermost(i, Around(p, k + 1)) => i = g
  BY <1>2, <1>5, AroundOf DEF Innermost
<1>7. Fits(p, k + 1) /\ p[k + 1 - 1] = p[k]
  <2>1. k + 1 - 1 = k
    OBVIOUS
  <2> QED BY <1>4, <2>1, BodyIs
<1>8. t.op \in {"gather", "filter", "yield", "result"} \/ Each(t)
  BY <1>4, <1>5, ExpressionIs
<1>9. t.op # "gather"
  BY <1>4, <1>7 DEF Fits
<1>10. ~ Each(t)
  <2> SUFFICES ASSUME Each(t) PROVE FALSE
    OBVIOUS
  <2>1. t.op = "for"
    BY DEF Each
  <2>2. p[k + 1 - 1].op \in {"gather", "result"}
    BY <1>7, <2>1 DEF Fits
  <2> QED BY <1>7, <2>2
<1>11. t.op # "filter"
  <2> SUFFICES ASSUME t.op = "filter" PROVE FALSE
    OBVIOUS
  <2>1. Belongs(p, k + 1) /\ p[t.of].op = "for"
    BY <1>7 DEF Fits, Each
  <2> QED BY <1>1, <1>6, <2>1 DEF Belongs
<1>12. t.op # "yield"
  <2> SUFFICES ASSUME t.op = "yield" PROVE FALSE
    OBVIOUS
  <2>1. Belongs(p, k + 1) /\ Each(p[t.of])
    BY <1>7 DEF Fits, Each
  <2> QED BY <1>1, <1>6, <2>1 DEF Belongs, Each
<1>13. t.op = "result"
  BY <1>8, <1>9, <1>10, <1>11, <1>12
<1>14. t.of = g
  BY <1>4, <1>6, <1>13, ClosesIs DEF Closes, Belongs
<1>15. End(p, g) = k + 1
  BY <1>1, <1>4, <1>13, <1>14, EndIs DEF Opens, Closes
<1> QED BY <1>1, <1>3, <1>4, <1>13, <1>14, <1>15

(* No loop is at the head of an element.                                    *)
LEMMA ElementIs ==
  ASSUME NEW p, IsBody(p), NEW k \in 1 .. Len(p), p[k].op \in {"for", "filter"}, Reloads(p, k)
  PROVE  LET l == IF p[k].op = "for" THEN k ELSE p[k].of
         IN  /\ k + 1 \in 1 .. Len(p) /\ p[k + 1].op # "for"
             /\ Each(p[l]) /\ l \in 1 .. Len(p) /\ Around(p, k + 1) = Around(p, l) \cup {l}
             /\ p[k].op = "filter" => l = k - 1
<1> DEFINE l == IF p[k].op = "for" THEN k ELSE p[k].of
           t == p[k + 1]
<1>1. Each(p[l]) /\ l \in 1 .. Len(p) /\ (p[k].op = "filter" => l = k - 1)
  BY FilterIs DEF Reloads
<1>2. Around(p, k + 1) = Around(p, l) \cup {l}
  <2>1. CASE p[k].op = "for"
    BY <2>1, AroundIs DEF Opens
  <2>2. CASE p[k].op = "filter"
    <3>1. Around(p, k + 1) = Around(p, k)
      BY <2>2, AroundIs DEF Opens, Closes
    <3> QED BY <2>2, <3>1, FilterIs
  <2> QED BY <2>1, <2>2
<1>3. k + 1 \in 1 .. Len(p)
  <2>1. k + 1 # Len(p) + 1
    BY <1>2, BodyIs
  <2> QED BY <2>1, BodyIs
<1>4. Innermost(l, Around(p, k + 1))
  <2>1. \A j \in Around(p, l) : j <= l
    BY <1>1, AroundOf, BodyIs
  <2> QED BY <1>1, <1>2, <2>1 DEF Innermost
<1>5. InExpression(p, k + 1)
  BY <1>1, <1>4 DEF InExpression, Innermost
<1>6. ~ Each(t)
  <2> SUFFICES ASSUME Each(t) PROVE FALSE
    OBVIOUS
  <2>1. t.op = "for" /\ Fits(p, k + 1)
    BY <1>3, BodyIs DEF Each
  <2>2. p[k + 1 - 1].op \in {"gather", "result"}
    BY <2>1 DEF Fits
  <2>3. k + 1 - 1 = k
    OBVIOUS
  <2> QED BY <2>2, <2>3
<1>7. t.op # "for"
  BY <1>3, <1>5, <1>6, ExpressionIs
<1> QED BY <1>1, <1>2, <1>3, <1>7

-----------------------------------------------------------------------------
(* The place of an instruction: its token, the one after it, or the loop    *)
(* whose turn it ends.                                                      *)

Here(p, k, i)   == A(p, k, i) = k /\ (Closing(p, k) => i <= LatchAt(p, p[k].of))
Behind(p, k, i) == A(p, k, i) = p[k].of /\ Closing(p, k) /\ i >= 2

LEMMA DecidingIs ==
  ASSUME NEW p, IsBody(p), NEW k \in 1 .. Len(p), Deciding(p, k)
  PROVE  /\ Closing(p, k) /\ Q(p, p[k].of) = 5 /\ LatchAt(p, p[k].of) \in 7 .. 9
         /\ p[k].op = "yield"
<1>1. p[k].op = "yield" /\ ~ Grows(p, Whole(p, k))
  BY DEF Deciding
<1>2. Closing(p, k) /\ Each(p[p[k].of]) /\ p[k].of \in 1 .. Len(p)
  BY <1>1, YieldIs DEF Closing
<1>3. Q(p, p[k].of) = 5
  BY <1>1, <1>2 DEF Q, Grows, Whole
<1>4. F(p, p[k].of) \in {0, 2}
  BY DEF F
<1> QED BY <1>1, <1>2, <1>3, <1>4 DEF LatchAt

LEMMA Spots ==
  ASSUME NEW p, IsBody(p), NEW k \in 1 .. Len(p), NEW i \in 1 .. N(p, k)
  PROVE  \/ Here(p, k, i) \/ Behind(p, k, i)
         \/ AtReload(p, k, i) \/ AtStop(p, k, i)
<1>1. Single(p[k]) => ~ Closing(p, k)
  BY DEF Single, Closing
<1>2. Closing(p, k) => LatchAt(p, p[k].of) \in Nat /\ LatchAt(p, p[k].of) >= 2
  <2> SUFFICES ASSUME Closing(p, k) PROVE LatchAt(p, p[k].of) \in Nat /\ LatchAt(p, p[k].of) >= 2
    OBVIOUS
  <2>1. p[k].of \in 1 .. Len(p) /\ IsLoop(p[p[k].of])
    BY ClosingOf
  <2>2. Q(p, p[k].of) \in {0, 1, 5} /\ F(p, p[k].of) \in {0, 2}
    BY <2>1, LoopIs
  <2> QED BY <2>2 DEF LatchAt
<1>3. CASE AtSingle(p, k, i)
  BY <1>1, <1>3 DEF AtSingle, Here
<1>4. CASE AtFilter(p, k, i)
  BY <1>4 DEF AtFilter, Here, Closing
<1>5. CASE AtJoin(p, k, i)
  BY <1>5 DEF AtJoin, Here, Closing, IsLoop
<1>6. CASE OfHead(p, k, i)
  <2>1. CASE AtReload(p, k, i)
    BY <2>1
  <2>2. CASE ~ AtReload(p, k, i)
    <3>1. A(p, k, i) = k /\ IsLoop(p[k])
      BY <1>6, <2>2
         DEF OfHead, AtWhile, AtCount, AtCounter, AtIndex, AtList, AtLoad, IsLoop, Indexed
    <3> QED BY <3>1 DEF Here, Closing, IsLoop
  <2> QED BY <2>1, <2>2
<1>7. CASE OfGain(p, k, i)
  <2>1. CASE AtGain(p, k, i)
    <3>1. i = 1 /\ A(p, k, i) = k
      BY <2>1 DEF AtGain
    <3> QED BY <1>2, <3>1 DEF Here
  <2>2. CASE AtTest(p, k, i)
    <3>1. i = 1 /\ A(p, k, i) = k
      BY <2>2 DEF AtTest
    <3> QED BY <1>2, <3>1 DEF Here
  <2>3. CASE AtKnown(p, k, i)
    <3>1. i <= 3 /\ A(p, k, i) = k /\ Deciding(p, k)
      BY <2>3 DEF AtKnown
    <3> QED BY <3>1, DecidingIs DEF Here
  <2>4. CASE AtStop(p, k, i)
    BY <2>4
  <2>5. CASE AtOther(p, k, i) \/ AtSettled(p, k, i)
    <3>1. i >= 2 /\ A(p, k, i) = p[k].of /\ Deciding(p, k)
      BY <2>5 DEF AtOther, AtSettled
    <3> QED BY <3>1, DecidingIs DEF Behind
  <2> QED BY <1>7, <2>1, <2>2, <2>3, <2>4, <2>5 DEF OfGain
<1>8. CASE OfTurn(p, k, i)
  <2>1. /\ Closing(p, k) /\ A(p, k, i) = IF i = 1 THEN k ELSE p[k].of
    BY <1>8 DEF OfTurn, AtSkipped, AtKept, AtNext, AtLatch, AtBump, AtCountUp, AtEnd, Turn
  <2>2. i = 1 \/ i >= 2
    BY NIs
  <2> QED BY <1>2, <2>1, <2>2 DEF Here, Behind
<1> QED BY <1>3, <1>4, <1>5, <1>6, <1>7, <1>8, PlaceIs

LEMMA PlaceAtIs ==
  ASSUME NEW p, IsBody(p), NEW k \in 1 .. Len(p), NEW i \in 1 .. N(p, k)
  PROVE  /\ PlaceAt(p, <<k, i>>) = A(p, k, i) /\ A(p, k, i) \in 1 .. Len(p)
         /\ AtReload(p, k, i) => p[A(p, k, i)].op # "for" /\ A(p, k, i) = k + 1
         /\ AtStop(p, k, i) => p[A(p, k, i)].op # "for" /\ A(p, k, i) = k + 1
         /\ Behind(p, k, i) => A(p, k, i) = p[k].of /\ k = End(p, p[k].of) /\ IsLoop(p[p[k].of])
                               /\ p[k].of < k
<1>1. PlaceAt(p, <<k, i>>) = A(p, k, i)
  BY BodyIs DEF PlaceAt
<1>2. CASE Here(p, k, i)
  <2>1. A(p, k, i) = k
    BY <1>2 DEF Here
  <2>2. ~ AtReload(p, k, i) /\ ~ AtStop(p, k, i)
    BY <2>1 DEF AtReload, AtStop
  <2>3. ~ Behind(p, k, i)
    BY <2>1, ClosingOf, LoopIs DEF Behind
  <2> QED BY <1>1, <2>1, <2>2, <2>3
<1>3. Behind(p, k, i) => /\ A(p, k, i) = p[k].of /\ k = End(p, p[k].of) /\ IsLoop(p[p[k].of])
                         /\ p[k].of < k /\ p[k].of \in 1 .. Len(p)
  BY ClosingOf, LoopIs DEF Behind
<1>4. AtReload(p, k, i) => p[A(p, k, i)].op # "for" /\ A(p, k, i) = k + 1 /\ k + 1 \in 1 .. Len(p)
  BY ElementIs DEF AtReload
<1>5. AtStop(p, k, i) => p[A(p, k, i)].op # "for" /\ A(p, k, i) = k + 1 /\ k + 1 \in 1 .. Len(p)
  BY ResultIs DEF AtStop, Deciding
<1> QED BY <1>1, <1>2, <1>3, <1>4, <1>5, Spots

(* A token is begun at its first instruction.                               *)
LEMMA Begins ==
  ASSUME NEW p, IsBody(p), NEW k \in 1 .. Len(p) + 1
  PROVE  PlaceAt(p, <<k, 1>>) = k /\ ~ Entered(p, <<k, 1>>)
<1>1. CASE k = Len(p) + 1
  <2>1. PlaceAt(p, <<k, 1>>) = k
    BY <1>1, BodyIs DEF PlaceAt
  <2> QED BY <1>1, <2>1, BodyIs DEF Entered
<1>2. CASE k \in 1 .. Len(p)
  <2>1. 1 \in 1 .. N(p, k)
    BY <1>2, NIs
  <2>2. A(p, k, 1) = k
    <3>1. ~ Behind(p, k, 1)
      BY DEF Behind
    <3>2. ~ AtStop(p, k, 1)
      BY DEF AtStop
    <3>3. ~ AtReload(p, k, 1)
      <4>1. p[k].op = "for" => H(p, k) + 1 # 1
        BY <1>2, WalkIs
      <4> QED BY <4>1 DEF AtReload
    <3> QED BY <1>2, <2>1, <3>1, <3>2, <3>3, Spots DEF Here
  <2>3. PlaceAt(p, <<k, 1>>) = k
    BY <1>2, <2>1, <2>2, PlaceAtIs
  <2>4. p[k].op = "for" => ~ (1 >= W(p, k))
    BY <1>2, WalkIs
  <2> QED BY <2>3, <2>4 DEF Entered
<1> QED BY <1>1, <1>2, BodyIs

(* A loop is entered at its test.                                           *)
LEMMA InHead ==
  ASSUME NEW p, IsBody(p), NEW k \in 1 .. Len(p), p[k].op = "for", NEW i \in 1 .. H(p, k)
  PROVE  /\ PlaceAt(p, <<k, i>>) = k /\ i \in 1 .. N(p, k)
         /\ Entered(p, <<k, i>>) <=> i >= W(p, k)
         /\ ~ TakenAt(p, <<k, i>>, 1) /\ ~ TakenAt(p, <<k, i>>, 2)
<1>1. i \in 1 .. N(p, k)
  <2>1. H(p, k) \in Nat
    BY WalkIs
  <2>2. N(p, k) = H(p, k) + (IF Reloads(p, k) THEN 1 ELSE 0)
    BY NIs
  <2>3. N(p, k) \in Nat /\ N(p, k) >= H(p, k)
    BY <2>1, <2>2
  <2> QED BY <2>1, <2>3
<1>2. ~ AtReload(p, k, i) /\ ~ AtStop(p, k, i) /\ ~ Behind(p, k, i)
  BY WalkIs DEF AtReload, AtStop, Deciding, Behind, Closing
<1>3. PlaceAt(p, <<k, i>>) = k
  BY <1>1, <1>2, Spots, PlaceAtIs DEF Here
<1> QED BY <1>1, <1>3 DEF Entered, TakenAt

LEMMA NotEntered ==
  ASSUME NEW p, IsBody(p), NEW k \in 1 .. Len(p), NEW i \in 1 .. N(p, k),
         \/ AtReload(p, k, i) \/ AtStop(p, k, i) \/ (A(p, k, i) = k /\ p[k].op # "for")
  PROVE  ~ Entered(p, <<k, i>>)
BY PlaceAtIs DEF Entered

LEMMA InTurn ==
  ASSUME NEW p, IsBody(p), NEW k \in 1 .. Len(p), NEW i \in 1 .. N(p, k), Behind(p, k, i)
  PROVE  LET l == p[k].of
         IN  /\ PlaceAt(p, <<k, i>>) = l /\ k = End(p, l) /\ l \in 1 .. Len(p)
             /\ Entered(p, <<k, i>>) <=> p[l].op = "for"
             /\ \A nth \in {1, 2} : TakenAt(p, <<k, i>>, nth) <=> i <= LatchAt(p, l) + nth
<1> DEFINE l == p[k].of
<1>1. PlaceAt(p, <<k, i>>) = l /\ k = End(p, l) /\ l # k /\ l \in 1 .. Len(p)
  BY PlaceAtIs
<1> QED BY <1>1 DEF Entered, TakenAt

-----------------------------------------------------------------------------
(* What Python sees, from the place of an instruction. *)

LEMMA InvIs ==
  ASSUME LoopInv
  PROVE  /\ IsBody(prog) /\ code = Compiled(prog) /\ Len(code) = Len(prog) /\ Len(prog) \in Nat
         /\ DOMAIN code = 1 .. Len(prog) /\ \A k \in 1 .. Len(prog) : code[k] = TokenCode(prog, k)
         /\ Done => pc = <<Len(prog) + 1, 1>>
BY ProgramsAssumption, BodyIs, CodeIs DEF LoopInv, InText, Done

LEMMA NumberedIs ==
  ASSUME LoopInv, NEW l \in 1 .. Len(prog), IsLoop(prog[l])
  PROVE  Numbered("while", l) = W(prog, l) /\ Numbered("latch", End(prog, l)) = LatchAt(prog, l)
<1> DEFINE e == End(prog, l)
<1>1. /\ IsBody(prog) /\ \A k \in 1 .. Len(prog) : code[k] = TokenCode(prog, k)
      /\ \A k \in 1 .. Len(prog) : DOMAIN TokenCode(prog, k) = 1 .. N(prog, k)
  BY InvIs, NIs
<1>2. /\ e \in 1 .. Len(prog) /\ Closing(prog, e) /\ prog[e].of = l
      /\ W(prog, l) \in 1 .. N(prog, l) /\ D(prog, l, W(prog, l)).op = "while"
      /\ LatchAt(prog, l) \in 1 .. N(prog, e) /\ D(prog, e, LatchAt(prog, l)).op = "latch"
  BY <1>1, LoopIs DEF AtWhile, AtLatch, Turn, While, Mark
<1>3. \A i \in 1 .. N(prog, l) : D(prog, l, i).op = "while" => i = W(prog, l)
  BY <1>1, TellsIs DEF Tells
<1>4. \A i \in 1 .. N(prog, e) : D(prog, e, i).op = "latch" => i = LatchAt(prog, l)
  BY <1>1, <1>2, TellsIs DEF Tells, LatchAt
<1>5. Numbered("while", l) = W(prog, l)
  BY <1>1, <1>2, <1>3 DEF Numbered, D
<1>6. Numbered("latch", e) = LatchAt(prog, l)
  BY <1>1, <1>2, <1>4 DEF Numbered, D
<1> QED BY <1>5, <1>6

LEMMA PlaceIsAt == ASSUME LoopInv PROVE Place = PlaceAt(prog, pc)
<1>1. CASE Done
  BY <1>1, InvIs DEF Done, Place, PlaceAt
<1>2. CASE ~ Done
  <2>1. pc = <<pc[1], pc[2]>> /\ pc[1] \in 1 .. Len(prog) /\ pc[2] \in 1 .. N(prog, pc[1]) /\ IsBody(prog)
    BY <1>2, NowIs
  <2>2. code[pc[1]][pc[2]].at = A(prog, pc[1], pc[2])
    BY <2>1, InvIs DEF A
  <2> QED BY <1>2, <2>1, <2>2, InvIs DEF Place, PlaceAt, Done
<1> QED BY <1>1, <1>2

(* The loops around the place have taken their elements.                    *)
LEMMA Inside ==
  ASSUME NEW p, IsBody(p), NEW k \in 1 .. Len(p), NEW i \in 1 .. N(p, k),
         NEW l \in Around(p, A(p, k, i)), IsLoop(p[l]), NEW nth \in {1, 2}
  PROVE  \/ k = l /\ A(p, k, i) # l
         \/ k \in l + 1 .. End(p, l) - 1
         \/ k = End(p, l) /\ i <= LatchAt(p, l) + nth
<1> DEFINE a == A(p, k, i)
<1>1. a \in 1 .. Len(p) /\ a \in 1 .. Len(p) + 1 /\ k \in 1 .. Len(p) + 1 /\ Len(p) \in Nat
  <2>1. a \in 1 .. Len(p)
    BY PlaceAtIs
  <2>2. Len(p) \in Nat
    BY BodyIs
  <2> HIDE DEF a
  <2> QED BY <2>1, <2>2
<1>2. l \in 1 .. Len(p) /\ l < a /\ p[l].op \in Opens /\ End(p, l) \in 1 .. Len(p)
  BY <1>1, AroundUp, EndIs
<1>3. LatchAt(p, l) \in Nat /\ LatchAt(p, l) >= 2
  <2>1. Q(p, l) \in {0, 1, 5} /\ F(p, l) \in {0, 2}
    BY <1>2, LoopIs
  <2> QED BY <2>1 DEF LatchAt
<1>4. CASE Here(p, k, i)
  <2>1. a = k /\ l \in Around(p, k) /\ l < k /\ k <= End(p, l)
    BY <1>1, <1>2, <1>4, AroundUp DEF Here
  <2>2. CASE k = End(p, l)
    <3>1. p[k].of = l /\ Closing(p, k)
      BY <1>2, <2>2, LoopIs
    <3>2. i <= LatchAt(p, l)
      BY <1>4, <3>1 DEF Here
    <3> QED BY <1>3, <2>2, <3>2
  <2> QED BY <1>2, <2>1, <2>2
<1>5. CASE AtReload(p, k, i)
  <2>1. a = k + 1
    BY <1>5, PlaceAtIs
  <2>2. p[k].op \in {"for", "filter"}
    BY <1>5 DEF AtReload
  <2>3. l = k \/ l \in Around(p, k)
    BY <2>1, <2>2, AroundIs DEF Opens, Closes
  <2>4. CASE l = k
    BY <2>1, <2>4
  <2>5. CASE l \in Around(p, k)
    <3>1. l < k /\ k <= End(p, l)
      BY <1>1, <2>5, AroundUp
    <3>2. k # End(p, l)
      BY <1>2, <2>2, EndIs DEF Closes
    <3> QED BY <1>2, <3>1, <3>2
  <2> QED BY <2>3, <2>4, <2>5
<1>6. CASE Behind(p, k, i) \/ AtStop(p, k, i)
  <2> DEFINE m == p[k].of
  <2>1. k = End(p, m) /\ m \in 1 .. Len(p) /\ p[m].op \in Opens /\ l \in Around(p, m)
    <3>1. CASE Behind(p, k, i)
      BY <1>1, <3>1, PlaceAtIs, ClosingOf DEF Behind
    <3>2. CASE AtStop(p, k, i)
      <4>1. p[k].op = "yield" /\ a = k + 1
        BY <3>2, PlaceAtIs DEF AtStop, Deciding
      <4>2. k = End(p, m) /\ m \in 1 .. Len(p) /\ p[m].op \in Opens
        BY <4>1, YieldIs DEF Each, Opens
      <4> QED BY <4>1, <4>2, AfterEnd
    <3> QED BY <1>6, <3>1, <3>2
  <2>2. l \in Around(p, k) /\ m \in Around(p, k) /\ l < m /\ m < k
    <3>1. Around(p, k) = Around(p, m) \cup {m}
      BY <2>1, AfterEnd
    <3>2. l < m
      BY <1>1, <2>1, AroundUp
    <3>3. m < k
      BY <2>1, EndIs
    <3> QED BY <2>1, <3>1, <3>2, <3>3
  <2>3. End(p, m) < End(p, l)
    BY <1>1, <2>2, Nested
  <2> QED BY <1>1, <1>2, <2>1, <2>2, <2>3
<1> QED BY <1>4, <1>5, <1>6, Spots

LEMMA TakenIs ==
  ASSUME LoopInv, ~ Done, NEW l \in Going(prog, pc), prog[l].op = "for", NEW nth \in {1, 2}
  PROVE  Taken(l, nth) <=> (l # PlaceAt(prog, pc) \/ TakenAt(prog, pc, nth))
<1> DEFINE k == pc[1]
           i == pc[2]
           a == A(prog, k, i)
<1>1. /\ IsBody(prog) /\ pc = <<k, i>> /\ k \in 1 .. Len(prog) /\ i \in 1 .. N(prog, k)
  BY NowIs
<1> HIDE DEF k, i
<1>2. PlaceAt(prog, pc) = a /\ a \in 1 .. Len(prog) /\ Place = a
  BY <1>1, PlaceAtIs, PlaceIsAt
<1>3. l \in 1 .. Len(prog) /\ IsLoop(prog[l])
  <2>1. l \in Around(prog, a) \/ l = a
    BY <1>2 DEF Going, Surround
  <2> QED BY <1>1, <1>2, <2>1, AroundOf DEF IsLoop
<1>4. Close(prog, l) = End(prog, l) /\ Numbered("latch", End(prog, l)) = LatchAt(prog, l)
      /\ l < End(prog, l)
  <2>1. prog[l].op \in Opens /\ prog[l].op # "gather"
    BY <1>3 DEF IsLoop, Opens
  <2> QED BY <1>1, <1>3, <2>1, CloseIs, EndIs, NumberedIs
<1>5. Taken(l, nth) <=> \/ k = l /\ a # l
                        \/ k \in l + 1 .. End(prog, l) - 1
                        \/ k = End(prog, l) /\ i <= LatchAt(prog, l) + nth
  BY <1>1, <1>2, <1>4 DEF Taken
<1>6. CASE l # a
  <2>1. l \in Around(prog, a)
    BY <1>2, <1>6 DEF Going, Surround
  <2> QED BY <1>1, <1>2, <1>3, <1>5, <1>6, <2>1, Inside
<1>7. CASE l = a
  <2>1. Entered(prog, pc)
    <3>1. l \notin Around(prog, a)
      BY <1>1, <1>2, <1>7, AroundOf
    <3> QED BY <1>2, <1>7, <3>1 DEF Going, Surround
  <2>2. CASE k = a
    <3>1. ~ TakenAt(prog, pc, nth)
      BY <1>1, <1>2, <2>2 DEF TakenAt
    <3> QED BY <1>2, <1>3, <1>4, <1>5, <1>7, <2>2, <3>1
  <2>3. CASE k # a
    <3>1. Behind(prog, k, i)
      BY <1>1, <1>2, <1>7, <2>3, Spots, PlaceAtIs DEF Here
    <3>2. k = End(prog, l)
      BY <1>1, <1>2, <1>7, <3>1, PlaceAtIs
    <3>3. TakenAt(prog, pc, nth) <=> i <= LatchAt(prog, l) + nth
      BY <1>1, <1>2, <1>7, <2>3 DEF TakenAt
    <3> QED BY <1>1, <1>2, <1>3, <1>4, <1>5, <1>7, <2>3, <3>2, <3>3
  <2> QED BY <2>2, <2>3
<1> QED BY <1>6, <1>7

LEMMA OneIs == ASSUME NEW a PROVE <<a>> = [m \in {1} |-> a]
<1>1. <<a>> = [m \in 1 .. 1 |-> a]
  OBVIOUS
<1>2. 1 .. 1 = {1}
  OBVIOUS
<1> QED BY <1>1, <1>2

LEMMA TwoAre == ASSUME NEW a, NEW b PROVE <<a, b>> = [m \in {1, 2} |-> IF m = 1 THEN a ELSE b]
<1>1. <<a, b>> = [m \in 1 .. 2 |-> IF m = 1 THEN a ELSE b]
  OBVIOUS
<1>2. 1 .. 2 = {1, 2}
  OBVIOUS
<1> QED BY <1>1, <1>2

LEMMA UnderGather ==
  ASSUME LoopInv, NEW l \in 1 .. Len(prog), prog[l].op = "gather"
  PROVE  Under(l) = GatherIn(prog, l, env, heap)
<1>1. code[l] = TokenCode(prog, l) /\ IsBody(prog)
  BY InvIs
<1>2. Single(prog[l])
  BY DEF Single
<1>3. TokenCode(prog, l)[1].do = Start(prog, l)
  <2>1. TokenCode(prog, l)[1].do = Only(prog, l)
    BY <1>2, SingleIs
  <2>2. Only(prog, l) = Start(prog, l)
    BY DEF Only
  <2> QED BY <2>1, <2>2
<1>4. prog[l].how \in {"sum", "any", "all", "list"}
  BY <1>1, AccKinds
<1>5. Start(prog, l).x = Acc(prog, l)
  BY <1>4 DEF Start, Let
<1>6. code[l][1].do.x = Acc(prog, l)
  BY <1>1, <1>3, <1>5
<1> QED BY <1>6 DEF Under, GatherIn

LEMMA UnderLoop ==
  ASSUME LoopInv, ~ Done, NEW l \in Going(prog, pc), l \in 1 .. Len(prog), prog[l].op = "for"
  PROVE  LET other == l # PlaceAt(prog, pc)
         IN  Under(l) = LoopIn(prog, l, other \/ TakenAt(prog, pc, 1), other \/ TakenAt(prog, pc, 2), env, heap)
<1> DEFINE other == l # PlaceAt(prog, pc)
           first == other \/ TakenAt(prog, pc, 1)
           second == other \/ TakenAt(prog, pc, 2)
           c == Cond(prog, l)
<1>1. code[l] = TokenCode(prog, l) /\ IsBody(prog)
  BY InvIs
<1>2. code[l][Numbered("while", l)].do.c = c
  <2>1. IsLoop(prog[l])
    BY DEF IsLoop
  <2>2. Numbered("while", l) = W(prog, l) /\ D(prog, l, W(prog, l)) = While(c, LoopId(l))
    BY <1>1, <2>1, NumberedIs, LoopIs DEF AtWhile
  <2> QED BY <1>1, <2>2 DEF D, While
<1>3. /\ Taken(l, 1) <=> first
      /\ Taken(l, 2) <=> second
  BY TakenIs
<1>4. /\ prog[l].how = "zip" => DOMAIN prog[l].its = {1, 2} /\ Indexed(prog, l) /\ ~ Ranged(prog, l)
      /\ prog[l].how # "zip" => DOMAIN prog[l].its = {1}
      /\ Ranged(prog, l) <=> ~ Indexed(prog, l)
  <2>1. prog[l].how = "zip" => prog[l].its[1].k = "list"
    BY <1>1, ForIs
  <2> QED BY <1>1, <2>1, WalkIs DEF Indexed, Ranged
<1> HIDE DEF first, second, other
<1>5. \A d : Ranged(prog, l) /\ d.a.x = Over(prog[l]) /\ d.b = prog[l].its[1].stop =>
         Walk(l, d) = WalkIn(prog, l, 1, first, env, heap)
  <2> SUFFICES ASSUME NEW d, Ranged(prog, l), d.a.x = Over(prog[l]), d.b = prog[l].its[1].stop
               PROVE  Walk(l, d) = WalkIn(prog, l, 1, first, env, heap)
    OBVIOUS
  <2>1. (IF Taken(l, 1) THEN prog[l].its[1].step ELSE 0) = (IF first THEN prog[l].its[1].step ELSE 0)
    BY <1>3
  <2> QED BY <1>4, <2>1 DEF Walk, WalkIn, Ranged, Value
<1>6. \A d, m : Indexed(prog, l) /\ d.a.x = IndexOf(prog, l) /\ d.b.x = Holder(prog, l, m) =>
         Walk(l, d) = WalkIn(prog, l, m, first, env, heap)
  <2> SUFFICES ASSUME NEW d, NEW m, Indexed(prog, l), d.a.x = IndexOf(prog, l), d.b.x = Holder(prog, l, m)
               PROVE  Walk(l, d) = WalkIn(prog, l, m, first, env, heap)
    OBVIOUS
  <2>1. (IF Taken(l, 1) THEN 1 ELSE 0) = (IF first THEN 1 ELSE 0)
    BY <1>3
  <2> QED BY <1>4, <2>1 DEF Walk, WalkIn, Ranged
<1>7. (IF prog[l].how = "zip" THEN <<Walk(l, c.a), Walk(l, c.b)>> ELSE <<Walk(l, c)>>)
        = [m \in DOMAIN prog[l].its |-> WalkIn(prog, l, m, first, env, heap)]
  <2>1. CASE prog[l].how = "zip"
    <3>1. /\ c.a.a.x = IndexOf(prog, l) /\ c.a.b.x = Holder(prog, l, 1)
          /\ c.b.a.x = IndexOf(prog, l) /\ c.b.b.x = Holder(prog, l, 2)
      BY <2>1 DEF Cond, Both, Less, Var, Len_, Holder
    <3>2. /\ Walk(l, c.a) = WalkIn(prog, l, 1, first, env, heap)
          /\ Walk(l, c.b) = WalkIn(prog, l, 2, first, env, heap)
      BY <1>4, <1>6, <2>1, <3>1
    <3>3. <<Walk(l, c.a), Walk(l, c.b)>> = [m \in {1, 2} |-> IF m = 1 THEN Walk(l, c.a) ELSE Walk(l, c.b)]
      BY TwoAre
    <3>4. \A m \in {1, 2} : (IF m = 1 THEN Walk(l, c.a) ELSE Walk(l, c.b)) = WalkIn(prog, l, m, first, env, heap)
      BY <3>2
    <3> QED BY ONLY <1>4, <2>1, <3>3, <3>4
  <2>2. CASE prog[l].how # "zip"
    <3>1. Walk(l, c) = WalkIn(prog, l, 1, first, env, heap)
      <4>1. CASE Ranged(prog, l)
        <5>1. c.a.x = Over(prog[l]) /\ c.b = prog[l].its[1].stop
          BY <2>2, <4>1 DEF Cond, Less, Var
        <5> QED BY <1>5, <4>1, <5>1
      <4>2. CASE ~ Ranged(prog, l)
        <5>1. c.a.x = IndexOf(prog, l) /\ c.b.x = Holder(prog, l, 1)
          BY <2>2, <4>2 DEF Cond, Less, Var, Len_, Holder
        <5> QED BY <1>4, <1>6, <4>2, <5>1
      <4> QED BY <4>1, <4>2
    <3>2. <<Walk(l, c)>> = [m \in {1} |-> Walk(l, c)]
      BY OneIs
    <3> QED BY <1>4, <2>2, <3>1, <3>2
  <2> QED BY <2>1, <2>2
<1>8. (IF Taken(l, 2) THEN 1 ELSE 0) = (IF second THEN 1 ELSE 0)
  BY <1>3
<1>9. Under(l) = LoopIn(prog, l, first, second, env, heap)
  <2>1. prog[l].op # "gather"
    OBVIOUS
  <2>2. Under(l) = [of |-> IF prog[l].how = "zip" THEN <<Walk(l, c.a), Walk(l, c.b)>> ELSE <<Walk(l, c)>>,
                    n  |-> IF prog[l].how = "enumerate"
                           THEN env[prog[l].t[1]] + (IF Taken(l, 2) THEN 1 ELSE 0) ELSE prog[l].start]
    BY <1>2, <2>1 DEF Under
  <2> HIDE DEF c
  <2> QED BY <1>7, <1>8, <2>2 DEF LoopIn
<1> QED BY <1>9 DEF first, second, other

(* What is compared with Python is a function of the place and the slots.   *)
LEMMA MappedIs == LoopInv => Mapped
<1> SUFFICES ASSUME LoopInv PROVE Mapped
  OBVIOUS
<1> DEFINE a == PlaceAt(prog, pc)
<1>1. Place = a /\ IsBody(prog) /\ Len(prog) \in Nat
  BY PlaceIsAt, InvIs
<1>2. Done => a = Len(prog) + 1 /\ Around(prog, a) = {} /\ Going(prog, pc) = {}
              /\ Bound(prog, a) = DOMAIN Env0
  <2> SUFFICES ASSUME Done PROVE a = Len(prog) + 1 /\ Around(prog, a) = {} /\ Going(prog, pc) = {}
                                 /\ Bound(prog, a) = DOMAIN Env0
    OBVIOUS
  <2>1. a = Len(prog) + 1
    BY InvIs DEF PlaceAt, Done
  <2>2. Around(prog, a) = {}
    BY <1>1, <2>1, BodyIs
  <2>3. ~ Entered(prog, pc)
    BY <1>1, <2>1 DEF Entered
  <2> QED BY <2>1, <2>2, <2>3 DEF Going, Surround, Bound
<1>3. ~ Done => a \in 1 .. Len(prog) /\ pc[1] \in 1 .. Len(prog)
  BY NowIs, PlaceAtIs
<1>4. Shown = ShownIn(prog, a, env)
  <2>1. CASE Done
    BY <1>2, <2>1 DEF Shown, ShownIn
  <2>2. CASE ~ Done
    BY <1>1, <2>2 DEF Shown, ShownIn, Bound
  <2> QED BY <2>1, <2>2
<1>5. UnderWay = Going(prog, pc)
  <2>1. CASE Done
    BY <1>2, <2>1 DEF UnderWay
  <2>2. CASE ~ Done
    <3>1. Entered(prog, pc) <=> prog[a].op = "for" /\ (pc[1] = a => pc[2] >= Numbered("while", a))
      <4>1. prog[a].op = "for" => Numbered("while", a) = W(prog, a)
        BY <1>3, <2>2, NumberedIs DEF IsLoop
      <4> QED BY <1>3, <2>2, <4>1 DEF Entered
    <3> QED BY <1>1, <2>2, <3>1 DEF UnderWay, Going, Surround
  <2> QED BY <2>1, <2>2
<1>6. \A l \in Going(prog, pc) :
        Under(l) = UnderIn(prog, l, l # a \/ TakenAt(prog, pc, 1), l # a \/ TakenAt(prog, pc, 2), env, heap)
  <2> SUFFICES ASSUME NEW l \in Going(prog, pc)
               PROVE  Under(l) = UnderIn(prog, l, l # a \/ TakenAt(prog, pc, 1),
                                         l # a \/ TakenAt(prog, pc, 2), env, heap)
    OBVIOUS
  <2>1. ~ Done
    BY <1>2
  <2>2. l \in 1 .. Len(prog) /\ prog[l].op \in {"for", "gather"}
    <3>1. CASE l \in Surround(prog, a)
      <4>1. a \in 1 .. Len(prog) + 1
        BY <1>1, <1>3, <2>1
      <4> QED BY <1>1, <3>1, <4>1, AroundOf DEF Surround
    <3>2. CASE l = a /\ Entered(prog, pc)
      BY <1>3, <2>1, <3>2 DEF Entered
    <3> QED BY <3>1, <3>2 DEF Going
  <2>3. CASE prog[l].op = "gather"
    BY <2>2, <2>3, UnderGather DEF UnderIn
  <2>4. CASE prog[l].op = "for"
    BY <2>1, <2>2, <2>4, UnderLoop DEF UnderIn
  <2> QED BY <2>2, <2>3, <2>4
<1>7. Iterators = ItersAt(prog, pc, env, heap)
  <2> HIDE DEF a
  <2> QED BY <1>5, <1>6 DEF Iterators, ItersAt, ItersIn, Going, a
<1> QED BY <1>1, <1>4, <1>7 DEF Mapped

-----------------------------------------------------------------------------
(* The scope: helpers numbered by its size are apart where it grows. *)

(* A token's scope, from those of the tokens before it.                     *)
ScopeStep(p, q, k) ==
  LET t == p[k]
  IN  CASE t.op = "let"    -> q[k - 1] \cup {t.x}
        [] t.op = "for"    -> q[k - 1] \cup Names(p, k)
        [] t.op = "yield"  -> q[p[t.of].of - 1]
        [] t.op = "result" -> q[t.of - 1] \cup {t.x}
        [] t.op = "end" /\ p[t.of].op = "for" /\ p[t.of].how = "generator" -> q[t.of - 1]
        [] OTHER           -> q[k - 1]

LEMMA OpenedIs ==
  ASSUME NEW p, IsBody(p), NEW k \in 1 .. Len(p), p[k].op \in Closes
  PROVE  /\ p[k].of \in 1 .. k - 1 /\ p[p[k].of].op \in Opens /\ k = End(p, p[k].of)
         /\ Innermost(p[k].of, Around(p, k)) /\ Around(p, k + 1) = Around(p, p[k].of)
         /\ p[k].op = "yield" =>
              LET l == p[k].of
                  g == p[l].of
              IN  /\ Each(p[l]) /\ g \in 1 .. l - 1 /\ p[g].op = "gather"
                  /\ Around(p, l) = Around(p, g) \cup {g}
<1> DEFINE o == p[k].of
<1>1. Innermost(o, Around(p, k)) /\ k \in 1 .. Len(p) + 1
  BY ClosesIs, BodyIs DEF Belongs
<1>2. o \in 1 .. Len(p) /\ p[o].op \in Opens /\ o \in Around(p, k)
  BY <1>1, InnermostIs DEF Innermost
<1>3. k = End(p, o) /\ o < k
  BY <1>1, <1>2, EndIs, AroundUp
<1>4. Around(p, k + 1) = Around(p, o)
  BY <1>2, <1>3, AfterEnd
<1>5. ASSUME p[k].op = "yield"
      PROVE  LET g == p[o].of
             IN  Each(p[o]) /\ g \in 1 .. o - 1 /\ p[g].op = "gather" /\ Around(p, o) = Around(p, g) \cup {g}
  <2>1. Each(p[o]) /\ p[p[o].of].op = "gather" /\ Innermost(p[o].of, Around(p, o))
    BY <1>5, YieldIs
  <2>2. o \in 1 .. Len(p) + 1
    BY <1>2, BodyIs
  <2>3. p[o].of \in 1 .. Len(p) /\ p[o].of < o
    BY <2>1, <2>2, AroundUp DEF Innermost
  <2> QED BY <1>2, <2>1, <2>2, <2>3, InnermostIs
<1> QED BY <1>1, <1>2, <1>3, <1>4, <1>5

LEMMA ScopeAgrees ==
  ASSUME NEW p, IsBody(p), NEW k \in 1 .. Len(p), NEW q, NEW r,
         \A j \in 0 .. k - 1 : q[j] = r[j]
  PROVE  ScopeStep(p, q, k) = ScopeStep(p, r, k)
<1> DEFINE t == p[k]
<1>1. k - 1 \in 0 .. k - 1 /\ q[k - 1] = r[k - 1]
  OBVIOUS
<1>2. CASE t.op = "yield"
  <2>1. p[t.of].of - 1 \in 0 .. k - 1
    BY <1>2, OpenedIs DEF Closes
  <2>2. q[p[t.of].of - 1] = r[p[t.of].of - 1]
    BY <2>1
  <2> QED BY <1>2, <2>2 DEF ScopeStep
<1>3. CASE t.op = "result"
  <2>1. t.of - 1 \in 0 .. k - 1
    BY <1>3, OpenedIs DEF Closes
  <2>2. q[t.of - 1] = r[t.of - 1]
    BY <2>1
  <2> QED BY <1>3, <2>2 DEF ScopeStep
<1>4. CASE t.op = "end"
  <2>1. t.of - 1 \in 0 .. k - 1
    BY <1>4, OpenedIs DEF Closes
  <2>2. q[t.of - 1] = r[t.of - 1]
    BY <2>1
  <2> QED BY <1>1, <1>4, <2>2 DEF ScopeStep
<1>5. CASE t.op \notin {"yield", "result", "end"}
  BY <1>1, <1>5 DEF ScopeStep
<1> QED BY <1>2, <1>3, <1>4, <1>5

LEMMA ScopeIs ==
  ASSUME NEW p, IsBody(p)
  PROVE  /\ Scope(p)[0] = DOMAIN Env0
         /\ \A k \in 1 .. Len(p) : Scope(p)[k] = ScopeStep(p, Scope(p), k)
<1> DEFINE n         == Len(p)
           Rec(q)    == [k \in 0 .. n |-> IF k = 0 THEN DOMAIN Env0 ELSE ScopeStep(p, q, k)]
           sol       == CHOOSE q : q = Rec(q)
           Sol(q, m) == /\ DOMAIN q = 0 .. n
                        /\ q = [k \in 0 .. n |-> q[k]]
                        /\ q[0] = DOMAIN Env0
                        /\ \A k \in 1 .. m : q[k] = ScopeStep(p, q, k)
           T         == {m \in Nat : m <= n => \E q : Sol(q, m)}
<1>1. Scope(p) = sol
  BY DEF Scope, ScopeStep
<1>n. n \in Nat
  BY BodyIs
<1>a. \A k \in 1 .. n : \A q, r : (\A j \in 0 .. k - 1 : q[j] = r[j]) => ScopeStep(p, q, k) = ScopeStep(p, r, k)
  BY ScopeAgrees
<1> HIDE DEF n
<1>2. 0 \in T
  <2>1. Sol([k \in 0 .. n |-> DOMAIN Env0], 0)
    BY <1>n
  <2> QED BY <2>1
<1>3. ASSUME NEW m \in Nat, m \in T PROVE m + 1 \in T
  <2> SUFFICES ASSUME m + 1 <= n PROVE \E q : Sol(q, m + 1)
    OBVIOUS
  <2>1. PICK q : Sol(q, m)
    BY <1>3, <1>n
  <2> DEFINE v == ScopeStep(p, q, m + 1)
             r == [k \in 0 .. n |-> IF k = m + 1 THEN v ELSE q[k]]
  <2> HIDE DEF v
  <2>2. r[0] = DOMAIN Env0
    BY <1>n, <2>1
  <2>3. ASSUME NEW k \in 1 .. m + 1 PROVE r[k] = ScopeStep(p, r, k)
    <3>1. k \in 1 .. n /\ \A j \in 0 .. k - 1 : j # m + 1 /\ j \in 0 .. n
      BY <1>n
    <3>2. \A j \in 0 .. k - 1 : r[j] = q[j]
      BY <3>1
    <3>3. ScopeStep(p, r, k) = ScopeStep(p, q, k)
      <4> HIDE DEF r
      <4> QED BY <1>a, <3>1, <3>2
    <3>4. CASE k = m + 1
      <4>1. r[k] = v
        BY <1>n, <3>1, <3>4
      <4> QED BY <3>3, <3>4, <4>1 DEF v
    <3>5. CASE k # m + 1
      <4>1. k \in 1 .. m /\ r[k] = q[k]
        BY <1>n, <3>1, <3>5
      <4> HIDE DEF r
      <4> QED BY <2>1, <3>3, <4>1
    <3> QED BY <3>4, <3>5
  <2>4. Sol(r, m + 1)
    BY <2>2, <2>3
  <2> QED BY <2>4
<1>4. \E q : Sol(q, n)
  <2>1. Nat \subseteq T
    <3> HIDE DEF T
    <3> QED BY <1>2, <1>3, UpTo
  <2>2. n <= n
    BY <1>n
  <2>3. n \in T
    <3> HIDE DEF T
    <3> QED BY <1>n, <2>1
  <2>4. n <= n => \E q : Sol(q, n)
    <3> HIDE DEF Sol
    <3> QED BY ONLY <2>3
  <2> HIDE DEF Sol
  <2> QED BY ONLY <2>2, <2>4
<1>5. \E q : q = Rec(q)
  <2>1. PICK q : Sol(q, n)
    BY <1>4
  <2> DEFINE S(k) == IF k = 0 THEN DOMAIN Env0 ELSE ScopeStep(p, q, k)
  <2>2. \A k \in 0 .. n : q[k] = S(k)
    <3> SUFFICES ASSUME NEW k \in 0 .. n PROVE q[k] = S(k)
      OBVIOUS
    <3>1. CASE k = 0
      BY <2>1, <3>1
    <3>2. CASE k # 0
      <4>1. k \in 1 .. n
        BY <1>n, <3>2
      <4> QED BY <2>1, <3>2, <4>1
    <3> QED BY <3>1, <3>2
  <2>3. q = [k \in 0 .. n |-> S(k)]
    <3> HIDE DEF S
    <3> QED BY <2>1, <2>2
  <2> QED BY <2>3
<1>6. sol = Rec(sol)
  <2> HIDE DEF Rec
  <2> QED BY <1>5
<1> HIDE DEF sol
<1>7. sol[0] = DOMAIN Env0
  BY <1>6, <1>n
<1>8. ASSUME NEW k \in 1 .. n PROVE sol[k] = ScopeStep(p, sol, k)
  <2>1. k \in 0 .. n /\ k # 0
    BY <1>n
  <2> DEFINE S(j) == IF j = 0 THEN DOMAIN Env0 ELSE ScopeStep(p, sol, j)
  <2>2. sol = [j \in 0 .. n |-> S(j)]
    BY <1>6
  <2>3. sol[k] = S(k)
    <3> HIDE DEF S
    <3> QED BY <2>1, <2>2
  <2> QED BY <2>1, <2>3
<1> QED BY <1>1, <1>7, <1>8 DEF n

LEMMA Finite ==
  /\ \A S, x : IsFiniteSet(S) => IsFiniteSet(S \cup {x})
  /\ \A x : IsFiniteSet({x})
  /\ \A x, y : IsFiniteSet({x, y})
<1>1. \A S, x : IsFiniteSet(S) => IsFiniteSet(S \cup {x})
  BY FS_AddElement
<1>2. \A x : IsFiniteSet({x})
  BY FS_Singleton
<1>3. \A x, y : {x, y} = {x} \cup {y}
  OBVIOUS
<1>4. ASSUME NEW x, NEW y PROVE IsFiniteSet({x, y})
  <2>1. IsFiniteSet({x} \cup {y})
    BY <1>1, <1>2
  <2> QED BY <1>3, <2>1
<1> QED BY <1>1, <1>2, <1>4

(* A scope is finite, and what is in scope after a construct is opened is   *)
(* in scope throughout it.                                                  *)
Kept(p, j) ==
  /\ IsFiniteSet(Scope(p)[j - 1])
  /\ \A l \in Around(p, j) : Scope(p)[l] \subseteq Scope(p)[j - 1]

LEMMA ScopeTokens ==
  ASSUME NEW p, IsBody(p), NEW k \in 1 .. Len(p)
  PROVE  LET s == Scope(p)[k]
             b == Scope(p)[k - 1]
             t == p[k]
         IN  /\ t.op = "let" => s = b \cup {t.x}
             /\ t.op = "for" => s = b \cup Names(p, k)
             /\ t.op = "gather" => s = b
             /\ t.op = "yield" => s = Scope(p)[p[t.of].of - 1]
             /\ t.op = "result" => s = Scope(p)[t.of - 1] \cup {t.x}
             /\ t.op \in Opens \ {"for"} => s = b
             /\ t.op = "end" => s = b \/ s = Scope(p)[t.of - 1]
             /\ t.op \notin {"let", "for"} \cup Closes => s = b
<1>1. Scope(p)[k] = ScopeStep(p, Scope(p), k)
  BY ScopeIs
<1> QED BY <1>1 DEF ScopeStep, Opens, Closes

LEMMA ScopeKept ==
  ASSUME NEW p, IsBody(p), NEW k \in 1 .. Len(p) + 1
  PROVE  Kept(p, k)
<1> DEFINE n == Len(p)
           S == {m \in Nat : \A j \in 1 .. n + 1 : j <= m + 1 => Kept(p, j)}
           sc(j) == Scope(p)[j]
<1>1. n \in Nat
  BY BodyIs
<1>2. 0 \in S
  <2>1. \A j \in 1 .. n + 1 : j <= 0 + 1 => j = 1
    BY <1>1
  <2>2. Scope(p)[1 - 1] = DOMAIN Env0
    <3>1. 1 - 1 = 0
      OBVIOUS
    <3> QED BY <3>1, ScopeIs
  <2>3. Around(p, 1) = {}
    BY AroundIs
  <2> QED BY <2>1, <2>2, <2>3, ProgramsAssumption DEF Kept
<1>3. ASSUME NEW m \in Nat, m \in S PROVE m + 1 \in S
  <2> SUFFICES ASSUME m + 2 \in 1 .. n + 1 PROVE Kept(p, m + 2)
    <3>1. \A j \in 1 .. n + 1 : j <= m + 2 => j <= m + 1 \/ j = m + 2
      BY <1>1
    <3>2. m + 1 + 1 = m + 2
      OBVIOUS
    <3> HIDE DEF n
    <3> QED BY <1>3, <3>1, <3>2
  <2> DEFINE c == m + 1
             t == p[c]
  <2>1. c \in 1 .. n /\ c \in 1 .. n + 1 /\ m + 2 = c + 1 /\ m + 2 - 1 = c
    BY <1>1
  <2>2. \A j \in 1 .. c : Kept(p, j)
    <3> HIDE DEF n
    <3>1. \A j \in 1 .. c : j \in 1 .. n + 1 /\ j <= m + 1
      BY <1>1, <2>1
    <3> QED BY <1>3, <3>1
  <2>3. IsFiniteSet(sc(c - 1)) /\ \A l \in Around(p, c) : sc(l) \subseteq sc(c - 1)
    <3>1. Kept(p, c)
      BY <2>1, <2>2
    <3> QED BY <3>1 DEF Kept
  <2> HIDE DEF n, c
  <2>4. CASE sc(c - 1) \subseteq sc(c) /\ IsFiniteSet(sc(c)) /\ t.op \notin Closes
    <3>1. Around(p, c + 1) \subseteq Around(p, c) \cup {c}
      BY <2>1, <2>4, AroundIs DEF n
    <3> QED BY <2>1, <2>3, <2>4, <3>1 DEF Kept
  <2>5. CASE t.op = "let"
    <3>1. sc(c) = sc(c - 1) \cup {t.x}
      BY <2>1, <2>5, ScopeTokens DEF n
    <3>2. IsFiniteSet(sc(c))
      <4> DEFINE before == sc(c - 1)
      <4>1. IsFiniteSet(before) /\ sc(c) = before \cup {t.x}
        BY <2>3, <3>1
      <4> HIDE DEF before
      <4> QED BY <4>1, FS_AddElement
    <3> QED BY <2>4, <2>5, <3>1, <3>2 DEF Closes
  <2>6. CASE t.op = "for"
    <3>1. sc(c) = sc(c - 1) \cup Names(p, c)
      BY <2>1, <2>6, ScopeTokens DEF n
    <3>2. IsFiniteSet(Names(p, c))
      <4>1. IsFiniteSet(Targets(p, c))
        <5>1. \/ Targets(p, c) = {t.t[1], t.t[2]}
              \/ Targets(p, c) = {t.t[1]}
          BY <2>1, <2>6, ForIs DEF n
        <5> QED BY <5>1, Finite
      <4>2. \A T : IsFiniteSet(T) => IsFiniteSet(T \cup {ForList(p, c), ForIndex(p, c)})
        <5>1. \A T : T \cup {ForList(p, c), ForIndex(p, c)} = (T \cup {ForList(p, c)}) \cup {ForIndex(p, c)}
          OBVIOUS
        <5> QED BY <5>1, Finite
      <4>3. Names(p, c) \in {Targets(p, c), Targets(p, c) \cup {ForList(p, c), ForIndex(p, c)}}
        BY DEF Names
      <4> QED BY <4>1, <4>2, <4>3
    <3>3. IsFiniteSet(sc(c))
      BY <2>3, <3>1, <3>2, FS_Union
    <3> QED BY <2>4, <2>6, <3>1, <3>3 DEF Closes
  <2>7. CASE t.op \in Closes
    <3> DEFINE o == t.of
    <3>1. /\ o \in 1 .. c - 1 /\ p[o].op \in Opens /\ Around(p, c + 1) = Around(p, o)
          /\ Innermost(o, Around(p, c)) /\ o \in Around(p, c)
          /\ p[c].op = "yield" => LET g == p[o].of
                                  IN  g \in 1 .. o - 1 /\ p[g].op = "gather" /\ Around(p, o) = Around(p, g) \cup {g}
      BY <2>1, <2>7, OpenedIs DEF n, Innermost
    <3>2. IsFiniteSet(sc(o - 1)) /\ \A l \in Around(p, o) : sc(l) \subseteq sc(o - 1)
      <4>1. o \in 1 .. c
        BY <2>1, <3>1
      <4>2. Kept(p, o)
        BY <2>2, <4>1
      <4> QED BY <4>2 DEF Kept
    <3>3. CASE t.op = "yield"
      <4> DEFINE g == p[o].of
      <4>1. sc(c) = sc(g - 1)
        BY <2>1, <3>3, ScopeTokens DEF n
      <4>2. g \in 1 .. c /\ g \in 1 .. n
        <5>1. g \in 1 .. o - 1 /\ o \in 1 .. c - 1
          BY <3>1, <3>3
        <5>2. c \in 1 .. n /\ n \in Nat
          BY <1>1, <2>1
        <5> HIDE DEF g, o
        <5> QED BY <5>1, <5>2
      <4>3. Kept(p, g)
        BY <2>2, <4>2
      <4>4. sc(g) = sc(g - 1)
        BY <4>2, <3>1, <3>3, ScopeTokens DEF n
      <4>5. Around(p, c + 1) = Around(p, g) \cup {g}
        BY <3>1, <3>3
      <4> QED BY <2>1, <4>1, <4>3, <4>4, <4>5 DEF Kept
    <3>4. CASE t.op = "result"
      <4>1. sc(c) = sc(o - 1) \cup {t.x}
        BY <2>1, <3>4, ScopeTokens DEF n
      <4>2. IsFiniteSet(sc(c))
        <5>1. IsFiniteSet(sc(o - 1))
          BY <3>2
        <5> QED BY <4>1, <5>1, Finite
      <4>3. \A l \in Around(p, c + 1) : sc(l) \subseteq sc(c)
        BY <3>1, <3>2, <4>1
      <4> QED BY <2>1, <4>2, <4>3 DEF Kept
    <3>5. CASE t.op = "end"
      <4>1. sc(c) = sc(c - 1) \/ sc(c) = sc(o - 1)
        BY <2>1, <3>5, ScopeTokens DEF n
      <4>2. Around(p, c + 1) \subseteq Around(p, c)
        BY <2>1, <2>7, AroundIs DEF n, Closes, Opens
      <4> QED BY <2>1, <2>3, <3>1, <3>2, <4>1, <4>2 DEF Kept
    <3> QED BY <2>7, <3>3, <3>4, <3>5 DEF Closes
  <2>8. CASE t.op \notin {"let", "for"} \cup Closes
    <3>1. sc(c) = sc(c - 1)
      BY <2>1, <2>8, ScopeTokens DEF n
    <3> QED BY <2>3, <2>4, <2>8, <3>1
  <2> QED BY <2>5, <2>6, <2>7, <2>8
<1>4. Nat \subseteq S
  <2> HIDE DEF S
  <2> QED BY <1>2, <1>3, UpTo
<1>5. Kept(p, k)
  <2>1. k - 1 \in Nat /\ k <= k - 1 + 1
    BY <1>1
  <2>2. k - 1 \in S
    BY <1>4, <2>1
  <2> QED BY <2>1, <2>2 DEF n
<1> QED BY <1>5

LEMMA Smaller ==
  ASSUME NEW S, NEW T, IsFiniteSet(S), T \subseteq S, T # S
  PROVE  Cardinality(T) # Cardinality(S)
BY FS_Subset

(* The scope grows from loop to loop, and so does the depth.                *)
LEMMA ScopesGrow ==
  ASSUME NEW p, IsBody(p), NEW k \in 1 .. Len(p) + 1, NEW l \in Around(p, k),
         p[l].op = "for", ScopeGrows(p, l), p[l].how # "plain"
  PROVE  /\ IsFiniteSet(Scope(p)[k - 1]) /\ Scope(p)[l - 1] \subseteq Scope(p)[k - 1]
         /\ Scope(p)[l - 1] # Scope(p)[k - 1]
<1>1. l \in 1 .. Len(p)
  BY AroundUp
<1>2. Scope(p)[l] = Scope(p)[l - 1] \cup Names(p, l)
  BY <1>1, ScopeTokens
<1>3. IsFiniteSet(Scope(p)[k - 1]) /\ Scope(p)[l] \subseteq Scope(p)[k - 1]
  BY ScopeKept DEF Kept
<1> QED BY <1>2, <1>3 DEF ScopeGrows, Names

LEMMA GatherScope ==
  ASSUME NEW p, IsBody(p), NEW k \in 1 .. Len(p) + 1, NEW g \in Around(p, k), p[g].op = "gather"
  PROVE  Scope(p)[g - 1] \subseteq Scope(p)[k - 1]
<1>1. g \in 1 .. Len(p)
  BY AroundUp
<1>2. Scope(p)[g] = Scope(p)[g - 1]
  BY <1>1, ScopeTokens
<1> QED BY <1>2, ScopeKept DEF Kept

LEMMA UniqsDiffer ==
  ASSUME NEW p, IsBody(p), NEW k \in 1 .. Len(p), p[k].op = "for", NEW l \in Around(p, k),
         p[l].op = "for", ScopeGrows(p, l), p[l].how # "plain"
  PROVE  Uniq(p, l) # Uniq(p, k)
<1> DEFINE In(j) == IF Each(p[j]) THEN p[j].of ELSE j
           sc(j) == Scope(p)[j - 1]
<1>1. k \in 1 .. Len(p) + 1 /\ l \in 1 .. Len(p) /\ l < k
  BY BodyIs, AroundUp
<1>2. sc(In(l)) \subseteq sc(l)
  <2>1. CASE Each(p[l])
    <3>1. l \in 1 .. Len(p) + 1
      BY <1>1
    <3>2. p[l].of \in Around(p, l) /\ p[p[l].of].op = "gather"
      BY <1>1, <2>1, EachIs
    <3> QED BY <2>1, <3>1, <3>2, GatherScope
  <2>2. CASE ~ Each(p[l])
    BY <2>2
  <2> QED BY <2>1, <2>2
<1>3. l \in Around(p, In(k)) /\ In(k) \in 1 .. Len(p) + 1
  <2>1. CASE Each(p[k])
    <3> DEFINE g == p[k].of
    <3>1. Innermost(g, Around(p, k)) /\ g \in 1 .. Len(p) /\ p[g].op = "gather"
      BY <2>1, EachIs
    <3>2. Around(p, k) = Around(p, g) \cup {g} /\ l # g
      BY <1>1, <3>1, InnermostIs
    <3> QED BY <2>1, <3>1, <3>2, BodyIs
  <2>2. CASE ~ Each(p[k])
    BY <1>1, <2>2
  <2> QED BY <2>1, <2>2
<1>4. IsFiniteSet(sc(In(k))) /\ sc(l) \subseteq sc(In(k)) /\ sc(l) # sc(In(k))
  BY <1>3, ScopesGrow
<1>5. Cardinality(sc(In(l))) # Cardinality(sc(In(k)))
  BY <1>2, <1>4, Smaller
<1> QED BY <1>5 DEF Uniq

LEMMA DepthsDiffer ==
  ASSUME NEW p, IsBody(p), NEW k \in 1 .. Len(p), NEW l \in Around(p, k), p[l].op = "for"
  PROVE  Depth(p, l) # Depth(p, k)
<1> DEFINE loops(j) == {i \in Around(p, j) : IsLoop(p[i])}
<1>1. k \in 1 .. Len(p) + 1 /\ Len(p) \in Nat
  BY BodyIs
<1>2. Around(p, l) \subseteq Around(p, k) /\ l \notin Around(p, l)
  BY <1>1, AroundUp
<1>3. IsFiniteSet(loops(k))
  <2>1. IsFiniteSet(1 .. Len(p))
    BY <1>1, FS_Interval
  <2>2. loops(k) \subseteq 1 .. Len(p)
    BY <1>1, AroundOf
  <2> QED BY <2>1, <2>2, FS_Subset
<1>4. loops(l) \subseteq loops(k) /\ loops(l) # loops(k)
  BY <1>2 DEF IsLoop
<1> QED BY <1>3, <1>4, Smaller DEF Depth

LEMMA AccsDiffer ==
  ASSUME NEW p, IsBody(p), Follows(p), NEW k \in 1 .. Len(p), p[k].op = "gather",
         NEW g \in Around(p, k), p[g].op = "gather"
  PROVE  Acc(p, g) # Acc(p, k)
<1>1. k \in 1 .. Len(p) + 1 /\ DOMAIN p = 1 .. Len(p)
  BY BodyIs
<1>2. CASE \A l \in Around(p, k) : Each(p[l]) => l < g
  <2>1. SourceApart(p, k)
    BY <1>1 DEF Follows
  <2> QED BY <1>2, <2>1 DEF SourceApart
<1>3. CASE \E l \in Around(p, k) : Each(p[l]) /\ ~ (l < g)
  <2>1. PICK l \in Around(p, k) : Each(p[l]) /\ ~ (l < g)
    BY <1>3
  <2>2. l \in 1 .. Len(p) /\ l \in 1 .. Len(p) + 1 /\ p[l].op = "for" /\ p[l].how = "each"
    BY <1>1, <2>1, AroundUp, BodyIs DEF Each
  <2>3. ScopeGrows(p, l)
    BY <1>1, <2>2 DEF Follows
  <2>4. g \in Around(p, l)
    <3>1. g \in 1 .. Len(p) /\ Len(p) \in Nat /\ g # l
      BY <1>1, <2>2, AroundUp, BodyIs
    <3>2. g < l
      BY <2>1, <2>2, <3>1
    <3> QED BY <1>1, <2>1, <3>2, Nested
  <2>5. Scope(p)[g - 1] \subseteq Scope(p)[l - 1]
    BY <2>2, <2>4, GatherScope
  <2>6. /\ IsFiniteSet(Scope(p)[k - 1]) /\ Scope(p)[l - 1] \subseteq Scope(p)[k - 1]
        /\ Scope(p)[l - 1] # Scope(p)[k - 1]
    BY <1>1, <2>2, <2>3, ScopesGrow
  <2>7. Cardinality(Scope(p)[g - 1]) # Cardinality(Scope(p)[k - 1])
    BY <2>5, <2>6, Smaller
  <2>8. Uniq(p, g) # Uniq(p, k)
    BY <2>7 DEF Uniq, Each
  <2> QED BY <2>8 DEF Acc
<1> QED BY <1>2, <1>3

-----------------------------------------------------------------------------
(* What loops and gatherings under way read. *)

ReadsOf(p, l) ==
  IF p[l].op = "gather" THEN {Acc(p, l)}
  ELSE (IF Indexed(p, l) THEN {IndexOf(p, l)} \cup {Holder(p, l, m) : m \in DOMAIN p[l].its}
        ELSE {Over(p[l])} \cup NumberReads(p[l].its[1].stop))
         \cup (IF p[l].how = "enumerate" THEN {p[l].t[1]} ELSE {})

(* The names of the program, and those of loops and of gatherings.          *)
Named(x)      == x[1] \notin Helpers
LoopHelpers   == {"__forlst", "__compr_lst", "__zip_l0", "__zip_l1"} \cup IndexHelpers
GatherHelpers == {"__compr_acc", "__sum_acc", "__bool_acc", "%sum", "%list"}

LEMMA NameKinds ==
  ASSUME NEW p, IsBody(p), NEW k \in 1 .. Len(p) + 1
  PROVE  /\ \A x \in Bound(p, k) : Named(x) /\ x[1] \in DOMAIN Types
         /\ \A l \in 1 .. Len(p) : p[l].op = "for" =>
              /\ \A x \in Targets(p, l) : Named(x) /\ x[1] \in DOMAIN Types /\ Kind(x) = "int"
              /\ IndexOf(p, l)[1] \in LoopHelpers
              /\ \A m \in DOMAIN p[l].its : Holder(p, l, m)[1] \in LoopHelpers
         /\ \A l \in 1 .. Len(p) : p[l].op = "gather" =>
              Acc(p, l)[1] \in GatherHelpers /\ Old(p, l)[1] \in GatherHelpers
         /\ \A x : x[1] \in LoopHelpers => ~ Named(x) /\ x[1] \notin GatherHelpers
         /\ \A x : x[1] \in GatherHelpers => ~ Named(x)
<1>1. \A x : x[1] \in DOMAIN Types => Named(x)
  BY ProgramsAssumption DEF Named
<1>2. \A l \in 1 .. Len(p) : p[l].op = "for" => \A x \in Targets(p, l) : x[1] \in DOMAIN Types /\ Kind(x) = "int"
  BY ForIs
<1>3. \A x \in Bound(p, k) : x[1] \in DOMAIN Types
  <2>1. \A l \in Around(p, k) : \A x \in Targets(p, l) : x[1] \in DOMAIN Types
    <3> TAKE l \in Around(p, k)
    <3>1. l \in 1 .. Len(p)
      BY AroundOf
    <3> QED BY <1>2, <3>1 DEF Targets
  <2> QED BY <2>1, ProgramsAssumption DEF Bound
<1>4. ASSUME NEW l \in 1 .. Len(p), p[l].op = "for"
      PROVE  /\ IndexOf(p, l)[1] \in LoopHelpers
             /\ \A m \in DOMAIN p[l].its : Holder(p, l, m)[1] \in LoopHelpers
  BY DEF IndexOf, ForIndex, Holder, ListOf, ForList, Zip0, Zip1, LoopHelpers, IndexHelpers
<1>5. ASSUME NEW l \in 1 .. Len(p), p[l].op = "gather"
      PROVE  Acc(p, l)[1] \in GatherHelpers /\ Old(p, l)[1] \in GatherHelpers
  BY DEF Acc, Old, GatherHelpers
<1>6. /\ \A x : x[1] \in LoopHelpers => ~ Named(x) /\ x[1] \notin GatherHelpers
      /\ \A x : x[1] \in GatherHelpers => ~ Named(x)
  BY DEF LoopHelpers, GatherHelpers, Named, Helpers, ListHelpers, IndexHelpers, SumHelpers, BoolHelpers
<1> QED BY <1>1, <1>2, <1>3, <1>4, <1>5, <1>6

(* A loop's own helpers are not those of a loop around it.                  *)
LEMMA HelpersApart ==
  ASSUME NEW p, IsBody(p), Follows(p), NEW k \in 1 .. Len(p), p[k].op = "for",
         NEW l \in Around(p, k), p[l].op = "for"
  PROVE  /\ IndexOf(p, l) # IndexOf(p, k)
         /\ \A m \in DOMAIN p[l].its, n \in DOMAIN p[k].its : Holder(p, l, m) # Holder(p, k, n)
         /\ \A m \in DOMAIN p[l].its : Holder(p, l, m) # IndexOf(p, k)
         /\ \A n \in DOMAIN p[k].its : Holder(p, k, n) # IndexOf(p, l)
<1>1. l \in 1 .. Len(p) /\ DOMAIN p = 1 .. Len(p)
  BY AroundUp, BodyIs
<1>2. p[l].how # "plain" => Uniq(p, l) # Uniq(p, k)
  <2>1. ScopeGrows(p, l)
    BY <1>1 DEF Follows
  <2> QED BY <2>1, UniqsDiffer
<1>3. Depth(p, l) # Depth(p, k)
  BY DepthsDiffer
<1>4. IndexOf(p, l) # IndexOf(p, k)
  BY <1>2, <1>3 DEF IndexOf, ForIndex
<1>5. /\ ListOf(p, l) # ListOf(p, k)
      /\ p[l].how = "zip" => Zip0(p, l) # Zip0(p, k) /\ Zip1(p, l) # Zip1(p, k)
  BY <1>2, <1>3 DEF ListOf, ForList, Zip0, Zip1
<1>6. \A i, j \in {k, l} :
        /\ Zip0(p, i) # Zip1(p, j) /\ Zip0(p, i) # ListOf(p, j) /\ Zip1(p, i) # ListOf(p, j)
        /\ IndexOf(p, i) \notin {Zip0(p, j), Zip1(p, j), ListOf(p, j)}
  <2>1. \A i \in {k, l} : /\ Zip0(p, i)[1] = "__zip_l0" /\ Zip1(p, i)[1] = "__zip_l1"
                          /\ ListOf(p, i)[1] \in {"__forlst", "__compr_lst"}
                          /\ IndexOf(p, i)[1] \in {"__foridx", "__zip_i", "__compr_idx"}
    BY DEF Zip0, Zip1, ListOf, ForList, IndexOf, ForIndex
  <2> QED BY <2>1
<1> HIDE DEF Zip0, Zip1, ListOf, IndexOf
<1>7. \A m \in DOMAIN p[l].its, n \in DOMAIN p[k].its : Holder(p, l, m) # Holder(p, k, n)
  BY <1>5, <1>6 DEF Holder
<1> QED BY <1>4, <1>6, <1>7 DEF Holder

-----------------------------------------------------------------------------
(* What an instruction stores to, and who reads it. *)

(* The names the instructions of a loop, but those of a reload, assign.     *)
OfLoop(p, l) ==
  Targets(p, l) \cup (IF Indexed(p, l) THEN {IndexOf(p, l)} \cup {Holder(p, l, m) : m \in DOMAIN p[l].its}
                      ELSE {})

Settles(p, k, i) == AtGain(p, k, i) \/ AtKnown(p, k, i)
Steps(p, k, i)   == AtBump(p, k, i) \/ AtCountUp(p, k, i)

Stores(p, k, i, x) ==
  \/ AtSingle(p, k, i) /\ p[k].op \in {"let", "result"} /\ x = p[k].x /\ x \in DOMAIN Env0
  \/ AtSingle(p, k, i) /\ p[k].op = "gather" /\ x = Acc(p, k)
  \/ p[k].op = "for" /\ A(p, k, i) = k /\ i # W(p, k) /\ i <= H(p, k) /\ x \in OfLoop(p, k)
     /\ (i > W(p, k) => Indexed(p, k) /\ x \in Targets(p, k))
     /\ (i > W(p, k) /\ p[k].how = "enumerate" => x # p[k].t[1])
  \/ AtReload(p, k, i) /\ \E g \in 1 .. Len(p) : Grows(p, g) /\ p[g].op = "gather" /\ x = Old(p, g)
                                             /\ g = (IF p[k].op = "for" THEN p[k].of ELSE Whole(p, k))
  \/ Settles(p, k, i) /\ x = Acc(p, Whole(p, k))
  \/ Steps(p, k, i) /\ x \in OfLoop(p, p[k].of)

LEMMA LetStores ==
  \A x, e, y : y \in Stored(Let(x, e)) => y = x
BY DEF Stored, Let

LEMMA HeadStores ==
  ASSUME NEW p, IsBody(p), Follows(p), NEW k \in 1 .. Len(p), NEW i \in 1 .. N(p, k), OfHead(p, k, i),
         NEW x \in Stored(D(p, k, i))
  PROVE  Stores(p, k, i, x)
<1>0. IsLoop(p[k]) \/ AtReload(p, k, i)
  BY DEF OfHead, AtWhile, AtCount, AtCounter, AtIndex, AtList, AtLoad, IsLoop, Indexed
<1>1. ~ AtWhile(p, k, i)
  BY DEF AtWhile, While, Stored
<1>2. CASE AtReload(p, k, i)
  <2> DEFINE g == IF p[k].op = "for" THEN p[k].of ELSE Whole(p, k)
  <2>1. D(p, k, i) = Let(Old(p, g), Var(Acc(p, g))) /\ p[k].op \in {"for", "filter"} /\ Reloads(p, k)
    BY <1>2 DEF AtReload, Whole
  <2>2. g \in 1 .. Len(p) /\ p[g].op = "gather" /\ Grows(p, g)
    <3>1. CASE p[k].op = "for"
      BY <2>1, <3>1, EachIs DEF Reloads
    <3>2. CASE p[k].op = "filter"
      <4>1. p[k].of \in 1 .. Len(p) /\ Each(p[p[k].of]) /\ Grows(p, p[p[k].of].of)
        BY <2>1, <3>2, FilterIs DEF Reloads
      <4> QED BY <3>2, <4>1, EachIs DEF Whole
    <3> QED BY <2>1, <3>1, <3>2
  <2>3. x = Old(p, g)
    BY <2>1, LetStores
  <2> QED BY <1>2, <2>2, <2>3 DEF Stores
<1>3. CASE ~ AtReload(p, k, i)
  <2>1. p[k].op = "for"
    BY <1>1, <1>3 DEF OfHead, AtCount, AtCounter, AtIndex, AtList, AtLoad, Indexed
  <2>2. /\ Over(p[k]) \in Targets(p, k) /\ (p[k].how = "enumerate" => p[k].t[1] \in Targets(p, k))
        /\ p[k].how = "zip" => p[k].t[1] \in Targets(p, k) /\ p[k].t[2] \in Targets(p, k)
    BY <2>1, ForIs
  <2>3. W(p, k) \in 2 .. 4 /\ H(p, k) \in Nat /\ i \in Nat /\ W(p, k) <= H(p, k)
        /\ (Indexed(p, k) => H(p, k) = W(p, k) + Len(p[k].its))
        /\ DOMAIN p[k].its = 1 .. Len(p[k].its) /\ Len(p[k].its) \in {1, 2}
    <3>1. W(p, k) \in 2 .. 4 /\ H(p, k) \in 2 .. 6 /\ (p[k].how = "zip" => DOMAIN p[k].its = {1, 2})
          /\ (p[k].how # "zip" => DOMAIN p[k].its = {1}) /\ Len(p[k].its) = IF p[k].how = "zip" THEN 2 ELSE 1
      BY <2>1, WalkIs
    <3>2. (Indexed(p, k) => H(p, k) = W(p, k) + Len(p[k].its)) /\ (~ Indexed(p, k) => H(p, k) = W(p, k))
      BY <2>1, WalkIs
    <3> QED BY <3>1, <3>2
  <2>4. CASE AtCount(p, k, i)
    <3>1. x = p[k].t[1] /\ A(p, k, i) = k /\ i < W(p, k) /\ p[k].how = "enumerate"
      BY <2>4, LetStores DEF AtCount
    <3> QED BY <2>1, <2>2, <2>3, <3>1 DEF Stores, OfLoop
  <2>5. CASE AtCounter(p, k, i)
    <3>1. x = Over(p[k]) /\ A(p, k, i) = k /\ i = W(p, k) - 1
      BY <2>5, LetStores DEF AtCounter
    <3> QED BY <2>1, <2>2, <2>3, <3>1 DEF Stores, OfLoop
  <2>6. CASE AtIndex(p, k, i)
    <3>1. x = IndexOf(p, k) /\ A(p, k, i) = k /\ i = W(p, k) - 1 /\ Indexed(p, k)
      BY <2>6, LetStores DEF AtIndex
    <3> QED BY <2>1, <2>3, <3>1 DEF Stores, OfLoop
  <2>7. ASSUME NEW n \in {1, 2}, AtList(p, k, i, n) PROVE Stores(p, k, i, x)
    <3>1. x = Holder(p, k, n) /\ A(p, k, i) = k /\ i < W(p, k) /\ Indexed(p, k) /\ n \in DOMAIN p[k].its
      BY <2>7, LetStores DEF AtList
    <3> QED BY <2>1, <2>3, <3>1 DEF Stores, OfLoop
  <2>8. ASSUME NEW n \in {1, 2}, AtLoad(p, k, i, n) PROVE Stores(p, k, i, x)
    <3>1. /\ A(p, k, i) = k /\ i = W(p, k) + n /\ Indexed(p, k) /\ n \in DOMAIN p[k].its
          /\ x = IF p[k].how = "zip" THEN p[k].t[n] ELSE Over(p[k])
      BY <2>8 DEF AtLoad, Load, Stored
    <3>2. x \in Targets(p, k)
      BY <2>2, <3>1
    <3>3. p[k].how = "enumerate" => x # p[k].t[1]
      <4>1. k \in DOMAIN p
        BY BodyIs
      <4> QED BY <2>1, <3>1, <4>1 DEF Follows, TargetsApart, Over
    <3> QED BY <2>1, <2>3, <3>1, <3>2, <3>3 DEF Stores, OfLoop
  <2> QED BY <1>1, <1>3, <2>4, <2>5, <2>6, <2>7, <2>8 DEF OfHead
<1> QED BY <1>2, <1>3

LEMMA StoresIs ==
  ASSUME NEW p, IsBody(p), Follows(p), NEW k \in 1 .. Len(p), NEW i \in 1 .. N(p, k),
         NEW x \in Stored(D(p, k, i))
  PROVE  Stores(p, k, i, x)
<1>1. CASE AtSingle(p, k, i)
  <2>1. D(p, k, i) = Only(p, k)
    BY <1>1 DEF AtSingle
  <2>2. p[k].op \in {"let", "append", "if", "else", "gather", "result", "break", "continue", "return"}
    BY <1>1, SingleOps DEF AtSingle
  <2>3. Typed(p, k)
    BY BodyIs
  <2>4. CASE p[k].op = "let"
    <3>1. Only(p, k) = Let(p[k].x, p[k].e)
      BY <2>4 DEF Only
    <3>2. x = p[k].x /\ p[k].x \in DOMAIN Env0
      BY <2>1, <2>3, <2>4, <3>1, LetStores DEF Typed
    <3> QED BY <1>1, <2>4, <3>2 DEF Stores
  <2>5. CASE p[k].op = "result"
    <3>1. Only(p, k) = Let(p[k].x, Var(Acc(p, p[k].of)))
      BY <2>5 DEF Only
    <3>2. x = p[k].x /\ p[k].x \in DOMAIN Env0
      BY <2>1, <2>3, <2>5, <3>1, LetStores DEF Typed
    <3> QED BY <1>1, <2>5, <3>2 DEF Stores
  <2>6. CASE p[k].op = "gather"
    <3>1. Only(p, k) = Start(p, k)
      BY <2>6 DEF Only
    <3>2. x = Acc(p, k)
      BY <2>1, <2>3, <2>6, <3>1 DEF Start, Stored, Let, Typed
    <3> QED BY <1>1, <2>6, <3>2 DEF Stores
  <2>7. CASE p[k].op \in {"append", "if", "else", "break", "continue", "return"}
    <3>1. Stored(Only(p, k)) = {}
      BY <2>7 DEF Only, Stored, If, Mark
    <3> QED BY <2>1, <3>1
  <2> QED BY <2>2, <2>4, <2>5, <2>6, <2>7
<1>2. ~ AtFilter(p, k, i) /\ ~ AtJoin(p, k, i)
  BY DEF AtFilter, AtJoin, Stored, If, Mark
<1>3. CASE OfHead(p, k, i)
  BY <1>3, HeadStores
<1>4. CASE OfGain(p, k, i)
  <2>1. CASE AtGain(p, k, i)
    BY <2>1 DEF AtGain, Gained, Stored, Stores, Settles
  <2>2. CASE AtKnown(p, k, i)
    <3>1. x = Acc(p, Whole(p, k))
      BY <2>2, LetStores DEF AtKnown
    <3> QED BY <2>2, <3>1 DEF Stores, Settles
  <2> QED BY <1>4, <2>1, <2>2 DEF OfGain, AtTest, AtStop, AtOther, AtSettled, Stored, If, Mark, Stop
<1>5. CASE OfTurn(p, k, i)
  <2>0. Closing(p, k)
    BY <1>5 DEF OfTurn, AtSkipped, AtKept, AtNext, AtLatch, AtBump, AtCountUp, AtEnd, Turn
  <2> DEFINE l == p[k].of
  <2>1. l \in 1 .. Len(p) /\ IsLoop(p[l])
    BY <2>0, ClosingOf
  <2>2. CASE AtBump(p, k, i)
    <3>1. x = Counter(p, l) /\ p[l].op = "for"
      BY <2>2, LetStores DEF AtBump, Turn, Bump
    <3>2. Counter(p, l) \in OfLoop(p, l)
      BY <2>1, <3>1, ForIs DEF Counter, OfLoop, Indexed
    <3> QED BY <2>2, <3>1, <3>2 DEF Stores, Steps
  <2>3. CASE AtCountUp(p, k, i)
    <3>1. x = p[l].t[1] /\ p[l].op = "for" /\ p[l].how = "enumerate"
      BY <2>3, LetStores DEF AtCountUp, Turn, Bump
    <3>2. p[l].t[1] \in OfLoop(p, l)
      BY <2>1, <3>1, ForIs DEF OfLoop
    <3> QED BY <2>3, <3>1, <3>2 DEF Stores, Steps
  <2>4. ASSUME NEW n, NEW op, NEW id, Turn(p, k, i, n, Mark(op, id)),
               op \in {"else", "fi", "next", "latch", "end"}
        PROVE FALSE
    BY <2>4 DEF Turn, Mark, Stored
  <2> QED BY <1>5, <2>2, <2>3, <2>4 DEF OfTurn, AtSkipped, AtKept, AtNext, AtLatch, AtEnd
<1> QED BY <1>1, <1>2, <1>3, <1>4, <1>5, PlaceIs

LEMMA BoundUp ==
  ASSUME NEW p, IsBody(p), NEW k \in 1 .. Len(p) + 1, NEW l \in Around(p, k)
  PROVE  /\ l \in 1 .. Len(p) /\ l < k
         /\ Bound(p, l) \subseteq Bound(p, k) /\ Targets(p, l) \subseteq Bound(p, k)
BY AroundUp DEF Bound

(* A turn's names are not read by the loops and gatherings around it.       *)
LEMMA TurnApart ==
  ASSUME NEW p, IsBody(p), Follows(p), NEW k \in 1 .. Len(p), p[k].op = "for", NEW x \in OfLoop(p, k)
  PROVE  /\ x \notin Bound(p, k)
         /\ \A l \in Surround(p, k) : x \notin ReadsOf(p, l)
<1>0. k \in 1 .. Len(p) + 1 /\ DOMAIN p = 1 .. Len(p)
  BY BodyIs
<1>1. Targets(p, k) \cap Bound(p, k) = {}
  BY <1>0 DEF Follows, TargetsApart
<1>2. x \notin Bound(p, k)
  BY <1>0, <1>1, NameKinds DEF OfLoop
<1>3. ASSUME NEW l \in Surround(p, k) PROVE x \notin ReadsOf(p, l)
  <2>1. l \in Around(p, k) /\ p[l].op \in {"for", "gather"} /\ l \in 1 .. Len(p)
    BY <1>0, <1>3, AroundOf DEF Surround
  <2>2. CASE p[l].op = "gather"
    <3>1. Acc(p, l)[1] \in GatherHelpers /\ ~ Named(Acc(p, l))
      BY <1>0, <2>1, <2>2, NameKinds
    <3>2. x # Acc(p, l)
      BY <1>0, <3>1, NameKinds DEF OfLoop
    <3> QED BY <2>2, <3>2 DEF ReadsOf
  <2>3. CASE p[l].op = "for"
    <3>1. Targets(p, l) \subseteq Bound(p, k) /\ Bound(p, l) \subseteq Bound(p, k)
      BY <1>0, <2>1, BoundUp
    <3>2. Over(p[l]) \in Targets(p, l) /\ (p[l].how = "enumerate" => p[l].t[1] \in Targets(p, l))
      BY <2>1, <2>3, ForIs
    <3>3. ~ Ranged(p, l) \/ p[l].how = "zip" \/ NumberReads(p[l].its[1].stop) \subseteq Bound(p, l)
      <4>1. Uses(p[l]) \subseteq Bound(p, l)
        BY <2>1, BodyIs
      <4>2. p[l].its[1] \in ToSet(p[l].its)
        <5>1. 1 \in DOMAIN p[l].its
          BY <2>1, <2>3, ForIs
        <5> QED BY <5>1 DEF ToSet
      <4> QED BY <2>3, <4>1, <4>2 DEF Uses, Ranged
    <3>4. Indexed(p, l) => x # IndexOf(p, l) /\ \A m \in DOMAIN p[l].its : x # Holder(p, l, m)
      <4>1. /\ \A y \in Targets(p, k) : Named(y)
            /\ ~ Named(IndexOf(p, l)) /\ \A m \in DOMAIN p[l].its : ~ Named(Holder(p, l, m))
        BY <1>0, <2>1, <2>3, NameKinds
      <4> QED BY <2>1, <2>3, <4>1, HelpersApart DEF OfLoop
    <3> QED BY <1>2, <2>3, <3>1, <3>2, <3>3, <3>4 DEF ReadsOf, Indexed
  <2> QED BY <2>1, <2>2, <2>3
<1> QED BY <1>2, <1>3

(* An assignment's name is not read by the loops around it, nor is an       *)
(* accumulator but by its own gathering.                                    *)
LEMMA LetApart ==
  ASSUME NEW p, IsBody(p), Follows(p), NEW k \in 1 .. Len(p), p[k].op \in {"let", "result"},
         p[k].x \in DOMAIN Env0, NEW l \in Surround(p, k)
  PROVE  p[k].x \notin ReadsOf(p, l)
<1> DEFINE x == p[k].x
<1>0. k \in 1 .. Len(p) + 1 /\ DOMAIN p = 1 .. Len(p)
  BY BodyIs
<1>1. l \in Around(p, k) /\ p[l].op \in {"for", "gather"} /\ l \in 1 .. Len(p) /\ p[l].op \in Opens
      /\ l < k /\ k <= End(p, l)
  BY <1>0, AroundUp DEF Surround
<1>2. Named(x) /\ x \in Bound(p, l)
  <2>1. x \in Bound(p, k) /\ x \in Bound(p, l)
    BY DEF Bound
  <2> QED BY <1>0, <2>1, NameKinds
<1>3. CASE p[l].op = "gather"
  BY <1>0, <1>1, <1>2, <1>3, NameKinds DEF ReadsOf
<1>4. CASE p[l].op = "for"
  <2>1. x \notin Targets(p, l)
    BY <1>0, <1>1, <1>2, <1>4 DEF Follows, TargetsApart
  <2>2. Over(p[l]) \in Targets(p, l) /\ (p[l].how = "enumerate" => p[l].t[1] \in Targets(p, l))
    BY <1>1, <1>4, ForIs
  <2>3. ~ Named(IndexOf(p, l)) /\ \A m \in DOMAIN p[l].its : ~ Named(Holder(p, l, m))
    BY <1>0, <1>1, <1>4, NameKinds
  <2>4. Ranged(p, l) => x \notin NumberReads(p[l].its[1].stop)
    <3>1. Close(p, l) = End(p, l)
      BY <1>1, <1>4, CloseIs
    <3>2. Ranged(p, l) => StopStays(p, l)
      BY <1>0, <1>1, <1>4 DEF Follows, Ranged
    <3>3. End(p, l) \in Nat
      BY <1>1, EndIs
    <3>4. k \in l + 1 .. Close(p, l)
      BY <1>1, <3>1, <3>3
    <3> QED BY <3>2, <3>4 DEF StopStays
  <2> QED BY <1>2, <1>4, <2>1, <2>2, <2>3, <2>4 DEF ReadsOf, Indexed
<1> QED BY <1>1, <1>3, <1>4

LEMMA AccApart ==
  ASSUME NEW p, IsBody(p), Follows(p), NEW g \in 1 .. Len(p), p[g].op = "gather",
         NEW l \in 1 .. Len(p), p[l].op \in {"for", "gather"}
  PROVE  /\ p[l].op = "gather" => Old(p, g) \notin ReadsOf(p, l)
         /\ p[l].op = "for" => Old(p, g) \notin ReadsOf(p, l) /\ Acc(p, g) \notin ReadsOf(p, l)
         /\ l \in Around(p, g) => Acc(p, g) \notin ReadsOf(p, l)
         /\ \A k \in 1 .. Len(p) + 1 : Old(p, g) \notin Bound(p, k) /\ Acc(p, g) \notin Bound(p, k)
<1>0. g \in 1 .. Len(p) + 1 /\ l \in 1 .. Len(p) + 1 /\ DOMAIN p = 1 .. Len(p)
  BY BodyIs
<1>1. /\ Acc(p, g)[1] \in GatherHelpers /\ Old(p, g)[1] \in GatherHelpers
      /\ ~ Named(Acc(p, g)) /\ ~ Named(Old(p, g))
  BY <1>0, NameKinds
<1>2. p[l].op = "gather" => Old(p, g) \notin ReadsOf(p, l)
  <2>1. Acc(p, l)[1] \in {"__sum_acc", "__compr_acc", "__bool_acc"} /\ Old(p, g)[1] \in {"%sum", "%list"}
    BY DEF Acc, Old
  <2> QED BY <2>1 DEF ReadsOf
<1>3. p[l].op = "for" => Old(p, g) \notin ReadsOf(p, l) /\ Acc(p, g) \notin ReadsOf(p, l)
  <2> SUFFICES ASSUME p[l].op = "for", NEW x, ~ Named(x), x[1] \in GatherHelpers PROVE x \notin ReadsOf(p, l)
    BY <1>1
  <2>1. Over(p[l]) \in Targets(p, l) /\ (p[l].how = "enumerate" => p[l].t[1] \in Targets(p, l))
    BY ForIs
  <2>2. /\ \A y \in Targets(p, l) : Named(y)
        /\ \A y \in Bound(p, l) : Named(y)
        /\ IndexOf(p, l)[1] \in LoopHelpers /\ \A m \in DOMAIN p[l].its : Holder(p, l, m)[1] \in LoopHelpers
        /\ x[1] \notin LoopHelpers
    BY <1>0, NameKinds
  <2>3. ~ Ranged(p, l) \/ p[l].how = "zip" \/ NumberReads(p[l].its[1].stop) \subseteq Bound(p, l)
    <3>1. Uses(p[l]) \subseteq Bound(p, l)
      BY BodyIs
    <3>2. p[l].its[1] \in ToSet(p[l].its)
      <4>1. 1 \in DOMAIN p[l].its
        BY ForIs
      <4> QED BY <4>1 DEF ToSet
    <3> QED BY <3>1, <3>2 DEF Uses, Ranged
  <2> QED BY <2>1, <2>2, <2>3 DEF ReadsOf, Indexed
<1>4. l \in Around(p, g) => Acc(p, g) \notin ReadsOf(p, l)
  BY <1>3, AccsDiffer DEF ReadsOf
<1>5. \A k \in 1 .. Len(p) + 1 : Old(p, g) \notin Bound(p, k) /\ Acc(p, g) \notin Bound(p, k)
  BY <1>1, NameKinds
<1> QED BY <1>2, <1>3, <1>4, <1>5

(* The loop or gathering an instruction moves on.                           *)
Own(p, k, i, l) ==
  \/ Settles(p, k, i) /\ l = Whole(p, k)
  \/ Steps(p, k, i) /\ l = p[k].of

LEMMA StepsBehind ==
  ASSUME NEW p, IsBody(p), NEW k \in 1 .. Len(p), NEW i \in 1 .. N(p, k), Steps(p, k, i)
  PROVE  Behind(p, k, i) /\ p[k].of \in 1 .. Len(p) /\ p[p[k].of].op = "for" /\ k = End(p, p[k].of)
<1> DEFINE l == p[k].of
<1>1. Closing(p, k) /\ p[l].op = "for"
  BY DEF Steps, AtBump, AtCountUp, Turn
<1>2. l \in 1 .. Len(p) /\ k = End(p, l) /\ IsLoop(p[l])
  BY <1>1, ClosingOf
<1>3. Q(p, l) \in {0, 1, 5} /\ F(p, l) \in {0, 2}
  BY <1>2, LoopIs
<1>4. i >= 2 /\ A(p, k, i) = l
  <2>1. i = Q(p, l) + (F(p, l) + 3) \/ i = Q(p, l) + (F(p, l) + 4)
    BY DEF Steps, AtBump, AtCountUp, Turn
  <2>2. i >= 2 /\ i # 1
    BY <1>3, <2>1
  <2> QED BY <2>2 DEF Steps, AtBump, AtCountUp, Turn
<1> QED BY <1>1, <1>2, <1>4 DEF Behind

LEMMA SettlesIs ==
  ASSUME NEW p, IsBody(p), NEW k \in 1 .. Len(p), NEW i, Settles(p, k, i)
  PROVE  LET l == p[k].of
             g == Whole(p, k)
         IN  /\ p[k].op = "yield" /\ A(p, k, i) = k
             /\ l \in 1 .. Len(p) /\ Each(p[l]) /\ k = End(p, l)
             /\ g \in 1 .. Len(p) /\ p[g].op = "gather" /\ g = p[l].of
             /\ Around(p, l) = Around(p, g) \cup {g} /\ Around(p, k) = Around(p, g) \cup {g, l}
<1>1. p[k].op = "yield" /\ A(p, k, i) = k
  BY DEF Settles, AtGain, AtKnown, Deciding
<1>2. /\ p[k].of \in 1 .. Len(p) /\ Each(p[p[k].of]) /\ k = End(p, p[k].of)
      /\ Whole(p, k) \in 1 .. Len(p) /\ p[Whole(p, k)].op = "gather"
      /\ Innermost(Whole(p, k), Around(p, p[k].of))
  BY <1>1, YieldIs DEF Whole
<1>3. p[p[k].of].op \in Opens
  BY <1>2 DEF Each, Opens
<1>4. Around(p, k) = Around(p, p[k].of) \cup {p[k].of}
  BY <1>2, <1>3, AfterEnd
<1>5. Around(p, p[k].of) = Around(p, Whole(p, k)) \cup {Whole(p, k)}
  <2>1. p[k].of \in 1 .. Len(p) + 1
    BY <1>2, BodyIs
  <2> QED BY <1>2, <2>1, InnermostIs
<1> QED BY <1>1, <1>2, <1>4, <1>5 DEF Whole

(* What is stored is read by no loop and no gathering under way but the one *)
(* that moves on, and is a name of Python's only where Python assigns it.   *)
LEMMA StoreApart ==
  ASSUME NEW p, IsBody(p), Follows(p), NEW k \in 1 .. Len(p), NEW i \in 1 .. N(p, k),
         NEW x \in Stored(D(p, k, i))
  PROVE  /\ \A l \in Going(p, <<k, i>>) : Own(p, k, i, l) \/ x \notin ReadsOf(p, l)
         /\ x \in Bound(p, A(p, k, i)) => AtSingle(p, k, i) /\ p[k].op \in {"let", "result"} /\ x = p[k].x
<1> DEFINE at == <<k, i>>
           goal == /\ \A l \in Going(p, at) : Own(p, k, i, l) \/ x \notin ReadsOf(p, l)
                   /\ x \in Bound(p, A(p, k, i)) =>
                        AtSingle(p, k, i) /\ p[k].op \in {"let", "result"} /\ x = p[k].x
<1>1. Stores(p, k, i, x)
  BY StoresIs
<1>2. PlaceAt(p, at) = A(p, k, i) /\ Len(p) \in Nat /\ k \in 1 .. Len(p) + 1
      /\ A(p, k, i) \in 1 .. Len(p) + 1
  BY PlaceAtIs, BodyIs
<1>3. CASE AtSingle(p, k, i) /\ p[k].op \in {"let", "result"} /\ x = p[k].x /\ x \in DOMAIN Env0
  <2>1. A(p, k, i) = k /\ p[k].op # "for"
    BY <1>3 DEF AtSingle
  <2>2. Going(p, at) = Surround(p, k)
    BY <1>2, <2>1, NotEntered DEF Going
  <2> QED BY <1>3, <2>2, LetApart
<1>4. CASE AtSingle(p, k, i) /\ p[k].op = "gather" /\ x = Acc(p, k)
  <2>1. A(p, k, i) = k /\ p[k].op # "for"
    BY <1>4 DEF AtSingle
  <2>2. Going(p, at) = Surround(p, k)
    BY <1>2, <2>1, NotEntered DEF Going
  <2>3. \A l \in Surround(p, k) : l \in Around(p, k) /\ l \in 1 .. Len(p) /\ p[l].op \in {"for", "gather"}
    BY <1>2, AroundOf DEF Surround
  <2>4. \A l \in Surround(p, k) : x \notin ReadsOf(p, l)
    BY <1>4, <2>3, AccApart
  <2>5. x \notin Bound(p, k)
    BY <1>2, <1>4, AccApart
  <2> QED BY <2>1, <2>2, <2>4, <2>5
<1>5. CASE /\ p[k].op = "for" /\ A(p, k, i) = k /\ i # W(p, k) /\ i <= H(p, k) /\ x \in OfLoop(p, k)
           /\ i > W(p, k) => Indexed(p, k) /\ x \in Targets(p, k)
           /\ i > W(p, k) /\ p[k].how = "enumerate" => x # p[k].t[1]
  <2>1. x \notin Bound(p, k) /\ \A l \in Surround(p, k) : x \notin ReadsOf(p, l)
    BY <1>5, TurnApart
  <2>2. Entered(p, at) => i > W(p, k)
    <3>1. H(p, k) \in Nat /\ W(p, k) \in Nat
      BY <1>5, WalkIs
    <3>2. i \in 1 .. H(p, k)
      BY <1>5, <3>1
    <3>3. Entered(p, at) => i >= W(p, k)
      BY <1>5, <3>2, InHead
    <3> QED BY <1>5, <3>1, <3>3
  <2>3. i > W(p, k) => x \notin ReadsOf(p, k)
    <3>1. /\ \A y \in Targets(p, k) : Named(y)
          /\ ~ Named(IndexOf(p, k)) /\ \A m \in DOMAIN p[k].its : ~ Named(Holder(p, k, m))
      BY <1>2, <1>5, NameKinds
    <3> QED BY <1>5, <3>1 DEF ReadsOf
  <2> QED BY <1>2, <1>5, <2>1, <2>2, <2>3 DEF Going
<1>6. CASE AtReload(p, k, i) /\ \E g \in 1 .. Len(p) : p[g].op = "gather" /\ x = Old(p, g)
  <2>1. Going(p, at) = Surround(p, A(p, k, i))
    BY <1>2, <1>6, NotEntered DEF Going
  <2>2. \A l \in Surround(p, A(p, k, i)) : l \in 1 .. Len(p) /\ p[l].op \in {"for", "gather"}
    BY <1>2, AroundOf DEF Surround
  <2>3. \A l \in Surround(p, A(p, k, i)) : x \notin ReadsOf(p, l)
    BY <1>6, <2>2, AccApart
  <2>4. x \notin Bound(p, A(p, k, i))
    BY <1>2, <1>6, AccApart
  <2> QED BY <2>1, <2>3, <2>4
<1>7. CASE Settles(p, k, i) /\ x = Acc(p, Whole(p, k))
  <2> DEFINE g == Whole(p, k)
  <2>1. /\ p[k].op = "yield" /\ A(p, k, i) = k
        /\ Each(p[p[k].of]) /\ g \in 1 .. Len(p) /\ p[g].op = "gather"
        /\ Around(p, k) = Around(p, g) \cup {g, p[k].of}
    BY <1>7, SettlesIs
  <2>2. Going(p, at) = Surround(p, k)
    BY <1>2, <2>1, NotEntered DEF Going
  <2>3. \A l \in Surround(p, k) : /\ l \in 1 .. Len(p) /\ p[l].op \in {"for", "gather"}
                                  /\ p[l].op = "for" \/ l = g \/ l \in Around(p, g)
    BY <1>2, <2>1, AroundOf DEF Surround, Each
  <2>4. \A l \in Surround(p, k) : l = g \/ x \notin ReadsOf(p, l)
    BY <1>7, <2>1, <2>3, AccApart
  <2>5. x \notin Bound(p, k)
    BY <1>2, <1>7, <2>1, <2>3, AccApart
  <2> QED BY <1>7, <2>1, <2>2, <2>4, <2>5 DEF Own
<1>8. CASE Steps(p, k, i) /\ x \in OfLoop(p, p[k].of)
  <2> DEFINE o == p[k].of
  <2>1. Behind(p, k, i) /\ o \in 1 .. Len(p) /\ p[o].op = "for" /\ A(p, k, i) = o
    BY <1>8, StepsBehind DEF Behind
  <2>2. x \notin Bound(p, o) /\ \A l \in Surround(p, o) : x \notin ReadsOf(p, l)
    BY <1>8, <2>1, TurnApart
  <2> QED BY <1>2, <1>8, <2>1, <2>2 DEF Going, Own
<1> QED BY <1>1, <1>3, <1>4, <1>5, <1>6, <1>7, <1>8 DEF Stores

LEMMA StopBound ==
  ASSUME NEW p, IsBody(p), NEW l \in 1 .. Len(p), p[l].op = "for", ~ Indexed(p, l)
  PROVE  /\ NumberReads(p[l].its[1].stop) \subseteq Bound(p, l)
         /\ NumberReads(p[l].its[1].start) \subseteq Bound(p, l)
<1>1. Uses(p[l]) \subseteq Bound(p, l)
  BY BodyIs
<1>2. p[l].its[1] \in ToSet(p[l].its) /\ p[l].its[1].k = "range"
  <2>1. 1 \in DOMAIN p[l].its
    BY ForIs
  <2> QED BY <2>1 DEF ToSet, Indexed, Ranged
<1> QED BY <1>1, <1>2 DEF Uses

LEMMA AroundReads ==
  ASSUME NEW p, IsBody(p), NEW k \in 1 .. Len(p), NEW i, NEW l \in Around(p, k), p[l].op \in {"for", "gather"}
  PROVE  ReadsOf(p, l) \subseteq Known(p, k, i) /\ Targets(p, l) \subseteq Known(p, k, i)
<1>0. k \in 1 .. Len(p) + 1
  BY BodyIs
<1>1. l \in 1 .. Len(p) /\ Bound(p, l) \subseteq Bound(p, k)
  BY <1>0, BoundUp
<1>2. Made(p, l) \subseteq Known(p, k, i)
  BY AroundKnown
<1>3. Bound(p, k) \subseteq Known(p, k, i)
  <2>1. \A j \in Around(p, k) : Targets(p, j) \subseteq Known(p, k, i)
    <3> TAKE j \in Around(p, k)
    <3>1. Targets(p, j) \subseteq Made(p, j)
      BY DEF Made, Targets
    <3> QED BY <3>1, AroundKnown
  <2> QED BY <2>1 DEF Bound, Known
<1>4. CASE p[l].op = "gather"
  BY <1>2, <1>4 DEF ReadsOf, Made, Targets
<1>5. CASE p[l].op = "for"
  <2>1. Over(p[l]) \in Targets(p, l) /\ (p[l].how = "enumerate" => p[l].t[1] \in Targets(p, l))
    BY <1>1, <1>5, ForIs
  <2>2. ~ Indexed(p, l) => NumberReads(p[l].its[1].stop) \subseteq Known(p, k, i)
    BY <1>1, <1>3, <1>5, StopBound
  <2>3. Targets(p, l) \subseteq Made(p, l)
    BY <1>5 DEF Made
  <2> QED BY <1>2, <1>5, <2>1, <2>2, <2>3 DEF ReadsOf, Made
<1> QED BY <1>4, <1>5

LEMMA BoundKnown ==
  ASSUME NEW p, IsBody(p), NEW k \in 1 .. Len(p), NEW i
  PROVE  Bound(p, k) \subseteq Known(p, k, i)
<1>1. \A j \in Around(p, k) : Targets(p, j) \subseteq Known(p, k, i)
  <2> TAKE j \in Around(p, k)
  <2>1. Targets(p, j) \subseteq Made(p, j)
    BY DEF Made, Targets
  <2> QED BY <2>1, AroundKnown
<1> QED BY <1>1 DEF Bound, Known

LEMMA LoopKnown ==
  ASSUME NEW p, IsBody(p), NEW k \in 1 .. Len(p), p[k].op = "for", NEW i \in 1 .. N(p, k), i >= W(p, k)
  PROVE  ReadsOf(p, k) \subseteq Known(p, k, i)
<1> DEFINE w == W(p, k)
<1>1. w \in 2 .. 4 /\ i \in Nat /\ N(p, k) \in Nat
  BY WalkIs, NIs
<1>2. w \in 1 .. N(p, k) /\ AtWhile(p, k, w)
  <2>1. IsLoop(p[k])
    BY DEF IsLoop
  <2> QED BY <2>1, LoopIs
<1>3. Known(p, k, w) \subseteq Known(p, k, i)
  <2>1. MadeHere(p, k, w) \subseteq MadeHere(p, k, i)
    BY <1>1 DEF MadeHere
  <2>2. MadeByFilter(p, k, w) \subseteq MadeByFilter(p, k, i)
    <3>1. p[k].op \notin Closes
      BY DEF Closes
    <3>2. \A l \in Around(p, k) : k < End(p, l)
      <4> TAKE l \in Around(p, k)
      <4>1. k \in 1 .. Len(p) + 1
        BY BodyIs
      <4>2. l \in 1 .. Len(p) /\ p[l].op \in Opens /\ k <= End(p, l)
        BY <4>1, AroundUp
      <4>3. End(p, l) \in Nat /\ p[End(p, l)].op \in Closes
        BY <4>2, EndIs
      <4> QED BY <3>1, <4>1, <4>2, <4>3
    <3> QED BY <3>2 DEF MadeByFilter, Filtering
  <2> QED BY <2>1, <2>2 DEF Known
<1>4. Reads(Cond(p, k)) \subseteq Known(p, k, w)
  <2>1. Sound(p, k, w)
    BY <1>2, SoundIs
  <2>2. D(p, k, w).op = "while" /\ D(p, k, w).c = Cond(p, k)
    BY <1>2 DEF AtWhile, While
  <2> QED BY <2>1, <2>2 DEF Sound
<1>5. p[k].how = "enumerate" => p[k].t[1] \in Known(p, k, i)
  <2> SUFFICES ASSUME p[k].how = "enumerate" PROVE p[k].t[1] \in Known(p, k, i)
    OBVIOUS
  <2>1. 1 \in 1 .. H(p, k) /\ 1 \in 1 .. i - 1 /\ 1 # w
    <3>1. H(p, k) \in 2 .. 6
      BY WalkIs
    <3> QED BY <1>1, <3>1
  <2>2. TokenCode(p, k)[1].do = ForHead(p, k)[1]
    BY <2>1, ForCodeIs
  <2>3. ForHead(p, k)[1] = Let(p[k].t[1], Num(p[k].start))
    BY HeadIs
  <2>4. D(p, k, 1).x = p[k].t[1]
    BY <2>2, <2>3 DEF D, Let
  <2> QED BY <2>1, <2>4, HereKnown
<1>6. CASE Indexed(p, k)
  <2>1. Kind(IndexOf(p, k)) = "int" /\ Kind(Zip0(p, k)) = "list" /\ Kind(Zip1(p, k)) = "list"
        /\ Kind(ListOf(p, k)) = "list"
    BY HelperKinds, Kinds
  <2>2. DOMAIN p[k].its = 1 .. (IF p[k].how = "zip" THEN 2 ELSE 1)
    BY ForIs
  <2>3. \A m \in DOMAIN p[k].its : {IndexOf(p, k), Holder(p, k, m)} \subseteq Reads(Cond(p, k))
    <3>1. CASE p[k].how = "zip"
      <4>1. Reads(Cond(p, k)) = {IndexOf(p, k), Zip0(p, k), Zip1(p, k)}
        BY <2>1, <3>1, Conditions DEF Cond
      <4> QED BY <3>1, <4>1 DEF Holder
    <3>2. CASE p[k].how # "zip"
      <4>1. Reads(Cond(p, k)) = {IndexOf(p, k), ListOf(p, k)}
        BY <1>6, <2>1, <3>2, Conditions DEF Cond, Indexed
      <4> QED BY <3>2, <4>1 DEF Holder
    <3> QED BY <3>1, <3>2
  <2>4. 1 \in DOMAIN p[k].its
    BY <2>2
  <2> QED BY <1>3, <1>4, <1>5, <1>6, <2>3, <2>4 DEF ReadsOf
<1>7. CASE ~ Indexed(p, k)
  <2>1. Kind(Over(p[k])) = "int" /\ IsNumber(p[k].its[1].stop, "int")
    BY <1>7, ForIs DEF Indexed, IsIterable, Ranged
  <2>2. Cond(p, k) = Less(Var(Over(p[k])), p[k].its[1].stop)
    BY <1>7 DEF Cond, Indexed
  <2>3. Reads(Cond(p, k)) = {Over(p[k])} \cup NumberReads(p[k].its[1].stop)
    BY <2>1, <2>2, Conditions
  <2> QED BY <1>3, <1>4, <1>5, <1>7, <2>3 DEF ReadsOf
<1> QED BY <1>6, <1>7

LEMMA TargetsKnown ==
  ASSUME NEW p, IsBody(p), NEW k \in 1 .. Len(p), p[k].op = "for", NEW i \in 1 .. N(p, k), i > H(p, k)
  PROVE  Targets(p, k) \subseteq Known(p, k, i)
<1> SUFFICES ASSUME NEW x \in Targets(p, k) PROVE x \in Known(p, k, i)
  OBVIOUS
<1>0. H(p, k) \in 2 .. 6 /\ N(p, k) \in Nat /\ k \in 1 .. Len(p) + 1
  BY WalkIs, NIs, BodyIs
<1>1. Reloads(p, k) /\ i = H(p, k) + 1 /\ i = N(p, k)
  BY <1>0, NIs
<1>2. D(p, k, i).x = Old(p, p[k].of)
  <2>1. TokenCode(p, k)[H(p, k) + 1].do = Let(Old(p, p[k].of), Var(Acc(p, p[k].of)))
    BY <1>1, ForCodeIs
  <2>2. D(p, k, i) = Let(Old(p, p[k].of), Var(Acc(p, p[k].of)))
    BY <1>1, <2>1 DEF D
  <2> QED BY <2>2 DEF Let
<1>3. p[k].of \in 1 .. Len(p) /\ p[p[k].of].op = "gather"
  BY <1>1, EachIs DEF Reloads
<1>4. x # Old(p, p[k].of)
  BY <1>0, <1>3, NameKinds
<1>5. x \in Made(p, k)
  BY DEF Made
<1>6. PICK n \in 1 .. N(p, k) : n # W(p, k) /\ D(p, k, n).x = x
  BY <1>5, MadeIs
<1>7. n # i
  BY <1>2, <1>4, <1>6
<1>8. n \in 1 .. i - 1
  BY <1>0, <1>1, <1>7
<1> QED BY <1>6, <1>8, HereKnown

(* What loops, gatherings and Python read has been stored.                  *)
LEMMA ReadsKnown ==
  ASSUME NEW p, IsBody(p), NEW k \in 1 .. Len(p), NEW i \in 1 .. N(p, k)
  PROVE  /\ \A l \in Going(p, <<k, i>>) : ReadsOf(p, l) \subseteq Known(p, k, i)
         /\ Bound(p, A(p, k, i)) \subseteq Known(p, k, i)
<1> DEFINE at == <<k, i>>
           a  == A(p, k, i)
           K  == Known(p, k, i)
           good(l) == ReadsOf(p, l) \subseteq K /\ Targets(p, l) \subseteq K
<1>0. PlaceAt(p, at) = a /\ a \in 1 .. Len(p)
  BY PlaceAtIs
<1>1. \A l \in Surround(p, k) : good(l)
  BY AroundReads DEF Surround
<1>2. (Entered(p, at) => ReadsOf(p, a) \subseteq K) /\ \A l \in Surround(p, a) : good(l)
  <2>1. CASE Here(p, k, i)
    <3>1. a = k
      BY <2>1 DEF Here
    <3>2. Entered(p, at) => p[k].op = "for" /\ i >= W(p, k)
      BY <1>0, <3>1 DEF Entered
    <3> QED BY <1>1, <3>1, <3>2, LoopKnown
  <2>2. CASE Behind(p, k, i)
    <3>1. a = p[k].of /\ k = End(p, a) /\ IsLoop(p[a])
      BY <2>2, PlaceAtIs
    <3>2. Around(p, k) = Around(p, a) \cup {a}
      BY <1>0, <3>1, AfterEnd DEF IsLoop, Opens
    <3>3. Surround(p, a) \subseteq Surround(p, k) /\ (p[a].op = "for" => a \in Surround(p, k))
      BY <3>2 DEF Surround
    <3> QED BY <1>0, <1>1, <3>3 DEF Entered
  <2>3. CASE AtReload(p, k, i)
    <3>1. ~ Entered(p, at)
      BY <2>3, NotEntered
    <3>2. a = k + 1 /\ p[k].op \in {"for", "filter"} /\ Reloads(p, k)
      BY <2>3 DEF AtReload
    <3> DEFINE l == IF p[k].op = "for" THEN k ELSE p[k].of
    <3>3. Around(p, a) = Around(p, l) \cup {l}
      BY <3>2, ElementIs
    <3>4. CASE p[k].op = "filter"
      <4>1. Around(p, k) = Around(p, l) \cup {l}
        BY <3>4, FilterIs
      <4> QED BY <1>1, <3>1, <3>3, <4>1 DEF Surround
    <3>5. CASE p[k].op = "for"
      <4>1. i = H(p, k) + 1 /\ W(p, k) \in Nat /\ H(p, k) \in Nat /\ W(p, k) <= H(p, k)
        <5>1. i = H(p, k) + 1 /\ W(p, k) \in 2 .. 4 /\ H(p, k) \in 2 .. 6
          BY <2>3, <3>5, WalkIs DEF AtReload
        <5>2. W(p, k) <= H(p, k)
          BY <3>5, <5>1, WalkIs, ForIs
        <5> QED BY <5>1, <5>2
      <4>2. i >= W(p, k) /\ i > H(p, k)
        BY <4>1
      <4>3. good(k)
        BY <3>5, <4>2, LoopKnown, TargetsKnown
      <4> QED BY <1>1, <3>1, <3>3, <3>5, <4>3 DEF Surround
    <3> QED BY <3>2, <3>4, <3>5
  <2>4. CASE AtStop(p, k, i)
    <3>1. ~ Entered(p, at)
      BY <2>4, NotEntered
    <3>2. a = k + 1 /\ Deciding(p, k)
      BY <2>4 DEF AtStop
    <3>3. p[k].op = "yield"
      BY <3>2 DEF Deciding
    <3>4. Around(p, a) = Around(p, Whole(p, k)) \cup {Whole(p, k)}
      BY <3>2, <3>3, ResultIs
    <3>5. Around(p, a) \subseteq Around(p, k)
      <4>1. p[k].of \in 1 .. Len(p) /\ Each(p[p[k].of]) /\ k = End(p, p[k].of)
            /\ Innermost(Whole(p, k), Around(p, p[k].of))
        BY <3>3, YieldIs DEF Whole
      <4>2. Around(p, k) = Around(p, p[k].of) \cup {p[k].of}
        BY <4>1, AfterEnd DEF Each, Opens
      <4>3. p[k].of \in 1 .. Len(p) + 1
        BY <4>1, BodyIs
      <4> QED BY <3>4, <4>1, <4>2, <4>3, InnermostIs
    <3> QED BY <1>1, <3>1, <3>5 DEF Surround
  <2> QED BY <2>1, <2>2, <2>3, <2>4, Spots
<1>3. \A l \in Going(p, at) : ReadsOf(p, l) \subseteq K
  BY <1>0, <1>2 DEF Going
<1>4. Bound(p, a) \subseteq K
  <2>1. \A l \in Around(p, a) : Targets(p, l) \subseteq K
    BY <1>2 DEF Surround, Targets
  <2>2. DOMAIN Env0 \subseteq K
    BY DEF Known
  <2> QED BY <2>1, <2>2 DEF Bound
<1> QED BY <1>3, <1>4

-----------------------------------------------------------------------------
(* Values depend on what an expression reads alone.                         *)

Agree(S, en, h, en2, h2) ==
  \A x \in S : en2[x] = en[x] /\ (Kind(x) = "list" => h2[en2[x]] = h[en[x]])

LEMMA AtomAgrees ==
  ASSUME NEW en, NEW h, NEW en2, NEW h2, NEW e, NEW type, IsAtom(e, type),
         Agree(AtomReads(e), en, h, en2, h2)
  PROVE  Atom(e, en2, h2) = Atom(e, en, h)
<1>1. e.k \in {"var", "len"} => en2[e.x] = en[e.x] /\ (Kind(e.x) = "list" => h2[en2[e.x]] = h[en[e.x]])
  BY DEF Agree, AtomReads
<1> QED BY <1>1 DEF Atom, IsAtom

LEMMA NumberAgrees ==
  ASSUME NEW en, NEW h, NEW en2, NEW h2, NEW e, NEW type, IsNumber(e, type),
         Agree(NumberReads(e), en, h, en2, h2)
  PROVE  Number(e, en2, h2) = Number(e, en, h)
<1>1. CASE e.k = "plus"
  <2>1. Agree(AtomReads(e.a), en, h, en2, h2) /\ Agree(AtomReads(e.b), en, h, en2, h2)
    BY <1>1 DEF Agree, NumberReads
  <2>2. IsAtom(e.a, "int") /\ IsAtom(e.b, "int")
    BY <1>1 DEF IsNumber
  <2>3. Atom(e.a, en2, h2) = Atom(e.a, en, h) /\ Atom(e.b, en2, h2) = Atom(e.b, en, h)
    BY <2>1, <2>2, AtomAgrees
  <2> QED BY <1>1, <2>3 DEF Number
<1>2. CASE e.k # "plus"
  <2>1. Agree(AtomReads(e), en, h, en2, h2) /\ IsAtom(e, type)
    BY <1>2 DEF NumberReads, IsNumber
  <2> QED BY <1>2, <2>1, AtomAgrees DEF Number
<1> QED BY <1>1, <1>2

LEMMA ComparisonAgrees ==
  ASSUME NEW en, NEW h, NEW en2, NEW h2, NEW e, IsComparison(e),
         Agree(CompReads(e), en, h, en2, h2)
  PROVE  Comparison(e, en2, h2) = Comparison(e, en, h)
<1>1. Agree(NumberReads(e.a), en, h, en2, h2) /\ Agree(NumberReads(e.b), en, h, en2, h2)
  BY DEF Agree, CompReads
<1>2. Number(e.a, en2, h2) = Number(e.a, en, h) /\ Number(e.b, en2, h2) = Number(e.b, en, h)
  BY <1>1, NumberAgrees DEF IsComparison
<1> QED BY <1>2 DEF Comparison

LEMMA EvalAgrees ==
  ASSUME NEW en, NEW h, NEW en2, NEW h2, NEW e, NEW type, HasType(e, type),
         Agree(Reads(e), en, h, en2, h2)
  PROVE  Eval(e, en2, h2) = Eval(e, en, h)
<1>1. CASE e.k = "both"
  <2>0. e.k \notin Comparisons
    BY <1>1 DEF Comparisons
  <2>1. IsComparison(e.a) /\ IsComparison(e.b)
    BY <1>1, <2>0 DEF HasType
  <2>2. Agree(CompReads(e.a), en, h, en2, h2) /\ Agree(CompReads(e.b), en, h, en2, h2)
    BY <1>1, <2>0 DEF Agree, Reads
  <2>3. Comparison(e.a, en2, h2) = Comparison(e.a, en, h) /\ Comparison(e.b, en2, h2) = Comparison(e.b, en, h)
    BY <2>1, <2>2, ComparisonAgrees
  <2> QED BY <1>1, <2>0, <2>3 DEF Eval
<1>2. CASE e.k \in Comparisons
  <2>0. e.k # "both"
    BY <1>2 DEF Comparisons
  <2>1. IsComparison(e)
    BY <1>2, <2>0 DEF HasType
  <2>2. Agree(CompReads(e), en, h, en2, h2)
    BY <1>2, <2>0 DEF Reads
  <2>3. Comparison(e, en2, h2) = Comparison(e, en, h)
    BY <2>1, <2>2, ComparisonAgrees
  <2> QED BY <1>2, <2>0, <2>3 DEF Eval
<1>3. CASE e.k # "both" /\ e.k \notin Comparisons
  <2>1. IsNumber(e, type) /\ Agree(NumberReads(e), en, h, en2, h2)
    BY <1>3 DEF HasType, Reads
  <2>2. Number(e, en2, h2) = Number(e, en, h)
    BY <2>1, NumberAgrees
  <2> QED BY <1>3, <2>2 DEF Eval
<1> QED BY <1>1, <1>2, <1>3

SameOn(S, en, en2) == \A y \in S : en2[y] = en[y]

(* A stop that is no length has its value from variables that are numbers.  *)
LEMMA StopAgrees ==
  ASSUME NEW p, IsBody(p), Follows(p), NEW l \in 1 .. Len(p), p[l].op = "for", ~ Indexed(p, l),
         NEW en, NEW h, NEW en2, NEW h2, SameOn(NumberReads(p[l].its[1].stop), en, en2)
  PROVE  Eval(p[l].its[1].stop, en2, h2) = Eval(p[l].its[1].stop, en, h)
<1> DEFINE stop == p[l].its[1].stop
<1>1. StopStays(p, l) /\ Ranged(p, l)
  <2>1. l \in DOMAIN p /\ Ranged(p, l)
    BY BodyIs DEF Indexed
  <2> QED BY <2>1 DEF Follows, Ranged
<1>2. IsNumber(stop, "int")
  BY <1>1, ForIs DEF IsIterable, Ranged
<1>3. HasType(stop, "int") /\ Reads(stop) = NumberReads(stop)
  BY <1>2, NumberTyped
<1>4. \A a : IsAtom(a, "int") /\ a.k # "len" => \A y \in AtomReads(a) : Kind(y) = "int"
  BY DEF IsAtom, AtomReads
<1>5. \A y \in NumberReads(stop) : Kind(y) = "int"
  <2>1. CASE stop.k = "plus"
    <3>1. IsAtom(stop.a, "int") /\ IsAtom(stop.b, "int") /\ stop.a.k # "len" /\ stop.b.k # "len"
      BY <1>1, <1>2, <2>1 DEF IsNumber, StopStays
    <3>2. NumberReads(stop) = AtomReads(stop.a) \cup AtomReads(stop.b)
      BY <2>1 DEF NumberReads
    <3> HIDE DEF stop
    <3> QED BY <1>4, <3>1, <3>2
  <2>2. CASE stop.k # "plus"
    <3>1. IsAtom(stop, "int") /\ stop.k # "len"
      BY <1>1, <1>2, <2>2 DEF IsNumber, StopStays
    <3>2. NumberReads(stop) = AtomReads(stop)
      BY <2>2 DEF NumberReads
    <3> HIDE DEF stop
    <3> QED BY <1>4, <3>1, <3>2
  <2> QED BY <2>1, <2>2
<1>6. Agree(Reads(stop), en, h, en2, h2)
  BY <1>3, <1>5 DEF Agree, SameOn
<1> QED BY <1>3, <1>6, EvalAgrees

(* The iterators of a loop or a gathering, in two states.                   *)
SameUnder(p, l, en, h, en2, h2) ==
  \A t1, t2 : UnderIn(p, l, t1, t2, en2, h2) = UnderIn(p, l, t1, t2, en, h)

SameAcc(p, l, en, h, h2) ==
  p[l].op = "gather" /\ p[l].how = "list" => h2[en[Acc(p, l)]] = h[en[Acc(p, l)]]

LEMMA UnderKept ==
  ASSUME NEW p, IsBody(p), Follows(p), NEW l \in 1 .. Len(p), p[l].op \in {"for", "gather"},
         NEW en, NEW h, NEW en2, NEW h2,
         SameOn(ReadsOf(p, l), en, en2), SameAcc(p, l, en, h, h2)
  PROVE  SameUnder(p, l, en, h, en2, h2)
<1> SUFFICES ASSUME NEW t1, NEW t2
             PROVE  UnderIn(p, l, t1, t2, en2, h2) = UnderIn(p, l, t1, t2, en, h)
  BY DEF SameUnder
<1>1. CASE p[l].op = "gather"
  <2>1. en2[Acc(p, l)] = en[Acc(p, l)]
    BY <1>1 DEF ReadsOf, SameOn
  <2> QED BY <1>1, <2>1 DEF UnderIn, GatherIn, SameAcc
<1>2. CASE p[l].op = "for"
  <2>1. p[l].how = "enumerate" => en2[p[l].t[1]] = en[p[l].t[1]]
    BY <1>2 DEF ReadsOf, SameOn
  <2>2. \A m \in DOMAIN p[l].its : WalkIn(p, l, m, t1, en2, h2) = WalkIn(p, l, m, t1, en, h)
    <3>1. CASE Indexed(p, l)
      BY <1>2, <3>1 DEF ReadsOf, WalkIn, SameOn
    <3>2. CASE ~ Indexed(p, l)
      <4>1. en2[Over(p[l])] = en[Over(p[l])]
            /\ SameOn(NumberReads(p[l].its[1].stop), en, en2)
        BY <1>2, <3>2 DEF ReadsOf, SameOn
      <4>2. Eval(p[l].its[1].stop, en2, h2) = Eval(p[l].its[1].stop, en, h)
        BY <1>2, <3>2, <4>1, StopAgrees
      <4> QED BY <3>2, <4>1, <4>2 DEF WalkIn
    <3> QED BY <3>1, <3>2
  <2>3. LoopIn(p, l, t1, t2, en2, h2) = LoopIn(p, l, t1, t2, en, h)
    BY <2>1, <2>2 DEF LoopIn
  <2> QED BY <1>2, <2>3 DEF UnderIn
<1> QED BY <1>1, <1>2
=============================================================================
