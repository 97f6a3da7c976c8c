---------------------------- MODULE ClassProofs ----------------------------
(***************************************************************************)
(* For any programs whose bases are above the classes they are bases of:   *)
(* the class table is well formed through every pass, slots are only ever  *)
(* appended to an ancestor's and the vtables have no holes; the table is   *)
(* abstract where Python is, and every vtable holds the functions Python's *)
(* lookup finds.  If besides no chain of vtables starts below a class      *)
(* outside it (the finding class_layout), layouts extend the parent's, no  *)
(* assignment overwrites a vtable pointer, through whatever view, and      *)
(* ClassObjects implements PyObject.                                       *)
(*                                                                         *)
(* The facts about chains, prefixes and sorted names come first.  Chain is *)
(* a recursive function: that it is what its recursion says, and what it   *)
(* collects, is proved by induction on the number of climbs.  The          *)
(* compiler's chain and Python's MRO are both walks, along parents and     *)
(* along bases; a walk from a class is the class and then the walk from    *)
(* the next.  So a lookup, the first hit of a walk, can be followed class  *)
(* by class, as the passes build the table.                                *)
(***************************************************************************)
EXTENDS ClassObjects, FiniteSetTheorems, SequenceTheorems, WellFoundedInduction,
        TLAPS

(* The order of the naturals, as a set of pairs.                           *)
Below == {ij \in Nat \X Nat : ij[1] < ij[2]}

(* The order of the naturals as a relation, for the library's induction. *)
LEMMA BelowWellFounded == IsWellFoundedOn(Below, Nat)
<1>1. IsWellFoundedOn(OpToRel(<, Nat), Nat)
  BY NatLessThanWellFounded
<1>2. OpToRel(<, Nat) = Below
  BY DEF OpToRel, Below
<1> QED BY <1>1, <1>2

(* A set of naturals has a least element. *)
LEMMA Least ==
  ASSUME NEW T, T \subseteq Nat, T # {}
  PROVE  \E x \in T : \A y \in T : x <= y
<1>1. \E x \in T : \A y \in T : ~ (<<y, x>> \in Below)
  BY BelowWellFounded, WFMin
<1>2. ASSUME NEW x \in T, NEW y \in T, ~ (<<y, x>> \in Below)
      PROVE  x <= y
  <2>1. x \in Nat /\ y \in Nat
    OBVIOUS
  <2>2. y < x => <<y, x>> \in Below
    BY <2>1 DEF Below
  <2> QED BY <1>2, <2>1, <2>2
<1> QED BY <1>1, <1>2

(* Induction over the naturals, for a set. *)
LEMMA UpTo ==
  ASSUME NEW S, 0 \in S, \A n \in Nat : n \in S => n + 1 \in S
  PROVE  Nat \subseteq S
<1> SUFFICES ASSUME Nat \ S # {} PROVE FALSE
  OBVIOUS
<1>1. PICK n \in Nat \ S : \A y \in Nat \ S : n <= y
  BY Least
<1>2. n # 0 /\ n - 1 \in Nat /\ n - 1 \notin Nat \ S
  BY <1>1
<1> QED BY <1>1, <1>2

(* g is s and what n applications of F make of it.                         *)
Iterated(g, F, s, n) == g = [k \in 0 .. n |-> IF k = 0 THEN s ELSE F[g[k - 1]]]

(* A function is applied n times: the values along the way exist. *)
LEMMA Iterates ==
  ASSUME NEW S, NEW F \in [S -> S], NEW s \in S, NEW n \in Nat
  PROVE  \E g \in [0 .. n -> S] : Iterated(g, F, s, n)
<1> DEFINE T == {m \in Nat : \E g \in [0 .. m -> S] : Iterated(g, F, s, m)}
<1>1. 0 \in T
  <2> DEFINE g == [k \in 0 .. 0 |-> s]
  <2>1. g \in [0 .. 0 -> S] /\ Iterated(g, F, s, 0)
    BY DEF Iterated
  <2> QED BY <2>1
<1>2. ASSUME NEW m \in Nat, m \in T PROVE m + 1 \in T
  <2>1. PICK g \in [0 .. m -> S] : Iterated(g, F, s, m)
    BY <1>2
  <2> DEFINE h == [k \in 0 .. m + 1 |-> IF k = m + 1 THEN F[g[m]] ELSE g[k]]
  <2>2. h \in [0 .. m + 1 -> S]
    OBVIOUS
  <2>3. \A k \in 0 .. m + 1 : h[k] = IF k = 0 THEN s ELSE F[h[k - 1]]
    BY <2>1 DEF Iterated
  <2>4. Iterated(h, F, s, m + 1)
    BY <2>2, <2>3 DEF Iterated
  <2> HIDE DEF h
  <2> QED BY <2>2, <2>4
<1>3. Nat \subseteq T
  <2> HIDE DEF T
  <2> QED BY <1>1, <1>2, UpTo
<1> QED BY <1>3

-----------------------------------------------------------------------------
(* Parents are classes of the table.                                        *)
Tree == /\ IsFiniteSet(DOMAIN table)
        /\ None \notin DOMAIN table
        /\ \A c \in DOMAIN table : table[c].parent \in DOMAIN table \cup {None}

(* Walks, and one step up.                                                 *)
Lines == {s \in Seq(DOMAIN table) : s # <<>>}
Climb(s) == IF table[Last(s)].parent = None THEN s
            ELSE Append(s, table[Last(s)].parent)

(* A climb adds the parent of the last class, if it has one. *)
LEMMA ClimbIs ==
  ASSUME Tree, NEW s \in Lines
  PROVE  /\ Last(s) \in DOMAIN table
         /\ Last(s) \in ToSet(s)
         /\ Climb(s) \in Lines
         /\ ToSet(Climb(s)) = ToSet(s) \cup {Last(Climb(s))}
         /\ Last(Climb(s)) = IF table[Last(s)].parent = None THEN Last(s)
                             ELSE table[Last(s)].parent
<1> DEFINE p == table[Last(s)].parent
<1>1. s \in Seq(DOMAIN table) /\ Len(s) \in Nat \ {0} /\ DOMAIN s = 1 .. Len(s)
  BY DEF Lines
<1>2. Last(s) \in DOMAIN table /\ Last(s) \in ToSet(s)
  BY <1>1 DEF Last, ToSet
<1>3. CASE p = None
  BY <1>1, <1>2, <1>3 DEF Climb, ToSet, Lines
<1>4. CASE p # None
  <2>1. p \in DOMAIN table /\ Climb(s) = Append(s, p)
    BY <1>2, <1>4 DEF Climb, Tree
  <2>2. /\ Climb(s) \in Seq(DOMAIN table) /\ Len(Climb(s)) = Len(s) + 1
        /\ DOMAIN Climb(s) = 1 .. Len(s) + 1
        /\ Climb(s)[Len(s) + 1] = p
        /\ \A i \in 1 .. Len(s) : Climb(s)[i] = s[i]
    BY <1>1, <2>1
  <2>3. Last(Climb(s)) = p /\ Climb(s) \in Lines
    BY <1>1, <2>2 DEF Last, Lines
  <2>4. ToSet(Climb(s)) = ToSet(s) \cup {p}
    BY <1>1, <2>2 DEF ToSet
  <2> QED BY <1>2, <1>4, <2>3, <2>4
<1> QED BY <1>3, <1>4


(* Chain is its recursion: as many climbs as there are classes. *)
LEMMA ChainIs ==
  ASSUME Tree, NEW c \in DOMAIN table
  PROVE  \E up \in [0 .. Cardinality(DOMAIN table) -> Lines] :
           /\ up[0] = <<c>>
           /\ \A k \in 1 .. Cardinality(DOMAIN table) : up[k] = Climb(up[k - 1])
           /\ Chain(c) = up[Cardinality(DOMAIN table)]
<1> DEFINE N == Cardinality(DOMAIN table)
           Walk(up) ==
             [k \in 0 .. N |->
                IF k = 0 THEN <<c>>
                ELSE LET p == table[Last(up[k - 1])].parent
                     IN  IF p = None THEN up[k - 1] ELSE Append(up[k - 1], p)]
           F == [s \in Lines |-> Climb(s)]
           Up == CHOOSE up : up = Walk(up)
<1>1. N \in Nat
  BY FS_CardinalityType DEF Tree
<1>2. F \in [Lines -> Lines]
  BY ClimbIs
<1>3. <<c>> \in Lines
  BY DEF Lines
<1>4. PICK g \in [0 .. N -> Lines] : Iterated(g, F, <<c>>, N)
  <2> HIDE DEF N, F
  <2> QED BY <1>1, <1>2, <1>3, Iterates
<1>5. g = Walk(g)
  <2>1. \A k \in 0 .. N : g[k] = Walk(g)[k]
    <3> TAKE k \in 0 .. N
    <3>1. CASE k = 0
      BY <1>1, <1>4, <3>1 DEF Iterated
    <3>2. CASE k # 0
      <4>1. k - 1 \in 0 .. N /\ g[k - 1] \in Lines
        BY <1>1, <3>2
      <4>2. g[k] = F[g[k - 1]]
        BY <1>4, <3>2 DEF Iterated
      <4> QED BY <3>2, <4>1, <4>2 DEF Climb
    <3> QED BY <3>1, <3>2
  <2> QED BY <1>4, <2>1 DEF Iterated
<1>6. Up = Walk(Up)
  BY <1>5
<1>7. Chain(c) = Up[N]
  BY DEF Chain
<1> HIDE DEF Up, N
<1>8. DOMAIN Up = 0 .. N /\ Up[0] = <<c>> /\ \A k \in 1 .. N : Up[k] = Climb(Up[k - 1])
  <2>1. DOMAIN Up = 0 .. N /\ Up[0] = Walk(Up)[0]
    BY <1>1, <1>6
  <2>2. ASSUME NEW k \in 1 .. N PROVE Up[k] = Climb(Up[k - 1])
    <3>1. k \in 0 .. N /\ k # 0
      BY <1>1
    <3>2. Up[k] = Walk(Up)[k]
      BY <1>6
    <3> QED BY <3>1, <3>2 DEF Climb
  <2> QED BY <1>1, <2>1, <2>2
<1>9. \A k \in 0 .. N : Up[k] \in Lines
  <2> DEFINE T == {k \in Nat : k \in 0 .. N => Up[k] \in Lines}
  <2>1. 0 \in T
    BY <1>3, <1>8
  <2>2. ASSUME NEW n \in Nat, n \in T PROVE n + 1 \in T
    <3> SUFFICES ASSUME n + 1 \in 0 .. N PROVE Up[n + 1] \in Lines
      OBVIOUS
    <3>1. Up[n] \in Lines
      BY <1>1, <2>2
    <3>2. Up[n + 1] = Climb(Up[n])
      BY <1>1, <1>8
    <3> QED BY <3>1, <3>2, ClimbIs
  <2>3. Nat \subseteq T
    <3> HIDE DEF T
    <3> QED BY <2>1, <2>2, UpTo
  <2> QED BY <1>1, <2>3
<1>10. Up = [k \in 0 .. N |-> Up[k]]
  BY <1>6
<1>11. Up \in [0 .. N -> Lines]
  BY <1>9, <1>10
<1> QED BY <1>7, <1>8, <1>11 DEF N


(* What holds of a class and passes on to parents holds of its chain. *)
LEMMA ChainWithin ==
  ASSUME Tree, NEW Q, NEW c \in DOMAIN table, c \in Q,
         \A a \in DOMAIN table :
           a \in Q /\ table[a].parent # None => table[a].parent \in Q
  PROVE  ToSet(Chain(c)) \subseteq Q \cap DOMAIN table
<1> DEFINE N == Cardinality(DOMAIN table)
<1>1. N \in Nat
  BY FS_CardinalityType DEF Tree
<1>2. PICK up \in [0 .. N -> Lines] :
             /\ up[0] = <<c>>
             /\ \A k \in 1 .. N : up[k] = Climb(up[k - 1])
             /\ Chain(c) = up[N]
  BY ChainIs
<1> HIDE DEF N
<1> DEFINE T == {k \in Nat : k \in 0 .. N => ToSet(up[k]) \subseteq Q}
<1>3. 0 \in T
  BY <1>2 DEF ToSet
<1>4. ASSUME NEW n \in Nat, n \in T PROVE n + 1 \in T
  <2> SUFFICES ASSUME n + 1 \in 0 .. N PROVE ToSet(up[n + 1]) \subseteq Q
    OBVIOUS
  <2>1. up[n] \in Lines /\ ToSet(up[n]) \subseteq Q /\ up[n + 1] = Climb(up[n])
    BY <1>1, <1>2, <1>4
  <2> QED BY <2>1, ClimbIs
<1>5. Nat \subseteq T
  <2> HIDE DEF T
  <2> QED BY <1>3, <1>4, UpTo
<1>6. ToSet(Chain(c)) \subseteq Q
  BY <1>1, <1>2, <1>5
<1>7. Chain(c) \in Lines
  BY <1>1, <1>2
<1>8. ToSet(Chain(c)) \subseteq DOMAIN table
  BY <1>7 DEF Lines, ToSet
<1> QED BY <1>6, <1>8


(* An element appended keeps what a sequence starts with. *)
LEMMA PrefixAppend ==
  ASSUME NEW S, NEW s \in Seq(S), NEW t \in Seq(S), NEW e \in S, IsPrefix(s, t)
  PROVE  IsPrefix(s, Append(t, e))
BY DEF IsPrefix

(* A prefix, element by element. *)
LEMMA PrefixIs ==
  ASSUME NEW S, NEW s \in Seq(S), NEW t \in Seq(S)
  PROVE  IsPrefix(s, t) <=> /\ Len(s) <= Len(t)
                            /\ \A i \in 1 .. Len(s) : s[i] = t[i]
<1>1. /\ Len(s) \in Nat /\ Len(t) \in Nat
      /\ SubSeq(s, 1, Len(s)) = [i \in 1 .. Len(s) |-> s[i]]
  OBVIOUS
<1>2. ASSUME Len(s) <= Len(t)
      PROVE  SubSeq(t, 1, Len(s)) = [i \in 1 .. Len(s) |-> t[i]]
  BY <1>1, <1>2
<1> QED BY <1>1, <1>2 DEF IsPrefix

(* A prefix of a prefix is a prefix. *)
LEMMA PrefixTrans ==
  ASSUME NEW S, NEW s \in Seq(S), NEW t \in Seq(S), NEW u \in Seq(S),
         IsPrefix(s, t), IsPrefix(t, u)
  PROVE  IsPrefix(s, u)
<1>1. Len(s) \in Nat /\ Len(t) \in Nat /\ Len(u) \in Nat
  OBVIOUS
<1> QED BY <1>1, PrefixIs

-----------------------------------------------------------------------------
(* Sorting the new slots of a class. *)

(* s is S in order.                                                        *)
IsAscending(s, S) == /\ s \in [1 .. Cardinality(S) -> S]
                     /\ \A j, k \in DOMAIN s : j < k => s[j] < s[k]

(* A finite set of naturals can be put in order. *)
LEMMA Sorts ==
  ASSUME NEW S, S \subseteq Nat, IsFiniteSet(S)
  PROVE  \E s : IsAscending(s, S)
<1> DEFINE All(n) == \A R \in SUBSET Nat :
                       IsFiniteSet(R) /\ Cardinality(R) = n => \E s : IsAscending(s, R)
           T == {n \in Nat : All(n)}
<1>1. 0 \in T
  <2> SUFFICES ASSUME NEW R \in SUBSET Nat, IsFiniteSet(R), Cardinality(R) = 0
      PROVE  \E s : IsAscending(s, R)
    OBVIOUS
  <2>1. IsAscending([i \in 1 .. 0 |-> 0], R)
    BY DEF IsAscending
  <2> QED BY <2>1
<1>2. ASSUME NEW n \in Nat, n \in T PROVE n + 1 \in T
  <2> SUFFICES ASSUME NEW R \in SUBSET Nat, IsFiniteSet(R), Cardinality(R) = n + 1
      PROVE  \E s : IsAscending(s, R)
    OBVIOUS
  <2>1. R # {}
    BY FS_EmptySet
  <2>2. PICK x \in R : \A y \in R : x <= y
    BY <2>1, Least
  <2>3. IsFiniteSet(R \ {x}) /\ Cardinality(R \ {x}) = n
    <3>1. IsFiniteSet(R \ {x}) /\ Cardinality(R \ {x}) = (n + 1) - 1
      BY FS_RemoveElement
    <3> QED BY <3>1
  <2>4. PICK t : IsAscending(t, R \ {x})
    BY <1>2, <2>3
  <2> DEFINE s == [i \in 1 .. n + 1 |-> IF i = 1 THEN x ELSE t[i - 1]]
  <2>5. t \in [1 .. n -> R \ {x}] /\ \A j, k \in 1 .. n : j < k => t[j] < t[k]
    BY <2>3, <2>4 DEF IsAscending
  <2>6. \A i \in 2 .. n + 1 : i - 1 \in 1 .. n /\ s[i] = t[i - 1] /\ s[i] \in R \ {x}
    BY <2>5
  <2>7. s[1] = x
    OBVIOUS
  <2>8. s \in [1 .. n + 1 -> R]
    <3>1. \A i \in 1 .. n + 1 : i = 1 \/ i \in 2 .. n + 1
      OBVIOUS
    <3>2. \A i \in 1 .. n + 1 : s[i] \in R
      BY <2>6, <2>7, <3>1
    <3>3. s = [i \in 1 .. n + 1 |-> s[i]]
      OBVIOUS
    <3> HIDE DEF s
    <3> QED BY <3>2, <3>3
  <2> HIDE DEF s
  <2>9. ASSUME NEW j \in 1 .. n + 1, NEW k \in 1 .. n + 1, j < k PROVE s[j] < s[k]
    <3>1. k \in 2 .. n + 1 /\ s[k] \in R \ {x}
      BY <2>6, <2>9
    <3>2. CASE j = 1
      <4>1. s[k] \in R /\ s[k] # x /\ x \in Nat /\ s[k] \in Nat
        BY <3>1
      <4>2. x <= s[k] /\ s[j] = x
        BY <2>2, <2>7, <3>2, <4>1
      <4> QED BY <4>1, <4>2
    <3>3. CASE j # 1
      <4>1. j \in 2 .. n + 1
        BY <3>3
      <4>2. j - 1 \in 1 .. n /\ k - 1 \in 1 .. n /\ j - 1 < k - 1
            /\ s[j] = t[j - 1] /\ s[k] = t[k - 1]
        BY <2>6, <2>9, <3>1, <4>1
      <4> QED BY <2>5, <4>2
    <3> QED BY <3>2, <3>3
  <2>10. IsAscending(s, R)
    BY <2>8, <2>9 DEF IsAscending
  <2> QED BY <2>10
<1>3. Nat \subseteq T
  <2> HIDE DEF T
  <2> QED BY <1>1, <1>2, UpTo
<1> QED BY <1>3, FS_CardinalityType

(* Ascending puts the elements of its set, and no others, in a sequence. *)
LEMMA AscendingIs ==
  ASSUME NEW S, S \subseteq Nat, IsFiniteSet(S)
  PROVE  Ascending(S) \in Seq(Nat) /\ ToSet(Ascending(S)) = S
<1> DEFINE s == Ascending(S)
           n == Cardinality(S)
<1>1. \E t \in [1 .. n -> S] : \A j, k \in DOMAIN t : j < k => t[j] < t[k]
  BY Sorts DEF IsAscending
<1>2. s \in [1 .. n -> S] /\ \A j, k \in DOMAIN s : j < k => s[j] < s[k]
  BY <1>1 DEF Ascending
<1>3. n \in Nat
  BY FS_CardinalityType
<1> HIDE DEF s, n
<1>4. s \in Seq(S) /\ DOMAIN s = 1 .. n
  BY <1>2, <1>3
<1>5. s \in Injection(1 .. n, S)
  <2>1. ASSUME NEW j \in 1 .. n, NEW k \in 1 .. n, s[j] = s[k] PROVE j = k
    <3>1. s[j] \in Nat /\ s[k] \in Nat
      BY <1>2
    <3>2. ~ (j < k) /\ ~ (k < j)
      BY <1>2, <2>1, <3>1
    <3> QED BY <1>3, <3>2
  <2> QED BY <1>2, <1>4, <2>1 DEF Injection, IsInjective
<1>6. Cardinality(1 .. n) = n
  BY <1>3, FS_Interval
<1>7. s \in Surjection(1 .. n, S)
  BY <1>5, <1>6, FS_Injection DEF n
<1>8. ToSet(s) = S
  <2>1. \A x \in S : \E j \in DOMAIN s : s[j] = x
    BY <1>4, <1>7 DEF Surjection
  <2> QED BY <1>2, <1>4, <2>1 DEF ToSet
<1>9. s \in Seq(Nat)
  <2>1. s \in [1 .. n -> Nat]
    BY <1>2
  <2> QED BY <1>3, <2>1
<1> QED BY <1>8, <1>9 DEF s

(* The least of a set of naturals, as Min chooses it. *)
LEMMA MinIs ==
  ASSUME NEW T, T \subseteq Nat, T # {}
  PROVE  Min(T) \in T
BY Least DEF Min

(* A class of the chain with an entry is enough for Resolve to find one. *)
LEMMA Resolved ==
  ASSUME NEW c, NEW m, NEW defined, NEW a \in ToSet(Chain(c)), <<a, m>> \in defined,
         DOMAIN Chain(c) \subseteq Nat, None \notin ToSet(Chain(c))
  PROVE  /\ Resolve(c, m, defined) # None
         /\ <<Resolve(c, m, defined), m>> \in defined
<1> DEFINE hits == {k \in DOMAIN Chain(c) : <<Chain(c)[k], m>> \in defined}
<1>1. hits # {} /\ hits \subseteq Nat
  BY DEF ToSet
<1>2. Min(hits) \in hits
  <2> HIDE DEF hits
  <2> QED BY <1>1, MinIs
<1>3. Resolve(c, m, defined) = Chain(c)[Min(hits)]
  BY <1>1 DEF Resolve
<1> QED BY <1>2, <1>3 DEF ToSet

-----------------------------------------------------------------------------
(* The inductive invariant. *)

After0a == {"0b", "0c", "types", "vtables", "done", "panicked"}
After0b == {"0c", "types", "vtables", "done", "panicked"}
After0c == {"types", "vtables", "done", "panicked"}

(* What has been done for the k-th class. *)
Registered(k) == phase \in After0a \/ (phase = "0a" /\ k < at)
Closed(k)     == phase \in After0b \/ (phase = "0b" /\ k < at)
Opened(k)     == Closed(k) \/ (phase = "0b" /\ k = at /\ item > 0)
IsLinked(k)   == phase \in After0c \/ (phase = "0c" /\ k < at)

Parent(k) == table[prog[k].name].parent
Own(k)    == Binds(prog[k], {"abstract"})

(* What the k-th class inherits, adds and defines.                          *)
Passed(k)    == IF Parent(k) = None THEN {} ELSE table[Parent(k)].abstract
SlotsFrom(k) == IF Parent(k) = None THEN {} ELSE ToSet(table[Parent(k)].slots)
Defines(k)   == {m \in Nat : <<prog[k].name, m>> \in bodies}

(* The records of classes over the classes D.                               *)
Rec(D) == [parent : D \cup {None}, fields : Seq(Nat), abstract : SUBSET Nat,
           root : D \cup {None}, slots : Seq(Nat), props : SUBSET Nat,
           statics : SUBSET Nat]

(* Types, as far as a later pass relies on them. *)
Types ==
  /\ prog \in Programs /\ BasesAbove(prog)
  /\ phase \in After0a \cup {"0a", "rejected"} /\ phase # "panicked"
  /\ at \in 1 .. Len(prog) + 1
  /\ item \in Nat /\ (phase = "0a" => item = 0)
  /\ fields \in Seq(Nat) /\ unimplemented \in SUBSET Nat
  /\ table \in [DOMAIN table -> Rec(DOMAIN table)]
  /\ bodies \subseteq sigs /\ sigs \subseteq Declared \X Nat
  /\ \A c \in DOMAIN vtable : vtable[c] \in Seq(Declared \X Nat)

(* The table holds ABC and the registered classes, each once. *)
NamesOK ==
  /\ ABC \in DOMAIN table /\ DOMAIN table \subseteq Declared \cup {ABC}
  /\ IsFiniteSet(DOMAIN table)
  /\ phase # "rejected" =>
       Cardinality(DOMAIN table) = IF phase = "0a" THEN at ELSE Len(prog) + 1
  /\ table[ABC].parent = None /\ table[ABC].fields = <<>>
  /\ table[ABC].abstract = {} /\ table[ABC].root = None /\ table[ABC].slots = <<>>
  /\ \A k \in DOMAIN prog : Registered(k) => prog[k].name \in DOMAIN table \ {ABC}
  /\ phase # "rejected" =>
       \A c \in DOMAIN table \ {ABC} :
         \E k \in DOMAIN prog : Registered(k) /\ prog[k].name = c
  /\ \A j, k \in DOMAIN prog :
       Registered(j) /\ Registered(k) /\ prog[j].name = prog[k].name => j = k

(* The parent of an opened class is its base, and comes before it. *)
TreeOK ==
  \A k \in DOMAIN prog : Opened(k) =>
    /\ Parent(k) = IF prog[k].base = NoBase THEN None ELSE prog[k].base
    /\ Parent(k) \notin {None, ABC} =>
         \E j \in DOMAIN prog : j < k /\ prog[j].name = Parent(k)

(* A closed class starts with the fields of its parent. *)
FieldsOK ==
  \A k \in DOMAIN prog : Closed(k) /\ Parent(k) # None =>
    IsPrefix(table[Parent(k)].fields, table[prog[k].name].fields)

(* A closed class is abstract in its own abstract names and in those it     *)
(* inherits without a body for them.                                        *)
AbstractOK ==
  \A k \in DOMAIN prog : Closed(k) =>
    /\ Own(k) \subseteq table[prog[k].name].abstract
    /\ table[prog[k].name].abstract \subseteq Passed(k) \cup Own(k)
    /\ Passed(k) \subseteq table[prog[k].name].abstract \cup Defines(k)

(* A linked class has its parent's root and starts with its slots, and the  *)
(* slots are inherited names or its own abstract ones.                      *)
LinksOK ==
  \A k \in DOMAIN prog :
    /\ Registered(k) /\ ~ IsLinked(k) => table[prog[k].name].root = None
    /\ Registered(k) /\ table[prog[k].name].root = None =>
         table[prog[k].name].slots = <<>>
    /\ IsLinked(k) => ToSet(table[prog[k].name].slots) \subseteq SlotsFrom(k) \cup Own(k)
    /\ IsLinked(k) /\ table[prog[k].name].root = None => table[prog[k].name].abstract = {}
    /\ IsLinked(k) /\ Parent(k) # None /\ NeedsVtable(Parent(k)) =>
         /\ table[prog[k].name].root = table[Parent(k)].root
         /\ IsPrefix(table[Parent(k)].slots, table[prog[k].name].slots)

(* If the program is rooted, the linked classes with a root are those in    *)
(* chains.                                                                  *)
RootsOK ==
  Rooted(prog) =>
    \E S \in SUBSET DOMAIN prog :
      /\ InChains(prog, S)
      /\ \A k \in DOMAIN prog : IsLinked(k) => (NeedsVtable(prog[k].name) <=> k \in S)

(* Of the class that is open. *)
LocalOK ==
  phase = "0b" /\ item > 0 =>
    /\ at \in DOMAIN prog
    /\ Parent(at) # None => IsPrefix(table[Parent(at)].fields, fields)
    /\ unimplemented \subseteq Passed(at) \cup Own(at)
    /\ Passed(at) \subseteq unimplemented \cup Defines(at)
    /\ \A j \in DOMAIN prog[at].body :
         LET it == prog[at].body[j]
         IN  /\ j < item /\ it.kind \in Callables => <<prog[at].name, it.name>> \in sigs
             /\ j < item /\ it.kind = "abstract" => it.name \in unimplemented

(* Of the instance: it has its class's cells, and its vtable pointer.       *)
ObjectOK ==
  self # None =>
    /\ phase = "done"
    /\ self \in DOMAIN table \ {ABC}
    /\ DOMAIN cells = DOMAIN Layout(self)
    /\ Rooted(prog) /\ NeedsVtable(self) => cells[1] = Pointer(self)

TableOK == NamesOK /\ TreeOK /\ FieldsOK /\ AbstractOK /\ LinksOK /\ RootsOK
IInv    == Types /\ TableOK /\ LocalOK /\ ObjectOK

(* What the passes after 0a set in a class is as it was.                    *)
Same(c) ==
  /\ table'[c].parent = table[c].parent /\ table'[c].fields = table[c].fields
  /\ table'[c].abstract = table[c].abstract /\ table'[c].root = table[c].root
  /\ table'[c].slots = table[c].slots

(* The invariant's view of the program. *)
LEMMA ProgIs ==
  ASSUME Types
  PROVE  /\ prog \in Seq(ToSet(prog)) /\ Len(prog) \in Nat /\ DOMAIN prog = 1 .. Len(prog)
         /\ \A k \in DOMAIN prog : /\ prog[k].name \notin {None, NoBase}
                                   /\ prog[k].body \in Seq([kind : Kinds, name : Nat])
<1>1. prog \in Programs
  BY DEF Types
<1>2. prog \in Seq(ToSet(prog))
  BY <1>1, ProgramsAssumption
<1>3. Len(prog) \in Nat /\ DOMAIN prog = 1 .. Len(prog)
  BY <1>2
<1> QED BY <1>1, <1>2, <1>3, ProgramsAssumption

(* The table is a tree of records; the registered classes are in it. *)
LEMMA TableIs ==
  ASSUME Types, NamesOK
  PROVE  /\ Tree
         /\ \A c \in DOMAIN table : table[c] \in Rec(DOMAIN table)
         /\ \A k \in DOMAIN prog : Registered(k) =>
              /\ prog[k].name \in DOMAIN table
              /\ Parent(k) \in DOMAIN table \cup {None}
<1>1. None \notin Declared \cup {ABC}
  BY ProgIs, NoneAssumption DEF Declared
<1>2. \A c \in DOMAIN table : table[c] \in Rec(DOMAIN table)
  BY DEF Types
<1>3. \A c \in DOMAIN table : table[c].parent \in DOMAIN table \cup {None}
  BY <1>2 DEF Rec
<1>4. Tree
  BY <1>1, <1>3 DEF Tree, NamesOK
<1>5. \A k \in DOMAIN prog : Registered(k) =>
              /\ prog[k].name \in DOMAIN table
              /\ Parent(k) \in DOMAIN table \cup {None}
  BY <1>3 DEF NamesOK, Parent
<1> QED BY <1>2, <1>4, <1>5

(* A step that leaves the classes as they are and moves no class from one   *)
(* stage to the next keeps what is said of the table.                       *)
LEMMA Quiet ==
  ASSUME TableOK, Types, prog' = prog, phase # "rejected", phase' # "rejected",
         DOMAIN table' = DOMAIN table, \A c \in DOMAIN table : Same(c),
         bodies \subseteq bodies',
         \A k \in DOMAIN prog : /\ Registered(k)' = Registered(k)
                                /\ Opened(k)' = Opened(k)
                                /\ Closed(k)' = Closed(k)
                                /\ IsLinked(k)' = IsLinked(k),
         (IF phase' = "0a" THEN at' ELSE Len(prog) + 1)
           = IF phase = "0a" THEN at ELSE Len(prog) + 1
  PROVE  TableOK'
<1>1. /\ Tree
      /\ \A k \in DOMAIN prog : Registered(k) =>
              /\ prog[k].name \in DOMAIN table
              /\ Parent(k) \in DOMAIN table \cup {None}
  BY TableIs DEF TableOK
<1>2. \A k \in DOMAIN prog : Registered(k) =>
        /\ prog[k].name \in DOMAIN table
        /\ Same(prog[k].name)
        /\ Parent(k)' = Parent(k)
        /\ Parent(k) # None => Same(Parent(k))
  BY <1>1 DEF Same, Parent
<1>3. \A k \in DOMAIN prog : Registered(k) =>
        /\ Passed(k)' = Passed(k)
        /\ SlotsFrom(k)' = SlotsFrom(k)
        /\ Parent(k) # None => NeedsVtable(Parent(k))' = NeedsVtable(Parent(k))
  BY <1>2 DEF Same, Passed, SlotsFrom, NeedsVtable
<1>4. NamesOK'
  BY DEF TableOK, NamesOK, Same, Declared
<1>5. \A k \in DOMAIN prog : Opened(k) \/ Closed(k) \/ IsLinked(k) => Registered(k)
  BY DEF Registered, Opened, Closed, IsLinked, After0a, After0b, After0c
<1>6. TreeOK'
  BY <1>2, <1>5 DEF TableOK, TreeOK
<1>7. FieldsOK'
  BY <1>2, <1>5 DEF TableOK, FieldsOK, Same
<1>8. AbstractOK'
  <2> SUFFICES ASSUME NEW k \in DOMAIN prog, Closed(k)
      PROVE  /\ Own(k)' \subseteq table'[prog[k].name].abstract
             /\ table'[prog[k].name].abstract \subseteq Passed(k)' \cup Own(k)'
             /\ Passed(k)' \subseteq table'[prog[k].name].abstract \cup Defines(k)'
    BY DEF AbstractOK
  <2>1. Own(k)' = Own(k) /\ Defines(k) \subseteq Defines(k)'
    BY DEF Own, Defines
  <2>2. /\ Own(k) \subseteq table[prog[k].name].abstract
        /\ table[prog[k].name].abstract \subseteq Passed(k) \cup Own(k)
        /\ Passed(k) \subseteq table[prog[k].name].abstract \cup Defines(k)
    BY DEF TableOK, AbstractOK
  <2>3. Passed(k)' = Passed(k) /\ table'[prog[k].name].abstract = table[prog[k].name].abstract
    BY <1>2, <1>3, <1>5 DEF Same
  <2> QED BY <2>1, <2>2, <2>3
<1>9. LinksOK'
  <2> SUFFICES ASSUME NEW k \in DOMAIN prog, Registered(k)
      PROVE  /\ ~ IsLinked(k) => table'[prog[k].name].root = None
             /\ table'[prog[k].name].root = None => table'[prog[k].name].slots = <<>>
             /\ IsLinked(k) => ToSet(table'[prog[k].name].slots)
                                 \subseteq SlotsFrom(k)' \cup Own(k)'
             /\ IsLinked(k) /\ table'[prog[k].name].root = None
                  => table'[prog[k].name].abstract = {}
             /\ IsLinked(k) /\ Parent(k)' # None /\ NeedsVtable(Parent(k))' =>
                  /\ table'[prog[k].name].root = table'[Parent(k)'].root
                  /\ IsPrefix(table'[Parent(k)'].slots, table'[prog[k].name].slots)
    BY <1>5 DEF LinksOK
  <2>1. Own(k)' = Own(k)
    BY DEF Own
  <2> QED BY <1>2, <1>3, <2>1 DEF TableOK, LinksOK, Same
<1>10. RootsOK'
  <2> SUFFICES ASSUME Rooted(prog)
      PROVE  \E S \in SUBSET DOMAIN prog :
               /\ InChains(prog, S)
               /\ \A k \in DOMAIN prog :
                    IsLinked(k) => (NeedsVtable(prog[k].name)' <=> k \in S)
    BY DEF RootsOK
  <2>1. \A k \in DOMAIN prog : IsLinked(k) =>
          NeedsVtable(prog[k].name)' = NeedsVtable(prog[k].name)
    BY <1>2, <1>5 DEF Same, NeedsVtable
  <2> QED BY <2>1 DEF TableOK, RootsOK
<1> QED BY <1>4, <1>6, <1>7, <1>8, <1>9, <1>10 DEF TableOK

(* The types after a step, one variable at a time. *)
LEMMA TypesStep ==
  ASSUME Types, prog' = prog,
         phase' \in After0a \cup {"0a", "rejected"}, phase' # "panicked",
         at' \in 1 .. Len(prog) + 1,
         item' \in Nat, phase' = "0a" => item' = 0,
         fields' \in Seq(Nat), unimplemented' \in SUBSET Nat,
         table' \in [DOMAIN table' -> Rec(DOMAIN table')],
         bodies' \subseteq sigs', sigs' \subseteq Declared \X Nat,
         \A c \in DOMAIN vtable' : vtable'[c] \in Seq(Declared \X Nat)
  PROVE  Types'
<1>1. Declared' = Declared
  BY DEF Declared
<1> QED BY <1>1 DEF Types

(* The types, one variable at a time. *)
LEMMA TypesNow ==
  ASSUME Types
  PROVE  /\ phase \in After0a \cup {"0a", "rejected"}
         /\ at \in 1 .. Len(prog) + 1 /\ item \in Nat
         /\ fields \in Seq(Nat) /\ unimplemented \in SUBSET Nat
         /\ bodies \subseteq sigs /\ sigs \subseteq Declared \X Nat
         /\ \A c \in DOMAIN vtable : vtable[c] \in Seq(Declared \X Nat)
BY DEF Types

-----------------------------------------------------------------------------
(* One record of the table replaced. *)
LEMMA Updated ==
  ASSUME NEW D, table \in [D -> Rec(D)], NEW c \in D, NEW r \in Rec(D),
         table' = [table EXCEPT ![c] = r]
  PROVE  /\ table' \in [DOMAIN table' -> Rec(DOMAIN table')]
         /\ DOMAIN table' = D
         /\ table'[c] = r
         /\ \A d \in D : d # c => table'[d] = table[d]
OBVIOUS

(* The fields of a class record. *)
LEMMA RecFields ==
  ASSUME NEW D, NEW r \in Rec(D)
  PROVE  /\ r.parent \in D \cup {None} /\ r.root \in D \cup {None}
         /\ r.fields \in Seq(Nat) /\ r.slots \in Seq(Nat)
         /\ r.abstract \in SUBSET Nat /\ r.props \in SUBSET Nat /\ r.statics \in SUBSET Nat
         /\ DOMAIN r = DOMAIN NewClass
BY DEF Rec, NewClass

(* A class record given its parent. *)
LEMMA SetParent ==
  ASSUME NEW D, NEW r \in Rec(D), NEW p \in D \cup {None}
  PROVE  /\ [r EXCEPT !.parent = p] \in Rec(D)
         /\ [r EXCEPT !.parent = p].parent = p
         /\ [r EXCEPT !.parent = p].fields = r.fields
         /\ [r EXCEPT !.parent = p].abstract = r.abstract
         /\ [r EXCEPT !.parent = p].root = r.root
         /\ [r EXCEPT !.parent = p].slots = r.slots
BY DEF Rec

-----------------------------------------------------------------------------
(* A rejected program keeps what is known of its table. *)
LEMMA RejectKeeps ==
  ASSUME IInv, Reject, UNCHANGED objVars, phase \in {"0a", "0b"}
  PROVE  IInv'
<1>1. /\ prog' = prog /\ phase' = "rejected" /\ at' = at /\ item' = item /\ table' = table
      /\ fields' = fields /\ unimplemented' = unimplemented /\ sigs' = sigs
      /\ bodies' = bodies /\ vtable' = vtable /\ self' = self /\ cells' = cells
  BY DEF Reject, source, local, funcs, consts, objVars
<1>2. self = None
  BY DEF IInv, ObjectOK
<1>3. Types'
  BY <1>1 DEF IInv, Types, Declared
<1>4. \A k \in DOMAIN prog :
        ~ Registered(k)' /\ ~ Opened(k)' /\ ~ Closed(k)' /\ ~ IsLinked(k)'
  BY <1>1 DEF Registered, Opened, Closed, IsLinked, After0a, After0b, After0c
<1>5. NamesOK'
  BY <1>1, <1>4 DEF IInv, TableOK, NamesOK, Declared
<1>6. TreeOK' /\ FieldsOK' /\ AbstractOK'
  BY <1>1, <1>4 DEF TreeOK, FieldsOK, AbstractOK
<1>7. LinksOK'
  BY <1>1, <1>4 DEF LinksOK
<1>8. RootsOK'
  BY <1>1, <1>4 DEF RootsOK, Rooted
<1>9. LocalOK' /\ ObjectOK'
  BY <1>1, <1>2 DEF LocalOK, ObjectOK
<1> QED BY <1>3, <1>5, <1>6, <1>7, <1>8, <1>9 DEF IInv, TableOK

(* The end of a pass: what it has done is done for every class. *)
LEMMA NextPassKeeps ==
  ASSUME IInv, UNCHANGED objVars,
         \/ NextPass("0a", "0b") \/ NextPass("0b", "0c")
         \/ NextPass("0c", "types") \/ NextPass("vtables", "done")
  PROVE  IInv'
<1>1. /\ prog' = prog /\ at' = 1 /\ item' = item /\ table' = table
      /\ fields' = fields /\ unimplemented' = unimplemented /\ sigs' = sigs
      /\ bodies' = bodies /\ vtable' = vtable /\ self' = self /\ cells' = cells
      /\ at \notin DOMAIN prog
      /\ <<phase, phase'>> \in {<<"0a", "0b">>, <<"0b", "0c">>, <<"0c", "types">>,
                                <<"vtables", "done">>}
  BY DEF NextPass, source, local, funcs, consts, objVars, InRange
<1>2. self = None
  BY <1>1 DEF IInv, ObjectOK
<1>3. Len(prog) \in Nat /\ DOMAIN prog = 1 .. Len(prog) /\ at = Len(prog) + 1
  <2>1. Len(prog) \in Nat /\ DOMAIN prog = 1 .. Len(prog)
    BY ProgIs DEF IInv
  <2> QED BY <1>1, <2>1 DEF IInv, Types
<1>4. Types'
  BY <1>1, <1>3 DEF IInv, Types, Declared, After0a
<1>5. phase' = "0b" => item = 0
  BY <1>1 DEF IInv, Types
<1>6. phase = "0b" => item = 0
  BY <1>1 DEF IInv, Types, LocalOK
<1>7. ASSUME NEW k \in DOMAIN prog
      PROVE  /\ Registered(k)' = Registered(k) /\ Opened(k)' = Opened(k)
             /\ Closed(k)' = Closed(k) /\ IsLinked(k)' = IsLinked(k)
  BY <1>1, <1>3, <1>5, <1>6
  DEF Registered, Opened, Closed, IsLinked, After0a, After0b, After0c
<1>8. TableOK'
  <2>1. \A c \in DOMAIN table : Same(c)
    BY <1>1 DEF Same
  <2>2. phase # "rejected" /\ phase' # "rejected"
    BY <1>1
  <2>3. (IF phase' = "0a" THEN at' ELSE Len(prog) + 1)
           = IF phase = "0a" THEN at ELSE Len(prog) + 1
    BY <1>1, <1>3
  <2> QED BY <1>1, <1>7, <2>1, <2>2, <2>3, Quiet DEF IInv
<1>9. LocalOK' /\ ObjectOK'
  BY <1>1, <1>2, <1>5 DEF LocalOK, ObjectOK
<1> QED BY <1>4, <1>8, <1>9 DEF IInv

(* Phase 0a registers a class under a new name. *)
LEMMA RegisterKeeps ==
  ASSUME IInv, Register, UNCHANGED objVars
  PROVE  IInv'
<1>1. /\ prog' = prog /\ phase = "0a" /\ phase' = "0a" /\ at \in DOMAIN prog
      /\ at' = at + 1 /\ item' = item
      /\ prog[at].name \notin DOMAIN table
      /\ table' = [c \in DOMAIN table \cup {prog[at].name} |->
                     IF c = prog[at].name THEN NewClass ELSE table[c]]
      /\ fields' = fields /\ unimplemented' = unimplemented /\ sigs' = sigs
      /\ bodies' = bodies /\ vtable' = vtable /\ self' = self /\ cells' = cells
  BY DEF Register, source, local, funcs, consts, objVars, InRange, Class
<1> DEFINE D == DOMAIN table
           n == prog[at].name
<1>2. self = None
  BY <1>1 DEF IInv, ObjectOK
<1>3. Len(prog) \in Nat /\ DOMAIN prog = 1 .. Len(prog) /\ at \in 1 .. Len(prog)
  BY <1>1, ProgIs DEF IInv
<1>4. DOMAIN table' = D \cup {n} /\ table'[n] = NewClass /\ \A c \in D : table'[c] = table[c]
  BY <1>1
<1>5. n \in Declared /\ n # ABC
  BY <1>1, <1>3 DEF Declared, IInv, TableOK, NamesOK
<1>6. table' \in [DOMAIN table' -> Rec(DOMAIN table')]
  <2>1. NewClass \in Rec(D \cup {n})
    BY DEF NewClass, Rec
  <2>2. \A c \in D : table[c] \in Rec(D \cup {n})
    BY DEF IInv, Types, Rec
  <2> QED BY <1>1, <1>4, <2>1, <2>2
<1>7. Types'
  <2>1. item = 0 /\ phase' \in After0a \cup {"0a"}
    BY <1>1 DEF IInv, Types
  <2>2. at + 1 \in 1 .. Len(prog) + 1 /\ "0a" # "panicked"
    BY <1>3
  <2> HIDE DEF D, n
  <2> QED BY <1>1, <1>6, <2>1, <2>2, TypesNow, TypesStep DEF IInv
<1>8. \A k \in DOMAIN prog :
        /\ Registered(k)' <=> k < at + 1
        /\ Registered(k) <=> k < at
        /\ ~ Opened(k)' /\ ~ Closed(k)' /\ ~ IsLinked(k)'
  BY <1>1 DEF Registered, Opened, Closed, IsLinked, After0a, After0b, After0c
<1>9. NamesOK'
  <2>1. IsFiniteSet(D) /\ Cardinality(D) = at
    BY <1>1 DEF IInv, TableOK, NamesOK
  <2>2. IsFiniteSet(D \cup {n}) /\ Cardinality(D \cup {n}) = at + 1
    BY <1>1, <2>1, FS_AddElement
  <2>3. \A k \in DOMAIN prog : k < at + 1 => k = at \/ k < at
    BY <1>3
  <2>4. \A k \in DOMAIN prog : k < at + 1 => prog[k].name \in (D \cup {n}) \ {ABC}
    BY <1>5, <1>8, <2>3 DEF IInv, TableOK, NamesOK
  <2>5. \A c \in (D \cup {n}) \ {ABC} :
          \E k \in DOMAIN prog : k < at + 1 /\ prog[k].name = c
    <3> SUFFICES ASSUME NEW c \in (D \cup {n}) \ {ABC}
        PROVE  \E k \in DOMAIN prog : k < at + 1 /\ prog[k].name = c
      OBVIOUS
    <3>1. CASE c = n
      BY <1>3, <3>1
    <3>2. CASE c # n
      <4>1. \E k \in DOMAIN prog : Registered(k) /\ prog[k].name = c
        BY <1>1, <3>2 DEF IInv, TableOK, NamesOK
      <4> QED BY <1>3, <1>8, <4>1
    <3> QED BY <3>1, <3>2
  <2>6. \A j, k \in DOMAIN prog :
          j < at + 1 /\ k < at + 1 /\ prog[j].name = prog[k].name => j = k
    <3>1. \A j, k \in DOMAIN prog : j < at /\ k < at /\ prog[j].name = prog[k].name => j = k
      BY <1>8 DEF IInv, TableOK, NamesOK
    <3>2. \A k \in DOMAIN prog : k < at => prog[k].name # n
      BY <1>1, <1>8 DEF IInv, TableOK, NamesOK
    <3> QED BY <2>3, <3>1, <3>2
  <2>7. ABC \in D /\ DOMAIN table \subseteq Declared \cup {ABC}
        /\ table[ABC].parent = None /\ table[ABC].fields = <<>>
        /\ table[ABC].abstract = {} /\ table[ABC].root = None /\ table[ABC].slots = <<>>
    BY DEF IInv, TableOK, NamesOK
  <2> HIDE DEF D, n
  <2> QED BY <1>1, <1>4, <1>5, <1>8, <2>2, <2>4, <2>5, <2>6, <2>7 DEF NamesOK, Declared, D, n
<1>10. TreeOK' /\ FieldsOK' /\ AbstractOK'
  BY <1>1, <1>8 DEF TreeOK, FieldsOK, AbstractOK
<1>11. LinksOK'
  <2>1. ASSUME NEW k \in DOMAIN prog, k < at + 1
        PROVE  table'[prog[k].name].root = None /\ table'[prog[k].name].slots = <<>>
    <3>1. CASE k = at
      BY <1>4, <3>1 DEF NewClass
    <3>2. CASE k # at
      <4>1. Registered(k) /\ ~ IsLinked(k)
        BY <1>1, <1>3, <1>8, <2>1, <3>2 DEF IsLinked, After0c
      <4>2. prog[k].name \in D /\ table[prog[k].name].root = None
            /\ table[prog[k].name].slots = <<>>
        BY <4>1 DEF IInv, TableOK, NamesOK, LinksOK
      <4> QED BY <1>4, <4>2
    <3> QED BY <3>1, <3>2
  <2> QED BY <1>1, <1>8, <2>1 DEF LinksOK
<1>12. RootsOK'
  BY <1>1, <1>8 DEF RootsOK, Rooted
<1>13. LocalOK' /\ ObjectOK'
  BY <1>1, <1>2 DEF LocalOK, ObjectOK
<1> QED BY <1>7, <1>9, <1>10, <1>11, <1>12, <1>13 DEF IInv, TableOK

(* Phase 0b starts a class from its parent's fields and abstract names. *)
LEMMA OpenClassKeeps ==
  ASSUME IInv, OpenClass, UNCHANGED objVars
  PROVE  IInv'
<1> DEFINE D == DOMAIN table
           n == prog[at].name
           p == IF prog[at].base = NoBase THEN None ELSE prog[at].base
           r == [table[n] EXCEPT !.parent = p]
<1>1. /\ prog' = prog /\ phase = "0b" /\ phase' = "0b" /\ at \in DOMAIN prog
      /\ at' = at /\ item = 0 /\ item' = 1
      /\ prog[at].base \in D \cup {NoBase}
      /\ table' = [table EXCEPT ![n].parent = p]
      /\ fields' = IF p = None THEN <<>> ELSE table[p].fields
      /\ unimplemented' = IF p = None THEN {} ELSE table[p].abstract
      /\ sigs' = sigs
      /\ bodies' = bodies /\ vtable' = vtable /\ self' = self /\ cells' = cells
  BY DEF OpenClass, source, local, funcs, consts, objVars, InRange, Class
<1>2. self = None
  BY <1>1 DEF IInv, ObjectOK
<1>3. Len(prog) \in Nat /\ DOMAIN prog = 1 .. Len(prog) /\ at \in 1 .. Len(prog)
  BY <1>1, ProgIs DEF IInv
<1>4. /\ Tree
      /\ \A c \in D : table[c] \in Rec(D)
      /\ \A k \in DOMAIN prog : Registered(k) =>
           prog[k].name \in D /\ Parent(k) \in D \cup {None}
  BY TableIs DEF IInv, TableOK
<1>5. \A k \in DOMAIN prog : Registered(k) /\ Registered(k)'
  BY <1>1 DEF Registered, After0a
<1>6. n \in D /\ n # ABC /\ p \in D \cup {None}
  BY <1>1, <1>4, <1>5 DEF IInv, TableOK, NamesOK
<1>7. /\ r \in Rec(D) /\ r.parent = p /\ r.fields = table[n].fields
      /\ r.abstract = table[n].abstract /\ r.root = table[n].root /\ r.slots = table[n].slots
  BY <1>4, <1>6, SetParent
<1>8. /\ table' \in [DOMAIN table' -> Rec(DOMAIN table')]
      /\ DOMAIN table' = D /\ table'[n] = r
      /\ \A d \in D : d # n => table'[d] = table[d]
  <2>1. table \in [D -> Rec(D)] /\ table' = [table EXCEPT ![n] = r]
    BY <1>1, <1>6 DEF IInv, Types
  <2> HIDE DEF r, n, D
  <2> QED BY <1>6, <1>7, <2>1, Updated
<1> HIDE DEF r
<1>9. \A d \in D : /\ table'[d].fields = table[d].fields
                   /\ table'[d].abstract = table[d].abstract
                   /\ table'[d].root = table[d].root
                   /\ table'[d].slots = table[d].slots
  BY <1>7, <1>8
<1>10. /\ \A k \in DOMAIN prog : /\ Closed(k)' <=> k < at
                                 /\ Opened(k)' <=> k < at \/ k = at
                                 /\ Closed(k) <=> k < at
                                 /\ Opened(k) <=> k < at
                                 /\ ~ IsLinked(k)' /\ ~ IsLinked(k)
  BY <1>1 DEF Opened, Closed, IsLinked, After0b, After0c
<1>11. \A k \in DOMAIN prog : k # at => prog[k].name # n
  BY <1>1, <1>5 DEF IInv, TableOK, NamesOK
<1>12. \A k \in DOMAIN prog : k # at => Parent(k)' = Parent(k)
  BY <1>1, <1>4, <1>5, <1>8, <1>11 DEF Parent
<1>13. Parent(at)' = p
  BY <1>1, <1>7, <1>8 DEF Parent
<1>14. Types'
  <2>1. fields' \in Seq(Nat) /\ unimplemented' \in SUBSET Nat
    BY <1>1, <1>4, <1>6, RecFields
  <2>2. "0b" \in After0a /\ "0b" # "panicked" /\ "0b" # "0a" /\ 1 \in Nat
    BY DEF After0a
  <2> HIDE DEF D, n, p
  <2> QED BY <1>1, <1>8, <2>1, <2>2, TypesNow, TypesStep DEF IInv
<1>15. NamesOK'
  BY <1>1, <1>5, <1>6, <1>8 DEF IInv, TableOK, NamesOK, Declared
<1>16. TreeOK'
  <2> SUFFICES ASSUME NEW k \in DOMAIN prog, k < at \/ k = at
      PROVE  /\ Parent(k)' = IF prog[k].base = NoBase THEN None ELSE prog[k].base
             /\ Parent(k)' \notin {None, ABC} =>
                  \E j \in DOMAIN prog : j < k /\ prog[j].name = Parent(k)'
    BY <1>1, <1>10 DEF TreeOK
  <2>1. CASE k = at
    <3>1. p \notin {None, ABC} => \E j \in DOMAIN prog : prog[j].name = p /\ p = prog[at].base
      BY <1>1, <1>6 DEF IInv, TableOK, NamesOK
    <3>2. BasesAbove(prog)
      BY DEF IInv, Types
    <3> QED BY <1>1, <1>13, <2>1, <3>1, <3>2 DEF BasesAbove
  <2>2. CASE k # at
    BY <1>10, <1>12, <2>2 DEF IInv, TableOK, TreeOK
  <2> QED BY <2>1, <2>2
<1>17. \A k \in DOMAIN prog : k < at =>
         /\ k # at /\ prog[k].name \in D /\ Parent(k) \in D \cup {None}
         /\ Parent(k)' = Parent(k) /\ Passed(k)' = Passed(k)
  BY <1>3, <1>4, <1>5, <1>9, <1>12 DEF Passed
<1>18. FieldsOK'
  BY <1>1, <1>9, <1>10, <1>17 DEF IInv, TableOK, FieldsOK
<1>19. AbstractOK'
  BY <1>1, <1>9, <1>10, <1>17 DEF IInv, TableOK, AbstractOK, Own, Defines
<1>20. LinksOK'
  BY <1>1, <1>4, <1>5, <1>9, <1>10 DEF IInv, TableOK, LinksOK
<1>21. RootsOK'
  BY <1>1, <1>10 DEF RootsOK, Rooted
<1>22. LocalOK'
  <2>1. Parent(at)' # None => /\ table'[p].fields = table[p].fields
                              /\ table'[p].abstract = table[p].abstract
                              /\ table[p].fields \in Seq(Nat)
    BY <1>4, <1>6, <1>9, <1>13, RecFields
  <2>2. Passed(at)' = unimplemented'
    BY <1>1, <1>13, <2>1 DEF Passed
  <2>3. Parent(at)' # None => IsPrefix(table'[Parent(at)'].fields, fields')
    BY <1>1, <1>13, <2>1 DEF IsPrefix
  <2>4. \A j \in DOMAIN prog[at].body : ~ j < 1
    <3>1. prog[at].body \in Seq([kind : Kinds, name : Nat])
      BY <1>1, ProgIs DEF IInv
    <3> QED BY <3>1
  <2> QED BY <1>1, <2>2, <2>3, <2>4 DEF LocalOK
<1>23. ObjectOK'
  BY <1>1, <1>2 DEF ObjectOK
<1> QED BY <1>14, <1>15, <1>16, <1>18, <1>19, <1>20, <1>21, <1>22, <1>23 DEF IInv, TableOK

(* The parent of an opened class is neither it nor a class after it. *)
LEMMA NotAbove ==
  ASSUME TableOK, Types, phase # "rejected", NEW k \in DOMAIN prog, Opened(k),
         NEW i \in DOMAIN prog, k <= i, \A j \in DOMAIN prog : j <= i => Registered(j)
  PROVE  Parent(k) # prog[i].name
<1>1. Len(prog) \in Nat /\ DOMAIN prog = 1 .. Len(prog)
  BY ProgIs
<1>2. prog[i].name \notin {None, ABC}
  BY <1>1, ProgIs DEF TableOK, NamesOK
<1>3. ASSUME NEW j \in DOMAIN prog, j < k PROVE prog[j].name # prog[i].name
  BY <1>1, <1>3 DEF TableOK, NamesOK
<1> QED BY <1>2, <1>3 DEF TableOK, TreeOK

(* The end of a class body: its fields start with the parent's, and a name  *)
(* inherited as abstract is still abstract or has a body here.              *)
LEMMA CloseClassKeeps ==
  ASSUME IInv, CloseClass, UNCHANGED objVars
  PROVE  IInv'
<1> DEFINE D == DOMAIN table
           n == prog[at].name
           r == [table[n] EXCEPT !.fields = fields, !.abstract = unimplemented]
<1>1. /\ prog' = prog /\ phase = "0b" /\ phase' = "0b" /\ at \in DOMAIN prog
      /\ at' = at + 1 /\ item > Len(prog[at].body) /\ item' = 0
      /\ table' = [table EXCEPT ![n].fields = fields, ![n].abstract = unimplemented]
      /\ fields' = fields /\ unimplemented' = unimplemented /\ sigs' = sigs
      /\ bodies' = bodies /\ vtable' = vtable /\ self' = self /\ cells' = cells
  BY DEF CloseClass, source, local, funcs, consts, objVars, InRange, Class, Body
<1>2. self = None
  BY <1>1 DEF IInv, ObjectOK
<1>3. /\ Len(prog) \in Nat /\ DOMAIN prog = 1 .. Len(prog) /\ at \in 1 .. Len(prog)
      /\ prog[at].body \in Seq([kind : Kinds, name : Nat]) /\ item > 0
  <2>1. /\ Len(prog) \in Nat /\ DOMAIN prog = 1 .. Len(prog)
        /\ prog[at].body \in Seq([kind : Kinds, name : Nat])
    BY <1>1, ProgIs DEF IInv
  <2>2. item \in Nat /\ Len(prog[at].body) \in Nat
    BY <2>1, TypesNow DEF IInv
  <2> QED BY <1>1, <2>1, <2>2
<1>4. /\ Tree
      /\ \A c \in D : table[c] \in Rec(D)
      /\ \A k \in DOMAIN prog : Registered(k) =>
           prog[k].name \in D /\ Parent(k) \in D \cup {None}
  BY TableIs DEF IInv, TableOK
<1>5. \A k \in DOMAIN prog : Registered(k) /\ Registered(k)'
  BY <1>1 DEF Registered, After0a
<1>6. n \in D /\ n # ABC
  BY <1>1, <1>4, <1>5 DEF IInv, TableOK, NamesOK
<1>7. /\ r \in Rec(D) /\ r.parent = table[n].parent /\ r.fields = fields
      /\ r.abstract = unimplemented /\ r.root = table[n].root /\ r.slots = table[n].slots
  <2>1. table[n] \in Rec(D) /\ fields \in Seq(Nat) /\ unimplemented \in SUBSET Nat
    BY <1>4, <1>6, TypesNow DEF IInv
  <2>2. r = [table[n] EXCEPT !.fields = fields, !.abstract = unimplemented]
    OBVIOUS
  <2> HIDE DEF D, n, r
  <2> QED BY <2>1, <2>2 DEF Rec
<1>8. /\ table' \in [DOMAIN table' -> Rec(DOMAIN table')]
      /\ DOMAIN table' = D /\ table'[n] = r
      /\ \A d \in D : d # n => table'[d] = table[d]
  <2>1. table \in [D -> Rec(D)]
    BY DEF IInv, Types
  <2>2. table' = [table EXCEPT ![n] = r]
    BY <1>1, <1>6, <2>1
  <2> HIDE DEF r, n, D
  <2> QED BY <1>6, <1>7, <2>1, <2>2, Updated
<1> HIDE DEF r
<1>9. \A d \in D : /\ table'[d].parent = table[d].parent
                   /\ table'[d].root = table[d].root
                   /\ table'[d].slots = table[d].slots
  BY <1>7, <1>8
<1>10. /\ \A k \in DOMAIN prog : /\ Closed(k)' <=> k < at + 1
                                 /\ Opened(k)' <=> k < at + 1
                                 /\ Closed(k) <=> k < at
                                 /\ Opened(k) <=> k < at + 1
                                 /\ ~ IsLinked(k)' /\ ~ IsLinked(k)
  BY <1>1, <1>3 DEF Opened, Closed, IsLinked, After0b, After0c
<1>11. \A k \in DOMAIN prog : k # at => prog[k].name # n
  BY <1>1, <1>5 DEF IInv, TableOK, NamesOK
<1>12. \A k \in DOMAIN prog : Parent(k)' = Parent(k)
  BY <1>1, <1>4, <1>5, <1>9 DEF Parent
<1>13. \A k \in DOMAIN prog : k < at + 1 => Parent(k) # n
  <2>1. \A k \in DOMAIN prog : k < at + 1 => Opened(k) /\ k <= at
    BY <1>3, <1>10
  <2> QED BY <1>1, <1>5, <2>1, NotAbove DEF IInv
<1>14. \A k \in DOMAIN prog : k < at + 1 =>
         /\ Passed(k)' = Passed(k) /\ Defines(k)' = Defines(k) /\ Own(k)' = Own(k)
         /\ Parent(k) # None => table'[Parent(k)].fields = table[Parent(k)].fields
  BY <1>1, <1>4, <1>5, <1>8, <1>12, <1>13 DEF Passed, Defines, Own
<1>15. Types'
  <2>1. "0b" \in After0a /\ "0b" # "panicked" /\ "0b" # "0a" /\ 0 \in Nat
    BY DEF After0a
  <2>2. at + 1 \in 1 .. Len(prog) + 1
    BY <1>3
  <2> HIDE DEF D, n
  <2> QED BY <1>1, <1>8, <2>1, <2>2, TypesNow, TypesStep DEF IInv
<1>16. NamesOK'
  BY <1>1, <1>5, <1>6, <1>8 DEF IInv, TableOK, NamesOK, Declared
<1>17. TreeOK'
  BY <1>1, <1>10, <1>12 DEF IInv, TableOK, TreeOK
<1>18. \A k \in DOMAIN prog : k < at + 1 => k = at \/ (k < at /\ k # at)
  BY <1>3
<1>19. FieldsOK'
  <2> SUFFICES ASSUME NEW k \in DOMAIN prog, k < at + 1, Parent(k) # None
      PROVE  IsPrefix(table[Parent(k)].fields, table'[prog[k].name].fields)
    BY <1>1, <1>10, <1>12, <1>14 DEF FieldsOK
  <2>1. CASE k = at
    BY <1>1, <1>3, <1>7, <1>8, <2>1 DEF IInv, LocalOK
  <2>2. CASE k < at /\ k # at
    BY <1>4, <1>5, <1>8, <1>10, <1>11, <2>2 DEF IInv, TableOK, FieldsOK
  <2> QED BY <1>18, <2>1, <2>2
<1>20. AbstractOK'
  <2> SUFFICES ASSUME NEW k \in DOMAIN prog, k < at + 1
      PROVE  /\ Own(k) \subseteq table'[prog[k].name].abstract
             /\ table'[prog[k].name].abstract \subseteq Passed(k) \cup Own(k)
             /\ Passed(k) \subseteq table'[prog[k].name].abstract \cup Defines(k)
    BY <1>1, <1>10, <1>14 DEF AbstractOK
  <2>1. CASE k = at
    <3>1. Own(at) \subseteq unimplemented
      <4> SUFFICES ASSUME NEW j \in DOMAIN prog[at].body,
                          prog[at].body[j].kind = "abstract"
          PROVE  prog[at].body[j].name \in unimplemented
        BY DEF Own, Binds, ToSet
      <4>1. j < item
        BY <1>1, <1>3, TypesNow DEF IInv
      <4> QED BY <1>1, <1>3, <4>1 DEF IInv, LocalOK
    <3> QED BY <1>1, <1>3, <1>7, <1>8, <2>1, <3>1 DEF IInv, LocalOK
  <2>2. CASE k < at /\ k # at
    BY <1>4, <1>5, <1>8, <1>10, <1>11, <2>2 DEF IInv, TableOK, AbstractOK
  <2> QED BY <1>18, <2>1, <2>2
<1>21. LinksOK'
  BY <1>1, <1>4, <1>5, <1>9, <1>10 DEF IInv, TableOK, LinksOK
<1>22. RootsOK'
  BY <1>1, <1>10 DEF RootsOK, Rooted
<1>23. LocalOK' /\ ObjectOK'
  BY <1>1, <1>2 DEF LocalOK, ObjectOK
<1> QED BY <1>15, <1>16, <1>17, <1>19, <1>20, <1>21, <1>22, <1>23 DEF IInv, TableOK

-----------------------------------------------------------------------------
(* A member of the open class: what each of the steps has to show. *)
LEMMA MemberKeeps ==
  ASSUME IInv, UNCHANGED objVars, prog' = prog, vtable' = vtable,
         phase = "0b", phase' = "0b", at' = at, at \in DOMAIN prog,
         item \in DOMAIN prog[at].body, item' = item + 1,
         DOMAIN table' = DOMAIN table, \A c \in DOMAIN table : Same(c),
         table' \in [DOMAIN table' -> Rec(DOMAIN table')],
         fields' \in Seq(Nat), unimplemented' \in SUBSET Nat,
         bodies \subseteq bodies', bodies' \subseteq sigs', sigs' \subseteq Declared \X Nat,
         Parent(at) # None =>
           (IsPrefix(table[Parent(at)].fields, fields)
              => IsPrefix(table[Parent(at)].fields, fields')),
         unimplemented' \subseteq unimplemented \cup Own(at),
         unimplemented \subseteq unimplemented' \cup Defines(at)',
         sigs \subseteq sigs',
         LET it == prog[at].body[item]
         IN  /\ it.kind \in Callables => <<prog[at].name, it.name>> \in sigs'
             /\ it.kind = "abstract" => it.name \in unimplemented'
             /\ \A m \in unimplemented \ unimplemented' : <<prog[at].name, m>> \notin sigs
  PROVE  IInv'
<1>1. /\ Len(prog) \in Nat /\ DOMAIN prog = 1 .. Len(prog)
      /\ prog[at].body \in Seq([kind : Kinds, name : Nat])
      /\ item \in Nat /\ item > 0
  <2>1. /\ Len(prog) \in Nat /\ DOMAIN prog = 1 .. Len(prog)
        /\ prog[at].body \in Seq([kind : Kinds, name : Nat])
    BY ProgIs DEF IInv
  <2>2. DOMAIN prog[at].body = 1 .. Len(prog[at].body) /\ Len(prog[at].body) \in Nat
    BY <2>1
  <2> QED BY <2>1, <2>2
<1>2. self = None /\ self' = None /\ cells' = cells
  BY DEF IInv, ObjectOK, objVars
<1>3. Types'
  <2>1. "0b" \in After0a /\ "0b" # "panicked" /\ "0b" # "0a" /\ item + 1 \in Nat
    BY <1>1 DEF After0a
  <2> QED BY <2>1, TypesNow, TypesStep DEF IInv
<1>4. TableOK'
  <2>1. ASSUME NEW k \in DOMAIN prog
        PROVE  /\ Registered(k)' = Registered(k) /\ Opened(k)' = Opened(k)
               /\ Closed(k)' = Closed(k) /\ IsLinked(k)' = IsLinked(k)
    BY <1>1 DEF Registered, Opened, Closed, IsLinked
  <2>2. phase # "rejected" /\ phase' # "rejected" /\ phase # "0a" /\ phase' # "0a"
    OBVIOUS
  <2> QED BY <2>1, <2>2, Quiet DEF IInv
<1>5. LocalOK'
  <2>1. /\ Parent(at) \in DOMAIN table \cup {None} /\ prog[at].name \in DOMAIN table
    BY TableIs DEF IInv, TableOK, Registered, After0a
  <2>2. /\ Parent(at)' = Parent(at) /\ Passed(at)' = Passed(at) /\ Own(at)' = Own(at)
        /\ Parent(at) # None => table'[Parent(at)].fields = table[Parent(at)].fields
    BY <2>1 DEF Same, Parent, Passed, Own
  <2>3. /\ Parent(at) # None => IsPrefix(table[Parent(at)].fields, fields)
        /\ unimplemented \subseteq Passed(at) \cup Own(at)
        /\ Passed(at) \subseteq unimplemented \cup Defines(at)
        /\ \A j \in DOMAIN prog[at].body :
             LET it == prog[at].body[j]
             IN  /\ j < item /\ it.kind \in Callables => <<prog[at].name, it.name>> \in sigs
                 /\ j < item /\ it.kind = "abstract" => it.name \in unimplemented
    BY <1>1 DEF IInv, LocalOK
  <2>4. Defines(at) \subseteq Defines(at)'
    BY DEF Defines
  <2>5. ASSUME NEW j \in DOMAIN prog[at].body, j < item + 1
        PROVE  LET it == prog[at].body[j]
               IN  /\ it.kind \in Callables => <<prog[at].name, it.name>> \in sigs'
                   /\ it.kind = "abstract" => it.name \in unimplemented'
    <3>1. CASE j = item
      BY <3>1
    <3>2. CASE j # item
      <4>1. j < item
        BY <1>1, <2>5, <3>2
      <4> QED BY <2>3, <4>1 DEF Callables, Kinds
    <3> QED BY <3>1, <3>2
  <2> QED BY <2>2, <2>3, <2>4, <2>5 DEF LocalOK
<1>6. ObjectOK'
  BY <1>2 DEF ObjectOK
<1> QED BY <1>3, <1>4, <1>5, <1>6 DEF IInv

(* A name added to the properties or static methods of a class. *)
LEMMA NamesAdded ==
  ASSUME Types, NEW c \in DOMAIN table, NEW m \in Nat,
         \/ table' = table
         \/ table' = [table EXCEPT ![c].props = @ \cup {m}]
         \/ table' = [table EXCEPT ![c].statics = @ \cup {m}]
  PROVE  /\ DOMAIN table' = DOMAIN table
         /\ \A d \in DOMAIN table : Same(d)
         /\ table' \in [DOMAIN table' -> Rec(DOMAIN table')]
<1> DEFINE D == DOMAIN table
<1>1. table \in [D -> Rec(D)]
  BY DEF Types
<1>2. table[c] \in Rec(D)
  BY <1>1
<1>3. CASE table' = table
  BY <1>1, <1>3 DEF Same
<1>4. CASE table' = [table EXCEPT ![c].props = @ \cup {m}]
  <2> DEFINE r == [table[c] EXCEPT !.props = @ \cup {m}]
  <2>1. /\ r \in Rec(D) /\ r.parent = table[c].parent /\ r.fields = table[c].fields
        /\ r.abstract = table[c].abstract /\ r.root = table[c].root
        /\ r.slots = table[c].slots
    BY <1>2 DEF Rec
  <2>2. table' = [table EXCEPT ![c] = r]
    BY <1>1, <1>4
  <2> HIDE DEF r, D
  <2>3. /\ table' \in [DOMAIN table' -> Rec(DOMAIN table')]
        /\ DOMAIN table' = D /\ table'[c] = r
        /\ \A d \in D : d # c => table'[d] = table[d]
    BY <1>1, <2>1, <2>2, Updated DEF D
  <2> QED BY <2>1, <2>3 DEF Same, D
<1>5. CASE table' = [table EXCEPT ![c].statics = @ \cup {m}]
  <2> DEFINE r == [table[c] EXCEPT !.statics = @ \cup {m}]
  <2>1. /\ r \in Rec(D) /\ r.parent = table[c].parent /\ r.fields = table[c].fields
        /\ r.abstract = table[c].abstract /\ r.root = table[c].root
        /\ r.slots = table[c].slots
    BY <1>2 DEF Rec
  <2>2. table' = [table EXCEPT ![c] = r]
    BY <1>1, <1>5
  <2> HIDE DEF r, D
  <2>3. /\ table' \in [DOMAIN table' -> Rec(DOMAIN table')]
        /\ DOMAIN table' = D /\ table'[c] = r
        /\ \A d \in D : d # c => table'[d] = table[d]
    BY <1>1, <2>1, <2>2, Updated DEF D
  <2> QED BY <2>1, <2>3 DEF Same, D
<1> QED BY <1>3, <1>4, <1>5

(* The item the pass is at. *)
LEMMA ItemIs ==
  ASSUME IInv, NEW kinds, AtItem(kinds), kinds \subseteq Kinds
  PROVE  /\ phase = "0b" /\ at \in DOMAIN prog /\ item \in DOMAIN prog[at].body
         /\ Item = prog[at].body[item] /\ Class = prog[at].name
         /\ prog[at].body[item].kind \in kinds
         /\ prog[at].body[item].name \in Nat
         /\ prog[at].name \in DOMAIN table /\ prog[at].name \in Declared
         /\ (prog[at].body[item].kind = "abstract"
               => prog[at].body[item].name \in Own(at))
         /\ Parent(at) # None => table[Parent(at)].fields \in Seq(Nat)
<1>1. /\ phase = "0b" /\ at \in DOMAIN prog /\ item \in DOMAIN prog[at].body
      /\ Item = prog[at].body[item] /\ Class = prog[at].name
      /\ prog[at].body[item].kind \in kinds
  BY DEF AtItem, InRange, Body, Item, Class
<1>2. prog[at].body \in Seq([kind : Kinds, name : Nat])
  BY <1>1, ProgIs DEF IInv
<1>3. prog[at].body[item] \in [kind : Kinds, name : Nat]
  <2> DEFINE R == [kind : Kinds, name : Nat]
             b == prog[at].body
  <2>1. b \in Seq(R) /\ item \in DOMAIN b
    BY <1>1, <1>2
  <2> HIDE DEF R, b
  <2>2. b[item] \in R
    BY <2>1
  <2> QED BY <2>2 DEF R, b
<1>4. /\ prog[at].name \in DOMAIN table /\ Parent(at) \in DOMAIN table \cup {None}
      /\ \A c \in DOMAIN table : table[c] \in Rec(DOMAIN table)
  BY <1>1, TableIs DEF IInv, TableOK, Registered, After0a
<1>5. Parent(at) # None => table[Parent(at)].fields \in Seq(Nat)
  BY <1>4, RecFields
<1>6. prog[at].body[item].kind = "abstract" => prog[at].body[item].name \in Own(at)
  BY <1>1 DEF Own, Binds, ToSet
<1> QED BY <1>1, <1>3, <1>4, <1>5, <1>6 DEF Declared

(* A field goes after the fields there are. *)
LEMMA AddFieldKeeps ==
  ASSUME IInv, AddField, UNCHANGED objVars
  PROVE  IInv'
<1>1. /\ phase = "0b" /\ at \in DOMAIN prog /\ item \in DOMAIN prog[at].body
      /\ Item = prog[at].body[item] /\ Class = prog[at].name
      /\ prog[at].body[item].kind = "field"
      /\ prog[at].body[item].name \in Nat
      /\ Parent(at) # None => table[Parent(at)].fields \in Seq(Nat)
  BY ItemIs DEF AddField, Kinds
<1>2. /\ prog' = prog /\ phase' = phase /\ at' = at /\ item' = item + 1
      /\ table' = table /\ fields' = Append(fields, prog[at].body[item].name)
      /\ unimplemented' = unimplemented /\ sigs' = sigs /\ bodies' = bodies
      /\ vtable' = vtable
  BY <1>1 DEF AddField, source, funcs, consts
<1>3. /\ table \in [DOMAIN table -> Rec(DOMAIN table)]
      /\ \A c \in DOMAIN table : Same(c)
  BY <1>2 DEF IInv, Types, Same
<1>4. /\ fields \in Seq(Nat) /\ unimplemented \in SUBSET Nat
      /\ bodies \subseteq sigs /\ sigs \subseteq Declared \X Nat
  BY TypesNow DEF IInv
<1>5. fields' \in Seq(Nat)
  BY <1>1, <1>2, <1>4
<1>6. Parent(at) # None =>
        (IsPrefix(table[Parent(at)].fields, fields)
           => IsPrefix(table[Parent(at)].fields, fields'))
  BY <1>1, <1>2, <1>4, PrefixAppend
<1>7. "field" \notin Callables /\ "field" # "abstract"
  BY DEF Callables
<1> QED BY <1>1, <1>2, <1>3, <1>4, <1>5, <1>6, <1>7, MemberKeeps

(* What the steps for the three kinds of method have in common. *)
LEMMA MethodKeeps ==
  ASSUME IInv, UNCHANGED objVars, AtItem(Callables),
         <<Class, Item.name>> \notin sigs,
         sigs' = sigs \cup {<<Class, Item.name>>},
         \/ table' = table
         \/ table' = [table EXCEPT ![Class].props = @ \cup {Item.name}]
         \/ table' = [table EXCEPT ![Class].statics = @ \cup {Item.name}],
         \/ /\ Item.kind = "abstract" /\ bodies' = bodies
            /\ unimplemented' = unimplemented \cup {Item.name}
         \/ /\ Item.kind # "abstract" /\ bodies' = bodies \cup {<<Class, Item.name>>}
            /\ unimplemented' = unimplemented \ {Item.name},
         item' = item + 1,
         UNCHANGED <<source, phase, at, fields, consts>>
  PROVE  IInv'
<1> DEFINE n == prog[at].name
           m == prog[at].body[item].name
<1>1. /\ phase = "0b" /\ at \in DOMAIN prog /\ item \in DOMAIN prog[at].body
      /\ Item = prog[at].body[item] /\ Class = n
      /\ prog[at].body[item].kind \in Callables
      /\ m \in Nat /\ n \in DOMAIN table /\ n \in Declared
      /\ prog[at].body[item].kind = "abstract" => m \in Own(at)
  BY ItemIs DEF Callables
<1>2. /\ prog' = prog /\ phase' = phase /\ at' = at /\ item' = item + 1
      /\ fields' = fields /\ vtable' = vtable
      /\ <<n, m>> \notin sigs /\ sigs' = sigs \cup {<<n, m>>}
  BY <1>1 DEF source, consts
<1>3. /\ DOMAIN table' = DOMAIN table
      /\ \A d \in DOMAIN table : Same(d)
      /\ table' \in [DOMAIN table' -> Rec(DOMAIN table')]
  <2> HIDE DEF n, m
  <2>1. \/ table' = table
        \/ table' = [table EXCEPT ![n].props = @ \cup {m}]
        \/ table' = [table EXCEPT ![n].statics = @ \cup {m}]
    BY <1>1 DEF m
  <2> QED BY <1>1, <2>1, NamesAdded DEF IInv
<1>4. /\ fields \in Seq(Nat) /\ unimplemented \in SUBSET Nat
      /\ bodies \subseteq sigs /\ sigs \subseteq Declared \X Nat
  BY TypesNow DEF IInv
<1>5. /\ bodies \subseteq bodies' /\ bodies' \subseteq sigs' /\ sigs' \subseteq Declared \X Nat
      /\ unimplemented' \in SUBSET Nat
      /\ unimplemented' \subseteq unimplemented \cup Own(at)
      /\ \A x \in unimplemented \ unimplemented' : <<n, x>> \notin sigs
      /\ prog[at].body[item].kind = "abstract" => m \in unimplemented'
  <2>1. CASE /\ Item.kind = "abstract" /\ bodies' = bodies
             /\ unimplemented' = unimplemented \cup {Item.name}
    <3>1. /\ bodies' = bodies /\ unimplemented' = unimplemented \cup {m}
          /\ m \in Own(at)
      BY <1>1, <2>1
    <3> HIDE DEF n, m
    <3>2. /\ bodies \subseteq bodies' /\ bodies' \subseteq sigs' /\ sigs' \subseteq Declared \X Nat
      BY <1>1, <1>2, <1>4, <3>1
    <3>3. unimplemented' \in SUBSET Nat /\ m \in unimplemented'
      BY <1>1, <1>4, <3>1
    <3>4. unimplemented' \subseteq unimplemented \cup Own(at)
      BY <3>1
    <3>5. unimplemented \ unimplemented' = {}
      BY <3>1
    <3> QED BY <3>2, <3>3, <3>4, <3>5
  <2>2. CASE /\ Item.kind # "abstract" /\ bodies' = bodies \cup {<<Class, Item.name>>}
             /\ unimplemented' = unimplemented \ {Item.name}
    <3>1. /\ bodies' = bodies \cup {<<n, m>>} /\ unimplemented' = unimplemented \ {m}
          /\ prog[at].body[item].kind # "abstract"
      BY <1>1, <2>2
    <3> HIDE DEF n, m
    <3>2. /\ bodies \subseteq bodies' /\ bodies' \subseteq sigs' /\ sigs' \subseteq Declared \X Nat
      BY <1>1, <1>2, <1>4, <3>1
    <3>3. unimplemented' \in SUBSET Nat /\ unimplemented' \subseteq unimplemented
      BY <1>4, <3>1
    <3>4. \A x \in unimplemented \ unimplemented' : <<n, x>> \notin sigs
      BY <1>2, <3>1
    <3> QED BY <3>1, <3>2, <3>3, <3>4
  <2> QED BY <2>1, <2>2
<1>6. unimplemented \subseteq unimplemented' \cup Defines(at)'
  BY <1>1, <1>2, <1>4 DEF Defines
<1> HIDE DEF n, m
<1>7. /\ prog[at].body[item].kind \in Callables => <<prog[at].name, prog[at].body[item].name>> \in sigs'
      /\ \A x \in unimplemented \ unimplemented' : <<prog[at].name, x>> \notin sigs
      /\ prog[at].body[item].kind = "abstract" => prog[at].body[item].name \in unimplemented'
  BY <1>2, <1>5 DEF n, m
<1> QED BY <1>1, <1>2, <1>3, <1>4, <1>5, <1>6, <1>7, MemberKeeps

(* A method, abstract or not, keeps the invariant. *)
LEMMA AddKeeps ==
  ASSUME IInv, AddStatic \/ AddAbstract \/ AddMethod, UNCHANGED objVars
  PROVE  IInv'
<1>1. CASE AddStatic
  <2>1. AtItem(Callables) /\ Item.kind # "abstract"
    BY <1>1 DEF AddStatic, AtItem, Callables, Kinds
  <2> QED BY <1>1, <2>1, MethodKeeps DEF AddStatic, consts, source
<1>2. CASE AddAbstract
  <2>1. AtItem(Callables) /\ Item.kind = "abstract"
    BY <1>2 DEF AddAbstract, AtItem, Callables, Kinds
  <2> QED BY <1>2, <2>1, MethodKeeps DEF AddAbstract
<1>3. CASE AddMethod
  <2>1. AtItem(Callables) /\ Item.kind # "abstract"
    BY <1>3 DEF AddMethod, AtItem, Callables, Kinds
  <2> QED BY <1>3, <2>1, MethodKeeps DEF AddMethod
<1> QED BY <1>1, <1>2, <1>3

(* The abstract names of a class body: finitely many numbers. *)
LEMMA OwnIs ==
  ASSUME Types, NEW k \in DOMAIN prog
  PROVE  Own(k) \subseteq Nat /\ IsFiniteSet(Own(k))
<1> DEFINE R == [kind : Kinds, name : Nat]
           b == prog[k].body
           J == {i \in 1 .. Len(b) : b[i].kind = "abstract"}
           f == [i \in J |-> b[i].name]
<1>1. b \in Seq(R)
  BY ProgIs
<1>2. Len(b) \in Nat /\ DOMAIN b = 1 .. Len(b) /\ \A i \in 1 .. Len(b) : b[i] \in R
  <2> HIDE DEF b, R
  <2> QED BY <1>1
<1>3. Own(k) = {b[i].name : i \in J}
  BY <1>2 DEF Own, Binds, ToSet
<1>4. IsFiniteSet(J)
  <2> HIDE DEF b
  <2>1. IsFiniteSet(1 .. Len(b))
    BY <1>2, FS_Interval
  <2> QED BY <2>1, FS_Subset
<1>5. f \in Surjection(J, Own(k))
  <2> HIDE DEF J, b
  <2> QED BY <1>3 DEF Surjection
<1>6. IsFiniteSet(Own(k))
  <2> HIDE DEF J, f
  <2> QED BY <1>4, <1>5, FS_Surjection
<1>7. Own(k) \subseteq Nat
  BY <1>2, <1>3
<1> QED BY <1>6, <1>7

(* New slots go after the inherited ones: one for each own name that has    *)
(* none.                                                                    *)
LEMMA NewSlotsAre ==
  ASSUME Types, at \in DOMAIN prog, NEW s \in Seq(Nat)
  PROVE  /\ s \o NewSlots(s) \in Seq(Nat)
         /\ IsPrefix(s, s \o NewSlots(s))
         /\ ToSet(s \o NewSlots(s)) = ToSet(s) \cup Own(at)
<1> DEFINE t == NewSlots(s)
<1>1. IsFiniteSet(Own(at) \ ToSet(s)) /\ Own(at) \ ToSet(s) \subseteq Nat
  BY OwnIs, FS_Subset
<1>2. t \in Seq(Nat) /\ ToSet(t) = Own(at) \ ToSet(s)
  BY <1>1, AscendingIs DEF NewSlots, Own
<1> HIDE DEF t
<1>3. /\ s \o t \in Seq(Nat) /\ Len(s \o t) = Len(s) + Len(t)
      /\ \A i \in 1 .. Len(s) : (s \o t)[i] = s[i]
      /\ \A i \in 1 .. Len(t) : (s \o t)[Len(s) + i] = t[i]
      /\ Len(s) \in Nat /\ Len(t) \in Nat
  BY <1>2
<1>4. IsPrefix(s, s \o t)
  <2>1. s \o t \in Seq(Nat) /\ Len(s) <= Len(s \o t)
    BY <1>3
  <2> DEFINE u == s \o t
  <2>2. u \in Seq(Nat) /\ Len(s) <= Len(u) /\ \A i \in 1 .. Len(s) : s[i] = u[i]
    BY <1>3, <2>1
  <2>3. IsPrefix(s, u)
    <3> HIDE DEF u
    <3> QED BY <2>2, PrefixIs
  <2> QED BY <2>3
<1>5. ASSUME NEW i \in DOMAIN (s \o t) PROVE (s \o t)[i] \in ToSet(s) \cup ToSet(t)
  <2>1. i \in 1 .. Len(s) + Len(t)
    BY <1>3
  <2>2. CASE i <= Len(s)
    BY <1>3, <2>1, <2>2 DEF ToSet
  <2>3. CASE ~ (i <= Len(s))
    <3>1. i - Len(s) \in 1 .. Len(t) /\ i = Len(s) + (i - Len(s))
      BY <1>3, <2>1, <2>3
    <3>2. (s \o t)[i] = t[i - Len(s)]
      BY <1>3, <3>1
    <3> QED BY <1>2, <3>1, <3>2 DEF ToSet
  <2> QED BY <2>2, <2>3
<1>6. ToSet(s \o t) \subseteq ToSet(s) \cup ToSet(t)
  BY <1>5 DEF ToSet
<1>7. ToSet(s) \cup ToSet(t) \subseteq ToSet(s \o t)
  <2> DEFINE u == s \o t
  <2>1. ASSUME NEW i \in 1 .. Len(s) PROVE s[i] \in ToSet(u)
    <3>1. i \in DOMAIN u /\ u[i] = s[i]
      BY <1>3
    <3> HIDE DEF u
    <3> QED BY <3>1 DEF ToSet
  <2>2. ASSUME NEW i \in 1 .. Len(t) PROVE t[i] \in ToSet(u)
    <3>1. Len(s) + i \in DOMAIN u /\ u[Len(s) + i] = t[i]
      BY <1>3
    <3> HIDE DEF u
    <3> QED BY <3>1 DEF ToSet
  <2>3. DOMAIN s = 1 .. Len(s) /\ DOMAIN t = 1 .. Len(t)
    BY <1>2
  <2> QED BY <2>1, <2>2, <2>3 DEF ToSet
<1> QED BY <1>2, <1>3, <1>4, <1>6, <1>7 DEF t

(* Phase 0c: a class takes its parent's root and slots, or becomes a root;  *)
(* the classes with a root are those of the chains.                         *)
LEMMA LinkClassKeeps ==
  ASSUME IInv, LinkClass, UNCHANGED objVars
  PROVE  IInv'
<1> DEFINE D == DOMAIN table
           n == prog[at].name
           p == Parent(at)
           above == IF p = None THEN None ELSE table[p].root
           root == IF above # None THEN above
                   ELSE IF IsAbstract(n) THEN n ELSE None
           inherited == IF p = None THEN <<>> ELSE table[p].slots
           slots == IF root = None THEN table[n].slots
                    ELSE inherited \o NewSlots(inherited)
           r == [table[n] EXCEPT !.root = root, !.slots = slots]
<1>1. /\ prog' = prog /\ phase = "0c" /\ phase' = "0c" /\ at \in DOMAIN prog
      /\ at' = at + 1 /\ item' = item
      /\ table' = [table EXCEPT ![n].root = root, ![n].slots = slots]
      /\ fields' = fields /\ unimplemented' = unimplemented /\ sigs' = sigs
      /\ bodies' = bodies /\ vtable' = vtable /\ self' = self /\ cells' = cells
  BY DEF LinkClass, source, local, funcs, consts, objVars, InRange, Class, Parent
<1>2. self = None
  BY <1>1 DEF IInv, ObjectOK
<1>3. Len(prog) \in Nat /\ DOMAIN prog = 1 .. Len(prog) /\ at \in 1 .. Len(prog)
  BY <1>1, ProgIs DEF IInv
<1>4. /\ Tree
      /\ \A c \in D : table[c] \in Rec(D)
      /\ \A k \in DOMAIN prog : Registered(k) =>
           prog[k].name \in D /\ Parent(k) \in D \cup {None}
  BY TableIs DEF IInv, TableOK
<1>5. \A k \in DOMAIN prog : /\ Registered(k) /\ Registered(k)' /\ Opened(k) /\ Opened(k)'
                             /\ Closed(k) /\ Closed(k)'
                             /\ IsLinked(k) <=> k < at
                             /\ IsLinked(k)' <=> k < at + 1
  BY <1>1, <1>3 DEF Registered, Opened, Closed, IsLinked, After0a, After0b, After0c
<1>6. n \in D /\ n # ABC /\ p \in D \cup {None} /\ p # n
  BY <1>1, <1>3, <1>4, <1>5, NotAbove DEF IInv, TableOK, NamesOK
<1>7. root \in D \cup {None} /\ slots \in Seq(Nat) /\ inherited \in Seq(Nat)
      /\ table[n].root = None /\ table[n].slots = <<>>
  <2>1. inherited \in Seq(Nat) /\ above \in D \cup {None}
    BY <1>4, <1>6, RecFields
  <2>2. inherited \o NewSlots(inherited) \in Seq(Nat)
    BY <1>1, <2>1, NewSlotsAre DEF IInv
  <2>3. table[n].root = None /\ table[n].slots = <<>>
    BY <1>1, <1>5, <1>3 DEF IInv, TableOK, LinksOK
  <2> HIDE DEF inherited, above
  <2> QED BY <1>6, <2>1, <2>2, <2>3
<1>8. /\ r \in Rec(D) /\ r.parent = table[n].parent /\ r.fields = table[n].fields
      /\ r.abstract = table[n].abstract /\ r.root = root /\ r.slots = slots
  <2>1. table[n] \in Rec(D) /\ r = [table[n] EXCEPT !.root = root, !.slots = slots]
    BY <1>4, <1>6
  <2> HIDE DEF D, n, r, root, slots
  <2> QED BY <1>7, <2>1 DEF Rec
<1>9. /\ table' \in [DOMAIN table' -> Rec(DOMAIN table')]
      /\ DOMAIN table' = D /\ table'[n] = r
      /\ \A d \in D : d # n => table'[d] = table[d]
  <2>1. table \in [D -> Rec(D)]
    BY DEF IInv, Types
  <2>2. table' = [table EXCEPT ![n] = r]
    BY <1>1, <1>6, <2>1
  <2> HIDE DEF r, n, D
  <2> QED BY <1>6, <1>8, <2>1, <2>2, Updated
<1>10. /\ root # None <=> above # None \/ IsAbstract(n)
       /\ above # None => root = above
  BY <1>1, <1>3, ProgIs DEF IInv
<1>11. /\ ToSet(slots) \subseteq ToSet(inherited) \cup Own(at)
       /\ root # None => IsPrefix(inherited, slots)
       /\ root = None => slots = <<>>
  <2>1. CASE root = None
    <3>1. slots = <<>>
      BY <1>7, <2>1
    <3>2. ToSet(<<>>) = {}
      BY DEF ToSet
    <3> HIDE DEF slots, inherited
    <3> QED BY <2>1, <3>1, <3>2
  <2>2. CASE root # None
    <3>1. slots = inherited \o NewSlots(inherited)
      BY <2>2
    <3> HIDE DEF slots, inherited
    <3> QED BY <1>1, <1>7, <2>2, <3>1, NewSlotsAre DEF IInv
  <2> QED BY <2>1, <2>2
<1>12. p # None => inherited = table[p].slots /\ above = table[p].root
  OBVIOUS
<1>13. p = None => ToSet(inherited) = {} /\ above = None
  BY DEF ToSet
<1> HIDE DEF r, root, slots, inherited, above
<1>14. \A d \in D : /\ table'[d].parent = table[d].parent
                    /\ table'[d].fields = table[d].fields
                    /\ table'[d].abstract = table[d].abstract
  BY <1>8, <1>9
<1>15. \A k \in DOMAIN prog : k # at => prog[k].name # n
  BY <1>1, <1>5 DEF IInv, TableOK, NamesOK
<1>16. \A k \in DOMAIN prog : Parent(k)' = Parent(k)
  BY <1>1, <1>4, <1>5, <1>14 DEF Parent
<1>17. \A k \in DOMAIN prog : k < at + 1 => Parent(k) # n /\ (k = at \/ (k < at /\ k # at))
  <2>1. \A k \in DOMAIN prog : k < at + 1 => k <= at /\ (k = at \/ (k < at /\ k # at))
    BY <1>3
  <2> QED BY <1>1, <1>5, <2>1, NotAbove DEF IInv
<1>18. \A k \in DOMAIN prog : /\ Passed(k)' = Passed(k)
                              /\ Defines(k)' = Defines(k) /\ Own(k)' = Own(k)
  BY <1>1, <1>4, <1>5, <1>14, <1>16 DEF Passed, Defines, Own
<1>19. Types'
  <2>1. "0c" \in After0a /\ "0c" # "panicked" /\ "0c" # "0a"
    BY DEF After0a
  <2>2. at + 1 \in 1 .. Len(prog) + 1
    BY <1>3
  <2> HIDE DEF D, n, p
  <2> QED BY <1>1, <1>9, <2>1, <2>2, TypesNow, TypesStep DEF IInv
<1>20. NamesOK'
  BY <1>1, <1>5, <1>6, <1>9 DEF IInv, TableOK, NamesOK, Declared
<1>21. TreeOK'
  BY <1>1, <1>5, <1>16 DEF IInv, TableOK, TreeOK
<1>22. FieldsOK'
  BY <1>1, <1>4, <1>5, <1>14, <1>16 DEF IInv, TableOK, FieldsOK
<1>23. AbstractOK'
  BY <1>1, <1>4, <1>5, <1>14, <1>18 DEF IInv, TableOK, AbstractOK
<1>24. LinksOK'
  <2> SUFFICES ASSUME NEW k \in DOMAIN prog
      PROVE  /\ ~ (k < at + 1) => table'[prog[k].name].root = None
             /\ table'[prog[k].name].root = None => table'[prog[k].name].slots = <<>>
             /\ k < at + 1 => ToSet(table'[prog[k].name].slots) \subseteq SlotsFrom(k)' \cup Own(k)
             /\ k < at + 1 /\ table'[prog[k].name].root = None =>
                  table'[prog[k].name].abstract = {}
             /\ k < at + 1 /\ Parent(k) # None /\ table'[Parent(k)].root # None =>
                  /\ table'[prog[k].name].root = table'[Parent(k)].root
                  /\ IsPrefix(table'[Parent(k)].slots, table'[prog[k].name].slots)
    BY <1>1, <1>5, <1>16, <1>18 DEF LinksOK, NeedsVtable
  <2>0. k < at + 1 => /\ Parent(k) # None => table'[Parent(k)] = table[Parent(k)]
                      /\ SlotsFrom(k)' = SlotsFrom(k)
    BY <1>4, <1>5, <1>9, <1>16, <1>17 DEF SlotsFrom
  <2>1. CASE k = at
    <3>1. table'[prog[k].name] = r /\ k < at + 1
      BY <1>3, <1>9, <2>1
    <3>2. ToSet(slots) \subseteq SlotsFrom(k)' \cup Own(k)
      BY <1>11, <1>12, <1>13, <2>0, <2>1, <3>1 DEF SlotsFrom
    <3>3. r.root = None => r.abstract = {}
      BY <1>8, <1>10 DEF IsAbstract
    <3>4. Parent(k) # None /\ table'[Parent(k)].root # None =>
                  /\ r.root = table'[Parent(k)].root
                  /\ IsPrefix(table'[Parent(k)].slots, r.slots)
      BY <1>8, <1>10, <1>11, <1>12, <2>0, <2>1, <3>1
    <3> QED BY <1>8, <1>11, <3>1, <3>2, <3>3, <3>4
  <2>2. CASE k # at
    <3>1. table'[prog[k].name] = table[prog[k].name]
      BY <1>4, <1>5, <1>9, <1>15, <2>2
    <3>2. k < at + 1 <=> IsLinked(k)
      BY <1>3, <1>5, <2>2
    <3> QED BY <1>5, <2>0, <3>1, <3>2 DEF IInv, TableOK, LinksOK, NeedsVtable
  <2> QED BY <2>1, <2>2
<1>25. RootsOK'
  <2> SUFFICES ASSUME Rooted(prog)
      PROVE  \E S \in SUBSET DOMAIN prog :
               /\ InChains(prog, S)
               /\ \A k \in DOMAIN prog :
                    k < at + 1 => (table'[prog[k].name].root # None <=> k \in S)
    BY <1>1, <1>5 DEF RootsOK, NeedsVtable
  <2>1. PICK S \in SUBSET DOMAIN prog :
          /\ InChains(prog, S)
          /\ \A k \in DOMAIN prog : k < at => (table[prog[k].name].root # None <=> k \in S)
    BY <1>5 DEF IInv, TableOK, RootsOK, NeedsVtable
  <2>2. /\ Own(at) # {} => at \in S
        /\ \A j \in S : prog[j].name = prog[at].base => at \in S
        /\ at \in S => Own(at) # {} \/ \E j \in S : prog[j].name = prog[at].base
    BY <1>1, <2>1 DEF InChains, Own
  <2>3. p \notin {None, ABC} =>
          /\ p = prog[at].base
          /\ \E j \in DOMAIN prog : j < at /\ prog[j].name = p
    BY <1>1, <1>5 DEF IInv, TableOK, TreeOK
  <2>4. p = ABC => table[p].root = None /\ table[p].abstract = {}
    BY DEF IInv, TableOK, NamesOK
  <2>5. ASSUME NEW j \in DOMAIN prog, j < at, table[prog[j].name].abstract # {}
        PROVE  table[prog[j].name].root # None
    BY <1>5, <2>5 DEF IInv, TableOK, LinksOK
  <2>6. /\ Own(at) \subseteq table[n].abstract
        /\ table[n].abstract \subseteq Passed(at) \cup Own(at)
    BY <1>1, <1>5 DEF IInv, TableOK, AbstractOK
  <2>7. root # None => at \in S
    <3>1. CASE above # None
      BY <1>12, <1>13, <2>1, <2>2, <2>3, <2>4, <3>1
    <3>2. CASE Passed(at) # {}
      <4>1. p # None /\ table[p].abstract # {}
        BY <3>2 DEF Passed
      <4> QED BY <2>1, <2>2, <2>3, <2>4, <2>5, <4>1
    <3>3. CASE above = None /\ Passed(at) = {} /\ root # None
      BY <1>10, <2>2, <2>6, <3>3 DEF IsAbstract
    <3> QED BY <3>1, <3>2, <3>3
  <2>8. at \in S => root # None
    <3>1. CASE Own(at) # {}
      BY <1>10, <2>6, <3>1 DEF IsAbstract
    <3>2. ASSUME NEW j \in S, prog[j].name = prog[at].base PROVE root # None
      <4>1. j \in DOMAIN prog /\ prog[at].base # NoBase
        BY <3>2, ProgIs DEF IInv
      <4>2. j < at
        BY <1>1, <3>2, <4>1 DEF IInv, Types, BasesAbove
      <4>3. p = prog[j].name
        BY <1>1, <1>5, <3>2, <4>1 DEF IInv, TableOK, TreeOK
      <4>4. p # None
        BY <4>1, <4>3, ProgIs DEF IInv
      <4> QED BY <1>10, <1>12, <2>1, <4>1, <4>2, <4>3, <4>4
    <3> QED BY <2>2, <3>1, <3>2
  <2>9. ASSUME NEW k \in DOMAIN prog, k < at + 1
        PROVE  table'[prog[k].name].root # None <=> k \in S
    <3>1. CASE k = at
      BY <1>8, <1>9, <2>7, <2>8, <3>1
    <3>2. CASE k < at /\ k # at
      BY <1>4, <1>5, <1>9, <1>15, <2>1, <3>2
    <3> QED BY <1>17, <2>9, <3>1, <3>2
  <2> QED BY <2>1, <2>9
<1>26. LocalOK' /\ ObjectOK'
  BY <1>1, <1>2 DEF LocalOK, ObjectOK
<1> QED BY <1>19, <1>20, <1>21, <1>22, <1>23, <1>24, <1>25, <1>26 DEF IInv, TableOK

-----------------------------------------------------------------------------
(* A chain of the finished tree ends at a class without a parent. *)
LEMMA ChainClosed ==
  ASSUME Types, TableOK, phase \in After0b, NEW c \in DOMAIN table
  PROVE  /\ c \in ToSet(Chain(c)) /\ ToSet(Chain(c)) \subseteq DOMAIN table
         /\ Chain(c) \in Seq(DOMAIN table)
         /\ \A a \in ToSet(Chain(c)) :
              table[a].parent # None => table[a].parent \in ToSet(Chain(c))
<1> DEFINE N == Cardinality(DOMAIN table)
<1>1. Tree
  BY TableIs DEF TableOK
<1>2. N = Len(prog) + 1 /\ Len(prog) \in Nat /\ DOMAIN prog = 1 .. Len(prog)
  BY ProgIs DEF TableOK, NamesOK, After0b
<1>3. PICK up \in [0 .. N -> Lines] :
             /\ up[0] = <<c>>
             /\ \A k \in 1 .. N : up[k] = Climb(up[k - 1])
             /\ Chain(c) = up[N]
  BY <1>1, ChainIs
<1>4. \A k \in DOMAIN prog : Registered(k) /\ Opened(k)
  BY DEF Registered, Opened, Closed, After0a, After0b
<1>5. ASSUME NEW a \in DOMAIN table, table[a].parent # None
      PROVE  \E k \in DOMAIN prog :
               /\ prog[k].name = a
               /\ table[a].parent # ABC =>
                    \E j \in DOMAIN prog : j < k /\ prog[j].name = table[a].parent
  <2>1. a # ABC /\ phase # "rejected"
    BY <1>5 DEF TableOK, NamesOK, After0b
  <2>2. PICK k \in DOMAIN prog : prog[k].name = a
    BY <2>1 DEF TableOK, NamesOK
  <2>3. Parent(k) = table[a].parent
    BY <2>2 DEF Parent
  <2> QED BY <1>4, <1>5, <2>2, <2>3 DEF TableOK, TreeOK
<1>6. table[ABC].parent = None
  BY DEF TableOK, NamesOK
<1>7. \A j, k \in DOMAIN prog : prog[j].name = prog[k].name => j = k
  BY <1>4 DEF TableOK, NamesOK
<1> HIDE DEF N
<1> DEFINE Top(s) == table[Last(s)].parent
           Low(i) == \/ Top(up[i]) = None
                     \/ \E k \in DOMAIN prog : prog[k].name = Last(up[i]) /\ k + i <= Len(prog)
           Held(i) == /\ c \in ToSet(up[i])
                      /\ \A a \in ToSet(up[i]) :
                           \/ table[a].parent = None
                           \/ table[a].parent \in ToSet(up[i])
                           \/ a = Last(up[i])
           T == {i \in Nat : i \in 0 .. N => Low(i) /\ Held(i)}
<1>8. 0 \in T
  <2>1. Last(<<c>>) = c /\ ToSet(<<c>>) = {c}
    BY DEF Last, ToSet
  <2>2. table[c].parent # None => \E k \in DOMAIN prog : prog[k].name = c /\ k + 0 <= Len(prog)
    BY <1>2, <1>5
  <2> QED BY <1>3, <2>1, <2>2
<1>9. ASSUME NEW n \in Nat, n \in T PROVE n + 1 \in T
  <2> SUFFICES ASSUME n + 1 \in 0 .. N PROVE Low(n + 1) /\ Held(n + 1)
    OBVIOUS
  <2>1. n \in 0 .. N /\ n + 1 \in 1 .. N /\ Low(n) /\ Held(n)
    BY <1>2, <1>9
  <2>2. up[n] \in Lines /\ up[n + 1] = Climb(up[n])
    BY <1>3, <2>1
  <2>3. /\ Last(up[n]) \in DOMAIN table
        /\ Last(up[n]) \in ToSet(up[n])
        /\ ToSet(up[n + 1]) = ToSet(up[n]) \cup {Last(up[n + 1])}
        /\ Last(up[n + 1]) = IF Top(up[n]) = None THEN Last(up[n]) ELSE Top(up[n])
    BY <1>1, <2>2, ClimbIs
  <2>4. Low(n + 1)
    <3>1. CASE Top(up[n]) = None
      BY <2>3, <3>1
    <3>2. CASE Top(up[n]) # None
      <4>1. PICK k \in DOMAIN prog : prog[k].name = Last(up[n]) /\ k + n <= Len(prog)
        BY <2>1, <3>2
      <4>2. CASE Top(up[n]) = ABC
        BY <1>6, <2>3, <3>2, <4>2
      <4>3. CASE Top(up[n]) # ABC
        <5>1. PICK j \in DOMAIN prog : j < k /\ prog[j].name = Top(up[n])
          BY <1>5, <1>7, <2>3, <3>2, <4>1, <4>3
        <5>2. j + (n + 1) <= Len(prog)
          BY <1>2, <4>1, <5>1
        <5> QED BY <2>3, <3>2, <5>1, <5>2
      <4> QED BY <4>2, <4>3
    <3> QED BY <3>1, <3>2
  <2>5. Held(n + 1)
    BY <2>1, <2>3
  <2> QED BY <2>4, <2>5
<1>10. Nat \subseteq T
  <2> HIDE DEF T
  <2> QED BY <1>8, <1>9, UpTo
<1>11. Low(N) /\ Held(N)
  BY <1>2, <1>10
<1>12. Top(up[N]) = None
  BY <1>2, <1>11
<1>13. up[N] \in Lines
  BY <1>2, <1>3
<1>14. up[N] \in Seq(DOMAIN table)
  BY <1>13 DEF Lines
<1>15. ToSet(up[N]) \subseteq DOMAIN table
  BY <1>14 DEF ToSet
<1>16. \A a \in ToSet(up[N]) : table[a].parent # None => table[a].parent \in ToSet(up[N])
  BY <1>11, <1>12
<1> HIDE DEF Low
<1> QED BY <1>3, <1>11, <1>14, <1>15, <1>16

(* Every slot of a class is abstract in it or has a body up its chain. *)
LEMMA Covered ==
  ASSUME Types, TableOK, phase \in After0c, NEW k \in DOMAIN prog,
         NEW m \in ToSet(table[prog[k].name].slots)
  PROVE  \/ m \in table[prog[k].name].abstract
         \/ \E a \in ToSet(Chain(prog[k].name)) : <<a, m>> \in bodies
<1> DEFINE Cov(i) ==
             i \in DOMAIN prog =>
               \A x \in ToSet(table[prog[i].name].slots) :
                 \/ x \in table[prog[i].name].abstract
                 \/ \E a \in ToSet(Chain(prog[i].name)) : <<a, x>> \in bodies
           T == {n \in Nat : \A i \in 0 .. n : Cov(i)}
<1>1. Len(prog) \in Nat /\ DOMAIN prog = 1 .. Len(prog)
  BY ProgIs
<1>2. phase \in After0b /\ Tree /\ \A i \in DOMAIN prog :
        /\ Registered(i) /\ Opened(i) /\ Closed(i) /\ IsLinked(i)
        /\ prog[i].name \in DOMAIN table
        /\ Parent(i) \in DOMAIN table \cup {None}
  BY TableIs DEF TableOK, Registered, Opened, Closed, IsLinked, After0a, After0b, After0c
<1>3. 0 \in T
  BY <1>1
<1>4. ASSUME NEW n \in Nat, n \in T PROVE n + 1 \in T
  <2>1. Cov(n + 1)
    <3> SUFFICES ASSUME n + 1 \in DOMAIN prog,
                        NEW x \in ToSet(table[prog[n + 1].name].slots),
                        x \notin table[prog[n + 1].name].abstract
        PROVE  \E a \in ToSet(Chain(prog[n + 1].name)) : <<a, x>> \in bodies
      OBVIOUS
    <3> DEFINE c == prog[n + 1].name
               p == Parent(n + 1)
    <3>1. /\ c \in ToSet(Chain(c))
          /\ \A a \in ToSet(Chain(c)) :
               table[a].parent # None => table[a].parent \in ToSet(Chain(c))
      BY <1>2, ChainClosed
    <3>2. x \in SlotsFrom(n + 1) \cup Own(n + 1) /\ Own(n + 1) \subseteq table[c].abstract
          /\ Passed(n + 1) \subseteq table[c].abstract \cup Defines(n + 1)
      BY <1>2 DEF TableOK, LinksOK, AbstractOK
    <3>3. p # None /\ x \in ToSet(table[p].slots)
      BY <3>2 DEF SlotsFrom
    <3>4. p # ABC
      BY <3>3 DEF TableOK, NamesOK, ToSet
    <3>5. PICK j \in DOMAIN prog : j < n + 1 /\ prog[j].name = p
      BY <1>2, <3>3, <3>4 DEF TableOK, TreeOK
    <3>6. Cov(j)
      BY <1>1, <1>4, <3>5
    <3>7. CASE x \in table[p].abstract
      <4>1. x \in Passed(n + 1)
        BY <3>3, <3>7 DEF Passed
      <4>2. <<c, x>> \in bodies
        BY <3>2, <4>1 DEF Defines
      <4> QED BY <3>1, <4>2
    <3>8. ASSUME NEW a \in ToSet(Chain(p)), <<a, x>> \in bodies
          PROVE  \E b \in ToSet(Chain(c)) : <<b, x>> \in bodies
      <4>1. p \in DOMAIN table /\ p \in ToSet(Chain(c))
        BY <1>2, <3>1, <3>3 DEF Parent
      <4>2. ToSet(Chain(p)) \subseteq ToSet(Chain(c))
        <5> DEFINE Q == ToSet(Chain(c))
        <5>1. p \in Q /\ \A b \in DOMAIN table :
                b \in Q /\ table[b].parent # None => table[b].parent \in Q
          BY <3>1, <4>1
        <5> HIDE DEF Q, p
        <5>2. ToSet(Chain(p)) \subseteq Q \cap DOMAIN table
          BY <1>2, <4>1, <5>1, ChainWithin
        <5> QED BY <5>2 DEF Q
      <4> QED BY <3>8, <4>2
    <3> QED BY <3>3, <3>5, <3>6, <3>7, <3>8
  <2>2. \A i \in 0 .. n + 1 : i \in 0 .. n \/ i = n + 1
    OBVIOUS
  <2> HIDE DEF Cov
  <2> QED BY <1>4, <2>1, <2>2
<1>5. Nat \subseteq T
  <2> HIDE DEF T
  <2> QED BY <1>3, <1>4, UpTo
<1>6. k \in Nat /\ k \in 0 .. k
  BY <1>1
<1>7. Cov(k)
  <2> HIDE DEF Cov
  <2> QED BY <1>5, <1>6
<1> QED BY <1>7

-----------------------------------------------------------------------------
(* The vtable types, and the classes without a vtable constant. *)
LEMMA EmitKeeps ==
  ASSUME IInv, EmitTypes \/ SkipVtable, UNCHANGED objVars
  PROVE  IInv'
<1>1. /\ prog' = prog /\ item' = item /\ table' = table
      /\ fields' = fields /\ unimplemented' = unimplemented /\ sigs' = sigs
      /\ bodies' = bodies /\ vtable' = vtable /\ self' = self /\ cells' = cells
      /\ phase \in {"types", "vtables"} /\ phase' = "vtables"
      /\ at' = at \/ (at \in DOMAIN prog /\ at' = at + 1)
  BY DEF EmitTypes, SkipVtable, source, local, funcs, consts, objVars, InRange
<1>2. self = None
  BY <1>1 DEF IInv, ObjectOK
<1>3. Len(prog) \in Nat /\ DOMAIN prog = 1 .. Len(prog)
  BY ProgIs DEF IInv
<1>4. Types'
  <2>1. at' \in 1 .. Len(prog) + 1
    BY <1>1, <1>3, TypesNow DEF IInv
  <2>2. "vtables" \in After0a /\ "vtables" # "panicked" /\ "vtables" # "0a"
    BY DEF After0a
  <2>3. table \in [DOMAIN table -> Rec(DOMAIN table)]
    BY DEF IInv, Types
  <2> QED BY <1>1, <2>1, <2>2, <2>3, TypesNow, TypesStep DEF IInv
<1>5. ASSUME NEW k \in DOMAIN prog
      PROVE  /\ Registered(k)' = Registered(k) /\ Opened(k)' = Opened(k)
             /\ Closed(k)' = Closed(k) /\ IsLinked(k)' = IsLinked(k)
  BY <1>1 DEF Registered, Opened, Closed, IsLinked, After0a, After0b, After0c
<1>6. TableOK'
  <2>1. \A c \in DOMAIN table : Same(c)
    BY <1>1 DEF Same
  <2>2. phase # "rejected" /\ phase' # "rejected" /\ phase # "0a" /\ phase' # "0a"
    BY <1>1
  <2> QED BY <1>1, <1>5, <2>1, <2>2, Quiet DEF IInv
<1>7. LocalOK' /\ ObjectOK'
  BY <1>1, <1>2 DEF LocalOK, ObjectOK
<1> QED BY <1>4, <1>6, <1>7 DEF IInv

(* A class with a vtable constant has a body for every slot: the panic of   *)
(* build_vtable_section is not reached.                                     *)
LEMMA Filled ==
  ASSUME IInv, phase = "vtables", at \in DOMAIN prog, Emits(Class),
         NEW k \in DOMAIN table[Class].slots
  PROVE  /\ Resolve(Class, table[Class].slots[k], bodies) # None
         /\ <<Resolve(Class, table[Class].slots[k], bodies), table[Class].slots[k]>>
              \in bodies
<1> DEFINE c == Class
           m == table[Class].slots[k]
<1>1. c = prog[at].name /\ phase \in After0c /\ phase \in After0b
      /\ Registered(at)
  BY DEF Class, After0b, After0c, Registered, After0a
<1>2. c \in DOMAIN table /\ Tree
  BY <1>1, TableIs DEF IInv, TableOK
<1>3. m \in ToSet(table[c].slots) /\ table[c].abstract = {}
  BY DEF ToSet, Emits, IsAbstract
<1>4. PICK a \in ToSet(Chain(c)) : <<a, m>> \in bodies
  BY <1>1, <1>3, Covered DEF IInv
<1>5. Chain(c) \in Seq(DOMAIN table) /\ ToSet(Chain(c)) \subseteq DOMAIN table
  BY <1>1, <1>2, ChainClosed DEF IInv
<1>6. DOMAIN Chain(c) \subseteq Nat /\ None \notin ToSet(Chain(c))
  BY <1>2, <1>5 DEF Tree
<1> HIDE DEF c, m
<1>7. Resolve(c, m, bodies) # None /\ <<Resolve(c, m, bodies), m>> \in bodies
  BY <1>4, <1>6, Resolved
<1> QED BY <1>7 DEF c, m

(* A vtable constant is a sequence of functions with bodies. *)
LEMMA EmitVtableKeeps ==
  ASSUME IInv, EmitVtable, UNCHANGED objVars
  PROVE  IInv'
<1> DEFINE c == Class
           slots == table[c].slots
           v == [k \in DOMAIN slots |-> <<Resolve(c, slots[k], bodies), slots[k]>>]
<1>1. /\ prog' = prog /\ item' = item /\ table' = table
      /\ fields' = fields /\ unimplemented' = unimplemented /\ sigs' = sigs
      /\ bodies' = bodies /\ self' = self /\ cells' = cells
      /\ phase = "vtables" /\ at \in DOMAIN prog /\ at' = at + 1 /\ Emits(c)
      /\ phase' = IF {k \in DOMAIN slots : Resolve(c, slots[k], bodies) = None} = {}
                  THEN phase ELSE "panicked"
      /\ vtable' = [d \in DOMAIN vtable \cup {c} |-> IF d = c THEN v ELSE vtable[d]]
  BY DEF EmitVtable, source, local, funcs, consts, objVars, InRange
<1>2. self = None
  BY <1>1 DEF IInv, ObjectOK
<1>3. Len(prog) \in Nat /\ DOMAIN prog = 1 .. Len(prog)
  BY ProgIs DEF IInv
<1>4. \A k \in DOMAIN slots : /\ Resolve(c, slots[k], bodies) # None
                              /\ <<Resolve(c, slots[k], bodies), slots[k]>> \in bodies
  BY <1>1, Filled
<1>5. phase' = "vtables"
  BY <1>1, <1>4
<1>6. slots \in Seq(Nat)
  <2>1. c \in DOMAIN table /\ \A d \in DOMAIN table : table[d] \in Rec(DOMAIN table)
    BY <1>1, TableIs DEF IInv, TableOK, Class, Registered, After0a
  <2> QED BY <2>1, RecFields
<1> HIDE DEF c, slots
<1>7. v \in Seq(Declared \X Nat)
  <2>1. \A k \in DOMAIN slots : v[k] \in Declared \X Nat
    BY <1>4, TypesNow DEF IInv
  <2>2. DOMAIN slots = 1 .. Len(slots) /\ Len(slots) \in Nat
    BY <1>6
  <2>3. v = [k \in 1 .. Len(slots) |-> v[k]]
    BY <2>2
  <2> HIDE DEF v
  <2> QED BY <2>1, <2>2, <2>3
<1> HIDE DEF v
<1>8. Types'
  <2>1. at' \in 1 .. Len(prog) + 1
    BY <1>1, <1>3
  <2>2. "vtables" \in After0a /\ "vtables" # "panicked" /\ "vtables" # "0a"
    BY DEF After0a
  <2>3. table \in [DOMAIN table -> Rec(DOMAIN table)]
    BY DEF IInv, Types
  <2>4. \A d \in DOMAIN vtable' : vtable'[d] \in Seq(Declared \X Nat)
    BY <1>1, <1>7, TypesNow DEF IInv
  <2> QED BY <1>1, <1>5, <2>1, <2>2, <2>3, <2>4, TypesNow, TypesStep DEF IInv
<1>9. ASSUME NEW k \in DOMAIN prog
      PROVE  /\ Registered(k)' = Registered(k) /\ Opened(k)' = Opened(k)
             /\ Closed(k)' = Closed(k) /\ IsLinked(k)' = IsLinked(k)
  BY <1>1, <1>5 DEF Registered, Opened, Closed, IsLinked, After0a, After0b, After0c
<1>10. TableOK'
  <2>1. \A d \in DOMAIN table : Same(d)
    BY <1>1 DEF Same
  <2>2. phase # "rejected" /\ phase' # "rejected" /\ phase # "0a" /\ phase' # "0a"
    BY <1>1, <1>5
  <2> QED BY <1>1, <1>9, <2>1, <2>2, Quiet DEF IInv
<1>11. LocalOK' /\ ObjectOK'
  BY <1>1, <1>2, <1>5 DEF LocalOK, ObjectOK
<1> QED BY <1>8, <1>10, <1>11 DEF IInv

-----------------------------------------------------------------------------
(* The instance. *)

(* In a program whose chains have roots, the parent of a class with a       *)
(* vtable has one too.                                                      *)
LEMMA ParentCarries ==
  ASSUME Types, TableOK, Rooted(prog), NEW k \in DOMAIN prog, IsLinked(k),
         NeedsVtable(prog[k].name), Parent(k) \notin {None, ABC}
  PROVE  NeedsVtable(Parent(k))
<1>1. PICK S \in SUBSET DOMAIN prog :
        /\ InChains(prog, S)
        /\ \A j \in DOMAIN prog : IsLinked(j) => (NeedsVtable(prog[j].name) <=> j \in S)
  BY DEF TableOK, RootsOK
<1>2. Len(prog) \in Nat /\ DOMAIN prog = 1 .. Len(prog)
  BY ProgIs
<1>3. Opened(k)
  BY DEF IsLinked, Opened, Closed, After0b, After0c
<1>4. PICK j \in DOMAIN prog : j < k /\ prog[j].name = Parent(k)
  BY <1>3 DEF TableOK, TreeOK
<1>5. prog[j].name = prog[k].base
  BY <1>3, <1>4 DEF TableOK, TreeOK
<1>6. j \in S
  BY <1>1, <1>5 DEF InChains
<1>7. IsLinked(j)
  <2>1. at \in Nat
    BY <1>2, TypesNow
  <2>2. j \in Nat /\ k \in Nat
    BY <1>2
  <2> QED BY <1>4, <2>1, <2>2 DEF IsLinked
<1> QED BY <1>1, <1>4, <1>6, <1>7

(* So does every class it may be viewed as. *)
LEMMA ViewCarries ==
  ASSUME Types, TableOK, Rooted(prog), phase \in After0c, NEW c \in DOMAIN table,
         NeedsVtable(c), NEW a \in ToSet(Chain(c)), a # ABC
  PROVE  NeedsVtable(a) /\ a \in DOMAIN table
<1> DEFINE Q == {b \in DOMAIN table : b = ABC \/ NeedsVtable(b)}
<1>1. Tree
  BY TableIs DEF TableOK
<1>2. ASSUME NEW b \in DOMAIN table, b \in Q, table[b].parent # None
      PROVE  table[b].parent \in Q
  <2>1. b # ABC
    BY <1>2 DEF TableOK, NamesOK
  <2>2. PICK k \in DOMAIN prog : prog[k].name = b
    BY <2>1 DEF TableOK, NamesOK, After0c
  <2>3. Parent(k) = table[b].parent /\ IsLinked(k)
    BY <2>2 DEF Parent, IsLinked
  <2>4. table[b].parent \in DOMAIN table
    BY <1>1, <1>2 DEF Tree
  <2> QED BY <1>2, <2>1, <2>2, <2>3, <2>4, ParentCarries
<1>3. ToSet(Chain(c)) \subseteq Q \cap DOMAIN table
  <2>1. c \in Q
    OBVIOUS
  <2> HIDE DEF Q
  <2> QED BY <1>1, <1>2, <2>1, ChainWithin
<1> QED BY <1>3

(* A step of the compiled program leaves the compiler's tables alone. *)
LEMMA StaysTyped ==
  ASSUME IInv, UNCHANGED classVars, ObjectOK'
  PROVE  IInv'
<1>1. /\ prog' = prog /\ phase' = phase /\ at' = at /\ item' = item /\ table' = table
      /\ fields' = fields /\ unimplemented' = unimplemented /\ sigs' = sigs
      /\ bodies' = bodies /\ vtable' = vtable
  BY DEF classVars, source, cursor, local, funcs, consts
<1>2. Types'
  BY <1>1 DEF IInv, Types, Declared
<1>3. NamesOK' /\ TreeOK' /\ FieldsOK'
  BY <1>1 DEF IInv, TableOK, NamesOK, TreeOK, FieldsOK, Declared,
     Registered, Opened, Closed, Parent
<1>4. AbstractOK' /\ LinksOK'
  BY <1>1 DEF IInv, TableOK, AbstractOK, LinksOK, Registered, Closed, IsLinked,
     Parent, Own, Passed, SlotsFrom, Defines, NeedsVtable
<1>5. RootsOK' /\ LocalOK'
  BY <1>1 DEF IInv, TableOK, RootsOK, LocalOK, Rooted, IsLinked, NeedsVtable, Parent,
     Own, Passed, Defines
<1> QED BY <1>2, <1>3, <1>4, <1>5 DEF IInv, TableOK

(* A constructor stores the vtable pointer in the first cell. *)
LEMMA NewKeeps ==
  ASSUME IInv, NEW c \in DOMAIN table \ {ABC}, New(c)
  PROVE  IInv'
<1>1. /\ UNCHANGED classVars /\ table' = table /\ prog' = prog
      /\ phase = "done" /\ phase' = "done" /\ self' = c
      /\ DOMAIN cells' = DOMAIN Layout(c)
      /\ \A k \in DOMAIN Layout(c) : NeedsVtable(c) /\ k = 1 => cells'[k] = Pointer(c)
  BY DEF New, classVars, source, cursor
<1>2. NeedsVtable(c) => 1 \in DOMAIN Layout(c)
  <2>1. table[c].fields \in Seq(Nat)
    BY TableIs, RecFields DEF IInv, TableOK
  <2> QED BY <2>1 DEF Layout
<1>3. Layout(c)' = Layout(c) /\ NeedsVtable(c)' = NeedsVtable(c)
  BY <1>1 DEF Layout, NeedsVtable
<1>4. ObjectOK'
  BY <1>1, <1>2, <1>3 DEF ObjectOK, Rooted, Layout, NeedsVtable, Pointer
<1> QED BY <1>1, <1>4, StaysTyped

(* An assignment, through any view, misses the vtable pointer: the view has *)
(* a vtable, so its fields are counted from the second cell.                *)
LEMMA SetFieldKeeps ==
  ASSUME IInv, NEW view \in Views, NEW f \in ToSet(table[view].fields), NEW w,
         SetField(view, f, w)
  PROVE  IInv'
<1>1. /\ UNCHANGED classVars /\ table' = table /\ prog' = prog
      /\ phase = "done" /\ phase' = "done" /\ self' = self /\ self # None
      /\ cells' = [k \in DOMAIN cells |-> IF k = FieldSlot(view, f) THEN w ELSE cells[k]]
  BY DEF SetField, Running, classVars, source, cursor
<1>2. /\ self \in DOMAIN table \ {ABC} /\ DOMAIN cells = DOMAIN Layout(self)
      /\ Rooted(prog) /\ NeedsVtable(self) => cells[1] = Pointer(self)
  BY <1>1 DEF IInv, ObjectOK
<1>3. view \in ToSet(Chain(self)) /\ view # ABC
  BY <1>1 DEF Views
<1>4. Rooted(prog) /\ NeedsVtable(self) =>
        /\ 1 \in DOMAIN cells
        /\ FieldSlot(view, f) # 1
  <2> SUFFICES ASSUME Rooted(prog), NeedsVtable(self)
      PROVE  1 \in DOMAIN cells /\ FieldSlot(view, f) # 1
    OBVIOUS
  <2>1. NeedsVtable(view) /\ view \in DOMAIN table
    BY <1>1, <1>2, <1>3, ViewCarries DEF IInv, After0c
  <2>2. table[view].fields \in Seq(Nat) /\ table[self].fields \in Seq(Nat)
    BY <1>2, <2>1, TableIs, RecFields DEF IInv, TableOK
  <2> DEFINE P == Positions(table[view].fields, f)
  <2>3. P # {} /\ P \subseteq Nat \ {0}
    BY <2>2 DEF Positions, ToSet
  <2>4. Min(P) \in P
    <3> HIDE DEF P
    <3> QED BY <2>3, MinIs
  <2>5. FieldSlot(view, f) = Min(P) + 1
    BY <2>1 DEF FieldSlot
  <2> HIDE DEF P
  <2>6. FieldSlot(view, f) # 1
    <3>1. Min(P) \in Nat /\ Min(P) # 0
      BY <2>3, <2>4
    <3> QED BY <2>5, <3>1
  <2>7. 1 \in DOMAIN cells
    BY <1>2, <2>2 DEF Layout
  <2> QED BY <2>6, <2>7
<1>5. ObjectOK'
  BY <1>1, <1>2, <1>4 DEF ObjectOK, Rooted, Layout, NeedsVtable, Pointer
<1> QED BY <1>1, <1>5, StaysTyped

(* A step on the instance keeps the invariant. *)
LEMMA ObjectStepKeeps ==
  ASSUME IInv, ObjectStep
  PROVE  IInv'
<1>1. ASSUME NEW c \in DOMAIN table \ {ABC}, New(c) PROVE IInv'
  BY <1>1, NewKeeps
<1>2. ASSUME NEW view \in Views, NEW f \in ToSet(table[view].fields), NEW w \in Vals,
             SetField(view, f, w)
      PROVE  IInv'
  BY <1>2, SetFieldKeeps
<1>3. ASSUME NEW view, NEW x,
             GetField(view, x) \/ CallVirtual(view, x) \/ CallDirect(view, x)
      PROVE  IInv'
  <2>1. UNCHANGED classVars /\ self' = self /\ cells' = cells
        /\ table' = table /\ prog' = prog /\ phase' = phase
    BY <1>3 DEF GetField, CallVirtual, CallDirect, classVars, source, cursor
  <2>2. ObjectOK'
    BY <2>1 DEF IInv, ObjectOK, Rooted, Layout, NeedsVtable, Pointer
  <2> QED BY <2>1, <2>2, StaysTyped
<1> QED BY <1>1, <1>2, <1>3 DEF ObjectStep

-----------------------------------------------------------------------------
(* The invariant holds before the first pass. *)
LEMMA Starts ==
  ASSUME \A p \in Programs : BasesAbove(p), ObjInit
  PROVE  IInv
<1>1. /\ prog \in Programs /\ phase = "0a" /\ at = 1 /\ item = 0
      /\ table = [c \in {ABC} |-> NewClass] /\ fields = <<>> /\ unimplemented = {}
      /\ sigs = {} /\ bodies = {} /\ vtable = [c \in {} |-> <<>>] /\ self = None
  BY DEF ObjInit, Init
<1>2. prog \in Seq(ToSet(prog)) /\ Len(prog) \in Nat /\ DOMAIN prog = 1 .. Len(prog)
  <2>1. prog \in Seq(ToSet(prog))
    BY <1>1, ProgramsAssumption
  <2> QED BY <2>1
<1>3. DOMAIN table = {ABC} /\ table[ABC] = NewClass
  BY <1>1
<1>4. Types
  <2>1. NewClass \in Rec({ABC})
    BY DEF NewClass, Rec
  <2>2. table \in [{ABC} -> Rec({ABC})]
    BY <1>1, <2>1
  <2> QED BY <1>1, <1>2, <1>3, <2>2 DEF Types
<1>5. \A k \in DOMAIN prog :
        ~ Registered(k) /\ ~ Opened(k) /\ ~ Closed(k) /\ ~ IsLinked(k)
  BY <1>1, <1>2 DEF Registered, Opened, Closed, IsLinked, After0a, After0b, After0c
<1>6. NamesOK
  <2>1. IsFiniteSet({ABC}) /\ Cardinality({ABC}) = 1
    BY FS_Singleton
  <2> QED BY <1>1, <1>3, <1>5, <2>1 DEF NamesOK, NewClass
<1>7. TreeOK /\ FieldsOK /\ AbstractOK
  BY <1>5 DEF TreeOK, FieldsOK, AbstractOK
<1>8. LinksOK
  BY <1>5 DEF LinksOK
<1>9. RootsOK
  BY <1>5 DEF RootsOK, Rooted
<1>10. LocalOK /\ ObjectOK
  BY <1>1 DEF LocalOK, ObjectOK
<1> QED BY <1>4, <1>6, <1>7, <1>8, <1>9, <1>10 DEF IInv, TableOK

(* Every step of the compiler and of its program keeps it. *)
LEMMA StepKeeps ==
  ASSUME IInv, [Next]_allVars
  PROVE  IInv'
<1>1. CASE CompileStep
  <2> USE <1>1 DEF CompileStep
  <2>1. CASE Register
    BY <2>1, RegisterKeeps
  <2>2. CASE RejectDuplicateClass \/ RejectUnknownBase \/ RejectDuplicateField
             \/ RejectDuplicateMethod
    <3>1. Reject /\ phase \in {"0a", "0b"}
      BY <2>2 DEF RejectDuplicateClass, RejectUnknownBase, RejectDuplicateField,
                  RejectDuplicateMethod, AtItem
    <3> QED BY <3>1, RejectKeeps
  <2>3. CASE NextPass("0a", "0b") \/ NextPass("0b", "0c")
             \/ NextPass("0c", "types") \/ NextPass("vtables", "done")
    BY <2>3, NextPassKeeps
  <2>4. CASE OpenClass
    BY <2>4, OpenClassKeeps
  <2>5. CASE CloseClass
    BY <2>5, CloseClassKeeps
  <2>6. CASE AddField
    BY <2>6, AddFieldKeeps
  <2>7. CASE AddStatic \/ AddAbstract \/ AddMethod
    BY <2>7, AddKeeps
  <2>8. CASE LinkClass
    BY <2>8, LinkClassKeeps
  <2>9. CASE EmitTypes \/ SkipVtable
    BY <2>9, EmitKeeps
  <2>10. CASE EmitVtable
    BY <2>10, EmitVtableKeeps
  <2> QED BY <2>1, <2>2, <2>3, <2>4, <2>5, <2>6, <2>7, <2>8, <2>9, <2>10
          DEF Compile, Check, Emit
<1>2. CASE ObjectStep
  BY <1>2, ObjectStepKeeps
<1>3. CASE UNCHANGED allVars
  <2>1. UNCHANGED classVars /\ self' = self /\ cells' = cells
        /\ table' = table /\ prog' = prog /\ phase' = phase
    BY <1>3 DEF allVars, objVars, classVars, source, cursor
  <2>2. ObjectOK'
    BY <2>1 DEF IInv, ObjectOK, Rooted, Layout, NeedsVtable, Pointer
  <2> QED BY <2>1, <2>2, StaysTyped
<1> QED BY <1>1, <1>2, <1>3 DEF Next

-----------------------------------------------------------------------------
(* The invariant has every type. *)
LEMMA TypeOKHolds ==
  ASSUME IInv
  PROVE  ClassTypeOK
<1>1. /\ phase \in After0a \cup {"0a", "rejected"}
      /\ at \in 1 .. Len(prog) + 1 /\ item \in Nat
      /\ bodies \subseteq sigs /\ sigs \subseteq Declared \X Nat
      /\ \A c \in DOMAIN vtable : vtable[c] \in Seq(Declared \X Nat)
  BY TypesNow DEF IInv
<1>2. ABC \in DOMAIN table /\ DOMAIN table \subseteq Declared \cup {ABC}
  BY DEF IInv, TableOK, NamesOK
<1>3. \A c \in DOMAIN table :
        /\ DOMAIN table[c] = DOMAIN NewClass
        /\ table[c].parent \in DOMAIN table \cup {None}
        /\ table[c].root \in DOMAIN table \cup {None}
        /\ table[c].slots \in Seq(Nat) /\ table[c].fields \in Seq(Nat)
        /\ table[c].abstract \subseteq Nat
  BY TableIs, RecFields DEF IInv, TableOK
<1> QED BY <1>1, <1>2, <1>3 DEF ClassTypeOK, After0a

(* The classes of Linked are the linked ones. *)
LEMMA LinkedIs ==
  ASSUME IInv, NEW c \in Linked
  PROVE  /\ \E k \in DOMAIN prog : prog[k].name = c /\ IsLinked(k)
         /\ c \in DOMAIN table
<1>1. Len(prog) \in Nat /\ DOMAIN prog = 1 .. Len(prog) /\ at \in 1 .. Len(prog) + 1
  BY ProgIs, TypesNow DEF IInv
<1>2. PICK k \in DOMAIN prog : prog[k].name = c /\ IsLinked(k)
  <2>1. CASE phase = "0c"
    <3>1. PICK k \in 1 .. at - 1 : prog[k].name = c
      BY <2>1 DEF Linked
    <3>2. k \in DOMAIN prog /\ k < at
      BY <1>1
    <3> QED BY <2>1, <3>1, <3>2 DEF IsLinked
  <2>2. CASE phase # "0c"
    BY <2>2 DEF Linked, Declared, IsLinked, After0c
  <2> QED BY <2>1, <2>2
<1>3. Registered(k)
  BY <1>2 DEF IsLinked, Registered, After0a, After0c
<1>4. c \in DOMAIN table
  BY <1>2, <1>3 DEF IInv, TableOK, NamesOK
<1> QED BY <1>2, <1>4

(* Prefixes of slots add up along a chain. *)
LEMMA SlotsHold ==
  ASSUME IInv
  PROVE  SlotPrefix
<1> SUFFICES ASSUME NEW c \in Linked, NEW a \in ToSet(Chain(c)), NeedsVtable(a)
    PROVE  IsPrefix(table[a].slots, table[c].slots) /\ table[a].root = table[c].root
  BY DEF SlotPrefix
<1>1. PICK k \in DOMAIN prog : prog[k].name = c /\ IsLinked(k) /\ c \in DOMAIN table
  BY LinkedIs
<1>2. Tree /\ \A b \in DOMAIN table : table[b].slots \in Seq(Nat)
  BY TableIs, RecFields DEF IInv, TableOK
<1> DEFINE Q == {b \in DOMAIN table :
                   /\ b = ABC \/ \E j \in DOMAIN prog : prog[j].name = b /\ IsLinked(j)
                   /\ NeedsVtable(b) => /\ IsPrefix(table[b].slots, table[c].slots)
                                        /\ table[b].root = table[c].root}
<1>3. c \in Q
  <2>1. IsPrefix(table[c].slots, table[c].slots)
    BY <1>1, <1>2, PrefixIs
  <2> QED BY <1>1, <2>1
<1>4. ASSUME NEW b \in DOMAIN table, b \in Q, table[b].parent # None
      PROVE  table[b].parent \in Q
  <2> DEFINE p == table[b].parent
  <2>1. b # ABC
    BY <1>4 DEF IInv, TableOK, NamesOK
  <2>2. PICK j \in DOMAIN prog : prog[j].name = b /\ IsLinked(j)
    BY <1>4, <2>1
  <2>3. Parent(j) = p /\ Opened(j)
    BY <2>2 DEF Parent, IsLinked, Opened, Closed, After0b, After0c
  <2>4. p \in DOMAIN table
    BY <1>2, <1>4 DEF Tree
  <2>5. p = ABC \/ \E i \in DOMAIN prog : prog[i].name = p /\ IsLinked(i)
    <3> SUFFICES ASSUME p # ABC
        PROVE  \E i \in DOMAIN prog : prog[i].name = p /\ IsLinked(i)
      OBVIOUS
    <3>1. PICK i \in DOMAIN prog : i < j /\ prog[i].name = p
      BY <1>4, <2>3 DEF IInv, TableOK, TreeOK
    <3>2. i \in Nat /\ j \in Nat /\ at \in Nat
      BY ProgIs, TypesNow DEF IInv
    <3> QED BY <2>2, <3>1, <3>2 DEF IsLinked
  <2>6. ASSUME NeedsVtable(p)
        PROVE  IsPrefix(table[p].slots, table[c].slots) /\ table[p].root = table[c].root
    <3>1. table[b].root = table[p].root /\ IsPrefix(table[p].slots, table[b].slots)
      BY <1>4, <2>2, <2>3, <2>6 DEF IInv, TableOK, LinksOK
    <3>2. NeedsVtable(b)
      BY <2>6, <3>1 DEF NeedsVtable
    <3>3. IsPrefix(table[b].slots, table[c].slots) /\ table[b].root = table[c].root
      BY <1>4, <3>2
    <3>4. IsPrefix(table[p].slots, table[c].slots)
      BY <1>1, <1>2, <2>4, <3>1, <3>3, PrefixTrans
    <3> QED BY <3>1, <3>3, <3>4
  <2> QED BY <2>4, <2>5, <2>6
<1>5. ToSet(Chain(c)) \subseteq Q \cap DOMAIN table
  <2> HIDE DEF Q
  <2> QED BY <1>1, <1>2, <1>3, <1>4, ChainWithin
<1> QED BY <1>5

(* Layouts start with the parent's, vtable pointer included. *)
LEMMA LayoutsHold ==
  ASSUME IInv, Rooted(prog)
  PROVE  LayoutPrefix
<1> SUFFICES ASSUME NEW c \in Linked, table[c].parent # None
    PROVE  IsPrefix(Layout(table[c].parent), Layout(c))
  BY DEF LayoutPrefix
<1> DEFINE p == table[c].parent
           s == table[p].fields
           t == table[c].fields
<1>1. PICK k \in DOMAIN prog : prog[k].name = c /\ IsLinked(k) /\ c \in DOMAIN table
  BY LinkedIs
<1>2. Tree /\ \A b \in DOMAIN table : table[b].fields \in Seq(Nat)
  BY TableIs, RecFields DEF IInv, TableOK
<1>3. p \in DOMAIN table /\ s \in Seq(Nat) /\ t \in Seq(Nat)
  BY <1>1, <1>2 DEF Tree
<1>4. Parent(k) = p /\ Closed(k)
  BY <1>1 DEF Parent, IsLinked, Closed, After0b, After0c
<1>5. IsPrefix(s, t)
  BY <1>1, <1>4 DEF IInv, TableOK, FieldsOK
<1>6. NeedsVtable(p) => NeedsVtable(c)
  BY <1>1, <1>4 DEF IInv, TableOK, LinksOK, NeedsVtable
<1>7. NeedsVtable(c) => p = ABC \/ NeedsVtable(p)
  BY <1>1, <1>4, ParentCarries DEF IInv
<1>8. p = ABC => ~ NeedsVtable(p) /\ s = <<>>
  BY DEF IInv, TableOK, NamesOK, NeedsVtable
<1> HIDE DEF p, s, t
<1>9. Layout(p) = (IF NeedsVtable(p) THEN <<VtableCell>> ELSE <<>>) \o s
  BY DEF Layout, s
<1>10. Layout(c) = (IF NeedsVtable(c) THEN <<VtableCell>> ELSE <<>>) \o t
  BY DEF Layout, t
<1>11. s \in Seq(Int) /\ t \in Seq(Int) /\ VtableCell \in Int
  BY <1>3 DEF VtableCell
<1>12. /\ Len(s) \in Nat /\ Len(t) \in Nat /\ Len(s) <= Len(t)
       /\ \A i \in 1 .. Len(s) : s[i] = t[i]
  BY <1>3, <1>5, PrefixIs
<1>13. CASE NeedsVtable(p)
  <2> DEFINE u == <<VtableCell>> \o s
             v == <<VtableCell>> \o t
  <2>1. /\ u \in Seq(Int) /\ v \in Seq(Int) /\ Len(u) = Len(s) + 1 /\ Len(v) = Len(t) + 1
        /\ \A i \in 1 .. Len(s) + 1 : u[i] = IF i = 1 THEN VtableCell ELSE s[i - 1]
        /\ \A i \in 1 .. Len(t) + 1 : v[i] = IF i = 1 THEN VtableCell ELSE t[i - 1]
    BY <1>11
  <2>2. Layout(p) = u /\ Layout(c) = v
    BY <1>6, <1>9, <1>10, <1>13
  <2> HIDE DEF u, v
  <2>3. ASSUME NEW i \in 1 .. Len(u) PROVE u[i] = v[i]
    <3>1. i \in 1 .. Len(s) + 1 /\ i \in 1 .. Len(t) + 1
      BY <1>12, <2>1
    <3>2. i # 1 => i - 1 \in 1 .. Len(s)
      BY <1>12, <3>1
    <3> QED BY <1>12, <2>1, <3>1, <3>2
  <2>4. IsPrefix(u, v)
    BY <1>12, <2>1, <2>3, PrefixIs
  <2> QED BY <2>2, <2>4 DEF p
<1>14. CASE ~ NeedsVtable(p) /\ ~ NeedsVtable(c)
  <2>1. Layout(p) = s /\ Layout(c) = t
    BY <1>3, <1>9, <1>10, <1>14
  <2> QED BY <1>5, <2>1 DEF p
<1>15. CASE ~ NeedsVtable(p) /\ NeedsVtable(c)
  <2> DEFINE v == <<VtableCell>> \o t
  <2>1. Layout(p) = <<>> /\ Layout(c) = v
    BY <1>7, <1>8, <1>9, <1>10, <1>15
  <2>2. v \in Seq(Int) /\ <<>> \in Seq(Int) /\ Len(<<>>) = 0 /\ Len(v) \in Nat
    BY <1>11
  <2> HIDE DEF v
  <2>3. \E e \in Seq(Int) : e = <<>> /\ Len(e) = 0
    BY <2>2
  <2>4. IsPrefix(<<>>, v)
    <3>1. PICK e \in Seq(Int) : e = <<>> /\ Len(e) = 0
      BY <2>3
    <3>2. Len(e) <= Len(v) /\ \A i \in 1 .. Len(e) : e[i] = v[i]
      BY <2>2, <3>1
    <3>3. IsPrefix(e, v)
      BY <2>2, <3>2, PrefixIs
    <3> QED BY <3>1, <3>3
  <2> QED BY <2>1, <2>4 DEF p
<1> QED BY <1>13, <1>14, <1>15

(* The invariant holds in every state, provided bases come first. *)
LEMMA Inductive ==
  ASSUME \A p \in Programs : BasesAbove(p)
  PROVE  Spec => []IInv
<1>1. ObjInit => IInv
  BY Starts
<1>2. IInv /\ [Next]_allVars => IInv'
  BY StepKeeps
<1> QED BY <1>1, <1>2, PTL DEF Spec

(* Every variable has its type, whatever the programs: a parent and a root  *)
(* are classes of the table, and slots are numbers of names.                *)
THEOREM TypeCorrect ==
  ASSUME \A p \in Programs : BasesAbove(p)
  PROVE  Spec => []ClassTypeOK
<1>1. IInv => ClassTypeOK
  BY TypeOKHolds
<1> QED BY <1>1, Inductive, PTL

(* A class without abstract names has a body for each of its slots, its own *)
(* or inherited: the compiler does not panic in build_vtable_section.       *)
THEOREM NeverPanics ==
  ASSUME \A p \in Programs : BasesAbove(p)
  PROVE  Spec => []NoPanic
<1>1. IInv => NoPanic
  BY DEF IInv, Types, NoPanic
<1> QED BY <1>1, Inductive, PTL

(* A slot number computed for a class is good for the vtable of every class *)
(* below it, through any chain of bases.                                    *)
THEOREM SlotNumbersAgree ==
  ASSUME \A p \in Programs : BasesAbove(p)
  PROVE  Spec => []SlotPrefix
<1>1. IInv => SlotPrefix
  BY SlotsHold
<1> QED BY <1>1, Inductive, PTL

(* If no chain of vtables starts below a class outside it, a struct starts  *)
(* with the struct of its parent, so an upcast reads and writes the fields  *)
(* it names.                                                                *)
THEOREM LayoutsExtend ==
  ASSUME \A p \in Programs : BasesAbove(p), \A p \in Programs : Rooted(p)
  PROVE  Spec => []LayoutPrefix
<1>1. IInv => LayoutPrefix
  BY LayoutsHold DEF IInv, Types
<1> QED BY <1>1, Inductive, PTL

(* Under the same hypothesis no assignment to a field, through any view of  *)
(* the instance, overwrites the vtable pointer its constructor stored.      *)
THEOREM VtableSurvives ==
  ASSUME \A p \in Programs : BasesAbove(p), \A p \in Programs : Rooted(p)
  PROVE  Spec => []PointerIntact
<1>1. IInv => PointerIntact
  BY DEF IInv, Types, ObjectOK, PointerIntact
<1> QED BY <1>1, Inductive, PTL

-----------------------------------------------------------------------------
(* The objects of a program of classes are those of Python. *)

(* A walk along q from c: at most n steps, ending where q says None.        *)
Further(q, s) == IF q[Last(s)] = None THEN s ELSE Append(s, q[Last(s)])
Walk(q, D, g, c, n) ==
  /\ g \in [0 .. n -> {s \in Seq(D) : s # <<>>}]
  /\ g[0] = <<c>>
  /\ \A i \in 1 .. n : g[i] = Further(q, g[i - 1])

(* A class put before a walk. *)
LEMMA HeadTail ==
  ASSUME NEW D, NEW c \in D, NEW s \in Seq(D), s # <<>>
  PROVE  /\ <<c>> \o s \in Seq(D)
         /\ Last(<<c>> \o s) = Last(s) /\ Last(s) \in D
<1>1. Len(s) \in Nat /\ Len(s) > 0
  OBVIOUS
<1> DEFINE u == <<c>> \o s
<1>2. /\ u \in Seq(D) /\ Len(u) = Len(s) + 1
      /\ \A i \in 1 .. Len(s) : u[i + 1] = s[i]
  BY <1>1
<1>3. Last(u) = Last(s) /\ Last(s) \in D
  BY <1>1, <1>2 DEF Last
<1> QED BY <1>2, <1>3

(* An element put before a sequence, and another after it. *)
LEMMA HeadAppend ==
  ASSUME NEW D, NEW c \in D, NEW s \in Seq(D), NEW x \in D
  PROVE  Append(<<c>> \o s, x) = <<c>> \o Append(s, x)
<1> DEFINE u == <<c>> \o s
           v == Append(u, x)
           w == <<c>> \o Append(s, x)
<1>1. Len(s) \in Nat
  OBVIOUS
<1>2. /\ u \in Seq(D) /\ Len(u) = Len(s) + 1
      /\ u[1] = c /\ \A i \in 1 .. Len(s) : u[i + 1] = s[i]
  BY <1>1
<1>3. /\ v \in Seq(D) /\ Len(v) = Len(s) + 2
      /\ \A i \in 1 .. Len(s) + 1 : v[i] = u[i]
      /\ v[Len(s) + 2] = x
  BY <1>1, <1>2
<1>4. /\ w \in Seq(D) /\ Len(w) = Len(s) + 2
      /\ w[1] = c /\ \A i \in 1 .. Len(s) : w[i + 1] = s[i]
      /\ w[Len(s) + 2] = x
  BY <1>1
<1> HIDE DEF u, v, w
<1>5. ASSUME NEW i \in 1 .. Len(s) + 2 PROVE v[i] = w[i]
  <2>1. CASE i = 1
    BY <1>1, <1>2, <1>3, <1>4, <2>1
  <2>2. CASE i = Len(s) + 2
    BY <1>3, <1>4, <2>2
  <2>3. CASE i # 1 /\ i # Len(s) + 2
    <3> DEFINE j == i - 1
    <3>1. j \in 1 .. Len(s) /\ i = j + 1 /\ i \in 1 .. Len(s) + 1
      BY <1>1, <2>3
    <3> HIDE DEF j
    <3>2. u[j + 1] = s[j] /\ w[j + 1] = s[j] /\ v[j + 1] = u[j + 1]
      BY <1>2, <1>3, <1>4, <3>1
    <3> QED BY <3>1, <3>2
  <2> QED BY <2>1, <2>2, <2>3
<1>6. v = w
  BY <1>1, <1>3, <1>4, <1>5, SeqEqual
<1> QED BY <1>6 DEF v, w, u

(* A step of a walk is the same with a class before it. *)
LEMMA FurtherOn ==
  ASSUME NEW D, None \notin D, NEW q \in [D -> D \cup {None}],
         NEW c \in D, NEW s \in Seq(D), s # <<>>
  PROVE  Further(q, <<c>> \o s) = <<c>> \o Further(q, s)
<1> DEFINE x == q[Last(s)]
<1>1. Last(<<c>> \o s) = Last(s) /\ Last(s) \in D
  BY HeadTail
<1>2. x = None \/ x \in D
  BY <1>1
<1>3. x \in D => Append(<<c>> \o s, x) = <<c>> \o Append(s, x)
  <2> HIDE DEF x
  <2> QED BY HeadAppend
<1>4. /\ Further(q, <<c>> \o s) = IF x = None THEN <<c>> \o s ELSE Append(<<c>> \o s, x)
      /\ Further(q, s) = IF x = None THEN s ELSE Append(s, x)
  BY <1>1 DEF Further
<1> HIDE DEF x
<1> QED BY <1>2, <1>3, <1>4

(* A walk from a class without a next one stays there. *)
LEMMA WalkAlone ==
  ASSUME NEW D, None \notin D, NEW q \in [D -> D \cup {None}], NEW n \in Nat, n > 0,
         NEW c \in D, q[c] = None, NEW g, Walk(q, D, g, c, n)
  PROVE  g[n] = <<c>>
<1> DEFINE T == {i \in Nat : i \in 0 .. n => g[i] = <<c>>}
<1>1. 0 \in T
  BY DEF Walk
<1>2. ASSUME NEW i \in Nat, i \in T PROVE i + 1 \in T
  <2> SUFFICES ASSUME i + 1 \in 0 .. n PROVE g[i + 1] = <<c>>
    OBVIOUS
  <2>1. g[i] = <<c>> /\ g[i + 1] = Further(q, g[i])
    BY <1>2 DEF Walk
  <2>2. Last(<<c>>) = c
    BY DEF Last
  <2> QED BY <2>1, <2>2 DEF Further
<1>3. Nat \subseteq T
  <2> HIDE DEF T
  <2> QED BY <1>1, <1>2, UpTo
<1> QED BY <1>3

(* From a class with a next one, a walk goes on as from that, if it has     *)
(* ended one step before.                                                   *)
LEMMA WalkOn ==
  ASSUME NEW D, None \notin D, NEW q \in [D -> D \cup {None}], NEW n \in Nat, n > 0,
         NEW c \in D, NEW g, Walk(q, D, g, c, n), q[c] # None,
         NEW h, Walk(q, D, h, q[c], n), q[Last(h[n - 1])] = None
  PROVE  g[n] = <<c>> \o h[n]
<1> DEFINE b == q[c]
           T == {i \in Nat : i + 1 \in 1 .. n => g[i + 1] = <<c>> \o h[i]}
<1>0. b \in D
  OBVIOUS
<1>1. 0 \in T
  <2>0. 1 \in 1 .. n /\ 1 - 1 = 0
    OBVIOUS
  <2>1. g[1] = Further(q, g[0]) /\ g[0] = <<c>> /\ h[0] = <<b>>
    BY <2>0 DEF Walk
  <2>2. Last(<<c>>) = c
    BY DEF Last
  <2>3. g[1] = Append(<<c>>, b)
    BY <2>1, <2>2 DEF Further
  <2>4. Append(<<c>>, b) = <<c>> \o <<b>>
    BY <1>0
  <2>5. g[0 + 1] = <<c>> \o h[0]
    BY <2>1, <2>3, <2>4
  <2> QED BY <2>5
<1>2. ASSUME NEW i \in Nat, i \in T PROVE i + 1 \in T
  <2> SUFFICES ASSUME i + 2 \in 1 .. n PROVE g[i + 2] = <<c>> \o h[i + 1]
    OBVIOUS
  <2>1. /\ g[i + 1] = <<c>> \o h[i]
        /\ i \in 0 .. n /\ i + 1 \in 1 .. n
    BY <1>2
  <2>2. g[i + 2] = Further(q, g[i + 1]) /\ h[i + 1] = Further(q, h[i])
    <3>1. i + 2 \in 1 .. n /\ (i + 2) - 1 = i + 1 /\ (i + 1) - 1 = i
      OBVIOUS
    <3> QED BY <2>1, <3>1 DEF Walk
  <2>3. h[i] \in Seq(D) /\ h[i] # <<>>
    BY <2>1 DEF Walk
  <2>4. Further(q, <<c>> \o h[i]) = <<c>> \o Further(q, h[i])
    BY <2>3, FurtherOn
  <2> QED BY <2>1, <2>2, <2>4
<1>3. Nat \subseteq T
  <2> HIDE DEF T
  <2> QED BY <1>1, <1>2, UpTo
<1>4. n - 1 \in Nat /\ (n - 1) + 1 = n /\ n \in 1 .. n
  OBVIOUS
<1>5. g[n] = <<c>> \o h[n - 1]
  BY <1>3, <1>4
<1>6. h[n] = h[n - 1]
  BY <1>4 DEF Walk, Further
<1> QED BY <1>5, <1>6

(* A walk that goes down in rank has ended after as many steps. *)
LEMMA WalkEnds ==
  ASSUME NEW D, None \notin D, NEW q \in [D -> D \cup {None}], NEW n \in Nat, n > 0,
         NEW r \in [D -> Nat], \A a \in D : q[a] # None => r[q[a]] < r[a],
         NEW b \in D, r[b] < n - 1, NEW h, Walk(q, D, h, b, n)
  PROVE  q[Last(h[n - 1])] = None
<1> DEFINE E(i) == q[Last(h[i])] = None \/ r[Last(h[i])] + i <= r[b]
           T == {i \in Nat : i \in 0 .. n => E(i)}
<1>1. 0 \in T
  <2>1. h[0] = <<b>> /\ Last(<<b>>) = b
    BY DEF Walk, Last
  <2> QED BY <2>1
<1>2. ASSUME NEW i \in Nat, i \in T PROVE i + 1 \in T
  <2> SUFFICES ASSUME i + 1 \in 0 .. n PROVE E(i + 1)
    OBVIOUS
  <2>1. E(i) /\ i \in 0 .. n /\ i + 1 \in 1 .. n /\ (i + 1) - 1 = i
    BY <1>2
  <2> DEFINE s == h[i]
             x == q[Last(s)]
  <2>2. s \in Seq(D) /\ s # <<>> /\ h[i + 1] = Further(q, s)
    BY <2>1 DEF Walk
  <2>3. Last(s) \in D
    BY <2>2 DEF Last
  <2>4. CASE x = None
    BY <2>2, <2>4 DEF Further
  <2>5. CASE x # None
    <3>1. x \in D /\ h[i + 1] = Append(s, x)
      BY <2>2, <2>3, <2>5 DEF Further
    <3>2. Last(Append(s, x)) = x
      BY <2>2, <3>1 DEF Last
    <3>3. r[x] < r[Last(s)] /\ r[x] \in Nat /\ r[Last(s)] \in Nat /\ r[b] \in Nat
      BY <2>3, <2>5, <3>1
    <3>4. r[Last(s)] + i <= r[b]
      BY <2>1, <2>5
    <3>5. r[x] + (i + 1) <= r[b]
      BY <3>3, <3>4
    <3> QED BY <3>1, <3>2, <3>5
  <2> QED BY <2>4, <2>5
<1>3. Nat \subseteq T
  <2> HIDE DEF T
  <2> QED BY <1>1, <1>2, UpTo
<1>4. E(n - 1) /\ n - 1 \in 0 .. n
  <2>1. n - 1 \in Nat /\ n - 1 \in 0 .. n
    OBVIOUS
  <2> HIDE DEF E
  <2> QED BY <1>3, <2>1
<1>5. h[n - 1] \in Seq(D) /\ h[n - 1] # <<>>
  BY <1>4 DEF Walk
<1>6. Last(h[n - 1]) \in D
  BY <1>5 DEF Last
<1>7. r[Last(h[n - 1])] \in Nat /\ r[b] \in Nat
  BY <1>6
<1> QED BY <1>4, <1>7

(* There is a walk from every class. *)
LEMMA WalkExists ==
  ASSUME NEW D, None \notin D, NEW q \in [D -> D \cup {None}], NEW n \in Nat, NEW c \in D
  PROVE  \E g : Walk(q, D, g, c, n)
<1> DEFINE S == {s \in Seq(D) : s # <<>>}
           F == [s \in S |-> Further(q, s)]
<1>1. ASSUME NEW s \in S PROVE Further(q, s) \in S
  <2>1. Last(s) \in D
    BY DEF Last
  <2>2. q[Last(s)] # None => q[Last(s)] \in D
    BY <2>1
  <2>3. CASE q[Last(s)] = None
    BY <2>3 DEF Further
  <2>4. CASE q[Last(s)] # None
    <3> DEFINE x == q[Last(s)]
    <3>1. x \in D /\ Further(q, s) = Append(s, x)
      BY <2>2, <2>4 DEF Further
    <3> HIDE DEF x
    <3>2. Append(s, x) \in Seq(D) /\ Len(Append(s, x)) = Len(s) + 1 /\ Len(s) \in Nat
      BY <3>1
    <3> QED BY <3>1, <3>2
  <2> QED BY <2>3, <2>4
<1>2. F \in [S -> S]
  BY <1>1
<1>3. <<c>> \in S
  OBVIOUS
<1>4. PICK g \in [0 .. n -> S] : Iterated(g, F, <<c>>, n)
  <2> HIDE DEF S, F
  <2> QED BY <1>2, <1>3, Iterates
<1>5. g[0] = <<c>>
  BY <1>4 DEF Iterated
<1>6. ASSUME NEW i \in 1 .. n PROVE g[i] = Further(q, g[i - 1])
  <2>1. i \in 0 .. n /\ i # 0 /\ i - 1 \in 0 .. n
    OBVIOUS
  <2>2. g[i] = F[g[i - 1]] /\ g[i - 1] \in S
    BY <1>4, <2>1 DEF Iterated
  <2> QED BY <2>2
<1>7. Walk(q, D, g, c, n)
  BY <1>4, <1>5, <1>6 DEF Walk
<1> QED BY <1>7

-----------------------------------------------------------------------------
(* The program as it reads once every class has a name of its own.          *)
Unique == \A j, k \in DOMAIN prog : prog[j].name = prog[k].name => j = k

BaseOf == [c \in Declared |-> LET b == Decl(prog, c).base
                              IN  IF b \in Declared THEN b ELSE None]

(* A class's declaration is the one with its name. *)
LEMMA DeclIs ==
  ASSUME Types, Unique, NEW k \in DOMAIN prog
  PROVE  /\ Decl(prog, prog[k].name) = prog[k]
         /\ BaseOf[prog[k].name] = IF prog[k].base \in Declared THEN prog[k].base ELSE None
         /\ prog[k].name \in Declared /\ None \notin Declared
         /\ BaseOf \in [Declared -> Declared \cup {None}]
<1>1. (CHOOSE j \in DOMAIN prog : prog[j].name = prog[k].name) = k
  BY DEF Unique
<1>2. Decl(prog, prog[k].name) = prog[k]
  BY <1>1 DEF Decl
<1>3. prog[k].name \in Declared /\ None \notin Declared
  BY ProgIs DEF Declared
<1>4. BaseOf \in [Declared -> Declared \cup {None}]
  BY DEF BaseOf
<1> QED BY <1>2, <1>3, <1>4 DEF BaseOf

(* The MRO is a walk along the bases. *)
LEMMA MroIs ==
  ASSUME Types, Unique, NEW k \in DOMAIN prog
  PROVE  \E g : /\ Walk(BaseOf, Declared, g, prog[k].name, Len(prog))
                /\ Mro(prog, prog[k].name) = g[Len(prog)]
<1> DEFINE n == Len(prog)
           c == prog[k].name
           Fn(up) == [i \in 0 .. n |->
                        IF i = 0 THEN <<c>>
                        ELSE LET b == Decl(prog, Last(up[i - 1])).base
                             IN  IF b \in {prog[j].name : j \in DOMAIN prog}
                                 THEN Append(up[i - 1], b) ELSE up[i - 1]]
           Up == CHOOSE up : up = Fn(up)
<1>1. n \in Nat /\ c \in Declared /\ None \notin Declared
      /\ BaseOf \in [Declared -> Declared \cup {None}]
  BY ProgIs, DeclIs
<1>2. PICK g : Walk(BaseOf, Declared, g, c, n)
  <2> HIDE DEF n, c
  <2> QED BY <1>1, WalkExists
<1>3. ASSUME NEW i \in 1 .. n
      PROVE  g[i] = LET b == Decl(prog, Last(g[i - 1])).base
                    IN  IF b \in {prog[j].name : j \in DOMAIN prog}
                        THEN Append(g[i - 1], b) ELSE g[i - 1]
  <2>1. i - 1 \in 0 .. n
    BY <1>1
  <2> DEFINE s == g[i - 1]
  <2>2. s \in Seq(Declared) /\ s # <<>> /\ g[i] = Further(BaseOf, s)
    BY <1>2, <2>1 DEF Walk
  <2> HIDE DEF s
  <2>3. Last(s) \in Declared
    BY <2>2 DEF Last
  <2>4. g[i] = LET b == Decl(prog, Last(s)).base
               IN  IF b \in Declared THEN Append(s, b) ELSE s
    BY <1>1, <2>2, <2>3 DEF Further, BaseOf
  <2> QED BY <2>4 DEF s, Declared
<1>4. g = Fn(g)
  <2>1. g \in [0 .. n -> {s \in Seq(Declared) : s # <<>>}] /\ g[0] = <<c>>
    BY <1>2 DEF Walk
  <2>2. ASSUME NEW i \in 0 .. n PROVE g[i] = Fn(g)[i]
    <3>1. CASE i = 0
      BY <2>1, <3>1
    <3>2. CASE i # 0
      <4>1. i \in 1 .. n
        BY <1>1, <3>2
      <4> QED BY <1>3, <3>2, <4>1
    <3> QED BY <3>1, <3>2
  <2> QED BY <2>1, <2>2
<1>5. Up = Fn(Up)
  BY <1>4
<1>6. Mro(prog, c) = Up[n]
  BY DEF Mro
<1> HIDE DEF Up
<1> DEFINE T == {i \in Nat : i \in 0 .. n => Up[i] = g[i]}
<1>7. 0 \in T
  BY <1>1, <1>4, <1>5
<1>8. ASSUME NEW i \in Nat, i \in T PROVE i + 1 \in T
  <2> SUFFICES ASSUME i + 1 \in 0 .. n PROVE Up[i + 1] = g[i + 1]
    OBVIOUS
  <2>1. Up[i] = g[i] /\ i + 1 # 0 /\ (i + 1) - 1 = i
    BY <1>1, <1>8
  <2>2. Up[i + 1] = Fn(Up)[i + 1] /\ g[i + 1] = Fn(g)[i + 1]
    BY <1>4, <1>5
  <2> QED BY <2>1, <2>2
<1>9. Nat \subseteq T
  <2> HIDE DEF T
  <2> QED BY <1>7, <1>8, UpTo
<1>10. Up[n] = g[n]
  BY <1>1, <1>9
<1> QED BY <1>2, <1>6, <1>10

(* A class comes first in its MRO, and then its base's. *)
LEMMA MroStep ==
  ASSUME Types, Unique, NEW k \in DOMAIN prog
  PROVE  /\ Mro(prog, prog[k].name) \in Seq(Declared)
         /\ prog[k].base \notin Declared => Mro(prog, prog[k].name) = <<prog[k].name>>
         /\ prog[k].base \in Declared =>
              Mro(prog, prog[k].name) = <<prog[k].name>> \o Mro(prog, prog[k].base)
<1> DEFINE n == Len(prog)
           c == prog[k].name
           b == prog[k].base
<1>1. /\ n \in Nat /\ DOMAIN prog = 1 .. n /\ k \in 1 .. n /\ n > 0
      /\ c \in Declared /\ None \notin Declared
      /\ BaseOf \in [Declared -> Declared \cup {None}]
      /\ BaseOf[c] = IF b \in Declared THEN b ELSE None
  <2>1. n \in Nat /\ DOMAIN prog = 1 .. n /\ k \in 1 .. n
    BY ProgIs
  <2> QED BY <2>1, DeclIs
<1>2. PICK g : Walk(BaseOf, Declared, g, c, n) /\ Mro(prog, c) = g[n]
  BY MroIs
<1>3. Mro(prog, c) \in Seq(Declared)
  BY <1>1, <1>2 DEF Walk
<1>4. CASE b \notin Declared
  <2>1. BaseOf[c] = None
    BY <1>1, <1>4
  <2>2. Walk(BaseOf, Declared, g, c, n)
    BY <1>2
  <2> HIDE DEF n, c, b
  <2>3. n \in Nat /\ n > 0 /\ c \in Declared /\ None \notin Declared
        /\ BaseOf \in [Declared -> Declared \cup {None}]
    BY <1>1
  <2>4. g[n] = <<c>>
    BY <2>1, <2>2, <2>3, WalkAlone
  <2> QED BY <1>2, <1>3, <1>4, <2>4 DEF c, b
<1>5. CASE b \in Declared
  <2>1. PICK j \in DOMAIN prog : prog[j].name = b
    BY <1>5 DEF Declared
  <2>2. PICK h : Walk(BaseOf, Declared, h, b, n) /\ Mro(prog, b) = h[n]
    BY <2>1, MroIs
  <2> DEFINE Idx(a) == CHOOSE i \in DOMAIN prog : prog[i].name = a
             r == [a \in Declared |-> Idx(a) - 1]
  <2>3. \A i \in DOMAIN prog : r[prog[i].name] = i - 1
    <3> SUFFICES ASSUME NEW i \in DOMAIN prog PROVE r[prog[i].name] = i - 1
      OBVIOUS
    <3>1. Idx(prog[i].name) = i
      BY DEF Unique
    <3> QED BY <3>1 DEF Declared
  <2>4. r \in [Declared -> Nat]
    <3>1. \A a \in Declared : r[a] \in Nat
      BY <1>1, <2>3 DEF Declared
    <3>2. r = [a \in Declared |-> r[a]]
      OBVIOUS
    <3> HIDE DEF r
    <3> QED BY <3>1, <3>2
  <2> HIDE DEF r
  <2>5. ASSUME NEW a \in Declared, BaseOf[a] # None PROVE r[BaseOf[a]] < r[a]
    <3>1. PICK i \in DOMAIN prog : prog[i].name = a
      BY DEF Declared
    <3>2. BaseOf[a] = prog[i].base /\ prog[i].base \in Declared
      BY <2>5, <3>1, DeclIs
    <3>3. PICK l \in DOMAIN prog : prog[l].name = prog[i].base
      BY <3>2 DEF Declared
    <3>4. l < i
      BY <3>3 DEF Types, BasesAbove
    <3> QED BY <1>1, <2>3, <3>1, <3>2, <3>3, <3>4
  <2>6. r[b] < n - 1
    <3>1. j < k
      BY <2>1 DEF Types, BasesAbove
    <3> QED BY <1>1, <2>1, <2>3, <3>1
  <2>7. BaseOf[c] = b /\ b # None
    BY <1>1, <1>5
  <2> HIDE DEF n, c, b
  <2>8. BaseOf[Last(h[n - 1])] = None
    BY <1>1, <1>5, <2>2, <2>4, <2>5, <2>6, WalkEnds
  <2>9. g[n] = <<c>> \o h[n]
    BY <1>1, <1>2, <2>2, <2>7, <2>8, WalkOn
  <2> QED BY <1>2, <1>3, <1>5, <2>2, <2>9 DEF c, b
<1> QED BY <1>4, <1>5

(* A class comes first in its chain, and then its parent's. *)
LEMMA ChainStep ==
  ASSUME Types, TableOK, phase \in After0b, NEW c \in DOMAIN table
  PROVE  /\ Chain(c) \in Seq(DOMAIN table)
         /\ table[c].parent = None => Chain(c) = <<c>>
         /\ table[c].parent # None => Chain(c) = <<c>> \o Chain(table[c].parent)
<1> DEFINE D == DOMAIN table
           n == Cardinality(D)
           q == [a \in D |-> table[a].parent]
           b == table[c].parent
<1>1. Tree
  BY TableIs DEF TableOK
<1>2. n = Len(prog) + 1 /\ Len(prog) \in Nat /\ DOMAIN prog = 1 .. Len(prog)
      /\ n \in Nat /\ n > 0
  BY ProgIs DEF TableOK, NamesOK, After0b
<1>3. \A i \in DOMAIN prog : Registered(i) /\ Opened(i)
  BY DEF Registered, Opened, Closed, After0a, After0b
<1>4. n \in Nat /\ n > 0 /\ None \notin D /\ q \in [D -> D \cup {None}]
  BY <1>1, <1>2 DEF Tree
<1>5. ASSUME NEW a \in D
      PROVE  \E g : Walk(q, D, g, a, n) /\ Chain(a) = g[n]
  <2>1. PICK up \in [0 .. n -> Lines] :
           /\ up[0] = <<a>>
           /\ \A i \in 1 .. n : up[i] = Climb(up[i - 1])
           /\ Chain(a) = up[n]
    BY <1>1, ChainIs
  <2>2. ASSUME NEW i \in 1 .. n PROVE up[i] = Further(q, up[i - 1])
    <3>1. i - 1 \in 0 .. n
      BY <1>2
    <3>2. up[i - 1] \in Lines /\ Last(up[i - 1]) \in D
      BY <1>1, <2>1, <3>1, ClimbIs
    <3> QED BY <2>1, <3>2 DEF Climb, Further
  <2>3. Walk(q, D, up, a, n)
    BY <2>1, <2>2 DEF Walk, Lines
  <2> QED BY <2>1, <2>3
<1>6. PICK g : Walk(q, D, g, c, n) /\ Chain(c) = g[n]
  BY <1>5
<1>7. Chain(c) \in Seq(D)
  BY <1>2, <1>6 DEF Walk
<1>8. q[c] = b
  OBVIOUS
<1>9. CASE b = None
  <2> HIDE DEF D, n, q, b
  <2>1. c \in D
    BY DEF D
  <2>2. q[c] = None /\ Walk(q, D, g, c, n)
    BY <1>6, <1>8, <1>9
  <2>3. g[n] = <<c>>
    BY <1>4, <2>1, <2>2, WalkAlone
  <2> QED BY <1>6, <1>7, <1>9, <2>3 DEF b, D
<1>10. CASE b # None
  <2>1. b \in D
    BY <1>1, <1>10 DEF Tree
  <2>2. PICK h : Walk(q, D, h, b, n) /\ Chain(b) = h[n]
    BY <1>5, <2>1
  <2> DEFINE r == [a \in D |-> IF a = ABC THEN 0 ELSE CHOOSE i \in DOMAIN prog : prog[i].name = a]
  <2>3. /\ r[ABC] = 0
        /\ \A i \in DOMAIN prog : prog[i].name \in D /\ prog[i].name # ABC /\ r[prog[i].name] = i
    <3> SUFFICES ASSUME NEW i \in DOMAIN prog
        PROVE  prog[i].name \in D /\ prog[i].name # ABC /\ r[prog[i].name] = i
      BY DEF TableOK, NamesOK
    <3>1. prog[i].name \in D /\ prog[i].name # ABC
      BY <1>3 DEF TableOK, NamesOK
    <3>2. (CHOOSE l \in DOMAIN prog : prog[l].name = prog[i].name) = i
      BY <1>3 DEF TableOK, NamesOK
    <3> QED BY <3>1, <3>2
  <2>4. \A a \in D : a = ABC \/ \E i \in DOMAIN prog : prog[i].name = a
    BY DEF TableOK, NamesOK, Declared
  <2>5. r \in [D -> Nat]
    <3>1. \A a \in D : r[a] \in Nat
      BY <1>2, <2>3, <2>4
    <3>2. r = [a \in D |-> r[a]]
      OBVIOUS
    <3> HIDE DEF r
    <3> QED BY <3>1, <3>2
  <2> HIDE DEF r
  <2>6. ASSUME NEW a \in D, q[a] # None PROVE r[q[a]] < r[a]
    <3>1. q[a] = table[a].parent /\ q[a] \in D
      BY <1>4, <2>6
    <3>2. a # ABC
      BY <2>6, <3>1 DEF TableOK, NamesOK
    <3>3. PICK i \in DOMAIN prog : prog[i].name = a
      BY <2>4, <3>2
    <3>4. Parent(i) = q[a]
      BY <3>1, <3>3 DEF Parent
    <3>5. CASE q[a] = ABC
      BY <1>2, <2>3, <3>3, <3>5
    <3>6. CASE q[a] # ABC
      <4>1. PICK l \in DOMAIN prog : l < i /\ prog[l].name = q[a]
        BY <1>3, <2>6, <3>4, <3>6 DEF TableOK, TreeOK
      <4> QED BY <2>3, <3>3, <4>1
    <3> QED BY <3>5, <3>6
  <2>7. r[b] < n - 1
    <3>1. r[b] < r[c] /\ c # ABC
      <4>1. q[c] = b /\ c \in D /\ q[c] # None
        BY <1>10
      <4>2. c # ABC
        BY <1>10 DEF TableOK, NamesOK
      <4> QED BY <2>6, <4>1, <4>2
    <3>2. PICK i \in DOMAIN prog : prog[i].name = c
      BY <2>4, <3>1
    <3>3. r[c] <= Len(prog) /\ r[c] \in Nat /\ r[b] \in Nat
      BY <1>2, <2>1, <2>3, <2>5, <3>2
    <3> QED BY <1>2, <3>1, <3>3
  <2>8. c \in D
    OBVIOUS
  <2> HIDE DEF D, n, q, b
  <2>9. q[Last(h[n - 1])] = None
    BY <1>4, <2>1, <2>2, <2>5, <2>6, <2>7, WalkEnds
  <2>10. g[n] = <<c>> \o h[n]
    BY <1>4, <1>6, <1>8, <1>10, <2>2, <2>8, <2>9, WalkOn
  <2> QED BY <1>6, <1>7, <1>10, <2>2, <2>10 DEF b, D
<1> QED BY <1>9, <1>10

-----------------------------------------------------------------------------
(* The first class of a walk that is in H, or None.                         *)
FirstHit(s, H) ==
  LET hits == {k \in DOMAIN s : s[k] \in H}
  IN  IF hits = {} THEN None ELSE s[Min(hits)]

(* The first hit is at the index with none before it. *)
LEMMA FirstIs ==
  ASSUME NEW s, NEW H, DOMAIN s \subseteq Nat, NEW k \in DOMAIN s, s[k] \in H,
         \A j \in DOMAIN s : j < k => s[j] \notin H
  PROVE  FirstHit(s, H) = s[k]
<1> DEFINE hits == {i \in DOMAIN s : s[i] \in H}
<1>1. k \in hits /\ hits \subseteq Nat /\ \A i \in hits : k <= i
  OBVIOUS
<1> HIDE DEF hits
<1>2. \A i \in hits : (\A j \in hits : i <= j) => i = k
  BY <1>1
<1>3. Min(hits) = k
  BY <1>1, <1>2 DEF Min
<1>4. hits # {}
  BY <1>1
<1> QED BY <1>3, <1>4 DEF FirstHit, hits

(* There is a first hit as soon as there is one. *)
LEMMA FirstExists ==
  ASSUME NEW s, NEW H, DOMAIN s \subseteq Nat, NEW k \in DOMAIN s, s[k] \in H
  PROVE  \E j \in DOMAIN s : /\ FirstHit(s, H) = s[j] /\ s[j] \in H
                             /\ \A i \in DOMAIN s : i < j => s[i] \notin H
<1> DEFINE hits == {i \in DOMAIN s : s[i] \in H}
<1>1. hits \subseteq Nat /\ hits # {}
  OBVIOUS
<1>2. PICK j \in hits : \A i \in hits : j <= i
  <2> HIDE DEF hits
  <2> QED BY <1>1, Least
<1>3. \A i \in DOMAIN s : i < j => s[i] \notin H
  BY <1>1, <1>2
<1>4. FirstHit(s, H) = s[j]
  BY <1>2, <1>3, FirstIs
<1> QED BY <1>2, <1>3, <1>4

(* The first hit of a walk with one more class before it. *)
LEMMA FirstOn ==
  ASSUME NEW D, NEW c \in D, NEW s \in Seq(D), NEW H
  PROVE  FirstHit(<<c>> \o s, H) = IF c \in H THEN c ELSE FirstHit(s, H)
<1> DEFINE u == <<c>> \o s
<1>1. Len(s) \in Nat /\ DOMAIN s = 1 .. Len(s)
  OBVIOUS
<1>2. /\ DOMAIN u = 1 .. Len(s) + 1
      /\ u[1] = c /\ \A i \in 1 .. Len(s) : u[i + 1] = s[i]
  BY <1>1
<1> HIDE DEF u
<1>3. 1 \in DOMAIN u /\ DOMAIN u \subseteq Nat /\ DOMAIN s \subseteq Nat
  BY <1>1, <1>2
<1>4. CASE c \in H
  <2>1. u[1] \in H /\ \A j \in DOMAIN u : j < 1 => u[j] \notin H
    BY <1>1, <1>2, <1>4
  <2>2. FirstHit(u, H) = u[1]
    BY <1>3, <2>1, FirstIs
  <2> QED BY <1>2, <1>4, <2>2 DEF u
<1>5. CASE c \notin H /\ \A k \in DOMAIN s : s[k] \notin H
  <2>1. \A i \in DOMAIN u : i = 1 \/ (i - 1 \in 1 .. Len(s) /\ i = (i - 1) + 1)
    BY <1>1, <1>2
  <2>2. \A i \in DOMAIN u : u[i] \notin H
    BY <1>1, <1>2, <1>5, <2>1
  <2> QED BY <1>5, <2>2 DEF FirstHit, u
<1>6. ASSUME c \notin H, NEW k \in DOMAIN s, s[k] \in H
      PROVE  FirstHit(u, H) = FirstHit(s, H)
  <2>1. PICK j \in DOMAIN s : /\ FirstHit(s, H) = s[j] /\ s[j] \in H
                              /\ \A i \in DOMAIN s : i < j => s[i] \notin H
    BY <1>3, <1>6, FirstExists
  <2> DEFINE l == j + 1
  <2>2. l \in DOMAIN u /\ u[l] = s[j]
    BY <1>1, <1>2
  <2>3. ASSUME NEW i \in DOMAIN u, i < l PROVE u[i] \notin H
    <3>1. CASE i = 1
      BY <1>2, <1>6, <3>1
    <3>2. CASE i # 1
      <4> DEFINE e == i - 1
      <4>1. e \in 1 .. Len(s) /\ i = e + 1 /\ e < j
        BY <1>1, <1>2, <2>3, <3>2
      <4> HIDE DEF e
      <4>2. u[e + 1] = s[e] /\ s[e] \notin H
        BY <1>1, <1>2, <2>1, <4>1
      <4> QED BY <4>1, <4>2
    <3> QED BY <3>1, <3>2
  <2> HIDE DEF l
  <2>4. FirstHit(u, H) = u[l]
    BY <1>3, <2>1, <2>2, <2>3, FirstIs
  <2> QED BY <2>1, <2>2, <2>4
<1> QED BY <1>4, <1>5, <1>6 DEF u

(* The first hit of a walk of one class. *)
LEMMA FirstOne ==
  ASSUME NEW c, NEW H
  PROVE  FirstHit(<<c>>, H) = IF c \in H THEN c ELSE None
<1>1. DOMAIN <<c>> = {1} /\ <<c>>[1] = c
  OBVIOUS
<1>2. CASE c \in H
  <2>1. DOMAIN <<c>> \subseteq Nat /\ 1 \in DOMAIN <<c>>
        /\ \A j \in DOMAIN <<c>> : j < 1 => <<c>>[j] \notin H
    BY <1>1
  <2>2. FirstHit(<<c>>, H) = <<c>>[1]
    BY <1>1, <1>2, <2>1, FirstIs
  <2> QED BY <1>1, <1>2, <2>2
<1>3. CASE c \notin H
  BY <1>1, <1>3 DEF FirstHit
<1> QED BY <1>2, <1>3

-----------------------------------------------------------------------------
(* Python's reading of the program, class by class. *)

Solid(k)   == Binds(prog[k], Callables \ {"abstract"})
Binding(m) == {a \in Declared : m \in Binds(Decl(prog, a), Callables)}
Finds(c, m) == FirstHit(Mro(prog, c), Binding(m))

(* The callables of a body are its abstract ones and the others. *)
LEMMA BindsIs ==
  ASSUME Types, NEW k \in DOMAIN prog
  PROVE  /\ Binds(prog[k], Callables) = Own(k) \cup Solid(k)
         /\ Own(k) \subseteq Nat /\ Solid(k) \subseteq Nat
<1>1. "abstract" \in Callables
  BY DEF Callables, Kinds
<1>2. Binds(prog[k], Callables) = Own(k) \cup Solid(k)
  BY <1>1 DEF Binds, Own, Solid
<1>3. \A x \in ToSet(prog[k].body) : x.name \in Nat
  <2> DEFINE R == [kind : Kinds, name : Nat]
             b == prog[k].body
  <2>1. b \in Seq(R)
    BY ProgIs
  <2> HIDE DEF b, R
  <2>2. \A x \in ToSet(b) : x \in R
    BY <2>1 DEF ToSet
  <2> QED BY <2>2 DEF b, R
<1> QED BY <1>2, <1>3 DEF Own, Solid, Binds

(* The class a lookup ends at: the class itself, or as for its base. *)
LEMMA FindsStep ==
  ASSUME Types, Unique, NEW k \in DOMAIN prog, NEW m
  PROVE  Finds(prog[k].name, m) =
           IF m \in Binds(prog[k], Callables) THEN prog[k].name
           ELSE IF prog[k].base \in Declared THEN Finds(prog[k].base, m) ELSE None
<1> DEFINE c == prog[k].name
           b == prog[k].base
           H == Binding(m)
<1>1. c \in Declared /\ (c \in H <=> m \in Binds(prog[k], Callables))
  BY DeclIs DEF Binding
<1>2. CASE b \notin Declared
  <2>1. Mro(prog, c) = <<c>>
    BY <1>2, MroStep
  <2> HIDE DEF c, H
  <2>2. FirstHit(<<c>>, H) = IF c \in H THEN c ELSE None
    BY FirstOne
  <2> QED BY <1>1, <1>2, <2>1, <2>2 DEF Finds, H, c
<1>3. CASE b \in Declared
  <2>1. PICK j \in DOMAIN prog : prog[j].name = b
    BY <1>3 DEF Declared
  <2>2. Mro(prog, c) = <<c>> \o Mro(prog, b)
    BY <1>3, MroStep
  <2>3. Mro(prog, b) \in Seq(Declared)
    BY <2>1, MroStep
  <2> DEFINE s == Mro(prog, b)
  <2> HIDE DEF c, b, H, s
  <2>4. s \in Seq(Declared)
    BY <2>3 DEF s
  <2>5. FirstHit(<<c>> \o s, H) = IF c \in H THEN c ELSE FirstHit(s, H)
    BY <1>1, <2>4, FirstOn
  <2> QED BY <1>1, <1>3, <2>2, <2>5 DEF Finds, H, c, b, s
<1> QED BY <1>2, <1>3

(* Supplier is where the lookup ends, if it ends anywhere; it does if a     *)
(* class of the MRO binds the name.                                         *)
LEMMA SupplierIs ==
  ASSUME Types, Unique, NEW c \in Declared, NEW m
  PROVE  /\ Finds(c, m) # None =>
              /\ Supplier(prog, c, m) = Finds(c, m)
              /\ Finds(c, m) \in ToSet(Mro(prog, c))
              /\ m \in Binds(Decl(prog, Finds(c, m)), Callables)
         /\ (\E d \in ToSet(Mro(prog, c)) : m \in Binds(Decl(prog, d), Callables))
              => Finds(c, m) # None
<1> DEFINE s == Mro(prog, c)
           hits == {i \in DOMAIN s : s[i] \in Binding(m)}
<1>1. s \in Seq(Declared) /\ None \notin Declared
  <2>1. PICK k \in DOMAIN prog : prog[k].name = c
    BY DEF Declared
  <2> QED BY <2>1, MroStep, DeclIs
<1>2. DOMAIN s \subseteq Nat /\ \A i \in DOMAIN s : s[i] \in Declared
  <2> HIDE DEF s
  <2> QED BY <1>1
<1>3. hits = {i \in DOMAIN s : m \in Binds(Decl(prog, s[i]), Callables)}
  BY <1>2 DEF Binding
<1>4. Supplier(prog, c, m) = s[Min(hits)]
  BY <1>3 DEF Supplier
<1>5. Finds(c, m) = IF hits = {} THEN None ELSE s[Min(hits)]
  BY DEF Finds, FirstHit
<1>6. hits # {} => Min(hits) \in hits
  <2>1. hits \subseteq Nat
    BY <1>2
  <2> HIDE DEF hits
  <2> QED BY <2>1, MinIs
<1>7. Finds(c, m) # None =>
        /\ Supplier(prog, c, m) = Finds(c, m) /\ Finds(c, m) \in ToSet(s)
        /\ m \in Binds(Decl(prog, Finds(c, m)), Callables)
  BY <1>3, <1>4, <1>5, <1>6 DEF ToSet
<1>8. ASSUME NEW d \in ToSet(s), m \in Binds(Decl(prog, d), Callables)
      PROVE  Finds(c, m) # None
  <2>1. hits # {}
    BY <1>3, <1>8 DEF ToSet
  <2> QED BY <1>1, <1>2, <1>5, <1>6, <2>1
<1> QED BY <1>7, <1>8

(* A class is abstract in the names whose lookup ends at an abstract one.   *)
LEMMA NamesIs ==
  ASSUME Types, Unique, NEW c \in Declared, NEW m
  PROVE  m \in Unimplemented(prog, c) <=>
           /\ Finds(c, m) # None
           /\ m \in Binds(Decl(prog, Finds(c, m)), {"abstract"})
<1>1. \A d : m \in Binds(Decl(prog, d), {"abstract"}) => m \in Binds(Decl(prog, d), Callables)
  BY DEF Binds, Callables, Kinds
<1>2. m \in Inherited(prog, c, {"abstract"}) <=>
        \E d \in ToSet(Mro(prog, c)) : m \in Binds(Decl(prog, d), {"abstract"})
  BY DEF Inherited
<1>3. m \in Unimplemented(prog, c) <=>
        /\ m \in Inherited(prog, c, {"abstract"})
        /\ m \in Binds(Decl(prog, Supplier(prog, c, m)), {"abstract"})
  BY DEF Unimplemented
<1> QED BY <1>1, <1>2, <1>3, SupplierIs

(* The same from class to class. *)
LEMMA NamesStep ==
  ASSUME Types, Unique, NEW k \in DOMAIN prog, NEW m
  PROVE  m \in Unimplemented(prog, prog[k].name) <=>
           \/ m \in Own(k)
           \/ /\ m \notin Solid(k)
              /\ prog[k].base \in Declared
              /\ m \in Unimplemented(prog, prog[k].base)
<1> DEFINE c == prog[k].name
           b == prog[k].base
<1>1. Decl(prog, c) = prog[k] /\ c \in Declared /\ None \notin Declared
  BY DeclIs
<1>2. Finds(c, m) = IF m \in Own(k) \cup Solid(k) THEN c
                    ELSE IF b \in Declared THEN Finds(b, m) ELSE None
  BY FindsStep, BindsIs
<1>3. /\ m \in Unimplemented(prog, c) <=>
           Finds(c, m) # None /\ m \in Binds(Decl(prog, Finds(c, m)), {"abstract"})
      /\ b \in Declared =>
           (m \in Unimplemented(prog, b) <=>
              Finds(b, m) # None /\ m \in Binds(Decl(prog, Finds(b, m)), {"abstract"}))
  BY <1>1, NamesIs
<1>4. CASE m \in Own(k) \cup Solid(k)
  <2>1. Finds(c, m) = c /\ c # None
    BY <1>1, <1>2, <1>4
  <2>2. m \in Unimplemented(prog, c) <=> m \in Own(k)
    BY <1>1, <1>3, <2>1 DEF Own
  <2> QED BY <1>4, <2>2
<1>5. CASE m \notin Own(k) \cup Solid(k)
  BY <1>2, <1>3, <1>5
<1> QED BY <1>4, <1>5

-----------------------------------------------------------------------------
(* The invariant: what the abstract sets and the bodies are, exactly.       *)

SigNames(k) == {m \in Nat : <<prog[k].name, m>> \in sigs}

(* The names of the items of the open class the pass has been at.           *)
Seen(kinds) ==
  {prog[at].body[j].name :
     j \in {i \in DOMAIN prog[at].body : i < item /\ prog[at].body[i].kind \in kinds}}

(* A closed class has a body for each callable that is not abstract, and    *)
(* inherits the abstract names it has no body for.                          *)
ExactOK ==
  \A k \in DOMAIN prog : Closed(k) =>
    /\ Defines(k) = Solid(k)
    /\ table[prog[k].name].abstract = (Passed(k) \ Solid(k)) \cup Own(k)

(* A class not yet opened has no methods. *)
UnopenedOK ==
  phase \in {"0a", "0b"} =>
    \A k \in DOMAIN prog : ~ Opened(k) => SigNames(k) = {}

(* The open class, as far as the pass has read it. *)
OpenOK ==
  phase = "0b" /\ item > 0 =>
    /\ SigNames(at) = Seen(Callables)
    /\ Defines(at) = Seen(Callables \ {"abstract"})
    /\ unimplemented = (Passed(at) \ Seen(Callables \ {"abstract"})) \cup Seen({"abstract"})

(* There are vtables only at the end, and they are Python's.                *)
VtablesOK ==
  /\ phase \notin {"vtables", "done"} => DOMAIN vtable = {}
  /\ VtableAsInPython

PyInv == ExactOK /\ UnopenedOK /\ OpenOK /\ VtablesOK

(* Once every class is closed, the base of a class is its parent, unless it *)
(* is ABC or none.                                                          *)
LEMMA BaseIs ==
  ASSUME Types, TableOK, phase \in After0b
  PROVE  /\ Unique /\ ABC \notin Declared /\ None \notin Declared
         /\ \A k \in DOMAIN prog :
              /\ Closed(k) /\ prog[k].name \in DOMAIN table
              /\ Parent(k) \in DOMAIN table \cup {None}
              /\ prog[k].base \in Declared => Parent(k) = prog[k].base /\ Parent(k) # None
              /\ prog[k].base \notin Declared => Parent(k) \in {None, ABC}
<1>1. \A k \in DOMAIN prog : Registered(k) /\ Opened(k) /\ Closed(k)
  BY DEF Registered, Opened, Closed, After0a, After0b
<1>2. Unique
  BY <1>1 DEF TableOK, NamesOK, Unique
<1>3. ABC \notin Declared /\ None \notin Declared /\ NoBase \notin Declared
  BY <1>1, ProgIs DEF Declared, TableOK, NamesOK
<1>4. \A k \in DOMAIN prog : prog[k].name \in DOMAIN table /\ Parent(k) \in DOMAIN table \cup {None}
  BY <1>1, TableIs DEF TableOK
<1>5. \A k \in DOMAIN prog : Parent(k) = IF prog[k].base = NoBase THEN None ELSE prog[k].base
  BY <1>1 DEF TableOK, TreeOK
<1>6. DOMAIN table \subseteq Declared \cup {ABC}
  BY DEF TableOK, NamesOK
<1> QED BY <1>1, <1>2, <1>3, <1>4, <1>5, <1>6

(* What is so for a class if it is for its base is so for every class. *)
LEMMA ByBase ==
  ASSUME Types, NEW S, S \subseteq DOMAIN prog,
         \A k \in DOMAIN prog :
           (\A j \in DOMAIN prog : prog[j].name = prog[k].base => j \in S) => k \in S
  PROVE  DOMAIN prog \subseteq S
<1>1. Len(prog) \in Nat /\ DOMAIN prog = 1 .. Len(prog)
  BY ProgIs
<1> DEFINE T == {n \in Nat : \A i \in DOMAIN prog : i <= n => i \in S}
<1>2. 0 \in T
  BY <1>1
<1>3. ASSUME NEW n \in Nat, n \in T PROVE n + 1 \in T
  <2> SUFFICES ASSUME NEW i \in DOMAIN prog, i <= n + 1 PROVE i \in S
    OBVIOUS
  <2>1. ASSUME NEW j \in DOMAIN prog, prog[j].name = prog[i].base PROVE j \in S
    <3>1. j < i
      BY <2>1 DEF Types, BasesAbove
    <3>2. j <= n
      BY <1>1, <3>1
    <3> QED BY <1>3, <3>2
  <2> QED BY <2>1
<1>4. Nat \subseteq T
  <2> HIDE DEF T
  <2> QED BY <1>2, <1>3, UpTo
<1> QED BY <1>1, <1>4

(* A closed class is abstract in the names whose lookup ends at one. *)
LEMMA AbstractIs ==
  ASSUME Types, TableOK, ExactOK, phase \in After0b, NEW k \in DOMAIN prog
  PROVE  table[prog[k].name].abstract = Unimplemented(prog, prog[k].name)
<1> DEFINE S == {i \in DOMAIN prog :
                   table[prog[i].name].abstract = Unimplemented(prog, prog[i].name)}
<1>1. ASSUME NEW i \in DOMAIN prog,
             \A j \in DOMAIN prog : prog[j].name = prog[i].base => j \in S
      PROVE  i \in S
  <2>1. table[prog[i].name].abstract = (Passed(i) \ Solid(i)) \cup Own(i)
    BY BaseIs DEF ExactOK
  <2>2. ASSUME NEW m
        PROVE  m \in Passed(i) <=> /\ prog[i].base \in Declared
                                   /\ m \in Unimplemented(prog, prog[i].base)
    <3>1. CASE prog[i].base \in Declared
      <4>1. PICK j \in DOMAIN prog : prog[j].name = prog[i].base
        BY <3>1 DEF Declared
      <4>2. table[prog[i].base].abstract = Unimplemented(prog, prog[i].base)
        BY <1>1, <4>1
      <4> QED BY <3>1, <4>2, BaseIs DEF Passed
    <3>2. CASE prog[i].base \notin Declared
      <4>1. Passed(i) = {}
        BY <3>2, BaseIs DEF Passed, TableOK, NamesOK
      <4> QED BY <3>2, <4>1
    <3> QED BY <3>1, <3>2
  <2>3. ASSUME NEW m
        PROVE  m \in table[prog[i].name].abstract <=> m \in Unimplemented(prog, prog[i].name)
    BY <2>1, <2>2, NamesStep, BaseIs
  <2> QED BY <2>3
<1>2. DOMAIN prog \subseteq S
  <2> HIDE DEF S
  <2>1. S \subseteq DOMAIN prog
    BY DEF S
  <2> QED BY <1>1, <2>1, ByBase
<1> QED BY <1>2

(* Resolve finds a class's own body, or as for its parent. *)
LEMMA ResolveStep ==
  ASSUME Types, TableOK, phase \in After0b, NEW c \in DOMAIN table, NEW m, NEW defined
  PROVE  Resolve(c, m, defined) =
           IF <<c, m>> \in defined THEN c
           ELSE IF table[c].parent = None THEN None
           ELSE Resolve(table[c].parent, m, defined)
<1> DEFINE D == DOMAIN table
           H == {a \in D : <<a, m>> \in defined}
           p == table[c].parent
<1>1. ASSUME NEW a \in D PROVE Resolve(a, m, defined) = FirstHit(Chain(a), H)
  <2> DEFINE s == Chain(a)
  <2>1. s \in Seq(D)
    BY ChainStep
  <2> HIDE DEF s
  <2>2. \A i \in DOMAIN s : s[i] \in D
    BY <2>1
  <2>3. {i \in DOMAIN s : <<s[i], m>> \in defined} = {i \in DOMAIN s : s[i] \in H}
    BY <2>2
  <2> QED BY <2>3 DEF Resolve, FirstHit, s
<1>2. c \in H <=> <<c, m>> \in defined
  OBVIOUS
<1>3. CASE p = None
  <2>1. Chain(c) = <<c>>
    BY <1>3, ChainStep
  <2> HIDE DEF H
  <2>2. FirstHit(<<c>>, H) = IF c \in H THEN c ELSE None
    BY FirstOne
  <2> QED BY <1>1, <1>2, <1>3, <2>1, <2>2
<1>4. CASE p # None
  <2>1. p \in D
    <3>1. Tree
      BY TableIs DEF TableOK
    <3> QED BY <1>4, <3>1 DEF Tree
  <2>2. Chain(c) = <<c>> \o Chain(p)
    BY <1>4, ChainStep
  <2>3. Chain(p) \in Seq(D)
    BY <2>1, ChainStep
  <2> DEFINE s == Chain(p)
  <2>4. c \in D
    OBVIOUS
  <2>5. Resolve(c, m, defined) = FirstHit(Chain(c), H)
        /\ Resolve(p, m, defined) = FirstHit(Chain(p), H)
    BY <1>1, <2>1
  <2> HIDE DEF H, D, s, p
  <2>6. s \in Seq(D)
    BY <2>3 DEF s
  <2>7. FirstHit(<<c>> \o s, H) = IF c \in H THEN c ELSE FirstHit(s, H)
    BY <2>4, <2>6, FirstOn
  <2> QED BY <1>2, <1>4, <2>2, <2>5, <2>7 DEF s, p
<1> QED BY <1>3, <1>4

(* A name a class is not abstract in is found where Python finds it. *)
LEMMA ResolveIs ==
  ASSUME Types, TableOK, ExactOK, phase \in After0b, NEW k \in DOMAIN prog, NEW m \in Nat,
         m \notin table[prog[k].name].abstract
  PROVE  Resolve(prog[k].name, m, bodies) = Finds(prog[k].name, m)
<1> DEFINE S == {i \in DOMAIN prog :
                   m \notin table[prog[i].name].abstract =>
                     Resolve(prog[i].name, m, bodies) = Finds(prog[i].name, m)}
<1>1. ASSUME NEW i \in DOMAIN prog,
             \A j \in DOMAIN prog : prog[j].name = prog[i].base => j \in S
      PROVE  i \in S
  <2> SUFFICES ASSUME m \notin table[prog[i].name].abstract
      PROVE  Resolve(prog[i].name, m, bodies) = Finds(prog[i].name, m)
    OBVIOUS
  <2> DEFINE c == prog[i].name
             b == prog[i].base
  <2>1. /\ Defines(i) = Solid(i)
        /\ table[c].abstract = (Passed(i) \ Solid(i)) \cup Own(i)
    BY BaseIs DEF ExactOK
  <2>2. /\ Resolve(c, m, bodies) =
             IF m \in Solid(i) THEN c
             ELSE IF Parent(i) = None THEN None
             ELSE Resolve(Parent(i), m, bodies)
    <3>1. <<c, m>> \in bodies <=> m \in Solid(i)
      BY <2>1 DEF Defines
    <3>2. c \in DOMAIN table
      BY BaseIs
    <3> QED BY <3>1, <3>2, ResolveStep DEF Parent
  <2>3. Finds(c, m) = IF m \in Solid(i) THEN c
                      ELSE IF b \in Declared THEN Finds(b, m) ELSE None
    <3>1. m \in Binds(prog[i], Callables) <=> m \in Solid(i)
      BY <2>1, BindsIs
    <3> QED BY <3>1, FindsStep, BaseIs
  <2>4. CASE m \in Solid(i)
    BY <2>2, <2>3, <2>4
  <2>5. CASE m \notin Solid(i) /\ b \in Declared
    <3>1. PICK j \in DOMAIN prog : prog[j].name = b
      BY <2>5 DEF Declared
    <3>2. Parent(i) = b /\ Parent(i) # None
      BY <2>5, BaseIs
    <3>3. m \notin table[b].abstract
      BY <2>1, <2>5, <3>2 DEF Passed
    <3>4. Resolve(b, m, bodies) = Finds(b, m)
      BY <1>1, <3>1, <3>3
    <3> QED BY <2>2, <2>3, <2>5, <3>2, <3>4
  <2>6. CASE m \notin Solid(i) /\ b \notin Declared
    <3>1. Parent(i) \in {None, ABC}
      BY <2>6, BaseIs
    <3>2. Resolve(ABC, m, bodies) = None
      <4>1. <<ABC, m>> \notin bodies
        BY BaseIs, TypesNow
      <4>2. ABC \in DOMAIN table /\ table[ABC].parent = None
        BY DEF TableOK, NamesOK
      <4> QED BY <4>1, <4>2, ResolveStep
    <3> QED BY <2>2, <2>3, <2>6, <3>1, <3>2
  <2> QED BY <2>4, <2>5, <2>6
<1>2. DOMAIN prog \subseteq S
  <2> HIDE DEF S
  <2>1. S \subseteq DOMAIN prog
    BY DEF S
  <2> QED BY <1>1, <2>1, ByBase
<1> QED BY <1>2

-----------------------------------------------------------------------------
(* The invariant through the passes. *)

(* A step that changes nothing the invariant speaks of. *)
LEMMA PyQuiet ==
  ASSUME PyInv, prog' = prog, table' = table, sigs' = sigs, bodies' = bodies,
         unimplemented' = unimplemented, vtable' = vtable,
         \A k \in DOMAIN prog : Opened(k)' = Opened(k) /\ Closed(k)' = Closed(k),
         phase' \in {"0a", "0b"} => phase \in {"0a", "0b"},
         phase' = "0b" /\ item' > 0 =>
           phase = "0b" /\ item > 0 /\ at' = at /\ item' = item,
         phase' \notin {"vtables", "done"} => phase \notin {"vtables", "done"}
  PROVE  PyInv'
<1>1. ExactOK'
  BY DEF PyInv, ExactOK, Defines, Solid, Passed, Parent, Own
<1>2. UnopenedOK'
  BY DEF PyInv, UnopenedOK, SigNames
<1>3. OpenOK'
  BY DEF PyInv, OpenOK, SigNames, Seen, Defines, Passed, Parent
<1>4. VtablesOK'
  BY DEF PyInv, VtablesOK, VtableAsInPython
<1> QED BY <1>1, <1>2, <1>3, <1>4 DEF PyInv

(* Where there are no vtables yet, they are Python's. *)
LEMMA NoVtables ==
  ASSUME PyInv, phase \notin {"vtables", "done"}, vtable' = vtable
  PROVE  VtablesOK'
BY DEF PyInv, VtablesOK, VtableAsInPython

(* Steps that do not move classes or methods. *)
LEMMA PyRest ==
  ASSUME IInv, PyInv,
         \/ Reject /\ phase \in {"0a", "0b"}
         \/ NextPass("0a", "0b") \/ NextPass("0b", "0c")
         \/ NextPass("0c", "types") \/ NextPass("vtables", "done")
         \/ EmitTypes \/ SkipVtable
         \/ UNCHANGED classVars
  PROVE  PyInv'
<1>1. Len(prog) \in Nat /\ DOMAIN prog = 1 .. Len(prog) /\ at \in 1 .. Len(prog) + 1
  BY ProgIs, TypesNow DEF IInv
<1>2. CASE Reject /\ phase \in {"0a", "0b"}
  <2>1. phase' = "rejected" /\ vtable' = vtable /\ prog' = prog
    BY <1>2 DEF Reject, source, consts
  <2>2. ExactOK' /\ UnopenedOK' /\ OpenOK'
    BY <2>1 DEF ExactOK, UnopenedOK, OpenOK, Closed, After0b
  <2>3. VtablesOK'
    BY <1>2, <2>1, NoVtables
  <2> QED BY <2>2, <2>3 DEF PyInv
<1>3. CASE NextPass("0a", "0b") \/ NextPass("0b", "0c")
           \/ NextPass("0c", "types") \/ NextPass("vtables", "done")
  <2>1. /\ prog' = prog /\ at' = 1 /\ item' = item /\ table' = table
        /\ unimplemented' = unimplemented /\ sigs' = sigs
        /\ bodies' = bodies /\ vtable' = vtable /\ at \notin DOMAIN prog
        /\ <<phase, phase'>> \in {<<"0a", "0b">>, <<"0b", "0c">>, <<"0c", "types">>,
                                  <<"vtables", "done">>}
    BY <1>3 DEF NextPass, source, local, funcs, consts, InRange
  <2>2. at = Len(prog) + 1
    BY <1>1, <2>1
  <2>3. phase' = "0b" => item = 0
    BY <2>1 DEF IInv, Types
  <2>4. phase = "0b" => item = 0
    BY <2>1 DEF IInv, Types, LocalOK
  <2>5. ASSUME NEW k \in DOMAIN prog
        PROVE  Opened(k)' = Opened(k) /\ Closed(k)' = Closed(k)
    BY <1>1, <2>1, <2>2, <2>3, <2>4 DEF Opened, Closed, After0b
  <2> QED BY <2>1, <2>3, <2>5, PyQuiet
<1>4. CASE EmitTypes \/ SkipVtable
  <2>1. /\ prog' = prog /\ table' = table
        /\ unimplemented' = unimplemented /\ sigs' = sigs
        /\ bodies' = bodies /\ vtable' = vtable
        /\ phase \in {"types", "vtables"} /\ phase' = "vtables"
    BY <1>4 DEF EmitTypes, SkipVtable, source, local, funcs, consts
  <2>2. ASSUME NEW k \in DOMAIN prog
        PROVE  Opened(k)' = Opened(k) /\ Closed(k)' = Closed(k)
    BY <2>1 DEF Opened, Closed, After0b
  <2> QED BY <2>1, <2>2, PyQuiet
<1>5. CASE UNCHANGED classVars
  <2>1. /\ prog' = prog /\ table' = table /\ phase' = phase /\ at' = at /\ item' = item
        /\ unimplemented' = unimplemented /\ sigs' = sigs
        /\ bodies' = bodies /\ vtable' = vtable
    BY <1>5 DEF classVars, source, cursor, local, funcs, consts
  <2>2. ASSUME NEW k \in DOMAIN prog
        PROVE  Opened(k)' = Opened(k) /\ Closed(k)' = Closed(k)
    BY <2>1 DEF Opened, Closed
  <2> QED BY <2>1, <2>2, PyQuiet
<1> QED BY <1>2, <1>3, <1>4, <1>5

(* Of a closed class, only the root and the slots change.                   *)
LEMMA ExactKept ==
  ASSUME PyInv, prog' = prog,
         \A k \in DOMAIN prog : Closed(k)' =>
           /\ Closed(k) /\ Defines(k)' = Defines(k) /\ Passed(k)' = Passed(k)
           /\ table'[prog[k].name].abstract = table[prog[k].name].abstract
  PROVE  ExactOK'
<1> SUFFICES ASSUME NEW k \in DOMAIN prog, Closed(k)'
    PROVE  /\ Defines(k)' = Solid(k)'
           /\ table'[prog[k].name].abstract = (Passed(k)' \ Solid(k)') \cup Own(k)'
  BY DEF ExactOK
<1>1. Solid(k)' = Solid(k) /\ Own(k)' = Own(k)
  BY DEF Solid, Own
<1> QED BY <1>1 DEF PyInv, ExactOK

(* A class is registered without methods. *)
LEMMA PyRegister ==
  ASSUME IInv, PyInv, Register
  PROVE  PyInv'
<1>1. prog' = prog /\ phase = "0a" /\ phase' = "0a" /\ sigs' = sigs /\ vtable' = vtable
  BY DEF Register, source, funcs, consts
<1>2. \A k \in DOMAIN prog : ~ Closed(k) /\ ~ Closed(k)' /\ ~ Opened(k) /\ ~ Opened(k)'
  BY <1>1 DEF Opened, Closed, After0b
<1>3. ExactOK' /\ OpenOK'
  BY <1>1, <1>2 DEF ExactOK, OpenOK
<1>4. UnopenedOK'
  BY <1>1, <1>2 DEF PyInv, UnopenedOK, SigNames
<1>5. VtablesOK'
  BY <1>1, NoVtables
<1> QED BY <1>3, <1>4, <1>5 DEF PyInv

(* A class is opened with the abstract names of its base. *)
LEMMA PyOpenClass ==
  ASSUME IInv, PyInv, OpenClass
  PROVE  PyInv'
<1> DEFINE D == DOMAIN table
           n == prog[at].name
           p == IF prog[at].base = NoBase THEN None ELSE prog[at].base
           r == [table[n] EXCEPT !.parent = p]
<1>1. /\ prog' = prog /\ phase = "0b" /\ phase' = "0b" /\ at \in DOMAIN prog
      /\ at' = at /\ item = 0 /\ item' = 1
      /\ prog[at].base \in D \cup {NoBase}
      /\ table' = [table EXCEPT ![n].parent = p]
      /\ unimplemented' = IF p = None THEN {} ELSE table[p].abstract
      /\ sigs' = sigs /\ bodies' = bodies /\ vtable' = vtable
  BY DEF OpenClass, source, funcs, consts, InRange, Class
<1>2. /\ \A c \in D : table[c] \in Rec(D)
      /\ \A k \in DOMAIN prog : Registered(k) =>
           prog[k].name \in D /\ Parent(k) \in D \cup {None}
  BY TableIs DEF IInv, TableOK
<1>3. \A k \in DOMAIN prog : Registered(k)
  BY <1>1 DEF Registered, After0a
<1>4. n \in D /\ p \in D \cup {None}
  BY <1>1, <1>2, <1>3
<1>5. r \in Rec(D) /\ r.parent = p /\ r.abstract = table[n].abstract
  BY <1>2, <1>4, SetParent
<1>6. table'[n] = r /\ \A d \in D : d # n => table'[d] = table[d]
  <2>1. table \in [D -> Rec(D)] /\ table' = [table EXCEPT ![n] = r]
    BY <1>1, <1>4 DEF IInv, Types
  <2> HIDE DEF r, n, D
  <2> QED BY <1>4, <1>5, <2>1, Updated
<1> HIDE DEF r
<1>7. \A d \in D : table'[d].abstract = table[d].abstract
  BY <1>5, <1>6
<1>8. \A k \in DOMAIN prog : /\ Closed(k)' <=> k < at
                             /\ Opened(k)' <=> k < at \/ k = at
                             /\ Closed(k) <=> k < at
                             /\ Opened(k) <=> k < at
  BY <1>1 DEF Opened, Closed, After0b
<1>9. Len(prog) \in Nat /\ DOMAIN prog = 1 .. Len(prog)
  BY ProgIs DEF IInv
<1>10. ASSUME NEW k \in DOMAIN prog, k < at
       PROVE  /\ Defines(k)' = Defines(k) /\ Passed(k)' = Passed(k)
              /\ table'[prog[k].name].abstract = table[prog[k].name].abstract
  <2>1. k # at /\ prog[k].name \in D /\ Parent(k) \in D \cup {None}
    BY <1>1, <1>2, <1>3, <1>9, <1>10
  <2>2. prog[k].name # n
    BY <1>1, <1>3, <2>1 DEF IInv, TableOK, NamesOK
  <2>3. Parent(k)' = Parent(k)
    BY <1>1, <1>6, <2>1, <2>2 DEF Parent
  <2> QED BY <1>1, <1>7, <2>1, <2>3 DEF Defines, Passed
<1>11. ExactOK'
  BY <1>1, <1>8, <1>10, ExactKept
<1>12. UnopenedOK'
  BY <1>1, <1>8 DEF PyInv, UnopenedOK, SigNames
<1>13. OpenOK'
  <2>1. SigNames(at) = {}
    <3>1. ~ Opened(at)
      BY <1>1, <1>8, <1>9
    <3> QED BY <1>1, <3>1 DEF PyInv, UnopenedOK
  <2>2. Defines(at) = {}
    BY <2>1, TypesNow DEF SigNames, Defines, IInv
  <2>3. ASSUME NEW kinds PROVE Seen(kinds)' = {}
    <3>1. prog[at].body \in Seq([kind : Kinds, name : Nat])
      BY <1>1, ProgIs DEF IInv
    <3>2. \A i \in DOMAIN prog[at].body : ~ (i < 1)
      BY <3>1
    <3> QED BY <1>1, <3>2 DEF Seen
  <2>4. SigNames(at)' = {} /\ Defines(at)' = {}
    BY <1>1, <2>1, <2>2 DEF SigNames, Defines
  <2>5. Passed(at)' = unimplemented'
    <3>1. Parent(at)' = p
      BY <1>1, <1>5, <1>6 DEF Parent
    <3> QED BY <1>1, <1>4, <1>7, <3>1 DEF Passed
  <2>6. at' = at
    BY <1>1
  <2> QED BY <2>3, <2>4, <2>5, <2>6 DEF OpenOK
<1>14. VtablesOK'
  BY <1>1, NoVtables
<1> QED BY <1>11, <1>12, <1>13, <1>14 DEF PyInv

(* An item of the open class is read: what it binds is seen. *)
LEMMA SeenMore ==
  ASSUME prog' = prog, at' = at, item' = item + 1, NEW kinds,
         prog[at].body \in Seq([kind : Kinds, name : Nat]), item \in DOMAIN prog[at].body
  PROVE  Seen(kinds)' = IF prog[at].body[item].kind \in kinds
                        THEN Seen(kinds) \cup {prog[at].body[item].name}
                        ELSE Seen(kinds)
<1> DEFINE b == prog[at].body
           J == {i \in DOMAIN b : i < item /\ b[i].kind \in kinds}
           K == {i \in DOMAIN b : i < item + 1 /\ b[i].kind \in kinds}
<1>1. DOMAIN b = 1 .. Len(b) /\ Len(b) \in Nat
  OBVIOUS
<1>2. K = IF b[item].kind \in kinds THEN J \cup {item} ELSE J
  BY <1>1
<1>3. Seen(kinds)' = {b[j].name : j \in K} /\ Seen(kinds) = {b[j].name : j \in J}
  BY DEF Seen
<1> HIDE DEF J, K
<1> QED BY <1>2, <1>3

(* Nothing closes and nothing else opens while an item is read. *)
LEMMA PyMember ==
  ASSUME IInv, PyInv, prog' = prog, vtable' = vtable,
         phase = "0b", phase' = "0b", at' = at, at \in DOMAIN prog,
         item \in DOMAIN prog[at].body, item' = item + 1,
         \A c \in DOMAIN table : Same(c),
         NEW m \in Nat,
         sigs \subseteq sigs', sigs' \subseteq sigs \cup {<<prog[at].name, m>>},
         bodies \subseteq bodies', bodies' \subseteq bodies \cup {<<prog[at].name, m>>}
  PROVE  ExactOK' /\ UnopenedOK' /\ VtablesOK' /\ Passed(at)' = Passed(at)
<1>1. /\ Len(prog) \in Nat /\ DOMAIN prog = 1 .. Len(prog)
      /\ item \in Nat /\ item > 0
  <2>1. /\ Len(prog) \in Nat /\ DOMAIN prog = 1 .. Len(prog)
        /\ prog[at].body \in Seq([kind : Kinds, name : Nat])
    BY ProgIs DEF IInv
  <2>2. DOMAIN prog[at].body = 1 .. Len(prog[at].body) /\ Len(prog[at].body) \in Nat
    BY <2>1
  <2> QED BY <2>1, <2>2
<1>2. \A k \in DOMAIN prog :
        /\ Closed(k)' <=> k < at
        /\ Closed(k) <=> k < at
        /\ Opened(k)' <=> k < at \/ k = at
        /\ Opened(k) <=> k < at \/ k = at
  BY <1>1 DEF Opened, Closed, After0b
<1>3. \A k \in DOMAIN prog : /\ Registered(k) /\ prog[k].name \in DOMAIN table
                             /\ Parent(k) \in DOMAIN table \cup {None}
  BY TableIs DEF IInv, TableOK, Registered, After0a
<1>4. \A k \in DOMAIN prog :
        /\ Parent(k)' = Parent(k) /\ Passed(k)' = Passed(k)
        /\ table'[prog[k].name].abstract = table[prog[k].name].abstract
  BY <1>3 DEF Same, Parent, Passed
<1>5. \A k \in DOMAIN prog : k # at => prog[k].name # prog[at].name
  BY <1>3 DEF IInv, TableOK, NamesOK
<1>6. \A k \in DOMAIN prog : k # at => Defines(k)' = Defines(k) /\ SigNames(k)' = SigNames(k)
  BY <1>5 DEF Defines, SigNames
<1>7. \A k \in DOMAIN prog : k < at => k # at
  BY <1>1
<1>8. ExactOK'
  <2>1. \A k \in DOMAIN prog : Closed(k)' =>
          /\ Closed(k) /\ Defines(k)' = Defines(k) /\ Passed(k)' = Passed(k)
          /\ table'[prog[k].name].abstract = table[prog[k].name].abstract
    BY <1>2, <1>4, <1>6, <1>7
  <2> QED BY <2>1, ExactKept
<1>9. UnopenedOK'
  BY <1>2, <1>6 DEF PyInv, UnopenedOK
<1>10. VtablesOK'
  BY NoVtables
<1> QED BY <1>4, <1>8, <1>9, <1>10

(* A field is no callable. *)
LEMMA PyAddField ==
  ASSUME IInv, PyInv, AddField
  PROVE  PyInv'
<1>1. /\ phase = "0b" /\ at \in DOMAIN prog /\ item \in DOMAIN prog[at].body
      /\ prog[at].body[item].kind = "field"
      /\ prog[at].body \in Seq([kind : Kinds, name : Nat])
  <2>1. phase = "0b" /\ at \in DOMAIN prog /\ item \in DOMAIN prog[at].body
        /\ prog[at].body[item].kind = "field"
    BY ItemIs DEF AddField, Kinds
  <2> QED BY <2>1, ProgIs DEF IInv
<1>2. /\ prog' = prog /\ phase' = phase /\ at' = at /\ item' = item + 1
      /\ table' = table /\ unimplemented' = unimplemented
      /\ sigs' = sigs /\ bodies' = bodies /\ vtable' = vtable
  BY DEF AddField, source, funcs, consts
<1>3. ExactOK' /\ UnopenedOK' /\ VtablesOK' /\ Passed(at)' = Passed(at)
  <2>1. \A c \in DOMAIN table : Same(c)
    BY <1>2 DEF Same
  <2> QED BY <1>1, <1>2, <2>1, PyMember
<1>4. item > 0
  BY <1>1
<1>5. \A kinds \in {Callables, Callables \ {"abstract"}, {"abstract"}} :
        Seen(kinds)' = Seen(kinds)
  BY <1>1, <1>2, SeenMore DEF Callables
<1>6. OpenOK'
  BY <1>1, <1>2, <1>3, <1>4, <1>5 DEF PyInv, OpenOK, SigNames, Defines
<1> QED BY <1>3, <1>6 DEF PyInv

(* A method is a new name of its class: it takes an abstract one from what  *)
(* is left to implement, or adds one to it.                                 *)
LEMMA PyMethod ==
  ASSUME IInv, PyInv, AtItem(Callables),
         <<Class, Item.name>> \notin sigs,
         sigs' = sigs \cup {<<Class, Item.name>>},
         \/ table' = table
         \/ table' = [table EXCEPT ![Class].props = @ \cup {Item.name}]
         \/ table' = [table EXCEPT ![Class].statics = @ \cup {Item.name}],
         \/ /\ Item.kind = "abstract" /\ bodies' = bodies
            /\ unimplemented' = unimplemented \cup {Item.name}
         \/ /\ Item.kind # "abstract" /\ bodies' = bodies \cup {<<Class, Item.name>>}
            /\ unimplemented' = unimplemented \ {Item.name},
         item' = item + 1, prog' = prog, phase' = phase, at' = at, vtable' = vtable
  PROVE  PyInv'
<1> DEFINE n == prog[at].name
           it == prog[at].body[item]
           m == it.name
           A == Seen({"abstract"})
           B == Seen(Callables \ {"abstract"})
           C == Seen(Callables)
<1>1. /\ phase = "0b" /\ at \in DOMAIN prog /\ item \in DOMAIN prog[at].body
      /\ Item = it /\ Class = n /\ it.kind \in Callables
      /\ m \in Nat /\ n \in DOMAIN table
  BY ItemIs DEF Callables
<1>2. prog[at].body \in Seq([kind : Kinds, name : Nat])
  BY <1>1, ProgIs DEF IInv
<1>3. item > 0
  BY <1>1, <1>2
<1>4. \A d \in DOMAIN table : Same(d)
  <2> HIDE DEF n, m
  <2>1. \/ table' = table
        \/ table' = [table EXCEPT ![n].props = @ \cup {m}]
        \/ table' = [table EXCEPT ![n].statics = @ \cup {m}]
    BY <1>1 DEF m
  <2> QED BY <1>1, <2>1, NamesAdded DEF IInv
<1>5. /\ sigs' = sigs \cup {<<n, m>>} /\ <<n, m>> \notin sigs
      /\ \/ it.kind = "abstract" /\ bodies' = bodies /\ unimplemented' = unimplemented \cup {m}
         \/ it.kind # "abstract" /\ bodies' = bodies \cup {<<n, m>>}
            /\ unimplemented' = unimplemented \ {m}
  BY <1>1
<1>6. ExactOK' /\ UnopenedOK' /\ VtablesOK' /\ Passed(at)' = Passed(at)
  <2>1. /\ sigs \subseteq sigs' /\ sigs' \subseteq sigs \cup {<<n, m>>}
        /\ bodies \subseteq bodies' /\ bodies' \subseteq bodies \cup {<<n, m>>}
    BY <1>5
  <2> HIDE DEF m
  <2> QED BY <1>1, <1>4, <2>1, PyMember
<1>7. /\ SigNames(at) = C /\ Defines(at) = B /\ unimplemented = (Passed(at) \ B) \cup A
  BY <1>1, <1>3 DEF PyInv, OpenOK
<1>8. m \notin C
  BY <1>1, <1>5, <1>7 DEF SigNames
<1>9. A \subseteq C /\ B \subseteq C
  BY DEF Seen, Callables, Kinds
<1>10. /\ C' = C \cup {m}
       /\ A' = IF it.kind = "abstract" THEN A \cup {m} ELSE A
       /\ B' = IF it.kind = "abstract" THEN B ELSE B \cup {m}
  BY <1>1, <1>2, SeenMore
<1>11. SigNames(at)' = SigNames(at) \cup {m}
  BY <1>1, <1>5 DEF SigNames
<1>12. Defines(at)' = IF it.kind = "abstract" THEN Defines(at) ELSE Defines(at) \cup {m}
  BY <1>1, <1>5 DEF Defines
<1>13. /\ SigNames(at)' = C' /\ Defines(at)' = B'
  BY <1>7, <1>10, <1>11, <1>12
<1>14. unimplemented' = (Passed(at) \ B') \cup A'
  <2> HIDE DEF A, B, C, m, it
  <2>1. CASE it.kind = "abstract"
    BY <1>5, <1>7, <1>10, <2>1
  <2>2. CASE it.kind # "abstract"
    BY <1>5, <1>7, <1>8, <1>9, <1>10, <2>2
  <2> QED BY <2>1, <2>2
<1>15. OpenOK'
  BY <1>6, <1>13, <1>14 DEF OpenOK
<1> QED BY <1>6, <1>15 DEF PyInv

(* Static, abstract and plain methods. *)
LEMMA PyAdd ==
  ASSUME IInv, PyInv, AddStatic \/ AddAbstract \/ AddMethod
  PROVE  PyInv'
<1>1. CASE AddStatic
  <2>1. AtItem(Callables) /\ Item.kind # "abstract"
    BY <1>1 DEF AddStatic, AtItem, Callables, Kinds
  <2> QED BY <1>1, <2>1, PyMethod DEF AddStatic, consts, source
<1>2. CASE AddAbstract
  <2>1. AtItem(Callables) /\ Item.kind = "abstract"
    BY <1>2 DEF AddAbstract, AtItem, Callables, Kinds
  <2> QED BY <1>2, <2>1, PyMethod DEF AddAbstract, consts, source
<1>3. CASE AddMethod
  <2>1. AtItem(Callables) /\ Item.kind # "abstract"
    BY <1>3 DEF AddMethod, AtItem, Callables, Kinds
  <2> QED BY <1>3, <2>1, PyMethod DEF AddMethod, consts, source
<1> QED BY <1>1, <1>2, <1>3

(* The end of a class body: everything in it has been seen. *)
LEMMA PyCloseClass ==
  ASSUME IInv, PyInv, CloseClass
  PROVE  PyInv'
<1> DEFINE D == DOMAIN table
           n == prog[at].name
           b == prog[at].body
           r == [table[n] EXCEPT !.fields = fields, !.abstract = unimplemented]
<1>1. /\ prog' = prog /\ phase = "0b" /\ phase' = "0b" /\ at \in DOMAIN prog
      /\ at' = at + 1 /\ item > Len(b) /\ item' = 0
      /\ table' = [table EXCEPT ![n].fields = fields, ![n].abstract = unimplemented]
      /\ sigs' = sigs /\ bodies' = bodies /\ vtable' = vtable
  BY DEF CloseClass, source, local, funcs, consts, InRange, Class, Body
<1>2. /\ Len(prog) \in Nat /\ DOMAIN prog = 1 .. Len(prog) /\ at \in 1 .. Len(prog)
      /\ DOMAIN b = 1 .. Len(b) /\ Len(b) \in Nat /\ item \in Nat /\ item > 0
  <2>1. /\ Len(prog) \in Nat /\ DOMAIN prog = 1 .. Len(prog)
        /\ b \in Seq([kind : Kinds, name : Nat])
    BY <1>1, ProgIs DEF IInv
  <2>2. item \in Nat /\ Len(b) \in Nat /\ DOMAIN b = 1 .. Len(b)
    BY <2>1, TypesNow DEF IInv
  <2> QED BY <1>1, <2>1, <2>2
<1>3. /\ \A c \in D : table[c] \in Rec(D)
      /\ \A k \in DOMAIN prog : /\ Registered(k) /\ prog[k].name \in D
                                /\ Parent(k) \in D \cup {None}
  BY <1>1, TableIs DEF IInv, TableOK, Registered, After0a
<1>4. n \in D
  BY <1>1, <1>3
<1>5. r \in Rec(D) /\ r.parent = table[n].parent /\ r.abstract = unimplemented
  <2>1. table[n] \in Rec(D) /\ fields \in Seq(Nat) /\ unimplemented \in SUBSET Nat
    BY <1>3, <1>4, TypesNow DEF IInv
  <2>2. r = [table[n] EXCEPT !.fields = fields, !.abstract = unimplemented]
    OBVIOUS
  <2> HIDE DEF D, n, r, b
  <2> QED BY <2>1, <2>2 DEF Rec
<1>6. table'[n] = r /\ \A d \in D : d # n => table'[d] = table[d]
  <2>1. table \in [D -> Rec(D)]
    BY DEF IInv, Types
  <2>2. table' = [table EXCEPT ![n] = r]
    BY <1>1, <1>4, <2>1
  <2> HIDE DEF r, n, D, b
  <2> QED BY <1>4, <1>5, <2>1, <2>2, Updated
<1> HIDE DEF r
<1>7. /\ \A k \in DOMAIN prog : /\ Closed(k)' <=> k < at \/ k = at
                                /\ Opened(k)' <=> k < at \/ k = at
                                /\ Closed(k) <=> k < at
                                /\ Opened(k) <=> k < at \/ k = at
  BY <1>1, <1>2 DEF Opened, Closed, After0b
<1>8. \A k \in DOMAIN prog : k # at => prog[k].name # n
  BY <1>1, <1>3 DEF IInv, TableOK, NamesOK
<1>9. \A k \in DOMAIN prog : k < at \/ k = at =>
        /\ Parent(k)' = Parent(k) /\ Parent(k) # n
        /\ Passed(k)' = Passed(k) /\ Defines(k)' = Defines(k)
  <2> SUFFICES ASSUME NEW k \in DOMAIN prog, k < at \/ k = at
      PROVE  /\ Parent(k)' = Parent(k) /\ Parent(k) # n
             /\ Passed(k)' = Passed(k) /\ Defines(k)' = Defines(k)
    OBVIOUS
  <2>1. Parent(k)' = Parent(k)
    BY <1>1, <1>3, <1>5, <1>6 DEF Parent
  <2>2. Opened(k) /\ k <= at
    BY <1>2, <1>7
  <2>3. Parent(k) # n
    BY <1>1, <1>3, <2>2, NotAbove DEF IInv
  <2> QED BY <1>1, <1>3, <1>6, <2>1, <2>3 DEF Passed, Defines
<1>10. ASSUME NEW kinds PROVE Seen(kinds) = Binds(prog[at], kinds)
  <2>1. \A j \in DOMAIN b : j < item
    BY <1>1, <1>2
  <2> QED BY <2>1 DEF Seen, Binds, ToSet
<1>11. /\ Defines(at) = Solid(at)
       /\ unimplemented = (Passed(at) \ Solid(at)) \cup Own(at)
  BY <1>1, <1>2, <1>10 DEF PyInv, OpenOK, Solid, Own
<1>12. ExactOK'
  <2> SUFFICES ASSUME NEW k \in DOMAIN prog, k < at \/ k = at
      PROVE  /\ Defines(k) = Solid(k)
             /\ table'[prog[k].name].abstract = (Passed(k) \ Solid(k)) \cup Own(k)
    <3>1. \A k \in DOMAIN prog : Solid(k)' = Solid(k) /\ Own(k)' = Own(k)
      BY <1>1 DEF Solid, Own
    <3> QED BY <1>1, <1>7, <1>9, <3>1 DEF ExactOK
  <2>1. CASE k = at
    BY <1>5, <1>6, <1>11, <2>1
  <2>2. CASE k < at /\ k # at
    BY <1>3, <1>6, <1>7, <1>8, <2>2 DEF PyInv, ExactOK
  <2> QED BY <1>2, <2>1, <2>2
<1>13. UnopenedOK'
  BY <1>1, <1>7 DEF PyInv, UnopenedOK, SigNames
<1>14. OpenOK' /\ VtablesOK'
  BY <1>1, NoVtables DEF OpenOK
<1> QED BY <1>12, <1>13, <1>14 DEF PyInv

(* Phase 0c leaves parents and abstract sets as they are. *)
LEMMA PyLinkClass ==
  ASSUME IInv, PyInv, LinkClass
  PROVE  PyInv'
<1>1. /\ prog' = prog /\ phase = "0c" /\ phase' = "0c" /\ at \in DOMAIN prog
      /\ \E x, y : table' = [table EXCEPT ![prog[at].name].root = x,
                                          ![prog[at].name].slots = y]
      /\ bodies' = bodies /\ vtable' = vtable
  BY DEF LinkClass, source, local, funcs, consts, InRange, Class
<1>2. /\ \A c \in DOMAIN table : table[c] \in Rec(DOMAIN table)
      /\ \A k \in DOMAIN prog : /\ prog[k].name \in DOMAIN table
                                /\ Parent(k) \in DOMAIN table \cup {None}
  BY <1>1, TableIs DEF IInv, TableOK, Registered, After0a
<1>3. \A c \in DOMAIN table : /\ table'[c].parent = table[c].parent
                              /\ table'[c].abstract = table[c].abstract
  <2>1. PICK x, y : table' = [table EXCEPT ![prog[at].name].root = x,
                                           ![prog[at].name].slots = y]
    BY <1>1
  <2> DEFINE D == DOMAIN table
             n == prog[at].name
             r == [table[n] EXCEPT !.root = x, !.slots = y]
  <2>2. n \in D /\ table \in [D -> Rec(D)]
    BY <1>1, <1>2 DEF IInv, Types
  <2>3. r.parent = table[n].parent /\ r.abstract = table[n].abstract
    <3>1. table[n] \in Rec(D) /\ r = [table[n] EXCEPT !.root = x, !.slots = y]
      BY <2>2
    <3> HIDE DEF D, n, r
    <3> QED BY <3>1 DEF Rec
  <2>4. table' = [table EXCEPT ![n] = r]
    BY <2>1, <2>2
  <2> HIDE DEF D, n, r
  <2>5. table'[n] = r /\ \A d \in D : d # n => table'[d] = table[d]
    BY <2>2, <2>4
  <2> QED BY <2>3, <2>5 DEF D
<1>4. \A k \in DOMAIN prog : Closed(k)
  BY <1>1 DEF Closed, After0b
<1>5. \A k \in DOMAIN prog :
        /\ Defines(k)' = Defines(k) /\ Passed(k)' = Passed(k)
        /\ table'[prog[k].name].abstract = table[prog[k].name].abstract
  BY <1>1, <1>2, <1>3 DEF Defines, Passed, Parent
<1>6. ExactOK'
  BY <1>1, <1>4, <1>5, ExactKept
<1>7. UnopenedOK' /\ OpenOK' /\ VtablesOK'
  BY <1>1, NoVtables DEF UnopenedOK, OpenOK
<1> QED BY <1>6, <1>7 DEF PyInv

(* A vtable constant holds, for every slot, the function Python would find. *)
LEMMA PyEmitVtable ==
  ASSUME IInv, PyInv, EmitVtable
  PROVE  PyInv'
<1> DEFINE c == Class
           slots == table[c].slots
           v == [k \in DOMAIN slots |-> <<Resolve(c, slots[k], bodies), slots[k]>>]
<1>1. /\ prog' = prog /\ table' = table /\ bodies' = bodies /\ sigs' = sigs
      /\ phase = "vtables" /\ at \in DOMAIN prog /\ Emits(c) /\ c = prog[at].name
      /\ phase' = IF {k \in DOMAIN slots : Resolve(c, slots[k], bodies) = None} = {}
                  THEN phase ELSE "panicked"
      /\ vtable' = [d \in DOMAIN vtable \cup {c} |-> IF d = c THEN v ELSE vtable[d]]
  BY DEF EmitVtable, source, local, funcs, consts, InRange, Class
<1>2. \A k \in DOMAIN slots : Resolve(c, slots[k], bodies) # None
  BY <1>1, Filled
<1>3. phase' = "vtables"
  BY <1>1, <1>2
<1>4. ExactOK'
  <2>1. \A k \in DOMAIN prog : Closed(k) /\ Defines(k)' = Defines(k) /\ Passed(k)' = Passed(k)
    BY <1>1 DEF Closed, After0b, Defines, Passed, Parent
  <2> QED BY <1>1, <2>1, ExactKept
<1>5. UnopenedOK' /\ OpenOK'
  BY <1>3 DEF UnopenedOK, OpenOK
<1>6. ASSUME NEW k \in DOMAIN slots
      PROVE  Resolve(c, slots[k], bodies) = Supplier(prog, c, slots[k])
  <2>1. /\ phase \in After0b /\ table[c].abstract = {}
        /\ Types /\ TableOK /\ ExactOK
    BY <1>1 DEF After0b, Emits, IsAbstract, IInv, PyInv
  <2>2. slots[k] \in Nat
    <3>1. slots \in Seq(Nat)
      <4>1. c \in DOMAIN table /\ \A d \in DOMAIN table : table[d] \in Rec(DOMAIN table)
        BY <1>1, TableIs DEF IInv, TableOK, Registered, After0a
      <4> QED BY <4>1, RecFields
    <3> HIDE DEF slots
    <3> QED BY <3>1
  <2>3. Resolve(c, slots[k], bodies) = Finds(c, slots[k])
    BY <1>1, <2>1, <2>2, ResolveIs
  <2>4. Unique /\ c \in Declared
    BY <1>1, <2>1, BaseIs DEF Declared
  <2> QED BY <1>2, <2>1, <2>3, <2>4, SupplierIs
<1>7. VtablesOK'
  <2>1. ASSUME NEW d \in DOMAIN vtable', NEW k \in DOMAIN vtable'[d]
        PROVE  vtable'[d][k] = <<Supplier(prog, d, table[d].slots[k]), table[d].slots[k]>>
    <3>1. CASE d = c
      <4>1. vtable'[d] = v /\ k \in DOMAIN slots
        BY <1>1, <2>1, <3>1
      <4> QED BY <1>6, <3>1, <4>1
    <3>2. CASE d # c
      <4>1. d \in DOMAIN vtable /\ vtable'[d] = vtable[d]
        BY <1>1, <3>2
      <4> QED BY <4>1 DEF PyInv, VtablesOK, VtableAsInPython
    <3> QED BY <3>1, <3>2
  <2>2. VtableAsInPython'
    <3>1. prog' = prog /\ table' = table
      BY <1>1
    <3> HIDE DEF c, slots, v
    <3> QED BY <2>1, <3>1 DEF VtableAsInPython
  <2> QED BY <1>3, <2>2 DEF VtablesOK
<1> QED BY <1>4, <1>5, <1>7 DEF PyInv

-----------------------------------------------------------------------------
(* The invariant holds before the first pass. *)
LEMMA PyStarts ==
  ASSUME ObjInit
  PROVE  PyInv
<1>1. phase = "0a" /\ sigs = {} /\ vtable = [c \in {} |-> <<>>]
  BY DEF ObjInit, Init
<1>2. DOMAIN vtable = {}
  BY <1>1
<1>3. ExactOK /\ OpenOK
  BY <1>1 DEF ExactOK, OpenOK, Closed, After0b
<1>4. UnopenedOK
  BY <1>1 DEF UnopenedOK, SigNames
<1>5. VtablesOK
  BY <1>2 DEF VtablesOK, VtableAsInPython
<1> QED BY <1>3, <1>4, <1>5 DEF PyInv

(* Every step of the compiler and of its program keeps it. *)
LEMMA PyStepKeeps ==
  ASSUME IInv, PyInv, [Next]_allVars
  PROVE  PyInv'
<1>1. CASE CompileStep
  <2> USE <1>1 DEF CompileStep
  <2>1. CASE Register
    BY <2>1, PyRegister
  <2>2. CASE RejectDuplicateClass \/ RejectUnknownBase \/ RejectDuplicateField
             \/ RejectDuplicateMethod
    <3>1. Reject /\ phase \in {"0a", "0b"}
      BY <2>2 DEF RejectDuplicateClass, RejectUnknownBase, RejectDuplicateField,
                  RejectDuplicateMethod, AtItem
    <3> QED BY <3>1, PyRest
  <2>3. CASE \/ NextPass("0a", "0b") \/ NextPass("0b", "0c")
             \/ NextPass("0c", "types") \/ NextPass("vtables", "done")
             \/ EmitTypes \/ SkipVtable
    BY <2>3, PyRest
  <2>4. CASE OpenClass
    BY <2>4, PyOpenClass
  <2>5. CASE CloseClass
    BY <2>5, PyCloseClass
  <2>6. CASE AddField
    BY <2>6, PyAddField
  <2>7. CASE AddStatic \/ AddAbstract \/ AddMethod
    BY <2>7, PyAdd
  <2>8. CASE LinkClass
    BY <2>8, PyLinkClass
  <2>9. CASE EmitVtable
    BY <2>9, PyEmitVtable
  <2> QED BY <2>1, <2>2, <2>3, <2>4, <2>5, <2>6, <2>7, <2>8, <2>9
          DEF Compile, Check, Emit
<1>2. CASE ObjectStep \/ UNCHANGED allVars
  <2>1. UNCHANGED classVars
    BY <1>2 DEF ObjectStep, New, SetField, GetField, CallVirtual, CallDirect, allVars
  <2> QED BY <2>1, PyRest
<1> QED BY <1>1, <1>2 DEF Next

(* So is each class phase 0c has reached. *)
LEMMA LinkedIsAbstract ==
  ASSUME IInv, PyInv, NEW c \in Linked
  PROVE  table[c].abstract = Unimplemented(prog, c)
<1>1. PICK k \in DOMAIN prog : prog[k].name = c /\ IsLinked(k)
  BY LinkedIs
<1>2. phase \in After0b
  BY <1>1 DEF IsLinked, After0b, After0c
<1> QED BY <1>1, <1>2, AbstractIs DEF IInv, PyInv

(* Python has no other abstract names, and below ABC has just these. *)
LEMMA PythonsNames ==
  ASSUME NEW c
  PROVE  /\ AbstractNames(prog, c) \subseteq Unimplemented(prog, c)
         /\ UnderABC(prog, c) => AbstractNames(prog, c) = Unimplemented(prog, c)
BY DEF AbstractNames

LEMMA AbstractHolds ==
  ASSUME IInv, PyInv
  PROVE  AbstractAsInPython
BY LinkedIsAbstract, PythonsNames DEF AbstractAsInPython

(* Both invariants hold in every state, provided bases come first. *)
LEMMA PyInductive ==
  ASSUME \A p \in Programs : BasesAbove(p)
  PROVE  Spec => []PyInv
<1>1. ObjInit => PyInv
  BY PyStarts
<1>2. IInv /\ PyInv /\ [Next]_allVars => PyInv'
  BY PyStepKeeps
<1> QED BY <1>1, <1>2, Inductive, PTL DEF Spec

(* Whatever the program, a class below ABC is abstract, and its constructor *)
(* refused, exactly when Python would refuse it, in the names it would      *)
(* list; and a class that is not, which Python would never refuse, in the   *)
(* names whose lookup ends at a function marked abstract.                   *)
THEOREM AbstractSetsAgree ==
  ASSUME \A p \in Programs : BasesAbove(p)
  PROVE  Spec => []AbstractAsInPython
<1>1. IInv /\ PyInv => AbstractAsInPython
  BY AbstractHolds
<1> QED BY <1>1, Inductive, PyInductive, PTL

(* Whatever the program and however long the chain, each entry of a vtable  *)
(* is the function Python's lookup on the class would find: the search for  *)
(* a body, which passes over abstract declarations, never finds another.    *)
THEOREM VtablesAgree ==
  ASSUME \A p \in Programs : BasesAbove(p)
  PROVE  Spec => []VtableAsInPython
<1>1. PyInv => VtableAsInPython
  BY DEF PyInv, VtablesOK
<1> QED BY <1>1, PyInductive, PTL

-----------------------------------------------------------------------------
(* Objects.  What the other tables hold of a class body: its fields, its    *)
(* signatures, its static methods and properties.                           *)

(* The fields a class starts from. *)
FieldsFrom(k) == IF Parent(k) = None THEN {} ELSE ToSet(table[Parent(k)].fields)

(* Static methods and properties are entered under the names the body binds *)
(* so.                                                                      *)
KindsOK ==
  /\ table[ABC].statics = {} /\ table[ABC].props = {}
  /\ \A k \in DOMAIN prog : Registered(k) =>
       /\ table[prog[k].name].statics \subseteq Binds(prog[k], {"static"})
       /\ table[prog[k].name].props \subseteq Binds(prog[k], {"property"})

(* A closed class has a signature for each callable of its body, and its    *)
(* parent's fields and its own.                                             *)
MembersOK ==
  \A k \in DOMAIN prog : Closed(k) =>
    /\ SigNames(k) = Binds(prog[k], Callables)
    /\ ToSet(table[prog[k].name].fields) = FieldsFrom(k) \cup Binds(prog[k], {"field"})

(* The open class, as far as the pass has read it. *)
OpenFieldsOK ==
  phase = "0b" /\ item > 0 => ToSet(fields) = FieldsFrom(at) \cup Seen({"field"})

(* In a chain, the abstract names of a body have slots. *)
SlotsOK ==
  \A k \in DOMAIN prog : IsLinked(k) /\ NeedsVtable(prog[k].name) =>
    Own(k) \subseteq ToSet(table[prog[k].name].slots)

(* A class that needs one has a vtable, with an entry per slot. *)
IsEmitted(k) == phase = "done" \/ (phase = "vtables" /\ k < at)
EmittedOK ==
  /\ phase = "types" => at = 1
  /\ \A k \in DOMAIN prog : IsEmitted(k) /\ Emits(prog[k].name) =>
       /\ prog[k].name \in DOMAIN vtable
       /\ DOMAIN vtable[prog[k].name] = DOMAIN table[prog[k].name].slots

(* An instance is of a class without abstract names. *)
SelfOK == self # None => phase = "done" /\ ~ IsAbstract(self)

BodyOK == KindsOK /\ MembersOK /\ OpenFieldsOK /\ SlotsOK
ObjInv == BodyOK /\ EmittedOK /\ SelfOK

-----------------------------------------------------------------------------
(* The invariant through the passes. *)

(* A step that leaves the classes, and what is known of them, as they are. *)
LEMMA ObjQuiet ==
  ASSUME BodyOK, prog' = prog, table' = table, sigs' = sigs,
         \A k \in DOMAIN prog : /\ Registered(k)' => Registered(k)
                                /\ Closed(k)' => Closed(k)
                                /\ IsLinked(k)' => IsLinked(k),
         phase' = "0b" /\ item' > 0 =>
           phase = "0b" /\ item > 0 /\ at' = at /\ item' = item /\ fields' = fields
  PROVE  BodyOK'
<1>1. KindsOK'
  BY DEF BodyOK, KindsOK
<1>2. MembersOK'
  BY DEF BodyOK, MembersOK, SigNames, FieldsFrom, Parent
<1>3. OpenFieldsOK'
  BY DEF BodyOK, OpenFieldsOK, FieldsFrom, Parent, Seen
<1>4. SlotsOK'
  BY DEF BodyOK, SlotsOK, NeedsVtable, Own
<1> QED BY <1>1, <1>2, <1>3, <1>4 DEF BodyOK

(* Before the vtables there is nothing to say of them, and no instance. *)
LEMMA NotRunning ==
  ASSUME phase' \notin {"types", "vtables", "done"}, self' = None
  PROVE  EmittedOK' /\ SelfOK'
BY DEF EmittedOK, IsEmitted, SelfOK

(* Steps that do not move classes. *)
LEMMA ObjRest ==
  ASSUME IInv, BodyOK,
         \/ Reject /\ phase \in {"0a", "0b"}
         \/ NextPass("0a", "0b") \/ NextPass("0b", "0c")
         \/ NextPass("0c", "types") \/ NextPass("vtables", "done")
         \/ EmitTypes \/ SkipVtable \/ EmitVtable
         \/ UNCHANGED classVars
  PROVE  BodyOK'
<1>1. Len(prog) \in Nat /\ DOMAIN prog = 1 .. Len(prog) /\ at \in 1 .. Len(prog) + 1
  BY ProgIs, TypesNow DEF IInv
<1>2. CASE Reject /\ phase \in {"0a", "0b"}
  <2>1. phase' = "rejected" /\ table' = table /\ prog' = prog /\ sigs' = sigs
    BY <1>2 DEF Reject, source, funcs
  <2>2. \A k \in DOMAIN prog : ~ Registered(k)' /\ ~ Closed(k)' /\ ~ IsLinked(k)'
    BY <2>1 DEF Registered, Closed, IsLinked, After0a, After0b, After0c
  <2> QED BY <2>1, <2>2, ObjQuiet
<1>3. CASE NextPass("0a", "0b") \/ NextPass("0b", "0c")
           \/ NextPass("0c", "types") \/ NextPass("vtables", "done")
  <2>1. /\ prog' = prog /\ at' = 1 /\ item' = item /\ table' = table
        /\ sigs' = sigs /\ at \notin DOMAIN prog
        /\ <<phase, phase'>> \in {<<"0a", "0b">>, <<"0b", "0c">>, <<"0c", "types">>,
                                  <<"vtables", "done">>}
    BY <1>3 DEF NextPass, source, funcs, InRange
  <2>2. at = Len(prog) + 1
    BY <1>1, <2>1
  <2>3. phase' = "0b" => item = 0
    BY <2>1 DEF IInv, Types
  <2>4. ASSUME NEW k \in DOMAIN prog
        PROVE  /\ Registered(k)' => Registered(k)
               /\ Closed(k)' => Closed(k)
               /\ IsLinked(k)' => IsLinked(k)
    BY <1>1, <2>1, <2>2 DEF Registered, Closed, IsLinked, After0a, After0b, After0c
  <2> QED BY <2>1, <2>3, <2>4, ObjQuiet
<1>4. CASE EmitTypes \/ SkipVtable \/ EmitVtable
  <2>1. /\ prog' = prog /\ table' = table /\ sigs' = sigs
        /\ phase \in {"types", "vtables"} /\ phase' # "0b"
    BY <1>4 DEF EmitTypes, SkipVtable, EmitVtable, source, funcs
  <2>2. \A k \in DOMAIN prog : Registered(k) /\ Closed(k) /\ IsLinked(k)
    BY <2>1 DEF Registered, Closed, IsLinked, After0a, After0b, After0c
  <2> QED BY <2>1, <2>2, ObjQuiet
<1>5. CASE UNCHANGED classVars
  <2>1. /\ prog' = prog /\ table' = table /\ phase' = phase /\ at' = at /\ item' = item
        /\ fields' = fields /\ sigs' = sigs
    BY <1>5 DEF classVars, source, cursor, local, funcs
  <2>2. ASSUME NEW k \in DOMAIN prog
        PROVE  /\ Registered(k)' = Registered(k)
               /\ Closed(k)' = Closed(k)
               /\ IsLinked(k)' = IsLinked(k)
    BY <2>1 DEF Registered, Closed, IsLinked
  <2> QED BY <2>1, <2>2, ObjQuiet
<1> QED BY <1>2, <1>3, <1>4, <1>5

(* The vtables, and the steps that lead to them. *)
LEMMA EmittedKept ==
  ASSUME IInv, ObjInv,
         \/ NextPass("0c", "types") \/ NextPass("vtables", "done")
         \/ EmitTypes \/ SkipVtable \/ EmitVtable
         \/ UNCHANGED classVars
  PROVE  EmittedOK'
<1>1. Len(prog) \in Nat /\ DOMAIN prog = 1 .. Len(prog) /\ at \in 1 .. Len(prog) + 1
  BY ProgIs, TypesNow DEF IInv
<1>2. CASE NextPass("0c", "types")
  BY <1>2 DEF NextPass, EmittedOK, IsEmitted
<1>3. CASE NextPass("vtables", "done")
  <2>1. /\ prog' = prog /\ table' = table /\ vtable' = vtable
        /\ phase = "vtables" /\ phase' = "done" /\ at \notin DOMAIN prog
    BY <1>3 DEF NextPass, source, consts, InRange
  <2>2. \A k \in DOMAIN prog : k < at
    BY <1>1, <2>1
  <2> QED BY <2>1, <2>2 DEF ObjInv, EmittedOK, IsEmitted, Emits, NeedsVtable, IsAbstract
<1>4. CASE EmitTypes
  <2>1. at' = 1 /\ phase' = "vtables" /\ prog' = prog
    BY <1>4 DEF EmitTypes, source, ObjInv, EmittedOK
  <2>2. \A k \in DOMAIN prog : ~ (k < 1)
    BY <1>1
  <2> QED BY <2>1, <2>2 DEF EmittedOK, IsEmitted
<1>5. CASE SkipVtable
  <2>1. /\ prog' = prog /\ table' = table /\ vtable' = vtable /\ at \in DOMAIN prog
        /\ phase = "vtables" /\ phase' = "vtables" /\ at' = at + 1
        /\ ~ Emits(prog[at].name)
    BY <1>5 DEF SkipVtable, source, local, funcs, consts, InRange, Class
  <2>2. \A k \in DOMAIN prog : k < at + 1 => k < at \/ k = at
    BY <1>1
  <2> QED BY <2>1, <2>2 DEF ObjInv, EmittedOK, IsEmitted, Emits, NeedsVtable, IsAbstract
<1>6. CASE EmitVtable
  <2> DEFINE c == prog[at].name
             slots == table[c].slots
             v == [k \in DOMAIN slots |-> <<Resolve(c, slots[k], bodies), slots[k]>>]
  <2>1. /\ prog' = prog /\ table' = table /\ at \in DOMAIN prog
        /\ phase = "vtables" /\ phase' \in {"vtables", "panicked"} /\ at' = at + 1
        /\ vtable' = [d \in DOMAIN vtable \cup {c} |-> IF d = c THEN v ELSE vtable[d]]
    BY <1>6 DEF EmitVtable, source, InRange, Class
  <2>2. \A k \in DOMAIN prog : k < at + 1 => k < at \/ k = at
    BY <1>1
  <2>3. DOMAIN v = DOMAIN slots
    OBVIOUS
  <2> HIDE DEF v
  <2>4. ASSUME NEW k \in DOMAIN prog, k < at + 1, Emits(prog[k].name)
        PROVE  /\ prog[k].name \in DOMAIN vtable'
               /\ DOMAIN vtable'[prog[k].name] = DOMAIN table[prog[k].name].slots
    <3>1. CASE prog[k].name = c
      BY <2>1, <2>3, <3>1
    <3>2. CASE prog[k].name # c
      <4>1. k < at
        BY <2>2, <2>4, <3>2
      <4>2. /\ prog[k].name \in DOMAIN vtable
            /\ DOMAIN vtable[prog[k].name] = DOMAIN table[prog[k].name].slots
        BY <2>1, <2>4, <4>1 DEF ObjInv, EmittedOK, IsEmitted
      <4> QED BY <2>1, <3>2, <4>2
    <3> QED BY <3>1, <3>2
  <2>5. \A d : Emits(d)' = Emits(d)
    BY <2>1 DEF Emits, NeedsVtable, IsAbstract
  <2> HIDE DEF c, slots
  <2> QED BY <2>1, <2>4, <2>5 DEF EmittedOK, IsEmitted
<1>7. CASE UNCHANGED classVars
  <2>1. /\ prog' = prog /\ table' = table /\ phase' = phase /\ at' = at /\ vtable' = vtable
    BY <1>7 DEF classVars, source, cursor, consts
  <2> QED BY <2>1 DEF ObjInv, EmittedOK, IsEmitted, Emits, NeedsVtable, IsAbstract
<1> QED BY <1>2, <1>3, <1>4, <1>5, <1>6, <1>7

(* A class is registered with nothing in it. *)
LEMMA ObjRegister ==
  ASSUME IInv, BodyOK, Register
  PROVE  BodyOK'
<1> DEFINE n == prog[at].name
<1>1. /\ prog' = prog /\ phase = "0a" /\ phase' = "0a" /\ at \in DOMAIN prog /\ at' = at + 1
      /\ n \notin DOMAIN table
      /\ table' = [c \in DOMAIN table \cup {n} |-> IF c = n THEN NewClass ELSE table[c]]
  BY DEF Register, source, InRange, Class
<1>2. Len(prog) \in Nat /\ DOMAIN prog = 1 .. Len(prog)
  BY ProgIs DEF IInv
<1>3. \A k \in DOMAIN prog : ~ Closed(k)' /\ ~ IsLinked(k)'
  BY <1>1 DEF Closed, IsLinked, After0b, After0c
<1>4. \A d \in DOMAIN table : table'[d] = table[d]
  BY <1>1
<1>5. table'[n].statics = {} /\ table'[n].props = {}
  BY <1>1 DEF NewClass
<1>6. ABC \in DOMAIN table
  BY DEF IInv, TableOK, NamesOK
<1>7. ASSUME NEW k \in DOMAIN prog, Registered(k)'
      PROVE  /\ table'[prog[k].name].statics \subseteq Binds(prog[k], {"static"})
             /\ table'[prog[k].name].props \subseteq Binds(prog[k], {"property"})
  <2>1. CASE prog[k].name = n
    BY <1>5, <2>1
  <2>2. CASE prog[k].name # n
    <3>1. k < at
      BY <1>1, <1>2, <1>7, <2>2 DEF Registered, After0a
    <3>2. Registered(k)
      BY <1>1, <3>1 DEF Registered
    <3> QED BY <1>4, <3>2, TableIs DEF IInv, TableOK, BodyOK, KindsOK
  <2> QED BY <2>1, <2>2
<1>8. KindsOK'
  BY <1>1, <1>4, <1>6, <1>7 DEF BodyOK, KindsOK
<1>9. MembersOK' /\ OpenFieldsOK' /\ SlotsOK'
  BY <1>1, <1>3 DEF MembersOK, OpenFieldsOK, SlotsOK
<1> QED BY <1>8, <1>9 DEF BodyOK

(* The first class and item of a body, as 0b comes to them. *)
LEMMA NoneSeen ==
  ASSUME Types, at \in DOMAIN prog, prog' = prog, at' = at, item' = 1, NEW kinds
  PROVE  Seen(kinds)' = {}
<1>1. prog[at].body \in Seq([kind : Kinds, name : Nat])
  BY ProgIs
<1>2. \A i \in DOMAIN prog[at].body : ~ (i < 1)
  BY <1>1
<1> QED BY <1>2 DEF Seen

(* A class is opened with the fields of its base. *)
LEMMA ObjOpenClass ==
  ASSUME IInv, BodyOK, OpenClass
  PROVE  BodyOK'
<1> DEFINE D == DOMAIN table
           n == prog[at].name
           p == IF prog[at].base = NoBase THEN None ELSE prog[at].base
           r == [table[n] EXCEPT !.parent = p]
<1>1. /\ prog' = prog /\ phase = "0b" /\ phase' = "0b" /\ at \in DOMAIN prog
      /\ at' = at /\ item = 0 /\ item' = 1
      /\ prog[at].base \in D \cup {NoBase}
      /\ table' = [table EXCEPT ![n].parent = p]
      /\ fields' = IF p = None THEN <<>> ELSE table[p].fields
      /\ sigs' = sigs
  BY DEF OpenClass, source, funcs, InRange, Class
<1>2. /\ \A c \in D : table[c] \in Rec(D)
      /\ \A k \in DOMAIN prog : Registered(k) =>
           prog[k].name \in D /\ Parent(k) \in D \cup {None}
  BY TableIs DEF IInv, TableOK
<1>3. \A k \in DOMAIN prog : /\ Registered(k) /\ ~ IsLinked(k)'
                             /\ Closed(k)' <=> k < at
                             /\ Closed(k) <=> k < at
  BY <1>1 DEF Registered, Closed, IsLinked, After0a, After0b, After0c
<1>4. n \in D /\ p \in D \cup {None}
  BY <1>1, <1>2, <1>3
<1>5. /\ r \in Rec(D) /\ r.parent = p /\ r.fields = table[n].fields
      /\ r.statics = table[n].statics /\ r.props = table[n].props
  <2>1. table[n] \in Rec(D)
    BY <1>2, <1>4
  <2>2. r \in Rec(D) /\ r.parent = p /\ r.fields = table[n].fields
    BY <1>4, <2>1, SetParent
  <2> QED BY <2>1, <2>2 DEF Rec
<1>6. table'[n] = r /\ \A d \in D : d # n => table'[d] = table[d]
  <2>1. table \in [D -> Rec(D)] /\ table' = [table EXCEPT ![n] = r]
    BY <1>1, <1>4 DEF IInv, Types
  <2> HIDE DEF r, n, D
  <2> QED BY <1>4, <1>5, <2>1, Updated
<1> HIDE DEF r
<1>7. \A d \in D : /\ table'[d].fields = table[d].fields
                   /\ table'[d].statics = table[d].statics
                   /\ table'[d].props = table[d].props
  BY <1>5, <1>6
<1>8. ABC \in D
  BY DEF IInv, TableOK, NamesOK
<1>9. KindsOK'
  BY <1>1, <1>2, <1>3, <1>7, <1>8 DEF BodyOK, KindsOK
<1>10. Len(prog) \in Nat /\ DOMAIN prog = 1 .. Len(prog)
  BY ProgIs DEF IInv
<1>11. ASSUME NEW k \in DOMAIN prog, k < at
       PROVE  FieldsFrom(k)' = FieldsFrom(k) /\ SigNames(k)' = SigNames(k)
  <2>1. k # at /\ prog[k].name \in D /\ Parent(k) \in D \cup {None}
    BY <1>1, <1>2, <1>3, <1>10, <1>11
  <2>2. prog[k].name # n
    BY <1>1, <1>3, <2>1 DEF IInv, TableOK, NamesOK
  <2>3. Parent(k)' = Parent(k)
    BY <1>1, <1>6, <2>1, <2>2 DEF Parent
  <2> QED BY <1>1, <1>7, <2>1, <2>3 DEF FieldsFrom, SigNames
<1>12. MembersOK'
  BY <1>1, <1>2, <1>3, <1>7, <1>11 DEF BodyOK, MembersOK
<1>13. OpenFieldsOK'
  <2>1. Seen({"field"})' = {}
    BY <1>1, NoneSeen DEF IInv
  <2>2. Parent(at)' = p
    BY <1>1, <1>5, <1>6 DEF Parent
  <2>3. ToSet(<<>>) = {}
    BY DEF ToSet
  <2>4. ToSet(fields') = FieldsFrom(at)'
    BY <1>1, <1>4, <1>7, <2>2, <2>3 DEF FieldsFrom
  <2> QED BY <2>1, <2>4 DEF OpenFieldsOK
<1>14. SlotsOK'
  BY <1>1, <1>3 DEF SlotsOK
<1> QED BY <1>9, <1>12, <1>13, <1>14 DEF BodyOK

(* The elements of a sequence with one more. *)
LEMMA SetAppend ==
  ASSUME NEW S, NEW s \in Seq(S), NEW e \in S
  PROVE  ToSet(Append(s, e)) = ToSet(s) \cup {e}
<1> DEFINE t == Append(s, e)
<1>1. /\ DOMAIN t = 1 .. Len(s) + 1 /\ DOMAIN s = 1 .. Len(s) /\ Len(s) \in Nat
      /\ \A i \in 1 .. Len(s) : t[i] = s[i]
      /\ t[Len(s) + 1] = e
  OBVIOUS
<1>2. \A i : i \in 1 .. Len(s) + 1 <=> i \in 1 .. Len(s) \/ i = Len(s) + 1
  BY <1>1
<1> HIDE DEF t
<1>3. ToSet(t) = ToSet(s) \cup {e}
  BY <1>1, <1>2 DEF ToSet
<1> QED BY <1>3 DEF t

(* While an item is read, nothing else is. *)
LEMMA ObjMember ==
  ASSUME IInv, BodyOK, prog' = prog,
         phase = "0b", phase' = "0b", at' = at, at \in DOMAIN prog,
         item \in DOMAIN prog[at].body, item' = item + 1,
         \A c \in DOMAIN table : Same(c),
         NEW m \in Nat,
         sigs \subseteq sigs', sigs' \subseteq sigs \cup {<<prog[at].name, m>>}
  PROVE  MembersOK' /\ SlotsOK' /\ FieldsFrom(at)' = FieldsFrom(at)
<1>1. Len(prog) \in Nat /\ DOMAIN prog = 1 .. Len(prog)
  BY ProgIs DEF IInv
<1>2. \A k \in DOMAIN prog : /\ ~ IsLinked(k)' /\ Registered(k)
                             /\ Closed(k)' <=> k < at
                             /\ Closed(k) <=> k < at
  BY DEF Registered, Closed, IsLinked, After0a, After0b, After0c
<1>3. \A k \in DOMAIN prog : /\ prog[k].name \in DOMAIN table
                             /\ Parent(k) \in DOMAIN table \cup {None}
  BY <1>2, TableIs DEF IInv, TableOK
<1>4. \A k \in DOMAIN prog :
        /\ FieldsFrom(k)' = FieldsFrom(k)
        /\ table'[prog[k].name].fields = table[prog[k].name].fields
  BY <1>3 DEF Same, Parent, FieldsFrom
<1>5. \A k \in DOMAIN prog : k < at => SigNames(k)' = SigNames(k)
  <2>1. \A k \in DOMAIN prog : k < at => k # at
    BY <1>1
  <2>2. \A k \in DOMAIN prog : k < at => prog[k].name # prog[at].name
    BY <1>2, <2>1 DEF IInv, TableOK, NamesOK
  <2> QED BY <2>2 DEF SigNames
<1>6. MembersOK'
  BY <1>2, <1>4, <1>5 DEF BodyOK, MembersOK
<1>7. SlotsOK'
  BY <1>2 DEF SlotsOK
<1> QED BY <1>4, <1>6, <1>7

(* A field is read: it is the only item that adds one. *)
LEMMA ObjAddField ==
  ASSUME IInv, BodyOK, AddField
  PROVE  BodyOK'
<1> DEFINE it == prog[at].body[item]
<1>1. /\ phase = "0b" /\ at \in DOMAIN prog /\ item \in DOMAIN prog[at].body
      /\ it.kind = "field" /\ it.name \in Nat /\ Item = it
  BY ItemIs DEF AddField, Kinds
<1>2. prog[at].body \in Seq([kind : Kinds, name : Nat])
  BY <1>1, ProgIs DEF IInv
<1>3. /\ prog' = prog /\ phase' = phase /\ at' = at /\ item' = item + 1
      /\ table' = table /\ sigs' = sigs /\ fields' = Append(fields, it.name)
  BY <1>1 DEF AddField, source, funcs
<1> DEFINE x == it.name
<1>4. MembersOK' /\ SlotsOK' /\ FieldsFrom(at)' = FieldsFrom(at)
  <2>1. \A c \in DOMAIN table : Same(c)
    BY <1>3 DEF Same
  <2>2. x \in Nat /\ sigs \subseteq sigs' /\ sigs' \subseteq sigs \cup {<<prog[at].name, x>>}
    BY <1>1, <1>3
  <2> HIDE DEF x
  <2> QED BY <1>1, <1>3, <2>1, <2>2, ObjMember
<1>5. KindsOK'
  BY <1>1, <1>3 DEF BodyOK, KindsOK, Registered, After0a
<1>6. Seen({"field"})' = Seen({"field"}) \cup {x}
  BY <1>1, <1>2, <1>3, SeenMore
<1>7. item > 0
  BY <1>1, <1>2
<1>8. ToSet(fields') = ToSet(fields) \cup {x}
  <2>1. fields \in Seq(Nat) /\ x \in Nat
    BY <1>1, TypesNow DEF IInv
  <2> HIDE DEF x
  <2>2. ToSet(Append(fields, x)) = ToSet(fields) \cup {x}
    BY <2>1, SetAppend
  <2> QED BY <1>3, <2>2 DEF x
<1>9. OpenFieldsOK'
  BY <1>1, <1>3, <1>4, <1>6, <1>7, <1>8 DEF BodyOK, OpenFieldsOK
<1> QED BY <1>4, <1>5, <1>9 DEF BodyOK

(* A static method or a property is entered in the record of its class. *)
LEMMA KindAdded ==
  ASSUME Types, NEW n \in DOMAIN table, NEW m \in Nat, NEW kind,
         \/ table' = table
         \/ table' = [table EXCEPT ![n].props = @ \cup {m}] /\ kind = "property"
         \/ table' = [table EXCEPT ![n].statics = @ \cup {m}] /\ kind = "static"
  PROVE  \A d \in DOMAIN table :
           /\ d # n => table'[d] = table[d]
           /\ table'[d].statics \subseteq
                table[d].statics \cup (IF d = n /\ kind = "static" THEN {m} ELSE {})
           /\ table'[d].props \subseteq
                table[d].props \cup (IF d = n /\ kind = "property" THEN {m} ELSE {})
<1> DEFINE D == DOMAIN table
<1>1. table \in [D -> Rec(D)] /\ table[n] \in Rec(D)
  BY DEF Types
<1>2. CASE table' = table
  BY <1>2
<1>3. CASE table' = [table EXCEPT ![n].props = @ \cup {m}] /\ kind = "property"
  <2> DEFINE r == [table[n] EXCEPT !.props = @ \cup {m}]
  <2>1. r.statics = table[n].statics /\ r.props = table[n].props \cup {m} /\ r \in Rec(D)
    BY <1>1 DEF Rec
  <2>2. table' = [table EXCEPT ![n] = r]
    BY <1>1, <1>3
  <2> HIDE DEF r, D
  <2>3. table'[n] = r /\ \A d \in D : d # n => table'[d] = table[d]
    BY <1>1, <2>1, <2>2, Updated DEF D
  <2> QED BY <1>3, <2>1, <2>3 DEF D
<1>4. CASE table' = [table EXCEPT ![n].statics = @ \cup {m}] /\ kind = "static"
  <2> DEFINE r == [table[n] EXCEPT !.statics = @ \cup {m}]
  <2>1. r.statics = table[n].statics \cup {m} /\ r.props = table[n].props /\ r \in Rec(D)
    BY <1>1 DEF Rec
  <2>2. table' = [table EXCEPT ![n] = r]
    BY <1>1, <1>4
  <2> HIDE DEF r, D
  <2>3. table'[n] = r /\ \A d \in D : d # n => table'[d] = table[d]
    BY <1>1, <2>1, <2>2, Updated DEF D
  <2> QED BY <1>4, <2>1, <2>3 DEF D
<1> QED BY <1>2, <1>3, <1>4

(* A method is a signature more, under the kind it is defined as. *)
LEMMA ObjMethod ==
  ASSUME IInv, BodyOK, AtItem(Callables),
         sigs' = sigs \cup {<<Class, Item.name>>},
         \/ table' = table
         \/ /\ table' = [table EXCEPT ![Class].props = @ \cup {Item.name}]
            /\ Item.kind = "property"
         \/ /\ table' = [table EXCEPT ![Class].statics = @ \cup {Item.name}]
            /\ Item.kind = "static",
         item' = item + 1, prog' = prog, phase' = phase, at' = at, fields' = fields
  PROVE  BodyOK'
<1> DEFINE n == prog[at].name
           it == prog[at].body[item]
           m == it.name
<1>1. /\ phase = "0b" /\ at \in DOMAIN prog /\ item \in DOMAIN prog[at].body
      /\ Item = it /\ Class = n /\ it.kind \in Callables
      /\ m \in Nat /\ n \in DOMAIN table
  BY ItemIs DEF Callables
<1>2. prog[at].body \in Seq([kind : Kinds, name : Nat])
  BY <1>1, ProgIs DEF IInv
<1> DEFINE kind == it.kind
<1>3. /\ sigs' = sigs \cup {<<n, m>>}
      /\ \/ table' = table
         \/ table' = [table EXCEPT ![n].props = @ \cup {m}] /\ kind = "property"
         \/ table' = [table EXCEPT ![n].statics = @ \cup {m}] /\ kind = "static"
  BY <1>1
<1>4. \A d \in DOMAIN table : Same(d)
  <2> HIDE DEF n, m, kind
  <2> QED BY <1>1, <1>3, NamesAdded DEF IInv
<1>5. MembersOK' /\ SlotsOK' /\ FieldsFrom(at)' = FieldsFrom(at)
  <2> HIDE DEF m
  <2> QED BY <1>1, <1>3, <1>4, ObjMember
<1>6. \A d \in DOMAIN table :
        /\ d # n => table'[d] = table[d]
        /\ table'[d].statics \subseteq
             table[d].statics \cup (IF d = n /\ kind = "static" THEN {m} ELSE {})
        /\ table'[d].props \subseteq
             table[d].props \cup (IF d = n /\ kind = "property" THEN {m} ELSE {})
  <2> HIDE DEF n, m, kind
  <2> QED BY <1>1, <1>3, KindAdded DEF IInv
<1>7. m \in Binds(prog[at], {kind})
  BY <1>1 DEF Binds, ToSet
<1>8. KindsOK'
  <2>1. ABC \in DOMAIN table /\ n # ABC /\ \A k \in DOMAIN prog : Registered(k)
    BY <1>1 DEF IInv, TableOK, NamesOK, Registered, After0a
  <2>2. ASSUME NEW k \in DOMAIN prog
        PROVE  /\ table'[prog[k].name].statics \subseteq Binds(prog[k], {"static"})
               /\ table'[prog[k].name].props \subseteq Binds(prog[k], {"property"})
    <3>1. /\ prog[k].name \in DOMAIN table
          /\ table[prog[k].name].statics \subseteq Binds(prog[k], {"static"})
          /\ table[prog[k].name].props \subseteq Binds(prog[k], {"property"})
      BY <2>1, TableIs DEF IInv, TableOK, BodyOK, KindsOK
    <3>2. CASE prog[k].name = n
      <4>1. k = at
        BY <1>1, <2>1, <3>2 DEF IInv, TableOK, NamesOK
      <4> HIDE DEF n, m, kind
      <4> QED BY <1>6, <1>7, <3>1, <4>1
    <3>3. CASE prog[k].name # n
      <4> HIDE DEF n, m, kind
      <4> QED BY <1>6, <3>1, <3>3
    <3> QED BY <3>2, <3>3
  <2>3. table'[ABC].statics = {} /\ table'[ABC].props = {}
    BY <1>6, <2>1 DEF BodyOK, KindsOK
  <2> QED BY <2>2, <2>3 DEF KindsOK
<1>9. Seen({"field"})' = Seen({"field"})
  BY <1>1, <1>2, SeenMore DEF Callables
<1>10. item > 0
  BY <1>1, <1>2
<1>11. OpenFieldsOK'
  BY <1>1, <1>5, <1>9, <1>10 DEF BodyOK, OpenFieldsOK
<1> QED BY <1>5, <1>8, <1>11 DEF BodyOK

(* Static, abstract and plain methods. *)
LEMMA ObjAdd ==
  ASSUME IInv, BodyOK, AddStatic \/ AddAbstract \/ AddMethod
  PROVE  BodyOK'
<1>1. CASE AddStatic
  <2>1. AtItem(Callables) /\ Item.kind = "static"
    BY <1>1 DEF AddStatic, AtItem, Callables, Kinds
  <2> QED BY <1>1, <2>1, ObjMethod DEF AddStatic, source
<1>2. CASE AddAbstract
  <2>1. AtItem(Callables) /\ Item.kind = "abstract"
    BY <1>2 DEF AddAbstract, AtItem, Callables, Kinds
  <2> QED BY <1>2, <2>1, ObjMethod DEF AddAbstract, source
<1>3. CASE AddMethod
  <2>1. AtItem(Callables)
    BY <1>3 DEF AddMethod, AtItem, Callables, Kinds
  <2> QED BY <1>3, <2>1, ObjMethod DEF AddMethod, source
<1> QED BY <1>1, <1>2, <1>3

(* The end of a class body: everything in it has been entered. *)
LEMMA ObjCloseClass ==
  ASSUME IInv, PyInv, BodyOK, CloseClass
  PROVE  BodyOK'
<1> DEFINE D == DOMAIN table
           n == prog[at].name
           b == prog[at].body
           r == [table[n] EXCEPT !.fields = fields, !.abstract = unimplemented]
<1>1. /\ prog' = prog /\ phase = "0b" /\ phase' = "0b" /\ at \in DOMAIN prog
      /\ at' = at + 1 /\ item > Len(b) /\ item' = 0
      /\ table' = [table EXCEPT ![n].fields = fields, ![n].abstract = unimplemented]
      /\ sigs' = sigs
  BY DEF CloseClass, source, local, funcs, consts, InRange, Class, Body
<1>2. /\ Len(prog) \in Nat /\ DOMAIN prog = 1 .. Len(prog) /\ at \in 1 .. Len(prog)
      /\ DOMAIN b = 1 .. Len(b) /\ Len(b) \in Nat /\ item \in Nat /\ item > 0
  <2>1. /\ Len(prog) \in Nat /\ DOMAIN prog = 1 .. Len(prog)
        /\ b \in Seq([kind : Kinds, name : Nat])
    BY <1>1, ProgIs DEF IInv
  <2>2. item \in Nat /\ Len(b) \in Nat /\ DOMAIN b = 1 .. Len(b)
    BY <2>1, TypesNow DEF IInv
  <2> QED BY <1>1, <2>1, <2>2
<1>3. /\ \A c \in D : table[c] \in Rec(D)
      /\ \A k \in DOMAIN prog : /\ Registered(k) /\ prog[k].name \in D
                                /\ Parent(k) \in D \cup {None}
  BY <1>1, TableIs DEF IInv, TableOK, Registered, After0a
<1>4. n \in D
  BY <1>1, <1>3
<1>5. /\ r \in Rec(D) /\ r.parent = table[n].parent /\ r.fields = fields
      /\ r.statics = table[n].statics /\ r.props = table[n].props
  <2>1. table[n] \in Rec(D) /\ fields \in Seq(Nat) /\ unimplemented \in SUBSET Nat
    BY <1>3, <1>4, TypesNow DEF IInv
  <2>2. r = [table[n] EXCEPT !.fields = fields, !.abstract = unimplemented]
    OBVIOUS
  <2> HIDE DEF D, n, r, b
  <2> QED BY <2>1, <2>2 DEF Rec
<1>6. table'[n] = r /\ \A d \in D : d # n => table'[d] = table[d]
  <2>1. table \in [D -> Rec(D)]
    BY DEF IInv, Types
  <2>2. table' = [table EXCEPT ![n] = r]
    BY <1>1, <1>4, <2>1
  <2> HIDE DEF r, n, D, b
  <2> QED BY <1>4, <1>5, <2>1, <2>2, Updated
<1> HIDE DEF r
<1>7. \A k \in DOMAIN prog : /\ Closed(k)' <=> k < at \/ k = at
                             /\ Opened(k) <=> k < at \/ k = at
                             /\ Closed(k) <=> k < at
                             /\ ~ IsLinked(k)'
  BY <1>1, <1>2 DEF Opened, Closed, IsLinked, After0b, After0c
<1>8. \A k \in DOMAIN prog : k # at => prog[k].name # n
  BY <1>1, <1>3 DEF IInv, TableOK, NamesOK
<1>9. \A k \in DOMAIN prog : k < at \/ k = at => FieldsFrom(k)' = FieldsFrom(k)
  <2> SUFFICES ASSUME NEW k \in DOMAIN prog, k < at \/ k = at
      PROVE  FieldsFrom(k)' = FieldsFrom(k)
    OBVIOUS
  <2>1. Parent(k)' = Parent(k)
    BY <1>1, <1>3, <1>5, <1>6 DEF Parent
  <2>2. Opened(k) /\ k <= at
    BY <1>2, <1>7
  <2>3. Parent(k) # n
    BY <1>1, <1>3, <2>2, NotAbove DEF IInv
  <2> QED BY <1>1, <1>3, <1>6, <2>1, <2>3 DEF FieldsFrom
<1>10. ASSUME NEW kinds PROVE Seen(kinds) = Binds(prog[at], kinds)
  <2>1. \A j \in DOMAIN b : j < item
    BY <1>1, <1>2
  <2> QED BY <2>1 DEF Seen, Binds, ToSet
<1>11. /\ SigNames(at) = Binds(prog[at], Callables)
       /\ ToSet(fields) = FieldsFrom(at) \cup Binds(prog[at], {"field"})
  BY <1>1, <1>2, <1>10 DEF PyInv, OpenOK, BodyOK, OpenFieldsOK
<1>12. MembersOK'
  <2> SUFFICES ASSUME NEW k \in DOMAIN prog, k < at \/ k = at
      PROVE  /\ SigNames(k) = Binds(prog[k], Callables)
             /\ ToSet(table'[prog[k].name].fields)
                  = FieldsFrom(k) \cup Binds(prog[k], {"field"})
    BY <1>1, <1>7, <1>9 DEF MembersOK, SigNames
  <2>1. CASE k = at
    BY <1>5, <1>6, <1>11, <2>1
  <2>2. CASE k < at /\ k # at
    BY <1>3, <1>6, <1>7, <1>8, <2>2 DEF BodyOK, MembersOK
  <2> QED BY <1>2, <2>1, <2>2
<1>13. KindsOK'
  <2>1. \A d \in D : table'[d].statics = table[d].statics /\ table'[d].props = table[d].props
    BY <1>5, <1>6
  <2>2. ABC \in D
    BY DEF IInv, TableOK, NamesOK
  <2> QED BY <1>1, <1>3, <2>1, <2>2 DEF BodyOK, KindsOK
<1>14. OpenFieldsOK' /\ SlotsOK'
  BY <1>1, <1>7 DEF OpenFieldsOK, SlotsOK
<1> QED BY <1>12, <1>13, <1>14 DEF BodyOK

(* Phase 0c gives a slot to every abstract name of a body. *)
LEMMA ObjLinkClass ==
  ASSUME IInv, BodyOK, LinkClass
  PROVE  BodyOK'
<1> DEFINE D == DOMAIN table
           n == prog[at].name
           p == table[n].parent
           above == IF p = None THEN None ELSE table[p].root
           root == IF above # None THEN above ELSE IF IsAbstract(n) THEN n ELSE None
           inherited == IF p = None THEN <<>> ELSE table[p].slots
           slots == IF root = None THEN table[n].slots
                    ELSE inherited \o NewSlots(inherited)
           r == [table[n] EXCEPT !.root = root, !.slots = slots]
<1>1. /\ prog' = prog /\ phase = "0c" /\ phase' = "0c" /\ at \in DOMAIN prog
      /\ at' = at + 1 /\ sigs' = sigs
      /\ table' = [table EXCEPT ![n].root = root,
                                ![n].slots = IF root = None THEN @
                                             ELSE inherited \o NewSlots(inherited)]
  BY DEF LinkClass, source, local, funcs, consts, InRange, Class
<1>2. /\ \A c \in D : table[c] \in Rec(D)
      /\ \A k \in DOMAIN prog : /\ prog[k].name \in D
                                /\ Parent(k) \in D \cup {None}
      /\ table \in [D -> Rec(D)] /\ None \notin D
  BY <1>1, TableIs DEF IInv, TableOK, Registered, After0a, Types, Tree
<1>3. Len(prog) \in Nat /\ DOMAIN prog = 1 .. Len(prog) /\ at \in 1 .. Len(prog)
  <2>1. Len(prog) \in Nat /\ DOMAIN prog = 1 .. Len(prog)
    BY ProgIs DEF IInv
  <2> QED BY <1>1, <2>1
<1>4. \A k \in DOMAIN prog : /\ Registered(k) /\ Registered(k)' /\ Closed(k) /\ Closed(k)'
                             /\ IsLinked(k) <=> k < at
                             /\ IsLinked(k)' <=> k < at \/ k = at
  <2>1. \A k \in DOMAIN prog : k < at + 1 <=> k < at \/ k = at
    BY <1>3
  <2>2. phase = "0c" /\ phase' = "0c" /\ at' = at + 1
    BY <1>1
  <2> QED BY <2>1, <2>2 DEF Registered, Closed, IsLinked, After0a, After0b, After0c
<1>5. n \in D /\ p \in D \cup {None}
  BY <1>1, <1>2 DEF Parent
<1>6. inherited \in Seq(Nat) /\ slots \in Seq(Nat) /\ root \in D \cup {None}
      /\ (root # None => Own(at) \subseteq ToSet(slots))
  <2>1. inherited \in Seq(Nat) /\ above \in D \cup {None} /\ table[n].slots \in Seq(Nat)
    BY <1>2, <1>5, RecFields
  <2>2. /\ inherited \o NewSlots(inherited) \in Seq(Nat)
        /\ ToSet(inherited \o NewSlots(inherited)) = ToSet(inherited) \cup Own(at)
    BY <1>1, <2>1, NewSlotsAre DEF IInv
  <2> HIDE DEF inherited, above
  <2> QED BY <1>5, <2>1, <2>2
<1>7. table' = [table EXCEPT ![n] = r]
  BY <1>1, <1>2, <1>5
<1>8. /\ r \in Rec(D) /\ r.root = root /\ r.slots = slots
      /\ r.parent = table[n].parent /\ r.fields = table[n].fields
      /\ r.statics = table[n].statics /\ r.props = table[n].props
  <2>1. table[n] \in Rec(D) /\ r = [table[n] EXCEPT !.root = root, !.slots = slots]
    BY <1>2, <1>5
  <2> HIDE DEF D, n, r, root, slots, p, inherited, above
  <2> QED BY <1>6, <2>1 DEF Rec
<1> HIDE DEF r, root, slots, inherited, above
<1>9. table'[n] = r /\ \A d \in D : d # n => table'[d] = table[d]
  <2> HIDE DEF D, n, p
  <2> QED BY <1>2, <1>5, <1>7, <1>8, Updated
<1>10. \A d \in D : /\ table'[d].fields = table[d].fields
                    /\ table'[d].parent = table[d].parent
                    /\ table'[d].statics = table[d].statics
                    /\ table'[d].props = table[d].props
  BY <1>8, <1>9
<1>11. ABC \in D
  BY DEF IInv, TableOK, NamesOK
<1>12. KindsOK'
  BY <1>1, <1>2, <1>4, <1>10, <1>11 DEF BodyOK, KindsOK
<1>13. MembersOK'
  <2>1. \A k \in DOMAIN prog : FieldsFrom(k)' = FieldsFrom(k) /\ SigNames(k)' = SigNames(k)
    BY <1>1, <1>2, <1>10 DEF FieldsFrom, Parent, SigNames
  <2> QED BY <1>1, <1>2, <1>4, <1>10, <2>1 DEF BodyOK, MembersOK
<1>14. SlotsOK'
  <2> SUFFICES ASSUME NEW k \in DOMAIN prog, k < at \/ k = at, table'[prog[k].name].root # None
      PROVE  Own(k) \subseteq ToSet(table'[prog[k].name].slots)
    <3>1. \A k \in DOMAIN prog : Own(k)' = Own(k)
      BY <1>1 DEF Own
    <3> QED BY <1>1, <1>4, <3>1 DEF SlotsOK, NeedsVtable
  <2>1. CASE k = at
    BY <1>6, <1>8, <1>9, <2>1
  <2>2. CASE k < at /\ k # at
    <3>1. prog[k].name # n
      BY <1>1, <1>4, <2>2 DEF IInv, TableOK, NamesOK
    <3> QED BY <1>2, <1>4, <1>9, <2>2, <3>1 DEF BodyOK, SlotsOK, NeedsVtable
  <2> QED BY <1>3, <2>1, <2>2
<1>15. OpenFieldsOK'
  BY <1>1 DEF OpenFieldsOK
<1> QED BY <1>12, <1>13, <1>14, <1>15 DEF BodyOK

-----------------------------------------------------------------------------
(* The invariant holds before the first pass. *)
LEMMA ObjStarts ==
  ASSUME ObjInit
  PROVE  ObjInv
<1>1. /\ phase = "0a" /\ at = 1 /\ self = None /\ prog \in Programs
      /\ table = [c \in {ABC} |-> NewClass]
  BY DEF ObjInit, Init
<1>2. table[ABC].statics = {} /\ table[ABC].props = {}
  BY <1>1 DEF NewClass
<1>3. prog \in Seq(ToSet(prog))
  BY <1>1, ProgramsAssumption
<1>4. \A k \in DOMAIN prog : ~ (k < 1)
  BY <1>3
<1>5. \A k \in DOMAIN prog : ~ Registered(k) /\ ~ Closed(k) /\ ~ IsLinked(k)
  BY <1>1, <1>4 DEF Registered, Closed, IsLinked, After0a, After0b, After0c
<1>6. BodyOK
  BY <1>1, <1>2, <1>5 DEF BodyOK, KindsOK, MembersOK, OpenFieldsOK, SlotsOK
<1>7. EmittedOK /\ SelfOK
  BY <1>1 DEF EmittedOK, IsEmitted, SelfOK
<1> QED BY <1>6, <1>7 DEF ObjInv

(* Every step of the compiler and of its program keeps it. *)
LEMMA ObjStepKeeps ==
  ASSUME IInv, PyInv, ObjInv, [Next]_allVars
  PROVE  ObjInv'
<1>1. CASE CompileStep
  <2>1. self = None /\ self' = None
    <3>1. phase # "done"
      BY <1>1 DEF CompileStep, Compile, Check, Emit, Register, RejectDuplicateClass, NextPass,
         OpenClass, RejectUnknownBase, CloseClass, AddField, RejectDuplicateField, AtItem,
         AddStatic, AddAbstract, AddMethod, RejectDuplicateMethod, LinkClass, EmitTypes,
         SkipVtable, EmitVtable
    <3> QED BY <1>1, <3>1 DEF CompileStep, objVars, ObjInv, SelfOK
  <2> USE DEF ObjInv
  <2>2. SelfOK'
    BY <2>1 DEF SelfOK
  <2>3. CASE Register
    <3>1. phase' = "0a"
      BY <2>3 DEF Register
    <3> QED BY <2>1, <2>3, <3>1, ObjRegister, NotRunning
  <2>4. CASE RejectDuplicateClass \/ RejectUnknownBase \/ RejectDuplicateField
             \/ RejectDuplicateMethod
    <3>1. Reject /\ phase \in {"0a", "0b"} /\ phase' = "rejected"
      BY <2>4 DEF RejectDuplicateClass, RejectUnknownBase, RejectDuplicateField,
                  RejectDuplicateMethod, AtItem, Reject
    <3> QED BY <2>1, <3>1, ObjRest, NotRunning
  <2>5. CASE NextPass("0a", "0b") \/ NextPass("0b", "0c")
    <3>1. phase' \in {"0b", "0c"}
      BY <2>5 DEF NextPass
    <3> QED BY <2>1, <2>5, <3>1, ObjRest, NotRunning
  <2>6. CASE \/ NextPass("0c", "types") \/ NextPass("vtables", "done")
             \/ EmitTypes \/ SkipVtable \/ EmitVtable
    BY <2>2, <2>6, ObjRest, EmittedKept
  <2>7. CASE OpenClass \/ CloseClass \/ AddField \/ AddStatic \/ AddAbstract \/ AddMethod
             \/ LinkClass
    <3>1. phase' \in {"0b", "0c"}
      BY <2>7 DEF OpenClass, CloseClass, AddField, AddStatic, AddAbstract, AddMethod, AtItem,
         LinkClass
    <3>2. EmittedOK'
      BY <2>1, <3>1, NotRunning
    <3>3. BodyOK'
      BY <2>7, ObjOpenClass, ObjCloseClass, ObjAddField, ObjAdd, ObjLinkClass
    <3> QED BY <2>2, <3>2, <3>3
  <2> QED BY <1>1, <2>3, <2>4, <2>5, <2>6, <2>7 DEF CompileStep, Compile, Check, Emit
<1>2. CASE ObjectStep \/ UNCHANGED allVars
  <2>1. UNCHANGED classVars
    BY <1>2 DEF ObjectStep, New, SetField, GetField, CallVirtual, CallDirect, allVars
  <2>2. table' = table /\ phase' = phase
    BY <2>1 DEF classVars, cursor
  <2>3. SelfOK'
    <3>1. CASE \E c \in DOMAIN table \ {ABC} : New(c)
      BY <2>2, <3>1 DEF New, SelfOK, IsAbstract
    <3>2. CASE self' = self
      BY <2>2, <3>2 DEF ObjInv, SelfOK, IsAbstract
    <3> QED BY <1>2, <3>1, <3>2 DEF ObjectStep, SetField, GetField, CallVirtual, CallDirect,
            allVars, objVars
  <2>4. BodyOK' /\ EmittedOK'
    BY <2>1, ObjRest, EmittedKept DEF ObjInv
  <2> QED BY <2>3, <2>4 DEF ObjInv
<1> QED BY <1>1, <1>2 DEF Next

(* The three invariants hold in every state, provided bases come first. *)
LEMMA ObjInductive ==
  ASSUME \A p \in Programs : BasesAbove(p)
  PROVE  Spec => []ObjInv
<1>1. ObjInit => ObjInv
  BY ObjStarts
<1>2. IInv /\ PyInv /\ ObjInv /\ [Next]_allVars => ObjInv'
  BY ObjStepKeeps
<1> QED BY <1>1, <1>2, Inductive, PyInductive, PTL DEF Spec

-----------------------------------------------------------------------------
(* PyObject speaks of programs with its own instances of the same          *)
(* definitions.                                                            *)
(* Operators on sequences and sets. *)
LEMMA LastSame == ASSUME NEW s PROVE Python!Last(s) = Last(s)
BY DEF Python!Last, Last

(* The set of a sequence. *)
LEMMA SetSame == ASSUME NEW s PROVE Python!ToSet(s) = ToSet(s)
BY DEF Python!ToSet, ToSet

(* The least of a set. *)
LEMMA MinSame == ASSUME NEW s PROVE Python!Min(s) = Min(s)
BY DEF Python!Min, Min

(* The declaration of a class. *)
LEMMA DeclSame == ASSUME NEW p, NEW c PROVE Python!Decl(p, c) = Decl(p, c)
BY DEF Python!Decl, Decl

(* The names of a body. *)
LEMMA BindsSame == ASSUME NEW d, NEW K PROVE Python!Binds(d, K) = Binds(d, K)
BY SetSame DEF Python!Binds, Binds

(* The MRO. *)
LEMMA MroSame == ASSUME NEW p, NEW c PROVE Python!Mro(p, c) = Mro(p, c)
BY LastSame, DeclSame DEF Python!Mro, Mro

(* The kinds that are called. *)
LEMMA CallablesSame == Python!Callables = Callables
BY DEF Python!Callables, Callables, Python!Kinds, Kinds

(* The names along the MRO. *)
LEMMA InheritedSame ==
  ASSUME NEW p, NEW c, NEW K
  PROVE  Python!Inherited(p, c, K) = Inherited(p, c, K)
BY SetSame, DeclSame, BindsSame, MroSame DEF Python!Inherited, Inherited

(* The class that supplies a name. *)
LEMMA SupplierSame ==
  ASSUME NEW p, NEW c, NEW m
  PROVE  Python!Supplier(p, c, m) = Supplier(p, c, m)
BY MinSame, DeclSame, BindsSame, MroSame, CallablesSame DEF Python!Supplier, Supplier

(* The abstract names and the fields. *)
LEMMA NamesSame ==
  ASSUME NEW p, NEW c
  PROVE  /\ Python!AbstractNames(p, c) = AbstractNames(p, c)
         /\ Python!FieldNames(p, c) = FieldNames(p, c)
<1>1. Python!AbstractNames(p, c) = AbstractNames(p, c)
  <2>1. Python!Unimplemented(p, c) = Unimplemented(p, c)
    BY InheritedSame, BindsSame, DeclSame, SupplierSame
       DEF Python!Unimplemented, Unimplemented
  <2>2. Python!UnderABC(p, c) <=> UnderABC(p, c)
    BY SetSame, DeclSame, MroSame DEF Python!UnderABC, UnderABC
  <2> QED BY <2>1, <2>2 DEF Python!AbstractNames, AbstractNames
<1>2. Python!FieldNames(p, c) = FieldNames(p, c)
  BY InheritedSame DEF Python!FieldNames, FieldNames
<1> QED BY <1>1, <1>2

-----------------------------------------------------------------------------
(* The tables once the classes are linked, against the program. *)

(* A class put before a sequence is put in its set. *)
LEMMA HeadSet ==
  ASSUME NEW D, NEW c \in D, NEW s \in Seq(D)
  PROVE  ToSet(<<c>> \o s) = {c} \cup ToSet(s)
<1> DEFINE u == <<c>> \o s
<1>1. /\ u \in Seq(D) /\ Len(u) = Len(s) + 1 /\ Len(s) \in Nat
      /\ u[1] = c /\ \A i \in 1 .. Len(s) : u[i + 1] = s[i]
  OBVIOUS
<1> HIDE DEF u
<1>2. DOMAIN u = 1 .. Len(s) + 1 /\ DOMAIN s = 1 .. Len(s)
  BY <1>1
<1>3. ASSUME NEW x PROVE x \in ToSet(u) <=> x \in {c} \cup ToSet(s)
  <2>1. ASSUME NEW i \in 1 .. Len(s) + 1 PROVE u[i] \in {c} \cup ToSet(s)
    <3>1. i # 1 => i - 1 \in 1 .. Len(s) /\ (i - 1) + 1 = i
      BY <1>1
    <3> QED BY <1>1, <1>2, <3>1 DEF ToSet
  <2>2. c \in ToSet(u)
    <3>1. 1 \in 1 .. Len(s) + 1
      BY <1>1
    <3> QED BY <1>1, <1>2, <3>1 DEF ToSet
  <2>3. ASSUME NEW i \in 1 .. Len(s) PROVE s[i] \in ToSet(u)
    <3>1. i + 1 \in 1 .. Len(s) + 1
      BY <1>1
    <3> QED BY <1>1, <1>2, <3>1 DEF ToSet
  <2> QED BY <1>2, <2>1, <2>2, <2>3 DEF ToSet
<1> QED BY <1>3 DEF u

(* What a class inherits is its own and what its base inherits. *)
LEMMA InheritedStep ==
  ASSUME Types, Unique, NEW k \in DOMAIN prog, NEW kinds
  PROVE  Inherited(prog, prog[k].name, kinds) =
           Binds(prog[k], kinds) \cup
             (IF prog[k].base \in Declared THEN Inherited(prog, prog[k].base, kinds) ELSE {})
<1> DEFINE c == prog[k].name
           b == prog[k].base
<1>1. Decl(prog, c) = prog[k] /\ c \in Declared
  BY DeclIs
<1>2. CASE b \notin Declared
  <2>1. Mro(prog, c) = <<c>>
    BY <1>2, MroStep
  <2>2. ToSet(Mro(prog, c)) = {c}
    BY <2>1 DEF ToSet
  <2> QED BY <1>1, <1>2, <2>2 DEF Inherited
<1>3. CASE b \in Declared
  <2>1. PICK j \in DOMAIN prog : prog[j].name = b
    BY <1>3 DEF Declared
  <2>2. Mro(prog, c) = <<c>> \o Mro(prog, b) /\ Mro(prog, b) \in Seq(Declared)
    BY <1>3, <2>1, MroStep
  <2>3. ToSet(Mro(prog, c)) = {c} \cup ToSet(Mro(prog, b))
    <3> DEFINE s == Mro(prog, b)
    <3> HIDE DEF s, c
    <3>1. s \in Seq(Declared) /\ Mro(prog, c) = <<c>> \o s
      BY <2>2 DEF s
    <3> QED BY <1>1, <3>1, HeadSet DEF s
  <2> QED BY <1>1, <1>3, <2>3 DEF Inherited
<1> QED BY <1>2, <1>3

(* The fields of a class are the annotations Python finds. *)
LEMMA FieldsAre ==
  ASSUME Types, TableOK, MembersOK, phase \in After0b, NEW k \in DOMAIN prog
  PROVE  ToSet(table[prog[k].name].fields) = FieldNames(prog, prog[k].name)
<1> DEFINE S == {i \in DOMAIN prog :
                   ToSet(table[prog[i].name].fields) = Inherited(prog, prog[i].name, {"field"})}
<1>1. ASSUME NEW i \in DOMAIN prog,
             \A j \in DOMAIN prog : prog[j].name = prog[i].base => j \in S
      PROVE  i \in S
  <2>1. ToSet(table[prog[i].name].fields) = FieldsFrom(i) \cup Binds(prog[i], {"field"})
    BY BaseIs DEF MembersOK
  <2>2. FieldsFrom(i) = IF prog[i].base \in Declared
                        THEN Inherited(prog, prog[i].base, {"field"}) ELSE {}
    <3>1. CASE prog[i].base \in Declared
      <4>1. PICK j \in DOMAIN prog : prog[j].name = prog[i].base
        BY <3>1 DEF Declared
      <4>2. ToSet(table[prog[i].base].fields) = Inherited(prog, prog[i].base, {"field"})
        BY <1>1, <4>1
      <4> QED BY <3>1, <4>2, BaseIs DEF FieldsFrom
    <3>2. CASE prog[i].base \notin Declared
      <4>1. ToSet(table[ABC].fields) = {}
        BY DEF TableOK, NamesOK, ToSet
      <4> QED BY <3>2, <4>1, BaseIs DEF FieldsFrom
    <3> QED BY <3>1, <3>2
  <2>3. Inherited(prog, prog[i].name, {"field"}) =
          Binds(prog[i], {"field"}) \cup
            (IF prog[i].base \in Declared
             THEN Inherited(prog, prog[i].base, {"field"}) ELSE {})
    BY InheritedStep, BaseIs
  <2> QED BY <2>1, <2>2, <2>3
<1>2. DOMAIN prog \subseteq S
  <2> HIDE DEF S
  <2>1. S \subseteq DOMAIN prog
    BY DEF S
  <2> QED BY <1>1, <2>1, ByBase
<1> QED BY <1>2 DEF FieldNames

(* The classes a receiver may be typed as are those of Python's MRO. *)
LEMMA ViewsAre ==
  ASSUME Types, TableOK, phase \in After0b, NEW k \in DOMAIN prog
  PROVE  ToSet(Chain(prog[k].name)) \ {ABC} = ToSet(Mro(prog, prog[k].name))
<1> DEFINE S == {i \in DOMAIN prog :
                   ToSet(Chain(prog[i].name)) \ {ABC} = ToSet(Mro(prog, prog[i].name))}
<1>1. ASSUME NEW i \in DOMAIN prog,
             \A j \in DOMAIN prog : prog[j].name = prog[i].base => j \in S
      PROVE  i \in S
  <2> DEFINE c == prog[i].name
             b == prog[i].base
  <2>1. /\ Unique /\ ABC \notin Declared /\ c \in Declared /\ c \in DOMAIN table
        /\ Parent(i) \in DOMAIN table \cup {None}
        /\ b \in Declared => Parent(i) = b /\ Parent(i) # None
        /\ b \notin Declared => Parent(i) \in {None, ABC}
    BY BaseIs DEF Declared
  <2>2. ASSUME Parent(i) # None
        PROVE  ToSet(Chain(c)) = {c} \cup ToSet(Chain(Parent(i)))
    <3> DEFINE s == Chain(Parent(i))
    <3> HIDE DEF c, s
    <3>1. s \in Seq(DOMAIN table) /\ Chain(c) = <<c>> \o s
      BY <2>1, <2>2, ChainStep DEF c, s, Parent
    <3> QED BY <2>1, <3>1, HeadSet DEF s
  <2>3. CASE b \in Declared
    <3>1. PICK j \in DOMAIN prog : prog[j].name = b
      BY <2>3 DEF Declared
    <3>2. ToSet(Chain(b)) \ {ABC} = ToSet(Mro(prog, b))
      BY <1>1, <3>1
    <3>3. ToSet(Mro(prog, c)) = {c} \cup ToSet(Mro(prog, b))
      <4> DEFINE s == Mro(prog, b)
      <4> HIDE DEF s, c
      <4>1. s \in Seq(Declared) /\ Mro(prog, c) = <<c>> \o s
        BY <2>1, <2>3, <3>1, MroStep DEF s, c
      <4> QED BY <2>1, <4>1, HeadSet DEF s
    <3> QED BY <2>1, <2>2, <2>3, <3>2, <3>3
  <2>4. CASE b \notin Declared
    <3>1. Mro(prog, c) = <<c>>
      BY <2>1, <2>4, MroStep
    <3>2. Chain(ABC) = <<ABC>> /\ (Parent(i) = None => Chain(c) = <<c>>)
      BY <2>1, ChainStep DEF TableOK, NamesOK, Parent
    <3>3. ToSet(<<c>>) = {c} /\ ToSet(<<ABC>>) = {ABC}
      BY DEF ToSet
    <3> QED BY <2>1, <2>2, <2>4, <3>1, <3>2, <3>3
  <2> QED BY <2>3, <2>4
<1>2. DOMAIN prog \subseteq S
  <2> HIDE DEF S
  <2>1. S \subseteq DOMAIN prog
    BY DEF S
  <2> QED BY <1>1, <2>1, ByBase
<1> QED BY <1>2

(* The search for a signature ends where Python's lookup does. *)
LEMMA SignatureIs ==
  ASSUME Types, TableOK, MembersOK, phase \in After0b, NEW k \in DOMAIN prog, NEW m \in Nat
  PROVE  Resolve(prog[k].name, m, sigs) = Finds(prog[k].name, m)
<1> DEFINE S == {i \in DOMAIN prog :
                   Resolve(prog[i].name, m, sigs) = Finds(prog[i].name, m)}
<1>1. ASSUME NEW i \in DOMAIN prog,
             \A j \in DOMAIN prog : prog[j].name = prog[i].base => j \in S
      PROVE  i \in S
  <2> DEFINE c == prog[i].name
             b == prog[i].base
  <2>1. <<c, m>> \in sigs <=> m \in Binds(prog[i], Callables)
    <3>1. SigNames(i) = Binds(prog[i], Callables)
      BY BaseIs DEF MembersOK
    <3> QED BY <3>1 DEF SigNames
  <2>2. Resolve(c, m, sigs) =
          IF m \in Binds(prog[i], Callables) THEN c
          ELSE IF Parent(i) = None THEN None
          ELSE Resolve(Parent(i), m, sigs)
    <3>1. c \in DOMAIN table
      BY BaseIs
    <3> QED BY <2>1, <3>1, ResolveStep DEF Parent
  <2>3. Finds(c, m) = IF m \in Binds(prog[i], Callables) THEN c
                      ELSE IF b \in Declared THEN Finds(b, m) ELSE None
    BY FindsStep, BaseIs
  <2>4. CASE b \in Declared
    <3>1. PICK j \in DOMAIN prog : prog[j].name = b
      BY <2>4 DEF Declared
    <3>2. Resolve(b, m, sigs) = Finds(b, m)
      BY <1>1, <3>1
    <3>3. Parent(i) = b /\ Parent(i) # None
      BY <2>4, BaseIs
    <3> QED BY <2>2, <2>3, <2>4, <3>2, <3>3
  <2>5. CASE b \notin Declared
    <3>1. Parent(i) \in {None, ABC}
      BY <2>5, BaseIs
    <3>2. Resolve(ABC, m, sigs) = None
      <4>1. <<ABC, m>> \notin sigs
        BY BaseIs, TypesNow
      <4>2. ABC \in DOMAIN table /\ table[ABC].parent = None
        BY DEF TableOK, NamesOK
      <4> QED BY <4>1, <4>2, ResolveStep
    <3> QED BY <2>2, <2>3, <2>5, <3>1, <3>2
  <2> QED BY <2>4, <2>5
<1>2. DOMAIN prog \subseteq S
  <2> HIDE DEF S
  <2>1. S \subseteq DOMAIN prog
    BY DEF S
  <2> QED BY <1>1, <2>1, ByBase
<1> QED BY <1>2

(* Slots have inherited abstract names, and every such name has a slot. *)
LEMMA SlotsAre ==
  ASSUME Types, TableOK, SlotsOK, phase \in After0c, NEW k \in DOMAIN prog
  PROVE  ToSet(table[prog[k].name].slots) = Inherited(prog, prog[k].name, {"abstract"})
<1> DEFINE A(i) == Inherited(prog, prog[i].name, {"abstract"})
           S == {i \in DOMAIN prog : ToSet(table[prog[i].name].slots) = A(i)}
<1>0. phase \in After0b
  BY DEF After0b, After0c
<1>1. ASSUME NEW i \in DOMAIN prog,
             \A j \in DOMAIN prog : prog[j].name = prog[i].base => j \in S
      PROVE  i \in S
  <2> DEFINE c == prog[i].name
             b == prog[i].base
  <2>1. Registered(i) /\ IsLinked(i) /\ Closed(i)
    BY DEF Registered, IsLinked, Closed, After0a, After0b, After0c
  <2>2. /\ ToSet(table[c].slots) \subseteq SlotsFrom(i) \cup Own(i)
        /\ NeedsVtable(c) => Own(i) \subseteq ToSet(table[c].slots)
    BY <2>1 DEF TableOK, LinksOK, SlotsOK
  <2>3. Own(i) \subseteq ToSet(table[c].slots)
    <3>1. Own(i) \subseteq table[c].abstract
      BY <2>1 DEF TableOK, AbstractOK
    <3>2. ~ NeedsVtable(c) => table[c].abstract = {}
      BY <2>1 DEF TableOK, LinksOK, NeedsVtable
    <3> QED BY <2>2, <3>1, <3>2
  <2>4. /\ c \in DOMAIN table
        /\ \A d \in DOMAIN table : table[d].slots \in Seq(Nat)
    BY <1>0, BaseIs, TableIs, RecFields DEF TableOK
  <2>5. A(i) = Own(i) \cup
                (IF b \in Declared THEN Inherited(prog, b, {"abstract"}) ELSE {})
    BY <1>0, InheritedStep, BaseIs DEF Own
  <2>6. CASE b \in Declared
    <3>1. PICK j \in DOMAIN prog : prog[j].name = b
      BY <2>6 DEF Declared
    <3>2. ToSet(table[b].slots) = Inherited(prog, b, {"abstract"})
      BY <1>1, <3>1
    <3>3. Parent(i) = b /\ Parent(i) # None /\ b \in DOMAIN table
      BY <1>0, <2>6, BaseIs
    <3>4. SlotsFrom(i) = ToSet(table[b].slots)
      BY <3>3 DEF SlotsFrom
    <3>5. ToSet(table[b].slots) \subseteq ToSet(table[c].slots)
      <4>1. CASE NeedsVtable(b)
        <5> DEFINE s == table[b].slots
                   t == table[c].slots
        <5>1. IsPrefix(s, t) /\ s \in Seq(Nat) /\ t \in Seq(Nat)
          BY <2>1, <2>4, <3>3, <4>1 DEF TableOK, LinksOK
        <5> HIDE DEF s, t
        <5>2. Len(s) <= Len(t) /\ \A x \in 1 .. Len(s) : s[x] = t[x]
          BY <5>1, PrefixIs
        <5>3. ToSet(s) \subseteq ToSet(t)
          BY <5>1, <5>2 DEF ToSet
        <5> QED BY <5>3 DEF s, t
      <4>2. CASE ~ NeedsVtable(b)
        <5>1. Registered(j)
          BY DEF Registered, After0a, After0c
        <5>2. table[b].slots = <<>>
          BY <3>1, <4>2, <5>1 DEF TableOK, LinksOK, NeedsVtable
        <5> QED BY <5>2 DEF ToSet
      <4> QED BY <4>1, <4>2
    <3> QED BY <2>2, <2>3, <2>5, <2>6, <3>2, <3>4, <3>5
  <2>7. CASE b \notin Declared
    <3>1. SlotsFrom(i) = {}
      <4>1. ToSet(table[ABC].slots) = {}
        BY DEF TableOK, NamesOK, ToSet
      <4> QED BY <1>0, <2>7, <4>1, BaseIs DEF SlotsFrom
    <3> QED BY <2>2, <2>3, <2>5, <2>7, <3>1
  <2> QED BY <2>6, <2>7
<1>2. DOMAIN prog \subseteq S
  <2> HIDE DEF S
  <2>1. S \subseteq DOMAIN prog
    BY DEF S
  <2> QED BY <1>1, <2>1, ByBase
<1> QED BY <1>2

-----------------------------------------------------------------------------
(* A view of an instance. *)

(* The least of a set of naturals. *)
LEMMA LeastIs ==
  ASSUME NEW T, T \subseteq Nat, T # {}
  PROVE  Min(T) \in T /\ \A x \in T : Min(T) <= x
BY Least DEF Min

(* The first position of an element is the same in a sequence and in one    *)
(* that starts with it.                                                     *)
LEMMA FirstPosition ==
  ASSUME NEW s \in Seq(Nat), NEW t \in Seq(Nat), IsPrefix(s, t), NEW x \in ToSet(s)
  PROVE  /\ Positions(s, x) # {}
         /\ Min(Positions(s, x)) = Min(Positions(t, x))
         /\ Min(Positions(s, x)) \in DOMAIN s \cap DOMAIN t
         /\ t[Min(Positions(t, x))] = x
<1>1. /\ Len(s) \in Nat /\ Len(t) \in Nat /\ Len(s) <= Len(t)
      /\ DOMAIN s = 1 .. Len(s) /\ DOMAIN t = 1 .. Len(t)
      /\ \A i \in 1 .. Len(s) : s[i] = t[i]
  BY PrefixIs
<1> DEFINE P == Positions(s, x)
           Q == Positions(t, x)
<1>2. P # {} /\ P \subseteq Nat /\ Q \subseteq Nat /\ P \subseteq Q
  BY <1>1 DEF Positions, ToSet
<1>3. P \subseteq DOMAIN s /\ \A i \in Q : i <= Len(s) => i \in P
  BY <1>1 DEF Positions
<1>4. \A i \in Q : i \in DOMAIN t /\ t[i] = x
  BY DEF Positions
<1> HIDE DEF P, Q
<1>5. Min(P) \in P /\ \A i \in P : Min(P) <= i
  BY <1>2, LeastIs
<1>6. Min(Q) \in Q /\ \A i \in Q : Min(Q) <= i
  BY <1>2, LeastIs
<1> DEFINE n == Len(s)
           p == Min(P)
           q == Min(Q)
<1> HIDE DEF n, p, q
<1>7. /\ p \in Nat /\ q \in Nat /\ n \in Nat
      /\ p \in P /\ p \in Q /\ q \in Q
      /\ \A i \in P : p <= i
      /\ \A i \in Q : q <= i
      /\ \A i \in Q : i <= n => i \in P
      /\ p <= n
  <2>1. P \subseteq 1 .. n /\ n \in Nat /\ \A i \in Q : i <= n => i \in P
    BY <1>1, <1>3 DEF n
  <2>2. P \subseteq Nat /\ Q \subseteq Nat /\ P \subseteq Q
    BY <1>2
  <2>3. p \in P /\ \A i \in P : p <= i
    BY <1>5 DEF p
  <2>4. q \in Q /\ \A i \in Q : q <= i
    BY <1>6 DEF q
  <2>5. p <= n
    BY <2>1, <2>3
  <2> QED BY <2>1, <2>2, <2>3, <2>4, <2>5
<1>8. q <= p
  BY <1>7
<1>9. q <= n
  BY <1>7, <1>8
<1>10. p <= q
  BY <1>7, <1>9
<1>11. p = q
  BY <1>7, <1>8, <1>10
<1> QED BY <1>2, <1>3, <1>4, <1>5, <1>6, <1>11 DEF P, Q, p, q

(* A class starts with the fields of every class it may be viewed as. *)
LEMMA FieldsPrefix ==
  ASSUME Types, TableOK, phase \in After0b, NEW c \in DOMAIN table, NEW a \in ToSet(Chain(c))
  PROVE  IsPrefix(table[a].fields, table[c].fields) /\ a \in DOMAIN table
<1> DEFINE Q == {b \in DOMAIN table : IsPrefix(table[b].fields, table[c].fields)}
<1>1. Tree /\ \A b \in DOMAIN table : table[b].fields \in Seq(Nat)
  BY TableIs, RecFields DEF TableOK
<1>2. c \in Q
  BY <1>1, PrefixIs
<1>3. ASSUME NEW b \in DOMAIN table, b \in Q, table[b].parent # None
      PROVE  table[b].parent \in Q
  <2> DEFINE p == table[b].parent
  <2>1. b # ABC
    BY <1>3 DEF TableOK, NamesOK
  <2>2. phase # "rejected"
    BY DEF After0b
  <2>3. PICK k \in DOMAIN prog : prog[k].name = b
    BY <2>1, <2>2 DEF TableOK, NamesOK
  <2>4. Parent(k) = p /\ Closed(k)
    BY <2>3 DEF Parent, Closed
  <2>5. p \in DOMAIN table /\ IsPrefix(table[p].fields, table[b].fields)
    BY <1>1, <1>3, <2>3, <2>4 DEF Tree, TableOK, FieldsOK
  <2>6. IsPrefix(table[p].fields, table[c].fields)
    BY <1>1, <1>3, <2>5, PrefixTrans
  <2> QED BY <2>5, <2>6
<1>4. ToSet(Chain(c)) \subseteq Q \cap DOMAIN table
  <2> HIDE DEF Q
  <2> QED BY <1>1, <1>2, <1>3, ChainWithin
<1> QED BY <1>4

(* The tables of a compiled program. *)
Compiled == IInv /\ PyInv /\ ObjInv /\ phase = "done" /\ Rooted(prog)

(* A class of the table other than ABC is one of the program. *)
LEMMA ClassIs ==
  ASSUME Compiled, NEW c \in DOMAIN table \ {ABC}
  PROVE  c \in Linked /\ \E k \in DOMAIN prog : prog[k].name = c
BY DEF Compiled, IInv, TableOK, NamesOK, Linked, Declared

(* A view carries a vtable pointer if the instance does, and a field has    *)
(* the same cell in both.                                                   *)
LEMMA ViewIs ==
  ASSUME Compiled, NEW c \in DOMAIN table \ {ABC}, NEW a \in ToSet(Chain(c)), a # ABC
  PROVE  /\ a \in DOMAIN table
         /\ NeedsVtable(a) <=> NeedsVtable(c)
         /\ \A f \in ToSet(table[a].fields) :
              f \in ToSet(table[c].fields) /\ FieldSlot(a, f) = FieldSlot(c, f)
         /\ NeedsVtable(c) => IsPrefix(table[a].slots, table[c].slots)
<1>1. Types /\ TableOK /\ phase \in After0b /\ phase \in After0c /\ Rooted(prog)
  BY DEF Compiled, IInv, After0b, After0c
<1>2. a \in DOMAIN table /\ IsPrefix(table[a].fields, table[c].fields)
  BY <1>1, FieldsPrefix
<1>3. NeedsVtable(c) => NeedsVtable(a)
  BY <1>1, ViewCarries
<1>4. NeedsVtable(a) => IsPrefix(table[a].slots, table[c].slots) /\ NeedsVtable(c)
  BY ClassIs, SlotsHold DEF Compiled, SlotPrefix, NeedsVtable
<1> DEFINE s == table[a].fields
           t == table[c].fields
<1>5. s \in Seq(Nat) /\ t \in Seq(Nat)
  BY <1>1, <1>2, TableIs, RecFields DEF TableOK
<1>6. ASSUME NEW f \in ToSet(s)
      PROVE  f \in ToSet(t) /\ Min(Positions(s, f)) = Min(Positions(t, f))
  <2> HIDE DEF s, t
  <2>1. IsPrefix(s, t)
    BY <1>2 DEF s, t
  <2> QED BY <1>5, <1>6, <2>1, FirstPosition DEF ToSet
<1> QED BY <1>2, <1>3, <1>4, <1>6 DEF FieldSlot

(* A field has a cell of its own, past the vtable pointer if there is one. *)
LEMMA CellIs ==
  ASSUME Compiled, NEW c \in DOMAIN table \ {ABC}, NEW f \in ToSet(table[c].fields)
  PROVE  /\ FieldSlot(c, f) \in DOMAIN Layout(c)
         /\ NeedsVtable(c) => FieldSlot(c, f) # 1
         /\ \A g \in ToSet(table[c].fields) : FieldSlot(c, g) = FieldSlot(c, f) => g = f
<1> DEFINE t == table[c].fields
           P(g) == Min(Positions(t, g))
           d == IF NeedsVtable(c) THEN 1 ELSE 0
<1>1. t \in Seq(Nat)
  BY TableIs, RecFields DEF Compiled, IInv, TableOK
<1>2. ASSUME NEW g \in ToSet(t)
      PROVE  P(g) \in DOMAIN t /\ t[P(g)] = g
  <2> HIDE DEF t
  <2>1. IsPrefix(t, t)
    BY <1>1, PrefixIs
  <2> QED BY <1>1, <2>1, FirstPosition
<1>3. \A g : FieldSlot(c, g) = P(g) + d
  BY DEF FieldSlot
<1>4. DOMAIN Layout(c) = 1 .. Len(t) + d
  <2>1. t \in Seq(Int) /\ VtableCell \in Int
    BY <1>1 DEF VtableCell
  <2> HIDE DEF t
  <2>2. Layout(c) = (IF NeedsVtable(c) THEN <<VtableCell>> ELSE <<>>) \o t
    BY DEF Layout, t
  <2>3. /\ DOMAIN (<<VtableCell>> \o t) = 1 .. Len(t) + 1
        /\ <<>> \o t = t /\ DOMAIN t = 1 .. Len(t) + 0
    BY <2>1
  <2> QED BY <2>2, <2>3
<1>5. Len(t) \in Nat /\ DOMAIN t = 1 .. Len(t)
  BY <1>1
<1> HIDE DEF t
<1>6. \A g \in ToSet(t) : P(g) \in 1 .. Len(t)
  BY <1>2, <1>5
<1> HIDE DEF P
<1>7. P(f) + d \in 1 .. Len(t) + d /\ (NeedsVtable(c) => P(f) + d # 1)
  <2>1. P(f) \in 1 .. Len(t)
    BY <1>6 DEF t
  <2>2. CASE NeedsVtable(c)
    BY <1>5, <2>1, <2>2
  <2>3. CASE ~ NeedsVtable(c)
    BY <1>5, <2>1, <2>3
  <2> QED BY <2>2, <2>3
<1>8. ASSUME NEW g \in ToSet(t), P(g) + d = P(f) + d PROVE g = f
  <2>1. P(g) = P(f)
    BY <1>5, <1>6, <1>8 DEF t
  <2> QED BY <1>2, <1>8, <2>1 DEF t
<1> QED BY <1>3, <1>4, <1>7, <1>8 DEF t

-----------------------------------------------------------------------------
(* Each step against PyObject. *)

(* No instance, no attributes. *)
LEMMA NoAttrs ==
  ASSUME self = None
  PROVE  Attrs = [f \in {} |-> None]
BY DEF Attrs

(* Compiling is a stutter. *)
LEMMA CompileMaps ==
  ASSUME IInv, Compile, UNCHANGED objVars
  PROVE  UNCHANGED Python!pyVars
<1>1. self = None
  <2>1. phase # "done"
    BY DEF Compile, Check, Emit, Register, RejectDuplicateClass, NextPass, OpenClass,
       RejectUnknownBase, CloseClass, AddField, RejectDuplicateField, AtItem, AddStatic,
       AddAbstract, AddMethod, RejectDuplicateMethod, LinkClass, EmitTypes, SkipVtable,
       EmitVtable
  <2> QED BY <2>1 DEF IInv, ObjectOK
<1>2. self' = None /\ out' = out
  BY <1>1 DEF objVars
<1>3. prog' = prog
  BY DEF Compile, Check, Emit, Register, RejectDuplicateClass, NextPass, OpenClass,
     RejectUnknownBase, CloseClass, AddField, RejectDuplicateField, AtItem, AddStatic,
     AddAbstract, AddMethod, RejectDuplicateMethod, LinkClass, EmitTypes, SkipVtable,
     EmitVtable, Reject, source
<1>4. Attrs = [f \in {} |-> None] /\ Attrs' = [f \in {} |-> None]
  BY <1>1, <1>2 DEF Attrs
<1> QED BY <1>1, <1>2, <1>3, <1>4 DEF Python!pyVars

(* A constructor makes the object Python's would: the class is not abstract *)
(* and each annotated field has a value.                                    *)
LEMMA NewMaps ==
  ASSUME Compiled, NEW c \in DOMAIN table \ {ABC}, New(c)
  PROVE  \E k \in DOMAIN prog : Python!Construct(prog[k].name)
<1>1. PICK k \in DOMAIN prog : prog[k].name = c
  BY ClassIs
<1>2. /\ self = None /\ ~ IsAbstract(c) /\ self' = c
      /\ prog' = prog /\ table' = table /\ out' = out
      /\ \E memory \in [DOMAIN Layout(c) ->
                          IF Resolve(c, InitName, sigs) = None THEN {Zero} ELSE Vals] :
           cells' = [j \in DOMAIN Layout(c) |->
                       IF NeedsVtable(c) /\ j = 1 THEN Pointer(c) ELSE memory[j]]
  BY DEF New, classVars, source
<1>3. AbstractNames(prog, c) = {}
  <2>1. table[c].abstract = Unimplemented(prog, c)
    BY ClassIs, LinkedIsAbstract DEF Compiled
  <2> QED BY <1>2, <2>1, PythonsNames DEF IsAbstract
<1>4. ToSet(table[c].fields) = FieldNames(prog, c)
  BY <1>1, FieldsAre DEF Compiled, IInv, ObjInv, BodyOK, After0b
<1>5. ASSUME NEW f \in ToSet(table[c].fields)
      PROVE  cells'[FieldSlot(c, f)] \in Vals
  <2>1. FieldSlot(c, f) \in DOMAIN Layout(c) /\ (NeedsVtable(c) => FieldSlot(c, f) # 1)
    BY CellIs
  <2>2. PICK memory \in [DOMAIN Layout(c) ->
                          IF Resolve(c, InitName, sigs) = None THEN {Zero} ELSE Vals] :
           cells' = [j \in DOMAIN Layout(c) |->
                       IF NeedsVtable(c) /\ j = 1 THEN Pointer(c) ELSE memory[j]]
    BY <1>2
  <2>3. \A j \in DOMAIN Layout(c) : memory[j] \in Vals
    BY ZeroAssumption
  <2> QED BY <2>1, <2>2, <2>3
<1>6. Attrs' \in [FieldNames(prog, c) -> Vals]
  <2>1. c # None
    BY NoneAssumption, <1>1, ProgIs DEF Compiled, IInv
  <2>2. Attrs' = [f \in ToSet(table[c].fields) |-> cells'[FieldSlot(c, f)]]
    BY <1>2, <2>1 DEF Attrs, FieldSlot, NeedsVtable
  <2> QED BY <1>4, <1>5, <2>2
<1>7. Python!AbstractNames(prog, c) = {} /\ Python!FieldNames(prog, c) = FieldNames(prog, c)
  BY <1>3, NamesSame
<1> QED BY <1>1, <1>2, <1>6, <1>7 DEF Python!Construct

(* What an instance and a view of it are. *)
LEMMA InstanceIs ==
  ASSUME Compiled, Running, NEW view \in Views
  PROVE  /\ self \in DOMAIN table \ {ABC} /\ self # None
         /\ view \in ToSet(Chain(self)) /\ view # ABC /\ view \in DOMAIN table
         /\ DOMAIN cells = DOMAIN Layout(self)
         /\ NeedsVtable(self) => cells[1] = Pointer(self)
         /\ DOMAIN Attrs = ToSet(table[self].fields)
         /\ \A f \in ToSet(table[self].fields) : Attrs[f] = cells[FieldSlot(self, f)]
<1>1. self # None /\ view \in ToSet(Chain(self)) /\ view # ABC
  BY DEF Running, Views
<1>2. /\ self \in DOMAIN table \ {ABC} /\ DOMAIN cells = DOMAIN Layout(self)
      /\ NeedsVtable(self) => cells[1] = Pointer(self)
  BY <1>1 DEF Compiled, IInv, ObjectOK
<1>3. view \in DOMAIN table
  BY <1>1, <1>2, ViewIs
<1> QED BY <1>1, <1>2, <1>3 DEF Attrs

(* An assignment through a view changes that attribute and no other. *)
LEMMA SetFieldMaps ==
  ASSUME Compiled, NEW view \in Views, NEW f \in ToSet(table[view].fields), NEW v,
         SetField(view, f, v)
  PROVE  f \in DOMAIN Attrs /\ Python!SetAttr(f, v)
<1>1. /\ Running /\ prog' = prog /\ table' = table /\ self' = self /\ out' = out
      /\ cells' = [k \in DOMAIN cells |-> IF k = FieldSlot(view, f) THEN v ELSE cells[k]]
  BY DEF SetField, classVars, source
<1>2. /\ self \in DOMAIN table \ {ABC} /\ self # None
      /\ view \in ToSet(Chain(self)) /\ view # ABC
      /\ DOMAIN cells = DOMAIN Layout(self)
      /\ DOMAIN Attrs = ToSet(table[self].fields)
      /\ \A g \in ToSet(table[self].fields) : Attrs[g] = cells[FieldSlot(self, g)]
  BY <1>1, InstanceIs
<1>3. f \in ToSet(table[self].fields) /\ FieldSlot(view, f) = FieldSlot(self, f)
  BY <1>2, ViewIs
<1>4. \A g \in ToSet(table[self].fields) :
        /\ FieldSlot(self, g) \in DOMAIN cells
        /\ FieldSlot(self, g) = FieldSlot(self, f) => g = f
  BY <1>2, <1>3, CellIs
<1>5. Attrs' = [g \in ToSet(table[self].fields) |-> cells'[FieldSlot(self, g)]]
  BY <1>1, <1>2 DEF Attrs, FieldSlot, NeedsVtable
<1>6. \A g \in ToSet(table[self].fields) :
        cells'[FieldSlot(self, g)] = IF g = f THEN v ELSE cells[FieldSlot(self, g)]
  BY <1>1, <1>3, <1>4
<1>7. Attrs = [g \in ToSet(table[self].fields) |-> cells[FieldSlot(self, g)]]
  BY <1>2 DEF Attrs
<1>8. Attrs' = [Attrs EXCEPT ![f] = v]
  BY <1>5, <1>6, <1>7
<1> QED BY <1>1, <1>2, <1>3, <1>8 DEF Python!SetAttr

(* A read through a view is of that attribute. *)
LEMMA GetFieldMaps ==
  ASSUME Compiled, NEW view \in Views, NEW f \in ToSet(table[view].fields),
         GetField(view, f)
  PROVE  f \in DOMAIN Attrs /\ Python!GetAttr(f)
<1>1. /\ Running /\ prog' = prog /\ table' = table /\ self' = self /\ cells' = cells
      /\ out' = IF FieldSlot(view, f) \in DOMAIN cells
                THEN cells[FieldSlot(view, f)] ELSE None
  BY DEF GetField, classVars, source
<1>2. /\ self \in DOMAIN table \ {ABC} /\ self # None
      /\ view \in ToSet(Chain(self)) /\ view # ABC
      /\ DOMAIN cells = DOMAIN Layout(self)
      /\ DOMAIN Attrs = ToSet(table[self].fields)
      /\ \A g \in ToSet(table[self].fields) : Attrs[g] = cells[FieldSlot(self, g)]
  BY <1>1, InstanceIs
<1>3. f \in ToSet(table[self].fields) /\ FieldSlot(view, f) = FieldSlot(self, f)
  BY <1>2, ViewIs
<1>4. FieldSlot(self, f) \in DOMAIN cells
  BY <1>2, <1>3, CellIs
<1>5. out' = Attrs[f]
  BY <1>1, <1>2, <1>3, <1>4
<1>6. Attrs' = Attrs
  BY <1>1 DEF Attrs, FieldSlot, NeedsVtable
<1> QED BY <1>1, <1>2, <1>3, <1>5, <1>6 DEF Python!GetAttr

(* A virtual call is of a name abstract above, and reaches the instance's   *)
(* own body.                                                                *)
LEMMA CallVirtualMaps ==
  ASSUME Compiled, NEW view \in Views, NEW m, CallVirtual(view, m)
  PROVE  /\ m \in Inherited(prog, view, Callables)
         /\ Python!CallMethod(view, m)
<1> DEFINE s == table[view].slots
           t == table[self].slots
           k == Min(Positions(s, m))
<1>1. /\ Running /\ prog' = prog /\ table' = table /\ self' = self /\ cells' = cells
      /\ NeedsVtable(view) /\ Positions(s, m) # {}
      /\ out' = IF cells # <<>> /\ cells[1] = Pointer(self) THEN vtable[self][k] ELSE None
  BY DEF CallVirtual, classVars, source
<1>2. /\ self \in DOMAIN table \ {ABC} /\ self # None
      /\ view \in ToSet(Chain(self)) /\ view # ABC /\ view \in DOMAIN table
      /\ DOMAIN cells = DOMAIN Layout(self)
      /\ NeedsVtable(self) => cells[1] = Pointer(self)
  BY <1>1, InstanceIs
<1>3. NeedsVtable(self) /\ IsPrefix(s, t)
  BY <1>1, <1>2, ViewIs
<1>4. s \in Seq(Nat) /\ t \in Seq(Nat)
  BY <1>2, TableIs, RecFields DEF Compiled, IInv, TableOK
<1>5. m \in ToSet(s)
  BY <1>1 DEF Positions, ToSet
<1>6. k \in DOMAIN t /\ t[k] = m
  <2> HIDE DEF s, t
  <2>1. Min(Positions(s, m)) = Min(Positions(t, m)) /\ Min(Positions(s, m)) \in DOMAIN t
        /\ t[Min(Positions(t, m))] = m
    BY <1>3, <1>4, <1>5, FirstPosition
  <2> QED BY <2>1
<1>7. self \in DOMAIN vtable /\ DOMAIN vtable[self] = DOMAIN t
  <2>1. PICK i \in DOMAIN prog : prog[i].name = self
    BY <1>2, ClassIs
  <2>2. t # <<>>
    BY <1>6
  <2>3. ~ IsAbstract(self)
    BY <1>2 DEF Compiled, ObjInv, SelfOK
  <2>4. Emits(self) /\ IsEmitted(i)
    BY <1>3, <2>2, <2>3 DEF Emits, IsEmitted, Compiled
  <2> QED BY <2>1, <2>4 DEF Compiled, ObjInv, EmittedOK
<1>8. vtable[self][k] = <<Supplier(prog, self, m), m>>
  BY <1>6, <1>7 DEF Compiled, PyInv, VtablesOK, VtableAsInPython
<1>9. cells # <<>> /\ cells[1] = Pointer(self)
  <2>1. 1 \in DOMAIN Layout(self)
    <3>1. table[self].fields \in Seq(Int) /\ VtableCell \in Int
      BY <1>2, TableIs, RecFields DEF Compiled, IInv, TableOK, VtableCell
    <3> DEFINE u == table[self].fields
    <3> HIDE DEF u
    <3>2. 1 \in DOMAIN (<<VtableCell>> \o u)
      BY <3>1 DEF u
    <3> QED BY <1>3, <3>2 DEF Layout, u
  <2> QED BY <1>2, <1>3, <2>1
<1>10. PICK i \in DOMAIN prog : prog[i].name = view
  BY <1>2, ClassIs
<1>11. m \in Inherited(prog, view, {"abstract"})
  BY <1>5, <1>10, SlotsAre DEF Compiled, IInv, ObjInv, BodyOK, After0c
<1>12. m \in Inherited(prog, view, Callables)
  BY <1>11 DEF Inherited, Binds, Callables, Kinds
<1>13. view \in ToSet(Mro(prog, self))
  <2>1. PICK j \in DOMAIN prog : prog[j].name = self
    BY <1>2, ClassIs
  <2> QED BY <1>2, <2>1, ViewsAre DEF Compiled, IInv, After0b
<1>14. Attrs' = Attrs
  BY <1>1 DEF Attrs, FieldSlot, NeedsVtable
<1>15. out' = <<Supplier(prog, self, m), m>>
  BY <1>1, <1>8, <1>9
<1> HIDE DEF s, t, k
<1>16. /\ view \in Python!ToSet(Python!Mro(prog, self))
       /\ m \in Python!Inherited(prog, view, Python!Callables)
       /\ m \in Python!Inherited(prog, view, {"abstract"})
       /\ Python!Supplier(prog, self, m) = Supplier(prog, self, m)
  BY <1>11, <1>12, <1>13, SetSame, MroSame, InheritedSame, CallablesSame, SupplierSame
<1> QED BY <1>1, <1>2, <1>12, <1>14, <1>15, <1>16 DEF Python!CallMethod

(* A static method or a property of a class above is bound as such by a     *)
(* declaration of the MRO.                                                  *)
LEMMA KindIs ==
  ASSUME Compiled, NEW view \in DOMAIN table \ {ABC}, NEW m,
         HasStatic(view, m) \/ HasProperty(view, m)
  PROVE  \E k \in DOMAIN prog : \E kind \in {"static", "property"} : m \in Binds(prog[k], {kind})
<1>1. PICK d \in ToSet(Chain(view)) : m \in table[d].statics \cup table[d].props
  BY DEF HasStatic, HasProperty
<1>2. d \in DOMAIN table
  BY <1>1, ChainClosed DEF Compiled, IInv, After0b
<1>3. d # ABC
  BY <1>1 DEF Compiled, ObjInv, BodyOK, KindsOK
<1>4. PICK k \in DOMAIN prog : prog[k].name = d
  BY <1>2, <1>3, ClassIs
<1>5. Registered(k)
  BY DEF Compiled, Registered, After0a
<1> QED BY <1>1, <1>4, <1>5 DEF Compiled, ObjInv, BodyOK, KindsOK

(* A direct call reaches the body the static type's lookup finds.  Where no *)
(* name changes its kind, the name is not abstract above: it would have a   *)
(* slot.                                                                    *)
LEMMA CallDirectMaps ==
  ASSUME Compiled, SameKind(prog), NEW view \in Views, NEW m \in Nat, CallDirect(view, m)
  PROVE  /\ m \in Inherited(prog, view, Callables)
         /\ Python!CallMethod(view, m)
<1>1. /\ Running /\ prog' = prog /\ table' = table /\ self' = self /\ cells' = cells
      /\ \/ HasStatic(view, m) \/ HasProperty(view, m)
         \/ Positions(table[view].slots, m) = {}
      /\ Resolve(view, m, sigs) # None
      /\ out' = <<Resolve(view, m, sigs), m>>
  BY DEF CallDirect, classVars, source
<1>2. /\ self \in DOMAIN table \ {ABC} /\ self # None
      /\ view \in ToSet(Chain(self)) /\ view # ABC /\ view \in DOMAIN table
  BY <1>1, InstanceIs
<1>3. Types /\ TableOK /\ MembersOK /\ SlotsOK /\ phase \in After0b /\ phase \in After0c
  BY DEF Compiled, IInv, ObjInv, BodyOK, After0b, After0c
<1>4. PICK i \in DOMAIN prog : prog[i].name = view
  BY <1>2, ClassIs
<1>5. Unique /\ view \in Declared
  BY <1>3, <1>4, BaseIs DEF Declared
<1>6. Resolve(view, m, sigs) = Finds(view, m)
  BY <1>3, <1>4, SignatureIs
<1>7. /\ Supplier(prog, view, m) = Finds(view, m)
      /\ Finds(view, m) \in ToSet(Mro(prog, view))
      /\ m \in Binds(Decl(prog, Finds(view, m)), Callables)
  BY <1>1, <1>3, <1>5, <1>6, SupplierIs
<1>8. m \in Inherited(prog, view, Callables)
  BY <1>7 DEF Inherited
<1>9. m \notin Inherited(prog, view, {"abstract"})
  <2> SUFFICES ASSUME m \in Inherited(prog, view, {"abstract"}) PROVE FALSE
    OBVIOUS
  <2>1. m \in ToSet(table[view].slots)
    BY <1>3, <1>4, SlotsAre
  <2>2. Positions(table[view].slots, m) # {}
    BY <2>1 DEF Positions, ToSet
  <2>3. PICK k \in DOMAIN prog, kind \in {"static", "property"} : m \in Binds(prog[k], {kind})
    BY <1>1, <1>2, <2>2, KindIs
  <2>4. PICK d \in ToSet(Mro(prog, view)) : m \in Binds(Decl(prog, d), {"abstract"})
    BY DEF Inherited
  <2>5. PICK j \in DOMAIN prog : prog[j].name = d
    <3>1. Mro(prog, view) \in Seq(Declared)
      BY <1>3, <1>4, <1>5, MroStep
    <3> DEFINE s == Mro(prog, view)
    <3> HIDE DEF s
    <3>2. ToSet(s) \subseteq Declared
      BY <3>1 DEF s, ToSet
    <3> QED BY <3>2 DEF s, Declared
  <2>6. m \in Binds(prog[j], {"abstract"})
    BY <1>3, <1>5, <2>4, <2>5, DeclIs
  <2>7. m \in Binds(prog[j], Kinds \ {kind})
    BY <2>6 DEF Binds, Kinds
  <2> QED BY <2>3, <2>7 DEF SameKind
<1>10. view \in ToSet(Mro(prog, self))
  <2>1. PICK j \in DOMAIN prog : prog[j].name = self
    BY <1>2, ClassIs
  <2> QED BY <1>2, <1>3, <2>1, ViewsAre
<1>11. Attrs' = Attrs
  BY <1>1 DEF Attrs, FieldSlot, NeedsVtable
<1>12. out' = <<Supplier(prog, view, m), m>>
  BY <1>1, <1>6, <1>7
<1>13. /\ view \in Python!ToSet(Python!Mro(prog, self))
       /\ m \in Python!Inherited(prog, view, Python!Callables)
       /\ m \notin Python!Inherited(prog, view, {"abstract"})
       /\ Python!Supplier(prog, view, m) = Supplier(prog, view, m)
  BY <1>8, <1>9, <1>10, SetSame, MroSame, InheritedSame, CallablesSame, SupplierSame
<1> QED BY <1>1, <1>2, <1>8, <1>11, <1>12, <1>13 DEF Python!CallMethod

(* Every step of the compiled program is one of PyObject, or changes        *)
(* nothing it speaks of.                                                    *)
LEMMA StepMaps ==
  ASSUME IInv, PyInv, ObjInv, Rooted(prog), SameKind(prog), [Next]_allVars
  PROVE  Python!PyObjectNext \/ UNCHANGED Python!pyVars
<1>1. CASE CompileStep
  BY <1>1, CompileMaps DEF CompileStep
<1>2. CASE UNCHANGED allVars
  <2>1. prog' = prog /\ self' = self /\ out' = out /\ table' = table /\ cells' = cells
    BY <1>2 DEF allVars, classVars, objVars, source
  <2>2. Attrs' = Attrs
    BY <2>1 DEF Attrs, FieldSlot, NeedsVtable
  <2> QED BY <2>1, <2>2 DEF Python!pyVars
<1>3. CASE ObjectStep
  <2>1. Compiled
    BY <1>3 DEF ObjectStep, New, GetField, SetField, CallVirtual, CallDirect, Running, Compiled
  <2>2. ASSUME NEW c \in DOMAIN table \ {ABC}, New(c)
        PROVE  Python!PyObjectNext
    BY <2>1, <2>2, NewMaps DEF Python!PyObjectNext
  <2>3. ASSUME NEW view \in Views, NEW f \in ToSet(table[view].fields), GetField(view, f)
        PROVE  Python!PyObjectNext
    BY <2>1, <2>3, GetFieldMaps DEF Python!PyObjectNext
  <2>4. ASSUME NEW view \in Views, NEW f \in ToSet(table[view].fields), NEW v \in Vals,
               SetField(view, f, v)
        PROVE  Python!PyObjectNext
    BY <2>1, <2>4, SetFieldMaps DEF Python!PyObjectNext
  <2>5. ASSUME NEW view \in Views, NEW m \in {s[2] : s \in sigs},
               CallVirtual(view, m) \/ CallDirect(view, m)
        PROVE  Python!PyObjectNext
    <3>1. m \in Nat
      BY TypesNow DEF IInv
    <3>2. m \in Inherited(prog, view, Callables) /\ Python!CallMethod(view, m)
      BY <2>1, <2>5, <3>1, CallVirtualMaps, CallDirectMaps
    <3>3. PICK k \in DOMAIN prog : prog[k].name = view
      <4>1. Running
        BY <2>5 DEF CallVirtual, CallDirect
      <4>2. view \in DOMAIN table \ {ABC}
        BY <2>1, <4>1, InstanceIs
      <4> QED BY <2>1, <4>2, ClassIs
    <3>4. m \in Python!Inherited(prog, view, Python!Callables)
      BY <3>2, InheritedSame, CallablesSame
    <3> QED BY <3>2, <3>3, <3>4 DEF Python!PyObjectNext
  <2> QED BY <1>3, <2>2, <2>3, <2>4, <2>5 DEF ObjectStep
<1> QED BY <1>1, <1>2, <1>3 DEF Next

(* Behind structs, bitcasts and vtables, a Python object: for any programs  *)
(* whose bases come first and whose chains of vtables start at classes with *)
(* no base outside them, every step of the compiled program is the step of  *)
(* the Python object, or none.                                              *)
THEOREM ObjectsImplementPython ==
  ASSUME \A p \in Programs : BasesAbove(p), \A p \in Programs : Rooted(p)
  PROVE  Spec => ImplementsPyObject
<1>1. ObjInit => Python!PyObjectInit
  BY NoAttrs DEF ObjInit, Python!PyObjectInit
<1>2. IInv => Rooted(prog)
  BY DEF IInv, Types
<1>3. ASSUME IInv, PyInv, ObjInv, [Next]_allVars
      PROVE  [SameKind(prog) => Python!PyObjectNext]_(Python!pyVars)
  BY <1>2, <1>3, StepMaps
<1>4. Spec => []IInv
  BY Inductive
<1>5. Spec => []PyInv
  BY PyInductive
<1>6. Spec => []ObjInv
  BY ObjInductive
<1> QED BY <1>1, <1>3, <1>4, <1>5, <1>6, PTL DEF Spec, ImplementsPyObject
=============================================================================
