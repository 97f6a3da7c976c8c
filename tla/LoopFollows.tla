---------------------------- MODULE LoopFollows -----------------------------
(***************************************************************************)
(* The compiled loops and gatherings follow Python's, in every body that   *)
(* Follows.                                                                *)
(*                                                                         *)
(* FollowInv is kept by every step: a head has made ready what its while   *)
(* will read (Prepared); a turn that loads has elements to load (Loading); *)
(* an accumulator has not changed since its old value was read (OldIsNew); *)
(* the lists that are gathered are nobody else's (AccsApart); and an any   *)
(* or all does not know its answer, but where it has just found it out     *)
(* (Unknown, FoundOut).  Under it there is one lemma for each kind of      *)
(* instruction (those that begin with Python), that it is a step of        *)
(* PyLoops or leaves alone what Python sees; the theorem puts them         *)
(* together.                                                               *)
(***************************************************************************)
EXTENDS LoopSteps

(* Where the latch has moved on the counter that is the first of two. *)
Half(p, at, l) ==
  /\ PlaceAt(p, at) = l /\ l \in 1 .. Len(p) /\ p[l].op = "for" /\ Entered(p, at)
  /\ ~ TakenAt(p, at, 1) /\ TakenAt(p, at, 2)

HalfIn(p, l, en, h) == LoopIn(p, l, FALSE, TRUE, en, h)
LastIn(p, l, en, h) == LoopIn(p, l, TRUE, TRUE, en, h)

LEMMA ItersHalf ==
  ASSUME NEW p, IsBody(p), NEW at, NEW l, Half(p, at, l), NEW en, NEW h
  PROVE  ItersAt(p, at, en, h) = With(Full(p, Surround(p, l), en, h), l, HalfIn(p, l, en, h))
<1>1. /\ PlaceAt(p, at) = l /\ l \in 1 .. Len(p) /\ p[l].op = "for" /\ Entered(p, at)
      /\ TakenAt(p, at, 1) = FALSE /\ TakenAt(p, at, 2) = TRUE
  BY DEF Half, TakenAt
<1>2. ItersAt(p, at, en, h)
           = With(Full(p, Surround(p, l), en, h), l, UnderIn(p, l, TakenAt(p, at, 1), TakenAt(p, at, 2), en, h))
  BY <1>1, ItersInside, BodyIs
<1>3. \A u1, u2 : UnderIn(p, l, u1, u2, en, h) = LoopIn(p, l, u1, u2, en, h)
  BY <1>1 DEF UnderIn
<1> QED BY <1>1, <1>2, <1>3 DEF HalfIn

LEMMA ItersLast ==
  ASSUME NEW p, IsBody(p), NEW at, NEW l, Within(p, at, l), NEW en, NEW h
  PROVE  ItersAt(p, at, en, h) = With(Full(p, Surround(p, l), en, h), l, LastIn(p, l, en, h))
<1>1. /\ PlaceAt(p, at) = l /\ l \in 1 .. Len(p) /\ p[l].op = "for" /\ Entered(p, at)
      /\ TakenAt(p, at, 1) = TRUE /\ TakenAt(p, at, 2) = TRUE
  BY DEF Within, TakenAt
<1>2. ItersAt(p, at, en, h)
           = With(Full(p, Surround(p, l), en, h), l, UnderIn(p, l, TakenAt(p, at, 1), TakenAt(p, at, 2), en, h))
  BY <1>1, ItersInside, BodyIs
<1>3. \A u1, u2 : UnderIn(p, l, u1, u2, en, h) = LoopIn(p, l, u1, u2, en, h)
  BY <1>1 DEF UnderIn
<1> QED BY <1>1, <1>2, <1>3 DEF LastIn

LEMMA HalfIs ==
  ASSUME NEW p, NEW at, NEW l
  PROVE  /\ AtLoop(p, at, l, FALSE, TRUE) => Half(p, at, l)
         /\ Returned(p, at, l, FALSE, TRUE) /\ p[l].op = "for" => Half(p, at, l)
BY DEF AtLoop, Half, Returned

(* The counters of a loop under way are numbers. *)
LEMMA NumbersGoing ==
  ASSUME NEW p, NEW k, NEW i, NEW en, NEW h, Ready(p, k, i, en, h), NEW l \in Going(p, <<k, i>>), p[l].op = "for"
  PROVE  Numbers(p, l, en) /\ ReadsOf(p, l) \subseteq DOMAIN en
<1>1. /\ IsBody(p) /\ k \in 1 .. Len(p) /\ i \in 1 .. N(p, k) /\ Fine(en, h)
      /\ Known(p, k, i) \subseteq DOMAIN en
  BY DEF Ready
<1>2. ReadsOf(p, l) \subseteq DOMAIN en
  BY <1>1, ReadsKnown
<1>3. \A x \in ReadsOf(p, l) : Kind(x) = "int" => en[x] \in Int
  BY <1>1, <1>2 DEF Fine, OfType
<1>4. Kind(IndexOf(p, l)) = "int"
  BY Kinds, HelperKinds
<1>0. l \in 1 .. Len(p)
  BY <1>1, GoingIs
<1>5. \A x \in Targets(p, l) : Kind(x) = "int"
  BY <1>0, <1>1, ForIs
<1>6. Over(p[l]) \in Targets(p, l) /\ (p[l].how = "enumerate" => p[l].t[1] \in Targets(p, l))
  BY <1>0, <1>1, ForIs
<1>7. p[l].op # "gather"
  OBVIOUS
<1>8. Numbers(p, l, en)
  BY <1>3, <1>4, <1>5, <1>6, <1>7 DEF Numbers, ReadsOf
<1> QED BY <1>2, <1>8

LEMMA CounterIs ==
  ASSUME NEW p, IsBody(p), NEW l \in 1 .. Len(p), p[l].op = "for"
  PROVE  /\ Indexed(p, l) => Counter(p, l) = IndexOf(p, l) /\ Stride(p, l) = 1
         /\ ~ Indexed(p, l) => Counter(p, l) = Over(p[l]) /\ Stride(p, l) = p[l].its[1].step
<1>1. p[l].how = "zip" => ~ Ranged(p, l)
  <2> SUFFICES ASSUME p[l].how = "zip" PROVE ~ Ranged(p, l)
    OBVIOUS
  <2>1. Indexed(p, l) /\ 1 \in DOMAIN p[l].its
    <3>1. DOMAIN p[l].its = {1, 2}
      BY WalkIs
    <3> QED BY <3>1 DEF Indexed
  <2>2. p[l].its[1].k = "list"
    BY <2>1, ListSource
  <2> QED BY <2>2 DEF Ranged
<1> QED BY <1>1 DEF Indexed, Counter, Stride

(* A loop's counter is none of the other slots that its iterator reads. *)
LEMMA CounterApart ==
  ASSUME NEW p, IsBody(p), Follows(p), NEW l \in 1 .. Len(p), p[l].op = "for"
  PROVE  /\ Indexed(p, l) => \A m \in DOMAIN p[l].its : Holder(p, l, m) # IndexOf(p, l)
         /\ p[l].how = "enumerate" => p[l].t[1] # Counter(p, l)
         /\ ~ Indexed(p, l) =>
              Over(p[l]) \notin NumberReads(p[l].its[1].stop)
         /\ p[l].how = "enumerate" /\ ~ Indexed(p, l) => p[l].t[1] \notin NumberReads(p[l].its[1].stop)
         /\ p[l].how = "enumerate" /\ Indexed(p, l) => \A m \in DOMAIN p[l].its : Holder(p, l, m) # p[l].t[1]
<1>1. l \in 1 .. Len(p) + 1 /\ DOMAIN p = 1 .. Len(p)
  BY BodyIs
<1>2. /\ IndexOf(p, l)[1] \in IndexHelpers
      /\ \A m \in DOMAIN p[l].its : Holder(p, l, m)[1] \in ListHelpers
  BY HelperKinds DEF Holder
<1>3. /\ \A m \in DOMAIN p[l].its : Holder(p, l, m)[1] \in LoopHelpers
      /\ IndexOf(p, l)[1] \in LoopHelpers
      /\ \A x \in Targets(p, l) : Named(x)
      /\ \A x : x[1] \in LoopHelpers => ~ Named(x)
  BY <1>1, NameKinds
<1>4. /\ Over(p[l]) \in Targets(p, l)
      /\ p[l].how = "enumerate" => p[l].t[1] \in Targets(p, l) /\ Over(p[l]) = p[l].t[2]
  BY ForIs DEF Over
<1>5. TargetsApart(p, l)
  BY <1>1 DEF Follows
<1>6. \A m \in DOMAIN p[l].its : Holder(p, l, m) # IndexOf(p, l)
  BY <1>2, Kinds
<1>7. p[l].how = "enumerate" => p[l].t[1] # Counter(p, l)
  BY <1>3, <1>4, <1>5, CounterIs DEF TargetsApart
<1>8. ~ Indexed(p, l) => \A x \in Targets(p, l) : x \notin NumberReads(p[l].its[1].stop)
  BY <1>5, StopBound DEF TargetsApart
<1> QED BY <1>3, <1>4, <1>6, <1>7, <1>8

(* The latch moves the first counter on: what it stood for is the same. *)
LEMMA Bumped ==
  ASSUME NEW p, IsBody(p), Follows(p), NEW l \in 1 .. Len(p), p[l].op = "for",
         NEW en, NEW h, Numbers(p, l, en), ReadsOf(p, l) \subseteq DOMAIN en,
         NEW en2, en2 = With(en, Counter(p, l), en[Counter(p, l)] + Stride(p, l))
  PROVE  HalfIn(p, l, en2, h) = LastIn(p, l, en, h)
<1>1. /\ en2[Counter(p, l)] = en[Counter(p, l)] + Stride(p, l)
      /\ \A y \in ReadsOf(p, l) : y # Counter(p, l) => en2[y] = en[y]
  BY DEF With
<1>2. ASSUME NEW m \in DOMAIN p[l].its, Indexed(p, l)
      PROVE  WalkIn(p, l, m, FALSE, en2, h) = WalkIn(p, l, m, TRUE, en, h)
  <2>1. Counter(p, l) = IndexOf(p, l) /\ Stride(p, l) = 1
    BY <1>2, CounterIs
  <2>2. en2[IndexOf(p, l)] + 0 = en[IndexOf(p, l)] + 1
    <3>1. en[IndexOf(p, l)] \in Int
      BY <1>2 DEF Numbers
    <3>2. en2[IndexOf(p, l)] = en[IndexOf(p, l)] + 1
      BY <1>1, <2>1
    <3> QED BY <3>1, <3>2
  <2>3. en2[Holder(p, l, m)] = en[Holder(p, l, m)]
    <3>1. Holder(p, l, m) \in ReadsOf(p, l) /\ Holder(p, l, m) # IndexOf(p, l)
      BY <1>2, CounterApart DEF ReadsOf
    <3> QED BY <1>1, <2>1, <3>1
  <2> QED BY <1>2, <2>2, <2>3 DEF WalkIn
<1>3. ASSUME NEW m \in DOMAIN p[l].its, ~ Indexed(p, l)
      PROVE  WalkIn(p, l, m, FALSE, en2, h) = WalkIn(p, l, m, TRUE, en, h)
  <2>1. Counter(p, l) = Over(p[l]) /\ Stride(p, l) = p[l].its[1].step
    BY <1>3, CounterIs
  <2>2. en2[Over(p[l])] + 0 = en[Over(p[l])] + p[l].its[1].step
    <3>1. en[Over(p[l])] \in Int /\ p[l].its[1].step \in Int
      BY <1>3, RangeIs DEF Numbers
    <3>2. en2[Over(p[l])] = en[Over(p[l])] + p[l].its[1].step
      BY <1>1, <2>1
    <3> QED BY <3>1, <3>2
  <2>3. Eval(p[l].its[1].stop, en2, h) = Eval(p[l].its[1].stop, en, h)
    <3>1. NumberReads(p[l].its[1].stop) \subseteq ReadsOf(p, l)
      BY <1>3 DEF ReadsOf
    <3>2. SameOn(NumberReads(p[l].its[1].stop), en, en2)
      BY <1>1, <1>3, <2>1, <3>1, CounterApart DEF SameOn
    <3> QED BY <1>3, <3>2, StopAgrees
  <2> QED BY <1>3, <2>2, <2>3 DEF WalkIn
<1>4. p[l].how = "enumerate" => en2[p[l].t[1]] + 1 = en[p[l].t[1]] + 1
  <2> SUFFICES ASSUME p[l].how = "enumerate" PROVE en2[p[l].t[1]] = en[p[l].t[1]]
    OBVIOUS
  <2>1. p[l].t[1] \in ReadsOf(p, l) /\ p[l].t[1] # Counter(p, l)
    BY CounterApart DEF ReadsOf
  <2> QED BY <1>1, <2>1
<1> QED BY <1>2, <1>3, <1>4 DEF HalfIn, LastIn, LoopIn

(* ... and enumerate's number. *)
LEMMA CountedUp ==
  ASSUME NEW p, IsBody(p), Follows(p), NEW l \in 1 .. Len(p), p[l].op = "for", p[l].how = "enumerate",
         NEW en, NEW h, Numbers(p, l, en), ReadsOf(p, l) \subseteq DOMAIN en,
         NEW en2, en2 = With(en, p[l].t[1], en[p[l].t[1]] + 1)
  PROVE  NextIn(p, l, en2, h) = HalfIn(p, l, en, h)
<1> DEFINE x == p[l].t[1]
<1>1. /\ en2[x] = en[x] + 1
      /\ \A y \in ReadsOf(p, l) : y # x => en2[y] = en[y]
  BY DEF With
<1>2. Counter(p, l) # x /\ x \in ReadsOf(p, l)
  BY CounterApart DEF ReadsOf
<1>3. ASSUME NEW m \in DOMAIN p[l].its, Indexed(p, l)
      PROVE  WalkIn(p, l, m, FALSE, en2, h) = WalkIn(p, l, m, FALSE, en, h)
  <2>1. Counter(p, l) = IndexOf(p, l)
    BY <1>3, CounterIs
  <2>2. en2[IndexOf(p, l)] = en[IndexOf(p, l)]
    <3>1. IndexOf(p, l) \in ReadsOf(p, l)
      BY <1>3 DEF ReadsOf
    <3> QED BY <1>1, <1>2, <2>1, <3>1
  <2>3. en2[Holder(p, l, m)] = en[Holder(p, l, m)]
    <3>1. Holder(p, l, m) \in ReadsOf(p, l) /\ Holder(p, l, m) # x
      BY <1>3, CounterApart DEF ReadsOf
    <3> QED BY <1>1, <3>1
  <2> QED BY <1>3, <2>2, <2>3 DEF WalkIn
<1>4. ASSUME NEW m \in DOMAIN p[l].its, ~ Indexed(p, l)
      PROVE  WalkIn(p, l, m, FALSE, en2, h) = WalkIn(p, l, m, FALSE, en, h)
  <2>1. Counter(p, l) = Over(p[l])
    BY <1>4, CounterIs
  <2>2. en2[Over(p[l])] = en[Over(p[l])]
    <3>1. Over(p[l]) \in ReadsOf(p, l)
      BY <1>4 DEF ReadsOf
    <3> QED BY <1>1, <1>2, <2>1, <3>1
  <2>3. Eval(p[l].its[1].stop, en2, h) = Eval(p[l].its[1].stop, en, h)
    <3>1. NumberReads(p[l].its[1].stop) \subseteq ReadsOf(p, l)
      BY <1>4 DEF ReadsOf
    <3>2. x \notin NumberReads(p[l].its[1].stop)
      BY <1>4, CounterApart
    <3>3. SameOn(NumberReads(p[l].its[1].stop), en, en2)
      BY <1>1, <3>1, <3>2 DEF SameOn
    <3> QED BY <1>4, <3>3, StopAgrees
  <2> QED BY <1>4, <2>2, <2>3 DEF WalkIn
<1>5. en2[p[l].t[1]] + 0 = en[p[l].t[1]] + 1
  <2>1. en[x] \in Int
    BY DEF Numbers
  <2> QED BY <1>1, <2>1
<1> HIDE DEF x
<1> QED BY <1>3, <1>4, <1>5 DEF HalfIn, NextIn, LoopIn

(* A loop that does not enumerate has one counter. *)
LEMMA OneCounter ==
  ASSUME NEW p, NEW l, p[l].how # "enumerate", NEW en, NEW h
  PROVE  NextIn(p, l, en, h) = HalfIn(p, l, en, h)
BY DEF NextIn, HalfIn, LoopIn

(* A loop whose iterator alone is written, and not to be seen. *)
LEMMA SeenSame ==
  ASSUME NEW p, NEW k, NEW i, NEW en, NEW h, NEW at2, NEW en2, NEW h2,
         Step(p, k, i, en, h, at2, en2, h2), ~ (AtSingle(p, k, i) /\ p[k].op \in {"let", "result"}),
         NEW l, PlaceAt(p, <<k, i>>) = l, PlaceAt(p, at2) = l,
         Surround(p, l) \subseteq Going(p, <<k, i>>), \A g \in Surround(p, l) : ~ Own(p, k, i, g),
         NEW u, NEW u2, u2 = u,
         ItersAt(p, <<k, i>>, en, h) = With(Full(p, Surround(p, l), en, h), l, u),
         ItersAt(p, at2, en2, h2) = With(Full(p, Surround(p, l), en2, h2), l, u2)
  PROVE  Goes(p, at2, en2, h2, l, EnvAt(p, <<k, i>>, en), ItersAt(p, <<k, i>>, en, h))
<1>1. A(p, k, i) = l
  BY PlaceAtIs DEF Step, Ready
<1>2. ShownIn(p, l, en2) = ShownIn(p, l, en)
  <2>1. Bound(p, l) \subseteq Bound(p, A(p, k, i))
    BY <1>1
  <2> QED BY <2>1, ShownKept
<1>3. Full(p, Surround(p, l), en2, h2) = Full(p, Surround(p, l), en, h)
  BY FullKept
<1>4. ItersAt(p, at2, en2, h2) = ItersAt(p, <<k, i>>, en, h)
  BY <1>3
<1> QED BY <1>2, <1>4 DEF Goes, EnvAt

(* The steps at the end of a turn that Python does not take. *)
LEMMA SeenLatch ==
  ASSUME NEW p, NEW k, NEW i, NEW en, NEW h, NEW at2, NEW en2, NEW h2,
         Step(p, k, i, en, h, at2, en2, h2), OfTurn(p, k, i), i # 1
  PROVE  Goes(p, at2, en2, h2, p[k].of, EnvAt(p, <<k, i>>, en), ItersAt(p, <<k, i>>, en, h))
<1> DEFINE l == p[k].of
           L == LatchAt(p, l)
<1>1. /\ IsBody(p) /\ Follows(p) /\ k \in 1 .. Len(p) /\ i \in 1 .. N(p, k)
      /\ Ready(p, k, i, en, h) /\ Fine(en, h)
  BY DEF Step, Ready
<1>2. /\ Closing(p, k) /\ l \in 1 .. Len(p) /\ IsLoop(p[l]) /\ k = End(p, l) /\ i > Q(p, l)
      /\ AtEnd(p, k, i) => at2 = <<l, W(p, l)>> /\ Quiet(en, h, en2, h2) /\ i = L + B(p, l) + 1
      /\ ~ AtEnd(p, k, i) => at2 = <<k, i + 1>> /\ i < L + B(p, l) + 1
      /\ AtBump(p, k, i) => i = L + 1
      /\ AtCountUp(p, k, i) => i = L + 2
      /\ i \in {L + 1, L + 2} => AtBump(p, k, i) \/ AtCountUp(p, k, i) \/ AtEnd(p, k, i)
  BY TurnGoes
<1>3. /\ L \in Nat /\ i \in Nat /\ B(p, l) \in {0, 1, 2}
      /\ p[l].op # "for" => B(p, l) = 0
      /\ p[l].op = "for" => B(p, l) = IF p[l].how = "enumerate" THEN 2 ELSE 1
  <2>1. L \in Nat /\ B(p, l) \in {0, 1, 2}
    BY <1>1, <1>2, LoopIs DEF LatchAt
  <2>2. i \in Nat
    BY <1>1, NIs
  <2>3. /\ p[l].op # "for" => B(p, l) = 0
        /\ p[l].op = "for" => B(p, l) = IF p[l].how = "enumerate" THEN 2 ELSE 1
    BY <1>2 DEF IsLoop, B, Enum
  <2> QED BY <2>1, <2>2, <2>3
<1>4. /\ Returned(p, <<k, i>>, l, i <= L + 1, i <= L + 2)
      /\ ~ AtEnd(p, k, i) => Returned(p, at2, l, i + 1 <= L + 1, i + 1 <= L + 2)
      /\ AtEnd(p, k, i) => Returned(p, at2, l, FALSE, FALSE)
      /\ l \notin Surround(p, l)
  BY TurnArrives
<1>5. ~ AtSingle(p, k, i)
  BY <1>2 DEF AtSingle, Single, Closing, IsLoop
<1>6. PlaceAt(p, <<k, i>>) = l /\ PlaceAt(p, at2) = l /\ A(p, k, i) = l
      /\ Going(p, <<k, i>>) = Surround(p, l) \cup (IF p[l].op = "for" THEN {l} ELSE {})
  <2>1. PlaceAt(p, <<k, i>>) = l
        /\ Going(p, <<k, i>>) = Surround(p, l) \cup (IF p[l].op = "for" THEN {l} ELSE {})
    BY <1>4, GoingReturned
  <2>2. PlaceAt(p, at2) = l
    <3> HIDE DEF L
    <3>1. CASE AtEnd(p, k, i)
      BY <1>4, <3>1, GoingReturned
    <3>2. CASE ~ AtEnd(p, k, i)
      BY <1>4, <3>2, GoingReturned
    <3> QED BY <3>1, <3>2
  <2> QED BY <1>1, <2>1, <2>2, PlaceAtIs
<1>7. \A g \in Surround(p, l) : ~ Own(p, k, i, g)
  <2>1. ~ Settles(p, k, i)
    <3>1. A(p, k, i) # k
      <4>1. l # k
        <5>1. k \in l + 1 .. Len(p) /\ l \in Int
          BY <1>1, <1>2, LoopIs, BodyIs
        <5> QED BY <5>1
      <4> QED BY <1>6, <4>1
    <3> QED BY <3>1 DEF Settles, AtGain, AtKnown
  <2> QED BY <1>4, <2>1 DEF Own
<1>8. CASE i <= L
  <2>1. (i <= L + 1) = TRUE /\ (i <= L + 2) = TRUE /\ (i + 1 <= L + 1) = TRUE /\ (i + 1 <= L + 2) = TRUE
    BY <1>3, <1>8
  <2>2. ~ AtEnd(p, k, i) /\ ~ AtBump(p, k, i) /\ ~ AtCountUp(p, k, i)
    BY <1>2, <1>3, <1>8
  <2>3. Back(p, <<k, i>>, l) /\ Back(p, at2, l)
    <3>1. Returned(p, <<k, i>>, l, TRUE, TRUE) /\ Returned(p, at2, l, TRUE, TRUE)
      <4>1. Returned(p, <<k, i>>, l, i <= L + 1, i <= L + 2) /\ Returned(p, at2, l, i + 1 <= L + 1, i + 1 <= L + 2)
        BY <1>4, <2>2
      <4> QED BY <2>1, <4>1
    <3> QED BY <3>1, AtLoopIs
  <2>4. \A g : ~ Own(p, k, i, g)
    <3>1. ~ Settles(p, k, i)
      <4>1. l # k
        <5>1. k \in l + 1 .. Len(p) /\ l \in Int
          BY <1>1, <1>2, LoopIs, BodyIs
        <5> QED BY <5>1
      <4> QED BY <1>6, <4>1 DEF Settles, AtGain, AtKnown
    <3> QED BY <2>2, <3>1 DEF Own, Steps
  <2> QED BY <1>2, <1>5, <2>3, <2>4, SeenRest
<1>9. CASE AtBump(p, k, i)
  <2>1. p[l].op = "for" /\ i = L + 1 /\ ~ AtEnd(p, k, i)
    <3>1. p[l].op = "for" /\ i = L + 1
      BY <1>2, <1>9 DEF AtBump
    <3>2. B(p, l) # 0
      BY <1>3, <3>1
    <3> QED BY <1>2, <1>3, <3>1, <3>2
  <2>2. Within(p, <<k, i>>, l) /\ Half(p, at2, l)
    <3>1. (i <= L + 1) = TRUE /\ (i <= L + 2) = TRUE /\ (i + 1 <= L + 1) = FALSE /\ (i + 1 <= L + 2) = TRUE
      BY <1>3, <2>1
    <3>2. Returned(p, <<k, i>>, l, i <= L + 1, i <= L + 2) /\ Returned(p, at2, l, i + 1 <= L + 1, i + 1 <= L + 2)
      BY <1>4, <2>1
    <3>3. Returned(p, <<k, i>>, l, TRUE, TRUE) /\ Returned(p, at2, l, FALSE, TRUE)
      BY <3>1, <3>2
    <3>4. Back(p, <<k, i>>, l)
      BY <3>3, AtLoopIs
    <3> QED BY <2>1, <3>3, <3>4, HalfIs DEF Back
  <2>3. en2 = With(en, Counter(p, l), en[Counter(p, l)] + Stride(p, l)) /\ h2 = h
    BY <1>9, TurnGoes DEF Put
  <2>4. Numbers(p, l, en) /\ ReadsOf(p, l) \subseteq DOMAIN en
    <3>1. l \in Going(p, <<k, i>>)
      BY <1>6, <2>1
    <3> QED BY <1>1, <2>1, <3>1, NumbersGoing
  <2>5. HalfIn(p, l, en2, h) = LastIn(p, l, en, h)
    <3> HIDE DEF l
    <3> QED BY <1>1, <1>2, <2>1, <2>3, <2>4, Bumped
  <2>6. /\ ItersAt(p, <<k, i>>, en, h) = With(Full(p, Surround(p, l), en, h), l, LastIn(p, l, en, h))
        /\ ItersAt(p, at2, en2, h2) = With(Full(p, Surround(p, l), en2, h2), l, HalfIn(p, l, en2, h2))
    BY <1>1, <2>2, ItersLast, ItersHalf
  <2>7. HalfIn(p, l, en2, h2) = LastIn(p, l, en, h)
    BY <2>3, <2>5
  <2>8. Surround(p, l) \subseteq Going(p, <<k, i>>) /\ PlaceAt(p, <<k, i>>) = l /\ PlaceAt(p, at2) = l
    BY <1>6
  <2>9. ~ (AtSingle(p, k, i) /\ p[k].op \in {"let", "result"})
    BY <1>5
  <2>10. l = p[k].of
    OBVIOUS
  <2> HIDE DEF l
  <2>11. Goes(p, at2, en2, h2, l, EnvAt(p, <<k, i>>, en), ItersAt(p, <<k, i>>, en, h))
    BY ONLY Step(p, k, i, en, h, at2, en2, h2), <1>7, <2>6, <2>7, <2>8, <2>9, SeenSame
  <2> QED BY <2>10, <2>11
<1>10. CASE AtCountUp(p, k, i)
  <2>1. p[l].op = "for" /\ i = L + 2 /\ ~ AtEnd(p, k, i) /\ p[l].how = "enumerate"
    <3>1. p[l].op = "for" /\ i = L + 2 /\ p[l].how = "enumerate"
      BY <1>2, <1>10 DEF AtCountUp
    <3>2. B(p, l) = 2
      BY <1>3, <3>1
    <3> QED BY <1>2, <1>3, <3>1, <3>2
  <2>2. Half(p, <<k, i>>, l) /\ Between(p, at2, l)
    <3>1. (i <= L + 1) = FALSE /\ (i <= L + 2) = TRUE /\ (i + 1 <= L + 1) = FALSE /\ (i + 1 <= L + 2) = FALSE
      BY <1>3, <2>1
    <3>2. Returned(p, <<k, i>>, l, i <= L + 1, i <= L + 2) /\ Returned(p, at2, l, i + 1 <= L + 1, i + 1 <= L + 2)
      BY <1>4, <2>1
    <3>3. Returned(p, <<k, i>>, l, FALSE, TRUE) /\ Returned(p, at2, l, FALSE, FALSE)
      BY <3>1, <3>2
    <3>4. Again(p, at2, l)
      BY <3>3, AtLoopIs
    <3> QED BY <2>1, <3>3, <3>4, HalfIs DEF Again
  <2>3. en2 = With(en, p[l].t[1], en[p[l].t[1]] + 1) /\ h2 = h
    BY <1>10, TurnGoes DEF Put
  <2>4. Numbers(p, l, en) /\ ReadsOf(p, l) \subseteq DOMAIN en
    <3>1. l \in Going(p, <<k, i>>)
      BY <1>6, <2>1
    <3> QED BY <1>1, <2>1, <3>1, NumbersGoing
  <2>5. NextIn(p, l, en2, h) = HalfIn(p, l, en, h)
    <3> HIDE DEF l
    <3> QED BY <1>1, <1>2, <2>1, <2>3, <2>4, CountedUp
  <2>6. /\ ItersAt(p, <<k, i>>, en, h) = With(Full(p, Surround(p, l), en, h), l, HalfIn(p, l, en, h))
        /\ ItersAt(p, at2, en2, h2) = With(Full(p, Surround(p, l), en2, h2), l, NextIn(p, l, en2, h2))
    BY <1>1, <2>2, ItersBetween, ItersHalf
  <2>7. NextIn(p, l, en2, h2) = HalfIn(p, l, en, h)
    BY <2>3, <2>5
  <2>8. Surround(p, l) \subseteq Going(p, <<k, i>>) /\ PlaceAt(p, <<k, i>>) = l /\ PlaceAt(p, at2) = l
    BY <1>6
  <2>9. ~ (AtSingle(p, k, i) /\ p[k].op \in {"let", "result"})
    BY <1>5
  <2>10. l = p[k].of
    OBVIOUS
  <2> HIDE DEF l
  <2>11. Goes(p, at2, en2, h2, l, EnvAt(p, <<k, i>>, en), ItersAt(p, <<k, i>>, en, h))
    BY ONLY Step(p, k, i, en, h, at2, en2, h2), <1>7, <2>6, <2>7, <2>8, <2>9, SeenSame
  <2> QED BY <2>10, <2>11
<1>11. CASE AtEnd(p, k, i)
  <2>1. at2 = <<l, W(p, l)>> /\ Quiet(en, h, en2, h2) /\ i = L + B(p, l) + 1
    BY <1>2, <1>11
  <2>2. Again(p, at2, l)
    <3>1. Returned(p, at2, l, FALSE, FALSE)
      BY <1>4, <1>11
    <3> QED BY <3>1, AtLoopIs
  <2>3. CASE p[l].op # "for"
    <3>1. Outside(p, <<k, i>>, l) /\ Outside(p, at2, l)
      <4>1. Returned(p, <<k, i>>, l, i <= L + 1, i <= L + 2)
        BY <1>4
      <4> QED BY <2>2, <2>3, <4>1 DEF Returned, Again
    <3>2. ItersAt(p, <<k, i>>, en, h) = Full(p, Surround(p, l), en, h) /\ ItersAt(p, at2, en2, h2) = Full(p, Surround(p, l), en2, h2)
      BY <1>1, <3>1, ItersOut
    <3> QED BY <1>6, <2>1, <3>2 DEF Goes, EnvAt, Quiet
  <2>4. CASE p[l].op = "for" /\ p[l].how # "enumerate"
    <3>1. i = L + 2
      BY <1>3, <2>1, <2>4
    <3>2. Half(p, <<k, i>>, l) /\ Between(p, at2, l)
      <4>1. (i <= L + 1) = FALSE /\ (i <= L + 2) = TRUE
        BY <1>3, <3>1
      <4>2. Returned(p, <<k, i>>, l, i <= L + 1, i <= L + 2)
        BY <1>4
      <4>3. Returned(p, <<k, i>>, l, FALSE, TRUE)
        BY <4>1, <4>2
      <4> QED BY <2>2, <2>4, <4>3, HalfIs DEF Again
    <3>3. /\ ItersAt(p, <<k, i>>, en, h) = With(Full(p, Surround(p, l), en, h), l, HalfIn(p, l, en, h))
          /\ ItersAt(p, at2, en2, h2) = With(Full(p, Surround(p, l), en2, h2), l, NextIn(p, l, en2, h2))
      BY <1>1, <3>2, ItersBetween, ItersHalf
    <3>4. NextIn(p, l, en, h) = HalfIn(p, l, en, h)
      BY <2>4, OneCounter
    <3> QED BY <1>6, <2>1, <3>3, <3>4 DEF Goes, EnvAt, Quiet
  <2>5. CASE p[l].op = "for" /\ p[l].how = "enumerate"
    <3>1. i = L + 3
      BY <1>3, <2>1, <2>5
    <3>2. Between(p, <<k, i>>, l) /\ Between(p, at2, l)
      <4>1. (i <= L + 1) = FALSE /\ (i <= L + 2) = FALSE
        BY <1>3, <3>1
      <4>2. Returned(p, <<k, i>>, l, i <= L + 1, i <= L + 2)
        BY <1>4
      <4>3. Returned(p, <<k, i>>, l, FALSE, FALSE)
        BY <4>1, <4>2
      <4>4. Again(p, <<k, i>>, l)
        BY <4>3, AtLoopIs
      <4> QED BY <2>2, <2>5, <4>4 DEF Again
    <3>3. /\ ItersAt(p, <<k, i>>, en, h) = With(Full(p, Surround(p, l), en, h), l, NextIn(p, l, en, h))
          /\ ItersAt(p, at2, en2, h2) = With(Full(p, Surround(p, l), en2, h2), l, NextIn(p, l, en2, h2))
      BY <1>1, <3>2, ItersBetween
    <3> QED BY <1>6, <2>1, <3>3 DEF Goes, EnvAt, Quiet
  <2> QED BY <2>3, <2>4, <2>5
<1>12. i <= L \/ AtBump(p, k, i) \/ AtCountUp(p, k, i) \/ AtEnd(p, k, i)
  <2>1. ~ AtEnd(p, k, i) => i < L + 3
    BY <1>2, <1>3
  <2> QED BY <1>2, <1>3, <2>1
<1> QED BY <1>8, <1>9, <1>10, <1>11, <1>12

(* The end of a turn. *)
LEMMA SeenPass ==
  ASSUME NEW p, NEW k, NEW i, NEW en, NEW h, NEW at2, NEW en2, NEW h2,
         Step(p, k, i, en, h, at2, en2, h2), OfTurn(p, k, i), i = 1
  PROVE  LET l == p[k].of
         IN  /\ Goes(p, at2, en2, h2, l, Without(EnvAt(p, <<k, i>>, en), Targets(p, l)),
                     ItersAt(p, <<k, i>>, en, h))
             /\ p[k].op = "end" /\ IsLoop(p[l]) /\ l \in 1 .. Len(p)
<1> DEFINE l == p[k].of
           L == LatchAt(p, l)
<1>1. IsBody(p) /\ k \in 1 .. Len(p) /\ i \in 1 .. N(p, k)
  BY DEF Step, Ready
<1>2. /\ Closing(p, k) /\ l \in 1 .. Len(p) /\ IsLoop(p[l]) /\ k = End(p, l) /\ i > Q(p, l)
  BY TurnGoes
<1>3. p[k].op = "end"
  <2>1. ~ Each(p[l])
    <3>1. Q(p, l) = 0
      <4>1. Q(p, l) \in {0, 1, 5}
        BY <1>1, <1>2, LoopIs
      <4> QED BY <1>2, <4>1
    <3> QED BY <3>1 DEF Q
  <2> QED BY <1>1, <1>2, <2>1, ClosingOf DEF Closing
<1>4. /\ Outside(p, <<k, i>>, k) /\ ~ AtEnd(p, k, i) /\ ~ Steps(p, k, i) /\ i < L
      /\ Returned(p, at2, l, i + 1 <= L + 1, i + 1 <= L + 2)
      /\ Surround(p, k) = Surround(p, l) \cup (IF p[l].op = "for" THEN {l} ELSE {})
  BY TurnArrives
<1>5. Back(p, at2, l)
  <2>1. L \in Nat
    BY <1>1, <1>2, LoopIs DEF LatchAt
  <2>2. (i + 1 <= L + 1) = TRUE /\ (i + 1 <= L + 2) = TRUE
    BY <1>4, <2>1
  <2>3. Returned(p, at2, l, TRUE, TRUE)
    BY <1>4, <2>2
  <2> QED BY <2>3, AtLoopIs
<1>6. \A g : ~ Own(p, k, i, g)
  BY <1>3, <1>4 DEF Own, Settles, AtGain, AtKnown, Deciding
<1>7. ~ AtSingle(p, k, i)
  BY <1>2 DEF AtSingle, Single, Closing, IsLoop
<1> HIDE DEF l, L
<1>8. Goes(p, at2, en2, h2, l, Without(EnvAt(p, <<k, i>>, en), Targets(p, l)), ItersAt(p, <<k, i>>, en, h))
  BY <1>2, <1>4, <1>5, <1>6, <1>7, SeenBack
<1> QED BY <1>2, <1>3, <1>8 DEF l

(* Into the head of a for, but at its first instruction and at its while, a *)
(* step comes from the instruction before.                                  *)
LEMMA IntoHead ==
  ASSUME NEW p, IsBody(p), NEW k \in 1 .. Len(p), NEW i \in 1 .. N(p, k), NEW r, Flows(p, k, i, r),
         r[1] \in 1 .. Len(p), p[r[1]].op = "for", r[2] # 1, r[2] # W(p, r[1])
  PROVE  r = <<k, i + 1>> /\ i < N(p, k)
<1> DEFINE op == D(p, k, i).op
           l == p[k].of
<1>1. CASE r = IF i < N(p, k) THEN <<k, i + 1>> ELSE <<k + 1, 1>>
  BY <1>1
<1>2. CASE op \in Branches /\ r = Dest(p, k, i)
  <2>1. Tells(p, k, i)
    BY TellsIs
  <2>2. \A j \in 1 .. Len(p) : IsLoop(p[j]) => p[End(p, j)].op # "for"
    <3> SUFFICES ASSUME NEW j \in 1 .. Len(p), IsLoop(p[j]) PROVE p[End(p, j)].op # "for"
      OBVIOUS
    <3>1. Closing(p, End(p, j))
      BY LoopIs
    <3> QED BY <3>1 DEF Closing
  <2>3. CASE op = "if"
    <3>1. r = IfDest(p, k)
      BY <1>2, <2>3 DEF Dest
    <3>2. CASE p[k].op = "if"
      <4>1. r[2] = 1
        BY <3>1, <3>2 DEF IfDest
      <4> QED BY <4>1
    <3>3. CASE p[k].op = "filter"
      <4>1. r[1] = End(p, l)
        BY <3>1, <3>3 DEF IfDest
      <4>2. l \in 1 .. Len(p) /\ IsLoop(p[l])
        BY <3>3, FilterIs DEF IsLoop
      <4> QED BY <2>2, <4>1, <4>2
    <3>4. CASE p[k].op \notin {"if", "filter"}
      <4>1. r[1] = k
        BY <3>1, <3>4 DEF IfDest
      <4>2. Deciding(p, k)
        BY <2>1, <2>3, <3>4 DEF Tells
      <4> QED BY <4>1, <4>2 DEF Deciding
    <3> QED BY <3>2, <3>3, <3>4
  <2>4. CASE op = "while"
    <3>1. r[2] = 1
      BY <1>2, <2>4 DEF Dest
    <3> QED BY <3>1
  <2>5. CASE op = "else"
    <3>1. r = ElseDest(p, k, i)
      BY <1>2, <2>5 DEF Dest
    <3>2. CASE p[k].op = "else"
      <4>1. r[2] = 1
        BY <3>1, <3>2 DEF ElseDest
      <4> QED BY <4>1
    <3>3. CASE p[k].op # "else"
      <4>1. r[1] = k
        BY <3>1, <3>3 DEF ElseDest
      <4>2. Closing(p, k) \/ Deciding(p, k)
        BY <2>1, <2>5, <3>3 DEF Tells
      <4> QED BY <4>1, <4>2 DEF Deciding, Closing
    <3> QED BY <3>2, <3>3
  <2>6. CASE op = "next"
    <3>1. r[1] = k
      BY <1>2, <2>6 DEF Dest
    <3>2. Closing(p, k)
      BY <2>1, <2>6 DEF Tells
    <3> QED BY <3>1, <3>2 DEF Closing
  <2>7. CASE op = "end"
    <3>1. r = <<l, W(p, l)>>
      BY <1>2, <2>7 DEF Dest
    <3> QED BY <3>1
  <2>8. CASE op = "break"
    <3>1. r[2] = 1
      BY <1>2, <2>8 DEF Dest
    <3> QED BY <3>1
  <2>9. CASE op = "continue"
    <3>1. r[1] = End(p, l)
      BY <1>2, <2>9 DEF Dest
    <3>2. l \in 1 .. Len(p) /\ IsLoop(p[l])
      BY <2>9, JumpIs
    <3> QED BY <2>2, <3>1, <3>2
  <2> QED BY <1>2, <2>3, <2>4, <2>5, <2>6, <2>7, <2>8, <2>9 DEF Branches
<1> QED BY <1>1, <1>2 DEF Flows

(* An enumerate sets its number first of all. *)
LEMMA CountFirst ==
  ASSUME NEW p, IsBody(p), NEW k \in 1 .. Len(p), p[k].op = "for", p[k].how = "enumerate"
  PROVE  AtCount(p, k, 1)
<1>1. W(p, k) >= 3 /\ W(p, k) \in 2 .. 4
  BY WalkIs DEF Enum
<1>2. OfHead(p, k, 1)
  <2>1. 1 \in 1 .. N(p, k)
    BY NIs
  <2> QED BY <2>1, HeadPlaces
<1>3. ~ AtWhile(p, k, 1) /\ ~ AtReload(p, k, 1) /\ ~ AtCounter(p, k, 1) /\ ~ AtIndex(p, k, 1)
  BY <1>1, WalkIs DEF AtWhile, AtReload, AtCounter, AtIndex
<1>4. \A o \in {1, 2} : ~ AtList(p, k, 1, o) /\ ~ AtLoad(p, k, 1, o)
  <2>1. Indexed(p, k) => W(p, k) - 2 # 1
    BY WalkIs DEF Indexed, Enum
  <2> QED BY <1>1, <2>1 DEF AtList, AtLoad
<1> QED BY <1>2, <1>3, <1>4 DEF OfHead

(* What the head of a for writes before its while, but for enumerate's      *)
(* number, is none of the slots it has written.                             *)
LEMMA HeadWrites ==
  ASSUME NEW p, IsBody(p), Follows(p), NEW k \in 1 .. Len(p), p[k].op = "for", NEW i \in 1 .. N(p, k),
         i < W(p, k), NEW x \in Stored(D(p, k, i))
  PROVE  /\ p[k].how = "enumerate" => i = 1 \/ x # p[k].t[1]
         /\ \A n \in 1 .. i - 1 : \A m \in DOMAIN p[k].its : AtList(p, k, n, m) => x # Holder(p, k, m)
<1>1. W(p, k) \in 2 .. 4 /\ H(p, k) >= W(p, k) /\ H(p, k) \in 2 .. 6 /\ i \in Nat
  BY WalkIs, NIs
<1>2. OfHead(p, k, i)
  BY HeadPlaces
<1>3. ~ AtWhile(p, k, i) /\ ~ AtReload(p, k, i) /\ \A m \in {1, 2} : ~ AtLoad(p, k, i, m)
  BY <1>1 DEF AtWhile, AtReload, AtLoad
<1>4. /\ IndexOf(p, k)[1] \in IndexHelpers
      /\ \A m \in DOMAIN p[k].its : Holder(p, k, m)[1] \in ListHelpers
  BY HelperKinds DEF Holder
<1>5. \A x2 \in Targets(p, k) : x2[1] \notin ListHelpers /\ x2[1] \notin IndexHelpers
  <2>1. \A x2 \in Targets(p, k) : x2[1] \in DOMAIN Types
    BY ForIs
  <2> QED BY <2>1, Kinds DEF Helpers
<1>6. /\ Over(p[k]) \in Targets(p, k)
      /\ p[k].how = "enumerate" => p[k].t[1] \in Targets(p, k) /\ Over(p[k]) = p[k].t[2] /\ p[k].t[1] # p[k].t[2]
  BY ForIs, BodyIs DEF Over, Follows, TargetsApart
<1>7. \A m \in DOMAIN p[k].its : Holder(p, k, m) # IndexOf(p, k)
  BY CounterApart, <1>4, Kinds
<1>8. CASE AtCount(p, k, i)
  <2>1. x = p[k].t[1] /\ i = 1
    BY <1>8, LetStores DEF AtCount
  <2>2. p[k].t[1] \in Targets(p, k)
    BY <1>6, <1>8 DEF AtCount
  <2> QED BY <1>4, <1>5, <2>1, <2>2
<1>9. CASE AtCounter(p, k, i)
  <2>1. x = Over(p[k])
    BY <1>9, LetStores DEF AtCounter
  <2> QED BY <1>4, <1>5, <1>6, <2>1
<1>10. CASE AtIndex(p, k, i)
  <2>1. x = IndexOf(p, k)
    BY <1>10, LetStores DEF AtIndex
  <2> QED BY <1>4, <1>5, <1>6, <1>7, <2>1
<1>11. ASSUME NEW o \in {1, 2}, AtList(p, k, i, o)
       PROVE  /\ p[k].how = "enumerate" => i = 1 \/ x # p[k].t[1]
              /\ \A n \in 1 .. i - 1 : \A m \in DOMAIN p[k].its : AtList(p, k, n, m) => x # Holder(p, k, m)
  <2>1. x = Holder(p, k, o) /\ o \in DOMAIN p[k].its /\ i = IF p[k].how = "zip" THEN o ELSE W(p, k) - 2
    BY <1>11, LetStores DEF AtList
  <2>2. p[k].how = "enumerate" => x # p[k].t[1]
    BY <1>4, <1>5, <1>6, <2>1
  <2>3. ASSUME NEW n \in 1 .. i - 1, NEW m \in DOMAIN p[k].its, AtList(p, k, n, m)
        PROVE  x # Holder(p, k, m)
    <3>1. n = (IF p[k].how = "zip" THEN m ELSE W(p, k) - 2) /\ n # i
      BY <1>1, <2>3 DEF AtList
    <3>2. p[k].how = "zip" /\ m # o
      BY <2>1, <3>1
    <3>3. m \in {1, 2}
      BY <3>2, WalkIs
    <3>4. Zip0(p, k) # Zip1(p, k)
      BY DEF Zip0, Zip1
    <3> QED BY <2>1, <3>2, <3>3, <3>4 DEF Holder
  <2> QED BY <2>2, <2>3
<1> QED BY <1>2, <1>3, <1>8, <1>9, <1>10, <1>11 DEF OfHead

(* What the head of a for has prepared stays as it is. *)
LEMMA PreparedHead ==
  ASSUME NEW p, NEW k, NEW i, NEW en, NEW h, NEW at2, NEW en2, NEW h2,
         Step(p, k, i, en, h, at2, en2, h2), p[k].op = "for", i + 1 < W(p, k)
  PROVE  /\ \A m \in DOMAIN p[k].its, n \in 1 .. i :
              AtList(p, k, n, m) => en2[Holder(p, k, m)] = en2[p[k].its[m].x]
         /\ p[k].how = "enumerate" => en2[p[k].t[1]] = p[k].start
<1>1. /\ IsBody(p) /\ Follows(p) /\ k \in 1 .. Len(p) /\ i \in 1 .. N(p, k) /\ Prepared(p, <<k, i>>, en)
      /\ Effect(p, k, i, en, h, at2, en2, h2) /\ Known(p, k, i) \subseteq DOMAIN en
  BY DEF Step, Ready
<1>2. W(p, k) \in 2 .. 4 /\ i \in Nat /\ i < W(p, k) /\ i >= 1 /\ H(p, k) \in 2 .. 6 /\ H(p, k) >= W(p, k)
      /\ i \in 1 .. H(p, k)
  BY <1>1, WalkIs, NIs
<1>3. /\ \A mm \in DOMAIN p[k].its, nn \in 1 .. i - 1 :
           AtList(p, k, nn, mm) => en[Holder(p, k, mm)] = en[p[k].its[mm].x]
      /\ p[k].how = "enumerate" /\ i > 1 => en[p[k].t[1]] = p[k].start
  <2> DEFINE at == <<k, i>>
  <2>1. at[1] = k /\ at[2] = i
    OBVIOUS
  <2> HIDE DEF at
  <2>2. Prepared(p, at, en)
    BY <1>1 DEF at
  <2> QED BY <1>1, <1>2, <2>1, <2>2 DEF Prepared
<1>4. \A x \in Bound(p, k) : en2[x] = en[x]
  <2> SUFFICES ASSUME NEW x \in Bound(p, k) PROVE en2[x] = en[x]
    OBVIOUS
  <2>1. A(p, k, i) = k
    <3>1. PlaceAt(p, <<k, i>>) = k
      BY <1>1, <1>2, InHead
    <3> QED BY <1>1, <3>1, PlaceAtIs
  <2>2. ~ AtSingle(p, k, i)
    BY DEF AtSingle, Single
  <2> QED BY <2>1, <2>2, BoundKept
<1>5. ASSUME NEW m \in DOMAIN p[k].its, NEW n \in 1 .. i, AtList(p, k, n, m)
      PROVE  en2[Holder(p, k, m)] = en2[p[k].its[m].x]
  <2>1. en2[p[k].its[m].x] = en[p[k].its[m].x]
    <3>1. Indexed(p, k)
      BY <1>5 DEF AtList
    <3>2. p[k].its[m].x \in Bound(p, k)
      BY <1>1, <3>1, ListSource
    <3> QED BY <1>4, <3>2
  <2>2. CASE n = i
    <3>1. D(p, k, i) = Let(Holder(p, k, m), Var(p[k].its[m].x))
      BY <1>5, <2>2 DEF AtList
    <3>2. D(p, k, i).op = "let" /\ D(p, k, i).x = Holder(p, k, m) /\ D(p, k, i).e = Var(p[k].its[m].x)
      BY <3>1 DEF Let
    <3>3. en2 = With(en, Holder(p, k, m), Stored_(D(p, k, i), en, h))
      BY <1>1, <3>2 DEF Effect
    <3>4. Stored_(D(p, k, i), en, h) = en[p[k].its[m].x]
      <4>1. Stored_(D(p, k, i), en, h) = Eval(Var(p[k].its[m].x), en, h)
        BY <3>2 DEF Stored_
      <4> QED BY <4>1 DEF Eval, Number, Atom, Var, Comparisons
    <3>5. en2[Holder(p, k, m)] = en[p[k].its[m].x]
      BY <3>3, <3>4 DEF With
    <3> QED BY <2>1, <3>5
  <2>3. CASE n # i
    <3>1. n \in 1 .. i - 1
      BY <1>2, <2>3
    <3>2. en[Holder(p, k, m)] = en[p[k].its[m].x]
      BY <1>3, <1>5, <3>1
    <3>3. Holder(p, k, m) \notin Stored(D(p, k, i))
      BY <1>1, <1>2, <1>5, <3>1, HeadWrites
    <3>4. Holder(p, k, m) \in Known(p, k, i)
      <4>1. D(p, k, n).x = Holder(p, k, m)
        BY <1>5 DEF AtList, Let
      <4>2. n # W(p, k)
        BY <1>2, <3>1
      <4> QED BY <1>1, <3>1, <4>1, <4>2, HereKnown
    <3> QED BY <2>1, <3>2, <3>3, <3>4, EnvKept
  <2> QED BY <2>2, <2>3
<1>6. ASSUME p[k].how = "enumerate" PROVE en2[p[k].t[1]] = p[k].start
  <2>1. AtCount(p, k, 1)
    BY <1>1, <1>6, CountFirst
  <2>2. CASE i = 1
    <3>1. D(p, k, i) = Let(p[k].t[1], Num(p[k].start))
      BY <2>1, <2>2 DEF AtCount
    <3>2. D(p, k, i).op = "let" /\ D(p, k, i).x = p[k].t[1] /\ D(p, k, i).e = Num(p[k].start)
      BY <3>1 DEF Let
    <3>3. en2 = With(en, p[k].t[1], Stored_(D(p, k, i), en, h))
      BY <1>1, <3>2 DEF Effect
    <3>4. Stored_(D(p, k, i), en, h) = p[k].start
      <4>1. Stored_(D(p, k, i), en, h) = Eval(Num(p[k].start), en, h)
        BY <3>2 DEF Stored_
      <4> QED BY <4>1 DEF Eval, Number, Atom, Num, Comparisons
    <3> QED BY <3>3, <3>4 DEF With
  <2>3. CASE i # 1
    <3>1. i > 1 /\ 1 \in 1 .. i - 1 /\ 1 # W(p, k)
      BY <1>2, <2>3
    <3>2. en[p[k].t[1]] = p[k].start
      BY <1>3, <1>6, <3>1
    <3>3. p[k].t[1] \notin Stored(D(p, k, i))
      BY <1>1, <1>2, <1>6, <2>3, HeadWrites
    <3>4. p[k].t[1] \in Known(p, k, i)
      <4>1. D(p, k, 1).x = p[k].t[1]
        BY <2>1 DEF AtCount, Let
      <4> QED BY <1>1, <3>1, <4>1, HereKnown
    <3> QED BY <3>2, <3>3, <3>4, EnvKept
  <2> QED BY <2>2, <2>3
<1> QED BY <1>5, <1>6

LEMMA PreparedKept ==
  ASSUME NEW p, NEW k, NEW i, NEW en, NEW h, NEW at2, NEW en2, NEW h2,
         Step(p, k, i, en, h, at2, en2, h2)
  PROVE  Prepared(p, at2, en2)
<1>1. /\ IsBody(p) /\ k \in 1 .. Len(p) /\ i \in 1 .. N(p, k) /\ Len(p) \in Nat /\ N(p, k) \in Nat
      /\ at2 = <<Len(p) + 1, 1>> \/ Flows(p, k, i, at2)
      /\ InText(p, at2)
  BY BodyIs, NIs DEF Step, Ready
<1> SUFFICES ASSUME at2[1] \in 1 .. Len(p), p[at2[1]].op = "for", at2[2] < W(p, at2[1])
             PROVE  LET r == at2[1]
                    IN  /\ \A m \in DOMAIN p[r].its, n \in 1 .. at2[2] - 1 :
                             AtList(p, r, n, m) => en2[Holder(p, r, m)] = en2[p[r].its[m].x]
                        /\ p[r].how = "enumerate" /\ at2[2] > 1 => en2[p[r].t[1]] = p[r].start
  BY DEF Prepared
<1>2. at2 # <<Len(p) + 1, 1>> /\ W(p, at2[1]) \in 2 .. 4 /\ at2[2] \in Nat /\ at2[2] >= 1
  <2>1. at2 # <<Len(p) + 1, 1>>
    BY <1>1
  <2>2. at2[2] \in 1 .. N(p, at2[1]) /\ N(p, at2[1]) \in Nat
    BY <1>1, <2>1, NIs DEF InText
  <2> QED BY <1>1, <2>1, <2>2, WalkIs
<1>3. CASE at2[2] = 1
  BY <1>3
<1>4. CASE at2[2] # 1
  <2>1. at2[2] # W(p, at2[1])
    BY <1>2
  <2>2. at2 = <<k, i + 1>>
    BY <1>1, <1>2, <1>4, <2>1, IntoHead
  <2>3. at2[1] = k /\ at2[2] = i + 1 /\ i + 1 < W(p, k) /\ p[k].op = "for" /\ i + 1 - 1 = i
    BY <1>1, <2>2
  <2>4. /\ \A m \in DOMAIN p[k].its, n \in 1 .. i :
              AtList(p, k, n, m) => en2[Holder(p, k, m)] = en2[p[k].its[m].x]
        /\ p[k].how = "enumerate" => en2[p[k].t[1]] = p[k].start
    BY <2>3, PreparedHead
  <2>5. at2[2] - 1 = i /\ at2[1] = k
    BY <1>1, <2>3, NIs
  <2> QED BY ONLY <2>4, <2>5
<1> QED BY <1>3, <1>4

LEMMA LoadingKept ==
  ASSUME NEW p, NEW k, NEW i, NEW en, NEW h, NEW at2, NEW en2, NEW h2,
         Step(p, k, i, en, h, at2, en2, h2)
  PROVE  Loading(p, at2, en2, h2)
<1>1. /\ IsBody(p) /\ Follows(p) /\ k \in 1 .. Len(p) /\ i \in 1 .. N(p, k) /\ Len(p) \in Nat /\ i \in Nat
      /\ at2 = <<Len(p) + 1, 1>> \/ Flows(p, k, i, at2)
      /\ Loading(p, <<k, i>>, en, h) /\ Known(p, k, i) \subseteq DOMAIN en
  BY BodyIs, NIs DEF Step, Ready
<1> SUFFICES ASSUME at2[1] \in 1 .. Len(p), Indexed(p, at2[1]), at2[2] > W(p, at2[1]), at2[2] <= H(p, at2[1])
             PROVE  LET r == at2[1]
                        j == en2[IndexOf(p, r)]
                    IN  /\ \A m \in DOMAIN p[r].its : j < Len(h2[en2[Holder(p, r, m)]])
                        /\ at2[2] = W(p, r) + 2 => en2[p[r].t[1]] = h2[en2[Holder(p, r, 1)]][j + 1]
  BY DEF Loading
<1>2. at2[1] = k /\ at2[2] = i + 1 /\ i >= W(p, k)
  <2>1. at2 # <<Len(p) + 1, 1>>
    BY <1>1
  <2> QED BY <1>1, <2>1, IntoLoads
<1> HIDE DEF Indexed
<1>3. Indexed(p, k) /\ i + 1 > W(p, k) /\ i + 1 <= H(p, k) /\ p[k].op = "for"
  BY <1>2 DEF Indexed
<1>4. /\ W(p, k) \in 2 .. 4 /\ H(p, k) \in 2 .. 6
      /\ p[k].how = "zip" => W(p, k) = 4 /\ H(p, k) = 6 /\ DOMAIN p[k].its = {1, 2}
      /\ p[k].how # "zip" => DOMAIN p[k].its = {1} /\ H(p, k) = W(p, k) + 1
  BY <1>1, <1>3, WalkIs
<1>5. CASE i = W(p, k)
  <2>1. AtWhile(p, k, i)
    BY <1>1, <1>3, <1>5, LoopIs DEF IsLoop
  <2>2. Quiet(en, h, en2, h2) /\ at2 = IF Eval(Cond(p, k), en, h) THEN Onward(p, k, i) ELSE <<End(p, k) + 1, 1>>
    BY <2>1, WhileGoes
  <2>3. Eval(Cond(p, k), en, h)
    <3>1. at2 # <<End(p, k) + 1, 1>>
      <4>1. at2[2] # 1
        BY <1>2, <1>4, <1>5
      <4> QED BY <4>1
    <3> QED BY <2>2, <3>1
  <2>4. \A m \in DOMAIN p[k].its : en[IndexOf(p, k)] < Len(h[en[Holder(p, k, m)]])
    BY <1>1, <1>3, <2>3, CondBounds
  <2>5. at2[2] # W(p, k) + 2
    BY <1>2, <1>4, <1>5
  <2>6. en2 = en /\ h2 = h
    BY <2>2 DEF Quiet
  <2> QED BY <1>2, <2>4, <2>5, <2>6
<1>6. CASE i # W(p, k)
  <2>1. i = W(p, k) + 1 /\ p[k].how = "zip" /\ i <= H(p, k) /\ i > W(p, k)
    BY <1>1, <1>2, <1>3, <1>4, <1>6
  <2> DEFINE at == <<k, i>>
             j  == en[IndexOf(p, k)]
             v  == h[en[Holder(p, k, 1)]][j + 1]
  <2>2. \A m \in DOMAIN p[k].its : j < Len(h[en[Holder(p, k, m)]])
    <3>1. at[1] = k /\ at[2] = i
      OBVIOUS
    <3> HIDE DEF at
    <3>2. Loading(p, at, en, h)
      BY <1>1 DEF at
    <3> QED BY <1>1, <1>3, <2>1, <3>1, <3>2 DEF Loading
  <2>3. Put(p[k].t[1], v, en, h, en2, h2)
    <3> DEFINE u(m) == h[en[Holder(p, k, m)]][en[IndexOf(p, k)] + 1]
    <3>1. \/ AtCount(p, k, i) \/ AtCounter(p, k, i) \/ AtIndex(p, k, i)
          \/ \E m \in DOMAIN p[k].its : AtList(p, k, i, m)
          \/ \E m \in DOMAIN p[k].its : AtLoad(p, k, i, m) /\ Put(p[k].t[m], u(m), en, h, en2, h2)
      BY <1>3, <1>6, <2>1, HeadGoes
    <3>2. ~ AtCount(p, k, i) /\ ~ AtCounter(p, k, i) /\ ~ AtIndex(p, k, i) /\ \A m : ~ AtList(p, k, i, m)
      BY <1>4, <2>1 DEF AtCount, AtCounter, AtIndex, AtList
    <3>3. \A m \in DOMAIN p[k].its : AtLoad(p, k, i, m) => m = 1
      BY <1>4, <2>1 DEF AtLoad
    <3>4. v = u(1)
      OBVIOUS
    <3> HIDE DEF u, v
    <3> QED BY <3>1, <3>2, <3>3, <3>4
  <2>4. en2 = With(en, p[k].t[1], v) /\ h2 = h
    BY <2>3 DEF Put
  <2>5. IndexOf(p, k) \in DOMAIN en /\ \A m \in DOMAIN p[k].its : Holder(p, k, m) \in DOMAIN en
    <3>1. ReadsOf(p, k) \subseteq DOMAIN en
      BY <1>1, <1>2, <1>3, LoopKnown
    <3> QED BY <1>3, <3>1 DEF ReadsOf
  <2>6. IndexOf(p, k) # p[k].t[1] /\ \A m \in DOMAIN p[k].its : Holder(p, k, m) # p[k].t[1]
    <3>1. p[k].t[1] \in Targets(p, k)
      BY <1>1, <1>3, ForIs
    <3>2. /\ k \in 1 .. Len(p) + 1
          /\ \A m \in DOMAIN p[k].its : Holder(p, k, m)[1] \in LoopHelpers
          /\ IndexOf(p, k)[1] \in LoopHelpers
          /\ \A x \in Targets(p, k) : Named(x)
          /\ \A x : x[1] \in LoopHelpers => ~ Named(x)
      BY <1>1, <1>3, NameKinds
    <3> QED BY <3>1, <3>2
  <2>7. /\ en2[p[k].t[1]] = v /\ en2[IndexOf(p, k)] = j
        /\ \A m \in DOMAIN p[k].its : en2[Holder(p, k, m)] = en[Holder(p, k, m)]
    <3> HIDE DEF v
    <3> QED BY <2>4, <2>5, <2>6 DEF With
  <2>8. 1 \in DOMAIN p[k].its
    BY <1>4
  <2>9. /\ \A m \in DOMAIN p[k].its : en2[IndexOf(p, k)] < Len(h2[en2[Holder(p, k, m)]])
        /\ en2[p[k].t[1]] = h2[en2[Holder(p, k, 1)]][en2[IndexOf(p, k)] + 1]
    BY <2>2, <2>4, <2>7, <2>8
  <2> QED BY <1>2, <2>9
<1> QED BY <1>5, <1>6

LEMMA HeapGrows ==
  ASSUME NEW p, NEW k, NEW i, NEW en, NEW h, NEW at2, NEW en2, NEW h2,
         Step(p, k, i, en, h, at2, en2, h2)
  PROVE  Len(h2) >= Len(Heap0)
<1>1. Len(h2) >= Len(h) /\ Len(h) \in Nat /\ Len(h) >= Len(Heap0)
  BY HeapKept DEF Step, Ready
<1>2. Len(h2) \in Nat /\ Len(Heap0) \in Nat
  BY ProgramsAssumption DEF Step, Fine
<1> QED BY <1>1, <1>2

-----------------------------------------------------------------------------
(* Where any and all find out. *)

LEMMA OntoKnown ==
  ASSUME NEW p, NEW k, NEW i, NEW en, NEW h, NEW at2, NEW en2, NEW h2,
         Step(p, k, i, en, h, at2, en2, h2), at2[1] \in 1 .. Len(p), AtKnown(p, at2[1], at2[2])
  PROVE  AtTest(p, k, i)
<1>1. IsBody(p) /\ k \in 1 .. Len(p) /\ i \in 1 .. N(p, k) /\ Len(p) \in Nat /\ i \in Nat
  BY BodyIs, NIs DEF Step, Ready
<1> DEFINE r == at2[1]
<1>2. at2[2] \in {2, 3} /\ Deciding(p, r) /\ p[r].op = "yield"
  BY DEF AtKnown, Deciding
<1>3. Closing(p, r) /\ Q(p, p[r].of) = 5 /\ LatchAt(p, p[r].of) >= 7
  <2>1. Closing(p, r) /\ Q(p, p[r].of) = 5 /\ LatchAt(p, p[r].of) \in 7 .. 9
    BY <1>1, <1>2, DecidingIs
  <2> QED BY <2>1
<1>4. \A l \in 1 .. Len(p) : IsLoop(p[l]) /\ r = End(p, l) => p[r].of = l
  BY <1>1, LoopIs
<1>5. CASE AtSingle(p, k, i)
  <2>1. /\ p[k].op \in {"let", "append", "if", "else", "gather", "result", "break", "continue", "return"}
        /\ p[k].op \in {"let", "append", "gather", "result"} => at2 = <<k + 1, 1>>
        /\ p[k].op = "if" => at2 = IF Eval(p[k].c, en, h) THEN <<k + 1, 1>> ELSE <<Else(p, k) + 1, 1>>
        /\ p[k].op = "else" => at2 = <<End(p, p[k].of), 1>>
        /\ p[k].op = "break" => at2 = <<End(p, p[k].of) + 1, 1>>
        /\ p[k].op = "continue" => at2 = <<End(p, p[k].of), LatchAt(p, p[k].of)>>
        /\ p[k].op = "return" => at2 = <<Len(p) + 1, 1>>
    BY <1>5, SingleGoes
  <2>2. p[k].op # "continue" => at2[2] = 1
    BY <2>1
  <2>3. CASE p[k].op = "continue"
    <3>1. p[k].of \in 1 .. Len(p) /\ IsLoop(p[p[k].of])
      BY <1>1, <2>3, OutOf
    <3>2. r = End(p, p[k].of) /\ at2[2] = LatchAt(p, p[k].of)
      BY <2>1, <2>3
    <3>3. p[r].of = p[k].of
      BY <1>4, <3>1, <3>2
    <3> QED BY <1>2, <1>3, <3>2, <3>3
  <2> QED BY <1>2, <2>2, <2>3
<1>6. CASE AtFilter(p, k, i)
  <2>1. /\ at2 = IF Eval(p[k].c, en, h) THEN (IF Reloads(p, k) THEN <<k, 2>> ELSE <<k + 1, 1>>)
                 ELSE <<End(p, p[k].of), Q(p, p[k].of) + 2>>
        /\ p[k].op = "filter"
    BY <1>6, FilterGoes DEF AtFilter
  <2>2. p[k].of \in 1 .. Len(p) /\ IsLoop(p[p[k].of])
    BY <1>1, <2>1, FilterIs DEF IsLoop
  <2>3. at2 = <<k, 2>> \/ at2 = <<k + 1, 1>> \/ (r = End(p, p[k].of) /\ at2[2] = Q(p, p[k].of) + 2)
    BY <2>1
  <2>4. at2 # <<k, 2>> /\ at2 # <<k + 1, 1>>
    BY <1>2, <2>1
  <2>5. r = End(p, p[k].of) /\ at2[2] = Q(p, p[k].of) + 2
    BY <2>3, <2>4
  <2>6. p[r].of = p[k].of
    BY <1>4, <2>2, <2>5
  <2> QED BY <1>2, <1>3, <2>5, <2>6
<1>7. CASE AtJoin(p, k, i)
  <2>1. at2 = <<k + 1, 1>>
    BY <1>7, JoinGoes
  <2> QED BY <1>2, <2>1
<1>8. CASE OfHead(p, k, i)
  <2>1. p[k].op \in {"for", "while", "filter"}
    BY <1>8 DEF OfHead, AtWhile, AtCount, AtCounter, AtIndex, AtReload, AtList, AtLoad, Indexed, IsLoop
  <2>2. at2 = Onward(p, k, i) \/ at2 = <<End(p, k) + 1, 1>>
    <3>1. CASE AtWhile(p, k, i)
      BY <3>1, WhileGoes
    <3>2. CASE AtReload(p, k, i)
      <4>1. at2 = <<k + 1, 1>> /\ p[k].op \in {"for", "filter"}
            /\ i = IF p[k].op = "for" THEN H(p, k) + 1 ELSE 2
        BY <3>2, ReloadGoes DEF AtReload
      <4>2. N(p, k) = i
        BY <1>1, <3>2, <4>1, NIs DEF AtReload
      <4> QED BY <1>1, <4>1, <4>2 DEF Onward
    <3>3. CASE ~ AtWhile(p, k, i) /\ ~ AtReload(p, k, i)
      <4>1. p[k].op = "for"
        BY <1>8, <3>3 DEF OfHead, AtCount, AtCounter, AtIndex, AtList, AtLoad, Indexed
      <4>2. i # W(p, k)
        <5>1. i = W(p, k) => AtWhile(p, k, i)
          BY <1>1, <4>1, LoopIs DEF IsLoop
        <5> QED BY <3>3, <5>1
      <4>3. i <= H(p, k)
        <5>1. H(p, k) \in 2 .. 6
          BY <1>1, <4>1, WalkIs
        <5>2. i > H(p, k) => AtReload(p, k, i)
          BY <1>1, <4>1, ReloadSpot
        <5> QED BY <1>1, <3>3, <5>1, <5>2
      <4> QED BY <4>1, <4>2, <4>3, HeadGoes
    <3> QED BY <3>1, <3>2, <3>3
  <2>3. at2 # <<k, i + 1>>
    BY <1>2, <2>1
  <2>4. at2 = <<k + 1, 1>> \/ at2 = <<End(p, k) + 1, 1>>
    BY <2>2, <2>3 DEF Onward
  <2> QED BY <1>2, <2>4
<1>9. CASE OfGain(p, k, i)
  <2> SUFFICES ASSUME ~ AtTest(p, k, i) PROVE FALSE
    OBVIOUS
  <2>1. /\ AtGain(p, k, i) => at2 = <<k, 2>>
        /\ AtKnown(p, k, i) => at2 = <<k, i + 1>>
        /\ AtStop(p, k, i) => at2 = <<k + 1, 1>>
        /\ AtOther(p, k, i) => at2 = <<k, 5>>
        /\ AtSettled(p, k, i) => at2 = <<k, 6>>
    BY <1>9, GainGoes
  <2>2. ~ AtStop(p, k, i) /\ ~ AtOther(p, k, i) /\ ~ AtSettled(p, k, i)
    BY <1>2, <2>1
  <2>3. ~ AtGain(p, k, i)
    BY <1>2, <2>1 DEF AtGain, Deciding
  <2>4. ~ AtKnown(p, k, i)
    <3>1. AtKnown(p, k, i) => i = IF AnyOf(p, k) THEN 2 ELSE 3
      BY DEF AtKnown
    <3>2. at2[2] = IF AnyOf(p, r) THEN 2 ELSE 3
      BY DEF AtKnown
    <3> QED BY <1>1, <2>1, <3>1, <3>2
  <2> QED BY <1>9, <2>2, <2>3, <2>4 DEF OfGain
<1>10. CASE OfTurn(p, k, i)
  <2> DEFINE l == p[k].of
  <2>1. /\ l \in 1 .. Len(p) /\ IsLoop(p[l]) /\ k = End(p, l) /\ i > Q(p, l)
        /\ AtEnd(p, k, i) => at2 = <<l, W(p, l)>>
        /\ ~ AtEnd(p, k, i) => at2 = <<k, i + 1>>
    BY <1>10, TurnGoes
  <2>2. r # l
    BY <1>2, <2>1 DEF IsLoop
  <2>3. at2 = <<k, i + 1>> /\ r = k
    BY <2>1, <2>2
  <2>4. at2[2] = i + 1 /\ Q(p, l) = 5
    BY <1>3, <2>3
  <2> QED BY <1>1, <1>2, <2>1, <2>4
<1>11. \/ AtSingle(p, k, i) \/ AtFilter(p, k, i) \/ AtJoin(p, k, i)
       \/ OfHead(p, k, i) \/ OfGain(p, k, i) \/ OfTurn(p, k, i)
  BY <1>1, PlaceIs
<1> QED BY <1>5, <1>6, <1>7, <1>8, <1>9, <1>10, <1>11

LEMMA FoundOutKept ==
  ASSUME NEW p, NEW k, NEW i, NEW en, NEW h, NEW at2, NEW en2, NEW h2,
         Step(p, k, i, en, h, at2, en2, h2)
  PROVE  FoundOut(p, at2, en2, h2)
<1> SUFFICES ASSUME at2[1] \in 1 .. Len(p), AtKnown(p, at2[1], at2[2])
             PROVE  Eval(p[at2[1]].e, en2, h2) = AnyOf(p, at2[1])
  BY DEF FoundOut
<1>1. AtTest(p, k, i)
  BY OntoKnown
<1>2. Quiet(en, h, en2, h2)
  BY <1>1, GainGoes DEF OfGain
<1>3. IF Eval(p[k].e, en, h) = AnyOf(p, k)
      THEN Outside(p, at2, k) /\ AtKnown(p, k, at2[2]) /\ at2[1] = k
      ELSE AtLoop(p, at2, p[k].of, TRUE, TRUE) /\ at2[1] = k /\ ~ AtKnown(p, k, at2[2])
  BY <1>1, GainArrives DEF OfGain
<1>4. at2[1] = k /\ Eval(p[k].e, en, h) = AnyOf(p, k)
  BY <1>3
<1> QED BY <1>2, <1>4 DEF Quiet

LEMMA UnknownKept ==
  ASSUME NEW p, NEW k, NEW i, NEW en, NEW h, NEW at2, NEW en2, NEW h2,
         Step(p, k, i, en, h, at2, en2, h2)
  PROVE  Unknown(p, at2, en2)
<1>1. IsBody(p) /\ k \in 1 .. Len(p) /\ i \in 1 .. N(p, k) /\ Len(p) \in Nat /\ i \in Nat
  BY BodyIs, NIs DEF Step, Ready
<1> DEFINE b  == PlaceAt(p, at2)
           at == <<k, i>>
<1> SUFFICES ASSUME NEW g \in Surround(p, b), p[g].op = "gather", ~ Grows(p, g), b # End(p, g)
             PROVE  en2[Acc(p, g)] = (p[g].how = "all")
  BY DEF Unknown
<1>2. Reaches(p, k, i, at2)
  BY StepReaches
<1>3. /\ g \in Going(p, at) \/ (g = k /\ AtSingle(p, k, i))
      /\ A(p, k, i) # End(p, g)
  BY <1>2 DEF Reaches
<1>4. CASE g = k /\ AtSingle(p, k, i)
  <2>1. p[k].how # "list" => en2 = With(en, Acc(p, k), IF p[k].how = "sum" THEN 0 ELSE p[k].how = "all")
    BY <1>4, SingleGoes
  <2>2. p[k].how # "list" /\ p[k].how # "sum"
    BY <1>4 DEF Grows
  <2> QED BY <1>4, <2>1, <2>2 DEF With
<1>5. CASE g \in Going(p, at) /\ g # k
  <2>1. g \in Around(p, A(p, k, i))
    BY <1>1, <1>5, GoingIs
  <2>2. PlaceAt(p, at) = A(p, k, i)
    BY <1>1, PlaceAtIs
  <2>3. en[Acc(p, g)] = (p[g].how = "all")
    <3>1. g \in Surround(p, PlaceAt(p, at)) /\ PlaceAt(p, at) # End(p, g)
      BY <1>3, <2>1, <2>2 DEF Surround
    <3>2. Unknown(p, at, en)
      BY DEF Step, Ready
    <3> HIDE DEF at
    <3> QED BY <3>1, <3>2 DEF Unknown
  <2>4. ~ Own(p, k, i, g)
    <3>1. ~ (Steps(p, k, i) /\ g = p[k].of)
      BY <1>1, StepsBehind
    <3>2. AtGain(p, k, i) => g # Whole(p, k)
      BY DEF AtGain
    <3>3. AtKnown(p, k, i) => g # Whole(p, k)
      <4> SUFFICES ASSUME AtKnown(p, k, i), g = Whole(p, k) PROVE FALSE
        OBVIOUS
      <4>1. p[k].op = "yield" /\ Outside(p, at2, k + 1)
        BY GainArrives DEF OfGain
      <4>2. End(p, g) = k + 1
        BY <1>1, <4>1, YieldAround
      <4> QED BY <4>1, <4>2 DEF Outside
    <3> QED BY <3>1, <3>2, <3>3 DEF Own, Settles
  <2>5. \A y \in ReadsOf(p, g) : en2[y] = en[y]
    BY <1>5, <2>4, StepKeeps
  <2> QED BY <2>3, <2>5 DEF ReadsOf
<1>6. CASE g \in Going(p, at) /\ g = k
  <2>1. g \in Around(p, A(p, k, i)) /\ A(p, k, i) \in 1 .. Len(p)
    BY <1>1, <1>6, GoingIs, PlaceAtIs
  <2>2. AtSingle(p, k, i)
    <3>1. \/ AtSingle(p, k, i) \/ AtFilter(p, k, i) \/ AtJoin(p, k, i)
          \/ OfHead(p, k, i) \/ OfGain(p, k, i) \/ OfTurn(p, k, i)
      BY <1>1, PlaceIs
    <3>2. p[k].op = "gather"
      BY <1>6
    <3> QED BY <3>1, <3>2 DEF AtFilter, AtJoin, OfHead, AtWhile, AtCount, AtCounter, AtIndex, AtReload, AtList,
                              AtLoad, Indexed, IsLoop, OfGain, AtGain, AtTest, AtKnown, AtStop, AtOther, AtSettled,
                              Deciding, OfTurn, AtSkipped, AtKept, AtNext, AtLatch, AtBump, AtCountUp, AtEnd, Turn,
                              Closing
  <2> QED BY <1>4, <1>6, <2>2
<1> QED BY <1>3, <1>4, <1>5, <1>6

-----------------------------------------------------------------------------
(* The register of an accumulator's old value. *)

LEMMA OldNames ==
  ASSUME NEW p, IsBody(p), NEW g \in 1 .. Len(p), p[g].op = "gather"
  PROVE  /\ Old(p, g)[2] = g /\ Old(p, g)[1] \in {"%sum", "%list"}
         /\ Acc(p, g)[1] \in {"__sum_acc", "__compr_acc", "__bool_acc"}
         /\ Old(p, g) \notin DOMAIN Env0 /\ Acc(p, g) \notin DOMAIN Env0
<1>1. Old(p, g)[2] = g /\ Old(p, g)[1] \in {"%sum", "%list"}
  BY DEF Old
<1>2. Acc(p, g)[1] \in {"__sum_acc", "__compr_acc", "__bool_acc"}
  <2>1. p[g].how \in {"sum", "any", "all", "list"}
    BY AccKinds
  <2> QED BY <2>1 DEF Acc
<1>3. \A x \in DOMAIN Env0 : x[1] \notin Helpers
  BY ProgramsAssumption
<1>4. {"%sum", "%list", "__sum_acc", "__compr_acc", "__bool_acc"} \subseteq Helpers
  BY DEF Helpers, ListHelpers, SumHelpers, BoolHelpers
<1> QED BY <1>1, <1>2, <1>3, <1>4

LEMMA FreshKnown ==
  ASSUME NEW p, NEW k, NEW i, NEW l \in Around(p, k), Fresh(p, l, k, i)
  PROVE  Old(p, p[l].of) \in Known(p, k, i)
<1>1. Each(p[l]) /\ Grows(p, p[l].of) /\ p[l].op = "for"
  BY DEF Fresh, Each
<1>2. CASE Filtered(p, l)
  BY <1>1, <1>2 DEF Fresh, Known, MadeByFilter, Filtering
<1>3. CASE ~ Filtered(p, l)
  <2>1. Old(p, p[l].of) \in Made(p, l)
    BY <1>1, <1>3 DEF Made, Reloads
  <2> QED BY <2>1 DEF Known, MadeAround
<1> QED BY <1>2, <1>3

(* A turn that is over has no old value.                                    *)
LEMMA NotFresh ==
  ASSUME NEW p, IsBody(p), NEW j \in 1 .. Len(p), Each(p[j]), NEW l, l \in 1 .. Len(p), Each(p[l]),
         p[l].of = p[j].of, NEW r, NEW n, l \in Around(p, r), Fresh(p, l, r, n),
         r = j \/ (r = End(p, j) /\ n # 1)
  PROVE  FALSE
<1>1. /\ p[j].of \in 1 .. Len(p) /\ p[p[j].of].op = "gather" /\ Innermost(p[j].of, Around(p, j))
      /\ Innermost(p[j].of, Around(p, l)) /\ p[j].op = "for" /\ Len(p) \in Nat /\ p[j].of \in Around(p, j)
  BY EachIs, BodyIs
<1>2. l \notin Around(p, j)
  <2> SUFFICES ASSUME l \in Around(p, j) PROVE FALSE
    OBVIOUS
  <2>1. l <= p[j].of
    BY <1>1 DEF Innermost
  <2>2. p[j].of \in Around(p, l) /\ l \in 1 .. Len(p) + 1
    BY <1>1 DEF Innermost
  <2>3. p[j].of < l
    <3> DEFINE g == p[j].of
    <3>1. g \in Around(p, l) /\ l \in 1 .. Len(p) + 1
      BY <2>2
    <3> HIDE DEF g
    <3>2. g < l
      BY <3>1, AroundUp
    <3> QED BY <3>2 DEF g
  <2> QED BY <1>1, <2>1, <2>3
<1>3. CASE r = j
  BY <1>2, <1>3
<1>4. CASE r = End(p, j) /\ n # 1
  <2>1. j \in 1 .. Len(p) + 1 /\ p[j].op \in Opens
    BY <1>1 DEF Opens
  <2>2. Around(p, End(p, j)) = Around(p, j) \cup {j}
    <3>1. LET e == End(p, j)
          IN e \in 1 .. Len(p) /\ p[e].op \in Closes /\ p[e].of = j
      <4>1. IsLoop(p[j])
        BY <1>1 DEF IsLoop
      <4> QED BY <4>1, LoopIs DEF Closing, Closes
    <3>2. j \in Around(p, End(p, j)) /\ End(p, j) \in 1 .. Len(p) + 1
      BY <3>1, OpenedIs DEF Innermost
    <3> QED BY <3>2, AroundUp
  <2>3. l = j
    BY <1>2, <1>4, <2>2
  <2>4. r < End(p, j)
    BY <1>4, <2>3 DEF Fresh
  <2>5. End(p, j) \in Nat
    <3>1. IsLoop(p[j])
      BY <1>1 DEF IsLoop
    <3>2. End(p, j) \in j + 1 .. Len(p)
      BY <3>1, LoopIs
    <3> QED BY <3>2
  <2> QED BY <1>4, <2>4, <2>5
<1> QED BY <1>3, <1>4

LEMMA FreshBefore ==
  ASSUME NEW p, NEW k, NEW i, NEW en, NEW h, NEW at2, NEW en2, NEW h2,
         Step(p, k, i, en, h, at2, en2, h2), at2[1] \in 1 .. Len(p),
         NEW l \in Around(p, at2[1]), Fresh(p, l, at2[1], at2[2]),
         Old(p, p[l].of) \notin Stored(D(p, k, i))
  PROVE  \E j \in Around(p, k) : Fresh(p, j, k, i) /\ p[j].of = p[l].of
<1>1. /\ IsBody(p) /\ Follows(p) /\ k \in 1 .. Len(p) /\ i \in 1 .. N(p, k) /\ Len(p) \in Nat /\ i \in Nat
      /\ at2 = <<Len(p) + 1, 1>> \/ Flows(p, k, i, at2)
  BY BodyIs, NIs DEF Step, Ready
<1> DEFINE r == at2[1]
           n == at2[2]
           g == p[l].of
<1>2. l \in 1 .. Len(p) /\ Each(p[l])
  <2>1. r \in 1 .. Len(p) + 1
    BY <1>1
  <2>2. l \in 1 .. Len(p)
    BY <1>1, <2>1, BoundUp
  <2> QED BY <2>2 DEF Fresh
<1>3. g \in 1 .. Len(p) /\ p[g].op = "gather"
  BY <1>1, <1>2, EachIs
<1>4. Old(p, g)[2] = g /\ Old(p, g) \notin DOMAIN Env0
  BY <1>1, <1>3, OldNames
<1>5. Old(p, g) \in Known(p, k, i)
  <2>1. Leads(p, k, i, at2)
    <3>1. at2 # <<Len(p) + 1, 1>>
      BY <1>1
    <3> QED BY <1>1, <3>1, FlowIs
  <2>2. Known(p, r, n) \subseteq Known(p, k, i) \cup Stored(D(p, k, i))
    BY <1>1, <2>1 DEF Leads
  <2>3. Old(p, g) \in Known(p, r, n)
    BY FreshKnown
  <2> QED BY <2>2, <2>3
<1>6. \A f : Old(p, f) = Old(p, g) => f = g
  BY <1>4 DEF Old
<1>7. CASE Old(p, g) \in MadeAround(p, k)
  <2>1. PICK j \in Around(p, k) : Old(p, g) \in Made(p, j)
    BY <1>7 DEF MadeAround
  <2>2. j \in 1 .. Len(p) /\ j < k /\ k <= End(p, j)
    <3>1. k \in 1 .. Len(p) + 1
      BY <1>1
    <3> QED BY <1>1, <2>1, <3>1, AroundUp
  <2>3. p[j].op = "for" /\ Reloads(p, j) /\ p[j].of = g
    <3>1. p[j].op = "gather" => Old(p, g) # Acc(p, j)
      <4>1. p[j].op = "gather" => Acc(p, j)[1] \in {"__sum_acc", "__compr_acc", "__bool_acc"}
        BY <1>1, <2>2, OldNames
      <4>2. Old(p, g)[1] \in {"%sum", "%list"}
        BY <1>1, <1>3, OldNames
      <4> QED BY <4>1, <4>2
    <3>2. p[j].op = "for" => /\ Old(p, g) \notin Targets(p, j) /\ Old(p, g) # IndexOf(p, j)
                             /\ \A m \in DOMAIN p[j].its : Old(p, g) # Holder(p, j, m)
      <4>1. k \in 1 .. Len(p) + 1
        BY <1>1
      <4>2. /\ p[j].op = "for" => /\ \A x \in Targets(p, j) : Named(x)
                                  /\ IndexOf(p, j)[1] \in LoopHelpers
                                  /\ \A m \in DOMAIN p[j].its : Holder(p, j, m)[1] \in LoopHelpers
            /\ Old(p, g)[1] \in GatherHelpers
            /\ \A x : x[1] \in LoopHelpers => x[1] \notin GatherHelpers
            /\ \A x : x[1] \in GatherHelpers => ~ Named(x)
        BY <1>1, <1>3, <2>2, <4>1, NameKinds
      <4> QED BY <4>2
    <3>3. p[j].op \in {"gather", "for"}
      BY <2>1 DEF Made
    <3>4. p[j].op = "for"
      BY <2>1, <3>1, <3>3 DEF Made
    <3>5. Reloads(p, j) /\ Old(p, g) = Old(p, p[j].of)
      BY <2>1, <3>2, <3>4 DEF Made
    <3> QED BY <1>6, <3>4, <3>5
  <2>4. Each(p[j]) /\ Grows(p, p[j].of) /\ ~ Filtered(p, j)
    BY <2>3 DEF Reloads
  <2>5. CASE k < End(p, j) \/ i = 1
    BY <2>1, <2>3, <2>4, <2>5 DEF Fresh
  <2>6. CASE ~ (k < End(p, j)) /\ i # 1
    <3>1. End(p, j) \in Nat /\ IsLoop(p[j]) /\ p[End(p, j)].of = j /\ Closing(p, End(p, j))
      <4>1. IsLoop(p[j])
        BY <2>3 DEF IsLoop
      <4>2. End(p, j) \in j + 1 .. Len(p) /\ Closing(p, End(p, j)) /\ p[End(p, j)].of = j
        BY <1>1, <2>2, <4>1, LoopIs
      <4> QED BY <2>2, <4>1, <4>2
    <3>2. k = End(p, j) /\ p[k].of = j /\ Closing(p, k)
      BY <1>1, <2>2, <2>6, <3>1
    <3>3. p[k].op = "yield" /\ Whole(p, k) = g
      BY <1>1, <2>3, <2>4, <3>2, ClosingOf DEF Whole
    <3>4. r = j \/ (r = k /\ n # 1)
      <4>1. Q(p, j) = 1
        BY <2>4 DEF Q, Grows
      <4>2. OfTurn(p, k, i)
        <5>1. i > Q(p, p[k].of)
          BY <1>1, <2>6, <3>2, <4>1
        <5> QED BY <1>1, <3>2, <5>1, TurnPlaces
      <4>3. (AtEnd(p, k, i) => at2 = <<j, W(p, j)>>) /\ (~ AtEnd(p, k, i) => at2 = <<k, i + 1>>)
        BY <3>2, <4>2, TurnGoes
      <4> QED BY <1>1, <2>6, <4>3
    <3>5. FALSE
      BY ONLY <1>1, <1>2, <2>2, <2>3, <2>4, <3>2, <3>4, NotFresh, l \in Around(p, r), Fresh(p, l, r, n)
    <3> QED BY <3>5
  <2> QED BY <2>5, <2>6
<1>8. CASE Old(p, g) \in MadeHere(p, k, i)
  <2>1. PICK m \in (1 .. i - 1) \ {W(p, k)} : p[k].op = "for" /\ D(p, k, m).x = Old(p, g)
    BY <1>8 DEF MadeHere
  <2>2. N(p, k) \in Nat /\ N(p, k) = H(p, k) + (IF Reloads(p, k) THEN 1 ELSE 0) /\ H(p, k) \in 2 .. 6
    BY <1>1, <2>1, NIs, WalkIs
  <2>3. m \in 1 .. N(p, k) /\ m <= H(p, k) /\ m # W(p, k)
    BY <1>1, <2>1, <2>2
  <2>4. Old(p, g) \in Stored(D(p, k, m))
    <3>1. Stored(D(p, k, m)) = {D(p, k, m).x}
      BY <1>1, <2>1, <2>3, MadeIs
    <3> QED BY <2>1, <3>1
  <2>5. Old(p, g) \notin OfLoop(p, k)
    <3>1. k \in 1 .. Len(p) + 1
      BY <1>1
    <3>2. /\ /\ \A x \in Targets(p, k) : Named(x)
             /\ IndexOf(p, k)[1] \in LoopHelpers
             /\ \A y \in DOMAIN p[k].its : Holder(p, k, y)[1] \in LoopHelpers
          /\ Old(p, g)[1] \in GatherHelpers
          /\ \A x : x[1] \in LoopHelpers => x[1] \notin GatherHelpers
          /\ \A x : x[1] \in GatherHelpers => ~ Named(x)
      BY <1>1, <1>3, <2>1, <3>1, NameKinds
    <3> QED BY <3>2 DEF OfLoop
  <2>6. Stores(p, k, m, Old(p, g))
    BY <1>1, <2>3, <2>4, StoresIs
  <2>7. ~ AtReload(p, k, m)
    BY <2>1, <2>2, <2>3 DEF AtReload
  <2>8. ~ Settles(p, k, m) /\ ~ Steps(p, k, m)
    <3>1. p[k].op = "for"
      BY <2>1
    <3> QED BY <3>1 DEF Settles, Steps, AtGain, AtKnown, Deciding, AtBump, AtCountUp, Turn, Closing
  <2> QED BY <2>1, <2>5, <2>6, <2>7, <2>8 DEF Stores
<1>9. CASE Old(p, g) \in MadeByFilter(p, k, i)
  <2>1. PICK j \in Around(p, k) : Filtering(p, j, k, i) /\ Old(p, p[j].of) = Old(p, g)
    BY <1>9 DEF MadeByFilter
  <2>2. p[j].of = g
    BY <1>6, <2>1
  <2>3. Fresh(p, j, k, i)
    BY <2>1 DEF Filtering, Fresh
  <2> QED BY <2>1, <2>2, <2>3
<1> QED BY <1>4, <1>5, <1>7, <1>8, <1>9 DEF Known

LEMMA LoopNames ==
  ASSUME NEW p, IsBody(p), NEW j \in 1 .. Len(p), p[j].op = "for", NEW x \in OfLoop(p, j)
  PROVE  x[1] \notin GatherHelpers
<1>1. 1 \in 1 .. Len(p) + 1
  BY BodyIs
<1>2. /\ \A y \in Targets(p, j) : Named(y)
      /\ IndexOf(p, j)[1] \in LoopHelpers
      /\ \A m \in DOMAIN p[j].its : Holder(p, j, m)[1] \in LoopHelpers
      /\ \A y : y[1] \in LoopHelpers => y[1] \notin GatherHelpers
      /\ \A y : y[1] \in GatherHelpers => ~ Named(y)
  BY <1>1, NameKinds
<1> QED BY <1>2 DEF OfLoop

LEMMA OldIsNewKept ==
  ASSUME NEW p, NEW k, NEW i, NEW en, NEW h, NEW at2, NEW en2, NEW h2,
         Step(p, k, i, en, h, at2, en2, h2)
  PROVE  OldIsNew(p, at2, en2)
<1>1. /\ IsBody(p) /\ Follows(p) /\ k \in 1 .. Len(p) /\ i \in 1 .. N(p, k) /\ Len(p) \in Nat /\ i \in Nat
      /\ Known(p, k, i) \subseteq DOMAIN en
  BY BodyIs, NIs DEF Step, Ready
<1> SUFFICES ASSUME at2[1] \in 1 .. Len(p), NEW l \in Around(p, at2[1]), Fresh(p, l, at2[1], at2[2])
             PROVE  en2[Old(p, p[l].of)] = en2[Acc(p, p[l].of)]
  BY DEF OldIsNew
<1> DEFINE g == p[l].of
<1>2. l \in 1 .. Len(p) /\ Each(p[l])
  <2>1. at2[1] \in 1 .. Len(p) + 1
    BY <1>1
  <2>2. l \in 1 .. Len(p)
    BY <1>1, <2>1, BoundUp
  <2> QED BY <2>2 DEF Fresh
<1>3. g \in 1 .. Len(p) /\ p[g].op = "gather" /\ Grows(p, g)
  BY <1>1, <1>2, EachIs DEF Fresh
<1>4. /\ Old(p, g)[2] = g /\ Old(p, g)[1] \in {"%sum", "%list"}
      /\ Acc(p, g)[1] \in {"__sum_acc", "__compr_acc", "__bool_acc"}
      /\ Old(p, g) \notin DOMAIN Env0 /\ Acc(p, g) \notin DOMAIN Env0
      /\ Old(p, g) # Acc(p, g)
  <2>1. /\ Old(p, g)[2] = g /\ Old(p, g)[1] \in {"%sum", "%list"}
        /\ Acc(p, g)[1] \in {"__sum_acc", "__compr_acc", "__bool_acc"}
        /\ Old(p, g) \notin DOMAIN Env0 /\ Acc(p, g) \notin DOMAIN Env0
    BY <1>1, <1>3, OldNames
  <2> QED BY <2>1
<1>5. \A f : Old(p, f) = Old(p, g) => f = g
  BY <1>4 DEF Old
<1>6. /\ \A j \in 1 .. Len(p) : p[j].op = "for" => Old(p, g) \notin OfLoop(p, j) /\ Acc(p, g) \notin OfLoop(p, j)
      /\ \A f \in 1 .. Len(p) : p[f].op = "gather" => Acc(p, f) # Old(p, g) /\ Old(p, f) # Acc(p, g)
  <2>1. Old(p, g)[1] \in GatherHelpers /\ Acc(p, g)[1] \in GatherHelpers
    BY <1>4 DEF GatherHelpers
  <2>2. \A j \in 1 .. Len(p) : p[j].op = "for" => Old(p, g) \notin OfLoop(p, j) /\ Acc(p, g) \notin OfLoop(p, j)
    BY <1>1, <2>1, LoopNames
  <2>3. \A f \in 1 .. Len(p) : p[f].op = "gather" =>
          Old(p, f)[1] \in {"%sum", "%list"} /\ Acc(p, f)[1] \in {"__sum_acc", "__compr_acc", "__bool_acc"}
    BY <1>1, OldNames
  <2> QED BY <1>4, <2>2, <2>3
<1>7. Steps(p, k, i) => p[k].of \in 1 .. Len(p) /\ p[p[k].of].op = "for"
  BY <1>1, StepsBehind
<1>8. Settles(p, k, i) => /\ p[k].op = "yield" /\ Whole(p, k) \in 1 .. Len(p) /\ p[Whole(p, k)].op = "gather"
                          /\ p[k].of \in 1 .. Len(p) /\ Each(p[p[k].of]) /\ k = End(p, p[k].of)
                          /\ Whole(p, k) = p[p[k].of].of
                          /\ Around(p, k) = Around(p, Whole(p, k)) \cup {Whole(p, k), p[k].of}
  BY <1>1, SettlesIs
<1>9. \A x : x \in Stored(D(p, k, i)) => Stores(p, k, i, x)
  BY <1>1, StoresIs
<1>10. CASE Old(p, g) \in Stored(D(p, k, i))
  <2>1. Stores(p, k, i, Old(p, g))
    BY <1>9, <1>10
  <2>2. AtReload(p, k, i) /\ g = (IF p[k].op = "for" THEN p[k].of ELSE Whole(p, k))
    BY <1>1, <1>4, <1>5, <1>6, <1>7, <1>8, <2>1 DEF Stores
  <2>3. en2 = With(en, Old(p, g), en[Acc(p, g)])
    BY <2>2, ReloadGoes
  <2>4. Acc(p, g) \in DOMAIN en
    <3>1. g \in Around(p, k)
      <4>1. p[k].op \in {"for", "filter"} /\ Reloads(p, k)
        BY <2>2 DEF AtReload
      <4>2. CASE p[k].op = "for"
        <5>1. Each(p[k]) /\ g = p[k].of
          BY <2>2, <4>1, <4>2 DEF Reloads
        <5> QED BY <1>1, <5>1, EachIs
      <4>3. CASE p[k].op = "filter"
        <5>1. p[k].of \in 1 .. Len(p) /\ Around(p, k) = Around(p, p[k].of) \cup {p[k].of}
          BY <1>1, <4>3, FilterIs
        <5>2. Each(p[p[k].of]) /\ g = p[p[k].of].of
          BY <2>2, <4>1, <4>3 DEF Reloads, Whole
        <5>3. g \in Around(p, p[k].of)
          BY <1>1, <5>1, <5>2, EachIs
        <5> QED BY <5>1, <5>3
      <4> QED BY <4>1, <4>2, <4>3
    <3>2. ReadsOf(p, g) \subseteq Known(p, k, i)
      BY <1>1, <1>3, <3>1, AroundReads
    <3> QED BY <1>1, <1>3, <3>2 DEF ReadsOf
  <2> QED BY <1>4, <2>3, <2>4 DEF With
<1>11. CASE Old(p, g) \notin Stored(D(p, k, i))
  <2>1. PICK j \in Around(p, k) : Fresh(p, j, k, i) /\ p[j].of = g
    BY <1>11, FreshBefore
  <2>2. j \in 1 .. Len(p) /\ Each(p[j]) /\ k \in 1 .. Len(p) + 1
    BY <1>1, <2>1, BoundUp DEF Fresh
  <2>3. g \in Around(p, j) /\ g \in Around(p, k)
    <3>1. g \in Around(p, j)
      BY <1>1, <2>1, <2>2, EachIs
    <3>2. Around(p, j) \subseteq Around(p, k)
      BY <1>1, <2>1, <2>2, AroundUp
    <3> QED BY <3>1, <3>2
  <2>4. en[Old(p, g)] = en[Acc(p, g)]
    <3> DEFINE at == <<k, i>>
    <3>1. at[1] = k /\ at[2] = i
      OBVIOUS
    <3>2. OldIsNew(p, at, en)
      BY DEF Step, Ready
    <3> HIDE DEF at
    <3> QED BY <1>1, <2>1, <3>1, <3>2 DEF OldIsNew
  <2>5. Acc(p, g) \notin Stored(D(p, k, i))
    <3> SUFFICES ASSUME Acc(p, g) \in Stored(D(p, k, i)) PROVE FALSE
      OBVIOUS
    <3>1. Stores(p, k, i, Acc(p, g))
      BY <1>9
    <3>2. \/ p[k].op = "gather" /\ Acc(p, k) = Acc(p, g)
          \/ Settles(p, k, i) /\ Acc(p, Whole(p, k)) = Acc(p, g)
      BY <1>1, <1>4, <1>6, <1>7, <3>1 DEF Stores
    <3>3. CASE p[k].op = "gather" /\ Acc(p, k) = Acc(p, g)
      BY <1>1, <1>3, <2>3, <3>3, AccsDiffer
    <3>4. CASE Settles(p, k, i) /\ Acc(p, Whole(p, k)) = Acc(p, g)
      <4>1. CASE Whole(p, k) = g
        <5>1. AtGain(p, k, i)
          BY <1>3, <3>4, <4>1 DEF Settles, AtKnown, Deciding
        <5>2. at2 = <<k, 2>>
          BY <5>1, GainGoes DEF OfGain
        <5>3. at2[1] = End(p, p[k].of) /\ at2[2] # 1
          BY <1>8, <3>4, <5>2
        <5>4. p[k].of \in 1 .. Len(p) /\ Each(p[p[k].of]) /\ p[l].of = p[p[k].of].of
          BY <1>8, <3>4, <4>1
        <5> QED BY ONLY <1>1, <1>2, <5>3, <5>4, NotFresh, l \in Around(p, at2[1]), Fresh(p, l, at2[1], at2[2])
      <4>2. CASE Whole(p, k) # g
        <5>1. j # p[k].of
          BY <1>8, <2>1, <3>4, <4>2
        <5>2. j # Whole(p, k)
          BY <1>8, <2>2, <3>4 DEF Each
        <5>3. j \in Around(p, Whole(p, k)) /\ Whole(p, k) \in 1 .. Len(p) /\ p[Whole(p, k)].op = "gather"
          BY <1>8, <2>1, <3>4, <5>1, <5>2
        <5>4. g \in Around(p, Whole(p, k))
          <6>1. Whole(p, k) \in 1 .. Len(p) + 1
            BY <1>1, <5>3
          <6>2. Around(p, j) \subseteq Around(p, Whole(p, k))
            BY <1>1, <5>3, <6>1, AroundUp
          <6> QED BY <2>3, <6>2
        <5> QED BY <1>1, <1>3, <3>4, <5>3, <5>4, AccsDiffer
      <4> QED BY <4>1, <4>2
    <3> QED BY <3>2, <3>3, <3>4
  <2>6. Old(p, g) \in Known(p, k, i) /\ Acc(p, g) \in Known(p, k, i)
    <3>1. Old(p, g) \in Known(p, k, i)
      BY <2>1, FreshKnown
    <3>2. ReadsOf(p, g) \subseteq Known(p, k, i)
      BY <1>1, <1>3, <2>3, AroundReads
    <3> QED BY <1>3, <3>1, <3>2 DEF ReadsOf
  <2>7. en2[Old(p, g)] = en[Old(p, g)] /\ en2[Acc(p, g)] = en[Acc(p, g)]
    BY <1>11, <2>5, <2>6, EnvKept
  <2> QED BY <2>4, <2>7
<1> QED BY <1>10, <1>11

-----------------------------------------------------------------------------
(* The lists that are gathered stay nobody else's. *)

(* The step makes the list of g a new one.                                  *)
Renews(p, k, i, g) ==
  \/ AtSingle(p, k, i) /\ p[k].op = "gather" /\ g = k
  \/ AtGain(p, k, i) /\ g = Whole(p, k)

LEMMA ListAccMoves ==
  ASSUME NEW p, NEW k, NEW i, NEW en, NEW h, NEW at2, NEW en2, NEW h2,
         Step(p, k, i, en, h, at2, en2, h2), NEW g \in ListAccs(p, PlaceAt(p, at2))
  PROVE  \/ Renews(p, k, i, g) /\ en2[Acc(p, g)] = Len(h) + 1
         \/ /\ en2[Acc(p, g)] = en[Acc(p, g)] /\ g \in ListAccs(p, PlaceAt(p, <<k, i>>))
            /\ ~ ListResult(p, k, i) \/ g # p[k].of
<1>1. IsBody(p) /\ k \in 1 .. Len(p) /\ i \in 1 .. N(p, k) /\ Len(p) \in Nat /\ i \in Nat
  BY BodyIs, NIs DEF Step, Ready
<1> DEFINE b  == PlaceAt(p, at2)
           at == <<k, i>>
<1>2. g \in Surround(p, b) /\ p[g].op = "gather" /\ p[g].how = "list"
  BY DEF ListAccs
<1>3. /\ g \in Going(p, at) \/ (g = k /\ AtSingle(p, k, i))
      /\ A(p, k, i) = End(p, g) => b = End(p, g)
  BY <1>2, StepReaches DEF Reaches
<1>4. CASE g = k /\ AtSingle(p, k, i)
  <2>1. en2 = With(en, Acc(p, k), Len(h) + 1)
    BY <1>2, <1>4, SingleGoes
  <2> QED BY <1>2, <1>4, <2>1 DEF Renews, With
<1>5. CASE g \in Going(p, at) /\ ~ (g = k /\ AtSingle(p, k, i))
  <2>1. g \in ListAccs(p, PlaceAt(p, at)) /\ g \in 1 .. Len(p)
    <3>1. g \in Around(p, A(p, k, i)) /\ g \in 1 .. Len(p)
      BY <1>1, <1>2, <1>5, GoingIs
    <3>2. PlaceAt(p, at) = A(p, k, i)
      BY <1>1, PlaceAtIs
    <3> HIDE DEF at
    <3> QED BY <1>2, <3>1, <3>2 DEF ListAccs, Surround
  <2>2. ~ ListResult(p, k, i) \/ g # p[k].of
    <3> SUFFICES ASSUME ListResult(p, k, i), g = p[k].of PROVE FALSE
      OBVIOUS
    <3>1. SingleMoves(p, k, i, en, h, at2) /\ AtSingle(p, k, i) /\ p[k].op = "result"
      BY SingleArrives DEF ListResult
    <3>2. Outside(p, at2, k + 1) /\ Surround(p, k + 1) = Surround(p, k) \ {p[k].of}
      BY <3>1 DEF SingleMoves
    <3> QED BY <1>2, <3>2 DEF Outside
  <2>3. CASE AtGain(p, k, i) /\ g = Whole(p, k)
    <3>1. en2 = With(en, Acc(p, g), Len(h) + 1)
      BY <1>2, <2>3, GainGoes DEF OfGain
    <3> QED BY <2>3, <3>1 DEF Renews, With
  <2>4. CASE ~ (AtGain(p, k, i) /\ g = Whole(p, k))
    <3>1. ~ Own(p, k, i, g)
      <4>1. ~ (Steps(p, k, i) /\ g = p[k].of)
        BY <1>1, <1>2, StepsBehind
      <4>2. ~ (AtKnown(p, k, i) /\ g = Whole(p, k))
        BY <1>2 DEF AtKnown, Deciding, Grows
      <4> QED BY <2>4, <4>1, <4>2 DEF Own, Settles
    <3>2. \A y \in ReadsOf(p, g) : en2[y] = en[y]
      BY <1>5, <3>1, StepKeeps
    <3> QED BY <1>2, <2>1, <2>2, <3>2 DEF ReadsOf
  <2> QED BY <2>3, <2>4
<1> QED BY <1>3, <1>4, <1>5

LEMMA ListAccsThere ==
  ASSUME NEW p, NEW k, NEW i, NEW en, NEW h, Ready(p, k, i, en, h), NEW g \in ListAccs(p, PlaceAt(p, <<k, i>>))
  PROVE  en[Acc(p, g)] \in DOMAIN h
<1>1. /\ IsBody(p) /\ k \in 1 .. Len(p) /\ i \in 1 .. N(p, k) /\ Fine(en, h)
      /\ Known(p, k, i) \subseteq DOMAIN en
  BY DEF Ready
<1> DEFINE at == <<k, i>>
<1>2. g \in Surround(p, PlaceAt(p, at)) /\ p[g].op = "gather" /\ p[g].how = "list"
  BY DEF ListAccs
<1>3. g \in Going(p, at)
  <2> HIDE DEF at
  <2> QED BY <1>2 DEF Going
<1>4. g \in 1 .. Len(p)
  BY <1>1, <1>3, GoingIs
<1>5. Acc(p, g) \in DOMAIN en
  <2>1. ReadsOf(p, g) \subseteq Known(p, k, i)
    BY <1>1, <1>3, ReadsKnown
  <2> QED BY <1>1, <1>2, <2>1 DEF ReadsOf
<1>6. Kind(Acc(p, g)) = "list"
  <2>1. Kind(Acc(p, g)) = Makes(p[g].how)
    BY <1>1, <1>2, <1>4, AccKinds
  <2> QED BY <1>2, <2>1 DEF Makes
<1> QED BY <1>1, <1>5, <1>6 DEF Fine, OfType

LEMMA ApartIs ==
  ASSUME NEW p, NEW k, NEW i, NEW en, NEW h, Ready(p, k, i, en, h), NEW g \in ListAccs(p, PlaceAt(p, <<k, i>>))
  PROVE  /\ en[Acc(p, g)] \notin DOMAIN Heap0
         /\ \A x \in Holders(p, <<k, i>>) : en[x] # en[Acc(p, g)]
         /\ \A o \in ListAccs(p, PlaceAt(p, <<k, i>>)) : o # g => en[Acc(p, o)] # en[Acc(p, g)]
<1> DEFINE at == <<k, i>>
<1>1. AccsApart(p, at, en) /\ g \in ListAccs(p, PlaceAt(p, at))
  BY DEF Ready
<1>2. /\ en[Acc(p, g)] \notin DOMAIN Heap0
      /\ \A x \in Holders(p, at) : en[x] # en[Acc(p, g)]
      /\ \A o \in ListAccs(p, PlaceAt(p, at)) : o # g => en[Acc(p, o)] # en[Acc(p, g)]
  <2> HIDE DEF at
  <2> QED BY <1>1 DEF AccsApart
<1> QED BY <1>2

(* What the result of a gathering's name and the others hold.               *)
LEMMA HandedAtResult ==
  ASSUME NEW p, NEW k, NEW i, NEW en, NEW h, NEW at2, NEW en2, NEW h2,
         Step(p, k, i, en, h, at2, en2, h2), ListResult(p, k, i), NEW x \in Holders(p, at2)
  PROVE  \/ en2[x] = en[Acc(p, p[k].of)] /\ p[k].of \in ListAccs(p, PlaceAt(p, <<k, i>>))
         \/ x \in Holders(p, <<k, i>>) /\ en2[x] = en[x]
<1>1. IsBody(p) /\ k \in 1 .. Len(p) /\ i \in 1 .. N(p, k) /\ Len(p) \in Nat /\ i \in Nat
  BY BodyIs, NIs DEF Step, Ready
<1> DEFINE g  == p[k].of
           at == <<k, i>>
<1>2. AtSingle(p, k, i) /\ p[k].op = "result" /\ p[g].how = "list"
  BY DEF ListResult
<1>3. en2 = With(en, p[k].x, en[Acc(p, g)])
  BY <1>2, SingleGoes
<1>4. SingleMoves(p, k, i, en, h, at2)
  BY <1>2, SingleArrives
<1>5. /\ Outside(p, at, k) /\ Outside(p, at2, k + 1)
      /\ Surround(p, k + 1) = Surround(p, k) \ {g} /\ g \in Surround(p, k) /\ p[g].op = "gather"
  BY <1>2, <1>4 DEF SingleMoves
<1>6. /\ PlaceAt(p, at) = k /\ Going(p, at) = Surround(p, k)
      /\ PlaceAt(p, at2) = k + 1 /\ Going(p, at2) = Surround(p, k + 1)
  BY <1>5, GoingOutside
<1>7. g \in ListAccs(p, PlaceAt(p, at))
  BY <1>2, <1>5, <1>6 DEF ListAccs
<1>8. Bound(p, k + 1) = Bound(p, k)
  <2>1. Surround(p, k) = Surround(p, k + 1) \cup {g}
    BY <1>5
  <2>2. Bound(p, k) = Bound(p, k + 1) \cup Targets(p, g)
    BY <1>5, <2>1, SurroundsBound
  <2>3. Targets(p, g) = {}
    BY <1>5 DEF Targets
  <2> QED BY <2>2, <2>3
<1>9. CASE x \in Bound(p, k + 1) /\ Kind(x) = "list"
  <2>1. x \in Holders(p, at)
    <3> HIDE DEF at
    <3> QED BY <1>6, <1>8, <1>9 DEF Holders
  <2>2. CASE x = p[k].x
    BY <1>3, <1>7, <2>2 DEF With
  <2>3. CASE x # p[k].x
    <3>1. x \in Bound(p, A(p, k, i))
      BY <1>2, <1>8, <1>9 DEF AtSingle
    <3>2. en2[x] = en[x]
      BY <2>3, <3>1, BoundKept
    <3> QED BY <2>1, <3>2
  <2> QED BY <2>2, <2>3
<1>10. CASE x \in UNION {{Holder(p, l, m) : m \in DOMAIN p[l].its} : l \in {j \in Going(p, at2) : Indexed(p, j)}}
  <2>1. PICK l \in Going(p, at2) : Indexed(p, l) /\ \E m \in DOMAIN p[l].its : x = Holder(p, l, m)
    BY <1>10
  <2>2. PICK m \in DOMAIN p[l].its : x = Holder(p, l, m)
    BY <2>1
  <2>3. l \in Going(p, at)
    BY <1>5, <1>6, <2>1
  <2>4. en2[x] = en[x]
    BY <2>1, <2>2, <2>3, HandedWalk
  <2>5. x \in Holders(p, at)
    <3> HIDE DEF at
    <3> QED BY <2>1, <2>2, <2>3 DEF Holders
  <2> QED BY <2>4, <2>5
<1> QED BY <1>6, <1>9, <1>10 DEF Holders

LEMMA AccsApartKept ==
  ASSUME NEW p, NEW k, NEW i, NEW en, NEW h, NEW at2, NEW en2, NEW h2,
         Step(p, k, i, en, h, at2, en2, h2)
  PROVE  AccsApart(p, at2, en2)
<1>1. /\ Ready(p, k, i, en, h) /\ Len(h) \in Nat /\ DOMAIN h = 1 .. Len(h)
      /\ DOMAIN Heap0 = 1 .. Len(Heap0) /\ Len(Heap0) \in Nat /\ Len(h) >= Len(Heap0)
  <2>1. h \in Seq(Seq(Int)) /\ Ready(p, k, i, en, h) /\ Len(h) >= Len(Heap0) /\ Heap0 \in Seq(Seq(Int))
    BY ProgramsAssumption DEF Step, Ready, Fine
  <2>2. \A s \in Seq(Seq(Int)) : Len(s) \in Nat /\ DOMAIN s = 1 .. Len(s)
    OBVIOUS
  <2> QED BY <2>1, <2>2
<1>2. p[k].op = "gather" => ~ AtGain(p, k, i)
  BY DEF AtGain
<1>3. \A g, o : Renews(p, k, i, g) /\ Renews(p, k, i, o) => g = o
  BY <1>2 DEF Renews
<1>4. ListResult(p, k, i) => \A g : ~ Renews(p, k, i, g)
  BY DEF ListResult, Renews, AtGain
<1>5. Len(h) + 1 \notin DOMAIN Heap0 /\ Len(h) + 1 \notin DOMAIN h
  BY <1>1
<1> DEFINE S  == ListAccs(p, PlaceAt(p, at2))
           T  == ListAccs(p, PlaceAt(p, <<k, i>>))
           HS == Holders(p, <<k, i>>)
<1>6. \A g \in S : \/ Renews(p, k, i, g) /\ en2[Acc(p, g)] = Len(h) + 1
                   \/ /\ en2[Acc(p, g)] = en[Acc(p, g)] /\ g \in T
                      /\ ~ ListResult(p, k, i) \/ g # p[k].of
  BY ListAccMoves
<1>7. \A g \in T : /\ en[Acc(p, g)] \in DOMAIN h /\ en[Acc(p, g)] \notin DOMAIN Heap0
                   /\ \A x \in HS : en[x] # en[Acc(p, g)]
                   /\ \A o \in T : o # g => en[Acc(p, o)] # en[Acc(p, g)]
  <2>1. ASSUME NEW g \in T PROVE en[Acc(p, g)] \in DOMAIN h
    BY <1>1, ListAccsThere
  <2>2. ASSUME NEW g \in T
        PROVE  /\ en[Acc(p, g)] \notin DOMAIN Heap0
               /\ \A x \in HS : en[x] # en[Acc(p, g)]
               /\ \A o \in T : o # g => en[Acc(p, o)] # en[Acc(p, g)]
    BY <1>1, ApartIs
  <2> QED BY <2>1, <2>2
<1>8. \A x \in HS : en[x] \in DOMAIN h
  BY <1>1, HoldersKnown
<1>9. \A x \in Holders(p, at2) :
        \/ ListResult(p, k, i) /\ en2[x] = en[Acc(p, p[k].of)] /\ p[k].of \in T
        \/ \E y \in HS : en2[x] = en[y]
  BY Handed, HandedAtResult
<1> HIDE DEF S, T, HS
<1>10. \A g \in S : en2[Acc(p, g)] \notin DOMAIN Heap0
  BY <1>5, <1>6, <1>7
<1>11. \A g \in S : \A x \in Holders(p, at2) : en2[x] # en2[Acc(p, g)]
  <2> SUFFICES ASSUME NEW g \in S, NEW x \in Holders(p, at2) PROVE en2[x] # en2[Acc(p, g)]
    OBVIOUS
  <2>1. CASE Renews(p, k, i, g) /\ en2[Acc(p, g)] = Len(h) + 1
    <3>1. en2[x] \in DOMAIN h
      BY <1>4, <1>8, <1>9, <2>1
    <3> QED BY <1>5, <2>1, <3>1
  <2>2. CASE en2[Acc(p, g)] = en[Acc(p, g)] /\ g \in T /\ (~ ListResult(p, k, i) \/ g # p[k].of)
    BY <1>7, <1>9, <2>2
  <2> QED BY <1>6, <2>1, <2>2
<1>12. \A g, o \in S : o # g => en2[Acc(p, o)] # en2[Acc(p, g)]
  BY <1>3, <1>5, <1>6, <1>7
<1> QED BY <1>10, <1>11, <1>12 DEF AccsApart, S

-----------------------------------------------------------------------------
(* The invariant of the refinement holds. *)

LEMMA StartFollows == Init => FollowInv
<1> SUFFICES ASSUME Init PROVE FollowInv
  OBVIOUS
<1>1. LoopInv
  BY InitInv
<1>2. IsBody(prog) /\ pc = <<1, 1>> /\ env = Env0 /\ heap = Heap0 /\ Len(prog) \in Nat
  BY <1>1, InvIs DEF Init
<1>3. Around(prog, 1) = {}
  BY <1>2, BodyIs, NestingIs DEF Around
<1>4. Surround(prog, 1) = {}
  BY <1>3 DEF Surround
<1>5. PlaceAt(prog, pc) = 1
  <2>1. 1 \in 1 .. Len(prog) + 1
    BY <1>2
  <2> QED BY <1>2, <2>1, Begins
<1>6. pc[1] = 1 /\ pc[2] = 1
  BY <1>2
<1>7. Prepared(prog, pc, env)
  <2>1. 1 .. pc[2] - 1 = {}
    BY <1>6
  <2>2. ~ (pc[2] > 1)
    BY <1>6
  <2> QED BY <2>1, <2>2 DEF Prepared
<1>8. Loading(prog, pc, env, heap)
  <2>1. \A k \in 1 .. Len(prog) : Indexed(prog, k) => ~ (1 > W(prog, k))
    <3> SUFFICES ASSUME NEW k \in 1 .. Len(prog), Indexed(prog, k) PROVE ~ (1 > W(prog, k))
      OBVIOUS
    <3>1. W(prog, k) \in 2 .. 4
      BY <1>2, WalkIs DEF Indexed
    <3> QED BY <3>1
  <2> QED BY <1>6, <2>1 DEF Loading
<1>9. OldIsNew(prog, pc, env)
  BY <1>3, <1>6 DEF OldIsNew
<1>10. AccsApart(prog, pc, env)
  BY <1>4, <1>5 DEF AccsApart, ListAccs
<1>11. Unknown(prog, pc, env)
  BY <1>4, <1>5 DEF Unknown
<1>12. FoundOut(prog, pc, env, heap)
  BY <1>6 DEF FoundOut, AtKnown
<1>13. Len(heap) >= Len(Heap0)
  <2>1. Len(Heap0) \in Nat
    BY ProgramsAssumption
  <2> QED BY <1>2, <2>1
<1> QED BY <1>1, <1>7, <1>8, <1>9, <1>10, <1>11, <1>12, <1>13 DEF FollowInv

LEMMA NextIsStep ==
  ASSUME FollowInv, Follows(prog), Next
  PROVE  /\ Step(prog, pc[1], pc[2], env, heap, pc', env', heap')
         /\ ~ Done /\ pc = <<pc[1], pc[2]>> /\ prog' = prog /\ LoopInv'
<1>1. LoopInv
  BY DEF FollowInv
<1>2. ~ Done /\ Updated /\ (pc' = <<Len(prog) + 1, 1>> \/ Flows(prog, pc[1], pc[2], pc'))
  BY <1>1, NextFlows
<1>3. /\ IsBody(prog) /\ pc = <<pc[1], pc[2]>> /\ pc[1] \in 1 .. Len(prog) /\ pc[2] \in 1 .. N(prog, pc[1])
      /\ Known(prog, pc[1], pc[2]) \subseteq DOMAIN env
  BY <1>1, <1>2, NowIs
<1>4. LoopInv' /\ prog' = prog
  BY <1>1, <1>2, NextInv DEF Updated
<1>5. InText(prog, pc') /\ Fine(env', heap') /\ HasKnown(prog, pc', env')
  <2>1. InText(prog', pc') /\ Fine(env', heap') /\ HasKnown(prog', pc', env')
    BY <1>4 DEF LoopInv
  <2> QED BY <1>4, <2>1
<1>6. Ready(prog, pc[1], pc[2], env, heap)
  <2> DEFINE at == <<pc[1], pc[2]>>
  <2>1. at = pc
    BY <1>3
  <2>2. /\ Prepared(prog, at, env) /\ Loading(prog, at, env, heap) /\ OldIsNew(prog, at, env)
        /\ AccsApart(prog, at, env) /\ Unknown(prog, at, env) /\ FoundOut(prog, at, env, heap)
    <3> HIDE DEF at
    <3> QED BY <2>1 DEF FollowInv
  <2>3. Fine(env, heap) /\ Len(heap) >= Len(Heap0)
    BY <1>1 DEF LoopInv, FollowInv
  <2> QED BY <1>3, <2>2, <2>3 DEF Ready
<1>7. Effect(prog, pc[1], pc[2], env, heap, pc', env', heap')
  BY <1>1, Acts
<1> QED BY <1>2, <1>3, <1>4, <1>5, <1>6, <1>7 DEF Step

LEMMA NextFollows ==
  ASSUME FollowInv, Follows(prog), Next
  PROVE  FollowInv'
<1>1. /\ Step(prog, pc[1], pc[2], env, heap, pc', env', heap')
      /\ prog' = prog /\ LoopInv'
  BY NextIsStep
<1>2. /\ Len(heap') >= Len(Heap0)
      /\ Prepared(prog, pc', env')
      /\ Loading(prog, pc', env', heap')
      /\ OldIsNew(prog, pc', env')
      /\ AccsApart(prog, pc', env')
      /\ Unknown(prog, pc', env')
      /\ FoundOut(prog, pc', env', heap')
  BY <1>1, HeapGrows, PreparedKept, LoadingKept, OldIsNewKept, AccsApartKept, UnknownKept, FoundOutKept
<1> QED BY <1>1, <1>2 DEF FollowInv

LEMMA StaysFollowed ==
  ASSUME FollowInv, UNCHANGED vars
  PROVE  FollowInv'
<1>1. prog' = prog /\ pc' = pc /\ env' = env /\ heap' = heap /\ code' = code
  BY DEF vars, fixed
<1>2. LoopInv'
  BY <1>1 DEF FollowInv, LoopInv, Looking
<1> QED BY <1>1, <1>2 DEF FollowInv

-----------------------------------------------------------------------------
(* Python's copies of the operators of the texts. *)

LEMMA Twins ==
  /\ \A f, x, v : Python!With(f, x, v) = With(f, x, v)
  /\ \A f, xs : Python!Without(f, xs) = Without(f, xs)
  /\ \A p, k : Python!Targets(p, k) = Targets(p, k)
  /\ \A p, k : Python!Else(p, k) = Else(p, k) /\ Python!Close(p, k) = Close(p, k)
  /\ \A h, e, it : Python!Held(h, e, it) = Held(h, e, it)
<1>1. \A f, x, v : Python!With(f, x, v) = With(f, x, v)
  BY DEF Python!With, With
<1>2. \A f, xs : Python!Without(f, xs) = Without(f, xs)
  BY DEF Python!Without, Without
<1>3. \A p, k : Python!Targets(p, k) = Targets(p, k)
  BY DEF Python!Targets, Targets, Python!ToSet, ToSet
<1>4. \A p, k : Python!Else(p, k) = Else(p, k) /\ Python!Close(p, k) = Close(p, k)
  BY DEF Python!Else, Else, Python!Close, Close
<1>5. \A h, e, it : Python!Held(h, e, it) = Held(h, e, it)
  <2>1. \A s : Python!ToSet(s) = ToSet(s)
    BY DEF Python!ToSet, ToSet
  <2>2. \A it : Python!IteratorLists(it) = IteratorLists(it)
    BY <2>1 DEF Python!IteratorLists, IteratorLists
  <2>3. \A e : Python!Lists(e) = Lists(e)
    BY DEF Python!Lists, Lists
  <2> QED BY <2>2, <2>3 DEF Python!Held, Held
<1> QED BY <1>1, <1>2, <1>3, <1>4, <1>5

LEMMA EvalTwins == \A e, en, h : Python!Eval(e, en, h) = Eval(e, en, h)
<1>1. \A e, en, h : Python!Number(e, en, h) = Number(e, en, h)
  BY DEF Python!Number, Number, Python!Atom, Atom
<1>2. \A e, en, h : Python!Comparison(e, en, h) = Comparison(e, en, h)
  BY <1>1 DEF Python!Comparison, Comparison
<1> QED BY <1>1, <1>2 DEF Python!Eval, Eval, Python!Comparisons, Comparisons

-----------------------------------------------------------------------------
(* What Python sees, before a step and after it. *)

PyHeap == Held(heap, Shown, Iterators)

LEMMA SeenNow ==
  LoopInv => /\ Place = PlaceAt(prog, pc) /\ Shown = EnvAt(prog, pc, env)
             /\ Iterators = ItersAt(prog, pc, env, heap) /\ PyHeap = HeldAt(prog, pc, env, heap)
BY MappedIs DEF Mapped, EnvAt, HeldAt, PyHeap

LEMMA SeenAfter ==
  ASSUME LoopInv', prog' = prog
  PROVE  /\ Place' = PlaceAt(prog, pc') /\ Shown' = EnvAt(prog, pc', env')
         /\ Iterators' = ItersAt(prog, pc', env', heap') /\ PyHeap' = HeldAt(prog, pc', env', heap')
<1>1. (LoopInv => /\ Place = PlaceAt(prog, pc) /\ Shown = EnvAt(prog, pc, env)
                  /\ Iterators = ItersAt(prog, pc, env, heap) /\ PyHeap = HeldAt(prog, pc, env, heap))'
  BY SeenNow, PTL
<1> QED BY <1>1

(* A step at the instruction i of the token k.                              *)
Stepping(k, i) ==
  /\ Step(prog, k, i, env, heap, pc', env', heap')
  /\ pc = <<k, i>> /\ prog' = prog /\ LoopInv /\ LoopInv'

LEMMA SteppingIs ==
  ASSUME FollowInv, Follows(prog), Next
  PROVE  Stepping(pc[1], pc[2])
BY NextIsStep DEF Stepping, FollowInv

LEMMA SeenAt ==
  ASSUME NEW k, NEW i, Stepping(k, i)
  PROVE  /\ Place = PlaceAt(prog, <<k, i>>) /\ Shown = EnvAt(prog, <<k, i>>, env)
         /\ Iterators = ItersAt(prog, <<k, i>>, env, heap) /\ PyHeap = HeldAt(prog, <<k, i>>, env, heap)
BY SeenNow DEF Stepping

LEMMA HeldAll ==
  ASSUME NEW h, NEW e, NEW it
  PROVE  Held(Held(h, e, it), e, it) = Held(h, e, it)
BY HeldIs, HeldAgain

LEMMA GoesSeen ==
  ASSUME NEW k, NEW i, Stepping(k, i), NEW X, NEW Y, NEW Z,
         Goes(prog, pc', env', heap', X, Y, Z)
  PROVE  Place' = X /\ Shown' = Y /\ Iterators' = Z
BY SeenAfter DEF Stepping, Goes

LEMMA GoesOn ==
  ASSUME NEW k, NEW i, Stepping(k, i), NEW X, NEW Y, NEW Z,
         Goes(prog, pc', env', heap', X, Y, Z),
         ~ ListResult(prog, k, i), D(prog, k, i).op # "append"
  PROVE  /\ Python!Go(X, Y, Z, PyHeap)
         /\ X = Place /\ Y = Shown /\ Z = Iterators => UNCHANGED Python!pyVars
<1>1. Place' = X /\ Shown' = Y /\ Iterators' = Z /\ prog' = prog
  BY GoesSeen DEF Stepping
<1>2. PyHeap' = Held(PyHeap, Y, Z)
  <2>1. Step(prog, k, i, env, heap, pc', env', heap')
    BY DEF Stepping
  <2>2. HeldAt(prog, pc', env', heap')
          = Held(HeldAt(prog, <<k, i>>, env, heap), ShownIn(prog, PlaceAt(prog, pc'), env'),
                 ItersAt(prog, pc', env', heap'))
    BY <2>1, HeldMoves
  <2>3. ShownIn(prog, PlaceAt(prog, pc'), env') = Y /\ ItersAt(prog, pc', env', heap') = Z
    BY DEF Goes, EnvAt
  <2>4. PyHeap' = HeldAt(prog, pc', env', heap') /\ PyHeap = HeldAt(prog, <<k, i>>, env, heap)
    BY SeenAt, SeenAfter DEF Stepping
  <2> QED BY <2>2, <2>3, <2>4
<1>3. Python!Go(X, Y, Z, PyHeap)
  BY <1>1, <1>2, Twins DEF Python!Go, PyHeap
<1>4. ASSUME X = Place, Y = Shown, Z = Iterators PROVE UNCHANGED Python!pyVars
  <2>1. PyHeap' = PyHeap
    BY <1>2, <1>4, HeldAll DEF PyHeap
  <2> QED BY <1>1, <1>4, <2>1 DEF Python!pyVars, PyHeap
<1> QED BY <1>3, <1>4

LEMMA GoesWith ==
  ASSUME NEW k, NEW i, Stepping(k, i), NEW X, NEW Y, NEW Z, NEW hh,
         Goes(prog, pc', env', heap', X, Y, Z), HeldAt(prog, pc', env', heap') = Held(hh, Y, Z)
  PROVE  Python!Go(X, Y, Z, hh)
<1>1. Place' = X /\ Shown' = Y /\ Iterators' = Z /\ prog' = prog
  BY GoesSeen DEF Stepping
<1>2. PyHeap' = Held(hh, Y, Z)
  BY SeenAfter DEF Stepping
<1> QED BY <1>1, <1>2, Twins DEF Python!Go, PyHeap

(* The token Python is at, and the value of an expression there.            *)
LEMMA PyAt ==
  ASSUME NEW k, NEW i, Stepping(k, i), A(prog, k, i) = k
  PROVE  /\ Place = k /\ k \in 1 .. Len(prog) /\ Python!Tok = prog[k] /\ Python!Op = prog[k].op
         /\ \A ops : prog[k].op \in ops => Python!Executes(ops)
         /\ \A e : Reads(e) \subseteq Bound(prog, k) /\ (\E type : HasType(e, type)) =>
              Python!Value(e) = Eval(e, env, heap)
<1>1. Ready(prog, k, i, env, heap) /\ IsBody(prog) /\ k \in 1 .. Len(prog) /\ i \in 1 .. N(prog, k)
  BY DEF Stepping, Step, Ready
<1>2. Place = k
  <2>1. PlaceAt(prog, <<k, i>>) = A(prog, k, i)
    BY <1>1, PlaceAtIs
  <2>2. Place = PlaceAt(prog, <<k, i>>)
    BY SeenAt
  <2> QED BY <2>1, <2>2
<1>3. Len(prog) \in Nat
  BY <1>1, BodyIs
<1>4. ASSUME NEW e, Reads(e) \subseteq Bound(prog, k), NEW type, HasType(e, type)
      PROVE  Python!Value(e) = Eval(e, env, heap)
  <2>1. Eval(e, EnvAt(prog, <<k, i>>, env), HeldAt(prog, <<k, i>>, env, heap)) = Eval(e, env, heap)
    BY <1>1, <1>4, SeenValue
  <2>2. Eval(e, Shown, PyHeap) = Eval(e, env, heap)
    BY <2>1, SeenAt
  <2> QED BY <2>2, EvalTwins DEF Python!Value, PyHeap
<1> QED BY <1>1, <1>2, <1>3, <1>4 DEF Python!Tok, Python!Op, Python!Executes

LEMMA TokenValue ==
  ASSUME NEW p, IsBody(p), NEW k \in 1 .. Len(p)
  PROVE  /\ p[k].op \in {"let", "append", "yield"} =>
              Reads(p[k].e) \subseteq Bound(p, k) /\ \E type : HasType(p[k].e, type)
         /\ p[k].op \in {"if", "while", "filter"} =>
              Reads(p[k].c) \subseteq Bound(p, k) /\ \E type : HasType(p[k].c, type)
<1>1. Typed(p, k) /\ Uses(p[k]) \subseteq Bound(p, k)
  BY BodyIs
<1> QED BY <1>1 DEF Typed, Uses

LEMMA HereIs ==
  ASSUME NEW k, NEW i, Stepping(k, i), A(prog, k, i) = k
  PROVE  /\ Place = k /\ Python!Tok = prog[k] /\ Python!Op = prog[k].op /\ Python!Executes({prog[k].op})
         /\ prog[k].op \in {"let", "append", "yield"} => Python!Value(prog[k].e) = Eval(prog[k].e, env, heap)
         /\ prog[k].op \in {"if", "while", "filter"} => Python!Value(prog[k].c) = Eval(prog[k].c, env, heap)
<1>1. /\ Place = k /\ k \in 1 .. Len(prog) /\ Python!Tok = prog[k] /\ Python!Op = prog[k].op
      /\ \A ops : prog[k].op \in ops => Python!Executes(ops)
      /\ \A e : Reads(e) \subseteq Bound(prog, k) /\ (\E type : HasType(e, type)) =>
           Python!Value(e) = Eval(e, env, heap)
  BY PyAt
<1>2. IsBody(prog)
  BY DEF Stepping, Step, Ready
<1>3. /\ prog[k].op \in {"let", "append", "yield"} =>
           Reads(prog[k].e) \subseteq Bound(prog, k) /\ \E type : HasType(prog[k].e, type)
      /\ prog[k].op \in {"if", "while", "filter"} =>
           Reads(prog[k].c) \subseteq Bound(prog, k) /\ \E type : HasType(prog[k].c, type)
  BY <1>1, <1>2, TokenValue
<1>4. Python!Executes({prog[k].op})
  BY <1>1
<1> QED BY <1>1, <1>3, <1>4

LEMMA ExecutesIs == ASSUME NEW ops, NEW op, Python!Executes({op}), op \in ops PROVE Python!Executes(ops)
BY DEF Python!Executes

-----------------------------------------------------------------------------
(* Every step is one of Python's, or none: the statements. *)

LEMMA Calm ==
  ASSUME NEW k, NEW i, Stepping(k, i), ~ (AtSingle(prog, k, i) /\ prog[k].op \in {"append", "result"})
  PROVE  ~ ListResult(prog, k, i) /\ D(prog, k, i).op # "append"
<1>1. IsBody(prog) /\ k \in 1 .. Len(prog) /\ i \in 1 .. N(prog, k)
  BY DEF Stepping, Step, Ready
<1> QED BY <1>1, AppendIs DEF ListResult

(* A step to X with the bindings Y and the iterators Z.                     *)
LEMMA Gone ==
  ASSUME NEW k, NEW i, Stepping(k, i), ~ (AtSingle(prog, k, i) /\ prog[k].op \in {"append", "result"}),
         NEW X, NEW Y, NEW Z, Goes(prog, pc', env', heap', X, Y, Z)
  PROVE  /\ Python!Go(X, Y, Z, PyHeap)
         /\ X = Place /\ Y = Shown /\ Z = Iterators => UNCHANGED Python!pyVars
BY Calm, GoesOn

LEMMA SingleSpot ==
  ASSUME NEW k, NEW i, Stepping(k, i), AtSingle(prog, k, i)
  PROVE  /\ Place = k /\ k \in 1 .. Len(prog) /\ IsBody(prog) /\ A(prog, k, i) = k /\ Python!Tok = prog[k]
         /\ Step(prog, k, i, env, heap, pc', env', heap')
         /\ Outside(prog, <<k, i>>, k)
<1>1. A(prog, k, i) = k
  BY DEF AtSingle
<1>2. Step(prog, k, i, env, heap, pc', env', heap')
  BY DEF Stepping
<1>3. SingleMoves(prog, k, i, env, heap, pc')
  BY <1>2, SingleArrives
<1> QED BY <1>1, <1>2, <1>3, PyAt DEF SingleMoves, Step, Ready

LEMMA ForgetIs ==
  \A l : /\ Python!Forget(l) = Without(Shown, Targets(prog, l))
         /\ Python!Leave(l) = Without(Iterators, {l})
BY Twins DEF Python!Forget, Python!Leave

LEMMA PythonLet ==
  ASSUME NEW k, NEW i, Stepping(k, i), AtSingle(prog, k, i), prog[k].op = "let"
  PROVE  Python!Let
<1>1. /\ Place = k /\ Python!Tok = prog[k] /\ Python!Executes({"let"})
      /\ Python!Value(prog[k].e) = Eval(prog[k].e, env, heap)
  <2>1. A(prog, k, i) = k
    BY SingleSpot
  <2>2. Place = k /\ Python!Tok = prog[k] /\ Python!Op = prog[k].op /\ Python!Executes({prog[k].op})
        /\ Python!Value(prog[k].e) = Eval(prog[k].e, env, heap)
    BY <2>1, HereIs
  <2>3. Python!Executes({"let"})
    BY <2>2, ExecutesIs
  <2> QED BY <2>2, <2>3
<1>2. Goes(prog, pc', env', heap', k + 1,
           With(EnvAt(prog, <<k, i>>, env), prog[k].x, Eval(prog[k].e, env, heap)), ItersAt(prog, <<k, i>>, env, heap))
  BY SingleSpot, SeenLet
<1>3. Goes(prog, pc', env', heap', Place + 1, With(Shown, prog[k].x, Python!Value(prog[k].e)), Iterators)
  BY <1>1, <1>2, SeenAt
<1>4. Python!Go(Place + 1, With(Shown, prog[k].x, Python!Value(prog[k].e)), Iterators, PyHeap)
  BY <1>3, Gone
<1> QED BY <1>1, <1>4, Twins DEF Python!Let, PyHeap

LEMMA PythonAppend ==
  ASSUME NEW k, NEW i, Stepping(k, i), AtSingle(prog, k, i), prog[k].op = "append"
  PROVE  Python!Append_
<1>1. /\ Place = k /\ Python!Tok = prog[k] /\ Python!Executes({"append"})
      /\ Python!Value(prog[k].e) = Eval(prog[k].e, env, heap)
  <2>1. A(prog, k, i) = k
    BY SingleSpot
  <2>2. Place = k /\ Python!Tok = prog[k] /\ Python!Op = prog[k].op /\ Python!Executes({prog[k].op})
        /\ Python!Value(prog[k].e) = Eval(prog[k].e, env, heap)
    BY <2>1, HereIs
  <2>3. Python!Executes({"append"})
    BY <2>2, ExecutesIs
  <2> QED BY <2>2, <2>3
<1> DEFINE e  == EnvAt(prog, <<k, i>>, env)
           it == ItersAt(prog, <<k, i>>, env, heap)
           hh == HeldAt(prog, <<k, i>>, env, heap)
           v  == Eval(prog[k].e, env, heap)
           r  == e[prog[k].l]
<1>2. /\ Goes(prog, pc', env', heap', k + 1, e, it)
      /\ HeldAt(prog, pc', env', heap') = Held(With(hh, r, Append(hh[r], v)), e, it)
  BY SingleSpot, SeenAppend
<1>3. e = Shown /\ it = Iterators /\ hh = PyHeap
  BY SeenAt
<1>4. Python!Go(k + 1, e, it, With(hh, r, Append(hh[r], v)))
  <2> HIDE DEF e, it, hh, v
  <2> QED BY <1>2, GoesWith
<1>5. v = Python!Value(prog[k].e)
  BY <1>1
<1> HIDE DEF e, it, hh, v
<1>6. Python!Go(Place + 1, Shown, Iterators,
                With(PyHeap, Shown[prog[k].l], Append(PyHeap[Shown[prog[k].l]], Python!Value(prog[k].e))))
  BY <1>1, <1>3, <1>4, <1>5
<1> QED BY <1>1, <1>6, Twins DEF Python!Append_, PyHeap

LEMMA PythonIf ==
  ASSUME NEW k, NEW i, Stepping(k, i), AtSingle(prog, k, i), prog[k].op = "if"
  PROVE  Python!Test
<1>1. /\ Place = k /\ Python!Tok = prog[k] /\ Python!Op = "if" /\ Python!Executes({"if", "while"})
      /\ Python!Value(prog[k].c) = Eval(prog[k].c, env, heap)
  BY SingleSpot, HereIs, ExecutesIs
<1> DEFINE b == IF Eval(prog[k].c, env, heap) THEN k + 1 ELSE Else(prog, k) + 1
<1>2. Outside(prog, pc', b) /\ Surround(prog, b) = Surround(prog, k)
  <2>1. SingleMoves(prog, k, i, env, heap, pc')
    BY SingleSpot, SingleArrives
  <2> QED BY <2>1 DEF SingleMoves
<1>3. Goes(prog, pc', env', heap', b, EnvAt(prog, <<k, i>>, env), ItersAt(prog, <<k, i>>, env, heap))
  <2>1. \A l : ~ Own(prog, k, i, l)
    BY NoneOwn
  <2> HIDE DEF b
  <2> QED BY <1>2, <2>1, SingleSpot, SeenOn
<1>4. Goes(prog, pc', env', heap', b, Shown, Iterators)
  BY <1>3, SeenAt
<1>5. Python!Go(b, Shown, Iterators, PyHeap)
  BY <1>4, Gone
<1>6. b = (IF Python!Value(prog[k].c) THEN k ELSE Python!Else(prog, k)) + 1
  BY <1>1, Twins
<1> HIDE DEF b
<1> QED BY <1>1, <1>5, <1>6 DEF Python!Test, PyHeap

LEMMA ElseOf ==
  ASSUME NEW p, IsBody(p), NEW k \in 1 .. Len(p), p[k].op = "else"
  PROVE  p[k].of \in 1 .. Len(p) /\ p[p[k].of].op = "if"
<1>1. Fits(p, k) /\ Len(p) \in Nat
  BY BodyIs
<1>2. Belongs(p, k) /\ p[p[k].of].op = "if"
  BY <1>1 DEF Fits, Each
<1>3. p[k].of \in Around(p, k) /\ k \in 1 .. Len(p) + 1
  BY <1>1, <1>2 DEF Belongs, Innermost
<1>4. p[k].of \in 1 .. Len(p)
  BY <1>3, BoundUp
<1> QED BY <1>2, <1>4

LEMMA PythonElse ==
  ASSUME NEW k, NEW i, Stepping(k, i), AtSingle(prog, k, i), prog[k].op = "else"
  PROVE  Python!Pass
<1>1. /\ Place = k /\ Python!Tok = prog[k] /\ Python!Op = "else" /\ Python!Executes({"else", "end"})
  <2>1. A(prog, k, i) = k
    BY SingleSpot
  <2>2. Place = k /\ Python!Tok = prog[k] /\ Python!Op = prog[k].op /\ Python!Executes({prog[k].op})
    BY <2>1, HereIs
  <2>3. Python!Executes({"else", "end"})
    BY <2>2, ExecutesIs
  <2> QED BY <2>2, <2>3
<1> DEFINE b == End(prog, prog[k].of)
<1>2. Outside(prog, pc', b) /\ Surround(prog, b) = Surround(prog, k)
  <2>1. SingleMoves(prog, k, i, env, heap, pc')
    BY SingleSpot, SingleArrives
  <2> QED BY <2>1 DEF SingleMoves
<1>3. Goes(prog, pc', env', heap', b, EnvAt(prog, <<k, i>>, env), ItersAt(prog, <<k, i>>, env, heap))
  <2>1. \A l : ~ Own(prog, k, i, l)
    BY NoneOwn
  <2> HIDE DEF b
  <2> QED BY <1>2, <2>1, SingleSpot, SeenOn
<1>4. Goes(prog, pc', env', heap', b, Shown, Iterators)
  BY <1>3, SeenAt
<1>5. Python!Go(b, Shown, Iterators, PyHeap)
  BY <1>4, Gone
<1>6. b = Python!Close(prog, prog[k].of)
  <2>1. prog[k].of \in 1 .. Len(prog) /\ prog[prog[k].of].op = "if"
    BY SingleSpot, ElseOf
  <2>2. Close(prog, prog[k].of) = b
    BY <2>1, SingleSpot, CloseIs DEF Opens
  <2> QED BY <2>2, Twins
<1> HIDE DEF b
<1> QED BY <1>1, <1>5, <1>6 DEF Python!Pass, PyHeap

(* Python is at the token k.                                                *)
LEMMA OnToken ==
  ASSUME NEW k, NEW i, Stepping(k, i), A(prog, k, i) = k, NEW ops, prog[k].op \in ops
  PROVE  /\ Place = k /\ Python!Tok = prog[k] /\ Python!Op = prog[k].op /\ Python!Executes(ops)
         /\ IsBody(prog) /\ k \in 1 .. Len(prog) /\ i \in 1 .. N(prog, k)
         /\ Step(prog, k, i, env, heap, pc', env', heap')
<1>1. Place = k /\ Python!Tok = prog[k] /\ Python!Op = prog[k].op /\ Python!Executes({prog[k].op})
  BY HereIs
<1>2. Python!Executes(ops)
  BY <1>1, ExecutesIs
<1>3. Step(prog, k, i, env, heap, pc', env', heap')
  BY DEF Stepping
<1> QED BY <1>1, <1>2, <1>3 DEF Step, Ready

LEMMA PythonBreak ==
  ASSUME NEW k, NEW i, Stepping(k, i), AtSingle(prog, k, i), prog[k].op = "break"
  PROVE  Python!Break
<1> DEFINE l == prog[k].of
<1>1. /\ Place = k /\ Python!Tok = prog[k] /\ Python!Executes({"break"})
      /\ IsBody(prog) /\ k \in 1 .. Len(prog) /\ Step(prog, k, i, env, heap, pc', env', heap')
  BY OnToken DEF AtSingle
<1>2. /\ l \in 1 .. Len(prog) /\ IsLoop(prog[l])
      /\ Surround(prog, k) = Surround(prog, l) \cup (IF prog[l].op = "for" THEN {l} ELSE {})
  BY <1>1, OutOf
<1>3. Surround(prog, End(prog, l) + 1) = Surround(prog, l)
  BY <1>1, <1>2, SurroundIs DEF IsLoop
<1>4. Outside(prog, <<k, i>>, k) /\ Outside(prog, pc', End(prog, l) + 1)
  <2>1. SingleMoves(prog, k, i, env, heap, pc')
    BY <1>1, SingleArrives
  <2> QED BY <2>1 DEF SingleMoves
<1>5. \A g : ~ Own(prog, k, i, g)
  BY NoneOwn
<1>6. Goes(prog, pc', env', heap', End(prog, l) + 1, Without(EnvAt(prog, <<k, i>>, env), Targets(prog, l)),
           Without(ItersAt(prog, <<k, i>>, env, heap), {l}))
  <2> HIDE DEF l
  <2> QED BY <1>1, <1>2, <1>3, <1>4, <1>5, SeenOut
<1>7. Goes(prog, pc', env', heap', End(prog, l) + 1, Python!Forget(l), Python!Leave(l))
  BY <1>6, SeenAt, ForgetIs
<1>8. Python!Go(End(prog, l) + 1, Python!Forget(l), Python!Leave(l), PyHeap)
  BY <1>7, Gone
<1>9. End(prog, l) = Python!Close(prog, l)
  <2>1. Close(prog, l) = End(prog, l)
    BY <1>1, <1>2, CloseIs DEF IsLoop, Opens
  <2> QED BY <2>1, Twins
<1> HIDE DEF l
<1>10. Python!Go(Python!Close(prog, l) + 1, Python!Forget(l), Python!Leave(l), PyHeap)
  BY <1>8, <1>9
<1>11. l = Python!Tok.of
  BY <1>1 DEF l
<1> QED BY <1>1, <1>10, <1>11 DEF Python!Break, PyHeap

LEMMA PythonContinue ==
  ASSUME NEW k, NEW i, Stepping(k, i), AtSingle(prog, k, i), prog[k].op = "continue"
  PROVE  Python!Continue
<1> DEFINE l == prog[k].of
<1>1. /\ Place = k /\ Python!Tok = prog[k] /\ Python!Executes({"continue"})
      /\ IsBody(prog) /\ k \in 1 .. Len(prog) /\ Step(prog, k, i, env, heap, pc', env', heap')
  BY OnToken DEF AtSingle
<1>2. /\ l \in 1 .. Len(prog) /\ IsLoop(prog[l])
      /\ Surround(prog, k) = Surround(prog, l) \cup (IF prog[l].op = "for" THEN {l} ELSE {})
  BY <1>1, OutOf
<1>3. Outside(prog, <<k, i>>, k) /\ Returned(prog, pc', l, TRUE, TRUE)
  <2>1. SingleMoves(prog, k, i, env, heap, pc')
    BY <1>1, SingleArrives
  <2> QED BY <2>1 DEF SingleMoves
<1>4. Back(prog, pc', l)
  BY <1>3, AtLoopIs
<1>5. \A g : ~ Own(prog, k, i, g)
  BY NoneOwn
<1>6. Goes(prog, pc', env', heap', l, Without(EnvAt(prog, <<k, i>>, env), Targets(prog, l)),
           ItersAt(prog, <<k, i>>, env, heap))
  <2> HIDE DEF l
  <2> QED BY <1>1, <1>2, <1>3, <1>4, <1>5, SeenBack
<1>7. Goes(prog, pc', env', heap', l, Python!Forget(l), Iterators)
  BY <1>6, SeenAt, ForgetIs
<1>8. Python!Go(l, Python!Forget(l), Iterators, PyHeap)
  BY <1>7, Gone
<1> HIDE DEF l
<1>9. l = Python!Tok.of
  BY <1>1 DEF l
<1> QED BY <1>1, <1>8, <1>9 DEF Python!Continue, PyHeap

LEMMA PythonReturn ==
  ASSUME NEW k, NEW i, Stepping(k, i), AtSingle(prog, k, i), prog[k].op = "return"
  PROVE  Python!Return
<1>1. /\ Place = k /\ Python!Executes({"return"}) /\ Step(prog, k, i, env, heap, pc', env', heap')
  BY OnToken DEF AtSingle
<1> DEFINE it == ItersAt(prog, <<k, i>>, env, heap)
           e  == Without(EnvAt(prog, <<k, i>>, env), UNION {Targets(prog, l) : l \in DOMAIN it})
           none == [l \in {} |-> 0]
<1>2. Goes(prog, pc', env', heap', Len(prog) + 1, e, none)
  BY <1>1, SeenReturn
<1>3. e = Python!Without(Shown, UNION {Python!Targets(prog, l) : l \in DOMAIN Iterators})
  BY SeenAt, Twins
<1>4. Python!Go(Len(prog) + 1, e, none, PyHeap)
  <2> HIDE DEF e, none
  <2> QED BY <1>2, Gone
<1>5. Python!Go(Len(prog) + 1, Python!Without(Shown, UNION {Python!Targets(prog, l) : l \in DOMAIN Iterators}),
                none, PyHeap)
  BY <1>3, <1>4
<1> QED BY <1>1, <1>5 DEF Python!Return, PyHeap

LEMMA PythonGather ==
  ASSUME NEW k, NEW i, Stepping(k, i), AtSingle(prog, k, i), prog[k].op = "gather"
  PROVE  Python!Gather
<1> DEFINE how == prog[k].how
<1>1. /\ Place = k /\ Python!Tok = prog[k] /\ Python!Executes({"gather"})
      /\ IsBody(prog) /\ k \in 1 .. Len(prog) /\ Step(prog, k, i, env, heap, pc', env', heap')
  BY OnToken DEF AtSingle
<1>2. Goes(prog, pc', env', heap', k + 1, EnvAt(prog, <<k, i>>, env),
           With(ItersAt(prog, <<k, i>>, env, heap), k, [of |-> <<>>, acc |-> NothingYet(how)]))
  BY <1>1, SeenGather
<1>3. Goes(prog, pc', env', heap', Place + 1, Shown, With(Iterators, Place, [of |-> <<>>, acc |-> NothingYet(how)]))
  BY <1>1, <1>2, SeenAt
<1>4. Python!Go(Place + 1, Shown, With(Iterators, Place, [of |-> <<>>, acc |-> NothingYet(how)]), PyHeap)
  BY <1>3, Gone
<1>5. NothingYet(how) = Python!Nothing(how)
  <2>1. how \in {"sum", "any", "all", "list"}
    <3>1. Typed(prog, k)
      BY <1>1, BodyIs
    <3> QED BY <3>1 DEF Typed
  <2> HIDE DEF how
  <2>2. CASE how = "sum"
    BY <2>2 DEF NothingYet, Python!Nothing
  <2>3. CASE how = "list"
    BY <2>3 DEF NothingYet, Python!Nothing
  <2>4. CASE how = "any"
    BY <2>4 DEF NothingYet, Python!Nothing
  <2>5. CASE how = "all"
    BY <2>5 DEF NothingYet, Python!Nothing
  <2> QED BY <2>1, <2>2, <2>3, <2>4, <2>5
<1>6. Python!Go(Place + 1, Shown, Python!With(Iterators, Place, [of |-> <<>>, acc |-> Python!Nothing(Python!Tok.how)]),
                PyHeap)
  BY <1>1, <1>4, <1>5, Twins
<1> QED BY <1>1, <1>6 DEF Python!Gather, PyHeap

LEMMA PythonListResult ==
  ASSUME NEW k, NEW i, Stepping(k, i), ListResult(prog, k, i)
  PROVE  Python!Result
<1> DEFINE g   == prog[k].of
           x   == prog[k].x
           new == env[Acc(prog, g)]
           e   == EnvAt(prog, <<k, i>>, env)
           it  == ItersAt(prog, <<k, i>>, env, heap)
           hh  == HeldAt(prog, <<k, i>>, env, heap)
<1>1. /\ Place = k /\ Python!Tok = prog[k] /\ Python!Executes({"result"})
      /\ AtSingle(prog, k, i) /\ prog[k].op = "result" /\ prog[g].how = "list"
      /\ Step(prog, k, i, env, heap, pc', env', heap')
  BY OnToken DEF AtSingle, ListResult
<1>2. /\ Goes(prog, pc', env', heap', k + 1, With(e, x, new), Without(it, {g}))
      /\ it[g] = GatherIn(prog, g, env, heap)
  BY <1>1, SeenResult
<1>3. /\ new \notin DOMAIN hh
      /\ HeldAt(prog, pc', env', heap')
           = Held(With(hh, new, heap[new]), EnvAt(prog, pc', env'), ItersAt(prog, pc', env', heap'))
  BY <1>1, SeenListResult
<1>4. it[g].acc = heap[new]
  BY <1>1, <1>2 DEF GatherIn
<1>5. EnvAt(prog, pc', env') = With(e, x, new) /\ ItersAt(prog, pc', env', heap') = Without(it, {g})
  BY <1>2 DEF Goes
<1>6. HeldAt(prog, pc', env', heap') = Held(With(hh, new, it[g].acc), With(e, x, new), Without(it, {g}))
  BY <1>3, <1>4, <1>5
<1>7. Shown' = With(e, x, new)
  BY <1>5, SeenAfter DEF Stepping
<1>8. e = Shown /\ it = Iterators /\ hh = PyHeap
  BY SeenAt
<1> HIDE DEF e, it, hh, new, x, g
<1>9. Python!Go(k + 1, With(e, x, new), Without(it, {g}), With(hh, new, it[g].acc))
  BY <1>2, <1>6, GoesWith
<1>10. new \in {Shown'[x]}
  <2>1. With(e, x, new)[x] = new
    BY DEF With
  <2> QED BY <1>7, <2>1
<1>11. Python!Go(Place + 1, Python!With(Shown, x, new), Python!Leave(g), Python!With(PyHeap, new, Iterators[g].acc))
  BY <1>1, <1>8, <1>9, Twins, ForgetIs
<1>12. new \notin DOMAIN PyHeap
  BY <1>3, <1>8
<1>13. x = Python!Tok.x /\ g = Python!Tok.of /\ prog[g].how = "list"
  BY <1>1 DEF x, g
<1>14. \E w \in {Shown'[Python!Tok.x]} :
         /\ w \notin DOMAIN PyHeap
         /\ Python!Go(Place + 1, Python!With(Shown, Python!Tok.x, w), Python!Leave(Python!Tok.of),
                      Python!With(PyHeap, w, Iterators[Python!Tok.of].acc))
  BY <1>10, <1>11, <1>12, <1>13
<1> QED BY <1>1, <1>13, <1>14 DEF Python!Result, PyHeap

LEMMA PythonResult ==
  ASSUME NEW k, NEW i, Stepping(k, i), AtSingle(prog, k, i), prog[k].op = "result"
  PROVE  Python!Result
<1> DEFINE g   == prog[k].of
           x   == prog[k].x
           v   == env[Acc(prog, g)]
           e   == EnvAt(prog, <<k, i>>, env)
           it  == ItersAt(prog, <<k, i>>, env, heap)
<1>1. CASE prog[g].how = "list"
  BY <1>1, PythonListResult DEF ListResult
<1>2. CASE prog[g].how # "list"
  <2>1. /\ Place = k /\ Python!Tok = prog[k] /\ Python!Executes({"result"})
        /\ IsBody(prog) /\ k \in 1 .. Len(prog) /\ i \in 1 .. N(prog, k)
        /\ Step(prog, k, i, env, heap, pc', env', heap')
    BY OnToken DEF AtSingle
  <2>2. /\ Goes(prog, pc', env', heap', k + 1, With(e, x, v), Without(it, {g}))
        /\ it[g] = GatherIn(prog, g, env, heap)
    BY <2>1, SeenResult
  <2>3. it[g].acc = v
    BY <1>2, <2>2 DEF GatherIn
  <2>4. e = Shown /\ it = Iterators
    BY SeenAt
  <2>5. ~ ListResult(prog, k, i) /\ D(prog, k, i).op # "append"
    BY <1>2, <2>1, AppendIs DEF ListResult
  <2> HIDE DEF e, it, v, x, g
  <2>6. Python!Go(k + 1, With(e, x, v), Without(it, {g}), PyHeap)
    BY <2>2, <2>5, GoesOn
  <2>7. x = Python!Tok.x /\ g = Python!Tok.of /\ prog[g].how # "list"
    BY <1>2, <2>1 DEF x, g
  <2>8. Python!Go(Place + 1, Python!With(Shown, Python!Tok.x, Iterators[Python!Tok.of].acc),
                  Python!Leave(Python!Tok.of), PyHeap)
    BY <2>1, <2>3, <2>4, <2>6, <2>7, Twins, ForgetIs
  <2> QED BY <2>1, <2>7, <2>8 DEF Python!Result, PyHeap
<1> QED BY <1>1, <1>2

LEMMA PythonSingle ==
  ASSUME NEW k, NEW i, Stepping(k, i), AtSingle(prog, k, i)
  PROVE  Python!Next
<1>1. prog[k].op \in {"let", "append", "if", "else", "gather", "result", "break", "continue", "return"}
  <2>1. Step(prog, k, i, env, heap, pc', env', heap')
    BY DEF Stepping
  <2> QED BY <2>1, SingleGoes
<1> QED BY <1>1, PythonLet, PythonAppend, PythonIf, PythonElse, PythonGather, PythonResult, PythonBreak,
           PythonContinue, PythonReturn DEF Python!Next

-----------------------------------------------------------------------------
(* The condition of a while, the merge of an if, and a filter.              *)

LEMMA PythonWhile ==
  ASSUME NEW k, NEW i, Stepping(k, i), prog[k].op = "while", AtWhile(prog, k, i)
  PROVE  Python!Test
<1>1. /\ Place = k /\ Python!Tok = prog[k] /\ Python!Op = "while" /\ Python!Executes({"if", "while"})
      /\ IsBody(prog) /\ k \in 1 .. Len(prog) /\ Step(prog, k, i, env, heap, pc', env', heap')
  BY OnToken DEF AtWhile
<1>2. Python!Value(prog[k].c) = Eval(prog[k].c, env, heap)
  BY HereIs DEF AtWhile
<1> DEFINE b == IF Eval(prog[k].c, env, heap) THEN k + 1 ELSE End(prog, k) + 1
<1>3. Outside(prog, <<k, i>>, k) /\ Outside(prog, pc', b) /\ Surround(prog, b) = Surround(prog, k)
  BY <1>1, WhileArrives
<1>4. \A l : ~ Own(prog, k, i, l)
  BY NoneOwn
<1>5. ~ AtSingle(prog, k, i)
  BY DEF AtSingle
<1>6. Goes(prog, pc', env', heap', b, EnvAt(prog, <<k, i>>, env), ItersAt(prog, <<k, i>>, env, heap))
  <2> HIDE DEF b
  <2> QED BY <1>1, <1>3, <1>4, <1>5, SeenOn
<1>7. Goes(prog, pc', env', heap', b, Shown, Iterators)
  BY <1>6, SeenAt
<1>8. Python!Go(b, Shown, Iterators, PyHeap)
  BY <1>5, <1>7, Gone
<1>9. Close(prog, k) = End(prog, k)
  BY <1>1, CloseIs DEF Opens
<1>10. b = (IF Python!Value(prog[k].c) THEN k ELSE Python!Close(prog, k)) + 1
  BY <1>2, <1>9, Twins
<1> HIDE DEF b
<1> QED BY <1>1, <1>8, <1>10 DEF Python!Test, PyHeap

LEMMA NoTargets == ASSUME NEW p, NEW l, p[l].op = "if" PROVE Targets(p, l) = {} /\ \A e : Without(e, {}) = [y \in DOMAIN e |-> e[y]]
BY DEF Targets, Without

LEMMA PythonJoin ==
  ASSUME NEW k, NEW i, Stepping(k, i), AtJoin(prog, k, i)
  PROVE  Python!Pass
<1> DEFINE l == prog[k].of
<1>1. /\ Place = k /\ Python!Tok = prog[k] /\ Python!Op = "end" /\ Python!Executes({"else", "end"})
      /\ Step(prog, k, i, env, heap, pc', env', heap')
  BY OnToken DEF AtJoin
<1>2. /\ Outside(prog, <<k, i>>, k) /\ Outside(prog, pc', k + 1) /\ Surround(prog, k + 1) = Surround(prog, k)
      /\ prog[l].op = "if"
  BY <1>1, JoinArrives
<1>3. ~ AtSingle(prog, k, i)
  BY DEF AtSingle, AtJoin, Single
<1>4. \A g : ~ Own(prog, k, i, g)
  BY <1>2 DEF Own, Settles, Steps, AtJoin, AtGain, AtKnown, AtTest, AtBump, AtCountUp
<1>5. Goes(prog, pc', env', heap', k + 1, EnvAt(prog, <<k, i>>, env), ItersAt(prog, <<k, i>>, env, heap))
  BY <1>1, <1>2, <1>3, <1>4, SeenOn
<1>6. Goes(prog, pc', env', heap', k + 1, Shown, Iterators)
  BY <1>5, SeenAt
<1>7. Python!Go(k + 1, Shown, Iterators, PyHeap)
  BY <1>3, <1>6, Gone
<1>8. Python!Forget(l) = Shown
  <2>1. Targets(prog, l) = {}
    BY <1>2, NoTargets
  <2>2. Shown = EnvAt(prog, <<k, i>>, env)
    BY SeenAt
  <2> QED BY <2>1, <2>2, ForgetIs DEF Without, EnvAt, ShownIn
<1>9. l = Python!Tok.of
  BY <1>1
<1> HIDE DEF l
<1>10. Python!Go(IF prog[Python!Tok.of].op = "if" THEN Place + 1 ELSE Python!Tok.of, Python!Forget(Python!Tok.of),
                 Iterators, PyHeap)
  BY <1>1, <1>2, <1>7, <1>8, <1>9
<1> QED BY <1>1, <1>10 DEF Python!Pass, PyHeap

LEMMA PythonFilter ==
  ASSUME NEW k, NEW i, Stepping(k, i), AtFilter(prog, k, i)
  PROVE  Python!Filter
<1> DEFINE l == prog[k].of
           c == Eval(prog[k].c, env, heap)
<1>1. /\ Place = k /\ Python!Tok = prog[k] /\ Python!Executes({"filter"})
      /\ IsBody(prog) /\ k \in 1 .. Len(prog) /\ Step(prog, k, i, env, heap, pc', env', heap')
  BY OnToken DEF AtFilter
<1>2. Python!Value(prog[k].c) = c
  BY HereIs DEF AtFilter
<1>3. /\ Outside(prog, <<k, i>>, k)
      /\ c => Outside(prog, pc', k + 1) /\ Surround(prog, k + 1) = Surround(prog, k)
      /\ ~ c => AtLoop(prog, pc', l, TRUE, TRUE)
      /\ Surround(prog, l) = Surround(prog, k) \ {l} /\ l \in Surround(prog, k)
      /\ l \in 1 .. Len(prog) /\ prog[l].op = "for"
  BY <1>1, FilterArrives
<1>4. \A g : ~ Own(prog, k, i, g)
  BY NoneOwn DEF AtFilter
<1>5. ~ AtSingle(prog, k, i)
  BY DEF AtSingle, AtFilter, Single
<1> HIDE DEF c, l
<1>6. CASE c
  <2>1. Goes(prog, pc', env', heap', k + 1, EnvAt(prog, <<k, i>>, env), ItersAt(prog, <<k, i>>, env, heap))
    BY <1>1, <1>3, <1>4, <1>5, <1>6, SeenOn
  <2>2. Goes(prog, pc', env', heap', k + 1, Shown, Iterators)
    BY <2>1, SeenAt
  <2>3. Python!Go(Place + 1, Shown, Iterators, PyHeap)
    BY <1>1, <1>5, <2>2, Gone
  <2> QED BY <1>1, <1>2, <1>6, <2>3 DEF Python!Filter, PyHeap
<1>7. CASE ~ c
  <2>1. Back(prog, pc', l)
    BY <1>3, <1>7, AtLoopIs DEF Back
  <2>2. Surround(prog, k) = Surround(prog, l) \cup (IF prog[l].op = "for" THEN {l} ELSE {})
    BY <1>3
  <2>3. Goes(prog, pc', env', heap', l, Without(EnvAt(prog, <<k, i>>, env), Targets(prog, l)),
             ItersAt(prog, <<k, i>>, env, heap))
    BY <1>1, <1>3, <1>4, <1>5, <2>1, <2>2, SeenBack
  <2>4. Goes(prog, pc', env', heap', l, Python!Forget(l), Iterators)
    BY <2>3, SeenAt, ForgetIs
  <2>5. Python!Go(l, Python!Forget(l), Iterators, PyHeap)
    BY <1>5, <2>4, Gone
  <2>6. l = Python!Tok.of
    BY <1>1 DEF l
  <2> QED BY <1>1, <1>2, <1>7, <2>5, <2>6 DEF Python!Filter, PyHeap
<1> QED BY <1>6, <1>7

LEMMA PythonReload ==
  ASSUME NEW k, NEW i, Stepping(k, i), AtReload(prog, k, i)
  PROVE  UNCHANGED Python!pyVars
<1>1. Step(prog, k, i, env, heap, pc', env', heap')
  BY DEF Stepping
<1>2. Outside(prog, <<k, i>>, k + 1) /\ Outside(prog, pc', k + 1)
  BY <1>1, ReloadArrives
<1>3. ~ AtSingle(prog, k, i)
  BY DEF AtSingle, AtReload, Single
<1>4. \A g : ~ Own(prog, k, i, g)
  BY NoneOwn DEF AtReload
<1>5. Goes(prog, pc', env', heap', k + 1, EnvAt(prog, <<k, i>>, env), ItersAt(prog, <<k, i>>, env, heap))
  BY <1>1, <1>2, <1>3, <1>4, SeenOn
<1>6. Goes(prog, pc', env', heap', k + 1, Shown, Iterators)
  BY <1>5, SeenAt
<1>7. Place = k + 1
  <2>1. Place = PlaceAt(prog, <<k, i>>)
    BY SeenAt
  <2> QED BY <1>2, <2>1, GoingOutside
<1> QED BY <1>3, <1>6, <1>7, Gone

-----------------------------------------------------------------------------
(* Every step is one of Python's, or none: gathering. *)

Decides(how, v) == (how = "any" /\ v) \/ (how = "all" /\ ~ v)

LEMMA YieldHere ==
  ASSUME NEW k, NEW i, Stepping(k, i), prog[k].op = "yield", A(prog, k, i) = k
  PROVE  LET g == Whole(prog, k)
             v == Eval(prog[k].e, env, heap)
         IN  /\ Place = k /\ Python!Tok = prog[k] /\ Python!Executes({"yield"}) /\ Python!Value(prog[k].e) = v
             /\ prog[g].how \in {"sum", "any", "all", "list"}
             /\ ~ Grows(prog, g) => v \in BOOLEAN
             /\ Step(prog, k, i, env, heap, pc', env', heap')
<1> DEFINE g == Whole(prog, k)
           v == Eval(prog[k].e, env, heap)
<1>1. /\ Place = k /\ Python!Tok = prog[k] /\ Python!Executes({"yield"})
      /\ IsBody(prog) /\ k \in 1 .. Len(prog) /\ i \in 1 .. N(prog, k)
      /\ Step(prog, k, i, env, heap, pc', env', heap')
  BY OnToken
<1>2. Python!Value(prog[k].e) = v
  BY HereIs
<1>3. prog[g].how \in {"sum", "any", "all", "list"}
  BY <1>1, YieldIs DEF Whole
<1>4. ASSUME ~ Grows(prog, g) PROVE v \in BOOLEAN
  <2>1. Fine(env, heap) /\ Known(prog, k, i) \subseteq DOMAIN env
    BY <1>1 DEF Step, Ready
  <2>2. prog[g].how \in {"any", "all"}
    BY <1>3, <1>4 DEF Grows
  <2>3. HasType(prog[k].e, "bool") /\ Reads(prog[k].e) \subseteq Bound(prog, k)
    <3>1. Typed(prog, k) /\ Uses(prog[k]) \subseteq Bound(prog, k)
      BY <1>1, BodyIs
    <3> QED BY <2>2, <3>1 DEF Typed, Uses, Yields, Whole
  <2>4. Bound(prog, k) \subseteq DOMAIN env
    BY <1>1, <2>1, ReadsKnown
  <2>5. OfType(v, "bool", heap)
    BY <2>1, <2>3, <2>4, EvalTyped
  <2> QED BY <2>5 DEF OfType
<1> QED BY <1>1, <1>2, <1>3, <1>4

(* The yield, packed up.                                                    *)
LEMMA YieldPacked ==
  ASSUME NEW k, NEW i, Stepping(k, i), prog[k].op = "yield", A(prog, k, i) = k,
         NEW l, l = prog[k].of, NEW g, g = Whole(prog, k), NEW how, how = prog[g].how,
         NEW v, v = Eval(prog[k].e, env, heap), NEW acc, acc = Python!Gained(how, Iterators[g].acc, v),
         NEW new, new = With(Iterators, g, [of |-> <<>>, acc |-> acc]),
         \/ Decides(how, v) /\ Python!Go(k + 1, Python!Forget(l), Without(new, {l}), PyHeap)
         \/ ~ Decides(how, v) /\ Python!Go(l, Python!Forget(l), new, PyHeap)
  PROVE  Python!Yield
<1>1. /\ Place = k /\ Python!Tok = prog[k] /\ Python!Executes({"yield"}) /\ Python!Value(prog[k].e) = v
  BY YieldHere
<1>2. /\ l = Python!Tok.of /\ g = prog[Python!Tok.of].of /\ how = prog[prog[Python!Tok.of].of].how
      /\ v = Python!Value(Python!Tok.e)
  BY <1>1 DEF Whole
<1>3. new = Python!With(Iterators, g, [of |-> <<>>, acc |-> Python!Gained(how, Iterators[g].acc, v)])
  BY Twins
<1>4. CASE Decides(how, v) /\ Python!Go(k + 1, Python!Forget(l), Without(new, {l}), PyHeap)
  <2>1. Python!Go(Place + 1, Python!Forget(l), Python!Without(new, {l}), PyHeap)
    BY <1>1, <1>4, Twins
  <2>2. (how = "any" /\ v) \/ (how = "all" /\ ~ v)
    BY <1>4 DEF Decides
  <2> QED BY <1>1, <1>2, <1>3, <2>1, <2>2 DEF Python!Yield, PyHeap
<1>5. CASE ~ Decides(how, v) /\ Python!Go(l, Python!Forget(l), new, PyHeap)
  <2>1. ~ ((how = "any" /\ v) \/ (how = "all" /\ ~ v))
    BY <1>5 DEF Decides
  <2> QED BY <1>1, <1>2, <1>3, <1>5, <2>1 DEF Python!Yield, PyHeap
<1> QED BY <1>4, <1>5

LEMMA PythonGain ==
  ASSUME NEW k, NEW i, Stepping(k, i), AtGain(prog, k, i)
  PROVE  Python!Yield
<1> DEFINE l   == prog[k].of
           g   == Whole(prog, k)
           how == prog[g].how
           v   == Eval(prog[k].e, env, heap)
           acc == More_(how, Iterators[g].acc, v)
           new == With(Iterators, g, [of |-> <<>>, acc |-> acc])
<1>1. /\ prog[k].op = "yield" /\ A(prog, k, i) = k /\ how \in {"sum", "list"}
      /\ Step(prog, k, i, env, heap, pc', env', heap')
  BY DEF AtGain, Grows, Stepping
<1>2. Goes(prog, pc', env', heap', l, Without(EnvAt(prog, <<k, i>>, env), Targets(prog, l)),
           With(ItersAt(prog, <<k, i>>, env, heap), g,
                [of |-> <<>>, acc |-> More_(how, ItersAt(prog, <<k, i>>, env, heap)[g].acc, v)]))
  BY <1>1, SeenGain
<1>3. Goes(prog, pc', env', heap', l, Python!Forget(l), new)
  BY <1>2, SeenAt, ForgetIs
<1> HIDE DEF l, v
<1>4. Python!Go(l, Python!Forget(l), new, PyHeap)
  <2>1. ~ AtSingle(prog, k, i)
    BY <1>1 DEF AtSingle, Single
  <2> HIDE DEF new
  <2> QED BY <1>3, <2>1, Gone
<1>5. ~ Decides(how, v)
  BY <1>1 DEF Decides
<1>6. acc = Python!Gained(how, Iterators[g].acc, v)
  <2> HIDE DEF how
  <2>1. CASE how = "sum"
    BY <2>1 DEF More_, Python!Gained
  <2>2. CASE how = "list"
    BY <2>2 DEF More_, Python!Gained
  <2> QED BY <1>1, <2>1, <2>2
<1>7. l = prog[k].of /\ v = Eval(prog[k].e, env, heap)
  BY DEF l, v
<1> HIDE DEF g, how, acc
<1>8. g = Whole(prog, k) /\ how = prog[g].how
  BY DEF g, how
<1>9. new = With(Iterators, g, [of |-> <<>>, acc |-> acc])
  OBVIOUS
<1> HIDE DEF new
<1> QED BY <1>1, <1>4, <1>5, <1>6, <1>7, <1>8, <1>9, YieldPacked

LEMMA PythonKnown ==
  ASSUME NEW k, NEW i, Stepping(k, i), AtKnown(prog, k, i)
  PROVE  Python!Yield
<1> DEFINE l   == prog[k].of
           g   == Whole(prog, k)
           how == prog[g].how
           v   == Eval(prog[k].e, env, heap)
           new == With(Iterators, g, [of |-> <<>>, acc |-> v])
<1>1. /\ prog[k].op = "yield" /\ A(prog, k, i) = k /\ ~ Grows(prog, g)
      /\ Step(prog, k, i, env, heap, pc', env', heap')
  BY DEF AtKnown, Deciding, Stepping
<1>2. /\ v = AnyOf(prog, k)
      /\ Goes(prog, pc', env', heap', k + 1, Without(EnvAt(prog, <<k, i>>, env), Targets(prog, l)),
              Without(With(ItersAt(prog, <<k, i>>, env, heap), g, [of |-> <<>>, acc |-> v]), {l}))
  BY <1>1, SeenKnown
<1>3. Goes(prog, pc', env', heap', k + 1, Python!Forget(l), Without(new, {l}))
  BY <1>2, SeenAt, ForgetIs
<1>4. how \in {"any", "all"} /\ v \in BOOLEAN
  BY <1>1, YieldHere DEF Grows
<1>5. v <=> how = "any"
  BY <1>2 DEF AnyOf
<1> HIDE DEF l, v
<1>6. Python!Go(k + 1, Python!Forget(l), Without(new, {l}), PyHeap)
  <2>1. ~ AtSingle(prog, k, i)
    BY <1>1 DEF AtSingle, Single
  <2> HIDE DEF new
  <2> QED BY <1>3, <2>1, Gone
<1> HIDE DEF how
<1>7. Decides(how, v)
  BY <1>4, <1>5 DEF Decides
<1>8. v = Python!Gained(how, Iterators[g].acc, v)
  <2>1. CASE how = "any"
    BY <2>1 DEF Python!Gained
  <2>2. CASE how = "all"
    BY <2>2 DEF Python!Gained
  <2> QED BY <1>4, <2>1, <2>2
<1>9. l = prog[k].of /\ v = Eval(prog[k].e, env, heap)
  BY DEF l, v
<1> HIDE DEF g
<1>10. g = Whole(prog, k) /\ how = prog[g].how
  BY DEF g, how
<1>11. new = With(Iterators, g, [of |-> <<>>, acc |-> v])
  OBVIOUS
<1> HIDE DEF new
<1> QED BY <1>1, <1>6, <1>7, <1>8, <1>9, <1>10, <1>11, YieldPacked

LEMMA PythonUnknown ==
  ASSUME NEW k, NEW i, Stepping(k, i), AtTest(prog, k, i), Eval(prog[k].e, env, heap) # AnyOf(prog, k)
  PROVE  Python!Yield
<1> DEFINE l   == prog[k].of
           g   == Whole(prog, k)
           how == prog[g].how
           v   == Eval(prog[k].e, env, heap)
           new == With(Iterators, g, [of |-> <<>>, acc |-> v])
<1>1. /\ prog[k].op = "yield" /\ A(prog, k, i) = k /\ ~ Grows(prog, g)
      /\ Step(prog, k, i, env, heap, pc', env', heap')
  BY DEF AtTest, Deciding, Stepping
<1>2. Goes(prog, pc', env', heap', l, Without(EnvAt(prog, <<k, i>>, env), Targets(prog, l)),
           With(ItersAt(prog, <<k, i>>, env, heap), g, [of |-> <<>>, acc |-> v]))
  BY <1>1, SeenUnknown
<1>3. Goes(prog, pc', env', heap', l, Python!Forget(l), new)
  BY <1>2, SeenAt, ForgetIs
<1>4. how \in {"any", "all"} /\ v \in BOOLEAN
  BY <1>1, YieldHere DEF Grows
<1>5. ~ (v <=> how = "any")
  BY <1>4 DEF AnyOf
<1> HIDE DEF l, v
<1>6. Python!Go(l, Python!Forget(l), new, PyHeap)
  <2>1. ~ AtSingle(prog, k, i)
    BY <1>1 DEF AtSingle, Single
  <2> HIDE DEF new
  <2> QED BY <1>3, <2>1, Gone
<1> HIDE DEF how
<1>7. ~ Decides(how, v)
  BY <1>4, <1>5 DEF Decides
<1>8. v = Python!Gained(how, Iterators[g].acc, v)
  <2>1. CASE how = "any"
    BY <2>1 DEF Python!Gained
  <2>2. CASE how = "all"
    BY <2>2 DEF Python!Gained
  <2> QED BY <1>4, <2>1, <2>2
<1>9. l = prog[k].of /\ v = Eval(prog[k].e, env, heap)
  BY DEF l, v
<1> HIDE DEF g
<1>10. g = Whole(prog, k) /\ how = prog[g].how
  BY DEF g, how
<1>11. new = With(Iterators, g, [of |-> <<>>, acc |-> v])
  OBVIOUS
<1> HIDE DEF new
<1> QED BY <1>1, <1>6, <1>7, <1>8, <1>9, <1>10, <1>11, YieldPacked

(* Where the branches of a yield lead, with no element known yet.           *)
LEMMA StayArrives ==
  ASSUME NEW p, NEW k, NEW i, NEW en, NEW h, NEW at2, NEW en2, NEW h2,
         Step(p, k, i, en, h, at2, en2, h2), OfGain(p, k, i)
  PROVE  /\ p[k].op = "yield"
         /\ AtTest(p, k, i) /\ Eval(p[k].e, en, h) = AnyOf(p, k) =>
              Outside(p, <<k, i>>, k) /\ Outside(p, at2, k)
         /\ AtStop(p, k, i) => Outside(p, <<k, i>>, k + 1) /\ Outside(p, at2, k + 1)
         /\ AtOther(p, k, i) \/ AtSettled(p, k, i) =>
              AtLoop(p, <<k, i>>, p[k].of, TRUE, TRUE) /\ AtLoop(p, at2, p[k].of, TRUE, TRUE)
<1> DEFINE test(v) == IF v THEN Outside(p, at2, k) /\ AtKnown(p, k, at2[2]) /\ at2[1] = k
                      ELSE AtLoop(p, at2, p[k].of, TRUE, TRUE) /\ at2[1] = k
                           /\ ~ AtKnown(p, k, at2[2])
<1>1. /\ p[k].op = "yield"
      /\ AtTest(p, k, i) =>
           Outside(p, <<k, i>>, k) /\ test(Eval(p[k].e, en, h) = AnyOf(p, k))
      /\ AtStop(p, k, i) => Outside(p, <<k, i>>, k + 1) /\ Outside(p, at2, k + 1)
      /\ AtOther(p, k, i) =>
           AtLoop(p, <<k, i>>, p[k].of, TRUE, TRUE) /\ AtLoop(p, at2, p[k].of, TRUE, TRUE)
      /\ AtSettled(p, k, i) =>
           AtLoop(p, <<k, i>>, p[k].of, TRUE, TRUE) /\ AtLoop(p, at2, p[k].of, TRUE, TRUE)
  BY GainArrives, Zenon
<1>2. test(TRUE) => Outside(p, at2, k)
  OBVIOUS
<1>3. CASE Eval(p[k].e, en, h) = AnyOf(p, k)
  BY <1>1, <1>2, <1>3
<1>4. CASE Eval(p[k].e, en, h) # AnyOf(p, k)
  BY <1>1, <1>4
<1> QED BY <1>3, <1>4

(* Python has not moved while the branch to the known value is taken, nor   *)
(* after the value has settled.                                             *)
LEMMA PythonStays ==
  ASSUME NEW k, NEW i, Stepping(k, i), OfGain(prog, k, i), ~ AtGain(prog, k, i), ~ AtKnown(prog, k, i),
         ~ (AtTest(prog, k, i) /\ Eval(prog[k].e, env, heap) # AnyOf(prog, k))
  PROVE  UNCHANGED Python!pyVars
<1> DEFINE l == prog[k].of
<1>1. /\ Step(prog, k, i, env, heap, pc', env', heap') /\ IsBody(prog) /\ k \in 1 .. Len(prog)
      /\ i \in 1 .. N(prog, k)
  BY DEF Stepping, Step, Ready
<1>2. /\ prog[k].op = "yield"
      /\ AtTest(prog, k, i) => Outside(prog, <<k, i>>, k) /\ Outside(prog, pc', k)
      /\ AtStop(prog, k, i) => Outside(prog, <<k, i>>, k + 1) /\ Outside(prog, pc', k + 1)
      /\ AtOther(prog, k, i) \/ AtSettled(prog, k, i) =>
           AtLoop(prog, <<k, i>>, l, TRUE, TRUE) /\ AtLoop(prog, pc', l, TRUE, TRUE)
  <2>1. AtTest(prog, k, i) => Eval(prog[k].e, env, heap) = AnyOf(prog, k)
    OBVIOUS
  <2>2. /\ prog[k].op = "yield"
        /\ AtTest(prog, k, i) /\ Eval(prog[k].e, env, heap) = AnyOf(prog, k) =>
             Outside(prog, <<k, i>>, k) /\ Outside(prog, pc', k)
        /\ AtStop(prog, k, i) => Outside(prog, <<k, i>>, k + 1) /\ Outside(prog, pc', k + 1)
        /\ AtOther(prog, k, i) \/ AtSettled(prog, k, i) =>
             AtLoop(prog, <<k, i>>, l, TRUE, TRUE) /\ AtLoop(prog, pc', l, TRUE, TRUE)
    BY <1>1, StayArrives
  <2> QED BY <2>1, <2>2
<1>3. ~ AtSingle(prog, k, i)
  BY <1>2 DEF AtSingle, Single
<1>4. \A g : ~ Own(prog, k, i, g)
  <2>1. Steps(prog, k, i) => D(prog, k, i).op = "let"
    BY DEF Steps, AtBump, AtCountUp, Turn, Bump, Let
  <2>2. D(prog, k, i).op # "let"
    BY DEF OfGain, AtTest, AtStop, AtOther, AtSettled, Stop, If, Mark
  <2> QED BY <2>1, <2>2 DEF Own, Settles
<1>5. CASE AtTest(prog, k, i) \/ AtStop(prog, k, i)
  <2>1. PICK a : Outside(prog, <<k, i>>, a) /\ Outside(prog, pc', a)
    BY <1>2, <1>5
  <2>2. Goes(prog, pc', env', heap', a, EnvAt(prog, <<k, i>>, env), ItersAt(prog, <<k, i>>, env, heap))
    BY <1>1, <1>3, <1>4, <2>1, SeenOn
  <2>3. Goes(prog, pc', env', heap', a, Shown, Iterators)
    BY <2>2, SeenAt
  <2>4. Place = a
    <3>1. Place = PlaceAt(prog, <<k, i>>)
      BY SeenAt
    <3> QED BY <2>1, <3>1, GoingOutside
  <2> QED BY <1>3, <2>3, <2>4, Gone
<1>6. CASE AtOther(prog, k, i) \/ AtSettled(prog, k, i)
  <2>1. Within(prog, <<k, i>>, l) /\ Within(prog, pc', l)
    BY <1>2, <1>6, AtLoopIs
  <2>2. Back(prog, <<k, i>>, l) /\ Back(prog, pc', l) /\ l \in 1 .. Len(prog)
    BY <2>1 DEF Back, Within
  <2> HIDE DEF l
  <2>3. Goes(prog, pc', env', heap', l, EnvAt(prog, <<k, i>>, env), ItersAt(prog, <<k, i>>, env, heap))
    BY <1>1, <1>3, <1>4, <2>2, SeenRest
  <2>4. Goes(prog, pc', env', heap', l, Shown, Iterators)
    BY <2>3, SeenAt
  <2>5. Place = l
    <3>1. Place = PlaceAt(prog, <<k, i>>)
      BY SeenAt
    <3> QED BY <2>1, <3>1 DEF Within
  <2> QED BY <1>3, <2>4, <2>5, Gone
<1> QED BY <1>5, <1>6 DEF OfGain

-----------------------------------------------------------------------------
(* Every step is one of Python's, or none: loops. *)

(* The iterators of a loop that has been entered, as Python sees them.      *)
LEMMA LoopHere ==
  ASSUME NEW k, NEW i, Stepping(k, i), prog[k].op = "for", i >= W(prog, k), i <= H(prog, k)
  PROVE  /\ IsBody(prog) /\ k \in 1 .. Len(prog) /\ i \in 1 .. N(prog, k)
         /\ Step(prog, k, i, env, heap, pc', env', heap')
         /\ Between(prog, <<k, i>>, k) /\ HeadMoves(prog, k, i) /\ Numbers(prog, k, env)
         /\ Place = k /\ Python!Tok = prog[k] /\ Python!Executes({"for"})
<1>1. /\ IsBody(prog) /\ k \in 1 .. Len(prog) /\ i \in 1 .. N(prog, k)
      /\ Step(prog, k, i, env, heap, pc', env', heap') /\ Ready(prog, k, i, env, heap)
  BY DEF Stepping, Step, Ready
<1>2. i \in 1 .. H(prog, k)
  BY <1>1
<1>3. HeadMoves(prog, k, i)
  BY <1>1, <1>2, HeadArrives
<1>4. AtLoop(prog, <<k, i>>, k, FALSE, FALSE)
  BY <1>3 DEF HeadMoves
<1>5. Between(prog, <<k, i>>, k)
  BY <1>4, AtLoopIs
<1>6. A(prog, k, i) = k
  BY <1>1, <1>5, PlaceAtIs DEF Between
<1>7. Numbers(prog, k, env)
  BY <1>1, NumbersAre
<1>8. Place = k /\ Python!Tok = prog[k] /\ Python!Executes({"for"})
  BY <1>6, OnToken
<1> QED BY <1>1, <1>3, <1>5, <1>7, <1>8

LEMMA StillHeld ==
  ASSUME NEW k, NEW i, Stepping(k, i), prog[k].op = "for", i >= W(prog, k), i <= H(prog, k),
         Indexed(prog, k), NEW m \in DOMAIN prog[k].its
  PROVE  PyHeap[env[Holder(prog, k, m)]] = heap[env[Holder(prog, k, m)]]
<1> DEFINE at == <<k, i>>
           e  == ShownIn(prog, PlaceAt(prog, at), env)
           it == ItersAt(prog, at, env, heap)
<1>1. Between(prog, at, k) /\ IsBody(prog) /\ Step(prog, k, i, env, heap, pc', env', heap')
  BY LoopHere
<1>2. InText(prog, at)
  BY <1>1 DEF Step, Ready, InText
<1>3. k \in Going(prog, at)
  BY <1>1 DEF Between, Going
<1>4. Holder(prog, k, m) \in Holders(prog, at)
  BY <1>3 DEF Holders
<1>5. PyHeap = Held(heap, e, it)
  BY SeenAt DEF HeldAt
<1> HIDE DEF at
<1>6. Refs(e, it) = DOMAIN Heap0 \cup {env[x] : x \in Holders(prog, at)}
  BY <1>1, <1>2, RefsAre
<1>7. env[Holder(prog, k, m)] \in Refs(e, it)
  BY <1>4, <1>6
<1> HIDE DEF e, it
<1> QED BY <1>5, <1>7, HeldIs

LEMMA PyWalks ==
  /\ \A w : Python!More(w) <=> MoreOf(w, PyHeap)
  /\ \A w : Python!Element(w) = ElementOf(w, PyHeap)
  /\ \A w : Python!Advance(w) = AdvanceOf(w)
BY DEF Python!More, MoreOf, Python!Element, ElementOf, Python!Advance, AdvanceOf, PyHeap

LEMMA LoopSeen ==
  ASSUME NEW k, NEW i, Stepping(k, i), prog[k].op = "for", i >= W(prog, k), i <= H(prog, k)
  PROVE  LET its == DOMAIN prog[k].its
             w(m) == StillIn(prog, k, m, env, heap)
         IN  /\ k \in DOMAIN Iterators
             /\ Iterators[k].of = [m \in its |-> w(m)] /\ Iterators[k].n = NumberOf(prog, k, env)
             /\ \A m \in its : /\ Python!More(w(m)) <=> MoreOf(w(m), heap)
                               /\ Python!Element(w(m)) = ElementIn(prog, k, m, env, heap)
                               /\ Python!Advance(w(m)) = AdvanceOf(w(m))
<1> DEFINE its == DOMAIN prog[k].its
           w(m) == StillIn(prog, k, m, env, heap)
<1>1. IsBody(prog) /\ k \in 1 .. Len(prog) /\ Between(prog, <<k, i>>, k) /\ Numbers(prog, k, env)
  BY LoopHere
<1>2. Iterators = With(Full(prog, Surround(prog, k), env, heap), k, NextIn(prog, k, env, heap))
  <2>1. ItersAt(prog, <<k, i>>, env, heap)
          = With(Full(prog, Surround(prog, k), env, heap), k, NextIn(prog, k, env, heap))
    BY <1>1, ItersBetween
  <2> QED BY <2>1, SeenAt
<1>3. k \in DOMAIN Iterators /\ Iterators[k] = NextIn(prog, k, env, heap)
  BY <1>2 DEF With
<1>4. Iterators[k].of = [m \in its |-> w(m)] /\ Iterators[k].n = NumberOf(prog, k, env)
  <2>1. NextIn(prog, k, env, heap) = [of |-> [m \in its |-> w(m)], n |-> NumberOf(prog, k, env)]
    <3>1. \E m : m \in its
      <4>1. its = {1, 2} \/ its = {1}
        BY <1>1, WalkIs
      <4> QED BY <4>1
    <3> QED BY <1>1, <3>1, StillIs
  <2> HIDE DEF w, its
  <2> QED BY <1>3, <2>1
<1>5. ASSUME NEW m \in its
      PROVE  (MoreOf(w(m), PyHeap) <=> MoreOf(w(m), heap)) /\ ElementOf(w(m), PyHeap) = ElementOf(w(m), heap)
  <2>1. CASE Indexed(prog, k)
    <3>1. w(m) = [k |-> "list", list |-> env[Holder(prog, k, m)], pos |-> env[IndexOf(prog, k)]]
      BY <1>1, <2>1, StillIs
    <3>2. PyHeap[w(m).list] = heap[w(m).list]
      BY <2>1, <3>1, StillHeld
    <3> HIDE DEF w
    <3> QED BY <3>1, <3>2 DEF MoreOf, ElementOf
  <2>2. CASE ~ Indexed(prog, k)
    <3>1. w(m).k = "range"
      BY <2>2 DEF StillIn, WalkIn
    <3> HIDE DEF w
    <3> QED BY <3>1 DEF MoreOf, ElementOf
  <2> QED BY <2>1, <2>2
<1>6. ASSUME NEW m \in its
      PROVE  /\ Python!More(w(m)) <=> MoreOf(w(m), heap)
             /\ Python!Element(w(m)) = ElementIn(prog, k, m, env, heap)
             /\ Python!Advance(w(m)) = AdvanceOf(w(m))
  BY <1>5, <1>6, PyWalks DEF ElementIn
<1> QED BY <1>3, <1>4, <1>6

-----------------------------------------------------------------------------
LEMMA PythonHead ==
  ASSUME NEW k, NEW i, Stepping(k, i), prog[k].op = "for", i + 1 < W(prog, k)
  PROVE  UNCHANGED Python!pyVars
<1>1. /\ Step(prog, k, i, env, heap, pc', env', heap') /\ IsBody(prog) /\ k \in 1 .. Len(prog)
      /\ i \in 1 .. N(prog, k)
  BY DEF Stepping, Step, Ready
<1>2. Goes(prog, pc', env', heap', k, EnvAt(prog, <<k, i>>, env), ItersAt(prog, <<k, i>>, env, heap))
  BY <1>1, SeenHead
<1>3. Goes(prog, pc', env', heap', k, Shown, Iterators)
  BY <1>2, SeenAt
<1>4. Place = k
  <2>1. W(prog, k) \in 2 .. 4 /\ H(prog, k) \in 2 .. 6 /\ W(prog, k) <= H(prog, k)
    BY <1>1, WalkIs
  <2>2. i \in 1 .. H(prog, k)
    BY <1>1, <2>1
  <2>3. HeadMoves(prog, k, i)
    BY <1>1, <2>2, HeadArrives
  <2>4. ~ (i >= W(prog, k))
    BY <1>1, <2>1
  <2>5. Outside(prog, <<k, i>>, k)
    BY <2>3, <2>4 DEF HeadMoves
  <2>6. Place = PlaceAt(prog, <<k, i>>)
    BY SeenAt
  <2> QED BY <2>5, <2>6, GoingOutside
<1>5. ~ AtSingle(prog, k, i)
  BY DEF AtSingle, Single
<1> QED BY <1>3, <1>4, <1>5, Gone

LEMMA PythonStill ==
  ASSUME NEW k, NEW i, Stepping(k, i), prog[k].op = "for", i >= W(prog, k), i < H(prog, k),
         i = W(prog, k) => Eval(Cond(prog, k), env, heap)
  PROVE  UNCHANGED Python!pyVars
<1>0. i <= H(prog, k)
  <2>1. IsBody(prog) /\ k \in 1 .. Len(prog) /\ i \in 1 .. N(prog, k)
    BY DEF Stepping, Step, Ready
  <2>2. H(prog, k) \in 2 .. 6 /\ i \in Nat
    BY <2>1, WalkIs
  <2> QED BY <2>2
<1>1. /\ Step(prog, k, i, env, heap, pc', env', heap') /\ Between(prog, <<k, i>>, k) /\ HeadMoves(prog, k, i)
      /\ Place = k /\ IsBody(prog) /\ k \in 1 .. Len(prog) /\ i \in 1 .. N(prog, k)
  BY <1>0, LoopHere
<1>2. pc' = Onward(prog, k, i)
  <2>1. CASE i = W(prog, k)
    <3>1. AtWhile(prog, k, i)
      BY <1>1, <2>1, LoopIs DEF IsLoop
    <3> QED BY <1>1, <2>1, <3>1, WhileGoes
  <2>2. CASE i # W(prog, k)
    BY <1>0, <1>1, <2>2, HeadGoes
  <2> QED BY <2>1, <2>2
<1>3. AtLoop(prog, pc', k, FALSE, FALSE)
  <2>1. W(prog, k) \in 2 .. 4 /\ H(prog, k) \in 2 .. 6
    BY <1>1, WalkIs
  <2>2. i + 1 >= W(prog, k)
    BY <1>1, <2>1
  <2> QED BY <1>1, <1>2, <2>2 DEF HeadMoves
<1>4. Between(prog, pc', k)
  BY <1>3, AtLoopIs
<1>5. ~ AtSingle(prog, k, i)
  BY DEF AtSingle, Single
<1>6. \A g : ~ Own(prog, k, i, g)
  BY NoneOwn
<1>7. Goes(prog, pc', env', heap', k, EnvAt(prog, <<k, i>>, env), ItersAt(prog, <<k, i>>, env, heap))
  BY <1>1, <1>4, <1>5, <1>6, SeenStill
<1>8. Goes(prog, pc', env', heap', k, Shown, Iterators)
  BY <1>7, SeenAt
<1> QED BY <1>1, <1>5, <1>8, Gone

LEMMA PythonExhausted ==
  ASSUME NEW k, NEW i, Stepping(k, i), prog[k].op = "for", i = W(prog, k), ~ Eval(Cond(prog, k), env, heap)
  PROVE  Python!Exhausted
<1> DEFINE its == DOMAIN prog[k].its
           w(m) == StillIn(prog, k, m, env, heap)
<1>0. i >= W(prog, k) /\ i <= H(prog, k)
  <2>1. IsBody(prog) /\ k \in 1 .. Len(prog)
    BY DEF Stepping, Step, Ready
  <2>2. W(prog, k) \in 2 .. 4 /\ H(prog, k) \in 2 .. 6 /\ W(prog, k) <= H(prog, k)
    BY <2>1, WalkIs
  <2> QED BY <2>2
<1>1. /\ Step(prog, k, i, env, heap, pc', env', heap') /\ Numbers(prog, k, env)
      /\ Place = k /\ Python!Tok = prog[k] /\ Python!Executes({"for"}) /\ IsBody(prog) /\ k \in 1 .. Len(prog)
  BY <1>0, LoopHere
<1>2. /\ k \in DOMAIN Iterators /\ Iterators[k].of = [m \in its |-> w(m)]
      /\ \A m \in its : Python!More(w(m)) <=> MoreOf(w(m), heap)
  BY <1>0, LoopSeen
<1>3. \E m \in its : ~ MoreOf(w(m), heap)
  BY <1>1, MoreIs
<1>4. \E j \in DOMAIN Iterators[k].of : ~ Python!More(Iterators[k].of[j])
  <2> HIDE DEF w, its
  <2> QED BY <1>2, <1>3
<1>5. Goes(prog, pc', env', heap', End(prog, k) + 1, EnvAt(prog, <<k, i>>, env),
           Without(ItersAt(prog, <<k, i>>, env, heap), {k}))
  BY <1>1, SeenExhausted
<1>6. Goes(prog, pc', env', heap', End(prog, k) + 1, Shown, Python!Leave(k))
  BY <1>5, SeenAt, ForgetIs
<1>7. Python!Go(End(prog, k) + 1, Shown, Python!Leave(k), PyHeap)
  <2>1. ~ AtSingle(prog, k, i)
    BY DEF AtSingle, Single
  <2> QED BY <1>6, <2>1, Gone
<1>8. End(prog, k) = Python!Close(prog, k)
  <2>1. Close(prog, k) = End(prog, k)
    BY <1>1, CloseIs DEF Opens
  <2> QED BY <2>1, Twins
<1>9. Python!Go(Python!Close(prog, Place) + 1, Shown, Python!Leave(Place), PyHeap)
  BY <1>1, <1>7, <1>8
<1>10. Place \in DOMAIN Iterators /\ \E j \in DOMAIN Iterators[Place].of : ~ Python!More(Iterators[Place].of[j])
  BY <1>1, <1>2, <1>4
<1> QED BY <1>1, <1>9, <1>10 DEF Python!Exhausted, PyHeap

LEMMA PythonIterators ==
  ASSUME NEW k, NEW i, Stepping(k, i), prog[k].op = "for", A(prog, k, i) = k
  PROVE  [j \in DOMAIN prog[k].its |-> Python!Iterator(prog[k].its[j])]
           = [j \in DOMAIN prog[k].its |-> NewIterator(prog[k].its[j], env, heap)]
<1>1. /\ Place = k /\ IsBody(prog) /\ k \in 1 .. Len(prog)
      /\ \A e : Reads(e) \subseteq Bound(prog, k) /\ (\E type : HasType(e, type)) =>
           Python!Value(e) = Eval(e, env, heap)
  BY PyAt DEF Stepping, Step, Ready
<1> SUFFICES ASSUME NEW j \in DOMAIN prog[k].its
             PROVE  Python!Iterator(prog[k].its[j]) = NewIterator(prog[k].its[j], env, heap)
  OBVIOUS
<1> DEFINE it == prog[k].its[j]
<1>2. CASE Indexed(prog, k)
  <2>1. it.k = "list" /\ it.x \in Bound(prog, k)
    BY <1>1, <1>2, ListSource
  <2>2. Shown[it.x] = env[it.x]
    <3>1. Shown = ShownIn(prog, PlaceAt(prog, <<k, i>>), env)
      BY SeenAt DEF EnvAt
    <3>2. PlaceAt(prog, <<k, i>>) = k
      BY <1>1, SeenAt
    <3> QED BY <2>1, <3>1, <3>2 DEF ShownIn
  <2> HIDE DEF it
  <2>3. Python!Iterator(it) = NewIterator(it, env, heap)
    BY <2>1, <2>2 DEF Python!Iterator, NewIterator
  <2> QED BY <2>3 DEF it
<1>3. CASE ~ Indexed(prog, k)
  <2>1. /\ it.k = "range" /\ HasType(it.start, "int") /\ HasType(it.stop, "int")
        /\ Reads(it.start) \subseteq Bound(prog, k) /\ Reads(it.stop) \subseteq Bound(prog, k)
    <3>1. DOMAIN prog[k].its = {1}
      BY <1>1, <1>3, RangeIs
    <3>2. j = 1
      BY <3>1
    <3> QED BY <1>1, <1>3, <3>2, RangeIs
  <2>2. /\ Python!Value(it.start) = Eval(it.start, env, heap)
        /\ Python!Value(it.stop) = Eval(it.stop, env, heap)
    BY <1>1, <2>1
  <2> HIDE DEF it
  <2>3. Python!Iterator(it) = NewIterator(it, env, heap)
    BY <2>1, <2>2 DEF Python!Iterator, NewIterator
  <2> QED BY <2>3 DEF it
<1> QED BY <1>2, <1>3

LEMMA PythonBegin ==
  ASSUME NEW k, NEW i, Stepping(k, i), prog[k].op = "for", i + 1 = W(prog, k)
  PROVE  Python!Begin
<1>1. /\ Step(prog, k, i, env, heap, pc', env', heap') /\ IsBody(prog) /\ k \in 1 .. Len(prog)
      /\ i \in 1 .. N(prog, k)
  BY DEF Stepping, Step, Ready
<1>2. /\ Goes(prog, pc', env', heap', k, EnvAt(prog, <<k, i>>, env),
              With(ItersAt(prog, <<k, i>>, env, heap), k, NewIters(prog, k, env, heap)))
      /\ Outside(prog, <<k, i>>, k) /\ k \notin DOMAIN ItersAt(prog, <<k, i>>, env, heap)
  BY <1>1, SeenBegin
<1>3. A(prog, k, i) = k
  <2>1. PlaceAt(prog, <<k, i>>) = k
    BY <1>2 DEF Outside
  <2> QED BY <1>1, <2>1, PlaceAtIs
<1>4. Place = k /\ Python!Tok = prog[k] /\ Python!Executes({"for"})
  BY <1>3, OnToken
<1>5. /\ Goes(prog, pc', env', heap', k, Shown, With(Iterators, k, NewIters(prog, k, env, heap)))
      /\ k \notin DOMAIN Iterators
  BY <1>2, SeenAt
<1>6. Python!Go(k, Shown, With(Iterators, k, NewIters(prog, k, env, heap)), PyHeap)
  <2>1. ~ AtSingle(prog, k, i)
    BY DEF AtSingle, Single
  <2> QED BY <1>5, <2>1, Gone
<1>7. NewIters(prog, k, env, heap)
        = [of |-> [j \in DOMAIN prog[k].its |-> Python!Iterator(prog[k].its[j])], n |-> prog[k].start]
  BY <1>3, PythonIterators DEF NewIters
<1>8. Python!Go(Place, Shown,
                Python!With(Iterators, Place,
                            [of |-> [j \in DOMAIN Python!Tok.its |-> Python!Iterator(Python!Tok.its[j])],
                             n  |-> Python!Tok.start]), PyHeap)
  BY <1>4, <1>6, <1>7, Twins
<1> QED BY <1>4, <1>5, <1>8 DEF Python!Begin, PyHeap

(* What a turn takes, as Python says it.                                    *)
LEMMA PythonTaken ==
  ASSUME NEW k, NEW i, Stepping(k, i), prog[k].op = "for", i >= W(prog, k), i <= H(prog, k)
  PROVE  Python!Taken(Iterators[k]) = TakenIn(prog, k, Shown, env, heap)
<1> DEFINE its == DOMAIN prog[k].its
           w(m) == StillIn(prog, k, m, env, heap)
           el(m) == ElementIn(prog, k, m, env, heap)
           u == Iterators[k]
           how == prog[k].how
           t == prog[k].t
           num == NumberOf(prog, k, env)
<1>1. Python!Tok = prog[k] /\ IsBody(prog) /\ k \in 1 .. Len(prog)
  BY LoopHere
<1>2. /\ u.of = [m \in its |-> w(m)] /\ u.n = num
      /\ \A m \in its : Python!Element(w(m)) = el(m)
  BY LoopSeen
<1>3. 1 \in its /\ (how = "zip" => 2 \in its)
  BY <1>1, WalkIs
<1>4. /\ Python!Element(u.of[1]) = el(1)
      /\ how = "zip" => Python!Element(u.of[2]) = el(2)
  <2> HIDE DEF its, w, el, u, how
  <2> QED BY <1>2, <1>3
<1>5. CASE how = "enumerate"
  <2>1. Python!Taken(u) = With(With(Shown, t[1], u.n), t[2], Python!Element(u.of[1]))
    BY <1>1, <1>5, Twins DEF Python!Taken
  <2>2. TakenIn(prog, k, Shown, env, heap) = With(With(Shown, t[1], num), t[2], el(1))
    BY <1>5 DEF TakenIn
  <2> HIDE DEF el, u, t, num
  <2> QED BY <1>2, <1>4, <2>1, <2>2 DEF u
<1>6. CASE how = "zip"
  <2>1. Python!Taken(u) = With(With(Shown, t[1], Python!Element(u.of[1])), t[2], Python!Element(u.of[2]))
    BY <1>1, <1>6, Twins DEF Python!Taken
  <2>2. TakenIn(prog, k, Shown, env, heap) = With(With(Shown, t[1], el(1)), t[2], el(2))
    BY <1>6 DEF TakenIn
  <2> HIDE DEF el, u, t, num
  <2> QED BY <1>4, <1>6, <2>1, <2>2 DEF u
<1>7. CASE how \notin {"enumerate", "zip"}
  <2>1. Python!Taken(u) = With(Shown, t[1], Python!Element(u.of[1]))
    BY <1>1, <1>7, Twins DEF Python!Taken
  <2>2. TakenIn(prog, k, Shown, env, heap) = With(Shown, t[1], el(1))
    BY <1>7 DEF TakenIn
  <2> HIDE DEF el, u, t, num
  <2> QED BY <1>4, <2>1, <2>2 DEF u
<1> QED BY <1>5, <1>6, <1>7

LEMMA PythonTurn ==
  ASSUME NEW k, NEW i, Stepping(k, i), prog[k].op = "for", i = H(prog, k),
         i = W(prog, k) => Eval(Cond(prog, k), env, heap)
  PROVE  Python!Turn
<1> DEFINE its == DOMAIN prog[k].its
           w(m) == StillIn(prog, k, m, env, heap)
           next == [of |-> [m \in its |-> AdvanceOf(w(m))],
                    n  |-> IF prog[k].how = "enumerate" THEN NumberOf(prog, k, env) + 1 ELSE NumberOf(prog, k, env)]
<1>0. i >= W(prog, k) /\ i <= H(prog, k)
  <2>1. IsBody(prog) /\ k \in 1 .. Len(prog)
    BY DEF Stepping, Step, Ready
  <2>2. W(prog, k) \in 2 .. 4 /\ H(prog, k) \in 2 .. 6 /\ (H(prog, k) = W(prog, k) + Len(prog[k].its) \/ H(prog, k) = W(prog, k))
    BY <2>1, WalkIs
  <2>3. Len(prog[k].its) \in {1, 2}
    BY <2>1, WalkIs
  <2> QED BY <2>2, <2>3
<1>1. /\ Step(prog, k, i, env, heap, pc', env', heap') /\ Numbers(prog, k, env)
      /\ Place = k /\ Python!Tok = prog[k] /\ Python!Executes({"for"}) /\ IsBody(prog) /\ k \in 1 .. Len(prog)
  BY <1>0, LoopHere
<1>2. /\ k \in DOMAIN Iterators /\ Iterators[k].of = [m \in its |-> w(m)]
      /\ Iterators[k].n = NumberOf(prog, k, env)
      /\ \A m \in its : /\ Python!More(w(m)) <=> MoreOf(w(m), heap)
                        /\ Python!Advance(w(m)) = AdvanceOf(w(m))
  BY <1>0, LoopSeen
<1>3. \A m \in its : MoreOf(w(m), heap)
  <2>1. CASE i = W(prog, k)
    BY <1>1, <2>1, MoreIs
  <2>2. CASE i # W(prog, k)
    <3>1. Indexed(prog, k)
      BY <1>1, <2>2, WalkIs
    <3>2. Loading(prog, <<k, i>>, env, heap)
      BY <1>1 DEF Step, Ready
    <3>3. \A m \in its : env[IndexOf(prog, k)] < Len(heap[env[Holder(prog, k, m)]])
      <4> DEFINE at == <<k, i>>
      <4>1. at[1] = k /\ at[2] = i
        OBVIOUS
      <4>2. W(prog, k) \in 2 .. 4 /\ i \in 2 .. 6
        BY <1>1, WalkIs
      <4>3. i > W(prog, k)
        BY <1>0, <2>2, <4>2
      <4> HIDE DEF at
      <4>4. Loading(prog, at, env, heap)
        BY <3>2 DEF at
      <4> QED BY <1>0, <1>1, <3>1, <4>1, <4>3, <4>4 DEF Loading
    <3>4. \A m \in its : w(m) = [k |-> "list", list |-> env[Holder(prog, k, m)], pos |-> env[IndexOf(prog, k)]]
      BY <1>1, <3>1, StillIs
    <3> HIDE DEF w, its
    <3> QED BY <3>3, <3>4 DEF MoreOf
  <2> QED BY <2>1, <2>2
<1>4. \A j \in DOMAIN Iterators[k].of : Python!More(Iterators[k].of[j])
  <2> HIDE DEF w, its
  <2> QED BY <1>2, <1>3
<1>5. TurnIters(prog, k, env, heap) = next
  BY DEF TurnIters
<1>6. next = [of |-> [j \in DOMAIN Iterators[k].of |-> Python!Advance(Iterators[k].of[j])],
              n  |-> IF prog[k].how = "enumerate" THEN Iterators[k].n + 1 ELSE Iterators[k].n]
  <2>1. [m \in its |-> AdvanceOf(w(m))] = [j \in DOMAIN Iterators[k].of |-> Python!Advance(Iterators[k].of[j])]
    <3> HIDE DEF w, its
    <3> QED BY <1>2
  <2> QED BY <1>2, <2>1
<1>7. Goes(prog, pc', env', heap', k + 1, TakenIn(prog, k, EnvAt(prog, <<k, i>>, env), env, heap),
           With(ItersAt(prog, <<k, i>>, env, heap), k, TurnIters(prog, k, env, heap)))
  BY <1>1, SeenTurn
<1>8. Goes(prog, pc', env', heap', k + 1, TakenIn(prog, k, Shown, env, heap),
           With(Iterators, k, TurnIters(prog, k, env, heap)))
  BY <1>7, SeenAt
<1>9. Python!Go(k + 1, TakenIn(prog, k, Shown, env, heap), With(Iterators, k, TurnIters(prog, k, env, heap)), PyHeap)
  <2>1. ~ AtSingle(prog, k, i)
    BY DEF AtSingle, Single
  <2> QED BY <1>8, <2>1, Gone
<1>10. Python!Taken(Iterators[k]) = TakenIn(prog, k, Shown, env, heap)
  BY <1>0, PythonTaken
<1>11. Python!Go(k + 1, Python!Taken(Iterators[k]), Python!With(Iterators, k, next), PyHeap)
  BY <1>5, <1>9, <1>10, Twins
<1> HIDE DEF next
<1>12. Python!Go(Place + 1, Python!Taken(Iterators[Place]),
                 Python!With(Iterators, Place,
                             [of |-> [j \in DOMAIN Iterators[Place].of |-> Python!Advance(Iterators[Place].of[j])],
                              n  |-> IF Python!Tok.how = "enumerate" THEN Iterators[Place].n + 1
                                     ELSE Iterators[Place].n]), PyHeap)
  BY <1>1, <1>6, <1>11
<1>13. /\ Place \in DOMAIN Iterators
       /\ \A j \in DOMAIN Iterators[Place].of : Python!More(Iterators[Place].of[j])
  BY <1>1, <1>2, <1>4
<1> QED BY <1>1, <1>12, <1>13 DEF Python!Turn, PyHeap

-----------------------------------------------------------------------------
LEMMA PythonLatch ==
  ASSUME NEW k, NEW i, Stepping(k, i), OfTurn(prog, k, i), i # 1
  PROVE  UNCHANGED Python!pyVars
<1> DEFINE l == prog[k].of
<1>1. /\ Step(prog, k, i, env, heap, pc', env', heap') /\ IsBody(prog) /\ k \in 1 .. Len(prog)
      /\ i \in 1 .. N(prog, k)
  BY DEF Stepping, Step, Ready
<1>2. Goes(prog, pc', env', heap', l, EnvAt(prog, <<k, i>>, env), ItersAt(prog, <<k, i>>, env, heap))
  BY <1>1, SeenLatch
<1>3. Goes(prog, pc', env', heap', l, Shown, Iterators)
  BY <1>2, SeenAt
<1>4. Place = l
  <2>1. Returned(prog, <<k, i>>, l, i <= LatchAt(prog, l) + 1, i <= LatchAt(prog, l) + 2)
    BY <1>1, TurnArrives
  <2>2. Place = PlaceAt(prog, <<k, i>>)
    BY SeenAt
  <2> QED BY <2>1, <2>2, GoingReturned
<1>5. ~ AtSingle(prog, k, i)
  BY DEF AtSingle
<1> HIDE DEF l
<1> QED BY <1>3, <1>4, <1>5, Gone

LEMMA PythonTurned ==
  ASSUME NEW k, NEW i, Stepping(k, i), OfTurn(prog, k, i), i = 1
  PROVE  Python!Pass
<1> DEFINE l == prog[k].of
<1>1. Step(prog, k, i, env, heap, pc', env', heap')
  BY DEF Stepping
<1>2. /\ Goes(prog, pc', env', heap', l, Without(EnvAt(prog, <<k, i>>, env), Targets(prog, l)),
              ItersAt(prog, <<k, i>>, env, heap))
      /\ prog[k].op = "end" /\ IsLoop(prog[l])
  BY <1>1, SeenPass
<1>3. A(prog, k, i) = k
  <2>1. IsBody(prog) /\ k \in 1 .. Len(prog) /\ i \in 1 .. N(prog, k)
    BY <1>1 DEF Step, Ready
  <2>2. Outside(prog, <<k, i>>, k)
    BY <1>1, TurnArrives
  <2> QED BY <2>1, <2>2, PlaceAtIs DEF Outside
<1>4. Place = k /\ Python!Tok = prog[k] /\ Python!Op = "end" /\ Python!Executes({"else", "end"})
  BY <1>2, <1>3, OnToken
<1>5. Goes(prog, pc', env', heap', l, Python!Forget(l), Iterators)
  BY <1>2, SeenAt, ForgetIs
<1>6. ~ AtSingle(prog, k, i)
  BY <1>2 DEF AtSingle, Single
<1> HIDE DEF l
<1>7. Python!Go(l, Python!Forget(l), Iterators, PyHeap)
  BY <1>5, <1>6, Gone
<1>8. l = Python!Tok.of /\ prog[l].op # "if"
  BY <1>2, <1>4 DEF l, IsLoop
<1>9. Python!Go(IF prog[Python!Tok.of].op = "if" THEN Place + 1 ELSE Python!Tok.of, Python!Forget(Python!Tok.of),
                Iterators, PyHeap)
  BY <1>7, <1>8
<1> QED BY <1>4, <1>9 DEF Python!Pass, PyHeap

-----------------------------------------------------------------------------
(* The head of a loop.                                                      *)
LEMMA PythonFor ==
  ASSUME NEW k, NEW i, Stepping(k, i), prog[k].op = "for", i <= H(prog, k)
  PROVE  Python!Next \/ UNCHANGED Python!pyVars
<1> DEFINE w == W(prog, k)
           h == H(prog, k)
<1>1. w \in 2 .. 4 /\ h \in 2 .. 6 /\ w <= h /\ i \in Nat
  <2>1. IsBody(prog) /\ k \in 1 .. Len(prog) /\ i \in 1 .. N(prog, k)
    BY DEF Stepping, Step, Ready
  <2>2. w \in 2 .. 4 /\ h \in 2 .. 6 /\ (h = w + Len(prog[k].its) \/ h = w)
    BY <2>1, WalkIs
  <2>3. Len(prog[k].its) \in {1, 2}
    BY <2>1, WalkIs
  <2> HIDE DEF w, h
  <2> QED BY <2>1, <2>2, <2>3
<1>2. \/ i + 1 < w \/ i + 1 = w
      \/ i = w /\ ~ Eval(Cond(prog, k), env, heap)
      \/ i >= w /\ i < h /\ (i = w => Eval(Cond(prog, k), env, heap))
      \/ i = h /\ (i = w => Eval(Cond(prog, k), env, heap))
  <2>0. i <= h
    OBVIOUS
  <2>1. i + 1 < w \/ i + 1 = w \/ i = w \/ (i >= w /\ i < h /\ i # w) \/ (i = h /\ i # w)
    <3> HIDE DEF w, h
    <3> QED BY <1>1, <2>0
  <2>2. i = w => i = h \/ (i >= w /\ i < h)
    <3> HIDE DEF w, h
    <3> QED BY <1>1
  <2> HIDE DEF w, h
  <2> QED BY <2>1, <2>2
<1>3. CASE i + 1 < w
  BY <1>3, PythonHead
<1>4. CASE i + 1 = w
  BY <1>4, PythonBegin DEF Python!Next
<1>5. CASE i = w /\ ~ Eval(Cond(prog, k), env, heap)
  BY <1>5, PythonExhausted DEF Python!Next
<1>6. CASE i >= w /\ i < h /\ (i = w => Eval(Cond(prog, k), env, heap))
  BY <1>6, PythonStill
<1>7. CASE i = h /\ (i = w => Eval(Cond(prog, k), env, heap))
  BY <1>7, PythonTurn DEF Python!Next
<1> HIDE DEF w, h
<1> QED BY <1>2, <1>3, <1>4, <1>5, <1>6, <1>7

LEMMA PythonOfHead ==
  ASSUME NEW k, NEW i, Stepping(k, i), OfHead(prog, k, i)
  PROVE  Python!Next \/ UNCHANGED Python!pyVars
<1>1. CASE AtReload(prog, k, i)
  BY <1>1, PythonReload
<1>2. CASE prog[k].op = "for" /\ ~ AtReload(prog, k, i)
  <2>1. IsBody(prog) /\ k \in 1 .. Len(prog) /\ i \in 1 .. N(prog, k)
    BY DEF Stepping, Step, Ready
  <2>2. H(prog, k) \in 2 .. 6 /\ i \in Nat
    BY <1>2, <2>1, WalkIs
  <2>3. ~ (i > H(prog, k))
    BY <1>2, <2>1, ReloadSpot
  <2>4. i <= H(prog, k)
    BY <2>2, <2>3
  <2> QED BY <1>2, <2>4, PythonFor
<1>3. CASE prog[k].op # "for" /\ ~ AtReload(prog, k, i)
  <2>1. AtWhile(prog, k, i)
    BY <1>3 DEF OfHead, AtCount, AtCounter, AtIndex, AtList, AtLoad, Indexed
  <2>2. prog[k].op = "while"
    BY <1>3, <2>1 DEF AtWhile, IsLoop
  <2> QED BY <2>1, <2>2, PythonWhile DEF Python!Next
<1> QED BY <1>1, <1>2, <1>3

LEMMA PythonOfGain ==
  ASSUME NEW k, NEW i, Stepping(k, i), OfGain(prog, k, i)
  PROVE  Python!Next \/ UNCHANGED Python!pyVars
<1>1. CASE AtGain(prog, k, i)
  BY <1>1, PythonGain DEF Python!Next
<1>2. CASE AtKnown(prog, k, i)
  BY <1>2, PythonKnown DEF Python!Next
<1>3. CASE AtTest(prog, k, i) /\ Eval(prog[k].e, env, heap) # AnyOf(prog, k)
  BY <1>3, PythonUnknown DEF Python!Next
<1>4. CASE /\ ~ AtGain(prog, k, i) /\ ~ AtKnown(prog, k, i)
           /\ ~ (AtTest(prog, k, i) /\ Eval(prog[k].e, env, heap) # AnyOf(prog, k))
  BY <1>4, PythonStays
<1> QED BY <1>1, <1>2, <1>3, <1>4

(* A step is one of Python's, or none.                                      *)
LEMMA PythonStep ==
  ASSUME NEW k, NEW i, Stepping(k, i)
  PROVE  Python!Next \/ UNCHANGED Python!pyVars
<1>1. IsBody(prog) /\ k \in 1 .. Len(prog) /\ i \in 1 .. N(prog, k)
  BY DEF Stepping, Step, Ready
<1>2. CASE AtSingle(prog, k, i)
  BY <1>2, PythonSingle
<1>3. CASE AtFilter(prog, k, i)
  BY <1>3, PythonFilter DEF Python!Next
<1>4. CASE AtJoin(prog, k, i)
  BY <1>4, PythonJoin DEF Python!Next
<1>5. CASE OfHead(prog, k, i)
  BY <1>5, PythonOfHead
<1>6. CASE OfGain(prog, k, i)
  BY <1>6, PythonOfGain
<1>7. CASE OfTurn(prog, k, i)
  <2>1. CASE i = 1
    BY <1>7, <2>1, PythonTurned DEF Python!Next
  <2>2. CASE i # 1
    BY <1>7, <2>2, PythonLatch
  <2> QED BY <2>1, <2>2
<1> QED BY <1>1, <1>2, <1>3, <1>4, <1>5, <1>6, <1>7, PlaceIs

-----------------------------------------------------------------------------
LEMMA ListsOfEnv0 == Lists(Env0) \subseteq DOMAIN Heap0
<1> SUFFICES ASSUME NEW x \in DOMAIN Env0, Types[x[1]] = "list" PROVE Env0[x] \in DOMAIN Heap0
  BY DEF Lists
<1>1. x[1] \in DOMAIN Types /\ OfType(Env0[x], Kind(x), Heap0) /\ x[1] \notin Helpers
  BY ProgramsAssumption
<1>2. Kind(x) = "list"
  BY <1>1 DEF Kind, Helpers
<1> QED BY <1>1, <1>2 DEF OfType

LEMMA PythonInit == Init => Python!Init
<1> SUFFICES ASSUME Init PROVE Python!Init
  OBVIOUS
<1>1. LoopInv
  BY InitInv
<1>2. IsBody(prog) /\ pc = <<1, 1>> /\ env = Env0 /\ heap = Heap0 /\ Len(prog) \in Nat
  BY <1>1, InvIs DEF Init
<1>3. Around(prog, 1) = {}
  BY <1>2, BodyIs, NestingIs DEF Around
<1>4. Surround(prog, 1) = {} /\ Bound(prog, 1) = DOMAIN Env0
  BY <1>3 DEF Surround, Bound
<1>5. 1 \in 1 .. Len(prog) + 1
  BY <1>2
<1>6. Outside(prog, pc, 1)
  BY <1>2, <1>5, AtFirst
<1>7. PlaceAt(prog, pc) = 1
  BY <1>6, GoingOutside
<1>8. ItersAt(prog, pc, env, heap) = [k \in {} |-> 0]
  <2>1. ItersAt(prog, pc, env, heap) = Full(prog, Surround(prog, 1), env, heap)
    BY <1>2, <1>6, ItersOut
  <2> QED BY <1>4, <2>1 DEF Full
<1>9. EnvAt(prog, pc, env) = Env0
  <2>1. EnvAt(prog, pc, env) = [x \in DOMAIN Env0 |-> Env0[x]]
    BY <1>2, <1>4, <1>7 DEF EnvAt, ShownIn
  <2> QED BY <2>1, ProgramsAssumption
<1>10. Place = 1 /\ Shown = Env0 /\ Iterators = [k \in {} |-> 0]
  BY <1>1, <1>7, <1>8, <1>9, SeenNow
<1>11. PyHeap = Heap0
  <2>1. IteratorLists(Iterators) = {}
    BY <1>10 DEF IteratorLists
  <2>2. DOMAIN Heap0 \cup Lists(Shown) \cup IteratorLists(Iterators) = DOMAIN Heap0
    BY <1>10, <2>1, ListsOfEnv0
  <2>3. PyHeap = [r \in DOMAIN Heap0 |-> Heap0[r]]
    BY <1>2, <2>2 DEF PyHeap, Held
  <2>4. Heap0 \in Seq(Seq(Int))
    BY ProgramsAssumption
  <2>5. Heap0 = [r \in DOMAIN Heap0 |-> Heap0[r]]
    BY <2>4
  <2> QED BY <2>3, <2>5
<1> QED BY <1>10, <1>11 DEF Python!Init, PyHeap

LEMMA PythonRests ==
  ASSUME UNCHANGED vars
  PROVE  UNCHANGED Python!pyVars
<1>1. prog' = prog /\ pc' = pc /\ env' = env /\ heap' = heap /\ code' = code
  BY DEF vars, fixed
<1>2. Place' = Place
  BY <1>1 DEF Place, Done
<1>3. Shown' = Shown
  BY <1>1, <1>2 DEF Shown, Done
<1>4. \A k : Under(k)' = Under(k)
  BY <1>1, <1>2 DEF Under, Walk, Taken, Numbered, Value
<1>5. UnderWay' = UnderWay
  BY <1>1, <1>2 DEF UnderWay, Done, Numbered
<1>6. Iterators' = Iterators
  BY <1>4, <1>5 DEF Iterators
<1> QED BY <1>1, <1>2, <1>3, <1>6 DEF Python!pyVars

LEMMA PythonNext ==
  ASSUME FollowInv, Follows(prog), [Next]_vars
  PROVE  [Python!Next]_(Python!pyVars)
<1>1. CASE Next
  <2>1. Stepping(pc[1], pc[2])
    BY <1>1, SteppingIs
  <2> QED BY <2>1, PythonStep
<1>2. CASE UNCHANGED vars
  BY <1>2, PythonRests
<1> QED BY <1>1, <1>2

(* The loops, sums, anys, alls and comprehensions that lower_block and       *)
(* build_comp_loop lower to whiles, counters and accumulators follow         *)
(* Python's, in every body that Follows: each instruction is a step of       *)
(* PyLoops or none, through whatever breaks, continues, returns, nesting     *)
(* and appends to the lists that are walked.                                 *)
THEOREM FollowsPython == Spec /\ Follows(prog) => ImplementsPyLoops
<1> DEFINE Held_ == FollowInv /\ Follows(prog)
<1>1. Init /\ Follows(prog) => Held_
  BY StartFollows
<1>2. Held_ /\ [Next]_vars => Held_'
  <2> SUFFICES ASSUME FollowInv, Follows(prog), [Next]_vars PROVE FollowInv' /\ Follows(prog)'
    OBVIOUS
  <2>1. CASE Next
    <3>1. FollowInv' /\ prog' = prog
      BY <2>1, NextFollows, NextIsStep
    <3> QED BY <3>1
  <2>2. CASE UNCHANGED vars
    <3>1. FollowInv' /\ prog' = prog
      BY <2>2, StaysFollowed DEF vars, fixed
    <3> QED BY <3>1
  <2> QED BY <2>1, <2>2
<1>3. Init => Python!Init
  BY PythonInit
<1>4. Held_ /\ [Next]_vars => [Python!Next]_(Python!pyVars)
  BY PythonNext
<1> QED BY <1>1, <1>2, <1>3, <1>4, PTL DEF Spec, ImplementsPyLoops
=============================================================================
