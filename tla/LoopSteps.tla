----------------------------- MODULE LoopSteps ------------------------------
(***************************************************************************)
(* What one instruction does, and what Python sees of it.                  *)
(*                                                                         *)
(* A step is a relation of two states of the function (Step), and the      *)
(* places of a text are of a few kinds (AtHead, OfTurn, OfGain and so on). *)
(* For each kind: what the step stores and where the function is then (the *)
(* lemmas that end in Goes, Arrives and Reaches); which lists move from    *)
(* one holder to another (Handed); and which token, bindings and iterators *)
(* Python has after it, in terms of those it had before (the lemmas that   *)
(* begin with Seen).                                                       *)
(***************************************************************************)
EXTENDS LoopProofs

-----------------------------------------------------------------------------
(* What a step does, as a relation of the two states.                       *)

Onward(p, k, i) == IF i < N(p, k) THEN <<k, i + 1>> ELSE <<k + 1, 1>>

Stored_(d, en, h) ==
  CASE d.op = "let"  -> Eval(d.e, en, h)
    [] d.op = "load" -> h[en[d.l]][en[d.i] + 1]
    [] d.op = "add"  -> en[d.l] + Eval(d.e, en, h)

Effect(p, k, i, en, h, at2, en2, h2) ==
  LET d == D(p, k, i)
  IN  /\ d.op \in {"let", "load", "add"} =>
           en2 = With(en, d.x, Stored_(d, en, h)) /\ h2 = h /\ at2 = Onward(p, k, i)
      /\ d.op \in {"new", "concat"} =>
           /\ en2 = With(en, d.x, Len(h) + 1)
           /\ h2 = Append(h, IF d.op = "new" THEN <<>> ELSE Append(h[en[d.l]], Eval(d.e, en, h)))
           /\ at2 = Onward(p, k, i)
      /\ d.op = "append" =>
           /\ en2 = en /\ at2 = Onward(p, k, i)
           /\ h2 = [h EXCEPT ![en[d.l]] = Append(@, Eval(d.e, en, h))]
      /\ d.op \notin {"let", "load", "add", "new", "concat", "append"} => en2 = en /\ h2 = h
      /\ d.op \in {"if", "while"} =>
           at2 = IF Eval(d.c, en, h) THEN Onward(p, k, i) ELSE Dest(p, k, i)
      /\ d.op \in {"else", "next", "end", "break", "continue"} => at2 = Dest(p, k, i)
      /\ d.op \in {"fi", "latch"} => at2 = Onward(p, k, i)
      /\ d.op = "return" => at2 = <<Len(p) + 1, 1>>

LEMMA Acts ==
  ASSUME LoopInv, Next
  PROVE  Effect(prog, pc[1], pc[2], env, heap, pc', env', heap')
<1> DEFINE k == pc[1]
           i == pc[2]
           d == D(prog, k, i)
<1>1. ~ Done
  BY NextFlows
<1>2. /\ IsBody(prog) /\ pc = <<k, i>> /\ k \in 1 .. Len(prog) /\ i \in 1 .. N(prog, k)
      /\ Now = d /\ Len(code) = Len(prog) /\ code = Compiled(prog) /\ Sound(prog, k, i)
  BY <1>1, NowIs DEF LoopInv
<1>3. After(code, pc) = Onward(prog, k, i)
  <2> HIDE DEF k, i
  <2> QED BY <1>2, AfterIs DEF Onward
<1>4. d.op \in Branches => Branch(code, pc) = Dest(prog, k, i)
  <2> HIDE DEF k, i
  <2> QED BY <1>2, BranchIs
<1>5. Do(code, pc) = d
  BY <1>2 DEF Now
<1> SUFFICES Effect(prog, k, i, env, heap, pc', env', heap')
  OBVIOUS
<1> HIDE DEF d, k, i
<1>6. D(prog, k, i) = d
  BY DEF d
<1>7. CASE Store
  <2>1. /\ d.op \in {"let", "load", "add"} /\ heap' = heap /\ pc' = Onward(prog, k, i)
        /\ env' = With(env, d.x, Stored_(d, env, heap))
    BY <1>2, <1>3, <1>7 DEF Store, At_, Value, Stored_
  <2> QED BY <1>6, <2>1 DEF Effect
<1>8. CASE Make
  <2>1. /\ d.op \in {"new", "concat"} /\ pc' = Onward(prog, k, i)
        /\ env' = With(env, d.x, Len(heap) + 1)
        /\ heap' = Append(heap, IF d.op = "new" THEN <<>> ELSE Append(heap[env[d.l]], Eval(d.e, env, heap)))
    BY <1>2, <1>3, <1>8 DEF Make, At_, Value
  <2> QED BY <1>6, <2>1 DEF Effect
<1>9. CASE Push
  <2>1. /\ d.op = "append" /\ pc' = Onward(prog, k, i) /\ env' = env
        /\ heap' = [heap EXCEPT ![env[d.l]] = Append(@, Eval(d.e, env, heap))]
    BY <1>2, <1>3, <1>9 DEF Push, At_, Value
  <2> QED BY <1>6, <2>1 DEF Effect
<1>10. CASE Goto
  <2>1. d.op \in {"else", "next", "end", "break", "continue"} /\ env' = env /\ heap' = heap /\ pc' = Target
    BY <1>2, <1>10 DEF Goto, At_
  <2>2. Target = Branch(code, pc)
    BY <1>2, <1>5, <2>1 DEF Target, Branch
  <2>3. d.op \in Branches
    BY <2>1 DEF Branches
  <2> QED BY <1>4, <1>6, <2>1, <2>2, <2>3 DEF Effect
<1>11. CASE Fall
  <2>1. d.op \in {"fi", "latch"} /\ env' = env /\ heap' = heap /\ pc' = Onward(prog, k, i)
    BY <1>2, <1>3, <1>11 DEF Fall, At_
  <2> QED BY <1>6, <2>1 DEF Effect
<1>12. CASE Test
  <2>1. /\ d.op \in {"if", "while"} /\ env' = env /\ heap' = heap
        /\ pc' = IF Eval(d.c, env, heap) THEN Onward(prog, k, i)
                 ELSE After(code, Position(code, IF d.op = "if" THEN "else" ELSE "end", d.id))
    BY <1>2, <1>3, <1>12 DEF Test, At_, Value
  <2>2. After(code, Position(code, IF d.op = "if" THEN "else" ELSE "end", d.id)) = Branch(code, pc)
    BY <1>5, <2>1 DEF Branch
  <2>3. d.op \in Branches
    BY <2>1 DEF Branches
  <2> QED BY <1>4, <1>6, <2>1, <2>2, <2>3 DEF Effect
<1>13. CASE Leave
  <2>1. d.op = "return" /\ env' = env /\ heap' = heap /\ pc' = <<Len(prog) + 1, 1>>
    BY <1>2, <1>13 DEF Leave, At_
  <2> QED BY <1>6, <2>1 DEF Effect
<1> QED BY <1>7, <1>8, <1>9, <1>10, <1>11, <1>12, <1>13 DEF Next

(* The state an instruction is run in, and its step.                        *)
Ready(p, k, i, en, h) ==
  /\ IsBody(p) /\ Follows(p) /\ k \in 1 .. Len(p) /\ i \in 1 .. N(p, k)
  /\ Fine(en, h) /\ Known(p, k, i) \subseteq DOMAIN en /\ Len(h) >= Len(Heap0)
  /\ Prepared(p, <<k, i>>, en)
  /\ Loading(p, <<k, i>>, en, h)
  /\ OldIsNew(p, <<k, i>>, en)
  /\ AccsApart(p, <<k, i>>, en)
  /\ Unknown(p, <<k, i>>, en)
  /\ FoundOut(p, <<k, i>>, en, h)

Step(p, k, i, en, h, at2, en2, h2) ==
  /\ Ready(p, k, i, en, h)
  /\ Effect(p, k, i, en, h, at2, en2, h2)
  /\ at2 = <<Len(p) + 1, 1>> \/ Flows(p, k, i, at2)
  /\ InText(p, at2) /\ Fine(en2, h2) /\ HasKnown(p, at2, en2)

LEMMA Ops ==
  ASSUME NEW p, IsBody(p), NEW k \in 1 .. Len(p), NEW i \in 1 .. N(p, k)
  PROVE  D(p, k, i).op \in {"let", "load", "add", "new", "concat", "append", "if", "while", "else", "fi",
                            "next", "latch", "end", "break", "continue", "return"}
BY SoundIs DEF Sound

LEMMA EnvKept ==
  ASSUME NEW p, NEW k, NEW i, NEW en, NEW h, NEW at2, NEW en2, NEW h2,
         Step(p, k, i, en, h, at2, en2, h2), NEW y \in Known(p, k, i), y \notin Stored(D(p, k, i))
  PROVE  en2[y] = en[y]
<1> DEFINE d == D(p, k, i)
<1>1. y \in DOMAIN en /\ Effect(p, k, i, en, h, at2, en2, h2)
  BY DEF Step, Ready
<1>2. D(p, k, i) = d
  OBVIOUS
<1> HIDE DEF d
<1>3. CASE d.op \in {"let", "load", "add"}
  BY <1>1, <1>2, <1>3 DEF Effect, With, Stored
<1>4. CASE d.op \in {"new", "concat"}
  BY <1>1, <1>2, <1>4 DEF Effect, With, Stored
<1>5. CASE d.op \notin {"let", "load", "add", "new", "concat"}
  BY <1>1, <1>2, <1>5 DEF Effect
<1> QED BY <1>3, <1>4, <1>5

LEMMA HeapKept ==
  ASSUME NEW p, NEW k, NEW i, NEW en, NEW h, NEW at2, NEW en2, NEW h2,
         Step(p, k, i, en, h, at2, en2, h2)
  PROVE  /\ DOMAIN h \subseteq DOMAIN h2 /\ Len(h2) >= Len(h) /\ Len(h) \in Nat
         /\ D(p, k, i).op # "append" => \A r \in DOMAIN h : h2[r] = h[r]
         /\ D(p, k, i).op \notin {"new", "concat", "append"} => h2 = h
<1> DEFINE d == D(p, k, i)
<1>1. Effect(p, k, i, en, h, at2, en2, h2) /\ h \in Seq(Seq(Int)) /\ D(p, k, i) = d /\ h2 \in Seq(Seq(Int))
  BY DEF Step, Ready, Fine
<1> HIDE DEF d
<1>2. CASE d.op \in {"new", "concat"}
  <2> DEFINE s == IF d.op = "new" THEN <<>> ELSE Append(h[en[d.l]], Eval(d.e, en, h))
  <2>1. h2 = Append(h, s)
    BY <1>1, <1>2 DEF Effect
  <2> HIDE DEF s
  <2>0. h \in Seq(Seq(Int)) /\ Len(h) \in Nat /\ DOMAIN h = 1 .. Len(h) /\ DOMAIN h2 = 1 .. Len(h2)
    BY <1>1
  <2>2. Len(h2) = Len(h) + 1 /\ \A r \in 1 .. Len(h) : h2[r] = h[r]
    BY <2>0, <2>1
  <2>3. DOMAIN h \subseteq DOMAIN h2 /\ Len(h2) >= Len(h) /\ \A r \in DOMAIN h : h2[r] = h[r]
    BY <2>0, <2>2
  <2> QED BY <1>1, <1>2, <2>0, <2>3
<1>3. CASE d.op = "append"
  <2>1. h2 = [h EXCEPT ![en[d.l]] = Append(@, Eval(d.e, en, h))]
    BY <1>1, <1>3 DEF Effect
  <2>2. DOMAIN h2 = DOMAIN h
    BY <2>1
  <2>3. DOMAIN h = 1 .. Len(h) /\ DOMAIN h2 = 1 .. Len(h2) /\ Len(h) \in Nat /\ Len(h2) \in Nat
    BY <1>1
  <2>4. Len(h2) = Len(h)
    BY <2>2, <2>3
  <2> QED BY <1>1, <1>3, <2>2, <2>3, <2>4
<1>4. CASE d.op \notin {"new", "concat", "append"}
  <2>1. h2 = h
    <3>1. d.op \in {"let", "load", "add"} => h2 = h
      BY <1>1 DEF Effect
    <3> QED BY <1>1, <1>4, <3>1 DEF Effect
  <2> QED BY <1>1, <2>1
<1> QED BY <1>1, <1>2, <1>3, <1>4 DEF d

LEMMA AppendIs ==
  ASSUME NEW p, IsBody(p), NEW k \in 1 .. Len(p), NEW i \in 1 .. N(p, k), D(p, k, i).op = "append"
  PROVE  AtSingle(p, k, i) /\ p[k].op = "append" /\ \A g \in Around(p, k) : p[g].op # "gather"
<1>1. ~ OfHead(p, k, i)
  BY DEF OfHead, AtWhile, AtCount, AtCounter, AtIndex, AtReload, AtList, AtLoad, While, Let, Load
<1>2. ~ OfGain(p, k, i)
  BY DEF OfGain, AtGain, AtTest, AtKnown, AtStop, AtOther, AtSettled, Gained, If, Let, Stop, Mark
<1>3. ~ OfTurn(p, k, i)
  BY DEF OfTurn, AtSkipped, AtKept, AtNext, AtLatch, AtBump, AtCountUp, AtEnd, Turn, Mark, Bump, Let
<1>4. ~ AtFilter(p, k, i) /\ ~ AtJoin(p, k, i)
  BY DEF AtFilter, AtJoin, If, Mark
<1>5. AtSingle(p, k, i)
  BY <1>1, <1>2, <1>3, <1>4, PlaceIs
<1>6. p[k].op = "append"
  <2>1. D(p, k, i) = Only(p, k)
    BY <1>5 DEF AtSingle
  <2>2. p[k].op \in {"let", "append", "if", "else", "gather", "result", "break", "continue", "return"}
    BY <1>5, SingleOps DEF AtSingle
  <2>3. p[k].op = "gather" => Only(p, k).op # "append"
    <3>1. Typed(p, k)
      BY BodyIs
    <3>2. p[k].op = "gather" => p[k].how \in {"sum", "any", "all", "list"}
      BY <3>1 DEF Typed
    <3> QED BY <3>2 DEF Only, Start, Let
  <2>4. p[k].op \in {"let", "if", "else", "result", "break", "continue", "return"} => Only(p, k).op # "append"
    BY DEF Only, Let, If, Mark
  <2> QED BY <2>1, <2>2, <2>3, <2>4
<1>7. \A g \in Around(p, k) : p[g].op # "gather"
  <2>1. k \in 1 .. Len(p) + 1
    BY BodyIs
  <2>2. ~ InExpression(p, k)
    BY <1>6, ExpressionIs DEF Each
  <2> QED BY <2>1, <2>2, StatementIs DEF Gathers
<1> QED BY <1>5, <1>6, <1>7

LEMMA GoingIs ==
  ASSUME NEW p, IsBody(p), NEW k \in 1 .. Len(p), NEW i \in 1 .. N(p, k), NEW l \in Going(p, <<k, i>>)
  PROVE  /\ l \in 1 .. Len(p) /\ p[l].op \in {"for", "gather"}
         /\ p[l].op = "gather" => l \in Around(p, A(p, k, i))
<1>1. PlaceAt(p, <<k, i>>) = A(p, k, i) /\ A(p, k, i) \in 1 .. Len(p) /\ A(p, k, i) \in 1 .. Len(p) + 1
  BY PlaceAtIs, BodyIs
<1>2. Around(p, A(p, k, i)) \subseteq 1 .. Len(p)
  BY <1>1, AroundOf
<1> QED BY <1>1, <1>2 DEF Going, Surround, Entered

(* A step keeps the iterators of the loops and gatherings it does not move. *)
LEMMA StepKeeps ==
  ASSUME NEW p, NEW k, NEW i, NEW en, NEW h, NEW at2, NEW en2, NEW h2,
         Step(p, k, i, en, h, at2, en2, h2), NEW l \in Going(p, <<k, i>>), ~ Own(p, k, i, l)
  PROVE  /\ \A y \in ReadsOf(p, l) : en2[y] = en[y]
         /\ SameUnder(p, l, en, h, en2, h2)
<1>1. /\ IsBody(p) /\ Follows(p) /\ k \in 1 .. Len(p) /\ i \in 1 .. N(p, k)
      /\ Fine(en, h) /\ Known(p, k, i) \subseteq DOMAIN en
  BY DEF Step, Ready
<1>2. l \in 1 .. Len(p) /\ p[l].op \in {"for", "gather"} /\ (p[l].op = "gather" => l \in Around(p, A(p, k, i)))
  BY <1>1, GoingIs
<1>3. ReadsOf(p, l) \subseteq Known(p, k, i)
  BY <1>1, ReadsKnown
<1>4. \A y \in ReadsOf(p, l) : en2[y] = en[y]
  <2> TAKE y \in ReadsOf(p, l)
  <2>1. y \notin Stored(D(p, k, i))
    BY <1>1, StoreApart
  <2> QED BY <1>3, <2>1, EnvKept
<1>5. SameAcc(p, l, en, h, h2)
  <2> SUFFICES ASSUME p[l].op = "gather", p[l].how = "list" PROVE h2[en[Acc(p, l)]] = h[en[Acc(p, l)]]
    BY DEF SameAcc
  <2>1. D(p, k, i).op # "append"
    <3> SUFFICES ASSUME D(p, k, i).op = "append" PROVE FALSE
      OBVIOUS
    <3>1. AtSingle(p, k, i) /\ \A g \in Around(p, k) : p[g].op # "gather"
      BY <1>1, AppendIs
    <3> QED BY <1>2, <3>1 DEF AtSingle
  <2>2. Acc(p, l) \in DOMAIN en
    BY <1>1, <1>3 DEF ReadsOf
  <2>3. Kind(Acc(p, l)) = "list"
    BY <1>1, <1>2, AccKinds DEF Makes
  <2>4. en[Acc(p, l)] \in DOMAIN h
    BY <1>1, <2>2, <2>3 DEF Fine, OfType
  <2> QED BY <2>1, <2>4, HeapKept
<1>6. SameUnder(p, l, en, h, en2, h2)
  <2>1. SameOn(ReadsOf(p, l), en, en2)
    BY <1>4 DEF SameOn
  <2> QED BY <1>1, <1>2, <1>5, <2>1, UnderKept
<1> QED BY <1>4, <1>6

LEMMA BoundKept ==
  ASSUME NEW p, NEW k, NEW i, NEW en, NEW h, NEW at2, NEW en2, NEW h2,
         Step(p, k, i, en, h, at2, en2, h2), NEW x \in Bound(p, A(p, k, i))
  PROVE  /\ x \notin Stored(D(p, k, i)) => en2[x] = en[x]
         /\ ~ (AtSingle(p, k, i) /\ p[k].op \in {"let", "result"} /\ x = p[k].x) => en2[x] = en[x]
<1>1. IsBody(p) /\ Follows(p) /\ k \in 1 .. Len(p) /\ i \in 1 .. N(p, k)
  BY DEF Step, Ready
<1>2. x \in Known(p, k, i)
  BY <1>1, ReadsKnown
<1>3. x \notin Stored(D(p, k, i)) => en2[x] = en[x]
  BY <1>2, EnvKept
<1>4. x \in Stored(D(p, k, i)) => AtSingle(p, k, i) /\ p[k].op \in {"let", "result"} /\ x = p[k].x
  BY <1>1, StoreApart
<1> QED BY <1>3, <1>4

-----------------------------------------------------------------------------
(* The lists Python sees.                                                   *)

HeldAt(p, at, en, h) == Held(h, ShownIn(p, PlaceAt(p, at), en), ItersAt(p, at, en, h))

Refs(e, it) == DOMAIN Heap0 \cup Lists(e) \cup IteratorLists(it)

LEMMA RefsAre ==
  ASSUME NEW p, IsBody(p), NEW at, InText(p, at), NEW en, NEW h
  PROVE  Refs(ShownIn(p, PlaceAt(p, at), en), ItersAt(p, at, en, h))
           = DOMAIN Heap0 \cup {en[x] : x \in Holders(p, at)}
<1> DEFINE a  == PlaceAt(p, at)
           e  == ShownIn(p, a, en)
           it == ItersAt(p, at, en, h)
<1>1. a \in 1 .. Len(p) + 1 /\ (Entered(p, at) => a \in 1 .. Len(p) /\ p[a].op = "for") /\ Len(p) \in Nat
  <2>1. Len(p) \in Nat
    BY BodyIs
  <2>2. CASE at = <<Len(p) + 1, 1>>
    BY <2>1, <2>2 DEF PlaceAt, Entered
  <2>3. CASE at = <<at[1], at[2]>> /\ at[1] \in 1 .. Len(p) /\ at[2] \in 1 .. N(p, at[1])
    <3>1. PlaceAt(p, <<at[1], at[2]>>) \in 1 .. Len(p)
      BY <2>3, PlaceAtIs
    <3>2. a \in 1 .. Len(p)
      BY <2>3, <3>1
    <3> QED BY <2>1, <3>2 DEF Entered
  <2> QED BY <2>2, <2>3 DEF InText
<1>2. Lists(e) = {en[x] : x \in {y \in Bound(p, a) : Kind(y) = "list"}}
  <2>1. \A x \in Bound(p, a) : Kind(x) = Types[x[1]]
    BY <1>1, NameKinds, Kinds
  <2> QED BY <2>1 DEF Lists, ShownIn
<1>3. DOMAIN it = Going(p, at) /\ \A l \in Going(p, at) : l \in 1 .. Len(p) /\ p[l].op \in {"for", "gather"}
  <2>1. Around(p, a) \subseteq 1 .. Len(p)
    BY <1>1, AroundOf
  <2> QED BY <1>1, <2>1 DEF ItersAt, ItersIn, Going, Surround
<1>4. ASSUME NEW l \in Going(p, at), ~ Indexed(p, l)
      PROVE  \A j \in ToSet(it[l].of) : j.k # "list"
  <2>0. PICK t1, t2 : it[l] = UnderIn(p, l, t1, t2, en, h)
    BY DEF ItersAt, ItersIn, Going
  <2>1. CASE p[l].op = "gather"
    BY <2>0, <2>1 DEF UnderIn, GatherIn, ToSet
  <2>2. CASE p[l].op = "for"
    <3>1. it[l].of = [m \in DOMAIN p[l].its |-> WalkIn(p, l, m, t1, en, h)]
      BY <2>0, <2>2 DEF UnderIn, LoopIn
    <3>2. \A m \in DOMAIN p[l].its : WalkIn(p, l, m, t1, en, h).k = "range"
      BY <1>4 DEF WalkIn
    <3> HIDE DEF it
    <3> QED BY <3>1, <3>2 DEF ToSet
  <2> QED BY <1>3, <2>1, <2>2
<1>5. ASSUME NEW l \in Going(p, at), Indexed(p, l)
      PROVE  /\ \A j \in ToSet(it[l].of) : j.k = "list" /\ \E m \in DOMAIN p[l].its : j.list = en[Holder(p, l, m)]
             /\ \A m \in DOMAIN p[l].its : \E j \in ToSet(it[l].of) : j.k = "list" /\ j.list = en[Holder(p, l, m)]
  <2>0. PICK t1, t2 : it[l] = UnderIn(p, l, t1, t2, en, h)
    BY DEF ItersAt, ItersIn, Going
  <2>1. p[l].op = "for"
    BY <1>5 DEF Indexed
  <2>2. it[l].of = [m \in DOMAIN p[l].its |-> WalkIn(p, l, m, t1, en, h)]
    BY <2>0, <2>1 DEF UnderIn, LoopIn
  <2>3. \A m \in DOMAIN p[l].its : LET j == WalkIn(p, l, m, t1, en, h)
                                   IN  j.k = "list" /\ j.list = en[Holder(p, l, m)]
    BY <1>5 DEF WalkIn
  <2> HIDE DEF it
  <2> QED BY <2>2, <2>3 DEF ToSet
<1>6. IteratorLists(it) = UNION {{en[Holder(p, l, m)] : m \in DOMAIN p[l].its} : l \in {j \in Going(p, at) : Indexed(p, j)}}
  <2> HIDE DEF it
  <2>1. ASSUME NEW r \in IteratorLists(it)
        PROVE  \E l \in Going(p, at) : Indexed(p, l) /\ \E m \in DOMAIN p[l].its : r = en[Holder(p, l, m)]
    <3>1. PICK l \in Going(p, at) : \E j \in ToSet(it[l].of) : j.k = "list" /\ r = j.list
      BY <1>3, <2>1 DEF IteratorLists
    <3> QED BY <1>4, <1>5, <3>1
  <2>2. ASSUME NEW l \in Going(p, at), Indexed(p, l), NEW m \in DOMAIN p[l].its
        PROVE  en[Holder(p, l, m)] \in IteratorLists(it)
    <3>1. PICK j \in ToSet(it[l].of) : j.k = "list" /\ j.list = en[Holder(p, l, m)]
      BY <1>5, <2>2
    <3> QED BY <1>3, <3>1 DEF IteratorLists
  <2> QED BY <2>1, <2>2
<1> QED BY <1>2, <1>6 DEF Refs, Holders

LEMMA HeldIs ==
  ASSUME NEW h, NEW e, NEW it
  PROVE  DOMAIN Held(h, e, it) = Refs(e, it) /\ \A r \in Refs(e, it) : Held(h, e, it)[r] = h[r]
BY DEF Held, Refs

LEMMA HeldAgain ==
  ASSUME NEW h, NEW hh, NEW e, NEW it, \A r \in Refs(e, it) : hh[r] = h[r]
  PROVE  Held(hh, e, it) = Held(h, e, it)
BY DEF Held, Refs

-----------------------------------------------------------------------------
(* The loops and gatherings around the places a step leads to.              *)

LEMMA SurroundIs ==
  ASSUME NEW p, IsBody(p), NEW k \in 1 .. Len(p)
  PROVE  /\ Surround(p, k) \subseteq 1 .. Len(p) /\ k \notin Surround(p, k)
         /\ p[k].op \in {"for", "gather"} =>
              /\ Surround(p, k + 1) = Surround(p, k) \cup {k}
              /\ Surround(p, End(p, k)) = Surround(p, k) \cup {k}
              /\ Surround(p, End(p, k) + 1) = Surround(p, k)
         /\ p[k].op \in {"if", "while"} =>
              /\ Surround(p, k + 1) = Surround(p, k)
              /\ Surround(p, End(p, k)) = Surround(p, k)
              /\ Surround(p, End(p, k) + 1) = Surround(p, k)
         /\ p[k].op = "if" =>
              /\ Surround(p, Else(p, k)) = Surround(p, k)
              /\ Surround(p, Else(p, k) + 1) = Surround(p, k)
         /\ p[k].op \notin Opens \cup Closes => Surround(p, k + 1) = Surround(p, k)
<1>1. Surround(p, k) \subseteq 1 .. Len(p) /\ k \notin Surround(p, k)
  <2>1. k \in 1 .. Len(p) + 1
    BY BodyIs
  <2> QED BY <2>1, AroundOf DEF Surround
<1>2. p[k].op \in Opens =>
        /\ Around(p, k + 1) = Around(p, k) \cup {k}
        /\ Around(p, End(p, k)) = Around(p, k) \cup {k}
        /\ Around(p, End(p, k) + 1) = Around(p, k)
  BY AfterEnd
<1>3. p[k].op = "if" =>
        /\ Around(p, Else(p, k)) = Around(p, k) \cup {k}
        /\ Around(p, Else(p, k) + 1) = Around(p, k) \cup {k}
  BY ElseIs
<1>4. p[k].op \notin Opens \cup Closes => Around(p, k + 1) = Around(p, k)
  BY AroundIs
<1> QED BY <1>1, <1>2, <1>3, <1>4 DEF Surround, Opens

LEMMA SurroundsBound ==
  ASSUME NEW p, NEW j, NEW k
  PROVE  /\ Surround(p, j) = Surround(p, k) => Bound(p, j) = Bound(p, k)
         /\ \A l : p[l].op \in {"for", "gather"} /\ Surround(p, j) = Surround(p, k) \cup {l} =>
              Bound(p, j) = Bound(p, k) \cup Targets(p, l)
<1> DEFINE Under_(S) == DOMAIN Env0 \cup UNION {Targets(p, l) : l \in S}
<1>1. \A m : Bound(p, m) = Under_(Surround(p, m))
  BY DEF Bound, Surround, Targets
<1>2. \A S, l : Under_(S \cup {l}) = Under_(S) \cup Targets(p, l)
  OBVIOUS
<1> HIDE DEF Under_
<1>3. ASSUME Surround(p, j) = Surround(p, k) PROVE Bound(p, j) = Bound(p, k)
  BY <1>1, <1>3
<1>4. ASSUME NEW l, Surround(p, j) = Surround(p, k) \cup {l}
      PROVE  Bound(p, j) = Bound(p, k) \cup Targets(p, l)
  <2>1. Bound(p, j) = Under_(Surround(p, k) \cup {l})
    BY <1>1, <1>4
  <2>2. Under_(Surround(p, k) \cup {l}) = Under_(Surround(p, k)) \cup Targets(p, l)
    BY <1>2
  <2> QED BY <1>1, <2>1, <2>2
<1> QED BY <1>3, <1>4

(* A break and a continue.                                                  *)
LEMMA OutOf ==
  ASSUME NEW p, IsBody(p), NEW k \in 1 .. Len(p), p[k].op \in {"break", "continue"}
  PROVE  LET l == p[k].of
         IN  /\ l \in 1 .. Len(p) /\ IsLoop(p[l]) /\ k < End(p, l) /\ End(p, l) \in 1 .. Len(p)
             /\ Surround(p, k) = Surround(p, l) \cup (IF p[l].op = "for" THEN {l} ELSE {})
<1> DEFINE l == p[k].of
<1>0. k \in 1 .. Len(p) + 1 /\ 1 \in 1 .. N(p, k) /\ Single(p[k])
  BY BodyIs, NIs DEF Single
<1>1. D(p, k, 1).op \in {"break", "continue"}
  <2>1. D(p, k, 1) = Only(p, k)
    BY <1>0, SingleIs DEF D
  <2> QED BY <2>1 DEF Only
<1>2. /\ l \in Around(p, k) /\ l \in 1 .. Len(p) /\ IsLoop(p[l])
      /\ \A j \in Around(p, k) : IsLoop(p[j]) => j <= l
      /\ k < End(p, l)
  BY <1>0, <1>1, JumpIs
<1>3. End(p, l) \in 1 .. Len(p) /\ Around(p, l) \subseteq Around(p, k) /\ l \notin Around(p, l)
  <2>1. p[l].op \in Opens
    BY <1>2 DEF IsLoop, Opens
  <2> QED BY <1>0, <1>2, <2>1, EndIs, AroundUp
<1>4. \A j \in Surround(p, k) : p[j].op = "for"
  <2>1. ~ InExpression(p, k)
    BY ExpressionIs DEF Each
  <2> QED BY <1>0, <2>1, StatementIs DEF Gathers, Surround
<1>5. ASSUME NEW j \in Surround(p, k), j # l PROVE j \in Around(p, l)
  <2>1. j \in Around(p, k) /\ j <= l /\ j \in Nat /\ l \in Nat
    <3>1. j \in Around(p, k) /\ j <= l
      BY <1>2, <1>4 DEF Surround, IsLoop
    <3>2. j \in 1 .. Len(p)
      BY <1>0, <3>1, AroundOf
    <3> QED BY <1>2, <3>1, <3>2
  <2>2. j < l
    BY <1>5, <2>1
  <2> QED BY <1>0, <1>2, <2>1, <2>2, Nested
<1>6. Surround(p, k) = Surround(p, l) \cup (IF p[l].op = "for" THEN {l} ELSE {})
  <2>1. l \in Surround(p, k) <=> p[l].op = "for"
    BY <1>2 DEF Surround, IsLoop
  <2> QED BY <1>3, <1>5, <2>1 DEF Surround
<1> QED BY <1>2, <1>3, <1>6

-----------------------------------------------------------------------------
(* Python's iterators and bindings at places that are entered, and not.     *)

Full(p, S, en, h) == [l \in S |-> UnderIn(p, l, TRUE, TRUE, en, h)]

LEMMA ItersOutside ==
  ASSUME NEW p, IsBody(p), NEW at, PlaceAt(p, at) \in 1 .. Len(p) + 1, ~ Entered(p, at), NEW en, NEW h
  PROVE  ItersAt(p, at, en, h) = Full(p, Surround(p, PlaceAt(p, at)), en, h)
<1> DEFINE a == PlaceAt(p, at)
<1>1. \A l \in Surround(p, a) : l # a
  BY AroundOf, BodyIs DEF Surround
<1>2. \A l \in Surround(p, a) : \A t : (l # a \/ t) <=> TRUE
  BY <1>1
<1> HIDE DEF a
<1> QED BY <1>1 DEF ItersAt, ItersIn, Full, a

LEMMA ItersInside ==
  ASSUME NEW p, IsBody(p), NEW at, PlaceAt(p, at) \in 1 .. Len(p) + 1, Entered(p, at), NEW en, NEW h
  PROVE  ItersAt(p, at, en, h)
           = With(Full(p, Surround(p, PlaceAt(p, at)), en, h), PlaceAt(p, at),
                  UnderIn(p, PlaceAt(p, at), TakenAt(p, at, 1), TakenAt(p, at, 2), en, h))
<1> DEFINE a == PlaceAt(p, at)
           S == Surround(p, a)
           v(l) == UnderIn(p, l, l # a \/ TakenAt(p, at, 1), l # a \/ TakenAt(p, at, 2), en, h)
<1>1. \A l \in S : l # a
  BY AroundOf, BodyIs DEF Surround
<1>2. \A l \in S : v(l) = UnderIn(p, l, TRUE, TRUE, en, h)
  BY <1>1
<1>3. v(a) = UnderIn(p, a, TakenAt(p, at, 1), TakenAt(p, at, 2), en, h)
  <2>1. /\ (a # a \/ TakenAt(p, at, 1)) = TakenAt(p, at, 1)
        /\ (a # a \/ TakenAt(p, at, 2)) = TakenAt(p, at, 2)
    BY DEF TakenAt
  <2> QED BY <2>1
<1>4. ItersAt(p, at, en, h) = [l \in S \cup {a} |-> v(l)]
  BY DEF ItersAt, ItersIn
<1> HIDE DEF v, S, a
<1>5. [l \in S \cup {a} |-> v(l)]
        = [l \in DOMAIN Full(p, S, en, h) \cup {a} |->
             IF l = a THEN UnderIn(p, a, TakenAt(p, at, 1), TakenAt(p, at, 2), en, h)
             ELSE Full(p, S, en, h)[l]]
  BY <1>2, <1>3 DEF Full
<1> QED BY <1>4, <1>5 DEF With, a, S

LEMMA FullIs ==
  ASSUME NEW p, NEW S, NEW en, NEW h
  PROVE  /\ DOMAIN Full(p, S, en, h) = S
         /\ \A l \in S : Full(p, S, en, h)[l] = UnderIn(p, l, TRUE, TRUE, en, h)
         /\ \A T : Without(Full(p, S, en, h), T) = Full(p, S \ T, en, h)
         /\ \A l : With(Full(p, S, en, h), l, UnderIn(p, l, TRUE, TRUE, en, h)) = Full(p, S \cup {l}, en, h)
         /\ \A l, u, w : With(With(Full(p, S, en, h), l, u), l, w) = With(Full(p, S, en, h), l, w)
         /\ \A l, u : l \notin S => Without(With(Full(p, S, en, h), l, u), {l}) = Full(p, S, en, h)
BY DEF Full, With, Without

-----------------------------------------------------------------------------
(* What each instruction does, and where the function is then.              *)

Quiet(en, h, en2, h2) == en2 = en /\ h2 = h

LEMMA SingleGoes ==
  ASSUME NEW p, NEW k, NEW i, NEW en, NEW h, NEW at2, NEW en2, NEW h2,
         Step(p, k, i, en, h, at2, en2, h2), AtSingle(p, k, i)
  PROVE  LET t == p[k]
             l == t.of
         IN  /\ t.op \in {"let", "append", "if", "else", "gather", "result", "break", "continue", "return"}
             /\ t.op \in {"let", "append", "gather", "result"} => at2 = <<k + 1, 1>>
             /\ t.op = "if" => at2 = IF Eval(t.c, en, h) THEN <<k + 1, 1>> ELSE <<Else(p, k) + 1, 1>>
             /\ t.op = "else" => at2 = <<End(p, l), 1>>
             /\ t.op = "break" => at2 = <<End(p, l) + 1, 1>>
             /\ t.op = "continue" => at2 = <<End(p, l), LatchAt(p, l)>>
             /\ t.op = "return" => at2 = <<Len(p) + 1, 1>>
             /\ t.op \notin {"let", "append", "gather", "result"} => Quiet(en, h, en2, h2)
             /\ t.op = "let" => en2 = With(en, t.x, Eval(t.e, en, h)) /\ h2 = h
             /\ t.op = "result" => en2 = With(en, t.x, en[Acc(p, l)]) /\ h2 = h
             /\ t.op = "append" => en2 = en /\ h2 = [h EXCEPT ![en[t.l]] = Append(@, Eval(t.e, en, h))]
             /\ t.op = "gather" /\ t.how # "list" =>
                  h2 = h /\ en2 = With(en, Acc(p, k), IF t.how = "sum" THEN 0 ELSE t.how = "all")
             /\ t.op = "gather" /\ t.how = "list" =>
                  h2 = Append(h, <<>>) /\ en2 = With(en, Acc(p, k), Len(h) + 1)
<1> DEFINE t == p[k]
<1>1. /\ IsBody(p) /\ k \in 1 .. Len(p) /\ i \in 1 .. N(p, k) /\ Effect(p, k, i, en, h, at2, en2, h2)
      /\ Single(t) /\ t.op # "while" /\ i = 1 /\ D(p, k, i) = Only(p, k)
  BY DEF Step, Ready, AtSingle
<1>2. N(p, k) = 1
  BY <1>1, NIs
<1>3. Onward(p, k, i) = <<k + 1, 1>>
  BY <1>1, <1>2 DEF Onward
<1>4. t.op \in {"let", "append", "if", "else", "gather", "result", "break", "continue", "return"}
  BY <1>1, SingleOps
<1>5. D(p, k, i) = Only(p, k)
  BY <1>1
<1>6. CASE t.op = "let"
  <2>1. D(p, k, i) = Let(t.x, t.e)
    BY <1>5, <1>6 DEF Only
  <2>2. en2 = With(en, t.x, Eval(t.e, en, h)) /\ h2 = h /\ at2 = <<k + 1, 1>>
    BY <1>1, <1>3, <2>1 DEF Effect, Let, Stored_
  <2> QED BY <1>6, <2>2
<1>7. CASE t.op = "append"
  <2>1. D(p, k, i) = [op |-> "append", l |-> t.l, e |-> t.e]
    BY <1>5, <1>7 DEF Only
  <2>2. en2 = en /\ h2 = [h EXCEPT ![en[t.l]] = Append(@, Eval(t.e, en, h))] /\ at2 = <<k + 1, 1>>
    BY <1>1, <1>3, <2>1 DEF Effect
  <2> QED BY <1>7, <2>2
<1>8. CASE t.op = "if"
  <2>1. D(p, k, i) = If(t.c, <<"if", k>>)
    BY <1>5, <1>8 DEF Only
  <2>2. Dest(p, k, i) = <<Else(p, k) + 1, 1>>
    BY <1>8, <2>1 DEF Dest, If, IfDest
  <2>3. Quiet(en, h, en2, h2) /\ at2 = IF Eval(t.c, en, h) THEN <<k + 1, 1>> ELSE <<Else(p, k) + 1, 1>>
    BY <1>1, <1>3, <2>1, <2>2 DEF Effect, If, Quiet
  <2> QED BY <1>8, <2>3
<1>9. CASE t.op = "else"
  <2>1. D(p, k, i) = Mark("else", <<"if", t.of>>)
    BY <1>5, <1>9 DEF Only
  <2>2. Dest(p, k, i) = <<End(p, t.of), 1>>
    BY <1>9, <2>1 DEF Dest, Mark, ElseDest
  <2>3. Quiet(en, h, en2, h2) /\ at2 = <<End(p, t.of), 1>>
    BY <1>1, <2>1, <2>2 DEF Effect, Mark, Quiet
  <2> QED BY <1>9, <2>3
<1>10. CASE t.op = "result"
  <2>1. D(p, k, i) = Let(t.x, Var(Acc(p, t.of)))
    BY <1>5, <1>10 DEF Only
  <2>2. Eval(Var(Acc(p, t.of)), en, h) = en[Acc(p, t.of)]
    BY DEF Eval, Var, Comparisons, Number, Atom
  <2>3. en2 = With(en, t.x, en[Acc(p, t.of)]) /\ h2 = h /\ at2 = <<k + 1, 1>>
    BY <1>1, <1>3, <2>1, <2>2 DEF Effect, Let, Stored_
  <2> QED BY <1>10, <2>3
<1>11. CASE t.op \in {"break", "continue", "return"}
  <2>1. D(p, k, i) = [op |-> t.op]
    BY <1>5, <1>11 DEF Only
  <2>2. t.op = "break" => Dest(p, k, i) = <<End(p, t.of) + 1, 1>>
    BY <2>1 DEF Dest
  <2>3. t.op = "continue" => Dest(p, k, i) = <<End(p, t.of), LatchAt(p, t.of)>>
    BY <2>1 DEF Dest
  <2>4. Quiet(en, h, en2, h2)
    BY <1>1, <1>11, <2>1 DEF Effect, Quiet
  <2>5. /\ t.op = "break" => at2 = <<End(p, t.of) + 1, 1>>
        /\ t.op = "continue" => at2 = <<End(p, t.of), LatchAt(p, t.of)>>
        /\ t.op = "return" => at2 = <<Len(p) + 1, 1>>
    BY <1>1, <1>11, <2>1, <2>2, <2>3 DEF Effect
  <2> QED BY <1>11, <2>4, <2>5
<1>12. CASE t.op = "gather"
  <2>1. D(p, k, i) = Start(p, k)
    BY <1>5, <1>12 DEF Only
  <2>2. t.how \in {"sum", "any", "all", "list"}
    BY <1>1, <1>12, AccKinds
  <2>3. CASE t.how = "list"
    <3>1. D(p, k, i) = [op |-> "new", x |-> Acc(p, k)]
      BY <2>1, <2>3 DEF Start
    <3>2. h2 = Append(h, <<>>) /\ en2 = With(en, Acc(p, k), Len(h) + 1) /\ at2 = <<k + 1, 1>>
      BY <1>1, <1>3, <3>1 DEF Effect
    <3> QED BY <1>12, <2>3, <3>2
  <2>4. CASE t.how # "list"
    <3> DEFINE e == IF t.how = "sum" THEN Num(0) ELSE Truth(t.how = "all")
    <3>1. D(p, k, i) = Let(Acc(p, k), e)
      BY <2>1, <2>2, <2>4 DEF Start
    <3>2. Eval(e, en, h) = IF t.how = "sum" THEN 0 ELSE t.how = "all"
      BY DEF Eval, Num, Truth, Comparisons, Number, Atom
    <3> HIDE DEF e
    <3>3. h2 = h /\ en2 = With(en, Acc(p, k), Eval(e, en, h)) /\ at2 = <<k + 1, 1>>
      BY <1>1, <1>3, <3>1 DEF Effect, Let, Stored_
    <3> QED BY <1>12, <2>4, <3>2, <3>3
  <2> QED BY <2>3, <2>4
<1> QED BY <1>4, <1>6, <1>7, <1>8, <1>9, <1>10, <1>11, <1>12

LEMMA JoinGoes ==
  ASSUME NEW p, NEW k, NEW i, NEW en, NEW h, NEW at2, NEW en2, NEW h2,
         Step(p, k, i, en, h, at2, en2, h2), AtJoin(p, k, i)
  PROVE  at2 = <<k + 1, 1>> /\ Quiet(en, h, en2, h2)
<1>1. /\ IsBody(p) /\ k \in 1 .. Len(p) /\ i \in 1 .. N(p, k) /\ Effect(p, k, i, en, h, at2, en2, h2)
      /\ i = 1 /\ D(p, k, i) = Mark("fi", <<"if", p[k].of>>) /\ p[k].op = "end" /\ p[p[k].of].op = "if"
  BY DEF Step, Ready, AtJoin
<1>2. N(p, k) = 1
  BY <1>1, NIs
<1>3. Onward(p, k, i) = <<k + 1, 1>>
  BY <1>1, <1>2 DEF Onward
<1> QED BY <1>1, <1>3 DEF Effect, Mark, Quiet

LEMMA FilterGoes ==
  ASSUME NEW p, NEW k, NEW i, NEW en, NEW h, NEW at2, NEW en2, NEW h2,
         Step(p, k, i, en, h, at2, en2, h2), AtFilter(p, k, i)
  PROVE  /\ Quiet(en, h, en2, h2)
         /\ at2 = IF Eval(p[k].c, en, h) THEN (IF Reloads(p, k) THEN <<k, 2>> ELSE <<k + 1, 1>>)
                  ELSE <<End(p, p[k].of), Q(p, p[k].of) + 2>>
<1>1. /\ IsBody(p) /\ k \in 1 .. Len(p) /\ i \in 1 .. N(p, k) /\ Effect(p, k, i, en, h, at2, en2, h2)
      /\ i = 1 /\ D(p, k, i) = If(p[k].c, <<"filter", p[k].of>>) /\ p[k].op = "filter"
  BY DEF Step, Ready, AtFilter
<1>2. N(p, k) = 1 + IF Reloads(p, k) THEN 1 ELSE 0
  BY <1>1, NIs
<1>3. Onward(p, k, i) = IF Reloads(p, k) THEN <<k, 2>> ELSE <<k + 1, 1>>
  BY <1>1, <1>2 DEF Onward
<1>4. Dest(p, k, i) = <<End(p, p[k].of), Q(p, p[k].of) + 2>>
  BY <1>1 DEF Dest, If, IfDest
<1> QED BY <1>1, <1>3, <1>4 DEF Effect, If, Quiet

LEMMA ReloadGoes ==
  ASSUME NEW p, NEW k, NEW i, NEW en, NEW h, NEW at2, NEW en2, NEW h2,
         Step(p, k, i, en, h, at2, en2, h2), AtReload(p, k, i)
  PROVE  LET g == IF p[k].op = "for" THEN p[k].of ELSE Whole(p, k)
         IN  at2 = <<k + 1, 1>> /\ h2 = h /\ en2 = With(en, Old(p, g), en[Acc(p, g)])
<1> DEFINE g == IF p[k].op = "for" THEN p[k].of ELSE p[p[k].of].of
<1>1. /\ IsBody(p) /\ k \in 1 .. Len(p) /\ i \in 1 .. N(p, k) /\ Effect(p, k, i, en, h, at2, en2, h2)
      /\ p[k].op \in {"for", "filter"} /\ Reloads(p, k) /\ i = IF p[k].op = "for" THEN H(p, k) + 1 ELSE 2
      /\ D(p, k, i) = Let(Old(p, g), Var(Acc(p, g)))
  BY DEF Step, Ready, AtReload
<1>2. i = N(p, k)
  BY <1>1, NIs
<1>3. Onward(p, k, i) = <<k + 1, 1>>
  BY <1>1, <1>2 DEF Onward
<1>4. Eval(Var(Acc(p, g)), en, h) = en[Acc(p, g)]
  BY DEF Eval, Var, Comparisons, Number, Atom
<1>5. Whole(p, k) = p[p[k].of].of
  BY DEF Whole
<1> HIDE DEF g
<1>6. at2 = <<k + 1, 1>> /\ h2 = h /\ en2 = With(en, Old(p, g), en[Acc(p, g)])
  BY <1>1, <1>3, <1>4 DEF Effect, Let, Stored_
<1> QED BY <1>5, <1>6 DEF g

LEMMA WhileGoes ==
  ASSUME NEW p, NEW k, NEW i, NEW en, NEW h, NEW at2, NEW en2, NEW h2,
         Step(p, k, i, en, h, at2, en2, h2), AtWhile(p, k, i)
  PROVE  /\ Quiet(en, h, en2, h2)
         /\ at2 = IF Eval(Cond(p, k), en, h) THEN Onward(p, k, i) ELSE <<End(p, k) + 1, 1>>
<1>1. /\ Effect(p, k, i, en, h, at2, en2, h2) /\ D(p, k, i) = While(Cond(p, k), LoopId(k))
  BY DEF Step, AtWhile
<1>2. Dest(p, k, i) = <<End(p, k) + 1, 1>>
  BY <1>1 DEF Dest, While
<1> QED BY <1>1, <1>2 DEF Effect, While, Quiet

(* The stores of a head.                                                    *)
Put(x, v, en, h, en2, h2) == en2 = With(en, x, v) /\ h2 = h

LEMMA HeadGoes ==
  ASSUME NEW p, NEW k, NEW i, NEW en, NEW h, NEW at2, NEW en2, NEW h2,
         Step(p, k, i, en, h, at2, en2, h2), p[k].op = "for", i <= H(p, k), i # W(p, k)
  PROVE  LET t == p[k]
         IN  /\ at2 = Onward(p, k, i)
             /\ \/ AtCount(p, k, i) /\ Put(t.t[1], t.start, en, h, en2, h2)
                \/ AtCounter(p, k, i) /\ Put(Over(t), Eval(t.its[1].start, en, h), en, h, en2, h2)
                \/ AtIndex(p, k, i) /\ Put(IndexOf(p, k), 0, en, h, en2, h2)
                \/ \E m \in DOMAIN t.its :
                     AtList(p, k, i, m) /\ Put(Holder(p, k, m), en[t.its[m].x], en, h, en2, h2)
                \/ \E m \in DOMAIN t.its :
                     AtLoad(p, k, i, m) /\ Put(IF t.how = "zip" THEN t.t[m] ELSE Over(t),
                                               h[en[Holder(p, k, m)]][en[IndexOf(p, k)] + 1], en, h, en2, h2)
<1> DEFINE t == p[k]
<1>1. /\ IsBody(p) /\ k \in 1 .. Len(p) /\ i \in 1 .. N(p, k) /\ Effect(p, k, i, en, h, at2, en2, h2)
  BY DEF Step, Ready
<1>2. OfHead(p, k, i)
  BY <1>1, HeadPlaces
<1>3. ~ AtWhile(p, k, i)
  BY DEF AtWhile
<1>4. ~ AtReload(p, k, i)
  <2>1. H(p, k) \in Nat
    BY <1>1, WalkIs
  <2> QED BY <2>1 DEF AtReload
<1>5. ASSUME NEW x, NEW e, D(p, k, i) = Let(x, e)
      PROVE  at2 = Onward(p, k, i) /\ Put(x, Eval(e, en, h), en, h, en2, h2)
  BY <1>1, <1>5 DEF Effect, Let, Stored_, Put
<1>6. /\ \A x : Eval(Var(x), en, h) = en[x]
      /\ \A n : Eval(Num(n), en, h) = n
  BY DEF Eval, Var, Num, Comparisons, Number, Atom
<1>7. CASE AtCount(p, k, i)
  <2>1. D(p, k, i) = Let(t.t[1], Num(t.start))
    BY <1>7 DEF AtCount
  <2> QED BY <1>5, <1>6, <1>7, <2>1
<1>8. CASE AtCounter(p, k, i)
  <2>1. D(p, k, i) = Let(Over(t), t.its[1].start)
    BY <1>8 DEF AtCounter
  <2> QED BY <1>5, <1>8, <2>1
<1>9. CASE AtIndex(p, k, i)
  <2>1. D(p, k, i) = Let(IndexOf(p, k), Num(0))
    BY <1>9 DEF AtIndex
  <2> QED BY <1>5, <1>6, <1>9, <2>1
<1>10. ASSUME NEW m, AtList(p, k, i, m)
       PROVE  /\ m \in DOMAIN t.its /\ at2 = Onward(p, k, i)
              /\ Put(Holder(p, k, m), en[t.its[m].x], en, h, en2, h2)
  <2>1. D(p, k, i) = Let(Holder(p, k, m), Var(t.its[m].x)) /\ m \in DOMAIN t.its
    BY <1>10 DEF AtList
  <2> QED BY <1>5, <1>6, <2>1
<1>11. ASSUME NEW m, AtLoad(p, k, i, m)
       PROVE  /\ m \in DOMAIN t.its /\ at2 = Onward(p, k, i)
              /\ Put(IF t.how = "zip" THEN t.t[m] ELSE Over(t),
                     h[en[Holder(p, k, m)]][en[IndexOf(p, k)] + 1], en, h, en2, h2)
  <2> DEFINE x == IF t.how = "zip" THEN t.t[m] ELSE Over(t)
  <2>1. D(p, k, i) = Load(x, Holder(p, k, m), IndexOf(p, k)) /\ m \in DOMAIN t.its
    BY <1>11 DEF AtLoad
  <2> HIDE DEF x
  <2>2. at2 = Onward(p, k, i) /\ Put(x, h[en[Holder(p, k, m)]][en[IndexOf(p, k)] + 1], en, h, en2, h2)
    BY <1>1, <2>1 DEF Effect, Load, Stored_, Put
  <2> QED BY <2>1, <2>2 DEF x
<1> QED BY <1>2, <1>3, <1>4, <1>7, <1>8, <1>9, <1>10, <1>11 DEF OfHead

LEMMA GainGoes ==
  ASSUME NEW p, NEW k, NEW i, NEW en, NEW h, NEW at2, NEW en2, NEW h2,
         Step(p, k, i, en, h, at2, en2, h2), OfGain(p, k, i)
  PROVE  LET g   == Whole(p, k)
             any == AnyOf(p, k)
         IN  /\ AtGain(p, k, i) =>
                  /\ at2 = <<k, 2>> /\ i = 1
                  /\ p[g].how = "sum" => Put(Acc(p, g), en[Old(p, g)] + Eval(p[k].e, en, h), en, h, en2, h2)
                  /\ p[g].how = "list" =>
                       /\ en2 = With(en, Acc(p, g), Len(h) + 1)
                       /\ h2 = Append(h, Append(h[en[Old(p, g)]], Eval(p[k].e, en, h)))
             /\ AtTest(p, k, i) =>
                  /\ Quiet(en, h, en2, h2)
                  /\ at2 = IF Eval(p[k].e, en, h) THEN <<k, 2>> ELSE <<k, IF any THEN 5 ELSE 3>>
             /\ AtKnown(p, k, i) => at2 = <<k, i + 1>> /\ Put(Acc(p, g), any, en, h, en2, h2)
             /\ AtStop(p, k, i) => at2 = <<k + 1, 1>> /\ Quiet(en, h, en2, h2)
             /\ AtOther(p, k, i) => at2 = <<k, 5>> /\ Quiet(en, h, en2, h2)
             /\ AtSettled(p, k, i) => at2 = <<k, 6>> /\ Quiet(en, h, en2, h2)
<1> DEFINE g == Whole(p, k)
<1>1. /\ IsBody(p) /\ k \in 1 .. Len(p) /\ i \in 1 .. N(p, k) /\ Effect(p, k, i, en, h, at2, en2, h2)
      /\ p[k].op = "yield"
  BY DEF Step, Ready, OfGain, AtGain, AtTest, AtKnown, AtStop, AtOther, AtSettled, Deciding
<1>2. /\ k = End(p, p[k].of) /\ Each(p[p[k].of]) /\ Closing(p, k)
      /\ g = p[p[k].of].of
  BY <1>1, YieldIs DEF Closing, Whole
<1>3. N(p, k) = Q(p, p[k].of) + F(p, p[k].of) + B(p, p[k].of) + 3 /\ F(p, p[k].of) \in {0, 2} /\ B(p, p[k].of) \in {0, 1, 2}
  BY <1>1, <1>2, NIs
<1>4. Q(p, p[k].of) = IF Grows(p, g) THEN 1 ELSE 5
  BY <1>2 DEF Q, Grows
<1>5. N(p, k) >= 4 /\ (~ Grows(p, g) => N(p, k) >= 8) /\ N(p, k) \in Int
  BY <1>3, <1>4
<1> HIDE DEF g
<1>6. AtGain(p, k, i) =>
         /\ at2 = <<k, 2>> /\ i = 1
         /\ p[g].how = "sum" => Put(Acc(p, g), en[Old(p, g)] + Eval(p[k].e, en, h), en, h, en2, h2)
         /\ p[g].how = "list" =>
              /\ en2 = With(en, Acc(p, g), Len(h) + 1)
              /\ h2 = Append(h, Append(h[en[Old(p, g)]], Eval(p[k].e, en, h)))
  <2> SUFFICES ASSUME AtGain(p, k, i)
               PROVE  /\ at2 = <<k, 2>> /\ i = 1
                      /\ p[g].how = "sum" => Put(Acc(p, g), en[Old(p, g)] + Eval(p[k].e, en, h), en, h, en2, h2)
                      /\ p[g].how = "list" =>
                           /\ en2 = With(en, Acc(p, g), Len(h) + 1)
                           /\ h2 = Append(h, Append(h[en[Old(p, g)]], Eval(p[k].e, en, h)))
    OBVIOUS
  <2>1. /\ i = 1 /\ Grows(p, g)
        /\ D(p, k, i) = [op |-> IF p[g].how = "sum" THEN "add" ELSE "concat",
                         x |-> Acc(p, g), l |-> Old(p, g), e |-> p[k].e]
    BY DEF AtGain, g, Gained
  <2>2. Onward(p, k, i) = <<k, 2>>
    BY <1>5, <2>1 DEF Onward
  <2>3. at2 = Onward(p, k, i)
    BY <1>1, <2>1 DEF Effect
  <2>4. p[g].how = "sum" => Put(Acc(p, g), en[Old(p, g)] + Eval(p[k].e, en, h), en, h, en2, h2)
    BY <1>1, <2>1 DEF Effect, Stored_, Put
  <2>5. p[g].how = "list" =>
              /\ en2 = With(en, Acc(p, g), Len(h) + 1)
              /\ h2 = Append(h, Append(h[en[Old(p, g)]], Eval(p[k].e, en, h)))
    <3> SUFFICES ASSUME p[g].how = "list"
                 PROVE  /\ en2 = With(en, Acc(p, g), Len(h) + 1)
                        /\ h2 = Append(h, Append(h[en[Old(p, g)]], Eval(p[k].e, en, h)))
      OBVIOUS
    <3>1. D(p, k, i).op = "concat" /\ D(p, k, i).x = Acc(p, g) /\ D(p, k, i).l = Old(p, g) /\ D(p, k, i).e = p[k].e
      BY <2>1
    <3> QED BY <1>1, <3>1 DEF Effect
  <2> QED BY <2>1, <2>2, <2>3, <2>4, <2>5
<1>7. AtTest(p, k, i) =>
        /\ Quiet(en, h, en2, h2)
        /\ at2 = IF Eval(p[k].e, en, h) THEN <<k, 2>> ELSE <<k, IF AnyOf(p, k) THEN 5 ELSE 3>>
  <2> SUFFICES ASSUME AtTest(p, k, i)
               PROVE  /\ Quiet(en, h, en2, h2)
                      /\ at2 = IF Eval(p[k].e, en, h) THEN <<k, 2>> ELSE <<k, IF AnyOf(p, k) THEN 5 ELSE 3>>
    OBVIOUS
  <2>1. i = 1 /\ D(p, k, i) = If(p[k].e, <<"test", k>>) /\ ~ Grows(p, g)
    BY DEF AtTest, Deciding, g
  <2>2. Onward(p, k, i) = <<k, 2>>
    BY <1>5, <2>1 DEF Onward
  <2>3. Dest(p, k, i) = <<k, IF AnyOf(p, k) THEN 5 ELSE 3>>
    BY <1>1, <2>1 DEF Dest, If, IfDest
  <2> QED BY <1>1, <2>1, <2>2, <2>3 DEF Effect, If, Quiet
<1>8. AtKnown(p, k, i) => at2 = <<k, i + 1>> /\ Put(Acc(p, g), AnyOf(p, k), en, h, en2, h2)
  <2> SUFFICES ASSUME AtKnown(p, k, i)
               PROVE  at2 = <<k, i + 1>> /\ Put(Acc(p, g), AnyOf(p, k), en, h, en2, h2)
    OBVIOUS
  <2>1. i \in {2, 3} /\ D(p, k, i) = Let(Acc(p, g), Truth(AnyOf(p, k))) /\ ~ Grows(p, g)
    BY DEF AtKnown, Deciding, g
  <2>2. Onward(p, k, i) = <<k, i + 1>>
    BY <1>5, <2>1 DEF Onward
  <2>3. Eval(Truth(AnyOf(p, k)), en, h) = AnyOf(p, k)
    BY DEF Eval, Truth, Comparisons, Number, Atom
  <2> QED BY <1>1, <2>1, <2>2, <2>3 DEF Effect, Let, Stored_, Put
<1>9. AtStop(p, k, i) => at2 = <<k + 1, 1>> /\ Quiet(en, h, en2, h2)
  <2> SUFFICES ASSUME AtStop(p, k, i)
               PROVE  at2 = <<k + 1, 1>> /\ Quiet(en, h, en2, h2)
    OBVIOUS
  <2>1. D(p, k, i) = Stop
    BY DEF AtStop
  <2>2. Dest(p, k, i) = <<k + 1, 1>>
    BY <1>2, <2>1 DEF Dest, Stop
  <2> QED BY <1>1, <2>1, <2>2 DEF Effect, Stop, Quiet
<1>10. AtOther(p, k, i) => at2 = <<k, 5>> /\ Quiet(en, h, en2, h2)
  <2> SUFFICES ASSUME AtOther(p, k, i)
               PROVE  at2 = <<k, 5>> /\ Quiet(en, h, en2, h2)
    OBVIOUS
  <2>1. i \in {2, 4} /\ D(p, k, i) = Mark("else", <<"test", k>>) /\ ~ Grows(p, g)
    BY DEF AtOther, Deciding, g
  <2>2. Dest(p, k, i) = <<k, 5>>
    BY <1>1, <1>4, <2>1 DEF Dest, Mark, ElseDest
  <2> QED BY <1>1, <2>1, <2>2 DEF Effect, Mark, Quiet
<1>11. AtSettled(p, k, i) => at2 = <<k, 6>> /\ Quiet(en, h, en2, h2)
  <2> SUFFICES ASSUME AtSettled(p, k, i)
               PROVE  at2 = <<k, 6>> /\ Quiet(en, h, en2, h2)
    OBVIOUS
  <2>1. i = 5 /\ D(p, k, i) = Mark("fi", <<"test", k>>) /\ ~ Grows(p, g)
    BY DEF AtSettled, Deciding, g
  <2>2. Onward(p, k, i) = <<k, 6>>
    BY <1>5, <2>1 DEF Onward
  <2> QED BY <1>1, <2>1, <2>2 DEF Effect, Mark, Quiet
<1> QED BY <1>6, <1>7, <1>8, <1>9, <1>10, <1>11 DEF g

LEMMA TurnGoes ==
  ASSUME NEW p, NEW k, NEW i, NEW en, NEW h, NEW at2, NEW en2, NEW h2,
         Step(p, k, i, en, h, at2, en2, h2), OfTurn(p, k, i)
  PROVE  LET l == p[k].of
         IN  /\ Closing(p, k) /\ l \in 1 .. Len(p) /\ IsLoop(p[l]) /\ k = End(p, l) /\ i > Q(p, l)
             /\ AtEnd(p, k, i) => at2 = <<l, W(p, l)>> /\ Quiet(en, h, en2, h2) /\ i = LatchAt(p, l) + B(p, l) + 1
             /\ ~ AtEnd(p, k, i) => at2 = <<k, i + 1>> /\ i < LatchAt(p, l) + B(p, l) + 1
             /\ AtBump(p, k, i) =>
                  Put(Counter(p, l), en[Counter(p, l)] + Stride(p, l), en, h, en2, h2) /\ i = LatchAt(p, l) + 1
             /\ AtCountUp(p, k, i) => Put(p[l].t[1], en[p[l].t[1]] + 1, en, h, en2, h2) /\ i = LatchAt(p, l) + 2
             /\ ~ AtBump(p, k, i) /\ ~ AtCountUp(p, k, i) => Quiet(en, h, en2, h2)
             /\ i \in {LatchAt(p, l) + 1, LatchAt(p, l) + 2} =>
                  AtBump(p, k, i) \/ AtCountUp(p, k, i) \/ AtEnd(p, k, i)
<1> DEFINE l == p[k].of
<1>1. /\ IsBody(p) /\ k \in 1 .. Len(p) /\ i \in 1 .. N(p, k) /\ Effect(p, k, i, en, h, at2, en2, h2)
      /\ Closing(p, k)
  BY DEF Step, Ready, OfTurn, AtSkipped, AtKept, AtNext, AtLatch, AtBump, AtCountUp, AtEnd, Turn
<1>2. l \in 1 .. Len(p) /\ IsLoop(p[l]) /\ k = End(p, l)
  BY <1>1, ClosingOf
<1>3. /\ N(p, k) = Q(p, l) + F(p, l) + B(p, l) + 3 /\ Q(p, l) \in {0, 1, 5}
      /\ F(p, l) \in {0, 2} /\ B(p, l) \in {0, 1, 2}
  BY <1>1, NIs
<1>4. /\ Filtered(p, l) => F(p, l) = 2
      /\ p[l].op = "for" => B(p, l) >= 1
      /\ p[l].op = "for" /\ p[l].how = "enumerate" => B(p, l) = 2
  <2>1. p[l].op = "for" => p[l].op # "while"
    OBVIOUS
  <2> QED BY <2>1 DEF F, B, Enum
<1>0. LatchAt(p, l) = Q(p, l) + F(p, l) + 2
  BY DEF LatchAt
<1>5. i > Q(p, l)
  BY <1>3 DEF OfTurn, AtSkipped, AtKept, AtNext, AtLatch, AtBump, AtCountUp, AtEnd, Turn
<1> HIDE DEF l
<1>6. ASSUME NEW x, NEW n, D(p, k, i) = Bump(x, n), i < N(p, k)
      PROVE  at2 = <<k, i + 1>> /\ Put(x, en[x] + n, en, h, en2, h2)
  <2>1. D(p, k, i) = Let(x, Plus(Var(x), Num(n)))
    BY <1>6 DEF Bump
  <2>2. Eval(Plus(Var(x), Num(n)), en, h) = en[x] + n
    BY DEF Eval, Plus, Var, Num, Comparisons, Number, Atom
  <2> QED BY <1>1, <1>6, <2>1, <2>2 DEF Effect, Let, Stored_, Put, Onward
<1>7. CASE AtSkipped(p, k, i)
  <2>1. i = Q(p, l) + 1 /\ D(p, k, i) = Mark("else", <<"filter", l>>) /\ Filtered(p, l) /\ k # l
    BY <1>1, <1>2, <1>7, LoopIs DEF AtSkipped, Turn, l
  <2>2. p[k].op # "else"
    BY <1>1 DEF Closing
  <2>3. Dest(p, k, i) = <<k, i + 1>>
    BY <1>3, <2>1, <2>2 DEF Dest, Mark, ElseDest, l
  <2>4. at2 = <<k, i + 1>> /\ Quiet(en, h, en2, h2)
    BY <1>1, <2>1, <2>3 DEF Effect, Mark, Quiet
  <2>5. i < LatchAt(p, l)
    BY <1>0, <1>3, <1>4, <2>1
  <2>6. ~ AtBump(p, k, i) /\ ~ AtCountUp(p, k, i) /\ ~ AtEnd(p, k, i)
    BY <2>1 DEF AtBump, AtCountUp, AtEnd, Turn, Mark, Bump, Let
  <2>7. i # LatchAt(p, l) + 1 /\ i # LatchAt(p, l) + 2 /\ i < LatchAt(p, l) + B(p, l) + 1
    BY <1>0, <1>3, <1>4, <2>1
  <2> QED BY <1>1, <1>2, <1>5, <2>4, <2>6, <2>7 DEF l
<1>8. CASE AtKept(p, k, i)
  <2>1. i = Q(p, l) + 2 /\ D(p, k, i) = Mark("fi", <<"filter", l>>) /\ Filtered(p, l)
    BY <1>8 DEF AtKept, Turn, l
  <2>2. Onward(p, k, i) = <<k, i + 1>>
    BY <1>3, <1>4, <2>1 DEF Onward
  <2>4. at2 = <<k, i + 1>> /\ Quiet(en, h, en2, h2)
    BY <1>1, <2>1, <2>2 DEF Effect, Mark, Quiet
  <2>6. ~ AtBump(p, k, i) /\ ~ AtCountUp(p, k, i) /\ ~ AtEnd(p, k, i)
    BY <2>1 DEF AtBump, AtCountUp, AtEnd, Turn, Mark, Bump, Let
  <2>7. i # LatchAt(p, l) + 1 /\ i # LatchAt(p, l) + 2 /\ i < LatchAt(p, l) + B(p, l) + 1
    BY <1>0, <1>3, <1>4, <2>1
  <2> QED BY <1>1, <1>2, <1>5, <2>4, <2>6, <2>7 DEF l
<1>9. CASE AtNext(p, k, i)
  <2>1. i = Q(p, l) + F(p, l) + 1 /\ D(p, k, i) = Mark("next", LoopId(l))
    BY <1>3, <1>9 DEF AtNext, Turn, l
  <2>3. Dest(p, k, i) = <<k, i + 1>>
    BY <2>1 DEF Dest, Mark
  <2>4. at2 = <<k, i + 1>> /\ Quiet(en, h, en2, h2)
    BY <1>1, <2>1, <2>3 DEF Effect, Mark, Quiet
  <2>6. ~ AtBump(p, k, i) /\ ~ AtCountUp(p, k, i) /\ ~ AtEnd(p, k, i)
    BY <2>1 DEF AtBump, AtCountUp, AtEnd, Turn, Mark, Bump, Let
  <2>7. i # LatchAt(p, l) + 1 /\ i # LatchAt(p, l) + 2 /\ i < LatchAt(p, l) + B(p, l) + 1
    BY <1>0, <1>3, <2>1
  <2> QED BY <1>1, <1>2, <1>5, <2>4, <2>6, <2>7 DEF l
<1>10. CASE AtLatch(p, k, i)
  <2>1. i = Q(p, l) + F(p, l) + 2 /\ D(p, k, i) = Mark("latch", LoopId(l))
    BY <1>3, <1>10 DEF AtLatch, Turn, l
  <2>3. Onward(p, k, i) = <<k, i + 1>>
    BY <1>3, <2>1 DEF Onward
  <2>4. at2 = <<k, i + 1>> /\ Quiet(en, h, en2, h2)
    BY <1>1, <2>1, <2>3 DEF Effect, Mark, Quiet
  <2>6. ~ AtBump(p, k, i) /\ ~ AtCountUp(p, k, i) /\ ~ AtEnd(p, k, i)
    BY <2>1 DEF AtBump, AtCountUp, AtEnd, Turn, Mark, Bump, Let
  <2>7. i # LatchAt(p, l) + 1 /\ i # LatchAt(p, l) + 2 /\ i < LatchAt(p, l) + B(p, l) + 1
    BY <1>0, <1>3, <2>1
  <2> QED BY <1>1, <1>2, <1>5, <2>4, <2>6, <2>7 DEF l
<1>11. CASE AtBump(p, k, i)
  <2>1. i = Q(p, l) + F(p, l) + 3 /\ D(p, k, i) = Bump(Counter(p, l), Stride(p, l)) /\ p[l].op = "for"
    BY <1>3, <1>11 DEF AtBump, Turn, l
  <2>2. i < N(p, k) /\ i = LatchAt(p, l) + 1 /\ i < LatchAt(p, l) + B(p, l) + 1 /\ i # LatchAt(p, l) + 2
    BY <1>0, <1>3, <1>4, <2>1
  <2>3. ~ AtCountUp(p, k, i)
    BY <1>0, <1>3, <2>1 DEF AtCountUp, Turn, l
  <2>4. ~ AtEnd(p, k, i)
    BY <2>1 DEF AtEnd, Turn, Mark, Bump, Let
  <2> QED BY <1>1, <1>2, <1>5, <1>6, <1>11, <2>1, <2>2, <2>3, <2>4 DEF l
<1>12. CASE AtCountUp(p, k, i)
  <2>1. i = Q(p, l) + F(p, l) + 4 /\ D(p, k, i) = Bump(p[l].t[1], 1) /\ p[l].op = "for" /\ p[l].how = "enumerate"
    BY <1>3, <1>12 DEF AtCountUp, Turn, l
  <2>2. i < N(p, k) /\ i = LatchAt(p, l) + 2 /\ i < LatchAt(p, l) + B(p, l) + 1
    BY <1>0, <1>3, <1>4, <2>1
  <2>3. ~ AtBump(p, k, i)
    BY <1>3, <2>1 DEF AtBump, Turn, l
  <2>4. ~ AtEnd(p, k, i)
    BY <2>1 DEF AtEnd, Turn, Mark, Bump, Let
  <2> QED BY <1>1, <1>2, <1>5, <1>6, <1>12, <2>1, <2>2, <2>3, <2>4 DEF l
<1>13. CASE AtEnd(p, k, i)
  <2>1. i = Q(p, l) + F(p, l) + B(p, l) + 3 /\ D(p, k, i) = Mark("end", LoopId(l))
    BY <1>3, <1>13 DEF AtEnd, Turn, l
  <2>2. D(p, k, i).op = "end" /\ l = p[k].of
    BY <2>1 DEF Mark, l
  <2>3. Dest(p, k, i) = <<l, W(p, l)>>
    BY <2>2 DEF Dest
  <2>4. at2 = <<l, W(p, l)>> /\ Quiet(en, h, en2, h2)
    BY <1>1, <2>1, <2>3 DEF Effect, Mark, Quiet
  <2>6. ~ AtBump(p, k, i) /\ ~ AtCountUp(p, k, i)
    BY <2>1 DEF AtBump, AtCountUp, Turn, Mark, Bump, Let
  <2>7. i = LatchAt(p, l) + B(p, l) + 1
    BY <1>0, <1>3, <2>1
  <2> QED BY <1>1, <1>2, <1>5, <1>13, <2>4, <2>6, <2>7 DEF l
<1> QED BY <1>7, <1>8, <1>9, <1>10, <1>11, <1>12, <1>13 DEF OfTurn

-----------------------------------------------------------------------------
(* Where a step leads: outside of a loop's own place, or at the place of a  *)
(* loop that has been entered.                                              *)

Outside(p, at, b) == PlaceAt(p, at) = b /\ b \in 1 .. Len(p) + 1 /\ ~ Entered(p, at)

AtLoop(p, at, l, t1, t2) ==
  /\ PlaceAt(p, at) = l /\ l \in 1 .. Len(p) /\ p[l].op = "for" /\ Entered(p, at)
  /\ TakenAt(p, at, 1) <=> t1
  /\ TakenAt(p, at, 2) <=> t2

Returned(p, at, l, t1, t2) ==
  IF p[l].op = "for" THEN AtLoop(p, at, l, t1, t2) ELSE Outside(p, at, l)

LEMMA AtFirst ==
  ASSUME NEW p, IsBody(p), NEW k \in 1 .. Len(p) + 1
  PROVE  Outside(p, <<k, 1>>, k)
BY Begins DEF Outside

LEMMA AtHead ==
  ASSUME NEW p, IsBody(p), NEW k \in 1 .. Len(p), p[k].op = "for", NEW i \in 1 .. H(p, k)
  PROVE  /\ i >= W(p, k) => AtLoop(p, <<k, i>>, k, FALSE, FALSE)
         /\ ~ (i >= W(p, k)) => Outside(p, <<k, i>>, k)
<1>1. Len(p) \in Nat
  BY BodyIs
<1> QED BY <1>1, InHead DEF Outside, AtLoop

LEMMA AtBehind ==
  ASSUME NEW p, IsBody(p), NEW k \in 1 .. Len(p), NEW i \in 1 .. N(p, k), Behind(p, k, i)
  PROVE  LET l == p[k].of
         IN  Returned(p, <<k, i>>, l, i <= LatchAt(p, l) + 1, i <= LatchAt(p, l) + 2)
<1>1. Len(p) \in Nat
  BY BodyIs
<1>2. IsLoop(p[p[k].of])
  BY DEF Behind, Closing
<1> QED BY <1>1, <1>2, InTurn DEF Outside, AtLoop, Returned

LEMMA AtOdd ==
  ASSUME NEW p, IsBody(p), NEW k \in 1 .. Len(p), NEW i \in 1 .. N(p, k),
         \/ AtReload(p, k, i) \/ AtStop(p, k, i) \/ (A(p, k, i) = k /\ p[k].op # "for")
  PROVE  Outside(p, <<k, i>>, A(p, k, i))
<1>1. Len(p) \in Nat
  BY BodyIs
<1>2. PlaceAt(p, <<k, i>>) = A(p, k, i) /\ A(p, k, i) \in 1 .. Len(p)
  BY PlaceAtIs
<1> QED BY <1>1, <1>2, NotEntered DEF Outside

(* The numbers at the end of a turn.                                        *)
LEMMA TurnSpot ==
  ASSUME NEW p, IsBody(p), NEW l \in 1 .. Len(p), IsLoop(p[l]), NEW i \in 1 .. N(p, End(p, l)),
         i >= 2, i > Q(p, l)
  PROVE  Behind(p, End(p, l), i)
<1> DEFINE e == End(p, l)
<1>1. e \in 1 .. Len(p) /\ Closing(p, e) /\ p[e].of = l
  <2>1. Len(p) \in Nat
    BY BodyIs
  <2> QED BY <2>1, LoopIs
<1> HIDE DEF e
<1>2. OfTurn(p, e, i)
  BY <1>1, TurnPlaces DEF e
<1>3. A(p, e, i) = l
  BY <1>1, <1>2 DEF OfTurn, AtSkipped, AtKept, AtNext, AtLatch, AtBump, AtCountUp, AtEnd, Turn
<1> QED BY <1>1, <1>3 DEF Behind, e

LEMMA DecidingSpots ==
  ASSUME NEW p, IsBody(p), NEW k \in 1 .. Len(p), Deciding(p, k)
  PROVE  LET any == AnyOf(p, k)
         IN  /\ N(p, k) >= 8 /\ N(p, k) \in Nat
             /\ AtTest(p, k, 1)
             /\ AtKnown(p, k, IF any THEN 2 ELSE 3) /\ AtStop(p, k, IF any THEN 3 ELSE 4)
             /\ AtOther(p, k, IF any THEN 4 ELSE 2) /\ AtSettled(p, k, 5)
             /\ Behind(p, k, IF any THEN 4 ELSE 2) /\ Behind(p, k, 5) /\ Behind(p, k, 6)
<1> DEFINE l == p[k].of
<1>1. Closing(p, k) /\ Q(p, l) = 5 /\ p[k].op = "yield" /\ ~ Grows(p, Whole(p, k))
  BY DecidingIs DEF Deciding
<1>2. l \in 1 .. Len(p) /\ IsLoop(p[l]) /\ k = End(p, l)
  BY <1>1, ClosingOf
<1>3. N(p, k) \in Nat /\ N(p, k) >= 8
  BY <1>1, NIs
<1>4. \A j \in 1 .. 5 : OfGain(p, k, j) /\ ~ AtGain(p, k, j)
  BY <1>1, GainPlaces DEF AtGain
<1>5. Behind(p, k, 6)
  BY <1>1, <1>2, <1>3, TurnSpot
<1>6. AtTest(p, k, 1)
  BY <1>4 DEF OfGain, AtTest, AtKnown, AtStop, AtOther, AtSettled
<1>7. AtSettled(p, k, 5)
  BY <1>4 DEF OfGain, AtTest, AtKnown, AtStop, AtOther, AtSettled
<1>8. AtKnown(p, k, IF AnyOf(p, k) THEN 2 ELSE 3)
  BY <1>4 DEF OfGain, AtTest, AtKnown, AtStop, AtOther, AtSettled
<1>9. AtStop(p, k, IF AnyOf(p, k) THEN 3 ELSE 4)
  BY <1>4 DEF OfGain, AtTest, AtKnown, AtStop, AtOther, AtSettled
<1>10. AtOther(p, k, IF AnyOf(p, k) THEN 4 ELSE 2)
  BY <1>4 DEF OfGain, AtTest, AtKnown, AtStop, AtOther, AtSettled
<1>11. Behind(p, k, 5) /\ Behind(p, k, IF AnyOf(p, k) THEN 4 ELSE 2)
  BY <1>1, <1>7, <1>10 DEF Behind, AtSettled, AtOther
<1> QED BY <1>3, <1>5, <1>6, <1>7, <1>8, <1>9, <1>10, <1>11

LEMMA ReloadSpot ==
  ASSUME NEW p, IsBody(p), NEW k \in 1 .. Len(p), p[k].op \in {"for", "filter"},
         NEW i \in 1 .. N(p, k), i > (IF p[k].op = "for" THEN H(p, k) ELSE 1)
  PROVE  AtReload(p, k, i) /\ A(p, k, i) = k + 1
<1>1. CASE p[k].op = "for"
  <2>1. /\ W(p, k) \in 2 .. 4 /\ H(p, k) \in 2 .. 6 /\ H(p, k) >= W(p, k)
        /\ Indexed(p, k) => \A n \in DOMAIN p[k].its : W(p, k) + n <= H(p, k)
    <3>1. /\ W(p, k) \in 2 .. 4 /\ H(p, k) \in 2 .. 6
          /\ p[k].how = "zip" => DOMAIN p[k].its = {1, 2}
          /\ p[k].how # "zip" => DOMAIN p[k].its = {1}
          /\ Indexed(p, k) => H(p, k) = W(p, k) + Len(p[k].its)
          /\ ~ Indexed(p, k) => H(p, k) = W(p, k)
          /\ Len(p[k].its) = IF p[k].how = "zip" THEN 2 ELSE 1
      BY <1>1, WalkIs
    <3> QED BY <3>1
  <2>2. OfHead(p, k, i)
    BY <1>1, HeadPlaces
  <2>3. i > H(p, k)
    BY <1>1
  <2>4. ~ AtWhile(p, k, i) /\ ~ AtCount(p, k, i) /\ ~ AtCounter(p, k, i) /\ ~ AtIndex(p, k, i)
    BY <2>1, <2>3 DEF AtWhile, AtCount, AtCounter, AtIndex
  <2>5. \A n : ~ AtList(p, k, i, n) /\ ~ AtLoad(p, k, i, n)
    BY <2>1, <2>3 DEF AtList, AtLoad
  <2> QED BY <2>2, <2>4, <2>5 DEF OfHead, AtReload
<1>2. CASE p[k].op = "filter"
  <2>1. ~ AtSingle(p, k, i) /\ ~ AtFilter(p, k, i) /\ ~ AtJoin(p, k, i) /\ ~ OfGain(p, k, i) /\ ~ OfTurn(p, k, i)
    BY <1>2 DEF AtSingle, Single, AtFilter, AtJoin, OfGain, AtGain, AtTest, AtKnown, AtStop, AtOther, AtSettled,
                Deciding, OfTurn, AtSkipped, AtKept, AtNext, AtLatch, AtBump, AtCountUp, AtEnd, Turn, Closing
  <2>2. OfHead(p, k, i)
    BY <2>1, PlaceIs
  <2> QED BY <1>2, <2>2 DEF OfHead, AtReload, AtWhile, AtCount, AtCounter, AtIndex, AtList, AtLoad, IsLoop, Indexed
<1> QED BY <1>1, <1>2

SingleMoves(p, k, i, en, h, at2) ==
  LET t == p[k]
      l == t.of
      S == Surround(p, k)
  IN  /\ Outside(p, <<k, i>>, k)
      /\ t.op \in {"let", "append"} => Outside(p, at2, k + 1) /\ Surround(p, k + 1) = S
      /\ t.op = "if" =>
           LET b == IF Eval(t.c, en, h) THEN k + 1 ELSE Else(p, k) + 1
           IN  Outside(p, at2, b) /\ Surround(p, b) = S
      /\ t.op = "else" => Outside(p, at2, End(p, l)) /\ Surround(p, End(p, l)) = S
      /\ t.op = "gather" => Outside(p, at2, k + 1) /\ Surround(p, k + 1) = S \cup {k} /\ k \notin S
      /\ t.op = "result" => /\ Outside(p, at2, k + 1) /\ Surround(p, k + 1) = S \ {l}
                            /\ l \in S /\ p[l].op = "gather" /\ k = End(p, l) /\ l \in 1 .. Len(p)
      /\ t.op = "break" => /\ Outside(p, at2, End(p, l) + 1) /\ Surround(p, End(p, l) + 1) = S \ {l}
                           /\ IsLoop(p[l]) /\ l \in 1 .. Len(p)
                           /\ p[l].op = "for" => l \in S
      /\ t.op = "continue" => /\ Returned(p, at2, l, TRUE, TRUE) /\ Surround(p, l) = S \ {l}
                              /\ IsLoop(p[l]) /\ l \in 1 .. Len(p)
                              /\ p[l].op = "for" => l \in S
      /\ t.op = "return" => Outside(p, at2, Len(p) + 1) /\ Surround(p, Len(p) + 1) = {}

LEMMA SingleArrives ==
  ASSUME NEW p, NEW k, NEW i, NEW en, NEW h, NEW at2, NEW en2, NEW h2,
         Step(p, k, i, en, h, at2, en2, h2), AtSingle(p, k, i)
  PROVE  SingleMoves(p, k, i, en, h, at2)
<1> USE DEF SingleMoves
<1> DEFINE t == p[k]
           l == t.of
           S == Surround(p, k)
<1>1. IsBody(p) /\ k \in 1 .. Len(p) /\ i = 1 /\ Single(t) /\ Len(p) \in Nat
  BY BodyIs DEF Step, Ready, AtSingle
<1>2. Outside(p, <<k, i>>, k)
  BY <1>1, AtFirst
<1>3. \A b \in 1 .. Len(p) + 1 : at2 = <<b, 1>> => Outside(p, at2, b)
  BY <1>1, AtFirst
<1>4. k + 1 \in 1 .. Len(p) + 1
  BY <1>1
<1>5. CASE t.op \in {"let", "append"}
  <2>1. Surround(p, k + 1) = S
    BY <1>1, <1>5, SurroundIs DEF Opens, Closes
  <2>2. at2 = <<k + 1, 1>>
    BY <1>5, SingleGoes
  <2>3. Outside(p, at2, k + 1)
    BY <1>3, <1>4, <2>2
  <2> QED BY <1>2, <1>5, <2>1, <2>3
<1>6. CASE t.op = "if"
  <2>1. Surround(p, k + 1) = S /\ Surround(p, Else(p, k) + 1) = S
    BY <1>1, <1>6, SurroundIs
  <2>2. Else(p, k) + 1 \in 1 .. Len(p) + 1
    BY <1>1, <1>6, ElseIs, EndIs DEF Opens
  <2>3. at2 = IF Eval(t.c, en, h) THEN <<k + 1, 1>> ELSE <<Else(p, k) + 1, 1>>
    BY <1>6, SingleGoes
  <2> QED BY <1>2, <1>3, <1>4, <1>6, <2>1, <2>2, <2>3
<1>7. CASE t.op = "else"
  <2>1. l \in 1 .. Len(p) /\ p[l].op = "if" /\ Belongs(p, k) /\ \A j \in 1 .. k - 1 : ~ (p[j].op = "else" /\ p[j].of = l)
    <3>1. Fits(p, k)
      BY <1>1, BodyIs
    <3>2. Belongs(p, k) /\ p[l].op = "if" /\ \A j \in 1 .. k - 1 : ~ (p[j].op = "else" /\ p[j].of = l)
      <4>1. t.op = "else" /\ ~ Each(t)
        BY <1>7 DEF Each
      <4> QED BY <3>1, <4>1 DEF Fits
    <3>3. l \in Around(p, k)
      BY <3>2 DEF Belongs, Innermost
    <3> QED BY <1>1, <3>2, <3>3, AroundOf
  <2>2. k = Else(p, l)
    BY <1>1, <1>7, <2>1, ElseIs
  <2>3. Surround(p, k) = Surround(p, l) /\ Surround(p, End(p, l)) = Surround(p, l)
    BY <1>1, <2>1, <2>2, SurroundIs
  <2>4. End(p, l) \in 1 .. Len(p) + 1
    BY <1>1, <2>1, EndIs DEF Opens
  <2>5. at2 = <<End(p, l), 1>>
    BY <1>7, SingleGoes
  <2> QED BY <1>2, <1>3, <1>7, <2>3, <2>4, <2>5
<1>8. CASE t.op = "gather"
  <2>1. Surround(p, k + 1) = S \cup {k} /\ k \notin S
    BY <1>1, <1>8, SurroundIs
  <2> QED BY <1>2, <1>3, <1>4, <1>8, <2>1, SingleGoes
<1>9. CASE t.op = "result"
  <2>1. /\ l \in 1 .. k - 1 /\ k = End(p, l) /\ l \in 1 .. Len(p)
    BY <1>1, <1>9, OpenedIs DEF Closes
  <2>2. p[l].op = "gather"
    <3>1. Fits(p, k)
      BY <1>1, BodyIs
    <3> QED BY <1>9, <3>1 DEF Fits, Each
  <2>3. S = Surround(p, l) \cup {l} /\ l \notin Surround(p, l) /\ Surround(p, k + 1) = Surround(p, l)
    BY <1>1, <2>1, <2>2, SurroundIs
  <2> QED BY <1>2, <1>3, <1>4, <1>9, <2>1, <2>2, <2>3, SingleGoes
<1>10. CASE t.op \in {"break", "continue"}
  <2>1. /\ l \in 1 .. Len(p) /\ IsLoop(p[l]) /\ k < End(p, l) /\ End(p, l) \in 1 .. Len(p)
        /\ S = Surround(p, l) \cup (IF p[l].op = "for" THEN {l} ELSE {})
    BY <1>1, <1>10, OutOf
  <2>2. l \notin Surround(p, l) /\ Surround(p, End(p, l) + 1) = Surround(p, l)
    BY <1>1, <2>1, SurroundIs DEF IsLoop
  <2>3. Surround(p, l) = S \ {l} /\ (p[l].op = "for" => l \in S)
    BY <2>1, <2>2
  <2>4. CASE t.op = "break"
    <3>1. at2 = <<End(p, l) + 1, 1>> /\ End(p, l) + 1 \in 1 .. Len(p) + 1
      BY <1>1, <2>1, <2>4, SingleGoes
    <3> QED BY <1>2, <1>3, <2>1, <2>2, <2>3, <2>4, <3>1
  <2>5. CASE t.op = "continue"
    <3>1. at2 = <<End(p, l), LatchAt(p, l)>>
      BY <2>5, SingleGoes
    <3>2. LatchAt(p, l) \in 2 .. N(p, End(p, l)) /\ Q(p, l) \in {0, 1, 5} /\ F(p, l) \in {0, 2}
      BY <1>1, <2>1, LoopIs
    <3>3. N(p, End(p, l)) \in Nat /\ p[End(p, l)].of = l
      BY <1>1, <2>1, NIs, LoopIs
    <3>4. LatchAt(p, l) > Q(p, l) /\ LatchAt(p, l) \in 1 .. N(p, End(p, l)) /\ LatchAt(p, l) >= 2 /\ LatchAt(p, l) \in Nat
      BY <3>2, <3>3 DEF LatchAt
    <3>5. Behind(p, End(p, l), LatchAt(p, l))
      BY <1>1, <2>1, <3>4, TurnSpot
    <3>6. Returned(p, at2, l, LatchAt(p, l) <= LatchAt(p, l) + 1, LatchAt(p, l) <= LatchAt(p, l) + 2)
      BY <1>1, <2>1, <3>1, <3>3, <3>4, <3>5, AtBehind
    <3>7. Returned(p, at2, l, TRUE, TRUE)
      BY <3>4, <3>6 DEF Returned, AtLoop
    <3> QED BY <1>2, <2>1, <2>2, <2>3, <2>5, <3>7
  <2> QED BY <1>10, <2>4, <2>5
<1>11. CASE t.op = "return"
  <2>1. Surround(p, Len(p) + 1) = {}
    BY <1>1, BodyIs DEF Surround
  <2> QED BY <1>1, <1>2, <1>3, <1>11, <2>1, SingleGoes
<1>12. t.op \in {"let", "append", "if", "else", "gather", "result", "break", "continue", "return"}
  BY SingleGoes
<1> QED BY <1>5, <1>6, <1>7, <1>8, <1>9, <1>10, <1>11, <1>12

LEMMA JoinArrives ==
  ASSUME NEW p, NEW k, NEW i, NEW en, NEW h, NEW at2, NEW en2, NEW h2,
         Step(p, k, i, en, h, at2, en2, h2), AtJoin(p, k, i)
  PROVE  /\ Outside(p, <<k, i>>, k) /\ Outside(p, at2, k + 1) /\ Surround(p, k + 1) = Surround(p, k)
         /\ p[p[k].of].op = "if" /\ p[k].of \in 1 .. Len(p)
<1> DEFINE l == p[k].of
<1>1. IsBody(p) /\ k \in 1 .. Len(p) /\ i = 1 /\ Len(p) \in Nat /\ p[k].op = "end" /\ p[l].op = "if"
  BY BodyIs DEF Step, Ready, AtJoin
<1>2. l \in 1 .. k - 1 /\ k = End(p, l)
  BY <1>1, OpenedIs DEF Closes
<1>3. Surround(p, k) = Surround(p, l) /\ Surround(p, k + 1) = Surround(p, l)
  <2> HIDE DEF l
  <2> QED BY <1>1, <1>2, SurroundIs
<1> QED BY <1>1, <1>2, <1>3, AtFirst, JoinGoes

LEMMA FilterArrives ==
  ASSUME NEW p, NEW k, NEW i, NEW en, NEW h, NEW at2, NEW en2, NEW h2,
         Step(p, k, i, en, h, at2, en2, h2), AtFilter(p, k, i)
  PROVE  LET l == p[k].of
             S == Surround(p, k)
         IN  /\ Outside(p, <<k, i>>, k)
             /\ Eval(p[k].c, en, h) => Outside(p, at2, k + 1) /\ Surround(p, k + 1) = S
             /\ ~ Eval(p[k].c, en, h) => AtLoop(p, at2, l, TRUE, TRUE)
             /\ Surround(p, l) = S \ {l} /\ l \in S /\ l = k - 1 /\ l \in 1 .. Len(p) /\ p[l].op = "for"
<1> DEFINE l == p[k].of
           S == Surround(p, k)
<1>1. IsBody(p) /\ k \in 1 .. Len(p) /\ i = 1 /\ Len(p) \in Nat /\ p[k].op = "filter" /\ i \in 1 .. N(p, k)
  BY BodyIs DEF Step, Ready, AtFilter
<1>2. l = k - 1 /\ l \in 1 .. Len(p) /\ p[l].op = "for" /\ Filtered(p, l)
  BY <1>1, FilterIs
<1>3. S = Surround(p, l) \cup {l} /\ l \notin Surround(p, l)
  <2>1. l + 1 = k
    BY <1>1, <1>2
  <2> QED BY <1>1, <1>2, <2>1, SurroundIs
<1>4. Surround(p, k + 1) = S
  BY <1>1, SurroundIs DEF Opens, Closes
<1>5. Outside(p, <<k, i>>, k)
  BY <1>1, AtFirst
<1>6. Eval(p[k].c, en, h) => Outside(p, at2, k + 1)
  <2>1. Outside(p, <<k + 1, 1>>, k + 1)
    BY <1>1, AtFirst
  <2>2. Reloads(p, k) => Outside(p, <<k, 2>>, k + 1)
    <3> SUFFICES ASSUME Reloads(p, k) PROVE Outside(p, <<k, 2>>, k + 1)
      OBVIOUS
    <3>1. N(p, k) = 2
      BY <1>1, NIs
    <3>2. AtReload(p, k, 2) /\ A(p, k, 2) = k + 1
      BY <1>1, <3>1, ReloadSpot
    <3>3. 2 \in 1 .. N(p, k)
      BY <3>1
    <3> QED BY <1>1, <3>2, <3>3, AtOdd
  <2> QED BY <2>1, <2>2, FilterGoes
<1>7. ~ Eval(p[k].c, en, h) => AtLoop(p, at2, l, TRUE, TRUE)
  <2> SUFFICES ASSUME ~ Eval(p[k].c, en, h) PROVE AtLoop(p, at2, l, TRUE, TRUE)
    OBVIOUS
  <2>1. at2 = <<End(p, l), Q(p, l) + 2>>
    BY FilterGoes
  <2>2. IsLoop(p[l])
    BY <1>2 DEF IsLoop
  <2>3. /\ Q(p, l) + 2 \in 1 .. N(p, End(p, l)) /\ Q(p, l) \in {0, 1, 5} /\ End(p, l) \in 1 .. Len(p)
        /\ p[End(p, l)].of = l /\ F(p, l) = 2
    BY <1>1, <1>2, <2>2, LoopIs DEF F
  <2>4. Behind(p, End(p, l), Q(p, l) + 2)
    <3>1. Q(p, l) + 2 >= 2 /\ Q(p, l) + 2 > Q(p, l)
      BY <2>3
    <3> HIDE DEF l
    <3> QED BY <1>1, <1>2, <2>2, <2>3, <3>1, TurnSpot
  <2>5. Q(p, l) + 2 <= LatchAt(p, l) + 1 /\ Q(p, l) + 2 <= LatchAt(p, l) + 2
    BY <2>3 DEF LatchAt
  <2>6. Returned(p, at2, l, Q(p, l) + 2 <= LatchAt(p, l) + 1, Q(p, l) + 2 <= LatchAt(p, l) + 2)
    BY <1>1, <2>1, <2>3, <2>4, AtBehind
  <2> QED BY <1>2, <2>5, <2>6 DEF Returned, AtLoop
<1> QED BY <1>1, <1>2, <1>3, <1>4, <1>5, <1>6, <1>7

HeadMoves(p, k, i) ==
  LET S == Surround(p, k)
      r == Onward(p, k, i)
  IN  /\ i >= W(p, k) => AtLoop(p, <<k, i>>, k, FALSE, FALSE)
      /\ ~ (i >= W(p, k)) => Outside(p, <<k, i>>, k)
      /\ ~ (i + 1 >= W(p, k)) => Outside(p, r, k)
      /\ i + 1 >= W(p, k) /\ i < H(p, k) => AtLoop(p, r, k, FALSE, FALSE)
      /\ i = H(p, k) => Outside(p, r, k + 1)
      /\ i < H(p, k) => r = <<k, i + 1>>
      /\ Outside(p, <<End(p, k) + 1, 1>>, End(p, k) + 1)
      /\ k \notin S /\ Surround(p, k + 1) = S \cup {k} /\ Surround(p, End(p, k) + 1) = S
      /\ W(p, k) <= H(p, k) /\ W(p, k) \in 2 .. 4 /\ H(p, k) \in 2 .. 6

LEMMA HeadArrives ==
  ASSUME NEW p, IsBody(p), NEW k \in 1 .. Len(p), p[k].op = "for", NEW i \in 1 .. H(p, k)
  PROVE  HeadMoves(p, k, i)
<1> USE DEF HeadMoves
<1>1. W(p, k) \in 2 .. 4 /\ H(p, k) \in 2 .. 6 /\ W(p, k) <= H(p, k)
  <2>1. /\ W(p, k) \in 2 .. 4 /\ H(p, k) \in 2 .. 6
        /\ Indexed(p, k) => H(p, k) = W(p, k) + Len(p[k].its)
        /\ ~ Indexed(p, k) => H(p, k) = W(p, k)
        /\ Len(p[k].its) = IF p[k].how = "zip" THEN 2 ELSE 1
    BY WalkIs
  <2> QED BY <2>1
<1>2. N(p, k) = H(p, k) + (IF Reloads(p, k) THEN 1 ELSE 0) /\ Len(p) \in Nat
  BY NIs, BodyIs
<1>3. /\ i >= W(p, k) => AtLoop(p, <<k, i>>, k, FALSE, FALSE)
      /\ ~ (i >= W(p, k)) => Outside(p, <<k, i>>, k)
  BY AtHead
<1>4. /\ ~ (i + 1 >= W(p, k)) => Outside(p, Onward(p, k, i), k)
      /\ i + 1 >= W(p, k) /\ i < H(p, k) => AtLoop(p, Onward(p, k, i), k, FALSE, FALSE)
      /\ i < H(p, k) => Onward(p, k, i) = <<k, i + 1>>
  <2> SUFFICES ASSUME i < H(p, k)
               PROVE  /\ ~ (i + 1 >= W(p, k)) => Outside(p, Onward(p, k, i), k)
                      /\ i + 1 >= W(p, k) => AtLoop(p, Onward(p, k, i), k, FALSE, FALSE)
                      /\ Onward(p, k, i) = <<k, i + 1>>
    <3>1. ~ (i + 1 >= W(p, k)) => i < H(p, k)
      BY <1>1
    <3> QED BY <3>1
  <2>1. i + 1 \in 1 .. H(p, k)
    BY <1>1
  <2>2. Onward(p, k, i) = <<k, i + 1>>
    BY <1>1, <1>2 DEF Onward
  <2> QED BY <2>1, <2>2, AtHead
<1>5. i = H(p, k) => Outside(p, Onward(p, k, i), k + 1)
  <2> SUFFICES ASSUME i = H(p, k) PROVE Outside(p, Onward(p, k, i), k + 1)
    OBVIOUS
  <2>1. CASE Reloads(p, k)
    <3>1. Onward(p, k, i) = <<k, i + 1>> /\ i + 1 \in 1 .. N(p, k) /\ i + 1 > H(p, k)
      BY <1>1, <1>2, <2>1 DEF Onward
    <3>2. AtReload(p, k, i + 1) /\ A(p, k, i + 1) = k + 1
      BY <3>1, ReloadSpot
    <3> QED BY <3>1, <3>2, AtOdd
  <2>2. CASE ~ Reloads(p, k)
    <3>1. Onward(p, k, i) = <<k + 1, 1>>
      BY <1>1, <1>2, <2>2 DEF Onward
    <3>2. k + 1 \in 1 .. Len(p) + 1
      BY <1>2
    <3> QED BY <3>1, <3>2, AtFirst
  <2> QED BY <2>1, <2>2
<1>6. Outside(p, <<End(p, k) + 1, 1>>, End(p, k) + 1)
  <2>1. End(p, k) + 1 \in 1 .. Len(p) + 1
    BY <1>2, EndIs DEF Opens
  <2> QED BY <2>1, AtFirst
<1>7. k \notin Surround(p, k) /\ Surround(p, k + 1) = Surround(p, k) \cup {k} /\ Surround(p, End(p, k) + 1) = Surround(p, k)
  BY SurroundIs
<1> QED BY <1>1, <1>3, <1>4, <1>5, <1>6, <1>7

LEMMA WhileArrives ==
  ASSUME NEW p, NEW k, NEW i, NEW en, NEW h, NEW at2, NEW en2, NEW h2,
         Step(p, k, i, en, h, at2, en2, h2), p[k].op = "while", AtWhile(p, k, i)
  PROVE  /\ Outside(p, <<k, i>>, k) /\ Quiet(en, h, en2, h2)
         /\ LET b == IF Eval(p[k].c, en, h) THEN k + 1 ELSE End(p, k) + 1
            IN  Outside(p, at2, b) /\ Surround(p, b) = Surround(p, k)
<1>1. IsBody(p) /\ k \in 1 .. Len(p) /\ i = 1 /\ Len(p) \in Nat /\ i \in 1 .. N(p, k)
  BY BodyIs DEF Step, Ready, AtWhile, W
<1>2. Outside(p, <<k, i>>, k)
  BY <1>1, AtFirst
<1>3. N(p, k) = 1
  BY <1>1, NIs DEF Single
<1>4. Onward(p, k, i) = <<k + 1, 1>>
  BY <1>1, <1>3 DEF Onward
<1>5. /\ Quiet(en, h, en2, h2)
      /\ at2 = IF Eval(p[k].c, en, h) THEN <<k + 1, 1>> ELSE <<End(p, k) + 1, 1>>
  <2>1. Cond(p, k) = p[k].c
    BY DEF Cond
  <2> QED BY <1>4, <2>1, WhileGoes
<1>6. Surround(p, k + 1) = Surround(p, k) /\ Surround(p, End(p, k) + 1) = Surround(p, k)
  BY <1>1, SurroundIs
<1>7. k + 1 \in 1 .. Len(p) + 1 /\ End(p, k) + 1 \in 1 .. Len(p) + 1
  BY <1>1, EndIs DEF Opens
<1>8. \A b \in 1 .. Len(p) + 1 : Outside(p, <<b, 1>>, b)
  BY <1>1, AtFirst
<1> QED BY <1>2, <1>5, <1>6, <1>7, <1>8

LEMMA ReloadArrives ==
  ASSUME NEW p, NEW k, NEW i, NEW en, NEW h, NEW at2, NEW en2, NEW h2,
         Step(p, k, i, en, h, at2, en2, h2), AtReload(p, k, i)
  PROVE  Outside(p, <<k, i>>, k + 1) /\ Outside(p, at2, k + 1)
<1>1. IsBody(p) /\ k \in 1 .. Len(p) /\ Len(p) \in Nat /\ i \in 1 .. N(p, k)
  BY BodyIs DEF Step, Ready
<1>2. A(p, k, i) = k + 1
  BY <1>1, PlaceAtIs
<1>3. at2 = <<k + 1, 1>>
  BY ReloadGoes
<1>4. k + 1 \in 1 .. Len(p) + 1
  BY <1>1
<1> QED BY <1>1, <1>2, <1>3, <1>4, AtOdd, AtFirst

(* A yield, its loop and its gathering.                                     *)
LEMMA YieldAround ==
  ASSUME NEW p, IsBody(p), NEW k \in 1 .. Len(p), p[k].op = "yield"
  PROVE  LET l == p[k].of
             g == Whole(p, k)
             S == Surround(p, k)
         IN  /\ l \in 1 .. Len(p) /\ p[l].op = "for" /\ Each(p[l]) /\ p[l].of = g /\ k = End(p, l)
             /\ g \in 1 .. Len(p) /\ p[g].op = "gather" /\ End(p, g) = k + 1 /\ k + 1 \in 1 .. Len(p)
             /\ S = Surround(p, l) \cup {l} /\ l \notin Surround(p, l) /\ Surround(p, k + 1) = Surround(p, l)
             /\ Surround(p, l) = Surround(p, g) \cup {g} /\ g \notin Surround(p, g)
<1> DEFINE l == p[k].of
           g == Whole(p, k)
<1>1. /\ l \in 1 .. Len(p) /\ Each(p[l]) /\ IsLoop(p[l]) /\ k = End(p, l)
      /\ p[l].of = g
  BY YieldIs DEF Whole
<1>2. g \in 1 .. Len(p) /\ p[g].op = "gather" /\ End(p, g) = k + 1 /\ k + 1 \in 1 .. Len(p)
  BY ResultIs
<1>3. Around(p, l) = Around(p, g) \cup {g}
  <2>1. Innermost(g, Around(p, l))
    BY YieldIs DEF Whole
  <2>2. l \in 1 .. Len(p) + 1
    BY <1>1, BodyIs
  <2> QED BY <2>1, <2>2, InnermostIs
<1>4. Surround(p, l) = Surround(p, g) \cup {g}
  BY <1>2, <1>3 DEF Surround
<1>5. p[l].op = "for"
  BY <1>1 DEF Each
<1> HIDE DEF l, g
<1>6. g \notin Surround(p, g) /\ l \notin Surround(p, l) /\ Surround(p, End(p, l)) = Surround(p, l) \cup {l}
      /\ Surround(p, End(p, l) + 1) = Surround(p, l)
  BY <1>1, <1>2, <1>5, SurroundIs
<1> QED BY <1>1, <1>2, <1>4, <1>5, <1>6 DEF l, g

LEMMA GainArrives ==
  ASSUME NEW p, NEW k, NEW i, NEW en, NEW h, NEW at2, NEW en2, NEW h2,
         Step(p, k, i, en, h, at2, en2, h2), OfGain(p, k, i)
  PROVE  LET l == p[k].of
         IN  /\ p[k].op = "yield"
             /\ AtGain(p, k, i) => Outside(p, <<k, i>>, k) /\ AtLoop(p, at2, l, TRUE, TRUE)
             /\ AtTest(p, k, i) =>
                  /\ Outside(p, <<k, i>>, k)
                  /\ IF Eval(p[k].e, en, h) = AnyOf(p, k)
                     THEN Outside(p, at2, k) /\ AtKnown(p, k, at2[2]) /\ at2[1] = k
                     ELSE AtLoop(p, at2, l, TRUE, TRUE) /\ at2[1] = k /\ ~ AtKnown(p, k, at2[2])
             /\ AtKnown(p, k, i) => /\ Outside(p, <<k, i>>, k) /\ Outside(p, at2, k + 1)
                                    /\ at2[1] = k /\ AtStop(p, k, at2[2])
             /\ AtStop(p, k, i) => Outside(p, <<k, i>>, k + 1) /\ Outside(p, at2, k + 1) /\ at2 = <<k + 1, 1>>
             /\ AtOther(p, k, i) => AtLoop(p, <<k, i>>, l, TRUE, TRUE) /\ AtLoop(p, at2, l, TRUE, TRUE)
             /\ AtSettled(p, k, i) => AtLoop(p, <<k, i>>, l, TRUE, TRUE) /\ AtLoop(p, at2, l, TRUE, TRUE)
<1> DEFINE l == p[k].of
<1>1. IsBody(p) /\ k \in 1 .. Len(p) /\ Len(p) \in Nat /\ i \in 1 .. N(p, k) /\ Fine(en, h)
      /\ Known(p, k, i) \subseteq DOMAIN en
  BY BodyIs DEF Step, Ready
<1>2. p[k].op = "yield"
  BY DEF OfGain, AtGain, AtTest, AtKnown, AtStop, AtOther, AtSettled, Deciding
<1>3. /\ l \in 1 .. Len(p) /\ p[l].op = "for" /\ Each(p[l]) /\ k = End(p, l) /\ p[l].of = Whole(p, k)
  BY <1>1, <1>2, YieldAround
<1>4. IsLoop(p[l]) /\ Q(p, l) \in {0, 1, 5} /\ F(p, l) \in {0, 2} /\ LatchAt(p, l) = Q(p, l) + F(p, l) + 2
      /\ N(p, k) = EndAt(p, l) /\ B(p, l) \in {0, 1, 2} /\ Q(p, l) = IF Grows(p, Whole(p, k)) THEN 1 ELSE 5
  <2>1. IsLoop(p[l])
    BY <1>3 DEF IsLoop
  <2> QED BY <1>1, <1>3, <2>1, LoopIs DEF LatchAt, Q, Grows
<1>5. \A j \in 1 .. N(p, k) : Behind(p, k, j) /\ j <= LatchAt(p, l) => AtLoop(p, <<k, j>>, l, TRUE, TRUE)
  <2> SUFFICES ASSUME NEW j \in 1 .. N(p, k), Behind(p, k, j), j <= LatchAt(p, l)
               PROVE  AtLoop(p, <<k, j>>, l, TRUE, TRUE)
    OBVIOUS
  <2>1. Returned(p, <<k, j>>, l, j <= LatchAt(p, l) + 1, j <= LatchAt(p, l) + 2)
    BY <1>1, AtBehind
  <2>2. j <= LatchAt(p, l) + 1 /\ j <= LatchAt(p, l) + 2
    BY <1>4
  <2> QED BY <1>3, <2>1, <2>2 DEF Returned, AtLoop
<1>6. \A j \in 1 .. N(p, k) : A(p, k, j) = k => Outside(p, <<k, j>>, k)
  BY <1>1, <1>2, AtOdd
<1>7. k + 1 \in 1 .. Len(p) + 1 /\ Outside(p, <<k + 1, 1>>, k + 1)
  <2>1. k + 1 \in 1 .. Len(p) + 1
    BY <1>1
  <2> QED BY <1>1, <2>1, AtFirst
<1>8. CASE Grows(p, Whole(p, k))
  <2>1. AtGain(p, k, i) /\ ~ Deciding(p, k)
    BY <1>8 DEF Deciding, OfGain, AtTest, AtKnown, AtStop, AtOther, AtSettled
  <2>2. at2 = <<k, 2>>
    BY <2>1, GainGoes
  <2>3. 2 \in 1 .. N(p, k) /\ 2 > Q(p, l) /\ 2 <= LatchAt(p, l)
    BY <1>4, <1>8 DEF EndAt
  <2>4. Behind(p, k, 2)
    <3> HIDE DEF l
    <3> QED BY <1>1, <1>3, <1>4, <2>3, TurnSpot
  <2>5. AtLoop(p, at2, l, TRUE, TRUE)
    BY <1>5, <2>2, <2>3, <2>4
  <2>6. Outside(p, <<k, i>>, k)
    BY <1>1, <1>6, <2>1 DEF AtGain
  <2>7. ~ AtTest(p, k, i) /\ ~ AtKnown(p, k, i) /\ ~ AtStop(p, k, i) /\ ~ AtOther(p, k, i) /\ ~ AtSettled(p, k, i)
    BY <2>1 DEF AtTest, AtKnown, AtStop, AtOther, AtSettled
  <2> QED BY <1>2, <2>5, <2>6, <2>7
<1>9. CASE ~ Grows(p, Whole(p, k))
  <2> DEFINE any == AnyOf(p, k)
  <2>1. Deciding(p, k) /\ ~ AtGain(p, k, i)
    BY <1>2, <1>9 DEF Deciding, AtGain
  <2>2. /\ N(p, k) >= 8 /\ N(p, k) \in Nat
        /\ AtTest(p, k, 1)
        /\ AtKnown(p, k, IF any THEN 2 ELSE 3) /\ AtStop(p, k, IF any THEN 3 ELSE 4)
        /\ AtOther(p, k, IF any THEN 4 ELSE 2) /\ AtSettled(p, k, 5)
        /\ Behind(p, k, IF any THEN 4 ELSE 2) /\ Behind(p, k, 5) /\ Behind(p, k, 6)
    BY <1>1, <2>1, DecidingSpots
  <2>3. LatchAt(p, l) >= 7 /\ LatchAt(p, l) \in Nat
    BY <1>4, <1>9
  <2>4. \A j \in {2, 4, 5, 6} : Behind(p, k, j) => AtLoop(p, <<k, j>>, l, TRUE, TRUE)
    <3>1. \A j \in {2, 4, 5, 6} : j \in 1 .. N(p, k) /\ j <= LatchAt(p, l)
      BY <2>2, <2>3
    <3> QED BY <1>5, <3>1
  <2>10. /\ AtTest(p, k, i) => i = 1
         /\ AtKnown(p, k, i) => i = IF any THEN 2 ELSE 3
         /\ AtStop(p, k, i) => i = IF any THEN 3 ELSE 4
         /\ AtOther(p, k, i) => i = IF any THEN 4 ELSE 2
         /\ AtSettled(p, k, i) => i = 5
    BY DEF AtTest, AtKnown, AtStop, AtOther, AtSettled
  <2>5. CASE AtTest(p, k, i)
    <3>9. ~ AtKnown(p, k, i) /\ ~ AtStop(p, k, i) /\ ~ AtOther(p, k, i) /\ ~ AtSettled(p, k, i)
      BY <2>10, <2>5
    <3>0. i = 1 /\ A(p, k, i) = k
      BY <2>5 DEF AtTest
    <3>1. at2 = IF Eval(p[k].e, en, h) THEN <<k, 2>> ELSE <<k, IF any THEN 5 ELSE 3>>
      BY <2>5, GainGoes
    <3>2. Eval(p[k].e, en, h) \in BOOLEAN
      <4>1. D(p, k, i) = If(p[k].e, <<"test", k>>)
        BY <2>5 DEF AtTest
      <4>2. HasType(p[k].e, "bool") /\ Reads(p[k].e) \subseteq Known(p, k, i)
        <5>1. Sound(p, k, i)
          BY <1>1, SoundIs
        <5> QED BY <4>1, <5>1 DEF Sound, If
      <4>3. OfType(Eval(p[k].e, en, h), "bool", h)
        BY <1>1, <4>2, EvalTyped
      <4> QED BY <4>3 DEF OfType
    <3>3. any \in BOOLEAN
      BY DEF AnyOf
    <3>4. Outside(p, <<k, i>>, k)
      BY <1>1, <1>6, <3>0
    <3>5. CASE Eval(p[k].e, en, h) = any
      <4>1. at2 = <<k, IF any THEN 2 ELSE 3>>
        BY <3>1, <3>2, <3>3, <3>5
      <4>2. A(p, k, IF any THEN 2 ELSE 3) = k
        BY <2>2 DEF AtKnown
      <4>3. (IF any THEN 2 ELSE 3) \in 1 .. N(p, k)
        BY <2>2
      <4>4. Outside(p, at2, k) /\ AtKnown(p, k, at2[2]) /\ at2[1] = k
        BY <1>6, <2>2, <4>1, <4>2, <4>3
      <4> QED BY <1>2, <2>1, <2>5, <3>0, <3>4, <3>5, <3>9, <4>4
    <3>6. CASE Eval(p[k].e, en, h) # any
      <4>1. at2 = <<k, IF any THEN 5 ELSE 2>>
        BY <3>1, <3>2, <3>3, <3>6
      <4>2. AtLoop(p, at2, l, TRUE, TRUE)
        BY <2>2, <2>4, <4>1
      <4>3. ~ AtKnown(p, k, at2[2])
        BY <4>1 DEF AtKnown
      <4> QED BY <1>2, <2>1, <2>5, <3>0, <3>4, <3>6, <3>9, <4>1, <4>2, <4>3
    <3> QED BY <3>5, <3>6
  <2>6. CASE AtKnown(p, k, i)
    <3>9. ~ AtTest(p, k, i) /\ ~ AtStop(p, k, i) /\ ~ AtOther(p, k, i) /\ ~ AtSettled(p, k, i)
      BY <2>10, <2>6
    <3>1. i = (IF any THEN 2 ELSE 3) /\ A(p, k, i) = k
      BY <2>6 DEF AtKnown
    <3>2. at2 = <<k, i + 1>>
      BY <2>6, GainGoes
    <3>3. at2 = <<k, IF any THEN 3 ELSE 4>>
      BY <3>1, <3>2
    <3>4. (IF any THEN 3 ELSE 4) \in 1 .. N(p, k) /\ A(p, k, IF any THEN 3 ELSE 4) = k + 1
      BY <2>2 DEF AtStop
    <3>5. Outside(p, at2, k + 1) /\ at2[1] = k /\ AtStop(p, k, at2[2])
      BY <1>1, <2>2, <3>3, <3>4, AtOdd
    <3>6. Outside(p, <<k, i>>, k)
      BY <1>1, <1>6, <3>1
    <3> QED BY <1>2, <2>1, <3>1, <3>5, <3>6, <3>9
  <2>7. CASE AtStop(p, k, i)
    <3>9. ~ AtTest(p, k, i) /\ ~ AtKnown(p, k, i) /\ ~ AtOther(p, k, i) /\ ~ AtSettled(p, k, i)
      BY <2>10, <2>7
    <3>1. A(p, k, i) = k + 1 /\ i = (IF any THEN 3 ELSE 4)
      BY <2>7 DEF AtStop
    <3>2. Outside(p, <<k, i>>, k + 1)
      BY <1>1, <2>7, <3>1, AtOdd
    <3>3. at2 = <<k + 1, 1>>
      BY <2>7, GainGoes
    <3> QED BY <1>2, <1>7, <2>1, <3>1, <3>2, <3>3, <3>9
  <2>8. CASE AtOther(p, k, i)
    <3>9. ~ AtTest(p, k, i) /\ ~ AtKnown(p, k, i) /\ ~ AtStop(p, k, i) /\ ~ AtSettled(p, k, i)
      BY <2>10, <2>8
    <3>1. i = (IF any THEN 4 ELSE 2)
      BY <2>8 DEF AtOther
    <3>2. at2 = <<k, 5>>
      BY <2>8, GainGoes
    <3>3. AtLoop(p, <<k, i>>, l, TRUE, TRUE) /\ AtLoop(p, at2, l, TRUE, TRUE)
      BY <2>2, <2>4, <3>1, <3>2
    <3> QED BY <1>2, <2>1, <3>1, <3>3, <3>9
  <2>9. CASE AtSettled(p, k, i)
    <3>9. ~ AtTest(p, k, i) /\ ~ AtKnown(p, k, i) /\ ~ AtStop(p, k, i) /\ ~ AtOther(p, k, i)
      BY <2>10, <2>9
    <3>1. i = 5
      BY <2>9 DEF AtSettled
    <3>2. at2 = <<k, 6>>
      BY <2>9, GainGoes
    <3>3. AtLoop(p, <<k, i>>, l, TRUE, TRUE) /\ AtLoop(p, at2, l, TRUE, TRUE)
      BY <2>2, <2>4, <3>1, <3>2
    <3> QED BY <1>2, <2>1, <3>1, <3>3, <3>9
  <2> QED BY <2>1, <2>5, <2>6, <2>7, <2>8, <2>9 DEF OfGain
<1> QED BY <1>8, <1>9

LEMMA TurnArrives ==
  ASSUME NEW p, NEW k, NEW i, NEW en, NEW h, NEW at2, NEW en2, NEW h2,
         Step(p, k, i, en, h, at2, en2, h2), OfTurn(p, k, i)
  PROVE  LET l == p[k].of
             S == Surround(p, l)
         IN  /\ i = 1 => Outside(p, <<k, i>>, k) /\ ~ AtEnd(p, k, i) /\ ~ Steps(p, k, i) /\ i < LatchAt(p, l)
             /\ i # 1 => Returned(p, <<k, i>>, l, i <= LatchAt(p, l) + 1, i <= LatchAt(p, l) + 2)
             /\ ~ AtEnd(p, k, i) => Returned(p, at2, l, i + 1 <= LatchAt(p, l) + 1, i + 1 <= LatchAt(p, l) + 2)
             /\ AtEnd(p, k, i) => Returned(p, at2, l, FALSE, FALSE)
             /\ Surround(p, k) = S \cup (IF p[l].op = "for" THEN {l} ELSE {}) /\ l \notin S
<1> DEFINE l == p[k].of
<1>1. IsBody(p) /\ k \in 1 .. Len(p) /\ Len(p) \in Nat /\ i \in 1 .. N(p, k)
  BY BodyIs DEF Step, Ready
<1>2. Closing(p, k) /\ l \in 1 .. Len(p) /\ IsLoop(p[l]) /\ k = End(p, l) /\ i > Q(p, l)
  BY TurnGoes
<1>3. /\ Q(p, l) \in {0, 1, 5} /\ F(p, l) \in {0, 2} /\ B(p, l) \in {0, 1, 2}
      /\ N(p, k) = EndAt(p, l) /\ LatchAt(p, l) = Q(p, l) + F(p, l) + 2
      /\ EndAt(p, l) = LatchAt(p, l) + B(p, l) + 1
  <2>1. /\ Q(p, l) \in {0, 1, 5} /\ F(p, l) \in {0, 2} /\ B(p, l) \in {0, 1, 2} /\ N(p, k) = EndAt(p, l)
    BY <1>1, <1>2, LoopIs
  <2> QED BY <2>1 DEF LatchAt, EndAt
<1>4. Surround(p, k) = Surround(p, l) \cup (IF p[l].op = "for" THEN {l} ELSE {}) /\ l \notin Surround(p, l)
  BY <1>1, <1>2, SurroundIs DEF IsLoop
<1>5. \A j \in 1 .. N(p, k) : j >= 2 /\ j > Q(p, l) =>
        Returned(p, <<k, j>>, l, j <= LatchAt(p, l) + 1, j <= LatchAt(p, l) + 2)
  <2> SUFFICES ASSUME NEW j \in 1 .. N(p, k), j >= 2, j > Q(p, l)
               PROVE  Returned(p, <<k, j>>, l, j <= LatchAt(p, l) + 1, j <= LatchAt(p, l) + 2)
    OBVIOUS
  <2>1. Behind(p, k, j)
    <3> HIDE DEF l
    <3> QED BY <1>1, <1>2, TurnSpot
  <2> QED BY <1>1, <2>1, AtBehind
<1>6. i # 1 => Returned(p, <<k, i>>, l, i <= LatchAt(p, l) + 1, i <= LatchAt(p, l) + 2)
  BY <1>1, <1>2, <1>3, <1>5
<1>7. ~ AtEnd(p, k, i) => Returned(p, at2, l, i + 1 <= LatchAt(p, l) + 1, i + 1 <= LatchAt(p, l) + 2)
  <2> SUFFICES ASSUME ~ AtEnd(p, k, i)
               PROVE  Returned(p, at2, l, i + 1 <= LatchAt(p, l) + 1, i + 1 <= LatchAt(p, l) + 2)
    OBVIOUS
  <2>1. at2 = <<k, i + 1>> /\ i < LatchAt(p, l) + B(p, l) + 1
    BY TurnGoes
  <2>2. i + 1 \in 1 .. N(p, k) /\ i + 1 >= 2 /\ i + 1 > Q(p, l)
    BY <1>1, <1>2, <1>3, <2>1
  <2> QED BY <1>5, <2>1, <2>2
<1>8. AtEnd(p, k, i) => Returned(p, at2, l, FALSE, FALSE)
  <2> SUFFICES ASSUME AtEnd(p, k, i) PROVE Returned(p, at2, l, FALSE, FALSE)
    OBVIOUS
  <2>1. at2 = <<l, W(p, l)>>
    BY TurnGoes
  <2>2. CASE p[l].op = "for"
    <3>1. W(p, l) \in 1 .. H(p, l) /\ W(p, l) >= W(p, l)
      <4>1. 1 \in 1 .. H(p, l)
        <5>1. H(p, l) \in 2 .. 6
          BY <1>2, <1>1, <2>2, WalkIs
        <5> QED BY <5>1
      <4>2. W(p, l) <= H(p, l) /\ W(p, l) \in 2 .. 4 /\ H(p, l) \in 2 .. 6
        BY <1>1, <1>2, <2>2, <4>1, HeadArrives DEF HeadMoves
      <4> QED BY <4>2
    <3>2. AtLoop(p, <<l, W(p, l)>>, l, FALSE, FALSE)
      <4> HIDE DEF l
      <4> QED BY <1>1, <1>2, <2>2, <3>1, AtHead
    <3> QED BY <2>1, <2>2, <3>2 DEF Returned
  <2>3. CASE p[l].op # "for"
    <3>1. W(p, l) = 1
      BY <1>2, <2>3 DEF W, IsLoop
    <3>2. l \in 1 .. Len(p) + 1
      BY <1>1, <1>2
    <3>3. Outside(p, <<l, 1>>, l)
      BY <1>1, <3>2, AtFirst
    <3> QED BY <2>1, <2>3, <3>1, <3>3 DEF Returned
  <2> QED BY <2>2, <2>3
<1>9. i = 1 => Outside(p, <<k, i>>, k) /\ ~ AtEnd(p, k, i) /\ ~ Steps(p, k, i) /\ i < LatchAt(p, l)
  <2> SUFFICES ASSUME i = 1
               PROVE  Outside(p, <<k, i>>, k) /\ ~ AtEnd(p, k, i) /\ ~ Steps(p, k, i) /\ i < LatchAt(p, l)
    OBVIOUS
  <2>1. Outside(p, <<k, i>>, k)
    BY <1>1, AtFirst
  <2>2. LatchAt(p, l) >= 2 /\ LatchAt(p, l) \in Nat
    BY <1>3
  <2>3. ~ AtEnd(p, k, i)
    <3>1. AtEnd(p, k, i) => i = LatchAt(p, l) + B(p, l) + 1
      BY TurnGoes
    <3> QED BY <1>3, <2>2, <3>1
  <2>4. ~ AtBump(p, k, i) /\ ~ AtCountUp(p, k, i)
    <3>1. AtBump(p, k, i) => i = LatchAt(p, l) + 1
      BY TurnGoes
    <3>2. AtCountUp(p, k, i) => i = LatchAt(p, l) + 2
      BY TurnGoes
    <3> QED BY <2>2, <3>1, <3>2
  <2> QED BY <2>1, <2>2, <2>3, <2>4 DEF Steps
<1> QED BY <1>4, <1>6, <1>7, <1>8, <1>9

-----------------------------------------------------------------------------
(* Nothing comes into play on a step but a gathering that begins and a loop *)
(* that is entered.                                                         *)

Reaches(p, k, i, at2) ==
  LET b == PlaceAt(p, at2)
  IN  /\ b \in 1 .. Len(p) + 1
      /\ \A l \in Surround(p, b) : l \in Going(p, <<k, i>>) \/ (l = k /\ p[k].op = "gather" /\ AtSingle(p, k, i))
      /\ Entered(p, at2) =>
           /\ b \in 1 .. Len(p) /\ p[b].op = "for"
           /\ b \in Going(p, <<k, i>>) \/ (b = k /\ i + 1 = W(p, k) /\ at2 = <<k, i + 1>>)
      /\ \A g \in Surround(p, b) : p[g].op = "gather" /\ A(p, k, i) = End(p, g) => b = End(p, g)

LEMMA GoingOutside ==
  ASSUME NEW p, NEW at, NEW a, Outside(p, at, a)
  PROVE  PlaceAt(p, at) = a /\ Going(p, at) = Surround(p, a) /\ a \in 1 .. Len(p) + 1 /\ ~ Entered(p, at)
BY DEF Outside, Going

LEMMA GoingAtLoop ==
  ASSUME NEW p, NEW at, NEW a, NEW t1, NEW t2, AtLoop(p, at, a, t1, t2)
  PROVE  /\ PlaceAt(p, at) = a /\ Going(p, at) = Surround(p, a) \cup {a} /\ a \in 1 .. Len(p)
         /\ p[a].op = "for" /\ Entered(p, at)
BY DEF AtLoop, Going

LEMMA GoingReturned ==
  ASSUME NEW p, NEW at, NEW a, NEW t1, NEW t2, Returned(p, at, a, t1, t2)
  PROVE  /\ PlaceAt(p, at) = a /\ Going(p, at) = Surround(p, a) \cup (IF p[a].op = "for" THEN {a} ELSE {})
         /\ a \in 1 .. Len(p) + 1 /\ (Entered(p, at) <=> p[a].op = "for")
         /\ p[a].op = "for" => a \in 1 .. Len(p)
BY GoingOutside, GoingAtLoop DEF Returned

LEMMA GatherEnd ==
  ASSUME NEW p, IsBody(p), NEW b \in 1 .. Len(p) + 1, NEW g \in Surround(p, b), p[g].op = "gather"
  PROVE  p[End(p, g)].op = "result" /\ End(p, g) \in 1 .. Len(p)
<1>1. g \in 1 .. Len(p) /\ Len(p) \in Nat
  BY AroundOf, BodyIs DEF Surround
<1> QED BY <1>1, CloseIs, EndIs DEF Opens

LEMMA ReachOut ==
  ASSUME NEW p, IsBody(p), NEW k, NEW i, NEW at2, NEW b, Outside(p, at2, b),
         Surround(p, b) \subseteq Going(p, <<k, i>>),
         p[A(p, k, i)].op # "result" \/ A(p, k, i) = b
  PROVE  Reaches(p, k, i, at2)
<1>1. PlaceAt(p, at2) = b /\ b \in 1 .. Len(p) + 1 /\ ~ Entered(p, at2)
  BY GoingOutside
<1>2. \A g \in Surround(p, b) : p[g].op = "gather" /\ A(p, k, i) = End(p, g) => b = End(p, g)
  BY <1>1, GatherEnd
<1> QED BY <1>1, <1>2 DEF Reaches

LEMMA ReachLoop ==
  ASSUME NEW p, IsBody(p), NEW k, NEW i, NEW at2, NEW b, NEW t1, NEW t2, Returned(p, at2, b, t1, t2),
         Surround(p, b) \subseteq Going(p, <<k, i>>), p[b].op = "for" => b \in Going(p, <<k, i>>),
         p[A(p, k, i)].op # "result"
  PROVE  Reaches(p, k, i, at2)
<1>1. /\ PlaceAt(p, at2) = b /\ b \in 1 .. Len(p) + 1 /\ (Entered(p, at2) <=> p[b].op = "for")
      /\ p[b].op = "for" => b \in 1 .. Len(p)
  BY GoingReturned
<1>2. \A g \in Surround(p, b) : p[g].op = "gather" /\ A(p, k, i) = End(p, g) => b = End(p, g)
  BY <1>1, GatherEnd
<1> QED BY <1>1, <1>2 DEF Reaches

LEMMA SingleReaches ==
  ASSUME NEW p, NEW k, NEW i, NEW en, NEW h, NEW at2, NEW en2, NEW h2,
         Step(p, k, i, en, h, at2, en2, h2), AtSingle(p, k, i)
  PROVE  Reaches(p, k, i, at2)
<1> DEFINE t == p[k]
           S == Surround(p, k)
<1>0. SingleMoves(p, k, i, en, h, at2)
  BY SingleArrives
<1>1. IsBody(p) /\ k \in 1 .. Len(p) /\ A(p, k, i) = k /\ Outside(p, <<k, i>>, k)
  BY <1>0 DEF Step, Ready, AtSingle, SingleMoves
<1>2. Going(p, <<k, i>>) = S
  BY <1>1, GoingOutside
<1>3. \A b : Outside(p, at2, b) /\ Surround(p, b) \subseteq S /\ t.op # "result" => Reaches(p, k, i, at2)
  BY <1>1, <1>2, ReachOut
<1>4. CASE t.op \in {"let", "append"}
  <2>1. Outside(p, at2, k + 1) /\ Surround(p, k + 1) = S
    BY <1>0, <1>4 DEF SingleMoves
  <2> QED BY <1>3, <1>4, <2>1
<1>5. CASE t.op = "if"
  <2> DEFINE b == IF Eval(t.c, en, h) THEN k + 1 ELSE Else(p, k) + 1
  <2>1. Outside(p, at2, b) /\ Surround(p, b) = S
    BY <1>0, <1>5 DEF SingleMoves
  <2> QED BY <1>3, <1>5, <2>1
<1>6. CASE t.op = "else"
  <2>1. Outside(p, at2, End(p, t.of)) /\ Surround(p, End(p, t.of)) = S
    BY <1>0, <1>6 DEF SingleMoves
  <2> QED BY <1>3, <1>6, <2>1
<1>7. CASE t.op = "break"
  <2>1. Outside(p, at2, End(p, t.of) + 1) /\ Surround(p, End(p, t.of) + 1) = S \ {t.of}
    BY <1>0, <1>7 DEF SingleMoves
  <2> QED BY <1>3, <1>7, <2>1
<1>8. CASE t.op = "return"
  <2>1. Outside(p, at2, Len(p) + 1) /\ Surround(p, Len(p) + 1) = {}
    BY <1>0, <1>8 DEF SingleMoves
  <2> QED BY <1>3, <1>8, <2>1
<1>9. CASE t.op = "continue"
  <2>1. /\ Returned(p, at2, t.of, TRUE, TRUE) /\ Surround(p, t.of) = S \ {t.of}
        /\ p[t.of].op = "for" => t.of \in S
    BY <1>0, <1>9 DEF SingleMoves
  <2> QED BY <1>1, <1>2, <1>9, <2>1, ReachLoop
<1>10. CASE t.op = "gather"
  <2>1. Outside(p, at2, k + 1) /\ Surround(p, k + 1) = S \cup {k}
    BY <1>0, <1>10 DEF SingleMoves
  <2>2. PlaceAt(p, at2) = k + 1 /\ k + 1 \in 1 .. Len(p) + 1 /\ ~ Entered(p, at2)
    BY <2>1, GoingOutside
  <2>3. \A g \in Surround(p, k + 1) : p[g].op = "gather" => k # End(p, g)
    BY <1>1, <1>10, <2>2, GatherEnd
  <2> QED BY <1>1, <1>2, <1>10, <2>1, <2>2, <2>3 DEF Reaches
<1>11. CASE t.op = "result"
  <2>1. Outside(p, at2, k + 1) /\ Surround(p, k + 1) = S \ {t.of}
    BY <1>0, <1>11 DEF SingleMoves
  <2>2. PlaceAt(p, at2) = k + 1 /\ k + 1 \in 1 .. Len(p) + 1 /\ ~ Entered(p, at2)
    BY <2>1, GoingOutside
  <2>3. \A g \in Surround(p, k + 1) : p[g].op = "gather" => k # End(p, g)
    <3> SUFFICES ASSUME NEW g \in Surround(p, k + 1), p[g].op = "gather", k = End(p, g) PROVE FALSE
      OBVIOUS
    <3>1. g \in 1 .. Len(p)
      BY <1>1, <2>2, AroundOf DEF Surround
    <3>2. p[End(p, g)].of = g
      BY <1>1, <3>1, EndIs DEF Opens
    <3> QED BY <2>1, <3>2
  <2> QED BY <1>1, <1>2, <2>1, <2>2, <2>3 DEF Reaches
<1>12. t.op \in {"let", "append", "if", "else", "gather", "result", "break", "continue", "return"}
  BY SingleGoes
<1> QED BY <1>4, <1>5, <1>6, <1>7, <1>8, <1>9, <1>10, <1>11, <1>12

LEMMA HeadReaches ==
  ASSUME NEW p, NEW k, NEW i, NEW en, NEW h, NEW at2, NEW en2, NEW h2,
         Step(p, k, i, en, h, at2, en2, h2), p[k].op = "for", i <= H(p, k)
  PROVE  Reaches(p, k, i, at2)
<1> DEFINE S == Surround(p, k)
<1>1. IsBody(p) /\ k \in 1 .. Len(p) /\ i \in 1 .. N(p, k) /\ N(p, k) \in Nat
  BY NIs DEF Step, Ready
<1>2. i \in 1 .. H(p, k)
  <2>1. H(p, k) \in 2 .. 6
    BY <1>1, WalkIs
  <2> QED BY <1>1, <2>1
<1>0. HeadMoves(p, k, i)
  BY <1>1, <1>2, HeadArrives
<1>3. /\ i >= W(p, k) => AtLoop(p, <<k, i>>, k, FALSE, FALSE)
      /\ ~ (i >= W(p, k)) => Outside(p, <<k, i>>, k)
      /\ k \notin S /\ Surround(p, k + 1) = S \cup {k} /\ Surround(p, End(p, k) + 1) = S
      /\ W(p, k) <= H(p, k) /\ W(p, k) \in 2 .. 4 /\ H(p, k) \in 2 .. 6
  BY <1>0 DEF HeadMoves
<1>4. A(p, k, i) = k
  <2>1. PlaceAt(p, <<k, i>>) = k
    BY <1>3, GoingOutside, GoingAtLoop
  <2> QED BY <1>1, <2>1, PlaceAtIs
<1>5. Going(p, <<k, i>>) = S \cup (IF i >= W(p, k) THEN {k} ELSE {})
  <2>1. CASE i >= W(p, k)
    <3>1. AtLoop(p, <<k, i>>, k, FALSE, FALSE)
      BY <1>3, <2>1
    <3> QED BY <2>1, <3>1, GoingAtLoop
  <2>2. CASE ~ (i >= W(p, k))
    <3>1. Outside(p, <<k, i>>, k)
      BY <1>3, <2>2
    <3> QED BY <2>2, <3>1, GoingOutside
  <2> QED BY <2>1, <2>2
<1>6. at2 = Onward(p, k, i) \/ (i = W(p, k) /\ at2 = <<End(p, k) + 1, 1>>)
  <2>1. CASE i = W(p, k)
    <3>1. AtWhile(p, k, i)
      BY <1>1, <2>1, LoopIs DEF IsLoop
    <3> QED BY <2>1, <3>1, WhileGoes
  <2>2. CASE i # W(p, k)
    BY <2>2, HeadGoes
  <2> QED BY <2>1, <2>2
<1>7. CASE i = W(p, k) /\ at2 = <<End(p, k) + 1, 1>>
  <2>1. Outside(p, <<End(p, k) + 1, 1>>, End(p, k) + 1)
    BY <1>0 DEF HeadMoves
  <2>2. S \subseteq Going(p, <<k, i>>) /\ p[A(p, k, i)].op # "result"
    BY <1>4, <1>5
  <2> QED BY <1>1, <1>3, <1>7, <2>1, <2>2, ReachOut
<1>8. CASE at2 = Onward(p, k, i)
  <2>0. /\ ~ (i + 1 >= W(p, k)) => Outside(p, at2, k)
        /\ i + 1 >= W(p, k) /\ i < H(p, k) => AtLoop(p, at2, k, FALSE, FALSE)
        /\ i = H(p, k) => Outside(p, at2, k + 1)
        /\ i < H(p, k) => at2 = <<k, i + 1>>
    <3>1. /\ ~ (i + 1 >= W(p, k)) => Outside(p, Onward(p, k, i), k)
          /\ i + 1 >= W(p, k) /\ i < H(p, k) => AtLoop(p, Onward(p, k, i), k, FALSE, FALSE)
          /\ i = H(p, k) => Outside(p, Onward(p, k, i), k + 1)
          /\ i < H(p, k) => Onward(p, k, i) = <<k, i + 1>>
      BY <1>0 DEF HeadMoves
    <3> QED BY <1>8, <3>1
  <2>1. CASE ~ (i + 1 >= W(p, k))
    <3>1. S \subseteq Going(p, <<k, i>>) /\ p[A(p, k, i)].op # "result"
      BY <1>4, <1>5
    <3> QED BY <1>1, <2>0, <2>1, <3>1, ReachOut
  <2>2. CASE i = H(p, k)
    <3>1. S \cup {k} \subseteq Going(p, <<k, i>>) /\ p[A(p, k, i)].op # "result"
      BY <1>3, <1>4, <1>5, <2>2
    <3> QED BY <1>1, <1>3, <2>0, <2>2, <3>1, ReachOut
  <2>3. CASE i + 1 >= W(p, k) /\ i < H(p, k)
    <3>1. AtLoop(p, at2, k, FALSE, FALSE) /\ at2 = <<k, i + 1>>
      BY <2>0, <2>3
    <3>2. PlaceAt(p, at2) = k /\ Entered(p, at2) /\ k \in 1 .. Len(p) + 1
      <4>1. PlaceAt(p, at2) = k /\ Entered(p, at2)
        BY <3>1, GoingAtLoop
      <4> QED BY <1>1, <4>1, BodyIs
    <3>3. \A g \in S : p[g].op = "gather" => k # End(p, g)
      BY <1>1, <3>2, GatherEnd
    <3>4. k \in Going(p, <<k, i>>) \/ i + 1 = W(p, k)
      BY <1>3, <1>5, <2>3, <1>2
    <3>5. S \subseteq Going(p, <<k, i>>)
      BY <1>5
    <3> QED BY <1>1, <1>4, <3>1, <3>2, <3>3, <3>4, <3>5 DEF Reaches
  <2> QED BY <1>2, <1>3, <2>1, <2>2, <2>3
<1> QED BY <1>6, <1>7, <1>8

LEMMA TurnReaches ==
  ASSUME NEW p, NEW k, NEW i, NEW en, NEW h, NEW at2, NEW en2, NEW h2,
         Step(p, k, i, en, h, at2, en2, h2), OfTurn(p, k, i)
  PROVE  Reaches(p, k, i, at2)
<1> DEFINE l == p[k].of
           S == Surround(p, l)
<1>1. IsBody(p) /\ k \in 1 .. Len(p) /\ i \in 1 .. N(p, k) /\ N(p, k) \in Nat /\ Closing(p, k) /\ IsLoop(p[l])
  BY NIs, TurnGoes DEF Step, Ready
<1>2. PICK t1, t2 : Returned(p, at2, l, t1, t2)
  <2>1. CASE AtEnd(p, k, i)
    BY <2>1, TurnArrives
  <2>2. CASE ~ AtEnd(p, k, i)
    BY <2>2, TurnArrives
  <2> QED BY <2>1, <2>2
<1>3. Going(p, <<k, i>>) = S \cup (IF p[l].op = "for" THEN {l} ELSE {})
  <2>1. CASE i = 1
    <3>1. Outside(p, <<k, i>>, k) /\ Surround(p, k) = S \cup (IF p[l].op = "for" THEN {l} ELSE {})
      BY <2>1, TurnArrives
    <3> QED BY <3>1, GoingOutside
  <2>2. CASE i # 1
    <3>1. Returned(p, <<k, i>>, l, i <= LatchAt(p, l) + 1, i <= LatchAt(p, l) + 2)
      BY <2>2, TurnArrives
    <3> QED BY <3>1, GoingReturned
  <2> QED BY <2>1, <2>2
<1>4. p[A(p, k, i)].op # "result"
  <2>1. A(p, k, i) \in {k, l}
    BY DEF OfTurn, AtSkipped, AtKept, AtNext, AtLatch, AtBump, AtCountUp, AtEnd, Turn
  <2> QED BY <1>1, <2>1 DEF Closing, IsLoop
<1>5. S \subseteq Going(p, <<k, i>>) /\ (p[l].op = "for" => l \in Going(p, <<k, i>>))
  BY <1>3
<1> QED BY <1>1, <1>2, <1>4, <1>5, ReachLoop

LEMMA GainReaches ==
  ASSUME NEW p, NEW k, NEW i, NEW en, NEW h, NEW at2, NEW en2, NEW h2,
         Step(p, k, i, en, h, at2, en2, h2), OfGain(p, k, i)
  PROVE  Reaches(p, k, i, at2)
<1> DEFINE l == p[k].of
<1>1. IsBody(p) /\ k \in 1 .. Len(p) /\ p[k].op = "yield"
  BY GainArrives DEF Step, Ready
<1>2. /\ p[l].op = "for" /\ Surround(p, k) = Surround(p, l) \cup {l} /\ Surround(p, k + 1) = Surround(p, l)
  BY <1>1, YieldAround
<1>3. CASE AtStop(p, k, i)
  <2>1. Outside(p, <<k, i>>, k + 1) /\ Outside(p, at2, k + 1)
    BY <1>3, GainArrives
  <2>2. Going(p, <<k, i>>) = Surround(p, k + 1) /\ A(p, k, i) = k + 1
    BY <1>3, <2>1, GoingOutside DEF AtStop
  <2> QED BY <1>1, <2>1, <2>2, ReachOut
<1>4. CASE AtGain(p, k, i) \/ AtTest(p, k, i) \/ AtKnown(p, k, i)
  <2>1. Outside(p, <<k, i>>, k) /\ A(p, k, i) = k
    BY <1>4, GainArrives DEF AtGain, AtTest, AtKnown
  <2>2. Going(p, <<k, i>>) = Surround(p, k)
    BY <2>1, GoingOutside
  <2>3. Outside(p, at2, k) \/ Outside(p, at2, k + 1) \/ AtLoop(p, at2, l, TRUE, TRUE)
    <3>1. CASE AtGain(p, k, i)
      BY <3>1, GainArrives
    <3>2. CASE AtTest(p, k, i)
      BY <3>2, GainArrives
    <3>3. CASE AtKnown(p, k, i)
      BY <3>3, GainArrives
    <3> QED BY <1>4, <3>1, <3>2, <3>3
  <2>4. CASE Outside(p, at2, k) \/ Outside(p, at2, k + 1)
    BY <1>1, <1>2, <2>1, <2>2, <2>4, ReachOut
  <2>5. CASE AtLoop(p, at2, l, TRUE, TRUE)
    <3>1. Returned(p, at2, l, TRUE, TRUE)
      BY <1>2, <2>5 DEF Returned
    <3>2. Surround(p, l) \subseteq Going(p, <<k, i>>) /\ l \in Going(p, <<k, i>>)
      BY <1>2, <2>2
    <3> QED BY <1>1, <2>1, <3>1, <3>2, ReachLoop
  <2> QED BY <2>3, <2>4, <2>5
<1>5. CASE AtOther(p, k, i) \/ AtSettled(p, k, i)
  <2>1. AtLoop(p, <<k, i>>, l, TRUE, TRUE) /\ AtLoop(p, at2, l, TRUE, TRUE)
    <3>1. CASE AtOther(p, k, i)
      BY <3>1, GainArrives
    <3>2. CASE AtSettled(p, k, i)
      BY <3>2, GainArrives
    <3> QED BY <1>5, <3>1, <3>2
  <2>2. Going(p, <<k, i>>) = Surround(p, l) \cup {l} /\ A(p, k, i) = l
    BY <1>5, <2>1, GoingAtLoop DEF AtOther, AtSettled
  <2>3. Returned(p, at2, l, TRUE, TRUE)
    BY <1>2, <2>1 DEF Returned
  <2> QED BY <1>1, <1>2, <2>2, <2>3, ReachLoop
<1> QED BY <1>3, <1>4, <1>5 DEF OfGain

LEMMA StepReaches ==
  ASSUME NEW p, NEW k, NEW i, NEW en, NEW h, NEW at2, NEW en2, NEW h2,
         Step(p, k, i, en, h, at2, en2, h2)
  PROVE  Reaches(p, k, i, at2)
<1>1. IsBody(p) /\ k \in 1 .. Len(p) /\ i \in 1 .. N(p, k)
  BY DEF Step, Ready
<1>2. CASE AtSingle(p, k, i)
  BY <1>2, SingleReaches
<1>3. CASE AtFilter(p, k, i)
  <2> DEFINE l == p[k].of
  <2>1. /\ Outside(p, <<k, i>>, k)
        /\ Eval(p[k].c, en, h) => Outside(p, at2, k + 1) /\ Surround(p, k + 1) = Surround(p, k)
        /\ ~ Eval(p[k].c, en, h) => AtLoop(p, at2, l, TRUE, TRUE)
        /\ Surround(p, l) = Surround(p, k) \ {l} /\ l \in Surround(p, k) /\ p[l].op = "for"
    BY <1>3, FilterArrives
  <2>2. Going(p, <<k, i>>) = Surround(p, k) /\ A(p, k, i) = k /\ p[k].op = "filter"
    BY <1>3, <2>1, GoingOutside DEF AtFilter
  <2>3. CASE Eval(p[k].c, en, h)
    BY <1>1, <2>1, <2>2, <2>3, ReachOut
  <2>4. CASE ~ Eval(p[k].c, en, h)
    <3>1. Returned(p, at2, l, TRUE, TRUE)
      BY <2>1, <2>4 DEF Returned
    <3>2. Surround(p, l) \subseteq Going(p, <<k, i>>) /\ l \in Going(p, <<k, i>>)
      BY <2>1, <2>2
    <3> QED BY <1>1, <2>2, <3>1, <3>2, ReachLoop
  <2> QED BY <2>3, <2>4
<1>4. CASE AtJoin(p, k, i)
  <2>1. Outside(p, <<k, i>>, k) /\ Outside(p, at2, k + 1) /\ Surround(p, k + 1) = Surround(p, k)
    BY <1>4, JoinArrives
  <2>2. Going(p, <<k, i>>) = Surround(p, k) /\ A(p, k, i) = k /\ p[k].op = "end"
    BY <1>4, <2>1, GoingOutside DEF AtJoin
  <2> QED BY <1>1, <2>1, <2>2, ReachOut
<1>5. CASE AtReload(p, k, i)
  <2>1. Outside(p, <<k, i>>, k + 1) /\ Outside(p, at2, k + 1)
    BY <1>5, ReloadArrives
  <2>2. Going(p, <<k, i>>) = Surround(p, k + 1) /\ A(p, k, i) = k + 1
    BY <1>5, <2>1, GoingOutside DEF AtReload
  <2> QED BY <1>1, <2>1, <2>2, ReachOut
<1>6. CASE OfHead(p, k, i) /\ ~ AtReload(p, k, i)
  <2>1. CASE p[k].op = "while"
    <3>1. AtWhile(p, k, i)
      BY <1>6, <2>1 DEF OfHead, AtCount, AtCounter, AtIndex, AtList, AtLoad, Indexed
    <3> DEFINE b == IF Eval(p[k].c, en, h) THEN k + 1 ELSE End(p, k) + 1
    <3>2. Outside(p, at2, b) /\ Surround(p, b) = Surround(p, k)
      BY <2>1, <3>1, WhileArrives
    <3>3. Outside(p, <<k, i>>, k)
      BY <2>1, <3>1, WhileArrives
    <3>4. Going(p, <<k, i>>) = Surround(p, k) /\ A(p, k, i) = k
      BY <3>1, <3>3, GoingOutside DEF AtWhile
    <3> QED BY <1>1, <2>1, <3>2, <3>4, ReachOut
  <2>2. CASE p[k].op = "for"
    <3>1. i <= H(p, k)
      <4>1. H(p, k) \in 2 .. 6 /\ N(p, k) \in Nat
        BY <1>1, <2>2, WalkIs, NIs
      <4>2. i > H(p, k) => AtReload(p, k, i)
        BY <1>1, <2>2, ReloadSpot
      <4> QED BY <1>1, <1>6, <4>1, <4>2
    <3> QED BY <2>2, <3>1, HeadReaches
  <2>3. p[k].op \in {"for", "while"}
    BY <1>6 DEF OfHead, AtWhile, AtCount, AtCounter, AtIndex, AtList, AtLoad, Indexed, IsLoop
  <2> QED BY <2>1, <2>2, <2>3
<1>7. CASE OfGain(p, k, i)
  BY <1>7, GainReaches
<1>8. CASE OfTurn(p, k, i)
  BY <1>8, TurnReaches
<1> QED BY <1>1, <1>2, <1>3, <1>4, <1>5, <1>6, <1>7, <1>8, PlaceIs

-----------------------------------------------------------------------------
(* What Python sees before a step and after it. *)

LEMMA ShownKept ==
  ASSUME NEW p, NEW k, NEW i, NEW en, NEW h, NEW at2, NEW en2, NEW h2,
         Step(p, k, i, en, h, at2, en2, h2), ~ (AtSingle(p, k, i) /\ p[k].op \in {"let", "result"}),
         NEW b, Bound(p, b) \subseteq Bound(p, A(p, k, i))
  PROVE  ShownIn(p, b, en2) = ShownIn(p, b, en)
<1>1. \A x \in Bound(p, b) : en2[x] = en[x]
  BY BoundKept
<1> QED BY <1>1 DEF ShownIn

LEMMA ShownLess ==
  ASSUME NEW p, NEW a, NEW b, NEW T, Bound(p, b) = Bound(p, a) \ T, NEW en
  PROVE  Without(ShownIn(p, a, en), T) = ShownIn(p, b, en)
BY DEF ShownIn, Without

LEMMA BoundLess ==
  ASSUME NEW p, IsBody(p), Follows(p), NEW l \in 1 .. Len(p), NEW a, NEW b,
         p[l].op = "for" => Surround(p, a) = Surround(p, b) \cup {l} /\ Surround(p, b) = Surround(p, l),
         p[l].op # "for" => Surround(p, a) = Surround(p, b)
  PROVE  Bound(p, b) = Bound(p, a) \ Targets(p, l) /\ Bound(p, b) \subseteq Bound(p, a)
<1>1. CASE p[l].op = "for"
  <2>1. Bound(p, a) = Bound(p, b) \cup Targets(p, l) /\ Bound(p, b) = Bound(p, l)
    BY <1>1, SurroundsBound
  <2>2. Targets(p, l) \cap Bound(p, l) = {}
    BY <1>1, BodyIs DEF Follows, TargetsApart
  <2> QED BY <2>1, <2>2
<1>2. CASE p[l].op # "for"
  <2>1. Bound(p, a) = Bound(p, b)
    BY <1>2, SurroundsBound
  <2> QED BY <1>2, <2>1 DEF Targets
<1> QED BY <1>1, <1>2

LEMMA FullKept ==
  ASSUME NEW p, NEW k, NEW i, NEW en, NEW h, NEW at2, NEW en2, NEW h2,
         Step(p, k, i, en, h, at2, en2, h2),
         NEW S, S \subseteq Going(p, <<k, i>>), \A l \in S : ~ Own(p, k, i, l)
  PROVE  Full(p, S, en2, h2) = Full(p, S, en, h)
<1>1. \A l \in S : UnderIn(p, l, TRUE, TRUE, en2, h2) = UnderIn(p, l, TRUE, TRUE, en, h)
  <2> TAKE l \in S
  <2>1. l \in Going(p, <<k, i>>) /\ ~ Own(p, k, i, l)
    OBVIOUS
  <2>2. SameUnder(p, l, en, h, en2, h2)
    BY <2>1, StepKeeps
  <2> QED BY <2>2 DEF SameUnder
<1> QED BY <1>1 DEF Full

(* The iterators at a place. *)
LEMMA ItersOut ==
  ASSUME NEW p, IsBody(p), NEW at, NEW b, Outside(p, at, b), NEW en, NEW h
  PROVE  ItersAt(p, at, en, h) = Full(p, Surround(p, b), en, h)
BY ItersOutside DEF Outside

(* The loop l, between two turns, and within one.                           *)
Between(p, at, l) ==
  /\ PlaceAt(p, at) = l /\ l \in 1 .. Len(p) /\ p[l].op = "for" /\ Entered(p, at)
  /\ ~ TakenAt(p, at, 1) /\ ~ TakenAt(p, at, 2)
Within(p, at, l) ==
  /\ PlaceAt(p, at) = l /\ l \in 1 .. Len(p) /\ p[l].op = "for" /\ Entered(p, at)
  /\ TakenAt(p, at, 1) /\ TakenAt(p, at, 2)
Back(p, at, l) == IF p[l].op = "for" THEN Within(p, at, l) ELSE Outside(p, at, l)
Again(p, at, l) == IF p[l].op = "for" THEN Between(p, at, l) ELSE Outside(p, at, l)

(* The iterators of a loop that is between two turns.                       *)
StillIn(p, l, m, en, h) == WalkIn(p, l, m, FALSE, en, h)
NextIn(p, l, en, h)     == LoopIn(p, l, FALSE, FALSE, en, h)

LEMMA ItersBetween ==
  ASSUME NEW p, IsBody(p), NEW at, NEW l, Between(p, at, l), NEW en, NEW h
  PROVE  ItersAt(p, at, en, h) = With(Full(p, Surround(p, l), en, h), l, NextIn(p, l, en, h))
<1>1. /\ PlaceAt(p, at) = l /\ l \in 1 .. Len(p) /\ p[l].op = "for" /\ Entered(p, at)
      /\ TakenAt(p, at, 1) = FALSE /\ TakenAt(p, at, 2) = FALSE
  BY DEF Between, TakenAt
<1>2. ItersAt(p, at, en, h)
           = With(Full(p, Surround(p, l), en, h), l, UnderIn(p, l, TakenAt(p, at, 1), TakenAt(p, at, 2), en, h))
  BY <1>1, ItersInside, BodyIs
<1>3. \A u1, u2 : UnderIn(p, l, u1, u2, en, h) = LoopIn(p, l, u1, u2, en, h)
  BY <1>1 DEF UnderIn
<1> QED BY <1>1, <1>2, <1>3 DEF NextIn

LEMMA ItersWithin ==
  ASSUME NEW p, IsBody(p), NEW at, NEW l, Within(p, at, l), NEW en, NEW h
  PROVE  ItersAt(p, at, en, h) = Full(p, Surround(p, l) \cup {l}, en, h)
<1>1. /\ PlaceAt(p, at) = l /\ l \in 1 .. Len(p) /\ p[l].op = "for" /\ Entered(p, at)
      /\ TakenAt(p, at, 1) = TRUE /\ TakenAt(p, at, 2) = TRUE
  BY DEF Within, TakenAt
<1>2. ItersAt(p, at, en, h)
           = With(Full(p, Surround(p, l), en, h), l, UnderIn(p, l, TakenAt(p, at, 1), TakenAt(p, at, 2), en, h))
  BY <1>1, ItersInside, BodyIs
<1>3. With(Full(p, Surround(p, l), en, h), l, UnderIn(p, l, TRUE, TRUE, en, h)) = Full(p, Surround(p, l) \cup {l}, en, h)
  BY DEF With, Full
<1> QED BY <1>1, <1>2, <1>3

(* A while has no iterator. *)
LEMMA ItersBack ==
  ASSUME NEW p, IsBody(p), NEW at, NEW l \in 1 .. Len(p), Back(p, at, l), NEW en, NEW h
  PROVE  ItersAt(p, at, en, h) = Full(p, Surround(p, l) \cup (IF p[l].op = "for" THEN {l} ELSE {}), en, h)
<1>1. CASE p[l].op = "for"
  <2>1. Within(p, at, l)
    BY <1>1 DEF Back
  <2>2. ItersAt(p, at, en, h) = Full(p, Surround(p, l) \cup {l}, en, h)
    BY <2>1, ItersWithin
  <2> QED BY <1>1, <2>2
<1>2. CASE p[l].op # "for"
  <2>1. Outside(p, at, l)
    BY <1>2 DEF Back
  <2>2. ItersAt(p, at, en, h) = Full(p, Surround(p, l), en, h)
    BY <2>1, ItersOut
  <2>3. Surround(p, l) \cup (IF p[l].op = "for" THEN {l} ELSE {}) = Surround(p, l)
    BY <1>2
  <2> QED BY <2>2, <2>3
<1> QED BY <1>1, <1>2

(* The same of what is said of loops by when their counters move.           *)
LEMMA AtLoopIs ==
  ASSUME NEW p, NEW at, NEW l
  PROVE  /\ AtLoop(p, at, l, FALSE, FALSE) => Between(p, at, l)
         /\ AtLoop(p, at, l, TRUE, TRUE) => Within(p, at, l)
         /\ Returned(p, at, l, FALSE, FALSE) => Again(p, at, l)
         /\ Returned(p, at, l, TRUE, TRUE) => Back(p, at, l)
BY DEF AtLoop, Returned, Between, Within, Again, Back

-----------------------------------------------------------------------------
(* A step hands no list on but one that was held.                           *)

LEMMA ListPlace ==
  ASSUME NEW p, IsBody(p), NEW k \in 1 .. Len(p), Indexed(p, k), NEW m \in DOMAIN p[k].its
  PROVE  LET n == IF p[k].how = "zip" THEN m ELSE W(p, k) - 2
         IN  n \in 1 .. W(p, k) - 2 /\ AtList(p, k, n, m)
<1> DEFINE n == IF p[k].how = "zip" THEN m ELSE W(p, k) - 2
<1>1. p[k].op = "for"
  BY DEF Indexed
<1>2. n \in 1 .. W(p, k) - 2 /\ W(p, k) \in 2 .. 4 /\ H(p, k) >= W(p, k) /\ H(p, k) \in 2 .. 6
      /\ (p[k].how # "zip" => DOMAIN p[k].its = {1})
  BY <1>1, WalkIs DEF Indexed
<1>3. n \in 1 .. N(p, k)
  BY <1>1, <1>2, NIs
<1>4. OfHead(p, k, n)
  BY <1>1, <1>3, HeadPlaces
<1>5. ~ AtWhile(p, k, n) /\ ~ AtIndex(p, k, n) /\ ~ AtCounter(p, k, n)
  BY <1>2 DEF AtWhile, AtIndex, AtCounter
<1>6. ~ AtCount(p, k, n)
  <2>1. p[k].how = "enumerate" => n # 1
    BY <1>1, <1>2, WalkIs DEF Enum, Indexed
  <2> QED BY <2>1 DEF AtCount
<1>7. ~ AtReload(p, k, n)
  BY <1>1, <1>2 DEF AtReload
<1>8. \A o \in {1, 2} : ~ AtLoad(p, k, n, o)
  BY <1>2 DEF AtLoad
<1>9. \E o \in {1, 2} : AtList(p, k, n, o)
  BY <1>4, <1>5, <1>6, <1>7, <1>8 DEF OfHead
<1>10. \A o : AtList(p, k, n, o) => o = m
  BY <1>2 DEF AtList
<1> QED BY <1>2, <1>9, <1>10

LEMMA ListSource ==
  ASSUME NEW p, IsBody(p), NEW k \in 1 .. Len(p), Indexed(p, k), NEW m \in DOMAIN p[k].its
  PROVE  LET it == p[k].its[m]
         IN  it.k = "list" /\ it.x \in Bound(p, k) /\ Kind(it.x) = "list"
<1>1. p[k].op = "for"
  BY DEF Indexed
<1>2. IsFor(p[k])
  <2>1. Typed(p, k)
    BY BodyIs
  <2> QED BY <1>1, <2>1 DEF Typed
<1>3. IsIterable(p[k].its[m])
  BY <1>2 DEF IsFor
<1>4. p[k].its[m].k = "list"
  <2>1. CASE p[k].how = "zip"
    BY <1>2, <2>1 DEF IsFor
  <2>2. CASE p[k].how # "zip"
    <3>1. m = 1
      BY <1>1, <2>2, WalkIs
    <3> QED BY <1>3, <2>2, <3>1 DEF Indexed, Ranged, IsIterable
  <2> QED BY <2>1, <2>2
<1>5. p[k].its[m].x \in Uses(p[k])
  <2>1. p[k].its[m] \in ToSet(p[k].its)
    BY DEF ToSet
  <2> QED BY <1>1, <1>4, <2>1 DEF Uses
<1>6. Uses(p[k]) \subseteq Bound(p, k)
  BY BodyIs
<1> QED BY <1>3, <1>4, <1>5, <1>6 DEF IsIterable

(* An expression for a list is a variable. *)
LEMMA ListIsVar ==
  ASSUME NEW e, HasType(e, "list"), NEW en, NEW h
  PROVE  e.k = "var" /\ Kind(e.x) = "list" /\ Eval(e, en, h) = en[e.x] /\ Reads(e) = {e.x}
BY DEF HasType, IsNumber, IsAtom, Eval, Number, Atom, Reads, NumberReads, AtomReads, Comparisons

LEMMA BoundLists ==
  ASSUME NEW p, IsBody(p), NEW a \in 1 .. Len(p) + 1, NEW x \in Bound(p, a), Kind(x) = "list"
  PROVE  x \in DOMAIN Env0 /\ \A b : x \in Bound(p, b)
<1>1. \A l \in Around(p, a) : x \notin Targets(p, l)
  <2> TAKE l \in Around(p, a)
  <2>1. l \in 1 .. Len(p)
    BY AroundOf
  <2>2. p[l].op = "for" => \A y \in Targets(p, l) : Kind(y) = "int"
    BY <2>1, ForIs
  <2> QED BY <2>2 DEF Targets
<1> QED BY <1>1 DEF Bound

(* The list a bound name stands for.                                        *)
LEMMA HandedName ==
  ASSUME NEW p, NEW k, NEW i, NEW en, NEW h, NEW at2, NEW en2, NEW h2,
         Step(p, k, i, en, h, at2, en2, h2),
         ~ (AtSingle(p, k, i) /\ p[k].op = "result" /\ p[p[k].of].how = "list"),
         NEW b \in 1 .. Len(p) + 1, NEW x \in Bound(p, b), Kind(x) = "list"
  PROVE  \E y \in Holders(p, <<k, i>>) : en2[x] = en[y]
<1>1. IsBody(p) /\ k \in 1 .. Len(p) /\ i \in 1 .. N(p, k)
  BY DEF Step, Ready
<1>2. x \in Bound(p, A(p, k, i)) /\ A(p, k, i) = PlaceAt(p, <<k, i>>)
  BY <1>1, BoundLists, PlaceAtIs
<1>3. \A y \in Bound(p, A(p, k, i)) : Kind(y) = "list" => y \in Holders(p, <<k, i>>)
  BY <1>2 DEF Holders
<1>4. CASE ~ (AtSingle(p, k, i) /\ p[k].op \in {"let", "result"} /\ x = p[k].x)
  <2>1. en2[x] = en[x]
    BY <1>2, <1>4, BoundKept
  <2> QED BY <1>2, <1>3, <2>1
<1>5. CASE AtSingle(p, k, i) /\ p[k].op \in {"let", "result"} /\ x = p[k].x
  <2>0. Typed(p, k) /\ Uses(p[k]) \subseteq Bound(p, k)
    BY <1>1, BodyIs
  <2>1. CASE p[k].op = "let"
    <3>1. HasType(p[k].e, "list")
      BY <1>5, <2>0, <2>1 DEF Typed
    <3>2. Uses(p[k]) = Reads(p[k].e)
      BY <2>1 DEF Uses
    <3>3. p[k].e.x \in Bound(p, k) /\ Kind(p[k].e.x) = "list" /\ Eval(p[k].e, en, h) = en[p[k].e.x]
      BY <2>0, <3>1, <3>2, ListIsVar
    <3>4. en2 = With(en, p[k].x, Eval(p[k].e, en, h))
      BY <1>5, <2>1, SingleGoes
    <3>5. en2[x] = en[p[k].e.x]
      BY <1>5, <3>3, <3>4 DEF With
    <3>6. A(p, k, i) = k
      BY <1>5 DEF AtSingle
    <3> QED BY <1>3, <3>3, <3>5, <3>6
  <2>2. CASE p[k].op = "result"
    <3>1. Makes(p[p[k].of].how) = "list"
      BY <1>5, <2>0, <2>2 DEF Typed
    <3>2. p[p[k].of].how = "list"
      BY <3>1 DEF Makes, Yields
    <3> QED BY <1>5, <2>2, <3>2
  <2> QED BY <1>5, <2>1, <2>2
<1> QED BY <1>4, <1>5

(* The list a loop walks. *)
LEMMA HandedWalk ==
  ASSUME NEW p, NEW k, NEW i, NEW en, NEW h, NEW at2, NEW en2, NEW h2,
         Step(p, k, i, en, h, at2, en2, h2),
         NEW l \in Going(p, <<k, i>>), Indexed(p, l), NEW m \in DOMAIN p[l].its
  PROVE  en2[Holder(p, l, m)] = en[Holder(p, l, m)]
<1>1. IsBody(p) /\ Follows(p) /\ k \in 1 .. Len(p) /\ i \in 1 .. N(p, k)
  BY DEF Step, Ready
<1>2. p[l].op = "for" /\ l \in 1 .. Len(p)
  BY <1>1, GoingIs DEF Indexed
<1>3. Holder(p, l, m) \in ReadsOf(p, l)
  BY <1>2 DEF ReadsOf
<1>4. CASE ~ Own(p, k, i, l)
  BY <1>3, <1>4, StepKeeps
<1>5. CASE Own(p, k, i, l)
  <2>1. ~ Settles(p, k, i)  \/ l # Whole(p, k)
    <3> SUFFICES ASSUME Settles(p, k, i), l = Whole(p, k) PROVE FALSE
      OBVIOUS
    <3>1. p[Whole(p, k)].op = "gather"
      BY <1>1, SettlesIs
    <3> QED BY <1>2, <3>1
  <2>2. Steps(p, k, i) /\ l = p[k].of
    BY <1>5, <2>1 DEF Own
  <2>3. Holder(p, l, m) \notin Stored(D(p, k, i))
    <3>1. Kind(Holder(p, l, m)) = "list"
      BY Kinds, HelperKinds DEF Holder
    <3>2. \/ D(p, k, i) = Bump(Counter(p, l), Stride(p, l))
          \/ D(p, k, i) = Bump(p[l].t[1], 1) /\ p[l].how = "enumerate"
      BY <2>2 DEF Steps, AtBump, AtCountUp, Turn
    <3>3. Kind(Counter(p, l)) = "int"
      <4>1. Over(p[l]) \in Targets(p, l) /\ \A x \in Targets(p, l) : Kind(x) = "int"
        BY <1>1, <1>2, ForIs
      <4>2. Kind(IndexOf(p, l)) = "int"
        BY Kinds, HelperKinds
      <4> QED BY <4>1, <4>2 DEF Counter
    <3>4. p[l].how = "enumerate" => Kind(p[l].t[1]) = "int"
      <4>1. p[l].how = "enumerate" => p[l].t[1] \in Targets(p, l)
        BY <1>1, <1>2, ForIs
      <4> QED BY <1>1, <1>2, <4>1, ForIs
    <3>5. \A x, n, y : y \in Stored(Bump(x, n)) => y = x
      BY DEF Stored, Bump, Let
    <3> QED BY <3>1, <3>2, <3>3, <3>4, <3>5
  <2>4. Holder(p, l, m) \in Known(p, k, i)
    BY <1>1, <1>3, ReadsKnown
  <2> QED BY <2>3, <2>4, EnvKept
<1> QED BY <1>4, <1>5

LEMMA HandedBegin ==
  ASSUME NEW p, NEW k, NEW i, NEW en, NEW h, NEW at2, NEW en2, NEW h2,
         Step(p, k, i, en, h, at2, en2, h2),
         Indexed(p, k), i + 1 = W(p, k), NEW m \in DOMAIN p[k].its
  PROVE  /\ en2[Holder(p, k, m)] = en[p[k].its[m].x] /\ p[k].its[m].x \in Holders(p, <<k, i>>)
         /\ en2[Holder(p, k, m)] = en[Holder(p, k, m)]
<1>1. IsBody(p) /\ k \in 1 .. Len(p) /\ i \in 1 .. N(p, k) /\ Prepared(p, <<k, i>>, en) /\ p[k].op = "for"
  BY DEF Step, Ready, Indexed
<1>2. PICK n \in 1 .. W(p, k) - 2 : AtList(p, k, n, m)
  BY <1>1, ListPlace
<1>3. W(p, k) \in 2 .. 4 /\ H(p, k) >= W(p, k) /\ H(p, k) \in 2 .. 6 /\ i \in Nat
  BY <1>1, WalkIs, NIs
<1>4. n \in 1 .. i - 1 /\ i < W(p, k) /\ i <= H(p, k) /\ i # W(p, k)
  BY <1>2, <1>3
<1>5. en[Holder(p, k, m)] = en[p[k].its[m].x]
  <2> DEFINE at == <<k, i>>
  <2>1. at[1] = k /\ at[2] = i
    OBVIOUS
  <2> HIDE DEF at
  <2>2. Prepared(p, at, en)
    BY <1>1 DEF at
  <2>3. \A mm \in DOMAIN p[k].its, nn \in 1 .. i - 1 :
          AtList(p, k, nn, mm) => en[Holder(p, k, mm)] = en[p[k].its[mm].x]
    BY <1>1, <1>4, <2>1, <2>2 DEF Prepared
  <2> QED BY <1>2, <1>4, <2>3
<1>6. p[k].its[m].x \in Bound(p, k) /\ Kind(p[k].its[m].x) = "list"
  BY <1>1, ListSource
<1>7. p[k].its[m].x \in Holders(p, <<k, i>>)
  <2>1. PlaceAt(p, <<k, i>>) = k
    <3>1. i \in 1 .. H(p, k)
      BY <1>1, <1>3, <1>4
    <3> QED BY <1>1, <3>1, InHead
  <2> QED BY <1>6, <2>1 DEF Holders
<1>8. en2[Holder(p, k, m)] = en[Holder(p, k, m)]
  <2>1. AtIndex(p, k, i)
    <3>1. ~ AtCount(p, k, i)
      <4>1. p[k].how = "enumerate" => i # 1
        BY <1>1, <1>3, WalkIs DEF Enum, Indexed
      <4> QED BY <4>1 DEF AtCount
    <3>2. ~ AtCounter(p, k, i) /\ ~ AtWhile(p, k, i) /\ ~ AtReload(p, k, i)
      BY <1>1, <1>3, <1>4 DEF AtCounter, AtWhile, AtReload
    <3>3. \A o \in {1, 2} : ~ AtList(p, k, i, o) /\ ~ AtLoad(p, k, i, o)
      <4> TAKE o \in {1, 2}
      <4>1. p[k].how # "zip" => W(p, k) - 2 # i
        BY <1>3
      <4>2. p[k].how = "zip" => i = 3
        BY <1>1, <1>3, WalkIs
      <4>3. W(p, k) + o # i
        BY <1>3
      <4> QED BY <4>1, <4>2, <4>3 DEF AtList, AtLoad
    <3>4. OfHead(p, k, i)
      BY <1>1, HeadPlaces
    <3> QED BY <3>1, <3>2, <3>3, <3>4 DEF OfHead
  <2>2. D(p, k, i) = Let(IndexOf(p, k), Num(0))
    BY <2>1 DEF AtIndex
  <2>3. Holder(p, k, m) # IndexOf(p, k)
    <3>1. Kind(Holder(p, k, m)) = "list" /\ Kind(IndexOf(p, k)) = "int"
      BY Kinds, HelperKinds DEF Holder
    <3> QED BY <3>1
  <2>4. Holder(p, k, m) \notin Stored(D(p, k, i))
    BY <2>2, <2>3, LetStores
  <2>5. Holder(p, k, m) \in Known(p, k, i)
    <3>1. D(p, k, n).x = Holder(p, k, m)
      BY <1>2 DEF AtList, Let
    <3>2. n # W(p, k) /\ n \in 1 .. i - 1
      BY <1>3, <1>4
    <3> QED BY <1>1, <3>1, <3>2, HereKnown
  <2> QED BY <2>4, <2>5, EnvKept
<1> QED BY <1>5, <1>7, <1>8

(* Is the instruction the result of a list?  Its list is a new one.         *)
ListResult(p, k, i) == AtSingle(p, k, i) /\ p[k].op = "result" /\ p[p[k].of].how = "list"

LEMMA Handed ==
  ASSUME NEW p, NEW k, NEW i, NEW en, NEW h, NEW at2, NEW en2, NEW h2,
         Step(p, k, i, en, h, at2, en2, h2), ~ ListResult(p, k, i), NEW x \in Holders(p, at2)
  PROVE  \E y \in Holders(p, <<k, i>>) : en2[x] = en[y]
<1>1. IsBody(p) /\ k \in 1 .. Len(p) /\ i \in 1 .. N(p, k)
  BY DEF Step, Ready
<1> DEFINE b == PlaceAt(p, at2)
<1>2. Reaches(p, k, i, at2)
  BY StepReaches
<1>3. b \in 1 .. Len(p) + 1
  BY <1>2 DEF Reaches
<1>4. CASE x \in Bound(p, b) /\ Kind(x) = "list"
  BY <1>3, <1>4, HandedName DEF ListResult
<1>5. CASE \E l \in Going(p, at2) : Indexed(p, l) /\ \E m \in DOMAIN p[l].its : x = Holder(p, l, m)
  <2>1. PICK l \in Going(p, at2) : Indexed(p, l) /\ \E m \in DOMAIN p[l].its : x = Holder(p, l, m)
    BY <1>5
  <2>2. PICK m \in DOMAIN p[l].its : x = Holder(p, l, m)
    BY <2>1
  <2>3. p[l].op = "for"
    BY <2>1 DEF Indexed
  <2>4. l \in Going(p, <<k, i>>) \/ (l = k /\ i + 1 = W(p, k))
    <3>1. CASE l \in Surround(p, b)
      BY <1>2, <2>3, <3>1 DEF Reaches
    <3>2. CASE Entered(p, at2) /\ l = b
      BY <1>2, <3>2 DEF Reaches
    <3> QED BY <3>1, <3>2 DEF Going
  <2>5. CASE l \in Going(p, <<k, i>>)
    <3>1. en2[x] = en[x]
      BY <2>1, <2>2, <2>5, HandedWalk
    <3>2. x \in Holders(p, <<k, i>>)
      BY <2>1, <2>2, <2>5 DEF Holders
    <3> QED BY <3>1, <3>2
  <2>6. CASE l = k /\ i + 1 = W(p, k)
    <3>1. Indexed(p, k) /\ m \in DOMAIN p[k].its /\ x = Holder(p, k, m) /\ i + 1 = W(p, k)
      BY <2>1, <2>2, <2>6
    <3>2. en2[x] = en[p[k].its[m].x] /\ p[k].its[m].x \in Holders(p, <<k, i>>)
      BY <3>1, HandedBegin
    <3> QED BY <3>2
  <2> QED BY <2>4, <2>5, <2>6
<1> QED BY <1>4, <1>5 DEF Holders

LEMMA RefsHanded ==
  ASSUME NEW p, NEW k, NEW i, NEW en, NEW h, NEW at2, NEW en2, NEW h2,
         Step(p, k, i, en, h, at2, en2, h2), ~ ListResult(p, k, i)
  PROVE  Refs(ShownIn(p, PlaceAt(p, at2), en2), ItersAt(p, at2, en2, h2))
           \subseteq Refs(ShownIn(p, PlaceAt(p, <<k, i>>), en), ItersAt(p, <<k, i>>, en, h))
<1>1. IsBody(p) /\ InText(p, <<k, i>>) /\ InText(p, at2)
  BY DEF Step, Ready, InText
<1>2. Refs(ShownIn(p, PlaceAt(p, at2), en2), ItersAt(p, at2, en2, h2)) = DOMAIN Heap0 \cup {en2[x] : x \in Holders(p, at2)}
  BY <1>1, RefsAre
<1>3. Refs(ShownIn(p, PlaceAt(p, <<k, i>>), en), ItersAt(p, <<k, i>>, en, h))
        = DOMAIN Heap0 \cup {en[x] : x \in Holders(p, <<k, i>>)}
  BY <1>1, RefsAre
<1>4. \A x \in Holders(p, at2) : en2[x] \in {en[y] : y \in Holders(p, <<k, i>>)}
  BY Handed
<1> QED BY <1>2, <1>3, <1>4

(* The lists held are lists there are.                                      *)
LEMMA HoldersKnown ==
  ASSUME NEW p, NEW k, NEW i, NEW en, NEW h, Ready(p, k, i, en, h), NEW x \in Holders(p, <<k, i>>)
  PROVE  x \in Known(p, k, i) /\ x \in DOMAIN en /\ Kind(x) = "list" /\ en[x] \in DOMAIN h
<1>1. /\ IsBody(p) /\ Follows(p) /\ k \in 1 .. Len(p) /\ i \in 1 .. N(p, k)
      /\ Fine(en, h) /\ Known(p, k, i) \subseteq DOMAIN en
  BY DEF Ready
<1>2. PlaceAt(p, <<k, i>>) = A(p, k, i)
  BY <1>1, PlaceAtIs
<1>3. x \in Known(p, k, i) /\ Kind(x) = "list"
  <2>1. CASE x \in Bound(p, A(p, k, i)) /\ Kind(x) = "list"
    BY <1>1, <2>1, ReadsKnown
  <2>2. CASE \E l \in Going(p, <<k, i>>) : Indexed(p, l) /\ \E m \in DOMAIN p[l].its : x = Holder(p, l, m)
    <3>1. PICK l \in Going(p, <<k, i>>) : Indexed(p, l) /\ \E m \in DOMAIN p[l].its : x = Holder(p, l, m)
      BY <2>2
    <3>2. PICK m \in DOMAIN p[l].its : x = Holder(p, l, m)
      BY <3>1
    <3>3. x \in ReadsOf(p, l)
      BY <3>1, <3>2 DEF ReadsOf, Indexed
    <3>4. Kind(x) = "list"
      BY <3>2, Kinds, HelperKinds DEF Holder
    <3> QED BY <1>1, <3>3, <3>4, ReadsKnown
  <2> QED BY <1>2, <2>1, <2>2 DEF Holders
<1>4. x \in DOMAIN en
  BY <1>1, <1>3
<1> QED BY <1>1, <1>3, <1>4 DEF Fine, OfType

LEMMA RefsThere ==
  ASSUME NEW p, NEW k, NEW i, NEW en, NEW h, Ready(p, k, i, en, h)
  PROVE  Refs(ShownIn(p, PlaceAt(p, <<k, i>>), en), ItersAt(p, <<k, i>>, en, h)) \subseteq DOMAIN h
<1>1. IsBody(p) /\ InText(p, <<k, i>>) /\ Len(h) >= Len(Heap0) /\ Fine(en, h)
  BY DEF Ready, InText
<1>2. Refs(ShownIn(p, PlaceAt(p, <<k, i>>), en), ItersAt(p, <<k, i>>, en, h))
        = DOMAIN Heap0 \cup {en[x] : x \in Holders(p, <<k, i>>)}
  BY <1>1, RefsAre
<1>3. DOMAIN Heap0 \subseteq DOMAIN h
  <2>1. Heap0 \in Seq(Seq(Int)) /\ h \in Seq(Seq(Int))
    BY <1>1, ProgramsAssumption DEF Fine
  <2> QED BY <1>1, <2>1
<1>4. \A x \in Holders(p, <<k, i>>) : en[x] \in DOMAIN h
  BY HoldersKnown
<1> QED BY <1>2, <1>3, <1>4

(* The lists Python sees are the same after any other step.                 *)
LEMMA HeldMoves ==
  ASSUME NEW p, NEW k, NEW i, NEW en, NEW h, NEW at2, NEW en2, NEW h2,
         Step(p, k, i, en, h, at2, en2, h2), ~ ListResult(p, k, i), D(p, k, i).op # "append"
  PROVE  HeldAt(p, at2, en2, h2)
           = Held(HeldAt(p, <<k, i>>, en, h), ShownIn(p, PlaceAt(p, at2), en2), ItersAt(p, at2, en2, h2))
<1> DEFINE R  == Refs(ShownIn(p, PlaceAt(p, <<k, i>>), en), ItersAt(p, <<k, i>>, en, h))
           R2 == Refs(ShownIn(p, PlaceAt(p, at2), en2), ItersAt(p, at2, en2, h2))
           hh == HeldAt(p, <<k, i>>, en, h)
<1>1. Ready(p, k, i, en, h)
  BY DEF Step
<1>2. R2 \subseteq R /\ R \subseteq DOMAIN h
  BY <1>1, RefsHanded, RefsThere
<1>3. \A r \in R : hh[r] = h[r]
  BY HeldIs DEF HeldAt
<1>4. \A r \in DOMAIN h : h2[r] = h[r]
  BY HeapKept
<1>5. \A r \in R2 : hh[r] = h2[r]
  BY <1>2, <1>3, <1>4
<1> HIDE DEF hh
<1>6. Held(hh, ShownIn(p, PlaceAt(p, at2), en2), ItersAt(p, at2, en2, h2))
        = Held(h2, ShownIn(p, PlaceAt(p, at2), en2), ItersAt(p, at2, en2, h2))
  BY <1>5, HeldAgain
<1> QED BY <1>6 DEF HeldAt, hh

-----------------------------------------------------------------------------
(* Where a step takes Python: the token, the bindings and the iterators.    *)

EnvAt(p, at, en) == ShownIn(p, PlaceAt(p, at), en)

Goes(p, at2, en2, h2, X, Y, Z) ==
  PlaceAt(p, at2) = X /\ EnvAt(p, at2, en2) = Y /\ ItersAt(p, at2, en2, h2) = Z

LEMMA SeenValue ==
  ASSUME NEW p, NEW k, NEW i, NEW en, NEW h, Ready(p, k, i, en, h),
         NEW e, NEW type, HasType(e, type), Reads(e) \subseteq Bound(p, A(p, k, i))
  PROVE  Eval(e, EnvAt(p, <<k, i>>, en), HeldAt(p, <<k, i>>, en, h)) = Eval(e, en, h)
<1> DEFINE e1 == EnvAt(p, <<k, i>>, en)
           h1 == HeldAt(p, <<k, i>>, en, h)
           R  == Refs(e1, ItersAt(p, <<k, i>>, en, h))
<1>1. IsBody(p) /\ InText(p, <<k, i>>) /\ PlaceAt(p, <<k, i>>) = A(p, k, i)
  <2>1. IsBody(p) /\ k \in 1 .. Len(p) /\ i \in 1 .. N(p, k)
    BY DEF Ready
  <2> QED BY <2>1, PlaceAtIs DEF InText
<1>2. R = DOMAIN Heap0 \cup {en[x] : x \in Holders(p, <<k, i>>)}
  BY <1>1, RefsAre DEF EnvAt
<1>3. \A r \in R : h1[r] = h[r]
  BY HeldIs DEF HeldAt, EnvAt
<1>4. Agree(Reads(e), en, h, e1, h1)
  <2>1. ASSUME NEW x \in Reads(e) PROVE e1[x] = en[x] /\ (Kind(x) = "list" => h1[e1[x]] = h[en[x]])
    <3>1. x \in Bound(p, A(p, k, i))
      OBVIOUS
    <3>2. e1[x] = en[x]
      BY <1>1, <3>1 DEF EnvAt, ShownIn
    <3>3. Kind(x) = "list" => en[x] \in R
      BY <1>1, <1>2, <3>1 DEF Holders
    <3> QED BY <1>3, <3>2, <3>3
  <2> QED BY <2>1 DEF Agree
<1> HIDE DEF e1, h1
<1>5. Eval(e, e1, h1) = Eval(e, en, h)
  BY <1>4, EvalAgrees
<1> QED BY <1>5 DEF e1, h1

LEMMA NoneOwn ==
  ASSUME NEW p, NEW k, NEW i, p[k].op \notin {"end", "yield"}
  PROVE  \A l : ~ Own(p, k, i, l)
BY DEF Own, Settles, Steps, AtGain, AtKnown, Deciding, AtBump, AtCountUp, Turn, Closing

(* On, with nothing begun and nothing left.                                 *)
LEMMA SeenOn ==
  ASSUME NEW p, NEW k, NEW i, NEW en, NEW h, NEW at2, NEW en2, NEW h2,
         Step(p, k, i, en, h, at2, en2, h2), ~ (AtSingle(p, k, i) /\ p[k].op \in {"let", "result"}),
         NEW a, NEW b, Outside(p, <<k, i>>, a), Outside(p, at2, b), Surround(p, b) = Surround(p, a),
         \A l : ~ Own(p, k, i, l)
  PROVE  Goes(p, at2, en2, h2, b, EnvAt(p, <<k, i>>, en), ItersAt(p, <<k, i>>, en, h))
<1>1. IsBody(p)
  BY DEF Step, Ready
<1>2. PlaceAt(p, <<k, i>>) = a /\ PlaceAt(p, at2) = b /\ A(p, k, i) = a
  <2>1. k \in 1 .. Len(p) /\ i \in 1 .. N(p, k)
    BY DEF Step, Ready
  <2>2. PlaceAt(p, <<k, i>>) = A(p, k, i)
    BY <1>1, <2>1, PlaceAtIs
  <2> QED BY <2>2 DEF Outside
<1>3. Bound(p, b) = Bound(p, a)
  BY SurroundsBound
<1>4. ShownIn(p, b, en2) = ShownIn(p, a, en)
  <2>1. ShownIn(p, b, en2) = ShownIn(p, b, en)
    BY <1>2, <1>3, ShownKept
  <2> QED BY <1>3, <2>1 DEF ShownIn
<1>5. Surround(p, a) = Going(p, <<k, i>>)
  BY GoingOutside
<1>6. Full(p, Surround(p, a), en2, h2) = Full(p, Surround(p, a), en, h)
  BY <1>5, FullKept
<1>7. ItersAt(p, at2, en2, h2) = Full(p, Surround(p, b), en2, h2)
  BY <1>1, ItersOut
<1>8. ItersAt(p, <<k, i>>, en, h) = Full(p, Surround(p, a), en, h)
  BY <1>1, ItersOut
<1> QED BY <1>2, <1>4, <1>6, <1>7, <1>8 DEF Goes, EnvAt

(* Back to a loop, its turn over.                                           *)
LEMMA SeenBack ==
  ASSUME NEW p, NEW k, NEW i, NEW en, NEW h, NEW at2, NEW en2, NEW h2,
         Step(p, k, i, en, h, at2, en2, h2), ~ (AtSingle(p, k, i) /\ p[k].op \in {"let", "result"}),
         NEW a, NEW l \in 1 .. Len(p), Outside(p, <<k, i>>, a), Back(p, at2, l),
         Surround(p, a) = Surround(p, l) \cup (IF p[l].op = "for" THEN {l} ELSE {}),
         \A g : ~ Own(p, k, i, g)
  PROVE  Goes(p, at2, en2, h2, l, Without(EnvAt(p, <<k, i>>, en), Targets(p, l)), ItersAt(p, <<k, i>>, en, h))
<1>1. IsBody(p) /\ Follows(p)
  BY DEF Step, Ready
<1>2. PlaceAt(p, <<k, i>>) = a /\ PlaceAt(p, at2) = l /\ A(p, k, i) = a
  <2>1. k \in 1 .. Len(p) /\ i \in 1 .. N(p, k)
    BY DEF Step, Ready
  <2>2. PlaceAt(p, <<k, i>>) = A(p, k, i)
    BY <1>1, <2>1, PlaceAtIs
  <2> QED BY <2>2 DEF Outside, Back, Within
<1>3. Bound(p, l) = Bound(p, a) \ Targets(p, l) /\ Bound(p, l) \subseteq Bound(p, a)
  <2>1. p[l].op = "for" => Surround(p, a) = Surround(p, l) \cup {l} /\ Surround(p, l) = Surround(p, l)
    OBVIOUS
  <2>2. p[l].op # "for" => Surround(p, a) = Surround(p, l)
    OBVIOUS
  <2> QED BY ONLY <1>1, <2>1, <2>2, l \in 1 .. Len(p), BoundLess
<1>4. ShownIn(p, l, en2) = Without(ShownIn(p, a, en), Targets(p, l))
  <2>1. ShownIn(p, l, en2) = ShownIn(p, l, en)
    BY <1>2, <1>3, ShownKept
  <2> QED BY <1>3, <2>1, ShownLess
<1>5. Surround(p, a) = Going(p, <<k, i>>)
  BY GoingOutside
<1>6. Full(p, Surround(p, a), en2, h2) = Full(p, Surround(p, a), en, h)
  BY <1>5, FullKept
<1>7. ItersAt(p, at2, en2, h2) = Full(p, Surround(p, a), en2, h2)
  BY <1>1, ItersBack
<1>8. ItersAt(p, <<k, i>>, en, h) = Full(p, Surround(p, a), en, h)
  BY ONLY <1>1, Outside(p, <<k, i>>, a), ItersOut
<1> QED BY <1>2, <1>4, <1>6, <1>7, <1>8 DEF Goes, EnvAt

(* Out of a loop. *)
LEMMA SeenOut ==
  ASSUME NEW p, NEW k, NEW i, NEW en, NEW h, NEW at2, NEW en2, NEW h2,
         Step(p, k, i, en, h, at2, en2, h2), ~ (AtSingle(p, k, i) /\ p[k].op \in {"let", "result"}),
         NEW a, NEW b, NEW l \in 1 .. Len(p), Outside(p, <<k, i>>, a), Outside(p, at2, b),
         Surround(p, a) = Surround(p, l) \cup (IF p[l].op = "for" THEN {l} ELSE {}),
         Surround(p, b) = Surround(p, l), \A g : ~ Own(p, k, i, g)
  PROVE  Goes(p, at2, en2, h2, b, Without(EnvAt(p, <<k, i>>, en), Targets(p, l)),
              Without(ItersAt(p, <<k, i>>, en, h), {l}))
<1>1. IsBody(p) /\ Follows(p)
  BY DEF Step, Ready
<1>2. PlaceAt(p, <<k, i>>) = a /\ PlaceAt(p, at2) = b /\ A(p, k, i) = a
  <2>1. k \in 1 .. Len(p) /\ i \in 1 .. N(p, k)
    BY DEF Step, Ready
  <2>2. PlaceAt(p, <<k, i>>) = A(p, k, i)
    BY <1>1, <2>1, PlaceAtIs
  <2> QED BY <2>2 DEF Outside
<1>3. Bound(p, b) = Bound(p, a) \ Targets(p, l) /\ Bound(p, b) \subseteq Bound(p, a)
  <2>1. p[l].op = "for" => Surround(p, a) = Surround(p, b) \cup {l} /\ Surround(p, b) = Surround(p, l)
    OBVIOUS
  <2>2. p[l].op # "for" => Surround(p, a) = Surround(p, b)
    OBVIOUS
  <2> QED BY ONLY <1>1, <2>1, <2>2, l \in 1 .. Len(p), BoundLess
<1>4. ShownIn(p, b, en2) = Without(ShownIn(p, a, en), Targets(p, l))
  <2>1. ShownIn(p, b, en2) = ShownIn(p, b, en)
    BY <1>2, <1>3, ShownKept
  <2> QED BY <1>3, <2>1, ShownLess
<1>5. Surround(p, b) \subseteq Going(p, <<k, i>>) /\ Surround(p, b) = Surround(p, a) \ {l}
  <2>1. l \notin Surround(p, l)
    BY <1>1, SurroundIs
  <2> QED BY <2>1, GoingOutside
<1>6. Full(p, Surround(p, b), en2, h2) = Full(p, Surround(p, b), en, h)
  <2>1. \A g \in Surround(p, b) : ~ Own(p, k, i, g)
    OBVIOUS
  <2>2. Surround(p, b) \subseteq Going(p, <<k, i>>)
    BY <1>5
  <2> QED BY ONLY <2>1, <2>2, Step(p, k, i, en, h, at2, en2, h2), FullKept
<1>7. ItersAt(p, at2, en2, h2) = Full(p, Surround(p, b), en2, h2)
  BY <1>1, ItersOut
<1>8. ItersAt(p, <<k, i>>, en, h) = Full(p, Surround(p, a), en, h)
  BY ONLY <1>1, Outside(p, <<k, i>>, a), ItersOut
<1>9. Without(Full(p, Surround(p, a), en, h), {l}) = Full(p, Surround(p, b), en, h)
  BY <1>5 DEF Full, Without
<1> QED BY <1>2, <1>4, <1>6, <1>7, <1>8, <1>9 DEF Goes, EnvAt

LEMMA SeenLet ==
  ASSUME NEW p, NEW k, NEW i, NEW en, NEW h, NEW at2, NEW en2, NEW h2,
         Step(p, k, i, en, h, at2, en2, h2), AtSingle(p, k, i), p[k].op = "let"
  PROVE  Goes(p, at2, en2, h2, k + 1, With(EnvAt(p, <<k, i>>, en), p[k].x, Eval(p[k].e, en, h)),
              ItersAt(p, <<k, i>>, en, h))
<1>1. IsBody(p) /\ k \in 1 .. Len(p) /\ i \in 1 .. N(p, k) /\ Known(p, k, i) \subseteq DOMAIN en
  BY DEF Step, Ready
<1>2. Outside(p, <<k, i>>, k) /\ Outside(p, at2, k + 1) /\ Surround(p, k + 1) = Surround(p, k)
  <2>1. SingleMoves(p, k, i, en, h, at2)
    BY SingleArrives
  <2> QED BY <2>1 DEF SingleMoves
<1>3. Bound(p, k + 1) = Bound(p, k)
  BY <1>2, SurroundsBound
<1>4. PlaceAt(p, <<k, i>>) = k /\ PlaceAt(p, at2) = k + 1 /\ A(p, k, i) = k
  BY <1>2 DEF Outside, AtSingle
<1>5. en2 = With(en, p[k].x, Eval(p[k].e, en, h))
  BY SingleGoes
<1>6. ShownIn(p, k + 1, en2) = With(ShownIn(p, k, en), p[k].x, Eval(p[k].e, en, h))
  <2>1. Bound(p, k) \subseteq DOMAIN en
    BY <1>1, <1>4, ReadsKnown
  <2>2. p[k].x \in Bound(p, k)
    <3>1. Typed(p, k)
      BY <1>1, BodyIs
    <3> QED BY <3>1 DEF Typed, Bound
  <2> QED BY <1>3, <1>5, <2>1, <2>2 DEF ShownIn, With
<1>7. Full(p, Surround(p, k), en2, h2) = Full(p, Surround(p, k), en, h)
  <2>1. Surround(p, k) = Going(p, <<k, i>>)
    BY <1>2, GoingOutside
  <2>2. \A l : ~ Own(p, k, i, l)
    BY NoneOwn
  <2> QED BY <2>1, <2>2, FullKept
<1>8. ItersAt(p, at2, en2, h2) = Full(p, Surround(p, k), en2, h2)
  BY <1>1, <1>2, ItersOut
<1>9. ItersAt(p, <<k, i>>, en, h) = Full(p, Surround(p, k), en, h)
  BY <1>1, <1>2, ItersOut
<1> QED BY <1>4, <1>6, <1>7, <1>8, <1>9 DEF Goes, EnvAt

(* An append is seen by whoever holds the list. *)
LEMMA SeenAppend ==
  ASSUME NEW p, NEW k, NEW i, NEW en, NEW h, NEW at2, NEW en2, NEW h2,
         Step(p, k, i, en, h, at2, en2, h2), AtSingle(p, k, i), p[k].op = "append"
  PROVE  LET e  == EnvAt(p, <<k, i>>, en)
             it == ItersAt(p, <<k, i>>, en, h)
             hh == HeldAt(p, <<k, i>>, en, h)
             r  == e[p[k].l]
         IN  /\ Goes(p, at2, en2, h2, k + 1, e, it)
             /\ HeldAt(p, at2, en2, h2) = Held(With(hh, r, Append(hh[r], Eval(p[k].e, en, h))), e, it)
<1> DEFINE e  == EnvAt(p, <<k, i>>, en)
           it == ItersAt(p, <<k, i>>, en, h)
           hh == HeldAt(p, <<k, i>>, en, h)
           r  == e[p[k].l]
           v  == Eval(p[k].e, en, h)
<1>1. IsBody(p) /\ k \in 1 .. Len(p) /\ i \in 1 .. N(p, k) /\ Ready(p, k, i, en, h)
  BY DEF Step, Ready
<1>2. Outside(p, <<k, i>>, k) /\ Outside(p, at2, k + 1) /\ Surround(p, k + 1) = Surround(p, k)
  <2>1. SingleMoves(p, k, i, en, h, at2)
    BY SingleArrives
  <2> QED BY <2>1 DEF SingleMoves
<1>3. Goes(p, at2, en2, h2, k + 1, e, it)
  <2>1. \A l : ~ Own(p, k, i, l)
    BY NoneOwn
  <2>2. ~ (AtSingle(p, k, i) /\ p[k].op \in {"let", "result"})
    OBVIOUS
  <2> QED BY <1>2, <2>1, <2>2, SeenOn
<1>4. h2 = [h EXCEPT ![en[p[k].l]] = Append(@, v)]
  BY SingleGoes
<1>5. PlaceAt(p, <<k, i>>) = k
  BY <1>2 DEF Outside
<1>6. p[k].l \in Bound(p, k) /\ Kind(p[k].l) = "list"
  <2>1. Typed(p, k) /\ Uses(p[k]) \subseteq Bound(p, k)
    BY <1>1, BodyIs
  <2> QED BY <2>1 DEF Typed, Uses
<1>7. r = en[p[k].l] /\ p[k].l \in Holders(p, <<k, i>>)
  BY <1>5, <1>6 DEF EnvAt, ShownIn, Holders
<1>8. Refs(e, it) = DOMAIN Heap0 \cup {en[x] : x \in Holders(p, <<k, i>>)}
  <2>1. InText(p, <<k, i>>)
    BY <1>1 DEF InText
  <2> QED BY <1>1, <2>1, RefsAre DEF EnvAt
<1>9. r \in Refs(e, it)
  BY <1>7, <1>8
<1>10. Refs(e, it) \subseteq DOMAIN h
  BY <1>1, RefsThere DEF EnvAt
<1>11. hh = [q \in Refs(e, it) |-> h[q]]
  BY DEF HeldAt, Held, Refs, EnvAt
<1>12. HeldAt(p, at2, en2, h2) = [q \in Refs(e, it) |-> h2[q]]
  BY <1>3 DEF HeldAt, Held, Refs, Goes, EnvAt
<1> HIDE DEF hh, e, it, r, v
<1>13. \A q \in Refs(e, it) : h2[q] = With(hh, r, Append(hh[r], v))[q]
  BY <1>4, <1>7, <1>9, <1>10, <1>11 DEF With
<1>14. HeldAt(p, at2, en2, h2) = Held(With(hh, r, Append(hh[r], v)), e, it)
  BY <1>12, <1>13 DEF Held, Refs
<1> QED BY <1>3, <1>14 DEF hh, e, it, r, v

NothingYet(how) == IF how = "sum" THEN 0 ELSE IF how = "list" THEN <<>> ELSE how = "all"

LEMMA SeenGather ==
  ASSUME NEW p, NEW k, NEW i, NEW en, NEW h, NEW at2, NEW en2, NEW h2,
         Step(p, k, i, en, h, at2, en2, h2), AtSingle(p, k, i), p[k].op = "gather"
  PROVE  Goes(p, at2, en2, h2, k + 1, EnvAt(p, <<k, i>>, en),
              With(ItersAt(p, <<k, i>>, en, h), k, [of |-> <<>>, acc |-> NothingYet(p[k].how)]))
<1>1. IsBody(p) /\ k \in 1 .. Len(p) /\ i \in 1 .. N(p, k) /\ Known(p, k, i) \subseteq DOMAIN en /\ Fine(en, h)
  BY DEF Step, Ready
<1>2. Outside(p, <<k, i>>, k) /\ Outside(p, at2, k + 1) /\ Surround(p, k + 1) = Surround(p, k) \cup {k}
  <2>1. SingleMoves(p, k, i, en, h, at2)
    BY SingleArrives
  <2> QED BY <2>1 DEF SingleMoves
<1>3. Bound(p, k + 1) = Bound(p, k)
  <2>1. Bound(p, k + 1) = Bound(p, k) \cup Targets(p, k)
    BY <1>2, SurroundsBound
  <2> QED BY <2>1 DEF Targets
<1>4. PlaceAt(p, <<k, i>>) = k /\ PlaceAt(p, at2) = k + 1 /\ A(p, k, i) = k
  BY <1>2 DEF Outside, AtSingle
<1>5. ShownIn(p, k + 1, en2) = ShownIn(p, k, en)
  <2>1. ~ (AtSingle(p, k, i) /\ p[k].op \in {"let", "result"})
    OBVIOUS
  <2>2. ShownIn(p, k + 1, en2) = ShownIn(p, k + 1, en)
    BY <1>3, <1>4, <2>1, ShownKept
  <2> QED BY <1>3, <2>2 DEF ShownIn
<1>6. Full(p, Surround(p, k), en2, h2) = Full(p, Surround(p, k), en, h)
  <2>1. Surround(p, k) = Going(p, <<k, i>>)
    BY <1>2, GoingOutside
  <2>2. \A l : ~ Own(p, k, i, l)
    BY NoneOwn
  <2> QED BY <2>1, <2>2, FullKept
<1>7. UnderIn(p, k, TRUE, TRUE, en2, h2) = [of |-> <<>>, acc |-> NothingYet(p[k].how)]
  <2>0. UnderIn(p, k, TRUE, TRUE, en2, h2)
          = [of |-> <<>>, acc |-> IF p[k].how = "list" THEN h2[en2[Acc(p, k)]] ELSE en2[Acc(p, k)]]
    BY DEF UnderIn, GatherIn
  <2>1. CASE p[k].how # "list"
    <3>1. en2 = With(en, Acc(p, k), IF p[k].how = "sum" THEN 0 ELSE p[k].how = "all")
      BY <2>1, SingleGoes
    <3>2. en2[Acc(p, k)] = IF p[k].how = "sum" THEN 0 ELSE p[k].how = "all"
      BY <3>1 DEF With
    <3> QED BY <2>0, <2>1, <3>2 DEF NothingYet
  <2>2. CASE p[k].how = "list"
    <3>1. h2 = Append(h, <<>>) /\ en2 = With(en, Acc(p, k), Len(h) + 1)
      BY <2>2, SingleGoes
    <3>2. en2[Acc(p, k)] = Len(h) + 1
      BY <3>1 DEF With
    <3>3. h2[Len(h) + 1] = <<>>
      BY <1>1, <3>1 DEF Fine
    <3> QED BY <2>0, <2>2, <3>2, <3>3 DEF NothingYet
  <2> QED BY <2>1, <2>2
<1>8. ItersAt(p, at2, en2, h2) = Full(p, Surround(p, k) \cup {k}, en2, h2)
  <2>1. Outside(p, at2, k + 1) /\ IsBody(p)
    BY <1>1, <1>2
  <2>2. ItersAt(p, at2, en2, h2) = Full(p, Surround(p, k + 1), en2, h2)
    BY ONLY <2>1, ItersOut
  <2> QED BY <1>2, <2>2
<1>9. ItersAt(p, <<k, i>>, en, h) = Full(p, Surround(p, k), en, h)
  <2>1. Outside(p, <<k, i>>, k) /\ IsBody(p)
    BY <1>1, <1>2
  <2> QED BY ONLY <2>1, ItersOut
<1>10. Full(p, Surround(p, k) \cup {k}, en2, h2)
         = With(Full(p, Surround(p, k), en2, h2), k, UnderIn(p, k, TRUE, TRUE, en2, h2))
  BY DEF Full, With
<1>11. ItersAt(p, at2, en2, h2)
         = With(ItersAt(p, <<k, i>>, en, h), k, [of |-> <<>>, acc |-> NothingYet(p[k].how)])
  BY <1>6, <1>7, <1>8, <1>9, <1>10
<1> QED BY <1>4, <1>5, <1>11 DEF Goes, EnvAt

LEMMA SeenResult ==
  ASSUME NEW p, NEW k, NEW i, NEW en, NEW h, NEW at2, NEW en2, NEW h2,
         Step(p, k, i, en, h, at2, en2, h2), AtSingle(p, k, i), p[k].op = "result"
  PROVE  LET g  == p[k].of
             it == ItersAt(p, <<k, i>>, en, h)
         IN  /\ Goes(p, at2, en2, h2, k + 1, With(EnvAt(p, <<k, i>>, en), p[k].x, en[Acc(p, g)]), Without(it, {g}))
             /\ it[g] = GatherIn(p, g, en, h)
             /\ g \in ListAccs(p, k) \/ p[g].how # "list"
<1> DEFINE g  == p[k].of
           it == ItersAt(p, <<k, i>>, en, h)
<1>1. IsBody(p) /\ k \in 1 .. Len(p) /\ i \in 1 .. N(p, k) /\ Known(p, k, i) \subseteq DOMAIN en
  BY DEF Step, Ready
<1>2. /\ Outside(p, <<k, i>>, k) /\ Outside(p, at2, k + 1) /\ Surround(p, k + 1) = Surround(p, k) \ {g}
      /\ g \in Surround(p, k) /\ p[g].op = "gather"
  <2>1. SingleMoves(p, k, i, en, h, at2)
    BY SingleArrives
  <2> QED BY <2>1 DEF SingleMoves
<1>3. Bound(p, k + 1) = Bound(p, k)
  <2>1. Surround(p, k) = Surround(p, k + 1) \cup {g}
    BY <1>2
  <2>2. Bound(p, k) = Bound(p, k + 1) \cup Targets(p, g)
    BY <1>2, <2>1, SurroundsBound
  <2> QED BY <1>2, <2>2 DEF Targets
<1>4. PlaceAt(p, <<k, i>>) = k /\ PlaceAt(p, at2) = k + 1 /\ A(p, k, i) = k
  BY <1>2 DEF Outside, AtSingle
<1>5. en2 = With(en, p[k].x, en[Acc(p, g)])
  BY SingleGoes
<1>6. ShownIn(p, k + 1, en2) = With(ShownIn(p, k, en), p[k].x, en[Acc(p, g)])
  <2>1. Bound(p, k) \subseteq DOMAIN en
    BY <1>1, <1>4, ReadsKnown
  <2>2. p[k].x \in Bound(p, k)
    <3>1. Typed(p, k)
      BY <1>1, BodyIs
    <3> QED BY <3>1 DEF Typed, Bound
  <2> HIDE DEF g
  <2> QED BY <1>3, <1>5, <2>1, <2>2 DEF ShownIn, With
<1>7. Full(p, Surround(p, k) \ {g}, en2, h2) = Full(p, Surround(p, k) \ {g}, en, h)
  <2>1. Surround(p, k) \ {g} \subseteq Going(p, <<k, i>>)
    BY <1>2, GoingOutside
  <2>2. \A l : ~ Own(p, k, i, l)
    BY NoneOwn
  <2> QED BY <2>1, <2>2, FullKept
<1>8. ItersAt(p, at2, en2, h2) = Full(p, Surround(p, k) \ {g}, en2, h2)
  <2>1. Outside(p, at2, k + 1) /\ IsBody(p)
    BY <1>1, <1>2
  <2>2. ItersAt(p, at2, en2, h2) = Full(p, Surround(p, k + 1), en2, h2)
    BY ONLY <2>1, ItersOut
  <2> QED BY <1>2, <2>2
<1>9. it = Full(p, Surround(p, k), en, h)
  <2>1. Outside(p, <<k, i>>, k) /\ IsBody(p)
    BY <1>1, <1>2
  <2> QED BY ONLY <2>1, ItersOut
<1>10. Without(Full(p, Surround(p, k), en, h), {g}) = Full(p, Surround(p, k) \ {g}, en, h)
  BY DEF Full, Without
<1>11. it[g] = GatherIn(p, g, en, h)
  BY <1>2, <1>9 DEF Full, UnderIn
<1>12. g \in ListAccs(p, k) \/ p[g].how # "list"
  BY <1>2 DEF ListAccs
<1> QED BY <1>4, <1>6, <1>7, <1>8, <1>9, <1>10, <1>11, <1>12 DEF Goes, EnvAt

LEMMA SeenReturn ==
  ASSUME NEW p, NEW k, NEW i, NEW en, NEW h, NEW at2, NEW en2, NEW h2,
         Step(p, k, i, en, h, at2, en2, h2), AtSingle(p, k, i), p[k].op = "return"
  PROVE  LET it == ItersAt(p, <<k, i>>, en, h)
         IN  Goes(p, at2, en2, h2, Len(p) + 1,
                  Without(EnvAt(p, <<k, i>>, en), UNION {Targets(p, l) : l \in DOMAIN it}), [l \in {} |-> 0])
<1> DEFINE it == ItersAt(p, <<k, i>>, en, h)
           T  == UNION {Targets(p, l) : l \in DOMAIN it}
<1>1. IsBody(p) /\ Follows(p) /\ k \in 1 .. Len(p) /\ i \in 1 .. N(p, k)
  BY DEF Step, Ready
<1>2. Outside(p, <<k, i>>, k) /\ Outside(p, at2, Len(p) + 1) /\ Surround(p, Len(p) + 1) = {}
  <2>1. SingleMoves(p, k, i, en, h, at2)
    BY SingleArrives
  <2> QED BY <2>1 DEF SingleMoves
<1>3. PlaceAt(p, <<k, i>>) = k /\ PlaceAt(p, at2) = Len(p) + 1 /\ A(p, k, i) = k
  BY <1>2 DEF Outside, AtSingle
<1>4. it = Full(p, Surround(p, k), en, h) /\ DOMAIN it = Surround(p, k)
  <2>1. it = Full(p, Surround(p, k), en, h)
    <3>1. Outside(p, <<k, i>>, k) /\ IsBody(p)
      BY <1>1, <1>2
    <3> QED BY ONLY <3>1, ItersOut
  <2> QED BY <2>1 DEF Full
<1>5. ItersAt(p, at2, en2, h2) = [l \in {} |-> 0]
  <2>1. ItersAt(p, at2, en2, h2) = Full(p, {}, en2, h2)
    <3>1. Outside(p, at2, Len(p) + 1) /\ IsBody(p)
      BY <1>1, <1>2
    <3>2. ItersAt(p, at2, en2, h2) = Full(p, Surround(p, Len(p) + 1), en2, h2)
      BY ONLY <3>1, ItersOut
    <3> QED BY <1>2, <3>2
  <2> QED BY <2>1 DEF Full
<1>6. Bound(p, k) = DOMAIN Env0 \cup T /\ Bound(p, Len(p) + 1) = DOMAIN Env0
  <2>1. \A a : UNION {Targets(p, j) : j \in Around(p, a)} = UNION {Targets(p, j) : j \in Surround(p, a)}
    BY DEF Surround, Targets
  <2>2. \A a : Bound(p, a) = DOMAIN Env0 \cup UNION {Targets(p, j) : j \in Surround(p, a)}
    BY <2>1 DEF Bound
  <2>3. T = UNION {Targets(p, j) : j \in Surround(p, k)}
    BY <1>4
  <2>4. UNION {Targets(p, j) : j \in Surround(p, Len(p) + 1)} = {}
    BY <1>2
  <2> HIDE DEF T
  <2> QED BY <2>2, <2>3, <2>4
<1>7. T \cap DOMAIN Env0 = {}
  <2> SUFFICES ASSUME NEW l \in Surround(p, k) PROVE Targets(p, l) \cap DOMAIN Env0 = {}
    BY <1>4
  <2>1. l \in 1 .. Len(p)
    BY <1>1, SurroundIs
  <2>2. CASE p[l].op = "for"
    BY <1>1, <2>1, <2>2, BodyIs DEF Follows, TargetsApart, Bound
  <2> QED BY <2>2 DEF Targets
<1>8. ShownIn(p, Len(p) + 1, en2) = Without(ShownIn(p, k, en), T)
  <2>1. Bound(p, Len(p) + 1) = Bound(p, k) \ T /\ Bound(p, Len(p) + 1) \subseteq Bound(p, k)
    BY <1>6, <1>7
  <2>2. ~ (AtSingle(p, k, i) /\ p[k].op \in {"let", "result"})
    OBVIOUS
  <2>3. ShownIn(p, Len(p) + 1, en2) = ShownIn(p, Len(p) + 1, en)
    BY <1>3, <2>1, <2>2, ShownKept
  <2> HIDE DEF T
  <2> QED BY <2>1, <2>3, ShownLess
<1> QED BY <1>3, <1>5, <1>8 DEF Goes, EnvAt

(* The list that is gathered becomes one that is held. *)
LEMMA SeenListResult ==
  ASSUME NEW p, NEW k, NEW i, NEW en, NEW h, NEW at2, NEW en2, NEW h2,
         Step(p, k, i, en, h, at2, en2, h2), ListResult(p, k, i)
  PROVE  LET new == en[Acc(p, p[k].of)]
             hh  == HeldAt(p, <<k, i>>, en, h)
         IN  /\ new \notin DOMAIN hh
             /\ HeldAt(p, at2, en2, h2)
                  = Held(With(hh, new, h[new]), EnvAt(p, at2, en2), ItersAt(p, at2, en2, h2))
<1> DEFINE g   == p[k].of
           new == en[Acc(p, g)]
           hh  == HeldAt(p, <<k, i>>, en, h)
           R   == Refs(EnvAt(p, <<k, i>>, en), ItersAt(p, <<k, i>>, en, h))
           R2  == Refs(EnvAt(p, at2, en2), ItersAt(p, at2, en2, h2))
<1>1. /\ IsBody(p) /\ k \in 1 .. Len(p) /\ i \in 1 .. N(p, k) /\ Ready(p, k, i, en, h) /\ AccsApart(p, <<k, i>>, en)
      /\ InText(p, at2) /\ InText(p, <<k, i>>)
  BY DEF Step, Ready, InText
<1>2. AtSingle(p, k, i) /\ p[k].op = "result" /\ p[g].how = "list"
  BY DEF ListResult
<1>3. /\ Outside(p, <<k, i>>, k) /\ Outside(p, at2, k + 1) /\ Surround(p, k + 1) = Surround(p, k) \ {g}
      /\ g \in Surround(p, k) /\ p[g].op = "gather"
  <2>1. SingleMoves(p, k, i, en, h, at2)
    BY <1>2, SingleArrives
  <2> QED BY <1>2, <2>1 DEF SingleMoves
<1>4. g \in ListAccs(p, k)
  BY <1>2, <1>3 DEF ListAccs
<1>5. PlaceAt(p, <<k, i>>) = k /\ PlaceAt(p, at2) = k + 1 /\ k + 1 \in 1 .. Len(p) + 1
  BY <1>3 DEF Outside
<1>6. new \notin DOMAIN Heap0 /\ \A x \in Holders(p, <<k, i>>) : en[x] # new
  BY <1>1, <1>4, <1>5 DEF AccsApart
<1>7. R = DOMAIN Heap0 \cup {en[x] : x \in Holders(p, <<k, i>>)}
  BY <1>1, RefsAre DEF EnvAt
<1>8. R2 = DOMAIN Heap0 \cup {en2[x] : x \in Holders(p, at2)}
  BY <1>1, RefsAre DEF EnvAt
<1>9. DOMAIN hh = R /\ \A r \in R : hh[r] = h[r]
  BY HeldIs DEF HeldAt, EnvAt
<1>10. \A x \in Holders(p, at2) : en2[x] = new \/ en2[x] \in R
  <2> TAKE x \in Holders(p, at2)
  <2>1. CASE x \in Bound(p, k + 1) /\ Kind(x) = "list"
    <3>1. x \in Bound(p, k) /\ A(p, k, i) = k
      BY <1>1, <1>2, <1>5, <2>1, BoundLists DEF AtSingle
    <3>2. CASE x = p[k].x
      <4>1. en2 = With(en, p[k].x, en[Acc(p, g)])
        BY <1>2, SingleGoes
      <4> QED BY <3>2, <4>1 DEF With
    <3>3. CASE x # p[k].x
      <4>1. en2[x] = en[x]
        BY <3>1, <3>3, BoundKept
      <4>2. x \in Holders(p, <<k, i>>)
        BY <1>5, <2>1, <3>1 DEF Holders
      <4> QED BY <1>7, <4>1, <4>2
    <3> QED BY <3>2, <3>3
  <2>2. CASE \E l \in Going(p, at2) : Indexed(p, l) /\ \E m \in DOMAIN p[l].its : x = Holder(p, l, m)
    <3>1. PICK l \in Going(p, at2) : Indexed(p, l) /\ \E m \in DOMAIN p[l].its : x = Holder(p, l, m)
      BY <2>2
    <3>2. PICK m \in DOMAIN p[l].its : x = Holder(p, l, m)
      BY <3>1
    <3>3. l \in Going(p, <<k, i>>)
      <4>1. Going(p, at2) = Surround(p, k + 1) /\ Going(p, <<k, i>>) = Surround(p, k)
        BY <1>3, GoingOutside
      <4> QED BY <1>3, <4>1
    <3>4. en2[x] = en[x]
      BY <3>1, <3>2, <3>3, HandedWalk
    <3>5. x \in Holders(p, <<k, i>>)
      BY <3>1, <3>2, <3>3 DEF Holders
    <3> QED BY <1>7, <3>4, <3>5
  <2> QED BY <1>5, <2>1, <2>2 DEF Holders
<1>11. R2 \subseteq R \cup {new}
  BY <1>7, <1>8, <1>10
<1>12. R \subseteq DOMAIN h /\ new \in DOMAIN h
  <2>1. R \subseteq DOMAIN h
    BY <1>1, RefsThere DEF EnvAt
  <2>2. Acc(p, g) \in DOMAIN en
    <3>1. g \in Going(p, <<k, i>>)
      BY <1>3, GoingOutside
    <3>2. ReadsOf(p, g) \subseteq Known(p, k, i)
      BY <1>1, <3>1, ReadsKnown
    <3> QED BY <1>1, <1>3, <3>2 DEF ReadsOf, Ready
  <2>3. Kind(Acc(p, g)) = "list"
    <3>1. g \in 1 .. Len(p)
      BY <1>1, <1>3, SurroundIs
    <3> QED BY <1>1, <1>2, <1>3, <3>1, AccKinds DEF Makes
  <2> QED BY <1>1, <2>1, <2>2, <2>3 DEF Ready, Fine, OfType
<1>13. h2 = h
  BY <1>2, SingleGoes
<1> HIDE DEF hh, R, R2, new
<1>14. \A r \in R2 : With(hh, new, h[new])[r] = h2[r]
  BY <1>9, <1>11, <1>13 DEF With
<1>15. new \notin DOMAIN hh
  BY <1>6, <1>7, <1>9
<1>16. Held(With(hh, new, h[new]), EnvAt(p, at2, en2), ItersAt(p, at2, en2, h2))
         = Held(h2, EnvAt(p, at2, en2), ItersAt(p, at2, en2, h2))
  BY <1>14, HeldAgain DEF R2
<1> QED BY <1>15, <1>16 DEF HeldAt, EnvAt, hh, new

(* A loop is prepared, and entered. *)
LEMMA BeginPlace ==
  ASSUME NEW p, IsBody(p), NEW k \in 1 .. Len(p), p[k].op = "for", NEW i \in 1 .. N(p, k), i + 1 = W(p, k)
  PROVE  IF Indexed(p, k) THEN AtIndex(p, k, i) ELSE AtCounter(p, k, i)
<1>1. W(p, k) \in 2 .. 4 /\ H(p, k) >= W(p, k) /\ H(p, k) \in 2 .. 6 /\ i \in Nat
  BY WalkIs, NIs
<1>2. ~ AtCount(p, k, i)
  <2>1. p[k].how = "enumerate" => W(p, k) >= 3
    BY WalkIs DEF Enum
  <2> QED BY <1>1, <2>1 DEF AtCount
<1>3. ~ AtWhile(p, k, i) /\ ~ AtReload(p, k, i)
  BY <1>1 DEF AtWhile, AtReload
<1>4. \A o \in {1, 2} : ~ AtList(p, k, i, o) /\ ~ AtLoad(p, k, i, o)
  <2> TAKE o \in {1, 2}
  <2>1. p[k].how # "zip" => W(p, k) - 2 # i
    BY <1>1
  <2>2. p[k].how = "zip" => i = 3
    BY <1>1, WalkIs
  <2>3. W(p, k) + o # i
    BY <1>1
  <2> QED BY <2>1, <2>2, <2>3 DEF AtList, AtLoad
<1>5. OfHead(p, k, i)
  BY HeadPlaces
<1>6. AtIndex(p, k, i) \/ AtCounter(p, k, i)
  BY <1>2, <1>3, <1>4, <1>5 DEF OfHead
<1> QED BY <1>6 DEF AtIndex, AtCounter

NewIterator(it, en, h) ==
  IF it.k = "range"
  THEN [k |-> "range", next |-> Eval(it.start, en, h), stop |-> Eval(it.stop, en, h), step |-> it.step]
  ELSE [k |-> "list", list |-> en[it.x], pos |-> 0]

(* A range's start and stop are numbers of the names around it.             *)
LEMMA RangeIs ==
  ASSUME NEW p, IsBody(p), NEW k \in 1 .. Len(p), p[k].op = "for", ~ Indexed(p, k)
  PROVE  LET it == p[k].its[1]
         IN  /\ it.k = "range" /\ it.step \in Nat \ {0} /\ DOMAIN p[k].its = {1}
             /\ HasType(it.start, "int") /\ HasType(it.stop, "int")
             /\ Reads(it.start) \subseteq Bound(p, k) /\ Reads(it.stop) \subseteq Bound(p, k)
             /\ Reads(it.stop) = NumberReads(it.stop)
<1>1. p[k].its[1].k = "range" /\ DOMAIN p[k].its = {1} /\ IsIterable(p[k].its[1])
  BY WalkIs, ForIs DEF Indexed, Ranged
<1>2. IsNumber(p[k].its[1].start, "int") /\ IsNumber(p[k].its[1].stop, "int") /\ p[k].its[1].step \in Nat \ {0}
  BY <1>1 DEF IsIterable
<1>3. \A e : IsNumber(e, "int") => HasType(e, "int") /\ Reads(e) = NumberReads(e)
  BY DEF IsNumber, IsAtom, HasType, Reads, Comparisons
<1>4. NumberReads(p[k].its[1].stop) \subseteq Bound(p, k) /\ NumberReads(p[k].its[1].start) \subseteq Bound(p, k)
  BY StopBound
<1> QED BY <1>1, <1>2, <1>3, <1>4

LEMMA NewWalk ==
  ASSUME NEW p, NEW k, NEW i, NEW en, NEW h, NEW at2, NEW en2, NEW h2,
         Step(p, k, i, en, h, at2, en2, h2), p[k].op = "for", i + 1 = W(p, k), NEW m \in DOMAIN p[k].its
  PROVE  StillIn(p, k, m, en2, h2) = NewIterator(p[k].its[m], en, h)
<1>1. /\ IsBody(p) /\ Follows(p) /\ k \in 1 .. Len(p) /\ i \in 1 .. N(p, k) /\ Fine(en, h)
      /\ Known(p, k, i) \subseteq DOMAIN en
  BY DEF Step, Ready
<1>2. i <= H(p, k) /\ i # W(p, k) /\ W(p, k) \in 2 .. 4 /\ i \in Nat
  BY <1>1, WalkIs, NIs
<1>3. CASE Indexed(p, k)
  <2>1. en2[Holder(p, k, m)] = en[p[k].its[m].x]
    <3>1. Indexed(p, k) /\ m \in DOMAIN p[k].its /\ i + 1 = W(p, k) /\ Step(p, k, i, en, h, at2, en2, h2)
      BY <1>3
    <3>2. en2[Holder(p, k, m)] = en[p[k].its[m].x] /\ p[k].its[m].x \in Holders(p, <<k, i>>)
      BY <3>1, HandedBegin
    <3> QED BY <3>2
  <2>2. D(p, k, i) = Let(IndexOf(p, k), Num(0))
    <3>1. AtIndex(p, k, i)
      BY <1>1, <1>3, BeginPlace
    <3> QED BY <3>1 DEF AtIndex
  <2>3. en2[IndexOf(p, k)] = 0
    <3>1. D(p, k, i).op = "let" /\ D(p, k, i).x = IndexOf(p, k) /\ D(p, k, i).e = Num(0)
      BY <2>2 DEF Let
    <3>2. Effect(p, k, i, en, h, at2, en2, h2)
      BY DEF Step
    <3>3. en2 = With(en, IndexOf(p, k), Stored_(D(p, k, i), en, h))
      BY <3>1, <3>2 DEF Effect
    <3>4. Stored_(D(p, k, i), en, h) = 0
      BY <3>1 DEF Stored_, Eval, Num, Comparisons, Number, Atom
    <3> QED BY <3>3, <3>4 DEF With
  <2>4. p[k].its[m].k = "list"
    BY <1>1, <1>3, ListSource
  <2> QED BY <1>3, <2>1, <2>3, <2>4 DEF StillIn, WalkIn, NewIterator
<1>4. CASE ~ Indexed(p, k)
  <2> DEFINE it == p[k].its[1]
  <2>1. /\ it.k = "range" /\ m = 1 /\ HasType(it.start, "int") /\ HasType(it.stop, "int")
        /\ Reads(it.start) \subseteq Bound(p, k) /\ NumberReads(it.stop) \subseteq Bound(p, k)
    BY <1>1, <1>4, RangeIs
  <2>2. D(p, k, i) = Let(Over(p[k]), it.start) /\ A(p, k, i) = k
    <3>1. AtCounter(p, k, i)
      BY <1>1, <1>4, BeginPlace
    <3> QED BY <3>1 DEF AtCounter
  <2>3. en2[Over(p[k])] = Eval(it.start, en, h)
    <3>1. D(p, k, i).op = "let" /\ D(p, k, i).x = Over(p[k]) /\ D(p, k, i).e = it.start
      BY <2>2 DEF Let
    <3>2. Effect(p, k, i, en, h, at2, en2, h2)
      BY DEF Step
    <3>3. en2 = With(en, Over(p[k]), Stored_(D(p, k, i), en, h))
      BY <3>1, <3>2 DEF Effect
    <3>4. Stored_(D(p, k, i), en, h) = Eval(it.start, en, h)
      BY <3>1 DEF Stored_
    <3> QED BY <3>3, <3>4 DEF With
  <2>4. Eval(it.start, en, h) \in Int
    <3>1. Bound(p, k) \subseteq DOMAIN en
      BY <1>1, <2>2, ReadsKnown
    <3>2. Reads(it.start) \subseteq DOMAIN en
      BY <2>1, <3>1
    <3>3. OfType(Eval(it.start, en, h), "int", h)
      BY <1>1, <2>1, <3>2, EvalTyped
    <3> QED BY <3>3 DEF OfType
  <2>5. Eval(it.stop, en2, h2) = Eval(it.stop, en, h)
    <3>1. \A y \in NumberReads(it.stop) : en2[y] = en[y]
      <4> TAKE y \in NumberReads(it.stop)
      <4>1. y \in Bound(p, A(p, k, i))
        BY <2>1, <2>2
      <4>2. ~ (AtSingle(p, k, i) /\ p[k].op \in {"let", "result"} /\ y = p[k].x)
        OBVIOUS
      <4> QED BY <4>1, <4>2, BoundKept
    <3>2. SameOn(NumberReads(it.stop), en, en2)
      BY <3>1 DEF SameOn
    <3> QED BY <1>1, <1>4, <3>2, StopAgrees
  <2>6. en2[Over(p[k])] + 0 = Eval(it.start, en, h)
    BY <2>3, <2>4
  <2>7. StillIn(p, k, 1, en2, h2)
          = [k |-> "range", next |-> en2[Over(p[k])] + 0, stop |-> Eval(it.stop, en2, h2), step |-> it.step]
    BY <1>4 DEF StillIn, WalkIn
  <2>8. NewIterator(it, en, h)
          = [k |-> "range", next |-> Eval(it.start, en, h), stop |-> Eval(it.stop, en, h), step |-> it.step]
    BY <2>1 DEF NewIterator
  <2> QED BY <2>1, <2>5, <2>6, <2>7, <2>8
<1> QED BY <1>3, <1>4

LEMMA NewNumber ==
  ASSUME NEW p, NEW k, NEW i, NEW en, NEW h, NEW at2, NEW en2, NEW h2,
         Step(p, k, i, en, h, at2, en2, h2), p[k].op = "for", i + 1 = W(p, k), p[k].how = "enumerate"
  PROVE  en2[p[k].t[1]] = p[k].start /\ p[k].start \in Int
<1>1. /\ IsBody(p) /\ Follows(p) /\ k \in 1 .. Len(p) /\ i \in 1 .. N(p, k) /\ Prepared(p, <<k, i>>, en)
  BY DEF Step, Ready
<1>2. W(p, k) >= 3 /\ W(p, k) \in 2 .. 4 /\ H(p, k) >= W(p, k) /\ i \in Nat /\ i > 1 /\ i < W(p, k)
  BY <1>1, WalkIs, NIs DEF Enum
<1>3. en[p[k].t[1]] = p[k].start
  <2> DEFINE at == <<k, i>>
  <2>1. at[1] = k /\ at[2] = i
    OBVIOUS
  <2> HIDE DEF at
  <2>2. Prepared(p, at, en)
    BY <1>1 DEF at
  <2> QED BY <1>1, <1>2, <2>1, <2>2 DEF Prepared
<1>4. p[k].start \in Int /\ p[k].t[1] \in Targets(p, k)
  BY <1>1, ForIs
<1>5. p[k].t[1] \notin Stored(D(p, k, i))
  <2>1. CASE Indexed(p, k)
    <3>1. AtIndex(p, k, i)
      BY <1>1, <2>1, BeginPlace
    <3>2. D(p, k, i) = Let(IndexOf(p, k), Num(0))
      BY <3>1 DEF AtIndex
    <3>3. p[k].t[1] # IndexOf(p, k)
      <4>1. p[k].t[1][1] \notin Helpers
        BY <1>1, <1>4, ForIs, Kinds
      <4>2. IndexOf(p, k)[1] \in IndexHelpers
        BY HelperKinds
      <4> QED BY <4>1, <4>2 DEF Helpers
    <3> QED BY <3>2, <3>3, LetStores
  <2>2. CASE ~ Indexed(p, k)
    <3>1. AtCounter(p, k, i)
      BY <1>1, <2>2, BeginPlace
    <3>2. D(p, k, i) = Let(Over(p[k]), p[k].its[1].start)
      BY <3>1 DEF AtCounter
    <3>3. Over(p[k]) = p[k].t[2]
      BY DEF Over
    <3>4. p[k].t[1] # p[k].t[2]
      BY <1>1, BodyIs DEF Follows, TargetsApart
    <3> QED BY <3>2, <3>3, <3>4, LetStores
  <2> QED BY <2>1, <2>2
<1>6. p[k].t[1] \in Known(p, k, i)
  <2>1. AtCount(p, k, 1)
    <3>1. OfHead(p, k, 1)
      <4>1. 1 \in 1 .. N(p, k)
        BY <1>1, NIs
      <4> QED BY <1>1, <4>1, HeadPlaces
    <3>2. ~ AtWhile(p, k, 1) /\ ~ AtReload(p, k, 1) /\ ~ AtCounter(p, k, 1) /\ ~ AtIndex(p, k, 1)
      BY <1>2, <1>1, WalkIs DEF AtWhile, AtReload, AtCounter, AtIndex
    <3>3. \A o \in {1, 2} : ~ AtList(p, k, 1, o) /\ ~ AtLoad(p, k, 1, o)
      <4>1. Indexed(p, k) => W(p, k) - 2 # 1
        BY <1>1, WalkIs DEF Indexed, Enum
      <4> QED BY <1>2, <4>1 DEF AtList, AtLoad
    <3> QED BY <3>1, <3>2, <3>3 DEF OfHead
  <2>2. D(p, k, 1).x = p[k].t[1]
    BY <2>1 DEF AtCount, Let
  <2>3. 1 \in 1 .. i - 1 /\ 1 # W(p, k)
    BY <1>2
  <2> QED BY <1>1, <2>2, <2>3, HereKnown
<1> QED BY <1>3, <1>4, <1>5, <1>6, EnvKept

LEMMA SeenHead ==
  ASSUME NEW p, NEW k, NEW i, NEW en, NEW h, NEW at2, NEW en2, NEW h2,
         Step(p, k, i, en, h, at2, en2, h2), p[k].op = "for", i + 1 < W(p, k)
  PROVE  Goes(p, at2, en2, h2, k, EnvAt(p, <<k, i>>, en), ItersAt(p, <<k, i>>, en, h))
<1>1. IsBody(p) /\ k \in 1 .. Len(p) /\ i \in 1 .. N(p, k)
  BY DEF Step, Ready
<1>2. W(p, k) \in 2 .. 4 /\ H(p, k) >= W(p, k) /\ H(p, k) \in 2 .. 6 /\ i \in Nat
  BY <1>1, WalkIs, NIs
<1>3. i \in 1 .. H(p, k) /\ i # W(p, k) /\ i <= H(p, k) /\ ~ (i >= W(p, k)) /\ ~ (i + 1 >= W(p, k))
  BY <1>1, <1>2
<1>4. HeadMoves(p, k, i)
  BY <1>1, <1>3, HeadArrives
<1>5. at2 = Onward(p, k, i)
  BY <1>3, HeadGoes
<1>6. Outside(p, <<k, i>>, k) /\ Outside(p, at2, k)
  BY <1>3, <1>4, <1>5 DEF HeadMoves
<1>7. \A l : ~ Own(p, k, i, l)
  BY NoneOwn
<1>8. ~ (AtSingle(p, k, i) /\ p[k].op \in {"let", "result"}) /\ Surround(p, k) = Surround(p, k)
  OBVIOUS
<1> QED BY <1>6, <1>7, <1>8, SeenOn

NewIters(p, k, en, h) ==
  [of |-> [m \in DOMAIN p[k].its |-> NewIterator(p[k].its[m], en, h)], n |-> p[k].start]

LEMMA SeenBegin ==
  ASSUME NEW p, NEW k, NEW i, NEW en, NEW h, NEW at2, NEW en2, NEW h2,
         Step(p, k, i, en, h, at2, en2, h2), p[k].op = "for", i + 1 = W(p, k)
  PROVE  /\ Goes(p, at2, en2, h2, k, EnvAt(p, <<k, i>>, en),
                 With(ItersAt(p, <<k, i>>, en, h), k, NewIters(p, k, en, h)))
         /\ Outside(p, <<k, i>>, k) /\ k \notin DOMAIN ItersAt(p, <<k, i>>, en, h)
<1>1. IsBody(p) /\ k \in 1 .. Len(p) /\ i \in 1 .. N(p, k)
  BY DEF Step, Ready
<1>2. W(p, k) \in 2 .. 4 /\ H(p, k) >= W(p, k) /\ H(p, k) \in 2 .. 6 /\ i \in Nat
  BY <1>1, WalkIs, NIs
<1>3. i \in 1 .. H(p, k) /\ i # W(p, k) /\ i <= H(p, k) /\ ~ (i >= W(p, k)) /\ i + 1 >= W(p, k) /\ i < H(p, k)
  BY <1>1, <1>2
<1>4. HeadMoves(p, k, i)
  BY <1>1, <1>3, HeadArrives
<1>5. at2 = Onward(p, k, i)
  BY <1>3, HeadGoes
<1>6. Outside(p, <<k, i>>, k) /\ AtLoop(p, at2, k, FALSE, FALSE) /\ k \notin Surround(p, k)
  BY <1>3, <1>4, <1>5 DEF HeadMoves
<1>7. Between(p, at2, k)
  BY <1>6, AtLoopIs
<1>8. PlaceAt(p, <<k, i>>) = k /\ PlaceAt(p, at2) = k /\ A(p, k, i) = k
  <2>1. PlaceAt(p, <<k, i>>) = A(p, k, i)
    BY <1>1, PlaceAtIs
  <2> QED BY <1>6, <1>7, <2>1 DEF Outside, Between
<1>9. ShownIn(p, k, en2) = ShownIn(p, k, en)
  <2>1. Bound(p, k) \subseteq Bound(p, A(p, k, i))
    BY <1>8
  <2>2. ~ (AtSingle(p, k, i) /\ p[k].op \in {"let", "result"})
    OBVIOUS
  <2> QED BY <2>1, <2>2, ShownKept
<1>10. Full(p, Surround(p, k), en2, h2) = Full(p, Surround(p, k), en, h)
  <2>1. Surround(p, k) = Going(p, <<k, i>>)
    BY <1>6, GoingOutside
  <2>2. \A l : ~ Own(p, k, i, l)
    BY NoneOwn
  <2> QED BY <2>1, <2>2, FullKept
<1>11. ItersAt(p, at2, en2, h2) = With(Full(p, Surround(p, k), en2, h2), k, NextIn(p, k, en2, h2))
  BY <1>1, <1>7, ItersBetween
<1>12. ItersAt(p, <<k, i>>, en, h) = Full(p, Surround(p, k), en, h)
  <2>1. Outside(p, <<k, i>>, k) /\ IsBody(p)
    BY <1>1, <1>6
  <2> QED BY ONLY <2>1, ItersOut
<1>13. NextIn(p, k, en2, h2) = NewIters(p, k, en, h)
  <2>1. \A m \in DOMAIN p[k].its : StillIn(p, k, m, en2, h2) = NewIterator(p[k].its[m], en, h)
    BY NewWalk
  <2>2. p[k].how = "enumerate" => en2[p[k].t[1]] + 0 = p[k].start
    <3>1. p[k].how = "enumerate" => en2[p[k].t[1]] = p[k].start /\ p[k].start \in Int
      BY NewNumber
    <3> QED BY <3>1
  <2> QED BY <2>1, <2>2 DEF NextIn, StillIn, LoopIn, NewIters
<1>14. k \notin DOMAIN ItersAt(p, <<k, i>>, en, h)
  BY <1>6, <1>12 DEF Full
<1> QED BY <1>6, <1>8, <1>9, <1>10, <1>11, <1>12, <1>13, <1>14 DEF Goes, EnvAt

-----------------------------------------------------------------------------
(* A turn. *)

MoreOf(w, h)    == IF w.k = "range" THEN w.next < w.stop ELSE w.pos < Len(h[w.list])
ElementOf(w, h) == IF w.k = "range" THEN w.next ELSE h[w.list][w.pos + 1]
AdvanceOf(w)    == IF w.k = "range" THEN [w EXCEPT !.next = @ + w.step] ELSE [w EXCEPT !.pos = @ + 1]

NumberOf(p, k, en) == IF p[k].how = "enumerate" THEN en[p[k].t[1]] ELSE p[k].start

TurnIters(p, k, en, h) ==
  [of |-> [m \in DOMAIN p[k].its |-> AdvanceOf(StillIn(p, k, m, en, h))],
   n  |-> IF p[k].how = "enumerate" THEN NumberOf(p, k, en) + 1 ELSE NumberOf(p, k, en)]

(* Its counters are numbers. *)
Numbers(p, k, en) ==
  /\ Indexed(p, k) => en[IndexOf(p, k)] \in Int
  /\ ~ Indexed(p, k) => en[Over(p[k])] \in Int
  /\ p[k].how = "enumerate" => en[p[k].t[1]] \in Int

LEMMA NumbersAre ==
  ASSUME NEW p, NEW k, NEW i, NEW en, NEW h, Ready(p, k, i, en, h), p[k].op = "for", i >= W(p, k)
  PROVE  Numbers(p, k, en)
<1>1. /\ IsBody(p) /\ k \in 1 .. Len(p) /\ i \in 1 .. N(p, k) /\ Fine(en, h)
      /\ Known(p, k, i) \subseteq DOMAIN en
  BY DEF Ready
<1>2. ReadsOf(p, k) \subseteq DOMAIN en
  BY <1>1, LoopKnown
<1>3. \A x \in ReadsOf(p, k) : Kind(x) = "int" => en[x] \in Int
  BY <1>1, <1>2 DEF Fine, OfType
<1>4. Kind(IndexOf(p, k)) = "int"
  BY Kinds, HelperKinds
<1>5. \A x \in Targets(p, k) : Kind(x) = "int"
  BY <1>1, ForIs
<1>6. Over(p[k]) \in Targets(p, k) /\ (p[k].how = "enumerate" => p[k].t[1] \in Targets(p, k))
  BY <1>1, ForIs
<1>7. p[k].op # "gather"
  OBVIOUS
<1> QED BY <1>3, <1>4, <1>5, <1>6, <1>7 DEF Numbers, ReadsOf

LEMMA StillIs ==
  ASSUME NEW p, IsBody(p), NEW k \in 1 .. Len(p), p[k].op = "for", NEW en, NEW h, Numbers(p, k, en),
         NEW m \in DOMAIN p[k].its
  PROVE  /\ StillIn(p, k, m, en, h)
              = IF Indexed(p, k)
                THEN [k |-> "list", list |-> en[Holder(p, k, m)], pos |-> en[IndexOf(p, k)]]
                ELSE [k |-> "range", next |-> en[Over(p[k])], stop |-> Eval(p[k].its[1].stop, en, h),
                      step |-> p[k].its[1].step]
         /\ NextIn(p, k, en, h)
              = [of |-> [j \in DOMAIN p[k].its |-> StillIn(p, k, j, en, h)], n |-> NumberOf(p, k, en)]
<1>1. StillIn(p, k, m, en, h)
        = IF Indexed(p, k)
          THEN [k |-> "list", list |-> en[Holder(p, k, m)], pos |-> en[IndexOf(p, k)]]
          ELSE [k |-> "range", next |-> en[Over(p[k])], stop |-> Eval(p[k].its[1].stop, en, h),
                step |-> p[k].its[1].step]
  <2>1. CASE Indexed(p, k)
    <3>1. en[IndexOf(p, k)] + 0 = en[IndexOf(p, k)]
      BY <2>1 DEF Numbers
    <3> QED BY <2>1, <3>1 DEF StillIn, WalkIn
  <2>2. CASE ~ Indexed(p, k)
    <3>1. en[Over(p[k])] + 0 = en[Over(p[k])]
      BY <2>2 DEF Numbers
    <3> QED BY <2>2, <3>1 DEF StillIn, WalkIn
  <2> QED BY <2>1, <2>2
<1>2. NextIn(p, k, en, h)
        = [of |-> [j \in DOMAIN p[k].its |-> StillIn(p, k, j, en, h)], n |-> NumberOf(p, k, en)]
  <2>1. p[k].how = "enumerate" => en[p[k].t[1]] + 0 = en[p[k].t[1]]
    BY DEF Numbers
  <2> QED BY <2>1 DEF NextIn, StillIn, LoopIn, NumberOf
<1> QED BY <1>1, <1>2

LEMMA TurnItersAre ==
  ASSUME NEW p, IsBody(p), NEW k \in 1 .. Len(p), p[k].op = "for", NEW en, NEW h, Numbers(p, k, en)
  PROVE  UnderIn(p, k, TRUE, TRUE, en, h) = TurnIters(p, k, en, h)
<1>1. \A m \in DOMAIN p[k].its : WalkIn(p, k, m, TRUE, en, h) = AdvanceOf(StillIn(p, k, m, en, h))
  <2> TAKE m \in DOMAIN p[k].its
  <2>1. CASE Indexed(p, k)
    <3>1. StillIn(p, k, m, en, h) = [k |-> "list", list |-> en[Holder(p, k, m)], pos |-> en[IndexOf(p, k)]]
      BY <2>1, StillIs
    <3>2. AdvanceOf(StillIn(p, k, m, en, h))
            = [k |-> "list", list |-> en[Holder(p, k, m)], pos |-> en[IndexOf(p, k)] + 1]
      BY <3>1 DEF AdvanceOf
    <3> QED BY <2>1, <3>2 DEF WalkIn
  <2>2. CASE ~ Indexed(p, k)
    <3>1. StillIn(p, k, m, en, h)
            = [k |-> "range", next |-> en[Over(p[k])], stop |-> Eval(p[k].its[1].stop, en, h),
               step |-> p[k].its[1].step]
      BY <2>2, StillIs
    <3>2. AdvanceOf(StillIn(p, k, m, en, h))
            = [k |-> "range", next |-> en[Over(p[k])] + p[k].its[1].step, stop |-> Eval(p[k].its[1].stop, en, h),
               step |-> p[k].its[1].step]
      BY <3>1 DEF AdvanceOf
    <3> QED BY <2>2, <3>2 DEF WalkIn
  <2> QED BY <2>1, <2>2
<1>2. UnderIn(p, k, TRUE, TRUE, en, h)
        = [of |-> [m \in DOMAIN p[k].its |-> WalkIn(p, k, m, TRUE, en, h)],
           n  |-> IF p[k].how = "enumerate" THEN en[p[k].t[1]] + 1 ELSE p[k].start]
  BY DEF UnderIn, LoopIn
<1> QED BY <1>1, <1>2 DEF TurnIters, NumberOf

LEMMA MoreIs ==
  ASSUME NEW p, IsBody(p), NEW k \in 1 .. Len(p), p[k].op = "for", NEW en, NEW h, Numbers(p, k, en)
  PROVE  Eval(Cond(p, k), en, h) <=> \A m \in DOMAIN p[k].its : MoreOf(StillIn(p, k, m, en, h), h)
<1>1. CASE Indexed(p, k)
  <2>1. \A m \in DOMAIN p[k].its :
          MoreOf(StillIn(p, k, m, en, h), h) <=> en[IndexOf(p, k)] < Len(h[en[Holder(p, k, m)]])
    <3> TAKE m \in DOMAIN p[k].its
    <3>1. StillIn(p, k, m, en, h) = [k |-> "list", list |-> en[Holder(p, k, m)], pos |-> en[IndexOf(p, k)]]
      BY <1>1, StillIs
    <3> QED BY <3>1 DEF MoreOf
  <2>2. \A x, y, e1, h1 : Comparison(Less(Var(x), Len_(y)), e1, h1) <=> e1[x] < Len(h1[e1[y]])
    BY DEF Comparison, Less, Var, Len_, Number, Atom
  <2>3. CASE p[k].how = "zip"
    <3>1. DOMAIN p[k].its = {1, 2}
      BY <2>3, WalkIs
    <3>2. Cond(p, k) = Both(Less(Var(IndexOf(p, k)), Len_(Holder(p, k, 1))), Less(Var(IndexOf(p, k)), Len_(Holder(p, k, 2))))
      BY <2>3 DEF Cond, Holder
    <3>3. \A a, b : Eval(Both(a, b), en, h) <=> Comparison(a, en, h) /\ Comparison(b, en, h)
      BY DEF Eval, Both, Comparisons
    <3> QED BY <2>1, <2>2, <3>1, <3>2, <3>3
  <2>4. CASE p[k].how # "zip"
    <3>1. DOMAIN p[k].its = {1} /\ ~ Ranged(p, k)
      BY <1>1, <2>4, WalkIs DEF Indexed
    <3>2. Cond(p, k) = Less(Var(IndexOf(p, k)), Len_(Holder(p, k, 1)))
      BY <2>4, <3>1 DEF Cond, Holder
    <3>3. \A a, b : Eval(Less(a, b), en, h) = Comparison(Less(a, b), en, h)
      BY DEF Eval, Less, Comparisons
    <3> QED BY <2>1, <2>2, <3>1, <3>2, <3>3
  <2> QED BY <2>3, <2>4
<1>2. CASE ~ Indexed(p, k)
  <2>1. DOMAIN p[k].its = {1} /\ Ranged(p, k) /\ p[k].how # "zip"
    BY <1>2, WalkIs DEF Indexed
  <2>2. StillIn(p, k, 1, en, h)
          = [k |-> "range", next |-> en[Over(p[k])], stop |-> Eval(p[k].its[1].stop, en, h),
             step |-> p[k].its[1].step]
    BY <1>2, <2>1, StillIs
  <2>3. MoreOf(StillIn(p, k, 1, en, h), h) <=> en[Over(p[k])] < Eval(p[k].its[1].stop, en, h)
    BY <2>2 DEF MoreOf
  <2>4. Cond(p, k) = Less(Var(Over(p[k])), p[k].its[1].stop)
    BY <2>1 DEF Cond
  <2>5. Eval(Cond(p, k), en, h) <=> en[Over(p[k])] < Number(p[k].its[1].stop, en, h)
    <3>1. \A a, b : Eval(Less(a, b), en, h) <=> Number(a, en, h) < Number(b, en, h)
      BY DEF Eval, Less, Comparisons, Comparison
    <3>2. \A x : Number(Var(x), en, h) = en[x]
      BY DEF Number, Var, Atom
    <3> QED BY <2>4, <3>1, <3>2
  <2>6. Eval(p[k].its[1].stop, en, h) = Number(p[k].its[1].stop, en, h)
    <3>1. IsNumber(p[k].its[1].stop, "int")
      BY <2>1, ForIs DEF IsIterable, Ranged
    <3> QED BY <3>1 DEF Eval, IsNumber, IsAtom, Comparisons
  <2> QED BY <2>1, <2>3, <2>5, <2>6
<1> QED BY <1>1, <1>2

(* Nothing is to be seen of a step that stays between two turns. *)
LEMMA SeenStill ==
  ASSUME NEW p, NEW k, NEW i, NEW en, NEW h, NEW at2, NEW en2, NEW h2,
         Step(p, k, i, en, h, at2, en2, h2), ~ (AtSingle(p, k, i) /\ p[k].op \in {"let", "result"}),
         NEW l, Between(p, <<k, i>>, l), Between(p, at2, l), \A g : ~ Own(p, k, i, g)
  PROVE  Goes(p, at2, en2, h2, l, EnvAt(p, <<k, i>>, en), ItersAt(p, <<k, i>>, en, h))
<1>1. IsBody(p) /\ Follows(p) /\ k \in 1 .. Len(p) /\ i \in 1 .. N(p, k)
  BY DEF Step, Ready
<1>2. /\ PlaceAt(p, <<k, i>>) = l /\ PlaceAt(p, at2) = l /\ A(p, k, i) = l
      /\ l \in 1 .. Len(p) /\ p[l].op = "for" /\ Going(p, <<k, i>>) = Surround(p, l) \cup {l}
  <2>1. PlaceAt(p, <<k, i>>) = A(p, k, i)
    BY <1>1, PlaceAtIs
  <2> QED BY <2>1 DEF Between, Going
<1>3. ShownIn(p, l, en2) = ShownIn(p, l, en)
  <2>1. Bound(p, l) \subseteq Bound(p, A(p, k, i))
    BY <1>2
  <2> QED BY <2>1, ShownKept
<1>4. Full(p, Surround(p, l), en2, h2) = Full(p, Surround(p, l), en, h)
  <2>1. Surround(p, l) \subseteq Going(p, <<k, i>>) /\ \A g \in Surround(p, l) : ~ Own(p, k, i, g)
    BY <1>2
  <2> QED BY ONLY <2>1, Step(p, k, i, en, h, at2, en2, h2), FullKept
<1>5. NextIn(p, l, en2, h2) = NextIn(p, l, en, h)
  <2>1. SameUnder(p, l, en, h, en2, h2)
    BY <1>2, StepKeeps
  <2>2. UnderIn(p, l, FALSE, FALSE, en2, h2) = UnderIn(p, l, FALSE, FALSE, en, h)
    BY <2>1 DEF SameUnder
  <2> QED BY <1>2, <2>2 DEF UnderIn, NextIn
<1>6. ItersAt(p, at2, en2, h2) = With(Full(p, Surround(p, l), en2, h2), l, NextIn(p, l, en2, h2))
  BY <1>1, ItersBetween
<1>7. ItersAt(p, <<k, i>>, en, h) = With(Full(p, Surround(p, l), en, h), l, NextIn(p, l, en, h))
  BY <1>1, ItersBetween
<1> QED BY <1>2, <1>3, <1>4, <1>5, <1>6, <1>7 DEF Goes, EnvAt

(* ... or in a turn that is over. *)
LEMMA SeenRest ==
  ASSUME NEW p, NEW k, NEW i, NEW en, NEW h, NEW at2, NEW en2, NEW h2,
         Step(p, k, i, en, h, at2, en2, h2), ~ (AtSingle(p, k, i) /\ p[k].op \in {"let", "result"}),
         NEW l \in 1 .. Len(p), Back(p, <<k, i>>, l), Back(p, at2, l), \A g : ~ Own(p, k, i, g)
  PROVE  Goes(p, at2, en2, h2, l, EnvAt(p, <<k, i>>, en), ItersAt(p, <<k, i>>, en, h))
<1> DEFINE S == Surround(p, l) \cup (IF p[l].op = "for" THEN {l} ELSE {})
<1>1. IsBody(p) /\ Follows(p) /\ k \in 1 .. Len(p) /\ i \in 1 .. N(p, k)
  BY DEF Step, Ready
<1>2. /\ PlaceAt(p, <<k, i>>) = l /\ PlaceAt(p, at2) = l /\ A(p, k, i) = l
      /\ Going(p, <<k, i>>) = S
  <2>1. PlaceAt(p, <<k, i>>) = A(p, k, i)
    BY <1>1, PlaceAtIs
  <2> QED BY <2>1 DEF Back, Within, Outside, Going
<1>3. ShownIn(p, l, en2) = ShownIn(p, l, en)
  <2>1. Bound(p, l) \subseteq Bound(p, A(p, k, i))
    BY <1>2
  <2> QED BY <2>1, ShownKept
<1>4. Full(p, S, en2, h2) = Full(p, S, en, h)
  <2>1. S \subseteq Going(p, <<k, i>>) /\ \A g \in S : ~ Own(p, k, i, g)
    BY <1>2
  <2> HIDE DEF S
  <2> QED BY ONLY <2>1, Step(p, k, i, en, h, at2, en2, h2), FullKept
<1>5. ItersAt(p, at2, en2, h2) = Full(p, S, en2, h2)
  BY <1>1, ItersBack
<1>6. ItersAt(p, <<k, i>>, en, h) = Full(p, S, en, h)
  BY <1>1, ItersBack
<1> HIDE DEF S
<1> QED BY <1>2, <1>3, <1>4, <1>5, <1>6 DEF Goes, EnvAt

(* No elements are left. *)
LEMMA SeenExhausted ==
  ASSUME NEW p, NEW k, NEW i, NEW en, NEW h, NEW at2, NEW en2, NEW h2,
         Step(p, k, i, en, h, at2, en2, h2), p[k].op = "for", i = W(p, k), ~ Eval(Cond(p, k), en, h)
  PROVE  /\ Goes(p, at2, en2, h2, End(p, k) + 1, EnvAt(p, <<k, i>>, en), Without(ItersAt(p, <<k, i>>, en, h), {k}))
         /\ Between(p, <<k, i>>, k)
<1>1. IsBody(p) /\ k \in 1 .. Len(p) /\ i \in 1 .. N(p, k)
  BY DEF Step, Ready
<1>2. W(p, k) \in 2 .. 4 /\ H(p, k) >= W(p, k) /\ H(p, k) \in 2 .. 6 /\ i \in 1 .. H(p, k)
  BY <1>1, WalkIs
<1>3. HeadMoves(p, k, i)
  BY <1>1, <1>2, HeadArrives
<1>4. AtWhile(p, k, i)
  BY <1>1, LoopIs DEF IsLoop
<1>5. Quiet(en, h, en2, h2) /\ at2 = <<End(p, k) + 1, 1>>
  BY <1>4, WhileGoes
<1>6. /\ AtLoop(p, <<k, i>>, k, FALSE, FALSE) /\ Outside(p, at2, End(p, k) + 1)
      /\ k \notin Surround(p, k) /\ Surround(p, End(p, k) + 1) = Surround(p, k)
  <2>1. i >= W(p, k)
    BY <1>2
  <2>2. /\ i >= W(p, k) => AtLoop(p, <<k, i>>, k, FALSE, FALSE)
        /\ Outside(p, <<End(p, k) + 1, 1>>, End(p, k) + 1)
        /\ k \notin Surround(p, k) /\ Surround(p, End(p, k) + 1) = Surround(p, k)
    BY ONLY <1>3 DEF HeadMoves
  <2> QED BY <1>5, <2>1, <2>2
<1>7. Between(p, <<k, i>>, k)
  BY <1>6, AtLoopIs
<1>8. Bound(p, End(p, k) + 1) = Bound(p, k)
  BY <1>6, SurroundsBound
<1>9. ItersAt(p, at2, en2, h2) = Full(p, Surround(p, k), en, h)
  BY <1>1, <1>5, <1>6, ItersOut DEF Quiet
<1>10. ItersAt(p, <<k, i>>, en, h) = With(Full(p, Surround(p, k), en, h), k, NextIn(p, k, en, h))
  BY <1>1, <1>7, ItersBetween
<1>11. Without(With(Full(p, Surround(p, k), en, h), k, NextIn(p, k, en, h)), {k}) = Full(p, Surround(p, k), en, h)
  <2> DEFINE f == Full(p, Surround(p, k), en, h)
             u == NextIn(p, k, en, h)
  <2>1. f = [g \in Surround(p, k) |-> f[g]]
    BY DEF Full
  <2> HIDE DEF f, u
  <2>2. Without(With(f, k, u), {k}) = f
    BY <1>6, <2>1 DEF With, Without
  <2> QED BY <2>2 DEF f, u
<1>12. PlaceAt(p, <<k, i>>) = k /\ PlaceAt(p, at2) = End(p, k) + 1
  BY <1>6, <1>7 DEF Between, Outside
<1>13. EnvAt(p, at2, en2) = EnvAt(p, <<k, i>>, en)
  BY <1>5, <1>8, <1>12 DEF EnvAt, ShownIn, Quiet
<1> QED BY <1>7, <1>9, <1>10, <1>11, <1>12, <1>13 DEF Goes

ElementIn(p, k, m, en, h) == ElementOf(StillIn(p, k, m, en, h), h)

TakenIn(p, k, e, en, h) ==
  LET t     == p[k].t
      el(m) == ElementIn(p, k, m, en, h)
  IN  IF p[k].how = "enumerate" THEN With(With(e, t[1], NumberOf(p, k, en)), t[2], el(1))
      ELSE IF p[k].how = "zip" THEN With(With(e, t[1], el(1)), t[2], el(2))
      ELSE With(e, t[1], el(1))

LEMMA Elements ==
  ASSUME NEW p, IsBody(p), NEW k \in 1 .. Len(p), p[k].op = "for", NEW en, NEW h, Numbers(p, k, en),
         NEW m \in DOMAIN p[k].its
  PROVE  ElementIn(p, k, m, en, h)
           = IF Indexed(p, k) THEN h[en[Holder(p, k, m)]][en[IndexOf(p, k)] + 1] ELSE en[Over(p[k])]
<1>1. StillIn(p, k, m, en, h)
        = IF Indexed(p, k)
          THEN [k |-> "list", list |-> en[Holder(p, k, m)], pos |-> en[IndexOf(p, k)]]
          ELSE [k |-> "range", next |-> en[Over(p[k])], stop |-> Eval(p[k].its[1].stop, en, h),
                step |-> p[k].its[1].step]
  BY StillIs
<1> QED BY <1>1 DEF ElementIn, ElementOf

(* What the last instruction of a head leaves in the targets. *)
LEMMA TurnTargets ==
  ASSUME NEW p, NEW k, NEW i, NEW en, NEW h, NEW at2, NEW en2, NEW h2,
         Step(p, k, i, en, h, at2, en2, h2), p[k].op = "for", i = H(p, k),
         i = W(p, k) => Eval(Cond(p, k), en, h)
  PROVE  LET t == p[k].t
         IN  /\ at2 = Onward(p, k, i)
             /\ p[k].how = "enumerate" =>
                  en2[t[1]] = NumberOf(p, k, en) /\ en2[t[2]] = ElementIn(p, k, 1, en, h)
             /\ p[k].how = "zip" =>
                  en2[t[1]] = ElementIn(p, k, 1, en, h) /\ en2[t[2]] = ElementIn(p, k, 2, en, h)
             /\ p[k].how \notin {"enumerate", "zip"} => en2[t[1]] = ElementIn(p, k, 1, en, h)
<1> DEFINE t == p[k].t
<1>1. /\ IsBody(p) /\ Follows(p) /\ k \in 1 .. Len(p) /\ i \in 1 .. N(p, k) /\ Ready(p, k, i, en, h)
      /\ Known(p, k, i) \subseteq DOMAIN en
  BY DEF Step, Ready
<1>2. W(p, k) \in 2 .. 4 /\ H(p, k) >= W(p, k) /\ H(p, k) \in 2 .. 6 /\ i >= W(p, k)
  BY <1>1, WalkIs
<1>3. Numbers(p, k, en)
  BY <1>1, <1>2, NumbersAre
<1>4. \A m \in DOMAIN p[k].its : ElementIn(p, k, m, en, h)
        = IF Indexed(p, k) THEN h[en[Holder(p, k, m)]][en[IndexOf(p, k)] + 1] ELSE en[Over(p[k])]
  BY <1>1, <1>3, Elements
<1>5. CASE ~ Indexed(p, k)
  <2>1. i = W(p, k) /\ DOMAIN p[k].its = {1} /\ p[k].how # "zip"
    BY <1>1, <1>5, WalkIs
  <2>2. AtWhile(p, k, i)
    BY <1>1, <2>1, LoopIs DEF IsLoop
  <2>3. Quiet(en, h, en2, h2) /\ at2 = Onward(p, k, i)
    BY <2>1, <2>2, WhileGoes
  <2>4. ElementIn(p, k, 1, en, h) = en[Over(p[k])]
    BY <1>4, <1>5, <2>1
  <2> QED BY <2>1, <2>3, <2>4 DEF Quiet, Over, NumberOf
<1>6. CASE Indexed(p, k)
  <2>1. i # W(p, k) /\ i = W(p, k) + Len(p[k].its) /\ Len(p[k].its) \in {1, 2}
    <3>1. H(p, k) = W(p, k) + Len(p[k].its) /\ Len(p[k].its) \in {1, 2}
      BY <1>1, <1>6, WalkIs
    <3> QED BY <1>2, <3>1
  <2>2. at2 = Onward(p, k, i) /\ \E m \in DOMAIN p[k].its :
          AtLoad(p, k, i, m) /\ Put(IF p[k].how = "zip" THEN t[m] ELSE Over(p[k]),
                                    h[en[Holder(p, k, m)]][en[IndexOf(p, k)] + 1], en, h, en2, h2)
    <3>1. ~ AtCount(p, k, i) /\ ~ AtCounter(p, k, i) /\ ~ AtIndex(p, k, i) /\ \A m : ~ AtList(p, k, i, m)
      BY <1>2 DEF AtCount, AtCounter, AtIndex, AtList
    <3>2. i <= H(p, k)
      BY <1>2
    <3> QED BY <2>1, <3>1, <3>2, HeadGoes
  <2>3. PICK m \in DOMAIN p[k].its :
          AtLoad(p, k, i, m) /\ Put(IF p[k].how = "zip" THEN t[m] ELSE Over(p[k]),
                                    h[en[Holder(p, k, m)]][en[IndexOf(p, k)] + 1], en, h, en2, h2)
    BY <2>2
  <2>4. i = W(p, k) + m
    BY <2>3 DEF AtLoad
  <2>5. DOMAIN p[k].its = {1, 2} \/ DOMAIN p[k].its = {1}
    BY <1>1, WalkIs
  <2>6. m = Len(p[k].its)
    BY <1>2, <2>1, <2>4, <2>5
  <2>7. CASE p[k].how = "zip"
    <3>1. Len(p[k].its) = 2 /\ DOMAIN p[k].its = {1, 2} /\ i = W(p, k) + 2
      BY <1>1, <2>4, <2>6, <2>7, WalkIs
    <3>2. en2 = With(en, t[2], ElementIn(p, k, 2, en, h))
      BY <1>4, <1>6, <2>3, <2>6, <2>7, <3>1 DEF Put
    <3>3. t[1] # t[2]
      BY <1>1, <2>7 DEF Follows, TargetsApart, IsBody
    <3>4. en[t[1]] = ElementIn(p, k, 1, en, h)
      <4>1. Loading(p, <<k, i>>, en, h)
        BY <1>1 DEF Ready
      <4> DEFINE at == <<k, i>>
      <4>2. at[1] = k /\ at[2] = i
        OBVIOUS
      <4> HIDE DEF at
      <4>3. en[t[1]] = h[en[Holder(p, k, 1)]][en[IndexOf(p, k)] + 1]
        <5>1. Loading(p, at, en, h)
          BY <4>1 DEF at
        <5>2. at[2] > W(p, k) /\ at[2] <= H(p, k) /\ at[2] = W(p, k) + 2
          BY <1>2, <3>1, <4>2
        <5> QED BY <1>1, <1>6, <4>2, <5>1, <5>2 DEF Loading
      <4> QED BY <1>4, <1>6, <3>1, <4>3
    <3>5. t[1] \in DOMAIN en
      <4>1. AtLoad(p, k, W(p, k) + 1, 1)
        <5>1. W(p, k) + 1 \in 1 .. N(p, k)
          BY <1>1, <1>2, <3>1, NIs
        <5>2. OfHead(p, k, W(p, k) + 1)
          BY <1>1, <5>1, HeadPlaces
        <5>3. W(p, k) + 1 # H(p, k) + 1 /\ \A n \in {1, 2} : W(p, k) + 1 = W(p, k) + n => n = 1
          BY <1>2, <3>1
        <5> QED BY <1>2, <5>2, <5>3
                DEF OfHead, AtWhile, AtCount, AtCounter, AtIndex, AtReload, AtList, AtLoad
      <4>2. D(p, k, W(p, k) + 1).x = t[1]
        <5>1. D(p, k, W(p, k) + 1) = Load(t[1], Holder(p, k, 1), IndexOf(p, k))
          BY <2>7, <4>1 DEF AtLoad
        <5> QED BY <5>1 DEF Load
      <4>3. W(p, k) + 1 \in (1 .. i - 1) \ {W(p, k)}
        BY <1>2, <3>1
      <4>4. t[1] \in MadeHere(p, k, i)
        BY <4>2, <4>3 DEF MadeHere
      <4> QED BY <1>1, <4>4 DEF Known
    <3>6. en2[t[1]] = en[t[1]] /\ en2[t[2]] = ElementIn(p, k, 2, en, h)
      BY <3>2, <3>3, <3>5 DEF With
    <3> QED BY <2>2, <2>7, <3>4, <3>6
  <2>8. CASE p[k].how # "zip"
    <3>1. m = 1
      BY <1>1, <2>6, <2>8, WalkIs
    <3>2. en2 = With(en, Over(p[k]), ElementIn(p, k, 1, en, h))
      BY <1>4, <1>6, <2>3, <2>8, <3>1 DEF Put
    <3>3. CASE p[k].how = "enumerate"
      <4>1. Over(p[k]) = t[2] /\ t[1] # t[2]
        BY <1>1, <3>3 DEF Follows, TargetsApart, IsBody, Over
      <4>2. t[1] \in DOMAIN en
        <5>1. ReadsOf(p, k) \subseteq DOMAIN en
          BY <1>1, <1>2, LoopKnown
        <5> QED BY <3>3, <5>1 DEF ReadsOf
      <4>3. en2[t[1]] = en[t[1]] /\ en2[t[2]] = ElementIn(p, k, 1, en, h)
        BY <3>2, <4>1, <4>2 DEF With
      <4> QED BY <2>2, <3>3, <4>3 DEF NumberOf
    <3>4. CASE p[k].how # "enumerate"
      <4>1. Over(p[k]) = t[1]
        BY <3>4 DEF Over
      <4>2. en2[t[1]] = ElementIn(p, k, 1, en, h)
        BY <3>2, <4>1 DEF With
      <4> QED BY <2>2, <2>8, <3>4, <4>2
    <3> QED BY <3>3, <3>4
  <2> QED BY <2>7, <2>8
<1> QED BY <1>5, <1>6

(* The elements are taken. *)
LEMMA SeenTurn ==
  ASSUME NEW p, NEW k, NEW i, NEW en, NEW h, NEW at2, NEW en2, NEW h2,
         Step(p, k, i, en, h, at2, en2, h2), p[k].op = "for", i = H(p, k),
         i = W(p, k) => Eval(Cond(p, k), en, h)
  PROVE  LET it == ItersAt(p, <<k, i>>, en, h)
         IN  /\ Between(p, <<k, i>>, k)
             /\ Goes(p, at2, en2, h2, k + 1, TakenIn(p, k, EnvAt(p, <<k, i>>, en), en, h),
                     With(it, k, TurnIters(p, k, en, h)))
<1>1. /\ IsBody(p) /\ Follows(p) /\ k \in 1 .. Len(p) /\ i \in 1 .. N(p, k) /\ Ready(p, k, i, en, h)
      /\ Known(p, k, i) \subseteq DOMAIN en
  BY DEF Step, Ready
<1>2. /\ W(p, k) \in 2 .. 4 /\ H(p, k) >= W(p, k) /\ H(p, k) \in 2 .. 6 /\ i >= W(p, k)
      /\ i \in 1 .. H(p, k)
  BY <1>1, WalkIs
<1>3. HeadMoves(p, k, i)
  BY <1>1, <1>2, HeadArrives
<1>4. at2 = Onward(p, k, i)
  BY TurnTargets
<1>5. /\ AtLoop(p, <<k, i>>, k, FALSE, FALSE) /\ Outside(p, at2, k + 1)
      /\ k \notin Surround(p, k) /\ Surround(p, k + 1) = Surround(p, k) \cup {k}
  <2>1. /\ i >= W(p, k) => AtLoop(p, <<k, i>>, k, FALSE, FALSE)
        /\ i = H(p, k) => Outside(p, Onward(p, k, i), k + 1)
        /\ k \notin Surround(p, k) /\ Surround(p, k + 1) = Surround(p, k) \cup {k}
    BY ONLY <1>3 DEF HeadMoves
  <2> QED BY <1>2, <1>4, <2>1
<1>6. Between(p, <<k, i>>, k)
  BY <1>5, AtLoopIs
<1>7. PlaceAt(p, <<k, i>>) = k /\ PlaceAt(p, at2) = k + 1 /\ A(p, k, i) = k
  <2>1. PlaceAt(p, <<k, i>>) = A(p, k, i)
    BY <1>1, PlaceAtIs
  <2> QED BY <1>5, <1>6, <2>1 DEF Between, Outside
<1>8. Bound(p, k + 1) = Bound(p, k) \cup Targets(p, k)
  BY <1>5, SurroundsBound
<1>9. ItersAt(p, at2, en2, h2) = With(ItersAt(p, <<k, i>>, en, h), k, TurnIters(p, k, en, h))
  <2> DEFINE S == Surround(p, k)
  <2>1. Going(p, <<k, i>>) = S \cup {k}
    BY <1>6, <1>7 DEF Going, Between
  <2>2. \A l : ~ Own(p, k, i, l)
    BY NoneOwn
  <2>3. Full(p, S \cup {k}, en2, h2) = Full(p, S \cup {k}, en, h)
    <3>1. S \cup {k} \subseteq Going(p, <<k, i>>)
      BY <2>1
    <3> QED BY <2>2, <3>1, FullKept
  <2>4. ItersAt(p, at2, en2, h2) = Full(p, S \cup {k}, en2, h2)
    <3>1. ItersAt(p, at2, en2, h2) = Full(p, Surround(p, k + 1), en2, h2)
      BY <1>1, <1>5, ItersOut
    <3> QED BY <1>5, <3>1
  <2>5. ItersAt(p, <<k, i>>, en, h) = With(Full(p, S, en, h), k, NextIn(p, k, en, h))
    BY <1>1, <1>6, ItersBetween
  <2>6. UnderIn(p, k, TRUE, TRUE, en, h) = TurnIters(p, k, en, h)
    <3>1. Numbers(p, k, en)
      BY <1>1, <1>2, NumbersAre
    <3> QED BY <1>1, <3>1, TurnItersAre
  <2>7. Full(p, S \cup {k}, en, h) = [l \in S \cup {k} |-> UnderIn(p, l, TRUE, TRUE, en, h)]
        /\ Full(p, S, en, h) = [l \in S |-> UnderIn(p, l, TRUE, TRUE, en, h)]
    BY DEF Full
  <2> DEFINE f(l) == UnderIn(p, l, TRUE, TRUE, en, h)
             n == NextIn(p, k, en, h)
  <2> HIDE DEF S, f, n
  <2>8. With(With([l \in S |-> f(l)], k, n), k, f(k)) = [l \in S \cup {k} |-> f(l)]
    BY DEF With
  <2> QED BY <2>3, <2>4, <2>5, <2>6, <2>7, <2>8 DEF f, n
<1>10. ShownIn(p, k + 1, en2) = TakenIn(p, k, ShownIn(p, k, en), en, h)
  <2> DEFINE t == p[k].t
             e1 == ElementIn(p, k, 1, en, h)
             e2 == ElementIn(p, k, 2, en, h)
             nr == NumberOf(p, k, en)
             b == Bound(p, k)
  <2>1. \A x \in b : en2[x] = en[x]
    <3> TAKE x \in b
    <3>1. x \in Bound(p, A(p, k, i)) /\ ~ (AtSingle(p, k, i) /\ p[k].op \in {"let", "result"} /\ x = p[k].x)
      BY <1>7
    <3> QED BY <3>1, BoundKept
  <2>2. Targets(p, k) = (IF p[k].how \in {"enumerate", "zip"} THEN {t[1], t[2]} ELSE {t[1]})
    BY <1>1, ForIs
  <2>3. Targets(p, k) \cap b = {} /\ (p[k].how \in {"enumerate", "zip"} => t[1] # t[2])
    BY <1>1 DEF Follows, TargetsApart, IsBody
  <2>4. /\ p[k].how = "enumerate" => en2[t[1]] = nr /\ en2[t[2]] = e1
        /\ p[k].how = "zip" => en2[t[1]] = e1 /\ en2[t[2]] = e2
        /\ p[k].how \notin {"enumerate", "zip"} => en2[t[1]] = e1
    BY TurnTargets
  <2>5. TakenIn(p, k, ShownIn(p, k, en), en, h)
          = IF p[k].how = "enumerate" THEN With(With(ShownIn(p, k, en), t[1], nr), t[2], e1)
            ELSE IF p[k].how = "zip" THEN With(With(ShownIn(p, k, en), t[1], e1), t[2], e2)
            ELSE With(ShownIn(p, k, en), t[1], e1)
    BY DEF TakenIn
  <2>6. ShownIn(p, k, en) = [x \in b |-> en[x]]
        /\ ShownIn(p, k + 1, en2) = [x \in b \cup Targets(p, k) |-> en2[x]]
    BY <1>8 DEF ShownIn
  <2> HIDE DEF e1, e2, nr, b, t
  <2>7. CASE p[k].how = "enumerate"
    <3>1. With(With([x \in b |-> en[x]], t[1], nr), t[2], e1) = [x \in b \cup {t[1], t[2]} |-> en2[x]]
      BY <2>1, <2>2, <2>3, <2>4, <2>7 DEF With
    <3> QED BY <2>2, <2>5, <2>6, <2>7, <3>1
  <2>8. CASE p[k].how = "zip"
    <3>1. With(With([x \in b |-> en[x]], t[1], e1), t[2], e2) = [x \in b \cup {t[1], t[2]} |-> en2[x]]
      BY <2>1, <2>2, <2>3, <2>4, <2>8 DEF With
    <3> QED BY <2>2, <2>5, <2>6, <2>8, <3>1
  <2>9. CASE p[k].how \notin {"enumerate", "zip"}
    <3>1. With([x \in b |-> en[x]], t[1], e1) = [x \in b \cup {t[1]} |-> en2[x]]
      BY <2>1, <2>2, <2>3, <2>4, <2>9 DEF With
    <3> QED BY <2>2, <2>5, <2>6, <2>9, <3>1
  <2> QED BY <2>7, <2>8, <2>9
<1> QED BY <1>6, <1>7, <1>9, <1>10 DEF Goes, EnvAt

-----------------------------------------------------------------------------
(* A yield. *)

(* Whoever stores to its accumulator changes it alone. *)
LEMMA FullGains ==
  ASSUME NEW p, NEW k, NEW i, NEW en, NEW h, NEW at2, NEW en2, NEW h2,
         Step(p, k, i, en, h, at2, en2, h2), Settles(p, k, i),
         NEW S, S \subseteq Going(p, <<k, i>>), Whole(p, k) \in S
  PROVE  LET g == Whole(p, k)
         IN  Full(p, S, en2, h2) = With(Full(p, S, en, h), g, GatherIn(p, g, en2, h2))
<1> DEFINE g == Whole(p, k)
<1>1. IsBody(p) /\ k \in 1 .. Len(p) /\ i \in 1 .. N(p, k)
  BY DEF Step, Ready
<1>2. p[g].op = "gather" /\ p[k].op = "yield" /\ A(p, k, i) = k
  BY <1>1, SettlesIs
<1>3. ~ Steps(p, k, i)
  <2> SUFFICES ASSUME Steps(p, k, i) PROVE FALSE
    OBVIOUS
  <2>1. Behind(p, k, i) /\ k = End(p, p[k].of) /\ p[k].of \in 1 .. Len(p) /\ p[p[k].of].op = "for"
    BY <1>1, StepsBehind
  <2>2. p[k].of < k
    BY <1>1, <2>1, PlaceAtIs
  <2> QED BY <1>1, <1>2, <2>1, <2>2 DEF Behind
<1>4. \A l \in S : l # g => ~ Own(p, k, i, l)
  BY <1>3 DEF Own
<1>5. \A l \in S : l # g => UnderIn(p, l, TRUE, TRUE, en2, h2) = UnderIn(p, l, TRUE, TRUE, en, h)
  <2> TAKE l \in S
  <2> HAVE l # g
  <2>1. SameUnder(p, l, en, h, en2, h2)
    BY <1>4, StepKeeps
  <2> QED BY <2>1 DEF SameUnder
<1>6. UnderIn(p, g, TRUE, TRUE, en2, h2) = GatherIn(p, g, en2, h2)
  BY <1>2 DEF UnderIn
<1> DEFINE u(l) == UnderIn(p, l, TRUE, TRUE, en, h)
           w(l) == UnderIn(p, l, TRUE, TRUE, en2, h2)
<1>7. Full(p, S, en, h) = [l \in S |-> u(l)] /\ Full(p, S, en2, h2) = [l \in S |-> w(l)]
  BY DEF Full
<1>8. \A l \in S : l # g => w(l) = u(l)
  BY <1>5
<1>9. w(g) = GatherIn(p, g, en2, h2)
  BY <1>6
<1> HIDE DEF u, w, g
<1>10. [l \in S |-> w(l)] = With([l \in S |-> u(l)], g, w(g))
  BY <1>8 DEF With, g
<1> QED BY <1>7, <1>9, <1>10 DEF g

(* Where a yield is. *)
LEMMA YieldSees ==
  ASSUME NEW p, NEW k, NEW i, NEW en, NEW h, Ready(p, k, i, en, h), p[k].op = "yield", A(p, k, i) = k
  PROVE  LET l  == p[k].of
             g  == Whole(p, k)
             it == ItersAt(p, <<k, i>>, en, h)
         IN  /\ Outside(p, <<k, i>>, k) /\ g \in Surround(p, k) /\ l # g
             /\ Going(p, <<k, i>>) = Surround(p, k)
             /\ it = Full(p, Surround(p, k), en, h) /\ it[g] = GatherIn(p, g, en, h)
<1>1. IsBody(p) /\ k \in 1 .. Len(p) /\ i \in 1 .. N(p, k)
  BY DEF Ready
<1>2. Outside(p, <<k, i>>, k)
  BY <1>1, AtOdd
<1>3. Whole(p, k) \in Surround(p, k) /\ p[Whole(p, k)].op = "gather" /\ p[k].of # Whole(p, k)
  BY <1>1, YieldAround
<1>4. ItersAt(p, <<k, i>>, en, h) = Full(p, Surround(p, k), en, h)
  BY <1>1, <1>2, ItersOut
<1>5. Full(p, Surround(p, k), en, h)[Whole(p, k)] = GatherIn(p, Whole(p, k), en, h)
  BY <1>3 DEF Full, UnderIn
<1>6. Going(p, <<k, i>>) = Surround(p, k)
  BY <1>2, GoingOutside
<1> QED BY <1>2, <1>3, <1>4, <1>5, <1>6

(* What a yield leaves of the bindings: the targets of its loop go. *)
LEMMA YieldForgets ==
  ASSUME NEW p, NEW k, NEW i, NEW en, NEW h, NEW at2, NEW en2, NEW h2,
         Step(p, k, i, en, h, at2, en2, h2), p[k].op = "yield", A(p, k, i) = k,
         NEW b, b = p[k].of \/ b = k + 1
  PROVE  ShownIn(p, b, en2) = Without(ShownIn(p, k, en), Targets(p, p[k].of))
<1>1. IsBody(p) /\ Follows(p) /\ k \in 1 .. Len(p) /\ i \in 1 .. N(p, k)
  BY DEF Step, Ready
<1> DEFINE l == p[k].of
<1>2. /\ l \in 1 .. Len(p) /\ p[l].op = "for" /\ Surround(p, k) = Surround(p, l) \cup {l}
      /\ Surround(p, k + 1) = Surround(p, l)
  BY <1>1, YieldAround
<1>3. Bound(p, b) = Bound(p, k) \ Targets(p, l) /\ Bound(p, b) \subseteq Bound(p, k)
  <2>1. p[l].op = "for" => Surround(p, k) = Surround(p, b) \cup {l} /\ Surround(p, b) = Surround(p, l)
    BY <1>2
  <2>2. p[l].op # "for" => Surround(p, k) = Surround(p, b)
    BY <1>2
  <2>3. l \in 1 .. Len(p)
    BY <1>2
  <2> QED BY ONLY <1>1, <2>1, <2>2, <2>3, BoundLess
<1>4. ShownIn(p, b, en2) = ShownIn(p, b, en)
  <2>1. ~ (AtSingle(p, k, i) /\ p[k].op \in {"let", "result"}) /\ Bound(p, b) \subseteq Bound(p, A(p, k, i))
    BY <1>3
  <2> QED BY <2>1, ShownKept
<1> QED BY <1>3, <1>4, ShownLess

LEMMA OldAtGain ==
  ASSUME NEW p, NEW k, NEW en, NEW h, Ready(p, k, 1, en, h), p[k].op = "yield", Grows(p, Whole(p, k))
  PROVE  en[Old(p, Whole(p, k))] = en[Acc(p, Whole(p, k))]
<1> DEFINE l == p[k].of
           at == <<k, 1>>
<1>1. IsBody(p) /\ k \in 1 .. Len(p) /\ OldIsNew(p, at, en)
  BY DEF Ready
<1>2. l \in 1 .. Len(p) /\ Each(p[l]) /\ k = End(p, l) /\ p[l].op \in Opens /\ Whole(p, k) = p[l].of
  BY <1>1, YieldAround DEF Opens, Whole
<1>3. l \in Around(p, k) /\ k \in l + 1 .. Len(p)
  <2>1. Around(p, End(p, l)) = Around(p, l) \cup {l}
    BY <1>1, <1>2, AfterEnd
  <2>2. End(p, l) \in l + 1 .. Len(p)
    BY <1>1, <1>2, EndIs
  <2> QED BY <1>2, <2>1, <2>2
<1>4. Filtered(p, l) => k >= l + 2
  <2> SUFFICES ASSUME Filtered(p, l) PROVE k >= l + 2
    OBVIOUS
  <2>1. p[l + 1].op = "filter"
    BY DEF Filtered
  <2>2. k # l + 1
    BY <2>1
  <2> QED BY <1>2, <1>3, <2>2
<1>5. Fresh(p, l, k, 1)
  BY <1>2, <1>4 DEF Fresh
<1>6. at[1] = k /\ at[2] = 1
  OBVIOUS
<1> HIDE DEF at
<1>7. en[Old(p, p[l].of)] = en[Acc(p, p[l].of)]
  BY <1>1, <1>3, <1>5, <1>6 DEF OldIsNew
<1> QED BY <1>2, <1>7

More_(how, acc, v) == IF how = "sum" THEN acc + v ELSE Append(acc, v)

LEMMA GainedIs ==
  ASSUME NEW p, NEW k, NEW i, NEW en, NEW h, NEW at2, NEW en2, NEW h2,
         Step(p, k, i, en, h, at2, en2, h2), AtGain(p, k, i)
  PROVE  LET g == Whole(p, k)
         IN  GatherIn(p, g, en2, h2)
               = [of |-> <<>>, acc |-> More_(p[g].how, GatherIn(p, g, en, h).acc, Eval(p[k].e, en, h))]
<1> DEFINE g == Whole(p, k)
           v == Eval(p[k].e, en, h)
<1>1. /\ IsBody(p) /\ k \in 1 .. Len(p) /\ Ready(p, k, i, en, h) /\ Fine(en, h)
  BY DEF Step, Ready
<1>2. p[k].op = "yield" /\ Grows(p, g) /\ i = 1 /\ OfGain(p, k, i)
  BY DEF AtGain, OfGain
<1>3. en[Old(p, g)] = en[Acc(p, g)]
  BY <1>1, <1>2, OldAtGain
<1>4. CASE p[g].how = "sum"
  <2>1. Put(Acc(p, g), en[Old(p, g)] + v, en, h, en2, h2)
    BY <1>2, <1>4, GainGoes
  <2>2. en2[Acc(p, g)] = en[Acc(p, g)] + v
    BY <1>3, <2>1 DEF Put, With
  <2> QED BY <1>4, <2>2 DEF GatherIn, More_
<1>5. CASE p[g].how = "list"
  <2>1. en2 = With(en, Acc(p, g), Len(h) + 1) /\ h2 = Append(h, Append(h[en[Old(p, g)]], v))
    BY <1>2, <1>5, GainGoes
  <2>2. en2[Acc(p, g)] = Len(h) + 1
    BY <2>1 DEF With
  <2>3. h2[Len(h) + 1] = Append(h[en[Acc(p, g)]], v)
    BY <1>1, <1>3, <2>1 DEF Fine
  <2> QED BY <1>5, <2>2, <2>3 DEF GatherIn, More_
<1> QED BY <1>2, <1>4, <1>5 DEF Grows

(* sum and list take what their element yields. *)
LEMMA SeenGain ==
  ASSUME NEW p, NEW k, NEW i, NEW en, NEW h, NEW at2, NEW en2, NEW h2,
         Step(p, k, i, en, h, at2, en2, h2), AtGain(p, k, i)
  PROVE  LET l  == p[k].of
             g  == Whole(p, k)
             it == ItersAt(p, <<k, i>>, en, h)
         IN  Goes(p, at2, en2, h2, l, Without(EnvAt(p, <<k, i>>, en), Targets(p, l)),
                  With(it, g, [of |-> <<>>, acc |-> More_(p[g].how, it[g].acc, Eval(p[k].e, en, h))]))
<1> DEFINE l  == p[k].of
           g  == Whole(p, k)
           it == ItersAt(p, <<k, i>>, en, h)
<1>1. /\ IsBody(p) /\ k \in 1 .. Len(p) /\ Ready(p, k, i, en, h)
      /\ p[k].op = "yield" /\ A(p, k, i) = k /\ OfGain(p, k, i) /\ Settles(p, k, i)
  BY DEF Step, Ready, AtGain, OfGain, Settles
<1>2. /\ Outside(p, <<k, i>>, k) /\ g \in Surround(p, k) /\ Going(p, <<k, i>>) = Surround(p, k)
      /\ it = Full(p, Surround(p, k), en, h) /\ it[g] = GatherIn(p, g, en, h)
  BY <1>1, YieldSees
<1>3. AtLoop(p, at2, l, TRUE, TRUE)
  BY <1>1, GainArrives
<1>4. Within(p, at2, l)
  BY <1>3, AtLoopIs
<1>5. Surround(p, k) = Surround(p, l) \cup {l}
  BY <1>1, YieldAround
<1>6. ItersAt(p, at2, en2, h2) = Full(p, Surround(p, k), en2, h2)
  <2>1. ItersAt(p, at2, en2, h2) = Full(p, Surround(p, l) \cup {l}, en2, h2)
    BY <1>1, <1>4, ItersWithin
  <2> QED BY <1>5, <2>1
<1>7. Full(p, Surround(p, k), en2, h2) = With(it, g, GatherIn(p, g, en2, h2))
  <2>1. Surround(p, k) \subseteq Going(p, <<k, i>>)
    BY <1>2
  <2>2. Full(p, Surround(p, k), en2, h2)
          = With(Full(p, Surround(p, k), en, h), g, GatherIn(p, g, en2, h2))
    BY <1>1, <1>2, <2>1, FullGains
  <2> QED BY <1>2, <2>2
<1>8. GatherIn(p, g, en2, h2)
        = [of |-> <<>>, acc |-> More_(p[g].how, it[g].acc, Eval(p[k].e, en, h))]
  BY <1>2, GainedIs
<1>9. ShownIn(p, l, en2) = Without(ShownIn(p, k, en), Targets(p, l))
  BY <1>1, YieldForgets
<1>10. PlaceAt(p, <<k, i>>) = k /\ PlaceAt(p, at2) = l
  BY <1>2, <1>4 DEF Outside, Within
<1> QED BY <1>6, <1>7, <1>8, <1>9, <1>10 DEF Goes, EnvAt

(* any and all, where they have found out ... *)
LEMMA SeenKnown ==
  ASSUME NEW p, NEW k, NEW i, NEW en, NEW h, NEW at2, NEW en2, NEW h2,
         Step(p, k, i, en, h, at2, en2, h2), AtKnown(p, k, i)
  PROVE  LET l  == p[k].of
             g  == Whole(p, k)
             it == ItersAt(p, <<k, i>>, en, h)
         IN  /\ Eval(p[k].e, en, h) = AnyOf(p, k)
             /\ Goes(p, at2, en2, h2, k + 1, Without(EnvAt(p, <<k, i>>, en), Targets(p, l)),
                     Without(With(it, g, [of |-> <<>>, acc |-> Eval(p[k].e, en, h)]), {l}))
<1> DEFINE l  == p[k].of
           g  == Whole(p, k)
           it == ItersAt(p, <<k, i>>, en, h)
           S  == Surround(p, l)
<1>1. /\ IsBody(p) /\ k \in 1 .. Len(p) /\ Ready(p, k, i, en, h) /\ FoundOut(p, <<k, i>>, en, h)
      /\ p[k].op = "yield" /\ A(p, k, i) = k /\ OfGain(p, k, i) /\ Settles(p, k, i) /\ ~ Grows(p, g)
  BY DEF Step, Ready, AtKnown, OfGain, Settles, Deciding
<1>2. Eval(p[k].e, en, h) = AnyOf(p, k)
  <2> DEFINE at == <<k, i>>
  <2>1. at[1] = k /\ at[2] = i /\ FoundOut(p, at, en, h)
    BY <1>1
  <2> HIDE DEF at
  <2> QED BY <1>1, <2>1 DEF FoundOut
<1>3. /\ Outside(p, <<k, i>>, k) /\ g \in Surround(p, k) /\ Going(p, <<k, i>>) = Surround(p, k) /\ l # g
      /\ it = Full(p, Surround(p, k), en, h)
  BY <1>1, YieldSees
<1>4. Outside(p, at2, k + 1)
  BY <1>1, GainArrives
<1>5. Surround(p, k) = S \cup {l} /\ l \notin S /\ Surround(p, k + 1) = S
  BY <1>1, YieldAround
<1>6. ItersAt(p, at2, en2, h2) = Full(p, S, en2, h2)
  <2>1. ItersAt(p, at2, en2, h2) = Full(p, Surround(p, k + 1), en2, h2)
    BY <1>1, <1>4, ItersOut
  <2> QED BY <1>5, <2>1
<1>7. Full(p, S, en2, h2) = With(Full(p, S, en, h), g, GatherIn(p, g, en2, h2))
  <2>1. S \subseteq Going(p, <<k, i>>) /\ g \in S
    BY <1>3, <1>5
  <2> HIDE DEF S
  <2> QED BY <1>1, <2>1, FullGains
<1>8. GatherIn(p, g, en2, h2) = [of |-> <<>>, acc |-> Eval(p[k].e, en, h)]
  <2>1. Put(Acc(p, g), AnyOf(p, k), en, h, en2, h2)
    BY <1>1, GainGoes
  <2>2. en2[Acc(p, g)] = AnyOf(p, k)
    BY <2>1 DEF Put, With
  <2> QED BY <1>1, <1>2, <2>2 DEF GatherIn, Grows
<1>9. With(Full(p, S, en, h), g, GatherIn(p, g, en2, h2))
        = Without(With(it, g, GatherIn(p, g, en2, h2)), {l})
  <2> DEFINE f(q) == UnderIn(p, q, TRUE, TRUE, en, h)
             w == GatherIn(p, g, en2, h2)
  <2>1. Full(p, S, en, h) = [q \in S |-> f(q)] /\ it = [q \in S \cup {l} |-> f(q)]
    BY <1>3, <1>5 DEF Full
  <2> HIDE DEF f, w, it, S, l, g
  <2>2. With([q \in S |-> f(q)], g, w) = Without(With([q \in S \cup {l} |-> f(q)], g, w), {l})
    BY <1>3, <1>5 DEF With, Without
  <2> QED BY <2>1, <2>2 DEF w
<1>10. ShownIn(p, k + 1, en2) = Without(ShownIn(p, k, en), Targets(p, l))
  BY <1>1, YieldForgets
<1>11. PlaceAt(p, <<k, i>>) = k /\ PlaceAt(p, at2) = k + 1
  BY <1>3, <1>4 DEF Outside
<1> QED BY <1>2, <1>6, <1>7, <1>8, <1>9, <1>10, <1>11 DEF Goes, EnvAt

(* ... and where they have not. *)
LEMMA SeenUnknown ==
  ASSUME NEW p, NEW k, NEW i, NEW en, NEW h, NEW at2, NEW en2, NEW h2,
         Step(p, k, i, en, h, at2, en2, h2), AtTest(p, k, i), Eval(p[k].e, en, h) # AnyOf(p, k)
  PROVE  LET l  == p[k].of
             g  == Whole(p, k)
             it == ItersAt(p, <<k, i>>, en, h)
         IN  Goes(p, at2, en2, h2, l, Without(EnvAt(p, <<k, i>>, en), Targets(p, l)),
                  With(it, g, [of |-> <<>>, acc |-> Eval(p[k].e, en, h)]))
<1> DEFINE l  == p[k].of
           g  == Whole(p, k)
           it == ItersAt(p, <<k, i>>, en, h)
           v  == Eval(p[k].e, en, h)
<1>1. /\ IsBody(p) /\ k \in 1 .. Len(p) /\ i \in 1 .. N(p, k) /\ Ready(p, k, i, en, h)
      /\ Unknown(p, <<k, i>>, en) /\ Fine(en, h) /\ Known(p, k, i) \subseteq DOMAIN en
      /\ p[k].op = "yield" /\ A(p, k, i) = k /\ OfGain(p, k, i) /\ ~ Grows(p, g)
  BY DEF Step, Ready, AtTest, OfGain, Deciding
<1>2. /\ Outside(p, <<k, i>>, k) /\ g \in Surround(p, k) /\ Going(p, <<k, i>>) = Surround(p, k)
      /\ it = Full(p, Surround(p, k), en, h) /\ it[g] = GatherIn(p, g, en, h)
  BY <1>1, YieldSees
<1>3. AtLoop(p, at2, l, TRUE, TRUE) /\ Quiet(en, h, en2, h2)
  BY <1>1, GainArrives, GainGoes
<1>4. Within(p, at2, l)
  BY <1>3, AtLoopIs
<1>5. Surround(p, k) = Surround(p, l) \cup {l} /\ p[g].op = "gather" /\ End(p, g) = k + 1 /\ g \in 1 .. Len(p)
  BY <1>1, YieldAround
<1>6. ItersAt(p, at2, en2, h2) = Full(p, Surround(p, k), en2, h2)
  <2>1. ItersAt(p, at2, en2, h2) = Full(p, Surround(p, l) \cup {l}, en2, h2)
    BY <1>1, <1>4, ItersWithin
  <2> QED BY <1>5, <2>1
<1>7. PlaceAt(p, <<k, i>>) = k /\ PlaceAt(p, at2) = l
  BY <1>2, <1>4 DEF Outside, Within
<1>8. en[Acc(p, g)] = (p[g].how = "all")
  <2>1. PlaceAt(p, <<k, i>>) # End(p, g)
    BY <1>1, <1>5, <1>7
  <2> QED BY <1>1, <1>2, <1>5, <1>7, <2>1 DEF Unknown
<1>9. p[g].how \in {"any", "all"}
  <2>1. p[g].how \in {"sum", "any", "all", "list"}
    BY <1>1, YieldIs DEF Whole
  <2> QED BY <1>1, <2>1 DEF Grows
<1>10. v \in BOOLEAN
  <2>1. HasType(p[k].e, "bool") /\ Reads(p[k].e) \subseteq Bound(p, k)
    <3>1. Typed(p, k) /\ Uses(p[k]) \subseteq Bound(p, k)
      BY <1>1, BodyIs
    <3> QED BY <1>1, <1>9, <3>1 DEF Typed, Uses, Yields, Whole
  <2>2. Bound(p, k) \subseteq DOMAIN en
    BY <1>1, ReadsKnown
  <2>3. OfType(v, "bool", h)
    BY <1>1, <2>1, <2>2, EvalTyped
  <2> QED BY <2>3 DEF OfType
<1>11. v = en[Acc(p, g)]
  BY <1>8, <1>9, <1>10 DEF AnyOf
<1>12. it[g] = [of |-> <<>>, acc |-> v]
  BY <1>1, <1>2, <1>11 DEF GatherIn, Grows
<1>13. With(it, g, it[g]) = it
  <2>1. it = [q \in Surround(p, k) |-> it[q]]
    BY <1>2 DEF Full
  <2> HIDE DEF it, g
  <2> QED BY <1>2, <2>1 DEF With
<1>14. ShownIn(p, l, en2) = Without(ShownIn(p, k, en), Targets(p, l))
  BY <1>1, YieldForgets
<1>15. ItersAt(p, at2, en2, h2) = With(it, g, [of |-> <<>>, acc |-> v])
  BY <1>2, <1>3, <1>6, <1>12, <1>13 DEF Quiet
<1> QED BY <1>7, <1>14, <1>15 DEF Goes, EnvAt
=============================================================================
