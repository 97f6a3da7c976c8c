---------------------------- MODULE LoopLowering ----------------------------
(***************************************************************************)
(* From `for` loops and comprehensions to branches, and the branches at    *)
(* work.                                                                   *)
(*                                                                         *)
(* Lower is check.rs::lower_block, a token after the other: every `for`    *)
(* becomes assignments and one While with a latch (`update`), over helper  *)
(* variables whose names come from the loop depth or from the number of    *)
(* names in scope; sum, any, all and a list comprehension become such a    *)
(* loop around an accumulator (dict and set comprehensions differ in the   *)
(* accumulator alone).  What is lowered is a list of instructions: the     *)
(* statements, and the branches codegen.rs::lower_block ends its blocks    *)
(* with (how it makes the blocks is in Frames).  The machine then runs one *)
(* instruction at a time.                                                  *)
(*                                                                         *)
(* All names of a function share one set of stack slots (collect_locals):  *)
(* env is that set.  Coercions and rejections are left out, and so are     *)
(* comprehensions in a condition, a filter or a bound of a range.          *)
(***************************************************************************)
EXTENDS LoopText

CONSTANTS
  Programs,  \* the function bodies compiled
  MaxLen     \* bound: a list longer than this is not appended to

VARIABLES
  prog,  \* the source
  code,  \* its instructions
  pc,    \* the instruction the compiled function is at: its token, its number
  env,   \* %x.addr for every local
  heap   \* the lists, by address

fixed == <<prog, code>>
vars  == <<fixed, pc, env, heap>>

-----------------------------------------------------------------------------
(* What is known of a body that is lowered. *)

(* The names the compiler makes up, by the type of their slots.             *)
ListHelpers  ==
  {"__forlst", "__compr_lst", "__zip_l0", "__zip_l1", "__compr_acc", "%list"}
IndexHelpers == {"__foridx", "__compr_idx", "__zip_i"}
SumHelpers   == {"__sum_acc", "%sum"}
BoolHelpers  == {"__bool_acc"}
Helpers      == ListHelpers \cup IndexHelpers \cup SumHelpers \cup BoolHelpers

Kind(x) ==
  CASE x[1] \in ListHelpers               -> "list"
    [] x[1] \in IndexHelpers \cup SumHelpers -> "int"
    [] x[1] \in BoolHelpers               -> "bool"
    [] OTHER                              -> Types[x[1]]

OfType(v, type, lists) ==
  CASE type = "int"  -> v \in Int
    [] type = "bool" -> v \in BOOLEAN
    [] type = "list" -> v \in DOMAIN lists

IsAtom(e, type) ==
  \/ e.k = "num" /\ e.n \in Int /\ type = "int"
  \/ e.k = "truth" /\ e.b \in BOOLEAN /\ type = "bool"
  \/ e.k = "var" /\ Kind(e.x) = type
  \/ e.k = "len" /\ Kind(e.x) = "list" /\ type = "int"

IsNumber(e, type) ==
  IF e.k = "plus" THEN IsAtom(e.a, "int") /\ IsAtom(e.b, "int") /\ type = "int"
  ELSE IsAtom(e, type)

IsComparison(e) == e.k \in Comparisons /\ IsNumber(e.a, "int") /\ IsNumber(e.b, "int")

HasType(e, type) ==
  CASE e.k = "both"        -> IsComparison(e.a) /\ IsComparison(e.b) /\ type = "bool"
    [] e.k \in Comparisons -> IsComparison(e) /\ type = "bool"
    [] OTHER               -> IsNumber(e, type)

(* The type a gathering yields, and that of the whole.                      *)
Yields(how) == IF how \in {"sum", "list"} THEN "int" ELSE "bool"
Makes(how)  == IF how = "list" THEN "list" ELSE Yields(how)

IsIterable(it) ==
  \/ /\ it.k = "range"
     /\ IsNumber(it.start, "int") /\ IsNumber(it.stop, "int") /\ it.step \in Nat \ {0}
  \/ it.k = "list" /\ Kind(it.x) = "list"

IsFor(t) ==
  LET two(how) == how \in {"enumerate", "zip"}
  IN  /\ t.how \in {"plain", "enumerate", "zip", "generator", "each"}
      /\ t.t \in Seq(ToSet(t.t)) /\ Len(t.t) = (IF two(t.how) THEN 2 ELSE 1)
      /\ t.its \in Seq(ToSet(t.its)) /\ Len(t.its) = (IF t.how = "zip" THEN 2 ELSE 1)
      /\ \A i \in DOMAIN t.its : IsIterable(t.its[i])
      /\ t.how = "zip" => \A i \in DOMAIN t.its : t.its[i].k = "list"
      /\ \A x \in ToSet(t.t) : x[1] \in DOMAIN Types /\ Kind(x) = "int"
      /\ t.start \in Int

(* A token has its types, and a variable that is assigned is one of Env0.   *)
Typed(p, k) ==
  LET t == p[k]
  IN  CASE t.op = "let"    -> t.x \in DOMAIN Env0 /\ HasType(t.e, Kind(t.x))
        [] t.op = "append" -> Kind(t.l) = "list" /\ HasType(t.e, "int")
        [] t.op \in {"if", "while", "filter"} -> HasType(t.c, "bool")
        [] t.op = "for"    -> IsFor(t)
        [] t.op = "gather" -> t.how \in {"sum", "any", "all", "list"}
        [] t.op = "yield"  -> HasType(t.e, Yields(p[p[t.of].of].how))
        [] t.op = "result" -> t.x \in DOMAIN Env0 /\ Kind(t.x) = Makes(p[t.of].how)
        [] OTHER           -> t.op \in {"else", "end", "break", "continue", "return"}

(* The names a token reads are bound: those of Env0 and the targets of the  *)
(* loops around it (a target is not used after its loop).                   *)
Uses(t) ==
  CASE t.op \in {"let", "yield"}         -> Reads(t.e)
    [] t.op = "append"                   -> {t.l} \cup Reads(t.e)
    [] t.op \in {"if", "while", "filter"} -> Reads(t.c)
    [] t.op = "for"                      ->
         UNION {IF it.k = "range" THEN NumberReads(it.start) \cup NumberReads(it.stop)
                ELSE {it.x} : it \in ToSet(t.its)}
    [] OTHER                             -> {}

Bound(p, k) == DOMAIN Env0 \cup UNION {Targets(p, j) : j \in Around(p, k)}

IsBody(p) ==
  /\ p \in Seq(ToSet(p))
  /\ \A k \in DOMAIN p : Typed(p, k) /\ Uses(p[k]) \subseteq Bound(p, k)
  /\ WellNested(p)

ASSUME ProgramsAssumption ==
  /\ DOMAIN Types \cap Helpers = {}
  /\ \A x \in DOMAIN Types : Types[x] \in {"int", "bool", "list"}
  /\ Heap0 \in Seq(Seq(Int))
  /\ Env0 = [x \in DOMAIN Env0 |-> Env0[x]] /\ IsFiniteSet(DOMAIN Env0)
  /\ \A x \in DOMAIN Env0 : x[1] \in DOMAIN Types /\ OfType(Env0[x], Kind(x), Heap0)
  /\ \A p \in Programs : IsBody(p)

-----------------------------------------------------------------------------
(* check.rs: statements of the HIR.  A construct has an id; at is the place *)
(* in the source the function is at when the instruction is next (history:  *)
(* the compiler keeps no line table).                                       *)

Ins(at, stmt)  == [at |-> at, do |-> stmt]
On(at, stmts)  == [i \in DOMAIN stmts |-> Ins(at, stmts[i])]

Let(x, e)       == [op |-> "let", x |-> x, e |-> e]
Load(x, l, i)   == [op |-> "load", x |-> x, l |-> l, i |-> i]
Bump(x, n)      == Let(x, Plus(Var(x), Num(n)))
If(c, id)       == [op |-> "if", c |-> c, id |-> id]
While(c, id)    == [op |-> "while", c |-> c, id |-> id]
Mark(op, id)    == [op |-> op, id |-> id]

(* How many loops there are around a token.                                 *)
Depth(p, k) == Cardinality({j \in Around(p, k) : IsLoop(p[j])})

(* The names a for brings into scope; a plain one's helpers are named by    *)
(* its depth.                                                               *)
ForList(p, k)  == <<"__forlst", Depth(p, k)>>
ForIndex(p, k) == <<"__foridx", Depth(p, k)>>

Names(p, k) ==
  Targets(p, k) \cup IF p[k].how = "plain" /\ p[k].its[1].k = "list"
                     THEN {ForList(p, k), ForIndex(p, k)} ELSE {}

(* The names in scope after each token.  A generator and a gathering have a *)
(* scope of their own (a clone).                                            *)
Scope(p) ==
  LET scope[k \in 0 .. Len(p)] ==
        IF k = 0 THEN DOMAIN Env0
        ELSE LET t == p[k]
             IN  CASE t.op = "let"    -> scope[k - 1] \cup {t.x}
                   [] t.op = "for"    -> scope[k - 1] \cup Names(p, k)
                   [] t.op = "yield"  -> scope[p[t.of].of - 1]
                   [] t.op = "result" -> scope[t.of - 1] \cup {t.x}
                   [] t.op = "end" /\ p[t.of].op = "for" /\ p[t.of].how = "generator" ->
                        scope[t.of - 1]
                   [] OTHER           -> scope[k - 1]
  IN  scope

(* uniq: the size of the scope a construct is entered in.                   *)
Uniq(p, k) == Cardinality(Scope(p)[(IF Each(p[k]) THEN p[k].of ELSE k) - 1])

(* The helpers of a loop over lists.                                        *)
ListOf(p, k)  ==
  IF p[k].how = "plain" THEN ForList(p, k) ELSE <<"__compr_lst", Uniq(p, k)>>
IndexOf(p, k) ==
  CASE p[k].how = "plain" -> ForIndex(p, k)
    [] p[k].how = "zip"   -> <<"__zip_i", Uniq(p, k)>>
    [] OTHER              -> <<"__compr_idx", Uniq(p, k)>>

(* The walk of a counter: `for x in range(...)`, in for-loops and in        *)
(* comprehensions alike.  The counter is the target itself, and stop is     *)
(* the condition's operand.                                                 *)
CountedLoop(x, it, id) ==
  <<Let(x, it.start), While(Less(Var(x), it.stop), id)>>

(* The walk of an index over a list held in a helper.                       *)
IndexedLoop(x, list, lst, idx, id) ==
  << Let(lst, Var(list)), Let(idx, Num(0)), While(Less(Var(idx), Len_(lst)), id),
     Load(x, lst, idx) >>

ZipLoop_MutantFirstListOnly(p, k) ==
  LET l0 == <<"__zip_l0", Uniq(p, k)>>
      l1 == <<"__zip_l1", Uniq(p, k)>>
      i  == IndexOf(p, k)
      t  == p[k]
  IN  << Let(l0, Var(t.its[1].x)), Let(l1, Var(t.its[2].x)), Let(i, Num(0)),
         While(Less(Var(i), Len_(l0)), <<"loop", k>>), Load(t.t[1], l0, i), Load(t.t[2], l1, i) >>

ZipLoop(p, k) ==
  LET l0 == <<"__zip_l0", Uniq(p, k)>>
      l1 == <<"__zip_l1", Uniq(p, k)>>
      i  == IndexOf(p, k)
      t  == p[k]
  IN  << Let(l0, Var(t.its[1].x)), Let(l1, Var(t.its[2].x)), Let(i, Num(0)),
         While(Both(Less(Var(i), Len_(l0)), Less(Var(i), Len_(l1))), <<"loop", k>>),
         Load(t.t[1], l0, i), Load(t.t[2], l1, i) >>

(* The target the elements go to: enumerate's first counts.                 *)
Over(t) == IF t.how = "enumerate" THEN t.t[2] ELSE t.t[1]

(* A loop up to its body.                                                   *)
ForHead(p, k) ==
  LET t    == p[k]
      it   == t.its[1]
      loop == IF it.k = "range" THEN CountedLoop(Over(t), it, <<"loop", k>>)
              ELSE IndexedLoop(Over(t), it.x, ListOf(p, k), IndexOf(p, k), <<"loop", k>>)
  IN  CASE t.how = "zip"       -> ZipLoop(p, k)
        [] t.how = "enumerate" -> <<Let(t.t[1], Num(t.start))>> \o loop
        [] OTHER               -> loop

Latch_MutantNoIndex(p, k) ==
  LET t == p[k]
  IN  IF t.its[1].k = "range" THEN <<Bump(Over(t), t.its[1].step)>>
      ELSE <<Bump(IndexOf(p, k), 1)>>

(* The latch: continue comes here too.                                      *)
Latch(p, k) ==
  LET t    == p[k]
      bump == IF t.its[1].k = "range" THEN Bump(Over(t), t.its[1].step)
              ELSE Bump(IndexOf(p, k), 1)
  IN  IF t.how = "enumerate" THEN <<bump, Bump(t.t[1], 1)>> ELSE <<bump>>

(* The end of a turn of the loop k: of the filter, of the body, the latch.  *)
Filtered(p, k) == p[k].op = "for" /\ p[k + 1].op = "filter"

Turned(p, k) ==
  LET id     == <<"loop", k>>
      filter == <<"filter", k>>
  IN  (IF Filtered(p, k) THEN <<Mark("else", filter), Mark("fi", filter)>> ELSE <<>>)
        \o <<Mark("next", id), Mark("latch", id)>>
        \o (IF p[k].op = "for" THEN Latch(p, k) ELSE <<>>)
        \o <<Mark("end", id)>>

-----------------------------------------------------------------------------
(* Gathering: g is the place of the gather. *)

Acc(p, g) ==
  << CASE p[g].how = "sum"  -> "__sum_acc"
       [] p[g].how = "list" -> "__compr_acc"
       [] OTHER             -> "__bool_acc", Uniq(p, g) >>

(* The register of the accumulator's old value, which a sum and a list      *)
(* read before the element's own statements.                                *)
Old(p, g) == <<IF p[g].how = "sum" THEN "%sum" ELSE "%list", g>>

Start(p, g) ==
  CASE p[g].how = "sum"  -> Let(Acc(p, g), Num(0))
    [] p[g].how = "list" -> [op |-> "new", x |-> Acc(p, g)]
    [] p[g].how = "any"  -> Let(Acc(p, g), Truth(FALSE))
    [] p[g].how = "all"  -> Let(Acc(p, g), Truth(TRUE))

ReadOld(p, g) ==
  IF p[g].how \in {"sum", "list"} THEN <<Let(Old(p, g), Var(Acc(p, g)))>> ELSE <<>>

(* One turn's effect, at the yield k of the loop l: any and all break.      *)
Gain(p, g, l, k) ==
  LET acc  == Acc(p, g)
      e    == p[k].e
      test == <<"test", k>>
      grow(op) == <<Ins(k, [op |-> op, x |-> acc, l |-> Old(p, g), e |-> e])>>
      known(v) == Ins(k, Let(acc, Truth(v)))
      break    == Ins(k + 1, [op |-> "break"])
      mark(op) == Ins(l, Mark(op, test))
  IN  CASE p[g].how = "sum"  -> grow("add")
        [] p[g].how = "list" -> grow("concat")
        [] p[g].how = "any"  ->
             <<Ins(k, If(e, test)), known(TRUE), break, mark("else"), mark("fi")>>
        [] p[g].how = "all"  ->
             <<Ins(k, If(e, test)), mark("else"), known(FALSE), break, mark("fi")>>

-----------------------------------------------------------------------------
(* check.rs::lower_block, with the expressions it lowers on the way: the    *)
(* instructions of the token k of p.                                        *)

(* The head of a loop, and of a gathering's the load of the old value.      *)
ForCode(p, k) ==
  On(k, ForHead(p, k))
    \o IF Each(p[k]) /\ ~ Filtered(p, k) THEN On(k + 1, ReadOld(p, p[k].of)) ELSE <<>>

FilterCode(p, k) ==
  LET l == p[k].of
  IN  On(k, <<If(p[k].c, <<"filter", l>>)>>)
        \o IF Each(p[l]) THEN On(k + 1, ReadOld(p, p[l].of)) ELSE <<>>

EndCode(p, k) ==
  LET l    == p[k].of
      turn == Turned(p, l)
  IN  IF p[l].op = "if" THEN On(k, <<Mark("fi", <<"if", l>>)>>)
      ELSE On(k, <<Head(turn)>>) \o On(l, Tail(turn))

YieldCode(p, k) ==
  LET l == p[k].of
  IN  Gain(p, p[l].of, l, k) \o On(l, Turned(p, l))

TokenCode(p, k) ==
  LET t == p[k]
  IN  CASE t.op = "let"    -> On(k, <<Let(t.x, t.e)>>)
        [] t.op = "append" -> On(k, <<[op |-> "append", l |-> t.l, e |-> t.e]>>)
        [] t.op = "if"     -> On(k, <<If(t.c, <<"if", k>>)>>)
        [] t.op = "else"   -> On(k, <<Mark("else", <<"if", t.of>>)>>)
        [] t.op = "while"  -> On(k, <<While(t.c, <<"loop", k>>)>>)
        [] t.op = "for"    -> ForCode(p, k)
        [] t.op = "filter" -> FilterCode(p, k)
        [] t.op = "end"    -> EndCode(p, k)
        [] t.op = "gather" -> On(k, <<Start(p, k)>>)
        [] t.op = "yield"  -> YieldCode(p, k)
        [] t.op = "result" -> On(k, <<Let(t.x, Var(Acc(p, t.of)))>>)
        [] OTHER           -> On(k, <<[op |-> t.op]>>)

Compiled(p) == [k \in 1 .. Len(p) |-> TokenCode(p, k)]

-----------------------------------------------------------------------------
(* codegen.rs: branches. *)

(* An instruction is found by its token and its number there.               *)
Places(c) == UNION {{k} \X DOMAIN c[k] : k \in DOMAIN c}
Do(c, at) == c[at[1]][at[2]].do

Before(a, b) == a[1] < b[1] \/ (a[1] = b[1] /\ a[2] < b[2])

After(c, at) ==
  IF at[2] < Len(c[at[1]]) THEN <<at[1], at[2] + 1>> ELSE <<at[1] + 1, 1>>

Position(c, op, id) == CHOOSE at \in Places(c) : Do(c, at).op = op /\ Do(c, at).id = id

(* The top of loop_targets at an instruction: a loop is pushed for the body *)
(* of its while and popped before its latch.                                *)
LoopTarget(c, at) ==
  LET pushed == {w \in Places(c) : Before(w, at) /\ Do(c, w).op = "while"}
      popped(w) == \E j \in Places(c) :
                     Before(j, at) /\ Do(c, j).op = "latch" /\ Do(c, j).id = Do(c, w).id
      targets == {w \in pushed : ~ popped(w)}
  IN  Do(c, CHOOSE w \in targets : \A v \in targets : v = w \/ Before(v, w)).id

-----------------------------------------------------------------------------
(* The compiled function. *)

Init ==
  /\ prog \in Programs
  /\ code = Compiled(prog)
  /\ pc = <<1, 1>>
  /\ env = Env0
  /\ heap = Heap0

Done == pc[1] > Len(code)
Now  == Do(code, pc)
Value(e) == Eval(e, env, heap)

At_(ops) == ~ Done /\ Now.op \in ops

Store ==
  /\ At_({"let", "load", "add"})
  /\ env' = With(env, Now.x,
                 CASE Now.op = "let"  -> Value(Now.e)
                   [] Now.op = "load" -> heap[env[Now.l]][env[Now.i] + 1]
                   [] Now.op = "add"  -> env[Now.l] + Value(Now.e))
  /\ pc' = After(code, pc)
  /\ UNCHANGED <<fixed, heap>>

Make_MutantEmptyNotMade ==
  /\ At_({"new", "concat"})
  /\ heap' = IF Now.op = "new" THEN heap
             ELSE Append(heap, Append(heap[env[Now.l]], Value(Now.e)))
  /\ env' = With(env, Now.x, Len(heap) + 1)
  /\ pc' = After(code, pc)
  /\ UNCHANGED fixed

(* l + [e] is a list of its own, as [] is.                                  *)
Make ==
  /\ At_({"new", "concat"})
  /\ heap' = Append(heap, IF Now.op = "new" THEN <<>>
                          ELSE Append(heap[env[Now.l]], Value(Now.e)))
  /\ env' = With(env, Now.x, Len(heap) + 1)
  /\ pc' = After(code, pc)
  /\ UNCHANGED fixed

Push ==
  /\ At_({"append"})
  /\ Len(heap[env[Now.l]]) < MaxLen
  /\ heap' = [heap EXCEPT ![env[Now.l]] = Append(@, Value(Now.e))]
  /\ pc' = After(code, pc)
  /\ UNCHANGED <<fixed, env>>

Target_MutantHeader ==
  CASE Now.op = "else"     -> Position(code, "fi", Now.id)
    [] Now.op = "next"     -> Position(code, "latch", Now.id)
    [] Now.op = "end"      -> Position(code, "while", Now.id)
    [] Now.op = "break"    -> After(code, Position(code, "end", LoopTarget(code, pc)))
    [] Now.op = "continue" -> Position(code, "while", LoopTarget(code, pc))

(* Where a branch goes.                                                     *)
Target ==
  CASE Now.op = "else"     -> Position(code, "fi", Now.id)
    [] Now.op = "next"     -> Position(code, "latch", Now.id)
    [] Now.op = "end"      -> Position(code, "while", Now.id)
    [] Now.op = "break"    -> After(code, Position(code, "end", LoopTarget(code, pc)))
    [] Now.op = "continue" -> Position(code, "latch", LoopTarget(code, pc))

Goto ==
  /\ At_({"else", "next", "end", "break", "continue"})
  /\ pc' = Target
  /\ UNCHANGED <<fixed, env, heap>>

(* The merge of an if and a latch are where blocks start.                   *)
Fall ==
  /\ At_({"fi", "latch"})
  /\ pc' = After(code, pc)
  /\ UNCHANGED <<fixed, env, heap>>

Test ==
  /\ At_({"if", "while"})
  /\ pc' = IF Value(Now.c) THEN After(code, pc)
           ELSE After(code, Position(code, IF Now.op = "if" THEN "else" ELSE "end", Now.id))
  /\ UNCHANGED <<fixed, env, heap>>

Leave ==
  /\ At_({"return"})
  /\ pc' = <<Len(code) + 1, 1>>
  /\ UNCHANGED <<fixed, env, heap>>

Next == Store \/ Make \/ Push \/ Goto \/ Fall \/ Test \/ Leave

Spec == Init /\ [][Next]_vars /\ WF_vars(Next)

-----------------------------------------------------------------------------
(* Python at work on the same text: what of the state it has. *)

Place == IF Done THEN Len(prog) + 1 ELSE code[pc[1]][pc[2]].at

(* The while of a loop, and the latch.                                      *)
Numbered(op, k) == CHOOSE i \in DOMAIN code[k] : code[k][i].do.op = op

(* The loops and gatherings under way: those around the place, and the loop *)
(* it is at, once it has been entered.                                      *)
UnderWay ==
  IF Done THEN {}
  ELSE {k \in Around(prog, Place) : prog[k].op \in {"for", "gather"}}
         \cup {k \in {Place} : prog[k].op = "for" /\ (pc[1] = k => pc[2] >= Numbered("while", k))}

Shown ==
  [x \in DOMAIN Env0 \cup (IF Done THEN {}
                           ELSE UNION {Targets(prog, k) : k \in Around(prog, Place)}) |-> env[x]]

(* Has the element of the turn been taken, and has the latch not yet moved  *)
(* on the counter that is nth in it?                                        *)
Taken(k, nth) ==
  LET close == Close(prog, k)
  IN  \/ pc[1] = k /\ Place # k
      \/ pc[1] \in k + 1 .. close - 1
      \/ pc[1] = close /\ pc[2] <= Numbered("latch", close) + nth

(* The iterator a condition c of the loop k stands for.                     *)
Walk(k, c) ==
  IF prog[k].its[1].k = "range"
  THEN LET step == prog[k].its[1].step
       IN  [k |-> "range", next |-> env[c.a.x] + (IF Taken(k, 1) THEN step ELSE 0),
            stop |-> Value(c.b), step |-> step]
  ELSE [k |-> "list", list |-> env[c.b.x],
        pos |-> env[c.a.x] + (IF Taken(k, 1) THEN 1 ELSE 0)]

Under(k) ==
  IF prog[k].op = "gather"
  THEN LET acc == code[k][1].do.x
       IN  [of |-> <<>>, acc |-> IF prog[k].how = "list" THEN heap[env[acc]] ELSE env[acc]]
  ELSE LET c == code[k][Numbered("while", k)].do.c
       IN  [of |-> IF prog[k].how = "zip" THEN <<Walk(k, c.a), Walk(k, c.b)>> ELSE <<Walk(k, c)>>,
            n  |-> IF prog[k].how = "enumerate"
                   THEN env[prog[k].t[1]] + (IF Taken(k, 2) THEN 1 ELSE 0) ELSE prog[k].start]

Iterators == [k \in UnderWay |-> Under(k)]

Python == INSTANCE PyLoops WITH at <- Place, env <- Shown, iters <- Iterators,
                                heap <- Held(heap, Shown, Iterators)

-----------------------------------------------------------------------------
(* Where the lowering follows Python: the bodies in which                   *)
(* - a target is another name than the variables and the targets around it; *)
(* - a loop whose helpers are numbered by the scope adds to the scope;      *)
(* - the stop of a range is no length, and is not assigned in the loop;     *)
(* - what is gathered to be the source of a gathering has another kind of   *)
(*   accumulator.                                                           *)
TargetsApart(p, k) ==
  /\ Targets(p, k) \cap Bound(p, k) = {}
  /\ p[k].how \in {"enumerate", "zip"} => p[k].t[1] # p[k].t[2]

ScopeGrows(p, k) == p[k].how = "plain" \/ ~ (Targets(p, k) \subseteq Scope(p)[k - 1])

StopStays(p, k) ==
  LET stop == p[k].its[1].stop
  IN  /\ stop.k # "len" /\ (stop.k = "plus" => stop.a.k # "len" /\ stop.b.k # "len")
      /\ \A j \in k + 1 .. Close(p, k) :
           p[j].op \in {"let", "result"} => p[j].x \notin NumberReads(stop)

SourceApart(p, k) ==
  \A g \in {j \in Around(p, k) : p[j].op = "gather"} :
    (\A l \in Around(p, k) : Each(p[l]) => l < g) => Acc(p, g)[1] # Acc(p, k)[1]

Follows(p) ==
  \A k \in DOMAIN p :
    /\ p[k].op = "for" =>
         /\ TargetsApart(p, k)
         /\ ScopeGrows(p, k)
         /\ p[k].its[1].k = "range" => StopStays(p, k)
    /\ p[k].op = "gather" => SourceApart(p, k)

-----------------------------------------------------------------------------
(* Properties. *)

(* Every variable has its type: a slot holds a value of the type of its     *)
(* name, and a list a place of the heap.                                    *)
TypeOK ==
  /\ pc = <<Len(code) + 1, 1>> \/ pc \in Places(code)
  /\ heap \in Seq(Seq(Int))
  /\ \A x \in DOMAIN env : OfType(env[x], Kind(x), heap)

(* The index a loop reads its list with lies inside the list: the load has  *)
(* no bounds check of its own.                                              *)
IndexInBounds ==
  At_({"load"}) => env[Now.i] \in 0 .. Len(heap[env[Now.l]]) - 1

(* Every step is a step of Python's or none: whatever continues, breaks,    *)
(* nested loops, gathering inside loops and inside gathering, and appends   *)
(* to the iterated list happen, the loops go on with the elements Python    *)
(* goes on with, and what is gathered is what Python gathers (slice-v0.45,  *)
(* -v0.46, -v0.47, -v0.48; `uniq` disambiguates helper-var names, says      *)
(* build_comp_loop).                                                        *)
ImplementsPyLoops == Python!Init /\ [][Python!Next]_(Python!pyVars)

(* The function ends.                                                       *)
Ends == <>Done
=============================================================================
