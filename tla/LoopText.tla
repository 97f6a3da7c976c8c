------------------------------ MODULE LoopText ------------------------------
(***************************************************************************)
(* The text of a function with loops, as Python and the compiler read it:  *)
(* a sequence of tokens.  of is the token that opened the construct one    *)
(* belongs to.                                                             *)
(*   [op |-> "let", x, e]            x = e                                 *)
(*   [op |-> "append", l, e]         l.append(e)                           *)
(*   [op |-> "if", c] ... [op |-> "else", of] ... [op |-> "end", of]       *)
(*   [op |-> "while", c] ... [op |-> "end", of]                            *)
(*   [op |-> "for", how, t, its, start, of] ... [op |-> "end", of]         *)
(*         targets t, iterables its; how is "plain", "enumerate" (from     *)
(*         start), "zip", "generator" (for x in (e for t in it if c), what *)
(*         follows being x = e) or "each" (the loop of a gathering of)     *)
(*   [op |-> "filter", c, of]        the `if` of a generator or gathering  *)
(*   [op |-> "break", of], [op |-> "continue", of], [op |-> "return"]      *)
(*   [op |-> "gather", how] [for each ...] [filter] ... [op |-> "yield",   *)
(*         e, of] [op |-> "result", x, of]                                 *)
(*         x = how(e for t in it if c), how being "sum", "any", "all" or   *)
(*         "list"; what an element needs gathered comes before its yield,  *)
(*         and what the source needs before the for, each with a name      *)
(*         for its value                                                   *)
(* An iterable is a range or a list: [k |-> "range", start, stop, step] or *)
(* [k |-> "list", x].  A name is a pair, the first component its kind.     *)
(***************************************************************************)
EXTENDS Integers, Sequences, FiniteSets, SequencesExt

CONSTANTS
  Types,  \* first component of a variable's name -> "int", "bool" or "list"
  Env0,   \* the names bound at the start: parameters and other variables
  Heap0   \* the lists there are at the start

-----------------------------------------------------------------------------
(* Expressions. *)

Num(n)       == [k |-> "num", n |-> n]
Truth(b)     == [k |-> "truth", b |-> b]
Var(x)       == [k |-> "var", x |-> x]
Len_(x)      == [k |-> "len", x |-> x]
Plus(a, b)   == [k |-> "plus", a |-> a, b |-> b]
Less(a, b)   == [k |-> "less", a |-> a, b |-> b]
Equal(a, b)  == [k |-> "equal", a |-> a, b |-> b]
Differ(a, b) == [k |-> "differ", a |-> a, b |-> b]
Both(a, b)   == [k |-> "both", a |-> a, b |-> b]

Comparisons == {"less", "equal", "differ"}

(* The value of an expression.  That of a list variable is where its list   *)
(* is in the heap.                                                          *)
Atom(e, env, heap) ==
  CASE e.k = "num"   -> e.n
    [] e.k = "truth" -> e.b
    [] e.k = "var"   -> env[e.x]
    [] e.k = "len"   -> Len(heap[env[e.x]])

Number(e, env, heap) ==
  IF e.k = "plus" THEN Atom(e.a, env, heap) + Atom(e.b, env, heap)
  ELSE Atom(e, env, heap)

Comparison(e, env, heap) ==
  LET a == Number(e.a, env, heap)
      b == Number(e.b, env, heap)
  IN  CASE e.k = "less"   -> a < b
        [] e.k = "equal"  -> a = b
        [] e.k = "differ" -> a # b

Eval(e, env, heap) ==
  CASE e.k = "both"        -> /\ Comparison(e.a, env, heap)
                              /\ Comparison(e.b, env, heap)
    [] e.k \in Comparisons -> Comparison(e, env, heap)
    [] OTHER               -> Number(e, env, heap)

(* The names an expression reads. *)
AtomReads(e)   == IF e.k \in {"var", "len"} THEN {e.x} ELSE {}
NumberReads(e) == IF e.k = "plus" THEN AtomReads(e.a) \cup AtomReads(e.b) ELSE AtomReads(e)
CompReads(e)   == NumberReads(e.a) \cup NumberReads(e.b)
Reads(e) ==
  CASE e.k = "both"        -> CompReads(e.a) \cup CompReads(e.b)
    [] e.k \in Comparisons -> CompReads(e)
    [] OTHER               -> NumberReads(e)

-----------------------------------------------------------------------------
(* The shape of a text p. *)

(* The constructs around the place after each token, by the tokens that     *)
(* opened them.                                                             *)
Opens  == {"if", "while", "for", "gather"}
Closes == {"end", "yield", "result"}

Nesting(p) ==
  LET around[k \in 0 .. Len(p)] ==
        IF k = 0 THEN {}
        ELSE CASE p[k].op \in Opens  -> around[k - 1] \cup {k}
               [] p[k].op \in Closes -> around[k - 1] \ {p[k].of}
               [] OTHER              -> around[k - 1]
  IN  around

(* The constructs around a token.                                           *)
Around(p, k) == Nesting(p)[k - 1]

IsLoop(t) == t.op \in {"while", "for"}
Each(t)   == t.op = "for" /\ t.how = "each"

(* k is the innermost of some constructs.                                   *)
Innermost(k, around) == k \in around /\ \A j \in around : j <= k

(* The token belongs to the innermost construct around it.                  *)
Belongs(p, k) == Innermost(p[k].of, Around(p, k))

(* Gathering is an expression: no statement is inside one.                  *)
InExpression(p, k) ==
  \E j \in Around(p, k) :
    Innermost(j, Around(p, k)) /\ (p[j].op = "gather" \/ Each(p[j]))

(* What each kind of token asks of its place.                               *)
Fits(p, k) ==
  LET t == p[k]
      of == p[t.of]
  IN  CASE t.op = "else" ->
             /\ Belongs(p, k) /\ of.op = "if"
             /\ \A j \in 1 .. k - 1 : ~ (p[j].op = "else" /\ p[j].of = t.of)
        [] t.op = "end" ->
             /\ Belongs(p, k) /\ of.op \in {"if", "while", "for"} /\ ~ Each(of)
             /\ of.op = "if" => \E j \in 1 .. k - 1 : p[j].op = "else" /\ p[j].of = t.of
        [] t.op \in {"break", "continue"} ->
             /\ ~ InExpression(p, k)
             /\ Innermost(t.of, {j \in Around(p, k) : IsLoop(p[j])})
        [] t.op = "gather" -> k = 1 \/ p[k - 1].op # "yield"
        [] Each(t) ->
             Belongs(p, k) /\ of.op = "gather" /\ p[k - 1].op \in {"gather", "result"}
        [] t.op = "filter" ->
             Belongs(p, k) /\ t.of = k - 1 /\ of.op = "for" /\ of.how \in {"generator", "each"}
        [] t.op = "yield"  -> Belongs(p, k) /\ Each(of)
        [] t.op = "result" ->
             Belongs(p, k) /\ of.op = "gather" /\ p[k - 1].op = "yield" /\ p[p[k - 1].of].of = t.of
        [] OTHER -> ~ InExpression(p, k)

WellNested(p) ==
  /\ \A k \in DOMAIN p : Fits(p, k)
  /\ Nesting(p)[Len(p)] = {}

(* The tokens of an if or a loop, from the token that opened it.            *)
Else(p, k)  == CHOOSE j \in DOMAIN p : p[j].op = "else" /\ p[j].of = k
Close(p, k) == CHOOSE j \in DOMAIN p : p[j].op \in {"end", "yield"} /\ p[j].of = k

Targets(p, k) == IF p[k].op = "for" THEN ToSet(p[k].t) ELSE {}

(* The bindings f with the value v at x, and without the names xs.          *)
With(f, x, v)  == [y \in DOMAIN f \cup {x} |-> IF y = x THEN v ELSE f[y]]
Without(f, xs) == [y \in DOMAIN f \ xs |-> f[y]]

(* The lists of a heap that bindings and iterators hold, and those there    *)
(* were at the start.                                                       *)
Lists(env) == {env[x] : x \in {y \in DOMAIN env : Types[y[1]] = "list"}}

IteratorLists(iters) ==
  {it.list : it \in {j \in UNION {ToSet(iters[k].of) : k \in DOMAIN iters} : j.k = "list"}}

Held(heap, env, iters) ==
  [r \in DOMAIN Heap0 \cup Lists(env) \cup IteratorLists(iters) |-> heap[r]]
=============================================================================
