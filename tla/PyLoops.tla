------------------------------ MODULE PyLoops ------------------------------
(***************************************************************************)
(* What loops and gathering mean in Python, one step after the other: an   *)
(* iterator is made when a loop is entered, a range is fixed then, and a   *)
(* list is looked at again for every element; sum, any, all and list       *)
(* comprehensions take what their element yields, any and all until they   *)
(* know; break and continue are the innermost loop's.                      *)
(*                                                                         *)
(* A target is bound for its turn only: what it holds after the loop is    *)
(* left out.  A list that nobody holds any more is gone, as CPython counts *)
(* references; those the function was called with stay.                    *)
(***************************************************************************)
EXTENDS LoopText

VARIABLES
  prog,   \* the text
  at,     \* the token that is next, Len(prog) + 1 at the end
  env,    \* name -> value; of a list, its place in the heap
  heap,   \* place -> the elements of the list there
  iters   \* the loops and gatherings under way, by token -> their iterators

pyVars == <<prog, at, env, heap, iters>>

(* Go on at k with bindings e, iterators i and lists h.                     *)
Go(k, e, i, h) ==
  /\ at' = k
  /\ env' = e
  /\ iters' = i
  /\ heap' = Held(h, e, i)
  /\ UNCHANGED prog

Init ==
  /\ at = 1
  /\ env = Env0
  /\ heap = Heap0
  /\ iters = [k \in {} |-> 0]

Tok == prog[at]
Op  == Tok.op
Executes(ops) == at <= Len(prog) /\ Op \in ops
Value(e) == Eval(e, env, heap)

(* Out of the turn of a loop, and out of the loop.                          *)
Forget(k) == Without(env, Targets(prog, k))
Leave(k)  == Without(iters, {k})

-----------------------------------------------------------------------------
Let ==
  /\ Executes({"let"})
  /\ Go(at + 1, With(env, Tok.x, Value(Tok.e)), iters, heap)

Append_ ==
  /\ Executes({"append"})
  /\ LET l == env[Tok.l]
     IN  Go(at + 1, env, iters, With(heap, l, Append(heap[l], Value(Tok.e))))

Test ==
  /\ Executes({"if", "while"})
  /\ LET next == IF Value(Tok.c) THEN at ELSE IF Op = "if" THEN Else(prog, at)
                                              ELSE Close(prog, at)
     IN  Go(next + 1, env, iters, heap)

(* The end of a then, of an if and of a turn.                               *)
Pass ==
  /\ Executes({"else", "end"})
  /\ LET next == IF Op = "else" THEN Close(prog, Tok.of)
                 ELSE IF prog[Tok.of].op = "if" THEN at + 1 ELSE Tok.of
     IN  Go(next, IF Op = "end" THEN Forget(Tok.of) ELSE env, iters, heap)

Break ==
  /\ Executes({"break"})
  /\ Go(Close(prog, Tok.of) + 1, Forget(Tok.of), Leave(Tok.of), heap)

Continue ==
  /\ Executes({"continue"})
  /\ Go(Tok.of, Forget(Tok.of), iters, heap)

Return ==
  /\ Executes({"return"})
  /\ Go(Len(prog) + 1,
        Without(env, UNION {Targets(prog, k) : k \in DOMAIN iters}), [k \in {} |-> 0], heap)

-----------------------------------------------------------------------------
(* Iterators. *)

Iterator(it) ==
  IF it.k = "range"
  THEN [k |-> "range", next |-> Value(it.start), stop |-> Value(it.stop), step |-> it.step]
  ELSE [k |-> "list", list |-> env[it.x], pos |-> 0]

More(i)    == IF i.k = "range" THEN i.next < i.stop ELSE i.pos < Len(heap[i.list])
Element(i) == IF i.k = "range" THEN i.next ELSE heap[i.list][i.pos + 1]
Advance(i) ==
  IF i.k = "range" THEN [i EXCEPT !.next = @ + i.step] ELSE [i EXCEPT !.pos = @ + 1]

Begin ==
  /\ Executes({"for"})
  /\ at \notin DOMAIN iters
  /\ Go(at, env,
        With(iters, at, [of |-> [j \in DOMAIN Tok.its |-> Iterator(Tok.its[j])],
                         n  |-> Tok.start]), heap)

(* The targets take the elements; enumerate's first the number of the turn. *)
Taken(i) ==
  CASE Tok.how = "enumerate" -> With(With(env, Tok.t[1], i.n), Tok.t[2], Element(i.of[1]))
    [] Tok.how = "zip" ->
         With(With(env, Tok.t[1], Element(i.of[1])), Tok.t[2], Element(i.of[2]))
    [] OTHER -> With(env, Tok.t[1], Element(i.of[1]))

Turn ==
  /\ Executes({"for"})
  /\ at \in DOMAIN iters
  /\ LET i == iters[at]
     IN  /\ \A j \in DOMAIN i.of : More(i.of[j])
         /\ Go(at + 1, Taken(i),
               With(iters, at, [of |-> [j \in DOMAIN i.of |-> Advance(i.of[j])],
                                n  |-> IF Tok.how = "enumerate" THEN i.n + 1 ELSE i.n]),
               heap)

Exhausted ==
  /\ Executes({"for"})
  /\ at \in DOMAIN iters
  /\ \E j \in DOMAIN iters[at].of : ~ More(iters[at].of[j])
  /\ Go(Close(prog, at) + 1, env, Leave(at), heap)

Filter ==
  /\ Executes({"filter"})
  /\ IF Value(Tok.c) THEN Go(at + 1, env, iters, heap)
     ELSE Go(Tok.of, Forget(Tok.of), iters, heap)

-----------------------------------------------------------------------------
(* Gathering. *)

Nothing(how) ==
  CASE how = "sum"  -> 0
    [] how = "list" -> <<>>
    [] how = "any"  -> FALSE
    [] how = "all"  -> TRUE

Gather ==
  /\ Executes({"gather"})
  /\ Go(at + 1, env, With(iters, at, [of |-> <<>>, acc |-> Nothing(Tok.how)]), heap)

Gained(how, acc, v) ==
  CASE how = "sum"  -> acc + v
    [] how = "list" -> Append(acc, v)
    [] how = "any"  -> v
    [] how = "all"  -> v

(* any stops at the first that holds, all at the first that does not.       *)
Yield ==
  /\ Executes({"yield"})
  /\ LET g     == prog[Tok.of].of
         how   == prog[g].how
         v     == Value(Tok.e)
         known == (how = "any" /\ v) \/ (how = "all" /\ ~ v)
         i     == With(iters, g, [of |-> <<>>, acc |-> Gained(how, iters[g].acc, v)])
     IN  IF known THEN Go(at + 1, Forget(Tok.of), Without(i, {Tok.of}), heap)
         ELSE Go(Tok.of, Forget(Tok.of), i, heap)

(* The value of the whole; a list is one nobody has held.                   *)
Result ==
  /\ Executes({"result"})
  /\ LET acc == iters[Tok.of].acc
     IN  IF prog[Tok.of].how = "list"
         THEN \E new \in {env'[Tok.x]} :
                /\ new \notin DOMAIN heap
                /\ Go(at + 1, With(env, Tok.x, new), Leave(Tok.of), With(heap, new, acc))
         ELSE Go(at + 1, With(env, Tok.x, acc), Leave(Tok.of), heap)

Next ==
  \/ Let \/ Append_ \/ Test \/ Pass \/ Break \/ Continue \/ Return
  \/ Begin \/ Turn \/ Exhausted \/ Filter \/ Gather \/ Yield \/ Result
=============================================================================
