------------------------------ MODULE PyFrame ------------------------------
(***************************************************************************)
(* The body of a Python function and its local names: which statements run *)
(* in which order, what each name is bound to when it is read, and where   *)
(* reading it raises UnboundLocalError.  Conditions go either way.  One    *)
(* departure from Python is the language's own: a lambda takes the values  *)
(* of its free names when it is made (slice-v0.38-lambdas-closures.md,     *)
(* "captures are by value"), so it is there that an unbound one raises.    *)
(*                                                                         *)
(* A body is a sequence of tokens; reads is the set of names one reads.    *)
(*   [op |-> "let", x, ty, reads]   x = <expression of type ty>            *)
(*   [op |-> "aug", x, reads]       x += <constant>; reads is {x}          *)
(*   [op |-> "comp", x, g, ty, reads]   x = [... for g in ...], a list;    *)
(*                                  ty is the type of g                    *)
(*   [op |-> "lambda", x, params, body, inner]   x = lambda params: ...;   *)
(*                                  body is the sequence of names it reads *)
(*                                  itself, inner the set of those read in *)
(*                                  a comprehension or a lambda inside it  *)
(*   [op |-> "call", x, reads]      calls the callable in x; reads is {x}  *)
(*   "if" ... "else" ... "end", "while" ... "end", "break", "continue",    *)
(*   "return"; if, while and return have reads                             *)
(* A value is [at, env]: the token that made it and, of a callable, the    *)
(* tokens that made what it took.                                          *)
(***************************************************************************)
EXTENDS Integers, Sequences, FiniteSets, SequencesExt, FiniteSetsExt

CONSTANT Params  \* name of a parameter -> its type

VARIABLES
  prog,  \* the body
  last,  \* the statement executed last and whether its condition held
  env,   \* name -> the value it is bound to
  out,   \* what the callable called last had taken: name -> token
  flow   \* "go", "returned" or "raised"

pyVars == <<prog, last, env, out, flow>>

Nothing  == [n \in {} |-> 0]
Plain(k) == [at |-> k, env |-> Nothing]

Init ==
  /\ last = [at |-> 0, holds |-> TRUE]
  /\ env = [p \in DOMAIN Params |-> Plain(0)]
  /\ out = Nothing
  /\ flow = "go"

-----------------------------------------------------------------------------
(* The shape of a text p. *)

(* How many constructs are open before a token. *)
Depth(p, k) ==
  Cardinality({j \in 1 .. k - 1 : p[j].op \in {"if", "while"}})
    - Cardinality({j \in 1 .. k - 1 : p[j].op = "end"})

(* The token of a kind that belongs to the construct opened at k, and the   *)
(* construct a token belongs to.                                            *)
Part(p, k, op) ==
  Min({j \in k + 1 .. Len(p) : p[j].op = op /\ Depth(p, j) = Depth(p, k) + 1})
Opener(p, k) ==
  Max({j \in 1 .. k - 1 : p[j].op \in {"if", "while"} /\ Depth(p, j) = Depth(p, k) - 1})
Close(p, k)  == Part(p, k, "end")
Loops(p, k)  == {j \in 1 .. k - 1 : p[j].op = "while" /\ Close(p, j) > k}
Loop(p, k)   == Max(Loops(p, k))

(* From a place in the text to the statement executed next.  (A break or a  *)
(* continue outside a loop is a SyntaxError: nothing is executed there.)    *)
Settle(p) ==
  LET to[k \in 1 .. Len(p) + 1] ==
        IF k > Len(p) THEN k
        ELSE CASE p[k].op = "else"     -> to[Close(p, Opener(p, k)) + 1]
               [] p[k].op = "end"      -> IF p[Opener(p, k)].op = "while"
                                          THEN Opener(p, k) ELSE to[k + 1]
               [] p[k].op = "break" /\ Loops(p, k) # {}    -> to[Close(p, Loop(p, k)) + 1]
               [] p[k].op = "continue" /\ Loops(p, k) # {} -> Loop(p, k)
               [] OTHER                -> k
  IN  to

-----------------------------------------------------------------------------
Op(k) == prog[k].op

(* The place after the statement executed last, and the next statement.     *)
After ==
  IF last.holds THEN last.at + 1
  ELSE Part(prog, last.at, IF Op(last.at) = "if" THEN "else" ELSE "end") + 1

At == Settle(prog)[After]

Free(k)  == (ToSet(prog[k].body) \cup prog[k].inner) \ prog[k].params
Reads(k) == IF Op(k) = "lambda" THEN Free(k) ELSE prog[k].reads

Executes(k, ops) == flow = "go" /\ k <= Len(prog) /\ Op(k) \in ops
Reaches(k, ops)  == Executes(k, ops) /\ Reads(k) \subseteq DOMAIN env

Passed(k, holds) == last' = [at |-> k, holds |-> holds]
Bound(x, v)      == env' = [y \in DOMAIN env \cup {x} |-> IF y = x THEN v ELSE env[y]]

Bind(k) ==
  /\ Reaches(k, {"let", "aug", "comp"})
  /\ Bound(prog[k].x, Plain(k))
  /\ Passed(k, TRUE)
  /\ UNCHANGED <<prog, out, flow>>

MakeCallable(k) ==
  /\ Reaches(k, {"lambda"})
  /\ Bound(prog[k].x, [at |-> k, env |-> [n \in Reads(k) |-> env[n].at]])
  /\ Passed(k, TRUE)
  /\ UNCHANGED <<prog, out, flow>>

CallIt(k) ==
  /\ Reaches(k, {"call"})
  /\ out' = env[prog[k].x].env
  /\ Passed(k, TRUE)
  /\ UNCHANGED <<prog, env, flow>>

Decide(k) ==
  /\ Reaches(k, {"if", "while"})
  /\ \E b \in BOOLEAN : Passed(k, b)
  /\ UNCHANGED <<prog, env, out, flow>>

Return(k) ==
  /\ Reaches(k, {"return"}) \/ (flow = "go" /\ k > Len(prog))
  /\ flow' = "returned"
  /\ Passed(k, TRUE)
  /\ UNCHANGED <<prog, env, out>>

Raise(k) ==
  /\ Executes(k, {"let", "aug", "comp", "lambda", "call", "if", "while", "return"})
  /\ ~ Reads(k) \subseteq DOMAIN env
  /\ flow' = "raised"
  /\ Passed(k, TRUE)
  /\ UNCHANGED <<prog, env, out>>

Next ==
  LET k == At
  IN  Bind(k) \/ MakeCallable(k) \/ CallIt(k) \/ Decide(k) \/ Return(k) \/ Raise(k)
=============================================================================
