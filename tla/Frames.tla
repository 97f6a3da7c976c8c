------------------------------- MODULE Frames -------------------------------
(***************************************************************************)
(* One function from its statements to its stack frame at work: the scope  *)
(* check.rs threads through the body (lower_function, lower_block), the    *)
(* lambdas it lifts out (lower_lambda), the slots and the basic blocks     *)
(* codegen.rs gives it (collect_locals, lower_function, lower_block), and  *)
(* the blocks running.                                                     *)
(*                                                                         *)
(* An expression is the set of names it reads and a type.  Loops over      *)
(* iterables are LoopLowering's; a comprehension is one instruction here,  *)
(* that writes the slot of its generator variable and its target's.  That  *)
(* LLVM refuses a load or a store of another type than the slot's is       *)
(* external.                                                               *)
(***************************************************************************)
EXTENDS Integers, Sequences, FiniteSets, SequencesExt, FiniteSetsExt

CONSTANTS
  Params,   \* name of a parameter -> its type
  Programs  \* the bodies compiled

(* The constructs around the place after each token, the innermost last: an *)
(* if is "if" up to its else and "else" from there.                         *)
Nesting(p) ==
  LET around[k \in 0 .. Len(p)] ==
        IF k = 0 THEN <<>>
        ELSE CASE p[k].op \in {"if", "while"} -> Append(around[k - 1], p[k].op)
               [] p[k].op = "else" -> Append(Front(around[k - 1]), "else")
               [] p[k].op = "end"  -> Front(around[k - 1])
               [] OTHER            -> around[k - 1]
  IN  around

Ends(around, ops) == around # <<>> /\ Last(around) \in ops

WellNested(p) ==
  LET around == Nesting(p)
  IN  /\ \A k \in DOMAIN p :
           /\ p[k].op = "else" => Ends(around[k - 1], {"if"})
           /\ p[k].op = "end"  => Ends(around[k - 1], {"else", "while"})
      /\ around[Len(p)] = <<>>

(* A body comes from a syntax tree; a call loads its callable and no more,  *)
(* and a lambda's body is the names it reads, in order.                     *)
Ops == {"let", "aug", "comp", "lambda", "call", "if", "else", "while", "end",
        "break", "continue", "return"}

ASSUME ProgramsAssumption ==
  \A p \in Programs :
    /\ p \in Seq(ToSet(p))
    /\ \A k \in DOMAIN p :
         /\ p[k].op \in Ops
         /\ p[k].op = "call"   => p[k].reads = {p[k].x}
         /\ p[k].op = "lambda" => p[k].body \in Seq(ToSet(p[k].body))
    /\ WellNested(p)

VARIABLES
  prog,    \* the body, a sequence of tokens: see PyFrame
  status,  \* "source", "checked", "rejected", "emitted", "panicked",
           \* "refused" (by LLVM), "go", "returned" or "undefined"
  code,    \* label -> the instructions of its block
  pc,      \* [block, at]: the next instruction
  slots,   \* %x.addr: name -> value, for the slots written so far
  out,     \* what the callable called last read from its environment
  last     \* history: the statement executed last and its condition

vars == <<prog, status, code, pc, slots, out, last>>

Op(k) == prog[k].op

(* f with the value v at x. *)
With(f, x, v) == [y \in DOMAIN f \cup {x} |-> IF y = x THEN v ELSE f[y]]

-----------------------------------------------------------------------------
(* check.rs *)

(* The scope before a token: one map from names to types, filled in the     *)
(* order of the text, branches and loops included.                          *)
Type(k) == CASE Op(k) = "let"    -> prog[k].ty
             [] Op(k) = "comp"   -> "list"
             [] Op(k) = "lambda" -> "callable"

Scope(k) ==
  LET inserts == {j \in 1 .. k - 1 : Op(j) \in {"let", "comp", "lambda"}}
      of(n)   == {j \in inserts : prog[j].x = n}
  IN  [n \in DOMAIN Params \cup {prog[j].x : j \in inserts} |->
         IF of(n) = {} THEN Params[n] ELSE Type(Max(of(n)))]

(* The environment of a lambda: the names its body reads itself that are    *)
(* neither parameters nor unknown, each once.                               *)
Collect(fields, n, params, scope) ==
  IF n \in params \/ n \notin scope \/ n \in ToSet(fields)
  THEN fields ELSE Append(fields, n)

Captured(lambda, scope) ==
  LET fields[i \in 0 .. Len(lambda.body)] ==
        IF i = 0 THEN <<>>
        ELSE Collect(fields[i - 1], lambda.body[i], lambda.params, scope)
  IN  fields[Len(lambda.body)]

Fields(k) == Captured(prog[k], DOMAIN Scope(k))

-----------------------------------------------------------------------------
(* What of the frame a Python function has: the names it assigns, without   *)
(* the helpers and generator variables, and callables by their environment. *)
IsCallable(v) == v.at # 0 /\ Op(v.at) = "lambda"

EnvVar(v, n) == v.env[CHOOSE i \in DOMAIN v.env : Fields(v.at)[i] = n]

Taken(v) ==
  [n \in (IF IsCallable(v) THEN ToSet(Fields(v.at)) ELSE {}) |-> EnvVar(v, n)]

Assigned == {prog[k].x : k \in {j \in DOMAIN prog :
               Op(j) \in {"let", "aug", "comp", "lambda"}}}

Locals ==
  [n \in DOMAIN slots \cap (Assigned \cup DOMAIN Params) |->
     [at |-> slots[n].at, env |-> Taken(slots[n])]]

Flow == CASE status = "returned"  -> "returned"
          [] status = "undefined" -> "raised"
          [] OTHER -> "go"

Python == INSTANCE PyFrame WITH env <- Locals, flow <- Flow

-----------------------------------------------------------------------------
Word(k) == [at |-> k, env |-> <<>>]
Entry == <<"entry", 0>>

Init ==
  /\ prog \in Programs
  /\ status = "source"
  /\ code = [l \in {Entry} |-> <<>>]
  /\ pc = [block |-> Entry, at |-> 1]
  /\ slots = [p \in DOMAIN Params |-> Word(0)]
  /\ out = Python!Nothing
  /\ last = [at |-> 0, holds |-> TRUE]

(* Every name an expression reads is in scope.  The body of a lambda has a  *)
(* scope of its own: its parameters and its environment.                    *)
NamesKnown(k) ==
  IF Op(k) = "lambda"
  THEN Python!Free(k) \subseteq ToSet(Fields(k))
  ELSE Python!Reads(k) \subseteq DOMAIN Scope(k)

InLoop(k) == "while" \in ToSet(Nesting(prog)[k - 1])  \* loop_depth > 0

WellFormed(k) ==
  /\ Op(k) \in {"break", "continue"} => InLoop(k)
  /\ Op(k) \notin {"else", "end", "break", "continue"} => NamesKnown(k)
  /\ Op(k) = "aug" => Scope(k)[prog[k].x] \in {"int", "float"}
  /\ Op(k) = "call" => Scope(k)[prog[k].x] = "callable"

(* block_always_returns of the block that ends before token k. *)
AlwaysReturns(p) ==
  LET returns[k \in 1 .. Len(p) + 1] ==
        /\ k > 1
        /\ \/ p[k - 1].op = "return"
           \/ /\ p[k - 1].op = "end"
              /\ LET if == Python!Opener(p, k - 1)
                 IN  /\ p[if].op = "if"
                     /\ p[k - 2].op # "else"
                     /\ returns[Python!Part(p, if, "else")]
                     /\ returns[k - 1]
  IN  returns

Accepts ==
  /\ \A k \in DOMAIN prog : WellFormed(k)
  /\ AlwaysReturns(prog)[Len(prog) + 1]

Check ==
  /\ status = "source"
  /\ status' = IF Accepts THEN "checked" ELSE "rejected"
  /\ UNCHANGED <<prog, code, pc, slots, out, last>>

-----------------------------------------------------------------------------
(* codegen.rs: slots. *)

(* The names token k stores to, helpers aside, in the order collect_locals  *)
(* meets them.                                                              *)
Lets(k) ==
  CASE Op(k) = "let"    -> <<[name |-> prog[k].x, ty |-> Type(k)]>>
    [] Op(k) = "aug"    -> <<[name |-> prog[k].x, ty |-> Scope(k)[prog[k].x]]>>
    [] Op(k) = "lambda" -> <<[name |-> prog[k].x, ty |-> Type(k)]>>
    [] Op(k) = "comp"   -> <<[name |-> prog[k].x, ty |-> Type(k)],
                             [name |-> prog[k].g, ty |-> prog[k].ty]>>
    [] OTHER -> <<>>

(* Every let of the function, dead ones included; the first of a name is    *)
(* its declaration.                                                         *)
AllLets == FoldLeft(LAMBDA all, k : all \o Lets(k), <<>>, [k \in DOMAIN prog |-> k])

Declared(n) == SelectSeq(AllLets, LAMBDA l : l.name = n)[1].ty

SlotType(n) == IF n \in DOMAIN Params THEN Params[n] ELSE Declared(n)

(* "should be rejected by check"; and a lifted lambda that still reads a    *)
(* captured name as a variable of its own, because rewrite_var_to_env goes  *)
(* neither into the statements of a comprehension nor into a lambda.        *)
Panics ==
  \/ \E l \in ToSet(AllLets) :
       l.name \in DOMAIN Params /\ Declared(l.name) # Params[l.name]
  \/ \E k \in DOMAIN prog :
       Op(k) = "lambda" /\ prog[k].inner \cap ToSet(Fields(k)) # {}

-----------------------------------------------------------------------------
(* codegen.rs: blocks.  The state of the emission is a record: code and the *)
(* label here of the block being written; done, block_terminated; skip, the *)
(* depth of the constructs passed over since; open, the constructs around   *)
(* the next token; ids, next_block_id.                                      *)

Emit(e, op, k, to) ==
  [e EXCEPT !.code[e.here] = Append(@, [op |-> op, k |-> k, to |-> to])]

Terminate(e, op, k, to) == [Emit(e, op, k, to) EXCEPT !.done = TRUE]

Br(e, label) == Terminate(e, "br", 0, <<label>>)

BrUnlessDone_MutantAlways(e, label) == Br(e, label)

BrUnlessDone(e, label) == IF e.done THEN e ELSE Br(e, label)

OpenBlock(e, label) ==
  [e EXCEPT !.code = With(@, label, <<>>), !.here = label, !.done = FALSE]

Push(e, op) == [e EXCEPT !.open = Append(@, [op |-> op, id |-> e.ids]), !.ids = @ + 1]
Pop(e) == [e EXCEPT !.open = Front(@)]

EmitIf(e, k) ==
  LET labels == <<<<"then", e.ids>>, <<"else", e.ids>>>>
  IN  OpenBlock(Terminate(Push(e, "if"), "if", k, labels), labels[1])

EmitElse(e) ==
  LET id == Last(e.open).id
  IN  OpenBlock(BrUnlessDone(e, <<"merge", id>>), <<"else", id>>)

EmitWhile(e, k) ==
  LET header == <<"loop_header", e.ids>>
      labels == <<<<"loop_body", e.ids>>, <<"loop_exit", e.ids>>>>
  IN  OpenBlock(Terminate(OpenBlock(Br(Push(e, "while"), header), header),
                          "while", k, labels), labels[1])

EmitEnd(e) ==
  LET id == Last(e.open).id
      Arrive(f, label) == OpenBlock(BrUnlessDone(f, label), label)
  IN  Pop(IF Last(e.open).op = "if" THEN Arrive(e, <<"merge", id>>)
          ELSE OpenBlock(BrUnlessDone(Arrive(e, <<"loop_latch", id>>),
                                      <<"loop_header", id>>),
                         <<"loop_exit", id>>))

(* The top of loop_targets. *)
Whiles(e) == {i \in DOMAIN e.open : e.open[i].op = "while"}

Target_MutantOutermost(e) == e.open[Min(Whiles(e))].id

Target(e) == e.open[Max(Whiles(e))].id

EmitToken(e, k) ==
  CASE e.skip > 0 /\ Op(k) \in {"if", "while"} -> [e EXCEPT !.skip = @ + 1]
    [] e.skip > 0 /\ Op(k) = "end"  -> [e EXCEPT !.skip = @ - 1]
    [] e.skip > 0 /\ Op(k) \notin {"if", "while", "end"} -> e
    [] e.skip = 0 /\ Op(k) = "else" -> EmitElse(e)
    [] e.skip = 0 /\ Op(k) = "end"  -> EmitEnd(e)
    [] OTHER ->
         IF e.done
         THEN [e EXCEPT !.skip = IF Op(k) \in {"if", "while"} THEN 1 ELSE 0]
         ELSE CASE Op(k) = "if"       -> EmitIf(e, k)
                [] Op(k) = "while"    -> EmitWhile(e, k)
                [] Op(k) = "break"    -> Br(e, <<"loop_exit", Target(e)>>)
                [] Op(k) = "continue" -> Br(e, <<"loop_latch", Target(e)>>)
                [] Op(k) = "return"   -> Terminate(e, "return", k, <<>>)
                [] OTHER              -> Emit(e, Op(k), k, <<>>)

Start == [code |-> [l \in {Entry} |-> <<>>], here |-> Entry, done |-> FALSE,
          skip |-> 0, open |-> <<>>, ids |-> 0]

Emission ==
  LET after[k \in 0 .. Len(prog)] ==
        IF k = 0 THEN Start ELSE EmitToken(after[k - 1], k)
  IN  after

Emitted ==
  LET body == Emission[Len(prog)]
  IN  IF body.done THEN body ELSE Terminate(body, "unreachable", 0, <<>>)

Generate ==
  /\ status = "checked"
  /\ IF Panics THEN status' = "panicked" /\ UNCHANGED code
     ELSE status' = "emitted" /\ code' = Emitted.code
  /\ UNCHANGED <<prog, pc, slots, out, last>>

Live == {ins.k : ins \in UNION {ToSet(code[l]) : l \in DOMAIN code}} \ {0}

WellTyped ==
  \A k \in Live :
    /\ \A l \in ToSet(Lets(k)) : l.ty = SlotType(l.name)
    /\ \A n \in Python!Reads(k) : Scope(k)[n] = SlotType(n)

Link ==
  /\ status = "emitted"
  /\ status' = IF WellTyped THEN "go" ELSE "refused"
  /\ UNCHANGED <<prog, code, pc, slots, out, last>>

-----------------------------------------------------------------------------
(* The compiled function. *)

Now == code[pc.block][pc.at]

Loads == IF Now.op = "lambda" THEN ToSet(Fields(Now.k)) ELSE prog[Now.k].reads

Reaches(ops) == status = "go" /\ Now.op \in ops
Executes(ops) == Reaches(ops) /\ Loads \subseteq DOMAIN slots

Advance(holds) == last' = [at |-> Now.k, holds |-> holds]
GoOn == pc' = [pc EXCEPT !.at = @ + 1]
GoTo(label) == pc' = [block |-> label, at |-> 1]
Store(x, v) == slots' = With(slots, x, v)

Jump ==
  /\ Reaches({"br"})
  /\ GoTo(Now.to[1])
  /\ UNCHANGED <<prog, status, code, slots, out, last>>

Let ==
  /\ Executes({"let", "aug"})
  /\ Store(prog[Now.k].x, Word(Now.k))
  /\ Advance(TRUE)
  /\ GoOn
  /\ UNCHANGED <<prog, status, code, out>>

(* Unless the iterable is empty the generator variable's slot is written.   *)
Comprehend ==
  /\ Executes({"comp"})
  /\ \E written \in {slots, With(slots, prog[Now.k].g, Word(Now.k))} :
       slots' = With(written, prog[Now.k].x, Word(Now.k))
  /\ Advance(TRUE)
  /\ GoOn
  /\ UNCHANGED <<prog, status, code, out>>

LambdaValue ==
  /\ Executes({"lambda"})
  /\ Store(prog[Now.k].x,
           [at |-> Now.k,
            env |-> [i \in DOMAIN Fields(Now.k) |-> slots[Fields(Now.k)[i]].at]])
  /\ Advance(TRUE)
  /\ GoOn
  /\ UNCHANGED <<prog, status, code, out>>

(* The body of the lambda reads its environment by the index of the field.  *)
IndirectCall ==
  /\ Executes({"call"})
  /\ out' = Taken(slots[prog[Now.k].x])
  /\ Advance(TRUE)
  /\ GoOn
  /\ UNCHANGED <<prog, status, code, slots>>

Test ==
  /\ Executes({"if", "while"})
  /\ \E b \in BOOLEAN : Advance(b) /\ GoTo(Now.to[IF b THEN 1 ELSE 2])
  /\ UNCHANGED <<prog, status, code, slots, out>>

Return ==
  /\ Executes({"return"})
  /\ status' = "returned"
  /\ Advance(TRUE)
  /\ UNCHANGED <<prog, code, pc, slots, out>>

(* A load from a slot never written, and unreachable: undefined behaviour.  *)
Undefined ==
  /\ Reaches({"unreachable", "let", "aug", "comp", "lambda", "call", "if", "while",
              "return"})
  /\ Now.op # "unreachable" => ~ Loads \subseteq DOMAIN slots
  /\ status' = "undefined"
  /\ Advance(TRUE)
  /\ UNCHANGED <<prog, code, pc, slots, out>>

Run == Jump \/ Let \/ Comprehend \/ LambdaValue \/ IndirectCall
         \/ Test \/ Return \/ Undefined

Next == Check \/ Generate \/ Link \/ Run

Spec == Init /\ [][Next]_vars

-----------------------------------------------------------------------------
(* Properties. *)

(* Every variable has its type; the blocks are well formed: each ends in    *)
(* one terminator, which is its last instruction, and goes to blocks that   *)
(* exist, whatever returns, breaks and dead statements the body has.        *)
Terminators == {"br", "if", "while", "return", "unreachable"}

TypeOK ==
  /\ status \in {"source", "checked", "rejected", "emitted", "panicked",
                 "refused", "go", "returned", "undefined"}
  /\ status = "emitted" =>
       \A l \in DOMAIN code :
         /\ code[l] # <<>>
         /\ \A i \in DOMAIN code[l] :
              /\ code[l][i].op \in Terminators <=> i = Len(code[l])
              /\ ToSet(code[l][i].to) \subseteq DOMAIN code
  /\ pc.block \in DOMAIN code
  /\ status \in {"go", "returned", "undefined"} => pc.at \in DOMAIN code[pc.block]
  /\ \A n \in DOMAIN slots : slots[n].at \in 0 .. Len(prog)

(* The generator variable of a comprehension has a scope of its own but no  *)
(* slot of its own (check.rs, "so the loop var doesn't leak").              *)
SharesGenerator ==
  \E k \in DOMAIN prog :
    Op(k) = "comp" /\ prog[k].g \in Assigned \cup DOMAIN Params

(* The blocks of a function that is compiled do what Python does: the same  *)
(* statements in the same order, each name read has the value Python has    *)
(* bound it to, a callable what it took when it was made, and a slot never  *)
(* written is read exactly where Python raises UnboundLocalError.           *)
ImplementsPyFrame ==
  /\ Python!Init
  /\ [][~ SharesGenerator => Python!Next]_(Python!pyVars)
=============================================================================
