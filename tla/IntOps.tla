------------------------------- MODULE IntOps -------------------------------
(***************************************************************************)
(* One integer operation of a program, slot = l op r: how the checker      *)
(* unifies the widths of its operands, what the code emitted for it        *)
(* computes at that width, and how the result is stored in a slot of       *)
(* another width.                                                          *)
(*                                                                         *)
(* A type is its width in bits.  and, or and xor, one instruction each,    *)
(* and floats are left out.                                                *)
(***************************************************************************)
EXTENDS PyInts

CONSTANTS
  Widths,  \* 8, 16, 32 and 64 in the code
  Word     \* the width of int, 64

Bool == 1

ASSUME WidthAssumption ==
  Widths \subseteq Nat \ {0, Bool} /\ Word \in Widths /\ \A w \in Widths : w <= Word

VARIABLES
  op, l, r,        \* the operation and its operands, each a [t, v]
  to,              \* the type of the slot
  stage,           \* start, pow, store, done; or undefined
  acc, base, exp,  \* the registers: acc holds the result
  slot

input   == <<op, l, r, to>>
intVars == <<input, stage, acc, base, exp, slot>>

-----------------------------------------------------------------------------
(* Types and coercions. *)

MinOf(t)  == -Power(2, t - 1)
Values(t) == IF t = Bool THEN {0, 1} ELSE MinOf(t) .. -MinOf(t) - 1
Typed     == UNION {[t : {t}, v : Values(t)] : t \in Widths \cup {Bool}}

Wrap(t, n) == ((n - MinOf(t)) % Power(2, t)) + MinOf(t)

Coerce_MutantNeverTruncates(x, t) ==
  IF t = Bool THEN IF x.v = 0 THEN 0 ELSE 1 ELSE x.v

(* zext and sext keep the value, trunc wraps it, icmp ne 0 makes a bool.    *)
Coerce(x, t) ==
  IF t = Bool THEN IF x.v = 0 THEN 0 ELSE 1 ELSE Wrap(t, x.v)

IntShaped(t) == IF t = Bool THEN Word ELSE t

Unify_MutantTakesLeft(a, b) == IntShaped(a)

(* Two operands take the wider type, a bool being an int of full width.     *)
Unify(a, b) ==
  IF IntShaped(a) >= IntShaped(b) THEN IntShaped(a) ELSE IntShaped(b)

ResultType ==
  IF op = "pow" THEN Word
  ELSE IF op \in Shifts \cup Unary THEN IntShaped(l.t) ELSE Unify(l.t, r.t)

-----------------------------------------------------------------------------
(* The instructions, at width t.                                            *)

SDiv(a, b) ==
  LET Size(n) == IF n < 0 THEN -n ELSE n
      q       == Size(a) \div Size(b)
  IN  IF (a < 0) = (b < 0) THEN q ELSE -q

SRem(a, b) == a - b * SDiv(a, b)

FloorDiv_MutantExactToo(t, a, b) ==
  Wrap(t, SDiv(a, b) - IF (a < 0) # (b < 0) THEN 1 ELSE 0)

FloorDiv(t, a, b) ==
  LET needs == SRem(a, b) # 0 /\ (a < 0) # (b < 0)
  IN  Wrap(t, SDiv(a, b) - IF needs THEN 1 ELSE 0)

FloorMod(t, a, b) ==
  LET rem   == SRem(a, b)
      needs == rem # 0 /\ (rem < 0) # (b < 0)
  IN  Wrap(t, rem + IF needs THEN b ELSE 0)

(* What LLVM gives no value to: a division by zero or of the least number   *)
(* by -1, a shift by as many bits as there are or by a negative number.     *)
Undefined(t, a, b) ==
  \/ op \in {"floordiv", "mod"} /\ (b = 0 \/ (a = MinOf(t) /\ b = -1))
  \/ op \in Shifts /\ b \notin 0 .. t - 1

Instruction(t, a, b) ==
  CASE op = "neg"      -> Wrap(t, 0 - a)
    [] op = "bitnot"   -> Wrap(t, -1 - a)
    [] op = "add"      -> Wrap(t, a + b)
    [] op = "sub"      -> Wrap(t, a - b)
    [] op = "mul"      -> Wrap(t, a * b)
    [] op = "floordiv" -> FloorDiv(t, a, b)
    [] op = "mod"      -> FloorMod(t, a, b)
    [] op = "shl"      -> Wrap(t, a * Power(2, b))
    [] op = "shr"      -> a \div Power(2, b)

-----------------------------------------------------------------------------
IntInit ==
  /\ op \in PyOps /\ l \in Typed /\ r \in Typed /\ to \in Widths \cup {Bool}
  /\ op \in Unary => r = l
  /\ stage = "start"
  /\ acc = 0 /\ base = 0 /\ exp = 0 /\ slot = 0

Operate ==
  /\ stage = "start" /\ op # "pow"
  /\ LET t == ResultType
         a == Coerce(l, t)
         b == Coerce(r, t)
     IN  \/ Undefined(t, a, b) /\ stage' = "undefined" /\ UNCHANGED acc
         \/ ~ Undefined(t, a, b) /\ stage' = "store" /\ acc' = Instruction(t, a, b)
  /\ UNCHANGED <<input, base, exp, slot>>

(* pyx86_pow_i64, by squaring. *)
EnterPow_MutantAnyExponent ==
  /\ stage = "start" /\ op = "pow"
  /\ stage' = "pow" /\ acc' = 1
  /\ base' = Coerce(l, Word) /\ exp' = Coerce(r, Word)
  /\ UNCHANGED <<input, slot>>

EnterPow ==
  /\ stage = "start" /\ op = "pow"
  /\ IF Coerce(r, Word) < 0
     THEN stage' = "store" /\ acc' = 0 /\ UNCHANGED <<base, exp>>
     ELSE /\ stage' = "pow" /\ acc' = 1
          /\ base' = Coerce(l, Word) /\ exp' = Coerce(r, Word)
  /\ UNCHANGED <<input, slot>>

SquareStep_MutantSquaresFirst ==
  /\ stage = "pow" /\ exp # 0
  /\ base' = Wrap(Word, base * base)
  /\ acc' = IF exp % 2 = 1 THEN Wrap(Word, acc * base') ELSE acc
  /\ exp' = exp \div 2
  /\ UNCHANGED <<input, stage, slot>>

SquareStep ==
  /\ stage = "pow" /\ exp # 0
  /\ acc' = IF exp % 2 = 1 THEN Wrap(Word, acc * base) ELSE acc
  /\ base' = Wrap(Word, base * base)
  /\ exp' = exp \div 2
  /\ UNCHANGED <<input, stage, slot>>

LeavePow ==
  /\ stage = "pow" /\ exp = 0
  /\ stage' = "store"
  /\ UNCHANGED <<input, acc, base, exp, slot>>

Store ==
  /\ stage = "store"
  /\ slot' = Coerce([t |-> ResultType, v |-> acc], to)
  /\ stage' = "done"
  /\ UNCHANGED <<input, acc, base, exp>>

IntNext == Operate \/ EnterPow \/ SquareStep \/ LeavePow \/ Store

IntSpec == IntInit /\ [][IntNext]_intVars /\ WF_intVars(IntNext)

-----------------------------------------------------------------------------
(* Properties. *)

(* A register holds a number of its width, the slot one of its type. *)
IntTypeOK ==
  /\ op \in PyOps /\ l \in Typed /\ r \in Typed /\ to \in Widths \cup {Bool}
  /\ stage \in {"start", "pow", "store", "done", "undefined"}
  /\ acc \in Values(Word) /\ base \in Values(Word) /\ exp \in Values(Word)
  /\ stage = "store" => acc \in Values(ResultType)
  /\ slot \in Values(to)

PyValue == PyResult(op, l.v, r.v)

(* The shift counts the code computes with: fewer bits than the left        *)
(* operand has.                                                             *)
CountFits == op \in Shifts => r.v < ResultType

(* An operation whose Python result fits the type the checker gave it       *)
(* computes exactly that, floor division and modulo of any signs included,  *)
(* and the slot gets it wrapped to its own width.                           *)
ExactInRange ==
  (stage = "done" /\ PyInt(op, l.v, r.v) /\ CountFits /\ PyValue \in Values(ResultType)) =>
    slot = Coerce([t |-> ResultType, v |-> PyValue], to)

(* Beyond that type, sums, products, powers and left shifts wrap as         *)
(* specs/slice-v0.2-arithmetic.md says, "overflows i64 silently (wraps)":   *)
(* the many wrapped steps of the squaring amount to one at the end.         *)
WrapsOnce ==
  (stage = "done" /\ PyInt(op, l.v, r.v) /\ CountFits /\ to \in Widths /\ to <= ResultType) =>
    slot = Wrap(to, PyValue)

(* A program is left without a value only where Python raises too or needs  *)
(* a wider type, and in two places where it does not: the least number      *)
(* modulo -1, and a right shift of at least as many bits as there are.      *)
UndefinedWhere ==
  stage = "undefined" =>
    \/ ~ PyInt(op, l.v, r.v)
    \/ PyValue \notin Values(ResultType)
    \/ op = "mod" /\ l.v = MinOf(ResultType) /\ r.v = -1
    \/ op \in Shifts /\ ~ CountFits

(* The squaring ends for every exponent, the negative ones too. *)
Ends == <>(stage \in {"done", "undefined"})
=============================================================================
