------------------------------- MODULE PyInts -------------------------------
(***************************************************************************)
(* What Python says of its operations on integers, which have no width.    *)
(* True and False are 1 and 0.                                             *)
(***************************************************************************)
EXTENDS Integers

Unary  == {"neg", "bitnot"}
Shifts == {"shl", "shr"}
PyOps  == Unary \cup Shifts \cup {"add", "sub", "mul", "floordiv", "mod", "pow"}

(* a to the power of b, as a product.                                       *)
Power(a, b) ==
  LET product[n \in Nat] == IF n = 0 THEN 1 ELSE a * product[n - 1]
  IN  product[b]

(* The quotient rounded towards minus infinity; \div has positive divisors. *)
PyFloorDiv(a, b) == IF b > 0 THEN a \div b ELSE (-a) \div (-b)

(* Python has an integer for the operation: it raises for a zero divisor    *)
(* and a negative shift, and gives a float for a negative exponent.         *)
PyInt(op, a, b) ==
  /\ op \in {"floordiv", "mod"} => b # 0
  /\ op \in Shifts \cup {"pow"} => b >= 0

PyResult(op, a, b) ==
  CASE op = "neg"      -> -a
    [] op = "bitnot"   -> -a - 1
    [] op = "add"      -> a + b
    [] op = "sub"      -> a - b
    [] op = "mul"      -> a * b
    [] op = "floordiv" -> PyFloorDiv(a, b)
    [] op = "mod"      -> a - b * PyFloorDiv(a, b)
    [] op = "shl"      -> a * Power(2, b)
    [] op = "shr"      -> a \div Power(2, b)
    [] op = "pow"      -> Power(a, b)
=============================================================================
