------------------------------ MODULE MCLoader ------------------------------
(* Loader on programs of up to three files: the root, a.py and b.py.  The   *)
(* functions are main, f and g; abs and sorted are builtins of Python, floor *)
(* is one of math, and lower_builtin_call knows abs and floor.              *)
EXTENDS Loader

Import(m, n) == [op |-> "import", from |-> m, names |-> {[name |-> n, as |-> n]}]
ImportAs(m, n, k) == [op |-> "import", from |-> m, names |-> {[name |-> n, as |-> k]}]
Function(n, calls) == [op |-> "def", name |-> n, calls |-> calls]
Class(n) == [op |-> "class", name |-> n]
Other == [op |-> "other"]
Garbage == [op |-> "garbage"]

Mains == {Function("main", cs) : cs \in {{}, {"f"}, {"g"}, {"f", "g"}}}

Roots ==
  LET i == {Import("a", "f"), Import("a", "g")}
      j == {Import("b", "g"), Import("b", "f"), ImportAs("b", "g", "f")}
      m == Mains
  IN  {<<x, y>> : x \in i, y \in m} \cup {<<y, x>> : x \in i, y \in m}
        \cup {<<x, y, z>> : x \in i, y \in j, z \in m}
        \cup {<<x, z, y>> : x \in i, y \in j, z \in m}

As ==
  LET f == {Function("f", cs) : cs \in {{}, {"g"}, {"f", "abs"}}}
      i == {Import("b", "g"), Import("root", "main"), Import("a", "f"),
            Import("b", "f")}
  IN  {<<x>> : x \in f} \cup {<<x, y>> : x \in f, y \in i}
        \cup {<<y, x>> : x \in f, y \in i}

Bs ==
  LET g == {Function("g", cs) : cs \in {{}, {"f"}}}
      i == {Import("a", "f"), Import("root", "g"), Import("a", "g")}
  IN  {<<x>> : x \in g} \cup {<<x, y>> : x \in g, y \in i}
        \cup {<<y, x>> : x \in g, y \in i}
        \cup {<<Function("f", {}), x>> : x \in g}

Files(r, a, b) == [n \in {"root", "a", "b"} |->
                     IF n = "root" THEN r ELSE IF n = "a" THEN a ELSE b]

ThreeFiles == {Files(r, a, b) : r \in Roots, a \in As, b \in Bs}

(* One file: what the compiler rejects, or resolves in its own way. *)
Alone(body) == [n \in {"root"} |-> body]
Main0 == Function("main", {})

OneFile ==
  {Alone(<<Main0, Main0>>), Alone(<<Class("f"), Class("f"), Main0>>),
   Alone(<<Function("f", {})>>), Alone(<<Main0, Other>>),
   Alone(<<Import("c", "f"), Main0>>),
   Alone(<<Class("f"), Function("main", {"f"})>>),
   Alone(<<Class("f"), Function("f", {}), Function("main", {"f"})>>),
   Alone(<<Function("main", {"abs"}), Function("abs", {})>>),
   Alone(<<Import("math", "floor"), Function("main", {"floor", "abs"})>>),
   Alone(<<ImportAs("math", "floor", "f"), Function("main", {"f"})>>),
   Alone(<<Import("root", "main"), Main0>>),
   Alone(<<Main0, Import("root", "main")>>)}

TwoFiles ==
  {Files(<<Import("a", "f"), Function("main", {"f"})>>, a, <<Garbage>>) :
     a \in {<<Class("f")>>, <<Garbage>>, <<Class("main"), Function("f", {})>>,
            <<Function("f", {}), Import("b", "g")>>,
            <<Function("f", {}), Other>>}}
  \cup {Files(<<[op |-> "import", from |-> m, names |-> list],
                Function("main", {"f", "g"})>>,
              <<Import("b", "g"), Function("f", {})>>, <<Function("g", {})>>) :
     m \in {"a", "b"},
     list \in {{[name |-> "f", as |-> "f"], [name |-> "g", as |-> "g"]},
            {[name |-> "f", as |-> "g"], [name |-> "g", as |-> "f"]}}}

(* Functions of the interpreter or of a library that are not lowered        *)
(* inline, or that a file passes on.                                        *)
Foreign ==
  {Alone(<<Function("main", {"sorted"})>>),
   Files(<<Import("a", "f"), Function("main", {"f", "sorted"})>>,
         <<Function("f", {}), Function("sorted", {})>>, <<Garbage>>),
   Files(<<Import("a", "floor"), Function("main", {"floor"})>>,
         <<Import("math", "floor")>>, <<Garbage>>)}

AllPrograms == Foreign \cup OneFile \cup TwoFiles \cup ThreeFiles
=============================================================================
