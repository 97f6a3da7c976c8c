------------------------------ MODULE PyLists ------------------------------
(***************************************************************************)
(* Python's lists: names are bound to list objects, several names may be   *)
(* bound to one object, and an object is a sequence that changes in place. *)
(*                                                                         *)
(* A statement with an operand that calls a function is two steps: Begin   *)
(* evaluates the list, End does the operation; in between the function     *)
(* called may append to any list (Callee).  In an item assignment Python   *)
(* evaluates the subscript last, after the value.                          *)
(***************************************************************************)
EXTENDS Integers, Sequences

CONSTANTS
  Names, Values,
  Objects,     \* identities of list objects
  MaxLen,      \* bound: indexes and slice bounds up to MaxLen + 1
  Subscripts,  \* subscripts of item assignments: a number, or Last
  Last,        \* the subscript len(x) - 1
  None

VARIABLES
  obj,    \* the object each name is bound to
  elems,  \* the elements of each object, None before it is made
  open,   \* the statement whose operand is being evaluated, or None
  ret     \* the value of the expression just evaluated, or None

vars == <<obj, elems, open, ret>>

Made == {o \in Objects : elems[o] # None}

Bind(x, s) ==
  \E o \in Objects \ Made :
    /\ obj' = [obj EXCEPT ![x] = o]
    /\ elems' = [elems EXCEPT ![o] = s]

Index(s, o) == IF s = Last THEN Len(elems[o]) - 1 ELSE s

Grown(o, v) == elems' = [elems EXCEPT ![o] = Append(@, v)]

Lower(a, b) == IF a < b THEN a ELSE b

-----------------------------------------------------------------------------
Init ==
  /\ obj = [x \in Names |-> None]
  /\ elems = [o \in Objects |-> None]
  /\ open = None
  /\ ret = None

Literal(x, s) ==
  /\ open = None
  /\ Bind(x, s)
  /\ ret' = None
  /\ UNCHANGED open

Alias(x, y) ==
  /\ open = None /\ obj[y] # None
  /\ obj' = [obj EXCEPT ![x] = obj[y]]
  /\ ret' = None
  /\ UNCHANGED <<elems, open>>

Length(x) ==
  /\ open = None /\ obj[x] # None
  /\ ret' = Len(elems[obj[x]])
  /\ UNCHANGED <<obj, elems, open>>

Begin(op, x, s) ==
  /\ open = None /\ obj[x] # None
  /\ open' = [op |-> op, list |-> obj[x], sub |-> s]
  /\ ret' = None
  /\ UNCHANGED <<obj, elems>>

Callee(x, v) ==
  /\ open # None /\ obj[x] # None
  /\ Grown(obj[x], v)
  /\ ret' = None
  /\ UNCHANGED <<obj, open>>

EndAppend(v) ==
  /\ open # None /\ open.op = "append"
  /\ Grown(open.list, v)
  /\ open' = None
  /\ ret' = None
  /\ UNCHANGED obj

EndStore(v) ==
  /\ open # None /\ open.op = "store"
  /\ Index(open.sub, open.list) \in 0 .. Len(elems[open.list]) - 1
  /\ elems' = [elems EXCEPT ![open.list][Index(open.sub, open.list) + 1] = v]
  /\ open' = None
  /\ ret' = None
  /\ UNCHANGED obj

EndLoad(i) ==
  /\ open # None /\ open.op = "load"
  /\ i < Len(elems[open.list])
  /\ ret' = elems[open.list][i + 1]
  /\ open' = None
  /\ UNCHANGED <<obj, elems>>

EndSlice(x, a, b) ==
  /\ open # None /\ open.op = "slice"
  /\ Bind(x, SubSeq(elems[open.list], a + 1, Lower(b, Len(elems[open.list]))))
  /\ open' = None
  /\ ret' = None

EndConcat(x, z) ==
  /\ open # None /\ open.op = "concat" /\ obj[z] # None
  /\ Bind(x, elems[open.list] \o elems[obj[z]])
  /\ open' = None
  /\ ret' = None

Bounds == 0 .. MaxLen + 1

Next ==
  \/ \E x \in Names, s \in {<<>>} \cup {<<v>> : v \in Values} : Literal(x, s)
  \/ \E x, y \in Names : Alias(x, y)
  \/ \E x \in Names : Length(x)
  \/ \E x \in Names : Begin("append", x, None)
  \/ \E x \in Names : Begin("load", x, None)
  \/ \E x \in Names : Begin("slice", x, None)
  \/ \E x \in Names : Begin("concat", x, None)
  \/ \E x \in Names, s \in Subscripts : Begin("store", x, s)
  \/ \E x \in Names, v \in Values : Callee(x, v)
  \/ \E v \in Values : EndAppend(v)
  \/ \E v \in Values : EndStore(v)
  \/ \E i \in Bounds : EndLoad(i)
  \/ \E x \in Names, a, b \in Bounds : EndSlice(x, a, b)
  \/ \E x, z \in Names : EndConcat(x, z)

Spec == Init /\ [][Next]_vars
=============================================================================
