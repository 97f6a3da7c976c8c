------------------------------ MODULE PyObject ------------------------------
(***************************************************************************)
(* What an instance of a user class promises to a compiled program: the    *)
(* attributes hold what was last assigned to them, and a method that is    *)
(* abstract somewhere above runs the body Python's lookup on the           *)
(* instance's own class would find.  A method that is not is dispatched on *)
(* the static type of the receiver (slice-v0.37-vtables.md, "concrete      *)
(* classes that override parent methods still dispatch statically"), which *)
(* is the one departure from Python made here.                             *)
(***************************************************************************)
EXTENDS PyClasses

CONSTANTS None, Vals

VARIABLES
  prog,   \* the class statements of the program
  cls,    \* the class of the instance, or None before it is made
  attrs,  \* its attributes: name -> value
  out     \* what the last read or call gave

pyVars == <<prog, cls, attrs, out>>

(* An attribute not yet assigned may hold anything (CPython raises          *)
(* AttributeError when it is read).                                         *)
Construct(c) ==
  /\ cls = None
  /\ AbstractNames(prog, c) = {}
  /\ cls' = c
  /\ attrs' \in [FieldNames(prog, c) -> Vals]
  /\ UNCHANGED <<prog, out>>

SetAttr(f, v) ==
  /\ cls # None
  /\ f \in DOMAIN attrs
  /\ attrs' = [attrs EXCEPT ![f] = v]
  /\ UNCHANGED <<prog, cls, out>>

GetAttr(f) ==
  /\ cls # None
  /\ f \in DOMAIN attrs
  /\ out' = attrs[f]
  /\ UNCHANGED <<prog, cls, attrs>>

(* The receiver's static type is view. *)
CallMethod(view, m) ==
  /\ cls # None
  /\ view \in ToSet(Mro(prog, cls))
  /\ m \in Inherited(prog, view, Callables)
  /\ out' = <<Supplier(prog, IF m \in Inherited(prog, view, {"abstract"})
                             THEN cls ELSE view, m), m>>
  /\ UNCHANGED <<prog, cls, attrs>>

PyObjectInit ==
  /\ cls = None
  /\ attrs = [f \in {} |-> None]

PyObjectNext ==
  \/ \E k \in DOMAIN prog : Construct(prog[k].name)
  \/ \E f \in DOMAIN attrs : GetAttr(f) \/ \E v \in Vals : SetAttr(f, v)
  \/ \E k \in DOMAIN prog :
       \E m \in Inherited(prog, prog[k].name, Callables) :
         CallMethod(prog[k].name, m)
=============================================================================
