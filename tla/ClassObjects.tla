---------------------------- MODULE ClassObjects ----------------------------
(***************************************************************************)
(* The compiled program at work on one instance: lower_class_new,          *)
(* lower_field_get, lower_set_field, the upcast of coerce, virtual and     *)
(* static calls, all reading the tables ClassTable has built.              *)
(*                                                                         *)
(* An instance is its memory, one cell per slot of its class's struct (all *)
(* fields are taken to be 8 bytes wide, as the vtable pointer is; struct   *)
(* padding is not modelled).  It is used through a pointer to the struct   *)
(* of any class it was upcast to: the view.  Arguments are left out.       *)
(***************************************************************************)
EXTENDS ClassTable

CONSTANTS
  Vals,     \* values a field may hold
  Zero,     \* the zero among them
  InitName  \* the number of the name __init__

ASSUME ZeroAssumption == Zero \in Vals

VARIABLES
  self,   \* the class of the instance, or None
  cells,  \* its memory: slot of the struct -> value or vtable pointer
  out     \* what the last read or call gave

objVars == <<self, cells, out>>
allVars == <<classVars, objVars>>

ObjInit ==
  /\ Init
  /\ self = None
  /\ cells = <<>>
  /\ out = None

CompileStep == Compile /\ UNCHANGED objVars

Running == phase = "done" /\ self # None

(* The classes the receiver may be typed as. *)
Views == IF self = None THEN {} ELSE ToSet(Chain(self)) \ {ABC}

HasStatic(c, m)   == \E d \in ToSet(Chain(c)) : m \in table[d].statics
HasProperty(c, m) == \E d \in ToSet(Chain(c)) : m \in table[d].props

(* field_slot_index *)
FieldSlot_MutantUnshifted(c, f) == Min(Positions(table[c].fields, f))

FieldSlot(c, f) ==
  Min(Positions(table[c].fields, f)) + (IF NeedsVtable(c) THEN 1 ELSE 0)

(* The cell a struct of class c starts with when c carries a vtable; it is  *)
(* stored before __init__ runs.                                             *)
Pointer(c) == <<"vtable", c>>

(* C(...): without any __init__ in the chain the memory is zeroed, with one *)
(* it is what malloc returned, and __init__ then assigns fields as any      *)
(* other method does, through a view of the class that defines it.          *)
New(c) ==
  /\ phase = "done"
  /\ self = None
  /\ ~ IsAbstract(c)
  /\ self' = c
  /\ \E memory \in [DOMAIN Layout(c) ->
                      IF Resolve(c, InitName, sigs) = None THEN {Zero} ELSE Vals] :
       cells' = [k \in DOMAIN Layout(c) |->
                   IF NeedsVtable(c) /\ k = 1 THEN Pointer(c) ELSE memory[k]]
  /\ UNCHANGED <<classVars, out>>

(* A store or a load beyond the allocation is undefined behaviour: here the *)
(* store goes nowhere and the load gives None.                              *)
SetField(view, f, v) ==
  /\ Running
  /\ cells' = [k \in DOMAIN cells |->
                 IF k = FieldSlot(view, f) THEN v ELSE cells[k]]
  /\ UNCHANGED <<classVars, self, out>>

GetField(view, f) ==
  /\ Running
  /\ out' = IF FieldSlot(view, f) \in DOMAIN cells
            THEN cells[FieldSlot(view, f)] ELSE None
  /\ UNCHANGED <<classVars, self, cells>>

(* The call goes through slot 0 of the memory and the slot number the view  *)
(* gives the method.  A jump through a cell that is no vtable gives None.   *)
CallVirtual_MutantViewTable(view, m) ==
  /\ Running
  /\ ~ HasStatic(view, m)
  /\ NeedsVtable(view)
  /\ Positions(table[view].slots, m) # {}
  /\ LET k == Min(Positions(table[view].slots, m))
         d == IF view \in DOMAIN vtable THEN view ELSE self
     IN  out' = IF cells[1] = Pointer(self) THEN vtable[d][k] ELSE None
  /\ UNCHANGED <<classVars, self, cells>>

CallVirtual(view, m) ==
  /\ Running
  /\ ~ HasStatic(view, m)
  /\ NeedsVtable(view)
  /\ Positions(table[view].slots, m) # {}
  /\ LET k == Min(Positions(table[view].slots, m))
     IN  out' = IF cells # <<>> /\ cells[1] = Pointer(self)
                THEN vtable[self][k] ELSE None
  /\ UNCHANGED <<classVars, self, cells>>

(* obj.m() on a name without a slot, a static method, or a property read.   *)
CallDirect(view, m) ==
  /\ Running
  /\ HasStatic(view, m) \/ HasProperty(view, m)
       \/ Positions(table[view].slots, m) = {}
  /\ Resolve(view, m, sigs) # None
  /\ out' = <<Resolve(view, m, sigs), m>>
  /\ UNCHANGED <<classVars, self, cells>>

ObjectStep ==
  \/ \E c \in DOMAIN table \ {ABC} : New(c)
  \/ \E view \in Views :
       \/ \E f \in ToSet(table[view].fields) :
            GetField(view, f) \/ \E v \in Vals : SetField(view, f, v)
       \/ \E m \in {s[2] : s \in sigs} :
            CallVirtual(view, m) \/ CallDirect(view, m)

Next == CompileStep \/ ObjectStep

Spec == ObjInit /\ [][Next]_allVars

-----------------------------------------------------------------------------
(* Properties. *)

(* The vtable pointer of an instance is the one its constructor stored: no  *)
(* assignment to a field, through whatever view, lands on it.               *)
PointerIntact ==
  (self # None /\ NeedsVtable(self)) => cells[1] = Pointer(self)

Attrs ==
  [f \in (IF self = None THEN {} ELSE ToSet(table[self].fields)) |->
     cells[FieldSlot(self, f)]]

(* No name is a static method or a property in one class and something      *)
(* else in another of the program.                                          *)
SameKind(p) ==
  \A j, k \in DOMAIN p : \A kind \in {"static", "property"} :
    Binds(p[j], {kind}) \cap Binds(p[k], Kinds \ {kind}) = {}

(* Behind structs, bitcasts and vtables, a Python object: whatever view an  *)
(* attribute is written or read through it is the same attribute, and an    *)
(* abstract method reaches the body of the instance's own class.  (A call   *)
(* of a name without a slot is bound to the view's class, as the language   *)
(* of the repository says; a static method or a property that meets a name  *)
(* of another kind is outside the property.)                                *)
Python == INSTANCE PyObject WITH cls <- self, attrs <- Attrs
ImplementsPyObject ==
  /\ Python!PyObjectInit
  /\ [][SameKind(prog) => Python!PyObjectNext]_(Python!pyVars)
=============================================================================
