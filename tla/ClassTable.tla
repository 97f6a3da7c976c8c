----------------------------- MODULE ClassTable -----------------------------
(***************************************************************************)
(* The class table: phases 0a, 0b and 0c of check.rs::lower_module_into,   *)
(* which turn the class statements of a module into field lists, abstract  *)
(* sets, vtable roots and vtable slots, and codegen.rs's vtable section,   *)
(* which turns those into constants.                                       *)
(*                                                                         *)
(* Each phase runs over the classes in the order of the file; 0b takes     *)
(* one step per item of a class body.  Types of fields and signatures of   *)
(* methods are left out, and so are the rejections of forms that never     *)
(* reach the table (several bases, class decorators, stacked decorators).  *)
(***************************************************************************)
EXTENDS PyClasses

CONSTANTS
  None,      \* no class: Option::None
  Programs   \* the programs compiled: sequences of class declarations

ASSUME NoneAssumption == None \notin {ABC, NoBase}

(* A class statement has a name and a sequence of items.                    *)
ASSUME ProgramsAssumption ==
  \A p \in Programs :
    /\ p \in Seq(ToSet(p))
    /\ \A k \in DOMAIN p : /\ p[k].name \notin {None, NoBase}
                          /\ p[k].body \in Seq([kind : Kinds, name : Nat])

VARIABLES
  prog,           \* module.body: the declarations, in file order
  phase,          \* the pass the compiler is in, or how it ended
  at,             \* index of the class the pass is at
  item,           \* index of the body item; 0 before the class is opened
  table,          \* CLASS_REGISTRY and CLASS_ARENA: name -> ClassDef
  fields,         \* `fields` of the class being processed
  unimplemented,  \* `unimplemented` of the class being processed
  sigs,           \* the <<class, method>> pairs with a signature
  bodies,         \* those with a body: prog.functions
  width,          \* %VTable_<root>: root -> number of slots of the type
  vtable          \* @vtable_<class>: class -> sequence of function names

source == <<prog>>
cursor == <<phase, at, item>>
local  == <<fields, unimplemented>>
funcs  == <<sigs, bodies>>
consts == <<width, vtable>>
classVars == <<source, cursor, table, local, funcs, consts>>

NewClass == [parent |-> None, fields |-> <<>>, abstract |-> {},
             root |-> None, slots |-> <<>>, props |-> {}, statics |-> {}]

Init ==
  /\ prog \in Programs
  /\ phase = "0a" /\ at = 1 /\ item = 0
  /\ table = [c \in {ABC} |-> NewClass]
  /\ fields = <<>> /\ unimplemented = {}
  /\ sigs = {} /\ bodies = {}
  /\ width = [c \in {} |-> 0]
  /\ vtable = [c \in {} |-> <<>>]

-----------------------------------------------------------------------------
(* What the passes read from the table. *)

InRange == at \in DOMAIN prog
Class   == prog[at].name
Body    == prog[at].body
Item    == Body[item]

IsAbstract(c)  == table[c].abstract # {}
NeedsVtable(c) == table[c].root # None

(* c, its parent, and so on: the walk of resolve_method and has_property. *)
Chain(c) ==
  LET up[k \in 0 .. Cardinality(DOMAIN table)] ==
        IF k = 0 THEN <<c>>
        ELSE LET p == table[Last(up[k - 1])].parent
             IN  IF p = None THEN up[k - 1] ELSE Append(up[k - 1], p)
  IN  up[Cardinality(DOMAIN table)]

(* The first class from c upwards with an entry for m, or None. *)
Resolve_MutantFromRoot(c, m, defined) ==
  LET hits == {k \in DOMAIN Chain(c) : <<Chain(c)[k], m>> \in defined}
  IN  IF hits = {} THEN None ELSE Chain(c)[Max(hits)]

Resolve(c, m, defined) ==
  LET hits == {k \in DOMAIN Chain(c) : <<Chain(c)[k], m>> \in defined}
  IN  IF hits = {} THEN None ELSE Chain(c)[Min(hits)]

VtableCell == -1   \* no field has this number

(* Slot 0 of a chain's instances is the vtable pointer, the fields follow. *)
Layout(c) ==
  (IF NeedsVtable(c) THEN <<VtableCell>> ELSE <<>>) \o table[c].fields

Positions(s, x) == {k \in DOMAIN s : s[k] = x}

-----------------------------------------------------------------------------
Reject ==
  /\ phase' = "rejected"
  /\ UNCHANGED <<source, at, item, table, local, funcs, consts>>

NextPass(from, to) ==
  /\ phase = from
  /\ ~ InRange
  /\ phase' = to
  /\ at' = 1
  /\ UNCHANGED <<source, item, table, local, funcs, consts>>

(* Phase 0a: every class name is known before any body is read. *)
Register ==
  /\ phase = "0a"
  /\ InRange
  /\ Class \notin DOMAIN table
  /\ table' = [c \in DOMAIN table \cup {Class} |->
                 IF c = Class THEN NewClass ELSE table[c]]
  /\ at' = at + 1
  /\ UNCHANGED <<source, phase, item, local, funcs, consts>>

RejectDuplicateClass ==
  /\ phase = "0a"
  /\ InRange
  /\ Class \in DOMAIN table
  /\ Reject

-----------------------------------------------------------------------------
(* Phase 0b: bases, fields and methods. *)

OpenClass_MutantDropFields ==
  /\ phase = "0b"
  /\ InRange
  /\ item = 0
  /\ prog[at].base \in DOMAIN table \cup {NoBase}
  /\ LET p == IF prog[at].base = NoBase THEN None ELSE prog[at].base
     IN  /\ table' = [table EXCEPT ![Class].parent = p]
         /\ fields' = <<>>
         /\ unimplemented' = IF p = None THEN {} ELSE table[p].abstract
  /\ item' = 1
  /\ UNCHANGED <<source, phase, at, funcs, consts>>

OpenClass_MutantForgetsAbstract ==
  /\ phase = "0b"
  /\ InRange
  /\ item = 0
  /\ prog[at].base \in DOMAIN table \cup {NoBase}
  /\ LET p == IF prog[at].base = NoBase THEN None ELSE prog[at].base
     IN  /\ table' = [table EXCEPT ![Class].parent = p]
         /\ fields' = IF p = None THEN <<>> ELSE table[p].fields
         /\ unimplemented' = {}
  /\ item' = 1
  /\ UNCHANGED <<source, phase, at, funcs, consts>>

OpenClass ==
  /\ phase = "0b"
  /\ InRange
  /\ item = 0
  /\ prog[at].base \in DOMAIN table \cup {NoBase}
  /\ LET p == IF prog[at].base = NoBase THEN None ELSE prog[at].base
     IN  /\ table' = [table EXCEPT ![Class].parent = p]
         /\ fields' = IF p = None THEN <<>> ELSE table[p].fields
         /\ unimplemented' = IF p = None THEN {} ELSE table[p].abstract
  /\ item' = 1
  /\ UNCHANGED <<source, phase, at, funcs, consts>>

RejectUnknownBase ==
  /\ phase = "0b"
  /\ InRange
  /\ item = 0
  /\ prog[at].base \notin DOMAIN table \cup {NoBase}
  /\ Reject

AtItem(kinds) ==
  /\ phase = "0b"
  /\ InRange
  /\ item \in DOMAIN Body
  /\ Item.kind \in kinds

AddField ==
  /\ AtItem({"field"})
  /\ Positions(fields, Item.name) = {}
  /\ fields' = Append(fields, Item.name)
  /\ item' = item + 1
  /\ UNCHANGED <<source, phase, at, table, unimplemented, funcs, consts>>

RejectDuplicateField ==
  /\ AtItem({"field"})
  /\ Positions(fields, Item.name) # {}
  /\ Reject

(* A @staticmethod override implements an inherited abstract name too. *)
AddStatic ==
  /\ AtItem({"static"})
  /\ <<Class, Item.name>> \notin sigs
  /\ sigs' = sigs \cup {<<Class, Item.name>>}
  /\ bodies' = bodies \cup {<<Class, Item.name>>}
  /\ table' = [table EXCEPT ![Class].statics = @ \cup {Item.name}]
  /\ unimplemented' = unimplemented \ {Item.name}
  /\ item' = item + 1
  /\ UNCHANGED <<source, phase, at, fields, consts>>

(* An abstract method has a signature and no body. *)
AddAbstract ==
  /\ AtItem({"abstract"})
  /\ <<Class, Item.name>> \notin sigs
  /\ sigs' = sigs \cup {<<Class, Item.name>>}
  /\ unimplemented' = unimplemented \cup {Item.name}
  /\ item' = item + 1
  /\ UNCHANGED <<source, phase, at, table, fields, bodies, consts>>

AddMethod_MutantKeepsAbstract ==
  /\ AtItem({"method", "property"})
  /\ <<Class, Item.name>> \notin sigs
  /\ sigs' = sigs \cup {<<Class, Item.name>>}
  /\ bodies' = bodies \cup {<<Class, Item.name>>}
  /\ table' = IF Item.kind = "property"
              THEN [table EXCEPT ![Class].props = @ \cup {Item.name}]
              ELSE table
  /\ item' = item + 1
  /\ UNCHANGED <<source, phase, at, fields, unimplemented, consts>>

AddMethod_MutantNoSignature ==
  /\ AtItem({"method", "property"})
  /\ <<Class, Item.name>> \notin sigs
  /\ bodies' = bodies \cup {<<Class, Item.name>>}
  /\ table' = IF Item.kind = "property"
              THEN [table EXCEPT ![Class].props = @ \cup {Item.name}]
              ELSE table
  /\ unimplemented' = unimplemented \ {Item.name}
  /\ item' = item + 1
  /\ UNCHANGED <<source, phase, at, fields, sigs, consts>>

AddMethod ==
  /\ AtItem({"method", "property"})
  /\ <<Class, Item.name>> \notin sigs
  /\ sigs' = sigs \cup {<<Class, Item.name>>}
  /\ bodies' = bodies \cup {<<Class, Item.name>>}
  /\ table' = IF Item.kind = "property"
              THEN [table EXCEPT ![Class].props = @ \cup {Item.name}]
              ELSE table
  /\ unimplemented' = unimplemented \ {Item.name}
  /\ item' = item + 1
  /\ UNCHANGED <<source, phase, at, fields, consts>>

RejectDuplicateMethod ==
  /\ AtItem(Callables)
  /\ <<Class, Item.name>> \in sigs
  /\ Reject

CloseClass ==
  /\ phase = "0b"
  /\ InRange
  /\ item > Len(Body)
  /\ table' = [table EXCEPT ![Class].fields = fields,
                            ![Class].abstract = unimplemented]
  /\ item' = 0
  /\ at' = at + 1
  /\ UNCHANGED <<source, phase, local, funcs, consts>>

-----------------------------------------------------------------------------
(* Phase 0c: the vtable root of each class and its slots. *)

(* A set of names as sort() leaves it.                                      *)
Ascending(names) ==
  CHOOSE s \in [1 .. Cardinality(names) -> names] :
    \A j, k \in DOMAIN s : j < k => s[j] < s[k]

NewSlots(parentSlots) ==
  Ascending(Binds(prog[at], {"abstract"}) \ ToSet(parentSlots))

LinkClass_MutantOwnFirst ==
  /\ phase = "0c"
  /\ InRange
  /\ LET p     == table[Class].parent
         above == IF p = None THEN None ELSE table[p].root
         root  == IF above # None THEN above
                  ELSE IF IsAbstract(Class) THEN Class ELSE None
         inherited == IF p = None THEN <<>> ELSE table[p].slots
     IN  table' = [table EXCEPT
                     ![Class].root = root,
                     ![Class].slots =
                       IF root = None THEN @
                       ELSE NewSlots(inherited) \o inherited]
  /\ at' = at + 1
  /\ UNCHANGED <<source, phase, item, local, funcs, consts>>

LinkClass ==
  /\ phase = "0c"
  /\ InRange
  /\ LET p     == table[Class].parent
         above == IF p = None THEN None ELSE table[p].root
         root  == IF above # None THEN above
                  ELSE IF IsAbstract(Class) THEN Class ELSE None
         inherited == IF p = None THEN <<>> ELSE table[p].slots
     IN  table' = [table EXCEPT
                     ![Class].root = root,
                     ![Class].slots =
                       IF root = None THEN @
                       ELSE inherited \o NewSlots(inherited)]
  /\ at' = at + 1
  /\ UNCHANGED <<source, phase, item, local, funcs, consts>>

-----------------------------------------------------------------------------
(* build_vtable_section: a type per root, as wide as its deepest class, and *)
(* a constant per concrete class of the chain.                              *)

Members(r) == {c \in DOMAIN table : table[c].root = r}

EmitTypes ==
  /\ phase = "types"
  /\ width' = [r \in {table[c].root : c \in DOMAIN table} \ {None} |->
                 Max({Len(table[c].slots) : c \in Members(r)})]
  /\ phase' = "vtables"
  /\ UNCHANGED <<source, at, item, table, local, funcs, vtable>>

Emits(c) == NeedsVtable(c) /\ ~ IsAbstract(c) /\ table[c].slots # <<>>

SkipVtable ==
  /\ phase = "vtables"
  /\ InRange
  /\ ~ Emits(Class)
  /\ at' = at + 1
  /\ UNCHANGED <<source, phase, item, table, local, funcs, consts>>

(* A slot with no body anywhere up the chain is a panic of the compiler. *)
EmitVtable ==
  /\ phase = "vtables"
  /\ InRange
  /\ Emits(Class)
  /\ LET slots == table[Class].slots
         entry(k) == Resolve(Class, slots[k], bodies)
         holes == {k \in DOMAIN slots : entry(k) = None}
     IN  /\ phase' = IF holes = {} THEN phase ELSE "panicked"
         /\ vtable' = [c \in DOMAIN vtable \cup {Class} |->
                         IF c = Class
                         THEN [k \in DOMAIN slots |-> <<entry(k), slots[k]>>]
                         ELSE vtable[c]]
  /\ at' = at + 1
  /\ UNCHANGED <<source, item, table, local, funcs, width>>

-----------------------------------------------------------------------------
Check == \/ Register \/ RejectDuplicateClass \/ NextPass("0a", "0b")
         \/ OpenClass \/ RejectUnknownBase \/ CloseClass
         \/ AddField \/ RejectDuplicateField
         \/ AddStatic \/ AddAbstract \/ AddMethod \/ RejectDuplicateMethod
         \/ NextPass("0b", "0c")
         \/ LinkClass \/ NextPass("0c", "types")

Emit == EmitTypes \/ SkipVtable \/ EmitVtable \/ NextPass("vtables", "done")

Compile == Check \/ Emit

ClassSpec == Init /\ [][Compile]_classVars

-----------------------------------------------------------------------------
(* Properties. *)

Declared == {prog[k].name : k \in DOMAIN prog}

(* The classes phase 0c has reached. *)
Linked ==
  IF phase = "0c" THEN {prog[k].name : k \in 1 .. at - 1}
  ELSE IF phase \in {"types", "vtables", "done", "panicked"} THEN Declared
  ELSE {}

(* Every variable has its type. *)
ClassTypeOK ==
  /\ phase \in {"0a", "0b", "0c", "types", "vtables", "done",
                "rejected", "panicked"}
  /\ at \in 1 .. Len(prog) + 1
  /\ item \in Nat
  /\ ABC \in DOMAIN table /\ DOMAIN table \subseteq Declared \cup {ABC}
  /\ \A c \in DOMAIN table :
       /\ DOMAIN table[c] = DOMAIN NewClass
       /\ table[c].parent \in DOMAIN table \cup {None}
       /\ table[c].root \in DOMAIN table \cup {None}
       /\ table[c].slots \in Seq(Nat) /\ table[c].fields \in Seq(Nat)
       /\ table[c].abstract \subseteq Nat
  /\ bodies \subseteq sigs /\ sigs \subseteq Declared \X Nat
  /\ \A c \in DOMAIN vtable : vtable[c] \in Seq(Declared \X Nat)

(* A base is above the classes it is a base of, as Python requires.         *)
BasesAbove(p) == \A j, k \in DOMAIN p : p[j].name = p[k].base => j < k

(* The classes in vtable chains: those with an abstract method of their own *)
(* or above them.  No chain starts below a class of the program.            *)
InChains(p, S) ==
  \A k \in DOMAIN p :
    /\ k \in S <=> \/ Binds(p[k], {"abstract"}) # {}
                   \/ \E j \in S : p[j].name = p[k].base
    /\ \A j \in DOMAIN p : (p[j].name = p[k].base /\ k \in S) => j \in S

Rooted(p) == \E S \in SUBSET DOMAIN p : InChains(p, S)

(* An instance may be used through a pointer to any ancestor's struct       *)
(* (coerce emits a bitcast), so a class lays out first what its parent lays *)
(* out (codegen.rs, "Layout prefix matches by construction").               *)
LayoutPrefix ==
  \A c \in Linked :
    table[c].parent # None => IsPrefix(Layout(table[c].parent), Layout(c))

(* A slot index computed for a class is used on the vtable of any of its    *)
(* descendants: slots are only ever appended.                               *)
SlotPrefix ==
  \A c \in Linked : \A a \in ToSet(Chain(c)) :
    NeedsVtable(a) =>
      /\ IsPrefix(table[a].slots, table[c].slots)
      /\ table[a].root = table[c].root

(* Below ABC the constructor refuses exactly the classes Python refuses: an *)
(* inherited abstract name may be implemented, re-declared abstract, or     *)
(* implemented again below.  Elsewhere, where Python refuses no class, the  *)
(* compiler still goes by the decorators (check.rs:51), and refuses those   *)
(* where the lookup of some name ends at an abstract one.                   *)
AbstractAsInPython ==
  \A c \in Linked :
    /\ UnderABC(prog, c) => table[c].abstract = AbstractNames(prog, c)
    /\ ~ UnderABC(prog, c) => table[c].abstract = Unimplemented(prog, c)

(* Whatever class a vtable belongs to, each of its entries is the function  *)
(* Python's lookup on that class would find.                                *)
VtableAsInPython ==
  \A c \in DOMAIN vtable : \A k \in DOMAIN vtable[c] :
    LET m == table[c].slots[k]
    IN  vtable[c][k] = <<Supplier(prog, c, m), m>>

(* A class without abstract names has a body for every slot of its vtable:  *)
(* the "no concrete implementation" panic of build_vtable_section never     *)
(* fires.                                                                   *)
NoPanic == phase # "panicked"

(* The vtable constant of every class fills the type of its root            *)
(* (codegen.rs, "so descendants' @vtable globals are well-typed").          *)
VtableWellTyped ==
  \A c \in DOMAIN vtable : Len(vtable[c]) = width[table[c].root]
=============================================================================
