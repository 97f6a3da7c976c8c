----------------------------- MODULE PyClasses -----------------------------
(***************************************************************************)
(* Python's own reading of the class statements of a program: what the     *)
(* compiler's class table is compared with.  A program is a sequence of    *)
(* declarations [name, base, body]; a body is a sequence of items          *)
(* [kind, name].  Names of methods and fields are numbers, ordered as the  *)
(* identifiers are ordered alphabetically.                                 *)
(***************************************************************************)
EXTENDS Integers, Sequences, FiniteSets, SequencesExt, FiniteSetsExt

CONSTANTS
  NoBase,  \* the base of `class C:`
  ABC      \* abc.ABC, a base with no fields and no methods

Kinds == {"field", "abstract", "method", "property", "static"}
Callables == Kinds \ {"field"}

Decl(prog, c) == prog[CHOOSE k \in DOMAIN prog : prog[k].name = c]

(* The classes a lookup on c visits, c first (single inheritance). *)
Mro(prog, c) ==
  LET up[k \in 0 .. Len(prog)] ==
        IF k = 0 THEN <<c>>
        ELSE LET b == Decl(prog, Last(up[k - 1])).base
             IN  IF b \in {prog[j].name : j \in DOMAIN prog}
                 THEN Append(up[k - 1], b) ELSE up[k - 1]
  IN  up[Len(prog)]

(* The names a class body binds with one of the given kinds. *)
Binds(decl, kinds) == {it.name : it \in {x \in ToSet(decl.body) : x.kind \in kinds}}

(* The class whose body supplies attribute m of c: the first in the MRO. *)
Supplier(prog, c, m) ==
  LET mro  == Mro(prog, c)
      hits == {k \in DOMAIN mro : m \in Binds(Decl(prog, mro[k]), Callables)}
  IN  mro[Min(hits)]

Inherited(prog, c, kinds) ==
  UNION {Binds(Decl(prog, d), kinds) : d \in ToSet(Mro(prog, c))}

(* The names whose lookup ends at a function marked by @abstractmethod. *)
Unimplemented(prog, c) ==
  {m \in Inherited(prog, c, {"abstract"}) :
     m \in Binds(Decl(prog, Supplier(prog, c, m)), {"abstract"})}

(* ABCMeta is the metaclass of the classes below abc.ABC, and of no others. *)
UnderABC(prog, c) == \E d \in ToSet(Mro(prog, c)) : Decl(prog, d).base = ABC

(* __abstractmethods__, for which Python refuses to make an instance: it is *)
(* ABCMeta that gathers the marked functions, elsewhere nobody looks at the *)
(* mark.                                                                    *)
AbstractNames(prog, c) ==
  IF UnderABC(prog, c) THEN Unimplemented(prog, c) ELSE {}

(* The attributes the annotations of c and its bases name. *)
FieldNames(prog, c) == Inherited(prog, c, {"field"})
=============================================================================
