---------------------------- MODULE MCClassTable ----------------------------
(* ClassTable and ClassObjects on programs of three classes named A, B, C.  *)
(* Methods 0 (__init__), 1 (f), 2 (g), a property 3, a static method 4,     *)
(* fields 11 and 12.                                                        *)
EXTENDS ClassObjects

It(k, n) == [kind |-> k, name |-> n]

Bodies ==
  { <<>>,
    <<It("field", 11)>>,
    <<It("abstract", 1)>>,
    <<It("abstract", 2), It("field", 12), It("abstract", 1)>>,
    <<It("method", 1)>>,
    <<It("method", 1), It("method", 2)>>,
    <<It("static", 1), It("property", 3)>>,
    <<It("abstract", 2), It("method", 1)>> }

Decls(n, bases) == [name : {n}, base : bases, body : Bodies]

(* A class refers only to bases above it, as Python requires. *)
Ordered ==
  {<<a, b, c>> : a \in Decls("A", {NoBase, ABC}),
                 b \in Decls("B", {NoBase, "A"}),
                 c \in Decls("C", {ABC, "A", "B"})}

(* Programs the compiler must turn away. *)
Bad(base, body) == [name |-> "B", base |-> base, body |-> body]
Ill == { <<Bad(NoBase, <<>>), Bad(ABC, <<>>)>>,
         <<Bad("Ghost", <<>>)>>,
         <<Bad(ABC, <<It("field", 11), It("field", 11)>>)>>,
         <<Bad(ABC, <<It("abstract", 1), It("method", 1)>>)>> }

RootedPrograms == {p \in Ordered : Rooted(p)} \cup Ill

Takes(n, bases, bs) == [name : {n}, base : bases, body : bs]

Top == { <<It("field", 11)>>,
         <<It("field", 11), It("method", 0), It("method", 2)>>,
         <<It("abstract", 1), It("field", 11), It("static", 4)>>,
         <<It("abstract", 2), It("abstract", 1), It("method", 0)>> }
Middle == { <<>>,
            <<It("field", 12), It("method", 1)>>,
            <<It("method", 2), It("property", 3)>>,
            <<It("abstract", 3), It("abstract", 1)>> }
Bottom == { <<It("method", 1), It("method", 2)>>,
            <<It("field", 12), It("method", 1), It("method", 3)>>,
            <<It("method", 0), It("static", 4)>> }

Chains == {<<a, b, c>> : a \in Takes("A", {ABC}, Top),
                         b \in Takes("B", {"A"}, Middle),
                         c \in Takes("C", {"A", "B"}, Bottom)}

NoFieldTwice(p) ==
  \A j, k \in DOMAIN p : j # k =>
    Binds(p[j], {"field"}) \cap Binds(p[k], {"field"}) = {}

(* The topmost class of a chain is abstract, or none is. *)
RootedChains ==
  {p \in Chains : /\ NoFieldTwice(p)
                  /\ Binds(p[2], {"abstract"}) # {} =>
                       Binds(p[1], {"abstract"}) # {}
                  /\ Binds(p[2], {"property"}) \cap
                       Binds(p[3], {"method"}) = {}}

AllPrograms == RootedPrograms \cup RootedChains

(* What the theorems of ClassProofs assume of the programs.                 *)
ASSUME TheoremsApply == \A p \in AllPrograms : BasesAbove(p) /\ Rooted(p)
=============================================================================
