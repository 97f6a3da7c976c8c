------------------------------ MODULE MCFrames ------------------------------
(* Frames on functions of a parameter p and the locals x, y, f.             *)
EXTENDS Frames

MCParams == "p" :> "int"

Assign(x, ty, reads) == [op |-> "let", x |-> x, ty |-> ty, reads |-> reads]
Aug(x) == [op |-> "aug", x |-> x, reads |-> {x}]
Comp(x, g, reads) == [op |-> "comp", x |-> x, g |-> g, ty |-> "int", reads |-> reads]
Lambda(x, body, inner) ==
  [op |-> "lambda", x |-> x, params |-> {"a"}, body |-> body, inner |-> inner]
Call(x) == [op |-> "call", x |-> x, reads |-> {x}]
Reading(op, reads) == [op |-> op, reads |-> reads]
Ret(reads) == Reading("return", reads)
Word_(op) == [op |-> op]

If(then, else) ==
  <<Reading("if", {"p"})>> \o then \o <<Word_("else")>> \o else \o <<Word_("end")>>
While(body) == <<Reading("while", {"p"})>> \o body \o <<Word_("end")>>

Maybe(stmts) == {<<s>> : s \in stmts} \cup {<<>>}

(* A name assigned in one branch, in both, in none, at one type or at two,  *)
(* or by a comprehension; branches that return; statements after a return.  *)
Slots_ == Maybe({ Assign("x", "int", {}), Assign("x", "float", {}), Aug("x"),
                  Assign("y", "int", {"x"}), Comp("x", "i", {"p"}),
                  Comp("y", "x", {"p"}), Assign("p", "float", {}), Ret({"p"}) })

Branches ==
  {before \o If(then, else) \o after \o end :
     before \in Slots_, then \in Slots_, else \in Slots_, after \in Slots_,
     end \in {<<Ret({"x"})>>, <<>>}}

(* Loops in loops, left and repeated from branches; dead code in them.      *)
Jumps == Maybe({Word_("break"), Word_("continue"), Ret({"p"}), Assign("x", "int", {})})
         \cup {<<Word_("break"), Assign("x", "int", {})>>,
               <<Word_("continue")>> \o While(<<Word_("break")>>)
                 \o If(<<Ret({"p"})>>, <<>>)}

Nested ==
  {first \o While(a \o If(b, c) \o While(d \o If(e, <<>>)) \o a) \o <<Ret({"x"})>> :
     first \in Maybe({Assign("x", "int", {}), Word_("break")}),
     a \in Maybe({Aug("x")}), b \in Jumps, c \in Jumps,
     d \in Maybe({Aug("x"), Word_("continue")}), e \in Jumps}

(* A callable made before, between and after assignments to what it takes,  *)
(* replaced in a loop, taken by another, reading a name inside a            *)
(* comprehension.                                                           *)
Makes == { Assign("x", "int", {}), Assign("y", "int", {}), Call("f"), Call("g"),
           Lambda("f", <<"x", "a", "y", "x">>, {}), Lambda("f", <<"y", "p">>, {"a"}),
           Lambda("f", <<"x">>, {"x"}), Lambda("g", <<"f", "x">>, {}),
           Lambda("g", <<>>, {"p"}) }

Makers ==
  {<<Assign("x", "int", {}), Assign("y", "int", {})>> \o a \o While(b \o c) \o d \o <<Ret({})>> :
     a \in Maybe(Makes), b \in Maybe(Makes), c \in Maybe(Makes), d \in Maybe(Makes)}

MCPrograms == Branches \cup Nested \cup Makers
=============================================================================
