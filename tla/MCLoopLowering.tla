--------------------------- MODULE MCLoopLowering ---------------------------
(* Two lists, every kind of loop inside every kind of loop, and at each     *)
(* level a statement that continues, breaks or appends at one element.      *)
EXTENDS LoopLowering, FiniteSetsExt

U(x) == <<x, 0>>

MCTypes ==
  [x \in {"xs", "ys", "res", "l1", "l2", "l3"} |-> "list"]
    @@ [x \in {"a", "b", "c", "d", "e", "n", "q", "v", "w", "y", "z"} |-> "int"]
    @@ [x \in {"n1", "n2"} |-> "int"] @@ [x \in {"t1", "t2"} |-> "bool"]
MCHeap == << <<1, 2, 4>>, <<2, 1>>, <<>> >>
MCEnv ==
  (U("xs") :> 1) @@ (U("ys") :> 2) @@ [x \in {U("res"), U("l1"), U("l2"), U("l3")} |-> 3]
    @@ (U("n") :> 3) @@ [x \in {U("w"), U("n1"), U("n2")} |-> 0]
    @@ [x \in {U("t1"), U("t2")} |-> FALSE]

(* The texts are written without `of`, which the nesting tells.             *)
Resolved(p) ==
  LET around[k \in 0 .. Len(p)] ==
        IF k = 0 THEN <<>>
        ELSE CASE p[k].op \in Opens  -> Append(around[k - 1], k)
               [] p[k].op \in Closes -> Front(around[k - 1])
               [] OTHER              -> around[k - 1]
      loop(k) == Max({j \in ToSet(around[k - 1]) : IsLoop(p[j])})
      belongs == {"else", "end", "yield", "result"}
  IN  [k \in DOMAIN p |->
         CASE p[k].op \in belongs \/ Each(p[k])    -> p[k] @@ [of |-> Last(around[k - 1])]
           [] p[k].op = "filter"                 -> p[k] @@ [of |-> k - 1]
           [] p[k].op \in {"break", "continue"}  -> p[k] @@ [of |-> loop(k)]
           [] OTHER                              -> p[k]]

Op_(op) == <<[op |-> op]>>
Let_(x, e) == <<[op |-> "let", x |-> U(x), e |-> e]>>
Push_(l, e) == <<[op |-> "append", l |-> U(l), e |-> e]>>
Show(e) == Push_("res", e)
IfElse(c, body, orelse) ==
  <<[op |-> "if", c |-> c]>> \o body \o Op_("else") \o orelse \o Op_("end")
IfThen(c, body) == IfElse(c, body, <<>>)
RangeOf(a, b, c) == [k |-> "range", start |-> a, stop |-> b, step |-> c]
Upto(e) == RangeOf(Num(0), e, 1)
OverList(l) == [k |-> "list", x |-> U(l)]
ForTok(how, t, its) ==
  <<[op |-> "for", how |-> how, t |-> [i \in DOMAIN t |-> U(t[i])], its |-> its, start |-> 5]>>
FilterTok(c) == <<[op |-> "filter", c |-> c]>>
For(how, t, its, body) == ForTok(how, t, its) \o body \o Op_("end")

V(x) == Var(U(x))

(* The loops: a and b are the target names, the body collects the values. *)
Loops(a, b, body) ==
  LET show == Show(V(a)) \o body
      both == Show(Plus(V(a), V(b))) \o body
  IN  { For("plain", <<a>>, <<Upto(V("n"))>>, show),
        For("plain", <<a>>, <<OverList("xs")>>, show),
        For("generator", <<a>>, <<OverList("ys")>>, FilterTok(Differ(V(a), Num(2)))
              \o Let_("w", V(a)) \o Show(V("w")) \o body),
        For("enumerate", <<a, b>>, <<RangeOf(Num(1), Num(4), 2)>>, both),
        For("enumerate", <<a, b>>, <<OverList("ys")>>, both),
        For("zip", <<a, b>>, <<OverList("xs"), OverList("ys")>>, both) }

Is(a, n) == Equal(V(a), Num(n))
Turns(a) ==
  { <<>>,
    IfThen(Is(a, 1), Op_("continue")),
    IfElse(Is(a, 2), Op_("break") \o Show(Num(9)), Show(Num(8)) \o Op_("continue")),
    IfThen(Is(a, 2), Op_("return")),
    IfThen(Both(Is(a, 1), Less(Len_(U("xs")), Num(5))), Push_("xs", Num(7)) \o Push_("ys", Num(5))) }

Count ==
  Let_("w", Num(0)) \o <<[op |-> "while", c |-> Less(V("w"), Num(3))]>>
    \o Let_("w", Plus(V("w"), Num(1))) \o IfThen(Is("w", 1), Op_("continue"))
    \o Show(V("w")) \o Op_("end")

(* Everything that gathers, over lists, ranges and lists gathered first,    *)
(* with and without a filter.  The source is what is gathered first, if     *)
(* anything, and what is walked.                                            *)
NoFilter == <<>>
Gather_(how, x, source, t, c, element, e) ==
  <<[op |-> "gather", how |-> how]>> \o source[1] \o ForTok("each", <<t>>, <<source[2]>>)
    \o c \o element \o <<[op |-> "yield", e |-> e]>> \o <<[op |-> "result", x |-> U(x)]>>
From(it) == << <<>>, it >>

Made(x) ==
  Gather_("list", x, From(OverList("xs")), "z", FilterTok(Differ(V("z"), Num(2))), <<>>,
          Plus(V("z"), V("z")))
Sum(x, source, c) == Gather_("sum", x, source, "y", c, <<>>, Plus(V("y"), Num(1)))
Sources == {From(OverList("xs")), <<Made("l2"), OverList("l2")>>, From(RangeOf(Num(1), Num(6), 2))}
List(gather) == gather \o For("plain", <<"e">>, <<OverList("l1")>>, Show(V("e")))

Gatherings ==
  { Sum("n1", s, NoFilter) \o Show(V("n1")) : s \in Sources }
    \cup { Gather_(how, "t1", s, "y", NoFilter, <<>>, Less(V("y"), Num(3)))
             \o IfElse(V("t1"), Show(Num(6)), Show(Num(7))) : how \in {"any", "all"}, s \in Sources }
    \cup { List(Made("l1")),
           List(Gather_("list", "l1", From(OverList("ys")), "v", NoFilter,
                        Sum("n2", From(OverList("xs")), FilterTok(Less(V("y"), V("v")))), V("n2"))),
           Gather_("sum", "n1", <<Made("l2"), OverList("l2")>>, "v", NoFilter,
                   Sum("n2", From(RangeOf(Num(0), V("v"), 3)), NoFilter), V("n2"))
             \o Show(V("n1")) }

Inner == UNION {Loops("c", "d", t) : t \in Turns("c")} \cup {<<>>, Count} \cup Gatherings

Nests ==
  {Resolved(p) : p \in UNION {Loops("a", "b", t \o i) : t \in Turns("a"), i \in Inner}
                         \cup {i \o j : i \in Gatherings, j \in Gatherings}}

ASSUME NestsFollow == \A p \in Nests : Follows(p)

(* A comprehension over a comprehension.                                    *)
Doubled ==
  Gather_("list", "l2", From(OverList("xs")), "y", NoFilter, <<>>, Plus(V("y"), V("y")))
Repeated ==
  { Resolved(List(Gather_("list", "l1", <<Doubled, OverList("l2")>>, "q", NoFilter, <<>>,
                          Plus(V("q"), Num(1))))) }
=============================================================================
