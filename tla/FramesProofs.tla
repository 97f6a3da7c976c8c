---------------------------- MODULE FramesProofs ----------------------------
(***************************************************************************)
(* For all bodies a syntax tree can have: the blocks codegen.rs emits are  *)
(* those of one control-flow graph (TypeCorrect), and a function that is   *)
(* compiled does what Python does (FramesImplementPython).                 *)
(*                                                                         *)
(* After each token all blocks but the one being written have ended, and a *)
(* target is a block or is promised: an open if will bring its else and    *)
(* its merge, an open while its latch and its exit.  The open constructs   *)
(* are the outer ones around the place in the text, and those that skip    *)
(* counts are the rest.  At the end of the body no construct is open, and  *)
(* nothing is promised.                                                    *)
(*                                                                         *)
(* A block starts at a place in the text, and the place before its next    *)
(* instruction leads, in Python, to the statement that instruction is, or  *)
(* to where the block it branches to starts.  The emission keeps that with *)
(* every token, and a step of the function with it keeps Python at the     *)
(* place the program counter is at.  What check.rs accepts always returns, *)
(* so no place Python comes to leads past the end of the body.             *)
(***************************************************************************)
EXTENDS Frames, FiniteSetTheorems, SequenceTheorems, WellFoundedInduction, TLAPS

-----------------------------------------------------------------------------
(* Induction over the naturals. *)

(* The order of the naturals, as a set of pairs.                           *)
Below == {ij \in Nat \X Nat : ij[1] < ij[2]}

(* A set of naturals has a least element. *)
LEMMA Least ==
  ASSUME NEW T, T \subseteq Nat, T # {}
  PROVE  \E x \in T : \A y \in T : x <= y
<1>1. IsWellFoundedOn(Below, Nat)
  <2>1. OpToRel(<, Nat) = Below
    BY DEF OpToRel, Below
  <2> QED BY <2>1, NatLessThanWellFounded
<1>2. PICK x \in T : \A y \in T : ~ (<<y, x>> \in Below)
  BY <1>1, WFMin
<1>3. ASSUME NEW y \in T PROVE x <= y
  <2>1. x \in Nat /\ y \in Nat
    OBVIOUS
  <2>2. y < x => <<y, x>> \in Below
    BY <2>1 DEF Below
  <2> QED BY <1>2, <2>1, <2>2
<1> QED BY <1>3

(* What holds of 0 and passes on to the next number holds of every number. *)
LEMMA UpTo ==
  ASSUME NEW S, 0 \in S, \A n \in Nat : n \in S => n + 1 \in S
  PROVE  Nat \subseteq S
<1> SUFFICES ASSUME Nat \ S # {} PROVE FALSE
  OBVIOUS
<1>1. PICK n \in Nat \ S : \A y \in Nat \ S : n <= y
  BY Least
<1>2. n # 0 /\ n - 1 \in Nat /\ n - 1 \notin Nat \ S
  BY <1>1
<1> QED BY <1>1, <1>2

(* A set of positions has a last one. *)
LEMMA MaxIs ==
  ASSUME NEW n \in Nat, NEW S, S \subseteq 1 .. n, S # {}
  PROVE  Max(S) \in S /\ \A y \in S : Max(S) >= y
<1>1. {n - y : y \in S} \subseteq Nat /\ {n - y : y \in S} # {}
  <2>1. \A y \in S : n - y \in Nat
    OBVIOUS
  <2> QED BY <2>1
<1>2. PICK z \in {n - y : y \in S} : \A y \in {n - u : u \in S} : z <= y
  BY <1>1, Least
<1>3. PICK x \in S : z = n - x
  OBVIOUS
<1>4. \A y \in S : x >= y
  <2> SUFFICES ASSUME NEW y \in S PROVE x >= y
    OBVIOUS
  <2>1. n - x <= n - y
    BY <1>2, <1>3
  <2>2. x \in Int /\ y \in Int
    OBVIOUS
  <2> QED BY <2>1, <2>2
<1> QED BY <1>4 DEF Max

-----------------------------------------------------------------------------
(* The two recursions over a body have solutions. *)

(* The constructs around each place of a body are those its tokens make. *)
LEMMA NestingIs ==
  ASSUME NEW p, Len(p) \in Nat
  PROVE  /\ Nesting(p)[0] = <<>>
         /\ \A k \in 1 .. Len(p) :
              LET before == Nesting(p)[k - 1]
              IN  Nesting(p)[k] =
                    CASE p[k].op \in {"if", "while"} -> Append(before, p[k].op)
                      [] p[k].op = "else" -> Append(Front(before), "else")
                      [] p[k].op = "end"  -> Front(before)
                      [] OTHER            -> before
<1> DEFINE n         == Len(p)
           Step(b, k) == CASE p[k].op \in {"if", "while"} -> Append(b, p[k].op)
                           [] p[k].op = "else" -> Append(Front(b), "else")
                           [] p[k].op = "end"  -> Front(b)
                           [] OTHER            -> b
           Rec(q)    == [k \in 0 .. n |-> IF k = 0 THEN <<>> ELSE Step(q[k - 1], k)]
           sol       == CHOOSE q : q = Rec(q)
           Sol(q, m) == /\ DOMAIN q = 0 .. n
                        /\ q = [k \in 0 .. n |-> q[k]]
                        /\ q[0] = <<>>
                        /\ \A k \in 1 .. m : q[k] = Step(q[k - 1], k)
           T         == {m \in Nat : m <= n => \E q : Sol(q, m)}
<1>1. Nesting(p) = sol
  BY DEF Nesting
<1> HIDE DEF Step
<1>2. 0 \in T
  <2>1. Sol([k \in 0 .. n |-> <<>>], 0)
    OBVIOUS
  <2> QED BY <2>1
<1>3. ASSUME NEW m \in Nat, m \in T PROVE m + 1 \in T
  <2> SUFFICES ASSUME m + 1 <= n PROVE \E q : Sol(q, m + 1)
    OBVIOUS
  <2>1. PICK q : Sol(q, m)
    BY <1>3
  <2> DEFINE r == [k \in 0 .. n |-> IF k = m + 1 THEN Step(q[m], m + 1) ELSE q[k]]
  <2>2. r[0] = <<>>
    BY <2>1
  <2>3. ASSUME NEW k \in 1 .. m + 1 PROVE r[k] = Step(r[k - 1], k)
    <3>1. k - 1 \in 0 .. n /\ k - 1 # m + 1 /\ k \in 0 .. n
      OBVIOUS
    <3>2. r[k - 1] = q[k - 1]
      BY <3>1
    <3>3. CASE k = m + 1
      BY <3>1, <3>2, <3>3
    <3>4. CASE k # m + 1
      <4>1. k \in 1 .. m /\ r[k] = q[k]
        BY <3>1, <3>4
      <4>2. q[k] = Step(q[k - 1], k)
        BY <4>1, <2>1
      <4> QED BY <4>1, <4>2, <3>2
    <3> QED BY <3>3, <3>4
  <2>4. Sol(r, m + 1)
    BY <2>2, <2>3
  <2> QED BY <2>4
<1>4. \E q : Sol(q, n)
  <2>1. Nat \subseteq T
    <3> HIDE DEF T
    <3> QED BY <1>2, <1>3, UpTo
  <2> QED BY <2>1
<1>5. \E q : q = Rec(q)
  <2>1. PICK q : Sol(q, n)
    BY <1>4
  <2>2. \A k \in 0 .. n : q[k] = IF k = 0 THEN <<>> ELSE Step(q[k - 1], k)
    BY <2>1
  <2> QED BY <2>1, <2>2
<1>6. sol = Rec(sol)
  BY <1>5
<1> HIDE DEF sol
<1>7. sol[0] = <<>> /\ \A k \in 1 .. n : sol[k] = Step(sol[k - 1], k)
  BY <1>6
<1> QED BY <1>1, <1>7 DEF Step

(* The emission after a token is the token emitted after the one before. *)
LEMMA EmissionIs ==
  ASSUME Len(prog) \in Nat
  PROVE  /\ Emission[0] = Start
         /\ \A k \in 1 .. Len(prog) : Emission[k] = EmitToken(Emission[k - 1], k)
<1> DEFINE n         == Len(prog)
           Rec(q)    == [k \in 0 .. n |-> IF k = 0 THEN Start ELSE EmitToken(q[k - 1], k)]
           sol       == CHOOSE q : q = Rec(q)
           Sol(q, m) == /\ DOMAIN q = 0 .. n
                        /\ q = [k \in 0 .. n |-> q[k]]
                        /\ q[0] = Start
                        /\ \A k \in 1 .. m : q[k] = EmitToken(q[k - 1], k)
           T         == {m \in Nat : m <= n => \E q : Sol(q, m)}
<1>1. Emission = sol
  BY DEF Emission
<1>2. 0 \in T
  <2>1. Sol([k \in 0 .. n |-> Start], 0)
    OBVIOUS
  <2> QED BY <2>1
<1>3. ASSUME NEW m \in Nat, m \in T PROVE m + 1 \in T
  <2> SUFFICES ASSUME m + 1 <= n PROVE \E q : Sol(q, m + 1)
    OBVIOUS
  <2>1. PICK q : Sol(q, m)
    BY <1>3
  <2> DEFINE r == [k \in 0 .. n |-> IF k = m + 1 THEN EmitToken(q[m], m + 1) ELSE q[k]]
  <2>2. r[0] = Start
    BY <2>1
  <2>3. ASSUME NEW k \in 1 .. m + 1 PROVE r[k] = EmitToken(r[k - 1], k)
    <3>1. k - 1 \in 0 .. n /\ k - 1 # m + 1 /\ k \in 0 .. n
      OBVIOUS
    <3>2. r[k - 1] = q[k - 1]
      BY <3>1
    <3>3. CASE k = m + 1
      BY <3>1, <3>2, <3>3
    <3>4. CASE k # m + 1
      <4>1. k \in 1 .. m /\ r[k] = q[k]
        BY <3>1, <3>4
      <4>2. q[k] = EmitToken(q[k - 1], k)
        BY <4>1, <2>1
      <4> QED BY <4>1, <4>2, <3>2
    <3> QED BY <3>3, <3>4
  <2>4. Sol(r, m + 1)
    BY <2>2, <2>3
  <2> QED BY <2>4
<1>4. \E q : Sol(q, n)
  <2>1. Nat \subseteq T
    <3> HIDE DEF T
    <3> QED BY <1>2, <1>3, UpTo
  <2> QED BY <2>1
<1>5. \E q : q = Rec(q)
  <2>1. PICK q : Sol(q, n)
    BY <1>4
  <2>2. \A k \in 0 .. n : q[k] = IF k = 0 THEN Start ELSE EmitToken(q[k - 1], k)
    BY <2>1
  <2> QED BY <2>1, <2>2
<1>6. sol = Rec(sol)
  BY <1>5
<1> HIDE DEF sol
<1>7. sol[0] = Start /\ \A k \in 1 .. n : sol[k] = EmitToken(sol[k - 1], k)
  BY <1>6
<1> QED BY <1>1, <1>7

-----------------------------------------------------------------------------
(* The emission, as a record and its blocks. *)

(* An instruction, with its targets in D. *)
Ins(D) == [op : Ops \cup {"br", "unreachable"}, k : 0 .. Len(prog), to : Seq(D)]

(* An instruction has as many targets as it chooses from. *)
Goes(i) == /\ i.op = "br" => Len(i.to) = 1
           /\ i.op \in {"if", "while"} => Len(i.to) = 2

(* A block whose instructions are complete, with targets in D. *)
Block(b, D) == b \in Seq(Ins(D)) /\ \A i \in 1 .. Len(b) : Goes(b[i])

(* A block with its terminator, and one without. *)
Ended(b)   == b # <<>> /\ \A i \in 1 .. Len(b) : b[i].op \in Terminators <=> i = Len(b)
Unended(b) == \A i \in 1 .. Len(b) : b[i].op \notin Terminators

(* The emission is a record of its fields. *)
Record(e) == e = [code |-> e.code, here |-> e.here, done |-> e.done,
                  skip |-> e.skip, open |-> e.open, ids |-> e.ids]

(* All blocks but the one being written have ended, and that one has as     *)
(* done says; a target is a block, or one of those still to come, P.        *)
BlocksOK(e, P) ==
  LET D == DOMAIN e.code
  IN  /\ e.code = [l \in D |-> e.code[l]]
      /\ Entry \in D /\ e.here \in D
      /\ e.done \in BOOLEAN
      /\ \A l \in D : Block(e.code[l], D \cup P)
      /\ \A l \in D \ {e.here} : Ended(e.code[l])
      /\ IF e.done THEN Ended(e.code[e.here]) ELSE Unended(e.code[e.here])

(* More blocks to go to do not harm a block. *)
LEMMA BlockWider ==
  ASSUME NEW b, NEW D, NEW E, D \subseteq E, Block(b, D)
  PROVE  Block(b, E)
<1>1. Seq(D) \subseteq Seq(E)
  OBVIOUS
<1>2. Ins(D) \subseteq Ins(E)
  BY <1>1 DEF Ins
<1>3. b \in Seq(Ins(E))
  BY <1>2 DEF Block
<1> QED BY <1>3 DEF Block

(* A sequence and one more. *)
LEMMA Appended ==
  ASSUME NEW S, NEW s \in Seq(S), NEW x \in S
  PROVE  /\ Append(s, x) \in Seq(S) /\ Append(s, x) # <<>>
         /\ Len(s) \in Nat /\ Len(Append(s, x)) = Len(s) + 1
         /\ Append(s, x)[Len(s) + 1] = x
         /\ \A i \in 1 .. Len(s) : Append(s, x)[i] = s[i]
OBVIOUS

(* An instruction changes the code alone. *)
LEMMA EmitFields ==
  ASSUME NEW e, Record(e), NEW op, NEW k, NEW to
  PROVE  LET f == Emit(e, op, k, to)
         IN  /\ DOMAIN f.code = DOMAIN e.code /\ f.here = e.here
             /\ f.skip = e.skip /\ f.open = e.open /\ f.ids = e.ids
BY DEF Record, Emit

(* The emission after an instruction. *)
LEMMA EmitIs ==
  ASSUME NEW e, Record(e), NEW P, BlocksOK(e, P), ~ e.done,
         NEW op \in Ops \cup {"br", "unreachable"}, NEW k \in 0 .. Len(prog),
         NEW to \in Seq(DOMAIN e.code \cup P),
         Goes([op |-> op, k |-> k, to |-> to])
  PROVE  LET f == Emit(e, op, k, to)
         IN  /\ Record(f)
             /\ DOMAIN f.code = DOMAIN e.code /\ f.here = e.here /\ ~ f.done
             /\ f.skip = e.skip /\ f.open = e.open /\ f.ids = e.ids
             /\ op \notin Terminators => BlocksOK(f, P)
             /\ op \in Terminators => BlocksOK([f EXCEPT !.done = TRUE], P)
<1> DEFINE f   == Emit(e, op, k, to)
           D   == DOMAIN e.code
           b   == e.code[e.here]
           ins == [op |-> op, k |-> k, to |-> to]
           c   == Append(b, ins)
<1>1. /\ Record(f)
      /\ f.code = [e.code EXCEPT ![e.here] = c]
      /\ f.here = e.here /\ f.done = e.done
      /\ f.skip = e.skip /\ f.open = e.open /\ f.ids = e.ids
  BY DEF Record, Emit
<1>2. e.here \in D /\ e.code = [l \in D |-> e.code[l]]
  BY DEF BlocksOK
<1>3. /\ DOMAIN f.code = D /\ f.code[e.here] = c
      /\ \A l \in D \ {e.here} : f.code[l] = e.code[l]
      /\ f.code = [l \in D |-> f.code[l]]
  BY <1>1, <1>2
<1>4. Block(b, D \cup P) /\ Unended(b)
  BY <1>2 DEF BlocksOK
<1>5. Block(c, D \cup P)
  <2>1. ins \in Ins(D \cup P)
    BY DEF Ins
  <2>2. b \in Seq(Ins(D \cup P))
    BY <1>4 DEF Block
  <2>3. c \in Seq(Ins(D \cup P)) /\ Len(c) = Len(b) + 1 /\ Len(b) \in Nat
        /\ c[Len(b) + 1] = ins /\ \A i \in 1 .. Len(b) : c[i] = b[i]
    <3> HIDE DEF ins, b
    <3> QED BY <2>1, <2>2, Appended
  <2>4. ASSUME NEW i \in 1 .. Len(c) PROVE Goes(c[i])
    <3>1. CASE i = Len(b) + 1
      BY <2>3, <3>1
    <3>2. CASE i # Len(b) + 1
      <4>1. i \in 1 .. Len(b)
        BY <2>3, <3>2
      <4> QED BY <4>1, <2>3, <1>4 DEF Block
    <3> QED BY <3>1, <3>2
  <2> QED BY <2>3, <2>4 DEF Block
<1>6. /\ Len(b) \in Nat /\ Len(c) = Len(b) + 1 /\ c # <<>>
      /\ c[Len(b) + 1].op = op /\ \A i \in 1 .. Len(b) : c[i].op \notin Terminators
  <2>1. b \in Seq(Ins(D \cup P)) /\ ins \in Ins(D \cup P)
    BY <1>4 DEF Block, Ins
  <2>2. Len(b) \in Nat /\ Len(c) = Len(b) + 1 /\ c # <<>> /\ c[Len(b) + 1] = ins
        /\ \A i \in 1 .. Len(b) : c[i] = b[i]
    <3> HIDE DEF ins, b
    <3> QED BY <2>1, Appended
  <2>3. ins.op = op
    OBVIOUS
  <2> HIDE DEF ins, c
  <2> QED BY <2>2, <2>3, <1>4 DEF Unended
<1> HIDE DEF c, ins, b, f
<1>7. op \notin Terminators => Unended(c)
  <2> SUFFICES ASSUME op \notin Terminators, NEW i \in 1 .. Len(c)
               PROVE  c[i].op \notin Terminators
    BY DEF Unended
  <2>1. CASE i = Len(b) + 1
    BY <2>1, <1>6
  <2>2. CASE i # Len(b) + 1
    BY <2>2, <1>6
  <2> QED BY <2>1, <2>2
<1>8. op \in Terminators => Ended(c)
  <2> SUFFICES ASSUME op \in Terminators, NEW i \in 1 .. Len(c)
               PROVE  c[i].op \in Terminators <=> i = Len(c)
    BY <1>6 DEF Ended
  <2>1. CASE i = Len(b) + 1
    BY <2>1, <1>6
  <2>2. CASE i # Len(b) + 1
    BY <2>2, <1>6
  <2> QED BY <2>1, <2>2
<1>9. \A l \in D : Block(f.code[l], D \cup P)
  BY <1>3, <1>5 DEF BlocksOK
<1>10. \A l \in D \ {e.here} : Ended(f.code[l])
  BY <1>3 DEF BlocksOK
<1>11. op \notin Terminators => BlocksOK(f, P)
  BY <1>1, <1>2, <1>3, <1>7, <1>9, <1>10 DEF BlocksOK
<1>12. op \in Terminators => BlocksOK([f EXCEPT !.done = TRUE], P)
  <2> DEFINE g == [f EXCEPT !.done = TRUE]
  <2>1. g.code = f.code /\ g.here = e.here /\ g.done = TRUE
    BY <1>1 DEF Record
  <2> HIDE DEF g
  <2>2. op \in Terminators => BlocksOK(g, P)
    BY <2>1, <1>2, <1>3, <1>8, <1>9, <1>10 DEF BlocksOK
  <2> QED BY <2>2 DEF g
<1> QED BY <1>1, <1>3, <1>11, <1>12 DEF f

(* Marking the block as ended, when it has. *)
LEMMA DoneIs ==
  ASSUME NEW g, Record(g)
  PROVE  LET f == [g EXCEPT !.done = TRUE]
         IN  /\ Record(f) /\ f.done /\ f.code = g.code /\ f.here = g.here
             /\ f.skip = g.skip /\ f.open = g.open /\ f.ids = g.ids
<1> DEFINE t == TRUE
           f == [g EXCEPT !.done = t]
<1>1. /\ Record(f) /\ f.done = t /\ f.code = g.code /\ f.here = g.here
      /\ f.skip = g.skip /\ f.open = g.open /\ f.ids = g.ids
  <2> HIDE DEF t
  <2> QED BY DEF Record
<1> HIDE DEF f
<1>2. f.done
  BY <1>1
<1> QED BY <1>1, <1>2 DEF f

(* A branch, a test, a return and unreachable end the block. *)
LEMMA TerminateIs ==
  ASSUME NEW e, Record(e), NEW P, BlocksOK(e, P), ~ e.done,
         NEW op \in Terminators, NEW k \in 0 .. Len(prog),
         NEW to \in Seq(DOMAIN e.code \cup P),
         Goes([op |-> op, k |-> k, to |-> to])
  PROVE  LET f == Terminate(e, op, k, to)
         IN  /\ Record(f) /\ BlocksOK(f, P) /\ f.done
             /\ DOMAIN f.code = DOMAIN e.code /\ f.here = e.here
             /\ f.skip = e.skip /\ f.open = e.open /\ f.ids = e.ids
<1> DEFINE g == Emit(e, op, k, to)
<1>1. op \in Ops \cup {"br", "unreachable"}
  BY DEF Terminators, Ops
<1>2. /\ Record(g)
      /\ DOMAIN g.code = DOMAIN e.code /\ g.here = e.here
      /\ g.skip = e.skip /\ g.open = e.open /\ g.ids = e.ids
      /\ BlocksOK([g EXCEPT !.done = TRUE], P)
  BY <1>1, EmitIs
<1> HIDE DEF g
<1> DEFINE f == [g EXCEPT !.done = TRUE]
<1>3. /\ Record(f) /\ f.done /\ f.code = g.code /\ f.here = g.here
      /\ f.skip = g.skip /\ f.open = g.open /\ f.ids = g.ids
  BY <1>2, DoneIs
<1>4. Terminate(e, op, k, to) = f
  BY DEF Terminate, g
<1> HIDE DEF f
<1>5. BlocksOK(f, P)
  BY <1>2 DEF f
<1> QED BY <1>2, <1>3, <1>4, <1>5

(* A branch to a block, or to one that is to come. *)
LEMMA BrIs ==
  ASSUME Len(prog) \in Nat, NEW e, Record(e), NEW P, BlocksOK(e, P), ~ e.done,
         NEW label \in DOMAIN e.code \cup P
  PROVE  LET f == Br(e, label)
         IN  /\ Record(f) /\ BlocksOK(f, P) /\ f.done
             /\ DOMAIN f.code = DOMAIN e.code /\ f.here = e.here
             /\ f.skip = e.skip /\ f.open = e.open /\ f.ids = e.ids
<1>1. "br" \in Terminators /\ <<label>> \in Seq(DOMAIN e.code \cup P)
  BY DEF Terminators
<1>2. Goes([op |-> "br", k |-> 0, to |-> <<label>>])
  BY DEF Goes
<1>3. 0 \in 0 .. Len(prog)
  OBVIOUS
<1> QED BY <1>1, <1>2, <1>3, TerminateIs DEF Br

(* After it the block has ended, one way or the other. *)
LEMMA BrUnlessDoneIs ==
  ASSUME Len(prog) \in Nat, NEW e, Record(e), NEW P, BlocksOK(e, P),
         NEW label \in DOMAIN e.code \cup P
  PROVE  LET f == BrUnlessDone(e, label)
         IN  /\ Record(f) /\ BlocksOK(f, P) /\ f.done
             /\ DOMAIN f.code = DOMAIN e.code /\ f.here = e.here
             /\ f.skip = e.skip /\ f.open = e.open /\ f.ids = e.ids
<1>1. CASE e.done
  BY <1>1 DEF BrUnlessDone
<1>2. CASE ~ e.done
  BY <1>2, BrIs DEF BrUnlessDone
<1> QED BY <1>1, <1>2

(* The next block begins when the one before has ended. *)
LEMMA OpenBlockIs ==
  ASSUME NEW e, Record(e), NEW P, BlocksOK(e, P), e.done, NEW label
  PROVE  LET f == OpenBlock(e, label)
         IN  /\ Record(f) /\ BlocksOK(f, P \cup {label}) /\ BlocksOK(f, P)
             /\ ~ f.done
             /\ DOMAIN f.code = DOMAIN e.code \cup {label} /\ f.here = label
             /\ f.skip = e.skip /\ f.open = e.open /\ f.ids = e.ids
<1> DEFINE f == OpenBlock(e, label)
           D == DOMAIN e.code
           c == With(e.code, label, <<>>)
<1>1. /\ Record(f) /\ f.done = FALSE
      /\ f.code = c
      /\ f.here = label
      /\ f.skip = e.skip /\ f.open = e.open /\ f.ids = e.ids
  <2>1. f = [e EXCEPT !.code = c, !.here = label, !.done = FALSE]
    BY DEF OpenBlock
  <2> HIDE DEF f, c
  <2> QED BY <2>1 DEF Record
<1> HIDE DEF f
<1>2. /\ DOMAIN f.code = D \cup {label}
      /\ f.code = [l \in D \cup {label} |-> f.code[l]]
      /\ f.code[label] = <<>>
      /\ \A l \in D \ {label} : f.code[l] = e.code[l]
  <2>1. c = [l \in D \cup {label} |-> IF l = label THEN <<>> ELSE e.code[l]]
    BY DEF With
  <2> HIDE DEF c
  <2> QED BY <2>1, <1>1
<1>3. ASSUME NEW Q, P \subseteq Q, Q \subseteq P \cup {label} PROVE BlocksOK(f, Q)
  <2>1. D \cup P \subseteq (D \cup {label}) \cup Q
    BY <1>3
  <2>2. ASSUME NEW l \in D \cup {label}
        PROVE  Block(f.code[l], (D \cup {label}) \cup Q)
    <3>1. CASE l = label
      <4>1. <<>> \in Seq(Ins((D \cup {label}) \cup Q)) /\ 1 .. Len(<<>>) = {}
        OBVIOUS
      <4>2. Block(<<>>, (D \cup {label}) \cup Q)
        BY <4>1 DEF Block
      <4> QED BY <4>2, <3>1, <1>2
    <3>2. CASE l # label
      <4>1. Block(e.code[l], D \cup P)
        BY <3>2 DEF BlocksOK
      <4> QED BY <4>1, <2>1, <3>2, <1>2, BlockWider
    <3> QED BY <3>1, <3>2
  <2>3. ASSUME NEW l \in (D \cup {label}) \ {label} PROVE Ended(f.code[l])
    <3>1. l \in D /\ f.code[l] = e.code[l]
      BY <1>2
    <3>2. Ended(e.code[l])
      BY <3>1 DEF BlocksOK
    <3> QED BY <3>1, <3>2
  <2>4. Unended(f.code[label])
    BY <1>2 DEF Unended
  <2>5. Entry \in D
    BY DEF BlocksOK
  <2> QED BY <1>1, <1>2, <2>2, <2>3, <2>4, <2>5 DEF BlocksOK
<1> QED BY <1>1, <1>2, <1>3 DEF f

(* What was to come and has come is not to come any more. *)
LEMMA Arrived ==
  ASSUME NEW e, NEW P, BlocksOK(e, P), NEW Q, P \subseteq DOMAIN e.code \cup Q
  PROVE  BlocksOK(e, Q)
<1>1. \A l \in DOMAIN e.code : Block(e.code[l], DOMAIN e.code \cup Q)
  <2>1. DOMAIN e.code \cup P \subseteq DOMAIN e.code \cup Q
    OBVIOUS
  <2> QED BY <2>1, BlockWider DEF BlocksOK
<1> QED BY <1>1 DEF BlocksOK

(* The blocks alone. *)
LEMMA BlocksSame ==
  ASSUME NEW e, NEW f, NEW P, BlocksOK(e, P),
         f.code = e.code, f.here = e.here, f.done = e.done
  PROVE  BlocksOK(f, P)
BY DEF BlocksOK

-----------------------------------------------------------------------------
(* The constructs around the place the emission has come to. *)

Kinds      == {"if", "else", "while"}
(* The constructs that are open: else is if as well, by its labels. *)
Constructs == [op : {"if", "while"}, id : Nat]

(* The blocks that are still to come when a construct is open. *)
Promises(kind, id) ==
  CASE kind = "if"    -> {<<"else", id>>, <<"merge", id>>}
    [] kind = "else"  -> {<<"merge", id>>}
    [] kind = "while" -> {<<"loop_latch", id>>, <<"loop_exit", id>>}

Promised(open, around) ==
  UNION {Promises(around[i], open[i].id) : i \in 1 .. Len(open)}

(* The constructs that are open are the outer ones around the place; those  *)
(* inside have been passed over.                                            *)
OpenOK(e, around) ==
  /\ e.skip \in Nat /\ e.ids \in Nat
  /\ e.open \in Seq(Constructs)
  /\ around \in Seq(Kinds)
  /\ Len(around) = Len(e.open) + e.skip
  /\ \A i \in 1 .. Len(e.open) :
       /\ e.open[i].op = "while" <=> around[i] = "while"
       /\ e.open[i].op = "while" => <<"loop_header", e.open[i].id>> \in DOMAIN e.code
  /\ e.skip > 0 => e.done

(* The emission is in order, at a place with the constructs around it. *)
EmissionOK(e, around) ==
  /\ Record(e)
  /\ OpenOK(e, around)
  /\ BlocksOK(e, Promised(e.open, around))

(* What is promised, by position. *)
LEMMA PromisedIs ==
  ASSUME NEW open, NEW around, NEW l
  PROVE  l \in Promised(open, around)
           <=> \E i \in 1 .. Len(open) : l \in Promises(around[i], open[i].id)
BY DEF Promised

(* Only the outer constructs promise. *)
LEMMA PromisedSame ==
  ASSUME NEW open, NEW a, NEW b, \A i \in 1 .. Len(open) : a[i] = b[i]
  PROVE  Promised(open, a) = Promised(open, b)
BY DEF Promised

(* A token that is passed over. *)
LEMMA SkipKeeps ==
  ASSUME NEW e, NEW b, EmissionOK(e, b), NEW a \in Seq(Kinds), NEW n \in Nat,
         Len(a) = Len(e.open) + n, n > 0 => e.done,
         \A i \in 1 .. Len(e.open) : a[i] = b[i]
  PROVE  EmissionOK([e EXCEPT !.skip = n], a)
<1> DEFINE f == [e EXCEPT !.skip = n]
<1>1. Record(e)
  BY DEF EmissionOK
<1>2. /\ Record(f) /\ f.code = e.code /\ f.here = e.here /\ f.done = e.done
      /\ f.skip = n /\ f.open = e.open /\ f.ids = e.ids
  BY <1>1 DEF Record
<1> HIDE DEF f
<1>3. OpenOK(f, a)
  BY <1>2 DEF EmissionOK, OpenOK
<1>4. BlocksOK(f, Promised(f.open, a))
  <2>1. Promised(f.open, a) = Promised(e.open, b)
    BY <1>2, PromisedSame
  <2> QED BY <2>1, <1>2, BlocksSame DEF EmissionOK
<1>5. EmissionOK(f, a)
  BY <1>2, <1>3, <1>4 DEF EmissionOK
<1> QED BY <1>5 DEF f

(* An instruction inside a block. *)
LEMMA PlainKeeps ==
  ASSUME NEW e, NEW b, EmissionOK(e, b), ~ e.done, NEW k \in 0 .. Len(prog),
         NEW op \in Ops, op \notin Terminators
  PROVE  EmissionOK(Emit(e, op, k, <<>>), b)
<1> DEFINE to == <<>>
           f  == Emit(e, op, k, to)
           P  == Promised(e.open, b)
<1>1. Goes([op |-> op, k |-> k, to |-> to]) /\ to \in Seq(DOMAIN e.code \cup P)
  BY DEF Goes, Terminators
<1>2. Record(e) /\ BlocksOK(e, P) /\ OpenOK(e, b)
  BY DEF EmissionOK
<1>0. op \in Ops \cup {"br", "unreachable"} /\ op \notin Terminators
  OBVIOUS
<1> HIDE DEF P, to
<1>3. /\ Record(f)
      /\ DOMAIN f.code = DOMAIN e.code /\ f.here = e.here /\ ~ f.done
      /\ f.skip = e.skip /\ f.open = e.open /\ f.ids = e.ids
      /\ BlocksOK(f, P)
  <2> HIDE DEF f
  <2>1. /\ Record(f)
        /\ DOMAIN f.code = DOMAIN e.code /\ f.here = e.here /\ ~ f.done
        /\ f.skip = e.skip /\ f.open = e.open /\ f.ids = e.ids
        /\ op \notin Terminators => BlocksOK(f, P)
    <3> HIDE DEF to
    <3>1. Record(e) /\ BlocksOK(e, P) /\ ~ e.done
      BY <1>2
    <3>2. to \in Seq(DOMAIN e.code \cup P)
      BY <1>1
    <3>3. Goes([op |-> op, k |-> k, to |-> to])
      BY <1>1
    <3>4. op \in Ops \cup {"br", "unreachable"}
      BY <1>0
    <3>5. Record(f)
      BY <3>1, <3>2, <3>3, <3>4, EmitIs DEF f
    <3>6. /\ DOMAIN f.code = DOMAIN e.code /\ f.here = e.here
          /\ f.skip = e.skip /\ f.open = e.open /\ f.ids = e.ids
      BY <3>1, EmitFields DEF f
    <3>8. ~ f.done
      BY <3>1, <3>2, <3>3, <3>4, EmitIs DEF f
    <3>9. op \notin Terminators => BlocksOK(f, P)
      BY <3>1, <3>2, <3>3, <3>4, EmitIs DEF f
    <3> QED BY <3>5, <3>6, <3>8, <3>9
  <2> QED BY <2>1, <1>0
<1> HIDE DEF f
<1>4. OpenOK(f, b)
  BY <1>2, <1>3 DEF OpenOK
<1>5. EmissionOK(f, b)
  BY <1>3, <1>4 DEF EmissionOK, P
<1> QED BY <1>5 DEF f, to

(* An instruction that ends the block, with targets that are blocks or will *)
(* be.                                                                      *)
LEMMA EndKeeps ==
  ASSUME NEW e, NEW b, EmissionOK(e, b), ~ e.done, NEW k \in 0 .. Len(prog),
         NEW op \in Terminators,
         NEW to \in Seq(DOMAIN e.code \cup Promised(e.open, b)),
         Goes([op |-> op, k |-> k, to |-> to])
  PROVE  EmissionOK(Terminate(e, op, k, to), b) /\ Terminate(e, op, k, to).done
<1> DEFINE f == Terminate(e, op, k, to)
           P == Promised(e.open, b)
<1>2. Record(e) /\ BlocksOK(e, P) /\ OpenOK(e, b)
  BY DEF EmissionOK
<1>3. /\ Record(f) /\ BlocksOK(f, P) /\ f.done
      /\ DOMAIN f.code = DOMAIN e.code /\ f.here = e.here
      /\ f.skip = e.skip /\ f.open = e.open /\ f.ids = e.ids
  <2> HIDE DEF P
  <2> QED BY <1>2, TerminateIs DEF P
<1> HIDE DEF f
<1>4. OpenOK(f, b)
  BY <1>2, <1>3 DEF OpenOK
<1>5. EmissionOK(f, b)
  BY <1>3, <1>4 DEF EmissionOK
<1> QED BY <1>3, <1>5 DEF f

-----------------------------------------------------------------------------
(* Opening and closing constructs. *)

(* The construct opened is the innermost, with a new id. *)
LEMMA PushIs ==
  ASSUME NEW e, NEW b, EmissionOK(e, b), NEW op \in {"if", "while"}
  PROVE  LET f == Push(e, op)
         IN  /\ Record(f) /\ f.code = e.code /\ f.here = e.here /\ f.done = e.done
             /\ f.skip = e.skip /\ f.ids = e.ids + 1
             /\ f.open = Append(e.open, [op |-> op, id |-> e.ids])
             /\ BlocksOK(f, Promised(e.open, b))
<1> DEFINE c == Append(e.open, [op |-> op, id |-> e.ids])
           f == Push(e, op)
<1>1. Record(e)
  BY DEF EmissionOK
<1>2. f = [e EXCEPT !.open = c, !.ids = e.ids + 1]
  BY <1>1 DEF Push, Record
<1> HIDE DEF f, c
<1>3. /\ Record(f) /\ f.code = e.code /\ f.here = e.here /\ f.done = e.done
      /\ f.skip = e.skip /\ f.ids = e.ids + 1 /\ f.open = c
  BY <1>1, <1>2 DEF Record
<1>4. BlocksOK(f, Promised(e.open, b))
  BY <1>3, BlocksSame DEF EmissionOK
<1> QED BY <1>3, <1>4 DEF f, c

(* What a new construct promises is added. *)
LEMMA PromisedMore ==
  ASSUME NEW open \in Seq(Constructs), NEW b \in Seq(Kinds), Len(b) = Len(open),
         NEW c \in Constructs, NEW kind \in Kinds
  PROVE  Promised(Append(open, c), Append(b, kind))
           = Promised(open, b) \cup Promises(kind, c.id)
<1> DEFINE o == Append(open, c)
           a == Append(b, kind)
<1>1. /\ Len(open) \in Nat /\ Len(o) = Len(open) + 1
      /\ o[Len(open) + 1] = c /\ \A i \in 1 .. Len(open) : o[i] = open[i]
  BY Appended
<1>2. a[Len(open) + 1] = kind /\ \A i \in 1 .. Len(open) : a[i] = b[i]
  BY Appended
<1> HIDE DEF o, a
<1>3. ASSUME NEW l
      PROVE  l \in Promised(o, a) <=> l \in Promised(open, b) \/ l \in Promises(kind, c.id)
  <2>1. l \in Promised(o, a) <=> \E i \in 1 .. Len(o) : l \in Promises(a[i], o[i].id)
    BY PromisedIs
  <2>2. (\E i \in 1 .. Len(o) : l \in Promises(a[i], o[i].id))
          <=> \/ \E i \in 1 .. Len(open) : l \in Promises(b[i], open[i].id)
              \/ l \in Promises(kind, c.id)
    BY <1>1, <1>2
  <2>3. l \in Promised(open, b)
          <=> \E i \in 1 .. Len(open) : l \in Promises(b[i], open[i].id)
    BY PromisedIs
  <2> QED BY <2>1, <2>2, <2>3
<1> QED BY <1>3 DEF o, a

(* The constructs are those open and a new one. *)
LEMMA OpenMore ==
  ASSUME NEW e, NEW b, OpenOK(e, b), e.skip = 0, NEW op \in {"if", "while"}, NEW f,
         f.skip = 0, f.ids = e.ids + 1,
         f.open = Append(e.open, [op |-> op, id |-> e.ids]),
         DOMAIN e.code \subseteq DOMAIN f.code,
         op = "while" => <<"loop_header", e.ids>> \in DOMAIN f.code
  PROVE  OpenOK(f, Append(b, op))
<1> DEFINE c == [op |-> op, id |-> e.ids]
           a == Append(b, op)
<1>1. /\ c \in Constructs /\ op \in Kinds /\ e.open \in Seq(Constructs)
      /\ b \in Seq(Kinds) /\ c.op = op /\ c.id = e.ids
  BY DEF OpenOK, Constructs, Kinds
<1> HIDE DEF c
<1>2. /\ Len(e.open) \in Nat /\ Len(f.open) = Len(e.open) + 1 /\ f.open \in Seq(Constructs)
      /\ f.open[Len(e.open) + 1] = c /\ \A i \in 1 .. Len(e.open) : f.open[i] = e.open[i]
  BY <1>1, Appended DEF c
<1>3. Len(b) = Len(e.open)
  BY <1>2 DEF OpenOK
<1>4. /\ a \in Seq(Kinds) /\ Len(a) = Len(e.open) + 1
      /\ a[Len(e.open) + 1] = op /\ \A i \in 1 .. Len(e.open) : a[i] = b[i]
  BY <1>1, <1>3, Appended
<1> HIDE DEF a
<1>5. ASSUME NEW i \in 1 .. Len(f.open)
      PROVE  /\ f.open[i].op = "while" <=> a[i] = "while"
             /\ f.open[i].op = "while" =>
                  <<"loop_header", f.open[i].id>> \in DOMAIN f.code
  <2>1. CASE i = Len(e.open) + 1
    BY <2>1, <1>1, <1>2, <1>4
  <2>2. CASE i # Len(e.open) + 1
    <3>1. i \in 1 .. Len(e.open)
      BY <2>2, <1>2
    <3>2. f.open[i] = e.open[i] /\ a[i] = b[i]
      BY <3>1, <1>2, <1>4
    <3> QED BY <3>1, <3>2 DEF OpenOK
  <2> QED BY <2>1, <2>2
<1>6. f.ids \in Nat
  BY DEF OpenOK
<1>7. OpenOK(f, a)
  BY <1>2, <1>4, <1>5, <1>6 DEF OpenOK
<1> QED BY <1>7 DEF a

(* if: the block ends in a test, and then begins. *)
LEMMA IfKeeps ==
  ASSUME Len(prog) \in Nat, NEW e, NEW b, EmissionOK(e, b), ~ e.done, e.skip = 0,
         NEW k \in 0 .. Len(prog)
  PROVE  EmissionOK(EmitIf(e, k), Append(b, "if"))
<1> DEFINE P      == Promised(e.open, b)
           then   == <<"then", e.ids>>
           else   == <<"else", e.ids>>
           Q      == Promised(Append(e.open, [op |-> "if", id |-> e.ids]), Append(b, "if"))
           R      == Q \cup {then}
           to     == <<then, else>>
           f      == Push(e, "if")
           g      == Terminate(f, "if", k, to)
           h      == OpenBlock(g, then)
<1>1. EmitIf(e, k) = h
  BY DEF EmitIf
<1>2. /\ Record(f) /\ f.code = e.code /\ f.here = e.here /\ f.done = e.done
      /\ f.skip = e.skip /\ f.ids = e.ids + 1
      /\ f.open = Append(e.open, [op |-> "if", id |-> e.ids])
      /\ BlocksOK(f, P)
  BY PushIs
<1>3. OpenOK(e, b)
  BY DEF EmissionOK
<1>4. Q = P \cup {else, <<"merge", e.ids>>}
  <2>1. /\ e.open \in Seq(Constructs) /\ b \in Seq(Kinds) /\ Len(b) = Len(e.open)
        /\ [op |-> "if", id |-> e.ids] \in Constructs /\ "if" \in Kinds
    BY <1>3 DEF OpenOK, Constructs, Kinds
  <2>2. Promises("if", [op |-> "if", id |-> e.ids].id) = {else, <<"merge", e.ids>>}
    BY DEF Promises
  <2> QED BY <2>1, <2>2, PromisedMore
<1> HIDE DEF f, P, Q
<1>5. BlocksOK(f, R)
  BY <1>2, <1>4, Arrived
<1>6. /\ "if" \in Terminators /\ ~ f.done
      /\ to \in Seq(DOMAIN f.code \cup R)
      /\ Goes([op |-> "if", k |-> k, to |-> to])
  BY <1>2, <1>4 DEF Terminators, Goes
<1> HIDE DEF then, else, to, R
<1>7. /\ Record(g) /\ BlocksOK(g, R) /\ g.done
      /\ DOMAIN g.code = DOMAIN f.code /\ g.here = f.here
      /\ g.skip = f.skip /\ g.open = f.open /\ g.ids = f.ids
  BY <1>2, <1>5, <1>6, TerminateIs
<1> HIDE DEF g
<1>8. /\ Record(h) /\ BlocksOK(h, R)
      /\ DOMAIN h.code = DOMAIN g.code \cup {then}
      /\ h.skip = g.skip /\ h.open = g.open /\ h.ids = g.ids
  <2>1. Record(g) /\ BlocksOK(g, R) /\ g.done
    BY <1>7
  <2> QED BY <2>1, OpenBlockIs
<1> HIDE DEF h
<1>9. BlocksOK(h, Q)
  BY <1>8, Arrived DEF R
<1>10. OpenOK(h, Append(b, "if"))
  <2>1. /\ h.skip = 0 /\ h.ids = e.ids + 1
        /\ h.open = Append(e.open, [op |-> "if", id |-> e.ids])
        /\ DOMAIN e.code \subseteq DOMAIN h.code
    BY <1>2, <1>7, <1>8
  <2> QED BY <2>1, <1>3, OpenMore
<1>11. EmissionOK(h, Append(b, "if"))
  BY <1>2, <1>7, <1>8, <1>9, <1>10 DEF EmissionOK, Q
<1> QED BY <1>1, <1>11

(* while: the header and the body begin, and latch and exit are to come. *)
LEMMA WhileKeeps ==
  ASSUME Len(prog) \in Nat, NEW e, NEW b, EmissionOK(e, b), ~ e.done, e.skip = 0,
         NEW k \in 0 .. Len(prog)
  PROVE  EmissionOK(EmitWhile(e, k), Append(b, "while"))
<1> DEFINE P      == Promised(e.open, b)
           header == <<"loop_header", e.ids>>
           body   == <<"loop_body", e.ids>>
           exit   == <<"loop_exit", e.ids>>
           Q      == Promised(Append(e.open, [op |-> "while", id |-> e.ids]),
                              Append(b, "while"))
           R      == Q \cup {header, body}
           to     == <<body, exit>>
           f      == Push(e, "while")
           g      == Br(f, header)
           h      == OpenBlock(g, header)
           i      == Terminate(h, "while", k, to)
           j      == OpenBlock(i, body)
<1>1. EmitWhile(e, k) = j
  BY DEF EmitWhile
<1>2. /\ Record(f) /\ f.code = e.code /\ f.here = e.here /\ f.done = e.done
      /\ f.skip = e.skip /\ f.ids = e.ids + 1
      /\ f.open = Append(e.open, [op |-> "while", id |-> e.ids])
      /\ BlocksOK(f, P)
  BY PushIs
<1>3. OpenOK(e, b)
  BY DEF EmissionOK
<1>4. Q = P \cup {<<"loop_latch", e.ids>>, exit}
  <2>1. /\ e.open \in Seq(Constructs) /\ b \in Seq(Kinds) /\ Len(b) = Len(e.open)
        /\ [op |-> "while", id |-> e.ids] \in Constructs /\ "while" \in Kinds
    BY <1>3 DEF OpenOK, Constructs, Kinds
  <2>2. Promises("while", [op |-> "while", id |-> e.ids].id)
          = {<<"loop_latch", e.ids>>, exit}
    BY DEF Promises
  <2> QED BY <2>1, <2>2, PromisedMore
<1> HIDE DEF f, P, Q
<1>5. BlocksOK(f, R) /\ ~ f.done
  BY <1>2, <1>4, Arrived
<1>6. exit \in R /\ body \in R /\ header \in R
  BY <1>4
<1> HIDE DEF R, header
<1>7. /\ Record(g) /\ BlocksOK(g, R) /\ g.done
      /\ DOMAIN g.code = DOMAIN f.code
      /\ g.skip = f.skip /\ g.open = f.open /\ g.ids = f.ids
  BY <1>2, <1>5, <1>6, BrIs
<1> HIDE DEF g
<1>8. /\ Record(h) /\ BlocksOK(h, R) /\ ~ h.done
      /\ DOMAIN h.code = DOMAIN g.code \cup {header}
      /\ h.skip = g.skip /\ h.open = g.open /\ h.ids = g.ids
  <2>1. Record(g) /\ BlocksOK(g, R) /\ g.done
    BY <1>7
  <2>2. ~ h.done
    BY <2>1, OpenBlockIs
  <2> QED BY <2>1, <2>2, OpenBlockIs
<1> HIDE DEF h
<1>9. /\ "while" \in Terminators
      /\ to \in Seq(DOMAIN h.code \cup R)
      /\ Goes([op |-> "while", k |-> k, to |-> to])
  BY <1>6 DEF Terminators, Goes
<1> HIDE DEF to, body, exit
<1>10. /\ Record(i) /\ BlocksOK(i, R) /\ i.done
       /\ DOMAIN i.code = DOMAIN h.code
       /\ i.skip = h.skip /\ i.open = h.open /\ i.ids = h.ids
  BY <1>8, <1>9, TerminateIs
<1> HIDE DEF i
<1>11. /\ Record(j) /\ BlocksOK(j, R)
       /\ DOMAIN j.code = DOMAIN i.code \cup {body}
       /\ j.skip = i.skip /\ j.open = i.open /\ j.ids = i.ids
  <2>1. Record(i) /\ BlocksOK(i, R) /\ i.done
    BY <1>10
  <2> QED BY <2>1, OpenBlockIs
<1> HIDE DEF j
<1>12. BlocksOK(j, Q)
  <2>1. R \subseteq DOMAIN j.code \cup Q
    BY <1>8, <1>10, <1>11 DEF R
  <2> QED BY <1>11, <2>1, Arrived
<1>13. OpenOK(j, Append(b, "while"))
  <2>1. /\ j.skip = 0 /\ j.ids = e.ids + 1
        /\ j.open = Append(e.open, [op |-> "while", id |-> e.ids])
        /\ DOMAIN e.code \subseteq DOMAIN j.code
    BY <1>2, <1>7, <1>8, <1>10, <1>11
  <2>2. <<"loop_header", e.ids>> \in DOMAIN j.code
    BY <1>8, <1>10, <1>11 DEF header
  <2> QED BY <2>1, <2>2, <1>3, OpenMore
<1>14. EmissionOK(j, Append(b, "while"))
  <2>1. j.open = Append(e.open, [op |-> "while", id |-> e.ids])
    BY <1>2, <1>7, <1>8, <1>10, <1>11
  <2> QED BY <2>1, <1>11, <1>12, <1>13 DEF EmissionOK, Q
<1> QED BY <1>1, <1>14

(* A sequence without its last element. *)
LEMMA FrontIs ==
  ASSUME NEW S, NEW s \in Seq(S), s # <<>>
  PROVE  /\ Front(s) \in Seq(S) /\ Len(s) \in Nat \ {0} /\ Len(Front(s)) = Len(s) - 1
         /\ \A i \in 1 .. Len(s) - 1 : Front(s)[i] = s[i]
         /\ Last(s) = s[Len(s)] /\ Last(s) \in S
<1>1. Len(s) \in Nat \ {0}
  OBVIOUS
<1> DEFINE n == Len(s) - 1
<1>0. n \in Nat /\ \A i \in 1 .. n : s[i] \in S
  BY <1>1
<1>2. /\ SubSeq(s, 1, n) \in Seq(S) /\ Len(SubSeq(s, 1, n)) = n
      /\ \A i \in 1 .. n : SubSeq(s, 1, n)[i] = s[i]
  <2> HIDE DEF n
  <2>1. 1 \in Int /\ n \in Int
    BY <1>0
  <2>2. /\ SubSeq(s, 1, n) \in Seq(S)
        /\ Len(SubSeq(s, 1, n)) = IF 1 <= n THEN n - 1 + 1 ELSE 0
        /\ \A i \in 1 .. n - 1 + 1 : SubSeq(s, 1, n)[i] = s[1 + i - 1]
    BY <2>1, <1>0, SubSeqProperties
  <2>3. n - 1 + 1 = n /\ \A i \in 1 .. n : 1 + i - 1 = i
    BY <1>0
  <2>4. Len(SubSeq(s, 1, n)) = n
    BY <2>2, <1>0
  <2> QED BY <2>2, <2>3, <2>4
<1>3. s[Len(s)] \in S
  BY <1>1
<1> QED BY <1>1, <1>2, <1>3 DEF Front, Last

(* The innermost construct around the place is the innermost open one. *)
LEMMA InnermostIs ==
  ASSUME NEW e, NEW b, OpenOK(e, b), e.skip = 0, b # <<>>
  PROVE  /\ Len(e.open) \in Nat \ {0} /\ Len(b) = Len(e.open) /\ e.open # <<>>
         /\ Last(b) = b[Len(e.open)] /\ Last(e.open) = e.open[Len(e.open)]
         /\ Last(e.open) \in Constructs
         /\ Last(e.open).op = "while" <=> Last(b) = "while"
         /\ Promises(Last(b), Last(e.open).id) \subseteq Promised(e.open, b)
<1>1. b \in Seq(Kinds) /\ e.open \in Seq(Constructs) /\ Len(b) = Len(e.open)
  BY DEF OpenOK
<1>2. Len(b) \in Nat \ {0} /\ Last(b) = b[Len(b)]
  BY <1>1, FrontIs
<1>3. e.open # <<>>
  BY <1>1, <1>2
<1>4. Last(e.open) = e.open[Len(e.open)] /\ Last(e.open) \in Constructs
  BY <1>1, <1>3, FrontIs
<1>5. Len(e.open) \in 1 .. Len(e.open)
  BY <1>1, <1>2
<1>6. Last(e.open).op = "while" <=> Last(b) = "while"
  BY <1>1, <1>2, <1>4, <1>5 DEF OpenOK
<1>7. Promises(Last(b), Last(e.open).id) \subseteq Promised(e.open, b)
  BY <1>1, <1>2, <1>4, <1>5, PromisedIs
<1> QED BY <1>1, <1>2, <1>3, <1>4, <1>6, <1>7

(* The innermost construct is closed when what it promised has come. *)
LEMMA PopKeeps ==
  ASSUME NEW e, NEW b, OpenOK(e, b), e.skip = 0, b # <<>>,
         NEW g, Record(g), BlocksOK(g, Promised(e.open, b)),
         g.skip = 0, g.open = e.open, g.ids = e.ids,
         DOMAIN e.code \subseteq DOMAIN g.code,
         Promises(Last(b), Last(e.open).id) \subseteq DOMAIN g.code
  PROVE  EmissionOK(Pop(g), Front(b))
<1> DEFINE o == Front(e.open)
           a == Front(b)
           n == Len(e.open)
           f == Pop(g)
<1>1. /\ n \in Nat \ {0} /\ Len(b) = n /\ e.open # <<>>
      /\ e.open \in Seq(Constructs) /\ b \in Seq(Kinds)
      /\ Last(b) = b[n] /\ Last(e.open) = e.open[n]
  BY InnermostIs DEF OpenOK
<1>2. o \in Seq(Constructs) /\ Len(o) = n - 1 /\ \A i \in 1 .. n - 1 : o[i] = e.open[i]
  BY <1>1, FrontIs
<1>3. a \in Seq(Kinds) /\ Len(a) = n - 1 /\ \A i \in 1 .. n - 1 : a[i] = b[i]
  BY <1>1, FrontIs
<1>4. /\ Record(f) /\ f.code = g.code /\ f.here = g.here /\ f.done = g.done
      /\ f.skip = g.skip /\ f.open = o /\ f.ids = g.ids
  <2>1. f = [g EXCEPT !.open = Front(g.open)]
    BY DEF Pop
  <2> HIDE DEF f
  <2>2. /\ Record(f) /\ f.code = g.code /\ f.here = g.here /\ f.done = g.done
        /\ f.skip = g.skip /\ f.open = Front(g.open) /\ f.ids = g.ids
    BY <2>1 DEF Record
  <2> QED BY <2>2
<1> HIDE DEF f, o, a
<1>5. Promised(e.open, b) \subseteq DOMAIN g.code \cup Promised(o, a)
  <2> SUFFICES ASSUME NEW l \in Promised(e.open, b), l \notin DOMAIN g.code
               PROVE  l \in Promised(o, a)
    OBVIOUS
  <2>1. PICK i \in 1 .. Len(e.open) : l \in Promises(b[i], e.open[i].id)
    BY PromisedIs
  <2>2. i # n
    BY <2>1, <1>1
  <2>3. i \in 1 .. Len(o) /\ o[i] = e.open[i] /\ a[i] = b[i]
    BY <2>2, <1>1, <1>2, <1>3
  <2>4. l \in Promises(a[i], o[i].id)
    BY <2>1, <2>3
  <2> QED BY <2>3, <2>4, PromisedIs
<1>6. BlocksOK(f, Promised(o, a))
  <2>1. BlocksOK(g, Promised(o, a))
    BY <1>5, Arrived
  <2> QED BY <2>1, <1>4, BlocksSame
<1>7. OpenOK(f, a)
  <2>1. ASSUME NEW i \in 1 .. Len(o)
        PROVE  /\ o[i].op = "while" <=> a[i] = "while"
               /\ o[i].op = "while" => <<"loop_header", o[i].id>> \in DOMAIN f.code
    <3>1. i \in 1 .. Len(e.open) /\ o[i] = e.open[i] /\ a[i] = b[i]
      BY <1>1, <1>2, <1>3
    <3> QED BY <3>1, <1>4 DEF OpenOK
  <2>2. f.skip = 0 /\ f.ids \in Nat
    BY <1>4 DEF OpenOK
  <2>3. Len(a) = Len(o) + f.skip
    BY <2>2, <1>1, <1>2, <1>3
  <2> HIDE DEF n
  <2> QED BY <2>1, <2>2, <2>3, <1>2, <1>3, <1>4 DEF OpenOK
<1>8. EmissionOK(f, a)
  BY <1>4, <1>6, <1>7 DEF EmissionOK
<1> QED BY <1>8 DEF f, a

(* The end of an if: merge has come. *)
LEMMA EndIfKeeps ==
  ASSUME Len(prog) \in Nat, NEW e, NEW b, EmissionOK(e, b), e.skip = 0,
         b # <<>>, Last(b) = "else"
  PROVE  EmissionOK(EmitEnd(e), Front(b))
<1> DEFINE P     == Promised(e.open, b)
           merge == <<"merge", Last(e.open).id>>
           f     == BrUnlessDone(e, merge)
           g     == OpenBlock(f, merge)
<1>1. OpenOK(e, b) /\ Record(e) /\ BlocksOK(e, P)
  BY DEF EmissionOK
<1>2. Last(e.open).op = "if" /\ merge \in P /\ Promises(Last(b), Last(e.open).id) = {merge}
  <2>1. Last(e.open) \in Constructs /\ (Last(e.open).op = "while" <=> Last(b) = "while")
    BY <1>1, InnermostIs
  <2>2. Promises(Last(b), Last(e.open).id) = {merge}
    BY DEF Promises
  <2>3. Promises(Last(b), Last(e.open).id) \subseteq P
    BY <1>1, InnermostIs
  <2> QED BY <2>1, <2>2, <2>3 DEF Constructs
<1>3. EmitEnd(e) = Pop(g)
  BY <1>2 DEF EmitEnd
<1> HIDE DEF P, merge
<1>4. /\ Record(f) /\ BlocksOK(f, P) /\ f.done
      /\ DOMAIN f.code = DOMAIN e.code
      /\ f.skip = e.skip /\ f.open = e.open /\ f.ids = e.ids
  BY <1>1, <1>2, BrUnlessDoneIs
<1> HIDE DEF f
<1>5. /\ Record(g) /\ BlocksOK(g, P)
      /\ DOMAIN g.code = DOMAIN f.code \cup {merge}
      /\ g.skip = f.skip /\ g.open = f.open /\ g.ids = f.ids
  <2>1. Record(f) /\ BlocksOK(f, P) /\ f.done
    BY <1>4
  <2> QED BY <2>1, OpenBlockIs
<1> HIDE DEF g
<1>6. /\ BlocksOK(g, Promised(e.open, b))
      /\ g.skip = 0 /\ g.open = e.open /\ g.ids = e.ids
      /\ DOMAIN e.code \subseteq DOMAIN g.code
      /\ Promises(Last(b), Last(e.open).id) \subseteq DOMAIN g.code
  BY <1>2, <1>4, <1>5 DEF P
<1>7. EmissionOK(Pop(g), Front(b))
  BY <1>1, <1>5, <1>6, PopKeeps
<1> QED BY <1>3, <1>7

(* The end of a while: latch and exit have come. *)
LEMMA EndWhileKeeps ==
  ASSUME Len(prog) \in Nat, NEW e, NEW b, EmissionOK(e, b), e.skip = 0,
         b # <<>>, Last(b) = "while"
  PROVE  EmissionOK(EmitEnd(e), Front(b))
<1> DEFINE P      == Promised(e.open, b)
           id     == Last(e.open).id
           latch  == <<"loop_latch", id>>
           header == <<"loop_header", id>>
           exit   == <<"loop_exit", id>>
           f      == BrUnlessDone(e, latch)
           g      == OpenBlock(f, latch)
           h      == BrUnlessDone(g, header)
           i      == OpenBlock(h, exit)
<1>1. OpenOK(e, b) /\ Record(e) /\ BlocksOK(e, P)
  BY DEF EmissionOK
<1>2. /\ Last(e.open).op = "while" /\ latch \in P /\ header \in DOMAIN e.code
      /\ Promises(Last(b), Last(e.open).id) = {latch, exit}
  <2>1. /\ Last(e.open).op = "while"
        /\ Last(e.open) = e.open[Len(e.open)] /\ Len(e.open) \in Nat \ {0}
    BY <1>1, InnermostIs
  <2>2. Promises(Last(b), Last(e.open).id) = {latch, exit}
    BY DEF Promises
  <2>3. Promises(Last(b), Last(e.open).id) \subseteq P
    BY <1>1, InnermostIs
  <2>4. Len(e.open) \in 1 .. Len(e.open)
    BY <2>1
  <2>5. header \in DOMAIN e.code
    BY <2>1, <2>4, <1>1 DEF OpenOK
  <2> QED BY <2>1, <2>2, <2>3, <2>5
<1>3. EmitEnd(e) = Pop(i)
  BY <1>2 DEF EmitEnd
<1> HIDE DEF P, latch, header, exit
<1>4. /\ Record(f) /\ BlocksOK(f, P) /\ f.done
      /\ DOMAIN f.code = DOMAIN e.code
      /\ f.skip = e.skip /\ f.open = e.open /\ f.ids = e.ids
  BY <1>1, <1>2, BrUnlessDoneIs
<1> HIDE DEF f
<1>5. /\ Record(g) /\ BlocksOK(g, P)
      /\ DOMAIN g.code = DOMAIN f.code \cup {latch}
      /\ g.skip = f.skip /\ g.open = f.open /\ g.ids = f.ids
  <2>1. Record(f) /\ BlocksOK(f, P) /\ f.done
    BY <1>4
  <2> QED BY <2>1, OpenBlockIs
<1> HIDE DEF g
<1>6. /\ Record(h) /\ BlocksOK(h, P) /\ h.done
      /\ DOMAIN h.code = DOMAIN g.code
      /\ h.skip = g.skip /\ h.open = g.open /\ h.ids = g.ids
  <2>1. header \in DOMAIN g.code \cup P
    BY <1>2, <1>4, <1>5
  <2> QED BY <2>1, <1>5, BrUnlessDoneIs
<1> HIDE DEF h
<1>7. /\ Record(i) /\ BlocksOK(i, P)
      /\ DOMAIN i.code = DOMAIN h.code \cup {exit}
      /\ i.skip = h.skip /\ i.open = h.open /\ i.ids = h.ids
  <2>1. Record(h) /\ BlocksOK(h, P) /\ h.done
    BY <1>6
  <2> QED BY <2>1, OpenBlockIs
<1> HIDE DEF i
<1>8. /\ BlocksOK(i, Promised(e.open, b))
      /\ i.skip = 0 /\ i.open = e.open /\ i.ids = e.ids
      /\ DOMAIN e.code \subseteq DOMAIN i.code
      /\ Promises(Last(b), Last(e.open).id) \subseteq DOMAIN i.code
  BY <1>2, <1>4, <1>5, <1>6, <1>7 DEF P
<1>9. EmissionOK(Pop(i), Front(b))
  BY <1>1, <1>7, <1>8, PopKeeps
<1> QED BY <1>3, <1>9

(* else: its block has come, and merge is still to come. *)
LEMMA ElseKeeps ==
  ASSUME Len(prog) \in Nat, NEW e, NEW b, EmissionOK(e, b), e.skip = 0,
         b # <<>>, Last(b) = "if"
  PROVE  EmissionOK(EmitElse(e), Append(Front(b), "else"))
<1> DEFINE P     == Promised(e.open, b)
           n     == Len(e.open)
           a     == Append(Front(b), "else")
           merge == <<"merge", Last(e.open).id>>
           else  == <<"else", Last(e.open).id>>
           f     == BrUnlessDone(e, merge)
           g     == OpenBlock(f, else)
<1>1. OpenOK(e, b) /\ Record(e) /\ BlocksOK(e, P)
  BY DEF EmissionOK
<1>2. /\ n \in Nat \ {0} /\ Len(b) = n /\ b \in Seq(Kinds)
      /\ Last(b) = b[n] /\ Last(e.open) = e.open[n]
      /\ Last(e.open).op # "while"
  BY <1>1, InnermostIs DEF OpenOK
<1>3. merge \in P /\ Promises(Last(b), Last(e.open).id) = {merge, else}
  <2>1. Promises(Last(b), Last(e.open).id) = {merge, else}
    BY DEF Promises
  <2>2. Promises(Last(b), Last(e.open).id) \subseteq P
    BY <1>1, InnermostIs
  <2> QED BY <2>1, <2>2
<1>4. /\ a \in Seq(Kinds) /\ Len(a) = n /\ a[n] = "else"
      /\ \A i \in 1 .. n - 1 : a[i] = b[i]
  <2> DEFINE c == Front(b)
  <2>1. c \in Seq(Kinds) /\ Len(c) = n - 1 /\ \A i \in 1 .. n - 1 : c[i] = b[i]
    BY <1>2, FrontIs
  <2> HIDE DEF c, n
  <2>2. /\ Append(c, "else") \in Seq(Kinds) /\ Len(Append(c, "else")) = (n - 1) + 1
        /\ Append(c, "else")[(n - 1) + 1] = "else"
        /\ \A i \in 1 .. n - 1 : Append(c, "else")[i] = c[i]
    BY <2>1, Appended DEF Kinds
  <2>3. (n - 1) + 1 = n
    BY <1>2
  <2> QED BY <2>1, <2>2, <2>3 DEF c
<1>5. <<"merge", e.open[n].id>> \in Promises(a[n], e.open[n].id)
  BY <1>4 DEF Promises
<1>6. EmitElse(e) = g
  BY DEF EmitElse
<1> HIDE DEF P, a
<1>7. /\ Record(f) /\ BlocksOK(f, P) /\ f.done
      /\ DOMAIN f.code = DOMAIN e.code
      /\ f.skip = e.skip /\ f.open = e.open /\ f.ids = e.ids
  <2> HIDE DEF merge, else
  <2> QED BY <1>1, <1>3, BrUnlessDoneIs
<1> HIDE DEF f
<1>8. /\ Record(g) /\ BlocksOK(g, P)
      /\ DOMAIN g.code = DOMAIN f.code \cup {else}
      /\ g.skip = f.skip /\ g.open = f.open /\ g.ids = f.ids
  <2>1. Record(f) /\ BlocksOK(f, P) /\ f.done
    BY <1>7
  <2> HIDE DEF else
  <2> QED BY <2>1, OpenBlockIs
<1> HIDE DEF g
<1>9. P \subseteq DOMAIN g.code \cup Promised(e.open, a)
  <2> SUFFICES ASSUME NEW l \in P, l # else PROVE l \in Promised(e.open, a)
    BY <1>8
  <2>1. PICK i \in 1 .. Len(e.open) : l \in Promises(b[i], e.open[i].id)
    BY PromisedIs DEF P
  <2>2. l \in Promises(a[i], e.open[i].id)
    <3>1. CASE i = n
      <4>1. l = merge
        BY <3>1, <2>1, <1>2, <1>3
      <4> QED BY <4>1, <3>1, <1>2, <1>5
    <3>2. CASE i # n
      <4>1. a[i] = b[i]
        BY <3>2, <1>2, <1>4
      <4> QED BY <4>1, <2>1
    <3> QED BY <3>1, <3>2
  <2> QED BY <2>2, PromisedIs
<1>10. BlocksOK(g, Promised(g.open, a))
  <2>1. g.open = e.open
    BY <1>7, <1>8
  <2> QED BY <2>1, <1>8, <1>9, Arrived
<1>11. OpenOK(g, a)
  <2>1. ASSUME NEW i \in 1 .. n
        PROVE  /\ e.open[i].op = "while" <=> a[i] = "while"
               /\ e.open[i].op = "while" => <<"loop_header", e.open[i].id>> \in DOMAIN g.code
    <3>1. CASE i = n
      BY <3>1, <1>2, <1>4
    <3>2. CASE i # n
      <4>1. a[i] = b[i]
        BY <3>2, <1>2, <1>4
      <4> QED BY <4>1, <1>1, <1>7, <1>8 DEF OpenOK
    <3> QED BY <3>1, <3>2
  <2>2. g.skip = 0 /\ g.open = e.open /\ g.ids = e.ids
    BY <1>7, <1>8
  <2>3. e.open \in Seq(Constructs) /\ e.ids \in Nat
    BY <1>1 DEF OpenOK
  <2> QED BY <2>1, <2>2, <2>3, <1>2, <1>4 DEF OpenOK
<1>12. EmissionOK(g, a)
  BY <1>8, <1>10, <1>11 DEF EmissionOK
<1> QED BY <1>6, <1>12 DEF a

(* A break or a continue inside a loop leaves or repeats the innermost. *)
LEMMA LoopJumpKeeps ==
  ASSUME Len(prog) \in Nat, NEW e, NEW b, EmissionOK(e, b), ~ e.done, e.skip = 0,
         "while" \in ToSet(b), NEW part \in {"loop_exit", "loop_latch"}
  PROVE  EmissionOK(Br(e, <<part, Target(e)>>), b)
<1> DEFINE t     == Max(Whiles(e))
           label == <<part, e.open[t].id>>
           to    == <<label>>
<1>1. /\ e.open \in Seq(Constructs) /\ b \in Seq(Kinds) /\ Len(b) = Len(e.open)
      /\ \A i \in 1 .. Len(e.open) : e.open[i].op = "while" <=> b[i] = "while"
  <2>1. OpenOK(e, b)
    BY DEF EmissionOK
  <2>2. e.open \in Seq(Constructs) /\ b \in Seq(Kinds)
    BY <2>1 DEF OpenOK
  <2>3. Len(b) = Len(e.open) + 0
    BY <2>1 DEF OpenOK
  <2>4. Len(e.open) \in Nat
    BY <2>2
  <2>5. Len(b) = Len(e.open)
    BY <2>3, <2>4
  <2> QED BY <2>1, <2>2, <2>5 DEF OpenOK
<1>2. Len(e.open) \in Nat /\ DOMAIN e.open = 1 .. Len(e.open) /\ DOMAIN b = 1 .. Len(e.open)
  BY <1>1
<1>3. Whiles(e) # {} /\ Whiles(e) \subseteq 1 .. Len(e.open)
  <2>1. PICK i \in DOMAIN b : b[i] = "while"
    BY DEF ToSet
  <2> QED BY <2>1, <1>1, <1>2 DEF Whiles
<1>4. t \in Whiles(e)
  BY <1>2, <1>3, MaxIs
<1> HIDE DEF t
<1>5. t \in 1 .. Len(e.open) /\ b[t] = "while"
  BY <1>1, <1>2, <1>4 DEF Whiles
<1>6. label \in Promises(b[t], e.open[t].id)
  BY <1>5 DEF Promises
<1> HIDE DEF label
<1>7. label \in Promised(e.open, b)
  BY <1>5, <1>6, PromisedIs
<1>8. /\ "br" \in Terminators /\ 0 \in 0 .. Len(prog)
      /\ to \in Seq(DOMAIN e.code \cup Promised(e.open, b))
      /\ Goes([op |-> "br", k |-> 0, to |-> to])
  BY <1>7 DEF Terminators, Goes
<1> HIDE DEF to
<1>9. EmissionOK(Terminate(e, "br", 0, to), b)
  BY <1>8, EndKeeps
<1>10. Br(e, <<part, Target(e)>>) = Terminate(e, "br", 0, to)
  BY DEF Br, Target, to, label, t
<1> QED BY <1>9, <1>10

-----------------------------------------------------------------------------
(* Emission. *)

(* What is known of a body. *)
LEMMA ProgIs ==
  ASSUME NEW p \in Programs
  PROVE  /\ Len(p) \in Nat /\ DOMAIN p = 1 .. Len(p)
         /\ \A k \in 1 .. Len(p) :
              /\ p[k].op \in Ops
              /\ p[k].op = "else" => Ends(Nesting(p)[k - 1], {"if"})
              /\ p[k].op = "end" => Ends(Nesting(p)[k - 1], {"else", "while"})
         /\ Nesting(p)[Len(p)] = <<>>
<1>1. p \in Seq(ToSet(p)) /\ (\A k \in DOMAIN p : p[k].op \in Ops) /\ WellNested(p)
  BY ProgramsAssumption
<1>2. Len(p) \in Nat /\ DOMAIN p = 1 .. Len(p)
  BY <1>1
<1> QED BY <1>1, <1>2 DEF WellNested

(* What check.rs has made sure of before the code is emitted. *)
JumpsInLoop(k) == Op(k) \in {"break", "continue"} => InLoop(k)

(* Of a body that checks, each token keeps the emission in order. *)
LEMMA TokenKeeps ==
  ASSUME prog \in Programs, NEW k \in 1 .. Len(prog), JumpsInLoop(k),
         NEW e, EmissionOK(e, Nesting(prog)[k - 1])
  PROVE  EmissionOK(EmitToken(e, k), Nesting(prog)[k])
<1> DEFINE b == Nesting(prog)[k - 1]
           a == Nesting(prog)[k]
           op == prog[k].op
<1>1. /\ Len(prog) \in Nat /\ k \in 0 .. Len(prog) /\ op \in Ops
      /\ op = "else" => b # <<>> /\ Last(b) = "if"
      /\ op = "end" => b # <<>> /\ Last(b) \in {"else", "while"}
  BY ProgIs DEF Ends
<1>2. a = CASE op \in {"if", "while"} -> Append(b, op)
            [] op = "else" -> Append(Front(b), "else")
            [] op = "end"  -> Front(b)
            [] OTHER       -> b
  BY <1>1, NestingIs
<1>3. Op(k) = op
  BY DEF Op
<1>4. op \in {"break", "continue"} => "while" \in ToSet(b)
  BY <1>3 DEF JumpsInLoop, InLoop
<1> HIDE DEF b, a, op
<1>5. EmissionOK(e, b)
  BY DEF b
<1>6. /\ Record(e) /\ e.skip \in Nat /\ (e.skip > 0 => e.done)
      /\ b \in Seq(Kinds) /\ Len(e.open) \in Nat /\ Len(b) = Len(e.open) + e.skip
  <2>1. OpenOK(e, b) /\ Record(e)
    BY <1>5 DEF EmissionOK
  <2>2. e.open \in Seq(Constructs)
    BY <2>1 DEF OpenOK
  <2>3. Len(e.open) \in Nat
    BY <2>2
  <2> QED BY <2>1, <2>3 DEF OpenOK
<1>7. \A kind \in Kinds :
        /\ Append(b, kind) \in Seq(Kinds) /\ Len(Append(b, kind)) = Len(b) + 1
        /\ \A i \in 1 .. Len(b) : Append(b, kind)[i] = b[i]
  BY <1>6, Appended
<1>8. b # <<>> =>
        /\ Front(b) \in Seq(Kinds) /\ Len(b) \in Nat \ {0} /\ Len(Front(b)) = Len(b) - 1
        /\ \A i \in 1 .. Len(b) - 1 : Front(b)[i] = b[i]
  BY <1>6, FrontIs
<1> DEFINE m == Len(e.open)
           s == e.skip
<1>14. m \in Nat /\ s \in Nat /\ Len(b) = m + s
  BY <1>6
<1>9. CASE e.skip > 0
  <2>1. e.done /\ e.skip # 0
    BY <1>6, <1>9
  <2>2. CASE op \in {"if", "while"}
    <3>1. EmitToken(e, k) = [e EXCEPT !.skip = e.skip + 1]
      BY <1>3, <1>9, <2>2 DEF EmitToken
    <3>2. a = Append(b, op) /\ op \in Kinds
      BY <1>2, <2>2 DEF Kinds
    <3>3. /\ a \in Seq(Kinds) /\ s + 1 \in Nat /\ Len(a) = m + (s + 1)
          /\ \A i \in 1 .. m : a[i] = b[i]
      <4> HIDE DEF m, s
      <4>1. a \in Seq(Kinds) /\ Len(a) = Len(b) + 1 /\ \A i \in 1 .. Len(b) : a[i] = b[i]
        BY <3>2, <1>7
      <4> QED BY <4>1, <1>14
    <3>4. EmissionOK([e EXCEPT !.skip = e.skip + 1], a)
      BY <3>3, <2>1, <1>5, SkipKeeps
    <3> QED BY <3>1, <3>4 DEF a
  <2>3. CASE op = "end"
    <3>1. EmitToken(e, k) = [e EXCEPT !.skip = e.skip - 1]
      BY <1>3, <1>9, <2>3 DEF EmitToken
    <3>2. a = Front(b) /\ b # <<>>
      BY <1>1, <1>2, <2>3
    <3>3. /\ a \in Seq(Kinds) /\ s - 1 \in Nat /\ Len(a) = m + (s - 1)
          /\ \A i \in 1 .. m : a[i] = b[i]
      <4>1. s > 0
        BY <1>9
      <4> HIDE DEF m, s
      <4>2. a \in Seq(Kinds) /\ Len(a) = Len(b) - 1
            /\ \A i \in 1 .. Len(b) - 1 : a[i] = b[i]
        BY <3>2, <1>8
      <4> QED BY <4>1, <4>2, <1>14
    <3>4. EmissionOK([e EXCEPT !.skip = e.skip - 1], a)
      BY <3>3, <2>1, <1>5, SkipKeeps
    <3> QED BY <3>1, <3>4 DEF a
  <2>4. CASE op \notin {"if", "while", "end"}
    <3>1. EmitToken(e, k) = e
      BY <1>3, <1>9, <2>4 DEF EmitToken
    <3>2. e = [e EXCEPT !.skip = e.skip]
      BY <1>6 DEF Record
    <3>3. /\ a \in Seq(Kinds) /\ Len(a) = Len(e.open) + e.skip
          /\ \A i \in 1 .. Len(e.open) : a[i] = b[i]
      <4>1. CASE op = "else"
        <5> DEFINE c == Front(b)
        <5>1. a = Append(c, "else") /\ b # <<>> /\ "else" \in Kinds
          BY <1>1, <1>2, <4>1 DEF Kinds
        <5>2. /\ c \in Seq(Kinds) /\ Len(c) = Len(b) - 1
              /\ \A i \in 1 .. Len(b) - 1 : c[i] = b[i]
          BY <5>1, <1>8
        <5> HIDE DEF c
        <5>3. /\ a \in Seq(Kinds) /\ Len(a) = Len(c) + 1
              /\ \A i \in 1 .. Len(c) : a[i] = c[i]
          BY <5>1, <5>2, Appended
        <5>4. s > 0
          BY <1>9
        <5> HIDE DEF m, s
        <5>5. Len(a) = m + s /\ 1 .. m \subseteq 1 .. Len(c) /\ Len(c) = Len(b) - 1
          BY <5>2, <5>3, <5>4, <1>14
        <5>6. \A i \in 1 .. m : a[i] = b[i]
          BY <5>2, <5>3, <5>5
        <5>7. a \in Seq(Kinds) /\ Len(a) = m + s /\ \A i \in 1 .. m : a[i] = b[i]
          BY <5>3, <5>5, <5>6
        <5> QED BY <5>7 DEF m, s
      <4>2. CASE op # "else"
        <5>1. a = b
          BY <1>2, <2>4, <4>2
        <5> QED BY <5>1, <1>6
      <4> QED BY <4>1, <4>2
    <3>4. EmissionOK([e EXCEPT !.skip = e.skip], a)
      BY <3>3, <2>1, <1>5, <1>6, SkipKeeps
    <3> QED BY <3>1, <3>2, <3>4 DEF a
  <2> QED BY <2>2, <2>3, <2>4
<1>10. CASE e.skip = 0 /\ op = "else"
  <2>1. EmitToken(e, k) = EmitElse(e) /\ a = Append(Front(b), "else")
    BY <1>2, <1>3, <1>10 DEF EmitToken
  <2>2. EmissionOK(EmitElse(e), Append(Front(b), "else"))
    BY <1>1, <1>5, <1>10, ElseKeeps
  <2> QED BY <2>1, <2>2 DEF a
<1>11. CASE e.skip = 0 /\ op = "end"
  <2>1. EmitToken(e, k) = EmitEnd(e) /\ a = Front(b)
    BY <1>2, <1>3, <1>11 DEF EmitToken
  <2>2. EmissionOK(EmitEnd(e), Front(b))
    BY <1>1, <1>5, <1>11, EndIfKeeps, EndWhileKeeps
  <2> QED BY <2>1, <2>2 DEF a
<1>12. CASE e.skip = 0 /\ op \notin {"else", "end"} /\ e.done
  <2> DEFINE n == IF op \in {"if", "while"} THEN 1 ELSE 0
  <2>1. EmitToken(e, k) = [e EXCEPT !.skip = n]
    BY <1>3, <1>12 DEF EmitToken
  <2>2. /\ a \in Seq(Kinds) /\ n \in Nat /\ Len(a) = Len(e.open) + n
        /\ \A i \in 1 .. Len(e.open) : a[i] = b[i]
    <3>1. CASE op \in {"if", "while"}
      <4>1. a = Append(b, op) /\ op \in Kinds /\ n = 1 /\ s = 0
        BY <1>2, <1>12, <3>1 DEF Kinds
      <4> HIDE DEF m, s, n
      <4>2. a \in Seq(Kinds) /\ Len(a) = Len(b) + 1 /\ \A i \in 1 .. Len(b) : a[i] = b[i]
        BY <4>1, <1>7
      <4>3. a \in Seq(Kinds) /\ n \in Nat /\ Len(a) = m + n /\ \A i \in 1 .. m : a[i] = b[i]
        BY <4>1, <4>2, <1>14
      <4> QED BY <4>3 DEF m
    <3>2. CASE op \notin {"if", "while"}
      <4>1. a = b /\ n = 0
        BY <1>2, <1>12, <3>2
      <4> QED BY <4>1, <1>6, <1>12
    <3> QED BY <3>1, <3>2
  <2> HIDE DEF n
  <2>3. EmissionOK([e EXCEPT !.skip = n], a)
    BY <2>2, <1>5, <1>12, SkipKeeps
  <2> QED BY <2>1, <2>3 DEF a
<1>13. CASE e.skip = 0 /\ op \notin {"else", "end"} /\ ~ e.done
  <2>1. CASE op = "if"
    <3>1. EmitToken(e, k) = EmitIf(e, k) /\ a = Append(b, "if")
      BY <1>2, <1>3, <1>13, <2>1 DEF EmitToken
    <3>2. EmissionOK(EmitIf(e, k), Append(b, "if"))
      BY <1>1, <1>5, <1>13, IfKeeps
    <3> QED BY <3>1, <3>2 DEF a
  <2>2. CASE op = "while"
    <3>1. EmitToken(e, k) = EmitWhile(e, k) /\ a = Append(b, "while")
      BY <1>2, <1>3, <1>13, <2>2 DEF EmitToken
    <3>2. EmissionOK(EmitWhile(e, k), Append(b, "while"))
      BY <1>1, <1>5, <1>13, WhileKeeps
    <3> QED BY <3>1, <3>2 DEF a
  <2>3. CASE op = "break"
    <3>1. EmitToken(e, k) = Br(e, <<"loop_exit", Target(e)>>) /\ a = b
      BY <1>2, <1>3, <1>13, <2>3 DEF EmitToken
    <3>2. EmissionOK(Br(e, <<"loop_exit", Target(e)>>), b)
      BY <1>1, <1>4, <1>5, <1>13, <2>3, LoopJumpKeeps
    <3> QED BY <3>1, <3>2 DEF a
  <2>4. CASE op = "continue"
    <3>1. EmitToken(e, k) = Br(e, <<"loop_latch", Target(e)>>) /\ a = b
      BY <1>2, <1>3, <1>13, <2>4 DEF EmitToken
    <3>2. EmissionOK(Br(e, <<"loop_latch", Target(e)>>), b)
      BY <1>1, <1>4, <1>5, <1>13, <2>4, LoopJumpKeeps
    <3> QED BY <3>1, <3>2 DEF a
  <2>5. CASE op = "return"
    <3> DEFINE none == <<>>
    <3>1. EmitToken(e, k) = Terminate(e, "return", k, none) /\ a = b
      BY <1>2, <1>3, <1>13, <2>5 DEF EmitToken
    <3>2. /\ "return" \in Terminators
          /\ none \in Seq(DOMAIN e.code \cup Promised(e.open, b))
          /\ Goes([op |-> "return", k |-> k, to |-> none])
      BY DEF Terminators, Goes
    <3> HIDE DEF none
    <3>3. EmissionOK(Terminate(e, "return", k, none), b)
      BY <3>2, <1>1, <1>5, <1>13, EndKeeps
    <3> QED BY <3>1, <3>3 DEF a
  <2>6. CASE op \notin {"if", "while", "break", "continue", "return"}
    <3>1. EmitToken(e, k) = Emit(e, op, k, <<>>) /\ a = b
      BY <1>2, <1>3, <1>13, <2>6 DEF EmitToken
    <3>2. op \in Ops /\ op \notin Terminators
      BY <1>1, <2>6 DEF Ops, Terminators
    <3>3. EmissionOK(Emit(e, op, k, <<>>), b)
      BY <3>2, <1>1, <1>5, <1>13, PlainKeeps
    <3> QED BY <3>1, <3>3 DEF a
  <2> QED BY <2>1, <2>2, <2>3, <2>4, <2>5, <2>6
<1> QED BY <1>6, <1>9, <1>10, <1>11, <1>12, <1>13

(* At the start there is one empty block, the entry. *)
LEMMA StartOK ==
  ASSUME Len(prog) \in Nat
  PROVE  EmissionOK(Start, <<>>)
<1>1. Record(Start)
  BY DEF Record, Start
<1>2. /\ Start.code = [l \in {Entry} |-> <<>>] /\ Start.here = Entry /\ Start.done = FALSE
      /\ Start.skip = 0 /\ Start.open = <<>> /\ Start.ids = 0
  BY DEF Start
<1> HIDE DEF Start
<1>3. <<>> \in Seq(Constructs) /\ <<>> \in Seq(Kinds) /\ Len(<<>>) = 0 /\ 1 .. 0 = {}
  OBVIOUS
<1>4. OpenOK(Start, <<>>)
  BY <1>2, <1>3 DEF OpenOK
<1>5. ASSUME NEW P PROVE BlocksOK(Start, P)
  <2> DEFINE D == DOMAIN Start.code
  <2>1. D = {Entry} /\ Start.code[Entry] = <<>> /\ Start.code = [l \in D |-> Start.code[l]]
    BY <1>2
  <2>2. Block(<<>>, D \cup P)
    <3>1. <<>> \in Seq(Ins(D \cup P)) /\ 1 .. Len(<<>>) = {}
      OBVIOUS
    <3> QED BY <3>1 DEF Block
  <2>3. Unended(<<>>)
    BY <1>3 DEF Unended
  <2>4. \A l \in D : l = Entry
    BY <2>1
  <2> HIDE DEF D
  <2>5. \A l \in D : Block(Start.code[l], D \cup P)
    BY <2>1, <2>2, <2>4
  <2>6. Start.done \in BOOLEAN /\ ~ Start.done
    BY <1>2
  <2> QED BY <1>2, <2>1, <2>3, <2>4, <2>5, <2>6 DEF BlocksOK, D
<1> QED BY <1>1, <1>4, <1>5 DEF EmissionOK

(* Of a body that checks, the emission is in order after every token. *)
LEMMA EmissionKeeps ==
  ASSUME prog \in Programs, \A k \in 1 .. Len(prog) : JumpsInLoop(k)
  PROVE  \A k \in 0 .. Len(prog) : EmissionOK(Emission[k], Nesting(prog)[k])
<1> DEFINE T == {k \in Nat : k <= Len(prog) => EmissionOK(Emission[k], Nesting(prog)[k])}
<1>1. Len(prog) \in Nat
  BY ProgIs
<1>2. 0 \in T
  <2>1. Emission[0] = Start /\ Nesting(prog)[0] = <<>>
    BY <1>1, EmissionIs, NestingIs
  <2>2. EmissionOK(Emission[0], Nesting(prog)[0])
    BY <2>1, <1>1, StartOK
  <2> QED BY <2>2
<1>3. ASSUME NEW n \in Nat, n \in T PROVE n + 1 \in T
  <2> SUFFICES ASSUME n + 1 <= Len(prog)
               PROVE  EmissionOK(Emission[n + 1], Nesting(prog)[n + 1])
    OBVIOUS
  <2> DEFINE k == n + 1
  <2>1. k \in 1 .. Len(prog) /\ k - 1 = n /\ n <= Len(prog)
    BY <1>1
  <2>2. EmissionOK(Emission[n], Nesting(prog)[n])
    BY <2>1, <1>3
  <2> HIDE DEF k
  <2>3. Emission[k] = EmitToken(Emission[k - 1], k)
    BY <2>1, <1>1, EmissionIs
  <2>4. EmissionOK(Emission[k - 1], Nesting(prog)[k - 1])
    BY <2>1, <2>2
  <2>5. EmissionOK(EmitToken(Emission[k - 1], k), Nesting(prog)[k])
    BY <2>1, <2>4, TokenKeeps
  <2> QED BY <2>3, <2>5 DEF k
<1>4. Nat \subseteq T
  <2> HIDE DEF T
  <2> QED BY <1>2, <1>3, UpTo
<1> QED BY <1>1, <1>4

-----------------------------------------------------------------------------
(* The invariant. *)

(* Each block ends in one terminator, and goes to blocks.                   *)
CodeOK ==
  /\ Entry \in DOMAIN code
  /\ \A l \in DOMAIN code : Block(code[l], DOMAIN code) /\ Ended(code[l])

(* The states in which there is code, and in which it has started. *)
Compiled == {"emitted", "refused", "go", "returned", "undefined"}
Running  == {"go", "returned", "undefined"}

(* The inductive invariant. *)
IInv ==
  /\ prog \in Programs
  /\ status \in {"source", "checked", "rejected", "panicked"} \cup Compiled
  /\ status = "checked" => \A k \in 1 .. Len(prog) : JumpsInLoop(k)
  /\ Entry \in DOMAIN code
  /\ status \in Compiled => CodeOK
  /\ pc = [block |-> pc.block, at |-> pc.at]
  /\ pc.block \in DOMAIN code
  /\ status \notin Running => pc.block = Entry /\ pc.at = 1
  /\ status \in Running => pc.at \in 1 .. Len(code[pc.block])
  /\ \A n \in DOMAIN slots : slots[n].at \in 0 .. Len(prog)

(* The code of a body that checks. *)
LEMMA EmittedIs ==
  ASSUME prog \in Programs, \A k \in 1 .. Len(prog) : JumpsInLoop(k)
  PROVE  LET c == Emitted.code
         IN  /\ Entry \in DOMAIN c
             /\ \A l \in DOMAIN c : Block(c[l], DOMAIN c) /\ Ended(c[l])
<1> DEFINE body == Emission[Len(prog)]
           f    == Emitted
<1>1. Len(prog) \in Nat /\ Len(prog) \in 0 .. Len(prog) /\ Nesting(prog)[Len(prog)] = <<>>
  BY ProgIs
<1>2. EmissionOK(body, <<>>)
  BY <1>1, EmissionKeeps
<1> HIDE DEF body
<1>3. Promised(body.open, <<>>) = {} /\ Record(body)
  <2>1. OpenOK(body, <<>>) /\ Record(body)
    BY <1>2 DEF EmissionOK
  <2>2. /\ body.open \in Seq(Constructs) /\ body.skip \in Nat
        /\ Len(<<>>) = Len(body.open) + body.skip
    BY <2>1 DEF OpenOK
  <2> DEFINE m == Len(body.open)
             s == body.skip
  <2>3. m \in Nat /\ s \in Nat /\ 0 = m + s
    BY <2>2
  <2> HIDE DEF m, s
  <2>4. m = 0
    BY <2>3
  <2>5. 1 .. Len(body.open) = {}
    BY <2>4 DEF m
  <2> QED BY <2>1, <2>5 DEF Promised
<1>4. BlocksOK(body, {})
  BY <1>2, <1>3 DEF EmissionOK
<1>5. BlocksOK(f, {}) /\ f.done
  <2>1. CASE body.done
    <3>1. f = body
      BY <2>1 DEF Emitted, body
    <3> HIDE DEF f
    <3> QED BY <2>1, <3>1, <1>4
  <2>2. CASE ~ body.done
    <3> DEFINE none == <<>>
               g    == Terminate(body, "unreachable", 0, none)
    <3>1. f = g
      BY <2>2 DEF Emitted, body
    <3>2. /\ "unreachable" \in Terminators /\ 0 \in 0 .. Len(prog)
          /\ none \in Seq(DOMAIN body.code \cup {})
          /\ Goes([op |-> "unreachable", k |-> 0, to |-> none])
      BY <1>1 DEF Terminators, Goes
    <3> HIDE DEF none, f
    <3>3. BlocksOK(g, {}) /\ g.done
      BY <3>2, <1>3, <1>4, <2>2, TerminateIs
    <3> HIDE DEF g
    <3> QED BY <3>1, <3>3
  <2> QED BY <2>1, <2>2
<1> HIDE DEF f
<1>6. \A l \in DOMAIN f.code : Block(f.code[l], DOMAIN f.code) /\ Ended(f.code[l])
  <2>1. DOMAIN f.code \cup {} = DOMAIN f.code
    OBVIOUS
  <2> QED BY <1>5, <2>1 DEF BlocksOK
<1>7. Entry \in DOMAIN f.code
  BY <1>5 DEF BlocksOK
<1> QED BY <1>6, <1>7 DEF f

-----------------------------------------------------------------------------
(* The steps. *)

(* The source has no code yet. *)
LEMMA InitInv == Init => IInv
<1> SUFFICES ASSUME Init PROVE IInv
  OBVIOUS
<1>1. Len(prog) \in Nat /\ 0 \in 0 .. Len(prog)
  BY ProgIs DEF Init
<1>2. \A n \in DOMAIN slots : slots[n].at \in 0 .. Len(prog)
  BY <1>1 DEF Init, Word
<1> QED BY <1>2 DEF Init, IInv, Compiled, Running

(* A body that checks has break and continue in loops only. *)
LEMMA CheckInv == IInv /\ Check => IInv'
<1> SUFFICES ASSUME IInv, Check PROVE IInv'
  OBVIOUS
<1>1. /\ status = "source" /\ status' \in {"checked", "rejected"}
      /\ prog' = prog /\ code' = code /\ pc' = pc /\ slots' = slots
  BY DEF Check
<1>2. status' = "checked" => \A k \in 1 .. Len(prog) : JumpsInLoop(k)
  <2>1. DOMAIN prog = 1 .. Len(prog)
    BY ProgIs DEF IInv
  <2> QED BY <2>1 DEF Check, Accepts, WellFormed, JumpsInLoop
<1>3. status' = "checked" => (\A k \in 1 .. Len(prog) : JumpsInLoop(k))'
  BY <1>1, <1>2 DEF JumpsInLoop, Op, InLoop
<1>4. status' \notin Compiled /\ status' \notin Running /\ status \notin Running
  BY <1>1 DEF Compiled, Running
<1> QED BY <1>1, <1>3, <1>4 DEF IInv

(* The code emitted is in order. *)
LEMMA GenerateInv == IInv /\ Generate => IInv'
<1> SUFFICES ASSUME IInv, Generate PROVE IInv'
  OBVIOUS
<1>1. /\ status = "checked" /\ prog' = prog /\ pc' = pc /\ slots' = slots
      /\ \/ status' = "panicked" /\ code' = code
         \/ status' = "emitted" /\ code' = Emitted.code
  BY DEF Generate
<1>2. prog \in Programs /\ \A k \in 1 .. Len(prog) : JumpsInLoop(k)
  BY <1>1 DEF IInv
<1>3. status' = "emitted" => (CodeOK)' /\ Entry \in DOMAIN code'
  <2> SUFFICES ASSUME status' = "emitted" PROVE CodeOK'
    BY DEF CodeOK
  <2>1. code' = Emitted.code
    BY <1>1
  <2>2. /\ Entry \in DOMAIN code'
        /\ \A l \in DOMAIN code' : Block(code'[l], DOMAIN code') /\ Ended(code'[l])
    BY <2>1, <1>2, EmittedIs
  <2> QED BY <2>2, <1>1 DEF CodeOK, Block, Ins
<1>4. status \notin Running /\ status' \notin Running /\ status' # "checked"
      /\ (status' = "panicked" => status' \notin Compiled)
      /\ status' \in {"panicked"} \cup Compiled
  BY <1>1 DEF Running, Compiled
<1> QED BY <1>1, <1>3, <1>4 DEF IInv

(* The compiled code stays as it is.                                        *)
LEMMA CodeSame ==
  ASSUME CodeOK, prog' = prog, code' = code
  PROVE  CodeOK'
BY DEF CodeOK, Block, Ins

(* A function that LLVM accepts starts at its entry. *)
LEMMA LinkInv == IInv /\ Link => IInv'
<1> SUFFICES ASSUME IInv, Link PROVE IInv'
  OBVIOUS
<1>1. /\ status = "emitted" /\ status' \in {"go", "refused"}
      /\ prog' = prog /\ code' = code /\ pc' = pc /\ slots' = slots
  BY DEF Link
<1>2. CodeOK /\ status \notin Running /\ status' \in Compiled /\ status' # "checked"
  BY <1>1 DEF IInv, Compiled, Running
<1>3. pc.block = Entry /\ pc.at = 1
  BY <1>2 DEF IInv
<1>4. 1 \in 1 .. Len(code[Entry])
  <2>1. Block(code[Entry], DOMAIN code) /\ Ended(code[Entry])
    BY <1>2 DEF CodeOK
  <2>2. code[Entry] \in Seq(Ins(DOMAIN code)) /\ code[Entry] # <<>>
    BY <2>1 DEF Block, Ended
  <2> QED BY <2>2
<1>5. CodeOK'
  BY <1>1, <1>2, CodeSame
<1> QED BY <1>1, <1>2, <1>3, <1>4, <1>5 DEF IInv

(* The next instruction. *)
LEMMA NowIs ==
  ASSUME IInv, status = "go"
  PROVE  /\ CodeOK /\ Len(prog) \in Nat /\ Len(code[pc.block]) \in Nat
         /\ pc.at \in 1 .. Len(code[pc.block])
         /\ Now \in Ins(DOMAIN code) /\ Goes(Now) /\ Now.k \in 0 .. Len(prog)
         /\ Now.op \in Terminators <=> pc.at = Len(code[pc.block])
         /\ \A l \in DOMAIN code : 1 \in 1 .. Len(code[l])
<1>1. /\ prog \in Programs /\ CodeOK /\ pc.block \in DOMAIN code
      /\ pc.at \in 1 .. Len(code[pc.block])
  BY DEF IInv, Compiled, Running
<1>2. Len(prog) \in Nat
  BY <1>1, ProgIs
<1>3. /\ code[pc.block] \in Seq(Ins(DOMAIN code))
      /\ \A i \in 1 .. Len(code[pc.block]) : Goes(code[pc.block][i])
      /\ Ended(code[pc.block])
  BY <1>1 DEF CodeOK, Block
<1>4. Now \in Ins(DOMAIN code) /\ Len(code[pc.block]) \in Nat
  BY <1>1, <1>3 DEF Now
<1>5. Goes(Now) /\ (Now.op \in Terminators <=> pc.at = Len(code[pc.block]))
  BY <1>1, <1>3 DEF Now, Ended
<1>6. Now.k \in 0 .. Len(prog)
  BY <1>4 DEF Ins
<1>7. ASSUME NEW l \in DOMAIN code PROVE 1 \in 1 .. Len(code[l])
  <2>1. code[l] \in Seq(Ins(DOMAIN code)) /\ code[l] # <<>>
    BY <1>1 DEF CodeOK, Block, Ended
  <2> QED BY <2>1
<1> QED BY <1>1, <1>2, <1>4, <1>5, <1>6, <1>7

(* To the next instruction, when this one does not end the block. *)
LEMMA GoOnKeeps ==
  ASSUME IInv, status = "go", Now.op \notin Terminators, GoOn,
         prog' = prog, code' = code, status' = status,
         (\A n \in DOMAIN slots : slots[n].at \in 0 .. Len(prog))'
  PROVE  IInv'
<1>1. /\ CodeOK /\ Len(code[pc.block]) \in Nat
      /\ pc.at \in 1 .. Len(code[pc.block]) /\ pc.at # Len(code[pc.block])
  BY NowIs
<1>2. pc = [block |-> pc.block, at |-> pc.at]
  BY DEF IInv
<1>3. pc'.block = pc.block /\ pc'.at = pc.at + 1 /\ pc' = [block |-> pc'.block, at |-> pc'.at]
  BY <1>2 DEF GoOn
<1>4. pc'.at \in 1 .. Len(code[pc.block])
  BY <1>1, <1>3
<1>5. CodeOK'
  BY <1>1, CodeSame
<1> QED BY <1>3, <1>4, <1>5 DEF IInv, Compiled, Running

(* To another block. *)
LEMMA GoToKeeps ==
  ASSUME IInv, status = "go", NEW l \in DOMAIN code, GoTo(l),
         prog' = prog, code' = code, status' = status, slots' = slots
  PROVE  IInv'
<1>1. CodeOK /\ 1 \in 1 .. Len(code[l])
  BY NowIs
<1>2. pc'.block = l /\ pc'.at = 1 /\ pc' = [block |-> pc'.block, at |-> pc'.at]
  BY DEF GoTo
<1>3. CodeOK'
  BY <1>1, CodeSame
<1> QED BY <1>1, <1>2, <1>3 DEF IInv, Compiled, Running

(* The function ends. *)
LEMMA StopKeeps ==
  ASSUME IInv, status = "go", status' \in {"returned", "undefined"},
         UNCHANGED <<prog, code, pc, slots>>
  PROVE  IInv'
<1>1. CodeOK
  BY NowIs
<1>2. CodeOK'
  BY <1>1, CodeSame
<1> QED BY <1>2 DEF IInv, Compiled, Running

(* A slot is written by a statement of the body. *)
LEMMA StoreKeeps ==
  ASSUME NEW s, \A n \in DOMAIN s : s[n].at \in 0 .. Len(prog),
         NEW x, NEW v, v.at \in 0 .. Len(prog)
  PROVE  \A n \in DOMAIN With(s, x, v) : With(s, x, v)[n].at \in 0 .. Len(prog)
BY DEF With

(* A step of the function goes from an instruction to one that exists. *)
LEMMA RunInv == IInv /\ Run => IInv'
<1> SUFFICES ASSUME IInv, Run PROVE IInv'
  OBVIOUS
<1>0. status = "go"
  BY DEF Run, Jump, Let, Comprehend, LambdaValue, IndirectCall, Test, Return, Undefined,
         Executes, Reaches
<1>1. /\ Now \in Ins(DOMAIN code) /\ Goes(Now) /\ Now.k \in 0 .. Len(prog)
      /\ \A n \in DOMAIN slots : slots[n].at \in 0 .. Len(prog)
  BY <1>0, NowIs DEF IInv
<1>2. CASE Jump
  <2>1. Now.op = "br" /\ Len(Now.to) = 1 /\ Now.to \in Seq(DOMAIN code)
    BY <1>1, <1>2 DEF Jump, Reaches, Goes, Ins
  <2>2. Now.to[1] \in DOMAIN code
    BY <2>1
  <2> QED BY <1>0, <1>2, <2>2, GoToKeeps DEF Jump
<1>3. CASE Let
  <2>1. Now.op \notin Terminators
    BY <1>3 DEF Let, Executes, Reaches, Terminators
  <2>2. Word(Now.k).at \in 0 .. Len(prog)
    BY <1>1 DEF Word
  <2>3. (\A n \in DOMAIN slots : slots[n].at \in 0 .. Len(prog))'
    BY <1>1, <1>3, <2>2, StoreKeeps DEF Let, Store
  <2> QED BY <1>0, <1>3, <2>1, <2>3, GoOnKeeps DEF Let
<1>4. CASE Comprehend
  <2>1. Now.op \notin Terminators
    BY <1>4 DEF Comprehend, Executes, Reaches, Terminators
  <2>2. Word(Now.k).at \in 0 .. Len(prog)
    BY <1>1 DEF Word
  <2>3. PICK written \in {slots, With(slots, prog[Now.k].g, Word(Now.k))} :
          slots' = With(written, prog[Now.k].x, Word(Now.k))
    BY <1>4 DEF Comprehend
  <2>4. \A n \in DOMAIN written : written[n].at \in 0 .. Len(prog)
    BY <1>1, <2>2, StoreKeeps
  <2>5. (\A n \in DOMAIN slots : slots[n].at \in 0 .. Len(prog))'
    <3>1. prog' = prog
      BY <1>4 DEF Comprehend
    <3> QED BY <3>1, <2>2, <2>3, <2>4, StoreKeeps
  <2> QED BY <1>0, <1>4, <2>1, <2>5, GoOnKeeps DEF Comprehend
<1>5. CASE LambdaValue
  <2> DEFINE v == [at |-> Now.k,
                   env |-> [i \in DOMAIN Fields(Now.k) |-> slots[Fields(Now.k)[i]].at]]
  <2>1. Now.op \notin Terminators
    BY <1>5 DEF LambdaValue, Executes, Reaches, Terminators
  <2>2. v.at \in 0 .. Len(prog)
    BY <1>1
  <2>3. slots' = With(slots, prog[Now.k].x, v) /\ prog' = prog
    BY <1>5 DEF LambdaValue, Store
  <2> HIDE DEF v
  <2>4. (\A n \in DOMAIN slots : slots[n].at \in 0 .. Len(prog))'
    BY <1>1, <2>2, <2>3, StoreKeeps
  <2> QED BY <1>0, <1>5, <2>1, <2>4, GoOnKeeps DEF LambdaValue
<1>6. CASE IndirectCall
  <2>1. Now.op \notin Terminators
    BY <1>6 DEF IndirectCall, Executes, Reaches, Terminators
  <2>2. (\A n \in DOMAIN slots : slots[n].at \in 0 .. Len(prog))'
    BY <1>1, <1>6 DEF IndirectCall
  <2> QED BY <1>0, <1>6, <2>1, <2>2, GoOnKeeps DEF IndirectCall
<1>7. CASE Test
  <2>1. Len(Now.to) = 2 /\ Now.to \in Seq(DOMAIN code)
    BY <1>1, <1>7 DEF Test, Executes, Reaches, Goes, Ins
  <2>2. PICK b \in BOOLEAN : GoTo(Now.to[IF b THEN 1 ELSE 2])
    BY <1>7 DEF Test
  <2>3. Now.to[IF b THEN 1 ELSE 2] \in DOMAIN code
    BY <2>1
  <2> QED BY <1>0, <1>7, <2>2, <2>3, GoToKeeps DEF Test
<1>8. CASE Return
  BY <1>0, <1>8, StopKeeps DEF Return
<1>9. CASE Undefined
  BY <1>0, <1>9, StopKeeps DEF Undefined
<1> QED BY <1>2, <1>3, <1>4, <1>5, <1>6, <1>7, <1>8, <1>9 DEF Run

(* The invariant holds in every state. *)
LEMMA Inductive == Spec => []IInv
<1>1. IInv /\ [Next]_vars => IInv'
  <2> SUFFICES ASSUME IInv, [Next]_vars PROVE IInv'
    OBVIOUS
  <2>1. CASE UNCHANGED vars
    <3>1. /\ prog' = prog /\ status' = status /\ code' = code /\ pc' = pc
          /\ slots' = slots
      BY <2>1 DEF vars
    <3> QED BY <3>1 DEF IInv, CodeOK, Block, Ins, JumpsInLoop, Op, InLoop
  <2> QED BY <2>1, CheckInv, GenerateInv, LinkInv, RunInv DEF Next
<1> QED BY <1>1, InitInv, PTL DEF Spec

(* Whatever the body, every block of its code ends in one terminator, which *)
(* goes to blocks, and the function runs from one instruction to another.   *)
THEOREM TypeCorrect == Spec => []TypeOK
<1>1. IInv => TypeOK
  <2> SUFFICES ASSUME IInv PROVE TypeOK
    OBVIOUS
  <2>1. status = "emitted" =>
          \A l \in DOMAIN code :
            /\ code[l] # <<>>
            /\ \A i \in DOMAIN code[l] :
                 /\ code[l][i].op \in Terminators <=> i = Len(code[l])
                 /\ ToSet(code[l][i].to) \subseteq DOMAIN code
    <3> SUFFICES ASSUME status = "emitted", NEW l \in DOMAIN code
                 PROVE  /\ code[l] # <<>>
                        /\ \A i \in DOMAIN code[l] :
                             /\ code[l][i].op \in Terminators <=> i = Len(code[l])
                             /\ ToSet(code[l][i].to) \subseteq DOMAIN code
      OBVIOUS
    <3>1. code[l] \in Seq(Ins(DOMAIN code)) /\ Ended(code[l])
      BY DEF IInv, Compiled, CodeOK, Block
    <3>2. DOMAIN code[l] = 1 .. Len(code[l])
      BY <3>1
    <3>3. ASSUME NEW i \in 1 .. Len(code[l]) PROVE ToSet(code[l][i].to) \subseteq DOMAIN code
      <4>1. code[l][i] \in Ins(DOMAIN code)
        BY <3>1
      <4>2. code[l][i].to \in Seq(DOMAIN code)
        BY <4>1 DEF Ins
      <4> QED BY <4>2 DEF ToSet
    <3> QED BY <3>1, <3>2, <3>3 DEF Ended
  <2>2. status \in Running => pc.at \in DOMAIN code[pc.block]
    <3> SUFFICES ASSUME status \in Running PROVE pc.at \in DOMAIN code[pc.block]
      OBVIOUS
    <3>1. code[pc.block] \in Seq(Ins(DOMAIN code)) /\ pc.at \in 1 .. Len(code[pc.block])
      BY DEF IInv, Compiled, Running, CodeOK, Block
    <3> QED BY <3>1
  <2> QED BY <2>1, <2>2 DEF TypeOK, IInv, Compiled, Running
<1> QED BY <1>1, Inductive, PTL

-----------------------------------------------------------------------------
(* The shape of a text. *)

(* The constructs around the place after a token, and how many they are.    *)
Around(p, k) == Nesting(p)[k]
Level(p, k)  == Len(Around(p, k))

(* An if or a while opens a construct. *)
Opening(p, k) == p[k].op \in {"if", "while"}

(* The constructs around a place after a token, from those before it.       *)
TokenNests(p, k) ==
  LET b == Around(p, k - 1)
      a == Around(p, k)
  IN  /\ b \in Seq(Kinds) /\ a \in Seq(Kinds)
      /\ Opening(p, k) =>
           /\ Len(a) = Len(b) + 1 /\ a[Len(b) + 1] = p[k].op
           /\ \A i \in 1 .. Len(b) : a[i] = b[i]
      /\ p[k].op = "else" =>
           /\ Len(b) > 0 /\ Len(a) = Len(b) /\ b[Len(b)] = "if" /\ a[Len(b)] = "else"
           /\ \A i \in 1 .. Len(b) - 1 : a[i] = b[i]
      /\ p[k].op = "end" =>
           /\ Len(b) > 0 /\ Len(a) = Len(b) - 1 /\ b[Len(b)] \in {"else", "while"}
           /\ \A i \in 1 .. Len(a) : a[i] = b[i]
      /\ p[k].op \notin {"if", "while", "else", "end"} => a = b

(* Each token nests as its kind does. *)
LEMMA TokenNestsStep ==
  ASSUME NEW p \in Programs, NEW k \in 1 .. Len(p), Around(p, k - 1) \in Seq(Kinds)
  PROVE  TokenNests(p, k)
<1> DEFINE b == Around(p, k - 1)
           a == Around(p, k)
           op == p[k].op
<1>1. /\ Len(p) \in Nat
      /\ op = "else" => b # <<>> /\ Last(b) = "if"
      /\ op = "end" => b # <<>> /\ Last(b) \in {"else", "while"}
  BY ProgIs DEF Ends, Around
<1>2. a = CASE op \in {"if", "while"} -> Append(b, op)
            [] op = "else" -> Append(Front(b), "else")
            [] op = "end"  -> Front(b)
            [] OTHER       -> b
  BY <1>1, NestingIs DEF Around
<1> HIDE DEF b, a, op
<1>3. b \in Seq(Kinds)
  BY DEF b
<1>4. \A kind \in Kinds :
        /\ Append(b, kind) \in Seq(Kinds) /\ Len(Append(b, kind)) = Len(b) + 1
        /\ Append(b, kind)[Len(b) + 1] = kind
        /\ \A i \in 1 .. Len(b) : Append(b, kind)[i] = b[i]
  BY <1>3, Appended
<1>5. b # <<>> =>
        /\ Front(b) \in Seq(Kinds) /\ Len(b) \in Nat \ {0} /\ Len(Front(b)) = Len(b) - 1
        /\ \A i \in 1 .. Len(b) - 1 : Front(b)[i] = b[i]
        /\ Last(b) = b[Len(b)]
  BY <1>3, FrontIs
<1>6. CASE op \in {"if", "while"}
  <2>1. a = Append(b, op) /\ op \in Kinds
    BY <1>2, <1>6 DEF Kinds
  <2> QED BY <2>1, <1>3, <1>4, <1>6 DEF TokenNests, Opening, a, b, op
<1>7. CASE op = "else"
  <2> DEFINE c == Front(b)
  <2>1. a = Append(c, "else") /\ b # <<>> /\ "else" \in Kinds /\ Last(b) = "if"
    BY <1>1, <1>2, <1>7 DEF Kinds
  <2>2. /\ c \in Seq(Kinds) /\ Len(c) = Len(b) - 1 /\ Len(b) \in Nat \ {0}
        /\ \A i \in 1 .. Len(b) - 1 : c[i] = b[i]
        /\ Last(b) = b[Len(b)]
    BY <2>1, <1>5
  <2> HIDE DEF c
  <2>3. /\ a \in Seq(Kinds) /\ Len(a) = Len(c) + 1 /\ a[Len(c) + 1] = "else"
        /\ \A i \in 1 .. Len(c) : a[i] = c[i]
    BY <2>1, <2>2, Appended
  <2>4. Len(c) + 1 = Len(b)
    BY <2>2
  <2>5. /\ Len(a) = Len(b) /\ a[Len(b)] = "else" /\ b[Len(b)] = "if" /\ Len(b) > 0
        /\ \A i \in 1 .. Len(b) - 1 : a[i] = b[i]
    BY <2>1, <2>2, <2>3, <2>4
  <2> QED BY <2>3, <2>5, <1>3, <1>7 DEF TokenNests, Opening, a, b, op
<1>8. CASE op = "end"
  <2>1. a = Front(b) /\ b # <<>> /\ Last(b) \in {"else", "while"}
    BY <1>1, <1>2, <1>8
  <2>2. /\ a \in Seq(Kinds) /\ Len(a) = Len(b) - 1 /\ Len(b) \in Nat \ {0}
        /\ \A i \in 1 .. Len(b) - 1 : a[i] = b[i]
        /\ Last(b) = b[Len(b)]
    BY <2>1, <1>5
  <2>3. \A i \in 1 .. Len(a) : a[i] = b[i]
    BY <2>2
  <2>4. Len(b) > 0 /\ b[Len(b)] \in {"else", "while"}
    BY <2>1, <2>2
  <2> QED BY <2>2, <2>3, <2>4, <1>3, <1>8 DEF TokenNests, Opening, a, b, op
<1>9. CASE op \notin {"if", "while", "else", "end"}
  <2>1. a = b
    BY <1>2, <1>9
  <2> QED BY <2>1, <1>3, <1>9 DEF TokenNests, Opening, a, b, op
<1> QED BY <1>6, <1>7, <1>8, <1>9

(* So at every place there is a sequence of constructs.                     *)
LEMMA NestsIs ==
  ASSUME NEW p \in Programs
  PROVE  /\ \A k \in 1 .. Len(p) : TokenNests(p, k)
         /\ \A k \in 0 .. Len(p) : Around(p, k) \in Seq(Kinds) /\ Level(p, k) \in Nat
         /\ Level(p, 0) = 0 /\ Level(p, Len(p)) = 0
<1> DEFINE n == Len(p)
           T == {m \in Nat : m <= n => Around(p, m) \in Seq(Kinds)}
<1>1. n \in Nat /\ Around(p, n) = <<>> /\ Around(p, 0) = <<>>
  BY ProgIs, NestingIs DEF Around
<1>2. 0 \in T
  <2>1. <<>> \in Seq(Kinds)
    OBVIOUS
  <2>2. Around(p, 0) \in Seq(Kinds)
    BY <1>1, <2>1
  <2> QED BY <2>2
<1>3. ASSUME NEW m \in Nat, m \in T PROVE m + 1 \in T
  <2> SUFFICES ASSUME m + 1 <= n PROVE Around(p, m + 1) \in Seq(Kinds)
    OBVIOUS
  <2>1. m + 1 \in 1 .. n /\ (m + 1) - 1 = m
    BY <1>1
  <2>2. Around(p, (m + 1) - 1) \in Seq(Kinds)
    BY <1>1, <1>3, <2>1
  <2>3. TokenNests(p, m + 1)
    BY <2>1, <2>2, TokenNestsStep
  <2> QED BY <2>3 DEF TokenNests
<1>4. Nat \subseteq T
  <2> HIDE DEF T
  <2> QED BY <1>2, <1>3, UpTo
<1>5. \A k \in 0 .. n : Around(p, k) \in Seq(Kinds)
  BY <1>1, <1>4
<1>6. ASSUME NEW k \in 1 .. n PROVE TokenNests(p, k)
  <2>1. k - 1 \in 0 .. n
    BY <1>1
  <2>2. Around(p, k - 1) \in Seq(Kinds)
    BY <2>1, <1>5
  <2> QED BY <2>2, TokenNestsStep
<1>7. \A k \in 0 .. n : Level(p, k) \in Nat
  BY <1>5 DEF Level
<1>8. Level(p, 0) = 0 /\ Level(p, n) = 0
  BY <1>1 DEF Level
<1> QED BY <1>5, <1>6, <1>7, <1>8

(* What a token does to the number of constructs.                           *)
LEMMA LevelStep ==
  ASSUME NEW p \in Programs, NEW k \in 1 .. Len(p)
  PROVE  /\ Level(p, k - 1) \in Nat /\ Level(p, k) \in Nat
         /\ Opening(p, k) => Level(p, k) = Level(p, k - 1) + 1
         /\ p[k].op = "end" => Level(p, k) = Level(p, k - 1) - 1 /\ Level(p, k - 1) > 0
         /\ ~ Opening(p, k) /\ p[k].op # "end" => Level(p, k) = Level(p, k - 1)
         /\ p[k].op = "else" => Level(p, k) > 0
<1>1. TokenNests(p, k)
  BY NestsIs
<1>2. Level(p, k - 1) \in Nat /\ Level(p, k) \in Nat
  BY <1>1 DEF TokenNests, Level
<1> QED BY <1>1, <1>2 DEF TokenNests, Level, Opening

-----------------------------------------------------------------------------
(* The parts of a construct, as PyFrame finds them. *)

(* The depth of a token is the number of constructs around the place before *)
(* it.                                                                      *)
LEMMA DepthIs ==
  ASSUME NEW p \in Programs, NEW k \in 1 .. Len(p) + 1
  PROVE  Python!Depth(p, k) = Level(p, k - 1)
<1> DEFINE n    == Len(p)
           I(m) == {j \in 1 .. m : p[j].op \in {"if", "while"}}
           E(m) == {j \in 1 .. m : p[j].op = "end"}
           T    == {m \in Nat : m <= n =>
                      /\ IsFiniteSet(I(m)) /\ IsFiniteSet(E(m))
                      /\ Cardinality(I(m)) \in Nat /\ Cardinality(E(m)) \in Nat
                      /\ Cardinality(I(m)) - Cardinality(E(m)) = Level(p, m)}
<1>0. n \in Nat /\ Level(p, 0) = 0
  BY ProgIs, NestsIs
<1>1. 0 \in T
  <2>1. I(0) = {} /\ E(0) = {}
    OBVIOUS
  <2>2. IsFiniteSet({}) /\ Cardinality({}) = 0
    BY FS_EmptySet
  <2> QED BY <1>0, <2>1, <2>2
<1>2. ASSUME NEW m \in Nat, m \in T PROVE m + 1 \in T
  <2> SUFFICES ASSUME m + 1 <= n
               PROVE  /\ IsFiniteSet(I(m + 1)) /\ IsFiniteSet(E(m + 1))
                      /\ Cardinality(I(m + 1)) \in Nat /\ Cardinality(E(m + 1)) \in Nat
                      /\ Cardinality(I(m + 1)) - Cardinality(E(m + 1)) = Level(p, m + 1)
    OBVIOUS
  <2> DEFINE op == p[m + 1].op
  <2>1. m + 1 \in 1 .. n /\ (m + 1) - 1 = m /\ m <= n
    BY <1>0
  <2>2. /\ IsFiniteSet(I(m)) /\ IsFiniteSet(E(m))
        /\ Cardinality(I(m)) \in Nat /\ Cardinality(E(m)) \in Nat
        /\ Cardinality(I(m)) - Cardinality(E(m)) = Level(p, m)
    BY <1>2, <2>1
  <2>3. /\ Level(p, m) \in Nat /\ Level(p, m + 1) \in Nat
        /\ op \in {"if", "while"} => Level(p, m + 1) = Level(p, m) + 1
        /\ op = "end" => Level(p, m + 1) = Level(p, m) - 1
        /\ op \notin {"if", "while"} /\ op # "end" => Level(p, m + 1) = Level(p, m)
    BY <2>1, LevelStep DEF Opening
  <2>4. 1 .. m + 1 = (1 .. m) \cup {m + 1} /\ m + 1 \notin 1 .. m
    OBVIOUS
  <2>5. /\ op \in {"if", "while"} => I(m + 1) = I(m) \cup {m + 1}
        /\ op \notin {"if", "while"} => I(m + 1) = I(m)
        /\ op = "end" => E(m + 1) = E(m) \cup {m + 1}
        /\ op # "end" => E(m + 1) = E(m)
        /\ m + 1 \notin I(m) /\ m + 1 \notin E(m)
    BY <2>4
  <2>6. /\ IsFiniteSet(I(m) \cup {m + 1}) /\ IsFiniteSet(E(m) \cup {m + 1})
        /\ Cardinality(I(m) \cup {m + 1}) = Cardinality(I(m)) + 1
        /\ Cardinality(E(m) \cup {m + 1}) = Cardinality(E(m)) + 1
    <3> HIDE DEF I, E, op
    <3> QED BY <2>2, <2>5, FS_AddElement
  <2> DEFINE i1 == Cardinality(I(m + 1))
             e1 == Cardinality(E(m + 1))
             i0 == Cardinality(I(m))
             e0 == Cardinality(E(m))
  <2>10. /\ op \in {"if", "while"} => i1 = i0 + 1
         /\ op \notin {"if", "while"} => i1 = i0
         /\ op = "end" => e1 = e0 + 1
         /\ op # "end" => e1 = e0
         /\ i0 \in Nat /\ e0 \in Nat /\ i0 - e0 = Level(p, m)
    <3> HIDE DEF I, E, op
    <3> QED BY <2>2, <2>5, <2>6
  <2>11. IsFiniteSet(I(m + 1)) /\ IsFiniteSet(E(m + 1))
    <3> HIDE DEF I, E, op
    <3> QED BY <2>2, <2>5, <2>6
  <2> HIDE DEF I, E, op, i1, e1, i0, e0
  <2>12. i1 \in Nat /\ e1 \in Nat /\ i1 - e1 = Level(p, m + 1)
    BY <2>3, <2>10
  <2> QED BY <2>11, <2>12 DEF i1, e1
<1>3. Nat \subseteq T
  <2> HIDE DEF T
  <2> QED BY <1>1, <1>2, UpTo
<1>4. k - 1 \in Nat /\ k - 1 <= n
  BY <1>0
<1>5. Cardinality(I(k - 1)) - Cardinality(E(k - 1)) = Level(p, k - 1)
  BY <1>3, <1>4
<1>6. \A S : Python!Cardinality(S) = Cardinality(S)
  BY DEF Python!Cardinality, Cardinality
<1>7. Python!Depth(p, k) = Python!Cardinality(I(k - 1)) - Python!Cardinality(E(k - 1))
  BY DEF Python!Depth
<1> QED BY <1>5, <1>6, <1>7

(* The least and the greatest of a set of positions. *)
LEMMA MinOf ==
  ASSUME NEW S, S \subseteq Int, NEW x \in S, \A y \in S : x <= y
  PROVE  Python!Min(S) = x
<1>1. \A z \in S : (\A y \in S : z <= y) => z = x
  OBVIOUS
<1> QED BY <1>1 DEF Python!Min

(* The same of the greatest. *)
LEMMA MaxOf ==
  ASSUME NEW S, S \subseteq Int, NEW x \in S, \A y \in S : x >= y
  PROVE  Python!Max(S) = x
<1>1. \A z \in S : (\A y \in S : z >= y) => z = x
  OBVIOUS
<1> QED BY <1>1 DEF Python!Max

(* A construct ends where the place gets out of it. *)
LEMMA CloseIs ==
  ASSUME NEW p \in Programs, NEW t \in 1 .. Len(p), Opening(p, t)
  PROVE  LET c == Python!Close(p, t)
         IN  /\ c \in t + 1 .. Len(p) /\ p[c].op = "end"
             /\ Level(p, t) = Level(p, t - 1) + 1
             /\ Level(p, c - 1) = Level(p, t) /\ Level(p, c) = Level(p, t) - 1
             /\ \A m \in t .. c - 1 : Level(p, m) >= Level(p, t)
<1> DEFINE n    == Len(p)
           L(m) == Level(p, m)
           D    == {m \in t .. n : L(m) < L(t)}
           S    == {j \in t + 1 .. n :
                      p[j].op = "end" /\ Python!Depth(p, j) = Python!Depth(p, t) + 1}
<1>1. n \in Nat /\ L(n) = 0 /\ \A m \in 0 .. n : L(m) \in Nat
  BY ProgIs, NestsIs
<1>2. L(t) = L(t - 1) + 1 /\ L(t - 1) \in Nat
  BY LevelStep
<1>3. \A k \in 1 .. n : Python!Depth(p, k) = L(k - 1)
  BY <1>1, DepthIs
<1>4. \A m \in 1 .. n :
        /\ L(m) < L(m - 1) => p[m].op = "end"
        /\ p[m].op = "end" => L(m) = L(m - 1) - 1
  <2> SUFFICES ASSUME NEW m \in 1 .. n
               PROVE  /\ L(m) < L(m - 1) => p[m].op = "end"
                      /\ p[m].op = "end" => L(m) = L(m - 1) - 1
    OBVIOUS
  <2>1. /\ L(m - 1) \in Nat /\ L(m) \in Nat
        /\ Opening(p, m) => L(m) = L(m - 1) + 1
        /\ p[m].op = "end" => L(m) = L(m - 1) - 1
        /\ ~ Opening(p, m) /\ p[m].op # "end" => L(m) = L(m - 1)
    BY LevelStep
  <2> HIDE DEF L
  <2> QED BY <2>1
<1>5. Python!Close(p, t) = Python!Min(S)
  BY DEF Python!Close, Python!Part
<1> HIDE DEF L
<1>6. n \in D
  BY <1>1, <1>2
<1>7. PICK c \in D : \A m \in D : c <= m
  <2>1. D \subseteq Nat /\ D # {}
    BY <1>1, <1>6
  <2> QED BY <2>1, Least
<1>8. c \in t + 1 .. n /\ c - 1 \in t .. n /\ c - 1 \notin D /\ c \in 1 .. n /\ c - 1 \in 0 .. n
  BY <1>1, <1>7
<1>9. L(c) < L(t) /\ L(c - 1) >= L(t) /\ L(c) \in Nat /\ L(c - 1) \in Nat
  BY <1>1, <1>2, <1>7, <1>8
<1>10. p[c].op = "end" /\ L(c) = L(c - 1) - 1
  BY <1>1, <1>2, <1>4, <1>8, <1>9
<1>11. L(c - 1) = L(t) /\ L(c) = L(t) - 1
  BY <1>1, <1>2, <1>9, <1>10
<1>12. \A m \in t .. c - 1 : L(m) >= L(t)
  <2> SUFFICES ASSUME NEW m \in t .. c - 1 PROVE L(m) >= L(t)
    OBVIOUS
  <2>1. m \in t .. n /\ m \in 0 .. n /\ m < c
    BY <1>1, <1>8
  <2>2. m \notin D /\ L(m) \in Nat
    BY <1>1, <1>7, <2>1
  <2> QED BY <1>1, <1>2, <2>1, <2>2
<1>13. c \in S
  BY <1>2, <1>3, <1>8, <1>10, <1>11
<1>14. ASSUME NEW j \in S PROVE c <= j
  <2>1. j \in t + 1 .. n /\ p[j].op = "end" /\ L(j - 1) = L(t - 1) + 1 /\ j \in 1 .. n
    BY <1>1, <1>3
  <2>2. L(j) = L(j - 1) - 1
    BY <1>4, <2>1
  <2>3. j \in D
    BY <1>2, <2>1, <2>2
  <2> QED BY <1>7, <2>3
<1>15. Python!Min(S) = c
  <2>1. S \subseteq Int
    OBVIOUS
  <2> HIDE DEF S
  <2> QED BY <2>1, <1>13, <1>14, MinOf
<1> QED BY <1>2, <1>5, <1>8, <1>10, <1>11, <1>12, <1>15 DEF L

(* At every level a construct is open. *)
LEMMA Enclosing ==
  ASSUME NEW p \in Programs, NEW k \in 0 .. Len(p), NEW i \in 1 .. Level(p, k)
  PROVE  \E t \in 1 .. k : Opening(p, t) /\ Level(p, t) = i /\ k < Python!Close(p, t)
<1> DEFINE n    == Len(p)
           L(m) == Level(p, m)
           D    == {m \in 1 .. k : L(m - 1) < i}
<1>1. n \in Nat /\ L(0) = 0 /\ \A m \in 0 .. n : L(m) \in Nat
  BY ProgIs, NestsIs
<1>2. \A m \in 1 .. n : L(m) > L(m - 1) => Opening(p, m) /\ L(m) = L(m - 1) + 1
  <2> SUFFICES ASSUME NEW m \in 1 .. n, L(m) > L(m - 1)
               PROVE  Opening(p, m) /\ L(m) = L(m - 1) + 1
    OBVIOUS
  <2>1. L(m - 1) \in Nat /\ L(m) \in Nat
    BY LevelStep
  <2> QED BY <2>1, LevelStep
<1>3. k \in 1 .. n
  BY <1>1
<1>4. 1 \in D
  BY <1>1, <1>3
<1>5. Max(D) \in D /\ \A y \in D : Max(D) >= y
  <2>1. D \subseteq 1 .. k
    OBVIOUS
  <2>2. D # {}
    BY <1>4
  <2>3. n \in Nat
    BY <1>1
  <2>4. k \in Nat
    BY <1>3, <2>3
  <2> HIDE DEF D
  <2> QED BY <2>1, <2>2, <2>4, MaxIs
<1> DEFINE t == Max(D)
<1> HIDE DEF L, t
<1>6. t \in 1 .. k /\ L(t - 1) < i /\ t \in 1 .. n /\ t - 1 \in 0 .. n /\ t \in 0 .. n
  BY <1>3, <1>5 DEF t
<1>7. \A m \in t .. k : L(m) >= i
  <2> SUFFICES ASSUME NEW m \in t .. k, L(m) < i PROVE FALSE
    BY <1>1, <1>6
  <2>1. CASE m = k
    <3>1. L(k) >= i
      BY <1>1, <1>3 DEF L
    <3> QED BY <3>1, <2>1, <1>1, <1>3
  <2>2. CASE m # k
    <3>1. m + 1 \in 1 .. k /\ (m + 1) - 1 = m
      BY <1>3, <1>6, <2>2
    <3>2. m + 1 \in D
      BY <3>1
    <3>3. t >= m + 1
      BY <3>2, <1>5 DEF t
    <3> QED BY <3>1, <3>3, <1>1, <1>3, <1>6
  <2> QED BY <2>1, <2>2
<1>8. L(t) >= i /\ L(t) \in Nat /\ L(t - 1) \in Nat
  BY <1>1, <1>6, <1>7
<1>9. Opening(p, t) /\ L(t) = L(t - 1) + 1
  BY <1>2, <1>6, <1>8
<1>10. L(t) = i
  BY <1>6, <1>8, <1>9
<1>11. k < Python!Close(p, t)
  <2> DEFINE c == Python!Close(p, t)
  <2>1. c \in t + 1 .. n /\ L(c) = L(t) - 1
    BY <1>6, <1>9, CloseIs DEF L
  <2> HIDE DEF c
  <2>2. L(c) < i
    BY <1>8, <1>10, <2>1
  <2>3. c \notin t .. k
    BY <1>7, <1>8, <1>10, <2>1, <2>2
  <2>4. k < c
    BY <2>1, <2>3, <1>3, <1>6
  <2> QED BY <2>4 DEF c
<1> QED BY <1>6, <1>9, <1>10, <1>11 DEF L

(* What a token inside a construct makes of the construct's kind. *)
LEMMA KindStep ==
  ASSUME NEW p \in Programs, NEW t \in 1 .. Len(p), Opening(p, t),
         NEW m \in t + 1 .. Python!Close(p, t) - 1
  PROVE  LET i == Level(p, t)
             turns == p[m].op = "else" /\ Level(p, m - 1) = i
         IN  /\ turns => Around(p, m - 1)[i] = "if" /\ Around(p, m)[i] = "else"
             /\ ~ turns => Around(p, m)[i] = Around(p, m - 1)[i]
<1> DEFINE i == Level(p, t)
           c == Python!Close(p, t)
           a == Around(p, m)
           b == Around(p, m - 1)
           op == p[m].op
<1>1. c \in t + 1 .. Len(p) /\ \A j \in t .. c - 1 : Level(p, j) >= i
  BY CloseIs
<1>2. Len(p) \in Nat /\ i \in Nat \ {0}
  <2>1. Level(p, t - 1) \in Nat /\ Level(p, t) = Level(p, t - 1) + 1
    BY LevelStep
  <2> QED BY <2>1, ProgIs
<1> HIDE DEF c
<1>3. m \in 1 .. Len(p) /\ m - 1 \in t .. c - 1 /\ m \in t .. c - 1
  BY <1>1, <1>2 DEF c
<1>4. TokenNests(p, m)
  BY <1>3, NestsIs
<1>5. Len(b) >= i /\ Len(a) >= i
  BY <1>1, <1>3 DEF Level
<1> HIDE DEF a, b, op, i
<1>6. /\ Len(b) \in Nat /\ Len(a) \in Nat
      /\ op \in {"if", "while"} => \A j \in 1 .. Len(b) : a[j] = b[j]
      /\ op = "else" =>
           /\ Len(a) = Len(b) /\ b[Len(b)] = "if" /\ a[Len(b)] = "else"
           /\ \A j \in 1 .. Len(b) - 1 : a[j] = b[j]
      /\ op = "end" => \A j \in 1 .. Len(a) : a[j] = b[j]
      /\ op \notin {"if", "while", "else", "end"} => a = b
  BY <1>4 DEF TokenNests, Opening, a, b, op
<1>7. CASE op = "else" /\ Len(b) = i
  BY <1>6, <1>7 DEF Level, i, op, b, a
<1>8. CASE ~ (op = "else" /\ Len(b) = i)
  <2>1. a[i] = b[i]
    BY <1>2, <1>5, <1>6, <1>8
  <2> QED BY <2>1, <1>8 DEF Level, i, op, b, a
<1> QED BY <1>7, <1>8

(* A construct is a loop as long as it lasts, or an if; once its else has   *)
(* come, it has.                                                            *)
LEMMA KindIs ==
  ASSUME NEW p \in Programs, NEW t \in 1 .. Len(p), Opening(p, t)
  PROVE  LET i == Level(p, t)
             c == Python!Close(p, t)
         IN  /\ Around(p, t)[i] = p[t].op
             /\ \A m \in t .. c - 1 : Around(p, m)[i] = "while" <=> p[t].op = "while"
             /\ \A j, m \in t .. c - 1 :
                  j <= m /\ Around(p, m)[i] = "if" => Around(p, j)[i] = "if"
<1> DEFINE i    == Level(p, t)
           c    == Python!Close(p, t)
           K(m) == Around(p, m)[i]
           T    == {d \in Nat : t + d < c => (K(t + d) = "while" <=> p[t].op = "while")}
           U(j) == {d \in Nat : j + d < c => (K(j + d) = "if" => K(j) = "if")}
<1>1. c \in t + 1 .. Len(p) /\ Len(p) \in Nat
  BY CloseIs, ProgIs
<1>2. K(t) = p[t].op
  <2>1. TokenNests(p, t)
    BY NestsIs
  <2> QED BY <2>1 DEF TokenNests, Level
<1>3. \A m \in t + 1 .. c - 1 :
        \/ K(m - 1) = "if" /\ K(m) = "else"
        \/ K(m) = K(m - 1)
  BY KindStep
<1> HIDE DEF c, K
<1>4. 0 \in T /\ \A d \in Nat : d \in T => d + 1 \in T
  <2>1. 0 \in T
    BY <1>1, <1>2
  <2>2. ASSUME NEW d \in Nat, d \in T, t + (d + 1) < c
        PROVE  K(t + (d + 1)) = "while" <=> p[t].op = "while"
    <3>1. t + (d + 1) \in t + 1 .. c - 1 /\ (t + (d + 1)) - 1 = t + d /\ t + d < c
      BY <1>1, <2>2
    <3>2. K(t + d) = "while" <=> p[t].op = "while"
      BY <2>2, <3>1
    <3>3. \/ K(t + d) = "if" /\ K(t + (d + 1)) = "else"
          \/ K(t + (d + 1)) = K(t + d)
      BY <3>1, <1>3
    <3> QED BY <3>2, <3>3
  <2> QED BY <2>1, <2>2
<1>5. \A m \in t .. c - 1 : K(m) = "while" <=> p[t].op = "while"
  <2> SUFFICES ASSUME NEW m \in t .. c - 1 PROVE K(m) = "while" <=> p[t].op = "while"
    OBVIOUS
  <2>1. Nat \subseteq T
    <3> HIDE DEF T
    <3> QED BY <1>4, UpTo
  <2>2. m - t \in Nat /\ t + (m - t) = m /\ m < c
    BY <1>1
  <2>3. m - t \in T
    BY <2>1, <2>2
  <2> QED BY <2>2, <2>3
<1>6. \A j, m \in t .. c - 1 : j <= m /\ K(m) = "if" => K(j) = "if"
  <2> SUFFICES ASSUME NEW j \in t .. c - 1, NEW m \in t .. c - 1, j <= m, K(m) = "if"
               PROVE  K(j) = "if"
    OBVIOUS
  <2>0. j \in Nat /\ m \in Nat
    BY <1>1
  <2>1. 0 \in U(j)
    BY <2>0
  <2>2. ASSUME NEW d \in Nat, d \in U(j) PROVE d + 1 \in U(j)
    <3> SUFFICES ASSUME j + (d + 1) < c, K(j + (d + 1)) = "if" PROVE K(j) = "if"
      OBVIOUS
    <3>1. j + (d + 1) \in t + 1 .. c - 1 /\ (j + (d + 1)) - 1 = j + d /\ j + d < c
      BY <1>1, <2>0
    <3>2. K(j + d) = "if"
      BY <3>1, <1>3
    <3> QED BY <3>1, <3>2, <2>2
  <2>3. Nat \subseteq U(j)
    <3> HIDE DEF U
    <3> QED BY <2>1, <2>2, UpTo
  <2>4. m - j \in Nat /\ j + (m - j) = m /\ m < c
    BY <1>1, <2>0
  <2>5. m - j \in U(j)
    BY <2>3, <2>4
  <2> QED BY <2>4, <2>5
<1> QED BY <1>2, <1>5, <1>6 DEF c, K

(* An if has one else. *)
LEMMA ElseIs ==
  ASSUME NEW p \in Programs, NEW t \in 1 .. Len(p), p[t].op = "if"
  PROVE  LET c == Python!Close(p, t)
             s == Python!Part(p, t, "else")
         IN  /\ s \in t + 1 .. c - 1 /\ p[s].op = "else" /\ Level(p, s - 1) = Level(p, t)
             /\ \A j \in t + 1 .. c - 1 :
                  p[j].op = "else" /\ Level(p, j - 1) = Level(p, t) => j = s
<1> DEFINE n    == Len(p)
           i    == Level(p, t)
           c    == Python!Close(p, t)
           K(m) == Around(p, m)[i]
           D    == {m \in t .. c - 1 : K(m) # "if"}
           S    == {j \in t + 1 .. n :
                      p[j].op = "else" /\ Python!Depth(p, j) = Python!Depth(p, t) + 1}
<1>1. Opening(p, t) /\ n \in Nat
  BY ProgIs DEF Opening
<1>2. /\ c \in t + 1 .. n /\ p[c].op = "end" /\ Level(p, c - 1) = i
      /\ i = Level(p, t - 1) + 1
  BY <1>1, CloseIs
<1>3. /\ K(t) = "if"
      /\ \A m \in t .. c - 1 : K(m) # "while"
      /\ \A j, m \in t .. c - 1 : j <= m /\ K(m) = "if" => K(j) = "if"
  BY <1>1, KindIs
<1>4. \A m \in t + 1 .. c - 1 :
        LET turns == p[m].op = "else" /\ Level(p, m - 1) = i
        IN  /\ turns => K(m - 1) = "if" /\ K(m) = "else"
            /\ ~ turns => K(m) = K(m - 1)
  BY <1>1, KindStep
<1>5. K(c - 1) \in {"else", "while"}
  <2>1. TokenNests(p, c)
    BY <1>1, <1>2, NestsIs
  <2> QED BY <2>1, <1>2 DEF TokenNests, Level
<1>6. \A k \in 1 .. n : Python!Depth(p, k) = Level(p, k - 1)
  BY <1>1, DepthIs
<1>7. Python!Part(p, t, "else") = Python!Min(S)
  BY DEF Python!Part
<1> HIDE DEF K, c, i
<1>8. c - 1 \in D
  BY <1>1, <1>2, <1>5, <1>3
<1>9. PICK s \in D : \A m \in D : s <= m
  <2>1. D \subseteq Nat /\ D # {}
    BY <1>1, <1>8
  <2> QED BY <2>1, Least
<1>10. s \in t + 1 .. c - 1 /\ s - 1 \in t .. c - 1 /\ s - 1 \notin D
  BY <1>1, <1>2, <1>3, <1>9
<1>11. p[s].op = "else" /\ Level(p, s - 1) = i /\ K(s) = "else"
  BY <1>4, <1>9, <1>10
<1>12. ASSUME NEW j \in t + 1 .. c - 1, p[j].op = "else", Level(p, j - 1) = i
       PROVE  j = s
  <2>1. K(j - 1) = "if" /\ K(j) = "else" /\ j - 1 \in t .. c - 1 /\ j \in t .. c - 1
    BY <1>1, <1>2, <1>4, <1>12
  <2>2. s <= j
    BY <1>9, <2>1
  <2>3. ~ s <= j - 1
    BY <1>3, <1>10, <1>11, <2>1, <1>9
  <2> QED BY <2>2, <2>3, <1>10, <1>2, <1>1
<1>13. s \in S
  BY <1>1, <1>2, <1>6, <1>10, <1>11
<1>14. ASSUME NEW j \in S PROVE s <= j
  <2>1. j \in t + 1 .. n /\ p[j].op = "else" /\ Level(p, j - 1) = i /\ j \in 1 .. n
    BY <1>1, <1>2, <1>6
  <2>2. CASE j <= c - 1
    BY <1>12, <2>1, <2>2, <1>1, <1>2
  <2>3. CASE ~ j <= c - 1
    BY <1>1, <1>2, <2>1, <2>3, <1>10
  <2> QED BY <2>2, <2>3
<1>15. Python!Min(S) = s
  <2>1. S \subseteq Int
    OBVIOUS
  <2> HIDE DEF S
  <2> QED BY <2>1, <1>13, <1>14, MinOf
<1> QED BY <1>7, <1>10, <1>11, <1>12, <1>15 DEF c, i

(* The construct an else or an end belongs to. *)
LEMMA OpenerIs ==
  ASSUME NEW p \in Programs, NEW k \in 1 .. Len(p), p[k].op \in {"else", "end"}
  PROVE  LET t == Python!Opener(p, k)
         IN  /\ t \in 1 .. k - 1 /\ Opening(p, t) /\ Level(p, t) = Level(p, k - 1)
             /\ p[k].op = "end" => Python!Close(p, t) = k
             /\ p[k].op = "else" =>
                  p[t].op = "if" /\ Python!Part(p, t, "else") = k /\ k < Python!Close(p, t)
<1> DEFINE n == Len(p)
           i == Level(p, k - 1)
           S == {j \in 1 .. k - 1 : p[j].op \in {"if", "while"}
                                     /\ Python!Depth(p, j) = Python!Depth(p, k) - 1}
<1>1. n \in Nat /\ i \in Nat \ {0} /\ k - 1 \in 0 .. n
  <2>1. /\ Level(p, k - 1) \in Nat /\ Level(p, k) \in Nat
        /\ p[k].op = "end" => Level(p, k - 1) > 0
        /\ ~ Opening(p, k) /\ p[k].op # "end" => Level(p, k) = Level(p, k - 1)
        /\ p[k].op = "else" => Level(p, k) > 0
    BY LevelStep
  <2>2. p[k].op = "else" => ~ Opening(p, k)
    BY DEF Opening
  <2>3. i \in Nat \ {0}
    BY <2>1, <2>2
  <2>4. n \in Nat
    BY ProgIs
  <2> QED BY <2>3, <2>4
<1>2. PICK t \in 1 .. k - 1 : Opening(p, t) /\ Level(p, t) = i /\ k - 1 < Python!Close(p, t)
  BY <1>1, Enclosing
<1>3. t \in 1 .. n
  BY <1>1, <1>2
<1> DEFINE c == Python!Close(p, t)
<1>4. /\ c \in t + 1 .. n /\ p[c].op = "end" /\ i = Level(p, t - 1) + 1
      /\ Level(p, c) = i - 1 /\ \A m \in t .. c - 1 : Level(p, m) >= i
  BY <1>2, <1>3, CloseIs
<1>5. \A j \in 1 .. n : Python!Depth(p, j) = Level(p, j - 1)
  BY <1>1, DepthIs
<1>6. Python!Opener(p, k) = Python!Max(S)
  BY DEF Python!Opener
<1>14. Level(p, t - 1) \in Nat
  BY <1>3, LevelStep
<1>13. k - 1 < c
  BY <1>2
<1> HIDE DEF c
<1>7. t \in S
  <2>1. Python!Depth(p, t) = i - 1
    BY <1>3, <1>4, <1>5, <1>14
  <2>2. Python!Depth(p, k) = i
    BY <1>5
  <2> QED BY <2>1, <2>2, <1>2 DEF Opening
<1>8. ASSUME NEW j \in S PROVE t >= j
  <2>1. Level(p, j - 1) = i - 1
    BY <1>1, <1>5
  <2>2. CASE t < j
    <3>1. j - 1 \in t .. c - 1
      BY <1>1, <1>3, <1>4, <1>13, <2>2
    <3> QED BY <3>1, <2>1, <1>4, <1>1
  <2> QED BY <2>2, <1>3
<1>9. Python!Opener(p, k) = t
  <2>1. S \subseteq Int
    OBVIOUS
  <2> HIDE DEF S
  <2> QED BY <2>1, <1>6, <1>7, <1>8, MaxOf
<1>10. ASSUME p[k].op = "end" PROVE c = k
  <2>1. Level(p, k) = i - 1
    BY <1>10, LevelStep
  <2>2. k \notin t .. c - 1
    BY <2>1, <1>4, <1>1
  <2> QED BY <2>2, <1>1, <1>2, <1>4, <1>13
<1>11. ASSUME p[k].op = "else" PROVE k < c
  <2>1. k # c
    BY <1>4, <1>11
  <2> QED BY <2>1, <1>1, <1>4, <1>13
<1>12. ASSUME p[k].op = "else" PROVE p[t].op = "if" /\ Python!Part(p, t, "else") = k
  <2>1. TokenNests(p, k)
    BY NestsIs
  <2>2. Around(p, k - 1)[i] = "if"
    BY <2>1, <1>12 DEF TokenNests, Level
  <2>3. \A m \in t .. c - 1 : Around(p, m)[i] = "while" <=> p[t].op = "while"
    BY <1>2, <1>3, KindIs DEF c
  <2>4. k - 1 \in t .. c - 1 /\ k \in t + 1 .. c - 1
    BY <1>1, <1>2, <1>4, <1>11, <1>12
  <2>5. p[t].op # "while"
    BY <2>2, <2>3, <2>4
  <2>6. p[t].op = "if"
    BY <2>5, <1>2 DEF Opening
  <2>7. \A j \in t + 1 .. c - 1 :
          p[j].op = "else" /\ Level(p, j - 1) = i => j = Python!Part(p, t, "else")
    BY <2>6, <1>2, <1>3, ElseIs DEF c
  <2> QED BY <2>4, <2>6, <2>7, <1>12
<1> QED BY <1>2, <1>9, <1>10, <1>11, <1>12 DEF c

(* An end is the end of one construct. *)
LEMMA CloseOne ==
  ASSUME NEW p \in Programs, NEW t \in 1 .. Len(p), NEW u \in 1 .. Len(p),
         Opening(p, t), Opening(p, u), Python!Close(p, t) = Python!Close(p, u)
  PROVE  t = u
<1> DEFINE c == Python!Close(p, t)
<1>1. /\ c \in t + 1 .. Len(p) /\ Level(p, t) = Level(p, t - 1) + 1
      /\ Level(p, c) = Level(p, t) - 1 /\ \A m \in t .. c - 1 : Level(p, m) >= Level(p, t)
  BY CloseIs
<1>2. /\ c \in u + 1 .. Len(p) /\ Level(p, u) = Level(p, u - 1) + 1
      /\ Level(p, c) = Level(p, u) - 1 /\ \A m \in u .. c - 1 : Level(p, m) >= Level(p, u)
  BY CloseIs
<1>3. Len(p) \in Nat /\ Level(p, t) \in Nat /\ Level(p, u) \in Nat
      /\ Level(p, t - 1) \in Nat /\ Level(p, u - 1) \in Nat
  BY ProgIs, LevelStep
<1> HIDE DEF c
<1>4. Level(p, t) = Level(p, u) /\ Level(p, t - 1) = Level(p, u - 1)
  <2>1. Level(p, t) - 1 = Level(p, u) - 1
    BY <1>1, <1>2
  <2> QED BY <2>1, <1>1, <1>2, <1>3
<1>5. ~ t < u
  <2> SUFFICES ASSUME t < u PROVE FALSE
    OBVIOUS
  <2>1. u - 1 \in t .. c - 1
    BY <1>1, <1>2, <1>3
  <2> QED BY <2>1, <1>1, <1>3, <1>4
<1>6. ~ u < t
  <2> SUFFICES ASSUME u < t PROVE FALSE
    OBVIOUS
  <2>1. t - 1 \in u .. c - 1
    BY <1>1, <1>2, <1>3
  <2> QED BY <2>1, <1>2, <1>3, <1>4
<1> QED BY <1>3, <1>5, <1>6

(* The loop a break or a continue is in is the innermost while around it.   *)
LEMMA LoopIs ==
  ASSUME NEW p \in Programs, NEW k \in 1 .. Len(p), p[k].op # "end",
         NEW t \in 1 .. k - 1, p[t].op = "while", k - 1 < Python!Close(p, t),
         \A j \in 1 .. Level(p, k - 1) :
           j > Level(p, t) => Around(p, k - 1)[j] # "while"
  PROVE  t \in Python!Loops(p, k) /\ Python!Loop(p, k) = t
<1> DEFINE n == Len(p)
           c == Python!Close(p, t)
           i == Level(p, t)
           S == Python!Loops(p, k)
<1>1. n \in Nat /\ t \in 1 .. n /\ Opening(p, t)
  BY ProgIs DEF Opening
<1>2. c \in t + 1 .. n /\ p[c].op = "end" /\ \A m \in t .. c - 1 : Level(p, m) >= i
  BY <1>1, CloseIs
<1>3. c > k
  BY <1>1, <1>2
<1>4. t \in S
  BY <1>3 DEF Python!Loops
<1>5. ASSUME NEW j \in S PROVE t >= j
  <2>1. j \in 1 .. k - 1 /\ p[j].op = "while" /\ Python!Close(p, j) > k
    BY DEF Python!Loops
  <2>2. j \in 1 .. n /\ Opening(p, j)
    BY <1>1, <2>1 DEF Opening
  <2> DEFINE d == Python!Close(p, j)
             h == Level(p, j)
  <2>3. /\ d \in j + 1 .. n /\ h = Level(p, j - 1) + 1
        /\ \A m \in j .. d - 1 : Level(p, m) >= h
    BY <2>2, CloseIs
  <2>4. Around(p, k - 1)[h] = "while"
    <3>1. \A m \in j .. d - 1 : Around(p, m)[h] = "while" <=> p[j].op = "while"
      BY <2>2, KindIs
    <3>2. k - 1 \in j .. d - 1
      BY <1>1, <2>1, <2>3
    <3> QED BY <3>1, <3>2, <2>1
  <2>5. h \in Nat \ {0} /\ Level(p, j - 1) \in Nat /\ i \in Nat /\ Level(p, k - 1) \in Nat
    <3>1. Level(p, j - 1) \in Nat /\ Level(p, t) \in Nat /\ Level(p, k - 1) \in Nat
      BY <1>1, <2>2, LevelStep
    <3> QED BY <3>1, <2>3
  <2>6. d > k
    BY <2>1
  <2> HIDE DEF d, h
  <2>7. Level(p, k - 1) >= h
    <3>1. k - 1 \in j .. d - 1
      BY <1>1, <2>1, <2>3, <2>6
    <3> QED BY <3>1, <2>3
  <2>8. h \in 1 .. Level(p, k - 1)
    BY <2>5, <2>7
  <2>9. ~ h > i
    BY <2>4, <2>8
  <2>10. CASE t < j
    <3>1. j - 1 \in t .. c - 1
      BY <1>1, <1>2, <1>3, <2>1, <2>10
    <3>2. Level(p, j - 1) >= i
      BY <3>1, <1>2
    <3> QED BY <3>2, <2>3, <2>5, <2>9
  <2> QED BY <2>10, <2>1
<1>6. Python!Max(S) = t
  <2>1. S \subseteq Int
    BY DEF Python!Loops
  <2> HIDE DEF S
  <2> QED BY <2>1, <1>4, <1>5, MaxOf
<1> QED BY <1>4, <1>6 DEF Python!Loop

-----------------------------------------------------------------------------
(* Where Python goes from a place in the text. *)

(* A while that a place is in is not over there.                            *)
LEMMA LoopsIs ==
  ASSUME NEW p \in Programs, NEW k \in 1 .. Len(p), Python!Loops(p, k) # {}
  PROVE  LET t == Python!Loop(p, k)
         IN  /\ t \in 1 .. k - 1 /\ p[t].op = "while" /\ Python!Close(p, t) > k
             /\ Python!Close(p, t) \in 1 .. Len(p)
<1> DEFINE S == Python!Loops(p, k)
           t == Python!Loop(p, k)
<1>1. Len(p) \in Nat
  BY ProgIs
<1>2. S \subseteq 1 .. k - 1 /\ k - 1 \in Nat
  BY <1>1 DEF Python!Loops
<1>3. t \in S
  <2>1. Python!Max(S) = Max(S)
    BY DEF Python!Max, Max
  <2>2. Max(S) \in S
    <3> HIDE DEF S
    <3> QED BY <1>2, MaxIs DEF S
  <2> QED BY <2>1, <2>2 DEF Python!Loop
<1>4. t \in 1 .. k - 1 /\ p[t].op = "while" /\ Python!Close(p, t) > k
  <2> HIDE DEF t
  <2> QED BY <1>3 DEF Python!Loops
<1> HIDE DEF t
<1>5. t \in 1 .. Len(p) /\ Opening(p, t)
  BY <1>1, <1>4 DEF Opening
<1>6. Python!Close(p, t) \in t + 1 .. Len(p)
  BY <1>5, CloseIs
<1> QED BY <1>1, <1>4, <1>5, <1>6 DEF t

(* A token that is no statement leads on to a later one, or back to a loop. *)
LEMMA SettleIs ==
  ASSUME NEW p \in Programs
  PROVE  LET to == Python!Settle(p)
             n  == Len(p)
         IN  /\ to[n + 1] = n + 1
             /\ \A k \in 1 .. n :
                  /\ p[k].op = "else" =>
                       /\ to[k] = to[Python!Close(p, Python!Opener(p, k)) + 1]
                       /\ Python!Close(p, Python!Opener(p, k)) + 1 \in k + 1 .. n + 1
                  /\ p[k].op = "end" =>
                       to[k] = IF p[Python!Opener(p, k)].op = "while"
                               THEN Python!Opener(p, k) ELSE to[k + 1]
                  /\ p[k].op = "break" /\ Python!Loops(p, k) # {} =>
                       /\ to[k] = to[Python!Close(p, Python!Loop(p, k)) + 1]
                       /\ Python!Close(p, Python!Loop(p, k)) + 1 \in k + 1 .. n + 1
                  /\ p[k].op = "continue" /\ Python!Loops(p, k) # {} =>
                       to[k] = Python!Loop(p, k)
                  /\ p[k].op \in {"break", "continue"} /\ Python!Loops(p, k) = {} =>
                       to[k] = k
                  /\ p[k].op \notin {"else", "end", "break", "continue"} => to[k] = k
<1> DEFINE n == Len(p)
           After(k) == IF p[k].op = "else" THEN Python!Close(p, Python!Opener(p, k)) + 1
                       ELSE IF p[k].op = "end" THEN k + 1
                       ELSE Python!Close(p, Python!Loop(p, k)) + 1
           Hops(k) == \/ p[k].op = "else"
                      \/ p[k].op = "end" /\ p[Python!Opener(p, k)].op # "while"
                      \/ p[k].op = "break" /\ Python!Loops(p, k) # {}
           Stay(k) == IF p[k].op = "end" THEN Python!Opener(p, k)
                      ELSE IF p[k].op = "continue" /\ Python!Loops(p, k) # {}
                      THEN Python!Loop(p, k) ELSE k
           Step(q, k) == IF k > n THEN k ELSE IF Hops(k) THEN q[After(k)] ELSE Stay(k)
           Body(q, k) ==
             IF k > n THEN k
             ELSE CASE p[k].op = "else"  -> q[Python!Close(p, Python!Opener(p, k)) + 1]
                    [] p[k].op = "end"   -> IF p[Python!Opener(p, k)].op = "while"
                                            THEN Python!Opener(p, k) ELSE q[k + 1]
                    [] p[k].op = "break" /\ Python!Loops(p, k) # {} ->
                         q[Python!Close(p, Python!Loop(p, k)) + 1]
                    [] p[k].op = "continue" /\ Python!Loops(p, k) # {} ->
                         Python!Loop(p, k)
                    [] OTHER             -> k
           Rec(q)    == [k \in 1 .. n + 1 |-> Body(q, k)]
           sol       == CHOOSE q : q = Rec(q)
           Sol(q, m) == /\ DOMAIN q = 1 .. n + 1
                        /\ q = [k \in 1 .. n + 1 |-> q[k]]
                        /\ \A k \in 1 .. n + 1 : k > n + 1 - m => q[k] = Step(q, k)
           T         == {m \in Nat : m <= n + 1 => \E q : Sol(q, m)}
<1>1. n \in Nat
  BY ProgIs
<1>2. \A k \in 1 .. n : Hops(k) => After(k) \in k + 1 .. n + 1
  <2> SUFFICES ASSUME NEW k \in 1 .. n, Hops(k) PROVE After(k) \in k + 1 .. n + 1
    OBVIOUS
  <2>1. CASE p[k].op = "else"
    <3> DEFINE t == Python!Opener(p, k)
    <3>1. /\ t \in 1 .. k - 1 /\ Opening(p, t) /\ k < Python!Close(p, t)
      BY <2>1, OpenerIs
    <3>2. t \in 1 .. n
      BY <3>1, <1>1
    <3> HIDE DEF t
    <3>3. Python!Close(p, t) \in t + 1 .. n
      BY <3>1, <3>2, CloseIs
    <3>4. Python!Close(p, t) + 1 \in k + 1 .. n + 1
      BY <3>1, <3>2, <3>3, <1>1
    <3> QED BY <3>4, <2>1 DEF t
  <2>2. CASE p[k].op = "end"
    BY <2>2, <1>1
  <2>3. CASE p[k].op = "break" /\ Python!Loops(p, k) # {}
    <3> DEFINE c == Python!Close(p, Python!Loop(p, k))
    <3>1. c > k /\ c \in 1 .. n
      BY <2>3, LoopsIs
    <3> HIDE DEF c
    <3>2. c + 1 \in k + 1 .. n + 1
      BY <3>1, <1>1
    <3> QED BY <3>2, <2>3 DEF c
  <2> QED BY <2>1, <2>2, <2>3
<1>3. \A q : \A k \in 1 .. n + 1 : Body(q, k) = Step(q, k)
  OBVIOUS
<1> HIDE DEF After, Hops, Stay, Body
<1>4. 0 \in T
  <2>1. Sol([k \in 1 .. n + 1 |-> 0], 0)
    BY <1>1
  <2> QED BY <2>1
<1>5. ASSUME NEW m \in Nat, m \in T PROVE m + 1 \in T
  <2> SUFFICES ASSUME m + 1 <= n + 1 PROVE \E q : Sol(q, m + 1)
    OBVIOUS
  <2>1. PICK q : Sol(q, m)
    BY <1>5, <1>1
  <2> DEFINE h == n + 1 - m
             r == [k \in 1 .. n + 1 |-> IF k = h THEN Step(q, h) ELSE q[k]]
  <2>2. h \in 1 .. n + 1
    BY <1>1
  <2>3. \A k \in 1 .. n + 1 : r[k] = IF k = h THEN Step(q, h) ELSE q[k]
    OBVIOUS
  <2>4. DOMAIN r = 1 .. n + 1 /\ r = [k \in 1 .. n + 1 |-> r[k]]
    OBVIOUS
  <2> HIDE DEF r, Step
  <2>5. ASSUME NEW k \in 1 .. n + 1, k >= h PROVE Step(r, k) = Step(q, k)
    <3>1. CASE k > n
      BY <3>1 DEF Step
    <3>2. CASE ~ k > n
      <4>1. k \in 1 .. n
        BY <3>2, <1>1
      <4>2. Hops(k) => r[After(k)] = q[After(k)]
        <5>1. Hops(k) => After(k) \in k + 1 .. n + 1
          BY <4>1, <1>2
        <5>2. Hops(k) => After(k) \in 1 .. n + 1 /\ After(k) # h
          BY <5>1, <2>5, <2>2, <1>1, <4>1
        <5> QED BY <5>2, <2>3
      <4> QED BY <4>2, <3>2 DEF Step
    <3> QED BY <3>1, <3>2
  <2>6. ASSUME NEW k \in 1 .. n + 1, k > n + 1 - (m + 1) PROVE r[k] = Step(r, k)
    <3>1. k >= h
      BY <2>6, <1>1
    <3>2. CASE k = h
      BY <3>1, <3>2, <2>3, <2>5
    <3>3. CASE k # h
      <4>1. k > n + 1 - m
        BY <3>1, <3>3, <2>2, <1>1
      <4>2. q[k] = Step(q, k)
        BY <4>1, <2>1
      <4> QED BY <4>2, <3>1, <3>3, <2>3, <2>5
    <3> QED BY <3>2, <3>3
  <2>7. Sol(r, m + 1)
    BY <2>4, <2>6
  <2> QED BY <2>7
<1>6. \E q : Sol(q, n + 1)
  <2>1. Nat \subseteq T
    <3> HIDE DEF T
    <3> QED BY <1>4, <1>5, UpTo
  <2>2. n + 1 \in Nat /\ n + 1 <= n + 1
    BY <1>1
  <2>3. n + 1 \in T
    <3> HIDE DEF T
    <3> QED BY <2>1, <2>2
  <2> HIDE DEF Sol
  <2> QED BY <2>2, <2>3
<1>7. \E q : q = Rec(q)
  <2>1. PICK q : Sol(q, n + 1)
    BY <1>6
  <2>2. \A k \in 1 .. n + 1 : q[k] = Body(q, k)
    <3>1. \A k \in 1 .. n + 1 : k > n + 1 - (n + 1)
      BY <1>1
    <3>2. \A k \in 1 .. n + 1 : q[k] = Step(q, k)
      BY <2>1, <3>1
    <3> HIDE DEF Step
    <3> QED BY <3>2, <1>3
  <2>3. q = [k \in 1 .. n + 1 |-> q[k]]
    BY <2>1
  <2> QED BY <2>2, <2>3
<1>8. Python!Settle(p) = sol
  BY DEF Python!Settle, Body
<1>9. sol = Rec(sol)
  BY <1>7
<1> HIDE DEF sol
<1>10. \A k \in 1 .. n + 1 : sol[k] = Step(sol, k)
  <2>1. \A k \in 1 .. n + 1 : sol[k] = Body(sol, k)
    BY <1>9
  <2> HIDE DEF Step
  <2> QED BY <2>1, <1>3
<1>11. sol[n + 1] = n + 1
  BY <1>1, <1>10
<1>12. ASSUME NEW k \in 1 .. n PROVE sol[k] = IF Hops(k) THEN sol[After(k)] ELSE Stay(k)
  BY <1>1, <1>10
<1> HIDE DEF Step
<1> QED
  <2> DEFINE to == sol
  <2> SUFFICES ASSUME NEW k \in 1 .. n
       PROVE      /\ p[k].op = "else" =>
                       /\ to[k] = to[Python!Close(p, Python!Opener(p, k)) + 1]
                       /\ Python!Close(p, Python!Opener(p, k)) + 1 \in k + 1 .. n + 1
                  /\ p[k].op = "end" =>
                       to[k] = IF p[Python!Opener(p, k)].op = "while"
                               THEN Python!Opener(p, k) ELSE to[k + 1]
                  /\ p[k].op = "break" /\ Python!Loops(p, k) # {} =>
                       /\ to[k] = to[Python!Close(p, Python!Loop(p, k)) + 1]
                       /\ Python!Close(p, Python!Loop(p, k)) + 1 \in k + 1 .. n + 1
                  /\ p[k].op = "continue" /\ Python!Loops(p, k) # {} =>
                       to[k] = Python!Loop(p, k)
                  /\ p[k].op \in {"break", "continue"} /\ Python!Loops(p, k) = {} =>
                       to[k] = k
                  /\ p[k].op \notin {"else", "end", "break", "continue"} => to[k] = k
    BY <1>8, <1>11
  <2>1. to[k] = IF Hops(k) THEN to[After(k)] ELSE Stay(k)
    BY <1>12
  <2>2. Hops(k) => After(k) \in k + 1 .. n + 1
    BY <1>2
  <2> HIDE DEF to
  <2> QED BY <2>1, <2>2 DEF After, Hops, Stay

-----------------------------------------------------------------------------
(* A body that check.rs has seen return does not run out. *)

(* block_always_returns, of the block that ends before a token. *)
LEMMA ReturnsIs ==
  ASSUME NEW p \in Programs, NEW k \in 1 .. Len(p) + 1
  PROVE  LET returns == AlwaysReturns(p)
             if == Python!Opener(p, k - 1)
         IN  returns[k] <=>
               /\ k > 1
               /\ \/ p[k - 1].op = "return"
                  \/ /\ p[k - 1].op = "end"
                     /\ p[if].op = "if"
                     /\ p[k - 2].op # "else"
                     /\ returns[Python!Part(p, if, "else")]
                     /\ returns[k - 1]
<1> DEFINE n == Len(p)
           O(j) == Python!Opener(p, j - 1)
           P(j) == Python!Part(p, O(j), "else")
           A(j) == /\ j > 1 /\ p[j - 1].op = "end" /\ p[O(j)].op = "if"
                   /\ p[j - 2].op # "else"
           B(j) == j > 1 /\ p[j - 1].op = "return"
           Step(q, j) == B(j) \/ (A(j) /\ q[P(j)] /\ q[j - 1])
           Body(q, j) ==
             /\ j > 1
             /\ \/ p[j - 1].op = "return"
                \/ /\ p[j - 1].op = "end"
                   /\ LET if == Python!Opener(p, j - 1)
                      IN  /\ p[if].op = "if"
                          /\ p[j - 2].op # "else"
                          /\ q[Python!Part(p, if, "else")]
                          /\ q[j - 1]
           Rec(q)    == [j \in 1 .. n + 1 |-> Body(q, j)]
           sol       == CHOOSE q : q = Rec(q)
           Sol(q, m) == /\ DOMAIN q = 1 .. n + 1
                        /\ q = [j \in 1 .. n + 1 |-> q[j]]
                        /\ \A j \in 1 .. m : q[j] = Step(q, j)
           T         == {m \in Nat : m <= n + 1 => \E q : Sol(q, m)}
<1>1. n \in Nat
  BY ProgIs
<1>2. \A j \in 1 .. n + 1 : A(j) => P(j) \in 1 .. j - 1 /\ j - 1 \in 1 .. n + 1
  <2> SUFFICES ASSUME NEW j \in 1 .. n + 1, A(j)
               PROVE  P(j) \in 1 .. j - 1 /\ j - 1 \in 1 .. n + 1
    OBVIOUS
  <2>1. j - 1 \in 1 .. n
    BY <1>1
  <2>2. O(j) \in 1 .. (j - 1) - 1 /\ Opening(p, O(j)) /\ Python!Close(p, O(j)) = j - 1
    BY <2>1, OpenerIs
  <2>3. p[O(j)].op = "if"
    OBVIOUS
  <2> HIDE DEF O
  <2>4. O(j) \in 1 .. n
    BY <1>1, <2>1, <2>2
  <2>5. Python!Part(p, O(j), "else") \in O(j) + 1 .. Python!Close(p, O(j)) - 1
    BY <2>3, <2>4, ElseIs
  <2>6. P(j) \in O(j) + 1 .. (j - 1) - 1
    BY <2>2, <2>5
  <2> HIDE DEF P
  <2> QED BY <2>1, <2>4, <2>6, <1>1
<1>3. \A q : \A j \in 1 .. n + 1 : Body(q, j) = Step(q, j)
  OBVIOUS
<1> HIDE DEF A, B, P, Body
<1>4. 0 \in T
  <2>1. Sol([j \in 1 .. n + 1 |-> FALSE], 0)
    BY <1>1
  <2> QED BY <2>1
<1>5. ASSUME NEW m \in Nat, m \in T PROVE m + 1 \in T
  <2> SUFFICES ASSUME m + 1 <= n + 1 PROVE \E q : Sol(q, m + 1)
    OBVIOUS
  <2>1. PICK q : Sol(q, m)
    BY <1>5, <1>1
  <2> DEFINE h == m + 1
             r == [j \in 1 .. n + 1 |-> IF j = h THEN Step(q, h) ELSE q[j]]
  <2>2. h \in 1 .. n + 1
    BY <1>1
  <2>3. \A j \in 1 .. n + 1 : r[j] = IF j = h THEN Step(q, h) ELSE q[j]
    OBVIOUS
  <2>4. DOMAIN r = 1 .. n + 1 /\ r = [j \in 1 .. n + 1 |-> r[j]]
    OBVIOUS
  <2> HIDE DEF r, Step
  <2>5. ASSUME NEW j \in 1 .. h PROVE Step(r, j) = Step(q, j)
    <3>1. j \in 1 .. n + 1
      BY <2>2, <1>1
    <3>2. A(j) => r[P(j)] = q[P(j)] /\ r[j - 1] = q[j - 1]
      <4>1. A(j) => P(j) \in 1 .. j - 1 /\ j - 1 \in 1 .. n + 1
        BY <3>1, <1>2
      <4>2. A(j) => P(j) \in 1 .. n + 1 /\ P(j) # h /\ j - 1 # h
        BY <4>1, <2>2, <1>1, <3>1
      <4> QED BY <4>1, <4>2, <2>3
    <3> QED BY <3>2 DEF Step
  <2>6. ASSUME NEW j \in 1 .. m + 1 PROVE r[j] = Step(r, j)
    <3>0. j \in 1 .. n + 1
      BY <2>2, <1>1
    <3>2. CASE j = h
      BY <3>0, <3>2, <2>3, <2>5
    <3>3. CASE j # h
      <4>1. j \in 1 .. m
        BY <3>3, <2>2, <1>1
      <4>2. q[j] = Step(q, j)
        BY <4>1, <2>1
      <4> QED BY <4>2, <3>0, <3>3, <2>3, <2>5
    <3> QED BY <3>2, <3>3
  <2>7. Sol(r, m + 1)
    BY <2>4, <2>6
  <2> QED BY <2>7
<1>6. \E q : Sol(q, n + 1)
  <2>1. Nat \subseteq T
    <3> HIDE DEF T
    <3> QED BY <1>4, <1>5, UpTo
  <2>2. n + 1 \in Nat /\ n + 1 <= n + 1
    BY <1>1
  <2>3. n + 1 \in T
    <3> HIDE DEF T
    <3> QED BY <2>1, <2>2
  <2> HIDE DEF Sol
  <2> QED BY <2>2, <2>3
<1>7. \E q : q = Rec(q)
  <2>1. PICK q : Sol(q, n + 1)
    BY <1>6
  <2>2. \A j \in 1 .. n + 1 : q[j] = Body(q, j)
    <3>2. \A j \in 1 .. n + 1 : q[j] = Step(q, j)
      BY <2>1
    <3> HIDE DEF Step
    <3> QED BY <3>2, <1>3
  <2>3. q = [j \in 1 .. n + 1 |-> q[j]]
    BY <2>1
  <2> QED BY <2>2, <2>3
<1>8. AlwaysReturns(p) = sol
  BY DEF AlwaysReturns, Body
<1>9. sol = Rec(sol)
  BY <1>7
<1> HIDE DEF sol
<1>10. sol[k] = Body(sol, k)
  BY <1>9
<1> QED BY <1>8, <1>10 DEF Body

(* The ends of blocks that always return. *)
Blind(p, k) ==
  /\ AlwaysReturns(p)[k]
  /\ k = Len(p) + 1 \/ p[k].op \in {"else", "end"}

(* Nothing leads there. *)
LEMMA BlindIs ==
  ASSUME NEW p \in Programs, NEW k \in 1 .. Len(p) + 1, Blind(p, k)
  PROVE  /\ k > 1
         /\ \/ p[k - 1].op = "return"
            \/ /\ p[k - 1].op = "end"
               /\ p[Python!Opener(p, k - 1)].op = "if"
               /\ Blind(p, k - 1)
               /\ Blind(p, Python!Part(p, Python!Opener(p, k - 1), "else"))
<1> DEFINE if == Python!Opener(p, k - 1)
           s  == Python!Part(p, if, "else")
<1>0. Len(p) \in Nat
  BY ProgIs
<1>1. /\ k > 1
      /\ \/ p[k - 1].op = "return"
         \/ /\ p[k - 1].op = "end" /\ p[if].op = "if"
            /\ AlwaysReturns(p)[s] /\ AlwaysReturns(p)[k - 1]
  <2>1. AlwaysReturns(p)[k]
    BY DEF Blind
  <2> QED BY <2>1, ReturnsIs
<1>2. CASE p[k - 1].op = "return"
  BY <1>1, <1>2
<1>3. CASE p[k - 1].op # "return"
  <2>1. /\ p[k - 1].op = "end" /\ p[if].op = "if"
        /\ AlwaysReturns(p)[s] /\ AlwaysReturns(p)[k - 1]
    BY <1>1, <1>3
  <2>2. k - 1 \in 1 .. Len(p)
    BY <1>0, <1>1
  <2>3. if \in 1 .. (k - 1) - 1
    BY <2>1, <2>2, OpenerIs
  <2>4. if \in 1 .. Len(p)
    BY <1>0, <2>2, <2>3
  <2>5. p[s].op = "else"
    <3> HIDE DEF if
    <3> QED BY <2>1, <2>4, ElseIs
  <2>6. Blind(p, k - 1) /\ Blind(p, s)
    BY <2>1, <2>5 DEF Blind
  <2> QED BY <1>1, <2>1, <2>6
<1> QED BY <1>2, <1>3

(* The statements, to which a token that is none leads. *)
Stmts == {"let", "aug", "comp", "lambda", "call", "if", "while", "return"}

(* The place after a statement is not at the end of a block that always     *)
(* returns, unless the statement is a return.                               *)
LEMMA AfterStatement ==
  ASSUME NEW p \in Programs, NEW k \in 1 .. Len(p), p[k].op \in Stmts \ {"return"}
  PROVE  /\ ~ Blind(p, k + 1)
         /\ p[k].op = "if" => ~ Blind(p, Python!Part(p, k, "else") + 1)
         /\ p[k].op = "while" => ~ Blind(p, Python!Close(p, k) + 1)
<1>0. Len(p) \in Nat
  BY ProgIs
<1>1. ~ Blind(p, k + 1)
  <2>1. k + 1 \in 1 .. Len(p) + 1 /\ (k + 1) - 1 = k
    BY <1>0
  <2>2. p[k].op # "return" /\ p[k].op # "end"
    BY DEF Stmts
  <2> QED BY <2>1, <2>2, BlindIs
<1>2. ASSUME p[k].op = "if" PROVE ~ Blind(p, Python!Part(p, k, "else") + 1)
  <2> DEFINE s == Python!Part(p, k, "else")
  <2>1. s \in k + 1 .. Python!Close(p, k) - 1 /\ p[s].op = "else"
    BY <1>2, ElseIs
  <2>2. Python!Close(p, k) \in k + 1 .. Len(p)
    BY <1>2, CloseIs DEF Opening
  <2> HIDE DEF s
  <2>3. s + 1 \in 1 .. Len(p) + 1 /\ (s + 1) - 1 = s
    BY <1>0, <2>1, <2>2
  <2>4. ~ Blind(p, s + 1)
    BY <2>1, <2>3, BlindIs
  <2> QED BY <2>4 DEF s
<1>3. ASSUME p[k].op = "while" PROVE ~ Blind(p, Python!Close(p, k) + 1)
  <2> DEFINE c == Python!Close(p, k)
  <2>1. c \in k + 1 .. Len(p) /\ p[c].op = "end" /\ Opening(p, k)
    BY <1>3, CloseIs DEF Opening
  <2>2. p[Python!Opener(p, c)].op = "while"
    <3> DEFINE t == Python!Opener(p, c)
    <3>1. c \in 1 .. Len(p)
      BY <2>1, <1>0
    <3>2. t \in 1 .. c - 1 /\ Opening(p, t) /\ Python!Close(p, t) = c
      <4> HIDE DEF c
      <4> QED BY <2>1, <3>1, OpenerIs
    <3>3. t \in 1 .. Len(p)
      BY <3>1, <3>2, <1>0
    <3> HIDE DEF t
    <3>4. t = k
      BY <2>1, <3>2, <3>3, CloseOne
    <3> QED BY <3>4, <1>3 DEF t
  <2> HIDE DEF c
  <2>3. c + 1 \in 1 .. Len(p) + 1 /\ (c + 1) - 1 = c
    BY <1>0, <2>1
  <2>4. ~ Blind(p, c + 1)
    BY <2>1, <2>2, <2>3, BlindIs
  <2> QED BY <2>4 DEF c
<1> QED BY <1>1, <1>2, <1>3

(* So Python does not get there either, on its way to the next statement.   *)
LEMMA SettleSees ==
  ASSUME NEW p \in Programs, NEW k \in 1 .. Len(p) + 1
  PROVE  /\ Python!Settle(p)[k] \in 1 .. Len(p) + 1
         /\ ~ Blind(p, k) => ~ Blind(p, Python!Settle(p)[k])
<1> DEFINE n == Len(p)
           to == Python!Settle(p)
           Good(j) == to[j] \in 1 .. n + 1 /\ (~ Blind(p, j) => ~ Blind(p, to[j]))
           T == {m \in Nat : m <= n => \A j \in 1 .. n + 1 : j > n - m => Good(j)}
<1>1. n \in Nat
  BY ProgIs
<1>2. Good(n + 1)
  <2>1. to[n + 1] = n + 1
    BY SettleIs
  <2>2. n + 1 \in 1 .. n + 1
    BY <1>1
  <2> HIDE DEF to
  <2> QED BY <2>1, <2>2
<1>3. 0 \in T
  BY <1>1, <1>2
<1>4. ASSUME NEW m \in Nat, m \in T PROVE m + 1 \in T
  <2> SUFFICES ASSUME m + 1 <= n, NEW j \in 1 .. n + 1, j > n - (m + 1) PROVE Good(j)
    OBVIOUS
  <2>1. \A i \in 1 .. n + 1 : i > n - m => Good(i)
    BY <1>1, <1>4
  <2>2. CASE j > n - m
    BY <2>1, <2>2
  <2>3. CASE ~ j > n - m
    <3>1. j \in 1 .. n /\ \A i \in j + 1 .. n + 1 : Good(i)
      BY <1>1, <2>1, <2>3
    <3>2. ASSUME NEW q \in j + 1 .. n + 1, to[j] = to[q], ~ Blind(p, j) => ~ Blind(p, q)
          PROVE  Good(j)
      BY <3>1, <3>2
    <3>3. CASE p[j].op = "else"
      <4> DEFINE t == Python!Opener(p, j)
                 q == Python!Close(p, t) + 1
      <4>1. to[j] = to[q] /\ q \in j + 1 .. n + 1
        BY <3>1, <3>3, SettleIs
      <4>2. t \in 1 .. j - 1 /\ Opening(p, t) /\ Python!Part(p, t, "else") = j
            /\ p[t].op = "if"
        BY <3>1, <3>3, OpenerIs
      <4>3. t \in 1 .. n
        BY <3>1, <4>2, <1>1
      <4> HIDE DEF t
      <4>4. ASSUME Blind(p, q) PROVE Blind(p, j)
        <5> DEFINE c == Python!Close(p, t)
                   u == Python!Opener(p, c)
        <5>1. c \in t + 1 .. n /\ p[c].op = "end" /\ q - 1 = c
          BY <4>2, <4>3, CloseIs
        <5>2. c \in 1 .. n
          BY <4>3, <5>1, <1>1
        <5> HIDE DEF c
        <5>3. u \in 1 .. c - 1 /\ Opening(p, u) /\ Python!Close(p, u) = c
          BY <5>1, <5>2, OpenerIs
        <5>4. u \in 1 .. n
          BY <5>2, <5>3, <1>1
        <5> HIDE DEF u
        <5>5. u = t
          BY <4>2, <4>3, <5>3, <5>4, CloseOne DEF c
        <5> HIDE DEF q
        <5>6. q \in 1 .. n + 1
          BY <4>1, <3>1, <1>1
        <5>7. Blind(p, Python!Part(p, u, "else"))
          BY <4>4, <5>1, <5>6, BlindIs DEF u
        <5> QED BY <5>5, <5>7, <4>2
      <4> HIDE DEF q
      <4> QED BY <4>1, <4>4, <3>2
    <3>4. CASE p[j].op = "end" /\ p[Python!Opener(p, j)].op # "while"
      <4>1. to[j] = to[j + 1] /\ j + 1 \in j + 1 .. n + 1
        BY <3>1, <3>4, SettleIs
      <4>2. ASSUME Blind(p, j + 1) PROVE Blind(p, j)
        <5>1. j + 1 \in 1 .. n + 1 /\ (j + 1) - 1 = j
          BY <1>1, <3>1
        <5> QED BY <5>1, <4>2, <3>4, BlindIs
      <4> QED BY <4>1, <4>2, <3>2
    <3>5. CASE p[j].op = "end" /\ p[Python!Opener(p, j)].op = "while"
      <4> DEFINE t == Python!Opener(p, j)
      <4>1. to[j] = t
        BY <3>1, <3>5, SettleIs
      <4>2. t \in 1 .. j - 1 /\ p[t].op = "while"
        BY <3>1, <3>5, OpenerIs
      <4> HIDE DEF t
      <4>3. t \in 1 .. n /\ t # n + 1 /\ t \in 1 .. n + 1
        BY <4>2, <3>1, <1>1
      <4>4. ~ Blind(p, t)
        BY <4>2, <4>3 DEF Blind
      <4> QED BY <4>1, <4>3, <4>4
    <3>6. CASE p[j].op = "break" /\ Python!Loops(p, j) # {}
      <4> DEFINE t == Python!Loop(p, j)
                 q == Python!Close(p, t) + 1
      <4>1. to[j] = to[q] /\ q \in j + 1 .. n + 1
        BY <3>1, <3>6, SettleIs
      <4>2. t \in 1 .. j - 1 /\ p[t].op = "while"
        BY <3>1, <3>6, LoopsIs
      <4> HIDE DEF t
      <4>3. t \in 1 .. n /\ p[t].op \in Stmts \ {"return"}
        BY <4>2, <3>1, <1>1 DEF Stmts
      <4>4. ~ Blind(p, q)
        BY <4>2, <4>3, AfterStatement
      <4> HIDE DEF q
      <4> QED BY <4>1, <4>4, <3>2
    <3>7. CASE p[j].op = "continue" /\ Python!Loops(p, j) # {}
      <4> DEFINE t == Python!Loop(p, j)
      <4>1. to[j] = t
        BY <3>1, <3>7, SettleIs
      <4>2. t \in 1 .. j - 1 /\ p[t].op = "while"
        BY <3>1, <3>7, LoopsIs
      <4> HIDE DEF t
      <4>3. t \in 1 .. n /\ t # n + 1 /\ t \in 1 .. n + 1
        BY <4>2, <3>1, <1>1
      <4>4. ~ Blind(p, t)
        BY <4>2, <4>3 DEF Blind
      <4> QED BY <4>1, <4>3, <4>4
    <3>8. CASE \/ p[j].op \notin {"else", "end", "break", "continue"}
               \/ p[j].op \in {"break", "continue"} /\ Python!Loops(p, j) = {}
      <4>1. to[j] = j
        BY <3>1, <3>8, SettleIs
      <4>2. j \in 1 .. n + 1
        BY <3>1, <1>1
      <4> QED BY <4>1, <4>2
    <3> QED BY <3>3, <3>4, <3>5, <3>6, <3>7, <3>8
  <2> QED BY <2>2, <2>3
<1>5. Nat \subseteq T
  <2> HIDE DEF T
  <2> QED BY <1>3, <1>4, UpTo
<1>6. n \in T /\ k > n - n
  BY <1>5, <1>1
<1>7. Good(k)
  BY <1>6
<1> QED BY <1>7

-----------------------------------------------------------------------------
(* The blocks against the text.  A block starts at a place in the text, o   *)
(* being the token that opened a construct by its id; an instruction aims   *)
(* at a statement, or is a branch to where another block starts.            *)

Where(p, o, label) ==
  LET t == o[label[2]]
  IN  CASE label[1] = "entry" -> 1
        [] label[1] \in {"then", "loop_body"} -> t + 1
        [] label[1] = "else" -> Python!Part(p, t, "else") + 1
        [] label[1] \in {"merge", "loop_exit"} -> Python!Close(p, t) + 1
        [] label[1] \in {"loop_header", "loop_latch"} -> t

(* The statement an instruction stands for or leads to; unreachable leads   *)
(* past the text.                                                           *)
Aim(p, o, ins) ==
  CASE ins.k # 0 -> ins.k
    [] ins.k = 0 /\ ins.op = "br" -> Python!Settle(p)[Where(p, o, ins.to[1])]
    [] ins.k = 0 /\ ins.op # "br" -> Len(p) + 1

(* An instruction of a statement is that statement's, and tests go where    *)
(* Python goes.                                                             *)
InsMaps(p, o, ins) ==
  /\ ins.k # 0 => ins.k \in 1 .. Len(p) /\ ins.op = p[ins.k].op /\ ins.op \in Stmts
  /\ ins.k = 0 => ins.op \in {"br", "unreachable"}
  /\ ins.op \in {"if", "while"} =>
       /\ Where(p, o, ins.to[1]) = ins.k + 1
       /\ Where(p, o, ins.to[2]) =
            Python!Part(p, ins.k, IF ins.op = "if" THEN "else" ELSE "end") + 1

(* The place in the text before an instruction of a block. *)
Place(p, o, l, b, i) == IF i = 1 THEN Where(p, o, l) ELSE b[i - 1].k + 1

(* From each place Python goes on to where the next instruction aims.       *)
BlockMaps(p, o, l, b) ==
  \A i \in 1 .. Len(b) :
    InsMaps(p, o, b[i]) /\ Python!Settle(p)[Place(p, o, l, b, i)] = Aim(p, o, b[i])

(* Every block of the code is mapped so. *)
CodeMaps(p, o, c) == \A l \in DOMAIN c : BlockMaps(p, o, l, c[l])

(* A block and one more instruction. *)
LEMMA BlockMore ==
  ASSUME NEW p, NEW o, NEW l, NEW b, b \in Seq(ToSet(b)), NEW ins,
         BlockMaps(p, o, l, b), InsMaps(p, o, ins),
         Python!Settle(p)[Place(p, o, l, b, Len(b) + 1)] = Aim(p, o, ins)
  PROVE  LET c == Append(b, ins)
         IN  /\ c \in Seq(ToSet(c)) /\ BlockMaps(p, o, l, c)
             /\ Place(p, o, l, c, Len(c) + 1) = ins.k + 1
<1> DEFINE S == ToSet(b) \cup {ins}
           c == Append(b, ins)
<1>1. b \in Seq(S) /\ ins \in S
  OBVIOUS
<1>2. /\ c \in Seq(S) /\ Len(b) \in Nat /\ Len(c) = Len(b) + 1
      /\ c[Len(b) + 1] = ins /\ \A i \in 1 .. Len(b) : c[i] = b[i]
  <2> HIDE DEF S
  <2> QED BY <1>1, Appended
<1> HIDE DEF c, S
<1>3. c \in Seq(ToSet(c))
  BY <1>2 DEF ToSet
<1>4. ASSUME NEW i \in 1 .. Len(c)
      PROVE  /\ InsMaps(p, o, c[i])
             /\ Python!Settle(p)[Place(p, o, l, c, i)] = Aim(p, o, c[i])
  <2>1. i = 1 \/ c[i - 1] = b[i - 1]
    BY <1>2
  <2>2. Place(p, o, l, c, i) = Place(p, o, l, b, i)
    BY <2>1 DEF Place
  <2>3. CASE i = Len(b) + 1
    BY <2>2, <2>3, <1>2
  <2>4. CASE i # Len(b) + 1
    <3>1. i \in 1 .. Len(b) /\ c[i] = b[i]
      BY <2>4, <1>2
    <3> QED BY <3>1, <2>2 DEF BlockMaps
  <2> QED BY <2>3, <2>4
<1>5. Place(p, o, l, c, Len(c) + 1) = ins.k + 1
  <2>1. Len(c) + 1 # 1 /\ (Len(c) + 1) - 1 = Len(b) + 1
    BY <1>2
  <2> QED BY <2>1, <1>2 DEF Place
<1> QED BY <1>3, <1>4, <1>5 DEF BlockMaps, c

(* The emission has followed the text, and what is to be written next is    *)
(* what Python does at r.                                                   *)
AtPlace(o, e, r) ==
  /\ Record(e)
  /\ e.code = [l \in DOMAIN e.code |-> e.code[l]]
  /\ e.here \in DOMAIN e.code
  /\ \A l \in DOMAIN e.code : e.code[l] \in Seq(ToSet(e.code[l]))
  /\ CodeMaps(prog, o, e.code)
  /\ ~ e.done =>
       LET b == e.code[e.here]
       IN  Python!Settle(prog)[Place(prog, o, e.here, b, Len(b) + 1)] = r

(* The instruction of the statement Python comes to may be written.         *)
LEMMA EmitMaps ==
  ASSUME NEW o, NEW e, NEW r, AtPlace(o, e, r), ~ e.done, NEW op, NEW k, NEW to,
         InsMaps(prog, o, [op |-> op, k |-> k, to |-> to]),
         Aim(prog, o, [op |-> op, k |-> k, to |-> to]) = r
  PROVE  AtPlace(o, Emit(e, op, k, to), Python!Settle(prog)[k + 1])
<1> DEFINE f   == Emit(e, op, k, to)
           D   == DOMAIN e.code
           h   == e.here
           b   == e.code[h]
           ins == [op |-> op, k |-> k, to |-> to]
           c   == Append(b, ins)
<1>0. Record(e)
  BY DEF AtPlace
<1>1. /\ Record(f) /\ f.code = [e.code EXCEPT ![h] = c]
      /\ f.here = h /\ f.done = e.done
  BY <1>0 DEF Record, Emit
<1>2. h \in D /\ e.code = [l \in D |-> e.code[l]]
  BY DEF AtPlace
<1>3. /\ DOMAIN f.code = D /\ f.code[h] = c
      /\ \A l \in D \ {h} : f.code[l] = e.code[l]
      /\ f.code = [l \in D |-> f.code[l]]
  BY <1>1, <1>2
<1>4. /\ b \in Seq(ToSet(b)) /\ BlockMaps(prog, o, h, b)
      /\ Python!Settle(prog)[Place(prog, o, h, b, Len(b) + 1)] = Aim(prog, o, ins)
  BY <1>2 DEF AtPlace, CodeMaps
<1>5. ins.k = k /\ InsMaps(prog, o, ins)
  OBVIOUS
<1> HIDE DEF ins, b, f, h
<1>6. /\ c \in Seq(ToSet(c)) /\ BlockMaps(prog, o, h, c)
      /\ Place(prog, o, h, c, Len(c) + 1) = k + 1
  BY <1>4, <1>5, BlockMore
<1> HIDE DEF c
<1>7. \A l \in D : f.code[l] \in Seq(ToSet(f.code[l])) /\ BlockMaps(prog, o, l, f.code[l])
  <2> SUFFICES ASSUME NEW l \in D
               PROVE  f.code[l] \in Seq(ToSet(f.code[l])) /\ BlockMaps(prog, o, l, f.code[l])
    OBVIOUS
  <2>1. CASE l = h
    BY <2>1, <1>3, <1>6
  <2>2. CASE l # h
    BY <2>2, <1>3 DEF AtPlace, CodeMaps
  <2> QED BY <2>1, <2>2
<1>8. AtPlace(o, f, Python!Settle(prog)[k + 1])
  BY <1>1, <1>2, <1>3, <1>6, <1>7 DEF AtPlace, CodeMaps
<1> QED BY <1>8 DEF f

(* So may one that ends the block: nothing is claimed of what follows.      *)
LEMMA TerminateMaps ==
  ASSUME NEW o, NEW e, NEW r, AtPlace(o, e, r), ~ e.done, NEW op, NEW k, NEW to,
         InsMaps(prog, o, [op |-> op, k |-> k, to |-> to]),
         Aim(prog, o, [op |-> op, k |-> k, to |-> to]) = r, NEW q
  PROVE  LET f == Terminate(e, op, k, to)
         IN  /\ AtPlace(o, f, q) /\ f.done
             /\ f.skip = e.skip /\ f.open = e.open /\ f.ids = e.ids
<1> DEFINE g == Emit(e, op, k, to)
<1>1. AtPlace(o, g, Python!Settle(prog)[k + 1])
  BY EmitMaps
<1>2. Record(e)
  BY DEF AtPlace
<1>3. g.skip = e.skip /\ g.open = e.open /\ g.ids = e.ids
  BY <1>2, EmitFields
<1> HIDE DEF g
<1>4. Record(g)
  BY <1>1 DEF AtPlace
<1> DEFINE f == [g EXCEPT !.done = TRUE]
<1>5. /\ Record(f) /\ f.done /\ f.code = g.code /\ f.here = g.here
      /\ f.skip = g.skip /\ f.open = g.open /\ f.ids = g.ids
  BY <1>4, DoneIs
<1>6. Terminate(e, op, k, to) = f
  BY DEF Terminate, g
<1> HIDE DEF f
<1>7. AtPlace(o, f, q)
  BY <1>1, <1>5 DEF AtPlace
<1> QED BY <1>3, <1>5, <1>6, <1>7

(* So may a branch to the block that starts where Python goes on.           *)
LEMMA BrMaps ==
  ASSUME NEW o, NEW e, NEW label,
         AtPlace(o, e, Python!Settle(prog)[Where(prog, o, label)]), ~ e.done, NEW q
  PROVE  LET f == Br(e, label)
         IN  /\ AtPlace(o, f, q) /\ f.done
             /\ f.skip = e.skip /\ f.open = e.open /\ f.ids = e.ids
<1> DEFINE to  == <<label>>
           op  == "br"
           ins == [op |-> op, k |-> 0, to |-> to]
<1>1. ins.op = op /\ ins.k = 0 /\ ins.to = to /\ to[1] = label
  OBVIOUS
<1>2. InsMaps(prog, o, ins)
  <2> HIDE DEF ins, to
  <2> QED BY <1>1 DEF InsMaps
<1>3. Aim(prog, o, ins) = Python!Settle(prog)[Where(prog, o, label)]
  <2> HIDE DEF ins, to
  <2> QED BY <1>1 DEF Aim
<1> HIDE DEF to, op
<1> DEFINE f == Terminate(e, op, 0, to)
<1>4. /\ AtPlace(o, f, q) /\ f.done
      /\ f.skip = e.skip /\ f.open = e.open /\ f.ids = e.ids
  BY <1>2, <1>3, TerminateMaps
<1> HIDE DEF f
<1>5. Br(e, label) = f
  BY DEF Br, f, op, to
<1> QED BY <1>4, <1>5

(* If the block has ended already there is nothing to write.                *)
LEMMA BrUnlessDoneMaps ==
  ASSUME NEW o, NEW e, NEW label,
         AtPlace(o, e, Python!Settle(prog)[Where(prog, o, label)]), NEW q
  PROVE  LET f == BrUnlessDone(e, label)
         IN  /\ AtPlace(o, f, q) /\ f.done
             /\ f.skip = e.skip /\ f.open = e.open /\ f.ids = e.ids
<1>1. CASE e.done
  BY <1>1 DEF BrUnlessDone, AtPlace
<1>2. CASE ~ e.done
  BY <1>2, BrMaps DEF BrUnlessDone
<1> QED BY <1>1, <1>2

(* A new block is at the place it starts.                                   *)
LEMMA OpenBlockMaps ==
  ASSUME NEW o, NEW e, NEW q, AtPlace(o, e, q), NEW label
  PROVE  LET f == OpenBlock(e, label)
         IN  /\ AtPlace(o, f, Python!Settle(prog)[Where(prog, o, label)]) /\ ~ f.done
             /\ f.skip = e.skip /\ f.open = e.open /\ f.ids = e.ids
<1> DEFINE f == OpenBlock(e, label)
           D == DOMAIN e.code
           c == With(e.code, label, <<>>)
<1>1. /\ Record(f) /\ f.done = FALSE /\ f.code = c /\ f.here = label
      /\ f.skip = e.skip /\ f.open = e.open /\ f.ids = e.ids
  <2>1. f = [e EXCEPT !.code = c, !.here = label, !.done = FALSE]
    BY DEF OpenBlock
  <2>2. Record(e)
    BY DEF AtPlace
  <2> HIDE DEF f, c
  <2> QED BY <2>1, <2>2 DEF Record
<1> HIDE DEF f
<1>2. /\ DOMAIN f.code = D \cup {label}
      /\ f.code = [l \in D \cup {label} |-> f.code[l]]
      /\ f.code[label] = <<>>
      /\ \A l \in D \ {label} : f.code[l] = e.code[l]
  <2>1. c = [l \in D \cup {label} |-> IF l = label THEN <<>> ELSE e.code[l]]
    BY DEF With
  <2> HIDE DEF c
  <2> QED BY <2>1, <1>1
<1>3. <<>> \in Seq(ToSet(<<>>)) /\ Len(<<>>) = 0
  OBVIOUS
<1>4. BlockMaps(prog, o, label, <<>>)
  BY <1>3 DEF BlockMaps
<1>5. Place(prog, o, label, <<>>, Len(<<>>) + 1) = Where(prog, o, label)
  BY <1>3 DEF Place
<1>6. \A l \in DOMAIN f.code :
        f.code[l] \in Seq(ToSet(f.code[l])) /\ BlockMaps(prog, o, l, f.code[l])
  <2> SUFFICES ASSUME NEW l \in D \cup {label}
               PROVE  f.code[l] \in Seq(ToSet(f.code[l])) /\ BlockMaps(prog, o, l, f.code[l])
    BY <1>2
  <2>1. CASE l = label
    BY <2>1, <1>2, <1>3, <1>4
  <2>2. CASE l # label
    BY <2>2, <1>2 DEF AtPlace, CodeMaps
  <2> QED BY <2>1, <2>2
<1>7. AtPlace(o, f, Python!Settle(prog)[Where(prog, o, label)])
  BY <1>1, <1>2, <1>5, <1>6 DEF AtPlace, CodeMaps
<1> QED BY <1>1, <1>7 DEF f

(* The rest of the record does not matter. *)
LEMMA AtPlaceSame ==
  ASSUME NEW o, NEW e, NEW f, NEW r, AtPlace(o, e, r), Record(f),
         f.code = e.code, f.here = e.here, f.done = e.done
  PROVE  AtPlace(o, f, r)
BY DEF AtPlace

-----------------------------------------------------------------------------
(* The tokens, one by one. *)

(* Of two constructs around a place none is at the level of the other. *)
LEMMA EnclosingOne ==
  ASSUME NEW p \in Programs, NEW k \in 0 .. Len(p), NEW t \in 1 .. k, NEW u \in 1 .. k,
         Opening(p, t), Opening(p, u), Level(p, t) = Level(p, u),
         k < Python!Close(p, t), k < Python!Close(p, u)
  PROVE  t = u
<1> DEFINE c == Python!Close(p, t)
           d == Python!Close(p, u)
<1>0. Len(p) \in Nat /\ t \in 1 .. Len(p) /\ u \in 1 .. Len(p)
  BY ProgIs
<1>1. /\ c \in t + 1 .. Len(p) /\ Level(p, t) = Level(p, t - 1) + 1
      /\ \A m \in t .. c - 1 : Level(p, m) >= Level(p, t)
  BY <1>0, CloseIs
<1>2. /\ d \in u + 1 .. Len(p) /\ Level(p, u) = Level(p, u - 1) + 1
      /\ \A m \in u .. d - 1 : Level(p, m) >= Level(p, u)
  BY <1>0, CloseIs
<1>3. /\ Level(p, t - 1) \in Nat /\ Level(p, u - 1) \in Nat
      /\ Level(p, t) \in Nat /\ Level(p, u) \in Nat
  BY <1>0, LevelStep
<1> HIDE DEF c, d
<1>4. k < c /\ k < d
  BY DEF c, d
<1>5. ~ t < u
  <2> SUFFICES ASSUME t < u PROVE FALSE
    OBVIOUS
  <2>1. u - 1 \in t .. c - 1
    BY <1>0, <1>1, <1>4
  <2>2. Level(p, u - 1) >= Level(p, t)
    BY <2>1, <1>1
  <2>3. Level(p, u) = Level(p, u - 1) + 1
    BY <1>2
  <2> QED BY <2>2, <2>3, <1>3
<1>6. ~ u < t
  <2> SUFFICES ASSUME u < t PROVE FALSE
    OBVIOUS
  <2>1. t - 1 \in u .. d - 1
    BY <1>0, <1>2, <1>4
  <2>2. Level(p, t - 1) >= Level(p, u)
    BY <2>1, <1>2
  <2>3. Level(p, t) = Level(p, t - 1) + 1
    BY <1>1
  <2> QED BY <2>2, <2>3, <1>3
<1> QED BY <1>0, <1>5, <1>6

(* The open constructs are those around the place, from outside.            *)
Opened(o, open, k) ==
  \A i \in 1 .. Len(open) :
    LET t == o[open[i].id]
    IN  /\ t \in 1 .. k /\ Opening(prog, t) /\ prog[t].op = open[i].op
        /\ Level(prog, t) = i /\ k < Python!Close(prog, t)

(* A token that does not close them leaves them around the place. *)
LEMMA OpenedKeeps ==
  ASSUME prog \in Programs, NEW k \in 1 .. Len(prog), NEW o, NEW open, NEW i,
         i \in 1 .. Len(open), Opened(o, open, k - 1), i <= Level(prog, k)
  PROVE  LET t == o[open[i].id]
         IN  /\ t \in 1 .. k /\ Opening(prog, t) /\ prog[t].op = open[i].op
             /\ Level(prog, t) = i /\ k < Python!Close(prog, t)
<1> DEFINE t == o[open[i].id]
           c == Python!Close(prog, t)
<1>1. /\ t \in 1 .. k - 1 /\ Opening(prog, t) /\ prog[t].op = open[i].op
      /\ Level(prog, t) = i /\ k - 1 < c
  BY DEF Opened
<1>0. Len(prog) \in Nat /\ Level(prog, k) \in Nat
  BY ProgIs, LevelStep
<1> HIDE DEF t
<1>2. t \in 1 .. Len(prog) /\ t \in 1 .. k
  BY <1>0, <1>1
<1>3. c \in t + 1 .. Len(prog) /\ Level(prog, c) = Level(prog, t) - 1
  BY <1>1, <1>2, CloseIs
<1>4. Level(prog, t) \in Nat
  BY <1>2, LevelStep
<1> HIDE DEF c
<1>5. k # c
  BY <1>0, <1>1, <1>3, <1>4
<1>6. k < c
  BY <1>0, <1>1, <1>3, <1>5
<1> QED BY <1>1, <1>2, <1>6 DEF t, c

(* The construct an else or an end belongs to is the innermost open one.    *)
LEMMA InnermostOpened ==
  ASSUME prog \in Programs, NEW k \in 1 .. Len(prog), prog[k].op \in {"else", "end"},
         NEW o, NEW e, OpenOK(e, Nesting(prog)[k - 1]), e.skip = 0,
         Opened(o, e.open, k - 1)
  PROVE  /\ o[Last(e.open).id] = Python!Opener(prog, k)
         /\ prog[Python!Opener(prog, k)].op = Last(e.open).op
<1> DEFINE b == Nesting(prog)[k - 1]
           n == Len(e.open)
           t == o[e.open[n].id]
           u == Python!Opener(prog, k)
<1>0. Len(prog) \in Nat
  BY ProgIs
<1>1. b # <<>>
  BY ProgIs DEF Ends
<1>2. n \in Nat \ {0} /\ Len(b) = n /\ Last(e.open) = e.open[n]
  BY <1>1, InnermostIs
<1>3. /\ t \in 1 .. k - 1 /\ Opening(prog, t) /\ prog[t].op = e.open[n].op
      /\ Level(prog, t) = n /\ k - 1 < Python!Close(prog, t)
  <2>1. n \in 1 .. n
    BY <1>2
  <2> QED BY <2>1 DEF Opened
<1>4. /\ u \in 1 .. k - 1 /\ Opening(prog, u) /\ Level(prog, u) = Level(prog, k - 1)
      /\ prog[k].op = "end" => Python!Close(prog, u) = k
      /\ prog[k].op = "else" => k < Python!Close(prog, u)
  BY OpenerIs
<1>5. Level(prog, k - 1) = n
  BY <1>2 DEF Level, Around
<1> HIDE DEF t, u, n
<1>6. u \in 1 .. Len(prog)
  BY <1>0, <1>4
<1>7. Python!Close(prog, u) \in Int
  <2>1. Python!Close(prog, u) \in u + 1 .. Len(prog)
    BY <1>4, <1>6, CloseIs
  <2> QED BY <2>1
<1>8. k - 1 < Python!Close(prog, u)
  BY <1>0, <1>4, <1>7
<1>9. k - 1 \in 0 .. Len(prog)
  BY <1>0
<1>10. t = u
  BY <1>3, <1>4, <1>5, <1>8, <1>9, EnclosingOne
<1> QED BY <1>2, <1>3, <1>10 DEF t, u, n

(* The target of a break or a continue is the loop it is in.                *)
LEMMA TargetIs ==
  ASSUME prog \in Programs, NEW k \in 1 .. Len(prog), prog[k].op \in {"break", "continue"},
         NEW o, NEW e, OpenOK(e, Nesting(prog)[k - 1]), e.skip = 0,
         Opened(o, e.open, k - 1), "while" \in ToSet(Nesting(prog)[k - 1])
  PROVE  Python!Loops(prog, k) # {} /\ o[Target(e)] = Python!Loop(prog, k)
<1> DEFINE b == Nesting(prog)[k - 1]
           n == Len(e.open)
           W == Whiles(e)
           i == Max(W)
           t == o[e.open[i].id]
<1>1. /\ e.open \in Seq(Constructs) /\ b \in Seq(Kinds)
      /\ \A j \in 1 .. n : e.open[j].op = "while" <=> b[j] = "while"
  BY DEF OpenOK
<1>2. Len(b) = n /\ n \in Nat
  <2>1. Len(b) = n + 0
    BY DEF OpenOK
  <2>2. n \in Nat
    BY <1>1
  <2> QED BY <2>1, <2>2
<1>3. W = {j \in 1 .. n : b[j] = "while"} /\ W # {}
  <2>1. DOMAIN e.open = 1 .. n /\ DOMAIN b = 1 .. n
    BY <1>1, <1>2
  <2>2. PICK j \in DOMAIN b : b[j] = "while"
    BY DEF ToSet
  <2> QED BY <2>1, <2>2, <1>1 DEF Whiles
<1>4. i \in W /\ \A j \in W : i >= j
  <2>1. W \subseteq 1 .. n
    BY <1>3
  <2> HIDE DEF W
  <2> QED BY <2>1, <1>2, <1>3, MaxIs
<1> HIDE DEF i, b
<1>5. /\ t \in 1 .. k - 1 /\ prog[t].op = "while" /\ Level(prog, t) = i
      /\ k - 1 < Python!Close(prog, t)
  <2>1. i \in 1 .. n /\ e.open[i].op = "while"
    BY <1>1, <1>3, <1>4
  <2> QED BY <2>1 DEF Opened
<1>6. \A j \in 1 .. Level(prog, k - 1) :
        j > Level(prog, t) => Around(prog, k - 1)[j] # "while"
  <2>1. Level(prog, k - 1) = n /\ Around(prog, k - 1) = b
    BY <1>2 DEF Level, Around, b
  <2>2. ASSUME NEW j \in 1 .. n, j > i, b[j] = "while" PROVE FALSE
    <3>1. i >= j /\ i \in Int /\ j \in Int
      BY <1>2, <1>3, <1>4, <2>2
    <3> QED BY <3>1, <2>2
  <2> QED BY <2>1, <2>2, <1>5
<1> HIDE DEF t
<1>7. t \in Python!Loops(prog, k) /\ Python!Loop(prog, k) = t
  <2>1. prog[k].op # "end"
    OBVIOUS
  <2> QED BY <2>1, <1>5, <1>6, LoopIs
<1>8. o[Target(e)] = t
  BY DEF Target, t, i
<1> QED BY <1>7, <1>8

(* An if tests and goes on in its then, at the next token.                  *)
LEMMA IfMaps ==
  ASSUME prog \in Programs, NEW k \in 1 .. Len(prog), prog[k].op = "if",
         NEW o, NEW e, AtPlace(o, e, Python!Settle(prog)[k]), ~ e.done, o[e.ids] = k
  PROVE  LET f == EmitIf(e, k)
         IN  /\ AtPlace(o, f, Python!Settle(prog)[k + 1])
             /\ f.open = Append(e.open, [op |-> "if", id |-> e.ids])
             /\ f.ids = e.ids + 1
<1> DEFINE then == <<"then", e.ids>>
           else == <<"else", e.ids>>
           c    == Append(e.open, [op |-> "if", id |-> e.ids])
           f    == Push(e, "if")
           to   == <<then, else>>
           op   == "if"
           g    == Terminate(f, op, k, to)
           h    == OpenBlock(g, then)
<1>1. EmitIf(e, k) = h
  BY DEF EmitIf
<1>2. /\ Record(f) /\ f.code = e.code /\ f.here = e.here /\ f.done = e.done
      /\ f.open = c /\ f.ids = e.ids + 1
  <2>1. Record(e)
    BY DEF AtPlace
  <2>2. f = [e EXCEPT !.open = c, !.ids = e.ids + 1]
    BY <2>1 DEF Push, Record
  <2> HIDE DEF f, c
  <2> QED BY <2>1, <2>2 DEF Record
<1>3. Python!Settle(prog)[k] = k /\ k # 0
  BY SettleIs
<1> HIDE DEF f
<1>4. AtPlace(o, f, k) /\ ~ f.done
  BY <1>2, <1>3, AtPlaceSame
<1> DEFINE ins == [op |-> op, k |-> k, to |-> to]
<1>5. ins.op = op /\ ins.k = k /\ ins.to = to /\ to[1] = then /\ to[2] = else
  OBVIOUS
<1>6. Where(prog, o, then) = k + 1 /\ Where(prog, o, else) = Python!Part(prog, k, "else") + 1
  BY DEF Where
<1> HIDE DEF to, then, else
<1>7. InsMaps(prog, o, ins) /\ Aim(prog, o, ins) = k
  <2> HIDE DEF ins
  <2> QED BY <1>3, <1>5, <1>6 DEF InsMaps, Aim, Stmts
<1> HIDE DEF op
<1> HIDE DEF ins
<1>8. AtPlace(o, g, k) /\ g.open = f.open /\ g.ids = f.ids
  <2>1. InsMaps(prog, o, [op |-> op, k |-> k, to |-> to])
    BY <1>7 DEF ins
  <2>2. Aim(prog, o, [op |-> op, k |-> k, to |-> to]) = k
    BY <1>7 DEF ins
  <2>3. AtPlace(o, f, k)
    BY <1>4
  <2>4. ~ f.done
    BY <1>4
  <2> HIDE DEF c, h
  <2> QED BY <2>1, <2>2, <2>3, <2>4, TerminateMaps
<1> HIDE DEF g
<1>9. /\ AtPlace(o, h, Python!Settle(prog)[Where(prog, o, then)])
      /\ h.open = g.open /\ h.ids = g.ids
  BY <1>8, OpenBlockMaps
<1> HIDE DEF h
<1> QED BY <1>1, <1>2, <1>6, <1>8, <1>9

(* A while enters its header, tests there and goes on in its body.          *)
LEMMA WhileMaps ==
  ASSUME prog \in Programs, NEW k \in 1 .. Len(prog), prog[k].op = "while",
         NEW o, NEW e, AtPlace(o, e, Python!Settle(prog)[k]), ~ e.done, o[e.ids] = k
  PROVE  LET f == EmitWhile(e, k)
         IN  /\ AtPlace(o, f, Python!Settle(prog)[k + 1])
             /\ f.open = Append(e.open, [op |-> "while", id |-> e.ids])
             /\ f.ids = e.ids + 1
<1> DEFINE header == <<"loop_header", e.ids>>
           body   == <<"loop_body", e.ids>>
           exit   == <<"loop_exit", e.ids>>
           c      == Append(e.open, [op |-> "while", id |-> e.ids])
           f      == Push(e, "while")
           g      == Br(f, header)
           h      == OpenBlock(g, header)
           to     == <<body, exit>>
           op     == "while"
           i      == Terminate(h, op, k, to)
           j      == OpenBlock(i, body)
<1>1. EmitWhile(e, k) = j
  BY DEF EmitWhile
<1>2. /\ Record(f) /\ f.code = e.code /\ f.here = e.here /\ f.done = e.done
      /\ f.open = c /\ f.ids = e.ids + 1
  <2>1. Record(e)
    BY DEF AtPlace
  <2>2. f = [e EXCEPT !.open = c, !.ids = e.ids + 1]
    BY <2>1 DEF Push, Record
  <2> HIDE DEF f, c
  <2> QED BY <2>1, <2>2 DEF Record
<1>3. Python!Settle(prog)[k] = k /\ k # 0
  BY SettleIs
<1> HIDE DEF f
<1>4. AtPlace(o, f, Python!Settle(prog)[k]) /\ ~ f.done
  BY <1>2, AtPlaceSame
<1> DEFINE ins == [op |-> op, k |-> k, to |-> to]
<1>5. ins.op = op /\ ins.k = k /\ ins.to = to /\ to[1] = body /\ to[2] = exit
  OBVIOUS
<1>6. /\ Where(prog, o, body) = k + 1 /\ Where(prog, o, header) = k
      /\ Where(prog, o, exit) = Python!Part(prog, k, "end") + 1
  BY DEF Where, Python!Close
<1> HIDE DEF to, header, body, exit
<1>7. InsMaps(prog, o, ins) /\ Aim(prog, o, ins) = k
  <2> HIDE DEF ins
  <2> QED BY <1>3, <1>5, <1>6 DEF InsMaps, Aim, Stmts
<1> HIDE DEF op
<1>8. AtPlace(o, g, k) /\ g.open = f.open /\ g.ids = f.ids
  BY <1>4, <1>6, BrMaps
<1> HIDE DEF g
<1>9. /\ AtPlace(o, h, Python!Settle(prog)[Where(prog, o, header)]) /\ ~ h.done
      /\ h.open = g.open /\ h.ids = g.ids
  BY <1>8, OpenBlockMaps
<1> HIDE DEF h
<1>10. AtPlace(o, h, k)
  BY <1>3, <1>6, <1>9
<1>11. AtPlace(o, i, k) /\ i.open = h.open /\ i.ids = h.ids
  BY <1>7, <1>9, <1>10, TerminateMaps
<1> HIDE DEF i
<1>12. /\ AtPlace(o, j, Python!Settle(prog)[Where(prog, o, body)])
       /\ j.open = i.open /\ j.ids = i.ids
  BY <1>11, OpenBlockMaps
<1> HIDE DEF j
<1> QED BY <1>1, <1>2, <1>6, <1>8, <1>9, <1>11, <1>12

(* The else sends the then to the merge, behind the end, and starts itself. *)
LEMMA ElseMaps ==
  ASSUME prog \in Programs, NEW k \in 1 .. Len(prog), prog[k].op = "else",
         NEW o, NEW e, AtPlace(o, e, Python!Settle(prog)[k]),
         o[Last(e.open).id] = Python!Opener(prog, k)
  PROVE  LET f == EmitElse(e)
         IN  AtPlace(o, f, Python!Settle(prog)[k + 1]) /\ f.open = e.open
<1> DEFINE id    == Last(e.open).id
           t     == Python!Opener(prog, k)
           merge == <<"merge", id>>
           else  == <<"else", id>>
           f     == BrUnlessDone(e, merge)
           g     == OpenBlock(f, else)
<1>1. EmitElse(e) = g
  BY DEF EmitElse
<1>2. /\ Where(prog, o, merge) = Python!Close(prog, t) + 1
      /\ Where(prog, o, else) = Python!Part(prog, t, "else") + 1
  BY DEF Where
<1>3. Python!Settle(prog)[k] = Python!Settle(prog)[Python!Close(prog, t) + 1]
  BY SettleIs
<1>4. Python!Part(prog, t, "else") = k
  BY OpenerIs
<1> HIDE DEF merge, else, t
<1>5. AtPlace(o, f, k) /\ f.open = e.open
  <2>1. AtPlace(o, e, Python!Settle(prog)[Where(prog, o, merge)])
    BY <1>2, <1>3
  <2> QED BY <2>1, BrUnlessDoneMaps
<1> HIDE DEF f
<1>6. AtPlace(o, g, Python!Settle(prog)[Where(prog, o, else)]) /\ g.open = f.open
  BY <1>5, OpenBlockMaps
<1> HIDE DEF g
<1> QED BY <1>1, <1>2, <1>4, <1>5, <1>6

(* The end of an if is where its merge starts; the end of a while goes back *)
(* to the header, and its exit starts behind it.                            *)
LEMMA EndMaps ==
  ASSUME prog \in Programs, NEW k \in 1 .. Len(prog), prog[k].op = "end",
         NEW o, NEW e, AtPlace(o, e, Python!Settle(prog)[k]),
         o[Last(e.open).id] = Python!Opener(prog, k),
         prog[Python!Opener(prog, k)].op = Last(e.open).op
  PROVE  LET f == EmitEnd(e)
         IN  AtPlace(o, f, Python!Settle(prog)[k + 1]) /\ f.open = Front(e.open)
<1> DEFINE id == Last(e.open).id
           t  == Python!Opener(prog, k)
           to == Python!Settle(prog)
<1>0. Len(prog) \in Nat
  BY ProgIs
<1>1. t \in 1 .. k - 1 /\ Opening(prog, t) /\ Python!Close(prog, t) = k
  BY OpenerIs
<1>2. to[k] = IF prog[t].op = "while" THEN t ELSE to[k + 1]
  BY SettleIs
<1>3. ASSUME NEW g, AtPlace(o, g, to[k + 1]), g.open = e.open
      PROVE  AtPlace(o, Pop(g), to[k + 1]) /\ Pop(g).open = Front(e.open)
  <2> DEFINE f == Pop(g)
  <2>1. Record(g)
    BY <1>3 DEF AtPlace
  <2>2. f = [g EXCEPT !.open = Front(g.open)]
    BY DEF Pop
  <2> HIDE DEF f
  <2>3. /\ Record(f) /\ f.code = g.code /\ f.here = g.here /\ f.done = g.done
        /\ f.open = Front(g.open)
    BY <2>1, <2>2 DEF Record
  <2>4. AtPlace(o, f, to[k + 1])
    <3> HIDE DEF to
    <3> QED BY <2>3, <1>3, AtPlaceSame
  <2> QED BY <2>3, <2>4, <1>3 DEF f
<1> HIDE DEF t
<1>4. t \in 1 .. Len(prog) /\ o[id] = t /\ prog[t].op = Last(e.open).op
  BY <1>0, <1>1 DEF t
<1>5. CASE prog[t].op = "if"
  <2> DEFINE merge == <<"merge", id>>
             f == BrUnlessDone(e, merge)
             g == OpenBlock(f, merge)
  <2>1. EmitEnd(e) = Pop(g)
    BY <1>4, <1>5 DEF EmitEnd
  <2>2. Where(prog, o, merge) = k + 1
    BY <1>1, <1>4 DEF Where
  <2>3. to[k] = to[Where(prog, o, merge)]
    BY <1>2, <1>5, <2>2
  <2> HIDE DEF merge
  <2>4. AtPlace(o, f, k) /\ f.open = e.open
    <3>1. AtPlace(o, e, Python!Settle(prog)[Where(prog, o, merge)])
      BY <2>3
    <3> QED BY <3>1, BrUnlessDoneMaps
  <2> HIDE DEF f
  <2>5. AtPlace(o, g, to[k + 1]) /\ g.open = f.open
    <3>1. AtPlace(o, g, to[Where(prog, o, merge)]) /\ g.open = f.open
      BY <2>4, OpenBlockMaps
    <3> QED BY <3>1, <2>2
  <2> HIDE DEF g
  <2> QED BY <2>1, <2>4, <2>5, <1>3
<1>6. CASE prog[t].op = "while"
  <2> DEFINE latch  == <<"loop_latch", id>>
             header == <<"loop_header", id>>
             exit   == <<"loop_exit", id>>
             f == BrUnlessDone(e, latch)
             g == OpenBlock(f, latch)
             h == BrUnlessDone(g, header)
             i == OpenBlock(h, exit)
  <2>1. EmitEnd(e) = Pop(i)
    BY <1>4, <1>6 DEF EmitEnd
  <2>2. /\ Where(prog, o, latch) = t /\ Where(prog, o, header) = t
        /\ Where(prog, o, exit) = k + 1
    BY <1>1, <1>4 DEF Where
  <2>3. to[k] = to[t]
    <3>1. to[t] = t
      BY <1>4, <1>6, SettleIs
    <3> QED BY <3>1, <1>2, <1>6
  <2> HIDE DEF latch, header, exit
  <2>4. AtPlace(o, f, k) /\ f.open = e.open
    <3>1. AtPlace(o, e, Python!Settle(prog)[Where(prog, o, latch)])
      BY <2>2, <2>3
    <3> QED BY <3>1, BrUnlessDoneMaps
  <2> HIDE DEF f
  <2>5. AtPlace(o, g, Python!Settle(prog)[Where(prog, o, latch)]) /\ g.open = f.open
    BY <2>4, OpenBlockMaps
  <2> HIDE DEF g
  <2>6. AtPlace(o, g, Python!Settle(prog)[Where(prog, o, header)])
    BY <2>2, <2>5
  <2>7. AtPlace(o, h, k) /\ h.open = g.open
    BY <2>6, BrUnlessDoneMaps
  <2> HIDE DEF h
  <2>8. AtPlace(o, i, to[k + 1]) /\ i.open = h.open
    <3>1. AtPlace(o, i, to[Where(prog, o, exit)]) /\ i.open = h.open
      BY <2>7, OpenBlockMaps
    <3> QED BY <3>1, <2>2
  <2> HIDE DEF i
  <2> QED BY <2>1, <2>4, <2>5, <2>7, <2>8, <1>3
<1> QED BY <1>1, <1>5, <1>6 DEF Opening

(* The constructs that stay open after a token. *)
LEMMA OpenedStay ==
  ASSUME prog \in Programs, NEW k \in 1 .. Len(prog), NEW o, NEW open, NEW after,
         Opened(o, open, k - 1), Len(after) \in Nat, Len(open) \in Nat,
         Len(after) <= Len(open), Len(after) <= Level(prog, k),
         \A i \in 1 .. Len(after) : after[i] = open[i]
  PROVE  Opened(o, after, k)
<1> SUFFICES ASSUME NEW i \in 1 .. Len(after)
             PROVE  LET t == o[after[i].id]
                    IN  /\ t \in 1 .. k /\ Opening(prog, t) /\ prog[t].op = after[i].op
                        /\ Level(prog, t) = i /\ k < Python!Close(prog, t)
  BY DEF Opened
<1>1. Level(prog, k) \in Nat
  BY LevelStep
<1>2. i \in 1 .. Len(open) /\ i <= Level(prog, k)
  BY <1>1
<1>3. after[i] = open[i]
  OBVIOUS
<1>4. LET t == o[open[i].id]
      IN  /\ t \in 1 .. k /\ Opening(prog, t) /\ prog[t].op = open[i].op
          /\ Level(prog, t) = i /\ k < Python!Close(prog, t)
  BY ONLY prog \in Programs, k \in 1 .. Len(prog), Opened(o, open, k - 1), <1>2, OpenedKeeps
<1> QED BY <1>3, <1>4

(* An if or a while is one more.                                            *)
LEMMA OpenedMore ==
  ASSUME prog \in Programs, NEW k \in 1 .. Len(prog), Opening(prog, k), NEW o, NEW open,
         Opened(o, open, k - 1), open \in Seq(Constructs), Level(prog, k - 1) = Len(open),
         NEW id \in Nat, o[id] = k
  PROVE  Opened(o, Append(open, [op |-> prog[k].op, id |-> id]), k)
<1> DEFINE c == [op |-> prog[k].op, id |-> id]
           after == Append(open, c)
           n == Len(open)
<1>0. Len(prog) \in Nat
  BY ProgIs
<1>1. c.op = prog[k].op /\ c.id = id /\ c \in Constructs
  BY DEF Constructs, Opening
<1> HIDE DEF c
<1>2. /\ n \in Nat /\ Len(after) = n + 1 /\ after[n + 1] = c
      /\ \A i \in 1 .. n : after[i] = open[i]
  BY <1>1, Appended
<1>3. Level(prog, k) = n + 1
  BY LevelStep
<1>4. k < Python!Close(prog, k)
  <2>1. Python!Close(prog, k) \in k + 1 .. Len(prog)
    BY CloseIs
  <2> QED BY <1>0, <2>1
<1> HIDE DEF after, n
<1>5. ASSUME NEW i \in 1 .. n + 1
      PROVE  LET t == o[after[i].id]
             IN  /\ t \in 1 .. k /\ Opening(prog, t) /\ prog[t].op = after[i].op
                 /\ Level(prog, t) = i /\ k < Python!Close(prog, t)
  <2>1. CASE i = n + 1
    <3>1. k \in 1 .. k
      BY <1>0
    <3>2. after[i].id = id /\ after[i].op = prog[k].op
      BY <2>1, <1>1, <1>2
    <3> QED BY <3>1, <3>2, <2>1, <1>3, <1>4
  <2>2. CASE i # n + 1
    <3>1. i \in 1 .. n /\ i <= Level(prog, k)
      BY <2>2, <1>2, <1>3
    <3>2. after[i] = open[i] /\ i \in 1 .. Len(open)
      BY <3>1, <1>2 DEF n
    <3>3. LET t == o[open[i].id]
          IN  /\ t \in 1 .. k /\ Opening(prog, t) /\ prog[t].op = open[i].op
              /\ Level(prog, t) = i /\ k < Python!Close(prog, t)
      BY ONLY prog \in Programs, k \in 1 .. Len(prog), Opened(o, open, k - 1), <3>1, <3>2,
              OpenedKeeps
    <3> QED BY <3>2, <3>3
  <2> QED BY <2>1, <2>2
<1>6. Opened(o, after, k)
  BY <1>2, <1>5 DEF Opened
<1> QED BY <1>6 DEF after, c

(* The emission after k tokens. *)
Follows(o, e, k) ==
  /\ AtPlace(o, e, Python!Settle(prog)[k + 1])
  /\ Opened(o, e.open, k)

(* A statement that is written as one instruction.                          *)
LEMMA PlainMaps ==
  ASSUME prog \in Programs, NEW k \in 1 .. Len(prog), NEW o,
         prog[k].op \in Stmts \ {"if", "while"}, NEW to
  PROVE  LET ins == [op |-> prog[k].op, k |-> k, to |-> to]
         IN  InsMaps(prog, o, ins) /\ Aim(prog, o, ins) = Python!Settle(prog)[k]
<1> DEFINE op == prog[k].op
           ins == [op |-> op, k |-> k, to |-> to]
<1>1. ins.op = op /\ ins.k = k
  OBVIOUS
<1>2. Python!Settle(prog)[k] = k /\ k # 0 /\ op \notin {"if", "while"} /\ op \in Stmts
  BY SettleIs DEF Stmts
<1> HIDE DEF ins
<1>3. InsMaps(prog, o, ins) /\ Aim(prog, o, ins) = k
  BY <1>1, <1>2 DEF InsMaps, Aim
<1> QED BY <1>2, <1>3 DEF ins

-----------------------------------------------------------------------------
(* The ids given out: one to an if or a while that is written, none else.   *)
Numbered(e, f, n) == Record(f) /\ f.ids = n

(* What is written into a block takes no id; a construct entered takes one. *)
LEMMA WritingIds ==
  ASSUME NEW e, Record(e), NEW op, NEW k, NEW to, NEW label
  PROVE  /\ Numbered(e, Terminate(e, op, k, to), e.ids)
         /\ Numbered(e, Emit(e, op, k, to), e.ids)
         /\ Numbered(e, OpenBlock(e, label), e.ids)
         /\ Numbered(e, BrUnlessDone(e, label), e.ids)
         /\ Numbered(e, Br(e, label), e.ids)
         /\ Numbered(e, Push(e, op), e.ids + 1)
         /\ Numbered(e, Pop(e), e.ids)
<1>1. ASSUME NEW xop, NEW xk, NEW xto
      PROVE  /\ Numbered(e, Terminate(e, xop, xk, xto), e.ids)
             /\ Numbered(e, Emit(e, xop, xk, xto), e.ids)
  <2> DEFINE f == Emit(e, xop, xk, xto)
  <2>1. Record(f) /\ f.ids = e.ids
    BY DEF Emit, Record
  <2> HIDE DEF f
  <2>2. Record([f EXCEPT !.done = TRUE]) /\ [f EXCEPT !.done = TRUE].ids = e.ids
    BY <2>1, DoneIs
  <2>3. Terminate(e, xop, xk, xto) = [f EXCEPT !.done = TRUE]
    BY DEF Terminate, f
  <2> QED BY <2>1, <2>2, <2>3 DEF Numbered, f
<1>2. Numbered(e, OpenBlock(e, label), e.ids)
  <2> DEFINE c == With(e.code, label, <<>>)
             f == [e EXCEPT !.code = c, !.here = label, !.done = FALSE]
  <2>1. Record(f) /\ f.ids = e.ids
    <3>1. f = [e EXCEPT !.code = c, !.here = label, !.done = FALSE]
      OBVIOUS
    <3> HIDE DEF c, f
    <3> QED BY <3>1 DEF Record
  <2> QED BY <2>1 DEF Numbered, OpenBlock
<1>3. Numbered(e, Br(e, label), e.ids)
  BY <1>1 DEF Br
<1>4. Numbered(e, BrUnlessDone(e, label), e.ids)
  BY <1>3 DEF BrUnlessDone, Numbered
<1>5. Numbered(e, Push(e, op), e.ids + 1)
  <2> DEFINE c == Append(e.open, [op |-> op, id |-> e.ids])
  <2>1. Push(e, op) = [e EXCEPT !.open = c, !.ids = e.ids + 1]
    BY DEF Push, Record
  <2> HIDE DEF c
  <2> QED BY <2>1 DEF Numbered, Record
<1>6. Numbered(e, Pop(e), e.ids)
  <2> DEFINE c == Front(e.open)
  <2>1. Pop(e) = [e EXCEPT !.open = c]
    BY DEF Pop
  <2> HIDE DEF c
  <2> QED BY <2>1 DEF Numbered, Record
<1> QED BY <1>1, <1>2, <1>3, <1>4, <1>5, <1>6

(* An if and a while take one id, an else and an end none.                  *)
LEMMA ConstructIds ==
  ASSUME NEW e, Record(e), NEW k
  PROVE  /\ EmitIf(e, k).ids = e.ids + 1 /\ EmitWhile(e, k).ids = e.ids + 1
         /\ EmitElse(e).ids = e.ids /\ EmitEnd(e).ids = e.ids
<1>1. EmitIf(e, k).ids = e.ids + 1
  <2> DEFINE then == <<"then", e.ids>>
             f == Push(e, "if")
             g == Terminate(f, "if", k, <<then, <<"else", e.ids>>>>)
             h == OpenBlock(g, then)
  <2>1. Record(f) /\ f.ids = e.ids + 1
    BY WritingIds DEF Numbered
  <2> HIDE DEF f
  <2>2. Record(g) /\ g.ids = e.ids + 1
    BY <2>1, WritingIds DEF Numbered
  <2> HIDE DEF g
  <2>3. h.ids = e.ids + 1
    BY <2>2, WritingIds DEF Numbered
  <2> QED BY <2>3 DEF EmitIf, f, g
<1>2. EmitWhile(e, k).ids = e.ids + 1
  <2> DEFINE header == <<"loop_header", e.ids>>
             body == <<"loop_body", e.ids>>
             f == Push(e, "while")
             g == Br(f, header)
             h == OpenBlock(g, header)
             i == Terminate(h, "while", k, <<body, <<"loop_exit", e.ids>>>>)
             j == OpenBlock(i, body)
  <2>1. Record(f) /\ f.ids = e.ids + 1
    BY WritingIds DEF Numbered
  <2> HIDE DEF f
  <2>2. Record(g) /\ g.ids = e.ids + 1
    BY <2>1, WritingIds DEF Numbered
  <2> HIDE DEF g
  <2>3. Record(h) /\ h.ids = e.ids + 1
    BY <2>2, WritingIds DEF Numbered
  <2> HIDE DEF h
  <2>4. Record(i) /\ i.ids = e.ids + 1
    BY <2>3, WritingIds DEF Numbered
  <2> HIDE DEF i
  <2>5. j.ids = e.ids + 1
    BY <2>4, WritingIds DEF Numbered
  <2> QED BY <2>5 DEF EmitWhile, f, g, h, i
<1>3. ASSUME NEW g, Record(g), g.ids = e.ids, NEW label
      PROVE  LET f == OpenBlock(BrUnlessDone(g, label), label)
             IN  Record(f) /\ f.ids = e.ids
  <2> DEFINE h == BrUnlessDone(g, label)
  <2>1. Record(h) /\ h.ids = e.ids
    BY <1>3, WritingIds DEF Numbered
  <2> HIDE DEF h
  <2>2. Record(OpenBlock(h, label)) /\ OpenBlock(h, label).ids = e.ids
    BY <2>1, WritingIds DEF Numbered
  <2> QED BY <2>2 DEF h
<1>4. EmitElse(e).ids = e.ids
  <2> DEFINE id == Last(e.open).id
             f  == BrUnlessDone(e, <<"merge", id>>)
  <2>1. Record(f) /\ f.ids = e.ids
    BY WritingIds DEF Numbered
  <2> HIDE DEF f
  <2>2. OpenBlock(f, <<"else", id>>).ids = e.ids
    BY <2>1, WritingIds DEF Numbered
  <2> QED BY <2>2 DEF EmitElse, f
<1>5. EmitEnd(e).ids = e.ids
  <2> DEFINE id     == Last(e.open).id
             merge  == <<"merge", id>>
             latch  == <<"loop_latch", id>>
             header == <<"loop_header", id>>
             exit   == <<"loop_exit", id>>
             f == OpenBlock(BrUnlessDone(e, merge), merge)
             g == OpenBlock(BrUnlessDone(e, latch), latch)
             h == BrUnlessDone(g, header)
             i == OpenBlock(h, exit)
  <2>1. EmitEnd(e) = Pop(IF Last(e.open).op = "if" THEN f ELSE i)
    BY DEF EmitEnd
  <2> HIDE DEF merge, latch, header, exit
  <2>2. Record(f) /\ f.ids = e.ids
    BY <1>3
  <2>3. Record(g) /\ g.ids = e.ids
    BY <1>3
  <2> HIDE DEF f, g
  <2>4. Record(h) /\ h.ids = e.ids
    BY <2>3, WritingIds DEF Numbered
  <2> HIDE DEF h
  <2>5. Record(i) /\ i.ids = e.ids
    BY <2>4, WritingIds DEF Numbered
  <2> HIDE DEF i
  <2>6. Pop(f).ids = e.ids /\ Pop(i).ids = e.ids
    BY <2>2, <2>5, WritingIds DEF Numbered
  <2> QED BY <2>1, <2>6
<1> QED BY <1>1, <1>2, <1>4, <1>5

(* The emission of a token writes what Python does there.                   *)
LEMMA TokenMaps ==
  ASSUME prog \in Programs, NEW k \in 1 .. Len(prog), JumpsInLoop(k), NEW o,
         NEW e, EmissionOK(e, Nesting(prog)[k - 1]), Follows(o, e, k - 1),
         EmitToken(e, k).ids = e.ids + 1 => o[e.ids] = k
  PROVE  Follows(o, EmitToken(e, k), k)
<1> DEFINE f  == EmitToken(e, k)
           op == prog[k].op
           to == Python!Settle(prog)
           b  == Nesting(prog)[k - 1]
<1>0. Len(prog) \in Nat /\ op \in Ops /\ (k - 1) + 1 = k
  BY ProgIs
<1>1. Op(k) = op
  BY DEF Op
<1>2. /\ Level(prog, k - 1) = Len(e.open) + e.skip /\ e.open \in Seq(Constructs)
      /\ e.skip \in Nat /\ e.ids \in Nat /\ (e.skip > 0 => e.done) /\ Record(e)
      /\ OpenOK(e, b)
  <2>1. OpenOK(e, b) /\ Record(e)
    BY DEF EmissionOK
  <2> QED BY <2>1 DEF OpenOK, Level, Around
<1>3. EmissionOK(f, Nesting(prog)[k])
  BY TokenKeeps
<1>4. Level(prog, k) = Len(f.open) + f.skip /\ f.skip \in Nat /\ f.open \in Seq(Constructs)
      /\ Record(f)
  <2> HIDE DEF f
  <2>1. OpenOK(f, Nesting(prog)[k]) /\ Record(f)
    BY <1>3 DEF EmissionOK
  <2> QED BY <2>1 DEF OpenOK, Level, Around
<1>5. Len(e.open) \in Nat /\ Len(f.open) \in Nat /\ Len(f.open) <= Level(prog, k)
  <2> HIDE DEF f
  <2>1. Len(e.open) \in Nat /\ Len(f.open) \in Nat
    BY <1>2, <1>4
  <2> DEFINE n == Len(f.open)
             m == f.skip
  <2>2. n \in Nat /\ m \in Nat /\ Level(prog, k) = n + m
    BY <2>1, <1>4
  <2> HIDE DEF n, m
  <2>3. n <= Level(prog, k)
    BY <2>2
  <2> QED BY <2>1, <2>3 DEF n
<1>6. AtPlace(o, e, to[k]) /\ Opened(o, e.open, k - 1)
  BY <1>0 DEF Follows
(* The constructs around stay what they were. *)
<1>7. ASSUME f.open = e.open
      PROVE  Opened(o, f.open, k)
  <2> HIDE DEF f
  <2>1. Len(f.open) <= Len(e.open) /\ \A i \in 1 .. Len(f.open) : f.open[i] = e.open[i]
    BY <1>5, <1>7
  <2> QED BY <2>1, <1>5, <1>6, OpenedStay
(* Dead code is passed over. *)
<1>8. ASSUME NEW n, f = [e EXCEPT !.skip = n], e.done
      PROVE  Follows(o, f, k)
  <2>1. f.code = e.code /\ f.here = e.here /\ f.done = e.done /\ f.open = e.open
    <3> HIDE DEF f
    <3> QED BY <1>8, <1>2 DEF Record
  <2>2. AtPlace(o, e, to[k + 1])
    BY <1>6, <1>8 DEF AtPlace
  <2> HIDE DEF f
  <2>3. AtPlace(o, f, to[k + 1])
    <3> HIDE DEF to
    <3> QED BY <2>1, <2>2, <1>4, AtPlaceSame
  <2>4. Opened(o, f.open, k)
    BY <2>1, <1>7
  <2> QED BY <2>3, <2>4 DEF Follows
<1>9. e = [e EXCEPT !.skip = e.skip]
  BY <1>2 DEF Record
<1>20. SUFFICES Follows(o, f, k)
  OBVIOUS
<1>10. CASE e.skip > 0
  <2>1. e.done /\ e.skip # 0
    BY <1>2, <1>10
  <2>2. CASE op \in {"if", "while"}
    <3>1. f = [e EXCEPT !.skip = e.skip + 1]
      BY <1>1, <1>10, <2>2 DEF EmitToken
    <3> HIDE DEF f
    <3> QED BY <3>1, <2>1, <1>8
  <2>3. CASE op = "end"
    <3>1. f = [e EXCEPT !.skip = e.skip - 1]
      BY <1>1, <1>10, <2>3 DEF EmitToken
    <3> HIDE DEF f
    <3> QED BY <3>1, <2>1, <1>8
  <2>4. CASE op \notin {"if", "while", "end"}
    <3>1. f = e
      BY <1>1, <1>10, <2>1, <2>4 DEF EmitToken
    <3> HIDE DEF f
    <3>2. f = [e EXCEPT !.skip = e.skip]
      BY <3>1, <1>9
    <3> QED BY <3>2, <2>1, <1>8
  <2> QED BY <2>2, <2>3, <2>4
<1>11. CASE e.skip = 0
  <2>0. ~ e.skip > 0
    BY <1>11
  <2>1. CASE op = "else"
    <3>1. f = EmitElse(e)
      BY <1>1, <1>11, <2>0, <2>1 DEF EmitToken
    <3>2. o[Last(e.open).id] = Python!Opener(prog, k)
      BY <1>2, <1>6, <1>11, <2>1, InnermostOpened
    <3> HIDE DEF f
    <3>3. AtPlace(o, f, to[k + 1]) /\ f.open = e.open
      BY <3>1, <3>2, <1>6, <2>1, ElseMaps
    <3>4. Opened(o, f.open, k)
      BY <3>3, <1>7
    <3> QED BY <3>3, <3>4 DEF Follows
  <2>2. CASE op = "end"
    <3>1. f = EmitEnd(e)
      BY <1>1, <1>11, <2>0, <2>2 DEF EmitToken
    <3>2. /\ o[Last(e.open).id] = Python!Opener(prog, k)
          /\ prog[Python!Opener(prog, k)].op = Last(e.open).op
      BY <1>2, <1>6, <1>11, <2>2, InnermostOpened
    <3> HIDE DEF f
    <3>3. AtPlace(o, f, to[k + 1]) /\ f.open = Front(e.open)
      BY <3>1, <3>2, <1>6, <2>2, EndMaps
    <3>4. Len(f.open) <= Len(e.open) /\ \A i \in 1 .. Len(f.open) : f.open[i] = e.open[i]
      <4>1. b # <<>>
        BY <2>2, ProgIs DEF Ends
      <4>2. e.open # <<>>
        BY <4>1, <1>2, <1>11, InnermostIs
      <4>3. /\ Len(Front(e.open)) = Len(e.open) - 1
            /\ \A i \in 1 .. Len(e.open) - 1 : Front(e.open)[i] = e.open[i]
        BY <4>2, <1>2, FrontIs
      <4> DEFINE n == Len(e.open)
      <4>4. n \in Nat /\ Len(f.open) = n - 1 /\ \A i \in 1 .. n - 1 : f.open[i] = e.open[i]
        BY <4>3, <3>3, <1>5
      <4> HIDE DEF n
      <4>5. Len(f.open) <= n /\ \A i \in 1 .. Len(f.open) : f.open[i] = e.open[i]
        BY <4>4
      <4> QED BY <4>5 DEF n
    <3>5. Opened(o, f.open, k)
      BY <3>4, <1>5, <1>6, OpenedStay
    <3> QED BY <3>3, <3>5 DEF Follows
  <2>3. CASE op \notin {"else", "end"} /\ e.done
    <3>1. f = [e EXCEPT !.skip = IF op \in {"if", "while"} THEN 1 ELSE 0]
      BY <1>1, <1>11, <2>0, <2>3 DEF EmitToken
    <3> HIDE DEF f
    <3> QED BY <3>1, <2>3, <1>8
  <2>4. CASE op \notin {"else", "end"} /\ ~ e.done
    <3>1. CASE op = "if"
      <4>1. f = EmitIf(e, k)
        BY <1>1, <1>11, <2>0, <2>4, <3>1 DEF EmitToken
      <4>2. o[e.ids] = k
        BY <4>1, <1>2, ConstructIds
      <4> HIDE DEF f
      <4>3. /\ AtPlace(o, f, to[k + 1])
            /\ f.open = Append(e.open, [op |-> op, id |-> e.ids])
        BY <4>1, <4>2, <1>6, <2>4, <3>1, IfMaps
      <4>4. Opened(o, f.open, k)
        <5>1. Opening(prog, k) /\ Level(prog, k - 1) = Len(e.open)
          BY <1>2, <1>5, <1>11, <3>1 DEF Opening
        <5>2. Opened(o, Append(e.open, [op |-> prog[k].op, id |-> e.ids]), k)
          BY <4>2, <5>1, <1>2, <1>6, OpenedMore
        <5> QED BY <5>2, <4>3
      <4> QED BY <4>3, <4>4 DEF Follows
    <3>2. CASE op = "while"
      <4>1. f = EmitWhile(e, k)
        BY <1>1, <1>11, <2>0, <2>4, <3>2 DEF EmitToken
      <4>2. o[e.ids] = k
        BY <4>1, <1>2, ConstructIds
      <4> HIDE DEF f
      <4>3. /\ AtPlace(o, f, to[k + 1])
            /\ f.open = Append(e.open, [op |-> op, id |-> e.ids])
        BY <4>1, <4>2, <1>6, <2>4, <3>2, WhileMaps
      <4>4. Opened(o, f.open, k)
        <5>1. Opening(prog, k) /\ Level(prog, k - 1) = Len(e.open)
          BY <1>2, <1>5, <1>11, <3>2 DEF Opening
        <5>2. Opened(o, Append(e.open, [op |-> prog[k].op, id |-> e.ids]), k)
          BY <4>2, <5>1, <1>2, <1>6, OpenedMore
        <5> QED BY <5>2, <4>3
      <4> QED BY <4>3, <4>4 DEF Follows
    <3>3. CASE op \in {"break", "continue"}
      <4> DEFINE part  == IF op = "break" THEN "loop_exit" ELSE "loop_latch"
                 label == <<part, Target(e)>>
                 t     == Python!Loop(prog, k)
      <4>1. f = Br(e, label)
        BY <1>1, <1>11, <2>0, <2>4, <3>3 DEF EmitToken
      <4>2. "while" \in ToSet(b)
        BY <1>1, <3>3 DEF JumpsInLoop, InLoop
      <4>3. Python!Loops(prog, k) # {} /\ o[Target(e)] = t
        BY <4>2, <1>2, <1>6, <1>11, <3>3, TargetIs
      <4>4. t \in 1 .. Len(prog) /\ prog[t].op = "while"
        <5>1. t \in 1 .. k - 1 /\ prog[t].op = "while"
          BY <4>3, LoopsIs
        <5> HIDE DEF t
        <5> QED BY <5>1, <1>0
      <4>5. Where(prog, o, label) = IF op = "break" THEN Python!Close(prog, t) + 1 ELSE t
        BY <4>3 DEF Where
      <4>6. to[Where(prog, o, label)] = to[k]
        <5>1. CASE op = "break"
          <6>1. to[k] = to[Python!Close(prog, t) + 1]
            BY <4>3, <5>1, SettleIs
          <6> QED BY <6>1, <4>5, <5>1
        <5>2. CASE op = "continue"
          <6>1. to[k] = t
            BY <4>3, <5>2, SettleIs
          <6>2. to[t] = t
            BY <4>4, SettleIs
          <6> QED BY <6>1, <6>2, <4>5, <5>2
        <5> QED BY <3>3, <5>1, <5>2
      <4> HIDE DEF f, label
      <4>7. AtPlace(o, e, Python!Settle(prog)[Where(prog, o, label)])
        BY <4>6, <1>6
      <4>8. AtPlace(o, f, to[k + 1]) /\ f.open = e.open
        BY <4>1, <4>7, <2>4, BrMaps
      <4> QED BY <4>8, <1>7 DEF Follows
    <3>4. CASE op \notin {"if", "while", "break", "continue"}
      <4>1. op \in Stmts \ {"if", "while"}
        BY <1>0, <2>4, <3>4 DEF Ops, Stmts
      <4>2. InsMaps(prog, o, [op |-> op, k |-> k, to |-> <<>>])
            /\ Aim(prog, o, [op |-> op, k |-> k, to |-> <<>>]) = to[k]
        BY <4>1, PlainMaps
      <4>3. CASE op = "return"
        <5>1. f = Terminate(e, op, k, <<>>)
          BY <1>1, <1>11, <2>0, <2>4, <4>3 DEF EmitToken
        <5> HIDE DEF f
        <5>2. AtPlace(o, f, to[k + 1]) /\ f.open = e.open
          <6> HIDE DEF op, to
          <6> QED BY <5>1, <4>2, <1>6, <2>4, TerminateMaps
        <5> QED BY <5>2, <1>7 DEF Follows
      <4>4. CASE op # "return"
        <5>1. f = Emit(e, op, k, <<>>)
          BY <1>1, <1>11, <2>0, <2>4, <3>4, <4>4 DEF EmitToken
        <5> HIDE DEF f
        <5>2. AtPlace(o, f, Python!Settle(prog)[k + 1])
          <6>1. AtPlace(o, e, to[k])
            BY <1>6
          <6> HIDE DEF op, to
          <6> QED BY <5>1, <4>2, <6>1, <2>4, EmitMaps
        <5>3. f.open = e.open
          <6> HIDE DEF op
          <6> QED BY <5>1, <1>2, EmitFields
        <5> QED BY <5>2, <5>3, <1>7 DEF Follows
      <4> QED BY <4>3, <4>4
    <3> QED BY <3>1, <3>2, <3>3, <3>4
  <2> QED BY <2>1, <2>2, <2>3, <2>4
<1> QED BY <1>2, <1>10, <1>11

(* A token takes one id or none. *)
LEMMA TokenIds ==
  ASSUME prog \in Programs, NEW k \in 1 .. Len(prog), NEW e, Record(e),
         e.ids \in Nat, e.skip \in Nat
  PROVE  EmitToken(e, k).ids \in {e.ids, e.ids + 1}
<1> DEFINE n == e.ids
           f == EmitToken(e, k)
<1>1. ASSUME NEW s PROVE [e EXCEPT !.skip = s].ids = n
  BY DEF Record
<1>2. /\ EmitIf(e, k).ids = n + 1 /\ EmitWhile(e, k).ids = n + 1
      /\ EmitElse(e).ids = n /\ EmitEnd(e).ids = n
  BY ConstructIds
<1>3. ASSUME NEW op, NEW to, NEW label
      PROVE  /\ Terminate(e, op, k, to).ids = n /\ Emit(e, op, k, to).ids = n
             /\ Br(e, label).ids = n
  <2>1. /\ Numbered(e, Terminate(e, op, k, to), e.ids)
        /\ Numbered(e, Emit(e, op, k, to), e.ids)
        /\ Numbered(e, Br(e, label), e.ids)
    BY WritingIds
  <2> QED BY <2>1 DEF Numbered
<1>4. Op(k) = prog[k].op /\ prog[k].op \in Ops
  BY ProgIs DEF Op
<1> DEFINE op == prog[k].op
<1>5. SUFFICES f.ids \in {n, n + 1}
  OBVIOUS
<1>6. ASSUME NEW s, f = [e EXCEPT !.skip = s]
      PROVE  f.ids \in {n, n + 1}
  BY <1>1, <1>6
<1>7. CASE e.skip > 0
  <2>1. CASE op \in {"if", "while"}
    <3>1. f = [e EXCEPT !.skip = e.skip + 1]
      BY <1>4, <1>7, <2>1 DEF EmitToken
    <3> QED BY <3>1, <1>6
  <2>2. CASE op = "end"
    <3>1. f = [e EXCEPT !.skip = e.skip - 1]
      BY <1>4, <1>7, <2>2 DEF EmitToken
    <3> QED BY <3>1, <1>6
  <2>3. CASE op \notin {"if", "while", "end"}
    <3>1. f = e
      BY <1>4, <1>7, <2>3, e.skip # 0 DEF EmitToken
    <3> QED BY <3>1
  <2> QED BY <2>1, <2>2, <2>3
<1>8. CASE ~ e.skip > 0 /\ e.skip = 0
  <2>1. CASE op = "else"
    BY <1>2, <1>4, <1>8, <2>1 DEF EmitToken
  <2>2. CASE op = "end"
    BY <1>2, <1>4, <1>8, <2>2 DEF EmitToken
  <2>3. CASE op \notin {"else", "end"} /\ e.done
    <3>1. f = [e EXCEPT !.skip = IF op \in {"if", "while"} THEN 1 ELSE 0]
      BY <1>4, <1>8, <2>3 DEF EmitToken
    <3> QED BY <3>1, <1>6
  <2>4. CASE op \notin {"else", "end"} /\ ~ e.done
    <3>1. CASE op = "if"
      BY <1>2, <1>4, <1>8, <2>4, <3>1 DEF EmitToken
    <3>2. CASE op = "while"
      BY <1>2, <1>4, <1>8, <2>4, <3>2 DEF EmitToken
    <3>3. CASE op = "break"
      BY <1>3, <1>4, <1>8, <2>4, <3>3 DEF EmitToken
    <3>4. CASE op = "continue"
      BY <1>3, <1>4, <1>8, <2>4, <3>4 DEF EmitToken
    <3>5. CASE op = "return"
      BY <1>3, <1>4, <1>8, <2>4, <3>5 DEF EmitToken
    <3>6. CASE op \notin {"if", "while", "break", "continue", "return"}
      BY <1>3, <1>4, <1>8, <2>4, <3>6 DEF EmitToken
    <3> QED BY <3>1, <3>2, <3>3, <3>4, <3>5, <3>6
  <2> QED BY <2>1, <2>2, <2>3, <2>4
<1>9. e.skip > 0 \/ e.skip = 0
  OBVIOUS
<1> QED BY <1>7, <1>8, <1>9

(* So each id is one token's. *)
LEMMA IdsOne ==
  ASSUME prog \in Programs, \A k \in 1 .. Len(prog) : JumpsInLoop(k)
  PROVE  \E o : \A k \in 1 .. Len(prog) :
           Emission[k].ids = Emission[k - 1].ids + 1 => o[Emission[k - 1].ids] = k
<1> DEFINE n == Len(prog)
           ids(k) == Emission[k].ids
           T == {k \in Nat : k <= n => \A j \in 0 .. k : ids(j) <= ids(k)}
<1>1. n \in Nat
  BY ProgIs
<1>2. \A k \in 0 .. n : Record(Emission[k]) /\ ids(k) \in Nat /\ Emission[k].skip \in Nat
  BY EmissionKeeps DEF EmissionOK, OpenOK
<1>3. \A k \in 1 .. n : ids(k) \in {ids(k - 1), ids(k - 1) + 1}
  <2> SUFFICES ASSUME NEW k \in 1 .. n PROVE ids(k) \in {ids(k - 1), ids(k - 1) + 1}
    OBVIOUS
  <2> DEFINE e == Emission[k - 1]
  <2>1. Record(e) /\ e.ids \in Nat /\ e.skip \in Nat
    BY <1>1, <1>2
  <2>2. Emission[k] = EmitToken(e, k)
    BY <1>1, EmissionIs
  <2> HIDE DEF e
  <2>3. EmitToken(e, k).ids \in {e.ids, e.ids + 1}
    BY <2>1, TokenIds
  <2> QED BY <2>2, <2>3 DEF e
<1> HIDE DEF n, ids
<1>4. 0 \in T
  BY <1>1, <1>2
<1>5. ASSUME NEW k \in Nat, k \in T PROVE k + 1 \in T
  <2> SUFFICES ASSUME k + 1 <= n, NEW j \in 0 .. k + 1 PROVE ids(j) <= ids(k + 1)
    OBVIOUS
  <2>1. k + 1 \in 1 .. n /\ (k + 1) - 1 = k /\ k \in 0 .. n /\ j \in 0 .. n
    BY <1>1
  <2>2. ids(k) <= ids(k + 1) /\ ids(k) \in Nat /\ ids(k + 1) \in Nat /\ ids(j) \in Nat
    <3>1. ids(k + 1) \in {ids(k), ids(k) + 1}
      BY <2>1, <1>3
    <3> QED BY <3>1, <2>1, <1>2
  <2>3. CASE j = k + 1
    BY <2>2, <2>3
  <2>4. CASE j # k + 1
    <3>1. ids(j) <= ids(k)
      BY <2>1, <2>4, <1>5
    <3> QED BY <3>1, <2>2
  <2> QED BY <2>3, <2>4
<1>6. \A k \in 0 .. n : \A j \in 0 .. k : ids(j) <= ids(k)
  <2>1. Nat \subseteq T
    <3> HIDE DEF T
    <3> QED BY <1>4, <1>5, UpTo
  <2> QED BY <2>1, <1>1
<1> DEFINE Takes(k, id) == ids(k - 1) = id /\ ids(k) = id + 1
           o == [id \in Nat |-> CHOOSE k \in 1 .. n : Takes(k, id)]
<1>7. ASSUME NEW id \in Nat, NEW j \in 1 .. n, NEW k \in 1 .. n, j < k,
             Takes(j, id), Takes(k, id)
      PROVE  FALSE
  <2>1. j \in 0 .. k - 1 /\ k - 1 \in 0 .. n
    BY <1>1, <1>7
  <2>2. ids(j) <= ids(k - 1)
    BY <2>1, <1>6
  <2> QED BY <2>2, <1>7
<1>8. ASSUME NEW k \in 1 .. n, ids(k) = ids(k - 1) + 1
      PROVE  o[ids(k - 1)] = k
  <2> DEFINE id == ids(k - 1)
             m  == CHOOSE j \in 1 .. n : Takes(j, id)
  <2>1. id \in Nat /\ Takes(k, id)
    BY <1>1, <1>2, <1>8
  <2>2. m \in 1 .. n /\ Takes(m, id)
    BY <2>1
  <2>3. o[id] = m
    BY <2>1
  <2> HIDE DEF m, id, o, Takes
  <2>4. ~ m < k /\ ~ k < m
    BY <2>1, <2>2, <1>7
  <2>5. m = k
    BY <2>2, <2>4, <1>1
  <2> QED BY <2>3, <2>5 DEF id
<1> HIDE DEF o
<1>9. \A k \in 1 .. n : ids(k) = ids(k - 1) + 1 => o[ids(k - 1)] = k
  BY <1>8
<1> QED BY <1>9 DEF ids, n

(* The emission starts at the first token. *)
LEMMA StartFollows ==
  ASSUME prog \in Programs, NEW o
  PROVE  Follows(o, Start, 0)
<1> DEFINE c == [l \in {Entry} |-> <<>>]
<1>1. /\ Record(Start) /\ Start.code = c /\ Start.here = Entry /\ ~ Start.done
      /\ Start.open = <<>>
  BY DEF Start, Record
<1>2. <<>> \in Seq(ToSet(<<>>)) /\ Len(<<>>) = 0
  OBVIOUS
<1>3. BlockMaps(prog, o, Entry, <<>>)
  BY <1>2 DEF BlockMaps
<1>4. Place(prog, o, Entry, <<>>, Len(<<>>) + 1) = 1
  <2>1. Where(prog, o, Entry) = 1
    BY DEF Where, Entry
  <2> QED BY <1>2, <2>1 DEF Place
<1>5. /\ DOMAIN c = {Entry} /\ c[Entry] = <<>> /\ c = [l \in DOMAIN c |-> c[l]]
  OBVIOUS
<1> HIDE DEF c
<1>6. AtPlace(o, Start, Python!Settle(prog)[0 + 1])
  BY <1>1, <1>2, <1>3, <1>4, <1>5 DEF AtPlace, CodeMaps
<1>7. Opened(o, <<>>, 0)
  BY <1>2 DEF Opened
<1> QED BY <1>1, <1>6, <1>7 DEF Follows

(* The blocks of an accepted body are mapped to its text.                   *)
LEMMA EmittedMaps ==
  ASSUME prog \in Programs, \A k \in 1 .. Len(prog) : JumpsInLoop(k)
  PROVE  \E o : CodeMaps(prog, o, Emitted.code)
<1>1. PICK o : \A k \in 1 .. Len(prog) :
         Emission[k].ids = Emission[k - 1].ids + 1 => o[Emission[k - 1].ids] = k
  BY IdsOne
<1> DEFINE T == {k \in Nat : k <= Len(prog) => Follows(o, Emission[k], k)}
<1>2. Len(prog) \in Nat
  BY ProgIs
<1>3. 0 \in T
  <2>1. Emission[0] = Start
    BY <1>2, EmissionIs
  <2> QED BY <2>1, StartFollows
<1>4. ASSUME NEW n \in Nat, n \in T PROVE n + 1 \in T
  <2> SUFFICES ASSUME n + 1 <= Len(prog)
               PROVE  Follows(o, Emission[n + 1], n + 1)
    OBVIOUS
  <2> DEFINE k == n + 1
             e == Emission[k - 1]
  <2>1. k \in 1 .. Len(prog) /\ k - 1 = n /\ n <= Len(prog) /\ n \in 0 .. Len(prog)
    BY <1>2
  <2>2. Follows(o, e, k - 1)
    BY <2>1, <1>4
  <2>3. EmissionOK(e, Nesting(prog)[k - 1])
    BY <2>1, EmissionKeeps
  <2>4. JumpsInLoop(k)
    BY <2>1
  <2> HIDE DEF k
  <2>5. Emission[k] = EmitToken(e, k)
    BY <2>1, <1>2, EmissionIs
  <2>6. EmitToken(e, k).ids = e.ids + 1 => o[e.ids] = k
    BY <2>1, <2>5, <1>1
  <2> HIDE DEF e
  <2>7. Follows(o, EmitToken(e, k), k)
    BY <2>1, <2>2, <2>3, <2>4, <2>6, TokenMaps
  <2> QED BY <2>5, <2>7 DEF k
<1> DEFINE body == Emission[Len(prog)]
<1>5. Follows(o, body, Len(prog))
  <2>1. Nat \subseteq T
    <3> HIDE DEF T
    <3> QED BY <1>3, <1>4, UpTo
  <2> QED BY <2>1, <1>2
<1> HIDE DEF body
<1>6. CASE body.done
  BY <1>5, <1>6 DEF Emitted, Follows, AtPlace, body
<1>7. CASE ~ body.done
  <2> DEFINE op  == "unreachable"
             r   == Len(prog) + 1
             to  == <<>>
             ins == [op |-> op, k |-> 0, to |-> to]
  <2>1. ins.op = op /\ ins.k = 0 /\ op = "unreachable"
    OBVIOUS
  <2>2. AtPlace(o, body, r)
    <3>1. Python!Settle(prog)[Len(prog) + 1] = Len(prog) + 1
      BY SettleIs
    <3> QED BY <3>1, <1>5 DEF Follows
  <2> HIDE DEF ins, op, to
  <2>3. InsMaps(prog, o, ins)
    BY <2>1 DEF InsMaps
  <2>4. Aim(prog, o, ins) = r
    BY <2>1 DEF Aim
  <2> HIDE DEF r
  <2>5. AtPlace(o, Terminate(body, op, 0, to), r)
    <3>1. InsMaps(prog, o, [op |-> op, k |-> 0, to |-> to])
      BY <2>3 DEF ins
    <3>2. Aim(prog, o, [op |-> op, k |-> 0, to |-> to]) = r
      BY <2>4 DEF ins
    <3> QED BY <3>1, <3>2, <2>2, <1>7, TerminateMaps
  <2>6. Emitted = Terminate(body, op, 0, to)
    BY <1>7 DEF Emitted, body, op, to
  <2> QED BY <2>5, <2>6 DEF AtPlace
<1> QED BY <1>6, <1>7

(* The names a lambda captures have been collected one by one. *)
LEMMA CollectedIs ==
  ASSUME NEW lambda, Len(lambda.body) \in Nat, NEW scope
  PROVE  \E fields :
           /\ Captured(lambda, scope) = fields[Len(lambda.body)]
           /\ fields[0] = <<>>
           /\ \A k \in 1 .. Len(lambda.body) :
                fields[k] = Collect(fields[k - 1], lambda.body[k], lambda.params, scope)
<1> DEFINE n          == Len(lambda.body)
           Turn(b, k) == Collect(b, lambda.body[k], lambda.params, scope)
           Rec(q)     == [k \in 0 .. n |-> IF k = 0 THEN <<>> ELSE Turn(q[k - 1], k)]
           sol        == CHOOSE q : q = Rec(q)
           Sol(q, m)  == /\ DOMAIN q = 0 .. n
                         /\ q = [k \in 0 .. n |-> q[k]]
                         /\ q[0] = <<>>
                         /\ \A k \in 1 .. m : q[k] = Turn(q[k - 1], k)
           T          == {m \in Nat : m <= n => \E q : Sol(q, m)}
<1>1. Captured(lambda, scope) = sol[n]
  BY DEF Captured
<1> HIDE DEF Turn
<1>2. 0 \in T
  <2>1. Sol([k \in 0 .. n |-> <<>>], 0)
    OBVIOUS
  <2> QED BY <2>1
<1>3. ASSUME NEW m \in Nat, m \in T PROVE m + 1 \in T
  <2> SUFFICES ASSUME m + 1 <= n PROVE \E q : Sol(q, m + 1)
    OBVIOUS
  <2>1. PICK q : Sol(q, m)
    BY <1>3
  <2> DEFINE r == [k \in 0 .. n |-> IF k = m + 1 THEN Turn(q[m], m + 1) ELSE q[k]]
  <2>2. r[0] = <<>>
    BY <2>1
  <2>3. ASSUME NEW k \in 1 .. m + 1 PROVE r[k] = Turn(r[k - 1], k)
    <3>1. k - 1 \in 0 .. n /\ k - 1 # m + 1 /\ k \in 0 .. n
      OBVIOUS
    <3>2. r[k - 1] = q[k - 1]
      BY <3>1
    <3>3. CASE k = m + 1
      BY <3>1, <3>2, <3>3
    <3>4. CASE k # m + 1
      <4>1. k \in 1 .. m /\ r[k] = q[k]
        BY <3>1, <3>4
      <4>2. q[k] = Turn(q[k - 1], k)
        BY <4>1, <2>1
      <4> QED BY <4>1, <4>2, <3>2
    <3> QED BY <3>3, <3>4
  <2>4. Sol(r, m + 1)
    BY <2>2, <2>3
  <2> QED BY <2>4
<1>4. \E q : Sol(q, n)
  <2>1. Nat \subseteq T
    <3> HIDE DEF T
    <3> QED BY <1>2, <1>3, UpTo
  <2>2. n \in T
    <3> HIDE DEF T
    <3> QED BY <2>1
  <2>3. n <= n
    OBVIOUS
  <2> HIDE DEF Sol
  <2> QED BY <2>2, <2>3
<1>5. \E q : q = Rec(q)
  <2>1. PICK q : Sol(q, n)
    BY <1>4
  <2>2. \A k \in 0 .. n : q[k] = IF k = 0 THEN <<>> ELSE Turn(q[k - 1], k)
    BY <2>1
  <2> QED BY <2>1, <2>2
<1>6. sol = Rec(sol)
  BY <1>5
<1> HIDE DEF sol
<1>7. sol[0] = <<>> /\ \A k \in 1 .. n : sol[k] = Turn(sol[k - 1], k)
  BY <1>6
<1> QED BY <1>1, <1>7 DEF Turn

(* The environment of a lambda is a sequence of names its body reads: each  *)
(* that is neither a parameter nor unknown.                                 *)
LEMMA CapturedIs ==
  ASSUME NEW lambda, lambda.body \in Seq(ToSet(lambda.body)), NEW scope
  PROVE  LET fields == Captured(lambda, scope)
         IN  /\ fields \in Seq(ToSet(lambda.body))
             /\ ToSet(fields) = {n \in ToSet(lambda.body) : n \notin lambda.params /\ n \in scope}
<1> DEFINE body == lambda.body
           S    == ToSet(body)
           W    == {n \in S : n \notin lambda.params /\ n \in scope}
<1>1. Len(body) \in Nat /\ DOMAIN body = 1 .. Len(body)
  OBVIOUS
<1>2. PICK fields :
        /\ Captured(lambda, scope) = fields[Len(body)]
        /\ fields[0] = <<>>
        /\ \A k \in 1 .. Len(body) :
             fields[k] = Collect(fields[k - 1], body[k], lambda.params, scope)
  BY <1>1, CollectedIs
<1> DEFINE Upto(k) == {body[i] : i \in 1 .. k} \cap W
           Right(k) == fields[k] \in Seq(S) /\ ToSet(fields[k]) = Upto(k)
           T == {k \in Nat : k <= Len(body) => Right(k)}
<1>3. S = {body[i] : i \in 1 .. Len(body)}
  BY <1>1 DEF ToSet
<1>4. 0 \in T
  <2>1. fields[0] \in Seq(S) /\ ToSet(fields[0]) = {}
    BY <1>2 DEF ToSet
  <2> QED BY <2>1
<1>5. ASSUME NEW m \in Nat, m \in T PROVE m + 1 \in T
  <2> SUFFICES ASSUME m + 1 <= Len(body) PROVE Right(m + 1)
    OBVIOUS
  <2> DEFINE k == m + 1
             n == body[k]
             f == fields[m]
  <2>1. k \in 1 .. Len(body) /\ k - 1 = m /\ m <= Len(body)
    BY <1>1
  <2>2. fields[k] = Collect(f, n, lambda.params, scope)
    BY <2>1, <1>2
  <2>3. f \in Seq(S) /\ ToSet(f) = Upto(m)
    BY <2>1, <1>5
  <2>4. Upto(k) = IF n \in W THEN Upto(m) \cup {n} ELSE Upto(m)
    <3>1. 1 .. k = 1 .. m \cup {k}
      BY <2>1
    <3> QED BY <3>1
  <2>5. n \in S
    BY <2>1, <1>3
  <2> HIDE DEF f, n, S
  <2>6. CASE n \in W /\ n \notin ToSet(f)
    <3>1. fields[k] = Append(f, n)
      BY <2>2, <2>6 DEF Collect
    <3>2. /\ Append(f, n) \in Seq(S) /\ Len(f) \in Nat /\ Len(Append(f, n)) = Len(f) + 1
          /\ Append(f, n)[Len(f) + 1] = n
          /\ \A i \in 1 .. Len(f) : Append(f, n)[i] = f[i]
      BY <2>3, <2>5, Appended
    <3>3. ToSet(Append(f, n)) = ToSet(f) \cup {n}
      <4>1. DOMAIN f = 1 .. Len(f) /\ DOMAIN Append(f, n) = 1 .. (Len(f) + 1)
        BY <3>2, <2>3
      <4> DEFINE m2 == Len(f)
                 g  == Append(f, n)
      <4>2. /\ m2 \in Nat /\ DOMAIN g = 1 .. m2 + 1 /\ DOMAIN f = 1 .. m2 /\ g[m2 + 1] = n
            /\ \A i \in 1 .. m2 : g[i] = f[i]
        BY <4>1, <3>2
      <4> HIDE DEF m2, g
      <4>3. \A i \in 1 .. m2 + 1 : i = m2 + 1 \/ i \in 1 .. m2
        BY <4>2
      <4>4. \A i \in 1 .. m2 : i \in 1 .. m2 + 1
        BY <4>2
      <4>5. m2 + 1 \in 1 .. m2 + 1
        BY <4>2
      <4>6. {g[i] : i \in 1 .. m2 + 1} = {f[i] : i \in 1 .. m2} \cup {n}
        BY <4>2, <4>3, <4>4, <4>5
      <4> QED BY <4>2, <4>6 DEF ToSet, g
    <3> QED BY <3>1, <3>2, <3>3, <2>3, <2>4, <2>6
  <2>7. CASE n \notin W \/ n \in ToSet(f)
    <3>1. fields[k] = f
      BY <2>2, <2>5, <2>7 DEF Collect
    <3> QED BY <3>1, <2>3, <2>4, <2>7
  <2> QED BY <2>6, <2>7
<1>6. Right(Len(body))
  <2>1. Nat \subseteq T
    <3> HIDE DEF T
    <3> QED BY <1>4, <1>5, UpTo
  <2> DEFINE m == Len(body)
  <2>2. m \in T
    <3> HIDE DEF T, m
    <3> QED BY <2>1, <1>1 DEF m
  <2>3. m <= Len(body)
    BY <1>1
  <2> HIDE DEF Right, m
  <2>4. Right(m)
    BY <2>2, <2>3
  <2> QED BY <2>4 DEF m
<1>7. Upto(Len(body)) = W
  BY <1>3
<1> QED BY <1>2, <1>6, <1>7

(* What of the scope is a parameter or assigned by the body. *)
LEMMA ScopeNames ==
  ASSUME prog \in Programs, NEW k \in 1 .. Len(prog)
  PROVE  DOMAIN Scope(k) \subseteq Assigned \cup DOMAIN Params
<1>1. Len(prog) \in Nat /\ DOMAIN prog = 1 .. Len(prog)
  BY ProgIs
<1>2. 1 .. k - 1 \subseteq DOMAIN prog
  BY <1>1
<1> QED BY <1>2 DEF Scope, Assigned

(* The names a statement loads are those Python reads, all of them names    *)
(* of the function.                                                         *)
LEMMA ReadsAre ==
  ASSUME prog \in Programs, NEW k \in 1 .. Len(prog), NamesKnown(k)
  PROVE  /\ Python!Reads(k) = IF prog[k].op = "lambda" THEN ToSet(Fields(k))
                                                       ELSE prog[k].reads
         /\ Python!Reads(k) \subseteq Assigned \cup DOMAIN Params
         /\ prog[k].op = "lambda" => DOMAIN Fields(k) = 1 .. Len(Fields(k))
<1>1. DOMAIN Scope(k) \subseteq Assigned \cup DOMAIN Params
  BY ScopeNames
<1>2. Op(k) = prog[k].op /\ Python!Op(k) = prog[k].op
  BY DEF Op, Python!Op
<1>3. CASE prog[k].op = "lambda"
  <2>1. k \in DOMAIN prog
    BY ProgIs
  <2>2. prog[k].body \in Seq(ToSet(prog[k].body))
    BY <2>1, <1>3, ProgramsAssumption
  <2>3. /\ Fields(k) \in Seq(ToSet(prog[k].body))
        /\ ToSet(Fields(k)) = {n \in ToSet(prog[k].body) :
                                 n \notin prog[k].params /\ n \in DOMAIN Scope(k)}
    BY <2>2, CapturedIs DEF Fields
  <2>4. Python!Free(k) = (ToSet(prog[k].body) \cup prog[k].inner) \ prog[k].params
    BY DEF Python!Free, Python!ToSet, ToSet
  <2>5. Python!Free(k) \subseteq ToSet(Fields(k))
    BY <1>2, <1>3 DEF NamesKnown
  <2>6. Python!Free(k) = ToSet(Fields(k)) /\ Python!Reads(k) = Python!Free(k)
    BY <2>3, <2>4, <2>5, <1>2, <1>3 DEF Python!Reads
  <2> QED BY <2>3, <2>6, <1>1, <1>3
<1>4. CASE prog[k].op # "lambda"
  BY <1>1, <1>2, <1>4 DEF NamesKnown, Python!Reads
<1> QED BY <1>3, <1>4

-----------------------------------------------------------------------------
(* The slots as Python's locals. *)
LocalsOf(s) ==
  [n \in DOMAIN s \cap (Assigned \cup DOMAIN Params) |->
     [at |-> s[n].at, env |-> Taken(s[n])]]

(* They are Python's locals now, and after a step. *)
LEMMA LocalsAre == Locals = LocalsOf(slots)
BY DEF Locals, LocalsOf

(* After a step of the same body they are the new slots'.                   *)
LEMMA LocalsNext ==
  ASSUME prog' = prog
  PROVE  Locals' = LocalsOf(slots')
BY DEF Locals, LocalsOf, Assigned, Taken, IsCallable, EnvVar, Fields, Scope, Type, Op

(* The bindings m are those of l with v at x. *)
Rebinds(m, l, x, v) == m = [y \in DOMAIN l \cup {x} |-> IF y = x THEN v ELSE l[y]]

(* A slot of Python's is written. *)
LEMMA LocalsStore ==
  ASSUME NEW s, NEW x \in Assigned \cup DOMAIN Params, NEW v
  PROVE  Rebinds(LocalsOf(With(s, x, v)), LocalsOf(s), x, [at |-> v.at, env |-> Taken(v)])
<1> DEFINE N == Assigned \cup DOMAIN Params
           t == With(s, x, v)
           L == LocalsOf(s)
<1>1. DOMAIN t = DOMAIN s \cup {x} /\ \A y \in DOMAIN t : t[y] = IF y = x THEN v ELSE s[y]
  BY DEF With
<1>2. /\ DOMAIN L = DOMAIN s \cap N
      /\ \A n \in DOMAIN L : L[n] = [at |-> s[n].at, env |-> Taken(s[n])]
  BY DEF LocalsOf
<1> HIDE DEF t, L
<1>3. LocalsOf(t) = [n \in DOMAIN t \cap N |-> [at |-> t[n].at, env |-> Taken(t[n])]]
  BY DEF LocalsOf
<1>4. DOMAIN t \cap N = DOMAIN L \cup {x}
  BY <1>1, <1>2
<1>5. \A y \in DOMAIN t \cap N :
        [at |-> t[y].at, env |-> Taken(t[y])] =
          IF y = x THEN [at |-> v.at, env |-> Taken(v)] ELSE L[y]
  BY <1>1, <1>2
<1>6. LocalsOf(t) = [y \in DOMAIN L \cup {x} |->
                       IF y = x THEN [at |-> v.at, env |-> Taken(v)] ELSE L[y]]
  BY <1>3, <1>4, <1>5
<1> QED BY <1>6 DEF t, L, Rebinds

(* Another slot is not. *)
LEMMA LocalsHidden ==
  ASSUME NEW s, NEW x, x \notin Assigned \cup DOMAIN Params, NEW v
  PROVE  LocalsOf(With(s, x, v)) = LocalsOf(s)
<1> DEFINE N == Assigned \cup DOMAIN Params
           t == With(s, x, v)
<1>1. DOMAIN t = DOMAIN s \cup {x} /\ \A y \in DOMAIN t : t[y] = IF y = x THEN v ELSE s[y]
  BY DEF With
<1>2. DOMAIN t \cap N = DOMAIN s \cap N /\ \A y \in DOMAIN s \cap N : t[y] = s[y]
  BY <1>1
<1> HIDE DEF t
<1>3. LocalsOf(t) = LocalsOf(s)
  BY <1>2 DEF LocalsOf
<1> QED BY <1>3 DEF t

(* A value that is not a callable has taken nothing. *)
LEMMA TakenNothing ==
  ASSUME NEW v, v.at = 0 \/ prog[v.at].op # "lambda"
  PROVE  Taken(v) = Python!Nothing
<1>1. ~ IsCallable(v)
  BY DEF IsCallable, Op
<1> QED BY <1>1 DEF Taken, Python!Nothing

-----------------------------------------------------------------------------
(* The statement Python executes next is the instruction that runs. *)

(* What check.rs has made sure of. *)
Accepted ==
  /\ \A k \in 1 .. Len(prog) : prog[k].op \in Stmts => NamesKnown(k)
  /\ AlwaysReturns(prog)[Len(prog) + 1]

(* The next instruction and the next statement come from one place.         *)
OnCourse(o) ==
  /\ Python!Settle(prog)[Place(prog, o, pc.block, code[pc.block], pc.at)] = Python!At
  /\ Python!After \in 1 .. Len(prog) + 1 /\ ~ Blind(prog, Python!After)

(* The code is mapped to the body by o, and the function runs along it.     *)
Mapped(o) == CodeMaps(prog, o, code) /\ (status = "go" => OnCourse(o))

(* The invariant of the refinement. *)
FollowsInv ==
  /\ IInv
  /\ status \in {"checked"} \cup Compiled => Accepted
  /\ status \notin Running => last = [at |-> 0, holds |-> TRUE]
  /\ status \in Compiled => \E o : Mapped(o)

(* What runs is the statement Python is at. *)
LEMMA NowAt ==
  ASSUME FollowsInv, status = "go", NEW o, Mapped(o)
  PROVE  /\ Now.op = "br" =>
              Python!Settle(prog)[Where(prog, o, Now.to[1])] = Python!At
         /\ Now.op # "br" =>
              /\ Now.k \in 1 .. Len(prog) /\ Python!At = Now.k
              /\ Now.op = prog[Now.k].op /\ Now.op \in Stmts /\ NamesKnown(Now.k)
         /\ Now.op \in {"if", "while"} =>
              /\ Where(prog, o, Now.to[1]) = Now.k + 1
              /\ Where(prog, o, Now.to[2]) =
                   Python!Part(prog, Now.k, IF Now.op = "if" THEN "else" ELSE "end") + 1
<1> DEFINE b == code[pc.block]
           n == Len(prog)
<1>0. prog \in Programs /\ n \in Nat /\ Accepted /\ pc.block \in DOMAIN code
  BY ProgIs DEF FollowsInv, IInv, Compiled
<1>1. pc.at \in 1 .. Len(b) /\ b[pc.at] = Now
  BY NowIs DEF FollowsInv, Now
<1>2. BlockMaps(prog, o, pc.block, b)
  BY <1>0 DEF Mapped, CodeMaps
<1>3. InsMaps(prog, o, Now) /\ Python!At = Aim(prog, o, Now)
  <2>1. /\ InsMaps(prog, o, b[pc.at])
        /\ Python!Settle(prog)[Place(prog, o, pc.block, b, pc.at)] = Aim(prog, o, b[pc.at])
    BY <1>1, <1>2 DEF BlockMaps
  <2>2. Python!Settle(prog)[Place(prog, o, pc.block, b, pc.at)] = Python!At
    BY DEF Mapped, OnCourse
  <2> QED BY <1>1, <2>1, <2>2
<1> HIDE DEF Now
<1>4. CASE Now.k = 0
  <2>1. Now.op \in {"br", "unreachable"}
    BY <1>3, <1>4 DEF InsMaps
  <2>2. Now.op = "br"
    <3> SUFFICES ASSUME Now.op # "br" PROVE FALSE
      BY <2>1
    <3>1. Python!At = n + 1
      BY <1>3, <1>4 DEF Aim
    <3>2. Blind(prog, n + 1)
      BY <1>0 DEF Blind, Accepted
    <3>3. Python!After \in 1 .. n + 1 /\ ~ Blind(prog, Python!After)
      BY DEF Mapped, OnCourse
    <3>4. ~ Blind(prog, Python!Settle(prog)[Python!After])
      BY <1>0, <3>3, SettleSees
    <3> QED BY <3>1, <3>2, <3>4 DEF Python!At
  <2>3. Aim(prog, o, Now) = Python!Settle(prog)[Where(prog, o, Now.to[1])]
    BY <1>4, <2>2 DEF Aim
  <2> QED BY <1>3, <2>2, <2>3
<1>5. CASE Now.k # 0
  <2>1. Now.k \in 1 .. n /\ Now.op = prog[Now.k].op /\ Now.op \in Stmts
    BY <1>3, <1>5 DEF InsMaps
  <2>2. Python!At = Now.k
    BY <1>3, <1>5 DEF Aim
  <2>3. NamesKnown(Now.k)
    BY <1>0, <2>1 DEF Accepted
  <2>4. Now.op # "br"
    BY <2>1 DEF Stmts
  <2> QED BY <1>3, <2>1, <2>2, <2>3, <2>4 DEF InsMaps
<1> QED BY <1>4, <1>5

(* It depends on the body only. *)
LEMMA AcceptedSame ==
  ASSUME prog' = prog
  PROVE  Accepted' <=> Accepted
BY DEF Accepted, NamesKnown, Python!Free, Python!Reads, Python!Op, Python!ToSet, ToSet,
       Fields, Scope, Type, Op

(* The invariant holds at the start, and each action keeps it.              *)
LEMMA InitFollows == Init => FollowsInv
<1> SUFFICES ASSUME Init PROVE FollowsInv
  OBVIOUS
<1>1. IInv
  BY InitInv
<1> QED BY <1>1 DEF Init, FollowsInv, Compiled

(* check.rs makes sure of what the blocks rest on. *)
LEMMA CheckFollows == FollowsInv /\ Check => FollowsInv'
<1> SUFFICES ASSUME FollowsInv, Check PROVE FollowsInv'
  OBVIOUS
<1>1. IInv' /\ prog' = prog /\ last' = last /\ status = "source"
  BY CheckInv DEF FollowsInv, Check
<1>2. status' \in {"checked", "rejected"} /\ (status' = "checked" => Accepts)
  BY DEF Check
<1>3. Accepts => Accepted
  <2> SUFFICES ASSUME Accepts, NEW k \in 1 .. Len(prog), prog[k].op \in Stmts
               PROVE  NamesKnown(k)
    BY DEF Accepts, Accepted
  <2>1. k \in DOMAIN prog
    BY ProgIs DEF FollowsInv, IInv
  <2>2. WellFormed(k)
    BY <2>1 DEF Accepts
  <2>3. Op(k) \notin {"else", "end", "break", "continue"}
    BY DEF Op, Stmts
  <2> QED BY <2>2, <2>3 DEF WellFormed
<1>4. status' \notin Compiled /\ (status' = "checked" => Accepted')
  BY <1>1, <1>2, <1>3, AcceptedSame DEF Compiled
<1>5. last = [at |-> 0, holds |-> TRUE]
  BY <1>1 DEF FollowsInv, Running
<1> QED BY <1>1, <1>4, <1>5 DEF FollowsInv

(* The blocks emitted are mapped to the body. *)
LEMMA GenerateFollows == FollowsInv /\ Generate => FollowsInv'
<1> SUFFICES ASSUME FollowsInv, Generate PROVE FollowsInv'
  OBVIOUS
<1>1. IInv /\ IInv' /\ prog' = prog /\ last' = last /\ status = "checked"
  BY GenerateInv DEF FollowsInv, Generate
<1>2. last = [at |-> 0, holds |-> TRUE] /\ Accepted
  BY <1>1 DEF FollowsInv, Running
<1>3. Accepted'
  BY <1>1, <1>2, AcceptedSame
<1>4. CASE status' = "panicked"
  BY <1>1, <1>2, <1>4 DEF FollowsInv, Compiled
<1>5. CASE status' = "emitted" /\ code' = Emitted.code
  <2>1. PICK o : CodeMaps(prog, o, Emitted.code)
    BY <1>1, EmittedMaps DEF IInv
  <2>2. Mapped(o)'
    BY <2>1, <1>1, <1>5 DEF Mapped
  <2>3. \E o1 : Mapped(o1)'
    BY <2>2
  <2> QED BY <2>3, <1>1, <1>2, <1>3 DEF FollowsInv
<1> QED BY <1>4, <1>5 DEF Generate

(* The function starts at its entry, Python at the first token.             *)
LEMMA LinkFollows == FollowsInv /\ Link => FollowsInv'
<1> SUFFICES ASSUME FollowsInv, Link PROVE FollowsInv'
  OBVIOUS
<1>1. /\ IInv /\ IInv' /\ status = "emitted" /\ status' \in {"go", "refused"}
      /\ prog' = prog /\ last' = last /\ code' = code /\ pc' = pc
  BY LinkInv DEF FollowsInv, Link
<1>2. last = [at |-> 0, holds |-> TRUE] /\ Accepted /\ pc.block = Entry /\ pc.at = 1
  BY <1>1 DEF FollowsInv, IInv, Running, Compiled
<1>3. Accepted'
  BY <1>1, <1>2, AcceptedSame
<1>4. PICK o : CodeMaps(prog, o, code)
  BY <1>1 DEF FollowsInv, Compiled, Mapped
<1>5. Python!After = 1
  BY <1>2 DEF Python!After
<1>6. OnCourse(o)
  <2>1. prog \in Programs /\ Len(prog) \in Nat
    BY <1>1, ProgIs DEF IInv
  <2>2. 1 \in 1 .. Len(prog) + 1
    BY <2>1
  <2>3. ~ Blind(prog, 1)
    BY <2>1, <2>2, BlindIs
  <2>4. Place(prog, o, pc.block, code[pc.block], pc.at) = 1
    BY <1>2 DEF Place, Where, Entry
  <2> QED BY <1>5, <2>2, <2>3, <2>4 DEF OnCourse, Python!At
<1>7. Mapped(o)'
  <2>1. OnCourse(o)'
    BY <1>1, <1>6 DEF OnCourse, Python!At, Python!After, Python!Op
  <2> QED BY <2>1, <1>1, <1>4 DEF Mapped
<1>8. \E o1 : Mapped(o1)'
  BY <1>7
<1> QED BY <1>1, <1>2, <1>3, <1>8 DEF FollowsInv

(* A step leads to the place in the text Python comes to. *)
LEMMA CourseKeeps ==
  ASSUME FollowsInv, status = "go", NEW o, Mapped(o), Run,
         prog' = prog, code' = code,
         status' = "go" => Python!After' \in 1 .. Len(prog) + 1 /\ ~ Blind(prog, Python!After'),
         status' = "go" =>
           Python!Settle(prog)[Place(prog, o, pc'.block, code[pc'.block], pc'.at)]
             = Python!Settle(prog)[Python!After'],
         status' \in Running
  PROVE  FollowsInv'
<1>1. IInv'
  BY RunInv DEF FollowsInv
<1>2. Accepted'
  BY AcceptedSame DEF FollowsInv, Compiled
<1>3. Mapped(o)'
  <2>1. status' = "go" => OnCourse(o)'
    BY DEF OnCourse, Python!At
  <2> QED BY <2>1 DEF Mapped
<1>4. \E o1 : Mapped(o1)'
  BY <1>3
<1> QED BY <1>1, <1>2, <1>4 DEF FollowsInv, Running, Compiled

(* A statement without a jump leads to the next token.                      *)
LEMMA PlainFollows ==
  ASSUME FollowsInv, status = "go", Run, Now.op \in Stmts \ {"if", "while", "return"},
         GoOn, Advance(TRUE), prog' = prog, code' = code, status' = status
  PROVE  FollowsInv'
<1> DEFINE k == Now.k
<1>1. PICK o : Mapped(o)
  BY DEF FollowsInv, Compiled
<1>2. /\ k \in 1 .. Len(prog) /\ Now.op = prog[k].op /\ Len(prog) \in Nat
      /\ prog \in Programs
  <2>1. Now.op # "br" /\ prog \in Programs
    BY DEF Stmts, FollowsInv, IInv
  <2> QED BY <2>1, <1>1, NowAt, ProgIs
<1>3. pc' = [pc EXCEPT !.at = @ + 1] /\ last' = [at |-> k, holds |-> TRUE]
  BY DEF GoOn, Advance
<1> HIDE DEF k
<1>4. Python!After' = k + 1
  BY <1>3 DEF Python!After
<1>5. k + 1 \in 1 .. Len(prog) + 1 /\ ~ Blind(prog, k + 1)
  BY <1>2, AfterStatement
<1>6. Place(prog, o, pc'.block, code[pc'.block], pc'.at) = k + 1
  <2>1. pc'.block = pc.block /\ pc'.at = pc.at + 1 /\ pc.at \in Nat \ {0}
    <3>1. pc = [block |-> pc.block, at |-> pc.at] /\ pc.at \in 1 .. Len(code[pc.block])
      BY DEF FollowsInv, IInv, Running
    <3> QED BY <1>3, <3>1
  <2>2. pc.at + 1 # 1 /\ (pc.at + 1) - 1 = pc.at
    BY <2>1
  <2> QED BY <2>1, <2>2 DEF Place, Now, k
<1> QED BY <1>1, <1>4, <1>5, <1>6, CourseKeeps DEF Running

(* A test leads where Python's condition does. *)
LEMMA TestFollows ==
  ASSUME FollowsInv, Test
  PROVE  FollowsInv'
<1> DEFINE k == Now.k
<1>0. /\ status = "go" /\ Now.op \in {"if", "while"} /\ prog \in Programs
      /\ prog' = prog /\ code' = code /\ status' = status /\ Run
  BY DEF Test, Executes, Reaches, Run, FollowsInv, IInv
<1>1. PICK o : Mapped(o)
  BY <1>0 DEF FollowsInv, Compiled
<1>2. PICK b \in BOOLEAN : Advance(b) /\ GoTo(Now.to[IF b THEN 1 ELSE 2])
  BY DEF Test
<1>3. /\ k \in 1 .. Len(prog) /\ Now.op = prog[k].op /\ Len(prog) \in Nat
      /\ Where(prog, o, Now.to[1]) = k + 1
      /\ Where(prog, o, Now.to[2]) =
           Python!Part(prog, k, IF Now.op = "if" THEN "else" ELSE "end") + 1
  BY <1>0, <1>1, NowAt, ProgIs
<1>4. last' = [at |-> k, holds |-> b]
      /\ pc' = [block |-> Now.to[IF b THEN 1 ELSE 2], at |-> 1]
  BY <1>2 DEF Advance, GoTo
<1> HIDE DEF k
<1> DEFINE r == IF b THEN k + 1
                ELSE Python!Part(prog, k, IF Now.op = "if" THEN "else" ELSE "end") + 1
<1>5. Python!After' = r
  BY <1>0, <1>3, <1>4 DEF Python!After, Python!Op
<1>6. Place(prog, o, pc'.block, code[pc'.block], pc'.at) = r
  BY <1>3, <1>4 DEF Place
<1>7. r \in 1 .. Len(prog) + 1 /\ ~ Blind(prog, r)
  <2>1. prog[k].op \in Stmts \ {"return"} /\ Opening(prog, k)
    BY <1>0, <1>3 DEF Stmts, Opening
  <2>2. CASE b
    BY <2>1, <2>2, <1>0, <1>3, AfterStatement
  <2>3. CASE ~ b /\ Now.op = "while"
    <3>1. Python!Close(prog, k) \in k + 1 .. Len(prog)
      BY <2>1, <1>0, <1>3, CloseIs
    <3>2. r = Python!Close(prog, k) + 1
      BY <2>3 DEF Python!Close
    <3>3. ~ Blind(prog, Python!Close(prog, k) + 1)
      BY <2>1, <2>3, <1>0, <1>3, AfterStatement
    <3> HIDE DEF r
    <3> QED BY <3>1, <3>2, <3>3, <1>3
  <2>4. CASE ~ b /\ Now.op = "if"
    <3> DEFINE c == Python!Close(prog, k)
               s == Python!Part(prog, k, "else")
    <3>1. c \in k + 1 .. Len(prog)
      BY <2>1, <1>0, <1>3, CloseIs
    <3>2. s \in k + 1 .. c - 1
      BY <2>4, <1>0, <1>3, ElseIs
    <3>3. r = s + 1 /\ ~ Blind(prog, s + 1)
      BY <2>1, <2>4, <1>0, <1>3, AfterStatement
    <3> HIDE DEF r, c, s
    <3>4. s + 1 \in 1 .. Len(prog) + 1
      BY <3>1, <3>2, <1>3
    <3> QED BY <3>3, <3>4
  <2> QED BY <2>2, <2>3, <2>4, <1>0
<1> HIDE DEF r
<1> QED BY <1>0, <1>1, <1>5, <1>6, <1>7, CourseKeeps DEF Running

(* A branch does not move Python. *)
LEMMA JumpFollows ==
  ASSUME FollowsInv, Jump
  PROVE  FollowsInv'
<1>0. /\ status = "go" /\ Now.op = "br" /\ prog' = prog /\ code' = code /\ status' = status
      /\ last' = last /\ Run /\ pc' = [block |-> Now.to[1], at |-> 1]
  BY DEF Jump, Reaches, Run, GoTo
<1>1. PICK o : Mapped(o)
  BY <1>0 DEF FollowsInv, Compiled
<1>2. Python!Settle(prog)[Where(prog, o, Now.to[1])] = Python!At
  BY <1>0, <1>1, NowAt
<1>3. Python!After' = Python!After
  BY <1>0 DEF Python!After, Python!Op
<1>4. Place(prog, o, pc'.block, code[pc'.block], pc'.at) = Where(prog, o, Now.to[1])
  BY <1>0 DEF Place
<1>5. Python!After \in 1 .. Len(prog) + 1 /\ ~ Blind(prog, Python!After)
  BY <1>0, <1>1 DEF Mapped, OnCourse
<1>6. Python!At = Python!Settle(prog)[Python!After]
  BY DEF Python!At
<1> QED BY <1>0, <1>1, <1>2, <1>3, <1>4, <1>5, <1>6, CourseKeeps DEF Running

(* A function that has stopped keeps its blocks. *)
LEMMA StopFollows ==
  ASSUME FollowsInv, status = "go", Run, prog' = prog, code' = code,
         status' \in {"returned", "undefined"}
  PROVE  FollowsInv'
<1>1. PICK o : Mapped(o)
  BY DEF FollowsInv, Compiled
<1> QED BY <1>1, CourseKeeps DEF Running

(* So every instruction keeps the invariant. *)
LEMMA RunFollows == FollowsInv /\ Run => FollowsInv'
<1> SUFFICES ASSUME FollowsInv, Run PROVE FollowsInv'
  OBVIOUS
<1>1. CASE Jump
  BY <1>1, JumpFollows
<1>2. CASE Let
  BY <1>2, PlainFollows DEF Let, Executes, Reaches, Stmts
<1>3. CASE Comprehend
  BY <1>3, PlainFollows DEF Comprehend, Executes, Reaches, Stmts
<1>4. CASE LambdaValue
  BY <1>4, PlainFollows DEF LambdaValue, Executes, Reaches, Stmts
<1>5. CASE IndirectCall
  BY <1>5, PlainFollows DEF IndirectCall, Executes, Reaches, Stmts
<1>6. CASE Test
  BY <1>6, TestFollows
<1>7. CASE Return
  BY <1>7, StopFollows DEF Return, Executes, Reaches
<1>8. CASE Undefined
  BY <1>8, StopFollows DEF Undefined, Reaches
<1> QED BY <1>1, <1>2, <1>3, <1>4, <1>5, <1>6, <1>7, <1>8 DEF Run

(* And so does no step. *)
LEMMA FollowsSame == FollowsInv /\ UNCHANGED vars => FollowsInv'
<1> SUFFICES ASSUME FollowsInv, UNCHANGED vars PROVE FollowsInv'
  OBVIOUS
<1>1. /\ prog' = prog /\ status' = status /\ code' = code /\ pc' = pc /\ last' = last
      /\ slots' = slots
  BY DEF vars
<1>2. IInv'
  BY <1>1 DEF FollowsInv, IInv, JumpsInLoop, InLoop, Op, CodeOK, Block, Ins, Ended
<1>3. Accepted' <=> Accepted
  BY <1>1, AcceptedSame
<1>4. \A o : Mapped(o)' <=> Mapped(o)
  BY <1>1 DEF Mapped, OnCourse, Python!At, Python!After, Python!Op
<1> QED BY <1>1, <1>2, <1>3, <1>4 DEF FollowsInv

-----------------------------------------------------------------------------
(* Each instruction is Python's step. *)

(* What an instruction loads is bound in Python if its slots are written.   *)
LEMMA LoadsAre ==
  ASSUME FollowsInv, status = "go", Now.op \in Stmts
  PROVE  LET k == Now.k
         IN  /\ prog \in Programs /\ k \in 1 .. Len(prog) /\ k # 0 /\ k <= Len(prog)
             /\ Python!At = k /\ Now.op = prog[k].op /\ Python!Op(k) = prog[k].op
             /\ k \in DOMAIN prog /\ NamesKnown(k) /\ Flow = "go"
             /\ Python!Reads(k) = Loads
             /\ Loads \subseteq Assigned \cup DOMAIN Params
             /\ DOMAIN Locals = DOMAIN slots \cap (Assigned \cup DOMAIN Params)
             /\ Loads \subseteq DOMAIN slots <=> Loads \subseteq DOMAIN Locals
<1> DEFINE k == Now.k
<1>1. PICK o : Mapped(o)
  BY DEF FollowsInv, Compiled
<1>2. /\ k \in 1 .. Len(prog) /\ Python!At = k /\ Now.op = prog[k].op /\ NamesKnown(k)
      /\ prog \in Programs /\ k \in DOMAIN prog /\ Len(prog) \in Nat
  <2>1. Now.op # "br" /\ prog \in Programs
    BY DEF Stmts, FollowsInv, IInv
  <2> QED BY <2>1, <1>1, NowAt, ProgIs
<1>3. /\ Python!Reads(k) = IF prog[k].op = "lambda" THEN ToSet(Fields(k)) ELSE prog[k].reads
      /\ Python!Reads(k) \subseteq Assigned \cup DOMAIN Params
  BY <1>2, ReadsAre
<1>4. Loads = Python!Reads(k)
  BY <1>2, <1>3 DEF Loads
<1>5. DOMAIN Locals = DOMAIN slots \cap (Assigned \cup DOMAIN Params)
  BY DEF Locals
<1>6. Python!Op(k) = prog[k].op /\ Flow = "go"
  BY DEF Python!Op, Flow
<1>7. k # 0 /\ k <= Len(prog)
  BY <1>2
<1> QED BY <1>2, <1>3, <1>4, <1>5, <1>6, <1>7

(* A value that is not a callable is bound. *)
LEMMA BindStep ==
  ASSUME FollowsInv, status = "go", Now.op \in {"let", "aug", "comp"},
         Loads \subseteq DOMAIN slots, NEW s, LocalsOf(s) = LocalsOf(slots),
         slots' = With(s, prog[Now.k].x, Word(Now.k)),
         Advance(TRUE), prog' = prog, out' = out, status' = status
  PROVE  Python!Bind(Python!At)
<1> DEFINE k == Now.k
           x == prog[k].x
           v == Word(k)
<1>1. /\ prog \in Programs /\ k \in 1 .. Len(prog) /\ k # 0 /\ k <= Len(prog)
      /\ Python!At = k /\ Now.op = prog[k].op /\ Python!Op(k) = prog[k].op
      /\ k \in DOMAIN prog /\ Flow = "go" /\ Python!Reads(k) \subseteq DOMAIN Locals
  BY LoadsAre DEF Stmts
<1>2. Python!Reaches(k, {"let", "aug", "comp"})
  BY <1>1 DEF Python!Reaches, Python!Executes
<1>3. x \in Assigned
  BY <1>1 DEF Assigned, Op
<1>4. Taken(v) = Python!Nothing /\ v.at = k
  <2>1. v.at = k
    BY DEF Word
  <2> HIDE DEF v
  <2> QED BY <2>1, <1>1, TakenNothing
<1>5. Python!Plain(k) = [at |-> v.at, env |-> Taken(v)]
  BY <1>4 DEF Python!Plain
<1>6. Python!Bound(x, Python!Plain(k))
  <2>1. Locals' = LocalsOf(With(s, x, v))
    BY LocalsNext
  <2> HIDE DEF x, v
  <2> DEFINE w == [at |-> v.at, env |-> Taken(v)]
  <2>2. Rebinds(LocalsOf(With(s, x, v)), LocalsOf(s), x, w)
    BY <1>3, LocalsStore
  <2>3. LocalsOf(s) = Locals
    BY LocalsAre
  <2> HIDE DEF w
  <2>4. Rebinds(Locals', Locals, x, Python!Plain(k))
    <3>1. w = Python!Plain(k)
      BY <1>5 DEF w
    <3> QED BY <2>1, <2>2, <2>3, <3>1
  <2> QED BY <2>4 DEF Rebinds, Python!Bound
<1>7. Python!Passed(k, TRUE)
  BY DEF Advance, Python!Passed
<1>8. Flow' = Flow
  BY DEF Flow
<1> QED BY <1>1, <1>2, <1>6, <1>7, <1>8 DEF Python!Bind

(* An assignment binds its name, and an augmented one does. *)
LEMMA LetStep == FollowsInv /\ Let => Python!Bind(Python!At)
BY BindStep DEF Let, Executes, Reaches, Store

(* A comprehension does, its generator variable being no name of Python's.  *)
LEMMA ComprehendStep ==
  FollowsInv /\ Comprehend /\ ~ SharesGenerator => Python!Bind(Python!At)
<1> SUFFICES ASSUME FollowsInv, Comprehend, ~ SharesGenerator PROVE Python!Bind(Python!At)
  OBVIOUS
<1> DEFINE g == prog[Now.k].g
<1>1. /\ status = "go" /\ Now.op = "comp" /\ Loads \subseteq DOMAIN slots
      /\ Advance(TRUE) /\ prog' = prog /\ out' = out /\ status' = status
  BY DEF Comprehend, Executes, Reaches
<1>2. PICK s \in {slots, With(slots, g, Word(Now.k))} :
        slots' = With(s, prog[Now.k].x, Word(Now.k))
  BY DEF Comprehend
<1>3. g \notin Assigned \cup DOMAIN Params
  <2>1. Now.k \in DOMAIN prog /\ Op(Now.k) = "comp"
    BY <1>1, LoadsAre DEF Stmts, Op
  <2> QED BY <2>1 DEF SharesGenerator
<1>4. LocalsOf(s) = LocalsOf(slots)
  <2> HIDE DEF g
  <2> QED BY <1>2, <1>3, LocalsHidden
<1> QED BY <1>1, <1>2, <1>4, BindStep

(* A callable takes what its names are bound to. *)
LEMMA LambdaStep == FollowsInv /\ LambdaValue => Python!MakeCallable(Python!At)
<1> SUFFICES ASSUME FollowsInv, LambdaValue PROVE Python!MakeCallable(Python!At)
  OBVIOUS
<1> DEFINE k == Now.k
           x == prog[k].x
           e == [i \in DOMAIN Fields(k) |-> slots[Fields(k)[i]].at]
           v == [at |-> k, env |-> e]
<1>0. /\ status = "go" /\ Now.op = "lambda" /\ Loads \subseteq DOMAIN slots
      /\ slots' = With(slots, x, v)
      /\ Advance(TRUE) /\ prog' = prog /\ out' = out /\ status' = status
  BY DEF LambdaValue, Executes, Reaches, Store
<1>1. /\ prog \in Programs /\ k \in 1 .. Len(prog) /\ k # 0 /\ k <= Len(prog)
      /\ Python!At = k /\ Now.op = prog[k].op /\ Python!Op(k) = prog[k].op
      /\ k \in DOMAIN prog /\ Flow = "go" /\ Python!Reads(k) = Loads
      /\ Loads \subseteq DOMAIN Locals
  BY <1>0, LoadsAre DEF Stmts
<1>2. Python!Reaches(k, {"lambda"})
  BY <1>0, <1>1 DEF Python!Reaches, Python!Executes
<1>3. x \in Assigned
  BY <1>0, <1>1 DEF Assigned, Op
<1>4. Loads = ToSet(Fields(k))
  BY <1>0 DEF Loads
<1>5. v.at = k /\ v.env = e
  OBVIOUS
<1>6. DOMAIN e = DOMAIN Fields(k) /\ \A i \in DOMAIN Fields(k) : e[i] = slots[Fields(k)[i]].at
  OBVIOUS
<1> HIDE DEF v, e, k
<1>7. Taken(v) = [n \in Loads |-> Locals[n].at]
  <2>1. IsCallable(v)
    BY <1>0, <1>1, <1>5 DEF IsCallable, Op
  <2>2. ASSUME NEW n \in Loads PROVE EnvVar(v, n) = Locals[n].at
    <3> DEFINE i == CHOOSE j \in DOMAIN v.env : Fields(v.at)[j] = n
    <3>1. \E j \in DOMAIN v.env : Fields(v.at)[j] = n
      BY <1>4, <1>5, <1>6 DEF ToSet
    <3>2. i \in DOMAIN v.env /\ Fields(v.at)[i] = n
      BY <3>1
    <3>3. EnvVar(v, n) = v.env[i]
      BY DEF EnvVar
    <3> HIDE DEF i
    <3>4. EnvVar(v, n) = slots[n].at
      BY <3>2, <3>3, <1>5, <1>6
    <3>5. Locals[n].at = slots[n].at
      <4>1. n \in DOMAIN slots \cap (Assigned \cup DOMAIN Params)
        BY <1>1 DEF Locals
      <4> QED BY <4>1 DEF Locals
    <3> QED BY <3>4, <3>5
  <2>3. Taken(v) = [n \in Loads |-> EnvVar(v, n)]
    BY <2>1, <1>4, <1>5 DEF Taken
  <2> QED BY <2>2, <2>3
<1>8. Python!Bound(x, [at |-> k, env |-> [n \in Python!Reads(k) |-> Locals[n].at]])
  <2>1. Locals' = LocalsOf(With(slots, x, v))
    BY <1>0, LocalsNext
  <2> HIDE DEF x
  <2> DEFINE w == [at |-> v.at, env |-> Taken(v)]
  <2>2. Rebinds(LocalsOf(With(slots, x, v)), LocalsOf(slots), x, w)
    BY <1>3, LocalsStore
  <2>3. LocalsOf(slots) = Locals
    BY LocalsAre
  <2>5. w = [at |-> k, env |-> [n \in Python!Reads(k) |-> Locals[n].at]]
    BY <1>1, <1>5, <1>7
  <2> HIDE DEF w
  <2>4. Rebinds(Locals', Locals, x, w)
    BY <2>1, <2>2, <2>3
  <2> QED BY <2>4, <2>5 DEF Rebinds, Python!Bound
<1>9. Python!Passed(k, TRUE)
  BY <1>0 DEF Advance, Python!Passed, k
<1>10. Flow' = Flow
  BY <1>0 DEF Flow
<1> QED BY <1>0, <1>1, <1>2, <1>8, <1>9, <1>10 DEF Python!MakeCallable

(* A callable reads what it took, by the index of the field.                *)
LEMMA CallStep == FollowsInv /\ IndirectCall => Python!CallIt(Python!At)
<1> SUFFICES ASSUME FollowsInv, IndirectCall PROVE Python!CallIt(Python!At)
  OBVIOUS
<1> DEFINE k == Now.k
           x == prog[k].x
<1>0. /\ status = "go" /\ Now.op = "call" /\ Loads \subseteq DOMAIN slots
      /\ slots' = slots /\ out' = Taken(slots[x])
      /\ Advance(TRUE) /\ prog' = prog /\ status' = status
  BY DEF IndirectCall, Executes, Reaches
<1>1. /\ prog \in Programs /\ k \in 1 .. Len(prog) /\ k # 0 /\ k <= Len(prog)
      /\ Python!At = k /\ Now.op = prog[k].op /\ Python!Op(k) = prog[k].op
      /\ k \in DOMAIN prog /\ Flow = "go" /\ Python!Reads(k) = Loads
      /\ Loads \subseteq DOMAIN Locals
  BY <1>0, LoadsAre DEF Stmts
<1>2. Python!Reaches(k, {"call"})
  BY <1>0, <1>1 DEF Python!Reaches, Python!Executes
<1>3. Loads = {x}
  <2>1. prog[k].reads = {x}
    BY <1>0, <1>1, ProgramsAssumption
  <2> QED BY <2>1, <1>0 DEF Loads
<1>4. Locals[x].env = Taken(slots[x])
  <2>1. x \in DOMAIN slots \cap (Assigned \cup DOMAIN Params)
    BY <1>1, <1>3 DEF Locals
  <2> HIDE DEF x
  <2> QED BY <2>1 DEF Locals
<1>5. Locals' = Locals
  BY <1>0, LocalsNext, LocalsAre
<1>6. Python!Passed(k, TRUE)
  BY <1>0 DEF Advance, Python!Passed
<1>7. Flow' = Flow
  BY <1>0 DEF Flow
<1> HIDE DEF k
<1> QED BY <1>0, <1>1, <1>2, <1>4, <1>5, <1>6, <1>7 DEF Python!CallIt

(* A condition goes either way. *)
LEMMA DecideStep == FollowsInv /\ Test => Python!Decide(Python!At)
<1> SUFFICES ASSUME FollowsInv, Test PROVE Python!Decide(Python!At)
  OBVIOUS
<1> DEFINE k == Now.k
<1>0. /\ status = "go" /\ Now.op \in {"if", "while"} /\ Loads \subseteq DOMAIN slots
      /\ slots' = slots /\ out' = out /\ prog' = prog /\ status' = status
  BY DEF Test, Executes, Reaches
<1>1. /\ k <= Len(prog) /\ Python!At = k /\ Now.op = prog[k].op /\ Python!Op(k) = prog[k].op
      /\ Flow = "go" /\ Python!Reads(k) \subseteq DOMAIN Locals
  BY <1>0, LoadsAre DEF Stmts
<1>2. Python!Reaches(k, {"if", "while"})
  BY <1>0, <1>1 DEF Python!Reaches, Python!Executes
<1>3. \E b \in BOOLEAN : Python!Passed(k, b)
  BY DEF Test, Advance, Python!Passed
<1>4. Locals' = Locals /\ Flow' = Flow
  <2>1. Locals' = Locals
    BY <1>0, LocalsNext, LocalsAre
  <2>2. Flow' = Flow
    BY <1>0 DEF Flow
  <2> QED BY <2>1, <2>2
<1> QED BY <1>0, <1>1, <1>2, <1>3, <1>4 DEF Python!Decide

(* A return is a return. *)
LEMMA ReturnStep == FollowsInv /\ Return => Python!Return(Python!At)
<1> SUFFICES ASSUME FollowsInv, Return PROVE Python!Return(Python!At)
  OBVIOUS
<1> DEFINE k == Now.k
<1>0. /\ status = "go" /\ Now.op = "return" /\ Loads \subseteq DOMAIN slots
      /\ slots' = slots /\ out' = out /\ prog' = prog /\ status' = "returned" /\ Advance(TRUE)
  BY DEF Return, Executes, Reaches
<1>1. /\ k <= Len(prog) /\ Python!At = k /\ Now.op = prog[k].op /\ Python!Op(k) = prog[k].op
      /\ Flow = "go" /\ Python!Reads(k) \subseteq DOMAIN Locals
  BY <1>0, LoadsAre DEF Stmts
<1>2. Python!Reaches(k, {"return"})
  BY <1>0, <1>1 DEF Python!Reaches, Python!Executes
<1>3. Python!Passed(k, TRUE)
  BY <1>0 DEF Advance, Python!Passed
<1>4. Locals' = Locals
  BY <1>0, LocalsNext, LocalsAre
<1>5. Flow' = "returned"
  BY <1>0 DEF Flow
<1> QED BY <1>0, <1>1, <1>2, <1>3, <1>4, <1>5 DEF Python!Return

(* A slot never written is read where Python raises; unreachable never is.  *)
LEMMA RaiseStep == FollowsInv /\ Undefined => Python!Raise(Python!At)
<1> SUFFICES ASSUME FollowsInv, Undefined PROVE Python!Raise(Python!At)
  OBVIOUS
<1> DEFINE k == Now.k
<1>0. /\ status = "go" /\ Now.op \in Stmts \cup {"unreachable"}
      /\ slots' = slots /\ out' = out /\ prog' = prog /\ status' = "undefined" /\ Advance(TRUE)
      /\ Now.op # "unreachable" => ~ Loads \subseteq DOMAIN slots
  BY DEF Undefined, Reaches, Stmts
<1>1. Now.op \in Stmts /\ Now.op # "unreachable"
  <2>1. PICK o : Mapped(o)
    BY <1>0 DEF FollowsInv, Compiled
  <2>2. Now.op # "br"
    BY <1>0 DEF Stmts
  <2>3. Now.op \in Stmts
    BY <2>1, <2>2, <1>0, NowAt
  <2> QED BY <2>3 DEF Stmts
<1>2. /\ k <= Len(prog) /\ Python!At = k /\ Now.op = prog[k].op /\ Python!Op(k) = prog[k].op
      /\ Flow = "go" /\ ~ Python!Reads(k) \subseteq DOMAIN Locals
  BY <1>0, <1>1, LoadsAre
<1>3. Python!Executes(k, {"let", "aug", "comp", "lambda", "call", "if", "while", "return"})
  BY <1>1, <1>2 DEF Python!Executes, Stmts
<1>4. Python!Passed(k, TRUE)
  BY <1>0 DEF Advance, Python!Passed
<1>5. Locals' = Locals
  BY <1>0, LocalsNext, LocalsAre
<1>6. Flow' = "raised"
  BY <1>0 DEF Flow
<1> QED BY <1>0, <1>2, <1>3, <1>4, <1>5, <1>6 DEF Python!Raise

(* The rest is not Python's. *)
LEMMA SilentStep ==
  Check \/ Generate \/ Link \/ Jump \/ UNCHANGED vars => UNCHANGED Python!pyVars
<1> SUFFICES ASSUME Check \/ Generate \/ Link \/ Jump \/ UNCHANGED vars
             PROVE  UNCHANGED Python!pyVars
  OBVIOUS
<1>1. prog' = prog /\ slots' = slots /\ last' = last /\ out' = out
  BY DEF Check, Generate, Link, Jump, vars
<1>2. Flow' = Flow
  BY DEF Check, Generate, Link, Jump, vars, Reaches, Flow
<1>3. Locals' = Locals
  BY <1>1, LocalsNext, LocalsAre
<1> QED BY <1>1, <1>2, <1>3 DEF Python!pyVars

(* Python starts with its parameters bound. *)
LEMMA InitStep == Init => Python!Init
<1> SUFFICES ASSUME Init PROVE Python!Init
  OBVIOUS
<1>1. /\ DOMAIN slots = DOMAIN Params /\ \A n \in DOMAIN Params : slots[n] = Word(0)
      /\ status = "source" /\ out = Python!Nothing /\ last = [at |-> 0, holds |-> TRUE]
  BY DEF Init
<1>2. Taken(Word(0)) = Python!Nothing /\ Word(0).at = 0
  <2>1. Word(0).at = 0
    BY DEF Word
  <2> QED BY <2>1, TakenNothing
<1>3. Locals = [n \in DOMAIN Params |-> Python!Plain(0)]
  <2>1. DOMAIN slots \cap (Assigned \cup DOMAIN Params) = DOMAIN Params
    BY <1>1
  <2>2. \A n \in DOMAIN Params :
          [at |-> slots[n].at, env |-> Taken(slots[n])] = Python!Plain(0)
    BY <1>1, <1>2 DEF Python!Plain
  <2> QED BY <2>1, <2>2 DEF Locals
<1>4. Flow = "go"
  BY <1>1 DEF Flow
<1> QED BY <1>1, <1>3, <1>4 DEF Python!Init

(* Every step is Python's or none, but for a generator variable shared.     *)
LEMMA NextStep ==
  FollowsInv /\ [Next]_vars => [~ SharesGenerator => Python!Next]_(Python!pyVars)
<1> SUFFICES ASSUME FollowsInv, [Next]_vars
             PROVE  (~ SharesGenerator => Python!Next) \/ UNCHANGED Python!pyVars
  OBVIOUS
<1>1. CASE Check \/ Generate \/ Link \/ Jump \/ UNCHANGED vars
  BY <1>1, SilentStep
<1>2. CASE Let
  BY <1>2, LetStep DEF Python!Next
<1>3. CASE Comprehend
  BY <1>3, ComprehendStep DEF Python!Next
<1>4. CASE LambdaValue
  BY <1>4, LambdaStep DEF Python!Next
<1>5. CASE IndirectCall
  BY <1>5, CallStep DEF Python!Next
<1>6. CASE Test
  BY <1>6, DecideStep DEF Python!Next
<1>7. CASE Return
  BY <1>7, ReturnStep DEF Python!Next
<1>8. CASE Undefined
  BY <1>8, RaiseStep DEF Python!Next
<1> QED BY <1>1, <1>2, <1>3, <1>4, <1>5, <1>6, <1>7, <1>8 DEF Next, Run

(* Whatever the body, the blocks of a function that is compiled do what     *)
(* Python does: the same statements in the same order, and every name read  *)
(* is bound to what Python has bound it to.                                 *)
THEOREM FramesImplementPython == Spec => ImplementsPyFrame
<1>1. Init => FollowsInv /\ Python!Init
  BY InitFollows, InitStep
<1>2. FollowsInv /\ [Next]_vars => FollowsInv'
  BY CheckFollows, GenerateFollows, LinkFollows, RunFollows, FollowsSame DEF Next
<1>3. FollowsInv /\ [Next]_vars => [~ SharesGenerator => Python!Next]_(Python!pyVars)
  BY NextStep
<1> QED BY <1>1, <1>2, <1>3, PTL DEF Spec, ImplementsPyFrame
=============================================================================
