--------------------------- MODULE VerdictProofs ----------------------------
(***************************************************************************)
(* What the two verdicts tell: the compiler's on a program and its files,  *)
(* and the bench's on the tests and the benchmarks.                        *)
(*                                                                         *)
(* Whatever files a program has and however they import one another: the   *)
(* activations of lower_module_into keep their shape, an accepted program  *)
(* has one definition for each function it calls, its calls reach what     *)
(* Python's reach, and what Python runs is accepted.                       *)
(*                                                                         *)
(* For every number of tests, benchmarks and workers, the exit code tells  *)
(* whether something went wrong.  The invariant says of each test and each *)
(* benchmark that its record tells what happened (TestRecords,             *)
(* BenchRecords), and of the pillars that the second begins when the first *)
(* is over (Pillars, ExitLast).                                            *)
(***************************************************************************)
EXTENDS Loader, Bench, SequenceTheorems, TLAPS

Phases == {"classes", "names", "verify", "bodies"}

Act == [file : DOMAIN prog, phase : Phases, at : Nat \ {0}, defs : Seq(Nat)]

(* One activation, l being the files begun.  Before the bodies, defs holds  *)
(* function statements that have been passed, each once; from then on at    *)
(* is an index into it.                                                     *)
ActOK(a, l) ==
  /\ a.file \in l
  /\ a.at <= Len(prog[a.file]) + 1
  /\ a.phase = "classes" => a.defs = <<>>
  /\ a.phase = "verify" => a.at <= Len(prog[a.file])
  /\ a.phase = "bodies" => /\ Len(a.defs) <= Len(prog[a.file])
                           /\ a.at <= Len(a.defs) + 1
  /\ a.phase # "bodies" => Len(a.defs) < a.at
  /\ \A i \in DOMAIN a.defs :
       /\ a.defs[i] \in DOMAIN prog[a.file]
       /\ prog[a.file][a.defs[i]].op = "def"
       /\ a.phase # "bodies" => a.defs[i] < a.at
  /\ \A i, j \in DOMAIN a.defs : a.defs[i] = a.defs[j] => i = j

(* The stack s: all but the innermost activation wait for an import, and no *)
(* file is on it twice.                                                     *)
Shape(s, l) ==
  /\ s \in Seq(Act)
  /\ \A j \in 1 .. Len(s) : ActOK(s[j], l)
  /\ \A j \in 1 .. Len(s) : j < Len(s) => s[j].phase = "verify"
  /\ \A j, k \in 1 .. Len(s) : s[j].file = s[k].file => j = k

FilesOK ==
  /\ \A f \in DOMAIN prog : prog[f] \in Seq(ToSet(prog[f]))
  /\ loaded \subseteq DOMAIN prog

(* The tables hold definitions under their own names.                       *)
TableOK(table, op) ==
  \A n \in DOMAIN table :
    /\ table[n] \in Definitions
    /\ Named(table[n]).name = n
    /\ Named(table[n]).op = op

TablesOK == TableOK(signatures, "def") /\ TableOK(registry, "class")

(* The definition d is of a file that is not on the stack s any more, or    *)
(* whose activation has passed it.                                          *)
Past(d, s) ==
  \A j \in 1 .. Len(s) : s[j].file = d[1] =>
    /\ s[j].phase = "bodies"
    /\ \E i \in DOMAIN s[j].defs : i < s[j].at /\ s[j].defs[i] = d[2]

(* The definition d is still before an activation on the stack s.           *)
Waits(d, s) ==
  \E j \in 1 .. Len(s) :
    /\ s[j].file = d[1]
    /\ \E i \in DOMAIN s[j].defs :
         /\ s[j].defs[i] = d[2]
         /\ s[j].phase = "bodies" => s[j].at <= i

Signed == {signatures[n] : n \in DOMAIN signatures}

(* Every definition the stack s has collected is one of D. *)
Collects(s, D) ==
  \A j \in 1 .. Len(s) : \A i \in DOMAIN s[j].defs :
    <<s[j].file, s[j].defs[i]>> \in D

Lowered(d) == \E k \in 1 .. Len(emitted) : emitted[k].def = d

(* What has been lowered has a signature, and so has every function called  *)
(* from it; it is lowered once, because its activation has passed it.       *)
EmittedOK ==
  /\ emitted \in Seq(ToSet(emitted))
  /\ \A k \in 1 .. Len(emitted) :
       /\ emitted[k].def \in Signed
       /\ emitted[k].def[1] \in loaded
       /\ Past(emitted[k].def, stack)
       /\ \A c \in DOMAIN emitted[k].calls :
            LET d == emitted[k].calls[c]
            IN  d \in Definitions /\ Named(d).op = "def" => d \in Signed
  /\ \A j, k \in 1 .. Len(emitted) : emitted[j].def = emitted[k].def => j = k

(* What has a signature is lowered, or its activation will lower it.        *)
NoneForgotten ==
  \A n \in DOMAIN signatures :
    Lowered(signatures[n]) \/ Waits(signatures[n], stack)

VerdictOK ==
  /\ verdict \in {"lowering", "accepted", "rejected"}
  /\ verdict = "accepted" => stack = <<>> /\ Main \in DOMAIN signatures

IInv ==
  /\ FilesOK
  /\ Shape(stack, loaded)
  /\ TablesOK
  /\ EmittedOK
  /\ NoneForgotten
  /\ Collects(stack, Signed)
  /\ VerdictOK

-----------------------------------------------------------------------------
(* Sequences: the last element replaced, removed, or one more put after it. *)
LEMMA RemoveLast ==
  ASSUME NEW S, NEW s \in Seq(S), s # <<>>
  PROVE  /\ Front(s) \in Seq(S)
         /\ Len(Front(s)) = Len(s) - 1
         /\ \A j \in 1 .. Len(s) - 1 : Front(s)[j] = s[j]
<1> DEFINE n == Len(s) - 1
<1>1. n \in Nat /\ \A j \in 1 .. n + 1 : s[j] \in S
  BY EmptySeq, ElementOfSeq
<1>2. \A j \in 1 .. n : s[j] \in S
  BY <1>1
<1> HIDE DEF n
<1>3. /\ SubSeq(s, 1, n) \in Seq(S)
      /\ Len(SubSeq(s, 1, n)) = IF 1 <= n THEN n - 1 + 1 ELSE 0
      /\ \A j \in 1 .. n - 1 + 1 : SubSeq(s, 1, n)[j] = s[1 + j - 1]
  BY <1>1, <1>2, SubSeqProperties
<1>4. Len(SubSeq(s, 1, n)) = n
  BY <1>1, <1>3
<1>5. \A j \in 1 .. n : SubSeq(s, 1, n)[j] = s[j]
  <2>1. n - 1 + 1 = n
    BY <1>1
  <2>2. \A j \in 1 .. n : 1 + j - 1 = j
    BY <1>1
  <2>3. QED  BY <1>3, <2>1, <2>2
<1>6. Front(s) = SubSeq(s, 1, n)
  BY DEF Front, n
<1>7. QED  BY <1>3, <1>4, <1>5, <1>6 DEF n

LEMMA ReplaceLast ==
  ASSUME NEW S, NEW s \in Seq(S), s # <<>>, NEW a \in S
  PROVE  /\ Front(s) \o <<a>> \in Seq(S)
         /\ Len(Front(s) \o <<a>>) = Len(s)
         /\ \A j \in 1 .. Len(s) :
              (Front(s) \o <<a>>)[j] = IF j = Len(s) THEN a ELSE s[j]
<1>1. Len(s) \in Nat \ {0} /\ \A j \in 1 .. Len(s) : s[j] \in S
  BY EmptySeq, ElementOfSeq
<1>2. /\ Front(s) \in Seq(S)
      /\ Len(Front(s)) = Len(s) - 1
      /\ \A j \in 1 .. Len(s) - 1 : Front(s)[j] = s[j]
  BY RemoveLast
<1>3. <<a>> \in Seq(S) /\ Len(<<a>>) = 1 /\ <<a>>[1] = a
  OBVIOUS
<1>4. /\ Front(s) \o <<a>> \in Seq(S)
      /\ Len(Front(s) \o <<a>>) = Len(Front(s)) + Len(<<a>>)
      /\ \A j \in 1 .. Len(Front(s)) + Len(<<a>>) :
           (Front(s) \o <<a>>)[j] = IF j <= Len(Front(s)) THEN Front(s)[j]
                                    ELSE <<a>>[j - Len(Front(s))]
  BY <1>2, <1>3, ConcatProperties
<1>5. ASSUME NEW j \in 1 .. Len(s)
      PROVE  (Front(s) \o <<a>>)[j] = IF j = Len(s) THEN a ELSE s[j]
  <2>1. CASE j = Len(s)
    BY <1>1, <1>2, <1>3, <1>4, <2>1
  <2>2. CASE j # Len(s)
    BY <1>1, <1>2, <1>3, <1>4, <2>2
  <2>3. QED  BY <2>1, <2>2
<1>6. QED  BY <1>1, <1>2, <1>3, <1>4, <1>5

LEMMA AppendOne ==
  ASSUME NEW S, NEW s \in Seq(S), NEW a \in S
  PROVE  /\ Append(s, a) \in Seq(S)
         /\ Len(Append(s, a)) = Len(s) + 1
         /\ \A j \in 1 .. Len(s) + 1 :
              Append(s, a)[j] = IF j = Len(s) + 1 THEN a ELSE s[j]
<1>1. Len(s) \in Nat
  OBVIOUS
<1>2. QED  BY <1>1

-----------------------------------------------------------------------------
(* What a step does to the stack. *)

LEMMA TopIsAct ==
  ASSUME NEW l, Shape(stack, l), stack # <<>>
  PROVE  /\ Len(stack) \in Nat \ {0}
         /\ Top = stack[Len(stack)]
         /\ Top \in Act
         /\ ActOK(Top, l)
<1>1. Len(stack) \in Nat \ {0}
  BY EmptySeq DEF Shape
<1>2. Len(stack) \in 1 .. Len(stack)
  BY <1>1
<1>3. Top = stack[Len(stack)]
  BY DEF Top, Last
<1>4. Top \in Act
  BY <1>2, <1>3, ElementOfSeq DEF Shape
<1>5. QED  BY <1>1, <1>2, <1>3, <1>4 DEF Shape

LEMMA ReplaceKeepsShape ==
  ASSUME NEW l, Shape(stack, l), stack # <<>>,
         NEW a \in Act, ActOK(a, l), a.file = Top.file
  PROVE  Shape(Replace(a), l)
<1>1. /\ Len(stack) \in Nat \ {0}
      /\ Top = stack[Len(stack)]
  BY TopIsAct
<1>2. /\ Replace(a) \in Seq(Act)
      /\ Len(Replace(a)) = Len(stack)
      /\ \A j \in 1 .. Len(stack) :
           Replace(a)[j] = IF j = Len(stack) THEN a ELSE stack[j]
  BY ReplaceLast DEF Replace, Shape
<1>3. \A j \in 1 .. Len(stack) : ActOK(Replace(a)[j], l)
  BY <1>1, <1>2 DEF Shape
<1>4. \A j \in 1 .. Len(stack) : j < Len(stack) => Replace(a)[j].phase = "verify"
  BY <1>1, <1>2 DEF Shape
<1>5. \A j \in 1 .. Len(stack) : Replace(a)[j].file = stack[j].file
  BY <1>1, <1>2
<1>6. \A j, k \in 1 .. Len(stack) :
        Replace(a)[j].file = Replace(a)[k].file => j = k
  BY <1>5 DEF Shape
<1>7. QED  BY <1>2, <1>3, <1>4, <1>6 DEF Shape

(* A step that leaves defs alone, and enters the bodies at their first, has *)
(* nothing newly passed and forgets nothing.                                *)
LEMMA ReplaceKeepsDefs ==
  ASSUME NEW l, Shape(stack, l), stack # <<>>, NEW a \in Act,
         a.file = Top.file, Top.phase # "bodies",
         \A i \in DOMAIN Top.defs : i \in DOMAIN a.defs /\ a.defs[i] = Top.defs[i],
         a.phase = "bodies" => a.at = 1,
         NEW d
  PROVE  /\ Past(d, stack) => Past(d, Replace(a))
         /\ Waits(d, stack) => Waits(d, Replace(a))
<1>1. /\ Len(stack) \in Nat \ {0}
      /\ Top = stack[Len(stack)]
      /\ Top \in Act
  BY TopIsAct
<1>2. /\ Len(Replace(a)) = Len(stack)
      /\ \A j \in 1 .. Len(stack) :
           Replace(a)[j] = IF j = Len(stack) THEN a ELSE stack[j]
  BY ReplaceLast DEF Replace, Shape
<1>3. Past(d, stack) => Past(d, Replace(a))
  BY <1>1, <1>2 DEF Past
<1>4. ASSUME Waits(d, stack) PROVE Waits(d, Replace(a))
  <2>1. PICK j \in 1 .. Len(stack) :
          /\ stack[j].file = d[1]
          /\ \E i \in DOMAIN stack[j].defs :
               /\ stack[j].defs[i] = d[2]
               /\ stack[j].phase = "bodies" => stack[j].at <= i
    BY <1>4 DEF Waits
  <2>2. CASE j # Len(stack)
    BY <1>1, <1>2, <2>1, <2>2 DEF Waits
  <2>3. CASE j = Len(stack)
    <3>1. PICK i \in DOMAIN Top.defs : Top.defs[i] = d[2]
      BY <1>1, <2>1, <2>3
    <3>2. i \in Nat /\ 1 <= i
      BY <1>1, <3>1 DEF Act
    <3>3. Replace(a)[j] = a /\ a.file = d[1]
      BY <1>1, <1>2, <2>1, <2>3
    <3>4. i \in DOMAIN a.defs /\ a.defs[i] = d[2] /\ (a.phase = "bodies" => a.at <= i)
      BY <3>1, <3>2
    <3>5. QED  BY <1>2, <3>3, <3>4 DEF Waits
  <2>4. QED  BY <2>2, <2>3
<1>5. QED  BY <1>3, <1>4

LEMMA ReplaceCollects ==
  ASSUME NEW l, Shape(stack, l), stack # <<>>, NEW a \in Act, NEW D, NEW E,
         Collects(stack, D), D \subseteq E,
         \A i \in DOMAIN a.defs : <<a.file, a.defs[i]>> \in E
  PROVE  Collects(Replace(a), E)
<1>1. /\ Len(Replace(a)) = Len(stack)
      /\ \A j \in 1 .. Len(stack) :
           Replace(a)[j] = IF j = Len(stack) THEN a ELSE stack[j]
  BY ReplaceLast DEF Replace, Shape
<1>2. QED  BY <1>1 DEF Collects

LEMMA PushCollects ==
  ASSUME NEW s \in Seq(Act), NEW a \in Act, a.defs = <<>>, NEW D, Collects(s, D)
  PROVE  Collects(Append(s, a), D)
<1> DEFINE t == Append(s, a)
<1>1. /\ Len(s) \in Nat /\ Len(t) = Len(s) + 1
      /\ \A j \in 1 .. Len(s) + 1 : t[j] = IF j = Len(s) + 1 THEN a ELSE s[j]
  BY AppendOne
<1> HIDE DEF t
<1>2. ASSUME NEW j \in 1 .. Len(t), NEW i \in DOMAIN t[j].defs
      PROVE  <<t[j].file, t[j].defs[i]>> \in D
  <2>1. CASE j = Len(s) + 1
    <3>1. t[j].defs = <<>>
      BY <1>1, <2>1
    <3>2. DOMAIN <<>> = {}
      OBVIOUS
    <3>3. QED  BY <1>2, <3>1, <3>2
  <2>2. CASE j # Len(s) + 1
    <3>1. j \in 1 .. Len(s) /\ t[j] = s[j]
      BY <1>1, <2>2
    <3>2. QED  BY <1>2, <3>1 DEF Collects
  <2>3. QED  BY <2>1, <2>2
<1>3. Collects(t, D)
  BY <1>2 DEF Collects
<1>4. QED  BY <1>3 DEF t

LEMMA PushKeepsShape ==
  ASSUME NEW s, NEW l, Shape(s, l), NEW f \in DOMAIN prog, f \notin l,
         prog[f] \in Seq(ToSet(prog[f])),
         s # <<>> => s[Len(s)].phase = "verify"
  PROVE  Shape(Append(s, Activation(f)), l \cup {f})
<1> DEFINE t == Append(s, Activation(f))
<1>1. Activation(f) \in Act
  <2>1. <<>> \in Seq(Nat)
    OBVIOUS
  <2>2. QED  BY <2>1 DEF Activation, Act, Phases
<1>2. /\ t \in Seq(Act)
      /\ Len(t) = Len(s) + 1
      /\ Len(s) \in Nat
      /\ \A j \in 1 .. Len(s) + 1 :
           t[j] = IF j = Len(s) + 1 THEN Activation(f) ELSE s[j]
  BY <1>1, AppendOne DEF Shape
<1>3. ActOK(Activation(f), l \cup {f})
  <2>1. Len(prog[f]) \in Nat
    OBVIOUS
  <2>2. DOMAIN <<>> = {} /\ Len(<<>>) = 0
    OBVIOUS
  <2>3. QED  BY <2>1, <2>2 DEF Activation, ActOK
<1>4. \A j \in 1 .. Len(s) : ActOK(s[j], l \cup {f})
  BY DEF Shape, ActOK
<1>5. \A j \in 1 .. Len(s) : s[j].file # f
  BY DEF Shape, ActOK
<1> HIDE DEF t
<1>6. \A j \in 1 .. Len(s) + 1 : ActOK(t[j], l \cup {f})
  <2>1. ActOK(t[Len(s) + 1], l \cup {f})
    BY <1>2, <1>3
  <2>2. \A j \in 1 .. Len(s) : t[j] = s[j]
    BY <1>2
  <2>3. ASSUME NEW j \in 1 .. Len(s) + 1 PROVE ActOK(t[j], l \cup {f})
    <3>1. CASE j = Len(s) + 1
      BY <2>1, <3>1
    <3>2. CASE j \in 1 .. Len(s)
      BY <1>4, <2>2, <3>2
    <3>3. QED  BY <1>2, <3>1, <3>2
  <2>4. QED  BY <2>3
<1>7. \A j \in 1 .. Len(s) + 1 : j < Len(s) + 1 => t[j].phase = "verify"
  <2>1. \A j \in 1 .. Len(s) : s[j].phase = "verify"
    <3>1. \A j \in 1 .. Len(s) : j # Len(s) => s[j].phase = "verify"
      BY <1>2 DEF Shape
    <3>2. \A j \in 1 .. Len(s) : s # <<>>
      BY EmptySeq
    <3>3. QED  BY <3>1, <3>2
  <2>2. QED  BY <1>2, <2>1
<1>8. \A j, k \in 1 .. Len(s) + 1 : t[j].file = t[k].file => j = k
  <2>1. Activation(f).file = f
    BY DEF Activation
  <2>2. \A j \in 1 .. Len(s) : t[j].file = s[j].file /\ s[j].file # f
    BY <1>2, <1>5
  <2>3. t[Len(s) + 1].file = f
    BY <1>2, <2>1
  <2>4. \A j, k \in 1 .. Len(s) : s[j].file = s[k].file => j = k
    BY DEF Shape
  <2>5. \A j \in 1 .. Len(s) + 1 : j = Len(s) + 1 \/ j \in 1 .. Len(s)
    BY <1>2
  <2>6. ASSUME NEW j \in 1 .. Len(s) + 1, NEW k \in 1 .. Len(s) + 1,
               t[j].file = t[k].file
        PROVE  j = k
    <3>1. CASE j = Len(s) + 1
      BY <2>2, <2>3, <2>5, <2>6, <3>1
    <3>2. CASE j \in 1 .. Len(s)
      BY <2>2, <2>3, <2>4, <2>5, <2>6, <3>2
    <3>3. QED  BY <2>5, <3>1, <3>2
  <2>7. QED  BY <2>6
<1>9. QED  BY <1>2, <1>6, <1>7, <1>8 DEF Shape, t

(* Nothing of a file that has not been begun has been lowered.              *)
LEMMA PushKeepsDefs ==
  ASSUME NEW s, NEW l, Shape(s, l), NEW f \in DOMAIN prog, f \notin l, NEW d
  PROVE  /\ Past(d, s) /\ d[1] \in l => Past(d, Append(s, Activation(f)))
         /\ Waits(d, s) => Waits(d, Append(s, Activation(f)))
<1> DEFINE t == Append(s, Activation(f))
<1>1. Activation(f) \in Act
  <2>1. <<>> \in Seq(Nat)
    OBVIOUS
  <2>2. QED  BY <2>1 DEF Activation, Act, Phases
<1>2. /\ Len(t) = Len(s) + 1
      /\ Len(s) \in Nat
      /\ \A j \in 1 .. Len(s) + 1 :
           t[j] = IF j = Len(s) + 1 THEN Activation(f) ELSE s[j]
  BY <1>1, AppendOne DEF Shape
<1>3. Activation(f).file = f
  BY DEF Activation
<1> HIDE DEF t
<1>4. Past(d, s) /\ d[1] \in l => Past(d, t)
  BY <1>2, <1>3 DEF Past
<1>5. Waits(d, s) => Waits(d, t)
  BY <1>2 DEF Waits
<1>6. QED  BY <1>4, <1>5 DEF t

LEMMA PopKeepsShape ==
  ASSUME NEW l, Shape(stack, l), stack # <<>>
  PROVE  Shape(Front(stack), l)
<1>1. /\ Front(stack) \in Seq(Act)
      /\ Len(Front(stack)) = Len(stack) - 1
      /\ Len(stack) \in Nat \ {0}
      /\ \A j \in 1 .. Len(stack) - 1 : Front(stack)[j] = stack[j]
  BY RemoveLast, TopIsAct DEF Shape
<1>2. \A j \in 1 .. Len(stack) - 1 : j \in 1 .. Len(stack) /\ j < Len(stack)
  BY <1>1
<1>3. QED  BY <1>1, <1>2 DEF Shape

(* An activation that has reached the end of its bodies has none waiting.   *)
LEMMA PopKeepsDefs ==
  ASSUME NEW l, Shape(stack, l), stack # <<>>, NEW d,
         Top.phase = "bodies", Top.at > Len(Top.defs)
  PROVE  /\ Past(d, stack) => Past(d, Front(stack))
         /\ Waits(d, stack) => Waits(d, Front(stack))
<1>1. /\ Len(Front(stack)) = Len(stack) - 1
      /\ Len(stack) \in Nat \ {0}
      /\ Top = stack[Len(stack)]
      /\ Top \in Act
      /\ \A j \in 1 .. Len(stack) - 1 : Front(stack)[j] = stack[j]
  BY RemoveLast, TopIsAct DEF Shape
<1>2. Past(d, stack) => Past(d, Front(stack))
  BY <1>1 DEF Past
<1>3. ASSUME Waits(d, stack) PROVE Waits(d, Front(stack))
  <2>1. PICK j \in 1 .. Len(stack) :
          /\ stack[j].file = d[1]
          /\ \E i \in DOMAIN stack[j].defs :
               /\ stack[j].defs[i] = d[2]
               /\ stack[j].phase = "bodies" => stack[j].at <= i
    BY <1>3 DEF Waits
  <2>2. j # Len(stack)
    <3>1. \A i \in DOMAIN Top.defs : i \in Nat /\ i <= Len(Top.defs)
      BY <1>1 DEF Act
    <3>2. Len(Top.defs) \in Nat /\ Top.at \in Nat
      BY <1>1 DEF Act
    <3>3. QED  BY <1>1, <2>1, <3>1, <3>2
  <2>3. j \in 1 .. Len(Front(stack)) /\ Front(stack)[j] = stack[j]
    BY <1>1, <2>2
  <2>4. QED  BY <2>1, <2>3 DEF Waits
<1>4. QED  BY <1>2, <1>3

-----------------------------------------------------------------------------
(* What the next state has to satisfy, when the program stays as it is.     *)
LEMMA ShapePrimed ==
  ASSUME prog' = prog, Shape(stack', loaded')
  PROVE  Shape(stack, loaded)'
BY DEF Shape, Act, ActOK

LEMMA CollectsPrimed ==
  ASSUME Collects(stack', Signed')
  PROVE  Collects(stack, Signed)'
BY DEF Collects

(* What the innermost activation has collected has a signature.             *)
LEMMA TopCollects ==
  ASSUME NEW l, Shape(stack, l), stack # <<>>, NEW D, Collects(stack, D)
  PROVE  \A i \in DOMAIN Top.defs : <<Top.file, Top.defs[i]>> \in D
<1>1. Len(stack) \in 1 .. Len(stack) /\ Top = stack[Len(stack)]
  BY TopIsAct
<1>2. QED  BY <1>1 DEF Collects

LEMMA TablesPrimed ==
  ASSUME prog' = prog, TableOK(signatures', "def"), TableOK(registry', "class")
  PROVE  TablesOK'
BY DEF TablesOK, TableOK, Definitions, Named

LEMMA TablesKept ==
  ASSUME TablesOK, UNCHANGED <<prog, signatures, registry>>
  PROVE  TablesOK'
BY TablesPrimed DEF TablesOK

LEMMA InsertKeepsTable ==
  ASSUME NEW table, NEW op, TableOK(table, op),
         NEW d \in Definitions, NEW name, Named(d).name = name, Named(d).op = op
  PROVE  TableOK(Insert(table, name, d), op)
BY DEF TableOK, Insert

(* Signatures that only grow keep what was emitted in order.                *)
LEMMA EmittedKept ==
  ASSUME EmittedOK, UNCHANGED <<prog, emitted>>, loaded \subseteq loaded',
         \A n \in DOMAIN signatures :
           n \in DOMAIN signatures' /\ signatures'[n] = signatures[n],
         \A k \in 1 .. Len(emitted) : Past(emitted[k].def, stack')
  PROVE  EmittedOK'
<1>1. Signed \subseteq Signed'
  BY DEF Signed
<1>2. Definitions' = Definitions /\ \A d : Named(d)' = Named(d)
  BY DEF Definitions, Named
<1>3. \A d : Past(d, stack') = Past(d, stack)'
  BY DEF Past
<1>4. QED  BY <1>1, <1>2, <1>3 DEF EmittedOK

LEMMA NoneForgottenKept ==
  ASSUME NoneForgotten, UNCHANGED <<emitted, signatures>>,
         \A d : Waits(d, stack) => Waits(d, stack')
  PROVE  NoneForgotten'
<1>1. \A d : Waits(d, stack') = Waits(d, stack)'
  BY DEF Waits
<1>2. \A d : Lowered(d)' = Lowered(d)
  BY DEF Lowered
<1>3. QED  BY <1>1, <1>2 DEF NoneForgotten

(* A step that moves the innermost activation on and lowers nothing.        *)
LEMMA MoveKeepsIInv ==
  ASSUME IInv, verdict = "lowering", stack # <<>>,
         NEW a \in Act, ActOK(a, loaded), a.file = Top.file,
         Top.phase # "bodies", a.defs = Top.defs,
         a.phase = "bodies" => a.at = 1,
         stack' = Replace(a), TablesOK',
         UNCHANGED <<prog, loaded, signatures, emitted, verdict>>
  PROVE  IInv'
<1>1. Shape(stack, loaded)'
  BY ReplaceKeepsShape, ShapePrimed DEF IInv
<1>2. \A d : /\ Past(d, stack) => Past(d, stack')
             /\ Waits(d, stack) => Waits(d, stack')
  BY ReplaceKeepsDefs DEF IInv
<1>3. EmittedOK'
  <2>1. \A k \in 1 .. Len(emitted) : Past(emitted[k].def, stack')
    BY <1>2 DEF IInv, EmittedOK
  <2>2. QED  BY <2>1, EmittedKept DEF IInv
<1>4. NoneForgotten'
  BY <1>2, NoneForgottenKept DEF IInv
<1>5. FilesOK' /\ VerdictOK'
  BY DEF IInv, FilesOK, VerdictOK
<1>6. Collects(stack, Signed)'
  <2>1. \A i \in DOMAIN a.defs : <<a.file, a.defs[i]>> \in Signed
    BY TopCollects DEF IInv
  <2>2. Collects(stack', Signed)
    BY <2>1, ReplaceCollects DEF IInv
  <2>3. Signed' = Signed
    BY DEF Signed
  <2>4. QED  BY <2>2, <2>3, CollectsPrimed
<1>7. QED  BY <1>1, <1>3, <1>4, <1>5, <1>6 DEF IInv

-----------------------------------------------------------------------------
(* The actions. *)

LEMMA Reading ==
  ASSUME IInv, NEW phase, NEW op, Reads(phase, op)
  PROVE  /\ verdict = "lowering" /\ stack # <<>>
         /\ Top \in Act /\ ActOK(Top, loaded)
         /\ Top.phase = phase
         /\ Body = prog[Top.file] /\ Body \in Seq(ToSet(Body))
         /\ Len(Body) \in Nat
         /\ Top.at \in DOMAIN Body /\ Top.at \in Nat
         /\ Stmt = Body[Top.at] /\ Stmt.op = op
         /\ Top.file \in DOMAIN prog
<1>1. verdict = "lowering" /\ stack # <<>> /\ Top.phase = phase
  BY DEF Reads, In
<1>2. Top \in Act /\ ActOK(Top, loaded)
  BY <1>1, TopIsAct DEF IInv
<1>3. Top.file \in DOMAIN prog /\ Top.at \in Nat \ {0}
  BY <1>2 DEF Act
<1>4. Body \in Seq(ToSet(Body)) /\ Body = prog[Top.file]
  BY <1>3 DEF IInv, FilesOK, Body
<1>5. Len(Body) \in Nat /\ DOMAIN Body = 1 .. Len(Body)
  BY <1>4
<1>6. Top.at <= Len(Body) /\ Stmt = Body[Top.at] /\ Stmt.op = op
  BY DEF Reads, Stmt
<1>7. QED  BY <1>1, <1>2, <1>3, <1>4, <1>5, <1>6

LEMMA GoingIsAct ==
  ASSUME Top \in Act, NEW p \in Phases, NEW n \in Nat \ {0}, NEW ds \in Seq(Nat)
  PROVE  /\ Going(p, n, ds) \in Act
         /\ Going(p, n, ds).file = Top.file
         /\ Going(p, n, ds).phase = p
         /\ Going(p, n, ds).at = n
         /\ Going(p, n, ds).defs = ds
BY DEF Going, Act

(* The statement is done, and the activation goes on to the next one.       *)
LEMMA Advanced ==
  ASSUME IInv, NEW phase \in {"classes", "names"}, NEW op, Reads(phase, op)
  PROVE  LET a == Going(Top.phase, Top.at + 1, Top.defs)
         IN  /\ a \in Act /\ ActOK(a, loaded)
             /\ a.file = Top.file /\ a.phase = Top.phase /\ a.defs = Top.defs
<1> DEFINE a == Going(Top.phase, Top.at + 1, Top.defs)
<1>1. /\ Top \in Act /\ ActOK(Top, loaded)
      /\ Top.phase = phase /\ Top.at \in Nat /\ Top.at <= Len(prog[Top.file])
      /\ Len(prog[Top.file]) \in Nat
  BY Reading
<1>2. /\ a \in Act
      /\ a.file = Top.file /\ a.phase = Top.phase /\ a.defs = Top.defs
      /\ a.at = Top.at + 1
  <2>1. /\ Top.phase \in Phases /\ Top.at + 1 \in Nat \ {0}
        /\ Top.defs \in Seq(Nat)
    BY <1>1 DEF Act
  <2>2. QED  BY <1>1, <2>1, GoingIsAct
<1> HIDE DEF a
<1>3. /\ Top.defs \in Seq(Nat) /\ Len(Top.defs) \in Nat
      /\ \A i \in DOMAIN Top.defs : Top.defs[i] \in Nat
  BY <1>1 DEF Act
<1>4. ActOK(a, loaded)
  BY <1>1, <1>2, <1>3 DEF ActOK
<1>5. QED  BY <1>2, <1>4 DEF a

LEMMA IsDefinition ==
  ASSUME NEW f \in DOMAIN prog, NEW k \in DOMAIN prog[f],
         prog[f][k].op \in {"def", "class"}
  PROVE  /\ <<f, k>> \in Definitions
         /\ Named(<<f, k>>) = prog[f][k]
BY DEF Definitions, Named

LEMMA RegisterClassKeeps ==
  ASSUME IInv, UNCHANGED prog, RegisterClass
  PROVE  IInv'
<1> DEFINE d == <<Top.file, Top.at>>
           a == Going(Top.phase, Top.at + 1, Top.defs)
<1>1. /\ verdict = "lowering" /\ stack # <<>> /\ Top.phase = "classes"
      /\ Top.file \in DOMAIN prog /\ Top.at \in DOMAIN prog[Top.file]
      /\ Stmt = prog[Top.file][Top.at] /\ Stmt.op = "class"
  BY Reading DEF RegisterClass
<1>2. d \in Definitions /\ Named(d) = Stmt
  BY <1>1, IsDefinition
<1>3. registry' = Insert(registry, Stmt.name, d)
  BY DEF RegisterClass
<1>4. TablesOK'
  <2>1. TableOK(registry', "class")
    BY <1>1, <1>2, <1>3, InsertKeepsTable DEF IInv, TablesOK
  <2>2. TableOK(signatures', "def")
    BY DEF RegisterClass, IInv, TablesOK
  <2>3. QED  BY <2>1, <2>2, TablesPrimed
<1>5. /\ a \in Act /\ ActOK(a, loaded)
      /\ a.file = Top.file /\ a.phase = Top.phase /\ a.defs = Top.defs
  BY Advanced DEF RegisterClass
<1>6. stack' = Replace(a)
  BY DEF RegisterClass, NextStmt
<1> HIDE DEF a
<1>7. QED
  BY <1>1, <1>4, <1>5, <1>6, MoveKeepsIInv DEF RegisterClass

LEMMA SkipKeeps ==
  ASSUME IInv, UNCHANGED prog, Skip \/ SkipLoaded
  PROVE  IInv'
<1> DEFINE a == Going(Top.phase, Top.at + 1, Top.defs)
<1>1. PICK phase \in {"classes", "names"} : \E op : Reads(phase, op)
  BY DEF Skip, SkipLoaded
<1>2. /\ a \in Act /\ ActOK(a, loaded)
      /\ a.file = Top.file /\ a.phase = Top.phase /\ a.defs = Top.defs
  BY <1>1, Advanced
<1>3. verdict = "lowering" /\ stack # <<>> /\ Top.phase # "bodies"
  BY <1>1, Reading
<1>4. /\ stack' = Replace(a)
      /\ UNCHANGED <<loaded, signatures, registry, emitted, verdict>>
  BY DEF Skip, SkipLoaded, NextStmt
<1>5. TablesOK'
  BY <1>4, TablesKept DEF IInv
<1> HIDE DEF a
<1>6. QED  BY <1>2, <1>3, <1>4, <1>5, MoveKeepsIInv

LEMMA EndPassKeeps ==
  ASSUME IInv, UNCHANGED prog,
         EndPass("classes", "names") \/ EndPass("names", "bodies")
  PROVE  IInv'
<1>1. PICK phase \in {"classes", "names"}, next \in {"names", "bodies"} :
        EndPass(phase, next) /\ (phase = "names" <=> next = "bodies")
  OBVIOUS
<1> DEFINE a == Going(next, 1, Top.defs)
<1>2. /\ verdict = "lowering" /\ stack # <<>> /\ Top.phase = phase
      /\ Top.at > Len(Body)
      /\ stack' = Replace(a)
      /\ UNCHANGED <<loaded, signatures, registry, emitted, verdict>>
  BY <1>1 DEF EndPass, In, Enter
<1>3. Top \in Act /\ ActOK(Top, loaded)
  BY <1>2, TopIsAct DEF IInv
<1>4. /\ a \in Act
      /\ a.file = Top.file /\ a.phase = next /\ a.defs = Top.defs /\ a.at = 1
  <2>1. next \in Phases /\ Top.defs \in Seq(Nat)
    BY <1>3 DEF Phases, Act
  <2>2. QED  BY <1>3, <2>1, GoingIsAct
<1> HIDE DEF a
<1>5. /\ Top.defs \in Seq(Nat) /\ Len(Top.defs) \in Nat
      /\ Len(prog[Top.file]) \in Nat /\ Top.at \in Nat
  BY <1>3 DEF Act, IInv, FilesOK
<1>6. ActOK(a, loaded)
  <2>1. CASE phase = "classes"
    <3>1. Top.defs = <<>> /\ a.phase = "names"
      BY <1>1, <1>2, <1>3, <1>4, <2>1 DEF ActOK
    <3>2. Len(a.defs) = 0 /\ DOMAIN a.defs = {}
      BY <1>4, <3>1
    <3>3. QED  BY <1>3, <1>4, <1>5, <3>1, <3>2 DEF ActOK
  <2>2. CASE phase = "names"
    <3>1. a.phase = "bodies"
      BY <1>1, <1>4, <2>2
    <3>2. Len(a.defs) <= Len(prog[Top.file])
      BY <1>2, <1>3, <1>4, <1>5, <2>2 DEF ActOK
    <3>3. QED  BY <1>2, <1>3, <1>4, <1>5, <2>2, <3>1, <3>2 DEF ActOK
  <2>3. QED  BY <2>1, <2>2
<1>7. TablesOK'
  BY <1>2, TablesKept DEF IInv
<1>8. QED  BY <1>2, <1>3, <1>4, <1>6, <1>7, MoveKeepsIInv

LEMMA VerifyNamesKeeps ==
  ASSUME IInv, UNCHANGED prog, VerifyNames
  PROVE  IInv'
<1> DEFINE a == Going("names", Top.at + 1, Top.defs)
<1>1. /\ verdict = "lowering" /\ stack # <<>> /\ Top.phase = "verify"
      /\ stack' = Replace(a)
      /\ UNCHANGED <<loaded, signatures, registry, emitted, verdict>>
  BY DEF VerifyNames, In
<1>2. Top \in Act /\ ActOK(Top, loaded)
  BY <1>1, TopIsAct DEF IInv
<1>3. /\ a \in Act
      /\ a.file = Top.file /\ a.phase = "names" /\ a.defs = Top.defs
      /\ a.at = Top.at + 1
  <2>1. /\ "names" \in Phases /\ Top.at + 1 \in Nat \ {0}
        /\ Top.defs \in Seq(Nat)
    BY <1>2 DEF Act, Phases
  <2>2. QED  BY <1>2, <2>1, GoingIsAct
<1> HIDE DEF a
<1>4. /\ Top.defs \in Seq(Nat) /\ Len(Top.defs) \in Nat
      /\ \A i \in DOMAIN Top.defs : Top.defs[i] \in Nat
      /\ Len(prog[Top.file]) \in Nat /\ Top.at \in Nat
  BY <1>2 DEF Act, IInv, FilesOK
<1>5. ActOK(a, loaded)
  BY <1>1, <1>2, <1>3, <1>4 DEF ActOK
<1>6. TablesOK'
  BY <1>1, TablesKept DEF IInv
<1>7. QED  BY <1>1, <1>2, <1>3, <1>5, <1>6, MoveKeepsIInv

(* A number above all of a sequence, put after it. *)
LEMMA AppendAbove ==
  ASSUME NEW s \in Seq(Nat), NEW n \in Nat,
         \A i \in DOMAIN s : s[i] < n,
         \A i, j \in DOMAIN s : s[i] = s[j] => i = j
  PROVE  LET t == Append(s, n)
         IN  /\ t \in Seq(Nat)
             /\ Len(t) = Len(s) + 1 /\ Len(s) \in Nat
             /\ Len(t) \in DOMAIN t /\ t[Len(t)] = n
             /\ \A i \in DOMAIN s : i \in DOMAIN t /\ t[i] = s[i]
             /\ \A i \in DOMAIN t : i # Len(t) => i \in DOMAIN s
             /\ \A i, j \in DOMAIN t : t[i] = t[j] => i = j
<1> DEFINE t == Append(s, n)
<1>1. /\ t \in Seq(Nat)
      /\ Len(t) = Len(s) + 1
      /\ \A i \in 1 .. Len(s) + 1 : t[i] = IF i = Len(s) + 1 THEN n ELSE s[i]
  BY AppendOne
<1>2. Len(s) \in Nat /\ DOMAIN s = 1 .. Len(s)
  OBVIOUS
<1> HIDE DEF t
<1>3. DOMAIN t = 1 .. Len(s) + 1
  BY <1>1, <1>2
<1>4. \A i \in DOMAIN s : i \in DOMAIN t /\ t[i] = s[i]
  BY <1>1, <1>2, <1>3
<1>5. Len(t) \in DOMAIN t /\ t[Len(t)] = n
  BY <1>1, <1>2, <1>3
<1>6. \A i \in DOMAIN t : i # Len(t) => i \in DOMAIN s
  BY <1>1, <1>2, <1>3
<1>7. \A i \in DOMAIN s : t[i] \in Nat /\ t[i] < n
  BY <1>4
<1>8. ASSUME NEW i \in DOMAIN t, NEW j \in DOMAIN t, t[i] = t[j]
      PROVE  i = j
  <2>1. CASE i = Len(t) /\ j # Len(t)
    BY <1>5, <1>6, <1>7, <1>8, <2>1
  <2>2. CASE i # Len(t) /\ j = Len(t)
    BY <1>5, <1>6, <1>7, <1>8, <2>2
  <2>3. CASE i # Len(t) /\ j # Len(t)
    BY <1>4, <1>6, <1>8, <2>3
  <2>4. QED  BY <2>1, <2>2, <2>3
<1>9. QED  BY <1>1, <1>2, <1>4, <1>5, <1>6, <1>8 DEF t

(* The new signature waits in the activation that collected it.             *)
LEMMA CollectSignatureKeeps ==
  ASSUME IInv, UNCHANGED prog, CollectSignature
  PROVE  IInv'
<1> DEFINE d == <<Top.file, Top.at>>
           ds == Append(Top.defs, Top.at)
           a == Going("names", Top.at + 1, ds)
<1>1. /\ verdict = "lowering" /\ stack # <<>> /\ Top.phase = "names"
      /\ Top \in Act /\ ActOK(Top, loaded)
      /\ Top.file \in DOMAIN prog /\ Top.at \in DOMAIN prog[Top.file]
      /\ Top.at \in Nat /\ Top.at <= Len(prog[Top.file])
      /\ Len(prog[Top.file]) \in Nat
      /\ Stmt = prog[Top.file][Top.at] /\ Stmt.op = "def"
  BY Reading DEF CollectSignature
<1>2. /\ Stmt.name \notin DOMAIN signatures
      /\ signatures' = Insert(signatures, Stmt.name, d)
      /\ stack' = Replace(a)
      /\ UNCHANGED <<loaded, registry, emitted, verdict>>
  BY DEF CollectSignature
<1>3. d \in Definitions /\ Named(d) = Stmt
  BY <1>1, IsDefinition
<1>4. /\ DOMAIN signatures' = {Stmt.name} \cup DOMAIN signatures
      /\ signatures'[Stmt.name] = d
      /\ \A n \in DOMAIN signatures : signatures'[n] = signatures[n]
  BY <1>2 DEF Insert
<1>5. /\ Top.file \in loaded
      /\ Top.defs \in Seq(Nat) /\ Len(Top.defs) < Top.at
      /\ \A i \in DOMAIN Top.defs :
           /\ Top.defs[i] \in DOMAIN prog[Top.file]
           /\ prog[Top.file][Top.defs[i]].op = "def"
           /\ Top.defs[i] \in Nat /\ Top.defs[i] < Top.at
      /\ \A i, j \in DOMAIN Top.defs : Top.defs[i] = Top.defs[j] => i = j
  BY <1>1 DEF Act, ActOK
<1>6. /\ ds \in Seq(Nat)
      /\ Len(ds) = Len(Top.defs) + 1 /\ Len(Top.defs) \in Nat
      /\ Len(ds) \in DOMAIN ds /\ ds[Len(ds)] = Top.at
      /\ \A i \in DOMAIN Top.defs : i \in DOMAIN ds /\ ds[i] = Top.defs[i]
      /\ \A i \in DOMAIN ds : i # Len(ds) => i \in DOMAIN Top.defs
      /\ \A i, j \in DOMAIN ds : ds[i] = ds[j] => i = j
  BY <1>1, <1>5, AppendAbove
<1> HIDE DEF ds
<1>7. /\ a \in Act
      /\ a.file = Top.file /\ a.phase = "names" /\ a.at = Top.at + 1
      /\ a.defs = ds
  <2>1. "names" \in Phases /\ Top.at + 1 \in Nat \ {0}
    BY <1>1 DEF Phases
  <2>2. QED  BY <1>1, <1>6, <2>1, GoingIsAct
<1> HIDE DEF a
<1>9. ActOK(a, loaded)
  <2>1. ASSUME NEW i \in DOMAIN ds
        PROVE  /\ ds[i] \in DOMAIN prog[Top.file]
               /\ prog[Top.file][ds[i]].op = "def"
               /\ ds[i] < Top.at + 1
    <3>1. CASE i = Len(ds)
      <4>1. ds[i] = Top.at
        BY <1>6, <3>1
      <4>2. QED  BY <1>1, <4>1
    <3>2. CASE i # Len(ds)
      <4>1. i \in DOMAIN Top.defs /\ ds[i] = Top.defs[i]
        BY <1>6, <3>2
      <4>2. Top.defs[i] < Top.at + 1
        BY <1>1, <1>5, <4>1
      <4>3. QED  BY <1>5, <4>1, <4>2
    <3>3. QED  BY <3>1, <3>2
  <2>2. Len(ds) < Top.at + 1 /\ Top.at + 1 <= Len(prog[Top.file]) + 1
    BY <1>1, <1>5, <1>6
  <2>3. QED  BY <1>5, <1>6, <1>7, <2>1, <2>2 DEF ActOK
<1>10. Shape(stack, loaded)'
  BY <1>1, <1>2, <1>7, <1>9, ReplaceKeepsShape, ShapePrimed DEF IInv
<1>11. \A i \in DOMAIN Top.defs : i \in DOMAIN a.defs /\ a.defs[i] = Top.defs[i]
  BY <1>6, <1>7
<1>12. \A e : /\ Past(e, stack) => Past(e, stack')
              /\ Waits(e, stack) => Waits(e, stack')
  BY <1>1, <1>2, <1>7, <1>11, ReplaceKeepsDefs DEF IInv
<1>13. TablesOK'
  <2>1. TableOK(signatures', "def")
    BY <1>1, <1>2, <1>3, InsertKeepsTable DEF IInv, TablesOK
  <2>2. TableOK(registry', "class")
    BY <1>2 DEF IInv, TablesOK
  <2>3. QED  BY <2>1, <2>2, TablesPrimed
<1>14. EmittedOK'
  <2>1. \A k \in 1 .. Len(emitted) : Past(emitted[k].def, stack')
    BY <1>12 DEF IInv, EmittedOK
  <2>2. QED  BY <1>2, <1>4, <2>1, EmittedKept DEF IInv
<1>15. NoneForgotten'
  <2>1. Waits(d, stack')
    <3>1. /\ Len(stack) \in Nat \ {0}
          /\ Len(stack') = Len(stack)
          /\ stack'[Len(stack)] = a
      BY <1>1, <1>2, <1>7, TopIsAct, ReplaceLast DEF Replace, Shape, IInv
    <3>3. Len(stack) \in 1 .. Len(stack')
      BY <3>1
    <3>4. QED  BY <1>6, <1>7, <3>1, <3>3 DEF Waits
  <2>2. \A e : Waits(e, stack') = Waits(e, stack)'
    BY DEF Waits
  <2>3. \A e : Lowered(e)' = Lowered(e)
    BY <1>2 DEF Lowered
  <2>4. QED  BY <1>4, <1>12, <2>1, <2>2, <2>3 DEF NoneForgotten, IInv
<1>16. FilesOK' /\ VerdictOK'
  BY <1>1, <1>2 DEF IInv, FilesOK, VerdictOK
<1>17. Collects(stack, Signed)'
  <2>1. Signed \subseteq Signed' /\ d \in Signed'
    BY <1>4 DEF Signed
  <2>2. \A i \in DOMAIN Top.defs : <<Top.file, Top.defs[i]>> \in Signed
    BY <1>1, TopCollects DEF IInv
  <2>3. ASSUME NEW i \in DOMAIN ds PROVE <<Top.file, ds[i]>> \in Signed'
    <3>1. CASE i = Len(ds)
      BY <1>6, <2>1, <3>1
    <3>2. CASE i # Len(ds)
      BY <1>6, <2>1, <2>2, <3>2
    <3>3. QED  BY <3>1, <3>2
  <2>4. Collects(stack', Signed')
    BY <1>1, <1>2, <1>7, <2>1, <2>3, ReplaceCollects DEF IInv
  <2>5. QED  BY <2>4, CollectsPrimed
<1>18. QED  BY <1>10, <1>13, <1>14, <1>15, <1>16, <1>17 DEF IInv

(* The importer waits, and the file it imports is begun.                    *)
LEMMA LoadModuleKeeps ==
  ASSUME IInv, UNCHANGED prog, LoadModule
  PROVE  IInv'
<1> DEFINE f == Stmt.from
           a == Going("verify", Top.at, Top.defs)
           t == Replace(a)
<1>1. /\ verdict = "lowering" /\ stack # <<>> /\ Top.phase = "names"
      /\ Top \in Act /\ ActOK(Top, loaded)
      /\ Top.at \in Nat /\ Top.at <= Len(prog[Top.file])
      /\ Len(prog[Top.file]) \in Nat
  BY Reading DEF LoadModule
<1>2. /\ f \in DOMAIN prog /\ f \notin loaded
      /\ loaded' = loaded \cup {f}
      /\ stack' = Append(t, Activation(f))
      /\ UNCHANGED <<signatures, registry, emitted, verdict>>
  BY DEF LoadModule
<1>3. /\ a \in Act
      /\ a.file = Top.file /\ a.phase = "verify" /\ a.at = Top.at
      /\ a.defs = Top.defs
  <2>1. "verify" \in Phases /\ Top.at \in Nat \ {0} /\ Top.defs \in Seq(Nat)
    BY <1>1 DEF Act, Phases
  <2>2. QED  BY <1>1, <2>1, GoingIsAct
<1> HIDE DEF a, f
<1>4. ActOK(a, loaded)
  BY <1>1, <1>3 DEF ActOK
<1>5. Shape(t, loaded)
  BY <1>1, <1>3, <1>4, ReplaceKeepsShape DEF IInv
<1>6. t # <<>> => t[Len(t)].phase = "verify"
  <2>1. /\ Len(stack) \in Nat \ {0} /\ Len(t) = Len(stack)
        /\ t[Len(stack)] = a
    BY <1>1, <1>3, TopIsAct, ReplaceLast DEF Replace, Shape, IInv
  <2>2. QED  BY <1>3, <2>1
<1>7. \A d : /\ Past(d, stack) => Past(d, t)
             /\ Waits(d, stack) => Waits(d, t)
  BY <1>1, <1>3, ReplaceKeepsDefs DEF IInv
<1>8. Collects(t, Signed)
  <2>1. \A i \in DOMAIN a.defs : <<a.file, a.defs[i]>> \in Signed
    BY <1>1, <1>3, TopCollects DEF IInv
  <2>2. QED  BY <1>1, <1>3, <2>1, ReplaceCollects DEF IInv
<1> HIDE DEF t
<1>9. Shape(stack, loaded)'
  <2>1. prog[f] \in Seq(ToSet(prog[f]))
    BY <1>2 DEF IInv, FilesOK
  <2>2. Shape(stack', loaded')
    BY <1>2, <1>5, <1>6, <2>1, PushKeepsShape
  <2>3. QED  BY <2>2, ShapePrimed
<1>10. \A d : /\ Past(d, t) /\ d[1] \in loaded => Past(d, stack')
              /\ Waits(d, t) => Waits(d, stack')
  BY <1>2, <1>5, PushKeepsDefs
<1>11. TablesOK'
  BY <1>2, TablesKept DEF IInv
<1>12. EmittedOK'
  <2>1. \A k \in 1 .. Len(emitted) : Past(emitted[k].def, stack')
    BY <1>7, <1>10 DEF IInv, EmittedOK
  <2>2. QED  BY <1>2, <2>1, EmittedKept DEF IInv
<1>13. NoneForgotten'
  BY <1>2, <1>7, <1>10, NoneForgottenKept DEF IInv
<1>14. Collects(stack, Signed)'
  <2>1. Collects(stack', Signed)
    <3>1. Activation(f) \in Act /\ Activation(f).defs = <<>>
      <4>1. <<>> \in Seq(Nat)
        OBVIOUS
      <4>2. QED  BY <1>2, <4>1 DEF Activation, Act, Phases
    <3>2. t \in Seq(Act)
      BY <1>5 DEF Shape
    <3>3. Collects(Append(t, Activation(f)), Signed)
      BY <1>8, <3>1, <3>2, PushCollects
    <3>4. QED  BY <1>2, <3>3
  <2>2. Signed' = Signed
    BY <1>2 DEF Signed
  <2>3. QED  BY <2>1, <2>2, CollectsPrimed
<1>15. FilesOK' /\ VerdictOK'
  BY <1>1, <1>2 DEF IInv, FilesOK, VerdictOK
<1>16. QED
  BY <1>9, <1>11, <1>12, <1>13, <1>14, <1>15 DEF IInv

(* What a call becomes, if it is a function of the program, has a signature.*)
LEMMA TargetSigned ==
  ASSUME IInv, NEW c, Target(c) # None,
         Target(c) \in Definitions, Named(Target(c)).op = "def"
  PROVE  Target(c) \in Signed
<1>1. CASE c \in DOMAIN registry
  BY <1>1 DEF Target, IInv, TablesOK, TableOK
<1>2. CASE c \notin DOMAIN registry /\ c \in Inlined
  <2>1. Target(c) = <<c, 0>>
    BY <1>2 DEF Target, Python!Builtin
  <2>2. PICK f \in DOMAIN prog : \E k \in DOMAIN prog[f] : <<c, 0>> = <<f, k>>
    BY <2>1 DEF Definitions
  <2>3. 0 \in DOMAIN prog[f]
    BY <2>2
  <2>4. prog[f] \in Seq(ToSet(prog[f]))
    BY DEF IInv, FilesOK
  <2>5. QED  BY <2>3, <2>4
<1>3. CASE c \notin DOMAIN registry /\ c \notin Inlined
  BY <1>3 DEF Target, Signed
<1>4. QED  BY <1>1, <1>2, <1>3

LEMMA LowerFunctionKeeps ==
  ASSUME IInv, UNCHANGED prog, LowerFunction
  PROVE  IInv'
<1> DEFINE n == Top.at
           d == <<Top.file, Top.defs[n]>>
           e == [def |-> d, calls |-> Calls]
           a == Going("bodies", Top.at + 1, Top.defs)
<1>1. /\ verdict = "lowering" /\ stack # <<>> /\ Top.phase = "bodies"
      /\ n <= Len(Top.defs)
      /\ \A c \in NextDef.calls : Target(c) # None
      /\ emitted' = Append(emitted, e)
      /\ stack' = Replace(a)
      /\ UNCHANGED <<loaded, signatures, registry, verdict>>
  BY DEF LowerFunction, In, NextStmt
<1>2. /\ Len(stack) \in Nat \ {0} /\ Top = stack[Len(stack)]
      /\ Top \in Act /\ ActOK(Top, loaded)
  BY <1>1, TopIsAct DEF IInv
<1>3. /\ Top.file \in DOMAIN prog /\ Top.defs \in Seq(Nat)
      /\ n \in Nat \ {0} /\ n \in DOMAIN Top.defs
      /\ Len(Top.defs) \in Nat /\ Len(prog[Top.file]) \in Nat
  BY <1>1, <1>2 DEF Act, IInv, FilesOK
<1>4. /\ a \in Act
      /\ a.file = Top.file /\ a.phase = "bodies" /\ a.at = n + 1
      /\ a.defs = Top.defs
  <2>1. "bodies" \in Phases /\ n + 1 \in Nat \ {0}
    BY <1>3 DEF Phases
  <2>2. QED  BY <1>2, <1>3, <2>1, GoingIsAct
<1> HIDE DEF a
<1>5. ActOK(a, loaded)
  <2>1. Len(Top.defs) <= Len(prog[Top.file]) /\ Top.file \in loaded
    BY <1>1, <1>2 DEF ActOK
  <2>2. n + 1 <= Len(Top.defs) + 1 /\ n + 1 <= Len(prog[Top.file]) + 1
    BY <1>1, <1>3, <2>1
  <2>3. /\ \A i \in DOMAIN Top.defs :
             /\ Top.defs[i] \in DOMAIN prog[Top.file]
             /\ prog[Top.file][Top.defs[i]].op = "def"
        /\ \A i, j \in DOMAIN Top.defs : Top.defs[i] = Top.defs[j] => i = j
    BY <1>2 DEF ActOK
  <2>4. QED  BY <1>4, <2>1, <2>2, <2>3 DEF ActOK
<1>6. Shape(stack, loaded)'
  BY <1>1, <1>4, <1>5, ReplaceKeepsShape, ShapePrimed DEF IInv
<1>7. /\ Len(stack') = Len(stack)
      /\ \A j \in 1 .. Len(stack) :
           stack'[j] = IF j = Len(stack) THEN a ELSE stack[j]
  BY <1>1, <1>4, ReplaceLast DEF Replace, Shape, IInv
<1>8. \A x : Past(x, stack) => Past(x, stack')
  <2>1. \A i \in DOMAIN Top.defs : i \in Nat
    BY <1>3
  <2>2. \A i \in DOMAIN Top.defs : i < n => i < n + 1
    BY <1>3, <2>1
  <2>3. QED  BY <1>1, <1>2, <1>4, <1>7, <2>2 DEF Past
<1>9. Past(d, stack')
  <2>1. \A j \in 1 .. Len(stack) : stack[j].file = Top.file => j = Len(stack)
    BY <1>2 DEF IInv, Shape
  <2>2. \A j \in 1 .. Len(stack) : stack'[j].file = Top.file => stack'[j] = a
    BY <1>7, <2>1
  <2>3. n \in DOMAIN a.defs /\ n < a.at /\ a.defs[n] = Top.defs[n]
    BY <1>3, <1>4
  <2>4. d[1] = Top.file /\ d[2] = Top.defs[n]
    OBVIOUS
  <2>5. QED  BY <1>4, <1>7, <2>2, <2>3, <2>4 DEF Past
<1>10. d \in Signed
  BY <1>1, <1>3, TopCollects DEF IInv
<1>11. \A k \in 1 .. Len(emitted) : emitted[k].def # d
  <2>1. SUFFICES ASSUME NEW k \in 1 .. Len(emitted), emitted[k].def = d
                 PROVE  FALSE
    OBVIOUS
  <2>2. Past(d, stack)
    BY <2>1 DEF IInv, EmittedOK
  <2>3. Len(stack) \in 1 .. Len(stack) /\ Top.file = d[1] /\ Top.defs[n] = d[2]
    BY <1>2
  <2>4. PICK i \in DOMAIN Top.defs : i < n /\ Top.defs[i] = Top.defs[n]
    BY <1>2, <2>2, <2>3 DEF Past
  <2>5. i = n
    BY <1>2, <1>3, <2>4 DEF ActOK
  <2>6. QED  BY <1>3, <2>4, <2>5
<1> HIDE DEF d
<1>12. /\ Len(emitted) \in Nat
       /\ emitted' \in Seq(ToSet(emitted'))
       /\ Len(emitted') = Len(emitted) + 1
       /\ \A k \in 1 .. Len(emitted) + 1 :
            emitted'[k] = IF k = Len(emitted) + 1 THEN e ELSE emitted[k]
  <2> DEFINE S == ToSet(emitted) \cup {e}
  <2>1. emitted \in Seq(S) /\ e \in S
    <3>1. emitted \in Seq(ToSet(emitted)) /\ ToSet(emitted) \subseteq S
      BY DEF IInv, EmittedOK
    <3>2. QED  BY <3>1, SeqMonotonic
  <2> HIDE DEF S
  <2>2. /\ emitted' \in Seq(S)
        /\ Len(emitted') = Len(emitted) + 1
        /\ \A k \in 1 .. Len(emitted) + 1 :
             emitted'[k] = IF k = Len(emitted) + 1 THEN e ELSE emitted[k]
    BY <1>1, <2>1, AppendOne
  <2>3. Len(emitted) \in Nat
    BY <2>1
  <2>4. emitted' \in Seq(ToSet(emitted'))
    <3>1. /\ Len(emitted') \in Nat
          /\ DOMAIN emitted' = 1 .. Len(emitted')
          /\ emitted' \in [1 .. Len(emitted') -> S]
      BY <2>2, LenProperties
    <3>2. \A k \in 1 .. Len(emitted') : emitted'[k] \in ToSet(emitted')
      BY <3>1 DEF ToSet
    <3>3. emitted' \in [1 .. Len(emitted') -> ToSet(emitted')]
      BY <3>1, <3>2
    <3>4. QED  BY <3>1, <3>3
  <2>5. QED  BY <2>2, <2>3, <2>4
<1>13. /\ e.def = d
       /\ \A c \in DOMAIN e.calls :
            e.calls[c] \in Definitions /\ Named(e.calls[c]).op = "def" =>
              e.calls[c] \in Signed
  <2>1. DOMAIN Calls = NextDef.calls /\ \A c \in NextDef.calls : Calls[c] = Target(c)
    BY DEF Calls
  <2>2. QED  BY <1>1, <2>1, TargetSigned
<1> HIDE DEF e
<1>14. /\ Signed' = Signed /\ Definitions' = Definitions
       /\ \A x : Named(x)' = Named(x)
       /\ \A x : Past(x, stack') = Past(x, stack)'
       /\ \A x : Waits(x, stack') = Waits(x, stack)'
  BY <1>1 DEF Signed, Definitions, Named, Past, Waits
<1>15. EmittedOK'
  <2> DEFINE Good(x) == /\ x.def \in Signed /\ x.def[1] \in loaded
                        /\ Past(x.def, stack')
                        /\ \A c \in DOMAIN x.calls :
                             x.calls[c] \in Definitions /\ Named(x.calls[c]).op = "def"
                               => x.calls[c] \in Signed
  <2>1. \A k \in 1 .. Len(emitted) : Good(emitted[k])
    BY <1>8 DEF IInv, EmittedOK
  <2>2. Good(e)
    <3>1. d[1] \in loaded
      BY <1>2 DEF ActOK, d
    <3>2. QED  BY <1>9, <1>10, <1>13, <3>1
  <2> HIDE DEF Good
  <2>3. \A k \in 1 .. Len(emitted') : Good(emitted'[k])
    BY <1>12, <2>1, <2>2
  <2>4. \A j, k \in 1 .. Len(emitted') : emitted'[j].def = emitted'[k].def => j = k
    BY <1>11, <1>12, <1>13 DEF IInv, EmittedOK
  <2>5. QED  BY <1>1, <1>12, <1>14, <2>3, <2>4 DEF EmittedOK, Good
<1>16. NoneForgotten'
  <2>1. SUFFICES ASSUME NEW m \in DOMAIN signatures
                 PROVE  \/ \E k \in 1 .. Len(emitted') : emitted'[k].def = signatures[m]
                        \/ Waits(signatures[m], stack')
    BY <1>1, <1>14 DEF NoneForgotten, Lowered
  <2> DEFINE x == signatures[m]
  <2>2. CASE Lowered(x)
    BY <1>12, <2>2 DEF Lowered
  <2>3. CASE x = d
    BY <1>12, <1>13, <2>3
  <2>4. CASE x # d /\ Waits(x, stack)
    <3>1. PICK j \in 1 .. Len(stack) :
            /\ stack[j].file = x[1]
            /\ \E i \in DOMAIN stack[j].defs :
                 /\ stack[j].defs[i] = x[2]
                 /\ stack[j].phase = "bodies" => stack[j].at <= i
      BY <2>4 DEF Waits
    <3>2. CASE j # Len(stack)
      BY <1>7, <3>1, <3>2 DEF Waits
    <3>3. CASE j = Len(stack)
      <4>1. PICK i \in DOMAIN Top.defs : Top.defs[i] = x[2] /\ n <= i
        BY <1>1, <1>2, <3>1, <3>3
      <4>2. \E f, k : x = <<f, k>>
        BY DEF IInv, TablesOK, TableOK, Definitions
      <4>3. i # n
        BY <1>2, <3>1, <3>3, <2>4, <4>1, <4>2 DEF d
      <4>4. n + 1 <= i
        <5>1. i \in Nat /\ n \in Nat
          BY <1>3, <4>1
        <5>2. QED  BY <4>1, <4>3, <5>1
      <4>5. stack'[j] = a /\ a.file = x[1]
        BY <1>2, <1>4, <1>7, <3>1, <3>3
      <4>6. QED  BY <1>4, <1>7, <4>1, <4>4, <4>5 DEF Waits
    <3>4. QED  BY <3>2, <3>3
  <2>5. QED  BY <2>2, <2>3, <2>4 DEF IInv, NoneForgotten
<1>17. Collects(stack, Signed)'
  <2>1. \A i \in DOMAIN a.defs : <<a.file, a.defs[i]>> \in Signed
    BY <1>1, <1>4, TopCollects DEF IInv
  <2>2. Collects(stack', Signed)
    BY <1>1, <1>4, <2>1, ReplaceCollects DEF IInv
  <2>3. QED  BY <1>14, <2>2, CollectsPrimed
<1>18. TablesOK' /\ FilesOK' /\ VerdictOK'
  BY <1>1, TablesKept DEF IInv, FilesOK, VerdictOK
<1>19. QED
  BY <1>6, <1>15, <1>16, <1>17, <1>18 DEF IInv

LEMMA ReturnKeeps ==
  ASSUME IInv, UNCHANGED prog, Return
  PROVE  IInv'
<1>1. /\ verdict = "lowering" /\ stack # <<>> /\ Top.phase = "bodies"
      /\ Top.at > Len(Top.defs)
      /\ stack' = Front(stack)
      /\ UNCHANGED <<loaded, signatures, registry, emitted, verdict>>
  BY DEF Return, In
<1>2. Shape(stack, loaded)'
  BY <1>1, PopKeepsShape, ShapePrimed DEF IInv
<1>3. \A d : /\ Past(d, stack) => Past(d, stack')
             /\ Waits(d, stack) => Waits(d, stack')
  BY <1>1, PopKeepsDefs DEF IInv
<1>4. EmittedOK'
  <2>1. \A k \in 1 .. Len(emitted) : Past(emitted[k].def, stack')
    BY <1>3 DEF IInv, EmittedOK
  <2>2. QED  BY <1>1, <2>1, EmittedKept DEF IInv
<1>5. NoneForgotten'
  BY <1>1, <1>3, NoneForgottenKept DEF IInv
<1>6. Collects(stack, Signed)'
  <2>1. /\ Len(stack) \in Nat \ {0} /\ Len(stack') = Len(stack) - 1
        /\ \A j \in 1 .. Len(stack) - 1 : stack'[j] = stack[j]
    BY <1>1, TopIsAct, RemoveLast DEF IInv, Shape
  <2>2. \A j \in 1 .. Len(stack') : j \in 1 .. Len(stack) /\ stack'[j] = stack[j]
    BY <2>1
  <2>3. Collects(stack', Signed)
    BY <2>2 DEF IInv, Collects
  <2>4. Signed' = Signed
    BY <1>1 DEF Signed
  <2>5. QED  BY <2>3, <2>4, CollectsPrimed
<1>7. TablesOK' /\ FilesOK' /\ VerdictOK'
  BY <1>1, TablesKept DEF IInv, FilesOK, VerdictOK
<1>8. QED  BY <1>2, <1>4, <1>5, <1>6, <1>7 DEF IInv

LEMMA VerdictKeeps ==
  ASSUME IInv, UNCHANGED prog, UNCHANGED <<stack, loaded, signatures, registry, emitted>>,
         VerdictOK'
  PROVE  IInv'
<1>1. Shape(stack, loaded)' /\ FilesOK'
  BY ShapePrimed DEF IInv, FilesOK
<1>2. TablesOK'
  BY TablesKept DEF IInv
<1>3. EmittedOK'
  <2>1. \A k \in 1 .. Len(emitted) : Past(emitted[k].def, stack')
    BY DEF IInv, EmittedOK
  <2>2. QED  BY <2>1, EmittedKept DEF IInv
<1>4. NoneForgotten'
  BY NoneForgottenKept DEF IInv
<1>5. Collects(stack, Signed)'
  BY DEF IInv, Collects, Signed
<1>6. QED  BY <1>1, <1>2, <1>3, <1>4, <1>5 DEF IInv

LEMMA RejectKeeps ==
  ASSUME IInv, UNCHANGED prog, Reject
  PROVE  IInv'
<1>1. VerdictOK'
  BY DEF Reject, IInv, VerdictOK
<1>2. QED  BY <1>1, VerdictKeeps DEF Reject

LEMMA FinishKeeps ==
  ASSUME IInv, UNCHANGED prog, Finish
  PROVE  IInv'
<1>1. VerdictOK'
  BY DEF Finish, IInv, VerdictOK
<1>2. QED  BY <1>1, VerdictKeeps DEF Finish

LEMMA InitIInv ==
  ASSUME Init
  PROVE  IInv
<1>1. FilesOK /\ loaded = {Root} /\ Root \in DOMAIN prog
  BY ProgramsAssumption DEF Init, FilesOK
<1>2. Shape(<<>>, {})
  <2>1. <<>> \in Seq(Act) /\ Len(<<>>) = 0
    OBVIOUS
  <2>2. QED  BY <2>1 DEF Shape
<1>3. stack = Append(<<>>, Activation(Root))
  BY DEF Init
<1>4. Shape(stack, loaded)
  <2>1. prog[Root] \in Seq(ToSet(prog[Root]))
    BY <1>1 DEF FilesOK
  <2>2. Shape(Append(<<>>, Activation(Root)), {} \cup {Root})
    BY <1>1, <1>2, <2>1, PushKeepsShape
  <2>3. QED  BY <1>1, <1>3, <2>2
<1>5. DOMAIN signatures = {} /\ DOMAIN registry = {} /\ emitted = <<>>
  BY DEF Init, Python!NoNames
<1>6. TablesOK /\ NoneForgotten
  BY <1>5 DEF TablesOK, TableOK, NoneForgotten
<1>7. EmittedOK
  <2>1. <<>> \in Seq(ToSet(<<>>)) /\ Len(<<>>) = 0
    OBVIOUS
  <2>2. QED  BY <1>5, <2>1 DEF EmittedOK
<1>8. Collects(stack, Signed)
  <2>1. Len(stack) = 1 /\ stack[1] = Activation(Root)
    BY DEF Init
  <2>2. DOMAIN Activation(Root).defs = {}
    BY DEF Activation
  <2>3. QED  BY <2>1, <2>2 DEF Collects
<1>9. VerdictOK
  BY DEF Init, VerdictOK
<1>10. QED  BY <1>1, <1>4, <1>6, <1>7, <1>8, <1>9 DEF IInv

LEMMA StepIInv ==
  ASSUME IInv, [Next]_vars
  PROVE  IInv'
<1>1. CASE Lower /\ UNCHANGED <<prog, pyVars>>
  <2>1. CASE RegisterClass
    BY <1>1, <2>1, RegisterClassKeeps
  <2>2. CASE Skip \/ SkipLoaded
    BY <1>1, <2>2, SkipKeeps
  <2>3. CASE EndPass("classes", "names") \/ EndPass("names", "bodies")
    BY <1>1, <2>3, EndPassKeeps
  <2>4. CASE CollectSignature
    BY <1>1, <2>4, CollectSignatureKeeps
  <2>5. CASE LoadModule
    BY <1>1, <2>5, LoadModuleKeeps
  <2>6. CASE VerifyNames
    BY <1>1, <2>6, VerifyNamesKeeps
  <2>7. CASE LowerFunction
    BY <1>1, <2>7, LowerFunctionKeeps
  <2>8. CASE Return
    BY <1>1, <2>8, ReturnKeeps
  <2>9. CASE Finish
    BY <1>1, <2>9, FinishKeeps
  <2>10. CASE Reject
    BY <1>1, <2>10, RejectKeeps
  <2>11. RejectDuplicateClass \/ RejectDuplicateFunction \/ RejectModule
           \/ RejectStatement \/ RejectNames \/ RejectUndefined => Reject
    BY DEF RejectDuplicateClass, RejectDuplicateFunction, RejectModule,
           RejectStatement, RejectNames, RejectUndefined
  <2>12. QED
    BY <1>1, <2>1, <2>2, <2>3, <2>4, <2>5, <2>6, <2>7, <2>8, <2>9, <2>10, <2>11
       DEF Lower, Classes, Names, Bodies
<1>2. CASE UNCHANGED <<prog, loaderVars>>
  <2>1. VerdictOK'
    BY <1>2 DEF loaderVars, IInv, VerdictOK
  <2>2. QED  BY <1>2, <2>1, VerdictKeeps DEF loaderVars
<1>3. QED  BY <1>1, <1>2 DEF Next, vars

-----------------------------------------------------------------------------
(* The invariant, and what it implies. *)
LEMMA Inductive == Spec => []IInv
BY InitIInv, StepIInv, PTL DEF Spec

LEMMA IInvTypeOK ==
  ASSUME IInv
  PROVE  TypeOK
<1>1. \A f \in DOMAIN prog : Len(prog[f]) \in Nat
  BY DEF IInv, FilesOK
<1>2. stack \in Seq(Act) /\ DOMAIN stack = 1 .. Len(stack) /\ Len(stack) \in Nat
  BY DEF IInv, Shape
<1>3. ASSUME NEW j \in DOMAIN stack
      PROVE  /\ stack[j].file \in loaded
             /\ stack[j].phase \in {"classes", "names", "verify", "bodies"}
             /\ stack[j].at \in 1 .. Len(prog[stack[j].file]) + 1
             /\ j < Len(stack) => stack[j].phase = "verify"
             /\ \A k \in DOMAIN stack : stack[j].file = stack[k].file => j = k
  <2>1. stack[j] \in Act /\ ActOK(stack[j], loaded)
    BY <1>2, ElementOfSeq DEF IInv, Shape
  <2>2. /\ stack[j].file \in DOMAIN prog
        /\ stack[j].phase \in Phases
        /\ stack[j].at \in Nat \ {0}
    BY <2>1 DEF Act
  <2>3. stack[j].at \in 1 .. Len(prog[stack[j].file]) + 1
    BY <1>1, <2>1, <2>2 DEF ActOK
  <2>4. QED  BY <1>2, <2>1, <2>2, <2>3 DEF ActOK, Phases, IInv, Shape
<1>4. loaded \subseteq DOMAIN prog /\ verdict \in {"lowering", "accepted", "rejected"}
  BY DEF IInv, FilesOK, VerdictOK
<1>5. /\ \A n \in DOMAIN signatures :
           signatures[n] \in Definitions /\ Named(signatures[n]).name = n
      /\ \A n \in DOMAIN registry :
           registry[n] \in Definitions /\ Named(registry[n]).name = n
  BY DEF IInv, TablesOK, TableOK
<1>6. QED  BY <1>3, <1>4, <1>5 DEF TypeOK

LEMMA IInvLinkable ==
  ASSUME IInv
  PROVE  Linkable
<1>1. SUFFICES ASSUME verdict = "accepted" PROVE Linkable
  BY DEF Linkable
<1>2. stack = <<>> /\ Main \in DOMAIN signatures
  BY <1>1 DEF IInv, VerdictOK
<1>3. DOMAIN emitted = 1 .. Len(emitted)
  BY DEF IInv, EmittedOK
<1>4. \A d \in Signed : \E k \in DOMAIN emitted : emitted[k].def = d
  <2>1. \A d : ~ Waits(d, stack)
    <3>1. Len(stack) = 0
      BY <1>2
    <3>2. QED  BY <3>1 DEF Waits
  <2>2. \A d \in Signed : Lowered(d)
    BY <2>1 DEF IInv, NoneForgotten, Signed
  <2>3. QED  BY <1>3, <2>2 DEF Lowered
<1>5. ASSUME NEW d \in Called \cup {signatures[Main]},
             d \in Definitions, Named(d).op = "def"
      PROVE  \E k \in DOMAIN emitted : emitted[k].def = d
  <2>1. CASE d = signatures[Main]
    BY <1>2, <1>4, <2>1 DEF Signed
  <2>2. CASE d \in Called
    <3>1. PICK e \in ToSet(emitted) : \E c \in DOMAIN e.calls : d = e.calls[c]
      BY <2>2 DEF Called
    <3>2. PICK k \in 1 .. Len(emitted) : e = emitted[k]
      BY <1>3 DEF ToSet
    <3>3. d \in Signed
      BY <1>5, <3>1, <3>2 DEF IInv, EmittedOK
    <3>4. QED  BY <1>4, <3>3
  <2>3. QED  BY <2>1, <2>2
<1>6. ASSUME NEW j \in DOMAIN emitted, NEW k \in DOMAIN emitted,
             Named(emitted[j].def).name = Named(emitted[k].def).name
      PROVE  j = k
  <2>1. emitted[j].def \in Signed /\ emitted[k].def \in Signed
    BY <1>3 DEF IInv, EmittedOK
  <2>2. \A d \in Signed : d = signatures[Named(d).name]
    BY DEF Signed, IInv, TablesOK, TableOK
  <2>3. emitted[j].def = emitted[k].def
    BY <1>6, <2>1, <2>2
  <2>4. QED  BY <1>3, <2>3 DEF IInv, EmittedOK
<1>7. QED  BY <1>5, <1>6 DEF Linkable

(* Whatever the files import, every activation of lower_module_into is at a *)
(* statement or a body of its own file, is alone on it, and all but the     *)
(* innermost wait for an import.                                            *)
THEOREM TypeCorrect == Spec => []TypeOK
BY Inductive, IInvTypeOK, PTL

(* An accepted program has one definition for each function its functions   *)
(* call, and for main.                                                      *)
THEOREM AcceptedLinks == Spec => []Linkable
BY Inductive, IInvLinkable, PTL

-----------------------------------------------------------------------------
(* The compiler and Python side by side.                                    *)
(*                                                                          *)
(* Both walk the files depth first, and a walk is where its activations     *)
(* are: a sequence of points [file, at].  The classes of a file are         *)
(* registered before its names are walked, the bodies lowered after.        *)
Pos(a) == IF a.phase = "classes" THEN 1
          ELSE IF a.phase = "bodies" THEN Len(prog[a.file]) + 1
          ELSE a.at

Points(s) == [j \in 1 .. Len(s) |-> [file |-> s[j].file, at |-> Pos(s[j])]]

Needs(f, k) == prog[f][k].op = "import" /\ prog[f][k].from \in DOMAIN prog

(* The statement k of the file f is still before one of the points.         *)
Ahead(r, i, f, k) == \E j \in 1 .. i : r[j].file = f /\ r[j].at <= k

Awaits(s, f, k) == Ahead(Points(s), Len(s), f, k)

(* Files with all the imports of theirs that the first i points have passed.*)
Good(M, r, i) ==
  /\ M \subseteq DOMAIN prog
  /\ \A j \in 1 .. i : r[j].file \in M
  /\ \A f \in M : \A k \in DOMAIN prog[f] :
       Needs(f, k) => prog[f][k].from \in M \/ Ahead(r, i, f, k)

Closed(M) ==
  /\ M \subseteq DOMAIN prog
  /\ Root \in M
  /\ \A f \in M : \A k \in DOMAIN prog[f] : Needs(f, k) => prog[f][k].from \in M

-----------------------------------------------------------------------------
(* The compiler.  A class is registered, and a name or an import entered,   *)
(* once its activation has passed it.                                       *)
ClassesCovered ==
  \A f \in loaded : \A k \in DOMAIN prog[f] : prog[f][k].op = "class" =>
    \/ /\ prog[f][k].name \in DOMAIN registry
       /\ registry[prog[f][k].name] = <<f, k>>
    \/ \E j \in 1 .. Len(stack) :
         stack[j].file = f /\ stack[j].phase = "classes" /\ stack[j].at <= k

NamesCovered ==
  \A f \in loaded : \A k \in DOMAIN prog[f] :
    \/ Awaits(stack, f, k)
    \/ /\ prog[f][k].op = "def" =>
            /\ prog[f][k].name \in DOMAIN signatures
            /\ signatures[prog[f][k].name] = <<f, k>>
       /\ Needs(f, k) => prog[f][k].from \in loaded

(* Only what is reached from the root by imports has been begun.            *)
Reached == \A M \in SUBSET DOMAIN prog : Closed(M) => loaded \subseteq M

(* What has a signature has been passed.                                    *)
SignedPast ==
  \A n \in DOMAIN signatures :
    /\ signatures[n][1] \in loaded
    /\ ~ Awaits(stack, signatures[n][1], signatures[n][2])

(* The stack is a path of imports from the root.                            *)
PathOK ==
  /\ stack # <<>> => stack[1].file = Root
  /\ \A j \in 1 .. Len(stack) : stack[j].phase = "verify" =>
       /\ Needs(stack[j].file, stack[j].at)
       /\ prog[stack[j].file][stack[j].at].from \in loaded
       /\ j < Len(stack) => prog[stack[j].file][stack[j].at].from = stack[j + 1].file

(* A file on it has not been reached by what its importer passed before.    *)
OrderOK ==
  \A j \in 1 .. Len(stack) : j < Len(stack) =>
    \E M : Good(M, Points(stack), j) /\ stack[j + 1].file \notin M

(* What a call has become is what a table holds.                            *)
CallsOK ==
  \A i \in 1 .. Len(emitted) : \A c \in DOMAIN emitted[i].calls :
    LET t == emitted[i].calls[c]
    IN  \/ c \in DOMAIN registry /\ t = registry[c]
        \/ c \in Inlined /\ t = Python!Builtin(c)
        \/ c \in DOMAIN signatures /\ t = signatures[c]

(* Why the compiler has rejected the program.                               *)
Blocked ==
  \/ stack = <<>> /\ Main \notin DOMAIN signatures
  \/ /\ stack # <<>> /\ Top.phase \in {"classes", "names"} /\ Top.at <= Len(Body)
     /\ \/ Stmt.op = "class"
        \/ Top.phase = "names" /\ Stmt.op = "other"
        \/ /\ Top.phase = "names" /\ Stmt.op = "def"
           /\ Stmt.name \in DOMAIN signatures
        \/ /\ Top.phase = "names" /\ Stmt.op = "import"
           /\ \/ Stmt.from \notin DOMAIN prog \cup Libraries
              \/ Stmt.from \in DOMAIN prog \ loaded /\ ~ Python!Parses(Stmt.from)
  \/ stack # <<>> /\ Top.phase = "verify" /\ ~ Verified
  \/ /\ stack # <<>> /\ Top.phase = "bodies" /\ Top.at <= Len(Top.defs)
     /\ \E c \in NextDef.calls : Target(c) = None

CompilerInv ==
  /\ prog \in Programs
  /\ Root \in loaded
  /\ ClassesCovered
  /\ NamesCovered
  /\ Reached
  /\ SignedPast
  /\ PathOK
  /\ OrderOK
  /\ CallsOK
  /\ verdict = "rejected" => Blocked

-----------------------------------------------------------------------------
(* Python.                                                                  *)
At(f, k) == Ahead(running, Len(running), f, k)

Point == [file : DOMAIN prog, at : Nat \ {0}]

PyShape ==
  /\ running \in Seq(Point)
  /\ running # <<>>
  /\ Root \in DOMAIN ns
  /\ DOMAIN ns \subseteq DOMAIN prog
  /\ \A j \in 1 .. Len(running) :
       /\ running[j].file \in DOMAIN ns
       /\ running[j].at <= Len(prog[running[j].file]) + 1
       /\ j < Len(running) =>
            /\ running[j].at <= Len(prog[running[j].file])
            /\ prog[running[j].file][running[j].at].op = "import"
            /\ prog[running[j].file][running[j].at].from = running[j + 1].file
  /\ \A j, k \in 1 .. Len(running) : running[j].file = running[k].file => j = k
  /\ imported = "ready" =>
       /\ Len(running) = 1
       /\ running[1].at > Len(prog[running[1].file])

Ran ==
  \A f \in DOMAIN ns : \A k \in DOMAIN prog[f] : Needs(f, k) =>
    prog[f][k].from \in DOMAIN ns \/ At(f, k)

PyReached == \A M \in SUBSET DOMAIN prog : Closed(M) => DOMAIN ns \subseteq M

(* The import under way, if its module has been begun.                      *)
TopIn(M) ==
  LET f == Python!This.file
      k == Python!This.at
  IN  k <= Len(prog[f]) /\ Needs(f, k) /\ prog[f][k].from \in DOMAIN ns =>
        prog[f][k].from \in M

(* Nothing has been begun but what the points have passed.                  *)
Least ==
  \A M \in SUBSET DOMAIN prog :
    /\ \A j \in 1 .. Len(running) : running[j].file \in M
    /\ \A f \in M \cap DOMAIN ns : \A k \in DOMAIN prog[f] :
         Needs(f, k) => prog[f][k].from \in M \/ At(f, k)
    /\ TopIn(M)
    => DOMAIN ns \subseteq M

(* A name is bound to a definition of that name that has been executed.     *)
Executed(v, n) ==
  \E f \in DOMAIN ns : \E k \in DOMAIN prog[f] :
    /\ v = <<f, k>>
    /\ prog[f][k].op \in {"def", "class"}
    /\ prog[f][k].name = n
    /\ ~ At(f, k)

NsOK ==
  \A f \in DOMAIN ns : \A n \in DOMAIN ns[f] \ Aliases :
    \/ ns[f][n] = Python!Builtin(n) /\ n \in FromLibraries
    \/ Executed(ns[f][n], n)

PyInv == PyShape /\ Ran /\ PyReached /\ Least /\ NsOK

PyInitial ==
  /\ running = <<[file |-> Root, at |-> 1]>>
  /\ ns = [f \in {Root} |-> Python!NoNames]
  /\ imported = "running"

-----------------------------------------------------------------------------
(* Python on the way to the statement where the compiler stopped.           *)
Plain ==
  /\ Aliases = {}
  /\ \A s \in Statements : s.op \in {"def", "import"}
  /\ \A s \in Imports :
       s.from \notin Libraries => \A n \in s.names : n.name \notin FromLibraries
  /\ \A d, e \in Definitions : Named(d).name = Named(e).name => d = e

(* Python is in the file of the activation i, and below they agree.         *)
Along(i) ==
  /\ i <= Len(running)
  /\ \A j \in 1 .. i - 1 : running[j] = Points(stack)[j]
  /\ running[i].file = stack[i].file

(* Of the files in D, none is the one the activation i begins; or, if it is *)
(* the innermost, the compiler has begun them all.                          *)
Fresh(i, D) ==
  \/ i < Len(stack) /\ stack[i + 1].file \notin D
  \/ i = Len(stack) /\ D \subseteq loaded

Before ==
  /\ imported = "running"
  /\ \E i \in 1 .. Len(stack) :
       /\ Along(i)
       /\ \/ running[i].at < Pos(stack[i])
          \/ /\ running[i].at = Pos(stack[i])
             /\ \/ Len(running) = i /\ Fresh(i, DOMAIN ns)
                \/ Len(running) > i /\ i = Len(stack) /\ Top.phase = "verify"

After ==
  /\ Top.phase = "bodies"
  /\ Top.file \in DOMAIN ns
  /\ imported = "ready" \/ \A j \in 1 .. Len(running) : running[j].file # Top.file
  /\ \A c \in DOMAIN ns[Top.file] :
       ns[Top.file][c] = Python!Builtin(c) \/ c \in DOMAIN signatures

Together ==
  /\ verdict = "lowering" => PyInitial
  /\ verdict = "rejected" /\ stack # <<>> /\ Plain =>
       imported = "raised" \/ Before \/ After

-----------------------------------------------------------------------------
LEMMA AwaitsIs ==
  ASSUME NEW s, NEW f, NEW k
  PROVE  Awaits(s, f, k) <=> \E j \in 1 .. Len(s) : s[j].file = f /\ Pos(s[j]) <= k
BY DEF Awaits, Ahead, Points

LEMMA GoodSame ==
  ASSUME NEW M, NEW r, NEW t, NEW i, Good(M, r, i), \A j \in 1 .. i : r[j] = t[j]
  PROVE  Good(M, t, i)
BY DEF Good, Ahead

LEMMA PointsAre ==
  ASSUME NEW s, NEW j \in 1 .. Len(s)
  PROVE  Points(s)[j] = [file |-> s[j].file, at |-> Pos(s[j])]
BY DEF Points

LEMMA PosIsNat ==
  ASSUME IInv, NEW a \in Act
  PROVE  /\ Pos(a) \in Nat \ {0}
         /\ ActOK(a, loaded) => Pos(a) <= Len(prog[a.file]) + 1
<1>1. /\ a.file \in DOMAIN prog /\ a.at \in Nat \ {0}
      /\ Len(prog[a.file]) \in Nat
  BY DEF Act, IInv, FilesOK
<1>2. QED  BY <1>1 DEF Pos, ActOK

(* What awaits the three changes of the stack.                              *)
LEMMA ReplaceAwaits ==
  ASSUME IInv, stack # <<>>, NEW a \in Act, a.file = Top.file, NEW f, NEW k
  PROVE  /\ Awaits(stack, Top.file, k) <=> Pos(Top) <= k
         /\ Awaits(Replace(a), f, k) <=>
              IF f = Top.file THEN Pos(a) <= k ELSE Awaits(stack, f, k)
<1>1. /\ Len(stack) \in Nat \ {0} /\ Len(stack) \in 1 .. Len(stack)
      /\ Top = stack[Len(stack)]
      /\ \A i, j \in 1 .. Len(stack) : stack[i].file = stack[j].file => i = j
  BY TopIsAct DEF IInv, Shape
<1>2. /\ Len(Replace(a)) = Len(stack)
      /\ \A j \in 1 .. Len(stack) :
           Replace(a)[j] = IF j = Len(stack) THEN a ELSE stack[j]
  BY ReplaceLast DEF Replace, Shape, IInv
<1>3. Awaits(stack, Top.file, k) <=> Pos(Top) <= k
  BY <1>1, AwaitsIs
<1>4. CASE f = Top.file
  <2>1. \A j \in 1 .. Len(stack) : Replace(a)[j].file = stack[j].file
    BY <1>1, <1>2
  <2>2. Awaits(Replace(a), f, k) <=> Pos(a) <= k
    BY <1>1, <1>2, <1>4, <2>1, AwaitsIs
  <2>3. QED  BY <1>3, <1>4, <2>2
<1>5. CASE f # Top.file
  <2>1. \A j \in 1 .. Len(stack) :
          \/ Replace(a)[j].file # f /\ stack[j].file # f
          \/ Replace(a)[j] = stack[j]
    BY <1>1, <1>2, <1>5
  <2>2. Awaits(Replace(a), f, k) <=> Awaits(stack, f, k)
    BY <1>2, <2>1, AwaitsIs
  <2>3. QED  BY <1>3, <1>5, <2>2
<1>6. QED  BY <1>4, <1>5

LEMMA PushAwaits ==
  ASSUME NEW s \in Seq(Act), NEW g \in DOMAIN prog,
         \A j \in 1 .. Len(s) : s[j].file # g, NEW f, NEW k
  PROVE  Awaits(Append(s, Activation(g)), f, k) <=>
           IF f = g THEN 1 <= k ELSE Awaits(s, f, k)
<1> DEFINE t == Append(s, Activation(g))
<1>1. Activation(g) \in Act
  <2>1. <<>> \in Seq(Nat)
    OBVIOUS
  <2>2. QED  BY <2>1 DEF Activation, Act, Phases
<1>2. /\ Len(t) = Len(s) + 1
      /\ Len(s) \in Nat
      /\ \A j \in 1 .. Len(s) + 1 :
           t[j] = IF j = Len(s) + 1 THEN Activation(g) ELSE s[j]
  BY <1>1, AppendOne
<1>3. Activation(g).file = g /\ Pos(Activation(g)) = 1
  BY DEF Activation, Pos
<1> HIDE DEF t
<1>4. t[Len(s) + 1] = Activation(g) /\ \A j \in 1 .. Len(s) : t[j] = s[j]
  BY <1>2
<1>5. \A j : j \in 1 .. Len(t) <=> j \in 1 .. Len(s) \/ j = Len(s) + 1
  BY <1>2
<1>6. Awaits(t, f, k) <=> \/ g = f /\ 1 <= k
                         \/ \E j \in 1 .. Len(s) : s[j].file = f /\ Pos(s[j]) <= k
  BY <1>3, <1>4, <1>5, AwaitsIs
<1>7. QED  BY <1>6, AwaitsIs DEF t

LEMMA PopAwaits ==
  ASSUME IInv, stack # <<>>, NEW f, NEW k
  PROVE  Awaits(Front(stack), f, k) <=> f # Top.file /\ Awaits(stack, f, k)
<1>1. /\ Front(stack) \in Seq(Act)
      /\ Len(Front(stack)) = Len(stack) - 1
      /\ Len(stack) \in Nat \ {0}
      /\ Top = stack[Len(stack)]
      /\ \A j \in 1 .. Len(stack) - 1 : Front(stack)[j] = stack[j]
      /\ \A i, j \in 1 .. Len(stack) : stack[i].file = stack[j].file => i = j
  BY RemoveLast, TopIsAct DEF Shape, IInv
<1>2. \A j : j \in 1 .. Len(stack) <=> j \in 1 .. Len(Front(stack)) \/ j = Len(stack)
  BY <1>1
<1>3. \A j \in 1 .. Len(Front(stack)) :
        Front(stack)[j] = stack[j] /\ stack[j].file # Top.file
  BY <1>1
<1>4. QED  BY <1>1, <1>2, <1>3, AwaitsIs

(* Tables that only grow keep what the calls have become.                   *)
Grows(table, more) ==
  \A n \in DOMAIN table : n \in DOMAIN more /\ more[n] = table[n]

LEMMA InsertGrows ==
  ASSUME NEW table, NEW name, NEW d, name \notin DOMAIN table
  PROVE  Grows(table, Insert(table, name, d))
BY DEF Grows, Insert

LEMMA CallsKept ==
  ASSUME CallsOK, UNCHANGED emitted,
         Grows(registry, registry'), Grows(signatures, signatures')
  PROVE  CallsOK'
<1>1. SUFFICES ASSUME NEW i \in 1 .. Len(emitted), NEW c \in DOMAIN emitted[i].calls
               PROVE  LET t == emitted[i].calls[c]
                      IN  \/ c \in DOMAIN registry' /\ t = registry'[c]
                          \/ c \in Inlined /\ t = Python!Builtin(c)
                          \/ c \in DOMAIN signatures' /\ t = signatures'[c]
  BY DEF CallsOK
<1>2. LET t == emitted[i].calls[c]
      IN  \/ c \in DOMAIN registry /\ t = registry[c]
          \/ c \in Inlined /\ t = Python!Builtin(c)
          \/ c \in DOMAIN signatures /\ t = signatures[c]
  BY DEF CallsOK
<1>3. QED  BY <1>2 DEF Grows

(* The statement k of f has been entered in the table t, l being the files  *)
(* begun.                                                                   *)
ClassIn(t, f, k) ==
  prog[f][k].op = "class" =>
    prog[f][k].name \in DOMAIN t /\ t[prog[f][k].name] = <<f, k>>
NameIn(t, l, f, k) ==
  /\ prog[f][k].op = "def" =>
       prog[f][k].name \in DOMAIN t /\ t[prog[f][k].name] = <<f, k>>
  /\ Needs(f, k) => prog[f][k].from \in l

(* The innermost activation moves on.                                       *)
LEMMA MoveKeepsCompiler ==
  ASSUME IInv, CompilerInv, verdict = "lowering", stack # <<>>,
         NEW a \in Act, a.file = Top.file, a.phase # "verify",
         Pos(Top) <= Pos(a),
         stack' = Replace(a), UNCHANGED <<prog, loaded, verdict>>,
         Grows(registry, registry'), Grows(signatures, signatures'),
         Top.phase = "classes" =>
           \A k \in DOMAIN prog[Top.file] :
             Top.at <= k => \/ a.phase = "classes" /\ a.at <= k
                            \/ ClassIn(registry', Top.file, k),
         \A k \in DOMAIN prog[Top.file] :
           Pos(Top) <= k => Pos(a) <= k \/ NameIn(signatures', loaded, Top.file, k),
         \A n \in DOMAIN signatures' :
           \/ n \in DOMAIN signatures
           \/ \E k \in Nat : signatures'[n] = <<Top.file, k>> /\ k < Pos(a),
         CallsOK'
  PROVE  CompilerInv'
<1>1. /\ Len(stack) \in Nat \ {0} /\ Top = stack[Len(stack)]
      /\ Top \in Act /\ ActOK(Top, loaded)
  BY TopIsAct DEF IInv
<1>2. /\ Len(stack') = Len(stack)
      /\ \A j \in 1 .. Len(stack) : stack'[j] = IF j = Len(stack) THEN a ELSE stack[j]
  BY ReplaceLast DEF Replace, Shape, IInv
<1>3. \A b : Pos(b)' = Pos(b)
  BY DEF Pos
<1>4. /\ \A f, k : Awaits(stack', f, k) = Awaits(stack, f, k)'
      /\ \A f, k : Needs(f, k)' = Needs(f, k)
      /\ \A f, k : Awaits(stack', f, k) <=>
           IF f = Top.file THEN Pos(a) <= k ELSE Awaits(stack, f, k)
      /\ \A k : Awaits(stack, Top.file, k) <=> Pos(Top) <= k
  <2>1. \A f, k : Awaits(stack', f, k) = Awaits(stack, f, k)'
    BY <1>3 DEF Awaits, Ahead, Points
  <2>2. \A f, k : Awaits(stack', f, k) <=>
           IF f = Top.file THEN Pos(a) <= k ELSE Awaits(stack, f, k)
    BY ReplaceAwaits
  <2>3. \A k : Awaits(stack, Top.file, k) <=> Pos(Top) <= k
    BY ReplaceAwaits
  <2>4. QED  BY <2>1, <2>2, <2>3 DEF Needs
<1>5. Pos(Top) \in Nat /\ Pos(a) \in Nat
  BY <1>1, PosIsNat
<1>6. \A i, j \in 1 .. Len(stack) : stack[i].file = stack[j].file => i = j
  BY DEF IInv, Shape
<1>7. ClassesCovered'
  <2>1. SUFFICES ASSUME NEW f \in loaded, NEW k \in DOMAIN prog[f],
                        prog[f][k].op = "class"
                 PROVE  \/ /\ prog[f][k].name \in DOMAIN registry'
                           /\ registry'[prog[f][k].name] = <<f, k>>
                        \/ \E j \in 1 .. Len(stack') :
                             /\ stack'[j].file = f
                             /\ stack'[j].phase = "classes" /\ stack'[j].at <= k
    BY DEF ClassesCovered
  <2>2. CASE prog[f][k].name \in DOMAIN registry /\ registry[prog[f][k].name] = <<f, k>>
    BY <2>2 DEF Grows
  <2>3. CASE \E j \in 1 .. Len(stack) :
               stack[j].file = f /\ stack[j].phase = "classes" /\ stack[j].at <= k
    <3>1. PICK j \in 1 .. Len(stack) :
            stack[j].file = f /\ stack[j].phase = "classes" /\ stack[j].at <= k
      BY <2>3
    <3>2. CASE j = Len(stack)
      BY <1>1, <1>2, <2>1, <3>1, <3>2 DEF ClassIn
    <3>3. CASE j # Len(stack)
      BY <1>2, <3>1, <3>3
    <3>4. QED  BY <3>2, <3>3
  <2>4. QED  BY <2>1, <2>2, <2>3 DEF CompilerInv, ClassesCovered
<1>8. NamesCovered'
  <2>1. SUFFICES ASSUME NEW f \in loaded, NEW k \in DOMAIN prog[f]
                 PROVE  Awaits(stack', f, k) \/ NameIn(signatures', loaded, f, k)
    BY <1>4 DEF NamesCovered, NameIn
  <2>2. CASE NameIn(signatures, loaded, f, k)
    BY <2>2 DEF NameIn, Grows
  <2>3. CASE f # Top.file /\ Awaits(stack, f, k)
    BY <1>4, <2>3
  <2>4. CASE f = Top.file /\ Awaits(stack, f, k)
    BY <1>4, <2>4
  <2>5. QED  BY <2>2, <2>3, <2>4 DEF CompilerInv, NamesCovered, NameIn
<1>9. SignedPast'
  <2>1. SUFFICES ASSUME NEW n \in DOMAIN signatures'
                 PROVE  /\ signatures'[n][1] \in loaded
                        /\ ~ Awaits(stack', signatures'[n][1], signatures'[n][2])
    BY <1>4 DEF SignedPast
  <2>2. CASE n \in DOMAIN signatures
    <3>1. /\ signatures'[n] = signatures[n]
          /\ signatures[n][1] \in loaded
          /\ ~ Awaits(stack, signatures[n][1], signatures[n][2])
      BY <2>2 DEF Grows, CompilerInv, SignedPast
    <3>2. signatures[n][2] \in Nat
      <4>1. PICK f \in DOMAIN prog : \E k \in DOMAIN prog[f] : signatures[n] = <<f, k>>
        BY <2>2 DEF IInv, TablesOK, TableOK, Definitions
      <4>2. prog[f] \in Seq(ToSet(prog[f]))
        BY DEF IInv, FilesOK
      <4>3. DOMAIN prog[f] \subseteq Nat
        BY <4>2
      <4>4. QED  BY <4>1, <4>3
    <3>3. ~ Awaits(stack', signatures[n][1], signatures[n][2])
      <4>1. CASE signatures[n][1] = Top.file
        <5>1. ~ Pos(Top) <= signatures[n][2]
          BY <1>4, <3>1, <4>1
        <5>2. ~ Pos(a) <= signatures[n][2]
          BY <1>5, <3>2, <5>1
        <5>3. QED  BY <1>4, <4>1, <5>2
      <4>2. CASE signatures[n][1] # Top.file
        BY <1>4, <3>1, <4>2
      <4>3. QED  BY <4>1, <4>2
    <3>4. QED  BY <3>1, <3>3
  <2>3. CASE n \notin DOMAIN signatures
    <3>1. PICK k \in Nat : signatures'[n] = <<Top.file, k>> /\ k < Pos(a)
      BY <2>3
    <3>2. signatures'[n][1] = Top.file /\ signatures'[n][2] = k
      BY <3>1
    <3>3. ~ Pos(a) <= k /\ Top.file \in loaded
      BY <1>1, <1>5, <3>1 DEF ActOK
    <3>4. QED  BY <1>4, <3>2, <3>3
  <2>4. QED  BY <2>2, <2>3
<1>10. PathOK'
  <2>1. /\ stack'[1].file = stack[1].file /\ stack' # <<>>
    BY <1>1, <1>2
  <2>2. ASSUME NEW j \in 1 .. Len(stack'), stack'[j].phase = "verify"
        PROVE  /\ Needs(stack'[j].file, stack'[j].at)
               /\ prog[stack'[j].file][stack'[j].at].from \in loaded
               /\ j < Len(stack') =>
                    prog[stack'[j].file][stack'[j].at].from = stack'[j + 1].file
    <3>1. j # Len(stack) /\ stack'[j] = stack[j] /\ j \in 1 .. Len(stack)
      BY <1>2, <2>2
    <3>2. j < Len(stack) /\ j + 1 \in 1 .. Len(stack) /\ stack'[j + 1].file = stack[j + 1].file
      BY <1>1, <1>2, <3>1
    <3>3. /\ Needs(stack[j].file, stack[j].at)
          /\ prog[stack[j].file][stack[j].at].from \in loaded
          /\ prog[stack[j].file][stack[j].at].from = stack[j + 1].file
      BY <2>2, <3>1, <3>2 DEF CompilerInv, PathOK
    <3>4. QED  BY <3>1, <3>2, <3>3
  <2>3. stack[1].file = Root
    BY DEF CompilerInv, PathOK
  <2>4. QED  BY <1>4, <2>1, <2>2, <2>3 DEF PathOK
<1>11. OrderOK'
  <2>1. SUFFICES ASSUME NEW j \in 1 .. Len(stack), j < Len(stack)
                 PROVE  \E M : Good(M, Points(stack'), j) /\ stack'[j + 1].file \notin M
    <3>1. \A M, r, i : Good(M, r, i)' = Good(M, r', i)
      BY DEF Good, Ahead, Needs
    <3>2. Points(stack)' = Points(stack')
      BY <1>3 DEF Points
    <3>3. QED  BY <1>2, <2>1, <3>1, <3>2 DEF OrderOK
  <2>2. PICK M : Good(M, Points(stack), j) /\ stack[j + 1].file \notin M
    BY <2>1 DEF CompilerInv, OrderOK
  <2>3. \A i \in 1 .. j : Points(stack)[i] = Points(stack')[i]
    <3>1. SUFFICES ASSUME NEW i \in 1 .. j PROVE Points(stack)[i] = Points(stack')[i]
      OBVIOUS
    <3>2. i \in 1 .. Len(stack) /\ i \in 1 .. Len(stack') /\ stack'[i] = stack[i]
      BY <1>1, <1>2, <2>1
    <3>3. Points(stack)[i] = [file |-> stack[i].file, at |-> Pos(stack[i])]
      BY <3>2, PointsAre
    <3>4. Points(stack')[i] = [file |-> stack'[i].file, at |-> Pos(stack'[i])]
      BY <3>2, PointsAre
    <3>5. QED  BY <3>2, <3>3, <3>4
  <2>4. Good(M, Points(stack'), j)
    BY <2>2, <2>3, GoodSame
  <2>5. stack'[j + 1].file = stack[j + 1].file
    BY <1>1, <1>2, <2>1
  <2>6. QED  BY <2>2, <2>4, <2>5
<1>12. Reached'
  BY DEF CompilerInv, Reached, Closed, Needs
<1>13. QED
  BY <1>7, <1>8, <1>9, <1>10, <1>11, <1>12 DEF CompilerInv

(* The innermost activation is past the statement it has read.              *)
LEMMA NextKeepsCompiler ==
  ASSUME IInv, CompilerInv, UNCHANGED <<prog, loaded, verdict, emitted>>,
         NEW phase \in {"classes", "names"}, NEW op, Reads(phase, op),
         NEW ds \in Seq(Nat),
         stack' = Replace(Going(phase, Top.at + 1, ds)),
         Grows(registry, registry'), Grows(signatures, signatures'),
         phase = "classes" => ClassIn(registry', Top.file, Top.at),
         phase = "names" => NameIn(signatures', loaded, Top.file, Top.at),
         \A n \in DOMAIN signatures' :
           \/ n \in DOMAIN signatures
           \/ phase = "names" /\ signatures'[n] = <<Top.file, Top.at>>
  PROVE  CompilerInv'
<1> DEFINE a == Going(phase, Top.at + 1, ds)
<1>1. /\ verdict = "lowering" /\ stack # <<>>
      /\ Top \in Act /\ ActOK(Top, loaded) /\ Top.phase = phase
      /\ Top.at \in Nat /\ Len(prog[Top.file]) \in Nat
      /\ DOMAIN prog[Top.file] \subseteq Nat
  BY Reading
<1>2. /\ a \in Act /\ a.file = Top.file /\ a.phase = phase /\ a.at = Top.at + 1
  <2>1. phase \in Phases /\ Top.at + 1 \in Nat \ {0}
    BY <1>1 DEF Phases
  <2>2. QED  BY <1>1, <2>1, GoingIsAct
<1>3. stack' = Replace(a)
  OBVIOUS
<1> HIDE DEF a
<1>4. CallsOK'
  BY CallsKept DEF CompilerInv
<1>5. \A k \in DOMAIN prog[Top.file] : Top.at <= k => k = Top.at \/ a.at <= k
  BY <1>1, <1>2
<1>6. CASE phase = "classes"
  <2>1. Pos(Top) = 1 /\ Pos(a) = 1 /\ a.phase = "classes" /\ Top.phase = "classes"
    BY <1>1, <1>2, <1>6 DEF Pos
  <2>2. \A k \in DOMAIN prog[Top.file] :
          Top.at <= k => \/ a.phase = "classes" /\ a.at <= k
                         \/ ClassIn(registry', Top.file, k)
    BY <1>5, <1>6, <2>1
  <2>3. \A n \in DOMAIN signatures' : n \in DOMAIN signatures
    BY <1>6
  <2>4. QED
    BY <1>1, <1>2, <1>3, <1>4, <2>1, <2>2, <2>3, MoveKeepsCompiler
<1>7. CASE phase = "names"
  <2>1. Pos(Top) = Top.at /\ Pos(a) = Top.at + 1 /\ a.phase = "names" /\ Top.phase = "names"
    BY <1>1, <1>2, <1>7 DEF Pos
  <2>2. \A k \in DOMAIN prog[Top.file] :
          Pos(Top) <= k => Pos(a) <= k \/ NameIn(signatures', loaded, Top.file, k)
    BY <1>2, <1>5, <1>7, <2>1
  <2>3. Pos(Top) <= Pos(a) /\ Top.at < Pos(a)
    BY <1>1, <2>1
  <2>4. \A n \in DOMAIN signatures' :
           \/ n \in DOMAIN signatures
           \/ \E k \in Nat : signatures'[n] = <<Top.file, k>> /\ k < Pos(a)
    BY <1>1, <2>3
  <2>5. QED
    BY <1>1, <1>2, <1>3, <1>4, <2>1, <2>2, <2>3, <2>4, MoveKeepsCompiler
<1>8. QED  BY <1>6, <1>7

LEMMA GrowsSame == ASSUME NEW table PROVE Grows(table, table)
BY DEF Grows

LEMMA RegisterClassCompiler ==
  ASSUME IInv, CompilerInv, UNCHANGED prog, RegisterClass
  PROVE  CompilerInv'
<1>1. /\ Reads("classes", "class")
      /\ registry' = Insert(registry, Stmt.name, <<Top.file, Top.at>>)
      /\ Stmt.name \notin DOMAIN registry
      /\ stack' = Replace(Going(Top.phase, Top.at + 1, Top.defs))
      /\ UNCHANGED <<loaded, signatures, emitted, verdict>>
  BY DEF RegisterClass, NextStmt
<1>2. /\ Top.phase = "classes" /\ Top.defs \in Seq(Nat)
      /\ Stmt = prog[Top.file][Top.at]
  BY <1>1, Reading DEF Act
<1>3. Grows(registry, registry') /\ Grows(signatures, signatures')
  BY <1>1, InsertGrows, GrowsSame
<1>4. ClassIn(registry', Top.file, Top.at)
  BY <1>1, <1>2 DEF ClassIn, Insert
<1>5. QED  BY <1>1, <1>2, <1>3, <1>4, NextKeepsCompiler

LEMMA SkipCompiler ==
  ASSUME IInv, CompilerInv, UNCHANGED prog, Skip \/ SkipLoaded
  PROVE  CompilerInv'
<1>1. /\ stack' = Replace(Going(Top.phase, Top.at + 1, Top.defs))
      /\ UNCHANGED <<loaded, signatures, registry, emitted, verdict>>
  BY DEF Skip, SkipLoaded, NextStmt
<1>2. Grows(registry, registry') /\ Grows(signatures, signatures')
  BY <1>1, GrowsSame
<1>3. CASE \E op \in {"def", "import", "other"} : Reads("classes", op)
  <2>1. PICK op \in {"def", "import", "other"} : Reads("classes", op)
    BY <1>3
  <2>2. /\ Top.phase = "classes" /\ Top.defs \in Seq(Nat)
        /\ prog[Top.file][Top.at].op # "class"
    BY <2>1, Reading DEF Act
  <2>3. ClassIn(registry', Top.file, Top.at)
    BY <2>2 DEF ClassIn
  <2>4. QED  BY <1>1, <1>2, <2>1, <2>2, <2>3, NextKeepsCompiler
<1>4. CASE Reads("names", "class")
  <2>1. /\ Top.phase = "names" /\ Top.defs \in Seq(Nat)
        /\ prog[Top.file][Top.at].op = "class"
    BY <1>4, Reading DEF Act
  <2>2. NameIn(signatures', loaded, Top.file, Top.at)
    BY <2>1 DEF NameIn, Needs
  <2>3. QED  BY <1>1, <1>2, <1>4, <2>1, <2>2, NextKeepsCompiler
<1>5. CASE Reads("names", "import") /\ Stmt.from \in Libraries \cup loaded
  <2>1. /\ Top.phase = "names" /\ Top.defs \in Seq(Nat)
        /\ Stmt = prog[Top.file][Top.at] /\ Stmt.op = "import"
    BY <1>5, Reading DEF Act
  <2>2. Needs(Top.file, Top.at) => Stmt.from \in loaded
    BY <1>5, <2>1, LibrariesAssumption DEF Needs, CompilerInv
  <2>3. NameIn(signatures', loaded, Top.file, Top.at)
    BY <2>1, <2>2 DEF NameIn
  <2>4. QED  BY <1>1, <1>2, <1>5, <2>1, <2>3, NextKeepsCompiler
<1>6. QED  BY <1>3, <1>4, <1>5 DEF Skip, SkipLoaded

LEMMA CollectSignatureCompiler ==
  ASSUME IInv, CompilerInv, UNCHANGED prog, CollectSignature
  PROVE  CompilerInv'
<1>1. /\ Reads("names", "def")
      /\ signatures' = Insert(signatures, Stmt.name, <<Top.file, Top.at>>)
      /\ Stmt.name \notin DOMAIN signatures
      /\ stack' = Replace(Going("names", Top.at + 1, Append(Top.defs, Top.at)))
      /\ UNCHANGED <<loaded, registry, emitted, verdict>>
  BY DEF CollectSignature
<1>2. /\ Top.defs \in Seq(Nat) /\ Top.at \in Nat
      /\ Stmt = prog[Top.file][Top.at] /\ Stmt.op = "def"
  BY <1>1, Reading DEF Act
<1>3. Grows(registry, registry') /\ Grows(signatures, signatures')
  BY <1>1, InsertGrows, GrowsSame
<1>4. NameIn(signatures', loaded, Top.file, Top.at)
  BY <1>1, <1>2 DEF NameIn, Insert, Needs
<1>5. \A n \in DOMAIN signatures' :
        n \in DOMAIN signatures \/ signatures'[n] = <<Top.file, Top.at>>
  BY <1>1 DEF Insert
<1>6. Append(Top.defs, Top.at) \in Seq(Nat)
  BY <1>2
<1>7. QED  BY <1>1, <1>3, <1>4, <1>5, <1>6, NextKeepsCompiler

(* The end of a pass.                                                       *)
LEMMA EndPassCompiler ==
  ASSUME IInv, CompilerInv, UNCHANGED prog,
         EndPass("classes", "names") \/ EndPass("names", "bodies")
  PROVE  CompilerInv'
<1>1. PICK phase \in {"classes", "names"}, next \in {"names", "bodies"} :
        EndPass(phase, next) /\ (phase = "names" <=> next = "bodies")
  OBVIOUS
<1> DEFINE a == Going(next, 1, Top.defs)
<1>2. /\ verdict = "lowering" /\ stack # <<>> /\ Top.phase = phase
      /\ Top.at > Len(Body) /\ Body = prog[Top.file]
      /\ stack' = Replace(a)
      /\ UNCHANGED <<loaded, signatures, registry, emitted, verdict>>
  BY <1>1 DEF EndPass, In, Enter, Body
<1>3. Top \in Act /\ ActOK(Top, loaded)
  BY <1>2, TopIsAct DEF IInv
<1>4. a \in Act /\ a.file = Top.file /\ a.phase = next /\ a.at = 1
  <2>1. next \in Phases /\ Top.defs \in Seq(Nat)
    BY <1>3 DEF Phases, Act
  <2>2. QED  BY <1>3, <2>1, GoingIsAct
<1> HIDE DEF a
<1>5. /\ Len(prog[Top.file]) \in Nat /\ Top.at \in Nat
      /\ DOMAIN prog[Top.file] = 1 .. Len(prog[Top.file])
  BY <1>3 DEF Act, IInv, FilesOK
<1>6. \A k \in DOMAIN prog[Top.file] : ~ Top.at <= k
  BY <1>2, <1>5
<1>7. CallsOK'
  BY <1>2, CallsKept, GrowsSame DEF CompilerInv
<1>8. Pos(Top) <= Pos(a)
  <2>1. CASE phase = "classes"
    BY <1>1, <1>2, <1>4, <2>1 DEF Pos
  <2>2. CASE phase = "names"
    <3>1. Pos(Top) = Top.at /\ Pos(a) = Len(prog[Top.file]) + 1
      BY <1>1, <1>2, <1>4, <2>2 DEF Pos
    <3>2. QED  BY <1>3, <3>1 DEF ActOK
  <2>3. QED  BY <2>1, <2>2
<1>9. \A k \in DOMAIN prog[Top.file] : Pos(Top) <= k => Pos(a) <= k
  <2>1. CASE phase = "classes"
    <3>1. Pos(a) = 1
      BY <1>1, <1>4, <2>1 DEF Pos
    <3>2. QED  BY <1>5, <3>1
  <2>2. CASE phase = "names"
    <3>1. Pos(Top) = Top.at
      BY <1>2, <2>2 DEF Pos
    <3>2. QED  BY <1>6, <3>1
  <2>3. QED  BY <2>1, <2>2
<1>10. QED
  BY <1>2, <1>4, <1>6, <1>7, <1>8, <1>9, GrowsSame, MoveKeepsCompiler

(* An import is done: its file was begun when it was pushed.                *)
LEMMA VerifyNamesCompiler ==
  ASSUME IInv, CompilerInv, UNCHANGED prog, VerifyNames
  PROVE  CompilerInv'
<1> DEFINE a == Going("names", Top.at + 1, Top.defs)
<1>1. /\ verdict = "lowering" /\ stack # <<>> /\ Top.phase = "verify"
      /\ stack' = Replace(a)
      /\ UNCHANGED <<loaded, signatures, registry, emitted, verdict>>
  BY DEF VerifyNames, In
<1>2. /\ Top \in Act /\ Len(stack) \in 1 .. Len(stack) /\ Top = stack[Len(stack)]
  BY <1>1, TopIsAct DEF IInv
<1>3. a \in Act /\ a.file = Top.file /\ a.phase = "names" /\ a.at = Top.at + 1
  <2>1. /\ "names" \in Phases /\ Top.at + 1 \in Nat \ {0} /\ Top.defs \in Seq(Nat)
    BY <1>2 DEF Act, Phases
  <2>2. QED  BY <1>2, <2>1, GoingIsAct
<1> HIDE DEF a
<1>4. Pos(Top) = Top.at /\ Pos(a) = Top.at + 1
  BY <1>1, <1>3 DEF Pos
<1>5. /\ Top.at \in Nat /\ Len(prog[Top.file]) \in Nat
      /\ DOMAIN prog[Top.file] \subseteq Nat
  BY <1>2 DEF Act, IInv, FilesOK
<1>6. NameIn(signatures', loaded, Top.file, Top.at)
  <2>1. /\ Needs(Top.file, Top.at)
        /\ prog[Top.file][Top.at].from \in loaded
    BY <1>1, <1>2 DEF CompilerInv, PathOK
  <2>2. QED  BY <2>1 DEF NameIn, Needs
<1>7. \A k \in DOMAIN prog[Top.file] :
        Pos(Top) <= k => Pos(a) <= k \/ NameIn(signatures', loaded, Top.file, k)
  <2>1. \A k \in DOMAIN prog[Top.file] : Top.at <= k => Top.at + 1 <= k \/ k = Top.at
    BY <1>5
  <2>2. QED  BY <1>4, <1>6, <2>1
<1>8. CallsOK'
  BY <1>1, CallsKept, GrowsSame DEF CompilerInv
<1>9. Pos(Top) <= Pos(a)
  BY <1>4, <1>5
<1>10. QED
  BY <1>1, <1>3, <1>7, <1>8, <1>9, GrowsSame, MoveKeepsCompiler

LEMMA LowerFunctionCompiler ==
  ASSUME IInv, CompilerInv, UNCHANGED prog, LowerFunction
  PROVE  CompilerInv'
<1> DEFINE a == Going(Top.phase, Top.at + 1, Top.defs)
           e == [def |-> <<Top.file, Top.defs[Top.at]>>, calls |-> Calls]
<1>1. /\ verdict = "lowering" /\ stack # <<>> /\ Top.phase = "bodies"
      /\ \A c \in NextDef.calls : Target(c) # None
      /\ emitted' = Append(emitted, e)
      /\ stack' = Replace(a)
      /\ UNCHANGED <<loaded, signatures, registry, verdict>>
  BY DEF LowerFunction, In, NextStmt
<1>2. Top \in Act
  BY <1>1, TopIsAct DEF IInv
<1>3. a \in Act /\ a.file = Top.file /\ a.phase = "bodies"
  <2>1. /\ Top.phase \in Phases /\ Top.at + 1 \in Nat \ {0} /\ Top.defs \in Seq(Nat)
    BY <1>2 DEF Act
  <2>2. QED  BY <1>1, <1>2, <2>1, GoingIsAct
<1> HIDE DEF a
<1>4. Pos(a) = Pos(Top)
  BY <1>1, <1>3 DEF Pos
<1>5. DOMAIN Calls = NextDef.calls /\ \A c \in NextDef.calls : Calls[c] = Target(c)
  BY DEF Calls
<1>6. CallsOK'
  <2> DEFINE Right(x) == \A c \in DOMAIN x.calls :
               \/ c \in DOMAIN registry /\ x.calls[c] = registry[c]
               \/ c \in Inlined /\ x.calls[c] = Python!Builtin(c)
               \/ c \in DOMAIN signatures /\ x.calls[c] = signatures[c]
  <2>1. Right(e)
    BY <1>1, <1>5 DEF Target
  <2>2. \A i \in 1 .. Len(emitted) : Right(emitted[i])
    BY DEF CompilerInv, CallsOK
  <2>3. emitted \in Seq(ToSet(emitted) \cup {e})
    <3>1. emitted \in Seq(ToSet(emitted))
      BY DEF IInv, EmittedOK
    <3>2. QED  BY <3>1, SeqMonotonic
  <2> HIDE DEF e, Right
  <2>4. /\ Len(emitted') = Len(emitted) + 1
        /\ \A i \in 1 .. Len(emitted) + 1 :
             emitted'[i] = IF i = Len(emitted) + 1 THEN e ELSE emitted[i]
    BY <1>1, <2>3, AppendOne
  <2>5. Len(emitted) \in Nat
    BY <2>3
  <2>6. \A i \in 1 .. Len(emitted) + 1 : i \in 1 .. Len(emitted) \/ i = Len(emitted) + 1
    BY <2>5
  <2>7. \A i \in 1 .. Len(emitted') : Right(emitted'[i])
    BY <2>1, <2>2, <2>4, <2>6
  <2>8. QED  BY <1>1, <2>7 DEF CallsOK, Right
<1>7. Pos(Top) \in Nat
  BY <1>2, PosIsNat
<1>8. QED
  BY <1>1, <1>3, <1>4, <1>6, <1>7, GrowsSame, MoveKeepsCompiler

(* What the next state has to satisfy of a stack of the same points.        *)
LEMMA OrderPrimed ==
  ASSUME UNCHANGED prog,
         \A j \in 1 .. Len(stack') : j < Len(stack') =>
           \E M : Good(M, Points(stack'), j) /\ stack'[j + 1].file \notin M
  PROVE  OrderOK'
<1>1. \A M, r, i : Good(M, r, i)' = Good(M, r', i)
  BY DEF Good, Ahead, Needs
<1>2. Points(stack)' = Points(stack')
  BY DEF Points, Pos
<1>3. QED  BY <1>1, <1>2 DEF OrderOK

LEMMA PathPrimed ==
  ASSUME UNCHANGED prog,
         stack' # <<>> => stack'[1].file = Root,
         \A j \in 1 .. Len(stack') : stack'[j].phase = "verify" =>
           /\ Needs(stack'[j].file, stack'[j].at)
           /\ prog[stack'[j].file][stack'[j].at].from \in loaded'
           /\ j < Len(stack') =>
                prog[stack'[j].file][stack'[j].at].from = stack'[j + 1].file
  PROVE  PathOK'
BY DEF PathOK, Needs

LEMMA PointsShared ==
  ASSUME NEW s, NEW t, NEW i, i <= Len(s), i <= Len(t), Len(s) \in Nat, Len(t) \in Nat,
         i \in Nat,
         \A j \in 1 .. i : s[j].file = t[j].file /\ Pos(s[j]) = Pos(t[j])
  PROVE  \A j \in 1 .. i : Points(s)[j] = Points(t)[j]
<1>1. SUFFICES ASSUME NEW j \in 1 .. i PROVE Points(s)[j] = Points(t)[j]
  OBVIOUS
<1>2. j \in 1 .. Len(s) /\ j \in 1 .. Len(t)
  OBVIOUS
<1>3. Points(s)[j] = [file |-> s[j].file, at |-> Pos(s[j])]
  BY <1>2, PointsAre
<1>4. Points(t)[j] = [file |-> t[j].file, at |-> Pos(t[j])]
  BY <1>2, PointsAre
<1>5. QED  BY <1>3, <1>4

LEMMA LoadModuleCompiler ==
  ASSUME IInv, CompilerInv, UNCHANGED prog, LoadModule
  PROVE  CompilerInv'
<1> DEFINE g == Stmt.from
           v == Going("verify", Top.at, Top.defs)
           s == Replace(v)
           n == Len(stack)
<1>1. /\ Reads("names", "import")
      /\ g \in DOMAIN prog /\ g \notin loaded
      /\ loaded' = loaded \cup {g}
      /\ stack' = Append(s, Activation(g))
      /\ UNCHANGED <<signatures, registry, emitted, verdict>>
  BY DEF LoadModule
<1>2. /\ verdict = "lowering" /\ stack # <<>>
      /\ Top \in Act /\ ActOK(Top, loaded) /\ Top.phase = "names"
      /\ Top.at \in DOMAIN prog[Top.file] /\ Top.at \in Nat \ {0}
      /\ Stmt = prog[Top.file][Top.at] /\ Stmt.op = "import"
      /\ Top.file \in DOMAIN prog
      /\ n \in Nat \ {0} /\ Top = stack[n]
  BY <1>1, Reading, TopIsAct DEF IInv, Act
<1>3. v \in Act /\ v.file = Top.file /\ v.phase = "verify" /\ v.at = Top.at
  <2>1. "verify" \in Phases /\ Top.defs \in Seq(Nat)
    BY <1>2 DEF Act, Phases
  <2>2. QED  BY <1>2, <2>1, GoingIsAct
<1>4. Pos(v) = Top.at /\ Pos(Top) = Top.at
  BY <1>2, <1>3 DEF Pos
<1>5. /\ s \in Seq(Act) /\ Len(s) = n
      /\ \A j \in 1 .. n : s[j] = IF j = n THEN v ELSE stack[j]
  BY <1>2, <1>3, ReplaceLast DEF Replace, Shape, IInv
<1>6. \A j \in 1 .. n : s[j].file = stack[j].file /\ Pos(s[j]) = Pos(stack[j])
  BY <1>2, <1>3, <1>4, <1>5
<1>7. \A j \in 1 .. n : stack[j].file \in loaded /\ stack[j].file # g
  BY <1>1 DEF IInv, Shape, ActOK
<1>8. /\ Activation(g) \in Act /\ Activation(g).file = g
      /\ Activation(g).phase = "classes" /\ Activation(g).at = 1
  <2>1. <<>> \in Seq(Nat)
    OBVIOUS
  <2>2. QED  BY <1>1, <2>1 DEF Activation, Act, Phases
<1>9. /\ Len(stack') = n + 1
      /\ \A j \in 1 .. n + 1 : stack'[j] = IF j = n + 1 THEN Activation(g) ELSE s[j]
  BY <1>1, <1>5, <1>8, AppendOne
<1>10. /\ \A f, k : Awaits(stack', f, k) = Awaits(stack, f, k)'
       /\ \A f, k : Needs(f, k)' = Needs(f, k)
  BY DEF Awaits, Ahead, Points, Pos, Needs
<1>11. \A f, k : Awaits(stack', f, k) <=>
         IF f = g THEN 1 <= k ELSE Awaits(stack, f, k)
  <2>1. ASSUME NEW f, NEW k
        PROVE  Awaits(stack', f, k) <=> IF f = g THEN 1 <= k ELSE Awaits(stack, f, k)
    <3>1. Awaits(stack', f, k) <=> IF f = g THEN 1 <= k ELSE Awaits(s, f, k)
      BY <1>1, <1>5, <1>6, <1>7, PushAwaits
    <3>2. Awaits(s, f, k) <=> Awaits(stack, f, k)
      BY <1>5, <1>6, AwaitsIs
    <3>3. QED  BY <3>1, <3>2
  <2>2. QED  BY <2>1
<1> HIDE DEF v, s
<1>12. ClassesCovered'
  <2>1. SUFFICES ASSUME NEW f \in loaded \cup {g}, NEW k \in DOMAIN prog[f],
                        prog[f][k].op = "class"
                 PROVE  \/ /\ prog[f][k].name \in DOMAIN registry
                           /\ registry[prog[f][k].name] = <<f, k>>
                        \/ \E j \in 1 .. Len(stack') :
                             /\ stack'[j].file = f
                             /\ stack'[j].phase = "classes" /\ stack'[j].at <= k
    BY <1>1 DEF ClassesCovered
  <2>2. CASE f = g
    <3>1. prog[g] \in Seq(ToSet(prog[g]))
      BY <1>1 DEF IInv, FilesOK
    <3>2. 1 <= k
      BY <2>2, <3>1
    <3>3. n + 1 \in 1 .. Len(stack') /\ stack'[n + 1] = Activation(g)
      BY <1>2, <1>9
    <3>4. QED  BY <1>8, <2>2, <3>2, <3>3
  <2>3. CASE f \in loaded /\ \E j \in 1 .. Len(stack) :
               stack[j].file = f /\ stack[j].phase = "classes" /\ stack[j].at <= k
    <3>1. PICK j \in 1 .. n :
            stack[j].file = f /\ stack[j].phase = "classes" /\ stack[j].at <= k
      BY <2>3
    <3>2. j # n
      BY <1>2, <3>1
    <3>3. stack'[j] = stack[j] /\ j \in 1 .. Len(stack')
      BY <1>2, <1>5, <1>9, <3>2
    <3>4. QED  BY <3>1, <3>3
  <2>4. QED  BY <2>1, <2>2, <2>3 DEF CompilerInv, ClassesCovered
<1>13. NamesCovered'
  <2>1. SUFFICES ASSUME NEW f \in loaded \cup {g}, NEW k \in DOMAIN prog[f]
                 PROVE  Awaits(stack', f, k) \/ NameIn(signatures, loaded', f, k)
    BY <1>1, <1>10 DEF NamesCovered, NameIn
  <2>2. CASE f = g
    <3>1. prog[g] \in Seq(ToSet(prog[g]))
      BY <1>1 DEF IInv, FilesOK
    <3>2. 1 <= k
      BY <2>2, <3>1
    <3>3. QED  BY <1>11, <2>2, <3>2
  <2>3. CASE f # g
    BY <1>1, <1>11, <2>3 DEF CompilerInv, NamesCovered, NameIn
  <2>4. QED  BY <2>2, <2>3
<1>14. Reached'
  <2>1. \A M : Closed(M)' = Closed(M)
    BY DEF Closed, Needs
  <2>2. ASSUME NEW M \in SUBSET DOMAIN prog, Closed(M) PROVE g \in M
    <3>1. Top.file \in M
      BY <1>2, <2>2 DEF CompilerInv, Reached, ActOK
    <3>2. Needs(Top.file, Top.at)
      BY <1>1, <1>2 DEF Needs
    <3>3. QED  BY <1>2, <2>2, <3>1, <3>2 DEF Closed
  <2>3. QED  BY <1>1, <2>1, <2>2 DEF CompilerInv, Reached
<1>15. SignedPast'
  BY <1>1, <1>10, <1>11 DEF CompilerInv, SignedPast
<1>16. PathOK'
  <2>1. stack'[1].file = Root
    <3>1. 1 \in 1 .. n /\ stack'[1] = s[1]
      BY <1>2, <1>9
    <3>2. stack[1].file = Root
      BY <1>2 DEF CompilerInv, PathOK
    <3>3. QED  BY <1>6, <3>1, <3>2
  <2>2. ASSUME NEW j \in 1 .. Len(stack'), stack'[j].phase = "verify"
        PROVE  /\ Needs(stack'[j].file, stack'[j].at)
               /\ prog[stack'[j].file][stack'[j].at].from \in loaded'
               /\ j < Len(stack') =>
                    prog[stack'[j].file][stack'[j].at].from = stack'[j + 1].file
    <3>1. CASE j = n + 1
      BY <1>8, <1>9, <2>2, <3>1
    <3>2. CASE j = n
      <4>1. stack'[j] = v /\ stack'[j + 1].file = g
        BY <1>2, <1>5, <1>8, <1>9, <3>2
      <4>2. Needs(Top.file, Top.at) /\ prog[Top.file][Top.at].from = g
        BY <1>1, <1>2 DEF Needs
      <4>3. QED  BY <1>1, <1>3, <4>1, <4>2
    <3>3. CASE j < n
      <4>1. stack'[j] = stack[j] /\ stack'[j + 1] = s[j + 1] /\ j \in 1 .. n /\ j + 1 \in 1 .. n
        BY <1>2, <1>5, <1>9, <3>3
      <4>2. /\ Needs(stack[j].file, stack[j].at)
            /\ prog[stack[j].file][stack[j].at].from \in loaded
            /\ prog[stack[j].file][stack[j].at].from = stack[j + 1].file
        BY <2>2, <3>3, <4>1 DEF CompilerInv, PathOK
      <4>3. stack'[j + 1].file = stack[j + 1].file
        BY <1>6, <4>1
      <4>4. QED  BY <1>1, <4>1, <4>2, <4>3
    <3>4. QED  BY <1>2, <1>9, <3>1, <3>2, <3>3
  <2>3. QED  BY <2>1, <2>2, PathPrimed
<1>17. OrderOK'
  <2>1. ASSUME NEW j \in 1 .. Len(stack'), j < Len(stack')
        PROVE  \E M : Good(M, Points(stack'), j) /\ stack'[j + 1].file \notin M
    <3>1. j \in 1 .. n
      BY <1>2, <1>9, <2>1
    <3>2. \A i \in 1 .. j : Points(stack)[i] = Points(stack')[i]
      <4>1. \A i \in 1 .. j : i \in 1 .. n /\ stack'[i] = s[i]
        BY <1>2, <1>9, <3>1
      <4>2. \A i \in 1 .. j : stack[i].file = stack'[i].file /\ Pos(stack[i]) = Pos(stack'[i])
        BY <1>6, <4>1
      <4>3. j \in Nat /\ j <= n /\ j <= Len(stack') /\ Len(stack') \in Nat
        BY <1>2, <1>9, <3>1
      <4>4. QED  BY <1>2, <4>2, <4>3, PointsShared
    <3>3. CASE j < n
      <4>1. PICK M : Good(M, Points(stack), j) /\ stack[j + 1].file \notin M
        BY <3>1, <3>3 DEF CompilerInv, OrderOK
      <4>2. Good(M, Points(stack'), j)
        BY <3>2, <4>1, GoodSame
      <4>3. stack'[j + 1].file = stack[j + 1].file
        BY <1>2, <1>6, <1>9, <3>1, <3>3
      <4>4. QED  BY <4>1, <4>2, <4>3
    <3>4. CASE j = n
      <4>1. Good(loaded, Points(stack), n)
        <5>1. ASSUME NEW i \in 1 .. n PROVE Points(stack)[i].file \in loaded
          <6>1. Points(stack)[i] = [file |-> stack[i].file, at |-> Pos(stack[i])]
            BY PointsAre
          <6>2. QED  BY <1>7, <6>1
        <5>2. \A f \in loaded : \A k \in DOMAIN prog[f] :
                Needs(f, k) => prog[f][k].from \in loaded \/ Ahead(Points(stack), n, f, k)
          BY DEF CompilerInv, NamesCovered, Awaits
        <5>3. QED  BY <5>1, <5>2 DEF Good, IInv, FilesOK
      <4>2. Good(loaded, Points(stack'), j)
        BY <3>2, <3>4, <4>1, GoodSame
      <4>3. stack'[j + 1].file = g
        BY <1>2, <1>8, <1>9, <3>4
      <4>4. QED  BY <1>1, <4>2, <4>3
    <3>5. QED  BY <1>2, <3>1, <3>3, <3>4
  <2>2. QED  BY <2>1, OrderPrimed
<1>18. CallsOK'
  BY <1>1, CallsKept, GrowsSame DEF CompilerInv
<1>19. Root \in loaded' /\ prog' \in Programs /\ verdict' # "rejected"
  BY <1>1, <1>2 DEF CompilerInv
<1>20. QED
  BY <1>12, <1>13, <1>14, <1>15, <1>16, <1>17, <1>18, <1>19 DEF CompilerInv

LEMMA ReturnCompiler ==
  ASSUME IInv, CompilerInv, UNCHANGED prog, Return
  PROVE  CompilerInv'
<1> DEFINE n == Len(stack)
<1>1. /\ verdict = "lowering" /\ stack # <<>> /\ Top.phase = "bodies"
      /\ stack' = Front(stack)
      /\ UNCHANGED <<loaded, signatures, registry, emitted, verdict>>
  BY DEF Return, In
<1>2. /\ n \in Nat \ {0} /\ Top = stack[n] /\ Top \in Act
      /\ Len(stack') = n - 1
      /\ \A j \in 1 .. n - 1 : stack'[j] = stack[j]
  BY <1>1, RemoveLast, TopIsAct DEF IInv, Shape
<1>3. /\ \A f, k : Awaits(stack', f, k) = Awaits(stack, f, k)'
      /\ \A f, k : Needs(f, k)' = Needs(f, k)
  BY DEF Awaits, Ahead, Points, Pos, Needs
<1>4. \A f, k : Awaits(stack', f, k) <=> f # Top.file /\ Awaits(stack, f, k)
  BY <1>1, PopAwaits
<1>5. \A k \in DOMAIN prog[Top.file] : ~ Awaits(stack, Top.file, k)
  <2>1. Pos(Top) = Len(prog[Top.file]) + 1
    BY <1>1 DEF Pos
  <2>2. prog[Top.file] \in Seq(ToSet(prog[Top.file]))
    BY <1>2 DEF Act, IInv, FilesOK
  <2>3. \A k \in DOMAIN prog[Top.file] : ~ Len(prog[Top.file]) + 1 <= k
    BY <2>2
  <2>4. \A k : Awaits(stack, Top.file, k) <=> Pos(Top) <= k
    BY <1>1, <1>2, ReplaceAwaits
  <2>5. QED  BY <2>1, <2>3, <2>4
<1>6. ClassesCovered'
  <2>1. SUFFICES ASSUME NEW f \in loaded, NEW k \in DOMAIN prog[f],
                        prog[f][k].op = "class"
                 PROVE  \/ /\ prog[f][k].name \in DOMAIN registry
                           /\ registry[prog[f][k].name] = <<f, k>>
                        \/ \E j \in 1 .. Len(stack') :
                             /\ stack'[j].file = f
                             /\ stack'[j].phase = "classes" /\ stack'[j].at <= k
    BY <1>1 DEF ClassesCovered
  <2>2. CASE \E j \in 1 .. Len(stack) :
               stack[j].file = f /\ stack[j].phase = "classes" /\ stack[j].at <= k
    <3>1. PICK j \in 1 .. n :
            stack[j].file = f /\ stack[j].phase = "classes" /\ stack[j].at <= k
      BY <2>2
    <3>2. j # n
      BY <1>1, <1>2, <3>1
    <3>3. stack'[j] = stack[j] /\ j \in 1 .. Len(stack')
      BY <1>2, <3>2
    <3>4. QED  BY <3>1, <3>3
  <2>3. QED  BY <2>1, <2>2 DEF CompilerInv, ClassesCovered
<1>7. NamesCovered'
  <2>1. SUFFICES ASSUME NEW f \in loaded, NEW k \in DOMAIN prog[f]
                 PROVE  Awaits(stack', f, k) \/ NameIn(signatures, loaded, f, k)
    BY <1>1, <1>3 DEF NamesCovered, NameIn
  <2>2. QED  BY <1>4, <1>5 DEF CompilerInv, NamesCovered, NameIn
<1>8. SignedPast'
  BY <1>1, <1>3, <1>4 DEF CompilerInv, SignedPast
<1>9. Reached'
  BY <1>1 DEF CompilerInv, Reached, Closed, Needs
<1>10. PathOK'
  <2>1. stack' # <<>> => stack'[1].file = Root
    <3>1. ASSUME stack' # <<>> PROVE stack'[1] = stack[1]
      <4>1. n - 1 # 0
        BY <1>2, <3>1, EmptySeq, RemoveLast, <1>1 DEF IInv, Shape
      <4>2. 1 \in 1 .. n - 1
        BY <1>2, <4>1
      <4>3. QED  BY <1>2, <4>2
    <3>2. QED  BY <1>1, <3>1 DEF CompilerInv, PathOK
  <2>2. ASSUME NEW j \in 1 .. Len(stack'), stack'[j].phase = "verify"
        PROVE  /\ Needs(stack'[j].file, stack'[j].at)
               /\ prog[stack'[j].file][stack'[j].at].from \in loaded'
               /\ j < Len(stack') =>
                    prog[stack'[j].file][stack'[j].at].from = stack'[j + 1].file
    <3>1. stack'[j] = stack[j] /\ j \in 1 .. n /\ j < n
      BY <1>2
    <3>2. j < Len(stack') => stack'[j + 1] = stack[j + 1]
      BY <1>2
    <3>3. /\ Needs(stack[j].file, stack[j].at)
          /\ prog[stack[j].file][stack[j].at].from \in loaded
          /\ prog[stack[j].file][stack[j].at].from = stack[j + 1].file
      BY <2>2, <3>1 DEF CompilerInv, PathOK
    <3>4. QED  BY <1>1, <3>1, <3>2, <3>3
  <2>3. QED  BY <2>1, <2>2, PathPrimed
<1>11. OrderOK'
  <2>1. ASSUME NEW j \in 1 .. Len(stack'), j < Len(stack')
        PROVE  \E M : Good(M, Points(stack'), j) /\ stack'[j + 1].file \notin M
    <3>1. /\ j \in 1 .. n /\ j < n /\ j \in Nat /\ j <= n /\ j <= Len(stack')
          /\ Len(stack') \in Nat /\ j + 1 \in 1 .. n - 1
      BY <1>2, <2>1
    <3>2. \A i \in 1 .. j : Points(stack)[i] = Points(stack')[i]
      <4>1. \A i \in 1 .. j : stack'[i] = stack[i]
        BY <1>2, <3>1
      <4>2. /\ \A i \in 1 .. j : stack[i].file = stack'[i].file /\ Pos(stack[i]) = Pos(stack'[i])
            /\ j <= Len(stack) /\ Len(stack) \in Nat
        BY <1>2, <3>1, <4>1
      <4>3. QED  BY <3>1, <4>2, PointsShared
    <3>3. PICK M : Good(M, Points(stack), j) /\ stack[j + 1].file \notin M
      BY <3>1 DEF CompilerInv, OrderOK
    <3>4. Good(M, Points(stack'), j)
      BY <3>2, <3>3, GoodSame
    <3>5. stack'[j + 1] = stack[j + 1]
      BY <1>2, <3>1
    <3>6. QED  BY <3>3, <3>4, <3>5
  <2>2. QED  BY <2>1, OrderPrimed
<1>12. CallsOK'
  BY <1>1, CallsKept, GrowsSame DEF CompilerInv
<1>13. QED
  BY <1>1, <1>6, <1>7, <1>8, <1>9, <1>10, <1>11, <1>12 DEF CompilerInv

(* The compiler stands still, or has ended.                                 *)
LEMMA StillKeepsCompiler ==
  ASSUME IInv, CompilerInv,
         UNCHANGED <<prog, stack, loaded, signatures, registry, emitted>>,
         verdict' = "rejected" => Blocked
  PROVE  CompilerInv'
<1>1. Blocked' = Blocked
  <2>1. Top' = Top /\ Body' = Body /\ Stmt' = Stmt /\ NextDef' = NextDef
    BY DEF Top, Last, Body, Stmt, NextDef
  <2>2. /\ \A c : Target(c)' = Target(c)
        /\ \A f : Python!Parses(f)' = Python!Parses(f)
    BY DEF Target, Python!Parses, Python!Builtin
  <2>3. Verified' = Verified
    BY <2>1 DEF Verified
  <2>4. (\E c \in NextDef.calls : Target(c) = None)'
          <=> \E c \in NextDef.calls : Target(c) = None
    BY <2>1, <2>2
  <2>5. QED  BY <2>1, <2>2, <2>3, <2>4 DEF Blocked
<1>2. ClassesCovered' /\ NamesCovered' /\ Reached'
  BY DEF CompilerInv, ClassesCovered, NamesCovered, Reached, Closed, Awaits, Ahead,
         Points, Pos, Needs
<1>3. SignedPast' /\ PathOK'
  BY DEF CompilerInv, SignedPast, PathOK, Awaits, Ahead, Points, Pos, Needs
<1>4. OrderOK' /\ CallsOK'
  <2>1. OrderOK'
    BY OrderPrimed DEF CompilerInv, OrderOK
  <2>2. QED  BY <2>1, CallsKept, GrowsSame DEF CompilerInv
<1>5. QED  BY <1>1, <1>2, <1>3, <1>4 DEF CompilerInv

LEMMA RejectCompiler ==
  ASSUME IInv, CompilerInv, UNCHANGED prog,
         RejectDuplicateClass \/ RejectDuplicateFunction \/ RejectModule
           \/ RejectStatement \/ RejectNames \/ RejectUndefined
  PROVE  CompilerInv'
<1>1. UNCHANGED <<stack, loaded, signatures, registry, emitted>>
  BY DEF RejectDuplicateClass, RejectDuplicateFunction, RejectModule,
         RejectStatement, RejectNames, RejectUndefined, Reject
<1>2. Blocked
  <2>1. CASE RejectDuplicateClass
    BY <2>1 DEF RejectDuplicateClass, Reads, In, Blocked
  <2>2. CASE RejectDuplicateFunction
    BY <2>2 DEF RejectDuplicateFunction, Reads, In, Blocked
  <2>3. CASE RejectModule
    BY <2>3 DEF RejectModule, Reads, In, Blocked
  <2>4. CASE RejectStatement
    BY <2>4 DEF RejectStatement, Reads, In, Blocked
  <2>5. CASE RejectNames
    BY <2>5 DEF RejectNames, In, Blocked
  <2>6. CASE RejectUndefined
    BY <2>6 DEF RejectUndefined, In, Blocked
  <2>7. QED  BY <2>1, <2>2, <2>3, <2>4, <2>5, <2>6
<1>3. QED  BY <1>1, <1>2, StillKeepsCompiler

LEMMA FinishCompiler ==
  ASSUME IInv, CompilerInv, UNCHANGED prog, Finish
  PROVE  CompilerInv'
<1>1. verdict' = "rejected" => Blocked
  BY DEF Finish, Blocked
<1>2. QED  BY <1>1, StillKeepsCompiler DEF Finish

LEMMA InitCompiler ==
  ASSUME Init
  PROVE  CompilerInv
<1>1. /\ prog \in Programs /\ Root \in DOMAIN prog
      /\ \A f \in DOMAIN prog : prog[f] \in Seq(ToSet(prog[f]))
      /\ loaded = {Root} /\ emitted = <<>> /\ DOMAIN signatures = {}
      /\ verdict = "lowering"
  BY ProgramsAssumption DEF Init, Python!NoNames
<1>2. Len(stack) = 1 /\ stack[1] = Activation(Root) /\ stack # <<>>
  BY DEF Init
<1>3. /\ Activation(Root).file = Root /\ Activation(Root).phase = "classes"
      /\ Activation(Root).at = 1 /\ Pos(Activation(Root)) = 1
  BY DEF Activation, Pos
<1>4. \A k \in DOMAIN prog[Root] : 1 <= k
  <2>1. prog[Root] \in Seq(ToSet(prog[Root]))
    BY <1>1
  <2>2. QED  BY <2>1
<1>5. \A f, k : Awaits(stack, f, k) <=> f = Root /\ 1 <= k
  <2>1. 1 .. Len(stack) = {1}
    BY <1>2
  <2>2. QED  BY <1>2, <1>3, <2>1, AwaitsIs
<1>6. ClassesCovered /\ NamesCovered
  <2>1. 1 \in 1 .. Len(stack)
    BY <1>2
  <2>2. QED  BY <1>1, <1>2, <1>3, <1>4, <1>5, <2>1 DEF ClassesCovered, NamesCovered
<1>7. Reached /\ SignedPast
  BY <1>1 DEF Reached, Closed, SignedPast
<1>8. PathOK /\ OrderOK
  <2>1. \A j \in 1 .. Len(stack) : j = 1
    BY <1>2
  <2>2. QED  BY <1>2, <1>3, <2>1 DEF PathOK, OrderOK
<1>9. CallsOK
  BY <1>1 DEF CallsOK
<1>10. QED  BY <1>1, <1>6, <1>7, <1>8, <1>9 DEF CompilerInv

LEMMA StepCompiler ==
  ASSUME IInv, CompilerInv, [Next]_vars
  PROVE  CompilerInv'
<1>1. CASE Lower /\ UNCHANGED <<prog, pyVars>>
  <2>1. CASE RegisterClass
    BY <1>1, <2>1, RegisterClassCompiler
  <2>2. CASE Skip \/ SkipLoaded
    BY <1>1, <2>2, SkipCompiler
  <2>3. CASE EndPass("classes", "names") \/ EndPass("names", "bodies")
    BY <1>1, <2>3, EndPassCompiler
  <2>4. CASE CollectSignature
    BY <1>1, <2>4, CollectSignatureCompiler
  <2>5. CASE LoadModule
    BY <1>1, <2>5, LoadModuleCompiler
  <2>6. CASE VerifyNames
    BY <1>1, <2>6, VerifyNamesCompiler
  <2>7. CASE LowerFunction
    BY <1>1, <2>7, LowerFunctionCompiler
  <2>8. CASE Return
    BY <1>1, <2>8, ReturnCompiler
  <2>9. CASE Finish
    BY <1>1, <2>9, FinishCompiler
  <2>10. CASE RejectDuplicateClass \/ RejectDuplicateFunction \/ RejectModule
                \/ RejectStatement \/ RejectNames \/ RejectUndefined
    BY <1>1, <2>10, RejectCompiler
  <2>11. QED
    BY <1>1, <2>1, <2>2, <2>3, <2>4, <2>5, <2>6, <2>7, <2>8, <2>9, <2>10
       DEF Lower, Classes, Names, Bodies
<1>2. CASE UNCHANGED <<prog, loaderVars>>
  <2>1. verdict' = "rejected" => Blocked
    BY <1>2 DEF loaderVars, CompilerInv
  <2>2. QED  BY <1>2, <2>1, StillKeepsCompiler DEF loaderVars
<1>3. QED  BY <1>1, <1>2 DEF Next, vars

-----------------------------------------------------------------------------
(* Python's steps: its innermost module moves on, begins another, or ends.  *)
LEMMA AtIs ==
  ASSUME NEW f, NEW k
  PROVE  At(f, k) <=> \E j \in 1 .. Len(running) : running[j].file = f /\ running[j].at <= k
BY DEF At, Ahead

LEMMA ThisIs ==
  ASSUME FilesOK, PyShape
  PROVE  /\ Len(running) \in Nat \ {0}
         /\ Len(running) \in 1 .. Len(running)
         /\ Python!This = running[Len(running)]
         /\ Python!This \in Point
         /\ Python!This.file \in DOMAIN ns
         /\ Python!This.file \in DOMAIN prog
         /\ Python!This.at \in Nat \ {0}
         /\ Len(prog[Python!This.file]) \in Nat
         /\ DOMAIN prog[Python!This.file] = 1 .. Len(prog[Python!This.file])
         /\ \A k : At(Python!This.file, k) <=> Python!This.at <= k
<1>1. Len(running) \in Nat \ {0}
  BY EmptySeq DEF PyShape
<1>2. Len(running) \in 1 .. Len(running)
  BY <1>1
<1>3. Python!This = running[Len(running)]
  BY DEF Python!This, Python!Last
<1>4. Python!This \in Point
  BY <1>2, <1>3, ElementOfSeq DEF PyShape
<1>5. Python!This.file \in DOMAIN prog /\ Python!This.at \in Nat \ {0}
  BY <1>4 DEF Point
<1>6. Python!This.file \in DOMAIN ns
  BY <1>2, <1>3 DEF PyShape
<1>7. prog[Python!This.file] \in Seq(ToSet(prog[Python!This.file]))
  BY <1>5 DEF FilesOK
<1>8. /\ Len(prog[Python!This.file]) \in Nat
      /\ DOMAIN prog[Python!This.file] = 1 .. Len(prog[Python!This.file])
  BY <1>7
<1>9. \A k : At(Python!This.file, k) <=> Python!This.at <= k
  <2>1. \A i, j \in 1 .. Len(running) : running[i].file = running[j].file => i = j
    BY DEF PyShape
  <2>2. QED  BY <1>2, <1>3, <2>1, AtIs
<1>10. QED
  BY <1>1, <1>2, <1>3, <1>4, <1>5, <1>6, <1>8, <1>9

LEMMA AdvanceIs ==
  ASSUME FilesOK, PyShape, Python!Advance
  PROVE  LET t == [file |-> Python!This.file, at |-> Python!This.at + 1]
         IN  /\ running' \in Seq(Point)
             /\ t \in Point
             /\ Len(running') = Len(running)
             /\ \A j \in 1 .. Len(running) :
                  running'[j] = IF j = Len(running) THEN t ELSE running[j]
             /\ \A f, k : At(f, k)' <=>
                  IF f = Python!This.file THEN Python!This.at + 1 <= k ELSE At(f, k)
<1> DEFINE t == [file |-> Python!This.file, at |-> Python!This.at + 1]
           n == Len(running)
<1>1. /\ n \in Nat \ {0} /\ n \in 1 .. n /\ Python!This = running[n]
      /\ Python!This \in Point
      /\ Python!This.file \in DOMAIN prog /\ Python!This.at \in Nat \ {0}
  BY ThisIs
<1>2. [Python!This EXCEPT !.at = @ + 1] = t
  BY <1>1 DEF Point
<1>3. t \in Point
  <2>1. Python!This.at + 1 \in Nat \ {0}
    BY <1>1
  <2>2. QED  BY <1>1, <2>1 DEF Point
<1>4. running \in Seq(Point) /\ running # <<>>
  BY DEF PyShape
<1>5. running' = Front(running) \o <<t>>
  BY <1>2 DEF Python!Advance, Python!Front, Front
<1>6. t.file = Python!This.file /\ t.at = Python!This.at + 1
  OBVIOUS
<1> HIDE DEF t
<1>7. /\ running' \in Seq(Point) /\ Len(running') = n
      /\ \A j \in 1 .. n : running'[j] = IF j = n THEN t ELSE running[j]
  BY <1>3, <1>4, <1>5, ReplaceLast
<1>8. \A f, k : At(f, k)' <=> \E j \in 1 .. n : running'[j].file = f /\ running'[j].at <= k
  BY <1>7 DEF At, Ahead
<1>9. \A i, j \in 1 .. n : running[i].file = running[j].file => i = j
  BY DEF PyShape
<1>10. ASSUME NEW f, NEW k
       PROVE  At(f, k)' <=> IF f = Python!This.file THEN Python!This.at + 1 <= k ELSE At(f, k)
  <2>1. CASE f = Python!This.file
    <3>1. \A j \in 1 .. n : running'[j].file = f => j = n
      BY <1>1, <1>7, <1>9, <2>1
    <3>2. running'[n].file = f /\ running'[n].at = Python!This.at + 1
      BY <1>1, <1>6, <1>7, <2>1
    <3>3. QED  BY <1>1, <1>8, <2>1, <3>1, <3>2
  <2>2. CASE f # Python!This.file
    <3>1. \A j \in 1 .. n : \/ running'[j] = running[j]
                            \/ running'[j].file # f /\ running[j].file # f
      BY <1>1, <1>6, <1>7, <2>2
    <3>2. QED  BY <1>8, <2>2, <3>1, AtIs
  <2>3. QED  BY <2>1, <2>2
<1>11. QED  BY <1>3, <1>7, <1>10 DEF t

LEMMA BeginIs ==
  ASSUME FilesOK, PyShape, Python!Begin
  PROVE  LET g == Python!Here.from
             t == [file |-> g, at |-> 1]
         IN  /\ running' \in Seq(Point)
             /\ Len(running') = Len(running) + 1
             /\ \A j \in 1 .. Len(running) + 1 :
                  running'[j] = IF j = Len(running) + 1 THEN t ELSE running[j]
             /\ g \in DOMAIN prog /\ g \notin DOMAIN ns
             /\ \A j \in 1 .. Len(running) : running[j].file # g
             /\ \A f, k : At(f, k)' <=> IF f = g THEN 1 <= k ELSE At(f, k)
<1> DEFINE g == Python!Here.from
           t == [file |-> g, at |-> 1]
           n == Len(running)
<1>1. /\ g \in DOMAIN prog /\ g \notin DOMAIN ns
      /\ running' = Append(running, t)
  BY DEF Python!Begin
<1>2. t \in Point /\ t.file = g /\ t.at = 1
  BY <1>1 DEF Point
<1>3. \A j \in 1 .. n : running[j].file # g
  BY <1>1 DEF PyShape
<1> HIDE DEF t
<1>4. /\ running' \in Seq(Point) /\ Len(running') = n + 1
      /\ \A j \in 1 .. n + 1 : running'[j] = IF j = n + 1 THEN t ELSE running[j]
  BY <1>1, <1>2, AppendOne DEF PyShape
<1>5. n \in Nat \ {0}
  BY ThisIs
<1>6. ASSUME NEW f, NEW k
      PROVE  At(f, k)' <=> IF f = g THEN 1 <= k ELSE At(f, k)
  <2>1. At(f, k)' <=> \E j \in 1 .. n + 1 : running'[j].file = f /\ running'[j].at <= k
    BY <1>4 DEF At, Ahead
  <2>2. \A j : j \in 1 .. n + 1 <=> j \in 1 .. n \/ j = n + 1
    BY <1>5
  <2>3. \A j \in 1 .. n : running'[j] = running[j]
    BY <1>4, <1>5
  <2>4. running'[n + 1] = t
    BY <1>4, <1>5
  <2>5. At(f, k)' <=> \/ g = f /\ 1 <= k
                      \/ \E j \in 1 .. n : running[j].file = f /\ running[j].at <= k
    BY <1>2, <2>1, <2>2, <2>3, <2>4
  <2>6. QED  BY <1>3, <2>5, AtIs
<1>7. QED  BY <1>1, <1>3, <1>4, <1>6 DEF t

LEMMA EndIs ==
  ASSUME FilesOK, PyShape, Len(running) # 1, running' = Python!Front(running)
  PROVE  /\ running' \in Seq(Point) /\ running' # <<>>
         /\ Len(running') = Len(running) - 1
         /\ \A j \in 1 .. Len(running) - 1 : running'[j] = running[j]
         /\ \A f, k : At(f, k)' <=> f # Python!This.file /\ At(f, k)
<1> DEFINE n == Len(running)
<1>1. /\ n \in Nat \ {0} /\ n \in 1 .. n /\ Python!This = running[n]
  BY ThisIs
<1>2. running \in Seq(Point) /\ running # <<>>
  BY DEF PyShape
<1>3. running' = Front(running)
  BY DEF Python!Front, Front
<1>4. /\ running' \in Seq(Point)
      /\ Len(running') = n - 1
      /\ \A j \in 1 .. n - 1 : running'[j] = running[j]
  BY <1>2, <1>3, RemoveLast
<1>5. running' # <<>>
  BY <1>1, <1>4
<1>6. ASSUME NEW f, NEW k
      PROVE  At(f, k)' <=> f # Python!This.file /\ At(f, k)
  <2>1. At(f, k)' <=> \E j \in 1 .. n - 1 : running'[j].file = f /\ running'[j].at <= k
    BY <1>4 DEF At, Ahead
  <2>2. \A j : j \in 1 .. n <=> j \in 1 .. n - 1 \/ j = n
    BY <1>1
  <2>3. \A i, j \in 1 .. n : running[i].file = running[j].file => i = j
    BY DEF PyShape
  <2>4. \A j \in 1 .. n - 1 : j \in 1 .. n /\ j # n /\ running[j].file # Python!This.file
    BY <1>1, <2>3
  <2>5. QED  BY <1>1, <1>4, <2>1, <2>2, <2>4, AtIs
<1>7. QED  BY <1>4, <1>5, <1>6

LEMMA ProgKept ==
  ASSUME UNCHANGED prog
  PROVE  /\ \A f, k : Needs(f, k)' = Needs(f, k)
         /\ \A M : Closed(M)' = Closed(M)
         /\ Aliases' = Aliases /\ FromLibraries' = FromLibraries
         /\ Point' = Point
BY DEF Needs, Closed, Aliases, FromLibraries, Imports, Statements, Point

LEMMA AdvanceKeeps ==
  ASSUME FilesOK, PyShape, Ran, PyReached, Least, UNCHANGED prog,
         imported = "running", UNCHANGED imported,
         Python!This.at <= Len(prog[Python!This.file]),
         Python!Advance, DOMAIN ns' = DOMAIN ns,
         Needs(Python!This.file, Python!This.at) =>
           prog[Python!This.file][Python!This.at].from \in DOMAIN ns
  PROVE  PyShape' /\ Ran' /\ PyReached' /\ Least'
<1> DEFINE n == Len(running)
           h == Python!This.file
           m == Python!This.at
           t == [file |-> h, at |-> m + 1]
<1>1. /\ n \in Nat \ {0} /\ n \in 1 .. n /\ Python!This = running[n]
      /\ h \in DOMAIN ns /\ h \in DOMAIN prog /\ m \in Nat \ {0}
      /\ Len(prog[h]) \in Nat /\ DOMAIN prog[h] = 1 .. Len(prog[h])
      /\ \A k : At(h, k) <=> m <= k
  BY ThisIs
<1>2. /\ running' \in Seq(Point) /\ Len(running') = n
      /\ \A j \in 1 .. n : running'[j] = IF j = n THEN t ELSE running[j]
      /\ \A f, k : At(f, k)' <=> IF f = h THEN m + 1 <= k ELSE At(f, k)
  BY AdvanceIs
<1>3. t.file = h /\ t.at = m + 1 /\ running[n].file = h
  BY <1>1
<1>4. m \in DOMAIN prog[h]
  BY <1>1
<1> HIDE DEF t, h, m
<1>5. \A j \in 1 .. n : running'[j].file = running[j].file
  BY <1>2, <1>3
<1>6. PyShape'
  <2>1. running' # <<>> /\ Root \in DOMAIN ns'
    BY <1>1, <1>2 DEF PyShape
  <2>2. DOMAIN ns' \subseteq DOMAIN prog'
    BY DEF PyShape
  <2>3. ASSUME NEW j \in 1 .. n
        PROVE  /\ running'[j].file \in DOMAIN ns
               /\ running'[j].at <= Len(prog[running'[j].file]) + 1
               /\ j < n =>
                    /\ running'[j].at <= Len(prog[running'[j].file])
                    /\ prog[running'[j].file][running'[j].at].op = "import"
                    /\ prog[running'[j].file][running'[j].at].from = running'[j + 1].file
    <3>1. CASE j = n
      <4>1. m + 1 <= Len(prog[h]) + 1
        BY <1>1, <1>4
      <4>2. QED  BY <1>1, <1>2, <1>3, <3>1, <4>1
    <3>2. CASE j # n
      <4>1. running'[j] = running[j] /\ j < n
        BY <1>1, <1>2, <3>2
      <4>2. j + 1 \in 1 .. n
        BY <1>1, <4>1
      <4>3. running'[j + 1].file = running[j + 1].file
        BY <1>5, <4>2
      <4>4. QED  BY <4>1, <4>3 DEF PyShape
    <3>3. QED  BY <3>1, <3>2
  <2>4. \A i, j \in 1 .. n : running'[i].file = running'[j].file => i = j
    BY <1>5 DEF PyShape
  <2>5. imported' # "ready"
    OBVIOUS
  <2>6. QED  BY <1>2, <2>1, <2>2, <2>3, <2>4, <2>5, ProgKept DEF PyShape
<1>7. Ran'
  <2>1. SUFFICES ASSUME NEW f \in DOMAIN ns, NEW k \in DOMAIN prog[f], Needs(f, k)
                 PROVE  prog[f][k].from \in DOMAIN ns \/ At(f, k)'
    BY ProgKept DEF Ran
  <2>2. prog[f][k].from \in DOMAIN ns \/ At(f, k)
    BY <2>1 DEF Ran
  <2>3. CASE f = h
    <3>1. k \in Nat
      BY <1>1, <2>3
    <3>2. m <= k => m + 1 <= k \/ k = m
      BY <1>1, <3>1
    <3>3. k = m => prog[f][k].from \in DOMAIN ns
      BY <2>1, <2>3 DEF h, m
    <3>4. QED  BY <1>1, <1>2, <2>2, <2>3, <3>2, <3>3
  <2>4. CASE f # h
    BY <1>2, <2>2, <2>4
  <2>5. QED  BY <2>3, <2>4
<1>8. PyReached'
  BY ProgKept DEF PyReached
<1>9. Least'
  <2>1. SUFFICES ASSUME NEW M \in SUBSET DOMAIN prog,
                        \A j \in 1 .. n : running'[j].file \in M,
                        \A f \in M \cap DOMAIN ns : \A k \in DOMAIN prog[f] :
                          Needs(f, k) => prog[f][k].from \in M \/ At(f, k)'
                 PROVE  DOMAIN ns \subseteq M
    BY <1>2, ProgKept DEF Least
  <2>2. \A j \in 1 .. n : running[j].file \in M
    BY <1>5, <2>1
  <2>3. h \in M
    BY <1>1, <1>3, <2>2
  <2>4. ASSUME NEW f \in M \cap DOMAIN ns, NEW k \in DOMAIN prog[f], At(f, k)'
        PROVE  At(f, k)
    <3>1. CASE f = h
      <4>1. k \in Nat
        BY <1>1, <3>1
      <4>2. m + 1 <= k
        BY <1>2, <2>4, <3>1
      <4>3. m <= k
        BY <1>1, <4>1, <4>2
      <4>4. QED  BY <1>1, <3>1, <4>3
    <3>2. CASE f # h
      BY <1>2, <2>4, <3>2
    <3>3. QED  BY <3>1, <3>2
  <2>5. TopIn(M)
    <3>1. \A f, k : f = h /\ k = m => ~ At(f, k)'
      <4>1. ~ m + 1 <= m
        BY <1>1
      <4>2. QED  BY <1>2, <4>1
    <3>2. \A f, k : f = h /\ k = m => (Needs(f, k) => prog[f][k].from \in M)
      BY <1>1, <1>4, <2>1, <2>3, <3>1
    <3>3. QED  BY <3>2 DEF TopIn, h, m
  <2>6. QED  BY <2>1, <2>2, <2>4, <2>5 DEF Least
<1>10. QED  BY <1>6, <1>7, <1>8, <1>9

LEMMA BeginKeeps ==
  ASSUME FilesOK, PyShape, Ran, PyReached, Least, UNCHANGED prog, Python!Begin
  PROVE  PyShape' /\ Ran' /\ PyReached' /\ Least'
<1> DEFINE n == Len(running)
           h == Python!This.file
           m == Python!This.at
           g == Python!Here.from
           t == [file |-> g, at |-> 1]
<1>1. /\ n \in Nat \ {0} /\ n \in 1 .. n /\ Python!This = running[n]
      /\ h \in DOMAIN ns /\ h \in DOMAIN prog /\ m \in Nat \ {0}
      /\ Len(prog[h]) \in Nat /\ DOMAIN prog[h] = 1 .. Len(prog[h])
      /\ \A k : At(h, k) <=> m <= k
  BY ThisIs
<1>2. /\ running' \in Seq(Point) /\ Len(running') = n + 1
      /\ \A j \in 1 .. n + 1 : running'[j] = IF j = n + 1 THEN t ELSE running[j]
      /\ g \in DOMAIN prog /\ g \notin DOMAIN ns
      /\ \A j \in 1 .. n : running[j].file # g
      /\ \A f, k : At(f, k)' <=> IF f = g THEN 1 <= k ELSE At(f, k)
  BY BeginIs
<1>3. /\ imported' = "running" /\ m <= Len(prog[h])
      /\ prog[h][m].op = "import" /\ prog[h][m].from = g
      /\ DOMAIN ns' = DOMAIN ns \cup {g}
  <2>1. /\ Python!At("import") /\ UNCHANGED imported
        /\ ns' = [f \in DOMAIN ns \cup {g} |-> IF f = g THEN Python!NoNames ELSE ns[f]]
    BY DEF Python!Begin
  <2>2. imported = "running" /\ ~ Python!Done /\ Python!Here.op = "import"
    BY <2>1 DEF Python!At
  <2>3. DOMAIN ns' = DOMAIN ns \cup {g}
    BY <2>1
  <2>4. ~ m > Len(prog[h])
    BY <2>2 DEF Python!Done
  <2>5. Python!Here = prog[h][m]
    BY DEF Python!Here
  <2>6. QED  BY <1>1, <2>1, <2>2, <2>3, <2>4, <2>5
<1>4. m \in DOMAIN prog[h] /\ Needs(h, m)
  BY <1>1, <1>2, <1>3 DEF Needs
<1>5. t.file = g /\ t.at = 1 /\ running[n].file = h /\ running[n].at = m
  BY <1>1
<1> HIDE DEF t, h, m, g
<1>6. /\ \A j \in 1 .. n : running'[j] = running[j]
      /\ running'[n + 1] = t
      /\ \A j : j \in 1 .. n + 1 <=> j \in 1 .. n \/ j = n + 1
  BY <1>1, <1>2
<1>7. PyShape'
  <2>1. running' # <<>> /\ Root \in DOMAIN ns'
    BY <1>1, <1>2, <1>3 DEF PyShape
  <2>2. DOMAIN ns' \subseteq DOMAIN prog'
    BY <1>2, <1>3 DEF PyShape
  <2>3. ASSUME NEW j \in 1 .. n + 1
        PROVE  /\ running'[j].file \in DOMAIN ns'
               /\ running'[j].at <= Len(prog[running'[j].file]) + 1
               /\ j < n + 1 =>
                    /\ running'[j].at <= Len(prog[running'[j].file])
                    /\ prog[running'[j].file][running'[j].at].op = "import"
                    /\ prog[running'[j].file][running'[j].at].from = running'[j + 1].file
    <3>1. CASE j = n + 1
      <4>1. prog[g] \in Seq(ToSet(prog[g]))
        BY <1>2 DEF FilesOK
      <4>2. 1 <= Len(prog[g]) + 1
        BY <4>1
      <4>3. QED  BY <1>3, <1>5, <1>6, <3>1, <4>2
    <3>2. CASE j = n
      BY <1>1, <1>3, <1>5, <1>6, <3>2
    <3>3. CASE j \in 1 .. n /\ j # n
      <4>1. j < n /\ j + 1 \in 1 .. n
        BY <1>1, <3>3
      <4>2. running'[j] = running[j] /\ running'[j + 1] = running[j + 1]
        BY <1>6, <3>3, <4>1
      <4>3. QED  BY <1>3, <3>3, <4>1, <4>2 DEF PyShape
    <3>4. QED  BY <1>6, <3>1, <3>2, <3>3
  <2>4. \A i, j \in 1 .. n + 1 : running'[i].file = running'[j].file => i = j
    <3>1. \A i, j \in 1 .. n : running[i].file = running[j].file => i = j
      BY DEF PyShape
    <3>2. QED  BY <1>2, <1>5, <1>6, <3>1
  <2>5. imported' # "ready"
    BY <1>3
  <2>6. QED  BY <1>2, <2>1, <2>2, <2>3, <2>4, <2>5, ProgKept DEF PyShape
<1>8. Ran'
  <2>1. SUFFICES ASSUME NEW f \in DOMAIN ns', NEW k \in DOMAIN prog[f], Needs(f, k)
                 PROVE  prog[f][k].from \in DOMAIN ns' \/ At(f, k)'
    BY ProgKept DEF Ran
  <2>2. CASE f = g
    <3>1. prog[g] \in Seq(ToSet(prog[g]))
      BY <1>2 DEF FilesOK
    <3>2. 1 <= k
      BY <2>2, <3>1
    <3>3. QED  BY <1>2, <2>2, <3>2
  <2>3. CASE f # g
    BY <1>2, <1>3, <2>1, <2>3 DEF Ran
  <2>4. QED  BY <2>2, <2>3
<1>9. PyReached'
  <2>1. ASSUME NEW M \in SUBSET DOMAIN prog, Closed(M) PROVE g \in M
    <3>1. h \in M
      BY <1>1, <2>1 DEF PyReached
    <3>2. QED  BY <1>3, <1>4, <2>1, <3>1 DEF Closed
  <2>2. QED  BY <1>3, <2>1, ProgKept DEF PyReached
<1>10. Least'
  <2>1. SUFFICES ASSUME NEW M \in SUBSET DOMAIN prog,
                        \A j \in 1 .. n + 1 : running'[j].file \in M,
                        \A f \in M \cap DOMAIN ns' : \A k \in DOMAIN prog[f] :
                          Needs(f, k) => prog[f][k].from \in M \/ At(f, k)'
                 PROVE  DOMAIN ns' \subseteq M
    BY <1>2, ProgKept DEF Least
  <2>2. g \in M /\ \A j \in 1 .. n : running[j].file \in M
    BY <1>5, <1>6, <2>1
  <2>3. \A f \in M \cap DOMAIN ns : \A k \in DOMAIN prog[f] :
          Needs(f, k) => prog[f][k].from \in M \/ At(f, k)
    BY <1>2, <1>3, <2>1
  <2>4. TopIn(M)
    <3>1. prog[h][m].from \notin DOMAIN ns
      BY <1>2, <1>3
    <3>2. QED  BY <3>1 DEF TopIn, h, m
  <2>5. DOMAIN ns \subseteq M
    BY <2>2, <2>3, <2>4 DEF Least
  <2>6. QED  BY <1>3, <2>2, <2>5
<1>11. QED  BY <1>7, <1>8, <1>9, <1>10

LEMMA EndKeeps ==
  ASSUME FilesOK, PyShape, Ran, PyReached, Least, UNCHANGED prog,
         imported = "running", UNCHANGED <<ns, imported>>,
         Python!This.at > Len(prog[Python!This.file]),
         Len(running) # 1, running' = Python!Front(running)
  PROVE  PyShape' /\ Ran' /\ PyReached' /\ Least'
<1> DEFINE n == Len(running)
           h == Python!This.file
<1>1. /\ n \in Nat \ {0} /\ n \in 1 .. n /\ running[n].file = h
      /\ h \in DOMAIN ns /\ h \in DOMAIN prog
      /\ Python!This.at \in Nat
      /\ Len(prog[h]) \in Nat /\ DOMAIN prog[h] = 1 .. Len(prog[h])
      /\ \A k : At(h, k) <=> Python!This.at <= k
  BY ThisIs
<1>2. /\ running' \in Seq(Point) /\ running' # <<>>
      /\ Len(running') = n - 1
      /\ \A j \in 1 .. n - 1 : running'[j] = running[j]
      /\ \A f, k : At(f, k)' <=> f # h /\ At(f, k)
  BY EndIs
<1>3. \A k \in DOMAIN prog[h] : ~ At(h, k)
  BY <1>1
<1>4. \A j : j \in 1 .. n <=> j \in 1 .. n - 1 \/ j = n
  BY <1>1
<1>5. n \in Nat \ {0} /\ n # 1
  BY <1>1
<1> HIDE DEF h, n
<1>6. n - 1 \in 1 .. n - 1 /\ n - 1 \in 1 .. n
  BY <1>5
<1>7. n - 1 < n /\ (n - 1) + 1 = n
  BY <1>5
<1> USE DEF n
<1>8. PyShape'
  <2>1. \A j \in 1 .. n - 1 : j \in 1 .. n /\ j < n
    BY <1>1
  <2>2. \A j \in 1 .. n - 1 : j < n - 1 => j + 1 \in 1 .. n - 1
    BY <1>1
  <2>3. \A j \in 1 .. n - 1 :
               /\ running'[j].file \in DOMAIN ns
               /\ running'[j].at <= Len(prog[running'[j].file]) + 1
               /\ j < n - 1 =>
                    /\ running'[j].at <= Len(prog[running'[j].file])
                    /\ prog[running'[j].file][running'[j].at].op = "import"
                    /\ prog[running'[j].file][running'[j].at].from = running'[j + 1].file
    BY <1>2, <2>1, <2>2 DEF PyShape
  <2>4. \A i, j \in 1 .. n - 1 : running'[i].file = running'[j].file => i = j
    BY <1>2, <2>1 DEF PyShape
  <2>5. Root \in DOMAIN ns' /\ DOMAIN ns' \subseteq DOMAIN prog' /\ imported' # "ready"
    BY DEF PyShape
  <2>6. QED  BY <1>2, <2>3, <2>4, <2>5, ProgKept DEF PyShape
<1>9. Ran'
  <2>1. SUFFICES ASSUME NEW f \in DOMAIN ns, NEW k \in DOMAIN prog[f], Needs(f, k)
                 PROVE  prog[f][k].from \in DOMAIN ns \/ At(f, k)'
    BY ProgKept DEF Ran
  <2>2. QED  BY <1>2, <1>3, <2>1 DEF Ran
<1>10. PyReached'
  BY ProgKept DEF PyReached
<1>11. Least'
  <2>1. SUFFICES ASSUME NEW M \in SUBSET DOMAIN prog,
                        \A j \in 1 .. n - 1 : running'[j].file \in M,
                        \A f \in M \cap DOMAIN ns : \A k \in DOMAIN prog[f] :
                          Needs(f, k) => prog[f][k].from \in M \/ At(f, k)',
                        TopIn(M)'
                 PROVE  DOMAIN ns \subseteq M
    BY <1>2, ProgKept DEF Least
  <2> DEFINE u == running[n - 1]
  <2>2. h \in M
    <3>1. n - 1 \in 1 .. n - 1 /\ n - 1 \in 1 .. n /\ n - 1 < n /\ (n - 1) + 1 = n
      BY <1>6, <1>7
    <3>2. Python!This' = u
      <4>1. Python!This' = running'[Len(running')]
        BY DEF Python!This, Python!Last
      <4>2. QED  BY <1>2, <3>1, <4>1
    <3>3. /\ u.at <= Len(prog[u.file])
          /\ prog[u.file][u.at].op = "import"
          /\ prog[u.file][u.at].from = running[(n - 1) + 1].file
      BY <3>1 DEF PyShape
    <3>4. prog[u.file][u.at].from = h
      BY <1>1, <3>1, <3>3
    <3>5. Needs(u.file, u.at)
      BY <1>1, <3>3, <3>4 DEF Needs
    <3>6. QED  BY <1>1, <2>1, <3>2, <3>3, <3>4, <3>5, ProgKept DEF TopIn
  <2>3. \A j \in 1 .. n : running[j].file \in M
    BY <1>1, <1>2, <1>4, <2>1, <2>2
  <2>4. \A f \in M \cap DOMAIN ns : \A k \in DOMAIN prog[f] :
          Needs(f, k) => prog[f][k].from \in M \/ At(f, k)
    BY <1>2, <2>1
  <2>5. TopIn(M)
    <3>1. ~ Python!This.at <= Len(prog[Python!This.file])
      BY <1>1 DEF h
    <3>2. QED  BY <3>1 DEF TopIn
  <2>6. QED  BY <2>3, <2>4, <2>5 DEF Least
<1>12. QED  BY <1>8, <1>9, <1>10, <1>11

(* What a name is bound to stays executed, and every new binding is one.    *)
LEMMA NsKept ==
  ASSUME NsOK, UNCHANGED prog, DOMAIN ns \subseteq DOMAIN ns',
         \A f \in DOMAIN ns : \A k \in DOMAIN prog[f] : At(f, k)' => At(f, k),
         \A f \in DOMAIN ns' : \A n \in DOMAIN ns'[f] \ Aliases :
           \/ \E g \in DOMAIN ns : n \in DOMAIN ns[g] /\ ns'[f][n] = ns[g][n]
           \/ ns'[f][n] = Python!Builtin(n) /\ n \in FromLibraries
           \/ \E g \in DOMAIN ns' : \E k \in DOMAIN prog[g] :
                /\ ns'[f][n] = <<g, k>>
                /\ prog[g][k].op \in {"def", "class"}
                /\ prog[g][k].name = n
                /\ ~ At(g, k)'
  PROVE  NsOK'
<1>1. ASSUME NEW f \in DOMAIN ns', NEW n \in DOMAIN ns'[f] \ Aliases
      PROVE  \/ ns'[f][n] = Python!Builtin(n) /\ n \in FromLibraries
             \/ \E g \in DOMAIN ns' : \E k \in DOMAIN prog[g] :
                  /\ ns'[f][n] = <<g, k>>
                  /\ prog[g][k].op \in {"def", "class"}
                  /\ prog[g][k].name = n
                  /\ ~ At(g, k)'
  <2>1. CASE \E g \in DOMAIN ns : n \in DOMAIN ns[g] /\ ns'[f][n] = ns[g][n]
    <3>1. PICK g \in DOMAIN ns : n \in DOMAIN ns[g] \ Aliases /\ ns'[f][n] = ns[g][n]
      BY <1>1, <2>1
    <3>2. \/ ns[g][n] = Python!Builtin(n) /\ n \in FromLibraries
          \/ Executed(ns[g][n], n)
      BY <3>1 DEF NsOK
    <3>3. ASSUME Executed(ns[g][n], n)
          PROVE  \E e \in DOMAIN ns' : \E k \in DOMAIN prog[e] :
                  /\ ns'[f][n] = <<e, k>>
                  /\ prog[e][k].op \in {"def", "class"}
                  /\ prog[e][k].name = n
                  /\ ~ At(e, k)'
      <4>1. PICK e \in DOMAIN ns : \E k \in DOMAIN prog[e] :
              /\ ns[g][n] = <<e, k>>
              /\ prog[e][k].op \in {"def", "class"}
              /\ prog[e][k].name = n
              /\ ~ At(e, k)
        BY <3>3 DEF Executed
      <4>2. \A k \in DOMAIN prog[e] : At(e, k)' => At(e, k)
        BY <4>1
      <4>3. QED  BY <3>1, <4>1, <4>2
    <3>4. QED  BY <3>1, <3>2, <3>3
  <2>2. QED  BY <1>1, <2>1
<1>2. QED  BY <1>1, ProgKept DEF NsOK, Executed, Python!Builtin

LEMMA SamePython ==
  ASSUME Ran, PyReached, Least, NsOK, UNCHANGED <<prog, running, ns>>
  PROVE  Ran' /\ PyReached' /\ Least' /\ NsOK'
<1>1. /\ \A f, k : At(f, k)' = At(f, k)
      /\ \A M : TopIn(M)' = TopIn(M)
  BY DEF At, Ahead, TopIn, Needs, Python!This, Python!Last
<1>2. Ran' /\ PyReached' /\ Least'
  BY <1>1, ProgKept DEF Ran, PyReached, Least
<1>3. NsOK'
  BY <1>1, NsKept
<1>4. QED  BY <1>2, <1>3

LEMMA PythonKeeps ==
  ASSUME FilesOK, prog \in Programs, PyInv, Python!ImportNext, UNCHANGED prog
  PROVE  PyInv'
<1> DEFINE h == Python!This.file
           m == Python!This.at
<1>1. /\ h \in DOMAIN ns /\ h \in DOMAIN prog /\ m \in Nat \ {0}
      /\ Len(running) \in Nat \ {0} /\ Python!This = running[Len(running)]
      /\ Len(prog[h]) \in Nat /\ DOMAIN prog[h] = 1 .. Len(prog[h])
      /\ \A k : At(h, k) <=> m <= k
  BY ThisIs DEF PyInv
<1>2. Python!Here = prog[h][m]
  BY DEF Python!Here
<1>3. \A op : Python!At(op) =>
        imported = "running" /\ m \in DOMAIN prog[h] /\ m <= Len(prog[h])
          /\ prog[h][m].op = op
  BY <1>1, <1>2 DEF Python!At, Python!Done
<1>4. Python!Advance =>
        /\ \A f : \A k \in DOMAIN prog[f] : At(f, k)' => At(f, k)
        /\ \A k : k = m => \A f : f = h => ~ At(f, k)'
  <2>1. SUFFICES ASSUME Python!Advance
                 PROVE  /\ \A f : \A k \in DOMAIN prog[f] : At(f, k)' => At(f, k)
                        /\ \A k : k = m => \A f : f = h => ~ At(f, k)'
    OBVIOUS
  <2>2. \A f, k : At(f, k)' <=> IF f = h THEN m + 1 <= k ELSE At(f, k)
    BY <2>1, AdvanceIs DEF PyInv
  <2>3. ~ m + 1 <= m
    BY <1>1
  <2>4. ASSUME NEW f, NEW k \in DOMAIN prog[f], At(f, k)' PROVE At(f, k)
    <3>1. CASE f = h
      <4>1. m + 1 <= k /\ k \in Nat
        BY <1>1, <2>2, <2>4, <3>1
      <4>2. m <= k
        BY <1>1, <4>1
      <4>3. QED  BY <1>1, <3>1, <4>2
    <3>2. QED  BY <2>2, <2>4, <3>1
  <2>5. QED  BY <2>2, <2>3, <2>4
<1> HIDE DEF h, m
<1>5. CASE Python!Bind

  <2>1. /\ Python!At("def") \/ Python!At("class")
        /\ Python!Advance /\ UNCHANGED imported
        /\ ns' = [ns EXCEPT ![h] =
                    [n \in {prog[h][m].name} \cup DOMAIN ns[h] |->
                       IF n \in {prog[h][m].name} THEN <<h, m>> ELSE ns[h][n]]]
    BY <1>2, <1>5 DEF Python!Bind, Python!Binding, h, m
  <2>2. /\ imported = "running" /\ m \in DOMAIN prog[h] /\ m <= Len(prog[h])
        /\ prog[h][m].op \in {"def", "class"}
    BY <1>3, <2>1
  <2>3. DOMAIN ns' = DOMAIN ns /\ ~ Needs(h, m)
    BY <2>1, <2>2 DEF Needs
  <2>4. PyShape' /\ Ran' /\ PyReached' /\ Least'
    BY <2>1, <2>2, <2>3, AdvanceKeeps DEF PyInv, h, m
  <2>5. ASSUME NEW f \in DOMAIN ns', NEW n \in DOMAIN ns'[f] \ Aliases
        PROVE  \/ \E g \in DOMAIN ns : n \in DOMAIN ns[g] /\ ns'[f][n] = ns[g][n]
               \/ \E g \in DOMAIN ns' : \E k \in DOMAIN prog[g] :
                    /\ ns'[f][n] = <<g, k>>
                    /\ prog[g][k].op \in {"def", "class"}
                    /\ prog[g][k].name = n
                    /\ ~ At(g, k)'
    <3>1. CASE f = h /\ n = prog[h][m].name
      <4>1. ns'[f][n] = <<h, m>>
        BY <1>1, <2>1, <3>1
      <4>2. \A g, k : g = h /\ k = m => ~ At(g, k)'
        BY <1>4, <2>1
      <4>3. QED  BY <1>1, <2>2, <2>3, <3>1, <4>1, <4>2
    <3>2. CASE f # h \/ n # prog[h][m].name
      <4>1. n \in DOMAIN ns[f] /\ ns'[f][n] = ns[f][n]
        BY <1>1, <2>1, <2>5, <3>2
      <4>2. QED  BY <2>3, <2>5, <4>1
    <3>3. QED  BY <3>1, <3>2
  <2>6. NsOK'
    <3>1. NsOK /\ \A f : \A k \in DOMAIN prog[f] : At(f, k)' => At(f, k)
      BY <1>4, <2>1 DEF PyInv
    <3>2. DOMAIN ns' = DOMAIN ns
      BY <2>3
    <3>3. QED  BY <2>5, <3>1, <3>2, NsKept
  <2>7. QED  BY <2>4, <2>6 DEF PyInv
<1>6. CASE Python!Other
  <2>1. Python!At("other") /\ Python!Advance /\ UNCHANGED <<ns, imported>>
    BY <1>6 DEF Python!Other
  <2>2. /\ imported = "running" /\ m \in DOMAIN prog[h] /\ m <= Len(prog[h])
        /\ ~ Needs(h, m)
    BY <1>3, <2>1 DEF Needs
  <2>3. PyShape' /\ Ran' /\ PyReached' /\ Least'
    BY <2>1, <2>2, AdvanceKeeps DEF PyInv, h, m
  <2>4. NsOK'
    BY <1>4, <2>1, NsKept DEF PyInv
  <2>5. QED  BY <2>3, <2>4 DEF PyInv
<1>7. CASE Python!Begin
  <2>1. PyShape' /\ Ran' /\ PyReached' /\ Least'
    BY <1>7, BeginKeeps DEF PyInv
  <2>2. /\ ns' = [f \in DOMAIN ns \cup {Python!Here.from} |->
                    IF f = Python!Here.from THEN Python!NoNames ELSE ns[f]]
        /\ Python!Here.from \notin DOMAIN ns
    BY <1>7 DEF Python!Begin
  <2>3. DOMAIN Python!NoNames = {}
    BY DEF Python!NoNames
  <2>4. \A f \in DOMAIN ns : \A k \in DOMAIN prog[f] : At(f, k)' => At(f, k)
    BY <1>7, <2>2, BeginIs DEF PyInv
  <2>5. \A f \in DOMAIN ns' : \A n \in DOMAIN ns'[f] :
          f \in DOMAIN ns /\ n \in DOMAIN ns[f] /\ ns'[f][n] = ns[f][n]
    BY <2>2, <2>3
  <2>6. NsOK'
    <3>1. NsOK /\ DOMAIN ns \subseteq DOMAIN ns'
      BY <2>2 DEF PyInv
    <3>2. \A f \in DOMAIN ns' : \A n \in DOMAIN ns'[f] \ Aliases :
            \E g \in DOMAIN ns : n \in DOMAIN ns[g] /\ ns'[f][n] = ns[g][n]
      BY <2>5
    <3>3. QED  BY <2>4, <3>1, <3>2, NsKept
  <2>7. QED  BY <2>1, <2>6 DEF PyInv
<1>8. CASE Python!BindNames
  <2> DEFINE g == prog[h][m].from
             names == prog[h][m].names
             Chosen(k) == CHOOSE n \in names : n.as = k
             taken == [k \in {n.as : n \in names} |->
                         IF g \in Libraries THEN Python!Builtin(Chosen(k).name)
                         ELSE ns[g][Chosen(k).name]]
  <2>1. /\ Python!At("import") /\ Python!Advance /\ UNCHANGED imported
        /\ g \in Libraries \cup DOMAIN ns
        /\ \A n \in names : g \notin Libraries => n.name \in DOMAIN ns[g]
    BY <1>2, <1>8 DEF Python!BindNames, Python!Offers
  <2>2. Python!Taken = taken
    BY <1>2 DEF Python!Taken, Python!Offered
  <2> HIDE DEF taken
  <2>3. ns' = [ns EXCEPT ![h] =
                 [n \in DOMAIN taken \cup DOMAIN ns[h] |->
                    IF n \in DOMAIN taken THEN taken[n] ELSE ns[h][n]]]
    BY <1>8, <2>2 DEF Python!BindNames, Python!Binding, h
  <2>4. /\ imported = "running" /\ m \in DOMAIN prog[h] /\ m <= Len(prog[h])
        /\ prog[h][m].op = "import"
    BY <1>3, <2>1
  <2>5. DOMAIN ns' = DOMAIN ns
    BY <2>3
  <2>6. Needs(h, m) => g \in DOMAIN ns
    BY <2>1, LibrariesAssumption DEF Needs
  <2>7. PyShape' /\ Ran' /\ PyReached' /\ Least'
    BY <2>1, <2>4, <2>5, <2>6, AdvanceKeeps DEF PyInv, h, m
  <2>8. prog[h][m] \in Imports
    <3>1. prog[h][m] \in ToSet(prog[h])
      BY <2>4 DEF ToSet
    <3>2. QED  BY <1>1, <2>4, <3>1 DEF Imports, Statements
  <2>9. ASSUME NEW f \in DOMAIN ns', NEW n \in DOMAIN ns'[f] \ Aliases
        PROVE  \/ \E e \in DOMAIN ns : n \in DOMAIN ns[e] /\ ns'[f][n] = ns[e][n]
               \/ ns'[f][n] = Python!Builtin(n) /\ n \in FromLibraries
    <3>1. CASE f = h /\ n \in DOMAIN taken
      <4>1. ns'[f][n] = taken[n]
        BY <1>1, <2>3, <3>1
      <4>2. Chosen(n) \in names /\ Chosen(n).as = n
        BY <3>1 DEF taken
      <4>3. Chosen(n).name = n
        BY <2>8, <2>9, <4>2 DEF Aliases
      <4>4. taken[n] = IF g \in Libraries THEN Python!Builtin(n) ELSE ns[g][n]
        BY <3>1, <4>3 DEF taken
      <4>5. CASE g \in Libraries
        <5>1. n \in FromLibraries
          BY <2>8, <4>2, <4>5 DEF FromLibraries
        <5>2. QED  BY <4>1, <4>4, <4>5, <5>1
      <4>6. CASE g \notin Libraries
        <5>1. g \in DOMAIN ns /\ n \in DOMAIN ns[g]
          BY <2>1, <4>2, <4>3, <4>6
        <5>2. QED  BY <4>1, <4>4, <4>6, <5>1
      <4>7. QED  BY <4>5, <4>6
    <3>2. CASE f # h \/ n \notin DOMAIN taken
      <4>1. n \in DOMAIN ns[f] /\ ns'[f][n] = ns[f][n]
        BY <1>1, <2>3, <2>9, <3>2
      <4>2. QED  BY <2>5, <2>9, <4>1
    <3>3. QED  BY <3>1, <3>2
  <2>10. NsOK'
    <3>1. NsOK /\ \A f : \A k \in DOMAIN prog[f] : At(f, k)' => At(f, k)
      BY <1>4, <2>1 DEF PyInv
    <3>2. QED  BY <2>5, <2>9, <3>1, NsKept
  <2>11. QED  BY <2>7, <2>10 DEF PyInv
<1>9. CASE Python!Raise
  <2>1. imported' = "raised" /\ UNCHANGED <<running, ns>>
    BY <1>9 DEF Python!Raise
  <2>2. PyShape'
    BY <2>1, ProgKept DEF PyInv, PyShape
  <2>3. Ran' /\ PyReached' /\ Least' /\ NsOK'
    BY <2>1, SamePython DEF PyInv
  <2>4. QED  BY <2>2, <2>3 DEF PyInv
<1>10. CASE Python!EndModule
  <2>1. imported = "running" /\ m > Len(prog[h]) /\ UNCHANGED ns
    BY <1>10 DEF Python!EndModule, Python!Done, h, m
  <2>2. CASE Len(running) = 1
    <3>1. imported' = "ready" /\ UNCHANGED running
      BY <1>10, <2>2 DEF Python!EndModule
    <3>2. running[1].file = h /\ running[1].at = m
      BY <1>1, <2>2 DEF h, m
    <3>3. PyShape'
      BY <2>1, <2>2, <3>1, <3>2, ProgKept DEF PyInv, PyShape
    <3>4. Ran' /\ PyReached' /\ Least' /\ NsOK'
      BY <2>1, <3>1, SamePython DEF PyInv
    <3>5. QED  BY <3>3, <3>4 DEF PyInv
  <2>3. CASE Len(running) # 1
    <3>1. running' = Python!Front(running) /\ UNCHANGED imported
      BY <1>10, <2>3 DEF Python!EndModule
    <3>2. PyShape' /\ Ran' /\ PyReached' /\ Least'
      BY <2>1, <2>3, <3>1, EndKeeps DEF PyInv, h, m
    <3>3. \A f, k : At(f, k)' => At(f, k)
      BY <2>3, <3>1, EndIs DEF PyInv
    <3>4. NsOK'
      BY <2>1, <3>3, NsKept DEF PyInv
    <3>5. QED  BY <3>2, <3>4 DEF PyInv
  <2>4. QED  BY <2>2, <2>3
<1>11. QED
  BY <1>5, <1>6, <1>7, <1>8, <1>9, <1>10 DEF Python!ImportNext

LEMMA StepPython ==
  ASSUME IInv, CompilerInv, PyInv, [Next]_vars
  PROVE  PyInv'
<1>1. FilesOK /\ prog \in Programs
  BY DEF IInv, CompilerInv
<1>2. CASE Python!ImportNext /\ UNCHANGED prog
  BY <1>1, <1>2, PythonKeeps
<1>3. CASE UNCHANGED <<prog, pyVars>>
  <2>1. PyShape'
    BY <1>3, ProgKept DEF PyInv, PyShape, pyVars
  <2>2. Ran' /\ PyReached' /\ Least' /\ NsOK'
    BY <1>3, SamePython DEF PyInv, pyVars
  <2>3. QED  BY <2>1, <2>2 DEF PyInv
<1>4. QED  BY <1>2, <1>3 DEF Next, vars

LEMMA InitPython ==
  ASSUME Init PROVE PyInv /\ PyInitial
<1>1. /\ prog \in Programs
      /\ running = <<[file |-> Root, at |-> 1]>>
      /\ ns = [f \in {Root} |-> Python!NoNames]
      /\ imported = "running"
  BY DEF Init, Python!ImportInit
<1>2. Root \in DOMAIN prog /\ prog[Root] \in Seq(ToSet(prog[Root]))
  BY <1>1, ProgramsAssumption
<1>3. Len(prog[Root]) \in Nat /\ DOMAIN prog[Root] = 1 .. Len(prog[Root])
  BY <1>2
<1>4. [file |-> Root, at |-> 1] \in Point
  BY <1>2 DEF Point
<1>5. /\ running \in Seq(Point) /\ running # <<>> /\ Len(running) = 1
      /\ running[1].file = Root /\ running[1].at = 1
  BY <1>1, <1>4
<1>6. DOMAIN ns = {Root} /\ DOMAIN ns[Root] = {}
  BY <1>1 DEF Python!NoNames
<1>7. \A k \in DOMAIN prog[Root] : At(Root, k)
  BY <1>3, <1>5, AtIs
<1>8. PyShape
  BY <1>1, <1>2, <1>3, <1>5, <1>6 DEF PyShape
<1>9. Ran /\ PyReached /\ Least /\ NsOK
  <2>1. Ran
    BY <1>6, <1>7 DEF Ran
  <2>2. PyReached
    BY <1>6 DEF PyReached, Closed
  <2>3. Least
    BY <1>5, <1>6 DEF Least
  <2>4. NsOK
    BY <1>6 DEF NsOK
  <2>5. QED  BY <2>1, <2>2, <2>3, <2>4
<1>10. QED  BY <1>1, <1>8, <1>9 DEF PyInv, PyInitial

-----------------------------------------------------------------------------
(* Both have gone through the same files.                                   *)
LEMMA ReadyClosed ==
  ASSUME FilesOK, PyInv, imported = "ready"
  PROVE  /\ \A f \in DOMAIN ns : \A k \in DOMAIN prog[f] : ~ At(f, k)
         /\ Closed(DOMAIN ns)
<1>1. /\ Len(running) = 1 /\ running[1].at > Len(prog[running[1].file])
      /\ Root \in DOMAIN ns /\ DOMAIN ns \subseteq DOMAIN prog
      /\ running[1] \in Point
  BY DEF PyInv, PyShape
<1>2. ASSUME NEW f \in DOMAIN ns, NEW k \in DOMAIN prog[f] PROVE ~ At(f, k)
  <2>1. prog[f] \in Seq(ToSet(prog[f]))
    BY <1>1 DEF FilesOK
  <2>2. Len(prog[f]) \in Nat /\ k \in 1 .. Len(prog[f])
    BY <2>1
  <2>3. running[1].at \in Nat
    BY <1>1 DEF Point
  <2>4. \A j \in 1 .. Len(running) : j = 1
    BY <1>1
  <2>5. running[1].file = f => ~ running[1].at <= k
    BY <1>1, <2>2, <2>3
  <2>6. QED  BY <2>4, <2>5, AtIs
<1>3. QED  BY <1>1, <1>2 DEF PyInv, Ran, Closed

LEMMA AcceptedSame ==
  ASSUME IInv, CompilerInv, PyInv, stack = <<>>, imported = "ready"
  PROVE  DOMAIN ns = loaded
<1>1. \A f, k : ~ Awaits(stack, f, k)
  BY AwaitsIs
<1>2. Closed(loaded)
  BY <1>1 DEF CompilerInv, NamesCovered, Closed, IInv, FilesOK
<1>3. DOMAIN ns \subseteq loaded
  BY <1>2 DEF PyInv, PyReached, Closed
<1>4. loaded \subseteq DOMAIN ns
  BY ReadyClosed DEF CompilerInv, Reached, Closed, IInv
<1>5. QED  BY <1>3, <1>4

LEMMA CallIsPythons ==
  ASSUME IInv, CompilerInv, PyInv, stack = <<>>, imported = "ready",
         NEW i \in 1 .. Len(emitted), NEW c \in DOMAIN emitted[i].calls,
         c \notin Aliases, ~ Redefined(c)
  PROVE  Python!LooksUp(emitted[i].def[1], c) \in {None, emitted[i].calls[c]}
<1> DEFINE f == emitted[i].def[1]
           t == emitted[i].calls[c]
<1>1. DOMAIN ns = loaded
  BY AcceptedSame
<1>2. f \in DOMAIN ns
  BY <1>1 DEF IInv, EmittedOK
<1>3. \/ c \in DOMAIN registry /\ t = registry[c]
      \/ c \in Inlined /\ t = Python!Builtin(c)
      \/ c \in DOMAIN signatures /\ t = signatures[c]
  BY DEF CompilerInv, CallsOK
<1>4. /\ c \in DOMAIN registry =>
           registry[c] \in Definitions /\ Named(registry[c]).name = c
             /\ Named(registry[c]).op = "class"
      /\ c \in DOMAIN signatures =>
           signatures[c] \in Definitions /\ Named(signatures[c]).name = c
             /\ Named(signatures[c]).op = "def"
  BY DEF IInv, TablesOK, TableOK
<1>5. \A d, e \in Definitions :
        Named(d).name = c /\ Named(e).name = c => Named(d).op = Named(e).op
  <2>1. \A d \in Definitions : Named(d).op \in {"def", "class"}
    BY DEF Definitions, Named
  <2>2. QED  BY <2>1 DEF Redefined
<1>6. c \in Inlined \cup Builtins \cup FromLibraries =>
        \A d \in Definitions : Named(d).name # c
  BY DEF Redefined
<1>7. ASSUME NEW g \in DOMAIN ns, NEW k \in DOMAIN prog[g],
             prog[g][k].op \in {"def", "class"}, prog[g][k].name = c, ~ At(g, k)
      PROVE  t = <<g, k>>
  <2>1. <<g, k>> \in Definitions /\ Named(<<g, k>>) = prog[g][k]
    BY <1>7 DEF Definitions, Named, PyInv, PyShape
  <2>2. ~ Awaits(stack, g, k)
    BY AwaitsIs
  <2>3. CASE prog[g][k].op = "def"
    <3>1. c \in DOMAIN signatures /\ signatures[c] = <<g, k>>
      BY <1>1, <1>7, <2>2, <2>3 DEF CompilerInv, NamesCovered
    <3>2. c \notin DOMAIN registry
      BY <1>4, <1>5, <1>7, <2>1, <2>3
    <3>3. QED  BY <1>3, <1>6, <1>7, <2>1, <3>1, <3>2
  <2>4. CASE prog[g][k].op = "class"
    <3>1. c \in DOMAIN registry /\ registry[c] = <<g, k>>
      BY <1>1, <1>7, <2>4 DEF CompilerInv, ClassesCovered
    <3>2. c \notin DOMAIN signatures
      BY <1>4, <1>5, <1>7, <2>1, <2>4
    <3>3. QED  BY <1>3, <1>6, <1>7, <2>1, <3>1, <3>2
  <2>5. QED  BY <1>7, <2>3, <2>4
<1>8. c \in Builtins \cup FromLibraries => t = Python!Builtin(c)
  BY <1>3, <1>4, <1>6
<1>9. CASE c \in DOMAIN ns[f]
  <2>1. \/ ns[f][c] = Python!Builtin(c) /\ c \in FromLibraries
        \/ Executed(ns[f][c], c)
    BY <1>2, <1>9 DEF PyInv, NsOK
  <2>2. Executed(ns[f][c], c) => ns[f][c] = t
    BY <1>7 DEF Executed
  <2>3. QED  BY <1>8, <1>9, <2>1, <2>2 DEF Python!LooksUp
<1>10. CASE c \notin DOMAIN ns[f]
  BY <1>8, <1>10 DEF Python!LooksUp
<1>11. QED  BY <1>9, <1>10

LEMMA InvCallsAsPython ==
  ASSUME IInv, CompilerInv, PyInv PROVE CallsAsPython
<1>1. SUFFICES ASSUME verdict = "accepted", imported = "ready",
                      NEW e \in ToSet(emitted), NEW c \in DOMAIN e.calls,
                      c \notin Aliases, ~ Redefined(c)
               PROVE  Python!LooksUp(e.def[1], c) \in {None, e.calls[c]}
  BY DEF CallsAsPython
<1>2. stack = <<>>
  BY <1>1 DEF IInv, VerdictOK
<1>3. PICK i \in 1 .. Len(emitted) : e = emitted[i]
  BY DEF ToSet, IInv, EmittedOK
<1>4. QED  BY <1>1, <1>2, <1>3, CallIsPythons

LEMMA BothInv == Spec => [](IInv /\ CompilerInv /\ PyInv)
<1>1. Init => IInv /\ CompilerInv /\ PyInv
  BY InitIInv, InitCompiler, InitPython
<1>2. IInv /\ CompilerInv /\ PyInv /\ [Next]_vars => (IInv /\ CompilerInv /\ PyInv)'
  BY StepIInv, StepCompiler, StepPython
<1>3. QED  BY <1>1, <1>2, PTL DEF Spec

(* A call reaches the definition Python reaches from the module the call is *)
(* written in, whatever files there are and however they import each other. *)
THEOREM CallsReachPython == Spec => []CallsAsPython
<1>1. IInv /\ CompilerInv /\ PyInv => CallsAsPython
  BY InvCallsAsPython
<1>2. QED  BY <1>1, BothInv, PTL

-----------------------------------------------------------------------------
(* Where the compiler has stopped.                                          *)
LEMMA OnStack ==
  ASSUME IInv, CompilerInv, NEW i \in 1 .. Len(stack)
  PROVE  /\ Len(stack) \in Nat /\ stack # <<>>
         /\ stack[i].file \in loaded /\ stack[i].file \in DOMAIN prog
         /\ Pos(stack[i]) \in Nat \ {0}
         /\ Pos(stack[i]) <= Len(prog[stack[i].file]) + 1
         /\ Points(stack)[i].file = stack[i].file
         /\ Points(stack)[i].at = Pos(stack[i])
         /\ \A j \in 1 .. Len(stack) : stack[j].file = stack[i].file => j = i
         /\ i < Len(stack) =>
              /\ i + 1 \in 1 .. Len(stack)
              /\ prog[stack[i].file][Pos(stack[i])].op = "import"
              /\ prog[stack[i].file][Pos(stack[i])].from = stack[i + 1].file
<1>1. /\ stack \in Seq(Act) /\ FilesOK /\ Len(stack) \in Nat
      /\ \A j \in 1 .. Len(stack) : stack[j].file = stack[i].file => j = i
      /\ i < Len(stack) => stack[i].phase = "verify"
  BY DEF IInv, Shape
<1>2. stack[i] \in Act /\ ActOK(stack[i], loaded)
  BY <1>1, ElementOfSeq DEF IInv, Shape
<1>3. /\ Pos(stack[i]) \in Nat \ {0}
      /\ Pos(stack[i]) <= Len(prog[stack[i].file]) + 1
  BY <1>2, PosIsNat
<1>4. stack[i].file \in loaded /\ stack[i].file \in DOMAIN prog
  BY <1>1, <1>2 DEF ActOK, FilesOK
<1>5. /\ Points(stack)[i].file = stack[i].file
      /\ Points(stack)[i].at = Pos(stack[i])
  <2>1. Points(stack)[i] = [file |-> stack[i].file, at |-> Pos(stack[i])]
    BY PointsAre
  <2>2. QED  BY <2>1
<1>6. ASSUME i < Len(stack)
      PROVE  /\ i + 1 \in 1 .. Len(stack)
             /\ prog[stack[i].file][Pos(stack[i])].op = "import"
             /\ prog[stack[i].file][Pos(stack[i])].from = stack[i + 1].file
  <2>1. stack[i].phase = "verify" /\ Pos(stack[i]) = stack[i].at
    BY <1>1, <1>6 DEF Pos
  <2>2. /\ Needs(stack[i].file, stack[i].at)
        /\ prog[stack[i].file][stack[i].at].from = stack[i + 1].file
    BY <1>6, <2>1 DEF CompilerInv, PathOK
  <2>3. i + 1 \in 1 .. Len(stack)
    BY <1>1, <1>6
  <2>4. QED  BY <2>1, <2>2, <2>3 DEF Needs
<1>7. stack # <<>>
  BY EmptySeq
<1>8. QED  BY <1>1, <1>3, <1>4, <1>5, <1>6, <1>7

LEMMA LoadedGood ==
  ASSUME IInv, CompilerInv
  PROVE  Good(loaded, Points(stack), Len(stack))
<1>1. \A j \in 1 .. Len(stack) : Points(stack)[j].file \in loaded
  BY OnStack
<1>2. QED  BY <1>1 DEF Good, CompilerInv, NamesCovered, Awaits, IInv, FilesOK

(* What Python can have begun when it is where the activation i is.         *)
LEMMA NotBegun ==
  ASSUME IInv, CompilerInv, NEW i \in 1 .. Len(stack), NEW D,
         \A M : Good(M, Points(stack), i) => D \subseteq M
  PROVE  Fresh(i, D)
<1>1. Len(stack) \in Nat
  BY OnStack
<1>2. CASE i < Len(stack)
  BY <1>2 DEF CompilerInv, OrderOK, Fresh
<1>3. CASE i = Len(stack)
  BY <1>3, LoadedGood DEF Fresh
<1>4. QED  BY <1>1, <1>2, <1>3

LEMMA AgreeFiles ==
  ASSUME IInv, CompilerInv, NEW i \in 1 .. Len(stack), Along(i), NEW j \in 1 .. i
  PROVE  running[j].file = stack[j].file
<1>1. Len(stack) \in Nat
  BY OnStack
<1>2. CASE j = i
  BY <1>2 DEF Along
<1>3. CASE j # i
  <2>1. j \in 1 .. i - 1 /\ j \in 1 .. Len(stack)
    BY <1>1, <1>3
  <2>2. QED  BY <2>1, OnStack DEF Along
<1>4. QED  BY <1>2, <1>3

LEMMA LeastBehind ==
  ASSUME IInv, CompilerInv, PyInv, NEW i \in 1 .. Len(stack), Along(i),
         Len(running) = i, running[i].at < Pos(stack[i]),
         NEW M, Good(M, Points(stack), i)
  PROVE  DOMAIN ns \subseteq M
<1> DEFINE h == stack[i].file
           m == running[i].at
<1>1. /\ Python!This = running[i] /\ m \in Nat \ {0}
  BY ThisIs DEF PyInv, IInv
<1>2. Len(stack) \in Nat /\ Pos(stack[i]) \in Nat
  BY OnStack
<1>3. M \in SUBSET DOMAIN prog
  BY DEF Good
<1>4. \A j \in 1 .. i : j \in 1 .. Len(stack)
  BY <1>2
<1>5. \A j \in 1 .. i : running[j].file \in M
  <2>1. ASSUME NEW j \in 1 .. i PROVE running[j].file \in M
    <3>1. j \in 1 .. Len(stack)
      BY <1>4, <2>1
    <3>2. Points(stack)[j].file \in M
      BY <2>1 DEF Good
    <3>3. Points(stack)[j].file = stack[j].file
      BY <3>1, OnStack
    <3>4. running[j].file = stack[j].file
      BY <2>1, AgreeFiles
    <3>5. QED  BY <3>2, <3>3, <3>4
  <2>2. QED  BY <2>1
<1>6. ASSUME NEW f, NEW k, Ahead(Points(stack), i, f, k)
      PROVE  At(f, k) \/ (f = h /\ Pos(stack[i]) <= k)
  <2>1. PICK j \in 1 .. i : Points(stack)[j].file = f /\ Points(stack)[j].at <= k
    BY <1>6 DEF Ahead
  <2>2. CASE j = i
    BY <2>1, <2>2, OnStack
  <2>3. CASE j # i
    <3>1. j \in 1 .. i - 1
      BY <2>3
    <3>2. running[j] = Points(stack)[j] /\ j \in 1 .. Len(running)
      BY <3>1 DEF Along
    <3>3. QED  BY <2>1, <3>2, AtIs
  <2>4. QED  BY <2>2, <2>3
<1>7. ASSUME NEW k \in DOMAIN prog[h], Pos(stack[i]) <= k
      PROVE  At(h, k)
  <2>1. prog[h] \in Seq(ToSet(prog[h]))
    BY OnStack DEF IInv, FilesOK
  <2>2. k \in Nat
    BY <2>1
  <2>3. m <= k
    BY <1>1, <1>2, <1>7, <2>2
  <2>4. QED  BY <2>3, AtIs DEF Along
<1>8. \A f \in M \cap DOMAIN ns : \A k \in DOMAIN prog[f] :
        Needs(f, k) => prog[f][k].from \in M \/ At(f, k)
  BY <1>6, <1>7 DEF Good
<1>9. TopIn(M)
  <2>1. ~ Ahead(Points(stack), i, h, m)
    <3>1. \A j \in 1 .. i : Points(stack)[j].file = h => j = i
      BY <1>4, OnStack
    <3>2. ~ Points(stack)[i].at <= m
      BY <1>1, <1>2, OnStack
    <3>3. QED  BY <3>1, <3>2 DEF Ahead
  <2>2. h \in M
    BY <1>5 DEF Along
  <2>3. Python!This.file = h /\ Python!This.at = m
    BY <1>1 DEF Along
  <2>4. m <= Len(prog[h]) => m \in DOMAIN prog[h]
    <3>1. prog[h] \in Seq(ToSet(prog[h]))
      BY OnStack DEF IInv, FilesOK
    <3>2. QED  BY <1>1, <3>1
  <2>5. QED  BY <2>1, <2>2, <2>3, <2>4 DEF TopIn, Good
<1>10. QED  BY <1>3, <1>5, <1>8, <1>9 DEF PyInv, Least

LEMMA LeastBegins ==
  ASSUME IInv, CompilerInv, PyInv, NEW i \in 1 .. Len(stack), Along(i),
         Len(running) = i, running[i].at = Pos(stack[i]),
         i < Len(stack), stack[i + 1].file \notin DOMAIN ns,
         NEW M, Good(M, Points(stack), i + 1)
  PROVE  DOMAIN ns \cup {stack[i + 1].file} \subseteq M
<1>1. Python!This = running[i] /\ running[i].file = stack[i].file
  BY ThisIs DEF PyInv, IInv, Along
<1>2. /\ Len(stack) \in Nat /\ Pos(stack[i]) \in Nat
      /\ i + 1 \in 1 .. Len(stack)
      /\ prog[stack[i].file][Pos(stack[i])].from = stack[i + 1].file
  BY OnStack
<1>3. \A j \in 1 .. i : j \in 1 .. Len(stack) /\ j \in 1 .. i + 1
  BY <1>2
<1>4. M \in SUBSET DOMAIN prog /\ stack[i + 1].file \in M
  <2>1. i + 1 \in 1 .. i + 1
    BY <1>2
  <2>2. QED  BY <1>2, <2>1, OnStack DEF Good
<1>5. \A j \in 1 .. i : running[j].file \in M
  <2>1. ASSUME NEW j \in 1 .. i PROVE running[j].file \in M
    <3>1. j \in 1 .. Len(stack) /\ j \in 1 .. i + 1
      BY <1>3, <2>1
    <3>2. Points(stack)[j].file \in M
      BY <3>1 DEF Good
    <3>3. Points(stack)[j].file = stack[j].file
      BY <3>1, OnStack
    <3>4. running[j].file = stack[j].file
      BY <2>1, AgreeFiles
    <3>5. QED  BY <3>2, <3>3, <3>4
  <2>2. QED  BY <2>1
<1>6. ASSUME NEW f \in DOMAIN ns, NEW k, Ahead(Points(stack), i + 1, f, k)
      PROVE  At(f, k)
  <2>1. PICK j \in 1 .. i + 1 : Points(stack)[j].file = f /\ Points(stack)[j].at <= k
    BY <1>6 DEF Ahead
  <2>2. j # i + 1
    BY <1>2, <1>6, <2>1, OnStack
  <2>3. j \in 1 .. i
    BY <1>2, <2>2
  <2>4. CASE j = i
    BY <2>1, <2>3, <2>4, AtIs, OnStack DEF Along
  <2>5. CASE j # i
    <3>1. j \in 1 .. i - 1
      BY <2>3, <2>5
    <3>2. QED  BY <2>1, <2>3, <3>1, AtIs DEF Along
  <2>6. QED  BY <2>4, <2>5
<1>7. \A f \in M \cap DOMAIN ns : \A k \in DOMAIN prog[f] :
        Needs(f, k) => prog[f][k].from \in M \/ At(f, k)
  BY <1>6 DEF Good
<1>8. TopIn(M)
  BY <1>1, <1>2 DEF TopIn
<1>9. QED  BY <1>4, <1>5, <1>7, <1>8 DEF PyInv, Least

-----------------------------------------------------------------------------
(* Python's steps, once the compiler has rejected.                          *)
LEMMA PythonMoves ==
  ASSUME FilesOK, PyShape, Python!ImportNext
  PROVE  LET h == Python!This.file
             m == Python!This.at
         IN  /\ imported = "running"
             /\ \/ imported' = "raised"
                \/ /\ Python!Advance /\ imported' = "running"
                   /\ m <= Len(prog[h]) /\ DOMAIN ns' = DOMAIN ns
                   /\ \A f \in DOMAIN ns : f # h => ns'[f] = ns[f]
                   /\ prog[h][m].op = "import" =>
                        /\ prog[h][m].from \in Libraries \cup DOMAIN ns
                        /\ \A n \in prog[h][m].names :
                             prog[h][m].from \in Libraries
                               \/ n.name \in DOMAIN ns[prog[h][m].from]
                \/ /\ Python!Begin /\ imported' = "running"
                   /\ m <= Len(prog[h]) /\ prog[h][m].op = "import"
                   /\ prog[h][m].from = Python!Here.from
                   /\ Python!Here.from \in DOMAIN prog \ DOMAIN ns
                   /\ Python!Parses(Python!Here.from)
                   /\ DOMAIN ns' = DOMAIN ns \cup {Python!Here.from}
                   /\ \A f \in DOMAIN ns : ns'[f] = ns[f]
                \/ /\ m > Len(prog[h]) /\ UNCHANGED ns
                   /\ IF Len(running) = 1
                      THEN imported' = "ready" /\ UNCHANGED running
                      ELSE imported' = "running" /\ running' = Python!Front(running)
<1> DEFINE h == Python!This.file
           m == Python!This.at
<1>1. h \in DOMAIN ns /\ m \in Nat /\ Len(prog[h]) \in Nat
  BY ThisIs
<1>2. Python!Here = prog[h][m]
  BY DEF Python!Here
<1>3. \A op : Python!At(op) =>
        imported = "running" /\ m <= Len(prog[h]) /\ prog[h][m].op = op
  BY <1>1, <1>2 DEF Python!At, Python!Done
<1> HIDE DEF h, m
<1>4. CASE Python!Bind
  <2>1. /\ Python!At("def") \/ Python!At("class")
        /\ Python!Advance /\ UNCHANGED imported
    BY <1>4 DEF Python!Bind
  <2>2. /\ DOMAIN ns' = DOMAIN ns
        /\ \A f \in DOMAIN ns : f # h => ns'[f] = ns[f]
    BY <1>4 DEF Python!Bind, Python!Binding, h
  <2>3. QED  BY <1>3, <2>1, <2>2 DEF h, m
<1>5. CASE Python!Other
  <2>1. Python!At("other") /\ Python!Advance /\ UNCHANGED <<ns, imported>>
    BY <1>5 DEF Python!Other
  <2>2. QED  BY <1>3, <2>1 DEF h, m
<1>6. CASE Python!Begin
  <2>1. /\ Python!At("import") /\ UNCHANGED imported
        /\ Python!Here.from \in DOMAIN prog \ DOMAIN ns
        /\ Python!Parses(Python!Here.from)
        /\ ns' = [f \in DOMAIN ns \cup {Python!Here.from} |->
                    IF f = Python!Here.from THEN Python!NoNames ELSE ns[f]]
    BY <1>6 DEF Python!Begin
  <2>2. /\ DOMAIN ns' = DOMAIN ns \cup {Python!Here.from}
        /\ \A f \in DOMAIN ns : ns'[f] = ns[f]
    BY <2>1
  <2>3. QED  BY <1>2, <1>3, <1>6, <2>1, <2>2 DEF h, m
<1>7. CASE Python!BindNames
  <2>1. /\ Python!At("import") /\ Python!Advance /\ UNCHANGED imported
        /\ Python!Here.from \in Libraries \cup DOMAIN ns
        /\ \A n \in Python!Here.names :
             Python!Here.from \in Libraries \/ n.name \in DOMAIN ns[Python!Here.from]
    BY <1>7 DEF Python!BindNames, Python!Offers
  <2>2. /\ DOMAIN ns' = DOMAIN ns
        /\ \A f \in DOMAIN ns : f # h => ns'[f] = ns[f]
    BY <1>7 DEF Python!BindNames, Python!Binding, h
  <2>3. QED  BY <1>2, <1>3, <2>1, <2>2 DEF h, m
<1>8. CASE Python!Raise
  BY <1>3, <1>8 DEF Python!Raise
<1>9. CASE Python!EndModule
  BY <1>9 DEF Python!EndModule, Python!Done
<1>10. QED
  BY <1>4, <1>5, <1>6, <1>7, <1>8, <1>9 DEF Python!ImportNext

LEMMA BeforePrimed ==
  ASSUME UNCHANGED <<prog, loaderVars>>, imported' = "running",
         NEW i \in 1 .. Len(stack), i <= Len(running'),
         \A j \in 1 .. i - 1 : running'[j] = Points(stack)[j],
         running'[i].file = stack[i].file,
         \/ running'[i].at < Pos(stack[i])
         \/ /\ running'[i].at = Pos(stack[i])
            /\ \/ Len(running') = i /\ Fresh(i, DOMAIN ns')
               \/ Len(running') > i /\ i = Len(stack) /\ Top.phase = "verify"
  PROVE  Before'
<1>1. prog' = prog /\ stack' = stack /\ loaded' = loaded
  BY DEF loaderVars
<1>2. /\ Points(stack)' = Points(stack) /\ Top' = Top
      /\ \A j : Pos(stack[j])' = Pos(stack[j])
  BY <1>1 DEF Points, Pos, Top, Last
<1>3. Along(i)'
  BY <1>2 DEF Along, loaderVars
<1>4. Fresh(i, DOMAIN ns') => Fresh(i, DOMAIN ns)'
  BY <1>1 DEF Fresh
<1>5. QED  BY <1>1, <1>2, <1>3, <1>4 DEF Before

(* The levels below the innermost module do not move.                       *)
LEMMA LowerLevels ==
  ASSUME FilesOK, PyShape, Python!ImportNext, imported' = "running"
  PROVE  /\ \A j \in 1 .. Len(running) - 1 : running'[j] = running[j]
         /\ Len(running') \in Nat
         /\ \/ Len(running') >= Len(running)
            \/ /\ Len(running') = Len(running) - 1
               /\ Python!This.at > Len(prog[Python!This.file])
               /\ UNCHANGED ns
<1>1. Len(running) \in Nat \ {0}
  BY ThisIs
<1>2. \A j \in 1 .. Len(running) - 1 : j \in 1 .. Len(running) /\ j # Len(running)
  BY <1>1
<1>3. CASE Python!Advance
  BY <1>1, <1>2, <1>3, AdvanceIs
<1>4. CASE Python!Begin
  <2>1. /\ Len(running') = Len(running) + 1
        /\ \A j \in 1 .. Len(running) + 1 : j # Len(running) + 1 => running'[j] = running[j]
    BY <1>4, BeginIs
  <2>2. QED  BY <1>1, <2>1
<1>5. CASE /\ Python!This.at > Len(prog[Python!This.file]) /\ UNCHANGED ns
           /\ Len(running) # 1 /\ running' = Python!Front(running)
  BY <1>1, <1>5, EndIs
<1>6. QED  BY <1>3, <1>4, <1>5, PythonMoves

LEMMA AboveKeeps ==
  ASSUME IInv, CompilerInv, PyInv, PyInv', UNCHANGED <<prog, loaderVars>>,
         Python!ImportNext, NEW i \in 1 .. Len(stack), Along(i), Len(running) > i,
         \/ running[i].at < Pos(stack[i])
         \/ running[i].at = Pos(stack[i]) /\ i = Len(stack) /\ Top.phase = "verify"
  PROVE  imported' = "raised" \/ Before'
<1>1. FilesOK /\ PyShape /\ Len(stack) \in Nat
  BY OnStack DEF IInv, PyInv
<1>2. Len(running) \in Nat
  BY <1>1, ThisIs
<1>3. imported' = "raised" \/ imported' = "running"
  <2> DEFINE n == Len(running)
  <2>1. n \in Nat /\ n > i /\ i \in Nat /\ 1 <= i
    BY <1>1, <1>2
  <2> HIDE DEF n
  <2>2. n # 1
    BY <2>1
  <2>3. QED  BY <1>1, <2>2, PythonMoves DEF n
<1>4. SUFFICES ASSUME imported' = "running" PROVE Before'
  BY <1>3
<1>5. /\ \A j \in 1 .. Len(running) - 1 : running'[j] = running[j]
      /\ Len(running') \in Nat
      /\ \/ Len(running') >= Len(running)
         \/ Len(running') = Len(running) - 1 /\ UNCHANGED ns
  BY <1>1, <1>4, LowerLevels
<1>6. /\ i <= Len(running')
      /\ \A j \in 1 .. i : running'[j] = running[j]
  <2>1. \A j \in 1 .. i : j \in 1 .. Len(running) - 1
    BY <1>1, <1>2
  <2>2. i <= Len(running')
    BY <1>1, <1>2, <1>5
  <2>3. QED  BY <1>5, <2>1, <2>2
<1>7. /\ \A j \in 1 .. i - 1 : running'[j] = Points(stack)[j]
      /\ running'[i] = running[i] /\ running'[i].file = stack[i].file
  <2>1. i \in 1 .. i /\ \A j \in 1 .. i - 1 : j \in 1 .. i
    BY <1>1
  <2>2. QED  BY <1>6, <2>1 DEF Along
<1>8. CASE running[i].at < Pos(stack[i]) \/ Len(running') > i
  BY <1>4, <1>6, <1>7, <1>8, BeforePrimed
<1>9. CASE /\ running[i].at = Pos(stack[i]) /\ i = Len(stack) /\ Top.phase = "verify"
           /\ Len(running') = i
  <2>1. /\ Top = stack[i] /\ Pos(stack[i]) = stack[i].at
        /\ prog[stack[i].file][stack[i].at].from \in loaded
        /\ stack[i].file \in loaded
    <3>1. Top = stack[i]
      BY <1>9 DEF Top, Last
    <3>2. stack[i].phase = "verify"
      BY <1>9, <3>1
    <3>3. QED  BY <3>1, <3>2, OnStack DEF Pos, CompilerInv, PathOK
  <2>2. \A j \in 1 .. i : running'[j] = Points(stack)[j]
    <3>1. running'[i] = Points(stack)[i]
      <4>1. Points(stack)[i] = [file |-> stack[i].file, at |-> Pos(stack[i])]
        BY PointsAre
      <4>2. i \in 1 .. Len(running')
        BY <1>1, <1>6
      <4>3. running'[i] \in Point
        BY <4>2, ElementOfSeq, ProgKept DEF PyInv, PyShape
      <4>4. QED  BY <1>7, <1>9, <4>1, <4>3 DEF Point
    <3>2. \A j \in 1 .. i : j = i \/ j \in 1 .. i - 1
      BY <1>1
    <3>3. QED  BY <1>7, <3>1, <3>2
  <2>3. \A f, k : At(f, k)' <=> Awaits(stack, f, k)
    BY <1>9, <2>2 DEF At, Awaits, Ahead, Points
  <2>4. Python!This'.file = stack[i].file /\ Python!This'.at = stack[i].at
    <3>1. Python!This' = running'[i]
      BY <1>9 DEF Python!This, Python!Last
    <3>2. QED  BY <1>7, <1>9, <2>1, <3>1
  <2>5. DOMAIN ns' \subseteq loaded
    <3>1. \A j \in 1 .. Len(running') : running'[j].file \in loaded
      <4>1. \A j \in 1 .. i : j \in 1 .. Len(stack)
        BY <1>9
      <4>2. QED  BY <1>9, <2>2, <4>1, OnStack
    <3>2. \A f \in loaded : \A k \in DOMAIN prog[f] :
            Needs(f, k) => prog[f][k].from \in loaded \/ At(f, k)'
      BY <2>3 DEF CompilerInv, NamesCovered
    <3>3. TopIn(loaded)'
      BY <2>1, <2>4 DEF TopIn, loaderVars
    <3>4. loaded' = loaded /\ prog' = prog /\ loaded \subseteq DOMAIN prog
      BY <1>1 DEF loaderVars, FilesOK
    <3>5. QED  BY <3>1, <3>2, <3>3, <3>4, ProgKept DEF PyInv, Least
  <2>6. QED  BY <1>4, <1>6, <1>7, <1>9, <2>5, BeforePrimed DEF Fresh
<1>10. QED  BY <1>1, <1>5, <1>6, <1>8, <1>9

LEMMA BehindKeeps ==
  ASSUME IInv, CompilerInv, PyInv, UNCHANGED <<prog, loaderVars>>,
         Python!ImportNext, NEW i \in 1 .. Len(stack), Along(i), Len(running) = i,
         running[i].at < Pos(stack[i])
  PROVE  imported' = "raised" \/ Before'
<1> DEFINE m == running[i].at
           p == Pos(stack[i])
<1>1. FilesOK /\ PyShape /\ Len(stack) \in Nat /\ i \in Nat
  BY OnStack DEF IInv, PyInv
<1>2. /\ Python!This = running[i] /\ m \in Nat /\ running[i].file = stack[i].file
      /\ Len(prog[stack[i].file]) \in Nat
  BY <1>1, ThisIs DEF Along
<1>3. p \in Nat /\ p <= Len(prog[stack[i].file]) + 1
  BY OnStack
<1>4. m < p
  OBVIOUS
<1> HIDE DEF m, p
<1>5. ~ m > Len(prog[stack[i].file])
  BY <1>2, <1>3, <1>4
<1>6. ~ Python!This.at > Len(prog[Python!This.file])
  BY <1>2, <1>5 DEF m
<1>7. SUFFICES ASSUME imported' = "running" PROVE Before'
  BY <1>1, <1>6, PythonMoves
<1>8. CASE Python!Begin
  <2>1. /\ Len(running') = i + 1
        /\ \A j \in 1 .. i : running'[j] = running[j]
    <3>1. \A j \in 1 .. i : j \in 1 .. i + 1 /\ j # i + 1
      BY <1>1
    <3>2. QED  BY <1>1, <1>8, <3>1, BeginIs
  <2>2. \A j \in 1 .. i - 1 : j \in 1 .. i
    BY <1>1
  <2>3. /\ \A j \in 1 .. i - 1 : running'[j] = Points(stack)[j]
        /\ running'[i] = running[i]
    BY <1>1, <2>1, <2>2 DEF Along
  <2>4. i <= Len(running')
    BY <1>1, <2>1
  <2>5. QED  BY <1>2, <1>7, <2>3, <2>4, BeforePrimed
<1>9. CASE Python!Advance /\ DOMAIN ns' = DOMAIN ns
  <2>1. /\ Len(running') = i
        /\ \A j \in 1 .. i :
             running'[j] = IF j = i THEN [file |-> stack[i].file, at |-> m + 1]
                           ELSE running[j]
    BY <1>1, <1>2, <1>9, AdvanceIs DEF m
  <2>2. /\ \A j \in 1 .. i - 1 : running'[j] = Points(stack)[j]
        /\ running'[i] = [file |-> stack[i].file, at |-> m + 1]
    <3>1. i \in 1 .. i /\ \A j \in 1 .. i - 1 : j \in 1 .. i /\ j # i
      BY <1>1
    <3>2. QED  BY <2>1, <3>1 DEF Along
  <2>3. running'[i].file = stack[i].file /\ running'[i].at = m + 1
    BY <2>2
  <2>4. m + 1 < p \/ m + 1 = p
    BY <1>2, <1>3, <1>4
  <2>5. Fresh(i, DOMAIN ns')
    BY <1>9, LeastBehind, NotBegun
  <2>6. i <= Len(running')
    BY <1>1, <2>1
  <2>7. QED  BY <1>7, <2>1, <2>2, <2>3, <2>4, <2>5, <2>6, BeforePrimed DEF p
<1>10. QED  BY <1>1, <1>6, <1>7, <1>8, <1>9, PythonMoves

LEMMA ImportKeeps ==
  ASSUME IInv, CompilerInv, PyInv, UNCHANGED <<prog, loaderVars>>,
         Python!ImportNext, NEW i \in 1 .. Len(stack), Along(i), Len(running) = i,
         running[i].at = Pos(stack[i]),
         i < Len(stack), stack[i + 1].file \notin DOMAIN ns
  PROVE  imported' = "raised" \/ Before'
<1> DEFINE g == stack[i + 1].file
<1>1. FilesOK /\ PyShape /\ Len(stack) \in Nat /\ i \in Nat /\ i + 1 \in 1 .. Len(stack)
  BY OnStack DEF IInv, PyInv
<1>2. /\ Python!This = running[i] /\ running[i].file = stack[i].file
      /\ Len(prog[stack[i].file]) \in Nat
      /\ DOMAIN prog[stack[i].file] = 1 .. Len(prog[stack[i].file])
  BY <1>1, ThisIs DEF Along
<1>3. /\ prog[Python!This.file][Python!This.at].op = "import"
      /\ prog[Python!This.file][Python!This.at].from = g
  BY <1>2, OnStack
<1>4. /\ ~ Python!This.at > Len(prog[Python!This.file])
      /\ g \in DOMAIN prog /\ g \notin Libraries \cup DOMAIN ns
  <2>1. stack[i].phase = "verify" /\ stack[i] \in Act /\ ActOK(stack[i], loaded)
    BY <1>1, ElementOfSeq DEF IInv, Shape
  <2>2. Python!This.at = stack[i].at /\ stack[i].at <= Len(prog[stack[i].file])
    BY <1>2, <2>1 DEF Pos, ActOK
  <2>3. stack[i].at \in Nat
    BY <2>1 DEF Act
  <2>4. g \in DOMAIN prog
    BY <1>1, OnStack
  <2>5. g \notin Libraries
    BY <2>4, LibrariesAssumption DEF CompilerInv
  <2>6. QED  BY <1>2, <2>2, <2>3, <2>4, <2>5
<1> HIDE DEF g
<1>5. imported' = "raised" \/ (imported' = "running" /\ Python!Begin /\ Python!Here.from = g
        /\ DOMAIN ns' = DOMAIN ns \cup {g})
  BY <1>1, <1>3, <1>4, PythonMoves
<1>6. SUFFICES ASSUME imported' = "running", Python!Begin, Python!Here.from = g,
                      DOMAIN ns' = DOMAIN ns \cup {g}
               PROVE  Before'
  BY <1>5
<1>7. /\ Len(running') = i + 1
      /\ running'[i + 1].file = g /\ running'[i + 1].at = 1
      /\ \A j \in 1 .. i : running'[j] = running[j]
  <2>1. /\ Len(running') = i + 1
        /\ \A j \in 1 .. i + 1 :
             running'[j] = IF j = i + 1 THEN [file |-> g, at |-> 1] ELSE running[j]
    BY <1>1, <1>6, BeginIs
  <2>2. i + 1 \in 1 .. i + 1 /\ \A j \in 1 .. i : j \in 1 .. i + 1 /\ j # i + 1
    BY <1>1
  <2>3. running'[i + 1] = [file |-> g, at |-> 1]
    BY <2>1, <2>2
  <2>4. QED  BY <2>1, <2>2, <2>3
<1>8. \A j \in 1 .. (i + 1) - 1 : running'[j] = Points(stack)[j]
  <2>1. running[i] = Points(stack)[i]
    <3>1. Points(stack)[i] = [file |-> stack[i].file, at |-> Pos(stack[i])]
      BY PointsAre
    <3>2. running[i] \in Point
      BY <1>1, <1>2, ThisIs
    <3>3. QED  BY <1>2, <3>1, <3>2 DEF Point
  <2>2. \A j \in 1 .. (i + 1) - 1 : j \in 1 .. i /\ (j = i \/ j \in 1 .. i - 1)
    BY <1>1
  <2>3. QED  BY <1>7, <2>1, <2>2 DEF Along
<1>9. Fresh(i + 1, DOMAIN ns')
  <2>1. \A M : Good(M, Points(stack), i + 1) => DOMAIN ns' \subseteq M
    BY <1>6, LeastBegins DEF g
  <2>2. QED  BY <1>1, <2>1, NotBegun
<1>10. 1 < Pos(stack[i + 1]) \/ 1 = Pos(stack[i + 1])
  <2>1. Pos(stack[i + 1]) \in Nat \ {0}
    BY <1>1, OnStack
  <2>2. QED  BY <2>1
<1>11. i + 1 <= Len(running')
  BY <1>1, <1>7
<1>12. QED
  BY <1>1, <1>6, <1>7, <1>8, <1>9, <1>10, <1>11, BeforePrimed DEF g

(* What Python has bound, when it is where the compiler is, has a signature.*)
LEMMA IsStatement ==
  ASSUME NEW f \in DOMAIN prog, NEW k \in DOMAIN prog[f]
  PROVE  prog[f][k] \in Statements
BY DEF Statements, ToSet

LEMMA BoundSigned ==
  ASSUME CompilerInv, PyInv, Plain, DOMAIN ns \subseteq loaded,
         \A f, k : At(f, k) <=> Awaits(stack, f, k),
         NEW f \in DOMAIN ns, NEW n \in DOMAIN ns[f]
  PROVE  \/ ns[f][n] = Python!Builtin(n) /\ n \in FromLibraries
         \/ n \in DOMAIN signatures
<1>1. SUFFICES ASSUME Executed(ns[f][n], n) PROVE n \in DOMAIN signatures
  BY DEF PyInv, NsOK, Plain
<1>2. PICK g \in DOMAIN ns : \E k \in DOMAIN prog[g] :
        prog[g][k].op \in {"def", "class"} /\ prog[g][k].name = n /\ ~ At(g, k)
  BY <1>1 DEF Executed
<1>3. PICK k \in DOMAIN prog[g] :
        prog[g][k].op \in {"def", "class"} /\ prog[g][k].name = n /\ ~ At(g, k)
  BY <1>2
<1>4. g \in DOMAIN prog /\ g \in loaded
  BY DEF PyInv, PyShape
<1>5. prog[g][k].op = "def"
  BY <1>3, <1>4, IsStatement DEF Plain
<1>6. ~ Awaits(stack, g, k)
  BY <1>3
<1>7. QED  BY <1>3, <1>4, <1>5, <1>6 DEF CompilerInv, NamesCovered

LEMMA AfterPrimed ==
  ASSUME UNCHANGED <<prog, loaderVars>>, Top.phase = "bodies", Top.file \in DOMAIN ns',
         \/ imported' = "ready"
         \/ \A j \in 1 .. Len(running') : running'[j].file # Top.file,
         \A c \in DOMAIN ns'[Top.file] :
           ns'[Top.file][c] = Python!Builtin(c) \/ c \in DOMAIN signatures
  PROVE  After'
BY DEF After, loaderVars, Top, Last, Python!Builtin

LEMMA BlockedKeeps ==
  ASSUME IInv, CompilerInv, PyInv, Plain, UNCHANGED <<prog, loaderVars>>,
         Python!ImportNext, stack # <<>>, verdict = "rejected",
         NEW i \in 1 .. Len(stack), i = Len(stack), Along(i), Len(running) = i,
         running[i].at = Pos(stack[i]), DOMAIN ns \subseteq loaded
  PROVE  imported' = "raised" \/ Before' \/ After'
<1> DEFINE h == Top.file
           m == Pos(Top)
<1>1. FilesOK /\ PyShape /\ Len(stack) \in Nat /\ i \in Nat
  BY OnStack DEF IInv, PyInv
<1>2. Top = stack[i] /\ Top \in Act /\ ActOK(Top, loaded)
  BY TopIsAct DEF IInv
<1>3. /\ Python!This = running[i] /\ Python!This.file = h /\ Python!This.at = m
      /\ h \in DOMAIN prog /\ m \in Nat \ {0}
      /\ Len(prog[h]) \in Nat /\ DOMAIN prog[h] = 1 .. Len(prog[h])
  BY <1>1, <1>2, ThisIs DEF Along
<1>4. \A j \in 1 .. i : running[j] = Points(stack)[j]
  <2>1. running[i] = Points(stack)[i]
    <3>1. Points(stack)[i] = [file |-> stack[i].file, at |-> Pos(stack[i])]
      BY PointsAre
    <3>2. running[i] \in Point
      BY <1>1, <1>3, ThisIs
    <3>3. QED  BY <1>2, <1>3, <3>1, <3>2 DEF Point
  <2>2. \A j \in 1 .. i : j = i \/ j \in 1 .. i - 1
    BY <1>1
  <2>3. QED  BY <2>1, <2>2 DEF Along
<1>5. \A f, k : At(f, k) <=> Awaits(stack, f, k)
  BY <1>4 DEF At, Awaits, Ahead, Points
<1>6. DOMAIN ns \subseteq DOMAIN prog
  BY DEF PyInv, PyShape
<1>7. CASE Top.phase \in {"classes", "names"} /\ Top.at <= Len(Body)
  <2>1. CASE Stmt.op = "class" \/ (Top.phase = "names" /\ Stmt.op = "other")
    <3>1. Top.at \in DOMAIN prog[h]
      BY <1>2, <1>3, <1>7 DEF Act, Body
    <3>2. Stmt \in Statements
      BY <1>3, <3>1, IsStatement DEF Stmt, Body
    <3>3. QED  BY <2>1, <3>2 DEF Plain
  <2>2. CASE Top.phase = "names" /\ Stmt.op = "def" /\ Stmt.name \in DOMAIN signatures
    <3>1. m = Top.at /\ m \in DOMAIN prog[h] /\ Stmt = prog[h][m]
      BY <1>2, <1>3, <1>7, <2>2 DEF Act, Body, Stmt, Pos
    <3>2. <<h, m>> \in Definitions /\ Named(<<h, m>>) = Stmt
      BY <1>3, <2>2, <3>1 DEF Definitions, Named
    <3>3. /\ signatures[Stmt.name] \in Definitions
          /\ Named(signatures[Stmt.name]).name = Stmt.name
      BY <2>2 DEF IInv, TablesOK, TableOK
    <3>4. signatures[Stmt.name] = <<h, m>>
      BY <3>2, <3>3 DEF Plain
    <3>5. ~ Awaits(stack, h, m)
      <4>1. ~ Awaits(stack, signatures[Stmt.name][1], signatures[Stmt.name][2])
        BY <2>2 DEF CompilerInv, SignedPast
      <4>2. QED  BY <3>4, <4>1
    <3>6. QED  BY <1>1, <1>2, <1>3, <3>5, AwaitsIs
  <2>3. CASE /\ Top.phase = "names" /\ Stmt.op = "import"
             /\ \/ Stmt.from \notin DOMAIN prog \cup Libraries
                \/ Stmt.from \in DOMAIN prog \ loaded /\ ~ Python!Parses(Stmt.from)
    <3>1. m = Top.at /\ m \in DOMAIN prog[h] /\ Stmt = prog[h][m] /\ ~ m > Len(prog[h])
      BY <1>2, <1>3, <1>7, <2>3 DEF Act, Body, Stmt, Pos
    <3>2. DOMAIN prog \cap Libraries = {}
      BY LibrariesAssumption DEF CompilerInv
    <3>3. Stmt.from \notin Libraries \cup DOMAIN ns
      BY <1>6, <2>3, <3>2
    <3>4. \/ Stmt.from \notin DOMAIN prog \ DOMAIN ns
          \/ ~ Python!Parses(Stmt.from)
      BY <2>3
    <3>5. prog[Python!This.file][Python!This.at] = Stmt
      BY <1>3, <3>1
    <3>6. ~ Python!This.at > Len(prog[Python!This.file])
      BY <1>3, <3>1
    <3>7. imported' = "raised"
      BY <1>1, <2>3, <3>3, <3>4, <3>5, <3>6, PythonMoves
    <3>8. QED  BY <3>7
  <2>4. QED
    BY <1>7, <2>1, <2>2, <2>3 DEF CompilerInv, Blocked
<1>8. CASE Top.phase = "verify" /\ ~ Verified
  <2>1. /\ m = Top.at /\ m \in DOMAIN prog[h] /\ Stmt = prog[h][m] /\ ~ m > Len(prog[h])
        /\ Needs(h, m)
    <3>1. m = Top.at /\ Top.at <= Len(prog[h])
      BY <1>2, <1>8 DEF Pos, ActOK
    <3>2. Needs(h, m)
      BY <1>2, <1>8, <3>1 DEF CompilerInv, PathOK
    <3>3. m \in DOMAIN prog[h] /\ ~ m > Len(prog[h])
      BY <1>3, <3>1
    <3>4. QED  BY <3>1, <3>2, <3>3 DEF Stmt, Body
  <2>2. /\ Stmt.op = "import" /\ Stmt.from \in DOMAIN prog /\ Stmt \in Imports
        /\ Stmt.from \notin Libraries
    <3>1. Stmt \in Statements /\ Stmt.op = "import" /\ Stmt.from \in DOMAIN prog
      BY <1>3, <2>1, IsStatement DEF Needs
    <3>2. Stmt.from \notin Libraries
      BY <3>1, LibrariesAssumption DEF CompilerInv
    <3>3. QED  BY <3>1, <3>2 DEF Imports
  <2>3. PICK n \in Stmt.names : n.name \notin DOMAIN signatures
    <3>1. \A n \in Stmt.names : n.as = n.name
      BY <2>2 DEF Plain, Aliases
    <3>2. QED  BY <1>8, <3>1 DEF Verified
  <2>4. Stmt.from \in DOMAIN ns => n.name \notin DOMAIN ns[Stmt.from]
    <3>1. n.name \notin FromLibraries
      BY <2>2, <2>3 DEF Plain
    <3>2. QED  BY <1>5, <2>3, <3>1, BoundSigned
  <2>5. prog[Python!This.file][Python!This.at] = Stmt
    BY <1>3, <2>1
  <2>6. ~ Python!This.at > Len(prog[Python!This.file])
    BY <1>3, <2>1
  <2>7. imported' = "raised" \/ (imported' = "running" /\ Python!Begin)
    BY <1>1, <2>2, <2>3, <2>4, <2>5, <2>6, PythonMoves
  <2>8. ASSUME imported' = "running", Python!Begin PROVE Before'
    <3>1. /\ Len(running') = i + 1
          /\ \A j \in 1 .. i + 1 : j # i + 1 => running'[j] = running[j]
      BY <1>1, <2>8, BeginIs
    <3>2. \A j \in 1 .. i : j \in 1 .. i + 1 /\ j # i + 1
      BY <1>1
    <3>3. i \in 1 .. i /\ \A j \in 1 .. i - 1 : j \in 1 .. i
      BY <1>1
    <3>4. /\ \A j \in 1 .. i - 1 : running'[j] = Points(stack)[j]
          /\ running'[i] = running[i]
      BY <1>4, <3>1, <3>2, <3>3
    <3>5. i <= Len(running') /\ Len(running') > i
      BY <1>1, <3>1
    <3>6. QED  BY <1>8, <2>8, <3>4, <3>5, BeforePrimed DEF Along
  <2>9. QED  BY <2>7, <2>8
<1>9. CASE Top.phase = "bodies"
  <2>1. m = Len(prog[h]) + 1
    BY <1>9 DEF Pos
  <2>2. ~ Python!This.at <= Len(prog[Python!This.file])
    BY <1>3, <2>1
  <2>3. /\ UNCHANGED ns
        /\ \/ imported' = "ready" /\ UNCHANGED running
           \/ Len(running) # 1 /\ running' = Python!Front(running)
        \/ imported' = "raised"
    BY <1>1, <2>2, PythonMoves
  <2>4. SUFFICES ASSUME UNCHANGED ns,
                        \/ imported' = "ready" /\ UNCHANGED running
                        \/ Len(running) # 1 /\ running' = Python!Front(running)
                 PROVE  After'
    BY <2>3
  <2>5. h \in DOMAIN ns
    BY <1>1, <1>3, ThisIs
  <2>6. \A c \in DOMAIN ns[h] : ns[h][c] = Python!Builtin(c) \/ c \in DOMAIN signatures
    BY <1>5, <2>5, BoundSigned
  <2>7. ASSUME Len(running) # 1, running' = Python!Front(running)
        PROVE  \A j \in 1 .. Len(running') : running'[j].file # h
    <3>1. Len(running') = i - 1 /\ \A j \in 1 .. i - 1 : running'[j] = running[j]
      BY <1>1, <2>7, EndIs
    <3>2. \A j \in 1 .. i - 1 : running[j].file # running[i].file
      <4>1. i \in 1 .. i /\ \A j \in 1 .. i - 1 : j \in 1 .. i /\ j # i
        BY <1>1
      <4>2. QED  BY <4>1 DEF PyInv, PyShape
    <3>3. QED  BY <1>3, <3>1, <3>2
  <2>8. QED  BY <1>9, <2>4, <2>5, <2>6, <2>7, AfterPrimed
<1>10. QED
  BY <1>7, <1>8, <1>9 DEF CompilerInv, Blocked

LEMMA AfterKeeps ==
  ASSUME IInv, PyInv, UNCHANGED <<prog, loaderVars>>, Python!ImportNext, After
  PROVE  imported' = "raised" \/ After'
<1> DEFINE h == Top.file
<1>1. FilesOK /\ PyShape
  BY DEF IInv, PyInv
<1>2. /\ imported = "running" /\ Top.phase = "bodies" /\ h \in DOMAIN ns
      /\ \A j \in 1 .. Len(running) : running[j].file # h
      /\ \A c \in DOMAIN ns[h] : ns[h][c] = Python!Builtin(c) \/ c \in DOMAIN signatures
  BY <1>1, PythonMoves DEF After
<1>3. /\ Len(running) \in Nat \ {0} /\ Len(running) \in 1 .. Len(running)
      /\ Python!This = running[Len(running)] /\ Python!This.file # h
  BY <1>1, <1>2, ThisIs
<1> HIDE DEF h
<1>4. CASE Python!Advance /\ DOMAIN ns' = DOMAIN ns
             /\ \A f \in DOMAIN ns : f # Python!This.file => ns'[f] = ns[f]
  <2>1. /\ Len(running') = Len(running)
        /\ \A j \in 1 .. Len(running) :
             running'[j] = IF j = Len(running)
                           THEN [file |-> Python!This.file, at |-> Python!This.at + 1]
                           ELSE running[j]
    BY <1>1, <1>4, AdvanceIs
  <2>2. \A j \in 1 .. Len(running') : running'[j].file # h
    BY <1>2, <1>3, <2>1
  <2>3. ns'[h] = ns[h] /\ h \in DOMAIN ns'
    BY <1>2, <1>3, <1>4
  <2>4. QED  BY <1>2, <2>2, <2>3, AfterPrimed DEF h
<1>5. CASE /\ Python!Begin /\ Python!Here.from \notin DOMAIN ns
           /\ DOMAIN ns' = DOMAIN ns \cup {Python!Here.from}
           /\ \A f \in DOMAIN ns : ns'[f] = ns[f]
  <2>1. /\ Len(running') = Len(running) + 1
        /\ \A j \in 1 .. Len(running) + 1 :
             running'[j] = IF j = Len(running) + 1 THEN [file |-> Python!Here.from, at |-> 1]
                           ELSE running[j]
    BY <1>1, <1>5, BeginIs
  <2>2. \A j \in 1 .. Len(running) + 1 : j = Len(running) + 1 \/ j \in 1 .. Len(running)
    BY <1>3
  <2>3. Python!Here.from # h
    BY <1>2, <1>5
  <2>4. \A j \in 1 .. Len(running') : running'[j].file # h
    BY <1>2, <2>1, <2>2, <2>3
  <2>5. ns'[h] = ns[h] /\ h \in DOMAIN ns'
    BY <1>2, <1>5
  <2>6. QED  BY <1>2, <2>4, <2>5, AfterPrimed DEF h
<1>6. CASE UNCHANGED <<ns, running>>
  BY <1>2, <1>6, AfterPrimed DEF h
<1>7. CASE UNCHANGED ns /\ Len(running) # 1 /\ running' = Python!Front(running)
  <2>1. /\ Len(running') = Len(running) - 1
        /\ \A j \in 1 .. Len(running) - 1 : running'[j] = running[j]
    BY <1>1, <1>7, EndIs
  <2>2. \A j \in 1 .. Len(running) - 1 : j \in 1 .. Len(running)
    BY <1>3
  <2>3. \A j \in 1 .. Len(running') : running'[j].file # h
    BY <1>2, <2>1, <2>2
  <2>4. QED  BY <1>2, <1>7, <2>3, AfterPrimed DEF h
<1>8. QED
  BY <1>1, <1>4, <1>5, <1>6, <1>7, PythonMoves

LEMMA InitialBefore ==
  ASSUME IInv, CompilerInv, PyInitial, stack # <<>>
  PROVE  Before
<1>1. /\ Len(stack) \in Nat \ {0} /\ stack[1].file = Root
  BY TopIsAct DEF IInv, CompilerInv, PathOK
<1>2. 1 \in 1 .. Len(stack)
  BY <1>1
<1>3. /\ Len(running) = 1 /\ running[1].file = Root /\ running[1].at = 1
      /\ DOMAIN ns = {Root} /\ imported = "running"
  BY DEF PyInitial
<1>4. Along(1)
  <2>1. \A j \in 1 .. 1 - 1 : FALSE
    OBVIOUS
  <2>2. QED  BY <1>1, <1>3, <2>1 DEF Along
<1>5. 1 < Pos(stack[1]) \/ 1 = Pos(stack[1])
  <2>1. Pos(stack[1]) \in Nat \ {0}
    BY <1>2, OnStack
  <2>2. QED  BY <2>1
<1>6. Fresh(1, DOMAIN ns)
  <2>1. CASE Len(stack) = 1
    BY <1>3, <2>1 DEF CompilerInv, Fresh
  <2>2. CASE Len(stack) # 1
    <3>1. 1 < Len(stack) /\ 1 + 1 \in 1 .. Len(stack) /\ 1 + 1 # 1
      BY <1>1, <2>2
    <3>2. stack[1 + 1].file # stack[1].file
      BY <1>2, <3>1, OnStack
    <3>3. QED  BY <1>1, <1>3, <3>1, <3>2 DEF Fresh
  <2>3. QED  BY <2>1, <2>2
<1>7. QED  BY <1>2, <1>3, <1>4, <1>5, <1>6 DEF Before

LEMMA BeforeKeeps ==
  ASSUME IInv, CompilerInv, PyInv, PyInv', Plain, UNCHANGED <<prog, loaderVars>>,
         Python!ImportNext, verdict = "rejected", stack # <<>>, Before
  PROVE  imported' = "raised" \/ Before' \/ After'
<1>1. PICK i \in 1 .. Len(stack) :
        /\ Along(i)
        /\ \/ running[i].at < Pos(stack[i])
           \/ /\ running[i].at = Pos(stack[i])
              /\ \/ Len(running) = i /\ Fresh(i, DOMAIN ns)
                 \/ Len(running) > i /\ i = Len(stack) /\ Top.phase = "verify"
  BY DEF Before
<1>2. i \in Nat /\ Len(running) \in Nat /\ i <= Len(running)
  BY <1>1, ThisIs, OnStack DEF Along, IInv, PyInv
<1>3. CASE Len(running) > i
  <2>1. Len(running) # i
    BY <1>2, <1>3
  <2>2. QED  BY <1>1, <1>3, <2>1, AboveKeeps
<1>4. CASE Len(running) = i /\ running[i].at < Pos(stack[i])
  BY <1>1, <1>4, BehindKeeps
<1>5. CASE Len(running) = i /\ running[i].at = Pos(stack[i]) /\ Fresh(i, DOMAIN ns)
  <2>1. CASE i < Len(stack) /\ stack[i + 1].file \notin DOMAIN ns
    BY <1>1, <1>5, <2>1, ImportKeeps
  <2>2. CASE i = Len(stack) /\ DOMAIN ns \subseteq loaded
    BY <1>1, <1>5, <2>2, BlockedKeeps
  <2>3. QED  BY <1>5, <2>1, <2>2 DEF Fresh
<1>6. ~ Len(running) > i => Len(running) = i
  BY <1>2
<1>7. CASE Len(running) = i
  <2>1. ~ Len(running) > i
    BY <1>2, <1>7
  <2>2. QED  BY <1>1, <1>4, <1>5, <1>7, <2>1
<1>8. QED  BY <1>3, <1>6, <1>7

LEMMA SameBefore ==
  ASSUME Before, UNCHANGED <<prog, stack, loaded, running, ns, imported>>
  PROVE  Before'
<1>1. /\ Points(stack)' = Points(stack) /\ Top' = Top
      /\ \A j : Pos(stack[j])' = Pos(stack[j])
  BY DEF Points, Pos, Top, Last
<1>2. \A i : Along(i)' = Along(i)
  BY <1>1 DEF Along
<1>3. \A i : Fresh(i, DOMAIN ns)' = Fresh(i, DOMAIN ns)
  BY DEF Fresh
<1>4. QED  BY <1>1, <1>2, <1>3 DEF Before

LEMMA InitTogether ==
  ASSUME Init PROVE Together
BY InitPython DEF Together, Init

LEMMA StepTogether ==
  ASSUME IInv, CompilerInv, PyInv, PyInv', Together, [Next]_vars
  PROVE  Together'
<1>1. Plain' <=> Plain
  <2>1. prog' = prog
    BY DEF Next, vars
  <2>2. QED
    BY <2>1 DEF Plain, Aliases, Imports, FromLibraries, Statements, Definitions, Named
<1>2. CASE UNCHANGED <<prog, loaderVars, pyVars>>
  <2>1. PyInitial => PyInitial'
    BY <1>2 DEF PyInitial, pyVars, Python!NoNames
  <2>2. Before => Before'
    BY <1>2, SameBefore DEF loaderVars, pyVars
  <2>3. After => After'
    BY <1>2 DEF After, Top, Last, loaderVars, pyVars, Python!Builtin
  <2>4. UNCHANGED <<verdict, stack, imported>>
    BY <1>2 DEF loaderVars, pyVars
  <2>5. QED  BY <1>1, <2>1, <2>2, <2>3, <2>4 DEF Together
<1>3. CASE Lower /\ UNCHANGED <<prog, pyVars>>
  <2>1. verdict = "lowering"
    BY <1>3 DEF Lower, Classes, Names, Bodies, Skip, Finish, In, Reads,
       RegisterClass, RejectDuplicateClass, EndPass, CollectSignature,
       RejectDuplicateFunction, LoadModule, SkipLoaded, RejectModule,
       RejectStatement, VerifyNames, RejectNames, LowerFunction, RejectUndefined,
       Return
  <2>2. PyInitial /\ PyInitial'
    BY <1>3, <2>1 DEF Together, PyInitial, pyVars, Python!NoNames
  <2>3. ASSUME verdict' = "rejected", stack' # <<>>
        PROVE  UNCHANGED <<stack, loaded, signatures>>
    BY <1>3, <2>1, <2>3 DEF Lower, Classes, Names, Bodies, Skip, Finish, Reject,
       RegisterClass, RejectDuplicateClass, EndPass, CollectSignature,
       RejectDuplicateFunction, LoadModule, SkipLoaded, RejectModule,
       RejectStatement, VerifyNames, RejectNames, LowerFunction, RejectUndefined,
       Return
  <2>4. ASSUME verdict' = "rejected", stack' # <<>> PROVE Before'
    <3>1. UNCHANGED <<prog, stack, loaded, running, ns, imported>>
      BY <1>3, <2>3, <2>4 DEF pyVars
    <3>2. Before
      BY <2>2, <2>4, <3>1, InitialBefore
    <3>3. QED  BY <3>1, <3>2, SameBefore
  <2>5. QED  BY <2>2, <2>4 DEF Together
<1>4. CASE verdict # "lowering" /\ Python!ImportNext /\ UNCHANGED <<prog, loaderVars>>
  <2>1. verdict' = verdict /\ stack' = stack
    BY <1>4 DEF loaderVars
  <2>2. SUFFICES ASSUME verdict = "rejected", stack # <<>>, Plain
                 PROVE  imported' = "raised" \/ Before' \/ After'
    BY <1>1, <1>4, <2>1 DEF Together
  <2>3. imported = "running"
    BY <1>4, PythonMoves DEF IInv, PyInv
  <2>4. Before \/ After
    BY <2>2, <2>3 DEF Together
  <2>5. QED  BY <1>4, <2>2, <2>4, BeforeKeeps, AfterKeeps
<1>5. QED  BY <1>2, <1>3, <1>4 DEF Next, vars, loaderVars, pyVars

LEMMA TargetsAreSome ==
  ASSUME IInv, CompilerInv, NEW c, Target(c) = None
  PROVE  c \notin DOMAIN registry \cup Inlined \cup DOMAIN signatures
<1>1. \A d \in Definitions : d # None
  <2>1. SUFFICES \A f \in DOMAIN prog : \A k \in DOMAIN prog[f] : None # <<f, k>>
    BY DEF Definitions
  <2>2. QED  BY NoneAssumption DEF CompilerInv
<1>2. \A n \in Inlined : Python!Builtin(n) # None
  BY NoneAssumption DEF Python!Builtin
<1>3. /\ c \in DOMAIN registry => registry[c] # None
      /\ c \in DOMAIN signatures => signatures[c] # None
  BY <1>1 DEF IInv, TablesOK, TableOK
<1>4. QED  BY <1>2, <1>3 DEF Target

LEMMA InvAcceptsPython ==
  ASSUME IInv, CompilerInv, PyInv, Together PROVE AcceptsPython
<1>1. SUFFICES ASSUME imported = "ready", OneName, CallsFound, verdict # "accepted"
               PROVE  FALSE
  BY DEF AcceptsPython
<1>2. verdict = "rejected" /\ Blocked
  <2>1. verdict # "lowering"
    BY <1>1 DEF Together, PyInitial
  <2>2. verdict = "rejected"
    BY <1>1, <2>1 DEF IInv, VerdictOK
  <2>3. QED  BY <2>2 DEF CompilerInv
<1>3. Plain
  BY <1>1 DEF OneName, Plain
<1>4. FilesOK /\ PyShape
  BY DEF IInv, PyInv
<1>5. CASE stack = <<>>
  <2>1. Main \notin DOMAIN signatures
    BY <1>2, <1>5 DEF Blocked
  <2>2. DOMAIN ns = loaded
    BY <1>1, <1>5, AcceptedSame
  <2>3. PICK d \in Definitions : d[1] \in DOMAIN ns /\ Named(d).name = Main
    BY <1>1 DEF OneName
  <2>4. PICK f \in DOMAIN prog :
           \E k \in DOMAIN prog[f] : d = <<f, k>> /\ prog[f][k].op \in {"def", "class"}
    BY DEF Definitions
  <2>5. PICK k \in DOMAIN prog[f] : d = <<f, k>> /\ prog[f][k].op \in {"def", "class"}
    BY <2>4
  <2>6. prog[f][k].op = "def"
    BY <1>3, <2>5, IsStatement DEF Plain
  <2>7. ~ Awaits(stack, f, k)
    BY <1>5, AwaitsIs
  <2>8. QED
    BY <2>1, <2>2, <2>3, <2>5, <2>6, <2>7 DEF CompilerInv, NamesCovered, Named
<1>6. CASE stack # <<>>
  <2>1. After
    BY <1>1, <1>2, <1>3, <1>6 DEF Together, Before
  <2>2. /\ Top.phase = "bodies" /\ Top.file \in DOMAIN ns
        /\ \A c \in DOMAIN ns[Top.file] :
             ns[Top.file][c] = Python!Builtin(c) \/ c \in DOMAIN signatures
    BY <2>1 DEF After
  <2>3. /\ Top.at <= Len(Top.defs)
        /\ \E c \in NextDef.calls : Target(c) = None
    BY <1>2, <1>6, <2>2 DEF Blocked
  <2>4. PICK c \in NextDef.calls : Target(c) = None
    BY <2>3
  <2>5. c \notin DOMAIN registry \cup Inlined \cup DOMAIN signatures
    BY <2>4, TargetsAreSome
  <2>6. LET d == <<Top.file, Top.defs[Top.at]>>
        IN  d \in Definitions /\ Named(d) = NextDef
    <3>1. Top \in Act /\ ActOK(Top, loaded)
      BY <1>6, TopIsAct DEF IInv
    <3>2. Top.at \in DOMAIN Top.defs
      BY <2>3, <3>1 DEF Act
    <3>3. /\ Top.defs[Top.at] \in DOMAIN prog[Top.file]
          /\ prog[Top.file][Top.defs[Top.at]].op = "def"
      BY <3>1, <3>2 DEF ActOK
    <3>4. Top.file \in DOMAIN prog
      BY <3>1 DEF Act
    <3>5. QED  BY <3>3, <3>4 DEF Definitions, Named, NextDef, Body
  <2>7. LET python == Python!LooksUp(Top.file, c)
        IN  python # None /\ (python = Python!Builtin(c) => c \in Inlined)
    BY <1>1, <2>2, <2>4, <2>6 DEF CallsFound
  <2>8. Python!LooksUp(Top.file, c) \in {None, Python!Builtin(c)}
    BY <2>2, <2>5 DEF Python!LooksUp
  <2>9. QED  BY <2>5, <2>7, <2>8
<1>7. QED  BY <1>5, <1>6

(* The compiler turns away no program of functions that Python imports and  *)
(* in which every call finds its callee, provided each name is defined once *)
(* and imported under it: whatever files there are, however they import     *)
(* each other, and wherever in them the compiler could have stopped.        *)
THEOREM AcceptsWhatPythonRuns == Spec => []AcceptsPython
<1>1. Init => IInv /\ CompilerInv /\ PyInv /\ Together
  BY InitIInv, InitCompiler, InitPython, InitTogether
<1>2. IInv /\ CompilerInv /\ PyInv /\ Together /\ [Next]_vars
        => (IInv /\ CompilerInv /\ PyInv /\ Together)'
  BY StepIInv, StepCompiler, StepPython, StepTogether
<1>3. IInv /\ CompilerInv /\ PyInv /\ Together => AcceptsPython
  BY InvAcceptsPython
<1>4. QED  BY <1>1, <1>2, <1>3, PTL DEF Spec

-----------------------------------------------------------------------------
(* The bench.                                                               *)

(* A test's result is there when it is done, is a failure when a step of it *)
(* went wrong, and only then; a test that passed has run all its            *)
(* iterations.                                                              *)
TestRecords ==
  \A t \in Tests :
    /\ at[t] = "done" <=> result[t] # Unset
    /\ t \in wrong => at[t] = "done" /\ Bad(result[t])
    /\ at[t] = "done" /\ t \notin wrong =>
         ~ Bad(result[t]) /\ (Due(t) => ran[t] = Iterations(t))
    /\ at[t] \in {"compiling", "running"} => Due(t)
    /\ at[t] = "running" => ran[t] <= Iterations(t)
    /\ at[t] \in {"waiting", "compiling"} => ran[t] = 0

(* The benchmarks before the one at work are judged, and the others not.    *)
BenchRecords ==
  \A b \in Benches :
    /\ b < turn <=> perf[b] # Unset
    /\ b \in slow <=> perf[b] # Unset /\ Bad(perf[b])

Pillars ==
  /\ corpus # "listed" => \A t \in Tests : at[t] = "waiting"
  /\ turn # 0 => AllTestsDone /\ Tier >= 3

(* What the exit code rests on, for each outcome of the look at the corpus. *)
ExitLast ==
  /\ corpus = "unseen" => exit = Unset
  /\ corpus = "missing" => exit = 0
  /\ corpus = "refused" => exit = 1
  /\ corpus = "listed" /\ exit # Unset => PillarsDone
  /\ corpus = "listed" /\ exit = 0 => ~ AnyFailed /\ (JsonOut => written)
  /\ corpus = "listed" /\ exit = 1 => AnyFailed \/ (JsonOut /\ ~ written)

BenchInv == BenchTypeOK /\ TestRecords /\ BenchRecords /\ Pillars /\ ExitLast

-----------------------------------------------------------------------------
(* A verdict fails exactly when it is one of the failures.                  *)
LEMMA VerdictKinds ==
  /\ Passed \in Verdicts /\ ~ Bad(Passed)
  /\ Skipped \in Verdicts /\ ~ Bad(Skipped)
  /\ \A kind \in Kinds : Failed(kind) \in Verdicts /\ Bad(Failed(kind))
BY DEF Verdicts, Passed, Skipped, Failed, Bad

LEMMA IterationsType == \A t \in Tests : Iterations(t) \in Nat
BY BenchAssumption DEF Iterations

(* A test that is due, and not one of the exceptions, runs at least once.   *)
LEMMA SomeIterations ==
  \A t \in Tests : ~ NeverRun(t) => Iterations(t) \in Nat \ {0}
BY BenchAssumption, TierAssumption DEF Iterations, NeverRun

LEMMA BenchInitTypeOK == BenchInit => BenchTypeOK
<1> SUFFICES ASSUME BenchInit PROVE BenchTypeOK
  OBVIOUS
<1>1. turn \in 0 .. Benchmarks + 1
  BY BenchAssumption DEF BenchInit
<1> QED
  BY <1>1 DEF BenchInit, BenchTypeOK

(* Every variable of the bench keeps its type. *)
THEOREM BenchTypeCorrect == BenchSpec => []BenchTypeOK
<1>1. BenchInit => BenchTypeOK
  BY BenchInitTypeOK
<1>2. BenchTypeOK /\ [BenchNext]_benchVars => BenchTypeOK'
  <2> SUFFICES ASSUME BenchTypeOK, [BenchNext]_benchVars
               PROVE  BenchTypeOK'
    OBVIOUS
  <2> USE VerdictKinds DEF BenchTypeOK
  <2>1. ASSUME NEW t \in Tests, TestStep(t)
        PROVE  BenchTypeOK'
    <3>1. CASE BadTest(t)
      BY <3>1 DEF BadTest, FinishWrong, Conclude, benches, Kinds
    <3>2. CASE SkipTest(t)
      BY <3>2 DEF SkipTest, Conclude, benches
    <3>3. CASE StartTest(t)
      BY <3>3 DEF StartTest, benches
    <3>4. CASE CompileTest(t)
      BY <3>4 DEF CompileTest, FinishWrong, Conclude, benches, Kinds
    <3>5. CASE Agree(t)
      BY <3>5 DEF Agree, benches
    <3>6. CASE Stop(t)
      BY <3>6 DEF Stop, FinishWrong, Conclude, benches, Kinds
    <3>7. CASE Pass(t)
      BY <3>7 DEF Pass, Conclude, benches
    <3> QED
      BY <2>1, <3>1, <3>2, <3>3, <3>4, <3>5, <3>6, <3>7 DEF TestStep
  <2>2. CASE BeginPerf
    BY <2>2, BenchAssumption DEF BeginPerf, tests
  <2>3. CASE NoCorpus \/ RefusePattern \/ ListTests
    BY <2>3 DEF NoCorpus, RefusePattern, ListTests, tests, benches
  <2>4. CASE BenchStep
    <3>1. turn \in Benches /\ turn + 1 \in 0 .. Benchmarks + 1
      BY <2>4, BenchAssumption DEF BenchStep, Benches
    <3>2. ASSUME NEW r \in Verdicts, Judge(r)
          PROVE  /\ turn' \in 0 .. Benchmarks + 1
                 /\ bat' \in {"waiting", "compiling", "checking", "timing"}
                 /\ perf' \in [Benches -> Verdicts \cup {Unset}]
      BY <3>1, <3>2 DEF Judge
    <3>3. ASSUME NEW kinds \in SUBSET Kinds, JudgeWrong(kinds)
          PROVE  BenchTypeOK'
      BY <2>4, <3>1, <3>2, <3>3 DEF BenchStep, JudgeWrong, tests
    <3>4. ASSUME NEW r \in Verdicts, Well(r)
          PROVE  BenchTypeOK'
      BY <2>4, <3>2, <3>4 DEF BenchStep, Well, tests
    <3>5. ASSUME NEW stage \in {"waiting", "compiling", "checking", "timing"},
                 StepTo(stage)
          PROVE  BenchTypeOK'
      BY <2>4, <3>5 DEF BenchStep, StepTo, tests
    <3> QED
      BY <2>4, <3>3, <3>4, <3>5
         DEF BenchStep, ReadBench, CompileBoth, CheckOutputs, TimeBoth, Kinds
  <2>5. CASE WriteJson
    BY <2>5 DEF WriteJson, tests, benches
  <2>6. CASE Exit
    BY <2>6 DEF Exit, tests, benches
  <2>7. CASE UNCHANGED benchVars
    BY <2>7 DEF benchVars, tests, benches
  <2> QED
    BY <2>1, <2>2, <2>4, <2>5, <2>6, <2>7, <2>3 DEF BenchNext
<1> QED
  BY <1>1, <1>2, PTL DEF BenchSpec

-----------------------------------------------------------------------------
(* While a test listed is not done, no benchmark is at work and main has    *)
(* not ended.                                                               *)
LEMMA TestsFirst ==
  ASSUME BenchTypeOK, Pillars, ExitLast, corpus = "listed",
         NEW t \in Tests, at[t] # "done"
  PROVE  turn = 0 /\ exit = Unset
BY DEF Pillars, ExitLast, PillarsDone, AllTestsDone

(* A step of a test keeps the invariant. *)
LEMMA TestStepKeeps ==
  ASSUME BenchInv, BenchTypeOK', NEW t \in Tests, TestStep(t)
  PROVE  BenchInv'
<1>1. at[t] # "done"
  BY DEF TestStep, BadTest, SkipTest, StartTest, CompileTest, Agree, Stop,
         Pass, Take
<1>2. corpus = "listed"
  <2>1. at[t] # "waiting" => corpus = "listed"
    BY DEF BenchInv, Pillars
  <2> QED
    BY <2>1 DEF TestStep, BadTest, SkipTest, StartTest, CompileTest, Agree, Stop,
                Pass, Take
<1>3. turn = 0 /\ exit = Unset
  BY <1>1, <1>2, TestsFirst DEF BenchInv
<1>4. UNCHANGED <<benches, corpus, written, exit>>
  BY DEF TestStep, BadTest, SkipTest, StartTest, CompileTest, Agree, Stop, Pass
<1>5. BenchRecords' /\ Pillars' /\ ExitLast'
  BY <1>3, <1>4, <1>2, BenchAssumption
     DEF BenchInv, benches, BenchRecords, Pillars, ExitLast
<1>6. TestRecords'
  <2> USE IterationsType, UnsetAssumption, VerdictKinds DEF BenchInv, BenchTypeOK, TestRecords
  <2>1. CASE BadTest(t)
    BY <2>1 DEF BadTest, Take, FinishWrong, Conclude, Kinds, Due, Iterations
  <2>2. CASE SkipTest(t)
    <3>1. /\ at[t] = "waiting" /\ at' = [at EXCEPT ![t] = "done"]
          /\ result' = [result EXCEPT ![t] = Skipped] /\ UNCHANGED <<ran, wrong>>
      BY <2>2 DEF SkipTest, Take, Conclude
    <3>2. ~ Due(t)
      BY <2>2, BenchAssumption DEF SkipTest, Due
    <3>3. Skipped # Unset /\ ~ Bad(Skipped) /\ t \notin wrong
      BY <3>1 DEF Bad, Skipped
    <3> QED
      BY <3>1, <3>2, <3>3
  <2>3. CASE StartTest(t)
    BY <2>3 DEF StartTest, Take, Due, Iterations
  <2>4. CASE CompileTest(t)
    BY <2>4 DEF CompileTest, FinishWrong, Conclude, Kinds, Due, Iterations
  <2>5. CASE Agree(t)
    BY <2>5 DEF Agree, Due, Iterations
  <2>6. CASE Stop(t)
    BY <2>6 DEF Stop, FinishWrong, Conclude, Kinds, Due, Iterations
  <2>7. CASE Pass(t)
    BY <2>7 DEF Pass, Conclude, Due, Iterations
  <2> QED
    BY <2>1, <2>2, <2>3, <2>4, <2>5, <2>6, <2>7 DEF TestStep
<1> QED
  BY <1>5, <1>6 DEF BenchInv

(* A step of a benchmark keeps it too. *)
LEMMA BenchStepKeeps ==
  ASSUME BenchInv, BenchTypeOK', BenchStep
  PROVE  BenchInv'
<1>1. turn \in Benches /\ UNCHANGED <<tests, corpus, written, exit>>
  BY DEF BenchStep
<1>2. corpus = "listed"
  BY <1>1, BenchAssumption DEF BenchInv, Pillars, AllTestsDone, Benches
<1>3. TestRecords'
  BY <1>1 DEF BenchInv, tests, TestRecords, Due, Iterations, Bad
<1>4. exit = Unset
  BY <1>1, <1>2, BenchAssumption DEF BenchInv, ExitLast, PillarsDone, Benches
<1>5. ExitLast'
  BY <1>1, <1>4, <1>2, BenchAssumption DEF ExitLast
<1>6. Pillars'
  BY <1>1, <1>2, BenchAssumption DEF BenchInv, Pillars, AllTestsDone, tests, Benches
<1>7. BenchRecords'
  <2> USE <1>1, BenchAssumption, UnsetAssumption, VerdictKinds
      DEF BenchInv, BenchTypeOK, BenchRecords, Benches
  <2>1. ASSUME NEW kinds \in SUBSET Kinds, JudgeWrong(kinds)
        PROVE  BenchRecords'
    <3>1. PICK kind \in kinds : Judge(Failed(kind))
      BY <2>1 DEF JudgeWrong
    <3>2. Failed(kind) \in Verdicts /\ Failed(kind) # Unset /\ Bad(Failed(kind))
      BY <3>1
    <3> QED
      BY <2>1, <3>1, <3>2 DEF JudgeWrong, Judge
  <2>2. ASSUME NEW r \in {Passed, Skipped}, Well(r)
        PROVE  BenchRecords'
    <3>1. r # Unset /\ ~ Bad(r)
      BY <2>2
    <3> QED
      BY <2>2, <3>1 DEF Well, Judge
  <2>3. ASSUME NEW stage \in {"compiling", "checking", "timing"}, StepTo(stage)
        PROVE  BenchRecords'
    BY <2>3 DEF StepTo, Bad
  <2>4. \/ \E kinds \in SUBSET Kinds : JudgeWrong(kinds)
        \/ \E r \in {Passed, Skipped} : Well(r)
        \/ \E stage \in {"compiling", "checking", "timing"} : StepTo(stage)
    <3>1. CASE ReadBench
      BY <3>1 DEF ReadBench, Kinds
    <3>2. CASE CompileBoth
      BY <3>2 DEF CompileBoth, Kinds
    <3>3. CASE CheckOutputs
      BY <3>3 DEF CheckOutputs, Kinds
    <3>4. CASE TimeBoth
      BY <3>4 DEF TimeBoth, Kinds
    <3> QED
      BY <3>1, <3>2, <3>3, <3>4 DEF BenchStep
  <2> QED
    BY <2>1, <2>2, <2>3, <2>4
<1> QED
  BY <1>3, <1>5, <1>6, <1>7 DEF BenchInv

(* The records tell what happened, and the pillars follow each other. *)
THEOREM RecordsTellAll == BenchSpec => []BenchInv
<1>1. BenchInit => BenchInv
  <2> SUFFICES ASSUME BenchInit PROVE BenchInv
    OBVIOUS
  <2>1. BenchTypeOK
    BY BenchInitTypeOK
  <2>2. TestRecords
    BY IterationsType DEF BenchInit, TestRecords
  <2>3. BenchRecords /\ Pillars /\ ExitLast
    BY BenchAssumption DEF BenchInit, BenchRecords, Benches, Pillars, ExitLast
  <2> QED
    BY <2>1, <2>2, <2>3 DEF BenchInv
<1>2. BenchInv /\ BenchTypeOK' /\ [BenchNext]_benchVars => BenchInv'
  <2> SUFFICES ASSUME BenchInv, BenchTypeOK', [BenchNext]_benchVars
               PROVE  BenchInv'
    OBVIOUS
  <2>1. ASSUME NEW t \in Tests, TestStep(t)
        PROVE  BenchInv'
    BY <2>1, TestStepKeeps
  <2>2. CASE BeginPerf
    <3>1. /\ UNCHANGED <<tests, corpus>> /\ exit = Unset /\ exit' = Unset
          /\ AllTestsDone /\ corpus = "listed"
      BY <2>2, BenchAssumption
         DEF BeginPerf, BenchInv, ExitLast, PillarsDone, AllTestsDone
    <3>2. TestRecords'
      BY <3>1 DEF BenchInv, tests, TestRecords, Due, Iterations, Bad
    <3>3. Pillars' /\ ExitLast'
      BY <2>2, <3>1, BenchAssumption
         DEF BeginPerf, Pillars, ExitLast, AllTestsDone, tests
    <3>4. BenchRecords'
      BY <2>2 DEF BeginPerf, BenchInv, BenchRecords, Benches, Bad
    <3> QED
      BY <3>2, <3>3, <3>4 DEF BenchInv
  <2>3. CASE BenchStep
    BY <2>3, BenchStepKeeps
  <2>4. CASE WriteJson \/ Exit
    <3>1. /\ UNCHANGED <<tests, benches, corpus>> /\ PillarsDone /\ exit = Unset
          /\ corpus = "listed"
      BY <2>4 DEF WriteJson, Exit, PillarsDone, AllTestsDone
    <3>2. TestRecords' /\ BenchRecords' /\ Pillars'
      BY <3>1 DEF BenchInv, tests, benches, TestRecords, BenchRecords, Pillars,
                  AllTestsDone, Due, Iterations, Bad
    <3>3. PillarsDone' /\ (AnyFailed <=> AnyFailed')
      BY <3>1 DEF PillarsDone, AllTestsDone, AnyFailed, tests, benches, Bad
    <3>4. ExitLast'
      BY <2>4, <3>1, <3>3, BenchAssumption DEF WriteJson, Exit, ExitLast
    <3> QED
      BY <3>2, <3>4 DEF BenchInv
  <2>5. CASE NoCorpus \/ RefusePattern \/ ListTests
    <3>1. UNCHANGED <<tests, benches, written>> /\ corpus = "unseen"
      BY <2>5 DEF NoCorpus, RefusePattern, ListTests
    <3>2. TestRecords' /\ BenchRecords'
      BY <3>1 DEF BenchInv, tests, benches, TestRecords, BenchRecords,
                  Due, Iterations, Bad
    <3>3. turn = 0 /\ exit = Unset /\ \A t \in Tests : at[t] = "waiting"
      BY <3>1 DEF BenchInv, Pillars, AllTestsDone, ExitLast
    <3>4. Pillars'
      BY <3>1, <3>3 DEF tests, benches, Pillars
    <3>5. ExitLast'
      BY <2>5, <3>3, BenchAssumption DEF NoCorpus, RefusePattern, ListTests, ExitLast
    <3> QED
      BY <3>2, <3>4, <3>5 DEF BenchInv
  <2>6. CASE UNCHANGED benchVars
    BY <2>6 DEF benchVars, tests, benches, BenchInv, TestRecords, BenchRecords, Pillars,
                ExitLast, AllTestsDone, PillarsDone, AnyFailed, Due, Iterations, Bad
  <2> QED
    BY <2>1, <2>2, <2>3, <2>4, <2>6, <2>5 DEF BenchNext
<1>3. BenchInv => BenchTypeOK
  BY DEF BenchInv
<1> QED
  BY <1>1, <1>2, BenchTypeCorrect, PTL DEF BenchSpec

(* Exit code 0, where there is a corpus: nothing went wrong, everything due *)
(* was run and judged, each test at least once but for the exceptions, and  *)
(* the JSON file asked for is there; for any number of tests, benchmarks    *)
(* and workers.                                                             *)
THEOREM ExitZero == BenchSpec => []ExitZeroMeansAllPass
<1>1. BenchInv => ExitZeroMeansAllPass
  <2> SUFFICES ASSUME BenchInv, exit = 0, corpus # "missing"
               PROVE  /\ wrong = {} /\ slow = {}
                      /\ \A t \in Tests :
                           Due(t) => ran[t] = Iterations(t) /\ (ran[t] > 0 \/ NeverRun(t))
                      /\ Tier >= 3 => \A b \in Benches : perf[b] # Unset
                      /\ JsonOut => written
    BY DEF ExitZeroMeansAllPass
  <2>1. corpus = "listed"
    BY BenchAssumption DEF BenchInv, BenchTypeOK, ExitLast
  <2>2. PillarsDone /\ ~ AnyFailed /\ (JsonOut => written)
    BY <2>1, BenchAssumption DEF BenchInv, ExitLast
  <2>3. wrong = {} /\ slow = {}
    BY <2>2 DEF BenchInv, BenchTypeOK, TestRecords, BenchRecords, AnyFailed
  <2>4. \A t \in Tests : Due(t) => ran[t] = Iterations(t)
    BY <2>2, <2>3 DEF BenchInv, TestRecords, PillarsDone, AllTestsDone
  <2>5. \A t \in Tests : Due(t) => ran[t] > 0 \/ NeverRun(t)
    BY <2>4, SomeIterations
  <2>6. Tier >= 3 => \A b \in Benches : perf[b] # Unset
    BY <2>2, BenchAssumption DEF BenchInv, BenchRecords, PillarsDone, Benches
  <2> QED
    BY <2>2, <2>3, <2>4, <2>5, <2>6
<1> QED
  BY <1>1, RecordsTellAll, PTL

(* Exit code 1: something did go wrong. *)
THEOREM ExitOne == BenchSpec => []ExitOneMeansFailure
<1>1. BenchInv => ExitOneMeansFailure
  <2> SUFFICES ASSUME BenchInv, exit = 1, corpus # "refused", AnyFailed, corpus = "listed"
               PROVE  wrong # {} \/ slow # {}
    BY BenchAssumption DEF ExitOneMeansFailure, BenchInv, BenchTypeOK, ExitLast
  <2>1. AllTestsDone
    BY BenchAssumption DEF BenchInv, ExitLast, PillarsDone
  <2> QED
    BY <2>1 DEF AnyFailed, BenchInv, TestRecords, BenchRecords, AllTestsDone
<1> QED
  BY <1>1, RecordsTellAll, PTL

(* Nothing runs beside a benchmark. *)
THEOREM TimingsAreQuiet == BenchSpec => []QuietTimings
<1>1. BenchInv => QuietTimings
  BY DEF BenchInv, Pillars, QuietTimings, AllTestsDone, Busy
<1> QED
  BY <1>1, RecordsTellAll, PTL
=============================================================================
