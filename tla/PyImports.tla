----------------------------- MODULE PyImports -----------------------------
(***************************************************************************)
(* CPython importing a program made of sibling files, as the reference run *)
(* of the bench does (test-bench.md, "from program import main"): the root *)
(* is a module like the others.  A module enters sys.modules before its    *)
(* body runs, a `def` or a `class` binds a name of the module, and         *)
(* `from m import n as k` runs m first if nobody has begun it, then binds  *)
(* what m has bound so far.  A call looks its callee up, when it is made,  *)
(* in the module its function was written in.                              *)
(*                                                                         *)
(* A program maps each file to the sequence of its statements:             *)
(*   [op |-> "def", name, calls]   calls: the names its body calls         *)
(*   [op |-> "class", name]                                                *)
(*   [op |-> "import", from, names]   names: a set of [name, as]           *)
(*   [op |-> "other"]     a statement that binds no name                   *)
(*   [op |-> "garbage"]   text that does not parse                         *)
(* What a name is bound to is a definition <<file, position>>, or what a   *)
(* library or the interpreter defines: <<name, 0>>.                        *)
(***************************************************************************)
EXTENDS Integers, Sequences, FiniteSets, SequencesExt

CONSTANTS
  Root,       \* the file given to the compiler
  Libraries,  \* modules of the standard library: math, typing, abc, ...
  Builtins,   \* functions bound in every module
  None

VARIABLES
  prog,     \* file -> its statements
  running,  \* the modules being executed, innermost last: [file, at]
  ns,       \* sys.modules: file -> (name -> what it is bound to)
  imported  \* "running", "ready" or "raised"

pyVars == <<running, ns, imported>>

Builtin(n) == <<n, 0>>
NoNames == [n \in {} |-> None]

ImportInit ==
  /\ running = <<[file |-> Root, at |-> 1]>>
  /\ ns = [f \in {Root} |-> NoNames]
  /\ imported = "running"

This == Last(running)
Done == This.at > Len(prog[This.file])
Here == prog[This.file][This.at]

Advance == running' = Front(running) \o <<[This EXCEPT !.at = @ + 1]>>

(* The namespaces once the module f has bound the names of `bound`.          *)
Binding(f, bound) ==
  [ns EXCEPT ![f] = [n \in DOMAIN bound \cup DOMAIN ns[f] |->
                       IF n \in DOMAIN bound THEN bound[n] ELSE ns[f][n]]]

At(op) == imported = "running" /\ ~ Done /\ Here.op = op

Bind ==
  /\ At("def") \/ At("class")
  /\ ns' = Binding(This.file, [n \in {Here.name} |-> <<This.file, This.at>>])
  /\ Advance
  /\ UNCHANGED imported

Other ==
  /\ At("other")
  /\ Advance
  /\ UNCHANGED <<ns, imported>>

Parses(f) == \A k \in DOMAIN prog[f] : prog[f][k].op # "garbage"

(* `from m import ...` of a module nobody has begun. *)
Begin ==
  /\ At("import")
  /\ Here.from \in DOMAIN prog \ DOMAIN ns
  /\ Parses(Here.from)
  /\ ns' = [f \in DOMAIN ns \cup {Here.from} |->
              IF f = Here.from THEN NoNames ELSE ns[f]]
  /\ running' = Append(running, [file |-> Here.from, at |-> 1])
  /\ UNCHANGED imported

(* What the module offers: all of a library, of a file what it has bound.   *)
Offers(m, n) == m \in Libraries \/ (m \in DOMAIN ns /\ n \in DOMAIN ns[m])
Offered(m, n) == IF m \in Libraries THEN Builtin(n) ELSE ns[m][n]

Taken ==
  [k \in {n.as : n \in Here.names} |->
     Offered(Here.from, (CHOOSE n \in Here.names : n.as = k).name)]

BindNames ==
  /\ At("import")
  /\ Here.from \in Libraries \cup DOMAIN ns
  /\ \A n \in Here.names : Offers(Here.from, n.name)
  /\ ns' = Binding(This.file, Taken)
  /\ Advance
  /\ UNCHANGED imported

(* ModuleNotFoundError, SyntaxError, or "cannot import name". *)
Raise ==
  /\ At("import")
  /\ \/ Here.from \notin Libraries \cup DOMAIN prog
     \/ Here.from \in DOMAIN prog \ DOMAIN ns /\ ~ Parses(Here.from)
     \/ /\ Here.from \in DOMAIN ns
        /\ \E n \in Here.names : ~ Offers(Here.from, n.name)
  /\ imported' = "raised"
  /\ UNCHANGED <<running, ns>>

EndModule ==
  /\ imported = "running"
  /\ Done
  /\ IF Len(running) = 1
     THEN imported' = "ready" /\ UNCHANGED running
     ELSE running' = Front(running) /\ UNCHANGED imported
  /\ UNCHANGED ns

ImportNext == Bind \/ Other \/ Begin \/ BindNames \/ Raise \/ EndModule

(* What a function written in file f reaches by the name c. *)
LooksUp(f, c) ==
  IF c \in DOMAIN ns[f] THEN ns[f][c]
  ELSE IF c \in Builtins THEN Builtin(c)
  ELSE None
=============================================================================
