------------------------------- MODULE Loader -------------------------------
(***************************************************************************)
(* How check.rs turns a file and the sibling files it imports into one     *)
(* program: lower and lower_module_into.  The files share one table of     *)
(* signatures, one class registry and one list of lowered functions, where *)
(* Python keeps a namespace per module.                                    *)
(*                                                                         *)
(* lower_module_into calls itself at an import, so its activations are a   *)
(* stack; each goes through the class names of its file (phase 0a), its    *)
(* statements in order, then the bodies of its functions (pass 2).  Of a   *)
(* body only the names it calls are kept, of a class only its name (its    *)
(* members are ClassTable's): a constructor call takes no arguments here.  *)
(* Callables held in local variables and the wording of errors are left  *)
(* out; all files lie in one directory.                                    *)
(*                                                                         *)
(* Once the compiler has ended, CPython imports the same program.          *)
(***************************************************************************)
EXTENDS Integers, Sequences, FiniteSets, SequencesExt, FiniteSetsExt

CONSTANTS
  Root, Libraries, Builtins, None,   \* as in PyImports
  Inlined,  \* the names lower_builtin_call knows, those of math among them
  Main,     \* the name main
  Programs  \* the programs given to the compiler

(* The body of a file is a sequence of statements, and the root is a file.  *)
ASSUME ProgramsAssumption ==
  \A p \in Programs :
    /\ Root \in DOMAIN p
    /\ \A f \in DOMAIN p : p[f] \in Seq(ToSet(p[f]))

(* None is no definition, and not what a library defines.                   *)
ASSUME NoneAssumption ==
  /\ \A p \in Programs : \A f \in DOMAIN p : \A k \in DOMAIN p[f] : None # <<f, k>>
  /\ \A n \in Inlined : None # <<n, 0>>

(* No file has the name of a library, which Python would take it for.       *)
ASSUME LibrariesAssumption ==
  \A p \in Programs : DOMAIN p \cap Libraries = {}

VARIABLES
  prog,        \* the program: file -> its statements
  stack,       \* activations of lower_module_into: [file, phase, at, defs]
  loaded,      \* the files begun
  signatures,  \* name -> the definition <<file, position>> it stands for
  registry,    \* CLASS_REGISTRY: class name -> its definition
  emitted,     \* all_functions: [def, calls: name -> target]
  verdict,     \* "lowering", "accepted" or "rejected"
  running, ns, imported  \* CPython's, see PyImports

loaderVars == <<stack, loaded, signatures, registry, emitted, verdict>>
pyVars == <<running, ns, imported>>
vars == <<prog, loaderVars, pyVars>>

Python == INSTANCE PyImports

Activation(f) == [file |-> f, phase |-> "classes", at |-> 1, defs |-> <<>>]

Init ==
  /\ prog \in Programs
  /\ stack = <<Activation(Root)>>
  /\ loaded = {Root}
  /\ signatures = Python!NoNames
  /\ registry = Python!NoNames
  /\ emitted = <<>>
  /\ verdict = "lowering"
  /\ Python!ImportInit

Top == Last(stack)
Body == prog[Top.file]
Stmt == Body[Top.at]

Going(phase, at, defs) ==
  [file |-> Top.file, phase |-> phase, at |-> at, defs |-> defs]
Replace(activation) == Front(stack) \o <<activation>>

NextStmt     == Replace(Going(Top.phase, Top.at + 1, Top.defs))
Enter(phase) == Replace(Going(phase, 1, Top.defs))

In(phase) == verdict = "lowering" /\ stack # <<>> /\ Top.phase = phase
Reads(phase, op) == In(phase) /\ Top.at <= Len(Body) /\ Stmt.op = op

Reject ==
  /\ verdict' = "rejected"
  /\ UNCHANGED <<stack, loaded, signatures, registry, emitted>>

-----------------------------------------------------------------------------
(* Phase 0a. *)

(* HashMap::insert. *)
Insert(table, name, d) ==
  [n \in DOMAIN table \cup {name} |-> IF n = name THEN d ELSE table[n]]

RegisterClass ==
  /\ Reads("classes", "class")
  /\ Stmt.name \notin DOMAIN registry \cup DOMAIN signatures
  /\ registry' = Insert(registry, Stmt.name, <<Top.file, Top.at>>)
  /\ stack' = NextStmt
  /\ UNCHANGED <<loaded, signatures, emitted, verdict>>

RejectDuplicateClass ==
  /\ Reads("classes", "class")
  /\ Stmt.name \in DOMAIN registry \cup DOMAIN signatures
  /\ Reject

(* The statements a pass has nothing to do for, and the end of the pass.    *)
Skip ==
  /\ \/ \E op \in {"def", "import", "other"} : Reads("classes", op)
     \/ Reads("names", "class")
     \/ Reads("names", "import") /\ Stmt.from \in Libraries
  /\ stack' = NextStmt
  /\ UNCHANGED <<loaded, signatures, registry, emitted, verdict>>

EndPass_MutantRootBodies(phase, next) ==
  /\ In(phase)
  /\ Top.at > Len(Body)
  /\ stack' = IF next = "bodies" /\ Len(stack) > 1 THEN Front(stack) ELSE Enter(next)
  /\ UNCHANGED <<loaded, signatures, registry, emitted, verdict>>

EndPass(phase, next) ==
  /\ In(phase)
  /\ Top.at > Len(Body)
  /\ stack' = Enter(next)
  /\ UNCHANGED <<loaded, signatures, registry, emitted, verdict>>

-----------------------------------------------------------------------------
(* The statements in order. *)

CollectSignature_MutantLastWins ==
  /\ Reads("names", "def")
  /\ signatures' = Insert(signatures, Stmt.name, <<Top.file, Top.at>>)
  /\ stack' = Replace(Going("names", Top.at + 1, Append(Top.defs, Top.at)))
  /\ UNCHANGED <<loaded, registry, emitted, verdict>>

CollectSignature ==
  /\ Reads("names", "def")
  /\ Stmt.name \notin DOMAIN signatures
  /\ signatures' = Insert(signatures, Stmt.name, <<Top.file, Top.at>>)
  /\ stack' = Replace(Going("names", Top.at + 1, Append(Top.defs, Top.at)))
  /\ UNCHANGED <<loaded, registry, emitted, verdict>>

RejectDuplicateFunction ==
  /\ Reads("names", "def")
  /\ Stmt.name \in DOMAIN signatures
  /\ Reject

(* An import of a sibling file that exists, not begun yet: its activation   *)
(* is pushed, and the importer will verify the names when it is back.       *)
LoadModule_MutantUnmarked ==
  /\ Reads("names", "import")
  /\ Stmt.from \in DOMAIN prog \ (loaded \cup Libraries)
  /\ Python!Parses(Stmt.from)
  /\ stack' = Append(Replace(Going("verify", Top.at, Top.defs)),
                     Activation(Stmt.from))
  /\ UNCHANGED <<loaded, signatures, registry, emitted, verdict>>

LoadModule ==
  /\ Reads("names", "import")
  /\ Stmt.from \in DOMAIN prog \ (loaded \cup Libraries)
  /\ Python!Parses(Stmt.from)
  /\ loaded' = loaded \cup {Stmt.from}
  /\ stack' = Append(Replace(Going("verify", Top.at, Top.defs)),
                     Activation(Stmt.from))
  /\ UNCHANGED <<signatures, registry, emitted, verdict>>

(* "Already loaded (or a cycle)": neither the names nor the aliases are     *)
(* looked at.                                                               *)
SkipLoaded ==
  /\ Reads("names", "import")
  /\ Stmt.from \in loaded \ Libraries
  /\ stack' = NextStmt
  /\ UNCHANGED <<loaded, signatures, registry, emitted, verdict>>

RejectModule ==
  /\ Reads("names", "import")
  /\ \/ Stmt.from \notin DOMAIN prog \cup Libraries
     \/ Stmt.from \in DOMAIN prog \ loaded /\ ~ Python!Parses(Stmt.from)
  /\ Reject

RejectStatement ==
  /\ Reads("names", "other")
  /\ Reject

Verified_MutantDefinedThere ==
  \A n \in Stmt.names :
    /\ n.name \in DOMAIN signatures /\ n.as = n.name
    /\ signatures[n.name][1] = Stmt.from

Verified == \A n \in Stmt.names : n.name \in DOMAIN signatures /\ n.as = n.name

VerifyNames ==
  /\ In("verify")
  /\ Verified
  /\ stack' = Replace(Going("names", Top.at + 1, Top.defs))
  /\ UNCHANGED <<loaded, signatures, registry, emitted, verdict>>

RejectNames ==
  /\ In("verify")
  /\ ~ Verified
  /\ Reject

-----------------------------------------------------------------------------
(* Pass 2: the bodies of this file's functions. *)

(* What a call of a name becomes: a constructor, a builtin, a call.         *)
Target(c) ==
  IF c \in DOMAIN registry THEN registry[c]
  ELSE IF c \in Inlined THEN Python!Builtin(c)
  ELSE IF c \in DOMAIN signatures THEN signatures[c]
  ELSE None

NextDef == Body[Top.defs[Top.at]]
Calls   == [c \in NextDef.calls |-> Target(c)]

LowerFunction ==
  /\ In("bodies")
  /\ Top.at <= Len(Top.defs)
  /\ \A c \in NextDef.calls : Target(c) # None
  /\ emitted' = Append(emitted, [def |-> <<Top.file, Top.defs[Top.at]>>,
                                 calls |-> Calls])
  /\ stack' = NextStmt
  /\ UNCHANGED <<loaded, signatures, registry, verdict>>

RejectUndefined ==
  /\ In("bodies")
  /\ Top.at <= Len(Top.defs)
  /\ \E c \in NextDef.calls : Target(c) = None
  /\ Reject

Return ==
  /\ In("bodies")
  /\ Top.at > Len(Top.defs)
  /\ stack' = Front(stack)
  /\ UNCHANGED <<loaded, signatures, registry, emitted, verdict>>

(* Back in lower. *)
Finish ==
  /\ verdict = "lowering"
  /\ stack = <<>>
  /\ verdict' = IF Main \in DOMAIN signatures THEN "accepted" ELSE "rejected"
  /\ UNCHANGED <<stack, loaded, signatures, registry, emitted>>

-----------------------------------------------------------------------------
Classes == RegisterClass \/ RejectDuplicateClass \/ EndPass("classes", "names")
Names   == \/ CollectSignature \/ RejectDuplicateFunction
           \/ LoadModule \/ SkipLoaded \/ RejectModule \/ RejectStatement
           \/ VerifyNames \/ RejectNames \/ EndPass("names", "bodies")
Bodies  == LowerFunction \/ RejectUndefined \/ Return

Lower == Classes \/ Skip \/ Names \/ Bodies \/ Finish

Next ==
  \/ Lower /\ UNCHANGED <<prog, pyVars>>
  \/ verdict # "lowering" /\ Python!ImportNext /\ UNCHANGED <<prog, loaderVars>>

Spec == Init /\ [][Next]_vars

-----------------------------------------------------------------------------
(* Properties. *)

Definitions ==
  UNION {{<<f, k>> : k \in {j \in DOMAIN prog[f] : prog[f][j].op \in {"def", "class"}}} :
           f \in DOMAIN prog}
Named(d) == prog[d[1]][d[2]]

(* Every variable has its type; a file is on the stack once at most, and    *)
(* only its innermost activation is not waiting for an import.              *)
TypeOK ==
  /\ loaded \subseteq DOMAIN prog
  /\ verdict \in {"lowering", "accepted", "rejected"}
  /\ \A j \in DOMAIN stack :
       /\ stack[j].file \in loaded
       /\ stack[j].phase \in {"classes", "names", "verify", "bodies"}
       /\ stack[j].at \in 1 .. Len(prog[stack[j].file]) + 1
       /\ j < Len(stack) => stack[j].phase = "verify"
       /\ \A k \in DOMAIN stack : stack[j].file = stack[k].file => j = k
  /\ \A n \in DOMAIN signatures :
       signatures[n] \in Definitions /\ Named(signatures[n]).name = n
  /\ \A n \in DOMAIN registry :
       registry[n] \in Definitions /\ Named(registry[n]).name = n

(* Codegen defines @py_<name> for every lowered function and calls it by    *)
(* that name: in a program the compiler accepts, each function that is      *)
(* called, and main, has one definition, although modules are entered from  *)
(* several places and in cycles.                                            *)
Called == UNION {{e.calls[c] : c \in DOMAIN e.calls} : e \in ToSet(emitted)}

Linkable ==
  verdict = "accepted" =>
    /\ \A d \in Called \cup {signatures[Main]} :
         (d \in Definitions /\ Named(d).op = "def") =>
           \E k \in DOMAIN emitted : emitted[k].def = d
    /\ \A j, k \in DOMAIN emitted :
         Named(emitted[j].def).name = Named(emitted[k].def).name => j = k

(* Names for which the flat table of the compiler is not Python's module:   *)
(* those bound by an alias (SkipLoaded and the imports of a library accept  *)
(* one), those of the interpreter, of a library or of lower_builtin_call    *)
(* that the program defines as well, and those that name both a class and a *)
(* function.                                                                *)
Statements == UNION {ToSet(prog[f]) : f \in DOMAIN prog}
Imports == {s \in Statements : s.op = "import"}
Aliases == UNION {{n.as : n \in {m \in s.names : m.as # m.name}} : s \in Imports}
FromLibraries ==
  UNION {{n.as : n \in s.names} : s \in {t \in Imports : t.from \in Libraries}}
Redefined(c) ==
  \/ /\ c \in Inlined \cup Builtins \cup FromLibraries
     /\ \E d \in Definitions : Named(d).name = c
  \/ \E d, e \in Definitions :
       /\ Named(d).name = c /\ Named(e).name = c
       /\ Named(d).op = "def" /\ Named(e).op = "class"

(* A call reaches the definition Python reaches from the module the call is *)
(* written in, through imports, re-exports, diamonds and cycles, whatever   *)
(* order the files were lowered in.  (Of a program that Python can import;  *)
(* a name Python does not find in that module is its NameError.)            *)
CallsAsPython ==
  verdict = "accepted" /\ imported = "ready" =>
    \A e \in ToSet(emitted) : \A c \in DOMAIN e.calls :
      LET python == Python!LooksUp(e.def[1], c)
      IN  \/ python \in {None, e.calls[c]}
          \/ c \in Aliases \/ Redefined(c)

(* The compiler turns away no program of functions that Python imports and  *)
(* in which every call finds its callee, one of the program or one that is  *)
(* lowered inline, provided each name is defined once, is imported under    *)
(* that name and from a file that has it of the program, and main is among  *)
(* them.  Cycles are no obstacle, although the bodies of a module are       *)
(* lowered before the importer's later functions have signatures and the    *)
(* names of a module already begun are not verified: what Python has bound  *)
(* by then, the signatures hold as well.                                    *)
OneName ==
  /\ Aliases = {}
  /\ \A s \in Statements : s.op \in {"def", "import"}
  /\ \A s \in Imports :
       s.from \notin Libraries => \A n \in s.names : n.name \notin FromLibraries
  /\ \A d, e \in Definitions : Named(d).name = Named(e).name => d = e
  /\ \E d \in Definitions : d[1] \in DOMAIN ns /\ Named(d).name = Main

CallsFound ==
  \A d \in Definitions : d[1] \in DOMAIN ns =>
    \A c \in Named(d).calls :
      LET python == Python!LooksUp(d[1], c)
      IN  python # None /\ (python = Python!Builtin(c) => c \in Inlined)

AcceptsPython == imported = "ready" /\ OneName /\ CallsFound => verdict = "accepted"
=============================================================================
