------------------------------ MODULE ListHeap ------------------------------
(***************************************************************************)
(* Lists as the generated code keeps them (codegen.rs, the lower_list_*    *)
(* functions): a name's slot holds a pointer to a struct {len, cap, data}, *)
(* data points to a block of cells.  append grows the block with realloc,  *)
(* which may move it; a literal, a slice and a concatenation copy into a   *)
(* block of their own.  Nothing but realloc ever frees a block.            *)
(*                                                                         *)
(* An operand that calls a function is evaluated between Begin and End;    *)
(* the function may append to any list in between.  What Begin has loaded  *)
(* by then is what the lowering emits before the operand's code.           *)
(***************************************************************************)
EXTENDS Integers, Sequences, FiniteSetsExt

CONSTANTS
  Names, Values,
  Structs,      \* addresses malloc hands out for list structs
  Blocks,       \* addresses malloc and realloc hand out for cells
  MaxLen,       \* bound: the length of a list
  MaxTotal,     \* bound: the lengths of all lists together
  Subscripts,   \* subscripts of item assignments: a number, or Last
  Last,         \* the subscript len(x) - 1
  SliceCalls,   \* whether the bounds of a slice may call a function
  Garbage,      \* what an uninitialised or freed cell holds
  None

ASSUME BoundsAssumption == MaxLen \in Nat /\ MaxTotal \in Nat

(* A list's struct, the cells of a block (at most MaxCells: twice the       *)
(* longest list, or the four of a first growth), the elements of a list.    *)
MaxCells == 2 * MaxLen + 4
Contained == Values \cup {Garbage}
Header == [len : 0 .. MaxLen, cap : 0 .. MaxCells, data : Blocks]
IsBlock(c) == \E n \in 1 .. MaxCells : c \in [0 .. n - 1 -> Contained]
IsList(c)  == \E n \in 0 .. MaxLen : c \in [1 .. n -> Contained]

(* A statement whose operand is being evaluated, and as Python sees it.     *)
Begun == [op : {"append", "load", "concat"}, list : Structs]
           \cup [op : {"store"}, list : Structs,
                 sub : Subscripts, at : Subscripts \cup Int]
           \cup [op : {"slice"}, list : Structs, len : 0 .. MaxLen, data : Blocks]
Seen  == [op : {"append", "load", "concat", "store", "slice"}, list : Structs,
          sub : Subscripts \cup {None}]

(* The null pointer is no address, and no value of the memory is mistaken   *)
(* for it or for an unwritten cell.                                         *)
ASSUME NoneAssumption ==
  /\ None \notin Structs /\ None \notin Header /\ None \notin Begun /\ None \notin Seen
  /\ ~ IsBlock(None) /\ ~ IsList(None)
  /\ Garbage \notin Values

VARIABLES
  slot,    \* %x.addr for every name
  struct,  \* [len, cap, data] at each struct address, None before malloc
  block,   \* the cells at each block address, None when not allocated
  open,    \* the statement whose operand is being evaluated, or None
  ret      \* the value of the expression just evaluated, or None

vars == <<slot, struct, block, open, ret>>

-----------------------------------------------------------------------------
(* malloc, realloc and memory. *)

Unused == {p \in Structs : struct[p] = None}
Free   == {b \in Blocks : block[b] = None}

Larger(a, b) == IF a > b THEN a ELSE b
Lower(a, b)  == IF a < b THEN a ELSE b

Cell(b, i) ==
  IF block[b] = None THEN Garbage
  ELSE IF i \in DOMAIN block[b] THEN block[b][i] ELSE Garbage

(* size cells, of which those in `from` are copied. *)
Cells(size, from) ==
  [i \in 0 .. size - 1 |-> IF i < Len(from) THEN from[i + 1] ELSE Garbage]

(* n cells of a block, from number a on. *)
Copy(b, a, n) == [i \in 1 .. n |-> Cell(b, a + i - 1)]

Lists == {p \in Structs : struct[p] # None}

(* The bounds leave room for a list to become n elements longer.            *)
Room(len, n) ==
  /\ len + n <= MaxLen
  /\ MapThenSumSet(LAMBDA p : struct[p].len, Lists) + n <= MaxTotal

(* A new list in x: its block has at least one cell, its capacity is its    *)
(* length.                                                                  *)
Build(x, s) ==
  /\ Room(0, Len(s))
  /\ \E p \in Unused, b \in Free :
       /\ slot' = [slot EXCEPT ![x] = p]
       /\ struct' = [struct EXCEPT ![p] = [len |-> Len(s), cap |-> Len(s), data |-> b]]
       /\ block' = [block EXCEPT ![b] = Cells(Larger(Len(s), 1), s)]

(* The list at a struct, as a sequence. *)
Contents(p) == Copy(struct[p].data, 0, struct[p].len)

-----------------------------------------------------------------------------
(* lower_list_append: the store after the capacity test. *)

NewCap(cap) == Larger(2 * cap, 4)

InPlace(p) == struct[p].len < struct[p].cap

(* realloc moves the block to b, or leaves it where it is. *)
Moved_MutantStaleData(p, b, v) ==
  LET s == struct[p]
  IN  /\ struct' = [struct EXCEPT ![p] =
                      [len |-> s.len + 1, cap |-> NewCap(s.cap), data |-> s.data]]
      /\ block' = [[block EXCEPT ![s.data] = None] EXCEPT ![b] =
                     Cells(NewCap(s.cap), Append(Contents(p), v))]

Moved(p, b, v) ==
  LET s == struct[p]
  IN  /\ struct' = [struct EXCEPT ![p] =
                      [len |-> s.len + 1, cap |-> NewCap(s.cap), data |-> b]]
      /\ block' = [[block EXCEPT ![s.data] = None] EXCEPT ![b] =
                     Cells(NewCap(s.cap), Append(Contents(p), v))]

Push_MutantStoresPastEnd(p, v) ==
  /\ Room(struct[p].len, 1)
  /\ IF InPlace(p)
     THEN /\ struct' = [struct EXCEPT ![p].len = @ + 1]
          /\ block' = [block EXCEPT ![struct[p].data][struct[p].len + 1] = v]
     ELSE \E b \in Free \cup {struct[p].data} : Moved(p, b, v)

Push(p, v) ==
  /\ Room(struct[p].len, 1)
  /\ IF InPlace(p)
     THEN /\ struct' = [struct EXCEPT ![p].len = @ + 1]
          /\ block' = [block EXCEPT ![struct[p].data][struct[p].len] = v]
     ELSE \E b \in Free \cup {struct[p].data} : Moved(p, b, v)

-----------------------------------------------------------------------------
Init ==
  /\ slot = [x \in Names |-> None]
  /\ struct = [p \in Structs |-> None]
  /\ block = [b \in Blocks |-> None]
  /\ open = None
  /\ ret = None

Literal(x, s) ==
  /\ open = None
  /\ Build(x, s)
  /\ ret' = None
  /\ UNCHANGED open

Alias_MutantCopiesData(x, y) ==
  /\ open = None /\ slot[y] # None
  /\ slot' = [slot EXCEPT ![x] = struct[slot[y]].data]
  /\ ret' = None
  /\ UNCHANGED <<struct, block, open>>

(* y's pointer is copied, not its list. *)
Alias(x, y) ==
  /\ open = None /\ slot[y] # None
  /\ slot' = [slot EXCEPT ![x] = slot[y]]
  /\ ret' = None
  /\ UNCHANGED <<struct, block, open>>

Length(x) ==
  /\ open = None /\ slot[x] # None
  /\ ret' = struct[slot[x]].len
  /\ UNCHANGED <<slot, struct, block, open>>

(* What is loaded before the operand runs: the struct's address, and        *)
(* nothing else ...                                                         *)
Begin(op, x) ==
  /\ open = None /\ slot[x] # None
  /\ open' = [op |-> op, list |-> slot[x]]
  /\ ret' = None
  /\ UNCHANGED <<slot, struct, block>>

(* ... but the subscript of an item assignment, whose value comes after it, *)
Index(s, p) == IF s = Last THEN struct[p].len - 1 ELSE s

BeginStore(x, s) ==
  /\ open = None /\ slot[x] # None
  /\ open' = [op |-> "store", list |-> slot[x], sub |-> s, at |-> Index(s, slot[x])]
  /\ ret' = None
  /\ UNCHANGED <<slot, struct, block>>

(* ... and the length and the data pointer of a slice. *)
BeginSlice(x) ==
  /\ open = None /\ slot[x] # None
  /\ open' = [op |-> "slice", list |-> slot[x],
              len |-> struct[slot[x]].len, data |-> struct[slot[x]].data]
  /\ ret' = None
  /\ UNCHANGED <<slot, struct, block>>

Callee(x, v) ==
  /\ open # None /\ (open.op = "slice" => SliceCalls) /\ slot[x] # None
  /\ Push(slot[x], v)
  /\ ret' = None
  /\ UNCHANGED <<slot, open>>

EndAppend(v) ==
  /\ open # None /\ open.op = "append"
  /\ Push(open.list, v)
  /\ open' = None
  /\ ret' = None
  /\ UNCHANGED slot

(* An index outside the list is undefined behaviour (slice-v0.29): only     *)
(* programs that stay inside are modelled.                                  *)
EndStore(v) ==
  /\ open # None /\ open.op = "store"
  /\ open.at \in 0 .. struct[open.list].len - 1
  /\ block' = [block EXCEPT ![struct[open.list].data][open.at] = v]
  /\ open' = None
  /\ ret' = None
  /\ UNCHANGED <<slot, struct>>

EndLoad(i) ==
  /\ open # None /\ open.op = "load"
  /\ i < struct[open.list].len
  /\ ret' = Cell(struct[open.list].data, i)
  /\ open' = None
  /\ UNCHANGED <<slot, struct, block>>

(* Both bounds are clamped to the length loaded by BeginSlice. *)
Clamp(i, len) == Lower(Larger(i, 0), len)

EndSlice_MutantSharesBlock(x, a, b) ==
  /\ open # None /\ open.op = "slice"
  /\ Room(0, open.len)
  /\ \E p \in Unused :
       /\ slot' = [slot EXCEPT ![x] = p]
       /\ struct' = [struct EXCEPT ![p] = struct[open.list]]
  /\ open' = None
  /\ ret' = None
  /\ UNCHANGED block

EndSlice(x, a, b) ==
  /\ open # None /\ open.op = "slice"
  /\ LET from == Clamp(a, open.len)
         n    == Larger(Clamp(b, open.len) - from, 0)
     IN  Build(x, Copy(open.data, from, n))
  /\ open' = None
  /\ ret' = None

EndConcat_MutantSwapped(x, z) ==
  /\ open # None /\ open.op = "concat" /\ slot[z] # None
  /\ Build(x, Contents(slot[z]) \o Contents(open.list))
  /\ open' = None
  /\ ret' = None

EndConcat(x, z) ==
  /\ open # None /\ open.op = "concat" /\ slot[z] # None
  /\ Build(x, Contents(open.list) \o Contents(slot[z]))
  /\ open' = None
  /\ ret' = None

Bounds == 0 .. MaxLen + 1

Next ==
  \/ \E x \in Names, s \in {<<>>} \cup {<<v>> : v \in Values} : Literal(x, s)
  \/ \E x, y \in Names : Alias(x, y)
  \/ \E x \in Names : Length(x)
  \/ \E x \in Names, op \in {"append", "load", "concat"} : Begin(op, x)
  \/ \E x \in Names : BeginSlice(x)
  \/ \E x \in Names, s \in Subscripts : BeginStore(x, s)
  \/ \E x \in Names, v \in Values : Callee(x, v)
  \/ \E v \in Values : EndAppend(v)
  \/ \E v \in Values : EndStore(v)
  \/ \E i \in Bounds : EndLoad(i)
  \/ \E x \in Names, a, b \in Bounds : EndSlice(x, a, b)
  \/ \E x, z \in Names : EndConcat(x, z)

Spec == Init /\ [][Next]_vars

-----------------------------------------------------------------------------
(* Properties. *)

(* Every variable has its type. *)
TypeOK ==
  /\ slot \in [Names -> Structs \cup {None}]
  /\ struct \in [Structs -> Header \cup {None}]
  /\ block = [b \in Blocks |-> block[b]]
  /\ \A b \in Blocks \ Free : IsBlock(block[b])
  /\ open \in Begun \cup {None}

(* A pointer in a slot, or in a statement under way, is a list's; a list's  *)
(* block is allocated and holds its capacity.                               *)
PointersLive ==
  /\ \A x \in Names : slot[x] # None => slot[x] \in Lists
  /\ open # None => open.list \in Lists
  /\ \A p \in Lists :
       /\ struct[p].data \notin Free
       /\ struct[p].len <= struct[p].cap
       /\ DOMAIN block[struct[p].data] = 0 .. Larger(struct[p].cap, 1) - 1

(* Two lists never share a block: a slice and a concatenation are copies,   *)
(* and realloc's block is nobody else's.                                    *)
SoleOwner ==
  \A p, q \in Lists : struct[p].data = struct[q].data => p = q

(* The cells below a list's length have been written. *)
NoGarbage ==
  \A p \in Lists : \A i \in DOMAIN Contents(p) : Contents(p)[i] # Garbage

(* What a slice will copy is still the list's: lower_list_slice loads the   *)
(* length and the data pointer before it evaluates the bounds, and its      *)
(* comment has the bounds clamped to len(lst).                              *)
SliceIsFresh ==
  (open # None /\ open.op = "slice") =>
    /\ open.len = struct[open.list].len
    /\ open.data = struct[open.list].data

(* The heap implements Python's lists: what a name shows through any alias, *)
(* after any appends, growths, slices and concatenations, is what Python    *)
(* shows, and an item assignment writes the item Python writes.             *)
Elems == [p \in Structs |-> IF struct[p] = None THEN None ELSE Contents(p)]

Statement ==
  IF open = None THEN None
  ELSE [op |-> open.op, list |-> open.list,
        sub |-> IF open.op = "store" THEN open.sub ELSE None]

Python == INSTANCE PyLists
  WITH Objects <- Structs, obj <- slot, elems <- Elems, open <- Statement

ImplementsPyLists == Python!Spec
=============================================================================
