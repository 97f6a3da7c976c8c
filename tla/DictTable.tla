----------------------------- MODULE DictTable -----------------------------
(***************************************************************************)
(* The hash table behind dict[int, int] and set[int] in every compiled     *)
(* program: the LLVM functions pyx86_dict_i64_lookup / _grow / _insert /   *)
(* _has that codegen.rs emits, and the lowering of dict and set literals.  *)
(* Open addressing, linear probing; the table doubles when an insert finds *)
(* it at 75% load, and the doubling re-inserts every old entry by calling  *)
(* insert again.                                                           *)
(*                                                                         *)
(* One action is one turn of one of the loops (a probe, a slot of the grow *)
(* scan, a doubling of the literal's capacity) or one function entry.  The *)
(* compiler emits `key & (cap - 1)`; for a capacity that is a power of two *)
(* this is k % cap on two's complement keys, negative ones included.  A    *)
(* set is a dict whose values are all 0.  Arithmetic on size and cap is on  *)
(* values far below 2^63 and is not wrapped; malloc does not fail.         *)
(***************************************************************************)
EXTENDS Integers, Sequences, FiniteSets

CONSTANTS
  Keys,       \* the i64 keys the program uses
  Vals,       \* the i64 values it stores
  Empty,      \* a slot whose occupied word is 0
  MaxEntries  \* bound: number of entries of the literal

Entry == [key : Keys, val : Vals]
Slot  == Entry \cup {Empty}

ASSUME KeysAssumption  == Keys \subseteq Int
ASSUME ValsAssumption  == Vals \subseteq Int
ASSUME EmptyAssumption == Empty \notin Entry
ASSUME MaxEntriesAssumption == MaxEntries \in Nat

VARIABLES
  size,   \* table.size: number of occupied slots
  cap,    \* table.cap
  slots,  \* table.slots: index -> Empty or an entry
  todo,   \* entries of the literal still to be inserted
  pc,     \* where the running runtime function is
  req,    \* the operation the program is waiting for, or NoCall
  i,      \* %i.addr: the probe cursor (0 outside a probe loop)
  old,    \* %old_slots while growing
  gi,     \* %g.i.addr: the cursor of the grow scan
  res     \* the value last returned by lookup / has / len

table == <<size, cap, slots>>
grow  == <<old, gi>>
vars  == <<table, todo, pc, req, i, grow, res>>

Call   == [op : {"insert"}, key : Keys, val : Vals]
            \cup [op : {"get", "has"}, key : Keys]
NoCall == [op |-> "none"]
NoSlots == [j \in {} |-> Empty]

-----------------------------------------------------------------------------
(* The arithmetic of the table.  (A definition named ..._Mutant... is never *)
(* used: it is the slip that the property beside it in the README detects.) *)

NeedsGrow_MutantLate(n, c) == 4 * n > 3 * c
NeedsGrow(n, c) == 4 * n >= 3 * c

GrownCap_MutantSame(c) == c
GrownCap(c) == 2 * c

Home(k, c) == k % c

NextSlot_MutantNoWrap(j, c) == j + 1
NextSlot(j, c) == (j + 1) % c

Blank(c) == [j \in 0 .. c - 1 |-> Empty]

(* A probe for key k moves on from slot s. *)
Blocks(s, k) == s # Empty /\ s.key # k

(* The number of slots a literal of n entries asks for. *)
Want(n) == IF 2 * n < 4 THEN 4 ELSE 2 * n

(* do_insert and do_overwrite: the probe stops at slot i and e goes there. *)
Write_MutantCountsOverwrite(e) ==
  /\ ~ Blocks(slots[i], e.key)
  /\ slots' = [slots EXCEPT ![i] = e]
  /\ size' = size + 1
  /\ UNCHANGED cap

Write_MutantKeepsOldValue(e) ==
  /\ ~ Blocks(slots[i], e.key)
  /\ slots' = IF slots[i] = Empty THEN [slots EXCEPT ![i] = e] ELSE slots
  /\ size' = IF slots[i] = Empty THEN size + 1 ELSE size
  /\ UNCHANGED cap

Write(e) ==
  /\ ~ Blocks(slots[i], e.key)
  /\ slots' = [slots EXCEPT ![i] = e]
  /\ size' = IF slots[i] = Empty THEN size + 1 ELSE size
  /\ UNCHANGED cap

(* The `next` block of each probe loop. *)
StepPast_MutantNoStore(k) ==
  /\ Blocks(slots[i], k)
  /\ i' = i

StepPast(k) ==
  /\ Blocks(slots[i], k)
  /\ i' = NextSlot(i, cap)

-----------------------------------------------------------------------------
(* A literal `{k: v, ...}`: the compiler picks the capacity, the program    *)
(* allocates zeroed slots and inserts the entries in order.                 *)

Literals == UNION {[1 .. n -> Entry] : n \in 0 .. MaxEntries}

Init ==
  /\ todo \in Literals
  /\ size = 0
  /\ cap = 4
  /\ slots = NoSlots
  /\ pc = "sizing"
  /\ req = NoCall
  /\ i = 0
  /\ old = NoSlots
  /\ gi = 0
  /\ res = 0

WidenLiteral ==
  /\ pc = "sizing"
  /\ cap < Want(Len(todo))
  /\ cap' = 2 * cap
  /\ UNCHANGED <<size, slots, todo, pc, req, i, grow, res>>

AllocLiteral ==
  /\ pc = "sizing"
  /\ cap >= Want(Len(todo))
  /\ slots' = Blank(cap)
  /\ pc' = "idle"
  /\ UNCHANGED <<size, cap, todo, req, i, grow, res>>

InsertEntry ==
  /\ pc = "idle"
  /\ todo # <<>>
  /\ req' = [op |-> "insert", key |-> Head(todo).key, val |-> Head(todo).val]
  /\ pc' = "enter"
  /\ UNCHANGED <<table, todo, i, grow, res>>

-----------------------------------------------------------------------------
(* The operations a program performs on the finished dict. *)

(* d[k] = v, s.add(k) *)
CallInsert(k, v) ==
  /\ pc = "idle"
  /\ todo = <<>>
  /\ req' = [op |-> "insert", key |-> k, val |-> v]
  /\ pc' = "enter"
  /\ UNCHANGED <<table, todo, i, grow, res>>

(* d[k] and k in d: entry block of lookup / has *)
CallFind(o, k) ==
  /\ pc = "idle"
  /\ todo = <<>>
  /\ req' = [op |-> o, key |-> k]
  /\ i' = Home(k, cap)
  /\ pc' = "find"
  /\ UNCHANGED <<table, todo, grow, res>>

(* len(d): a load of the size word *)
CallLen ==
  /\ pc = "idle"
  /\ todo = <<>>
  /\ res' = size
  /\ UNCHANGED <<table, todo, pc, req, i, grow>>

-----------------------------------------------------------------------------
(* pyx86_dict_i64_lookup and pyx86_dict_i64_has. *)

FindNext ==
  /\ pc = "find"
  /\ StepPast(req.key)
  /\ UNCHANGED <<table, todo, pc, req, grow, res>>

FindReturn ==
  /\ pc = "find"
  /\ ~ Blocks(slots[i], req.key)
  /\ res' = IF slots[i] = Empty THEN 0
            ELSE IF req.op = "get" THEN slots[i].val ELSE 1
  /\ pc' = "idle"
  /\ req' = NoCall
  /\ i' = 0
  /\ UNCHANGED <<table, todo, grow>>

-----------------------------------------------------------------------------
(* pyx86_dict_i64_insert, called by the program. *)

(* entry, below the load factor: on to probe_init *)
InsertEnter ==
  /\ pc = "enter"
  /\ ~ NeedsGrow(size, cap)
  /\ i' = Home(req.key, cap)
  /\ pc' = "probe"
  /\ UNCHANGED <<table, todo, req, grow, res>>

(* do_grow: entry block of pyx86_dict_i64_grow *)
GrowEnter ==
  /\ pc = "enter"
  /\ NeedsGrow(size, cap)
  /\ old' = slots
  /\ gi' = 0
  /\ cap' = GrownCap(cap)
  /\ slots' = Blank(cap')
  /\ size' = 0
  /\ pc' = "grow"
  /\ UNCHANGED <<todo, req, i, res>>

InsertNext ==
  /\ pc = "probe"
  /\ StepPast(req.key)
  /\ UNCHANGED <<table, todo, pc, req, grow, res>>

InsertWrite ==
  /\ pc = "probe"
  /\ Write([key |-> req.key, val |-> req.val])
  /\ todo' = IF todo = <<>> THEN todo ELSE Tail(todo)
  /\ pc' = "idle"
  /\ req' = NoCall
  /\ i' = 0
  /\ UNCHANGED <<grow, res>>

-----------------------------------------------------------------------------
(* The scan of pyx86_dict_i64_grow and its recursive calls of insert. *)

GrowSkip ==
  /\ pc = "grow"
  /\ gi \in DOMAIN old
  /\ old[gi] = Empty
  /\ gi' = gi + 1
  /\ UNCHANGED <<table, todo, pc, req, i, old, res>>

GrowReinsert ==
  /\ pc = "grow"
  /\ gi \in DOMAIN old
  /\ old[gi] # Empty
  /\ pc' = "re_enter"
  /\ UNCHANGED <<table, todo, req, i, grow, res>>

(* g_ret, and probe_init of the insert that asked for the growth *)
GrowReturn ==
  /\ pc = "grow"
  /\ gi \notin DOMAIN old
  /\ old' = NoSlots
  /\ gi' = 0
  /\ i' = Home(req.key, cap)
  /\ pc' = "probe"
  /\ UNCHANGED <<table, todo, req, res>>

(* A re-insertion that found the new table too full would grow it again     *)
(* from inside the growth.  The model stops there: NoNestedGrowth shows     *)
(* that "re_grow" is never reached.                                         *)
ReinsertEnter_MutantOldMask ==
  /\ pc = "re_enter"
  /\ pc' = IF NeedsGrow(size, cap) THEN "re_grow" ELSE "re_probe"
  /\ i' = Home(old[gi].key, Cardinality(DOMAIN old))
  /\ UNCHANGED <<table, todo, req, grow, res>>

ReinsertEnter ==
  /\ pc = "re_enter"
  /\ pc' = IF NeedsGrow(size, cap) THEN "re_grow" ELSE "re_probe"
  /\ i' = Home(old[gi].key, cap)
  /\ UNCHANGED <<table, todo, req, grow, res>>

ReinsertNext ==
  /\ pc = "re_probe"
  /\ StepPast(old[gi].key)
  /\ UNCHANGED <<table, todo, pc, req, grow, res>>

ReinsertWrite ==
  /\ pc = "re_probe"
  /\ Write(old[gi])
  /\ gi' = gi + 1
  /\ pc' = "grow"
  /\ i' = 0
  /\ UNCHANGED <<todo, req, old, res>>

-----------------------------------------------------------------------------
Literal == WidenLiteral \/ AllocLiteral \/ InsertEntry

Program == \/ \E k \in Keys, v \in Vals : CallInsert(k, v)
           \/ \E o \in {"get", "has"}, k \in Keys : CallFind(o, k)
           \/ CallLen

Runtime == \/ FindNext \/ FindReturn
           \/ InsertEnter \/ GrowEnter \/ InsertNext \/ InsertWrite
           \/ GrowSkip \/ GrowReinsert \/ GrowReturn
           \/ ReinsertEnter \/ ReinsertNext \/ ReinsertWrite

Next == Literal \/ Program \/ Runtime

(* The program is one thread: whatever it is executing runs on.  It need    *)
(* not ever perform another operation, so Program gets no fairness.         *)
Fairness == WF_vars(Literal) /\ WF_vars(Runtime)

Spec == Init /\ [][Next]_vars /\ Fairness

-----------------------------------------------------------------------------
(* What the table holds: during a growth, the entries already moved and the *)
(* ones still ahead of the scan.                                            *)

Live(s) == {s[j] : j \in {n \in DOMAIN s : s[n] # Empty}}
Pending == {old[j] : j \in {n \in DOMAIN old : n >= gi /\ old[n] # Empty}}
Held    == Live(slots) \cup Pending

Content == [k \in {e.key : e \in Held} |->
              (CHOOSE e \in Held : e.key = k).val]

Occupied(s) == {j \in DOMAIN s : s[j] # Empty}

-----------------------------------------------------------------------------
(* Properties. *)

Growing == pc \in {"grow", "re_enter", "re_probe", "re_grow"}

(* Every variable has its type; the probe cursor stays inside the table it  *)
(* is probing and the grow scan inside the old one.                         *)
TypeOK ==
  /\ cap \in Nat \ {0}
  /\ size \in Nat
  /\ slots \in [(IF pc = "sizing" THEN {} ELSE 0 .. cap - 1) -> Slot]
  /\ todo \in Seq(Entry)
  /\ pc \in {"sizing", "idle", "find", "enter", "probe",
            "grow", "re_enter", "re_probe", "re_grow"}
  /\ req \in Call \cup {NoCall}
  /\ i \in 0 .. cap - 1
  /\ gi \in Nat
  /\ \E n \in 0 .. cap : old \in [0 .. n - 1 -> Slot] /\ gi <= n
  /\ res \in Vals \cup Nat

(* The probe loops of lookup, has and insert have no bound of their own:    *)
(* they stop because some slot is empty.  The check `4*size >= 3*cap` runs  *)
(* before the probe, so the table never fills, not even in the middle of a  *)
(* growth.                                                                  *)
FreeSlot == pc # "sizing" => \E j \in DOMAIN slots : slots[j] = Empty

(* The size word, which len() returns and the load check reads, counts the  *)
(* occupied slots at every point between two stores, growth included.       *)
SizeCounts == size = Cardinality(Occupied(slots))

(* grow re-inserts through insert, which may grow again: it never does,     *)
(* because a table that has just doubled is at most half full               *)
(* (slice-v0.28-dict-mut.md, "The recursion terminates because ...").       *)
NoNestedGrowth == pc # "re_grow"

(* A key is found by walking from its home: every slot from there to its    *)
(* entry is occupied, and by other keys, so no key is held twice.  There is *)
(* no deletion that could break the walk; growth must rebuild it.           *)
Between(a, b, c) == IF a <= b THEN a .. b - 1 ELSE (a .. c - 1) \cup (0 .. b - 1)

Reachable ==
  \A j \in Occupied(slots) :
    \A n \in Between(Home(slots[j].key, cap), j, cap) :
      Blocks(slots[n], slots[j].key)

(* Behind the probing and the moving, a Python mapping: each operation      *)
(* takes effect at once, returns what it must, and a growth changes no      *)
(* content.                                                                 *)
Python == INSTANCE PyDict WITH map <- Content, call <- req, ret <- res
ImplementsPyDict == Python!PySpec

(* Every operation returns: no probe loop and no growth runs for ever.      *)
EveryCallReturns == (pc # "idle") ~> (pc = "idle")
=============================================================================
