------------------------------- MODULE PyDict -------------------------------
(***************************************************************************)
(* What a dict[int, int] (and, with Vals = {0}, a set[int]) promises to a  *)
(* compiled program: Python's mapping operations, each taking effect in    *)
(* one step between its call and its return.  The only departure from      *)
(* CPython is the one the HIR documents: reading a missing key yields the  *)
(* value type's zero instead of raising KeyError (hir.rs, DictGet).        *)
(***************************************************************************)
EXTENDS Integers, FiniteSets

CONSTANTS Keys, Vals

VARIABLES
  map,   \* the mapping: a function whose DOMAIN is the set of present keys
  call,  \* the operation in progress, or NoCall
  ret    \* what the last get / has / len returned

pyVars == <<map, call, ret>>

Call   == [op : {"insert"}, key : Keys, val : Vals]
            \cup [op : {"get", "has"}, key : Keys]
NoCall == [op |-> "none"]

(* Reading an absent key yields 0. *)
Get(m, k) == IF k \in DOMAIN m THEN m[k] ELSE 0

(* `k in m`, as the i1 the runtime returns. *)
Has(m, k) == IF k \in DOMAIN m THEN 1 ELSE 0

(* `m[k] = v` *)
Put(m, k, v) == [x \in DOMAIN m \cup {k} |-> IF x = k THEN v ELSE m[x]]

PyInit ==
  /\ map = [k \in {} |-> 0]
  /\ call = NoCall
  /\ ret = 0

Begin(c) ==
  /\ call = NoCall
  /\ call' = c
  /\ UNCHANGED <<map, ret>>

Insert ==
  /\ call.op = "insert"
  /\ map' = Put(map, call.key, call.val)
  /\ call' = NoCall
  /\ UNCHANGED ret

Find ==
  /\ call.op \in {"get", "has"}
  /\ ret' = IF call.op = "get" THEN Get(map, call.key) ELSE Has(map, call.key)
  /\ call' = NoCall
  /\ UNCHANGED map

Length ==
  /\ call = NoCall
  /\ ret' = Cardinality(DOMAIN map)
  /\ UNCHANGED <<map, call>>

PyNext == \/ \E c \in Call : Begin(c)
          \/ Insert
          \/ Find
          \/ Length

PySpec == PyInit /\ [][PyNext]_pyVars
=============================================================================
