--------------------------- MODULE ListHeapProofs ---------------------------
(***************************************************************************)
(* The lists' heap is sound for any names, values and addresses: no        *)
(* statement follows a pointer to a struct or block that is not there, no  *)
(* two lists share a block, whichever block realloc moves to.              *)
(***************************************************************************)
EXTENDS ListHeap, SequenceTheorems, TLAPS

(* A list's block is allocated and holds its capacity. *)
Backed(p) ==
  /\ struct[p].data \notin Free
  /\ struct[p].len <= struct[p].cap
  /\ DOMAIN block[struct[p].data] = 0 .. Larger(struct[p].cap, 1) - 1

HeapOK ==
  /\ struct \in [Structs -> Header \cup {None}]
  /\ block = [b \in Blocks |-> block[b]]
  /\ \A b \in Blocks \ Free : IsBlock(block[b])
  /\ \A p \in Lists : Backed(p)
  /\ SoleOwner

NamesOK ==
  /\ slot \in [Names -> Structs \cup {None}]
  /\ \A x \in Names : slot[x] # None => slot[x] \in Lists

OpenOK ==
  /\ open \in Begun \cup {None}
  /\ open # None =>
       /\ open.list \in Lists
       /\ open.op = "store" /\ open.sub # Last => open.at = open.sub

Written ==
  ~ SliceCalls => /\ \A p \in Lists : Contents(p) \in Seq(Values)
                  /\ SliceIsFresh

IInv == HeapOK /\ NamesOK /\ OpenOK /\ Written

-----------------------------------------------------------------------------
LEMMA ListHeader ==
  ASSUME HeapOK, NEW p \in Lists
  PROVE  /\ p \in Structs /\ struct[p] \in Header
         /\ struct[p].len \in 0 .. MaxLen /\ struct[p].cap \in 0 .. MaxCells
         /\ struct[p].data \in Blocks /\ struct[p].data \notin Free
         /\ struct[p].len <= struct[p].cap
<1>1. p \in Structs /\ struct[p] \in Header
  BY DEF HeapOK, Lists
<1>2. QED  BY <1>1 DEF HeapOK, Header, Backed

LEMMA BlockCells ==
  ASSUME HeapOK, NEW b \in Blocks \ Free
  PROVE  block[b] \in [DOMAIN block[b] -> Contained]
BY DEF HeapOK, IsBlock

LEMMA CellContained ==
  ASSUME HeapOK, NEW b \in Blocks, NEW i
  PROVE  Cell(b, i) \in Contained
<1>1. CASE block[b] = None
  BY <1>1 DEF Cell, Contained
<1>2. CASE block[b] # None
  <2>1. b \in Blocks \ Free
    BY <1>2 DEF Free
  <2>2. QED  BY <1>2, <2>1, BlockCells DEF Cell, Contained
<1>3. QED  BY <1>1, <1>2

LEMMA CopyIs ==
  ASSUME HeapOK, NEW b \in Blocks, NEW a \in Nat, NEW n \in Nat
  PROVE  /\ Copy(b, a, n) \in Seq(Contained)
         /\ Copy(b, a, n) \in [1 .. n -> Contained]
         /\ Len(Copy(b, a, n)) = n
         /\ \A i \in 1 .. n : Copy(b, a, n)[i] = Cell(b, a + i - 1)
<1>1. Copy(b, a, n) \in [1 .. n -> Contained]
  BY CellContained DEF Copy
<1>2. Copy(b, a, n) \in Seq(Contained) /\ Len(Copy(b, a, n)) = n
  BY <1>1
<1>3. QED  BY <1>1, <1>2 DEF Copy

(* The list at p, cell by cell. *)
LEMMA ContentsIs ==
  ASSUME HeapOK, NEW p \in Lists
  PROVE  /\ Contents(p) \in Seq(Contained)
         /\ Contents(p) \in [1 .. struct[p].len -> Contained]
         /\ Len(Contents(p)) = struct[p].len
         /\ \A i \in 1 .. struct[p].len :
              Contents(p)[i] = block[struct[p].data][i - 1]
<1>1. struct[p].len \in Nat /\ struct[p].data \in Blocks
  BY ListHeader
<1>2. /\ Contents(p) \in Seq(Contained)
      /\ Contents(p) \in [1 .. struct[p].len -> Contained]
      /\ Len(Contents(p)) = struct[p].len
      /\ \A i \in 1 .. struct[p].len : Contents(p)[i] = Cell(struct[p].data, 0 + i - 1)
  BY <1>1, CopyIs DEF Contents
<1>3. ASSUME NEW i \in 1 .. struct[p].len
      PROVE  Cell(struct[p].data, 0 + i - 1) = block[struct[p].data][i - 1]
  <2>1. i - 1 \in DOMAIN block[struct[p].data]
    <3>1. DOMAIN block[struct[p].data] = 0 .. Larger(struct[p].cap, 1) - 1
      BY DEF HeapOK, Backed
    <3>2. struct[p].len <= struct[p].cap /\ struct[p].cap \in Nat
      BY ListHeader
    <3>3. QED  BY <1>1, <3>1, <3>2 DEF Larger
  <2>2. block[struct[p].data] # None
    BY ListHeader DEF Free
  <2>3. QED  BY <1>1, <2>1, <2>2 DEF Cell
<1>4. QED  BY <1>2, <1>3

LEMMA CellsIs ==
  ASSUME NEW n \in 1 .. MaxCells, NEW s \in Seq(Contained)
  PROVE  /\ Cells(n, s) \in [0 .. n - 1 -> Contained]
         /\ IsBlock(Cells(n, s))
         /\ Cells(n, s) # None
         /\ \A i \in 1 .. Len(s) : i <= n => Cells(n, s)[i - 1] = s[i]
<1>1. ASSUME NEW i \in 0 .. n - 1
      PROVE  (IF i < Len(s) THEN s[i + 1] ELSE Garbage) \in Contained
  <2>1. CASE i < Len(s)
    <3>1. i + 1 \in 1 .. Len(s)
      BY <2>1
    <3>2. QED  BY <2>1, <3>1, ElementOfSeq
  <2>2. CASE ~ (i < Len(s))
    BY <2>2 DEF Contained
  <2>3. QED  BY <2>1, <2>2
<1>2. Cells(n, s) \in [0 .. n - 1 -> Contained]
  BY <1>1 DEF Cells
<1>3. IsBlock(Cells(n, s)) /\ Cells(n, s) # None
  BY <1>2, NoneAssumption DEF IsBlock
<1>4. ASSUME NEW i \in 1 .. Len(s), i <= n
      PROVE  Cells(n, s)[i - 1] = s[i]
  <2>1. i - 1 \in 0 .. n - 1 /\ i - 1 < Len(s) /\ i - 1 + 1 = i
    BY <1>4
  <2>2. QED  BY <2>1 DEF Cells
<1>5. QED  BY <1>2, <1>3, <1>4

(* As a predicate, to have it of the next state too.                        *)
ContentsOf(p) ==
  /\ Contents(p) \in Seq(Contained)
  /\ Contents(p) \in [1 .. struct[p].len -> Contained]
  /\ Len(Contents(p)) = struct[p].len
  /\ \A i \in 1 .. struct[p].len :
       Contents(p)[i] = block[struct[p].data][i - 1]

LEMMA ContentsNow == HeapOK => \A p \in Lists : ContentsOf(p)
BY ContentsIs DEF ContentsOf

LEMMA ContentsNext == HeapOK' => (\A p \in Lists : ContentsOf(p))'
BY ContentsNow, PTL

LEMMA ListHeaderNext ==
  HeapOK' => (\A p \in Lists : struct[p].len \in 0 .. MaxLen)'
<1>1. HeapOK => \A p \in Lists : struct[p].len \in 0 .. MaxLen
  BY ListHeader
<1>2. QED  BY <1>1, PTL

-----------------------------------------------------------------------------
(* A literal, a slice or a concatenation.                                   *)
LEMMA BuildKeeps ==
  ASSUME HeapOK, NEW x \in Names, NEW s \in Seq(Contained), Build(x, s)
  PROVE  \E p \in Unused :
           /\ slot' = [slot EXCEPT ![x] = p]
           /\ HeapOK'
           /\ Lists' = Lists \cup {p}
           /\ Contents(p)' = s
           /\ \A q \in Lists : struct'[q] = struct[q] /\ Contents(q)' = Contents(q)
<1> DEFINE n == Len(s)
           m == Larger(n, 1)
           h(b) == [len |-> n, cap |-> n, data |-> b]
<1>1. PICK p \in Unused, b \in Free :
        /\ slot' = [slot EXCEPT ![x] = p]
        /\ struct' = [struct EXCEPT ![p] = h(b)]
        /\ block' = [block EXCEPT ![b] = Cells(m, s)]
  BY DEF Build
<1>2. p \in Structs /\ struct[p] = None /\ p \notin Lists /\ b \in Blocks
  BY DEF Unused, Free, Lists
<1>3. n \in 0 .. MaxLen /\ m \in 1 .. MaxCells /\ n <= m
  BY BoundsAssumption DEF Build, Room, Larger, MaxCells
<1>4. h(b) \in Header /\ h(b) # None
  <2>1. n \in 0 .. MaxCells
    BY <1>3, BoundsAssumption DEF MaxCells
  <2>2. QED  BY <1>2, <1>3, <2>1, NoneAssumption DEF Header
<1> DEFINE C == Cells(m, s)
<1>5. /\ C \in [0 .. m - 1 -> Contained] /\ IsBlock(C) /\ C # None
      /\ \A i \in 1 .. n : C[i - 1] = s[i]
  BY <1>3, CellsIs
<1> HIDE DEF h, C, m, n
<1>6. /\ struct' \in [Structs -> Header \cup {None}]
      /\ struct'[p] = h(b) /\ \A q \in Structs \ {p} : struct'[q] = struct[q]
  BY <1>1, <1>2, <1>4 DEF HeapOK
<1>7. Lists' = Lists \cup {p} /\ \A q \in Lists : struct'[q] = struct[q]
  BY <1>2, <1>4, <1>6 DEF Lists
<1>8. block' = [block EXCEPT ![b] = C]
  BY <1>1 DEF C
<1>9. /\ block' = [c \in Blocks |-> block'[c]]
      /\ block'[b] = C
      /\ \A c \in Blocks \ {b} : block'[c] = block[c]
  <2>1. block = [c \in Blocks |-> block[c]]
    BY DEF HeapOK
  <2>2. QED  BY <1>2, <1>8, <2>1
<1>10. Free' = Free \ {b}
  BY <1>2, <1>5, <1>9 DEF Free
<1>11. \A c \in Blocks \ Free' : IsBlock(block'[c])
  BY <1>5, <1>9, <1>10 DEF HeapOK
<1>12. h(b).len = n /\ h(b).cap = n /\ h(b).data = b
  BY DEF h
<1>13. \A q \in Lists : struct[q].data \in Blocks \ {b}
  BY ListHeader
<1>14. ASSUME NEW q \in Lists'
       PROVE  Backed(q)'
  <2>1. CASE q = p
    <3>1. DOMAIN C = 0 .. m - 1 /\ m = Larger(n, 1)
      BY <1>5 DEF m
    <3>2. QED  BY <1>3, <1>6, <1>9, <1>10, <1>12, <2>1, <3>1 DEF Backed
  <2>2. CASE q \in Lists
    <3>1. Backed(q)
      BY <2>2 DEF HeapOK
    <3>2. struct'[q] = struct[q] /\ block'[struct[q].data] = block[struct[q].data]
      BY <1>7, <1>9, <1>13, <2>2
    <3>3. QED  BY <1>10, <3>1, <3>2 DEF Backed
  <2>3. QED  BY <1>7, <2>1, <2>2
<1>15. SoleOwner'
  BY <1>6, <1>7, <1>12, <1>13 DEF SoleOwner, HeapOK
<1>16. HeapOK'
  BY <1>6, <1>9, <1>11, <1>14, <1>15 DEF HeapOK
<1>17. Contents(p)' = s
  <2>1. ContentsOf(p)'
    BY <1>7, <1>16, ContentsNext
  <2>2. /\ Contents(p)' \in Seq(Contained) /\ Len(Contents(p)') = n
        /\ \A i \in 1 .. n : Contents(p)'[i] = C[i - 1]
    BY <1>6, <1>9, <1>12, <2>1 DEF ContentsOf
  <2>3. n = Len(s)
    BY DEF n
  <2>4. QED  BY <1>5, <2>2, <2>3, SeqEqual
<1>18. ASSUME NEW q \in Lists
       PROVE  Contents(q)' = Contents(q)
  BY <1>7, <1>9, <1>13 DEF Contents, Copy, Cell
<1>19. QED  BY <1>1, <1>7, <1>16, <1>17, <1>18

(* A store into a cell of a block that is there.                            *)
LEMMA WriteCell ==
  ASSUME HeapOK, NEW b \in Blocks \ Free, NEW i \in DOMAIN block[b], NEW v \in Values,
         block' = [block EXCEPT ![b][i] = v]
  PROVE  /\ block' = [c \in Blocks |-> block'[c]]
         /\ Free' = Free
         /\ \A c \in Blocks \ Free : IsBlock(block'[c])
         /\ \A c \in Blocks : DOMAIN block'[c] = DOMAIN block[c]
         /\ \A c \in Blocks \ {b} : block'[c] = block[c]
         /\ block'[b][i] = v
         /\ \A j \in DOMAIN block[b] \ {i} : block'[b][j] = block[b][j]
<1>1. PICK n \in 1 .. MaxCells : block[b] \in [0 .. n - 1 -> Contained]
  BY DEF HeapOK, IsBlock
<1>2. block = [c \in Blocks |-> block[c]]
  BY DEF HeapOK
<1>3. /\ block' = [c \in Blocks |-> block'[c]]
      /\ \A c \in Blocks \ {b} : block'[c] = block[c]
      /\ block'[b] = [block[b] EXCEPT ![i] = v]
  BY <1>2
<1>4. block'[b] \in [0 .. n - 1 -> Contained]
  BY <1>1, <1>3 DEF Contained
<1>5. IsBlock(block'[b])
  BY <1>4 DEF IsBlock
<1>6. block'[b] # None
  BY <1>5, NoneAssumption
<1>7. Free' = Free
  BY <1>3, <1>6 DEF Free
<1>8. \A c \in Blocks \ Free : IsBlock(block'[c])
  BY <1>3, <1>5 DEF HeapOK
<1>9. /\ DOMAIN block'[b] = DOMAIN block[b]
      /\ block'[b][i] = v
      /\ \A j \in DOMAIN block[b] \ {i} : block'[b][j] = block[b][j]
  BY <1>1, <1>3
<1>10. \A c \in Blocks : DOMAIN block'[c] = DOMAIN block[c]
  BY <1>3, <1>9
<1>11. QED  BY <1>3, <1>7, <1>8, <1>9, <1>10

LEMMA StoreKeeps ==
  ASSUME HeapOK, NEW p \in Lists, NEW i \in 0 .. struct[p].len - 1, NEW v \in Values,
         block' = [block EXCEPT ![struct[p].data][i] = v], struct' = struct
  PROVE  /\ HeapOK'
         /\ Lists' = Lists
         /\ Contents(p)' = [Contents(p) EXCEPT ![i + 1] = v]
         /\ \A q \in Lists \ {p} : Contents(q)' = Contents(q)
<1> DEFINE d == struct[p].data
<1>1. /\ d \in Blocks \ Free /\ DOMAIN block[d] = 0 .. Larger(struct[p].cap, 1) - 1
      /\ struct[p].len \in Nat /\ struct[p].cap \in Nat
      /\ struct[p].len <= struct[p].cap
  BY ListHeader DEF HeapOK, Backed
<1>2. 0 .. struct[p].len - 1 \subseteq DOMAIN block[d]
  BY <1>1 DEF Larger
<1>3. /\ block' = [c \in Blocks |-> block'[c]]
      /\ Free' = Free
      /\ \A c \in Blocks \ Free : IsBlock(block'[c])
      /\ \A c \in Blocks : DOMAIN block'[c] = DOMAIN block[c]
      /\ \A c \in Blocks \ {d} : block'[c] = block[c]
      /\ block'[d][i] = v
      /\ \A j \in DOMAIN block[d] \ {i} : block'[d][j] = block[d][j]
  BY <1>1, <1>2, WriteCell
<1>4. Lists' = Lists
  BY DEF Lists
<1>5. \A q \in Lists : struct[q].data \in Blocks
  BY ListHeader
<1>6. ASSUME NEW q \in Lists
      PROVE  Backed(q)'
  <2>1. Backed(q)
    BY DEF HeapOK
  <2>2. QED  BY <1>3, <1>5, <2>1 DEF Backed
<1>7. SoleOwner'
  BY <1>4 DEF HeapOK, SoleOwner
<1>8. HeapOK'
  BY <1>3, <1>4, <1>6, <1>7 DEF HeapOK
<1>9. Contents(p)' = [Contents(p) EXCEPT ![i + 1] = v]
  <2>1. /\ Contents(p) \in [1 .. struct[p].len -> Contained]
        /\ \A k \in 1 .. struct[p].len : Contents(p)[k] = block[d][k - 1]
    BY ContentsIs
  <2>2. ContentsOf(p)'
    BY <1>4, <1>8, ContentsNext
  <2>3. /\ Contents(p)' \in [1 .. struct[p].len -> Contained]
        /\ \A k \in 1 .. struct[p].len : Contents(p)'[k] = block'[d][k - 1]
    BY <2>2 DEF ContentsOf
  <2>4. ASSUME NEW k \in 1 .. struct[p].len
        PROVE  block'[d][k - 1] = IF k = i + 1 THEN v ELSE block[d][k - 1]
    <3>1. k - 1 \in DOMAIN block[d]
      BY <1>1, <1>2
    <3>2. k - 1 = i <=> k = i + 1
      BY <1>1
    <3>3. QED  BY <1>3, <3>1, <3>2
  <2>5. QED  BY <2>1, <2>3, <2>4
<1>10. ASSUME NEW q \in Lists \ {p}
       PROVE  Contents(q)' = Contents(q)
  <2>1. struct[q].data # d
    BY DEF HeapOK, SoleOwner
  <2>2. block'[struct[q].data] = block[struct[q].data]
    BY <1>3, <1>5, <2>1
  <2>3. QED  BY <2>2 DEF Contents, Copy, Cell
<1>11. QED  BY <1>4, <1>8, <1>9, <1>10

(* append, into the block it has or into one that realloc returns.          *)
LEMMA PushInPlace ==
  ASSUME HeapOK, NEW p \in Lists, NEW v \in Values, Push(p, v), InPlace(p)
  PROVE  /\ HeapOK'
         /\ Lists' = Lists
         /\ Contents(p)' = Append(Contents(p), v)
         /\ \A q \in Lists \ {p} : Contents(q)' = Contents(q)
<1> DEFINE d == struct[p].data
           n == struct[p].len
<1>1. /\ struct[p] \in Header /\ p \in Structs
      /\ d \in Blocks \ Free /\ DOMAIN block[d] = 0 .. Larger(struct[p].cap, 1) - 1
      /\ n \in Nat /\ struct[p].cap \in 0 .. MaxCells
  BY ListHeader DEF HeapOK, Backed
<1>2. n < struct[p].cap /\ n + 1 \in 0 .. MaxLen
  BY <1>1, BoundsAssumption DEF InPlace, Push, Room
<1>3. 0 .. n \subseteq DOMAIN block[d] /\ n \in DOMAIN block[d]
  BY <1>1, <1>2 DEF Larger
<1>4. block' = [block EXCEPT ![d][n] = v] /\ struct' = [struct EXCEPT ![p].len = @ + 1]
  BY DEF Push
<1>5. /\ block' = [c \in Blocks |-> block'[c]]
      /\ Free' = Free
      /\ \A c \in Blocks \ Free : IsBlock(block'[c])
      /\ \A c \in Blocks : DOMAIN block'[c] = DOMAIN block[c]
      /\ \A c \in Blocks \ {d} : block'[c] = block[c]
      /\ block'[d][n] = v
      /\ \A j \in DOMAIN block[d] \ {n} : block'[d][j] = block[d][j]
  BY <1>1, <1>3, <1>4, WriteCell
<1> HIDE DEF d, n
<1>6. /\ struct'[p] \in Header
      /\ struct'[p].len = n + 1 /\ struct'[p].cap = struct[p].cap /\ struct'[p].data = d
      /\ struct' \in [Structs -> Header \cup {None}]
      /\ \A q \in Structs \ {p} : struct'[q] = struct[q]
  BY <1>1, <1>2, <1>4 DEF Header, HeapOK, d, n
<1>7. Lists' = Lists
  BY <1>1, <1>6, NoneAssumption DEF Lists
<1>8. \A q \in Lists : q \in Structs /\ struct[q].data \in Blocks
  BY ListHeader
<1>9. ASSUME NEW q \in Lists
      PROVE  Backed(q)'
  <2>1. Backed(q)
    BY DEF HeapOK
  <2>2. CASE q = p
    BY <1>1, <1>2, <1>5, <1>6, <2>1, <2>2 DEF Backed, d
  <2>3. CASE q # p
    BY <1>5, <1>6, <1>8, <2>1, <2>3 DEF Backed
  <2>4. QED  BY <2>2, <2>3
<1>10. \A q \in Lists : struct'[q].data = struct[q].data
  BY <1>6, <1>8 DEF d
<1>11. SoleOwner'
  BY <1>7, <1>10 DEF HeapOK, SoleOwner
<1>12. HeapOK'
  BY <1>5, <1>6, <1>7, <1>9, <1>11 DEF HeapOK
<1>13. Contents(p)' = Append(Contents(p), v)
  <2>1. /\ Contents(p) \in Seq(Contained) /\ Len(Contents(p)) = n
        /\ \A k \in 1 .. n : Contents(p)[k] = block[d][k - 1]
    BY ContentsIs DEF d, n
  <2>2. ContentsOf(p)'
    BY <1>7, <1>12, ContentsNext
  <2>3. /\ Contents(p)' \in Seq(Contained) /\ Len(Contents(p)') = n + 1
        /\ \A k \in 1 .. n + 1 : Contents(p)'[k] = block'[d][k - 1]
    BY <1>6, <2>2 DEF ContentsOf
  <2>4. \A k \in 1 .. n : block'[d][k - 1] = block[d][k - 1]
    <3>1. ASSUME NEW k \in 1 .. n
          PROVE  k - 1 \in DOMAIN block[d] \ {n}
      BY <1>1, <1>3 DEF n
    <3>2. QED  BY <1>5, <3>1
  <2>5. v \in Contained
    BY DEF Contained
  <2>6. /\ Append(Contents(p), v) \in Seq(Contained)
        /\ Len(Append(Contents(p), v)) = n + 1
        /\ \A k \in 1 .. n : Append(Contents(p), v)[k] = Contents(p)[k]
        /\ Append(Contents(p), v)[n + 1] = v
    BY <2>1, <2>5, AppendProperties
  <2>7. n \in Nat /\ n + 1 - 1 = n
    BY <1>1 DEF n
  <2>8. \A k \in 1 .. n + 1 : k = n + 1 \/ k \in 1 .. n
    BY <2>7
  <2>9. \A k \in 1 .. n + 1 : Contents(p)'[k] = Append(Contents(p), v)[k]
    <3>1. Contents(p)'[n + 1] = v
      BY <1>5, <2>3, <2>7
    <3>2. ASSUME NEW k \in 1 .. n
          PROVE  Contents(p)'[k] = Contents(p)[k]
      <4>1. k \in 1 .. n + 1
        BY <2>7
      <4>2. Contents(p)'[k] = block'[d][k - 1]
        BY <2>3, <4>1
      <4>3. Contents(p)[k] = block[d][k - 1]
        BY <2>1
      <4>4. QED  BY <2>4, <4>2, <4>3
    <3>3. QED  BY <2>6, <2>8, <3>1, <3>2
  <2>10. QED  BY <2>3, <2>6, <2>9, SeqEqual
<1>14. ASSUME NEW q \in Lists \ {p}
       PROVE  Contents(q)' = Contents(q)
  <2>1. struct[q].data # d
    BY DEF HeapOK, SoleOwner, d
  <2>2. block'[struct[q].data] = block[struct[q].data] /\ struct'[q] = struct[q]
    BY <1>5, <1>6, <1>8, <2>1
  <2>3. QED  BY <2>2 DEF Contents, Copy, Cell
<1>15. QED  BY <1>7, <1>12, <1>13, <1>14

LEMMA PushMoved ==
  ASSUME HeapOK, NEW p \in Lists, NEW v \in Values, Push(p, v), ~ InPlace(p)
  PROVE  /\ HeapOK'
         /\ Lists' = Lists
         /\ Contents(p)' = Append(Contents(p), v)
         /\ \A q \in Lists \ {p} : Contents(q)' = Contents(q)
<1> DEFINE d == struct[p].data
           n == struct[p].len
           m == NewCap(struct[p].cap)
           s == Append(Contents(p), v)
           h(b) == [len |-> n + 1, cap |-> m, data |-> b]
           C == Cells(m, s)
<1>1. PICK b \in Free \cup {d} :
        /\ struct' = [struct EXCEPT ![p] = h(b)]
        /\ block' = [[block EXCEPT ![d] = None] EXCEPT ![b] = C]
  BY DEF Push, Moved
<1>2. /\ p \in Structs /\ d \in Blocks \ Free /\ b \in Blocks
      /\ n \in Nat /\ n = struct[p].cap
  BY ListHeader DEF InPlace, Free
<1>3. /\ n + 1 \in 0 .. MaxLen /\ m \in 1 .. MaxCells /\ n + 1 <= m
  BY <1>2, BoundsAssumption DEF Push, Room, NewCap, Larger, MaxCells
<1>4. m = Larger(m, 1)
  BY <1>3 DEF Larger
<1>5. h(b) \in Header /\ h(b) # None
  BY <1>2, <1>3, NoneAssumption DEF Header
<1>6. /\ Contents(p) \in Seq(Contained) /\ Len(Contents(p)) = n
      /\ s \in Seq(Contained) /\ Len(s) = n + 1
  <2>1. Contents(p) \in Seq(Contained) /\ Len(Contents(p)) = n
    BY ContentsIs
  <2>2. v \in Contained
    BY DEF Contained
  <2>3. QED  BY <2>1, <2>2, AppendProperties
<1>7. /\ C \in [0 .. m - 1 -> Contained] /\ IsBlock(C) /\ C # None
      /\ \A i \in 1 .. n + 1 : C[i - 1] = s[i]
  <2>1. /\ C \in [0 .. m - 1 -> Contained] /\ IsBlock(C) /\ C # None
        /\ \A i \in 1 .. Len(s) : i <= m => C[i - 1] = s[i]
    BY <1>3, <1>6, CellsIs
  <2>2. \A i \in 1 .. n + 1 : i \in 1 .. Len(s) /\ i <= m
    BY <1>2, <1>3, <1>6
  <2>3. QED  BY <2>1, <2>2
<1>8. h(b).len = n + 1 /\ h(b).cap = m /\ h(b).data = b
  OBVIOUS
<1> HIDE DEF h, C, m, s, n, d
<1>9. /\ struct' \in [Structs -> Header \cup {None}]
      /\ struct'[p] = h(b) /\ \A q \in Structs \ {p} : struct'[q] = struct[q]
  BY <1>1, <1>2, <1>5 DEF HeapOK
<1>10. Lists' = Lists
  BY <1>2, <1>5, <1>9 DEF Lists
<1>11. /\ block' = [c \in Blocks |-> block'[c]]
       /\ block'[b] = C
       /\ d # b => block'[d] = None
       /\ \A c \in Blocks \ {b, d} : block'[c] = block[c]
  <2>1. block = [c \in Blocks |-> block[c]]
    BY DEF HeapOK
  <2>2. QED  BY <1>1, <1>2, <2>1
<1>12. Free' = (Free \cup {d}) \ {b}
  BY <1>1, <1>2, <1>7, <1>11 DEF Free
<1>13. \A c \in Blocks \ Free' : IsBlock(block'[c])
  BY <1>7, <1>11, <1>12 DEF HeapOK
<1>14. \A q \in Lists \ {p} : /\ q \in Structs /\ struct[q].data \in Blocks \ {b, d}
                             /\ struct[q].data \notin Free
  <2>1. \A q \in Lists : /\ q \in Structs /\ struct[q].data \in Blocks
                         /\ struct[q].data \notin Free
    BY ListHeader
  <2>2. \A q \in Lists \ {p} : struct[q].data # d
    BY DEF HeapOK, SoleOwner, d
  <2>3. QED  BY <1>1, <2>1, <2>2
<1>15. ASSUME NEW q \in Lists
       PROVE  Backed(q)'
  <2>1. CASE q = p
    <3>1. DOMAIN C = 0 .. m - 1
      BY <1>7
    <3>2. QED  BY <1>3, <1>4, <1>8, <1>9, <1>11, <1>12, <2>1, <3>1 DEF Backed
  <2>2. CASE q # p
    <3>1. Backed(q)
      BY DEF HeapOK
    <3>2. struct'[q] = struct[q] /\ block'[struct[q].data] = block[struct[q].data]
      BY <1>9, <1>11, <1>14, <2>2
    <3>3. QED  BY <1>12, <1>14, <2>2, <3>1, <3>2 DEF Backed
  <2>3. QED  BY <2>1, <2>2
<1>16. SoleOwner'
  BY <1>8, <1>9, <1>10, <1>14 DEF SoleOwner, HeapOK
<1>17. HeapOK'
  BY <1>9, <1>10, <1>11, <1>13, <1>15, <1>16 DEF HeapOK
<1>18. Contents(p)' = s
  <2>1. ContentsOf(p)'
    BY <1>10, <1>17, ContentsNext
  <2>2. /\ Contents(p)' \in Seq(Contained) /\ Len(Contents(p)') = n + 1
        /\ \A i \in 1 .. n + 1 : Contents(p)'[i] = C[i - 1]
    BY <1>8, <1>9, <1>11, <2>1 DEF ContentsOf
  <2>3. QED  BY <1>6, <1>7, <2>2, SeqEqual
<1>19. ASSUME NEW q \in Lists \ {p}
       PROVE  Contents(q)' = Contents(q)
  BY <1>9, <1>11, <1>14 DEF Contents, Copy, Cell
<1>20. QED  BY <1>10, <1>17, <1>18, <1>19 DEF s

LEMMA PushKeeps ==
  ASSUME HeapOK, NEW p \in Lists, NEW v \in Values, Push(p, v)
  PROVE  /\ HeapOK'
         /\ Lists' = Lists
         /\ Contents(p)' = Append(Contents(p), v)
         /\ \A q \in Lists \ {p} : Contents(q)' = Contents(q)
BY PushInPlace, PushMoved

-----------------------------------------------------------------------------
LEMMA BuildStep ==
  ASSUME IInv, NEW x \in Names, NEW s \in Seq(Contained),
         ~ SliceCalls => s \in Seq(Values),
         Build(x, s), open' = None
  PROVE  IInv'
<1>1. PICK p \in Unused :
        /\ slot' = [slot EXCEPT ![x] = p]
        /\ HeapOK'
        /\ Lists' = Lists \cup {p}
        /\ Contents(p)' = s
        /\ \A q \in Lists : struct'[q] = struct[q] /\ Contents(q)' = Contents(q)
  BY BuildKeeps DEF IInv
<1>2. p \in Structs
  BY DEF Unused
<1>3. NamesOK'
  BY <1>1, <1>2 DEF IInv, NamesOK
<1>4. OpenOK' /\ SliceIsFresh'
  BY DEF OpenOK, SliceIsFresh
<1>5. Written'
  BY <1>1, <1>4 DEF IInv, Written
<1>6. QED  BY <1>1, <1>3, <1>4, <1>5 DEF IInv

LEMMA PushStep ==
  ASSUME IInv, NEW p \in Lists, NEW v \in Values, Push(p, v), slot' = slot,
         \/ open' = None
         \/ open' = open /\ open # None /\ (open.op = "slice" => SliceCalls)
  PROVE  IInv'
<1>1. /\ HeapOK'
      /\ Lists' = Lists
      /\ Contents(p)' = Append(Contents(p), v)
      /\ \A q \in Lists \ {p} : Contents(q)' = Contents(q)
  BY PushKeeps DEF IInv
<1>2. NamesOK' /\ OpenOK'
  BY <1>1 DEF IInv, NamesOK, OpenOK
<1>3. ASSUME ~ SliceCalls
      PROVE  SliceIsFresh'
  BY <1>3 DEF SliceIsFresh
<1>4. ASSUME ~ SliceCalls, NEW q \in Lists
      PROVE  Contents(q)' \in Seq(Values)
  <2>1. Contents(p) \in Seq(Values) /\ Contents(q) \in Seq(Values)
    BY <1>4 DEF IInv, Written
  <2>2. Append(Contents(p), v) \in Seq(Values)
    BY <2>1, AppendProperties
  <2>3. QED  BY <1>1, <2>1, <2>2
<1>5. Written'
  BY <1>1, <1>3, <1>4 DEF Written
<1>6. QED  BY <1>1, <1>2, <1>5 DEF IInv

LEMMA StoreStep ==
  ASSUME IInv, NEW p \in Lists, NEW i \in 0 .. struct[p].len - 1, NEW v \in Values,
         block' = [block EXCEPT ![struct[p].data][i] = v], struct' = struct,
         slot' = slot, open' = None
  PROVE  IInv'
<1>1. /\ HeapOK'
      /\ Lists' = Lists
      /\ Contents(p)' = [Contents(p) EXCEPT ![i + 1] = v]
      /\ \A q \in Lists \ {p} : Contents(q)' = Contents(q)
  BY StoreKeeps DEF IInv
<1>2. NamesOK' /\ OpenOK' /\ SliceIsFresh'
  BY <1>1 DEF IInv, NamesOK, OpenOK, SliceIsFresh
<1>3. i + 1 \in 1 .. Len(Contents(p))
  BY ContentsIs, ListHeader DEF IInv
<1>4. ASSUME ~ SliceCalls, NEW q \in Lists
      PROVE  Contents(q)' \in Seq(Values)
  <2>1. Contents(p) \in Seq(Values) /\ Contents(q) \in Seq(Values)
    BY <1>4 DEF IInv, Written
  <2>2. [Contents(p) EXCEPT ![i + 1] = v] \in Seq(Values)
    BY <1>3, <2>1, ExceptSeq
  <2>3. QED  BY <1>1, <2>1, <2>2
<1>5. QED  BY <1>1, <1>2, <1>4 DEF IInv, Written

(* A step that leaves the memory of the lists alone.                        *)
LEMMA QuietStep ==
  ASSUME IInv, struct' = struct, block' = block, NamesOK', OpenOK',
         ~ SliceCalls => SliceIsFresh'
  PROVE  IInv'
<1>1. Lists' = Lists /\ Free' = Free
  BY DEF Lists, Free
<1>2. ASSUME NEW p
      PROVE  Backed(p)' = Backed(p) /\ Contents(p)' = Contents(p)
  BY DEF Backed, Contents, Copy, Cell, Free
<1>3. HeapOK'
  BY <1>1, <1>2 DEF IInv, HeapOK, SoleOwner
<1>4. Written'
  BY <1>1, <1>2 DEF IInv, Written
<1>5. QED  BY <1>3, <1>4 DEF IInv

LEMMA NameIsList ==
  ASSUME IInv, NEW x \in Names, slot[x] # None
  PROVE  slot[x] \in Lists
BY DEF IInv, NamesOK

(* What a statement under way has loaded.                                   *)
LEMMA OpenIs ==
  ASSUME IInv, open # None
  PROVE  /\ open \in Begun /\ open.list \in Lists /\ open.list \in Structs
         /\ open.op = "slice" => open.len \in 0 .. MaxLen /\ open.data \in Blocks
         /\ open.op = "store" => open.sub \in Subscripts
<1>1. open \in Begun /\ open.list \in Lists
  BY DEF IInv, OpenOK
<1>2. open.list \in Structs
  BY <1>1 DEF Lists
<1>3. QED  BY <1>1, <1>2 DEF Begun

LEMMA BeginNames ==
  ASSUME NEW o \in {"append", "load", "concat"}, NEW p \in Structs
  PROVE  [op |-> o, list |-> p] \in Begun /\ [op |-> o, list |-> p] # None
BY NoneAssumption DEF Begun

LEMMA SliceFrom ==
  ASSUME NEW a \in Nat, NEW b \in Nat, NEW len \in Nat
  PROVE  LET from == Clamp(a, len)
             n    == Larger(Clamp(b, len) - from, 0)
             to   == Lower(b, len)
         IN  /\ from \in Nat /\ n \in Nat /\ from + n <= len
             /\ to \in Int /\ to <= len
             /\ n = IF a + 1 <= to THEN to - (a + 1) + 1 ELSE 0
             /\ n > 0 => from = a /\ n = to - a
BY DEF Clamp, Lower, Larger

(* The cells a slice copies are the elements of the list, if nothing has    *)
(* been appended to it since the statement began.                           *)
LEMMA SliceIs ==
  ASSUME IInv, open # None, open.op = "slice", SliceIsFresh,
         NEW a \in Nat, NEW b \in Nat
  PROVE  LET s    == Contents(open.list)
             from == Clamp(a, open.len)
             n    == Larger(Clamp(b, open.len) - from, 0)
         IN  Copy(open.data, from, n) = SubSeq(s, a + 1, Lower(b, Len(s)))
<1> DEFINE p == open.list
           s == Contents(p)
           len == open.len
           from == Clamp(a, len)
           n == Larger(Clamp(b, len) - from, 0)
           to == Lower(b, len)
<1>1. /\ p \in Lists /\ len = struct[p].len /\ open.data = struct[p].data
      /\ len \in Nat /\ open.data \in Blocks
  BY OpenIs DEF SliceIsFresh
<1>2. /\ s \in Seq(Contained) /\ Len(s) = len
      /\ \A i \in 1 .. len : s[i] \in Contained
  BY <1>1, ContentsIs DEF IInv
<1>3. s = [i \in 1 .. len |-> Cell(open.data, 0 + i - 1)]
  BY <1>1 DEF Contents, Copy
<1>4. /\ from \in Nat /\ n \in Nat /\ from + n <= len
      /\ to \in Int /\ to <= len
      /\ n = IF a + 1 <= to THEN to - (a + 1) + 1 ELSE 0
      /\ n > 0 => from = a /\ n = to - a
  BY <1>1, SliceFrom
<1> HIDE DEF s, from, n, to, len
<1>5. /\ Copy(open.data, from, n) \in Seq(Contained)
      /\ Len(Copy(open.data, from, n)) = n
      /\ \A i \in 1 .. n : Copy(open.data, from, n)[i] = Cell(open.data, from + i - 1)
  <2>1. HeapOK
    BY DEF IInv
  <2>2. open.data \in Blocks /\ from \in Nat /\ n \in Nat
    BY <1>1, <1>4
  <2>3. QED  BY <2>1, <2>2, CopyIs
<1>6. /\ SubSeq(s, a + 1, to) \in Seq(Contained)
      /\ Len(SubSeq(s, a + 1, to)) = n
      /\ \A i \in 1 .. to - (a + 1) + 1 : SubSeq(s, a + 1, to)[i] = s[a + 1 + i - 1]
  <2>1. \A i \in a + 1 .. to : i \in 1 .. len
    BY <1>1, <1>4
  <2>2. \A i \in a + 1 .. to : s[i] \in Contained
    BY <1>2, <2>1
  <2>3. a + 1 \in Int
    OBVIOUS
  <2>4. QED  BY <1>4, <2>2, <2>3, SubSeqProperties
<1>7. ASSUME NEW i \in 1 .. n
      PROVE  Copy(open.data, from, n)[i] = SubSeq(s, a + 1, to)[i]
  <2>1. n > 0 /\ from = a /\ n = to - a
    BY <1>4, <1>7
  <2>2. i \in 1 .. to - (a + 1) + 1 /\ a + 1 + i - 1 = a + i /\ a + i \in 1 .. len
    BY <1>1, <1>4, <2>1
  <2>3. SubSeq(s, a + 1, to)[i] = s[a + i]
    BY <1>6, <2>2
  <2>4. s[a + i] = Cell(open.data, a + i - 1)
    <3>1. 0 + (a + i) - 1 = a + i - 1
      BY <1>4, <2>2
    <3>2. QED  BY <1>3, <2>2, <3>1
  <2>5. QED  BY <1>5, <2>1, <2>3, <2>4
<1>8. Copy(open.data, from, n) = SubSeq(s, a + 1, to)
  BY <1>5, <1>6, <1>7, SeqEqual
<1>9. QED  BY <1>2, <1>8 DEF s, from, n, to, len

LEMMA SliceValues ==
  ASSUME IInv, open # None, open.op = "slice", ~ SliceCalls,
         NEW a \in Nat, NEW b \in Nat
  PROVE  LET from == Clamp(a, open.len)
             n    == Larger(Clamp(b, open.len) - from, 0)
         IN  Copy(open.data, from, n) \in Seq(Values)
<1> DEFINE s == Contents(open.list)
           to == Lower(b, Len(s))
<1>1. SliceIsFresh /\ s \in Seq(Values)
  BY OpenIs DEF IInv, Written
<1>2. Len(s) \in Nat /\ \A i \in 1 .. Len(s) : s[i] \in Values
  BY <1>1, LenProperties, ElementOfSeq
<1> HIDE DEF s
<1>3. to \in Int /\ to <= Len(s)
  BY <1>2 DEF Lower
<1> HIDE DEF to
<1>4. \A i \in a + 1 .. to : s[i] \in Values
  <2>1. \A i \in a + 1 .. to : i \in 1 .. Len(s)
    BY <1>2, <1>3
  <2>2. QED  BY <1>2, <2>1
<1>5. SubSeq(s, a + 1, to) \in Seq(Values)
  <2>1. a + 1 \in Int
    OBVIOUS
  <2>2. QED  BY <1>3, <1>4, <2>1, SubSeqProperties
<1>6. QED  BY <1>1, <1>5, SliceIs DEF s, to

LEMMA SliceContained ==
  ASSUME IInv, open # None, open.op = "slice", NEW a \in Nat, NEW b \in Nat
  PROVE  LET from == Clamp(a, open.len)
             n    == Larger(Clamp(b, open.len) - from, 0)
         IN  Copy(open.data, from, n) \in Seq(Contained)
<1> DEFINE from == Clamp(a, open.len)
           n == Larger(Clamp(b, open.len) - from, 0)
<1>1. open.len \in Nat /\ open.data \in Blocks /\ HeapOK
  BY OpenIs DEF IInv
<1>2. from \in Nat /\ n \in Nat
  BY <1>1, SliceFrom
<1> HIDE DEF from, n
<1>3. Copy(open.data, from, n) \in Seq(Contained)
  BY <1>1, <1>2, CopyIs
<1>4. QED  BY <1>3 DEF from, n

LEMMA InitIInv == Init => IInv
<1> SUFFICES ASSUME Init PROVE IInv
  OBVIOUS
<1>1. Lists = {} /\ Free = Blocks
  BY DEF Init, Lists, Free
<1>2. HeapOK
  BY <1>1 DEF Init, HeapOK, SoleOwner
<1>3. NamesOK /\ OpenOK
  BY DEF Init, NamesOK, OpenOK
<1>4. Written
  BY <1>1 DEF Init, Written, SliceIsFresh
<1>5. QED  BY <1>2, <1>3, <1>4 DEF IInv

LEMMA StepIInv == IInv /\ [Next]_vars => IInv'
<1> SUFFICES ASSUME IInv, [Next]_vars PROVE IInv'
  OBVIOUS
<1>1. ASSUME NEW x \in Names, NEW s \in {<<>>} \cup {<<v>> : v \in Values}, Literal(x, s)
      PROVE  IInv'
  <2>1. s \in Seq(Values) /\ s \in Seq(Contained)
    <3>1. CASE s = <<>>
      BY <3>1
    <3>2. ASSUME NEW v \in Values, s = <<v>>
          PROVE  s \in Seq(Values) /\ s \in Seq(Contained)
      <4>1. v \in Contained
        BY DEF Contained
      <4>2. QED  BY <3>2, <4>1
    <3>3. QED  BY <3>1, <3>2
  <2>2. Build(x, s) /\ open' = None
    BY <1>1 DEF Literal
  <2>3. QED  BY <2>1, <2>2, BuildStep
<1>2. ASSUME NEW x \in Names, NEW y \in Names, Alias(x, y)
      PROVE  IInv'
  <2>1. slot[y] \in Lists /\ slot[y] \in Structs
    BY <1>2, NameIsList DEF Alias, Lists
  <2>2. NamesOK' /\ OpenOK' /\ SliceIsFresh'
    BY <1>2, <2>1 DEF Alias, IInv, NamesOK, OpenOK, SliceIsFresh, Lists
  <2>3. QED  BY <1>2, <2>2, QuietStep DEF Alias
<1>3. ASSUME NEW x \in Names, Length(x)
      PROVE  IInv'
  <2>1. NamesOK' /\ OpenOK' /\ SliceIsFresh'
    BY <1>3 DEF Length, IInv, NamesOK, OpenOK, SliceIsFresh, Lists
  <2>2. QED  BY <1>3, <2>1, QuietStep DEF Length
<1>4. ASSUME NEW x \in Names, NEW o \in {"append", "load", "concat"}, Begin(o, x)
      PROVE  IInv'
  <2>1. slot[x] \in Lists /\ slot[x] \in Structs
    BY <1>4, NameIsList DEF Begin, Lists
  <2>2. open' = [op |-> o, list |-> slot[x]] /\ open' \in Begun
    BY <1>4, <2>1, BeginNames DEF Begin
  <2>3. NamesOK' /\ OpenOK' /\ SliceIsFresh'
    BY <1>4, <2>1, <2>2 DEF Begin, IInv, NamesOK, OpenOK, SliceIsFresh, Lists
  <2>4. QED  BY <1>4, <2>3, QuietStep DEF Begin
<1>5. ASSUME NEW x \in Names, BeginSlice(x)
      PROVE  IInv'
  <2>1. slot[x] \in Lists /\ slot[x] \in Structs
    BY <1>5, NameIsList DEF BeginSlice, Lists
  <2>2. struct[slot[x]].len \in 0 .. MaxLen /\ struct[slot[x]].data \in Blocks
    BY <2>1, ListHeader DEF IInv
  <2>3. /\ open' = [op |-> "slice", list |-> slot[x],
                    len |-> struct[slot[x]].len, data |-> struct[slot[x]].data]
        /\ open' \in Begun
    BY <1>5, <2>1, <2>2 DEF BeginSlice, Begun
  <2>4. NamesOK' /\ OpenOK' /\ SliceIsFresh'
    BY <1>5, <2>1, <2>3 DEF BeginSlice, IInv, NamesOK, OpenOK, SliceIsFresh, Lists
  <2>5. QED  BY <1>5, <2>4, QuietStep DEF BeginSlice
<1>6. ASSUME NEW x \in Names, NEW s \in Subscripts, BeginStore(x, s)
      PROVE  IInv'
  <2>1. slot[x] \in Lists /\ slot[x] \in Structs
    BY <1>6, NameIsList DEF BeginStore, Lists
  <2>2. struct[slot[x]].len \in 0 .. MaxLen
    BY <2>1, ListHeader DEF IInv
  <2>3. Index(s, slot[x]) \in Subscripts \cup Int
    BY <2>2 DEF Index
  <2>4. /\ open' = [op |-> "store", list |-> slot[x], sub |-> s, at |-> Index(s, slot[x])]
        /\ open' \in Begun
    BY <1>6, <2>1, <2>3 DEF BeginStore, Begun
  <2>5. NamesOK' /\ OpenOK' /\ SliceIsFresh'
    BY <1>6, <2>1, <2>4 DEF BeginStore, IInv, NamesOK, OpenOK, SliceIsFresh, Lists, Index
  <2>6. QED  BY <1>6, <2>5, QuietStep DEF BeginStore
<1>7. ASSUME NEW x \in Names, NEW v \in Values, Callee(x, v)
      PROVE  IInv'
  BY <1>7, NameIsList, PushStep DEF Callee
<1>8. ASSUME NEW v \in Values, EndAppend(v)
      PROVE  IInv'
  BY <1>8, OpenIs, PushStep DEF EndAppend
<1>9. ASSUME NEW v \in Values, EndStore(v)
      PROVE  IInv'
  BY <1>9, OpenIs, StoreStep DEF EndStore
<1>10. ASSUME NEW i \in Bounds, EndLoad(i)
       PROVE  IInv'
  <2>1. NamesOK' /\ OpenOK' /\ SliceIsFresh'
    BY <1>10 DEF EndLoad, IInv, NamesOK, OpenOK, SliceIsFresh, Lists
  <2>2. QED  BY <1>10, <2>1, QuietStep DEF EndLoad
<1>11. ASSUME NEW x \in Names, NEW a \in Bounds, NEW b \in Bounds, EndSlice(x, a, b)
       PROVE  IInv'
  <2> DEFINE from == Clamp(a, open.len)
             n == Larger(Clamp(b, open.len) - from, 0)
             s == Copy(open.data, from, n)
  <2>1. open # None /\ open.op = "slice" /\ Build(x, s) /\ open' = None
    BY <1>11 DEF EndSlice
  <2>2. a \in Nat /\ b \in Nat
    BY DEF Bounds
  <2>3. s \in Seq(Contained) /\ (~ SliceCalls => s \in Seq(Values))
    BY <2>1, <2>2, SliceContained, SliceValues
  <2> HIDE DEF s
  <2>4. QED  BY <2>1, <2>3, BuildStep
<1>12. ASSUME NEW x \in Names, NEW z \in Names, EndConcat(x, z)
       PROVE  IInv'
  <2> DEFINE s == Contents(open.list) \o Contents(slot[z])
  <2>1. open.list \in Lists /\ slot[z] \in Lists /\ HeapOK
    BY <1>12, OpenIs, NameIsList DEF EndConcat, IInv
  <2>2. s \in Seq(Contained)
    BY <2>1, ContentsIs, ConcatProperties
  <2>3. ~ SliceCalls => s \in Seq(Values)
    BY <2>1, ConcatProperties DEF IInv, Written
  <2>4. Build(x, s) /\ open' = None
    BY <1>12 DEF EndConcat
  <2> HIDE DEF s
  <2>5. QED  BY <2>2, <2>3, <2>4, BuildStep
<1>13. CASE UNCHANGED vars
  <2>1. NamesOK' /\ OpenOK' /\ (~ SliceCalls => SliceIsFresh')
    BY <1>13 DEF vars, IInv, NamesOK, OpenOK, Written, SliceIsFresh, Lists
  <2>2. QED  BY <1>13, <2>1, QuietStep DEF vars
<1>14. QED
  BY <1>1, <1>2, <1>3, <1>4, <1>5, <1>6, <1>7, <1>8, <1>9, <1>10, <1>11, <1>12, <1>13
     DEF Next

LEMMA SpecIInv == Spec => []IInv
BY InitIInv, StepIInv, PTL DEF Spec

-----------------------------------------------------------------------------
(* Every word of the memory has its type, in every run. *)
THEOREM TypeCorrect == Spec => []TypeOK
<1>1. IInv => TypeOK
  BY DEF IInv, HeapOK, NamesOK, OpenOK, TypeOK
<1>2. QED  BY <1>1, SpecIInv, PTL

(* No statement reaches a struct or a block that is not there. *)
THEOREM NoDeadPointer == Spec => []PointersLive
<1>1. IInv => PointersLive
  BY DEF IInv, HeapOK, Backed, NamesOK, OpenOK, PointersLive
<1>2. QED  BY <1>1, SpecIInv, PTL

(* A block belongs to one list, wherever realloc has moved it. *)
THEOREM OneOwner == Spec => []SoleOwner
<1>1. IInv => SoleOwner
  BY DEF IInv, HeapOK
<1>2. QED  BY <1>1, SpecIInv, PTL

(* No element of a list is an unwritten or a freed cell, unless the bounds  *)
(* of a slice call functions (the finding of list_slice).                   *)
THEOREM NeverUnwritten ==
  ASSUME ~ SliceCalls
  PROVE  Spec => []NoGarbage
<1>1. ASSUME IInv, NEW p \in Lists, NEW i \in DOMAIN Contents(p)
      PROVE  Contents(p)[i] # Garbage
  <2>1. Contents(p) \in Seq(Values)
    BY <1>1 DEF IInv, Written
  <2>2. Contents(p)[i] \in Values
    BY <2>1, LenProperties, ElementOfSeq
  <2>3. QED  BY <2>2, NoneAssumption
<1>2. IInv => NoGarbage
  BY <1>1 DEF NoGarbage
<1>3. QED  BY <1>2, SpecIInv, PTL

-----------------------------------------------------------------------------
(* The heap's lists are Python's. *)

LEMMA ListNotNone ==
  ASSUME NEW s, NEW n \in 0 .. MaxLen, s \in [1 .. n -> Contained]
  PROVE  s # None
BY NoneAssumption DEF IsList

LEMMA ElemsIs ==
  HeapOK => /\ Python!Made = Lists
            /\ \A p \in Lists : Elems[p] = Contents(p) /\ Elems[p] # None
            /\ \A p \in Structs \ Lists : Elems[p] = None
            /\ Elems = [p \in Structs |-> Elems[p]]
<1> SUFFICES ASSUME HeapOK
             PROVE  /\ Python!Made = Lists
                    /\ \A p \in Lists : Elems[p] = Contents(p) /\ Elems[p] # None
                    /\ \A p \in Structs \ Lists : Elems[p] = None
                    /\ Elems = [p \in Structs |-> Elems[p]]
  OBVIOUS
<1>1. \A p \in Lists : Elems[p] = Contents(p)
  BY DEF Elems, Lists
<1>2. ASSUME NEW p \in Lists
      PROVE  Contents(p) # None
  <2>1. struct[p].len \in 0 .. MaxLen
    BY ListHeader
  <2>2. Contents(p) \in [1 .. struct[p].len -> Contained]
    BY ContentsIs
  <2>3. QED  BY <2>1, <2>2, ListNotNone
<1>3. /\ \A p \in Structs \ Lists : Elems[p] = None
      /\ Elems = [p \in Structs |-> Elems[p]]
  BY DEF Elems, Lists
<1>4. Python!Made = Lists
  <2>1. \A p \in Structs : Elems[p] # None <=> p \in Lists
    BY <1>1, <1>2, <1>3
  <2>2. QED  BY <2>1 DEF Python!Made, Lists
<1>5. QED  BY <1>1, <1>2, <1>3, <1>4

LEMMA ElemsNext ==
  HeapOK' => /\ \A p \in Lists' : Elems'[p] = Contents(p)'
             /\ \A p \in Structs \ Lists' : Elems'[p] = None
             /\ Elems' = [p \in Structs |-> Elems'[p]]
<1>1. HeapOK' => (/\ \A p \in Lists : Elems[p] = Contents(p) /\ Elems[p] # None
                  /\ \A p \in Structs \ Lists : Elems[p] = None
                  /\ Elems = [p \in Structs |-> Elems[p]])'
  BY ElemsIs, PTL
<1>2. QED  BY <1>1

LEMMA BuildBinds ==
  ASSUME HeapOK, NEW x \in Names, NEW s \in Seq(Contained), Build(x, s)
  PROVE  Python!Bind(x, s)
<1>1. PICK p \in Unused :
        /\ slot' = [slot EXCEPT ![x] = p]
        /\ HeapOK'
        /\ Lists' = Lists \cup {p}
        /\ Contents(p)' = s
        /\ \A q \in Lists : struct'[q] = struct[q] /\ Contents(q)' = Contents(q)
  BY BuildKeeps
<1>2. p \in Structs \ Lists
  BY DEF Unused, Lists
<1>3. p \in Structs \ Python!Made
  BY <1>2, ElemsIs
<1>4. ASSUME NEW q \in Structs
      PROVE  Elems'[q] = IF q = p THEN s ELSE Elems[q]
  <2>1. CASE q = p
    BY <1>1, <2>1, ElemsNext
  <2>2. CASE q \in Lists
    BY <1>1, <1>2, <2>2, ElemsIs, ElemsNext
  <2>3. CASE q # p /\ q \notin Lists
    BY <1>1, <2>3, ElemsIs, ElemsNext
  <2>4. QED  BY <2>1, <2>2, <2>3
<1>5. Elems' = [Elems EXCEPT ![p] = s]
  BY <1>1, <1>4, ElemsIs, ElemsNext
<1>6. QED  BY <1>1, <1>3, <1>5 DEF Python!Bind

(* An append or a store changes the one list.                               *)
LEMMA ElemsChange ==
  ASSUME HeapOK, HeapOK', NEW p \in Lists, NEW s, Lists' = Lists, Contents(p)' = s,
         \A q \in Lists \ {p} : Contents(q)' = Contents(q)
  PROVE  Elems' = [Elems EXCEPT ![p] = s]
<1>1. p \in Structs
  BY DEF Lists
<1>2. ASSUME NEW q \in Structs
      PROVE  Elems'[q] = IF q = p THEN s ELSE Elems[q]
  <2>1. CASE q = p
    BY <2>1, ElemsNext
  <2>2. CASE q \in Lists \ {p}
    BY <2>2, ElemsIs, ElemsNext
  <2>3. CASE q \notin Lists
    BY <2>3, ElemsIs, ElemsNext
  <2>4. QED  BY <2>1, <2>2, <2>3
<1>3. QED  BY <1>1, <1>2, ElemsIs, ElemsNext

LEMMA PushGrows ==
  ASSUME HeapOK, NEW p \in Lists, NEW v \in Values, Push(p, v)
  PROVE  Python!Grown(p, v)
<1>1. /\ HeapOK'
      /\ Lists' = Lists
      /\ Contents(p)' = Append(Contents(p), v)
      /\ \A q \in Lists \ {p} : Contents(q)' = Contents(q)
  BY PushKeeps
<1>2. Elems[p] = Contents(p)
  BY ElemsIs
<1>3. Elems' = [Elems EXCEPT ![p] = Append(Elems[p], v)]
  BY <1>1, <1>2, ElemsChange
<1>4. QED  BY <1>3 DEF Python!Grown

(* Element i of the list at p becomes v, and nothing else changes.          *)
Wrote(p, i, v) ==
  /\ i \in 0 .. Len(Elems[p]) - 1
  /\ Elems' = [Elems EXCEPT ![p][i + 1] = v]

LEMMA StoreWrites ==
  ASSUME HeapOK, NEW p \in Lists, NEW i \in 0 .. struct[p].len - 1, NEW v \in Values,
         block' = [block EXCEPT ![struct[p].data][i] = v], struct' = struct
  PROVE  Wrote(p, i, v)
<1>1. /\ HeapOK'
      /\ Lists' = Lists
      /\ Contents(p)' = [Contents(p) EXCEPT ![i + 1] = v]
      /\ \A q \in Lists \ {p} : Contents(q)' = Contents(q)
  BY StoreKeeps
<1>2. Elems[p] = Contents(p) /\ Len(Contents(p)) = struct[p].len
  BY ElemsIs, ContentsIs
<1>3. Elems' = [Elems EXCEPT ![p] = [Elems[p] EXCEPT ![i + 1] = v]]
  BY <1>1, <1>2, ElemsChange
<1>4. QED  BY <1>2, <1>3 DEF Wrote

LEMMA QuietElems ==
  ASSUME struct' = struct, block' = block
  PROVE  Elems' = Elems
BY DEF Elems, Contents, Copy, Cell

LEMMA StatementIs ==
  ASSUME IInv, open # None
  PROVE  /\ Statement # None
         /\ Statement.op = open.op /\ Statement.list = open.list
         /\ open.op = "store" => Statement.sub = open.sub
<1>1. /\ open \in Begun /\ open.list \in Structs
      /\ open.op = "store" => open.sub \in Subscripts
  BY OpenIs
<1>2. open.op \in {"append", "load", "concat", "store", "slice"}
  BY <1>1 DEF Begun
<1>3. Statement \in Seen
  BY <1>1, <1>2 DEF Statement, Seen
<1>4. QED  BY <1>3, NoneAssumption DEF Statement

LEMMA InitRefines == Init => Python!Init
<1> SUFFICES ASSUME Init PROVE Python!Init
  OBVIOUS
<1>1. Elems = [p \in Structs |-> None] /\ Statement = None
  BY DEF Init, Elems, Statement
<1>2. QED  BY <1>1 DEF Init, Python!Init

LEMMA StepRefines ==
  ASSUME ~ SliceCalls, Last \notin Subscripts, IInv, [Next]_vars
  PROVE  [Python!Next]_(Python!vars)
<1> SUFFICES Python!Next \/ UNCHANGED Python!vars
  OBVIOUS
<1>0. open = None => Statement = None
  BY DEF Statement
<1>1. ASSUME NEW x \in Names, NEW s \in {<<>>} \cup {<<v>> : v \in Values}, Literal(x, s)
      PROVE  Python!Next
  <2>1. s \in Seq(Contained)
    <3>1. CASE s = <<>>
      BY <3>1
    <3>2. ASSUME NEW v \in Values, s = <<v>>
          PROVE  s \in Seq(Contained)
      BY <3>2 DEF Contained
    <3>3. QED  BY <3>1, <3>2
  <2>2. Python!Bind(x, s) /\ open = None /\ open' = open /\ ret' = None
    BY <1>1, <2>1, BuildBinds DEF Literal, IInv
  <2>3. Python!Literal(x, s)
    BY <1>0, <2>2 DEF Python!Literal, Statement
  <2>4. QED  BY <2>3 DEF Python!Next
<1>2. ASSUME NEW x \in Names, NEW y \in Names, Alias(x, y)
      PROVE  Python!Next
  <2>1. Elems' = Elems /\ Statement' = Statement
    BY <1>2, QuietElems DEF Alias, Statement
  <2>2. Python!Alias(x, y)
    BY <1>0, <1>2, <2>1 DEF Alias, Python!Alias
  <2>3. QED  BY <2>2 DEF Python!Next
<1>3. ASSUME NEW x \in Names, Length(x)
      PROVE  Python!Next
  <2>1. Elems' = Elems /\ Statement' = Statement
    BY <1>3, QuietElems DEF Length, Statement
  <2>2. struct[slot[x]].len = Len(Elems[slot[x]])
    BY <1>3, NameIsList, ElemsIs, ContentsIs DEF Length, IInv
  <2>3. Python!Length(x)
    BY <1>0, <1>3, <2>1, <2>2 DEF Length, Python!Length
  <2>4. QED  BY <2>3 DEF Python!Next
<1>4. ASSUME NEW x \in Names, NEW o \in {"append", "load", "concat"}, Begin(o, x)
      PROVE  Python!Next
  <2>1. slot[x] \in Structs
    BY <1>4, NameIsList DEF Begin, Lists
  <2>2. open' = [op |-> o, list |-> slot[x]] /\ open' # None
    BY <1>4, <2>1, BeginNames DEF Begin
  <2>3. Statement' = [op |-> o, list |-> slot[x], sub |-> None]
    BY <2>2 DEF Statement
  <2>4. Elems' = Elems
    BY <1>4, QuietElems DEF Begin
  <2>5. Python!Begin(o, x, None)
    BY <1>0, <1>4, <2>3, <2>4 DEF Begin, Python!Begin
  <2>6. QED  BY <2>5 DEF Python!Next
<1>5. ASSUME NEW x \in Names, BeginSlice(x)
      PROVE  Python!Next
  <2>1. slot[x] \in Lists /\ slot[x] \in Structs
    BY <1>5, NameIsList DEF BeginSlice, Lists
  <2>2. struct[slot[x]].len \in 0 .. MaxLen /\ struct[slot[x]].data \in Blocks
    BY <2>1, ListHeader DEF IInv
  <2>3. /\ open' = [op |-> "slice", list |-> slot[x],
                    len |-> struct[slot[x]].len, data |-> struct[slot[x]].data]
        /\ open' # None
    BY <1>5, <2>1, <2>2, NoneAssumption DEF BeginSlice, Begun
  <2>4. Statement' = [op |-> "slice", list |-> slot[x], sub |-> None]
    BY <2>3 DEF Statement
  <2>5. Elems' = Elems
    BY <1>5, QuietElems DEF BeginSlice
  <2>6. Python!Begin("slice", x, None)
    BY <1>0, <1>5, <2>4, <2>5 DEF BeginSlice, Python!Begin
  <2>7. QED  BY <2>6 DEF Python!Next
<1>6. ASSUME NEW x \in Names, NEW s \in Subscripts, BeginStore(x, s)
      PROVE  Python!Next
  <2>1. slot[x] \in Structs
    BY <1>6, NameIsList DEF BeginStore, Lists
  <2>2. Index(s, slot[x]) = s
    BY DEF Index
  <2>3. /\ open' = [op |-> "store", list |-> slot[x], sub |-> s, at |-> s]
        /\ open' # None
    BY <1>6, <2>1, <2>2, NoneAssumption DEF BeginStore, Begun
  <2>4. Statement' = [op |-> "store", list |-> slot[x], sub |-> s]
    BY <2>3 DEF Statement
  <2>5. Elems' = Elems
    BY <1>6, QuietElems DEF BeginStore
  <2>6. Python!Begin("store", x, s)
    BY <1>0, <1>6, <2>4, <2>5 DEF BeginStore, Python!Begin
  <2>7. QED  BY <2>6 DEF Python!Next
<1>7. ASSUME NEW x \in Names, NEW v \in Values, Callee(x, v)
      PROVE  Python!Next
  <2>1. slot[x] \in Lists /\ open # None /\ open' = open /\ Push(slot[x], v)
    BY <1>7, NameIsList DEF Callee
  <2>2. Python!Grown(slot[x], v) /\ Statement # None /\ Statement' = Statement
    BY <2>1, PushGrows, StatementIs DEF IInv, Statement
  <2>3. Python!Callee(x, v)
    BY <1>7, <2>2 DEF Callee, Python!Callee
  <2>4. QED  BY <2>3 DEF Python!Next
<1>8. ASSUME NEW v \in Values, EndAppend(v)
      PROVE  Python!Next
  <2>1. open # None /\ open.op = "append" /\ open.list \in Lists /\ Push(open.list, v)
    BY <1>8, OpenIs DEF EndAppend
  <2>2. /\ Python!Grown(open.list, v) /\ Statement # None
        /\ Statement.op = "append" /\ Statement.list = open.list
    BY <2>1, PushGrows, StatementIs DEF IInv
  <2>3. Statement' = None
    BY <1>8 DEF EndAppend, Statement
  <2>4. Python!Grown(Statement.list, v)
    BY <2>2 DEF Python!Grown
  <2>5. Python!EndAppend(v)
    BY <1>8, <2>2, <2>3, <2>4 DEF EndAppend, Python!EndAppend
  <2>6. QED  BY <2>5 DEF Python!Next
<1>9. ASSUME NEW v \in Values, EndStore(v)
      PROVE  Python!Next
  <2>1. /\ open # None /\ open.op = "store" /\ open.list \in Lists
        /\ open.at \in 0 .. struct[open.list].len - 1
        /\ open.sub # Last /\ open.at = open.sub
    BY <1>9, OpenIs DEF EndStore, IInv, OpenOK
  <2>2. /\ open.at \in 0 .. Len(Elems[open.list]) - 1
        /\ Elems' = [Elems EXCEPT ![open.list][open.at + 1] = v]
    <3>1. /\ HeapOK /\ struct' = struct
          /\ block' = [block EXCEPT ![struct[open.list].data][open.at] = v]
      BY <1>9 DEF EndStore, IInv
    <3>2. Wrote(open.list, open.at, v)
      BY <2>1, <3>1, StoreWrites
    <3>3. QED  BY <3>2 DEF Wrote
  <2>3. /\ Statement # None /\ Statement.op = "store"
        /\ Statement.list = open.list /\ Statement.sub = open.sub
    BY <2>1, StatementIs
  <2>4. Python!Index(Statement.sub, Statement.list) = open.at
    BY <2>1, <2>3 DEF Python!Index
  <2>5. Statement' = None
    BY <1>9 DEF EndStore, Statement
  <2>6. Python!EndStore(v)
    BY <1>9, <2>2, <2>3, <2>4, <2>5 DEF EndStore, Python!EndStore
  <2>7. QED  BY <2>6 DEF Python!Next
<1>10. ASSUME NEW i \in Bounds, EndLoad(i)
       PROVE  Python!Next
  <2>1. /\ open # None /\ open.op = "load" /\ open.list \in Lists
        /\ i \in Nat /\ i < struct[open.list].len
    BY <1>10, OpenIs DEF EndLoad, Bounds
  <2>2. Statement # None /\ Statement.op = "load" /\ Statement.list = open.list
    BY <2>1, StatementIs
  <2>3. /\ Elems[open.list] = Contents(open.list)
        /\ Len(Contents(open.list)) = struct[open.list].len
        /\ struct[open.list].len \in Nat
    BY <2>1, ElemsIs, ContentsIs, ListHeader DEF IInv
  <2>4. Contents(open.list)[i + 1] = Cell(struct[open.list].data, i)
    <3>1. i + 1 \in 1 .. struct[open.list].len /\ 0 + (i + 1) - 1 = i
      BY <2>1, <2>3
    <3>2. QED  BY <3>1 DEF Contents, Copy
  <2>5. Elems' = Elems /\ Statement' = None
    BY <1>10, QuietElems DEF EndLoad, Statement
  <2>6. Python!EndLoad(i)
    BY <1>10, <2>1, <2>2, <2>3, <2>4, <2>5 DEF EndLoad, Python!EndLoad
  <2>7. QED  BY <2>6 DEF Python!Next, Bounds, Python!Bounds
<1>11. ASSUME NEW x \in Names, NEW a \in Bounds, NEW b \in Bounds, EndSlice(x, a, b)
       PROVE  Python!Next
  <2> DEFINE from == Clamp(a, open.len)
             n == Larger(Clamp(b, open.len) - from, 0)
             s == Copy(open.data, from, n)
             t == SubSeq(Elems[open.list], a + 1, Lower(b, Len(Elems[open.list])))
  <2>1. /\ open # None /\ open.op = "slice" /\ open.list \in Lists
        /\ a \in Nat /\ b \in Nat /\ Build(x, s)
    BY <1>11, OpenIs DEF EndSlice, Bounds
  <2>2. Elems[open.list] = Contents(open.list) /\ SliceIsFresh
    BY <2>1, ElemsIs DEF IInv, Written
  <2>3. s = t
    BY <2>1, <2>2, SliceIs
  <2>4. s \in Seq(Contained)
    BY <2>1, SliceContained
  <2> HIDE DEF s
  <2>5. Python!Bind(x, s)
    BY <2>1, <2>4, BuildBinds DEF IInv
  <2>6. Python!Bind(x, t)
    BY <2>3, <2>5
  <2>7. Statement # None /\ Statement.op = "slice" /\ Statement.list = open.list
    BY <2>1, StatementIs
  <2>8. Statement' = None
    BY <1>11 DEF EndSlice, Statement
  <2>9. Python!EndSlice(x, a, b)
    BY <1>11, <2>6, <2>7, <2>8 DEF EndSlice, Python!EndSlice, Lower, Python!Lower
  <2>10. QED  BY <2>9 DEF Python!Next, Bounds, Python!Bounds
<1>12. ASSUME NEW x \in Names, NEW z \in Names, EndConcat(x, z)
       PROVE  Python!Next
  <2> DEFINE s == Contents(open.list) \o Contents(slot[z])
  <2>1. /\ open # None /\ open.op = "concat" /\ open.list \in Lists
        /\ slot[z] \in Lists /\ HeapOK /\ Build(x, s)
    BY <1>12, OpenIs, NameIsList DEF EndConcat, IInv
  <2>2. s \in Seq(Contained)
    BY <2>1, ContentsIs, ConcatProperties
  <2>3. s = Elems[open.list] \o Elems[slot[z]]
    BY <2>1, ElemsIs
  <2> HIDE DEF s
  <2>4. Python!Bind(x, s)
    BY <2>1, <2>2, BuildBinds
  <2>5. Statement # None /\ Statement.op = "concat" /\ Statement.list = open.list
    BY <2>1, StatementIs
  <2>6. Statement' = None
    BY <1>12 DEF EndConcat, Statement
  <2>7. Python!EndConcat(x, z)
    BY <1>12, <2>3, <2>4, <2>5, <2>6 DEF EndConcat, Python!EndConcat
  <2>8. QED  BY <2>7 DEF Python!Next
<1>13. CASE UNCHANGED vars
  <2>1. UNCHANGED <<slot, Elems, Statement, ret>>
    BY <1>13, QuietElems DEF vars, Statement
  <2>2. QED  BY <2>1 DEF Python!vars
<1>14. QED
  BY <1>1, <1>2, <1>3, <1>4, <1>5, <1>6, <1>7, <1>8, <1>9, <1>10, <1>11, <1>12, <1>13
     DEF Next

(* What a name shows through any alias, after any appends, growths, stores, *)
(* slices and concatenations, is what Python shows, as long as no bound of  *)
(* a slice calls a function (list_slice) and no item assignment computes    *)
(* its subscript from the length (a hazard of PROJECT.json).                *)
THEOREM ListsAsPython ==
  ASSUME ~ SliceCalls, Last \notin Subscripts
  PROVE  Spec => ImplementsPyLists
<1>1. IInv /\ [Next]_vars => [Python!Next]_(Python!vars)
  BY StepRefines
<1>2. Spec => [][Next]_vars
  BY PTL DEF Spec
<1>3. QED
  BY <1>1, <1>2, InitRefines, SpecIInv, PTL
     DEF Spec, ImplementsPyLists, Python!Spec
=============================================================================
