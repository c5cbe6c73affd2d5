------------------------------- MODULE NvmProofs -------------------------------
(***************************************************************************)
(* Proofs about module NvmStorage for every number of pages, of records in *)
(* a page and of contents.  First what the passes of std::max_element and  *)
(* std::min_element compute, then the inductive invariant NvmInv: the      *)
(* first cell holds version 1 or none, a page fills from its start, and    *)
(* the versions stay below EmptyCell because every record of a later page  *)
(* is written once and between two of them the first page fills once.      *)
(***************************************************************************)
EXTENDS NvmStorage, ModuloFacts, WellFoundedInduction

Record == [version : 1 .. EmptyCell, data : Contents \cup {Blank}]
Flash == [Cell -> Record]
Written(mem, c) == mem[c].version # EmptyCell
Distinct(mem) == \A c, d \in Cell : mem[c].version = mem[d].version =>
                     c = d \/ ~Written(mem, c)

USE NvmAssumption

LEMMA CellFacts == /\ N \in Nat \ {0} /\ 1 \in Cell /\ N \in Cell
                   /\ CellsPerPage <= N
<1>1. CellsPerPage >= 1 /\ Pages >= 1 /\ Pages * CellsPerPage >= CellsPerPage
  OBVIOUS
<1> QED  BY <1>1 DEF N, Cell

LEMMA FirstOf ==
  ASSUME NEW S, S \subseteq Nat, S # {}
  PROVE  \E i \in S : \A j \in S : i <= j
<1> DEFINE R == OpToRel(<, Nat)
<1>1. IsWellFoundedOn(R, Nat)
  BY NatLessThanWellFounded
<1>2. \A i, j \in Nat : <<i, j>> \in R <=> i < j
  BY DEF OpToRel
<1> HIDE DEF R
<1>3. PICK i \in S : \A j \in S : ~ (<<j, i>> \in R)
  BY <1>1, WFMin
<1>4. \A j \in S : i <= j
  <2>1. \A j \in S : ~ (j < i)
    BY <1>2, <1>3, Zenon
  <2> QED  BY <2>1
<1> QED  BY <1>4

\* What the pass of std::max_element computes, once a function does it.
LEMMA MaxPass ==
  ASSUME NEW mem, NEW g,
         g = [i \in Cell |-> IF i = 1 THEN 1
                             ELSE IF VersionCmp(mem[g[i - 1]], mem[i]) THEN i ELSE g[i - 1]]
  PROVE  \E best : /\ MaxElement(mem) = best[N]
                   /\ best[1] = 1
                   /\ \A i \in Cell : i # 1 =>
                        best[i] = IF VersionCmp(mem[best[i - 1]], mem[i]) THEN i ELSE best[i - 1]
<1> DEFINE Pass(f) == [i \in Cell |-> IF i = 1 THEN 1
                          ELSE IF VersionCmp(mem[f[i - 1]], mem[i]) THEN i ELSE f[i - 1]]
           best == CHOOSE f : f = Pass(f)
<1>1. MaxElement(mem) = best[N]
  BY DEF MaxElement
<1>2. best = Pass(best)
  OBVIOUS
<1> HIDE DEF best
<1>3. \A i \in Cell : best[i] = IF i = 1 THEN 1
                          ELSE IF VersionCmp(mem[best[i - 1]], mem[i]) THEN i ELSE best[i - 1]
  BY <1>2
<1>4. best[1] = 1
  BY <1>3, CellFacts
<1> QED  BY <1>1, <1>3, <1>4

LEMMA MinPass ==
  ASSUME NEW mem, NEW g,
         g = [i \in Cell |-> IF i = 1 THEN 1
                             ELSE IF VersionCmp(mem[i], mem[g[i - 1]]) THEN i ELSE g[i - 1]]
  PROVE  \E best : /\ MinElement(mem) = best[N]
                   /\ best[1] = 1
                   /\ \A i \in Cell : i # 1 =>
                        best[i] = IF VersionCmp(mem[i], mem[best[i - 1]]) THEN i ELSE best[i - 1]
<1> DEFINE Pass(f) == [i \in Cell |-> IF i = 1 THEN 1
                          ELSE IF VersionCmp(mem[i], mem[f[i - 1]]) THEN i ELSE f[i - 1]]
           best == CHOOSE f : f = Pass(f)
<1>1. MinElement(mem) = best[N]
  BY DEF MinElement
<1>2. best = Pass(best)
  OBVIOUS
<1> HIDE DEF best
<1>3. \A i \in Cell : best[i] = IF i = 1 THEN 1
                          ELSE IF VersionCmp(mem[i], mem[best[i - 1]]) THEN i ELSE best[i - 1]
  BY <1>2
<1>4. best[1] = 1
  BY <1>3, CellFacts
<1> QED  BY <1>1, <1>3, <1>4

\* max_element does not get past a first cell that is empty.
LEMMA MaxStaysOnEmpty ==
  ASSUME NEW mem \in Flash, ~Written(mem, 1)
  PROVE  MaxElement(mem) = 1
<1> DEFINE g == [i \in Cell |-> 1]
<1>1. \A i \in Cell : ~VersionCmp(mem[1], mem[i])
  BY CellFacts DEF Flash, Record, Written, VersionCmp
<1>2. \A i \in Cell : i # 1 => i - 1 \in Cell
  BY CellFacts DEF Cell
<1>3. g = [i \in Cell |-> IF i = 1 THEN 1
                          ELSE IF VersionCmp(mem[g[i - 1]], mem[i]) THEN i ELSE g[i - 1]]
  BY <1>1, <1>2
<1> HIDE DEF g
<1>4. PICK best : /\ MaxElement(mem) = best[N]
                  /\ best[1] = 1
                  /\ \A i \in Cell : i # 1 =>
                       best[i] = IF VersionCmp(mem[best[i - 1]], mem[i]) THEN i ELSE best[i - 1]
  BY <1>3, MaxPass
<1> DEFINE S == {i \in Cell : best[i] # 1}
<1>5. S = {}
  <2> SUFFICES ASSUME S # {} PROVE FALSE
    OBVIOUS
  <2>1. PICK i \in S : \A j \in S : i <= j
    <3>1. S \subseteq Nat
      BY DEF Cell
    <3> HIDE DEF S
    <3> QED  BY <3>1, FirstOf
  <2>2. i \in Cell /\ best[i] # 1 /\ i # 1
    BY <1>4, <2>1
  <2>3. i - 1 \in Cell /\ i - 1 \notin S
    BY <1>2, <2>1, <2>2 DEF Cell
  <2> QED  BY <1>1, <1>4, <2>2, <2>3
<1> QED  BY <1>4, <1>5, CellFacts

\* min_element stays on the first cell when none is older.
LEMMA MinStaysOnFirst ==
  ASSUME NEW mem, \A c \in Cell : ~VersionCmp(mem[c], mem[1])
  PROVE  MinElement(mem) = 1
<1> DEFINE g == [i \in Cell |-> 1]
<1>2. \A i \in Cell : i # 1 => i - 1 \in Cell
  BY CellFacts DEF Cell
<1>3. g = [i \in Cell |-> IF i = 1 THEN 1
                          ELSE IF VersionCmp(mem[i], mem[g[i - 1]]) THEN i ELSE g[i - 1]]
  BY <1>2
<1> HIDE DEF g
<1>4. PICK best : /\ MinElement(mem) = best[N]
                  /\ best[1] = 1
                  /\ \A i \in Cell : i # 1 =>
                       best[i] = IF VersionCmp(mem[i], mem[best[i - 1]]) THEN i ELSE best[i - 1]
  BY <1>3, MinPass
<1> DEFINE S == {i \in Cell : best[i] # 1}
<1>5. S = {}
  <2> SUFFICES ASSUME S # {} PROVE FALSE
    OBVIOUS
  <2>1. PICK i \in S : \A j \in S : i <= j
    <3>1. S \subseteq Nat
      BY DEF Cell
    <3> HIDE DEF S
    <3> QED  BY <3>1, FirstOf
  <2>2. i \in Cell /\ best[i] # 1 /\ i # 1
    BY <1>4, <2>1
  <2>3. i - 1 \in Cell /\ i - 1 \notin S
    BY <1>2, <2>1, <2>2 DEF Cell
  <2> QED  BY <1>4, <2>2, <2>3
<1> QED  BY <1>4, <1>5, CellFacts

\* Behind a first cell that holds a record, max_element finds the newest one.
Newest(mem, i, j) ==
    /\ j \in 1 .. i /\ Written(mem, j)
    /\ \A k \in 1 .. i : Written(mem, k) => mem[k].version <= mem[j].version

LEMMA NewestExists ==
  ASSUME NEW mem \in Flash, Written(mem, 1), NEW i \in Cell
  PROVE  \E j : Newest(mem, i, j)
<1> DEFINE S == {EmptyCell - mem[j].version : j \in {k \in 1 .. i : Written(mem, k)}}
<1>0. 1 .. i \subseteq Cell /\ 1 \in 1 .. i
  BY CellFacts DEF Cell
<1>1. \A k \in Cell : mem[k].version \in 1 .. EmptyCell
  BY DEF Flash, Record
<1>2. S \subseteq Nat /\ S # {}
  <2>1. \A k \in 1 .. i : EmptyCell - mem[k].version \in Nat
    BY <1>0, <1>1
  <2> QED  BY <1>0, <2>1
<1>3. PICK s \in S : \A t \in S : s <= t
  <2> HIDE DEF S
  <2> QED  BY <1>2, FirstOf
<1>4. PICK j \in 1 .. i : Written(mem, j) /\ s = EmptyCell - mem[j].version
  BY <1>3
<1>5. ASSUME NEW k \in 1 .. i, Written(mem, k) PROVE mem[k].version <= mem[j].version
  <2>1. s <= EmptyCell - mem[k].version
    BY <1>3, <1>5
  <2> QED  BY <1>0, <1>1, <1>4, <2>1
<1> QED  BY <1>4, <1>5 DEF Newest

LEMMA NewestUnique ==
  ASSUME NEW mem \in Flash, Distinct(mem), NEW i \in Cell, NEW j, NEW k,
         Newest(mem, i, j), Newest(mem, i, k)
  PROVE  j = k
<1>1. j \in Cell /\ k \in Cell
  BY CellFacts DEF Newest, Cell
<1>2. mem[j].version <= mem[k].version /\ mem[k].version <= mem[j].version
  BY DEF Newest
<1>3. mem[j].version = mem[k].version
  BY <1>1, <1>2 DEF Flash, Record
<1> QED  BY <1>1, <1>3 DEF Distinct, Newest

LEMMA NewestStep ==
  ASSUME NEW mem \in Flash, NEW i \in Cell, i # 1, NEW j, Newest(mem, i - 1, j)
  PROVE  Newest(mem, i, IF VersionCmp(mem[j], mem[i]) THEN i ELSE j)
<1>1. i \in Nat /\ i - 1 \in Nat /\ j \in 1 .. i - 1 /\ Written(mem, j)
  BY CellFacts DEF Newest, Cell
<1>2. \A k \in 1 .. i : k \in 1 .. i - 1 \/ k = i
  BY <1>1
<1>3. \A k \in 1 .. i : mem[k].version \in 1 .. EmptyCell
  BY CellFacts DEF Flash, Record, Cell
<1>4. CASE VersionCmp(mem[j], mem[i])
  <2>1. Written(mem, i) /\ mem[j].version < mem[i].version
    BY <1>4 DEF VersionCmp, Written
  <2>2. \A k \in 1 .. i : Written(mem, k) => mem[k].version <= mem[i].version
    BY <1>1, <1>2, <1>3, <2>1 DEF Newest
  <2>3. i \in 1 .. i
    BY <1>1, CellFacts
  <2> QED  BY <1>4, <2>1, <2>2, <2>3 DEF Newest
<1>5. CASE ~VersionCmp(mem[j], mem[i])
  <2>1. Written(mem, i) => mem[i].version <= mem[j].version
    BY <1>1, <1>3, <1>5, CellFacts DEF VersionCmp, Written, Cell
  <2>2. \A k \in 1 .. i : Written(mem, k) => mem[k].version <= mem[j].version
    BY <1>1, <1>2, <2>1 DEF Newest
  <2>3. j \in 1 .. i
    BY <1>1
  <2> QED  BY <1>1, <1>5, <2>2, <2>3 DEF Newest
<1> QED  BY <1>4, <1>5

LEMMA MaxIsNewest ==
  ASSUME NEW mem \in Flash, Distinct(mem), Written(mem, 1)
  PROVE  Newest(mem, N, MaxElement(mem))
<1> DEFINE g == [i \in Cell |-> CHOOSE j : Newest(mem, i, j)]
<1>1. \A i \in Cell : Newest(mem, i, g[i])
  BY NewestExists
<1>2. \A i \in Cell : i # 1 => i - 1 \in Cell
  BY CellFacts DEF Cell
<1>3. Newest(mem, 1, 1)
  BY CellFacts DEF Newest, Flash, Record
<1>0. g = [i \in Cell |-> g[i]]
  OBVIOUS
<1> HIDE DEF g
<1>a. ASSUME NEW i \in Cell
      PROVE  g[i] = IF i = 1 THEN 1
                    ELSE IF VersionCmp(mem[g[i - 1]], mem[i]) THEN i ELSE g[i - 1]
  <2>1. CASE i = 1
    <3>1. Newest(mem, 1, g[1])
      BY <1>1, CellFacts
    <3> QED  BY <1>3, <2>1, <3>1, NewestUnique, CellFacts
  <2>2. CASE i # 1
    <3> DEFINE next == IF VersionCmp(mem[g[i - 1]], mem[i]) THEN i ELSE g[i - 1]
    <3>1. Newest(mem, i - 1, g[i - 1])
      BY <1>1, <1>2, <2>2
    <3>2. Newest(mem, i, g[i])
      BY <1>1
    <3>3. Newest(mem, i, next)
      BY <2>2, <3>1, NewestStep
    <3> HIDE DEF next
    <3>4. g[i] = next
      BY <3>2, <3>3, NewestUnique
    <3> QED  BY <2>2, <3>4 DEF next
  <2> QED  BY <2>1, <2>2
<1>4. g = [i \in Cell |-> IF i = 1 THEN 1
                          ELSE IF VersionCmp(mem[g[i - 1]], mem[i]) THEN i ELSE g[i - 1]]
  BY <1>0, <1>a
<1>5. PICK best : /\ MaxElement(mem) = best[N]
                  /\ best[1] = 1
                  /\ \A i \in Cell : i # 1 =>
                       best[i] = IF VersionCmp(mem[best[i - 1]], mem[i]) THEN i ELSE best[i - 1]
  BY <1>4, MaxPass
<1> DEFINE S == {i \in Cell : ~Newest(mem, i, best[i])}
<1>6. S = {}
  <2> SUFFICES ASSUME S # {} PROVE FALSE
    OBVIOUS
  <2>1. PICK i \in S : \A j \in S : i <= j
    <3>1. S \subseteq Nat
      BY DEF Cell
    <3> HIDE DEF S
    <3> QED  BY <3>1, FirstOf
  <2>2. i \in Cell /\ ~Newest(mem, i, best[i]) /\ i # 1
    BY <1>3, <1>5, <2>1
  <2>3. i - 1 \in Cell /\ Newest(mem, i - 1, best[i - 1])
    BY <1>2, <2>1, <2>2 DEF Cell
  <2>4. best[i] = IF VersionCmp(mem[best[i - 1]], mem[i]) THEN i ELSE best[i - 1]
    BY <1>5, <2>2
  <2>5. Newest(mem, i, IF VersionCmp(mem[best[i - 1]], mem[i]) THEN i ELSE best[i - 1])
    BY <2>2, <2>3, NewestStep
  <2> QED  BY <2>2, <2>4, <2>5
<1> QED  BY <1>5, <1>6, CellFacts

\* find_if.
LEMMA FirstEmptyFound ==
  ASSUME NEW mem \in Flash, \E c \in Cell : ~Written(mem, c)
  PROVE  LET c == FirstEmpty(mem)
         IN  /\ c \in Cell /\ ~Written(mem, c)
             /\ \A d \in Cell : d < c => Written(mem, d)
<1> DEFINE S == {c \in Cell : ~Written(mem, c)}
<1>1. PICK c \in S : \A d \in S : c <= d
  <2>1. S \subseteq Nat /\ S # {}
    BY DEF Cell
  <2> HIDE DEF S
  <2> QED  BY <2>1, FirstOf
<1>2. c \in Cell /\ c \in Nat /\ mem[c].version = EmptyCell
  BY <1>1 DEF Written, Cell
<1>3. \A d \in 1 .. c - 1 : mem[d].version # EmptyCell
  <2> SUFFICES ASSUME NEW d \in 1 .. c - 1 PROVE Written(mem, d)
    BY DEF Written
  <2>1. d \in Cell /\ ~(c <= d)
    BY <1>2, CellFacts DEF Cell
  <2> QED  BY <1>1, <2>1
<1>4. /\ FirstEmpty(mem) \in Cell /\ mem[FirstEmpty(mem)].version = EmptyCell
      /\ \A d \in 1 .. FirstEmpty(mem) - 1 : mem[d].version # EmptyCell
  BY <1>2, <1>3 DEF FirstEmpty
<1>5. \A d \in Cell : d < FirstEmpty(mem) => d \in 1 .. FirstEmpty(mem) - 1
  BY <1>4 DEF Cell
<1> QED  BY <1>4, <1>5 DEF Written

\* The first page.
LEMMA FirstPageFacts ==
  /\ PageOf(1) = 0 /\ PageStart(PageOf(1)) = 1
  /\ \A c \in Cell : PageOf(c) = PageOf(1) <=> c <= CellsPerPage
<1>1. \A c \in Cell : PageOf(c) = 0 <=> c <= CellsPerPage
  <2> SUFFICES ASSUME NEW c \in Cell PROVE PageOf(c) = 0 <=> c <= CellsPerPage
    OBVIOUS
  <2> DEFINE q == (c - 1) \div CellsPerPage
             r == (c - 1) % CellsPerPage
  <2>1. q \in Int /\ r \in 0 .. CellsPerPage - 1 /\ c - 1 = CellsPerPage * q + r /\ c \in Nat /\ c >= 1
    <3>1. c \in Nat /\ c >= 1 /\ c - 1 \in Int
      BY DEF Cell
    <3> QED  BY <3>1, DivMod
  <2> HIDE DEF q, r
  <2>2. q = 0 => c <= CellsPerPage
    BY <2>1
  <2>3. ASSUME c <= CellsPerPage PROVE q = 0
    <3>1. CellsPerPage * 0 + (c - 1) = CellsPerPage * q + r /\ c - 1 \in 0 .. CellsPerPage - 1
      BY <2>1, <2>3
    <3> QED  BY <2>1, <3>1, QuotientUnique
  <2> QED  BY <2>2, <2>3 DEF PageOf, q
<1>2. PageOf(1) = 0
  BY <1>1, CellFacts
<1>3. 0 * CellsPerPage + 1 = 1
  OBVIOUS
<1> QED  BY <1>1, <1>2, <1>3 DEF PageStart

-----------------------------------------------------------------------------
FirstPage == 1 .. CellsPerPage
Filled(c) == Written(cells, c)
VersionFirst == layout = <<"version", "data">>
Call == [pc : {"idle", "append", "erase", "rewrite"}, cell : Cell, at : {1, 2}, rec : Record]

TypeOK ==
    /\ cells \in Flash
    /\ layout \in {<<"version", "data">>, <<"data", "version">>}
    /\ op \in Call
    /\ acked \in Contents \cup {Blank} /\ pending \subseteq Contents
    /\ erased \in BOOLEAN /\ behind \in Nat

FirstIsOne ==
    /\ Filled(1) => cells[1].version = 1
    /\ \A c \in Cell : c # 1 /\ Filled(c) => cells[c].version > 1

\* d is filled after c: in one page, or in any two before the first erase.
After(c, d) == c < d /\ (d \in FirstPage \/ c \notin FirstPage \/ ~erased)

InOrder == \A c, d \in Cell : After(c, d) /\ ~Filled(c) => cells[d] = Erased

\* The version of the record before cell e of a later page is at most Base(e) + 1.
Base(e) == CellsPerPage * (e - CellsPerPage - 1)
IsFree(e) == e \in Cell => ~Filled(e)
Allowed(c, v) ==
    IF c \in FirstPage
    THEN \A e \in CellsPerPage + 1 .. N + 1 : IsFree(e) => v <= Base(e) + c
    ELSE v <= Base(c + 1) + 1
InBounds == \A c \in Cell : Filled(c) => Allowed(c, cells[c].version)

WordOrder ==
    \A c \in Cell : IF VersionFirst THEN Filled(c) \/ cells[c] = Erased
                                    ELSE Filled(c) => cells[c].data # Blank

CellsInv == FirstIsOne /\ VersionsDistinct /\ InOrder /\ InBounds /\ WordOrder

CallOK ==
    op.pc # "idle" =>
      /\ op.rec.data \in Contents
      /\ ~Filled(1) => op.rec.version = 1
      /\ op.pc # "append" => op.cell = 1
      /\ op.pc = "append" => \A d \in Cell : d < op.cell => Filled(d)
      /\ op.pc = "append" /\ op.at = 1 => ~Filled(op.cell)
      /\ op.pc = "erase" => op.at = 1

\* Between the two words of a record.
HalfWay ==
    op.pc # "idle" /\ op.at = 2 =>
      /\ \A d \in Cell : After(op.cell, d) => cells[d] = Erased
      /\ IF VersionFirst
         THEN cells[op.cell] = [version |-> op.rec.version, data |-> Blank] /\ Filled(op.cell)
         ELSE cells[op.cell] = [version |-> EmptyCell, data |-> op.rec.data]

AppendOK ==
    op.pc = "append" /\ op.cell # 1 =>
      /\ op.rec.version > 1
      /\ \A d \in Cell : d # op.cell /\ Filled(d) => cells[d].version < op.rec.version
      /\ Allowed(op.cell, op.rec.version)

Writing(c) == op.pc = "append" /\ op.cell = c

\* The content of the first record is there without its version, and no call is
\* about to program that.
Torn == ~Filled(1) /\ cells[1] # Erased /\ ~(Writing(1) /\ op.at = 2)

\* While Read may be behind, the first page has at most its first record.
BehindOK ==
    CellsPerPage >= 2 /\ behind # 0 =>
      /\ op.pc \in {"idle", "append"} \/ (op.pc = "erase" /\ Torn)
      /\ op.pc = "append" => op.cell \in {1, 2}
      /\ behind <= 3
      /\ behind = 3 => Filled(1) /\ ~Writing(1)
      /\ Torn => behind = 1 /\ acked = cells[1].data
      /\ \A c \in 2 .. CellsPerPage : cells[c] = Erased \/ Writing(c)
      /\ op.pc = "append" /\ op.at = 1 => cells[op.cell] = Erased \/ Torn

NothingYet ==
    ~erased /\ ~Filled(1) => acked = Blank \/ (~VersionFirst /\ cells[1].data = acked)

Durable ==
    ~erased =>
      \/ Read(cells) \in {acked} \cup pending
      \/ VersionFirst /\ cells[MaxElement(cells)].data = Blank
      \/ ~VersionFirst /\ cells[1] = [version |-> EmptyCell, data |-> acked]

NvmInv == /\ TypeOK /\ CellsInv /\ CallOK /\ HalfWay /\ AppendOK
          /\ BehindOK /\ NothingYet /\ Durable

LEMMA BaseFacts ==
  /\ \A e \in Int : Base(e) \in Int /\ Base(e + 1) = Base(e) + CellsPerPage
  /\ \A e, f \in Int : e <= f => Base(e) <= Base(f)
  /\ \A e \in Int : e >= CellsPerPage + 1 => Base(e) >= 0
  /\ Base(N + 1) + CellsPerPage < EmptyCell
<1>1. \A x, y \in Int : x <= y => CellsPerPage * x <= CellsPerPage * y
  OBVIOUS
<1>2. \A e \in Int : Base(e) \in Int /\ Base(e + 1) = Base(e) + CellsPerPage
  BY DEF Base
<1>3. \A e, f \in Int : e <= f => Base(e) <= Base(f)
  BY <1>1 DEF Base
<1>4. \A e \in Int : e >= CellsPerPage + 1 => Base(e) >= 0
  <2>1. Base(CellsPerPage + 1) = 0
    BY DEF Base
  <2> QED  BY <1>3, <2>1
<1>5. Base(N + 1) + CellsPerPage < EmptyCell
  <2>1. Base(N + 1) + CellsPerPage = CellsPerPage * (N - CellsPerPage + 1)
    BY CellFacts DEF Base
  <2> QED  BY <2>1
<1> QED  BY <1>2, <1>3, <1>4, <1>5

LEMMA EmptyIsBig == EmptyCell > 1
<1>1. N + 1 >= CellsPerPage + 1 /\ N + 1 \in Int
  BY CellFacts
<1> QED  BY <1>1, BaseFacts

\* A version that is allowed for a cell is no EmptyCell.
LEMMA AllowedIsSmall ==
  ASSUME TypeOK, NEW c \in Cell, NEW v \in Nat, Allowed(c, v)
  PROVE  v < EmptyCell
<1>0. c \in 1 .. N /\ N \in Nat /\ CellsPerPage <= N
  BY CellFacts DEF Cell
<1>1. CASE c \in FirstPage
  <2>1. N + 1 \in CellsPerPage + 1 .. N + 1 /\ IsFree(N + 1)
    BY <1>0 DEF IsFree, Cell
  <2>2. v <= Base(N + 1) + c /\ c <= CellsPerPage
    BY <1>1, <2>1 DEF Allowed, FirstPage
  <2> QED  BY <1>0, <2>2, BaseFacts
<1>2. CASE c \notin FirstPage
  <2>1. v <= Base(c + 1) + 1 /\ Base(c + 1) <= Base(N + 1)
    BY <1>0, <1>2, BaseFacts DEF Allowed
  <2> QED  BY <1>0, <2>1, BaseFacts
<1> QED  BY <1>1, <1>2

LEMMA LatestFacts ==
  ASSUME NEW mem \in Flash, Distinct(mem)
  PROVE  LET m == MaxElement(mem)
         IN  /\ m \in Cell
             /\ ~Written(mem, 1) => m = 1
             /\ Written(mem, 1) => /\ Written(mem, m)
                                   /\ \A c \in Cell : Written(mem, c) =>
                                        mem[c].version <= mem[m].version
<1>1. CASE ~Written(mem, 1)
  BY <1>1, MaxStaysOnEmpty, CellFacts
<1>2. CASE Written(mem, 1)
  BY <1>2, MaxIsNewest DEF Newest, Cell
<1> QED  BY <1>1, <1>2

\* The newest record is where max_element looks.
LEMMA LatestIs ==
  ASSUME NEW mem \in Flash, Distinct(mem), NEW c \in Cell, Written(mem, c), Written(mem, 1),
         \A d \in Cell : d # c /\ Written(mem, d) => mem[d].version < mem[c].version
  PROVE  MaxElement(mem) = c /\ Read(mem) = mem[c].data
<1> DEFINE m == MaxElement(mem)
<1>1. m \in Cell /\ Written(mem, m) /\ mem[c].version <= mem[m].version
  BY LatestFacts
<1> HIDE DEF m
<1>2. m = c
  <2>1. mem[c].version \in Nat /\ mem[m].version \in Nat
    BY <1>1 DEF Flash, Record
  <2> QED  BY <1>1, <2>1
<1> QED  BY <1>2 DEF m, Read, Written

LEMMA CellsDistinct == VersionsDistinct <=> Distinct(cells)
BY DEF VersionsDistinct, Distinct, Written

\* The oldest record is the first one, so it is the first page that is erased.
LEMMA OldestIsFirst ==
  ASSUME TypeOK, FirstIsOne
  PROVE  MinElement(cells) = 1
<1>1. ASSUME NEW c \in Cell PROVE ~VersionCmp(cells[c], cells[1])
  <2>1. cells[c].version \in 1 .. EmptyCell
    BY DEF TypeOK, Flash, Record
  <2> QED  BY <2>1 DEF FirstIsOne, Filled, Written, VersionCmp
<1> QED  BY <1>1, MinStaysOnFirst

-----------------------------------------------------------------------------

LEMMA InitNvmInv == Init => NvmInv
<1> SUFFICES ASSUME Init PROVE NvmInv
  OBVIOUS
<1>1. /\ cells = [c \in Cell |-> Erased] /\ op = Nothing
      /\ acked = Blank /\ pending = {} /\ erased = FALSE /\ behind = 0
      /\ layout \in {<<"version", "data">>, <<"data", "version">>}
  BY DEF Init
<1>2. Erased \in Record /\ Erased.version = EmptyCell /\ Erased.data = Blank
  BY EmptyIsBig DEF Erased, Record
<1>3. Nothing \in Call /\ Nothing.pc = "idle"
  BY <1>2, CellFacts DEF Nothing, Call
<1>4. TypeOK
  BY <1>1, <1>2, <1>3 DEF TypeOK, Flash
<1>5. \A c \in Cell : ~Filled(c) /\ cells[c] = Erased
  BY <1>1, <1>2 DEF Filled, Written
<1>6. CellsInv
  BY <1>2, <1>5, CellFacts, CellsDistinct
     DEF CellsInv, FirstIsOne, Distinct, Filled, InOrder, InBounds, WordOrder
<1>7. CallOK /\ HalfWay /\ AppendOK /\ BehindOK /\ NothingYet
  BY <1>1, <1>3 DEF CallOK, HalfWay, AppendOK, BehindOK, NothingYet
<1>8. Durable
  <2>1. MaxElement(cells) = 1
    BY <1>4, <1>5, CellFacts, MaxStaysOnEmpty DEF TypeOK, Filled
  <2>2. Read(cells) = Blank
    BY <1>2, <1>5, <2>1, CellFacts DEF Read
  <2> QED  BY <1>1, <2>2 DEF Durable
<1> QED  BY <1>4, <1>6, <1>7, <1>8 DEF NvmInv

-----------------------------------------------------------------------------
(* Steps that leave the flash alone. *)

LEMMA CellsUntouched ==
  ASSUME CellsInv, UNCHANGED <<cells, layout, erased>>
  PROVE  CellsInv'
BY DEF CellsInv, FirstIsOne, VersionsDistinct, InOrder, After, InBounds, Allowed, IsFree,
       WordOrder, VersionFirst, Filled, Written

LEMMA OpFacts ==
  ASSUME TypeOK
  PROVE  /\ op.pc \in {"idle", "append", "erase", "rewrite"}
         /\ op.cell \in Cell /\ op.at \in {1, 2} /\ op.rec \in Record
         /\ op.rec.version \in 1 .. EmptyCell /\ op.rec.data \in Contents \cup {Blank}
BY DEF TypeOK, Call, Record

\* A Return leaves no call in progress.
LEMMA ReturnEnds ==
  ASSUME op' = Nothing
  PROVE  op' \in Call /\ op'.pc = "idle" /\ CallOK' /\ HalfWay' /\ AppendOK'
         /\ \A c : ~Writing(c)'
<1>1. op' \in Call /\ op'.pc = "idle"
  BY EmptyIsBig, CellFacts DEF Nothing, Call, Erased, Record
<1> QED  BY <1>1 DEF CallOK, HalfWay, AppendOK, Writing

\* Write finds its content in the newest cell.
LEMMA SameStep ==
  ASSUME NvmInv, NEW d \in Contents, WriteSame(d)  PROVE NvmInv'
<1> USE DEF NvmInv
<1>0. /\ UNCHANGED <<cells, layout, erased>> /\ op' = Nothing /\ op.pc = "idle"
      /\ acked' = d /\ pending' = {} /\ behind' = Lag(d, cells)
      /\ cells[MaxElement(cells)].data = d
  BY DEF WriteSame, Return
<1>a. behind' \in Nat
  BY <1>0 DEF TypeOK, Lag
<1>1. CellsInv'
  BY <1>0, CellsUntouched
<1>2. op' \in Call /\ op'.pc = "idle" /\ CallOK' /\ HalfWay' /\ AppendOK' /\ \A c : ~Writing(c)'
  BY <1>0, ReturnEnds
<1>3. TypeOK'
  BY <1>0, <1>a, <1>2 DEF TypeOK
<1>5. CASE Filled(1)
  <2>1. Read(cells) = d
    BY <1>0, <1>5, CellsDistinct, LatestFacts
       DEF CellsInv, TypeOK, Read, Filled, Written
  <2>2. BehindOK'
    BY <1>0, <2>1 DEF Lag, BehindOK
  <2> QED  BY <1>0, <1>1, <1>2, <1>3, <1>5, <2>1, <2>2 DEF NothingYet, Durable, Filled
<1>6. CASE ~Filled(1)
  <2>1. MaxElement(cells) = 1 /\ cells[1].data = d
    BY <1>0, <1>6, MaxStaysOnEmpty DEF TypeOK, Filled
  <2>2. d # Blank
    OBVIOUS
  <2>3. ~VersionFirst
    BY <1>6, <2>1, <2>2, CellFacts DEF CellsInv, WordOrder, Erased
  <2>4. cells[1] = [version |-> EmptyCell, data |-> d]
    BY <1>6, <2>1, CellFacts DEF TypeOK, Flash, Record, Filled, Written
  <2>5. BehindOK'
    <3> SUFFICES ASSUME CellsPerPage >= 2 PROVE BehindOK'
      BY DEF BehindOK
    <3>1. Torn /\ Torn' /\ cells'[1].data = d
      BY <1>0, <1>2, <1>6, <2>2, <2>4 DEF Torn, Filled, Writing, Erased
    <3>2. \A c \in 2 .. CellsPerPage : cells'[c] = Erased
      <4>1. \A c \in 2 .. CellsPerPage : c \in Cell /\ After(1, c)
        BY CellFacts DEF Cell, After, FirstPage
      <4> QED  BY <1>0, <1>6, <4>1, CellFacts DEF CellsInv, InOrder
    <3>3. behind' = 1
      <4>1. Read(cells) # d
        BY <1>6, <2>1, <2>2 DEF Read, Filled, Written
      <4>2. behind # 0 => behind = 1 /\ acked = d
        BY <2>1, <3>1 DEF BehindOK
      <4> QED  BY <1>0, <4>1, <4>2 DEF Lag, TypeOK
    <3> QED  BY <1>0, <1>2, <3>1, <3>2, <3>3 DEF BehindOK
  <2> QED  BY <1>0, <1>1, <1>2, <1>3, <1>6, <2>1, <2>3, <2>4, <2>5
           DEF NothingYet, Durable, Filled, VersionFirst
<1> QED  BY <1>5, <1>6

\* The version Write gives to the record it appends is allowed there.
LEMMA NextIsAllowed ==
  ASSUME TypeOK, CellsInv, Filled(1),
         NEW c \in Cell, ~Filled(c), \A d \in Cell : d < c => Filled(d),
         NEW m \in Cell, Filled(m)
  PROVE  Allowed(c, cells[m].version + 1)
<1>0. /\ c \in Nat /\ m \in Nat /\ 1 <= c /\ c <= N /\ 1 <= m /\ m <= N
      /\ N \in Nat /\ CellsPerPage \in Nat /\ CellsPerPage <= N /\ c # 1
      /\ cells[m].version \in Nat
  BY CellFacts DEF Cell, TypeOK, Flash, Record
<1>1. Allowed(m, cells[m].version)
  BY DEF CellsInv, InBounds
<1>2. \A e \in Cell : e < m /\ (m \in FirstPage \/ e \notin FirstPage) => Filled(e)
  <2> SUFFICES ASSUME NEW e \in Cell, e < m, m \in FirstPage \/ e \notin FirstPage, ~Filled(e)
               PROVE FALSE
    OBVIOUS
  <2>1. cells[m] = Erased
    BY DEF CellsInv, InOrder, After
  <2> QED  BY <2>1 DEF Filled, Written, Erased
<1>3. CASE c \in FirstPage
  <2> SUFFICES ASSUME NEW e \in CellsPerPage + 1 .. N + 1, IsFree(e)
               PROVE  cells[m].version + 1 <= Base(e) + c
    BY <1>3 DEF Allowed
  <2>0. e \in Int /\ Base(e) \in Int /\ e \notin FirstPage
    BY <1>0, BaseFacts DEF FirstPage
  <2>1. CASE m \in FirstPage
    <3>1. cells[m].version <= Base(e) + m
      BY <1>1, <2>1 DEF Allowed
    <3>2. m < c
      BY <1>0, <1>2, <2>1
    <3> QED  BY <1>0, <2>0, <3>1, <3>2
  <2>2. CASE m \notin FirstPage
    <3>1. m < e
      <4>1. CASE e \in Cell
        BY <1>0, <1>2, <2>0, <4>1 DEF IsFree
      <4>2. CASE e \notin Cell
        BY <1>0, <4>2 DEF Cell
      <4> QED  BY <4>1, <4>2
    <3>2. Base(m + 1) <= Base(e) /\ Base(m + 1) \in Int
      BY <1>0, <2>0, <3>1, BaseFacts
    <3>3. cells[m].version <= Base(m + 1) + 1
      BY <1>1, <2>2 DEF Allowed
    <3> QED  BY <1>0, <2>0, <3>2, <3>3
  <2> QED  BY <2>1, <2>2
<1>4. CASE c \notin FirstPage
  <2>0. Base(c) \in Int /\ Base(c + 1) = Base(c) + CellsPerPage /\ c > CellsPerPage
    BY <1>0, <1>4, BaseFacts DEF FirstPage
  <2>1. CASE m \in FirstPage
    <3>1. c \in CellsPerPage + 1 .. N + 1 /\ IsFree(c)
      BY <1>0, <2>0 DEF IsFree
    <3>2. cells[m].version <= Base(c) + m /\ m <= CellsPerPage
      BY <1>1, <2>1, <3>1 DEF Allowed, FirstPage
    <3> QED  BY <1>0, <1>4, <2>0, <3>2 DEF Allowed
  <2>2. CASE m \notin FirstPage
    <3>1. m < c
      BY <1>0, <1>2, <1>4
    <3>2. Base(m + 1) <= Base(c) /\ Base(m + 1) \in Int
      BY <1>0, <3>1, BaseFacts
    <3>3. cells[m].version <= Base(m + 1) + 1
      BY <1>1, <2>2 DEF Allowed
    <3>4. cells[m].version + 1 <= Base(c + 1) + 1
      BY <1>0, <2>0, <3>2, <3>3
    <3> QED  BY <1>4, <3>4 DEF Allowed
  <2> QED  BY <2>1, <2>2
<1> QED  BY <1>3, <1>4

\* Write chooses the version and the cell.
LEMMA NewStep ==
  ASSUME NvmInv, NEW d \in Contents, WriteNew(d)  PROVE NvmInv'
<1> USE DEF NvmInv
<1> DEFINE m == MaxElement(cells)
           v == NextVersion(cells[m])
           c == FirstEmpty(cells)
           rec == [version |-> v, data |-> d]
           room == \E x \in Cell : ~Filled(x)
<1>0. /\ op.pc = "idle" /\ UNCHANGED <<cells, layout, acked, pending, erased, behind>>
      /\ room => op' = [pc |-> "append", cell |-> c, at |-> 1, rec |-> rec]
      /\ ~room => op' = [pc |-> "erase", cell |-> 1, at |-> 1, rec |-> rec]
  BY OldestIsFirst DEF WriteNew, Filled, Written, CellsInv
<1>1. CellsInv'
  BY <1>0, CellsUntouched
<1>2. /\ m \in Cell /\ (~Filled(1) => m = 1)
      /\ Filled(1) => Filled(m) /\ \A x \in Cell : Filled(x) => cells[x].version <= cells[m].version
  BY CellsDistinct, LatestFacts DEF CellsInv, TypeOK, Filled
<1>3. room => c \in Cell /\ ~Filled(c) /\ \A x \in Cell : x < c => Filled(x)
  BY FirstEmptyFound DEF TypeOK, Filled
<1> HIDE DEF m, c
<1>4. cells[m].version \in 1 .. EmptyCell
  BY <1>2 DEF TypeOK, Flash, Record
<1>5. /\ v \in 1 .. EmptyCell /\ (~Filled(1) => v = 1)
      /\ Filled(1) => v = cells[m].version + 1
  BY <1>2, <1>4, EmptyIsBig DEF NextVersion, Filled, Written
<1> HIDE DEF v
<1>6. rec \in Record /\ rec.version = v /\ rec.data = d
  BY <1>5 DEF Record
<1> HIDE DEF rec, room
<1>7. op' \in Call /\ op'.rec = rec /\ op'.at = 1
  BY <1>0, <1>3, <1>6, CellFacts DEF Call
<1>8. TypeOK'
  BY <1>0, <1>7 DEF TypeOK
<1>9. /\ room => op'.pc = "append" /\ op'.cell = c
      /\ ~room => op'.pc = "erase" /\ op'.cell = 1
  BY <1>0
<1>10. CallOK' /\ HalfWay'
  BY <1>0, <1>3, <1>5, <1>6, <1>7, <1>9 DEF CallOK, HalfWay, Filled, room
<1>11. AppendOK'
  <2> SUFFICES ASSUME room, c # 1
               PROVE  /\ v > 1 /\ \A x \in Cell : x # c /\ Filled(x) => cells[x].version < v
                      /\ Allowed(c, v)
    BY <1>0, <1>6, <1>7, <1>9 DEF AppendOK, Filled, Allowed, IsFree
  <2>1. Filled(1)
    BY <1>3, CellFacts DEF Cell
  <2>2. \A x \in Cell : cells[x].version \in Nat
    BY DEF TypeOK, Flash, Record
  <2> QED  BY <1>2, <1>3, <1>4, <1>5, <2>1, <2>2, NextIsAllowed
<1>12. BehindOK'
  <2> SUFFICES ASSUME CellsPerPage >= 2, behind # 0  PROVE BehindOK'
    BY <1>0 DEF BehindOK
  <2>0. /\ behind <= 3 /\ (behind = 3 => Filled(1))
        /\ \A x \in 2 .. CellsPerPage : cells[x] = Erased
        /\ Filled(1) \/ cells[1] = Erased \/ Torn
        /\ Torn => behind = 1 /\ acked = cells[1].data
    BY <1>0 DEF BehindOK, Writing, Torn
  <2>1. 2 \in Cell /\ cells[2] = Erased /\ ~Filled(2)
    BY <2>0, CellFacts DEF Cell, Filled, Written, Erased
  <2>2. room
    BY <2>1 DEF room
  <2>3. c \in {1, 2} /\ (c = 1 <=> ~Filled(1)) /\ (cells[c] = Erased \/ Torn)
    BY <1>3, <2>0, <2>1, <2>2, CellFacts DEF Cell
  <2>4. op'.pc = "append" /\ op'.cell = c
    BY <1>9, <2>2
  <2>5. Torn' <=> Torn
    BY <1>0, <1>7 DEF Torn, Filled, Writing
  <2> QED  BY <1>0, <2>0, <2>3, <2>4, <2>5 DEF BehindOK, Writing, Filled
<1>13. NothingYet' /\ Durable'
  BY <1>0 DEF NothingYet, Durable, Filled, VersionFirst
<1> QED  BY <1>1, <1>8, <1>10, <1>11, <1>12, <1>13

\* A record that cannot be appended leads to an erase, one that cannot be
\* written instead of an erase to a failure.
LEMMA FailsStep ==
  ASSUME NvmInv, ProgramFails  PROVE NvmInv'
<1> USE DEF NvmInv
<1>0. UNCHANGED <<cells, layout, erased>> /\ op.pc \in {"append", "rewrite"}
  BY DEF ProgramFails, Return
<1>1. CellsInv'
  BY <1>0, CellsUntouched
<1>2. CASE op.pc = "append"
  <2>1. /\ op' = [op EXCEPT !.pc = "erase", !.cell = 1, !.at = 1]
        /\ behind' = (IF WordFits THEN 0 ELSE behind) /\ UNCHANGED <<acked, pending>>
    BY <1>2, OldestIsFirst DEF ProgramFails, CellsInv
  <2>2. op' \in Call /\ op'.pc = "erase" /\ op'.cell = 1 /\ op'.at = 1 /\ op'.rec = op.rec
    BY <2>1, CellFacts DEF TypeOK, Call
  <2>3. ASSUME CellsPerPage >= 2, behind # 0, ~Torn PROVE behind' = 0
    <3>1. op.at = 1 => cells[op.cell] = Erased
      BY <1>2, <2>3 DEF BehindOK
    <3>2. op.at = 2 => cells[op.cell][layout[2]] = Erased[layout[2]]
      BY <1>2 DEF HalfWay, VersionFirst, TypeOK, Erased
    <3> QED  BY <2>1, <3>1, <3>2, OpFacts DEF WordFits
  <2>4. behind' \in Nat /\ (behind' = 0 \/ behind' = behind)
    BY <2>1 DEF TypeOK
  <2>5. TypeOK'
    BY <1>0, <2>1, <2>2, <2>4 DEF TypeOK
  <2>8. BehindOK'
    <3> SUFFICES ASSUME CellsPerPage >= 2, behind' # 0 PROVE BehindOK'
      BY DEF BehindOK
    <3>1. Torn /\ behind' = behind /\ behind # 0
      BY <2>3, <2>4
    <3>2. Torn' /\ \A c : ~Writing(c)'
      BY <1>0, <2>2, <3>1 DEF Torn, Filled, Writing
    <3>3. behind = 1 /\ acked = cells[1].data
      BY <3>1 DEF BehindOK
    <3>4. \A c \in 2 .. CellsPerPage : cells[c] = Erased
      <4>1. \A c \in 2 .. CellsPerPage : c \in Cell /\ After(1, c)
        BY CellFacts DEF Cell, After, FirstPage
      <4> QED  BY <3>1, <4>1, CellFacts DEF CellsInv, InOrder, Torn
    <3> QED  BY <1>0, <2>1, <2>2, <3>1, <3>2, <3>3, <3>4 DEF BehindOK
  <2>6. CallOK' /\ HalfWay' /\ AppendOK'
    BY <1>0, <1>2, <2>2 DEF CallOK, HalfWay, AppendOK, Filled
  <2>7. NothingYet' /\ Durable'
    BY <1>0, <2>1 DEF NothingYet, Durable, Filled, VersionFirst
  <2> QED  BY <1>1, <2>5, <2>6, <2>7, <2>8
<1>3. CASE op.pc = "rewrite"
  <2>1. /\ op' = Nothing /\ acked' = acked /\ pending' = pending \cup {op.rec.data}
        /\ behind' = behind
    BY <1>3 DEF ProgramFails, Return
  <2>2. op' \in Call /\ op'.pc = "idle" /\ CallOK' /\ HalfWay' /\ AppendOK' /\ \A c : ~Writing(c)'
    BY <2>1, ReturnEnds
  <2>3. op.rec.data \in Contents
    BY <1>3 DEF CallOK
  <2>4. TypeOK'
    BY <1>0, <2>1, <2>2, <2>3 DEF TypeOK
  <2>5. BehindOK'
    BY <1>3, <2>1 DEF BehindOK
  <2>6. NothingYet' /\ Durable'
    BY <1>0, <2>1 DEF NothingYet, Durable, Filled, VersionFirst
  <2> QED  BY <1>1, <2>2, <2>4, <2>5, <2>6
<1> QED  BY <1>0, <1>2, <1>3

LEMMA EraseFailsStep ==
  ASSUME NvmInv, EraseFails  PROVE NvmInv'
<1> USE DEF NvmInv
<1>0. /\ UNCHANGED <<cells, layout, acked, pending, erased>> /\ op.pc = "erase" /\ behind' = 0
      /\ op' = [op EXCEPT !.pc = "rewrite", !.cell = 1]
  BY FirstPageFacts DEF EraseFails, CallOK
<1>1. CellsInv'
  BY <1>0, CellsUntouched
<1>2. op' \in Call /\ op'.pc = "rewrite" /\ op'.cell = 1 /\ op'.at = 1 /\ op'.rec = op.rec
  BY <1>0, CellFacts DEF TypeOK, Call, CallOK
<1>3. TypeOK' /\ BehindOK'
  BY <1>0, <1>2 DEF TypeOK, BehindOK
<1>4. CallOK' /\ HalfWay' /\ AppendOK'
  BY <1>0, <1>2 DEF CallOK, HalfWay, AppendOK, Filled
<1>5. NothingYet' /\ Durable'
  BY <1>0 DEF NothingYet, Durable, Filled, VersionFirst
<1> QED  BY <1>1, <1>3, <1>4, <1>5

LEMMA PowerStep ==
  ASSUME NvmInv, PowerLoss  PROVE NvmInv'
<1> USE DEF NvmInv
<1>0. /\ UNCHANGED <<cells, layout, acked, erased>> /\ op.pc # "idle" /\ op' = Nothing
      /\ pending' = pending \cup {op.rec.data} /\ behind' = 0
  BY DEF PowerLoss
<1>1. CellsInv'
  BY <1>0, CellsUntouched
<1>2. op' \in Call /\ op'.pc = "idle" /\ CallOK' /\ HalfWay' /\ AppendOK'
  BY <1>0, ReturnEnds
<1>3. op.rec.data \in Contents
  BY <1>0 DEF CallOK
<1>4. TypeOK' /\ BehindOK'
  BY <1>0, <1>2, <1>3 DEF TypeOK, BehindOK
<1>5. NothingYet' /\ Durable'
  BY <1>0 DEF NothingYet, Durable, Filled, VersionFirst
<1> QED  BY <1>1, <1>2, <1>4, <1>5

\* A page is erased: the first.
LEMMA EraseStep ==
  ASSUME NvmInv, ErasePage  PROVE NvmInv'
<1> USE DEF NvmInv
<1>0. /\ op.pc = "erase" /\ op.cell = 1 /\ op.rec.data \in Contents
      /\ op' = Nothing /\ erased' = TRUE /\ acked' = op.rec.data /\ pending' = {}
      /\ layout' = layout
      /\ behind' = Lag(op.rec.data, cells')
  BY DEF ErasePage, Return, CallOK
<1>1. cells' = [c \in Cell |-> IF c \in FirstPage THEN Erased ELSE cells[c]]
  <2>1. \A c \in Cell : PageOf(c) = PageOf(1) <=> c \in FirstPage
    BY FirstPageFacts, CellFacts DEF FirstPage, Cell
  <2>2. cells' = [c \in Cell |-> IF PageOf(c) = PageOf(1) THEN Erased ELSE cells[c]]
    BY <1>0 DEF ErasePage
  <2> QED  BY <2>1, <2>2
<1>2. Erased \in Record /\ Erased.version = EmptyCell /\ Erased.data = Blank
  BY EmptyIsBig DEF Erased, Record
<1>3. \A c \in Cell : /\ c \in FirstPage => cells'[c] = Erased /\ ~Filled(c)'
                      /\ c \notin FirstPage => cells'[c] = cells[c] /\ (Filled(c)' <=> Filled(c))
  BY <1>1, <1>2 DEF Filled, Written
<1>4. 1 \in FirstPage /\ ~Filled(1)' /\ cells'[1] = Erased
  BY <1>3, CellFacts DEF FirstPage
<1>5. cells' \in Flash
  BY <1>1, <1>2 DEF TypeOK, Flash
<1>6. Read(cells') = Blank
  BY <1>2, <1>4, <1>5, MaxStaysOnEmpty DEF Read, Filled
<1>7. behind' \in Nat /\ behind' # 0 /\ behind' <= behind + 1
  BY <1>0, <1>6 DEF Lag, TypeOK
<1>8. op' \in Call /\ op'.pc = "idle" /\ CallOK' /\ HalfWay' /\ AppendOK' /\ \A c : ~Writing(c)'
  BY <1>0, ReturnEnds
<1>9. TypeOK'
  <2>1. behind' \in Nat /\ erased' \in BOOLEAN
    BY <1>0, <1>7 DEF TypeOK
  <2> QED  BY <1>0, <1>5, <1>8, <2>1 DEF TypeOK
<1>10. CellsInv'
  <2>1. FirstIsOne' /\ VersionsDistinct'
    BY <1>3, <1>4 DEF CellsInv, FirstIsOne, VersionsDistinct, Filled, Written
  <2>2. InOrder'
    <3> SUFFICES ASSUME NEW c \in Cell, NEW d \in Cell, After(c, d)', ~Filled(c)'
                 PROVE  cells'[d] = Erased
      BY DEF InOrder
    <3>1. CASE d \in FirstPage
      BY <1>3, <3>1
    <3>2. CASE d \notin FirstPage
      <4>1. c \notin FirstPage /\ c < d
        BY <1>0, <3>2 DEF After
      <4> QED  BY <1>3, <3>2, <4>1 DEF CellsInv, InOrder, After
    <3> QED  BY <3>1, <3>2
  <2>3. InBounds'
    BY <1>3 DEF CellsInv, InBounds, Allowed
  <2>4. WordOrder'
    BY <1>0, <1>3 DEF CellsInv, WordOrder, VersionFirst
  <2> QED  BY <2>1, <2>2, <2>3, <2>4 DEF CellsInv
<1>11. BehindOK'
  <2> SUFFICES ASSUME CellsPerPage >= 2 PROVE BehindOK'
    BY DEF BehindOK
  <2>1. behind \in {0, 1}
    BY <1>0 DEF BehindOK, TypeOK
  <2>2. \A c \in 2 .. CellsPerPage : cells'[c] = Erased
    BY <1>3, CellFacts DEF FirstPage, Cell
  <2>3. behind' <= 2
    BY <1>7, <2>1
  <2>4. ~Torn'
    BY <1>4 DEF Torn
  <2> QED  BY <1>4, <1>7, <1>8, <2>2, <2>3, <2>4 DEF BehindOK
<1>12. NothingYet' /\ Durable'
  BY <1>0 DEF NothingYet, Durable
<1> QED  BY <1>8, <1>9, <1>10, <1>11, <1>12

-----------------------------------------------------------------------------
(* Programming a word. *)

PutsVersion == IF VersionFirst THEN op.at = 1 ELSE op.at = 2

\* What the flash looks like afterwards, word by word.
LEMMA ProgramFacts ==
  ASSUME NvmInv, ProgramWord
  PROVE  /\ op.pc \in {"append", "rewrite"} /\ op.cell \in Cell /\ op.at \in {1, 2}
         /\ cells' \in Flash /\ layout' = layout /\ erased' = erased
         /\ \A d \in Cell : d # op.cell => cells'[d] = cells[d]
         /\ PutsVersion  => /\ ~Filled(op.cell)
                            /\ cells'[op.cell].version = op.rec.version
                            /\ cells'[op.cell].data = cells[op.cell].data
         /\ ~PutsVersion => /\ cells[op.cell].data = Blank
                            /\ cells'[op.cell].version = cells[op.cell].version
                            /\ cells'[op.cell].data = op.rec.data
         /\ op.at = 1 => /\ op' = [op EXCEPT !.at = 2]
                         /\ UNCHANGED <<acked, pending, behind>>
         /\ op.at = 2 => Return(TRUE, op.rec.data, cells')
<1> USE DEF NvmInv
<1> DEFINE w == layout[op.at]
<1>1. /\ op.pc \in {"append", "rewrite"} /\ cells[op.cell][w] = Erased[w]
      /\ cells' = [cells EXCEPT ![op.cell][w] = op.rec[w]]
      /\ erased' = erased
      /\ op.at = 2 => Return(TRUE, op.rec.data, cells')
      /\ op.at # 2 => op' = [op EXCEPT !.at = 2] /\ UNCHANGED <<layout, acked, pending, behind>>
  BY DEF ProgramWord, WordFits
<1>2. op.cell \in Cell /\ op.at \in {1, 2} /\ op.rec \in Record /\ cells \in Flash
  BY OpFacts DEF TypeOK
<1>3. layout' = layout
  BY <1>1, <1>2 DEF Return
<1>4. /\ w \in {"version", "data"}
      /\ PutsVersion => w = "version"
      /\ ~PutsVersion => w = "data"
  BY <1>2 DEF TypeOK, VersionFirst, PutsVersion
<1> HIDE DEF w
<1>5. /\ cells' \in Flash
      /\ \A d \in Cell : d # op.cell => cells'[d] = cells[d]
      /\ w = "version" => cells'[op.cell].version = op.rec.version
                          /\ cells'[op.cell].data = cells[op.cell].data
      /\ w = "data" => cells'[op.cell].version = cells[op.cell].version
                       /\ cells'[op.cell].data = op.rec.data
  <2> DEFINE c == op.cell
             r == op.rec
  <2>1. /\ cells' = [cells EXCEPT ![c][w] = r[w]] /\ c \in Cell /\ r \in Record
        /\ cells \in Flash /\ cells[c] \in Record
    BY <1>1, <1>2 DEF Flash
  <2> HIDE DEF c, r
  <2>2. cells'[c] = [cells[c] EXCEPT ![w] = r[w]]
    BY <2>1 DEF Flash
  <2>3. \A d \in Cell : d # c => cells'[d] = cells[d]
    BY <2>1 DEF Flash
  <2>4. CASE w = "version"
    BY <2>1, <2>2, <2>3, <2>4 DEF Flash, Record, c, r
  <2>5. CASE w = "data"
    BY <2>1, <2>2, <2>3, <2>5 DEF Flash, Record, c, r
  <2> QED  BY <1>4, <2>4, <2>5
<1>6. w = "version" => ~Filled(op.cell)
  BY <1>1 DEF Filled, Written, Erased
<1>7. w = "data" => cells[op.cell].data = Blank
  BY <1>1 DEF Erased
<1>8. op.at = 2 => Return(TRUE, op.rec.data, cells')
  BY <1>1, Zenon
<1>9. op.at = 1 => op' = [op EXCEPT !.at = 2] /\ UNCHANGED <<acked, pending, behind>>
  <2> SUFFICES ASSUME op.at = 1 PROVE op' = [op EXCEPT !.at = 2] /\ UNCHANGED <<acked, pending, behind>>
    OBVIOUS
  <2>1. op.at # 2
    OBVIOUS
  <2> QED  BY <1>1, <2>1, Zenon
<1>10. /\ op.pc \in {"append", "rewrite"} /\ erased' = erased
  BY <1>1, Zenon
<1>11. /\ PutsVersion  => /\ ~Filled(op.cell)
                          /\ cells'[op.cell].version = op.rec.version
                          /\ cells'[op.cell].data = cells[op.cell].data
       /\ ~PutsVersion => /\ cells[op.cell].data = Blank
                          /\ cells'[op.cell].version = cells[op.cell].version
                          /\ cells'[op.cell].data = op.rec.data
  BY <1>4, <1>5, <1>6, <1>7, Zenon
<1> QED  BY <1>2, <1>3, <1>5, <1>8, <1>9, <1>10, <1>11, Zenon

\* The first word has been programmed when the second one is.
LEMMA FirstWordThere ==
  ASSUME NvmInv, ProgramWord, op.at = 2
  PROVE  /\ op.rec.data # Blank
         /\ VersionFirst => cells[op.cell].version = op.rec.version /\ Filled(op.cell)
         /\ ~VersionFirst => cells[op.cell].data = op.rec.data
<1>1. op.pc # "idle"
  BY ProgramFacts
<1>2. op.rec.data # Blank
  BY <1>1 DEF NvmInv, CallOK
<1> QED  BY <1>1, <1>2 DEF NvmInv, HalfWay

\* No cell behind the one that is written has a record.
LEMMA NothingBehind ==
  ASSUME NvmInv, ProgramWord
  PROVE  /\ \A d \in Cell : After(op.cell, d) => cells[d] = Erased
         /\ \A d \in Cell : ~Filled(d) => ~After(d, op.cell)
         /\ op.cell # 1 => Filled(1) /\ op.pc = "append"
         /\ op.at = 1 => ~Filled(op.cell)
<1> USE DEF NvmInv
<1>1. op.pc \in {"append", "rewrite"} /\ op.cell \in Cell /\ op.at \in {1, 2}
  BY ProgramFacts
<1>2. op.cell # 1 => Filled(1) /\ op.pc = "append"
  BY <1>1, CellFacts DEF CallOK, Cell
<1>3. op.at = 1 => ~Filled(op.cell)
  <2> SUFFICES ASSUME op.at = 1, Filled(op.cell) PROVE FALSE
    OBVIOUS
  <2>1. op.pc = "rewrite" /\ ~VersionFirst /\ cells[op.cell].data = Blank
    BY <1>1, ProgramFacts DEF CallOK, PutsVersion
  <2> QED  BY <1>1, <2>1 DEF CellsInv, WordOrder
<1>4. \A d \in Cell : After(op.cell, d) => cells[d] = Erased
  BY <1>1, <1>3 DEF HalfWay, CellsInv, InOrder
<1>5. \A d \in Cell : ~Filled(d) => ~After(d, op.cell)
  BY <1>1 DEF CallOK, After, Cell
<1> QED  BY <1>2, <1>3, <1>4, <1>5

\* A torn first record refuses to be programmed again.
LEMMA TornRefuses ==
  ASSUME NvmInv, ProgramWord, op.pc = "append"  PROVE ~Torn
<1> USE DEF NvmInv
<1> SUFFICES ASSUME Torn PROVE FALSE
  OBVIOUS
<1>1. op.cell = 1
  BY NothingBehind DEF Torn
<1>2. op.at = 1
  BY <1>1, ProgramFacts DEF Torn, Writing
<1>3. ~VersionFirst
  BY CellFacts DEF Torn, CellsInv, WordOrder
<1>4. cells[1].data = Blank
  BY <1>1, <1>2, <1>3, ProgramFacts DEF PutsVersion
<1>5. cells[1] = Erased
  BY <1>4, CellFacts DEF Torn, Filled, Written, TypeOK, Flash, Record, Erased
<1> QED  BY <1>5 DEF Torn

\* A version is programmed that fits its cell and is new.
LEMMA VersionFits ==
  ASSUME NvmInv, ProgramWord, PutsVersion
  PROVE  /\ op.rec.version \in 1 .. EmptyCell /\ Written(cells', op.cell)
         /\ op.cell = 1 => op.rec.version = 1
         /\ op.cell # 1 => op.rec.version > 1
         /\ Allowed(op.cell, op.rec.version)
         /\ \A d \in Cell : d # op.cell /\ Filled(d) =>
              IF op.cell = 1 THEN cells[d].version > 1 ELSE cells[d].version < op.rec.version
<1> USE DEF NvmInv
<1>1. op.rec.version \in 1 .. EmptyCell /\ op.cell \in Cell
  BY OpFacts
<1>2. ~Filled(op.cell) /\ op.pc \in {"append", "rewrite"} /\ cells'[op.cell].version = op.rec.version
  BY ProgramFacts
<1>3. CASE op.cell = 1
  <2>1. op.rec.version = 1
    BY <1>2, <1>3 DEF CallOK
  <2>2. Allowed(1, 1)
    <3>1. \A e \in CellsPerPage + 1 .. N + 1 : Base(e) \in Int /\ Base(e) >= 0
      <4> SUFFICES ASSUME NEW e \in CellsPerPage + 1 .. N + 1 PROVE Base(e) \in Int /\ Base(e) >= 0
        OBVIOUS
      <4>1. e \in Int /\ e >= CellsPerPage + 1
        BY CellFacts
      <4> QED  BY <4>1, BaseFacts
    <3>2. 1 \in FirstPage
      BY DEF FirstPage
    <3> QED  BY <3>1, <3>2 DEF Allowed
  <2> QED  BY <1>1, <1>2, <1>3, <2>1, <2>2, EmptyIsBig DEF CellsInv, FirstIsOne, Filled, Written
<1>4. CASE op.cell # 1
  <2>1. op.pc = "append"
    BY <1>4, NothingBehind
  <2>2. /\ op.rec.version > 1 /\ Allowed(op.cell, op.rec.version)
        /\ \A d \in Cell : d # op.cell /\ Filled(d) => cells[d].version < op.rec.version
    BY <1>4, <2>1 DEF AppendOK
  <2>3. op.rec.version < EmptyCell
    BY <1>1, <2>2, AllowedIsSmall
  <2> QED  BY <1>1, <1>2, <1>4, <2>2, <2>3 DEF Filled, Written
<1> QED  BY <1>3, <1>4

LEMMA AllowedGrows ==
  ASSUME NEW c \in Cell, NEW v, Allowed(c, v), \A d \in Cell : ~Written(cells', d) => ~Filled(d)
  PROVE  Allowed(c, v)'
BY DEF Allowed, IsFree, Filled

\* The invariant of the cells.
LEMMA ProgramCells ==
  ASSUME NvmInv, ProgramWord  PROVE CellsInv'
<1> USE DEF NvmInv
<1> DEFINE c == op.cell
<1>0. /\ c \in Cell /\ cells' \in Flash /\ layout' = layout /\ erased' = erased
      /\ \A d \in Cell : d # c => cells'[d] = cells[d] /\ (Written(cells', d) <=> Filled(d))
      /\ \A d, e : After(d, e)' <=> After(d, e)
      /\ VersionFirst' <=> VersionFirst
  BY ProgramFacts DEF Filled, Written, After, VersionFirst
<1>1. InOrder'
  <2> SUFFICES ASSUME NEW d \in Cell, NEW e \in Cell, After(d, e), ~Written(cells', d)
               PROVE  cells'[e] = Erased
    BY <1>0 DEF InOrder, Filled
  <2>1. e # c
    <3>1. CASE d = c
      BY <3>1, <1>0 DEF After, Cell
    <3>2. CASE d # c
      BY <1>0, <3>2, NothingBehind
    <3> QED  BY <3>1, <3>2
  <2>2. cells[e] = Erased
    <3>1. CASE d = c
      BY <3>1, NothingBehind
    <3>2. CASE d # c
      BY <1>0, <3>2 DEF CellsInv, InOrder
    <3> QED  BY <3>1, <3>2
  <2> QED  BY <1>0, <2>1, <2>2
<1>2. CASE PutsVersion
  <2>0. /\ cells'[c].version = op.rec.version /\ cells'[c].data = cells[c].data
        /\ Written(cells', c) /\ ~Filled(c)
    BY <1>2, ProgramFacts, VersionFits
  <2>1. FirstIsOne'
    BY <1>0, <1>2, <2>0, VersionFits, CellFacts DEF CellsInv, FirstIsOne, Filled
  <2>2. VersionsDistinct'
    <3>1. \A d \in Cell : d # c /\ Filled(d) => cells[d].version # op.rec.version
      <4> SUFFICES ASSUME NEW d \in Cell, d # c, Filled(d) PROVE cells[d].version # op.rec.version
        OBVIOUS
      <4>1. cells[d].version \in Nat /\ op.rec.version \in Nat
        BY OpFacts DEF TypeOK, Flash, Record
      <4> QED  BY <1>2, <4>1, VersionFits
    <3> QED  BY <1>0, <2>0, <3>1 DEF CellsInv, VersionsDistinct, Filled, Written
  <2>3. InBounds'
    <3>1. \A d \in Cell : ~Written(cells', d) => ~Filled(d)
      BY <1>0, <2>0
    <3> SUFFICES ASSUME NEW d \in Cell, Written(cells', d), NEW v, v = cells'[d].version
                 PROVE  Allowed(d, v)'
      BY DEF InBounds, Filled
    <3>2. Allowed(d, v)
      BY <1>0, <1>2, <2>0, VersionFits DEF CellsInv, InBounds
    <3> QED  BY <3>1, <3>2, AllowedGrows
  <2>4. WordOrder'
    <3>1. VersionFirst \/ op.at = 2
      BY <1>2 DEF PutsVersion
    <3>2. ~VersionFirst => cells'[c].data # Blank
      BY <2>0, <3>1, FirstWordThere
    <3> QED  BY <1>0, <2>0, <3>2 DEF CellsInv, WordOrder, Filled
  <2> QED  BY <1>1, <2>1, <2>2, <2>3, <2>4 DEF CellsInv
<1>3. CASE ~PutsVersion
  <2>0. /\ cells'[c].version = cells[c].version /\ cells'[c].data = op.rec.data
        /\ Written(cells', c) <=> Filled(c)
    BY <1>3, ProgramFacts DEF Filled, Written
  <2>a. \A d \in Cell : cells'[d].version = cells[d].version /\ (Written(cells', d) <=> Filled(d))
    BY <1>0, <2>0
  <2>1. FirstIsOne' /\ VersionsDistinct'
    BY <2>a, CellFacts DEF CellsInv, FirstIsOne, VersionsDistinct, Filled, Written
  <2>2. InBounds'
    BY <2>a DEF CellsInv, InBounds, Allowed, IsFree, Filled
  <2>3. WordOrder'
    <3>1. op.rec.data # Blank
      BY ProgramFacts DEF CallOK
    <3>2. VersionFirst => Filled(c)
      BY <1>3, ProgramFacts DEF PutsVersion, HalfWay
    <3> QED  BY <1>0, <2>0, <2>a, <3>1, <3>2 DEF CellsInv, WordOrder, Filled
  <2> QED  BY <1>1, <2>1, <2>2, <2>3 DEF CellsInv
<1> QED  BY <1>2, <1>3

\* The record that has got its version, or its last word, is the newest unless
\* it restarts the versions behind an erased first page.
LEMMA LatestAfter ==
  ASSUME NvmInv, ProgramWord, PutsVersion \/ op.at = 2, op.cell # 1 \/ ~erased
  PROVE  MaxElement(cells') = op.cell /\ Read(cells') = cells'[op.cell].data
<1> USE DEF NvmInv
<1> DEFINE c == op.cell
<1>0. /\ c \in Cell /\ cells' \in Flash
      /\ \A d \in Cell : d # c => cells'[d] = cells[d] /\ (Written(cells', d) <=> Filled(d))
  BY ProgramFacts DEF Filled, Written
<1>1. Written(cells', c) /\ cells'[c].version = op.rec.version
  <2>1. CASE PutsVersion
    BY <2>1, ProgramFacts, VersionFits
  <2>2. CASE ~PutsVersion
    <3>1. VersionFirst /\ op.at = 2
      BY <2>2 DEF PutsVersion
    <3>2. cells[c].version = op.rec.version /\ Filled(c)
      BY <3>1, FirstWordThere
    <3> QED  BY <2>2, <3>2, ProgramFacts DEF Filled, Written
  <2> QED  BY <2>1, <2>2
<1>2. Distinct(cells')
  BY ProgramCells DEF CellsInv, VersionsDistinct, Distinct, Written
<1>3. Written(cells', 1)
  BY <1>0, <1>1, NothingBehind, CellFacts
<1>4. ASSUME NEW d \in Cell, d # c, Written(cells', d)
      PROVE  cells'[d].version < cells'[c].version
  <2>1. CASE c = 1
    <3>1. After(1, d)
      BY <1>4, <2>1 DEF After, Cell
    <3>2. cells[d] = Erased
      BY <2>1, <3>1, NothingBehind
    <3> QED  BY <1>0, <1>4, <3>2 DEF Filled, Written, Erased
  <2>2. CASE c # 1
    <3>1. op.pc = "append"
      BY <2>2, NothingBehind
    <3> QED  BY <1>0, <1>1, <1>4, <2>2, <3>1 DEF AppendOK
  <2> QED  BY <2>1, <2>2
<1> QED  BY <1>0, <1>1, <1>2, <1>3, <1>4, LatestIs DEF Filled

\* The first word of a record.
LEMMA FirstWordStep ==
  ASSUME NvmInv, ProgramWord, op.at = 1  PROVE NvmInv'
<1> USE DEF NvmInv
<1> DEFINE c == op.cell
<1>0. /\ c \in Cell /\ cells' \in Flash /\ layout' = layout /\ erased' = erased
      /\ \A d \in Cell : d # c => cells'[d] = cells[d] /\ (Written(cells', d) <=> Filled(d))
      /\ UNCHANGED <<acked, pending, behind>> /\ op.pc \in {"append", "rewrite"}
      /\ \A d, e : After(d, e)' <=> After(d, e)
      /\ VersionFirst' <=> VersionFirst
  BY ProgramFacts DEF Filled, Written, After, VersionFirst
<1>1. op' \in Call /\ op'.pc = op.pc /\ op'.cell = c /\ op'.at = 2 /\ op'.rec = op.rec
  BY ProgramFacts DEF TypeOK, Call
<1>2. TypeOK'
  BY <1>0, <1>1 DEF TypeOK
<1>3. CellsInv'
  BY ProgramCells
<1>4. ~Filled(c) /\ (Written(cells', c) <=> VersionFirst)
  <2>1. CASE VersionFirst
    BY <2>1, NothingBehind, VersionFits DEF PutsVersion
  <2>2. CASE ~VersionFirst
    BY <2>2, NothingBehind, ProgramFacts DEF PutsVersion, Filled, Written
  <2> QED  BY <2>1, <2>2
<1>5. CallOK'
  <2>1. op.rec.data \in Contents /\ (~Written(cells', 1) => op.rec.version = 1)
    BY <1>0, <1>4, CellFacts DEF CallOK
  <2> QED  BY <1>0, <1>1, <1>4, <2>1 DEF CallOK, Cell, Filled
<1>6. HalfWay'
  <2>1. ASSUME NEW d \in Cell, After(c, d) PROVE cells'[d] = Erased
    <3>1. d # c
      BY <1>0, <2>1 DEF After, Cell
    <3> QED  BY <1>0, <2>1, <3>1, NothingBehind
  <2>2. cells'[c] \in Record
    BY <1>0 DEF Flash
  <2>3. CASE VersionFirst
    <3>1. cells[c] = Erased
      BY <1>0, <1>4, <2>3 DEF CellsInv, WordOrder
    <3>2. cells'[c] = [version |-> op.rec.version, data |-> Blank]
      BY <2>2, <2>3, <3>1, ProgramFacts DEF PutsVersion, Erased, Record
    <3> QED  BY <1>0, <1>1, <1>4, <2>1, <2>3, <3>2 DEF HalfWay, Filled
  <2>4. CASE ~VersionFirst
    <3>1. cells'[c] = [version |-> EmptyCell, data |-> op.rec.data]
      BY <1>4, <2>2, <2>4, ProgramFacts DEF PutsVersion, Record, Filled, Written
    <3> QED  BY <1>0, <1>1, <2>1, <2>4, <3>1 DEF HalfWay
  <2> QED  BY <2>3, <2>4
<1>7. AppendOK'
  <2>1. \A d \in Cell : ~Written(cells', d) => ~Filled(d)
    BY <1>0, <1>4
  <2> SUFFICES ASSUME op.pc = "append", c # 1
               PROVE  /\ op.rec.version > 1
                      /\ \A d \in Cell : d # c /\ Written(cells', d) => cells'[d].version < op.rec.version
                      /\ IF c \in FirstPage
                         THEN \A e \in CellsPerPage + 1 .. N + 1 :
                                (e \in Cell => ~Written(cells', e)) => op.rec.version <= Base(e) + c
                         ELSE op.rec.version <= Base(c + 1) + 1
    BY <1>1 DEF AppendOK, Allowed, IsFree, Filled
  <2> QED  BY <1>0, <2>1 DEF AppendOK, Allowed, IsFree
<1>8. BehindOK'
  <2>1. Filled(1) => Written(cells', 1)
    BY <1>0, <1>4, CellFacts
  <2>2. \A d \in Cell : cells[d] = Erased => cells'[d] = Erased \/ d = c
    BY <1>0
  <2>3. \A d \in 2 .. CellsPerPage : d \in Cell
    BY CellFacts DEF Cell
  <2> SUFFICES ASSUME CellsPerPage >= 2, behind # 0 PROVE BehindOK'
    BY <1>0 DEF BehindOK
  <2>4. op.pc = "append" /\ ~Torn
    BY <1>0, TornRefuses DEF BehindOK
  <2>5. \A d : Writing(d)' <=> d = c
    BY <1>1, <2>4 DEF Writing
  <2>6. \A d : Writing(d) <=> d = c
    BY <2>4 DEF Writing
  <2>7. \A d \in 2 .. CellsPerPage : cells'[d] = Erased \/ d = c
    BY <2>2, <2>3, <2>6 DEF BehindOK
  <2>8. ~Torn'
    <3>1. c # 1 => Written(cells', 1)
      BY <2>1, NothingBehind
    <3> QED  BY <1>1, <2>5, <3>1 DEF Torn, Filled
  <2>9. c \in {1, 2} /\ behind <= 3 /\ (behind = 3 => Written(cells', 1) /\ c # 1)
    BY <2>1, <2>4, <2>6 DEF BehindOK
  <2> QED  BY <1>0, <1>1, <2>4, <2>5, <2>7, <2>8, <2>9 DEF BehindOK, Filled
<1>9. NothingYet'
  <2> SUFFICES ASSUME ~erased, ~Written(cells', 1) PROVE acked = Blank
    BY <1>0 DEF NothingYet, Filled
  <2>1. c = 1 /\ ~VersionFirst
    BY <1>0, <1>4, NothingBehind, CellFacts
  <2>2. cells[1].data = Blank
    BY <2>1, ProgramFacts DEF PutsVersion
  <2> QED  BY <1>4, <2>1, <2>2 DEF NothingYet
<1>10. Durable'
  <2> SUFFICES ASSUME ~erased PROVE Durable'
    BY <1>0 DEF Durable
  <2>1. CASE VersionFirst
    <3>1. MaxElement(cells') = c
      BY <2>1, LatestAfter DEF PutsVersion
    <3>2. cells'[c].data = Blank
      BY <1>1, <1>6, <2>1, <1>0 DEF HalfWay
    <3> QED  BY <1>0, <2>1, <3>1, <3>2 DEF Durable
  <2>2. CASE ~VersionFirst /\ Filled(1)
    <3>1. c # 1 /\ Written(cells', 1)
      BY <1>0, <1>4, <2>2, CellFacts
    <3> DEFINE m == MaxElement(cells)
    <3>2. /\ m \in Cell /\ Filled(m)
          /\ \A d \in Cell : Filled(d) => cells[d].version <= cells[m].version
      BY <2>2, CellsDistinct, LatestFacts DEF CellsInv, TypeOK, Filled
    <3> HIDE DEF m
    <3>3. m # c /\ cells'[m] = cells[m] /\ Written(cells', m)
      BY <1>0, <1>4, <3>2
    <3>4. Distinct(cells')
      BY <1>3 DEF CellsInv, VersionsDistinct, Distinct, Written
    <3>5. ASSUME NEW d \in Cell, d # m, Written(cells', d) PROVE cells'[d].version < cells'[m].version
      <4>1. d # c /\ cells'[d] = cells[d] /\ Filled(d)
        BY <1>0, <1>4, <2>2, <3>5
      <4>2. cells[d].version <= cells[m].version /\ cells[d].version # cells[m].version
        BY <3>2, <3>5, <4>1, CellsDistinct DEF CellsInv, Distinct, Filled
      <4>3. cells[d].version \in Nat /\ cells[m].version \in Nat
        BY <3>2 DEF TypeOK, Flash, Record
      <4> QED  BY <3>3, <4>1, <4>2, <4>3
    <3>6. Read(cells') = cells[m].data
      BY <1>0, <3>1, <3>2, <3>3, <3>4, <3>5, LatestIs DEF Filled
    <3>7. Read(cells) = cells[m].data
      BY <3>2 DEF Read, m, Filled, Written
    <3>8. Read(cells) \in {acked} \cup pending
      BY <2>2 DEF Durable, Filled, Written
    <3> QED  BY <1>0, <3>6, <3>7, <3>8 DEF Durable
  <2>3. CASE ~VersionFirst /\ ~Filled(1)
    <3>1. ~Written(cells', 1)
      BY <1>0, <1>4, <2>3, CellFacts
    <3>2. Read(cells') = Blank
      BY <1>0, <3>1, MaxStaysOnEmpty DEF Read, Filled, Written
    <3>3. acked = Blank
      <4>1. c = 1
        BY <2>3, NothingBehind
      <4>2. cells[1].data = Blank
        BY <2>3, <4>1, ProgramFacts DEF PutsVersion
      <4> QED  BY <2>3, <4>2 DEF NothingYet
    <3> QED  BY <1>0, <3>2, <3>3 DEF Durable
  <2> QED  BY <2>1, <2>2, <2>3
<1> QED  BY <1>2, <1>3, <1>5, <1>6, <1>7, <1>8, <1>9, <1>10

\* The second word, with which Write returns.
LEMMA LastWordStep ==
  ASSUME NvmInv, ProgramWord, op.at = 2  PROVE NvmInv'
<1> USE DEF NvmInv
<1> DEFINE c == op.cell
<1>0. /\ c \in Cell /\ cells' \in Flash /\ layout' = layout /\ erased' = erased
      /\ \A d \in Cell : d # c => cells'[d] = cells[d] /\ (Written(cells', d) <=> Filled(d))
      /\ op.pc \in {"append", "rewrite"}
  BY ProgramFacts DEF Filled, Written
<1>1. /\ op' = Nothing /\ acked' = op.rec.data /\ pending' = {}
      /\ behind' = Lag(op.rec.data, cells')
  BY <1>0, ProgramFacts DEF Return
<1>2. op' \in Call /\ op'.pc = "idle" /\ CallOK' /\ HalfWay' /\ AppendOK' /\ \A d : ~Writing(d)'
  BY <1>1, ReturnEnds
<1>3. op.rec.data \in Contents
  BY <1>0 DEF CallOK
<1>4. TypeOK'
  <2>1. behind' \in Nat
    BY <1>1 DEF TypeOK, Lag
  <2> QED  BY <1>0, <1>1, <1>2, <1>3, <2>1 DEF TypeOK
<1>5. CellsInv'
  BY ProgramCells
<1>6. cells'[c].data = op.rec.data /\ Written(cells', c)
  <2>1. CASE VersionFirst
    BY <2>1, <1>0, ProgramFacts, FirstWordThere DEF PutsVersion, Filled, Written
  <2>2. CASE ~VersionFirst
    BY <2>2, <1>0, ProgramFacts, VersionFits, FirstWordThere DEF PutsVersion
  <2> QED  BY <2>1, <2>2
<1>7. Written(cells', 1)
  BY <1>0, <1>6, NothingBehind, CellFacts
<1>8. c # 1 \/ ~erased => Read(cells') = op.rec.data
  BY <1>6, LatestAfter
<1>9. BehindOK'
  <2> SUFFICES ASSUME CellsPerPage >= 2, Read(cells') # op.rec.data PROVE BehindOK'
    BY <1>1 DEF BehindOK, Lag
  <2>1. c = 1 /\ behind' <= behind + 1
    BY <1>1, <1>8 DEF Lag, TypeOK
  <2>2. behind' <= 3
    <3>1. behind <= 2
      BY <1>0, <2>1 DEF BehindOK, Writing, TypeOK
    <3> QED  BY <2>1, <3>1, <1>4 DEF TypeOK
  <2>3. ASSUME NEW d \in 2 .. CellsPerPage PROVE cells'[d] = Erased
    <3>1. d \in Cell /\ After(1, d) /\ d # 1
      BY CellFacts DEF Cell, After, FirstPage
    <3> QED  BY <1>0, <2>1, <3>1, NothingBehind
  <2>4. ~Torn'
    BY <1>7 DEF Torn, Filled
  <2> QED  BY <1>2, <1>7, <2>2, <2>3, <2>4 DEF BehindOK, Filled
<1>10. NothingYet'
  BY <1>7 DEF NothingYet, Filled
<1>11. Durable'
  BY <1>0, <1>1, <1>8 DEF Durable
<1> QED  BY <1>2, <1>4, <1>5, <1>9, <1>10, <1>11

\* The invariant is inductive.
LEMMA NextNvmInv == NvmInv /\ [Next]_vars => NvmInv'
<1> SUFFICES ASSUME NvmInv, [Next]_vars PROVE NvmInv'
  OBVIOUS
<1>1. ASSUME NEW d \in Contents, WriteSame(d) \/ WriteNew(d) PROVE NvmInv'
  BY <1>1, SameStep, NewStep
<1>2. CASE ProgramWord
  <2>1. op.at \in {1, 2}
    BY OpFacts DEF NvmInv
  <2> QED  BY <1>2, <2>1, FirstWordStep, LastWordStep
<1>3. CASE UNCHANGED vars
  <2>1. UNCHANGED <<cells, layout, op, acked, pending, erased, behind>>
    BY <1>3 DEF vars
  <2>2. CellsInv'
    BY <2>1, CellsUntouched DEF NvmInv
  <2>3. TypeOK' /\ CallOK' /\ HalfWay' /\ BehindOK' /\ NothingYet' /\ Durable'
    BY <2>1 DEF NvmInv, TypeOK, CallOK, HalfWay, After, BehindOK, Torn, Writing, NothingYet, Durable,
                Filled, VersionFirst
  <2>4. AppendOK'
    BY <2>1 DEF NvmInv, AppendOK, Allowed, IsFree, Filled
  <2> QED  BY <2>2, <2>3, <2>4 DEF NvmInv
<1> QED  BY <1>1, <1>2, <1>3, FailsStep, EraseStep, EraseFailsStep, PowerStep DEF Next

-----------------------------------------------------------------------------

(* For every number of pages and records: before the first erase Read      *)
(* returns the last acknowledged content or one that was being written     *)
(* when the power or the flash failed, except for the two torn records.    *)
THEOREM NvmDurableUntilErase == Spec => []DurableUntilErase
<1>1. NvmInv => DurableUntilErase
  <2> SUFFICES ASSUME NvmInv, ~erased PROVE DurableUntilErase
    BY DEF DurableUntilErase
  <2>1. /\ VersionFirst => layout[1] = "version"
        /\ ~VersionFirst => layout[1] = "data"
    BY DEF NvmInv, TypeOK, VersionFirst
  <2> QED  BY <2>1 DEF NvmInv, Durable, DurableUntilErase
<1> QED  BY <1>1, InitNvmInv, NextNvmInv, PTL DEF Spec

(* For every number of pages and records, through erases, power failures   *)
(* and refused words: no two records have the same version.                *)
THEOREM NvmVersionsDistinct == Spec => []VersionsDistinct
<1>1. NvmInv => VersionsDistinct
  BY DEF NvmInv, CellsInv
<1> QED  BY <1>1, InitNvmInv, NextNvmInv, PTL DEF Spec

(* For every number of pages with room for two records each: without a new *)
(* fault Read is never more than three acknowledged contents behind, also  *)
(* those Write acknowledged because it took a torn record for a stored one. *)
THEOREM NvmLossBounded == ASSUME CellsPerPage >= 2
                          PROVE  Spec => []LossBounded
<1>1. NvmInv => LossBounded
  BY DEF NvmInv, TypeOK, BehindOK, LossBounded
<1> QED  BY <1>1, InitNvmInv, NextNvmInv, PTL DEF Spec

(* For every number of pages and records: a version behind the first page  *)
(* stays for good, so no page but the first is ever erased.                *)
THEOREM NvmLaterPagesStay == Spec => LaterPagesStay
<1> DEFINE Stays == \A c \in Cell : c > CellsPerPage /\ cells[c].version # EmptyCell =>
                                    cells'[c].version = cells[c].version
<1>1. ASSUME NvmInv, [Next]_vars PROVE Stays
  <2> SUFFICES ASSUME NEW c \in Cell, c > CellsPerPage, Filled(c)
               PROVE  cells'[c].version = cells[c].version
    BY DEF Filled, Written
  <2>1. CASE ProgramWord
    BY <1>1, <2>1, ProgramFacts
  <2>2. CASE ErasePage
    <3>1. PageOf(c) # PageOf(op.cell)
      BY <1>1, <2>2, FirstPageFacts, CellFacts DEF NvmInv, CallOK, ErasePage, Cell
    <3> QED  BY <2>2, <3>1 DEF ErasePage
  <2>3. CASE UNCHANGED cells
    BY <2>3
  <2> QED  BY <1>1, <2>1, <2>2, <2>3
           DEF Next, WriteSame, WriteNew, ProgramFails, EraseFails, PowerLoss, vars
<1>2. NvmInv /\ [Next]_vars => [Stays]_vars
  BY <1>1
<1> QED  BY <1>2, InitNvmInv, NextNvmInv, PTL DEF Spec, LaterPagesStay
=============================================================================
