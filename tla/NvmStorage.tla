------------------------------ MODULE NvmStorage ------------------------------
(***************************************************************************)
(* NvmStorage<DataT> keeps the versions of one record in the cells of a    *)
(* few flash pages: Write appends to the first empty cell, Read returns    *)
(* the cell with the greatest version.  Flash is the driver of the         *)
(* STM32L4x1: it programs a record one double word at a time and an erase  *)
(* empties a whole page.  The power may fail between any two steps.        *)
(*                                                                         *)
(* The size of a record divides the size of a page: the class only asks    *)
(* that it is a multiple of 8, but a record across the end of a page is    *)
(* one WritePage refuses, so that no other size is of use.                 *)
(***************************************************************************)
EXTENDS Naturals

CONSTANTS Pages,         \* nPages of the constructor
          CellsPerPage,  \* records that fit in a page
          Contents,      \* what an application stores in a record
          EmptyCell,     \* 0xffffffff: greater than every version
          Blank          \* an erased data word

N == Pages * CellsPerPage

\* Between two records of the later pages the first page may be filled once
\* more: that is how far the versions go.
ASSUME NvmAssumption ==
    /\ Pages \in Nat \ {0}
    /\ CellsPerPage \in Nat \ {0}
    /\ EmptyCell \in Nat /\ EmptyCell > CellsPerPage * (N - CellsPerPage + 1)
    /\ Blank \notin Contents

Cell == 1 .. N
PageOf(c) == (c - 1) \div CellsPerPage                     \* AddrToPage
PageStart(page) == page * CellsPerPage + 1                 \* PageAddress

Erased == [version |-> EmptyCell, data |-> Blank]
Nothing == [pc |-> "idle", cell |-> 1, at |-> 1, rec |-> Erased]

VARIABLES
    cells,     \* the flash
    layout,    \* the words of DataT in the order they are programmed
    op,        \* the call of Write in progress
    acked,     \* history: the content of the last Write that returned true
    pending,   \* history: the contents of later Writes that did not
    erased,    \* history: a page has been erased
    behind     \* history: contents acknowledged since Read agreed or a fault happened

vars == <<cells, layout, op, acked, pending, erased, behind>>

Init ==
    /\ cells = [c \in Cell |-> Erased]
    /\ layout \in {<<"version", "data">>, <<"data", "version">>}
    /\ op = Nothing
    /\ acked = Blank /\ pending = {} /\ erased = FALSE /\ behind = 0

\* Mutant: an erased cell counts as the newest version.
VersionCmpUnguarded(p1, p2) == p1.version < p2.version

VersionCmp(p1, p2) ==
    p2.version # EmptyCell /\ p1.version < p2.version

\* std::max_element and std::min_element: one pass, the first cell to start with.
MaxElement(mem) ==
    LET best[i \in Cell] ==
          IF i = 1 THEN 1
          ELSE IF VersionCmp(mem[best[i - 1]], mem[i]) THEN i ELSE best[i - 1]
    IN  best[N]
\* Mutant: the oldest record is looked up with max_element.
MinElementSwapped(mem) == MaxElement(mem)

MinElement(mem) ==
    LET best[i \in Cell] ==
          IF i = 1 THEN 1
          ELSE IF VersionCmp(mem[i], mem[best[i - 1]]) THEN i ELSE best[i - 1]
    IN  best[N]

FirstEmpty(mem) ==
    CHOOSE c \in Cell : /\ mem[c].version = EmptyCell
                        /\ \A d \in 1 .. c - 1 : mem[d].version # EmptyCell
\* Mutant: the version is not incremented.
NextVersionSame(latest) ==
    IF latest.version # EmptyCell THEN latest.version ELSE 1

NextVersion(latest) ==
    IF latest.version # EmptyCell THEN latest.version + 1 ELSE 1

\* What Read returns: Blank stands for the result false.
Read(mem) ==
    LET latest == mem[MaxElement(mem)]
    IN  IF latest.version = EmptyCell THEN Blank ELSE latest.data

\* How many contents Read misses once d is acknowledged, whichever return
\* statement did it; one more call with the same content misses nothing new.
Lag(d, mem) ==
    IF Read(mem) = d THEN 0
    ELSE IF behind > 0 /\ d = acked THEN behind ELSE behind + 1

\* Write returns r for the content d; the history compares it with Read.
Return(r, d, mem) ==
    /\ op' = Nothing
    /\ acked' = IF r THEN d ELSE acked
    /\ pending' = IF r THEN {} ELSE pending \cup {d}
    /\ behind' = IF r THEN Lag(d, mem) ELSE behind
    /\ UNCHANGED layout

\* operator== of DataT compares the contents; that the cell is empty is not asked.
WriteSame(d) ==
    /\ op.pc = "idle"
    /\ cells[MaxElement(cells)].data = d
    /\ Return(TRUE, d, cells)
    /\ UNCHANGED <<cells, erased>>

WriteNew(d) ==
    LET latest == cells[MaxElement(cells)]
        rec    == [version |-> NextVersion(latest), data |-> d]
    IN  /\ op.pc = "idle"
        /\ latest.data # d
        /\ op' = IF \E c \in Cell : cells[c].version = EmptyCell
                 THEN [pc |-> "append", cell |-> FirstEmpty(cells), at |-> 1, rec |-> rec]
                 ELSE [pc |-> "erase", cell |-> MinElement(cells), at |-> 1, rec |-> rec]
        /\ UNCHANGED <<cells, layout, acked, pending, erased, behind>>

\* Flash::WritePage programs one double word; the hardware refuses one that is
\* not erased, and may fail for reasons of its own.
WordFits == LET w == layout[op.at] IN cells[op.cell][w] = Erased[w]

ProgramWord ==
    /\ op.pc \in {"append", "rewrite"}
    /\ WordFits
    /\ cells' = [cells EXCEPT ![op.cell][layout[op.at]] = op.rec[layout[op.at]]]
    /\ IF op.at = 2
       THEN Return(TRUE, op.rec.data, cells')
       ELSE op' = [op EXCEPT !.at = 2] /\ UNCHANGED <<layout, acked, pending, behind>>
    /\ UNCHANGED erased

ProgramFails ==
    /\ op.pc \in {"append", "rewrite"}
    /\ IF op.pc = "append"
       THEN /\ op' = [op EXCEPT !.pc = "erase", !.cell = MinElement(cells), !.at = 1]
            /\ behind' = IF WordFits THEN 0 ELSE behind
            /\ UNCHANGED <<layout, acked, pending>>
       ELSE Return(FALSE, op.rec.data, cells)
    /\ UNCHANGED <<cells, erased>>

\* ErasePage(page) || WritePage(page, ...): the write follows a failed erase only.
ErasePage ==
    /\ op.pc = "erase"
    /\ cells' = [c \in Cell |-> IF PageOf(c) = PageOf(op.cell) THEN Erased ELSE cells[c]]
    /\ erased' = TRUE
    /\ Return(TRUE, op.rec.data, cells')

EraseFails ==
    /\ op.pc = "erase"
    /\ op' = [op EXCEPT !.pc = "rewrite", !.cell = PageStart(PageOf(op.cell))]
    /\ behind' = 0
    /\ UNCHANGED <<cells, layout, acked, pending, erased>>

PowerLoss ==
    /\ op.pc # "idle"
    /\ op' = Nothing
    /\ pending' = pending \cup {op.rec.data}
    /\ behind' = 0
    /\ UNCHANGED <<cells, layout, acked, erased>>

Next ==
    \/ \E d \in Contents : WriteSame(d) \/ WriteNew(d)
    \/ ProgramWord \/ ProgramFails
    \/ ErasePage \/ EraseFails
    \/ PowerLoss

Spec == Init /\ [][Next]_vars

-----------------------------------------------------------------------------
\* Before a page is erased, Read between two calls returns the last content that
\* Write acknowledged or one that was being written when the power or the flash
\* failed.  The exceptions are torn records: the newest one if the version is
\* programmed first, and the very first one if it is programmed last, which Write
\* takes for a stored one when it is called with that content again.
DurableUntilErase ==
    op.pc = "idle" /\ ~erased =>
        \/ Read(cells) \in {acked} \cup pending
        \/ layout[1] = "version" /\ cells[MaxElement(cells)].data = Blank
        \/ layout[1] = "data" /\ cells[1] = [version |-> EmptyCell, data |-> acked]

\* No two records have one version, whatever was erased, torn or refused: which
\* of two is newer never depends on their places.
VersionsDistinct ==
    \A c, d \in Cell : cells[c].version = cells[d].version =>
        c = d \/ cells[c].version = EmptyCell

\* With room for two records in a page and no new fault, Read is never more than
\* three acknowledged contents behind: the one a torn first record passed for, the
\* one whose page was erased instead, and the one that restarted at version 1
\* because max_element stayed on the empty first cell.
LossBounded == behind <= 3

\* Only the first page is ever erased: after the first lap a record in a later
\* page stays for good, so the pages do not share the wear.
LaterPagesStay ==
    [][\A c \in Cell : c > CellsPerPage /\ cells[c].version # EmptyCell =>
           cells'[c].version = cells[c].version]_vars
=============================================================================
