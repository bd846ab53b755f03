------------------------------ MODULE LineTable ------------------------------
(***************************************************************************)
(* getFileNameAndLineNumber (src/dwarfexpr/dwarf_utils.cpp): the scan of a *)
(* CU's line table for the row that covers a pc, one row per step, with    *)
(* the file name strings libdwarf allocates for each row.                  *)
(*                                                                         *)
(* A row is [addr, fails, end]: `fails` names the accessor that returns an *)
(* error for it ("none" for a good row), `end` marks an end_sequence row,  *)
(* which the code does not tell from the others.  The file and line of a   *)
(* row are represented by the row's index.                                 *)
(***************************************************************************)
EXTENDS Integers, Sequences

CONSTANTS Tables, Pcs

Rows == [addr: Nat, fails: {"none", "lineno", "linesrc", "lineaddr"}, end: BOOLEAN]

ASSUME TablesAssumption == Tables \subseteq Seq(Rows)
ASSUME PcsAssumption == Pcs \subseteq Nat

NoRow == 0          \* prev_linesrcfile is null
Default == 0        \* result: the caller's def_val1 and def_val2
Pending == -1       \* result: not returned yet
Undefined == -2     \* result: std::string::assign of a null pointer

VARIABLES
  table,    \* the rows dwarf_srclines_from_linecontext returns
  pc,
  at,       \* "open", "scan", "after" the loop, "free", "done"
  i,        \* the row the loop is at
  prev,     \* the row prev_linesrcfile, prev_lineno stand for
  strings,  \* rows whose file name string is allocated
  result

vars == <<table, pc, at, i, prev, strings, result>>

Init == /\ table \in Tables
        /\ pc \in Pcs
        /\ at = "open"
        /\ i = 1
        /\ prev = NoRow
        /\ strings = {}
        /\ result = Pending

Row == table[i]

Open == /\ at = "open"
        /\ at' = "scan"
        /\ UNCHANGED <<table, pc, i, prev, strings, result>>

\* No line table, one of a type other than 1, or no rows context.
OpenFails == /\ at = "open"
             /\ at' = "done"
             /\ result' = Default
             /\ UNCHANGED <<table, pc, i, prev, strings>>

\* Mutant: the loop continues with the same row.
RowFails_Retries == /\ at = "scan" /\ i <= Len(table)
                    /\ Row.fails # "none"
                    /\ UNCHANGED vars

\* An accessor fails and the loop is left.  The string of the row is lost when
\* it is the address that fails.
RowFails == /\ at = "scan" /\ i <= Len(table)
            /\ Row.fails # "none"
            /\ strings' = IF Row.fails = "lineaddr" THEN strings \cup {i} ELSE strings
            /\ at' = "after"
            /\ UNCHANGED <<table, pc, i, prev, result>>

\* Mutant: the row's own position instead of the one before it.
RowAbove_Itself == /\ at = "scan" /\ i <= Len(table)
                   /\ Row.fails = "none"
                   /\ prev # NoRow /\ Row.addr > pc
                   /\ strings' = strings \cup {i}
                   /\ result' = i
                   /\ at' = "free"
                   /\ UNCHANGED <<table, pc, i, prev>>

\* Mutant: off by two.
RowAbove_After == /\ at = "scan" /\ i <= Len(table)
                  /\ Row.fails = "none"
                  /\ prev # NoRow /\ Row.addr > pc
                  /\ strings' = strings \cup {i}
                  /\ result' = i + 1
                  /\ at' = "free"
                  /\ UNCHANGED <<table, pc, i, prev>>

\* Mutant: a row at the pc itself already ends the scan.
RowAbove_AtPc == /\ at = "scan" /\ i <= Len(table)
                 /\ Row.fails = "none"
                 /\ prev # NoRow /\ Row.addr >= pc
                 /\ strings' = strings \cup {i}
                 /\ result' = prev
                 /\ at' = "free"
                 /\ UNCHANGED <<table, pc, i, prev>>

\* The first row above the pc, unless it is the first of all: the row before
\* it is the result.  Its own string is not freed.
RowAbove == /\ at = "scan" /\ i <= Len(table)
            /\ Row.fails = "none"
            /\ prev # NoRow /\ Row.addr > pc
            /\ strings' = strings \cup {i}
            /\ result' = prev
            /\ at' = "free"
            /\ UNCHANGED <<table, pc, i, prev>>

\* Mutant: the string of the row that is left behind is kept.
RowKept_NoFree == /\ at = "scan" /\ i <= Len(table)
                  /\ Row.fails = "none"
                  /\ prev = NoRow \/ Row.addr <= pc
                  /\ strings' = strings \cup {i}
                  /\ prev' = i
                  /\ i' = i + 1
                  /\ UNCHANGED <<table, pc, at, result>>

\* Mutant: the string just read is freed instead of the one left behind.
RowKept_FreesNew == /\ at = "scan" /\ i <= Len(table)
                    /\ Row.fails = "none"
                    /\ prev = NoRow \/ Row.addr <= pc
                    /\ strings' = IF prev = NoRow THEN strings \cup {i} ELSE strings
                    /\ prev' = i
                    /\ i' = i + 1
                    /\ UNCHANGED <<table, pc, at, result>>

RowKept == /\ at = "scan" /\ i <= Len(table)
           /\ Row.fails = "none"
           /\ prev = NoRow \/ Row.addr <= pc
           /\ strings' = (strings \ {prev}) \cup {i}
           /\ prev' = i
           /\ i' = i + 1
           /\ UNCHANGED <<table, pc, at, result>>

EndOfTable == /\ at = "scan"
              /\ i > Len(table)
              /\ at' = "after"
              /\ UNCHANGED <<table, pc, i, prev, strings, result>>

\* Nothing was found: the last row kept is the result.
NotFound == /\ at = "after"
            /\ prev # NoRow
            /\ result' = prev
            /\ at' = "free"
            /\ UNCHANGED <<table, pc, i, prev, strings>>

\* Mutant: the caller's defaults are returned only for an empty table.
NullAssigned_EmptyOnly == /\ at = "after"
                          /\ prev = NoRow
                          /\ result' = IF table = <<>> THEN Undefined ELSE 1
                          /\ at' = "done"
                          /\ UNCHANGED <<table, pc, i, prev, strings>>

\* Nothing was found and no row was kept: the null pointer is assigned to the
\* result, and the process dies in strlen.
NullAssigned == /\ at = "after"
                /\ prev = NoRow
                /\ result' = Undefined
                /\ at' = "done"
                /\ UNCHANGED <<table, pc, i, prev, strings>>

FreePrev == /\ at = "free"
            /\ strings' = strings \ {prev}
            /\ at' = "done"
            /\ UNCHANGED <<table, pc, i, prev, result>>

Next == \/ Open \/ OpenFails
        \/ RowFails \/ RowAbove \/ RowKept \/ EndOfTable
        \/ NotFound \/ NullAssigned \/ FreePrev

Spec == Init /\ [][Next]_vars /\ WF_vars(Next)

-----------------------------------------------------------------------------
\* Type invariant of the scan.
TypeOK == /\ table \in Tables /\ pc \in Pcs
          /\ at \in {"open", "scan", "after", "free", "done"}
          /\ i \in 1 .. (Len(table) + 1)
          /\ prev \in 0 .. Len(table)
          /\ strings \subseteq 1 .. Len(table)
          /\ result \in {Pending, Undefined, Default} \cup 1 .. Len(table)

Sorted(rows) == \A a, b \in 1 .. Len(rows) : a <= b => rows[a].addr <= rows[b].addr

AllGood(rows) == \A r \in 1 .. Len(rows) : rows[r].fails = "none"

\* The row that covers an address of a sorted table: the last one that does
\* not lie above it.
IsNearest(r, rows, a) ==
  /\ r \in 1 .. Len(rows)
  /\ rows[r].addr <= a
  /\ \A s \in 1 .. Len(rows) : rows[s].addr <= a => s <= r

\* A sorted table whose first row does not lie above the pc, and whose rows
\* can all be read, yields the nearest row (dwarf_utils.cpp:412-466).
NearestRow ==
  at = "done" /\ result > 0 /\ Sorted(table) /\ AllGood(table) /\ table[1].addr <= pc =>
    IsNearest(result, table, pc)

\* Whatever the table: the result is a row that could be read, no row up to
\* it but the first lies above the pc, and the row after it, if any, lies
\* above or could not be read.
StopsAtFirstAbove ==
  result > 0 =>
    /\ \A r \in 1 .. result : table[r].fails = "none"
    /\ \A r \in 2 .. result : table[r].addr <= pc
    /\ result < Len(table) =>
         table[result + 1].addr > pc \/ table[result + 1].fails # "none"

\* The scan has no defined result (the null pointer of lines 462-464) exactly
\* when the table was opened and its first row does not exist or is unreadable.
UndefinedWithoutFirstRow ==
  at = "done" /\ result # Default =>
    (result = Undefined <=> Len(table) = 0 \/ table[1].fails # "none")

\* No string is used after it was freed (lines 447-449, 456-459, 462-469):
\* until the last step frees it, the string prev stands for is allocated.
PrevAllocated == at # "done" /\ prev # NoRow => prev \in strings

\* At most one string leaks, and it is that of the row that ended the scan.
OneStringLeaks == at = "done" => strings \subseteq {i}

\* The scan comes to an end.
ScanEnds == <>(at = "done")

\* What "similar to addr2line" (README.md:20) means for a table that holds
\* several sequences: if the pc lies between two consecutive rows of one of
\* them, the lower row is the result.
SequenceRowFound ==
  at = "done" /\ result # Default /\ AllGood(table) =>
    \A r \in 1 .. (Len(table) - 1) :
      ~table[r].end /\ table[r].addr <= pc /\ pc < table[r + 1].addr => result = r
=============================================================================
