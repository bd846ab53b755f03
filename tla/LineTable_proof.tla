--------------------------- MODULE LineTable_proof ---------------------------
(***************************************************************************)
(* Proofs about LineTable for every set of tables and of addresses.        *)
(***************************************************************************)
EXTENDS LineTable, TLAPS

\* The rows the loop has kept: all good, none but the first above the pc.
Kept(n) == /\ \A r \in 1 .. n : table[r].fails = "none"
           /\ \A r \in 2 .. n : table[r].addr <= pc

\* The row the loop stopped at, when there is one.
Stopper(n) == n <= Len(table) => table[n].fails # "none" \/ (n > 1 /\ table[n].addr > pc)

\* The inductive invariant: the loop variable, the row kept and the strings
\* move together, and everything up to the row kept has been looked at.
Inv ==
  /\ TypeOK
  /\ at \in {"open", "scan"} => result = Pending
  /\ at = "after" => result = Pending
  /\ at = "open" => i = 1
  /\ result = Default => strings = {}
  /\ result = Default => at = "done"
  /\ result # Default =>
       /\ prev = i - 1
       /\ Kept(prev)
       /\ at \in {"open", "scan"} => strings = {prev} \ {NoRow}
       /\ at \in {"after", "free"} => Stopper(i)
       /\ at = "after" =>
            /\ strings \subseteq {prev, i}
            /\ prev # NoRow => prev \in strings
            /\ i <= Len(table) => table[i].fails # "none"
       /\ at = "free" => /\ strings \subseteq {prev, i}
                         /\ prev \in strings
                         /\ prev # NoRow
                         /\ result = prev
       /\ at = "done" => /\ strings \subseteq {i}
                         /\ Stopper(i)
                         /\ result = Undefined => prev = NoRow
                         /\ result # Undefined => result = prev /\ prev # NoRow

\* A table is a sequence of rows whose addresses are natural numbers.
LEMMA TableRows ==
  ASSUME TypeOK
  PROVE  /\ Len(table) \in Nat
         /\ \A r \in 1 .. Len(table) : /\ table[r] \in Rows
                                       /\ table[r].addr \in Nat
         /\ pc \in Nat
<1>1. table \in Seq(Rows) /\ pc \in Nat
  BY TablesAssumption, PcsAssumption DEF TypeOK
<1>2. Len(table) \in Nat /\ \A r \in 1 .. Len(table) : table[r] \in Rows
  BY <1>1
<1>3. \A row \in Rows : row.addr \in Nat
  BY DEF Rows
<1> QED
  BY <1>1, <1>2, <1>3

LEMMA InvInit == Init => Inv
<1> SUFFICES ASSUME Init PROVE Inv
  OBVIOUS
<1>1. table \in Seq(Rows)
  BY TablesAssumption DEF Init
<1>2. Len(table) \in Nat
  BY <1>1
<1>3. TypeOK
  BY <1>2 DEF Init, TypeOK, NoRow, Pending
<1> QED
  BY <1>2, <1>3 DEF Init, Inv, Kept, Stopper, NoRow, Pending, Default

LEMMA InvNext == Inv /\ [Next]_vars => Inv'
<1> SUFFICES ASSUME Inv, [Next]_vars PROVE Inv'
  OBVIOUS
<1>0. /\ Len(table) \in Nat
      /\ \A r \in 1 .. Len(table) : table[r].addr \in Nat
      /\ pc \in Nat
  BY TableRows DEF Inv
<1> USE DEF NoRow, Default, Pending, Undefined
<1>1. CASE Open
  BY <1>1 DEF Open, Inv, TypeOK, Kept, Stopper
<1>2. CASE OpenFails
  BY <1>2 DEF OpenFails, Inv, TypeOK, Kept, Stopper
<1>3. CASE RowFails
  <2>1. TypeOK'
    BY <1>0, <1>3 DEF RowFails, Inv, TypeOK, Row
  <2>2. Stopper(i)' /\ table[i].fails # "none"
    BY <1>3 DEF RowFails, Row, Stopper
  <2>3. strings' \subseteq {prev, i} /\ (prev # NoRow => prev \in strings')
    BY <1>3 DEF RowFails, Inv, TypeOK
  <2> QED
    BY <1>0, <1>3, <2>1, <2>2, <2>3 DEF RowFails, Inv, Kept
<1>4. CASE RowAbove
  <2>1. TypeOK'
    BY <1>0, <1>4 DEF RowAbove, Inv, TypeOK, Row
  <2>2. Stopper(i)'
    BY <1>0, <1>4 DEF RowAbove, Row, Stopper, Inv, TypeOK
  <2> QED
    BY <1>0, <1>4, <2>1, <2>2 DEF RowAbove, Inv, Kept, TypeOK
<1>5. CASE RowKept
  <2>1. TypeOK'
    BY <1>0, <1>5 DEF RowKept, Inv, TypeOK, Row
  <2>2. Kept(prev)'
    <3>1. prev' = i /\ table' = table /\ pc' = pc /\ i \in 1 .. Len(table)
      BY <1>0, <1>5 DEF RowKept, Inv, TypeOK
    <3>2. table[i].fails = "none" /\ (i # 1 => table[i].addr <= pc)
      BY <1>5 DEF RowKept, Row, Inv
    <3>3. \A r \in 1 .. i : r = i \/ r \in 1 .. prev
      BY <1>5 DEF RowKept, Inv, TypeOK
    <3>4. Kept(prev)
      BY <1>5 DEF RowKept, Inv
    <3> QED
      BY <3>1, <3>2, <3>3, <3>4 DEF Kept
  <2>3. strings' = {prev'} \ {NoRow} /\ prev' = i' - 1
    BY <1>5 DEF RowKept, Inv, TypeOK
  <2> QED
    BY <1>0, <1>5, <2>1, <2>2, <2>3 DEF RowKept, Inv
<1>6. CASE EndOfTable
  BY <1>0, <1>6 DEF EndOfTable, Inv, TypeOK, Kept, Stopper
<1>7. CASE NotFound
  BY <1>0, <1>7 DEF NotFound, Inv, TypeOK, Kept, Stopper
<1>8. CASE NullAssigned
  BY <1>0, <1>8 DEF NullAssigned, Inv, TypeOK, Kept, Stopper
<1>9. CASE FreePrev
  BY <1>0, <1>9 DEF FreePrev, Inv, TypeOK, Kept, Stopper
<1>10. CASE UNCHANGED vars
  BY <1>10 DEF vars, Inv, TypeOK, Kept, Stopper
<1> QED
  BY <1>1, <1>2, <1>3, <1>4, <1>5, <1>6, <1>7, <1>8, <1>9, <1>10 DEF Next

THEOREM Invariance == Spec => []Inv
BY InvInit, InvNext, PTL DEF Spec

-----------------------------------------------------------------------------
\* Type correctness of the scan (TypeOK), for every table and pc.
THEOREM TypeCorrect == Spec => []TypeOK
<1>1. Inv => TypeOK
  BY DEF Inv
<1> QED
  BY <1>1, Invariance, PTL

\* The result is the row before the first row, other than row 1, that lies
\* above the pc or cannot be read, whatever the table.
THEOREM FirstAbove == Spec => []StopsAtFirstAbove
<1>1. Inv => StopsAtFirstAbove
  <2> SUFFICES ASSUME Inv, result > 0 PROVE StopsAtFirstAbove
    BY DEF StopsAtFirstAbove
  <2>1. result # Default /\ result # Pending /\ result # Undefined
    BY DEF Default, Pending, Undefined, Inv, TypeOK
  <2>2. result = prev /\ prev = i - 1 /\ Kept(prev) /\ Stopper(i)
    BY <2>1 DEF Inv, TypeOK
  <2>3. i = result + 1
    BY <2>2 DEF Inv, TypeOK
  <2>4. result < Len(table) =>
          table[result + 1].addr > pc \/ table[result + 1].fails # "none"
    <3> SUFFICES ASSUME result < Len(table)
                 PROVE  table[i].addr > pc \/ table[i].fails # "none"
      BY <2>3
    <3>1. Len(table) \in Nat /\ result \in Int
      BY TableRows DEF Inv, TypeOK, Default, Pending, Undefined
    <3>2. i <= Len(table)
      BY <2>3, <3>1
    <3> QED
      BY <2>2, <3>2 DEF Stopper
  <2> QED
    BY <2>2, <2>4 DEF StopsAtFirstAbove, Kept
<1> QED
  BY <1>1, Invariance, PTL

\* A sorted, readable table whose first row does not lie above the pc yields
\* the last row that does not lie above it.
THEOREM Nearest == Spec => []NearestRow
<1>1. Inv => NearestRow
  <2> SUFFICES ASSUME Inv, at = "done", result > 0, Sorted(table), AllGood(table),
                      table[1].addr <= pc
               PROVE  IsNearest(result, table, pc)
    BY DEF NearestRow
  <2>1. /\ Len(table) \in Nat /\ pc \in Nat
        /\ \A r \in 1 .. Len(table) : table[r].addr \in Nat
    BY TableRows DEF Inv
  <2>2. result = prev /\ prev = i - 1 /\ Kept(prev) /\ Stopper(i)
    BY DEF Inv, TypeOK, Default, Undefined
  <2>3. result \in 1 .. Len(table) /\ i = result + 1
    BY <2>2 DEF Inv, TypeOK
  <2>4. table[result].addr <= pc
    BY <2>2, <2>3 DEF Kept
  <2>5. ASSUME NEW s \in 1 .. Len(table), table[s].addr <= pc PROVE s <= result
    <3> SUFFICES ASSUME s > result PROVE FALSE
      BY <2>3
    <3>1. i \in 1 .. Len(table) /\ i <= s /\ i > 1
      BY <2>1, <2>3
    <3>2. table[i].addr > pc
      BY <2>2, <3>1 DEF Stopper, AllGood
    <3>3. table[i].addr <= table[s].addr
      BY <3>1 DEF Sorted
    <3> QED
      BY <2>1, <2>5, <3>1, <3>2, <3>3
  <2> QED
    BY <2>3, <2>4, <2>5 DEF IsNearest
<1> QED
  BY <1>1, Invariance, PTL

\* The result is undefined exactly when the first row is missing or unreadable.
THEOREM UndefinedResult == Spec => []UndefinedWithoutFirstRow
<1>1. Inv => UndefinedWithoutFirstRow
  <2> SUFFICES ASSUME Inv, at = "done", result # Default
               PROVE  result = Undefined <=> Len(table) = 0 \/ table[1].fails # "none"
    BY DEF UndefinedWithoutFirstRow
  <2>1. Len(table) \in Nat
    BY TableRows DEF Inv
  <2>2. prev = i - 1 /\ Kept(prev) /\ Stopper(i) /\ prev \in 0 .. Len(table)
    BY DEF Inv, TypeOK
  <2>3. CASE result = Undefined
    <3>1. prev = 0 /\ i = 1
      BY <2>2, <2>3 DEF Inv, TypeOK, NoRow
    <3> QED
      BY <2>1, <2>2, <2>3, <3>1 DEF Stopper
  <2>4. CASE result # Undefined
    <3>1. prev # 0 /\ prev \in 0 .. Len(table)
      BY <2>2, <2>4 DEF Inv, NoRow
    <3>2. 1 \in 1 .. prev /\ Len(table) # 0
      BY <2>1, <3>1
    <3> QED
      BY <2>2, <2>4, <3>2 DEF Kept
  <2> QED
    BY <2>3, <2>4
<1> QED
  BY <1>1, Invariance, PTL

\* The string of the row kept is allocated until the last step frees it.
THEOREM Strings == Spec => []PrevAllocated
<1>1. ASSUME Inv PROVE PrevAllocated
  <2>1. CASE result = Default
    BY <1>1, <2>1 DEF Inv, PrevAllocated
  <2>2. CASE result # Default
    BY <1>1, <2>2 DEF Inv, TypeOK, PrevAllocated, NoRow
  <2> QED
    BY <2>1, <2>2
<1> QED
  BY <1>1, Invariance, PTL

\* What leaks is at most the string of the row that ended the scan.
THEOREM LostString == Spec => []OneStringLeaks
<1>1. ASSUME Inv PROVE OneStringLeaks
  <2>1. CASE result = Default
    BY <1>1, <2>1 DEF Inv, OneStringLeaks
  <2>2. CASE result # Default
    BY <1>1, <2>2 DEF Inv, OneStringLeaks
  <2> QED
    BY <2>1, <2>2
<1> QED
  BY <1>1, Invariance, PTL
=============================================================================
