----------------------------- MODULE MCLineTable -----------------------------
(* Every table of at most MaxRows rows over a few addresses, for LineTable. *)
EXTENDS LineTable

CONSTANTS MaxRows, MaxAddr

MCPcs == 0 .. MaxAddr

GoodRows == [addr: 0 .. MaxAddr, fails: {"none"}, end: {FALSE}]

BadRows == [addr: {0}, fails: {"lineno", "linesrc", "lineaddr"}, end: {FALSE}]

RowsTables == UNION {[1 .. n -> GoodRows \cup BadRows] : n \in 0 .. MaxRows}

MCTables == RowsTables

\* Two well-formed sequences, each sorted and closed by an end_sequence row,
\* the second one at lower addresses than the first.
Seq2(a, b, c, d) ==
  <<[addr |-> a, fails |-> "none", end |-> FALSE], [addr |-> b, fails |-> "none", end |-> TRUE],
    [addr |-> c, fails |-> "none", end |-> FALSE], [addr |-> d, fails |-> "none", end |-> TRUE]>>

TwoSequences == {Seq2(2, 3, 0, 1)}
=============================================================================
