--------------------------- MODULE MCConsolidation ---------------------------
(***************************************************************************)
(* Lists of fragments for model checking: the i-th fragment was written at *)
(* timestamp i, over one of a few sets of cells, dense or sparse.          *)
(***************************************************************************)
EXTENDS Consolidation

CONSTANTS MaxLen, Sizes, DenseRanges, SparseCells

MCCoords == 0..3

Writes ==
  [sparse : {FALSE}, size : Sizes, cells : {Interval(r) : r \in DenseRanges}]
  \cup [sparse : {TRUE}, size : Sizes, cells : SparseCells]

Written(i, w) ==
  [uri |-> i, t |-> <<i, i>>, sparse |-> w.sparse, size |-> w.size,
   dom |-> Hull(w.cells), data |-> [c \in w.cells |-> i]]

MCLists ==
  UNION {{[i \in 1..n |-> Written(i, ws[i])] : ws \in [1..n -> Writes]} : n \in 0..MaxLen}

MCDenseRanges == {<<0, 1>>, <<2, 2>>, <<1, 3>>}
MCSparseCells == {{1, 3}}
=============================================================================
