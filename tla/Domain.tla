------------------------------- MODULE Domain -------------------------------
(***************************************************************************)
(* The array domain (array_schema/domain.cc): one dimension after the      *)
(* other, the regular tiles the extents cut it into, and the orders in     *)
(* which tiles and cells are visited.  Coordinates are sequences of        *)
(* integers, N-dimensional ranges (NDRange) sequences of ranges.           *)
(***************************************************************************)
EXTENDS Dimension, Sequences, SequencesExt

CONSTANTS
  ArrayDomain,   \* NDRange: the domain of every dimension
  TileExtents,   \* the tile extent of every dimension
  TileOrder,     \* "row" or "col": the order of the tiles
  CellOrder      \* "row" or "col": the order of the cells in a tile

ASSUME DomainAssumption ==
  /\ Len(ArrayDomain) >= 1
  /\ Len(TileExtents) = Len(ArrayDomain)
  /\ \A d \in DOMAIN ArrayDomain :
       /\ ArrayDomain[d][1] <= ArrayDomain[d][2]
       /\ TileExtents[d] >= 1
  /\ {TileOrder, CellOrder} \subseteq {"row", "col"}

\* A sequence given by a function, written out.  TLC would evaluate the
\* function anew for every element asked for.
Tuple(f) == SubSeq(f, 1, Len(f))

DimNum == Len(ArrayDomain)

Dims == 1 .. DimNum

\* The product over the dimensions of a number given for each.
Product(n) == FoldLeft(LAMBDA a, b : a * b, 1, Tuple([d \in Dims |-> n[d]]))

\* Domain::overlap
NDOverlap(r1, r2) == \A d \in Dims : Overlap(r1[d], r2[d])

\* Domain::covered
NDCovered(r1, r2) == \A d \in Dims : Covered(r1[d], r2[d])

\* Domain::overlap_ratio of two overlapping ranges, as a fraction.
NDRatio(r1, r2) ==
  LET ratio == Tuple([d \in Dims |-> OverlapRatio(r1[d], r2[d])])
  IN <<Product(Tuple([d \in Dims |-> ratio[d][1]])),
       Product(Tuple([d \in Dims |-> ratio[d][2]]))>>

\* Domain::expand_ndrange
ExpandNDRange(r1, r2) == Tuple([d \in Dims |-> ExpandRange(r1[d], r2[d])])

\* Domain::cell_num
CellNum(r) == Product(Tuple([d \in Dims |-> DomainRange(r[d])]))

\* Domain::compute_cell_num_per_tile
CellNumPerTile == Product(TileExtents)

\* The range of one cell, and the cells of a range.
CellRange(c) == Tuple([d \in Dims |-> <<c[d], c[d]>>])

InNDRange(c, r) == \A d \in Dims : r[d][1] <= c[d] /\ c[d] <= r[d][2]

\* Domain::get_tile_coords
TileCoords(c) ==
  Tuple([d \in Dims |-> TileOf(ArrayDomain[d], TileExtents[d], c[d])])

\* RowCmp and ColCmp: the first dimension that differs decides, from the
\* first on in row-major and from the last on in column-major order.
MajorFirst(order) ==
  IF order = "row" THEN Tuple([i \in Dims |-> i]) ELSE Tuple([i \in Dims |-> DimNum + 1 - i])

CoordsLess(order, a, b) ==
  LET dim == MajorFirst(order)
  IN \E i \in Dims :
       /\ a[dim[i]] < b[dim[i]]
       /\ \A j \in 1 .. i - 1 : a[dim[j]] = b[dim[j]]

\* GlobalCmp: the tile order first, then the cell order inside a tile.
GlobalLess(a, b) ==
  \/ CoordsLess(TileOrder, TileCoords(a), TileCoords(b))
  \/ TileCoords(a) = TileCoords(b) /\ CoordsLess(CellOrder, a, b)

\* The comparators by result layout.
LayoutLess(layout, a, b) ==
  IF layout = "global" THEN GlobalLess(a, b) ELSE CoordsLess(layout, a, b)

\* The distance between neighbours along each dimension when the cells of a
\* box with the given widths are laid out in an order.
Offsets(order, width) ==
  LET dim == MajorFirst(order)
      at(i) == FoldLeft(LAMBDA a, b : a * b, 1,
                        Tuple([j \in 1 .. DimNum - i |-> width[dim[i + j]]]))
  IN Tuple([d \in Dims |-> at(CHOOSE i \in Dims : dim[i] = d)])

\* All ways to pick one element from the sequence of every dimension, the
\* last dimension moving fastest in row-major order and the first in
\* column-major order.
Odometer(order, seqs) ==
  LET width == Tuple([d \in Dims |-> Len(seqs[d])])
      off == Offsets(order, width)
  IN Tuple([n \in 1 .. Product(width) |->
        Tuple([d \in Dims |-> seqs[d][(((n - 1) \div off[d]) % width[d]) + 1]])])
=============================================================================
