------------------------------- MODULE Writer -------------------------------
(***************************************************************************)
(* How a writer checks the cells it is given and lays them out in tiles    *)
(* (query/writer.cc).  Cells are sequences of coordinates; for a dense     *)
(* write without coordinates they are values in global order.              *)
(***************************************************************************)
EXTENDS FragmentMetadata

\* Writer::check_coord_oob fails.
CoordOob(cells) ==
  \E i \in DOMAIN cells : \E d \in Dims : Oob(ArrayDomain[d], cells[i][d])

\* Writer::compute_coord_dups: positions that repeat the one before;
\* check_coord_dups fails when there are some.
CoordDups(cells) == {i \in 2 .. Len(cells) : cells[i] = cells[i - 1]}

\* Writer::check_global_order fails.
OutOfGlobalOrder(cells) ==
  \E i \in 1 .. Len(cells) - 1 : GlobalLess(cells[i + 1], cells[i])

\* In row-major order over the whole array.
SortCoordsRow(cells) == SortSeq(cells, LAMBDA a, b : CoordsLess("row", a, b))

\* Writer::sort_coords
SortCoords(cells) == SortSeq(cells, GlobalLess)

\* The cells from position a to b that are not among the duplicates.
Kept(cells, a, b, dups) ==
  LET pos == SelectSeq(Tuple([i \in 1 .. Larger(b - a + 1, 0) |-> a + i - 1]),
                       LAMBDA i : i \notin dups)
  IN Tuple([i \in DOMAIN pos |-> cells[pos[i]]])

\* A sequence cut into n tiles of at most size cells each.
TilesOf(cells, n, size) ==
  Tuple([t \in 1 .. n |-> SubSeq(cells, (t - 1) * size + 1,
                                 Smaller(t * size, Len(cells)))])

\* Writer::prepare_tiles and prepare_tiles_fixed of an unordered write.
PrepareTiles(sorted, dups) ==
  LET kept == Kept(sorted, 1, Len(sorted), dups)
  IN TilesOf(kept, (Len(kept) + Capacity - 1) \div Capacity, Capacity)

\* Writer::unordered_write of cells that pass the checks.
UnorderedWrite(cells) == SparseFragment(PrepareTiles(SortCoords(cells), {}))

\* The last tile is left as it is, and the cells start a new one.
PrepareFullTilesApart(last, cells, dups, size) ==
  LET n == Len(cells)
      toWrite == (n \div size) * size
  IN [tiles |-> (IF last = << >> \/ n = 0 THEN << >> ELSE <<last>>)
                \o TilesOf(Kept(cells, 1, toWrite, dups),
                           toWrite \div size, size),
      last |-> IF n = 0 THEN last ELSE Kept(cells, toWrite + 1, n, dups)]

\* A last tile that becomes full waits for the next submission.
PrepareFullTilesLate(last, cells, dups, size) ==
  LET all == last \o Kept(cells, 1, Len(cells), dups)
      n == IF all = << >> THEN 0 ELSE (Len(all) - 1) \div size
  IN [tiles |-> TilesOf(SubSeq(all, 1, n * size), n, size),
      last |-> SubSeq(all, n * size + 1, Len(all))]

\* Writer::prepare_full_tiles_fixed: the last tile of the submissions before
\* is filled first; the number of full tiles is computed with the
\* duplicates that are then left out; the rest becomes the last tile.
PrepareFullTiles(last, cells, dups, size) ==
  LET n == Len(cells)
      filled(k) == last \o Kept(cells, 1, k, dups)
      k == IF last = << >> \/ n = 0 THEN 0
           ELSE CHOOSE j \in 1 .. n :
                  /\ j = n \/ Len(filled(j)) = size
                  /\ \A i \in 1 .. j - 1 : Len(filled(i)) < size
      full == Len(filled(k)) = size
      toWrite == ((n - k) \div size) * size
  IN [tiles |-> (IF full THEN <<filled(k)>> ELSE << >>)
                \o TilesOf(Kept(cells, k + 1, k + toWrite, dups),
                           toWrite \div size, size),
      last |-> (IF full THEN << >> ELSE filled(k))
               \o Kept(cells, k + toWrite + 1, n, dups)]

-----------------------------------------------------------------------------
(* Ordered writes of the cells of a box into dense tiles. *)

Fill == 0

\* Domain::get_cell_pos_row and get_cell_pos_col in a subarray, from 0.
PosInBox(order, box, c) ==
  LET off == Offsets(order, Tuple([d \in Dims |-> DomainRange(box[d])]))
  IN FoldLeft(LAMBDA n, d : n + (c[d] - box[d][1]) * off[d], 0,
              Tuple([d \in Dims |-> d]))

\* Always in row-major order.
CellPosRow(c) == PosInBox("row", TileSubarray(TileCoords(c)), c)

\* Domain::get_cell_pos: the position of a cell in its tile, from 0.
CellPos(c) == PosInBox(CellOrder, TileSubarray(TileCoords(c)), c)

\* Writer::init_tile_dense_cell_range_iters: the part of the box in every
\* tile it reaches, in tile order.
SubarraysInTiles(box) ==
  LET tiles == Odometer(TileOrder, Tuple([d \in Dims |-> TilesOfRange(d, box[d])]))
  IN Tuple([i \in DOMAIN tiles |-> Intersection(box, TileSubarray(tiles[i]))])

\* The dimension along which neighbours in a tile run.
FastDim == Last(MajorFirst(CellOrder))

\* WriteCellSlabIter in the cell order: slabs along the fast dimension.
SlabStarts(box) ==
  Odometer(CellOrder,
    Tuple([d \in Dims |->
       IF d = FastDim THEN <<box[d][1]>>
       ELSE Tuple([i \in 1 .. DomainRange(box[d]) |-> box[d][1] + i - 1])]))

\* The offset that compute_write_cell_ranges advances in the buffer from one
\* cell of a slab to the next.
RangeOffset(layout, box) ==
  IF layout = CellOrder THEN 1
  ELSE FoldLeft(LAMBDA n, r : n * DomainRange(r), 1,
                IF layout = "col" THEN Front(box) ELSE Tail(box))

\* Writer::compute_write_cell_ranges, cell by cell: [pos, at] sends cell at
\* of the buffer to position pos of the tile.
WriteCellRanges(layout, box, part) ==
  LET starts == SlabStarts(part)
      slab(c) ==
        Tuple([i \in 1 .. DomainRange(part[FastDim]) |->
           [pos |-> CellPos(c) + i - 1,
            at |-> PosInBox(layout, box, c) + (i - 1) * RangeOffset(layout, box)]])
  IN FlattenSeq(Tuple([i \in DOMAIN starts |-> slab(starts[i])]))

\* Writer::prepare_tiles of an ordered write: gaps get the fill value.
TileOfCellRanges(ranges, buffer) ==
  LET empty(n) == Tuple([i \in 1 .. n |-> Fill])
      cells == FoldLeft(LAMBDA tile, r :
                          tile \o empty(r.pos - Len(tile)) \o <<buffer[r.at + 1]>>,
                        << >>, ranges)
  IN cells \o empty(CellNumPerTile - Len(cells))

OrderedTiles(layout, box, buffer) ==
  LET parts == SubarraysInTiles(box)
  IN Tuple([t \in DOMAIN parts |->
       TileOfCellRanges(WriteCellRanges(layout, box, parts[t]), buffer)])
=============================================================================
