----------------------------- MODULE DenseReader -----------------------------
(***************************************************************************)
(* Reader::dense_read: the cells of a dense array are visited slab by slab *)
(* (CellSlabIter), a slab being cells of one tile that are neighbours in   *)
(* the layout.  Cells of sparse fragments come first (ReadCellSlabIter),   *)
(* what they leave is cut along the dense fragments of the tile from the   *)
(* newest to the oldest, and the rest gets the fill value.                 *)
(*   a cell slab is [coords, length, tile], tile the coordinates of its    *)
(*   tile; a result cell slab is [f, t, start, length], t a tile number    *)
(*   for sparse and tile coordinates for dense fragments, start a position *)
(*   in the tile, from 1 for sparse and from 0 for dense tiles.            *)
(***************************************************************************)
EXTENDS Reader

\* Subarray::compute_tile_coords
SubarrayTileCoords(part) ==
  Odometer(TileOrder,
    Tuple([d \in Dims |->
       SelectSeq(TilesOfRange(d, ArrayDomain[d]),
         LAMBDA t : \E r \in ToSet(part.ranges[d]) :
                      t \in ToSet(TilesOfRange(d, r)))]))

\* Subarray::crop_to_tile
CropToTile(part, tc, layout) ==
  NewSubarray(layout,
    Tuple([d \in Dims |->
       LET box == TileSubarray(tc)[d]
           hit == SelectSeq(part.ranges[d], LAMBDA r : Overlap(r, box))
       IN Tuple([i \in DOMAIN hit |-> <<Larger(hit[i][1], box[1]),
                                  Smaller(hit[i][2], box[2])>>])]))

\* TileDomain::in_tile_domain and covers, for dense fragments.
InTileDomain(frag, tc) == NDOverlap(frag.ned, TileSubarray(tc))

CoversTile(frag1, frag2, tc) ==
  /\ InTileDomain(frag1, tc)
  /\ NDCovered(Intersection(frag2.ned, TileSubarray(tc)),
               Intersection(frag1.ned, TileSubarray(tc)))

\* Reader::compute_result_space_tiles: the dense fragments of a tile, the
\* newest first, without those a newer one covers there.
SpaceTileFrags(A, tc) ==
  SelectSeq(Reverse(Tuple([f \in DOMAIN A.frags |-> f])),
    LAMBDA f : /\ A.frags[f].dense
               /\ InTileDomain(A.frags[f], tc)
               /\ ~ \E g \in f + 1 .. Len(A.frags) :
                      A.frags[g].dense
                      /\ CoversTile(A.frags[g], A.frags[f], tc))

\* CellSlabIter: init_ranges and create_ranges cut the ranges of every
\* dimension at the tiles; the slabs run along the last dimension in
\* row-major and along the first in column-major order.
CreateRanges(d, r) ==
  LET tiles == TilesOfRange(d, r)
      box(t) == <<ArrayDomain[d][1] + t * TileExtents[d],
                  ArrayDomain[d][1] + (t + 1) * TileExtents[d] - 1>>
  IN Tuple([i \in DOMAIN tiles |-> [from |-> Larger(r[1], box(tiles[i])[1]),
                              to |-> Smaller(r[2], box(tiles[i])[2]),
                              tile |-> tiles[i]]])

\* The steps along a dimension: whole pieces on the slab, else single cells.
StepsOf(pieces, onSlab) ==
  FlattenSeq(Tuple([i \in DOMAIN pieces |->
    LET x == pieces[i]
    IN IF onSlab
       THEN <<[c |-> x.from, n |-> x.to - x.from + 1, t |-> x.tile]>>
       ELSE Tuple([j \in 1 .. x.to - x.from + 1 |->
               [c |-> x.from + j - 1, n |-> 1, t |-> x.tile]])]))

SlabsOfTurns(turns, slabDim) ==
  Tuple([i \in DOMAIN turns |->
    [coords |-> Tuple([d \in Dims |-> turns[i][d].c]),
     length |-> turns[i][slabDim].n,
     tile |-> Tuple([d \in Dims |-> turns[i][d].t])]])

CellSlabs(part) ==
  LET steps == Tuple([d \in Dims |->
                 StepsOf(FlattenSeq(Tuple([i \in DOMAIN part.ranges[d] |->
                           CreateRanges(d, part.ranges[d][i])])),
                         d = SlabDim(part.layout))])
  IN SlabsOfTurns(Odometer(part.layout, steps), SlabDim(part.layout))

\* The cells of a slab along dimension d.
SlabCoords(d, slab, j) == [slab.coords EXCEPT ![d] = @ + j - 1]

\* ReadCellSlabIter::compute_cell_offsets and compute_cell_slab_start.
CellSlabStart(slab) ==
  LET off == Offsets(CellOrder, TileExtents)
      first == TileSubarray(slab.tile)
  IN FoldLeft(LAMBDA n, d : n + (slab.coords[d] - first[d][1]) * off[d],
              0, Tuple([d \in Dims |-> d]))

\* compute_cell_slab_overlap and split_cell_slab against one fragment: what
\* is found in it, and what is left for older ones.
CellSlabOverlap(d, slab, box) ==
  LET from == Larger(slab.coords[d], box[d][1])
      to == Smaller(slab.coords[d] + slab.length - 1, box[d][2])
      cut(a, b) == [slab EXCEPT !.coords[d] = a, !.length = b - a + 1]
      end == slab.coords[d] + slab.length - 1
      misses == \/ from > to
                \/ \E e \in Dims \ {d} : Oob(box[e], slab.coords[e])
  IN IF misses THEN [hit |-> {}, left |-> {slab}]
     ELSE [hit |-> {cut(from, to)},
           left |-> {x \in {cut(slab.coords[d], from - 1), cut(to + 1, end)} :
                       x.length > 0}]

\* ReadCellSlabIter::compute_result_cell_slabs_dense
DenseCellSlabs(A, d, slab) ==
  LET step(acc, f) ==
        LET parts == {CellSlabOverlap(d, s, A.frags[f].ned) : s \in acc.left}
        IN [left |-> UNION {x.left : x \in parts},
            hits |-> acc.hits \cup {<<f, s>> : s \in UNION {x.hit : x \in parts}}]
      all == FoldLeft(step, [left |-> {slab}, hits |-> {}],
                      SpaceTileFrags(A, slab.tile))
      result(f, s) == [f |-> f, t |-> s.tile, start |-> CellSlabStart(s),
                       length |-> s.length]
  IN SetToSortSeq({result(x[1], x[2]) : x \in all.hits}
                    \cup {result(0, s) : s \in all.left},
                  LAMBDA x, y : x.start < y.start)

\* ReadCellSlabIter::compute_result_cell_slabs: the next result coordinates
\* are taken as long as they lie on the slab.
RECURSIVE MergeCellSlab(_, _, _, _)
MergeCellSlab(A, d, slab, coords) ==
  LET c == CoordsOf(A, Head(coords))
      onSlab == /\ \A e \in Dims \ {d} : c[e] = slab.coords[e]
                /\ c[d] >= slab.coords[d]
                /\ c[d] < slab.coords[d] + slab.length
      before == [slab EXCEPT !.length = c[d] - slab.coords[d]]
      after == [slab EXCEPT !.coords[d] = c[d] + 1,
                            !.length = @ - (c[d] - slab.coords[d]) - 1]
      dense(s) == IF s.length = 0 THEN << >> ELSE DenseCellSlabs(A, d, s)
      here == [f |-> Head(coords).f, t |-> Head(coords).t,
               start |-> Head(coords).p, length |-> 1]
  IN IF coords # << >> /\ onSlab
     THEN LET more == MergeCellSlab(A, d, after, Tail(coords))
          IN [slabs |-> dense(before) \o <<here>> \o more.slabs,
              coords |-> more.coords]
     ELSE [slabs |-> dense(slab), coords |-> coords]

\* Reader::compute_result_cell_slabs: slab after slab, and in global order
\* tile after tile, with one pass over the result coordinates.
CellSlabsOf(part) ==
  IF part.layout # "global" THEN CellSlabs(part)
  ELSE FoldLeft(LAMBDA slabs, tc :
                  slabs \o CellSlabs(CropToTile(part, tc, CellOrder)),
                << >>, SubarrayTileCoords(part))

ResultCellSlabs(A, part) ==
  LET d == SlabDim(RangeOrder(part.layout))
      step(acc, slab) == LET m == MergeCellSlab(A, d, slab, acc.coords)
                         IN [slabs |-> acc.slabs \o m.slabs,
                             coords |-> m.coords]
  IN FoldLeft(step, [slabs |-> << >>, coords |-> ResultCoords(A, part)],
              CellSlabsOf(part)).slabs

\* Slabs along the other dimension are read as if their cells were adjacent.
StrideOne(layout) == 1

\* Domain::stride: the distance in a tile between neighbours of a slab.
Stride(layout) ==
  IF DimNum = 1 \/ layout = "global" \/ layout = CellOrder THEN 1
  ELSE Product(Tuple([d \in Dims |-> IF d = SlabDim(layout) THEN 1
                               ELSE TileExtents[d]]))

\* The coordinates stored at a position (from 0) of a dense tile.
CellAt(tc, pos) ==
  LET off == Offsets(CellOrder, TileExtents)
  IN Tuple([d \in Dims |-> TileSubarray(tc)[d][1]
                     + ((pos \div off[d]) % TileExtents[d])])

\* Reader::copy_fixed_cells: where the values come from.
CopyCells(A, layout, slabs) ==
  LET value(s, j) ==
        [f |-> s.f,
         from |-> IF s.f = 0 THEN << >>
                  ELSE IF A.frags[s.f].dense
                  THEN CellAt(s.t, s.start + (j - 1) * Stride(layout))
                  ELSE A.frags[s.f].tiles[s.t][s.start]]
  IN FlattenSeq(Tuple([i \in DOMAIN slabs |->
                   [j \in 1 .. slabs[i].length |-> value(slabs[i], j)]]))

\* Reader::fill_dense_coords
FillDenseCoords(d, slabs) ==
  FlattenSeq(Tuple([i \in DOMAIN slabs |->
               [j \in 1 .. slabs[i].length |-> SlabCoords(d, slabs[i], j)]]))

\* Reader::dense_read: values and coordinates are computed apart.
ResultCells(values, coords) ==
  Tuple([i \in DOMAIN values |-> [c |-> coords[i], f |-> values[i].f,
                                 from |-> values[i].from]])

DenseRead(A, part) ==
  ResultCells(CopyCells(A, part.layout, ResultCellSlabs(A, part)),
              FillDenseCoords(SlabDim(RangeOrder(part.layout)),
                              CellSlabsOf(part)))
=============================================================================
