------------------------------- MODULE Reader -------------------------------
(***************************************************************************)
(* How the reader turns one part of the query region into result cells     *)
(* (query/reader.cc with query/result_tile.cc, read_cell_slab_iter.cc,     *)
(* subarray/cell_slab_iter.cc and array_schema/tile_domain.h).             *)
(* An array A is [dense, dups, frags], the fragments in the order of their *)
(* timestamps.  A result coordinate is [f, t, p]: position p of tile t of  *)
(* sparse fragment f.  A result cell is [c, f, from]: the coordinates      *)
(* returned, the fragment the value is from, and the coordinates at which  *)
(* that fragment holds it; f is 0 for the fill value.                      *)
(***************************************************************************)
EXTENDS SubarrayPartitioner

\* The coordinates of a result coordinate.
CoordsOf(A, x) == A.frags[x.f].tiles[x.t][x.p]

SparseFrags(A) == SelectSeq(Tuple([f \in DOMAIN A.frags |-> f]),
                            LAMBDA f : ~ A.frags[f].dense)

\* Reader::sparse_tile_overwritten
SparseTileOverwritten(A, f, t) ==
  \E g \in f + 1 .. Len(A.frags) :
    A.frags[g].dense /\ NDCovered(TileMBR(A.frags[f], t), A.frags[g].ned)

\* ResultTile::compute_results_dense, the overwritten bitmap: the coordinate
\* on the last dimension is compared with the fragment's domain on each.
OverwrittenBitmap(A, f, c) ==
  \E g \in f + 1 .. Len(A.frags) :
    /\ A.frags[g].dense
    /\ \A d \in Dims : Covered(<<c[DimNum], c[DimNum]>>, A.frags[g].ned[d])

\* Reader::compute_range_result_coords of one tile: compute_results_sparse,
\* or compute_results_dense in a dense array.
TileResultCoords(A, f, t, range) ==
  SelectSeq([p \in DOMAIN A.frags[f].tiles[t] |-> [f |-> f, t |-> t, p |-> p]],
            LAMBDA x : /\ InNDRange(CoordsOf(A, x), range)
                       /\ A.dense => ~ OverwrittenBitmap(A, f, CoordsOf(A, x)))

\* Reader::get_all_result_coords
AllResultCoords(A, f, t) ==
  [p \in DOMAIN A.frags[f].tiles[t] |-> [f |-> f, t |-> t, p |-> p]]

\* Reader::compute_range_result_coords of one fragment: a tile wholly in
\* range is taken whole, unless a newer dense fragment covers all of it.
FragResultCoords(A, part, r, f) ==
  LET of(e) == IF e.num # e.den
               THEN TileResultCoords(A, f, e.first, NDRangeAt(part, r))
               ELSE FlattenSeq(Tuple([i \in 1 .. e.last - e.first + 1 |->
                      IF SparseTileOverwritten(A, f, e.first + i - 1)
                      THEN << >>
                      ELSE AllResultCoords(A, f, e.first + i - 1)]))
      entries == part.over[r + 1][f]
  IN FlattenSeq(Tuple([i \in DOMAIN entries |-> of(entries[i])]))

\* Reader::compute_sparse_result_tiles, for the flag single_fragment: only
\* tiles no earlier range has added are counted.
NewTiles(part, r, f) ==
  LET tiles(q) == UNION {e.first .. e.last : e \in ToSet(part.over[q + 1][f])}
  IN tiles(r) \ UNION {tiles(q) : q \in 0 .. r - 1}

SingleFragment(A, part, r) ==
  Cardinality({f \in ToSet(SparseFrags(A)) : NewTiles(part, r, f) # {}}) <= 1

\* The older of two fragments wins.
DedupKeepOlder(A, sorted) ==
  FoldLeft(LAMBDA kept, x :
             IF kept = << >> \/ CoordsOf(A, Last(kept)) # CoordsOf(A, x)
             THEN Append(kept, x)
             ELSE IF Last(kept).f > x.f THEN Append(Front(kept), x)
             ELSE kept,
           << >>, sorted)

\* Reader::dedup_result_coords of sorted coordinates: of neighbours with the
\* same coordinates the one of the newer fragment stays.
DedupResultCoords(A, sorted) ==
  FoldLeft(LAMBDA kept, x :
             IF kept = << >> \/ CoordsOf(A, Last(kept)) # CoordsOf(A, x)
             THEN Append(kept, x)
             ELSE IF Last(kept).f < x.f THEN Append(Front(kept), x)
             ELSE kept,
           << >>, sorted)

SortResultCoords(A, coords, layout) ==
  SortSeq(coords, LAMBDA x, y :
                    LayoutLess(layout, CoordsOf(A, x), CoordsOf(A, y)))

\* Reader::compute_range_result_coords of one range.
RangeResultCoords(A, part, r) ==
  LET Dedup(all) == IF SingleFragment(A, part, r) \/ A.dups THEN all
                    ELSE DedupResultCoords(A,
                           SortResultCoords(A, all, RangeOrder(part.layout)))
  IN Dedup(FoldLeft(LAMBDA all, f : all \o FragResultCoords(A, part, r, f),
                    << >>, SparseFrags(A)))

\* Reader::compute_result_coords with compute_subarray_coords.
ResultCoords(A, part) ==
  LET Sorted(all) == IF part.layout = "unordered" THEN all
                     ELSE SortResultCoords(A, all, part.layout)
  IN Sorted(FlattenSeq(Tuple([i \in 1 .. RangeNum(part) |->
                                RangeResultCoords(A, part, i - 1)])))

\* Reader::compute_result_cell_slabs of sparse_read: runs of neighbouring
\* positions of a tile.
SparseCellSlabs(coords) ==
  FoldLeft(LAMBDA slabs, x :
             LET s == Last(slabs)
             IN IF /\ slabs # << >>
                   /\ s.f = x.f /\ s.t = x.t /\ x.p = s.start + s.length
                THEN Append(Front(slabs), [s EXCEPT !.length = @ + 1])
                ELSE Append(slabs, [f |-> x.f, t |-> x.t, start |-> x.p,
                                    length |-> 1]),
           << >>, coords)

\* Reader::copy_fixed_cells of sparse slabs.
SparseCells(A, slabs) ==
  LET cell(s, j) == LET c == A.frags[s.f].tiles[s.t][s.start + j - 1]
                    IN [c |-> c, f |-> s.f, from |-> c]
  IN FlattenSeq(Tuple([i \in DOMAIN slabs |->
                   [j \in 1 .. slabs[i].length |-> cell(slabs[i], j)]]))

SparseRead(A, part) == SparseCells(A, SparseCellSlabs(ResultCoords(A, part)))
=============================================================================
