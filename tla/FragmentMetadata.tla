-------------------------- MODULE FragmentMetadata --------------------------
(***************************************************************************)
(* What a reader knows of a fragment (fragment/fragment_metadata.cc).      *)
(*   dense  written as a box of whole cells, stored in regular tiles;      *)
(*   ned    the non-empty domain;                                          *)
(*   tiles  sparse only: the coordinates of the cells, tile by tile;       *)
(*   tree   sparse only: the R-tree over the MBRs of the tiles.            *)
(* Tiles are numbered from 1 in the order in which they were written.      *)
(***************************************************************************)
EXTENDS RTree

CONSTANT Capacity   \* cells in a full tile of a sparse fragment

ASSUME CapacityAssumption == Capacity \in Nat \ {0}

\* The MBR of the cells of a tile (Writer::compute_coords_metadata).
MBR(cells) ==
  FoldLeft(LAMBDA r, c : Tuple([d \in Dims |-> ExpandRangeV(c[d], r[d])]),
           CellRange(Head(cells)), Tail(cells))

\* FragmentMetadata::set_mbr for every tile, then RTree::build_tree.
SparseFragment(tiles) ==
  LET mbrs == Tuple([t \in DOMAIN tiles |-> MBR(tiles[t])])
  IN [dense |-> FALSE,
      ned |-> FoldLeft(ExpandNDRange, Head(mbrs), Tail(mbrs)),
      tiles |-> tiles,
      tree |-> BuildTree(<<mbrs>>)]

\* FragmentMetadata::init of a dense fragment.
DenseFragment(box) ==
  [dense |-> TRUE, ned |-> box, tiles |-> << >>, tree |-> << >>]

\* FragmentMetadata::mbr
TileMBR(frag, t) == Last(frag.tree)[t]

\* FragmentMetadata::cell_num, from which tile_size follows: only the last
\* tile of a sparse fragment is taken to hold less than the capacity.
TileCellNum(frag, t) ==
  IF frag.dense THEN CellNumPerTile
  ELSE IF t < Len(frag.tiles) THEN Capacity
  ELSE Len(frag.tiles[t])

\* The tiles that a range reaches, dimension by dimension.
TilesOfRange(d, r) ==
  [i \in 1 .. TileNum(ArrayDomain[d], TileExtents[d], r) |->
     TileOf(ArrayDomain[d], TileExtents[d], r[1]) + i - 1]

\* Domain::get_tile_subarray
TileSubarray(tc) ==
  Tuple([d \in Dims |-> <<ArrayDomain[d][1] + tc[d] * TileExtents[d],
                    ArrayDomain[d][1] + (tc[d] + 1) * TileExtents[d] - 1>>])

\* TileDomain::tile_pos: where the tile comes in the tile domain of a box.
TilePos(box, tc) ==
  LET first == Tuple([d \in Dims |->
                  TileOf(ArrayDomain[d], TileExtents[d], box[d][1])])
      off == Offsets(TileOrder,
               Tuple([d \in Dims |-> TileNum(ArrayDomain[d], TileExtents[d],
                                       box[d])]))
  IN FoldLeft(LAMBDA n, d : n + (tc[d] - first[d]) * off[d], 1,
              Tuple([d \in Dims |-> d]))

\* The overlap of two overlapping boxes.
Intersection(r1, r2) ==
  Tuple([d \in Dims |-> <<Larger(r1[d][1], r2[d][1]), Smaller(r1[d][2], r2[d][2])>>])

\* FragmentMetadata::compute_overlapping_tile_ids_cov, grouped or not by
\* Subarray::get_tile_overlap: every tile of the fragment's domain, expanded
\* to whole tiles, that the range touches, with the part it covers.
DenseOverlap(frag, range) ==
  LET domain == Tuple([d \in Dims |->
                   ExpandToTile(ArrayDomain[d], TileExtents[d], frag.ned[d])])
      common == Intersection(range, domain)
      visit == Odometer(TileOrder,
                        Tuple([d \in Dims |-> TilesOfRange(d, common[d])]))
      entry(tc) ==
        LET cov == NDRatio(range, TileSubarray(tc))
        IN [first |-> TilePos(domain, tc), last |-> TilePos(domain, tc),
            num |-> cov[1], den |-> cov[2]]
  IN IF NDOverlap(range, domain)
     THEN Tuple([i \in DOMAIN visit |-> entry(visit[i])])
     ELSE << >>

\* FragmentMetadata::get_tile_overlap, or its dense counterpart.
TileOverlap(frag, range) ==
  IF frag.dense THEN DenseOverlap(frag, range)
  ELSE RTreeOverlap(frag.tree, range)
=============================================================================
