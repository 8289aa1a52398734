------------------------------ MODULE Subarray ------------------------------
(***************************************************************************)
(* A query region (subarray/subarray.cc): for every dimension a sequence   *)
(* of ranges, standing for all the N-dimensional ranges that take one      *)
(* range of each, numbered from 0 in the order of the layout.              *)
(*   layout  "row", "col", "global" or "unordered";                        *)
(*   ranges  for every dimension its ranges;                               *)
(*   over    tile_overlap_: for every N-dimensional range and fragment the *)
(*           tiles in reach, empty until it is computed.                   *)
(***************************************************************************)
EXTENDS FragmentMetadata, FiniteSetsExt

CONSTANT EstUnit   \* a common multiple of the denominators of all ratios

\* The layout that numbers the ranges; a global-order subarray has just one.
RangeOrder(layout) == IF layout \in {"row", "col"} THEN layout ELSE CellOrder

NewSubarray(layout, ranges) ==
  [layout |-> layout, ranges |-> ranges, over |-> << >>]

RangeNums(sub) == Tuple([d \in Dims |-> Len(sub.ranges[d])])

\* Subarray::range_num
RangeNum(sub) == Product(RangeNums(sub))

\* Subarray::compute_range_offsets
RangeOffsets(sub) == Offsets(RangeOrder(sub.layout), RangeNums(sub))

\* Subarray::get_range_coords
RangeCoords(sub, r) ==
  LET off == RangeOffsets(sub)
  IN Tuple([d \in Dims |-> (r \div off[d]) % Len(sub.ranges[d])])

\* Subarray::range_idx
RangeIdx(sub, coords) ==
  LET off == RangeOffsets(sub)
  IN FoldLeft(LAMBDA n, d : n + off[d] * coords[d], 0, Tuple([d \in Dims |-> d]))

\* Subarray::ndrange
NDRangeAt(sub, r) ==
  LET coords == RangeCoords(sub, r)
  IN Tuple([d \in Dims |-> sub.ranges[d][coords[d] + 1]])

\* All of them in order; entry i is range i - 1.
NDRanges(sub) == Tuple([i \in 1 .. RangeNum(sub) |-> NDRangeAt(sub, i - 1)])

\* Subarray::is_unary
IsUnary(sub) ==
  RangeNum(sub) = 1 /\ \A d \in Dims : Unary(sub.ranges[d][1])

\* Subarray::compute_tile_overlap: only the fragments whose non-empty
\* domain some range of the subarray meets are looked at.
ComputeTileOverlap(frags, sub) ==
  LET nd == NDRanges(sub)
      relevant == {f \in DOMAIN frags :
                     \E i \in DOMAIN nd : NDOverlap(nd[i], frags[f].ned)}
  IN [sub EXCEPT !.over =
        Tuple([i \in DOMAIN nd |->
           Tuple([f \in DOMAIN frags |->
              IF f \in relevant THEN TileOverlap(frags[f], nd[i])
              ELSE << >>])])]

\* Subarray::get_subarray: the ranges between the coordinates of the first
\* and of the last one, and the overlaps numbered first to last.  A
\* dimension that gets no range keeps the default one, its whole domain.
GetSubarray(sub, first, last) ==
  LET lo == RangeCoords(sub, first)
      hi == RangeCoords(sub, last)
  IN [layout |-> sub.layout,
      ranges |-> Tuple([d \in Dims |->
                    IF lo[d] <= hi[d]
                    THEN SubSeq(sub.ranges[d], lo[d] + 1, hi[d] + 1)
                    ELSE <<ArrayDomain[d]>>]),
      over |-> SubSeq(sub.over, first + 1, last + 1)]

\* Subarray::split at a value of the only range of dimension d.
SplitAtValue(sub, d, v) ==
  LET halves == SplitRange(sub.ranges[d][1], v)
  IN Tuple([i \in 1 .. 2 |->
        NewSubarray(sub.layout, [sub.ranges EXCEPT ![d] = <<halves[i]>>])])

\* Subarray::split after range n (from 0) of dimension d.
SplitAfterRange(sub, d, n) ==
  LET r == sub.ranges[d]
      halves == <<SubSeq(r, 1, n + 1), SubSeq(r, n + 2, Len(r))>>
  IN Tuple([i \in 1 .. 2 |->
        NewSubarray(sub.layout, [sub.ranges EXCEPT ![d] = halves[i]])])

\* What is known of one N-dimensional range: its overlap entries, each with
\* its fragment.
EntriesOf(sub, r) ==
  FlattenSeq([f \in DOMAIN sub.over[r + 1] |->
                [i \in DOMAIN sub.over[r + 1][f] |->
                   [frag |-> f, entry |-> sub.over[r + 1][f][i]]]])

\* Subarray::compute_relevant_fragment_est_result_sizes of one range, for
\* a fixed-sized attribute, in cells times EstUnit: whole tiles count in
\* full, others by their ratio, and without duplicates no range can have
\* more results than cells.
EstResultSize(frags, dups, sub, r) ==
  LET cells(f, e) == FoldLeft(LAMBDA n, t : n + TileCellNum(frags[f], t), 0,
                              Tuple([i \in 1 .. e.last - e.first + 1 |->
                                 e.first + i - 1]))
      all == FoldLeft(LAMBDA n, x : n + (cells(x.frag, x.entry) * EstUnit
                                         * x.entry.num) \div x.entry.den,
                      0, EntriesOf(sub, r))
  IN IF dups THEN all
     ELSE Smaller(all, CellNum(NDRangeAt(sub, r)) * EstUnit)

\* The tiles the range would bring into memory (frag_tiles).
FragTiles(sub, r) ==
  LET entries == ToSet(EntriesOf(sub, r))
  IN UNION {{x.frag} \X (x.entry.first .. x.entry.last) : x \in entries}

\* Results and memory of ranges first to last together, a tile counting
\* only once for the memory.
EstResultSizes(frags, dups, sub, first, last) ==
  FoldLeft(LAMBDA n, i : n + EstResultSize(frags, dups, sub, first + i - 1),
           0, Tuple([i \in 1 .. last - first + 1 |-> i]))

MemorySizes(frags, sub, first, last) ==
  MapThenSumSet(LAMBDA ft : TileCellNum(frags[ft[1]], ft[2]),
                UNION {FragTiles(sub, r) : r \in first .. last})
=============================================================================
