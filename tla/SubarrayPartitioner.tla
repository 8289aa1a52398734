------------------------ MODULE SubarrayPartitioner -------------------------
(***************************************************************************)
(* The partitioner (subarray/subarray_partitioner.cc) hands a reader one   *)
(* part of the query region after the other, each estimated to fit the     *)
(* buffers and the memory, and splits a part whose results did not fit.    *)
(* A partitioner P is a record:                                            *)
(*   sub          the whole region, its tile overlap computed;             *)
(*   budget, mem  the cells the buffers, and the memory, may hold;         *)
(*   start, end   state_: the ranges not handed out yet;                   *)
(*   list         state_.single_range_ and multi_range_: parts of ranges   *)
(*                that had to be split, the next one first;                *)
(*   cur          current_: its ranges, the part, and whether it came from *)
(*                the multi-range list;                                    *)
(*   unsplit      the flag ReadState::unsplittable_ the calls set.         *)
(* An array A is the fragments and whether the schema allows duplicates.   *)
(***************************************************************************)
EXTENDS Subarray

\* The constructor; the result budget is set when the reader initialises it.
NewPartitioner(A, sub, budget, mem) ==
  [sub |-> ComputeTileOverlap(A.frags, sub), budget |-> budget, mem |-> mem,
   start |-> 0, end |-> RangeNum(sub) - 1,
   list |-> [single |-> << >>, multi |-> << >>],
   cur |-> [start |-> 0, end |-> 0, part |-> sub, split |-> FALSE],
   unsplit |-> FALSE]

\* SubarrayPartitioner::done
Done(P) == P.start > P.end

Fits(A, P, sub, first, last) ==
  /\ EstResultSizes(A.frags, A.dups, sub, first, last) <= P.budget * EstUnit
  /\ MemorySizes(A.frags, sub, first, last) <= P.mem

\* SubarrayPartitioner::must_split, of a part whose overlap is computed.
MustSplit(A, P, part) == ~ Fits(A, P, part, 0, RangeNum(part) - 1)

\* SubarrayPartitioner::compute_current_start_end: as many ranges as fit.
FittingEnds(A, P) == {e \in P.start .. P.end : Fits(A, P, P.sub, P.start, e)}

ComputeCurrentStartEnd(P, ends) ==
  [P EXCEPT !.cur.start = P.start,
            !.cur.end = IF ends = {} THEN P.start ELSE Max(ends)]

\* The loop of calibrate_current_start_end, from the i-th most major
\* dimension on: cut the ranges back so that they form a box.
RECURSIVE CalibrateBox(_, _, _, _)
CalibrateBox(sub, i, first, last) ==
  LET dim == MajorFirst(RangeOrder(sub.layout))
      num == RangeNums(sub)
      major == dim[i]
      minor == {dim[j] : j \in i + 1 .. DimNum}
      atBegin == \A d \in minor : first[d] = 0
      atEnd == \A d \in minor : last[d] = num[d] - 1
      upTo(n) == Tuple([d \in Dims |-> IF d = major THEN n
                                 ELSE IF d \in minor THEN num[d] - 1
                                 ELSE last[d]])
  IN IF i = DimNum \/ (atBegin /\ atEnd) THEN last
     ELSE IF atBegin /\ first[major] < last[major]
     THEN upTo(last[major] - 1)
     ELSE IF ~ atBegin /\ last[major] > first[major]
     THEN CalibrateBox(sub, i + 1, first, upTo(first[major]))
     ELSE CalibrateBox(sub, i + 1, first, last)

\* SubarrayPartitioner::calibrate_current_start_end.  In the row- and
\* column-major layouts the box must also reach the end of the slab; when
\* it has to be extended the slab is split instead.
BoxEnd(P) ==
  CalibrateBox(P.sub, 1, RangeCoords(P.sub, P.cur.start),
               RangeCoords(P.sub, P.cur.end))

SlabDim(layout) == MajorFirst(layout)[DimNum]

\* Never splits a slab.
MustSplitSlabNot(P) == P # P

LastOnSlab(P) == Len(P.sub.ranges[SlabDim(P.sub.layout)]) - 1

MustSplitSlab(P) ==
  /\ P.sub.layout \in {"row", "col"}
  /\ DimNum > 1
  /\ BoxEnd(P)[SlabDim(P.sub.layout)] # LastOnSlab(P)

Calibrate(P) ==
  LET end == [BoxEnd(P) EXCEPT ![SlabDim(P.sub.layout)] =
                IF MustSplitSlab(P) THEN LastOnSlab(P) ELSE @]
  IN IF P.sub.layout = "global" THEN P
     ELSE [P EXCEPT !.cur.end = RangeIdx(P.sub, end)]

\* compute_splitting_value_on_tiles and compute_splitting_value_single_range
\* with the Subarray::split that follows.
SplitSingleRange(part) ==
  LET r(d) == part.ranges[d][1]
      apart(d) == TileNum(ArrayDomain[d], TileExtents[d], r(d)) - 1
      onTiles == SelectSeq(MajorFirst(TileOrder), LAMBDA d : apart(d) # 0)
      onCells == SelectSeq(MajorFirst(RangeOrder(part.layout)),
                          LAMBDA d : ~ Unary(r(d)) /\ ~ Unsplittable(r(d)))
  IN IF part.layout = "global" /\ onTiles # << >>
     THEN LET d == Head(onTiles)
          IN SplitAtValue(part, d,
               CeilToTile(ArrayDomain[d], TileExtents[d], r(d),
                          Larger(1, apart(d) \div 2) - 1))
     ELSE LET d == Head(onCells)
          IN SplitAtValue(part, d, SplittingValue(r(d)))

\* compute_splitting_value_multi_range with the split that follows.
MultiRangeDim(part) ==
  Head(SelectSeq(MajorFirst(RangeOrder(part.layout)),
                 LAMBDA e : Len(part.ranges[e]) > 1
                            \/ ~ Unary(part.ranges[e][1])))

SplitOnDim(part, d) ==
  IF Len(part.ranges[d]) > 1
  THEN SplitAfterRange(part, d, (Len(part.ranges[d]) - 1) \div 2)
  ELSE SplitAtValue(part, d, SplittingValue(part.ranges[d][1]))

Halves(k, part) ==
  IF k = "single" \/ RangeNum(part) = 1 THEN SplitSingleRange(part)
  ELSE SplitOnDim(part, MultiRangeDim(part))

\* split_top_single_range and split_top_multi_range.
SplitTop(k, P) ==
  IF IsUnary(Head(P.list[k])) THEN [P EXCEPT !.unsplit = TRUE]
  ELSE [P EXCEPT !.list[k] = Halves(k, Head(@)) \o Tail(@)]

\* The estimates of must_split compute the overlap of the part anew.
WithOverlap(k, A, P) ==
  [P EXCEPT !.list[k] = <<ComputeTileOverlap(A.frags, Head(@))>> \o Tail(@)]

\* The loop of next_from_single_range and next_from_multi_range: split the
\* first part of the list until it fits or cannot be split.
RECURSIVE FitTop(_, _, _)
FitTop(k, A, P) ==
  LET Fit(Q) == IF MustSplit(A, Q, Head(Q.list[k]))
                THEN FitTop(k, A, SplitTop(k, Q))
                ELSE Q
  IN IF P.unsplit THEN P ELSE Fit(WithOverlap(k, A, P))

\* The part is taken from the list; with the last one its ranges are done.
TakeTop(k, P) ==
  [P EXCEPT !.cur.part = Head(P.list[k]),
            !.cur.split = (k = "multi"),
            !.list[k] = Tail(@),
            !.start = IF Len(P.list[k]) > 1 THEN @
                      ELSE IF k = "multi" THEN P.cur.end + 1
                      ELSE @ + 1]

\* next_from_single_range and next_from_multi_range.
FillList(k, P) ==
  IF P.list[k] # << >> THEN P
  ELSE SplitTop(k, [P EXCEPT !.list[k] =
                      <<GetSubarray(P.sub, P.cur.start, P.cur.end)>>])

NextFrom(k, A, P) == TakeTop(k, FitTop(k, A, FillList(k, P)))

\* The current ranges are handed out as they are.
TakeRanges(P) ==
  [P EXCEPT !.cur.part = GetSubarray(P.sub, P.cur.start, P.cur.end),
            !.cur.split = FALSE,
            !.start = P.cur.end + 1]

\* SubarrayPartitioner::next once the current ranges are known; without any
\* that fit (found), the first one is split.
NextRanges(A, P, found) ==
  LET single == ~ found /\ P.sub.layout \in {"unordered", "global"}
      whole == found /\ (P.sub.layout = "global" \/ ~ MustSplitSlab(P))
      C == IF single THEN P ELSE Calibrate(P)
  IN IF whole THEN TakeRanges(C)
     ELSE NextFrom(IF single THEN "single" ELSE "multi", A, C)

\* SubarrayPartitioner::next: the lists first.
NextPartition(A, P0) ==
  LET P == [P0 EXCEPT !.unsplit = FALSE]
      After(ends) == NextRanges(A, ComputeCurrentStartEnd(P, ends), ends # {})
  IN IF Done(P) THEN P
     ELSE IF P.list.single = << >> /\ P.list.multi = << >>
     THEN After(FittingEnds(A, P))
     ELSE NextFrom(IF P.list.single # << >> THEN "single" ELSE "multi", A, P)

\* SubarrayPartitioner::split_current: a part that came from the multi-range
\* list goes back there; of several whole ranges three in ten are given up;
\* a single range goes to the single-range list.
PutBack(k, P, start) ==
  [P EXCEPT !.start = IF P.list[k] = << >> THEN start ELSE @,
            !.list[k] = <<P.cur.part>> \o @]

KeepRanges(P, last) ==
  [P EXCEPT !.cur.end = last,
            !.cur.part = GetSubarray(P.sub, P.cur.start, last),
            !.start = last + 1]

SplitCurrent(A, P0) ==
  LET P == [P0 EXCEPT !.unsplit = FALSE]
      cur == P.cur
      k == IF cur.split THEN "multi" ELSE "single"
      start == IF cur.split THEN cur.start ELSE P.start - 1
  IN IF ~ cur.split /\ cur.start < cur.end
     THEN KeepRanges(P, cur.start + ((cur.end - cur.start + 1) * 7) \div 10 - 1)
     ELSE NextFrom(k, A, SplitTop(k, PutBack(k, P, start)))
=============================================================================
