------------------------------- MODULE RTree --------------------------------
(***************************************************************************)
(* The R-tree of a sparse fragment (rtree/rtree.cc): minimum bounding      *)
(* rectangles (MBRs) of the tiles at the leaves, each inner node the MBR   *)
(* of up to Fanout nodes below, the root first.  A query range is answered *)
(* by a depth-first walk that stops at nodes wholly inside the range and   *)
(* at nodes that miss it.  Tiles and MBRs are numbered from 1.             *)
(***************************************************************************)
EXTENDS Domain

CONSTANT Fanout

ASSUME FanoutAssumption == Fanout \in Nat \ {0, 1}

\* RTree::build_level
BuildLevel(level) ==
  Tuple([i \in 1 .. (Len(level) + Fanout - 1) \div Fanout |->
     LET nodes == SubSeq(level, (i - 1) * Fanout + 1,
                         Smaller(i * Fanout, Len(level)))
     IN FoldLeft(ExpandNDRange, Head(nodes), Tail(nodes))])

\* RTree::build_tree: levels are added until one node is left.
RECURSIVE BuildTree(_)
BuildTree(levels) ==
  IF levels = << >> \/ Len(Head(levels)) = 1
  THEN levels
  ELSE BuildTree(<<BuildLevel(Head(levels))>> \o levels)

\* Counts the levels from the wrong end.
SubtreeLeafNumTop(levels, l) == Fanout ^ (l - 1)

\* RTree::subtree_leaf_num
SubtreeLeafNum(levels, l) == Fanout ^ (Len(levels) - l)

\* The part of RTree::get_tile_overlap below node i of level l: entries
\* [first, last, num, den] in the order of their tiles.  The fraction
\* num / den is the overlap ratio, 1 when the tiles are wholly in range.
RECURSIVE Visit(_, _, _, _)
Visit(levels, l, i, range) ==
  LET mbr == levels[l][i]
      ratio == NDRatio(range, mbr)
      leaves == Len(levels[Len(levels)])
      below == SubtreeLeafNum(levels, l)
      first == (i - 1) * below + 1
  IN CASE ~ NDOverlap(range, mbr) -> << >>
       [] NDOverlap(range, mbr) /\ ratio[1] = ratio[2] ->
            <<[first |-> first,
               last |-> first + Smaller(below, leaves - first + 1) - 1,
               num |-> 1, den |-> 1]>>
       [] NDOverlap(range, mbr) /\ ratio[1] # ratio[2] ->
            IF l = Len(levels)
            THEN <<[first |-> i, last |-> i, num |-> ratio[1],
                    den |-> ratio[2]]>>
            ELSE FlattenSeq(
                   [j \in 1 .. Smaller(Fanout, Len(levels[l + 1])
                                               - (i - 1) * Fanout) |->
                      Visit(levels, l + 1, (i - 1) * Fanout + j, range)])

\* RTree::get_tile_overlap
RTreeOverlap(levels, range) ==
  IF levels = << >> THEN << >> ELSE Visit(levels, 1, 1, range)
=============================================================================
