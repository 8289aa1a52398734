------------------------------ MODULE Dimension ------------------------------
(***************************************************************************)
(* The arithmetic of one dimension (array_schema/dimension.cc): closed     *)
(* integer ranges <<low, high>>, how they overlap, cover, grow and split,  *)
(* and how a regular tile extent cuts a domain into tiles.  The functions  *)
(* are the integral instances of the templates; the value type is wide     *)
(* enough that no difference of two coordinates overflows.                 *)
(***************************************************************************)
EXTENDS Integers

\* Not the Min and Max of FiniteSetsExt: the two-argument std::min, std::max.
Smaller(a, b) == IF a <= b THEN a ELSE b

Larger(a, b) == IF a >= b THEN a ELSE b

\* Dimension::overlap
Overlap(r1, r2) == ~ (r1[1] > r2[2] \/ r1[2] < r2[1])

\* Dimension::covered: r1 lies inside r2.
Covered(r1, r2) == r1[1] >= r2[1] /\ r1[2] <= r2[2]

\* Dimension::domain_range
DomainRange(r) == r[2] - r[1] + 1

\* Range::unary
Unary(r) == r[1] = r[2]

\* Dimension::expand_range
ExpandRange(r1, r2) == <<Smaller(r1[1], r2[1]), Larger(r1[2], r2[2])>>

\* Dimension::expand_range_v
ExpandRangeV(v, r) == <<Smaller(r[1], v), Larger(r[2], v)>>

\* Dimension::overlap_ratio of two overlapping ranges, as the fraction
\* <<numerator, denominator>>: how much of r2 lies in r1.
OverlapRatio(r1, r2) ==
  <<Smaller(r1[2], r2[2]) - Larger(r1[1], r2[1]) + 1, DomainRange(r2)>>

\* Dimension::splitting_value: the last value of the first half.
SplittingValue(r) == r[1] + (r[2] - r[1]) \div 2

\* The flag *unsplittable the same function sets.
Unsplittable(r) == SplittingValue(r) = r[2]

\* Dimension::split_range
SplitRange(r, v) == <<<<r[1], v>>, <<v + 1, r[2]>>>>

\* The tile of a coordinate in a dimension of domain dom and extent ext.
TileOf(dom, ext, c) == (c - dom[1]) \div ext

\* Dimension::tile_num
TileNum(dom, ext, r) == TileOf(dom, ext, r[2]) - TileOf(dom, ext, r[1]) + 1

\* Dimension::ceil_to_tile: the last coordinate before the tile that is
\* n + 1 tiles after the start of r.
CeilToTile(dom, ext, r, n) ==
  TileOf(dom, ext, r[1] + (n + 1) * ext) * ext + dom[1] - 1

\* Dimension::expand_to_tile
ExpandToTile(dom, ext, r) ==
  <<TileOf(dom, ext, r[1]) * ext + dom[1],
    (TileOf(dom, ext, r[2]) + 1) * ext - 1 + dom[1]>>

\* Dimension::coincides_with_tiles
CoincidesWithTiles(dom, ext, r) ==
  (r[1] - dom[1]) % ext = 0 /\ (r[2] - dom[1] + 1) % ext = 0

\* Dimension::oob
Oob(dom, c) == c < dom[1] \/ c > dom[2]
=============================================================================
