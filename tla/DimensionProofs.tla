-------------------------- MODULE DimensionProofs --------------------------
(***************************************************************************)
(* What the partitioner of read queries relies on when it cuts a range.    *)
(***************************************************************************)
EXTENDS Dimension, TLAPS

\* The coordinates of a range.
Within(c, r) == r[1] <= c /\ c <= r[2]

\* What cutting r in two must give: neither part is empty, both are smaller
\* than r, and every coordinate of r is in exactly one of them.
CutsInTwo(r, v) ==
  LET parts == SplitRange(r, v)
  IN /\ parts[1][1] <= parts[1][2]
     /\ parts[2][1] <= parts[2][2]
     /\ DomainRange(parts[1]) < DomainRange(r)
     /\ DomainRange(parts[2]) < DomainRange(r)
     /\ DomainRange(parts[1]) + DomainRange(parts[2]) = DomainRange(r)
     /\ \A c \in Int : Within(c, r) <=> Within(c, parts[1]) \/ Within(c, parts[2])
     /\ \A c \in Int : ~ (Within(c, parts[1]) /\ Within(c, parts[2]))

\* Dimension::split_range at any value of the range but the last.
LEMMA SplitAnywhere ==
  ASSUME NEW lo \in Int, NEW hi \in Int, NEW v \in Int, lo <= v, v < hi
  PROVE  CutsInTwo(<<lo, hi>>, v)
BY DEF CutsInTwo, SplitRange, DomainRange, Within

\* Dimension::splitting_value and split_range: a range of more than one
\* coordinate is never reported unsplittable, and splitting it there cuts it
\* in two, so that splitting until ranges are unary comes to an end.
THEOREM SplitAtSplittingValue ==
  ASSUME NEW lo \in Int, NEW hi \in Int, lo < hi
  PROVE  LET r == <<lo, hi>>
         IN ~ Unsplittable(r) /\ CutsInTwo(r, SplittingValue(r))
<1> DEFINE v == SplittingValue(<<lo, hi>>)
<1>1. v \in Int /\ lo <= v /\ v < hi
  BY DEF SplittingValue
<1>2. ~ Unsplittable(<<lo, hi>>)
  BY <1>1 DEF Unsplittable
<1>3. CutsInTwo(<<lo, hi>>, v)
  BY <1>1, SplitAnywhere
<1> QED  BY <1>2, <1>3

\* Euclidean division by a positive number.
LEMMA Division ==
  ASSUME NEW a \in Int, NEW b \in Nat \ {0}
  PROVE  /\ a \div b \in Int
         /\ b * (a \div b) <= a
         /\ a < b * (a \div b) + b
  OBVIOUS

\* ... gives the only quotient of its kind.
LEMMA DivisionUnique ==
  ASSUME NEW a \in Int, NEW b \in Nat \ {0}, NEW q \in Int,
         b * q <= a, a < b * q + b
  PROVE  a \div b = q
<1> DEFINE p == a \div b
<1>1. p \in Int /\ b * p <= a /\ a < b * p + b
  BY Division
<1> HIDE DEF p
<1>2. ASSUME p < q PROVE FALSE
  <2>1. b * (p + 1) <= b * q
    BY <1>1, <1>2
  <2> QED  BY <1>1, <2>1
<1>3. ASSUME q < p PROVE FALSE
  <2>1. b * (q + 1) <= b * p
    BY <1>1, <1>3
  <2> QED  BY <1>1, <2>1
<1>4. p = q
  BY <1>1, <1>2, <1>3
<1> QED  BY <1>4 DEF p

\* Dimension::ceil_to_tile, where compute_splitting_value_on_tiles cuts a
\* range that reaches more than n + 1 tiles: the value lies in the range and
\* is not its last, the cut is between two tiles, and it leaves n + 1 tiles on
\* the left and the others on the right, so no tile is read twice.
THEOREM CeilToTileSplits ==
  ASSUME NEW dlo \in Int, NEW dhi \in Int, NEW ext \in Nat \ {0},
         NEW lo \in Int, NEW hi \in Int, NEW n \in Nat,
         n + 1 < TileNum(<<dlo, dhi>>, ext, <<lo, hi>>)
  PROVE  LET dom == <<dlo, dhi>>
             r == <<lo, hi>>
             v == CeilToTile(dom, ext, r, n)
         IN /\ CutsInTwo(r, v)
            /\ TileNum(dom, ext, <<lo, v>>) = n + 1
            /\ TileNum(dom, ext, <<v + 1, hi>>) = TileNum(dom, ext, r) - (n + 1)
            /\ TileOf(dom, ext, v) # TileOf(dom, ext, v + 1)
<1> DEFINE q == (lo - dlo) \div ext
           h == (hi - dlo) \div ext
           v == (q + n + 1) * ext + dlo - 1
<1>1. q \in Int /\ ext * q <= lo - dlo /\ lo - dlo < ext * q + ext
  BY Division
<1>2. h \in Int /\ ext * h <= hi - dlo /\ hi - dlo < ext * h + ext
  BY Division
<1>3. q + n + 1 < h + 1 /\ n + 1 < h - q + 1
  BY <1>1, <1>2 DEF TileNum, TileOf
<1> HIDE DEF q, h
<1>4. (lo + (n + 1) * ext - dlo) \div ext = q + n + 1
  <2>1. ext * (q + n + 1) <= lo + (n + 1) * ext - dlo
    BY <1>1
  <2>2. lo + (n + 1) * ext - dlo < ext * (q + n + 1) + ext
    BY <1>1
  <2>3. lo + (n + 1) * ext - dlo \in Int /\ q + n + 1 \in Int
    BY <1>1
  <2> QED  BY <2>1, <2>2, <2>3, DivisionUnique
<1>5. CeilToTile(<<dlo, dhi>>, ext, <<lo, hi>>, n) = v
  BY <1>4 DEF CeilToTile, TileOf
<1>6. v \in Int /\ lo <= v
  <2>1. ext * q + ext <= ext * (q + n + 1)
    BY <1>1
  <2> QED  BY <1>1, <2>1
<1>7. v < hi
  <2>1. ext * (q + n + 1) <= ext * h
    BY <1>1, <1>2, <1>3
  <2> QED  BY <1>1, <1>2, <2>1
<1>8. (v - dlo) \div ext = q + n
  <2>1. ext * (q + n) <= v - dlo /\ v - dlo < ext * (q + n) + ext
    BY <1>1
  <2>2. v - dlo \in Int /\ q + n \in Int
    BY <1>1, <1>6
  <2> HIDE DEF v
  <2> QED  BY <2>1, <2>2, DivisionUnique
<1>9. (v + 1 - dlo) \div ext = q + n + 1
  <2>1. ext * (q + n + 1) <= v + 1 - dlo /\ v + 1 - dlo < ext * (q + n + 1) + ext
    BY <1>1
  <2>2. v + 1 - dlo \in Int /\ q + n + 1 \in Int
    BY <1>1, <1>6
  <2> HIDE DEF v
  <2> QED  BY <2>1, <2>2, DivisionUnique
<1> HIDE DEF v
<1>10. CutsInTwo(<<lo, hi>>, v)
  BY <1>6, <1>7, SplitAnywhere
<1>11. /\ TileNum(<<dlo, dhi>>, ext, <<lo, v>>) = n + 1
       /\ TileNum(<<dlo, dhi>>, ext, <<v + 1, hi>>) = h - q - n
       /\ TileNum(<<dlo, dhi>>, ext, <<lo, hi>>) = h - q + 1
       /\ TileOf(<<dlo, dhi>>, ext, v) # TileOf(<<dlo, dhi>>, ext, v + 1)
  <2>1. /\ TileOf(<<dlo, dhi>>, ext, lo) = q
        /\ TileOf(<<dlo, dhi>>, ext, hi) = h
    BY DEF TileOf, q, h
  <2>2. /\ TileOf(<<dlo, dhi>>, ext, v) = q + n
        /\ TileOf(<<dlo, dhi>>, ext, v + 1) = q + n + 1
    BY <1>1, <1>6, <1>8, <1>9 DEF TileOf
  <2> QED  BY <1>1, <1>2, <2>1, <2>2 DEF TileNum
<1> QED  BY <1>1, <1>2, <1>5, <1>10, <1>11
=============================================================================
