---------------------------- MODULE MCReadQuery ----------------------------
EXTENDS ReadQuery, Writer

MCDomain == <<<<1, 4>>, <<1, 3>>>>
MCExtents == <<2, 2>>

S1 == UnorderedWrite(<<<<1,1>>, <<1,2>>, <<2,3>>, <<3,1>>, <<4,3>>>>)
S2 == UnorderedWrite(<<<<1,2>>, <<4,2>>, <<4,3>>>>)
S3 == UnorderedWrite(<<<<1,2>>, <<2,2>>, <<4,3>>>>)
B1 == DenseFragment(<<<<1,4>>, <<1,2>>>>)
B2 == DenseFragment(<<<<2,3>>, <<2,3>>>>)

SparseArrays ==
  {[dense |-> FALSE, dups |-> FALSE, frags |-> f] :
     f \in {<<>>, <<S1, S2>>}}
  \cup {[dense |-> FALSE, dups |-> TRUE, frags |-> <<S2, S1>>]}

DenseArrays ==
  {[dense |-> TRUE, dups |-> FALSE, frags |-> f] :
     f \in {<<B1, B2>>, <<B1, S3>>, <<B2, S3, B1>>}}

MCArrays == SparseArrays \cup DenseArrays

\* The whole domain, boxes that cut tiles, several ranges in one dimension
\* or in both, neighbouring, apart, overlapping and descending.
MCRanges ==
  {<<<<<<1,4>>>>, <<<<1,3>>>>>>,
   <<<<<<2,3>>>>, <<<<2,3>>>>>>,
   <<<<<<1,2>>, <<4,4>>>>, <<<<1,3>>>>>>,
   <<<<<<1,4>>>>, <<<<1,1>>, <<2,3>>>>>>,
   <<<<<<1,1>>, <<2,3>>, <<4,4>>>>, <<<<1,1>>, <<3,3>>>>>>,
   <<<<<<3,4>>, <<1,3>>>>, <<<<2,3>>>>>>}

MCQueries ==
  {q \in {NewSubarray(l, r) : l \in {"row", "col", "global", "unordered"},
                              r \in MCRanges} :
     q.layout = "global" => RangeNum(q) = 1}

\* A dense array with one written cell, and nine ranges of one cell each.
CutArrays ==
  {[dense |-> TRUE, dups |-> FALSE,
    frags |-> <<DenseFragment(<<<<1,1>>, <<1,1>>>>)>>]}

CutQueries ==
  {NewSubarray("row", <<<<<<1,1>>, <<2,2>>, <<3,3>>>>,
                        <<<<1,1>>, <<2,2>>, <<3,3>>>>>>)}
=============================================================================
