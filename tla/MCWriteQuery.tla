---------------------------- MODULE MCWriteQuery ----------------------------
EXTENDS WriteQuery

MCDomain == <<<<1, 4>>, <<1, 4>>>>
MCExtents == <<2, 2>>

\* With coordinates: the defaults, duplicates removed or allowed, nothing
\* checked.  Without: whole tiles in global order, boxes that cut tiles in
\* the two orders.
Default == [layout |-> "global", coords |-> TRUE, box |-> MCDomain,
            dups |-> FALSE, dedup |-> FALSE,
            checkDups |-> TRUE, checkOrder |-> TRUE, checkOob |-> TRUE]

SparseConfigs ==
  {Default,
   [Default EXCEPT !.dedup = TRUE],
   [Default EXCEPT !.dups = TRUE],
   [Default EXCEPT !.checkDups = FALSE, !.checkOrder = FALSE]}

MCConfigs ==
  SparseConfigs
  \cup {[c EXCEPT !.layout = "unordered"] : c \in SparseConfigs}
  \cup {[Default EXCEPT !.coords = FALSE, !.box = <<<<1, 4>>, <<1, 2>>>>],
        [Default EXCEPT !.coords = FALSE, !.box = <<<<1, 2>>, <<1, 4>>>>, !.dedup = TRUE]}
  \cup {[Default EXCEPT !.coords = FALSE, !.layout = l, !.box = b] :
          l \in {"row", "col"},
          b \in {MCDomain, <<<<2, 4>>, <<1, 3>>>>, <<<<2, 3>>, <<2, 2>>>>}}

\* With coordinates: no cell, less than a tile, a tile and a half, cells that
\* go on where another batch ends, duplicates that shorten or empty a tile,
\* cells out of order and a cell out of the domain.  Without: values.
MCBatches ==
  [coords \in BOOLEAN |->
     IF coords
     THEN {<< >>,
           <<<<1,1>>>>,
           <<<<1,1>>, <<2,1>>, <<1,2>>>>,
           <<<<2,2>>, <<1,3>>, <<4,1>>, <<3,2>>>>,
           <<<<3,2>>, <<3,2>>, <<4,2>>>>,
           <<<<4,2>>, <<4,2>>, <<4,2>>, <<4,2>>>>,
           <<<<3,2>>, <<1,1>>>>,
           <<<<1,5>>>>}
     ELSE {<< >>, <<1>>, <<2, 3, 4>>, <<5, 6, 7, 8>>, <<1, 3, 5, 7, 2>>}]
=============================================================================
