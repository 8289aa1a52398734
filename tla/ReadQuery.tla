------------------------------ MODULE ReadQuery ------------------------------
(***************************************************************************)
(* A read query from its first submission to its completion (Query::submit *)
(* and process in query/query.cc, Reader::read in query/reader.cc).  The   *)
(* results of a region may not fit the buffers of one submission: the      *)
(* reader then returns what fits, the query is INCOMPLETE, and the client  *)
(* submits it again, possibly with other buffers, until it is COMPLETED.   *)
(***************************************************************************)
EXTENDS DenseReader, Bags

CONSTANTS
  Arrays,        \* the arrays a query may be opened on
  Queries,       \* the regions and layouts it may ask for
  BufferSizes,   \* cells the buffers of a submission may hold
  MemoryBudgets, \* cells of sm.memory_budget
  MaxFailures    \* bound on failing or cancelled submissions

VARIABLES
  array,      \* [dense, dups, frags]
  region,     \* the subarray of the query
  mem,        \* the memory budget of the context
  status,     \* status_ of the query
  pc,         \* "client", or "next" and "read" inside Reader::read
  size,       \* the buffers of the current or last submission
  P,          \* read_state_: the partitioner and the unsplittable flag
  delivered,  \* history: all results returned to the client, in order
  failures,   \* history: how many submissions failed
  cut         \* history: a part was cut back to ranges that form no slab

vars == <<array, region, mem, status, pc, size, P, delivered, failures, cut>>

Init ==
  /\ array \in Arrays
  /\ region \in {q \in Queries : array.dense => q.layout # "unordered"}
  /\ mem \in MemoryBudgets
  /\ status = "UNINITIALIZED"
  /\ pc = "client"
  /\ size = 0
  /\ P = << >>
  /\ delivered = << >>
  /\ failures = 0
  /\ cut = FALSE

\* A resubmitted query keeps the status it had.
SubmitKeepStatus(s) ==
  /\ pc = "client"
  /\ status # "COMPLETED"
  /\ size' = s
  /\ P' = IF status = "UNINITIALIZED"
          THEN NewPartitioner(array, region, s, mem) ELSE P
  /\ status' = IF status = "UNINITIALIZED" THEN "INPROGRESS" ELSE status
  /\ pc' = IF P'.unsplit THEN "read" ELSE "next"
  /\ UNCHANGED <<array, region, mem, delivered, failures, cut>>

\* Query::submit with Query::init; the first submission initialises the
\* read state and sets the result budget (Reader::init_read_state).
Submit(s) ==
  /\ pc = "client"
  /\ status # "COMPLETED"
  /\ size' = s
  /\ P' = IF status = "UNINITIALIZED"
          THEN NewPartitioner(array, region, s, mem) ELSE P
  /\ status' = "INPROGRESS"
  /\ pc' = IF P'.unsplit THEN "read" ELSE "next"
  /\ UNCHANGED <<array, region, mem, delivered, failures, cut>>

\* Query::process after Reader::read: Reader::incomplete decides.
Return(results, overflowed) ==
  /\ delivered' = delivered \o results
  /\ status' = IF overflowed \/ ~ Done(P') THEN "INCOMPLETE" ELSE "COMPLETED"
  /\ pc' = "client"

\* The start of Reader::read: the next partition, unless one that could not
\* be split is waiting.  An array without fragments has no results.
Next1 ==
  /\ pc = "next"
  /\ P' = NextPartition(array, P)
  /\ IF array.frags = << >> THEN Return(<< >>, FALSE)
     ELSE pc' = "read" /\ UNCHANGED <<status, delivered>>
  /\ UNCHANGED <<array, region, mem, size, failures, cut>>

\* dense_read or sparse_read of the current partition.
PartResults ==
  IF array.dense THEN DenseRead(array, P.cur.part)
  ELSE SparseRead(array, P.cur.part)

\* Against the buffers of the first submission.
OverflowedFirst(results) == Len(results) > P.budget

\* The test of copy_fixed_cells against the buffers of this submission.
Overflowed(results) == Len(results) > size

\* split_current kept whole ranges that calibrate_current_start_end would
\* not have handed out together.
MisalignedCut(Q, R) ==
  /\ ~ Q.cur.split /\ Q.cur.start < Q.cur.end
  /\ MustSplitSlab(R) \/ Calibrate(R).cur.end # R.cur.end

\* One round of the loop of Reader::read.
ReadPart ==
  /\ pc = "read"
  /\ \E results \in {PartResults} :
       \/ /\ Overflowed(results)
          /\ P' = SplitCurrent(array, P)
          /\ cut' = (cut \/ MisalignedCut(P, P'))
          /\ IF P'.unsplit THEN Return(<< >>, TRUE)
             ELSE UNCHANGED <<status, pc, delivered>>
       \/ /\ ~ Overflowed(results)
          /\ results # << >> \/ Done(P)
          /\ P' = [P EXCEPT !.unsplit = @ /\ results = << >>]
          /\ Return(results, FALSE)
          /\ UNCHANGED cut
       \/ /\ ~ Overflowed(results)
          /\ results = << >> /\ ~ Done(P)
          /\ P' = NextPartition(array, P)
          /\ UNCHANGED <<status, pc, delivered, cut>>
  /\ UNCHANGED <<array, region, mem, size, failures>>

\* An error of the storage, or a cancellation, in dense_read or sparse_read:
\* the query has FAILED and what the submission had found is dropped.  (Errors
\* while the partitioner moves on or splits are not modelled.)
Fail ==
  /\ pc = "read"
  /\ failures < MaxFailures
  /\ failures' = failures + 1
  /\ status' = "FAILED"
  /\ pc' = "client"
  /\ UNCHANGED <<array, region, mem, size, P, delivered, cut>>

\* A completed read may be submitted again: nothing happens.
Completed ==
  /\ pc = "client"
  /\ status = "COMPLETED"
  /\ UNCHANGED vars

Next ==
  \/ \E s \in BufferSizes : Submit(s)
  \/ Next1
  \/ ReadPart
  \/ Fail
  \/ Completed

LargestBuffer == CHOOSE s \in BufferSizes : \A t \in BufferSizes : t <= s

\* WF_vars(Next1 \/ ReadPart) and SF_vars(Submit(LargestBuffer)), with their
\* enabling conditions written out: the library does not stop inside a call,
\* and a client goes on submitting, with its largest buffers again and again.
Fairness ==
  /\ []<>(pc = "client") \/ []<><<pc # "client">>_vars
  /\ []<>(pc = "client" /\ status # "COMPLETED")
       => []<><<pc = "client" /\ size' = LargestBuffer>>_vars

Spec == Init /\ [][Next]_vars /\ Fairness
-----------------------------------------------------------------------------
(* What the results should be, from the cells of the fragments alone.      *)

Holds(f, c) ==
  IF array.frags[f].dense THEN InNDRange(c, array.frags[f].ned)
  ELSE \E t \in DOMAIN array.frags[f].tiles :
         c \in ToSet(array.frags[f].tiles[t])

\* The newest fragment that has the cell, 0 if none has.
Newest(c) ==
  LET holders == {f \in DOMAIN array.frags : Holds(f, c)}
  IN IF holders = {} THEN 0 ELSE Max(holders)

\* The cells of a box in the order of a layout.
CellsOf(order, box) ==
  Odometer(order, Tuple([d \in Dims |-> [i \in 1 .. DomainRange(box[d]) |->
                                     box[d][1] + i - 1]]))

\* The result cells of one coordinate.
ResultsAt(c) ==
  IF array.dups
  THEN FlattenSeq(Tuple([f \in DOMAIN array.frags |->
         [i \in 1 .. Len(SelectSeq(FlattenSeq(array.frags[f].tiles),
                                   LAMBDA x : x = c)) |->
            [c |-> c, f |-> f, from |-> c]]]))
  ELSE IF Newest(c) # 0 THEN <<[c |-> c, f |-> Newest(c), from |-> c]>>
  ELSE IF array.dense THEN <<[c |-> c, f |-> 0, from |-> << >>]>>
  ELSE << >>

\* All results of the region, range after range.
Expected ==
  LET nd == NDRanges(region)
      cells == FlattenSeq(Tuple([i \in DOMAIN nd |-> CellsOf("row", nd[i])]))
  IN IF array.frags = << >> THEN << >>
     ELSE FlattenSeq(Tuple([i \in DOMAIN cells |-> ResultsAt(cells[i])]))

Count(s, x) == Cardinality({i \in DOMAIN s : s[i] = x})

\* Where the reader is known to return other results than these, and the
\* properties make no promise:
\*   two ranges share a tile and duplicates must be removed, as the flag
\*   single_fragment counts a tile for the first range that reaches it only;
SharedTiles ==
  LET tiles(e) == UNION {x.first .. x.last : x \in ToSet(e)}
      Share(over) == \E i, j \in DOMAIN over, f \in ToSet(SparseFrags(array)) :
                       i < j /\ tiles(over[i][f]) \cap tiles(over[j][f]) # {}
  IN /\ ~ array.dups
     /\ Len(SparseFrags(array)) > 1
     /\ Share(ComputeTileOverlap(array.frags, region).over)

\*   a newer dense fragment overwrites only part of a sparse tile, or
\*   the bitmap test, on the last coordinate alone, is mistaken about it;
OverwritesMissed ==
  \E f \in ToSet(SparseFrags(array)) : \E t \in DOMAIN array.frags[f].tiles :
    \E c \in ToSet(array.frags[f].tiles[t]) :
      LET gone == \E g \in f + 1 .. Len(array.frags) :
                    array.frags[g].dense /\ Holds(g, c)
      IN \/ SparseTileOverwritten(array, f, t) # gone
         \/ OverwrittenBitmap(array, f, c) # gone

\*   ranges of a dense array with sparse cells that do not ascend, while
\*   its cells are merged in the order of their coordinates.
Ascending(r) == \A i \in 1 .. Len(r) - 1 : r[i][2] < r[i + 1][1]

RangesAscend == \A d \in Dims : Ascending(region.ranges[d])

InScope ==
  /\ ~ cut
  /\ ~ SharedTiles
  /\ array.dense => ~ OverwritesMissed
  /\ array.dense /\ SparseFrags(array) # << >> => RangesAscend

TypeOK ==
  /\ status \in {"UNINITIALIZED", "INPROGRESS", "INCOMPLETE", "COMPLETED",
                 "FAILED"}
  /\ pc \in {"client", "next", "read"}
  /\ pc # "client" => status = "INPROGRESS"
  /\ status # "UNINITIALIZED" => P.start \in 0 .. P.end + 1
  /\ failures \in 0 .. MaxFailures
  /\ cut \in BOOLEAN

\* Every value returned is the one its fragment stores for the coordinates
\* it is returned with, whatever splits and cell slabs it went through
\* (copy_fixed_cells against fill_dense_coords); in a dense array the fill
\* value may take its place.
ValuesOfCells ==
  \A x \in ToSet(delivered) :
    IF x.f = 0 THEN array.dense ELSE x.from = x.c /\ Holds(x.f, x.c)

\* Over all submissions together a query returns nothing outside its ranges,
\* nothing twice and no value that a newer fragment has overwritten, even
\* when submissions failed in between (Reader::read and what it calls).
NothingWrong ==
  pc = "client" /\ delivered # << >> /\ InScope =>
    LET expected == Expected
    IN \A x \in ToSet(delivered) : Count(delivered, x) <= Count(expected, x)

\* A query is COMPLETED only when its submissions have returned every result
\* of its ranges (Reader::incomplete against SubarrayPartitioner::done).
NothingMissing ==
  status = "COMPLETED" /\ failures = 0 /\ InScope =>
    LET expected == Expected
    IN \A x \in ToSet(expected) : Count(delivered, x) >= Count(expected, x)

\* The results of all submissions, one after the other, are in the layout
\* asked for, although each part is sorted alone (calibrate_current_start_end
\* and the split functions choose parts that follow each other).
InLayoutOrder ==
  region.layout # "unordered" /\ ~ cut /\ RangesAscend =>
    \A i \in 1 .. Len(delivered) - 1 :
      ~ LayoutLess(region.layout, delivered[i + 1].c, delivered[i].c)

\* A client that goes on submitting, with buffers that hold the results of
\* one cell, gets the query COMPLETED (the loop of Reader::read).
Terminates == <>(status = "COMPLETED")

\* What the API promises: resubmitting until the status is COMPLETED reads
\* the entire result (split_current must hand out every range).
EntireResultRead ==
  status = "COMPLETED" /\ failures = 0 =>
    LET expected == Expected
    IN \A x \in ToSet(expected) : Count(delivered, x) >= Count(expected, x)
=============================================================================
