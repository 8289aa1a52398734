------------------------- MODULE ConsolidationPlan -------------------------
(***************************************************************************)
(* How the consolidator chooses the next run of fragments to merge, which  *)
(* name the merged fragment gets and how the list of fragments is updated  *)
(* afterwards (storage_manager/consolidator.cc).                           *)
(*                                                                         *)
(* A fragment-info record has the fields                                   *)
(*   uri     the fragment's name (a model value or a number),              *)
(*   t       <<t1, t2>>, the timestamp range that the name carries,        *)
(*   sparse  whether the fragment holds explicit coordinates,              *)
(*   size    its size in bytes,                                            *)
(*   dom     <<lo, hi>>, its non-empty domain,                             *)
(*   data    its cells: coordinate -> the write that produced the cell, or  *)
(*           Fill in a dense fragment that was expanded over cells nobody   *)
(*           wrote.                                                         *)
(* The array has one dimension.  Ratios are percentages, so that the       *)
(* floating-point comparisons of the code become integer ones.             *)
(***************************************************************************)
EXTENDS Integers, Sequences, FiniteSets, FiniteSetsExt, Functions

CONSTANTS
  DomainStart,    \* the first coordinate of the dimension's domain
  TileExtent,     \* the tile extent of the dimension, 0 when it has none
  MinFrags,       \* sm.consolidation.step_min_frags
  MaxFrags,       \* sm.consolidation.step_max_frags
  SizeRatio,      \* sm.consolidation.step_size_ratio, in percent
  Amplification,  \* sm.consolidation.amplification, in percent
  Steps,          \* sm.consolidation.steps
  Coords,         \* the coordinates of the array, a set of integers
  Fill            \* the fill value of a cell that no write covers

\* The checks of Consolidator::set_config, and the domain's own.
ASSUME ConfigAssumption ==
  /\ DomainStart \in Int
  /\ TileExtent \in Nat
  /\ MinFrags \in Nat /\ MaxFrags \in Nat /\ MinFrags <= MaxFrags
  /\ SizeRatio \in 0..100
  /\ Amplification \in Nat
  /\ Steps \in Nat
  /\ Coords \subseteq Int

\* The accumulating loop over a sequence, from its first element to its last.
FoldInOrder(op(_, _), base, seq) ==
  LET acc[i \in 0..Len(seq)] == IF i = 0 THEN base ELSE op(acc[i - 1], seq[i])
  IN  acc[Len(seq)]

(***************************************************************************)
(* Ranges of one dimension.                                                *)
(***************************************************************************)
overlap(r1, r2) == ~(r1[1] > r2[2] \/ r1[2] < r2[1])

expand_ndrange(r1, r2) == <<Min({r1[1], r2[1]}), Max({r1[2], r2[2]})>>

expand_to_tile(r) ==
  IF TileExtent = 0 THEN r
  ELSE LET first == (r[1] - DomainStart) \div TileExtent
           last  == (r[2] - DomainStart) \div TileExtent
       IN  <<first * TileExtent + DomainStart,
             (last + 1) * TileExtent + DomainStart - 1>>

cell_num(r) == r[2] - r[1] + 1

(***************************************************************************)
(* Which runs fragments[start..end] may be merged.                         *)
(***************************************************************************)
all_sparse(fragments, start, end) ==
  \A i \in start..end : fragments[i].sparse

\* A sparse fragment's expanded domain is its non-empty domain.
expanded_non_empty_domain(f) == IF f.sparse THEN f.dom ELSE expand_to_tile(f.dom)

\* A bug: older fragments under the union are not looked at.
are_consolidatable_ignores_older(fragments, start, end, union) ==
  \/ all_sparse(fragments, start, end)
  \/ 100 * cell_num(union) <=
       Amplification *
         FoldInOrder(LAMBDA n, f : n + cell_num(expanded_non_empty_domain(f)),
                  0, SubSeq(fragments, start, end))

are_consolidatable(fragments, start, end, union) ==
  \/ all_sparse(fragments, start, end)
  \/ /\ \A i \in 1..(start - 1) : ~overlap(union, fragments[i].dom)
     /\ 100 * cell_num(union) <=
          Amplification *
            FoldInOrder(LAMBDA n, f : n + cell_num(expanded_non_empty_domain(f)),
                     0, SubSeq(fragments, start, end))

similar_size(f, g) ==
  100 * Min({f.size, g.size}) >= SizeRatio * Max({f.size, g.size})

\* Sizes stay far below this bound, which stands for UINT64_MAX.
Infinity == 100000000
Invalid == [size |-> Infinity, union |-> <<>>]

\* Entry m[i][j] is about the i fragments that start at position j: it extends
\* the entry of the row above by one fragment and, once invalid, stays so.
m_entry(fragments, i, j) ==
  LET Extend(prev, k) ==
        LET union == expand_to_tile(expand_ndrange(fragments[k].dom, prev.union))
        IN  IF /\ prev.size # Infinity
               /\ similar_size(fragments[k - 1], fragments[k])
               /\ are_consolidatable(fragments, j, k, union)
            THEN [size |-> prev.size + fragments[k].size, union |-> union]
            ELSE Invalid
      First == [size |-> fragments[j].size, union |-> fragments[j].dom]
  IN  IF i + j - 1 > Len(fragments) THEN Invalid
      ELSE FoldInOrder(Extend, First, [k \in 1..(i - 1) |-> j + k])

m_row(fragments, i) == [j \in DOMAIN fragments |-> m_entry(fragments, i, j)]

\* A bug: the first column whose runs are valid wins, however large.
min_column_first(row) ==
  LET Better(best, j) == IF row[best].size = Infinity THEN j ELSE best
  IN  FoldInOrder(Better, 1, [j \in DOMAIN row |-> j])

\* A later column wins only when it is more than a fifth smaller (min / 1.25).
min_column(row) ==
  LET Better(best, j) ==
        IF row[best].size = Infinity \/ 5 * row[j].size < 4 * row[best].size
        THEN j ELSE best
  IN  FoldInOrder(Better, 1, [j \in DOMAIN row |-> j])

\* The runs of two or more fragments.  Consolidation stops when the choice is
\* none of these.
Runs(fragments) ==
  {r \in [start : 1..Len(fragments), len : 2..Len(fragments)] :
     r.start + r.len - 1 <= Len(fragments)}

NoRun == [start |-> 1, len |-> 0]

compute_next_to_consolidate(fragments) ==
  LET min  == Min({MinFrags, Len(fragments)})
      max  == Min({MaxFrags, Len(fragments)})
      m    == [i \in 1..max |-> m_row(fragments, i)]
      rows == {i \in Max({1, min})..max :
                 \E j \in DOMAIN fragments : m[i][j].size # Infinity}
  IN  IF rows = {} THEN NoRun
      ELSE LET i == Max(rows) IN [start |-> min_column(m[i]), len |-> i]

union_non_empty_domains(fragments, run) == m_entry(fragments, run.len, run.start).union

to_consolidate(fragments, run) ==
  SubSeq(fragments, run.start, run.start + run.len - 1)

(***************************************************************************)
(* What a read of the fragments returns: for every coordinate the cell of  *)
(* the last fragment in the list that has it, Fill when none does.         *)
(***************************************************************************)
Covering(fragments, c) == {i \in DOMAIN fragments : c \in DOMAIN fragments[i].data}

\* A bug: of several cells with the same coordinates the oldest one is kept.
Cell_oldest(fragments, c) ==
  LET is == Covering(fragments, c)
  IN  IF is = {} THEN Fill ELSE fragments[Min(is)].data[c]

Cell(fragments, c) ==
  LET is == Covering(fragments, c)
  IN  IF is = {} THEN Fill ELSE fragments[Max(is)].data[c]

View(fragments) == [c \in Coords |-> Cell(fragments, c)]

(***************************************************************************)
(* The merged fragment.  A run of sparse fragments is read in sparse mode, *)
(* so only the cells that exist are copied; otherwise the whole union of   *)
(* the domains is read and written, empty cells as Fill.  Its name starts  *)
(* where the name of the first fragment does and ends where that of the    *)
(* last one does.                                                          *)
(***************************************************************************)
Interval(r) == {c \in Coords : r[1] <= c /\ c <= r[2]}

copy_array(merged, union) ==
  LET cells == IF all_sparse(merged, 1, Len(merged))
               THEN UNION {DOMAIN f.data : f \in Range(merged)}
               ELSE Interval(union)
  IN  [c \in cells |-> Cell(merged, c)]

\* A bug: the name carries the last timestamp twice.
compute_new_fragment_uri_last(first, last) == <<last.t[2], last.t[2]>>

compute_new_fragment_uri(first, last) == <<first.t[1], last.t[2]>>

\* A bug: the new fragment is put where the run ends.
update_fragment_info_keeps_first(merged, new, fragments) ==
  LET Step(s, f) ==
        IF s.next > Len(merged) \/ f.uri # merged[s.next].uri
        THEN [s EXCEPT !.out = Append(@, f)]
        ELSE [next |-> s.next + 1,
              out  |-> Append(s.out, IF s.next = 1 THEN f ELSE new)]
  IN  FoldInOrder(Step, [next |-> 1, out |-> <<>>], fragments).out

\* The two-iterator walk over the list and the merged fragments, by name.
update_fragment_info(merged, new, fragments) ==
  LET Step(s, f) ==
        IF s.next > Len(merged) \/ f.uri # merged[s.next].uri
        THEN [s EXCEPT !.out = Append(@, f)]
        ELSE [next |-> s.next + 1,
              out  |-> IF s.next = 1 THEN Append(s.out, new) ELSE s.out]
  IN  FoldInOrder(Step, [next |-> 1, out |-> <<>>], fragments).out

\* What the walk amounts to when names are unique: the new fragment takes the
\* place of the run.
ReplaceRun(fragments, run, new) ==
  [i \in 1..(Len(fragments) - run.len + 1) |->
     IF i < run.start THEN fragments[i]
     ELSE IF i = run.start THEN new
     ELSE fragments[i + run.len - 1]]
=============================================================================
