---------------------------- MODULE Consolidation ----------------------------
(***************************************************************************)
(* One call of Consolidator::consolidate by a process that has the array   *)
(* to itself: the list of fragments is read once, and every step chooses a *)
(* run with ConsolidationPlan, merges it into one fragment and updates the *)
(* list (storage_manager/consolidator.cc).  A write is named by its        *)
(* timestamp here.                                                         *)
(***************************************************************************)
EXTENDS ConsolidationPlan

CONSTANTS
  Lists,     \* the fragment lists consolidation may start from
  NewSizes   \* the sizes a merged fragment may get, an arbitrary set

ASSUME SizesAssumption == NewSizes \subseteq Nat \ {0}

VARIABLES
  fragment_info,   \* the list consolidation works on
  step,            \* number of merges done
  pc               \* "merge" while the loop runs, then "done"

vars == <<fragment_info, step, pc>>

Hull(cells) == <<Min(cells), Max(cells)>>

\* A bug: the non-empty domain of a merged sparse fragment is the union of the
\* tiles, not of the cells.
new_fragment_info_tiles(merged, union, size, uri) ==
  [uri    |-> uri,
   t      |-> compute_new_fragment_uri(merged[1], merged[Len(merged)]),
   sparse |-> all_sparse(merged, 1, Len(merged)),
   size   |-> size,
   dom    |-> union,
   data   |-> copy_array(merged, union)]

new_fragment_info(merged, union, size, uri) ==
  LET sparse == all_sparse(merged, 1, Len(merged))
      data   == copy_array(merged, union)
  IN  [uri    |-> uri,
       t      |-> compute_new_fragment_uri(merged[1], merged[Len(merged)]),
       sparse |-> sparse,
       size   |-> size,
       dom    |-> IF sparse THEN Hull(DOMAIN data) ELSE union,
       data   |-> data]

Init ==
  /\ fragment_info \in Lists
  /\ step = 0
  /\ pc = "merge"

consolidate_step ==
  /\ pc = "merge"
  /\ LET run    == compute_next_to_consolidate(fragment_info)
         merged == to_consolidate(fragment_info, run)
         union  == union_non_empty_domains(fragment_info, run)
     IN  /\ run \in Runs(fragment_info)
         /\ \E size \in NewSizes :
              fragment_info' =
                update_fragment_info(
                  merged, new_fragment_info(merged, union, size, -(step + 1)), fragment_info)
  /\ step' = step + 1
  /\ pc' = IF step' < Steps THEN "merge" ELSE "done"

nothing_to_consolidate ==
  /\ pc = "merge"
  /\ compute_next_to_consolidate(fragment_info) \notin Runs(fragment_info)
  /\ pc' = "done"
  /\ UNCHANGED <<fragment_info, step>>

Next == consolidate_step \/ nothing_to_consolidate

Spec == Init /\ [][Next]_vars
-----------------------------------------------------------------------------
(***************************************************************************)
(* Properties.                                                             *)
(***************************************************************************)

\* Every entry of the list has the fields of a FragmentInfo.
TypeOK ==
  /\ pc \in {"merge", "done"}
  /\ step \in 0..Steps
  /\ \A i \in DOMAIN fragment_info :
       LET f == fragment_info[i]
       IN  /\ f.size > 0
           /\ f.t[1] \in Nat /\ f.t[2] \in Nat
           /\ DOMAIN f.data # {}
           /\ DOMAIN f.data \subseteq Coords
           /\ f.sparse => f.dom = Hull(DOMAIN f.data)
           /\ ~f.sparse => DOMAIN f.data = Interval(f.dom)

\* A run that may be merged, defined without the dynamic program: neighbours
\* have similar sizes and every prefix of two or more fragments can be
\* consolidated over the tiles that its cells touch.
PrefixUnion(fragments, j, n) ==
  IF n = 1 THEN fragments[j].dom
  ELSE expand_to_tile(<<Min({fragments[k].dom[1] : k \in j..(j + n - 1)}),
                        Max({fragments[k].dom[2] : k \in j..(j + n - 1)})>>)

Eligible(fragments, j, n) ==
  /\ j + n - 1 <= Len(fragments)
  /\ \A k \in j..(j + n - 2) : similar_size(fragments[k], fragments[k + 1])
  /\ \A l \in 2..n :
       are_consolidatable(fragments, j, j + l - 1, PrefixUnion(fragments, j, l))

RunSize(fragments, j, n) ==
  FoldInOrder(LAMBDA s, f : s + f.size, 0, SubSeq(fragments, j, j + n - 1))

\* compute_next_to_consolidate: "Choose the maximal set of fragments with
\* cardinality in [min, max] with the minimum size".  The chosen run is
\* eligible, no longer run within the limits is, and no run of the same length
\* is more than a fifth smaller than the chosen one.
ChoosesMaximalRun ==
  pc = "merge" =>
    LET fs    == fragment_info
        n     == Len(fs)
        next  == compute_next_to_consolidate(fs)
        lens  == Max({1, Min({MinFrags, n})})..Min({MaxFrags, n})
        Found(len) == {j \in 1..n : Eligible(fs, j, len)}
    IN  IF next.len = 0 THEN \A len \in lens : Found(len) = {}
        ELSE /\ next.len \in lens
             /\ next.start \in Found(next.len)
             /\ union_non_empty_domains(fs, next) = PrefixUnion(fs, next.start, next.len)
             /\ \A len \in lens : len > next.len => Found(len) = {}
             /\ \A j \in Found(next.len) :
                  4 * RunSize(fs, next.start, next.len) <= 5 * RunSize(fs, j, next.len)

\* A merge never changes what a read of the listed fragments returns: the fill
\* cells of a merged dense fragment never hide an older write, and a newer
\* write is never hidden by an older one.
MergePreservesView == [][View(fragment_info') = View(fragment_info)]_vars

\* compute_new_fragment_uri: when consolidation starts from fragments written one
\* after the other, the range in the name of every fragment covers the
\* timestamps of the writes it holds, and the ranges stay disjoint and in order,
\* so that opening the array at a timestamp sees whole merges or none of them.
RangesCoverWrites ==
  \A i \in DOMAIN fragment_info :
    LET f == fragment_info[i]
    IN  /\ \A w \in Range(f.data) \ {Fill} : f.t[1] <= w /\ w <= f.t[2]
        /\ \A j \in DOMAIN fragment_info : i < j => f.t[2] < fragment_info[j].t[1]

\* update_fragment_info puts the new fragment in the place of the run and keeps
\* everything else in its order, so every merge makes the list shorter and the
\* loop ends even with the default number of steps (UINT32_MAX).
MergeReplacesRun ==
  [][step' # step =>
       LET run == compute_next_to_consolidate(fragment_info)
       IN  fragment_info' = ReplaceRun(fragment_info, run, fragment_info'[run.start])
           /\ Len(fragment_info') < Len(fragment_info)]_vars
=============================================================================
