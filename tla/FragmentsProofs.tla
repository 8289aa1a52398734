--------------------------- MODULE FragmentsProofs ---------------------------
(***************************************************************************)
(* Type correctness of Fragments, and that committed writes survive and    *)
(* open snapshots stay on disk, for any number of consolidators, vacuums   *)
(* and readers, any configuration of the planner and any crashes.          *)
(*                                                                         *)
(* The history variable root makes the argument inductive.  A committed    *)
(* fragment may be deleted as soon as a .vac file lists it, so what is     *)
(* invariant is not that it stays but that root[f] stays: a committed      *)
(* fragment that no .vac file has ever listed and that holds everything f  *)
(* holds.                                                                  *)
(***************************************************************************)
EXTENDS Fragments, FiniteSetTheorems, SequenceTheorems, TLAPS

\* Zenon proves the first-order steps; a step that needs more names SMT.
USE Zenon

-----------------------------------------------------------------------------
(***************************************************************************)
(* Lemmas about the operators.                                             *)
(***************************************************************************)

\* A function on 1..n is a sequence of length n.
LEMMA FunctionIsSeq ==
  ASSUME NEW S, NEW n \in Nat, NEW f \in [1..n -> S]
  PROVE  f \in Seq(S) /\ Len(f) = n
<1>1. f \in Seq(S)
  BY SeqDef
<1>2. DOMAIN f = 1..n /\ DOMAIN f = 1..Len(f) /\ Len(f) \in Nat
  BY <1>1, LenProperties
<1> QED
  BY SMTT(20), <1>1, <1>2

\* Appending to a sequence, whatever its elements are.
LEMMA AppendFacts ==
  ASSUME NEW s, s \in Seq(Range(s)), NEW e
  PROVE  /\ Append(s, e) \in Seq(Range(Append(s, e)))
         /\ Len(Append(s, e)) = Len(s) + 1
         /\ DOMAIN Append(s, e) = DOMAIN s \cup {Len(s) + 1}
         /\ Len(s) + 1 \notin DOMAIN s
         /\ Append(s, e)[Len(s) + 1] = e
         /\ \A i \in DOMAIN s : Append(s, e)[i] = s[i]
<1> DEFINE a == Append(s, e)
<1>1. s \in Seq(Range(s) \cup {e})
  BY SMT
<1>2. a \in Seq(Range(s) \cup {e}) /\ Len(a) = Len(s) + 1
  BY SMT, <1>1
<1>3. DOMAIN a = 1..(Len(s) + 1) /\ DOMAIN s = 1..Len(s) /\ Len(s) \in Nat
  BY SMT, <1>1, <1>2
<1>4. a[Len(s) + 1] = e /\ \A i \in DOMAIN s : a[i] = s[i]
  BY SMT, <1>1, <1>3
<1>5. a \in Seq(Range(a))
  <2>1. a \in [1..(Len(s) + 1) -> Range(s) \cup {e}]
    BY <1>2, LenProperties
  <2>2. a \in [1..(Len(s) + 1) -> Range(a)]
    BY <1>3, <2>1 DEF Range
  <2>3. Len(s) + 1 \in Nat
    BY SMT, <1>3
  <2> HIDE DEF a
  <2> QED
    BY <2>2, <2>3, FunctionIsSeq
<1> QED
  BY SMT, <1>2, <1>3, <1>4, <1>5

\* The sorted list of a finite set of numbers holds elements of the set only.
LEMMA SortedFacts ==
  ASSUME NEW S \in SUBSET Nat, IsFiniteSet(S)
  PROVE  /\ get_sorted_uris(S) \in Seq(Nat)
         /\ \A i \in DOMAIN get_sorted_uris(S) : get_sorted_uris(S)[i] \in S
<1> DEFINE l == get_sorted_uris(S)
           P(i, f) == (\E g \in S : Rank(S, g) = i) => Rank(S, f) = i
<1>1. Cardinality(S) \in Nat
  BY FS_CardinalityType
<1>2. DOMAIN l = 1..Cardinality(S)
  BY DEF get_sorted_uris
<1>3. ASSUME NEW i \in 1..Cardinality(S) PROVE l[i] \in S
  <2>1. S # {}
    BY SMT, <1>1, FS_EmptySet
  <2>2. \E f \in S : P(i, f)
    BY <2>1
  <2>3. (CHOOSE f \in S : P(i, f)) \in S
    BY <2>2
  <2>4. l[i] = CHOOSE f \in S : P(i, f)
    BY DEF get_sorted_uris
  <2> QED
    BY <2>3, <2>4
<1>4. l \in [1..Cardinality(S) -> Nat]
  BY <1>3 DEF get_sorted_uris
<1> QED
  BY <1>1, <1>2, <1>3, <1>4, FunctionIsSeq

\* Replacing a run of a list by one element.
LEMMA ReplaceRunFacts ==
  ASSUME NEW l \in Seq(Nat), NEW run \in Runs(l), NEW n \in Nat
  PROVE  /\ ReplaceRun(l, run, n) \in Seq(Nat)
         /\ \A i \in DOMAIN ReplaceRun(l, run, n) :
              ReplaceRun(l, run, n)[i] = n
              \/ \E j \in DOMAIN l : ReplaceRun(l, run, n)[i] = l[j]
<1> DEFINE r == ReplaceRun(l, run, n)
           k == Len(l) - run.len + 1
<1>1. /\ run.start \in 1..Len(l) /\ run.len \in 2..Len(l)
      /\ run.start + run.len - 1 <= Len(l)
      /\ Len(l) \in Nat /\ DOMAIN l = 1..Len(l)
  BY SMT DEF Runs
<1>2. k \in Nat /\ DOMAIN r = 1..k
  <2>1. Len(l) \in Int /\ run.len \in Int /\ run.len <= Len(l)
    BY SMT, <1>1
  <2>2. \A a, b \in Int : b <= a => a - b + 1 \in Nat
    BY SMT
  <2>3. k \in Nat
    BY <2>1, <2>2
  <2>4. DOMAIN r = 1..k
    BY DEF ReplaceRun
  <2> HIDE DEF r, k
  <2> QED
    BY <2>3, <2>4
<1>3. ASSUME NEW i \in 1..k
      PROVE  r[i] = n \/ \E j \in DOMAIN l : r[i] = l[j]
  <2>1. i < run.start => i \in DOMAIN l /\ r[i] = l[i]
    BY SMT, <1>1 DEF ReplaceRun
  <2>2. i = run.start => r[i] = n
    BY SMT, <1>1 DEF ReplaceRun
  <2>3. i > run.start => \E j \in DOMAIN l : r[i] = l[j]
    <3> DEFINE j == i + run.len - 1
    <3>1. /\ i \in Int /\ run.start \in Int /\ run.len \in Int /\ Len(l) \in Int
          /\ 1 <= i /\ i <= Len(l) - run.len + 1 /\ run.len >= 2
      BY SMT, <1>1
    <3>2. j \in 1..Len(l)
      <4>1. \A a, b, c \in Int : 1 <= a /\ a <= c - b + 1 /\ b >= 2 => a + b - 1 \in 1..c
        BY SMT
      <4> HIDE DEF r, k
      <4> QED
        BY <3>1, <4>1
    <3>4. i > run.start => ~(i < run.start) /\ i # run.start
      BY SMT, <3>1
    <3>3. r[i] = IF i < run.start THEN l[i]
                 ELSE IF i = run.start THEN n ELSE l[j]
      BY DEF ReplaceRun
    <3>5. j \in DOMAIN l
      BY <1>1, <3>2
    <3> HIDE DEF r, j
    <3> QED
      BY <3>3, <3>4, <3>5
  <2>4. i < run.start \/ i = run.start \/ i > run.start
    BY SMT, <1>1
  <2> HIDE DEF r
  <2> QED
    BY <2>1, <2>2, <2>3, <2>4
<1>4. r \in [1..k -> Nat]
  <2>1. \A i \in 1..k : r[i] \in Nat
    <3>1. \A j \in DOMAIN l : l[j] \in Nat
      BY <1>1, ElementOfSeq
    <3> HIDE DEF r, k
    <3> QED
      BY <1>3, <3>1
  <2>2. r = [i \in 1..k |-> r[i]]
    BY DEF ReplaceRun
  <2> QED
    BY <2>1, <2>2
<1> HIDE DEF r, k
<1> QED
  BY <1>2, <1>3, <1>4, FunctionIsSeq DEF r
-----------------------------------------------------------------------------
(***************************************************************************)
(* Type correctness.                                                       *)
(***************************************************************************)

\* Fragment numbers are positive integers, finitely many.
LEMMA IdFacts ==
  ASSUME FilesOK
  PROVE  /\ Len(frags) \in Nat
         /\ Ids = 1..Len(frags) /\ DOMAIN root = Ids
         /\ NewId = Len(frags) + 1 /\ NewId \in Nat /\ NewId \notin Ids
         /\ \A f \in Ids : f \in Nat /\ f < NewId
         /\ \A T : IsFiniteSet(VisibleAt(T)) /\ VisibleAt(T) \subseteq Ids \cap Visible
<1>1. Len(frags) \in Nat /\ Ids = 1..Len(frags) /\ DOMAIN root = 1..Len(root)
  BY LenProperties DEF FilesOK, Ids
<1>2. NewId = Len(frags) + 1 /\ NewId \in Nat /\ NewId \notin Ids
  BY SMT, <1>1 DEF NewId
<1>3. \A f \in Ids : f \in Nat /\ f < NewId
  BY SMT, <1>1, <1>2
<1>4. ASSUME NEW T PROVE IsFiniteSet(VisibleAt(T)) /\ VisibleAt(T) \subseteq Ids \cap Visible
  <2>1. VisibleAt(T) \subseteq Ids \cap Visible
    BY DEF VisibleAt, Visible, FilesOK
  <2>2. IsFiniteSet(1..Len(frags))
    BY SMT, <1>1, FS_Interval
  <2> QED
    BY <1>1, <2>1, <2>2, FS_Subset
<1> QED
  BY <1>1, <1>2, <1>3, <1>4 DEF FilesOK

\* Changing the state of one consolidator.
LEMMA SetCFacts ==
  ASSUME ConsolidatorsOK, NEW p \in Consolidators, NEW c, SetC(p, c)
  PROVE  /\ cons'[p] = c
         /\ \A q \in Consolidators : q # p => cons'[q] = cons[q]
         /\ c \in ConsolidatorState => cons' \in [Consolidators -> ConsolidatorState]
  BY DEF SetC, ConsolidatorsOK

LEMMA IdleCType == IdleC \in ConsolidatorState
<1>1. NoRun \in [start : Nat, len : Nat] /\ <<>> \in Seq(Nat)
  BY EmptySeq DEF NoRun
<1> QED
  BY <1>1 DEF IdleC, ConsolidatorState

\* A consolidator that becomes idle.
LEMMA IdleStep ==
  ASSUME ConsolidatorsOK, FilesOK, NEW p \in Consolidators, SetC(p, IdleC), frags' = frags
  PROVE  ConsolidatorsOK'
<1>1. Ids' = Ids
  BY DEF Ids
<1>2. IdleC.list = <<>> /\ IdleC.pc = "idle" /\ DOMAIN <<>> = {}
  BY SMT DEF IdleC
<1> QED
  BY SMT, <1>1, <1>2, SetCFacts, IdleCType DEF ConsolidatorsOK

\* One more fragment keeps the types of the consolidators that do not move.
LEMMA GrowStep ==
  ASSUME FilesOK, NEW e, frags' = Append(frags, e)
  PROVE  /\ frags' \in Seq(Range(frags'))
         /\ Len(frags') = Len(frags) + 1
         /\ Ids' = Ids \cup {NewId}
         /\ frags'[NewId] = e
         /\ \A f \in Ids : frags'[f] = frags[f]
<1>1. frags \in Seq(Range(frags))
  BY DEF FilesOK
<1> QED
  BY SMT, <1>1, AppendFacts DEF Ids, NewId

LEMMA GrowRoot ==
  ASSUME FilesOK, root' = Append(root, NewId)
  PROVE  /\ root' \in Seq(Nat) /\ Len(root') = Len(root) + 1
         /\ root'[NewId] = NewId
         /\ \A f \in Ids : root'[f] = root[f]
<1>1. root \in Seq(Nat) /\ NewId \in Nat /\ NewId = Len(root) + 1 /\ DOMAIN root = Ids
  BY IdFacts DEF FilesOK
<1>2. \A f \in DOMAIN root : root'[f] = root[f]
  BY SMT, <1>1
<1> QED
  BY SMT, <1>1, <1>2
\* The positions of a run are positions of the list.
LEMMA RunBounds ==
  ASSUME NEW l \in Seq(Nat), NEW r \in Runs(l)
  PROVE  \A i \in r.start..(r.start + r.len - 1) : i \in DOMAIN l
<1>1. DOMAIN l = 1..Len(l) /\ Len(l) \in Nat
  BY LenProperties
<1>2. r.start \in 1..Len(l) /\ r.len \in 2..Len(l) /\ r.start + r.len - 1 <= Len(l)
  BY DEF Runs
<1> QED
  BY SMT, <1>1, <1>2

\* The run that a consolidator merges consists of elements of its list.
LEMMA RunFacts ==
  ASSUME FilesOK, ConsolidatorsOK, NEW p \in Consolidators,
         cons[p].pc \notin {"idle", "plan"}
  PROVE  /\ RunOf(p) \subseteq Ids
         /\ \A f \in RunOf(p) : \E i \in DOMAIN cons[p].list : f = cons[p].list[i]
<1>1. cons[p].list \in Seq(Nat) /\ cons[p].run \in Runs(cons[p].list)
  BY DEF ConsolidatorsOK, ConsolidatorState
<1>2. \A i \in cons[p].run.start..(cons[p].run.start + cons[p].run.len - 1) : i \in DOMAIN cons[p].list
  BY <1>1, RunBounds
<1> QED
  BY <1>2 DEF RunOf, ConsolidatorsOK

\* Writing a .vac file keeps the history well formed.
LEMMA AbsorbType ==
  ASSUME FilesOK, NEW new \in Ids, NEW S \in SUBSET Ids, Absorb(new, S)
  PROVE  /\ doomed' \subseteq Ids
         /\ root' \in Seq(Nat) /\ Len(root') = Len(root)
         /\ \A f \in Ids : root'[f] = IF root[f] \in S THEN root[new] ELSE root[f]
<1>1. root \in Seq(Nat) /\ DOMAIN root = Ids /\ Ids = 1..Len(root) /\ Len(root) \in Nat
  BY IdFacts DEF FilesOK
<1>2. \A f \in Ids : root[f] \in Nat
  BY <1>1, ElementOfSeq
<1>3. root' = [f \in 1..Len(root) |-> IF root[f] \in S THEN root[new] ELSE root[f]]
  BY <1>1 DEF Absorb
<1>4. root' \in [1..Len(root) -> Nat]
  BY <1>1, <1>2, <1>3
<1>5. root' \in Seq(Nat) /\ Len(root') = Len(root)
  BY <1>1, <1>4, FunctionIsSeq
<1>6. doomed' \subseteq Ids
  BY DEF Absorb, FilesOK
<1> QED
  BY <1>1, <1>3, <1>5, <1>6

\* A consolidator that moves to a state c of the right type.
LEMMA MoveStep ==
  ASSUME FilesOK, ConsolidatorsOK, NEW p \in Consolidators, NEW c \in ConsolidatorState,
         SetC(p, c), Ids \subseteq Ids',
         \A i \in DOMAIN c.list : c.list[i] \in Ids',
         c.pc \notin {"idle", "plan"} => c.run \in Runs(c.list),
         c.pc \in {"copied", "closed", "finalized"} => c.new \in Ids'
  PROVE  ConsolidatorsOK'
<1>1. /\ cons'[p] = c
      /\ \A q \in Consolidators : q # p => cons'[q] = cons[q]
      /\ cons' \in [Consolidators -> ConsolidatorState]
  BY SetCFacts
<1>2. ASSUME NEW q \in Consolidators
      PROVE  /\ \A i \in DOMAIN cons'[q].list : cons'[q].list[i] \in Ids'
             /\ cons'[q].pc \notin {"idle", "plan"} => cons'[q].run \in Runs(cons'[q].list)
             /\ cons'[q].pc \in {"copied", "closed", "finalized"} => cons'[q].new \in Ids'
  <2>1. CASE q = p
    BY <1>1, <2>1
  <2>2. CASE q # p
    <3>1. cons'[q] = cons[q]
      BY <1>1, <2>2
    <3> QED
      BY <3>1 DEF ConsolidatorsOK
  <2> QED
    BY <2>1, <2>2
<1> QED
  BY <1>1, <1>2 DEF ConsolidatorsOK

LEMMA InitType == Init => TypeOK
<1> SUFFICES ASSUME Init PROVE TypeOK
  OBVIOUS
<1>1. FilesOK
  BY EmptySeq DEF Init, FilesOK, Ids, VacFile, Range
<1>2. ConsolidatorsOK
  <2>1. IdleC.list = <<>> /\ IdleC.pc = "idle" /\ DOMAIN <<>> = {}
    BY SMT DEF IdleC
  <2> QED
    BY <2>1, IdleCType DEF Init, ConsolidatorsOK
<1>3. vacuum \in [Vacuums -> VacuumState] /\ reader \in [Readers -> ReaderState]
  BY DEF Init, IdleV, VacuumState, Closed, ReaderState
<1> QED
  BY <1>1, <1>2, <1>3 DEF Init, TypeOK

\* A step that changes neither the fragments nor the consolidators.
LEMMA SameConsolidators ==
  ASSUME ConsolidatorsOK, cons' = cons, Ids \subseteq Ids'
  PROVE  ConsolidatorsOK'
  BY DEF ConsolidatorsOK

LEMMA WriterType ==
  ASSUME TypeOK, WriterNext
  PROVE  TypeOK'
<1> USE DEF TypeOK
<1>1. ASSUME NEW cells, NEW u, create_fragment(cells, u) PROVE TypeOK'
  <2> DEFINE e == [t |-> <<now', now'>>, uuid |-> u, srcs |-> {NewId}, data |-> [c \in cells |-> NewId]]
  <2>1. frags' = Append(frags, e) /\ root' = Append(root, NewId)
    BY <1>1 DEF create_fragment
  <2> HIDE DEF e
  <2>2. Ids' = Ids \cup {NewId} /\ frags' \in Seq(Range(frags')) /\ Len(frags') = Len(frags) + 1
    BY <2>1, GrowStep
  <2>3. root' \in Seq(Nat) /\ Len(root') = Len(root) + 1
    BY <2>1, GrowRoot
  <2>4. FilesOK'
    BY <1>1, <2>2, <2>3 DEF FilesOK, create_fragment
  <2>5. ConsolidatorsOK'
    BY <1>1, <2>2, SameConsolidators DEF create_fragment
  <2>6. now' \in Nat
    BY SMT, <1>1 DEF create_fragment
  <2> QED
    BY <1>1, <2>4, <2>5, <2>6 DEF create_fragment
<1>2. ASSUME NEW f \in writing, commit_write(f) \/ clean_up(f) \/ crash_write(f) PROVE TypeOK'
  <2> USE DEF commit_write, clean_up, crash_write, Storage, files, history
  <2>1. Ids' = Ids
    BY <1>2 DEF Ids
  <2>2. FilesOK'
    BY <1>2, <2>1 DEF FilesOK
  <2>3. ConsolidatorsOK'
    BY <1>2, <2>1, SameConsolidators
  <2> QED
    BY SMT, <1>2, <2>2, <2>3
<1> QED
  BY <1>1, <1>2 DEF WriterNext

LEMMA ConsolidatorType ==
  ASSUME TypeOK, NEW p \in Consolidators, ConsolidatorStep(p)
  PROVE  TypeOK'
<1> USE DEF TypeOK, Storage, files, history
<1>0. cons[p] \in ConsolidatorState
  BY DEF ConsolidatorsOK
<1>1. CASE get_fragment_info(p)
  <2> DEFINE c == [IdleC EXCEPT !.pc = "plan", !.list = get_sorted_uris(VisibleAt(now))]
  <2>1. Ids' = Ids /\ FilesOK'
    BY <1>1 DEF get_fragment_info, FilesOK, Ids
  <2>2. VisibleAt(now) \in SUBSET Nat /\ IsFiniteSet(VisibleAt(now)) /\ VisibleAt(now) \subseteq Ids
    BY IdFacts
  <2>3. /\ get_sorted_uris(VisibleAt(now)) \in Seq(Nat)
        /\ \A i \in DOMAIN get_sorted_uris(VisibleAt(now)) : get_sorted_uris(VisibleAt(now))[i] \in Ids
    BY <2>2, SortedFacts
  <2>4. c \in ConsolidatorState /\ c.pc = "plan" /\ c.list = get_sorted_uris(VisibleAt(now))
    BY <2>3, IdleCType DEF ConsolidatorState, IdleC
  <2>5. SetC(p, c)
    BY <1>1 DEF get_fragment_info
  <2> HIDE DEF c
  <2>6. ConsolidatorsOK'
    BY <2>1, <2>3, <2>4, <2>5, MoveStep
  <2> QED
    BY <1>1, <2>1, <2>6 DEF get_fragment_info
<1>2. CASE open_run(p)
  <2>1. Ids' = Ids /\ FilesOK'
    BY <1>2 DEF open_run, FilesOK, Ids
  <2>2. PICK run \in Runs(cons[p].list) :
          SetC(p, [cons[p] EXCEPT !.pc = "reading", !.run = run]) \/ SetC(p, IdleC)
    BY <1>2 DEF open_run
  <2>3. CASE SetC(p, [cons[p] EXCEPT !.pc = "reading", !.run = run])
    <3> DEFINE c == [cons[p] EXCEPT !.pc = "reading", !.run = run]
    <3>1. run \in [start : Nat, len : Nat]
      BY SMT DEF Runs
    <3>2. c \in ConsolidatorState /\ c.pc = "reading" /\ c.run = run /\ c.list = cons[p].list
      BY <1>0, <3>1 DEF ConsolidatorState
    <3>3. \A i \in DOMAIN c.list : c.list[i] \in Ids
      BY <3>2 DEF ConsolidatorsOK
    <3>4. SetC(p, c)
      BY <2>3
    <3> HIDE DEF c
    <3> QED
      BY <2>1, <3>2, <3>3, <3>4, MoveStep, <1>2 DEF open_run
  <2>4. CASE SetC(p, IdleC)
    BY <1>2, <2>1, <2>4, IdleStep DEF open_run
  <2> QED
    BY <2>2, <2>3, <2>4
<1>3. CASE nothing_to_consolidate(p) \/ copy_fails(p)
  <2>1. Ids' = Ids /\ FilesOK'
    BY <1>3 DEF nothing_to_consolidate, copy_fails, FilesOK, Ids
  <2> QED
    BY <1>3, <2>1, IdleStep DEF nothing_to_consolidate, copy_fails
<1>4. ASSUME NEW u, copy_run(p, u) PROVE TypeOK'
  <2> DEFINE c == [cons[p] EXCEPT !.pc = "copied", !.new = NewId]
  <2>1. PICK e : frags' = Append(frags, e)
    BY <1>4 DEF copy_run
  <2>2. root' = Append(root, NewId)
    BY <1>4 DEF copy_run
  <2>3. Ids' = Ids \cup {NewId} /\ frags' \in Seq(Range(frags')) /\ Len(frags') = Len(frags) + 1
    BY <2>1, GrowStep
  <2>4. root' \in Seq(Nat) /\ Len(root') = Len(root) + 1
    BY <2>2, GrowRoot
  <2>5. FilesOK'
    BY <1>4, <2>3, <2>4 DEF FilesOK, copy_run
  <2>6. NewId \in Nat
    BY IdFacts
  <2>7. c \in ConsolidatorState /\ c.run = cons[p].run /\ c.list = cons[p].list /\ c.new = NewId
    BY <1>0, <2>6 DEF ConsolidatorState
  <2>8. cons[p].run \in Runs(cons[p].list) /\ \A i \in DOMAIN c.list : c.list[i] \in Ids
    BY <1>4, <2>7 DEF ConsolidatorsOK, copy_run
  <2>9. SetC(p, c)
    BY <1>4 DEF copy_run
  <2> HIDE DEF c
  <2>10. ConsolidatorsOK'
    BY <2>3, <2>7, <2>8, <2>9, MoveStep
  <2> QED
    BY <1>4, <2>5, <2>10 DEF copy_run
<1>5. CASE close_reads(p) \/ finalize(p)
  <2>1. PICK pc \in {"closed", "finalized"} : SetC(p, [cons[p] EXCEPT !.pc = pc])
    BY <1>5 DEF close_reads, finalize
  <2> DEFINE c == [cons[p] EXCEPT !.pc = pc]
  <2>2. c \in ConsolidatorState /\ c.run = cons[p].run /\ c.list = cons[p].list /\ c.new = cons[p].new
    BY <1>0, <2>1 DEF ConsolidatorState
  <2>3. /\ cons[p].run \in Runs(cons[p].list) /\ cons[p].new \in Ids
        /\ \A i \in DOMAIN c.list : c.list[i] \in Ids
    BY <1>5, <2>2 DEF ConsolidatorsOK, close_reads, finalize
  <2>4. Ids' = Ids /\ FilesOK'
    BY <1>5, <2>3 DEF close_reads, finalize, FilesOK, Ids
  <2>5. SetC(p, c)
    BY <2>1
  <2> HIDE DEF c
  <2>6. ConsolidatorsOK'
    BY <2>2, <2>3, <2>4, <2>5, MoveStep
  <2> QED
    BY <1>5, <2>4, <2>6 DEF close_reads, finalize
<1>6. CASE write_vacuum_file(p)
  <2>1. cons[p].new \in Ids /\ RunOf(p) \subseteq Ids /\ cons[p].run \in Runs(cons[p].list)
    BY <1>6, RunFacts DEF ConsolidatorsOK, write_vacuum_file
  <2>2. Absorb(cons[p].new, RunOf(p)) /\ Ids' = Ids
    BY <1>6 DEF write_vacuum_file, Ids
  <2>3. doomed' \subseteq Ids /\ root' \in Seq(Nat) /\ Len(root') = Len(root)
    BY <2>1, <2>2, AbsorbType
  <2>4. vac' \subseteq VacFile
    <3>1. [of |-> cons[p].new, lists |-> RunOf(p)] \in VacFile
      BY <2>1, IdFacts DEF VacFile
    <3> QED
      BY <1>6, <3>1 DEF write_vacuum_file, FilesOK
  <2>5. FilesOK'
    BY <1>6, <2>2, <2>3, <2>4 DEF FilesOK, write_vacuum_file
  <2> DEFINE l == ReplaceRun(cons[p].list, cons[p].run, cons[p].new)
             c == [cons[p] EXCEPT !.pc = "plan", !.step = @ + 1, !.run = NoRun, !.new = 0, !.list = l]
  <2>6. SetC(p, c) \/ SetC(p, IdleC)
    BY <1>6 DEF write_vacuum_file
  <2>7. CASE SetC(p, c)
    <3>1. cons[p].list \in Seq(Nat) /\ cons[p].new \in Nat
      BY <1>0 DEF ConsolidatorState
    <3>2. l \in Seq(Nat) /\ \A i \in DOMAIN l : l[i] \in Ids
      <4>1. \A i \in DOMAIN cons[p].list : cons[p].list[i] \in Ids
        BY DEF ConsolidatorsOK
      <4>2. /\ l \in Seq(Nat)
            /\ \A i \in DOMAIN l : l[i] = cons[p].new \/ \E j \in DOMAIN cons[p].list : l[i] = cons[p].list[j]
        BY <2>1, <3>1, ReplaceRunFacts
      <4> HIDE DEF l
      <4> QED
        BY <2>1, <4>1, <4>2
    <3> HIDE DEF l
    <3>3. c \in ConsolidatorState /\ c.pc = "plan" /\ c.list = l
      <4>1. NoRun \in [start : Nat, len : Nat]
        BY DEF NoRun
      <4>2. cons[p].step + 1 \in Nat
        BY SMT, <1>0 DEF ConsolidatorState
      <4> QED
        BY <1>0, <3>2, <4>1, <4>2 DEF ConsolidatorState
    <3> HIDE DEF c
    <3>4. ConsolidatorsOK'
      BY <2>2, <2>7, <3>2, <3>3, MoveStep
    <3> QED
      BY <1>6, <2>5, <3>4 DEF write_vacuum_file
  <2>8. CASE SetC(p, IdleC)
    BY <1>6, <2>5, <2>8, IdleStep DEF write_vacuum_file
  <2> QED
    BY <2>6, <2>7, <2>8
<1> QED
  BY <1>1, <1>2, <1>3, <1>4, <1>5, <1>6 DEF ConsolidatorStep

LEMMA FaultType ==
  ASSUME TypeOK, NEW p \in Consolidators, ConsolidatorFault(p)
  PROVE  TypeOK'
<1> USE DEF TypeOK, Storage, files, history
<1>1. CASE finalize_fails(p) \/ crash_consolidate(p)
  <2>1. Ids' = Ids /\ FilesOK'
    BY <1>1 DEF finalize_fails, crash_consolidate, FilesOK, Ids
  <2> QED
    BY SMT, <1>1, <2>1, IdleStep DEF finalize_fails, crash_consolidate
<1>2. ASSUME NEW how, write_vacuum_file_fails(p, how) PROVE TypeOK'
  <2>1. cons[p].new \in Ids /\ RunOf(p) \subseteq Ids
    BY <1>2, RunFacts DEF ConsolidatorsOK, write_vacuum_file_fails
  <2>2. Ids' = Ids
    BY <1>2 DEF write_vacuum_file_fails, Ids
  <2>3. doomed' \subseteq Ids /\ root' \in Seq(Nat) /\ Len(root') = Len(root)
    <3>1. CASE UNCHANGED <<vac, doomed, root>>
      BY <3>1 DEF FilesOK
    <3>2. CASE Absorb(cons[p].new, RunOf(p))
      BY <2>1, <3>2, AbsorbType
    <3> QED
      BY <1>2, <3>1, <3>2 DEF write_vacuum_file_fails
  <2>4. vac' \subseteq VacFile
    <3>1. [of |-> cons[p].new, lists |-> RunOf(p)] \in VacFile
      BY <2>1, IdFacts DEF VacFile
    <3> QED
      BY <1>2, <3>1 DEF write_vacuum_file_fails, FilesOK
  <2>5. FilesOK'
    BY <1>2, <2>2, <2>3, <2>4 DEF FilesOK, write_vacuum_file_fails
  <2> QED
    BY SMT, <1>2, <2>5, IdleStep DEF write_vacuum_file_fails
<1> QED
  BY <1>1, <1>2 DEF ConsolidatorFault

\* The updates that the steps of a vacuum make.
LEMMA VacuumUpdates ==
  ASSUME NEW s \in VacuumState
  PROVE  /\ s.todo \in SUBSET Nat /\ s.frags \in SUBSET Nat /\ s.err \in BOOLEAN
         /\ \A pc \in {"oks", "dirs"}, todo \in SUBSET Nat :
              [s EXCEPT !.pc = pc, !.todo = todo] \in VacuumState
         /\ \A todo \in SUBSET Nat, err \in BOOLEAN :
              [s EXCEPT !.todo = todo, !.err = err] \in VacuumState
         /\ \A vacs \in SUBSET VacFile, fs \in SUBSET Nat :
              [s EXCEPT !.pc = "listed", !.vacs = vacs, !.frags = fs] \in VacuumState
<1>1. s.todo \in SUBSET Nat /\ s.frags \in SUBSET Nat /\ s.err \in BOOLEAN
  BY DEF VacuumState
<1>2. ASSUME NEW pc \in {"oks", "dirs"}, NEW todo \in SUBSET Nat
      PROVE  [s EXCEPT !.pc = pc, !.todo = todo] \in VacuumState
  BY Zenon DEF VacuumState
<1>3. ASSUME NEW todo \in SUBSET Nat, NEW err \in BOOLEAN
      PROVE  [s EXCEPT !.todo = todo, !.err = err] \in VacuumState
  BY Zenon DEF VacuumState
<1>4. ASSUME NEW vacs \in SUBSET VacFile, NEW fs \in SUBSET Nat
      PROVE  [s EXCEPT !.pc = "listed", !.vacs = vacs, !.frags = fs] \in VacuumState
  BY Zenon DEF VacuumState
<1> QED
  BY <1>1, <1>2, <1>3, <1>4

LEMMA VacuumType ==
  ASSUME TypeOK, NEW v \in Vacuums, VacuumStep(v) \/ crash_vacuum(v)
  PROVE  TypeOK'
<1> USE DEF TypeOK, Storage, files, history
<1>0. vacuum[v] \in VacuumState
  OBVIOUS
<1>1. IdleV \in VacuumState
  BY DEF IdleV, VacuumState
<1>2. \A s \in VacuumState : SetV(v, s) => vacuum' \in [Vacuums -> VacuumState]
  BY DEF SetV
<1>3. CASE get_uris_to_vacuum(v)
  <2>1. [IdleV EXCEPT !.pc = "listed", !.vacs = vac, !.frags = dirs \cap UNION {x.lists : x \in vac}]
          \in VacuumState
    <3>1. dirs \cap UNION {x.lists : x \in vac} \in SUBSET Nat /\ vac \in SUBSET VacFile
      BY IdFacts DEF FilesOK
    <3> QED
      BY <1>1, <3>1, VacuumUpdates
  <2>2. Ids' = Ids /\ FilesOK' /\ ConsolidatorsOK'
    BY <1>3, SameConsolidators DEF get_uris_to_vacuum, FilesOK, Ids
  <2>3. vacuum' \in [Vacuums -> VacuumState]
    BY <1>1, <1>2, <1>3, <2>1 DEF get_uris_to_vacuum
  <2> QED
    BY <1>3, <2>2, <2>3 DEF get_uris_to_vacuum
<1>4. CASE array_xlock(v)
  <2>1. [vacuum[v] EXCEPT !.pc = "oks", !.todo = vacuum[v].frags] \in VacuumState
    BY <1>0, VacuumUpdates
  <2>2. Ids' = Ids /\ FilesOK' /\ ConsolidatorsOK'
    BY <1>4, SameConsolidators DEF array_xlock, FilesOK, Ids
  <2>3. vacuum' \in [Vacuums -> VacuumState]
    BY <1>1, <1>2, <1>4, <2>1 DEF array_xlock
  <2> QED
    BY <1>4, <2>2, <2>3 DEF array_xlock
<1>5. ASSUME NEW f, remove_ok(v, f) PROVE TypeOK'
  <2>1. [vacuum[v] EXCEPT !.todo = @ \ {f}, !.err = @ \/ f \notin oks] \in VacuumState
    <3>1. vacuum[v].todo \ {f} \in SUBSET Nat
      BY <1>0, VacuumUpdates
    <3>2. (vacuum[v].err \/ f \notin oks) \in BOOLEAN
      OBVIOUS
    <3> QED
      BY <1>0, <3>1, <3>2, VacuumUpdates
  <2>2. Ids' = Ids /\ FilesOK' /\ ConsolidatorsOK'
    BY <1>5, SameConsolidators DEF remove_ok, FilesOK, Ids
  <2>3. vacuum' \in [Vacuums -> VacuumState]
    BY <1>1, <1>2, <1>5, <2>1 DEF remove_ok
  <2> QED
    BY <1>5, <2>2, <2>3 DEF remove_ok
<1>6. ASSUME NEW f, remove_dir(v, f) PROVE TypeOK'
  <2>1. [vacuum[v] EXCEPT !.todo = @ \ {f}, !.err = @ \/ f \notin dirs] \in VacuumState
    <3>1. vacuum[v].todo \ {f} \in SUBSET Nat
      BY <1>0, VacuumUpdates
    <3>2. (vacuum[v].err \/ f \notin dirs) \in BOOLEAN
      OBVIOUS
    <3> QED
      BY <1>0, <3>1, <3>2, VacuumUpdates
  <2>2. Ids' = Ids /\ FilesOK' /\ ConsolidatorsOK'
    BY <1>6, SameConsolidators DEF remove_dir, FilesOK, Ids
  <2>3. vacuum' \in [Vacuums -> VacuumState]
    BY <1>1, <1>2, <1>6, <2>1 DEF remove_dir
  <2> QED
    BY <1>6, <2>2, <2>3 DEF remove_dir
<1>7. CASE array_xunlock(v)
  <2>1. [vacuum[v] EXCEPT !.pc = "dirs", !.todo = vacuum[v].frags] \in VacuumState
    BY <1>0, VacuumUpdates
  <2>2. Ids' = Ids /\ FilesOK' /\ ConsolidatorsOK'
    BY <1>7, SameConsolidators DEF array_xunlock, FilesOK, Ids
  <2>3. vacuum' \in [Vacuums -> VacuumState]
    BY <1>1, <1>2, <1>7, <2>1 DEF array_xunlock
  <2> QED
    BY <1>7, <2>2, <2>3 DEF array_xunlock
<1>8. CASE dirs_removed(v)
  <2>1. [vacuum[v] EXCEPT !.pc = "vacs"] \in VacuumState
    BY <1>0 DEF VacuumState
  <2>2. Ids' = Ids /\ FilesOK' /\ ConsolidatorsOK'
    BY <1>8, SameConsolidators DEF dirs_removed, FilesOK, Ids
  <2>3. vacuum' \in [Vacuums -> VacuumState]
    BY <1>1, <1>2, <1>8, <2>1 DEF dirs_removed
  <2> QED
    BY <1>8, <2>2, <2>3 DEF dirs_removed
<1>9. ASSUME NEW x, remove_vac(v, x) PROVE TypeOK'
  <2>1. [vacuum[v] EXCEPT !.vacs = @ \ {x}] \in VacuumState
    BY <1>0 DEF VacuumState
  <2>2. Ids' = Ids /\ FilesOK' /\ ConsolidatorsOK'
    BY <1>9, SameConsolidators DEF remove_vac, FilesOK, Ids
  <2>3. vacuum' \in [Vacuums -> VacuumState]
    BY <1>1, <1>2, <1>9, <2>1 DEF remove_vac
  <2> QED
    BY <1>9, <2>2, <2>3 DEF remove_vac
<1>10. CASE vacuum_done(v) \/ crash_vacuum(v)
  BY SMTT(20), <1>1, <1>2, <1>10, SameConsolidators DEF vacuum_done, crash_vacuum, FilesOK, Ids
<1> QED
  BY <1>3, <1>4, <1>5, <1>6, <1>7, <1>8, <1>9, <1>10 DEF VacuumStep

LEMMA ReaderType ==
  ASSUME TypeOK, NEW r \in Readers, ReaderNext(r)
  PROVE  TypeOK'
<1> USE DEF TypeOK, Storage, files, history
<1>1. ASSUME NEW T \in 0..now, array_open_for_reads(r, T) PROVE TypeOK'
  <2>1. [open |-> TRUE, at |-> T, snap |-> VisibleAt(T)] \in ReaderState
    BY SMT, IdFacts DEF ReaderState
  <2> QED
    BY <1>1, <2>1, SameConsolidators DEF array_open_for_reads, FilesOK, Ids
<1>2. CASE array_close_for_reads(r)
  <2>1. Closed \in ReaderState
    BY DEF Closed, ReaderState
  <2> QED
    BY <1>2, <2>1, SameConsolidators DEF array_close_for_reads, FilesOK, Ids
<1> QED
  BY <1>1, <1>2 DEF ReaderNext

LEMMA TypeStep ==
  ASSUME TypeOK, [Next]_vars
  PROVE  TypeOK'
<1>1. CASE UNCHANGED vars
  BY <1>1 DEF vars, files, history, TypeOK, FilesOK, ConsolidatorsOK, Ids
<1>2. CASE Next
  BY <1>2, WriterType, ConsolidatorType, FaultType, VacuumType, ReaderType DEF Next
<1> QED
  BY <1>1, <1>2

\* The type invariant holds in every reachable state, for any number of
\* processes, any configuration of the planner and any crashes.
THEOREM TypeCorrect == Spec => []TypeOK
  BY InitType, TypeStep, PTL DEF Spec


-----------------------------------------------------------------------------
(***************************************************************************)
(* The inductive invariant, and its preservation by writers and by         *)
(* consolidators up to the merged fragment.                                *)
(***************************************************************************)
\* The consolidators whose merged fragment is on disk.
Has(p) == cons[p].pc \in {"copied", "closed", "finalized"}

\* Fragments that have a directory, belong to a running process and are not yet
\* committed.
PendingC(p) == cons[p].pc \in {"copied", "closed"}
Pending == writing \cup {cons[p].new : p \in {q \in Consolidators : PendingC(q)}}

\* A pending fragment is on disk, belongs to one process and is known to no one
\* else.
PendingInv ==
  /\ \A f \in Pending : f \in Ids /\ f \in dirs /\ root[f] = f
  /\ Pending \cap (oks \cup committed \cup doomed) = {}
  /\ \A p \in Consolidators : Has(p) => cons[p].new \notin writing
  /\ \A p, q \in Consolidators : Has(p) /\ Has(q) /\ p # q => cons[p].new # cons[q].new

\* The lists of the consolidators name fragments that were committed, all older
\* than the one that is being merged from them, which holds all they hold.
ListInv ==
  \A p \in Consolidators :
    /\ \A i \in DOMAIN cons[p].list : cons[p].list[i] \in Ids \ Pending
    /\ Has(p) => \A f \in RunOf(p) : f < cons[p].new /\ frags[f].srcs \subseteq frags[cons[p].new].srcs

\* Only listed fragments are deleted.
DoomInv ==
  /\ \A x \in vac : x.lists \subseteq doomed
  /\ \A v \in Vacuums : vacuum[v].todo \subseteq vacuum[v].frags /\ vacuum[v].frags \subseteq doomed

\* What stands for a committed fragment is committed, on disk, not listed, not
\* older, and holds everything the fragment holds.
RootInv ==
  \A f \in committed :
    /\ root[f] \in committed \cap Visible
    /\ root[f] \notin doomed
    /\ root[f] >= f
    /\ frags[f].srcs \subseteq frags[root[f]].srcs

\* Until its .vac file is written, a merged fragment stands only for itself.
FinalizedInv ==
  \A p \in Consolidators :
    cons[p].pc = "finalized" =>
      /\ cons[p].new \in committed
      /\ \A f \in committed : root[f] = cons[p].new => f = cons[p].new

Inv == TypeOK /\ PendingInv /\ ListInv /\ DoomInv /\ RootInv /\ FinalizedInv

-----------------------------------------------------------------------------
(***************************************************************************)
(* Preservation of Inv, one lemma per process.                             *)
(***************************************************************************)

\* The .vac file of a merged fragment is never half written.
NoUnsyncedVac == "unsynced" \notin VacFaults

LEMMA InitInv == Init => Inv
<1> SUFFICES ASSUME Init PROVE Inv
  OBVIOUS
<1>1. \A p \in Consolidators : cons[p].pc = "idle" /\ cons[p].list = <<>> /\ DOMAIN cons[p].list = {}
  BY SMT DEF Init, IdleC
<1>2. Pending = {}
  BY <1>1 DEF Init, Pending, PendingC
<1>3. PendingInv /\ ListInv /\ FinalizedInv
  BY <1>1, <1>2 DEF PendingInv, ListInv, FinalizedInv, Has
<1>4. DoomInv /\ RootInv
  BY DEF Init, DoomInv, RootInv, IdleV
<1> QED
  BY <1>3, <1>4, InitType DEF Inv

\* A step that creates fragment NewId and leaves the other files alone.
LEMMA GrowInv ==
  ASSUME Inv, NEW e, frags' = Append(frags, e), root' = Append(root, NewId)
  PROVE  /\ Ids' = Ids \cup {NewId} /\ NewId \notin Ids /\ frags'[NewId] = e
         /\ \A f \in Ids : f < NewId /\ frags'[f] = frags[f] /\ root'[f] = root[f]
         /\ root'[NewId] = NewId
         /\ Pending \subseteq Ids /\ NewId \notin Pending
         /\ NewId \notin oks \cup committed \cup doomed \cup writing
         /\ \A f \in committed : f \in Ids /\ root[f] \in Ids
         /\ \A p \in Consolidators : Has(p) => cons[p].new \in Ids /\ RunOf(p) \subseteq Ids
<1>1. FilesOK /\ ConsolidatorsOK
  BY DEF Inv, TypeOK
<1>2. Ids' = Ids \cup {NewId} /\ NewId \notin Ids /\ frags'[NewId] = e
  BY <1>1, IdFacts, GrowStep
<1>3. \A f \in Ids : f < NewId /\ frags'[f] = frags[f] /\ root'[f] = root[f]
  BY <1>1, IdFacts, GrowStep, GrowRoot
<1>4. root'[NewId] = NewId
  BY <1>1, GrowRoot
<1>5. Pending \subseteq Ids
  BY DEF Inv, PendingInv
<1>6. \A f \in committed : f \in Ids /\ root[f] \in Ids
  BY <1>1 DEF Inv, RootInv, FilesOK
<1>7. \A p \in Consolidators : Has(p) => cons[p].new \in Ids /\ RunOf(p) \subseteq Ids
  BY <1>1, RunFacts DEF ConsolidatorsOK, Has
<1> QED
  BY <1>1, <1>2, <1>3, <1>4, <1>5, <1>6, <1>7 DEF FilesOK

LEMMA WriterInv ==
  ASSUME Inv, WriterNext
  PROVE  Inv'
<1>0. TypeOK /\ TypeOK'
  BY WriterType DEF Inv
<1>1. ASSUME NEW cells, NEW u, create_fragment(cells, u) PROVE Inv'
  <2> DEFINE e == [t |-> <<now', now'>>, uuid |-> u, srcs |-> {NewId}, data |-> [c \in cells |-> NewId]]
  <2>1. frags' = Append(frags, e) /\ root' = Append(root, NewId)
    BY <1>1 DEF create_fragment
  <2> HIDE DEF e
  <2>2. /\ Ids' = Ids \cup {NewId} /\ NewId \notin Ids
        /\ \A f \in Ids : frags'[f] = frags[f] /\ root'[f] = root[f]
        /\ root'[NewId] = NewId
        /\ NewId \notin oks \cup committed \cup doomed
        /\ Pending \subseteq Ids
        /\ \A f \in committed : f \in Ids /\ root[f] \in Ids
        /\ \A p \in Consolidators : Has(p) => cons[p].new \in Ids /\ RunOf(p) \subseteq Ids
    BY <2>1, GrowInv
  <2>3. UNCHANGED <<oks, vac, cons, vacuum, committed, doomed>>
    BY <1>1 DEF create_fragment
  <2>4. dirs' = dirs \cup {NewId} /\ writing' = writing \cup {NewId}
    BY <1>1 DEF create_fragment
  <2>5. Pending' = Pending \cup {NewId}
    BY <2>3, <2>4 DEF Pending, PendingC
  <2>6. \A p \in Consolidators : (Has(p)' <=> Has(p)) /\ RunOf(p)' = RunOf(p)
    BY <2>3 DEF Has, RunOf
  <2>7. PendingInv'
    BY SMTT(20), <2>2, <2>3, <2>4, <2>5, <2>6 DEF Inv, PendingInv
  <2>8. ListInv'
    BY SMTT(20), <2>2, <2>3, <2>5, <2>6 DEF Inv, ListInv
  <2>9. DoomInv'
    BY <2>3 DEF Inv, DoomInv
  <2>10. RootInv'
    BY <2>2, <2>3, <2>4 DEF Inv, RootInv, Visible
  <2>11. FinalizedInv'
    BY SMT, <2>2, <2>3 DEF Inv, FinalizedInv
  <2> QED
    BY <1>0, <2>7, <2>8, <2>9, <2>10, <2>11 DEF Inv
<1>2. ASSUME NEW f \in writing, commit_write(f) PROVE Inv'
  <2>1. UNCHANGED <<frags, dirs, vac, cons, vacuum, doomed, root>> /\ Ids' = Ids
    BY <1>2 DEF commit_write, Ids
  <2>2. oks' = oks \cup {f} /\ committed' = committed \cup {f} /\ writing' = writing \ {f}
    BY <1>2 DEF commit_write
  <2>3. /\ f \in Pending /\ f \in Ids /\ f \in dirs /\ root[f] = f /\ f \notin doomed
        /\ \A p \in Consolidators : Has(p) => cons[p].new # f
    BY DEF Inv, PendingInv, Pending
  <2>4. Pending' = Pending \ {f}
    BY <2>1, <2>2, <2>3 DEF Pending, PendingC, Has
  <2>5. \A p \in Consolidators : (Has(p)' <=> Has(p)) /\ RunOf(p)' = RunOf(p)
    BY <2>1 DEF Has, RunOf
  <2>6. PendingInv'
    BY <2>1, <2>2, <2>3, <2>4, <2>5 DEF Inv, PendingInv
  <2>7. ListInv'
    BY <2>1, <2>4, <2>5 DEF Inv, ListInv
  <2>8. DoomInv'
    BY <2>1 DEF Inv, DoomInv
  <2>9. f \in Int
    BY SMTT(20), <1>0, <2>3, IdFacts DEF TypeOK
  <2>10. RootInv'
    BY SMTT(20), <2>1, <2>2, <2>3, <2>9 DEF Inv, RootInv, Visible
  <2>11. FinalizedInv'
    BY <2>1, <2>2, <2>3 DEF Inv, FinalizedInv, Has
  <2> QED
    BY <1>0, <2>6, <2>7, <2>8, <2>10, <2>11 DEF Inv
<1>3. ASSUME NEW f \in writing, clean_up(f) \/ crash_write(f) PROVE Inv'
  <2>1. UNCHANGED <<frags, oks, vac, cons, vacuum, committed, doomed, root>> /\ Ids' = Ids
    BY <1>3 DEF clean_up, crash_write, Storage, files, history, Ids
  <2>2. dirs \ {f} \subseteq dirs' /\ dirs' \subseteq dirs /\ writing' = writing \ {f}
    BY <1>3 DEF clean_up, crash_write, Storage, files
  <2>3. /\ f \in Pending /\ f \notin committed
        /\ \A p \in Consolidators : Has(p) => cons[p].new # f
    BY DEF Inv, PendingInv, Pending
  <2>4. Pending' = Pending \ {f}
    BY <2>1, <2>2, <2>3 DEF Pending, PendingC, Has
  <2>5. \A p \in Consolidators : (Has(p)' <=> Has(p)) /\ RunOf(p)' = RunOf(p)
    BY <2>1 DEF Has, RunOf
  <2>6. PendingInv'
    BY <2>1, <2>2, <2>3, <2>4, <2>5 DEF Inv, PendingInv
  <2>7. ListInv'
    BY <2>1, <2>4, <2>5 DEF Inv, ListInv
  <2>8. DoomInv'
    BY <2>1 DEF Inv, DoomInv
  <2>9. RootInv'
    BY <2>1, <2>2, <2>3 DEF Inv, RootInv, Visible
  <2>10. FinalizedInv'
    BY <2>1 DEF Inv, FinalizedInv
  <2> QED
    BY <1>0, <2>6, <2>7, <2>8, <2>9, <2>10 DEF Inv
<1> QED
  BY <1>1, <1>2, <1>3 DEF WriterNext

\* A step of consolidator p that changes no file: p keeps its merged fragment or
\* gives it up, and its list names fragments that are not pending.
LEMMA QuietStep ==
  ASSUME Inv, TypeOK', NEW p \in Consolidators, NEW c, SetC(p, c),
         UNCHANGED <<frags, dirs, oks, vac, writing, vacuum, committed, doomed, root>>,
         \A i \in DOMAIN c.list : c.list[i] \in Ids \ Pending,
         c.pc # "finalized",
         c.pc \in {"copied", "closed"} =>
           PendingC(p) /\ c.new = cons[p].new /\ c.list = cons[p].list /\ c.run = cons[p].run
  PROVE  Inv'
<1>0. TypeOK /\ Ids' = Ids
  BY DEF Inv, Ids
<1>1. cons'[p] = c /\ \A q \in Consolidators : q # p => cons'[q] = cons[q]
  BY <1>0, SetCFacts DEF TypeOK
<1>2. \A q \in Consolidators :
        Has(q)' => Has(q) /\ cons'[q].new = cons[q].new /\ RunOf(q)' = RunOf(q)
  BY SMTT(20), <1>1 DEF Has, PendingC, RunOf
<1>3. Pending' \subseteq Pending
  BY SMTT(20), <1>1, <1>2 DEF Pending, PendingC, Has
<1>4. PendingInv'
  BY SMTT(20), <1>0, <1>2, <1>3 DEF Inv, PendingInv
<1>5. ListInv'
  <2>1. ASSUME NEW q \in Consolidators
        PROVE  \A i \in DOMAIN cons'[q].list : cons'[q].list[i] \in Ids \ Pending
    <3>1. CASE q = p
      BY <1>1, <3>1
    <3>2. CASE q # p
      BY <1>1, <3>2 DEF Inv, ListInv
    <3> QED
      BY <3>1, <3>2
  <2>2. ASSUME NEW q \in Consolidators, Has(q)'
        PROVE  \A f \in RunOf(q)' : f < cons'[q].new /\ frags[f].srcs \subseteq frags[cons'[q].new].srcs
    <3>1. RunOf(q)' = RunOf(q) /\ cons'[q].new = cons[q].new /\ Has(q)
      BY <1>2, <2>2
    <3> QED
      BY <3>1 DEF Inv, ListInv
  <2> QED
    BY <1>0, <1>3, <2>1, <2>2 DEF ListInv
<1>6. DoomInv' /\ RootInv'
  BY DEF Inv, DoomInv, RootInv, Visible
<1>7. FinalizedInv'
  BY SMT, <1>1 DEF Inv, FinalizedInv
<1> QED
  BY <1>4, <1>5, <1>6, <1>7 DEF Inv

\* The merged fragment appears on disk, uncommitted.
LEMMA CopyInv ==
  ASSUME Inv, TypeOK', NEW p \in Consolidators, NEW u, copy_run(p, u)
  PROVE  Inv'
<1>0. TypeOK /\ FilesOK /\ ConsolidatorsOK
  BY DEF Inv, TypeOK
<1>1. PICK e : frags' = Append(frags, e) /\ e.srcs = UNION {frags[f].srcs : f \in RunOf(p)}
  BY SMT DEF copy_run
<1>2. root' = Append(root, NewId)
  BY DEF copy_run
<1>3. /\ Ids' = Ids \cup {NewId} /\ NewId \notin Ids /\ frags'[NewId] = e
      /\ \A f \in Ids : f < NewId /\ frags'[f] = frags[f] /\ root'[f] = root[f]
      /\ root'[NewId] = NewId
      /\ Pending \subseteq Ids
      /\ NewId \notin oks \cup committed \cup doomed \cup writing
      /\ \A f \in committed : f \in Ids /\ root[f] \in Ids
      /\ \A q \in Consolidators : Has(q) => cons[q].new \in Ids /\ RunOf(q) \subseteq Ids
  BY <1>1, <1>2, GrowInv
<1>4. UNCHANGED <<oks, vac, writing, vacuum, committed, doomed>> /\ dirs' = dirs \cup {NewId}
  BY DEF copy_run
<1> DEFINE c == [cons[p] EXCEPT !.pc = "copied", !.new = NewId]
<1>5. c.pc = "copied" /\ c.new = NewId /\ c.list = cons[p].list /\ c.run = cons[p].run
  BY <1>0 DEF ConsolidatorsOK, ConsolidatorState
<1>6. SetC(p, c) /\ cons[p].pc = "reading"
  BY DEF copy_run
<1> HIDE DEF c
<1>7. cons'[p] = c /\ \A q \in Consolidators : q # p => cons'[q] = cons[q]
  BY <1>0, <1>6, SetCFacts
<1>8. \A q \in Consolidators : RunOf(q)' = RunOf(q) /\ cons'[q].list = cons[q].list
  BY <1>5, <1>7 DEF RunOf
<1>9. ~Has(p) /\ Has(p)' /\ \A q \in Consolidators : q # p => (Has(q)' <=> Has(q))
  BY <1>5, <1>6, <1>7 DEF Has
<1>10. Pending' = Pending \cup {NewId}
  <2>1. Pending \cup {NewId} \subseteq Pending'
    BY SMTT(20), <1>4, <1>5, <1>6, <1>7 DEF Pending, PendingC
  <2>2. Pending' \subseteq Pending \cup {NewId}
    BY SMTT(20), <1>4, <1>5, <1>6, <1>7 DEF Pending, PendingC
  <2> QED
    BY <2>1, <2>2
<1>11. PendingInv'
  <2>1. \A f \in Pending' : f \in Ids' /\ f \in dirs' /\ root'[f] = f
    BY <1>3, <1>4, <1>10 DEF Inv, PendingInv
  <2>2. Pending' \cap (oks' \cup committed' \cup doomed') = {}
    BY <1>3, <1>4, <1>10 DEF Inv, PendingInv
  <2>a. \A q \in Consolidators : q # p /\ Has(q)' => Has(q) /\ cons'[q].new = cons[q].new
    BY <1>7, <1>9
  <2>b. cons'[p].new = NewId
    BY <1>5, <1>7
  <2>c. \A q \in Consolidators : Has(q) => cons[q].new \notin writing /\ cons[q].new # NewId
    BY <1>3 DEF Inv, PendingInv
  <2>3. \A q \in Consolidators : Has(q)' => cons'[q].new \notin writing'
    BY <1>3, <1>4, <2>a, <2>b, <2>c
  <2>d. \A q, r \in Consolidators : Has(q) /\ Has(r) /\ q # r => cons[q].new # cons[r].new
    BY DEF Inv, PendingInv
  <2>4. \A q, r \in Consolidators : Has(q)' /\ Has(r)' /\ q # r => cons'[q].new # cons'[r].new
    BY <2>a, <2>b, <2>c, <2>d
  <2> QED
    BY <2>1, <2>2, <2>3, <2>4 DEF PendingInv
<1>12. ListInv'
  <2>1. \A q \in Consolidators : \A i \in DOMAIN cons'[q].list : cons'[q].list[i] \in Ids' \ Pending'
    BY SMTT(20), <1>3, <1>8, <1>10 DEF Inv, ListInv
  <2>2. ASSUME NEW q \in Consolidators, Has(q)', NEW f \in RunOf(q)
        PROVE  f < cons'[q].new /\ frags'[f].srcs \subseteq frags'[cons'[q].new].srcs
    <3>1. CASE q = p
      <4>1. RunOf(p) \subseteq Ids
        BY <1>0, <1>6, RunFacts
      <4>2. f \in Ids /\ f \in RunOf(p)
        BY <2>2, <3>1, <4>1
      <4>3. cons'[q].new = NewId
        BY <1>5, <1>7, <3>1
      <4>4. f < NewId /\ frags'[f] = frags[f] /\ frags'[NewId] = e
        BY <1>3, <4>2
      <4>5. frags[f].srcs \subseteq e.srcs
        BY <1>1, <4>2
      <4> QED
        BY <4>3, <4>4, <4>5
    <3>2. CASE q # p
      <4>1. Has(q) /\ cons'[q].new = cons[q].new /\ cons[q].new \in Ids /\ f \in Ids
        BY <1>3, <1>7, <1>9, <2>2, <3>2
      <4> QED
        BY <1>3, <4>1 DEF Inv, ListInv
    <3> QED
      BY <3>1, <3>2
  <2> QED
    BY <1>8, <2>1, <2>2 DEF ListInv
<1>13. DoomInv'
  BY <1>4 DEF Inv, DoomInv
<1>a. \A f \in committed : root'[f] = root[f] /\ frags'[f] = frags[f] /\ frags'[root[f]] = frags[root[f]]
  BY <1>3
<1>b. Visible \subseteq Visible'
  BY <1>4 DEF Visible
<1>14. RootInv'
  <2> SUFFICES ASSUME NEW f \in committed
               PROVE  /\ root'[f] \in committed' \cap Visible'
                      /\ root'[f] \notin doomed'
                      /\ root'[f] >= f
                      /\ frags'[f].srcs \subseteq frags'[root'[f]].srcs
    BY <1>4 DEF RootInv
  <2>1. root[f] \in committed \cap Visible /\ root[f] \notin doomed /\ root[f] >= f
    BY DEF Inv, RootInv
  <2>2. frags[f].srcs \subseteq frags[root[f]].srcs
    BY DEF Inv, RootInv
  <2> QED
    BY <1>4, <1>a, <1>b, <2>1, <2>2
<1>15. FinalizedInv'
  <2> SUFFICES ASSUME NEW q \in Consolidators, cons'[q].pc = "finalized"
               PROVE  /\ cons'[q].new \in committed'
                      /\ \A f \in committed' : root'[f] = cons'[q].new => f = cons'[q].new
    BY DEF FinalizedInv
  <2>1. q # p
    BY <1>5, <1>7
  <2>2. cons'[q] = cons[q]
    BY <1>7, <2>1
  <2>3. cons[q].new \in committed /\ \A f \in committed : root[f] = cons[q].new => f = cons[q].new
    BY <2>2 DEF Inv, FinalizedInv
  <2> QED
    BY <1>4, <1>a, <2>2, <2>3
<1> QED
  BY <1>11, <1>12, <1>13, <1>14, <1>15 DEF Inv

-----------------------------------------------------------------------------
(***************************************************************************)
(* The steps with which a consolidator commits a merged fragment and       *)
(* writes its .vac file, and so all consolidator steps.                    *)
(***************************************************************************)
\* The merged fragment is committed; so far it stands only for itself.
LEMMA FinalizeInv ==
  ASSUME Inv, TypeOK', NEW p \in Consolidators, finalize(p)
  PROVE  Inv'
<1>0. TypeOK /\ FilesOK /\ ConsolidatorsOK
  BY DEF Inv, TypeOK
<1> DEFINE c == [cons[p] EXCEPT !.pc = "finalized"]
           n == cons[p].new
<1>1. UNCHANGED <<frags, dirs, vac, writing, vacuum, doomed, root>> /\ Ids' = Ids
  BY DEF finalize, Ids
<1>2. oks' = oks \cup {n} /\ committed' = committed \cup {n} /\ cons[p].pc = "closed" /\ SetC(p, c)
  BY DEF finalize
<1>3. c.pc = "finalized" /\ c.new = n /\ c.list = cons[p].list /\ c.run = cons[p].run
  BY <1>0 DEF ConsolidatorsOK, ConsolidatorState
<1> HIDE DEF c, n
<1>4. cons'[p] = c /\ \A q \in Consolidators : q # p => cons'[q] = cons[q]
  BY <1>0, <1>2, SetCFacts
<1>5. \A q \in Consolidators :
        /\ RunOf(q)' = RunOf(q) /\ cons'[q].list = cons[q].list /\ cons'[q].new = cons[q].new
        /\ Has(q)' <=> Has(q)
  BY SMTT(20), <1>2, <1>3, <1>4 DEF RunOf, Has, n
<1>6. Has(p) /\ n \in Pending /\ n = cons[p].new
  BY <1>2 DEF Has, Pending, PendingC, n
<1>7. n \in Ids /\ n \in dirs /\ root[n] = n /\ n \notin doomed /\ n \notin committed /\ n \notin writing
  BY <1>6 DEF Inv, PendingInv
<1>8. \A q \in Consolidators : Has(q) /\ q # p => cons[q].new # n
  BY <1>6 DEF Inv, PendingInv
<1>9. Pending' \subseteq Pending \ {n}
  BY SMTT(20), <1>1, <1>3, <1>4, <1>7, <1>8 DEF Pending, PendingC, Has
<1>10. PendingInv'
  BY SMTT(20), <1>1, <1>2, <1>5, <1>9 DEF Inv, PendingInv
<1>11. ListInv'
  BY <1>1, <1>5, <1>9 DEF Inv, ListInv
<1>12. DoomInv'
  BY <1>1 DEF Inv, DoomInv
<1>13. n \in Int
  BY SMTT(20), <1>0, <1>7, IdFacts
<1>14. RootInv'
  BY SMTT(20), <1>1, <1>2, <1>7, <1>13 DEF Inv, RootInv, Visible
<1>15. FinalizedInv'
  <2>1. \A f \in committed : root[f] # n
    BY <1>7 DEF Inv, RootInv
  <2>2. ASSUME NEW q \in Consolidators, cons'[q].pc = "finalized"
        PROVE  /\ cons'[q].new \in committed'
               /\ \A f \in committed' : root'[f] = cons'[q].new => f = cons'[q].new
    <3>1. CASE q = p
      BY <1>1, <1>2, <1>3, <1>4, <2>1, <3>1
    <3>2. CASE q # p
      <4>1. cons[q].pc = "finalized" /\ cons'[q].new = cons[q].new /\ cons[q].new # n
        BY <1>4, <1>8, <2>2, <3>2 DEF Has
      <4> QED
        BY <1>1, <1>2, <1>7, <4>1 DEF Inv, FinalizedInv
    <3> QED
      BY <3>1, <3>2
  <2> QED
    BY <2>2 DEF FinalizedInv
<1> QED
  BY <1>10, <1>11, <1>12, <1>14, <1>15 DEF Inv

\* The .vac file lists the run of p: whatever a fragment of the run stood for, the
\* merged one, or what stands for it by now, stands for from here on.
LEMMA AbsorbRoot ==
  ASSUME Inv, NEW p \in Consolidators, cons[p].pc = "finalized",
         Absorb(cons[p].new, RunOf(p)), UNCHANGED <<frags, dirs, oks, committed>>
  PROVE  /\ RootInv'
         /\ \A f \in committed : root'[f] = root[f] \/ root'[f] = root[cons[p].new]
         /\ \A f \in Pending : root'[f] = f
         /\ RunOf(p) \cap Pending = {}
<1> DEFINE n == cons[p].new
           S == RunOf(p)
<1>0. TypeOK /\ FilesOK /\ ConsolidatorsOK /\ Has(p)
  BY DEF Inv, TypeOK, Has
<1>1. n \in committed /\ n \in Ids /\ S \subseteq Ids
  BY <1>0, RunFacts DEF Inv, FinalizedInv, FilesOK
<1>2. \A f \in Ids : root'[f] = IF root[f] \in S THEN root[n] ELSE root[f]
  BY <1>0, <1>1, AbsorbType
<1>3. doomed' = doomed \cup S
  BY DEF Absorb
<1>4. \A f \in S : f < n /\ frags[f].srcs \subseteq frags[n].srcs
  BY <1>0 DEF Inv, ListInv
<1>5. root[n] \in committed \cap Visible /\ root[n] \notin doomed /\ root[n] >= n /\ frags[n].srcs \subseteq frags[root[n]].srcs
  BY <1>1 DEF Inv, RootInv
<1>6. Ids \subseteq Int /\ committed \subseteq Ids /\ Pending \subseteq Ids
  BY SMT, <1>0, IdFacts DEF FilesOK, Inv, PendingInv
<1>7. root[n] \in Int /\ n \in Int /\ root[n] \notin S
  <2>1. root[n] \in Int /\ n \in Int
    BY <1>1, <1>5, <1>6
  <2>2. ASSUME root[n] \in S PROVE FALSE
    <3>1. root[n] < n /\ root[n] >= n
      BY <1>4, <1>5, <2>2
    <3> HIDE DEF n
    <3> QED
      BY SMT, <2>1, <3>1
  <2> QED
    BY <2>1, <2>2
<1>8. S \cap Pending = {}
  BY SMTT(20), <1>0, RunFacts DEF Inv, ListInv
<1>9. \A f \in Pending : root'[f] = f
  BY <1>2, <1>6, <1>8 DEF Inv, PendingInv
<1> HIDE DEF n, S
<1>10. ASSUME NEW f \in committed
       PROVE  /\ root'[f] \in committed \cap Visible
              /\ root'[f] \notin doomed'
              /\ root'[f] >= f
              /\ frags[f].srcs \subseteq frags[root'[f]].srcs
  <2>1. root[f] \in committed \cap Visible /\ root[f] \notin doomed /\ root[f] >= f /\ frags[f].srcs \subseteq frags[root[f]].srcs
    BY DEF Inv, RootInv
  <2>2. f \in Int /\ root[f] \in Int /\ f \in Ids
    BY <1>6, <2>1
  <2>3. CASE root[f] \in S
    <3>1. root'[f] = root[n]
      BY <1>2, <2>2, <2>3
    <3>2. root[f] < n /\ frags[root[f]].srcs \subseteq frags[n].srcs
      BY <1>4, <2>3
    <3>3. root[n] >= f
      BY SMTT(20), <1>5, <1>7, <2>1, <2>2, <3>2
    <3> QED
      BY <1>3, <1>5, <1>7, <2>1, <3>1, <3>2, <3>3
  <2>4. CASE root[f] \notin S
    BY <1>2, <1>3, <2>1, <2>2, <2>4
  <2> QED
    BY <2>3, <2>4
<1>11. RootInv'
  BY <1>10 DEF RootInv, Visible
<1> QED
  BY <1>2, <1>6, <1>8, <1>9, <1>11 DEF n, S

LEMMA VacFileInv ==
  ASSUME Inv, TypeOK', NEW p \in Consolidators, write_vacuum_file(p)
  PROVE  Inv'
<1> DEFINE n == cons[p].new
           l == ReplaceRun(cons[p].list, cons[p].run, n)
           c == [cons[p] EXCEPT !.pc = "plan", !.step = @ + 1, !.run = NoRun, !.new = 0, !.list = l]
<1>0. TypeOK /\ FilesOK /\ ConsolidatorsOK /\ cons[p].pc = "finalized" /\ Has(p)
  BY DEF Inv, TypeOK, Has, write_vacuum_file
<1>1. UNCHANGED <<frags, dirs, oks, writing, vacuum, committed>> /\ Ids' = Ids /\ Absorb(n, RunOf(p))
  BY DEF write_vacuum_file, Ids
<1>2. vac' = vac \cup {[of |-> n, lists |-> RunOf(p)]} /\ doomed' = doomed \cup RunOf(p)
  BY DEF write_vacuum_file, Absorb
<1>3. /\ RootInv'
      /\ \A f \in committed : root'[f] = root[f] \/ root'[f] = root[n]
      /\ \A f \in Pending : root'[f] = f
      /\ RunOf(p) \cap Pending = {}
  BY <1>0, <1>1, AbsorbRoot
<1>4. n \notin Pending /\ n \in Ids /\ n \in committed
  <2>1. n \in committed
    BY <1>0 DEF Inv, FinalizedInv
  <2> QED
    BY <1>0, <2>1 DEF Inv, PendingInv, FilesOK
<1>5. l \in Seq(Nat) /\ \A i \in DOMAIN l : l[i] \in Ids \ Pending
  <2>1. cons[p].list \in Seq(Nat) /\ n \in Nat /\ cons[p].run \in Runs(cons[p].list)
    BY <1>0 DEF ConsolidatorsOK, ConsolidatorState
  <2>2. \A i \in DOMAIN cons[p].list : cons[p].list[i] \in Ids \ Pending
    BY DEF Inv, ListInv
  <2>3. l \in Seq(Nat) /\ \A i \in DOMAIN l : l[i] = n \/ \E j \in DOMAIN cons[p].list : l[i] = cons[p].list[j]
    BY <2>1, ReplaceRunFacts
  <2> HIDE DEF l, n
  <2> QED
    BY <1>4, <2>2, <2>3
<1> HIDE DEF l
<1>6. c.pc = "plan" /\ c.list = l
  BY <1>0 DEF ConsolidatorsOK, ConsolidatorState
<1>7. SetC(p, c) \/ SetC(p, IdleC)
  BY DEF write_vacuum_file, l
<1> HIDE DEF c
<1>8. PICK d \in {c, IdleC} : SetC(p, d)
  BY <1>7
<1>9. d.pc \in {"plan", "idle"} /\ \A i \in DOMAIN d.list : d.list[i] \in Ids \ Pending
  <2>1. IdleC.pc = "idle" /\ IdleC.list = <<>> /\ DOMAIN IdleC.list = {}
    BY SMT DEF IdleC
  <2> QED
    BY <1>5, <1>6, <1>8, <2>1
<1>10. cons'[p] = d /\ \A q \in Consolidators : q # p => cons'[q] = cons[q]
  BY <1>0, <1>8, SetCFacts
<1>11. \A q \in Consolidators : Has(q)' => q # p /\ Has(q) /\ RunOf(q)' = RunOf(q)
  BY <1>9, <1>10 DEF Has, RunOf
<1>12. Pending' \subseteq Pending
  BY <1>1, <1>9, <1>10 DEF Pending, PendingC
<1>13. PendingInv'
  <2>1. \A f \in Pending' : f \in Ids' /\ f \in dirs' /\ root'[f] = f
    BY <1>1, <1>3, <1>12 DEF Inv, PendingInv
  <2>2. Pending' \cap (oks' \cup committed' \cup doomed') = {}
    BY <1>1, <1>2, <1>3, <1>12 DEF Inv, PendingInv
  <2>3. \A q \in Consolidators : Has(q)' => cons'[q].new \notin writing'
    BY <1>1, <1>10, <1>11 DEF Inv, PendingInv
  <2>4. \A q, r \in Consolidators : Has(q)' /\ Has(r)' /\ q # r => cons'[q].new # cons'[r].new
    BY <1>10, <1>11 DEF Inv, PendingInv
  <2> QED
    BY <2>1, <2>2, <2>3, <2>4 DEF PendingInv
<1>14. ListInv'
  <2>1. \A q \in Consolidators : \A i \in DOMAIN cons'[q].list : cons'[q].list[i] \in Ids \ Pending
    BY <1>9, <1>10 DEF Inv, ListInv
  <2>2. \A q \in Consolidators : Has(q)' =>
          \A f \in RunOf(q)' : f < cons'[q].new /\ frags[f].srcs \subseteq frags[cons'[q].new].srcs
    BY <1>10, <1>11 DEF Inv, ListInv
  <2> QED
    BY <1>1, <1>12, <2>1, <2>2 DEF ListInv
<1>15. DoomInv'
  <2>1. \A x \in vac : x.lists \subseteq doomed'
    BY <1>2 DEF Inv, DoomInv
  <2>2. \A x \in vac' : x \in vac \/ x.lists = RunOf(p)
    BY SMT, <1>2
  <2>3. \A x \in vac' : x.lists \subseteq doomed'
    BY <1>2, <2>1, <2>2
  <2>4. \A v \in Vacuums : vacuum'[v].todo \subseteq vacuum'[v].frags /\ vacuum'[v].frags \subseteq doomed'
    BY <1>1, <1>2 DEF Inv, DoomInv
  <2> QED
    BY <2>3, <2>4 DEF DoomInv
<1>16. FinalizedInv'
  <2> SUFFICES ASSUME NEW q \in Consolidators, cons'[q].pc = "finalized"
               PROVE  /\ cons'[q].new \in committed
                      /\ \A f \in committed : root'[f] = cons'[q].new => f = cons'[q].new
    BY <1>1 DEF FinalizedInv
  <2>1. q # p /\ Has(q) /\ cons[q].pc = "finalized" /\ cons'[q].new = cons[q].new
    BY <1>9, <1>10 DEF Has
  <2>2. cons[q].new # n
    BY <1>0, <2>1 DEF Inv, PendingInv
  <2>3. root[n] # cons[q].new
    BY <1>4, <2>1, <2>2 DEF Inv, FinalizedInv
  <2> HIDE DEF n
  <2> QED
    BY SMTT(20), <1>3, <2>1, <2>3 DEF Inv, FinalizedInv
<1> QED
  BY <1>3, <1>13, <1>14, <1>15, <1>16 DEF Inv

LEMMA ConsolidatorInv ==
  ASSUME Inv, NEW p \in Consolidators, ConsolidatorStep(p)
  PROVE  Inv'
<1>0. TypeOK /\ TypeOK' /\ FilesOK /\ ConsolidatorsOK
  BY ConsolidatorType DEF Inv, TypeOK
<1>a. \A i \in DOMAIN cons[p].list : cons[p].list[i] \in Ids \ Pending
  BY DEF Inv, ListInv
<1>b. cons[p] \in ConsolidatorState
  BY <1>0 DEF ConsolidatorsOK
<1>c. IdleC.pc = "idle" /\ IdleC.list = <<>> /\ DOMAIN IdleC.list = {}
  BY SMT DEF IdleC
<1>1. CASE get_fragment_info(p)
  <2> DEFINE l == get_sorted_uris(VisibleAt(now))
             c == [IdleC EXCEPT !.pc = "plan", !.list = l]
  <2>1. VisibleAt(now) \in SUBSET Nat /\ IsFiniteSet(VisibleAt(now)) /\ VisibleAt(now) \subseteq Ids \cap Visible
    BY <1>0, IdFacts
  <2>2. \A i \in DOMAIN l : l[i] \in Ids \cap Visible
    BY <2>1, SortedFacts
  <2>3. Visible \cap Pending = {}
    BY DEF Visible, Inv, PendingInv
  <2> HIDE DEF l
  <2>4. c.pc = "plan" /\ c.list = l
    BY DEF IdleC
  <2>5. SetC(p, c) /\ UNCHANGED <<frags, dirs, oks, vac, writing, vacuum, committed, doomed, root>>
    BY <1>1 DEF get_fragment_info, Storage, files, history, l
  <2> HIDE DEF c
  <2> QED
    BY <1>0, <2>2, <2>3, <2>4, <2>5, QuietStep
<1>2. CASE open_run(p)
  <2>1. UNCHANGED <<frags, dirs, oks, vac, writing, vacuum, committed, doomed, root>>
    BY <1>2 DEF open_run, Storage, files, history
  <2>2. PICK run \in Runs(cons[p].list) :
          SetC(p, [cons[p] EXCEPT !.pc = "reading", !.run = run]) \/ SetC(p, IdleC)
    BY <1>2 DEF open_run
  <2> DEFINE c == [cons[p] EXCEPT !.pc = "reading", !.run = run]
  <2>3. c.pc = "reading" /\ c.list = cons[p].list
    BY <1>b DEF ConsolidatorState
  <2> HIDE DEF c
  <2>4. CASE SetC(p, c)
    BY <1>0, <1>a, <2>1, <2>3, <2>4, QuietStep
  <2>5. CASE SetC(p, IdleC)
    BY <1>0, <1>c, <2>1, <2>5, QuietStep
  <2> QED
    BY <2>2, <2>4, <2>5 DEF c
<1>3. CASE nothing_to_consolidate(p) \/ copy_fails(p)
  <2>1. SetC(p, IdleC) /\ UNCHANGED <<frags, dirs, oks, vac, writing, vacuum, committed, doomed, root>>
    BY <1>3 DEF nothing_to_consolidate, copy_fails, Storage, files, history
  <2> QED
    BY <1>0, <1>c, <2>1, QuietStep
<1>4. CASE close_reads(p)
  <2> DEFINE c == [cons[p] EXCEPT !.pc = "closed"]
  <2>1. SetC(p, c) /\ UNCHANGED <<frags, dirs, oks, vac, writing, vacuum, committed, doomed, root>>
    BY <1>4 DEF close_reads, Storage, files, history
  <2>2. c.pc = "closed" /\ c.new = cons[p].new /\ c.list = cons[p].list /\ c.run = cons[p].run
    BY <1>b DEF ConsolidatorState
  <2>3. PendingC(p)
    BY <1>4 DEF PendingC, close_reads
  <2> HIDE DEF c
  <2> QED
    BY <1>0, <1>a, <2>1, <2>2, <2>3, QuietStep
<1>5. ASSUME NEW u, copy_run(p, u) PROVE Inv'
  BY <1>0, <1>5, CopyInv
<1>6. CASE finalize(p)
  BY <1>0, <1>6, FinalizeInv
<1>7. CASE write_vacuum_file(p)
  BY <1>0, <1>7, VacFileInv
<1> QED
  BY <1>1, <1>2, <1>3, <1>4, <1>5, <1>6, <1>7 DEF ConsolidatorStep

-----------------------------------------------------------------------------
(***************************************************************************)
(* Failures, vacuums and readers, and the theorem about writes.            *)
(***************************************************************************)
\* A consolidator that fails or crashes.  Removing the directory of a merged
\* fragment that is already committed is safe as long as no .vac file lists what
\* was merged: until then the merged fragment stands only for itself.
LEMMA FaultInv ==
  ASSUME Inv, NoUnsyncedVac, NEW p \in Consolidators, ConsolidatorFault(p)
  PROVE  Inv'
<1> DEFINE n == cons[p].new
<1>0. TypeOK /\ TypeOK' /\ FilesOK /\ ConsolidatorsOK
  BY FaultType DEF Inv, TypeOK
<1>a. IdleC.pc = "idle" /\ IdleC.list = <<>> /\ DOMAIN IdleC.list = {}
  BY SMT DEF IdleC
<1>1. CASE crash_consolidate(p)
  <2>1. SetC(p, IdleC) /\ UNCHANGED <<frags, dirs, oks, vac, writing, vacuum, committed, doomed, root>>
    BY <1>1 DEF crash_consolidate, Storage, files, history
  <2> QED
    BY <1>0, <1>a, <2>1, QuietStep
<1>2. ASSUME finalize_fails(p) \/ \E how \in VacFaults : write_vacuum_file_fails(p, how) PROVE Inv'
  <2>1. /\ UNCHANGED <<frags, oks, vac, writing, vacuum, doomed, root>> /\ Ids' = Ids
        /\ SetC(p, IdleC) /\ dirs' = dirs \ {n} /\ committed' = committed \ {n} /\ Has(p)
        /\ cons[p].pc \in {"closed", "finalized"}
    <3>1. CASE finalize_fails(p)
      <4>1. n \in Pending
        BY <3>1 DEF finalize_fails, Pending, PendingC
      <4>2. n \notin committed
        BY <4>1 DEF Inv, PendingInv
      <4> QED
        BY <3>1, <4>2 DEF finalize_fails, Has, history, Ids
    <3>2. CASE \E how \in VacFaults : write_vacuum_file_fails(p, how)
      BY <3>2 DEF NoUnsyncedVac, write_vacuum_file_fails, Has, Ids
    <3> QED
      BY <1>2, <3>1, <3>2
  <2>2. cons'[p] = IdleC /\ \A q \in Consolidators : q # p => cons'[q] = cons[q]
    BY <1>0, <2>1, SetCFacts
  <2>3. \A q \in Consolidators : Has(q)' => q # p /\ Has(q) /\ RunOf(q)' = RunOf(q) /\ cons[q].new # n
    BY SMT, <1>a, <2>1, <2>2 DEF Has, RunOf, Inv, PendingInv
  <2>4. n \notin writing
    BY <2>1 DEF Inv, PendingInv
  <2>5. Pending' \subseteq Pending \ {n}
    BY SMTT(20), <1>a, <2>1, <2>2, <2>3, <2>4 DEF Pending, PendingC, Has
  <2>6. \A f \in committed : f # n => root[f] # n
    <3>1. CASE cons[p].pc = "closed"
      <4>1. n \in Pending
        BY <3>1 DEF Pending, PendingC
      <4> QED
        BY <4>1 DEF Inv, PendingInv, RootInv
    <3>2. CASE cons[p].pc = "finalized"
      BY <3>2 DEF Inv, FinalizedInv
    <3> QED
      BY <2>1, <3>1, <3>2
  <2> HIDE DEF n
  <2>7. PendingInv'
    BY <2>1, <2>2, <2>3, <2>5 DEF Inv, PendingInv
  <2>8. ListInv'
    <3>1. \A q \in Consolidators : \A i \in DOMAIN cons'[q].list : cons'[q].list[i] \in Ids \ Pending
      BY <1>a, <2>2 DEF Inv, ListInv
    <3>2. \A q \in Consolidators : Has(q)' =>
            \A f \in RunOf(q)' : f < cons'[q].new /\ frags[f].srcs \subseteq frags[cons'[q].new].srcs
      BY <2>2, <2>3 DEF Inv, ListInv
    <3> QED
      BY <2>1, <2>5, <3>1, <3>2 DEF ListInv
  <2>9. DoomInv'
    BY <2>1 DEF Inv, DoomInv
  <2>10. RootInv'
    BY <2>1, <2>6 DEF Inv, RootInv, Visible
  <2>11. FinalizedInv'
    BY SMTT(20), <1>a, <2>1, <2>2, <2>3 DEF Inv, FinalizedInv, Has
  <2> QED
    BY <1>0, <2>7, <2>8, <2>9, <2>10, <2>11 DEF Inv
<1> QED
  BY <1>1, <1>2 DEF ConsolidatorFault

\* A vacuum deletes only what a .vac file has listed.
LEMMA VacuumInvariant ==
  ASSUME Inv, NEW v \in Vacuums, VacuumStep(v) \/ crash_vacuum(v)
  PROVE  Inv'
<1>0. TypeOK /\ TypeOK' /\ vacuum \in [Vacuums -> VacuumState] /\ vacuum[v] \in VacuumState
  BY VacuumType DEF Inv, TypeOK
<1>1. UNCHANGED <<frags, writing, cons, committed, doomed, root>> /\ Ids' = Ids
  BY DEF VacuumStep, get_uris_to_vacuum, array_xlock, remove_ok, array_xunlock, remove_dir,
         dirs_removed, remove_vac, vacuum_done, crash_vacuum, Storage, files, history, Ids
<1>2. PICK s : SetV(v, s)
  BY DEF VacuumStep, get_uris_to_vacuum, array_xlock, remove_ok, array_xunlock, remove_dir,
         dirs_removed, remove_vac, vacuum_done, crash_vacuum
<1>3. vacuum'[v] = s /\ \A w \in Vacuums : w # v => vacuum'[w] = vacuum[w]
  BY <1>0, <1>2 DEF SetV
<1>4. vacuum'[v].todo \subseteq vacuum'[v].frags /\ vacuum'[v].frags \subseteq doomed
  <2>1. vacuum[v].todo \subseteq vacuum[v].frags /\ vacuum[v].frags \subseteq doomed
    BY DEF Inv, DoomInv
  <2>2. \A x \in vac : x.lists \subseteq doomed
    BY DEF Inv, DoomInv
  <2>3. IdleV.todo = {} /\ IdleV.frags = {}
    BY DEF IdleV
  <2> USE <1>0, <2>1 DEF SetV, VacuumState
  <2>4. CASE get_uris_to_vacuum(v)
    <3>1. vacuum'[v] = [IdleV EXCEPT !.pc = "listed", !.vacs = vac,
                                     !.frags = dirs \cap UNION {x.lists : x \in vac}]
      BY <2>4 DEF get_uris_to_vacuum
    <3>2. vacuum'[v].todo = {} /\ vacuum'[v].frags = dirs \cap UNION {x.lists : x \in vac}
      BY <3>1 DEF IdleV
    <3> QED
      BY <2>2, <3>2
  <2>5. CASE array_xlock(v)
    BY <2>5 DEF array_xlock
  <2>6. ASSUME NEW f, remove_ok(v, f) \/ remove_dir(v, f)
        PROVE  vacuum'[v].todo \subseteq vacuum'[v].frags /\ vacuum'[v].frags \subseteq doomed
    <3>1. PICK err : vacuum' = [vacuum EXCEPT ![v] = [vacuum[v] EXCEPT !.todo = @ \ {f}, !.err = err]]
      BY <2>6 DEF remove_ok, remove_dir
    <3>2. vacuum'[v].todo = vacuum[v].todo \ {f} /\ vacuum'[v].frags = vacuum[v].frags
      BY <3>1
    <3> QED
      BY <3>2
  <2>7. CASE array_xunlock(v)
    BY <2>3, <2>7 DEF array_xunlock
  <2>8. CASE dirs_removed(v)
    BY <2>3, <2>8 DEF dirs_removed
  <2>9. CASE \E x \in vacuum[v].vacs : remove_vac(v, x)
    BY SMT, <2>9 DEF remove_vac
  <2>10. CASE vacuum_done(v) \/ crash_vacuum(v)
    BY <2>3, <2>10 DEF vacuum_done, crash_vacuum
  <2> QED
    BY <2>4, <2>5, <2>6, <2>7, <2>8, <2>9, <2>10 DEF VacuumStep
<1>5. vac' \subseteq vac /\ oks' \subseteq oks /\ oks \ doomed \subseteq oks' /\ dirs' \subseteq dirs /\ dirs \ doomed \subseteq dirs'
  BY DEF VacuumStep, get_uris_to_vacuum, array_xlock, remove_ok, array_xunlock, remove_dir,
         dirs_removed, remove_vac, vacuum_done, crash_vacuum, Storage, files, Inv, DoomInv
<1>6. DoomInv'
  BY <1>1, <1>3, <1>4, <1>5 DEF Inv, DoomInv
<1>7. Pending' = Pending /\ \A p \in Consolidators : (Has(p)' <=> Has(p)) /\ RunOf(p)' = RunOf(p)
  BY <1>1 DEF Pending, PendingC, Has, RunOf
<1>8. PendingInv'
  BY <1>1, <1>5, <1>7 DEF Inv, PendingInv
<1>9. ListInv' /\ FinalizedInv'
  BY <1>1, <1>7 DEF Inv, ListInv, FinalizedInv
<1>10. RootInv'
  BY <1>1, <1>5 DEF Inv, RootInv, Visible
<1> QED
  BY <1>0, <1>6, <1>8, <1>9, <1>10 DEF Inv

\* A step that changes nothing the invariant speaks of.
LEMMA SameInv ==
  ASSUME Inv, TypeOK',
         UNCHANGED <<frags, dirs, oks, vac, writing, cons, vacuum, committed, doomed, root>>
  PROVE  Inv'
<1>1. Pending' = Pending /\ Ids' = Ids /\ Visible' = Visible
  BY DEF Pending, PendingC, Ids, Visible
<1>2. \A p \in Consolidators : (Has(p)' <=> Has(p)) /\ RunOf(p)' = RunOf(p)
  BY DEF Has, RunOf
<1>3. PendingInv'
  BY <1>1, <1>2 DEF Inv, PendingInv
<1>4. ListInv'
  BY <1>1, <1>2 DEF Inv, ListInv
<1>5. DoomInv' /\ FinalizedInv'
  BY DEF Inv, DoomInv, FinalizedInv
<1>6. RootInv'
  BY <1>1 DEF Inv, RootInv
<1> QED
  BY <1>3, <1>4, <1>5, <1>6 DEF Inv

LEMMA ReaderInv ==
  ASSUME Inv, NEW r \in Readers, ReaderNext(r)
  PROVE  Inv'
<1>1. UNCHANGED <<frags, dirs, oks, vac, writing, cons, vacuum, committed, doomed, root>>
  BY DEF ReaderNext, array_open_for_reads, array_close_for_reads, Storage, files, history
<1>2. TypeOK'
  BY ReaderType DEF Inv
<1> QED
  BY <1>1, <1>2, SameInv

LEMMA InvStep ==
  ASSUME Inv, NoUnsyncedVac, [Next]_vars
  PROVE  Inv'
<1>1. CASE UNCHANGED vars
  <2>1. TypeOK'
    BY <1>1, TypeStep DEF Inv
  <2>2. UNCHANGED <<frags, dirs, oks, vac, writing, cons, vacuum, committed, doomed, root>>
    BY <1>1 DEF vars, files, history
  <2> QED
    BY <2>1, <2>2, SameInv
<1>2. CASE Next
  BY <1>2, WriterInv, ConsolidatorInv, FaultInv, VacuumInvariant, ReaderInv DEF Next
<1> QED
  BY <1>1, <1>2

LEMMA InvHolds == NoUnsyncedVac => (Spec => []Inv)
<1> SUFFICES ASSUME NoUnsyncedVac PROVE Spec => []Inv
  OBVIOUS
<1>1. Inv /\ [Next]_vars => Inv'
  BY InvStep
<1> QED
  BY <1>1, InitInv, PTL DEF Spec

\* No committed write is ever lost, however many writers, consolidators and
\* vacuums run, fail and crash, provided that the .vac file of a merged fragment
\* is not left behind when writing it fails (FragmentsUnsyncedVac shows that the
\* hypothesis is needed).
THEOREM WritesSurvive == NoUnsyncedVac => (Spec => []NoWriteLost)
<1> SUFFICES ASSUME NoUnsyncedVac PROVE Spec => []NoWriteLost
  OBVIOUS
<1>1. Inv => NoWriteLost
  <2> SUFFICES ASSUME Inv, NEW f \in committed, IsWrite(f)
               PROVE  \E g \in Visible : f \in frags[g].srcs
    BY DEF NoWriteLost
  <2>1. root[f] \in Visible /\ frags[f].srcs \subseteq frags[root[f]].srcs
    BY DEF Inv, RootInv
  <2> QED
    BY <2>1 DEF IsWrite
<1> QED
  BY <1>1, InvHolds, PTL

-----------------------------------------------------------------------------
(***************************************************************************)
(* Open snapshots: the lock, the .ok files and the directories of what a   *)
(* vacuum deletes.                                                         *)
(***************************************************************************)
\* A vacuum past the lock has deleted the .ok files of all it lists.
VacuumInv ==
  \A v \in Vacuums :
    /\ vacuum[v].pc = "oks" => (vacuum[v].frags \ vacuum[v].todo) \cap oks = {}
    /\ vacuum[v].pc = "dirs" => vacuum[v].frags \cap oks = {}

\* The shared and the exclusive lock exclude each other.
LockInv == \A r \in Readers : reader[r].open => NoExclusive

SnapInv == Inv /\ VacuumInv /\ LockInv /\ SnapshotIntact

\* The steps of a vacuum.
LEMMA SnapVacuum ==
  ASSUME SnapInv, Inv', NEW v \in Vacuums, VacuumStep(v) \/ crash_vacuum(v)
  PROVE  SnapInv'
<1>0. vacuum \in [Vacuums -> VacuumState] /\ vacuum[v] \in VacuumState
  BY DEF SnapInv, Inv, TypeOK
<1>1. UNCHANGED <<cons, reader, committed>>
  BY DEF VacuumStep, get_uris_to_vacuum, array_xlock, remove_ok, array_xunlock, remove_dir,
         dirs_removed, remove_vac, vacuum_done, crash_vacuum, Storage, history
<1>2. PICK s : SetV(v, s)
  BY DEF VacuumStep, get_uris_to_vacuum, array_xlock, remove_ok, array_xunlock, remove_dir,
         dirs_removed, remove_vac, vacuum_done, crash_vacuum
<1>3. vacuum'[v] = s /\ \A w \in Vacuums : w # v => vacuum'[w] = vacuum[w]
  BY <1>0, <1>2 DEF SetV
<1>4. oks' \subseteq oks
  BY DEF VacuumStep, get_uris_to_vacuum, array_xlock, remove_ok, array_xunlock, remove_dir,
         dirs_removed, remove_vac, vacuum_done, crash_vacuum, Storage, files
<1>5. IdleV.pc = "idle"
  BY DEF IdleV
<1>6. ASSUME VacuumInv, LockInv, SnapshotIntact,
             vacuum'[v].pc \notin {"oks", "dirs"}, UNCHANGED <<oks, dirs>>
      PROVE  SnapInv'
  BY <1>1, <1>3, <1>6 DEF SnapInv, VacuumInv, LockInv, SnapshotIntact, NoExclusive
<1>a. VacuumInv /\ LockInv /\ SnapshotIntact
  BY DEF SnapInv
<1>7. CASE get_uris_to_vacuum(v)
  <2>1. vacuum'[v].pc = "listed" /\ UNCHANGED <<oks, dirs>>
    BY <1>0, <1>7 DEF get_uris_to_vacuum, SetV, IdleV, Storage, files
  <2> QED
    BY <1>6, <1>a, <2>1
<1>8. CASE array_xlock(v)
  <2>1. vacuum'[v].pc = "oks" /\ vacuum'[v].todo = vacuum'[v].frags /\ UNCHANGED <<oks, dirs>>
    BY <1>0, <1>8 DEF array_xlock, SetV, VacuumState, Storage, files
  <2>2. \A r \in Readers : ~reader[r].open
    BY <1>8 DEF array_xlock, NoShared
  <2> QED
    BY <1>1, <1>3, <1>a, <2>1, <2>2 DEF SnapInv, VacuumInv, LockInv, SnapshotIntact
<1>9. ASSUME NEW f, remove_ok(v, f) PROVE SnapInv'
  <2>1. /\ vacuum'[v].pc = "oks" /\ vacuum'[v].todo = vacuum[v].todo \ {f}
        /\ vacuum'[v].frags = vacuum[v].frags
        /\ oks' = oks \ {f} /\ dirs' = dirs
    <3>1. PICK err : vacuum' = [vacuum EXCEPT ![v] = [vacuum[v] EXCEPT !.todo = @ \ {f}, !.err = err]]
      BY <1>9 DEF remove_ok, SetV
    <3> QED
      BY <1>0, <1>9, <3>1 DEF remove_ok, VacuumState
  <2>2. vacuum[v].pc = "oks"
    BY <1>9 DEF remove_ok
  <2>3. \A r \in Readers : ~reader[r].open
    BY <1>a, <2>2 DEF LockInv, NoExclusive
  <2>4. VacuumInv'
    BY <1>3, <1>a, <2>1, <2>2 DEF VacuumInv
  <2> QED
    BY <1>1, <2>3, <2>4 DEF SnapInv, LockInv, SnapshotIntact
<1>10. ASSUME NEW f, remove_dir(v, f) PROVE SnapInv'
  <2>1. /\ vacuum'[v].pc = "dirs" /\ vacuum'[v].frags = vacuum[v].frags
        /\ dirs' = dirs \ {f} /\ oks' = oks /\ f \in vacuum[v].todo /\ vacuum[v].pc = "dirs"
    <3>1. PICK err : vacuum' = [vacuum EXCEPT ![v] = [vacuum[v] EXCEPT !.todo = @ \ {f}, !.err = err]]
      BY <1>10 DEF remove_dir, SetV
    <3> QED
      BY <1>0, <1>10, <3>1 DEF remove_dir, VacuumState
  <2>2. f \notin oks
    BY <1>a, <2>1 DEF SnapInv, Inv, DoomInv, VacuumInv
  <2>3. VacuumInv'
    BY <1>3, <1>a, <2>1 DEF VacuumInv
  <2>4. LockInv'
    BY <1>1, <1>3, <1>a, <2>1 DEF LockInv, NoExclusive
  <2>5. SnapshotIntact'
    BY <1>1, <1>a, <2>1, <2>2 DEF SnapshotIntact
  <2> QED
    BY <2>3, <2>4, <2>5 DEF SnapInv
<1>11. CASE array_xunlock(v)
  <2>1. UNCHANGED <<oks, dirs>> /\ vacuum[v].pc = "oks" /\ vacuum[v].todo = {}
    BY <1>11 DEF array_xunlock, Storage, files
  <2>2. CASE vacuum[v].err
    <3>1. vacuum'[v].pc = "idle"
      BY <1>0, <1>5, <1>11, <2>2 DEF array_xunlock, SetV
    <3> QED
      BY <1>6, <1>a, <2>1, <3>1
  <2>3. CASE ~vacuum[v].err
    <3>1. vacuum'[v].pc = "dirs" /\ vacuum'[v].frags = vacuum[v].frags
      BY <1>0, <1>11, <2>3 DEF array_xunlock, SetV, VacuumState
    <3>2. VacuumInv'
      BY <1>3, <1>a, <2>1, <3>1 DEF VacuumInv
    <3>3. LockInv' /\ SnapshotIntact'
      BY <1>1, <1>3, <1>a, <2>1, <3>1 DEF LockInv, NoExclusive, SnapshotIntact
    <3> QED
      BY <3>2, <3>3 DEF SnapInv
  <2> QED
    BY <2>2, <2>3
<1>12. CASE dirs_removed(v)
  <2>1. vacuum'[v].pc \in {"idle", "vacs"} /\ UNCHANGED <<oks, dirs>>
    BY <1>0, <1>5, <1>12 DEF dirs_removed, SetV, VacuumState, Storage, files
  <2> QED
    BY <1>6, <1>a, <2>1
<1>13. ASSUME NEW x, remove_vac(v, x) PROVE SnapInv'
  <2>1. vacuum'[v].pc = "vacs" /\ UNCHANGED <<oks, dirs>>
    BY <1>0, <1>13 DEF remove_vac, SetV, VacuumState
  <2> QED
    BY <1>6, <1>a, <2>1
<1>14. CASE vacuum_done(v) \/ crash_vacuum(v)
  <2>1. vacuum'[v].pc = "idle" /\ UNCHANGED <<oks, dirs>>
    BY <1>0, <1>5, <1>14 DEF vacuum_done, crash_vacuum, SetV, Storage, files
  <2> QED
    BY <1>6, <1>a, <2>1
<1> QED
  BY <1>7, <1>8, <1>9, <1>10, <1>11, <1>12, <1>13, <1>14 DEF VacuumStep

\* Any other step: it moves no vacuum, deletes only directories that are not or
\* no longer committed, and commits only fragments that no .vac file has listed.
CommitsNew ==
  /\ \A f \in oks' : f \in oks \/ f \notin doomed
  /\ oks \subseteq oks'
  /\ \A f \in oks \cap committed' : f \in committed /\ (f \in dirs => f \in dirs')

LEMMA SnapOther ==
  ASSUME SnapInv, Inv', vacuum' = vacuum, reader' = reader, CommitsNew
  PROVE  SnapInv'
<1>1. VacuumInv'
  BY DEF SnapInv, VacuumInv, Inv, DoomInv, CommitsNew
<1>2. LockInv' /\ SnapshotIntact'
  BY DEF SnapInv, LockInv, SnapshotIntact, NoExclusive, CommitsNew
<1> QED
  BY <1>1, <1>2 DEF SnapInv

LEMMA SnapStep ==
  ASSUME SnapInv, NoUnsyncedVac, [Next]_vars
  PROVE  SnapInv'
<1>0. Inv /\ Inv'
  BY InvStep DEF SnapInv
<1>1. CASE UNCHANGED vars
  BY <1>0, <1>1, SnapOther DEF vars, files, history, CommitsNew
<1>2. CASE WriterNext
  <2>1. vacuum' = vacuum /\ reader' = reader
    BY <1>2 DEF WriterNext, create_fragment, commit_write, clean_up, crash_write
  <2>2. \A f \in writing : f \notin oks /\ f \notin doomed
    BY <1>0 DEF Inv, PendingInv, Pending
  <2>3. CommitsNew
    BY <1>2, <2>2
    DEF WriterNext, create_fragment, commit_write, clean_up, crash_write, Storage, files, history,
        CommitsNew
  <2> QED
    BY <1>0, <2>1, <2>3, SnapOther
<1>3. ASSUME NEW p \in Consolidators, ConsolidatorStep(p) \/ ConsolidatorFault(p) PROVE SnapInv'
  <2>1. vacuum' = vacuum /\ reader' = reader
    BY <1>3 DEF ConsolidatorStep, ConsolidatorFault, get_fragment_info, open_run,
      nothing_to_consolidate, copy_run, copy_fails, close_reads, finalize, write_vacuum_file,
      finalize_fails, write_vacuum_file_fails, crash_consolidate
  <2>2. cons[p].pc = "closed" => cons[p].new \notin oks /\ cons[p].new \notin doomed
    BY <1>0 DEF Inv, PendingInv, Pending, PendingC
  <2>3. CommitsNew
    <3>1. CASE ConsolidatorStep(p)
      BY <2>2, <3>1 DEF ConsolidatorStep, get_fragment_info, open_run, nothing_to_consolidate,
        copy_run, copy_fails, close_reads, finalize, write_vacuum_file, Storage, files, history,
        CommitsNew, Absorb
    <3>2. CASE ConsolidatorFault(p)
      BY <2>2, <3>2 DEF ConsolidatorFault, finalize_fails, write_vacuum_file_fails,
        crash_consolidate, Storage, files, history, CommitsNew
    <3> QED
      BY <1>3, <3>1, <3>2
  <2> QED
    BY <1>0, <2>1, <2>3, SnapOther
<1>4. ASSUME NEW v \in Vacuums, VacuumStep(v) \/ crash_vacuum(v) PROVE SnapInv'
  BY <1>0, <1>4, SnapVacuum
<1>5. ASSUME NEW r \in Readers, ReaderNext(r) PROVE SnapInv'
  <2>1. UNCHANGED <<oks, dirs, committed, vacuum>>
    BY <1>5 DEF ReaderNext, array_open_for_reads, array_close_for_reads, Storage, files, history
  <2>2. VacuumInv'
    BY <2>1 DEF SnapInv, VacuumInv
  <2>3. reader \in [Readers -> ReaderState]
    BY <1>0 DEF Inv, TypeOK
  <2>4. \A q \in Readers : reader'[q].open => reader[q] = reader'[q] \/ (NoExclusive /\ reader'[q].snap \subseteq Visible)
    BY SMTT(20), <1>5, <2>3 DEF ReaderNext, array_open_for_reads, array_close_for_reads, Closed, VisibleAt
  <2>5. LockInv' /\ SnapshotIntact'
    BY <2>1, <2>4 DEF SnapInv, LockInv, SnapshotIntact, NoExclusive, Visible
  <2> QED
    BY <1>0, <2>2, <2>5 DEF SnapInv
<1> QED
  BY <1>1, <1>2, <1>3, <1>4, <1>5 DEF Next

\* Whatever consolidators and vacuums do, the fragments that an array was opened
\* with stay on disk until it is closed: the exclusive lock protects the .ok
\* files, and directories are deleted only after their .ok files.  Crashes and
\* .vac files that cannot be opened for writing are included.
THEOREM SnapshotsStay == NoUnsyncedVac => (Spec => []SnapshotIntact)
<1> SUFFICES ASSUME NoUnsyncedVac PROVE Spec => []SnapshotIntact
  OBVIOUS
<1>1. Init => SnapInv
  <2> SUFFICES ASSUME Init PROVE SnapInv
    OBVIOUS
  <2>1. VacuumInv
    BY DEF Init, VacuumInv, IdleV
  <2>2. \A r \in Readers : ~reader[r].open
    BY DEF Init, Closed
  <2> QED
    BY <2>1, <2>2, InitInv DEF SnapInv, LockInv, SnapshotIntact
<1>2. SnapInv /\ [Next]_vars => SnapInv'
  BY SnapStep
<1>3. SnapInv => SnapshotIntact
  BY DEF SnapInv
<1> QED
  BY <1>1, <1>2, <1>3, PTL DEF Spec

-----------------------------------------------------------------------------
(***************************************************************************)
(* The .vac files go last, whatever fails.                                 *)
(***************************************************************************)
\* What vacuum v still has to remove of what the .vac file x lists.
Left(v, x) ==
  /\ vacuum[v].pc \in {"listed", "oks"} => x.lists \cap dirs \subseteq vacuum[v].frags
  /\ vacuum[v].pc = "dirs" => x.lists \cap dirs \subseteq vacuum[v].todo
  /\ vacuum[v].pc = "vacs" => x.lists \cap dirs = {}

\* The .vac files list fragments that exist, so that no directory that is made
\* later is among them.
ListedInv ==
  /\ TypeOK
  /\ \A x \in vac : x.lists \subseteq Ids
  /\ \A v \in Vacuums : \A x \in vacuum[v].vacs : x.lists \subseteq Ids /\ Left(v, x)

\* A step of a writer, a consolidator or a reader makes new directories only.
LEMMA ListedOther ==
  ASSUME ListedInv, TypeOK', vacuum' = vacuum, Ids \subseteq Ids', dirs' \cap Ids \subseteq dirs,
         \A x \in vac' : x.lists \subseteq Ids'
  PROVE  ListedInv'
<1>1. ASSUME NEW v \in Vacuums, NEW x \in vacuum[v].vacs PROVE x.lists \subseteq Ids' /\ Left(v, x)'
  <2>1. x.lists \subseteq Ids /\ Left(v, x)
    BY DEF ListedInv
  <2>2. x.lists \cap dirs' \subseteq x.lists \cap dirs
    BY <2>1
  <2> QED
    BY <2>1, <2>2 DEF Left
<1> QED
  BY <1>1 DEF ListedInv

LEMMA ListedWriter ==
  ASSUME ListedInv, TypeOK', WriterNext
  PROVE  ListedInv'
<1>0. FilesOK /\ NewId \notin Ids
  BY IdFacts DEF ListedInv, TypeOK
<1>1. vacuum' = vacuum /\ vac' = vac
  BY DEF WriterNext, create_fragment, commit_write, clean_up, crash_write, Storage, files
<1>2. CASE \E cells \in WriteCells, u \in Uuids : create_fragment(cells, u)
  <2>1. PICK e : frags' = Append(frags, e)
    BY <1>2 DEF create_fragment
  <2>2. dirs' = dirs \cup {NewId}
    BY <1>2 DEF create_fragment
  <2>3. Ids' = Ids \cup {NewId}
    BY <1>0, <2>1, GrowStep
  <2> QED
    BY <1>0, <1>1, <2>2, <2>3, ListedOther DEF ListedInv
<1>3. CASE \E f \in writing : commit_write(f) \/ clean_up(f) \/ crash_write(f)
  <2>1. frags' = frags /\ dirs' \subseteq dirs
    BY <1>3 DEF commit_write, clean_up, crash_write, Storage, files
  <2>2. Ids' = Ids
    BY <2>1 DEF Ids
  <2> QED
    BY <1>1, <2>1, <2>2, ListedOther DEF ListedInv
<1> QED
  BY <1>2, <1>3 DEF WriterNext

LEMMA ListedConsolidator ==
  ASSUME ListedInv, TypeOK', NEW p \in Consolidators, ConsolidatorStep(p) \/ ConsolidatorFault(p)
  PROVE  ListedInv'
<1>0. FilesOK /\ ConsolidatorsOK /\ NewId \notin Ids
  BY IdFacts DEF ListedInv, TypeOK
<1>1. vacuum' = vacuum
  BY DEF ConsolidatorStep, ConsolidatorFault, get_fragment_info, open_run,
    nothing_to_consolidate, copy_run, copy_fails, close_reads, finalize, write_vacuum_file,
    finalize_fails, write_vacuum_file_fails, crash_consolidate
<1>2. CASE \E u \in Uuids : copy_run(p, u)
  <2>1. PICK e : frags' = Append(frags, e)
    BY <1>2 DEF copy_run
  <2>2. dirs' = dirs \cup {NewId} /\ vac' = vac
    BY <1>2 DEF copy_run
  <2>3. Ids' = Ids \cup {NewId}
    BY <1>0, <2>1, GrowStep
  <2> QED
    BY <1>0, <1>1, <2>2, <2>3, ListedOther DEF ListedInv
<1>3. ASSUME frags' = frags, dirs' \subseteq dirs,
             \/ vac' = vac
             \/ /\ cons[p].pc = "finalized"
                /\ vac' = vac \cup {[of |-> cons[p].new, lists |-> RunOf(p)]}
      PROVE  ListedInv'
  <2>1. Ids' = Ids
    BY <1>3 DEF Ids
  <2>2. \A x \in vac' : x.lists \subseteq Ids
    <3>1. CASE vac' = vac
      BY <3>1 DEF ListedInv
    <3>2. CASE /\ cons[p].pc = "finalized"
               /\ vac' = vac \cup {[of |-> cons[p].new, lists |-> RunOf(p)]}
      <4>1. RunOf(p) \subseteq Ids
        BY <1>0, <3>2, RunFacts
      <4>2. [of |-> cons[p].new, lists |-> RunOf(p)].lists = RunOf(p)
        OBVIOUS
      <4> QED
        BY <3>2, <4>1, <4>2 DEF ListedInv
    <3> QED
      BY <1>3, <3>1, <3>2
  <2> QED
    BY <1>1, <1>3, <2>1, <2>2, ListedOther
<1>4. CASE \/ get_fragment_info(p) \/ open_run(p) \/ nothing_to_consolidate(p) \/ copy_fails(p)
           \/ close_reads(p) \/ finalize(p) \/ finalize_fails(p) \/ crash_consolidate(p)
  <2>1. frags' = frags /\ dirs' \subseteq dirs /\ vac' = vac
    BY <1>4 DEF get_fragment_info, open_run, nothing_to_consolidate, copy_fails, close_reads,
      finalize, finalize_fails, crash_consolidate, Storage, files
  <2> QED
    BY <1>3, <2>1
<1>5. CASE write_vacuum_file(p)
  <2>1. /\ frags' = frags /\ dirs' = dirs /\ cons[p].pc = "finalized"
        /\ vac' = vac \cup {[of |-> cons[p].new, lists |-> RunOf(p)]}
    BY <1>5 DEF write_vacuum_file
  <2> QED
    BY <1>3, <2>1
<1>6. ASSUME NEW how, write_vacuum_file_fails(p, how) PROVE ListedInv'
  <2>1. frags' = frags /\ dirs' \subseteq dirs /\ cons[p].pc = "finalized"
    BY <1>6 DEF write_vacuum_file_fails
  <2>2. vac' = vac \/ vac' = vac \cup {[of |-> cons[p].new, lists |-> RunOf(p)]}
    BY <1>6 DEF write_vacuum_file_fails
  <2> QED
    BY <1>3, <2>1, <2>2
<1> QED
  BY <1>2, <1>4, <1>5, <1>6 DEF ConsolidatorStep, ConsolidatorFault

\* The steps of a vacuum.
LEMMA ListedVacuum ==
  ASSUME ListedInv, TypeOK', NEW v \in Vacuums, VacuumStep(v) \/ crash_vacuum(v)
  PROVE  /\ ListedInv'
         /\ \A x \in vac \ vac' : x.lists \cap dirs = {}
<1>0. vacuum \in [Vacuums -> VacuumState] /\ vacuum[v] \in VacuumState
  BY DEF ListedInv, TypeOK
<1>1. frags' = frags /\ dirs' \subseteq dirs /\ vac' \subseteq vac
  BY DEF VacuumStep, get_uris_to_vacuum, array_xlock, remove_ok, array_xunlock, remove_dir,
         dirs_removed, remove_vac, vacuum_done, crash_vacuum, Storage, files
<1>2. PICK s : SetV(v, s)
  BY DEF VacuumStep, get_uris_to_vacuum, array_xlock, remove_ok, array_xunlock, remove_dir,
         dirs_removed, remove_vac, vacuum_done, crash_vacuum
<1>3. vacuum'[v] = s /\ \A w \in Vacuums : w # v => vacuum'[w] = vacuum[w]
  BY <1>0, <1>2 DEF SetV
<1>4. Ids' = Ids
  BY <1>1 DEF Ids
<1>5. ASSUME \A x \in vacuum'[v].vacs : x.lists \subseteq Ids /\ Left(v, x)' PROVE ListedInv'
  <2>1. ASSUME NEW w \in Vacuums, NEW x \in vacuum'[w].vacs PROVE x.lists \subseteq Ids' /\ Left(w, x)'
    <3>1. CASE w = v
      BY <1>4, <1>5, <3>1
    <3>2. CASE w # v
      <4>1. vacuum'[w] = vacuum[w] /\ x.lists \subseteq Ids /\ Left(w, x)
        BY <1>3, <3>2 DEF ListedInv
      <4> QED
        BY <1>1, <1>4, <4>1 DEF Left
    <3> QED
      BY <3>1, <3>2
  <2>2. \A x \in vac' : x.lists \subseteq Ids'
    BY <1>1, <1>4 DEF ListedInv
  <2> QED
    BY <2>1, <2>2 DEF ListedInv
<1>6. \A x \in vacuum[v].vacs : x.lists \subseteq Ids /\ Left(v, x)
  BY DEF ListedInv
<1>7. CASE get_uris_to_vacuum(v)
  <2>1. /\ vacuum'[v].pc = "listed" /\ vacuum'[v].vacs = vac
        /\ vacuum'[v].frags = dirs \cap UNION {x.lists : x \in vac}
        /\ dirs' = dirs /\ vac' = vac
    BY <1>0, <1>7 DEF get_uris_to_vacuum, SetV, IdleV, Storage, files
  <2>2. \A x \in vacuum'[v].vacs : x.lists \subseteq Ids /\ Left(v, x)'
    BY <2>1 DEF ListedInv, Left
  <2> QED
    BY <1>5, <2>1, <2>2
<1>8. CASE array_xlock(v)
  <2>1. /\ vacuum[v].pc = "listed" /\ vacuum'[v].pc = "oks" /\ vacuum'[v].vacs = vacuum[v].vacs
        /\ vacuum'[v].frags = vacuum[v].frags /\ dirs' = dirs /\ vac' = vac
    BY <1>0, <1>8 DEF array_xlock, SetV, VacuumState, Storage, files
  <2> QED
    BY <1>5, <1>6, <2>1 DEF Left
<1>9. ASSUME NEW f, remove_ok(v, f)
      PROVE  ListedInv' /\ \A x \in vac \ vac' : x.lists \cap dirs = {}
  <2>1. /\ vacuum[v].pc = "oks" /\ vacuum'[v].pc = "oks" /\ vacuum'[v].vacs = vacuum[v].vacs
        /\ vacuum'[v].frags = vacuum[v].frags /\ dirs' = dirs /\ vac' = vac
    <3>1. PICK err : vacuum' = [vacuum EXCEPT ![v] = [vacuum[v] EXCEPT !.todo = @ \ {f}, !.err = err]]
      BY <1>9 DEF remove_ok, SetV
    <3> QED
      BY <1>0, <1>9, <3>1 DEF remove_ok, VacuumState
  <2> QED
    BY <1>5, <1>6, <2>1 DEF Left
<1>10. CASE array_xunlock(v)
  <2>1. dirs' = dirs /\ vac' = vac /\ vacuum[v].pc = "oks"
    BY <1>10 DEF array_xunlock, Storage, files
  <2>2. CASE vacuum[v].err
    <3>1. vacuum'[v] = IdleV
      BY <1>0, <1>10, <2>2 DEF array_xunlock, SetV
    <3>2. vacuum'[v].vacs = {}
      BY SMT, <3>1 DEF IdleV
    <3> QED
      BY <1>5, <2>1, <3>2
  <2>3. CASE ~vacuum[v].err
    <3>1. /\ vacuum'[v].pc = "dirs" /\ vacuum'[v].vacs = vacuum[v].vacs
          /\ vacuum'[v].todo = vacuum[v].frags
      BY <1>0, <1>10, <2>3 DEF array_xunlock, SetV, VacuumState
    <3> QED
      BY <1>5, <1>6, <2>1, <3>1 DEF Left
  <2> QED
    BY <2>2, <2>3
<1>11. ASSUME NEW f, remove_dir(v, f)
       PROVE  ListedInv' /\ \A x \in vac \ vac' : x.lists \cap dirs = {}
  <2>1. /\ vacuum[v].pc = "dirs" /\ vacuum'[v].pc = "dirs" /\ vacuum'[v].vacs = vacuum[v].vacs
        /\ vacuum'[v].todo = vacuum[v].todo \ {f} /\ dirs' = dirs \ {f} /\ vac' = vac
    <3>1. PICK err : vacuum' = [vacuum EXCEPT ![v] = [vacuum[v] EXCEPT !.todo = @ \ {f}, !.err = err]]
      BY <1>11 DEF remove_dir, SetV
    <3> QED
      BY <1>0, <1>11, <3>1 DEF remove_dir, VacuumState
  <2> QED
    BY <1>5, <1>6, <2>1 DEF Left
<1>12. CASE dirs_removed(v)
  <2>1. /\ dirs' = dirs /\ vac' = vac /\ vacuum[v].pc = "dirs" /\ vacuum[v].todo = {}
    BY <1>12 DEF dirs_removed, Storage, files
  <2>2. CASE vacuum[v].err
    <3>1. vacuum'[v] = IdleV
      BY <1>0, <1>12, <2>2 DEF dirs_removed, SetV
    <3>2. vacuum'[v].vacs = {}
      BY SMT, <3>1 DEF IdleV
    <3> QED
      BY <1>5, <2>1, <3>2
  <2>3. CASE ~vacuum[v].err
    <3>1. vacuum'[v].pc = "vacs" /\ vacuum'[v].vacs = vacuum[v].vacs
      BY <1>0, <1>12, <2>3 DEF dirs_removed, SetV, VacuumState
    <3> QED
      BY <1>5, <1>6, <2>1, <3>1 DEF Left
  <2> QED
    BY <2>2, <2>3
<1>13. ASSUME NEW x, remove_vac(v, x)
       PROVE  ListedInv' /\ \A y \in vac \ vac' : y.lists \cap dirs = {}
  <2>1. /\ vacuum[v].pc = "vacs" /\ x \in vacuum[v].vacs /\ dirs' = dirs /\ vac' = vac \ {x}
        /\ vacuum'[v].pc = "vacs" /\ vacuum'[v].vacs = vacuum[v].vacs \ {x}
    BY <1>0, <1>13 DEF remove_vac, SetV, VacuumState
  <2>2. x.lists \cap dirs = {}
    BY <1>6, <2>1 DEF Left
  <2> QED
    BY <1>5, <1>6, <2>1, <2>2 DEF Left
<1>14. CASE vacuum_done(v) \/ crash_vacuum(v)
  <2>1. vacuum'[v] = IdleV /\ vac' = vac
    BY <1>0, <1>14 DEF vacuum_done, crash_vacuum, SetV, Storage, files
  <2>2. vacuum'[v].vacs = {}
    BY SMT, <2>1 DEF IdleV
  <2> QED
    BY <1>5, <2>1, <2>2
<1> QED
  BY <1>7, <1>8, <1>9, <1>10, <1>11, <1>12, <1>13, <1>14 DEF VacuumStep

\* A .vac file is removed only when nothing it lists is on disk any more, however
\* many vacuums and consolidators overlap and wherever they fail or die: a vacuum
\* may leave work behind, but never work that no .vac file tells of.
THEOREM VacFilesGoLast == Spec => VacFilesLast
<1>1. Init => ListedInv
  <2> SUFFICES ASSUME Init PROVE ListedInv
    OBVIOUS
  <2>1. \A v \in Vacuums : vacuum[v].vacs = {}
    BY SMT DEF Init, IdleV
  <2>2. TypeOK /\ vac = {}
    BY InitType DEF Init
  <2> QED
    BY <2>1, <2>2 DEF ListedInv
<1>2. ASSUME ListedInv, TypeOK', [Next]_vars
      PROVE  ListedInv' /\ \A x \in vac \ vac' : x.lists \cap dirs = {}
  <2>1. CASE UNCHANGED vars
    <3>1. vac' = vac /\ dirs' = dirs /\ vacuum' = vacuum /\ frags' = frags
      BY <2>1 DEF vars, files
    <3>2. Ids' = Ids
      BY <3>1 DEF Ids
    <3> QED
      BY <1>2, <3>1, <3>2, ListedOther DEF ListedInv
  <2>2. CASE WriterNext
    <3>1. vac' = vac
      BY <2>2 DEF WriterNext, create_fragment, commit_write, clean_up, crash_write, Storage, files
    <3> QED
      BY <1>2, <2>2, <3>1, ListedWriter
  <2>3. ASSUME NEW p \in Consolidators, ConsolidatorStep(p) \/ ConsolidatorFault(p)
        PROVE  ListedInv' /\ \A x \in vac \ vac' : x.lists \cap dirs = {}
    <3>1. vac \subseteq vac'
      BY <2>3 DEF ConsolidatorStep, ConsolidatorFault, get_fragment_info, open_run,
        nothing_to_consolidate, copy_run, copy_fails, close_reads, finalize, write_vacuum_file,
        finalize_fails, write_vacuum_file_fails, crash_consolidate, Storage, files
    <3> QED
      BY <1>2, <2>3, <3>1, ListedConsolidator
  <2>4. ASSUME NEW v \in Vacuums, VacuumStep(v) \/ crash_vacuum(v)
        PROVE  ListedInv' /\ \A x \in vac \ vac' : x.lists \cap dirs = {}
    BY <1>2, <2>4, ListedVacuum
  <2>5. ASSUME NEW r \in Readers, ReaderNext(r)
        PROVE  ListedInv' /\ \A x \in vac \ vac' : x.lists \cap dirs = {}
    <3>1. vac' = vac /\ dirs' = dirs /\ vacuum' = vacuum /\ frags' = frags
      BY <2>5 DEF ReaderNext, array_open_for_reads, array_close_for_reads, Storage, files
    <3>2. Ids' = Ids
      BY <3>1 DEF Ids
    <3> QED
      BY <1>2, <3>1, <3>2, ListedOther DEF ListedInv
  <2> QED
    BY <1>2, <2>1, <2>2, <2>3, <2>4, <2>5 DEF Next
<1>3. ListedInv /\ TypeOK' /\ [Next]_vars =>
        ListedInv' /\ [\A x \in vac \ vac' : x.lists \cap dirs = {}]_vars
  BY <1>2
<1> QED
  BY <1>1, <1>3, TypeCorrect, PTL DEF Spec, VacFilesLast
==============================================================================
