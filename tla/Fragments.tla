------------------------------ MODULE Fragments ------------------------------
(***************************************************************************)
(* The life of the fragments of one array on a shared file system: writers *)
(* create fragments and commit them with an .ok file, consolidators merge  *)
(* runs of them and leave a .vac file that lists what they merged, vacuums *)
(* delete what the .vac files list, readers open the array at a timestamp. *)
(* (query/writer.cc, storage_manager/consolidator.cc,                      *)
(* storage_manager/storage_manager.cc.)                                    *)
(*                                                                         *)
(* Fragments are numbered in the order in which their directories appear.  *)
(* The file lock of the array is implicit: a reader or a consolidator that *)
(* has the array open for reads holds it shared, a vacuum that deletes .ok *)
(* files holds it exclusively (module OpenArrays has the lock itself).     *)
(* Writes take no lock.                                                    *)
(***************************************************************************)
EXTENDS ConsolidationPlan

CONSTANTS
  Consolidators,  \* processes that call tiledb_array_consolidate
  Vacuums,        \* processes that call tiledb_array_vacuum
  Readers,        \* arrays opened for reads
  Dense,          \* whether the array is dense
  WriteCells,     \* the sets of cells a write may cover
  Uuids,          \* the random parts of fragment names, ordered
  Crashes,        \* the kinds of process that may crash
  VacFaults,      \* the ways in which writing a .vac file may fail
  MaxTime,        \* bound on the clock
  MaxWrites,      \* bound on the number of writes
  MaxFragments,   \* bound on the number of fragments, merged ones included
  MaxFaults       \* bound on crashes and failed operations

ASSUME FragmentsAssumption ==
  /\ Dense \in BOOLEAN
  /\ WriteCells \subseteq SUBSET Coords
  /\ Uuids \subseteq Nat
  /\ Crashes \subseteq {"writer", "consolidator", "vacuum"}
  /\ VacFaults \subseteq {"unwritten", "unsynced"}
  /\ MaxTime \in Nat /\ MaxWrites \in Nat /\ MaxFragments \in Nat /\ MaxFaults \in Nat

VARIABLES
  now,       \* the clock that timestamps are taken from
  frags,     \* every fragment ever created, in order of creation
  dirs,      \* the fragments whose directory exists
  oks,       \* the fragments whose .ok file exists
  vac,       \* the .vac files: records [of, lists]
  writing,   \* the fragments whose writer is still at work
  cons,      \* the state of each consolidator
  vacuum,    \* the state of each vacuum
  reader,    \* the state of each reader
  faults,    \* number of crashes and failures so far
  committed, \* history: fragments that were committed and not withdrawn
  doomed,    \* history: fragments that some .vac file has listed
  root       \* history: for each fragment, the one that now stands for it

files == <<frags, dirs, oks, vac>>
history == <<committed, doomed, root>>
vars == <<now, files, writing, cons, vacuum, reader, faults, history>>

\* Compositions of the state that the actions below leave alone.
Storage == <<files, history>>

IdleC == [pc |-> "idle", list |-> <<>>, run |-> NoRun, new |-> 0, step |-> 0]
IdleV == [pc |-> "idle", todo |-> {}, frags |-> {}, vacs |-> {}, err |-> FALSE]
Closed == [open |-> FALSE, at |-> 0, snap |-> {}]

Init ==
  /\ now = 1
  /\ frags = <<>> /\ dirs = {} /\ oks = {} /\ vac = {}
  /\ writing = {}
  /\ cons = [p \in Consolidators |-> IdleC]
  /\ vacuum = [v \in Vacuums |-> IdleV]
  /\ reader = [r \in Readers |-> Closed]
  /\ faults = 0
  /\ committed = {} /\ doomed = {} /\ root = <<>>

-----------------------------------------------------------------------------
(***************************************************************************)
(* Which fragments an open array sees, and in which order.                 *)
(***************************************************************************)
Visible == dirs \cap oks

\* A bug: the first timestamp of a name is compared.
VisibleAt_first(T) == {f \in Visible : frags[f].t[1] <= T}

VisibleAt(T) == {f \in Visible : frags[f].t[2] <= T}

\* The order of the names in a directory listing; the sort on the first
\* timestamp keeps it.
Before(f, g) ==
  LET a == frags[f]  b == frags[g]
  IN  \/ a.t[1] < b.t[1]
      \/ a.t[1] = b.t[1] /\ a.t[2] < b.t[2]
      \/ a.t = b.t /\ a.uuid < b.uuid
      \/ a.t = b.t /\ a.uuid = b.uuid /\ f < g

Rank(S, f) == Cardinality({g \in S : Before(g, f)}) + 1

\* The elements of S in that order.
get_sorted_uris(S) ==
  [i \in 1..Cardinality(S) |->
     CHOOSE f \in S : (\E g \in S : Rank(S, g) = i) => Rank(S, f) = i]

\* What the planner knows of a fragment.  A fragment is as large as it has cells.
FragmentInfo(f) ==
  LET cells == DOMAIN frags[f].data
  IN  [uri |-> f, t |-> frags[f].t, sparse |-> ~Dense, size |-> Cardinality(cells),
       dom |-> <<Min(cells), Max(cells)>>, data |-> frags[f].data]

Infos(list) == [i \in DOMAIN list |-> FragmentInfo(list[i])]

\* The last fragment of a non-empty set in that order.
LastOf(S) == CHOOSE f \in S : \A g \in S : g = f \/ Before(g, f)

\* The value of each cell when the fragments of S are read in order: View of the
\* sorted list.
ReadView(S) ==
  [c \in Coords |->
     LET fs == {f \in S : c \in DOMAIN frags[f].data}
     IN  IF fs = {} THEN Fill ELSE frags[LastOf(fs)].data[c]]

-----------------------------------------------------------------------------
(***************************************************************************)
(* The lock.                                                               *)
(***************************************************************************)
HoldsShared(p) == cons[p].pc \in {"reading", "copied"}

NoExclusive == \A v \in Vacuums : vacuum[v].pc # "oks"

NoShared ==
  /\ \A r \in Readers : ~reader[r].open
  /\ \A p \in Consolidators : ~HoldsShared(p)

-----------------------------------------------------------------------------
(***************************************************************************)
(* Writers.                                                                *)
(***************************************************************************)
NewId == Len(frags) + 1

\* The bound on fragments: every run that is being read will need a number.
Room == NewId + Cardinality({p \in Consolidators : cons[p].pc = "reading"}) <= MaxFragments

IsWrite(f) == frags[f].srcs = {f}

\* The name carries the time at which the fragment is created, not the time at
\* which it is committed.  The clock advances between creations, or not at all
\* when they fall in the same millisecond.
create_fragment(cells, u) ==
  /\ Room
  /\ now' \in {now, now + 1} /\ now' <= MaxTime
  /\ Cardinality({f \in DOMAIN frags : IsWrite(f)}) < MaxWrites
  /\ frags' = Append(frags, [t |-> <<now', now'>>, uuid |-> u, srcs |-> {NewId},
                             data |-> [c \in cells |-> NewId]])
  /\ dirs' = dirs \cup {NewId}
  /\ writing' = writing \cup {NewId}
  /\ root' = Append(root, NewId)
  /\ UNCHANGED <<oks, vac, cons, vacuum, reader, faults, committed, doomed>>

\* The tiles and the metadata are written; touching the .ok file commits.
commit_write(f) ==
  /\ f \in writing
  /\ oks' = oks \cup {f}
  /\ committed' = committed \cup {f}
  /\ writing' = writing \ {f}
  /\ UNCHANGED <<now, frags, dirs, vac, cons, vacuum, reader, faults, doomed, root>>

\* Any error before that removes the directory.
clean_up(f) ==
  /\ f \in writing
  /\ faults < MaxFaults /\ faults' = faults + 1
  /\ dirs' = dirs \ {f}
  /\ writing' = writing \ {f}
  /\ UNCHANGED <<now, frags, oks, vac, cons, vacuum, reader, history>>

crash_write(f) ==
  /\ "writer" \in Crashes
  /\ f \in writing
  /\ faults < MaxFaults /\ faults' = faults + 1
  /\ writing' = writing \ {f}
  /\ UNCHANGED <<now, Storage, cons, vacuum, reader>>

-----------------------------------------------------------------------------
(***************************************************************************)
(* Consolidators.                                                          *)
(***************************************************************************)
SetC(p, c) == cons' = [cons EXCEPT ![p] = c]

\* The fragments of the run that p is merging.
RunOf(p) ==
  {cons[p].list[i] : i \in cons[p].run.start..(cons[p].run.start + cons[p].run.len - 1)}

\* The list is read once, with the array open for reads, and the array is closed
\* again: from here on the list may be stale.
get_fragment_info(p) ==
  /\ cons[p].pc = "idle"
  /\ NoExclusive
  /\ Room
  /\ SetC(p, [IdleC EXCEPT !.pc = "plan", !.list = get_sorted_uris(VisibleAt(now))])
  /\ UNCHANGED <<now, Storage, writing, vacuum, reader, faults>>

\* Choose a run and open the array with exactly those fragments; this fails when
\* the metadata of one of them is gone.
open_run(p) ==
  /\ cons[p].pc = "plan"
  /\ NoExclusive
  /\ Room
  /\ \E run \in Runs(cons[p].list) \cap {compute_next_to_consolidate(Infos(cons[p].list))} :
       LET S == {cons[p].list[i] : i \in run.start..(run.start + run.len - 1)}
       IN  SetC(p, IF S \subseteq dirs
                   THEN [cons[p] EXCEPT !.pc = "reading", !.run = run]
                   ELSE IdleC)
  /\ UNCHANGED <<now, Storage, writing, vacuum, reader, faults>>

nothing_to_consolidate(p) ==
  /\ cons[p].pc = "plan"
  /\ compute_next_to_consolidate(Infos(cons[p].list)) \notin Runs(cons[p].list)
  /\ SetC(p, IdleC)
  /\ UNCHANGED <<now, Storage, writing, vacuum, reader, faults>>

\* Read the run and write the merged fragment.  A vacuum may have removed a
\* directory since: the read then fails.
copy_run(p, u) ==
  /\ cons[p].pc = "reading"
  /\ RunOf(p) \subseteq dirs
  /\ LET infos  == Infos(cons[p].list)
         merged == to_consolidate(infos, cons[p].run)
         union  == union_non_empty_domains(infos, cons[p].run)
     IN  frags' = Append(frags,
                   [t    |-> compute_new_fragment_uri(merged[1], merged[Len(merged)]),
                    uuid |-> u,
                    srcs |-> UNION {frags[f].srcs : f \in RunOf(p)},
                    data |-> copy_array(merged, union)])
  /\ dirs' = dirs \cup {NewId}
  /\ root' = Append(root, NewId)
  /\ SetC(p, [cons[p] EXCEPT !.pc = "copied", !.new = NewId])
  /\ UNCHANGED <<now, oks, vac, writing, vacuum, reader, faults, committed, doomed>>

copy_fails(p) ==
  /\ cons[p].pc = "reading"
  /\ ~(RunOf(p) \subseteq dirs)
  /\ SetC(p, IdleC)
  /\ UNCHANGED <<now, Storage, writing, vacuum, reader, faults>>

\* The lock is released before the merged fragment is committed.
close_reads(p) ==
  /\ cons[p].pc = "copied"
  /\ SetC(p, [cons[p] EXCEPT !.pc = "closed"])
  /\ UNCHANGED <<now, Storage, writing, vacuum, reader, faults>>

\* A bug: the .ok file is forgotten.
finalize_without_ok(p) ==
  /\ cons[p].pc = "closed"
  /\ committed' = committed \cup {cons[p].new}
  /\ SetC(p, [cons[p] EXCEPT !.pc = "finalized"])
  /\ UNCHANGED <<now, frags, dirs, oks, vac, writing, vacuum, reader, faults, doomed, root>>

finalize(p) ==
  /\ cons[p].pc = "closed"
  /\ oks' = oks \cup {cons[p].new}
  /\ committed' = committed \cup {cons[p].new}
  /\ SetC(p, [cons[p] EXCEPT !.pc = "finalized"])
  /\ UNCHANGED <<now, frags, dirs, vac, writing, vacuum, reader, faults, doomed, root>>

finalize_fails(p) ==
  /\ cons[p].pc = "closed"
  /\ faults < MaxFaults /\ faults' = faults + 1
  /\ dirs' = dirs \ {cons[p].new}
  /\ SetC(p, IdleC)
  /\ UNCHANGED <<now, frags, oks, vac, writing, vacuum, reader, history>>

\* From now on new stands for everything that the merged fragments stood for.
Absorb(new, S) ==
  /\ doomed' = doomed \cup S
  /\ root' = [f \in DOMAIN root |-> IF root[f] \in S THEN root[new] ELSE root[f]]

\* A bug: the next step merges the run of the last one.
write_vacuum_file_same_run(p) ==
  /\ cons[p].pc = "finalized"
  /\ LET c == cons[p]
     IN  /\ vac' = vac \cup {[of |-> c.new, lists |-> RunOf(p)]}
         /\ Absorb(c.new, RunOf(p))
         /\ SetC(p, [c EXCEPT !.pc = "reading", !.step = @ + 1, !.new = 0,
                              !.list = ReplaceRun(@, c.run, c.new)])
  /\ UNCHANGED <<now, frags, dirs, oks, writing, vacuum, reader, faults, committed>>

\* A bug: the .vac file names the whole list, not the merged run.
write_vacuum_file_whole_list(p) ==
  /\ cons[p].pc = "finalized"
  /\ LET c == cons[p]
     IN  /\ vac' = vac \cup {[of |-> c.new, lists |-> Range(c.list)]}
         /\ Absorb(c.new, RunOf(p))
         /\ SetC(p, IdleC)
  /\ UNCHANGED <<now, frags, dirs, oks, writing, vacuum, reader, faults, committed>>

\* The .vac file is written, the list is updated and the loop goes on.  It ends
\* with an error when the metadata of the merged fragment cannot be loaded.
write_vacuum_file(p) ==
  /\ cons[p].pc = "finalized"
  /\ LET c == cons[p]
     IN  /\ vac' = vac \cup {[of |-> c.new, lists |-> RunOf(p)]}
         /\ Absorb(c.new, RunOf(p))
         /\ SetC(p, IF c.new \in dirs /\ c.step + 1 < Steps
                    THEN [c EXCEPT !.pc = "plan", !.step = @ + 1, !.run = NoRun,
                                   !.new = 0, !.list = ReplaceRun(@, c.run, c.new)]
                    ELSE IdleC)
  /\ UNCHANGED <<now, frags, dirs, oks, writing, vacuum, reader, faults, committed>>

\* Writing the .vac file fails: the directory of the merged fragment is removed
\* although it is committed, and its .ok file stays.  A failed open leaves no
\* .vac file, a failed fsync leaves one.
write_vacuum_file_fails(p, how) ==
  /\ cons[p].pc = "finalized"
  /\ faults < MaxFaults /\ faults' = faults + 1
  /\ dirs' = dirs \ {cons[p].new}
  /\ committed' = committed \ {cons[p].new}
  /\ \/ how = "unwritten" /\ UNCHANGED <<vac, doomed, root>>
     \/ /\ how = "unsynced"
        /\ vac' = vac \cup {[of |-> cons[p].new, lists |-> RunOf(p)]}
        /\ Absorb(cons[p].new, RunOf(p))
  /\ SetC(p, IdleC)
  /\ UNCHANGED <<now, frags, oks, writing, vacuum, reader>>

crash_consolidate(p) ==
  /\ "consolidator" \in Crashes
  /\ cons[p].pc # "idle"
  /\ faults < MaxFaults /\ faults' = faults + 1
  /\ SetC(p, IdleC)
  /\ UNCHANGED <<now, Storage, writing, vacuum, reader>>

-----------------------------------------------------------------------------
(***************************************************************************)
(* Vacuums.                                                                *)
(***************************************************************************)
SetV(v, s) == vacuum' = [vacuum EXCEPT ![v] = s]

\* The listing is taken before the lock: it may be stale when it is used.
get_uris_to_vacuum(v) ==
  /\ vacuum[v].pc = "idle"
  /\ SetV(v, [IdleV EXCEPT !.pc = "listed", !.vacs = vac,
                           !.frags = dirs \cap UNION {x.lists : x \in vac}])
  /\ UNCHANGED <<now, Storage, writing, cons, reader, faults>>

\* A bug: the lock does not wait for open arrays.
array_xlock_no_wait(v) ==
  /\ vacuum[v].pc = "listed"
  /\ NoExclusive
  /\ SetV(v, [vacuum[v] EXCEPT !.pc = "oks", !.todo = vacuum[v].frags])
  /\ UNCHANGED <<now, Storage, writing, cons, reader, faults>>

array_xlock(v) ==
  /\ vacuum[v].pc = "listed"
  /\ NoShared /\ NoExclusive
  /\ SetV(v, [vacuum[v] EXCEPT !.pc = "oks", !.todo = vacuum[v].frags])
  /\ UNCHANGED <<now, Storage, writing, cons, reader, faults>>

\* Deleting a file or directory that does not exist is an error; the other
\* deletions of the same parallel_for still run.
remove_ok(v, f) ==
  /\ vacuum[v].pc = "oks"
  /\ f \in vacuum[v].todo
  /\ oks' = oks \ {f}
  /\ SetV(v, [vacuum[v] EXCEPT !.todo = @ \ {f}, !.err = @ \/ f \notin oks])
  /\ UNCHANGED <<now, frags, dirs, vac, writing, cons, reader, faults, history>>

\* A bug: the directories are left for another call.
array_xunlock_skips_dirs(v) ==
  /\ vacuum[v].pc = "oks"
  /\ vacuum[v].todo = {}
  /\ SetV(v, IF vacuum[v].err THEN IdleV ELSE [vacuum[v] EXCEPT !.pc = "vacs"])
  /\ UNCHANGED <<now, Storage, writing, cons, reader, faults>>

array_xunlock(v) ==
  /\ vacuum[v].pc = "oks"
  /\ vacuum[v].todo = {}
  /\ SetV(v, IF vacuum[v].err THEN IdleV
             ELSE [vacuum[v] EXCEPT !.pc = "dirs", !.todo = vacuum[v].frags])
  /\ UNCHANGED <<now, Storage, writing, cons, reader, faults>>

remove_dir(v, f) ==
  /\ vacuum[v].pc = "dirs"
  /\ f \in vacuum[v].todo
  /\ dirs' = dirs \ {f}
  /\ SetV(v, [vacuum[v] EXCEPT !.todo = @ \ {f}, !.err = @ \/ f \notin dirs])
  /\ UNCHANGED <<now, frags, oks, vac, writing, cons, reader, faults, history>>

dirs_removed(v) ==
  /\ vacuum[v].pc = "dirs"
  /\ vacuum[v].todo = {}
  /\ SetV(v, IF vacuum[v].err THEN IdleV ELSE [vacuum[v] EXCEPT !.pc = "vacs"])
  /\ UNCHANGED <<now, Storage, writing, cons, reader, faults>>

remove_vac(v, x) ==
  /\ vacuum[v].pc = "vacs"
  /\ x \in vacuum[v].vacs
  /\ vac' = vac \ {x}
  /\ SetV(v, [vacuum[v] EXCEPT !.vacs = @ \ {x}])
  /\ UNCHANGED <<now, frags, dirs, oks, writing, cons, reader, faults, history>>

vacuum_done(v) ==
  /\ vacuum[v].pc = "vacs"
  /\ vacuum[v].vacs = {}
  /\ SetV(v, IdleV)
  /\ UNCHANGED <<now, Storage, writing, cons, reader, faults>>

crash_vacuum(v) ==
  /\ "vacuum" \in Crashes
  /\ vacuum[v].pc # "idle"
  /\ faults < MaxFaults /\ faults' = faults + 1
  /\ SetV(v, IdleV)
  /\ UNCHANGED <<now, Storage, writing, cons, reader>>

-----------------------------------------------------------------------------
(***************************************************************************)
(* Readers.                                                                *)
(***************************************************************************)
array_open_for_reads(r, T) ==
  /\ ~reader[r].open
  /\ NoExclusive
  /\ reader' = [reader EXCEPT ![r] = [open |-> TRUE, at |-> T, snap |-> VisibleAt(T)]]
  /\ UNCHANGED <<now, Storage, writing, cons, vacuum, faults>>

array_close_for_reads(r) ==
  /\ reader[r].open
  /\ reader' = [reader EXCEPT ![r] = Closed]
  /\ UNCHANGED <<now, Storage, writing, cons, vacuum, faults>>

-----------------------------------------------------------------------------
WriterNext ==
  \/ \E cells \in WriteCells, u \in Uuids : create_fragment(cells, u)
  \/ \E f \in writing : commit_write(f) \/ clean_up(f) \/ crash_write(f)

ConsolidatorStep(p) ==
  \/ get_fragment_info(p) \/ open_run(p) \/ nothing_to_consolidate(p)
  \/ \E u \in Uuids : copy_run(p, u)
  \/ copy_fails(p) \/ close_reads(p) \/ finalize(p) \/ write_vacuum_file(p)

ConsolidatorFault(p) ==
  \/ finalize_fails(p)
  \/ \E how \in VacFaults : write_vacuum_file_fails(p, how)
  \/ crash_consolidate(p)

VacuumStep(v) ==
  \/ get_uris_to_vacuum(v) \/ array_xlock(v)
  \/ \E f \in vacuum[v].todo : remove_ok(v, f) \/ remove_dir(v, f)
  \/ array_xunlock(v) \/ dirs_removed(v)
  \/ \E x \in vacuum[v].vacs : remove_vac(v, x)
  \/ vacuum_done(v)

ReaderNext(r) ==
  \/ \E T \in 0..now : array_open_for_reads(r, T)
  \/ array_close_for_reads(r)

Next ==
  \/ WriterNext
  \/ \E p \in Consolidators : ConsolidatorStep(p) \/ ConsolidatorFault(p)
  \/ \E v \in Vacuums : VacuumStep(v) \/ crash_vacuum(v)
  \/ \E r \in Readers : ReaderNext(r)

Spec == Init /\ [][Next]_vars

\* A process that runs goes on, a consolidator that has the array open for reads
\* closes it, and vacuuming is tried again and again; nobody is obliged to write,
\* to consolidate or to open the array.  (Fairness of the exclusive lock is more than
\* fcntl promises; the property below fails even so.)
FairSpec ==
  /\ Spec
  /\ \A v \in Vacuums : WF_vars(VacuumStep(v)) /\ SF_vars(array_xlock(v))
  /\ \A p \in Consolidators : WF_vars(HoldsShared(p) /\ ConsolidatorStep(p))
  /\ \A r \in Readers : WF_vars(array_close_for_reads(r))

-----------------------------------------------------------------------------
(***************************************************************************)
(* Properties.                                                             *)
(***************************************************************************)
Ids == DOMAIN frags

VacFile == [of : Nat, lists : SUBSET Nat]

ConsolidatorState ==
  [pc   : {"idle", "plan", "reading", "copied", "closed", "finalized"},
   list : Seq(Nat), run : [start : Nat, len : Nat], new : Nat, step : Nat]

VacuumState ==
  [pc   : {"idle", "listed", "oks", "dirs", "vacs"},
   todo : SUBSET Nat, frags : SUBSET Nat, vacs : SUBSET VacFile, err : BOOLEAN]

ReaderState == [open : BOOLEAN, at : Nat, snap : SUBSET Nat]

FilesOK ==
  /\ frags \in Seq(Range(frags))
  /\ root \in Seq(Nat) /\ Len(root) = Len(frags)
  /\ dirs \subseteq Ids /\ oks \subseteq Ids /\ writing \subseteq Ids
  /\ committed \subseteq Ids /\ doomed \subseteq Ids
  /\ vac \subseteq VacFile

ConsolidatorsOK ==
  /\ cons \in [Consolidators -> ConsolidatorState]
  /\ \A p \in Consolidators :
       /\ \A i \in DOMAIN cons[p].list : cons[p].list[i] \in Ids
       /\ cons[p].pc \notin {"idle", "plan"} => cons[p].run \in Runs(cons[p].list)
       /\ cons[p].pc \in {"copied", "closed", "finalized"} => cons[p].new \in Ids

\* The state has its type: files, lists and snapshots are about fragments, every
\* process is at one of its control points, and a consolidator that merges has
\* chosen a run of its list.
TypeOK ==
  /\ now \in Nat /\ faults \in Nat
  /\ FilesOK
  /\ ConsolidatorsOK
  /\ vacuum \in [Vacuums -> VacuumState]
  /\ reader \in [Readers -> ReaderState]

\* A committed write is never lost: at every moment, whatever consolidators and
\* vacuums run or crash, some committed fragment on disk holds it, either the
\* write's own or one that was merged from it.
NoWriteLost ==
  \A f \in committed : IsWrite(f) => \E g \in Visible : f \in frags[g].srcs

\* The fragments that a reader opened stay in place until it closes the array: no
\* vacuum removes the .ok file or the directory of one, and none of them was
\* uncommitted when it opened it.  The exception is a merged fragment that its
\* consolidator takes back, without any lock (write_vacuum_file_fails).
SnapshotIntact ==
  \A r \in Readers : reader[r].open =>
    reader[r].snap \subseteq oks /\ reader[r].snap \cap committed \subseteq dirs

\* The writes in commit order of their names, the last one that covers c.
LastWrite(c) ==
  LET ws == {f \in committed : IsWrite(f) /\ c \in DOMAIN frags[f].data}
  IN  IF ws = {} THEN Fill ELSE LastOf(ws)

\* A write that was committed late: its timestamp lies inside the range of a
\* merged fragment that does not contain it.  In a dense array, where merging
\* writes fill values over cells that nobody wrote, an earlier timestamp is late
\* too.
Straggler(f) ==
  /\ f \in committed /\ IsWrite(f)
  /\ \E g \in Ids : /\ ~IsWrite(g)
                    /\ f \notin frags[g].srcs
                    /\ Dense \/ frags[g].t[1] <= frags[f].t[1]
                    /\ frags[f].t[1] <= frags[g].t[2]

\* Opening the array returns for every cell the last committed write, no matter
\* how consolidation and vacuuming interleave with it, as long as no write was
\* committed late into the range of a merged fragment.  Consolidators may die
\* anywhere; a vacuum that dies between two .ok files lets older writes show
\* again, so this is about vacuums that do not.
ReadsLatest ==
  (NoExclusive /\ \A f \in committed : ~Straggler(f)) =>
    ReadView(VisibleAt(now)) = [c \in Coords |-> LastWrite(c)]

\* Opening the array at a timestamp never returns a write with a later one.
NoFutureWrite ==
  (\A f \in committed : ~Straggler(f)) =>
    \A r \in Readers : \A f \in reader[r].snap : \A w \in frags[f].srcs :
      frags[w].t[1] <= reader[r].at

\* A .vac file goes only after every fragment that it lists is off the disk,
\* whatever vacuums overlap, fail or die: what could not be removed stays listed
\* for the next vacuum.
VacFilesLast == [][\A x \in vac \ vac' : x.lists \cap dirs = {}]_vars

\* tiledb_array_vacuum "Cleans up the array, such as consolidated fragments":
\* what a .vac file lists is removed in the end, when vacuuming is repeated.  Two
\* vacuums that overlap violate it (FragmentsVacuumTwice.cfg): one that finds an
\* .ok file gone which it had listed stops before the directories, and from then on
\* every vacuum fails at that .ok file.
VacuumCleansUp ==
  \A f \in 1..MaxFragments :
    (\E x \in vac : f \in x.lists) ~> f \notin dirs
=============================================================================
