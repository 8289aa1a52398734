------------------------ MODULE ArrayMetadataProofs ------------------------
(***************************************************************************)
(* Array metadata, for any number of sessions, consolidators, vacuums and  *)
(* readers, any keys and any crashes.                                      *)
(*                                                                         *)
(* Vacuuming waits for readers: the exclusive lock that a vacuum holds     *)
(* while it deletes files (array_xlock in array_vacuum_array_meta)         *)
(* excludes the shared one of openings for reads and of consolidators.     *)
(* That is LockInv, which is inductive by itself.                          *)
(*                                                                         *)
(* What an array opened at a timestamp shows was put by then.  A file that *)
(* Consolidator::consolidate_array_meta wrote carries the items of all the *)
(* sessions up to the end of its name, so the argument is about which      *)
(* names overlap.  Kept is inductive: a consolidated file starts first     *)
(* (FirstKept), and when one spans a session that is still there, the last *)
(* file it was made from, or what replaced that one, is there as well and  *)
(* starts no earlier (Star).  A consolidator that meets both gives its     *)
(* result a name that ends where the last one ends.                        *)
(***************************************************************************)
EXTENDS ArrayMetadata, FiniteSetTheorems, TLAPS

\* Zenon proves the first-order steps; a step that needs more names SMT.
USE Zenon

-----------------------------------------------------------------------------
(* Vacuuming waits for readers. *)

\* The processes are functions of their identities and a vacuum is a record,
\* which is all of the type that the argument needs.
ProcessesOK ==
  /\ DOMAIN reader = Readers
  /\ DOMAIN cons = Consolidators
  /\ DOMAIN vacuum = Vacuums
  /\ \A v \in Vacuums : DOMAIN vacuum[v] = {"pc", "todo", "vacs", "failed"}

\* While a vacuum deletes files nobody has the array open for reads and no
\* other vacuum deletes.
Exclusion ==
  \A v \in Vacuums : vacuum[v].pc = "files" =>
    /\ \A r \in Readers : reader[r].pc = "idle"
    /\ \A c \in Consolidators : cons[c].pc \notin {"open", "loaded"}
    /\ \A u \in Vacuums : u # v => vacuum[u].pc # "files"

LockInv == ProcessesOK /\ Exclusion

\* No process has the array open, or is deleting files, at first.
LEMMA InitLock == Init => LockInv
  BY SMTT(20) DEF Init, LockInv, ProcessesOK, Exclusion, IdleR, IdleC, IdleV

\* The two conditions of the lock, as the actions test them.
LEMMA Free ==
  /\ SharedFree => \A v \in Vacuums : vacuum[v].pc # "files"
  /\ ExclusiveFree => /\ \A v \in Vacuums : vacuum[v].pc # "files"
                      /\ \A r \in Readers : reader[r].pc = "idle"
                      /\ \A c \in Consolidators : cons[c].pc \notin {"open", "loaded"}
  BY DEF SharedFree, ExclusiveFree, HoldsShared, HoldsExclusive

\* Sessions that write take no lock.
LEMMA WriterLock ==
  ASSUME LockInv, NEW w \in Writers, WriterStep(w)
  PROVE  LockInv' /\ UNCHANGED <<reader, cons, vacuum>>
<1>1. UNCHANGED <<reader, cons, vacuum>>
  BY DEF WriterStep, open_for_writes, close_file, crash_writer, del, put, close_for_writes
<1>2. QED
  BY SMT, <1>1 DEF LockInv, ProcessesOK, Exclusion

\* Opening for reads waits until no vacuum deletes files; an array that is
\* open already may be reopened.
LEMMA ReaderLock ==
  ASSUME LockInv, NEW r \in Readers, ReaderStep(r)
  PROVE  LockInv' /\ UNCHANGED <<files, cons, vacuum>>
<1>1. UNCHANGED <<files, cons, vacuum>>
  BY DEF ReaderStep, open_for_reads, reopen, load_metadata, close_for_reads
<1>2. DOMAIN reader' = Readers
  BY DEF LockInv, ProcessesOK, ReaderStep, open_for_reads, reopen, load_metadata, close_for_reads
<1>3. \/ \A v \in Vacuums : vacuum[v].pc # "files"
      \/ reader[r].pc \in {"open", "loaded"}
  <2>1. ASSUME NEW t \in OpenAt, open_for_reads(r, t)
        PROVE  \A v \in Vacuums : vacuum[v].pc # "files"
    BY <2>1, Free DEF open_for_reads
  <2>2. ASSUME NEW t \in OpenAt, reopen(r, t)
        PROVE  reader[r].pc \in {"open", "loaded"}
    BY <2>2 DEF reopen
  <2>3. load_metadata(r) \/ close_for_reads(r) => reader[r].pc \in {"open", "loaded"}
    BY DEF load_metadata, close_for_reads
  <2>4. QED
    BY <2>1, <2>2, <2>3 DEF ReaderStep
<1>4. \A v \in Vacuums : vacuum[v].pc # "files"
  BY <1>3 DEF LockInv, Exclusion
<1>5. QED
  BY <1>1, <1>2, <1>4 DEF LockInv, ProcessesOK, Exclusion

\* A consolidator opens the array like a reader, and has given up its lock
\* when it stores the file.
LEMMA ConsolidatorLock ==
  ASSUME LockInv, NEW c \in Consolidators, ConsolidatorStep(c)
  PROVE  LockInv' /\ UNCHANGED <<reader, vacuum>>
<1>1. UNCHANGED <<reader, vacuum>>
  BY DEF ConsolidatorStep, consolidate_open, consolidate_load, consolidate_store,
         consolidate_close_file, consolidate_write_vac, crash_consolidator
<1>2. DOMAIN cons' = Consolidators
  <2>1. \A u \in Uuids : consolidate_load(c, u) => DOMAIN cons' = Consolidators
    BY DEF LockInv, ProcessesOK, consolidate_load
  <2>2. QED
    BY <2>1 DEF LockInv, ProcessesOK, ConsolidatorStep, consolidate_open, consolidate_store,
                consolidate_close_file, consolidate_write_vac, crash_consolidator
<1>3. \A d \in Consolidators : d # c => cons'[d] = cons[d]
  <2>1. \A u \in Uuids : consolidate_load(c, u) =>
          \A d \in Consolidators : d # c => cons'[d] = cons[d]
    BY DEF LockInv, ProcessesOK, consolidate_load
  <2>2. QED
    BY <2>1 DEF LockInv, ProcessesOK, ConsolidatorStep, consolidate_open, consolidate_store,
                consolidate_close_file, consolidate_write_vac, crash_consolidator
<1>4. \/ \A v \in Vacuums : vacuum[v].pc # "files"
      \/ cons[c].pc \in {"open", "loaded"}
      \/ cons'[c].pc \in {"idle", "stored"}
  <2>1. consolidate_open(c) => \A v \in Vacuums : vacuum[v].pc # "files"
    BY Free DEF consolidate_open
  <2>2. \A u \in Uuids : consolidate_load(c, u) => cons[c].pc \in {"open", "loaded"}
    BY DEF consolidate_load
  <2>3. consolidate_store(c) => cons[c].pc \in {"open", "loaded"}
    BY DEF consolidate_store
  <2>4. consolidate_close_file(c) => cons'[c].pc = "stored"
    BY SMT DEF consolidate_close_file, LockInv, ProcessesOK
  <2>5. consolidate_write_vac(c) \/ crash_consolidator(c) => cons'[c].pc = "idle"
    BY SMT DEF consolidate_write_vac, crash_consolidator, LockInv, ProcessesOK, IdleC
  <2>6. QED
    BY <2>1, <2>2, <2>3, <2>4, <2>5 DEF ConsolidatorStep
<1>5. ASSUME NEW v \in Vacuums, vacuum[v].pc = "files"
      PROVE  \A d \in Consolidators : cons'[d].pc \notin {"open", "loaded"}
  BY <1>3, <1>4, <1>5 DEF LockInv, Exclusion
<1>6. QED
  BY SMT, <1>1, <1>2, <1>5 DEF LockInv, ProcessesOK, Exclusion

\* Changing the list of .vac files of a vacuum leaves its program counter.
LEMMA ExceptVacs ==
  ASSUME NEW f, "pc" \in DOMAIN f, NEW S
  PROVE  [f EXCEPT !.vacs = S].pc = f.pc
  OBVIOUS

\* A vacuum deletes files only between array_xlock, which waits for everybody
\* else, and array_xunlock; only then do files disappear.
LEMMA VacuumLock ==
  ASSUME LockInv, NEW v \in Vacuums, VacuumStep(v)
  PROVE  /\ LockInv'
         /\ UNCHANGED <<reader, cons>>
         /\ vacuum[v].pc # "files" => UNCHANGED files
<1>1. UNCHANGED <<reader, cons>> /\ (vacuum[v].pc # "files" => UNCHANGED files)
  BY DEF VacuumStep, get_uris_to_vacuum, array_xlock, array_xunlock, crash_vacuum,
         remove_file, remove_vac
<1>2. DOMAIN vacuum' = Vacuums /\ \A u \in Vacuums : u # v => vacuum'[u] = vacuum[u]
  BY DEF LockInv, ProcessesOK, VacuumStep, get_uris_to_vacuum, array_xlock, array_xunlock,
         crash_vacuum, remove_file, remove_vac
<1>3. DOMAIN vacuum'[v] = {"pc", "todo", "vacs", "failed"}
  <2>1. get_uris_to_vacuum(v) => DOMAIN vacuum'[v] = {"pc", "todo", "vacs", "failed"}
    BY DEF get_uris_to_vacuum, LockInv, ProcessesOK
  <2>2. array_xlock(v) => DOMAIN vacuum'[v] = {"pc", "todo", "vacs", "failed"}
    BY DEF array_xlock, LockInv, ProcessesOK
  <2>3. array_xunlock(v) => DOMAIN vacuum'[v] = {"pc", "todo", "vacs", "failed"}
    BY DEF array_xunlock, LockInv, ProcessesOK, IdleV
  <2>4. crash_vacuum(v) => DOMAIN vacuum'[v] = {"pc", "todo", "vacs", "failed"}
    BY DEF crash_vacuum, LockInv, ProcessesOK, IdleV
  <2>5. \A n : remove_file(v, n) => DOMAIN vacuum'[v] = {"pc", "todo", "vacs", "failed"}
    BY DEF remove_file, LockInv, ProcessesOK
  <2>6. \A x : remove_vac(v, x) => DOMAIN vacuum'[v] = {"pc", "todo", "vacs", "failed"}
    BY DEF remove_vac, LockInv, ProcessesOK, IdleV
  <2>7. QED
    BY <2>1, <2>2, <2>3, <2>4, <2>5, <2>6 DEF VacuumStep
<1>4. \/ ExclusiveFree
      \/ vacuum[v].pc = "files"
      \/ vacuum'[v].pc # "files"
  <2>1. get_uris_to_vacuum(v) => vacuum'[v].pc = "listed"
    BY SMT DEF get_uris_to_vacuum, LockInv, ProcessesOK
  <2>2. array_xlock(v) => ExclusiveFree
    BY DEF array_xlock
  <2>3. array_xunlock(v) => vacuum[v].pc = "files"
    BY DEF array_xunlock
  <2>4. crash_vacuum(v) => vacuum'[v].pc = "idle"
    BY SMT DEF crash_vacuum, LockInv, ProcessesOK, IdleV
  <2>5. \A n : remove_file(v, n) => vacuum[v].pc = "files"
    BY DEF remove_file
  <2>6. ASSUME NEW x, remove_vac(v, x)
        PROVE  vacuum'[v].pc # "files"
    <3>1. vacuum'[v] = IdleV \/ vacuum'[v] = [vacuum[v] EXCEPT !.vacs = vacuum[v].vacs \ {x}]
      BY <2>6 DEF remove_vac, LockInv, ProcessesOK
    <3>2. vacuum[v].pc = "vacs"
      BY <2>6 DEF remove_vac
    <3>3. "pc" \in DOMAIN vacuum[v]
      BY DEF LockInv, ProcessesOK
    <3>4. CASE vacuum'[v] = IdleV
      BY SMT, <3>4 DEF IdleV
    <3>5. CASE vacuum'[v] = [vacuum[v] EXCEPT !.vacs = vacuum[v].vacs \ {x}]
      BY <3>5, <3>3, <3>2, ExceptVacs
    <3>6. QED
      BY <3>1, <3>4, <3>5
  <2>7. QED
    BY <2>1, <2>2, <2>3, <2>4, <2>5, <2>6 DEF VacuumStep
<1>5. QED
  BY SMT, <1>1, <1>2, <1>3, <1>4, Free DEF LockInv, ProcessesOK, Exclusion

\* The lock is an invariant of every step.
LEMMA NextLock == LockInv /\ [Next]_vars => LockInv'
<1> SUFFICES ASSUME LockInv, [Next]_vars
             PROVE  LockInv'
  OBVIOUS
<1>1. CASE Tick \/ UNCHANGED vars
  BY SMT, <1>1 DEF Tick, vars, LockInv, ProcessesOK, Exclusion
<1>2. CASE \E w \in Writers : WriterStep(w)
  BY <1>2, WriterLock
<1>3. CASE \E r \in Readers : ReaderStep(r)
  BY <1>3, ReaderLock
<1>4. CASE \E c \in Consolidators : ConsolidatorStep(c)
  BY <1>4, ConsolidatorLock
<1>5. CASE \E v \in Vacuums : VacuumStep(v)
  BY <1>5, VacuumLock
<1>6. QED
  BY <1>1, <1>2, <1>3, <1>4, <1>5 DEF Next

\* Files keep their names when one of them is completed or added.
LEMMA NamesStay ==
  ASSUME NEW f \in files, NEW n, NEW F,
         files' \in {files, files \union F, Complete(n)}
  PROVE  \E g \in files' : g.name = f.name
<1>1. CASE files' \in {files, files \union F}
  BY <1>1
<1>2. CASE files' = Complete(n)
  <2>1. [name |-> f.name, map |-> f.map, whole |-> f.whole \/ f.name = n] \in files'
    BY <1>2 DEF Complete
  <2>2. QED
    BY <2>1
<1>3. QED
  BY <1>1, <1>2

\* Only a vacuum that deletes files makes a name disappear.
LEMMA OnlyVacuumsDelete ==
  ASSUME NEW f \in files, [Next]_vars,
         ~ \E g \in files' : g.name = f.name
  PROVE  \E v \in Vacuums : VacuumStep(v) /\ vacuum[v].pc = "files"
<1>1. files' # files
  OBVIOUS
<1>2. \A n, F : files' \notin {files, files \union F, Complete(n)}
  BY NamesStay
<1>3. ASSUME NEW w \in Writers, WriterStep(w)
      PROVE  FALSE
  <2>1. CASE \/ open_for_writes(w) \/ crash_writer(w)
             \/ \E k \in Keys : del(w, k) \/ \E x \in Values : put(w, k, x)
    BY <1>1, <2>1 DEF open_for_writes, crash_writer, del, put
  <2>2. CASE close_file(w)
    BY <1>2, <2>2 DEF close_file
  <2>3. CASE \E u \in Uuids : close_for_writes(w, u)
    BY <1>1, <1>2, <2>3 DEF close_for_writes
  <2>4. QED
    BY <1>3, <2>1, <2>2, <2>3 DEF WriterStep
<1>4. ASSUME NEW r \in Readers, ReaderStep(r)
      PROVE  FALSE
  BY <1>1, <1>4 DEF ReaderStep, open_for_reads, reopen, load_metadata, close_for_reads
<1>5. ASSUME NEW c \in Consolidators, ConsolidatorStep(c)
      PROVE  FALSE
  <2>1. CASE consolidate_store(c)
    BY <1>1, <1>2, <2>1 DEF consolidate_store
  <2>2. CASE consolidate_close_file(c)
    BY <1>2, <2>2 DEF consolidate_close_file
  <2>3. CASE consolidate_open(c) \/ consolidate_write_vac(c) \/ crash_consolidator(c)
    BY <1>1, <2>3 DEF consolidate_open, consolidate_write_vac, crash_consolidator
  <2>4. CASE \E u \in Uuids : consolidate_load(c, u)
    BY <1>1, <2>4 DEF consolidate_load
  <2>5. QED
    BY <1>5, <2>1, <2>2, <2>3, <2>4 DEF ConsolidatorStep
<1>6. ASSUME NEW v \in Vacuums, VacuumStep(v)
      PROVE  vacuum[v].pc = "files"
  BY <1>1, <1>6 DEF VacuumStep, get_uris_to_vacuum, array_xlock, array_xunlock, crash_vacuum,
                    remove_file, remove_vac
<1>7. ~ (Tick \/ UNCHANGED vars)
  BY <1>1 DEF Tick, vars
<1>8. QED
  BY <1>3, <1>4, <1>5, <1>6, <1>7 DEF Next

\* For any number of processes and any crashes, no metadata file disappears
\* while an array is open for reads and has not loaded its metadata: a vacuum that
\* removes files holds the exclusive lock (array_vacuum_array_meta, array_xlock).
THEOREM VacuumWaits == Spec => ReadersKeepFiles
<1> DEFINE Keeps ==
      \A f \in files :
        (f.whole /\ \E r \in Readers : reader[r].pc = "open" /\ reader'[r].pc = "open")
          => \E g \in files' : g.name = f.name
<1>1. LockInv /\ [Next]_vars => [Keeps]_vars
  <2> SUFFICES ASSUME LockInv, [Next]_vars, NEW f \in files,
                      NEW r \in Readers, reader[r].pc = "open",
                      ~ \E g \in files' : g.name = f.name
               PROVE  FALSE
    OBVIOUS
  <2>1. PICK v \in Vacuums : vacuum[v].pc = "files"
    BY OnlyVacuumsDelete
  <2>2. QED
    BY <2>1 DEF LockInv, Exclusion
<1>2. QED
  BY InitLock, NextLock, <1>1, PTL DEF Spec, ReadersKeepFiles

-----------------------------------------------------------------------------
(* The order of names, and the first and the last file of a finite set. *)

Triples == Nat \X Nat \X Nat

LEMMA TripleFacts ==
  ASSUME NEW n \in Triples
  PROVE  n[1] \in Nat /\ n[2] \in Nat /\ n[3] \in Nat /\ n = <<n[1], n[2], n[3]>>
  BY SMT DEF Triples

\* Names are ordered totally.
LEMMA PrecedesTotal ==
  ASSUME NEW m \in Triples, NEW n \in Triples, m # n
  PROVE  Precedes(m, n) \/ Precedes(n, m)
<1>1. m[1] # n[1] \/ m[2] # n[2] \/ m[3] # n[3]
  BY TripleFacts
<1>2. QED
  BY SMT, <1>1, TripleFacts DEF Precedes

LEMMA PrecedesTransitive ==
  ASSUME NEW m \in Triples, NEW n \in Triples, NEW o \in Triples,
         Precedes(m, n), Precedes(n, o)
  PROVE  Precedes(m, o)
  BY SMT, TripleFacts DEF Precedes

\* Of some subsets of a finite set, one contains no other.
LEMMA SmallestSubset ==
  ASSUME NEW F, IsFiniteSet(F), NEW T \in SUBSET (SUBSET F), T # {}
  PROVE  \E G \in T : \A H \in T : H \subseteq G => H = G
<1>1. IsWellFoundedOn(StrictSubsetOrdering(F), SUBSET F)
  BY FS_StrictSubsetOrderingWellFounded, FS_FiniteSubsetsOfFinite
<1>2. PICK G \in T : \A H \in T : ~ (<<H, G>> \in StrictSubsetOrdering(F))
  BY <1>1, WFMin
<1>3. QED
  BY <1>2 DEF StrictSubsetOrdering

\* Files with different names, as a directory has them.
Named(F) ==
  /\ \A f \in F : f.name \in Triples
  /\ \A f, g \in F : f.name = g.name => f = g

IsLast(f, F) == f \in F /\ \A g \in F \ {f} : Precedes(g.name, f.name)
IsFirst(f, F) == f \in F /\ \A g \in F \ {f} : Precedes(f.name, g.name)

\* One more file is the last one, or the last one stays.
LEMMA LastOfMore ==
  ASSUME NEW F, NEW f \in F, NEW G \in SUBSET F, Named(F), G = {} \/ \E l \in G : IsLast(l, G)
  PROVE  \E l \in G \union {f} : IsLast(l, G \union {f})
<1>1. CASE G = {}
  <2>1. IsLast(f, G \union {f})
    BY <1>1 DEF IsLast
  <2>2. QED
    BY <2>1
<1>2. CASE \E l \in G : IsLast(l, G)
  <2>1. PICK l \in G : IsLast(l, G)
    BY <1>2
  <2>2. CASE l = f
    <3>1. G \union {f} = G
      BY <2>2
    <3>2. QED
      BY <2>1, <3>1
  <2>3. CASE l # f /\ Precedes(f.name, l.name)
    <3>1. IsLast(l, G \union {f})
      BY <2>1, <2>3 DEF IsLast
    <3>2. QED
      BY <3>1
  <2>4. CASE l # f /\ Precedes(l.name, f.name)
    <3>1. ASSUME NEW g \in (G \union {f}) \ {f} PROVE Precedes(g.name, f.name)
      <4>1. g = l \/ Precedes(g.name, l.name)
        BY <2>1 DEF IsLast
      <4>2. QED
        BY <2>4, <4>1, PrecedesTransitive DEF Named
    <3>2. IsLast(f, G \union {f})
      BY <3>1 DEF IsLast
    <3>3. QED
      BY <3>2
  <2>5. QED
    BY <2>1, <2>2, <2>3, <2>4, PrecedesTotal DEF Named
<1>3. QED
  BY <1>1, <1>2

LEMMA FirstOfMore ==
  ASSUME NEW F, NEW f \in F, NEW G \in SUBSET F, Named(F), G = {} \/ \E l \in G : IsFirst(l, G)
  PROVE  \E l \in G \union {f} : IsFirst(l, G \union {f})
<1>1. CASE G = {}
  <2>1. IsFirst(f, G \union {f})
    BY <1>1 DEF IsFirst
  <2>2. QED
    BY <2>1
<1>2. CASE \E l \in G : IsFirst(l, G)
  <2>1. PICK l \in G : IsFirst(l, G)
    BY <1>2
  <2>2. CASE l = f
    <3>1. G \union {f} = G
      BY <2>2
    <3>2. QED
      BY <2>1, <3>1
  <2>3. CASE l # f /\ Precedes(l.name, f.name)
    <3>1. IsFirst(l, G \union {f})
      BY <2>1, <2>3 DEF IsFirst
    <3>2. QED
      BY <3>1
  <2>4. CASE l # f /\ Precedes(f.name, l.name)
    <3>1. ASSUME NEW g \in (G \union {f}) \ {f} PROVE Precedes(f.name, g.name)
      <4>1. g = l \/ Precedes(l.name, g.name)
        BY <2>1 DEF IsFirst
      <4>2. QED
        BY <2>4, <4>1, PrecedesTransitive DEF Named
    <3>2. IsFirst(f, G \union {f})
      BY <3>1 DEF IsFirst
    <3>3. QED
      BY <3>2
  <2>5. QED
    BY <2>1, <2>2, <2>3, <2>4, PrecedesTotal DEF Named
<1>3. QED
  BY <1>1, <1>2

\* A directory that is not empty has a first and a last file.
LEMMA EndsExist ==
  ASSUME NEW F, IsFiniteSet(F), Named(F), F # {}
  PROVE  IsFirst(FirstOf(F), F) /\ IsLast(LastOf(F), F)
<1> DEFINE Fine(G) == (\E l \in G : IsLast(l, G)) /\ (\E l \in G : IsFirst(l, G))
           T == {G \in SUBSET F : G # {} /\ ~Fine(G)}
<1>1. ASSUME T # {} PROVE FALSE
  <2>1. T \in SUBSET (SUBSET F)
    OBVIOUS
  <2>2. PICK G \in T : \A H \in T : H \subseteq G => H = G
    <3> HIDE DEF T
    <3> QED
      BY SMT, <1>1, <2>1, SmallestSubset
  <2>3. PICK f \in G : TRUE
    BY <2>2
  <2> DEFINE H == G \ {f}
  <2>4. H \subseteq G /\ H # G /\ H \in SUBSET F /\ f \in F /\ G = H \union {f}
    BY <2>2, <2>3
  <2>5. H = {} \/ Fine(H)
    BY <2>2, <2>4
  <2> HIDE DEF H
  <2>6. Fine(G)
    BY <2>4, <2>5, LastOfMore, FirstOfMore
  <2>7. QED
    BY <2>2, <2>6
<1>2. Fine(F)
  BY <1>1
<1>3. QED
  BY <1>2 DEF IsFirst, IsLast, FirstOf, LastOf

-----------------------------------------------------------------------------
(* The shape of the state. *)

File == [name : Names, map : Maps, whole : BOOLEAN]
VacFile == [name : Names, lists : SUBSET Names]

WriterState ==
  [pc : {"idle", "open", "storing"}, t : Nat, map : Maps, name : Triples,
   said : Maps]
ReaderState == [pc : {"idle", "open", "loaded"}, at : Nat]
ConsState ==
  [pc : {"idle", "open", "loaded", "storing", "stored"}, at : Nat, map : Maps,
   srcs : SUBSET Names, name : Triples, saw : SUBSET Names]
VacuumState ==
  [pc : {"idle", "listed", "files", "vacs"}, todo : SUBSET Names,
   vacs : SUBSET VacFile, failed : BOOLEAN]

FilesShaped ==
  /\ IsFiniteSet(files) /\ files \subseteq File
  /\ \A f \in files : f.map # NoItems
  /\ \A f, g \in files : f.name = g.name => f = g

WritersShaped ==
  /\ writer \in [Writers -> WriterState]
  /\ \A w \in Writers : /\ writer[w].t \in 0 .. now
                        /\ writer[w].pc = "storing" => writer[w].name \in Names

\* A consolidator that has loaded its files.
Holding == {"loaded", "storing", "stored"}

ConsShaped ==
  /\ cons \in [Consolidators -> ConsState]
  /\ \A c \in Consolidators : /\ cons[c].at \in 0 .. now
                              /\ cons[c].pc \in Holding => cons[c].name \in Names

VacuumsShaped ==
  /\ vacuum \in [Vacuums -> VacuumState]
  /\ \A v \in Vacuums : vacuum[v].vacs # {} \/ vacuum[v] = IdleV

HistoryShaped ==
  /\ stored \subseteq [name : Names, map : Maps, said : Maps]
  /\ merged \subseteq [name : Names, saw : SUBSET Names]

Shapes ==
  /\ now \in 1 .. MaxTime /\ lost \in 0 .. MaxTime + 1
  /\ FilesShaped
  /\ vacs \subseteq VacFile
  /\ WritersShaped
  /\ reader \in [Readers -> ReaderState] /\ \A r \in Readers : reader[r].at \in 0 .. now
  /\ ConsShaped
  /\ VacuumsShaped
  /\ HistoryShaped

LEMMA NamesFacts ==
  /\ Names \subseteq Triples /\ NoName \in Triples
  /\ \A n \in Names : n[1] \in 0 .. MaxTime /\ n[2] \in 0 .. MaxTime /\ n[3] \in Uuids
  /\ \A a, b \in 0 .. MaxTime, u \in Uuids : <<a, b, u>> \in Names
<1>1. MaxTime \in Nat /\ Uuids \subseteq Nat
  BY ArrayMetadataAssumption
<1>2. 0 .. MaxTime \subseteq Nat
  BY SMT, <1>1
<1>3. Names \subseteq Triples
  BY <1>1, <1>2 DEF Names, Triples
<1>4. NoName \in Triples
  BY DEF Triples, NoName
<1>5. \A n \in Names : n[1] \in 0 .. MaxTime /\ n[2] \in 0 .. MaxTime /\ n[3] \in Uuids
  BY DEF Names
<1>6. \A a, b \in 0 .. MaxTime, u \in Uuids : <<a, b, u>> \in Names
  BY DEF Names
<1>7. QED
  BY <1>3, <1>4, <1>5, <1>6

LEMMA BoundFacts == MaxTime \in Nat /\ MaxTime >= 1 /\ Uuids \subseteq Nat /\ OpenAt \subseteq Nat
  BY ArrayMetadataAssumption

\* The items of a session.
LEMMA MapFacts ==
  ASSUME NEW m
  PROVE  m \in Maps <=> /\ DOMAIN m \subseteq Keys
                        /\ m = [k \in DOMAIN m |-> m[k]]
                        /\ \A k \in DOMAIN m : m[k] \in Values \union {Del}
<1>1. ASSUME m \in Maps
      PROVE  /\ DOMAIN m \subseteq Keys
             /\ m = [k \in DOMAIN m |-> m[k]]
             /\ \A k \in DOMAIN m : m[k] \in Values \union {Del}
  <2>1. PICK K \in SUBSET Keys : m \in [K -> Values \union {Del}]
    BY <1>1 DEF Maps
  <2>2. QED
    BY <2>1
<1>2. ASSUME DOMAIN m \subseteq Keys, m = [k \in DOMAIN m |-> m[k]],
             \A k \in DOMAIN m : m[k] \in Values \union {Del}
      PROVE  m \in Maps
  <2>1. m \in [DOMAIN m -> Values \union {Del}]
    BY <1>2
  <2>2. QED
    BY <1>2, <2>1 DEF Maps
<1>3. QED
  BY <1>1, <1>2

LEMMA NoItemsMap == NoItems \in Maps /\ DOMAIN NoItems = {}
<1>1. DOMAIN NoItems = {} /\ NoItems = [k \in DOMAIN NoItems |-> NoItems[k]]
  BY DEF NoItems
<1>2. QED
  BY <1>1, MapFacts

\* A map without items is the empty one.
LEMMA EmptyMap ==
  ASSUME NEW m \in Maps, DOMAIN m = {}
  PROVE  m = NoItems
<1>1. m = [k \in {} |-> m[k]] /\ NoItems = [k \in {} |-> NoItems[k]]
  BY MapFacts DEF NoItems
<1>2. QED
  BY <1>1

LEMMA OverwriteMap ==
  ASSUME NEW m \in Maps, NEW k \in Keys, NEW x \in Values \union {Del}
  PROVE  Overwrite(m, k, x) \in Maps /\ Deleted(m, k) \in Maps
<1>1. ASSUME NEW y \in Values \union {Del} PROVE Overwrite(m, k, y) \in Maps
  <2> DEFINE o == Overwrite(m, k, y)
  <2>1. /\ DOMAIN o = DOMAIN m \union {k} /\ o = [l \in DOMAIN o |-> o[l]]
        /\ \A l \in DOMAIN o : o[l] = IF l = k THEN y ELSE m[l]
    BY DEF Overwrite
  <2>2. DOMAIN m \subseteq Keys /\ \A l \in DOMAIN m : m[l] \in Values \union {Del}
    BY MapFacts
  <2>3. DOMAIN o \subseteq Keys /\ \A l \in DOMAIN o : o[l] \in Values \union {Del}
    BY <2>1, <2>2
  <2> HIDE DEF o
  <2>4. o \in Maps
    BY <2>1, <2>3, MapFacts
  <2>5. QED
    BY <2>4 DEF o
<1>2. Deleted(m, k) \in Maps
  BY <1>1 DEF Deleted
<1>3. QED
  BY <1>1, <1>2

\* Files of a directory have different names.
LEMMA FilesNamed ==
  ASSUME FilesShaped, NEW F \in SUBSET files
  PROVE  IsFiniteSet(F) /\ Named(F)
  BY FS_Subset, NamesFacts DEF FilesShaped, File, Named

\* What loading gives: for each of its keys the item that the last file with
\* that key has.
LEMMA Deserialized ==
  ASSUME FilesShaped, NEW F \in SUBSET files
  PROVE  /\ deserialize(F) \in Maps
         /\ \A k \in DOMAIN deserialize(F) :
              /\ deserialize(F)[k] # Del
              /\ \E f \in F : k \in DOMAIN f.map /\ f.map[k] = deserialize(F)[k]
<1> DEFINE Mentions(k) == {f \in F : k \in DOMAIN f.map}
           Item(k) == LastOf(Mentions(k)).map[k]
           D == {l \in Keys : Mentions(l) # {} /\ Item(l) # Del}
           d == deserialize(F)
<1>1. d = [k \in D |-> Item(k)]
  BY DEF deserialize
<1>2. ASSUME NEW k \in D
      PROVE  \E f \in F : k \in DOMAIN f.map /\ f.map[k] = Item(k)
  <2>1. Mentions(k) \in SUBSET files /\ Mentions(k) # {}
    OBVIOUS
  <2>2. IsLast(LastOf(Mentions(k)), Mentions(k))
    <3> HIDE DEF Mentions
    <3> QED
      BY <2>1, FilesNamed, EndsExist
  <2>3. LastOf(Mentions(k)) \in F /\ k \in DOMAIN LastOf(Mentions(k)).map
    BY <2>2 DEF IsLast
  <2>4. QED
    BY <2>3
<1>3. \A f \in F : f.map \in Maps
  BY DEF FilesShaped, File
<1>4. \A k \in D : k \in Keys /\ Item(k) # Del /\ Item(k) \in Values \union {Del}
  <2>1. ASSUME NEW k \in D PROVE Item(k) \in Values \union {Del}
    <3>1. PICK f \in F : k \in DOMAIN f.map /\ f.map[k] = Item(k)
      BY <1>2
    <3>2. f.map \in Maps
      BY <1>3
    <3> HIDE DEF Item
    <3>3. QED
      BY <3>1, <3>2, MapFacts
  <2>2. QED
    BY <2>1
<1> HIDE DEF Item, D, d
<1>5. DOMAIN d = D /\ \A k \in D : d[k] = Item(k)
  BY <1>1
<1>6. d = [k \in DOMAIN d |-> d[k]] /\ DOMAIN d \subseteq Keys
  BY <1>1, <1>4, <1>5
<1>7. d \in Maps
  BY <1>4, <1>5, <1>6, MapFacts
<1>8. QED
  BY <1>2, <1>4, <1>5, <1>7 DEF d

-----------------------------------------------------------------------------
(* The inductive invariant.  It is about names: of the files that are there, *)
(* of the sessions that were stored, and of what was consolidated.           *)

Present == {f.name : f \in files}
Sessions == {s.name : s \in stored}
Merges == {m.name : m \in merged}
Known == Sessions \union Merges
Real == Present \intersect Known

Clean == ~Late /\ ~Torn

\* No two files that are being written, or about to be, have the same name.
Storing(w) == writer[w].pc = "storing"
Holds(c) == cons[c].pc \in Holding

Apart ==
  /\ \A w, x \in Writers : w # x /\ Storing(w) /\ Storing(x) => writer[w].name # writer[x].name
  /\ \A w \in Writers, c \in Consolidators :
       Storing(w) /\ Holds(c) => writer[w].name # cons[c].name
  /\ \A c, d \in Consolidators : c # d /\ Holds(c) /\ Holds(d) => cons[c].name # cons[d].name

\* A session up to time t has put item x under key k.
Put(k, x, t) == \E s \in stored : s.name[1] <= t /\ k \in DOMAIN s.map /\ s.map[k] = x

\* A file that is complete is known, and holds what sessions have put before it
\* ends.
FileKept(f) ==
  /\ f.whole => f.name \in Known
  /\ f.name \in Sessions => \E s \in stored : s.name = f.name /\ s.map = f.map
  /\ Clean /\ f.name \in Merges => \A k \in DOMAIN f.map : Put(k, f.map[k], f.name[2])

WriterKept(w) ==
  Storing(w) =>
    /\ writer[w].name \notin Known
    /\ writer[w].name[1] = writer[w].t /\ writer[w].name[2] = writer[w].t
    /\ \A f \in files : f.name = writer[w].name => f.map = writer[w].map

\* The sessions that were stored, and those that a consolidation knew.
HistoryKept ==
  /\ Sessions \intersect Merges = {}
  /\ \A n \in Sessions : n[1] = n[2]
  /\ \A n \in Known : n[1] <= n[2] /\ n[2] <= now
  /\ \A m \in merged : m.saw \subseteq Sessions

\* Of two files that overlap, a consolidated one starts first.
FirstKept == ~Late => \A m \in Merges \intersect Present, n \in Real : m[1] <= n[1]

\* A session has been stored that consolidator c covers and does not know.
LateFor(c) == \E n \in Sessions : n[2] <= cons[c].name[2] /\ n \notin cons[c].saw

\* No file starts before those that a consolidator is going to load.
OpenKept(c) ==
  cons[c].pc = "open" =>
    \A n \in Real : n[1] <= cons[c].at => \E m \in Real : m[1] <= n[1] /\ m[2] <= cons[c].at

\* What a consolidator has loaded stays until it has stored the result, and
\* nothing starts before it.
LoadedKept(c) ==
  cons[c].pc = "loaded" =>
    /\ cons[c].name \notin Known \union Present
    /\ cons[c].srcs \subseteq Present
    /\ cons[c].map # NoItems =>
         /\ \E n \in cons[c].srcs : n[1] = cons[c].name[1]
         /\ \E n \in cons[c].srcs : /\ n[2] = cons[c].name[2]
                                    /\ \A m \in cons[c].srcs : m[1] <= n[1]
    /\ LateFor(c) \/ \A n \in Real : cons[c].name[1] <= n[1]
    /\ Clean => \A k \in DOMAIN cons[c].map : Put(k, cons[c].map[k], cons[c].name[2])

\* The sessions that a consolidator knows are among its files as long as these
\* are there, and none of its files ends after the result.
HoldingKept(c) ==
  Holds(c) =>
    /\ cons[c].pc # "loaded" => cons[c].name \in Merges
    /\ cons[c].pc # "loaded" => \E m \in merged : m.name = cons[c].name /\ m.saw = cons[c].saw
    /\ cons[c].saw \subseteq Sessions /\ cons[c].srcs \subseteq Known
    /\ cons[c].name[1] <= cons[c].name[2] /\ cons[c].name[2] <= cons[c].at
    /\ cons[c].saw \intersect Present \subseteq cons[c].srcs
    /\ Clean => \A n \in cons[c].srcs : n[2] <= cons[c].name[2]

ConsKept(c) == OpenKept(c) /\ LoadedKept(c) /\ HoldingKept(c)

\* The same for what a .vac file lists.
VacKept(x) ==
  /\ x.lists \subseteq Known
  /\ \E m \in merged : m.name = x.name /\ m.saw \intersect Present \subseteq x.lists
  /\ Clean => \A n \in x.lists : n[2] <= x.name[2]

\* When a consolidated file of X spans a session of X, the latest file that it
\* was made from, or one that replaced it, is there and starts no earlier.
StarOf(X, M, S) ==
  \A m \in X \intersect M, n \in X \intersect S :
    m[1] < n[1] /\ n[2] < m[2] =>
      \E o \in X \intersect (S \union M) : o[2] = m[2] /\ n[1] <= o[1]

Star(X) == StarOf(X, Merges, Sessions)

Lists(v) == UNION {x.lists : x \in vacuum[v].vacs}

\* A vacuum deletes all that its .vac files list; when it is through, Star holds
\* again, and as long as it has deleted nothing it holds as well.
VacuumKept(v) ==
  /\ \A x \in vacuum[v].vacs : VacKept(x)
  /\ vacuum[v].pc \in {"listed", "files"} =>
       Present \intersect Lists(v) \subseteq vacuum[v].todo /\ vacuum[v].todo \subseteq Lists(v)
  /\ Clean /\ vacuum[v].pc = "files" =>
       /\ Star(Present \ vacuum[v].todo)
       /\ Star(Present) \/ \E x \in vacuum[v].vacs : ~(x.lists \subseteq Present)

StarKept == Clean /\ (\A v \in Vacuums : vacuum[v].pc # "files") => Star(Present)

Kept ==
  /\ Shapes /\ LockInv /\ Apart /\ HistoryKept /\ FirstKept /\ StarKept
  /\ \A f \in files : FileKept(f)
  /\ \A w \in Writers : WriterKept(w)
  /\ \A c \in Consolidators : ConsKept(c)
  /\ \A x \in vacs : VacKept(x)
  /\ \A v \in Vacuums : VacuumKept(v)

-----------------------------------------------------------------------------
(* What a step leaves alone. *)

\* What every step does: histories grow, and a name that was ever used does not
\* come back.
Grows ==
  /\ stored \subseteq stored' /\ merged \subseteq merged'
  /\ Torn => Torn'
  /\ \A n \in Present' \ Present : n \notin Known

LEMMA GrowsFacts ==
  ASSUME Grows
  PROVE  /\ Sessions \subseteq Sessions' /\ Merges \subseteq Merges' /\ Known \subseteq Known'
         /\ (Late => Late') /\ (Clean' => Clean)
         /\ Present' \intersect Known \subseteq Present
         /\ \A k, x, t : Put(k, x, t) => Put(k, x, t)'
<1>1. stored \subseteq stored' /\ merged \subseteq merged' /\ (Torn => Torn')
  BY DEF Grows
<1>2. Sessions \subseteq Sessions' /\ Merges \subseteq Merges'
  BY <1>1 DEF Sessions, Merges
<1>3. Known \subseteq Known'
  BY <1>2 DEF Known
<1>4. Late => Late'
  BY <1>1 DEF Late
<1>5. Clean' => Clean
  BY <1>1, <1>4 DEF Clean
<1>6. Present' \intersect Known \subseteq Present
  BY DEF Grows
<1>7. \A k, x, t : Put(k, x, t) => Put(k, x, t)'
  BY <1>1 DEF Put
<1>8. QED
  BY <1>2, <1>3, <1>4, <1>5, <1>6, <1>7

\* Without late sessions, a consolidation knew those that it covers.
LEMMA OnTime ==
  ASSUME ~Late, NEW n \in Sessions, NEW m \in merged, n[2] <= m.name[2]
  PROVE  n \in m.saw
  BY DEF Late, Sessions

LEMMA OnTimeNext ==
  ASSUME ~Late', NEW n \in Sessions', NEW m \in merged', n[2] <= m.name[2]
  PROVE  n \in m.saw
  BY DEF Late, Sessions

LEMMA KnownNames ==
  ASSUME HistoryShaped
  PROVE  /\ Known \subseteq Names
         /\ \A n \in Known : n[1] \in Nat /\ n[2] \in Nat
<1>1. Known \subseteq Names
  BY DEF HistoryShaped, Known, Sessions, Merges
<1>2. QED
  BY SMT, <1>1, NamesFacts, BoundFacts

LEMMA KnownNamesNext ==
  ASSUME HistoryShaped'
  PROVE  /\ Known' \subseteq Names
         /\ \A n \in Known' : n[1] \in Nat /\ n[2] \in Nat
<1>1. Known' \subseteq Names
  BY DEF HistoryShaped, Known, Sessions, Merges
<1>2. QED
  BY SMT, <1>1, NamesFacts, BoundFacts

LEMMA VacStays ==
  ASSUME HistoryKept, Grows, NEW x, VacKept(x)
  PROVE  VacKept(x)'
<1>1. x.lists \subseteq Known'
  BY GrowsFacts DEF VacKept
<1>2. PICK m \in merged : m.name = x.name /\ m.saw \intersect Present \subseteq x.lists
  BY DEF VacKept
<1>3. m.saw \intersect Present' \subseteq x.lists
  <2>1. m.saw \subseteq Known
    BY DEF HistoryKept, Known
  <2>2. QED
    BY <1>2, <2>1, GrowsFacts
<1>4. m \in merged'
  BY DEF Grows
<1>5. Clean' => \A n \in x.lists : n[2] <= x.name[2]
  BY GrowsFacts DEF VacKept
<1>6. QED
  BY <1>1, <1>2, <1>3, <1>4, <1>5 DEF VacKept

\* A name that a step makes known: of a session, or of a consolidation that
\* starts where some file starts.
Added(n) == (n \in Sessions' \ Sessions) \/ (\E o \in Real : o[1] = n[1])

LEMMA FileStays ==
  ASSUME Kept, Grows, HistoryKept', NEW f \in files,
         f.name \in Known' => f.name \in Known
  PROVE  FileKept(f)'
<1>0. FileKept(f)
  BY DEF Kept
<1>1. f.whole => f.name \in Known'
  BY <1>0, GrowsFacts DEF FileKept
<1>2. f.name \in Sessions' => f.name \in Sessions
  <2>1. Sessions' \intersect Merges' = {}
    BY DEF HistoryKept
  <2>2. QED
    BY <2>1, GrowsFacts DEF Known
<1>3. f.name \in Merges' => f.name \in Merges
  <2>1. Sessions' \intersect Merges' = {}
    BY DEF HistoryKept
  <2>2. QED
    BY <2>1, GrowsFacts DEF Known
<1>4. f.name \in Sessions' => \E s \in stored' : s.name = f.name /\ s.map = f.map
  BY <1>0, <1>2 DEF FileKept, Grows
<1>5. Clean' /\ f.name \in Merges' => \A k \in DOMAIN f.map : Put(k, f.map[k], f.name[2])'
  BY <1>0, <1>3, GrowsFacts DEF FileKept
<1>6. QED
  BY <1>1, <1>4, <1>5 DEF FileKept

LEMMA ConsStays ==
  ASSUME Kept, Grows, HistoryShaped', HistoryKept', NEW d \in Consolidators, cons'[d] = cons[d],
         cons[d].pc \in {"open", "loaded"} => Present \subseteq Present',
         cons[d].pc = "loaded" => cons[d].name \notin Known' \union Present',
         \A n \in Real' \ Real : Added(n)
  PROVE  ConsKept(d)'
<1>0. ConsKept(d) /\ HistoryKept /\ HistoryShaped
  BY DEF Kept, Shapes
<1>1. \A n \in Known' : n[1] \in Nat /\ n[2] \in Nat
  BY KnownNamesNext
<1>2. \A n \in Sessions' : n[1] = n[2]
  BY DEF HistoryKept
<1>3. OpenKept(d)'
  <2> SUFFICES ASSUME cons[d].pc = "open", NEW n \in Real', n[1] <= cons[d].at
               PROVE  \E m \in Real' : m[1] <= n[1] /\ m[2] <= cons[d].at
    BY DEF OpenKept
  <2>1. Real \subseteq Real'
    BY GrowsFacts DEF Real
  <2>2. \A o \in Real : o[1] <= cons[d].at => \E m \in Real : m[1] <= o[1] /\ m[2] <= cons[d].at
    BY <1>0 DEF ConsKept, OpenKept
  <2>3. CASE n \in Real
    BY <2>1, <2>2, <2>3
  <2>4. CASE n \in Sessions'
    BY SMT, <1>1, <1>2, <2>4 DEF Known
  <2>5. CASE \E o \in Real : o[1] = n[1]
    BY <2>1, <2>2, <2>5
  <2>6. QED
    BY <2>3, <2>4, <2>5 DEF Added
<1>4. cons[d].pc \in Holding =>
        /\ cons[d].name[1] \in Nat /\ cons[d].name[2] \in Nat
        /\ cons[d].name[1] <= cons[d].name[2] /\ cons[d].saw \subseteq Sessions
  <2>1. cons[d].pc \in Holding => cons[d].name \in Names
    BY DEF Kept, Shapes, ConsShaped
  <2>2. QED
    BY SMT, <1>0, <2>1, NamesFacts, BoundFacts DEF ConsKept, HoldingKept, Holds
<1>5. LoadedKept(d)'
  <2> SUFFICES ASSUME cons[d].pc = "loaded"
               PROVE  LoadedKept(d)'
    BY DEF LoadedKept
  <2>1. LoadedKept(d) /\ cons'[d].pc = "loaded"
    BY <1>0 DEF ConsKept
  <2>2. cons[d].srcs \subseteq Present'
    BY <2>1 DEF LoadedKept
  <2>3. LateFor(d)' \/ \A n \in Real' : cons[d].name[1] <= n[1]
    <3>1. LateFor(d) => LateFor(d)'
      BY GrowsFacts DEF LateFor
    <3>2. CASE \A n \in Real : cons[d].name[1] <= n[1]
      <4> SUFFICES ASSUME ~LateFor(d)', NEW n \in Real' PROVE cons[d].name[1] <= n[1]
        OBVIOUS
      <4>1. CASE n \in Sessions' \ Sessions
        <5>1. n \notin cons[d].saw
          BY <1>4, <4>1 DEF Holding
        <5>2. ~ (n[2] <= cons[d].name[2])
          BY <4>1, <5>1 DEF LateFor
        <5>3. n[1] = n[2] /\ n[2] \in Nat
          BY <1>1, <1>2, <4>1 DEF Known
        <5>4. QED
          BY SMT, <1>4, <5>2, <5>3 DEF Holding
      <4>2. CASE n \in Real \/ \E o \in Real : o[1] = n[1]
        BY <3>2, <4>2
      <4>3. QED
        BY <4>1, <4>2 DEF Added
    <3>3. QED
      BY <2>1, <3>1, <3>2 DEF LoadedKept
  <2>4. Clean' => \A k \in DOMAIN cons[d].map : Put(k, cons[d].map[k], cons[d].name[2])'
    BY <2>1, GrowsFacts DEF LoadedKept
  <2>5. cons[d].name \notin Known' \union Present'
    OBVIOUS
  <2>6. QED
    BY <2>1, <2>2, <2>3, <2>4, <2>5 DEF LoadedKept
<1>6. HoldingKept(d)'
  <2> SUFFICES ASSUME Holds(d)
               PROVE  HoldingKept(d)'
    BY DEF HoldingKept, Holds
  <2>1. HoldingKept(d)
    BY <1>0 DEF ConsKept
  <2>2. cons[d].saw \intersect Present' \subseteq cons[d].srcs
    <3>1. cons[d].saw \subseteq Known
      BY <2>1 DEF HoldingKept, Known
    <3>2. QED
      BY <2>1, <3>1, GrowsFacts DEF HoldingKept
  <2>3. cons[d].saw \subseteq Sessions' /\ cons[d].srcs \subseteq Known'
    BY <2>1, GrowsFacts DEF HoldingKept
  <2>4. cons[d].pc # "loaded" =>
          /\ cons[d].name \in Merges'
          /\ \E m \in merged' : m.name = cons[d].name /\ m.saw = cons[d].saw
    BY <2>1, GrowsFacts DEF HoldingKept, Grows
  <2>5. Clean' => \A n \in cons[d].srcs : n[2] <= cons[d].name[2]
    BY <2>1, GrowsFacts DEF HoldingKept
  <2>6. QED
    BY <2>1, <2>2, <2>3, <2>4, <2>5 DEF HoldingKept
<1>7. QED
  BY <1>3, <1>5, <1>6 DEF ConsKept

\* Star is about known names; a session that is new to it would be late.
LEMMA StarStays ==
  ASSUME HistoryKept, Grows, merged' = merged, ~Late', HistoryShaped', HistoryKept',
         NEW X, NEW Y, X \subseteq Y, Y \intersect Known \subseteq X,
         StarOf(X, Merges, Sessions)
  PROVE  StarOf(Y, Merges', Sessions')
<1> SUFFICES ASSUME NEW m \in Y \intersect Merges', NEW n \in Y \intersect Sessions',
                    m[1] < n[1], n[2] < m[2]
             PROVE  \E o \in Y \intersect (Sessions' \union Merges') : o[2] = m[2] /\ n[1] <= o[1]
  BY DEF StarOf
<1>1. Merges' = Merges
  BY DEF Merges
<1>2. PICK a \in merged : a.name = m
  BY <1>1 DEF Merges
<1>3. n[2] <= m[2]
  <2>1. n[2] \in Nat /\ m[2] \in Nat
    BY KnownNamesNext DEF Known
  <2>2. QED
    BY SMT, <2>1
<1>4. n \in a.saw
  BY <1>2, <1>3, OnTimeNext
<1>5. n \in Sessions
  BY <1>4 DEF HistoryKept
<1>6. m \in X \intersect Merges /\ n \in X \intersect Sessions
  BY <1>1, <1>5 DEF Known
<1>7. PICK o \in X \intersect (Sessions \union Merges) : o[2] = m[2] /\ n[1] <= o[1]
  BY <1>6 DEF StarOf
<1>8. QED
  BY <1>1, <1>7, GrowsFacts

LEMMA StarKeptStays ==
  ASSUME Kept, Grows, HistoryShaped', HistoryKept', merged' = merged, Present \subseteq Present',
         \A u \in Vacuums : vacuum'[u].pc # "files" => vacuum[u].pc # "files"
  PROVE  StarKept'
<1> SUFFICES ASSUME Clean', \A v \in Vacuums : vacuum'[v].pc # "files"
             PROVE  StarOf(Present', Merges', Sessions')
  BY DEF StarKept, Star
<1>1. StarOf(Present, Merges, Sessions)
  BY GrowsFacts DEF Kept, StarKept, Star
<1>2. Present' \intersect Known \subseteq Present
  BY GrowsFacts
<1>3. HistoryKept /\ ~Late'
  BY DEF Kept, Clean
<1>4. QED
  BY <1>1, <1>2, <1>3, StarStays

LEMMA FirstStays ==
  ASSUME Kept, Grows, HistoryShaped', HistoryKept', merged' = merged,
         \A n \in Real' \ Real : Added(n)
  PROVE  FirstKept'
<1> SUFFICES ASSUME ~Late', NEW m \in Merges' \intersect Present', NEW n \in Real'
             PROVE  m[1] <= n[1]
  BY DEF FirstKept
<1>1. Merges' = Merges
  BY DEF Merges
<1>2. m \in Merges \intersect Present
  BY <1>1, GrowsFacts DEF Known
<1>3. \A o \in Real : m[1] <= o[1]
  BY <1>2, GrowsFacts DEF Kept, FirstKept
<1>4. CASE n \in Sessions' \ Sessions
  <2>1. PICK a \in merged : a.name = m
    BY <1>2 DEF Merges
  <2>2. n \notin a.saw
    BY <1>4 DEF Kept, HistoryKept
  <2>3. ~ (n[2] <= m[2])
    BY <1>4, <2>1, <2>2, OnTimeNext
  <2>4. n[1] = n[2] /\ m[1] <= m[2]
    BY <1>1, <1>2, <1>4 DEF HistoryKept, Known
  <2>5. n[2] \in Nat /\ m[1] \in Nat /\ m[2] \in Nat
    BY <1>1, <1>2, <1>4, KnownNamesNext DEF Known
  <2>6. QED
    BY SMT, <2>3, <2>4, <2>5
<1>5. CASE n \in Real \/ \E o \in Real : o[1] = n[1]
  BY <1>3, <1>5
<1>6. QED
  BY <1>4, <1>5 DEF Added

LEMMA VacuumStays ==
  ASSUME Kept, Grows, HistoryShaped', HistoryKept', NEW u \in Vacuums, vacuum'[u] = vacuum[u],
         vacuum[u].pc = "files" => merged' = merged /\ Present \subseteq Present'
  PROVE  VacuumKept(u)'
<1>0. VacuumKept(u) /\ HistoryKept
  BY DEF Kept
<1>1. \A x \in vacuum[u].vacs : VacKept(x)'
  BY <1>0, VacStays DEF VacuumKept
<1>2. \A x \in vacuum[u].vacs : x.lists \subseteq Known
  BY <1>0 DEF VacuumKept, VacKept
<1>3. Lists(u)' = Lists(u) /\ Lists(u) \subseteq Known
  BY <1>2 DEF Lists
<1>4. vacuum[u].pc \in {"listed", "files"} =>
        Present' \intersect Lists(u) \subseteq vacuum[u].todo /\ vacuum[u].todo \subseteq Lists(u)
  BY <1>0, <1>3, GrowsFacts DEF VacuumKept
<1>5. ASSUME Clean', vacuum[u].pc = "files"
      PROVE  /\ StarOf(Present' \ vacuum[u].todo, Merges', Sessions')
             /\ StarOf(Present', Merges', Sessions') \/ \E x \in vacuum[u].vacs : ~(x.lists \subseteq Present')
  <2>0. Clean /\ ~Late' /\ merged' = merged /\ Present \subseteq Present'
    BY <1>5, GrowsFacts DEF Clean
  <2>1. /\ StarOf(Present \ vacuum[u].todo, Merges, Sessions)
        /\ StarOf(Present, Merges, Sessions) \/ \E x \in vacuum[u].vacs : ~(x.lists \subseteq Present)
    BY <1>0, <1>5, <2>0 DEF VacuumKept, Star
  <2>2. StarOf(Present' \ vacuum[u].todo, Merges', Sessions')
    <3>1. /\ Present \ vacuum[u].todo \subseteq Present' \ vacuum[u].todo
          /\ (Present' \ vacuum[u].todo) \intersect Known \subseteq Present \ vacuum[u].todo
      BY <2>0, GrowsFacts
    <3>2. QED
      BY <1>0, <2>0, <2>1, <3>1, StarStays
  <2>3. StarOf(Present, Merges, Sessions) => StarOf(Present', Merges', Sessions')
    <3>1. Present' \intersect Known \subseteq Present
      BY GrowsFacts
    <3>2. QED
      BY <1>0, <2>0, <3>1, StarStays
  <2>4. \A x \in vacuum[u].vacs : ~(x.lists \subseteq Present) => ~(x.lists \subseteq Present')
    BY <1>2, GrowsFacts
  <2>5. QED
    BY <2>1, <2>2, <2>3, <2>4
<1>6. QED
  BY <1>1, <1>3, <1>4, <1>5 DEF VacuumKept, Star

\* The set of names is that of the files.
LEMMA PresentComplete ==
  ASSUME NEW n
  PROVE  /\ \A f \in Complete(n) : \E g \in files : /\ f.name = g.name /\ f.map = g.map
                                                    /\ f.whole = (g.whole \/ g.name = n)
         /\ \A g \in files : \E f \in Complete(n) : f.name = g.name
         /\ {f.name : f \in Complete(n)} = Present
<1>1. \A f \in Complete(n) : \E g \in files : /\ f.name = g.name /\ f.map = g.map
                                              /\ f.whole = (g.whole \/ g.name = n)
  BY SMT DEF Complete
<1>2. ASSUME NEW g \in files PROVE \E f \in Complete(n) : f.name = g.name
  <2>1. [name |-> g.name, map |-> g.map, whole |-> g.whole \/ g.name = n] \in Complete(n)
    BY DEF Complete
  <2>2. QED
    BY <2>1
<1>3. QED
  BY SMT, <1>1, <1>2 DEF Present

-----------------------------------------------------------------------------
(* Steps that change one process. *)

LEMMA WriterShape ==
  ASSUME WritersShaped, now' = now, NEW w \in Writers, NEW e \in WriterState,
         e.t \in 0 .. now, e.pc = "storing" => e.name \in Names,
         writer' = [writer EXCEPT ![w] = e]
  PROVE  /\ WritersShaped'
         /\ writer'[w] = e /\ \A x \in Writers : x # w => writer'[x] = writer[x]
<1>1. writer' \in [Writers -> WriterState]
  BY DEF WritersShaped
<1>2. writer'[w] = e /\ \A x \in Writers : x # w => writer'[x] = writer[x]
  BY DEF WritersShaped
<1>3. QED
  BY <1>1, <1>2 DEF WritersShaped

LEMMA ConsShape ==
  ASSUME ConsShaped, now' = now, NEW c \in Consolidators, NEW e \in ConsState,
         e.at \in 0 .. now, e.pc \in Holding => e.name \in Names,
         cons' = [cons EXCEPT ![c] = e]
  PROVE  /\ ConsShaped'
         /\ cons'[c] = e /\ \A d \in Consolidators : d # c => cons'[d] = cons[d]
<1>1. cons' \in [Consolidators -> ConsState]
  BY DEF ConsShaped
<1>2. cons'[c] = e /\ \A d \in Consolidators : d # c => cons'[d] = cons[d]
  BY DEF ConsShaped
<1>3. QED
  BY <1>1, <1>2 DEF ConsShaped

LEMMA VacuumShape ==
  ASSUME VacuumsShaped, NEW v \in Vacuums, NEW e \in VacuumState,
         e.vacs # {} \/ e = IdleV,
         vacuum' = [vacuum EXCEPT ![v] = e]
  PROVE  /\ VacuumsShaped'
         /\ vacuum'[v] = e /\ \A u \in Vacuums : u # v => vacuum'[u] = vacuum[u]
<1>1. vacuum' \in [Vacuums -> VacuumState]
  BY DEF VacuumsShaped
<1>2. vacuum'[v] = e /\ \A u \in Vacuums : u # v => vacuum'[u] = vacuum[u]
  BY DEF VacuumsShaped
<1>3. QED
  BY <1>1, <1>2 DEF VacuumsShaped

LEMMA IdleShapes ==
  /\ IdleW \in WriterState /\ IdleW.t = 0 /\ IdleW.pc = "idle"
  /\ IdleC \in ConsState /\ IdleC.at = 0 /\ IdleC.pc = "idle"
  /\ IdleV \in VacuumState /\ IdleV.pc = "idle" /\ IdleV.vacs = {} /\ IdleV.todo = {}
<1>1. IdleW \in WriterState /\ IdleW.t = 0 /\ IdleW.pc = "idle"
  BY NoItemsMap, NamesFacts DEF IdleW, WriterState
<1>2. IdleC \in ConsState /\ IdleC.at = 0 /\ IdleC.pc = "idle"
  BY NoItemsMap, NamesFacts DEF IdleC, ConsState
<1>3. IdleV \in VacuumState /\ IdleV.pc = "idle" /\ IdleV.vacs = {} /\ IdleV.todo = {}
  BY DEF IdleV, VacuumState
<1>4. QED
  BY <1>1, <1>2, <1>3

\* A step that changes neither the files nor the histories.
LEMMA Still ==
  ASSUME Kept, UNCHANGED <<files, stored, merged, lost>>, now <= now', now' \in Nat
  PROVE  /\ Present' = Present /\ Sessions' = Sessions /\ Merges' = Merges
         /\ Known' = Known /\ Real' = Real
         /\ Grows /\ HistoryShaped' /\ HistoryKept' /\ Clean' = Clean
<1>1. /\ Present' = Present /\ Sessions' = Sessions /\ Merges' = Merges
      /\ Known' = Known /\ Real' = Real
  BY DEF Present, Sessions, Merges, Known, Real
<1>2. Torn' = Torn /\ Late' = Late
  BY DEF Torn, Late
<1>3. Grows /\ Clean' = Clean
  BY <1>1, <1>2 DEF Grows, Clean
<1>4. HistoryShaped'
  BY DEF Kept, Shapes, HistoryShaped
<1>5. HistoryKept'
  <2>1. HistoryKept /\ HistoryShaped /\ now \in Nat
    BY SMT, BoundFacts DEF Kept, Shapes
  <2>2. \A n \in Known : n[1] \in Nat /\ n[2] \in Nat
    BY <2>1, KnownNames
  <2>3. \A n \in Known : n[1] <= n[2] /\ n[2] <= now'
    BY SMT, <2>1, <2>2 DEF HistoryKept
  <2>4. QED
    BY <1>1, <2>1, <2>3 DEF HistoryKept
<1>6. QED
  BY <1>1, <1>3, <1>4, <1>5

\* Processes that store what they stored before store it under different names.
LEMMA SameApart ==
  ASSUME Apart, UNCHANGED writer, \A w \in Writers : Storing(w)' <=> Storing(w),
         \A c \in Consolidators : Holds(c)' <=> Holds(c),
         \A c \in Consolidators : cons'[c].name = cons[c].name
  PROVE  Apart'
<1>1. \A w, x \in Writers :
        w # x /\ Storing(w)' /\ Storing(x)' => writer'[w].name # writer'[x].name
  BY DEF Apart
<1>2. \A w \in Writers, c \in Consolidators :
        Storing(w)' /\ Holds(c)' => writer'[w].name # cons'[c].name
  BY DEF Apart
<1>3. \A c, d \in Consolidators :
        c # d /\ Holds(c)' /\ Holds(d)' => cons'[c].name # cons'[d].name
  BY DEF Apart
<1>4. QED
  BY <1>1, <1>2, <1>3 DEF Apart

\* What remains to be shown of a step that neither deletes nor consolidates.
LEMMA StepKept ==
  ASSUME Kept, Shapes', LockInv', Grows, HistoryKept', Apart',
         merged' = merged, vacuum' = vacuum, Present \subseteq Present',
         \A n \in Real' \ Real : Added(n),
         \A f \in files' : FileKept(f)',
         \A w \in Writers : WriterKept(w)',
         \A c \in Consolidators : ConsKept(c)',
         \A x \in vacs' : VacKept(x)'
  PROVE  Kept'
<1>1. HistoryShaped'
  BY DEF Shapes
<1>2. FirstKept'
  BY <1>1, FirstStays
<1>3. StarKept'
  BY <1>1, StarKeptStays
<1>4. \A v \in Vacuums : VacuumKept(v)'
  BY <1>1, VacuumStays
<1>5. QED
  BY <1>2, <1>3, <1>4 DEF Kept

\* The .vac files that are there stay as they should be.
LEMMA VacsStay ==
  ASSUME Kept, Grows
  PROVE  \A x \in vacs : VacKept(x)'
  BY VacStays DEF Kept

\* A step of a session or of the clock that stores nothing.
LEMMA QuietKept ==
  ASSUME Kept, Shapes', LockInv', UNCHANGED <<files, vacs, cons, vacuum, stored, merged, lost>>,
         now <= now',
         \A w \in Writers : Storing(w)' => Storing(w) /\ writer'[w] = writer[w]
  PROVE  Kept'
<1>0. now' \in Nat
  BY SMT, BoundFacts DEF Shapes
<1>1. /\ Present' = Present /\ Sessions' = Sessions /\ Merges' = Merges
      /\ Known' = Known /\ Real' = Real
      /\ Grows /\ HistoryShaped' /\ HistoryKept' /\ Clean' = Clean
  BY <1>0, Still
<1>3. Apart'
  <2>1. \A c \in Consolidators : Holds(c)' <=> Holds(c)
    BY DEF Holds
  <2>2. QED
    BY <2>1 DEF Kept, Apart
<1>4. \A f \in files' : FileKept(f)'
  BY <1>1, FileStays
<1>5. \A w \in Writers : WriterKept(w)'
  BY <1>1 DEF Kept, WriterKept
<1>6. ASSUME NEW d \in Consolidators PROVE ConsKept(d)'
  <2>1. cons[d].pc = "loaded" => cons[d].name \notin Known' \union Present'
    BY <1>1 DEF Kept, ConsKept, LoadedKept
  <2>2. QED
    BY <1>1, <2>1, ConsStays
<1>7. \A x \in vacs' : VacKept(x)'
  BY <1>1, VacsStay
<1>8. QED
  BY <1>1, <1>3, <1>4, <1>5, <1>6, <1>7, StepKept

LEMMA TickKept ==
  ASSUME Kept, LockInv', Tick
  PROVE  Kept'
<1>1. now \in 1 .. MaxTime /\ MaxTime \in Nat
  BY BoundFacts DEF Kept, Shapes
<1>2. now' \in 1 .. MaxTime /\ now <= now' /\ \A i \in 0 .. now : i \in 0 .. now'
  BY SMT, <1>1 DEF Tick
<1>3. UNCHANGED <<files, vacs, writer, reader, cons, vacuum, stored, merged, lost>>
  BY DEF Tick
<1>4. WritersShaped' /\ ConsShaped'
  BY <1>2, <1>3 DEF Kept, Shapes, WritersShaped, ConsShaped
<1>5. FilesShaped' /\ VacuumsShaped' /\ HistoryShaped'
  BY <1>3 DEF Kept, Shapes, FilesShaped, VacuumsShaped, HistoryShaped
<1>6. Shapes'
  BY <1>2, <1>3, <1>4, <1>5 DEF Kept, Shapes
<1>7. QED
  BY <1>2, <1>3, <1>6, QuietKept DEF Storing

LEMMA ReaderKept ==
  ASSUME Kept, LockInv', NEW r \in Readers, ReaderStep(r)
  PROVE  Kept'
<1>1. UNCHANGED <<now, files, vacs, writer, cons, vacuum, stored, merged, lost>>
  BY DEF ReaderStep, open_for_reads, reopen, load_metadata, close_for_reads
<1>2. /\ reader \in [Readers -> ReaderState] /\ now \in Nat
      /\ \A q \in Readers : reader[q].at \in 0 .. now
  BY SMT, BoundFacts DEF Kept, Shapes
<1>3. \E e \in ReaderState : e.at \in 0 .. now /\ reader' = [reader EXCEPT ![r] = e]
  <2>1. ASSUME NEW t \in OpenAt, open_for_reads(r, t) \/ reopen(r, t)
        PROVE  \E e \in ReaderState : e.at \in 0 .. now /\ reader' = [reader EXCEPT ![r] = e]
    <3> DEFINE e == [IdleR EXCEPT !.pc = "open", !.at = t]
    <3>1. t \in Nat /\ t <= now /\ reader' = [reader EXCEPT ![r] = e]
      BY <2>1, BoundFacts DEF open_for_reads, reopen
    <3>2. e \in ReaderState /\ e.at = t
      BY <3>1 DEF IdleR, ReaderState
    <3> HIDE DEF e
    <3>3. e.at \in 0 .. now
      BY SMT, <1>2, <3>1, <3>2
    <3>4. QED
      BY <3>1, <3>2, <3>3
  <2>2. ASSUME load_metadata(r)
        PROVE  \E e \in ReaderState : e.at \in 0 .. now /\ reader' = [reader EXCEPT ![r] = e]
    <3> DEFINE e == [reader[r] EXCEPT !.pc = "loaded"]
    <3>1. reader' = [reader EXCEPT ![r] = e]
      BY <2>2 DEF load_metadata
    <3>2. e \in ReaderState /\ e.at = reader[r].at
      BY <1>2 DEF ReaderState
    <3> HIDE DEF e
    <3>3. QED
      BY <1>2, <3>1, <3>2
  <2>3. ASSUME close_for_reads(r)
        PROVE  \E e \in ReaderState : e.at \in 0 .. now /\ reader' = [reader EXCEPT ![r] = e]
    <3>1. reader' = [reader EXCEPT ![r] = IdleR] /\ IdleR \in ReaderState /\ IdleR.at = 0
      BY <2>3 DEF close_for_reads, IdleR, ReaderState
    <3>2. IdleR.at \in 0 .. now
      BY SMT, <1>2, <3>1
    <3>3. QED
      BY <3>1, <3>2
  <2>4. QED
    BY <2>1, <2>2, <2>3 DEF ReaderStep
<1>4. reader' \in [Readers -> ReaderState] /\ \A q \in Readers : reader'[q].at \in 0 .. now
  BY <1>2, <1>3
<1>5. Shapes'
  BY <1>1, <1>4 DEF Kept, Shapes, FilesShaped, WritersShaped, ConsShaped, VacuumsShaped, HistoryShaped
<1>6. QED
  BY SMTT(20), <1>1, <1>2, <1>5, QuietKept DEF Storing

-----------------------------------------------------------------------------
(* Files that are written and completed. *)

LEMMA FileRecord ==
  ASSUME NEW f \in File
  PROVE  f = [name |-> f.name, map |-> f.map, whole |-> f.whole]
  BY DEF File

\* A file of another name is left as it is.
LEMMA CompleteOthers ==
  ASSUME files \subseteq File, NEW n, NEW f \in Complete(n), f.name # n
  PROVE  f \in files
<1>1. PICK g \in files : f = [name |-> g.name, map |-> g.map, whole |-> g.whole \/ g.name = n]
  BY DEF Complete
<1>2. g.name # n /\ g.whole \in BOOLEAN
  BY <1>1 DEF File
<1>3. (g.whole \/ g.name = n) = g.whole
  BY <1>2
<1>4. f = g
  BY <1>1, <1>3, FileRecord
<1>5. QED
  BY <1>4

LEMMA CompleteShaped ==
  ASSUME FilesShaped, NEW n, files' = Complete(n)
  PROVE  FilesShaped' /\ Present' = Present
<1>0. files \subseteq File
  BY DEF FilesShaped
<1>1. Present' = Present
  BY PresentComplete DEF Present
<1>2. ASSUME NEW f \in files'
      PROVE  f \in File /\ f.map # NoItems
  <2>1. PICK g \in files : f = [name |-> g.name, map |-> g.map, whole |-> g.whole \/ g.name = n]
    BY DEF Complete
  <2>2. g.name \in Names /\ g.map \in Maps /\ g.map # NoItems /\ (g.whole \/ g.name = n) \in BOOLEAN
    BY DEF FilesShaped, File
  <2>3. QED
    BY <2>1, <2>2 DEF File
<1>3. \A f, g \in files' : f.name = g.name => f = g
  <2> SUFFICES ASSUME NEW f \in files', NEW g \in files', f.name = g.name
               PROVE  f = g
    OBVIOUS
  <2>1. PICK a \in files : f = [name |-> a.name, map |-> a.map, whole |-> a.whole \/ a.name = n]
    BY DEF Complete
  <2>2. PICK b \in files : g = [name |-> b.name, map |-> b.map, whole |-> b.whole \/ b.name = n]
    BY DEF Complete
  <2>3. a.name = b.name
    BY <2>1, <2>2
  <2>4. a = b
    BY <2>3 DEF FilesShaped
  <2>5. QED
    BY <2>1, <2>2, <2>4
<1>4. IsFiniteSet(files')
  <2>1. CASE \E g \in files' : g.name = n
    <3>1. PICK g \in files' : g.name = n
      BY <2>1
    <3>2. files' \subseteq files \union {g}
      BY <1>0, <1>3, <3>1, CompleteOthers
    <3>3. IsFiniteSet(files \union {g})
      BY FS_AddElement DEF FilesShaped
    <3>4. QED
      BY <3>2, <3>3, FS_Subset
  <2>2. CASE \A g \in files' : g.name # n
    <3>1. files' \subseteq files
      BY <1>0, <2>2, CompleteOthers
    <3>2. QED
      BY <3>1, FS_Subset DEF FilesShaped
  <2>3. QED
    BY <2>1, <2>2
<1>5. QED
  BY <1>1, <1>2, <1>3, <1>4 DEF FilesShaped

LEMMA AddShaped ==
  ASSUME FilesShaped, NEW f \in File, f.map # NoItems, f.name \notin Present,
         files' = files \union {f}
  PROVE  FilesShaped' /\ Present' = Present \union {f.name}
<1>1. IsFiniteSet(files')
  BY FS_AddElement DEF FilesShaped
<1>2. Present' = Present \union {f.name}
  BY DEF Present
<1>3. \A g \in files : g.name # f.name
  BY DEF Present
<1>4. QED
  BY <1>1, <1>2, <1>3 DEF FilesShaped

\* A name that is new is not that of a file.
LEMMA NewNames ==
  ASSUME NEW n, NEW a, NEW b, NEW u, n = <<a, b, u>>, NewName(a, b, u)
  PROVE  /\ n \notin Known /\ n \notin Present
         /\ \A w \in Writers : writer[w].name # n
         /\ \A c \in Consolidators : cons[c].name # n
  BY DEF NewName, Known, Sessions, Merges, Present

-----------------------------------------------------------------------------
(* Sessions that write. *)

\* What a session does before it stores, and what is left when it dies.
LEMMA OpenWriterKept ==
  ASSUME Kept, LockInv', NEW w \in Writers, NEW e \in WriterState,
         UNCHANGED <<now, files, vacs, reader, cons, vacuum, stored, merged, lost>>,
         e.pc # "storing", e.t \in 0 .. now,
         writer' = [writer EXCEPT ![w] = e]
  PROVE  Kept'
<1>1. WritersShaped
  BY DEF Kept, Shapes
<1>2. /\ WritersShaped'
      /\ writer'[w] = e /\ \A x \in Writers : x # w => writer'[x] = writer[x]
  BY <1>1, WriterShape
<1>3. Shapes'
  BY <1>2 DEF Kept, Shapes, FilesShaped, ConsShaped, VacuumsShaped, HistoryShaped
<1>4. now <= now'
  BY SMT, BoundFacts DEF Kept, Shapes
<1>5. QED
  BY <1>2, <1>3, <1>4, QuietKept DEF Storing

\* The file of a session is there, and belongs to the session.
LEMMA StartStoringKept ==
  ASSUME Kept, LockInv', NEW w \in Writers, NEW u \in Uuids, close_for_writes(w, u),
         writer[w].map # NoItems
  PROVE  Kept'
<1> DEFINE t == writer[w].t
           n == <<t, t, u>>
           F == [name |-> n, map |-> writer[w].map, whole |-> FALSE]
           e == [writer[w] EXCEPT !.pc = "storing", !.name = n]
<1>1. /\ writer[w].pc = "open" /\ NewName(t, t, u)
      /\ writer' = [writer EXCEPT ![w] = e] /\ files' = files \union {F}
      /\ UNCHANGED <<now, vacs, reader, cons, vacuum, stored, merged, lost>>
  BY DEF close_for_writes
<1>2. writer[w] \in WriterState /\ t \in 0 .. now /\ now \in 1 .. MaxTime /\ WritersShaped
  BY DEF Kept, Shapes, WritersShaped
<1>3. n \in Names /\ n[1] = t /\ n[2] = t
  <2>1. t \in 0 .. MaxTime
    BY SMT, <1>2, BoundFacts
  <2>2. QED
    BY <2>1, NamesFacts
<1>4. /\ e \in WriterState /\ e.t = t /\ e.pc = "storing" /\ e.name = n /\ e.map = writer[w].map
  BY <1>2, <1>3, NamesFacts DEF WriterState
<1>5. F \in File /\ F.map = writer[w].map /\ F.name = n /\ F.whole = FALSE
  BY <1>2, <1>3 DEF WriterState, File
<1> HIDE DEF e, F
<1>6. /\ n \notin Known /\ n \notin Present
      /\ \A x \in Writers : writer[x].name # n
      /\ \A c \in Consolidators : cons[c].name # n
  BY <1>1, NewNames
<1> HIDE DEF n
<1>7. /\ WritersShaped'
      /\ writer'[w] = e /\ \A x \in Writers : x # w => writer'[x] = writer[x]
  BY <1>1, <1>2, <1>3, <1>4, WriterShape
<1>8. FilesShaped' /\ Present' = Present \union {n}
  BY <1>1, <1>5, <1>6, AddShaped DEF Kept, Shapes
<1>9. Shapes'
  BY <1>1, <1>7, <1>8 DEF Kept, Shapes, ConsShaped, VacuumsShaped, HistoryShaped
<1>10. Sessions' = Sessions /\ Merges' = Merges /\ Known' = Known /\ Late' = Late /\ Torn' = Torn
  BY <1>1 DEF Sessions, Merges, Known, Late, Torn
<1>11. Grows /\ Real' = Real /\ Present \subseteq Present'
  BY <1>1, <1>6, <1>8, <1>10 DEF Grows, Real
<1>12. HistoryKept'
  BY <1>1, <1>10 DEF Kept, HistoryKept
<1>13. Apart'
  <2>1. \A c \in Consolidators : Holds(c)' <=> Holds(c)
    BY <1>1 DEF Holds
  <2>2. \A x \in Writers : x # w => (Storing(x)' <=> Storing(x))
    BY <1>7 DEF Storing
  <2>3. QED
    BY SMTT(20), <1>1, <1>4, <1>6, <1>7, <2>1, <2>2 DEF Kept, Apart
<1>14. ASSUME NEW f \in files' PROVE FileKept(f)'
  <2>1. CASE f = F
    <3>1. n \notin Sessions' /\ n \notin Merges'
      BY <1>6, <1>10 DEF Known
    <3>2. QED
      BY <1>5, <2>1, <3>1 DEF FileKept
  <2>2. CASE f \in files
    BY <1>10, <1>11, <1>12, <2>2, FileStays
  <2>3. QED
    BY <1>1, <2>1, <2>2
<1>15. ASSUME NEW x \in Writers PROVE WriterKept(x)'
  <2>1. CASE x = w
    <3>1. \A f \in files' : f.name = n => f = F
      BY <1>1, <1>6 DEF Present
    <3>2. QED
      BY <1>3, <1>4, <1>5, <1>6, <1>7, <1>10, <2>1, <3>1 DEF WriterKept
  <2>2. CASE x # w
    <3>1. WriterKept(x) /\ (Storing(x)' <=> Storing(x)) /\ writer'[x] = writer[x]
      BY <1>7, <2>2 DEF Kept, Storing
    <3>2. \A f \in files' : f.name = writer[x].name => f \in files
      BY <1>1, <1>5, <1>6
    <3>3. QED
      BY <1>10, <3>1, <3>2 DEF WriterKept
  <2>3. QED
    BY <2>1, <2>2
<1>16. ASSUME NEW d \in Consolidators PROVE ConsKept(d)'
  <2>1. cons[d].pc = "loaded" => cons[d].name \notin Known' \union Present'
    BY <1>6, <1>8, <1>10 DEF Kept, ConsKept, LoadedKept
  <2>2. HistoryShaped' /\ cons'[d] = cons[d]
    BY <1>1, <1>9 DEF Shapes
  <2>3. QED
    BY <1>11, <1>12, <2>1, <2>2, ConsStays
<1>17. \A x \in vacs' : VacKept(x)'
  BY <1>1, <1>11, VacsStay
<1>18. QED
  BY <1>1, <1>9, <1>11, <1>12, <1>13, <1>14, <1>15, <1>16, <1>17, StepKept

\* The file of a session is complete, and the session is stored.
LEMMA CloseFileKept ==
  ASSUME Kept, LockInv', NEW w \in Writers, close_file(w)
  PROVE  Kept'
<1> DEFINE n == writer[w].name
           s == [name |-> n, map |-> writer[w].map, said |-> writer[w].said]
<1>1. /\ Storing(w) /\ files' = Complete(n) /\ stored' = stored \union {s}
      /\ writer' = [writer EXCEPT ![w] = IdleW]
      /\ UNCHANGED <<now, vacs, reader, cons, vacuum, merged, lost>>
  BY DEF close_file, Storing
<1>2. /\ writer[w] \in WriterState /\ n \in Names /\ writer[w].t \in 0 .. now
      /\ now \in Nat /\ WritersShaped /\ FilesShaped
  BY SMT, <1>1, BoundFacts DEF Kept, Shapes, WritersShaped, Storing
<1>3. /\ n \notin Known /\ n[1] = writer[w].t /\ n[2] = writer[w].t
      /\ \A f \in files : f.name = n => f.map = writer[w].map
  BY <1>1 DEF Kept, WriterKept
<1>4. s.name = n /\ s.map = writer[w].map /\ s \in [name : Names, map : Maps, said : Maps]
  BY <1>2 DEF WriterState
<1> HIDE DEF n, s
<1>5. /\ WritersShaped'
      /\ writer'[w] = IdleW /\ \A x \in Writers : x # w => writer'[x] = writer[x]
  <2>1. IdleW.t \in 0 .. now
    BY SMT, <1>2, IdleShapes
  <2>2. QED
    BY <1>1, <1>2, <2>1, IdleShapes, WriterShape
<1>6. FilesShaped' /\ Present' = Present
  BY <1>1, <1>2, CompleteShaped
<1>7. HistoryShaped'
  BY <1>1, <1>4 DEF Kept, Shapes, HistoryShaped
<1>8. Shapes'
  BY <1>1, <1>5, <1>6, <1>7 DEF Kept, Shapes, ConsShaped, VacuumsShaped
<1>9. Sessions' = Sessions \union {n} /\ Merges' = Merges /\ Torn' = Torn
  BY <1>1, <1>4 DEF Sessions, Merges, Torn
<1>10. Known' = Known \union {n}
  BY <1>9 DEF Known
<1>11. Grows
  BY <1>1, <1>6, <1>9 DEF Grows
<1>12. \A o \in Real' \ Real : Added(o)
  BY <1>3, <1>6, <1>9, <1>10 DEF Real, Added, Known
<1>13. HistoryKept'
  <2>1. HistoryKept
    BY DEF Kept
  <2>2. n \notin Merges /\ n[1] = n[2] /\ n[1] <= n[2] /\ n[2] <= now
    BY SMT, <1>2, <1>3 DEF Known
  <2>3. \A m \in merged : m.saw \subseteq Sessions'
    BY <1>9, <2>1 DEF HistoryKept
  <2>4. QED
    BY <1>1, <1>9, <1>10, <2>1, <2>2, <2>3 DEF HistoryKept
<1>14. ~Storing(w)' /\ \A x \in Writers : x # w => (Storing(x)' <=> Storing(x))
  BY <1>5, IdleShapes DEF Storing
<1>15. Apart'
  <2>1. \A c \in Consolidators : Holds(c)' <=> Holds(c)
    BY <1>1 DEF Holds
  <2>2. QED
    BY SMTT(20), <1>1, <1>5, <1>14, <2>1 DEF Kept, Apart
<1>16. ASSUME NEW f \in files' PROVE FileKept(f)'
  <2>1. CASE f.name = n
    <3>1. PICK g \in files : f.name = g.name /\ f.map = g.map /\ f.whole = (g.whole \/ g.name = n)
      BY SMT, <1>1, PresentComplete
    <3>2. f.whole /\ f.map = writer[w].map
      BY <1>3, <2>1, <3>1
    <3>3. n \notin Merges' /\ n \in Known' /\ s \in stored'
      BY <1>1, <1>3, <1>9, <1>10 DEF Known
    <3>4. QED
      BY <1>4, <2>1, <3>2, <3>3 DEF FileKept
  <2>2. CASE f.name # n
    <3>1. f \in files
      BY <1>1, <1>2, <2>2, CompleteOthers DEF FilesShaped
    <3>2. QED
      BY <1>10, <1>11, <1>13, <2>2, <3>1, FileStays
  <2>3. QED
    BY <2>1, <2>2
<1>17. ASSUME NEW x \in Writers PROVE WriterKept(x)'
  <2> SUFFICES ASSUME Storing(x)' PROVE WriterKept(x)'
    BY DEF WriterKept
  <2>1. x # w /\ Storing(x) /\ writer'[x] = writer[x] /\ WriterKept(x)
    BY <1>5, <1>14 DEF Kept
  <2>2. writer[x].name # n
    BY <1>1, <2>1 DEF Kept, Apart, n
  <2>3. \A f \in files' : f.name = writer[x].name => f \in files
    BY <1>1, <1>2, <2>2, CompleteOthers DEF FilesShaped
  <2>4. QED
    BY <1>10, <2>1, <2>2, <2>3 DEF WriterKept
<1>18. ASSUME NEW d \in Consolidators PROVE ConsKept(d)'
  <2>1. cons[d].pc = "loaded" => cons[d].name # n
    BY <1>1 DEF Kept, Apart, Holds, Holding, n
  <2>2. cons[d].pc = "loaded" => cons[d].name \notin Known' \union Present'
    BY <1>6, <1>10, <2>1 DEF Kept, ConsKept, LoadedKept
  <2>3. QED
    BY <1>1, <1>6, <1>7, <1>11, <1>12, <1>13, <2>2, ConsStays
<1>19. \A x \in vacs' : VacKept(x)'
  BY <1>1, <1>11, VacsStay
<1>20. QED
  BY <1>1, <1>6, <1>8, <1>11, <1>12, <1>13, <1>15, <1>16, <1>17, <1>18, <1>19, StepKept

LEMMA WriterStepKept ==
  ASSUME Kept, LockInv', NEW w \in Writers, WriterStep(w)
  PROVE  Kept'
<1>1. writer[w] \in WriterState /\ writer[w].t \in 0 .. now /\ now \in Nat
  BY SMT, BoundFacts DEF Kept, Shapes, WritersShaped
<1>2. CASE open_for_writes(w)
  <2> DEFINE e == [IdleW EXCEPT !.pc = "open", !.t = now]
  <2>1. e \in WriterState /\ e.pc = "open" /\ e.t = now
    BY <1>1, IdleShapes DEF WriterState
  <2>2. writer' = [writer EXCEPT ![w] = e] /\ writer[w].pc = "idle"
    BY <1>2 DEF open_for_writes
  <2>3. UNCHANGED <<now, files, vacs, reader, cons, vacuum, stored, merged, lost>>
    BY <1>2 DEF open_for_writes
  <2> HIDE DEF e
  <2>4. e.t \in 0 .. now
    BY SMT, <1>1, <2>1
  <2>5. QED
    BY <2>1, <2>2, <2>3, <2>4, OpenWriterKept
<1>3. ASSUME NEW m \in Maps, NEW l \in Maps, writer[w].pc = "open",
             writer' = [writer EXCEPT ![w].map = m, ![w].said = l],
             UNCHANGED <<now, files, vacs, reader, cons, vacuum, stored, merged, lost>>
      PROVE  Kept'
  <2> DEFINE e == [writer[w] EXCEPT !.map = m, !.said = l]
  <2>1. e \in WriterState /\ e.pc = "open" /\ e.t = writer[w].t
    BY <1>1, <1>3 DEF WriterState
  <2>2. writer' = [writer EXCEPT ![w] = e]
    BY <1>3
  <2> HIDE DEF e
  <2>3. QED
    BY <1>1, <1>3, <2>1, <2>2, OpenWriterKept
<1>4. writer[w].map \in Maps /\ writer[w].said \in Maps
  BY <1>1 DEF WriterState
<1>5. ASSUME NEW k \in Keys, del(w, k) PROVE Kept'
  <2>1. Deleted(writer[w].map, k) \in Maps /\ Overwrite(writer[w].said, k, Del) \in Maps
    BY <1>4, OverwriteMap
  <2>2. QED
    BY <1>3, <1>5, <2>1 DEF del
<1>6. ASSUME NEW k \in Keys, NEW x \in Values, put(w, k, x) PROVE Kept'
  <2>1. Overwrite(writer[w].map, k, x) \in Maps /\ Overwrite(writer[w].said, k, x) \in Maps
    BY <1>4, OverwriteMap
  <2>2. QED
    BY <1>3, <1>6, <2>1 DEF put
<1>7. ASSUME NEW u \in Uuids, close_for_writes(w, u) PROVE Kept'
  <2>1. CASE writer[w].map = NoItems
    <3>1. /\ writer' = [writer EXCEPT ![w] = IdleW] /\ writer[w].pc = "open"
          /\ UNCHANGED <<now, files, vacs, reader, cons, vacuum, stored, merged, lost>>
      BY <1>7, <2>1 DEF close_for_writes
    <3>2. IdleW.t \in 0 .. now
      BY SMT, <1>1, IdleShapes
    <3>3. QED
      BY <3>1, <3>2, IdleShapes, OpenWriterKept
  <2>2. CASE writer[w].map # NoItems
    BY <1>7, <2>2, StartStoringKept
  <2>3. QED
    BY <2>1, <2>2
<1>8. CASE crash_writer(w)
  <2>1. /\ writer' = [writer EXCEPT ![w] = IdleW]
        /\ UNCHANGED <<now, files, vacs, reader, cons, vacuum, stored, merged, lost>>
    BY <1>8 DEF crash_writer
  <2>2. IdleW.t \in 0 .. now
    BY SMT, <1>1, IdleShapes
  <2>3. QED
    BY <2>1, <2>2, IdleShapes, OpenWriterKept
<1>9. QED
  BY <1>2, <1>5, <1>6, <1>7, <1>8, CloseFileKept DEF WriterStep

-----------------------------------------------------------------------------
(* Consolidation. *)

\* A step of a consolidator that changes neither the files nor the histories.
LEMMA ConsStillKept ==
  ASSUME Kept, LockInv', NEW c \in Consolidators, NEW e \in ConsState,
         e.at \in 0 .. now, e.pc \in Holding => e.name \in Names,
         cons' = [cons EXCEPT ![c] = e],
         UNCHANGED <<now, files, writer, reader, vacuum, stored, merged, lost>>,
         e.pc \in Holding => /\ \A w \in Writers : writer[w].name # e.name
                             /\ \A d \in Consolidators : cons[d].name # e.name,
         vacs' \subseteq VacFile, \A x \in vacs' : VacKept(x)',
         ConsKept(c)'
  PROVE  Kept'
<1>0. now' \in Nat /\ now <= now' /\ ConsShaped
  BY SMT, BoundFacts DEF Kept, Shapes
<1>1. /\ Present' = Present /\ Sessions' = Sessions /\ Merges' = Merges
      /\ Known' = Known /\ Real' = Real
      /\ Grows /\ HistoryShaped' /\ HistoryKept' /\ Clean' = Clean
  BY <1>0, Still
<1>2. /\ ConsShaped'
      /\ cons'[c] = e /\ \A d \in Consolidators : d # c => cons'[d] = cons[d]
  BY <1>0, ConsShape
<1>3. Shapes'
  BY <1>1, <1>2 DEF Kept, Shapes, FilesShaped, WritersShaped, VacuumsShaped
<1>4. \A w \in Writers : Storing(w)' <=> Storing(w)
  BY DEF Storing
<1>5. Apart'
  <2>1. \A d \in Consolidators : d # c => (Holds(d)' <=> Holds(d))
    BY <1>2 DEF Holds
  <2>2. Holds(c)' <=> e.pc \in Holding
    BY <1>2 DEF Holds
  <2>3. QED
    BY SMTT(20), <1>2, <1>4, <2>1, <2>2 DEF Kept, Apart
<1>6. \A f \in files' : FileKept(f)'
  BY <1>1, FileStays
<1>7. \A w \in Writers : WriterKept(w)'
  BY <1>1, <1>4 DEF Kept, WriterKept
<1>8. ASSUME NEW d \in Consolidators PROVE ConsKept(d)'
  <2>1. cons[d].pc = "loaded" => cons[d].name \notin Known' \union Present'
    BY <1>1 DEF Kept, ConsKept, LoadedKept
  <2>2. d # c => ConsKept(d)'
    BY <1>1, <1>2, <2>1, ConsStays
  <2>3. QED
    BY <2>2
<1>9. QED
  BY <1>1, <1>3, <1>5, <1>6, <1>7, <1>8, StepKept

LEMMA IdleConsKept ==
  ASSUME NEW c, cons'[c] = IdleC
  PROVE  ConsKept(c)'
  BY IdleShapes DEF ConsKept, OpenKept, LoadedKept, HoldingKept, Holds, Holding

\* Everything that a consolidator holds is given up.
LEMMA ConsIdleKept ==
  ASSUME Kept, LockInv', NEW c \in Consolidators,
         cons' = [cons EXCEPT ![c] = IdleC],
         UNCHANGED <<now, files, writer, reader, vacuum, stored, merged, lost>>,
         vacs' \subseteq VacFile, \A x \in vacs' : VacKept(x)'
  PROVE  Kept'
<1>1. IdleC \in ConsState /\ IdleC.pc \notin Holding /\ IdleC.at = 0
  BY IdleShapes DEF Holding
<1>2. IdleC.at \in 0 .. now
  BY SMT, <1>1, BoundFacts DEF Kept, Shapes
<1>3. cons'[c] = IdleC
  BY DEF Kept, Shapes, ConsShaped
<1>4. ConsKept(c)'
  BY <1>3, IdleConsKept
<1>5. QED
  BY <1>1, <1>2, <1>4, ConsStillKept

LEMMA ConsOpenKept ==
  ASSUME Kept, LockInv', NEW c \in Consolidators, consolidate_open(c)
  PROVE  Kept'
<1> DEFINE e == [cons[c] EXCEPT !.pc = "open", !.at = now]
<1>1. /\ cons[c].pc = "idle" /\ cons' = [cons EXCEPT ![c] = e]
      /\ UNCHANGED <<now, files, vacs, writer, reader, vacuum, stored, merged, lost>>
  BY DEF consolidate_open
<1>2. cons[c] \in ConsState /\ now \in Nat /\ vacs \subseteq VacFile /\ ConsShaped
  BY SMT, BoundFacts DEF Kept, Shapes, ConsShaped
<1>3. e \in ConsState /\ e.pc = "open" /\ e.at = now
  BY <1>2 DEF ConsState
<1> HIDE DEF e
<1>4. now <= now' /\ now' \in Nat /\ e.at \in 0 .. now
  BY SMTT(20), <1>1, <1>2, <1>3
<1>5. /\ Real' = Real /\ Grows
  BY <1>1, <1>4, Still
<1>6. cons'[c] = e
  BY <1>1, <1>2 DEF ConsShaped
<1>7. ConsKept(c)'
  <2>1. \A n \in Real : n[2] <= now /\ n[1] \in Nat
    BY KnownNames DEF Kept, Shapes, HistoryKept, Real
  <2>2. OpenKept(c)'
    BY SMTT(20), <1>3, <1>5, <1>6, <2>1 DEF OpenKept
  <2>3. LoadedKept(c)' /\ HoldingKept(c)'
    BY <1>3, <1>6 DEF LoadedKept, HoldingKept, Holds, Holding
  <2>4. QED
    BY <2>2, <2>3 DEF ConsKept
<1>8. \A x \in vacs' : VacKept(x)'
  BY <1>1, <1>5, VacsStay
<1>9. e.pc \notin Holding
  BY <1>3 DEF Holding
<1>10. QED
  BY <1>1, <1>2, <1>3, <1>4, <1>7, <1>8, <1>9, ConsStillKept

LEMMA ConsVacKept ==
  ASSUME Kept, LockInv', NEW c \in Consolidators, consolidate_write_vac(c)
  PROVE  Kept'
<1> DEFINE y == [name |-> cons[c].name, lists |-> cons[c].srcs]
<1>1. /\ cons[c].pc = "stored" /\ cons' = [cons EXCEPT ![c] = IdleC]
      /\ vacs' = vacs \union {y}
      /\ UNCHANGED <<now, files, writer, reader, vacuum, stored, merged, lost>>
  BY DEF consolidate_write_vac
<1>2. cons[c] \in ConsState /\ cons[c].name \in Names /\ now \in Nat /\ vacs \subseteq VacFile
  BY SMTT(20), <1>1, BoundFacts DEF Kept, Shapes, ConsShaped, Holding
<1>3. y \in VacFile /\ y.name = cons[c].name /\ y.lists = cons[c].srcs
  BY <1>2 DEF VacFile, ConsState
<1> HIDE DEF y
<1>4. HoldingKept(c) /\ Holds(c)
  BY <1>1 DEF Kept, ConsKept, Holds, Holding
<1>5. VacKept(y)
  BY <1>1, <1>3, <1>4 DEF VacKept, HoldingKept
<1>6. now <= now' /\ now' \in Nat
  BY SMT, <1>1, <1>2
<1>7. Grows
  BY <1>1, <1>6, Still
<1>8. \A x \in vacs' : VacKept(x)'
  BY <1>1, <1>5, <1>7, VacStays DEF Kept
<1>9. vacs' \subseteq VacFile
  BY <1>1, <1>2, <1>3
<1>10. QED
  BY <1>1, <1>8, <1>9, ConsIdleKept

LEMMA ConsCrashKept ==
  ASSUME Kept, LockInv', NEW c \in Consolidators, crash_consolidator(c)
  PROVE  Kept'
<1>1. /\ cons' = [cons EXCEPT ![c] = IdleC]
      /\ UNCHANGED <<now, files, vacs, writer, reader, vacuum, stored, merged, lost>>
  BY DEF crash_consolidator
<1>2. vacs \subseteq VacFile /\ now \in Nat
  BY SMT, BoundFacts DEF Kept, Shapes
<1>3. now <= now' /\ now' \in Nat
  BY SMT, <1>1, <1>2
<1>4. Grows
  BY <1>1, <1>3, Still
<1>5. \A x \in vacs' : VacKept(x)'
  BY <1>1, <1>4, VacsStay
<1>6. QED
  BY <1>1, <1>2, <1>5, ConsIdleKept

\* The files that a consolidator loads.
LEMMA Loading ==
  ASSUME Kept, NEW c \in Consolidators, NEW F, F = get_sorted_uris(files, cons[c].at), Whole(F)
  PROVE  /\ F \in SUBSET files /\ FilesShaped /\ cons[c].at \in Nat
         /\ \A f \in F : /\ f.name \in Real /\ f.name[1] \in Nat /\ f.name[2] \in Nat
                         /\ f.name[1] <= f.name[2] /\ f.name[2] <= cons[c].at
         /\ \A n \in Present : n[2] <= cons[c].at => \E f \in F : f.name = n
<1>1. F = {f \in files : f.name[2] <= cons[c].at}
  BY DEF get_sorted_uris
<1>2. FilesShaped /\ cons[c].at \in Nat /\ HistoryShaped
  BY BoundFacts DEF Kept, Shapes, ConsShaped, ConsState
<1>3. ASSUME NEW f \in F
      PROVE  /\ f.name \in Real /\ f.name[1] \in Nat /\ f.name[2] \in Nat
             /\ f.name[1] <= f.name[2] /\ f.name[2] <= cons[c].at
  <2>1. f \in files /\ f.whole /\ FileKept(f) /\ f.name[2] <= cons[c].at
    BY <1>1 DEF Whole, Kept
  <2>2. f.name \in Real
    BY <2>1 DEF FileKept, Real, Present
  <2>3. f.name \in Known
    BY <2>2 DEF Real
  <2>4. f.name[1] \in Nat /\ f.name[2] \in Nat
    BY <1>2, <2>3, KnownNames
  <2>5. f.name[1] <= f.name[2]
    BY <2>3 DEF Kept, HistoryKept
  <2>6. QED
    BY <2>1, <2>2, <2>4, <2>5
<1>4. \A n \in Present : n[2] <= cons[c].at => \E f \in F : f.name = n
  BY <1>1 DEF Present
<1>5. QED
  BY <1>1, <1>2, <1>3, <1>4

\* The last of the files in the order of names is one of those that end last,
\* although the order is by start (Consolidator::consolidate_array_meta takes
\* the range from the first and the last file).
LEMMA LastEndsLast ==
  ASSUME Kept, NEW c \in Consolidators, cons[c].pc = "open",
         NEW F, F = get_sorted_uris(files, cons[c].at), Whole(F), Clean,
         NEW b \in F, IsLast(b, F), NEW f \in F
  PROVE  f.name[2] <= b.name[2]
<1>1. /\ F \in SUBSET files /\ cons[c].at \in Nat
      /\ \A g \in F : /\ g.name \in Real /\ g.name[1] \in Nat /\ g.name[2] \in Nat
                      /\ g.name[1] <= g.name[2] /\ g.name[2] <= cons[c].at
      /\ \A n \in Present : n[2] <= cons[c].at => \E g \in F : g.name = n
  BY SMTT(20), Loading
<1>2. \A g \in F : g.name[1] < b.name[1] \/ (g.name[1] = b.name[1] /\ g.name[2] <= b.name[2])
  <2> SUFFICES ASSUME NEW g \in F
               PROVE  g.name[1] < b.name[1] \/ (g.name[1] = b.name[1] /\ g.name[2] <= b.name[2])
    OBVIOUS
  <2>1. g = b \/ Precedes(g.name, b.name)
    BY DEF IsLast
  <2>2. QED
    BY SMT, <1>1, <2>1 DEF Precedes
<1> SUFFICES ASSUME ~ (f.name[2] <= b.name[2])
             PROVE  FALSE
  OBVIOUS
<1>3. f.name[1] < b.name[1] /\ b.name[2] < f.name[2]
  BY SMTT(20), <1>1, <1>2
<1>4. f.name \notin Sessions
  <2>1. f.name[1] # f.name[2]
    BY SMT, <1>1, <1>3
  <2>2. QED
    BY <2>1 DEF Kept, HistoryKept
<1>5. f.name \in Merges \intersect Present
  BY <1>1, <1>4 DEF Real, Known
<1>6. b.name \notin Merges
  <2>1. b.name \in Merges /\ ~Late => b.name[1] <= f.name[1]
    BY <1>1 DEF Kept, FirstKept, Real
  <2>2. QED
    BY SMTT(20), <1>1, <1>3, <2>1 DEF Clean
<1>7. b.name \in Sessions \intersect Present
  BY <1>1, <1>6 DEF Real, Known
<1>8. StarOf(Present, Merges, Sessions)
  <2>1. \A v \in Vacuums : vacuum[v].pc # "files"
    BY DEF Kept, LockInv, Exclusion
  <2>2. QED
    BY <2>1 DEF Kept, StarKept, Star
<1>9. PICK o \in Present \intersect (Sessions \union Merges) :
        o[2] = f.name[2] /\ b.name[1] <= o[1]
  BY <1>3, <1>5, <1>7, <1>8 DEF StarOf
<1>10. PICK g \in F : g.name = o
  BY <1>1, <1>9
<1>11. g.name[2] = f.name[2] /\ b.name[1] <= g.name[1]
  BY <1>9, <1>10
<1>12. QED
  BY SMTT(20), <1>1, <1>2, <1>3, <1>11

\* The items of a file were put no later than the file ends.
LEMMA FileItems ==
  ASSUME Kept, Clean, NEW f \in files, f.name \in Known, NEW k \in DOMAIN f.map,
         NEW t \in Nat, f.name[2] <= t
  PROVE  Put(k, f.map[k], t)
<1>1. FileKept(f) /\ HistoryKept /\ HistoryShaped
  BY DEF Kept, Shapes
<1>2. \A s \in stored : s.name \in Known /\ s.name[1] \in Nat
  BY <1>1, KnownNames DEF Sessions, Known
<1>3. f.name[1] \in Nat /\ f.name[2] \in Nat /\ f.name[1] <= f.name[2]
  BY <1>1, KnownNames DEF HistoryKept
<1>4. CASE f.name \in Sessions
  <2>1. PICK s \in stored : s.name = f.name /\ s.map = f.map
    BY <1>1, <1>4 DEF FileKept
  <2>2. s.name[1] <= t
    BY SMT, <1>3, <2>1
  <2>3. QED
    BY <2>1, <2>2 DEF Put
<1>5. CASE f.name \in Merges
  <2>1. Put(k, f.map[k], f.name[2])
    BY <1>1, <1>5 DEF FileKept
  <2>2. PICK s \in stored : s.name[1] <= f.name[2] /\ k \in DOMAIN s.map /\ s.map[k] = f.map[k]
    BY <2>1 DEF Put
  <2>3. s.name[1] <= t
    BY SMTT(20), <1>2, <1>3, <2>2
  <2>4. QED
    BY <2>2, <2>3 DEF Put
<1>6. QED
  BY <1>4, <1>5 DEF Known

LEMMA StoredFacts ==
  ASSUME NEW t
  PROVE  Stored(t) \subseteq Sessions /\ \A n \in Stored(t) : n[2] <= t
  BY DEF Stored, Sessions

\* The range of the result.
LEMMA RangeFacts ==
  ASSUME Kept, NEW c \in Consolidators, cons[c].pc = "open",
         NEW F, F = get_sorted_uris(files, cons[c].at), Whole(F),
         NEW p, p = MergedRange(F)
  PROVE  /\ p[1] \in Nat /\ p[2] \in Nat /\ p[1] <= p[2] /\ p[2] <= cons[c].at
         /\ F # {} => /\ \E f \in F : f.name[1] = p[1]
                      /\ \E f \in F : f.name[2] = p[2] /\ \A g \in F : g.name[1] <= f.name[1]
         /\ \A n \in Real : p[1] <= n[1]
         /\ Clean => \A f \in F : f.name[2] <= p[2]
<1>1. /\ F \in SUBSET files /\ cons[c].at \in Nat /\ FilesShaped
      /\ \A g \in F : /\ g.name \in Real /\ g.name[1] \in Nat /\ g.name[2] \in Nat
                      /\ g.name[1] <= g.name[2] /\ g.name[2] <= cons[c].at
      /\ \A n \in Present : n[2] <= cons[c].at => \E g \in F : g.name = n
  BY SMT, Loading
<1>2. \A n \in Real : n[1] \in Nat /\ n[2] \in Nat
  BY KnownNames DEF Kept, Shapes, Real
<1>3. CASE F = {}
  <2>1. p[1] = 0 /\ p[2] = 0
    BY <1>3 DEF MergedRange
  <2>2. QED
    BY SMTT(20), <1>1, <1>2, <1>3, <2>1
<1>4. CASE F # {}
  <2> DEFINE a == FirstOf(F)
             b == LastOf(F)
  <2>1. p[1] = a.name[1] /\ p[2] = b.name[2]
    BY <1>4 DEF MergedRange
  <2>2. IsFirst(a, F) /\ IsLast(b, F)
    BY <1>1, <1>4, FilesNamed, EndsExist
  <2> HIDE DEF a, b
  <2>3. a \in F /\ b \in F
    BY <2>2 DEF IsFirst, IsLast
  <2>4. \A f \in F : a.name[1] <= f.name[1] /\ f.name[1] <= b.name[1]
    <3> SUFFICES ASSUME NEW f \in F
                 PROVE  a.name[1] <= f.name[1] /\ f.name[1] <= b.name[1]
      OBVIOUS
    <3>1. f = a \/ Precedes(a.name, f.name)
      BY <2>2 DEF IsFirst
    <3>2. f = b \/ Precedes(f.name, b.name)
      BY <2>2 DEF IsLast
    <3>3. QED
      BY SMTT(20), <1>1, <2>3, <3>1, <3>2 DEF Precedes
  <2>5. p[1] \in Nat /\ p[2] \in Nat /\ p[1] <= p[2] /\ p[2] <= cons[c].at
    BY SMTT(20), <1>1, <2>1, <2>3, <2>4
  <2>6. ASSUME NEW n \in Real PROVE p[1] <= n[1]
    <3>1. CASE n[1] <= cons[c].at
      <4>1. PICK m \in Real : m[1] <= n[1] /\ m[2] <= cons[c].at
        BY <3>1 DEF Kept, ConsKept, OpenKept
      <4>2. PICK g \in F : g.name = m
        BY <1>1, <4>1 DEF Real
      <4>3. QED
        BY SMTT(20), <1>2, <2>1, <2>4, <2>5, <4>1, <4>2
    <3>2. CASE ~ (n[1] <= cons[c].at)
      BY SMTT(20), <1>1, <1>2, <2>5, <3>2
    <3>3. QED
      BY <3>1, <3>2
  <2>7. Clean => \A f \in F : f.name[2] <= p[2]
    BY <2>1, <2>2, <2>3, LastEndsLast
  <2>8. QED
    BY <2>1, <2>3, <2>4, <2>5, <2>6, <2>7
<1>5. QED
  BY <1>3, <1>4

\* What a consolidator holds after loading.
LEMMA LoadKept ==
  ASSUME Kept, LockInv', NEW c \in Consolidators, NEW u \in Uuids, consolidate_load(c, u),
         Whole(get_sorted_uris(files, cons[c].at))
  PROVE  Kept'
<1> DEFINE F == get_sorted_uris(files, cons[c].at)
           p == MergedRange(F)
           n == <<p[1], p[2], u>>
           e == [pc |-> "loaded", at |-> cons[c].at, map |-> deserialize(F),
                 srcs |-> {f.name : f \in F}, name |-> n, saw |-> Stored(p[2])]
<1>1. /\ cons[c].pc = "open" /\ NewName(p[1], p[2], u)
      /\ cons' = [cons EXCEPT ![c] = e]
      /\ UNCHANGED <<now, files, vacs, writer, reader, vacuum, stored, merged, lost>>
  BY DEF consolidate_load
<1> HIDE DEF F
<1>2. /\ F \in SUBSET files /\ FilesShaped /\ cons[c].at \in Nat
      /\ \A f \in F : f.name \in Real
      /\ \A m \in Present : m[2] <= cons[c].at => \E f \in F : f.name = m
  BY SMT, Loading DEF F
<1>3. /\ p[1] \in Nat /\ p[2] \in Nat /\ p[1] <= p[2] /\ p[2] <= cons[c].at
      /\ F # {} => /\ \E f \in F : f.name[1] = p[1]
                   /\ \E f \in F : f.name[2] = p[2] /\ \A g \in F : g.name[1] <= f.name[1]
      /\ \A m \in Real : p[1] <= m[1]
      /\ Clean => \A f \in F : f.name[2] <= p[2]
  BY <1>1, RangeFacts DEF F
<1>4. /\ cons[c].at \in 0 .. now /\ now \in Nat /\ now <= MaxTime /\ MaxTime \in Nat
      /\ ConsShaped /\ HistoryShaped /\ vacs \subseteq VacFile
  BY SMT, BoundFacts DEF Kept, Shapes, ConsShaped
<1> HIDE DEF p
<1>5. n \in Names /\ n[1] = p[1] /\ n[2] = p[2]
  <2>1. p[1] \in 0 .. MaxTime /\ p[2] \in 0 .. MaxTime
    BY SMT, <1>3, <1>4
  <2>2. QED
    BY <2>1, NamesFacts
<1>6. /\ n \notin Known /\ n \notin Present
      /\ \A w \in Writers : writer[w].name # n
      /\ \A d \in Consolidators : cons[d].name # n
  BY <1>1, NewNames
<1> HIDE DEF n
<1>7. deserialize(F) \in Maps
  BY <1>2, Deserialized
<1>8. {f.name : f \in F} \subseteq Known /\ {f.name : f \in F} \subseteq Present
  BY <1>2 DEF Real
<1>9. /\ e.pc = "loaded" /\ e.at = cons[c].at /\ e.map = deserialize(F)
      /\ e.srcs = {f.name : f \in F} /\ e.name = n /\ e.saw = Stored(p[2])
  OBVIOUS
<1>10. e \in ConsState
  <2>1. Known \subseteq Names
    BY <1>4, KnownNames
  <2>2. {f.name : f \in F} \subseteq Names /\ Stored(p[2]) \subseteq Names
    BY <1>8, <2>1, StoredFacts DEF Known
  <2>3. n \in Triples
    BY <1>5, NamesFacts
  <2>4. QED
    BY <1>2, <1>7, <2>2, <2>3 DEF ConsState
<1> HIDE DEF e
<1>11. cons'[c] = e
  BY <1>1, <1>4 DEF ConsShaped
<1>12. now <= now' /\ now' \in Nat
  BY SMT, <1>1, <1>4
<1>13. /\ Present' = Present /\ Sessions' = Sessions /\ Merges' = Merges
       /\ Known' = Known /\ Real' = Real /\ Grows /\ Clean' = Clean
  BY <1>1, <1>12, Still
<1>14. e.map # NoItems => F # {}
  <2> SUFFICES ASSUME F = {} PROVE deserialize(F) = NoItems
    BY <1>9
  <2>1. DOMAIN deserialize(F) = {}
    BY <1>2, Deserialized
  <2>2. QED
    BY <1>7, <2>1, EmptyMap
<1>15. Clean => \A k \in DOMAIN e.map : Put(k, e.map[k], e.name[2])
  <2> SUFFICES ASSUME Clean, NEW k \in DOMAIN deserialize(F)
               PROVE  Put(k, deserialize(F)[k], p[2])
    BY <1>5, <1>9
  <2>1. PICK f \in F : k \in DOMAIN f.map /\ f.map[k] = deserialize(F)[k]
    BY <1>2, Deserialized
  <2>2. f \in files /\ f.name \in Known /\ f.name[2] <= p[2] /\ p[2] \in Nat
    BY <1>2, <1>3 DEF Real
  <2>3. Put(k, f.map[k], p[2])
    BY <2>1, <2>2, FileItems
  <2>4. QED
    BY <2>1, <2>3
<1>16. LoadedKept(c)'
  <2>1. e.name \notin Known' \union Present' /\ e.srcs \subseteq Present'
    BY <1>6, <1>8, <1>9, <1>13
  <2>2. e.map # NoItems =>
          /\ \E m \in e.srcs : m[1] = e.name[1]
          /\ \E m \in e.srcs : m[2] = e.name[2] /\ \A o \in e.srcs : o[1] <= m[1]
    <3> SUFFICES ASSUME F # {}
                 PROVE  /\ \E m \in e.srcs : m[1] = e.name[1]
                        /\ \E m \in e.srcs : m[2] = e.name[2] /\ \A o \in e.srcs : o[1] <= m[1]
      BY <1>14
    <3>1. PICK f \in F : f.name[1] = p[1]
      BY <1>3
    <3>2. PICK g \in F : g.name[2] = p[2] /\ \A h \in F : h.name[1] <= g.name[1]
      BY <1>3
    <3>3. f.name \in e.srcs /\ g.name \in e.srcs /\ \A o \in e.srcs : o[1] <= g.name[1]
      BY <1>9, <3>2
    <3>4. f.name[1] = e.name[1] /\ g.name[2] = e.name[2]
      BY <1>5, <1>9, <3>1, <3>2
    <3>5. QED
      BY <3>3, <3>4
  <2>3. \A m \in Real' : e.name[1] <= m[1]
    <3>1. \A m \in Real : p[1] <= m[1]
      BY <1>3
    <3>2. e.name[1] = p[1]
      BY <1>5, <1>9
    <3>3. QED
      BY <1>13, <3>1, <3>2
  <2>4. Clean' => \A k \in DOMAIN e.map :
          \E s \in stored' : s.name[1] <= e.name[2] /\ k \in DOMAIN s.map /\ s.map[k] = e.map[k]
    BY <1>1, <1>13, <1>15 DEF Put
  <2>5. Clean' => \A k \in DOMAIN cons'[c].map : Put(k, cons[c].map[k], cons[c].name[2])'
    BY <1>11, <2>4 DEF Put
  <2>6. LateFor(c)' \/ \A m \in Real' : cons'[c].name[1] <= m[1]
    BY <1>11, <2>3
  <2>7. QED
    BY <1>11, <2>1, <2>2, <2>5, <2>6 DEF LoadedKept
<1>17. HoldingKept(c)'
  <2>1. e.saw \subseteq Sessions' /\ e.srcs \subseteq Known'
    BY <1>8, <1>9, <1>13, StoredFacts
  <2>2. e.name[1] <= e.name[2] /\ e.name[2] <= e.at
    BY <1>3, <1>5, <1>9
  <2>3. e.saw \intersect Present' \subseteq e.srcs
    <3> SUFFICES ASSUME NEW m \in Present, m \in Stored(p[2])
                 PROVE  m \in e.srcs
      BY <1>9, <1>13
    <3>1. m \in Known /\ m[2] <= p[2]
      BY StoredFacts DEF Known
    <3>2. m[2] \in Nat
      BY <1>4, <3>1, KnownNames
    <3>3. m[2] <= cons[c].at
      BY SMTT(20), <1>2, <1>3, <3>1, <3>2
    <3>4. QED
      BY <1>2, <1>9, <3>3
  <2>4. Clean' => \A m \in e.srcs : m[2] <= e.name[2]
    BY <1>3, <1>5, <1>9, <1>13
  <2>5. QED
    BY <1>9, <1>11, <2>1, <2>2, <2>3, <2>4 DEF HoldingKept
<1>18. ConsKept(c)'
  <2>1. OpenKept(c)'
    BY <1>9, <1>11 DEF OpenKept
  <2>2. QED
    BY <1>16, <1>17, <2>1 DEF ConsKept
<1>19. \A x \in vacs' : VacKept(x)'
  BY <1>1, <1>13, VacsStay
<1>20. QED
  BY <1>1, <1>4, <1>5, <1>6, <1>9, <1>10, <1>18, <1>19, ConsStillKept

\* A file that is not complete makes loading fail.
LEMMA LoadFailedKept ==
  ASSUME Kept, LockInv', NEW c \in Consolidators, NEW u \in Uuids, consolidate_load(c, u),
         ~Whole(get_sorted_uris(files, cons[c].at))
  PROVE  Kept'
<1>1. /\ cons[c].pc = "open" /\ cons' = [cons EXCEPT ![c] = IdleC]
      /\ UNCHANGED <<now, files, vacs, writer, reader, vacuum, stored, merged, lost>>
  BY DEF consolidate_load
<1>2. vacs \subseteq VacFile /\ now \in Nat
  BY SMT, BoundFacts DEF Kept, Shapes
<1>3. now <= now' /\ now' \in Nat
  BY SMT, <1>1, <1>2
<1>4. Grows
  BY <1>1, <1>3, Still
<1>5. \A x \in vacs' : VacKept(x)'
  BY <1>1, <1>4, VacsStay
<1>6. QED
  BY <1>1, <1>2, <1>5, ConsIdleKept

\* The consolidated file is complete.
LEMMA ConsCloseFileKept ==
  ASSUME Kept, LockInv', NEW c \in Consolidators, consolidate_close_file(c)
  PROVE  Kept'
<1> DEFINE n == cons[c].name
           e == [cons[c] EXCEPT !.pc = "stored"]
<1>1. /\ cons[c].pc = "storing" /\ files' = Complete(n) /\ cons' = [cons EXCEPT ![c] = e]
      /\ UNCHANGED <<now, vacs, writer, reader, vacuum, stored, merged, lost>>
  BY DEF consolidate_close_file
<1>2. /\ cons[c] \in ConsState /\ n \in Names /\ cons[c].at \in 0 .. now
      /\ ConsShaped /\ FilesShaped
  BY <1>1 DEF Kept, Shapes, ConsShaped, Holding
<1>3. /\ e \in ConsState /\ e.pc = "stored" /\ e.at = cons[c].at /\ e.name = n
      /\ e.saw = cons[c].saw /\ e.srcs = cons[c].srcs
  BY <1>2 DEF ConsState
<1>4. HoldingKept(c) /\ Holds(c) /\ n \in Merges /\ n \in Known
  BY <1>1 DEF Kept, ConsKept, HoldingKept, Holds, Holding, Known
<1> HIDE DEF n, e
<1>5. /\ ConsShaped'
      /\ cons'[c] = e /\ \A d \in Consolidators : d # c => cons'[d] = cons[d]
  BY <1>1, <1>2, <1>3, ConsShape
<1>6. FilesShaped' /\ Present' = Present
  BY <1>1, <1>2, CompleteShaped
<1>7. /\ Sessions' = Sessions /\ Merges' = Merges /\ Known' = Known /\ Real' = Real
      /\ Late' = Late /\ Torn' = Torn
  BY <1>1, <1>6 DEF Sessions, Merges, Known, Real, Late, Torn
<1>8. Grows /\ HistoryKept' /\ HistoryShaped' /\ (Clean' => Clean)
  BY <1>1, <1>6, <1>7 DEF Kept, Shapes, Grows, HistoryKept, HistoryShaped, Clean
<1>9. Shapes'
  BY <1>1, <1>5, <1>6, <1>8 DEF Kept, Shapes, WritersShaped, VacuumsShaped
<1>10. (\A w \in Writers : Storing(w)' <=> Storing(w)) /\ (\A d \in Consolidators : Holds(d)' <=> Holds(d))
  BY <1>1, <1>3, <1>4, <1>5 DEF Storing, Holds, Holding
<1>11. \A d \in Consolidators : cons'[d].name = cons[d].name
  BY <1>3, <1>5 DEF n
<1>12. Apart'
  BY <1>1, <1>10, <1>11, SameApart DEF Kept
<1>13. ASSUME NEW f \in files' PROVE FileKept(f)'
  <2>1. CASE f.name = n
    <3>1. PICK g \in files : f.name = g.name /\ f.map = g.map /\ f.whole = (g.whole \/ g.name = n)
      BY SMT, <1>1, PresentComplete
    <3>2. f.whole /\ FileKept(g)
      BY <2>1, <3>1 DEF Kept
    <3>3. n \notin Sessions'
      BY <1>4, <1>7 DEF Kept, HistoryKept
    <3>4. Clean' => \A k \in DOMAIN f.map : Put(k, f.map[k], f.name[2])'
      BY <1>4, <1>8, <2>1, <3>1, <3>2, GrowsFacts DEF FileKept
    <3>5. QED
      BY <1>4, <1>7, <2>1, <3>2, <3>3, <3>4 DEF FileKept
  <2>2. CASE f.name # n
    <3>1. f \in files
      BY <1>1, <1>2, <2>2, CompleteOthers DEF FilesShaped
    <3>2. QED
      BY <1>7, <1>8, <3>1, FileStays
  <2>3. QED
    BY <2>1, <2>2
<1>14. ASSUME NEW x \in Writers PROVE WriterKept(x)'
  <2> SUFFICES ASSUME Storing(x)' PROVE WriterKept(x)'
    BY DEF WriterKept
  <2>1. Storing(x) /\ writer'[x] = writer[x] /\ WriterKept(x)
    BY <1>1, <1>10 DEF Kept
  <2>2. writer[x].name # n
    BY <1>4, <2>1 DEF WriterKept
  <2>3. \A f \in files' : f.name = writer[x].name => f \in files
    BY <1>1, <1>2, <2>2, CompleteOthers DEF FilesShaped
  <2>4. QED
    BY <1>7, <2>1, <2>3 DEF WriterKept
<1>15. ASSUME NEW d \in Consolidators PROVE ConsKept(d)'
  <2>1. CASE d = c
    <3>1. HoldingKept(c)'
      BY SMTT(20), <1>1, <1>3, <1>4, <1>5, <1>6, <1>7, <1>8 DEF HoldingKept, n
    <3>2. OpenKept(c)' /\ LoadedKept(c)'
      BY <1>3, <1>5 DEF OpenKept, LoadedKept
    <3>3. QED
      BY <2>1, <3>1, <3>2 DEF ConsKept
  <2>2. CASE d # c
    <3>1. cons[d].pc = "loaded" => cons[d].name \notin Known' \union Present'
      BY <1>6, <1>7 DEF Kept, ConsKept, LoadedKept
    <3>2. QED
      BY <1>5, <1>6, <1>7, <1>8, <2>2, <3>1, ConsStays
  <2>3. QED
    BY <2>1, <2>2
<1>16. \A x \in vacs' : VacKept(x)'
  BY <1>1, <1>8, VacsStay
<1>17. QED
  BY <1>1, <1>6, <1>7, <1>8, <1>9, <1>12, <1>13, <1>14, <1>15, <1>16, StepKept

\* The consolidated file is there, if there are items; the files that it stands
\* for are there as well, because the array is open until now.
LEMMA ConsStoreKept ==
  ASSUME Kept, LockInv', NEW c \in Consolidators, consolidate_store(c)
  PROVE  Kept'
<1> DEFINE n == cons[c].name
           M == [name |-> n, saw |-> cons[c].saw]
           F == [name |-> n, map |-> cons[c].map, whole |-> FALSE]
           e == [cons[c] EXCEPT !.pc = IF cons[c].map = NoItems THEN "stored" ELSE "storing"]
<1>1. /\ cons[c].pc = "loaded" /\ cons' = [cons EXCEPT ![c] = e]
      /\ merged' = merged \union {M}
      /\ UNCHANGED <<now, vacs, writer, reader, vacuum, stored, lost>>
  BY DEF consolidate_store
<1>2. \/ cons[c].map = NoItems /\ files' = files
      \/ cons[c].map # NoItems /\ files' = files \union {F}
  BY DEF consolidate_store
<1>3. /\ cons[c] \in ConsState /\ n \in Names /\ cons[c].at \in 0 .. now
      /\ now \in Nat /\ ConsShaped /\ FilesShaped /\ HistoryShaped
  BY SMTT(20), <1>1, BoundFacts DEF Kept, Shapes, ConsShaped, Holding
<1>4. /\ e \in ConsState /\ e.pc \in {"stored", "storing"} /\ e.at = cons[c].at /\ e.name = n
      /\ e.saw = cons[c].saw /\ e.srcs = cons[c].srcs
      /\ cons[c].map # NoItems => e.pc = "storing"
  BY <1>3 DEF ConsState
<1>5. F \in File /\ F.name = n /\ F.map = cons[c].map /\ F.whole = FALSE
  BY <1>3 DEF File, ConsState
<1>6. M.name = n /\ M.saw = cons[c].saw /\ M \in [name : Names, saw : SUBSET Names]
  BY <1>3 DEF ConsState
<1>7. HoldingKept(c) /\ LoadedKept(c) /\ Holds(c)
  BY <1>1 DEF Kept, ConsKept, Holds, Holding
<1>8. /\ n \notin Known /\ n \notin Present /\ cons[c].srcs \subseteq Real
      /\ cons[c].saw \subseteq Sessions
      /\ n[1] \in Nat /\ n[2] \in Nat /\ n[1] <= n[2] /\ n[2] <= now
  <2>1. n[1] \in Nat /\ n[2] \in Nat
    BY SMTT(20), <1>3, NamesFacts, BoundFacts
  <2>2. n[1] <= n[2] /\ n[2] <= cons[c].at /\ cons[c].saw \subseteq Sessions
    BY <1>7 DEF HoldingKept
  <2>3. n \notin Known /\ n \notin Present /\ cons[c].srcs \subseteq Real
    BY <1>1, <1>7 DEF HoldingKept, LoadedKept, Real
  <2>4. QED
    BY SMTT(20), <1>3, <2>1, <2>2, <2>3
<1>9. /\ cons[c].map # NoItems =>
           /\ \E m \in cons[c].srcs : m[1] = n[1]
           /\ \E m \in cons[c].srcs : m[2] = n[2] /\ \A o \in cons[c].srcs : o[1] <= m[1]
      /\ LateFor(c) \/ \A m \in Real : n[1] <= m[1]
      /\ Clean => \A k \in DOMAIN cons[c].map : Put(k, cons[c].map[k], n[2])
      /\ cons[c].saw \intersect Present \subseteq cons[c].srcs
  BY <1>1, <1>7 DEF LoadedKept, HoldingKept
<1> HIDE DEF M, F, e
<1>10. /\ ConsShaped'
       /\ cons'[c] = e /\ \A d \in Consolidators : d # c => cons'[d] = cons[d]
  BY <1>1, <1>3, <1>4, ConsShape
<1> HIDE DEF n
<1>11. FilesShaped' /\ (Present' = Present \/ (Present' = Present \union {n} /\ cons[c].map # NoItems))
  <2>1. CASE cons[c].map = NoItems /\ files' = files
    BY <1>3, <2>1 DEF FilesShaped, Present
  <2>2. CASE cons[c].map # NoItems /\ files' = files \union {F}
    BY <1>3, <1>5, <1>8, <2>2, AddShaped
  <2>3. QED
    BY <1>2, <2>1, <2>2
<1>12. HistoryShaped'
  BY <1>1, <1>3, <1>6 DEF HistoryShaped
<1>13. Shapes'
  BY <1>1, <1>10, <1>11, <1>12 DEF Kept, Shapes, WritersShaped, VacuumsShaped
<1>14. Sessions' = Sessions /\ Merges' = Merges \union {n} /\ Torn' = Torn
  BY <1>1, <1>6 DEF Sessions, Merges, Torn
<1>15. Known' = Known \union {n}
  BY <1>14 DEF Known
<1>16. Grows /\ Present \subseteq Present'
  BY <1>1, <1>8, <1>11, <1>14 DEF Grows
<1>17. Real \subseteq Real' /\ Real' \subseteq Real \union {n}
  BY <1>8, <1>11, <1>15 DEF Real
<1>18. n \in Real' => cons[c].map # NoItems /\ \E o \in Real : o[1] = n[1]
  BY <1>8, <1>9, <1>11 DEF Real
<1>19. \A m \in Real' \ Real : Added(m)
  BY <1>17, <1>18 DEF Added
<1>20. HistoryKept'
  <2>1. HistoryKept
    BY DEF Kept
  <2>2. n \notin Sessions
    BY <1>8 DEF Known
  <2>3. \A m \in merged' : m.saw \subseteq Sessions'
    BY <1>1, <1>6, <1>8, <1>14, <2>1 DEF HistoryKept
  <2>4. QED
    BY <1>1, <1>8, <1>14, <1>15, <2>1, <2>2, <2>3 DEF HistoryKept
<1>21. (\A w \in Writers : Storing(w)' <=> Storing(w)) /\ (\A d \in Consolidators : Holds(d)' <=> Holds(d))
  BY <1>1, <1>4, <1>7, <1>10 DEF Storing, Holds, Holding
<1>22. \A d \in Consolidators : cons'[d].name = cons[d].name
  BY <1>4, <1>10 DEF n
<1>23. Apart'
  BY <1>1, <1>21, <1>22, SameApart DEF Kept
<1>24. ASSUME NEW f \in files' PROVE FileKept(f)'
  <2>1. CASE f \in files
    <3>1. f.name # n
      BY <1>8, <2>1 DEF Present
    <3>2. f.name \in Known' => f.name \in Known
      BY <1>15, <3>1
    <3>3. QED
      BY <1>16, <1>20, <2>1, <3>2, FileStays
  <2>2. CASE f \notin files
    <3>1. f = F /\ cons[c].map # NoItems
      BY <1>2, <2>2
    <3>3. n \notin Sessions'
      BY <1>8, <1>14 DEF Known
    <3>4. Clean' => \A k \in DOMAIN f.map : Put(k, f.map[k], f.name[2])'
      <4>1. f.map = cons[c].map /\ f.name = n
        BY <1>5, <3>1
      <4>2. Clean' => \A k \in DOMAIN f.map : Put(k, f.map[k], f.name[2])
        BY <1>9, <1>16, <4>1, GrowsFacts
      <4>3. QED
        BY <1>16, <4>2, GrowsFacts
    <3>5. QED
      BY <1>5, <3>1, <3>3, <3>4 DEF FileKept
  <2>3. QED
    BY <2>1, <2>2
<1>25. ASSUME NEW x \in Writers PROVE WriterKept(x)'
  <2> SUFFICES ASSUME Storing(x)' PROVE WriterKept(x)'
    BY DEF WriterKept
  <2>1. Storing(x) /\ writer'[x] = writer[x] /\ WriterKept(x)
    BY <1>1, <1>21 DEF Kept
  <2>2. writer[x].name # n
    BY <1>7, <2>1 DEF Kept, Apart, n
  <2>3. \A f \in files' : f.name = writer[x].name => f \in files
    BY <1>2, <1>5, <2>2
  <2>4. QED
    BY <1>15, <2>1, <2>2, <2>3 DEF WriterKept
<1>26. ASSUME NEW d \in Consolidators PROVE ConsKept(d)'
  <2>1. CASE d = c
    <3>1. n \in Merges' /\ M \in merged' /\ e.pc # "loaded"
      BY <1>1, <1>4, <1>14
    <3>2. e.saw \subseteq Sessions' /\ e.srcs \subseteq Known'
      BY <1>4, <1>8, <1>14, <1>15 DEF Real
    <3>3. e.saw \intersect Present' \subseteq e.srcs
      <4>1. n \notin cons[c].saw
        BY <1>8 DEF Known
      <4>2. QED
        BY <1>4, <1>9, <1>11, <4>1
    <3>4. e.name[1] <= e.name[2] /\ e.name[2] <= e.at
      BY <1>4, <1>7 DEF HoldingKept, n
    <3>5. Clean' => \A m \in e.srcs : m[2] <= e.name[2]
      BY <1>4, <1>7, <1>16, GrowsFacts DEF HoldingKept, n
    <3>6. HoldingKept(c)'
      BY <1>4, <1>6, <1>10, <3>1, <3>2, <3>3, <3>4, <3>5 DEF HoldingKept
    <3>7. OpenKept(c)' /\ LoadedKept(c)'
      BY <1>4, <1>10 DEF OpenKept, LoadedKept
    <3>8. QED
      BY <2>1, <3>6, <3>7 DEF ConsKept
  <2>2. CASE d # c
    <3>1. cons[d].pc = "loaded" => cons[d].name # n
      BY <1>7, <2>2 DEF Kept, Apart, Holds, Holding, n
    <3>2. cons[d].pc = "loaded" => cons[d].name \notin Known' \union Present'
      BY <1>11, <1>15, <3>1 DEF Kept, ConsKept, LoadedKept
    <3>3. QED
      BY <1>10, <1>12, <1>16, <1>19, <1>20, <2>2, <3>2, ConsStays
  <2>3. QED
    BY <2>1, <2>2
<1>27. \A x \in vacs' : VacKept(x)'
  BY <1>1, <1>16, VacsStay
<1>28. \A v \in Vacuums : vacuum[v].pc # "files"
  BY <1>1 DEF Kept, LockInv, Exclusion
<1>29. \A v \in Vacuums : VacuumKept(v)'
  BY <1>1, <1>12, <1>16, <1>20, <1>28, VacuumStays
<1>30. FirstKept'
  <2> SUFFICES ASSUME ~Late', NEW m \in Merges' \intersect Present', NEW o \in Real'
               PROVE  m[1] <= o[1]
    BY DEF FirstKept
  <2>1. ~LateFor(c)
    <3>1. M \in merged'
      BY <1>1
    <3>2. \A q \in Sessions : q[2] <= n[2] => q \in cons[c].saw
      BY <1>6, <1>14, <3>1, OnTimeNext
    <3>3. QED
      BY <3>2 DEF LateFor, n
  <2>2. \A q \in Real : n[1] <= q[1]
    BY <1>9, <2>1
  <2>3. \A q \in Real' : n[1] <= q[1]
    BY SMTT(20), <1>8, <1>17, <2>2
  <2>4. CASE m = n
    BY <2>3, <2>4
  <2>5. CASE m # n
    <3>1. m \in Merges \intersect Present
      BY <1>11, <1>14, <2>5
    <3>2. \A q \in Real : m[1] <= q[1]
      BY <1>16, <3>1, GrowsFacts DEF Kept, FirstKept
    <3>3. QED
      BY <1>17, <1>18, <3>2
  <2>6. QED
    BY <2>4, <2>5
<1>31. StarKept'
  <2> SUFFICES ASSUME Clean', NEW m \in Present' \intersect Merges', NEW q \in Present' \intersect Sessions',
                      m[1] < q[1], q[2] < m[2]
               PROVE  \E o \in Present' \intersect (Sessions' \union Merges') : o[2] = m[2] /\ q[1] <= o[1]
    BY DEF StarKept, Star, StarOf
  <2>1. q # n /\ q \in Present /\ q \in Sessions
    BY <1>8, <1>11, <1>14 DEF Known
  <2>2. CASE m = n
    <3>1. cons[c].map # NoItems
      BY <1>8, <1>11, <2>2
    <3>2. PICK o \in cons[c].srcs : o[2] = n[2] /\ \A i \in cons[c].srcs : i[1] <= o[1]
      BY <1>9, <3>1
    <3>3. q[2] \in Nat
      BY <1>3, <2>1, KnownNames DEF Known
    <3>4. q[2] <= n[2]
      BY SMTT(20), <1>8, <2>2, <3>3
    <3>5. M \in merged' /\ ~Late'
      BY <1>1 DEF Clean
    <3>6. q \in cons[c].saw
      BY <1>6, <3>4, <3>5, OnTimeNext
    <3>7. q \in cons[c].srcs
      BY <1>9, <2>1, <3>6
    <3>8. o \in Present' \intersect (Sessions' \union Merges')
      BY <1>8, <1>14, <1>16 DEF Real, Known
    <3>9. QED
      BY <2>2, <3>2, <3>7, <3>8
  <2>3. CASE m # n
    <3>1. m \in Present \intersect Merges
      BY <1>11, <1>14, <2>3
    <3>2. StarOf(Present, Merges, Sessions)
      BY <1>16, <1>28, GrowsFacts DEF Kept, StarKept, Star
    <3>3. PICK o \in Present \intersect (Sessions \union Merges) : o[2] = m[2] /\ q[1] <= o[1]
      BY <2>1, <3>1, <3>2 DEF StarOf
    <3>4. QED
      BY <1>14, <1>16, <3>3
  <2>4. QED
    BY <2>2, <2>3
<1>32. QED
  BY <1>13, <1>20, <1>23, <1>24, <1>25, <1>26, <1>27, <1>29, <1>30, <1>31 DEF Kept

-----------------------------------------------------------------------------
(* Vacuuming. *)

\* A finite set of naturals has a largest one.
LEMMA LargestExists ==
  ASSUME NEW F, IsFiniteSet(F), F # {}, \A y \in F : y \in Nat
  PROVE  Max(F) \in F /\ \A y \in F : Max(F) >= y
<1> DEFINE Above(x) == {y \in F : y >= x}
           T == {Above(x) : x \in F}
<1>1. T \in SUBSET (SUBSET F) /\ T # {}
  OBVIOUS
<1>2. PICK G \in T : \A H \in T : H \subseteq G => H = G
  <2> HIDE DEF T
  <2> QED
    BY SMT, <1>1, SmallestSubset
<1>3. PICK x \in F : G = Above(x)
  BY <1>2
<1>4. ASSUME NEW z \in F PROVE x >= z
  <2> SUFFICES ASSUME z > x PROVE FALSE
    BY SMT
  <2>1. Above(z) \subseteq G
    <3>1. \A y \in F : y >= z => y >= x
      BY SMT
    <3>2. QED
      BY <1>3, <3>1
  <2>2. Above(z) = G
    BY <1>2, <2>1
  <2>3. x \in Above(z)
    BY SMTT(20), <1>3, <2>2
  <2>4. QED
    BY SMTT(20), <2>3
<1>5. QED
  BY <1>4 DEF Max

\* A step of a vacuum that leaves the files.
LEMMA VacuumStillKept ==
  ASSUME Kept, LockInv', NEW v \in Vacuums, NEW e \in VacuumState,
         e.vacs # {} \/ e = IdleV,
         vacuum' = [vacuum EXCEPT ![v] = e],
         UNCHANGED <<now, files, writer, reader, cons, stored, merged>>,
         vacs' \subseteq vacs, lost' \in 0 .. MaxTime + 1, Torn => Torn',
         VacuumKept(v)', StarKept'
  PROVE  Kept'
<1>1. /\ Present' = Present /\ Sessions' = Sessions /\ Merges' = Merges
      /\ Known' = Known /\ Real' = Real
  BY DEF Present, Sessions, Merges, Known, Real
<1>2. Grows /\ HistoryKept' /\ HistoryShaped'
  BY <1>1 DEF Grows, Kept, Shapes, HistoryKept, HistoryShaped
<1>3. VacuumsShaped
  BY DEF Kept, Shapes
<1>4. /\ VacuumsShaped'
      /\ vacuum'[v] = e /\ \A u \in Vacuums : u # v => vacuum'[u] = vacuum[u]
  BY <1>3, VacuumShape
<1>5. Shapes'
  BY <1>2, <1>4 DEF Kept, Shapes, FilesShaped, WritersShaped, ConsShaped
<1>6. (\A w \in Writers : Storing(w)' <=> Storing(w)) /\ (\A d \in Consolidators : Holds(d)' <=> Holds(d))
  BY DEF Storing, Holds
<1>7. Apart'
  BY <1>6 DEF Kept, Apart
<1>8. \A f \in files' : FileKept(f)'
  BY <1>1, <1>2, FileStays
<1>9. \A w \in Writers : WriterKept(w)'
  BY <1>1, <1>6 DEF Kept, WriterKept
<1>10. ASSUME NEW d \in Consolidators PROVE ConsKept(d)'
  <2>1. cons[d].pc = "loaded" => cons[d].name \notin Known' \union Present'
    BY <1>1 DEF Kept, ConsKept, LoadedKept
  <2>2. QED
    BY <1>1, <1>2, <2>1, ConsStays
<1>11. \A x \in vacs' : VacKept(x)'
  BY <1>2, VacsStay
<1>12. FirstKept'
  BY <1>1, <1>2, FirstStays
<1>13. ASSUME NEW u \in Vacuums PROVE VacuumKept(u)'
  <2>1. u # v => VacuumKept(u)'
    BY <1>1, <1>2, <1>4, VacuumStays
  <2>2. QED
    BY <2>1
<1>14. QED
  BY <1>2, <1>5, <1>7, <1>8, <1>9, <1>10, <1>11, <1>12, <1>13 DEF Kept

LEMMA ListKept ==
  ASSUME Kept, LockInv', NEW v \in Vacuums, get_uris_to_vacuum(v)
  PROVE  Kept'
<1> DEFINE due == {x \in vacs : x.name[2] <= now}
           todo == Present \intersect UNION {x.lists : x \in due}
           e == [pc |-> "listed", vacs |-> due, failed |-> FALSE, todo |-> todo]
<1>1. /\ vacuum[v].pc = "idle" /\ due # {}
      /\ vacuum' = [vacuum EXCEPT ![v] = e]
      /\ UNCHANGED <<now, files, vacs, writer, reader, cons, stored, merged, lost>>
  BY DEF get_uris_to_vacuum, Present
<1>2. vacs \subseteq VacFile /\ VacuumsShaped /\ now \in Nat /\ lost \in 0 .. MaxTime + 1
  BY SMT, BoundFacts DEF Kept, Shapes
<1>3. todo \subseteq Names
  BY <1>2 DEF VacFile
<1>4. e \in VacuumState /\ e.vacs = due /\ e.pc = "listed" /\ e.todo = todo
  BY <1>2, <1>3 DEF VacuumState
<1> HIDE DEF e
<1>5. vacuum'[v] = e /\ \A u \in Vacuums : u # v => vacuum'[u] = vacuum[u]
  BY <1>1, <1>2 DEF VacuumsShaped
<1>6. now <= now' /\ now' \in Nat
  BY SMTT(20), <1>1, <1>2
<1>7. Present' = Present /\ Grows /\ HistoryKept' /\ HistoryShaped'
  BY <1>1, <1>6, Still
<1>8. VacuumKept(v)'
  <2>1. \A x \in due : VacKept(x)'
    BY <1>7, VacsStay
  <2>2. Lists(v)' = UNION {x.lists : x \in due}
    BY <1>4, <1>5 DEF Lists
  <2>3. Present' \intersect Lists(v)' \subseteq todo /\ todo \subseteq Lists(v)'
    BY <1>7, <2>2
  <2> HIDE DEF due, todo
  <2>4. QED
    BY <1>4, <1>5, <2>1, <2>3 DEF VacuumKept
<1>9. StarKept'
  BY <1>1, <1>5, <1>7, StarKeptStays
<1>10. Torn => Torn'
  BY <1>1 DEF Torn
<1>11. e.vacs # {}
  BY <1>1, <1>4
<1>12. QED
  BY <1>1, <1>2, <1>4, <1>8, <1>9, <1>10, <1>11, VacuumStillKept

LEMMA RemoveVacKept ==
  ASSUME Kept, LockInv', NEW v \in Vacuums, NEW x \in vacuum[v].vacs, remove_vac(v, x)
  PROVE  Kept'
<1> DEFINE left == vacuum[v].vacs \ {x}
           e == IF left = {} THEN IdleV ELSE [vacuum[v] EXCEPT !.vacs = left]
<1>1. /\ vacuum[v].pc = "vacs" /\ vacs' = vacs \ {x}
      /\ vacuum' = [vacuum EXCEPT ![v] = e]
      /\ UNCHANGED <<now, files, writer, reader, cons, stored, merged, lost>>
  BY DEF remove_vac
<1>2. vacuum[v] \in VacuumState /\ VacuumsShaped /\ now \in Nat /\ lost \in 0 .. MaxTime + 1
  BY SMT, BoundFacts DEF Kept, Shapes, VacuumsShaped
<1>3. e \in VacuumState /\ e.pc \in {"idle", "vacs"} /\ e.vacs \subseteq vacuum[v].vacs
      /\ (e.vacs # {} \/ e = IdleV)
  <2>1. CASE left = {}
    BY <2>1, IdleShapes
  <2>2. CASE left # {}
    <3> DEFINE g == [vacuum[v] EXCEPT !.vacs = left]
    <3>1. g \in VacuumState /\ g.pc = "vacs" /\ g.vacs = left
      BY <1>1, <1>2 DEF VacuumState
    <3>2. e = g
      BY <2>2
    <3> HIDE DEF e, g
    <3>3. QED
      BY <2>2, <3>1, <3>2
  <2>3. QED
    BY <2>1, <2>2
<1> HIDE DEF e
<1>4. vacuum'[v] = e /\ \A u \in Vacuums : u # v => vacuum'[u] = vacuum[u]
  BY <1>1, <1>2 DEF VacuumsShaped
<1>5. now <= now' /\ now' \in Nat
  BY SMT, <1>1, <1>2
<1>6. Present' = Present /\ Grows /\ HistoryKept' /\ HistoryShaped'
  BY <1>1, <1>5, Still
<1>7. VacuumKept(v)'
  <2>1. \A y \in e.vacs : VacKept(y)'
    BY <1>3, <1>6, VacStays DEF Kept, VacuumKept
  <2>2. QED
    BY <1>3, <1>4, <2>1 DEF VacuumKept
<1>8. StarKept'
  BY <1>1, <1>4, <1>6, StarKeptStays
<1>9. Torn => Torn'
  BY <1>1 DEF Torn
<1>10. vacs' \subseteq vacs
  BY <1>1
<1>11. QED
  BY <1>1, <1>2, <1>3, <1>7, <1>8, <1>9, <1>10, VacuumStillKept

\* What a vacuum is going to delete leaves Star as it is: a file that ends where a
\* consolidated one ends is only listed together with the sessions before its end.
LEMMA LockedKept ==
  ASSUME Kept, LockInv', NEW v \in Vacuums, array_xlock(v)
  PROVE  Kept'
<1> DEFINE e == [vacuum[v] EXCEPT !.pc = "files"]
           ends == {lost} \union {x.name[2] : x \in vacuum[v].vacs}
<1>1. /\ vacuum[v].pc = "listed" /\ ExclusiveFree
      /\ vacuum' = [vacuum EXCEPT ![v] = e] /\ lost' = Max(ends)
      /\ UNCHANGED <<now, files, vacs, writer, reader, cons, stored, merged>>
  BY DEF array_xlock
<1>2. /\ vacuum[v] \in VacuumState /\ VacuumsShaped /\ lost \in 0 .. MaxTime + 1
      /\ MaxTime \in Nat /\ HistoryShaped
  BY BoundFacts DEF Kept, Shapes, VacuumsShaped
<1>3. /\ e \in VacuumState /\ e.pc = "files" /\ e.vacs = vacuum[v].vacs /\ e.todo = vacuum[v].todo
      /\ e.vacs # {}
  <2>1. vacuum[v] # IdleV
    BY <1>1, IdleShapes
  <2>2. vacuum[v].vacs # {}
    BY <1>2, <2>1 DEF VacuumsShaped
  <2>3. QED
    BY <1>2, <2>2 DEF VacuumState
<1> HIDE DEF e
<1>4. vacuum'[v] = e
  BY <1>1, <1>2 DEF VacuumsShaped
<1>5. lost' \in 0 .. MaxTime + 1 /\ lost' >= lost
  <2>1. ends \subseteq 0 .. MaxTime + 1
    <3>1. \A x \in vacuum[v].vacs : x.name \in Names
      BY <1>2 DEF VacuumState, VacFile
    <3>2. \A x \in vacuum[v].vacs : x.name[2] \in 0 .. MaxTime + 1
      BY SMTT(20), <1>2, <3>1, NamesFacts
    <3>3. QED
      BY <1>2, <3>2
  <2>2. IsFiniteSet(0 .. MaxTime + 1)
    BY SMT, <1>2, FS_Interval
  <2>3. IsFiniteSet(ends)
    BY <2>1, <2>2, FS_Subset
  <2>4. lost \in ends
    OBVIOUS
  <2> HIDE DEF ends
  <2>5. \A y \in ends : y \in Nat
    BY SMT, <1>2, <2>1
  <2>6. Max(ends) \in ends /\ \A y \in ends : Max(ends) >= y
    BY <2>3, <2>4, <2>5, LargestExists
  <2>7. QED
    BY <1>1, <2>1, <2>4, <2>6
<1>6. Torn => Torn'
  BY SMTT(20), <1>2, <1>5 DEF Torn
<1>7. /\ Present' = Present /\ Sessions' = Sessions /\ Merges' = Merges /\ Known' = Known
      /\ Late' = Late
  BY <1>1 DEF Present, Sessions, Merges, Known, Late
<1>8. Grows
  BY <1>1, <1>6, <1>7 DEF Grows
<1>9. VacuumKept(v) /\ HistoryKept
  BY DEF Kept
<1>10. \A x \in vacuum[v].vacs : VacKept(x) /\ VacKept(x)'
  BY <1>8, <1>9, VacStays DEF VacuumKept
<1>11. /\ Present \intersect Lists(v) \subseteq vacuum[v].todo /\ vacuum[v].todo \subseteq Lists(v)
       /\ Lists(v)' = Lists(v)
  BY <1>1, <1>3, <1>4, <1>9 DEF VacuumKept, Lists
<1>12. ASSUME Clean'
       PROVE  /\ StarOf(Present, Merges, Sessions)
              /\ StarOf(Present \ vacuum[v].todo, Merges, Sessions)
  <2>1. Clean /\ ~Late
    BY <1>8, <1>12, GrowsFacts DEF Clean
  <2>2. StarOf(Present, Merges, Sessions)
    BY <1>1, <2>1, Free DEF Kept, StarKept, Star
  <2>3. ASSUME NEW m \in (Present \ vacuum[v].todo) \intersect Merges,
               NEW n \in (Present \ vacuum[v].todo) \intersect Sessions,
               m[1] < n[1], n[2] < m[2]
        PROVE  \E o \in (Present \ vacuum[v].todo) \intersect (Sessions \union Merges) :
                 o[2] = m[2] /\ n[1] <= o[1]
    <3>1. PICK o \in Present \intersect (Sessions \union Merges) : o[2] = m[2] /\ n[1] <= o[1]
      BY <2>2, <2>3 DEF StarOf
    <3>2. ASSUME o \in vacuum[v].todo PROVE FALSE
      <4>1. PICK x \in vacuum[v].vacs : o \in x.lists
        BY SMTT(20), <1>11, <3>2 DEF Lists
      <4>2. VacKept(x)
        BY <1>10
      <4>3. PICK a \in merged : a.name = x.name /\ a.saw \intersect Present \subseteq x.lists
        BY <4>2 DEF VacKept
      <4>4. o[2] <= x.name[2]
        BY <2>1, <4>1, <4>2 DEF VacKept
      <4>5. n[2] \in Nat /\ m[2] \in Nat /\ x.name[2] \in Nat
        <5>1. x.name \in Known
          BY <4>3 DEF Known, Merges
        <5>2. QED
          BY <1>2, <5>1, KnownNames DEF Known
      <4>6. n[2] <= a.name[2]
        BY SMTT(20), <2>3, <3>1, <4>3, <4>4, <4>5
      <4>7. n \in a.saw
        BY <2>1, <4>3, <4>6, OnTime
      <4>8. n \in Lists(v)
        BY <4>3, <4>7 DEF Lists
      <4>9. QED
        BY <1>11, <4>8
    <3>3. QED
      BY <3>1, <3>2
  <2>4. QED
    BY <2>2, <2>3 DEF StarOf
<1>13. VacuumKept(v)'
  BY <1>3, <1>4, <1>7, <1>10, <1>11, <1>12 DEF VacuumKept, Star
<1>14. StarKept'
  BY <1>3, <1>4 DEF StarKept
<1>15. vacs' \subseteq vacs
  BY <1>1
<1>16. QED
  BY <1>1, <1>3, <1>5, <1>6, <1>13, <1>14, <1>15, VacuumStillKept

\* Nobody else uses a file that is deleted.
LEMMA RemoveFileKept ==
  ASSUME Kept, LockInv', NEW v \in Vacuums, NEW n \in vacuum[v].todo, remove_file(v, n)
  PROVE  Kept'
<1> DEFINE failed == vacuum[v].failed \/ n \notin {f.name : f \in files}
           e == [vacuum[v] EXCEPT !.todo = vacuum[v].todo \ {n}, !.failed = failed]
<1>1. /\ vacuum[v].pc = "files" /\ files' = {f \in files : f.name # n}
      /\ vacuum' = [vacuum EXCEPT ![v] = e]
      /\ UNCHANGED <<now, vacs, writer, reader, cons, stored, merged, lost>>
  BY DEF remove_file
<1>2. vacuum[v] \in VacuumState /\ VacuumsShaped /\ FilesShaped
  BY DEF Kept, Shapes, VacuumsShaped
<1>3. failed \in BOOLEAN
  OBVIOUS
<1> HIDE DEF failed
<1>4. /\ e \in VacuumState /\ e.pc = "files" /\ e.vacs = vacuum[v].vacs
      /\ e.todo = vacuum[v].todo \ {n} /\ e.vacs # {}
  <2>1. vacuum[v] # IdleV
    BY <1>1, IdleShapes
  <2>2. vacuum[v].vacs # {}
    BY <1>2, <2>1 DEF VacuumsShaped
  <2>3. QED
    BY <1>1, <1>2, <1>3, <2>2 DEF VacuumState
<1> HIDE DEF e
<1>5. /\ VacuumsShaped'
      /\ vacuum'[v] = e /\ \A u \in Vacuums : u # v => vacuum'[u] = vacuum[u]
  BY <1>1, <1>2, <1>4, VacuumShape
<1>6. Present' = Present \ {n} /\ files' \subseteq files
  BY <1>1 DEF Present
<1>7. FilesShaped'
  <2>1. IsFiniteSet(files')
    BY <1>2, <1>6, FS_Subset DEF FilesShaped
  <2>2. QED
    BY <1>2, <1>6, <2>1 DEF FilesShaped
<1>8. /\ Sessions' = Sessions /\ Merges' = Merges /\ Known' = Known
      /\ Late' = Late /\ Torn' = Torn /\ Clean' = Clean
  BY <1>1 DEF Sessions, Merges, Known, Late, Torn, Clean
<1>9. Real' \subseteq Real
  BY <1>6, <1>8 DEF Real
<1>10. Grows /\ HistoryKept' /\ HistoryShaped'
  BY <1>1, <1>6, <1>8 DEF Grows, Kept, Shapes, HistoryKept, HistoryShaped
<1>11. Shapes'
  BY <1>1, <1>5, <1>7, <1>10 DEF Kept, Shapes, WritersShaped, ConsShaped
<1>12. (\A w \in Writers : Storing(w)' <=> Storing(w)) /\ (\A d \in Consolidators : Holds(d)' <=> Holds(d))
  BY <1>1 DEF Storing, Holds
<1>13. Apart'
  BY <1>1, <1>12 DEF Kept, Apart
<1>14. \A f \in files' : FileKept(f)'
  BY <1>6, <1>8, <1>10, FileStays
<1>15. \A w \in Writers : WriterKept(w)'
  BY <1>1, <1>6, <1>8, <1>12 DEF Kept, WriterKept
<1>16. /\ \A d \in Consolidators : cons[d].pc \notin {"open", "loaded"}
       /\ \A u \in Vacuums : u # v => vacuum[u].pc # "files"
  BY <1>1 DEF Kept, LockInv, Exclusion
<1>17. \A d \in Consolidators : ConsKept(d)'
  BY <1>1, <1>9, <1>10, <1>16, ConsStays
<1>18. \A x \in vacs' : VacKept(x)'
  BY <1>1, <1>10, VacsStay
<1>19. FirstKept'
  BY <1>1, <1>9, <1>10, FirstStays
<1>20. StarKept'
  BY <1>4, <1>5 DEF StarKept
<1>21. VacuumKept(v)'
  <2>1. VacuumKept(v) /\ HistoryKept
    BY DEF Kept
  <2>2. \A x \in e.vacs : VacKept(x)'
    BY <1>4, <1>10, <2>1, VacStays DEF VacuumKept
  <2>3. Lists(v)' = Lists(v)
    BY <1>4, <1>5 DEF Lists
  <2>4. Present' \intersect Lists(v) \subseteq e.todo /\ e.todo \subseteq Lists(v) /\ n \in Lists(v)
    BY <1>1, <1>4, <1>6, <2>1 DEF VacuumKept
  <2>5. Present' \ e.todo = Present \ vacuum[v].todo
    BY <1>4, <1>6
  <2>6. Clean' => StarOf(Present' \ e.todo, Merges', Sessions')
    BY <1>1, <1>8, <2>1, <2>5 DEF VacuumKept, Star
  <2>7. \E x \in e.vacs : ~(x.lists \subseteq Present')
    BY <1>4, <1>6, <2>4 DEF Lists
  <2>8. QED
    BY <1>4, <1>5, <2>2, <2>3, <2>4, <2>6, <2>7 DEF VacuumKept, Star
<1>22. ASSUME NEW u \in Vacuums PROVE VacuumKept(u)'
  <2>1. u # v => VacuumKept(u)'
    BY <1>5, <1>10, <1>16, VacuumStays
  <2>2. QED
    BY <1>21, <2>1
<1>23. QED
  BY <1>10, <1>11, <1>13, <1>14, <1>15, <1>17, <1>18, <1>19, <1>20, <1>22 DEF Kept

\* The last deletion leaves the files as Star says.
LEMMA UnlockedKept ==
  ASSUME Kept, LockInv', NEW v \in Vacuums, array_xunlock(v)
  PROVE  Kept'
<1> DEFINE e == IF vacuum[v].failed THEN IdleV ELSE [vacuum[v] EXCEPT !.pc = "vacs"]
<1>1. /\ vacuum[v].pc = "files" /\ vacuum[v].todo = {}
      /\ vacuum' = [vacuum EXCEPT ![v] = e]
      /\ UNCHANGED <<now, files, vacs, writer, reader, cons, stored, merged, lost>>
  BY DEF array_xunlock
<1>2. vacuum[v] \in VacuumState /\ VacuumsShaped /\ now \in Nat /\ lost \in 0 .. MaxTime + 1
  BY SMT, BoundFacts DEF Kept, Shapes, VacuumsShaped
<1>3. /\ e \in VacuumState /\ e.pc \in {"idle", "vacs"} /\ e.vacs \subseteq vacuum[v].vacs
      /\ (e.vacs # {} \/ e = IdleV)
  <2>1. CASE vacuum[v].failed
    BY <2>1, IdleShapes
  <2>2. CASE ~vacuum[v].failed
    <3> DEFINE g == [vacuum[v] EXCEPT !.pc = "vacs"]
    <3>1. g \in VacuumState /\ g.pc = "vacs" /\ g.vacs = vacuum[v].vacs
      BY <1>2 DEF VacuumState
    <3>2. e = g
      BY <2>2
    <3>3. vacuum[v].vacs # {}
      BY <1>1, <1>2, IdleShapes DEF VacuumsShaped
    <3> HIDE DEF e, g
    <3>4. QED
      BY <3>1, <3>2, <3>3
  <2>3. QED
    BY <2>1, <2>2
<1> HIDE DEF e
<1>4. vacuum'[v] = e
  BY <1>1, <1>2 DEF VacuumsShaped
<1>5. now <= now' /\ now' \in Nat
  BY SMTT(20), <1>1, <1>2
<1>6. /\ Present' = Present /\ Sessions' = Sessions /\ Merges' = Merges
      /\ Grows /\ HistoryKept' /\ Clean' = Clean
  BY <1>1, <1>5, Still
<1>7. VacuumKept(v) /\ HistoryKept
  BY DEF Kept
<1>8. VacuumKept(v)'
  <2>1. \A y \in e.vacs : VacKept(y)'
    BY <1>3, <1>6, <1>7, VacStays DEF VacuumKept
  <2>2. QED
    BY <1>3, <1>4, <2>1 DEF VacuumKept
<1>9. StarKept'
  <2>1. Present \ vacuum[v].todo = Present
    BY <1>1
  <2>2. Clean => StarOf(Present, Merges, Sessions)
    BY <1>1, <1>7, <2>1 DEF VacuumKept, Star
  <2>3. QED
    BY <1>6, <2>2 DEF StarKept, Star
<1>10. Torn => Torn'
  BY <1>1 DEF Torn
<1>11. vacs' \subseteq vacs /\ lost' \in 0 .. MaxTime + 1
  BY <1>1, <1>2
<1>12. QED
  BY <1>1, <1>3, <1>8, <1>9, <1>10, <1>11, VacuumStillKept

\* A vacuum that dies has deleted nothing, or everything, or Torn holds.
LEMMA CrashVacuumKept ==
  ASSUME Kept, LockInv', NEW v \in Vacuums, crash_vacuum(v)
  PROVE  Kept'
<1> DEFINE torn == vacuum[v].todo # {} /\ \E x \in vacuum[v].vacs : ~(x.lists \subseteq Present)
<1>1. /\ vacuum[v].pc \in {"files", "vacs"}
      /\ vacuum' = [vacuum EXCEPT ![v] = IdleV]
      /\ lost' = IF torn THEN MaxTime + 1 ELSE lost
      /\ UNCHANGED <<now, files, vacs, writer, reader, cons, stored, merged>>
  BY DEF crash_vacuum, Present
<1>2. VacuumsShaped /\ lost \in 0 .. MaxTime + 1 /\ MaxTime \in Nat
  BY BoundFacts DEF Kept, Shapes
<1>3. vacuum'[v] = IdleV /\ \A u \in Vacuums : u # v => vacuum'[u] = vacuum[u]
  BY <1>1, <1>2 DEF VacuumsShaped
<1>4. lost' \in 0 .. MaxTime + 1 /\ (Torn => Torn') /\ (torn => Torn')
  <2> HIDE DEF torn
  <2> QED
    BY SMTT(20), <1>1, <1>2 DEF Torn
<1>5. /\ Present' = Present /\ Sessions' = Sessions /\ Merges' = Merges /\ Late' = Late
  BY <1>1 DEF Present, Sessions, Merges, Late
<1>6. Grows
  BY <1>1, <1>4, <1>5 DEF Grows
<1>7. VacuumKept(v)'
  BY <1>3, IdleShapes DEF VacuumKept
<1>8. StarKept'
  <2> SUFFICES ASSUME Clean', \A u \in Vacuums : vacuum'[u].pc # "files"
               PROVE  StarOf(Present, Merges, Sessions)
    BY <1>5 DEF StarKept, Star
  <2>1. Clean /\ ~torn
    BY <1>4, <1>6, GrowsFacts DEF Clean
  <2>2. CASE vacuum[v].pc = "files"
    <3>1. /\ StarOf(Present \ vacuum[v].todo, Merges, Sessions)
          /\ StarOf(Present, Merges, Sessions) \/ \E x \in vacuum[v].vacs : ~(x.lists \subseteq Present)
      BY <2>1, <2>2 DEF Kept, VacuumKept, Star
    <3>2. CASE vacuum[v].todo = {}
      <4>1. Present \ vacuum[v].todo = Present
        BY <3>2
      <4>2. QED
        BY <3>1, <4>1
    <3>3. CASE vacuum[v].todo # {}
      BY <2>1, <3>1, <3>3
    <3>4. QED
      BY <3>2, <3>3
  <2>3. CASE vacuum[v].pc # "files"
    <3>1. \A u \in Vacuums : vacuum[u].pc # "files"
      BY <1>3, <2>3
    <3>2. QED
      BY <2>1, <3>1 DEF Kept, StarKept, Star
  <2>4. QED
    BY <2>2, <2>3
<1>9. vacs' \subseteq vacs
  BY <1>1
<1>10. QED
  BY <1>1, <1>4, <1>7, <1>8, <1>9, IdleShapes, VacuumStillKept

-----------------------------------------------------------------------------
(* The theorems. *)

LEMMA KeptInit == Init => Kept
<1> SUFFICES ASSUME Init PROVE Kept
  OBVIOUS
<1>1. MaxTime \in Nat /\ MaxTime >= 1
  BY BoundFacts
<1>2. IsFiniteSet(files)
  BY FS_EmptySet DEF Init
<1>3. FilesShaped
  BY <1>2 DEF Init, FilesShaped
<1>4. WritersShaped
  BY SMT, IdleShapes DEF Init, WritersShaped
<1>5. ConsShaped
  BY SMT, IdleShapes DEF Init, ConsShaped, Holding
<1>6. VacuumsShaped
  BY IdleShapes DEF Init, VacuumsShaped
<1>7. reader \in [Readers -> ReaderState] /\ \A r \in Readers : reader[r].at \in 0 .. now
  BY SMT DEF Init, IdleR, ReaderState
<1>8. now \in 1 .. MaxTime /\ lost \in 0 .. MaxTime + 1
  BY SMT, <1>1 DEF Init
<1>9. Shapes
  BY <1>3, <1>4, <1>5, <1>6, <1>7, <1>8 DEF Init, Shapes, HistoryShaped
<1>10. Present = {} /\ Sessions = {} /\ Merges = {} /\ Known = {} /\ Real = {}
  BY DEF Init, Present, Sessions, Merges, Known, Real
<1>11. Apart /\ HistoryKept /\ FirstKept /\ StarKept
  BY <1>10, IdleShapes DEF Init, Apart, Storing, Holds, Holding, HistoryKept, FirstKept, StarKept, Star, StarOf
<1>12. \A w \in Writers : WriterKept(w)
  BY IdleShapes DEF Init, WriterKept, Storing
<1>13. \A c \in Consolidators : ConsKept(c)
  BY IdleShapes DEF Init, ConsKept, OpenKept, LoadedKept, HoldingKept, Holds, Holding
<1>14. \A v \in Vacuums : VacuumKept(v)
  BY IdleShapes DEF Init, VacuumKept
<1>15. QED
  BY <1>9, <1>11, <1>12, <1>13, <1>14, InitLock DEF Init, Kept

LEMMA ConsolidatorStepKept ==
  ASSUME Kept, LockInv', NEW c \in Consolidators, ConsolidatorStep(c)
  PROVE  Kept'
  BY ConsOpenKept, ConsStoreKept, ConsCloseFileKept, ConsVacKept, ConsCrashKept, LoadKept,
     LoadFailedKept DEF ConsolidatorStep

LEMMA VacuumStepKept ==
  ASSUME Kept, LockInv', NEW v \in Vacuums, VacuumStep(v)
  PROVE  Kept'
  BY ListKept, LockedKept, UnlockedKept, CrashVacuumKept, RemoveFileKept, RemoveVacKept DEF VacuumStep

LEMMA KeptNext == Kept /\ [Next]_vars => Kept'
<1> SUFFICES ASSUME Kept, [Next]_vars PROVE Kept'
  OBVIOUS
<1>1. LockInv'
  BY NextLock DEF Kept
<1>2. CASE UNCHANGED vars
  <2>1. UNCHANGED <<now, files, vacs, writer, reader, cons, vacuum, stored, merged, lost>>
    BY <1>2 DEF vars
  <2>2. Shapes'
    BY <2>1 DEF Kept, Shapes, FilesShaped, WritersShaped, ConsShaped, VacuumsShaped, HistoryShaped
  <2>3. now <= now'
    BY SMTT(20), <2>1, BoundFacts DEF Kept, Shapes
  <2>4. QED
    BY <1>1, <2>1, <2>2, <2>3, QuietKept DEF Storing
<1>3. CASE Next
  BY <1>1, <1>3, TickKept, WriterStepKept, ReaderKept, ConsolidatorStepKept, VacuumStepKept DEF Next
<1>4. QED
  BY <1>2, <1>3

LEMMA KeptItems == Kept => NoFutureItem
<1> SUFFICES ASSUME Kept, Clean, NEW t \in 0 .. now, Whole(get_sorted_uris(files, t)),
                    NEW k \in DOMAIN deserialize(get_sorted_uris(files, t))
             PROVE  \E s \in stored : /\ s.name[1] <= t /\ k \in DOMAIN s.map
                                      /\ s.map[k] = deserialize(get_sorted_uris(files, t))[k]
  BY DEF NoFutureItem, Clean
<1> DEFINE F == get_sorted_uris(files, t)
<1>1. F \in SUBSET files /\ (\A f \in F : f.name[2] <= t) /\ FilesShaped /\ t \in Nat
  BY SMT, BoundFacts DEF get_sorted_uris, Kept, Shapes
<1> HIDE DEF F
<1>2. PICK f \in F : k \in DOMAIN f.map /\ f.map[k] = deserialize(F)[k]
  BY <1>1, Deserialized DEF F
<1>3. f \in files /\ f.name \in Known
  BY <1>1, <1>2 DEF Whole, Kept, FileKept, F
<1>4. Put(k, f.map[k], t)
  BY <1>1, <1>2, <1>3, FileItems
<1>5. QED
  BY <1>2, <1>4 DEF Put, F

\* One process at most writes an incomplete file.
LEMMA KeptOwners ==
  ASSUME Kept, NEW f \in files
  PROVE  Cardinality({w \in Writers : writer[w].pc = "storing" /\ writer[w].name = f.name})
           + Cardinality({c \in Consolidators : cons[c].pc = "storing" /\ cons[c].name = f.name}) <= 1
<1> DEFINE W == {w \in Writers : writer[w].pc = "storing" /\ writer[w].name = f.name}
           C == {c \in Consolidators : cons[c].pc = "storing" /\ cons[c].name = f.name}
<1>0. Apart
  BY DEF Kept
<1>1. /\ \A w, x \in W : w = x
      /\ \A c, d \in C : c = d
      /\ W = {} \/ C = {}
  BY <1>0 DEF Apart, Storing, Holds, Holding
<1> HIDE DEF W, C
<1>2. \/ W = {} /\ C = {}
      \/ \E x : W = {x} /\ C = {}
      \/ \E x : C = {x} /\ W = {}
  <2>1. CASE W = {} /\ C = {}
    BY <2>1
  <2>2. CASE W # {}
    <3>1. PICK x : x \in W
      BY <2>2
    <3>2. W = {x} /\ C = {}
      BY <1>1, <3>1
    <3>3. QED
      BY <3>2
  <2>3. CASE C # {}
    <3>1. PICK x : x \in C
      BY <2>3
    <3>2. C = {x} /\ W = {}
      BY <1>1, <3>1
    <3>3. QED
      BY <3>2
  <2>4. QED
    BY <2>1, <2>2, <2>3
<1>3. Cardinality(W) + Cardinality(C) <= 1
  <2>1. Cardinality({}) = 0
    BY FS_EmptySet
  <2>2. ASSUME NEW x PROVE Cardinality({x}) = 1
    BY FS_Singleton
  <2>3. CASE W = {} /\ C = {}
    BY SMTT(20), <2>1, <2>3
  <2>4. ASSUME NEW x, (W = {x} /\ C = {}) \/ (C = {x} /\ W = {})
        PROVE  Cardinality(W) + Cardinality(C) <= 1
    <3>1. Cardinality({x}) = 1
      BY <2>2
    <3>2. QED
      BY SMTT(20), <2>1, <2>4, <3>1
  <2>5. QED
    BY <1>2, <2>3, <2>4
<1>4. QED
  BY <1>3 DEF W, C

LEMMA KeptTypes == Kept => TypeOK
<1> SUFFICES ASSUME Kept PROVE TypeOK
  OBVIOUS
<1>1. now \in 1 .. MaxTime /\ lost \in 0 .. MaxTime + 1
  BY DEF Kept, Shapes
<1>2. /\ \A f \in files : f.name \in Names /\ f.map \in Maps \ {NoItems} /\ f.whole \in BOOLEAN
      /\ \A f, g \in files : f.name = g.name => f = g
  BY DEF Kept, Shapes, FilesShaped, File
<1>3. \A x \in vacs : x.name \in Names /\ x.lists \subseteq Names
  BY DEF Kept, Shapes, VacFile
<1>4. \A w \in Writers : writer[w].map \in Maps /\ writer[w].t \in 0 .. now
  BY DEF Kept, Shapes, WritersShaped, WriterState
<1>5. \A r \in Readers : reader[r].at \in 0 .. now
  BY DEF Kept, Shapes
<1>6. \A v \in Vacuums : vacuum[v].todo \subseteq Names /\ (vacuum[v].vacs # {} \/ vacuum[v] = IdleV)
  BY DEF Kept, Shapes, VacuumsShaped, VacuumState
<1>7. QED
  BY <1>1, <1>2, <1>3, <1>4, <1>5, <1>6, KeptOwners DEF TypeOK

\* For any number of sessions, consolidators and vacuums, and whatever of them
\* dies, the state has its type, files have different names and a file that is
\* being written belongs to one process at most (store_array_metadata).
THEOREM MetadataTyped == Spec => []TypeOK
  BY KeptInit, KeptNext, KeptTypes, PTL DEF Spec

\* For any number of sessions, consolidators and vacuums, an array opened at a
\* timestamp shows no metadata item that was put later, unless a session was
\* stored late or a vacuum died between two deletions (Array::load_metadata,
\* Consolidator::consolidate_array_meta, array_vacuum_array_meta).
THEOREM NoLaterItems == Spec => []NoFutureItem
  BY KeptInit, KeptNext, KeptItems, PTL DEF Spec
=============================================================================
