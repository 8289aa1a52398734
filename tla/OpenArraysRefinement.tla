------------------------ MODULE OpenArraysRefinement ------------------------
(***************************************************************************)
(* Opening, closing, reopening and vacuuming arrays implement the lock of  *)
(* module ArrayLock: a step takes or gives back the lock of one thread on  *)
(* one array, or leaves all locks alone.  The theorems that need finite    *)
(* sets of threads and contexts are at the end.                            *)
(***************************************************************************)
EXTENDS OpenArraysRefs, OpenArraysRWLock, FiniteSetTheorems

\* Zenon proves the first-order steps; a step that needs more names SMT.
USE Zenon

-----------------------------------------------------------------------------
(* Every step is a step of the lock, or leaves it alone. *)

Shared == [a \in Arrays |->
  {t \in Threads : \/ <<a, "read">> \in open[t]
                   \/ pc[t] = "load" /\ call[t] = <<a, "read">>}]
Exclusive == [a \in Arrays |-> {t \in Threads : pc[t] = "vacuum" /\ Uri(t) = a}]

LEMMA LockState ==
  /\ Shared = [a \in Arrays |-> {t \in Threads : HasArray(t, a)}]
  /\ Shared' = [a \in Arrays |-> {t \in Threads : HasArray(t, a)'}]
  /\ Exclusive = [a \in Arrays |-> {t \in Threads : Vacuums(t, a)}]
  /\ Exclusive' = [a \in Arrays |-> {t \in Threads : Vacuums(t, a)'}]
  BY DEF Shared, Exclusive, HasArray, Vacuums

LEMMA ShareStep ==
  ASSUME NEW t \in Threads, NEW a \in Arrays, Exclusive[a] = {},
         Shared' = [Shared EXCEPT ![a] = @ \union {t}], Exclusive' = Exclusive
  PROVE  RWLock!Next
<1>1. RWLock!Share(t, a)
  BY DEF RWLock!Share, Shared, Exclusive
<1>2. QED
  BY <1>1 DEF RWLock!Next

LEMMA ExcludeStep ==
  ASSUME NEW t \in Threads, NEW a \in Arrays, Exclusive[a] = {}, Shared[a] = {},
         Exclusive' = [Exclusive EXCEPT ![a] = {t}], Shared' = Shared
  PROVE  RWLock!Next
<1>1. RWLock!Exclude(t, a)
  BY DEF RWLock!Exclude, Shared, Exclusive
<1>2. QED
  BY <1>1 DEF RWLock!Next

LEMMA ReleaseStep ==
  ASSUME NEW ts \in SUBSET Threads, NEW as \in SUBSET Arrays,
         Shared' = [a \in Arrays |-> IF a \in as THEN Shared[a] \ ts ELSE Shared[a]],
         Exclusive' = [a \in Arrays |-> IF a \in as THEN Exclusive[a] \ ts ELSE Exclusive[a]]
  PROVE  RWLock!Next
<1>1. RWLock!Release(ts, as)
  BY DEF RWLock!Release, Shared, Exclusive
<1>2. QED
  BY <1>1 DEF RWLock!Next

\* The other threads have what they had.
LEMMA OthersLocked ==
  ASSUME NEW t \in Threads, Guarantee(t), NEW u \in Threads \ {t}, NEW a
  PROVE  (HasArray(u, a)' <=> HasArray(u, a)) /\ (Vacuums(u, a)' <=> Vacuums(u, a))
  BY DEF Guarantee, HasArray, Vacuums, Uri

LEMMA GivesUp ==
  ASSUME Locking, OneContext, NEW t \in Threads, Guarantee(t),
         \A a \in Arrays : (HasArray(t, a)' => HasArray(t, a)) /\ (Vacuums(t, a)' => Vacuums(t, a))
  PROVE  RWLock!Next
<1> DEFINE as == {a \in Arrays : \/ HasArray(t, a) /\ ~HasArray(t, a)'
                                 \/ Vacuums(t, a) /\ ~Vacuums(t, a)'}
<1>1. ASSUME NEW a \in Arrays, NEW u \in Threads
      PROVE  HasArray(u, a)' <=> HasArray(u, a) /\ ~(a \in as /\ u = t)
  <2>1. CASE u = t
    BY <2>1, ReadOrVacuum
  <2>2. CASE u # t
    BY <2>2, OthersLocked
  <2>3. QED
    BY <2>1, <2>2
<1>2. ASSUME NEW a \in Arrays, NEW u \in Threads
      PROVE  Vacuums(u, a)' <=> Vacuums(u, a) /\ ~(a \in as /\ u = t)
  <2>1. CASE u = t
    BY <2>1, ReadOrVacuum
  <2>2. CASE u # t
    BY <2>2, OthersLocked
  <2>3. QED
    BY <2>1, <2>2
<1>3. as \in SUBSET Arrays /\ {t} \in SUBSET Threads
  OBVIOUS
<1> HIDE DEF as
<1>4. Shared' = [a \in Arrays |-> IF a \in as THEN Shared[a] \ {t} ELSE Shared[a]]
  BY <1>1, LockState
<1>5. Exclusive' = [a \in Arrays |-> IF a \in as THEN Exclusive[a] \ {t} ELSE Exclusive[a]]
  BY <1>2, LockState
<1>6. QED
  BY <1>3, <1>4, <1>5, ReleaseStep

\* A thread that goes on to load an array for reads has taken the lock.
LEMMA Shares ==
  ASSUME Locking', OneContext, NEW t \in Threads, Guarantee(t), NEW a \in Arrays,
         HasArray(t, a)', \A b \in Arrays \ {a} : HasArray(t, b)' <=> HasArray(t, b),
         \A b \in Arrays : Vacuums(t, b)' <=> Vacuums(t, b)
  PROVE  RWLock!Next
<1>1. Exclusive' = Exclusive
  <2>1. \A b \in Arrays, u \in Threads : Vacuums(u, b)' <=> Vacuums(u, b)
    BY OthersLocked
  <2>2. QED
    BY <2>1, LockState
<1>2. Exclusive[a] = {}
  <2>1. \A u \in Threads : ~Vacuums(u, a)'
    BY ExcludedNext DEF OneContext
  <2>2. QED
    BY <1>1, <2>1, LockState
<1>3. Shared' = [Shared EXCEPT ![a] = @ \union {t}]
  <2>1. \A b \in Arrays, u \in Threads : HasArray(u, b)' <=> HasArray(u, b) \/ (u = t /\ b = a)
    BY OthersLocked
  <2>2. QED
    BY <2>1, LockState
<1>4. QED
  BY <1>1, <1>2, <1>3, ShareStep

\* A thread that goes on to vacuum has locked the array exclusively.
LEMMA Excludes ==
  ASSUME Locking', OneContext, NEW t \in Threads, Guarantee(t), NEW a \in Arrays,
         Vacuums(t, a)', \A b \in Arrays : ~Vacuums(t, b),
         \A b \in Arrays \ {a} : ~Vacuums(t, b)',
         \A b \in Arrays : HasArray(t, b)' <=> HasArray(t, b)
  PROVE  RWLock!Next
<1>1. Shared' = Shared
  <2>1. \A b \in Arrays, u \in Threads : HasArray(u, b)' <=> HasArray(u, b)
    BY OthersLocked
  <2>2. QED
    BY <2>1, LockState
<1>2. Shared[a] = {}
  <2>1. \A u \in Threads : ~HasArray(u, a)'
    BY ExcludedNext DEF OneContext
  <2>2. QED
    BY <1>1, <2>1, LockState
<1>3. \A u \in Threads : ~Vacuums(u, a)
  BY ExcludedNext, OthersLocked DEF OneContext
<1>4. Exclusive[a] = {}
  BY <1>3, LockState
<1>5. Exclusive' = [Exclusive EXCEPT ![a] = {t}]
  <2>1. \A b \in Arrays, u \in Threads :
          Vacuums(u, b)' <=> (IF b = a THEN u = t ELSE Vacuums(u, b))
    BY <1>3, OthersLocked
  <2>2. QED
    BY <2>1, LockState
<1>6. QED
  BY <1>1, <1>2, <1>4, <1>5, ExcludeStep

LEMMA ThreadRefines ==
  ASSUME Locking, Locking', NoLeaks, OneContext, NEW t \in Threads, ThreadStep(t)
  PROVE  RWLock!Next
<1>1. Guarantee(t) /\ Settled /\ Held /\ TypeOK
  BY ThreadSteps DEF Locking, Settled, Held, Kept
<1>2. CASE Plain(t)
  BY <1>1, <1>2, GivesUp DEF Plain, HasArray, Vacuums
<1>3. CASE open_load(t)
  <2>1. \A a \in Arrays : ~Vacuums(t, a)'
    BY <1>3, LoadLocking DEF Vacuums
  <2>2. QED
    BY <1>1, <1>3, <2>1, LoadLocking, GivesUp
<1>4. ASSUME UNCHANGED <<open, call>>, pc[t] \notin {"load", "vacuum"}, pc'[t] \notin {"load", "vacuum"}
      PROVE  RWLock!Next
  BY <1>1, <1>4, GivesUp DEF HasArray, Vacuums
<1>5. ASSUME UNCHANGED <<open, call>>, pc[t] \in {"open_entry", "fcntl"}, pc'[t] = "load"
      PROVE  RWLock!Next
  <2>1. call[t] \in Handles
    BY <1>1, <1>5, Here
  <2>2. \A b \in Arrays : ~Vacuums(t, b) /\ ~Vacuums(t, b)'
    BY <1>5 DEF Vacuums
  <2>3. CASE call[t][2] = "read"
    <3>1. PICK a \in Arrays : call[t] = <<a, "read">>
      BY SMTT(20), <2>1, <2>3 DEF Handles
    <3>2. HasArray(t, a)' /\ \A b \in Arrays \ {a} : HasArray(t, b)' <=> HasArray(t, b)
      BY SMTT(20), <1>5, <3>1 DEF HasArray
    <3>3. QED
      BY <1>1, <2>2, <3>2, Shares
  <2>4. CASE call[t][2] # "read"
    <3>1. \A b \in Arrays : HasArray(t, b)' => HasArray(t, b)
      BY SMTT(20), <1>5, <2>4 DEF HasArray
    <3>2. QED
      BY <1>1, <2>2, <3>1, GivesUp
  <2>5. QED
    BY <2>3, <2>4
<1>6. CASE open_lock_entry(t)
  BY <1>4, <1>5, <1>6, EntryLocking
<1>7. CASE open_fcntl(t)
  <2>1. pc[t] = "fcntl" /\ pc'[t] = "load" /\ UNCHANGED <<open, call>>
    BY <1>1, <1>7, GotoFacts DEF open_fcntl, Labels
  <2>2. QED
    BY <1>5, <2>1
<1>8. CASE xlock_fcntl(t)
  <2>1. pc[t] = "xlock_fcntl" /\ pc'[t] = "vacuum" /\ UNCHANGED <<open, call>>
    BY <1>1, <1>8, GotoFacts DEF xlock_fcntl, XLocked, Labels
  <2>2. PICK a \in Arrays : Uri(t) = a
    BY <1>1, <2>1, Here
  <2>3. /\ Vacuums(t, a)' /\ \A b \in Arrays : ~Vacuums(t, b)
        /\ \A b \in Arrays \ {a} : ~Vacuums(t, b)'
        /\ \A b \in Arrays : HasArray(t, b)' <=> HasArray(t, b)
    BY <2>1, <2>2 DEF Vacuums, HasArray, Uri
  <2>4. QED
    BY <1>1, <2>3, Excludes
<1>9. CASE close_file_unlock(t) \/ array_xunlock(t)
  <2>1. pc'[t] = "idle" /\ UNCHANGED open
    BY <1>1, <1>9, ReturnFacts, NotifyFacts DEF close_file_unlock, array_xunlock
  <2>2. QED
    BY <1>1, <2>1, GivesUp DEF HasArray, Vacuums
<1>10. QED
  BY <1>2, <1>3, <1>6, <1>7, <1>8, <1>9, PlainSteps

LEMMA ExitRefines ==
  ASSUME Locking, NEW p \in Processes, process_exit(p)
  PROVE  RWLock!Next
<1> DEFINE ts == {t \in Threads : Proc(t) = p}
<1>1. \A t \in Threads : t \in ts <=> ProcessOf[ContextOf[t]] = p
  BY DEF Proc
<1>2. /\ \A t \in Threads : t \in ts => pc'[t] = "idle" /\ open'[t] = {}
      /\ \A t \in Threads : t \notin ts => pc'[t] = pc[t] /\ call'[t] = call[t] /\ open'[t] = open[t]
  BY <1>1, OpenArraysAssumption DEF process_exit
<1>3. ts \in SUBSET Threads /\ Arrays \in SUBSET Arrays
  OBVIOUS
<1> HIDE DEF ts
<1>4. \A a \in Arrays, t \in Threads :
        /\ HasArray(t, a)' <=> HasArray(t, a) /\ t \notin ts
        /\ Vacuums(t, a)' <=> Vacuums(t, a) /\ t \notin ts
  BY <1>2 DEF HasArray, Vacuums, Uri
<1>5. Shared' = [a \in Arrays |-> IF a \in Arrays THEN Shared[a] \ ts ELSE Shared[a]]
  BY <1>4, LockState
<1>6. Exclusive' = [a \in Arrays |-> IF a \in Arrays THEN Exclusive[a] \ ts ELSE Exclusive[a]]
  BY <1>4, LockState
<1>7. QED
  BY <1>3, <1>5, <1>6, ReleaseStep

-----------------------------------------------------------------------------
(* The theorems.  Threads and Contexts are finite. *)

LEMMA SizesFinite ==
  ASSUME NEW S, IsFiniteSet(S)
  PROVE  Sizes(S)
<1> SUFFICES ASSUME NEW T \in SUBSET S
             PROVE  /\ Cardinality(T) \in Nat /\ Cardinality(T) <= Cardinality(S)
                    /\ Cardinality(T) = 0 <=> T = {}
                    /\ \A x \in S \ T : Cardinality(T \union {x}) = Cardinality(T) + 1
                    /\ \A x \in T : Cardinality(T \ {x}) = Cardinality(T) - 1
  BY DEF Sizes
<1>1. IsFiniteSet(T) /\ Cardinality(T) <= Cardinality(S)
  BY FS_Subset
<1>2. Cardinality(T) \in Nat
  BY <1>1, FS_CardinalityType
<1>3. Cardinality(T) = 0 <=> T = {}
  BY <1>1, FS_EmptySet
<1>4. \A x \in S \ T : Cardinality(T \union {x}) = Cardinality(T) + 1
  BY <1>1, FS_AddElement
<1>5. \A x \in T : Cardinality(T \ {x}) = Cardinality(T) - 1
  BY <1>1, FS_RemoveElement
<1>6. QED
  BY <1>1, <1>2, <1>3, <1>4, <1>5

LEMMA ContextSizes == Sizes(Contexts)
  BY OpenArraysAssumption, SizesFinite

LEMMA ThreadSizes == Sizes(Threads)
  BY OpenArraysAssumption, SizesFinite

LEMMA SettledAlways ==
  ASSUME NoLeaks
  PROVE  Spec => []Settled
<1>1. Settled /\ [Next]_vars => Settled'
  BY StutterSettled, ThreadSettled, ExitSettled DEF Next
<1>2. Init => Settled
  BY InitSettled, ContextSizes
<1>3. QED
  BY <1>1, <1>2, PTL DEF Spec

LEMMA CountedAlways ==
  ASSUME NoMiscounts
  PROVE  Spec => []Counted
<1>1. Counted /\ [Next]_vars => Counted'
  BY StutterCounted, ThreadCounted, ExitCounted DEF Next
<1>2. Init => Counted
  BY InitCounted, ThreadSizes
<1>3. QED
  BY <1>1, <1>2, PTL DEF Spec

\* The reference count of an OpenArray is the number of Array objects that use it,
\* and the OpenArray exists while there is one, however many threads open, close
\* and reopen it and wherever opening fails, unless listing the array directory,
\* reloading the fragments or storing the array metadata fails.
THEOREM ReferencesCounted ==
  ASSUME NoMiscounts
  PROVE  Spec => []RefcountExact
<1>1. Counted => RefcountExact
  BY DEF Counted
<1>2. QED
  BY <1>1, CountedAlways, PTL

\* Opening, closing, reopening and vacuuming implement the reader-writer lock that
\* the rest of the storage manager relies on (array_xlock): an array that a process
\* vacuums is open for reads in no thread of any process, at any step of any of
\* these functions, for any number of threads, processes and arrays; as long as a
\* process has one context and listing directories, fcntl, reloading and storing
\* array metadata do not fail.
THEOREM ImplementsArrayLock ==
  ASSUME NoLeaks, NoMiscounts, OneContext
  PROVE  Spec => ImplementsLock
<1>1. Init => RWLock!Init
  BY DEF Init, RWLock!Init
<1>2. Init => Locking
  BY InitLocking, ContextSizes, ThreadSizes
<1>3. Locking /\ [Next]_vars => Locking'
  BY ThreadLocking, ExitLocking, StutterLocking DEF Next
<1>4. Locking /\ Locking' /\ [Next]_vars => [RWLock!Next]_<<Shared, Exclusive>>
  <2>1. ASSUME UNCHANGED vars PROVE UNCHANGED <<Shared, Exclusive>>
    BY <2>1 DEF vars, Shared, Exclusive, Uri
  <2>2. QED
    BY <2>1, ThreadRefines, ExitRefines DEF Next
<1>5. QED
  BY <1>1, <1>2, <1>3, <1>4, PTL DEF Spec, ImplementsLock, RWLock!Spec, Shared, Exclusive
=============================================================================
