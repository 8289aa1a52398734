--------------------------- MODULE OpenArraysLock ---------------------------
(***************************************************************************)
(* Which mutexes opening, closing, reopening and vacuuming arrays forget,  *)
(* whatever fails; and, while the system calls that take file locks and    *)
(* list directories work, that a process counts the file locks that its    *)
(* contexts have.                                                          *)
(***************************************************************************)
EXTENDS OpenArraysProofs

\* Zenon proves the first-order steps; a step that needs more names SMT.
USE Zenon

\* The mutex of an array that open or reopen may leave locked (listing_fails).
Forgettable(h) == h[2] = "read" /\ "listing" \in Faults

\* A mutex that thread t owns is one that it has where it is, or one of the two
\* that an error path forgets.
OwnedBy(t) ==
  /\ \A c \in Contexts, m \in Modes : map_mtx[c][m] = t => HasMap(t, c, m)
  /\ \A c \in Contexts :
       xlock_mtx[c] = t => ContextOf[t] = c /\ (HasX(t, c) \/ xfilelocks[c] # {})
  /\ \A c \in Contexts, h \in Handles :
       entry[c][h].mtx = t => HasEntry(t, c, h) \/ Forgettable(h)
  /\ \A p \in Processes : filelock_mtx[p] = t => HasFile(t, p)

\* A thread that vacuums has its array among the xfilelocks_ of its context.
Excluding(t) == pc[t] = "vacuum" => Uri(t) \in xfilelocks[ContextOf[t]]

\* The inductive invariant about forgotten mutexes, whatever fails.
Owned ==
  /\ Held
  /\ \A t \in Threads : OwnedBy(t) /\ Excluding(t)

\* Listing an array directory and fcntl do not fail: when they do, the code
\* returns with a mutex locked, or with a file lock that it does not have.
NoLeaks == "listing" \notin Faults /\ "fcntl" \notin Faults

ReadEntry(c, a) == entry[c][<<a, "read">>]

\* The contexts of process p that have a file lock on array a.
HasLock(c, a) == ReadEntry(c, a).filelock \/ a \in xfilelocks[c]
LockedBy(p, a) == {c \in Contexts : ProcessOf[c] = p /\ HasLock(c, a)}

\* process_filelocks_ counts them.
FilesCounted ==
  \A p \in Processes, a \in Arrays : filelocks[p][a] = Cardinality(LockedBy(p, a))

\* An exclusive lock belongs to a thread that vacuums.
XLocksUsed ==
  \A c \in Contexts, a \in Arrays :
    a \in xfilelocks[c] => \E t \in Threads : ContextOf[t] = c /\ pc[t] = "vacuum" /\ Uri(t) = a

\* What thread t finds of the file locks where it is.
FindsFile(t) ==
  /\ pc[t] = "vacuum" => Uri(t) \in xfilelocks[ContextOf[t]]
  /\ pc[t] \in {"file_lock", "fcntl"} => ~Entry(t).filelock
  /\ pc[t] = "file_unlock" => Entry(t).filelock
  /\ pc[t] \in FileLabels => filelocks[Proc(t)][Uri(t)] = 0

\* What is used of the sizes of the subsets of S: that it is finite.
Sizes(S) ==
  \A T \in SUBSET S :
    /\ Cardinality(T) \in Nat /\ Cardinality(T) <= Cardinality(S)
    /\ Cardinality(T) = 0 <=> T = {}
    /\ \A x \in S \ T : Cardinality(T \union {x}) = Cardinality(T) + 1
    /\ \A x \in T : Cardinality(T \ {x}) = Cardinality(T) - 1

\* The inductive invariant while nothing leaks.
Settled ==
  /\ Sizes(Contexts)
  /\ Held
  /\ \A t \in Threads : FindsFile(t)
  /\ FilesCounted
  /\ XLocksUsed

-----------------------------------------------------------------------------
(* The mutexes that are forgotten, whatever fails. *)

\* A thread takes an array out of xfilelocks_ only while it has xlock_mtx_.
XFilesGuarded(t) ==
  \A c \in Contexts : xlock_mtx[c] # t => xfilelocks[c] \subseteq xfilelocks'[c]

\* What a step of thread t does to xfilelocks_.
XFilesStep(t) ==
  \/ UNCHANGED xfilelocks /\ pc'[t] # "vacuum"
  \/ XLocked(t) /\ UNCHANGED call
  \/ array_xunlock(t)

LEMMA XFilesSteps ==
  ASSUME Held, NEW t \in Threads, ThreadStep(t)
  PROVE  XFilesStep(t)
<1>1. pc \in [Threads -> Labels]
  BY DEF Held, TypeOK
<1>2. ASSUME NEW h \in Handles, array_open(t, h) \/ array_close(t, h) \/ array_reopen(t, h)
      PROVE  XFilesStep(t)
  BY SMT, <1>1, <1>2 DEF XFilesStep, array_open, array_close, array_reopen, Goto
<1>3. ASSUME NEW a \in Arrays, array_vacuum(t, a) PROVE XFilesStep(t)
  BY SMT, <1>1, <1>3 DEF XFilesStep, array_vacuum, Goto
<1>4. CASE \/ open_lock_reads(t) \/ open_lock_xlock(t) \/ open_lock_writes(t)
           \/ open_key_differs(t) \/ open_lock_entry(t)
  BY SMT, <1>1, <1>4
  DEF XFilesStep, open_lock_reads, open_lock_xlock, open_lock_writes, open_key_differs,
      open_lock_entry, Goto, Return
<1>5. CASE open_file_lock(t) \/ open_fcntl(t) \/ open_file_lock_fails(t)
  BY SMT, <1>1, <1>5 DEF XFilesStep, open_file_lock, open_fcntl, open_file_lock_fails, Goto
<1>6. CASE \/ open_load(t) \/ open_load_fails(t) \/ listing_fails(t)
           \/ reopen_load(t) \/ reopen_load_fails(t)
  BY SMT, <1>1, <1>6
  DEF XFilesStep, open_load, open_load_fails, listing_fails, reopen_load, reopen_load_fails, Goto,
      Return
<1>7. CASE close_lock_map(t) \/ close_store_fails(t) \/ reopen_lock_map(t) \/ reopen_lock_entry(t)
  BY SMT, <1>1, <1>7
  DEF XFilesStep, close_lock_map, close_store_fails, reopen_lock_map, reopen_lock_entry, Goto, Return
<1>8. CASE close_lock_entry(t) \/ close_file_unlock(t)
  <2>1. UNCHANGED xfilelocks
    BY <1>8 DEF close_lock_entry, close_file_unlock
  <2>2. Goto(t, "file_unlock") \/ Return(t) \/ ReturnNotify(t)
    BY <1>8 DEF close_lock_entry, close_file_unlock
  <2>3. pc'[t] # "vacuum"
    BY SMT, <1>1, <2>2 DEF Goto, Return, ReturnNotify
  <2>4. QED
    BY <2>1, <2>3 DEF XFilesStep
<1>9. CASE xlock_lock_xlock(t) \/ xlock_lock_reads(t) \/ xlock_fails(t)
  BY SMT, <1>1, <1>9 DEF XFilesStep, xlock_lock_xlock, xlock_lock_reads, xlock_fails, Goto, Return
<1>10. CASE xlock_file_lock(t) \/ xlock_fcntl(t) \/ array_xunlock(t)
  BY SMT, <1>1, <1>10 DEF XFilesStep, xlock_file_lock, xlock_fcntl, Goto
<1>11. QED
  BY <1>2, <1>3, <1>4, <1>5, <1>6, <1>7, <1>8, <1>9, <1>10 DEF ThreadStep

LEMMA XFilesKept ==
  ASSUME Owned, NEW t \in Threads, XFilesStep(t)
  PROVE  XFilesGuarded(t) /\ Excluding(t)'
<1>1. /\ xfilelocks \in [Contexts -> SUBSET Arrays] /\ ContextOf[t] \in Contexts
      /\ pc \in [Threads -> Labels]
  BY OpenArraysAssumption DEF Owned, Held, TypeOK
<1>2. CASE UNCHANGED xfilelocks /\ pc'[t] # "vacuum"
  BY <1>2 DEF XFilesGuarded, Excluding
<1>3. CASE XLocked(t) /\ UNCHANGED call
  <2>1. xfilelocks'[ContextOf[t]] = xfilelocks[ContextOf[t]] \union {Uri(t)} /\ Uri(t)' = Uri(t)
    BY <1>1, <1>3 DEF XLocked, Uri
  <2>2. \A c \in Contexts \ {ContextOf[t]} : xfilelocks'[c] = xfilelocks[c]
    BY <1>1, <1>3 DEF XLocked
  <2>3. QED
    BY <1>1, <2>1, <2>2 DEF XFilesGuarded, Excluding
<1>4. CASE array_xunlock(t)
  <2>1. pc'[t] = "idle"
    BY SMT, <1>1, <1>4 DEF array_xunlock, Return
  <2>2. xlock_mtx[ContextOf[t]] = t
    BY <1>4, Here DEF array_xunlock, XLabels, Owned
  <2>3. \A c \in Contexts \ {ContextOf[t]} : xfilelocks'[c] = xfilelocks[c]
    BY <1>1, <1>4 DEF array_xunlock
  <2>4. QED
    BY <2>1, <2>2, <2>3 DEF XFilesGuarded, Excluding
<1>5. QED
  BY <1>2, <1>3, <1>4 DEF XFilesStep

LEMMA OthersOwned ==
  ASSUME Owned, TypeOK', NEW t \in Threads, Guarantee(t), XFilesGuarded(t),
         NEW u \in Threads \ {t}
  PROVE  OwnedBy(u)' /\ Excluding(u)'
<1>1. /\ OwnedBy(u) /\ Excluding(u) /\ Held /\ u # NoThread /\ u # t /\ call'[u] = call[u]
      /\ pc'[u] = pc[u] \/ (pc[u] = "xlock_wait" /\ pc'[u] = "xlock_reads")
  BY OpenArraysAssumption DEF Owned, Guarantee
<1>2. ASSUME NEW c \in Contexts, NEW m \in Modes, map_mtx'[c][m] = u PROVE HasMap(u, c, m)'
  BY SMT, <1>1, <1>2 DEF Guarantee, Passed, OwnedBy, HasMap, MapLabels, Mode
<1>3. ASSUME NEW c \in Contexts, xlock_mtx'[c] = u
      PROVE  ContextOf[u] = c /\ (HasX(u, c)' \/ xfilelocks'[c] # {})
  <2>1. xlock_mtx[c] = u /\ xlock_mtx[c] # t
    BY <1>1, <1>3 DEF Guarantee, Passed
  <2>2. xfilelocks[c] # {} => xfilelocks'[c] # {}
    BY <2>1 DEF XFilesGuarded
  <2>3. QED
    BY <1>1, <2>1, <2>2 DEF OwnedBy, HasX, XLabels, Mode
<1>4. ASSUME NEW c \in Contexts, NEW h \in Handles, entry'[c][h].mtx = u
      PROVE  HasEntry(u, c, h)' \/ Forgettable(h)
  BY <1>1, <1>4 DEF Guarantee, Passed, OwnedBy, HasEntry, EntryLabels
<1>5. ASSUME NEW p \in Processes, filelock_mtx'[p] = u PROVE HasFile(u, p)'
  BY <1>1, <1>5 DEF Guarantee, Passed, OwnedBy, HasFile, FileLabels, Proc
<1>6. Excluding(u)'
  <2>1. CASE pc'[u] = "vacuum"
    <3>1. pc[u] = "vacuum" /\ Uri(u)' = Uri(u) /\ Uri(u) \in xfilelocks[ContextOf[u]]
      BY <1>1, <2>1 DEF Excluding, Uri
    <3>2. xlock_mtx[ContextOf[u]] = u /\ ContextOf[u] \in Contexts
      BY <1>1, <3>1, Here DEF XLabels
    <3>3. QED
      BY <1>1, <3>1, <3>2 DEF XFilesGuarded, Excluding
  <2>2. QED
    BY <2>1 DEF Excluding
<1>7. QED
  BY <1>2, <1>3, <1>4, <1>5, <1>6 DEF OwnedBy

\* Thread t keeps, takes or gives back each mutex as the label it goes to says.
MapSettled(t) == \A c \in Contexts, m \in Modes : map_mtx'[c][m] = t => HasMap(t, c, m)'
XSettled(t) ==
  \A c \in Contexts :
    xlock_mtx'[c] = t => ContextOf[t] = c /\ (HasX(t, c)' \/ xfilelocks'[c] # {})
EntrySettled(t) ==
  \A c \in Contexts, h \in Handles :
    entry'[c][h].mtx = t => HasEntry(t, c, h)' \/ Forgettable(h)
FileSettled(t) == \A p \in Processes : filelock_mtx'[p] = t => HasFile(t, p)'

LEMMA MapReleased ==
  ASSUME Owned, NEW t \in Threads, NEW m \in Modes
  PROVE  /\ UNCHANGED map_mtx /\ (pc[t] \in MapLabels => pc'[t] \in MapLabels /\ call'[t] = call[t])
              => MapSettled(t)
         /\ Lock(t, m) /\ pc[t] \notin MapLabels /\ pc'[t] \in MapLabels /\ call'[t][2] = m
              => MapSettled(t)
         /\ Unlock(t, m) /\ Mode(t) = m => MapSettled(t)
<1>1. OwnedBy(t) /\ TypeOK /\ t # NoThread
  BY OpenArraysAssumption DEF Owned, Held
<1>2. ASSUME UNCHANGED map_mtx, pc[t] \in MapLabels => pc'[t] \in MapLabels /\ call'[t] = call[t]
      PROVE  MapSettled(t)
  BY <1>1, <1>2 DEF MapSettled, OwnedBy, HasMap, Mode
<1>3. ASSUME Lock(t, m), pc[t] \notin MapLabels, pc'[t] \in MapLabels, call'[t][2] = m
      PROVE  MapSettled(t)
  BY SMT, <1>1, <1>3, MapFacts DEF MapMutex, MapSettled, OwnedBy, HasMap, Mode
<1>4. ASSUME Unlock(t, m), Mode(t) = m PROVE MapSettled(t)
  BY SMT, <1>1, <1>4, MapFacts DEF MapMutex, MapSettled, OwnedBy, HasMap
<1>5. QED
  BY <1>2, <1>3, <1>4

LEMMA XReleased ==
  ASSUME Owned, NEW t \in Threads
  PROVE  /\ /\ UNCHANGED xlock_mtx /\ (UNCHANGED xfilelocks \/ XLocked(t))
            /\ HasX(t, ContextOf[t]) => HasX(t, ContextOf[t])'
            => XSettled(t)
         /\ LockX(t) /\ HasX(t, ContextOf[t])' => XSettled(t)
         /\ UnlockX(t) => XSettled(t)
<1>1. OwnedBy(t) /\ TypeOK /\ t # NoThread
  BY OpenArraysAssumption DEF Owned, Held
<1>2. ASSUME UNCHANGED xlock_mtx, UNCHANGED xfilelocks \/ XLocked(t),
             HasX(t, ContextOf[t]) => HasX(t, ContextOf[t])'
      PROVE  XSettled(t)
  <2>1. ASSUME NEW c \in Contexts, xfilelocks[c] # {} PROVE xfilelocks'[c] # {}
    <3>1. xfilelocks \in [Contexts -> SUBSET Arrays]
      BY <1>1 DEF TypeOK
    <3>2. CASE XLocked(t)
      BY SMT, <2>1, <3>1, <3>2 DEF XLocked
    <3>3. QED
      BY <1>2, <2>1, <3>2
  <2>2. QED
    BY <1>1, <1>2, <2>1 DEF XSettled, OwnedBy
<1>3. ASSUME LockX(t), HasX(t, ContextOf[t])' PROVE XSettled(t)
  <2>1. XMutex(t, t)
    BY <1>1, <1>3, XFacts
  <2>2. ASSUME NEW c \in Contexts, xlock_mtx'[c] = t PROVE c = ContextOf[t]
    BY <1>1, <2>1, <2>2 DEF XMutex, OwnedBy
  <2>3. QED
    BY <1>3, <2>2 DEF XSettled
<1>4. ASSUME UnlockX(t) PROVE XSettled(t)
  BY SMT, <1>1, <1>4, XFacts DEF XMutex, XSettled, OwnedBy
<1>5. QED
  BY <1>2, <1>3, <1>4

LEMMA EntryReleased ==
  ASSUME Owned, NEW t \in Threads
  PROVE  /\ UNCHANGED entry /\ (pc[t] \in EntryLabels => pc'[t] \in EntryLabels /\ call'[t] = call[t])
              => EntrySettled(t)
         /\ \A e \in EntryState :
              /\ call[t] \in Handles /\ SetEntry(t, e)
              /\ e.mtx = t => \/ pc'[t] \in EntryLabels /\ call'[t] = call[t]
                             \/ Forgettable(call[t])
              => EntrySettled(t)
<1>1. OwnedBy(t) /\ TypeOK /\ t # NoThread
  BY OpenArraysAssumption DEF Owned, Held
<1>2. ASSUME UNCHANGED entry, pc[t] \in EntryLabels => pc'[t] \in EntryLabels /\ call'[t] = call[t]
      PROVE  EntrySettled(t)
  BY <1>1, <1>2 DEF EntrySettled, OwnedBy, HasEntry
<1>3. ASSUME NEW e \in EntryState, call[t] \in Handles, SetEntry(t, e),
             e.mtx = t => (pc'[t] \in EntryLabels /\ call'[t] = call[t]) \/ Forgettable(call[t])
      PROVE  EntrySettled(t)
  BY SMT, <1>1, <1>3, EntryFacts DEF EntryBecomes, EntrySettled, OwnedBy, HasEntry
<1>4. QED
  BY <1>2, <1>3

LEMMA FileReleased ==
  ASSUME Owned, NEW t \in Threads
  PROVE  /\ UNCHANGED filelock_mtx /\ (pc[t] \in FileLabels => pc'[t] \in FileLabels)
              => FileSettled(t)
         /\ \A u : FileMutex(t, u) /\ (u = t => pc'[t] \in FileLabels) => FileSettled(t)
<1>1. OwnedBy(t) /\ TypeOK /\ t # NoThread
  BY OpenArraysAssumption DEF Owned, Held
<1>2. ASSUME UNCHANGED filelock_mtx, pc[t] \in FileLabels => pc'[t] \in FileLabels
      PROVE  FileSettled(t)
  BY <1>1, <1>2 DEF FileSettled, OwnedBy, HasFile, Proc
<1>3. ASSUME NEW u, FileMutex(t, u), u = t => pc'[t] \in FileLabels PROVE FileSettled(t)
  BY <1>1, <1>3 DEF FileMutex, FileSettled, OwnedBy, HasFile, Proc
<1>4. QED
  BY <1>2, <1>3

LEMMA AllSettled ==
  ASSUME NEW t \in Threads, MapSettled(t), XSettled(t), EntrySettled(t), FileSettled(t)
  PROVE  OwnedBy(t)'
  BY DEF MapSettled, XSettled, EntrySettled, FileSettled, OwnedBy

LEMMA CallOwned ==
  ASSUME Owned, NEW t \in Threads, pc[t] = "idle",
         UNCHANGED <<map_mtx, xlock_mtx, entry, xfilelocks, fileVars>>
  PROVE  OwnedBy(t)'
<1>1. MapSettled(t)
  BY MapReleased DEF MapLabels, Modes
<1>2. XSettled(t)
  BY XReleased DEF HasX, XLabels
<1>3. EntrySettled(t)
  BY EntryReleased DEF EntryLabels
<1>4. FileSettled(t)
  BY FileReleased DEF FileLabels, fileVars
<1>5. QED
  BY <1>1, <1>2, <1>3, <1>4, AllSettled

LEMMA OpenOwned ==
  ASSUME Owned, NEW t \in Threads,
         \/ open_lock_reads(t) \/ open_lock_xlock(t) \/ open_lock_writes(t)
         \/ open_key_differs(t) \/ open_lock_entry(t)
  PROVE  OwnedBy(t)'
<1>1. pc[t] \in {"open", "open_xlock", "open_entry"}
  BY DEF open_lock_reads, open_lock_xlock, open_lock_writes, open_key_differs, open_lock_entry
<1>2. /\ Held /\ TypeOK /\ t # NoThread
      /\ call[t] \in Handles /\ Entry(t) \in EntryState /\ Mode(t) = call[t][2] /\ Mode(t) \in Modes
      /\ pc[t] = "open_xlock" => Mode(t) = "read"
  BY <1>1, Here, OpenArraysAssumption DEF Owned, Held, Finds, ReadLabels
<1>3. FileSettled(t)
  BY <1>1, FileReleased
  DEF open_lock_reads, open_lock_xlock, open_lock_writes, open_key_differs, open_lock_entry,
      FileLabels, fileVars
<1>4. ASSUME FindOrCreate(t), Entry(t).mtx = t => Forgettable(call[t]) PROVE EntrySettled(t)
  <2> DEFINE e == [Entry(t) EXCEPT !.present = TRUE]
  <2>1. e \in EntryState /\ e.mtx = Entry(t).mtx /\ SetEntry(t, e)
    BY <1>2, <1>4 DEF EntryState, FindOrCreate
  <2> HIDE DEF e
  <2>2. QED
    BY <1>2, <1>4, <2>1, EntryReleased
<1>5. Entry(t).mtx = t => Forgettable(call[t])
  BY SMT, <1>1, <1>2, OpenArraysAssumption DEF Owned, OwnedBy, HasEntry, EntryLabels, Entry
<1>6. CASE open_lock_reads(t)
  <2>1. pc[t] = "open" /\ pc'[t] = "open_xlock" /\ call'[t] = call[t] /\ Mode(t) = "read"
    BY <1>2, <1>6, GotoFacts DEF open_lock_reads, Labels
  <2>2. MapSettled(t)
    BY <1>2, <1>6, <2>1, MapReleased DEF open_lock_reads, MapLabels
  <2>3. XSettled(t)
    BY <1>6, <2>1, XReleased DEF open_lock_reads, HasX, XLabels
  <2>4. EntrySettled(t)
    BY <1>6, <2>1, EntryReleased DEF open_lock_reads, EntryLabels
  <2>5. QED
    BY <1>3, <2>2, <2>3, <2>4, AllSettled
<1>7. CASE open_lock_xlock(t)
  <2>1. /\ pc[t] = "open_xlock" /\ pc'[t] = "open_entry" /\ call'[t] = call[t]
        /\ Mode(t)' = "read"
    BY <1>2, <1>7, GotoFacts DEF open_lock_xlock, Labels, Mode
  <2>2. MapSettled(t)
    BY <1>2, <1>7, <2>1, MapReleased DEF open_lock_xlock, MapLabels
  <2>3. XSettled(t)
    BY <1>7, <2>1, XReleased DEF open_lock_xlock, HasX
  <2>4. EntrySettled(t)
    BY <1>4, <1>5, <1>7, <2>1 DEF open_lock_xlock
  <2>5. QED
    BY <1>3, <2>2, <2>3, <2>4, AllSettled
<1>8. CASE open_lock_writes(t)
  <2>1. /\ pc[t] = "open" /\ pc'[t] = "open_entry" /\ call'[t] = call[t] /\ Mode(t) = "write"
    BY <1>2, <1>8, GotoFacts DEF open_lock_writes, Labels
  <2>2. MapSettled(t)
    BY <1>2, <1>8, <2>1, MapReleased DEF open_lock_writes, MapLabels
  <2>3. XSettled(t)
    BY <1>8, <2>1, XReleased DEF open_lock_writes, HasX, XLabels
  <2>4. EntrySettled(t)
    BY <1>4, <1>5, <1>8, <2>1 DEF open_lock_writes
  <2>5. QED
    BY <1>3, <2>2, <2>3, <2>4, AllSettled
<1>9. CASE open_key_differs(t)
  <2>1. pc[t] \in {"open", "open_xlock"}
    BY <1>9 DEF open_key_differs
  <2>2. MapSettled(t)
    <3>1. CASE pc[t] = "open_xlock" /\ Unlock(t, "read")
      BY <1>2, <3>1, MapReleased
    <3>2. CASE pc[t] = "open" /\ UNCHANGED map_mtx
      BY <1>2, <3>2, MapReleased DEF MapLabels
    <3>3. QED
      BY <1>9, <3>1, <3>2 DEF open_key_differs
  <2>3. XSettled(t)
    BY <1>9, <2>1, XReleased DEF open_key_differs, HasX, XLabels
  <2>4. EntrySettled(t)
    BY <1>9, <2>1, EntryReleased DEF open_key_differs, EntryLabels
  <2>5. QED
    BY <1>3, <2>2, <2>3, <2>4, AllSettled
<1>10. CASE open_lock_entry(t)
  <2> DEFINE e == [Entry(t) EXCEPT !.cnt = cnt_incr(@), !.mtx = t]
  <2>1. e \in EntryState
    <3>1. cnt_incr(Entry(t).cnt) \in 0 .. CntModulus - 1
      BY SMT, <1>2, CntFacts DEF EntryState
    <3>2. QED
      BY <1>2, <3>1 DEF EntryState
  <2>2. pc[t] = "open_entry" /\ pc'[t] \in {"file_lock", "load"} /\ call'[t] = call[t]
        /\ SetEntry(t, e)
    BY <1>2, <1>10, GotoFacts DEF open_lock_entry, Labels
  <2> HIDE DEF e
  <2>3. MapSettled(t)
    BY <1>2, <1>10, MapReleased DEF open_lock_entry
  <2>4. XSettled(t)
    <3>1. CASE UnlockX(t)
      BY <3>1, XReleased
    <3>2. CASE Mode(t) # "read" /\ UNCHANGED <<xlock_mtx, xfilelocks>>
      BY <2>2, <3>2, XReleased DEF HasX, XLabels
    <3>3. QED
      BY <1>10, <3>1, <3>2 DEF open_lock_entry
  <2>5. EntrySettled(t)
    BY <1>2, <2>1, <2>2, EntryReleased DEF EntryLabels
  <2>6. QED
    BY <1>3, <2>3, <2>4, <2>5, AllSettled
<1>11. QED
  BY <1>6, <1>7, <1>8, <1>9, <1>10

LEMMA FileLockOwned ==
  ASSUME Owned, NEW t \in Threads, open_file_lock(t) \/ open_fcntl(t) \/ open_file_lock_fails(t)
  PROVE  OwnedBy(t)'
<1>1. pc[t] \in {"file_lock", "fcntl"}
  BY DEF open_file_lock, open_fcntl, open_file_lock_fails
<1>2. /\ Held /\ TypeOK /\ t # NoThread
      /\ call[t] \in Handles /\ Entry(t) \in EntryState
      /\ UNCHANGED call
  BY <1>1, Here, OpenArraysAssumption DEF Owned, Held, open_file_lock, open_fcntl, open_file_lock_fails
<1>3. pc'[t] \in {"fcntl", "load", "undo"}
  BY <1>2, GotoFacts DEF Labels, open_file_lock, open_fcntl, open_file_lock_fails
<1>4. MapSettled(t)
  BY <1>1, MapReleased DEF open_file_lock, open_fcntl, open_file_lock_fails, MapLabels, Modes
<1>5. XSettled(t)
  BY <1>1, XReleased DEF open_file_lock, open_fcntl, open_file_lock_fails, HasX, XLabels
<1>6. EntrySettled(t)
  <2>1. CASE UNCHANGED entry /\ pc'[t] = "fcntl"
    BY <1>2, <2>1, EntryReleased DEF EntryLabels
  <2>2. CASE SetEntry(t, [Entry(t) EXCEPT !.filelock = TRUE]) /\ pc'[t] = "load"
    <3>1. [Entry(t) EXCEPT !.filelock = TRUE] \in EntryState
      BY <1>2 DEF EntryState
    <3>2. QED
      BY <1>2, <2>2, <3>1, EntryReleased DEF EntryLabels
  <2>3. CASE \/ SetEntry(t, [Entry(t) EXCEPT !.mtx = NoThread])
             \/ SetEntry(t, [Entry(t) EXCEPT !.mtx = NoThread, !.filelock = TRUE])
    <3> DEFINE f == [Entry(t) EXCEPT !.mtx = NoThread]
               g == [Entry(t) EXCEPT !.mtx = NoThread, !.filelock = TRUE]
    <3>0. f \in EntryState /\ f.mtx = NoThread /\ g \in EntryState /\ g.mtx = NoThread
      BY <1>2 DEF EntryState
    <3>1. PICK e \in EntryState : SetEntry(t, e) /\ e.mtx = NoThread
      BY <2>3, <3>0
    <3>2. QED
      BY <1>2, <3>1, EntryReleased
  <2>4. QED
    BY <1>2, <2>1, <2>2, <2>3, GotoFacts
    DEF open_file_lock, open_fcntl, open_file_lock_fails, Labels
<1>7. FileSettled(t)
  <2>1. CASE open_file_lock(t)
    <3>1. pc[t] = "file_lock"
      BY <2>1 DEF open_file_lock
    <3>2. CASE filelock_counted(t)
      BY <3>1, <3>2, FileReleased DEF filelock_counted, FileLabels
    <3>3. CASE filelock_wait(t) /\ Goto(t, "fcntl")
      BY <1>2, <3>3, FileFacts, GotoFacts, FileReleased DEF FileLabels, Labels
    <3>4. QED
      BY <2>1, <3>2, <3>3 DEF open_file_lock
  <2>2. CASE open_fcntl(t)
    BY <1>2, <2>2, FileFacts, FileReleased DEF open_fcntl
  <2>3. CASE open_file_lock_fails(t)
    <3>1. CASE pc[t] = "file_lock" /\ UNCHANGED fileVars
      BY <3>1, FileReleased DEF fileVars, FileLabels
    <3>2. CASE filelock_refused(t)
      BY <1>2, <3>2, FileFacts, FileReleased
    <3>3. QED
      BY <2>3, <3>1, <3>2 DEF open_file_lock_fails
  <2>4. QED
    BY <2>1, <2>2, <2>3
<1>8. QED
  BY <1>4, <1>5, <1>6, <1>7, AllSettled

LEMMA LoadOwned ==
  ASSUME Owned, NEW t \in Threads,
         open_load(t) \/ open_load_fails(t) \/ reopen_load(t) \/ reopen_load_fails(t)
  PROVE  OwnedBy(t)'
<1>1. pc[t] \in {"load", "reopen_load"}
  BY DEF open_load, open_load_fails, reopen_load, reopen_load_fails
<1>2. t # NoThread /\ call[t] \in Handles /\ Entry(t) \in EntryState
  BY <1>1, Here, OpenArraysAssumption DEF Owned
<1>3. MapSettled(t)
  BY <1>1, MapReleased
  DEF open_load, open_load_fails, reopen_load, reopen_load_fails, MapLabels, Modes
<1>4. XSettled(t)
  BY <1>1, XReleased DEF open_load, open_load_fails, reopen_load, reopen_load_fails, HasX, XLabels
<1>5. FileSettled(t)
  BY <1>1, FileReleased
  DEF open_load, open_load_fails, reopen_load, reopen_load_fails, fileVars, FileLabels
<1>6. EntrySettled(t)
  <2>1. PICK e \in EntryState : SetEntry(t, e) /\ e.mtx = NoThread
    BY SMT, <1>2 DEF EntryState, open_load, open_load_fails, reopen_load, reopen_load_fails
  <2>2. QED
    BY <1>2, <2>1, EntryReleased
<1>7. QED
  BY <1>3, <1>4, <1>5, <1>6, AllSettled

LEMMA MapOwned ==
  ASSUME Owned, NEW t \in Threads,
         \/ close_lock_map(t) \/ close_store_fails(t) \/ reopen_lock_map(t)
         \/ xlock_lock_xlock(t) \/ xlock_lock_reads(t)
  PROVE  OwnedBy(t)'
<1>1. pc[t] \in {"close", "undo", "reopen", "xlock", "xlock_reads"}
  BY DEF close_lock_map, close_store_fails, reopen_lock_map, xlock_lock_xlock, xlock_lock_reads
<1>2. /\ Held /\ TypeOK /\ t # NoThread
      /\ call[t] \in Handles /\ Mode(t) = call[t][2] /\ Mode(t) \in Modes
      /\ pc[t] \in {"reopen", "xlock", "xlock_reads"} => Mode(t) = "read"
  BY <1>1, Here, OpenArraysAssumption DEF Owned, Held, Finds, ReadLabels, XLabels
<1>3. EntrySettled(t)
  BY <1>1, EntryReleased
  DEF EntryLabels, close_lock_map, close_store_fails, reopen_lock_map, xlock_lock_xlock, xlock_lock_reads
<1>4. FileSettled(t)
  BY <1>1, FileReleased
  DEF FileLabels, fileVars, close_lock_map, close_store_fails, reopen_lock_map, xlock_lock_xlock,
      xlock_lock_reads
<1>5. MapSettled(t)
  <2>1. CASE UNCHANGED map_mtx
    BY <1>1, <2>1, MapReleased DEF MapLabels, Modes
  <2>2. ASSUME NEW l \in MapLabels, Goto(t, l), UNCHANGED call, Lock(t, Mode(t)) PROVE MapSettled(t)
    <3>1. pc'[t] = l
      BY SMT, <1>2, <2>2, GotoFacts DEF MapLabels, Labels
    <3>2. QED
      BY <1>1, <1>2, <2>2, <3>1, MapReleased DEF MapLabels
  <2>3. CASE close_lock_map(t)
    BY <2>1, <2>2, <2>3 DEF close_lock_map, MapLabels
  <2>4. CASE reopen_lock_map(t)
    BY <1>2, <2>1, <2>2, <2>4 DEF reopen_lock_map, MapLabels
  <2>5. CASE xlock_lock_reads(t)
    BY <1>2, <2>1, <2>2, <2>5 DEF xlock_lock_reads, MapLabels
  <2>6. QED
    BY <2>1, <2>3, <2>4, <2>5 DEF close_store_fails, xlock_lock_xlock
<1>6. XSettled(t)
  <2>1. CASE xlock_lock_xlock(t)
    <3>1. pc'[t] = "xlock_reads"
      BY <1>2, <2>1, GotoFacts DEF xlock_lock_xlock, Labels
    <3>2. QED
      BY <2>1, <3>1, XReleased DEF xlock_lock_xlock, HasX, XLabels
  <2>2. CASE xlock_lock_reads(t)
    <3>1. pc'[t] \in {"xlock_file", "xlock_wait"} /\ UNCHANGED <<xlock_mtx, xfilelocks>>
      BY <1>2, <2>2, GotoFacts DEF xlock_lock_reads, Labels
    <3>2. QED
      BY <3>1, XReleased DEF HasX, XLabels
  <2>3. CASE pc[t] \in {"close", "undo", "reopen"} /\ UNCHANGED <<xlock_mtx, xfilelocks>>
    BY <2>3, XReleased DEF HasX, XLabels
  <2>4. QED
    BY <2>1, <2>2, <2>3 DEF close_lock_map, close_store_fails, reopen_lock_map
<1>7. QED
  BY <1>3, <1>4, <1>5, <1>6, AllSettled

LEMMA CloseOwned ==
  ASSUME Owned, NEW t \in Threads, close_lock_entry(t) \/ close_file_unlock(t) \/ reopen_lock_entry(t)
  PROVE  OwnedBy(t)'
<1>1. pc[t] \in {"close_entry", "file_unlock", "reopen_entry"}
  BY DEF close_lock_entry, close_file_unlock, reopen_lock_entry
<1>2. /\ Held /\ TypeOK /\ t # NoThread
      /\ call[t] \in Handles /\ Entry(t) \in EntryState /\ Mode(t) = call[t][2] /\ Mode(t) \in Modes
      /\ pc[t] \in {"file_unlock", "reopen_entry"} => Mode(t) = "read"
      /\ NoEntry \in EntryState /\ NoEntry.mtx = NoThread
  <2>1. 0 \in 0 .. CntModulus - 1
    BY SMT, CntFacts
  <2>2. NoEntry \in EntryState /\ NoEntry.mtx = NoThread
    BY <2>1 DEF NoEntry, EntryState
  <2>3. QED
    BY <1>1, <2>2, Here, OpenArraysAssumption DEF Owned, Held, Finds, ReadLabels
<1>3. XSettled(t)
  BY <1>1, XReleased DEF close_lock_entry, close_file_unlock, reopen_lock_entry, HasX, XLabels
<1>4. FileSettled(t)
  <2>1. UNCHANGED filelock_mtx
    BY DEF close_lock_entry, close_file_unlock, reopen_lock_entry, fileVars, filelock_unlock,
           filelock_missing
  <2>2. QED
    BY <1>1, <2>1, FileReleased DEF FileLabels
<1>5. MapSettled(t)
  <2>1. CASE Unlock(t, Mode(t))
    BY <1>2, <2>1, MapReleased
  <2>2. CASE UNCHANGED <<call, map_mtx>> /\ Goto(t, "file_unlock")
    BY <1>2, <2>2, GotoFacts, MapReleased DEF Labels, MapLabels
  <2>3. QED
    BY <1>2, <2>1, <2>2 DEF close_lock_entry, close_file_unlock, reopen_lock_entry
<1>6. EntrySettled(t)
  <2>1. ASSUME NEW l \in {"file_unlock", "reopen_load"}, NEW e \in EntryState, SetEntry(t, e),
               Goto(t, l), UNCHANGED call
        PROVE  EntrySettled(t)
    <3>1. l \in Labels
      BY DEF Labels
    <3>2. pc'[t] = l
      BY <1>2, <2>1, <3>1, GotoFacts
    <3>3. QED
      BY <1>2, <2>1, <3>2, EntryReleased DEF EntryLabels
  <2>2. ASSUME NEW e \in EntryState, SetEntry(t, e), e.mtx = NoThread PROVE EntrySettled(t)
    BY <1>2, <2>2, EntryReleased
  <2>3. CASE close_lock_entry(t)
    <3> DEFINE n == cnt_decr(Entry(t).cnt)
               e == [Entry(t) EXCEPT !.cnt = n]
               f == [Entry(t) EXCEPT !.cnt = 0, !.mtx = t]
    <3>1. n \in 0 .. CntModulus - 1 /\ 0 \in 0 .. CntModulus - 1
      BY SMT, <1>2, CntFacts DEF EntryState
    <3>2. e \in EntryState /\ e.mtx = Entry(t).mtx /\ f \in EntryState
      BY <1>2, <3>1 DEF EntryState
    <3>3. \/ SetEntry(t, f) /\ Goto(t, "file_unlock") /\ UNCHANGED call
          \/ SetEntry(t, NoEntry) \/ SetEntry(t, e)
      BY <2>3 DEF close_lock_entry
    <3>4. Entry(t).mtx = NoThread
      BY <2>3 DEF close_lock_entry
    <3> HIDE DEF n, e, f
    <3>5. QED
      BY <1>2, <2>1, <2>2, <3>2, <3>3, <3>4
  <2>4. CASE close_file_unlock(t)
    <3>1. /\ [Entry(t) EXCEPT !.mtx = NoThread] \in EntryState
          /\ [Entry(t) EXCEPT !.mtx = NoThread].mtx = NoThread
      BY <1>2 DEF EntryState
    <3>2. QED
      BY <1>2, <2>2, <2>4, <3>1 DEF close_file_unlock
  <2>5. CASE reopen_lock_entry(t)
    <3>1. [Entry(t) EXCEPT !.mtx = t] \in EntryState
      BY <1>2 DEF EntryState
    <3>2. QED
      BY <2>1, <2>5, <3>1 DEF reopen_lock_entry
  <2>6. QED
    BY <2>3, <2>4, <2>5
<1>7. QED
  BY <1>3, <1>4, <1>5, <1>6, AllSettled

LEMMA VacuumOwned ==
  ASSUME Owned, NEW t \in Threads,
         xlock_file_lock(t) \/ xlock_fcntl(t) \/ xlock_fails(t) \/ array_xunlock(t)
  PROVE  OwnedBy(t)'
<1>1. pc[t] \in {"xlock_file", "xlock_fcntl", "vacuum"}
  BY DEF xlock_file_lock, xlock_fcntl, xlock_fails, array_xunlock
<1>2. /\ Held /\ TypeOK /\ t # NoThread
      /\ call[t] \in Handles /\ Mode(t) = "read" /\ Mode(t) \in Modes
  BY <1>1, Here, OpenArraysAssumption DEF Owned, Held, Finds, ReadLabels, XLabels
<1>3. EntrySettled(t)
  BY <1>1, EntryReleased DEF EntryLabels, xlock_file_lock, xlock_fcntl, xlock_fails, array_xunlock
<1>4. CASE XLocked(t) /\ UNCHANGED xlock_mtx
           /\ ((filelock_counted(t) /\ pc[t] = "xlock_file") \/ filelock_granted(t, "exclusive"))
  <2>1. pc'[t] = "vacuum"
    BY <1>2, <1>4, GotoFacts DEF XLocked, Labels
  <2>2. MapSettled(t)
    BY <1>2, <1>4, MapReleased DEF XLocked
  <2>3. XSettled(t)
    BY <1>4, <2>1, XReleased DEF HasX, XLabels
  <2>4. FileSettled(t)
    BY <1>2, <1>4, FileFacts, FileReleased DEF filelock_counted, FileLabels
  <2>5. QED
    BY <1>3, <2>2, <2>3, <2>4, AllSettled
<1>5. CASE /\ filelock_wait(t) /\ Goto(t, "xlock_fcntl")
           /\ UNCHANGED <<call, map_mtx, xlock_mtx, xfilelocks>>
  <2>1. pc'[t] = "xlock_fcntl" /\ call'[t] = call[t]
    BY <1>2, <1>5, GotoFacts DEF Labels
  <2>2. MapSettled(t)
    BY <1>2, <1>5, <2>1, MapReleased DEF MapLabels
  <2>3. XSettled(t)
    BY <1>5, <2>1, XReleased DEF HasX, XLabels
  <2>4. FileSettled(t)
    BY <1>2, <1>5, <2>1, FileFacts, FileReleased DEF FileLabels
  <2>5. QED
    BY <1>3, <2>2, <2>3, <2>4, AllSettled
<1>6. CASE xlock_fails(t)
  <2>1. MapSettled(t)
    BY <1>2, <1>6, MapReleased DEF xlock_fails
  <2>2. XSettled(t)
    BY <1>6, XReleased DEF xlock_fails
  <2>3. FileSettled(t)
    <3>1. CASE pc[t] = "xlock_file" /\ UNCHANGED fileVars
      BY <3>1, FileReleased DEF fileVars, FileLabels
    <3>2. CASE filelock_refused(t)
      BY <1>2, <3>2, FileFacts, FileReleased
    <3>3. QED
      BY <1>6, <3>1, <3>2 DEF xlock_fails
  <2>4. QED
    BY <1>3, <2>1, <2>2, <2>3, AllSettled
<1>7. CASE array_xunlock(t)
  <2>1. pc[t] = "vacuum" /\ UNCHANGED <<map_mtx, filelock_mtx>>
    BY <1>7 DEF array_xunlock, filelock_missing, filelock_unlock, fileVars
  <2>2. MapSettled(t)
    BY <1>2, <2>1, MapReleased DEF MapLabels
  <2>3. XSettled(t)
    <3>1. CASE UnlockX(t)
      BY <3>1, XReleased
    <3>2. CASE UNCHANGED <<xfilelocks, xlock_mtx>>
      <4>1. OwnedBy(t) /\ Uri(t) \in xfilelocks[ContextOf[t]]
        BY <2>1 DEF Owned, Excluding
      <4>2. QED
        BY <3>2, <4>1 DEF XSettled, OwnedBy
    <3>3. QED
      BY <1>7, <3>1, <3>2 DEF array_xunlock
  <2>4. FileSettled(t)
    BY <2>1, FileReleased DEF FileLabels
  <2>5. QED
    BY <1>3, <2>2, <2>3, <2>4, AllSettled
<1>8. QED
  BY <1>4, <1>5, <1>6, <1>7 DEF xlock_file_lock, xlock_fcntl

LEMMA ListingOwned ==
  ASSUME Owned, NEW t \in Threads, listing_fails(t)
  PROVE  OwnedBy(t)'
<1>1. /\ pc[t] \in {"load", "reopen_load"} /\ "listing" \in Faults
      /\ UNCHANGED <<map_mtx, xlock_mtx, entry, xfilelocks, fileVars>>
  BY DEF listing_fails, Fail
<1>2. OwnedBy(t) /\ Forgettable(call[t])
  BY <1>1, Here DEF Owned, listing_fails, Finds, ReadLabels, Forgettable
<1>3. MapSettled(t)
  BY <1>1, MapReleased DEF MapLabels, Modes
<1>4. XSettled(t)
  BY <1>1, XReleased DEF HasX, XLabels
<1>5. EntrySettled(t)
  BY <1>1, <1>2 DEF EntrySettled, OwnedBy, HasEntry
<1>6. FileSettled(t)
  BY <1>1, FileReleased DEF FileLabels, fileVars
<1>7. QED
  BY <1>3, <1>4, <1>5, <1>6, AllSettled

LEMMA ThreadOwned ==
  ASSUME Owned, NEW t \in Threads, ThreadStep(t)
  PROVE  OwnedBy(t)'
<1>1. ASSUME NEW h \in Handles, array_open(t, h) \/ array_close(t, h) \/ array_reopen(t, h)
      PROVE  OwnedBy(t)'
  BY <1>1, CallOwned DEF array_open, array_close, array_reopen
<1>2. ASSUME NEW a \in Arrays, array_vacuum(t, a) PROVE OwnedBy(t)'
  BY <1>2, CallOwned DEF array_vacuum
<1>3. QED
  BY <1>1, <1>2, OpenOwned, FileLockOwned, LoadOwned, ListingOwned, MapOwned, CloseOwned, VacuumOwned
  DEF ThreadStep

LEMMA ThreadKeepsOwned ==
  ASSUME Owned, NEW t \in Threads, ThreadStep(t)
  PROVE  Owned'
<1>1. Held' /\ Guarantee(t)
  BY ThreadSteps DEF Owned, Kept
<1>2. XFilesGuarded(t) /\ Excluding(t)'
  BY XFilesSteps, XFilesKept DEF Owned
<1>3. \A u \in Threads : OwnedBy(u)' /\ Excluding(u)'
  BY <1>1, <1>2, ThreadOwned, OthersOwned DEF Held
<1>4. QED
  BY <1>1, <1>3 DEF Owned

LEMMA ExitOwned ==
  ASSUME Owned, NEW p \in Processes, process_exit(p)
  PROVE  Owned'
<1> DEFINE gone(c) == ProcessOf[c] = p
<1>1. /\ \A t \in Threads : ContextOf[t] \in Contexts /\ Proc(t) \in Processes
      /\ \A t \in Threads : gone(ContextOf[t]) => pc'[t] = "idle"
      /\ \A t \in Threads : ~gone(ContextOf[t]) => pc'[t] = pc[t] /\ call'[t] = call[t]
  BY OpenArraysAssumption DEF process_exit, Owned, Held, TypeOK, Proc
<1>2. /\ \A c \in Contexts : ~gone(c) =>
           /\ map_mtx'[c] = map_mtx[c] /\ xlock_mtx'[c] = xlock_mtx[c]
           /\ entry'[c] = entry[c] /\ xfilelocks'[c] = xfilelocks[c]
      /\ \A c \in Contexts, m \in Modes : gone(c) => map_mtx'[c][m] = NoThread
      /\ \A c \in Contexts, h \in Handles : gone(c) => entry'[c][h] = NoEntry
      /\ \A c \in Contexts : gone(c) => xfilelocks'[c] = {} /\ xlock_mtx'[c] = NoThread
  BY DEF process_exit
<1>3. /\ \A q \in Processes \ {p} :
           filelock_mtx'[q] = filelock_mtx[q] /\ filelocks'[q] = filelocks[q]
      /\ filelock_mtx'[p] = NoThread
      /\ \A a \in Arrays : filelocks'[p][a] = 0
  BY DEF process_exit, Owned, Held, TypeOK
<1>4. Held'
  BY ExitStep DEF Owned
<1>5. ASSUME NEW t \in Threads PROVE OwnedBy(t)' /\ Excluding(t)'
  <2>1. t # NoThread /\ OwnedBy(t) /\ Excluding(t)
    BY OpenArraysAssumption DEF Owned
  <2>2. ASSUME NEW c \in Contexts, NEW m \in Modes, map_mtx'[c][m] = t PROVE HasMap(t, c, m)'
    BY SMTT(20), <1>1, <1>2, <2>1, <2>2 DEF OwnedBy, HasMap, Mode
  <2>3. ASSUME NEW c \in Contexts, xlock_mtx'[c] = t
        PROVE  ContextOf[t] = c /\ (HasX(t, c)' \/ xfilelocks'[c] # {})
    BY SMTT(20), <1>1, <1>2, <2>1, <2>3 DEF OwnedBy, HasX, Mode
  <2>4. ASSUME NEW c \in Contexts, NEW h \in Handles, entry'[c][h].mtx = t
        PROVE  HasEntry(t, c, h)' \/ Forgettable(h)
    <3>1. ~gone(c)
      BY SMT, <1>2, <2>1, <2>4 DEF NoEntry
    <3>2. QED
      BY SMTT(20), <1>1, <1>2, <2>1, <2>4, <3>1 DEF OwnedBy, HasEntry
  <2>5. ASSUME NEW q \in Processes, filelock_mtx'[q] = t PROVE HasFile(t, q)'
    BY <1>1, <1>3, <2>1, <2>5 DEF OwnedBy, HasFile, Proc
  <2>6. Excluding(t)'
    BY <1>1, <1>2, <2>1 DEF Excluding, Uri
  <2>7. QED
    BY <2>2, <2>3, <2>4, <2>5, <2>6 DEF OwnedBy
<1>6. QED
  BY <1>4, <1>5 DEF Owned

LEMMA InitOwned ==
  ASSUME Init
  PROVE  Owned
<1>1. Held
  BY HeldInductive
<1>2. \A t \in Threads : OwnedBy(t) /\ Excluding(t)
  BY OpenArraysAssumption DEF Init, OwnedBy, Excluding, NoEntry
<1>3. QED
  BY <1>1, <1>2 DEF Owned

LEMMA StutterOwned ==
  ASSUME Owned, UNCHANGED vars
  PROVE  Owned'
<1>1. Held'
  BY HeldInductive DEF Owned
<1>2. \A t \in Threads : OwnedBy(t)' /\ Excluding(t)'
  BY SMT DEF vars, Owned, OwnedBy, Excluding, HasMap, HasX, HasEntry, HasFile, Mode, Uri
<1>3. QED
  BY <1>1, <1>2 DEF Owned

\* A call of Array::open, close, reopen or of vacuuming that has returned has left
\* no mutex of StorageManager, OpenArray or VFS locked, on any path on which it
\* returns an error, but for the two that the code forgets: the mutex of an array
\* open for reads when the fragments cannot be found out, and xlock_mtx_ when
\* array_xunlock has no file lock to give back.
THEOREM ReturnsHoldNothing == Spec => []IdleHoldsNothing
<1>1. Init => Owned
  BY InitOwned
<1>2. Owned /\ [Next]_vars => Owned'
  BY StutterOwned, ThreadKeepsOwned, ExitOwned DEF Next
<1>3. ASSUME Owned PROVE IdleHoldsNothing
  BY SMT, <1>3, OpenArraysAssumption
  DEF Owned, OwnedBy, IdleHoldsNothing, HasMap, HasX, HasEntry, HasFile, MapLabels, XLabels,
      EntryLabels, FileLabels, Forgettable
<1>4. QED
  BY <1>1, <1>2, <1>3, PTL DEF Spec

-----------------------------------------------------------------------------
(* The file locks of a process are counted. *)

LEMMA LockedSizes ==
  ASSUME Sizes(Contexts), NEW p, NEW a
  PROVE  /\ Cardinality(LockedBy(p, a)) \in Nat
         /\ Cardinality(LockedBy(p, a)) = 0 <=> LockedBy(p, a) = {}
         /\ Cardinality({}) = 0
         /\ \A c \in Contexts : Cardinality({c}) = 1
<1>1. LockedBy(p, a) \in SUBSET Contexts /\ {} \in SUBSET Contexts
  BY DEF LockedBy
<1>2. /\ Cardinality(LockedBy(p, a)) \in Nat
      /\ Cardinality(LockedBy(p, a)) = 0 <=> LockedBy(p, a) = {}
      /\ Cardinality({}) = 0
  BY <1>1 DEF Sizes
<1>3. ASSUME NEW c \in Contexts PROVE Cardinality({c}) = 1
  <2>1. Cardinality({} \union {c}) = Cardinality({}) + 1
    BY <1>1 DEF Sizes
  <2>2. {} \union {c} = {c}
    OBVIOUS
  <2>3. QED
    BY SMT, <1>2, <2>1, <2>2
<1>4. QED
  BY <1>2, <1>3

\* Whoever gives up a file lock finds it counted.
LEMMA LockCounted ==
  ASSUME Settled, NEW t \in Threads, pc[t] \in {"vacuum", "file_unlock"}
  PROVE  filelocks[Proc(t)][Uri(t)] # 0
<1>1. /\ call[t] \in Handles /\ ContextOf[t] \in Contexts /\ Proc(t) \in Processes
      /\ Uri(t) \in Arrays /\ Mode(t) = "read" /\ FindsFile(t)
  BY Here DEF Settled, Finds, ReadLabels, XLabels
<1>2. call[t] = <<Uri(t), "read">>
  BY SMT, <1>1 DEF Handles, Uri, Mode
<1>3. ContextOf[t] \in LockedBy(Proc(t), Uri(t))
  BY <1>1, <1>2 DEF LockedBy, HasLock, FindsFile, Entry, ReadEntry, Proc
<1>4. Cardinality(LockedBy(Proc(t), Uri(t))) # 0
  BY <1>3, LockedSizes DEF Settled
<1>5. QED
  BY <1>1, <1>4 DEF Settled, FilesCounted

LEMMA LockAdded ==
  ASSUME Settled, NEW c \in Contexts, NEW a \in Arrays,
         ~HasLock(c, a), HasLock(c, a)',
         \A d \in Contexts, b \in Arrays : d # c \/ b # a => (HasLock(d, b)' <=> HasLock(d, b)),
         filelocks' = [filelocks EXCEPT ![ProcessOf[c]][a] = filelocks[ProcessOf[c]][a] + 1]
  PROVE  FilesCounted'
<1> DEFINE p == ProcessOf[c]
<1>1. p \in Processes /\ filelocks \in [Processes -> [Arrays -> Nat]]
  BY OpenArraysAssumption DEF Settled, Held, TypeOK
<1>2. LockedBy(p, a)' = LockedBy(p, a) \union {c} /\ c \notin LockedBy(p, a)
  BY DEF LockedBy
<1>3. ASSUME NEW q \in Processes, NEW b \in Arrays, q # p \/ b # a
      PROVE  LockedBy(q, b)' = LockedBy(q, b)
  BY <1>3 DEF LockedBy
<1>4. Cardinality(LockedBy(p, a)') = Cardinality(LockedBy(p, a)) + 1
  <2>1. LockedBy(p, a) \in SUBSET Contexts /\ c \in Contexts \ LockedBy(p, a)
    BY <1>2 DEF LockedBy
  <2>2. Cardinality(LockedBy(p, a) \union {c}) = Cardinality(LockedBy(p, a)) + 1
    BY <2>1 DEF Settled, Sizes
  <2>3. QED
    BY <1>2, <2>2
<1>5. ASSUME NEW q \in Processes, NEW b \in Arrays
      PROVE  filelocks'[q][b] = Cardinality(LockedBy(q, b)')
  <2>1. CASE q = p /\ b = a
    BY <1>1, <1>4, <2>1 DEF Settled, FilesCounted
  <2>2. CASE q # p \/ b # a
    BY <1>1, <1>3, <2>2 DEF Settled, FilesCounted
  <2>3. QED
    BY <2>1, <2>2
<1>6. QED
  BY <1>5 DEF FilesCounted

LEMMA LockRemoved ==
  ASSUME Settled, NEW c \in Contexts, NEW a \in Arrays,
         HasLock(c, a), ~HasLock(c, a)',
         \A d \in Contexts, b \in Arrays : d # c \/ b # a => (HasLock(d, b)' <=> HasLock(d, b)),
         filelocks' = [filelocks EXCEPT ![ProcessOf[c]][a] = filelocks[ProcessOf[c]][a] - 1]
  PROVE  FilesCounted'
<1> DEFINE p == ProcessOf[c]
<1>1. p \in Processes /\ filelocks \in [Processes -> [Arrays -> Nat]]
  BY OpenArraysAssumption DEF Settled, Held, TypeOK
<1>2. LockedBy(p, a)' = LockedBy(p, a) \ {c} /\ c \in LockedBy(p, a)
  BY DEF LockedBy
<1>3. ASSUME NEW q \in Processes, NEW b \in Arrays, q # p \/ b # a
      PROVE  LockedBy(q, b)' = LockedBy(q, b)
  BY <1>3 DEF LockedBy
<1>4. Cardinality(LockedBy(p, a)') = Cardinality(LockedBy(p, a)) - 1
  <2>1. LockedBy(p, a) \in SUBSET Contexts
    BY DEF LockedBy
  <2>2. Cardinality(LockedBy(p, a) \ {c}) = Cardinality(LockedBy(p, a)) - 1
    BY <1>2, <2>1 DEF Settled, Sizes
  <2>3. QED
    BY <1>2, <2>2
<1>5. ASSUME NEW q \in Processes, NEW b \in Arrays
      PROVE  filelocks'[q][b] = Cardinality(LockedBy(q, b)')
  <2>1. CASE q = p /\ b = a
    BY <1>1, <1>4, <2>1 DEF Settled, FilesCounted
  <2>2. CASE q # p \/ b # a
    BY <1>1, <1>3, <2>2 DEF Settled, FilesCounted
  <2>3. QED
    BY <2>1, <2>2
<1>6. QED
  BY <1>5 DEF FilesCounted

\* A step of thread t changes a count only with filelock_mtx_, and takes an array
\* from xfilelocks_ only with xlock_mtx_.
FilesGuarded(t) ==
  /\ \A c \in Contexts, a \in Arrays :
       a \in xfilelocks[c] /\ a \notin xfilelocks'[c] => xlock_mtx[c] = t
  /\ \A p \in Processes, a \in Arrays :
       filelocks'[p][a] = filelocks[p][a] \/ filelock_mtx[p] \in {NoThread, t}

LEMMA OthersFindFile ==
  ASSUME Settled, TypeOK', NEW t \in Threads, Guarantee(t), FilesGuarded(t), NEW u \in Threads \ {t}
  PROVE  FindsFile(u)'
<1>1. CASE pc'[u] \in {"vacuum", "file_lock", "fcntl", "file_unlock", "xlock_fcntl"}
  <2>1. u # NoThread /\ u # t /\ call'[u] = call[u] /\ pc'[u] = pc[u] /\ FindsFile(u)
        /\ pc[u] # "idle"
    BY <1>1, OpenArraysAssumption DEF Settled, Guarantee
  <2>2. /\ call[u] \in Handles /\ ContextOf[u] \in Contexts /\ Proc(u) \in Processes
        /\ Uri(u) \in Arrays /\ Uri(u)' = Uri(u)
        /\ pc[u] \in XLabels => xlock_mtx[ContextOf[u]] = u
        /\ pc[u] \in EntryLabels => Entry(u).mtx = u
        /\ pc[u] \in FileLabels => filelock_mtx[Proc(u)] = u
    BY <2>1, Here DEF Settled, Uri
  <2>3. ASSUME pc[u] = "vacuum" PROVE Uri(u) \in xfilelocks'[ContextOf[u]]
    BY <2>1, <2>2, <2>3 DEF FilesGuarded, FindsFile, XLabels
  <2>4. ASSUME pc[u] \in EntryLabels PROVE Entry(u).filelock' = Entry(u).filelock
    BY SMT, <2>1, <2>2, <2>4 DEF Guarantee, Entry
  <2>5. ASSUME pc[u] \in FileLabels PROVE filelocks'[Proc(u)][Uri(u)] = filelocks[Proc(u)][Uri(u)]
    BY <2>1, <2>2, <2>5 DEF FilesGuarded
  <2>6. QED
    BY <2>1, <2>2, <2>3, <2>4, <2>5 DEF FindsFile, EntryLabels, FileLabels, Proc
<1>2. CASE pc'[u] \notin {"vacuum", "file_lock", "fcntl", "file_unlock", "xlock_fcntl"}
  BY <1>2 DEF FindsFile, FileLabels
<1>3. QED
  BY <1>1, <1>2

\* A step that leaves the file locks alone.
FilesSame ==
  /\ UNCHANGED <<xfilelocks, filelocks>>
  /\ \A c \in Contexts, h \in Handles : entry'[c][h].filelock = entry[c][h].filelock

LEMMA QuietStep ==
  ASSUME Settled, NEW t \in Threads, Guarantee(t), FilesSame, pc[t] # "vacuum"
  PROVE  FilesCounted' /\ XLocksUsed' /\ FilesGuarded(t)
<1>1. FilesCounted'
  <2>1. ASSUME NEW c \in Contexts, NEW a \in Arrays PROVE HasLock(c, a)' <=> HasLock(c, a)
    <3>1. <<a, "read">> \in Handles
      BY DEF Handles, Modes
    <3>2. QED
      BY <3>1 DEF HasLock, ReadEntry, FilesSame
  <2>2. ASSUME NEW p \in Processes, NEW a \in Arrays PROVE LockedBy(p, a)' = LockedBy(p, a)
    BY <2>1 DEF LockedBy
  <2>3. QED
    BY <2>2 DEF Settled, FilesCounted, FilesSame
<1>2. XLocksUsed'
  <2>1. ASSUME NEW c \in Contexts, NEW a \in Arrays, a \in xfilelocks'[c]
        PROVE  \E u \in Threads : ContextOf[u] = c /\ pc'[u] = "vacuum" /\ Uri(u)' = a
    <3>1. PICK u \in Threads : ContextOf[u] = c /\ pc[u] = "vacuum" /\ Uri(u) = a
      BY <2>1 DEF Settled, XLocksUsed, FilesSame
    <3>2. u # t /\ call'[u] = call[u] /\ pc'[u] = pc[u]
      BY <3>1 DEF Guarantee
    <3>3. QED
      BY <3>1, <3>2 DEF Uri
  <2>2. QED
    BY <2>1 DEF XLocksUsed
<1>3. FilesGuarded(t)
  BY DEF FilesGuarded, FilesSame
<1>4. QED
  BY <1>1, <1>2, <1>3

LEMMA FieldSame ==
  ASSUME Held, NEW t \in Threads, pc[t] # "idle", NEW e \in EntryState, SetEntry(t, e),
         e.filelock = Entry(t).filelock
  PROVE  \A c \in Contexts, h \in Handles : entry'[c][h].filelock = entry[c][h].filelock
<1>1. EntryBecomes(t, e)
  BY Here, EntryFacts DEF Held
<1>2. QED
  BY <1>1 DEF EntryBecomes, Entry

\* Where a thread finds nothing of the file locks.
LEMMA FindsNothing ==
  ASSUME NEW t \in Threads,
         pc'[t] \notin {"vacuum", "file_lock", "fcntl", "file_unlock", "xlock_fcntl"}
  PROVE  FindsFile(t)'
  BY DEF FindsFile, FileLabels

LEMMA OpenQuiet ==
  ASSUME Settled, NEW t \in Threads,
         \/ open_lock_reads(t) \/ open_lock_xlock(t) \/ open_lock_writes(t)
         \/ open_key_differs(t) \/ open_lock_entry(t)
  PROVE  FilesSame /\ FindsFile(t)'
<1>1. /\ pc[t] # "idle" /\ UNCHANGED <<xfilelocks, filelocks>>
  BY DEF open_lock_reads, open_lock_xlock, open_lock_writes, open_key_differs, open_lock_entry, fileVars
<1>2. /\ Held /\ TypeOK /\ call[t] \in Handles /\ Entry(t) \in EntryState /\ ContextOf[t] \in Contexts
  BY <1>1, Here DEF Settled, Held
<1>3. CASE open_lock_reads(t) \/ open_key_differs(t)
  <2>1. pc'[t] \in {"open_xlock", "idle"} /\ UNCHANGED entry
    BY <1>2, <1>3, GotoFacts, ReturnFacts DEF open_lock_reads, open_key_differs, Labels
  <2>2. QED
    BY <1>1, <2>1, FindsNothing DEF FilesSame
<1>4. CASE open_lock_xlock(t) \/ open_lock_writes(t)
  <2> DEFINE e == [Entry(t) EXCEPT !.present = TRUE]
  <2>1. pc'[t] = "open_entry" /\ SetEntry(t, e)
    BY <1>2, <1>4, GotoFacts DEF open_lock_xlock, open_lock_writes, FindOrCreate, Labels
  <2>2. e \in EntryState /\ e.filelock = Entry(t).filelock
    BY <1>2 DEF EntryState
  <2> HIDE DEF e
  <2>3. QED
    BY <1>1, <1>2, <2>1, <2>2, FieldSame, FindsNothing DEF FilesSame
<1>5. CASE open_lock_entry(t)
  <2> DEFINE e == [Entry(t) EXCEPT !.cnt = cnt_incr(@), !.mtx = t]
             l == IF Mode(t) = "read" /\ ~Entry(t).filelock THEN "file_lock" ELSE "load"
  <2>1. SetEntry(t, e) /\ Goto(t, l) /\ UNCHANGED call
    BY <1>5 DEF open_lock_entry
  <2>2. e \in EntryState /\ e.filelock = Entry(t).filelock
    <3>1. cnt_incr(Entry(t).cnt) \in 0 .. CntModulus - 1
      BY SMT, <1>2, CntFacts DEF EntryState
    <3>2. QED
      BY <1>2, <3>1 DEF EntryState
  <2>3. l \in {"file_lock", "load"} /\ l \in Labels /\ (l = "file_lock" => ~Entry(t).filelock)
    BY DEF Labels
  <2> HIDE DEF e, l
  <2>4. pc'[t] = l
    BY <1>2, <2>1, <2>3, GotoFacts
  <2>5. FilesSame
    BY <1>1, <1>2, <2>1, <2>2, FieldSame DEF FilesSame
  <2>6. FindsFile(t)'
    BY <1>2, <2>1, <2>3, <2>4, <2>5 DEF FilesSame, FindsFile, FileLabels, Entry
  <2>7. QED
    BY <2>5, <2>6
<1>6. QED
  BY <1>3, <1>4, <1>5

LEMMA OtherQuiet ==
  ASSUME Settled, NoLeaks, NEW t \in Threads,
         \/ open_file_lock_fails(t) \/ open_load(t) \/ open_load_fails(t)
         \/ reopen_load(t) \/ reopen_load_fails(t) \/ reopen_lock_entry(t)
         \/ close_lock_map(t) \/ close_store_fails(t) \/ reopen_lock_map(t)
         \/ xlock_lock_xlock(t) \/ xlock_lock_reads(t) \/ xlock_fails(t)
  PROVE  FilesSame /\ FindsFile(t)' /\ pc[t] # "vacuum"
<1>1. /\ pc[t] # "idle" /\ pc[t] # "vacuum" /\ UNCHANGED <<xfilelocks, filelocks>>
  BY DEF open_file_lock_fails, open_load, open_load_fails, reopen_load, reopen_load_fails,
         reopen_lock_entry, close_lock_map, close_store_fails, reopen_lock_map, xlock_lock_xlock,
         xlock_lock_reads, xlock_fails, fileVars, filelock_refused
<1>2. Held /\ TypeOK /\ call[t] \in Handles /\ Entry(t) \in EntryState
  BY <1>1, Here DEF Settled, Held
<1>3. pc'[t] \in {"idle", "undo", "reopen_load", "close_entry", "reopen_entry", "xlock_reads",
                  "xlock_file", "xlock_wait"}
  BY <1>2, GotoFacts, ReturnFacts
  DEF open_file_lock_fails, open_load, open_load_fails, reopen_load, reopen_load_fails,
      reopen_lock_entry, close_lock_map, close_store_fails, reopen_lock_map, xlock_lock_xlock,
      xlock_lock_reads, xlock_fails, Labels
<1>4. ASSUME NEW u \in {t, NoThread}, SetEntry(t, [Entry(t) EXCEPT !.mtx = u])
      PROVE  \A c \in Contexts, h \in Handles : entry'[c][h].filelock = entry[c][h].filelock
  <2> DEFINE e == [Entry(t) EXCEPT !.mtx = u]
  <2>1. e \in EntryState /\ e.filelock = Entry(t).filelock /\ SetEntry(t, e)
    BY <1>2, <1>4 DEF EntryState
  <2> HIDE DEF e
  <2>2. QED
    BY <1>1, <1>2, <2>1, FieldSame
<1>5. \/ UNCHANGED entry
      \/ \E u \in {t, NoThread} : SetEntry(t, [Entry(t) EXCEPT !.mtx = u])
  BY DEF open_file_lock_fails, open_load, open_load_fails, reopen_load, reopen_load_fails,
         reopen_lock_entry, close_lock_map, close_store_fails, reopen_lock_map, xlock_lock_xlock,
         xlock_lock_reads, xlock_fails, Fail, NoLeaks
<1>6. FilesSame
  BY <1>1, <1>4, <1>5 DEF FilesSame
<1>7. QED
  BY <1>1, <1>3, <1>6, FindsNothing

LEMMA CloseQuiet ==
  ASSUME Settled, NEW t \in Threads, close_lock_entry(t)
  PROVE  FilesSame /\ FindsFile(t)' /\ pc[t] # "vacuum"
<1>1. pc[t] = "close_entry" /\ UNCHANGED <<xfilelocks, filelocks>>
  BY DEF close_lock_entry, fileVars
<1>2. /\ Held /\ TypeOK /\ call[t] \in Handles /\ Entry(t) \in EntryState /\ ContextOf[t] \in Contexts
  BY <1>1, Here DEF Settled, Held
<1> DEFINE n == cnt_decr(Entry(t).cnt)
           e == [Entry(t) EXCEPT !.cnt = n]
           f == [Entry(t) EXCEPT !.cnt = 0, !.mtx = t]
<1>3. \/ SetEntry(t, f) /\ Goto(t, "file_unlock") /\ UNCHANGED call /\ Entry(t).filelock
      \/ /\ SetEntry(t, e) \/ (SetEntry(t, NoEntry) /\ ~Entry(t).filelock)
         /\ Return(t) \/ ReturnNotify(t)
  BY DEF close_lock_entry
<1>4. /\ e \in EntryState /\ e.filelock = Entry(t).filelock
      /\ f \in EntryState /\ f.filelock = Entry(t).filelock
      /\ NoEntry \in EntryState /\ NoEntry.filelock = FALSE
  <2>1. n \in 0 .. CntModulus - 1 /\ 0 \in 0 .. CntModulus - 1
    BY SMT, <1>2, CntFacts DEF EntryState
  <2>2. QED
    BY <1>2, <2>1 DEF EntryState, NoEntry
<1> HIDE DEF n, e, f
<1>5. Entry(t).filelock \in BOOLEAN
  BY <1>2 DEF EntryState
<1>6. FilesSame
  BY <1>1, <1>2, <1>3, <1>4, <1>5, FieldSame DEF FilesSame
<1>7. CASE SetEntry(t, f) /\ Goto(t, "file_unlock") /\ UNCHANGED call /\ Entry(t).filelock
  <2>1. pc'[t] = "file_unlock" /\ call'[t] = call[t]
    BY <1>2, <1>7, GotoFacts DEF Labels
  <2>2. FindsFile(t)'
    BY <1>2, <1>6, <1>7, <2>1 DEF FilesSame, FindsFile, FileLabels, Entry
  <2>3. QED
    BY <1>1, <1>6, <2>2
<1>8. CASE Return(t) \/ ReturnNotify(t)
  <2>1. pc'[t] = "idle"
    BY <1>2, <1>8, ReturnFacts, NotifyFacts
  <2>2. QED
    BY <1>1, <1>6, <2>1, FindsNothing
<1>9. QED
  BY <1>3, <1>7, <1>8

LEMMA WaitQuiet ==
  ASSUME Settled, NEW t \in Threads, NEW l \in {"fcntl", "xlock_fcntl"},
         l = "fcntl" => pc[t] = "file_lock", l = "xlock_fcntl" => pc[t] = "xlock_file",
         filelock_wait(t), Goto(t, l), UNCHANGED <<call, entry, xfilelocks>>
  PROVE  FilesSame /\ FindsFile(t)'
<1>1. Held /\ TypeOK /\ FindsFile(t)
  BY DEF Settled, Held
<1>2. pc'[t] = l /\ call'[t] = call[t]
  <2>1. l \in Labels
    BY DEF Labels
  <2>2. QED
    BY <1>1, <2>1, GotoFacts
<1>3. FilesSame
  BY DEF FilesSame, filelock_wait
<1>4. QED
  BY <1>1, <1>2, <1>3 DEF FindsFile, filelock_wait, Entry, Uri, Proc, FileLabels

FilesKept(t) == FilesCounted' /\ XLocksUsed' /\ FindsFile(t)' /\ FilesGuarded(t)

\* The thread that vacuums an array keeps its entry away.
LEMMA XLockedEntry ==
  ASSUME Settled, NEW c \in Contexts, NEW a \in Arrays, a \in xfilelocks[c]
  PROVE  /\ ~ReadEntry(c, a).present /\ ~ReadEntry(c, a).filelock
         /\ \E u \in Threads : xlock_mtx[c] = u /\ pc[u] = "vacuum" /\ ContextOf[u] = c
<1>1. PICK u \in Threads : ContextOf[u] = c /\ pc[u] = "vacuum" /\ Uri(u) = a
  BY DEF Settled, XLocksUsed
<1>2. /\ call[u] \in Handles /\ Mode(u) = "read" /\ ~Entry(u).present /\ Entry(u) = NoEntry
      /\ xlock_mtx[c] = u
  BY <1>1, Here DEF Settled, Finds, XLabels, ReadLabels
<1>3. call[u] = <<a, "read">>
  BY SMT, <1>1, <1>2 DEF Handles, Uri, Mode
<1>4. QED
  BY SMT, <1>1, <1>2, <1>3 DEF Entry, ReadEntry, NoEntry

LEMMA ReaderLocks ==
  ASSUME Settled, NEW t \in Threads, Guarantee(t), pc[t] \in {"file_lock", "fcntl"},
         SetEntry(t, [Entry(t) EXCEPT !.filelock = TRUE]), Goto(t, "load"),
         UNCHANGED <<call, xfilelocks>>, filelock_mtx[Proc(t)] \in {NoThread, t},
         filelocks' = [filelocks EXCEPT ![Proc(t)][Uri(t)] = filelocks[Proc(t)][Uri(t)] + 1]
  PROVE  FilesKept(t)
<1>a. PICK a \in Arrays : Uri(t) = a
  BY Here DEF Settled
<1> USE <1>a
<1> DEFINE c == ContextOf[t]
           e == [Entry(t) EXCEPT !.filelock = TRUE]
<1>1. /\ TypeOK /\ call[t] \in Handles /\ c \in Contexts /\ a \in Arrays /\ Proc(t) \in Processes
      /\ Entry(t) \in EntryState /\ Entry(t).present /\ Mode(t) = "read"
      /\ ~Entry(t).filelock /\ Proc(t) = ProcessOf[c]
  BY Here DEF Settled, Held, Finds, FindsFile, EntryLabels, ReadLabels, Proc
<1>2. call[t] = <<a, "read">>
  BY SMT, <1>1 DEF Handles, Uri, Mode
<1>3. a \notin xfilelocks[c]
  BY <1>1, <1>2, XLockedEntry DEF Entry, ReadEntry
<1>4. ~HasLock(c, a)
  BY <1>1, <1>2, <1>3 DEF HasLock, Entry, ReadEntry
<1>5. e \in EntryState /\ e.filelock
  BY <1>1 DEF EntryState
<1>6. EntryBecomes(t, e)
  BY <1>1, <1>5, EntryFacts
<1> HIDE DEF c, e
<1>7. HasLock(c, a)'
  BY <1>2, <1>5, <1>6 DEF EntryBecomes, HasLock, ReadEntry, c
<1>8. ASSUME NEW d \in Contexts, NEW b \in Arrays, d # c \/ b # a PROVE HasLock(d, b)' <=> HasLock(d, b)
  <2>1. <<b, "read">> \in Handles /\ (b # a => <<b, "read">> # call[t])
    BY SMT, <1>2 DEF Handles, Modes
  <2>2. QED
    BY <1>6, <1>8, <2>1 DEF EntryBecomes, HasLock, ReadEntry, c
<1>9. FilesCounted'
  BY <1>1, <1>4, <1>7, <1>8, LockAdded DEF c
<1>10. pc'[t] = "load"
  BY <1>1, GotoFacts DEF Labels
<1>11. XLocksUsed'
  <2>1. ASSUME NEW d \in Contexts, NEW b \in Arrays, b \in xfilelocks'[d]
        PROVE  \E u \in Threads : ContextOf[u] = d /\ pc'[u] = "vacuum" /\ Uri(u)' = b
    <3>1. PICK u \in Threads : ContextOf[u] = d /\ pc[u] = "vacuum" /\ Uri(u) = b
      BY <2>1 DEF Settled, XLocksUsed
    <3>2. u # t /\ call'[u] = call[u] /\ pc'[u] = pc[u]
      BY <3>1 DEF Guarantee
    <3>3. QED
      BY <3>1, <3>2 DEF Uri
  <2>2. QED
    BY <2>1 DEF XLocksUsed
<1>12. FilesGuarded(t)
  <2>1. ASSUME NEW q \in Processes, NEW b \in Arrays, filelock_mtx[q] \notin {NoThread, t}
        PROVE  filelocks'[q][b] = filelocks[q][b]
    BY <1>1, <2>1 DEF TypeOK
  <2>2. QED
    BY <2>1 DEF FilesGuarded
<1>13. QED
  BY <1>9, <1>10, <1>11, <1>12, FindsNothing DEF FilesKept

LEMMA VacuumerLocks ==
  ASSUME Settled, NEW t \in Threads, Guarantee(t), pc[t] \in {"xlock_file", "xlock_fcntl"},
         XLocked(t), UNCHANGED <<call, entry>>, filelock_mtx[Proc(t)] \in {NoThread, t},
         filelocks' = [filelocks EXCEPT ![Proc(t)][Uri(t)] = filelocks[Proc(t)][Uri(t)] + 1]
  PROVE  FilesKept(t)
<1>a. PICK a \in Arrays : Uri(t) = a
  BY Here DEF Settled
<1> USE <1>a
<1> DEFINE c == ContextOf[t]
<1>1. /\ TypeOK /\ call[t] \in Handles /\ c \in Contexts /\ a \in Arrays /\ Proc(t) \in Processes
      /\ Entry(t) = NoEntry /\ Mode(t) = "read" /\ xlock_mtx[c] = t /\ Proc(t) = ProcessOf[c]
  BY Here DEF Settled, Held, Finds, XLabels, ReadLabels, Proc
<1>2. call[t] = <<a, "read">>
  BY SMT, <1>1 DEF Handles, Uri, Mode
<1>3. a \notin xfilelocks[c]
  BY <1>1, XLockedEntry
<1>4. ~HasLock(c, a)
  BY SMT, <1>1, <1>2, <1>3 DEF HasLock, Entry, ReadEntry, NoEntry
<1>5. /\ a \in xfilelocks'[c] /\ xfilelocks'[c] = xfilelocks[c] \union {a}
      /\ \A d \in Contexts : d # c => xfilelocks'[d] = xfilelocks[d]
  BY <1>1 DEF XLocked, TypeOK
<1>6. pc'[t] = "vacuum" /\ Uri(t)' = a
  BY <1>1, GotoFacts DEF XLocked, Labels, Uri
<1> HIDE DEF c
<1>7. HasLock(c, a)'
  BY <1>5 DEF HasLock
<1>8. ASSUME NEW d \in Contexts, NEW b \in Arrays, d # c \/ b # a PROVE HasLock(d, b)' <=> HasLock(d, b)
  BY <1>5, <1>8 DEF HasLock, ReadEntry
<1>9. FilesCounted'
  BY <1>1, <1>4, <1>7, <1>8, LockAdded
<1>10. FindsFile(t)'
  BY <1>5, <1>6 DEF FindsFile, FileLabels, c
<1>11. XLocksUsed'
  <2>1. ASSUME NEW d \in Contexts, NEW b \in Arrays, b \in xfilelocks'[d]
        PROVE  \E u \in Threads : ContextOf[u] = d /\ pc'[u] = "vacuum" /\ Uri(u)' = b
    <3>1. CASE d = c /\ b = a
      BY <3>1, <1>6 DEF c
    <3>2. CASE d # c \/ b # a
      <4>1. PICK u \in Threads : ContextOf[u] = d /\ pc[u] = "vacuum" /\ Uri(u) = b
        BY SMT, <2>1, <3>2, <1>5 DEF Settled, XLocksUsed
      <4>2. u # t /\ call'[u] = call[u] /\ pc'[u] = pc[u]
        BY <4>1 DEF Guarantee
      <4>3. QED
        BY <4>1, <4>2 DEF Uri
    <3>3. QED
      BY <3>1, <3>2
  <2>2. QED
    BY <2>1 DEF XLocksUsed
<1>12. FilesGuarded(t)
  <2>1. ASSUME NEW q \in Processes, NEW b \in Arrays, filelock_mtx[q] \notin {NoThread, t}
        PROVE  filelocks'[q][b] = filelocks[q][b]
    BY <1>1, <2>1 DEF TypeOK
  <2>2. QED
    BY <1>5, <2>1 DEF FilesGuarded
<1>13. QED
  BY <1>9, <1>10, <1>11, <1>12 DEF FilesKept

LEMMA ReaderUnlocks ==
  ASSUME Settled, NEW t \in Threads, Guarantee(t), pc[t] = "file_unlock", SetEntry(t, NoEntry),
         ReturnNotify(t), UNCHANGED xfilelocks, filelock_unlock(t)
  PROVE  FilesKept(t)
<1>a. PICK a \in Arrays : Uri(t) = a
  BY Here DEF Settled
<1> USE <1>a
<1> DEFINE c == ContextOf[t]
<1>1. /\ TypeOK /\ call[t] \in Handles /\ c \in Contexts /\ a \in Arrays /\ Proc(t) \in Processes
      /\ Entry(t).present /\ Entry(t).filelock /\ Mode(t) = "read" /\ Proc(t) = ProcessOf[c]
  BY Here DEF Settled, Held, Finds, FindsFile, EntryLabels, ReadLabels, Proc
<1>2. call[t] = <<a, "read">>
  BY SMT, <1>1 DEF Handles, Uri, Mode
<1>3. a \notin xfilelocks[c]
  BY <1>1, <1>2, XLockedEntry DEF Entry, ReadEntry
<1>4. HasLock(c, a)
  BY <1>1, <1>2 DEF HasLock, Entry, ReadEntry
<1>5. NoEntry \in EntryState /\ ~NoEntry.filelock
  <2>1. 0 \in 0 .. CntModulus - 1
    BY SMT, CntFacts
  <2>2. QED
    BY <2>1 DEF NoEntry, EntryState
<1>6. EntryBecomes(t, NoEntry)
  BY <1>1, <1>5, EntryFacts
<1>6a. /\ filelocks' = [filelocks EXCEPT ![Proc(t)][a] = filelocks[Proc(t)][a] - 1]
       /\ filelock_mtx[Proc(t)] = NoThread
  BY DEF filelock_unlock
<1> HIDE DEF c
<1>7. ~HasLock(c, a)'
  BY <1>2, <1>3, <1>5, <1>6 DEF EntryBecomes, HasLock, ReadEntry, c
<1>8. ASSUME NEW d \in Contexts, NEW b \in Arrays, d # c \/ b # a PROVE HasLock(d, b)' <=> HasLock(d, b)
  <2>1. <<b, "read">> \in Handles /\ (b # a => <<b, "read">> # call[t])
    BY SMT, <1>2 DEF Handles, Modes
  <2>2. QED
    BY <1>6, <1>8, <2>1 DEF EntryBecomes, HasLock, ReadEntry, c
<1>9. FilesCounted'
  BY <1>1, <1>4, <1>6a, <1>7, <1>8, LockRemoved
<1>10. pc'[t] = "idle"
  BY <1>1, NotifyFacts
<1>11. XLocksUsed'
  <2>1. ASSUME NEW d \in Contexts, NEW b \in Arrays, b \in xfilelocks'[d]
        PROVE  \E u \in Threads : ContextOf[u] = d /\ pc'[u] = "vacuum" /\ Uri(u)' = b
    <3>1. PICK u \in Threads : ContextOf[u] = d /\ pc[u] = "vacuum" /\ Uri(u) = b
      BY <2>1 DEF Settled, XLocksUsed
    <3>2. u # t /\ call'[u] = call[u] /\ pc'[u] = pc[u]
      BY <3>1 DEF Guarantee
    <3>3. QED
      BY <3>1, <3>2 DEF Uri
  <2>2. QED
    BY <2>1 DEF XLocksUsed
<1>12. FilesGuarded(t)
  <2>1. ASSUME NEW q \in Processes, NEW b \in Arrays, filelock_mtx[q] \notin {NoThread, t}
        PROVE  filelocks'[q][b] = filelocks[q][b]
    BY <1>1, <1>6a, <2>1 DEF TypeOK
  <2>2. QED
    BY <2>1 DEF FilesGuarded
<1>13. QED
  BY <1>9, <1>10, <1>11, <1>12, FindsNothing DEF FilesKept

LEMMA VacuumerUnlocks ==
  ASSUME Settled, NEW t \in Threads, Guarantee(t), array_xunlock(t)
  PROVE  FilesKept(t)
<1>a. PICK a \in Arrays : Uri(t) = a
  BY Here DEF Settled, array_xunlock
<1> USE <1>a
<1> DEFINE c == ContextOf[t]
<1>1. /\ pc[t] = "vacuum" /\ UNCHANGED entry /\ Return(t) /\ filelock_unlock(t)
      /\ xfilelocks' = [xfilelocks EXCEPT ![c] = @ \ {a}]
  BY LockCounted DEF array_xunlock, filelock_missing
<1>2. /\ TypeOK /\ call[t] \in Handles /\ c \in Contexts /\ a \in Arrays /\ Proc(t) \in Processes
      /\ Entry(t) = NoEntry /\ Mode(t) = "read" /\ xlock_mtx[c] = t /\ Proc(t) = ProcessOf[c]
      /\ a \in xfilelocks[c]
  BY <1>1, Here DEF Settled, Held, Finds, FindsFile, XLabels, ReadLabels, Proc
<1>3. call[t] = <<a, "read">>
  BY SMT, <1>2 DEF Handles, Uri, Mode
<1>4. HasLock(c, a)
  BY <1>2 DEF HasLock
<1>5. /\ xfilelocks'[c] = xfilelocks[c] \ {a}
      /\ \A d \in Contexts : d # c => xfilelocks'[d] = xfilelocks[d]
  BY <1>1, <1>2 DEF TypeOK
<1>6. /\ filelocks' = [filelocks EXCEPT ![Proc(t)][a] = filelocks[Proc(t)][a] - 1]
      /\ filelock_mtx[Proc(t)] = NoThread
  BY <1>1 DEF filelock_unlock
<1>7. pc'[t] = "idle"
  BY <1>1, <1>2, ReturnFacts
<1>8. ~HasLock(c, a)'
  BY SMTT(20), <1>1, <1>2, <1>3, <1>5 DEF HasLock, Entry, ReadEntry, NoEntry
<1> HIDE DEF c
<1>9. ASSUME NEW d \in Contexts, NEW b \in Arrays, d # c \/ b # a PROVE HasLock(d, b)' <=> HasLock(d, b)
  BY <1>1, <1>5, <1>9 DEF HasLock, ReadEntry
<1>10. FilesCounted'
  BY <1>2, <1>4, <1>6, <1>8, <1>9, LockRemoved
<1>11. XLocksUsed'
  <2>1. ASSUME NEW d \in Contexts, NEW b \in Arrays, b \in xfilelocks'[d]
        PROVE  \E u \in Threads : ContextOf[u] = d /\ pc'[u] = "vacuum" /\ Uri(u)' = b
    <3>1. b \in xfilelocks[d] /\ (d # c \/ b # a)
      BY <2>1, <1>5
    <3>2. PICK u \in Threads : ContextOf[u] = d /\ pc[u] = "vacuum" /\ Uri(u) = b
      BY <3>1 DEF Settled, XLocksUsed
    <3>3. u # t
      BY <3>1, <3>2 DEF c
    <3>4. call'[u] = call[u] /\ pc'[u] = pc[u]
      BY <3>2, <3>3 DEF Guarantee
    <3>5. QED
      BY <3>2, <3>4 DEF Uri
  <2>2. QED
    BY <2>1 DEF XLocksUsed
<1>12. FilesGuarded(t)
  <2>1. ASSUME NEW q \in Processes, NEW b \in Arrays, filelock_mtx[q] \notin {NoThread, t}
        PROVE  filelocks'[q][b] = filelocks[q][b]
    BY <1>2, <1>6, <2>1 DEF TypeOK
  <2>2. ASSUME NEW d \in Contexts, NEW b \in Arrays, b \in xfilelocks[d], b \notin xfilelocks'[d]
        PROVE  xlock_mtx[d] = t
    BY <1>2, <1>5, <2>2
  <2>3. QED
    BY <2>1, <2>2 DEF FilesGuarded
<1>13. QED
  BY <1>7, <1>10, <1>11, <1>12, FindsNothing DEF FilesKept

LEMMA ThreadFiles ==
  ASSUME Settled, NoLeaks, NEW t \in Threads, ThreadStep(t), Guarantee(t)
  PROVE  FilesKept(t)
<1>1. TypeOK /\ Held
  BY DEF Settled, Held
<1>2. ASSUME FilesSame, FindsFile(t)', pc[t] # "vacuum" PROVE FilesKept(t)
  BY <1>2, QuietStep DEF FilesKept
<1>3. ASSUME NEW h \in Handles, NEW l \in {"open", "close", "reopen", "xlock"}, pc[t] = "idle",
             Goto(t, l), UNCHANGED <<entry, xfilelocks, fileVars>>
      PROVE  FilesKept(t)
  <2>1. l \in Labels
    BY DEF Labels
  <2>2. pc'[t] = l
    BY <1>1, <1>3, <2>1, GotoFacts
  <2>3. FilesSame
    BY <1>3 DEF FilesSame, fileVars
  <2>4. QED
    BY <1>2, <1>3, <2>2, <2>3, FindsNothing
<1>4. ASSUME NEW h \in Handles, array_open(t, h) \/ array_close(t, h) \/ array_reopen(t, h)
      PROVE  FilesKept(t)
  BY <1>3, <1>4 DEF array_open, array_close, array_reopen
<1>5. ASSUME NEW a \in Arrays, array_vacuum(t, a) PROVE FilesKept(t)
  <2>1. <<a, "read">> \in Handles
    BY DEF Handles, Modes
  <2>2. QED
    BY <1>3, <1>5, <2>1 DEF array_vacuum
<1>6. CASE \/ open_lock_reads(t) \/ open_lock_xlock(t) \/ open_lock_writes(t)
           \/ open_key_differs(t) \/ open_lock_entry(t)
  <2>1. pc[t] # "vacuum"
    BY <1>6 DEF open_lock_reads, open_lock_xlock, open_lock_writes, open_key_differs, open_lock_entry
  <2>2. QED
    BY <1>2, <1>6, <2>1, OpenQuiet
<1>7. CASE open_file_lock(t)
  <2>1. pc[t] = "file_lock" /\ UNCHANGED <<call, xfilelocks>>
    BY <1>7 DEF open_file_lock
  <2>2. CASE filelock_wait(t) /\ Goto(t, "fcntl") /\ UNCHANGED entry
    BY <1>2, <2>1, <2>2, WaitQuiet
  <2>3. CASE filelock_counted(t) /\ SetEntry(t, [Entry(t) EXCEPT !.filelock = TRUE]) /\ Goto(t, "load")
    <3>1. /\ filelocks' = [filelocks EXCEPT ![Proc(t)][Uri(t)] = filelocks[Proc(t)][Uri(t)] + 1]
          /\ filelock_mtx[Proc(t)] = NoThread
      BY <2>3 DEF filelock_counted
    <3>2. QED
      BY <2>1, <2>3, <3>1, ReaderLocks
  <2>4. QED
    BY <1>7, <2>2, <2>3 DEF open_file_lock
<1>8. ASSUME pc[t] \in FileLabels, NEW kind \in {"shared", "exclusive"}, filelock_granted(t, kind)
      PROVE  /\ filelocks' = [filelocks EXCEPT ![Proc(t)][Uri(t)] = filelocks[Proc(t)][Uri(t)] + 1]
             /\ filelock_mtx[Proc(t)] = t
  <2>1. filelocks[Proc(t)][Uri(t)] = 0
    BY <1>8 DEF Settled, FindsFile
  <2>2. pc[t] # "idle"
    BY <1>8 DEF FileLabels
  <2>3. filelocks[Proc(t)][Uri(t)] + 1 = 1
    BY SMT, <2>1
  <2>4. QED
    BY <1>1, <1>8, <2>2, <2>3, Here DEF filelock_granted
<1>9. CASE open_fcntl(t)
  BY <1>8, <1>9, ReaderLocks DEF open_fcntl, FileLabels
<1>10. CASE xlock_file_lock(t)
  <2>1. pc[t] = "xlock_file" /\ UNCHANGED <<call, entry>>
    BY <1>10 DEF xlock_file_lock
  <2>2. CASE filelock_wait(t) /\ Goto(t, "xlock_fcntl") /\ UNCHANGED xfilelocks
    BY <1>2, <2>1, <2>2, WaitQuiet
  <2>3. CASE filelock_counted(t) /\ XLocked(t)
    <3>1. /\ filelocks' = [filelocks EXCEPT ![Proc(t)][Uri(t)] = filelocks[Proc(t)][Uri(t)] + 1]
          /\ filelock_mtx[Proc(t)] = NoThread
      BY <2>3 DEF filelock_counted
    <3>2. QED
      BY <2>1, <2>3, <3>1, VacuumerLocks
  <2>4. QED
    BY <1>10, <2>2, <2>3 DEF xlock_file_lock
<1>11. CASE xlock_fcntl(t)
  BY <1>8, <1>11, VacuumerLocks DEF xlock_fcntl, FileLabels
<1>12. CASE close_file_unlock(t)
  BY <1>12, LockCounted, ReaderUnlocks DEF close_file_unlock, filelock_missing
<1>13. ~listing_fails(t)
  BY DEF listing_fails, Fail, NoLeaks
<1>14. QED
  BY <1>2, <1>4, <1>5, <1>6, <1>7, <1>9, <1>10, <1>11, <1>12, <1>13, OtherQuiet, CloseQuiet,
     VacuumerUnlocks
  DEF ThreadStep

LEMMA ThreadSettled ==
  ASSUME Settled, NoLeaks, NEW t \in Threads, ThreadStep(t)
  PROVE  Settled'
<1>1. Held' /\ Guarantee(t)
  BY ThreadSteps DEF Settled, Kept
<1>2. FilesKept(t)
  BY <1>1, ThreadFiles
<1>3. \A u \in Threads : FindsFile(u)'
  BY <1>1, <1>2, OthersFindFile DEF Held, FilesKept
<1>4. QED
  BY <1>1, <1>2, <1>3 DEF Settled, FilesKept

LEMMA ExitSettled ==
  ASSUME Settled, NEW p \in Processes, process_exit(p)
  PROVE  Settled'
<1> DEFINE gone(c) == ProcessOf[c] = p
<1>1. /\ \A t \in Threads : ContextOf[t] \in Contexts /\ Proc(t) \in Processes
      /\ \A t \in Threads : gone(ContextOf[t]) => pc'[t] = "idle"
      /\ \A t \in Threads : ~gone(ContextOf[t]) => pc'[t] = pc[t] /\ call'[t] = call[t]
  BY OpenArraysAssumption DEF process_exit, Settled, Held, TypeOK, Proc
<1>2. /\ \A c \in Contexts : ~gone(c) =>
           /\ map_mtx'[c] = map_mtx[c] /\ xlock_mtx'[c] = xlock_mtx[c]
           /\ entry'[c] = entry[c] /\ xfilelocks'[c] = xfilelocks[c]
      /\ \A c \in Contexts, m \in Modes : gone(c) => map_mtx'[c][m] = NoThread
      /\ \A c \in Contexts, h \in Handles : gone(c) => entry'[c][h] = NoEntry
      /\ \A c \in Contexts : gone(c) => xfilelocks'[c] = {} /\ xlock_mtx'[c] = NoThread
  BY DEF process_exit
<1>3. /\ \A q \in Processes \ {p} :
           filelock_mtx'[q] = filelock_mtx[q] /\ filelocks'[q] = filelocks[q]
      /\ filelock_mtx'[p] = NoThread
      /\ \A a \in Arrays : filelocks'[p][a] = 0
  BY DEF process_exit, Settled, Held, TypeOK
<1>4. Held'
  BY ExitStep DEF Settled
<1>5. ASSUME NEW t \in Threads PROVE FindsFile(t)'
  <2>1. CASE gone(ContextOf[t])
    BY <1>1, <2>1, FindsNothing
  <2>2. CASE ~gone(ContextOf[t])
    <3>1. /\ FindsFile(t) /\ pc'[t] = pc[t] /\ call'[t] = call[t]
          /\ Proc(t) \in Processes \ {p} /\ ContextOf[t] \in Contexts
      BY <1>1, <2>2 DEF Settled, Proc
    <3>2. QED
      BY <1>2, <1>3, <2>2, <3>1 DEF FindsFile, Entry, Uri, Proc
  <2>3. QED
    BY <2>1, <2>2
<1>6. FilesCounted'
  <2>1. ASSUME NEW a \in Arrays PROVE LockedBy(p, a)' = {}
    <3>1. <<a, "read">> \in Handles
      BY DEF Handles, Modes
    <3>2. ASSUME NEW c \in Contexts, gone(c) PROVE ~HasLock(c, a)'
      <4>1. entry'[c][<<a, "read">>] = NoEntry /\ xfilelocks'[c] = {}
        BY <1>2, <3>1, <3>2
      <4>2. QED
        BY SMT, <4>1 DEF HasLock, ReadEntry, NoEntry
    <3>3. QED
      BY <3>2 DEF LockedBy
  <2>2. ASSUME NEW q \in Processes \ {p}, NEW a \in Arrays PROVE LockedBy(q, a)' = LockedBy(q, a)
    BY <1>2 DEF LockedBy, HasLock, ReadEntry
  <2>3. \A a \in Arrays : filelocks'[p][a] = Cardinality(LockedBy(p, a)')
    BY <1>3, <2>1, LockedSizes DEF Settled
  <2>4. \A q \in Processes \ {p}, a \in Arrays : filelocks'[q][a] = Cardinality(LockedBy(q, a)')
    BY <1>3, <2>2 DEF Settled, FilesCounted
  <2>5. QED
    BY <2>3, <2>4 DEF FilesCounted
<1>7. XLocksUsed'
  <2>1. ASSUME NEW c \in Contexts, NEW a \in Arrays, a \in xfilelocks'[c]
        PROVE  \E t \in Threads : ContextOf[t] = c /\ pc'[t] = "vacuum" /\ Uri(t)' = a
    <3>1. ~gone(c) /\ a \in xfilelocks[c]
      BY <1>2, <2>1
    <3>2. PICK t \in Threads : ContextOf[t] = c /\ pc[t] = "vacuum" /\ Uri(t) = a
      BY <3>1 DEF Settled, XLocksUsed
    <3>3. QED
      BY <1>1, <3>1, <3>2 DEF Uri
  <2>2. QED
    BY <2>1 DEF XLocksUsed
<1>8. QED
  BY <1>4, <1>5, <1>6, <1>7 DEF Settled

LEMMA InitSettled ==
  ASSUME Init, Sizes(Contexts)
  PROVE  Settled
<1>1. Held
  BY HeldInductive
<1>2. \A t \in Threads : FindsFile(t)
  BY DEF Init, FindsFile, FileLabels
<1>3. ASSUME NEW q \in Processes, NEW a \in Arrays PROVE LockedBy(q, a) = {}
  <2>1. <<a, "read">> \in Handles
    BY DEF Handles, Modes
  <2>2. QED
    BY <2>1 DEF Init, LockedBy, HasLock, ReadEntry, NoEntry
<1>4. FilesCounted
  BY <1>3, LockedSizes DEF Init, FilesCounted
<1>5. XLocksUsed
  BY DEF Init, XLocksUsed
<1>6. QED
  BY <1>1, <1>2, <1>4, <1>5 DEF Settled

LEMMA StutterSettled ==
  ASSUME Settled, UNCHANGED vars
  PROVE  Settled'
<1>1. Held'
  BY HeldInductive DEF Settled
<1>2. \A t \in Threads : FindsFile(t)'
  BY DEF vars, Settled, FindsFile, Entry, Uri
<1>3. FilesCounted'
  <2>1. \A q, a : LockedBy(q, a)' = LockedBy(q, a)
    BY DEF vars, LockedBy, HasLock, ReadEntry
  <2>2. QED
    BY <2>1 DEF vars, Settled, FilesCounted
<1>4. XLocksUsed'
  BY SMT DEF vars, Settled, XLocksUsed, Uri
<1>5. QED
  BY <1>1, <1>2, <1>3, <1>4 DEF Settled
=============================================================================
