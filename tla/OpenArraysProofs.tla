-------------------------- MODULE OpenArraysProofs --------------------------
(***************************************************************************)
(* The mutexes of opening, closing, reopening and vacuuming arrays, for    *)
(* any number of threads, contexts, processes and arrays, and whatever     *)
(* fails.                                                                  *)
(***************************************************************************)
EXTENDS OpenArrays, TLAPS

\* Zenon proves the first-order steps; a step that needs more names SMT.
USE Zenon

(***************************************************************************)
(* Which mutexes a thread owns follows from where it is.                   *)
(***************************************************************************)
MapLabels == {"open_xlock", "open_entry", "close_entry", "file_unlock",
              "reopen_entry", "xlock_file", "xlock_fcntl"}
XLabels == {"xlock_reads", "xlock_wait", "xlock_file", "xlock_fcntl", "vacuum"}
EntryLabels == {"file_lock", "fcntl", "load", "reopen_load", "file_unlock"}
FileLabels == {"fcntl", "xlock_fcntl"}

\* Where only calls about arrays that are open for reads get to.
ReadLabels == {"open_xlock", "file_lock", "fcntl", "file_unlock", "reopen",
               "reopen_entry", "reopen_load", "xlock"} \union XLabels

HasMap(t, c, m) == ContextOf[t] = c /\ pc[t] \in MapLabels /\ Mode(t) = m
HasX(t, c) ==
  /\ ContextOf[t] = c
  /\ pc[t] \in XLabels \/ (pc[t] = "open_entry" /\ Mode(t) = "read")
HasEntry(t, c, h) == ContextOf[t] = c /\ pc[t] \in EntryLabels /\ call[t] = h
HasFile(t, p) == Proc(t) = p /\ pc[t] \in FileLabels

\* What is so whenever thread t is where it is.
Owns(t) ==
  /\ \A c \in Contexts, m \in Modes : HasMap(t, c, m) => map_mtx[c][m] = t
  /\ \A c \in Contexts : HasX(t, c) => xlock_mtx[c] = t
  /\ \A c \in Contexts, h \in Handles : HasEntry(t, c, h) => entry[c][h].mtx = t
  /\ \A p \in Processes : HasFile(t, p) => filelock_mtx[p] = t

Finds(t) ==
  /\ pc[t] \in ReadLabels => Mode(t) = "read"
  /\ pc[t] \in EntryLabels \union {"open_entry", "close_entry", "reopen_entry"} =>
       Entry(t).present
  /\ pc[t] \in {"xlock_file", "xlock_fcntl", "vacuum"} => ~Entry(t).present

\* A missing entry has nothing in it, and only readers lock files.
Entries ==
  \A c \in Contexts, h \in Handles :
    /\ ~entry[c][h].present => entry[c][h] = NoEntry
    /\ h[2] = "write" => ~entry[c][h].filelock

\* The inductive invariant, whatever fails.
Held ==
  /\ TypeOK
  /\ \A t \in Threads : Owns(t) /\ Finds(t)
  /\ Entries

EntryState == [present : BOOLEAN, cnt : 0 .. CntModulus - 1,
               mtx : Threads \union {NoThread}, filelock : BOOLEAN]

-----------------------------------------------------------------------------
(* What the operators that the actions are made of do. *)

LEMMA GotoFacts ==
  ASSUME TypeOK, NEW t \in Threads, NEW l \in Labels, Goto(t, l)
  PROVE  /\ pc' \in [Threads -> Labels]
         /\ pc'[t] = l
         /\ \A u \in Threads \ {t} : pc'[u] = pc[u]
  BY DEF TypeOK, Goto

LEMMA ReturnFacts ==
  ASSUME TypeOK, NEW t \in Threads, Return(t)
  PROVE  /\ pc' \in [Threads -> Labels]
         /\ call' \in [Threads -> Handles \union {NoCall}]
         /\ pc'[t] = "idle"
         /\ \A u \in Threads \ {t} : pc'[u] = pc[u] /\ call'[u] = call[u]
  BY DEF TypeOK, Return, Labels

LEMMA NotifyFacts ==
  ASSUME TypeOK, NEW t \in Threads, ReturnNotify(t)
  PROVE  /\ pc' \in [Threads -> Labels]
         /\ call' \in [Threads -> Handles \union {NoCall}]
         /\ pc'[t] = "idle"
         /\ \A u \in Threads \ {t} :
              /\ call'[u] = call[u]
              /\ pc'[u] = pc[u] \/ (pc[u] = "xlock_wait" /\ pc'[u] = "xlock_reads")
  BY DEF TypeOK, ReturnNotify, Labels

\* The mutex of a map has the owner u after the step, and no other one changes.
MapMutex(t, m, u) ==
  /\ map_mtx' \in [Contexts -> [Modes -> Threads \union {NoThread}]]
  /\ map_mtx'[ContextOf[t]][m] = u
  /\ \A c \in Contexts, n \in Modes :
       c # ContextOf[t] \/ n # m => map_mtx'[c][n] = map_mtx[c][n]

LEMMA MapFacts ==
  ASSUME TypeOK, NEW t \in Threads, NEW m \in Modes
  PROVE  /\ Lock(t, m) => MapMutex(t, m, t) /\ map_mtx[ContextOf[t]][m] = NoThread
         /\ Unlock(t, m) => MapMutex(t, m, NoThread)
<1>1. ContextOf[t] \in Contexts
  BY OpenArraysAssumption
<1>2. ASSUME NEW u \in Threads \union {NoThread},
             map_mtx' = [map_mtx EXCEPT ![ContextOf[t]][m] = u]
      PROVE  MapMutex(t, m, u)
  BY <1>1, <1>2 DEF TypeOK, MapMutex
<1>3. QED
  BY <1>2 DEF Lock, Unlock

XMutex(t, u) ==
  /\ xlock_mtx' \in [Contexts -> Threads \union {NoThread}]
  /\ xlock_mtx'[ContextOf[t]] = u
  /\ \A c \in Contexts : c # ContextOf[t] => xlock_mtx'[c] = xlock_mtx[c]

LEMMA XFacts ==
  ASSUME TypeOK, NEW t \in Threads
  PROVE  /\ LockX(t) => XMutex(t, t) /\ xlock_mtx[ContextOf[t]] = NoThread
         /\ UnlockX(t) => XMutex(t, NoThread)
<1>1. ContextOf[t] \in Contexts
  BY OpenArraysAssumption
<1>2. ASSUME NEW u \in Threads \union {NoThread},
             xlock_mtx' = [xlock_mtx EXCEPT ![ContextOf[t]] = u]
      PROVE  XMutex(t, u)
  BY <1>1, <1>2 DEF TypeOK, XMutex
<1>3. QED
  BY <1>2 DEF LockX, UnlockX

\* The entry that the call of t is about becomes e.
EntryBecomes(t, e) ==
  /\ entry' \in [Contexts -> [Handles -> EntryState]]
  /\ entry'[ContextOf[t]][call[t]] = e
  /\ \A c \in Contexts, h \in Handles :
       c # ContextOf[t] \/ h # call[t] => entry'[c][h] = entry[c][h]

LEMMA EntryFacts ==
  ASSUME TypeOK, NEW t \in Threads, call[t] \in Handles, NEW e \in EntryState, SetEntry(t, e)
  PROVE  EntryBecomes(t, e)
  BY OpenArraysAssumption DEF TypeOK, SetEntry, EntryBecomes, EntryState

LEMMA EntryType ==
  ASSUME TypeOK, NEW t \in Threads, call[t] \in Handles
  PROVE  Entry(t) \in EntryState /\ ContextOf[t] \in Contexts /\ Mode(t) \in Modes /\ Uri(t) \in Arrays
  BY SMT, OpenArraysAssumption DEF TypeOK, Entry, EntryState, Handles, Mode, Uri

LEMMA CntFacts ==
  ASSUME NEW n \in Int
  PROVE  /\ cnt_incr(n) \in 0 .. CntModulus - 1
         /\ cnt_decr(n) \in 0 .. CntModulus - 1
         /\ 0 \in 0 .. CntModulus - 1
<1>1. CntModulus \in Nat \ {0}
  BY SMT DEF CntModulus
<1>2. \A m \in Int : m % CntModulus \in 0 .. CntModulus - 1
  BY SMT, <1>1
<1>3. QED
  BY SMT, <1>1, <1>2 DEF cnt_incr, cnt_decr

FileTypes ==
  /\ filelock_mtx' \in [Processes -> Threads \union {NoThread}]
  /\ filelocks' \in [Processes -> [Arrays -> Nat]]
  /\ kernel' \in [Processes -> [Arrays -> {"none", "shared", "exclusive"}]]

\* The mutex of the file locks of a process has the owner u after the step.
FileMutex(t, u) ==
  /\ FileTypes
  /\ filelock_mtx'[Proc(t)] = u
  /\ \A p \in Processes \ {Proc(t)} : filelock_mtx'[p] = filelock_mtx[p]

LEMMA FileFacts ==
  ASSUME TypeOK, NEW t \in Threads, call[t] \in Handles, NEW kind \in {"shared", "exclusive"}
  PROVE  /\ filelock_counted(t) => FileTypes /\ UNCHANGED filelock_mtx
         /\ filelock_wait(t) => FileMutex(t, t) /\ filelock_mtx[Proc(t)] = NoThread
         /\ filelock_granted(t, kind) => FileMutex(t, NoThread)
         /\ filelock_refused(t) => FileMutex(t, NoThread)
         /\ filelock_unlock(t) => FileTypes /\ UNCHANGED filelock_mtx
         /\ filelock_missing(t) => FileTypes /\ UNCHANGED filelock_mtx
<1> DEFINE p == Proc(t)
           a == Uri(t)
<1>1. p \in Processes /\ a \in Arrays
  BY EntryType, OpenArraysAssumption DEF Proc
<1> HIDE DEF p, a
<1>t. /\ filelock_mtx \in [Processes -> Threads \union {NoThread}]
      /\ filelocks \in [Processes -> [Arrays -> Nat]]
      /\ kernel \in [Processes -> [Arrays -> {"none", "shared", "exclusive"}]]
  BY DEF TypeOK
<1>2. ASSUME filelock_counted(t) PROVE FileTypes /\ UNCHANGED filelock_mtx
  BY SMT, <1>1, <1>2, <1>t DEF filelock_counted, FileTypes, p, a
<1>3. ASSUME filelock_wait(t) PROVE FileMutex(t, t) /\ filelock_mtx[Proc(t)] = NoThread
  BY <1>1, <1>3, <1>t DEF filelock_wait, FileMutex, FileTypes, p, a
<1>4. ASSUME filelock_granted(t, kind) PROVE FileMutex(t, NoThread)
  BY <1>1, <1>4, <1>t DEF filelock_granted, FileMutex, FileTypes, p, a
<1>5. ASSUME filelock_refused(t) PROVE FileMutex(t, NoThread)
  BY <1>1, <1>5, <1>t DEF filelock_refused, FileMutex, FileTypes, p, a
<1>6. ASSUME filelock_unlock(t) PROVE FileTypes /\ UNCHANGED filelock_mtx
  BY SMT, <1>1, <1>6, <1>t DEF filelock_unlock, FileTypes, p, a
<1>7. ASSUME filelock_missing(t) PROVE FileTypes /\ UNCHANGED filelock_mtx
  BY <1>7, <1>t DEF filelock_missing, FileTypes, fileVars
<1>8. QED
  BY <1>2, <1>3, <1>4, <1>5, <1>6, <1>7

-----------------------------------------------------------------------------
(***************************************************************************)
(* What a step of thread u does to the others: it wakes them, and changes  *)
(* a mutex only to take it when it is free or to give it back; it adds an  *)
(* entry of readers when nobody has the exclusive-lock mutex and removes   *)
(* an entry when it has the map and nobody else has the entry.             *)
(***************************************************************************)
Passed(u, old, new) == new = old \/ (old \in {NoThread, u} /\ new \in {NoThread, u})

Guarantee(u) ==
  /\ \A t \in Threads \ {u} :
       /\ call'[t] = call[t] /\ open'[t] = open[t]
       /\ pc'[t] = pc[t] \/ (pc[t] = "xlock_wait" /\ pc'[t] = "xlock_reads")
  /\ \A c \in Contexts, m \in Modes : Passed(u, map_mtx[c][m], map_mtx'[c][m])
  /\ \A c \in Contexts : Passed(u, xlock_mtx[c], xlock_mtx'[c])
  /\ \A p \in Processes : Passed(u, filelock_mtx[p], filelock_mtx'[p])
  /\ \A c \in Contexts, h \in Handles :
       /\ Passed(u, entry[c][h].mtx, entry'[c][h].mtx)
       /\ \/ c = ContextOf[u] /\ h = call[u] /\ entry[c][h].mtx \in {NoThread, u}
          \/ entry'[c][h].cnt = entry[c][h].cnt /\ entry'[c][h].filelock = entry[c][h].filelock
       /\ entry[c][h].present /\ ~entry'[c][h].present =>
            map_mtx[c][h[2]] = u /\ entry[c][h].mtx \in {NoThread, u}
       /\ ~entry[c][h].present /\ entry'[c][h].present /\ h[2] = "read" =>
            xlock_mtx[c] = NoThread

LEMMA OthersKept ==
  ASSUME Held, TypeOK', NEW u \in Threads, Guarantee(u), NEW t \in Threads \ {u}
  PROVE  Owns(t)' /\ Finds(t)'
<1> DEFINE c == ContextOf[t]
           h == call[t]
<1>1. CASE pc'[t] = "idle"
  BY <1>1 DEF Owns, Finds, HasMap, HasX, HasEntry, HasFile, MapLabels, XLabels, EntryLabels,
              FileLabels, ReadLabels
<1>2. CASE pc'[t] # "idle"
  <2>1. /\ c \in Contexts /\ h \in Handles /\ Proc(t) \in Processes
        /\ h = call'[t]
        /\ pc[t] # "idle"
        /\ pc'[t] = pc[t] \/ (pc[t] = "xlock_wait" /\ pc'[t] = "xlock_reads")
    BY <1>2, OpenArraysAssumption DEF Held, TypeOK, Guarantee, Proc
  <2>2. Mode(t) \in Modes /\ Mode(t) = h[2] /\ Mode(t)' = Mode(t)
    BY <2>1 DEF Mode, Handles
  <2>3. t # NoThread /\ t # u
    BY OpenArraysAssumption
  <2>4. Owns(t) /\ Finds(t)
    BY DEF Held
  <2> HIDE DEF c, h
  <2>5. Owns(t)'
    <3>1. ASSUME NEW d \in Contexts, NEW m \in Modes, HasMap(t, d, m)' PROVE map_mtx'[d][m] = t
      BY SMT, <2>1, <2>2, <2>3, <2>4, <3>1 DEF Owns, Guarantee, Passed, HasMap, MapLabels
    <3>2. ASSUME NEW d \in Contexts, HasX(t, d)' PROVE xlock_mtx'[d] = t
      BY SMT, <2>1, <2>2, <2>3, <2>4, <3>2 DEF Owns, Guarantee, Passed, HasX, XLabels
    <3>3. ASSUME NEW d \in Contexts, NEW g \in Handles, HasEntry(t, d, g)' PROVE entry'[d][g].mtx = t
      BY SMT, <2>1, <2>3, <2>4, <3>3 DEF Owns, Guarantee, Passed, HasEntry, EntryLabels, h
    <3>4. ASSUME NEW p \in Processes, HasFile(t, p)' PROVE filelock_mtx'[p] = t
      BY SMT, <2>1, <2>3, <2>4, <3>4 DEF Owns, Guarantee, Passed, HasFile, FileLabels, Proc
    <3>5. QED
      BY <3>1, <3>2, <3>3, <3>4 DEF Owns
  <2>6. Finds(t)'
    <3>1. pc'[t] \in ReadLabels => Mode(t)' = "read"
      BY <2>1, <2>2, <2>4 DEF Finds, ReadLabels, XLabels
    <3>2. ASSUME pc'[t] \in EntryLabels \union {"open_entry", "close_entry", "reopen_entry"}
          PROVE  entry'[c][h].present
      <4>1. pc[t] = pc'[t]
        BY <2>1, <3>2 DEF EntryLabels
      <4>2. entry[c][h].present
        BY <4>1, <3>2, <2>4 DEF Finds, Entry, c, h
      <4>3. CASE pc[t] \in EntryLabels
        <5>1. entry[c][h].mtx = t
          BY <4>3, <2>1, <2>4 DEF Owns, HasEntry, c, h
        <5>2. QED
          BY <5>1, <4>2, <2>1, <2>3 DEF Guarantee
      <4>4. CASE pc[t] \in {"open_entry", "close_entry", "reopen_entry"}
        <5>1. map_mtx[c][h[2]] = t
          BY <4>4, <2>1, <2>2, <2>4 DEF Owns, HasMap, MapLabels, c, h
        <5>2. QED
          BY <5>1, <4>2, <2>1, <2>3 DEF Guarantee
      <4>5. QED
        BY <4>1, <4>3, <4>4, <3>2
    <3>3. ASSUME pc'[t] \in {"xlock_file", "xlock_fcntl", "vacuum"}
          PROVE  ~entry'[c][h].present
      <4>1. pc[t] = pc'[t]
        BY <2>1, <3>3
      <4>2. ~entry[c][h].present /\ h[2] = "read"
        BY <4>1, <3>3, <2>2, <2>4 DEF Finds, Entry, ReadLabels, XLabels, c, h
      <4>3. xlock_mtx[c] = t
        BY <4>1, <3>3, <2>1, <2>4 DEF Owns, HasX, XLabels, c
      <4>4. QED
        BY <4>2, <4>3, <2>1, <2>3 DEF Guarantee
    <3>4. QED
      BY <2>1, <3>1, <3>2, <3>3 DEF Finds, Entry, c
  <2>7. QED
    BY <2>5, <2>6
<1>3. QED
  BY <1>1, <1>2

-----------------------------------------------------------------------------
(* The parts of a step of thread t, and what they guarantee. *)

PassMap(t) ==
  /\ map_mtx' \in [Contexts -> [Modes -> Threads \union {NoThread}]]
  /\ \A c \in Contexts, m \in Modes : Passed(t, map_mtx[c][m], map_mtx'[c][m])

PassX(t) ==
  /\ xlock_mtx' \in [Contexts -> Threads \union {NoThread}]
  /\ \A c \in Contexts : Passed(t, xlock_mtx[c], xlock_mtx'[c])

PassFile(t) ==
  /\ FileTypes
  /\ \A p \in Processes : Passed(t, filelock_mtx[p], filelock_mtx'[p])

PassEntry(t) ==
  /\ entry' \in [Contexts -> [Handles -> EntryState]]
  /\ \A c \in Contexts, h \in Handles :
       /\ Passed(t, entry[c][h].mtx, entry'[c][h].mtx)
       /\ \/ c = ContextOf[t] /\ h = call[t] /\ entry[c][h].mtx \in {NoThread, t}
          \/ entry'[c][h].cnt = entry[c][h].cnt /\ entry'[c][h].filelock = entry[c][h].filelock
       /\ entry[c][h].present /\ ~entry'[c][h].present =>
            map_mtx[c][h[2]] = t /\ entry[c][h].mtx \in {NoThread, t}
       /\ ~entry[c][h].present /\ entry'[c][h].present /\ h[2] = "read" =>
            xlock_mtx[c] = NoThread
  /\ Entries'

\* The Array objects of the other threads stay as they are.
OpenPassed(t) ==
  /\ open' \in [Threads -> SUBSET Handles]
  /\ \A u \in Threads \ {t} : open'[u] = open[u]

PassControl(t) ==
  /\ pc' \in [Threads -> Labels]
  /\ call' \in [Threads -> Handles \union {NoCall}]
  /\ pc'[t] # "idle" => call'[t] \in Handles
  /\ OpenPassed(t)
  /\ \A u \in Threads \ {t} :
       /\ call'[u] = call[u]
       /\ pc'[u] = pc[u] \/ (pc[u] = "xlock_wait" /\ pc'[u] = "xlock_reads")

PassRest == xfilelocks' \in [Contexts -> SUBSET Arrays] /\ faults' \in 0 .. MaxFaults

\* Thread t owns and finds what it should where it gets to.
Arrives(t) ==
  LET c == ContextOf[t]
      h == call'[t]
      l == pc'[t]
  IN  l # "idle" =>
        /\ l \in MapLabels => map_mtx'[c][h[2]] = t
        /\ l \in XLabels \/ (l = "open_entry" /\ h[2] = "read") => xlock_mtx'[c] = t
        /\ l \in EntryLabels => entry'[c][h].mtx = t
        /\ l \in FileLabels => filelock_mtx'[ProcessOf[c]] = t
        /\ l \in ReadLabels => h[2] = "read"
        /\ l \in EntryLabels \union {"open_entry", "close_entry", "reopen_entry"} =>
             entry'[c][h].present
        /\ l \in {"xlock_file", "xlock_fcntl", "vacuum"} => ~entry'[c][h].present

Kept(t) == Held' /\ Guarantee(t)

LEMMA Assembled ==
  ASSUME Held, NEW t \in Threads, PassMap(t), PassX(t), PassFile(t), PassEntry(t),
         PassControl(t), PassRest, Arrives(t)
  PROVE  Kept(t)
<1>1. TypeOK'
  <2>1. ASSUME NEW u \in Threads, pc'[u] # "idle" PROVE call'[u] \in Handles
    BY <2>1 DEF PassControl, Held, TypeOK
  <2>2. QED
    BY <2>1 DEF TypeOK, PassMap, PassX, PassFile, FileTypes, PassEntry, EntryState, PassControl,
                OpenPassed, PassRest
<1>2. Guarantee(t)
  BY DEF Guarantee, PassMap, PassX, PassFile, PassEntry, PassControl, OpenPassed
<1>3. Owns(t)' /\ Finds(t)'
  <2>1. CASE pc'[t] = "idle"
    BY <2>1 DEF Owns, Finds, HasMap, HasX, HasEntry, HasFile, MapLabels, XLabels, EntryLabels,
                FileLabels, ReadLabels
  <2>2. CASE pc'[t] # "idle"
    BY <2>2, OpenArraysAssumption
    DEF Arrives, Owns, Finds, HasMap, HasX, HasEntry, HasFile, Mode, Entry, Proc
  <2>3. QED
    BY <2>1, <2>2
<1>4. QED
  BY <1>1, <1>2, <1>3, OthersKept DEF Held, PassEntry, Kept

LEMMA Here ==
  ASSUME Held, NEW t \in Threads, pc[t] # "idle"
  PROVE  /\ call[t] \in Handles /\ ContextOf[t] \in Contexts /\ Proc(t) \in Processes
         /\ Mode(t) \in Modes /\ Mode(t) = call[t][2] /\ Uri(t) \in Arrays
         /\ Entry(t) \in EntryState
         /\ ~Entry(t).present => Entry(t) = NoEntry
         /\ Mode(t) = "write" => ~Entry(t).filelock
         /\ pc[t] \in MapLabels => map_mtx[ContextOf[t]][Mode(t)] = t
         /\ pc[t] \in XLabels \/ (pc[t] = "open_entry" /\ Mode(t) = "read") =>
              xlock_mtx[ContextOf[t]] = t
         /\ pc[t] \in EntryLabels => Entry(t).mtx = t
         /\ pc[t] \in FileLabels => filelock_mtx[Proc(t)] = t
         /\ Finds(t)
<1>1. call[t] \in Handles /\ TypeOK /\ Owns(t) /\ Finds(t) /\ Entries
  BY DEF Held, TypeOK
<1>2. /\ ContextOf[t] \in Contexts /\ Proc(t) \in Processes
      /\ Mode(t) \in Modes /\ Mode(t) = call[t][2] /\ Uri(t) \in Arrays
      /\ Entry(t) \in EntryState
  BY <1>1, EntryType, OpenArraysAssumption DEF Proc, Mode
<1>3. QED
  BY SMT, <1>1, <1>2 DEF Owns, HasMap, HasX, HasEntry, HasFile, Entries, Entry

LEMMA MapPassed ==
  ASSUME Held, NEW t \in Threads, NEW m \in Modes
  PROVE  /\ UNCHANGED map_mtx => PassMap(t)
         /\ Lock(t, m) => PassMap(t) /\ map_mtx'[ContextOf[t]][m] = t
         /\ Unlock(t, m) /\ map_mtx[ContextOf[t]][m] = t => PassMap(t)
<1>1. TypeOK /\ ContextOf[t] \in Contexts
  BY OpenArraysAssumption DEF Held
<1>2. ASSUME UNCHANGED map_mtx PROVE PassMap(t)
  BY <1>1, <1>2 DEF PassMap, Passed, TypeOK
<1>3. ASSUME NEW u \in {t, NoThread}, MapMutex(t, m, u), map_mtx[ContextOf[t]][m] \in {t, NoThread}
      PROVE  PassMap(t)
  <2>1. ASSUME NEW c \in Contexts, NEW n \in Modes PROVE Passed(t, map_mtx[c][n], map_mtx'[c][n])
    BY <1>3, <2>1 DEF MapMutex, Passed
  <2>2. QED
    BY <1>3, <2>1 DEF PassMap, MapMutex
<1>4. QED
  BY SMT, <1>1, <1>2, <1>3, MapFacts DEF MapMutex

LEMMA XPassed ==
  ASSUME Held, NEW t \in Threads
  PROVE  /\ UNCHANGED xlock_mtx => PassX(t)
         /\ LockX(t) => /\ PassX(t) /\ xlock_mtx'[ContextOf[t]] = t
                        /\ xlock_mtx[ContextOf[t]] = NoThread
         /\ UnlockX(t) /\ xlock_mtx[ContextOf[t]] = t => PassX(t)
<1>1. TypeOK /\ ContextOf[t] \in Contexts
  BY OpenArraysAssumption DEF Held
<1>2. ASSUME UNCHANGED xlock_mtx PROVE PassX(t)
  BY <1>1, <1>2 DEF PassX, Passed, TypeOK
<1>3. ASSUME NEW u \in {t, NoThread}, XMutex(t, u), xlock_mtx[ContextOf[t]] \in {t, NoThread}
      PROVE  PassX(t)
  <2>1. ASSUME NEW c \in Contexts PROVE Passed(t, xlock_mtx[c], xlock_mtx'[c])
    BY <1>3, <2>1 DEF XMutex, Passed
  <2>2. QED
    BY <1>3, <2>1 DEF PassX, XMutex
<1>4. QED
  BY <1>1, <1>2, <1>3, XFacts DEF XMutex

LEMMA FilePassed ==
  ASSUME Held, NEW t \in Threads, pc[t] # "idle", NEW kind \in {"shared", "exclusive"}
  PROVE  /\ filelock_counted(t) => PassFile(t)
         /\ filelock_wait(t) => PassFile(t) /\ filelock_mtx'[Proc(t)] = t
         /\ filelock_granted(t, kind) /\ filelock_mtx[Proc(t)] = t => PassFile(t)
         /\ filelock_refused(t) /\ filelock_mtx[Proc(t)] = t => PassFile(t)
         /\ filelock_unlock(t) => PassFile(t)
         /\ filelock_missing(t) => PassFile(t)
<1>1. TypeOK /\ Proc(t) \in Processes /\ call[t] \in Handles
  BY Here DEF Held
<1>2. ASSUME FileTypes, UNCHANGED filelock_mtx PROVE PassFile(t)
  BY <1>1, <1>2 DEF PassFile, Passed
<1>3. ASSUME NEW u \in {t, NoThread}, FileMutex(t, u), filelock_mtx[Proc(t)] \in {t, NoThread}
      PROVE  PassFile(t)
  <2>1. ASSUME NEW p \in Processes PROVE Passed(t, filelock_mtx[p], filelock_mtx'[p])
    BY <1>3, <2>1 DEF FileMutex, Passed
  <2>2. QED
    BY <1>3, <2>1 DEF PassFile, FileMutex
<1>4. QED
  BY <1>1, <1>2, <1>3, FileFacts DEF FileMutex

LEMMA FileUnchanged ==
  ASSUME Held, NEW t \in Threads, UNCHANGED fileVars
  PROVE  PassFile(t) /\ UNCHANGED filelock_mtx
  BY DEF Held, TypeOK, fileVars, PassFile, FileTypes, Passed

LEMMA EntryPassed ==
  ASSUME Held, NEW t \in Threads, pc[t] # "idle", NEW e \in EntryState, SetEntry(t, e),
         Passed(t, Entry(t).mtx, e.mtx),
         \/ Entry(t).mtx \in {NoThread, t}
         \/ e.cnt = Entry(t).cnt /\ e.filelock = Entry(t).filelock,
         Entry(t).present /\ ~e.present =>
           map_mtx[ContextOf[t]][Mode(t)] = t /\ Entry(t).mtx \in {NoThread, t},
         ~Entry(t).present /\ e.present /\ Mode(t) = "read" => xlock_mtx[ContextOf[t]] = NoThread,
         ~e.present => e = NoEntry,
         Mode(t) = "write" => ~e.filelock
  PROVE  PassEntry(t) /\ entry'[ContextOf[t]][call[t]] = e
<1>1. /\ call[t] \in Handles /\ ContextOf[t] \in Contexts /\ Mode(t) = call[t][2]
      /\ EntryBecomes(t, e)
      /\ Entries
  BY Here, EntryFacts DEF Held
<1>2. ASSUME NEW c \in Contexts, NEW h \in Handles
      PROVE  /\ Passed(t, entry[c][h].mtx, entry'[c][h].mtx)
             /\ \/ c = ContextOf[t] /\ h = call[t] /\ entry[c][h].mtx \in {NoThread, t}
                \/ /\ entry'[c][h].cnt = entry[c][h].cnt
                   /\ entry'[c][h].filelock = entry[c][h].filelock
             /\ entry[c][h].present /\ ~entry'[c][h].present =>
                  map_mtx[c][h[2]] = t /\ entry[c][h].mtx \in {NoThread, t}
             /\ ~entry[c][h].present /\ entry'[c][h].present /\ h[2] = "read" =>
                  xlock_mtx[c] = NoThread
             /\ ~entry'[c][h].present => entry'[c][h] = NoEntry
             /\ h[2] = "write" => ~entry'[c][h].filelock
  <2>1. CASE c = ContextOf[t] /\ h = call[t]
    BY <1>1, <2>1 DEF EntryBecomes, Entry
  <2>2. CASE c # ContextOf[t] \/ h # call[t]
    <3>1. entry'[c][h] = entry[c][h]
      BY <1>1, <2>2 DEF EntryBecomes
    <3>2. QED
      BY <3>1, <1>1 DEF Entries, Passed
  <2>3. QED
    BY <2>1, <2>2
<1>3. QED
  BY <1>1, <1>2 DEF PassEntry, EntryBecomes, Entries

LEMMA EntryUnchanged ==
  ASSUME Held, NEW t \in Threads, UNCHANGED entry
  PROVE  PassEntry(t)
  BY DEF Held, TypeOK, EntryState, PassEntry, Entries, Passed

LEMMA ControlPassed ==
  ASSUME Held, NEW t \in Threads, OpenPassed(t)
  PROVE  /\ Return(t) => PassControl(t) /\ pc'[t] = "idle"
         /\ ReturnNotify(t) => PassControl(t) /\ pc'[t] = "idle"
         /\ \A l \in Labels : pc[t] # "idle" /\ Goto(t, l) /\ UNCHANGED call =>
              PassControl(t) /\ pc'[t] = l /\ call'[t] = call[t]
         /\ \A l \in Labels, h \in Handles : Goto(t, l) /\ call' = [call EXCEPT ![t] = h] =>
              PassControl(t) /\ pc'[t] = l /\ call'[t] = h
<1>1. TypeOK
  BY DEF Held
<1>2. ASSUME Return(t) PROVE PassControl(t) /\ pc'[t] = "idle"
  BY <1>1, <1>2, ReturnFacts DEF PassControl
<1>3. ASSUME ReturnNotify(t) PROVE PassControl(t) /\ pc'[t] = "idle"
  BY <1>1, <1>3, NotifyFacts DEF PassControl
<1>4. ASSUME NEW l \in Labels, pc[t] # "idle", Goto(t, l), UNCHANGED call
      PROVE  PassControl(t) /\ pc'[t] = l /\ call'[t] = call[t]
  BY <1>1, <1>4, GotoFacts DEF PassControl, TypeOK
<1>5. ASSUME NEW l \in Labels, NEW h \in Handles, Goto(t, l), call' = [call EXCEPT ![t] = h]
      PROVE  PassControl(t) /\ pc'[t] = l /\ call'[t] = h
  <2>1. call' \in [Threads -> Handles \union {NoCall}] /\ call'[t] = h
        /\ \A u \in Threads \ {t} : call'[u] = call[u]
    BY <1>1, <1>5 DEF TypeOK
  <2>2. QED
    BY <1>1, <1>5, <2>1, GotoFacts DEF PassControl
<1>6. QED
  BY <1>2, <1>3, <1>4, <1>5

LEMMA RestPassed ==
  ASSUME Held
  PROVE  /\ UNCHANGED xfilelocks => xfilelocks' \in [Contexts -> SUBSET Arrays]
         /\ UNCHANGED faults => faults' \in 0 .. MaxFaults
         /\ \A kind : Fail(kind) => faults' \in 0 .. MaxFaults
         /\ \A t \in Threads : UNCHANGED open => OpenPassed(t)
  BY SMT, OpenArraysAssumption DEF Held, TypeOK, Fail, OpenPassed

-----------------------------------------------------------------------------
(* Every step of a thread keeps the invariant. *)

LEMMA CallSteps ==
  ASSUME Held, NEW t \in Threads, NEW h \in Handles, NEW l \in {"open", "close", "reopen", "xlock"},
         Goto(t, l), call' = [call EXCEPT ![t] = h], l \in {"reopen", "xlock"} => h[2] = "read",
         OpenPassed(t),
         UNCHANGED <<map_mtx, xlock_mtx, entry, xfilelocks, fileVars, faults>>
  PROVE  Kept(t)
<1>0. l \in Labels
  BY DEF Labels
<1>1. PassControl(t) /\ pc'[t] = l /\ call'[t] = h
  BY <1>0, ControlPassed
<1>2. PassMap(t) /\ PassX(t) /\ PassFile(t) /\ PassEntry(t) /\ PassRest
  BY MapPassed, XPassed, FileUnchanged, EntryUnchanged, RestPassed DEF PassRest, Modes
<1>3. Arrives(t)
  BY <1>1 DEF Arrives, MapLabels, XLabels, EntryLabels, FileLabels, ReadLabels
<1>4. QED
  BY <1>1, <1>2, <1>3, Assembled

LEMMA OpenSteps ==
  ASSUME Held, NEW t \in Threads,
         \/ open_lock_reads(t) \/ open_lock_xlock(t) \/ open_lock_writes(t)
         \/ open_key_differs(t) \/ open_lock_entry(t)
  PROVE  Kept(t)
<1>1. pc[t] # "idle"
  BY DEF open_lock_reads, open_lock_xlock, open_lock_writes, open_key_differs, open_lock_entry
<1>2. /\ call[t] \in Handles /\ ContextOf[t] \in Contexts /\ Proc(t) \in Processes
      /\ Mode(t) \in Modes /\ Mode(t) = call[t][2] /\ Uri(t) \in Arrays
      /\ Entry(t) \in EntryState
      /\ ~Entry(t).present => Entry(t) = NoEntry
      /\ Mode(t) = "write" => ~Entry(t).filelock
      /\ Finds(t)
  BY <1>1, Here
<1>3. PassRest /\ PassFile(t) /\ OpenPassed(t)
  BY RestPassed, FileUnchanged
  DEF PassRest, open_lock_reads, open_lock_xlock, open_lock_writes, open_key_differs, open_lock_entry
<1>4. ASSUME FindOrCreate(t), Mode(t) = "read" => xlock_mtx[ContextOf[t]] = NoThread
      PROVE  PassEntry(t) /\ entry'[ContextOf[t]][call[t]].present
  <2> DEFINE e == [Entry(t) EXCEPT !.present = TRUE]
  <2>1. /\ e \in EntryState /\ e.mtx = Entry(t).mtx /\ e.present
        /\ e.cnt = Entry(t).cnt /\ e.filelock = Entry(t).filelock
    BY <1>2 DEF EntryState
  <2>2. SetEntry(t, e)
    BY <1>4 DEF FindOrCreate
  <2> HIDE DEF e
  <2>3. QED
    BY <1>1, <1>2, <1>4, <2>1, <2>2, EntryPassed DEF Passed
<1>5. CASE open_lock_reads(t)
  <2>1. PassControl(t) /\ pc'[t] = "open_xlock" /\ call'[t] = call[t]
    BY <1>1, <1>3, <1>5, ControlPassed DEF open_lock_reads, Labels
  <2>2. PassMap(t) /\ map_mtx'[ContextOf[t]]["read"] = t /\ PassX(t) /\ PassEntry(t)
    BY <1>5, MapPassed, XPassed, EntryUnchanged DEF open_lock_reads, Modes
  <2>3. Arrives(t)
    BY <1>2, <1>5, <2>1, <2>2
    DEF open_lock_reads, Arrives, MapLabels, XLabels, EntryLabels, FileLabels, ReadLabels
  <2>4. QED
    BY <1>3, <2>1, <2>2, <2>3, Assembled
<1>6. CASE open_lock_xlock(t)
  <2>1. PassControl(t) /\ pc'[t] = "open_entry" /\ call'[t] = call[t]
    BY <1>1, <1>3, <1>6, ControlPassed DEF open_lock_xlock, Labels
  <2>2. PassX(t) /\ xlock_mtx'[ContextOf[t]] = t /\ xlock_mtx[ContextOf[t]] = NoThread
    BY <1>6, XPassed DEF open_lock_xlock
  <2>3. PassMap(t) /\ map_mtx'[ContextOf[t]][Mode(t)] = t
    BY <1>1, <1>2, <1>6, MapPassed, Here DEF open_lock_xlock, MapLabels
  <2>4. PassEntry(t) /\ entry'[ContextOf[t]][call[t]].present
    BY <1>4, <1>6, <2>2 DEF open_lock_xlock
  <2>5. Arrives(t)
    BY <1>2, <2>1, <2>2, <2>3, <2>4
    DEF Arrives, MapLabels, XLabels, EntryLabels, FileLabels, ReadLabels
  <2>6. QED
    BY <1>3, <2>1, <2>2, <2>3, <2>4, <2>5, Assembled
<1>7. CASE open_lock_writes(t)
  <2>1. PassControl(t) /\ pc'[t] = "open_entry" /\ call'[t] = call[t]
    BY <1>1, <1>3, <1>7, ControlPassed DEF open_lock_writes, Labels
  <2>2. PassX(t) /\ Mode(t) = "write"
    BY <1>7, XPassed DEF open_lock_writes
  <2>3. PassMap(t) /\ map_mtx'[ContextOf[t]][Mode(t)] = t
    BY <1>2, <1>7, <2>2, MapPassed DEF open_lock_writes
  <2>4. PassEntry(t) /\ entry'[ContextOf[t]][call[t]].present
    BY <1>4, <1>7, <2>2 DEF open_lock_writes
  <2>5. Arrives(t)
    BY <1>2, <2>1, <2>2, <2>3, <2>4
    DEF Arrives, MapLabels, XLabels, EntryLabels, FileLabels, ReadLabels
  <2>6. QED
    BY <1>3, <2>1, <2>2, <2>3, <2>4, <2>5, Assembled
<1>8. CASE open_key_differs(t)
  <2>1. PassControl(t) /\ pc'[t] = "idle"
    BY <1>3, <1>8, ControlPassed DEF open_key_differs
  <2>2. PassX(t) /\ PassEntry(t)
    BY <1>8, XPassed, EntryUnchanged DEF open_key_differs
  <2>3. PassMap(t)
    <3>1. CASE UNCHANGED map_mtx
      BY <3>1, <1>2, MapPassed
    <3>2. CASE pc[t] = "open_xlock" /\ Unlock(t, "read")
      <4>1. Mode(t) = "read" /\ map_mtx[ContextOf[t]][Mode(t)] = t
        BY <1>1, <1>2, <3>2, Here DEF Finds, ReadLabels, MapLabels
      <4>2. QED
        BY <1>2, <3>2, <4>1, MapPassed
    <3>3. QED
      BY <1>8, <3>1, <3>2 DEF open_key_differs
  <2>4. Arrives(t)
    BY <2>1 DEF Arrives
  <2>5. QED
    BY <1>3, <2>1, <2>2, <2>3, <2>4, Assembled
<1>9. CASE open_lock_entry(t)
  <2> DEFINE l == IF Mode(t) = "read" /\ ~Entry(t).filelock THEN "file_lock" ELSE "load"
             e == [Entry(t) EXCEPT !.cnt = cnt_incr(@), !.mtx = t]
  <2>1. l \in {"file_lock", "load"} /\ (l = "file_lock" => Mode(t) = "read")
    OBVIOUS
  <2>2. Goto(t, l) /\ SetEntry(t, e) /\ Entry(t).mtx = NoThread /\ pc[t] = "open_entry"
    BY <1>9 DEF open_lock_entry
  <2>3. e \in EntryState /\ e.mtx = t /\ e.present /\ e.filelock = Entry(t).filelock
    <3>1. cnt_incr(Entry(t).cnt) \in 0 .. CntModulus - 1
      BY SMT, <1>2, CntFacts DEF EntryState
    <3>2. Entry(t).present
      BY <1>2, <2>2 DEF Finds
    <3>3. QED
      BY <1>2, <3>1, <3>2 DEF EntryState
  <2> HIDE DEF l, e
  <2>4. PassControl(t) /\ pc'[t] = l /\ call'[t] = call[t]
    BY SMTT(20), <1>1, <1>3, <1>9, <2>1, <2>2, ControlPassed DEF open_lock_entry, Labels
  <2>5. PassMap(t)
    BY <1>1, <1>2, <1>9, <2>2, Here, MapPassed DEF open_lock_entry, MapLabels
  <2>6. PassX(t)
    BY <1>1, <1>2, <1>9, <2>2, Here, XPassed DEF open_lock_entry
  <2>7. PassEntry(t) /\ entry'[ContextOf[t]][call[t]] = e
    <3>1. Passed(t, Entry(t).mtx, e.mtx)
      BY <2>2, <2>3 DEF Passed
    <3>2. Entry(t).present
      BY <1>2, <2>2 DEF Finds
    <3>3. QED
      BY <1>1, <1>2, <2>2, <2>3, <3>1, <3>2, EntryPassed
  <2>8. Arrives(t)
    BY <1>2, <2>1, <2>3, <2>4, <2>7
    DEF Arrives, MapLabels, XLabels, EntryLabels, FileLabels, ReadLabels
  <2>9. QED
    BY <1>3, <2>4, <2>5, <2>6, <2>7, <2>8, Assembled
<1>10. QED
  BY <1>5, <1>6, <1>7, <1>8, <1>9

\* A step that changes an entry that it has locked, or locks or unlocks it.
LEMMA EntryKept ==
  ASSUME Held, NEW t \in Threads, pc[t] # "idle", Entry(t).present, Entry(t).mtx \in {NoThread, t},
         NEW e \in EntryState, SetEntry(t, e), e.present, e.mtx \in {NoThread, t},
         Mode(t) = "write" => ~e.filelock
  PROVE  PassEntry(t) /\ entry'[ContextOf[t]][call[t]] = e
<1>1. Passed(t, Entry(t).mtx, e.mtx)
  BY DEF Passed
<1>2. QED
  BY <1>1, EntryPassed

LEMMA FileLockSteps ==
  ASSUME Held, NEW t \in Threads, open_file_lock(t) \/ open_fcntl(t) \/ open_file_lock_fails(t)
  PROVE  Kept(t)
<1>1. pc[t] \in {"file_lock", "fcntl"}
  BY DEF open_file_lock, open_fcntl, open_file_lock_fails
<1>2. /\ call[t] \in Handles /\ Entry(t) \in EntryState
      /\ Entry(t).present /\ Entry(t).mtx = t /\ Mode(t) = "read" /\ Mode(t) = call[t][2]
      /\ pc[t] = "fcntl" => filelock_mtx[Proc(t)] = t
  BY <1>1, Here DEF Finds, EntryLabels, FileLabels, ReadLabels
<1>3. /\ PassRest /\ PassMap(t) /\ PassX(t) /\ UNCHANGED call
      /\ OpenPassed(t)
  BY RestPassed, MapPassed, XPassed
  DEF PassRest, Modes, open_file_lock, open_fcntl, open_file_lock_fails
<1>4. PassFile(t) /\ (filelock_wait(t) => filelock_mtx'[Proc(t)] = t)
  <2>1. CASE UNCHANGED fileVars
    BY <2>1, <1>1, FileUnchanged, FilePassed DEF filelock_wait
  <2>2. CASE filelock_counted(t) \/ filelock_wait(t)
    BY <2>2, <1>1, FilePassed
  <2>3. CASE pc[t] = "fcntl" /\ (filelock_granted(t, "shared") \/ filelock_refused(t))
    BY <2>3, <1>1, <1>2, FilePassed
  <2>4. QED
    BY <2>1, <2>2, <2>3 DEF open_file_lock, open_fcntl, open_file_lock_fails
<1>5. CASE Goto(t, "fcntl") /\ filelock_wait(t) /\ UNCHANGED entry
  <2>1. PassControl(t) /\ pc'[t] = "fcntl" /\ call'[t] = call[t]
    BY <1>1, <1>3, <1>5, ControlPassed DEF Labels
  <2>2. PassEntry(t) /\ entry'[ContextOf[t]][call[t]] = Entry(t)
    BY <1>5, EntryUnchanged DEF Entry
  <2>3. Arrives(t)
    BY <1>2, <1>4, <1>5, <2>1, <2>2
    DEF Arrives, Proc, MapLabels, XLabels, EntryLabels, FileLabels, ReadLabels
  <2>4. QED
    BY <1>3, <1>4, <2>1, <2>2, <2>3, Assembled
<1>6. CASE Goto(t, "load") /\ SetEntry(t, [Entry(t) EXCEPT !.filelock = TRUE])
  <2> DEFINE e == [Entry(t) EXCEPT !.filelock = TRUE]
  <2>1. e \in EntryState /\ e.mtx = t /\ e.present
    BY <1>2 DEF EntryState
  <2>2. PassControl(t) /\ pc'[t] = "load" /\ call'[t] = call[t]
    BY <1>1, <1>3, <1>6, ControlPassed DEF Labels
  <2>3. SetEntry(t, e)
    BY <1>6
  <2> HIDE DEF e
  <2>4. PassEntry(t) /\ entry'[ContextOf[t]][call[t]] = e
    BY <1>1, <1>2, <2>1, <2>3, EntryKept
  <2>5. Arrives(t)
    BY <1>2, <2>1, <2>2, <2>4
    DEF Arrives, MapLabels, XLabels, EntryLabels, FileLabels, ReadLabels
  <2>6. QED
    BY <1>3, <1>4, <2>2, <2>4, <2>5, Assembled
<1>7. CASE open_file_lock_fails(t)
  <2>1. PassControl(t) /\ pc'[t] = "undo" /\ call'[t] = call[t]
    BY <1>1, <1>3, <1>7, ControlPassed DEF open_file_lock_fails, Labels
  <2>2. PICK e \in EntryState : SetEntry(t, e) /\ e.mtx = NoThread /\ e.present
    <3>1. /\ [Entry(t) EXCEPT !.mtx = NoThread] \in EntryState
          /\ [Entry(t) EXCEPT !.mtx = NoThread].mtx = NoThread
          /\ [Entry(t) EXCEPT !.mtx = NoThread].present
      BY <1>2 DEF EntryState
    <3>2. /\ [Entry(t) EXCEPT !.mtx = NoThread, !.filelock = TRUE] \in EntryState
          /\ [Entry(t) EXCEPT !.mtx = NoThread, !.filelock = TRUE].mtx = NoThread
          /\ [Entry(t) EXCEPT !.mtx = NoThread, !.filelock = TRUE].present
      BY <1>2 DEF EntryState
    <3>3. QED
      BY <1>7, <3>1, <3>2 DEF open_file_lock_fails
  <2>3. PassEntry(t)
    BY <1>1, <1>2, <2>2, EntryKept
  <2>4. Arrives(t)
    BY <2>1 DEF Arrives, MapLabels, XLabels, EntryLabels, FileLabels, ReadLabels
  <2>5. QED
    BY <1>3, <1>4, <2>1, <2>3, <2>4, Assembled
<1>8. QED
  BY <1>5, <1>6, <1>7 DEF open_file_lock, open_fcntl

LEMMA LoadSteps ==
  ASSUME Held, NEW t \in Threads,
         \/ open_load(t) \/ open_load_fails(t) \/ reopen_load(t) \/ reopen_load_fails(t)
         \/ listing_fails(t)
  PROVE  Kept(t)
<1>1. pc[t] \in {"load", "reopen_load"}
  BY DEF open_load, open_load_fails, reopen_load, reopen_load_fails, listing_fails
<1>2. /\ call[t] \in Handles /\ Entry(t) \in EntryState
      /\ Entry(t).present /\ Entry(t).mtx = t
      /\ Mode(t) = "write" => ~Entry(t).filelock
  BY <1>1, Here DEF Finds, EntryLabels
<1>3. PassRest /\ PassMap(t) /\ PassX(t) /\ PassFile(t)
  BY RestPassed, MapPassed, XPassed, FileUnchanged
  DEF PassRest, Modes, open_load, open_load_fails, reopen_load, reopen_load_fails, listing_fails
<1>4. OpenPassed(t)
  <2>1. CASE UNCHANGED open
    BY <2>1, RestPassed
  <2>2. CASE open_load(t)
    BY <1>2, <2>2 DEF open_load, Held, TypeOK, OpenPassed
  <2>3. QED
    BY <2>1, <2>2 DEF open_load_fails, reopen_load, reopen_load_fails, listing_fails
<1>5. PassControl(t) /\ pc'[t] \in {"idle", "undo"}
  <2>1. CASE Return(t)
    BY <1>4, <2>1, ControlPassed
  <2>2. CASE Goto(t, "undo") /\ UNCHANGED call
    BY <1>1, <1>4, <2>2, ControlPassed DEF Labels
  <2>3. QED
    BY <2>1, <2>2 DEF open_load, open_load_fails, reopen_load, reopen_load_fails, listing_fails
<1>6. PassEntry(t)
  <2>1. CASE UNCHANGED entry
    BY <2>1, EntryUnchanged
  <2>2. CASE SetEntry(t, [Entry(t) EXCEPT !.mtx = NoThread])
    <3> DEFINE e == [Entry(t) EXCEPT !.mtx = NoThread]
    <3>1. e \in EntryState /\ e.mtx = NoThread /\ e.present /\ e.filelock = Entry(t).filelock
      BY <1>2 DEF EntryState
    <3>2. SetEntry(t, e)
      BY <2>2
    <3> HIDE DEF e
    <3>3. QED
      BY <1>1, <1>2, <3>1, <3>2, EntryKept
  <2>3. QED
    BY <2>1, <2>2 DEF open_load, open_load_fails, reopen_load, reopen_load_fails, listing_fails
<1>7. Arrives(t)
  BY <1>5 DEF Arrives, MapLabels, XLabels, EntryLabels, FileLabels, ReadLabels
<1>8. QED
  BY <1>3, <1>5, <1>6, <1>7, Assembled

LEMMA MapSteps ==
  ASSUME Held, NEW t \in Threads,
         \/ close_lock_map(t) \/ close_store_fails(t) \/ reopen_lock_map(t)
         \/ xlock_lock_xlock(t) \/ xlock_lock_reads(t)
  PROVE  Kept(t)
<1>1. pc[t] # "idle"
  BY DEF close_lock_map, close_store_fails, reopen_lock_map, xlock_lock_xlock, xlock_lock_reads
<1>2. /\ call[t] \in Handles /\ Entry(t) \in EntryState
      /\ Mode(t) \in Modes /\ Mode(t) = call[t][2]
      /\ pc[t] \in XLabels => xlock_mtx[ContextOf[t]] = t
      /\ Finds(t)
  BY <1>1, Here
<1>3. PassRest /\ PassFile(t) /\ PassEntry(t) /\ UNCHANGED <<entry, open>>
      /\ OpenPassed(t)
  BY RestPassed, FileUnchanged, EntryUnchanged
  DEF PassRest, close_lock_map, close_store_fails, reopen_lock_map, xlock_lock_xlock, xlock_lock_reads
<1>4. CASE Return(t) /\ UNCHANGED <<map_mtx, xlock_mtx>>
  <2>1. PassControl(t) /\ pc'[t] = "idle"
    BY <1>3, <1>4, ControlPassed
  <2>2. PassMap(t) /\ PassX(t)
    BY <1>2, <1>4, MapPassed, XPassed
  <2>3. Arrives(t)
    BY <2>1 DEF Arrives
  <2>4. QED
    BY <1>3, <2>1, <2>2, <2>3, Assembled
<1>5. ASSUME Entry(t).present, Lock(t, Mode(t)), Goto(t, "close_entry"), UNCHANGED <<call, xlock_mtx>>
      PROVE  Kept(t)
  <2>1. /\ Entry(t).present /\ Lock(t, Mode(t)) /\ Goto(t, "close_entry")
        /\ UNCHANGED <<call, xlock_mtx>>
    BY <1>5
  <2>2. PassControl(t) /\ pc'[t] = "close_entry" /\ call'[t] = call[t]
    BY <1>1, <1>3, <2>1, ControlPassed DEF Labels
  <2>3. PassMap(t) /\ map_mtx'[ContextOf[t]][Mode(t)] = t /\ PassX(t)
    BY <1>2, <2>1, MapPassed, XPassed
  <2>4. Arrives(t)
    BY <1>2, <1>3, <2>1, <2>2, <2>3
    DEF Arrives, Entry, MapLabels, XLabels, EntryLabels, FileLabels, ReadLabels
  <2>5. QED
    BY <1>3, <2>2, <2>3, <2>4, Assembled
<1>6. ASSUME Entry(t).present, Lock(t, "read"), Goto(t, "reopen_entry"), pc[t] = "reopen",
             UNCHANGED <<call, xlock_mtx>>
      PROVE  Kept(t)
  <2>1. /\ Entry(t).present /\ Lock(t, "read") /\ Goto(t, "reopen_entry") /\ pc[t] = "reopen"
        /\ UNCHANGED <<call, xlock_mtx>>
    BY <1>6
  <2>2. PassControl(t) /\ pc'[t] = "reopen_entry" /\ call'[t] = call[t]
    BY <1>1, <1>3, <2>1, ControlPassed DEF Labels
  <2>3. Mode(t) = "read"
    BY <1>2, <2>1 DEF Finds, ReadLabels
  <2>4. PassMap(t) /\ map_mtx'[ContextOf[t]][Mode(t)] = t /\ PassX(t)
    BY SMT, <1>2, <2>1, <2>3, MapPassed, XPassed
  <2>5. Arrives(t)
    BY <1>2, <1>3, <2>1, <2>2, <2>3, <2>4
    DEF Arrives, Entry, MapLabels, XLabels, EntryLabels, FileLabels, ReadLabels
  <2>6. QED
    BY <1>3, <2>2, <2>4, <2>5, Assembled
<1>7. CASE xlock_lock_xlock(t)
  <2>1. PassControl(t) /\ pc'[t] = "xlock_reads" /\ call'[t] = call[t]
    BY <1>1, <1>3, <1>7, ControlPassed DEF xlock_lock_xlock, Labels
  <2>2. Mode(t) = "read"
    BY <1>2, <1>7 DEF xlock_lock_xlock, Finds, ReadLabels
  <2>3. PassMap(t) /\ PassX(t) /\ xlock_mtx'[ContextOf[t]] = t
    BY <1>2, <1>7, MapPassed, XPassed DEF xlock_lock_xlock
  <2>4. Arrives(t)
    BY <1>2, <2>1, <2>2, <2>3
    DEF Arrives, MapLabels, XLabels, EntryLabels, FileLabels, ReadLabels
  <2>5. QED
    BY <1>3, <2>1, <2>3, <2>4, Assembled
<1>8. CASE xlock_lock_reads(t)
  <2>1. pc[t] = "xlock_reads" /\ Mode(t) = "read" /\ xlock_mtx'[ContextOf[t]] = t /\ PassX(t)
    BY <1>2, <1>8, XPassed DEF xlock_lock_reads, Finds, XLabels, ReadLabels
  <2>2. CASE ~Entry(t).present /\ Lock(t, "read") /\ Goto(t, "xlock_file")
    <3>1. PassControl(t) /\ pc'[t] = "xlock_file" /\ call'[t] = call[t]
      BY <1>1, <1>3, <1>8, <2>2, ControlPassed DEF xlock_lock_reads, Labels
    <3>2. PassMap(t) /\ map_mtx'[ContextOf[t]][Mode(t)] = t
      BY <1>2, <2>1, <2>2, MapPassed
    <3>3. Arrives(t)
      BY <1>2, <1>3, <2>1, <2>2, <3>1, <3>2
      DEF Arrives, Entry, MapLabels, XLabels, EntryLabels, FileLabels, ReadLabels
    <3>4. QED
      BY <1>3, <2>1, <3>1, <3>2, <3>3, Assembled
  <2>3. CASE Goto(t, "xlock_wait") /\ UNCHANGED map_mtx
    <3>1. PassControl(t) /\ pc'[t] = "xlock_wait" /\ call'[t] = call[t]
      BY <1>1, <1>3, <1>8, <2>3, ControlPassed DEF xlock_lock_reads, Labels
    <3>2. PassMap(t)
      BY <1>2, <2>3, MapPassed
    <3>3. Arrives(t)
      BY <1>2, <2>1, <3>1
      DEF Arrives, MapLabels, XLabels, EntryLabels, FileLabels, ReadLabels
    <3>4. QED
      BY <1>3, <2>1, <3>1, <3>2, <3>3, Assembled
  <2>4. QED
    BY <1>8, <2>2, <2>3 DEF xlock_lock_reads
<1>9. CASE close_store_fails(t)
  BY <1>4, <1>9 DEF close_store_fails
<1>10. CASE close_lock_map(t)
  BY <1>4, <1>5, <1>10 DEF close_lock_map
<1>11. CASE reopen_lock_map(t)
  BY <1>4, <1>6, <1>11 DEF reopen_lock_map
<1>12. QED
  BY <1>7, <1>8, <1>9, <1>10, <1>11

\* Closing gives back the entry, or keeps the locks to give up the file lock.
LEMMA CloseSteps ==
  ASSUME Held, NEW t \in Threads, close_lock_entry(t) \/ close_file_unlock(t) \/ reopen_lock_entry(t)
  PROVE  Kept(t)
<1>1. pc[t] \in {"close_entry", "file_unlock", "reopen_entry"}
  BY DEF close_lock_entry, close_file_unlock, reopen_lock_entry
<1>2. /\ call[t] \in Handles /\ Entry(t) \in EntryState /\ Entry(t).present
      /\ Mode(t) \in Modes /\ Mode(t) = call[t][2] /\ ContextOf[t] \in Contexts
      /\ map_mtx[ContextOf[t]][Mode(t)] = t
      /\ Mode(t) = "write" => ~Entry(t).filelock
      /\ pc[t] \in {"file_unlock", "reopen_entry"} => Mode(t) = "read"
      /\ pc[t] = "file_unlock" => Entry(t).mtx = t
  BY <1>1, Here DEF Finds, MapLabels, EntryLabels, ReadLabels
<1>3. PassRest /\ PassX(t) /\ OpenPassed(t)
  BY RestPassed, XPassed DEF PassRest, close_lock_entry, close_file_unlock, reopen_lock_entry
<1>4. PassFile(t)
  <2>1. CASE UNCHANGED fileVars
    BY <2>1, FileUnchanged
  <2>2. CASE filelock_unlock(t) \/ filelock_missing(t)
    BY <2>2, <1>1, FilePassed
  <2>3. QED
    BY <2>1, <2>2 DEF close_lock_entry, close_file_unlock, reopen_lock_entry
<1>5. Entry(t).mtx \in {NoThread, t}
  BY <1>2 DEF close_lock_entry, close_file_unlock, reopen_lock_entry
<1>6. ASSUME SetEntry(t, NoEntry) PROVE PassEntry(t)
  <2>1. NoEntry \in EntryState /\ NoEntry.mtx = NoThread /\ ~NoEntry.present /\ ~NoEntry.filelock
    <3>1. 0 \in 0 .. CntModulus - 1
      BY SMT, CntFacts
    <3>2. QED
      BY <3>1 DEF NoEntry, EntryState
  <2>2. Passed(t, Entry(t).mtx, NoEntry.mtx)
    BY <1>5, <2>1 DEF Passed
  <2>3. QED
    BY <1>1, <1>2, <1>5, <1>6, <2>1, <2>2, EntryPassed
<1>7. ASSUME Return(t) \/ ReturnNotify(t), Unlock(t, Mode(t)), PassEntry(t) PROVE Kept(t)
  <2>1. PassControl(t) /\ pc'[t] = "idle"
    BY <1>3, <1>7, ControlPassed
  <2>2. PassMap(t)
    BY <1>2, <1>7, MapPassed
  <2>3. Arrives(t)
    BY <2>1 DEF Arrives
  <2>4. QED
    BY <1>3, <1>4, <1>7, <2>1, <2>2, <2>3, Assembled
<1>8. CASE close_lock_entry(t)
  <2> DEFINE n == cnt_decr(Entry(t).cnt)
             e == [Entry(t) EXCEPT !.cnt = n]
             f == [Entry(t) EXCEPT !.cnt = 0, !.mtx = t]
  <2>1. n \in 0 .. CntModulus - 1 /\ 0 \in 0 .. CntModulus - 1
    BY SMT, <1>2, CntFacts DEF EntryState
  <2>2. e \in EntryState /\ e.mtx = Entry(t).mtx /\ e.present /\ e.filelock = Entry(t).filelock
    BY <1>2, <2>1 DEF EntryState
  <2>3. f \in EntryState /\ f.mtx = t /\ f.present /\ f.filelock = Entry(t).filelock
    BY <1>2, <2>1 DEF EntryState
  <2>4. \/ Entry(t).filelock /\ SetEntry(t, f) /\ Goto(t, "file_unlock") /\ UNCHANGED <<call, map_mtx>>
        \/ /\ SetEntry(t, NoEntry) \/ SetEntry(t, e)
           /\ Unlock(t, Mode(t))
           /\ ReturnNotify(t) \/ Return(t)
    BY <1>8 DEF close_lock_entry
  <2> HIDE DEF n, e, f
  <2>5. CASE Entry(t).filelock /\ SetEntry(t, f) /\ Goto(t, "file_unlock") /\ UNCHANGED <<call, map_mtx>>
    <3>1. PassControl(t) /\ pc'[t] = "file_unlock" /\ call'[t] = call[t]
      BY <1>1, <1>3, <2>5, ControlPassed DEF Labels
    <3>2. PassMap(t) /\ map_mtx'[ContextOf[t]][Mode(t)] = t /\ Mode(t) = "read"
      BY <1>2, <2>5, MapPassed DEF Modes
    <3>3. PassEntry(t) /\ entry'[ContextOf[t]][call[t]] = f
      BY <1>1, <1>2, <1>5, <2>3, <2>5, <3>2, EntryKept
    <3>4. Arrives(t)
      BY SMT, <1>2, <2>3, <3>1, <3>2, <3>3
      DEF Arrives, MapLabels, XLabels, EntryLabels, FileLabels, ReadLabels
    <3>5. QED
      BY <1>3, <1>4, <3>1, <3>2, <3>3, <3>4, Assembled
  <2>6. ASSUME SetEntry(t, e) PROVE PassEntry(t)
    BY <1>1, <1>2, <1>5, <2>2, <2>6, EntryKept
  <2>7. QED
    BY <1>6, <1>7, <2>4, <2>5, <2>6
<1>9. CASE close_file_unlock(t)
  <2>1. Unlock(t, Mode(t)) /\ (Return(t) \/ ReturnNotify(t))
    BY <1>2, <1>9 DEF close_file_unlock
  <2>2. PassEntry(t)
    <3> DEFINE e == [Entry(t) EXCEPT !.mtx = NoThread]
    <3>1. e \in EntryState /\ e.mtx = NoThread /\ e.present /\ e.filelock = Entry(t).filelock
      BY <1>2 DEF EntryState
    <3>2. SetEntry(t, e) \/ SetEntry(t, NoEntry)
      BY <1>9 DEF close_file_unlock
    <3> HIDE DEF e
    <3>3. QED
      BY <1>1, <1>2, <1>5, <1>6, <3>1, <3>2, EntryKept
  <2>3. QED
    BY <1>7, <2>1, <2>2
<1>10. CASE reopen_lock_entry(t)
  <2> DEFINE e == [Entry(t) EXCEPT !.mtx = t]
  <2>1. e \in EntryState /\ e.mtx = t /\ e.present /\ e.filelock = Entry(t).filelock
    BY <1>2 DEF EntryState
  <2>2. SetEntry(t, e) /\ Mode(t) = "read" /\ Unlock(t, Mode(t))
    BY <1>2, <1>10 DEF reopen_lock_entry
  <2> HIDE DEF e
  <2>3. PassControl(t) /\ pc'[t] = "reopen_load" /\ call'[t] = call[t]
    BY <1>1, <1>3, <1>10, ControlPassed DEF reopen_lock_entry, Labels
  <2>4. PassMap(t)
    BY <1>2, <2>2, MapPassed
  <2>5. PassEntry(t) /\ entry'[ContextOf[t]][call[t]] = e
    BY <1>1, <1>2, <1>5, <2>1, <2>2, EntryKept
  <2>6. Arrives(t)
    BY <1>2, <2>1, <2>2, <2>3, <2>5
    DEF Arrives, MapLabels, XLabels, EntryLabels, FileLabels, ReadLabels
  <2>7. QED
    BY <1>3, <1>4, <2>3, <2>4, <2>5, <2>6, Assembled
<1>11. QED
  BY <1>8, <1>9, <1>10

LEMMA VacuumSteps ==
  ASSUME Held, NEW t \in Threads,
         xlock_file_lock(t) \/ xlock_fcntl(t) \/ xlock_fails(t) \/ array_xunlock(t)
  PROVE  Kept(t)
<1>1. pc[t] \in {"xlock_file", "xlock_fcntl", "vacuum"}
  BY DEF xlock_file_lock, xlock_fcntl, xlock_fails, array_xunlock
<1>2. /\ call[t] \in Handles /\ ContextOf[t] \in Contexts /\ Uri(t) \in Arrays
      /\ Mode(t) = "read" /\ Mode(t) = call[t][2]
      /\ xlock_mtx[ContextOf[t]] = t
      /\ pc[t] # "vacuum" => map_mtx[ContextOf[t]]["read"] = t
      /\ pc[t] = "xlock_fcntl" => filelock_mtx[Proc(t)] = t
      /\ ~Entry(t).present
  BY <1>1, Here DEF Finds, MapLabels, XLabels, FileLabels, ReadLabels
<1>3. /\ PassEntry(t) /\ UNCHANGED entry
      /\ OpenPassed(t)
  BY RestPassed, EntryUnchanged DEF xlock_file_lock, xlock_fcntl, xlock_fails, array_xunlock
<1>4. PassFile(t) /\ (filelock_wait(t) => filelock_mtx'[Proc(t)] = t)
  <2>1. CASE UNCHANGED fileVars
    BY <2>1, <1>1, FileUnchanged, FilePassed DEF filelock_wait
  <2>2. CASE filelock_counted(t) \/ filelock_wait(t) \/ filelock_unlock(t) \/ filelock_missing(t)
    BY <2>2, <1>1, FilePassed
  <2>3. CASE pc[t] = "xlock_fcntl" /\ (filelock_granted(t, "exclusive") \/ filelock_refused(t))
    BY <2>3, <1>1, <1>2, FilePassed
  <2>4. QED
    BY <2>1, <2>2, <2>3 DEF xlock_file_lock, xlock_fcntl, xlock_fails, array_xunlock
<1>5. PassRest
  <2>1. faults' \in 0 .. MaxFaults
    BY RestPassed DEF xlock_file_lock, xlock_fcntl, xlock_fails, array_xunlock
  <2>2. xfilelocks' \in [Contexts -> SUBSET Arrays]
    <3>1. CASE UNCHANGED xfilelocks
      BY <3>1, RestPassed
    <3>2. CASE \/ xfilelocks' = [xfilelocks EXCEPT ![ContextOf[t]] = @ \union {Uri(t)}]
               \/ xfilelocks' = [xfilelocks EXCEPT ![ContextOf[t]] = @ \ {Uri(t)}]
      BY SMT, <3>2, <1>2 DEF Held, TypeOK
    <3>3. QED
      BY <3>1, <3>2 DEF xlock_file_lock, xlock_fcntl, xlock_fails, array_xunlock, XLocked
  <2>3. QED
    BY <2>1, <2>2 DEF PassRest
<1>6. ASSUME XLocked(t), UNCHANGED <<call, xlock_mtx>>, pc[t] # "vacuum" PROVE Kept(t)
  <2>1. PassControl(t) /\ pc'[t] = "vacuum" /\ call'[t] = call[t]
    BY <1>1, <1>3, <1>6, ControlPassed DEF XLocked, Labels
  <2>2. PassMap(t)
    BY <1>2, <1>6, MapPassed DEF XLocked, Modes
  <2>3. PassX(t) /\ xlock_mtx'[ContextOf[t]] = t
    BY <1>2, <1>6, XPassed
  <2>4. Arrives(t)
    BY <1>2, <1>3, <2>1, <2>3
    DEF Arrives, Entry, MapLabels, XLabels, EntryLabels, FileLabels, ReadLabels
  <2>5. QED
    BY <1>3, <1>4, <1>5, <2>1, <2>2, <2>3, <2>4, Assembled
<1>7. ASSUME filelock_wait(t), Goto(t, "xlock_fcntl"), pc[t] # "vacuum",
             UNCHANGED <<call, map_mtx, xlock_mtx>>
      PROVE  Kept(t)
  <2>1. PassControl(t) /\ pc'[t] = "xlock_fcntl" /\ call'[t] = call[t]
    BY <1>1, <1>3, <1>7, ControlPassed DEF Labels
  <2>2. PassMap(t) /\ map_mtx'[ContextOf[t]]["read"] = t
    BY <1>2, <1>7, MapPassed DEF Modes
  <2>3. PassX(t) /\ xlock_mtx'[ContextOf[t]] = t
    BY <1>2, <1>7, XPassed
  <2>4. Arrives(t)
    BY <1>2, <1>3, <1>4, <1>7, <2>1, <2>2, <2>3
    DEF Arrives, Entry, Proc, MapLabels, XLabels, EntryLabels, FileLabels, ReadLabels
  <2>5. QED
    BY <1>3, <1>4, <1>5, <2>1, <2>2, <2>3, <2>4, Assembled
<1>8. ASSUME Return(t), PassMap(t), PassX(t) PROVE Kept(t)
  <2>1. PassControl(t) /\ pc'[t] = "idle"
    BY <1>3, <1>8, ControlPassed
  <2>2. Arrives(t)
    BY <2>1 DEF Arrives
  <2>3. QED
    BY <1>3, <1>4, <1>5, <1>8, <2>1, <2>2, Assembled
<1>9. CASE xlock_file_lock(t) \/ xlock_fcntl(t)
  BY <1>6, <1>7, <1>9 DEF xlock_file_lock, xlock_fcntl
<1>10. CASE xlock_fails(t)
  <2>1. PassMap(t)
    BY <1>2, <1>10, MapPassed DEF xlock_fails, Modes
  <2>2. PassX(t)
    BY <1>2, <1>10, XPassed DEF xlock_fails
  <2>3. QED
    BY <1>8, <1>10, <2>1, <2>2 DEF xlock_fails
<1>11. CASE array_xunlock(t)
  <2>1. PassMap(t)
    BY <1>11, MapPassed DEF array_xunlock, Modes
  <2>2. PassX(t)
    BY <1>2, <1>11, XPassed DEF array_xunlock
  <2>3. QED
    BY <1>8, <1>11, <2>1, <2>2 DEF array_xunlock
<1>12. QED
  BY <1>9, <1>10, <1>11

LEMMA ThreadSteps ==
  ASSUME Held, NEW t \in Threads, ThreadStep(t)
  PROVE  Kept(t)
<1>1. ASSUME NEW h \in Handles, array_open(t, h) \/ array_close(t, h) \/ array_reopen(t, h)
      PROVE  Kept(t)
  <2>1. OpenPassed(t)
    <3>1. CASE UNCHANGED open
      BY <3>1, RestPassed
    <3>2. CASE array_close(t, h)
      BY <3>2 DEF array_close, Held, TypeOK, OpenPassed
    <3>3. QED
      BY <1>1, <3>1, <3>2 DEF array_open, array_reopen
  <2>2. QED
    BY <1>1, <2>1, CallSteps DEF array_open, array_close, array_reopen
<1>2. ASSUME NEW a \in Arrays, array_vacuum(t, a) PROVE Kept(t)
  <2>1. <<a, "read">> \in Handles /\ <<a, "read">>[2] = "read"
    BY DEF Handles, Modes
  <2>2. QED
    BY <1>2, <2>1, CallSteps, RestPassed DEF array_vacuum
<1>3. QED
  BY <1>1, <1>2, OpenSteps, FileLockSteps, LoadSteps, MapSteps, CloseSteps, VacuumSteps DEF ThreadStep

\* A process that ends takes only its own threads and locks with it.
LEMMA ExitStep ==
  ASSUME Held, NEW p \in Processes, process_exit(p)
  PROVE  Held'
<1> DEFINE gone(c) == ProcessOf[c] = p
<1>1. /\ \A t \in Threads : ContextOf[t] \in Contexts /\ Proc(t) \in Processes
      /\ \A t \in Threads : gone(ContextOf[t]) => pc'[t] = "idle"
      /\ \A t \in Threads : ~gone(ContextOf[t]) => pc'[t] = pc[t] /\ call'[t] = call[t]
      /\ \A c \in Contexts : ~gone(c) =>
           map_mtx'[c] = map_mtx[c] /\ xlock_mtx'[c] = xlock_mtx[c] /\ entry'[c] = entry[c]
      /\ \A c \in Contexts, h \in Handles : gone(c) => entry'[c][h] = NoEntry
      /\ \A q \in Processes \ {p} : filelock_mtx'[q] = filelock_mtx[q]
  BY OpenArraysAssumption DEF process_exit, Held, TypeOK, Proc
<1>2. TypeOK'
  <2>1. NoEntry \in EntryState
    <3>1. 0 \in 0 .. CntModulus - 1
      BY SMT, CntFacts
    <3>2. QED
      BY <3>1 DEF NoEntry, EntryState
  <2>2. entry' \in [Contexts -> [Handles -> EntryState]]
    BY <2>1 DEF process_exit, Held, TypeOK, EntryState
  <2>3. pc' \in [Threads -> Labels] /\ call' \in [Threads -> Handles \union {NoCall}]
    BY DEF process_exit, Held, TypeOK, Labels
  <2>4. \A t \in Threads : pc'[t] # "idle" => call'[t] \in Handles
    BY <1>1 DEF Held, TypeOK
  <2>5. open' \in [Threads -> SUBSET Handles] /\ xfilelocks' \in [Contexts -> SUBSET Arrays]
        /\ faults' \in 0 .. MaxFaults
    BY DEF process_exit, Held, TypeOK
  <2>6. /\ map_mtx' \in [Contexts -> [Modes -> Threads \union {NoThread}]]
        /\ xlock_mtx' \in [Contexts -> Threads \union {NoThread}]
        /\ filelock_mtx' \in [Processes -> Threads \union {NoThread}]
    BY DEF process_exit, Held, TypeOK
  <2>7. /\ filelocks' \in [Processes -> [Arrays -> Nat]]
        /\ kernel' \in [Processes -> [Arrays -> {"none", "shared", "exclusive"}]]
    BY DEF process_exit, Held, TypeOK
  <2>8. QED
    BY <2>2, <2>3, <2>4, <2>5, <2>6, <2>7 DEF TypeOK, EntryState
<1>3. ASSUME NEW t \in Threads PROVE Owns(t)' /\ Finds(t)'
  <2>1. CASE pc'[t] = "idle"
    BY <2>1 DEF Owns, Finds, HasMap, HasX, HasEntry, HasFile, MapLabels, XLabels, EntryLabels,
                FileLabels, ReadLabels
  <2>2. CASE pc'[t] # "idle"
    <3>1. ~gone(ContextOf[t]) /\ pc'[t] = pc[t] /\ call'[t] = call[t] /\ Owns(t) /\ Finds(t)
          /\ Proc(t) # p
      BY <1>1, <2>2 DEF Held, Proc
    <3>2. QED
      BY SMT, <1>1, <3>1 DEF Owns, Finds, HasMap, HasX, HasEntry, HasFile, Mode, Entry, Proc
  <2>3. QED
    BY <2>1, <2>2
<1>4. Entries'
  <2>1. ASSUME NEW c \in Contexts, NEW h \in Handles
        PROVE  /\ ~entry'[c][h].present => entry'[c][h] = NoEntry
               /\ h[2] = "write" => ~entry'[c][h].filelock
    <3>1. CASE gone(c)
      <4>1. entry'[c][h] = NoEntry
        BY <1>1, <3>1
      <4>2. QED
        BY SMT, <4>1 DEF NoEntry
    <3>2. CASE ~gone(c)
      <4>1. entry'[c][h] = entry[c][h]
        BY <1>1, <3>2
      <4>2. QED
        BY <4>1 DEF Held, Entries
    <3>3. QED
      BY <3>1, <3>2
  <2>2. QED
    BY <2>1 DEF Entries
<1>5. QED
  BY <1>2, <1>3, <1>4 DEF Held

LEMMA HeldInductive ==
  /\ Init => Held
  /\ Held /\ [Next]_vars => Held'
<1>1. ASSUME Init PROVE Held
  <2>1. NoEntry \in EntryState
    <3>1. 0 \in 0 .. CntModulus - 1
      BY SMTT(20), CntFacts
    <3>2. QED
      BY <3>1 DEF NoEntry, EntryState
  <2>2. TypeOK
    BY SMT, <1>1, <2>1, OpenArraysAssumption DEF Init, TypeOK, EntryState, Labels
  <2>3. \A t \in Threads : Owns(t) /\ Finds(t)
    BY <1>1 DEF Init, Owns, Finds, HasMap, HasX, HasEntry, HasFile, MapLabels, XLabels, EntryLabels,
                FileLabels, ReadLabels
  <2>4. Entries
    BY <1>1 DEF Init, Entries, NoEntry
  <2>5. QED
    BY <2>2, <2>3, <2>4 DEF Held
<1>2. ASSUME Held, UNCHANGED vars PROVE Held'
  <2>1. TypeOK'
    BY <1>2 DEF vars, Held, TypeOK
  <2>2. \A t \in Threads : Owns(t)'
    BY SMT, <1>2 DEF vars, Held, Owns, HasMap, HasX, HasEntry, HasFile, Mode
  <2>3. \A t \in Threads : Finds(t)'
    BY <1>2 DEF vars, Held, Finds, Mode, Entry
  <2>4. Entries'
    BY <1>2 DEF vars, Held, Entries
  <2>5. QED
    BY <2>1, <2>2, <2>3, <2>4 DEF Held
<1>3. QED
  BY <1>1, <1>2, ThreadSteps, ExitStep DEF Next, Kept

-----------------------------------------------------------------------------
(* The theorems. *)

LEMMA HeldAlways == Spec => []Held
  BY HeldInductive, PTL DEF Spec

\* Every mutex of StorageManager, of OpenArray and of VFS has at most one owner,
\* a thread inside a call has its array and mode, and cnt_ stays an unsigned
\* number, whatever array_open_for_reads, array_close_for_reads, array_reopen and
\* array_xlock meet.
THEOREM StateTyped == Spec => []TypeOK
<1>1. Held => TypeOK
  BY DEF Held
<1>2. QED
  BY <1>1, HeldAlways, PTL

\* A thread that waits for OpenArray::mtx_lock, or works between it and
\* mtx_unlock, has its OpenArray: array_close_for_reads and _for_writes delete
\* one only while they own both the map and the entry.
THEOREM OpenArraysStay == Spec => []PointersLive
<1>1. Held => PointersLive
  <2>1. ASSUME Held, NEW t \in Threads, pc[t] \in {"open_entry", "close_entry", "reopen_entry"}
        PROVE  Entry(t).present /\ map_mtx[ContextOf[t]][Mode(t)] = t
    BY <2>1, Here DEF Finds, MapLabels
  <2>2. ASSUME Held, NEW t \in Threads, pc[t] \in EntryLabels
        PROVE  Entry(t).present /\ Entry(t).mtx = t
    BY <2>2, Here DEF Finds, EntryLabels
  <2>3. QED
    BY <2>1, <2>2 DEF PointersLive, EntryLabels
<1>2. QED
  BY <1>1, HeldAlways, PTL

\* While array_vacuum runs between array_xlock and array_xunlock its context has
\* no OpenArray for reads of the array, and none can be made, whatever fails.
THEOREM VacuumedArraysClosed == Spec => []EntryExcluded
<1>1. Held => EntryExcluded
  BY DEF Held, Finds, EntryExcluded
<1>2. QED
  BY <1>1, HeldAlways, PTL
=============================================================================
