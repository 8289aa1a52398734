--------------------------- MODULE OpenArraysRefs ---------------------------
(***************************************************************************)
(* The reference counts of the entries of open arrays (Counted), and what  *)
(* makes a context's file lock protect the arrays that it has open         *)
(* (Locking): both are kept by every step.                                 *)
(***************************************************************************)
EXTENDS OpenArraysLock

\* Zenon proves the first-order steps; a step that needs more names SMT.
USE Zenon

\* Listing, reloading and storing do not fail: when they do, the code gives a
\* reference back that it still uses, or keeps one that it does not.
NoMiscounts == "listing" \notin Faults /\ "reload" \notin Faults /\ "store" \notin Faults

RefLabels == {"file_lock", "fcntl", "load", "undo", "close", "close_entry"}

Refers(t, h) == h \in open[t] \/ (call[t] = h /\ pc[t] \in RefLabels)

\* A thread that opens or closes an array does not have it open.
Apart(t) == pc[t] \in RefLabels \union {"open", "open_xlock", "open_entry"} => call[t] \notin open[t]

\* The entry whose file lock is given up is not used by anybody.
LastUse(t) == pc[t] = "file_unlock" => Entry(t).cnt = 0

\* The inductive invariant of the reference counts.
Counted ==
  /\ Sizes(Threads)
  /\ Held
  /\ \A t \in Threads : Apart(t) /\ LastUse(t)
  /\ RefcountExact

-----------------------------------------------------------------------------
LEMMA CntExact ==
  ASSUME NEW n \in Nat, n < CntModulus
  PROVE  /\ n + 1 < CntModulus => cnt_incr(n) = n + 1
         /\ n > 0 => cnt_decr(n) = n - 1
  BY SMTT(20) DEF cnt_incr, cnt_decr, CntModulus

LEMMA RefSizes ==
  ASSUME Sizes(Threads), NEW c, NEW h
  PROVE  /\ References(c, h) \in SUBSET Threads
         /\ Cardinality(References(c, h)) \in Nat
         /\ Cardinality(References(c, h)) = 0 <=> References(c, h) = {}
         /\ Cardinality(References(c, h)') \in Nat
         /\ Cardinality(References(c, h)') = 0 <=> References(c, h)' = {}
         /\ Cardinality(References(c, h)') < CntModulus
         /\ Cardinality({}) = 0
<1>1. References(c, h) \in SUBSET Threads /\ References(c, h)' \in SUBSET Threads
  BY DEF References
<1>2. {} \in SUBSET Threads /\ Threads \in SUBSET Threads
  OBVIOUS
<1>3. /\ Cardinality(References(c, h)) \in Nat
      /\ Cardinality(References(c, h)) = 0 <=> References(c, h) = {}
      /\ Cardinality(References(c, h)') \in Nat
      /\ Cardinality(References(c, h)') = 0 <=> References(c, h)' = {}
      /\ Cardinality(References(c, h)') <= Cardinality(Threads)
      /\ Cardinality({}) = 0
      /\ Cardinality(Threads) \in Nat
  BY <1>1, <1>2 DEF Sizes
<1>4. CntModulus \in Nat /\ Cardinality(Threads) < CntModulus
  <2>1. CntModulus \in Nat
    BY SMT DEF CntModulus
  <2>2. QED
    BY <2>1, OpenArraysAssumption
<1>5. QED
  BY SMT, <1>1, <1>3, <1>4

LEMMA ReferencesDef ==
  ASSUME NEW c, NEW h
  PROVE  /\ References(c, h) = {t \in Threads : ContextOf[t] = c /\ Refers(t, h)}
         /\ References(c, h)' = {t \in Threads : ContextOf[t] = c /\ Refers(t, h)'}
  BY DEF References, Refers, RefLabels

LEMMA SameReferences ==
  ASSUME NEW c, NEW h, \A u \in Threads : ContextOf[u] = c => (Refers(u, h)' <=> Refers(u, h))
  PROVE  References(c, h)' = References(c, h)
  BY SMT, ReferencesDef

LEMMA OthersRefer ==
  ASSUME NEW t \in Threads, Guarantee(t), NEW u \in Threads \ {t}, NEW h
  PROVE  Refers(u, h)' <=> Refers(u, h)
  BY DEF Guarantee, Refers, RefLabels

LEMMA OthersApart ==
  ASSUME Counted, TypeOK', NEW t \in Threads, Guarantee(t), NEW u \in Threads \ {t}
  PROVE  Apart(u)' /\ LastUse(u)'
<1>1. /\ Apart(u) /\ LastUse(u) /\ call'[u] = call[u] /\ open'[u] = open[u]
      /\ pc'[u] = pc[u] \/ (pc[u] = "xlock_wait" /\ pc'[u] = "xlock_reads")
  BY DEF Counted, Guarantee
<1>2. Apart(u)'
  BY <1>1 DEF Apart, RefLabels
<1>3. ASSUME pc'[u] = "file_unlock" PROVE Entry(u).cnt' = 0
  <2>1. pc[u] = "file_unlock" /\ u # t /\ u # NoThread
    BY <1>1, <1>3, OpenArraysAssumption
  <2>2. call[u] \in Handles /\ ContextOf[u] \in Contexts /\ Entry(u).mtx = u /\ Entry(u).cnt = 0
    BY <1>1, <2>1, Here DEF Counted, EntryLabels, LastUse
  <2>3. QED
    BY SMT, <1>1, <2>1, <2>2 DEF Guarantee, Entry
<1>4. QED
  BY <1>2, <1>3 DEF LastUse

\* A step that neither counts nor gives back a reference.
RefsSame(t) ==
  /\ \A h \in Handles : Refers(t, h)' <=> Refers(t, h)
  /\ \A c \in Contexts, h \in Handles :
       /\ entry'[c][h].cnt = entry[c][h].cnt
       /\ entry[c][h].present => entry'[c][h].present

LEMMA RefsQuiet ==
  ASSUME Counted, NEW t \in Threads, Guarantee(t), RefsSame(t)
  PROVE  RefcountExact'
<1>1. ASSUME NEW c \in Contexts, NEW h \in Handles PROVE References(c, h)' = References(c, h)
  <2>1. \A u \in Threads : Refers(u, h)' <=> Refers(u, h)
    BY OthersRefer DEF RefsSame
  <2>2. QED
    BY <2>1, SameReferences
<1>2. QED
  BY <1>1 DEF RefcountExact, Counted, RefsSame

\* Thread t counts its reference.
LEMMA RefAdded ==
  ASSUME Counted, NEW t \in Threads, Guarantee(t), NEW c \in Contexts, NEW g \in Handles,
         c = ContextOf[t], NEW e \in EntryState,
         entry'[c][g] = e, e.present, e.cnt = cnt_incr(entry[c][g].cnt),
         \A d \in Contexts, h \in Handles : d # c \/ h # g => entry'[d][h] = entry[d][h],
         ~Refers(t, g), Refers(t, g)', \A h \in Handles \ {g} : Refers(t, h)' <=> Refers(t, h)
  PROVE  RefcountExact'
<1>1. References(c, g)' = References(c, g) \union {t} /\ t \notin References(c, g)
  BY SMT, OthersRefer, ReferencesDef
<1>2. ASSUME NEW d \in Contexts, NEW h \in Handles, d # c \/ h # g
      PROVE  References(d, h)' = References(d, h)
  <2>1. ASSUME NEW u \in Threads, ContextOf[u] = d PROVE Refers(u, h)' <=> Refers(u, h)
    <3>1. CASE u = t
      BY <1>2, <2>1, <3>1
    <3>2. CASE u # t
      BY <3>2, OthersRefer
    <3>3. QED
      BY <3>1, <3>2
  <2>2. QED
    BY <2>1, SameReferences
<1>3. Cardinality(References(c, g)') = Cardinality(References(c, g)) + 1
  <2>1. Cardinality(References(c, g) \union {t}) = Cardinality(References(c, g)) + 1
    BY <1>1, RefSizes DEF Counted, Sizes
  <2>2. QED
    BY <1>1, <2>1
<1>4. entry[c][g].cnt = Cardinality(References(c, g))
  BY DEF Counted, RefcountExact
<1>5. e.cnt = Cardinality(References(c, g)')
  <2> DEFINE n == Cardinality(References(c, g))
  <2>1. n \in Nat /\ n + 1 < CntModulus /\ CntModulus \in Nat
    <3>1. CntModulus \in Nat
      BY SMT DEF CntModulus
    <3>2. QED
      BY SMT, <1>3, <3>1, RefSizes DEF Counted
  <2> HIDE DEF n
  <2>2. cnt_incr(n) = n + 1
    BY SMT, <2>1, CntExact
  <2>3. QED
    BY <1>3, <1>4, <2>2 DEF n
<1>6. ASSUME NEW d \in Contexts, NEW h \in Handles
      PROVE  /\ entry'[d][h].cnt = Cardinality(References(d, h)')
             /\ References(d, h)' # {} => entry'[d][h].present
  <2>1. CASE d = c /\ h = g
    BY <1>5, <2>1
  <2>2. CASE d # c \/ h # g
    BY SMT, <1>2, <2>2 DEF Counted, RefcountExact
  <2>3. QED
    BY <2>1, <2>2
<1>7. QED
  BY <1>6 DEF RefcountExact

\* Thread t gives its reference back.
LEMMA RefRemoved ==
  ASSUME Counted, NEW t \in Threads, Guarantee(t), NEW c \in Contexts, NEW g \in Handles,
         c = ContextOf[t], entry[c][g].present,
         entry'[c][g].cnt = cnt_decr(entry[c][g].cnt),
         entry'[c][g].cnt # 0 => entry'[c][g].present,
         \A d \in Contexts, h \in Handles : d # c \/ h # g => entry'[d][h] = entry[d][h],
         Refers(t, g), ~Refers(t, g)', \A h \in Handles \ {g} : Refers(t, h)' <=> Refers(t, h)
  PROVE  RefcountExact'
<1>1. References(c, g)' = References(c, g) \ {t} /\ t \in References(c, g)
  BY SMT, OthersRefer, ReferencesDef
<1>2. ASSUME NEW d \in Contexts, NEW h \in Handles, d # c \/ h # g
      PROVE  References(d, h)' = References(d, h)
  <2>1. ASSUME NEW u \in Threads, ContextOf[u] = d PROVE Refers(u, h)' <=> Refers(u, h)
    <3>1. CASE u = t
      BY <1>2, <2>1, <3>1
    <3>2. CASE u # t
      BY <3>2, OthersRefer
    <3>3. QED
      BY <3>1, <3>2
  <2>2. QED
    BY <2>1, SameReferences
<1>3. Cardinality(References(c, g)') = Cardinality(References(c, g)) - 1
  <2>1. Cardinality(References(c, g) \ {t}) = Cardinality(References(c, g)) - 1
    BY <1>1, RefSizes DEF Counted, Sizes
  <2>2. QED
    BY <1>1, <2>1
<1>4. entry[c][g].cnt = Cardinality(References(c, g))
  BY DEF Counted, RefcountExact
<1>5. entry'[c][g].cnt = Cardinality(References(c, g)')
  <2> DEFINE n == Cardinality(References(c, g))
  <2>1. n \in Nat /\ n > 0 /\ n - 1 < CntModulus
    <3>1. n # 0
      BY <1>1, RefSizes DEF Counted
    <3>2. QED
      BY SMT, <1>3, <3>1, RefSizes DEF Counted
  <2>2. n < CntModulus
    <3>1. CntModulus \in Nat
      BY SMT DEF CntModulus
    <3>2. entry[c][g].cnt \in 0 .. CntModulus - 1
      BY SMT DEF Counted, Held, TypeOK
    <3>3. QED
      BY SMTT(20), <1>4, <3>1, <3>2
  <2> HIDE DEF n
  <2>3. cnt_decr(n) = n - 1
    BY <2>1, <2>2, CntExact
  <2>4. QED
    BY <1>3, <1>4, <2>3 DEF n
<1>6. References(c, g)' # {} => entry'[c][g].present
  BY <1>5, RefSizes DEF Counted
<1>7. ASSUME NEW d \in Contexts, NEW h \in Handles
      PROVE  /\ entry'[d][h].cnt = Cardinality(References(d, h)')
             /\ References(d, h)' # {} => entry'[d][h].present
  <2>1. CASE d = c /\ h = g
    BY <1>5, <1>6, <2>1
  <2>2. CASE d # c \/ h # g
    BY SMT, <1>2, <2>2 DEF Counted, RefcountExact
  <2>3. QED
    BY <2>1, <2>2
<1>8. QED
  BY <1>7 DEF RefcountExact

-----------------------------------------------------------------------------
(* Every step of a thread keeps the counts exact. *)

RefsKept(t) == RefcountExact' /\ Apart(t)' /\ LastUse(t)'

LEMMA CntSame ==
  ASSUME Held, NEW t \in Threads, pc[t] # "idle", NEW e \in EntryState, SetEntry(t, e),
         e.cnt = Entry(t).cnt, Entry(t).present => e.present
  PROVE  \A c \in Contexts, h \in Handles :
           /\ entry'[c][h].cnt = entry[c][h].cnt
           /\ entry[c][h].present => entry'[c][h].present
<1>1. EntryBecomes(t, e)
  BY Here, EntryFacts DEF Held
<1>2. QED
  BY <1>1 DEF EntryBecomes, Entry

LEMMA LabelsKept ==
  ASSUME NEW t \in Threads, open'[t] = open[t],
         \/ pc[t] \in RefLabels /\ pc'[t] \in RefLabels /\ call'[t] = call[t]
         \/ pc[t] \notin RefLabels /\ pc'[t] \notin RefLabels
  PROVE  \A h \in Handles : Refers(t, h)' <=> Refers(t, h)
  BY DEF Refers

\* What makes up a step that neither counts nor gives back a reference.
LEMMA QuietRefs ==
  ASSUME Counted, NEW t \in Threads, Guarantee(t),
         \A h \in Handles : Refers(t, h)' <=> Refers(t, h),
         \A c \in Contexts, h \in Handles :
           /\ entry'[c][h].cnt = entry[c][h].cnt
           /\ entry[c][h].present => entry'[c][h].present,
         pc'[t] # "file_unlock", Apart(t)'
  PROVE  RefsKept(t)
  BY RefsQuiet DEF RefsSame, RefsKept, LastUse

LEMMA CallRefs ==
  ASSUME Counted, NEW t \in Threads, Guarantee(t), NEW h \in Handles,
         array_open(t, h) \/ array_close(t, h) \/ array_reopen(t, h)
  PROVE  RefsKept(t)
<1>1. TypeOK /\ pc[t] = "idle" /\ UNCHANGED entry
  BY DEF Counted, Held, array_open, array_close, array_reopen
<1>2. call'[t] = h
  BY <1>1 DEF array_open, array_close, array_reopen, TypeOK
<1>3. CASE array_open(t, h) \/ array_reopen(t, h)
  <2>1. /\ pc'[t] \in {"open", "reopen"} /\ open'[t] = open[t]
        /\ pc'[t] = "open" => h \notin open[t]
    BY <1>1, <1>3, GotoFacts DEF array_open, array_reopen, Labels
  <2>2. Apart(t)'
    BY <1>2, <2>1 DEF Apart, RefLabels
  <2>3. \A g \in Handles : Refers(t, g)' <=> Refers(t, g)
    BY <1>1, <2>1, LabelsKept DEF RefLabels
  <2>4. QED
    BY <1>1, <2>1, <2>2, <2>3, QuietRefs
<1>4. CASE array_close(t, h)
  <2>1. pc'[t] = "close" /\ open'[t] = open[t] \ {h} /\ h \in open[t]
    BY <1>1, <1>4, GotoFacts DEF array_close, Labels, TypeOK
  <2>2. Apart(t)'
    BY <1>2, <2>1 DEF Apart
  <2>3. \A g \in Handles : Refers(t, g)' <=> Refers(t, g)
    BY <1>1, <1>2, <2>1 DEF Refers, RefLabels
  <2>4. QED
    BY <1>1, <2>1, <2>2, <2>3, QuietRefs
<1>5. QED
  BY <1>3, <1>4

\* The steps of vacuuming, and those that only change mutexes.
LEMMA PlainRefs ==
  ASSUME Counted, NEW t \in Threads, Guarantee(t),
         UNCHANGED <<open, entry>>, pc[t] \notin RefLabels,
         pc'[t] \notin RefLabels \union {"open", "open_xlock", "open_entry", "file_unlock"}
  PROVE  RefsKept(t)
<1>1. \A h \in Handles : Refers(t, h)' <=> Refers(t, h)
  BY LabelsKept
<1>2. Apart(t)'
  BY DEF Apart
<1>3. QED
  BY <1>1, <1>2, QuietRefs

LEMMA VacuumRefs ==
  ASSUME Counted, NEW t \in Threads, Guarantee(t),
         \/ \E a \in Arrays : array_vacuum(t, a)
         \/ xlock_lock_xlock(t) \/ xlock_lock_reads(t) \/ xlock_file_lock(t)
         \/ xlock_fcntl(t) \/ xlock_fails(t) \/ array_xunlock(t) \/ reopen_lock_map(t)
  PROVE  RefsKept(t)
<1>1. TypeOK
  BY DEF Counted, Held
<1>2. pc[t] \in {"idle", "xlock", "xlock_reads", "xlock_file", "xlock_fcntl", "vacuum", "reopen"}
      /\ UNCHANGED <<open, entry>>
  BY DEF array_vacuum, xlock_lock_xlock, xlock_lock_reads, xlock_file_lock, xlock_fcntl, xlock_fails,
         array_xunlock, reopen_lock_map
<1>3. pc'[t] \in {"idle", "xlock", "xlock_reads", "xlock_wait", "xlock_file", "xlock_fcntl", "vacuum",
                  "reopen_entry"}
  BY <1>1, GotoFacts, ReturnFacts
  DEF array_vacuum, xlock_lock_xlock, xlock_lock_reads, xlock_file_lock, xlock_fcntl, xlock_fails,
      array_xunlock, reopen_lock_map, XLocked, Labels
<1>4. QED
  BY <1>2, <1>3, PlainRefs DEF RefLabels

LEMMA OpenRefs ==
  ASSUME Counted, NEW t \in Threads, Guarantee(t),
         \/ open_lock_reads(t) \/ open_lock_xlock(t) \/ open_lock_writes(t) \/ open_key_differs(t)
  PROVE  RefsKept(t)
<1>1. pc[t] \in {"open", "open_xlock"} /\ UNCHANGED open
  BY DEF open_lock_reads, open_lock_xlock, open_lock_writes, open_key_differs
<1>2. Held /\ TypeOK /\ Apart(t) /\ call[t] \in Handles /\ Entry(t) \in EntryState
  BY <1>1, Here DEF Counted, Held
<1>3. \/ pc'[t] = "idle"
      \/ pc'[t] \in {"open_xlock", "open_entry"} /\ call'[t] = call[t]
  BY <1>2, GotoFacts, ReturnFacts
  DEF open_lock_reads, open_lock_xlock, open_lock_writes, open_key_differs, Labels
<1>4. \A h \in Handles : Refers(t, h)' <=> Refers(t, h)
  BY <1>1, <1>3, LabelsKept DEF RefLabels
<1>5. Apart(t)'
  BY <1>1, <1>2, <1>3 DEF Apart, RefLabels
<1>6. \A c \in Contexts, h \in Handles :
           /\ entry'[c][h].cnt = entry[c][h].cnt
           /\ entry[c][h].present => entry'[c][h].present
  <2>1. CASE UNCHANGED entry
    BY <2>1
  <2>2. CASE FindOrCreate(t)
    <3> DEFINE e == [Entry(t) EXCEPT !.present = TRUE]
    <3>1. e \in EntryState /\ e.cnt = Entry(t).cnt /\ e.present /\ SetEntry(t, e)
      BY <1>2, <2>2 DEF EntryState, FindOrCreate
    <3> HIDE DEF e
    <3>2. QED
      BY <1>1, <1>2, <3>1, CntSame
  <2>3. QED
    BY <2>1, <2>2 DEF open_lock_reads, open_lock_xlock, open_lock_writes, open_key_differs
<1>7. QED
  BY <1>3, <1>4, <1>5, <1>6, QuietRefs

LEMMA EntryRefs ==
  ASSUME Counted, NEW t \in Threads, Guarantee(t), open_lock_entry(t)
  PROVE  RefsKept(t)
<1> DEFINE e == [Entry(t) EXCEPT !.cnt = cnt_incr(@), !.mtx = t]
<1>1. pc[t] = "open_entry" /\ UNCHANGED <<open, call>> /\ SetEntry(t, e)
  BY DEF open_lock_entry
<1>2. /\ Held /\ TypeOK /\ Apart(t) /\ call[t] \in Handles /\ Entry(t) \in EntryState
      /\ ContextOf[t] \in Contexts /\ Entry(t).present
  BY <1>1, Here DEF Counted, Held, Finds
<1>3. pc'[t] \in {"file_lock", "load"}
  BY <1>2, GotoFacts DEF open_lock_entry, Labels
<1>4. e \in EntryState /\ e.present /\ e.cnt = cnt_incr(Entry(t).cnt)
  <2>1. cnt_incr(Entry(t).cnt) \in 0 .. CntModulus - 1
    BY SMT, <1>2, CntFacts DEF EntryState
  <2>2. QED
    BY <1>2, <2>1 DEF EntryState
<1> HIDE DEF e
<1>5. EntryBecomes(t, e)
  BY <1>1, <1>2, <1>4, EntryFacts
<1>6. PICK g \in Handles : g = call[t]
  BY <1>2
<1>7. ~Refers(t, g) /\ Refers(t, g)' /\ \A h \in Handles \ {g} : Refers(t, h)' <=> Refers(t, h)
  BY <1>1, <1>2, <1>3, <1>6 DEF Refers, Apart, RefLabels
<1>8. RefcountExact'
  <2>1. entry'[ContextOf[t]][g] = e /\ e.cnt = cnt_incr(entry[ContextOf[t]][g].cnt)
    BY <1>4, <1>5, <1>6 DEF EntryBecomes, Entry
  <2>2. \A d \in Contexts, h \in Handles : d # ContextOf[t] \/ h # g => entry'[d][h] = entry[d][h]
    BY <1>5, <1>6 DEF EntryBecomes
  <2>3. QED
    BY <1>2, <1>4, <1>7, <2>1, <2>2, RefAdded
<1>9. Apart(t)' /\ LastUse(t)'
  BY <1>1, <1>2, <1>3 DEF Apart, LastUse, RefLabels
<1>10. QED
  BY <1>8, <1>9 DEF RefsKept

LEMMA FileLockRefs ==
  ASSUME Counted, NEW t \in Threads, Guarantee(t),
         \/ open_file_lock(t) \/ open_fcntl(t) \/ open_file_lock_fails(t) \/ open_load_fails(t)
  PROVE  RefsKept(t)
<1>1. pc[t] \in {"file_lock", "fcntl", "load"} /\ UNCHANGED <<open, call>>
  BY DEF open_file_lock, open_fcntl, open_file_lock_fails, open_load_fails
<1>2. Held /\ TypeOK /\ Apart(t) /\ call[t] \in Handles /\ Entry(t) \in EntryState
  BY <1>1, Here DEF Counted, Held
<1>3. pc'[t] \in {"fcntl", "load", "undo"}
  BY <1>2, GotoFacts DEF open_file_lock, open_fcntl, open_file_lock_fails, open_load_fails, Labels
<1>4. \A h \in Handles : Refers(t, h)' <=> Refers(t, h)
  BY <1>1, <1>3, LabelsKept DEF RefLabels
<1>5. Apart(t)'
  BY <1>1, <1>2, <1>3 DEF Apart, RefLabels
<1>6. \A c \in Contexts, h \in Handles :
           /\ entry'[c][h].cnt = entry[c][h].cnt
           /\ entry[c][h].present => entry'[c][h].present
  <2>1. CASE UNCHANGED entry
    BY <2>1
  <2>3. CASE SetEntry(t, [Entry(t) EXCEPT !.filelock = TRUE])
    <3> DEFINE e == [Entry(t) EXCEPT !.filelock = TRUE]
    <3>1. e \in EntryState /\ e.cnt = Entry(t).cnt /\ e.present = Entry(t).present /\ SetEntry(t, e)
      BY <1>2, <2>3 DEF EntryState
    <3> HIDE DEF e
    <3>2. QED
      BY <1>1, <1>2, <3>1, CntSame
  <2>4. CASE SetEntry(t, [Entry(t) EXCEPT !.mtx = NoThread])
    <3> DEFINE e == [Entry(t) EXCEPT !.mtx = NoThread]
    <3>1. e \in EntryState /\ e.cnt = Entry(t).cnt /\ e.present = Entry(t).present /\ SetEntry(t, e)
      BY <1>2, <2>4 DEF EntryState
    <3> HIDE DEF e
    <3>2. QED
      BY <1>1, <1>2, <3>1, CntSame
  <2>5. CASE SetEntry(t, [Entry(t) EXCEPT !.mtx = NoThread, !.filelock = TRUE])
    <3> DEFINE e == [Entry(t) EXCEPT !.mtx = NoThread, !.filelock = TRUE]
    <3>1. e \in EntryState /\ e.cnt = Entry(t).cnt /\ e.present = Entry(t).present /\ SetEntry(t, e)
      BY <1>2, <2>5 DEF EntryState
    <3> HIDE DEF e
    <3>2. QED
      BY <1>1, <1>2, <3>1, CntSame
  <2>6. QED
    BY <2>1, <2>3, <2>4, <2>5 DEF open_file_lock, open_fcntl, open_file_lock_fails, open_load_fails
<1>7. QED
  BY <1>3, <1>4, <1>5, <1>6, QuietRefs

LEMMA UnlockedRefs ==
  ASSUME Counted, NEW t \in Threads, pc[t] # "idle", NEW u \in Threads \union {NoThread},
         SetEntry(t, [Entry(t) EXCEPT !.mtx = u])
  PROVE  \A c \in Contexts, h \in Handles :
           /\ entry'[c][h].cnt = entry[c][h].cnt
           /\ entry[c][h].present => entry'[c][h].present
<1>1. Held /\ Entry(t) \in EntryState
  BY Here DEF Counted
<1> DEFINE e == [Entry(t) EXCEPT !.mtx = u]
<1>2. e \in EntryState /\ e.cnt = Entry(t).cnt /\ e.present = Entry(t).present /\ SetEntry(t, e)
  BY <1>1 DEF EntryState
<1> HIDE DEF e
<1>3. QED
  BY <1>1, <1>2, CntSame

LEMMA LoadRefs ==
  ASSUME Counted, NEW t \in Threads, Guarantee(t),
         open_load(t) \/ reopen_lock_entry(t) \/ reopen_load(t)
  PROVE  RefsKept(t)
<1>1. /\ pc[t] \in {"load", "reopen_entry", "reopen_load"}
      /\ \E u \in {t, NoThread} : SetEntry(t, [Entry(t) EXCEPT !.mtx = u])
  BY DEF open_load, reopen_lock_entry, reopen_load
<1>2. TypeOK /\ Apart(t) /\ call[t] \in Handles
  BY <1>1, Here DEF Counted, Held
<1>3. pc'[t] \in {"idle", "reopen_load"}
  BY <1>2, GotoFacts, ReturnFacts DEF open_load, reopen_lock_entry, reopen_load, Labels
<1>4. \A c \in Contexts, h \in Handles :
           /\ entry'[c][h].cnt = entry[c][h].cnt
           /\ entry[c][h].present => entry'[c][h].present
  <2>1. PICK u \in Threads \union {NoThread} : SetEntry(t, [Entry(t) EXCEPT !.mtx = u])
    BY <1>1
  <2>2. QED
    BY <1>1, <2>1, UnlockedRefs
<1>5. Apart(t)'
  BY <1>3 DEF Apart, RefLabels
<1>6. \A h \in Handles : Refers(t, h)' <=> Refers(t, h)
  <2>1. CASE open_load(t)
    <3>1. pc[t] = "load" /\ pc'[t] = "idle" /\ open'[t] = open[t] \union {call[t]}
      BY <1>2, <2>1, ReturnFacts DEF open_load, TypeOK
    <3>2. QED
      BY <3>1 DEF Refers, RefLabels
  <2>2. CASE reopen_lock_entry(t) \/ reopen_load(t)
    <3>1. pc[t] \notin RefLabels /\ pc'[t] \notin RefLabels /\ open'[t] = open[t]
      BY <1>3, <2>2 DEF RefLabels, reopen_lock_entry, reopen_load
    <3>2. QED
      BY <3>1, LabelsKept
  <2>3. QED
    BY <2>1, <2>2
<1>7. QED
  BY <1>3, <1>4, <1>5, <1>6, QuietRefs

\* A thread that closes an array finds its entry.
LEMMA ReferredPresent ==
  ASSUME Counted, NEW t \in Threads, NEW h \in Handles, Refers(t, h)
  PROVE  entry[ContextOf[t]][h].present
<1>1. ContextOf[t] \in Contexts
  BY OpenArraysAssumption
<1>2. t \in References(ContextOf[t], h)
  BY ReferencesDef
<1>3. QED
  BY <1>1, <1>2 DEF Counted, RefcountExact

LEMMA CloseMapRefs ==
  ASSUME Counted, NEW t \in Threads, Guarantee(t), close_lock_map(t)
  PROVE  RefsKept(t)
<1>1. pc[t] \in {"close", "undo"} /\ UNCHANGED <<open, entry>>
  BY DEF close_lock_map
<1>2. TypeOK /\ Apart(t) /\ call[t] \in Handles
  BY <1>1, Here DEF Counted, Held
<1>3. Entry(t).present
  BY <1>1, <1>2, ReferredPresent DEF Refers, RefLabels, Entry
<1>4. pc'[t] = "close_entry" /\ call'[t] = call[t]
  BY <1>2, <1>3, GotoFacts DEF close_lock_map, Labels
<1>5. \A h \in Handles : Refers(t, h)' <=> Refers(t, h)
  BY <1>1, <1>4, LabelsKept DEF RefLabels
<1>6. Apart(t)'
  BY <1>1, <1>2, <1>4 DEF Apart, RefLabels
<1>7. QED
  BY <1>1, <1>4, <1>5, <1>6, QuietRefs

LEMMA CloseEntryRefs ==
  ASSUME Counted, NEW t \in Threads, Guarantee(t), close_lock_entry(t)
  PROVE  RefsKept(t)
<1> DEFINE n == cnt_decr(Entry(t).cnt)
<1>1. pc[t] = "close_entry" /\ UNCHANGED open
  BY DEF close_lock_entry
<1>2. /\ Held /\ TypeOK /\ Apart(t) /\ call[t] \in Handles /\ Entry(t) \in EntryState
      /\ ContextOf[t] \in Contexts /\ Entry(t).present
  BY <1>1, Here DEF Counted, Held, Finds
<1>3. n \in 0 .. CntModulus - 1 /\ 0 \in 0 .. CntModulus - 1
  BY SMT, <1>2, CntFacts DEF EntryState
<1>4. \E e \in EntryState :
        /\ SetEntry(t, e) /\ e.cnt = n /\ (n # 0 => e.present)
        /\ \/ pc'[t] = "file_unlock" /\ call'[t] = call[t] /\ n = 0
           \/ pc'[t] = "idle"
  <2>1. CASE /\ n = 0 /\ SetEntry(t, [Entry(t) EXCEPT !.cnt = 0, !.mtx = t])
             /\ Goto(t, "file_unlock") /\ UNCHANGED call
    <3> DEFINE e == [Entry(t) EXCEPT !.cnt = 0, !.mtx = t]
    <3>1. e \in EntryState /\ e.cnt = 0 /\ SetEntry(t, e)
      BY <1>2, <1>3, <2>1 DEF EntryState
    <3>2. pc'[t] = "file_unlock"
      BY <1>2, <2>1, GotoFacts DEF Labels
    <3> HIDE DEF e
    <3>3. QED
      BY <2>1, <3>1, <3>2
  <2>2. CASE /\ SetEntry(t, IF n = 0 THEN NoEntry ELSE [Entry(t) EXCEPT !.cnt = n])
             /\ ReturnNotify(t) \/ Return(t)
    <3>1. pc'[t] = "idle"
      BY <1>2, <2>2, ReturnFacts, NotifyFacts
    <3>2. CASE n = 0
      <4>1. NoEntry \in EntryState /\ NoEntry.cnt = 0
        BY <1>3 DEF NoEntry, EntryState
      <4>2. QED
        BY <2>2, <3>1, <3>2, <4>1
    <3>3. CASE n # 0
      <4> DEFINE e == [Entry(t) EXCEPT !.cnt = n]
      <4>1. e \in EntryState /\ e.cnt = n /\ e.present /\ SetEntry(t, e)
        BY <1>2, <1>3, <2>2, <3>3 DEF EntryState
      <4> HIDE DEF e
      <4>2. QED
        BY <3>1, <4>1
    <3>4. QED
      BY <3>2, <3>3
  <2>3. QED
    BY <2>1, <2>2 DEF close_lock_entry
<1>5. PICK e \in EntryState :
        /\ SetEntry(t, e) /\ e.cnt = n /\ (n # 0 => e.present)
        /\ \/ pc'[t] = "file_unlock" /\ call'[t] = call[t] /\ n = 0
           \/ pc'[t] = "idle"
  BY <1>4
<1>6. EntryBecomes(t, e)
  BY <1>2, <1>5, EntryFacts
<1>7. PICK g \in Handles : g = call[t]
  BY <1>2
<1>8. Refers(t, g) /\ ~Refers(t, g)' /\ \A h \in Handles \ {g} : Refers(t, h)' <=> Refers(t, h)
  BY <1>1, <1>2, <1>5, <1>7 DEF Refers, Apart, RefLabels
<1>9. RefcountExact'
  <2>1. entry'[ContextOf[t]][g] = e /\ entry[ContextOf[t]][g] = Entry(t)
    BY <1>6, <1>7 DEF EntryBecomes, Entry
  <2>2. /\ entry'[ContextOf[t]][g].cnt = cnt_decr(entry[ContextOf[t]][g].cnt)
        /\ entry'[ContextOf[t]][g].cnt # 0 => entry'[ContextOf[t]][g].present
        /\ entry[ContextOf[t]][g].present
    BY <1>2, <1>5, <2>1
  <2>3. \A d \in Contexts, h \in Handles : d # ContextOf[t] \/ h # g => entry'[d][h] = entry[d][h]
    BY <1>6, <1>7 DEF EntryBecomes
  <2>4. QED
    BY <1>2, <1>8, <2>2, <2>3, RefRemoved
<1>10. Apart(t)'
  BY <1>5 DEF Apart, RefLabels
<1>11. LastUse(t)'
  <2>1. ASSUME pc'[t] = "file_unlock" PROVE entry'[ContextOf[t]][call'[t]].cnt = 0
    BY <1>5, <1>6, <2>1 DEF EntryBecomes
  <2>2. QED
    BY <2>1 DEF LastUse, Entry
<1>12. QED
  BY <1>9, <1>10, <1>11 DEF RefsKept

LEMMA CloseFileRefs ==
  ASSUME Counted, NEW t \in Threads, Guarantee(t), close_file_unlock(t)
  PROVE  RefsKept(t)
<1>1. pc[t] = "file_unlock" /\ UNCHANGED open
  BY DEF close_file_unlock
<1>2. /\ Held /\ TypeOK /\ call[t] \in Handles /\ Entry(t) \in EntryState
      /\ ContextOf[t] \in Contexts /\ LastUse(t)
  BY <1>1, Here DEF Counted, Held
<1>3. pc'[t] = "idle"
  BY <1>2, ReturnFacts, NotifyFacts DEF close_file_unlock
<1>4. \A h \in Handles : Refers(t, h)' <=> Refers(t, h)
  BY <1>1, <1>3, LabelsKept DEF RefLabels
<1>5. Apart(t)'
  BY <1>3 DEF Apart, RefLabels
<1>6. CASE SetEntry(t, [Entry(t) EXCEPT !.mtx = NoThread])
  <2>1. \A c \in Contexts, h \in Handles :
           /\ entry'[c][h].cnt = entry[c][h].cnt
           /\ entry[c][h].present => entry'[c][h].present
    BY <1>1, <1>6, UnlockedRefs
  <2>2. QED
    BY <1>3, <1>4, <1>5, <2>1, QuietRefs
<1>7. CASE SetEntry(t, NoEntry)
  <2>1. NoEntry \in EntryState /\ NoEntry.cnt = 0
    BY SMT, CntFacts DEF NoEntry, EntryState
  <2>2. EntryBecomes(t, NoEntry)
    BY <1>2, <1>7, <2>1, EntryFacts
  <2>3. PICK g \in Handles : g = call[t]
    BY <1>2
  <2>4. entry[ContextOf[t]][g].cnt = 0
    BY <1>1, <1>2, <2>3 DEF LastUse, Entry
  <2>5. References(ContextOf[t], g) = {}
    <3>1. Cardinality(References(ContextOf[t], g)) = 0
      BY <1>2, <2>4 DEF Counted, RefcountExact
    <3>2. QED
      BY <3>1, RefSizes DEF Counted
  <2>6. ASSUME NEW d \in Contexts, NEW h \in Handles
        PROVE  /\ entry'[d][h].cnt = Cardinality(References(d, h)')
               /\ References(d, h)' # {} => entry'[d][h].present
    <3>1. References(d, h)' = References(d, h)
      <4>1. \A u \in Threads : Refers(u, h)' <=> Refers(u, h)
        BY <1>4, OthersRefer
      <4>2. QED
        BY <4>1, SameReferences
    <3>2. CASE d = ContextOf[t] /\ h = g
      <4>1. entry'[d][h].cnt = 0
        BY <2>1, <2>2, <2>3, <3>2 DEF EntryBecomes
      <4>2. References(d, h)' = {} /\ Cardinality({}) = 0
        BY <2>5, <3>1, <3>2, RefSizes DEF Counted
      <4>3. QED
        BY <4>1, <4>2
    <3>3. CASE d # ContextOf[t] \/ h # g
      <4>1. entry'[d][h] = entry[d][h]
        BY <2>2, <2>3, <3>3 DEF EntryBecomes
      <4>2. QED
        BY <3>1, <4>1 DEF Counted, RefcountExact
    <3>4. QED
      BY <3>2, <3>3
  <2>7. QED
    BY <1>3, <1>5, <2>6 DEF RefsKept, RefcountExact, LastUse
<1>8. QED
  BY <1>6, <1>7 DEF close_file_unlock

LEMMA ThreadCounted ==
  ASSUME Counted, NoMiscounts, NEW t \in Threads, ThreadStep(t)
  PROVE  Counted'
<1>1. Held' /\ Guarantee(t)
  BY ThreadSteps DEF Counted, Kept
<1>2. ~listing_fails(t) /\ ~reopen_load_fails(t) /\ ~close_store_fails(t)
  BY DEF NoMiscounts, listing_fails, reopen_load_fails, close_store_fails, Fail
<1>3. RefsKept(t)
  BY <1>1, <1>2, CallRefs, VacuumRefs, OpenRefs, EntryRefs, FileLockRefs, LoadRefs, CloseMapRefs,
     CloseEntryRefs, CloseFileRefs
  DEF ThreadStep
<1>4. \A u \in Threads : Apart(u)' /\ LastUse(u)'
  <2>1. TypeOK'
    BY <1>1 DEF Held
  <2>2. QED
    BY <1>1, <1>3, <2>1, OthersApart DEF RefsKept
<1>5. QED
  BY <1>1, <1>3, <1>4 DEF Counted, RefsKept

LEMMA ExitCounted ==
  ASSUME Counted, NEW p \in Processes, process_exit(p)
  PROVE  Counted'
<1> DEFINE gone(c) == ProcessOf[c] = p
<1>1. /\ \A t \in Threads : ContextOf[t] \in Contexts
      /\ \A t \in Threads : gone(ContextOf[t]) => pc'[t] = "idle" /\ open'[t] = {}
      /\ \A t \in Threads : ~gone(ContextOf[t]) =>
           pc'[t] = pc[t] /\ call'[t] = call[t] /\ open'[t] = open[t]
      /\ \A c \in Contexts : ~gone(c) => entry'[c] = entry[c]
      /\ \A c \in Contexts, h \in Handles : gone(c) => entry'[c][h] = NoEntry
  BY OpenArraysAssumption DEF process_exit
<1>2. Held'
  BY ExitStep DEF Counted
<1>3. ASSUME NEW t \in Threads PROVE Apart(t)' /\ LastUse(t)'
  <2>1. CASE gone(ContextOf[t])
    BY <1>1, <2>1 DEF Apart, LastUse, RefLabels
  <2>2. CASE ~gone(ContextOf[t])
    BY SMT, <1>1, <2>2 DEF Counted, Apart, LastUse, RefLabels, Entry
  <2>3. QED
    BY <2>1, <2>2
<1>4. ASSUME NEW c \in Contexts, NEW h \in Handles
      PROVE  /\ entry'[c][h].cnt = Cardinality(References(c, h)')
             /\ References(c, h)' # {} => entry'[c][h].present
  <2>1. CASE gone(c)
    <3>1. References(c, h)' = {}
      BY SMTT(20), <1>1, <2>1, ReferencesDef DEF Refers, RefLabels
    <3>2. entry'[c][h].cnt = 0 /\ Cardinality({}) = 0
      BY SMT, <1>1, <2>1, RefSizes DEF NoEntry, Counted
    <3>3. QED
      BY <3>1, <3>2
  <2>2. CASE ~gone(c)
    <3>1. References(c, h)' = References(c, h)
      <4>1. \A u \in Threads : ContextOf[u] = c => (Refers(u, h)' <=> Refers(u, h))
        BY <1>1, <2>2 DEF Refers
      <4>2. QED
        BY <4>1, SameReferences
    <3>2. entry'[c][h] = entry[c][h]
      BY <1>1, <2>2
    <3>3. QED
      BY <3>1, <3>2 DEF Counted, RefcountExact
  <2>3. QED
    BY <2>1, <2>2
<1>5. QED
  BY <1>2, <1>3, <1>4 DEF Counted, RefcountExact

LEMMA InitCounted ==
  ASSUME Init, Sizes(Threads)
  PROVE  Counted
<1>1. Held
  BY HeldInductive
<1>2. \A t \in Threads : Apart(t) /\ LastUse(t)
  BY DEF Init, Apart, LastUse, RefLabels
<1>3. ASSUME NEW c \in Contexts, NEW h \in Handles PROVE References(c, h) = {}
  BY DEF Init, References
<1>4. RefcountExact
  BY <1>3, RefSizes DEF Init, RefcountExact, NoEntry
<1>5. QED
  BY <1>1, <1>2, <1>4 DEF Counted

LEMMA StutterCounted ==
  ASSUME Counted, UNCHANGED vars
  PROVE  Counted'
<1>1. Held'
  BY HeldInductive DEF Counted
<1>2. \A t \in Threads : Apart(t)' /\ LastUse(t)'
  BY DEF vars, Counted, Apart, LastUse, Entry
<1>3. \A c, h : References(c, h)' = References(c, h)
  BY DEF vars, References
<1>4. RefcountExact'
  BY <1>3 DEF vars, Counted, RefcountExact
<1>5. QED
  BY <1>1, <1>2, <1>4 DEF Counted

(***************************************************************************)
(* The file locks and the counts keep readers and vacuumers apart.         *)
(***************************************************************************)
\* A process has one context.  VFS counts the locks of a process whatever their
\* kind: a second context would be given the lock of the first one.
OneContext == \A c, d \in Contexts : ProcessOf[c] = ProcessOf[d] => c = d

\* A context that believes it has a file lock has it.
KernelAgrees ==
  /\ \A c \in Contexts, a \in Arrays :
       ReadEntry(c, a).filelock => kernel[ProcessOf[c]][a] = "shared"
  /\ \A t \in Threads : pc[t] = "vacuum" => kernel[Proc(t)][Uri(t)] = "exclusive"
  /\ \A p, q \in Processes, a \in Arrays :
       p # q /\ kernel[p][a] = "exclusive" => kernel[q][a] = "none"

\* A thread that has an array open for reads, or loads it, has the file lock.
HasArray(t, a) == <<a, "read">> \in open[t] \/ (pc[t] = "load" /\ call[t] = <<a, "read">>)

ReadersLocked ==
  \A t \in Threads, a \in Arrays : HasArray(t, a) => ReadEntry(ContextOf[t], a).filelock

\* The inductive invariant of the refinement.
Locking == Settled /\ Counted /\ KernelAgrees /\ ReadersLocked

-----------------------------------------------------------------------------
(* The counts of VFS, when a process has one context. *)

LEMMA NotCounted ==
  ASSUME Settled, NEW p \in Processes, NEW a \in Arrays, filelocks[p][a] = 0,
         NEW c \in Contexts, ProcessOf[c] = p
  PROVE  ~HasLock(c, a)
<1>1. LockedBy(p, a) = {}
  BY LockedSizes DEF Settled, FilesCounted
<1>2. QED
  BY <1>1 DEF LockedBy

\* A thread that is about to lock a file finds that its process has not locked it.
LEMMA FirstLock ==
  ASSUME Settled, OneContext, NEW t \in Threads,
         pc[t] \in {"file_lock", "fcntl", "xlock_file", "xlock_fcntl"}
  PROVE  filelocks[Proc(t)][Uri(t)] = 0
<1>a. PICK a \in Arrays : Uri(t) = a
  BY Here DEF Settled
<1> USE <1>a
<1>1. /\ Held /\ TypeOK /\ call[t] \in Handles /\ ContextOf[t] \in Contexts /\ Proc(t) \in Processes
      /\ Proc(t) = ProcessOf[ContextOf[t]] /\ Mode(t) = "read" /\ FindsFile(t) /\ Finds(t)
      /\ ~Entry(t).present => Entry(t) = NoEntry
      /\ pc[t] \in XLabels => xlock_mtx[ContextOf[t]] = t
  BY Here DEF Settled, Held, Finds, ReadLabels, XLabels, Proc
<1>2. call[t] = <<a, "read">>
  BY SMT, <1>1 DEF Handles, Uri, Mode
<1>3. ~HasLock(ContextOf[t], a)
  <2>1. ~Entry(t).filelock
    BY SMT, <1>1, XLockedEntry DEF Finds, FindsFile, NoEntry
  <2>2. ASSUME a \in xfilelocks[ContextOf[t]] PROVE FALSE
    <3>1. /\ ~ReadEntry(ContextOf[t], a).present
          /\ \E u \in Threads : xlock_mtx[ContextOf[t]] = u /\ pc[u] = "vacuum"
      BY SMTT(20), <1>1, <2>2, XLockedEntry
    <3>2. QED
      BY <1>1, <1>2, <3>1 DEF Entry, ReadEntry, Finds, EntryLabels, XLabels
  <2>3. QED
    BY <1>2, <2>1, <2>2 DEF HasLock, Entry, ReadEntry
<1>4. LockedBy(Proc(t), a) = {}
  BY <1>1, <1>3 DEF LockedBy, OneContext
<1>5. QED
  BY <1>1, <1>4, LockedSizes DEF Settled, FilesCounted

\* A thread that is about to unlock a file finds it locked once.
LEMMA OnlyLock ==
  ASSUME Settled, OneContext, NEW t \in Threads, pc[t] \in {"vacuum", "file_unlock"}
  PROVE  filelocks[Proc(t)][Uri(t)] = 1
<1>a. PICK a \in Arrays : Uri(t) = a
  BY Here DEF Settled
<1> USE <1>a
<1>1. /\ call[t] \in Handles /\ ContextOf[t] \in Contexts /\ Proc(t) \in Processes
      /\ Mode(t) = "read" /\ FindsFile(t) /\ Proc(t) = ProcessOf[ContextOf[t]]
  BY Here DEF Settled, Finds, ReadLabels, XLabels, Proc
<1>2. call[t] = <<a, "read">>
  BY SMT, <1>1 DEF Handles, Uri, Mode
<1>3. HasLock(ContextOf[t], a)
  BY <1>1, <1>2 DEF HasLock, FindsFile, Entry, ReadEntry
<1>4. LockedBy(Proc(t), a) = {ContextOf[t]}
  BY <1>1, <1>3 DEF LockedBy, OneContext
<1>5. Cardinality({ContextOf[t]}) = 1
  BY <1>1, LockedSizes DEF Settled
<1>6. QED
  BY <1>1, <1>4, <1>5 DEF Settled, FilesCounted

-----------------------------------------------------------------------------
(* What the invariant says of readers and vacuumers. *)

Vacuums(t, a) == pc[t] = "vacuum" /\ Uri(t) = a

LEMMA VacuumFacts ==
  ASSUME Settled, NEW t \in Threads, NEW a \in Arrays, Vacuums(t, a)
  PROVE  /\ ContextOf[t] \in Contexts /\ Proc(t) \in Processes /\ Proc(t) = ProcessOf[ContextOf[t]]
         /\ call[t] = <<a, "read">> /\ a \in xfilelocks[ContextOf[t]] /\ xlock_mtx[ContextOf[t]] = t
         /\ ~ReadEntry(ContextOf[t], a).filelock /\ ~ReadEntry(ContextOf[t], a).present
<1>1. /\ pc[t] = "vacuum" /\ Uri(t) = a /\ call[t] \in Handles /\ Mode(t) = "read" /\ FindsFile(t)
      /\ ContextOf[t] \in Contexts /\ Proc(t) \in Processes /\ xlock_mtx[ContextOf[t]] = t
  BY Here DEF Vacuums, Settled, Finds, ReadLabels, XLabels
<1>2. call[t] = <<a, "read">> /\ a \in xfilelocks[ContextOf[t]]
  BY SMT, <1>1 DEF Handles, Uri, Mode, FindsFile
<1>3. QED
  BY <1>1, <1>2, XLockedEntry DEF Proc

LEMMA OneVacuumer ==
  ASSUME Locking, OneContext, NEW t \in Threads, NEW u \in Threads, NEW a \in Arrays,
         Vacuums(t, a), Vacuums(u, a)
  PROVE  t = u
<1>1. Settled
  BY DEF Locking
<1>2. CASE Proc(t) = Proc(u)
  BY SMTT(20), <1>1, <1>2, VacuumFacts DEF OneContext
<1>3. CASE Proc(t) # Proc(u)
  BY SMTT(20), <1>1, <1>3, VacuumFacts DEF Locking, KernelAgrees, Vacuums
<1>4. QED
  BY <1>2, <1>3

LEMMA ReadOrVacuum ==
  ASSUME Locking, OneContext, NEW t \in Threads, NEW u \in Threads, NEW a \in Arrays,
         Vacuums(t, a), HasArray(u, a)
  PROVE  FALSE
<1>1. Settled /\ ContextOf[u] \in Contexts /\ Proc(u) \in Processes /\ Proc(u) = ProcessOf[ContextOf[u]]
  BY OpenArraysAssumption DEF Locking, Proc
<1>2. ReadEntry(ContextOf[u], a).filelock
  BY DEF Locking, ReadersLocked
<1>3. kernel[Proc(u)][a] = "shared" /\ kernel[Proc(t)][a] = "exclusive" /\ Proc(t) \in Processes
  BY SMTT(20), <1>1, <1>2, VacuumFacts DEF Locking, KernelAgrees, Vacuums
<1>4. QED
  BY <1>1, <1>3 DEF Locking, KernelAgrees

LEMMA Excluded ==
  Locking /\ OneContext =>
    \A t, u \in Threads, a \in Arrays :
      Vacuums(t, a) => ~HasArray(u, a) /\ (Vacuums(u, a) => t = u)
  BY OneVacuumer, ReadOrVacuum

\* The same after a step.
LEMMA ExcludedNext ==
  (Locking /\ OneContext =>
     \A t, u \in Threads, a \in Arrays :
       Vacuums(t, a) => ~HasArray(u, a) /\ (Vacuums(u, a) => t = u))'
  BY Excluded, PTL

-----------------------------------------------------------------------------
(* The steps of a thread. *)

\* A step of thread t that leaves the file locks alone.
LEMMA QuietLocking ==
  ASSUME Locking, NEW t \in Threads, Guarantee(t), UNCHANGED kernel,
         \A c \in Contexts, h \in Handles : entry'[c][h].filelock = entry[c][h].filelock,
         ~(pc'[t] = "vacuum"),
         \A a \in Arrays : HasArray(t, a)' => HasArray(t, a) \/ ReadEntry(ContextOf[t], a).filelock
  PROVE  KernelAgrees' /\ ReadersLocked'
<1>1. \A a \in Arrays : <<a, "read">> \in Handles
  BY DEF Handles, Modes
<1>2. \A c \in Contexts, a \in Arrays : ReadEntry(c, a).filelock' = ReadEntry(c, a).filelock
  BY <1>1 DEF ReadEntry
<1>3. \A u \in Threads : pc'[u] = "vacuum" => pc[u] = "vacuum" /\ Uri(u)' = Uri(u)
  BY DEF Guarantee, Uri
<1>4. KernelAgrees'
  BY SMT, <1>2, <1>3 DEF Locking, KernelAgrees, Proc
<1>5. ASSUME NEW u \in Threads, NEW a \in Arrays, HasArray(u, a)'
      PROVE  ReadEntry(ContextOf[u], a).filelock'
  <2>1. ContextOf[u] \in Contexts
    BY OpenArraysAssumption
  <2>2. HasArray(u, a) \/ (u = t /\ ReadEntry(ContextOf[t], a).filelock)
    BY <1>5 DEF Guarantee, HasArray
  <2>3. QED
    BY <1>2, <2>1, <2>2 DEF Locking, ReadersLocked
<1>6. QED
  BY <1>4, <1>5 DEF ReadersLocked

\* A reader is given the lock of the file.
LEMMA ReaderLocking ==
  ASSUME Locking, OneContext, NEW t \in Threads, Guarantee(t), open_fcntl(t)
  PROVE  KernelAgrees' /\ ReadersLocked'
<1>a. PICK a \in Arrays : Uri(t) = a
  BY Here DEF Locking, Settled, open_fcntl
<1>p. PICK p \in Processes : Proc(t) = p
  BY Here DEF Locking, Settled, open_fcntl
<1> USE <1>a, <1>p
<1> DEFINE e == [Entry(t) EXCEPT !.filelock = TRUE]
<1>1. /\ Settled /\ Held /\ TypeOK /\ pc[t] = "fcntl" /\ call[t] \in Handles
      /\ ContextOf[t] \in Contexts /\ Entry(t) \in EntryState /\ Mode(t) = "read" /\ p = ProcessOf[ContextOf[t]]
      /\ UNCHANGED <<call, open>> /\ SetEntry(t, e)
  BY Here DEF Locking, Settled, Held, open_fcntl, Finds, ReadLabels, Proc
<1>2. call[t] = <<a, "read">>
  BY SMT, <1>1 DEF Handles, Uri, Mode
<1>3. pc'[t] = "load"
  BY <1>1, GotoFacts DEF open_fcntl, Labels
<1>4. e \in EntryState /\ e.filelock
  BY <1>1 DEF EntryState
<1>5. EntryBecomes(t, e)
  BY <1>1, <1>4, EntryFacts
<1> HIDE DEF e
<1>6. \A c \in Contexts, b \in Arrays :
        IF c = ContextOf[t] /\ b = a THEN ReadEntry(c, b).filelock'
                                     ELSE ReadEntry(c, b).filelock' = ReadEntry(c, b).filelock
  BY SMTT(20), <1>2, <1>4, <1>5 DEF EntryBecomes, ReadEntry, Handles, Modes
<1>7. /\ kernel'[p][a] = "shared"
      /\ \A q \in Processes, b \in Arrays : q # p \/ b # a => kernel'[q][b] = kernel[q][b]
      /\ \A q \in Processes \ {p} : kernel[q][a] # "exclusive"
  <2>1. kernel' = [kernel EXCEPT ![p][a] = "shared"] /\ Grants(p, a, "shared")
    BY DEF open_fcntl, filelock_granted
  <2>2. kernel \in [Processes -> [Arrays -> {"none", "shared", "exclusive"}]]
    BY <1>1 DEF TypeOK
  <2>3. QED
    BY SMTT(20), <2>1, <2>2 DEF Grants
<1>8. \A c \in Contexts : ProcessOf[c] = p => ~HasLock(c, a)
  BY <1>1, FirstLock, NotCounted
<1>9. ASSUME NEW c \in Contexts, NEW b \in Arrays, ReadEntry(c, b).filelock'
      PROVE  kernel'[ProcessOf[c]][b] = "shared"
  <2>1. ProcessOf[c] \in Processes
    BY OpenArraysAssumption
  <2>2. CASE ProcessOf[c] = p /\ b = a
    BY <1>7, <2>2
  <2>3. CASE ProcessOf[c] # p \/ b # a
    <3>1. ~(c = ContextOf[t] /\ b = a)
      BY <1>1, <2>3
    <3>2. ReadEntry(c, b).filelock
      BY <1>6, <1>9, <3>1
    <3>3. kernel'[ProcessOf[c]][b] = kernel[ProcessOf[c]][b]
      BY <1>7, <2>1, <2>3
    <3>4. QED
      BY <3>2, <3>3 DEF Locking, KernelAgrees
  <2>4. QED
    BY <2>2, <2>3
<1>10. ASSUME NEW u \in Threads, pc'[u] = "vacuum" PROVE kernel'[Proc(u)][Uri(u)'] = "exclusive"
  <2>1. pc[u] = "vacuum" /\ Uri(u)' = Uri(u)
    BY <1>3, <1>10 DEF Guarantee, Uri
  <2>2. PICK b \in Arrays : Uri(u) = b
    BY <1>1, <2>1, Here
  <2>3. Proc(u) \in Processes /\ b \in xfilelocks[ContextOf[u]] /\ ContextOf[u] \in Contexts
        /\ Proc(u) = ProcessOf[ContextOf[u]]
    BY <1>1, <2>1, <2>2, VacuumFacts DEF Vacuums
  <2>4. Proc(u) # p \/ b # a
    BY <1>8, <2>3 DEF HasLock
  <2>5. QED
    BY SMTT(20), <1>7, <2>1, <2>2, <2>3, <2>4 DEF Locking, KernelAgrees
<1>11. ASSUME NEW q \in Processes, NEW r \in Processes, NEW b \in Arrays, q # r, kernel'[q][b] = "exclusive"
       PROVE  kernel'[r][b] = "none"
  <2>1. b # a \/ (q # p /\ r # p)
    BY <1>7, <1>11
  <2>2. QED
    BY SMTT(20), <1>7, <1>11, <2>1 DEF Locking, KernelAgrees
<1>12. KernelAgrees'
  <2>1. \A u \in Threads : Proc(u)' = Proc(u)
    BY DEF Proc
  <2>2. QED
    BY SMTT(20), <1>9, <1>10, <1>11, <2>1 DEF KernelAgrees
<1>13. ASSUME NEW u \in Threads, NEW b \in Arrays, HasArray(u, b)'
       PROVE  ReadEntry(ContextOf[u], b).filelock'
  <2>1. ContextOf[u] \in Contexts
    BY OpenArraysAssumption
  <2>2. HasArray(u, b) \/ (u = t /\ b = a)
    BY SMT, <1>1, <1>2, <1>3, <1>13 DEF Guarantee, HasArray
  <2>3. QED
    BY <1>6, <2>1, <2>2 DEF Locking, ReadersLocked
<1>14. QED
  BY <1>12, <1>13 DEF ReadersLocked

\* A vacuumer is given the lock of the file.
LEMMA VacuumerLocking ==
  ASSUME Locking, OneContext, NEW t \in Threads, Guarantee(t), xlock_fcntl(t)
  PROVE  KernelAgrees' /\ ReadersLocked'
<1>a. PICK a \in Arrays : Uri(t) = a
  BY Here DEF Locking, Settled, xlock_fcntl
<1>p. PICK p \in Processes : Proc(t) = p
  BY Here DEF Locking, Settled, xlock_fcntl
<1> USE <1>a, <1>p
<1>1. /\ Settled /\ Held /\ TypeOK /\ pc[t] = "xlock_fcntl" /\ UNCHANGED <<call, open, entry>>
      /\ ContextOf[t] \in Contexts /\ p = ProcessOf[ContextOf[t]]
  BY Here DEF Locking, Settled, Held, xlock_fcntl, Proc
<1>2. pc'[t] = "vacuum" /\ Uri(t)' = a
  BY <1>1, GotoFacts DEF xlock_fcntl, XLocked, Labels, Uri
<1>3. \A c \in Contexts, b \in Arrays : ReadEntry(c, b).filelock' = ReadEntry(c, b).filelock
  BY <1>1 DEF ReadEntry
<1>4. /\ kernel'[p][a] = "exclusive"
      /\ \A q \in Processes, b \in Arrays : q # p \/ b # a => kernel'[q][b] = kernel[q][b]
      /\ \A q \in Processes \ {p} : kernel[q][a] = "none"
  BY <1>1 DEF xlock_fcntl, filelock_granted, Grants, TypeOK
<1>5. \A c \in Contexts : ProcessOf[c] = p => ~HasLock(c, a)
  BY <1>1, FirstLock, NotCounted
<1>6. ASSUME NEW c \in Contexts, NEW b \in Arrays, ReadEntry(c, b).filelock'
      PROVE  kernel'[ProcessOf[c]][b] = "shared"
  <2>1. ProcessOf[c] \in Processes /\ ReadEntry(c, b).filelock
    BY <1>3, <1>6, OpenArraysAssumption
  <2>2. ProcessOf[c] # p \/ b # a
    BY <1>5, <2>1 DEF HasLock
  <2>3. QED
    BY SMTT(20), <1>4, <2>1, <2>2 DEF Locking, KernelAgrees
<1>7. ASSUME NEW u \in Threads, pc'[u] = "vacuum" PROVE kernel'[Proc(u)][Uri(u)'] = "exclusive"
  <2>1. CASE u = t
    BY <1>2, <1>4, <2>1
  <2>2. CASE u # t
    <3>1. pc[u] = "vacuum" /\ Uri(u)' = Uri(u)
      BY <1>7, <2>2 DEF Guarantee, Uri
    <3>2. PICK b \in Arrays : Uri(u) = b
      BY <1>1, <3>1, Here
    <3>3. Proc(u) \in Processes
      BY <1>1, <3>1, Here
    <3>4. kernel[Proc(u)][b] = "exclusive"
      BY <3>1, <3>2 DEF Locking, KernelAgrees
    <3>5. QED
      BY <1>4, <3>1, <3>2, <3>3, <3>4
  <2>3. QED
    BY <2>1, <2>2
<1>8. ASSUME NEW q \in Processes, NEW r \in Processes, NEW b \in Arrays, q # r, kernel'[q][b] = "exclusive"
      PROVE  kernel'[r][b] = "none"
  <2>1. CASE b = a
    BY SMTT(20), <1>4, <1>8, <2>1
  <2>2. CASE b # a
    BY SMT, <1>4, <1>8, <2>2 DEF Locking, KernelAgrees
  <2>3. QED
    BY <2>1, <2>2
<1>9. KernelAgrees'
  <2>1. \A u \in Threads : Proc(u)' = Proc(u)
    BY DEF Proc
  <2>2. QED
    BY SMTT(60), <1>6, <1>7, <1>8, <2>1 DEF KernelAgrees
<1>10. ASSUME NEW u \in Threads, NEW b \in Arrays, HasArray(u, b)'
       PROVE  ReadEntry(ContextOf[u], b).filelock'
  <2>1. ContextOf[u] \in Contexts
    BY OpenArraysAssumption
  <2>2. HasArray(u, b)
    BY <1>1, <1>2, <1>10 DEF Guarantee, HasArray
  <2>3. QED
    BY SMT, <1>3, <2>1, <2>2 DEF Locking, ReadersLocked
<1>11. QED
  BY <1>9, <1>10 DEF ReadersLocked

\* What giving up a lock does to the kernel.
LEMMA KernelUnlocks ==
  ASSUME Settled, OneContext, NEW t \in Threads, pc[t] \in {"vacuum", "file_unlock"},
         NEW p \in Processes, p = Proc(t), NEW a \in Arrays, a = Uri(t), filelock_unlock(t)
  PROVE  /\ kernel'[p][a] = "none"
         /\ \A q \in Processes, b \in Arrays : q # p \/ b # a => kernel'[q][b] = kernel[q][b]
<1>1. TypeOK /\ filelocks[Proc(t)][Uri(t)] = 1
  BY OnlyLock DEF Settled, Held
<1>2. QED
  BY <1>1 DEF filelock_unlock, TypeOK

\* The last reader of a context gives up the lock of the file.
LEMMA ReaderUnlocking ==
  ASSUME Locking, OneContext, NEW t \in Threads, Guarantee(t), close_file_unlock(t)
  PROVE  KernelAgrees' /\ ReadersLocked'
<1>a. PICK a \in Arrays : Uri(t) = a
  BY Here DEF Locking, Settled, close_file_unlock
<1>p. PICK p \in Processes : Proc(t) = p
  BY Here DEF Locking, Settled, close_file_unlock
<1> USE <1>a, <1>p
<1>1. /\ Settled /\ Counted /\ Held /\ TypeOK /\ pc[t] = "file_unlock" /\ call[t] \in Handles
      /\ ContextOf[t] \in Contexts /\ Mode(t) = "read" /\ p = ProcessOf[ContextOf[t]]
      /\ Entry(t).filelock /\ Entry(t).cnt = 0 /\ UNCHANGED open
  BY Here DEF Locking, Settled, Held, close_file_unlock, Finds, ReadLabels, Proc, FindsFile, Counted,
              LastUse
<1>2. call[t] = <<a, "read">>
  BY SMT, <1>1 DEF Handles, Uri, Mode
<1>3. filelock_unlock(t) /\ SetEntry(t, NoEntry) /\ ReturnNotify(t)
  BY <1>1, LockCounted DEF close_file_unlock, filelock_missing
<1>4. pc'[t] = "idle"
  BY <1>1, <1>3, NotifyFacts
<1>5. EntryBecomes(t, NoEntry)
  <2>1. NoEntry \in EntryState
    BY SMTT(20), CntFacts DEF NoEntry, EntryState
  <2>2. QED
    BY <1>1, <1>3, <2>1, EntryFacts
<1>6. \A c \in Contexts, b \in Arrays :
        IF c = ContextOf[t] /\ b = a THEN ~ReadEntry(c, b).filelock'
                                     ELSE ReadEntry(c, b).filelock' = ReadEntry(c, b).filelock
  BY SMTT(20), <1>2, <1>5 DEF EntryBecomes, ReadEntry, Handles, Modes, NoEntry
<1>7. /\ kernel'[p][a] = "none"
      /\ \A q \in Processes, b \in Arrays : q # p \/ b # a => kernel'[q][b] = kernel[q][b]
  BY SMTT(20), <1>1, <1>3, KernelUnlocks
<1>8. ASSUME NEW c \in Contexts, NEW b \in Arrays, ReadEntry(c, b).filelock'
      PROVE  kernel'[ProcessOf[c]][b] = "shared"
  <2>1. ProcessOf[c] \in Processes
    BY OpenArraysAssumption
  <2>2. c # ContextOf[t] \/ b # a
    BY <1>1, <1>6, <1>8
  <2>3. ProcessOf[c] # p \/ b # a
    BY <1>1, <2>2 DEF OneContext
  <2>4. ReadEntry(c, b).filelock
    BY <1>6, <1>8, <2>2
  <2>5. QED
    BY SMT, <1>7, <2>1, <2>3, <2>4 DEF Locking, KernelAgrees
<1>9. ASSUME NEW u \in Threads, pc'[u] = "vacuum" PROVE kernel'[Proc(u)][Uri(u)'] = "exclusive"
  <2>1. pc[u] = "vacuum" /\ Uri(u)' = Uri(u)
    BY <1>4, <1>9 DEF Guarantee, Uri
  <2>2. PICK b \in Arrays : Uri(u) = b
    BY <1>1, <2>1, Here
  <2>3. /\ Proc(u) \in Processes /\ ContextOf[u] \in Contexts /\ Proc(u) = ProcessOf[ContextOf[u]]
        /\ ~ReadEntry(ContextOf[u], b).filelock
    BY <1>1, <2>1, <2>2, VacuumFacts DEF Vacuums
  <2>4. Proc(u) # p \/ b # a
    <3>1. ReadEntry(ContextOf[t], a).filelock
      BY <1>1, <1>2 DEF Entry, ReadEntry
    <3>2. QED
      BY <1>1, <2>3, <3>1 DEF OneContext
  <2>5. QED
    BY SMTT(20), <1>7, <2>1, <2>2, <2>3, <2>4 DEF Locking, KernelAgrees
<1>10. ASSUME NEW q \in Processes, NEW r \in Processes, NEW b \in Arrays, q # r, kernel'[q][b] = "exclusive"
       PROVE  kernel'[r][b] = "none"
  <2>1. q # p \/ b # a
    BY <1>7, <1>10
  <2>2. CASE r = p /\ b = a
    BY <1>7, <2>2
  <2>3. CASE r # p \/ b # a
    BY SMT, <1>7, <1>10, <2>1, <2>3 DEF Locking, KernelAgrees
  <2>4. QED
    BY <2>2, <2>3
<1>11. KernelAgrees'
  <2>1. \A u \in Threads : Proc(u)' = Proc(u)
    BY DEF Proc
  <2>2. QED
    BY SMTT(20), <1>8, <1>9, <1>10, <2>1 DEF KernelAgrees
<1>12. ASSUME NEW u \in Threads, NEW b \in Arrays, HasArray(u, b)'
       PROVE  ReadEntry(ContextOf[u], b).filelock'
  <2>1. ContextOf[u] \in Contexts
    BY OpenArraysAssumption
  <2>2. HasArray(u, b)
    BY <1>1, <1>4, <1>12 DEF Guarantee, HasArray
  <2>3. ASSUME ContextOf[u] = ContextOf[t], b = a PROVE FALSE
    <3>1. Refers(u, call[t])
      BY <1>2, <2>2, <2>3 DEF HasArray, Refers, RefLabels
    <3>2. u \in References(ContextOf[t], call[t])
      BY SMTT(20), <2>3, <3>1, ReferencesDef
    <3>3. Cardinality(References(ContextOf[t], call[t])) = 0
      BY <1>1 DEF Counted, RefcountExact, Entry
    <3>4. QED
      BY <3>2, <3>3, RefSizes DEF Counted, Locking
  <2>4. QED
    BY <1>6, <2>1, <2>2, <2>3 DEF Locking, ReadersLocked
<1>13. QED
  BY <1>11, <1>12 DEF ReadersLocked

\* A vacuumer gives up the lock of the file.
LEMMA VacuumerUnlocking ==
  ASSUME Locking, OneContext, NEW t \in Threads, Guarantee(t), array_xunlock(t)
  PROVE  KernelAgrees' /\ ReadersLocked'
<1>a. PICK a \in Arrays : Uri(t) = a
  BY Here DEF Locking, Settled, array_xunlock
<1>p. PICK p \in Processes : Proc(t) = p
  BY Here DEF Locking, Settled, array_xunlock
<1> USE <1>a, <1>p
<1>1. /\ Settled /\ Held /\ TypeOK /\ pc[t] = "vacuum" /\ UNCHANGED <<open, entry>>
      /\ ContextOf[t] \in Contexts /\ p = ProcessOf[ContextOf[t]]
  BY Here DEF Locking, Settled, Held, array_xunlock, Proc
<1>2. filelock_unlock(t) /\ Return(t)
  BY <1>1, LockCounted DEF array_xunlock, filelock_missing
<1>3. pc'[t] = "idle"
  BY <1>1, <1>2, ReturnFacts
<1>4. \A c \in Contexts, b \in Arrays : ReadEntry(c, b).filelock' = ReadEntry(c, b).filelock
  BY <1>1 DEF ReadEntry
<1>5. /\ kernel'[p][a] = "none"
      /\ \A q \in Processes, b \in Arrays : q # p \/ b # a => kernel'[q][b] = kernel[q][b]
  BY SMTT(20), <1>1, <1>2, KernelUnlocks
<1>6. Vacuums(t, a) /\ kernel[p][a] = "exclusive"
  BY <1>1 DEF Vacuums, Locking, KernelAgrees
<1>7. ASSUME NEW c \in Contexts, NEW b \in Arrays, ReadEntry(c, b).filelock'
      PROVE  kernel'[ProcessOf[c]][b] = "shared"
  <2>1. ProcessOf[c] \in Processes /\ kernel[ProcessOf[c]][b] = "shared"
    BY SMTT(20), <1>4, <1>7, OpenArraysAssumption DEF Locking, KernelAgrees
  <2>2. QED
    BY <1>5, <1>6, <2>1
<1>8. ASSUME NEW u \in Threads, pc'[u] = "vacuum" PROVE kernel'[Proc(u)][Uri(u)'] = "exclusive"
  <2>1. u # t /\ pc[u] = "vacuum" /\ Uri(u)' = Uri(u)
    BY <1>3, <1>8 DEF Guarantee, Uri
  <2>2. PICK b \in Arrays : Uri(u) = b
    BY <1>1, <2>1, Here
  <2>3. Proc(u) \in Processes /\ ContextOf[u] \in Contexts /\ Proc(u) = ProcessOf[ContextOf[u]]
        /\ Vacuums(u, b)
    BY <1>1, <2>1, <2>2, VacuumFacts DEF Vacuums
  <2>4. Proc(u) # p \/ b # a
    BY <1>6, <2>1, <2>3, OneVacuumer
  <2>5. QED
    BY SMTT(20), <1>5, <2>1, <2>2, <2>3, <2>4 DEF Locking, KernelAgrees
<1>9. ASSUME NEW q \in Processes, NEW r \in Processes, NEW b \in Arrays, q # r, kernel'[q][b] = "exclusive"
      PROVE  kernel'[r][b] = "none"
  <2>1. q # p \/ b # a
    BY <1>5, <1>9
  <2>2. CASE r = p /\ b = a
    BY <1>5, <2>2
  <2>3. CASE r # p \/ b # a
    BY SMT, <1>5, <1>9, <2>1, <2>3 DEF Locking, KernelAgrees
  <2>4. QED
    BY <2>2, <2>3
<1>10. KernelAgrees'
  <2>1. \A u \in Threads : Proc(u)' = Proc(u)
    BY DEF Proc
  <2>2. QED
    BY SMTT(20), <1>7, <1>8, <1>9, <2>1 DEF KernelAgrees
<1>11. ASSUME NEW u \in Threads, NEW b \in Arrays, HasArray(u, b)'
       PROVE  ReadEntry(ContextOf[u], b).filelock'
  <2>1. ContextOf[u] \in Contexts
    BY OpenArraysAssumption
  <2>2. HasArray(u, b)
    BY <1>1, <1>3, <1>11 DEF Guarantee, HasArray
  <2>3. QED
    BY SMT, <1>4, <2>1, <2>2 DEF Locking, ReadersLocked
<1>12. QED
  BY <1>10, <1>11 DEF ReadersLocked

\* The other steps leave the file locks alone; two of them are about arrays that
\* are being opened.
FilesAlone ==
  /\ UNCHANGED kernel
  /\ \A c \in Contexts, h \in Handles : entry'[c][h].filelock = entry[c][h].filelock

Plain(t) == FilesAlone /\ pc'[t] \notin {"load", "vacuum"} /\ open'[t] \subseteq open[t]

LEMMA PlainSteps ==
  ASSUME Locking, NoLeaks, OneContext, NEW t \in Threads, ThreadStep(t)
  PROVE  \/ Plain(t)
         \/ (open_lock_entry(t) \/ open_load(t)) /\ FilesAlone
         \/ open_fcntl(t) \/ xlock_fcntl(t) \/ close_file_unlock(t) \/ array_xunlock(t)
<1>1. Settled /\ TypeOK /\ Held
  BY DEF Locking, Settled, Held
<1>2. FilesSame /\ UNCHANGED kernel => FilesAlone
  BY DEF FilesSame, FilesAlone
<1>3. ASSUME NEW h \in Handles, array_open(t, h) \/ array_close(t, h) \/ array_reopen(t, h)
      PROVE  Plain(t)
  <2>1. pc'[t] \in {"open", "close", "reopen"} /\ UNCHANGED <<entry, fileVars>>
        /\ open'[t] \subseteq open[t]
    BY SMTT(20), <1>1, <1>3, GotoFacts DEF array_open, array_close, array_reopen, Labels, TypeOK
  <2>2. QED
    BY <2>1 DEF Plain, FilesAlone, fileVars
<1>4. ASSUME NEW a \in Arrays, array_vacuum(t, a) PROVE Plain(t)
  <2>1. pc'[t] = "xlock" /\ UNCHANGED <<entry, fileVars, open>>
    BY <1>1, <1>4, GotoFacts DEF array_vacuum, Labels
  <2>2. QED
    BY <2>1 DEF Plain, FilesAlone, fileVars
<1>5. CASE open_lock_reads(t) \/ open_lock_xlock(t) \/ open_lock_writes(t) \/ open_key_differs(t)
  <2>1. pc'[t] \in {"open_xlock", "open_entry", "idle"} /\ UNCHANGED <<open, kernel>>
    BY <1>1, <1>5, GotoFacts, ReturnFacts
    DEF open_lock_reads, open_lock_xlock, open_lock_writes, open_key_differs, fileVars, Labels
  <2>2. QED
    BY <1>1, <1>2, <1>5, <2>1, OpenQuiet DEF Plain
<1>6. CASE open_lock_entry(t)
  BY <1>1, <1>2, <1>6, OpenQuiet DEF open_lock_entry, fileVars
<1>7. CASE open_load(t)
  BY <1>1, <1>2, <1>7, OtherQuiet DEF open_load, fileVars
<1>8. CASE open_file_lock(t)
  <2>1. filelock_wait(t) /\ Goto(t, "fcntl") /\ UNCHANGED <<open, entry>>
    BY SMTT(20), <1>1, <1>8, FirstLock DEF open_file_lock, filelock_counted
  <2>2. pc'[t] = "fcntl"
    BY <1>1, <2>1, GotoFacts DEF Labels
  <2>3. QED
    BY <2>1, <2>2 DEF Plain, FilesAlone, filelock_wait
<1>9. CASE xlock_file_lock(t)
  <2>1. filelock_wait(t) /\ Goto(t, "xlock_fcntl") /\ UNCHANGED <<open, entry>>
    BY SMTT(20), <1>1, <1>9, FirstLock DEF xlock_file_lock, filelock_counted
  <2>2. pc'[t] = "xlock_fcntl"
    BY <1>1, <2>1, GotoFacts DEF Labels
  <2>3. QED
    BY <2>1, <2>2 DEF Plain, FilesAlone, filelock_wait
<1>10. CASE \/ open_file_lock_fails(t) \/ open_load_fails(t)
            \/ reopen_load(t) \/ reopen_load_fails(t) \/ reopen_lock_entry(t)
  <2>1. pc'[t] \in {"undo", "idle", "reopen_load"} /\ UNCHANGED <<open, kernel>>
    BY <1>1, <1>10, GotoFacts, ReturnFacts
    DEF open_file_lock_fails, open_load_fails, reopen_load, reopen_load_fails, reopen_lock_entry,
        fileVars, filelock_refused, Labels
  <2>2. QED
    BY <1>1, <1>2, <1>10, <2>1, OtherQuiet DEF Plain
<1>11. CASE \/ close_lock_map(t) \/ close_store_fails(t) \/ reopen_lock_map(t)
            \/ xlock_lock_xlock(t) \/ xlock_lock_reads(t) \/ xlock_fails(t)
  <2>1. pc'[t] \in {"close_entry", "idle", "reopen_entry", "xlock_reads", "xlock_file", "xlock_wait"}
        /\ UNCHANGED <<open, kernel>>
    BY <1>1, <1>11, GotoFacts, ReturnFacts
    DEF close_lock_map, close_store_fails, reopen_lock_map, xlock_lock_xlock, xlock_lock_reads,
        xlock_fails, fileVars, filelock_refused, Labels
  <2>2. QED
    BY <1>1, <1>2, <1>11, <2>1, OtherQuiet DEF Plain
<1>12. CASE close_lock_entry(t)
  <2>1. pc'[t] \in {"file_unlock", "idle"} /\ UNCHANGED <<open, kernel>>
    BY <1>1, <1>12, GotoFacts, ReturnFacts, NotifyFacts DEF close_lock_entry, fileVars, Labels
  <2>2. QED
    BY <1>1, <1>2, <1>12, <2>1, CloseQuiet DEF Plain
<1>13. ~listing_fails(t)
  BY DEF listing_fails, Fail, NoLeaks
<1>14. QED
  BY <1>3, <1>4, <1>5, <1>6, <1>7, <1>8, <1>9, <1>10, <1>11, <1>12, <1>13 DEF ThreadStep

\* Counting a reference, a thread goes on to load when its context has the lock.
LEMMA EntryLocking ==
  ASSUME Locking, NEW t \in Threads, open_lock_entry(t)
  PROVE  /\ UNCHANGED <<open, call>> /\ pc[t] = "open_entry" /\ pc'[t] \in {"file_lock", "load"}
         /\ \A a \in Arrays : HasArray(t, a)' => HasArray(t, a) \/ ReadEntry(ContextOf[t], a).filelock
<1>1. /\ TypeOK /\ pc[t] = "open_entry" /\ UNCHANGED <<open, call>>
  BY DEF Locking, Settled, Held, open_lock_entry
<1>2. pc'[t] \in {"file_lock", "load"}
  BY <1>1, GotoFacts DEF open_lock_entry, Labels
<1>3. ASSUME NEW a \in Arrays, HasArray(t, a)', ~HasArray(t, a)
      PROVE  ReadEntry(ContextOf[t], a).filelock
  <2>1. pc'[t] = "load" /\ call[t] = <<a, "read">>
    BY <1>1, <1>3 DEF HasArray
  <2>2. Mode(t) = "read" /\ Entry(t) = ReadEntry(ContextOf[t], a)
    BY SMT, <2>1 DEF Mode, Entry, ReadEntry
  <2>3. Entry(t).filelock
    BY <1>1, <2>1, <2>2, GotoFacts DEF open_lock_entry, Labels
  <2>4. QED
    BY <2>2, <2>3
<1>4. QED
  BY <1>1, <1>2, <1>3

LEMMA LoadLocking ==
  ASSUME Locking, NEW t \in Threads, open_load(t)
  PROVE  /\ pc[t] = "load" /\ pc'[t] = "idle"
         /\ \A a \in Arrays : HasArray(t, a)' <=> HasArray(t, a)
<1>1. TypeOK /\ pc[t] = "load"
  BY DEF Locking, Settled, Held, open_load
<1>2. pc'[t] = "idle" /\ open'[t] = open[t] \union {call[t]}
  BY <1>1, ReturnFacts DEF open_load, TypeOK
<1>3. QED
  BY <1>1, <1>2 DEF HasArray

LEMMA ThreadLocking ==
  ASSUME Locking, NoLeaks, NoMiscounts, OneContext, NEW t \in Threads, ThreadStep(t)
  PROVE  Locking'
<1>1. Guarantee(t) /\ Settled' /\ Counted'
  BY ThreadSteps, ThreadSettled, ThreadCounted DEF Locking, Settled, Kept
<1>2. CASE Plain(t)
  <2>1. \A a \in Arrays : HasArray(t, a)' => HasArray(t, a)
    BY <1>2 DEF Plain, HasArray
  <2>2. QED
    BY <1>1, <1>2, <2>1, QuietLocking DEF Plain, FilesAlone, Locking
<1>3. CASE open_lock_entry(t) /\ FilesAlone
  BY <1>1, <1>3, EntryLocking, QuietLocking DEF FilesAlone, Locking
<1>4. CASE open_load(t) /\ FilesAlone
  BY <1>1, <1>4, LoadLocking, QuietLocking DEF FilesAlone, Locking
<1>5. QED
  BY <1>1, <1>2, <1>3, <1>4, PlainSteps, ReaderLocking, VacuumerLocking, ReaderUnlocking,
     VacuumerUnlocking
  DEF Locking

-----------------------------------------------------------------------------
(* The invariant holds. *)

LEMMA ExitLocking ==
  ASSUME Locking, OneContext, NEW p \in Processes, process_exit(p)
  PROVE  Locking'
<1> DEFINE gone(c) == ProcessOf[c] = p
<1>1. Settled' /\ Counted'
  BY ExitSettled, ExitCounted DEF Locking
<1>2. /\ \A t \in Threads : ContextOf[t] \in Contexts /\ Proc(t) \in Processes
                            /\ Proc(t) = ProcessOf[ContextOf[t]]
      /\ \A t \in Threads : gone(ContextOf[t]) => pc'[t] = "idle" /\ open'[t] = {}
      /\ \A t \in Threads : ~gone(ContextOf[t]) =>
           pc'[t] = pc[t] /\ call'[t] = call[t] /\ open'[t] = open[t]
      /\ \A c \in Contexts : ~gone(c) => entry'[c] = entry[c]
      /\ \A c \in Contexts, h \in Handles : gone(c) => entry'[c][h] = NoEntry
      /\ \A c \in Contexts : ProcessOf[c] \in Processes
  BY OpenArraysAssumption DEF process_exit, Proc
<1>3. /\ \A q \in Processes \ {p} : kernel'[q] = kernel[q]
      /\ \A a \in Arrays : kernel'[p][a] = "none" /\ <<a, "read">> \in Handles
  BY DEF process_exit, Locking, Settled, Held, TypeOK, Handles, Modes
<1>4. ASSUME NEW c \in Contexts, NEW a \in Arrays, ReadEntry(c, a).filelock'
      PROVE  kernel'[ProcessOf[c]][a] = "shared"
  <2>1. ~gone(c)
    BY SMTT(20), <1>2, <1>3, <1>4 DEF ReadEntry, NoEntry
  <2>2. QED
    BY SMTT(20), <1>2, <1>3, <1>4, <2>1 DEF ReadEntry, Locking, KernelAgrees
<1>5. ASSUME NEW t \in Threads, pc'[t] = "vacuum" PROVE kernel'[Proc(t)][Uri(t)'] = "exclusive"
  BY SMTT(20), <1>2, <1>3, <1>5 DEF Uri, Locking, KernelAgrees
<1>6. ASSUME NEW q \in Processes, NEW r \in Processes, NEW a \in Arrays, q # r, kernel'[q][a] = "exclusive"
      PROVE  kernel'[r][a] = "none"
  <2>1. q # p /\ kernel[q][a] = "exclusive"
    BY <1>3, <1>6
  <2>2. CASE r = p
    BY <1>3, <2>2
  <2>3. CASE r # p
    <3>1. kernel'[r] = kernel[r]
      BY <1>3, <2>3
    <3>2. QED
      BY SMTT(20), <1>6, <2>1, <3>1 DEF Locking, KernelAgrees
  <2>4. QED
    BY <2>2, <2>3
<1>7. KernelAgrees'
  <2>1. \A u \in Threads : Proc(u)' = Proc(u)
    BY DEF Proc
  <2>2. QED
    BY SMTT(20), <1>4, <1>5, <1>6, <2>1 DEF KernelAgrees
<1>8. ASSUME NEW t \in Threads, NEW a \in Arrays, HasArray(t, a)'
      PROVE  ReadEntry(ContextOf[t], a).filelock'
  <2>1. ~gone(ContextOf[t]) /\ HasArray(t, a)
    BY <1>2, <1>8 DEF HasArray
  <2>2. QED
    BY <1>2, <2>1 DEF Locking, ReadersLocked, ReadEntry
<1>9. QED
  BY <1>1, <1>7, <1>8 DEF Locking, ReadersLocked

LEMMA InitLocking ==
  ASSUME Init, Sizes(Contexts), Sizes(Threads)
  PROVE  Locking
<1>1. Settled /\ Counted
  BY InitSettled, InitCounted
<1>2. KernelAgrees /\ ReadersLocked
  BY OpenArraysAssumption
  DEF Init, KernelAgrees, ReadersLocked, HasArray, ReadEntry, NoEntry, Handles, Modes
<1>3. QED
  BY <1>1, <1>2 DEF Locking

LEMMA StutterLocking ==
  ASSUME Locking, UNCHANGED vars
  PROVE  Locking'
<1>1. Settled' /\ Counted'
  BY StutterSettled, StutterCounted DEF Locking
<1>2. KernelAgrees' /\ ReadersLocked'
  BY SMT DEF vars, Locking, KernelAgrees, ReadersLocked, HasArray, ReadEntry, Proc, Uri
<1>3. QED
  BY <1>1, <1>2 DEF Locking
=============================================================================
