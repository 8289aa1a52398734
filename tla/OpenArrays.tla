------------------------------ MODULE OpenArrays ------------------------------
(***************************************************************************)
(* Opening, reopening, closing and exclusively locking arrays.             *)
(*                                                                         *)
(* A context (StorageManager) keeps one OpenArray entry for every array    *)
(* that is open for reads and one for every array that is open for writes, *)
(* each with a reference count and a mutex.  Array::open takes the mutex   *)
(* of the map, the exclusive-lock mutex (reads only) and the mutex of the  *)
(* entry, and the first reader takes a shared file lock, which VFS counts  *)
(* per process.  Vacuuming takes the exclusive-lock mutex, waits until the *)
(* context has no entry for the array, and takes an exclusive file lock.   *)
(*                                                                         *)
(* Every step of a thread ends where it may block: pc[t] says which mutex, *)
(* condition variable or file lock thread t waits for.                     *)
(***************************************************************************)
EXTENDS Integers, FiniteSets

CONSTANTS
  Threads,
  Contexts,
  Processes,
  Arrays,
  ContextOf,   \* the context a thread calls
  ProcessOf,   \* the process of a context
  Readers,     \* the threads that open arrays for reads
  Writers,     \* the threads that open arrays for writes
  Vacuumers,   \* the threads that vacuum
  Faults,      \* what may fail
  MaxFaults,   \* bound on the failures of a behaviour
  NoThread,
  NoCall

Modes == {"read", "write"}

\* "key": the encryption key of an open differs; "filelock": the lock file
\* cannot be opened; "load": the schema or the metadata of the fragments
\* cannot be loaded; "reload": the same when reopening; "listing": the fragments
\* cannot be found out, because the array directory cannot be listed, a name in
\* it cannot be parsed or the consolidated fragment metadata cannot be read;
\* "fcntl": the system refuses the lock;
\* "store": the array metadata cannot be stored when closing for writes.
FaultKinds == {"key", "filelock", "load", "reload", "listing", "fcntl", "store"}

\* cnt_ is unsigned: it wraps below zero (1073741824, 2^30, stands for 2^64).
CntModulus == 1073741824

\* A program has fewer threads than cnt_ can count.
ASSUME OpenArraysAssumption ==
  /\ ContextOf \in [Threads -> Contexts]
  /\ ProcessOf \in [Contexts -> Processes]
  /\ Readers \subseteq Threads
  /\ Writers \subseteq Threads
  /\ Vacuumers \subseteq Threads
  /\ Faults \subseteq FaultKinds
  /\ MaxFaults \in Nat
  /\ NoThread \notin Threads
  /\ IsFiniteSet(Threads)
  /\ IsFiniteSet(Contexts)
  /\ Cardinality(Threads) < CntModulus

Handles == Arrays \X Modes

cnt_incr(n) == (n + 1) % CntModulus
\* A signed count, which does not wrap.
cnt_decr_signed(n) == n - 1

cnt_decr(n) == (n - 1) % CntModulus

VARIABLES
  pc,             \* where each thread is
  call,           \* what its current call is about
  open,           \* the Array objects of each thread that are open
  map_mtx,        \* open_array_for_reads_mtx_, open_array_for_writes_mtx_
  xlock_mtx,      \* xlock_mtx_
  entry,          \* open_arrays_for_reads_, open_arrays_for_writes_
  xfilelocks,     \* xfilelocks_
  filelock_mtx,   \* VFS's filelock_mtx_, one per process
  filelocks,      \* VFS's process_filelocks_: the counts
  kernel,         \* the lock that each process has on each lock file
  faults          \* how many failures have happened

vars == <<pc, call, open, map_mtx, xlock_mtx, entry, xfilelocks,
          filelock_mtx, filelocks, kernel, faults>>

fileVars == <<filelock_mtx, filelocks, kernel>>

NoEntry == [present |-> FALSE, cnt |-> 0, mtx |-> NoThread, filelock |-> FALSE]

Proc(t) == ProcessOf[ContextOf[t]]
Uri(t) == call[t][1]
Mode(t) == call[t][2]
Entry(t) == entry[ContextOf[t]][call[t]]

Init ==
  /\ pc = [t \in Threads |-> "idle"]
  /\ call = [t \in Threads |-> NoCall]
  /\ open = [t \in Threads |-> {}]
  /\ map_mtx = [c \in Contexts |-> [m \in Modes |-> NoThread]]
  /\ xlock_mtx = [c \in Contexts |-> NoThread]
  /\ entry = [c \in Contexts |-> [h \in Handles |-> NoEntry]]
  /\ xfilelocks = [c \in Contexts |-> {}]
  /\ filelock_mtx = [p \in Processes |-> NoThread]
  /\ filelocks = [p \in Processes |-> [a \in Arrays |-> 0]]
  /\ kernel = [p \in Processes |-> [a \in Arrays |-> "none"]]
  /\ faults = 0

-------------------------------------------------------------------------------
(* Control and the mutexes. *)

Goto(t, l) == pc' = [pc EXCEPT ![t] = l]

Return(t) ==
  /\ pc' = [pc EXCEPT ![t] = "idle"]
  /\ call' = [call EXCEPT ![t] = NoCall]

Lock(t, m) ==
  /\ map_mtx[ContextOf[t]][m] = NoThread
  /\ map_mtx' = [map_mtx EXCEPT ![ContextOf[t]][m] = t]

Unlock(t, m) == map_mtx' = [map_mtx EXCEPT ![ContextOf[t]][m] = NoThread]

LockX(t) ==
  /\ xlock_mtx[ContextOf[t]] = NoThread
  /\ xlock_mtx' = [xlock_mtx EXCEPT ![ContextOf[t]] = t]

UnlockX(t) == xlock_mtx' = [xlock_mtx EXCEPT ![ContextOf[t]] = NoThread]

Fail(kind) ==
  /\ kind \in Faults
  /\ faults < MaxFaults
  /\ faults' = faults + 1

SetEntry(t, e) == entry' = [entry EXCEPT ![ContextOf[t]][call[t]] = e]

-------------------------------------------------------------------------------
(* File locks (VFS::filelock_lock, filelock_unlock). *)

\* fcntl grants a lock that no lock of another process conflicts with.
Grants(p, a, kind) ==
  \A q \in Processes \ {p} :
    kernel[q][a] = "none" \/ (kind = "shared" /\ kernel[q][a] = "shared")

\* A lock that the process has is counted once more, whatever its kind;
\* otherwise filelock_mtx_ stays locked until fcntl returns.
filelock_counted(t) ==
  /\ filelock_mtx[Proc(t)] = NoThread
  /\ filelocks[Proc(t)][Uri(t)] > 0
  /\ filelocks' = [filelocks EXCEPT ![Proc(t)][Uri(t)] = @ + 1]
  /\ UNCHANGED <<filelock_mtx, kernel>>

filelock_wait(t) ==
  /\ filelock_mtx[Proc(t)] = NoThread
  /\ filelocks[Proc(t)][Uri(t)] = 0
  /\ filelock_mtx' = [filelock_mtx EXCEPT ![Proc(t)] = t]
  /\ UNCHANGED <<filelocks, kernel>>

filelock_granted(t, kind) ==
  /\ Grants(Proc(t), Uri(t), kind)
  /\ kernel' = [kernel EXCEPT ![Proc(t)][Uri(t)] = kind]
  /\ filelocks' = [filelocks EXCEPT ![Proc(t)][Uri(t)] = 1]
  /\ filelock_mtx' = [filelock_mtx EXCEPT ![Proc(t)] = NoThread]

filelock_refused(t) ==
  /\ filelock_mtx' = [filelock_mtx EXCEPT ![Proc(t)] = NoThread]
  /\ UNCHANGED <<filelocks, kernel>>

\* VFS::filelock_unlock and decr_lock_count: closing the file gives up the lock.
filelock_unlock(t) ==
  LET n == filelocks[Proc(t)][Uri(t)]
  IN  /\ filelock_mtx[Proc(t)] = NoThread
      /\ n > 0
      /\ filelocks' = [filelocks EXCEPT ![Proc(t)][Uri(t)] = n - 1]
      /\ kernel' = IF n = 1 THEN [kernel EXCEPT ![Proc(t)][Uri(t)] = "none"]
                            ELSE kernel
      /\ UNCHANGED filelock_mtx

\* decr_lock_count finds no counter.
filelock_missing(t) ==
  /\ filelock_mtx[Proc(t)] = NoThread
  /\ filelocks[Proc(t)][Uri(t)] = 0
  /\ UNCHANGED fileVars

-------------------------------------------------------------------------------
(* Opening an array (array_open_for_reads, array_open_for_writes). *)

array_open(t, h) ==
  /\ pc[t] = "idle"
  /\ h \notin open[t]
  /\ IF h[2] = "read" THEN t \in Readers ELSE t \in Writers
  /\ Goto(t, "open")
  /\ call' = [call EXCEPT ![t] = h]
  /\ UNCHANGED <<open, map_mtx, xlock_mtx, entry, xfilelocks, fileVars, faults>>

\* Find the entry or create one.
FindOrCreate(t) == SetEntry(t, [Entry(t) EXCEPT !.present = TRUE])

open_lock_reads(t) ==
  /\ pc[t] = "open" /\ Mode(t) = "read"
  /\ Lock(t, "read")
  /\ Goto(t, "open_xlock")
  /\ UNCHANGED <<call, open, xlock_mtx, entry, xfilelocks, fileVars, faults>>

\* Opens without taking the exclusive-lock mutex.
open_lock_xlock_skipped(t) ==
  /\ pc[t] = "open_xlock"
  /\ FindOrCreate(t)
  /\ Goto(t, "open_entry")
  /\ UNCHANGED <<call, open, map_mtx, xlock_mtx, xfilelocks, fileVars, faults>>

open_lock_xlock(t) ==
  /\ pc[t] = "open_xlock"
  /\ LockX(t)
  /\ FindOrCreate(t)
  /\ Goto(t, "open_entry")
  /\ UNCHANGED <<call, open, map_mtx, xfilelocks, fileVars, faults>>

open_lock_writes(t) ==
  /\ pc[t] = "open" /\ Mode(t) = "write"
  /\ Lock(t, "write")
  /\ FindOrCreate(t)
  /\ Goto(t, "open_entry")
  /\ UNCHANGED <<call, open, xlock_mtx, xfilelocks, fileVars, faults>>

\* The key of the entry is another one: the mutexes are given back.
open_key_differs(t) ==
  /\ Fail("key")
  /\ \/ /\ pc[t] = "open_xlock"
        /\ xlock_mtx[ContextOf[t]] = NoThread
        /\ Unlock(t, "read")
     \/ /\ pc[t] = "open" /\ Mode(t) = "write"
        /\ map_mtx[ContextOf[t]]["write"] = NoThread
        /\ UNCHANGED map_mtx
  /\ Entry(t).present
  /\ Return(t)
  /\ UNCHANGED <<open, xlock_mtx, entry, xfilelocks, fileVars>>

\* Lock the entry, count the reference, and release the mutexes of the map.
open_lock_entry(t) ==
  /\ pc[t] = "open_entry"
  /\ Entry(t).mtx = NoThread
  /\ SetEntry(t, [Entry(t) EXCEPT !.cnt = cnt_incr(@), !.mtx = t])
  /\ Unlock(t, Mode(t))
  /\ IF Mode(t) = "read" THEN UnlockX(t) ELSE UNCHANGED xlock_mtx
  /\ Goto(t, IF Mode(t) = "read" /\ ~Entry(t).filelock THEN "file_lock" ELSE "load")
  /\ UNCHANGED <<call, open, xfilelocks, fileVars, faults>>

open_file_lock(t) ==
  /\ pc[t] = "file_lock"
  /\ \/ /\ filelock_counted(t)
        /\ SetEntry(t, [Entry(t) EXCEPT !.filelock = TRUE])
        /\ Goto(t, "load")
     \/ /\ filelock_wait(t)
        /\ Goto(t, "fcntl")
        /\ UNCHANGED entry
  /\ UNCHANGED <<call, open, map_mtx, xlock_mtx, xfilelocks, faults>>

open_fcntl(t) ==
  /\ pc[t] = "fcntl"
  /\ filelock_granted(t, "shared")
  /\ SetEntry(t, [Entry(t) EXCEPT !.filelock = TRUE])
  /\ Goto(t, "load")
  /\ UNCHANGED <<call, open, map_mtx, xlock_mtx, xfilelocks, faults>>

\* The lock file cannot be opened, or fcntl fails: then the descriptor stays in
\* the entry as if the lock had been granted.
open_file_lock_fails(t) ==
  /\ \/ /\ pc[t] = "file_lock"
        /\ Fail("filelock")
        /\ filelock_mtx[Proc(t)] = NoThread
        /\ filelocks[Proc(t)][Uri(t)] = 0
        /\ UNCHANGED fileVars
        /\ SetEntry(t, [Entry(t) EXCEPT !.mtx = NoThread])
     \/ /\ pc[t] = "fcntl"
        /\ Fail("fcntl")
        /\ filelock_refused(t)
        /\ SetEntry(t, [Entry(t) EXCEPT !.mtx = NoThread, !.filelock = TRUE])
  /\ Goto(t, "undo")
  /\ UNCHANGED <<call, open, map_mtx, xlock_mtx, xfilelocks>>

\* Load the schema and, for reads, the metadata of the fragments.
open_load(t) ==
  /\ pc[t] = "load"
  /\ SetEntry(t, [Entry(t) EXCEPT !.mtx = NoThread])
  /\ open' = [open EXCEPT ![t] = @ \union {call[t]}]
  /\ Return(t)
  /\ UNCHANGED <<map_mtx, xlock_mtx, xfilelocks, fileVars, faults>>

\* The error is returned and the array is not closed.
open_load_fails_returns(t) ==
  /\ pc[t] = "load"
  /\ Fail("load")
  /\ SetEntry(t, [Entry(t) EXCEPT !.mtx = NoThread])
  /\ Return(t)
  /\ UNCHANGED <<open, map_mtx, xlock_mtx, xfilelocks, fileVars>>

\* The array is closed before the mutex of its entry is unlocked.
open_load_fails_locked(t) ==
  /\ pc[t] = "load"
  /\ Fail("load")
  /\ Goto(t, "undo")
  /\ UNCHANGED <<call, open, map_mtx, xlock_mtx, entry, xfilelocks, fileVars>>

open_load_fails(t) ==
  /\ pc[t] = "load"
  /\ Fail("load")
  /\ SetEntry(t, [Entry(t) EXCEPT !.mtx = NoThread])
  /\ Goto(t, "undo")
  /\ UNCHANGED <<call, open, map_mtx, xlock_mtx, xfilelocks, fileVars>>

\* get_fragment_uris, get_sorted_uris or load_consolidated_fragment_meta fails:
\* the function returns, and neither unlocks the entry nor gives the reference
\* back.
listing_fails(t) ==
  /\ pc[t] = "reopen_load" \/ (pc[t] = "load" /\ Mode(t) = "read")
  /\ Fail("listing")
  /\ Return(t)
  /\ UNCHANGED <<open, map_mtx, xlock_mtx, entry, xfilelocks, fileVars>>

-------------------------------------------------------------------------------
(* Closing an array (Array::close, array_close_for_reads and _for_writes). *)

array_close(t, h) ==
  /\ pc[t] = "idle"
  /\ h \in open[t]
  /\ open' = [open EXCEPT ![t] = @ \ {h}]
  /\ call' = [call EXCEPT ![t] = h]
  /\ Goto(t, "close")
  /\ UNCHANGED <<map_mtx, xlock_mtx, entry, xfilelocks, fileVars, faults>>

\* "undo" is the same call, made when opening or reopening has failed.
close_lock_map(t) ==
  /\ pc[t] \in {"close", "undo"}
  /\ \/ /\ Entry(t).present
        /\ Lock(t, Mode(t))
        /\ Goto(t, "close_entry")
        /\ UNCHANGED call
     \/ /\ ~Entry(t).present
        /\ map_mtx[ContextOf[t]][Mode(t)] = NoThread
        /\ Return(t)
        /\ UNCHANGED map_mtx
  /\ UNCHANGED <<open, xlock_mtx, entry, xfilelocks, fileVars, faults>>

\* The array metadata cannot be stored: the reference is not given back.
close_store_fails(t) ==
  /\ pc[t] = "close" /\ Mode(t) = "write"
  /\ Entry(t).present
  /\ map_mtx[ContextOf[t]]["write"] = NoThread
  /\ Fail("store")
  /\ Return(t)
  /\ UNCHANGED <<open, map_mtx, xlock_mtx, entry, xfilelocks, fileVars>>

\* Return, and wake the threads of the context that wait in array_xlock.
ReturnNotify(t) ==
  /\ pc' = [u \in Threads |->
              IF u = t THEN "idle"
              ELSE IF pc[u] = "xlock_wait" /\ ContextOf[u] = ContextOf[t]
                   THEN "xlock_reads" ELSE pc[u]]
  /\ call' = [call EXCEPT ![t] = NoCall]

\* Closes without waiting for the mutex of the entry.
close_lock_entry_no_wait(t) ==
  LET n == cnt_decr(Entry(t).cnt)
  IN  /\ pc[t] = "close_entry"
      /\ \/ /\ n = 0 /\ Entry(t).filelock
            /\ SetEntry(t, [Entry(t) EXCEPT !.cnt = 0, !.mtx = t])
            /\ Goto(t, "file_unlock")
            /\ UNCHANGED <<call, map_mtx>>
         \/ /\ n # 0 \/ ~Entry(t).filelock
            /\ SetEntry(t, IF n = 0 THEN NoEntry ELSE [Entry(t) EXCEPT !.cnt = n])
            /\ Unlock(t, Mode(t))
            /\ IF Mode(t) = "read" THEN ReturnNotify(t) ELSE Return(t)
      /\ UNCHANGED <<open, xlock_mtx, xfilelocks, fileVars, faults>>

close_lock_entry(t) ==
  LET n == cnt_decr(Entry(t).cnt)
  IN  /\ pc[t] = "close_entry"
      /\ Entry(t).mtx = NoThread
      /\ \/ /\ n = 0 /\ Entry(t).filelock
            /\ SetEntry(t, [Entry(t) EXCEPT !.cnt = 0, !.mtx = t])
            /\ Goto(t, "file_unlock")
            /\ UNCHANGED <<call, map_mtx>>
         \/ /\ n # 0 \/ ~Entry(t).filelock
            /\ SetEntry(t, IF n = 0 THEN NoEntry ELSE [Entry(t) EXCEPT !.cnt = n])
            /\ Unlock(t, Mode(t))
            /\ IF Mode(t) = "read" THEN ReturnNotify(t) ELSE Return(t)
      /\ UNCHANGED <<open, xlock_mtx, xfilelocks, fileVars, faults>>

close_file_unlock(t) ==
  /\ pc[t] = "file_unlock"
  /\ \/ /\ filelock_unlock(t)
        /\ SetEntry(t, NoEntry)
        /\ ReturnNotify(t)
     \/ /\ filelock_missing(t)
        /\ SetEntry(t, [Entry(t) EXCEPT !.mtx = NoThread])
        /\ Return(t)
  /\ Unlock(t, "read")
  /\ UNCHANGED <<open, xlock_mtx, xfilelocks, faults>>

-------------------------------------------------------------------------------
(* Reopening (Array::reopen, array_reopen). *)

array_reopen(t, h) ==
  /\ pc[t] = "idle"
  /\ h \in open[t] /\ h[2] = "read"
  /\ call' = [call EXCEPT ![t] = h]
  /\ Goto(t, "reopen")
  /\ UNCHANGED <<open, map_mtx, xlock_mtx, entry, xfilelocks, fileVars, faults>>

reopen_lock_map(t) ==
  /\ pc[t] = "reopen"
  /\ \/ /\ Entry(t).present
        /\ Lock(t, "read")
        /\ Goto(t, "reopen_entry")
        /\ UNCHANGED call
     \/ /\ ~Entry(t).present
        /\ map_mtx[ContextOf[t]]["read"] = NoThread
        /\ Return(t)
        /\ UNCHANGED map_mtx
  /\ UNCHANGED <<open, xlock_mtx, entry, xfilelocks, fileVars, faults>>

reopen_lock_entry(t) ==
  /\ pc[t] = "reopen_entry"
  /\ Entry(t).mtx = NoThread
  /\ SetEntry(t, [Entry(t) EXCEPT !.mtx = t])
  /\ Unlock(t, "read")
  /\ Goto(t, "reopen_load")
  /\ UNCHANGED <<call, open, xlock_mtx, xfilelocks, fileVars, faults>>

reopen_load(t) ==
  /\ pc[t] = "reopen_load"
  /\ SetEntry(t, [Entry(t) EXCEPT !.mtx = NoThread])
  /\ Return(t)
  /\ UNCHANGED <<open, map_mtx, xlock_mtx, xfilelocks, fileVars, faults>>

\* The array is closed in the storage manager; the Array object stays open.
reopen_load_fails(t) ==
  /\ pc[t] = "reopen_load"
  /\ Fail("reload")
  /\ SetEntry(t, [Entry(t) EXCEPT !.mtx = NoThread])
  /\ Goto(t, "undo")
  /\ UNCHANGED <<call, open, map_mtx, xlock_mtx, xfilelocks, fileVars>>

-------------------------------------------------------------------------------
(* Vacuuming (array_vacuum_*, array_xlock, array_xunlock). *)

\* A thread does not vacuum an array that it has itself open for reads.
array_vacuum(t, a) ==
  /\ pc[t] = "idle"
  /\ t \in Vacuumers
  /\ <<a, "read">> \notin open[t]
  /\ call' = [call EXCEPT ![t] = <<a, "read">>]
  /\ Goto(t, "xlock")
  /\ UNCHANGED <<open, map_mtx, xlock_mtx, entry, xfilelocks, fileVars, faults>>

xlock_lock_xlock(t) ==
  /\ pc[t] = "xlock"
  /\ LockX(t)
  /\ Goto(t, "xlock_reads")
  /\ UNCHANGED <<call, open, map_mtx, entry, xfilelocks, fileVars, faults>>

\* Wait until the array is closed for reads.
xlock_lock_reads(t) ==
  /\ pc[t] = "xlock_reads"
  /\ \/ /\ ~Entry(t).present
        /\ Lock(t, "read")
        /\ Goto(t, "xlock_file")
     \/ /\ Entry(t).present
        /\ map_mtx[ContextOf[t]]["read"] = NoThread
        /\ Goto(t, "xlock_wait")
        /\ UNCHANGED map_mtx
  /\ UNCHANGED <<call, open, xlock_mtx, entry, xfilelocks, fileVars, faults>>

XLocked(t) ==
  /\ xfilelocks' = [xfilelocks EXCEPT ![ContextOf[t]] = @ \union {Uri(t)}]
  /\ Unlock(t, "read")
  /\ Goto(t, "vacuum")

xlock_file_lock(t) ==
  /\ pc[t] = "xlock_file"
  /\ \/ filelock_counted(t) /\ XLocked(t)
     \/ /\ filelock_wait(t)
        /\ Goto(t, "xlock_fcntl")
        /\ UNCHANGED <<map_mtx, xfilelocks>>
  /\ UNCHANGED <<call, open, xlock_mtx, entry, faults>>

\* Asks for a shared lock.
xlock_fcntl_shared(t) ==
  /\ pc[t] = "xlock_fcntl"
  /\ filelock_granted(t, "shared")
  /\ XLocked(t)
  /\ UNCHANGED <<call, open, xlock_mtx, entry, faults>>

xlock_fcntl(t) ==
  /\ pc[t] = "xlock_fcntl"
  /\ filelock_granted(t, "exclusive")
  /\ XLocked(t)
  /\ UNCHANGED <<call, open, xlock_mtx, entry, faults>>

\* Returns the error and keeps the exclusive-lock mutex.
xlock_fails_locked(t) ==
  /\ \/ /\ pc[t] = "xlock_file"
        /\ Fail("filelock")
        /\ filelock_mtx[Proc(t)] = NoThread
        /\ filelocks[Proc(t)][Uri(t)] = 0
        /\ UNCHANGED fileVars
     \/ /\ pc[t] = "xlock_fcntl"
        /\ Fail("fcntl")
        /\ filelock_refused(t)
  /\ Unlock(t, "read")
  /\ Return(t)
  /\ UNCHANGED <<open, xlock_mtx, entry, xfilelocks>>

xlock_fails(t) ==
  /\ \/ /\ pc[t] = "xlock_file"
        /\ Fail("filelock")
        /\ filelock_mtx[Proc(t)] = NoThread
        /\ filelocks[Proc(t)][Uri(t)] = 0
        /\ UNCHANGED fileVars
     \/ /\ pc[t] = "xlock_fcntl"
        /\ Fail("fcntl")
        /\ filelock_refused(t)
  /\ UnlockX(t)
  /\ Unlock(t, "read")
  /\ Return(t)
  /\ UNCHANGED <<open, entry, xfilelocks>>

\* The files have been deleted (module Fragments).  When VFS has no lock to
\* give up, the function returns and leaves the mutex locked.
array_xunlock(t) ==
  /\ pc[t] = "vacuum"
  /\ \/ /\ filelock_unlock(t)
        /\ xfilelocks' = [xfilelocks EXCEPT ![ContextOf[t]] = @ \ {Uri(t)}]
        /\ UnlockX(t)
     \/ filelock_missing(t) /\ UNCHANGED <<xfilelocks, xlock_mtx>>
  /\ Return(t)
  /\ UNCHANGED <<open, map_mtx, entry, faults>>

-------------------------------------------------------------------------------
\* A process ends: its memory is gone and the system drops its file locks.
process_exit(p) ==
  LET cs == {c \in Contexts : ProcessOf[c] = p}
      ts == {t \in Threads : ContextOf[t] \in cs}
  IN  /\ pc' = [t \in Threads |-> IF t \in ts THEN "idle" ELSE pc[t]]
      /\ call' = [t \in Threads |-> IF t \in ts THEN NoCall ELSE call[t]]
      /\ open' = [t \in Threads |-> IF t \in ts THEN {} ELSE open[t]]
      /\ map_mtx' = [c \in Contexts |->
           IF c \in cs THEN [m \in Modes |-> NoThread] ELSE map_mtx[c]]
      /\ xlock_mtx' = [c \in Contexts |-> IF c \in cs THEN NoThread ELSE xlock_mtx[c]]
      /\ entry' = [c \in Contexts |->
           IF c \in cs THEN [h \in Handles |-> NoEntry] ELSE entry[c]]
      /\ xfilelocks' = [c \in Contexts |-> IF c \in cs THEN {} ELSE xfilelocks[c]]
      /\ filelock_mtx' = [filelock_mtx EXCEPT ![p] = NoThread]
      /\ filelocks' = [filelocks EXCEPT ![p] = [a \in Arrays |-> 0]]
      /\ kernel' = [kernel EXCEPT ![p] = [a \in Arrays |-> "none"]]
      /\ UNCHANGED faults

ThreadStep(t) ==
  \/ \E h \in Handles : array_open(t, h) \/ array_close(t, h) \/ array_reopen(t, h)
  \/ \E a \in Arrays : array_vacuum(t, a)
  \/ open_lock_reads(t) \/ open_lock_xlock(t) \/ open_lock_writes(t)
  \/ open_key_differs(t) \/ open_lock_entry(t) \/ open_file_lock(t)
  \/ open_fcntl(t) \/ open_file_lock_fails(t) \/ open_load(t)
  \/ open_load_fails(t) \/ listing_fails(t)
  \/ close_lock_map(t) \/ close_store_fails(t) \/ close_lock_entry(t)
  \/ close_file_unlock(t)
  \/ reopen_lock_map(t) \/ reopen_lock_entry(t) \/ reopen_load(t)
  \/ reopen_load_fails(t)
  \/ xlock_lock_xlock(t) \/ xlock_lock_reads(t) \/ xlock_file_lock(t)
  \/ xlock_fcntl(t) \/ xlock_fails(t) \/ array_xunlock(t)

Next ==
  \/ \E t \in Threads : ThreadStep(t)
  \/ \E p \in Processes : process_exit(p)

Spec == Init /\ [][Next]_vars


-------------------------------------------------------------------------------
(* Properties. *)

Labels ==
  {"idle", "open", "open_xlock", "open_entry", "file_lock", "fcntl", "load",
   "undo", "close", "close_entry", "file_unlock", "reopen", "reopen_entry",
   "reopen_load", "xlock", "xlock_reads", "xlock_wait", "xlock_file",
   "xlock_fcntl", "vacuum"}

\* The type of the state: every mutex has at most one owner, a thread with a
\* call has an array and a mode, and counts are unsigned.
TypeOK ==
  /\ pc \in [Threads -> Labels]
  /\ call \in [Threads -> Handles \union {NoCall}]
  /\ \A t \in Threads : pc[t] # "idle" => call[t] \in Handles
  /\ open \in [Threads -> SUBSET Handles]
  /\ map_mtx \in [Contexts -> [Modes -> Threads \union {NoThread}]]
  /\ xlock_mtx \in [Contexts -> Threads \union {NoThread}]
  /\ entry \in [Contexts -> [Handles ->
       [present : BOOLEAN, cnt : 0 .. CntModulus - 1,
        mtx : Threads \union {NoThread}, filelock : BOOLEAN]]]
  /\ xfilelocks \in [Contexts -> SUBSET Arrays]
  /\ filelock_mtx \in [Processes -> Threads \union {NoThread}]
  /\ filelocks \in [Processes -> [Arrays -> Nat]]
  /\ kernel \in [Processes -> [Arrays -> {"none", "shared", "exclusive"}]]
  /\ faults \in 0 .. MaxFaults

\* The threads of context c whose references the entry of h counts: their
\* Array object is open, or they are between counting and giving back.
References(c, h) ==
  {t \in Threads :
     /\ ContextOf[t] = c
     /\ \/ h \in open[t]
        \/ /\ call[t] = h
           /\ pc[t] \in {"file_lock", "fcntl", "load", "undo", "close", "close_entry"}}

\* The reference count of OpenArray is exact: the entry of an array counts the
\* Array objects that use its schema and fragment metadata, no more (it would
\* never be freed, and vacuuming would wait for ever) and no less (it would be
\* freed while a query uses it), also when file locks, loading schemas and
\* fragments or a reopen's closing fail.  It is stated for calls that fail in no
\* other way: the code gives no reference back when the fragments of an array
\* cannot be found out (listing_fails), and gives one back twice after a reopen
\* that failed.
RefcountExact ==
  \A c \in Contexts, h \in Handles :
    /\ entry[c][h].cnt = Cardinality(References(c, h))
    /\ References(c, h) # {} => entry[c][h].present

\* A thread that waits for the mutex of an OpenArray still finds it there, and
\* one that works with the OpenArray owns its mutex, so that nobody deletes the
\* object under it, even when references have been given back twice or never.
PointersLive ==
  \A t \in Threads :
    /\ pc[t] \in {"open_entry", "close_entry", "reopen_entry"} =>
         /\ Entry(t).present
         /\ map_mtx[ContextOf[t]][Mode(t)] = t
    /\ pc[t] \in {"file_lock", "fcntl", "load", "reopen_load", "file_unlock"} =>
         /\ Entry(t).present
         /\ Entry(t).mtx = t

\* While a context has an array locked exclusively it has no OpenArray entry
\* for it: threads that open it wait for the lock, and array_xlock has waited
\* for those that had it open, whatever fails.
EntryExcluded ==
  \A t \in Threads : pc[t] = "vacuum" => ~Entry(t).present

\* array_xlock: while an array is locked exclusively, no thread of any context
\* of any process has it open for reads.
ExclusiveMeansClosed ==
  \A t, u \in Threads : pc[t] = "vacuum" => <<Uri(t), "read">> \notin open[u]

\* A call that has returned holds no mutex, so that the next caller is not
\* blocked by an error path of open, close, reopen or vacuum that forgot to
\* unlock, but for two that the code does forget, whatever fails: the mutex of an
\* array open for reads, where open or reopen cannot find out the fragments
\* (listing_fails), and xlock_mtx_, where array_xunlock finds no file lock to give
\* back; the array then stays among xfilelocks_.
IdleHoldsNothing ==
  \A t \in Threads : pc[t] = "idle" =>
    \A c \in Contexts :
      /\ xlock_mtx[c] = t => xfilelocks[c] # {}
      /\ \A m \in Modes : map_mtx[c][m] # t
      /\ \A h \in Handles : entry[c][h].mtx = t => h[2] = "read" /\ "listing" \in Faults
      /\ filelock_mtx[ProcessOf[c]] # t

\* The threads that hold what the file lock of thread t conflicts with.
LockHolders(t, kinds) ==
  {u \in Threads :
     /\ Proc(u) # Proc(t)
     /\ kernel[Proc(u)][Uri(t)] \in kinds
     /\ \/ u \in References(ContextOf[u], <<Uri(t), "read">>)
        \/ pc[u] \in {"vacuum", "file_unlock"} /\ Uri(u) = Uri(t)}

\* The threads without which thread t cannot go on.
WaitsFor(t) ==
  LET c == ContextOf[t]
  IN  CASE pc[t] \in {"open", "close", "undo", "reopen"} -> {map_mtx[c][Mode(t)]}
        [] pc[t] = "xlock_reads" -> {map_mtx[c]["read"]}
        [] pc[t] \in {"open_xlock", "xlock"} -> {xlock_mtx[c]}
        [] pc[t] \in {"open_entry", "close_entry", "reopen_entry"} -> {Entry(t).mtx}
        [] pc[t] \in {"file_lock", "file_unlock", "xlock_file", "vacuum"} ->
             {filelock_mtx[Proc(t)]}
        [] pc[t] = "fcntl" -> LockHolders(t, {"exclusive"})
        [] pc[t] = "xlock_fcntl" -> LockHolders(t, {"shared", "exclusive"})
        [] pc[t] = "xlock_wait" -> References(c, call[t])
        [] OTHER -> {}

\* A set of threads each of which waits for another of them.
Circle(ts) == ts # {} /\ \A t \in ts : WaitsFor(t) \intersect ts # {}

\* Opening and vacuuming an array may be called from any threads: they never wait
\* for each other in a circle.  (They do when they share a context, see below.)
NoCircularWait == \A ts \in SUBSET Threads : ~Circle(ts)

\* The two mutexes that are locked in opposite order, by an open for reads
\* (open_array_for_reads_mtx_, then xlock_mtx_) and by array_xlock (the other way
\* round), are the only way into a circle of threads that wait for each other:
\* every circle has a thread in array_xlock and one of its own context that has
\* locked the map and waits for xlock_mtx_.  No call waits for itself, or, through
\* fcntl, for other contexts and processes that wait for it.  (A mutex that is
\* forgotten, see IdleHoldsNothing, is waited for by its own thread too: this is
\* about calls that fail without that.)
OnlyInversionDeadlocks ==
  \A ts \in SUBSET Threads : Circle(ts) =>
    \E t, u \in ts :
      /\ ContextOf[t] = ContextOf[u]
      /\ pc[t] = "open_xlock"
      /\ pc[u] \in {"xlock_reads", "xlock_wait"}
==============================================================================
