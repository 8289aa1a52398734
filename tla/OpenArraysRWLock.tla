--------------------------- MODULE OpenArraysRWLock ---------------------------
(***************************************************************************)
(* The reader-writer lock that opening, closing and vacuuming arrays       *)
(* implement.                                                              *)
(***************************************************************************)
EXTENDS OpenArrays

\* The mutexes, counts and file locks implement the lock of module ArrayLock:
\* a thread has an array open for reads once its context has the file lock, and
\* locked while it vacuums.
RWLock == INSTANCE ArrayLock WITH
  shared <- [a \in Arrays |->
    {t \in Threads : \/ <<a, "read">> \in open[t]
                     \/ pc[t] = "load" /\ call[t] = <<a, "read">>}],
  exclusive <- [a \in Arrays |-> {t \in Threads : pc[t] = "vacuum" /\ Uri(t) = a}]

\* An array is never open for reads in one thread and locked by another, at any
\* step of any of the functions (the specification of module ArrayLock).
ImplementsLock == RWLock!Spec
===============================================================================
