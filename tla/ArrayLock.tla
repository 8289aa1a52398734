------------------------------ MODULE ArrayLock ------------------------------
(***************************************************************************)
(* What opening an array for reads and vacuuming it promise each other: an *)
(* array is either open for reads, by any number of threads, or locked     *)
(* exclusively by one of them, and never both.  Module Fragments uses this *)
(* lock as it stands; OpenArrays shows how reference counts, mutexes and   *)
(* file locks implement it.                                                *)
(***************************************************************************)
CONSTANTS
  Threads,
  Arrays

VARIABLES
  shared,     \* shared[a]: the threads that have array a open for reads
  exclusive   \* exclusive[a]: the threads that have array a locked

Init ==
  /\ shared = [a \in Arrays |-> {}]
  /\ exclusive = [a \in Arrays |-> {}]

Share(t, a) ==
  /\ exclusive[a] = {}
  /\ shared' = [shared EXCEPT ![a] = @ \union {t}]
  /\ UNCHANGED exclusive

Exclude(t, a) ==
  /\ exclusive[a] = {}
  /\ shared[a] = {}
  /\ exclusive' = [exclusive EXCEPT ![a] = {t}]
  /\ UNCHANGED shared

\* One thread closes or unlocks one array, or a process ends and its threads
\* give up everything they have.
Release(ts, as) ==
  /\ shared' = [a \in Arrays |-> IF a \in as THEN shared[a] \ ts ELSE shared[a]]
  /\ exclusive' =
       [a \in Arrays |-> IF a \in as THEN exclusive[a] \ ts ELSE exclusive[a]]

Next ==
  \/ \E t \in Threads, a \in Arrays : Share(t, a) \/ Exclude(t, a)
  \/ \E ts \in SUBSET Threads, as \in SUBSET Arrays : Release(ts, as)

Spec == Init /\ [][Next]_<<shared, exclusive>>

==============================================================================
