------------------------- MODULE AsyncQueriesProofs -------------------------
(***************************************************************************)
(* The counters of the asynchronous queries, who processes a query, and    *)
(* what the destructor of the storage manager finds, for any number of     *)
(* clients, workers and queries.                                           *)
(***************************************************************************)
EXTENDS AsyncQueries, FiniteSetTheorems, TLAPS

\* Zenon proves the first-order steps; a step that needs more names SMT.
USE Zenon

\* The workers whose task has its query still to process or to cancel, and the
\* clients that process a query themselves.
Active == {w \in Workers : worker[w].pc \in {"task", "run", "process", "cancel"}}
Direct == {c \in Clients : client[c].pc = "process"}

\* Who has called in_progress_'s increment and not yet its decrement.
WorkersIn == {w \in Workers : worker[w].pc \in {"process", "processed"}}
ClientsIn == {c \in Clients : client[c].pc \in {"process", "processed"}}

\* The labels of a client inside cancel_all_tasks, and after it in the destructor.
Cancelling == {"cancel", "check_tasks", "await_tasks", "check_queries",
               "await_queries", "reset"}
Terminating == {"terminate", "join", "destroyed"}

\* Whoever has a task or a query at hand has a query.
HasQuery ==
  /\ \A w \in Busy : worker[w].query \in Queries
  /\ \A c \in ClientsIn : client[c].query \in Queries

\* A query has one task, or one client that processes it, and is in progress
\* exactly as long.
Owned ==
  /\ \A i \in 1 .. Len(task_queue) :
       /\ status[task_queue[i]] = "INPROGRESS"
       /\ \A j \in 1 .. Len(task_queue) : task_queue[i] = task_queue[j] => i = j
  /\ \A w \in Active :
       /\ status[worker[w].query] = "INPROGRESS"
       /\ \A i \in 1 .. Len(task_queue) : task_queue[i] # worker[w].query
       /\ \A v \in Active : worker[v].query = worker[w].query => v = w
  /\ \A c \in Direct :
       /\ status[client[c].query] = "INPROGRESS"
       /\ \A i \in 1 .. Len(task_queue) : task_queue[i] # client[c].query
       /\ \A w \in Active : worker[w].query # client[c].query
       /\ \A d \in Direct : client[d].query = client[c].query => d = c

Accounted ==
  \A q \in Queries : status[q] = "INPROGRESS" =>
    \/ \E i \in 1 .. Len(task_queue) : task_queue[i] = q
    \/ \E w \in Active : worker[w].query = q
    \/ \E c \in Direct : client[c].query = q

\* queries_in_progress_ counts those that are between the two updates of it.
InProgressExact == in_progress = Cardinality(WorkersIn) + Cardinality(ClientsIn)

\* cancellation_in_progress_ is set while somebody cancels; nobody submits once
\* the destructor runs; and it waits for the tasks before it goes on.
Closing ==
  /\ cancellation => \E c \in Clients : client[c].pc \in Cancelling
  /\ closing => \A c \in Clients : client[c].pc \notin {"enqueued", "process", "processed"}
  /\ \A c \in Clients : client[c].pc \in Terminating => closing
  /\ closing /\ (\E c \in Clients : client[c].pc \in
                   {"check_queries", "await_queries", "reset"} \union Terminating)
       => task_queue = <<>> /\ Busy = {}

Types == TypeOK /\ HasQuery

Inv ==
  Types /\ Owned /\ Accounted /\ OutstandingExact /\ InProgressExact /\ Closing

-----------------------------------------------------------------------------
(* Types. *)

\* The sets that workers and clients are functions into.
WorkerLabels == WorkerBusy \union {"loop", "asleep", "exited"}
WorkerState == [pc : WorkerLabels, query : Queries \union {NoQuery}]
ClientState == [pc : ClientLabels, query : Queries \union {NoQuery}]

-----------------------------------------------------------------------------
(* Counting. *)

LEMMA ModulusType == Modulus \in Nat \ {0}
  BY SMT DEF Modulus

\* A count that wraps keeps up with the difference that it stands for.
LEMMA ModFacts ==
  ASSUME NEW y \in Int
  PROVE  /\ y % Modulus \in 0 .. Modulus - 1
         /\ ((y % Modulus) + 1) % Modulus = (y + 1) % Modulus
         /\ ((y % Modulus) - 1) % Modulus = (y - 1) % Modulus
         /\ 0 <= y /\ y < Modulus => y % Modulus = y
<1>1. y % Modulus \in 0 .. Modulus - 1
  BY ModulusType, Z3
<1>2. ((y % Modulus) + 1) % Modulus = (y + 1) % Modulus
  BY Z3 DEF Modulus
<1>3. ((y % Modulus) - 1) % Modulus = (y - 1) % Modulus
  BY Z3 DEF Modulus
<1>4. ASSUME 0 <= y, y < Modulus
      PROVE  y % Modulus = y
  BY <1>4, Z3 DEF Modulus
<1>5. QED
  BY <1>1, <1>2, <1>3, <1>4

\* The sets that are counted are finite, before and after a step.
LEMMA FiniteParts ==
  ASSUME NEW S, S \subseteq Workers \/ S \subseteq Clients
  PROVE  IsFiniteSet(S) /\ Cardinality(S) \in Nat
  BY AsyncAssumption, FS_Subset, FS_CardinalityType

LEMMA Subsets ==
  /\ Busy \subseteq Workers /\ WorkersIn \subseteq Workers /\ Active \subseteq Busy
  /\ Uncounted \subseteq Clients /\ ClientsIn \subseteq Clients /\ Direct \subseteq ClientsIn
  BY DEF Busy, WorkersIn, Active, Uncounted, ClientsIn, Direct, WorkerBusy

\* One more and one less.
LEMMA CountFacts ==
  ASSUME NEW S, NEW x, S \subseteq Workers \/ S \subseteq Clients
  PROVE  /\ x \notin S => Cardinality(S \union {x}) = Cardinality(S) + 1
         /\ x \in S => Cardinality(S \ {x}) = Cardinality(S) - 1
  BY FiniteParts, FS_AddElement, FS_RemoveElement

\* Every query in the queue is there once, so the queue is no longer than there
\* are queries: the number of tasks fits the counter.
LEMMA TasksFit ==
  ASSUME Types, Owned
  PROVE  Len(task_queue) + Cardinality(Busy) < Modulus
<1>1. task_queue \in Seq(Queries)
  BY DEF Types, TypeOK
<1>2. task_queue \in Injection(1 .. Len(task_queue), Queries)
  BY SMT, <1>1 DEF Owned, Injection, IsInjective
<1>3. Cardinality(1 .. Len(task_queue)) <= Cardinality(Queries)
  BY <1>2, FS_Injection, AsyncAssumption
<1>4. Len(task_queue) \in Nat
  BY SMT, <1>1
<1>5. Cardinality(1 .. Len(task_queue)) = Len(task_queue)
  <2>1. ASSUME NEW n \in Nat
        PROVE  Cardinality(1 .. n) = n
    <3>1. Cardinality(1 .. n) = IF 1 > n THEN 0 ELSE n - 1 + 1
      BY SMT, FS_Interval
    <3>2. QED
      BY SMT, <3>1
  <2>2. QED
    BY <1>4, <2>1
<1>6. Cardinality(Busy) <= Cardinality(Workers) /\ Cardinality(Busy) \in Nat
  BY Subsets, AsyncAssumption, FS_Subset, FiniteParts
<1>7. Cardinality(Queries) \in Nat /\ Cardinality(Workers) \in Nat
  BY AsyncAssumption, FS_CardinalityType
<1>8. QED
  BY SMT, <1>3, <1>4, <1>5, <1>6, <1>7, AsyncAssumption, ModulusType
-----------------------------------------------------------------------------
(* What a step leaves alone. *)

\* No client moves, but for those that are woken.
Woken ==
  /\ client' \in [Clients -> ClientState]
  /\ \A c \in Clients :
       /\ client'[c].query = client[c].query
       /\ \/ client'[c].pc = client[c].pc
          \/ client[c].pc = "await_tasks" /\ client'[c].pc = "check_tasks"
          \/ client[c].pc = "await_queries" /\ client'[c].pc = "check_queries"

LEMMA WokenUnchanged ==
  ASSUME Types, client' = client
  PROVE  Woken
  BY DEF Types, TypeOK, Woken, ClientState

LEMMA WokenNotified ==
  ASSUME Types,
         client' \in {client, Notified(client, "await_tasks", "check_tasks"),
                      Notified(client, "await_queries", "check_queries")}
  PROVE  Woken
<1>1. client \in [Clients -> [pc : ClientLabels, query : Queries \union {NoQuery}]]
  BY DEF Types, TypeOK
<1>2. "check_tasks" \in ClientLabels /\ "check_queries" \in ClientLabels
  BY DEF ClientLabels
<1>3. CASE client' = Notified(client, "await_tasks", "check_tasks")
  <2>1. /\ client' \in [Clients -> [pc : ClientLabels, query : Queries \union {NoQuery}]]
        /\ \A c \in Clients :
             /\ client'[c].pc = IF client[c].pc = "await_tasks" THEN "check_tasks" ELSE client[c].pc
             /\ client'[c].query = client[c].query
    BY <1>1, <1>2, <1>3 DEF Notified
  <2>2. QED
    BY <2>1 DEF Woken, ClientState
<1>4. CASE client' = Notified(client, "await_queries", "check_queries")
  <2>1. /\ client' \in [Clients -> [pc : ClientLabels, query : Queries \union {NoQuery}]]
        /\ \A c \in Clients :
             /\ client'[c].pc = IF client[c].pc = "await_queries" THEN "check_queries" ELSE client[c].pc
             /\ client'[c].query = client[c].query
    BY <1>1, <1>2, <1>4 DEF Notified
  <2>2. QED
    BY <2>1 DEF Woken, ClientState
<1>5. QED
  BY <1>3, <1>4, WokenUnchanged

LEMMA WokenSame ==
  ASSUME Woken
  PROVE  /\ Direct' = Direct /\ ClientsIn' = ClientsIn /\ Uncounted' = Uncounted
         /\ \A c \in Clients : client'[c].query = client[c].query
  BY DEF Woken, Direct, ClientsIn, Uncounted

\* The conditions on closing hold on when clients are only woken and no worker
\* starts a task that was not queued.
LEMMA WokenClosing ==
  ASSUME Closing, Woken, UNCHANGED <<cancellation, closing>>,
         task_queue = <<>> /\ Busy = {} => task_queue' = <<>> /\ Busy' = {}
  PROVE  Closing'
<1>1. cancellation' => \E c \in Clients : client'[c].pc \in Cancelling
  BY DEF Closing, Woken, Cancelling
<1>2. closing' => \A c \in Clients : client'[c].pc \notin {"enqueued", "process", "processed"}
  BY DEF Closing, Woken
<1>3. \A c \in Clients : client'[c].pc \in Terminating => closing'
  BY DEF Closing, Woken, Terminating
<1>4. ASSUME closing', NEW c \in Clients, client'[c].pc \in
                {"check_queries", "await_queries", "reset"} \union Terminating
      PROVE  task_queue' = <<>> /\ Busy' = {}
  BY <1>4 DEF Closing, Woken, Terminating
<1>5. QED
  BY <1>1, <1>2, <1>3, <1>4 DEF Closing

\* The types of what a step of a worker changes.
LEMMA WorkerTypes ==
  ASSUME Types, worker' \in [Workers -> WorkerState], Woken,
         UNCHANGED <<terminating, should_cancel, cancellation, closing, submits>>,
         status' \in [Queries -> {"UNINITIALIZED", "INPROGRESS", "COMPLETED",
                                  "INCOMPLETE", "FAILED"}],
         task_queue' \in Seq(Queries),
         outstanding' \in 0 .. Modulus - 1,
         InProgressExact',
         \A w \in Busy' : worker'[w].query \in Queries
  PROVE  Types'
<1>1. in_progress' \in Nat
  <2>1. WorkersIn' \subseteq Workers /\ ClientsIn' \subseteq Clients
    BY DEF WorkersIn, ClientsIn
  <2>2. Cardinality(WorkersIn') \in Nat /\ Cardinality(ClientsIn') \in Nat
    BY <2>1, FiniteParts
  <2>3. QED
    BY SMT, <2>2 DEF InProgressExact
<1>2. \A c \in ClientsIn' : client'[c].query \in Queries
  BY WokenSame, Subsets DEF Types, HasQuery
<1>3. TypeOK'
  BY <1>1 DEF Types, TypeOK, Woken, WorkerState, ClientState, WorkerLabels
<1>4. QED
  BY <1>2, <1>3 DEF Types, HasQuery
-----------------------------------------------------------------------------
(* Who owns a query. *)

\* The queries of those who go on having one.
SameQueries ==
  /\ \A w \in Active \intersect Active' : worker'[w].query = worker[w].query
  /\ \A c \in Direct \intersect Direct' : client'[c].query = client[c].query

LEMMA OwnedSame ==
  ASSUME Owned, Accounted, UNCHANGED <<status, task_queue>>,
         Active' = Active, Direct' = Direct, SameQueries
  PROVE  Owned' /\ Accounted'
  BY SMT DEF Owned, Accounted, SameQueries

\* The queries of the queue, of the active workers and of the clients.
LEMMA OwnersTypes ==
  ASSUME Types
  PROVE  /\ Len(task_queue) \in Nat
         /\ \A i \in 1 .. Len(task_queue) : task_queue[i] \in Queries
         /\ \A w \in Active : worker[w].query \in Queries
         /\ \A c \in Direct : client[c].query \in Queries
         /\ status \in [Queries -> {"UNINITIALIZED", "INPROGRESS", "COMPLETED",
                                    "INCOMPLETE", "FAILED"}]
  BY SMT, Subsets DEF Types, TypeOK, HasQuery

\* A worker has processed or cancelled its query.
LEMMA OwnedByWorkerEnds ==
  ASSUME Types, Owned, Accounted, NEW w \in Active, NEW s, s # "INPROGRESS",
         status' = [status EXCEPT ![worker[w].query] = s],
         task_queue' = task_queue,
         Active' = Active \ {w}, Direct' = Direct, SameQueries
  PROVE  Owned' /\ Accounted'
<1> DEFINE q == worker[w].query
<1>1. q \in Queries /\ status' = [status EXCEPT ![q] = s]
  BY OwnersTypes
<1>2. \A r \in Queries : status'[r] = IF r = q THEN s ELSE status[r]
  BY <1>1, OwnersTypes
<1>3. Owned'
  BY SMT, <1>2, OwnersTypes DEF Owned, SameQueries
<1>4. Accounted'
  BY SMT, <1>2, OwnersTypes DEF Owned, Accounted, SameQueries
<1>5. QED
  BY <1>3, <1>4

\* A client has processed its query.
LEMMA OwnedByClientEnds ==
  ASSUME Types, Owned, Accounted, NEW c \in Direct, NEW s, s # "INPROGRESS",
         status' = [status EXCEPT ![client[c].query] = s],
         task_queue' = task_queue,
         Active' = Active, Direct' = Direct \ {c}, SameQueries
  PROVE  Owned' /\ Accounted'
<1> DEFINE q == client[c].query
<1>1. q \in Queries /\ status' = [status EXCEPT ![q] = s]
  BY OwnersTypes
<1>2. \A r \in Queries : status'[r] = IF r = q THEN s ELSE status[r]
  BY <1>1, OwnersTypes
<1>3. Owned'
  BY SMT, <1>2, OwnersTypes DEF Owned, SameQueries
<1>4. Accounted'
  BY SMT, <1>2, OwnersTypes DEF Owned, Accounted, SameQueries
<1>5. QED
  BY <1>3, <1>4

\* A worker takes the first task of the queue.
LEMMA OwnedTaken ==
  ASSUME Types, Owned, Accounted, NEW w \in Workers, w \notin Active,
         task_queue # <<>>, task_queue' = Tail(task_queue),
         worker'[w].query = Head(task_queue),
         status' = status,
         Active' = Active \union {w}, Direct' = Direct, SameQueries
  PROVE  Owned' /\ Accounted'
<1>1. /\ Len(task_queue) \in Nat \ {0}
      /\ Len(task_queue') = Len(task_queue) - 1
      /\ \A i \in 1 .. Len(task_queue') : task_queue'[i] = task_queue[i + 1]
      /\ worker'[w].query = task_queue[1]
  BY SMT DEF Types, TypeOK
<1>2. Owned'
  BY SMT, <1>1, OwnersTypes DEF Owned, SameQueries
<1>3. Accounted'
  <2> SUFFICES ASSUME NEW q \in Queries, status[q] = "INPROGRESS",
                      ~ \E v \in Active' : worker'[v].query = q,
                      ~ \E c \in Direct' : client'[c].query = q
               PROVE  \E i \in 1 .. Len(task_queue') : task_queue'[i] = q
    BY DEF Accounted
  <2>1. PICK i \in 1 .. Len(task_queue) : task_queue[i] = q
    BY SMT DEF Accounted, SameQueries
  <2>2. i # 1
    BY <1>1, <2>1
  <2>3. i - 1 \in 1 .. Len(task_queue') /\ task_queue'[i - 1] = q
    BY SMT, <1>1, <2>1, <2>2
  <2>4. QED
    BY <2>3
<1>4. QED
  BY <1>2, <1>3

\* A client puts a query that nobody has into the queue.
LEMMA OwnedQueued ==
  ASSUME Types, Owned, Accounted, NEW q \in Queries, status[q] # "INPROGRESS",
         status' = [status EXCEPT ![q] = "INPROGRESS"],
         task_queue' = Append(task_queue, q),
         Active' = Active, Direct' = Direct, SameQueries
  PROVE  Owned' /\ Accounted'
<1>1. /\ Len(task_queue) \in Nat
      /\ Len(task_queue') = Len(task_queue) + 1
      /\ \A i \in 1 .. Len(task_queue) : task_queue'[i] = task_queue[i]
      /\ task_queue'[Len(task_queue) + 1] = q
  BY SMT DEF Types, TypeOK
<1>2. \A r \in Queries : status'[r] = IF r = q THEN "INPROGRESS" ELSE status[r]
  BY OwnersTypes
<1>3. Owned'
  <2>1. \A i \in 1 .. Len(task_queue') :
          \/ i = Len(task_queue) + 1 /\ task_queue'[i] = q
          \/ i \in 1 .. Len(task_queue) /\ task_queue'[i] = task_queue[i]
    BY SMT, <1>1
  <2>2. \A i \in 1 .. Len(task_queue) : task_queue[i] # q
    BY DEF Owned
  <2>3. \A i \in 1 .. Len(task_queue') :
       /\ status'[task_queue'[i]] = "INPROGRESS"
       /\ \A j \in 1 .. Len(task_queue') : task_queue'[i] = task_queue'[j] => i = j
    BY SMT, <1>1, <1>2, <2>1, <2>2, OwnersTypes DEF Owned
  <2>4. \A w \in Active : worker[w].query # q
    BY DEF Owned
  <2>5. \A c \in Direct : client[c].query # q
    BY DEF Owned
  <2>6. QED
    BY SMT, <1>1, <1>2, <2>1, <2>3, <2>4, <2>5, OwnersTypes DEF Owned, SameQueries
<1>4. Accounted'
  <2> SUFFICES ASSUME NEW r \in Queries, status'[r] = "INPROGRESS",
                      ~ \E v \in Active' : worker'[v].query = r,
                      ~ \E c \in Direct' : client'[c].query = r
               PROVE  \E i \in 1 .. Len(task_queue') : task_queue'[i] = r
    BY DEF Accounted
  <2>1. CASE r = q
    BY SMT, <1>1, <2>1
  <2>2. CASE r # q
    BY SMT, <1>1, <1>2, <2>2 DEF Accounted, SameQueries
  <2>3. QED
    BY <2>1, <2>2
<1>5. QED
  BY <1>3, <1>4

\* A client processes a query that nobody has.
LEMMA OwnedDirectly ==
  ASSUME Types, Owned, Accounted, NEW q \in Queries, status[q] # "INPROGRESS",
         NEW c \in Clients, c \notin Direct, client'[c].query = q,
         status' = [status EXCEPT ![q] = "INPROGRESS"],
         task_queue' = task_queue,
         Active' = Active, Direct' = Direct \union {c}, SameQueries
  PROVE  Owned' /\ Accounted'
<1>1. \A r \in Queries : status'[r] = IF r = q THEN "INPROGRESS" ELSE status[r]
  BY OwnersTypes
<1>2. Owned'
  BY SMT, <1>1, OwnersTypes DEF Owned, SameQueries
<1>3. Accounted'
  BY SMT, <1>1 DEF Accounted, SameQueries
<1>4. QED
  BY <1>2, <1>3
-----------------------------------------------------------------------------
(* The workers. *)

\* A step of a worker that neither begins nor ends a task: what remains to be
\* shown is who owns the queries and the count of those in progress.
LEMMA WithinTask ==
  ASSUME Inv, NEW w \in Workers,
         worker' \in [Workers -> WorkerState],
         \A v \in Workers : worker'[v].query = worker[v].query,
         Busy' = Busy, Woken,
         UNCHANGED <<task_queue, terminating, outstanding, should_cancel, cancellation,
                     closing, submits>>,
         status' \in [Queries -> {"UNINITIALIZED", "INPROGRESS", "COMPLETED",
                                  "INCOMPLETE", "FAILED"}],
         Owned', Accounted', InProgressExact'
  PROVE  Inv'
<1>1. OutstandingExact'
  BY WokenSame DEF Inv, OutstandingExact
<1>2. Closing'
  BY WokenClosing DEF Inv
<1>3. Types'
  <2>1. \A v \in Busy' : worker'[v].query \in Queries
    BY Subsets DEF Inv, Types, HasQuery
  <2>2. task_queue' \in Seq(Queries) /\ outstanding' \in 0 .. Modulus - 1
    BY DEF Inv, Types, TypeOK
  <2>3. QED
    BY <2>1, <2>2, WorkerTypes DEF Inv
<1>4. QED
  BY <1>1, <1>2, <1>3 DEF Inv

\* A worker moves to another label.
LEMMA WorkerMoves ==
  ASSUME Types, NEW w \in Workers, NEW l \in WorkerLabels,
         worker' = [worker EXCEPT ![w].pc = l]
  PROVE  /\ worker' \in [Workers -> WorkerState]
         /\ worker'[w].pc = l
         /\ \A v \in Workers : worker'[v].query = worker[v].query
         /\ \A v \in Workers \ {w} : worker'[v].pc = worker[v].pc
  BY DEF Types, TypeOK, WorkerState, WorkerLabels

LEMMA CountIn ==
  ASSUME InProgressExact
  PROVE  /\ Cardinality(WorkersIn) \in Nat /\ Cardinality(ClientsIn) \in Nat
         /\ in_progress = Cardinality(WorkersIn) + Cardinality(ClientsIn)
  BY FiniteParts, Subsets DEF InProgressExact

LEMMA StartTask ==
  ASSUME Inv, NEW w \in Workers, start_task(w)
  PROVE  Inv'
<1>1. PICK l \in {"cancel", "run"} : worker' = [worker EXCEPT ![w].pc = l]
  BY DEF start_task
<1>2. /\ worker' \in [Workers -> WorkerState] /\ worker'[w].pc = l
      /\ \A v \in Workers : worker'[v].query = worker[v].query
      /\ \A v \in Workers \ {w} : worker'[v].pc = worker[v].pc
  BY <1>1, WorkerMoves DEF Inv, WorkerLabels, WorkerBusy
<1>3. worker[w].pc = "task" /\ Woken
  BY WokenUnchanged DEF start_task, Inv
<1>4. Busy' = Busy /\ Active' = Active /\ WorkersIn' = WorkersIn
  BY <1>2, <1>3 DEF Busy, Active, WorkersIn, WorkerBusy
<1>5. Owned' /\ Accounted'
  BY <1>2, <1>3, <1>4, WokenSame, OwnedSame, Subsets DEF Inv, SameQueries, start_task, Active, Direct
<1>6. InProgressExact'
  BY <1>3, <1>4, WokenSame DEF start_task, Inv, InProgressExact
<1>7. QED
  BY <1>2, <1>3, <1>4, <1>5, <1>6, WithinTask, OwnersTypes DEF start_task, Inv

\* Processing or cancelling the query of a task ends the ownership.
LEMMA QueryEnds ==
  ASSUME Inv, NEW w \in Workers, on_cancel(w) \/ worker_process(w)
  PROVE  Inv'
<1>1. PICK s \in {"COMPLETED", "FAILED", "INCOMPLETE"} :
        status' = [status EXCEPT ![worker[w].query] = s]
  BY DEF on_cancel, worker_process, Outcomes
<1>2. \/ worker[w].pc = "cancel" /\ worker' = [worker EXCEPT ![w].pc = "cancelled"]
      \/ worker[w].pc = "process" /\ worker' = [worker EXCEPT ![w].pc = "processed"]
  BY DEF on_cancel, worker_process
<1>3. /\ worker' \in [Workers -> WorkerState]
      /\ \/ worker[w].pc = "cancel" /\ worker'[w].pc = "cancelled"
         \/ worker[w].pc = "process" /\ worker'[w].pc = "processed"
      /\ \A v \in Workers : worker'[v].query = worker[v].query
      /\ \A v \in Workers \ {w} : worker'[v].pc = worker[v].pc
  <2>1. "cancelled" \in WorkerLabels /\ "processed" \in WorkerLabels
    BY DEF WorkerLabels, WorkerBusy
  <2>2. QED
    BY <1>2, <2>1, WorkerMoves DEF Inv
<1>4. UNCHANGED <<task_queue, terminating, client, outstanding, should_cancel,
                  in_progress, cancellation, closing, submits>> /\ Woken
  BY WokenUnchanged DEF on_cancel, worker_process, Inv
<1>5. Busy' = Busy /\ Active' = Active \ {w} /\ WorkersIn' = WorkersIn /\ w \in Active
  BY <1>3 DEF Busy, Active, WorkersIn, WorkerBusy
<1>6. Owned' /\ Accounted'
  <2>1. SameQueries /\ Direct' = Direct
    BY <1>3, <1>4 DEF SameQueries, Active, Direct
  <2>2. QED
    BY <1>1, <1>4, <1>5, <2>1, OwnedByWorkerEnds DEF Inv
<1>7. InProgressExact'
  BY <1>4, <1>5, WokenSame DEF Inv, InProgressExact
<1>8. status' \in [Queries -> {"UNINITIALIZED", "INPROGRESS", "COMPLETED", "INCOMPLETE", "FAILED"}]
  BY <1>1, <1>5, OwnersTypes DEF Inv
<1>9. QED
  BY <1>3, <1>4, <1>5, <1>6, <1>7, <1>8, WithinTask

\* query_submit counts the query before it is processed.
LEMMA WorkerSubmit ==
  ASSUME Inv, NEW w \in Workers, worker_submit(w)
  PROVE  Inv'
<1>1. /\ worker' \in [Workers -> WorkerState] /\ worker'[w].pc = "process"
      /\ \A v \in Workers : worker'[v].query = worker[v].query
      /\ \A v \in Workers \ {w} : worker'[v].pc = worker[v].pc
  BY WorkerMoves DEF worker_submit, Inv, WorkerLabels, WorkerBusy
<1>2. worker[w].pc = "run" /\ Woken
  BY WokenNotified DEF worker_submit, Inv
<1>3. /\ Busy' = Busy /\ Active' = Active /\ w \in Active
      /\ w \notin WorkersIn /\ WorkersIn' = WorkersIn \union {w}
  BY <1>1, <1>2 DEF Busy, Active, WorkersIn, WorkerBusy
<1>4. status' = status
  BY <1>3, OwnersTypes DEF worker_submit, Inv, Owned
<1>5. Owned' /\ Accounted'
  <2>1. SameQueries /\ Direct' = Direct
    BY <1>1, <1>2, WokenSame DEF SameQueries, Active, Direct
  <2>2. QED
    BY <1>3, <1>4, <2>1, OwnedSame DEF Inv, worker_submit
<1>6. InProgressExact'
  <2>1. Cardinality(WorkersIn') = Cardinality(WorkersIn) + 1
    BY <1>3, CountFacts, Subsets
  <2>2. QED
    BY SMT, <1>2, <2>1, CountIn, WokenSame DEF worker_submit, Inv, InProgressExact
<1>7. QED
  BY <1>1, <1>2, <1>3, <1>4, <1>5, <1>6, WithinTask, OwnersTypes DEF worker_submit, Inv

LEMMA WorkerProcessed ==
  ASSUME Inv, NEW w \in Workers, worker_processed(w)
  PROVE  Inv'
<1>1. /\ worker' \in [Workers -> WorkerState] /\ worker'[w].pc = "ran"
      /\ \A v \in Workers : worker'[v].query = worker[v].query
      /\ \A v \in Workers \ {w} : worker'[v].pc = worker[v].pc
  BY WorkerMoves DEF worker_processed, Inv, WorkerLabels, WorkerBusy
<1>2. worker[w].pc = "processed" /\ Woken
  BY WokenNotified DEF worker_processed, Inv
<1>3. /\ Busy' = Busy /\ Active' = Active
      /\ w \in WorkersIn /\ WorkersIn' = WorkersIn \ {w}
  BY <1>1, <1>2 DEF Busy, Active, WorkersIn, WorkerBusy
<1>4. Owned' /\ Accounted'
  <2>1. SameQueries /\ Direct' = Direct
    BY <1>1, <1>2, WokenSame DEF SameQueries, Active, Direct
  <2>2. QED
    BY <1>3, <2>1, OwnedSame DEF Inv, worker_processed
<1>5. InProgressExact'
  <2>1. Cardinality(WorkersIn') = Cardinality(WorkersIn) - 1
    BY <1>3, CountFacts, Subsets
  <2>2. QED
    BY SMT, <1>2, <2>1, CountIn, WokenSame DEF worker_processed, Inv, InProgressExact
<1>6. QED
  BY <1>1, <1>2, <1>3, <1>4, <1>5, WithinTask, OwnersTypes DEF worker_processed, Inv
\* Taking a task moves it from the queue to the worker.
LEMMA TakeTask ==
  ASSUME Inv, NEW w \in Workers, worker_loop(w), task_queue # <<>>
  PROVE  Inv'
<1>1. /\ worker[w].pc = "loop"
      /\ worker' = [worker EXCEPT ![w] = At("task", Head(task_queue))]
      /\ task_queue' = Tail(task_queue)
      /\ UNCHANGED <<status, terminating, client, outstanding, should_cancel,
                     in_progress, cancellation, closing, submits>>
  BY DEF worker_loop
<1>2. /\ Head(task_queue) \in Queries /\ task_queue' \in Seq(Queries)
      /\ Len(task_queue) \in Nat /\ Len(task_queue') = Len(task_queue) - 1
  BY SMT, <1>1 DEF Inv, Types, TypeOK
<1>3. /\ worker' \in [Workers -> WorkerState]
      /\ worker'[w].pc = "task" /\ worker'[w].query = Head(task_queue)
      /\ \A v \in Workers \ {w} : worker'[v] = worker[v]
  BY <1>1, <1>2 DEF Inv, Types, TypeOK, WorkerState, WorkerLabels, WorkerBusy, At
<1>4. Woken
  BY <1>1, WokenUnchanged DEF Inv
<1>5. /\ w \notin Busy /\ Busy' = Busy \union {w}
      /\ w \notin Active /\ Active' = Active \union {w}
      /\ WorkersIn' = WorkersIn
  BY <1>1, <1>3 DEF Busy, Active, WorkersIn, WorkerBusy
<1>6. Owned' /\ Accounted'
  <2>1. SameQueries /\ Direct' = Direct
    BY <1>1, <1>3, <1>5 DEF SameQueries, Active, Direct
  <2>2. QED
    BY <1>1, <1>3, <1>5, <2>1, OwnedTaken DEF Inv
<1>7. OutstandingExact'
  <2>1. Cardinality(Busy') = Cardinality(Busy) + 1 /\ Cardinality(Busy) \in Nat
    BY <1>5, CountFacts, FiniteParts, Subsets
  <2>2. Uncounted' = Uncounted /\ Cardinality(Uncounted) \in Nat
    BY <1>4, WokenSame, FiniteParts, Subsets
  <2>3. Len(task_queue') + Cardinality(Busy') - Cardinality(Uncounted')
          = Len(task_queue) + Cardinality(Busy) - Cardinality(Uncounted)
    BY SMT, <1>2, <2>1, <2>2
  <2>4. QED
    BY <1>1, <2>3 DEF Inv, OutstandingExact
<1>8. InProgressExact'
  BY <1>1, <1>4, <1>5, WokenSame DEF Inv, InProgressExact
<1>9. Closing'
  BY <1>1, <1>4, WokenClosing DEF Inv
<1>10. Types'
  <2>1. \A v \in Busy' : worker'[v].query \in Queries
    BY <1>2, <1>3, <1>5, Subsets DEF Inv, Types, HasQuery
  <2>2. outstanding' \in 0 .. Modulus - 1
    BY <1>1 DEF Inv, Types, TypeOK
  <2>3. QED
    BY <1>1, <1>2, <1>3, <1>4, <1>8, <2>1, <2>2, WorkerTypes, OwnersTypes DEF Inv
<1>11. QED
  BY <1>6, <1>7, <1>8, <1>9, <1>10 DEF Inv

\* A worker that finds no task goes to sleep or leaves.
LEMMA NoTask ==
  ASSUME Inv, NEW w \in Workers, worker_loop(w), task_queue = <<>>
  PROVE  Inv'
<1>1. PICK l \in {"exited", "asleep"} : worker' = [worker EXCEPT ![w].pc = l]
  BY DEF worker_loop
<1>2. /\ worker' \in [Workers -> WorkerState] /\ worker'[w].pc = l
      /\ \A v \in Workers : worker'[v].query = worker[v].query
      /\ \A v \in Workers \ {w} : worker'[v].pc = worker[v].pc
  BY <1>1, WorkerMoves DEF Inv, WorkerLabels, WorkerBusy
<1>3. worker[w].pc = "loop" /\ task_queue' = task_queue /\ Woken
  BY WokenUnchanged DEF worker_loop, Inv
<1>4. Busy' = Busy /\ Active' = Active /\ WorkersIn' = WorkersIn
  BY <1>2, <1>3 DEF Busy, Active, WorkersIn, WorkerBusy
<1>5. Owned' /\ Accounted'
  BY <1>2, <1>3, <1>4, WokenSame, OwnedSame, Subsets DEF Inv, SameQueries, worker_loop, Active, Direct
<1>6. InProgressExact'
  BY <1>3, <1>4, WokenSame DEF worker_loop, Inv, InProgressExact
<1>7. QED
  BY <1>2, <1>3, <1>4, <1>5, <1>6, WithinTask, OwnersTypes DEF worker_loop, Inv

\* A task that is over is no longer counted, even if its client has not counted
\* it yet.
LEMMA EndTask ==
  ASSUME Inv, NEW w \in Workers, end_task(w)
  PROVE  Inv'
<1>1. /\ worker[w].pc \in {"ran", "cancelled"}
      /\ outstanding' = (outstanding - 1) % Modulus
      /\ client' \in {client, Notified(client, "await_tasks", "check_tasks")}
      /\ UNCHANGED <<status, task_queue, terminating, should_cancel, in_progress,
                     cancellation, closing, submits>>
  BY DEF end_task
<1>2. PICK l \in {"exited", "loop"} : worker' = [worker EXCEPT ![w] = At(l, NoQuery)]
  BY DEF end_task
<1>3. /\ worker' \in [Workers -> WorkerState]
      /\ worker'[w].pc \in {"exited", "loop"}
      /\ \A v \in Workers \ {w} : worker'[v] = worker[v]
  BY <1>2 DEF Inv, Types, TypeOK, WorkerState, WorkerLabels, At
<1>4. Woken
  BY <1>1, WokenNotified DEF Inv
<1>5. /\ w \in Busy /\ Busy' = Busy \ {w}
      /\ Active' = Active /\ w \notin Active /\ WorkersIn' = WorkersIn
  BY <1>1, <1>3 DEF Busy, Active, WorkersIn, WorkerBusy
<1>6. Owned' /\ Accounted'
  <2>1. SameQueries /\ Direct' = Direct
    BY <1>3, <1>4, <1>5, WokenSame, Subsets DEF SameQueries, Active, Direct
  <2>2. QED
    BY <1>1, <1>5, <2>1, OwnedSame DEF Inv
<1>7. OutstandingExact' /\ outstanding' \in 0 .. Modulus - 1
  <2> DEFINE n == Len(task_queue) + Cardinality(Busy) - Cardinality(Uncounted)
  <2>1. Cardinality(Busy') = Cardinality(Busy) - 1 /\ Cardinality(Busy) \in Nat
    BY <1>5, CountFacts, FiniteParts, Subsets
  <2>2. Uncounted' = Uncounted /\ Cardinality(Uncounted) \in Nat
    BY <1>4, WokenSame, FiniteParts, Subsets
  <2>3. Len(task_queue) \in Nat
    BY OwnersTypes DEF Inv
  <2>4. n \in Int /\ n' = n - 1
    BY SMT, <1>1, <2>1, <2>2, <2>3
  <2>5. outstanding = n % Modulus
    BY DEF Inv, OutstandingExact
  <2> HIDE DEF n
  <2>6. outstanding' = (n - 1) % Modulus /\ (n - 1) % Modulus \in 0 .. Modulus - 1
    <3>1. ((n % Modulus) - 1) % Modulus = (n - 1) % Modulus
      BY <2>4, ModFacts
    <3>2. n - 1 \in Int
      BY SMT, <2>4
    <3>3. (n - 1) % Modulus \in 0 .. Modulus - 1
      BY <3>2, ModFacts
    <3>4. QED
      BY <1>1, <2>5, <3>1, <3>3
  <2>7. QED
    BY <2>4, <2>6 DEF OutstandingExact, n
<1>8. InProgressExact'
  BY <1>1, <1>4, <1>5, WokenSame DEF Inv, InProgressExact
<1>9. Closing'
  BY <1>1, <1>4, <1>5, WokenClosing DEF Inv
<1>10. Types'
  <2>1. \A v \in Busy' : worker'[v].query \in Queries
    BY <1>3, <1>5, Subsets DEF Inv, Types, HasQuery
  <2>2. task_queue' \in Seq(Queries)
    BY <1>1 DEF Inv, Types, TypeOK
  <2>3. QED
    BY <1>1, <1>3, <1>4, <1>7, <1>8, <2>1, <2>2, WorkerTypes, OwnersTypes DEF Inv
<1>11. QED
  BY <1>6, <1>7, <1>8, <1>9, <1>10 DEF Inv
-----------------------------------------------------------------------------
(* The clients. *)

\* No worker moves, but for those that are woken.
WorkersQuiet ==
  /\ worker' \in [Workers -> WorkerState]
  /\ \A w \in Workers :
       /\ worker'[w].query = worker[w].query
       /\ \/ worker'[w].pc = worker[w].pc
          \/ worker[w].pc = "asleep" /\ worker'[w].pc = "loop"

LEMMA QuietUnchanged ==
  ASSUME Types, worker' = worker
  PROVE  WorkersQuiet
  BY DEF Types, TypeOK, WorkersQuiet, WorkerState, WorkerLabels

LEMMA QuietSame ==
  ASSUME WorkersQuiet
  PROVE  Busy' = Busy /\ Active' = Active /\ WorkersIn' = WorkersIn
  BY DEF WorkersQuiet, Busy, Active, WorkersIn, WorkerBusy

\* The types of what a step of a client changes.
LEMMA ClientTypes ==
  ASSUME Types, WorkersQuiet,
         client' \in [Clients -> ClientState],
         \A c \in ClientsIn' : client'[c].query \in Queries,
         terminating' \in BOOLEAN, should_cancel' \in BOOLEAN,
         cancellation' \in BOOLEAN, closing' \in BOOLEAN,
         submits' \in 0 .. MaxSubmits,
         status' \in [Queries -> {"UNINITIALIZED", "INPROGRESS", "COMPLETED",
                                  "INCOMPLETE", "FAILED"}],
         task_queue' \in Seq(Queries),
         outstanding' \in 0 .. Modulus - 1,
         InProgressExact'
  PROVE  Types'
<1>1. in_progress' \in Nat
  <2>1. WorkersIn' \subseteq Workers /\ ClientsIn' \subseteq Clients
    BY DEF WorkersIn, ClientsIn
  <2>2. Cardinality(WorkersIn') \in Nat /\ Cardinality(ClientsIn') \in Nat
    BY <2>1, FiniteParts
  <2>3. QED
    BY SMT, <2>2 DEF InProgressExact
<1>2. \A w \in Busy' : worker'[w].query \in Queries
  BY QuietSame, Subsets DEF WorkersQuiet, Types, HasQuery
<1>3. TypeOK'
  BY <1>1 DEF WorkersQuiet, TypeOK, WorkerState, ClientState, WorkerLabels
<1>4. QED
  BY <1>2, <1>3 DEF Types, HasQuery

\* A step inside cancel_all_tasks or the destructor touches no query and no
\* task: what remains to be shown is the condition on closing.
LEMMA CancelStep ==
  ASSUME Inv, NEW c \in Clients, NEW l \in ClientLabels, WorkersQuiet,
         client' = [client EXCEPT ![c].pc = l],
         client[c].pc \notin {"enqueued", "process", "processed"},
         l \notin {"enqueued", "process", "processed"},
         UNCHANGED <<status, task_queue, outstanding, in_progress, submits>>,
         terminating' \in BOOLEAN, should_cancel' \in BOOLEAN,
         cancellation' \in BOOLEAN, closing' \in BOOLEAN,
         Closing'
  PROVE  Inv'
<1>1. /\ client' \in [Clients -> ClientState] /\ client'[c].pc = l
      /\ \A d \in Clients : client'[d].query = client[d].query
      /\ \A d \in Clients \ {c} : client'[d].pc = client[d].pc
  BY DEF Inv, Types, TypeOK, ClientState
<1>2. Direct' = Direct /\ ClientsIn' = ClientsIn /\ Uncounted' = Uncounted
  BY <1>1 DEF Direct, ClientsIn, Uncounted
<1>3. Owned' /\ Accounted'
  <2>1. SameQueries
    BY <1>1 DEF SameQueries, WorkersQuiet, Active, Direct
  <2>2. QED
    BY <1>2, <2>1, QuietSame, OwnedSame DEF Inv
<1>4. OutstandingExact' /\ InProgressExact'
  BY <1>2, QuietSame DEF Inv, OutstandingExact, InProgressExact
<1>5. Types'
  <2>1. \A d \in ClientsIn' : client'[d].query \in Queries
    BY <1>1, <1>2, Subsets DEF Inv, Types, HasQuery
  <2>2. /\ submits' \in 0 .. MaxSubmits /\ task_queue' \in Seq(Queries)
        /\ outstanding' \in 0 .. Modulus - 1
        /\ status' \in [Queries -> {"UNINITIALIZED", "INPROGRESS", "COMPLETED",
                                    "INCOMPLETE", "FAILED"}]
    BY DEF Inv, Types, TypeOK
  <2>3. QED
    BY <1>1, <1>4, <2>1, <2>2, ClientTypes DEF Inv
<1>6. QED
  BY <1>3, <1>4, <1>5 DEF Inv

\* The pcs after a client has moved.
LEMMA ClientMoves ==
  ASSUME Types, NEW c \in Clients, NEW l, client' = [client EXCEPT ![c].pc = l]
  PROVE  client'[c].pc = l /\ \A d \in Clients \ {c} : client'[d].pc = client[d].pc
  BY DEF Types, TypeOK

\* A cancellation begins: somebody cancels, and nothing is settled yet.
LEMMA CancelBegins ==
  ASSUME Inv, NEW c \in Clients, cancel_all_tasks(c)
  PROVE  Inv'
<1>1. /\ client[c].pc = "idle" /\ ~closing
      /\ client' = [client EXCEPT ![c].pc = "cancel"]
      /\ UNCHANGED <<status, task_queue, terminating, worker, outstanding,
                     should_cancel, in_progress, closing, submits>>
      /\ cancellation' = TRUE
  BY DEF cancel_all_tasks
<1>2. client'[c].pc = "cancel" /\ \A d \in Clients \ {c} : client'[d].pc = client[d].pc
  BY <1>1, ClientMoves DEF Inv
<1>3. Closing'
  <2>1. \A d \in Clients : client'[d].pc \in Terminating => closing'
    BY <1>1, <1>2 DEF Inv, Closing, Terminating
  <2>2. QED
    BY <1>1, <1>2, <2>1 DEF Closing, Cancelling
<1>4. /\ terminating' \in BOOLEAN /\ should_cancel' \in BOOLEAN
      /\ cancellation' \in BOOLEAN /\ closing' \in BOOLEAN
  BY <1>1 DEF Inv, Types, TypeOK
<1>5. WorkersQuiet
  BY <1>1, QuietUnchanged DEF Inv
<1>6. "cancel" \in ClientLabels
  BY DEF ClientLabels
<1>7. QED
  BY <1>1, <1>3, <1>4, <1>5, <1>6, CancelStep

\* The destructor runs when everybody is idle, and waits for the tasks itself.
LEMMA Destructor ==
  ASSUME Inv, NEW c \in Clients, destructor(c)
  PROVE  Inv'
<1>1. /\ client' = [client EXCEPT ![c].pc = "cancel"]
      /\ \A d \in Clients : client[d].pc = "idle"
      /\ UNCHANGED <<status, task_queue, terminating, worker, outstanding,
                     should_cancel, in_progress, submits>>
      /\ closing' = TRUE /\ cancellation' = TRUE
  BY DEF destructor
<1>2. client'[c].pc = "cancel" /\ \A d \in Clients \ {c} : client'[d].pc = "idle"
  BY <1>1, ClientMoves DEF Inv
<1>3. Closing'
  BY <1>1, <1>2 DEF Closing, Cancelling, Terminating
<1>4. terminating' \in BOOLEAN /\ should_cancel' \in BOOLEAN
  BY <1>1 DEF Inv, Types, TypeOK
<1>5. WorkersQuiet
  BY <1>1, QuietUnchanged DEF Inv
<1>6. "cancel" \in ClientLabels
  BY DEF ClientLabels
<1>7. QED
  BY <1>1, <1>3, <1>4, <1>5, <1>6, CancelStep

\* A cancellation that is going on: it stays inside cancel_all_tasks, and what
\* the destructor has waited for stays settled.
LEMMA CancelGoesOn ==
  ASSUME Inv, NEW c \in Clients, NEW k \in Cancelling, NEW l \in Cancelling,
         client[c].pc = k, client' = [client EXCEPT ![c].pc = l],
         UNCHANGED <<status, task_queue, terminating, worker, outstanding, in_progress,
                     cancellation, closing, submits>>,
         should_cancel' \in BOOLEAN,
         closing /\ l \in {"check_queries", "await_queries", "reset"} =>
           task_queue = <<>> /\ Busy = {}
  PROVE  Inv'
<1>1. client'[c].pc = l /\ \A d \in Clients \ {c} : client'[d].pc = client[d].pc
  BY ClientMoves DEF Inv
<1>2. WorkersQuiet
  BY QuietUnchanged DEF Inv
<1>3. Closing'
  <2>1. cancellation' => \E d \in Clients : client'[d].pc \in Cancelling
    BY <1>1
  <2>2. closing' => \A d \in Clients : client'[d].pc \notin {"enqueued", "process", "processed"}
    BY <1>1 DEF Inv, Closing, Cancelling
  <2>3. \A d \in Clients : client'[d].pc \in Terminating => closing'
    BY <1>1 DEF Inv, Closing, Cancelling, Terminating
  <2>4. ASSUME closing', NEW d \in Clients, client'[d].pc \in
                  {"check_queries", "await_queries", "reset"} \union Terminating
        PROVE  task_queue' = <<>> /\ Busy' = {}
    <3>1. CASE d = c
      BY <1>1, <1>2, <2>4, <3>1, QuietSame DEF Cancelling, Terminating
    <3>2. CASE d # c
      BY <1>1, <1>2, <2>4, <3>2, QuietSame DEF Inv, Closing
    <3>3. QED
      BY <3>1, <3>2
  <2>5. QED
    BY <2>1, <2>2, <2>3, <2>4 DEF Closing
<1>4. l \in ClientLabels /\ {k, l} \intersect {"enqueued", "process", "processed"} = {}
  BY DEF Cancelling, ClientLabels
<1>5. terminating' \in BOOLEAN /\ cancellation' \in BOOLEAN /\ closing' \in BOOLEAN
  BY DEF Inv, Types, TypeOK
<1>6. QED
  BY <1>2, <1>3, <1>4, <1>5, CancelStep

\* When the destructor finds that no task is outstanding there is none: all
\* have been counted, and the counter has not wrapped.
LEMMA NoneOutstanding ==
  ASSUME Inv, closing, outstanding = 0
  PROVE  task_queue = <<>> /\ Busy = {}
<1>1. Uncounted = {}
  BY DEF Inv, Closing, Uncounted
<1>2. Cardinality(Uncounted) = 0
  BY <1>1, FS_EmptySet
<1>3. Len(task_queue) \in Nat /\ Cardinality(Busy) \in Nat
  BY OwnersTypes, FiniteParts, Subsets DEF Inv
<1> DEFINE n == Len(task_queue) + Cardinality(Busy)
<1>4. n \in Int /\ 0 <= n /\ n < Modulus
  BY SMT, <1>3, TasksFit DEF Inv
<1>5. outstanding = n % Modulus
  BY SMT, <1>2, <1>3 DEF Inv, OutstandingExact
<1> HIDE DEF n
<1>6. n = 0
  BY <1>4, <1>5, ModFacts
<1>7. Len(task_queue) = 0 /\ Cardinality(Busy) = 0
  BY SMT, <1>3, <1>6 DEF n
<1>8. task_queue = <<>>
  BY SMT, <1>7 DEF Inv, Types, TypeOK
<1>9. Busy = {}
  BY <1>7, FiniteParts, Subsets, FS_EmptySet
<1>10. QED
  BY <1>8, <1>9

LEMMA AwaitSteps ==
  ASSUME Inv, NEW c \in Clients,
         set_should_cancel(c) \/ await_tasks(c) \/ await_queries(c)
  PROVE  Inv'
<1>1. CASE set_should_cancel(c)
  BY <1>1, CancelGoesOn DEF set_should_cancel, Cancelling
<1>2. CASE await_tasks(c) /\ outstanding = 0
  BY <1>2, CancelGoesOn, NoneOutstanding DEF await_tasks, Cancelling
<1>3. CASE await_tasks(c) /\ outstanding # 0
  BY <1>3, CancelGoesOn DEF await_tasks, Cancelling, Inv, Types, TypeOK
<1>4. CASE await_queries(c)
  <2>1. closing => task_queue = <<>> /\ Busy = {}
    BY <1>4 DEF await_queries, Inv, Closing
  <2>2. PICK l \in {"reset", "await_queries"} : client' = [client EXCEPT ![c].pc = l]
    BY <1>4 DEF await_queries
  <2>3. QED
    BY <1>4, <2>1, <2>2, CancelGoesOn DEF await_queries, Cancelling, Inv, Types, TypeOK
<1>5. QED
  BY <1>1, <1>2, <1>3, <1>4

\* After cancel_all_tasks the destructor goes on, and any other client returns.
LEMMA CancelEnds ==
  ASSUME Inv, NEW c \in Clients, end_cancel(c)
  PROVE  Inv'
<1>1. PICK l \in {"terminate", "idle"} :
        client' = [client EXCEPT ![c].pc = l] /\ (l = "terminate" => closing)
  BY DEF end_cancel
<1>2. client'[c].pc = l /\ \A d \in Clients \ {c} : client'[d].pc = client[d].pc
  BY <1>1, ClientMoves DEF Inv
<1>3. /\ client[c].pc = "reset" /\ cancellation' = FALSE
      /\ UNCHANGED <<status, task_queue, terminating, worker, outstanding,
                     should_cancel, in_progress, closing, submits>>
  BY DEF end_cancel
<1>4. WorkersQuiet
  BY <1>3, QuietUnchanged DEF Inv
<1>5. Closing'
  <2>1. closing' => \A d \in Clients : client'[d].pc \notin {"enqueued", "process", "processed"}
    BY <1>2, <1>3 DEF Inv, Closing
  <2>2. \A d \in Clients : client'[d].pc \in Terminating => closing'
    BY <1>1, <1>2, <1>3 DEF Inv, Closing, Terminating
  <2>3. closing => (task_queue = <<>> /\ Busy = {}) \/
          ~ \E d \in Clients : client'[d].pc \in
              {"check_queries", "await_queries", "reset"} \union Terminating
    BY <1>3 DEF Inv, Closing
  <2>4. QED
    BY <1>3, <1>4, <2>1, <2>2, <2>3, QuietSame DEF Closing
<1>6. l \in ClientLabels /\ l \notin {"enqueued", "process", "processed"}
  BY DEF ClientLabels
<1>7. terminating' \in BOOLEAN /\ should_cancel' \in BOOLEAN /\ closing' \in BOOLEAN
  BY <1>3 DEF Inv, Types, TypeOK
<1>8. QED
  BY <1>1, <1>3, <1>4, <1>5, <1>6, <1>7, CancelStep

\* Terminating the pool wakes the workers, which find no task.
LEMMA TerminateSteps ==
  ASSUME Inv, NEW c \in Clients, terminate(c) \/ join(c)
  PROVE  Inv'
<1>1. PICK l \in {"join", "destroyed"} : client' = [client EXCEPT ![c].pc = l]
  BY DEF terminate, join
<1>2. client'[c].pc = l /\ \A d \in Clients \ {c} : client'[d].pc = client[d].pc
  BY <1>1, ClientMoves DEF Inv
<1>3. /\ client[c].pc \in Terminating /\ closing
      /\ UNCHANGED <<status, task_queue, outstanding, should_cancel, in_progress,
                     cancellation, closing, submits>>
  BY DEF terminate, join, Terminating, Inv, Closing
<1>4. WorkersQuiet
  <2>1. CASE terminate(c)
    BY <2>1 DEF terminate, Notified, WorkersQuiet, WorkerState, WorkerLabels, Inv, Types, TypeOK
  <2>2. CASE join(c)
    BY <2>2, QuietUnchanged DEF join, Inv
  <2>3. QED
    BY <2>1, <2>2
<1>5. Closing'
  <2>1. cancellation' => \E d \in Clients : client'[d].pc \in Cancelling
    BY <1>2, <1>3 DEF Inv, Closing, Cancelling, Terminating
  <2>2. \A d \in Clients : client'[d].pc \notin {"enqueued", "process", "processed"}
    BY <1>2, <1>3 DEF Inv, Closing
  <2>3. task_queue = <<>> /\ Busy = {}
    BY <1>3 DEF Inv, Closing
  <2>4. QED
    BY <1>3, <1>4, <2>1, <2>2, <2>3, QuietSame DEF Closing
<1>6. /\ l \in ClientLabels /\ l \notin {"enqueued", "process", "processed"}
      /\ client[c].pc \notin {"enqueued", "process", "processed"}
  BY <1>3 DEF ClientLabels, Terminating
<1>7. /\ terminating' \in BOOLEAN /\ should_cancel' \in BOOLEAN
      /\ cancellation' \in BOOLEAN /\ closing' \in BOOLEAN
  BY <1>3 DEF terminate, join, Inv, Types, TypeOK
<1>8. QED
  BY <1>1, <1>3, <1>4, <1>5, <1>6, <1>7, CancelStep
\* A query is handed to the pool; its task is not counted yet.
LEMMA SubmitAsync ==
  ASSUME Inv, NEW c \in Clients, NEW q \in Queries, submit_async(c, q)
  PROVE  Inv'
<1>1. /\ client[c].pc = "idle" /\ ~closing /\ status[q] # "INPROGRESS"
      /\ submits < MaxSubmits /\ submits' = submits + 1
      /\ status' = [status EXCEPT ![q] = "INPROGRESS"]
      /\ task_queue' = Append(task_queue, q)
      /\ client' = [client EXCEPT ![c] = At("enqueued", q)]
      /\ UNCHANGED <<terminating, outstanding, should_cancel, in_progress, cancellation, closing>>
  BY DEF submit_async, Submittable
<1>2. WorkersQuiet
  <2>1. CASE worker' = worker
    BY <2>1, QuietUnchanged DEF Inv
  <2>2. ASSUME NEW w \in Workers, worker[w].pc = "asleep",
               worker' = [worker EXCEPT ![w].pc = "loop"]
        PROVE  WorkersQuiet
    BY <2>2, WorkerMoves DEF Inv, WorkersQuiet, WorkerLabels
  <2>3. QED
    BY <2>1, <2>2 DEF submit_async
<1>3. /\ client' \in [Clients -> ClientState]
      /\ client'[c].pc = "enqueued"
      /\ \A d \in Clients \ {c} : client'[d] = client[d]
  BY <1>1 DEF Inv, Types, TypeOK, ClientState, ClientLabels, At
<1>4. /\ Direct' = Direct /\ ClientsIn' = ClientsIn
      /\ c \notin Uncounted /\ Uncounted' = Uncounted \union {c}
      /\ c \notin Direct /\ c \notin ClientsIn
  BY <1>1, <1>3 DEF Direct, ClientsIn, Uncounted
<1>5. Owned' /\ Accounted'
  <2>1. SameQueries
    BY <1>2, <1>3, <1>4, Subsets DEF SameQueries, WorkersQuiet, Active, Direct
  <2>2. QED
    BY <1>1, <1>2, <1>4, <2>1, QuietSame, OwnedQueued DEF Inv
<1>6. OutstandingExact'
  <2>1. Cardinality(Uncounted') = Cardinality(Uncounted) + 1 /\ Cardinality(Uncounted) \in Nat
    BY <1>4, CountFacts, FiniteParts, Subsets
  <2>2. Len(task_queue') = Len(task_queue) + 1 /\ Len(task_queue) \in Nat
    BY SMT, <1>1, OwnersTypes DEF Inv, Types, TypeOK
  <2>3. Busy' = Busy /\ Cardinality(Busy) \in Nat
    BY <1>2, QuietSame, FiniteParts, Subsets
  <2>4. Len(task_queue') + Cardinality(Busy') - Cardinality(Uncounted')
          = Len(task_queue) + Cardinality(Busy) - Cardinality(Uncounted)
    BY SMT, <2>1, <2>2, <2>3
  <2>5. QED
    BY <1>1, <2>4 DEF Inv, OutstandingExact
<1>7. InProgressExact'
  BY <1>1, <1>2, <1>4, QuietSame DEF Inv, InProgressExact
<1>8. Closing'
  <2>1. cancellation' => \E d \in Clients : client'[d].pc \in Cancelling
    BY <1>1, <1>3 DEF Inv, Closing, Cancelling
  <2>2. \A d \in Clients : client'[d].pc \notin Terminating
    BY <1>1, <1>3 DEF Inv, Closing, Terminating
  <2>3. QED
    BY <1>1, <2>1, <2>2 DEF Closing
<1>9. Types'
  <2>1. \A d \in ClientsIn' : client'[d].query \in Queries
    BY <1>3, <1>4, Subsets DEF Inv, Types, HasQuery
  <2>2. /\ submits' \in 0 .. MaxSubmits /\ task_queue' \in Seq(Queries)
        /\ status' \in [Queries -> {"UNINITIALIZED", "INPROGRESS", "COMPLETED",
                                    "INCOMPLETE", "FAILED"}]
        /\ terminating' \in BOOLEAN /\ should_cancel' \in BOOLEAN
        /\ cancellation' \in BOOLEAN /\ closing' \in BOOLEAN
    BY SMT, <1>1, AsyncAssumption DEF Inv, Types, TypeOK
  <2>3. outstanding' \in 0 .. Modulus - 1
    BY <1>1 DEF Inv, Types, TypeOK
  <2>4. QED
    BY <1>2, <1>3, <1>7, <2>1, <2>2, <2>3, ClientTypes DEF Inv
<1>10. QED
  BY <1>5, <1>6, <1>7, <1>8, <1>9 DEF Inv

\* The task is counted, perhaps after it has ended.
LEMMA CountTask ==
  ASSUME Inv, NEW c \in Clients, count_task(c)
  PROVE  Inv'
<1>1. /\ client[c].pc = "enqueued"
      /\ outstanding' = (outstanding + 1) % Modulus
      /\ client' = [client EXCEPT ![c] = At("idle", NoQuery)]
      /\ UNCHANGED <<status, task_queue, terminating, worker, should_cancel,
                     in_progress, cancellation, closing, submits>>
  BY DEF count_task
<1>2. WorkersQuiet
  BY <1>1, QuietUnchanged DEF Inv
<1>3. /\ client' \in [Clients -> ClientState]
      /\ client'[c].pc = "idle"
      /\ \A d \in Clients \ {c} : client'[d] = client[d]
  BY <1>1 DEF Inv, Types, TypeOK, ClientState, ClientLabels, At
<1>4. /\ Direct' = Direct /\ ClientsIn' = ClientsIn
      /\ c \in Uncounted /\ Uncounted' = Uncounted \ {c}
      /\ c \notin Direct /\ c \notin ClientsIn
  BY <1>1, <1>3 DEF Direct, ClientsIn, Uncounted
<1>5. Owned' /\ Accounted'
  <2>1. SameQueries
    BY <1>2, <1>3, <1>4, Subsets DEF SameQueries, WorkersQuiet, Active, Direct
  <2>2. QED
    BY <1>1, <1>2, <1>4, <2>1, QuietSame, OwnedSame DEF Inv
<1>6. OutstandingExact' /\ outstanding' \in 0 .. Modulus - 1
  <2> DEFINE n == Len(task_queue) + Cardinality(Busy) - Cardinality(Uncounted)
  <2>1. Cardinality(Uncounted') = Cardinality(Uncounted) - 1 /\ Cardinality(Uncounted) \in Nat
    BY <1>4, CountFacts, FiniteParts, Subsets
  <2>2. Busy' = Busy /\ Cardinality(Busy) \in Nat
    BY <1>2, QuietSame, FiniteParts, Subsets
  <2>3. Len(task_queue) \in Nat
    BY OwnersTypes DEF Inv
  <2>4. n \in Int /\ n' = n + 1
    BY SMT, <1>1, <2>1, <2>2, <2>3
  <2>5. outstanding = n % Modulus
    BY DEF Inv, OutstandingExact
  <2> HIDE DEF n
  <2>6. outstanding' = (n + 1) % Modulus /\ (n + 1) % Modulus \in 0 .. Modulus - 1
    <3>1. ((n % Modulus) + 1) % Modulus = (n + 1) % Modulus
      BY <2>4, ModFacts
    <3>2. n + 1 \in Int
      BY SMT, <2>4
    <3>3. (n + 1) % Modulus \in 0 .. Modulus - 1
      BY <3>2, ModFacts
    <3>4. QED
      BY <1>1, <2>5, <3>1, <3>3
  <2>7. QED
    BY <2>4, <2>6 DEF OutstandingExact, n
<1>7. InProgressExact'
  BY <1>1, <1>2, <1>4, QuietSame DEF Inv, InProgressExact
<1>8. Closing'
  <2>1. cancellation' => \E d \in Clients : client'[d].pc \in Cancelling
    BY <1>1, <1>3 DEF Inv, Closing, Cancelling
  <2>2. ~closing'
    BY <1>1 DEF Inv, Closing
  <2>3. \A d \in Clients : client'[d].pc \notin Terminating
    BY <1>1, <1>3, <2>2 DEF Inv, Closing, Terminating
  <2>4. QED
    BY <2>1, <2>2, <2>3 DEF Closing
<1>9. Types'
  <2>1. \A d \in ClientsIn' : client'[d].query \in Queries
    BY <1>3, <1>4, Subsets DEF Inv, Types, HasQuery
  <2>2. /\ submits' \in 0 .. MaxSubmits /\ task_queue' \in Seq(Queries)
        /\ status' \in [Queries -> {"UNINITIALIZED", "INPROGRESS", "COMPLETED",
                                    "INCOMPLETE", "FAILED"}]
        /\ terminating' \in BOOLEAN /\ should_cancel' \in BOOLEAN
        /\ cancellation' \in BOOLEAN /\ closing' \in BOOLEAN
    BY <1>1 DEF Inv, Types, TypeOK
  <2>3. QED
    BY <1>2, <1>3, <1>6, <1>7, <2>1, <2>2, ClientTypes DEF Inv
<1>10. QED
  BY <1>5, <1>6, <1>7, <1>8, <1>9 DEF Inv
\* The other clients are at most woken when client c moves.
OthersWoken(c) ==
  /\ client' \in [Clients -> ClientState]
  /\ \A d \in Clients \ {c} :
       /\ client'[d].query = client[d].query
       /\ \/ client'[d].pc = client[d].pc
          \/ client[d].pc = "await_queries" /\ client'[d].pc = "check_queries"

\* A step of a client that processes a query itself, which happens before the
\* destructor runs.
LEMMA DirectStep ==
  ASSUME Inv, NEW c \in Clients, ~closing, OthersWoken(c),
         {client[c].pc, client'[c].pc} \subseteq {"idle", "process", "processed"},
         client'[c].query \in Queries \/ client'[c].pc = "idle",
         UNCHANGED <<task_queue, terminating, worker, outstanding, should_cancel,
                     cancellation, closing>>,
         submits' \in 0 .. MaxSubmits,
         status' \in [Queries -> {"UNINITIALIZED", "INPROGRESS", "COMPLETED",
                                  "INCOMPLETE", "FAILED"}],
         Owned', Accounted', InProgressExact'
  PROVE  Inv'
<1>1. WorkersQuiet
  BY QuietUnchanged DEF Inv
<1>2. Uncounted' = Uncounted
  BY DEF Uncounted, OthersWoken
<1>3. OutstandingExact'
  BY <1>1, <1>2, QuietSame DEF Inv, OutstandingExact
<1>4. Closing'
  <2>1. cancellation' => \E d \in Clients : client'[d].pc \in Cancelling
    <3>1. \A d \in Clients : client[d].pc \in Cancelling => d # c
      BY DEF Cancelling
    <3>2. \A d \in Clients : client[d].pc \in Cancelling => client'[d].pc \in Cancelling
      BY <3>1 DEF OthersWoken, Cancelling
    <3>3. QED
      BY <3>2 DEF Inv, Closing
  <2>2. \A d \in Clients : client'[d].pc \notin Terminating
    BY DEF Inv, Closing, Terminating, OthersWoken
  <2>3. QED
    BY <2>1, <2>2 DEF Closing
<1>5. Types'
  <2>1. \A d \in ClientsIn' : client'[d].query \in Queries
    BY DEF Inv, Types, HasQuery, OthersWoken, ClientsIn
  <2>2. /\ task_queue' \in Seq(Queries) /\ outstanding' \in 0 .. Modulus - 1
        /\ terminating' \in BOOLEAN /\ should_cancel' \in BOOLEAN
        /\ cancellation' \in BOOLEAN /\ closing' \in BOOLEAN
    BY DEF Inv, Types, TypeOK
  <2>3. QED
    BY <1>1, <2>1, <2>2, ClientTypes DEF Inv, OthersWoken
<1>6. QED
  BY <1>3, <1>4, <1>5 DEF Inv

\* A client begins to process a query.
LEMMA Submit ==
  ASSUME Inv, NEW c \in Clients, NEW q \in Queries, submit(c, q)
  PROVE  Inv'
<1>1. /\ client[c].pc = "idle" /\ ~closing /\ status[q] # "INPROGRESS"
      /\ submits < MaxSubmits /\ submits' = submits + 1
      /\ status' = [status EXCEPT ![q] = "INPROGRESS"]
      /\ in_progress' = in_progress + 1
      /\ UNCHANGED <<task_queue, terminating, worker, outstanding, should_cancel,
                     cancellation, closing>>
  BY DEF submit, Submittable
<1>2. OthersWoken(c) /\ client'[c].pc = "process" /\ client'[c].query = q
  <2> DEFINE f == [client EXCEPT ![c] = At("process", q)]
  <2>1. f \in [Clients -> ClientState] /\ f[c].pc = "process" /\ f[c].query = q
        /\ \A d \in Clients \ {c} : f[d] = client[d]
    BY DEF Inv, Types, TypeOK, ClientState, ClientLabels, At
  <2>2. client' = Notified(f, "await_queries", "check_queries")
    BY DEF submit
  <2> HIDE DEF f
  <2>3. QED
    BY SMT, <2>1, <2>2 DEF Notified, OthersWoken, ClientState, ClientLabels
<1>3. /\ c \notin Direct /\ Direct' = Direct \union {c}
      /\ c \notin ClientsIn /\ ClientsIn' = ClientsIn \union {c}
  BY <1>1, <1>2 DEF Direct, ClientsIn, OthersWoken
<1>4. Active' = Active /\ WorkersIn' = WorkersIn
  BY <1>1 DEF Active, WorkersIn
<1>5. Owned' /\ Accounted'
  <2>1. SameQueries
    BY <1>1, <1>2, <1>3 DEF SameQueries, OthersWoken, Direct
  <2>2. QED
    BY <1>1, <1>2, <1>3, <1>4, <2>1, OwnedDirectly DEF Inv
<1>6. InProgressExact'
  <2>1. Cardinality(ClientsIn') = Cardinality(ClientsIn) + 1
    BY <1>3, CountFacts, Subsets
  <2>2. QED
    BY SMT, <1>1, <1>4, <2>1, CountIn DEF Inv, InProgressExact
<1>7. /\ submits' \in 0 .. MaxSubmits
      /\ status' \in [Queries -> {"UNINITIALIZED", "INPROGRESS", "COMPLETED",
                                  "INCOMPLETE", "FAILED"}]
  BY SMT, <1>1, AsyncAssumption DEF Inv, Types, TypeOK
<1>8. QED
  BY <1>1, <1>2, <1>5, <1>6, <1>7, DirectStep

\* It has processed the query.
LEMMA ClientProcess ==
  ASSUME Inv, NEW c \in Clients, client_process(c)
  PROVE  Inv'
<1>1. PICK s \in {"COMPLETED", "FAILED", "INCOMPLETE"} :
        status' = [status EXCEPT ![client[c].query] = s]
  BY DEF client_process, Outcomes
<1>2. /\ client[c].pc = "process"
      /\ client' = [client EXCEPT ![c].pc = "processed"]
      /\ UNCHANGED <<task_queue, terminating, worker, outstanding, should_cancel,
                     in_progress, cancellation, closing, submits>>
  BY DEF client_process
<1>3. /\ client' \in [Clients -> ClientState] /\ client'[c].pc = "processed"
      /\ client'[c].query = client[c].query
      /\ \A d \in Clients \ {c} : client'[d] = client[d]
  BY <1>2 DEF Inv, Types, TypeOK, ClientState, ClientLabels
<1>4. c \in Direct /\ Direct' = Direct \ {c} /\ ClientsIn' = ClientsIn
  BY <1>2, <1>3 DEF Direct, ClientsIn
<1>5. Active' = Active /\ WorkersIn' = WorkersIn
  BY <1>2 DEF Active, WorkersIn
<1>6. client[c].query \in Queries /\ ~closing
  BY <1>2, <1>4, OwnersTypes DEF Inv, Closing
<1>7. Owned' /\ Accounted'
  <2>1. SameQueries
    BY <1>2, <1>3, <1>4 DEF SameQueries, Direct
  <2>2. QED
    BY <1>1, <1>2, <1>4, <1>5, <2>1, OwnedByClientEnds DEF Inv
<1>8. InProgressExact'
  BY <1>2, <1>4, <1>5 DEF Inv, InProgressExact
<1>9. /\ submits' \in 0 .. MaxSubmits
      /\ status' \in [Queries -> {"UNINITIALIZED", "INPROGRESS", "COMPLETED",
                                  "INCOMPLETE", "FAILED"}]
  BY <1>1, <1>2, <1>6 DEF Inv, Types, TypeOK
<1>10. OthersWoken(c)
  BY <1>3 DEF OthersWoken
<1>11. QED
  BY <1>2, <1>3, <1>6, <1>7, <1>8, <1>9, <1>10, DirectStep

LEMMA ClientProcessed ==
  ASSUME Inv, NEW c \in Clients, client_processed(c)
  PROVE  Inv'
<1>1. /\ client[c].pc = "processed" /\ in_progress' = in_progress - 1
      /\ UNCHANGED <<status, task_queue, terminating, worker, outstanding,
                     should_cancel, cancellation, closing, submits>>
  BY DEF client_processed
<1>2. OthersWoken(c) /\ client'[c].pc = "idle"
  <2> DEFINE f == [client EXCEPT ![c] = At("idle", NoQuery)]
  <2>1. f \in [Clients -> ClientState] /\ f[c].pc = "idle"
        /\ \A d \in Clients \ {c} : f[d] = client[d]
    BY DEF Inv, Types, TypeOK, ClientState, ClientLabels, At
  <2>2. client' = Notified(f, "await_queries", "check_queries")
    BY DEF client_processed
  <2> HIDE DEF f
  <2>3. QED
    BY SMT, <2>1, <2>2 DEF Notified, OthersWoken, ClientState, ClientLabels
<1>3. /\ c \notin Direct /\ Direct' = Direct
      /\ c \in ClientsIn /\ ClientsIn' = ClientsIn \ {c}
  BY <1>1, <1>2 DEF Direct, ClientsIn, OthersWoken
<1>4. Active' = Active /\ WorkersIn' = WorkersIn
  BY <1>1 DEF Active, WorkersIn
<1>5. Owned' /\ Accounted'
  <2>1. SameQueries
    BY <1>1, <1>2, <1>3 DEF SameQueries, OthersWoken, Direct
  <2>2. QED
    BY <1>1, <1>3, <1>4, <2>1, OwnedSame DEF Inv
<1>6. InProgressExact'
  <2>1. Cardinality(ClientsIn') = Cardinality(ClientsIn) - 1
    BY <1>3, CountFacts, Subsets
  <2>2. QED
    BY SMT, <1>1, <1>4, <2>1, CountIn DEF Inv, InProgressExact
<1>7. ~closing /\ submits' \in 0 .. MaxSubmits
  BY <1>1 DEF Inv, Types, TypeOK, Closing
<1>8. QED
  BY <1>1, <1>2, <1>5, <1>6, <1>7, DirectStep, OwnersTypes DEF Inv

-----------------------------------------------------------------------------
(* The theorems. *)

LEMMA InitInv == Init => Inv
<1> SUFFICES ASSUME Init PROVE Inv
  OBVIOUS
<1>1. Busy = {} /\ Active = {} /\ WorkersIn = {} /\ Uncounted = {} /\ ClientsIn = {} /\ Direct = {}
  BY DEF Init, At, Busy, Active, WorkersIn, Uncounted, ClientsIn, Direct, WorkerBusy
<1>2. Types
  <2>1. outstanding \in 0 .. Modulus - 1
    BY SMT, ModulusType DEF Init
  <2>2. submits \in 0 .. MaxSubmits
    BY SMT, AsyncAssumption DEF Init
  <2>3. worker \in [Workers -> [pc : WorkerBusy \union {"loop", "asleep", "exited"},
                                query : Queries \union {NoQuery}]]
    BY DEF Init, At
  <2>4. client \in [Clients -> [pc : ClientLabels, query : Queries \union {NoQuery}]]
    BY DEF Init, At, ClientLabels
  <2>5. /\ status \in [Queries -> {"UNINITIALIZED", "INPROGRESS", "COMPLETED",
                                    "INCOMPLETE", "FAILED"}]
        /\ task_queue \in Seq(Queries) /\ in_progress \in Nat
    BY SMT DEF Init
  <2>6. /\ terminating \in BOOLEAN /\ should_cancel \in BOOLEAN
        /\ cancellation \in BOOLEAN /\ closing \in BOOLEAN
    BY Zenon DEF Init
  <2>7. QED
    BY <1>1, <2>1, <2>2, <2>3, <2>4, <2>5, <2>6 DEF Types, TypeOK, HasQuery
<1>3. Owned /\ Accounted
  BY SMT, <1>1 DEF Init, Owned, Accounted
<1>4. OutstandingExact /\ InProgressExact
  <2>1. 0 % Modulus = 0
    BY SMT, ModFacts, ModulusType
  <2>2. QED
    BY SMT, <1>1, <2>1, FS_EmptySet DEF Init, OutstandingExact, InProgressExact
<1>5. Closing
  BY DEF Init, Closing, At, Terminating
<1>6. QED
  BY <1>2, <1>3, <1>4, <1>5 DEF Inv

LEMMA NextInv == Inv /\ [Next]_vars => Inv'
<1> SUFFICES ASSUME Inv, [Next]_vars PROVE Inv'
  OBVIOUS
<1>1. ASSUME NEW c \in Clients, NEW q \in Queries, submit_async(c, q) \/ submit(c, q)
      PROVE  Inv'
  BY <1>1, SubmitAsync, Submit
<1>2. ASSUME NEW c \in Clients, cancel_all_tasks(c) \/ destructor(c) \/ ClientStep(c)
      PROVE  Inv'
  BY <1>2, CancelBegins, Destructor, CountTask, ClientProcess, ClientProcessed, AwaitSteps,
     CancelEnds, TerminateSteps DEF ClientStep
<1>3. ASSUME NEW w \in Workers, WorkerStep(w)
      PROVE  Inv'
  BY <1>3, TakeTask, NoTask, StartTask, QueryEnds, WorkerSubmit, WorkerProcessed, EndTask
     DEF WorkerStep
<1>4. CASE UNCHANGED vars
  <2>1. /\ Busy' = Busy /\ Active' = Active /\ WorkersIn' = WorkersIn
        /\ Uncounted' = Uncounted /\ ClientsIn' = ClientsIn /\ Direct' = Direct
    BY <1>4 DEF vars, Busy, Active, WorkersIn, Uncounted, ClientsIn, Direct
  <2>2. Types' /\ Closing'
    BY <1>4, <2>1 DEF vars, Inv, Types, TypeOK, HasQuery, Closing
  <2>3. Owned' /\ Accounted'
    BY <1>4, <2>1, OwnedSame DEF vars, Inv, SameQueries
  <2>4. OutstandingExact' /\ InProgressExact'
    BY <1>4, <2>1 DEF vars, Inv, OutstandingExact, InProgressExact
  <2>5. QED
    BY <2>2, <2>3, <2>4 DEF Inv
<1>5. QED
  BY <1>1, <1>2, <1>3, <1>4 DEF Next

LEMMA AlwaysInv == Spec => []Inv
  BY InitInv, NextInv, PTL DEF Spec

\* No counter of the thread pool or the storage manager leaves its range, for
\* any number of clients, workers and submissions: in particular
\* queries_in_progress_ never goes below zero.
THEOREM CountersTyped == Spec => []TypeOK
<1>1. Inv => TypeOK
  BY DEF Inv, Types
<1>2. QED
  BY <1>1, AlwaysInv, PTL

\* outstanding_tasks_ is exact although tasks are counted after they have been
\* put into the queue and may end before (CancelableTasks::execute, fn_wrapper).
THEOREM TasksCounted == Spec => []OutstandingExact
<1>1. Inv => OutstandingExact
  BY DEF Inv
<1>2. QED
  BY <1>1, AlwaysInv, PTL

\* No two tasks, and no task and a client, process a query at the same time, and
\* it stays in progress until one of them is done with it (async_push_query).
THEOREM QueriesHaveOneProcessor == Spec => []OneProcessor
<1>1. Inv => OneProcessor
  BY DEF Inv, OneProcessor, Owned, Active
<1>2. QED
  BY <1>1, AlwaysInv, PTL

\* When the destructor of the storage manager deletes the VFS and terminates the
\* pool there is no task, queued or running, and no query in progress.
THEOREM DestructorWaits == Spec => []DestructionSettled
<1>1. Inv => DestructionSettled
  <2> SUFFICES ASSUME Inv, NEW c \in Clients,
                      client[c].pc \in {"terminate", "join", "destroyed"}
               PROVE  /\ task_queue = <<>> /\ Busy = {}
                      /\ \A q \in Queries : status[q] # "INPROGRESS"
    BY DEF DestructionSettled
  <2>1. closing /\ task_queue = <<>> /\ Busy = {}
    BY DEF Inv, Closing, Terminating
  <2>2. Active = {} /\ Direct = {} /\ Len(task_queue) = 0
    BY <2>1, Subsets DEF Inv, Closing, Direct
  <2>3. QED
    BY SMT, <2>1, <2>2 DEF Inv, Accounted
<1>2. QED
  BY <1>1, AlwaysInv, PTL
=============================================================================
