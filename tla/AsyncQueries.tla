----------------------------- MODULE AsyncQueries -----------------------------
(***************************************************************************)
(* Queries on the asynchronous thread pool, and their cancellation.        *)
(*                                                                         *)
(* Client threads submit queries to the storage manager, which runs them   *)
(* in place (query_submit) or hands them to its thread pool                *)
(* (query_submit_async) through CancelableTasks, which counts the tasks    *)
(* that are outstanding.  cancel_all_tasks waits until none is, and until  *)
(* no query is in progress.  The destructor cancels everything and then    *)
(* terminates the pool.                                                    *)
(***************************************************************************)
EXTENDS Integers, Sequences, FiniteSets

CONSTANTS
  Queries,
  Reads,        \* the queries that read; the others write
  Clients,      \* the threads that use the context
  Workers,      \* the threads of async_thread_pool_
  NoQuery,
  MaxSubmits    \* bound on the number of submissions

\* outstanding_tasks_ is unsigned: it wraps below zero (65536 stands for 2^32).
Modulus == 65536

\* A query has at most one task in the queue, and a worker at most one task, so
\* that the counter can count them all.
ASSUME AsyncAssumption ==
  /\ Reads \subseteq Queries
  /\ NoQuery \notin Queries
  /\ IsFiniteSet(Queries) /\ IsFiniteSet(Clients) /\ IsFiniteSet(Workers)
  /\ Cardinality(Queries) + Cardinality(Workers) < Modulus
  /\ MaxSubmits \in Nat

VARIABLES
  status,         \* status_ of every query
  task_queue,     \* the queries in ThreadPool::task_queue_
  terminating,    \* should_terminate_
  worker,         \* where every worker is, and its task
  client,         \* where every client is, and its query
  outstanding,    \* outstanding_tasks_
  should_cancel,  \* should_cancel_
  in_progress,    \* queries_in_progress_
  cancellation,   \* cancellation_in_progress_
  closing,        \* the destructor of the storage manager has been called
  submits

vars == <<status, task_queue, terminating, worker, client, outstanding,
          should_cancel, in_progress, cancellation, closing, submits>>

At(l, q) == [pc |-> l, query |-> q]

Init ==
  /\ status = [q \in Queries |-> "UNINITIALIZED"]
  /\ task_queue = <<>>
  /\ terminating = FALSE
  /\ worker = [w \in Workers |-> At("loop", NoQuery)]
  /\ client = [c \in Clients |-> At("idle", NoQuery)]
  /\ outstanding = 0
  /\ should_cancel = FALSE
  /\ in_progress = 0
  /\ cancellation = FALSE
  /\ closing = FALSE
  /\ submits = 0

\* A condition variable is the set of threads that wait on it: those at l,
\* which go on at m when they are notified.
Notified(threads, l, m) ==
  [t \in DOMAIN threads |->
     IF threads[t].pc = l THEN [threads[t] EXCEPT !.pc = m] ELSE threads[t]]

-------------------------------------------------------------------------------
(* Submitting. *)

\* A query that is in progress is left alone, and a read that has completed is
\* not submitted again.
Submittable(q) ==
  /\ status[q] # "INPROGRESS"
  /\ ~(q \in Reads /\ status[q] = "COMPLETED")
  /\ submits < MaxSubmits

\* Mutation: no worker is notified of the task.
submit_async_silent(c, q) ==
  /\ client[c].pc = "idle" /\ ~closing
  /\ Submittable(q)
  /\ submits' = submits + 1
  /\ status' = [status EXCEPT ![q] = "INPROGRESS"]
  /\ task_queue' = Append(task_queue, q)
  /\ client' = [client EXCEPT ![c] = At("enqueued", q)]
  /\ UNCHANGED <<terminating, worker, outstanding, should_cancel, in_progress, cancellation, closing>>

\* Query::submit_async: initialise the query, put its task into the queue of
\* the pool and notify one worker.  Only then the task is counted.
submit_async(c, q) ==
  /\ client[c].pc = "idle" /\ ~closing
  /\ Submittable(q)
  /\ submits' = submits + 1
  /\ status' = [status EXCEPT ![q] = "INPROGRESS"]
  /\ task_queue' = Append(task_queue, q)
  /\ LET asleep == {w \in Workers : worker[w].pc = "asleep"}
     IN  \/ asleep = {} /\ UNCHANGED worker
         \/ \E w \in asleep : worker' = [worker EXCEPT ![w].pc = "loop"]
  /\ client' = [client EXCEPT ![c] = At("enqueued", q)]
  /\ UNCHANGED <<terminating, outstanding, should_cancel, in_progress, cancellation, closing>>

count_task(c) ==
  /\ client[c].pc = "enqueued"
  /\ outstanding' = (outstanding + 1) % Modulus
  /\ client' = [client EXCEPT ![c] = At("idle", NoQuery)]
  /\ UNCHANGED <<status, task_queue, terminating, worker, should_cancel,
                 in_progress, cancellation, closing, submits>>

\* Query::submit and query_submit: the client processes the query itself.
submit(c, q) ==
  /\ client[c].pc = "idle" /\ ~closing
  /\ Submittable(q)
  /\ submits' = submits + 1
  /\ status' = [status EXCEPT ![q] = "INPROGRESS"]
  /\ in_progress' = in_progress + 1
  /\ client' = Notified([client EXCEPT ![c] = At("process", q)],
                        "await_queries", "check_queries")
  /\ UNCHANGED <<task_queue, terminating, worker, outstanding, should_cancel,
                 cancellation, closing>>

\* Query::process ends: a write that does not fail is complete, a read may be
\* incomplete, and either may fail, also because a cancellation is in progress.
Outcomes(q) == {"COMPLETED", "FAILED"} \union (IF q \in Reads THEN {"INCOMPLETE"} ELSE {})

client_process(c) ==
  /\ client[c].pc = "process"
  /\ \E s \in Outcomes(client[c].query) :
       status' = [status EXCEPT ![client[c].query] = s]
  /\ client' = [client EXCEPT ![c].pc = "processed"]
  /\ UNCHANGED <<task_queue, terminating, worker, outstanding, should_cancel,
                 in_progress, cancellation, closing, submits>>

client_processed(c) ==
  /\ client[c].pc = "processed"
  /\ in_progress' = in_progress - 1
  /\ client' = Notified([client EXCEPT ![c] = At("idle", NoQuery)],
                        "await_queries", "check_queries")
  /\ UNCHANGED <<status, task_queue, terminating, worker, outstanding,
                 should_cancel, cancellation, closing, submits>>

-------------------------------------------------------------------------------
(* The workers (ThreadPool::worker, CancelableTasks::fn_wrapper). *)

\* Take a task, go to sleep, or leave.
worker_loop(w) ==
  /\ worker[w].pc = "loop"
  /\ \/ /\ task_queue # <<>>
        /\ worker' = [worker EXCEPT ![w] = At("task", Head(task_queue))]
        /\ task_queue' = Tail(task_queue)
     \/ /\ task_queue = <<>>
        /\ worker' = [worker EXCEPT ![w].pc = IF terminating THEN "exited" ELSE "asleep"]
        /\ UNCHANGED task_queue
  /\ UNCHANGED <<status, terminating, client, outstanding, should_cancel,
                 in_progress, cancellation, closing, submits>>

\* fn_wrapper: a task that starts during a cancellation cancels its query,
\* without the lock, and does not process it.
start_task(w) ==
  /\ worker[w].pc = "task"
  /\ worker' = [worker EXCEPT ![w].pc = IF should_cancel THEN "cancel" ELSE "run"]
  /\ UNCHANGED <<status, task_queue, terminating, client, outstanding,
                 should_cancel, in_progress, cancellation, closing, submits>>

\* Mutation: a cancelled task is run all the same.
on_cancel_runs(w) ==
  /\ worker[w].pc = "cancel"
  /\ status' = [status EXCEPT ![worker[w].query] = "FAILED"]
  /\ worker' = [worker EXCEPT ![w].pc = "run"]
  /\ UNCHANGED <<task_queue, terminating, client, outstanding, should_cancel,
                 in_progress, cancellation, closing, submits>>

on_cancel(w) ==
  /\ worker[w].pc = "cancel"
  /\ status' = [status EXCEPT ![worker[w].query] = "FAILED"]
  /\ worker' = [worker EXCEPT ![w].pc = "cancelled"]
  /\ UNCHANGED <<task_queue, terminating, client, outstanding, should_cancel,
                 in_progress, cancellation, closing, submits>>

worker_submit(w) ==
  /\ worker[w].pc = "run"
  /\ status' = [status EXCEPT ![worker[w].query] = "INPROGRESS"]
  /\ in_progress' = in_progress + 1
  /\ client' = Notified(client, "await_queries", "check_queries")
  /\ worker' = [worker EXCEPT ![w].pc = "process"]
  /\ UNCHANGED <<task_queue, terminating, outstanding, should_cancel,
                 cancellation, closing, submits>>

worker_process(w) ==
  /\ worker[w].pc = "process"
  /\ \E s \in Outcomes(worker[w].query) :
       status' = [status EXCEPT ![worker[w].query] = s]
  /\ worker' = [worker EXCEPT ![w].pc = "processed"]
  /\ UNCHANGED <<task_queue, terminating, client, outstanding, should_cancel,
                 in_progress, cancellation, closing, submits>>

worker_processed(w) ==
  /\ worker[w].pc = "processed"
  /\ in_progress' = in_progress - 1
  /\ client' = Notified(client, "await_queries", "check_queries")
  /\ worker' = [worker EXCEPT ![w].pc = "ran"]
  /\ UNCHANGED <<status, task_queue, terminating, outstanding, should_cancel,
                 cancellation, closing, submits>>

\* Mutation: the counter goes below zero.
end_task_signed(w) ==
  /\ worker[w].pc \in {"ran", "cancelled"}
  /\ outstanding' = outstanding - 1
  /\ client' = IF outstanding' = 0 /\ (worker[w].pc = "cancelled" \/ should_cancel)
               THEN Notified(client, "await_tasks", "check_tasks")
               ELSE client
  /\ worker' = [worker EXCEPT
                  ![w] = At(IF terminating THEN "exited" ELSE "loop", NoQuery)]
  /\ UNCHANGED <<status, task_queue, terminating, should_cancel, in_progress,
                 cancellation, closing, submits>>

\* Mutation: a cancelled task is not discounted.
end_task_cancelled(w) ==
  /\ worker[w].pc \in {"ran", "cancelled"}
  /\ outstanding' = IF worker[w].pc = "ran" THEN (outstanding - 1) % Modulus
                    ELSE outstanding
  /\ client' = IF outstanding' = 0 /\ (worker[w].pc = "cancelled" \/ should_cancel)
               THEN Notified(client, "await_tasks", "check_tasks")
               ELSE client
  /\ worker' = [worker EXCEPT
                  ![w] = At(IF terminating THEN "exited" ELSE "loop", NoQuery)]
  /\ UNCHANGED <<status, task_queue, terminating, should_cancel, in_progress,
                 cancellation, closing, submits>>

\* The task is over; whoever cancels is woken when it was the last one.
\* The worker leaves the pool when it is being terminated.
end_task(w) ==
  /\ worker[w].pc \in {"ran", "cancelled"}
  /\ outstanding' = (outstanding - 1) % Modulus
  /\ client' = IF outstanding' = 0 /\ (worker[w].pc = "cancelled" \/ should_cancel)
               THEN Notified(client, "await_tasks", "check_tasks")
               ELSE client
  /\ worker' = [worker EXCEPT
                  ![w] = At(IF terminating THEN "exited" ELSE "loop", NoQuery)]
  /\ UNCHANGED <<status, task_queue, terminating, should_cancel, in_progress,
                 cancellation, closing, submits>>

-------------------------------------------------------------------------------
(* Cancelling (StorageManager::cancel_all_tasks) and the destructor. *)

\* One cancellation at a time: a second caller returns at once, and no step
\* of the model stands for its call.
cancel_all_tasks(c) ==
  /\ client[c].pc = "idle" /\ ~closing
  /\ ~cancellation
  /\ cancellation' = TRUE
  /\ client' = [client EXCEPT ![c].pc = "cancel"]
  /\ UNCHANGED <<status, task_queue, terminating, worker, outstanding,
                 should_cancel, in_progress, closing, submits>>

\* The destructor is called when no other thread uses the storage manager, so that no
\* cancellation is in progress and cancel_all_tasks does its work.  (The watchdog, which
\* calls cancel_all_tasks after a signal and may be inside it, is not modelled.)
destructor(c) ==
  /\ ~closing /\ \A d \in Clients : client[d].pc = "idle"
  /\ closing' = TRUE
  /\ cancellation' = TRUE
  /\ client' = [client EXCEPT ![c].pc = "cancel"]
  /\ UNCHANGED <<status, task_queue, terminating, worker, outstanding,
                 should_cancel, in_progress, submits>>

set_should_cancel(c) ==
  /\ client[c].pc = "cancel"
  /\ should_cancel' = TRUE
  /\ client' = [client EXCEPT ![c].pc = "check_tasks"]
  /\ UNCHANGED <<status, task_queue, terminating, worker, outstanding,
                 in_progress, cancellation, closing, submits>>

\* Mutation: the cancellation does not wait for the tasks.
await_tasks_no_wait(c) ==
  /\ client[c].pc = "check_tasks"
  /\ IF TRUE
     THEN /\ should_cancel' = FALSE
          /\ client' = [client EXCEPT ![c].pc = "check_queries"]
     ELSE /\ client' = [client EXCEPT ![c].pc = "await_tasks"]
          /\ UNCHANGED should_cancel
  /\ UNCHANGED <<status, task_queue, terminating, worker, outstanding,
                 in_progress, cancellation, closing, submits>>

\* Wait for all outstanding tasks to cancel.
await_tasks(c) ==
  /\ client[c].pc = "check_tasks"
  /\ IF outstanding = 0
     THEN /\ should_cancel' = FALSE
          /\ client' = [client EXCEPT ![c].pc = "check_queries"]
     ELSE /\ client' = [client EXCEPT ![c].pc = "await_tasks"]
          /\ UNCHANGED should_cancel
  /\ UNCHANGED <<status, task_queue, terminating, worker, outstanding,
                 in_progress, cancellation, closing, submits>>

\* vfs_->cancel_all_tasks() only waits for reads that queries in progress have
\* issued; it is part of the wait for those queries (wait_for_zero_in_progress).
await_queries(c) ==
  /\ client[c].pc = "check_queries"
  /\ client' = [client EXCEPT
                  ![c].pc = IF in_progress = 0 THEN "reset" ELSE "await_queries"]
  /\ UNCHANGED <<status, task_queue, terminating, worker, outstanding,
                 should_cancel, in_progress, cancellation, closing, submits>>

end_cancel(c) ==
  /\ client[c].pc = "reset"
  /\ cancellation' = FALSE
  /\ client' = [client EXCEPT
                  ![c].pc = IF closing THEN "terminate" ELSE "idle"]
  /\ UNCHANGED <<status, task_queue, terminating, worker, outstanding,
                 should_cancel, in_progress, closing, submits>>

\* ThreadPool::terminate: wake all workers, and wait for them.
terminate(c) ==
  /\ client[c].pc = "terminate"
  /\ terminating' = TRUE
  /\ worker' = Notified(worker, "asleep", "loop")
  /\ client' = [client EXCEPT ![c].pc = "join"]
  /\ UNCHANGED <<status, task_queue, outstanding, should_cancel, in_progress,
                 cancellation, closing, submits>>

join(c) ==
  /\ client[c].pc = "join"
  /\ \A w \in Workers : worker[w].pc = "exited"
  /\ client' = [client EXCEPT ![c].pc = "destroyed"]
  /\ UNCHANGED <<status, task_queue, terminating, worker, outstanding,
                 should_cancel, in_progress, cancellation, closing, submits>>

-------------------------------------------------------------------------------
(* The specification. *)

ClientStep(c) ==
  \/ count_task(c) \/ client_process(c) \/ client_processed(c)
  \/ set_should_cancel(c) \/ await_tasks(c) \/ await_queries(c) \/ end_cancel(c)
  \/ terminate(c) \/ join(c)

WorkerStep(w) ==
  \/ worker_loop(w) \/ start_task(w) \/ on_cancel(w)
  \/ worker_submit(w) \/ worker_process(w) \/ worker_processed(w) \/ end_task(w)

Next ==
  \/ \E c \in Clients, q \in Queries : submit_async(c, q) \/ submit(c, q)
  \/ \E c \in Clients : cancel_all_tasks(c) \/ destructor(c) \/ ClientStep(c)
  \/ \E w \in Workers : WorkerStep(w)

Spec == Init /\ [][Next]_vars

\* A thread that runs goes on; no client has to call anything.
FairSpec ==
  /\ Spec
  /\ \A c \in Clients : WF_vars(ClientStep(c))
  /\ \A w \in Workers : WF_vars(WorkerStep(w))

-------------------------------------------------------------------------------
(* Properties. *)

WorkerBusy == {"task", "run", "process", "processed", "ran", "cancel", "cancelled"}
ClientLabels == {"idle", "enqueued", "process", "processed", "cancel",
                 "check_tasks", "await_tasks", "check_queries", "await_queries",
                 "reset", "terminate", "join", "destroyed"}

\* Every variable has its type: no counter leaves its range.
TypeOK ==
  /\ status \in [Queries -> {"UNINITIALIZED", "INPROGRESS", "COMPLETED",
                             "INCOMPLETE", "FAILED"}]
  /\ task_queue \in Seq(Queries)
  /\ terminating \in BOOLEAN
  /\ worker \in [Workers -> [pc : WorkerBusy \union {"loop", "asleep", "exited"},
                             query : Queries \union {NoQuery}]]
  /\ client \in [Clients -> [pc : ClientLabels, query : Queries \union {NoQuery}]]
  /\ outstanding \in 0 .. Modulus - 1
  /\ should_cancel \in BOOLEAN
  /\ in_progress \in Nat
  /\ cancellation \in BOOLEAN
  /\ closing \in BOOLEAN
  /\ submits \in 0 .. MaxSubmits

Busy == {w \in Workers : worker[w].pc \in WorkerBusy}
Uncounted == {c \in Clients : client[c].pc = "enqueued"}

\* outstanding_tasks_ is the number of tasks queued or run, less those that
\* their client has put into the queue and not counted yet: although a task may
\* end before it is counted and the counter then wraps below zero, it comes back.
OutstandingExact ==
  outstanding = (Len(task_queue) + Cardinality(Busy) - Cardinality(Uncounted)) % Modulus

\* When the destructor has cancelled everything and goes on to delete the VFS
\* and to terminate the pool, no task is queued or run, and no query is left in
\* progress: the pool drops no task, although terminate() alone would drop the
\* queued ones, and no task uses the deleted VFS.
DestructionSettled ==
  (\E c \in Clients : client[c].pc \in {"terminate", "join", "destroyed"}) =>
    /\ task_queue = <<>> /\ Busy = {}
    /\ \A q \in Queries : status[q] # "INPROGRESS"

\* A query is never cancelled or submitted by one thread while another one
\* processes it: the comment in async_push_query relies on this.
OneProcessor ==
  \A w \in Workers :
    worker[w].pc \in {"task", "run", "process", "cancel"} =>
      /\ status[worker[w].query] = "INPROGRESS"
      /\ \A v \in Workers \ {w} :
           worker[v].pc \in {"task", "run", "process", "cancel"} =>
             worker[v].query # worker[w].query

\* Every submitted query is completed, found incomplete, failed or cancelled in
\* the end: no wakeup of a worker is lost.
QueriesSettle ==
  \A q \in Queries : status[q] = "INPROGRESS" ~> status[q] # "INPROGRESS"

\* cancel_all_tasks "waits for all pending tasks to cancel": it returns.
CancelReturns ==
  \A c \in Clients : client[c].pc = "cancel" ~> client[c].pc \in {"idle", "destroyed"}

==============================================================================
