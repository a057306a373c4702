---------------------------- MODULE DiskScheduler ----------------------------
(***************************************************************************)
(* The disk scheduler, hivedb::disk_scheduler (src/include/disk/           *)
(* disk_scheduler.hpp), over the channel of src/include/misc/channel.hpp.  *)
(*                                                                         *)
(* Client threads put requests into the channel and wait for the future of *)
(* each; a worker thread takes them out, has the manager perform them and  *)
(* sets the promise; the owner's destructor puts a shutdown request and    *)
(* joins the worker.  Steps are what other threads can see: taking the     *)
(* mutex, changing the queue and releasing the mutex, notifying, sleeping, *)
(* using the disk, setting a promise.                                      *)
(*                                                                         *)
(* A client has one request at a time, so that the queue holds the thread  *)
(* that put each request, the owner standing for the shutdown.             *)
(***************************************************************************)
EXTENDS Naturals, Sequences, FiniteSets

CONSTANTS
    Clients,        \* threads that use the scheduler
    Pages,          \* page ids
    Data,           \* what a page may hold
    ZeroPage,       \* what a page holds before it is written
    Owner,          \* the thread that destroys the scheduler
    Worker,         \* m_worker_thread
    Nobody,         \* the holder of a free mutex
    ManagerThrows   \* whether read_page and write_page may throw

ASSUME SchedulerAssumption == /\ Owner \notin Clients
                              /\ Worker \notin Clients \cup {Owner}
                              /\ Nobody \notin Clients \cup {Owner, Worker}
                              /\ ZeroPage \in Data
                              /\ ManagerThrows \in BOOLEAN

VARIABLES
    m_latch,        \* the thread that holds the channel's mutex
    m_queue,        \* the channel's queue
    pc,             \* client or owner -> where it is
    worker,         \* where the worker thread is
    serving,        \* whose request the worker took last
    request,        \* client -> type and page of its request
    buffer,         \* client -> the memory its request points to
    is_done,        \* client -> whether its promise is set
    disk,           \* what the manager stores
    terminated      \* std::terminate() was called

vars == <<m_latch, m_queue, pc, worker, serving, request, buffer, is_done,
          disk, terminated>>

Putters == Clients \cup {Owner}

Request == [type : {"read", "write"}, page : Pages]

Init == /\ m_latch = Nobody
        /\ m_queue = <<>>
        /\ pc = [t \in Putters |-> "idle"]
        /\ worker = "get"
        /\ serving = Nobody
        /\ request \in [Clients -> Request]
        /\ buffer = [c \in Clients |-> ZeroPage]
        /\ is_done = [c \in Clients |-> FALSE]
        /\ disk = [p \in Pages |-> ZeroPage]
        /\ terminated = FALSE
-----------------------------------------------------------------------------
(* channel::put, called by schedule() and by the destructor                *)

Goto(t, place) == pc' = [pc EXCEPT ![t] = place]

PutLock(t) == /\ pc[t] = "lock"
              /\ m_latch = Nobody
              /\ m_latch' = t
              /\ Goto(t, "emplace")
              /\ UNCHANGED <<m_queue, worker, serving, request, buffer, is_done,
                             disk, terminated>>

\* Mutations of PutEmplace: the mutex is not released; nobody is notified; the
\* shutdown goes to the front of the queue.
LockedPutEmplace(t) == /\ pc[t] = "emplace"
                       /\ m_queue' = Append(m_queue, t)
                       /\ Goto(t, "notify")
                       /\ UNCHANGED <<m_latch, worker, serving, request, buffer,
                                      is_done, disk, terminated>>

SilentPutEmplace(t) == /\ pc[t] = "emplace"
                       /\ m_queue' = Append(m_queue, t)
                       /\ m_latch' = Nobody
                       /\ Goto(t, "wait")
                       /\ UNCHANGED <<worker, serving, request, buffer, is_done,
                                      disk, terminated>>

UrgentPutEmplace(t) == /\ pc[t] = "emplace"
                       /\ m_queue' = IF t = Owner THEN <<t>> \o m_queue
                                                  ELSE Append(m_queue, t)
                       /\ m_latch' = Nobody
                       /\ Goto(t, "notify")
                       /\ UNCHANGED <<worker, serving, request, buffer, is_done,
                                      disk, terminated>>

PutEmplace(t) == /\ pc[t] = "emplace"
                 /\ m_queue' = Append(m_queue, t)
                 /\ m_latch' = Nobody
                 /\ Goto(t, "notify")
                 /\ UNCHANGED <<worker, serving, request, buffer, is_done, disk,
                                terminated>>

\* A mutation of PutNotify: the sleeping worker is not woken.
LostPutNotify(t) == /\ pc[t] = "notify"
                    /\ Goto(t, "wait")
                    /\ UNCHANGED <<m_latch, m_queue, worker, serving, request,
                                   buffer, is_done, disk, terminated>>

\* notify_all() wakes the worker if it sleeps, and is lost if it does not.
PutNotify(t) == /\ pc[t] = "notify"
                /\ worker' = IF worker = "asleep" THEN "get" ELSE worker
                /\ Goto(t, "wait")
                /\ UNCHANGED <<m_latch, m_queue, serving, request, buffer,
                               is_done, disk, terminated>>

Put(t) == PutLock(t) \/ PutEmplace(t) \/ PutNotify(t)
-----------------------------------------------------------------------------
(* A client: schedule() a request, then wait for its future.               *)

Schedule(c) == /\ pc[c] = "idle"
               /\ pc[Owner] = "idle"
               /\ Goto(c, "lock")
               /\ \E r \in Request, d \in Data :
                     /\ request' = [request EXCEPT ![c] = r]
                     /\ buffer' = [buffer EXCEPT ![c] = d]
               /\ UNCHANGED <<m_latch, m_queue, worker, serving, is_done, disk,
                              terminated>>

Get(c) == /\ pc[c] = "wait"
          /\ is_done[c]
          /\ is_done' = [is_done EXCEPT ![c] = FALSE]
          /\ Goto(c, "idle")
          /\ UNCHANGED <<m_latch, m_queue, worker, serving, request, buffer,
                         disk, terminated>>
-----------------------------------------------------------------------------
(* The destructor.  It may run while requests are still to be served, but  *)
(* not while another thread is inside schedule().                          *)

Destroy == /\ pc[Owner] = "idle"
           /\ \A c \in Clients : pc[c] \in {"idle", "wait"}
           /\ Goto(Owner, "lock")
           /\ UNCHANGED <<m_latch, m_queue, worker, serving, request, buffer,
                          is_done, disk, terminated>>

Join == /\ pc[Owner] = "wait"
        /\ worker = "returned"
        /\ Goto(Owner, "destroyed")
        /\ UNCHANGED <<m_latch, m_queue, worker, serving, request, buffer,
                       is_done, disk, terminated>>
-----------------------------------------------------------------------------
(* The worker thread: channel::get and the loop around it                  *)

WorkerLock == /\ worker = "get"
              /\ m_latch = Nobody
              /\ m_latch' = Worker
              /\ worker' = "test"
              /\ UNCHANGED <<m_queue, pc, serving, request, buffer, is_done,
                             disk, terminated>>

\* The predicate is false: release the mutex and sleep, in one step.
WorkerSleep == /\ worker = "test"
               /\ m_queue = <<>>
               /\ m_latch' = Nobody
               /\ worker' = "asleep"
               /\ UNCHANGED <<m_queue, pc, serving, request, buffer, is_done,
                              disk, terminated>>

WorkerWakeSpuriously == /\ worker = "asleep"
                        /\ worker' = "get"
                        /\ UNCHANGED <<m_latch, m_queue, pc, serving, request,
                                       buffer, is_done, disk, terminated>>

\* A mutation of WorkerPop: the request stays in the queue.
PeekWorkerPop == /\ worker = "test"
                 /\ m_queue # <<>>
                 /\ serving' = Head(m_queue)
                 /\ m_latch' = Nobody
                 /\ worker' = "serve"
                 /\ UNCHANGED <<m_queue, pc, request, buffer, is_done, disk,
                                terminated>>

WorkerPop == /\ worker = "test"
             /\ m_queue # <<>>
             /\ serving' = Head(m_queue)
             /\ m_queue' = Tail(m_queue)
             /\ m_latch' = Nobody
             /\ worker' = "serve"
             /\ UNCHANGED <<pc, request, buffer, is_done, disk, terminated>>

\* A mutation of WorkerRead: a write request may be taken for a read.
UncheckedWorkerRead == /\ worker = "serve"
                       /\ serving \in Clients
                       /\ buffer' = [buffer EXCEPT ![serving] =
                                         disk[request[serving].page]]
                       /\ worker' = "answer"
                       /\ UNCHANGED <<m_latch, m_queue, pc, serving, request,
                                      is_done, disk, terminated>>

WorkerRead == /\ worker = "serve"
              /\ serving \in Clients
              /\ request[serving].type = "read"
              /\ buffer' = [buffer EXCEPT ![serving] =
                                disk[request[serving].page]]
              /\ worker' = "answer"
              /\ UNCHANGED <<m_latch, m_queue, pc, serving, request, is_done,
                             disk, terminated>>

WorkerWrite == /\ worker = "serve"
               /\ serving \in Clients
               /\ request[serving].type = "write"
               /\ disk' = [disk EXCEPT ![request[serving].page] =
                                buffer[serving]]
               /\ worker' = "answer"
               /\ UNCHANGED <<m_latch, m_queue, pc, serving, request, buffer,
                              is_done, terminated>>

\* Nothing in the loop catches what the manager throws.
WorkerThrow == /\ ManagerThrows
               /\ worker = "serve"
               /\ serving \in Clients
               /\ terminated' = TRUE
               /\ UNCHANGED <<m_latch, m_queue, pc, worker, serving, request,
                              buffer, is_done, disk>>

WorkerAnswer == /\ worker = "answer"
                /\ is_done' = [is_done EXCEPT ![serving] = TRUE]
                /\ worker' = "get"
                /\ UNCHANGED <<m_latch, m_queue, pc, serving, request, buffer,
                               disk, terminated>>

\* A mutation of WorkerReturn: break instead of return.
BreakWorkerReturn == /\ worker = "serve"
                     /\ serving = Owner
                     /\ worker' = "get"
                     /\ UNCHANGED <<m_latch, m_queue, pc, serving, request,
                                    buffer, is_done, disk, terminated>>

WorkerReturn == /\ worker = "serve"
                /\ serving = Owner
                /\ worker' = "returned"
                /\ UNCHANGED <<m_latch, m_queue, pc, serving, request, buffer,
                               is_done, disk, terminated>>

WorkerStep == \/ WorkerLock \/ WorkerSleep \/ WorkerPop \/ WorkerRead
              \/ WorkerWrite \/ WorkerAnswer \/ WorkerReturn
-----------------------------------------------------------------------------
Running ==
    \/ \E c \in Clients : Schedule(c) \/ Get(c)
    \/ \E t \in Putters : Put(t)
    \/ Destroy
    \/ Join
    \/ WorkerStep
    \/ WorkerWakeSpuriously
    \/ WorkerThrow

\* The scheduler is gone and every thread that used it has returned, or the
\* process has been terminated.
Over == \/ terminated
        \/ /\ pc[Owner] = "destroyed"
           /\ \A c \in Clients : pc[c] = "idle"

Next == \/ ~terminated /\ Running
        \/ Over /\ UNCHANGED vars

\* Every thread that can go on eventually does, and none that asks for the
\* mutex is passed over for ever.  Nothing is assumed of spurious wake-ups (there
\* may be infinitely many), nor of when clients make requests and the owner
\* destroys the scheduler.
Fairness ==
    /\ WF_vars(~terminated /\ WorkerStep)
    /\ WF_vars(~terminated /\ Join)
    /\ \A t \in Putters : /\ WF_vars(~terminated /\ Put(t))
                          /\ SF_vars(~terminated /\ PutLock(t))
    /\ \A c \in Clients : WF_vars(~terminated /\ Get(c))

Spec == Init /\ [][Next]_vars

FairSpec == Spec /\ Fairness
-----------------------------------------------------------------------------
\* Types, and who holds the mutex: exactly the thread between its lock and its
\* unlock (channel.hpp:27-29 and 34-39).
TypeOK ==
    /\ m_latch \in Putters \cup {Worker, Nobody}
    /\ \A t \in Putters : m_latch = t <=> pc[t] = "emplace"
    /\ m_latch = Worker <=> worker = "test"
    /\ m_queue \in Seq(Putters)
    /\ pc \in [Putters -> {"idle", "lock", "emplace", "notify", "wait",
                           "destroyed"}]
    /\ worker \in {"get", "test", "asleep", "serve", "answer", "returned"}
    /\ serving \in Putters \cup {Nobody}
    /\ request \in [Clients -> Request]
    /\ buffer \in [Clients -> Data]
    /\ is_done \in [Clients -> BOOLEAN]
    /\ disk \in [Pages -> Data]
    /\ terminated \in BOOLEAN

\* put() notifies after it has released the mutex (channel.hpp:29-30).  Even so
\* the worker never sleeps on a request whose notification it has missed: one
\* is still to come.
NoLostWakeup ==
    worker = "asleep" /\ m_queue # <<>> => \E t \in Putters : pc[t] = "notify"

\* A client that waits is in exactly one place: in the queue, in the hands of
\* the worker, or answered.  No request is lost, or performed twice
\* (channel.hpp:26-41, disk_scheduler.hpp:62-78).
InQueue(c) == \E i \in DOMAIN m_queue : m_queue[i] = c

InHand(c) == serving = c /\ worker \in {"serve", "answer"}

EachRequestInOnePlace ==
    /\ \A i, j \in DOMAIN m_queue : m_queue[i] = m_queue[j] => i = j
    /\ \A c \in Clients :
          /\ pc[c] \in {"notify", "wait"} => InQueue(c) \/ InHand(c) \/ is_done[c]
          /\ pc[c] \notin {"notify", "wait"} =>
                ~InQueue(c) /\ ~InHand(c) /\ ~is_done[c]
          /\ ~(InQueue(c) /\ InHand(c))
          /\ is_done[c] => ~InQueue(c) /\ ~InHand(c)

\* The shutdown goes through the same queue as the requests, so the worker
\* leaves no request behind: once it has returned every promise is set, and
\* none is broken by the destruction of the queue (disk_scheduler.hpp:88-94).
NoBrokenPromise ==
    worker = "returned" => /\ m_queue = <<>>
                           /\ \A c \in Clients : pc[c] = "wait" => is_done[c]

\* A client that makes a request gets its answer and goes on, if the process
\* lives: buffer_pool.hpp:141 and 281 wait for the future without a timeout.
EveryRequestAnswered ==
    \A c \in Clients : pc[c] # "idle" ~> pc[c] = "idle" \/ terminated

\* The destructor returns: join() does not wait for ever
\* (disk_scheduler.hpp:91-93).
DestructorReturns == pc[Owner] # "idle" ~> pc[Owner] = "destroyed" \/ terminated

\* buffer_pool.hpp:142 and 282-283 handle a request that failed by throwing to
\* the caller: the failure of the manager is to reach the thread that asked.
FailureReachesCaller == ~terminated
-----------------------------------------------------------------------------
\* How far a request is, in the terms of DiskService.
Status == [c \in Clients |->
    CASE is_done[c] -> "ready"
      [] ~is_done[c] /\ serving = c /\ worker = "answer" -> "performed"
      [] ~is_done[c] /\ ~(serving = c /\ worker = "answer") ->
            IF pc[c] = "idle" THEN "idle" ELSE "pending"]

Service == INSTANCE DiskService WITH contents <- disk, status <- Status

\* The scheduler implements DiskService: mutex, queue, condition variable and
\* worker make one disk shared by threads look like one that performs a request
\* at a time (disk_scheduler.hpp:58-85).
ImplementsDiskService == Service!Spec
=============================================================================
