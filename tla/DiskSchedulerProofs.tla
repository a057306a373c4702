------------------------ MODULE DiskSchedulerProofs ------------------------
(***************************************************************************)
(* Proofs about DiskScheduler, for any set of clients, any pages and any   *)
(* data: its types and who holds the mutex, that no wake-up is lost, that  *)
(* each request is in one place, that no promise is broken, and that the   *)
(* scheduler implements DiskService.                                       *)
(***************************************************************************)
EXTENDS DiskScheduler, SequenceTheorems, TLAPS

USE SchedulerAssumption DEF Putters, Goto
-----------------------------------------------------------------------------
\* The hand-over of the shutdown.  It is in the queue, in the hands of the
\* worker or has been obeyed; it is the last thing in the queue, because by then
\* no client is inside schedule(); so whoever takes it leaves an empty queue.
ShutdownIsLast ==
    /\ pc[Owner] \in {"notify", "wait"} =>
          InQueue(Owner) \/ InHand(Owner) \/ worker = "returned"
    /\ pc[Owner] \in {"idle", "lock", "emplace"} =>
          ~InQueue(Owner) /\ serving # Owner
    /\ pc[Owner] # "idle" => \A c \in Clients : pc[c] \in {"idle", "wait"}
    /\ \A i \in DOMAIN m_queue : m_queue[i] = Owner => i = Len(m_queue)
    /\ serving = Owner => m_queue = <<>> /\ worker \in {"serve", "returned"}

\* Whom the worker may be busy with.
ServesSomebody ==
    /\ worker = "serve" => serving \in Putters
    /\ worker = "answer" => serving \in Clients
    /\ worker = "returned" => serving = Owner

\* The inductive invariant.
SchedulerInv == /\ TypeOK
                /\ NoLostWakeup
                /\ EachRequestInOnePlace
                /\ ServesSomebody
                /\ ShutdownIsLast
-----------------------------------------------------------------------------
(* What the queue's operations do to the places of requests.               *)

Distinct == \A i, j \in DOMAIN m_queue : m_queue[i] = m_queue[j] => i = j

OwnerLast == \A i \in DOMAIN m_queue : m_queue[i] = Owner => i = Len(m_queue)

\* put() adds one request at the end.
LEMMA AppendToQueue ==
  ASSUME m_queue \in Seq(Putters), NEW t \in Putters, ~InQueue(t), Distinct,
         m_queue' = Append(m_queue, t), ~InQueue(Owner)
  PROVE  /\ m_queue' \in Seq(Putters)
         /\ m_queue' # <<>>
         /\ Distinct'
         /\ OwnerLast'
         /\ \A s \in Putters : InQueue(s)' <=> InQueue(s) \/ s = t
<1>1. /\ Len(m_queue) \in Nat
      /\ DOMAIN m_queue = 1 .. Len(m_queue)
      /\ m_queue' \in Seq(Putters)
      /\ Len(m_queue') = Len(m_queue) + 1
      /\ DOMAIN m_queue' = 1 .. Len(m_queue) + 1
      /\ \A i \in 1 .. Len(m_queue) : m_queue'[i] = m_queue[i]
      /\ m_queue'[Len(m_queue) + 1] = t
  OBVIOUS
<1>2. m_queue' # <<>>
  BY <1>1
<1>3. Distinct'
  BY <1>1 DEF Distinct, InQueue
<1>4. OwnerLast'
  BY <1>1 DEF OwnerLast, InQueue
<1>5. ASSUME NEW s \in Putters PROVE InQueue(s)' <=> InQueue(s) \/ s = t
  <2>1. InQueue(s) => InQueue(s)'
    BY <1>1 DEF InQueue
  <2>2. InQueue(t)'
    BY <1>1 DEF InQueue
  <2>3. InQueue(s)' => InQueue(s) \/ s = t
    BY <1>1 DEF InQueue
  <2> QED BY <2>1, <2>2, <2>3
<1> QED BY <1>1, <1>2, <1>3, <1>4, <1>5

\* get() takes the first request, which is in the queue only once; what is
\* behind the owner's is nothing.
LEMMA TakeFromQueue ==
  ASSUME m_queue \in Seq(Putters), m_queue # <<>>, Distinct, OwnerLast,
         m_queue' = Tail(m_queue)
  PROVE  /\ Head(m_queue) \in Putters
         /\ InQueue(Head(m_queue))
         /\ m_queue' \in Seq(Putters)
         /\ Distinct'
         /\ OwnerLast'
         /\ \A s \in Putters :
               InQueue(s)' <=> InQueue(s) /\ s # Head(m_queue)
         /\ Head(m_queue) = Owner => m_queue' = <<>>
<1>1. /\ Len(m_queue) \in Nat \ {0}
      /\ DOMAIN m_queue = 1 .. Len(m_queue)
      /\ \A i \in 1 .. Len(m_queue) : m_queue[i] \in Putters
      /\ Head(m_queue) = m_queue[1]
      /\ m_queue' \in Seq(Putters)
      /\ Len(m_queue') = Len(m_queue) - 1
      /\ DOMAIN m_queue' = 1 .. Len(m_queue) - 1
      /\ \A i \in 1 .. Len(m_queue) - 1 : m_queue'[i] = m_queue[i + 1]
  BY HeadTailProperties, LenProperties
<1>2. Head(m_queue) \in Putters /\ InQueue(Head(m_queue))
  BY <1>1 DEF InQueue
<1>3. Distinct'
  BY <1>1 DEF Distinct
<1>4. OwnerLast'
  BY <1>1 DEF OwnerLast
<1>5. ASSUME NEW s \in Putters
      PROVE  InQueue(s)' <=> InQueue(s) /\ s # Head(m_queue)
  <2>1. ASSUME InQueue(s)' PROVE InQueue(s) /\ s # Head(m_queue)
    <3>1. PICK i \in 1 .. Len(m_queue) - 1 : m_queue[i + 1] = s
      BY <1>1, <2>1 DEF InQueue
    <3> QED BY <1>1, <3>1 DEF InQueue, Distinct
  <2>2. ASSUME InQueue(s), s # Head(m_queue) PROVE InQueue(s)'
    <3>1. PICK i \in 1 .. Len(m_queue) : m_queue[i] = s
      BY <1>1, <2>2 DEF InQueue
    <3>2. i - 1 \in 1 .. Len(m_queue) - 1 /\ m_queue'[i - 1] = s
      BY <1>1, <2>2, <3>1
    <3> QED BY <1>1, <3>2 DEF InQueue
  <2> QED BY <2>1, <2>2
<1>6. ASSUME Head(m_queue) = Owner PROVE m_queue' = <<>>
  <2>1. Len(m_queue) = 1
    BY <1>1, <1>6 DEF OwnerLast
  <2> QED BY <1>1, <2>1
<1> QED BY <1>1, <1>2, <1>3, <1>4, <1>5, <1>6
-----------------------------------------------------------------------------
(* What each action does to the invariant.                                 *)

\* A client's part of EachRequestInOnePlace.
Placed(c) ==
    /\ pc[c] \in {"notify", "wait"} => InQueue(c) \/ InHand(c) \/ is_done[c]
    /\ pc[c] \notin {"notify", "wait"} => ~InQueue(c) /\ ~InHand(c) /\ ~is_done[c]
    /\ ~(InQueue(c) /\ InHand(c))
    /\ is_done[c] => ~InQueue(c) /\ ~InHand(c)

\* The parts of the invariant, and of the next state's.
LEMMA Parts ==
  /\ SchedulerInv <=> /\ TypeOK /\ NoLostWakeup /\ ServesSomebody
                      /\ ShutdownIsLast /\ Distinct
                      /\ \A c \in Clients : Placed(c)
  /\ SchedulerInv' <=> /\ TypeOK' /\ NoLostWakeup' /\ ServesSomebody'
                       /\ ShutdownIsLast' /\ Distinct'
                       /\ \A c \in Clients : Placed(c)'
BY DEF SchedulerInv, EachRequestInOnePlace, Distinct, Placed

\* Steps that leave the queue alone leave everybody's place in it alone.
LEMMA SameQueue ==
  ASSUME UNCHANGED m_queue
  PROVE  /\ \A s : InQueue(s)' <=> InQueue(s)
         /\ Distinct => Distinct'
BY DEF InQueue, Distinct

\* A client asks for the mutex before the owner destroys the scheduler.
LEMMA ScheduleInv ==
  ASSUME SchedulerInv, NEW c \in Clients, Schedule(c)
  PROVE  SchedulerInv'
<1>1. \A s \in Putters : InQueue(s)' <=> InQueue(s)
  BY SameQueue DEF Schedule
<1>2. TypeOK'
  BY Parts DEF TypeOK, Request, Schedule
<1>3. NoLostWakeup'
  BY Parts DEF TypeOK, NoLostWakeup, Schedule
<1>4. ServesSomebody'
  BY Parts DEF TypeOK, ServesSomebody, Schedule
<1>5. ShutdownIsLast'
  BY <1>1, Parts DEF TypeOK, ServesSomebody, ShutdownIsLast, InHand, Schedule
<1>6. Distinct'
  BY Parts, SameQueue DEF Schedule
<1>7. ASSUME NEW d \in Clients PROVE Placed(d)'
  BY <1>1, Parts DEF TypeOK, ServesSomebody, Placed, InHand, Schedule
<1> QED BY <1>2, <1>3, <1>4, <1>5, <1>6, <1>7, Parts

\* A client takes its answer.
LEMMA GetInv ==
  ASSUME SchedulerInv, NEW c \in Clients, Get(c)
  PROVE  SchedulerInv'
<1>1. \A s \in Putters : InQueue(s)' <=> InQueue(s)
  BY SameQueue DEF Get
<1>2. TypeOK'
  BY Parts DEF TypeOK, Request, Get
<1>3. NoLostWakeup'
  BY Parts DEF TypeOK, NoLostWakeup, Get
<1>4. ServesSomebody'
  BY Parts DEF TypeOK, ServesSomebody, Get
<1>5. ShutdownIsLast'
  BY <1>1, Parts DEF TypeOK, ServesSomebody, ShutdownIsLast, InHand, Get
<1>6. Distinct'
  BY Parts, SameQueue DEF Get
<1>7. ASSUME NEW d \in Clients PROVE Placed(d)'
  BY <1>1, Parts DEF TypeOK, ServesSomebody, Placed, InHand, Get
<1> QED BY <1>2, <1>3, <1>4, <1>5, <1>6, <1>7, Parts

\* A thread enters put().
LEMMA PutLockInv ==
  ASSUME SchedulerInv, NEW t \in Putters, PutLock(t)
  PROVE  SchedulerInv'
<1>1. \A s \in Putters : InQueue(s)' <=> InQueue(s)
  BY SameQueue DEF PutLock
<1>2. TypeOK'
  BY Parts DEF TypeOK, Request, PutLock
<1>3. NoLostWakeup'
  BY Parts DEF TypeOK, NoLostWakeup, PutLock
<1>4. ServesSomebody'
  BY Parts DEF TypeOK, ServesSomebody, PutLock
<1>5. ShutdownIsLast'
  BY <1>1, Parts DEF TypeOK, ServesSomebody, ShutdownIsLast, InHand, PutLock
<1>6. Distinct'
  BY Parts, SameQueue DEF PutLock
<1>7. ASSUME NEW d \in Clients PROVE Placed(d)'
  BY <1>1, Parts DEF TypeOK, ServesSomebody, Placed, InHand, PutLock
<1> QED BY <1>2, <1>3, <1>4, <1>5, <1>6, <1>7, Parts

\* The notification wakes the worker if it sleeps: the one it waits for.
LEMMA PutNotifyInv ==
  ASSUME SchedulerInv, NEW t \in Putters, PutNotify(t)
  PROVE  SchedulerInv'
<1>1. \A s \in Putters : InQueue(s)' <=> InQueue(s)
  BY SameQueue DEF PutNotify
<1>2. TypeOK'
  BY Parts DEF TypeOK, Request, PutNotify
<1>3. NoLostWakeup'
  BY Parts DEF TypeOK, NoLostWakeup, PutNotify
<1>4. ServesSomebody'
  BY Parts DEF TypeOK, ServesSomebody, PutNotify
<1>5. ShutdownIsLast'
  BY <1>1, Parts DEF TypeOK, ServesSomebody, ShutdownIsLast, InHand, PutNotify
<1>6. Distinct'
  BY Parts, SameQueue DEF PutNotify
<1>7. ASSUME NEW d \in Clients PROVE Placed(d)'
  BY <1>1, Parts DEF TypeOK, ServesSomebody, Placed, InHand, PutNotify
<1> QED BY <1>2, <1>3, <1>4, <1>5, <1>6, <1>7, Parts

\* From here on no client is inside schedule().
LEMMA DestroyInv ==
  ASSUME SchedulerInv, Destroy
  PROVE  SchedulerInv'
<1>1. \A s \in Putters : InQueue(s)' <=> InQueue(s)
  BY SameQueue DEF Destroy
<1>2. TypeOK'
  BY Parts DEF TypeOK, Request, Destroy
<1>3. NoLostWakeup'
  BY Parts DEF TypeOK, NoLostWakeup, Destroy
<1>4. ServesSomebody'
  BY Parts DEF TypeOK, ServesSomebody, Destroy
<1>5. ShutdownIsLast'
  BY <1>1, Parts DEF TypeOK, ServesSomebody, ShutdownIsLast, InHand, Destroy
<1>6. Distinct'
  BY Parts, SameQueue DEF Destroy
<1>7. ASSUME NEW d \in Clients PROVE Placed(d)'
  BY <1>1, Parts DEF TypeOK, ServesSomebody, Placed, InHand, Destroy
<1> QED BY <1>2, <1>3, <1>4, <1>5, <1>6, <1>7, Parts

\* The owner sees that the worker has returned.
LEMMA JoinInv ==
  ASSUME SchedulerInv, Join
  PROVE  SchedulerInv'
<1>1. \A s \in Putters : InQueue(s)' <=> InQueue(s)
  BY SameQueue DEF Join
<1>2. TypeOK'
  BY Parts DEF TypeOK, Request, Join
<1>3. NoLostWakeup'
  BY Parts DEF TypeOK, NoLostWakeup, Join
<1>4. ServesSomebody'
  BY Parts DEF TypeOK, ServesSomebody, Join
<1>5. ShutdownIsLast'
  BY <1>1, Parts DEF TypeOK, ServesSomebody, ShutdownIsLast, InHand, Join
<1>6. Distinct'
  BY Parts, SameQueue DEF Join
<1>7. ASSUME NEW d \in Clients PROVE Placed(d)'
  BY <1>1, Parts DEF TypeOK, ServesSomebody, Placed, InHand, Join
<1> QED BY <1>2, <1>3, <1>4, <1>5, <1>6, <1>7, Parts

\* The worker enters get().
LEMMA WorkerLockInv ==
  ASSUME SchedulerInv, WorkerLock
  PROVE  SchedulerInv'
<1>1. \A s \in Putters : InQueue(s)' <=> InQueue(s)
  BY SameQueue DEF WorkerLock
<1>2. TypeOK'
  BY Parts DEF TypeOK, Request, WorkerLock
<1>3. NoLostWakeup'
  BY Parts DEF TypeOK, NoLostWakeup, WorkerLock
<1>4. ServesSomebody'
  BY Parts DEF TypeOK, ServesSomebody, WorkerLock
<1>5. ShutdownIsLast'
  BY <1>1, Parts DEF TypeOK, ServesSomebody, ShutdownIsLast, InHand, WorkerLock
<1>6. Distinct'
  BY Parts, SameQueue DEF WorkerLock
<1>7. ASSUME NEW d \in Clients PROVE Placed(d)'
  BY <1>1, Parts DEF TypeOK, ServesSomebody, Placed, InHand, WorkerLock
<1> QED BY <1>2, <1>3, <1>4, <1>5, <1>6, <1>7, Parts

\* The worker sleeps only on an empty queue.
LEMMA WorkerSleepInv ==
  ASSUME SchedulerInv, WorkerSleep
  PROVE  SchedulerInv'
<1>1. \A s \in Putters : InQueue(s)' <=> InQueue(s)
  BY SameQueue DEF WorkerSleep
<1>2. TypeOK'
  BY Parts DEF TypeOK, Request, WorkerSleep
<1>3. NoLostWakeup'
  BY Parts DEF TypeOK, NoLostWakeup, WorkerSleep
<1>4. ServesSomebody'
  BY Parts DEF TypeOK, ServesSomebody, WorkerSleep
<1>5. ShutdownIsLast'
  BY <1>1, Parts DEF TypeOK, ServesSomebody, ShutdownIsLast, InHand, WorkerSleep
<1>6. Distinct'
  BY Parts, SameQueue DEF WorkerSleep
<1>7. ASSUME NEW d \in Clients PROVE Placed(d)'
  BY <1>1, Parts DEF TypeOK, ServesSomebody, Placed, InHand, WorkerSleep
<1> QED BY <1>2, <1>3, <1>4, <1>5, <1>6, <1>7, Parts

\* A spurious wake-up.
LEMMA WorkerWakeSpuriouslyInv ==
  ASSUME SchedulerInv, WorkerWakeSpuriously
  PROVE  SchedulerInv'
<1>1. \A s \in Putters : InQueue(s)' <=> InQueue(s)
  BY SameQueue DEF WorkerWakeSpuriously
<1>2. TypeOK'
  BY Parts DEF TypeOK, Request, WorkerWakeSpuriously
<1>3. NoLostWakeup'
  BY Parts DEF TypeOK, NoLostWakeup, WorkerWakeSpuriously
<1>4. ServesSomebody'
  BY Parts DEF TypeOK, ServesSomebody, WorkerWakeSpuriously
<1>5. ShutdownIsLast'
  BY <1>1, Parts DEF TypeOK, ServesSomebody, ShutdownIsLast, InHand, WorkerWakeSpuriously
<1>6. Distinct'
  BY Parts, SameQueue DEF WorkerWakeSpuriously
<1>7. ASSUME NEW d \in Clients PROVE Placed(d)'
  BY <1>1, Parts DEF TypeOK, ServesSomebody, Placed, InHand, WorkerWakeSpuriously
<1> QED BY <1>2, <1>3, <1>4, <1>5, <1>6, <1>7, Parts

\* The worker reads a page for a client.
LEMMA WorkerReadInv ==
  ASSUME SchedulerInv, WorkerRead
  PROVE  SchedulerInv'
<1>1. \A s \in Putters : InQueue(s)' <=> InQueue(s)
  BY SameQueue DEF WorkerRead
<1>2. TypeOK'
  BY Parts DEF TypeOK, Request, WorkerRead
<1>3. NoLostWakeup'
  BY Parts DEF TypeOK, NoLostWakeup, WorkerRead
<1>4. ServesSomebody'
  BY Parts DEF TypeOK, ServesSomebody, WorkerRead
<1>5. ShutdownIsLast'
  BY <1>1, Parts DEF TypeOK, ServesSomebody, ShutdownIsLast, InHand, WorkerRead
<1>6. Distinct'
  BY Parts, SameQueue DEF WorkerRead
<1>7. ASSUME NEW d \in Clients PROVE Placed(d)'
  BY <1>1, Parts DEF TypeOK, ServesSomebody, Placed, InHand, WorkerRead
<1> QED BY <1>2, <1>3, <1>4, <1>5, <1>6, <1>7, Parts

\* The worker writes a page for a client.
LEMMA WorkerWriteInv ==
  ASSUME SchedulerInv, WorkerWrite
  PROVE  SchedulerInv'
<1>1. \A s \in Putters : InQueue(s)' <=> InQueue(s)
  BY SameQueue DEF WorkerWrite
<1>2. TypeOK'
  BY Parts DEF TypeOK, Request, WorkerWrite
<1>3. NoLostWakeup'
  BY Parts DEF TypeOK, NoLostWakeup, WorkerWrite
<1>4. ServesSomebody'
  BY Parts DEF TypeOK, ServesSomebody, WorkerWrite
<1>5. ShutdownIsLast'
  BY <1>1, Parts DEF TypeOK, ServesSomebody, ShutdownIsLast, InHand, WorkerWrite
<1>6. Distinct'
  BY Parts, SameQueue DEF WorkerWrite
<1>7. ASSUME NEW d \in Clients PROVE Placed(d)'
  BY <1>1, Parts DEF TypeOK, ServesSomebody, Placed, InHand, WorkerWrite
<1> QED BY <1>2, <1>3, <1>4, <1>5, <1>6, <1>7, Parts

\* The manager throws.
LEMMA WorkerThrowInv ==
  ASSUME SchedulerInv, WorkerThrow
  PROVE  SchedulerInv'
<1>1. \A s \in Putters : InQueue(s)' <=> InQueue(s)
  BY SameQueue DEF WorkerThrow
<1>2. TypeOK'
  BY Parts DEF TypeOK, Request, WorkerThrow
<1>3. NoLostWakeup'
  BY Parts DEF TypeOK, NoLostWakeup, WorkerThrow
<1>4. ServesSomebody'
  BY Parts DEF TypeOK, ServesSomebody, WorkerThrow
<1>5. ShutdownIsLast'
  BY <1>1, Parts DEF TypeOK, ServesSomebody, ShutdownIsLast, InHand, WorkerThrow
<1>6. Distinct'
  BY Parts, SameQueue DEF WorkerThrow
<1>7. ASSUME NEW d \in Clients PROVE Placed(d)'
  BY <1>1, Parts DEF TypeOK, ServesSomebody, Placed, InHand, WorkerThrow
<1> QED BY <1>2, <1>3, <1>4, <1>5, <1>6, <1>7, Parts

\* The request goes from the worker's hands to the promise.
LEMMA WorkerAnswerInv ==
  ASSUME SchedulerInv, WorkerAnswer
  PROVE  SchedulerInv'
<1>1. \A s \in Putters : InQueue(s)' <=> InQueue(s)
  BY SameQueue DEF WorkerAnswer
<1>2. TypeOK'
  BY Parts DEF TypeOK, Request, WorkerAnswer
<1>3. NoLostWakeup'
  BY Parts DEF TypeOK, NoLostWakeup, WorkerAnswer
<1>4. ServesSomebody'
  BY Parts DEF TypeOK, ServesSomebody, WorkerAnswer
<1>5. ShutdownIsLast'
  BY <1>1, Parts DEF TypeOK, ServesSomebody, ShutdownIsLast, InHand, WorkerAnswer
<1>6. Distinct'
  BY Parts, SameQueue DEF WorkerAnswer
<1>7. ASSUME NEW d \in Clients PROVE Placed(d)'
  BY <1>1, Parts DEF TypeOK, ServesSomebody, Placed, InHand, WorkerAnswer
<1> QED BY <1>2, <1>3, <1>4, <1>5, <1>6, <1>7, Parts

\* The worker obeys the shutdown.
LEMMA WorkerReturnInv ==
  ASSUME SchedulerInv, WorkerReturn
  PROVE  SchedulerInv'
<1>1. \A s \in Putters : InQueue(s)' <=> InQueue(s)
  BY SameQueue DEF WorkerReturn
<1>2. TypeOK'
  BY Parts DEF TypeOK, Request, WorkerReturn
<1>3. NoLostWakeup'
  BY Parts DEF TypeOK, NoLostWakeup, WorkerReturn
<1>4. ServesSomebody'
  BY Parts DEF TypeOK, ServesSomebody, WorkerReturn
<1>5. ShutdownIsLast'
  BY <1>1, Parts DEF TypeOK, ServesSomebody, ShutdownIsLast, InHand, WorkerReturn
<1>6. Distinct'
  BY Parts, SameQueue DEF WorkerReturn
<1>7. ASSUME NEW d \in Clients PROVE Placed(d)'
  BY <1>1, Parts DEF TypeOK, ServesSomebody, Placed, InHand, WorkerReturn
<1> QED BY <1>2, <1>3, <1>4, <1>5, <1>6, <1>7, Parts

\* put() makes the request somebody's to do, and owes a notification.
LEMMA PutEmplaceInv ==
  ASSUME SchedulerInv, NEW t \in Putters, PutEmplace(t)
  PROVE  SchedulerInv'
<1>1. ~InQueue(t) /\ ~InQueue(Owner) /\ serving # Owner /\ (t # Owner => ~InHand(t))
  <2>1. pc[Owner] \in {"idle", "emplace"}
    BY Parts DEF ShutdownIsLast, PutEmplace
  <2> QED BY <2>1, Parts DEF ShutdownIsLast, Placed, PutEmplace
<1>2. /\ m_queue' \in Seq(Putters)
      /\ m_queue' # <<>>
      /\ Distinct'
      /\ OwnerLast'
      /\ \A s \in Putters : InQueue(s)' <=> InQueue(s) \/ s = t
  BY <1>1, AppendToQueue, Parts DEF TypeOK, PutEmplace
<1>3. TypeOK'
  BY <1>2, Parts DEF TypeOK, PutEmplace
<1>4. NoLostWakeup'
  BY Parts DEF TypeOK, NoLostWakeup, PutEmplace
<1>5. ServesSomebody'
  BY Parts DEF ServesSomebody, PutEmplace
<1>6. ShutdownIsLast'
  <2>1. CASE t = Owner
    BY <1>1, <1>2, <2>1, Parts DEF TypeOK, ShutdownIsLast, OwnerLast, PutEmplace
  <2>2. CASE t # Owner
    <3>1. pc[Owner] = "idle"
      BY <2>2, Parts DEF ShutdownIsLast, PutEmplace
    <3> QED BY <1>1, <1>2, <2>2, <3>1, Parts
            DEF TypeOK, ShutdownIsLast, OwnerLast, PutEmplace
  <2> QED BY <2>1, <2>2
<1>7. ASSUME NEW d \in Clients PROVE Placed(d)'
  BY <1>1, <1>2, Parts DEF TypeOK, Placed, InHand, PutEmplace
<1> QED BY <1>2, <1>3, <1>4, <1>5, <1>6, <1>7, Parts

\* get() moves the first request from the queue into the worker's hands.
LEMMA WorkerPopInv ==
  ASSUME SchedulerInv, WorkerPop
  PROVE  SchedulerInv'
<1>1. OwnerLast
  BY Parts DEF ShutdownIsLast, OwnerLast
<1>2. /\ Head(m_queue) \in Putters
      /\ InQueue(Head(m_queue))
      /\ m_queue' \in Seq(Putters)
      /\ Distinct'
      /\ OwnerLast'
      /\ \A s \in Putters : InQueue(s)' <=> InQueue(s) /\ s # Head(m_queue)
      /\ Head(m_queue) = Owner => m_queue' = <<>>
  BY <1>1, TakeFromQueue, Parts DEF TypeOK, WorkerPop
<1>3. TypeOK'
  BY <1>2, Parts DEF TypeOK, WorkerPop
<1>4. NoLostWakeup'
  BY DEF NoLostWakeup, WorkerPop
<1>5. ServesSomebody'
  BY <1>2 DEF ServesSomebody, WorkerPop
<1>6. ShutdownIsLast'
  BY <1>2, Parts DEF TypeOK, ShutdownIsLast, OwnerLast, InHand, WorkerPop
<1>7. ASSUME NEW d \in Clients PROVE Placed(d)'
  BY <1>2, Parts DEF TypeOK, Placed, InHand, WorkerPop
<1> QED BY <1>2, <1>3, <1>4, <1>5, <1>6, <1>7, Parts
-----------------------------------------------------------------------------
(* The theorems                                                            *)

\* Initially everybody is idle and the queue is empty.
LEMMA InitInv == ASSUME Init PROVE SchedulerInv
<1>1. TypeOK
  <2>1. \A t \in Putters : m_latch # t /\ pc[t] # "emplace"
    BY DEF Init
  <2>2. m_latch # Worker /\ m_queue \in Seq(Putters)
    BY DEF Init
  <2>3. /\ pc \in [Putters -> {"idle", "lock", "emplace", "notify", "wait",
                             "destroyed"}]
        /\ buffer \in [Clients -> Data]
        /\ disk \in [Pages -> Data]
        /\ is_done \in [Clients -> BOOLEAN]
    BY DEF Init
  <2> QED BY <2>1, <2>2, <2>3 DEF Init, TypeOK
<1>2. NoLostWakeup /\ ServesSomebody /\ ShutdownIsLast
  BY DEF Init, NoLostWakeup, ServesSomebody, ShutdownIsLast, InQueue
<1>3. EachRequestInOnePlace
  BY DEF Init, EachRequestInOnePlace, InQueue, InHand
<1> QED BY <1>1, <1>2, <1>3 DEF SchedulerInv

\* A step of no thread.
LEMMA StutterInv == ASSUME SchedulerInv, UNCHANGED vars PROVE SchedulerInv'
<1>1. \A s : InQueue(s)' <=> InQueue(s)
  BY SameQueue DEF vars
<1> QED BY <1>1, Parts
        DEF vars, TypeOK, NoLostWakeup, ServesSomebody, ShutdownIsLast,
            Distinct, Placed, InHand

\* Every step of every thread keeps the invariant.
LEMMA RunningInv == ASSUME SchedulerInv, Running PROVE SchedulerInv'
<1>1. CASE \E c \in Clients : Schedule(c) \/ Get(c)
  BY <1>1, ScheduleInv, GetInv
<1>2. CASE \E t \in Putters : Put(t)
  BY <1>2, PutLockInv, PutEmplaceInv, PutNotifyInv DEF Put
<1>3. CASE Destroy \/ Join
  BY <1>3, DestroyInv, JoinInv
<1>4. CASE WorkerStep
  BY <1>4, WorkerLockInv, WorkerSleepInv, WorkerPopInv, WorkerReadInv,
     WorkerWriteInv, WorkerAnswerInv, WorkerReturnInv DEF WorkerStep
<1>5. CASE WorkerWakeSpuriously \/ WorkerThrow
  BY <1>5, WorkerWakeSpuriouslyInv, WorkerThrowInv
<1> QED BY <1>1, <1>2, <1>3, <1>4, <1>5 DEF Running

\* The invariant is inductive.
LEMMA NextInv == ASSUME SchedulerInv, [Next]_vars PROVE SchedulerInv'
BY RunningInv, StutterInv DEF Next

\* The invariant holds of every behaviour.
LEMMA SchedulerInvariant == Spec => []SchedulerInv
BY InitInv, NextInv, PTL DEF Spec

\* The scheduler's state keeps its type, and the mutex is held by exactly the
\* thread that is between lock and unlock (channel.hpp:27-29, 34-39).
THEOREM SchedulerTypeCorrect == Spec => []TypeOK
<1>1. SchedulerInv => TypeOK
  BY DEF SchedulerInv
<1> QED BY <1>1, SchedulerInvariant, PTL

\* However many clients there are, the worker never sleeps on a request whose
\* notification it has missed (channel.hpp:26-41).
THEOREM NoWakeupIsLost == Spec => []NoLostWakeup
<1>1. SchedulerInv => NoLostWakeup
  BY DEF SchedulerInv
<1> QED BY <1>1, SchedulerInvariant, PTL

\* However many clients there are, a request that is waited for is queued, in
\* the worker's hands or answered, and only one of these
\* (channel.hpp:26-41, disk_scheduler.hpp:62-78).
THEOREM RequestsInOnePlace == Spec => []EachRequestInOnePlace
<1>1. SchedulerInv => EachRequestInOnePlace
  BY DEF SchedulerInv
<1> QED BY <1>1, SchedulerInvariant, PTL

\* When the worker returns because of the shutdown, no request is left and every
\* promise is set (disk_scheduler.hpp:88-94).
THEOREM NoPromiseIsBroken == Spec => []NoBrokenPromise
<1>1. ASSUME SchedulerInv, worker = "returned"
      PROVE  m_queue = <<>> /\ \A c \in Clients : pc[c] = "wait" => is_done[c]
  <2>1. m_queue = <<>>
    BY <1>1 DEF SchedulerInv, ServesSomebody, ShutdownIsLast
  <2>2. \A c \in Clients : ~InQueue(c) /\ ~InHand(c)
    BY <1>1, <2>1 DEF InQueue, InHand
  <2> QED BY <1>1, <2>1, <2>2 DEF SchedulerInv, EachRequestInOnePlace
<1>2. SchedulerInv => NoBrokenPromise
  BY <1>1 DEF NoBrokenPromise
<1> QED BY <1>2, SchedulerInvariant, PTL
-----------------------------------------------------------------------------
(* The refinement: threads, mutex and queue are invisible in DiskService.  *)

\* What Status says of a client.
LEMMA StatusCases ==
  ASSUME NEW c \in Clients
  PROVE  /\ is_done[c] => Status[c] = "ready"
         /\ ~is_done[c] /\ serving = c /\ worker = "answer" =>
               Status[c] = "performed"
         /\ ~is_done[c] /\ ~(serving = c /\ worker = "answer") =>
               Status[c] = IF pc[c] = "idle" THEN "idle" ELSE "pending"
         /\ (is_done[c])' => (Status[c])' = "ready"
         /\ (~is_done[c] /\ serving = c /\ worker = "answer")' =>
               (Status[c])' = "performed"
         /\ (~is_done[c] /\ ~(serving = c /\ worker = "answer"))' =>
               (Status[c])' = IF (pc[c])' = "idle" THEN "idle" ELSE "pending"
BY DEF Status

\* A step that changes the status of at most one client.
LEMMA StatusExcept ==
  ASSUME NEW c \in Clients, NEW v, Status'[c] = v,
         \A d \in Clients \ {c} : Status'[d] = Status[d]
  PROVE  Status' = [Status EXCEPT ![c] = v]
BY DEF Status

\* A step that changes the status of no client.
LEMMA StatusSame ==
  ASSUME \A d \in Clients : Status'[d] = Status[d]
  PROVE  Status' = Status
BY DEF Status

\* schedule() submits.
LEMMA ScheduleRefines ==
  ASSUME SchedulerInv, NEW c \in Clients, Schedule(c)
  PROVE  Service!Submit(c)
<1>1. ~is_done[c] /\ ~(serving = c /\ worker = "answer") /\ pc[c] = "idle"
  BY Parts DEF Placed, InHand, Schedule
<1>2. Status[c] = "idle"
  BY <1>1, StatusCases
<1>3. Status'[c] = "pending"
  BY <1>1, StatusCases, Parts DEF TypeOK, Schedule
<1>4. \A d \in Clients \ {c} : Status'[d] = Status[d]
  BY StatusCases, Parts DEF TypeOK, Schedule
<1>5. Status' = [Status EXCEPT ![c] = "pending"]
  BY <1>3, <1>4, StatusExcept
<1> QED BY <1>2, <1>5 DEF Service!Submit, Service!Request, Request, Schedule

\* A read or a write of the worker performs the request in its hands.
LEMMA ServeRefines ==
  ASSUME SchedulerInv, WorkerRead \/ WorkerWrite
  PROVE  serving \in Clients /\ Service!Perform(serving)
<1>1. serving \in Clients /\ InHand(serving)
  BY DEF InHand, WorkerRead, WorkerWrite
<1>2. ~is_done[serving] /\ pc[serving] # "idle" /\ worker = "serve"
  BY <1>1, Parts DEF Placed, WorkerRead, WorkerWrite
<1>3. Status[serving] = "pending"
  BY <1>1, <1>2, StatusCases
<1>4. UNCHANGED <<serving, is_done, pc, request>> /\ worker' = "answer"
  BY DEF WorkerRead, WorkerWrite
<1>5. Status'[serving] = "performed"
  BY <1>1, <1>2, <1>4, StatusCases
<1>6. \A d \in Clients \ {serving} : Status'[d] = Status[d]
  BY <1>2, <1>4, StatusCases
<1>7. Status' = [Status EXCEPT ![serving] = "performed"]
  BY <1>1, <1>5, <1>6, StatusExcept
<1>8. CASE WorkerRead
  BY <1>1, <1>3, <1>7, <1>8 DEF Service!Perform, WorkerRead
<1>9. CASE WorkerWrite
  BY <1>1, <1>3, <1>7, <1>9 DEF Service!Perform, WorkerWrite
<1> QED BY <1>1, <1>8, <1>9

\* Setting the promise answers.
LEMMA AnswerRefines ==
  ASSUME SchedulerInv, WorkerAnswer
  PROVE  serving \in Clients /\ Service!Answer(serving)
<1>1. serving \in Clients /\ worker = "answer" /\ InHand(serving)
  BY Parts DEF ServesSomebody, InHand, WorkerAnswer
<1>2. ~is_done[serving]
  BY <1>1, Parts DEF Placed
<1>3. Status[serving] = "performed"
  BY <1>1, <1>2, StatusCases
<1>4. Status'[serving] = "ready"
  BY <1>1, StatusCases, Parts DEF TypeOK, WorkerAnswer
<1>5. \A d \in Clients \ {serving} : Status'[d] = Status[d]
  BY <1>1, StatusCases, Parts DEF TypeOK, WorkerAnswer
<1>6. Status' = [Status EXCEPT ![serving] = "ready"]
  BY <1>1, <1>4, <1>5, StatusExcept
<1> QED BY <1>1, <1>3, <1>6 DEF Service!Answer, WorkerAnswer

\* Getting the future's value returns.
LEMMA GetRefines ==
  ASSUME SchedulerInv, NEW c \in Clients, Get(c)
  PROVE  Service!Return(c)
<1>1. is_done[c] /\ ~(serving = c /\ worker = "answer")
  BY Parts DEF Placed, InHand, Get
<1>2. Status[c] = "ready"
  BY <1>1, StatusCases
<1>3. Status'[c] = "idle"
  BY <1>1, StatusCases, Parts DEF TypeOK, Get
<1>4. \A d \in Clients \ {c} : Status'[d] = Status[d]
  BY StatusCases, Parts DEF TypeOK, Get
<1>5. Status' = [Status EXCEPT ![c] = "idle"]
  BY <1>3, <1>4, StatusExcept
<1> QED BY <1>2, <1>5 DEF Service!Return, Get

\* Nothing else that a thread does can be seen.
LEMMA HiddenRefines ==
  ASSUME SchedulerInv,
         \/ \E t \in Putters : Put(t)
         \/ Destroy \/ Join \/ WorkerLock \/ WorkerSleep \/ WorkerPop
         \/ WorkerReturn \/ WorkerWakeSpuriously \/ WorkerThrow
  PROVE  UNCHANGED Service!vars
<1>1. UNCHANGED <<disk, request, buffer, is_done>>
  BY DEF Put, PutLock, PutEmplace, PutNotify, Destroy, Join, WorkerLock,
         WorkerSleep, WorkerPop, WorkerReturn, WorkerWakeSpuriously, WorkerThrow
<1>2. \A d \in Clients : (pc'[d] = "idle") <=> (pc[d] = "idle")
  <2>1. CASE \E t \in Putters : Put(t)
    BY <2>1, Parts DEF TypeOK, Put, PutLock, PutEmplace, PutNotify
  <2>2. CASE Destroy \/ Join
    BY <2>2, Parts DEF TypeOK, Destroy, Join
  <2>3. CASE ~((\E t \in Putters : Put(t)) \/ Destroy \/ Join)
    BY <2>3 DEF WorkerLock, WorkerSleep, WorkerPop, WorkerReturn,
                WorkerWakeSpuriously, WorkerThrow
  <2> QED BY <2>1, <2>2, <2>3
<1>3. \/ UNCHANGED <<serving, worker>>
      \/ worker # "answer" /\ worker' # "answer"
  BY DEF Put, PutLock, PutEmplace, PutNotify, Destroy, Join, WorkerLock,
         WorkerSleep, WorkerPop, WorkerReturn, WorkerWakeSpuriously, WorkerThrow
<1>4. \A d \in Clients : Status'[d] = Status[d]
  BY <1>1, <1>2, <1>3, StatusCases
<1>5. Status' = Status
  BY <1>4, StatusSame
<1> QED BY <1>1, <1>5 DEF Service!vars

\* Every step is a step of DiskService or invisible there.
LEMMA StepRefines ==
  ASSUME SchedulerInv, [Next]_vars
  PROVE  [Service!Next]_(Service!vars)
<1>1. CASE UNCHANGED vars
  BY <1>1 DEF vars, Service!vars, Status
<1>2. CASE Running
  <2>1. CASE \E c \in Clients : Schedule(c)
    BY <2>1, ScheduleRefines DEF Service!Next
  <2>2. CASE \E c \in Clients : Get(c)
    BY <2>2, GetRefines DEF Service!Next
  <2>3. CASE WorkerRead \/ WorkerWrite
    BY <2>3, ServeRefines DEF Service!Next
  <2>4. CASE WorkerAnswer
    BY <2>4, AnswerRefines DEF Service!Next
  <2> QED BY <1>2, <2>1, <2>2, <2>3, <2>4, HiddenRefines
          DEF Running, WorkerStep
<1> QED BY <1>1, <1>2 DEF Next

\* Nobody has made a request.
LEMMA InitRefines == ASSUME Init PROVE Service!Init
<1>1. \A c \in Clients : Status[c] = "idle"
  BY StatusCases DEF Init
<1>2. Status = [c \in Clients |-> "idle"]
  BY <1>1 DEF Status
<1> QED BY <1>2 DEF Init, Service!Init, Service!Request, Request

\* The scheduler implements DiskService for any number of clients: what the
\* threads do to each other is invisible but for the order in which requests act
\* on the disk (disk_scheduler.hpp:58-85).
THEOREM SchedulerImplementsService == Spec => ImplementsDiskService
<1>1. Init => Service!Init
  BY InitRefines
<1>2. SchedulerInv /\ [Next]_vars => [Service!Next]_(Service!vars)
  BY StepRefines
<1> QED BY <1>1, <1>2, SchedulerInvariant, PTL
        DEF Spec, ImplementsDiskService, Service!Spec
=============================================================================
