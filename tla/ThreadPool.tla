----------------------------- MODULE ThreadPool -----------------------------
(***************************************************************************)
(* ILibThreadPool: threads that the application donates to a pool with     *)
(* AddThread serve a queue of work items until Destroy.                    *)
(*                                                                         *)
(* The queue, NumThreads and Terminate are only touched between            *)
(* ILibQueue_Lock and ILibQueue_UnLock and no critical section blocks, so  *)
(* each critical section is one action; everything between two critical    *)
(* sections (a semaphore operation, the call of the handler) is an action  *)
(* of its own.  SyncHandle and AbortHandle are counting semaphores.        *)
(***************************************************************************)
EXTENDS Naturals, Sequences, FiniteSets

CONSTANTS
  Thread,    \* the threads the application hands to ILibThreadPool_AddThread
  Item,      \* the work items that may ever be submitted
  None,      \* no work item
  LateJoin   \* may a thread reach AddThread after Destroy was entered?

ASSUME ThreadPoolAssumption ==
  /\ IsFiniteSet(Thread)
  /\ None \notin Item
  /\ LateJoin \in BOOLEAN

VARIABLES
  NumThreads, Terminate, WorkItemQueue, SyncHandle, AbortHandle,
  pc,         \* where each thread is in ILibThreadPool_AddThread
  wi,         \* the work item each thread holds
  client,     \* the item another thread runs inline in QueueUserWorkItem
  destroyer,  \* where the caller of ILibThreadPool_Destroy is
  toPost,     \* its local count: SyncHandle posts still to do
  mustWait,   \* its local ok: were there threads to wait for?
  item        \* history: what became of each item

handles   == <<SyncHandle, AbortHandle>>
destroy   == <<destroyer, toPost, mustWait>>
vars      == <<NumThreads, Terminate, WorkItemQueue, handles, pc, wi, client,
               destroy, item>>

(* Threads that are counted in NumThreads, and threads that still have to  *)
(* touch the pool's memory.                                                *)
Counted    == {"waiting", "woken", "callback", "discard", "recheck", "leaving"}
UsingPool  == Counted \cup {"signalling"}
Location   == UsingPool \cup {"outside", "returned"}
Members    == {t \in Thread : pc[t] \in Counted}
Woken      == {t \in Thread : pc[t] = "woken"}
Freed      == destroyer = "returned"
ItemState  == {"fresh", "queued", "running", "done", "dropped", "leaked"}

Init ==
  /\ NumThreads = 0 /\ Terminate = FALSE /\ WorkItemQueue = <<>>
  /\ SyncHandle = 0 /\ AbortHandle = 0
  /\ pc = [t \in Thread |-> "outside"]
  /\ wi = [t \in Thread |-> None]
  /\ client = None
  /\ destroyer = "idle" /\ toPost = 0 /\ mustWait = FALSE
  /\ item = [i \in Item |-> "fresh"]

Goto(t, l) == pc' = [pc EXCEPT ![t] = l]

(* The arithmetic of the critical sections, each with a faulty variant that *)
(* shows the properties below can fail.                                     *)
WithThread(n) == n + 1                               \* AddThread: ++NumThreads

OffByOneOut(n) == n = 1
LastOut(n) == n = 0                                  \* AddThread: if(ok==0)

PostOnEmptyOnly(q) == IF q = <<>> THEN 1 ELSE 0
TokensFor(q) == 1                                    \* one lock_post per EnQueue

PeekInstead(q) == q
AfterDeQueue(q) == Tail(q)                           \* ILibQueue_DeQueue

-----------------------------------------------------------------------------
(* ILibThreadPool_AddThread, run by a thread of the pool *)

AddThread(t) ==
  /\ pc[t] = "outside"
  /\ ~Freed
  /\ LateJoin \/ destroyer = "idle"
  /\ NumThreads' = WithThread(NumThreads)
  /\ Goto(t, "waiting")
  /\ UNCHANGED <<Terminate, WorkItemQueue, handles, wi, client, destroy, item>>

WaitSync(t) ==
  /\ pc[t] = "waiting"
  /\ SyncHandle > 0
  /\ SyncHandle' = SyncHandle - 1
  /\ Goto(t, "woken")
  /\ UNCHANGED <<NumThreads, Terminate, WorkItemQueue, AbortHandle, wi, client,
                 destroy, item>>

(* One critical section takes the item and reads Terminate into abort; the  *)
(* pair decides whether the handler is called or the item only freed.       *)
DeQueue(t) ==
  /\ pc[t] = "woken"
  /\ \/ /\ WorkItemQueue = <<>>
        /\ Goto(t, "recheck")
        /\ UNCHANGED <<WorkItemQueue, wi, item>>
     \/ /\ WorkItemQueue # <<>>
        /\ WorkItemQueue' = AfterDeQueue(WorkItemQueue)
        /\ wi' = [wi EXCEPT ![t] = Head(WorkItemQueue)]
        /\ Goto(t, IF Terminate THEN "discard" ELSE "callback")
        /\ item' = [item EXCEPT ![Head(WorkItemQueue)] =
                      IF Terminate THEN "dropped" ELSE "running"]
  /\ UNCHANGED <<NumThreads, Terminate, handles, client, destroy>>

(* The handler returned (or was skipped) and the work item is freed. *)
FreeItem(t) ==
  /\ pc[t] \in {"callback", "discard"}
  /\ item' = [item EXCEPT ![wi[t]] = IF pc[t] = "callback" THEN "done" ELSE @]
  /\ wi' = [wi EXCEPT ![t] = None]
  /\ Goto(t, "recheck")
  /\ UNCHANGED <<NumThreads, Terminate, WorkItemQueue, handles, client, destroy>>

Recheck(t) ==
  /\ pc[t] = "recheck"
  /\ Goto(t, IF Terminate THEN "leaving" ELSE "waiting")
  /\ UNCHANGED <<NumThreads, Terminate, WorkItemQueue, handles, wi, client,
                 destroy, item>>

Leave(t) ==
  /\ pc[t] = "leaving"
  /\ NumThreads' = NumThreads - 1
  /\ Goto(t, IF LastOut(NumThreads') THEN "signalling" ELSE "returned")
  /\ UNCHANGED <<Terminate, WorkItemQueue, handles, wi, client, destroy, item>>

SignalAbort(t) ==
  /\ pc[t] = "signalling"
  /\ AbortHandle' = AbortHandle + 1
  /\ Goto(t, "returned")
  /\ UNCHANGED <<NumThreads, Terminate, WorkItemQueue, SyncHandle, wi, client,
                 destroy, item>>

-----------------------------------------------------------------------------
(* ILibThreadPool_QueueUserWorkItem.  With threads in the pool the item is  *)
(* queued and SyncHandle posted in the same critical section; with none the *)
(* caller runs the handler itself, after the lock is released.              *)

EnQueue(i) ==
  /\ NumThreads # 0
  /\ WorkItemQueue' = Append(WorkItemQueue, i)
  /\ SyncHandle' = SyncHandle + TokensFor(WorkItemQueue)
  /\ item' = [item EXCEPT ![i] = "queued"]
  /\ UNCHANGED <<NumThreads, Terminate, AbortHandle, pc, wi, client, destroy>>

RunInline(i) ==
  /\ NumThreads = 0
  /\ client' = i
  /\ item' = [item EXCEPT ![i] = "running"]
  /\ UNCHANGED <<NumThreads, Terminate, WorkItemQueue, handles, pc, wi, destroy>>

(* The microstack thread submits while the pool exists ... *)
SubmitFromClient(i) ==
  /\ item[i] = "fresh" /\ client = None /\ ~Freed
  /\ EnQueue(i) \/ RunInline(i)

(* ... and handlers submit follow-up items, as DHC_Pool and DH_Pool do. *)
SubmitFromHandler(t, i) ==
  /\ item[i] = "fresh" /\ pc[t] = "callback"
  /\ EnQueue(i)

InlineDone ==
  /\ client # None
  /\ item' = [item EXCEPT ![client] = "done"]
  /\ client' = None
  /\ UNCHANGED <<NumThreads, Terminate, WorkItemQueue, handles, pc, wi, destroy>>

-----------------------------------------------------------------------------
(* ILibThreadPool_Destroy, run by one thread that is not of the pool *)

DestroyEnter ==
  /\ destroyer = "idle"
  /\ Terminate' = TRUE
  /\ toPost' = NumThreads
  /\ mustWait' = (NumThreads # 0)
  /\ destroyer' = "posting"
  /\ UNCHANGED <<NumThreads, WorkItemQueue, handles, pc, wi, client, item>>

DestroyPost ==
  /\ destroyer = "posting" /\ toPost # 0
  /\ SyncHandle' = SyncHandle + 1
  /\ toPost' = toPost - 1
  /\ UNCHANGED <<NumThreads, Terminate, WorkItemQueue, AbortHandle, pc, wi,
                 client, destroyer, mustWait, item>>

DestroyWait ==
  /\ destroyer = "posting" /\ toPost = 0
  /\ \/ mustWait /\ AbortHandle > 0 /\ AbortHandle' = AbortHandle - 1
     \/ ~mustWait /\ UNCHANGED AbortHandle
  /\ destroyer' = "teardown"
  /\ UNCHANGED <<NumThreads, Terminate, WorkItemQueue, SyncHandle, pc, wi,
                 client, toPost, mustWait, item>>

(* The semaphores, the queue and the pool are released; ILibQueue_Destroy   *)
(* frees the list, so what is still queued is never seen again.             *)
DestroyFree ==
  /\ destroyer = "teardown"
  /\ destroyer' = "returned"
  /\ item' = [i \in Item |-> IF item[i] = "queued" THEN "leaked" ELSE item[i]]
  /\ WorkItemQueue' = <<>>
  /\ UNCHANGED <<NumThreads, Terminate, handles, pc, wi, client, toPost, mustWait>>

-----------------------------------------------------------------------------
PoolThread(t) ==
  \/ AddThread(t) \/ WaitSync(t) \/ DeQueue(t) \/ FreeItem(t)
  \/ Recheck(t) \/ Leave(t) \/ SignalAbort(t)

Submit ==
  \/ \E i \in Item : SubmitFromClient(i)
  \/ \E t \in Thread, i \in Item : SubmitFromHandler(t, i)
  \/ InlineDone

Destroy == DestroyEnter \/ DestroyPost \/ DestroyWait \/ DestroyFree

Next == (\E t \in Thread : PoolThread(t)) \/ Submit \/ Destroy

Spec == Init /\ [][Next]_vars

(* Fairness: the scheduler runs every thread that can run, and a handler    *)
(* returns.  Nobody is obliged to call AddThread, to submit or to destroy.  *)
Fairness ==
  /\ \A t \in Thread :
       WF_vars(WaitSync(t) \/ DeQueue(t) \/ FreeItem(t)
               \/ Recheck(t) \/ Leave(t) \/ SignalAbort(t))
  /\ WF_vars(DestroyPost \/ DestroyWait \/ DestroyFree)

FairSpec == Spec /\ Fairness

-----------------------------------------------------------------------------
(* Types of the state variables. *)
TypeOK ==
  /\ NumThreads \in Nat /\ Terminate \in BOOLEAN
  /\ WorkItemQueue \in Seq(Item)
  /\ SyncHandle \in Nat /\ AbortHandle \in Nat
  /\ pc \in [Thread -> Location]
  /\ wi \in [Thread -> Item \cup {None}]
  /\ client \in Item \cup {None}
  /\ destroyer \in {"idle", "posting", "teardown", "returned"}
  /\ toPost \in Nat /\ mustWait \in BOOLEAN
  /\ item \in [Item -> ItemState]

(* Until Destroy, every queued item is matched by one semaphore token or by *)
(* one thread that took a token and has not dequeued yet: no wake-up is     *)
(* lost (an item nobody will fetch) and none is spurious (a thread that     *)
(* finds the queue empty).  Relates QueueUserWorkItem's post to the         *)
(* wait/dequeue pair of AddThread.                                          *)
WakeUpsMatchItems ==
  ~Terminate => SyncHandle + Cardinality(Woken) = Len(WorkItemQueue)

(* When Destroy tears down the semaphores, the queue and the pool, no       *)
(* thread of the pool is left between entering AddThread and its last       *)
(* access, the post of AbortHandle.                                         *)
NoUseAfterFree ==
  destroyer \in {"teardown", "returned"} => \A t \in Thread : pc[t] \notin UsingPool

(* Destroy never waits in vain: as long as the post of AbortHandle is to    *)
(* come, a thread of the pool is on its way to it or has a token to wake    *)
(* up with.                                                                 *)
DestroyIsAwaited ==
  destroyer = "posting" /\ toPost = 0 /\ mustWait /\ AbortHandle = 0 =>
    \E t \in Thread :
      \/ pc[t] \in UsingPool \ {"waiting"}
      \/ pc[t] = "waiting" /\ SyncHandle > 0

(* An item is in the queue at most once, and never while a thread or the    *)
(* inline caller holds it: no handler runs twice for one submission.        *)
Holders(i) == {t \in Thread : wi[t] = i}
ExactlyOnce ==
  /\ \A m, n \in 1 .. Len(WorkItemQueue) :
       WorkItemQueue[m] = WorkItemQueue[n] => m = n
  /\ \A i \in Item :
       /\ item[i] = "queued" <=> \E n \in 1 .. Len(WorkItemQueue) : WorkItemQueue[n] = i
       /\ item[i] = "running" => (client = i /\ Holders(i) = {})
                                 \/ (client # i /\ Cardinality(Holders(i)) = 1)

(* Destroy returns once entered, although it waits for one post of          *)
(* AbortHandle by the last of the threads it woke.                          *)
DestroyReturns == (destroyer = "posting") ~> Freed

(* A queued item is handled unless the pool is being destroyed. *)
QueuedItemsRun ==
  \A i \in Item : (item[i] = "queued") ~> (item[i] = "done" \/ Terminate)

=============================================================================
