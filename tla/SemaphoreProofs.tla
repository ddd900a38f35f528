--------------------------- MODULE SemaphoreProofs ---------------------------
(***************************************************************************)
(* Proofs about ThreadPool, for every set of threads and items, and about  *)
(* ReaderWriterLock, for every set of readers and writers.  Both are made  *)
(* of counters and counting semaphores, and both proofs count threads by   *)
(* where they are; the two modules share no variable.                      *)
(***************************************************************************)
EXTENDS Integers, ThreadPool, ReaderWriterLock, SequenceTheorems, FiniteSetTheorems, TLAPS

-----------------------------------------------------------------------------
(* Counting threads: what one thread's move does to the number of threads   *)
(* at some locations.  The counters of the code (threads in a pool, readers *)
(* in a lock) are compared with these numbers.                              *)
At(S, f, L) == {t \in S : f[t] \in L}

(* g is f with at most the location of t changed. *)
Moves(S, f, g, t) == \A u \in S : u # t => g[u] = f[u]

LEMMA AtFinite ==
  ASSUME NEW S, IsFiniteSet(S), NEW f, NEW L
  PROVE  IsFiniteSet(At(S, f, L)) /\ Cardinality(At(S, f, L)) \in Nat
<1>1. IsFiniteSet(At(S, f, L))
  BY FS_Subset DEF At
<1> QED BY <1>1, FS_CardinalityType

(* The count is 0 exactly when no thread is there. *)
LEMMA NobodyAt ==
  ASSUME NEW S, IsFiniteSet(S), NEW f, NEW L
  PROVE  Cardinality(At(S, f, L)) = 0 <=> \A t \in S : f[t] \notin L
<1>1. Cardinality(At(S, f, L)) = 0 <=> At(S, f, L) = {}
  BY AtFinite, FS_EmptySet
<1>2. At(S, f, L) = {} <=> \A t \in S : f[t] \notin L
  BY DEF At
<1> QED BY <1>1, <1>2

LEMMA CountSame ==
  ASSUME NEW S, NEW f, NEW g, NEW t \in S, NEW L, Moves(S, f, g, t),
         f[t] \in L <=> g[t] \in L
  PROVE  At(S, g, L) = At(S, f, L)
BY DEF Moves, At

LEMMA CountUp ==
  ASSUME NEW S, IsFiniteSet(S), NEW f, NEW g, NEW t \in S, NEW L,
         Moves(S, f, g, t), f[t] \notin L, g[t] \in L
  PROVE  Cardinality(At(S, g, L)) = Cardinality(At(S, f, L)) + 1
<1>1. At(S, g, L) = At(S, f, L) \cup {t} /\ t \notin At(S, f, L)
  BY DEF Moves, At
<1> QED BY <1>1, AtFinite, FS_AddElement

LEMMA CountDown ==
  ASSUME NEW S, IsFiniteSet(S), NEW f, NEW g, NEW t \in S, NEW L,
         Moves(S, f, g, t), f[t] \in L, g[t] \notin L
  PROVE  Cardinality(At(S, f, L)) = Cardinality(At(S, g, L)) + 1
<1>1. Moves(S, g, f, t)
  BY DEF Moves
<1> QED BY <1>1, CountUp

(* If the count is at most 1, two threads that are there are the same one.  *)
LEMMA CountOne ==
  ASSUME NEW S, IsFiniteSet(S), NEW f, NEW L, Cardinality(At(S, f, L)) <= 1,
         NEW t \in S, NEW u \in S, f[t] \in L, f[u] \in L
  PROVE  t = u
<1> SUFFICES ASSUME t # u PROVE FALSE
  OBVIOUS
<1>1. {t, u} \subseteq At(S, f, L) /\ IsFiniteSet(At(S, f, L))
  BY AtFinite DEF At
<1>2. Cardinality({t}) = 1 /\ IsFiniteSet({t}) /\ u \notin {t}
  BY FS_Singleton
<1>3. Cardinality({t} \cup {u}) = Cardinality({t}) + 1
  BY <1>2, FS_AddElement
<1>4. Cardinality({t} \cup {u}) <= Cardinality(At(S, f, L))
  BY <1>1, FS_Subset
<1> QED BY <1>2, <1>3, <1>4, AtFinite

-----------------------------------------------------------------------------
(* The thread pool *)

LEMMA ThreadFinite == IsFiniteSet(Thread)
BY ThreadPoolAssumption

-----------------------------------------------------------------------------
(* The accounting invariant: NumThreads counts the threads between their    *)
(* registration and their departure, and tokens match items.                *)
Counts == NumThreads = Cardinality(At(Thread, pc, Counted))

Tokens ==
  ~Terminate => SyncHandle + Cardinality(At(Thread, pc, {"woken"})) = Len(WorkItemQueue)

Terminating == Terminate <=> destroyer # "idle"

Accounting == TypeOK /\ Counts /\ Tokens /\ Terminating

LEMMA AccountingInit == Init => Accounting
<1> SUFFICES ASSUME Init PROVE Accounting
  OBVIOUS
<1>1. TypeOK
  <2>1. WorkItemQueue \in Seq(Item)
    BY DEF Init
  <2>2. /\ pc \in [Thread -> Location] /\ wi \in [Thread -> Item \cup {None}]
        /\ item \in [Item -> ItemState]
    BY DEF Init, Location, ItemState
  <2> QED BY <2>1, <2>2 DEF Init, TypeOK
<1>2. Cardinality(At(Thread, pc, Counted)) = 0 /\ Cardinality(At(Thread, pc, {"woken"})) = 0
  BY NobodyAt, ThreadFinite DEF Init, Counted
<1> QED BY <1>1, <1>2 DEF Accounting, Counts, Tokens, Terminating, Init

(* What a step that moves thread t owes the invariant. *)
LEMMA MoveStep ==
  ASSUME Accounting, NEW t \in Thread, NEW l \in Location, Goto(t, l)
  PROVE  /\ Moves(Thread, pc, pc', t)
         /\ pc' \in [Thread -> Location]
         /\ pc'[t] = l
BY DEF Accounting, TypeOK, Goto, Moves

LEMMA AccountingStep == Accounting /\ [Next]_vars => Accounting'
<1> SUFFICES ASSUME Accounting, [Next]_vars PROVE Accounting'
  OBVIOUS
<1> USE DEF Location, UsingPool, Counted
<1>a. /\ TypeOK /\ Counts /\ Tokens /\ Terminating
      /\ Cardinality(At(Thread, pc, {"woken"})) \in Nat
      /\ Cardinality(At(Thread, pc, Counted)) \in Nat
  BY AtFinite, ThreadFinite DEF Accounting, Terminating, destroy
<1>1. ASSUME NEW t \in Thread, AddThread(t) PROVE Accounting'
  <2>1. Moves(Thread, pc, pc', t) /\ pc' \in [Thread -> Location] /\ pc'[t] = "waiting"
    BY <1>1, MoveStep DEF AddThread
  <2>2. Cardinality(At(Thread, pc', Counted)) = Cardinality(At(Thread, pc, Counted)) + 1
    BY <1>1, <2>1, CountUp, ThreadFinite DEF AddThread
  <2>3. At(Thread, pc', {"woken"}) = At(Thread, pc, {"woken"})
    BY <1>1, <2>1, CountSame DEF AddThread
  <2>4. TypeOK'
    BY <1>1, <1>a, <2>1 DEF AddThread, TypeOK, WithThread, handles, destroy
  <2> QED BY <1>1, <1>a, <2>2, <2>3, <2>4
          DEF AddThread, Accounting, Terminating, Counts, Tokens, WithThread, handles, destroy
<1>2. ASSUME NEW t \in Thread, WaitSync(t) PROVE Accounting'
  <2>1. Moves(Thread, pc, pc', t) /\ pc' \in [Thread -> Location] /\ pc'[t] = "woken"
    BY <1>2, MoveStep DEF WaitSync
  <2>2. At(Thread, pc', Counted) = At(Thread, pc, Counted)
    BY <1>2, <2>1, CountSame DEF WaitSync
  <2>3. Cardinality(At(Thread, pc', {"woken"})) = Cardinality(At(Thread, pc, {"woken"})) + 1
    BY <1>2, <2>1, CountUp, ThreadFinite DEF WaitSync
  <2>4. TypeOK'
    BY <1>2, <1>a, <2>1 DEF WaitSync, TypeOK, destroy
  <2>5. Tokens'
    BY <1>2, <1>a, <2>3 DEF WaitSync, Tokens, TypeOK
  <2> QED BY <1>2, <1>a, <2>2, <2>4, <2>5 DEF WaitSync, Accounting, Terminating, Counts, destroy
<1>3. ASSUME NEW t \in Thread, DeQueue(t) PROVE Accounting'
  <2>1. PICK l \in {"recheck", "discard", "callback"} :
          /\ Goto(t, l)
          /\ l = "recheck" <=> WorkItemQueue = <<>>
    BY <1>3 DEF DeQueue
  <2>2. Moves(Thread, pc, pc', t) /\ pc' \in [Thread -> Location] /\ pc'[t] = l
    BY <2>1, MoveStep
  <2>3. At(Thread, pc', Counted) = At(Thread, pc, Counted)
    BY <1>3, <2>2, CountSame DEF DeQueue
  <2>4. Cardinality(At(Thread, pc, {"woken"})) = Cardinality(At(Thread, pc', {"woken"})) + 1
    BY <1>3, <2>2, CountDown, ThreadFinite DEF DeQueue
  <2>5. Cardinality(At(Thread, pc', {"woken"})) \in Nat
    BY AtFinite, ThreadFinite
  <2>6. CASE WorkItemQueue = <<>>
    <3>1. TypeOK'
      BY <1>3, <1>a, <2>2, <2>6 DEF DeQueue, TypeOK, handles, destroy
    <3>2. Terminate /\ Terminate'
      BY <1>3, <1>a, <2>4, <2>5, <2>6 DEF DeQueue, Tokens, TypeOK
    <3> QED BY <1>3, <1>a, <2>3, <3>1, <3>2 DEF DeQueue, Accounting, Terminating, Counts, Tokens, destroy
  <2>7. CASE WorkItemQueue # <<>>
    <3>1. Head(WorkItemQueue) \in Item /\ Tail(WorkItemQueue) \in Seq(Item)
          /\ Len(Tail(WorkItemQueue)) = Len(WorkItemQueue) - 1
      BY <1>a, <2>7 DEF TypeOK
    <3>2. WorkItemQueue' \in Seq(Item) /\ wi' \in [Thread -> Item \cup {None}]
          /\ item' \in [Item -> ItemState]
      <4>1. /\ WorkItemQueue' = Tail(WorkItemQueue)
            /\ wi' = [wi EXCEPT ![t] = Head(WorkItemQueue)]
            /\ item' = [item EXCEPT ![Head(WorkItemQueue)] =
                          IF Terminate THEN "dropped" ELSE "running"]
        BY <1>3, <2>7 DEF DeQueue, AfterDeQueue
      <4> QED BY <1>a, <3>1, <4>1 DEF TypeOK, ItemState
    <3>3. TypeOK'
      BY <1>3, <1>a, <2>2, <3>2 DEF DeQueue, TypeOK, handles, destroy
    <3>4. Tokens'
      BY <1>3, <1>a, <2>4, <2>5, <2>7, <3>1
      DEF DeQueue, Tokens, TypeOK, AfterDeQueue, handles
    <3> QED BY <1>3, <1>a, <2>3, <3>3, <3>4 DEF DeQueue, Accounting, Terminating, Counts, destroy
  <2> QED BY <2>6, <2>7
<1>4. ASSUME NEW t \in Thread, FreeItem(t) PROVE Accounting'
  <2>1. Moves(Thread, pc, pc', t) /\ pc' \in [Thread -> Location] /\ pc'[t] = "recheck"
    BY <1>4, MoveStep DEF FreeItem
  <2>2. At(Thread, pc', Counted) = At(Thread, pc, Counted) /\ At(Thread, pc', {"woken"}) = At(Thread, pc, {"woken"})
    BY <1>4, <2>1, CountSame DEF FreeItem
  <2>3. TypeOK'
    BY <1>4, <1>a, <2>1 DEF FreeItem, TypeOK, ItemState, handles, destroy
  <2> QED BY <1>4, <1>a, <2>2, <2>3
          DEF FreeItem, Accounting, Terminating, Counts, Tokens, handles, destroy
<1>5. ASSUME NEW t \in Thread, Recheck(t) PROVE Accounting'
  <2>1. PICK l \in {"leaving", "waiting"} : Goto(t, l)
    BY <1>5 DEF Recheck
  <2>2. Moves(Thread, pc, pc', t) /\ pc' \in [Thread -> Location] /\ pc'[t] = l
    BY <2>1, MoveStep
  <2>3. At(Thread, pc', Counted) = At(Thread, pc, Counted) /\ At(Thread, pc', {"woken"}) = At(Thread, pc, {"woken"})
    BY <1>5, <2>2, CountSame DEF Recheck
  <2>4. TypeOK'
    BY <1>5, <1>a, <2>2 DEF Recheck, TypeOK, handles, destroy
  <2> QED BY <1>5, <1>a, <2>3, <2>4 DEF Recheck, Accounting, Terminating, Counts, Tokens, handles, destroy
<1>6. ASSUME NEW t \in Thread, Leave(t) PROVE Accounting'
  <2>1. PICK l \in {"signalling", "returned"} : Goto(t, l)
    BY <1>6 DEF Leave
  <2>2. Moves(Thread, pc, pc', t) /\ pc' \in [Thread -> Location] /\ pc'[t] = l
    BY <2>1, MoveStep
  <2>3. Cardinality(At(Thread, pc, Counted)) = Cardinality(At(Thread, pc', Counted)) + 1
    BY <1>6, <2>2, CountDown, ThreadFinite DEF Leave
  <2>4. At(Thread, pc', {"woken"}) = At(Thread, pc, {"woken"})
    BY <1>6, <2>2, CountSame DEF Leave
  <2>5. Cardinality(At(Thread, pc', Counted)) \in Nat
    BY AtFinite, ThreadFinite
  <2>6. NumThreads' \in Nat /\ Counts'
    BY <1>6, <1>a, <2>3, <2>5 DEF Leave, Counts
  <2>7. TypeOK'
    BY <1>6, <1>a, <2>2, <2>6 DEF Leave, TypeOK, handles, destroy
  <2> QED BY <1>6, <1>a, <2>4, <2>6, <2>7 DEF Leave, Accounting, Terminating, Tokens, handles, destroy
<1>7. ASSUME NEW t \in Thread, SignalAbort(t) PROVE Accounting'
  <2>1. Moves(Thread, pc, pc', t) /\ pc' \in [Thread -> Location] /\ pc'[t] = "returned"
    BY <1>7, MoveStep DEF SignalAbort
  <2>2. At(Thread, pc', Counted) = At(Thread, pc, Counted) /\ At(Thread, pc', {"woken"}) = At(Thread, pc, {"woken"})
    BY <1>7, <2>1, CountSame DEF SignalAbort
  <2>3. TypeOK'
    BY <1>7, <1>a, <2>1 DEF SignalAbort, TypeOK, destroy
  <2> QED BY <1>7, <1>a, <2>2, <2>3 DEF SignalAbort, Accounting, Terminating, Counts, Tokens, destroy
<1>8. ASSUME NEW i \in Item, EnQueue(i) PROVE Accounting'
  <2>1. /\ Append(WorkItemQueue, i) \in Seq(Item)
        /\ Len(Append(WorkItemQueue, i)) = Len(WorkItemQueue) + 1
    BY <1>a DEF TypeOK
  <2>2. TypeOK'
    BY <1>8, <1>a, <2>1 DEF EnQueue, TypeOK, TokensFor, ItemState, destroy
  <2>3. Tokens'
    BY <1>8, <1>a, <2>1 DEF EnQueue, TypeOK, Tokens, TokensFor
  <2> QED BY <1>8, <1>a, <2>2, <2>3 DEF EnQueue, Accounting, Terminating, Counts, destroy
<1>9. ASSUME NEW i \in Item, RunInline(i) PROVE Accounting'
  <2>1. TypeOK'
    BY <1>9, <1>a DEF RunInline, TypeOK, ItemState, handles, destroy
  <2> QED BY <1>9, <1>a, <2>1 DEF RunInline, Accounting, Terminating, Counts, Tokens, handles, destroy
<1>10. CASE InlineDone
  <2>1. TypeOK'
    BY <1>10, <1>a DEF InlineDone, TypeOK, ItemState, handles, destroy
  <2> QED BY <1>10, <1>a, <2>1 DEF InlineDone, Accounting, Terminating, destroy, Counts, Tokens, handles
<1>11. CASE DestroyEnter
  BY <1>11, <1>a
  DEF DestroyEnter, Accounting, TypeOK, Counts, Tokens, Terminating, handles
<1>12. CASE DestroyPost
  BY <1>12, <1>a
  DEF DestroyPost, Accounting, TypeOK, Counts, Tokens, Terminating
<1>13. CASE DestroyWait
  BY <1>13, <1>a
  DEF DestroyWait, Accounting, TypeOK, Counts, Tokens, Terminating
<1>14. CASE DestroyFree
  <2>1. item' \in [Item -> ItemState] /\ WorkItemQueue' \in Seq(Item)
    BY <1>14, <1>a DEF DestroyFree, TypeOK, ItemState
  <2> QED BY <1>14, <1>a, <2>1
          DEF DestroyFree, Accounting, TypeOK, Counts, Tokens, Terminating, handles
<1>15. CASE UNCHANGED vars
  BY <1>15, <1>a
  DEF vars, Accounting, TypeOK, Counts, Tokens, Terminating, handles, destroy
<1> QED
  BY <1>1, <1>2, <1>3, <1>4, <1>5, <1>6, <1>7, <1>8, <1>9, <1>10, <1>11, <1>12,
     <1>13, <1>14, <1>15
  DEF Next, PoolThread, Submit, SubmitFromClient, SubmitFromHandler, Destroy

(* Type correctness.  NumThreads never goes below zero because it counts    *)
(* the threads that have registered and not yet left.                       *)
THEOREM TypeCorrect == Spec => []TypeOK
<1>1. Accounting => TypeOK
  BY DEF Accounting
<1> QED BY <1>1, AccountingInit, AccountingStep, PTL DEF Spec

(* Until Destroy, semaphore tokens and threads on their way to the queue    *)
(* match the queued items one for one.                                      *)
THEOREM WakeUpsMatch == Spec => []WakeUpsMatchItems
<1>1. Accounting => WakeUpsMatchItems
  <2>1. Woken = At(Thread, pc, {"woken"})
    BY DEF Woken, At
  <2> QED BY <2>1 DEF Accounting, Tokens, WakeUpsMatchItems
<1> QED BY <1>1, AccountingInit, AccountingStep, PTL DEF Spec

-----------------------------------------------------------------------------
(* The shutdown invariant.  The post of AbortHandle is a baton: it comes    *)
(* into being when the last counted thread leaves, one thread holds it      *)
(* while it is "signalling", AbortHandle holds it until Destroy takes it,   *)
(* and while it exists no thread is counted.  Terminate keeps it from       *)
(* coming into being before Destroy has looked at NumThreads.               *)
NobodyUses == \A t \in Thread : pc[t] \notin UsingPool

NoBatonYet ==
  ~Terminate => /\ AbortHandle = 0
                /\ \A t \in Thread : pc[t] \notin {"discard", "leaving", "signalling"}

OneBaton ==
  /\ \A t \in Thread : pc[t] = "signalling" =>
        /\ NumThreads = 0 /\ AbortHandle = 0
        /\ \A u \in Thread : pc[u] = "signalling" => u = t
  /\ AbortHandle > 0 =>
        NumThreads = 0 /\ \A t \in Thread : pc[t] # "signalling"

Torn ==
  /\ (destroyer = "posting" /\ ~mustWait) => NobodyUses
  /\ destroyer \in {"teardown", "returned"} => NobodyUses

Shutdown == Accounting /\ NoBatonYet /\ OneBaton /\ Torn

LEMMA ShutdownInit == Init => Shutdown
BY AccountingInit DEF Init, Shutdown, NoBatonYet, OneBaton, Torn, NobodyUses

(* NumThreads = 0 means that no thread is counted. *)
LEMMA NobodyCounted ==
  ASSUME Accounting
  PROVE  NumThreads = 0 <=> \A t \in Thread : pc[t] \notin Counted
BY NobodyAt, ThreadFinite DEF Accounting, Counts

LEMMA ShutdownStep ==
  ASSUME ~LateJoin, Shutdown, [Next]_vars
  PROVE  Shutdown'
<1>a. /\ Accounting /\ Accounting' /\ TypeOK /\ Terminating
      /\ NoBatonYet /\ OneBaton /\ Torn
  BY AccountingStep DEF Shutdown, Accounting
<1>b. /\ NumThreads = 0 <=> \A t \in Thread : pc[t] \notin Counted
      /\ NumThreads \in Nat /\ AbortHandle \in Nat
  BY <1>a, NobodyCounted DEF TypeOK
<1> USE DEF UsingPool, Counted
<1>1. ASSUME NEW t \in Thread, NEW l \in Counted, pc[t] \in Counted, Goto(t, l),
             l \in {"discard", "leaving"} => Terminate,
             UNCHANGED <<NumThreads, Terminate, AbortHandle, destroyer, mustWait>>
      PROVE  Shutdown'
  <2>1. Moves(Thread, pc, pc', t) /\ pc'[t] = l
    BY <1>1, <1>a, MoveStep DEF Location
  <2>2. NoBatonYet'
    BY <1>1, <1>a, <2>1 DEF NoBatonYet, Moves
  <2>3. OneBaton'
    BY <1>1, <1>a, <2>1 DEF OneBaton, Moves
  <2>4. Torn'
    BY <1>1, <1>a, <2>1 DEF Torn, NobodyUses, Moves
  <2> QED BY <1>a, <2>2, <2>3, <2>4 DEF Shutdown
<1>2. ASSUME NEW t \in Thread, WaitSync(t) PROVE Shutdown'
  BY <1>1, <1>2 DEF WaitSync, destroy
<1>3. ASSUME NEW t \in Thread, DeQueue(t) PROVE Shutdown'
  <2>1. PICK l \in {"recheck", "discard", "callback"} :
          Goto(t, l) /\ (l = "discard" => Terminate)
    BY <1>3, <1>a DEF DeQueue, TypeOK
  <2> QED BY <1>1, <1>3, <2>1 DEF DeQueue, handles, destroy
<1>4. ASSUME NEW t \in Thread, FreeItem(t) PROVE Shutdown'
  BY <1>1, <1>4 DEF FreeItem, handles, destroy
<1>5. ASSUME NEW t \in Thread, Recheck(t) PROVE Shutdown'
  <2>1. PICK l \in {"leaving", "waiting"} : Goto(t, l) /\ (l = "leaving" => Terminate)
    BY <1>5 DEF Recheck
  <2> QED BY <1>1, <1>5, <2>1 DEF Recheck, handles, destroy
<1>6. ASSUME NEW t \in Thread, AddThread(t) PROVE Shutdown'
  <2>1. Moves(Thread, pc, pc', t) /\ pc'[t] = "waiting"
    BY <1>6, <1>a, MoveStep DEF AddThread, Location
  <2>2. destroyer = "idle" /\ ~Terminate /\ UNCHANGED <<Terminate, AbortHandle, destroyer>>
    BY <1>6, <1>a DEF AddThread, Terminating, handles, destroy
  <2>3. NoBatonYet'
    BY <1>a, <2>1, <2>2 DEF NoBatonYet, Moves
  <2>4. OneBaton'
    BY <1>a, <2>2, <2>3 DEF OneBaton, NoBatonYet
  <2> QED BY <1>a, <2>2, <2>3, <2>4 DEF Shutdown, Torn
<1>7. ASSUME NEW t \in Thread, Leave(t) PROVE Shutdown'
  <2>1. PICK l \in {"signalling", "returned"} :
          Goto(t, l) /\ (l = "signalling" <=> NumThreads' = 0)
    BY <1>7 DEF Leave, LastOut
  <2>2. Moves(Thread, pc, pc', t) /\ pc'[t] = l
    BY <1>a, <2>1, MoveStep DEF Location
  <2>3. /\ UNCHANGED <<Terminate, AbortHandle, destroyer, mustWait>>
        /\ pc[t] = "leaving" /\ NumThreads # 0 /\ Terminate
    BY <1>7, <1>a, <1>b DEF Leave, NoBatonYet, handles, destroy
  <2>4. AbortHandle = 0 /\ \A u \in Thread : pc[u] # "signalling"
    BY <1>a, <1>b, <2>3 DEF OneBaton
  <2>5. NoBatonYet'
    BY <2>3 DEF NoBatonYet
  <2>6. OneBaton'
    BY <2>1, <2>2, <2>3, <2>4 DEF OneBaton, Moves
  <2>7. Torn'
    BY <1>a, <2>3 DEF Torn, NobodyUses
  <2> QED BY <1>a, <2>5, <2>6, <2>7 DEF Shutdown
<1>8. ASSUME NEW t \in Thread, SignalAbort(t) PROVE Shutdown'
  <2>1. Moves(Thread, pc, pc', t) /\ pc'[t] = "returned"
    BY <1>8, <1>a, MoveStep DEF SignalAbort, Location
  <2>2. /\ UNCHANGED <<NumThreads, Terminate, destroyer, mustWait>>
        /\ pc[t] = "signalling" /\ NumThreads = 0 /\ Terminate
    BY <1>8, <1>a DEF SignalAbort, NoBatonYet, OneBaton, destroy
  <2>3. NoBatonYet' /\ Torn'
    BY <1>a, <2>2 DEF NoBatonYet, Torn, NobodyUses
  <2>4. OneBaton'
    BY <1>a, <2>1, <2>2 DEF OneBaton, Moves
  <2> QED BY <1>a, <2>3, <2>4 DEF Shutdown
<1>9. ASSUME UNCHANGED <<NumThreads, Terminate, AbortHandle, pc, destroyer, mustWait>>
      PROVE  Shutdown'
  BY <1>9, <1>a DEF Shutdown, NoBatonYet, OneBaton, Torn, NobodyUses
<1>10. ASSUME Submit PROVE Shutdown'
  BY <1>9, <1>10 DEF Submit, SubmitFromClient, SubmitFromHandler, EnQueue, RunInline,
                     InlineDone, handles, destroy
<1>11. CASE DestroyEnter
  <2>1. mustWait' \/ NobodyUses'
    BY <1>11, <1>a, <1>b DEF DestroyEnter, NoBatonYet, Terminating, NobodyUses
  <2> QED BY <1>11, <1>a, <2>1
          DEF DestroyEnter, Shutdown, NoBatonYet, OneBaton, Torn, handles
<1>12. CASE DestroyPost
  BY <1>9, <1>12 DEF DestroyPost
<1>13. CASE DestroyWait
  <2>1. NobodyUses'
    BY <1>13, <1>a, <1>b DEF DestroyWait, OneBaton, Torn, NobodyUses
  <2>2. OneBaton'
    BY <1>13, <1>a, <1>b DEF DestroyWait, OneBaton
  <2> QED BY <1>13, <1>a, <2>1, <2>2 DEF DestroyWait, Shutdown, NoBatonYet, Terminating, Torn
<1>14. CASE DestroyFree
  BY <1>14, <1>a
  DEF DestroyFree, Shutdown, NoBatonYet, OneBaton, Torn, NobodyUses, handles
<1>15. CASE UNCHANGED vars
  BY <1>9, <1>15 DEF vars, handles, destroy
<1> QED
  BY <1>2, <1>3, <1>4, <1>5, <1>6, <1>7, <1>8, <1>10, <1>11, <1>12, <1>13, <1>14, <1>15
  DEF Next, PoolThread, Destroy

(* Provided that no thread enters the pool once Destroy was called, Destroy *)
(* releases the pool only when no thread can touch it any more.             *)
THEOREM DestroyIsSafe == ASSUME ~LateJoin PROVE Spec => []NoUseAfterFree
<1>1. Shutdown => NoUseAfterFree
  BY DEF Shutdown, Torn, NobodyUses, NoUseAfterFree
<1>2. Shutdown /\ [Next]_vars => Shutdown'
  BY ShutdownStep
<1> QED BY <1>1, <1>2, ShutdownInit, PTL DEF Spec

(* Destroy is not forgotten.  Every thread that sleeps on SyncHandle has a  *)
(* token there or one that Destroy still posts, and the baton DestroyWait   *)
(* takes is on its way to it.                                               *)
Sleepers == Cardinality(At(Thread, pc, {"waiting"}))

Awaited ==
  destroyer = "posting" =>
    /\ Sleepers <= SyncHandle + toPost
    /\ mustWait => \/ NumThreads > 0 \/ AbortHandle > 0
                   \/ \E t \in Thread : pc[t] = "signalling"

(* Tokens that are not fewer than before are still enough.                  *)
LEMMA Enough ==
  ASSUME NEW n \in Nat, NEW s \in Nat, NEW p \in Nat, NEW r \in Nat, NEW q \in Nat,
         n <= s + p, s + p <= r + q
  PROVE  n <= r + q
OBVIOUS

LEMMA AwaitedStep ==
  ASSUME ~LateJoin, Shutdown, Awaited, [Next]_vars
  PROVE  Awaited'
<1>a. /\ TypeOK /\ Accounting /\ Terminating /\ NoBatonYet /\ OneBaton
      /\ SyncHandle \in Nat /\ toPost \in Nat /\ NumThreads \in Nat /\ AbortHandle \in Nat
  BY DEF Shutdown, Accounting, TypeOK
<1>b. /\ Sleepers \in Nat /\ Sleepers' \in Nat
      /\ SyncHandle \in Nat /\ toPost \in Nat /\ NumThreads \in Nat
  BY <1>a, AtFinite, ThreadFinite DEF Sleepers
<1> USE DEF UsingPool, Counted
<1>1. ASSUME NEW t \in Thread, NEW l \in Location, pc[t] \notin {"waiting", "signalling"},
             l # "waiting" \/ destroyer # "posting", Goto(t, l),
             UNCHANGED <<NumThreads, SyncHandle, AbortHandle, destroyer, toPost, mustWait>>
      PROVE  Awaited'
  <2>1. Moves(Thread, pc, pc', t) /\ pc'[t] = l
    BY <1>1, <1>a, MoveStep
  <2>2. destroyer = "posting" => Sleepers' = Sleepers
    BY <1>1, <2>1, CountSame DEF Sleepers
  <2>3. ASSUME NEW u \in Thread, pc[u] = "signalling" PROVE pc'[u] = "signalling"
    BY <1>1, <2>1, <2>3 DEF Moves
  <2> QED BY <1>1, <2>2, <2>3 DEF Awaited
<1>2. ASSUME NEW t \in Thread, WaitSync(t) PROVE Awaited'
  <2>1. /\ pc[t] = "waiting" /\ SyncHandle > 0 /\ SyncHandle' = SyncHandle - 1
        /\ Goto(t, "woken")
        /\ UNCHANGED <<NumThreads, AbortHandle, destroyer, toPost, mustWait>>
    BY <1>2 DEF WaitSync, destroy
  <2>2. Moves(Thread, pc, pc', t) /\ pc'[t] = "woken"
    BY <1>a, <2>1, MoveStep DEF Location
  <2>3. Sleepers = Sleepers' + 1
    BY <2>1, <2>2, CountDown, ThreadFinite DEF Sleepers
  <2>4. ASSUME NEW u \in Thread, pc[u] = "signalling" PROVE pc'[u] = "signalling"
    BY <2>1, <2>2, <2>4 DEF Moves
  <2>5. Sleepers <= SyncHandle + toPost => Sleepers' <= SyncHandle' + toPost'
    <3>1. SyncHandle' = SyncHandle - 1 /\ toPost' = toPost
      BY <2>1
    <3> QED BY <1>b, <2>3, <3>1 DEF Sleepers
  <2> QED BY <2>1, <2>4, <2>5 DEF Awaited
<1>3. ASSUME NEW t \in Thread, DeQueue(t) PROVE Awaited'
  <2>1. /\ pc[t] = "woken" /\ UNCHANGED <<NumThreads, handles, destroy>>
        /\ \E l \in {"recheck", "discard", "callback"} : Goto(t, l)
    BY <1>3 DEF DeQueue
  <2> QED BY <1>1, <2>1 DEF Location, handles, destroy
<1>4. ASSUME NEW t \in Thread, FreeItem(t) PROVE Awaited'
  <2>1. /\ pc[t] \in {"callback", "discard"} /\ Goto(t, "recheck")
        /\ UNCHANGED <<NumThreads, handles, destroy>>
    BY <1>4 DEF FreeItem
  <2> QED BY <1>1, <2>1 DEF Location, handles, destroy
<1>5. ASSUME NEW t \in Thread, Recheck(t) PROVE Awaited'
  <2>1. /\ pc[t] = "recheck" /\ UNCHANGED <<NumThreads, handles, destroy>>
        /\ \E l \in {"leaving", "waiting"} : Goto(t, l) /\ (l = "waiting" => ~Terminate)
    BY <1>5 DEF Recheck
  <2> QED BY <1>1, <1>a, <2>1 DEF Location, Terminating, handles, destroy
<1>6. ASSUME NEW t \in Thread, AddThread(t) PROVE Awaited'
  BY <1>6 DEF AddThread, Awaited, destroy
<1>7. ASSUME NEW t \in Thread, Leave(t) PROVE Awaited'
  <2>1. /\ pc[t] = "leaving" /\ NumThreads' = NumThreads - 1
        /\ UNCHANGED <<SyncHandle, AbortHandle, destroyer, toPost, mustWait>>
        /\ \E l \in {"signalling", "returned"} : Goto(t, l) /\ (NumThreads' = 0 => l = "signalling")
    BY <1>7 DEF Leave, LastOut, handles, destroy
  <2>2. PICK l \in {"signalling", "returned"} : Goto(t, l) /\ (NumThreads' = 0 => l = "signalling")
    BY <2>1
  <2>3. Moves(Thread, pc, pc', t) /\ pc'[t] = l
    BY <1>a, <2>2, MoveStep DEF Location
  <2>4. Sleepers' = Sleepers
    BY <2>1, <2>3, CountSame DEF Sleepers
  <2>5. NumThreads > 0
    BY <1>a, <2>1, NobodyCounted
  <2>6. NumThreads' > 0 \/ pc'[t] = "signalling"
    BY <1>a, <2>1, <2>2, <2>3, <2>5
  <2> QED BY <2>1, <2>4, <2>6 DEF Awaited
<1>8. ASSUME NEW t \in Thread, SignalAbort(t) PROVE Awaited'
  <2>1. /\ pc[t] = "signalling" /\ Goto(t, "returned") /\ AbortHandle' = AbortHandle + 1
        /\ UNCHANGED <<SyncHandle, destroyer, toPost, mustWait>>
    BY <1>8 DEF SignalAbort, destroy
  <2>2. Moves(Thread, pc, pc', t) /\ pc'[t] = "returned"
    BY <1>a, <2>1, MoveStep DEF Location
  <2>3. Sleepers' = Sleepers
    BY <2>1, <2>2, CountSame DEF Sleepers
  <2> QED BY <1>a, <2>1, <2>3 DEF Awaited
<1>9. ASSUME UNCHANGED <<NumThreads, AbortHandle, pc, mustWait>>,
             destroyer' = "posting" => destroyer = "posting",
             SyncHandle + toPost <= SyncHandle' + toPost'
      PROVE  Awaited'
  <2>1. Sleepers' = Sleepers
    BY <1>9 DEF Sleepers
  <2>2. destroyer' = "posting" => Sleepers' <= SyncHandle' + toPost'
    <3> SUFFICES ASSUME destroyer' = "posting" PROVE Sleepers' <= SyncHandle' + toPost'
      OBVIOUS
    <3>1. SyncHandle' \in Nat /\ toPost' \in Nat
      BY <1>a, AccountingStep DEF Accounting, TypeOK
    <3>2. Sleepers <= SyncHandle + toPost
      BY <1>9 DEF Awaited
    <3>3. SyncHandle + toPost <= SyncHandle' + toPost'
      BY <1>9
    <3>4. Sleepers <= SyncHandle' + toPost'
      BY <1>b, <3>1, <3>2, <3>3, Enough
    <3> QED BY <2>1, <3>4
  <2> QED BY <1>9, <2>2 DEF Awaited
<1>10. ASSUME Submit PROVE Awaited'
  <2>1. CASE \E i \in Item : EnQueue(i)
    BY <1>9, <1>a, <2>1 DEF EnQueue, TokensFor, destroy
  <2>2. CASE UNCHANGED <<NumThreads, handles, pc, destroy>>
    BY <1>9, <1>a, <2>2 DEF handles, destroy
  <2> QED BY <1>10, <2>1, <2>2
          DEF Submit, SubmitFromClient, SubmitFromHandler, RunInline, InlineDone
<1>11. CASE DestroyEnter
  <2>1. /\ UNCHANGED <<pc, NumThreads, SyncHandle, AbortHandle>>
        /\ toPost' = NumThreads /\ mustWait' = (NumThreads # 0)
    BY <1>11 DEF DestroyEnter, handles
  <2>2. Sleepers <= NumThreads
    <3>1. At(Thread, pc, {"waiting"}) \subseteq At(Thread, pc, Counted)
      BY DEF At
    <3>a. IsFiniteSet(At(Thread, pc, Counted))
      BY AtFinite, ThreadFinite
    <3>2. Cardinality(At(Thread, pc, {"waiting"})) <= Cardinality(At(Thread, pc, Counted))
      BY <3>1, <3>a, FS_Subset
    <3> QED BY <1>a, <3>2 DEF Sleepers, Accounting, Counts
  <2>3. Sleepers' = Sleepers
    BY <2>1 DEF Sleepers
  <2>4. Sleepers' <= SyncHandle' + toPost'
    <3>1. SyncHandle' = SyncHandle /\ toPost' = NumThreads
      BY <2>1
    <3> QED BY <1>a, <1>b, <2>2, <2>3, <3>1
  <2>5. mustWait' => NumThreads' > 0
    <3>1. mustWait' = (NumThreads # 0) /\ NumThreads' = NumThreads
      BY <2>1
    <3>2. mustWait' => NumThreads # 0
      BY <3>1, Zenon
    <3> QED BY <1>b, <3>1, <3>2
  <2> QED BY <2>4, <2>5 DEF Awaited
<1>12. CASE DestroyPost
  BY <1>9, <1>12, <1>a DEF DestroyPost
<1>13. CASE DestroyWait \/ DestroyFree
  <2>1. destroyer' # "posting"
    BY <1>13 DEF DestroyWait, DestroyFree
  <2> QED BY <2>1 DEF Awaited
<1>14. CASE UNCHANGED vars
  <2>1. UNCHANGED <<NumThreads, AbortHandle, pc, mustWait, destroyer, SyncHandle, toPost>>
    BY <1>14 DEF vars, handles, destroy
  <2> QED BY <1>9, <1>a, <2>1
<1> QED
  BY <1>2, <1>3, <1>4, <1>5, <1>6, <1>7, <1>8, <1>10, <1>11, <1>12, <1>13, <1>14
  DEF Next, PoolThread, Destroy

(* Provided that no thread enters the pool once Destroy was called, Destroy *)
(* never waits for a post that nobody is left to make.                      *)
THEOREM DestroyIsNotStuck == ASSUME ~LateJoin PROVE Spec => []DestroyIsAwaited
<1>1. Shutdown /\ Awaited => DestroyIsAwaited
  <2> SUFFICES ASSUME Shutdown, Awaited, destroyer = "posting", toPost = 0, mustWait,
                      AbortHandle = 0
               PROVE  \E t \in Thread : \/ pc[t] \in UsingPool \ {"waiting"}
                                        \/ pc[t] = "waiting" /\ SyncHandle > 0
    BY DEF DestroyIsAwaited
  <2>a. /\ NumThreads \in Nat /\ SyncHandle \in Nat /\ Sleepers \in Nat /\ Accounting
    BY AtFinite, ThreadFinite DEF Shutdown, Accounting, TypeOK, Sleepers
  <2>1. CASE \E t \in Thread : pc[t] = "signalling"
    BY <2>1 DEF UsingPool
  <2>2. CASE NumThreads > 0
    <3>1. PICK t \in Thread : pc[t] \in Counted
      BY <2>a, <2>2, NobodyCounted
    <3>2. CASE pc[t] = "waiting"
      <4>1. Sleepers # 0
        BY <3>2, NobodyAt, ThreadFinite DEF Sleepers
      <4>2. SyncHandle > 0
        BY <2>a, <4>1 DEF Awaited
      <4> QED BY <3>2, <4>2
    <3>3. CASE pc[t] # "waiting"
      BY <3>1, <3>3 DEF UsingPool
    <3> QED BY <3>2, <3>3
  <2> QED BY <2>1, <2>2 DEF Awaited
<1>2. Shutdown /\ Awaited /\ [Next]_vars => (Shutdown /\ Awaited)'
  BY ShutdownStep, AwaitedStep
<1>3. Init => Shutdown /\ Awaited
  BY ShutdownInit DEF Init, Awaited
<1> QED BY <1>1, <1>2, <1>3, PTL DEF Spec
-----------------------------------------------------------------------------
(* One place for every item: in the queue once, or with one thread that     *)
(* took it off, or with the client that found no thread in the pool.  What  *)
(* is held is running, or dropped because the pool terminates.              *)
Queued(i) == \E n \in 1 .. Len(WorkItemQueue) : WorkItemQueue[n] = i

QueueOnce ==
  /\ \A m, n \in 1 .. Len(WorkItemQueue) : WorkItemQueue[m] = WorkItemQueue[n] => m = n
  /\ \A i \in Item : item[i] = "queued" <=> Queued(i)

HeldOnce ==
  /\ \A t \in Thread :
       /\ pc[t] \notin {"callback", "discard"} => wi[t] = None
       /\ pc[t] = "callback" => wi[t] \in Item /\ item[wi[t]] = "running"
       /\ pc[t] = "discard" => wi[t] \in Item /\ item[wi[t]] = "dropped"
  /\ \A t, u \in Thread : wi[t] = wi[u] /\ wi[t] # None => t = u
  /\ client # None => item[client] = "running" /\ \A t \in Thread : wi[t] # client
  /\ \A i \in Item : item[i] = "running" => client = i \/ \E t \in Thread : wi[t] = i

OneHolder == QueueOnce /\ HeldOnce

LEMMA OneHolderInit == Init => OneHolder
<1> SUFFICES ASSUME Init PROVE OneHolder
  OBVIOUS
<1>1. Len(WorkItemQueue) = 0
  BY DEF Init
<1> QED BY <1>1, ThreadPoolAssumption DEF Init, OneHolder, QueueOnce, HeldOnce, Queued

(* A thread that moves between places where it holds nothing.               *)
LEMMA EmptyHanded ==
  ASSUME TypeOK, OneHolder, NEW t \in Thread, NEW l \in Location, Goto(t, l),
         pc[t] \notin {"callback", "discard"}, l \notin {"callback", "discard"},
         UNCHANGED <<WorkItemQueue, wi, client, item>>
  PROVE  OneHolder'
<1>1. \A u \in Thread : pc'[u] = IF u = t THEN l ELSE pc[u]
  BY DEF Goto, TypeOK
<1>2. QueueOnce'
  BY DEF OneHolder, QueueOnce, Queued
<1>3. HeldOnce'
  BY <1>1 DEF OneHolder, HeldOnce
<1> QED BY <1>2, <1>3 DEF OneHolder

(* A fresh item goes to the end of the queue.                               *)
LEMMA EnQueueStep ==
  ASSUME TypeOK, OneHolder, NEW i \in Item, item[i] = "fresh", EnQueue(i)
  PROVE  OneHolder'
<1>1. /\ WorkItemQueue' = Append(WorkItemQueue, i) /\ item' = [item EXCEPT ![i] = "queued"]
      /\ UNCHANGED <<pc, wi, client>>
  BY DEF EnQueue
<1>2. /\ Len(WorkItemQueue') = Len(WorkItemQueue) + 1 /\ Len(WorkItemQueue) \in Nat
      /\ WorkItemQueue'[Len(WorkItemQueue) + 1] = i
      /\ \A n \in 1 .. Len(WorkItemQueue) : WorkItemQueue'[n] = WorkItemQueue[n]
  BY <1>1, AppendProperties DEF TypeOK
<1>3. \A n \in 1 .. Len(WorkItemQueue') : n \in 1 .. Len(WorkItemQueue) \/ n = Len(WorkItemQueue) + 1
  BY <1>2
<1>4. /\ 1 .. Len(WorkItemQueue) \subseteq 1 .. Len(WorkItemQueue')
      /\ Len(WorkItemQueue) + 1 \in 1 .. Len(WorkItemQueue')
  BY <1>2
<1>5. ~Queued(i)
  BY DEF OneHolder, QueueOnce
<1>6. \A j \in Item : item'[j] = IF j = i THEN "queued" ELSE item[j]
  BY <1>1 DEF TypeOK
<1>7. \A j \in Item : Queued(j)' <=> Queued(j) \/ j = i
  BY <1>2, <1>3, <1>4 DEF Queued
<1>8. QueueOnce'
  <2>1. \A m, n \in 1 .. Len(WorkItemQueue') : WorkItemQueue'[m] = WorkItemQueue'[n] => m = n
    BY <1>2, <1>3, <1>5 DEF OneHolder, QueueOnce, Queued
  <2> QED BY <1>6, <1>7, <2>1 DEF OneHolder, QueueOnce
<1>9. HeldOnce'
  BY <1>1, <1>6 DEF OneHolder, HeldOnce, TypeOK
<1> QED BY <1>8, <1>9 DEF OneHolder

LEMMA OneHolderStep ==
  ASSUME TypeOK, OneHolder, [Next]_vars
  PROVE  OneHolder'
<1> USE DEF Location, UsingPool, Counted
<1>a. /\ QueueOnce /\ HeldOnce /\ None \notin Item
      /\ WorkItemQueue \in Seq(Item) /\ item \in [Item -> ItemState]
      /\ pc \in [Thread -> Location] /\ wi \in [Thread -> Item \cup {None}]
      /\ client \in Item \cup {None}
  BY ThreadPoolAssumption DEF OneHolder, TypeOK
<1>1. ASSUME NEW t \in Thread, AddThread(t) \/ WaitSync(t) PROVE OneHolder'
  BY <1>1, EmptyHanded DEF AddThread, WaitSync
<1>2. ASSUME NEW t \in Thread, DeQueue(t) PROVE OneHolder'
  <2>1. CASE WorkItemQueue = <<>>
    BY <1>2, <2>1, EmptyHanded DEF DeQueue
  <2>2. CASE WorkItemQueue # <<>>
    <3> DEFINE i == Head(WorkItemQueue)
               l == IF Terminate THEN "discard" ELSE "callback"
               became == IF Terminate THEN "dropped" ELSE "running"
    <3>1. /\ WorkItemQueue' = Tail(WorkItemQueue) /\ wi' = [wi EXCEPT ![t] = i] /\ Goto(t, l)
          /\ item' = [item EXCEPT ![i] = became] /\ UNCHANGED client /\ pc[t] = "woken"
      BY <1>2, <2>2 DEF DeQueue, AfterDeQueue
    <3>2. /\ i \in Item /\ Len(Tail(WorkItemQueue)) = Len(WorkItemQueue) - 1
          /\ \A n \in 1 .. Len(Tail(WorkItemQueue)) : Tail(WorkItemQueue)[n] = WorkItemQueue[n + 1]
          /\ Len(WorkItemQueue) \in Nat /\ Len(WorkItemQueue) # 0 /\ i = WorkItemQueue[1]
      BY <1>a, <2>2, HeadTailProperties
    <3>3. PICK j \in Item : j = i
      BY <3>2
    <3>4. PICK k \in {"discard", "callback"} : k = l
      OBVIOUS
    <3>5. PICK s \in {"dropped", "running"} : s = became
      OBVIOUS
    <3>6. k = "discard" <=> s = "dropped"
      BY <3>4, <3>5
    <3>7. /\ \A u \in Thread : pc'[u] = IF u = t THEN k ELSE pc[u]
          /\ \A u \in Thread : wi'[u] = IF u = t THEN j ELSE wi[u]
          /\ \A x \in Item : item'[x] = IF x = j THEN s ELSE item[x]
      BY <3>1, <3>3, <3>4, <3>5, <1>a DEF Goto
    <3> HIDE DEF i, l, became
    <3>8. 1 \in 1 .. Len(WorkItemQueue) /\ WorkItemQueue[1] = j
      BY <3>2, <3>3
    <3>9. item[j] = "queued"
      BY <3>8, <1>a DEF QueueOnce, Queued
    <3>10. QueueOnce'
      <4>1. \A n \in 1 .. Len(WorkItemQueue') :
              n + 1 \in 1 .. Len(WorkItemQueue) /\ WorkItemQueue'[n] = WorkItemQueue[n + 1]
        BY <3>1, <3>2
      <4>2. \A m, n \in 1 .. Len(WorkItemQueue') : WorkItemQueue'[m] = WorkItemQueue'[n] => m = n
        <5> SUFFICES ASSUME NEW m \in 1 .. Len(WorkItemQueue'), NEW n \in 1 .. Len(WorkItemQueue'),
                            WorkItemQueue'[m] = WorkItemQueue'[n]
                     PROVE  m = n
          OBVIOUS
        <5>1. m + 1 = n + 1
          BY <4>1, <1>a DEF QueueOnce
        <5> QED BY <5>1, <3>1, <3>2
      <4>3. \A n \in 1 .. Len(WorkItemQueue') : WorkItemQueue'[n] # j
        <5> SUFFICES ASSUME NEW n \in 1 .. Len(WorkItemQueue'), WorkItemQueue'[n] = j
                     PROVE  FALSE
          OBVIOUS
        <5>1. n + 1 = 1
          BY <4>1, <3>8, <1>a DEF QueueOnce
        <5> QED BY <5>1, <3>1, <3>2
      <4>4. \A x \in Item : Queued(x) => x = j \/ Queued(x)'
        <5> SUFFICES ASSUME NEW x \in Item, NEW n \in 1 .. Len(WorkItemQueue),
                            WorkItemQueue[n] = x, x # j
                     PROVE  Queued(x)'
          BY DEF Queued
        <5>1. n # 1
          BY <3>8
        <5>2. n - 1 \in 1 .. Len(WorkItemQueue') /\ (n - 1) + 1 = n
          BY <5>1, <3>1, <3>2
        <5>3. WorkItemQueue'[n - 1] = x
          BY <4>1, <5>2
        <5> QED BY <5>2, <5>3 DEF Queued
      <4>5. \A x \in Item : Queued(x)' => Queued(x) /\ x # j
        BY <4>1, <4>3 DEF Queued
      <4> QED BY <4>2, <4>4, <4>5, <3>7, <1>a DEF QueueOnce
    <3>11. HeldOnce'
      <4>1. client # j /\ \A u \in Thread : wi[u] # j
        BY <3>9, <1>a DEF HeldOnce
      <4>2. \A u \in Thread :
              /\ pc'[u] \notin {"callback", "discard"} => wi'[u] = None
              /\ pc'[u] = "callback" => wi'[u] \in Item /\ item'[wi'[u]] = "running"
              /\ pc'[u] = "discard" => wi'[u] \in Item /\ item'[wi'[u]] = "dropped"
        BY <3>6, <3>7, <4>1, <1>a DEF HeldOnce
      <4>3. \A u, v \in Thread : wi'[u] = wi'[v] /\ wi'[u] # None => u = v
        BY <3>7, <4>1, <1>a DEF HeldOnce
      <4>4. client' # None => item'[client'] = "running" /\ \A u \in Thread : wi'[u] # client'
        BY <3>1, <3>7, <4>1, <1>a DEF HeldOnce
      <4>5. \A x \in Item : item'[x] = "running" => client' = x \/ \E u \in Thread : wi'[u] = x
        <5> SUFFICES ASSUME NEW x \in Item, item'[x] = "running", client # x
                     PROVE  \E u \in Thread : wi'[u] = x
          BY <3>1
        <5>1. CASE x = j
          BY <5>1, <3>7
        <5>2. CASE x # j
          <6>1. PICK u \in Thread : wi[u] = x
            BY <5>2, <3>7, <1>a DEF HeldOnce
          <6>2. u # t
            BY <6>1, <3>1, <1>a DEF HeldOnce
          <6> QED BY <6>1, <6>2, <3>7
        <5> QED BY <5>1, <5>2
      <4> QED BY <4>2, <4>3, <4>4, <4>5 DEF HeldOnce
    <3> QED BY <3>10, <3>11 DEF OneHolder
  <2> QED BY <2>1, <2>2
<1>3. ASSUME NEW t \in Thread, FreeItem(t) PROVE OneHolder'
  <2>1. PICK i \in Item : wi[t] = i
    BY <1>3, <1>a DEF FreeItem, HeldOnce
  <2>2. /\ \A u \in Thread : pc'[u] = IF u = t THEN "recheck" ELSE pc[u]
        /\ \A u \in Thread : wi'[u] = IF u = t THEN None ELSE wi[u]
        /\ UNCHANGED <<WorkItemQueue, client>>
    BY <1>3, <1>a DEF FreeItem, Goto
  <2>3. /\ item' = [item EXCEPT ![i] = IF pc[t] = "callback" THEN "done" ELSE @]
        /\ pc[t] \in {"callback", "discard"}
    BY <1>3, <2>1 DEF FreeItem
  <2>4. /\ item'[i] \in {"done", "dropped"} /\ item[i] \in {"running", "dropped"}
        /\ \A x \in Item : x # i => item'[x] = item[x]
    BY <2>1, <2>3, <1>a DEF HeldOnce
  <2>5. client # i /\ \A u \in Thread : u # t => wi[u] # i
    BY <2>1, <1>a DEF HeldOnce
  <2>6. QueueOnce'
    <3>1. \A x \in Item : Queued(x)' <=> Queued(x)
      BY <2>2 DEF Queued
    <3>2. \A x \in Item : item'[x] = "queued" <=> item[x] = "queued"
      BY <2>4
    <3> QED BY <2>2, <3>1, <3>2, <1>a DEF QueueOnce
  <2>7. HeldOnce'
    <3>1. \A u \in Thread :
            /\ pc'[u] \notin {"callback", "discard"} => wi'[u] = None
            /\ pc'[u] = "callback" => wi'[u] \in Item /\ item'[wi'[u]] = "running"
            /\ pc'[u] = "discard" => wi'[u] \in Item /\ item'[wi'[u]] = "dropped"
      BY <2>2, <2>4, <2>5, <1>a DEF HeldOnce
    <3>2. \A u, v \in Thread : wi'[u] = wi'[v] /\ wi'[u] # None => u = v
      BY <2>2, <1>a DEF HeldOnce
    <3>3. client' # None => item'[client'] = "running" /\ \A u \in Thread : wi'[u] # client'
      BY <2>2, <2>4, <2>5, <1>a DEF HeldOnce
    <3>4. \A x \in Item : item'[x] = "running" => client' = x \/ \E u \in Thread : wi'[u] = x
      <4> SUFFICES ASSUME NEW x \in Item, item'[x] = "running", client # x
                   PROVE  \E u \in Thread : wi'[u] = x
        BY <2>2
      <4>1. x # i /\ item[x] = "running"
        BY <2>4
      <4>2. PICK u \in Thread : wi[u] = x
        BY <4>1, <1>a DEF HeldOnce
      <4> QED BY <4>1, <4>2, <2>1, <2>2
    <3> QED BY <3>1, <3>2, <3>3, <3>4 DEF HeldOnce
  <2> QED BY <2>6, <2>7 DEF OneHolder
<1>4. ASSUME NEW t \in Thread, Recheck(t) \/ Leave(t) \/ SignalAbort(t) PROVE OneHolder'
  BY <1>4, EmptyHanded DEF Recheck, Leave, SignalAbort
<1>5. ASSUME NEW i \in Item, item[i] = "fresh", client = None, RunInline(i) PROVE OneHolder'
  <2>1. client' = i /\ UNCHANGED <<WorkItemQueue, pc, wi>>
    BY <1>5 DEF RunInline
  <2>2. \A x \in Item : item'[x] = IF x = i THEN "running" ELSE item[x]
    BY <1>5, <1>a DEF RunInline
  <2>3. QueueOnce'
    <3>1. \A x \in Item : Queued(x)' <=> Queued(x)
      BY <2>1 DEF Queued
    <3>2. \A x \in Item : item'[x] = "queued" <=> item[x] = "queued"
      BY <2>2, <1>5
    <3> QED BY <2>1, <3>1, <3>2, <1>a DEF QueueOnce
  <2>4. \A u \in Thread : wi[u] # i
    BY <1>5, <1>a DEF HeldOnce
  <2>5. HeldOnce'
    BY <2>1, <2>2, <2>4, <1>5, <1>a DEF HeldOnce
  <2> QED BY <2>3, <2>5 DEF OneHolder
<1>6. ASSUME NEW i \in Item, SubmitFromClient(i) PROVE OneHolder'
  BY <1>5, <1>6, EnQueueStep DEF SubmitFromClient
<1>7. ASSUME NEW t \in Thread, NEW i \in Item, SubmitFromHandler(t, i) PROVE OneHolder'
  BY <1>7, EnQueueStep DEF SubmitFromHandler
<1>8. CASE InlineDone
  <2>1. PICK i \in Item : client = i
    BY <1>8, <1>a DEF InlineDone
  <2>2. client' = None /\ UNCHANGED <<WorkItemQueue, pc, wi>>
    BY <1>8 DEF InlineDone
  <2>3. /\ \A x \in Item : item'[x] = IF x = i THEN "done" ELSE item[x]
        /\ item[i] = "running" /\ \A u \in Thread : wi[u] # i
    BY <1>8, <2>1, <1>a DEF InlineDone, HeldOnce
  <2>4. QueueOnce'
    <3>1. \A x \in Item : Queued(x)' <=> Queued(x)
      BY <2>2 DEF Queued
    <3>2. \A x \in Item : item'[x] = "queued" <=> item[x] = "queued"
      BY <2>3
    <3> QED BY <2>2, <3>1, <3>2, <1>a DEF QueueOnce
  <2>5. HeldOnce'
    BY <2>1, <2>2, <2>3, <1>a DEF HeldOnce
  <2> QED BY <2>4, <2>5 DEF OneHolder
<1>9. CASE DestroyEnter \/ DestroyPost \/ DestroyWait \/ UNCHANGED vars
  <2>1. UNCHANGED <<WorkItemQueue, pc, wi, client, item>>
    BY <1>9 DEF DestroyEnter, DestroyPost, DestroyWait, vars
  <2> QED BY <2>1, <1>a DEF OneHolder, QueueOnce, Queued, HeldOnce
<1>10. CASE DestroyFree
  <2>1. /\ Len(WorkItemQueue') = 0 /\ UNCHANGED <<pc, wi, client>>
        /\ \A x \in Item : item'[x] = IF item[x] = "queued" THEN "leaked" ELSE item[x]
    BY <1>10 DEF DestroyFree
  <2>2. QueueOnce'
    BY <2>1 DEF QueueOnce, Queued
  <2>3. HeldOnce'
    BY <2>1, <1>a DEF HeldOnce
  <2> QED BY <2>2, <2>3 DEF OneHolder
<1> QED BY <1>1, <1>2, <1>3, <1>4, <1>6, <1>7, <1>8, <1>9, <1>10
        DEF Next, PoolThread, Submit, Destroy

(* No handler runs twice for one submission: an item that runs is with the  *)
(* client or with one thread, and what is queued is queued once.            *)
THEOREM HandlersRunOnce == Spec => []ExactlyOnce
<1>1. OneHolder => ExactlyOnce
  <2> SUFFICES ASSUME OneHolder, NEW i \in Item, item[i] = "running"
               PROVE  \/ client = i /\ Holders(i) = {}
                      \/ client # i /\ Cardinality(Holders(i)) = 1
    BY DEF OneHolder, QueueOnce, Queued, ExactlyOnce
  <2>1. CASE client = i
    BY <2>1, ThreadPoolAssumption DEF OneHolder, HeldOnce, Holders
  <2>2. CASE client # i
    <3>1. PICK t \in Thread : wi[t] = i
      BY <2>2 DEF OneHolder, HeldOnce
    <3>2. Holders(i) = {t}
      BY <3>1, ThreadPoolAssumption DEF OneHolder, HeldOnce, Holders
    <3> QED BY <2>2, <3>2, FS_Singleton
  <2> QED BY <2>1, <2>2
<1>2. Accounting /\ OneHolder /\ [Next]_vars => (Accounting /\ OneHolder)'
  BY AccountingStep, OneHolderStep DEF Accounting
<1> QED BY <1>1, <1>2, AccountingInit, OneHolderInit, PTL DEF Spec

-----------------------------------------------------------------------------
(* The reader/writer lock *)

LEMMA CallerFinite == IsFiniteSet(Caller)
BY LockAssumption, FS_Union DEF Caller

-----------------------------------------------------------------------------
(* The inductive invariant.  While Exit is 0:                               *)
(*  - the right to write is one baton, held by a writer inside, by a thread *)
(*    about to post WriteLock or by WriteLock itself, and it exists exactly *)
(*    when writers are pending and no reader is active;                     *)
(*  - ActiveReaders counts the readers inside and those that are promoted   *)
(*    but not woken: ReadLock tokens and the posts one thread still owes.   *)
Inside   == {"rpass", "radmit", "reading"}
WithTurn == {"wpass", "wadmit", "writing", "signal"}

Baton ==
  Cardinality(At(Caller, at, WithTurn)) + WriteLock =
    IF PendingWriters > 0 /\ ActiveReaders = 0 THEN 1 ELSE 0

OwedBy(n) ==
  \/ n = 0 /\ \A t \in Caller : toWake[t] = 0
  \/ n > 0 /\ \E t \in Caller : /\ toWake[t] = n
                               /\ \A u \in Caller : u # t => toWake[u] = 0

ReadersCounted ==
  \E n \in Nat :
    OwedBy(n) /\ ActiveReaders = Cardinality(At(Caller, at, Inside)) + ReadLock + n

NobodyRefused == \A t \in Caller : at[t] # "refuse"

LockInv ==
  /\ RWTypeOK
  /\ MutualExclusion
  /\ Exit <=> collector # "idle"
  /\ ~Exit => Baton /\ ReadersCounted /\ NobodyRefused

LEMMA LockInit == RWInit => LockInv
<1> SUFFICES ASSUME RWInit PROVE LockInv
  OBVIOUS
<1>1. RWTypeOK /\ MutualExclusion /\ NobodyRefused
  BY DEF RWInit, RWTypeOK, MutualExclusion, HoldsRead, HoldsWrite, NobodyRefused, Caller,
         RLocation, WLocation
<1>2. /\ Cardinality(At(Caller, at, WithTurn)) = 0
      /\ Cardinality(At(Caller, at, Inside)) = 0
  BY NobodyAt, CallerFinite DEF RWInit, WithTurn, Inside
<1>3. Baton
  BY <1>2 DEF RWInit, Baton
<1>4. ReadersCounted
  BY <1>2 DEF RWInit, ReadersCounted, OwedBy
<1> QED BY <1>1, <1>3, <1>4 DEF LockInv, RWInit

(* With the baton, no reader is inside and none is on its way; and only one *)
(* thread has it.                                                           *)
LEMMA BatonExcludes ==
  ASSUME LockInv, ~Exit, NEW t \in Caller, at[t] \in WithTurn
  PROVE  /\ ActiveReaders = 0 /\ PendingWriters > 0 /\ WriteLock = 0
         /\ Cardinality(At(Caller, at, WithTurn)) = 1
         /\ \A u \in Caller : at[u] \in WithTurn => u = t
         /\ \A u \in Caller : at[u] \notin Inside /\ toWake[u] = 0
         /\ ReadLock = 0
<1>1. /\ RWTypeOK /\ Baton /\ ReadersCounted
      /\ Cardinality(At(Caller, at, WithTurn)) \in Nat
      /\ Cardinality(At(Caller, at, Inside)) \in Nat
  BY AtFinite, CallerFinite DEF LockInv
<1>2. Cardinality(At(Caller, at, WithTurn)) # 0
  BY NobodyAt, CallerFinite
<1>3. /\ ActiveReaders = 0 /\ PendingWriters > 0 /\ WriteLock = 0
      /\ Cardinality(At(Caller, at, WithTurn)) = 1
  BY <1>1, <1>2 DEF Baton, RWTypeOK
<1>4. \A u \in Caller : at[u] \in WithTurn => u = t
  BY <1>3, CountOne, CallerFinite
<1>5. PICK n \in Nat :
        OwedBy(n) /\ ActiveReaders = Cardinality(At(Caller, at, Inside)) + ReadLock + n
  BY <1>1 DEF ReadersCounted
<1>6. n = 0 /\ ReadLock = 0 /\ Cardinality(At(Caller, at, Inside)) = 0
  BY <1>1, <1>3, <1>5 DEF RWTypeOK
<1>7. \A u \in Caller : at[u] \notin Inside
  BY <1>6, NobodyAt, CallerFinite
<1> QED BY <1>3, <1>4, <1>5, <1>6, <1>7 DEF OwedBy

-----------------------------------------------------------------------------
LEMMA HoldersShrink ==
  ASSUME MutualExclusion, HoldsRead' \subseteq HoldsRead, HoldsWrite' \subseteq HoldsWrite
  PROVE  MutualExclusion'
<1>1. \A w \in HoldsWrite' : HoldsRead' = {} /\ HoldsWrite' = {w}
  BY DEF MutualExclusion
<1> QED BY <1>1 DEF MutualExclusion

LEMMA MoveToStep ==
  ASSUME RWTypeOK, NEW t \in Caller, NEW l \in RLocation \cup WLocation, MoveTo(t, l)
  PROVE  /\ Moves(Caller, at, at', t) /\ at'[t] = l
         /\ at' \in [Caller -> RLocation \cup WLocation]
         /\ l \notin {"radmit", "reading"} => HoldsRead' \subseteq HoldsRead
         /\ l \notin {"wadmit", "writing"} => HoldsWrite' \subseteq HoldsWrite
<1>1. /\ Moves(Caller, at, at', t) /\ at'[t] = l
      /\ at' \in [Caller -> RLocation \cup WLocation]
  BY DEF RWTypeOK, MoveTo, Moves
<1> QED BY <1>1 DEF Moves, HoldsRead, HoldsWrite, Caller

(* A move that neither enters nor leaves the sets the invariant counts.     *)
LEMMA CountsKept ==
  ASSUME LockInv, NEW t \in Caller, NEW l \in (RLocation \cup WLocation) \ {"refuse"},
         MoveTo(t, l), l \in WithTurn <=> at[t] \in WithTurn, l \in Inside <=> at[t] \in Inside,
         UNCHANGED <<ActiveReaders, PendingWriters, ReadLock, WriteLock, toWake, Exit>>
  PROVE  ~Exit => (Baton /\ ReadersCounted /\ NobodyRefused)'
<1>1. /\ Moves(Caller, at, at', t) /\ at'[t] = l
  BY MoveToStep DEF LockInv
<1>2. /\ At(Caller, at', WithTurn) = At(Caller, at, WithTurn)
      /\ At(Caller, at', Inside) = At(Caller, at, Inside)
  BY <1>1, CountSame
<1>3. ~Exit => NobodyRefused'
  BY <1>1 DEF LockInv, NobodyRefused, Moves
<1> QED BY <1>2, <1>3 DEF LockInv, Baton, ReadersCounted, OwedBy

LEMMA LockStep == LockInv /\ [RWNext]_RWvars => LockInv'
<1> SUFFICES ASSUME LockInv, [RWNext]_RWvars PROVE LockInv'
  OBVIOUS
<1> DEFINE W == Cardinality(At(Caller, at, WithTurn))
           R == Cardinality(At(Caller, at, Inside))
<1>a. /\ RWTypeOK /\ MutualExclusion /\ (Exit <=> collector # "idle")
      /\ ~Exit => Baton /\ ReadersCounted /\ NobodyRefused
      /\ W \in Nat /\ R \in Nat
  BY AtFinite, CallerFinite DEF LockInv
<1> USE DEF RLocation, WLocation
<1>1. ASSUME NEW t \in Reader, ReadLockEnter(t) PROVE LockInv'
  <2>1. t \in Caller /\ ~Exit /\ at[t] = "idle" /\ UNCHANGED <<collector, Exit, PendingWriters,
          ReadLock, WriteLock, ExitLock, toWake, toCollect>>
    BY <1>1 DEF ReadLockEnter, Caller, semaphores, destruction
  <2>2. CASE PendingWriters > 0
    <3>1. /\ MoveTo(t, "rblocked") /\ UNCHANGED ActiveReaders
          /\ WaitingReaders' = WaitingReaders + 1
      BY <1>1, <2>2 DEF ReadLockEnter, MustBlockReader
    <3>2. (Baton /\ ReadersCounted /\ NobodyRefused)'
      BY <2>1, <3>1, CountsKept DEF Inside, WithTurn
    <3>3. MutualExclusion' /\ at' \in [Caller -> RLocation \cup WLocation]
      BY <1>a, <2>1, <3>1, MoveToStep, HoldersShrink
    <3> QED BY <1>a, <2>1, <3>1, <3>2, <3>3 DEF LockInv, RWTypeOK
  <2>3. CASE ~(PendingWriters > 0)
    <3>1. /\ MoveTo(t, "rpass") /\ UNCHANGED WaitingReaders
          /\ ActiveReaders' = ActiveReaders + 1
      BY <1>1, <2>3 DEF ReadLockEnter, MustBlockReader
    <3>2. /\ Moves(Caller, at, at', t) /\ at'[t] = "rpass"
          /\ at' \in [Caller -> RLocation \cup WLocation] /\ MutualExclusion'
      BY <1>a, <2>1, <3>1, MoveToStep, HoldersShrink
    <3>3. /\ At(Caller, at', WithTurn) = At(Caller, at, WithTurn)
          /\ Cardinality(At(Caller, at', Inside)) = R + 1
      BY <2>1, <3>2, CountSame, CountUp, CallerFinite DEF Inside, WithTurn
    <3>4. Baton'
      BY <1>a, <2>1, <2>3, <3>1, <3>3 DEF Baton, RWTypeOK
    <3>5. ReadersCounted'
      BY <1>a, <2>1, <3>1, <3>3 DEF ReadersCounted, OwedBy, RWTypeOK
    <3>6. NobodyRefused'
      BY <1>a, <2>1, <3>2 DEF NobodyRefused, Moves
    <3> QED BY <1>a, <2>1, <3>1, <3>2, <3>4, <3>5, <3>6 DEF LockInv, RWTypeOK
  <2> QED BY <2>2, <2>3
<1>2. ASSUME NEW t \in Reader, ReaderWoken(t) PROVE LockInv'
  <2>1. /\ t \in Caller /\ at[t] = "rblocked" /\ MoveTo(t, "rpass") /\ ReadLock > 0
        /\ ReadLock' = ReadLock - 1
        /\ UNCHANGED <<ActiveReaders, WaitingReaders, PendingWriters, WriteLock, ExitLock,
                       toWake, collector, toCollect, Exit>>
    BY <1>2 DEF ReaderWoken, Caller, counters, destruction
  <2>2. /\ Moves(Caller, at, at', t) /\ at'[t] = "rpass"
        /\ at' \in [Caller -> RLocation \cup WLocation] /\ MutualExclusion'
    BY <1>a, <2>1, MoveToStep, HoldersShrink
  <2>3. /\ At(Caller, at', WithTurn) = At(Caller, at, WithTurn)
        /\ Cardinality(At(Caller, at', Inside)) = R + 1
    BY <2>1, <2>2, CountSame, CountUp, CallerFinite DEF Inside, WithTurn
  <2>4. ~Exit => Baton'
    BY <1>a, <2>1, <2>3 DEF Baton
  <2>5. ~Exit => ReadersCounted'
    BY <1>a, <2>1, <2>3 DEF ReadersCounted, OwedBy, RWTypeOK
  <2>6. ~Exit => NobodyRefused'
    BY <1>a, <2>1, <2>2 DEF NobodyRefused, Moves
  <2> QED BY <1>a, <2>1, <2>2, <2>4, <2>5, <2>6 DEF LockInv, RWTypeOK
<1>3. ASSUME NEW t \in Reader, ReadVerdict(t) PROVE LockInv'
  <2>1. /\ t \in Caller /\ at[t] = "rpass"
        /\ MoveTo(t, IF Exit THEN "refuse" ELSE "radmit")
        /\ UNCHANGED <<ActiveReaders, WaitingReaders, PendingWriters, ReadLock, WriteLock,
                       ExitLock, toWake, collector, toCollect, Exit>>
    BY <1>3 DEF ReadVerdict, Caller, counters, semaphores, destruction
  <2>2. CASE Exit
    BY <1>a, <2>1, <2>2, MoveToStep, HoldersShrink DEF LockInv, RWTypeOK
  <2>3. CASE ~Exit
    <3>1. (Baton /\ ReadersCounted /\ NobodyRefused)'
      BY <2>1, <2>3, CountsKept DEF Inside, WithTurn
    <3>2. HoldsWrite = {}
      BY <2>1, <2>3, BatonExcludes DEF HoldsWrite, WithTurn, Inside, Caller
    <3>3. HoldsWrite' \subseteq HoldsWrite /\ at' \in [Caller -> RLocation \cup WLocation]
      BY <1>a, <2>1, <2>3, MoveToStep
    <3>4. MutualExclusion'
      BY <3>2, <3>3 DEF MutualExclusion
    <3> QED BY <1>a, <2>1, <3>1, <3>3, <3>4 DEF LockInv, RWTypeOK
  <2> QED BY <2>2, <2>3
<1>4. ASSUME NEW t \in Reader, ReadLockReturn(t) PROVE LockInv'
  <2>1. /\ t \in Caller /\ at[t] = "radmit" /\ MoveTo(t, "reading")
        /\ ExitLock' = ExitLock + 1
        /\ UNCHANGED <<ActiveReaders, WaitingReaders, PendingWriters, ReadLock, WriteLock,
                       toWake, collector, toCollect, Exit>>
    BY <1>4 DEF ReadLockReturn, Posted, Caller, counters, destruction
  <2>2. ~Exit => (Baton /\ ReadersCounted /\ NobodyRefused)'
    BY <2>1, CountsKept DEF Inside, WithTurn
  <2>3. /\ Moves(Caller, at, at', t) /\ at'[t] = "reading"
        /\ at' \in [Caller -> RLocation \cup WLocation] /\ HoldsWrite' \subseteq HoldsWrite
    BY <1>a, <2>1, MoveToStep
  <2>4. HoldsRead' \subseteq HoldsRead
    BY <2>1, <2>3 DEF HoldsRead, Moves, Caller
  <2>5. MutualExclusion'
    BY <1>a, <2>3, <2>4, HoldersShrink
  <2> QED BY <1>a, <2>1, <2>2, <2>3, <2>5 DEF LockInv, RWTypeOK
<1>5. ASSUME NEW t \in Writer, WriteLockEnter(t) PROVE LockInv'
  <2>1. /\ t \in Caller /\ ~Exit /\ at[t] = "idle" /\ PendingWriters' = PendingWriters + 1
        /\ UNCHANGED <<ActiveReaders, WaitingReaders, ReadLock, WriteLock, ExitLock,
                       toWake, collector, toCollect, Exit>>
    BY <1>5 DEF WriteLockEnter, Caller, semaphores, destruction
  <2>2. PICK l \in {"wblocked", "wpass"} :
          MoveTo(t, l) /\ (l = "wblocked" <=> ActiveReaders > 0 \/ PendingWriters > 0)
    BY <1>a, <1>5 DEF WriteLockEnter, MustBlockWriter, RWTypeOK
  <2>3. /\ Moves(Caller, at, at', t) /\ at'[t] = l
        /\ at' \in [Caller -> RLocation \cup WLocation] /\ MutualExclusion'
    BY <1>a, <2>1, <2>2, MoveToStep, HoldersShrink
  <2>4. At(Caller, at', Inside) = At(Caller, at, Inside)
    BY <2>1, <2>3, CountSame DEF Inside
  <2>5. Baton'
    <3>1. CASE l = "wblocked"
      <4>1. At(Caller, at', WithTurn) = At(Caller, at, WithTurn)
        BY <2>1, <2>3, <3>1, CountSame DEF WithTurn
      <4> QED BY <1>a, <2>1, <2>2, <3>1, <4>1 DEF Baton, RWTypeOK
    <3>2. CASE l = "wpass"
      <4>1. Cardinality(At(Caller, at', WithTurn)) = W + 1
        BY <2>1, <2>3, <3>2, CountUp, CallerFinite DEF WithTurn
      <4> QED BY <1>a, <2>1, <2>2, <3>2, <4>1 DEF Baton, RWTypeOK
    <3> QED BY <3>1, <3>2
  <2>6. ReadersCounted' /\ NobodyRefused'
    BY <1>a, <2>1, <2>3, <2>4 DEF ReadersCounted, OwedBy, NobodyRefused, Moves
  <2> QED BY <1>a, <2>1, <2>3, <2>5, <2>6 DEF LockInv, RWTypeOK
<1>6. ASSUME NEW t \in Writer, WriterWoken(t) PROVE LockInv'
  <2>1. /\ t \in Caller /\ at[t] = "wblocked" /\ MoveTo(t, "wpass") /\ WriteLock > 0
        /\ WriteLock' = WriteLock - 1
        /\ UNCHANGED <<ActiveReaders, WaitingReaders, PendingWriters, ReadLock, ExitLock,
                       toWake, collector, toCollect, Exit>>
    BY <1>6 DEF WriterWoken, Caller, counters, destruction
  <2>2. /\ Moves(Caller, at, at', t) /\ at'[t] = "wpass"
        /\ at' \in [Caller -> RLocation \cup WLocation] /\ MutualExclusion'
    BY <1>a, <2>1, MoveToStep, HoldersShrink
  <2>3. /\ At(Caller, at', Inside) = At(Caller, at, Inside)
        /\ Cardinality(At(Caller, at', WithTurn)) = W + 1
    BY <2>1, <2>2, CountSame, CountUp, CallerFinite DEF Inside, WithTurn
  <2>4. ~Exit => Baton'
    BY <1>a, <2>1, <2>3 DEF Baton, RWTypeOK
  <2>5. ~Exit => ReadersCounted' /\ NobodyRefused'
    BY <1>a, <2>1, <2>2, <2>3 DEF ReadersCounted, OwedBy, NobodyRefused, Moves
  <2> QED BY <1>a, <2>1, <2>2, <2>4, <2>5 DEF LockInv, RWTypeOK
<1>7. ASSUME NEW t \in Writer, WriteVerdict(t) PROVE LockInv'
  <2>1. /\ t \in Caller /\ at[t] = "wpass"
        /\ MoveTo(t, IF Exit THEN "refuse" ELSE "wadmit")
        /\ UNCHANGED <<ActiveReaders, WaitingReaders, PendingWriters, ReadLock, WriteLock,
                       ExitLock, toWake, collector, toCollect, Exit>>
    BY <1>7 DEF WriteVerdict, Caller, counters, semaphores, destruction
  <2>2. CASE Exit
    BY <1>a, <2>1, <2>2, MoveToStep, HoldersShrink DEF LockInv, RWTypeOK
  <2>3. CASE ~Exit
    <3>1. (Baton /\ ReadersCounted /\ NobodyRefused)'
      BY <2>1, <2>3, CountsKept DEF Inside, WithTurn
    <3>2. HoldsRead = {} /\ HoldsWrite = {}
      BY <2>1, <2>3, BatonExcludes DEF HoldsRead, HoldsWrite, WithTurn, Inside, Caller
    <3>3. /\ HoldsRead' \subseteq HoldsRead /\ Moves(Caller, at, at', t)
          /\ at' \in [Caller -> RLocation \cup WLocation]
      BY <1>a, <2>1, <2>3, MoveToStep
    <3>4. MutualExclusion'
      BY <3>2, <3>3 DEF MutualExclusion, HoldsWrite, Moves, Caller
    <3> QED BY <1>a, <2>1, <3>1, <3>3, <3>4 DEF LockInv, RWTypeOK
  <2> QED BY <2>2, <2>3
<1>8. ASSUME NEW t \in Writer, WriteLockReturn(t) PROVE LockInv'
  <2>1. /\ t \in Caller /\ at[t] = "wadmit" /\ MoveTo(t, "writing")
        /\ ExitLock' = ExitLock + 1
        /\ UNCHANGED <<ActiveReaders, WaitingReaders, PendingWriters, ReadLock, WriteLock,
                       toWake, collector, toCollect, Exit>>
    BY <1>8 DEF WriteLockReturn, Posted, Caller, counters, destruction
  <2>2. ~Exit => (Baton /\ ReadersCounted /\ NobodyRefused)'
    BY <2>1, CountsKept DEF Inside, WithTurn
  <2>3. /\ Moves(Caller, at, at', t) /\ at'[t] = "writing"
        /\ at' \in [Caller -> RLocation \cup WLocation] /\ HoldsRead' \subseteq HoldsRead
    BY <1>a, <2>1, MoveToStep
  <2>4. HoldsWrite' \subseteq HoldsWrite
    BY <2>1, <2>3 DEF HoldsWrite, Moves, Caller
  <2>5. MutualExclusion'
    BY <1>a, <2>3, <2>4, HoldersShrink
  <2> QED BY <1>a, <2>1, <2>2, <2>3, <2>5 DEF LockInv, RWTypeOK
<1>9. ASSUME NEW t \in Caller, Refused(t) PROVE LockInv'
  <2>1. Exit /\ UNCHANGED <<ActiveReaders, WaitingReaders, PendingWriters, ReadLock,
          WriteLock, toWake, collector, toCollect, Exit>> /\ ExitLock' = ExitLock + 1
          /\ MoveTo(t, "idle")
    BY <1>a, <1>9 DEF Refused, NobodyRefused, Posted, counters, destruction
  <2> QED BY <1>a, <2>1, MoveToStep, HoldersShrink DEF LockInv, RWTypeOK
<1>10. ASSUME NEW t \in Reader, ReadUnLock(t) PROVE LockInv'
  <2>1. /\ t \in Caller /\ at[t] = "reading"
        /\ UNCHANGED <<WaitingReaders, PendingWriters, ReadLock, WriteLock, ExitLock,
                       toWake, collector, toCollect, Exit>>
    BY <1>10 DEF ReadUnLock, Caller, semaphores, destruction
  <2>2. CASE Exit
    <3>1. MoveTo(t, "idle") /\ UNCHANGED ActiveReaders
      BY <1>10, <2>2 DEF ReadUnLock
    <3> QED BY <1>a, <2>1, <2>2, <3>1, MoveToStep, HoldersShrink DEF LockInv, RWTypeOK
  <2>3. CASE ~Exit
    <3>1. PICK l \in {"signal", "drain"} :
            /\ MoveTo(t, l) /\ ActiveReaders' = ActiveReaders - 1
            /\ l = "signal" <=> ActiveReaders' = 0 /\ PendingWriters > 0
      BY <1>10, <2>3 DEF ReadUnLock, LastReaderSignals
    <3>2. /\ Moves(Caller, at, at', t) /\ at'[t] = l
          /\ at' \in [Caller -> RLocation \cup WLocation] /\ MutualExclusion'
      BY <1>a, <2>1, <3>1, MoveToStep, HoldersShrink
    <3>3. R = Cardinality(At(Caller, at', Inside)) + 1
      BY <2>1, <3>2, CountDown, CallerFinite DEF Inside
    <3>4. Cardinality(At(Caller, at', Inside)) \in Nat
      BY AtFinite, CallerFinite
    <3>5. ActiveReaders' \in Nat /\ ReadersCounted' /\ ActiveReaders > 0
      BY <1>a, <2>1, <2>3, <3>1, <3>3, <3>4 DEF ReadersCounted, OwedBy, RWTypeOK
    <3>6. Baton'
      <4>1. CASE l = "drain"
        <5>1. At(Caller, at', WithTurn) = At(Caller, at, WithTurn)
          BY <2>1, <3>2, <4>1, CountSame DEF WithTurn
        <5> QED BY <1>a, <2>1, <2>3, <3>1, <3>5, <4>1, <5>1 DEF Baton, RWTypeOK
      <4>2. CASE l = "signal"
        <5>1. Cardinality(At(Caller, at', WithTurn)) = W + 1
          BY <2>1, <3>2, <4>2, CountUp, CallerFinite DEF WithTurn
        <5> QED BY <1>a, <2>1, <2>3, <3>1, <3>5, <4>2, <5>1 DEF Baton, RWTypeOK
      <4> QED BY <4>1, <4>2
    <3>7. NobodyRefused'
      BY <1>a, <2>3, <3>2 DEF NobodyRefused, Moves
    <3> QED BY <1>a, <2>1, <3>2, <3>5, <3>6, <3>7 DEF LockInv, RWTypeOK
  <2> QED BY <2>2, <2>3
<1>11. ASSUME NEW t \in Writer, WriteUnLock(t) PROVE LockInv'
  <2>1. /\ t \in Caller /\ at[t] = "writing"
        /\ UNCHANGED <<ReadLock, WriteLock, ExitLock, collector, toCollect, Exit>>
    BY <1>11 DEF WriteUnLock, Caller, semaphores, destruction
  <2>2. CASE Exit
    <3>1. MoveTo(t, "idle") /\ UNCHANGED <<ActiveReaders, WaitingReaders, PendingWriters, toWake>>
      BY <1>11, <2>2 DEF WriteUnLock, counters
    <3> QED BY <1>a, <2>1, <2>2, <3>1, MoveToStep, HoldersShrink DEF LockInv, RWTypeOK
  <2>3. CASE ~Exit
    <3>1. /\ ActiveReaders = 0 /\ PendingWriters > 0 /\ WriteLock = 0 /\ W = 1
          /\ \A u \in Caller : at[u] \notin Inside /\ toWake[u] = 0
          /\ ReadLock = 0
      BY <2>1, <2>3, BatonExcludes DEF WithTurn
    <3>2. PICK l \in {"signal", "wake"} :
            MoveTo(t, l) /\ (l = "signal" <=> PendingWriters > 1)
      BY <1>11, <2>3, <1>a DEF WriteUnLock, RWTypeOK
    <3>3. /\ Moves(Caller, at, at', t) /\ at'[t] = l
          /\ at' \in [Caller -> RLocation \cup WLocation] /\ MutualExclusion'
      BY <1>a, <2>1, <3>2, MoveToStep, HoldersShrink
    <3>4. At(Caller, at', Inside) = At(Caller, at, Inside)
      BY <2>1, <3>3, CountSame DEF Inside
    <3>a. NobodyRefused'
      BY <1>a, <2>1, <2>3, <3>3 DEF NobodyRefused, Moves
    <3>5. R = 0
      BY <3>1, NobodyAt, CallerFinite
    <3>6. CASE PendingWriters > 1
      <4>1. /\ PendingWriters' = PendingWriters - 1
            /\ UNCHANGED <<ActiveReaders, WaitingReaders, toWake>>
        BY <1>a, <1>11, <2>3, <3>6 DEF WriteUnLock, RWTypeOK
      <4>2. At(Caller, at', WithTurn) = At(Caller, at, WithTurn)
        BY <2>1, <3>2, <3>3, <3>6, CountSame DEF WithTurn
      <4>3. Baton'
        BY <1>a, <2>1, <3>1, <3>6, <4>1, <4>2 DEF Baton, RWTypeOK
      <4>4. ReadersCounted'
        BY <1>a, <2>1, <2>3, <3>4, <4>1 DEF ReadersCounted, OwedBy
      <4> QED BY <1>a, <2>1, <3>3, <3>a, <3>6, <4>1, <4>3, <4>4 DEF LockInv, RWTypeOK
    <3>7. CASE ~(PendingWriters > 1)
      <4>1. /\ PendingWriters' = 0 /\ PendingWriters = 1
            /\ toWake' = [toWake EXCEPT ![t] = WaitingReaders]
            /\ ActiveReaders' = WaitingReaders /\ WaitingReaders' = 0
        BY <1>a, <1>11, <2>3, <3>1, <3>7 DEF WriteUnLock, Promoted, RWTypeOK
      <4>2. W = Cardinality(At(Caller, at', WithTurn)) + 1
        BY <2>1, <3>2, <3>3, <3>7, CountDown, CallerFinite DEF WithTurn
      <4>3. Baton'
        <5>1. Cardinality(At(Caller, at', WithTurn)) \in Nat
          BY AtFinite, CallerFinite
        <5> QED BY <2>1, <3>1, <4>1, <4>2, <5>1 DEF Baton
      <4>4. toWake' \in [Caller -> Nat] /\ WaitingReaders \in Nat
        BY <1>a, <4>1 DEF RWTypeOK
      <4>5. /\ toWake'[t] = WaitingReaders
            /\ \A u \in Caller : u # t => toWake'[u] = 0
        BY <1>a, <2>1, <3>1, <4>1 DEF RWTypeOK
      <4>6. ReadersCounted'
        <5>1. OwedBy(ActiveReaders)'
          BY <2>1, <4>1, <4>4, <4>5 DEF OwedBy
        <5>2. ActiveReaders' = Cardinality(At(Caller, at', Inside)) + ReadLock' + ActiveReaders'
          BY <2>1, <3>1, <3>4, <3>5, <4>1, <4>4
        <5> QED BY <4>1, <4>4, <5>1, <5>2 DEF ReadersCounted
      <4> QED BY <1>a, <2>1, <3>3, <3>a, <4>1, <4>3, <4>4, <4>6 DEF LockInv, RWTypeOK
    <3> QED BY <3>6, <3>7
  <2> QED BY <2>2, <2>3
<1>12. ASSUME NEW t \in Caller, SignalWriter(t) PROVE LockInv'
  <2>1. /\ at[t] = "signal" /\ MoveTo(t, "drain") /\ WriteLock' = WriteLock + 1
        /\ UNCHANGED <<ActiveReaders, WaitingReaders, PendingWriters, ReadLock, ExitLock,
                       toWake, collector, toCollect, Exit>>
    BY <1>12 DEF SignalWriter, counters, destruction
  <2>2. /\ Moves(Caller, at, at', t) /\ at'[t] = "drain"
        /\ at' \in [Caller -> RLocation \cup WLocation] /\ MutualExclusion'
    BY <1>a, <2>1, MoveToStep, HoldersShrink
  <2>3. /\ At(Caller, at', Inside) = At(Caller, at, Inside)
        /\ W = Cardinality(At(Caller, at', WithTurn)) + 1
    BY <2>1, <2>2, CountSame, CountDown, CallerFinite DEF Inside, WithTurn
  <2>4. Cardinality(At(Caller, at', WithTurn)) \in Nat
    BY AtFinite, CallerFinite
  <2>5. ~Exit => Baton'
    BY <1>a, <2>1, <2>3, <2>4 DEF Baton, RWTypeOK
  <2>6. ~Exit => ReadersCounted' /\ NobodyRefused'
    BY <1>a, <2>1, <2>2, <2>3 DEF ReadersCounted, OwedBy, NobodyRefused, Moves
  <2> QED BY <1>a, <2>1, <2>2, <2>5, <2>6 DEF LockInv, RWTypeOK
<1>13. ASSUME NEW t \in Writer, WakeReader(t) PROVE LockInv'
  <2>1. /\ t \in Caller /\ at[t] = "wake"
        /\ UNCHANGED <<ActiveReaders, WaitingReaders, PendingWriters, WriteLock, ExitLock,
                       collector, toCollect, Exit>>
    BY <1>13 DEF WakeReader, Caller, counters, destruction
  <2>2. CASE toWake[t] > 0
    <3>1. /\ ReadLock' = ReadLock + 1 /\ toWake' = [toWake EXCEPT ![t] = toWake[t] - 1]
          /\ at' = at
      BY <1>13, <2>2 DEF WakeReader
    <3>2. /\ toWake' \in [Caller -> Nat] /\ toWake'[t] = toWake[t] - 1
          /\ \A u \in Caller : u # t => toWake'[u] = toWake[u]
      BY <1>a, <2>1, <2>2, <3>1 DEF RWTypeOK
    <3>3. ~Exit => ReadersCounted'
      <4> SUFFICES ASSUME ~Exit PROVE ReadersCounted'
        OBVIOUS
      <4>1. PICK n \in Nat : OwedBy(n) /\ ActiveReaders = R + ReadLock + n
        BY <1>a DEF ReadersCounted
      <4>2. n = toWake[t] /\ \A u \in Caller : u # t => toWake[u] = 0
        BY <2>1, <2>2, <4>1 DEF OwedBy
      <4>3. n - 1 \in Nat /\ toWake'[t] = n - 1 /\ \A u \in Caller : u # t => toWake'[u] = 0
        BY <2>2, <3>2, <4>1, <4>2
      <4>4. \/ n - 1 = 0 /\ \A u \in Caller : toWake'[u] = 0
            \/ n - 1 > 0 /\ \E v \in Caller : toWake'[v] = n - 1
                               /\ \A u \in Caller : u # v => toWake'[u] = 0
        BY <2>1, <4>3
      <4>5. ActiveReaders' = Cardinality(At(Caller, at', Inside)) + ReadLock' + (n - 1)
        BY <1>a, <2>1, <3>1, <4>1 DEF RWTypeOK
      <4> QED BY <4>3, <4>4, <4>5 DEF ReadersCounted, OwedBy
    <3>4. MutualExclusion' /\ (~Exit => Baton' /\ NobodyRefused')
      BY <1>a, <2>1, <3>1 DEF MutualExclusion, HoldsRead, HoldsWrite, Baton, NobodyRefused
    <3> QED BY <1>a, <2>1, <3>1, <3>2, <3>3, <3>4 DEF LockInv, RWTypeOK
  <2>3. CASE ~(toWake[t] > 0)
    <3>1. MoveTo(t, "drain") /\ UNCHANGED <<ReadLock, toWake>>
      BY <1>13, <2>3 DEF WakeReader
    <3>2. ~Exit => (Baton /\ ReadersCounted /\ NobodyRefused)'
      BY <2>1, <3>1, CountsKept DEF Inside, WithTurn
    <3> QED BY <1>a, <2>1, <3>1, <3>2, MoveToStep, HoldersShrink DEF LockInv, RWTypeOK
  <2> QED BY <2>2, <2>3
<1>14. ASSUME NEW t \in Caller, Drain(t) PROVE LockInv'
  <2>1. /\ at[t] = "drain" /\ MoveTo(t, "idle") /\ ExitLock > 0 /\ ExitLock' = ExitLock - 1
        /\ UNCHANGED <<ActiveReaders, WaitingReaders, PendingWriters, ReadLock, WriteLock,
                       toWake, collector, toCollect, Exit>>
    BY <1>14 DEF Drain, counters, destruction
  <2>2. ~Exit => (Baton /\ ReadersCounted /\ NobodyRefused)'
    BY <2>1, CountsKept DEF Inside, WithTurn
  <2>3. MutualExclusion' /\ at' \in [Caller -> RLocation \cup WLocation]
    BY <1>a, <2>1, MoveToStep, HoldersShrink
  <2> QED BY <1>a, <2>1, <2>2, <2>3 DEF LockInv, RWTypeOK
<1>15. CASE Destroy2Enter
  <2>1. /\ Excess(PendingWriters) \in Nat /\ PendingWriters - Excess(PendingWriters) \in Nat
    BY <1>a DEF Excess, RWTypeOK
  <2>2. MutualExclusion'
    BY <1>a, <1>15 DEF Destroy2Enter, MutualExclusion, HoldsRead, HoldsWrite
  <2> QED BY <1>a, <1>15, <2>1, <2>2 DEF Destroy2Enter, LockInv, RWTypeOK
<1>16. CASE Destroy2Collect
  <2>1. MutualExclusion'
    BY <1>a, <1>16 DEF Destroy2Collect, MutualExclusion, HoldsRead, HoldsWrite
  <2>2. Exit /\ Exit'
    BY <1>a, <1>16 DEF Destroy2Collect
  <2> QED BY <1>a, <1>16, <2>1, <2>2 DEF Destroy2Collect, LockInv, RWTypeOK, counters
<1>17. CASE UNCHANGED RWvars
  BY <1>a, <1>17
  DEF RWvars, counters, semaphores, destruction, LockInv, RWTypeOK, MutualExclusion, HoldsRead,
      HoldsWrite, Baton, ReadersCounted, OwedBy, NobodyRefused
<1>18. Reader \subseteq Caller /\ Writer \subseteq Caller
  BY DEF Caller
<1> QED
  BY <1>1, <1>2, <1>3, <1>4, <1>5, <1>6, <1>7, <1>8, <1>9, <1>10, <1>11, <1>12, <1>13,
     <1>14, <1>15, <1>16, <1>17, <1>18
  DEF RWNext, Enter, ReaderSteps, WriterSteps, Destroy2

(* Types; in particular ActiveReaders and PendingWriters never drop below 0 *)
(* although Destroy rewrites the counters under the unlocks.                *)
THEOREM RWTypeCorrect == RWSpec => []RWTypeOK
<1>1. LockInv => RWTypeOK
  BY DEF LockInv
<1> QED BY <1>1, LockInit, LockStep, PTL DEF RWSpec

(* A writer that holds the lock holds it alone, whatever Destroy does.      *)
THEOREM Exclusion == RWSpec => []MutualExclusion
<1>1. LockInv => MutualExclusion
  BY DEF LockInv
<1> QED BY <1>1, LockInit, LockStep, PTL DEF RWSpec

-----------------------------------------------------------------------------
(* Nobody is forgotten.  Until Destroy the counters of those who wait are   *)
(* exact: a writer is pending from its request to its unlock, a reader      *)
(* waits until it is promoted, and a promoted one has a token or a writer   *)
(* that still owes it one.  Readers only wait behind a writer.              *)
Wanting == {"wblocked", "wpass", "wadmit", "writing"}

ReadersAwaited ==
  \E n \in Nat :
    OwedBy(n) /\ Cardinality(At(Caller, at, {"rblocked"})) = WaitingReaders + ReadLock + n

Queues ==
  /\ PendingWriters = Cardinality(At(Caller, at, Wanting))
  /\ ReadersAwaited
  /\ WaitingReaders > 0 => PendingWriters > 0
  /\ \A t \in Caller : toWake[t] > 0 => at[t] = "wake"

LEMMA QueuesInit == RWInit => Queues
<1> SUFFICES ASSUME RWInit PROVE Queues
  OBVIOUS
<1>1. /\ Cardinality(At(Caller, at, Wanting)) = 0
      /\ Cardinality(At(Caller, at, {"rblocked"})) = 0
  BY NobodyAt, CallerFinite DEF RWInit, Wanting
<1> QED BY <1>1 DEF RWInit, Queues, ReadersAwaited, OwedBy

(* A move of a thread that waits neither before nor after it.               *)
LEMMA QueuesKept ==
  ASSUME RWTypeOK, Queues, NEW t \in Caller, NEW l \in RLocation \cup WLocation, MoveTo(t, l),
         l \in Wanting <=> at[t] \in Wanting, l # "rblocked", at[t] # "rblocked",
         at[t] = "wake" => toWake[t] = 0,
         UNCHANGED <<WaitingReaders, PendingWriters, ReadLock, toWake>>
  PROVE  Queues'
<1>1. Moves(Caller, at, at', t) /\ at'[t] = l
  BY MoveToStep
<1>2. /\ At(Caller, at', Wanting) = At(Caller, at, Wanting)
      /\ At(Caller, at', {"rblocked"}) = At(Caller, at, {"rblocked"})
  BY <1>1, CountSame
<1>3. \A u \in Caller : toWake'[u] > 0 => at'[u] = "wake"
  <2> SUFFICES ASSUME NEW u \in Caller, toWake[u] > 0 PROVE at'[u] = "wake"
    OBVIOUS
  <2>1. at[u] = "wake" /\ u # t
    BY DEF Queues
  <2> QED BY <1>1, <2>1 DEF Moves
<1>4. ReadersAwaited'
  BY <1>2 DEF Queues, ReadersAwaited, OwedBy
<1> QED BY <1>2, <1>3, <1>4 DEF Queues

(* The writer that unlocks last promotes the readers that wait, or there    *)
(* are further writers.                                                     *)
LEMMA QueuesWriteUnLock ==
  ASSUME LockInv, Queues, ~Exit, NEW t \in Writer, WriteUnLock(t)
  PROVE  Queues'
<1>a. RWTypeOK /\ t \in Caller /\ at[t] = "writing" /\ ReadLock' = ReadLock
  BY DEF WriteUnLock, Caller, semaphores, LockInv
<1> USE DEF RLocation, WLocation
<1>1. /\ PendingWriters > 0 /\ ReadLock = 0
      /\ \A u \in Caller : toWake[u] = 0
  BY <1>a, BatonExcludes DEF WithTurn
<1>2. PICK l \in {"signal", "wake"} : MoveTo(t, l) /\ (l = "signal" <=> PendingWriters > 1)
  BY <1>a DEF WriteUnLock, RWTypeOK
<1>3. Moves(Caller, at, at', t) /\ at'[t] = l
  BY <1>a, <1>2, MoveToStep
<1>4. /\ Cardinality(At(Caller, at, Wanting)) = Cardinality(At(Caller, at', Wanting)) + 1
      /\ At(Caller, at', {"rblocked"}) = At(Caller, at, {"rblocked"})
  BY <1>a, <1>3, CountSame, CountDown, CallerFinite DEF Wanting
<1>5. Cardinality(At(Caller, at', Wanting)) \in Nat
  BY AtFinite, CallerFinite
<1>6. PendingWriters' = PendingWriters - 1 /\ PendingWriters' = Cardinality(At(Caller, at', Wanting))
  <2>1. PendingWriters' = PendingWriters - 1
    BY DEF WriteUnLock
  <2> QED BY <1>4, <1>5, <2>1 DEF Queues
<1>7. PICK n \in Nat :
        OwedBy(n) /\ Cardinality(At(Caller, at, {"rblocked"})) = WaitingReaders + ReadLock + n
  BY DEF Queues, ReadersAwaited
<1>8. n = 0
  BY <1>1, <1>7 DEF OwedBy
<1>9. CASE PendingWriters > 1
  <2>1. UNCHANGED <<WaitingReaders, toWake>>
    BY <1>a, <1>9 DEF WriteUnLock, RWTypeOK
  <2>2. ReadersAwaited'
    BY <1>a, <1>4, <2>1 DEF Queues, ReadersAwaited, OwedBy
  <2>3. PendingWriters' > 0
    BY <1>a, <1>6, <1>9 DEF RWTypeOK
  <2> QED BY <1>1, <1>6, <2>1, <2>2, <2>3 DEF Queues
<1>10. CASE ~(PendingWriters > 1)
  <2>1. /\ toWake' = [toWake EXCEPT ![t] = WaitingReaders] /\ WaitingReaders' = 0
    BY <1>a, <1>10 DEF WriteUnLock, RWTypeOK
  <2>2. /\ WaitingReaders \in Nat /\ toWake'[t] = WaitingReaders
        /\ \A u \in Caller : u # t => toWake'[u] = 0
    BY <1>a, <1>1, <2>1 DEF RWTypeOK
  <2>3. \/ WaitingReaders = 0 /\ \A u \in Caller : toWake'[u] = 0
        \/ WaitingReaders > 0 /\ \E v \in Caller : /\ toWake'[v] = WaitingReaders
                                                   /\ \A u \in Caller : u # v => toWake'[u] = 0
    BY <1>a, <2>2
  <2>4. Cardinality(At(Caller, at', {"rblocked"})) = WaitingReaders' + ReadLock' + WaitingReaders
    BY <1>a, <1>1, <1>4, <1>7, <1>8, <2>1, <2>2
  <2>5. ReadersAwaited'
    BY <2>2, <2>3, <2>4 DEF ReadersAwaited, OwedBy
  <2>6. at'[t] = "wake"
    BY <1>2, <1>3, <1>10
  <2> QED BY <1>6, <2>1, <2>2, <2>5, <2>6 DEF Queues
<1> QED BY <1>9, <1>10

LEMMA QueuesWakeReader ==
  ASSUME LockInv, Queues, NEW t \in Writer, WakeReader(t)
  PROVE  Queues'
<1>a. /\ RWTypeOK /\ t \in Caller /\ at[t] = "wake"
      /\ UNCHANGED <<WaitingReaders, PendingWriters>>
  BY DEF WakeReader, Caller, counters, LockInv
<1> USE DEF RLocation, WLocation
<1>1. CASE ~(toWake[t] > 0)
  <2>1. toWake[t] = 0 /\ MoveTo(t, "drain") /\ UNCHANGED <<ReadLock, toWake>>
    BY <1>a, <1>1 DEF WakeReader, RWTypeOK
  <2> QED BY <1>a, <2>1, QueuesKept DEF Wanting
<1>2. CASE toWake[t] > 0
  <2>1. /\ ReadLock' = ReadLock + 1 /\ toWake' = [toWake EXCEPT ![t] = toWake[t] - 1]
        /\ at' = at
    BY <1>2 DEF WakeReader
  <2>2. /\ toWake'[t] = toWake[t] - 1 /\ \A u \in Caller : u # t => toWake'[u] = toWake[u]
    BY <1>a, <2>1 DEF RWTypeOK
  <2>3. PICK n \in Nat :
          OwedBy(n) /\ Cardinality(At(Caller, at, {"rblocked"})) = WaitingReaders + ReadLock + n
    BY DEF Queues, ReadersAwaited
  <2>4. n = toWake[t] /\ n > 0 /\ \A u \in Caller : u # t => toWake[u] = 0
    BY <1>a, <1>2, <2>3 DEF OwedBy
  <2>5. n - 1 \in Nat /\ toWake'[t] = n - 1 /\ \A u \in Caller : u # t => toWake'[u] = 0
    BY <2>2, <2>3, <2>4
  <2>6. \/ n - 1 = 0 /\ \A u \in Caller : toWake'[u] = 0
        \/ n - 1 > 0 /\ \E v \in Caller : /\ toWake'[v] = n - 1
                                           /\ \A u \in Caller : u # v => toWake'[u] = 0
    BY <1>a, <2>5
  <2>7. Cardinality(At(Caller, at', {"rblocked"})) = WaitingReaders' + ReadLock' + (n - 1)
    BY <1>a, <2>1, <2>3 DEF RWTypeOK
  <2>8. ReadersAwaited'
    BY <2>5, <2>6, <2>7 DEF ReadersAwaited, OwedBy
  <2>9. \A u \in Caller : toWake'[u] > 0 => at'[u] = "wake"
    BY <1>a, <2>1, <2>5
  <2>10. PendingWriters' = Cardinality(At(Caller, at', Wanting))
    BY <1>a, <2>1 DEF Queues
  <2> QED BY <1>a, <2>8, <2>9, <2>10 DEF Queues
<1> QED BY <1>1, <1>2

(* A request, and a reader that finds its token.                            *)
LEMMA QueuesEnter ==
  ASSUME LockInv, Queues, NEW t \in Caller,
         (t \in Reader /\ (ReadLockEnter(t) \/ ReaderWoken(t))) \/ (t \in Writer /\ WriteLockEnter(t))
  PROVE  Queues'
<1>a. /\ RWTypeOK
      /\ Cardinality(At(Caller, at, {"rblocked"})) \in Nat
      /\ Cardinality(At(Caller, at', {"rblocked"})) \in Nat
  BY AtFinite, CallerFinite DEF LockInv
<1> USE DEF RLocation, WLocation
<1>1. CASE ReadLockEnter(t)
  <2>1. at[t] = "idle" /\ UNCHANGED <<PendingWriters, ReadLock, toWake>>
    BY <1>1 DEF ReadLockEnter, semaphores
  <2>2. CASE ~MustBlockReader
    <3>1. MoveTo(t, "rpass") /\ UNCHANGED WaitingReaders
      BY <1>1, <2>2 DEF ReadLockEnter
    <3> QED BY <1>a, <2>1, <3>1, QueuesKept DEF Wanting
  <2>3. CASE MustBlockReader
    <3>1. MoveTo(t, "rblocked") /\ WaitingReaders' = WaitingReaders + 1 /\ PendingWriters > 0
      BY <1>1, <2>3 DEF ReadLockEnter, MustBlockReader
    <3>2. Moves(Caller, at, at', t) /\ at'[t] = "rblocked"
      BY <1>a, <3>1, MoveToStep
    <3>3. /\ At(Caller, at', Wanting) = At(Caller, at, Wanting)
          /\ Cardinality(At(Caller, at', {"rblocked"}))
               = Cardinality(At(Caller, at, {"rblocked"})) + 1
      BY <2>1, <3>2, CountSame, CountUp, CallerFinite DEF Wanting
    <3>4. ReadersAwaited'
      <4>1. PICK n \in Nat :
              OwedBy(n) /\ Cardinality(At(Caller, at, {"rblocked"})) = WaitingReaders + ReadLock + n
        BY DEF Queues, ReadersAwaited
      <4>2. Cardinality(At(Caller, at', {"rblocked"})) = WaitingReaders' + ReadLock' + n
        BY <1>a, <2>1, <3>1, <3>3, <4>1 DEF RWTypeOK
      <4>3. OwedBy(n)'
        BY <2>1, <4>1 DEF OwedBy
      <4> QED BY <4>2, <4>3 DEF ReadersAwaited
    <3>5. \A u \in Caller : toWake'[u] > 0 => at'[u] = "wake"
      BY <2>1, <3>2 DEF Queues, Moves
    <3> QED BY <2>1, <3>1, <3>3, <3>4, <3>5 DEF Queues
  <2> QED BY <2>2, <2>3
<1>2. CASE ReaderWoken(t)
  <2>1. /\ at[t] = "rblocked" /\ MoveTo(t, "rpass") /\ ReadLock > 0 /\ ReadLock' = ReadLock - 1
        /\ UNCHANGED <<WaitingReaders, PendingWriters, toWake>>
    BY <1>2 DEF ReaderWoken, counters
  <2>2. Moves(Caller, at, at', t) /\ at'[t] = "rpass"
    BY <1>a, <2>1, MoveToStep
  <2>3. /\ At(Caller, at', Wanting) = At(Caller, at, Wanting)
        /\ Cardinality(At(Caller, at, {"rblocked"}))
             = Cardinality(At(Caller, at', {"rblocked"})) + 1
    BY <2>1, <2>2, CountSame, CountDown, CallerFinite DEF Wanting
  <2>4. ReadersAwaited'
    <3>1. PICK n \in Nat :
            OwedBy(n) /\ Cardinality(At(Caller, at, {"rblocked"})) = WaitingReaders + ReadLock + n
      BY DEF Queues, ReadersAwaited
    <3>2. Cardinality(At(Caller, at', {"rblocked"})) = WaitingReaders' + ReadLock' + n
      BY <1>a, <2>1, <2>3, <3>1 DEF RWTypeOK
    <3>3. OwedBy(n)'
      BY <2>1, <3>1 DEF OwedBy
    <3> QED BY <3>2, <3>3 DEF ReadersAwaited
  <2>5. \A u \in Caller : toWake'[u] > 0 => at'[u] = "wake"
    BY <2>1, <2>2 DEF Queues, Moves
  <2> QED BY <2>1, <2>3, <2>4, <2>5 DEF Queues
<1>3. CASE WriteLockEnter(t)
  <2>1. /\ at[t] = "idle" /\ PendingWriters' = PendingWriters + 1
        /\ UNCHANGED <<WaitingReaders, ReadLock, toWake>>
        /\ MoveTo(t, "wblocked") \/ MoveTo(t, "wpass")
    BY <1>3 DEF WriteLockEnter, semaphores
  <2>2. Moves(Caller, at, at', t) /\ at'[t] \in {"wblocked", "wpass"}
    BY <1>a, <2>1, MoveToStep
  <2>3. /\ Cardinality(At(Caller, at', Wanting)) = Cardinality(At(Caller, at, Wanting)) + 1
        /\ At(Caller, at', {"rblocked"}) = At(Caller, at, {"rblocked"})
    BY <2>1, <2>2, CountSame, CountUp, CallerFinite DEF Wanting
  <2>4. ReadersAwaited'
    BY <2>1, <2>3 DEF Queues, ReadersAwaited, OwedBy
  <2>5. \A u \in Caller : toWake'[u] > 0 => at'[u] = "wake"
    BY <2>1, <2>2 DEF Queues, Moves
  <2>6. PendingWriters' > 0 /\ PendingWriters' = Cardinality(At(Caller, at', Wanting))
    BY <1>a, <2>1, <2>3 DEF Queues, RWTypeOK
  <2> QED BY <2>4, <2>5, <2>6 DEF Queues
<1> QED BY <1>1, <1>2, <1>3

(* Destroy is for good.                                                     *)
LEMMA ExitStays ==
  ASSUME [RWNext]_RWvars, ~Exit'
  PROVE  ~Exit
BY DEF RWNext, Enter, ReaderSteps, WriterSteps, Destroy2, RWvars, destruction,
       ReadLockEnter, ReaderWoken, ReadVerdict, ReadLockReturn, Refused,
       ReadUnLock, SignalWriter, Drain, WriteLockEnter, WriterWoken,
       WriteVerdict, WriteLockReturn, WriteUnLock, WakeReader,
       Destroy2Enter, Destroy2Collect

LEMMA QueuesStep ==
  ASSUME LockInv, Queues, ~Exit', [RWNext]_RWvars
  PROVE  Queues'
<1>e. ~Exit
  BY ExitStays
<1>a. RWTypeOK /\ NobodyRefused /\ collector = "idle"
  BY <1>e DEF LockInv, RWTypeOK
<1>b. Reader \subseteq Caller /\ Writer \subseteq Caller
  BY DEF Caller
<1> USE DEF RLocation, WLocation
<1>1. ASSUME NEW t \in Caller, ReadVerdict(t) \/ ReadLockReturn(t) \/ Drain(t) \/ SignalWriter(t)
      PROVE  Queues'
  <2>1. /\ at[t] \in {"rpass", "radmit", "drain", "signal"}
        /\ UNCHANGED <<WaitingReaders, PendingWriters, ReadLock, toWake>>
        /\ \E l \in {"radmit", "reading", "idle", "drain"} : MoveTo(t, l)
    BY <1>e, <1>1 DEF ReadVerdict, ReadLockReturn, Drain, SignalWriter, counters, semaphores
  <2> QED BY <1>a, <2>1, QueuesKept DEF Wanting
<1>2. ASSUME NEW t \in Caller, WriterWoken(t) \/ WriteVerdict(t) \/ WriteLockReturn(t)
      PROVE  Queues'
  <2>1. /\ at[t] \in {"wblocked", "wpass", "wadmit"}
        /\ UNCHANGED <<WaitingReaders, PendingWriters, ReadLock, toWake>>
        /\ \E l \in {"wpass", "wadmit", "writing"} : MoveTo(t, l)
    BY <1>e, <1>2 DEF WriterWoken, WriteVerdict, WriteLockReturn, counters, semaphores
  <2> QED BY <1>a, <2>1, QueuesKept DEF Wanting
<1>3. ASSUME NEW t \in Caller, ReadUnLock(t)
      PROVE  Queues'
  <2>1. /\ at[t] = "reading" /\ UNCHANGED <<WaitingReaders, PendingWriters, ReadLock, toWake>>
        /\ \E l \in {"signal", "drain"} : MoveTo(t, l)
    BY <1>e, <1>3 DEF ReadUnLock, semaphores
  <2> QED BY <1>a, <2>1, QueuesKept DEF Wanting
<1>4. ASSUME NEW t \in Caller, Refused(t)
      PROVE  Queues'
  BY <1>a, <1>4 DEF Refused, NobodyRefused
<1>5. ~Destroy2
  BY <1>a DEF Destroy2, Destroy2Enter, Destroy2Collect
<1>6. ASSUME NEW t \in Reader, ReadLockEnter(t) \/ ReaderWoken(t)
      PROVE  Queues'
  BY <1>b, <1>6, QueuesEnter
<1>7. ASSUME NEW t \in Writer, WriteLockEnter(t) \/ WriteUnLock(t) \/ WakeReader(t)
      PROVE  Queues'
  BY <1>b, <1>e, <1>7, QueuesEnter, QueuesWriteUnLock, QueuesWakeReader
<1>8. CASE UNCHANGED RWvars
  <2>1. UNCHANGED <<WaitingReaders, PendingWriters, ReadLock, toWake, at>>
    BY <1>8 DEF RWvars, counters, semaphores
  <2> QED BY <2>1 DEF Queues, ReadersAwaited, OwedBy
<1> QED
  BY <1>b, <1>e, <1>1, <1>2, <1>3, <1>4, <1>5, <1>6, <1>7, <1>8
  DEF RWNext, Enter, ReaderSteps, WriterSteps

(* Some reader still has a wake-up to come, as a token or from a writer.    *)
LEMMA WakeUpsAreTaken ==
  ASSUME LockInv, Queues, NEW n \in Nat, OwedBy(n), ReadLock + n > 0
  PROVE  \E u \in Caller : \/ at[u] = "wake" /\ toWake[u] > 0
                           \/ at[u] = "rblocked" /\ ReadLock > 0
<1>1. CASE n > 0
  BY <1>1 DEF OwedBy, Queues
<1>2. CASE ReadLock > 0
  <2>1. PICK m \in Nat : Cardinality(At(Caller, at, {"rblocked"})) = WaitingReaders + ReadLock + m
    BY DEF Queues, ReadersAwaited
  <2>2. Cardinality(At(Caller, at, {"rblocked"})) # 0
    BY <1>2, <2>1 DEF LockInv, RWTypeOK
  <2>3. PICK u \in Caller : at[u] \in {"rblocked"}
    BY <2>2, NobodyAt, CallerFinite
  <2> QED BY <1>2, <2>3
<1> QED BY <1>1, <1>2 DEF LockInv, RWTypeOK

(* The lock never comes to rest with a thread before it: as long as one     *)
(* waits, somebody in or about to leave the lock will wake somebody, or a   *)
(* token lies there for a thread that waits.                                *)
THEOREM NobodyIsForgotten == RWSpec => []NobodyForgotten
<1>1. LockInv /\ (~Exit => Queues) => NobodyForgotten
  <2> SUFFICES ASSUME LockInv, ~Exit, Queues,
                      NEW t \in Caller, at[t] \in {"rblocked", "wblocked"}
               PROVE  \E u \in Caller :
                        \/ at[u] \in {"rpass", "radmit", "reading", "wpass", "wadmit", "writing",
                                     "signal"}
                        \/ at[u] = "wake" /\ toWake[u] > 0
                        \/ at[u] = "rblocked" /\ ReadLock > 0
                        \/ at[u] = "wblocked" /\ WriteLock > 0
    BY DEF NobodyForgotten
  <2>a. /\ ActiveReaders \in Nat /\ WaitingReaders \in Nat /\ PendingWriters \in Nat
        /\ ReadLock \in Nat /\ WriteLock \in Nat /\ Baton /\ ReadersCounted
        /\ \A S : Cardinality(At(Caller, at, S)) \in Nat
    BY AtFinite, CallerFinite DEF LockInv, RWTypeOK
  <2>1. PICK n \in Nat :
          OwedBy(n) /\ Cardinality(At(Caller, at, {"rblocked"})) = WaitingReaders + ReadLock + n
    BY DEF Queues, ReadersAwaited
  <2>2. CASE ReadLock + n > 0
    BY <2>1, <2>2, WakeUpsAreTaken
  <2>3. CASE ~(ReadLock + n > 0)
    <3>1. PendingWriters > 0
      <4>1. CASE at[t] = "rblocked"
        <5>1. Cardinality(At(Caller, at, {"rblocked"})) # 0
          BY <4>1, NobodyAt, CallerFinite
        <5>2. WaitingReaders > 0
          BY <2>a, <2>1, <2>3, <5>1
        <5> QED BY <5>2 DEF Queues
      <4>2. CASE at[t] = "wblocked"
        <5>1. Cardinality(At(Caller, at, Wanting)) # 0
          BY <4>2, NobodyAt, CallerFinite DEF Wanting
        <5> QED BY <2>a, <5>1 DEF Queues
      <4> QED BY <4>1, <4>2
    <3>2. CASE ActiveReaders = 0
      <4>1. Cardinality(At(Caller, at, WithTurn)) + WriteLock = 1
        BY <2>a, <3>1, <3>2 DEF Baton
      <4>2. CASE WriteLock = 0
        <5>1. Cardinality(At(Caller, at, WithTurn)) # 0
          BY <2>a, <4>1, <4>2
        <5>2. PICK u \in Caller : at[u] \in WithTurn
          BY <5>1, NobodyAt, CallerFinite
        <5> QED BY <5>2 DEF WithTurn
      <4>3. CASE WriteLock > 0
        <5>1. Cardinality(At(Caller, at, WithTurn)) = 0
          BY <2>a, <4>1, <4>3
        <5>2. \A u \in Caller : at[u] \notin WithTurn
          BY <5>1, NobodyAt, CallerFinite
        <5>3. PICK u \in Caller : at[u] \in Wanting
          BY <2>a, <3>1, NobodyAt, CallerFinite DEF Queues
        <5> QED BY <4>3, <5>2, <5>3 DEF WithTurn, Wanting
      <4> QED BY <2>a, <4>2, <4>3
    <3>3. CASE ActiveReaders > 0
      <4>1. PICK m \in Nat :
              OwedBy(m) /\ ActiveReaders = Cardinality(At(Caller, at, Inside)) + ReadLock + m
        BY <2>a DEF ReadersCounted
      <4>2. CASE ReadLock + m > 0
        BY <4>1, <4>2, WakeUpsAreTaken
      <4>3. CASE ~(ReadLock + m > 0)
        <5>1. Cardinality(At(Caller, at, Inside)) # 0
          BY <2>a, <3>3, <4>1, <4>3
        <5>2. PICK u \in Caller : at[u] \in Inside
          BY <5>1, NobodyAt, CallerFinite
        <5> QED BY <5>2 DEF Inside
      <4> QED BY <4>2, <4>3
    <3> QED BY <2>a, <3>2, <3>3
  <2> QED BY <2>2, <2>3
<1>2. LockInv /\ (~Exit => Queues) /\ [RWNext]_RWvars => (~Exit => Queues)'
  <2> SUFFICES ASSUME LockInv, ~Exit => Queues, [RWNext]_RWvars, ~Exit' PROVE Queues'
    OBVIOUS
  <2> QED BY ExitStays, QueuesStep
<1>3. RWInit => (~Exit => Queues)
  BY QueuesInit
<1> QED BY <1>1, <1>2, <1>3, LockInit, LockStep, PTL DEF RWSpec

-----------------------------------------------------------------------------
(* Refinement.  A thread acquires when it reads Exit = 0 and releases in    *)
(* the critical section of its unlock; every other step is a stutter.       *)
LEMMA AbstractInit == RWInit => Abstract!Init
BY DEF RWInit, Abstract!Init, HoldsRead, HoldsWrite, Caller

LEMMA AbstractStep ==
  ASSUME LockInv, [RWNext]_RWvars
  PROVE  [Abstract!Next]_(Abstract!lockVars)
<1>a. RWTypeOK
  BY DEF LockInv
<1> USE DEF RLocation, WLocation
<1>b. Reader \subseteq Caller /\ Writer \subseteq Caller /\ Reader \cap Writer = {}
  BY LockAssumption DEF Caller
<1>c. ASSUME NEW t \in Caller, NEW l \in RLocation \cup WLocation, MoveTo(t, l),
             {at[t], l} \cap {"radmit", "reading", "wadmit", "writing"} = {}
      PROVE  UNCHANGED Abstract!lockVars
  <2>1. Moves(Caller, at, at', t) /\ at'[t] = l
    BY <1>a, <1>c, MoveToStep
  <2> QED BY <1>b, <1>c, <2>1 DEF Abstract!lockVars, HoldsRead, HoldsWrite, Moves
<1>d. ASSUME UNCHANGED at PROVE UNCHANGED Abstract!lockVars
  BY <1>d DEF Abstract!lockVars, HoldsRead, HoldsWrite
<1>1. ASSUME NEW t \in Reader, ReadLockEnter(t) PROVE UNCHANGED Abstract!lockVars
  <2>1. at[t] = "idle" /\ (MoveTo(t, "rblocked") \/ MoveTo(t, "rpass"))
    BY <1>1 DEF ReadLockEnter
  <2> QED BY <1>b, <1>c, <2>1
<1>2. ASSUME NEW t \in Reader, ReaderWoken(t) PROVE UNCHANGED Abstract!lockVars
  BY <1>b, <1>c, <1>2 DEF ReaderWoken
<1>3. ASSUME NEW t \in Reader, ReadVerdict(t) PROVE [Abstract!Next]_(Abstract!lockVars)
  <2>1. CASE Exit
    <3>1. at[t] = "rpass" /\ MoveTo(t, "refuse")
      BY <1>3, <2>1 DEF ReadVerdict
    <3> QED BY <1>b, <1>c, <3>1
  <2>2. CASE ~Exit
    <3>1. at[t] = "rpass" /\ MoveTo(t, "radmit")
      BY <1>3, <2>2 DEF ReadVerdict
    <3>2. Moves(Caller, at, at', t) /\ at'[t] = "radmit"
      BY <1>a, <1>b, <3>1, MoveToStep
    <3>3. HoldsWrite = {}
      BY <1>b, <2>2, <3>1, BatonExcludes DEF HoldsWrite, WithTurn, Inside
    <3>4. /\ t \notin HoldsRead
          /\ HoldsRead' = HoldsRead \cup {t} /\ HoldsWrite' = HoldsWrite
      BY <1>b, <3>1, <3>2 DEF HoldsRead, HoldsWrite, Moves
    <3>5. Abstract!AcquireRead(t)
      BY <3>3, <3>4 DEF Abstract!AcquireRead
    <3> QED BY <3>5 DEF Abstract!Next
  <2> QED BY <2>1, <2>2
<1>4. ASSUME NEW t \in Reader, ReadLockReturn(t) PROVE UNCHANGED Abstract!lockVars
  <2>1. at[t] = "radmit" /\ MoveTo(t, "reading")
    BY <1>4 DEF ReadLockReturn
  <2>2. Moves(Caller, at, at', t) /\ at'[t] = "reading"
    BY <1>a, <1>b, <2>1, MoveToStep
  <2> QED BY <1>b, <2>1, <2>2 DEF Abstract!lockVars, HoldsRead, HoldsWrite, Moves
<1>5. ASSUME NEW t \in Writer, WriteLockEnter(t) PROVE UNCHANGED Abstract!lockVars
  <2>1. at[t] = "idle" /\ (MoveTo(t, "wblocked") \/ MoveTo(t, "wpass"))
    BY <1>5 DEF WriteLockEnter
  <2> QED BY <1>b, <1>c, <2>1
<1>6. ASSUME NEW t \in Writer, WriterWoken(t) PROVE UNCHANGED Abstract!lockVars
  BY <1>b, <1>c, <1>6 DEF WriterWoken
<1>7. ASSUME NEW t \in Writer, WriteVerdict(t) PROVE [Abstract!Next]_(Abstract!lockVars)
  <2>1. CASE Exit
    <3>1. at[t] = "wpass" /\ MoveTo(t, "refuse")
      BY <1>7, <2>1 DEF WriteVerdict
    <3> QED BY <1>b, <1>c, <3>1
  <2>2. CASE ~Exit
    <3>1. at[t] = "wpass" /\ MoveTo(t, "wadmit")
      BY <1>7, <2>2 DEF WriteVerdict
    <3>2. Moves(Caller, at, at', t) /\ at'[t] = "wadmit"
      BY <1>a, <1>b, <3>1, MoveToStep
    <3>3. HoldsWrite = {} /\ HoldsRead = {}
      BY <1>b, <2>2, <3>1, BatonExcludes DEF HoldsRead, HoldsWrite, WithTurn, Inside
    <3>4. HoldsWrite' = {t} /\ HoldsRead' = HoldsRead
      BY <1>b, <3>1, <3>2, <3>3 DEF HoldsRead, HoldsWrite, Moves
    <3>5. Abstract!AcquireWrite(t)
      BY <3>3, <3>4 DEF Abstract!AcquireWrite
    <3> QED BY <3>5 DEF Abstract!Next
  <2> QED BY <2>1, <2>2
<1>8. ASSUME NEW t \in Writer, WriteLockReturn(t) PROVE UNCHANGED Abstract!lockVars
  <2>1. at[t] = "wadmit" /\ MoveTo(t, "writing")
    BY <1>8 DEF WriteLockReturn
  <2>2. Moves(Caller, at, at', t) /\ at'[t] = "writing"
    BY <1>a, <1>b, <2>1, MoveToStep
  <2> QED BY <1>b, <2>1, <2>2 DEF Abstract!lockVars, HoldsRead, HoldsWrite, Moves
<1>9. ASSUME NEW t \in Caller, Refused(t) \/ SignalWriter(t) \/ Drain(t)
      PROVE  UNCHANGED Abstract!lockVars
  <2>1. PICK l \in {"idle", "drain"} : MoveTo(t, l) /\ at[t] \in {"refuse", "signal", "drain"}
    BY <1>9 DEF Refused, SignalWriter, Drain
  <2> QED BY <1>c, <2>1
<1>10. ASSUME NEW t \in Reader, ReadUnLock(t) PROVE [Abstract!Next]_(Abstract!lockVars)
  <2>1. PICK l \in {"idle", "signal", "drain"} : MoveTo(t, l) /\ at[t] = "reading"
    BY <1>10 DEF ReadUnLock
  <2>2. Moves(Caller, at, at', t) /\ at'[t] = l
    BY <1>a, <1>b, <2>1, MoveToStep
  <2>3. t \in HoldsRead /\ HoldsRead' = HoldsRead \ {t} /\ HoldsWrite' = HoldsWrite
    BY <1>b, <2>1, <2>2 DEF HoldsRead, HoldsWrite, Moves
  <2>4. Abstract!ReleaseRead(t)
    BY <2>3 DEF Abstract!ReleaseRead
  <2> QED BY <2>4 DEF Abstract!Next
<1>11. ASSUME NEW t \in Writer, WriteUnLock(t) PROVE [Abstract!Next]_(Abstract!lockVars)
  <2>1. PICK l \in {"idle", "signal", "wake"} : MoveTo(t, l) /\ at[t] = "writing"
    BY <1>11 DEF WriteUnLock
  <2>2. Moves(Caller, at, at', t) /\ at'[t] = l
    BY <1>a, <1>b, <2>1, MoveToStep
  <2>3. t \in HoldsWrite /\ HoldsWrite' = HoldsWrite \ {t} /\ HoldsRead' = HoldsRead
    BY <1>b, <2>1, <2>2 DEF HoldsRead, HoldsWrite, Moves
  <2>4. Abstract!ReleaseWrite(t)
    BY <2>3 DEF Abstract!ReleaseWrite
  <2> QED BY <2>4 DEF Abstract!Next
<1>12. ASSUME NEW t \in Writer, WakeReader(t) PROVE UNCHANGED Abstract!lockVars
  <2>1. UNCHANGED at \/ (at[t] = "wake" /\ MoveTo(t, "drain"))
    BY <1>12 DEF WakeReader
  <2> QED BY <1>b, <1>c, <1>d, <2>1
<1>13. ASSUME Destroy2 \/ UNCHANGED RWvars PROVE UNCHANGED Abstract!lockVars
  BY <1>d, <1>13 DEF Destroy2, Destroy2Enter, Destroy2Collect, RWvars
<1> QED
  BY <1>b, <1>1, <1>2, <1>3, <1>4, <1>5, <1>6, <1>7, <1>8, <1>9, <1>10, <1>11, <1>12, <1>13
  DEF RWNext, Enter, ReaderSteps, WriterSteps

(* The counters, semaphores and locations implement the abstract lock.      *)
THEOREM Refinement == RWSpec => ImplementsLockSpec
<1>1. LockInv /\ [RWNext]_RWvars => [Abstract!Next]_(Abstract!lockVars)
  BY AbstractStep
<1> QED BY <1>1, AbstractInit, LockInit, LockStep, PTL
        DEF RWSpec, ImplementsLockSpec, Abstract!Spec

-----------------------------------------------------------------------------
(* Until Destroy, ExitLock counts the threads between the return of their   *)
(* lock call and the end of their unlock.                                   *)
Posting == {"reading", "writing", "signal", "wake", "drain"}

Undisturbed ==
  /\ collector = "idle" /\ NobodyRefused
  /\ ExitLock = Cardinality(At(Caller, at, Posting))

DrainInv == RWTypeOK /\ (~Exit => Undisturbed)

LEMMA DrainInit == RWInit => DrainInv
<1> SUFFICES ASSUME RWInit PROVE DrainInv
  OBVIOUS
<1>1. Cardinality(At(Caller, at, Posting)) = 0
  BY NobodyAt, CallerFinite DEF RWInit, Posting
<1> QED BY <1>1, LockInit DEF RWInit, LockInv, DrainInv, Undisturbed

LEMMA DrainStep ==
  ASSUME DrainInv, RWTypeOK', [RWNext]_RWvars
  PROVE  DrainInv'
<1> SUFFICES ASSUME ~Exit' PROVE DrainInv'
  BY DEF DrainInv
<1>e. ~Exit
  BY ExitStays
<1>a. RWTypeOK /\ ~Exit /\ collector = "idle" /\ NobodyRefused
  BY <1>e DEF DrainInv, Undisturbed
<1>b. Reader \subseteq Caller /\ Writer \subseteq Caller
  BY DEF Caller
<1> USE DEF RLocation, WLocation
<1>1. ASSUME NEW t \in Caller, NEW l \in (RLocation \cup WLocation) \ {"refuse"},
             MoveTo(t, l), UNCHANGED destruction,
             \/ (at[t] \in Posting <=> l \in Posting) /\ UNCHANGED ExitLock
             \/ at[t] \notin Posting /\ l \in Posting /\ ExitLock' = ExitLock + 1
             \/ at[t] \in Posting /\ l \notin Posting /\ ExitLock' = ExitLock - 1
      PROVE  DrainInv'
  <2>1. Moves(Caller, at, at', t) /\ at'[t] = l
    BY <1>a, <1>1, MoveToStep
  <2>2. /\ Cardinality(At(Caller, at, Posting)) \in Nat
        /\ Cardinality(At(Caller, at', Posting)) \in Nat
    BY AtFinite, CallerFinite
  <2>3. ExitLock' = Cardinality(At(Caller, at', Posting))
    <3>1. CASE at[t] \in Posting <=> l \in Posting
      BY <1>1, <2>1, <3>1, CountSame, <1>e DEF DrainInv, Undisturbed
    <3>2. CASE at[t] \notin Posting /\ l \in Posting
      BY <1>1, <2>1, <3>2, CountUp, CallerFinite, <1>e DEF DrainInv, Undisturbed
    <3>3. CASE at[t] \in Posting /\ l \notin Posting
      <4>1. /\ Cardinality(At(Caller, at, Posting)) = Cardinality(At(Caller, at', Posting)) + 1
        BY <2>1, <3>3, CountDown, CallerFinite
      <4>2. ExitLock' = ExitLock - 1 /\ ExitLock = Cardinality(At(Caller, at, Posting))
        BY <1>1, <3>3, <1>e DEF DrainInv, Undisturbed
      <4> QED BY <2>2, <4>1, <4>2
    <3> QED BY <3>1, <3>2, <3>3
  <2>4. NobodyRefused'
    BY <1>a, <1>1, <2>1 DEF NobodyRefused, Moves
  <2> QED BY <1>a, <1>1, <2>3, <2>4 DEF DrainInv, Undisturbed, destruction
<1>2. ASSUME NEW t \in Reader, ReadLockEnter(t) PROVE DrainInv'
  <2>1. MoveTo(t, "rblocked") \/ MoveTo(t, "rpass")
    BY <1>2 DEF ReadLockEnter
  <2> QED BY <1>1, <1>2, <1>b, <2>1 DEF ReadLockEnter, semaphores, Posting
<1>3. ASSUME NEW t \in Writer, WriteLockEnter(t) PROVE DrainInv'
  <2>1. MoveTo(t, "wblocked") \/ MoveTo(t, "wpass")
    BY <1>3 DEF WriteLockEnter
  <2> QED BY <1>1, <1>3, <1>b, <2>1 DEF WriteLockEnter, semaphores, Posting
<1>4. ASSUME NEW t \in Caller, ReaderWoken(t) \/ WriterWoken(t) PROVE DrainInv'
  BY <1>1, <1>4 DEF ReaderWoken, WriterWoken, Posting
<1>5. ASSUME NEW t \in Caller, ReadVerdict(t) \/ WriteVerdict(t) PROVE DrainInv'
  <2>1. /\ at[t] \in {"rpass", "wpass"} /\ UNCHANGED <<ExitLock, destruction>>
        /\ MoveTo(t, "radmit") \/ MoveTo(t, "wadmit")
    BY <1>a, <1>5 DEF ReadVerdict, WriteVerdict, semaphores
  <2> QED BY <1>1, <2>1 DEF Posting
<1>6. ASSUME NEW t \in Caller, ReadLockReturn(t) \/ WriteLockReturn(t) PROVE DrainInv'
  BY <1>1, <1>6 DEF ReadLockReturn, WriteLockReturn, Posted, Posting
<1>7. ASSUME NEW t \in Caller, Refused(t) PROVE DrainInv'
  BY <1>a, <1>7 DEF Refused, NobodyRefused
<1>8. ASSUME NEW t \in Caller, ReadUnLock(t) \/ WriteUnLock(t) PROVE DrainInv'
  <2>1. PICK l \in {"signal", "drain", "wake"} : MoveTo(t, l)
    BY <1>a, <1>8 DEF ReadUnLock, WriteUnLock
  <2>2. at[t] \in {"reading", "writing"} /\ UNCHANGED <<ExitLock, destruction>>
    BY <1>8 DEF ReadUnLock, WriteUnLock, semaphores
  <2> QED BY <1>1, <2>1, <2>2 DEF Posting
<1>9. ASSUME NEW t \in Caller, SignalWriter(t) PROVE DrainInv'
  BY <1>1, <1>9 DEF SignalWriter, Posting
<1>10. ASSUME NEW t \in Caller, WakeReader(t) PROVE DrainInv'
  <2>1. CASE UNCHANGED at
    BY <1>a, <1>10, <2>1 DEF WakeReader, destruction, DrainInv, Undisturbed, NobodyRefused
  <2>2. CASE MoveTo(t, "drain")
    BY <1>1, <1>10, <2>2 DEF WakeReader, Posting
  <2> QED BY <1>10, <2>1, <2>2 DEF WakeReader
<1>11. ASSUME NEW t \in Caller, Drain(t) PROVE DrainInv'
  BY <1>1, <1>11 DEF Drain, Posting
<1>12. ~Destroy2
  BY <1>a DEF Destroy2, Destroy2Enter, Destroy2Collect
<1>13. CASE UNCHANGED RWvars
  BY <1>13 DEF RWvars, semaphores, destruction, DrainInv, Undisturbed, NobodyRefused
<1> QED
  BY <1>b, <1>2, <1>3, <1>4, <1>5, <1>6, <1>7, <1>8, <1>9, <1>10, <1>11, <1>12, <1>13
  DEF RWNext, Enter, ReaderSteps, WriterSteps

(* Until somebody destroys the lock, the last semaphore wait of an unlock   *)
(* does not block, as the comment in both unlock functions says.            *)
THEOREM DrainIsFree == RWSpec => []DrainNeverBlocks
<1>1. DrainInv => DrainNeverBlocks
  <2> SUFFICES ASSUME DrainInv, NEW t \in Caller, at[t] = "drain", ~Exit
                PROVE  ExitLock > 0
    BY DEF DrainNeverBlocks
  <2>1. Cardinality(At(Caller, at, Posting)) # 0
    BY NobodyAt, CallerFinite DEF Posting
  <2> QED BY <2>1 DEF DrainInv, Undisturbed, RWTypeOK
<1>2. DrainInv /\ RWTypeOK' /\ [RWNext]_RWvars => DrainInv'
  BY DrainStep
<1> QED BY <1>1, <1>2, DrainInit, RWTypeCorrect, PTL DEF RWSpec
=============================================================================
