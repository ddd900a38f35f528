--------------------------- MODULE LifeTimeProofs ---------------------------
(***************************************************************************)
(* Proofs about LifeTime for every set of threads, data and delays, and    *)
(* every bound on the registrations and the clock.                         *)
(***************************************************************************)
EXTENDS LifeTime, TLAPS

(* What AddEx guarantees of trigger times: none is further away than its    *)
(* delay, and those of one thread and one delay do not decrease.            *)
TriggerTimes ==
  /\ \A e \in Added : timers[e].exp < MaxNow /\ timers[e].exp <= now + timers[e].delay
  /\ \A e, f \in Added : f < e /\ Alike(e, f) => timers[f].exp <= timers[e].exp
  /\ \A t \in Thread : \A x \in stamped[t] :
       /\ x.by = t /\ x.exp < MaxNow /\ x.exp <= now + x.delay
       /\ \A e \in Added : timers[e].by = t /\ timers[e].delay = x.delay
                             => timers[e].exp <= x.exp

(* Check takes a registration off the list only with all older ones that    *)
(* are like it.                                                             *)
OlderLeaveFirst ==
  /\ events # {} => pc \in {"fire", "callback"}
  /\ \A e \in events : \A f \in list : f < e => ~Alike(e, f)

(* From the look at the list on, the chain has a timeout or a wake-up for   *)
(* what is on it.                                                           *)
Watched == pc \in {"prepare", "select"} /\ list # {} => pipe \/ blocktime < Forever

IInv == TypeOK /\ OnePlace /\ NotEarly /\ TriggerTimes /\ OlderLeaveFirst /\ Watched

LEMMA InitOK == Init => IInv
<1> SUFFICES ASSUME Init PROVE IInv
  OBVIOUS
<1>1. timers \in Seq(Timer) /\ Len(timers) = 0 /\ Added = {}
  BY DEF Init, Added
<1>2. TypeOK
  <2>1. stamped \in [Thread -> SUBSET Timer] /\ \A t \in Thread : stamped[t] = {}
    BY DEF Init
  <2>2. now = 0 /\ CurrentTick \in 0 .. now /\ pc \in Location
        /\ blocktime \in Int /\ blocktime <= Forever /\ wakeAt \in Int
    BY LifeTimeAssumption DEF Init, Location
  <2>3. \A t \in Thread : \A x, y \in stamped[t] : x = y
    BY <2>1
  <2>4. /\ list \subseteq Added /\ events \subseteq Added /\ fired \subseteq Added
        /\ destroyed \subseteq Added /\ reserved \subseteq Data
        /\ pipe \in BOOLEAN /\ stopping \in BOOLEAN /\ now \in Nat
    BY DEF Init
  <2> QED BY <1>1, <2>1, <2>2, <2>3, <2>4 DEF TypeOK
<1>3. OnePlace /\ NotEarly /\ OlderLeaveFirst /\ Watched
  BY <1>1 DEF Init, OnePlace, NotEarly, OlderLeaveFirst, Watched
<1>4. TriggerTimes
  BY <1>1 DEF Init, TriggerTimes
<1> QED BY <1>2, <1>3, <1>4 DEF IInv

LEMMA StepOK == IInv /\ [Next]_vars => IInv'
<1> SUFFICES ASSUME IInv, [Next]_vars PROVE IInv'
  OBVIOUS
<1>a. /\ TypeOK /\ OnePlace /\ NotEarly /\ TriggerTimes /\ OlderLeaveFirst /\ Watched
      /\ Len(timers) \in Nat /\ \A e \in Added : timers[e] \in Timer
  BY DEF IInv, TypeOK, Added
<1>b. \A x \in Timer : x.delay \in Nat /\ x.exp \in Nat
  BY LifeTimeAssumption DEF Timer
<1>1. ASSUME NEW t \in Thread, NEW d \in Data, NEW ms \in Delay, Stamp(t, d, ms)
      PROVE  IInv'
  <2> DEFINE x == [data |-> d, delay |-> ms, exp |-> now + ms, by |-> t]
  <2>1. /\ x \in Timer /\ x.by = t /\ x.exp = now + ms /\ x.delay = ms /\ now + ms < MaxNow
        /\ stamped' = [stamped EXCEPT ![t] = {x}]
    BY <1>1, <1>a, LifeTimeAssumption DEF Stamp, Timer, TypeOK, TriggerTime
  <2>2. UNCHANGED <<now, entries, reserved, chain, pipe, stopping>>
    BY <1>1 DEF Stamp
  <2>3. TypeOK'
    BY <2>1, <2>2, <1>a DEF TypeOK, entries, chain, Added
  <2>4. \A e \in Added : timers[e].delay = ms => timers[e].exp <= x.exp
    BY <2>1, <1>a, <1>b, LifeTimeAssumption DEF TriggerTimes, TypeOK
  <2>5. TriggerTimes'
    BY <2>1, <2>2, <2>4, <1>a, LifeTimeAssumption
    DEF TriggerTimes, TypeOK, entries, Added, Alike
  <2> QED BY <2>2, <2>3, <2>5, <1>a
          DEF IInv, OnePlace, NotEarly, OlderLeaveFirst, Watched, entries, chain, Added, Alike
<1>2. ASSUME NEW t \in Thread, Insert(t) PROVE IInv'
  <2>1. PICK x \in stamped[t] :
          /\ timers' = Append(timers, x)
          /\ list' = list \cup {Len(timers) + 1}
          /\ stamped' = [stamped EXCEPT ![t] = {}]
          /\ pipe' = (pipe \/ (WakesChain(list) /\ PipeIsOpen))
          /\ UNCHANGED <<now, reserved, events, fired, destroyed, chain, stopping>>
    BY <1>2 DEF Insert
  <2> DEFINE n == Len(timers) + 1
  <2>2. x \in Timer /\ n \in Nat
    BY <1>a DEF TypeOK
  <2>3. /\ timers' \in Seq(Timer) /\ Len(timers') = n
        /\ timers'[n] = x /\ \A e \in Added : timers'[e] = timers[e]
        /\ Added' = Added \cup {n} /\ n \notin Added /\ \A e \in Added : e < n
    BY <2>1, <2>2, <1>a DEF Added, TypeOK
  <2>4. TypeOK'
    BY <2>1, <2>3, <1>a DEF TypeOK, chain
  <2>5. OnePlace'
    BY <2>1, <2>3, <1>a DEF OnePlace, TypeOK
  <2>6. NotEarly'
    BY <2>1, <2>3, <1>a DEF NotEarly, TypeOK
  <2>7. TriggerTimes'
    <3>1. \A e \in Added' : timers'[e].exp < MaxNow' /\ timers'[e].exp <= now' + timers'[e].delay
      BY <2>1, <2>3, <1>a DEF TriggerTimes
    <3>2. \A e, f \in Added' : f < e /\ Alike(e, f)' => timers'[f].exp <= timers'[e].exp
      BY <2>1, <2>3, <1>a DEF TriggerTimes, Alike, Added
    <3>3. \A u \in Thread : \A y \in stamped'[u] : u # t /\ y \in stamped[u]
      BY <2>1, <1>a DEF TypeOK
    <3>4. x.by = t
      BY <1>a DEF TriggerTimes
    <3>5. \A u \in Thread : \A y \in stamped'[u] :
            /\ y.by = u /\ y.exp < MaxNow' /\ y.exp <= now' + y.delay
            /\ \A e \in Added' : timers'[e].by = u /\ timers'[e].delay = y.delay
                                   => timers'[e].exp <= y.exp
      <4> SUFFICES ASSUME NEW u \in Thread, NEW y \in stamped'[u]
                   PROVE  /\ y.by = u /\ y.exp < MaxNow' /\ y.exp <= now' + y.delay
                          /\ \A e \in Added' : timers'[e].by = u /\ timers'[e].delay = y.delay
                                                 => timers'[e].exp <= y.exp
        OBVIOUS
      <4>1. u # t /\ y \in stamped[u]
        BY <3>3
      <4>2. /\ y.by = u /\ y.exp < MaxNow /\ y.exp <= now + y.delay
            /\ \A e \in Added : timers[e].by = u /\ timers[e].delay = y.delay
                                  => timers[e].exp <= y.exp
        BY <4>1, <1>a DEF TriggerTimes
      <4> QED BY <4>1, <4>2, <2>1, <2>3, <3>4
    <3> QED BY <3>1, <3>2, <3>5 DEF TriggerTimes
  <2>8. OlderLeaveFirst'
    BY <2>1, <2>3, <1>a DEF OlderLeaveFirst, Alike, chain, Added, TypeOK
  <2>9. Watched'
    BY <2>1, <1>a DEF Watched, WakesChain, PipeIsOpen, chain
  <2> QED BY <2>4, <2>5, <2>6, <2>7, <2>8, <2>9 DEF IInv
(* The actions that change neither timers, stamped nor the clock. *)
<1>c. ASSUME UNCHANGED <<now, timers, stamped>> PROVE TriggerTimes' /\ Added' = Added
  BY <1>c, <1>a DEF TriggerTimes, Added, Alike
<1>3. ASSUME NEW t \in Thread, NEW d \in Data, Remove(t, d) PROVE IInv'
  <2>1. list' \subseteq list /\ With(d, list) \subseteq list /\ With(d, events) \subseteq events
    BY <1>3 DEF Remove, LeftOn, With
  <2>2. UNCHANGED <<now, timers, stamped, events, fired, pc, CurrentTick, blocktime, wakeAt, pipe, stopping>>
    BY <1>3 DEF Remove, chain
  <2>3. TypeOK'
    BY <1>3, <2>1, <2>2, <1>a, <1>c DEF Remove, TypeOK, OnePlace
  <2>4. OnePlace'
    BY <1>3, <2>1, <2>2, <1>a, <1>c DEF Remove, OnePlace, LeftOn
  <2> QED BY <2>1, <2>2, <2>3, <2>4, <1>a, <1>c
          DEF IInv, NotEarly, OlderLeaveFirst, Watched, Alike
<1>4. ASSUME NEW t \in Thread, Stop(t) PROVE IInv'
  BY <1>4, <1>a, <1>c
  DEF Stop, entries, chain, PipeIsOpen, IInv, TypeOK, OnePlace, NotEarly, OlderLeaveFirst, Watched, Alike
<1>5. CASE Collect
  <2>1. events = {}
    BY <1>5, <1>a DEF Collect, OlderLeaveFirst
  <2>2. /\ list' = list \ events' /\ events' = {e \in list : timers[e].exp < now}
        /\ UNCHANGED <<now, timers, stamped, fired, destroyed>>
    BY <1>5 DEF Collect, LeftOn, Expired
  <2>3. TypeOK'
    BY <1>5, <2>2, <1>a, <1>c DEF Collect, TypeOK, Location
  <2>4. OnePlace'
    BY <2>1, <2>2, <1>a, <1>c DEF OnePlace
  <2>5. NotEarly'
    BY <2>2, <1>a DEF NotEarly
  <2>6. \A e \in events' : \A f \in list' : f < e => ~Alike(e, f)
    <3> SUFFICES ASSUME NEW e \in events', NEW f \in list', f < e, Alike(e, f) PROVE FALSE
      OBVIOUS
    <3>1. e \in Added /\ f \in Added /\ e \in list /\ f \in list /\ ~(timers[f].exp < now)
      BY <2>2, <1>a DEF TypeOK
    <3>2. timers[f].exp <= timers[e].exp /\ timers[e].exp < now
      BY <2>2, <3>1, <1>a DEF TriggerTimes
    <3>3. timers[f].exp \in Nat /\ timers[e].exp \in Nat /\ now \in Nat
      BY <3>1, <1>a, <1>b DEF TypeOK
    <3> QED BY <3>1, <3>2, <3>3
  <2> QED BY <1>5, <2>2, <2>3, <2>4, <2>5, <2>6, <1>a, <1>c
          DEF IInv, Collect, OlderLeaveFirst, Watched, Alike
<1>6. CASE FireNext
  <2>1. PICK e \in events :
          /\ events' = events \ {e} /\ reserved' = reserved \ {e}
          /\ \/ destroyed' = destroyed \cup {e} /\ UNCHANGED <<fired, pc>>
             \/ fired' = fired \cup {e} /\ pc' = "callback" /\ UNCHANGED destroyed
    BY <1>6 DEF FireNext
  <2>2. pc = "fire" /\ UNCHANGED <<now, timers, stamped, list, CurrentTick, blocktime, wakeAt,
                                    pipe, stopping>>
    BY <1>6 DEF FireNext
  <2>3. TypeOK'
    BY <2>1, <2>2, <1>a, <1>c DEF TypeOK, Location
  <2>4. OnePlace'
    BY <2>1, <2>2, <1>a, <1>c DEF OnePlace
  <2> QED BY <2>1, <2>2, <2>3, <2>4, <1>a, <1>c
          DEF IInv, NotEarly, OlderLeaveFirst, Watched, Alike
<1>7. CASE Recalculate
  <2>1. UNCHANGED <<now, entries, stamped, reserved, CurrentTick, wakeAt, pipe, stopping>>
    BY <1>7 DEF Recalculate
  <2>2. blocktime' \in Int /\ blocktime' <= Forever /\ (list # {} => blocktime' < Forever)
    <3>1. CASE list = {}
      BY <1>7, <3>1, LifeTimeAssumption DEF Recalculate
    <3>2. CASE list # {}
      <4>1. PICK e \in list : blocktime' = Least(timers[e].exp - CurrentTick)
        BY <1>7, <3>2 DEF Recalculate
      <4>2. /\ timers[e].exp \in Nat /\ timers[e].exp < MaxNow
            /\ CurrentTick \in Nat /\ MaxNow \in Nat /\ MaxNow <= Forever
        BY <1>a, <1>b, LifeTimeAssumption DEF TypeOK, TriggerTimes
      <4>3. timers[e].exp - CurrentTick < Forever /\ timers[e].exp - CurrentTick \in Int
        BY <4>2, LifeTimeAssumption
      <4> QED BY <4>1, <4>3, LifeTimeAssumption DEF Least
    <3> QED BY <3>1, <3>2
  <2>3. TypeOK'
    BY <1>7, <2>1, <2>2, <1>a, <1>c DEF Recalculate, TypeOK, Location, entries
  <2> QED BY <1>7, <2>1, <2>2, <2>3, <1>a, <1>c
          DEF IInv, Recalculate, OnePlace, NotEarly, OlderLeaveFirst, Watched, Alike, entries
<1>8. CASE Select
  BY <1>8, <1>a, <1>c
  DEF Select, entries, IInv, TypeOK, Location, OnePlace, NotEarly, OlderLeaveFirst, Watched, Alike
<1>9. CASE Flush
  <2>1. events = {}
    BY <1>9, <1>a DEF Flush, OlderLeaveFirst
  <2> QED BY <1>9, <2>1, <1>a, <1>c
      DEF Flush, IInv, TypeOK, Location, OnePlace, NotEarly, OlderLeaveFirst, Watched
<1>10. CASE Tick
  <2>1. now' = now + 1 /\ now \in Nat /\ UNCHANGED <<entries, stamped, reserved, chain, pipe, stopping>>
    BY <1>10, <1>a DEF Tick, TypeOK
  <2>2. TypeOK'
    BY <2>1, <1>a DEF TypeOK, entries, chain, Added
  <2>3. TriggerTimes'
    BY <2>1, <1>a, <1>b DEF TriggerTimes, TypeOK, entries, Added, Alike
  <2>4. NotEarly'
    BY <2>1, <1>a, <1>b DEF NotEarly, TypeOK, entries, Added
  <2> QED BY <2>1, <2>2, <2>3, <2>4, <1>a
          DEF IInv, OnePlace, OlderLeaveFirst, Watched, entries, chain, Added, Alike
(* The steps that move the microstack thread and change nothing else but    *)
(* the pipe; the pipe is emptied only on the way to PostSelect.             *)
<1>11. ASSUME UNCHANGED <<now, entries, stamped, reserved, CurrentTick, blocktime, wakeAt,
                          stopping>>,
              pc' \in Location \ {"prepare", "select"}, pipe' \in BOOLEAN,
              events = {} \/ pc' = "fire"
       PROVE  IInv'
  BY <1>11, <1>a, <1>c
  DEF entries, IInv, TypeOK, OnePlace, NotEarly, OlderLeaveFirst, Watched, Alike
<1>12. CASE CallbackReturns
  BY <1>11, <1>12, <1>a DEF CallbackReturns, Location, TypeOK
<1>13. CASE Start \/ SelectReturns \/ SocketReady \/ DrainPipe \/ PostSelectDone
  <2>1. events = {}
    BY <1>13, <1>a DEF Start, SelectReturns, SocketReady, DrainPipe, PostSelectDone, OlderLeaveFirst
  <2>2. /\ pc' \in Location \ {"prepare", "select"} /\ pipe' \in BOOLEAN
        /\ UNCHANGED <<now, entries, stamped, reserved, CurrentTick, blocktime, wakeAt, stopping>>
    BY <1>13, <1>a
    DEF Start, SelectReturns, SocketReady, DrainPipe, PostSelectDone, Location, TypeOK, Loop
  <2> QED BY <1>11, <2>1, <2>2
<1>14. CASE UNCHANGED vars
  BY <1>14, <1>a, <1>c
  DEF vars, entries, chain, IInv, TypeOK, OnePlace, NotEarly, OlderLeaveFirst, Watched, Alike
<1> QED BY <1>1, <1>2, <1>3, <1>4, <1>5, <1>6, <1>7, <1>8, <1>9, <1>10, <1>12, <1>13, <1>14
        DEF Next, Add, ChainSteps
-----------------------------------------------------------------------------
LEMMA Invariance == Spec => []IInv
<1> QED BY InitOK, StepOK, PTL DEF Spec

(* Types, for any threads, data, delays and bounds.                         *)
THEOREM TypeCorrect == Spec => []TypeOK
<1>1. IInv => TypeOK
  BY DEF IInv
<1> QED BY <1>1, Invariance, PTL

(* Every registration is in one place and settled once, whatever adds and   *)
(* removals race with ILibLifeTime_Check.                                   *)
THEOREM SettledOnce == Spec => []OnePlace
<1>1. IInv => OnePlace
  BY DEF IInv
<1> QED BY <1>1, Invariance, PTL

(* ILibLifeTime_Check fires nothing before its time.                        *)
THEOREM NeverEarly == Spec => []NotEarly
<1>1. IInv => NotEarly
  BY DEF IInv
<1> QED BY <1>1, Invariance, PTL

(* No registration is left behind by a chain that sleeps without a timeout. *)
THEOREM NoLostWakeUp == Spec => []NoSleepOverTimers
<1>1. IInv => NoSleepOverTimers
  BY DEF IInv, Watched, NoSleepOverTimers
<1> QED BY <1>1, Invariance, PTL

(* Registrations of one thread with one delay fire in the order of the      *)
(* calls.                                                                   *)
THEOREM FirstComeFirstFired == Spec => FiresInOrder
<1> DEFINE InOrder == \A e \in fired' \ fired : \A f \in list \cup events : f < e => ~Alike(e, f)
<1>1. IInv /\ [Next]_vars => [InOrder]_vars
  <2> SUFFICES ASSUME IInv, Next PROVE InOrder
    BY DEF vars
  <2>1. CASE FireNext
    <3>1. PICK e \in events : Oldest(e, events) /\ (fired' = fired \cup {e} \/ fired' = fired)
      BY <2>1 DEF FireNext
    <3>2. \A f \in events : e <= f /\ e \in Nat /\ f \in Nat
      BY <3>1 DEF Oldest, IInv, TypeOK, Added
    <3> QED BY <3>1, <3>2 DEF IInv, OlderLeaveFirst
  <2>2. CASE ~FireNext
    <3>1. UNCHANGED fired
      BY <2>2 DEF Next, Add, ChainSteps, Stamp, Insert, Remove, Stop, Start, Collect,
           CallbackReturns, Recalculate, Select, SelectReturns, SocketReady, DrainPipe,
           PostSelectDone, Flush, Tick, entries
    <3> QED BY <3>1
  <2> QED BY <2>1, <2>2
<1> QED BY <1>1, Invariance, PTL DEF Spec, FiresInOrder
=============================================================================
