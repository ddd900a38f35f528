------------------------------ MODULE LifeTime ------------------------------
(***************************************************************************)
(* ILibLifeTime: the timed callbacks of the microstack thread, with the    *)
(* part of ILibStartChain they rely on (block time, select, wake-up pipe). *)
(*                                                                         *)
(* ObjectList and the event queue of ILibLifeTime_Check only ever grow at  *)
(* their tail, so an entry is the number of its AddTail, and a list is the *)
(* set of the entries on it, oldest first.  Every critical section of      *)
(* ObjectList is one action, and the DestroyPtr calls ILibLifeTime_Remove  *)
(* makes after its own are part of it.  Client threads follow the rule     *)
(* that no timer is used after ILibStopChain.                              *)
(***************************************************************************)
EXTENDS Integers, Sequences, FiniteSets

CONSTANTS
  Client,      \* threads of the application
  Microstack,  \* the thread that runs the chain and every callback
  Data,        \* what callbacks are registered for and removed by
  Delay,       \* delays asked for, in ticks
  Forever,     \* UPNP_MAX_WAIT, the block time when nobody asks for less
  MaxAdds,     \* bound: registrations in a behaviour
  MaxNow       \* bound: ticks of the clock, less than a day; no timer is due later

ASSUME LifeTimeAssumption ==
  /\ Microstack \notin Client
  /\ Delay \subseteq Nat /\ Forever \in Nat
  /\ MaxAdds \in Nat /\ MaxNow \in 0 .. Forever
  /\ Data \cap (1 .. MaxAdds) = {}    \* two kinds of heap objects

Thread == Client \cup {Microstack}
Entry  == 1 .. MaxAdds
Timer  == [data : Data, delay : Delay, exp : Nat, by : Thread]

VARIABLES
  now,          \* gettimeofday, in ticks
  timers,       \* Seq(Timer): what was registered as 1, 2, ...
  stamped,      \* the timer a thread in AddEx has stamped but not yet added
  list,         \* ObjectList
  reserved,     \* Reserved: data of removals that found nothing on the list
  events,       \* EventQueue of ILibLifeTime_Check
  fired, destroyed,  \* entries whose CallbackPtr, DestroyPtr was called
  pc,           \* where the microstack thread is
  CurrentTick, blocktime,  \* locals of ILibLifeTime_Check and ILibStartChain
  wakeAt,       \* when select times out
  pipe,         \* is a byte in the terminate pipe?
  stopping      \* TerminateFlag

entries == <<timers, list, events, fired, destroyed>>
chain   == <<pc, CurrentTick, blocktime, wakeAt>>
vars    == <<now, entries, stamped, reserved, chain, pipe, stopping>>

Location == {"created", "check", "fire", "callback", "prepare", "select",
             "drain", "post", "flush", "gone"}

Init ==
  /\ now = 0 /\ timers = <<>> /\ stamped = [t \in Thread |-> {}]
  /\ list = {} /\ reserved = {} /\ events = {}
  /\ fired = {} /\ destroyed = {}
  /\ pc = "created" /\ CurrentTick = 0 /\ blocktime = Forever /\ wakeAt = 0
  /\ pipe = FALSE /\ stopping = FALSE

(* Code of the application runs on the microstack thread in a callback and  *)
(* in the PreSelect and PostSelect of the other links of the chain.         *)
Runs(t) == IF t = Microstack THEN pc \in {"callback", "prepare", "post"}
                             ELSE ~stopping

ForgetsBusyChain == pc = "select"
PipeIsOpen == pc # "created"        \* TerminateWritePipe # NULL

Newest(e, E) == e \in E /\ \A f \in E : f <= e
Oldest(e, E) == e \in E /\ \A f \in E : e <= f    \* the head of E

Expired(E, t) == {e \in E : timers[e].exp < t}

With(d, E) == {e \in E : timers[e].data = d}

WakesIfBusy(E) == E # {}
WakesChain(E) == E = {}             \* node==NULL in AddEx

Least(left) == IF left < Forever THEN left ELSE Forever

OneLeftOn(E, out) == E \ {e \in out : Oldest(e, out)}
LeftOn(E, out) == E \ out

TriggerTime(ms) == now + ms
-----------------------------------------------------------------------------
(* ILibLifeTime_AddEx, by any thread: the trigger time is taken before the  *)
(* list is locked.                                                          *)

Stamp(t, d, ms) ==
  /\ Runs(t) /\ stamped[t] = {}
  /\ Len(timers) + Cardinality({u \in Thread : stamped[u] # {}}) < MaxAdds
  /\ now + ms < MaxNow
  /\ stamped' = [stamped EXCEPT ![t] =
                   {[data |-> d, delay |-> ms, exp |-> TriggerTime(ms), by |-> t]}]
  /\ UNCHANGED <<now, entries, reserved, chain, pipe, stopping>>

Insert(t) ==
  \E new \in stamped[t] :
    /\ timers' = Append(timers, new)
    /\ list' = list \cup {Len(timers) + 1}
    /\ stamped' = [stamped EXCEPT ![t] = {}]
    /\ pipe' = (pipe \/ (WakesChain(list) /\ PipeIsOpen))
    /\ UNCHANGED <<now, reserved, events, fired, destroyed, chain, stopping>>

(* ILibLifeTime_Remove.  A registration of d that Check has already taken   *)
(* off the list is what Reserved is meant for.                              *)
Remove(t, d) ==
  /\ Runs(t) /\ stamped[t] = {}
  /\ list' = LeftOn(list, With(d, list))
  /\ destroyed' = destroyed \cup With(d, list)
  /\ reserved' = IF list # {} /\ With(d, list) = {} THEN reserved \cup {d} ELSE reserved
  /\ UNCHANGED <<now, timers, stamped, events, fired, chain, pipe, stopping>>

(* ILibStopChain *)
Stop(t) ==
  /\ Runs(t) /\ ~stopping
  /\ \A c \in Client : stamped[c] = {}
  /\ stopping' = TRUE
  /\ pipe' = (pipe \/ PipeIsOpen)
  /\ UNCHANGED <<now, entries, stamped, reserved, chain>>
-----------------------------------------------------------------------------
(* The microstack thread: ILibStartChain, ILibLifeTime_Check                *)

Loop == IF stopping THEN "flush" ELSE "check"

Start ==
  /\ pc = "created"
  /\ pc' = Loop
  /\ UNCHANGED <<now, entries, stamped, reserved, CurrentTick, blocktime,
                 wakeAt, pipe, stopping>>

Collect ==
  /\ pc = "check"
  /\ CurrentTick' = now
  /\ events' = Expired(list, now)
  /\ list' = LeftOn(list, events')
  /\ reserved' = {}
  /\ pc' = "fire"
  /\ UNCHANGED <<now, timers, stamped, fired, destroyed, blocktime, wakeAt,
                 pipe, stopping>>

(* The entry is looked for in Reserved, which holds data pointers.          *)
FireNext ==
  /\ pc = "fire" /\ events # {}
  /\ \E e \in events :
         /\ Oldest(e, events)
         /\ events' = events \ {e}
         /\ reserved' = reserved \ {e}
         /\ IF e \in reserved
            THEN /\ destroyed' = destroyed \cup {e}
                 /\ UNCHANGED <<fired, pc>>
            ELSE /\ fired' = fired \cup {e}
                 /\ pc' = "callback"
                 /\ UNCHANGED destroyed
  /\ UNCHANGED <<now, timers, stamped, list, CurrentTick, blocktime, wakeAt,
                 pipe, stopping>>

CallbackReturns ==
  /\ pc = "callback" /\ stamped[Microstack] = {}
  /\ pc' = "fire"
  /\ UNCHANGED <<now, entries, stamped, reserved, CurrentTick, blocktime,
                 wakeAt, pipe, stopping>>

Recalculate ==
  /\ pc = "fire" /\ events = {}
  /\ \/ list = {} /\ blocktime' = Forever
     \/ \E e \in list : /\ Oldest(e, list)
                        /\ blocktime' = Least(timers[e].exp - CurrentTick)
  /\ pc' = "prepare"
  /\ UNCHANGED <<now, entries, stamped, reserved, CurrentTick, wakeAt,
                 pipe, stopping>>

Select ==
  /\ pc = "prepare" /\ stamped[Microstack] = {}
  /\ wakeAt' = now + blocktime
  /\ pc' = "select"
  /\ UNCHANGED <<now, entries, stamped, reserved, CurrentTick, blocktime,
                 pipe, stopping>>

(* At the bound of the clock every timeout short of Forever is over.  A     *)
(* negative one makes select fail, and then the pipe is not looked at.      *)
TimedOut == wakeAt <= now \/ (now = MaxNow /\ blocktime < Forever)

SelectReturns ==
  /\ pc = "select"
  /\ pipe \/ TimedOut
  /\ pc' = IF pipe /\ blocktime >= 0 THEN "drain" ELSE "post"
  /\ UNCHANGED <<now, entries, stamped, reserved, CurrentTick, blocktime,
                 wakeAt, pipe, stopping>>

SocketReady ==
  /\ pc = "select"
  /\ ~pipe /\ ~TimedOut
  /\ pc' = "post"
  /\ UNCHANGED <<now, entries, stamped, reserved, CurrentTick, blocktime,
                 wakeAt, pipe, stopping>>

DrainPipe ==
  /\ pc = "drain"
  /\ pipe' = FALSE
  /\ pc' = "post"
  /\ UNCHANGED <<now, entries, stamped, reserved, CurrentTick, blocktime,
                 wakeAt, stopping>>

PostSelectDone ==
  /\ pc = "post" /\ stamped[Microstack] = {}
  /\ pc' = Loop
  /\ UNCHANGED <<now, entries, stamped, reserved, CurrentTick, blocktime,
                 wakeAt, pipe, stopping>>

(* ILibLifeTime_Destroy, which flushes; the chain is gone after it.         *)
Flush ==
  /\ pc = "flush"
  /\ list' = {}
  /\ destroyed' = destroyed \cup list
  /\ pc' = "gone"
  /\ UNCHANGED <<now, timers, stamped, reserved, events, fired, CurrentTick,
                 blocktime, wakeAt, pipe, stopping>>

Tick ==
  /\ now < MaxNow
  /\ now' = now + 1
  /\ UNCHANGED <<entries, stamped, reserved, chain, pipe, stopping>>
-----------------------------------------------------------------------------
Add(t) == Insert(t) \/ \E d \in Data, ms \in Delay : Stamp(t, d, ms)

ChainSteps ==
  \/ Start \/ Collect \/ FireNext \/ CallbackReturns \/ Recalculate \/ Select
  \/ SelectReturns \/ DrainPipe \/ PostSelectDone \/ Flush

Next ==
  \/ \E t \in Thread : Add(t) \/ Stop(t) \/ \E d \in Data : Remove(t, d)
  \/ ChainSteps \/ SocketReady \/ Tick

Spec == Init /\ [][Next]_vars

(* The scheduler runs every thread that can run, time passes, and no        *)
(* callback blocks.                                                         *)
FairSpec ==
  /\ Spec
  /\ WF_vars(ChainSteps) /\ WF_vars(Tick)
  /\ \A t \in Thread : WF_vars(Insert(t))
-----------------------------------------------------------------------------
Added == 1 .. Len(timers)

(* Types; ExpirationTick is unsigned, CurrentTick is a time gone by.        *)
TypeOK ==
  /\ now \in Nat /\ CurrentTick \in 0 .. now
  /\ timers \in Seq(Timer)
  /\ stamped \in [Thread -> SUBSET Timer]
  /\ \A t \in Thread : \A x, y \in stamped[t] : x = y
  /\ list \subseteq Added /\ events \subseteq Added
  /\ fired \subseteq Added /\ destroyed \subseteq Added
 
  /\ reserved \subseteq Data
  /\ pc \in Location
  /\ blocktime \in Int /\ blocktime <= Forever /\ wakeAt \in Int
  /\ pipe \in BOOLEAN /\ stopping \in BOOLEAN

(* Every registration is in exactly one place: waiting on ObjectList, taken *)
(* off by Check, or settled by one call of CallbackPtr or of DestroyPtr.    *)
(* Remove, Check and Flush race for it from several threads, and the memory *)
(* of an entry is freed by whoever settles it.                              *)
OnePlace ==
  /\ Added = list \cup events \cup fired \cup destroyed
  /\ list \cap (events \cup fired \cup destroyed) = {}
  /\ events \cap (fired \cup destroyed) = {}
  /\ fired \cap destroyed = {}

(* No callback runs before its time, whatever woke the chain up.            *)
NotEarly == \A e \in events \cup fired : timers[e].exp < now

(* What a thread registers twice with one delay fires in the order of the   *)
(* two calls: ILibChain_SafeAdd, SafeRemove and ILibWebClient_CancelRequest *)
(* pass work to the microstack thread with a delay of 0 and rely on it.     *)
Alike(e, f) == timers[e].by = timers[f].by /\ timers[e].delay = timers[f].delay
FiresInOrder ==
  [][\A e \in fired' \ fired : \A f \in list \cup events : f < e => ~Alike(e, f)]_vars

(* The chain never goes to sleep for good on a timer: a registration that   *)
(* slips in between the look at the list and select leaves a byte in the    *)
(* pipe.                                                                    *)
NoSleepOverTimers ==
  pc = "select" /\ list # {} => pipe \/ blocktime < Forever

(* Every registration is settled in the end, by its callback or by          *)
(* ILibLifeTime_Remove or the end of the chain.                             *)
TimersSettle ==
  \A e \in Entry : e \in list \cup events ~> e \in fired \cup destroyed
=============================================================================
