-------------------------- MODULE ReaderWriterLock --------------------------
(***************************************************************************)
(* ILibReaderWriterLock: a writer-preferring lock made of counters behind  *)
(* CounterLock and three counting semaphores (the POSIX build, where       *)
(* lock_t is sem_t).  No critical section of CounterLock blocks, so each   *)
(* is one action; every semaphore operation and every unlocked read of     *)
(* Exit outside one is an action of its own.  After the four lock_destroy  *)
(* calls the lock does not exist and nothing more is modelled.             *)
(***************************************************************************)
EXTENDS Naturals, FiniteSets

CONSTANTS
  Reader, Writer    \* the threads that use the lock, by what they ask for

ASSUME LockAssumption ==
  /\ IsFiniteSet(Reader) /\ IsFiniteSet(Writer)
  /\ Reader \cap Writer = {}

Caller == Reader \cup Writer

VARIABLES
  ActiveReaders, WaitingReaders, PendingWriters, Exit,
  ReadLock, WriteLock, ExitLock,   \* values of the semaphores
  at,         \* where each caller is
  toWake,     \* SignalReaders of a thread in WriteUnLock
  collector,  \* where the caller of Destroy2 is
  toCollect   \* its NumberOfWaitingLocks

counters    == <<ActiveReaders, WaitingReaders, PendingWriters>>
semaphores  == <<ReadLock, WriteLock, ExitLock>>
destruction == <<collector, toCollect, Exit>>
RWvars      == <<counters, semaphores, at, toWake, destruction>>

RLocation == {"idle", "rblocked", "rpass", "radmit", "reading",
              "refuse", "signal", "drain"}
WLocation == {"idle", "wblocked", "wpass", "wadmit", "writing",
              "refuse", "signal", "wake", "drain"}

RWInit ==
  /\ ActiveReaders = 0 /\ WaitingReaders = 0 /\ PendingWriters = 0
  /\ ReadLock = 0 /\ WriteLock = 0 /\ ExitLock = 0
  /\ at = [t \in Caller |-> "idle"]
  /\ toWake = [t \in Caller |-> 0]
  /\ collector = "idle" /\ toCollect = 0 /\ Exit = FALSE

Exists == collector # "gone"
MoveTo(t, l) == at' = [at EXCEPT ![t] = l]

(* The decisions taken in the critical sections, with faulty variants.      *)
OvertakesWriters == PendingWriters > 1
MustBlockReader == PendingWriters > 0

IgnoresReaders(pending) == pending > 1
MustBlockWriter(pending) == ActiveReaders > 0 \/ pending > 1

OffByOneLastReader(active) == active = 1 /\ PendingWriters > 0
LastReaderSignals(active) == active = 0 /\ PendingWriters > 0

Promoted(active, waiting) == active + waiting

NotPosted(tokens) == tokens
Posted(tokens) == tokens + 1                         \* lock_post(&ExitLock)

-----------------------------------------------------------------------------
(* ILibReaderWriterLock_ReadLock *)

ReadLockEnter(t) ==
  /\ at[t] = "idle" /\ Exists /\ ~Exit
  /\ IF MustBlockReader
     THEN /\ WaitingReaders' = WaitingReaders + 1
          /\ MoveTo(t, "rblocked")
          /\ UNCHANGED ActiveReaders
     ELSE /\ ActiveReaders' = ActiveReaders + 1
          /\ MoveTo(t, "rpass")
          /\ UNCHANGED WaitingReaders
  /\ UNCHANGED <<PendingWriters, semaphores, toWake, destruction>>

ReaderWoken(t) ==
  /\ at[t] = "rblocked" /\ Exists
  /\ ReadLock > 0
  /\ ReadLock' = ReadLock - 1
  /\ MoveTo(t, "rpass")
  /\ UNCHANGED <<counters, WriteLock, ExitLock, toWake, destruction>>

(* RetVal = rw->Exit, read outside CounterLock, then the post of ExitLock. *)
ReadVerdict(t) ==
  /\ at[t] = "rpass" /\ Exists
  /\ MoveTo(t, IF Exit THEN "refuse" ELSE "radmit")
  /\ UNCHANGED <<counters, semaphores, toWake, destruction>>

ReadLockReturn(t) ==
  /\ at[t] = "radmit" /\ Exists
  /\ ExitLock' = Posted(ExitLock)
  /\ MoveTo(t, "reading")
  /\ UNCHANGED <<counters, ReadLock, WriteLock, toWake, destruction>>

-----------------------------------------------------------------------------
(* ILibReaderWriterLock_WriteLock *)

WriteLockEnter(t) ==
  /\ at[t] = "idle" /\ Exists /\ ~Exit
  /\ PendingWriters' = PendingWriters + 1
  /\ MoveTo(t, IF MustBlockWriter(PendingWriters') THEN "wblocked" ELSE "wpass")
  /\ UNCHANGED <<ActiveReaders, WaitingReaders, semaphores, toWake, destruction>>

WriterWoken(t) ==
  /\ at[t] = "wblocked" /\ Exists
  /\ WriteLock > 0
  /\ WriteLock' = WriteLock - 1
  /\ MoveTo(t, "wpass")
  /\ UNCHANGED <<counters, ReadLock, ExitLock, toWake, destruction>>

WriteVerdict(t) ==
  /\ at[t] = "wpass" /\ Exists
  /\ MoveTo(t, IF Exit THEN "refuse" ELSE "wadmit")
  /\ UNCHANGED <<counters, semaphores, toWake, destruction>>

WriteLockReturn(t) ==
  /\ at[t] = "wadmit" /\ Exists
  /\ ExitLock' = Posted(ExitLock)
  /\ MoveTo(t, "writing")
  /\ UNCHANGED <<counters, ReadLock, WriteLock, toWake, destruction>>

(* A thread that Destroy released posts ExitLock and returns nonzero.  A    *)
(* call that finds Exit set in its critical section returns at once and     *)
(* changes nothing.                                                         *)
Refused(t) ==
  /\ at[t] = "refuse" /\ Exists
  /\ ExitLock' = Posted(ExitLock)
  /\ MoveTo(t, "idle")
  /\ UNCHANGED <<counters, ReadLock, WriteLock, toWake, destruction>>

-----------------------------------------------------------------------------
(* ILibReaderWriterLock_ReadUnLock and _WriteUnLock.  Once Exit is set they *)
(* only return.                                                             *)

ReadUnLock(t) ==
  /\ at[t] = "reading" /\ Exists
  /\ IF Exit
     THEN MoveTo(t, "idle") /\ UNCHANGED ActiveReaders
     ELSE /\ ActiveReaders' = ActiveReaders - 1
          /\ MoveTo(t, IF LastReaderSignals(ActiveReaders') THEN "signal" ELSE "drain")
  /\ UNCHANGED <<WaitingReaders, PendingWriters, semaphores, toWake, destruction>>

(* The readers that wait become active before they are woken. *)
WriteUnLock(t) ==
  /\ at[t] = "writing" /\ Exists
  /\ \/ /\ Exit
        /\ MoveTo(t, "idle")
        /\ UNCHANGED <<counters, toWake>>
     \/ /\ ~Exit /\ PendingWriters > 1
        /\ PendingWriters' = PendingWriters - 1
        /\ MoveTo(t, "signal")
        /\ UNCHANGED <<ActiveReaders, WaitingReaders, toWake>>
     \/ /\ ~Exit /\ PendingWriters <= 1
        /\ PendingWriters' = PendingWriters - 1
        /\ toWake' = [toWake EXCEPT ![t] = WaitingReaders]
        /\ ActiveReaders' = Promoted(ActiveReaders, WaitingReaders)
        /\ WaitingReaders' = 0
        /\ MoveTo(t, "wake")
  /\ UNCHANGED <<semaphores, destruction>>

SignalWriter(t) ==
  /\ at[t] = "signal" /\ Exists
  /\ WriteLock' = WriteLock + 1
  /\ MoveTo(t, "drain")
  /\ UNCHANGED <<counters, ReadLock, ExitLock, toWake, destruction>>

WakeReader(t) ==
  /\ at[t] = "wake" /\ Exists
  /\ IF toWake[t] > 0
     THEN /\ ReadLock' = ReadLock + 1
          /\ toWake' = [toWake EXCEPT ![t] = @ - 1]
          /\ UNCHANGED at
     ELSE MoveTo(t, "drain") /\ UNCHANGED <<ReadLock, toWake>>
  /\ UNCHANGED <<counters, WriteLock, ExitLock, destruction>>

(* "This won't block.  We're just keeping the semaphore value stable." *)
Drain(t) ==
  /\ at[t] = "drain" /\ Exists
  /\ ExitLock > 0
  /\ ExitLock' = ExitLock - 1
  /\ MoveTo(t, "idle")
  /\ UNCHANGED <<counters, ReadLock, WriteLock, toWake, destruction>>

-----------------------------------------------------------------------------
(* ILibReaderWriterLock_Destroy2 *)

Excess(pending) == IF pending > 1 THEN pending - 1 ELSE 0

Destroy2Enter ==
  /\ collector = "idle"
  /\ Exit' = TRUE
  /\ toCollect' = WaitingReaders + Excess(PendingWriters)
  /\ ReadLock' = ReadLock + WaitingReaders
  /\ WriteLock' = WriteLock + Excess(PendingWriters)
  /\ WaitingReaders' = 0
  /\ PendingWriters' = PendingWriters - Excess(PendingWriters)
  /\ collector' = "collecting"
  /\ UNCHANGED <<ActiveReaders, ExitLock, at, toWake>>

Destroy2Collect ==
  /\ collector = "collecting"
  /\ IF toCollect > 0
     THEN /\ ExitLock > 0
          /\ ExitLock' = ExitLock - 1 /\ toCollect' = toCollect - 1
          /\ UNCHANGED collector
     ELSE collector' = "gone" /\ UNCHANGED <<ExitLock, toCollect>>
  /\ UNCHANGED <<counters, ReadLock, WriteLock, at, toWake, Exit>>

-----------------------------------------------------------------------------
ReaderSteps(t) ==
  \/ ReaderWoken(t) \/ ReadVerdict(t) \/ ReadLockReturn(t) \/ Refused(t)
  \/ ReadUnLock(t) \/ SignalWriter(t) \/ Drain(t)

WriterSteps(t) ==
  \/ WriterWoken(t) \/ WriteVerdict(t) \/ WriteLockReturn(t) \/ Refused(t)
  \/ WriteUnLock(t) \/ SignalWriter(t) \/ WakeReader(t) \/ Drain(t)

Destroy2 == Destroy2Enter \/ Destroy2Collect

Enter == (\E t \in Reader : ReadLockEnter(t)) \/ (\E t \in Writer : WriteLockEnter(t))

RWNext ==
  \/ Enter
  \/ \E t \in Reader : ReaderSteps(t)
  \/ \E t \in Writer : WriterSteps(t)
  \/ Destroy2

RWSpec == RWInit /\ [][RWNext]_RWvars

(* Every thread that can run does, and a holder eventually unlocks.         *)
RWFairness ==
  /\ \A t \in Reader : WF_RWvars(ReaderSteps(t))
  /\ \A t \in Writer : WF_RWvars(WriterSteps(t))

RWFairSpec == RWSpec /\ RWFairness

-----------------------------------------------------------------------------
(* Types of the state variables. *)
RWTypeOK ==
  /\ ActiveReaders \in Nat /\ WaitingReaders \in Nat /\ PendingWriters \in Nat
  /\ ReadLock \in Nat /\ WriteLock \in Nat /\ ExitLock \in Nat
  /\ at \in [Caller -> RLocation \cup WLocation]
  /\ toWake \in [Caller -> Nat]
  /\ Exit \in BOOLEAN
  /\ collector \in {"idle", "collecting", "gone"} /\ toCollect \in Nat

HoldsRead  == {t \in Reader : at[t] \in {"radmit", "reading"}}
HoldsWrite == {t \in Writer : at[t] \in {"wadmit", "writing"}}

(* Readers share, writers exclude: the lock does what a lock is for, also   *)
(* while Destroy releases the threads that wait.                            *)
MutualExclusion ==
  \A w \in HoldsWrite : HoldsRead = {} /\ HoldsWrite = {w}

(* "This won't block.  We're just keeping the semaphore value stable": the  *)
(* wait at the end of both unlocks finds a token, until Destroy2 takes some.*)
DrainNeverBlocks == \A t \in Caller : at[t] = "drain" /\ ~Exit => ExitLock > 0

(* Nobody is forgotten between the counters and the semaphores: while a     *)
(* thread waits, another has the lock, is on its way in or about to wake    *)
(* somebody, or a token lies there for one that waits.  So the lock never   *)
(* comes to rest with a thread before it, until Destroy2.                   *)
NobodyForgotten ==
  ~Exit /\ (\E t \in Caller : at[t] \in {"rblocked", "wblocked"}) =>
    \E u \in Caller :
      \/ at[u] \in {"rpass", "radmit", "reading", "wpass", "wadmit", "writing", "signal"}
      \/ at[u] = "wake" /\ toWake[u] > 0
      \/ at[u] = "rblocked" /\ ReadLock > 0
      \/ at[u] = "wblocked" /\ WriteLock > 0

(* The counters, semaphores and locations together behave as the abstract   *)
(* lock, with a thread holding it from the moment it reads Exit = 0.        *)
Abstract == INSTANCE LockSpec WITH readers <- HoldsRead, writers <- HoldsWrite
ImplementsLockSpec == Abstract!Spec

(* Once no new request arrives, every thread that waits gets the lock,      *)
(* unless it is destroyed: no wake-up is lost between the counters and the  *)
(* semaphores.                                                              *)
WaitersAdmitted ==
  []~Exit /\ <>[][~Enter]_RWvars =>
    \A t \in Caller : at[t] \in {"rblocked", "wblocked"}
                        ~> at[t] \in {"reading", "writing"}
=============================================================================
