------------------------------ MODULE LockSpec ------------------------------
(***************************************************************************)
(* What a reader/writer lock promises: any number of readers, or one       *)
(* writer alone.  A thread that asks may also be turned away, which        *)
(* changes nothing here.                                                   *)
(***************************************************************************)
CONSTANTS Reader, Writer

VARIABLES readers, writers    \* the threads that hold the lock

lockVars == <<readers, writers>>

Init == readers = {} /\ writers = {}

AcquireRead(t) ==
  /\ t \notin readers /\ writers = {}
  /\ readers' = readers \cup {t} /\ UNCHANGED writers

AcquireWrite(t) ==
  /\ readers = {} /\ writers = {}
  /\ writers' = {t} /\ UNCHANGED readers

ReleaseRead(t) ==
  t \in readers /\ readers' = readers \ {t} /\ UNCHANGED writers

ReleaseWrite(t) ==
  t \in writers /\ writers' = writers \ {t} /\ UNCHANGED readers

Next == \/ \E t \in Reader : AcquireRead(t) \/ ReleaseRead(t)
        \/ \E t \in Writer : AcquireWrite(t) \/ ReleaseWrite(t)

Spec == Init /\ [][Next]_lockVars
=============================================================================
