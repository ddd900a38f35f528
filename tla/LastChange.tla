----------------------------- MODULE LastChange -----------------------------
(***************************************************************************)
(* DMR.c: the state of the renderer, the LastChange mask the application   *)
(* flags its changes in, and the 200 ms timer that turns the mask into one *)
(* event of each service.                                                  *)
(*                                                                         *)
(* StateChange is called by threads of the application and holds DMR_Lock  *)
(* from the comparison to the flag, so a call is one action.  The timer    *)
(* handler runs on the microstack thread; it holds DMR_Lock while it takes *)
(* each of its two snapshots, but neither while it sends them nor when it  *)
(* clears the mask, and those are actions of their own.                    *)
(***************************************************************************)
EXTENDS Integers, FiniteSets

CONSTANTS
  RenderingControl, AVTransport, \* the evented variables of the two services
  Backwards,   \* those whose StateChange flags a value that is NOT new
  Position,    \* those whose StateChange may be told not to notify
  Nullable,    \* those whose StateChange takes NULL for Empty, and flags it anyway
  Value,       \* values of a variable
  Empty,       \* the value of every variable at first
  MaxChanges   \* bound: calls that change or flag something

Variable == RenderingControl \cup AVTransport
Service  == {"RenderingControl", "AVTransport"}

ASSUME LastChangeAssumption ==
  /\ RenderingControl \cap AVTransport = {}
  /\ Backwards \subseteq Variable /\ Position \subseteq Variable
  /\ Nullable \subseteq Variable
  /\ Empty \in Value /\ MaxChanges \in Nat

VARIABLES
  val,         \* the state variables, by name
  mask,        \* LastChangeMask
  at,          \* where the timer handler is
  snapshot,    \* RenderingData or AVTransportData
  changes,     \* history: calls so far
  untold       \* history: changed since they were last put into an event

lastChangeVars == <<val, mask, at, snapshot, changes, untold>>

Place == {"idle", "snapshotRC", "sendRC", "snapshotAVT", "sendAVT", "clear"}
Nothing == [v \in {} |-> Empty]     \* a LastChange without a variable
Body == UNION {[V -> Value] : V \in SUBSET Variable}

VariablesOf(svc) == IF svc = "RenderingControl" THEN RenderingControl ELSE AVTransport

LastChangeTypeOK ==
  /\ val \in [Variable -> Value]
  /\ mask \subseteq Variable /\ untold \subseteq Variable
  /\ at \in Place /\ snapshot \in Body
  /\ changes \in 0 .. MaxChanges

LastChangeInit ==
  /\ val = [v \in Variable |-> Empty]
  /\ mask = {} /\ untold = {}
  /\ at = "idle" /\ snapshot = Nothing
  /\ changes = 0

(* A faulty variant of the test of the mask: one service is forgotten.      *)
RenderingIsDue == mask \cap RenderingControl # {}

IsDue == mask # {}
ChangedOf(svc) == VariablesOf(svc) \cap mask
-----------------------------------------------------------------------------
(* The calls of the application: DMR_StateChange_...                        *)

Counted == changes < MaxChanges /\ changes' = changes + 1

IsNew(v, x) ==
  IF v \in Backwards THEN val[v] = x
                     ELSE val[v] # x \/ (v \in Nullable /\ x = Empty)

Set(v, x) ==
  /\ Counted
  /\ val' = [val EXCEPT ![v] = x]
  /\ untold' = untold \cup {v}
  /\ UNCHANGED snapshot

StateChange(v, x) ==
  /\ IsNew(v, x) /\ Set(v, x)
  /\ mask' = mask \cup {v}
  /\ UNCHANGED at

(* A position with is_notify = 0.                                           *)
SetQuietly(v, x) ==
  /\ v \in Position /\ IsNew(v, x) /\ Set(v, x)
  /\ UNCHANGED <<mask, at>>

(* The mask is cleared without the lock: the store may fall between the     *)
(* read and the write of a StateChange that is setting its flag, and then   *)
(* every flag survives.                                                     *)
ClearOverwritten(v, x) ==
  /\ at = "clear" /\ at' = "idle"
  /\ IsNew(v, x) /\ Set(v, x)
  /\ mask' = mask \cup {v}

Application ==
  \E v \in Variable, x \in Value :
    StateChange(v, x) \/ SetQuietly(v, x) \/ ClearOverwritten(v, x)
-----------------------------------------------------------------------------
(* DMR_LastChangeTimerEvent and FireGenaLastChangeEvent                     *)

Moves(from, to) == at = from /\ at' = to

TimerEvent ==
  /\ Moves("idle", "snapshotRC") /\ IsDue
  /\ UNCHANGED <<val, mask, snapshot, changes, untold>>

TakeSnapshot(svc) ==
  /\ snapshot' = [v \in ChangedOf(svc) |-> val[v]]
  /\ untold' = untold \ ChangedOf(svc)
  /\ UNCHANGED <<val, mask, changes>>

Snapshot ==
  \/ Moves("snapshotRC", "sendRC") /\ TakeSnapshot("RenderingControl")
  \/ Moves("snapshotAVT", "sendAVT") /\ TakeSnapshot("AVTransport")

Sending(svc) == at = IF svc = "RenderingControl" THEN "sendRC" ELSE "sendAVT"

(* The body is handed to SetState_..._LastChange, which every timer event   *)
(* calls for both services, changed or not.                                 *)
Sent(svc) ==
  /\ Sending(svc)
  /\ at' = IF svc = "RenderingControl" THEN "snapshotAVT" ELSE "clear"
  /\ snapshot' = Nothing
  /\ UNCHANGED <<val, mask, changes, untold>>

Clear ==
  /\ Moves("clear", "idle")
  /\ mask' = {}
  /\ UNCHANGED <<val, snapshot, changes, untold>>
=============================================================================
