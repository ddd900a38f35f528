---------------------------- MODULE ControlPoint ----------------------------
(***************************************************************************)
(* DMRCP_ControlPoint.c: one root device, by its UDN, as a control point   *)
(* sees it: announcements at its locations, the fetch of its description   *)
(* and of its service descriptions, the reference count that frees it, the *)
(* timers that expire it or renew its subscriptions, and the requests and  *)
(* references of the application.  MediaServerCP_ControlPoint.c is the same*)
(* but for the sinks of invocations, which only give their reference back. *)
(*                                                                         *)
(* All of it runs on the microstack thread but the calls of the            *)
(* application, which come from its threads: a call takes its reference    *)
(* and queues its request in two steps.  Timers that fire in one pass were *)
(* collected together (module LifeTime), and removing one that is already  *)
(* collected does not stop it.  The device has a server of its own.  The   *)
(* search of the application, which empties the tables under the devices,  *)
(* is left out.  Using a device after it was freed is undefined: the model *)
(* goes on as if its memory were still there.                              *)
(***************************************************************************)
EXTENDS Integers, FiniteSets

CONSTANTS
  Location,    \* the locations the device announces itself at
  NoLocation,  \* none of them
  Services,    \* the number of its services
  MaxDevices,  \* bound: device objects made
  MaxFetches,  \* bound: descriptions fetched
  MaxCalls     \* bound: calls and references of the application

ASSUME ControlPointAssumption ==
  /\ NoLocation \notin Location
  /\ Services \in Nat \ {0}
  /\ MaxDevices \in Nat /\ MaxFetches \in Nat /\ MaxCalls \in Nat

Device == 1 .. MaxDevices
Fetch == 1 .. MaxFetches
Kind == {"subscribe", "invoke", "plain"}  \* plain: UNSUBSCRIBE, or nobody to call back
NoEntry == -1      \* the UDN is not in the table
NoDevice == 0      \* it is, with NULL: its description is being fetched

VARIABLES
  DeviceTable_UDN,    \* NoEntry, NoDevice, or the device object
  DeviceTable_URI,    \* the locations being fetched
  DeviceTable_Tokens, \* the fetch a byebye would cancel, or 0
  fetch,       \* where each description fetch goes, NoLocation when it is over
  fetched,     \* fetches so far
  made,        \* device objects made so far
  heap,        \* those not freed
  phase,       \* fresh, listed (in DeviceList, handed to the application), removed
  LocationURL,
  SCPDLeft, SCPDError,
  ReferenceCount, ReferenceTiedToEvents,
  expiry,      \* the number of timers that will expire a device
  moving,      \* where a device moves when its interface timer fires
  renewals,    \* the number of timers that will renew a subscription
  due,         \* the timers of a removed device that were already collected
  pending,     \* the requests in the web client that refer to a device
  hello,       \* where InterfaceChanged is about to look for the device
  own,         \* references the application has taken
  call,        \* the call of the application between its two steps
  calls,       \* calls and references so far
  stray,       \* history: references nobody will give back
  lost,        \* history: of these, those tied to events
  torn,        \* history: devices destroyed whatever their count
  overdrawn    \* history: references released under a collected renewal

tableVars == <<DeviceTable_UDN, DeviceTable_URI, DeviceTable_Tokens, fetch>>
scpdVars == <<SCPDLeft, SCPDError>>
countVars == <<ReferenceCount, ReferenceTiedToEvents, heap>>
timerVars == <<expiry, moving, renewals, due>>
userVars == <<own, call, calls>>
historyVars == <<stray, lost, torn, overdrawn>>
bornVars == <<made, LocationURL>>
vars == <<tableVars, fetched, bornVars, phase, scpdVars, countVars, timerVars,
          pending, hello, userVars, historyVars>>

NoCall == <<0, "plain">>
NoRequests == [k \in Kind |-> 0]
NothingDue == [expiry |-> 0, moving |-> NoLocation, renewals |-> 0]

Init ==
  /\ DeviceTable_UDN = NoEntry /\ DeviceTable_URI = {} /\ DeviceTable_Tokens = 0
  /\ fetch = [f \in Fetch |-> NoLocation] /\ fetched = 0
  /\ made = 0 /\ heap = {} /\ phase = [d \in Device |-> "fresh"]
  /\ LocationURL = [d \in Device |-> NoLocation]
  /\ SCPDLeft = [d \in Device |-> 0] /\ SCPDError = {}
  /\ ReferenceCount = [d \in Device |-> 0]
  /\ ReferenceTiedToEvents = [d \in Device |-> 0]
  /\ expiry = [d \in Device |-> 0] /\ renewals = [d \in Device |-> 0]
  /\ moving = [d \in Device |-> NoLocation] /\ due = [d \in Device |-> NothingDue]
  /\ pending = [d \in Device |-> NoRequests] /\ hello = NoLocation
  /\ own = [d \in Device |-> 0] /\ call = NoCall /\ calls = 0
  /\ stray = [d \in Device |-> 0] /\ lost = [d \in Device |-> 0]
  /\ torn = {} /\ overdrawn = [d \in Device |-> 0]

(* Faulty variants of the operators below: the references tied to events    *)
(* are not released, a renewal leaves its reference tied.                   *)
NoneTied(d) == 0
StillTied(n) == n

TiedTo(d) == ReferenceTiedToEvents[d]
Untied(n) == n - 1
EntryDeleted == NoEntry
-----------------------------------------------------------------------------
(* References                                                               *)

(* DMRCP_Release n times.                                                   *)
Release(d, n) ==
  /\ ReferenceCount' = [ReferenceCount EXCEPT ![d] = @ - n]
  /\ heap' = IF ReferenceCount'[d] <= 0 THEN heap \ {d} ELSE heap

AddRef(d) == ReferenceCount' = [ReferenceCount EXCEPT ![d] = @ + 1]

(* DMRCP_CP_ProcessDeviceRemoval but for the count.  ILibWebClient deletes  *)
(* the requests to the server of the device, descriptions included, and     *)
(* their sinks give their references back, except those of invocations.     *)
(* The entries are deleted by name.  The timers left are passed: one may    *)
(* just have fired.  So are those Check has collected, which will fire all  *)
(* the same.                                                                *)
Released(d) ==
  pending[d]["subscribe"] + pending[d]["plain"] + IF phase[d] = "listed" THEN 1 ELSE 0

Here(d) == {f \in Fetch : fetch[f] = LocationURL[d]}

ProcessDeviceRemoval(d, invocations, expires, moves, dues) ==
  /\ expiry' = [expires EXCEPT ![d] = 0]
  /\ moving' = [moves EXCEPT ![d] = NoLocation]
  /\ renewals' = [renewals EXCEPT ![d] = 0]
  /\ due' = dues
  /\ pending' = [pending EXCEPT ![d] = NoRequests]
  /\ stray' = [stray EXCEPT ![d] = @ + invocations]
  /\ SCPDLeft' = [SCPDLeft EXCEPT ![d] = 0]
  /\ SCPDError' = IF SCPDLeft[d] > 0 THEN SCPDError \cup {d} ELSE SCPDError
  /\ fetch' = [f \in Fetch |-> IF f \in Here(d) THEN NoLocation ELSE fetch[f]]
  /\ DeviceTable_Tokens' = IF Here(d) = {} THEN DeviceTable_Tokens ELSE 0
  /\ DeviceTable_UDN' = EntryDeleted
  /\ DeviceTable_URI' = DeviceTable_URI \ {LocationURL[d]}
  /\ phase' = [phase EXCEPT ![d] = "removed"]

-----------------------------------------------------------------------------
(* DMRCP_SSDP_Sink                                                          *)

(* Never seen, neither the location nor the UDN.                            *)
New(l) ==
  /\ l \notin DeviceTable_URI /\ DeviceTable_UDN = NoEntry /\ fetched < MaxFetches
  /\ fetched' = fetched + 1
  /\ fetch' = [fetch EXCEPT ![fetched + 1] = l]
  /\ DeviceTable_URI' = DeviceTable_URI \cup {l}
  /\ DeviceTable_UDN' = NoDevice
  /\ DeviceTable_Tokens' = fetched + 1
  /\ UNCHANGED timerVars

(* A periodic announcement, or one from another location when the last was  *)
(* more than ten seconds ago; if it was not, nothing happens.               *)
Known(l) ==
  /\ DeviceTable_UDN \in Device
  /\ LET d == DeviceTable_UDN
         stays == l = LocationURL[d]
     IN /\ expiry' = [expiry EXCEPT ![d] = IF stays THEN 1 ELSE 0]
        /\ moving' = [moving EXCEPT ![d] = IF stays THEN NoLocation ELSE l]
  /\ UNCHANGED <<tableVars, fetched, renewals, due>>

Alive(l) == New(l) \/ Known(l)

(* Which timers of a device has Check collected?                            *)
Collected(e, l, n) ==
  [expiry : 0 .. e, moving : {l, NoLocation}, renewals : 0 .. n]

(* A byebye cancels the fetch it finds a token of, whose sink runs later;   *)
(* otherwise the device in the table goes, with the references tied to its  *)
(* events and the one of the table.                                         *)
CancelFetch ==
  /\ DeviceTable_Tokens # 0
  /\ DeviceTable_Tokens' = 0 /\ DeviceTable_UDN' = NoEntry

RemoveDevice(expires, moves, dues, inCheck) ==
  /\ DeviceTable_Tokens = 0 /\ DeviceTable_UDN \in Device
  /\ LET d == DeviceTable_UDN
     IN \E c \in IF inCheck THEN Collected(expires[d], moves[d], renewals[d]) ELSE {NothingDue} :
          /\ ProcessDeviceRemoval(d, pending[d]["invoke"], expires, moves, [dues EXCEPT ![d] = c])
          /\ Release(d, Released(d) + TiedTo(d) + 1)
          /\ overdrawn' = [overdrawn EXCEPT ![d] = @ + c.renewals]

Byebye(expires, moves, dues, inCheck) ==
  /\ \/ RemoveDevice(expires, moves, dues, inCheck)
     \/ /\ \/ CancelFetch
           \/ /\ DeviceTable_Tokens = 0 /\ DeviceTable_UDN \notin Device
              /\ UNCHANGED <<DeviceTable_Tokens, DeviceTable_UDN>>
        /\ expiry' = expires /\ moving' = moves /\ due' = dues
        /\ UNCHANGED <<renewals, pending, stray, scpdVars, fetch, DeviceTable_URI,
                       phase, ReferenceCount, heap, overdrawn>>
  /\ UNCHANGED <<fetched, bornVars, ReferenceTiedToEvents, userVars, lost, torn>>

Between == hello = NoLocation

(* What was collected fires before anything else runs on this thread.       *)
Waiting == Between /\ due = [d \in Device |-> NothingDue]

Announced(l) ==
  /\ Waiting /\ Alive(l)
  /\ UNCHANGED <<bornVars, phase, scpdVars, countVars, pending, hello, userVars, historyVars>>

Gone == Waiting /\ Byebye(expiry, moving, due, FALSE) /\ UNCHANGED hello
-----------------------------------------------------------------------------
(* The timers of a device say byebye to its UDN, whichever object has it    *)
(* now.                                                                     *)

ExpiredDevice(d) ==
  /\ Between
  /\ \/ /\ expiry[d] > 0
        /\ Byebye([expiry EXCEPT ![d] = @ - 1], moving, due, TRUE)
     \/ /\ due[d].expiry > 0
        /\ Byebye(expiry, moving, [due EXCEPT ![d].expiry = @ - 1], TRUE)
  /\ UNCHANGED hello

(* The byebye is followed by an alive for the new location.                 *)
InterfaceChanged(d) ==
  /\ Between
  /\ \/ /\ moving[d] # NoLocation /\ hello' = moving[d]
        /\ Byebye(expiry, [moving EXCEPT ![d] = NoLocation], due, TRUE)
     \/ /\ due[d].moving # NoLocation /\ hello' = due[d].moving
        /\ Byebye(expiry, moving, [due EXCEPT ![d].moving = NoLocation], TRUE)

Hello ==
  /\ ~Between
  /\ \/ Alive(hello)
     \/ /\ \/ DeviceTable_UDN = NoDevice
           \/ DeviceTable_UDN = NoEntry /\ (hello \in DeviceTable_URI \/ fetched = MaxFetches)
        /\ UNCHANGED <<tableVars, fetched, timerVars>>
  /\ hello' = NoLocation
  /\ UNCHANGED <<bornVars, phase, scpdVars, countVars, pending, userVars, historyVars>>

(* PreSelect finds that the interface of the device has no address any more:*)
(* the references tied to its events are not released.                      *)
Unreachable ==
  /\ Waiting /\ DeviceTable_UDN \in Device
  /\ LET d == DeviceTable_UDN
     IN /\ ProcessDeviceRemoval(d, pending[d]["invoke"], expiry, moving, due)
        /\ Release(d, Released(d) + 1)
        /\ lost' = [lost EXCEPT ![d] = ReferenceTiedToEvents[d]]
  /\ UNCHANGED <<fetched, bornVars, ReferenceTiedToEvents, hello, userVars, torn, overdrawn>>
-----------------------------------------------------------------------------
(* Discovery                                                                *)

(* The description was parsed: the device enters the table, and its service *)
(* descriptions are fetched.                                                *)
Described(l) ==
  LET d == made + 1
  IN /\ made < MaxDevices
     /\ made' = d /\ heap' = heap \cup {d}
     /\ LocationURL' = [LocationURL EXCEPT ![d] = l]
     /\ SCPDLeft' = [SCPDLeft EXCEPT ![d] = Services]
     /\ DeviceTable_UDN' = d

(* The entries are deleted whatever fetch they are of.  An empty document   *)
(* leaves the UDN in the table with NULL.                                   *)
DescriptionDone(f) ==
  /\ Waiting /\ fetch[f] # NoLocation
  /\ fetch' = [fetch EXCEPT ![f] = NoLocation]
  /\ DeviceTable_Tokens' = 0
  /\ DeviceTable_URI' = DeviceTable_URI \ {fetch[f]}
  /\ \/ Described(fetch[f])
     \/ /\ DeviceTable_UDN' \in {NoEntry, DeviceTable_UDN}
        /\ UNCHANGED <<bornVars, heap, SCPDLeft>>
  /\ UNCHANGED <<fetched, phase, SCPDError, ReferenceCount, ReferenceTiedToEvents,
                 timerVars, pending, hello, userVars, historyVars>>

(* DMRCP_FinishProcessingDevice                                             *)
Finish(d) ==
  /\ ReferenceCount' = [ReferenceCount EXCEPT ![d] = 2]
  /\ phase' = [phase EXCEPT ![d] = "listed"]
  /\ expiry' = [expiry EXCEPT ![d] = @ + 1]
  /\ UNCHANGED <<tableVars, heap, moving, renewals, due, pending, stray>>

(* A service description that failed, or is not well-formed, is remembered; *)
(* after the last one the device is destroyed.                              *)
SCPDDone(d) ==
  /\ Waiting /\ SCPDLeft[d] > 0
  /\ \/ /\ SCPDError' \in {SCPDError, SCPDError \cup {d}}
        /\ SCPDLeft' = [SCPDLeft EXCEPT ![d] = @ - 1]
        /\ IF SCPDLeft[d] = 1 THEN d \notin SCPDError' /\ Finish(d)
           ELSE UNCHANGED <<tableVars, heap, phase, ReferenceCount, timerVars, pending, stray>>
     \/ /\ SCPDLeft[d] = 1
        /\ ProcessDeviceRemoval(d, 0, expiry, moving, due)
        /\ heap' = heap \ {d} /\ UNCHANGED ReferenceCount
  /\ UNCHANGED <<fetched, bornVars, ReferenceTiedToEvents, hello, userVars, lost, torn, overdrawn>>
-----------------------------------------------------------------------------
(* Requests that refer to the device                                        *)

Settle(d, kind) ==
  /\ Waiting /\ pending[d][kind] > 0
  /\ pending' = [pending EXCEPT ![d][kind] = @ - 1]
  /\ UNCHANGED <<fetched, bornVars, hello, userVars, lost, overdrawn>>

RequestGone ==
  UNCHANGED <<tableVars, phase, scpdVars, timerVars, ReferenceTiedToEvents, stray, torn>>

(* The sink of any request that was answered, and DMRCP_OnSubscribeSink     *)
(* without a cycle to renew in, or without an answer.                       *)
Answered(d, kind) == Settle(d, kind) /\ Release(d, 1) /\ RequestGone

(* DMRCP_OnSubscribeSink: the timer has a reference of its own.             *)
Subscribed(d) ==
  /\ Settle(d, "subscribe")
  /\ renewals' = [renewals EXCEPT ![d] = @ + 1]
  /\ ReferenceTiedToEvents' = [ReferenceTiedToEvents EXCEPT ![d] = @ + 1]
  /\ UNCHANGED <<tableVars, phase, scpdVars, ReferenceCount, heap, expiry, moving, due, stray, torn>>

(* DMRCP_Renew: the request takes the reference of the timer over, if it    *)
(* still has one.                                                           *)
Renew(d) ==
  /\ Between
  /\ \/ /\ renewals[d] > 0 /\ UNCHANGED due
        /\ renewals' = [renewals EXCEPT ![d] = @ - 1]
     \/ /\ due[d].renewals > 0 /\ UNCHANGED renewals
        /\ due' = [due EXCEPT ![d].renewals = @ - 1]
  /\ pending' = [pending EXCEPT ![d]["subscribe"] = @ + 1]
  /\ ReferenceTiedToEvents' = [ReferenceTiedToEvents EXCEPT ![d] = Untied(@)]
  /\ UNCHANGED <<tableVars, fetched, bornVars, phase, scpdVars, ReferenceCount, heap,
                 expiry, moving, hello, userVars, historyVars>>

(* An invocation that was not answered destroys the device it finds in      *)
(* DeviceList whatever its count; the reference to another one is not       *)
(* given back.                                                              *)
InvokeFailed(d) ==
  /\ Waiting /\ pending[d]["invoke"] > 0
  /\ IF phase[d] = "listed"
     THEN /\ ProcessDeviceRemoval(d, pending[d]["invoke"] - 1, expiry, moving, due)
          /\ ReferenceCount' = [ReferenceCount EXCEPT ![d] = @ - Released(d) - 1]
          /\ heap' = heap \ {d} /\ torn' = torn \cup {d}
     ELSE /\ pending' = [pending EXCEPT ![d]["invoke"] = @ - 1]
          /\ stray' = [stray EXCEPT ![d] = @ + 1]
          /\ UNCHANGED <<tableVars, phase, scpdVars, ReferenceCount, heap, timerVars, torn>>
  /\ UNCHANGED <<fetched, bornVars, ReferenceTiedToEvents, hello, userVars, lost, overdrawn>>

Sink(d) ==
  \/ \E kind \in Kind : Answered(d, kind)
  \/ Subscribed(d) \/ InvokeFailed(d)
-----------------------------------------------------------------------------
(* The application uses devices it was handed and not told to have left, or *)
(* has a reference to.                                                      *)

Uses(d) == d \in heap /\ (phase[d] = "listed" \/ own[d] > 0)

AppVars == <<tableVars, fetched, bornVars, phase, scpdVars, ReferenceTiedToEvents,
             timerVars, hello, historyVars>>

TakeRef(d) ==
  /\ Uses(d) /\ calls < MaxCalls /\ calls' = calls + 1
  /\ AddRef(d) /\ own' = [own EXCEPT ![d] = @ + 1]
  /\ UNCHANGED <<AppVars, heap, pending, call>>

GiveBack(d) ==
  /\ own[d] > 0
  /\ own' = [own EXCEPT ![d] = @ - 1]
  /\ Release(d, 1)
  /\ UNCHANGED <<AppVars, pending, call, calls>>

StartCall(d, kind) ==
  /\ call = NoCall /\ Uses(d) /\ calls < MaxCalls /\ calls' = calls + 1
  /\ AddRef(d) /\ call' = <<d, kind>>
  /\ UNCHANGED <<AppVars, heap, pending, own>>

QueueRequest ==
  /\ call # NoCall /\ call' = NoCall
  /\ pending' = [pending EXCEPT ![call[1]][call[2]] = @ + 1]
  /\ UNCHANGED <<AppVars, ReferenceCount, heap, own, calls>>
-----------------------------------------------------------------------------
Application(d) ==
  TakeRef(d) \/ GiveBack(d) \/ \E kind \in Kind : StartCall(d, kind)

Next ==
  \/ (\E l \in Location : Announced(l)) \/ Gone \/ Hello \/ Unreachable
  \/ \E f \in Fetch : DescriptionDone(f)
  \/ \E d \in Device :
       \/ ExpiredDevice(d) \/ InterfaceChanged(d) \/ SCPDDone(d)
       \/ Sink(d) \/ Renew(d) \/ Application(d)
  \/ QueueRequest

Spec == Init /\ [][Next]_vars

(* Every request is answered or fails, timers fire, and an application that *)
(* was told that a device has left gives its references back.  A device does*)
(* not confirm renewals for ever after it has left.                         *)
InvokeDone(d) == Answered(d, "plain") \/ Answered(d, "invoke") \/ InvokeFailed(d)

Timer(d) == ExpiredDevice(d) \/ InterfaceChanged(d) \/ Renew(d)

FairSpec ==
  /\ Spec /\ WF_vars(QueueRequest) /\ WF_vars(Hello)
  /\ \A d \in Device :
       /\ WF_vars(InvokeDone(d)) /\ SF_vars(Answered(d, "subscribe")) /\ WF_vars(Renew(d))
       /\ WF_vars(phase[d] = "removed" /\ GiveBack(d))
       /\ WF_vars(due[d] # NothingDue /\ Timer(d))
-----------------------------------------------------------------------------
(* Every variable holds a value of its type.  The table names no device     *)
(* that has been freed.                                                     *)
TypeOK ==
  /\ DeviceTable_UDN \in {NoEntry, NoDevice} \cup heap
  /\ DeviceTable_URI \subseteq Location /\ DeviceTable_Tokens \in Fetch \cup {0}
  /\ fetch \in [Fetch -> Location \cup {NoLocation}] /\ fetched \in 0 .. MaxFetches
  /\ made \in 0 .. MaxDevices /\ heap \subseteq 1 .. made
  /\ phase \in [Device -> {"fresh", "listed", "removed"}]
  /\ LocationURL \in [Device -> Location \cup {NoLocation}]
  /\ SCPDLeft \in [Device -> 0 .. Services] /\ SCPDError \subseteq Device
  /\ ReferenceCount \in [Device -> Int] /\ ReferenceTiedToEvents \in [Device -> Int]
  /\ expiry \in [Device -> Nat] /\ renewals \in [Device -> Nat]
  /\ moving \in [Device -> Location \cup {NoLocation}]
  /\ due \in [Device -> [expiry : Nat, moving : Location \cup {NoLocation}, renewals : Nat]]
  /\ pending \in [Device -> [Kind -> Nat]] /\ hello \in Location \cup {NoLocation}
  /\ own \in [Device -> Nat] /\ call \in (Device \X Kind) \cup {NoCall}
  /\ calls \in 0 .. MaxCalls
  /\ stray \in [Device -> Nat] /\ lost \in [Device -> Int] /\ torn \subseteq Device
  /\ overdrawn \in [Device -> Nat]

Requests(d) == pending[d]["subscribe"] + pending[d]["invoke"] + pending[d]["plain"]
Holds(d) == own[d] + Requests(d) + IF call[1] = d THEN 1 ELSE 0

(* A device that the application knows counts one reference for the table,  *)
(* one for the application, one for each request, renewal timer and call,   *)
(* one for each the application took, and those nobody will give back.  It  *)
(* is freed when the last one goes and not before, and nobody holds one     *)
(* then.  No device that expires or moves is removed or freed.  There are   *)
(* two exceptions: an invocation tears a device down whatever its count, and*)
(* a removal by a timer releases the references of the renewals that were   *)
(* collected together with it, which still fire, so that such a device      *)
(* counts that many too few and is freed that many too early.               *)
ReferencesAccounted ==
  /\ \A d \in heap :
       /\ phase[d] # "removed" =>
            ReferenceTiedToEvents[d] = renewals[d] /\ due[d] = NothingDue /\ overdrawn[d] = 0
       /\ IF phase[d] = "fresh" THEN ReferenceCount[d] = 0 /\ Holds(d) + renewals[d] = 0
          ELSE /\ ReferenceCount[d] > 0
               /\ ReferenceCount[d] = (IF phase[d] = "listed" THEN 2 ELSE 0) + Holds(d)
                     + renewals[d] + due[d].renewals - overdrawn[d] + stray[d] + lost[d]
       /\ phase[d] = "removed" => expiry[d] = 0 /\ moving[d] = NoLocation
  /\ \A d \in Device \ heap :
       /\ expiry[d] = 0 /\ moving[d] = NoLocation /\ SCPDLeft[d] = 0
       /\ d \notin torn /\ overdrawn[d] = 0 =>
            Holds(d) = 0 /\ renewals[d] = 0 /\ due[d].renewals = 0

(* A device that was removed goes away in the end, unless its interface went*)
(* while references were tied to its events, or an invocation went          *)
(* unanswered that did not give its reference back.                         *)
RemovedGoAway ==
  \A d \in Device :
    phase[d] = "removed" ~> d \notin heap \/ stray[d] + lost[d] > 0
=============================================================================
