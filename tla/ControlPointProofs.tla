------------------------- MODULE ControlPointProofs -------------------------
(***************************************************************************)
(* Proofs about ControlPoint for any locations, services, devices, fetches *)
(* and calls.                                                              *)
(***************************************************************************)
EXTENDS ControlPoint, TLAPS

(* What the counts of one device rest on: who was not made yet has none, a  *)
(* device whose service descriptions are being fetched is fresh, what is    *)
(* listed is not freed, and only the removal of a device loses references   *)
(* tied to its events and leaves timers that were collected.                *)
DeviceInv(d) ==
  /\ d > made => phase[d] = "fresh" /\ ReferenceCount[d] = 0 /\ ReferenceTiedToEvents[d] = 0
  /\ lost[d] \in Nat
  /\ phase[d] # "removed" =>
       lost[d] = 0 /\ due[d] = NothingDue /\ overdrawn[d] = 0 /\ d \notin torn
  /\ phase[d] = "fresh" => stray[d] = 0
  /\ phase[d] = "listed" => d \in heap
  /\ SCPDLeft[d] > 0 => phase[d] = "fresh"

(* The timers that will renew a subscription, removed or not.               *)
Timed(d) == renewals[d] + due[d].renewals

(* A device freed before its references were all given back.                *)
Early(d) == d \in torn \/ overdrawn[d] > 0

(* ReferencesAccounted for one device.                                      *)
Accounted(d) ==
  IF d \in heap
  THEN /\ phase[d] # "removed" => ReferenceTiedToEvents[d] = renewals[d]
       /\ IF phase[d] = "fresh" THEN ReferenceCount[d] = 0 /\ Holds(d) + renewals[d] = 0
          ELSE /\ ReferenceCount[d] > 0
               /\ ReferenceCount[d] = (IF phase[d] = "listed" THEN 2 ELSE 0)
                     + Holds(d) + Timed(d) - overdrawn[d] + stray[d] + lost[d]
       /\ phase[d] = "removed" => expiry[d] = 0 /\ moving[d] = NoLocation
  ELSE /\ expiry[d] = 0 /\ moving[d] = NoLocation /\ SCPDLeft[d] = 0
       /\ ~Early(d) => Holds(d) = 0 /\ Timed(d) = 0

(* The table names no device that was removed.                              *)
EntryInv == \A d \in Device : DeviceTable_UDN = d => phase[d] # "removed"

IInv == TypeOK /\ EntryInv /\ \A d \in Device : DeviceInv(d) /\ Accounted(d)

Called(d) == IF call[1] = d THEN 1 ELSE 0

(* Numbers of one device.                                                   *)
LEMMA Numbers ==
  ASSUME TypeOK, NEW d \in Device
  PROVE  /\ \A kind \in Kind : pending[d][kind] \in Nat
         /\ pending[d]["subscribe"] \in Nat /\ pending[d]["invoke"] \in Nat
         /\ pending[d]["plain"] \in Nat
         /\ own[d] \in Nat /\ renewals[d] \in Nat /\ stray[d] \in Nat /\ expiry[d] \in Nat
         /\ ReferenceCount[d] \in Int /\ ReferenceTiedToEvents[d] \in Int
         /\ due[d].renewals \in Nat /\ overdrawn[d] \in Nat /\ Timed(d) \in Nat
         /\ Timed(d) = renewals[d] + due[d].renewals
         /\ Called(d) \in {0, 1} /\ SCPDLeft[d] \in 0 .. Services /\ Services \in Nat \ {0}
         /\ Requests(d) \in Nat /\ Holds(d) \in Nat
         /\ Requests(d) = pending[d]["subscribe"] + pending[d]["invoke"] + pending[d]["plain"]
         /\ Holds(d) = own[d] + Requests(d) + Called(d)
         /\ phase[d] \in {"fresh", "listed", "removed"}
<1>1. /\ pending[d] \in [Kind -> Nat] /\ own[d] \in Nat /\ renewals[d] \in Nat /\ stray[d] \in Nat
      /\ expiry[d] \in Nat /\ ReferenceCount[d] \in Int /\ ReferenceTiedToEvents[d] \in Int
      /\ SCPDLeft[d] \in 0 .. Services /\ phase[d] \in {"fresh", "listed", "removed"}
  BY DEF TypeOK
<1>2. /\ pending[d]["subscribe"] \in Nat /\ pending[d]["invoke"] \in Nat
      /\ pending[d]["plain"] \in Nat
  BY <1>1 DEF Kind
<1>3. Called(d) \in {0, 1}
  BY DEF Called
<1>4. Requests(d) \in Nat
      /\ Requests(d) = pending[d]["subscribe"] + pending[d]["invoke"] + pending[d]["plain"]
  BY <1>2 DEF Requests
<1>5. Holds(d) = own[d] + Requests(d) + Called(d)
  BY DEF Holds, Called
<1>6. due[d].renewals \in Nat /\ overdrawn[d] \in Nat
  BY DEF TypeOK
<1>7. Timed(d) = renewals[d] + due[d].renewals /\ Timed(d) \in Nat
  BY <1>1, <1>6 DEF Timed
<1> QED BY <1>1, <1>2, <1>3, <1>4, <1>5, <1>6, <1>7, ControlPointAssumption

(* ReferencesAccounted follows.                                             *)
LEMMA AccountedMeans ==
  ASSUME TypeOK, \A d \in Device : DeviceInv(d) /\ Accounted(d)
  PROVE  ReferencesAccounted
<1>1. heap \subseteq Device
  BY ControlPointAssumption DEF TypeOK, Device
<1>2. ASSUME NEW d \in heap
      PROVE  /\ phase[d] # "removed" =>
                  ReferenceTiedToEvents[d] = renewals[d] /\ due[d] = NothingDue /\ overdrawn[d] = 0
             /\ IF phase[d] = "fresh" THEN ReferenceCount[d] = 0 /\ Holds(d) + renewals[d] = 0
                ELSE /\ ReferenceCount[d] > 0
                     /\ ReferenceCount[d] = (IF phase[d] = "listed" THEN 2 ELSE 0) + Holds(d)
                           + renewals[d] + due[d].renewals - overdrawn[d] + stray[d] + lost[d]
             /\ phase[d] = "removed" => expiry[d] = 0 /\ moving[d] = NoLocation
  <2>1. DeviceInv(d) /\ Accounted(d) /\ d \in Device
    BY <1>1
  <2>2. phase[d] # "fresh" =>
          ReferenceCount[d] = (IF phase[d] = "listed" THEN 2 ELSE 0)
            + Holds(d) + Timed(d) - overdrawn[d] + stray[d] + lost[d]
    BY <2>1 DEF Accounted
  <2> DEFINE b == IF phase[d] = "listed" THEN 2 ELSE 0
             h == Holds(d)
             n == renewals[d]
             u == due[d].renewals
             v == overdrawn[d]
             x == stray[d]
             l == lost[d]
  <2>3. h \in Nat /\ n \in Nat /\ u \in Nat /\ v \in Nat /\ x \in Nat /\ l \in Nat /\ b \in {0, 2}
        /\ Timed(d) = n + u
    BY <2>1, Numbers DEF DeviceInv
  <2> HIDE DEF b, h, n, u, v, x, l
  <2>4. b + h + (n + u) - v + x + l = b + h + n + u - v + x + l
    BY <2>3
  <2>5. phase[d] # "fresh" => ReferenceCount[d] = b + h + n + u - v + x + l
    BY <2>2, <2>3, <2>4 DEF b, h, v, x, l
  <2> QED BY <2>1, <2>5 DEF DeviceInv, Accounted, b, h, n, u, v, x, l
<1>3. ASSUME NEW d \in Device \ heap
      PROVE  /\ expiry[d] = 0 /\ moving[d] = NoLocation /\ SCPDLeft[d] = 0
             /\ d \notin torn /\ overdrawn[d] = 0 =>
                  Holds(d) = 0 /\ renewals[d] = 0 /\ due[d].renewals = 0
  BY <1>3, Numbers DEF Accounted, Early
<1> QED BY <1>2, <1>3 DEF ReferencesAccounted

(* A step that leaves the counts of a device alone, its timers too, except  *)
(* that one that is in use may be set.                                      *)
Same(d) ==
  /\ phase'[d] = phase[d] /\ ReferenceCount'[d] = ReferenceCount[d]
  /\ ReferenceTiedToEvents'[d] = ReferenceTiedToEvents[d]
  /\ renewals'[d] = renewals[d] /\ pending'[d] = pending[d] /\ own'[d] = own[d]
  /\ stray'[d] = stray[d] /\ lost'[d] = lost[d] /\ SCPDLeft'[d] = SCPDLeft[d]
  /\ overdrawn'[d] = overdrawn[d] /\ due'[d].renewals = due[d].renewals
  /\ phase[d] # "removed" => due'[d] = due[d]
  /\ d \in heap' <=> d \in heap
  /\ d \in torn' <=> d \in torn
  /\ call'[1] = d <=> call[1] = d
  /\ d > made' => d > made

TimersKept(d) ==
  d \notin heap \/ phase[d] = "removed" =>
    expiry'[d] = expiry[d] /\ moving'[d] = moving[d]

LEMMA SameDevice ==
  ASSUME NEW d \in Device, DeviceInv(d), Accounted(d), Same(d), TimersKept(d)
  PROVE  DeviceInv(d)' /\ Accounted(d)'
<1>1. /\ Requests(d)' = Requests(d) /\ Holds(d)' = Holds(d) /\ Timed(d)' = Timed(d)
      /\ Early(d)' <=> Early(d)
  BY DEF Same, Requests, Holds, Timed, Early
<1>2. DeviceInv(d)'
  BY DEF Same, DeviceInv
<1>3. Accounted(d)'
  BY <1>1 DEF Same, TimersKept, Accounted
<1> QED BY <1>2, <1>3

-----------------------------------------------------------------------------
(* Removal                                                                  *)

Moves == [Device -> Location \cup {NoLocation}]
Expires == [Device -> Nat]
Dues == [Device -> [expiry : Nat, moving : Location \cup {NoLocation}, renewals : Nat]]

TableTypes ==
  /\ DeviceTable_URI \subseteq Location /\ DeviceTable_Tokens \in Fetch \cup {0}
  /\ fetch \in [Fetch -> Location \cup {NoLocation}]

TimerTypes ==
  expiry \in Expires /\ moving \in Moves /\ renewals \in [Device -> Nat] /\ due \in Dues

ScpdTypes == SCPDLeft \in [Device -> 0 .. Services] /\ SCPDError \subseteq Device

LEMMA Types ==
  TypeOK => TableTypes /\ TimerTypes /\ ScpdTypes /\ made \in 0 .. MaxDevices
            /\ made \in Nat /\ heap \subseteq 1 .. made /\ heap \subseteq Device
            /\ (\A d \in heap : ~(d > made))
<1> SUFFICES ASSUME TypeOK
             PROVE  TableTypes /\ TimerTypes /\ ScpdTypes /\ made \in 0 .. MaxDevices
                    /\ made \in Nat /\ heap \subseteq 1 .. made /\ heap \subseteq Device
                    /\ (\A d \in heap : ~(d > made))
  OBVIOUS
<1>1. TableTypes /\ TimerTypes /\ ScpdTypes /\ made \in 0 .. MaxDevices /\ heap \subseteq 1 .. made
  BY DEF TypeOK, TableTypes, TimerTypes, ScpdTypes, Moves, Expires, Dues
<1>2. made \in Nat /\ made <= MaxDevices /\ MaxDevices \in Nat
  BY <1>1, ControlPointAssumption
<1>3. 1 .. made \subseteq Device
  BY <1>2 DEF Device
<1>4. \A d \in heap : ~(d > made)
  BY <1>1, <1>2
<1> QED BY <1>1, <1>2, <1>3, <1>4

LEMMA RemovalEffect ==
  ASSUME TypeOK, NEW d \in Device, NEW invocations \in Nat,
         NEW expires \in Expires, NEW moves \in Moves, NEW dues \in Dues,
         ProcessDeviceRemoval(d, invocations, expires, moves, dues)
  PROVE  /\ TableTypes' /\ TimerTypes' /\ ScpdTypes' /\ DeviceTable_UDN' = NoEntry
         /\ pending' \in [Device -> [Kind -> Nat]] /\ stray' \in [Device -> Nat]
         /\ phase' \in [Device -> {"fresh", "listed", "removed"}]
         /\ phase'[d] = "removed" /\ expiry'[d] = 0 /\ moving'[d] = NoLocation /\ renewals'[d] = 0
         /\ pending'[d] = NoRequests /\ stray'[d] = stray[d] + invocations /\ SCPDLeft'[d] = 0
         /\ due' = dues
         /\ \A e \in Device \ {d} :
              /\ phase'[e] = phase[e] /\ renewals'[e] = renewals[e] /\ pending'[e] = pending[e]
              /\ stray'[e] = stray[e] /\ SCPDLeft'[e] = SCPDLeft[e]
              /\ expiry'[e] = expires[e] /\ moving'[e] = moves[e]
<1>1. /\ expiry' = [expires EXCEPT ![d] = 0] /\ moving' = [moves EXCEPT ![d] = NoLocation]
      /\ renewals' = [renewals EXCEPT ![d] = 0] /\ pending' = [pending EXCEPT ![d] = NoRequests]
      /\ stray' = [stray EXCEPT ![d] = @ + invocations]
      /\ SCPDLeft' = [SCPDLeft EXCEPT ![d] = 0] /\ phase' = [phase EXCEPT ![d] = "removed"]
      /\ SCPDError' \in {SCPDError, SCPDError \cup {d}} /\ due' = dues
  BY DEF ProcessDeviceRemoval
<1>2. /\ fetch' = [f \in Fetch |-> IF f \in Here(d) THEN NoLocation ELSE fetch[f]]
      /\ DeviceTable_Tokens' \in {DeviceTable_Tokens, 0}
      /\ DeviceTable_URI' \subseteq DeviceTable_URI /\ DeviceTable_UDN' = NoEntry
  BY DEF ProcessDeviceRemoval, EntryDeleted
<1>3. TableTypes'
  BY <1>2, Types DEF TableTypes
<1>4. TimerTypes'
  BY <1>1, Types DEF TimerTypes, Expires, Moves
<1>5. ScpdTypes'
  <2>1. 0 \in 0 .. Services
    BY ControlPointAssumption
  <2> QED BY <2>1, <1>1, Types DEF ScpdTypes
<1>6. pending' \in [Device -> [Kind -> Nat]]
  <2>1. NoRequests \in [Kind -> Nat]
    BY DEF NoRequests
  <2> QED BY <2>1, <1>1 DEF TypeOK
<1>7. stray' \in [Device -> Nat] /\ stray'[d] = stray[d] + invocations
  BY <1>1 DEF TypeOK
<1>8. phase' \in [Device -> {"fresh", "listed", "removed"}]
  BY <1>1 DEF TypeOK
<1>9. /\ phase'[d] = "removed" /\ expiry'[d] = 0 /\ moving'[d] = NoLocation /\ renewals'[d] = 0
      /\ pending'[d] = NoRequests /\ SCPDLeft'[d] = 0
  BY <1>1 DEF TypeOK, Expires, Moves
<1>10. \A e \in Device \ {d} :
         /\ phase'[e] = phase[e] /\ renewals'[e] = renewals[e] /\ pending'[e] = pending[e]
         /\ stray'[e] = stray[e] /\ SCPDLeft'[e] = SCPDLeft[e]
         /\ expiry'[e] = expires[e] /\ moving'[e] = moves[e]
  BY <1>1 DEF TypeOK, Expires, Moves
<1> QED BY <1>1, <1>2, <1>3, <1>4, <1>5, <1>6, <1>7, <1>8, <1>9, <1>10

(* A device without timers and requests.                                    *)
LEMMA RemovedDevice ==
  ASSUME TypeOK, NEW d \in heap, UNCHANGED <<made, own, call>>,
         phase'[d] = "removed", expiry'[d] = 0, moving'[d] = NoLocation, renewals'[d] = 0,
         pending'[d] = NoRequests, SCPDLeft'[d] = 0, lost'[d] \in Nat,
         d \in heap' => /\ ReferenceCount'[d] > 0
                       /\ ReferenceCount'[d] = own[d] + Called(d) + stray'[d] + lost'[d],
         d \notin heap' => d \in torn' \/ own[d] + Called(d) = 0,
         stray'[d] \in Nat, overdrawn'[d] \in Nat, due'[d].renewals = overdrawn'[d]
  PROVE  DeviceInv(d)' /\ Accounted(d)'
<1>1. d \in Device /\ ~(d > made)
  BY Types
<1>2. Requests(d)' = 0
  BY DEF Requests, NoRequests, Kind
<1>3. Holds(d)' = own[d] + Called(d) /\ own[d] + Called(d) \in Nat
  BY <1>1, <1>2, Numbers DEF Holds, Called
<1>4. DeviceInv(d)'
  BY <1>1 DEF DeviceInv
<1>5. Timed(d)' = overdrawn'[d]
  BY DEF Timed
<1>6. CASE d \in heap'
  <2> DEFINE h == own[d] + Called(d)
             v == overdrawn'[d]
             x == stray'[d]
             l == lost'[d]
  <2>1. h \in Nat /\ v \in Nat /\ x \in Nat /\ l \in Nat
        /\ ReferenceCount'[d] > 0 /\ ReferenceCount'[d] = h + x + l
    BY <1>3, <1>6
  <2> HIDE DEF h, v, x, l
  <2>2. h + x + l = 0 + h + v - v + x + l
    BY <2>1
  <2>3. ReferenceCount'[d] = 0 + Holds(d)' + Timed(d)' - overdrawn'[d] + stray'[d] + lost'[d]
    BY <2>1, <2>2, <1>3, <1>5 DEF h, v, x, l
  <2>4. ReferenceCount'[d] = (IF phase'[d] = "listed" THEN 2 ELSE 0)
          + Holds(d)' + Timed(d)' - overdrawn'[d] + stray'[d] + lost'[d]
    BY <2>3
  <2>5. ReferenceCount'[d] > 0 /\ phase'[d] # "fresh" /\ phase'[d] = "removed"
    BY <1>6
  <2> QED BY <2>4, <2>5, <1>4, <1>6 DEF Accounted
<1>7. CASE d \notin heap'
  <2>1. ~Early(d)' => d \notin torn' /\ overdrawn'[d] = 0
    BY DEF Early
  <2>2. ~Early(d)' => Holds(d)' = 0 /\ Timed(d)' = 0
    BY <2>1, <1>3, <1>5, <1>7
  <2> QED BY <2>2, <1>4, <1>7 DEF Accounted
<1> QED BY <1>4, <1>6, <1>7

(* What the table has is in the heap and was not removed.                   *)
LEMMA EntryFacts ==
  ASSUME IInv, DeviceTable_UDN \in Device
  PROVE  LET d == DeviceTable_UDN
         IN d \in heap /\ phase[d] \in {"fresh", "listed"} /\ DeviceInv(d) /\ Accounted(d)
<1>1. DeviceTable_UDN \in heap
  BY DEF IInv, TypeOK, Device, NoEntry, NoDevice
<1>2. phase[DeviceTable_UDN] \in {"fresh", "listed"}
  BY Numbers DEF IInv, EntryInv
<1> QED BY <1>1, <1>2 DEF IInv

(* The sum that the count of a listed device is.                            *)
LEMMA ListedCount ==
  ASSUME IInv, NEW d \in heap, phase[d] = "listed"
  PROVE  /\ ReferenceTiedToEvents[d] = renewals[d] /\ lost[d] = 0 /\ SCPDLeft[d] = 0
         /\ due[d] = NothingDue /\ overdrawn[d] = 0
         /\ ReferenceCount[d] = 2 + own[d] + Called(d) + pending[d]["subscribe"]
              + pending[d]["invoke"] + pending[d]["plain"] + renewals[d] + stray[d]
<1>1. d \in Device /\ DeviceInv(d) /\ Accounted(d)
  BY Types DEF IInv
<1>2. /\ ReferenceTiedToEvents[d] = renewals[d] /\ lost[d] = 0 /\ SCPDLeft[d] = 0
      /\ due[d] = NothingDue /\ overdrawn[d] = 0
      /\ ReferenceCount[d] = 2 + Holds(d) + Timed(d) - overdrawn[d] + stray[d] + lost[d]
  BY <1>1, Numbers DEF DeviceInv, Accounted, IInv
<1>5. Timed(d) = renewals[d]
  BY <1>1, <1>2, Numbers DEF IInv, NothingDue
<1> DEFINE r == ReferenceCount[d]
           h == Holds(d)
           q == Requests(d)
           o == own[d]
           c == Called(d)
           s == pending[d]["subscribe"]
           i == pending[d]["invoke"]
           p == pending[d]["plain"]
           n == renewals[d]
           x == stray[d]
<1>3. /\ r = 2 + h + n - 0 + x + 0 /\ h = o + q + c /\ q = s + i + p
      /\ o \in Nat /\ c \in {0, 1} /\ s \in Nat /\ i \in Nat /\ p \in Nat /\ n \in Nat /\ x \in Nat
  BY <1>1, <1>2, <1>5, Numbers DEF IInv
<1> HIDE DEF r, h, q, o, c, s, i, p, n, x
<1>4. r = 2 + o + c + s + i + p + n + x
  BY <1>3
<1> QED BY <1>2, <1>4 DEF r, o, c, s, i, p, n, x

(* Nothing refers to a fresh device.                                        *)
LEMMA FreshCount ==
  ASSUME IInv, NEW d \in heap, phase[d] = "fresh"
  PROVE  /\ ReferenceCount[d] = 0 /\ ReferenceTiedToEvents[d] = 0 /\ lost[d] = 0 /\ stray[d] = 0
         /\ due[d] = NothingDue /\ overdrawn[d] = 0
         /\ own[d] = 0 /\ Called(d) = 0 /\ renewals[d] = 0 /\ Requests(d) = 0 /\ Holds(d) = 0
         /\ pending[d]["subscribe"] = 0 /\ pending[d]["invoke"] = 0 /\ pending[d]["plain"] = 0
<1>1. d \in Device /\ DeviceInv(d) /\ Accounted(d)
  BY Types DEF IInv
<1>2. /\ ReferenceTiedToEvents[d] = renewals[d] /\ lost[d] = 0 /\ stray[d] = 0
      /\ due[d] = NothingDue /\ overdrawn[d] = 0
      /\ ReferenceCount[d] = 0 /\ Holds(d) + renewals[d] = 0
  BY <1>1 DEF DeviceInv, Accounted
<1>3. Holds(d) = 0 /\ renewals[d] = 0
  BY <1>1, <1>2, Numbers DEF IInv
<1>4. own[d] = 0 /\ Requests(d) = 0 /\ Called(d) = 0
  BY <1>1, <1>3, Numbers DEF IInv
<1>5. pending[d]["subscribe"] = 0 /\ pending[d]["invoke"] = 0 /\ pending[d]["plain"] = 0
  <2> DEFINE s == pending[d]["subscribe"]
             i == pending[d]["invoke"]
             p == pending[d]["plain"]
  <2>1. s \in Nat /\ i \in Nat /\ p \in Nat /\ s + i + p = 0
    BY <1>1, <1>4, Numbers DEF IInv
  <2> HIDE DEF s, i, p
  <2>2. s = 0 /\ i = 0 /\ p = 0
    BY <2>1
  <2> QED BY <2>2 DEF s, i, p
<1> QED BY <1>2, <1>3, <1>4, <1>5

(* Types of what a byebye does not change.                                  *)
KeptTypes ==
  /\ fetched \in 0 .. MaxFetches /\ LocationURL \in [Device -> Location \cup {NoLocation}]
  /\ ReferenceTiedToEvents \in [Device -> Int]
  /\ own \in [Device -> Nat] /\ call \in (Device \X Kind) \cup {NoCall}
  /\ calls \in 0 .. MaxCalls

LEMMA Assembled ==
  ASSUME KeptTypes', TableTypes', TimerTypes', ScpdTypes', made' \in 0 .. MaxDevices,
         heap' \subseteq 1 .. made', DeviceTable_UDN' \in {NoEntry, NoDevice} \cup heap',
         phase' \in [Device -> {"fresh", "listed", "removed"}],
         ReferenceCount' \in [Device -> Int], pending' \in [Device -> [Kind -> Nat]],
         stray' \in [Device -> Nat], lost' \in [Device -> Int], torn' \subseteq Device,
         overdrawn' \in [Device -> Nat], hello' \in Location \cup {NoLocation}
  PROVE  TypeOK'
BY DEF KeptTypes, TableTypes, TimerTypes, ScpdTypes, Expires, Moves, Dues, TypeOK

(* The device in the table goes with the references tied to its events.     *)
LEMMA RemoveDeviceKeeps ==
  ASSUME IInv, NEW expires \in Expires, NEW moves \in Moves, NEW dues \in Dues,
         NEW inCheck \in BOOLEAN,
         \A e \in Device : e \notin heap \/ phase[e] = "removed" =>
           expires[e] = expiry[e] /\ moves[e] = moving[e],
         \A e \in Device :
           /\ dues[e].renewals = due[e].renewals
           /\ phase[e] # "removed" => dues[e] = due[e],
         RemoveDevice(expires, moves, dues, inCheck), hello' \in Location \cup {NoLocation},
         UNCHANGED <<fetched, bornVars, ReferenceTiedToEvents, userVars, lost, torn>>
  PROVE  IInv'
<1>1. PICK d \in Device : d = DeviceTable_UDN
  BY DEF RemoveDevice
<1>12. PICK c \in IF inCheck THEN Collected(expires[d], moves[d], renewals[d]) ELSE {NothingDue} :
        /\ ProcessDeviceRemoval(d, pending[d]["invoke"], expires, moves, [dues EXCEPT ![d] = c])
        /\ Release(d, Released(d) + TiedTo(d) + 1)
        /\ overdrawn' = [overdrawn EXCEPT ![d] = @ + c.renewals]
  BY <1>1 DEF RemoveDevice
<1>13. c \in [expiry : Nat, moving : Location \cup {NoLocation}, renewals : Nat]
  <2>1. expires[d] \in Nat /\ moves[d] \in Location \cup {NoLocation} /\ renewals[d] \in Nat
    BY DEF Expires, Moves, IInv, TypeOK
  <2> QED BY <1>12, <2>1 DEF Collected, NothingDue
<1>2. d \in heap /\ phase[d] \in {"fresh", "listed"} /\ TypeOK
  BY <1>1, EntryFacts DEF IInv
<1>3. /\ UNCHANGED <<fetched, made, LocationURL, ReferenceTiedToEvents, own, call, calls, lost, torn>>
      /\ KeptTypes'
  BY <1>2 DEF bornVars, userVars, KeptTypes, TypeOK
<1>4. /\ TableTypes' /\ TimerTypes' /\ ScpdTypes' /\ DeviceTable_UDN' = NoEntry
      /\ pending' \in [Device -> [Kind -> Nat]] /\ stray' \in [Device -> Nat]
      /\ phase' \in [Device -> {"fresh", "listed", "removed"}]
      /\ phase'[d] = "removed" /\ expiry'[d] = 0 /\ moving'[d] = NoLocation /\ renewals'[d] = 0
      /\ pending'[d] = NoRequests /\ SCPDLeft'[d] = 0
      /\ stray'[d] = stray[d] + pending[d]["invoke"]
      /\ \A e \in Device \ {d} :
           /\ phase'[e] = phase[e] /\ renewals'[e] = renewals[e] /\ pending'[e] = pending[e]
           /\ stray'[e] = stray[e] /\ SCPDLeft'[e] = SCPDLeft[e]
           /\ expiry'[e] = expires[e] /\ moving'[e] = moves[e]
      /\ due' = [dues EXCEPT ![d] = c]
  <2>1. [dues EXCEPT ![d] = c] \in Dues
    BY <1>13 DEF Dues
  <2> QED BY <2>1, <1>1, <1>2, <1>12, Numbers, RemovalEffect
<1>14. /\ overdrawn' \in [Device -> Nat] /\ overdrawn'[d] = c.renewals
       /\ due'[d].renewals = c.renewals
       /\ \A e \in Device \ {d} : overdrawn'[e] = overdrawn[e] /\ due'[e] = dues[e]
  <2>1. overdrawn[d] = 0
    BY <1>2, ListedCount, FreshCount
  <2> QED BY <2>1, <1>2, <1>4, <1>12, <1>13 DEF TypeOK, Dues
<1>5. /\ ReferenceCount' = [ReferenceCount EXCEPT ![d] = @ - (Released(d) + TiedTo(d) + 1)]
      /\ heap' = IF ReferenceCount'[d] <= 0 THEN heap \ {d} ELSE heap
  BY <1>12 DEF Release
<1>6. Released(d) + TiedTo(d) + 1 \in Int
  BY <1>1, <1>2, Numbers DEF Released, TiedTo
<1>7. /\ ReferenceCount' \in [Device -> Int]
      /\ ReferenceCount'[d] = ReferenceCount[d] - (Released(d) + TiedTo(d) + 1)
      /\ \A e \in Device \ {d} : ReferenceCount'[e] = ReferenceCount[e]
  <2> DEFINE k == Released(d) + TiedTo(d) + 1
  <2>1. k \in Int /\ ReferenceCount' = [ReferenceCount EXCEPT ![d] = @ - k]
    BY <1>5, <1>6
  <2> HIDE DEF k
  <2>2. /\ ReferenceCount' \in [Device -> Int] /\ ReferenceCount'[d] = ReferenceCount[d] - k
        /\ \A e \in Device \ {d} : ReferenceCount'[e] = ReferenceCount[e]
    BY <2>1, <1>1, <1>2 DEF TypeOK
  <2> QED BY <2>2 DEF k
<1>8. TypeOK'
  <2>1. heap' \subseteq 1 .. made' /\ made' \in 0 .. MaxDevices
    BY <1>2, <1>3, <1>5, Types
  <2>2. lost' \in [Device -> Int] /\ torn' \subseteq Device
    BY <1>2, <1>3 DEF TypeOK
  <2> QED BY <2>1, <2>2, <1>3, <1>4, <1>7, <1>14, Assembled
<1>9. EntryInv'
  BY <1>4 DEF EntryInv, NoEntry, Device
<1>10. ASSUME NEW e \in Device, e # d PROVE DeviceInv(e)' /\ Accounted(e)'
  <2>1. DeviceInv(e) /\ Accounted(e)
    BY DEF IInv
  <2>2. Same(e) /\ TimersKept(e)
    BY <1>3, <1>4, <1>5, <1>7, <1>10, <1>14 DEF Same, TimersKept
  <2> QED BY <2>1, <2>2, SameDevice
<1>11. DeviceInv(d)' /\ Accounted(d)'
  <2>4. overdrawn'[d] \in Nat /\ due'[d].renewals = overdrawn'[d]
    BY <1>14
  <2>1. lost[d] = 0 /\ lost'[d] = 0
    BY <1>2, <1>3, ListedCount, FreshCount
  <2>2. CASE phase[d] = "fresh"
    <3>1. ReferenceCount'[d] = -1 /\ own[d] = 0 /\ Called(d) = 0
      BY <2>2, <1>2, <1>7, FreshCount DEF Released, TiedTo
    <3>2. d \notin heap' /\ own[d] + Called(d) = 0
      BY <3>1, <1>5
    <3> QED BY <2>1, <2>4, <3>2, <1>1, <1>2, <1>3, <1>4, RemovedDevice DEF TypeOK
  <2>3. CASE phase[d] = "listed"
    <3> DEFINE r == ReferenceCount[d]
               o == own[d]
               k == Called(d)
               s == pending[d]["subscribe"]
               i == pending[d]["invoke"]
               p == pending[d]["plain"]
               n == renewals[d]
               x == stray[d]
    <3>1. r = 2 + o + k + s + i + p + n + x /\ ReferenceTiedToEvents[d] = n
      BY <2>3, <1>2, ListedCount
    <3>2. o \in Nat /\ k \in {0, 1} /\ s \in Nat /\ i \in Nat /\ p \in Nat /\ n \in Nat /\ x \in Nat
      BY <1>1, <1>2, Numbers
    <3>3. Released(d) = s + p + 1 /\ TiedTo(d) = n
      BY <2>3, <3>1 DEF Released, TiedTo
    <3>4. stray'[d] = x + i
      BY <1>4
    <3>5. ReferenceCount'[d] = r - ((s + p + 1) + n + 1)
      BY <3>3, <1>7
    <3> HIDE DEF r, o, k, s, i, p, n, x
    <3>6. ReferenceCount'[d] = o + k + stray'[d] + lost'[d]
      BY <3>1, <3>2, <3>4, <3>5, <2>1
    <3>7. /\ d \in heap' => ReferenceCount'[d] > 0
          /\ d \notin heap' => o + k = 0
      BY <3>2, <3>4, <3>6, <2>1, <1>2, <1>5
    <3>8. stray'[d] \in Nat
      BY <1>1, <1>4
    <3> QED BY <3>6, <3>7, <3>8, <2>1, <2>4, <1>1, <1>2, <1>3, <1>4, RemovedDevice DEF o, k
  <2> QED BY <2>2, <2>3, <1>2
<1> QED BY <1>8, <1>9, <1>10, <1>11 DEF IInv

LEMMA ByebyeKeeps ==
  ASSUME IInv, NEW expires \in Expires, NEW moves \in Moves, NEW dues \in Dues,
         NEW inCheck \in BOOLEAN,
         \A e \in Device : e \notin heap \/ phase[e] = "removed" =>
           expires[e] = expiry[e] /\ moves[e] = moving[e],
         \A e \in Device :
           /\ dues[e].renewals = due[e].renewals
           /\ phase[e] # "removed" => dues[e] = due[e],
         Byebye(expires, moves, dues, inCheck), hello' \in Location \cup {NoLocation}
  PROVE  IInv'
<1>1. UNCHANGED <<fetched, bornVars, ReferenceTiedToEvents, userVars, lost, torn>>
  BY DEF Byebye
<1>2. CASE RemoveDevice(expires, moves, dues, inCheck)
  BY <1>1, <1>2, RemoveDeviceKeeps
<1>3. CASE ~RemoveDevice(expires, moves, dues, inCheck)
  <2>1. /\ DeviceTable_Tokens' \in {0, DeviceTable_Tokens}
        /\ DeviceTable_UDN' \in {NoEntry, DeviceTable_UDN}
        /\ expiry' = expires /\ moving' = moves /\ due' = dues
        /\ UNCHANGED <<renewals, pending, stray, SCPDLeft, SCPDError, fetch, DeviceTable_URI,
                       phase, ReferenceCount, heap, overdrawn>>
    BY <1>3 DEF Byebye, CancelFetch, scpdVars
  <2>2. UNCHANGED <<fetched, made, LocationURL, ReferenceTiedToEvents, own, call, calls, lost, torn>>
    BY <1>1 DEF bornVars, userVars
  <2>3. TypeOK'
    BY <2>1, <2>2 DEF IInv, TypeOK, Expires, Moves, Dues
  <2>4. EntryInv'
    BY <2>1 DEF IInv, EntryInv, NoEntry, Device
  <2>5. ASSUME NEW e \in Device PROVE DeviceInv(e)' /\ Accounted(e)'
    <3>1. Same(e) /\ TimersKept(e)
      BY <2>1, <2>2 DEF Same, TimersKept
    <3> QED BY <3>1, SameDevice DEF IInv
  <2> QED BY <2>3, <2>4, <2>5 DEF IInv
<1> QED BY <1>2, <1>3

LEMMA GoneKeeps == ASSUME IInv, Gone PROVE IInv'
<1>1. expiry \in Expires /\ moving \in Moves /\ hello' \in Location \cup {NoLocation}
      /\ due \in Dues /\ Byebye(expiry, moving, due, FALSE)
  BY Types DEF IInv, TimerTypes, Gone, TypeOK
<1> QED BY <1>1, ByebyeKeeps

(* A timer of a device not removed, or one that was collected.              *)
LEMMA ExpiredKeeps == ASSUME IInv, NEW d \in Device, ExpiredDevice(d) PROVE IInv'
<1>1. expiry \in Expires /\ moving \in Moves /\ due \in Dues
      /\ hello' \in Location \cup {NoLocation}
  BY Types DEF IInv, TimerTypes, ExpiredDevice, TypeOK
<1>2. CASE expiry[d] > 0 /\ Byebye([expiry EXCEPT ![d] = @ - 1], moving, due, TRUE)
  <2> DEFINE expires == [expiry EXCEPT ![d] = @ - 1]
  <2>1. expires \in Expires /\ \A e \in Device : e # d => expires[e] = expiry[e]
    BY <1>1, <1>2 DEF Expires
  <2>2. d \in heap /\ phase[d] # "removed"
    BY <1>2 DEF IInv, Accounted
  <2>3. Byebye(expires, moving, due, TRUE)
    BY <1>2
  <2> HIDE DEF expires
  <2> QED BY <1>1, <2>1, <2>2, <2>3, ByebyeKeeps
<1>3. CASE due[d].expiry > 0 /\ Byebye(expiry, moving, [due EXCEPT ![d].expiry = @ - 1], TRUE)
  <2> DEFINE dues == [due EXCEPT ![d].expiry = @ - 1]
  <2>1. dues \in Dues /\ dues[d].renewals = due[d].renewals
        /\ \A e \in Device : e # d => dues[e] = due[e]
    BY <1>1, <1>3 DEF Dues
  <2>2. phase[d] = "removed"
    BY <1>3 DEF IInv, DeviceInv, NothingDue
  <2>3. Byebye(expiry, moving, dues, TRUE)
    BY <1>3
  <2> HIDE DEF dues
  <2>4. \A e \in Device :
          dues[e].renewals = due[e].renewals /\ (phase[e] # "removed" => dues[e] = due[e])
    BY <2>1, <2>2
  <2> QED BY <1>1, <2>1, <2>3, <2>4, ByebyeKeeps
<1> QED BY <1>2, <1>3 DEF ExpiredDevice

LEMMA InterfaceChangedKeeps == ASSUME IInv, NEW d \in Device, InterfaceChanged(d) PROVE IInv'
<1>1. expiry \in Expires /\ moving \in Moves /\ due \in Dues
  BY Types DEF IInv, TimerTypes
<1>2. CASE /\ moving[d] # NoLocation /\ hello' = moving[d]
           /\ Byebye(expiry, [moving EXCEPT ![d] = NoLocation], due, TRUE)
  <2> DEFINE moves == [moving EXCEPT ![d] = NoLocation]
  <2>1. moves \in Moves /\ \A e \in Device : e # d => moves[e] = moving[e]
    BY <1>1 DEF Moves
  <2>2. d \in heap /\ phase[d] # "removed"
    BY <1>2 DEF IInv, Accounted
  <2>3. Byebye(expiry, moves, due, TRUE) /\ hello' \in Location \cup {NoLocation}
    BY <1>1, <1>2 DEF Moves
  <2> HIDE DEF moves
  <2>4. \A e \in Device : e \notin heap \/ phase[e] = "removed" => moves[e] = moving[e]
    BY <2>1, <2>2
  <2> QED BY <1>1, <2>3, <2>1, <2>4, ByebyeKeeps
<1>3. CASE /\ due[d].moving # NoLocation /\ hello' = due[d].moving
           /\ Byebye(expiry, moving, [due EXCEPT ![d].moving = NoLocation], TRUE)
  <2> DEFINE dues == [due EXCEPT ![d].moving = NoLocation]
  <2>1. dues \in Dues /\ dues[d].renewals = due[d].renewals
        /\ \A e \in Device : e # d => dues[e] = due[e]
    BY <1>1 DEF Dues
  <2>2. phase[d] = "removed"
    BY <1>3 DEF IInv, DeviceInv, NothingDue
  <2>3. Byebye(expiry, moving, dues, TRUE) /\ hello' \in Location \cup {NoLocation}
    BY <1>1, <1>3 DEF Dues
  <2> HIDE DEF dues
  <2>4. \A e \in Device :
          dues[e].renewals = due[e].renewals /\ (phase[e] # "removed" => dues[e] = due[e])
    BY <2>1, <2>2
  <2> QED BY <1>1, <2>1, <2>3, <2>4, ByebyeKeeps
<1> QED BY <1>2, <1>3 DEF InterfaceChanged

LEMMA AliveKeeps ==
  ASSUME IInv, NEW l \in Location, Alive(l), hello' \in Location \cup {NoLocation},
         UNCHANGED <<bornVars, phase, scpdVars, countVars, pending, userVars, historyVars>>
  PROVE  IInv'
<1>1. UNCHANGED <<made, LocationURL, phase, SCPDLeft, SCPDError, ReferenceCount,
                  ReferenceTiedToEvents, heap, pending, own, call, calls, stray, lost, torn,
                  overdrawn>>
  BY DEF bornVars, scpdVars, countVars, userVars, historyVars
<1>2. TypeOK /\ TableTypes /\ TimerTypes /\ fetched \in 0 .. MaxFetches /\ MaxFetches \in Nat
  BY Types, ControlPointAssumption DEF IInv, TypeOK
<1>3. /\ TableTypes' /\ TimerTypes' /\ fetched' \in 0 .. MaxFetches
      /\ DeviceTable_UDN' \in {NoDevice, DeviceTable_UDN} /\ renewals' = renewals /\ due' = due
      /\ \A e \in Device : TimersKept(e)
  <2>1. CASE New(l)
    <3>1. fetched + 1 \in Fetch /\ fetched + 1 \in 0 .. MaxFetches
      BY <2>1, <1>2 DEF New, Fetch
    <3>2. TableTypes' /\ fetched' \in 0 .. MaxFetches
      BY <2>1, <3>1, <1>2 DEF New, TableTypes
    <3>3. UNCHANGED <<expiry, moving, renewals, due>> /\ DeviceTable_UDN' = NoDevice
      BY <2>1 DEF New, timerVars
    <3> QED BY <3>2, <3>3, <1>2 DEF TimerTypes, TimersKept
  <2>2. CASE Known(l)
    <3>1. PICK d \in Device : d = DeviceTable_UDN
      BY <2>2 DEF Known
    <3>2. d \in heap /\ phase[d] # "removed"
      BY <3>1, EntryFacts
    <3>3. /\ UNCHANGED <<DeviceTable_UDN, DeviceTable_URI, DeviceTable_Tokens, fetch, fetched, renewals,
                         due>>
          /\ expiry' = [expiry EXCEPT ![d] = IF l = LocationURL[d] THEN 1 ELSE 0]
          /\ moving' = [moving EXCEPT ![d] = IF l = LocationURL[d] THEN NoLocation ELSE l]
      BY <2>2, <3>1 DEF Known, tableVars
    <3>4. TimerTypes'
      BY <3>3, <1>2 DEF TimerTypes, Expires, Moves
    <3>5. \A e \in Device : TimersKept(e)
      BY <3>2, <3>3, <1>2 DEF TimersKept, TimerTypes, Expires, Moves
    <3> QED BY <3>3, <3>4, <3>5, <1>2 DEF TableTypes
  <2> QED BY <2>1, <2>2 DEF Alive
<1>4. TypeOK'
  BY <1>1, <1>2, <1>3 DEF TypeOK, TableTypes, TimerTypes, Expires, Moves, Dues
<1>5. EntryInv'
  BY <1>1, <1>3 DEF IInv, EntryInv, NoDevice, Device
<1>6. ASSUME NEW e \in Device PROVE DeviceInv(e)' /\ Accounted(e)'
  <2>1. Same(e)
    BY <1>1, <1>3 DEF Same
  <2> QED BY <2>1, <1>3, SameDevice DEF IInv
<1> QED BY <1>4, <1>5, <1>6 DEF IInv

LEMMA HelloKeeps == ASSUME IInv, Hello PROVE IInv'
<1>1. hello \in Location /\ hello' \in Location \cup {NoLocation}
  BY DEF Hello, Between, IInv, TypeOK
<1>2. CASE Alive(hello)
  BY <1>1, <1>2, AliveKeeps DEF Hello
<1>3. CASE ~Alive(hello)
  <2>1. UNCHANGED <<tableVars, fetched, timerVars, bornVars, phase, scpdVars, countVars, pending,
                    userVars, historyVars>>
    BY <1>3 DEF Hello
  <2>2. UNCHANGED <<DeviceTable_UDN, DeviceTable_URI, DeviceTable_Tokens, fetch, fetched, made,
                    LocationURL, phase, SCPDLeft, SCPDError, ReferenceCount, ReferenceTiedToEvents,
                    heap, expiry, moving, renewals, due, pending, own, call, calls, stray, lost,
                    torn, overdrawn>>
    BY <2>1 DEF tableVars, timerVars, bornVars, scpdVars, countVars, userVars, historyVars
  <2>3. TypeOK' /\ EntryInv'
    BY <1>1, <2>2 DEF IInv, TypeOK, EntryInv
  <2>4. ASSUME NEW e \in Device PROVE DeviceInv(e)' /\ Accounted(e)'
    <3>1. Same(e) /\ TimersKept(e)
      BY <2>2 DEF Same, TimersKept
    <3> QED BY <3>1, SameDevice DEF IInv
  <2> QED BY <2>3, <2>4 DEF IInv
<1> QED BY <1>2, <1>3

(* The references tied to events are lost, and accounted as such.           *)
LEMMA UnreachableKeeps == ASSUME IInv, Unreachable PROVE IInv'
<1>1. PICK d \in Device :
        /\ d = DeviceTable_UDN
        /\ ProcessDeviceRemoval(d, pending[d]["invoke"], expiry, moving, due)
        /\ Release(d, Released(d) + 1)
        /\ lost' = [lost EXCEPT ![d] = ReferenceTiedToEvents[d]]
  BY DEF Unreachable
<1>2. d \in heap /\ phase[d] \in {"fresh", "listed"} /\ TypeOK
  BY <1>1, EntryFacts DEF IInv
<1>3. /\ UNCHANGED <<fetched, made, LocationURL, ReferenceTiedToEvents, own, call, calls, torn, hello,
                     overdrawn>>
      /\ KeptTypes'
  BY <1>2 DEF Unreachable, bornVars, userVars, KeptTypes, TypeOK
<1>4. /\ TableTypes' /\ TimerTypes' /\ ScpdTypes' /\ DeviceTable_UDN' = NoEntry
      /\ pending' \in [Device -> [Kind -> Nat]] /\ stray' \in [Device -> Nat]
      /\ phase' \in [Device -> {"fresh", "listed", "removed"}]
      /\ phase'[d] = "removed" /\ expiry'[d] = 0 /\ moving'[d] = NoLocation /\ renewals'[d] = 0
      /\ pending'[d] = NoRequests /\ SCPDLeft'[d] = 0
      /\ stray'[d] = stray[d] + pending[d]["invoke"]
      /\ \A e \in Device \ {d} :
           /\ phase'[e] = phase[e] /\ renewals'[e] = renewals[e] /\ pending'[e] = pending[e]
           /\ stray'[e] = stray[e] /\ SCPDLeft'[e] = SCPDLeft[e]
           /\ expiry'[e] = expiry[e] /\ moving'[e] = moving[e]
      /\ due' = due
  BY <1>1, <1>2, Numbers, Types, RemovalEffect DEF TimerTypes
<1>5. /\ ReferenceCount' = [ReferenceCount EXCEPT ![d] = @ - (Released(d) + 1)]
      /\ heap' = IF ReferenceCount'[d] <= 0 THEN heap \ {d} ELSE heap
  BY <1>1 DEF Release
<1>6. Released(d) + 1 \in Int
  BY <1>2, Numbers DEF Released
<1>7. /\ ReferenceCount' \in [Device -> Int]
      /\ ReferenceCount'[d] = ReferenceCount[d] - (Released(d) + 1)
      /\ \A e \in Device \ {d} : ReferenceCount'[e] = ReferenceCount[e]
  <2> DEFINE k == Released(d) + 1
  <2>1. k \in Int /\ ReferenceCount' = [ReferenceCount EXCEPT ![d] = @ - k]
    BY <1>5, <1>6
  <2> HIDE DEF k
  <2>2. /\ ReferenceCount' \in [Device -> Int] /\ ReferenceCount'[d] = ReferenceCount[d] - k
        /\ \A e \in Device \ {d} : ReferenceCount'[e] = ReferenceCount[e]
    BY <2>1, <1>1, <1>2 DEF TypeOK
  <2> QED BY <2>2 DEF k
<1>8. /\ lost' \in [Device -> Int] /\ lost'[d] = ReferenceTiedToEvents[d]
      /\ \A e \in Device \ {d} : lost'[e] = lost[e]
  BY <1>1, <1>2 DEF TypeOK
<1>9. TypeOK'
  <2>1. heap' \subseteq 1 .. made' /\ made' \in 0 .. MaxDevices
    BY <1>2, <1>3, <1>5, Types
  <2>2. torn' \subseteq Device /\ hello' \in Location \cup {NoLocation}
        /\ overdrawn' \in [Device -> Nat]
    BY <1>2, <1>3 DEF TypeOK
  <2> QED BY <2>1, <2>2, <1>3, <1>4, <1>7, <1>8, Assembled
<1>10. EntryInv'
  BY <1>4 DEF EntryInv, NoEntry, Device
<1>11. ASSUME NEW e \in Device, e # d PROVE DeviceInv(e)' /\ Accounted(e)'
  <2>1. DeviceInv(e) /\ Accounted(e)
    BY DEF IInv
  <2>2. Same(e) /\ TimersKept(e)
    BY <1>3, <1>4, <1>5, <1>7, <1>8, <1>11 DEF Same, TimersKept
  <2> QED BY <2>1, <2>2, SameDevice
<1>12. DeviceInv(d)' /\ Accounted(d)'
  <2>3. overdrawn'[d] \in Nat /\ due'[d].renewals = overdrawn'[d]
    BY <1>2, <1>3, <1>4, ListedCount, FreshCount DEF NothingDue
  <2>1. CASE phase[d] = "fresh"
    <3>1. ReferenceCount'[d] = -1 /\ own[d] = 0 /\ Called(d) = 0 /\ lost'[d] = 0
      BY <2>1, <1>2, <1>7, <1>8, FreshCount DEF Released
    <3>2. d \notin heap' /\ own[d] + Called(d) = 0
      BY <3>1, <1>5
    <3> QED BY <3>1, <3>2, <2>3, <1>1, <1>2, <1>3, <1>4, RemovedDevice
  <2>2. CASE phase[d] = "listed"
    <3> DEFINE r == ReferenceCount[d]
               o == own[d]
               c == Called(d)
               s == pending[d]["subscribe"]
               i == pending[d]["invoke"]
               p == pending[d]["plain"]
               n == renewals[d]
               x == stray[d]
    <3>1. r = 2 + o + c + s + i + p + n + x /\ ReferenceTiedToEvents[d] = n
      BY <2>2, <1>2, ListedCount
    <3>2. o \in Nat /\ c \in {0, 1} /\ s \in Nat /\ i \in Nat /\ p \in Nat /\ n \in Nat /\ x \in Nat
      BY <1>2, Numbers
    <3>3. Released(d) = s + p + 1
      BY <2>2 DEF Released
    <3>4. stray'[d] = x + i /\ lost'[d] = n
      BY <3>1, <1>4, <1>8
    <3>5. ReferenceCount'[d] = r - ((s + p + 1) + 1)
      BY <3>3, <1>7
    <3> HIDE DEF r, o, c, s, i, p, n, x
    <3>6. ReferenceCount'[d] = o + c + stray'[d] + lost'[d]
      BY <3>1, <3>2, <3>4, <3>5
    <3>7. /\ d \in heap' => ReferenceCount'[d] > 0
          /\ d \notin heap' => o + c = 0
      BY <3>2, <3>4, <3>6, <1>2, <1>5
    <3>8. lost'[d] \in Nat
      BY <3>2, <3>4
    <3> QED BY <3>6, <3>7, <3>8, <2>3, <1>1, <1>2, <1>3, <1>4, RemovedDevice DEF o, c
  <2> QED BY <2>1, <2>2, <1>2
<1> QED BY <1>9, <1>10, <1>11, <1>12 DEF IInv
-----------------------------------------------------------------------------
(* Discovery                                                                *)

(* The new device has no references yet.                                    *)
LEMMA DescriptionDoneKeeps == ASSUME IInv, NEW f \in Fetch, DescriptionDone(f) PROVE IInv'
<1>1. /\ fetch' = [fetch EXCEPT ![f] = NoLocation] /\ DeviceTable_Tokens' = 0
      /\ DeviceTable_URI' = DeviceTable_URI \ {fetch[f]} /\ fetch[f] # NoLocation
      /\ UNCHANGED <<fetched, phase, SCPDError, ReferenceCount, ReferenceTiedToEvents,
                     expiry, moving, renewals, due, pending, hello, own, call, calls, stray, lost, torn,
                     overdrawn>>
  BY DEF DescriptionDone, timerVars, userVars, historyVars
<1>2. TypeOK /\ TableTypes'
  BY <1>1, Types DEF IInv, TableTypes
<1>3. CASE Described(fetch[f])
  <2>1. PICK d \in Device :
          /\ d = made + 1 /\ d > made /\ made' = d /\ heap' = heap \cup {d}
          /\ LocationURL' = [LocationURL EXCEPT ![d] = fetch[f]]
          /\ SCPDLeft' = [SCPDLeft EXCEPT ![d] = Services]
          /\ DeviceTable_UDN' = d
    <3>1. made + 1 \in Device /\ made + 1 > made
      BY <1>2, <1>3, Types, ControlPointAssumption DEF Described, Device
    <3> QED BY <3>1, <1>3 DEF Described
  <2>2. made' \in 0 .. MaxDevices /\ heap' \subseteq 1 .. made'
    BY <2>1, <1>2, Types DEF Device
  <2>3. /\ LocationURL' \in [Device -> Location \cup {NoLocation}]
        /\ SCPDLeft' \in [Device -> 0 .. Services]
    BY <2>1, <1>1, <1>2, ControlPointAssumption DEF TypeOK
  <2>4. TypeOK'
    BY <2>1, <2>2, <2>3, <1>1, <1>2 DEF TypeOK, TableTypes
  <2>5. d \notin heap /\ DeviceInv(d) /\ Accounted(d)
    BY <2>1, <1>2, Types DEF IInv
  <2>6. phase[d] = "fresh" /\ d \notin torn /\ stray[d] = 0 /\ lost[d] = 0
        /\ ReferenceCount[d] = 0 /\ ReferenceTiedToEvents[d] = 0 /\ renewals[d] = 0 /\ Holds(d) = 0
        /\ due[d] = NothingDue /\ overdrawn[d] = 0
    <3>1. /\ phase[d] = "fresh" /\ d \notin torn /\ stray[d] = 0 /\ lost[d] = 0
          /\ ReferenceCount[d] = 0 /\ ReferenceTiedToEvents[d] = 0
          /\ due[d] = NothingDue /\ overdrawn[d] = 0
      BY <2>1, <2>5 DEF DeviceInv
    <3>2. Holds(d) = 0 /\ Timed(d) = 0
      BY <2>5, <3>1 DEF Accounted, Early
    <3> QED BY <3>1, <3>2, <1>2, Numbers
  <2>7. EntryInv'
    BY <2>1, <2>6, <1>1 DEF EntryInv
  <2>8. Holds(d)' = Holds(d) /\ Requests(d)' = Requests(d)
    BY <1>1 DEF Holds, Requests
  <2>9. DeviceInv(d)' /\ Accounted(d)'
    BY <2>1, <2>6, <2>8, <1>1 DEF DeviceInv, Accounted
  <2>10. ASSUME NEW e \in Device, e # d PROVE DeviceInv(e)' /\ Accounted(e)'
    <3>1. e > made' => e > made
      BY <2>1, <1>2, Types DEF Device
    <3>2. Same(e) /\ TimersKept(e)
      BY <2>1, <2>10, <3>1, <1>1, <1>2 DEF Same, TimersKept, TypeOK
    <3> QED BY <3>2, SameDevice DEF IInv
  <2> QED BY <2>4, <2>7, <2>9, <2>10 DEF IInv
<1>4. CASE ~Described(fetch[f])
  <2>1. UNCHANGED <<made, LocationURL, heap, SCPDLeft>> /\ DeviceTable_UDN' \in {NoEntry, DeviceTable_UDN}
    BY <1>4 DEF DescriptionDone, bornVars
  <2>2. TypeOK'
    BY <2>1, <1>1, <1>2 DEF TypeOK, TableTypes
  <2>3. EntryInv'
    BY <2>1, <1>1 DEF IInv, EntryInv, NoEntry, Device
  <2>4. ASSUME NEW e \in Device PROVE DeviceInv(e)' /\ Accounted(e)'
    <3>1. Same(e) /\ TimersKept(e)
      BY <2>1, <1>1 DEF Same, TimersKept
    <3> QED BY <3>1, SameDevice DEF IInv
  <2> QED BY <2>2, <2>3, <2>4 DEF IInv
<1> QED BY <1>3, <1>4

LEMMA ScpdDoneKeeps == ASSUME IInv, NEW d \in Device, SCPDDone(d) PROVE IInv'
<1>1. /\ SCPDLeft[d] > 0
      /\ UNCHANGED <<fetched, made, LocationURL, ReferenceTiedToEvents, hello, own, call, calls, lost,
                     torn, overdrawn>>
  BY DEF SCPDDone, bornVars, userVars
<1>2. TypeOK /\ d \in heap /\ phase[d] = "fresh" /\ DeviceInv(d) /\ Accounted(d)
  <2>1. SCPDLeft[d] \in Nat /\ DeviceInv(d) /\ Accounted(d) /\ TypeOK
    BY Numbers, ControlPointAssumption DEF IInv
  <2> QED BY <2>1, <1>1 DEF DeviceInv, Accounted
<1>3. SCPDLeft[d] \in 1 .. Services /\ SCPDLeft[d] - 1 \in 0 .. Services
  BY <1>1, <1>2, Numbers
<1>4. /\ ReferenceCount[d] = 0 /\ ReferenceTiedToEvents[d] = 0 /\ lost[d] = 0 /\ stray[d] = 0
      /\ own[d] = 0 /\ Called(d) = 0 /\ renewals[d] = 0 /\ Requests(d) = 0 /\ Holds(d) = 0
      /\ due[d] = NothingDue /\ overdrawn[d] = 0
  BY <1>2, FreshCount
<1>5. CASE /\ SCPDError' \in {SCPDError, SCPDError \cup {d}}
           /\ SCPDLeft' = [SCPDLeft EXCEPT ![d] = @ - 1] /\ SCPDLeft[d] # 1
           /\ UNCHANGED <<tableVars, heap, phase, ReferenceCount, timerVars, pending, stray>>
  <2>1. UNCHANGED <<DeviceTable_UDN, DeviceTable_URI, DeviceTable_Tokens, fetch, heap, phase,
                    ReferenceCount, expiry, moving, renewals, due, pending, stray>>
    BY <1>5 DEF tableVars, timerVars
  <2>2. TypeOK' /\ EntryInv'
    BY <2>1, <1>1, <1>2, <1>3, <1>5 DEF IInv, TypeOK, EntryInv
  <2>3. Holds(d)' = Holds(d) /\ Timed(d)' = Timed(d)
    BY <2>1, <1>1 DEF Holds, Requests, Timed
  <2>4. DeviceInv(d)' /\ Accounted(d)'
    BY <2>1, <2>3, <1>1, <1>2 DEF DeviceInv, Accounted
  <2>5. ASSUME NEW e \in Device, e # d PROVE DeviceInv(e)' /\ Accounted(e)'
    <3>1. Same(e) /\ TimersKept(e)
      BY <2>1, <2>5, <1>1, <1>2, <1>5 DEF Same, TimersKept, TypeOK
    <3> QED BY <3>1, SameDevice DEF IInv
  <2> QED BY <2>2, <2>4, <2>5 DEF IInv
<1>6. CASE /\ SCPDError' \in {SCPDError, SCPDError \cup {d}}
           /\ SCPDLeft' = [SCPDLeft EXCEPT ![d] = @ - 1] /\ SCPDLeft[d] = 1 /\ Finish(d)
  <2>1. /\ ReferenceCount' = [ReferenceCount EXCEPT ![d] = 2]
        /\ phase' = [phase EXCEPT ![d] = "listed"] /\ expiry' = [expiry EXCEPT ![d] = @ + 1]
        /\ UNCHANGED <<DeviceTable_UDN, DeviceTable_URI, DeviceTable_Tokens, fetch, heap, moving,
                       renewals, due, pending, stray>>
    BY <1>6 DEF Finish, tableVars
  <2>2. TypeOK'
    <3>1. ReferenceCount' \in [Device -> Int] /\ expiry' \in [Device -> Nat]
          /\ phase' \in [Device -> {"fresh", "listed", "removed"}]
          /\ SCPDLeft' \in [Device -> 0 .. Services] /\ SCPDError' \subseteq Device
      BY <2>1, <1>2, <1>3, <1>6 DEF TypeOK
    <3> QED BY <3>1, <2>1, <1>1, <1>2 DEF TypeOK
  <2>3. EntryInv'
    BY <2>1, <1>2 DEF IInv, EntryInv, TypeOK
  <2>4. Holds(d)' = 0 /\ Timed(d)' = 0
    BY <2>1, <1>1, <1>4 DEF Holds, Requests, Timed, NothingDue
  <2>5. phase'[d] = "listed" /\ ReferenceCount'[d] = 2 /\ SCPDLeft'[d] = 0
    BY <2>1, <1>2, <1>6 DEF TypeOK
  <2>6. DeviceInv(d)' /\ Accounted(d)'
    BY <2>1, <2>4, <2>5, <1>1, <1>2, <1>4, Types DEF DeviceInv, Accounted
  <2>7. ASSUME NEW e \in Device, e # d PROVE DeviceInv(e)' /\ Accounted(e)'
    <3>1. Same(e) /\ TimersKept(e)
      BY <2>1, <2>7, <1>1, <1>2, <1>6 DEF Same, TimersKept, TypeOK
    <3> QED BY <3>1, SameDevice DEF IInv
  <2> QED BY <2>2, <2>3, <2>6, <2>7 DEF IInv
<1>7. CASE /\ ProcessDeviceRemoval(d, 0, expiry, moving, due)
           /\ heap' = heap \ {d} /\ UNCHANGED ReferenceCount
  <2>1. /\ TableTypes' /\ TimerTypes' /\ ScpdTypes' /\ DeviceTable_UDN' = NoEntry
        /\ pending' \in [Device -> [Kind -> Nat]] /\ stray' \in [Device -> Nat]
        /\ phase' \in [Device -> {"fresh", "listed", "removed"}]
        /\ phase'[d] = "removed" /\ expiry'[d] = 0 /\ moving'[d] = NoLocation /\ renewals'[d] = 0
        /\ pending'[d] = NoRequests /\ SCPDLeft'[d] = 0
        /\ \A e \in Device \ {d} :
             /\ phase'[e] = phase[e] /\ renewals'[e] = renewals[e] /\ pending'[e] = pending[e]
             /\ stray'[e] = stray[e] /\ SCPDLeft'[e] = SCPDLeft[e]
             /\ expiry'[e] = expiry[e] /\ moving'[e] = moving[e]
        /\ due' = due
    BY <1>2, <1>7, Types, RemovalEffect DEF TimerTypes
  <2>2. TypeOK'
    <3>1. heap' \subseteq 1 .. made' /\ made' \in 0 .. MaxDevices /\ KeptTypes'
      BY <1>1, <1>2, <1>7, Types DEF KeptTypes, TypeOK
    <3>2. ReferenceCount' \in [Device -> Int] /\ lost' \in [Device -> Int] /\ torn' \subseteq Device
          /\ hello' \in Location \cup {NoLocation} /\ overdrawn' \in [Device -> Nat]
      BY <1>1, <1>2, <1>7 DEF TypeOK
    <3> QED BY <3>1, <3>2, <2>1, Assembled
  <2>3. EntryInv'
    BY <2>1 DEF EntryInv, NoEntry, Device
  <2>4. lost'[d] \in Nat /\ own[d] + Called(d) = 0 /\ stray'[d] \in Nat /\ d \notin heap'
        /\ overdrawn'[d] \in Nat /\ due'[d].renewals = overdrawn'[d]
    BY <2>1, <1>1, <1>4, <1>7 DEF NothingDue
  <2>5. DeviceInv(d)' /\ Accounted(d)'
    BY <2>1, <2>4, <1>1, <1>2, RemovedDevice
  <2>6. ASSUME NEW e \in Device, e # d PROVE DeviceInv(e)' /\ Accounted(e)'
    <3>1. Same(e) /\ TimersKept(e)
      BY <2>1, <2>6, <1>1, <1>7 DEF Same, TimersKept
    <3> QED BY <3>1, SameDevice DEF IInv
  <2> QED BY <2>2, <2>3, <2>5, <2>6 DEF IInv
<1>8. \/ SCPDLeft[d] = 1 /\ ProcessDeviceRemoval(d, 0, expiry, moving, due)
         /\ heap' = heap \ {d} /\ UNCHANGED ReferenceCount
      \/ /\ SCPDError' \in {SCPDError, SCPDError \cup {d}}
         /\ SCPDLeft' = [SCPDLeft EXCEPT ![d] = @ - 1]
         /\ IF SCPDLeft[d] = 1 THEN d \notin SCPDError' /\ Finish(d)
            ELSE UNCHANGED <<tableVars, heap, phase, ReferenceCount, timerVars, pending, stray>>
  BY DEF SCPDDone
<1> QED BY <1>5, <1>6, <1>7, <1>8

-----------------------------------------------------------------------------
(* Requests, renewals and the application                                   *)

(* The counts of d change together, by k; it is freed if the last goes.     *)
(* What was freed early is not counted any more.                            *)
LEMMA CountStep ==
  ASSUME IInv, NEW d \in Device, d \in heap \/ Early(d), phase[d] # "fresh", NEW k \in Int,
         phase'[d] = phase[d], SCPDLeft'[d] = SCPDLeft[d], lost'[d] = lost[d], made' = made,
         expiry'[d] = expiry[d], moving'[d] = moving[d],
         overdrawn'[d] = overdrawn[d], d \in torn' <=> d \in torn,
         phase[d] # "removed" => due'[d] = due[d],
         ReferenceCount'[d] = ReferenceCount[d] + k,
         Holds(d)' + Timed(d)' + stray'[d] = Holds(d) + Timed(d) + stray[d] + k,
         phase[d] # "removed" => ReferenceTiedToEvents'[d] = renewals'[d],
         own'[d] \in Nat, Requests(d)' \in Nat, Timed(d)' \in Nat, stray'[d] \in Nat,
         d \in heap => (d \in heap' <=> ReferenceCount'[d] > 0),
         d \notin heap => d \notin heap'
  PROVE  /\ DeviceInv(d)' /\ Accounted(d)'
         /\ phase[d] = "listed" => ReferenceCount'[d] > 0
<1>1. /\ TypeOK /\ DeviceInv(d) /\ Accounted(d) /\ made \in Nat /\ ~(d > made)
      /\ phase[d] \in {"listed", "removed"}
  BY Types, Numbers DEF IInv, DeviceInv
<1>2. SCPDLeft'[d] = 0
  BY <1>1, Numbers DEF DeviceInv
<1>3. phase[d] = "removed" => expiry'[d] = 0 /\ moving'[d] = NoLocation
  BY <1>1 DEF Accounted
<1>4. CASE d \in heap
  <2> DEFINE b == IF phase[d] = "listed" THEN 2 ELSE 0
             r == ReferenceCount[d]
             h == Holds(d)
             n == Timed(d)
             v == overdrawn[d]
             x == stray[d]
             l == lost[d]
             h2 == Holds(d)'
             n2 == Timed(d)'
             x2 == stray'[d]
  <2>1. /\ r = b + h + n - v + x + l /\ l \in Nat /\ b \in {0, 2} /\ (b = 2 <=> phase[d] = "listed")
        /\ h \in Nat /\ n \in Nat /\ x \in Nat /\ v \in Nat /\ (b = 2 => v = 0)
    BY <1>1, <1>4, Numbers DEF Accounted, DeviceInv
  <2>2. h2 \in Nat
    <3>1. Called(d)' \in {0, 1} /\ h2 = own'[d] + Requests(d)' + Called(d)'
      BY DEF Called, Holds
    <3> QED BY <3>1
  <2>3. ReferenceCount'[d] = r + k /\ h2 + n2 + x2 = h + n + x + k /\ n2 \in Nat /\ x2 \in Nat
    OBVIOUS
  <2> HIDE DEF b, r, h, n, v, x, l, h2, n2, x2
  <2>4. ReferenceCount'[d] = b + h2 + n2 - v + x2 + l
    BY <2>1, <2>2, <2>3
  <2>5. phase[d] = "listed" => ReferenceCount'[d] > 0
    BY <2>1, <2>2, <2>3, <2>4
  <2>6. ReferenceCount'[d] = (IF phase'[d] = "listed" THEN 2 ELSE 0)
          + Holds(d)' + Timed(d)' - overdrawn'[d] + stray'[d] + lost'[d]
    BY <2>4 DEF b, h2, n2, v, x2, l
  <2>7. phase[d] = "listed" => d \in heap'
    BY <2>5, <1>4
  <2>8. DeviceInv(d)'
    BY <2>7, <1>1, <1>2 DEF DeviceInv
  <2>9. CASE d \in heap'
    <3>1. ReferenceCount'[d] > 0 /\ phase'[d] # "fresh"
      BY <2>9, <1>4
    <3> QED BY <3>1, <2>5, <2>6, <2>8, <2>9, <1>3 DEF Accounted
  <2>10. CASE d \notin heap'
    <3>1. phase[d] = "removed"
      BY <2>7, <2>10, <1>1
    <3>2. ~(ReferenceCount'[d] > 0) /\ b = 0
      BY <3>1, <2>1, <2>10, <1>4
    <3>3. overdrawn'[d] = 0 => h2 = 0 /\ n2 = 0
      <4> SUFFICES ASSUME v = 0 PROVE h2 = 0 /\ n2 = 0
        BY DEF v
      <4> QED BY <3>2, <2>1, <2>2, <2>3, <2>4
    <3>4. ~Early(d)' => Holds(d)' = 0 /\ Timed(d)' = 0
      <4>1. overdrawn'[d] \in Nat
        BY <2>1 DEF v
      <4> QED BY <4>1, <3>3 DEF Early, h2, n2
    <3> QED BY <3>1, <3>4, <2>5, <2>8, <2>10, <1>2, <1>3 DEF Accounted
  <2> QED BY <2>9, <2>10
<1>5. CASE d \notin heap
  <2>1. phase[d] = "removed" /\ Early(d)' /\ d \notin heap'
    BY <1>1, <1>5 DEF DeviceInv, Early
  <2>2. DeviceInv(d)'
    BY <2>1, <1>1, <1>2 DEF DeviceInv
  <2> QED BY <2>1, <2>2, <1>2, <1>3 DEF Accounted
<1> QED BY <1>4, <1>5

(* Who has requests, timers of renewals, references of the application or a *)
(* call is known to the application, and in the heap unless it was freed    *)
(* early.                                                                   *)
LEMMA InUse ==
  ASSUME IInv, NEW d \in Device,
         \/ \E kind \in Kind : pending[d][kind] > 0
         \/ renewals[d] > 0 \/ due[d].renewals > 0 \/ own[d] > 0 \/ Called(d) > 0
  PROVE  (d \in heap \/ Early(d)) /\ phase[d] # "fresh"
<1>1. TypeOK /\ DeviceInv(d) /\ Accounted(d)
  BY DEF IInv
<1>2. (\E kind \in Kind : pending[d][kind] > 0) => Requests(d) > 0
  <2> SUFFICES ASSUME NEW kind \in Kind, pending[d][kind] > 0 PROVE Requests(d) > 0
    OBVIOUS
  <2> DEFINE s == pending[d]["subscribe"]
             i == pending[d]["invoke"]
             p == pending[d]["plain"]
  <2>1. s \in Nat /\ i \in Nat /\ p \in Nat /\ Requests(d) = s + i + p /\ (s > 0 \/ i > 0 \/ p > 0)
    BY <1>1, Numbers DEF Kind
  <2> HIDE DEF s, i, p
  <2> QED BY <2>1
<1>3. Holds(d) # 0 \/ Timed(d) # 0
  <2> DEFINE o == own[d]
             q == Requests(d)
             c == Called(d)
             n == renewals[d]
             u == due[d].renewals
  <2>1. /\ o \in Nat /\ q \in Nat /\ c \in {0, 1} /\ n \in Nat /\ u \in Nat
        /\ Holds(d) = o + q + c /\ Timed(d) = n + u
        /\ q > 0 \/ n > 0 \/ u > 0 \/ o > 0 \/ c > 0
    BY <1>1, <1>2, Numbers
  <2> HIDE DEF o, q, c, n, u
  <2> QED BY <2>1
<1>4. d \in heap \/ Early(d)
  BY <1>1, <1>3 DEF Accounted
<1>5. ASSUME phase[d] = "fresh" PROVE FALSE
  <2>1. d \in heap
    BY <1>1, <1>4, <1>5 DEF DeviceInv, Early
  <2>2. Holds(d) = 0 /\ renewals[d] = 0 /\ due[d].renewals = 0
    BY <2>1, <1>5, FreshCount DEF NothingDue
  <2> QED BY <2>2, <1>1, <1>3, Numbers
<1> QED BY <1>4, <1>5

(* One request more or less.                                                *)
LEMMA RequestEffect ==
  ASSUME TypeOK, NEW d \in Device, NEW kind \in Kind, NEW k \in {-1, 1},
         pending[d][kind] + k >= 0,
         pending' = [pending EXCEPT ![d][kind] = @ + k]
  PROVE  /\ pending' \in [Device -> [Kind -> Nat]]
         /\ Requests(d)' = Requests(d) + k /\ Requests(d)' \in Nat
         /\ \A e \in Device \ {d} : pending'[e] = pending[e]
<1>1. pending[d] \in [Kind -> Nat] /\ pending[d][kind] + k \in Nat
  BY DEF TypeOK
<1>2. pending'[d] = [pending[d] EXCEPT ![kind] = @ + k]
  BY DEF TypeOK
<1>3. \A e \in Device \ {d} : pending'[e] = pending[e]
  BY DEF TypeOK
<1>4. pending'[d] \in [Kind -> Nat]
  BY <1>1, <1>2
<1>5. pending' \in [Device -> [Kind -> Nat]]
  BY <1>1, <1>2, <1>4 DEF TypeOK
<1>6. Requests(d)' = Requests(d) + k
  <2>1. /\ pending'[d][kind] = pending[d][kind] + k
        /\ \A other \in Kind : other # kind => pending'[d][other] = pending[d][other]
    BY <1>1, <1>2
  <2> DEFINE s == pending[d]["subscribe"]
             i == pending[d]["invoke"]
             p == pending[d]["plain"]
             s2 == pending'[d]["subscribe"]
             i2 == pending'[d]["invoke"]
             p2 == pending'[d]["plain"]
  <2>2. s \in Nat /\ i \in Nat /\ p \in Nat /\ Requests(d) = s + i + p
    BY Numbers
  <2>3. Requests(d)' = s2 + i2 + p2
    BY DEF Requests
  <2>4. \/ s2 = s + k /\ i2 = i /\ p2 = p
        \/ s2 = s /\ i2 = i + k /\ p2 = p
        \/ s2 = s /\ i2 = i /\ p2 = p + k
    <3>1. CASE kind = "subscribe"
      BY <3>1, <2>1 DEF Kind
    <3>2. CASE kind = "invoke"
      BY <3>2, <2>1 DEF Kind
    <3>3. CASE kind = "plain"
      BY <3>3, <2>1 DEF Kind
    <3> QED BY <3>1, <3>2, <3>3 DEF Kind
  <2> HIDE DEF s, i, p, s2, i2, p2
  <2>5. s2 + i2 + p2 = s + i + p + k
    BY <2>2, <2>4
  <2> QED BY <2>2, <2>3, <2>5
<1>7. Requests(d)' \in Nat
  <2>1. pending'[d]["subscribe"] \in Nat /\ pending'[d]["invoke"] \in Nat /\ pending'[d]["plain"] \in Nat
    BY <1>4 DEF Kind
  <2> QED BY <2>1 DEF Requests
<1> QED BY <1>3, <1>5, <1>6, <1>7

(* A step of one device that changes its requests, its timers of renewals   *)
(* and its references.                                                      *)
LEMMA UserStep ==
  ASSUME IInv, NEW d \in Device, d \in heap \/ Early(d), phase[d] # "fresh", NEW k \in {-1, 0, 1},
         UNCHANGED <<tableVars, fetched, bornVars, phase, scpdVars, expiry, moving, hello,
                     lost, torn, overdrawn>>,
         ReferenceCount' = [ReferenceCount EXCEPT ![d] = @ + k],
         heap' = IF ReferenceCount'[d] <= 0 THEN heap \ {d} ELSE heap,
         pending' \in [Device -> [Kind -> Nat]], renewals' \in [Device -> Nat], due' \in Dues,
         stray' \in [Device -> Nat], own' \in [Device -> Nat], calls' \in 0 .. MaxCalls,
         call' \in (Device \X Kind) \cup {NoCall}, ReferenceTiedToEvents' \in [Device -> Int],
         \A e \in Device \ {d} :
           /\ pending'[e] = pending[e] /\ renewals'[e] = renewals[e] /\ stray'[e] = stray[e]
           /\ own'[e] = own[e] /\ ReferenceTiedToEvents'[e] = ReferenceTiedToEvents[e]
           /\ call'[1] = e <=> call[1] = e
           /\ due'[e] = due[e],
         phase[d] # "removed" => due'[d] = due[d],
         Requests(d)' \in Nat,
         Holds(d)' + Timed(d)' + stray'[d] = Holds(d) + Timed(d) + stray[d] + k,
         phase[d] # "removed" => ReferenceTiedToEvents'[d] = renewals'[d]
  PROVE  IInv'
<1>1. TypeOK /\ k \in Int
  BY DEF IInv
<1>2. UNCHANGED <<DeviceTable_UDN, DeviceTable_URI, DeviceTable_Tokens, fetch, fetched, made,
                  LocationURL, phase, SCPDLeft, SCPDError, expiry, moving, hello, lost, torn,
                  overdrawn>>
  BY DEF tableVars, bornVars, scpdVars
<1>3. /\ ReferenceCount' \in [Device -> Int] /\ ReferenceCount'[d] = ReferenceCount[d] + k
      /\ \A e \in Device \ {d} : ReferenceCount'[e] = ReferenceCount[e]
  BY <1>1 DEF TypeOK
<1>4. /\ d \in heap => (d \in heap' <=> ReferenceCount'[d] > 0)
      /\ d \notin heap => d \notin heap'
  BY <1>1, <1>3
<1>5. /\ DeviceInv(d)' /\ Accounted(d)'
      /\ phase[d] = "listed" => ReferenceCount'[d] > 0
  <2>1. own'[d] \in Nat /\ renewals'[d] \in Nat /\ stray'[d] \in Nat /\ due'[d].renewals \in Nat
    BY DEF Dues
  <2>2. Timed(d)' \in Nat
    BY <2>1 DEF Timed
  <2> QED BY <2>1, <2>2, <1>1, <1>2, <1>3, <1>4, CountStep
<1>6. DeviceTable_UDN' \in {NoEntry, NoDevice} \cup heap'
  <2>1. CASE DeviceTable_UDN = d
    <3>1. phase[d] = "listed" /\ d \in heap
      BY <2>1, <1>1, EntryFacts
    <3> QED BY <3>1, <2>1, <1>2, <1>4, <1>5
  <2>2. CASE DeviceTable_UDN # d
    BY <2>2, <1>1, <1>2 DEF TypeOK
  <2> QED BY <2>1, <2>2
<1>7. TypeOK'
  <2>1. heap' \subseteq 1 .. made' /\ made' \in 0 .. MaxDevices /\ KeptTypes'
    BY <1>1, <1>2, Types DEF KeptTypes, TypeOK
  <2>2. TableTypes' /\ TimerTypes' /\ ScpdTypes'
    BY <1>1, <1>2, Types DEF TableTypes, TimerTypes, ScpdTypes
  <2>3. /\ phase' \in [Device -> {"fresh", "listed", "removed"}] /\ torn' \subseteq Device
        /\ lost' \in [Device -> Int] /\ hello' \in Location \cup {NoLocation}
        /\ overdrawn' \in [Device -> Nat]
    BY <1>1, <1>2 DEF TypeOK
  <2> QED BY <2>1, <2>2, <2>3, <1>3, <1>6, Assembled
<1>8. EntryInv'
  BY <1>2 DEF IInv, EntryInv
<1>9. ASSUME NEW e \in Device, e # d PROVE DeviceInv(e)' /\ Accounted(e)'
  <2>1. Same(e) /\ TimersKept(e)
    BY <1>2, <1>3, <1>9 DEF Same, TimersKept
  <2> QED BY <2>1, SameDevice DEF IInv
<1> QED BY <1>5, <1>7, <1>8, <1>9 DEF IInv

(* What UserStep asks of a step that leaves the count alone.                *)
CountKept(d) ==
  /\ ReferenceCount' = [ReferenceCount EXCEPT ![d] = @ + 0]
  /\ heap' = IF ReferenceCount'[d] <= 0 THEN heap \ {d} ELSE heap

LEMMA CountUnchanged ==
  ASSUME IInv, NEW d \in Device, phase[d] # "fresh", UNCHANGED <<ReferenceCount, heap>>
  PROVE  CountKept(d)
<1>1. Accounted(d) /\ ReferenceCount \in [Device -> Int]
  BY DEF IInv, TypeOK
<1>2. ReferenceCount[d] \in Int /\ (d \in heap => ReferenceCount[d] > 0)
  BY <1>1 DEF Accounted
<1>3. [ReferenceCount EXCEPT ![d] = @ + 0] = ReferenceCount
  BY <1>1, <1>2
<1>4. d \in heap => ~(ReferenceCount'[d] <= 0)
  BY <1>2
<1> QED BY <1>3, <1>4 DEF CountKept

(* The sum of UserStep from its parts.                                      *)
LEMMA SumStep ==
  ASSUME TypeOK, NEW d \in Device, NEW h \in Int, NEW n \in Int, NEW x \in Int,
         Holds(d)' = Holds(d) + h, Timed(d)' = Timed(d) + n, stray'[d] = stray[d] + x
  PROVE  Holds(d)' + Timed(d)' + stray'[d] = Holds(d) + Timed(d) + stray[d] + (h + n + x)
<1> DEFINE a == Holds(d)
           b == Timed(d)
           c == stray[d]
<1>1. a \in Nat /\ b \in Nat /\ c \in Nat
  BY Numbers
<1> HIDE DEF a, b, c
<1>2. (a + h) + (b + n) + (c + x) = a + b + c + (h + n + x)
  BY <1>1
<1> QED BY <1>2 DEF a, b, c

(* The call and its reference.                                              *)
LEMMA HoldsParts ==
  ASSUME TypeOK, NEW d \in Device, NEW q \in Int, NEW o \in Int, NEW c \in Int,
         Requests(d)' = Requests(d) + q, own'[d] = own[d] + o, Called(d)' = Called(d) + c
  PROVE  Holds(d)' = Holds(d) + q + o + c
<1> DEFINE h == Holds(d)
           n == own[d]
           r == Requests(d)
           a == Called(d)
<1>1. h = n + r + a /\ n \in Nat /\ r \in Nat /\ a \in {0, 1}
  BY Numbers
<1>2. Holds(d)' = (n + o) + (r + q) + (a + c)
  BY DEF Holds, Called
<1> HIDE DEF h, n, r, a
<1>3. (n + o) + (r + q) + (a + c) = h + q + o + c
  BY <1>1
<1> QED BY <1>2, <1>3 DEF h

(* What a step of UserStep keeps.                                           *)
UserTypes ==
  /\ renewals \in [Device -> Nat] /\ due \in Dues /\ stray \in [Device -> Nat]
  /\ own \in [Device -> Nat] /\ calls \in 0 .. MaxCalls
  /\ call \in (Device \X Kind) \cup {NoCall} /\ ReferenceTiedToEvents \in [Device -> Int]
  /\ pending \in [Device -> [Kind -> Nat]]

LEMMA UserTyped == TypeOK => UserTypes
BY DEF TypeOK, UserTypes, Dues

AtUse(d) ==
  /\ TypeOK /\ UserTypes /\ DeviceInv(d) /\ Accounted(d)
  /\ d \in heap \/ Early(d)
  /\ phase[d] # "fresh"
  /\ phase[d] # "removed" => ReferenceTiedToEvents[d] = renewals[d]

LEMMA Used ==
  ASSUME IInv, NEW d \in Device,
         \/ \E kind \in Kind : pending[d][kind] > 0
         \/ renewals[d] > 0 \/ due[d].renewals > 0 \/ own[d] > 0 \/ Called(d) > 0
         \/ Uses(d)
  PROVE  AtUse(d)
<1>1. TypeOK /\ DeviceInv(d) /\ Accounted(d)
  BY DEF IInv
<1>2. Uses(d) => d \in heap /\ (phase[d] = "listed" \/ own[d] > 0)
  BY DEF Uses
<1>3. (d \in heap \/ Early(d)) /\ phase[d] # "fresh"
  BY <1>2, InUse
<1>4. phase[d] # "removed" => d \in heap
  BY <1>1, <1>3 DEF DeviceInv, Early
<1> QED BY <1>1, <1>3, <1>4, UserTyped DEF AtUse, Accounted

LEMMA AnsweredKeeps ==
  ASSUME IInv, NEW d \in Device, NEW kind \in Kind, Answered(d, kind) PROVE IInv'
<1>1. /\ pending[d][kind] > 0 /\ pending' = [pending EXCEPT ![d][kind] = @ + (-1)]
      /\ UNCHANGED <<fetched, bornVars, hello, own, call, calls, lost, tableVars, phase, scpdVars,
                     expiry, moving, renewals, due, ReferenceTiedToEvents, stray, torn, overdrawn>>
      /\ ReferenceCount' = [ReferenceCount EXCEPT ![d] = @ + (-1)]
      /\ heap' = IF ReferenceCount'[d] <= 0 THEN heap \ {d} ELSE heap
  <2>1. /\ pending[d][kind] > 0 /\ pending' = [pending EXCEPT ![d][kind] = @ - 1]
        /\ ReferenceCount' = [ReferenceCount EXCEPT ![d] = @ - 1]
        /\ heap' = IF ReferenceCount'[d] <= 0 THEN heap \ {d} ELSE heap
        /\ UNCHANGED <<fetched, bornVars, hello, own, call, calls, lost, tableVars, phase, scpdVars,
                       expiry, moving, renewals, due, ReferenceTiedToEvents, stray, torn, overdrawn>>
    BY DEF Answered, Settle, Release, RequestGone, userVars, timerVars
  <2>2. pending[d][kind] \in Nat /\ ReferenceCount[d] \in Int
    BY Numbers DEF IInv
  <2>3. pending[d][kind] - 1 = pending[d][kind] + (-1) /\ ReferenceCount[d] - 1 = ReferenceCount[d] + (-1)
    BY <2>2
  <2> QED BY <2>1, <2>3
<1>2. AtUse(d)
  BY <1>1, Used
<1>3. /\ pending' \in [Device -> [Kind -> Nat]]
      /\ Requests(d)' = Requests(d) + (-1) /\ Requests(d)' \in Nat
      /\ \A e \in Device \ {d} : pending'[e] = pending[e]
  <2>1. pending[d][kind] \in Nat /\ pending[d][kind] + (-1) >= 0
    BY <1>1, <1>2, Numbers DEF AtUse
  <2> QED BY <2>1, <1>1, <1>2, RequestEffect DEF AtUse
<1>4. Holds(d)' = Holds(d) + (-1)
  <2>1. own'[d] = own[d] + 0 /\ Called(d)' = Called(d) + 0
    BY <1>1, <1>2, Numbers DEF Called, AtUse
  <2>2. Holds(d)' = Holds(d) + (-1) + 0 + 0
    BY <2>1, <1>2, <1>3, HoldsParts DEF AtUse
  <2> QED BY <2>2, <1>2, Numbers DEF AtUse
<1>5. Timed(d)' = Timed(d) + 0 /\ stray'[d] = stray[d] + 0
  BY <1>1, <1>2, Numbers DEF Timed, AtUse
<1>6. Holds(d)' + Timed(d)' + stray'[d] = Holds(d) + Timed(d) + stray[d] + (-1)
  <2>1. Holds(d)' + Timed(d)' + stray'[d] = Holds(d) + Timed(d) + stray[d] + (-1 + 0 + 0)
    BY <1>2, <1>4, <1>5, SumStep DEF AtUse
  <2> QED BY <2>1
<1>7. UserTypes'
  BY <1>1, <1>2, <1>3 DEF AtUse, UserTypes
<1> QED BY <1>1, <1>2, <1>3, <1>6, <1>7, UserStep DEF AtUse, UserTypes

(* The reference of the request becomes the one of the timer.               *)
LEMMA SubscribedKeeps == ASSUME IInv, NEW d \in Device, Subscribed(d) PROVE IInv'
<1>1. /\ pending[d]["subscribe"] > 0 /\ pending' = [pending EXCEPT ![d]["subscribe"] = @ - 1]
      /\ renewals' = [renewals EXCEPT ![d] = @ + 1]
      /\ ReferenceTiedToEvents' = [ReferenceTiedToEvents EXCEPT ![d] = @ + 1]
      /\ UNCHANGED <<fetched, bornVars, hello, own, call, calls, lost, tableVars, phase, scpdVars,
                     ReferenceCount, heap, expiry, moving, due, stray, torn, overdrawn>>
  BY DEF Subscribed, Settle, userVars
<1>2. AtUse(d)
  BY <1>1, Used DEF Kind
<1>3. /\ pending' \in [Device -> [Kind -> Nat]]
      /\ Requests(d)' = Requests(d) + (-1) /\ Requests(d)' \in Nat
      /\ \A e \in Device \ {d} : pending'[e] = pending[e]
  <2>1. pending[d]["subscribe"] \in Nat /\ pending[d]["subscribe"] + (-1) >= 0
        /\ pending[d]["subscribe"] - 1 = pending[d]["subscribe"] + (-1)
    BY <1>1, <1>2, Numbers DEF AtUse
  <2>2. pending' = [pending EXCEPT ![d]["subscribe"] = @ + (-1)]
    BY <1>1, <2>1
  <2> QED BY <2>1, <2>2, <1>2, RequestEffect DEF Kind, AtUse
<1>4. Holds(d)' = Holds(d) + (-1)
  <2>1. own'[d] = own[d] + 0 /\ Called(d)' = Called(d) + 0
    BY <1>1, <1>2, Numbers DEF Called, AtUse
  <2>2. Holds(d)' = Holds(d) + (-1) + 0 + 0
    BY <2>1, <1>2, <1>3, HoldsParts DEF AtUse
  <2> QED BY <2>2, <1>2, Numbers DEF AtUse
<1>5. /\ renewals' \in [Device -> Nat] /\ renewals'[d] = renewals[d] + 1
      /\ ReferenceTiedToEvents' \in [Device -> Int]
      /\ ReferenceTiedToEvents'[d] = ReferenceTiedToEvents[d] + 1
      /\ \A e \in Device \ {d} : renewals'[e] = renewals[e]
                               /\ ReferenceTiedToEvents'[e] = ReferenceTiedToEvents[e]
  BY <1>1, <1>2 DEF AtUse, UserTypes
<1>6. Timed(d)' = Timed(d) + 1 /\ stray'[d] = stray[d] + 0
  <2>1. Timed(d)' = renewals'[d] + due'[d].renewals /\ due' = due /\ stray' = stray
    BY <1>1 DEF Timed
  <2> DEFINE n == renewals[d]
             u == due[d].renewals
             x == stray[d]
  <2>2. n \in Nat /\ u \in Nat /\ x \in Nat /\ Timed(d) = n + u
    BY <1>2, Numbers DEF AtUse
  <2>3. Timed(d)' = (n + 1) + u /\ stray'[d] = x
    BY <2>1, <1>5
  <2> HIDE DEF n, u, x
  <2> QED BY <2>2, <2>3 DEF x
<1>7. Holds(d)' + Timed(d)' + stray'[d] = Holds(d) + Timed(d) + stray[d] + 0
  <2>1. Holds(d)' + Timed(d)' + stray'[d] = Holds(d) + Timed(d) + stray[d] + (-1 + 1 + 0)
    BY <1>2, <1>4, <1>6, SumStep DEF AtUse
  <2> QED BY <2>1
<1>8. UserTypes'
  BY <1>1, <1>2, <1>3, <1>5 DEF AtUse, UserTypes
<1>9. CountKept(d)
  BY <1>1, <1>2, CountUnchanged DEF AtUse
<1>10. phase[d] # "removed" => ReferenceTiedToEvents'[d] = renewals'[d]
  BY <1>2, <1>5 DEF AtUse
<1> QED BY <1>1, <1>2, <1>3, <1>5, <1>7, <1>8, <1>9, <1>10, UserStep DEF CountKept, AtUse, UserTypes

(* DMRCP_Renew the other way round, of a timer that was collected too.      *)
LEMMA RenewKeeps == ASSUME IInv, NEW d \in Device, Renew(d) PROVE IInv'
<1>1. /\ pending' = [pending EXCEPT ![d]["subscribe"] = @ + 1]
      /\ ReferenceTiedToEvents' = [ReferenceTiedToEvents EXCEPT ![d] = @ - 1]
      /\ UNCHANGED <<fetched, bornVars, hello, own, call, calls, lost, tableVars, phase, scpdVars,
                     ReferenceCount, heap, expiry, moving, stray, torn, overdrawn>>
      /\ \/ renewals[d] > 0 /\ due' = due /\ renewals' = [renewals EXCEPT ![d] = @ - 1]
         \/ due[d].renewals > 0 /\ renewals' = renewals /\ due' = [due EXCEPT ![d].renewals = @ - 1]
  BY DEF Renew, Untied, userVars, historyVars
<1>2. AtUse(d)
  BY <1>1, Used
<1>3. /\ pending' \in [Device -> [Kind -> Nat]]
      /\ Requests(d)' = Requests(d) + 1 /\ Requests(d)' \in Nat
      /\ \A e \in Device \ {d} : pending'[e] = pending[e]
  <2>1. pending[d]["subscribe"] \in Nat /\ pending[d]["subscribe"] + 1 >= 0
    BY <1>2, Numbers DEF AtUse
  <2> QED BY <2>1, <1>1, <1>2, RequestEffect DEF Kind, AtUse
<1>4. Holds(d)' = Holds(d) + 1
  <2>1. own'[d] = own[d] + 0 /\ Called(d)' = Called(d) + 0
    BY <1>1, <1>2, Numbers DEF Called, AtUse
  <2>2. Requests(d)' = Requests(d) + 1 /\ 0 \in Int /\ 1 \in Int /\ TypeOK
    BY <1>2, <1>3 DEF AtUse
  <2>3. Holds(d)' = Holds(d) + 1 + 0 + 0
    BY ONLY <2>1, <2>2, HoldsParts
  <2> QED BY <2>3, <1>2, Numbers DEF AtUse
<1>5. /\ renewals' \in [Device -> Nat] /\ due' \in Dues
      /\ \/ renewals'[d] = renewals[d] - 1 /\ due' = due
         \/ renewals'[d] = renewals[d] /\ due'[d].renewals = due[d].renewals - 1 /\ phase[d] = "removed"
      /\ ReferenceTiedToEvents' \in [Device -> Int]
      /\ ReferenceTiedToEvents'[d] = ReferenceTiedToEvents[d] - 1
      /\ \A e \in Device \ {d} : /\ renewals'[e] = renewals[e] /\ due'[e] = due[e]
                                 /\ ReferenceTiedToEvents'[e] = ReferenceTiedToEvents[e]
  <2>1. /\ ReferenceTiedToEvents' \in [Device -> Int]
        /\ ReferenceTiedToEvents'[d] = ReferenceTiedToEvents[d] - 1
        /\ \A e \in Device \ {d} : ReferenceTiedToEvents'[e] = ReferenceTiedToEvents[e]
    BY <1>1, <1>2 DEF AtUse, UserTypes
  <2>2. CASE renewals[d] > 0 /\ due' = due /\ renewals' = [renewals EXCEPT ![d] = @ - 1]
    BY <2>1, <2>2, <1>2 DEF AtUse, UserTypes
  <2>3. CASE /\ due[d].renewals > 0 /\ renewals' = renewals
             /\ due' = [due EXCEPT ![d].renewals = @ - 1]
    <3>1. phase[d] = "removed"
      BY <2>3, <1>2 DEF AtUse, DeviceInv, NothingDue
    <3>2. due' \in Dues /\ due'[d].renewals = due[d].renewals - 1
          /\ \A e \in Device \ {d} : due'[e] = due[e]
      <4>1. due \in Dues /\ due[d].renewals \in Nat /\ due[d].renewals - 1 \in Nat
        BY <2>3, <1>2, Numbers DEF AtUse, UserTypes
      <4>2. due'[d] = [due[d] EXCEPT !.renewals = @ - 1]
            /\ \A e \in Device \ {d} : due'[e] = due[e]
        BY <2>3, <4>1 DEF Dues
      <4>3. due'[d].renewals = due[d].renewals - 1
        BY <4>1, <4>2 DEF Dues
      <4> QED BY <2>3, <4>1, <4>2, <4>3 DEF Dues
    <3>3. renewals' \in [Device -> Nat]
      BY <2>3, <1>2 DEF AtUse, UserTypes
    <3> QED BY <2>1, <2>3, <3>1, <3>2, <3>3
  <2> QED BY <2>2, <2>3, <1>1
<1>6. Timed(d)' = Timed(d) + (-1) /\ stray'[d] = stray[d] + 0
  <2>1. Timed(d)' = renewals'[d] + due'[d].renewals
    BY DEF Timed
  <2> QED BY <2>1, <1>1, <1>2, <1>5, Numbers DEF AtUse
<1>7. Holds(d)' + Timed(d)' + stray'[d] = Holds(d) + Timed(d) + stray[d] + 0
  <2>1. Holds(d)' + Timed(d)' + stray'[d] = Holds(d) + Timed(d) + stray[d] + (1 + (-1) + 0)
    BY <1>2, <1>4, <1>6, SumStep DEF AtUse
  <2> QED BY <2>1
<1>8. UserTypes'
  BY <1>1, <1>2, <1>3, <1>5 DEF AtUse, UserTypes
<1>9. CountKept(d)
  BY <1>1, <1>2, CountUnchanged DEF AtUse
<1>10. /\ phase[d] # "removed" => ReferenceTiedToEvents'[d] = renewals'[d]
       /\ phase[d] # "removed" => due'[d] = due[d]
  BY <1>2, <1>5 DEF AtUse
<1> QED BY <1>1, <1>2, <1>3, <1>5, <1>7, <1>8, <1>9, <1>10, UserStep DEF CountKept, AtUse, UserTypes

LEMMA InvokeFailedKeeps == ASSUME IInv, NEW d \in Device, InvokeFailed(d) PROVE IInv'
<1>1. /\ pending[d]["invoke"] > 0
      /\ UNCHANGED <<fetched, bornVars, ReferenceTiedToEvents, hello, own, call, calls, lost, overdrawn>>
  BY DEF InvokeFailed, userVars
<1>2. AtUse(d) /\ TypeOK
  BY <1>1, Used DEF Kind, AtUse
<1>3. /\ pending[d]["invoke"] \in Nat /\ pending[d]["invoke"] - 1 \in Nat
      /\ pending[d]["invoke"] - 1 = pending[d]["invoke"] + (-1)
  BY <1>1, <1>2, Numbers
<1>4. CASE phase[d] = "listed"
  <2>1. /\ ProcessDeviceRemoval(d, pending[d]["invoke"] - 1, expiry, moving, due)
        /\ ReferenceCount' = [ReferenceCount EXCEPT ![d] = @ - Released(d) - 1]
        /\ heap' = heap \ {d} /\ torn' = torn \cup {d}
    BY <1>4 DEF InvokeFailed
  <2>2. /\ TableTypes' /\ TimerTypes' /\ ScpdTypes' /\ DeviceTable_UDN' = NoEntry
        /\ pending' \in [Device -> [Kind -> Nat]] /\ stray' \in [Device -> Nat]
        /\ phase' \in [Device -> {"fresh", "listed", "removed"}]
        /\ phase'[d] = "removed" /\ expiry'[d] = 0 /\ moving'[d] = NoLocation /\ renewals'[d] = 0
        /\ pending'[d] = NoRequests /\ SCPDLeft'[d] = 0
        /\ \A e \in Device \ {d} :
             /\ phase'[e] = phase[e] /\ renewals'[e] = renewals[e] /\ pending'[e] = pending[e]
             /\ stray'[e] = stray[e] /\ SCPDLeft'[e] = SCPDLeft[e]
             /\ expiry'[e] = expiry[e] /\ moving'[e] = moving[e]
        /\ due' = due
    BY <2>1, <1>2, <1>3, Types, RemovalEffect DEF TimerTypes
  <2>3. Released(d) \in Int
    BY <1>2, Numbers DEF Released
  <2>4. /\ ReferenceCount' \in [Device -> Int]
        /\ \A e \in Device \ {d} : ReferenceCount'[e] = ReferenceCount[e]
    BY <2>1, <2>3, <1>2 DEF TypeOK
  <2>5. UNCHANGED <<fetched, made, LocationURL, ReferenceTiedToEvents, hello, own, call, calls, lost,
                    overdrawn>>
        /\ KeptTypes'
    BY <1>1, <1>2 DEF bornVars, KeptTypes, TypeOK
  <2>6. TypeOK'
    <3>1. heap' \subseteq 1 .. made' /\ made' \in 0 .. MaxDevices
      BY <2>1, <2>5, <1>2, Types
    <3>2. lost' \in [Device -> Int] /\ torn' \subseteq Device /\ hello' \in Location \cup {NoLocation}
          /\ overdrawn' \in [Device -> Nat]
      BY <2>1, <2>5, <1>2 DEF TypeOK
    <3> QED BY <3>1, <3>2, <2>2, <2>4, <2>5, Assembled
  <2>7. EntryInv'
    BY <2>2 DEF EntryInv, NoEntry, Device
  <2>8. DeviceInv(d)' /\ Accounted(d)'
    <3>1. lost'[d] \in Nat /\ d \in heap
      BY <2>5, <1>2, <1>4 DEF AtUse, DeviceInv
    <3>2. d \notin heap' /\ d \in torn' /\ stray'[d] \in Nat
      BY <2>1, <2>2
    <3>3. overdrawn'[d] \in Nat /\ due'[d].renewals = overdrawn'[d]
      BY <2>2, <2>5, <1>2, <1>4 DEF AtUse, DeviceInv, NothingDue
    <3> QED BY <3>1, <3>2, <3>3, <2>2, <2>5, <1>2, RemovedDevice
  <2>9. ASSUME NEW e \in Device, e # d PROVE DeviceInv(e)' /\ Accounted(e)'
    <3>1. Same(e) /\ TimersKept(e)
      BY <2>1, <2>2, <2>4, <2>5, <2>9 DEF Same, TimersKept
    <3> QED BY <3>1, SameDevice DEF IInv
  <2> QED BY <2>6, <2>7, <2>8, <2>9 DEF IInv
<1>5. CASE phase[d] # "listed"
  <2>1. /\ pending' = [pending EXCEPT ![d]["invoke"] = @ + (-1)]
        /\ stray' = [stray EXCEPT ![d] = @ + 1]
        /\ UNCHANGED <<tableVars, phase, scpdVars, ReferenceCount, heap, expiry, moving, renewals, due,
                       torn>>
    BY <1>3, <1>5 DEF InvokeFailed, timerVars
  <2>2. /\ pending' \in [Device -> [Kind -> Nat]]
        /\ Requests(d)' = Requests(d) + (-1) /\ Requests(d)' \in Nat
        /\ \A e \in Device \ {d} : pending'[e] = pending[e]
    <3>1. pending[d]["invoke"] + (-1) >= 0
      BY <1>3
    <3> QED BY <3>1, <2>1, <1>2, RequestEffect DEF Kind
  <2>3. Holds(d)' = Holds(d) + (-1)
    <3>1. own'[d] = own[d] + 0 /\ Called(d)' = Called(d) + 0
      BY <1>1, <1>2, Numbers DEF Called
    <3>2. Holds(d)' = Holds(d) + (-1) + 0 + 0
      BY <3>1, <1>2, <2>2, HoldsParts
    <3> QED BY <3>2, <1>2, Numbers
  <2>4. /\ stray' \in [Device -> Nat] /\ stray'[d] = stray[d] + 1
        /\ \A e \in Device \ {d} : stray'[e] = stray[e]
    BY <2>1, <1>2 DEF TypeOK
  <2>5. Timed(d)' = Timed(d) + 0
    BY <2>1, <1>2, Numbers DEF Timed
  <2>6. Holds(d)' + Timed(d)' + stray'[d] = Holds(d) + Timed(d) + stray[d] + 0
    <3>1. Holds(d)' + Timed(d)' + stray'[d] = Holds(d) + Timed(d) + stray[d] + (-1 + 0 + 1)
      BY <1>2, <2>3, <2>4, <2>5, SumStep
    <3> QED BY <3>1
  <2>7. UserTypes'
    BY <2>1, <2>2, <2>4, <1>1, <1>2 DEF AtUse, UserTypes
  <2>8. CountKept(d)
    BY <2>1, <1>2, CountUnchanged DEF AtUse
  <2> QED BY <2>1, <2>2, <2>4, <2>6, <2>7, <2>8, <1>1, <1>2, UserStep DEF CountKept, AtUse, UserTypes
<1> QED BY <1>4, <1>5

(* A reference the application takes.                                       *)
LEMMA TakeRefKeeps == ASSUME IInv, NEW d \in Device, TakeRef(d) PROVE IInv'
<1>1. /\ Uses(d) /\ calls' = calls + 1 /\ calls < MaxCalls
      /\ ReferenceCount' = [ReferenceCount EXCEPT ![d] = @ + 1]
      /\ own' = [own EXCEPT ![d] = @ + 1]
      /\ UNCHANGED <<fetched, bornVars, hello, call, lost, tableVars, phase, scpdVars, pending,
                     heap, expiry, moving, renewals, due, ReferenceTiedToEvents, stray, torn, overdrawn>>
  BY DEF TakeRef, AddRef, AppVars, timerVars, historyVars
<1>2. AtUse(d) /\ d \in heap /\ TypeOK
  BY <1>1, Used DEF Uses, AtUse
<1>3. heap' = IF ReferenceCount'[d] <= 0 THEN heap \ {d} ELSE heap
  BY <1>1, <1>2 DEF AtUse, Accounted, TypeOK
<1>4. /\ own' \in [Device -> Nat] /\ own'[d] = own[d] + 1
      /\ \A e \in Device \ {d} : own'[e] = own[e]
  BY <1>1, <1>2 DEF AtUse, UserTypes
<1>5. Requests(d)' = Requests(d) + 0 /\ Requests(d)' \in Nat
  <2>1. Requests(d)' = Requests(d)
    BY <1>1 DEF Requests
  <2> QED BY <2>1, <1>2, Numbers
<1>6. Holds(d)' = Holds(d) + 1
  <2>1. Called(d)' = Called(d) + 0
    BY <1>1, <1>2, Numbers DEF Called
  <2>2. own'[d] = own[d] + 1 /\ 0 \in Int /\ 1 \in Int
    BY <1>4
  <2>3. Holds(d)' = Holds(d) + 0 + 1 + 0
    BY ONLY <2>1, <2>2, <1>2, <1>5, HoldsParts
  <2> QED BY <2>3, <1>2, Numbers
<1>7. Holds(d)' + Timed(d)' + stray'[d] = Holds(d) + Timed(d) + stray[d] + 1
  <2>1. Timed(d)' = Timed(d) + 0 /\ stray'[d] = stray[d] + 0
    BY <1>1, <1>2, Numbers DEF Timed
  <2>2. Holds(d)' + Timed(d)' + stray'[d] = Holds(d) + Timed(d) + stray[d] + (1 + 0 + 0)
    BY <2>1, <1>2, <1>6, SumStep
  <2> QED BY <2>2
<1>8. UserTypes'
  BY <1>1, <1>2, <1>4, ControlPointAssumption DEF AtUse, UserTypes
<1> QED BY <1>1, <1>2, <1>3, <1>4, <1>5, <1>7, <1>8, UserStep DEF AtUse, UserTypes

(* One it gives back, of a device that was freed early too.                 *)
LEMMA GiveBackKeeps == ASSUME IInv, NEW d \in Device, GiveBack(d) PROVE IInv'
<1>1. /\ own[d] > 0 /\ own' = [own EXCEPT ![d] = @ - 1]
      /\ ReferenceCount' = [ReferenceCount EXCEPT ![d] = @ - 1]
      /\ heap' = IF ReferenceCount'[d] <= 0 THEN heap \ {d} ELSE heap
      /\ UNCHANGED <<fetched, bornVars, hello, call, calls, lost, tableVars, phase, scpdVars,
                     pending, expiry, moving, renewals, due, ReferenceTiedToEvents, stray, torn, overdrawn>>
  BY DEF GiveBack, Release, AppVars, timerVars, historyVars
<1>2. AtUse(d) /\ TypeOK
  BY <1>1, Used DEF AtUse
<1>3. /\ own' \in [Device -> Nat] /\ own'[d] = own[d] - 1 /\ own[d] - 1 = own[d] + (-1)
      /\ \A e \in Device \ {d} : own'[e] = own[e]
  BY <1>1, <1>2 DEF AtUse, UserTypes
<1>4. ReferenceCount' = [ReferenceCount EXCEPT ![d] = @ + (-1)]
  <2>1. ReferenceCount[d] \in Int /\ ReferenceCount[d] - 1 = ReferenceCount[d] + (-1)
    BY <1>2, Numbers
  <2> QED BY <2>1, <1>1
<1>5. Requests(d)' = Requests(d) + 0 /\ Requests(d)' \in Nat
  <2>1. Requests(d)' = Requests(d)
    BY <1>1 DEF Requests
  <2> QED BY <2>1, <1>2, Numbers
<1>6. Holds(d)' = Holds(d) + (-1)
  <2>1. Called(d)' = Called(d) + 0
    BY <1>1, <1>2, Numbers DEF Called
  <2>2. own'[d] = own[d] + (-1) /\ 0 \in Int /\ -1 \in Int
    BY <1>3
  <2>3. Holds(d)' = Holds(d) + 0 + (-1) + 0
    BY ONLY <2>1, <2>2, <1>2, <1>5, HoldsParts
  <2> QED BY <2>3, <1>2, Numbers
<1>7. Holds(d)' + Timed(d)' + stray'[d] = Holds(d) + Timed(d) + stray[d] + (-1)
  <2>1. Timed(d)' = Timed(d) + 0 /\ stray'[d] = stray[d] + 0
    BY <1>1, <1>2, Numbers DEF Timed
  <2>2. Holds(d)' + Timed(d)' + stray'[d] = Holds(d) + Timed(d) + stray[d] + (-1 + 0 + 0)
    BY <2>1, <1>2, <1>6, SumStep
  <2> QED BY <2>2
<1>8. UserTypes'
  BY <1>1, <1>2, <1>3 DEF AtUse, UserTypes
<1> QED BY <1>1, <1>2, <1>3, <1>4, <1>5, <1>7, <1>8, UserStep DEF AtUse, UserTypes

(* A call takes its reference, and gives it to its request.                 *)
LEMMA StartCallKeeps ==
  ASSUME IInv, NEW d \in Device, NEW kind \in Kind, StartCall(d, kind) PROVE IInv'
<1>1. /\ call = NoCall /\ Uses(d) /\ calls' = calls + 1 /\ calls < MaxCalls
      /\ ReferenceCount' = [ReferenceCount EXCEPT ![d] = @ + 1] /\ call' = <<d, kind>>
      /\ UNCHANGED <<fetched, bornVars, hello, own, lost, tableVars, phase, scpdVars, pending,
                     heap, expiry, moving, renewals, due, ReferenceTiedToEvents, stray, torn, overdrawn>>
  BY DEF StartCall, AddRef, AppVars, timerVars, historyVars
<1>2. AtUse(d) /\ d \in heap /\ TypeOK
  BY <1>1, Used DEF Uses, AtUse
<1>3. heap' = IF ReferenceCount'[d] <= 0 THEN heap \ {d} ELSE heap
  BY <1>1, <1>2 DEF AtUse, Accounted, TypeOK
<1>4. Requests(d)' = Requests(d) + 0 /\ Requests(d)' \in Nat
  <2>1. Requests(d)' = Requests(d)
    BY <1>1 DEF Requests
  <2> QED BY <2>1, <1>2, Numbers
<1>5. call[1] = 0 /\ call'[1] = d /\ 0 \notin Device
  BY <1>1 DEF NoCall, Device
<1>6. Holds(d)' = Holds(d) + 1
  <2>1. Called(d)' = Called(d) + 1
    BY <1>5 DEF Called
  <2>2. own'[d] = own[d] + 0 /\ 0 \in Int /\ 1 \in Int
    BY <1>1, <1>2, Numbers
  <2>3. Holds(d)' = Holds(d) + 0 + 0 + 1
    BY ONLY <2>1, <2>2, <1>2, <1>4, HoldsParts
  <2> QED BY <2>3, <1>2, Numbers
<1>7. Holds(d)' + Timed(d)' + stray'[d] = Holds(d) + Timed(d) + stray[d] + 1
  <2>1. Timed(d)' = Timed(d) + 0 /\ stray'[d] = stray[d] + 0
    BY <1>1, <1>2, Numbers DEF Timed
  <2>2. Holds(d)' + Timed(d)' + stray'[d] = Holds(d) + Timed(d) + stray[d] + (1 + 0 + 0)
    BY <2>1, <1>2, <1>6, SumStep
  <2> QED BY <2>2
<1>8. UserTypes'
  BY <1>1, <1>2, ControlPointAssumption DEF AtUse, UserTypes
<1>9. \A e \in Device \ {d} : call'[1] = e <=> call[1] = e
  BY <1>5
<1> QED BY <1>1, <1>2, <1>3, <1>4, <1>7, <1>8, <1>9, UserStep DEF AtUse, UserTypes

LEMMA QueueRequestKeeps == ASSUME IInv, QueueRequest PROVE IInv'
<1>1. PICK d \in Device, kind \in Kind : call = <<d, kind>>
  BY DEF QueueRequest, IInv, TypeOK
<1>2. /\ call[1] = d /\ call[2] = kind /\ call' = NoCall /\ call'[1] = 0 /\ 0 \notin Device
      /\ pending' = [pending EXCEPT ![d][kind] = @ + 1]
      /\ UNCHANGED <<fetched, bornVars, hello, own, calls, lost, tableVars, phase, scpdVars,
                     ReferenceCount, heap, expiry, moving, renewals, due, ReferenceTiedToEvents, stray,
                     torn, overdrawn>>
  BY <1>1 DEF QueueRequest, AppVars, timerVars, historyVars, NoCall, Device
<1>3. AtUse(d) /\ TypeOK /\ Called(d) = 1 /\ Called(d)' = 0
  <2>1. Called(d) = 1 /\ Called(d)' = 0
    BY <1>2 DEF Called
  <2> QED BY <2>1, Used DEF AtUse
<1>4. /\ pending' \in [Device -> [Kind -> Nat]]
      /\ Requests(d)' = Requests(d) + 1 /\ Requests(d)' \in Nat
      /\ \A e \in Device \ {d} : pending'[e] = pending[e]
  <2>1. pending[d][kind] + 1 >= 0
    BY <1>3, Numbers
  <2> QED BY <2>1, <1>2, <1>3, RequestEffect
<1>5. Holds(d)' = Holds(d) + 0
  <2>1. Called(d)' = Called(d) + (-1) /\ own'[d] = own[d] + 0 /\ 0 \in Int /\ 1 \in Int /\ -1 \in Int
    BY <1>2, <1>3, Numbers
  <2>2. Requests(d)' = Requests(d) + 1
    BY <1>4
  <2>3. Holds(d)' = Holds(d) + 1 + 0 + (-1)
    BY ONLY <2>1, <2>2, <1>3, HoldsParts
  <2> QED BY <2>3, <1>3, Numbers
<1>6. Holds(d)' + Timed(d)' + stray'[d] = Holds(d) + Timed(d) + stray[d] + 0
  <2>1. Timed(d)' = Timed(d) + 0 /\ stray'[d] = stray[d] + 0
    BY <1>2, <1>3, Numbers DEF Timed
  <2>2. Holds(d)' + Timed(d)' + stray'[d] = Holds(d) + Timed(d) + stray[d] + (0 + 0 + 0)
    BY <2>1, <1>3, <1>5, SumStep
  <2> QED BY <2>2
<1>7. UserTypes'
  BY <1>2, <1>3, <1>4 DEF AtUse, UserTypes
<1>8. CountKept(d)
  BY <1>2, <1>3, CountUnchanged DEF AtUse
<1>9. \A e \in Device \ {d} : call'[1] = e <=> call[1] = e
  BY <1>2
<1> QED BY <1>2, <1>3, <1>4, <1>6, <1>7, <1>8, <1>9, UserStep DEF CountKept, AtUse, UserTypes
-----------------------------------------------------------------------------
(* Theorems                                                                 *)

LEMMA AnnouncedKeeps == ASSUME IInv, NEW l \in Location, Announced(l) PROVE IInv'
<1>1. hello' \in Location \cup {NoLocation} /\ Alive(l)
  BY DEF Announced, IInv, TypeOK
<1>2. UNCHANGED <<bornVars, phase, scpdVars, countVars, pending, userVars, historyVars>>
  BY DEF Announced
<1> QED BY <1>1, <1>2, AliveKeeps

LEMMA StutterKeeps == ASSUME IInv, UNCHANGED vars PROVE IInv'
<1>1. UNCHANGED <<DeviceTable_UDN, DeviceTable_URI, DeviceTable_Tokens, fetch, fetched, made,
                  LocationURL, phase, SCPDLeft, SCPDError, ReferenceCount, ReferenceTiedToEvents,
                  heap, expiry, moving, renewals, due, pending, hello, own, call, calls, stray, lost,
                  torn, overdrawn>>
  BY DEF vars, tableVars, bornVars, scpdVars, countVars, timerVars, userVars, historyVars
<1>2. TypeOK' /\ EntryInv'
  BY <1>1 DEF IInv, TypeOK, EntryInv
<1>3. ASSUME NEW e \in Device PROVE DeviceInv(e)' /\ Accounted(e)'
  <2>1. Same(e) /\ TimersKept(e)
    BY <1>1 DEF Same, TimersKept
  <2> QED BY <2>1, SameDevice DEF IInv
<1> QED BY <1>2, <1>3 DEF IInv

LEMMA InitHolds == Init => IInv
<1> SUFFICES ASSUME Init PROVE IInv
  OBVIOUS
<1>1. NoRequests \in [Kind -> Nat]
  BY DEF NoRequests
<1>2. TypeOK
  BY <1>1, ControlPointAssumption DEF Init, TypeOK, NoEntry, NothingDue
<1>3. EntryInv
  BY DEF Init, EntryInv
<1>4. ASSUME NEW d \in Device PROVE DeviceInv(d) /\ Accounted(d)
  <2>1. Requests(d) = 0 /\ call[1] # d
    BY DEF Init, Requests, NoRequests, Kind, NoCall, Device
  <2>2. Holds(d) = 0
    BY <2>1 DEF Holds, Init
  <2>3. Services \in Nat
    BY ControlPointAssumption
  <2>4. Timed(d) = 0
    BY DEF Init, Timed, NothingDue
  <2> QED BY <2>1, <2>2, <2>3, <2>4 DEF Init, DeviceInv, Accounted
<1> QED BY <1>2, <1>3, <1>4 DEF IInv

LEMMA StepKeeps == IInv /\ [Next]_vars => IInv'
<1> SUFFICES ASSUME IInv, [Next]_vars PROVE IInv'
  OBVIOUS
<1>1. CASE \E l \in Location : Announced(l)
  BY <1>1, AnnouncedKeeps
<1>2. CASE Gone
  BY <1>2, GoneKeeps
<1>3. CASE Hello
  BY <1>3, HelloKeeps
<1>4. CASE Unreachable
  BY <1>4, UnreachableKeeps
<1>5. CASE \E f \in Fetch : DescriptionDone(f)
  BY <1>5, DescriptionDoneKeeps
<1>6. ASSUME NEW d \in Device,
             \/ ExpiredDevice(d) \/ InterfaceChanged(d) \/ SCPDDone(d)
             \/ Sink(d) \/ Renew(d) \/ Application(d)
      PROVE  IInv'
  <2>1. CASE ExpiredDevice(d)
    BY <2>1, ExpiredKeeps
  <2>2. CASE InterfaceChanged(d)
    BY <2>2, InterfaceChangedKeeps
  <2>3. CASE SCPDDone(d)
    BY <2>3, ScpdDoneKeeps
  <2>4. CASE Sink(d)
    BY <2>4, AnsweredKeeps, SubscribedKeeps, InvokeFailedKeeps DEF Sink
  <2>5. CASE Renew(d)
    BY <2>5, RenewKeeps
  <2>6. CASE Application(d)
    BY <2>6, TakeRefKeeps, GiveBackKeeps, StartCallKeeps DEF Application
  <2> QED BY <1>6, <2>1, <2>2, <2>3, <2>4, <2>5, <2>6
<1>7. CASE QueueRequest
  BY <1>7, QueueRequestKeeps
<1>8. CASE UNCHANGED vars
  BY <1>8, StutterKeeps
<1> QED BY <1>1, <1>2, <1>3, <1>4, <1>5, <1>6, <1>7, <1>8 DEF Next

(* For any locations, services, devices, fetches and calls: every variable  *)
(* has its type, and the table of UDNs names no device that has been freed. *)
THEOREM TypeCorrect == Spec => []TypeOK
<1>1. Init => IInv
  BY InitHolds
<1>2. IInv /\ [Next]_vars => IInv'
  BY StepKeeps
<1>3. IInv => TypeOK
  BY DEF IInv
<1> QED BY <1>1, <1>2, <1>3, PTL DEF Spec

(* For any of them: the references of a device the application knows are    *)
(* those of the table, of the application, of its requests, renewal timers  *)
(* and calls, and those nobody gives back; it is freed with the last one and*)
(* not before, and no request or renewal names a freed one, unless an       *)
(* unanswered invocation tears it down, or a timer removes it in the pass   *)
(* that fires its renewals, whose references are then released twice.       *)
THEOREM CountsAreExact == Spec => []ReferencesAccounted
<1>1. Init => IInv
  BY InitHolds
<1>2. IInv /\ [Next]_vars => IInv'
  BY StepKeeps
<1>3. IInv => ReferencesAccounted
  BY AccountedMeans DEF IInv
<1> QED BY <1>1, <1>2, <1>3, PTL DEF Spec

=============================================================================
