-------------------------------- MODULE Gena --------------------------------
(***************************************************************************)
(* DMR_MicroStack.c: the event subscriptions of a device, their reference  *)
(* counts, and the events on their way.  The same code is generated for    *)
(* the media server.                                                       *)
(*                                                                         *)
(* Subscribers are numbered in the order of their allocation.  All of this *)
(* runs on the microstack thread.  The event client sends the events of    *)
(* one subscriber one after the other and reports each of them once: as    *)
(* answered, whatever the HTTP status, or as failed.                       *)
(***************************************************************************)
EXTENDS Integers, Sequences, FiniteSets

CONSTANTS
  EventedService,   \* the services with a list of subscribers
  EventBody,        \* what events say
  MaxSubscribers,   \* per service; 10 in DMR_TryToSubscribe
  MaxSubscriptions  \* bound: subscriptions in a behaviour

ASSUME GenaAssumption == MaxSubscribers \in Nat /\ MaxSubscriptions \in Nat

Subscriber == 1 .. MaxSubscriptions
Event == [seq : Nat, body : EventBody]

VARIABLES
  made,        \* subscribers allocated so far
  heap,        \* those not freed yet
  list,        \* HeadSubscriberPtr of each service
  total,       \* NumberOfSubscribers of each service
  RefCount, SEQ, Disposing,  \* fields of a subscriber
  expired,     \* those whose RenewByTime has passed
  flight,      \* the events of a subscriber the event client holds, in order
  lapsed,      \* history: those that were ever expired
  expects      \* of those that are watched, the SEQ they expect; 0 at first

subscriberVars == <<made, heap, list, total, RefCount, Disposing>>
wireVars == <<SEQ, flight>>
genaVars == <<subscriberVars, expired, lapsed, wireVars, expects>>

Gap == -1      \* expected by who has missed a SEQ

GenaTypeOK ==
  /\ made \in 0 .. MaxSubscriptions
  /\ heap \subseteq 1 .. made
  /\ list \in [EventedService -> SUBSET heap]
  /\ total \in [EventedService -> Int]
  /\ RefCount \in [Subscriber -> Int]
  /\ SEQ \in [Subscriber -> Nat]
  /\ Disposing \subseteq 1 .. made
  /\ expired \subseteq lapsed /\ lapsed \subseteq 1 .. made
  /\ flight \in [Subscriber -> Seq(Event)]
  /\ expects \in [Subscriber -> Nat \cup {Gap}]

GenaInit ==
  /\ made = 0 /\ heap = {} /\ Disposing = {} /\ expired = {} /\ lapsed = {}
  /\ list = [svc \in EventedService |-> {}]
  /\ total = [svc \in EventedService |-> 0]
  /\ RefCount = [s \in Subscriber |-> 0]
  /\ SEQ = [s \in Subscriber |-> 0]
  /\ flight = [s \in Subscriber |-> <<>>]
  /\ expects = [s \in Subscriber |-> 0]

Listed == UNION {list[svc] : svc \in EventedService}
Live(s) == s \in heap \ Disposing

(* What a control point has heard is followed while its subscription is     *)
(* listed and has never lapsed.                                             *)
Watched == Listed \ lapsed
Forget == expects' = [s \in Subscriber |-> IF s \in Watched' THEN expects[s] ELSE 0]

(* Faulty variants of the operators below: the counter is not kept, busy    *)
(* subscribers are skipped.                                                 *)
AsMany(svc, gone) == total[svc]
IdleReceivers(svc) == {s \in list[svc] \ expired : flight[s] = <<>>}

Unreferenced(n) == n = 0
Fewer(svc, gone) == total[svc] - Cardinality(list[svc] \cap gone)
Receivers(svc) == list[svc] \ expired
-----------------------------------------------------------------------------
(* Requests of control points                                               *)

Unlink(gone) ==
  /\ list' = [svc \in EventedService |-> list[svc] \ gone]
  /\ total' = [svc \in EventedService |-> Fewer(svc, gone)]

Post(S, body) ==
  /\ flight' = [s \in Subscriber |->
                  IF s \in S THEN Append(flight[s], [seq |-> SEQ[s], body |-> body])
                             ELSE flight[s]]
  /\ SEQ' = [s \in Subscriber |-> IF s \in S THEN SEQ[s] + 1 ELSE SEQ[s]]

(* DMR_TryToSubscribe purges the expired subscribers of its service first,  *)
(* whatever their reference count; the subscriber is a new one, with its    *)
(* initial event sent after the answer.                                     *)
Purged(svc) == list[svc] \cap expired

Subscribe(svc, body) ==
  LET s == made + 1
      kept == Fewer(svc, Purged(svc))
  IN /\ made < MaxSubscriptions /\ kept < MaxSubscribers
     /\ made' = s
     /\ heap' = (heap \ Purged(svc)) \cup {s}
     /\ list' = [list EXCEPT ![svc] = (@ \ expired) \cup {s}]
     /\ total' = [total EXCEPT ![svc] = kept + 1]
     /\ RefCount' = [RefCount EXCEPT ![s] = 2]
     /\ Post({s}, body)
     /\ UNCHANGED <<Disposing, expired, lapsed>>
     /\ Forget

(* Too many subscribers, or a callback that is no URL.                      *)
SubscribeRejected(svc) ==
  /\ Unlink(Purged(svc))
  /\ heap' = heap \ Purged(svc)
  /\ UNCHANGED <<made, RefCount, Disposing, expired, lapsed, wireVars>>
  /\ Forget

(* DMR_RenewEvents does not ask whether the subscription has expired.       *)
Renew(s) ==
  /\ s \in Listed
  /\ expired' = expired \ {s}
  /\ UNCHANGED <<subscriberVars, lapsed, wireVars, expects>>

Unsubscribe(s) ==
  /\ s \in Listed
  /\ Unlink({s})
  /\ RefCount' = [RefCount EXCEPT ![s] = @ - 1]
  /\ heap' = IF Unreferenced(RefCount'[s]) THEN heap \ {s} ELSE heap
  /\ UNCHANGED <<made, Disposing, expired, lapsed, wireVars>>
  /\ Forget

(* RenewByTime passes.                                                      *)
Expire(s) ==
  /\ s \in Listed \ expired
  /\ expired' = expired \cup {s}
  /\ lapsed' = lapsed \cup {s}
  /\ UNCHANGED <<subscriberVars, wireVars>>
  /\ Forget
-----------------------------------------------------------------------------
(* Events                                                                   *)

SendEvent(svc, body) ==
  /\ Post(Receivers(svc), body)
  /\ RefCount' = [s \in Subscriber |->
                    IF s \in Receivers(svc) THEN RefCount[s] + 1 ELSE RefCount[s]]
  /\ UNCHANGED <<made, heap, list, total, Disposing, expired, lapsed, expects>>

(* The control point takes the first event in flight; a repeated request    *)
(* brings it the same event again.                                          *)
Accept(s) ==
  /\ s \in Watched /\ flight[s] # <<>>
  /\ LET seq == Head(flight[s]).seq
     IN expects' = [expects EXCEPT ![s] = IF @ \in {0, seq, seq + 1} THEN seq + 1 ELSE Gap]
  /\ UNCHANGED <<subscriberVars, expired, lapsed, wireVars>>

(* The answer to the first event is a refusal when the event overtakes the  *)
(* answer to SUBSCRIBE, on another connection, that names the subscription. *)
Settled(s) ==
  LET seq == Head(flight[s]).seq
  IN s \in Watched => seq = 0 \/ expects[s] = seq + 1 \/ expects[s] = Gap

(* DMR_SendEventSink with an answer, whatever its status.  On a subscriber  *)
(* that was purged the sink reads freed memory; the outcome that can be     *)
(* told is that it finds Disposing set and does nothing.                    *)
Answered(s) ==
  /\ flight[s] # <<>> /\ Settled(s)
  /\ flight' = [flight EXCEPT ![s] = Tail(@)]
  /\ RefCount' = IF Live(s) THEN [RefCount EXCEPT ![s] = @ - 1] ELSE RefCount
  /\ heap' = IF Live(s) /\ Unreferenced(RefCount'[s]) THEN heap \ {s} ELSE heap
  /\ UNCHANGED <<made, list, total, Disposing, expired, lapsed, SEQ, expects>>

(* DMR_SendEventSink without an answer: DMR_ExpireSubscriberInfo takes the  *)
(* subscriber off its list, with a reference of its own, unless it is not   *)
(* listed any more.                                                         *)
FailedRefs(s) == RefCount[s] - (IF s \in Listed THEN 2 ELSE 1)

Failed(s) ==
  /\ flight[s] # <<>>
  /\ flight' = [flight EXCEPT ![s] = Tail(@)]
  /\ IF Live(s)
     THEN /\ RefCount' = [RefCount EXCEPT ![s] = FailedRefs(s)]
          /\ Disposing' = IF Unreferenced(RefCount[s] - 1) THEN Disposing ELSE Disposing \cup {s}
          /\ heap' = IF Unreferenced(RefCount'[s]) THEN heap \ {s} ELSE heap
          /\ IF Unreferenced(RefCount[s] - 1) THEN UNCHANGED <<list, total>> ELSE Unlink({s})
     ELSE UNCHANGED <<RefCount, Disposing, heap, list, total>>
  /\ UNCHANGED <<made, expired, lapsed, SEQ>>
  /\ Forget
-----------------------------------------------------------------------------
(* A subscriber is freed exactly when nothing refers to it: while it is not *)
(* being disposed of, its count is one for the list plus one for each event *)
(* in flight, and it is never zero.  A listed subscriber is not being       *)
(* disposed of and is on one list, and the counter of a service is the      *)
(* length of its list, within the limit.  An event in flight names a freed  *)
(* subscriber only if its subscription had lapsed and was purged.           *)
SubscribersAccounted ==
  /\ \A svc \in EventedService :
       /\ total[svc] = Cardinality(list[svc]) /\ total[svc] <= MaxSubscribers
       /\ list[svc] \cap Disposing = {}
       /\ \A other \in EventedService \ {svc} : list[svc] \cap list[other] = {}
  /\ \A s \in heap \ Disposing :
       /\ RefCount[s] = Len(flight[s]) + IF s \in Listed THEN 1 ELSE 0
       /\ RefCount[s] > 0
  /\ \A s \in Subscriber : flight[s] # <<>> => s \in heap \cup lapsed
=============================================================================
