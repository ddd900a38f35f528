------------------------------ MODULE Renderer ------------------------------
(***************************************************************************)
(* The renderer and its control points: LastChange flags changes and turns *)
(* them into events, Gena delivers the events to the subscribers of each   *)
(* service.  Requests, answers and the timer are handled on the microstack *)
(* thread, one at a time; only the application runs beside them.           *)
(***************************************************************************)
EXTENDS LastChange, Gena

CONSTANT NotTold     \* no value: a subscriber was not told yet

ASSUME RendererAssumption ==
  NotTold \notin Value /\ EventedService = Service /\ EventBody = Body

VARIABLES
  lastChange,  \* AVTransport_LastChange, RenderingControl_LastChange
  view,        \* what a subscriber was last told of a variable
  news         \* history: variables a subscriber must have been told of

vars == <<lastChangeVars, genaVars, lastChange, view, news>>

Uninformed == [v \in Variable |-> NotTold]

(* The initial values of LastChange name no variable.                       *)
Init ==
  /\ LastChangeInit /\ GenaInit
  /\ lastChange = [svc \in Service |-> Nothing]
  /\ view = [s \in Subscriber |-> Uninformed]
  /\ news = [s \in Subscriber |-> {}]

Idle == at = "idle"
-----------------------------------------------------------------------------
(* The timer handler hands its snapshot to DMR_SetState_..._LastChange,     *)
(* which stores and sends it.                                               *)
Send(svc) ==
  /\ Sent(svc)
  /\ lastChange' = [lastChange EXCEPT ![svc] = snapshot]
  /\ SendEvent(svc, snapshot)
  /\ news' = [s \in Subscriber |-> IF s \in list[svc] \cap Watched
                                   THEN news[s] \cup DOMAIN snapshot ELSE news[s]]
  /\ UNCHANGED view

FireGena ==
  \/ (TimerEvent \/ Snapshot \/ Clear) /\ UNCHANGED <<genaVars, lastChange, view, news>>
  \/ \E svc \in Service : Send(svc)

AppCall == Application /\ UNCHANGED <<genaVars, lastChange, view, news>>

(* The initial event carries the last LastChange only.                      *)
InitialBody(svc) == lastChange[svc]

ForgetViews ==
  /\ view' = [s \in Subscriber |-> IF s \in Watched' THEN view[s] ELSE Uninformed]
  /\ news' = [s \in Subscriber |-> IF s \in Watched' THEN news[s] ELSE {}]

Request ==
  /\ Idle
  /\ \/ \E svc \in Service :
          Subscribe(svc, InitialBody(svc)) \/ SubscribeRejected(svc)
     \/ \E s \in Subscriber : Renew(s) \/ Unsubscribe(s)
  /\ ForgetViews
  /\ UNCHANGED <<lastChangeVars, lastChange>>

Lapse ==
  /\ \E s \in Subscriber : Expire(s)
  /\ ForgetViews
  /\ UNCHANGED <<lastChangeVars, lastChange>>

Hear(s) ==
  /\ Accept(s)
  /\ view' = [view EXCEPT ![s] = [v \in Variable |->
                IF v \in DOMAIN Head(flight[s]).body
                THEN Head(flight[s]).body[v] ELSE view[s][v]]]
  /\ UNCHANGED <<lastChangeVars, lastChange, news>>

Sink(s) ==
  /\ Idle
  /\ Answered(s) \/ Failed(s)
  /\ ForgetViews
  /\ UNCHANGED <<lastChangeVars, lastChange>>

Next ==
  \/ FireGena \/ AppCall \/ Request \/ Lapse
  \/ \E s \in Subscriber : Hear(s) \/ Sink(s)

Spec == Init /\ [][Next]_vars

(* The timer runs again 200 ms after each handler, and the event client     *)
(* settles every event: the control point takes it and answers, or the      *)
(* connection fails.                                                        *)
FairSpec ==
  /\ Spec /\ WF_vars(FireGena)
  /\ \A s \in Subscriber : WF_vars(Hear(s)) /\ WF_vars(Sink(s))
-----------------------------------------------------------------------------
(* Every variable holds a value of its type.                                *)
TypeOK ==
  /\ LastChangeTypeOK /\ GenaTypeOK
  /\ lastChange \in [Service -> Body]
  /\ view \in [Subscriber -> [Variable -> Value \cup {NotTold}]]
  /\ news \in [Subscriber -> SUBSET Variable]

(* A control point that is listed and whose subscription never lapsed has   *)
(* not missed an event, and once nothing is in flight to it, it knows the   *)
(* value of every variable that was evented since it subscribed, unless the *)
(* variable has changed since.                                              *)
ListedMeansInformed ==
  \A svc \in Service : \A s \in list[svc] \cap Watched :
    /\ expects[s] # Gap
    /\ flight[s] = <<>> /\ ~Sending(svc) =>
         \A v \in news[s] \ untold : view[s][v] = val[v]

(* When the application has made its last call, the mask is empty, nothing  *)
(* is in flight, and every control point that is listed and never lapsed    *)
(* knows what was evented to it, except what a change was not notified of   *)
(* or came between the snapshot of its service and the clearing of the mask.*)
ToldInTheEnd ==
  <>[](/\ mask = {}
       /\ \A s \in Watched :
            flight[s] = <<>> /\ \A v \in news[s] \ untold : view[s][v] = val[v])

(* DMR.h of each DMR_StateChange: "This method will fire a LastChange event *)
(* asyncronously": a change is put into an event in the end.                *)
FiresLastChange == \A v \in Variable : v \in untold ~> v \notin untold
=============================================================================
