--------------------------- MODULE RendererProofs ---------------------------
(***************************************************************************)
(* Proofs about Renderer for every set of variables and values, every limit*)
(* on the subscribers, and every bound.                                    *)
(***************************************************************************)
EXTENDS Renderer, FiniteSetTheorems, SequenceTheorems, TLAPS

(* A subscriber that was not made yet has no history.                       *)
NotMade ==
  \A s \in Subscriber : s > made =>
    SEQ[s] = 0 /\ expects[s] = 0 /\ news[s] = {}

(* The events in flight to who is watched are numbered without a gap up to  *)
(* SEQ, which is not zero any more, and it expects the first of them or the *)
(* one after it; 0 means that it has not taken any.                         *)
First(s) == SEQ[s] - Len(flight[s])

Numbered(s) ==
  /\ SEQ[s] > 0 /\ First(s) >= 0
  /\ \A i \in 1 .. Len(flight[s]) : flight[s][i].seq = First(s) + i - 1
  /\ expects[s] \in {0, First(s), First(s) + 1}
  /\ flight[s] = <<>> => expects[s] # First(s) + 1

(* Who expects the one after the first has taken over what the first says.  *)
TookFirst(s) ==
  flight[s] # <<>> /\ expects[s] = First(s) + 1 =>
    \A v \in DOMAIN Head(flight[s]).body : view[s][v] = Head(flight[s]).body[v]

(* Where the value of a variable that s must know is: in its last event in  *)
(* flight about it, which is not the initial one, or with s.                *)
Silent(s, v, i) == \A j \in i .. Len(flight[s]) : v \notin DOMAIN flight[s][j].body

InFlight(s, v) ==
  \E i \in 1 .. Len(flight[s]) :
    /\ v \in DOMAIN flight[s][i].body /\ flight[s][i].body[v] = val[v]
    /\ flight[s][i].seq > 0 /\ Silent(s, v, i + 1)

Knows(s, v) == Silent(s, v, 1) /\ view[s][v] = val[v]

Informed(svc, s) ==
  /\ news[s] \subseteq VariablesOf(svc)
  /\ \A v \in news[s] \ untold :
       (Sending(svc) /\ v \in DOMAIN snapshot) \/ InFlight(s, v) \/ Knows(s, v)

SnapshotHolds ==
  \A svc \in Service : Sending(svc) =>
    /\ DOMAIN snapshot \subseteq VariablesOf(svc)
    /\ \A v \in DOMAIN snapshot \ untold : snapshot[v] = val[v]

Follows(svc, s) == Numbered(s) /\ TookFirst(s) /\ Informed(svc, s)

InformedInv ==
  SnapshotHolds /\ \A svc \in Service : \A s \in list[svc] \cap Watched : Follows(svc, s)

IInv == TypeOK /\ SubscribersAccounted /\ NotMade /\ InformedInv
-----------------------------------------------------------------------------
(* Queues of events                                                         *)

LEMMA Queue ==
  ASSUME NEW S, NEW q \in Seq(S)
  PROVE  Len(q) \in Nat /\ (q = <<>> <=> Len(q) = 0) /\ \A i \in 1 .. Len(q) : q[i] \in S
<1>1. Len(q) \in Nat /\ \A i \in 1 .. Len(q) : q[i] \in S
  BY ElementOfSeq, LenProperties
<1> QED BY <1>1, EmptySeq

LEMMA QueuePut ==
  ASSUME NEW S, NEW q \in Seq(S), NEW e \in S
  PROVE  /\ Append(q, e) \in Seq(S) /\ Len(Append(q, e)) = Len(q) + 1
         /\ Append(q, e) # <<>>
         /\ \A i \in 1 .. Len(q) : Append(q, e)[i] = q[i]
         /\ Append(q, e)[Len(q) + 1] = e
<1>1. /\ Append(q, e) \in Seq(S) /\ Len(Append(q, e)) = Len(q) + 1
      /\ \A i \in 1 .. Len(q) : Append(q, e)[i] = q[i]
      /\ Append(q, e)[Len(q) + 1] = e
  BY AppendProperties
<1> QED BY <1>1, Queue

LEMMA QueueTake ==
  ASSUME NEW S, NEW q \in Seq(S), q # <<>>
  PROVE  /\ Head(q) \in S /\ Head(q) = q[1] /\ Len(q) > 0
         /\ Tail(q) \in Seq(S) /\ Len(Tail(q)) = Len(q) - 1
         /\ \A i \in 1 .. Len(q) - 1 : Tail(q)[i] = q[i + 1]
<1>1. Len(q) \in Nat /\ Len(q) > 0
  BY Queue
<1>2. Head(q) = q[1]
  BY <1>1
<1> QED BY <1>1, <1>2, HeadTailProperties
-----------------------------------------------------------------------------
(* The subscribers, their lists and their counts                            *)

GenaInv == GenaTypeOK /\ SubscribersAccounted

LEMMA ListsFinite ==
  ASSUME GenaInv, NEW svc \in EventedService, NEW S \in SUBSET list[svc]
  PROVE  IsFiniteSet(S) /\ Cardinality(S) \in Nat /\ Cardinality(S) <= Cardinality(list[svc])
<1>1. made \in Nat
  BY GenaAssumption DEF GenaInv, GenaTypeOK
<1>0. heap \subseteq 1 .. made /\ list[svc] \subseteq heap
  BY DEF GenaInv, GenaTypeOK
<1>2. IsFiniteSet(1 .. made)
  BY <1>1, FS_Interval
<1>3. IsFiniteSet(list[svc])
  BY <1>0, <1>2, FS_Subset
<1> QED BY <1>3, FS_Subset, FS_CardinalityType

LEMMA FewerCounts ==
  ASSUME GenaInv, NEW svc \in EventedService, NEW gone
  PROVE  /\ Fewer(svc, gone) = Cardinality(list[svc] \ gone)
         /\ Fewer(svc, gone) \in Int /\ Fewer(svc, gone) <= MaxSubscribers
<1>1. total[svc] = Cardinality(list[svc]) /\ total[svc] <= MaxSubscribers
  BY DEF GenaInv, SubscribersAccounted
<1>2. /\ IsFiniteSet(list[svc]) /\ Cardinality(list[svc]) \in Nat
      /\ Cardinality(list[svc] \ gone) \in Nat
      /\ Cardinality(list[svc] \ gone) <= Cardinality(list[svc])
  BY ListsFinite
<1>3. Cardinality(list[svc] \ gone) = Cardinality(list[svc]) - Cardinality(list[svc] \cap gone)
  BY <1>2, FS_Difference
<1> QED BY <1>1, <1>2, <1>3, GenaAssumption DEF Fewer

(* What the steps below start from.                                         *)
LEMMA GenaFacts ==
  ASSUME GenaInv
  PROVE  /\ made \in Nat /\ made <= MaxSubscriptions /\ MaxSubscriptions \in Nat
         /\ heap \subseteq 1 .. made /\ Disposing \subseteq 1 .. made /\ lapsed \subseteq 1 .. made
         /\ 1 .. made \subseteq Subscriber /\ Listed \subseteq heap \ Disposing
         /\ \A s \in Subscriber : Len(flight[s]) \in Nat /\ (flight[s] = <<>> <=> Len(flight[s]) = 0)
         /\ \A s \in Subscriber : s > made => flight[s] = <<>>
<1>1. /\ made \in Nat /\ made <= MaxSubscriptions /\ MaxSubscriptions \in Nat
      /\ heap \subseteq 1 .. made /\ Disposing \subseteq 1 .. made /\ lapsed \subseteq 1 .. made
  BY GenaAssumption DEF GenaInv, GenaTypeOK
<1>2. \A s \in Subscriber : Len(flight[s]) \in Nat /\ (flight[s] = <<>> <=> Len(flight[s]) = 0)
  BY Queue DEF GenaInv, GenaTypeOK
<1>3. Listed \subseteq heap \ Disposing
  <2>1. ASSUME NEW svc \in EventedService PROVE list[svc] \subseteq heap \ Disposing
    BY DEF GenaInv, GenaTypeOK, SubscribersAccounted
  <2> QED BY <2>1 DEF Listed
<1>4. \A s \in Subscriber : s > made => flight[s] = <<>>
  <2> SUFFICES ASSUME NEW s \in Subscriber, s > made
               PROVE  flight[s] = <<>>
    OBVIOUS
  <2>1. s \notin 1 .. made
    BY <1>1 DEF Subscriber
  <2>2. s \notin heap \cup lapsed
    BY <2>1, <1>1
  <2> QED BY <2>2 DEF GenaInv, SubscribersAccounted
<1> QED BY <1>1, <1>2, <1>3, <1>4 DEF Subscriber

(* Forget keeps the type of expects.                                        *)
LEMMA ForgetTypes ==
  ASSUME GenaTypeOK, Forget
  PROVE  expects' \in [Subscriber -> Nat \cup {Gap}]
BY DEF GenaTypeOK, Forget

(* A post adds one event to the queues of S and keeps the others.           *)
LEMMA PostQueues ==
  ASSUME GenaInv, NEW S \in SUBSET Subscriber, NEW body \in EventBody, Post(S, body)
  PROVE  /\ flight' \in [Subscriber -> Seq(Event)] /\ SEQ' \in [Subscriber -> Nat]
         /\ \A s \in Subscriber : IF s \in S THEN Len(flight'[s]) = Len(flight[s]) + 1
                                            ELSE flight'[s] = flight[s]
<1>1. \A s \in Subscriber : flight[s] \in Seq(Event) /\ SEQ[s] \in Nat
  BY DEF GenaInv, GenaTypeOK
<1>2. \A s \in Subscriber : [seq |-> SEQ[s], body |-> body] \in Event
  BY <1>1 DEF Event
<1>3. \A s \in Subscriber :
        LET q == Append(flight[s], [seq |-> SEQ[s], body |-> body])
        IN q \in Seq(Event) /\ Len(q) = Len(flight[s]) + 1
  BY <1>1, <1>2, QueuePut
<1>4. flight' \in [Subscriber -> Seq(Event)]
  BY <1>1, <1>3 DEF Post
<1>5. \A s \in Subscriber : IF s \in S THEN Len(flight'[s]) = Len(flight[s]) + 1
                                      ELSE flight'[s] = flight[s]
  BY <1>3 DEF Post
<1>6. SEQ' \in [Subscriber -> Nat]
  BY <1>1 DEF Post
<1> QED BY <1>4, <1>5, <1>6

LEMMA SubscribeKeeps ==
  ASSUME GenaInv, NEW svc \in EventedService, NEW body \in EventBody, Subscribe(svc, body)
  PROVE  GenaInv'
<1> DEFINE n == made + 1
           kept == Fewer(svc, Purged(svc))
<1>1. /\ made' = n /\ made < MaxSubscriptions /\ kept < MaxSubscribers
      /\ heap' = (heap \ Purged(svc)) \cup {n}
      /\ list' = [list EXCEPT ![svc] = (@ \ expired) \cup {n}]
      /\ total' = [total EXCEPT ![svc] = kept + 1]
      /\ RefCount' = [RefCount EXCEPT ![n] = 2]
      /\ Post({n}, body) /\ Disposing' = Disposing
      /\ expired' = expired /\ lapsed' = lapsed /\ Forget
  BY DEF Subscribe
<1>2. /\ n \in Subscriber /\ n \notin heap \cup Disposing \cup lapsed \cup expired \cup Listed
      /\ Len(flight[n]) = 0 /\ made' \in 0 .. MaxSubscriptions /\ 1 .. made \subseteq 1 .. made'
  BY <1>1, GenaFacts DEF GenaInv, GenaTypeOK, Subscriber
<1>3. /\ \A other \in EventedService : list[other] \subseteq heap
      /\ \A other \in EventedService \ {svc} : list[other] \cap list[svc] = {}
      /\ \A other \in EventedService : list[other] \cap Disposing = {}
  BY DEF GenaInv, GenaTypeOK, SubscribersAccounted
<1>4. list' \in [EventedService -> SUBSET heap']
  <2> SUFFICES ASSUME NEW other \in EventedService PROVE list'[other] \subseteq heap'
    BY <1>1 DEF GenaInv, GenaTypeOK
  <2>1. CASE other = svc
    BY <2>1, <1>1, <1>3 DEF Purged, GenaInv, GenaTypeOK
  <2>2. CASE other # svc
    BY <2>2, <1>1, <1>3 DEF Purged, GenaInv, GenaTypeOK
  <2> QED BY <2>1, <2>2
<1>5. kept \in Int /\ kept = Cardinality(list[svc] \ expired)
  <2>1. kept = Cardinality(list[svc] \ Purged(svc)) /\ kept \in Int
    BY FewerCounts
  <2>2. list[svc] \ Purged(svc) = list[svc] \ expired
    BY DEF Purged
  <2> QED BY <2>1, <2>2
<1>6. flight' \in [Subscriber -> Seq(Event)] /\ SEQ' \in [Subscriber -> Nat]
      /\ Len(flight'[n]) = 1
      /\ \A s \in Subscriber \ {n} : flight'[s] = flight[s]
  <2>1. {n} \in SUBSET Subscriber /\ Post({n}, body)
    BY <1>1, <1>2
  <2>2. /\ flight' \in [Subscriber -> Seq(Event)] /\ SEQ' \in [Subscriber -> Nat]
        /\ \A s \in Subscriber : IF s \in {n} THEN Len(flight'[s]) = Len(flight[s]) + 1
                                            ELSE flight'[s] = flight[s]
    BY <2>1, PostQueues
  <2>3. Len(flight'[n]) = Len(flight[n]) + 1
    BY <2>2, <1>2
  <2>4. ASSUME NEW s \in Subscriber \ {n} PROVE flight'[s] = flight[s]
    BY <2>2
  <2> QED BY <2>2, <2>3, <2>4, <1>2
<1>7. GenaTypeOK'
  <2>1. heap' \subseteq 1 .. made' /\ Disposing' \subseteq 1 .. made' /\ lapsed' \subseteq 1 .. made'
        /\ expired' \subseteq lapsed'
    <3>1. n \in 1 .. made'
      BY <1>1, GenaFacts
    <3>2. expired \subseteq lapsed
      BY DEF GenaInv, GenaTypeOK
    <3> HIDE DEF n
    <3> QED BY <3>1, <3>2, <1>1, <1>2, GenaFacts
  <2>2. total' \in [EventedService -> Int] /\ RefCount' \in [Subscriber -> Int]
    <3>1. total \in [EventedService -> Int] /\ RefCount \in [Subscriber -> Int]
      BY DEF GenaInv, GenaTypeOK
    <3>2. kept + 1 \in Int
      BY <1>5
    <3> HIDE DEF n, kept
    <3>3. total' \in [EventedService -> Int]
      BY <3>1, <3>2, <1>1
    <3>4. RefCount' \in [Subscriber -> Int]
      <4>1. RefCount' = [RefCount EXCEPT ![n] = 2]
        BY <1>1
      <4>2. \A s \in Subscriber : RefCount'[s] \in Int
        BY <4>1, <3>1
      <4> QED BY <4>1, <4>2, <3>1
    <3> QED BY <3>3, <3>4
  <2>3. expects' \in [Subscriber -> Nat \cup {Gap}]
    BY <1>1, ForgetTypes DEF GenaInv
  <2> QED BY <2>1, <2>2, <2>3, <1>2, <1>4, <1>6 DEF GenaTypeOK
<1>8. \A other \in EventedService :
        total'[other] = Cardinality(list'[other]) /\ total'[other] <= MaxSubscribers
  <2> SUFFICES ASSUME NEW other \in EventedService
               PROVE  total'[other] = Cardinality(list'[other]) /\ total'[other] <= MaxSubscribers
    OBVIOUS
  <2>1. CASE other = svc
    <3>1. IsFiniteSet(list[svc] \ expired) /\ n \notin list[svc] \ expired
      BY <1>2, ListsFinite DEF Listed
    <3>2. Cardinality((list[svc] \ expired) \cup {n}) = kept + 1
      BY <3>1, <1>5, FS_AddElement
    <3>3. list'[svc] = (list[svc] \ expired) \cup {n} /\ total'[svc] = kept + 1
      BY <1>1 DEF GenaInv, GenaTypeOK
    <3> QED BY <2>1, <3>2, <3>3, <1>1, <1>5, GenaAssumption
  <2>2. CASE other # svc
    BY <2>2, <1>1 DEF GenaInv, GenaTypeOK, SubscribersAccounted
  <2> QED BY <2>1, <2>2
<1>9. \A other \in EventedService :
        /\ list'[other] \cap Disposing' = {}
        /\ \A third \in EventedService \ {other} : list'[other] \cap list'[third] = {}
  BY <1>1, <1>2, <1>3 DEF GenaInv, GenaTypeOK, SubscribersAccounted, Listed
<1>10. \A s \in heap' \ Disposing' :
         /\ RefCount'[s] = Len(flight'[s]) + IF s \in Listed' THEN 1 ELSE 0
         /\ RefCount'[s] > 0
  <2> SUFFICES ASSUME NEW s \in heap' \ Disposing'
               PROVE  /\ RefCount'[s] = Len(flight'[s]) + IF s \in Listed' THEN 1 ELSE 0
                      /\ RefCount'[s] > 0
    OBVIOUS
  <2>1. s \in Subscriber
    BY <1>1, <1>2, GenaFacts
  <2>2. CASE s = n
    <3>1. s \in list'[svc] /\ RefCount'[s] = 2
      BY <2>2, <1>1, <1>2 DEF GenaInv, GenaTypeOK
    <3> QED BY <3>1, <2>2, <1>6 DEF Listed
  <2>3. CASE s # n
    <3>1. s \in heap \ Disposing /\ s \notin Purged(svc) /\ RefCount'[s] = RefCount[s]
          /\ flight'[s] = flight[s]
      BY <2>1, <2>3, <1>1, <1>6 DEF GenaInv, GenaTypeOK
    <3>2. s \in Listed' <=> s \in Listed
      BY <3>1, <2>3, <1>1 DEF GenaInv, GenaTypeOK, Listed, Purged
    <3> QED BY <3>1, <3>2 DEF GenaInv, SubscribersAccounted
  <2> QED BY <2>2, <2>3
<1>11. \A s \in Subscriber : flight'[s] # <<>> => s \in heap' \cup lapsed'
  <2> SUFFICES ASSUME NEW s \in Subscriber, flight'[s] # <<>>, s # n
               PROVE  s \in heap' \cup lapsed'
    BY <1>1
  <2>1. s \in heap \cup lapsed
    BY <1>6 DEF GenaInv, SubscribersAccounted
  <2> QED BY <2>1, <1>1 DEF Purged, GenaInv, GenaTypeOK
<1> QED BY <1>7, <1>8, <1>9, <1>10, <1>11 DEF GenaInv, SubscribersAccounted

(* The lists and their counters, without those that are gone.               *)
LEMMA UnlinkLists ==
  ASSUME GenaInv, NEW gone, Unlink(gone)
  PROVE  /\ list' \in [EventedService -> SUBSET (heap \ gone)]
         /\ total' \in [EventedService -> Int]
         /\ Listed' = Listed \ gone
         /\ \A svc \in EventedService :
              /\ total'[svc] = Cardinality(list'[svc]) /\ total'[svc] <= MaxSubscribers
              /\ list'[svc] \cap Disposing = {}
              /\ \A other \in EventedService \ {svc} : list'[svc] \cap list'[other] = {}
<1>1. \A svc \in EventedService :
        /\ Fewer(svc, gone) = Cardinality(list[svc] \ gone)
        /\ Fewer(svc, gone) \in Int /\ Fewer(svc, gone) <= MaxSubscribers
  BY FewerCounts
<1>2. /\ list' = [svc \in EventedService |-> list[svc] \ gone]
      /\ total' = [svc \in EventedService |-> Fewer(svc, gone)]
  BY DEF Unlink
<1>3. \A svc \in EventedService : list[svc] \subseteq heap
  BY DEF GenaInv, GenaTypeOK
<1>4. list' \in [EventedService -> SUBSET (heap \ gone)]
  BY <1>2, <1>3
<1>5. total' \in [EventedService -> Int]
  BY <1>1, <1>2
<1>6. Listed' = Listed \ gone
  BY <1>2 DEF Listed
<1>7. ASSUME NEW svc \in EventedService
      PROVE  /\ total'[svc] = Cardinality(list'[svc]) /\ total'[svc] <= MaxSubscribers
             /\ list'[svc] \cap Disposing = {}
             /\ \A other \in EventedService \ {svc} : list'[svc] \cap list'[other] = {}
  <2>1. total'[svc] = Cardinality(list'[svc]) /\ total'[svc] <= MaxSubscribers
    BY <1>1, <1>2
  <2>2. /\ list[svc] \cap Disposing = {}
        /\ \A other \in EventedService \ {svc} : list[svc] \cap list[other] = {}
    BY DEF GenaInv, SubscribersAccounted
  <2> QED BY <2>1, <2>2, <1>2
<1> QED BY <1>4, <1>5, <1>6, <1>7

(* The references of a subscriber that is in the heap and not disposed of.  *)
LEMMA ReferencesOf ==
  ASSUME GenaInv, NEW s \in heap \ Disposing
  PROVE  /\ s \in Subscriber /\ RefCount[s] \in Int /\ RefCount[s] > 0
         /\ RefCount[s] = Len(flight[s]) + IF s \in Listed THEN 1 ELSE 0
BY GenaFacts DEF GenaInv, GenaTypeOK, SubscribersAccounted

LEMMA SubscribeRejectedKeeps ==
  ASSUME GenaInv, NEW svc \in EventedService, SubscribeRejected(svc)
  PROVE  GenaInv'
<1> DEFINE gone == Purged(svc)
<1>1. /\ Unlink(gone) /\ heap' = heap \ gone /\ Forget
      /\ UNCHANGED <<made, RefCount, Disposing, expired, lapsed, SEQ, flight>>
  BY DEF SubscribeRejected, wireVars
<1>2. gone \subseteq list[svc] /\ gone \subseteq lapsed
  BY DEF Purged, GenaInv, GenaTypeOK
<1> HIDE DEF gone
<1>3. /\ list' \in [EventedService -> SUBSET heap']
      /\ total' \in [EventedService -> Int] /\ Listed' = Listed \ gone
      /\ \A other \in EventedService :
           /\ total'[other] = Cardinality(list'[other]) /\ total'[other] <= MaxSubscribers
           /\ list'[other] \cap Disposing' = {}
           /\ \A third \in EventedService \ {other} : list'[other] \cap list'[third] = {}
  BY <1>1, UnlinkLists
<1>4. GenaTypeOK'
  <2>1. heap' \subseteq 1 .. made'
    BY <1>1 DEF GenaInv, GenaTypeOK
  <2>2. expects' \in [Subscriber -> Nat \cup {Gap}]
    BY <1>1, ForgetTypes DEF GenaInv
  <2> QED BY <2>1, <2>2, <1>1, <1>3 DEF GenaInv, GenaTypeOK
<1>5. ASSUME NEW s \in heap' \ Disposing'
      PROVE  /\ RefCount'[s] = Len(flight'[s]) + IF s \in Listed' THEN 1 ELSE 0
             /\ RefCount'[s] > 0
  <2>1. s \in heap \ Disposing /\ s \notin gone
    BY <1>1
  <2> QED BY <2>1, <1>1, <1>3, ReferencesOf
<1>6. \A s \in Subscriber : flight'[s] # <<>> => s \in heap' \cup lapsed'
  BY <1>1, <1>2 DEF GenaInv, SubscribersAccounted
<1> QED BY <1>3, <1>4, <1>5, <1>6 DEF GenaInv, SubscribersAccounted

LEMMA UnsubscribeKeeps ==
  ASSUME GenaInv, NEW s \in Subscriber, Unsubscribe(s)
  PROVE  GenaInv'
<1>1. /\ s \in Listed /\ Unlink({s}) /\ Forget
      /\ RefCount' = [RefCount EXCEPT ![s] = @ - 1]
      /\ heap' = IF Unreferenced(RefCount'[s]) THEN heap \ {s} ELSE heap
      /\ UNCHANGED <<made, Disposing, expired, lapsed, SEQ, flight>>
  BY DEF Unsubscribe, wireVars
<1>2. s \in heap \ Disposing /\ RefCount[s] = Len(flight[s]) + 1 /\ Len(flight[s]) \in Nat
  <2>1. s \in heap \ Disposing
    BY <1>1, GenaFacts
  <2> QED BY <2>1, <1>1, ReferencesOf, GenaFacts
<1>3. /\ list' \in [EventedService -> SUBSET (heap \ {s})]
      /\ total' \in [EventedService -> Int] /\ Listed' = Listed \ {s}
      /\ \A svc \in EventedService :
           /\ total'[svc] = Cardinality(list'[svc]) /\ total'[svc] <= MaxSubscribers
           /\ list'[svc] \cap Disposing' = {}
           /\ \A other \in EventedService \ {svc} : list'[svc] \cap list'[other] = {}
  BY <1>1, UnlinkLists
<1>4. heap \ {s} \subseteq heap' /\ heap' \subseteq heap
  BY <1>1
<1>5. RefCount' \in [Subscriber -> Int] /\ RefCount'[s] = Len(flight[s])
  BY <1>1, <1>2 DEF GenaInv, GenaTypeOK
<1>6. GenaTypeOK'
  <2>1. heap' \subseteq 1 .. made'
    BY <1>1, <1>4 DEF GenaInv, GenaTypeOK
  <2>2. expects' \in [Subscriber -> Nat \cup {Gap}]
    BY <1>1, ForgetTypes DEF GenaInv
  <2>3. list' \in [EventedService -> SUBSET heap']
    BY <1>3, <1>4
  <2> QED BY <2>1, <2>2, <2>3, <1>1, <1>3, <1>5 DEF GenaInv, GenaTypeOK
<1>7. ASSUME NEW t \in heap' \ Disposing'
      PROVE  /\ RefCount'[t] = Len(flight'[t]) + IF t \in Listed' THEN 1 ELSE 0
             /\ RefCount'[t] > 0
  <2>1. t \in heap \ Disposing
    BY <1>1, <1>4
  <2>2. CASE t = s
    BY <2>2, <1>1, <1>2, <1>3, <1>5 DEF Unreferenced
  <2>3. CASE t # s
    BY <2>1, <2>3, <1>1, <1>3, ReferencesOf DEF GenaInv, GenaTypeOK
  <2> QED BY <2>2, <2>3
<1>8. ASSUME NEW t \in Subscriber, flight'[t] # <<>>
      PROVE  t \in heap' \cup lapsed'
  <2>1. t \in heap \cup lapsed
    BY <1>1, <1>8 DEF GenaInv, SubscribersAccounted
  <2>2. t = s => heap' = heap
    BY <1>1, <1>5, <1>8, GenaFacts DEF Unreferenced
  <2> QED BY <2>1, <2>2, <1>1, <1>4
<1> QED BY <1>3, <1>6, <1>7, <1>8 DEF GenaInv, SubscribersAccounted

(* The steps that only read, or only change who has expired.                *)
LEMMA SameSubscribersKeep ==
  ASSUME GenaInv, UNCHANGED <<subscriberVars, wireVars>>, lapsed \subseteq lapsed',
         expired' \subseteq lapsed', lapsed' \subseteq 1 .. made,
         expects' \in [Subscriber -> Nat \cup {Gap}]
  PROVE  GenaInv'
<1>1. /\ UNCHANGED <<made, heap, list, total, RefCount, Disposing, SEQ, flight>>
      /\ Listed' = Listed
  BY DEF subscriberVars, wireVars, Listed
<1>2. GenaTypeOK'
  BY <1>1 DEF GenaInv, GenaTypeOK
<1>3. \A s \in Subscriber : flight'[s] # <<>> => s \in heap' \cup lapsed'
  BY <1>1 DEF GenaInv, SubscribersAccounted
<1> QED BY <1>1, <1>2, <1>3 DEF GenaInv, SubscribersAccounted

LEMMA RenewKeeps ==
  ASSUME GenaInv, NEW s \in Subscriber, Renew(s)
  PROVE  GenaInv'
<1>1. UNCHANGED <<subscriberVars, wireVars, lapsed, expects>> /\ expired' \subseteq expired
  BY DEF Renew
<1> QED BY <1>1, SameSubscribersKeep DEF GenaInv, GenaTypeOK

LEMMA ExpireKeeps ==
  ASSUME GenaInv, NEW s \in Subscriber, Expire(s)
  PROVE  GenaInv'
<1>1. /\ UNCHANGED <<subscriberVars, wireVars>> /\ Forget /\ s \in Listed
      /\ expired' = expired \cup {s} /\ lapsed' = lapsed \cup {s}
  BY DEF Expire
<1>2. s \in 1 .. made
  BY <1>1, GenaFacts
<1>3. expects' \in [Subscriber -> Nat \cup {Gap}]
  BY <1>1, ForgetTypes DEF GenaInv
<1> QED BY <1>1, <1>2, <1>3, SameSubscribersKeep DEF GenaInv, GenaTypeOK

LEMMA AcceptKeeps ==
  ASSUME GenaInv, NEW s \in Subscriber, Accept(s)
  PROVE  GenaInv'
<1> DEFINE seq == Head(flight[s]).seq
<1>1. /\ UNCHANGED <<subscriberVars, wireVars, expired, lapsed>> /\ flight[s] # <<>>
      /\ expects' = [expects EXCEPT ![s] = IF @ \in {0, seq, seq + 1} THEN seq + 1 ELSE Gap]
  BY DEF Accept
<1>2. seq \in Nat
  <2>1. flight[s] \in Seq(Event)
    BY DEF GenaInv, GenaTypeOK
  <2>2. Head(flight[s]) \in Event
    BY <1>1, <2>1, QueueTake
  <2> QED BY <2>2 DEF Event
<1> HIDE DEF seq
<1>3. expects' \in [Subscriber -> Nat \cup {Gap}]
  BY <1>1, <1>2 DEF GenaInv, GenaTypeOK
<1> QED BY <1>1, <1>3, SameSubscribersKeep DEF GenaInv, GenaTypeOK

LEMMA SendEventKeeps ==
  ASSUME GenaInv, NEW svc \in EventedService, NEW body \in EventBody, SendEvent(svc, body)
  PROVE  GenaInv'
<1> DEFINE R == Receivers(svc)
<1>1. /\ Post(R, body)
      /\ RefCount' = [s \in Subscriber |-> IF s \in R THEN RefCount[s] + 1 ELSE RefCount[s]]
      /\ UNCHANGED <<made, heap, list, total, Disposing, expired, lapsed, expects>>
      /\ Listed' = Listed
  BY DEF SendEvent, Listed
<1>2. R \subseteq list[svc] /\ R \subseteq heap /\ R \subseteq Subscriber
  <2>1. R \subseteq list[svc] /\ list[svc] \subseteq heap
    BY DEF Receivers, GenaInv, GenaTypeOK
  <2> QED BY <2>1, GenaFacts
<1> HIDE DEF R
<1>3. /\ flight' \in [Subscriber -> Seq(Event)] /\ SEQ' \in [Subscriber -> Nat]
      /\ \A s \in Subscriber : IF s \in R THEN Len(flight'[s]) = Len(flight[s]) + 1
                                          ELSE flight'[s] = flight[s]
  BY <1>1, <1>2, PostQueues
<1>4. GenaTypeOK'
  <2>1. RefCount' \in [Subscriber -> Int]
    BY <1>1 DEF GenaInv, GenaTypeOK
  <2> QED BY <2>1, <1>1, <1>3 DEF GenaInv, GenaTypeOK
<1>5. ASSUME NEW s \in heap' \ Disposing'
      PROVE  /\ RefCount'[s] = Len(flight'[s]) + IF s \in Listed' THEN 1 ELSE 0
             /\ RefCount'[s] > 0
  <2>1. s \in heap \ Disposing
    BY <1>1
  <2>2. /\ s \in Subscriber /\ RefCount[s] \in Int /\ RefCount[s] > 0
        /\ RefCount[s] = Len(flight[s]) + IF s \in Listed THEN 1 ELSE 0
        /\ Len(flight[s]) \in Nat
    BY <2>1, ReferencesOf, GenaFacts
  <2>3. CASE s \in R
    <3>1. RefCount'[s] = RefCount[s] + 1
      BY <2>2, <2>3, <1>1
    <3>2. Len(flight'[s]) = Len(flight[s]) + 1
      BY <2>2, <2>3, <1>3
    <3>3. Listed' = Listed
      BY <1>1
    <3>4. CASE s \in Listed
      BY <3>1, <3>2, <3>3, <3>4, <2>2
    <3>5. CASE s \notin Listed
      BY <3>1, <3>2, <3>3, <3>5, <2>2
    <3> QED BY <3>4, <3>5
  <2>4. CASE s \notin R
    BY <2>2, <2>4, <1>1, <1>3
  <2> QED BY <2>3, <2>4
<1>6. \A s \in Subscriber : flight'[s] # <<>> => s \in heap' \cup lapsed'
  BY <1>1, <1>2, <1>3 DEF GenaInv, SubscribersAccounted
<1> QED BY <1>1, <1>4, <1>5, <1>6 DEF GenaInv, SubscribersAccounted

(* The first event in flight to s is settled.                               *)
LEMMA FlightTaken ==
  ASSUME GenaInv, NEW s \in Subscriber, flight[s] # <<>>,
         flight' = [flight EXCEPT ![s] = Tail(@)]
  PROVE  /\ flight' \in [Subscriber -> Seq(Event)]
         /\ Len(flight'[s]) = Len(flight[s]) - 1 /\ Len(flight[s]) \in Nat \ {0}
         /\ flight'[s] # <<>> <=> Len(flight[s]) > 1
         /\ \A t \in Subscriber \ {s} : flight'[t] = flight[t]
<1>1. flight \in [Subscriber -> Seq(Event)]
  BY DEF GenaInv, GenaTypeOK
<1>2. /\ Tail(flight[s]) \in Seq(Event) /\ Len(Tail(flight[s])) = Len(flight[s]) - 1
      /\ Len(flight[s]) \in Nat /\ Len(flight[s]) > 0
  BY <1>1, QueueTake, Queue
<1>3. Tail(flight[s]) # <<>> <=> Len(flight[s]) - 1 # 0
  BY <1>2, Queue
<1>4. flight'[s] = Tail(flight[s]) /\ \A t \in Subscriber \ {s} : flight'[t] = flight[t]
  BY <1>1
<1>5. Len(flight[s]) - 1 # 0 <=> Len(flight[s]) > 1
  <2> DEFINE n == Len(flight[s])
  <2>1. n \in Nat /\ n > 0
    BY <1>2
  <2> HIDE DEF n
  <2>2. n - 1 # 0 <=> n > 1
    BY <2>1
  <2> QED BY <2>2 DEF n
<1>6. flight' \in [Subscriber -> Seq(Event)]
  BY <1>1, <1>2
<1> QED BY <1>2, <1>3, <1>4, <1>5, <1>6

LEMMA AnsweredKeeps ==
  ASSUME GenaInv, NEW s \in Subscriber, Answered(s)
  PROVE  GenaInv'
<1>1. /\ flight[s] # <<>> /\ flight' = [flight EXCEPT ![s] = Tail(@)]
      /\ RefCount' = IF Live(s) THEN [RefCount EXCEPT ![s] = @ - 1] ELSE RefCount
      /\ heap' = IF Live(s) /\ Unreferenced(RefCount'[s]) THEN heap \ {s} ELSE heap
      /\ UNCHANGED <<made, list, total, Disposing, expired, lapsed, SEQ, expects>>
      /\ Listed' = Listed
  BY DEF Answered, Listed
<1>2. /\ flight' \in [Subscriber -> Seq(Event)]
      /\ Len(flight'[s]) = Len(flight[s]) - 1 /\ Len(flight[s]) \in Nat \ {0}
      /\ flight'[s] # <<>> <=> Len(flight[s]) > 1
      /\ \A t \in Subscriber \ {s} : flight'[t] = flight[t]
  BY <1>1, FlightTaken
<1>3. heap \ {s} \subseteq heap' /\ heap' \subseteq heap
  BY <1>1
<1>4. Live(s) => /\ RefCount[s] = Len(flight[s]) + (IF s \in Listed THEN 1 ELSE 0)
                 /\ RefCount'[s] = RefCount[s] - 1 /\ RefCount[s] \in Int
  BY <1>1, ReferencesOf DEF Live, GenaInv, GenaTypeOK
<1>5. s \notin heap' => s \notin Listed /\ (s \in heap => flight'[s] = <<>>)
  <2>1. CASE Live(s)
    <3> SUFFICES ASSUME s \notin heap' PROVE s \notin Listed /\ flight'[s] = <<>>
      OBVIOUS
    <3>1. RefCount'[s] = 0
      BY <2>1, <1>1 DEF Live, Unreferenced
    <3> DEFINE n == Len(flight[s])
    <3>2. n \in Nat \ {0} /\ RefCount[s] = n + (IF s \in Listed THEN 1 ELSE 0)
          /\ RefCount[s] - 1 = 0 /\ RefCount[s] \in Int
      BY <3>1, <2>1, <1>2, <1>4
    <3> HIDE DEF n
    <3>3. s \notin Listed /\ n = 1
      BY <3>2
    <3> QED BY <3>3, <1>2 DEF n
  <2>2. CASE ~Live(s)
    BY <2>2, <1>1, GenaFacts DEF Live
  <2> QED BY <2>1, <2>2
<1>6. GenaTypeOK'
  <2>1. heap' \subseteq 1 .. made'
    BY <1>1, <1>3 DEF GenaInv, GenaTypeOK
  <2>2. RefCount' \in [Subscriber -> Int]
    BY <1>1, <1>4 DEF GenaInv, GenaTypeOK
  <2>3. list' \in [EventedService -> SUBSET heap']
    BY <1>1, <1>3, <1>5 DEF GenaInv, GenaTypeOK, Listed
  <2> QED BY <2>1, <2>2, <2>3, <1>1, <1>2 DEF GenaInv, GenaTypeOK
<1>7. ASSUME NEW t \in heap' \ Disposing'
      PROVE  /\ RefCount'[t] = Len(flight'[t]) + IF t \in Listed' THEN 1 ELSE 0
             /\ RefCount'[t] > 0
  <2>1. t \in heap \ Disposing
    BY <1>1, <1>3
  <2>2. CASE t = s
    BY <2>1, <2>2, <1>1, <1>2, <1>4 DEF Live, Unreferenced
  <2>3. CASE t # s
    BY <2>1, <2>3, <1>1, <1>2, ReferencesOf DEF GenaInv, GenaTypeOK
  <2> QED BY <2>2, <2>3
<1>8. ASSUME NEW t \in Subscriber, flight'[t] # <<>>
      PROVE  t \in heap' \cup lapsed'
  <2>1. flight[t] # <<>>
    BY <1>1, <1>2, <1>8
  <2>2. t \in heap \cup lapsed
    BY <2>1 DEF GenaInv, SubscribersAccounted
  <2> QED BY <2>2, <1>1, <1>3, <1>5, <1>8
<1> QED BY <1>1, <1>6, <1>7, <1>8 DEF GenaInv, SubscribersAccounted

(* Whoever loses an event is off its list.  In the last case it is off and  *)
(* freed, or stays, with its list untouched, as one that was off before.    *)
LEMMA FailedKeeps ==
  ASSUME GenaInv, NEW s \in Subscriber, Failed(s)
  PROVE  GenaInv' /\ Listed' = Listed \ {s}
<1> DEFINE n == Len(flight[s])
<1>1. /\ flight[s] # <<>> /\ flight' = [flight EXCEPT ![s] = Tail(@)] /\ Forget
      /\ UNCHANGED <<made, expired, lapsed, SEQ>>
  BY DEF Failed
<1>2. /\ flight' \in [Subscriber -> Seq(Event)]
      /\ Len(flight'[s]) = n - 1 /\ n \in Nat \ {0}
      /\ flight'[s] # <<>> <=> n > 1
      /\ \A t \in Subscriber \ {s} : flight'[t] = flight[t]
  BY <1>1, FlightTaken
<1>3. expects' \in [Subscriber -> Nat \cup {Gap}]
  BY <1>1, ForgetTypes DEF GenaInv
<1>4. /\ made \in Nat /\ heap \subseteq 1 .. made /\ Disposing \subseteq 1 .. made
      /\ Listed \subseteq heap \ Disposing /\ 1 .. made \subseteq Subscriber
  BY GenaFacts
<1>5. CASE ~Live(s)
  <2>1. /\ UNCHANGED <<RefCount, Disposing, heap, list, total>> /\ Listed' = Listed
        /\ s \notin Listed
    BY <1>5, <1>4 DEF Failed, Listed, Live
  <2>2. GenaTypeOK'
    BY <2>1, <1>1, <1>2, <1>3 DEF GenaInv, GenaTypeOK
  <2>3. \A t \in heap \ Disposing : t \in Subscriber \ {s}
    BY <1>4, <1>5 DEF Live
  <2>4. \A t \in heap' \ Disposing' :
          /\ RefCount'[t] = Len(flight'[t]) + IF t \in Listed' THEN 1 ELSE 0
          /\ RefCount'[t] > 0
    BY <2>1, <2>3, <1>2 DEF GenaInv, SubscribersAccounted
  <2>5. \A t \in Subscriber : flight'[t] # <<>> => t \in heap' \cup lapsed'
    BY <2>1, <1>1, <1>2 DEF GenaInv, SubscribersAccounted
  <2> QED BY <2>1, <2>2, <2>4, <2>5 DEF GenaInv, SubscribersAccounted
<1>6. CASE Live(s)
  <2>1. /\ RefCount' = [RefCount EXCEPT ![s] = FailedRefs(s)]
        /\ Disposing' = IF Unreferenced(RefCount[s] - 1) THEN Disposing ELSE Disposing \cup {s}
        /\ heap' = IF Unreferenced(RefCount'[s]) THEN heap \ {s} ELSE heap
        /\ IF Unreferenced(RefCount[s] - 1) THEN UNCHANGED <<list, total>> ELSE Unlink({s})
    BY <1>6 DEF Failed
  <2>2. /\ s \in heap \ Disposing /\ RefCount[s] \in Int
        /\ RefCount[s] = n + IF s \in Listed THEN 1 ELSE 0
    BY <1>6, ReferencesOf DEF Live
  <2>3. RefCount' \in [Subscriber -> Int] /\ RefCount'[s] = n - 1
        /\ \A t \in Subscriber \ {s} : RefCount'[t] = RefCount[t]
    <3> HIDE DEF n
    <3>1. FailedRefs(s) = n - 1
      BY <2>2, <1>2 DEF FailedRefs
    <3> QED BY <3>1, <2>1, <1>2 DEF GenaInv, GenaTypeOK
  <2>4. Unreferenced(RefCount[s] - 1) => s \notin Listed /\ n = 1
    <3> HIDE DEF n
    <3> QED BY <2>2, <1>2 DEF Unreferenced
  <2>5. /\ list' \in [EventedService -> SUBSET (heap \ {s})]
        /\ total' \in [EventedService -> Int]
        /\ Listed' = Listed \ {s}
        /\ \A svc \in EventedService :
             /\ total'[svc] = Cardinality(list'[svc]) /\ total'[svc] <= MaxSubscribers
             /\ list'[svc] \cap Disposing = {}
             /\ \A other \in EventedService \ {svc} : list'[svc] \cap list'[other] = {}
    <3>1. CASE Unreferenced(RefCount[s] - 1)
      <4>1. UNCHANGED <<list, total>> /\ s \notin Listed /\ Listed' = Listed
        BY <3>1, <2>1, <2>4 DEF Listed
      <4> QED BY <4>1 DEF GenaInv, GenaTypeOK, SubscribersAccounted, Listed
    <3>2. CASE ~Unreferenced(RefCount[s] - 1)
      BY <3>2, <2>1, UnlinkLists
    <3> QED BY <3>1, <3>2
  <2>6. heap \ {s} \subseteq heap' /\ heap' \subseteq heap
        /\ Disposing \subseteq Disposing' /\ Disposing' \subseteq Disposing \cup {s}
    BY <2>1
  <2>7. s \in heap' => s \in Disposing' \/ n > 1
    <3> HIDE DEF n
    <3> QED BY <2>1, <2>3, <1>2, <2>4 DEF Unreferenced
  <2>8. s \notin heap' => n = 1
    <3> HIDE DEF n
    <3> QED BY <2>1, <2>2, <2>3, <1>2 DEF Unreferenced
  <2>9. GenaTypeOK'
    <3>1. heap' \subseteq 1 .. made' /\ Disposing' \subseteq 1 .. made'
      BY <1>1, <1>4, <2>2, <2>6
    <3>2. list' \in [EventedService -> SUBSET heap']
      BY <2>5, <2>6
    <3> QED BY <3>1, <3>2, <1>1, <1>2, <1>3, <2>3, <2>5 DEF GenaInv, GenaTypeOK
  <2>10. \A svc \in EventedService : list'[svc] \cap Disposing' = {}
    BY <2>5, <2>6
  <2>11. ASSUME NEW t \in heap' \ Disposing'
         PROVE  /\ RefCount'[t] = Len(flight'[t]) + IF t \in Listed' THEN 1 ELSE 0
                /\ RefCount'[t] > 0
    <3>1. t \in heap \ Disposing
      BY <2>6
    <3>2. CASE t = s
      <4> HIDE DEF n
      <4>1. n > 1 /\ n - 1 > 0 /\ s \notin Listed'
        BY <3>2, <2>5, <2>7, <1>2
      <4> QED BY <4>1, <3>2, <2>3, <1>2
    <3>3. CASE t # s
      BY <3>1, <3>3, <1>2, <2>3, <2>5, ReferencesOf
    <3> QED BY <3>2, <3>3
  <2>12. ASSUME NEW t \in Subscriber, flight'[t] # <<>>
         PROVE  t \in heap' \cup lapsed'
    <3>1. CASE t = s
      <4> HIDE DEF n
      <4> QED BY <3>1, <2>12, <1>2, <2>8
    <3>2. CASE t # s
      <4>1. t \in heap \cup lapsed
        BY <3>2, <2>12, <1>2 DEF GenaInv, SubscribersAccounted
      <4> QED BY <4>1, <3>2, <2>6, <1>1
    <3> QED BY <3>1, <3>2
  <2> QED BY <2>5, <2>9, <2>10, <2>11, <2>12 DEF GenaInv, SubscribersAccounted
<1> QED BY <1>5, <1>6

-----------------------------------------------------------------------------
(* The renderer                                                             *)

LEMMA Bodies ==
  /\ Nothing \in Body
  /\ \A V \in SUBSET Variable : \A f \in [V -> Value] : f \in Body
  /\ \A b \in Body : DOMAIN b \subseteq Variable /\ \A v \in DOMAIN b : b[v] \in Value
<1>1. \A V \in SUBSET Variable : \A f \in [V -> Value] : f \in Body
  BY DEF Body
<1>2. {} \in SUBSET Variable /\ Nothing \in [{} -> Value]
  BY DEF Nothing
<1>3. \A b \in Body : DOMAIN b \subseteq Variable /\ \A v \in DOMAIN b : b[v] \in Value
  BY DEF Body
<1> QED BY <1>1, <1>2, <1>3

(* The kinds of step that the proofs below distinguish.                     *)
QuietStep == (TimerEvent \/ Snapshot \/ Clear \/ Application)
             /\ UNCHANGED <<genaVars, lastChange, view, news>>

LEMMA Steps ==
  ASSUME [Next]_vars
  PROVE  \/ UNCHANGED vars
         \/ QuietStep
         \/ \E svc \in Service : Send(svc)
         \/ /\ ForgetViews /\ UNCHANGED <<lastChangeVars, lastChange>> /\ Idle
            /\ \E svc \in Service : Subscribe(svc, InitialBody(svc)) \/ SubscribeRejected(svc)
         \/ /\ ForgetViews /\ UNCHANGED <<lastChangeVars, lastChange>>
            /\ \E s \in Subscriber : Renew(s) \/ Unsubscribe(s) \/ Answered(s) \/ Failed(s) \/ Expire(s)
         \/ \E s \in Subscriber : Hear(s)
BY DEF Next, FireGena, AppCall, QuietStep, Request, Lapse, Sink

LEMMA LastChangeStep ==
  ASSUME LastChangeTypeOK, [Next]_vars
  PROVE  LastChangeTypeOK'
<1>1. /\ val \in [Variable -> Value] /\ mask \subseteq Variable /\ untold \subseteq Variable
      /\ at \in Place /\ snapshot \in Body /\ changes \in 0 .. MaxChanges /\ MaxChanges \in Nat
  BY LastChangeAssumption DEF LastChangeTypeOK
<1>2. CASE UNCHANGED lastChangeVars
  BY <1>1, <1>2 DEF lastChangeVars, LastChangeTypeOK
<1>3. CASE TimerEvent
  BY <1>1, <1>3 DEF TimerEvent, Moves, LastChangeTypeOK, Place
<1>4. ASSUME NEW svc \in Service, TakeSnapshot(svc), at' \in Place
      PROVE  LastChangeTypeOK'
  <2>1. ChangedOf(svc) \in SUBSET Variable
    BY <1>1 DEF ChangedOf
  <2>2. snapshot' \in [ChangedOf(svc) -> Value]
    BY <2>1, <1>1, <1>4 DEF TakeSnapshot
  <2>3. snapshot' \in Body
    BY <2>1, <2>2, Bodies
  <2> QED BY <2>3, <1>1, <1>4 DEF TakeSnapshot, LastChangeTypeOK
<1>5. CASE Snapshot
  BY <1>4, <1>5 DEF Snapshot, Moves, Service, Place
<1>6. CASE Clear
  BY <1>1, <1>6 DEF Clear, Moves, LastChangeTypeOK, Place
<1>7. ASSUME NEW svc \in Service, Sent(svc) PROVE LastChangeTypeOK'
  BY <1>1, <1>7, Bodies DEF Sent, LastChangeTypeOK, Place
<1>8. ASSUME NEW v \in Variable, NEW x \in Value, Set(v, x),
             mask' \subseteq mask \cup {v}, at' \in Place
      PROVE  LastChangeTypeOK'
  <2>1. val' \in [Variable -> Value] /\ untold' \subseteq Variable /\ snapshot' \in Body
    BY <1>1, <1>8 DEF Set
  <2>2. changes' \in 0 .. MaxChanges
    BY <1>1, <1>8 DEF Set, Counted
  <2> QED BY <2>1, <2>2, <1>1, <1>8 DEF LastChangeTypeOK
<1>9. CASE Application
  <2>1. PICK v \in Variable, x \in Value : StateChange(v, x) \/ SetQuietly(v, x) \/ ClearOverwritten(v, x)
    BY <1>9 DEF Application
  <2>2. Set(v, x) /\ mask' \subseteq mask \cup {v} /\ at' \in {at, "idle"}
    BY <2>1 DEF StateChange, SetQuietly, ClearOverwritten
  <2>3. at' \in Place
    BY <2>2, <1>1 DEF Place
  <2> QED BY <2>2, <2>3, <1>8
<1> QED BY <1>2, <1>3, <1>5, <1>6, <1>7, <1>9, Steps DEF QuietStep, Send, Hear, vars

LEMMA GenaStep ==
  ASSUME TypeOK, SubscribersAccounted, [Next]_vars
  PROVE  GenaInv'
<1>1. GenaInv /\ snapshot \in Body /\ lastChange \in [Service -> Body]
  BY DEF GenaInv, TypeOK, LastChangeTypeOK
<1>2. EventedService = Service /\ EventBody = Body
  BY RendererAssumption
<1>3. CASE UNCHANGED genaVars
  <2>1. UNCHANGED <<subscriberVars, wireVars, expired, lapsed, expects>>
    BY <1>3 DEF genaVars
  <2> QED BY <2>1, <1>1, SameSubscribersKeep DEF GenaInv, GenaTypeOK
<1>4. ASSUME NEW svc \in Service, Send(svc) PROVE GenaInv'
  BY <1>1, <1>2, <1>4, SendEventKeeps DEF Send
<1>5. ASSUME NEW svc \in Service,
             Subscribe(svc, InitialBody(svc)) \/ SubscribeRejected(svc)
      PROVE  GenaInv'
  <2>1. InitialBody(svc) \in EventBody /\ svc \in EventedService
    BY <1>1, <1>2 DEF InitialBody
  <2> QED BY <2>1, <1>1, <1>5, SubscribeKeeps, SubscribeRejectedKeeps
<1>6. ASSUME NEW s \in Subscriber,
             Renew(s) \/ Unsubscribe(s) \/ Answered(s) \/ Failed(s) \/ Expire(s)
      PROVE  GenaInv'
  BY <1>1, <1>6, RenewKeeps, UnsubscribeKeeps, AnsweredKeeps, FailedKeeps, ExpireKeeps
<1>7. ASSUME NEW s \in Subscriber, Hear(s) PROVE GenaInv'
  BY <1>1, <1>7, AcceptKeeps DEF Hear
<1> QED BY <1>3, <1>4, <1>5, <1>6, <1>7, Steps DEF QuietStep, vars

LEMMA TypeStep ==
  ASSUME TypeOK, SubscribersAccounted, [Next]_vars
  PROVE  TypeOK'
<1>1. /\ lastChange \in [Service -> Body] /\ snapshot \in Body
      /\ view \in [Subscriber -> [Variable -> Value \cup {NotTold}]]
      /\ news \in [Subscriber -> SUBSET Variable]
      /\ flight \in [Subscriber -> Seq(Event)]
  BY DEF TypeOK, LastChangeTypeOK, GenaTypeOK
<1>2. LastChangeTypeOK' /\ GenaTypeOK'
  BY LastChangeStep, GenaStep DEF GenaInv, TypeOK
<1>3. lastChange' \in [Service -> Body]
  BY <1>1, Steps DEF QuietStep, Send, Hear, vars
<1>4. ForgetViews => /\ view' \in [Subscriber -> [Variable -> Value \cup {NotTold}]]
                     /\ news' \in [Subscriber -> SUBSET Variable]
  <2>1. Uninformed \in [Variable -> Value \cup {NotTold}]
    BY DEF Uninformed
  <2> QED BY <2>1, <1>1 DEF ForgetViews
<1>5. ASSUME NEW svc \in Service, Send(svc)
      PROVE  view' = view /\ news' \in [Subscriber -> SUBSET Variable]
  <2>1. DOMAIN snapshot \subseteq Variable
    BY <1>1, Bodies
  <2> QED BY <2>1, <1>1, <1>5 DEF Send
<1>6. ASSUME NEW s \in Subscriber, Hear(s)
      PROVE  news' = news /\ view' \in [Subscriber -> [Variable -> Value \cup {NotTold}]]
  <2> DEFINE body == Head(flight[s]).body
  <2>1. flight[s] # <<>>
    BY <1>6 DEF Hear, Accept
  <2>2. Head(flight[s]) \in Event
    BY <2>1, <1>1, QueueTake
  <2>3. body \in Body
    BY <2>2, RendererAssumption DEF Event
  <2>4. \A v \in DOMAIN body : body[v] \in Value
    BY <2>3, Bodies
  <2>5. view' = [view EXCEPT ![s] = [v \in Variable |->
                   IF v \in DOMAIN body THEN body[v] ELSE view[s][v]]]
    BY <1>6 DEF Hear
  <2> HIDE DEF body
  <2>6. [v \in Variable |-> IF v \in DOMAIN body THEN body[v] ELSE view[s][v]]
          \in [Variable -> Value \cup {NotTold}]
    BY <2>4, <1>1
  <2>7. news' = news
    BY <1>6 DEF Hear
  <2> QED BY <2>5, <2>6, <2>7, <1>1
<1>7. /\ view' \in [Subscriber -> [Variable -> Value \cup {NotTold}]]
      /\ news' \in [Subscriber -> SUBSET Variable]
  BY <1>1, <1>4, <1>5, <1>6, Steps DEF QuietStep, vars
<1> QED BY <1>2, <1>3, <1>7 DEF TypeOK

LEMMA AccountsInit == Init => TypeOK /\ SubscribersAccounted
<1> SUFFICES ASSUME Init PROVE TypeOK /\ SubscribersAccounted
  OBVIOUS
<1>1. LastChangeInit /\ GenaInit /\ lastChange = [svc \in Service |-> Nothing]
      /\ view = [s \in Subscriber |-> Uninformed] /\ news = [s \in Subscriber |-> {}]
  BY DEF Init
<1>2. LastChangeTypeOK
  BY <1>1, Bodies, LastChangeAssumption DEF LastChangeInit, LastChangeTypeOK, Place
<1>3. GenaTypeOK
  BY <1>1, EmptySeq, GenaAssumption DEF GenaInit, GenaTypeOK
<1>4. TypeOK
  BY <1>1, <1>2, <1>3, Bodies DEF TypeOK, Uninformed
<1>5. Cardinality({}) = 0
  BY FS_EmptySet
<1>6. SubscribersAccounted
  BY <1>1, <1>5, GenaAssumption DEF GenaInit, SubscribersAccounted
<1> QED BY <1>4, <1>6

(* Every variable keeps to its type, for every set of variables and values  *)
(* and every bound.                                                         *)
THEOREM TypeCorrect == Spec => []TypeOK
<1> DEFINE Inv == TypeOK /\ SubscribersAccounted
<1>1. Inv /\ [Next]_vars => Inv'
  BY TypeStep, GenaStep DEF GenaInv
<1> QED BY <1>1, AccountsInit, PTL DEF Spec

(* Whatever the requests, expirations and answers, and in whatever order: a *)
(* subscriber in the heap that is not being disposed of counts its list and *)
(* its events in flight exactly, the length of a list never passes the      *)
(* limit, and the sink of an event finds a freed subscriber only after its  *)
(* subscription has lapsed.                                                 *)
THEOREM CountsAreExact == Spec => []SubscribersAccounted
<1> DEFINE Inv == TypeOK /\ SubscribersAccounted
<1>1. Inv /\ [Next]_vars => Inv'
  BY TypeStep, GenaStep DEF GenaInv
<1> QED BY <1>1, AccountsInit, PTL DEF Spec

-----------------------------------------------------------------------------
(* What is in flight and what is known                                      *)

LEMMA WatchedFacts ==
  ASSUME GenaInv
  PROVE  /\ Watched \subseteq Listed /\ Watched \subseteq 1 .. made /\ Watched \subseteq Subscriber
         /\ \A svc \in EventedService : list[svc] \cap Watched \subseteq Receivers(svc)
<1>1. Watched \subseteq Listed /\ Watched \cap lapsed = {} /\ expired \subseteq lapsed
  BY DEF Watched, GenaInv, GenaTypeOK
<1>2. Listed \subseteq 1 .. made /\ 1 .. made \subseteq Subscriber
  BY GenaFacts
<1> QED BY <1>1, <1>2 DEF Receivers

(* A step that leaves the subscriptions of s and the snapshot alone.        *)
LEMMA FollowsSame ==
  ASSUME NEW svc \in Service, NEW s \in Subscriber, Follows(svc, s),
         flight'[s] = flight[s], SEQ'[s] = SEQ[s], expects'[s] = expects[s],
         view'[s] = view[s], news'[s] = news[s], UNCHANGED lastChangeVars
  PROVE  Follows(svc, s)'
<1>1. UNCHANGED <<val, at, snapshot, untold>>
  BY DEF lastChangeVars
<1>2. Numbered(s)' /\ TookFirst(s)'
  BY DEF Follows, Numbered, TookFirst, First
<1>3. Informed(svc, s)'
  BY <1>1 DEF Follows, Informed, InFlight, Knows, Silent, Sending
<1> QED BY <1>2, <1>3 DEF Follows

LEMMA NotMadeStep ==
  ASSUME TypeOK, SubscribersAccounted, NotMade, [Next]_vars
  PROVE  NotMade'
<1> SUFFICES ASSUME NEW s \in Subscriber, s > made'
             PROVE  SEQ'[s] = 0 /\ expects'[s] = 0 /\ news'[s] = {}
  BY DEF NotMade
<1>1. GenaInv /\ EventedService = Service /\ made \in Nat /\ s \in Nat
      /\ expects \in [Subscriber -> Nat \cup {Gap}] /\ SEQ \in [Subscriber -> Nat]
      /\ news \in [Subscriber -> SUBSET Variable]
  <2>1. GenaInv /\ EventedService = Service /\ s \in Nat
    BY RendererAssumption, GenaAssumption DEF GenaInv, TypeOK, Subscriber
  <2>2. made \in Nat
    BY <2>1, GenaFacts
  <2> QED BY <2>1, <2>2 DEF GenaInv, GenaTypeOK, TypeOK
<1>2. made' \in {made, made + 1}
  BY Steps DEF QuietStep, Send, SendEvent, Subscribe, SubscribeRejected, Renew, Unsubscribe,
               Answered, Failed, Expire, Hear, Accept, vars, genaVars, subscriberVars
<1>3. s > made /\ SEQ[s] = 0 /\ expects[s] = 0 /\ news[s] = {}
  BY <1>1, <1>2 DEF NotMade
<1>4. s \notin Listed /\ s \notin Watched /\ \A svc \in Service : s \notin list[svc]
  BY <1>1, <1>3, GenaFacts DEF Listed, Watched
<1>5. Forget => expects'[s] = 0
  BY <1>3 DEF Forget
<1>6. ForgetViews => news'[s] = {}
  BY <1>3 DEF ForgetViews
<1>7. ASSUME NEW S \in SUBSET Subscriber, NEW body, Post(S, body), s \notin S
      PROVE  SEQ'[s] = 0
  BY <1>3, <1>7 DEF Post
<1>8. CASE UNCHANGED <<genaVars, news>>
  BY <1>3, <1>8 DEF genaVars, wireVars
<1>9. ASSUME NEW svc \in Service, Send(svc) PROVE SEQ'[s] = 0 /\ expects'[s] = 0 /\ news'[s] = {}
  <2>1. Receivers(svc) \subseteq list[svc] /\ list[svc] \subseteq Listed /\ Listed \subseteq Subscriber
    BY <1>1, GenaFacts DEF Receivers, Listed
  <2>2. SEQ'[s] = 0 /\ expects'[s] = 0
    BY <2>1, <1>3, <1>4, <1>7, <1>9 DEF Send, SendEvent
  <2>3. news'[s] = {}
    BY <1>3, <1>4, <1>9 DEF Send
  <2> QED BY <2>2, <2>3
<1>10. ASSUME NEW svc \in Service, ForgetViews,
              Subscribe(svc, InitialBody(svc)) \/ SubscribeRejected(svc)
       PROVE  SEQ'[s] = 0 /\ expects'[s] = 0 /\ news'[s] = {}
  <2>1. CASE Subscribe(svc, InitialBody(svc))
    <3>1. made' = made + 1 /\ made < MaxSubscriptions /\ Post({made + 1}, InitialBody(svc)) /\ Forget
      BY <2>1 DEF Subscribe
    <3>2. {made + 1} \in SUBSET Subscriber /\ s \notin {made + 1}
      BY <3>1, <1>1, GenaFacts DEF Subscriber
    <3> QED BY <3>1, <3>2, <1>5, <1>6, <1>7, <1>10
  <2>2. CASE SubscribeRejected(svc)
    BY <2>2, <1>3, <1>5, <1>6, <1>10 DEF SubscribeRejected, wireVars
  <2> QED BY <2>1, <2>2, <1>10
<1>11. ASSUME NEW t \in Subscriber, ForgetViews,
              Renew(t) \/ Unsubscribe(t) \/ Answered(t) \/ Failed(t) \/ Expire(t)
       PROVE  SEQ'[s] = 0 /\ expects'[s] = 0 /\ news'[s] = {}
  <2>1. SEQ' = SEQ /\ (Forget \/ expects' = expects)
    BY <1>11 DEF Renew, Unsubscribe, Answered, Failed, Expire, wireVars
  <2> QED BY <2>1, <1>3, <1>5, <1>6, <1>11
<1>12. ASSUME NEW t \in Subscriber, Hear(t)
       PROVE  SEQ'[s] = 0 /\ expects'[s] = 0 /\ news'[s] = {}
  <2>1. t \in Watched /\ SEQ' = SEQ /\ news' = news /\ \A u \in Subscriber \ {t} : expects'[u] = expects[u]
    BY <1>1, <1>12 DEF Hear, Accept, wireVars
  <2> QED BY <2>1, <1>3, <1>4
<1> QED BY <1>8, <1>9, <1>10, <1>11, <1>12, Steps DEF QuietStep, vars

(* What is known of a subscriber before a step.                             *)
LEMMA FollowFacts ==
  ASSUME GenaInv, NEW s \in Subscriber
  PROVE  /\ flight[s] \in Seq(Event) /\ Len(flight[s]) \in Nat /\ SEQ[s] \in Nat
         /\ First(s) \in Int /\ expects[s] \in Int
         /\ flight[s] = <<>> <=> Len(flight[s]) = 0
<1>1. flight[s] \in Seq(Event) /\ SEQ[s] \in Nat /\ expects[s] \in Nat \cup {Gap}
  BY DEF GenaInv, GenaTypeOK
<1>2. Len(flight[s]) \in Nat /\ (flight[s] = <<>> <=> Len(flight[s]) = 0)
  BY GenaFacts
<1> QED BY <1>1, <1>2 DEF First, Gap

(* The event is the last of those in flight to s and says the snapshot.     *)
LEMMA FollowsSend ==
  ASSUME TypeOK, GenaInv, SnapshotHolds, NEW svc \in Service, Send(svc),
         NEW s \in Subscriber, s \in list[svc] \cap Watched, s \in Receivers(svc), Follows(svc, s)
  PROVE  Follows(svc, s)'
<1> DEFINE q == flight[s]
           n == Len(q)
           e == [seq |-> SEQ[s], body |-> snapshot]
           f == First(s)
<1>1. /\ Sending(svc) /\ UNCHANGED <<val, untold, view, expects>>
      /\ Post(Receivers(svc), snapshot)
      /\ news'[s] = news[s] \cup DOMAIN snapshot
  BY DEF Send, Sent, SendEvent, TypeOK
<1>2. q \in Seq(Event) /\ n \in Nat /\ SEQ[s] \in Nat /\ f \in Int /\ expects[s] \in Int
      /\ (q = <<>> <=> n = 0)
  BY FollowFacts
<1>3. flight'[s] = Append(q, e) /\ SEQ'[s] = SEQ[s] + 1
  BY <1>1 DEF Post, GenaInv, GenaTypeOK
<1>4. snapshot \in EventBody
  BY RendererAssumption DEF TypeOK, LastChangeTypeOK
<1>5. e \in Event
  BY <1>2, <1>4 DEF Event
<1>6. /\ Len(flight'[s]) = n + 1 /\ flight'[s] # <<>>
      /\ \A i \in 1 .. n : flight'[s][i] = q[i]
      /\ flight'[s][n + 1] = e /\ flight'[s] \in Seq(Event)
  <2> HIDE DEF e, q
  <2> QED BY <1>2, <1>3, <1>5, QueuePut DEF n
<1>7. /\ SEQ[s] > 0 /\ f >= 0 /\ f = SEQ[s] - n
      /\ \A i \in 1 .. n : q[i].seq = f + i - 1
      /\ expects[s] \in {0, f, f + 1}
      /\ q = <<>> => expects[s] # f + 1
  BY DEF Follows, Numbered, First
<1>8. First(s)' = f
  <2>1. First(s)' = SEQ'[s] - Len(flight'[s])
    BY DEF First
  <2> HIDE DEF n, q, f
  <2> QED BY <2>1, <1>2, <1>3, <1>6, <1>7
<1>9. e.seq = SEQ[s] /\ e.body = snapshot
  OBVIOUS
<1>10. Numbered(s)'
  <2> SUFFICES ASSUME NEW i \in 1 .. n + 1 PROVE flight'[s][i].seq = f + i - 1
    <3> HIDE DEF n, q, e, f
    <3>1. SEQ'[s] > 0 /\ First(s)' >= 0
      BY <1>2, <1>3, <1>7, <1>8
    <3>2. ASSUME NEW i \in 1 .. Len(flight'[s]) PROVE flight'[s][i].seq = First(s)' + i - 1
      BY <1>6, <1>8
    <3>3. expects'[s] \in {0, First(s)', First(s)' + 1}
      BY <1>1, <1>7, <1>8
    <3> QED BY <3>1, <3>2, <3>3, <1>6 DEF Numbered
  <2> HIDE DEF n, q, e, f
  <2>1. CASE i = n + 1
    BY <2>1, <1>2, <1>6, <1>7, <1>9
  <2>2. CASE i # n + 1
    <3>1. i \in 1 .. n
      BY <2>2, <1>2
    <3> QED BY <3>1, <1>6, <1>7
  <2> QED BY <2>1, <2>2
<1>11. TookFirst(s)'
  <2> SUFFICES ASSUME expects'[s] = f + 1, NEW v \in DOMAIN Head(flight'[s]).body
               PROVE  view'[s][v] = Head(flight'[s]).body[v]
    BY <1>8 DEF TookFirst
  <2>1. q # <<>> /\ n > 0 /\ expects[s] = f + 1
    <3> HIDE DEF n, q, f
    <3> QED BY <1>1, <1>2, <1>7
  <2>2. Head(flight'[s]) = Head(q)
    <3>1. Head(q) = q[1]
      BY <1>2, <2>1, QueueTake
    <3>2. Head(flight'[s]) = flight'[s][1]
      BY <1>6, QueueTake
    <3> HIDE DEF n, q
    <3> QED BY <3>1, <3>2, <2>1, <1>2, <1>6
  <2> QED BY <2>1, <2>2, <1>1 DEF Follows, TookFirst
<1>12. ASSUME NEW v, v \notin DOMAIN snapshot, NEW i \in Nat \ {0}, Silent(s, v, i)
       PROVE  Silent(s, v, i)'
  <2> SUFFICES ASSUME NEW j \in i .. n + 1 PROVE v \notin DOMAIN flight'[s][j].body
    BY <1>6 DEF Silent
  <2>1. CASE j = n + 1
    BY <2>1, <1>6, <1>9, <1>12
  <2>2. CASE j # n + 1
    <3>1. j \in i .. n
      BY <2>2, <1>2
    <3>2. v \notin DOMAIN q[j].body
      BY <3>1, <1>12 DEF Silent
    <3>3. j \in 1 .. n
      BY <3>1, <1>2
    <3> QED BY <3>2, <3>3, <1>6
  <2> QED BY <2>1, <2>2
<1>13. ASSUME NEW v \in news'[s] \ untold' PROVE InFlight(s, v)' \/ Knows(s, v)'
  <2>1. CASE v \in DOMAIN snapshot
    <3>1. snapshot[v] = val[v]
      BY <2>1, <1>1, <1>13 DEF SnapshotHolds
    <3>2. PICK m \in Nat : m = n + 1
      BY <1>2
    <3> HIDE DEF n, e, q
    <3>3. m \in 1 .. Len(flight'[s]) /\ flight'[s][m] = e
      BY <3>2, <1>2, <1>6
    <3>4. Silent(s, v, m + 1)'
      BY <3>2, <1>2, <1>6 DEF Silent
    <3>5. v \in DOMAIN e.body /\ e.body[v] = val'[v] /\ e.seq > 0
      BY <2>1, <3>1, <1>1, <1>7, <1>9
    <3> QED BY <3>3, <3>4, <3>5 DEF InFlight
  <2>2. CASE v \notin DOMAIN snapshot
    <3>1. InFlight(s, v) \/ Knows(s, v)
      BY <2>2, <1>1, <1>13 DEF Follows, Informed
    <3>2. CASE InFlight(s, v)
      <4>1. PICK i \in 1 .. n : /\ v \in DOMAIN q[i].body /\ q[i].body[v] = val[v]
                               /\ q[i].seq > 0 /\ Silent(s, v, i + 1)
        BY <3>2 DEF InFlight
      <4>2. Silent(s, v, i + 1)'
        BY <4>1, <1>2, <1>12, <2>2
      <4>3. i \in 1 .. n + 1
        BY <1>2
      <4> HIDE DEF n, e, q
      <4> QED BY <4>1, <4>2, <4>3, <1>1, <1>6 DEF InFlight
    <3>3. CASE Knows(s, v)
      BY <3>3, <1>1, <1>12, <2>2 DEF Knows
    <3> QED BY <3>1, <3>2, <3>3
  <2> QED BY <2>1, <2>2
<1>14. news'[s] \subseteq VariablesOf(svc)
  BY <1>1 DEF Follows, Informed, SnapshotHolds
<1> QED BY <1>10, <1>11, <1>13, <1>14 DEF Follows, Informed

(* The first event in flight was taken, or was the initial one.             *)
LEMMA FollowsAnswered ==
  ASSUME GenaInv, NEW svc \in Service, NEW s \in Subscriber, s \in Watched, Follows(svc, s),
         Answered(s), view'[s] = view[s], news'[s] = news[s], UNCHANGED lastChangeVars
  PROVE  Follows(svc, s)'
<1> DEFINE q == flight[s]
           n == Len(q)
           f == First(s)
<1>1. /\ q # <<>> /\ flight' = [flight EXCEPT ![s] = Tail(@)] /\ Settled(s)
      /\ SEQ' = SEQ /\ expects' = expects /\ UNCHANGED <<val, at, snapshot, untold>>
  BY DEF Answered, lastChangeVars
<1>2. q \in Seq(Event) /\ n \in Nat /\ SEQ[s] \in Nat /\ f \in Int /\ expects[s] \in Int
  BY FollowFacts
<1>3. /\ SEQ[s] > 0 /\ f >= 0 /\ f = SEQ[s] - n
      /\ \A i \in 1 .. n : q[i].seq = f + i - 1
      /\ expects[s] \in {0, f, f + 1}
  BY DEF Follows, Numbered, First
<1>4. flight'[s] = Tail(q)
  BY <1>1 DEF GenaInv, GenaTypeOK
<1>5. /\ n > 0 /\ Head(q) = q[1] /\ Len(flight'[s]) = n - 1
      /\ \A i \in 1 .. n - 1 : flight'[s][i] = q[i + 1]
  <2> HIDE DEF q
  <2> QED BY <1>1, <1>2, <1>4, QueueTake DEF n
<1>6. flight'[s] \in Seq(Event)
  BY <1>1, <1>2, <1>4, QueueTake
<1> HIDE DEF n, q, f
<1>7. First(s)' = f + 1
  <2>1. First(s)' = SEQ[s] - Len(flight'[s])
    BY <1>1 DEF First
  <2> QED BY <2>1, <1>2, <1>3, <1>5
<1>8. q[1].seq = f
  BY <1>2, <1>3, <1>5
<1>9. expects[s] = f + 1 \/ (f = 0 /\ expects[s] = 0)
  <2>1. f = 0 \/ expects[s] = f + 1 \/ expects[s] = Gap
    BY <1>1, <1>5, <1>8 DEF Settled, q
  <2>2. f \in Nat /\ expects[s] \in {0, f, f + 1} /\ Gap < 0
    BY <1>2, <1>3 DEF Gap
  <2>3. CASE f = 0
    BY <2>2, <2>3
  <2>4. CASE expects[s] = Gap
    BY <2>2, <2>4
  <2> QED BY <2>1, <2>3, <2>4
<1>10. Numbered(s)'
  <2>1. SEQ'[s] > 0 /\ First(s)' >= 0
    BY <1>1, <1>2, <1>3, <1>7
  <2>2. ASSUME NEW i \in 1 .. Len(flight'[s]) PROVE flight'[s][i].seq = First(s)' + i - 1
    <3>1. i \in 1 .. n - 1 /\ i + 1 \in 1 .. n
      BY <1>2, <1>5
    <3>2. flight'[s][i] = q[i + 1] /\ q[i + 1].seq = f + (i + 1) - 1
      BY <3>1, <1>3, <1>5
    <3> QED BY <3>1, <3>2, <1>2, <1>7
  <2>3. expects'[s] \in {0, First(s)', First(s)' + 1} /\ expects'[s] # First(s)' + 1
    BY <1>1, <1>2, <1>3, <1>7, <1>9
  <2> QED BY <2>1, <2>2, <2>3 DEF Numbered
<1>11. TookFirst(s)'
  BY <1>1, <1>2, <1>3, <1>7, <1>9 DEF TookFirst
<1>12. ASSUME NEW v, NEW i \in 1 .. n, Silent(s, v, i + 1)
       PROVE  Silent(s, v, i)'
  <2> SUFFICES ASSUME NEW j \in i .. n - 1 PROVE v \notin DOMAIN flight'[s][j].body
    BY <1>5 DEF Silent
  <2>1. j \in 1 .. n - 1 /\ j + 1 \in i + 1 .. n
    BY <1>2
  <2> QED BY <2>1, <1>5, <1>12 DEF Silent, q, n
<1>13. ASSUME NEW v, InFlight(s, v)
       PROVE  InFlight(s, v)' \/ Knows(s, v)'
  <2>1. PICK i \in 1 .. n : /\ v \in DOMAIN q[i].body /\ q[i].body[v] = val[v]
                           /\ q[i].seq > 0 /\ Silent(s, v, i + 1)
    BY <1>13 DEF InFlight, q, n
  <2>2. Silent(s, v, i)'
    BY <2>1, <1>12
  <2>3. CASE i = 1
    <3>1. expects[s] = f + 1
      BY <2>1, <2>3, <1>2, <1>8, <1>9
    <3>2. view[s][v] = q[1].body[v]
      BY <2>1, <2>3, <3>1, <1>1, <1>5 DEF Follows, TookFirst, q, f
    <3> QED BY <2>1, <2>2, <2>3, <3>2, <1>1 DEF Knows
  <2>4. CASE i # 1
    <3>1. PICK m \in 1 .. n - 1 : i = m + 1
      <4>1. i - 1 \in 1 .. n - 1 /\ i = (i - 1) + 1
        BY <2>4, <1>2
      <4> QED BY <4>1
    <3>2. flight'[s][m] = q[i] /\ m \in 1 .. Len(flight'[s])
      BY <3>1, <1>5
    <3>3. Silent(s, v, m + 1)'
      BY <2>2, <3>1
    <3> QED BY <2>1, <3>2, <3>3, <1>1 DEF InFlight
  <2> QED BY <2>3, <2>4
<1>14. ASSUME NEW v, Knows(s, v) PROVE Knows(s, v)'
  <2>1. Silent(s, v, 1 + 1)
    BY <1>2, <1>14 DEF Knows, Silent, q, n
  <2>2. Silent(s, v, 1)'
    BY <2>1, <1>2, <1>5, <1>12
  <2> QED BY <2>2, <1>1, <1>14 DEF Knows
<1>15. Informed(svc, s)'
  BY <1>1, <1>13, <1>14 DEF Follows, Informed, Sending
<1> QED BY <1>10, <1>11, <1>15 DEF Follows

(* The first event in flight is taken.                                      *)
LEMMA FollowsHear ==
  ASSUME TypeOK, GenaInv, NEW svc \in Service, NEW s \in Subscriber, Follows(svc, s), Hear(s)
  PROVE  Follows(svc, s)'
<1> DEFINE q == flight[s]
           body == Head(q).body
           f == First(s)
<1>1. /\ q # <<>> /\ UNCHANGED <<SEQ, flight, news, val, at, snapshot, untold>>
      /\ expects' = [expects EXCEPT ![s] = IF @ \in {0, Head(q).seq, Head(q).seq + 1}
                                           THEN Head(q).seq + 1 ELSE Gap]
      /\ view' = [view EXCEPT ![s] = [v \in Variable |->
                    IF v \in DOMAIN body THEN body[v] ELSE view[s][v]]]
  BY DEF Hear, Accept, wireVars, lastChangeVars
<1>2. q \in Seq(Event) /\ SEQ[s] \in Nat /\ f \in Int /\ expects[s] \in Int
      /\ Len(q) \in Nat
  BY FollowFacts
<1>3. /\ SEQ[s] > 0 /\ f >= 0 /\ \A i \in 1 .. Len(q) : q[i].seq = f + i - 1
      /\ expects[s] \in {0, f, f + 1}
  BY DEF Follows, Numbered, First
<1>4. Len(q) > 0 /\ Head(q) = q[1] /\ Head(q) \in Event
  BY <1>1, <1>2, QueueTake
<1>5. body \in Body
  BY <1>4, RendererAssumption DEF Event
<1>6. DOMAIN body \subseteq Variable
  BY <1>5, Bodies
<1>7. Head(q).seq = f
  <2> HIDE DEF q, f
  <2> QED BY <1>2, <1>3, <1>4
<1>8. expects'[s] = f + 1
  <2> HIDE DEF f
  <2> QED BY <1>1, <1>3, <1>7 DEF GenaInv, GenaTypeOK
<1>9. \A v \in Variable : view'[s][v] = IF v \in DOMAIN body THEN body[v] ELSE view[s][v]
  BY <1>1 DEF TypeOK
<1>10. First(s)' = f
  BY <1>1 DEF First
<1>11. Numbered(s)' /\ TookFirst(s)'
  BY <1>1, <1>6, <1>8, <1>9, <1>10 DEF Follows, Numbered, TookFirst
<1>12. ASSUME NEW v \in Variable, Knows(s, v) PROVE Knows(s, v)'
  <2>1. v \notin DOMAIN body
    <3>1. 1 \in 1 .. Len(q)
      BY <1>2, <1>4
    <3> QED BY <3>1, <1>4, <1>12 DEF Knows, Silent
  <2> QED BY <2>1, <1>1, <1>9, <1>12 DEF Knows, Silent
<1>13. news[s] \subseteq Variable
  BY DEF TypeOK
<1>14. Informed(svc, s)'
  BY <1>1, <1>12, <1>13 DEF Follows, Informed, InFlight, Silent, Sending
<1> QED BY <1>11, <1>14 DEF Follows

(* A new subscriber has its initial event in flight.                        *)
LEMMA FollowsSubscribe ==
  ASSUME GenaInv, NotMade, NEW svc \in EventedService, NEW body \in EventBody,
         Subscribe(svc, body), ForgetViews,
         NEW n \in Subscriber, n = made + 1, n \in Watched'
  PROVE  Numbered(n)' /\ TookFirst(n)' /\ news'[n] = {}
<1> DEFINE e == [seq |-> 0, body |-> body]
<1>1. n > made /\ flight[n] = <<>> /\ SEQ[n] = 0 /\ expects[n] = 0 /\ news[n] = {}
  <2>1. n > made
    BY GenaFacts
  <2> QED BY <2>1, GenaFacts DEF NotMade
<1>2. Post({n}, body) /\ Forget
  BY DEF Subscribe
<1>3. flight'[n] = Append(<<>>, e) /\ SEQ'[n] = 1
  <2>1. /\ flight'[n] = Append(flight[n], [seq |-> SEQ[n], body |-> body])
        /\ SEQ'[n] = SEQ[n] + 1
    BY <1>2 DEF Post
  <2> QED BY <1>1, <2>1
<1>4. e \in Event
  BY DEF Event
<1> HIDE DEF e
<1>5. <<>> \in Seq(Event) /\ Len(<<>>) = 0
  BY EmptySeq
<1>6. Len(flight'[n]) = 1 /\ flight'[n][1] = e
  BY <1>3, <1>4, <1>5, QueuePut
<1>7. expects'[n] = 0 /\ news'[n] = {}
  BY <1>1, <1>2 DEF Forget, ForgetViews
<1>8. First(n)' = 0
  BY <1>3, <1>6 DEF First
<1>9. flight'[n] # <<>>
  BY <1>5, <1>6
<1>10. \A i \in 1 .. 1 : i = 1
  OBVIOUS
<1> QED BY <1>3, <1>6, <1>7, <1>8, <1>9, <1>10 DEF Numbered, TookFirst, e

LEMMA QuietKeeps ==
  ASSUME TypeOK, GenaInv, InformedInv, QuietStep
  PROVE  InformedInv'
<1>1. UNCHANGED <<list, flight, SEQ, expects, lapsed, view, news>> /\ Watched' = Watched
  BY DEF QuietStep, genaVars, subscriberVars, wireVars, Watched, Listed
<1>2. \A s : Numbered(s) => Numbered(s)'
  BY <1>1 DEF Numbered, First
<1>3. \A s : TookFirst(s) => TookFirst(s)'
  BY <1>1 DEF TookFirst, First
<1>4. SnapshotHolds
  BY DEF InformedInv
<1>5. ASSUME NEW s, NEW v, val'[v] = val[v]
      PROVE  (InFlight(s, v) => InFlight(s, v)') /\ (Knows(s, v) => Knows(s, v)')
  BY <1>1, <1>5 DEF InFlight, Knows, Silent
<1>6. ASSUME NEW svc \in Service, NEW s \in list[svc] \cap Watched
      PROVE  Follows(svc, s)
  BY <1>6 DEF InformedInv
<1>7. SUFFICES SnapshotHolds' /\ \A svc \in Service : \A s \in list[svc] \cap Watched : Informed(svc, s)'
  BY <1>1, <1>2, <1>3, <1>6 DEF InformedInv, Follows
<1>8. ASSUME \A svc \in Service : ~Sending(svc) /\ ~Sending(svc)', UNCHANGED <<val, untold>>
      PROVE  SnapshotHolds' /\ \A svc \in Service : \A s \in list[svc] \cap Watched : Informed(svc, s)'
  BY <1>1, <1>5, <1>6, <1>8 DEF SnapshotHolds, Follows, Informed
<1>9. CASE TimerEvent \/ Clear
  <2>1. (\A svc \in Service : ~Sending(svc) /\ ~Sending(svc)') /\ UNCHANGED <<val, untold>>
    BY <1>9 DEF TimerEvent, Clear, Moves, Sending
  <2> QED BY <2>1, <1>8
<1>10. CASE Snapshot
  <2>1. PICK own \in Service :
          TakeSnapshot(own) /\ \A svc \in Service : ~Sending(svc) /\ (Sending(svc)' <=> svc = own)
    <3>1. CASE Moves("snapshotRC", "sendRC") /\ TakeSnapshot("RenderingControl")
      BY <3>1 DEF Moves, Sending, Service
    <3>2. CASE Moves("snapshotAVT", "sendAVT") /\ TakeSnapshot("AVTransport")
      BY <3>2 DEF Moves, Sending, Service
    <3> QED BY <1>10, <3>1, <3>2 DEF Snapshot
  <2>2. /\ snapshot' = [v \in ChangedOf(own) |-> val[v]] /\ val' = val
        /\ untold' = untold \ ChangedOf(own) /\ ChangedOf(own) \subseteq VariablesOf(own)
    BY <2>1 DEF TakeSnapshot, ChangedOf
  <2>3. SnapshotHolds'
    BY <2>1, <2>2 DEF SnapshotHolds
  <2>4. ASSUME NEW svc \in Service, NEW s \in list[svc] \cap Watched PROVE Informed(svc, s)'
    <3>1. Informed(svc, s)
      BY <1>6 DEF Follows
    <3>2. ASSUME NEW v \in news'[s] \ untold'
          PROVE  (Sending(svc)' /\ v \in DOMAIN snapshot') \/ InFlight(s, v)' \/ Knows(s, v)'
      <4>1. CASE v \in untold
        <5>1. v \in ChangedOf(own) /\ v \in VariablesOf(svc) /\ v \in VariablesOf(own)
          BY <3>1, <3>2, <4>1, <2>2, <1>1 DEF Informed
        <5>2. svc = own
          BY <5>1, LastChangeAssumption DEF VariablesOf, Service
        <5> QED BY <5>1, <5>2, <2>1, <2>2
      <4>2. CASE v \notin untold
        BY <3>1, <3>2, <4>2, <2>1, <2>2, <1>1, <1>5 DEF Informed
      <4> QED BY <4>1, <4>2
    <3> QED BY <3>1, <3>2, <1>1 DEF Informed
  <2> QED BY <2>3, <2>4
<1>11. CASE Application
  <2>1. PICK w \in Variable, x \in Value : StateChange(w, x) \/ SetQuietly(w, x) \/ ClearOverwritten(w, x)
    BY <1>11 DEF Application
  <2>2. /\ val' = [val EXCEPT ![w] = x] /\ untold' = untold \cup {w} /\ snapshot' = snapshot
    BY <2>1 DEF StateChange, SetQuietly, ClearOverwritten, Set
  <2>3. \A svc \in Service : Sending(svc)' <=> Sending(svc)
    BY <2>1 DEF StateChange, SetQuietly, ClearOverwritten, Sending
  <2>4. \A v : v \notin untold' => val'[v] = val[v]
    BY <2>2 DEF TypeOK, LastChangeTypeOK
  <2>5. SnapshotHolds'
    BY <1>4, <2>2, <2>3, <2>4 DEF SnapshotHolds
  <2>6. ASSUME NEW svc \in Service, NEW s \in list[svc] \cap Watched PROVE Informed(svc, s)'
    BY <1>1, <1>5, <1>6, <2>2, <2>3, <2>4 DEF Follows, Informed
  <2> QED BY <2>5, <2>6
<1> QED BY <1>9, <1>10, <1>11 DEF QuietStep

LEMMA InformedStep ==
  ASSUME TypeOK, SubscribersAccounted, NotMade, InformedInv, [Next]_vars
  PROVE  InformedInv'
<1>1. GenaInv /\ EventedService = Service /\ EventBody = Body /\ lastChange \in [Service -> Body]
  BY RendererAssumption DEF GenaInv, TypeOK
<1>2. ASSUME NEW svc \in Service, NEW s \in list[svc] \cap Watched
      PROVE  Follows(svc, s) /\ s \in Subscriber
  BY <1>1, <1>2, WatchedFacts DEF InformedInv
<1>3. SnapshotHolds /\ (UNCHANGED lastChangeVars => SnapshotHolds')
  BY DEF InformedInv, SnapshotHolds, lastChangeVars, Sending
<1>4. ASSUME NEW svc \in Service, NEW s \in list[svc] \cap Watched, UNCHANGED lastChangeVars,
             flight'[s] = flight[s], SEQ'[s] = SEQ[s], expects'[s] = expects[s],
             view'[s] = view[s], news'[s] = news[s]
      PROVE  Follows(svc, s)'
  BY <1>2, <1>4, FollowsSame
<1>5. CASE UNCHANGED vars
  BY <1>3, <1>4, <1>5 DEF vars, genaVars, subscriberVars, wireVars, lastChangeVars, InformedInv,
                          Watched, Listed
<1>6. CASE QuietStep
  BY <1>1, <1>6, QuietKeeps
<1>7. ASSUME NEW svc \in Service, Send(svc) PROVE InformedInv'
  <2>1. /\ UNCHANGED <<list, lapsed, expects, view, val, untold>> /\ Watched' = Watched
        /\ Sending(svc) /\ Post(Receivers(svc), snapshot)
        /\ news' = [s \in Subscriber |-> IF s \in list[svc] \cap Watched
                                         THEN news[s] \cup DOMAIN snapshot ELSE news[s]]
        /\ at' \in {"snapshotAVT", "clear"}
    BY <1>7 DEF Send, Sent, SendEvent, Watched, Listed
  <2>2. \A other \in Service : ~Sending(other)' /\ (Sending(other) => other = svc)
    BY <2>1 DEF Sending, Service
  <2>3. SnapshotHolds'
    BY <2>2 DEF SnapshotHolds
  <2>4. ASSUME NEW other \in Service, NEW s \in list[other] \cap Watched
        PROVE  Follows(other, s)'
    <3>1. CASE other = svc
      <4>1. s \in Receivers(svc)
        BY <3>1, <1>1, <2>4, WatchedFacts
      <4> QED BY <3>1, <4>1, <1>1, <1>2, <1>3, <1>7, FollowsSend
    <3>2. CASE other # svc
      <4>1. s \notin list[svc] /\ s \notin Receivers(svc) /\ s \in Subscriber
        BY <3>2, <1>1, <1>2, <2>4 DEF GenaInv, SubscribersAccounted, Receivers
      <4>2. flight'[s] = flight[s] /\ SEQ'[s] = SEQ[s] /\ news'[s] = news[s]
        BY <4>1, <2>1 DEF Post
      <4>3. Follows(other, s) /\ ~Sending(other)
        BY <1>2, <2>2, <3>2
      <4>4. Numbered(s)' /\ TookFirst(s)'
        BY <4>2, <4>3, <2>1 DEF Follows, Numbered, TookFirst, First
      <4>5. Informed(other, s)'
        BY <4>2, <4>3, <2>1 DEF Follows, Informed, InFlight, Knows, Silent
      <4> QED BY <4>4, <4>5 DEF Follows
    <3> QED BY <3>1, <3>2
  <2> QED BY <2>1, <2>3, <2>4 DEF InformedInv
<1>8. ASSUME NEW svc \in Service, ForgetViews, UNCHANGED <<lastChangeVars, lastChange>>, Idle,
             Subscribe(svc, InitialBody(svc))
      PROVE  InformedInv'
  <2>1. PICK n \in Subscriber : n = made + 1
    BY <1>1, <1>8, GenaFacts DEF Subscribe, Subscriber
  <2>2. /\ list' = [list EXCEPT ![svc] = (@ \ expired) \cup {n}] /\ lapsed' = lapsed
        /\ Post({n}, InitialBody(svc)) /\ Forget
    BY <2>1, <1>8 DEF Subscribe
  <2>3. InitialBody(svc) \in EventBody
    BY <1>1 DEF InitialBody
  <2>4. \A other \in Service : list'[other] \subseteq list[other] \cup {n}
    BY <2>2, <1>1 DEF GenaInv, GenaTypeOK
  <2>5. Watched' \subseteq Watched \cup {n}
    BY <2>2, <2>4, <1>1 DEF Watched, Listed
  <2>6. n \notin Watched /\ n \notin Listed
    BY <1>1, <2>1, GenaFacts DEF Watched
  <2>7. ASSUME NEW other \in Service, NEW s \in list'[other] \cap Watched'
        PROVE  Follows(other, s)'
    <3>1. CASE s = n
      <4>1. Numbered(n)' /\ TookFirst(n)' /\ news'[n] = {}
        BY <3>1, <2>1, <2>3, <2>7, <1>1, <1>8, FollowsSubscribe
      <4>2. Informed(other, n)'
        BY <4>1 DEF Informed
      <4> QED BY <3>1, <4>1, <4>2 DEF Follows
    <3>2. CASE s # n
      <4>1. s \in list[other] \cap Watched
        BY <3>2, <2>4, <2>5, <2>7
      <4>2. s \in Subscriber
        BY <4>1, <1>2
      <4>3. flight'[s] = flight[s] /\ SEQ'[s] = SEQ[s] /\ expects'[s] = expects[s]
            /\ view'[s] = view[s] /\ news'[s] = news[s]
        BY <3>2, <4>2, <2>2, <2>7, <1>8 DEF Post, Forget, ForgetViews
      <4> QED BY <4>1, <4>3, <1>4, <1>8
    <3> QED BY <3>1, <3>2
  <2> QED BY <2>7, <1>3, <1>8 DEF InformedInv
<1>9. ASSUME ForgetViews, UNCHANGED lastChangeVars, Forget \/ expects' = expects,
             lapsed \subseteq lapsed',
             \A svc \in Service : list'[svc] \subseteq list[svc],
             \A svc \in Service : \A s \in list'[svc] \cap Watched' :
               \/ flight'[s] = flight[s] /\ SEQ'[s] = SEQ[s]
               \/ Answered(s)
      PROVE  InformedInv'
  <2>1. Watched' \subseteq Watched
    BY <1>1, <1>9 DEF Watched, Listed
  <2>2. ASSUME NEW svc \in Service, NEW s \in list'[svc] \cap Watched'
        PROVE  Follows(svc, s)'
    <3>1. s \in list[svc] /\ s \in Watched
      BY <1>9, <2>1
    <3>2. s \in Subscriber /\ Follows(svc, s)
      BY <3>1, <1>2
    <3>3. expects'[s] = expects[s] /\ view'[s] = view[s] /\ news'[s] = news[s]
      BY <3>2, <2>2, <1>9 DEF Forget, ForgetViews
    <3>4. CASE Answered(s)
      BY <3>1, <3>2, <3>3, <3>4, <1>1, <1>9, FollowsAnswered
    <3>5. CASE flight'[s] = flight[s] /\ SEQ'[s] = SEQ[s]
      BY <3>1, <3>3, <3>5, <1>4, <1>9
    <3> QED BY <3>4, <3>5, <1>9, <2>2
  <2> QED BY <2>2, <1>3, <1>9 DEF InformedInv
<1>10. ASSUME NEW svc \in Service, ForgetViews, UNCHANGED <<lastChangeVars, lastChange>>,
              SubscribeRejected(svc)
       PROVE  InformedInv'
  BY <1>1, <1>9, <1>10 DEF SubscribeRejected, Unlink, wireVars
<1>11. ASSUME NEW t \in Subscriber, ForgetViews, UNCHANGED <<lastChangeVars, lastChange>>,
              Renew(t) \/ Unsubscribe(t) \/ Answered(t) \/ Failed(t) \/ Expire(t)
       PROVE  InformedInv'
  <2>1. CASE Renew(t)
    BY <2>1, <1>9, <1>11 DEF Renew, subscriberVars, wireVars
  <2>2. CASE Unsubscribe(t)
    BY <2>2, <1>1, <1>9, <1>11 DEF Unsubscribe, Unlink, wireVars
  <2>3. CASE Expire(t)
    BY <2>3, <1>9, <1>11 DEF Expire, subscriberVars, wireVars
  <2>4. CASE Answered(t)
    <3>1. /\ UNCHANGED <<list, lapsed, SEQ, expects>>
          /\ flight' = [flight EXCEPT ![t] = Tail(@)]
      BY <2>4 DEF Answered
    <3>2. \A s \in Subscriber : s # t => flight'[s] = flight[s]
      BY <3>1, <1>1 DEF GenaInv, GenaTypeOK
    <3>3. \A svc \in Service : list'[svc] \subseteq Subscriber
      BY <3>1, <1>1, GenaFacts DEF Listed
    <3> QED BY <2>4, <3>1, <3>2, <3>3, <1>9, <1>11
  <2>5. CASE Failed(t)
    <3>1. /\ UNCHANGED <<lapsed, SEQ>> /\ Forget /\ flight' = [flight EXCEPT ![t] = Tail(@)]
      BY <2>5 DEF Failed
    <3>2. \A s \in Subscriber : s # t => flight'[s] = flight[s]
      BY <3>1, <1>1 DEF GenaInv, GenaTypeOK
    <3>3. GenaInv' /\ Listed' = Listed \ {t}
      BY <2>5, <1>1, FailedKeeps
    <3>4. \A svc \in Service : list'[svc] \subseteq Subscriber \ {t}
      BY <3>3, <1>1, GenaFacts DEF Listed
    <3>5. \A svc \in Service : list'[svc] \subseteq list[svc]
      BY <2>5, <1>1 DEF Failed, Unlink
    <3> QED BY <3>1, <3>2, <3>4, <3>5, <1>9, <1>11
  <2> QED BY <2>1, <2>2, <2>3, <2>4, <2>5, <1>11
<1>12. ASSUME NEW t \in Subscriber, Hear(t) PROVE InformedInv'
  <2>1. /\ UNCHANGED <<list, lapsed, flight, SEQ, news, lastChangeVars>> /\ Watched' = Watched
        /\ \A s \in Subscriber : s # t => expects'[s] = expects[s] /\ view'[s] = view[s]
    BY <1>1, <1>12 DEF Hear, Accept, subscriberVars, wireVars, Watched, Listed, GenaInv, GenaTypeOK, TypeOK
  <2>2. ASSUME NEW svc \in Service, NEW s \in list[svc] \cap Watched
        PROVE  Follows(svc, s)'
    <3>1. s \in Subscriber /\ Follows(svc, s)
      BY <1>2
    <3>2. CASE s = t
      BY <3>1, <3>2, <1>1, <1>12, FollowsHear
    <3>3. CASE s # t
      BY <3>1, <3>3, <2>1, <1>4
    <3> QED BY <3>2, <3>3
  <2> QED BY <2>1, <2>2, <1>3 DEF InformedInv
<1> QED BY <1>5, <1>6, <1>7, <1>8, <1>10, <1>11, <1>12, Steps

LEMMA InformedInit == Init => NotMade /\ InformedInv
BY DEF Init, LastChangeInit, GenaInit, NotMade, InformedInv, SnapshotHolds, Sending, Service,
       Watched, Listed

(* For any variables, values, limits and subscribers: who is listed and     *)
(* never lapsed has missed no event, and once nothing is in flight to it, it*)
(* knows the value of every variable evented since it subscribed, unless    *)
(* the variable has changed since.                                          *)
THEOREM ListedAreInformed == Spec => []ListedMeansInformed
<1>1. IInv /\ [Next]_vars => IInv'
  BY TypeStep, GenaStep, NotMadeStep, InformedStep DEF GenaInv, IInv
<1>2. Init => IInv
  BY AccountsInit, InformedInit DEF IInv
<1>3. IInv => ListedMeansInformed
  <2> SUFFICES ASSUME IInv, NEW svc \in Service, NEW s \in list[svc] \cap Watched
               PROVE  /\ expects[s] # Gap
                      /\ flight[s] = <<>> /\ ~Sending(svc) =>
                           \A v \in news[s] \ untold : view[s][v] = val[v]
    BY DEF ListedMeansInformed
  <2>1. GenaInv /\ Follows(svc, s) /\ s \in Subscriber
    BY RendererAssumption, WatchedFacts DEF IInv, InformedInv, GenaInv, TypeOK
  <2>2. expects[s] # Gap
    BY <2>1, FollowFacts DEF Follows, Numbered, Gap
  <2>3. ASSUME flight[s] = <<>>, ~Sending(svc), NEW v \in news[s] \ untold
        PROVE  view[s][v] = val[v]
    <3>1. InFlight(s, v) \/ Knows(s, v)
      BY <2>1, <2>3 DEF Follows, Informed
    <3>2. ~InFlight(s, v)
      BY <2>1, <2>3, FollowFacts DEF InFlight
    <3> QED BY <3>1, <3>2 DEF Knows
  <2> QED BY <2>2, <2>3
<1> QED BY <1>1, <1>2, <1>3, PTL DEF Spec

=============================================================================
