---------------------------- MODULE ChainProofs -----------------------------
(***************************************************************************)
(* Proofs about Chain for every set of threads and links.                  *)
(***************************************************************************)
EXTENDS Chain, SequenceTheorems, TLAPS

(* A sequence without its i-th element.                                     *)
LEMMA RemoveAtProperties ==
  ASSUME NEW S, NEW s \in Seq(S), NEW i \in 1 .. Len(s)
  PROVE  /\ RemoveAt(s, i) \in Seq(S)
         /\ Len(RemoveAt(s, i)) = Len(s) - 1
         /\ \A j \in 1 .. Len(s) - 1 : RemoveAt(s, i)[j] = IF j < i THEN s[j] ELSE s[j + 1]
<1> DEFINE a == SubSeq(s, 1, i - 1)
           b == SubSeq(s, i + 1, Len(s))
<1>1. /\ a \in Seq(S) /\ Len(a) = i - 1 /\ \A j \in 1 .. i - 1 : a[j] = s[j]
  BY SubSeqProperties
<1>2. /\ b \in Seq(S) /\ Len(b) = Len(s) - i
      /\ \A j \in 1 .. Len(s) - i : b[j] = s[i + j]
  BY SubSeqProperties
<1>3. /\ a \o b \in Seq(S) /\ Len(a \o b) = Len(a) + Len(b)
      /\ \A j \in 1 .. Len(a) + Len(b) : (a \o b)[j] = IF j <= Len(a) THEN a[j] ELSE b[j - Len(a)]
  BY <1>1, <1>2, ConcatProperties
<1>5. RemoveAt(s, i) = a \o b
  BY DEF RemoveAt
<1> HIDE DEF a, b
<1>4. \A j \in 1 .. Len(s) - 1 : (a \o b)[j] = IF j < i THEN s[j] ELSE s[j + 1]
  BY <1>1, <1>2, <1>3
<1>6. a \o b \in Seq(S) /\ Len(a \o b) = Len(s) - 1
  BY <1>1, <1>2, <1>3
<1> QED BY <1>4, <1>5, <1>6

(* The link requests i asks to add, if it asks for that.                    *)
Adds(queue, i, l) == queue[i].op = "add" /\ queue[i].link = l

(* Every link is in one place only: on the chain, waiting in one request to *)
(* be added, or destroyed.                                                  *)
OnceIn(queue) ==
  \A i, j \in 1 .. Len(queue) : \A l \in Link : Adds(queue, i, l) /\ Adds(queue, j, l) => i = j

Waits(queue, l) == \E i \in 1 .. Len(queue) : Adds(queue, i, l)

OnePlaceEach ==
  /\ \A i, j \in 1 .. Len(links) : links[i] = links[j] => i = j
  /\ OnceIn(requests) /\ OnceIn(batch)
  /\ \A l \in Link : (Waits(requests, l) \/ Waits(batch, l)) => l \in added /\ l \notin dead
  /\ \A l \in Link : ~(Waits(requests, l) /\ Waits(batch, l))
  /\ \A i \in 1 .. Len(links) :
       /\ links[i] \in added
       /\ ~Waits(requests, links[i]) /\ ~Waits(batch, links[i])
       /\ links[i] \in dead => pc = "destroy" /\ i < pos

(* How far the round has come; requests are taken off only for a batch.     *)
RoundSoFar ==
  /\ pc # "sinks" => batch = <<>>
  /\ pc \in {"check", "sinks"} => pos = 1
  /\ pc = "pre" => \A i \in 1 .. pos - 1 : links[i] \in polled
  /\ pc \in {"select", "drain", "post"} => \A i \in 1 .. Len(links) : links[i] \in polled

IInv == TypeOK /\ OnePlaceEach /\ RoundSoFar
-----------------------------------------------------------------------------
LEMMA WaitsEmpty == OnceIn(<<>>) /\ \A l \in Link : ~Waits(<<>>, l)
BY DEF OnceIn, Waits

LEMMA WaitsAppend ==
  ASSUME NEW q \in Seq(Request), NEW r \in Request, OnceIn(q),
         r.op = "add" => ~Waits(q, r.link)
  PROVE  /\ OnceIn(Append(q, r))
         /\ \A l \in Link : Waits(Append(q, r), l) <=> (Waits(q, l) \/ (r.op = "add" /\ r.link = l))
<1> DEFINE p == Append(q, r)
<1>1. /\ Len(p) = Len(q) + 1 /\ Len(q) \in Nat /\ p[Len(q) + 1] = r
      /\ \A i \in 1 .. Len(q) : p[i] = q[i]
  BY AppendProperties
<1> HIDE DEF p
<1>2. \A l \in Link : \A i \in 1 .. Len(q) : Adds(p, i, l) <=> Adds(q, i, l)
  BY <1>1 DEF Adds
<1>3. \A l \in Link : Adds(p, Len(q) + 1, l) <=> (r.op = "add" /\ r.link = l)
  BY <1>1 DEF Adds
<1>4. \A i \in 1 .. Len(p) : i \in 1 .. Len(q) \/ i = Len(q) + 1
  BY <1>1
<1>5. 1 .. Len(q) \subseteq 1 .. Len(p) /\ Len(q) + 1 \in 1 .. Len(p)
  BY <1>1
<1>6. OnceIn(p)
  BY <1>2, <1>3, <1>4 DEF OnceIn, Waits
<1>7. \A l \in Link : Waits(p, l) <=> (Waits(q, l) \/ (r.op = "add" /\ r.link = l))
  BY <1>2, <1>3, <1>4, <1>5 DEF Waits
<1> QED BY <1>6, <1>7 DEF p

LEMMA WaitsTail ==
  ASSUME NEW q \in Seq(Request), q # <<>>, OnceIn(q)
  PROVE  /\ Head(q) \in Request /\ Tail(q) \in Seq(Request) /\ Len(Tail(q)) = Len(q) - 1
         /\ OnceIn(Tail(q))
         /\ \A l \in Link : Waits(Tail(q), l) => Waits(q, l)
         /\ Head(q).op = "add" => Waits(q, Head(q).link) /\ ~Waits(Tail(q), Head(q).link)
<1>1. /\ Head(q) \in Request /\ Tail(q) \in Seq(Request) /\ Len(Tail(q)) = Len(q) - 1
      /\ \A i \in 1 .. Len(Tail(q)) : Tail(q)[i] = q[i + 1]
      /\ Len(q) \in Nat /\ Len(q) # 0 /\ Head(q) = q[1]
  BY HeadTailProperties
<1>2. \A l \in Link : \A i \in 1 .. Len(Tail(q)) :
        i + 1 \in 1 .. Len(q) /\ (Adds(Tail(q), i, l) <=> Adds(q, i + 1, l))
  BY <1>1 DEF Adds
<1>3. OnceIn(Tail(q))
  BY <1>1, <1>2 DEF OnceIn
<1>4. \A l \in Link : Waits(Tail(q), l) => Waits(q, l)
  BY <1>2 DEF Waits
<1>5. ASSUME Head(q).op = "add" PROVE Waits(q, Head(q).link) /\ ~Waits(Tail(q), Head(q).link)
  <2>1. Head(q).link \in Link /\ 1 \in 1 .. Len(q) /\ Adds(q, 1, Head(q).link)
    BY <1>1, <1>5 DEF Adds, Request
  <2>2. \A i \in 1 .. Len(Tail(q)) : ~Adds(q, i + 1, Head(q).link)
    BY <1>1, <1>2, <2>1 DEF OnceIn
  <2> QED BY <1>2, <2>1, <2>2 DEF Waits
<1> QED BY <1>1, <1>3, <1>4, <1>5
-----------------------------------------------------------------------------
LEMMA InitOK == Init => IInv
<1> SUFFICES ASSUME Init PROVE IInv
  OBVIOUS
<1>1. links = <<>> /\ requests = <<>> /\ batch = <<>> /\ Len(links) = 0
  BY DEF Init
<1>2. TypeOK
  <2>1. links \in Seq(Link) /\ requests \in Seq(Request) /\ batch \in Seq(Request)
    BY <1>1
  <2>2. Len(requests) <= MaxRequests /\ Len(batch) <= MaxRequests /\ pos \in 1 .. Len(links) + 1
    BY <1>1, ChainAssumption DEF Init
  <2> QED BY <2>1, <2>2 DEF Init, TypeOK, Location
<1>3. OnePlaceEach
  BY <1>1, WaitsEmpty DEF OnePlaceEach
<1>4. RoundSoFar
  BY <1>1 DEF Init, RoundSoFar
<1> QED BY <1>2, <1>3, <1>4 DEF IInv

LEMMA StepOK == IInv /\ [Next]_vars => IInv'
<1> SUFFICES ASSUME IInv, [Next]_vars PROVE IInv'
  OBVIOUS
<1>a. /\ TypeOK /\ OnePlaceEach /\ RoundSoFar
      /\ Len(links) \in Nat /\ Len(requests) \in Nat /\ Len(batch) \in Nat /\ MaxRequests \in Nat
      /\ OnceIn(requests) /\ OnceIn(batch)
      /\ \A i \in 1 .. Len(links) : links[i] \in Link
  BY ChainAssumption DEF IInv, TypeOK, OnePlaceEach
(* A link that is nowhere yet goes to the end of the chain. *)
<1>b. ASSUME NEW l \in Link, links' = Append(links, l)
      PROVE  /\ links' \in Seq(Link) /\ Len(links') = Len(links) + 1 /\ links'[Len(links) + 1] = l
             /\ \A i \in 1 .. Len(links) : links'[i] = links[i]
             /\ \A i \in 1 .. Len(links') : i \in 1 .. Len(links) \/ i = Len(links) + 1
  <2>1. links \in Seq(Link)
    BY <1>a DEF TypeOK
  <2> QED BY <1>a, <1>b, <2>1, AppendProperties
<1>1. ASSUME NEW l \in Link, AddToChain(l) PROVE IInv'
  <2>1. /\ links' = Append(links, l) /\ added' = added \cup {l} /\ l \notin added /\ pc = "created"
        /\ UNCHANGED <<requests, batch, dead, polled, pc, pos, timed, pipe, TerminateFlag, stopper>>
    BY <1>1 DEF AddToChain
  <2>2. TypeOK'
    BY <2>1, <1>a, <1>b DEF TypeOK
  <2>3. OnePlaceEach'
    <3>1. ~Waits(requests, l) /\ ~Waits(batch, l) /\ l \notin dead
      BY <2>1, <1>a DEF OnePlaceEach, TypeOK
    <3>2. \A i, j \in 1 .. Len(links') : links'[i] = links'[j] => i = j
      BY <2>1, <1>a, <1>b DEF OnePlaceEach
    <3>3. \A i \in 1 .. Len(links') :
            /\ links'[i] \in added'
            /\ ~Waits(requests, links'[i]) /\ ~Waits(batch, links'[i])
            /\ links'[i] \in dead => pc = "destroy" /\ i < pos
      BY <2>1, <3>1, <1>a, <1>b DEF OnePlaceEach
    <3> QED BY <2>1, <3>2, <3>3, <1>a DEF OnePlaceEach
  <2>4. RoundSoFar'
    BY <2>1, <1>a DEF RoundSoFar
  <2> QED BY <2>2, <2>3, <2>4 DEF IInv
<1>2. ASSUME NEW r \in Request, Ask(r.op, r.link), added \subseteq added', added' \subseteq Link,
             r.op = "add" => r.link \notin added /\ r.link \in added'
      PROVE  IInv'
  <2>1. /\ Len(requests) < MaxRequests /\ requests' = Append(requests, r)
        /\ pipe' \in BOOLEAN
        /\ UNCHANGED <<links, batch, dead, polled, pc, pos, timed, TerminateFlag, stopper>>
    <3>1. r = [op |-> r.op, link |-> r.link]
      BY DEF Request
    <3> QED BY <1>2, <3>1, <1>a DEF Ask, TypeOK
  <2>2. requests' \in Seq(Request) /\ Len(requests') = Len(requests) + 1
    BY <2>1, <1>a, AppendProperties DEF TypeOK
  <2>3. TypeOK'
    BY <1>2, <2>1, <2>2, <1>a DEF TypeOK
  <2>4. r.op = "add" => ~Waits(requests, r.link) /\ ~Waits(batch, r.link) /\ r.link \notin dead
    <3>1. r.link \in Link
      BY DEF Request
    <3> QED BY <1>2, <3>1, <1>a DEF OnePlaceEach, TypeOK
  <2>5. /\ OnceIn(requests')
        /\ \A l \in Link : Waits(requests', l) <=> (Waits(requests, l) \/ (r.op = "add" /\ r.link = l))
    BY <2>1, <2>4, <1>a, WaitsAppend DEF TypeOK
  <2>6. \A i \in 1 .. Len(links) : r.op = "add" => links[i] # r.link
    BY <1>2, <1>a DEF OnePlaceEach
  <2>7. OnePlaceEach'
    <3>1. \A l \in Link : (Waits(requests', l) \/ Waits(batch, l)) => l \in added' /\ l \notin dead
      BY <1>2, <2>4, <2>5, <1>a DEF OnePlaceEach
    <3>2. \A l \in Link : ~(Waits(requests', l) /\ Waits(batch, l))
      BY <2>4, <2>5, <1>a DEF OnePlaceEach
    <3>3. \A i \in 1 .. Len(links) : links[i] \in added' /\ ~Waits(requests', links[i])
      BY <1>2, <2>5, <2>6, <1>a DEF OnePlaceEach
    <3> QED BY <2>1, <2>5, <3>1, <3>2, <3>3, <1>a DEF OnePlaceEach
  <2>8. RoundSoFar'
    BY <2>1, <1>a DEF RoundSoFar
  <2> QED BY <2>3, <2>7, <2>8 DEF IInv
<1>3. ASSUME NEW t \in Thread, NEW l \in Link, SafeAdd(t, l) PROVE IInv'
  <2> DEFINE r == [op |-> "add", link |-> l]
  <2>1. r \in Request /\ Ask(r.op, r.link) /\ added \subseteq added' /\ added' \subseteq Link
        /\ r.link \notin added /\ r.link \in added'
    BY <1>3, <1>a DEF SafeAdd, Request, TypeOK
  <2> QED BY <1>2, <2>1
<1>4. ASSUME NEW t \in Thread, NEW l \in Link, SafeRemove(t, l) PROVE IInv'
  <2> DEFINE r == [op |-> "remove", link |-> l]
  <2>1. r \in Request /\ Ask(r.op, r.link) /\ added' = added /\ added \subseteq Link /\ r.op # "add"
    BY <1>4, <1>a DEF SafeRemove, Request, TypeOK
  <2> QED BY <1>2, <2>1
(* Steps that change neither the links nor the queues, but may move on. *)
<1>c. ASSUME UNCHANGED <<links, requests, batch, added, dead>>, TypeOK', RoundSoFar',
             pc' # pc \/ pos' # pos => pc # "destroy"
      PROVE  IInv'
  BY <1>c, <1>a DEF IInv, OnePlaceEach
<1>5. ASSUME NEW t \in Thread, StopChain(t) \/ StopChainReturns(t) PROVE IInv'
  BY <1>5, <1>a, <1>c DEF StopChain, StopChainReturns, Stop, TypeOK, RoundSoFar, SetsFlag, PipeIsOpen
<1>6. CASE Start \/ PostSelectDone
  <2>1. Round /\ pc # "sinks" /\ pc # "destroy"
        /\ UNCHANGED <<links, requests, batch, added, dead, timed, pipe, TerminateFlag, stopper>>
    BY <1>6 DEF Start, PostSelectDone
  <2> QED BY <2>1, <1>a, <1>c DEF Round, TypeOK, RoundSoFar, Location
<1>7. CASE Check
  <2>1. batch = <<>> /\ batch' = requests /\ requests' = <<>> /\ pc = "check" /\ pc' = "sinks"
        /\ UNCHANGED <<links, added, dead, polled, pos, timed, pipe, TerminateFlag, stopper>>
    BY <1>7, <1>a DEF Check, RoundSoFar
  <2>2. Len(requests') = 0 /\ requests' \in Seq(Request)
    BY <2>1
  <2>3. pos = 1
    BY <1>a, <2>1 DEF RoundSoFar
  <2>4. TypeOK'
    BY <2>1, <2>2, <1>a DEF TypeOK, Location
  <2>5. OnePlaceEach'
    BY <2>1, WaitsEmpty, <1>a DEF OnePlaceEach
  <2>6. RoundSoFar'
    BY <2>1, <2>3 DEF RoundSoFar
  <2> QED BY <2>4, <2>5, <2>6 DEF IInv
(* What taking the first request off the batch leaves. *)
<1>d. ASSUME batch # <<>>, batch' = Tail(batch)
      PROVE  /\ Head(batch) \in Request /\ batch' \in Seq(Request) /\ Len(batch') <= MaxRequests
             /\ OnceIn(batch') /\ \A l \in Link : Waits(batch', l) => Waits(batch, l)
             /\ Head(batch).op = "add" => Waits(batch, Head(batch).link) /\ ~Waits(batch', Head(batch).link)
  <2>1. batch \in Seq(Request) /\ Len(batch) <= MaxRequests
    BY <1>a DEF TypeOK
  <2>2. Len(batch') = Len(batch) - 1
    BY <1>a, <1>d, <2>1, WaitsTail
  <2> QED BY <1>a, <1>d, <2>1, <2>2, WaitsTail
<1>8. CASE SafeAddSink
  <2> DEFINE l == Head(batch).link
  <2>1. /\ batch # <<>> /\ batch' = Tail(batch) /\ Head(batch).op = "add" /\ pc = "sinks"
        /\ links' = Append(links, l)
        /\ UNCHANGED <<requests, added, dead, polled, pc, pos, timed, pipe, TerminateFlag, stopper>>
    BY <1>8 DEF SafeAddSink
  <2>2. l \in Link /\ Waits(batch, l) /\ ~Waits(batch', l)
    BY <1>d, <2>1 DEF Request
  <2>3. l \in added /\ l \notin dead /\ ~Waits(requests, l) /\ \A i \in 1 .. Len(links) : links[i] # l
    BY <2>2, <1>a DEF OnePlaceEach
  <2> HIDE DEF l
  <2>4. TypeOK'
    BY <2>1, <2>2, <1>a, <1>b, <1>d DEF TypeOK
  <2>5. OnePlaceEach'
    <3>1. \A i, j \in 1 .. Len(links') : links'[i] = links'[j] => i = j
      BY <2>1, <2>2, <2>3, <1>a, <1>b DEF OnePlaceEach
    <3>2. \A i \in 1 .. Len(links') :
            /\ links'[i] \in added
            /\ ~Waits(requests, links'[i]) /\ ~Waits(batch', links'[i])
            /\ links'[i] \in dead => pc = "destroy" /\ i < pos
      BY <2>1, <2>2, <2>3, <1>a, <1>b, <1>d DEF OnePlaceEach
    <3> QED BY <2>1, <3>1, <3>2, <1>a, <1>d DEF OnePlaceEach
  <2>6. RoundSoFar'
    BY <2>1, <1>a DEF RoundSoFar
  <2> QED BY <2>4, <2>5, <2>6 DEF IInv
<1>9. CASE SafeRemoveSink
  <2> DEFINE l == Head(batch).link
  <2>1. /\ batch # <<>> /\ batch' = Tail(batch) /\ Head(batch).op = "remove" /\ pc = "sinks"
        /\ \/ Found(l) = {} /\ UNCHANGED <<links, dead>>
           \/ \E i \in Found(l) : links' = Unlinked(i) /\ dead' = dead \cup {l}
        /\ UNCHANGED <<requests, added, polled, pc, pos, timed, pipe, TerminateFlag, stopper>>
    BY <1>9 DEF SafeRemoveSink
  <2>2. pos = 1
    BY <2>1, <1>a DEF RoundSoFar
  <2>3. RoundSoFar'
    BY <2>1, <2>2, <1>a DEF RoundSoFar
  <2>4. CASE UNCHANGED <<links, dead>>
    <3>1. TypeOK'
      BY <2>1, <2>4, <1>a, <1>d DEF TypeOK
    <3>2. OnePlaceEach'
      BY <2>1, <2>4, <1>a, <1>d DEF OnePlaceEach
    <3> QED BY <2>3, <3>1, <3>2 DEF IInv
  <2>5. ASSUME NEW i \in Found(l), links' = Unlinked(i), dead' = dead \cup {l} PROVE IInv'
    <3>1. i \in 1 .. Len(links) /\ links[i] = l
      BY <2>5 DEF Found
    <3>2. /\ links' \in Seq(Link) /\ Len(links') = Len(links) - 1
          /\ \A j \in 1 .. Len(links) - 1 : links'[j] = IF j < i THEN links[j] ELSE links[j + 1]
      BY <2>5, <3>1, <1>a, RemoveAtProperties DEF Unlinked, TypeOK
    <3> HIDE DEF l
    <3>3. \A j \in 1 .. Len(links') :
            \E k \in 1 .. Len(links) : k # i /\ links'[j] = links[k] /\ k = (IF j < i THEN j ELSE j + 1)
      BY <3>1, <3>2, <1>a
    <3>4. \A j, k \in 1 .. Len(links') : links'[j] = links'[k] => j = k
      <4> SUFFICES ASSUME NEW j \in 1 .. Len(links'), NEW k \in 1 .. Len(links'), links'[j] = links'[k]
                   PROVE  j = k
        OBVIOUS
      <4>1. PICK m \in 1 .. Len(links) : links'[j] = links[m] /\ m = (IF j < i THEN j ELSE j + 1)
        BY <3>3
      <4>2. PICK n \in 1 .. Len(links) : links'[k] = links[n] /\ n = (IF k < i THEN k ELSE k + 1)
        BY <3>3
      <4>3. m = n
        BY <4>1, <4>2, <1>a DEF OnePlaceEach
      <4> QED BY <4>1, <4>2, <4>3, <3>1, <3>2, <1>a
    <3>5. \A j \in 1 .. Len(links') : links'[j] # l /\ \E k \in 1 .. Len(links) : links'[j] = links[k]
      BY <3>1, <3>3, <1>a DEF OnePlaceEach
    <3>6. l \in added /\ ~Waits(requests, l) /\ ~Waits(batch, l) /\ l \in Link
      BY <3>1, <1>a DEF OnePlaceEach
    <3>7. TypeOK'
      BY <2>1, <2>2, <2>5, <3>2, <3>6, <3>1, <1>a, <1>d DEF TypeOK
    <3>8. OnePlaceEach'
      <4>1. \A j \in 1 .. Len(links') :
              /\ links'[j] \in added
              /\ ~Waits(requests, links'[j]) /\ ~Waits(batch', links'[j])
              /\ links'[j] \notin dead'
        BY <2>1, <2>5, <3>5, <1>a, <1>d DEF OnePlaceEach
      <4>2. \A k \in Link : (Waits(requests, k) \/ Waits(batch', k)) => k \in added /\ k \notin dead'
        BY <2>1, <2>5, <3>6, <1>a, <1>d DEF OnePlaceEach
      <4> QED BY <2>1, <3>4, <4>1, <4>2, <1>a, <1>d DEF OnePlaceEach
    <3> QED BY <2>3, <3>7, <3>8 DEF IInv
  <2> QED BY <2>1, <2>4, <2>5
<1>10. CASE CheckDone
  <2>1. UNCHANGED <<links, requests, batch, added, dead, polled, pos, pipe, TerminateFlag, stopper>>
        /\ pc = "sinks" /\ pc' = "pre" /\ timed' \in BOOLEAN /\ batch = <<>>
    BY <1>10 DEF CheckDone
  <2>2. pos = 1
    BY <2>1, <1>a DEF RoundSoFar
  <2>3. TypeOK' /\ RoundSoFar'
    BY <2>1, <2>2, <1>a DEF TypeOK, RoundSoFar, Location
  <2> QED BY <2>1, <2>3, <1>c
<1>11. CASE PreSelect
  <2>1. /\ pc = "pre" /\ pos <= Len(links) /\ polled' = polled \cup {links[pos]} /\ pos' = pos + 1
        /\ UNCHANGED <<links, requests, batch, added, dead, pc, timed, pipe, TerminateFlag, stopper>>
    BY <1>11 DEF PreSelect
  <2>2. pos \in 1 .. Len(links) /\ links[pos] \in added
    BY <2>1, <1>a DEF TypeOK, OnePlaceEach
  <2>3. TypeOK'
    BY <2>1, <2>2, <1>a DEF TypeOK
  <2>4. RoundSoFar'
    BY <2>1, <2>2, <1>a DEF RoundSoFar, TypeOK
  <2> QED BY <2>1, <2>3, <2>4, <1>c
<1>12. CASE PreSelectDone
  <2>1. /\ pc = "pre" /\ pos > Len(links) /\ pos' = 1 /\ pc' = "select"
        /\ UNCHANGED <<links, requests, batch, added, dead, polled, timed, pipe, TerminateFlag, stopper>>
    BY <1>12 DEF PreSelectDone
  <2>2. pos - 1 = Len(links)
    BY <2>1, <1>a DEF TypeOK
  <2>3. TypeOK' /\ RoundSoFar'
    BY <2>1, <2>2, <1>a DEF TypeOK, RoundSoFar, Location
  <2> QED BY <2>1, <2>3, <1>c
<1>13. CASE SelectReturns \/ LinkReady \/ DrainPipe
  <2>1. /\ pc \in {"select", "drain"} /\ pc' \in {"drain", "post"} /\ pipe' \in BOOLEAN
        /\ UNCHANGED <<links, requests, batch, added, dead, polled, pos, timed, TerminateFlag, stopper>>
    BY <1>13, <1>a DEF SelectReturns, LinkReady, DrainPipe, TypeOK
  <2>2. TypeOK' /\ RoundSoFar'
    BY <2>1, <1>a DEF TypeOK, RoundSoFar, Location
  <2> QED BY <2>1, <2>2, <1>c
<1>16. CASE PostSelect
  <2>1. /\ pc = "post" /\ pos <= Len(links) /\ pos' = pos + 1
        /\ UNCHANGED <<links, requests, batch, added, dead, polled, pc, timed, pipe, TerminateFlag, stopper>>
    BY <1>16 DEF PostSelect
  <2>2. TypeOK' /\ RoundSoFar'
    BY <2>1, <1>a DEF TypeOK, RoundSoFar
  <2> QED BY <2>1, <2>2, <1>c
<1>14. CASE Destroy
  <2>1. /\ pc = "destroy" /\ requests' = <<>> /\ batch = <<>>
        /\ UNCHANGED <<batch, added, polled, timed, pipe, TerminateFlag, stopper>>
    BY <1>14, <1>a DEF Destroy, RoundSoFar
  <2>2. CASE pos <= Len(links)
    <3>1. dead' = dead \cup {links[pos]} /\ pos' = pos + 1 /\ UNCHANGED <<links, pc>>
      BY <1>14, <2>2 DEF Destroy
    <3>2. pos \in 1 .. Len(links) /\ links[pos] \in added
      BY <2>2, <1>a DEF TypeOK, OnePlaceEach
    <3>3. TypeOK'
      BY <2>1, <3>1, <3>2, <1>a DEF TypeOK
    <3>4. OnePlaceEach'
      BY <2>1, <3>1, <3>2, WaitsEmpty, <1>a DEF OnePlaceEach, TypeOK
    <3> QED BY <2>1, <3>1, <3>3, <3>4, <1>a DEF IInv, RoundSoFar
  <2>3. CASE ~(pos <= Len(links))
    <3>1. links' = <<>> /\ pos' = 1 /\ pc' = "ended" /\ UNCHANGED dead
      BY <1>14, <2>3 DEF Destroy
    <3>2. Len(links') = 0 /\ links' \in Seq(Link)
      BY <3>1
    <3>3. TypeOK'
      BY <2>1, <3>1, <3>2, <1>a DEF TypeOK, Location
    <3>4. OnePlaceEach'
      BY <2>1, <3>1, <3>2, WaitsEmpty, <1>a DEF OnePlaceEach
    <3> QED BY <2>1, <3>1, <3>3, <3>4 DEF IInv, RoundSoFar
  <2> QED BY <2>2, <2>3
<1>15. CASE UNCHANGED vars
  BY <1>15, <1>a, <1>c DEF vars, TypeOK, RoundSoFar
<1> QED BY <1>1, <1>3, <1>4, <1>5, <1>6, <1>7, <1>8, <1>9, <1>10, <1>11, <1>12, <1>13, <1>14, <1>15, <1>16
        DEF Next, Application, ChainSteps, Sinks
-----------------------------------------------------------------------------
LEMMA Invariance == Spec => []IInv
<1> QED BY InitOK, StepOK, PTL DEF Spec

(* Types, for any threads, links and bound.                                 *)
THEOREM TypeCorrect == Spec => []TypeOK
<1>1. IInv => TypeOK
  BY DEF IInv
<1> QED BY <1>1, Invariance, PTL

(* A link's PostSelect only ever sees a round whose PreSelect it has seen.  *)
THEOREM RoundsAreWhole == Spec => []PostSelectAfterPreSelect
<1>1. IInv => PostSelectAfterPreSelect
  <2> SUFFICES ASSUME IInv, pc \in {"select", "drain", "post"}, NEW l \in Range(links)
               PROVE  l \in polled
    BY DEF PostSelectAfterPreSelect
  <2>1. links \in Seq(Link) /\ DOMAIN links = 1 .. Len(links)
    BY DEF IInv, TypeOK
  <2>2. PICK i \in 1 .. Len(links) : links[i] = l
    BY <2>1 DEF Range
  <2> QED BY <2>2 DEF IInv, RoundSoFar
<1> QED BY <1>1, Invariance, PTL

(* No link is on the chain twice or after its Destroy.                      *)
THEOREM DestroyedOnce == Spec => []LinksAreLive
<1>1. IInv => LinksAreLive
  <2> SUFFICES ASSUME IInv PROVE LinksAreLive
    OBVIOUS
  <2>1. DOMAIN links = 1 .. Len(links)
    BY DEF IInv, TypeOK
  <2> QED BY <2>1 DEF IInv, OnePlaceEach, LinksAreLive, IsInjective
<1> QED BY <1>1, Invariance, PTL
-----------------------------------------------------------------------------
(* Accounting: where a link that was added can be.  When the chain ends all *)
(* links before the loop's position are destroyed.                          *)
Linked(l) == \E i \in 1 .. Len(links) : links[i] = l

Placed(l) ==
  Linked(l) \/ Waits(requests, l) \/ Waits(batch, l) \/ l \in dead \/ l \in dropped

Kept ==
  /\ dropped \subseteq added
  /\ \A l \in added : Placed(l)
  /\ pc = "destroy" => \A i \in 1 .. pos - 1 : links[i] \in dead

LEMMA WaitsAdded ==
  ASSUME NEW q \in Seq(Request), NEW l \in Link
  PROVE  l \in AddedBy(q) <=> Waits(q, l)
<1> DEFINE r == [op |-> "add", link |-> l]
<1>1. \A i \in 1 .. Len(q) : q[i] \in Request
  BY ElementOfSeq
<1>2. \A i \in 1 .. Len(q) : q[i] = r <=> Adds(q, i, l)
  BY <1>1 DEF Request, Adds
<1>3. r \in Range(q) <=> \E i \in 1 .. Len(q) : q[i] = r
  BY DEF Range
<1>4. l \in AddedBy(q) <=> r \in Range(q)
  BY DEF AddedBy
<1> QED BY <1>2, <1>3, <1>4 DEF Waits

(* Without its head a queue asks for what it asked for, but the head.       *)
LEMMA WaitsHead ==
  ASSUME NEW q \in Seq(Request), q # <<>>, NEW l \in Link, Waits(q, l)
  PROVE  (Head(q).op = "add" /\ Head(q).link = l) \/ Waits(Tail(q), l)
<1>1. /\ Len(Tail(q)) = Len(q) - 1
      /\ \A i \in 1 .. Len(Tail(q)) : Tail(q)[i] = q[i + 1]
      /\ Len(q) \in Nat /\ Len(q) # 0 /\ Head(q) = q[1]
  BY HeadTailProperties
<1>2. PICK i \in 1 .. Len(q) : Adds(q, i, l)
  BY DEF Waits
<1>3. CASE i = 1
  BY <1>1, <1>2, <1>3 DEF Adds
<1>4. CASE i # 1
  <2>1. i - 1 \in 1 .. Len(Tail(q)) /\ (i - 1) + 1 = i
    BY <1>1, <1>2, <1>4
  <2>2. Tail(q)[i - 1] = q[i]
    BY <1>1, <2>1
  <2> QED BY <1>2, <2>1, <2>2 DEF Adds, Waits
<1> QED BY <1>3, <1>4

LEMMA KeptInit == Init => Kept
<1> SUFFICES ASSUME Init PROVE Kept
  OBVIOUS
<1> QED BY DEF Init, Kept

LEMMA KeptStep ==
  ASSUME IInv, IInv', Kept, [Next]_vars
  PROVE  Kept'
<1>a. /\ TypeOK /\ OnePlaceEach /\ RoundSoFar /\ added \subseteq Link
      /\ Len(links) \in Nat /\ links \in Seq(Link) /\ batch \in Seq(Request)
      /\ requests \in Seq(Request)
  BY DEF IInv, TypeOK
(* A link that is put on the chain is there, and so is what was there.      *)
<1>b. ASSUME NEW l \in Link, links' = Append(links, l), UNCHANGED pos, pc # "destroy",
             UNCHANGED pc
      PROVE  /\ Linked(l)' /\ \A k \in Link : Linked(k) => Linked(k)'
             /\ pc' # "destroy"
  <2>1. /\ Len(links') = Len(links) + 1 /\ links'[Len(links) + 1] = l
        /\ \A i \in 1 .. Len(links) : links'[i] = links[i]
    BY <1>a, <1>b, AppendProperties
  <2>2. Len(links) + 1 \in 1 .. Len(links') /\ 1 .. Len(links) \subseteq 1 .. Len(links')
    BY <1>a, <2>1
  <2>3. Linked(l)'
    BY <2>1, <2>2 DEF Linked
  <2>4. \A k \in Link : Linked(k) => Linked(k)'
    BY <2>1, <2>2 DEF Linked
  <2> QED BY <1>b, <2>3, <2>4
<1>1. ASSUME NEW l \in Link, AddToChain(l) PROVE Kept'
  <2>1. /\ links' = Append(links, l) /\ added' = added \cup {l} /\ pc = "created"
        /\ UNCHANGED <<requests, batch, dead, dropped, pc, pos>>
    BY <1>1 DEF AddToChain
  <2>2. Linked(l)' /\ \A k \in Link : Linked(k) => Linked(k)'
    BY <2>1, <1>b
  <2>3. \A k \in added' : Placed(k)'
    BY <2>1, <2>2, <1>a DEF Kept, Placed
  <2> QED BY <2>1, <2>3 DEF Kept
<1>2. ASSUME NEW r \in Request, Ask(r.op, r.link), added \subseteq added',
             \A l \in added' : l \in added \/ (r.op = "add" /\ l = r.link)
      PROVE  Kept'
  <2>1. /\ requests' = Append(requests, r)
        /\ UNCHANGED <<links, batch, dead, dropped, pc, pos>>
    <3>1. r = [op |-> r.op, link |-> r.link]
      BY DEF Request
    <3> QED BY <1>2, <3>1 DEF Ask
  <2>2. /\ Len(requests') = Len(requests) + 1 /\ requests'[Len(requests) + 1] = r
        /\ \A i \in 1 .. Len(requests) : requests'[i] = requests[i]
        /\ Len(requests) \in Nat
    BY <2>1, <1>a, AppendProperties
  <2>3. \A l \in Link : Waits(requests, l) => Waits(requests', l)
    <3>1. 1 .. Len(requests) \subseteq 1 .. Len(requests')
      BY <2>2
    <3> QED BY <2>2, <3>1 DEF Waits, Adds
  <2>4. r.op = "add" => Waits(requests', r.link)
    <3>1. Len(requests) + 1 \in 1 .. Len(requests')
      BY <2>2
    <3> QED BY <2>2, <3>1 DEF Waits, Adds
  <2>5. \A l \in added : Placed(l)'
    BY <2>1, <2>3, <1>a DEF Kept, Placed, Linked
  <2>6. r.op = "add" => Placed(r.link)'
    BY <2>4 DEF Placed
  <2> QED BY <1>2, <2>1, <2>5, <2>6 DEF Kept
<1>3. ASSUME NEW t \in Thread, NEW l \in Link, SafeAdd(t, l) PROVE Kept'
  <2> DEFINE r == [op |-> "add", link |-> l]
  <2>1. r \in Request /\ Ask(r.op, r.link) /\ added' = added \cup {r.link} /\ r.op = "add"
    BY <1>3 DEF SafeAdd, Request
  <2> QED BY <1>2, <2>1
<1>4. ASSUME NEW t \in Thread, NEW l \in Link, SafeRemove(t, l) PROVE Kept'
  <2> DEFINE r == [op |-> "remove", link |-> l]
  <2>1. r \in Request /\ Ask(r.op, r.link) /\ added' = added
    BY <1>4 DEF SafeRemove, Request
  <2> QED BY <1>2, <2>1
(* Steps that leave every link where it is.                                 *)
<1>c. ASSUME UNCHANGED <<links, requests, batch, added, dead, dropped>>,
             pc' = "destroy" => pos' = 1 \/ UNCHANGED <<pc, pos>>
      PROVE  Kept'
  BY <1>c DEF Kept, Placed, Linked
<1>5. ASSUME NEW t \in Thread, StopChain(t) \/ StopChainReturns(t) PROVE Kept'
  BY <1>5, <1>c DEF StopChain, StopChainReturns, Stop
<1>6. CASE \/ Start \/ PostSelectDone \/ CheckDone \/ PreSelect \/ PreSelectDone
           \/ SelectReturns \/ LinkReady \/ DrainPipe \/ PostSelect
  BY <1>6, <1>c DEF Start, PostSelectDone, Round, CheckDone, PreSelect, PreSelectDone,
                    SelectReturns, LinkReady, DrainPipe, PostSelect
<1>7. CASE Check
  <2>1. /\ batch = <<>> /\ batch' = requests /\ pc' # "destroy"
        /\ UNCHANGED <<links, added, dead, dropped>>
    BY <1>7, <1>a DEF Check, RoundSoFar
  <2>2. \A l \in Link : Placed(l) => Placed(l)'
    BY <2>1, WaitsEmpty DEF Placed, Linked
  <2> QED BY <2>1, <2>2, <1>a DEF Kept
<1>8. CASE SafeAddSink
  <2>1. PICK l : l = Head(batch).link
    OBVIOUS
  <2>2. /\ batch # <<>> /\ batch' = Tail(batch) /\ Head(batch).op = "add" /\ pc = "sinks"
        /\ links' = Append(links, l)
        /\ UNCHANGED <<requests, added, dead, dropped, pc, pos>>
    BY <1>8, <2>1 DEF SafeAddSink
  <2>3. Head(batch) \in Request
    BY <1>a, <2>2, HeadTailProperties
  <2>4. l \in Link
    BY <2>1, <2>3 DEF Request
  <2>5. \A k \in Link : Waits(batch, k) => l = k \/ Waits(batch', k)
    BY <1>a, <2>1, <2>2, WaitsHead
  <2>6. Linked(l)' /\ \A k \in Link : Linked(k) => Linked(k)'
    BY <2>2, <2>4, <1>b
  <2>7. \A k \in Link : Placed(k) => Placed(k)'
    BY <2>2, <2>5, <2>6 DEF Placed
  <2> QED BY <2>2, <2>7, <1>a DEF Kept
<1>9. CASE SafeRemoveSink
  <2> DEFINE l == Head(batch).link
  <2>1. /\ batch # <<>> /\ batch' = Tail(batch) /\ Head(batch).op = "remove" /\ pc = "sinks"
        /\ \/ UNCHANGED <<links, dead>>
           \/ \E i \in Found(l) : links' = Unlinked(i) /\ dead' = dead \cup {l}
        /\ UNCHANGED <<requests, added, dropped, pc>>
    BY <1>9 DEF SafeRemoveSink
  <2>2. \A k \in Link : Waits(batch, k) => Waits(batch', k)
    BY <1>a, <2>1, WaitsHead
  <2> HIDE DEF l
  <2>3. \A k \in Link : Linked(k) => Linked(k)' \/ k \in dead'
    <3>1. CASE UNCHANGED <<links, dead>>
      BY <3>1 DEF Linked
    <3>2. ASSUME NEW i \in Found(l), links' = Unlinked(i), dead' = dead \cup {l},
                 NEW k \in Link, Linked(k), k # l
          PROVE  Linked(k)'
      <4>1. i \in 1 .. Len(links) /\ links[i] = l
        BY <3>2 DEF Found
      <4>2. /\ Len(links') = Len(links) - 1
            /\ \A j \in 1 .. Len(links) - 1 : links'[j] = IF j < i THEN links[j] ELSE links[j + 1]
        BY <3>2, <4>1, <1>a, RemoveAtProperties DEF Unlinked
      <4>3. PICK m \in 1 .. Len(links) : links[m] = k
        BY <3>2 DEF Linked
      <4>4. CASE m < i
        <5>1. m \in 1 .. Len(links) - 1 /\ links'[m] = k
          BY <4>1, <4>2, <4>3, <4>4, <1>a
        <5> QED BY <4>2, <5>1 DEF Linked
      <4>5. CASE m > i
        <5>1. m - 1 \in 1 .. Len(links) - 1 /\ ~(m - 1 < i) /\ (m - 1) + 1 = m
          BY <4>1, <4>3, <4>5, <1>a
        <5>2. links'[m - 1] = k
          BY <4>2, <4>3, <5>1
        <5> QED BY <4>2, <5>1, <5>2 DEF Linked
      <4>6. m # i
        BY <3>2, <4>1, <4>3
      <4> QED BY <4>1, <4>3, <4>4, <4>5, <4>6
    <3>3. ASSUME NEW i \in Found(l), links' = Unlinked(i), dead' = dead \cup {l},
                 NEW k \in Link, Linked(k)
          PROVE  Linked(k)' \/ k \in dead'
      <4>1. k # l => Linked(k)'
        BY <3>2, <3>3
      <4> QED BY <3>3, <4>1
    <3> QED BY <2>1, <3>1, <3>3
  <2>4. dead \subseteq dead'
    BY <2>1
  <2>5. \A k \in Link : Placed(k) => Placed(k)'
    BY <2>1, <2>2, <2>3, <2>4 DEF Placed
  <2> QED BY <2>1, <2>5, <1>a DEF Kept
<1>10. CASE Destroy
  <2>1. /\ pc = "destroy" /\ batch = <<>> /\ UNCHANGED <<batch, added>>
        /\ dropped' = dropped \cup AddedBy(requests)
    BY <1>10, <1>a DEF Destroy, RoundSoFar
  <2>2. \A l \in Link : l \in AddedBy(requests) <=> Waits(requests, l)
    BY <1>a, WaitsAdded
  <2>3. dropped' \subseteq added'
    <3>1. AddedBy(requests) \subseteq Link
      BY DEF AddedBy
    <3> QED BY <2>1, <2>2, <3>1, <1>a DEF Kept, OnePlaceEach
  <2>4. CASE pos <= Len(links)
    <3>1. dead' = dead \cup {links[pos]} /\ pos' = pos + 1 /\ UNCHANGED <<links, pc>>
      BY <1>10, <2>4 DEF Destroy
    <3>2. \A l \in Link : Placed(l) => Placed(l)'
      BY <2>1, <2>2, <3>1 DEF Placed, Linked
    <3>3. \A i \in 1 .. pos' - 1 : links'[i] \in dead'
      BY <2>1, <3>1, <1>a DEF Kept, TypeOK
    <3> QED BY <2>1, <2>3, <3>2, <3>3, <1>a DEF Kept
  <2>5. CASE ~(pos <= Len(links))
    <3>1. links' = <<>> /\ pc' = "ended" /\ UNCHANGED dead
      BY <1>10, <2>5 DEF Destroy
    <3>2. pos = Len(links) + 1
      BY <2>5, <1>a DEF TypeOK
    <3>3. \A l \in Link : Linked(l) => l \in dead
      BY <2>1, <3>2, <1>a DEF Kept, Linked
    <3>4. \A l \in Link : Placed(l) => Placed(l)'
      BY <2>1, <2>2, <3>1, <3>3 DEF Placed
    <3> QED BY <2>1, <2>3, <3>1, <3>4, <1>a DEF Kept
  <2> QED BY <2>4, <2>5
<1>11. CASE UNCHANGED vars
  BY <1>11, <1>c DEF vars
<1> QED BY <1>1, <1>3, <1>4, <1>5, <1>6, <1>7, <1>8, <1>9, <1>10, <1>11
        DEF Next, Application, ChainSteps, Sinks

(* A link that was added is on the chain, waiting to be added, destroyed, or *)
(* its addition ended with the chain; and only such a link is.              *)
THEOREM NoLinkIsLost == Spec => []LinksAccounted
<1>1. IInv /\ Kept => LinksAccounted
  <2> SUFFICES ASSUME IInv, Kept PROVE LinksAccounted
    OBVIOUS
  <2>1. /\ links \in Seq(Link) /\ requests \in Seq(Request) /\ batch \in Seq(Request)
        /\ added \subseteq Link /\ dead \subseteq added /\ dropped \subseteq added
    BY DEF IInv, TypeOK, Kept
  <2>2. \A l \in Link : /\ l \in AddedBy(requests) <=> Waits(requests, l)
                        /\ l \in AddedBy(batch) <=> Waits(batch, l)
    BY <2>1, WaitsAdded
  <2>3. \A l : l \in Range(links) <=> Linked(l)
    <3>1. DOMAIN links = 1 .. Len(links)
      BY <2>1
    <3> QED BY <3>1 DEF Range, Linked
  <2>4. AddedBy(requests) \subseteq Link /\ AddedBy(batch) \subseteq Link
    BY DEF AddedBy
  <2>5. \A l \in added : \/ l \in Range(links) \/ l \in AddedBy(requests)
                         \/ l \in AddedBy(batch) \/ l \in dead \/ l \in dropped
    BY <2>1, <2>2, <2>3 DEF Kept, Placed
  <2>6. Range(links) \subseteq added
    BY <2>3 DEF Linked, IInv, OnePlaceEach
  <2>7. AddedBy(requests) \subseteq added /\ AddedBy(batch) \subseteq added
    BY <2>2, <2>4 DEF IInv, OnePlaceEach
  <2> QED BY <2>1, <2>5, <2>6, <2>7 DEF LinksAccounted
<1>2. IInv /\ Kept /\ [Next]_vars => (IInv /\ Kept)'
  BY StepOK, KeptStep
<1>3. Init => IInv /\ Kept
  BY InitOK, KeptInit
<1> QED BY <1>1, <1>2, <1>3, PTL DEF Spec
(* What may have come up since the look at the list, or at the flag.        *)
Alert ==
  /\ pc \in {"pre", "select"} /\ requests # <<>> => timed \/ pipe
  /\ pc \in {"check", "sinks", "pre", "select"} /\ TerminateFlag => pipe \/ stopper # {}
  /\ pc = "select" => Microstack \notin stopper

LEMMA AlertStep ==
  ASSUME TypeOK, Alert, [Next]_vars
  PROVE  Alert'
<1>a. /\ pc \in Location /\ pipe \in BOOLEAN /\ timed \in BOOLEAN /\ TerminateFlag \in BOOLEAN
      /\ requests \in Seq(Request) /\ stopper \subseteq Thread
  BY DEF TypeOK
<1>1. ASSUME NEW l \in Link, AddToChain(l)
      PROVE  Alert'
  BY <1>1 DEF AddToChain, Alert
<1>2. ASSUME NEW t \in Thread, NEW l \in Link, SafeAdd(t, l) \/ SafeRemove(t, l)
      PROVE  Alert'
  <2>1. /\ UNCHANGED <<pc, timed, TerminateFlag, stopper>>
        /\ pipe' = (pipe \/ (WakesChain(requests) /\ PipeIsOpen))
    BY <1>2 DEF SafeAdd, SafeRemove, Ask
  <2>2. pc \in {"pre", "select"} => PipeIsOpen
    BY DEF PipeIsOpen
  <2> QED BY <1>a, <2>1, <2>2 DEF Alert, WakesChain
<1>3. ASSUME NEW t \in Thread, StopChain(t)
      PROVE  Alert'
  <2>1. /\ UNCHANGED <<pc, timed, requests, pipe>> /\ stopper' = {t}
        /\ t = Microstack => pc # "select"
    BY <1>a, <1>3 DEF StopChain, Stop, Runs, SetsFlag
  <2> QED BY <2>1 DEF Alert
<1>4. ASSUME NEW t \in Thread, StopChainReturns(t)
      PROVE  Alert'
  <2>1. /\ UNCHANGED <<pc, timed, requests>> /\ stopper' = {}
        /\ pipe' = (pipe \/ (~SetsFlag(2) /\ PipeIsOpen))
    BY <1>4 DEF StopChainReturns, Stop
  <2>a. ~SetsFlag(2)
    BY DEF SetsFlag
  <2>2. PipeIsOpen => pipe'
    BY <2>1, <2>a, Zenon
  <2>3. pc \in {"pre", "select", "check", "sinks"} => PipeIsOpen
    BY DEF PipeIsOpen
  <2> QED BY <2>1, <2>2, <2>3 DEF Alert
<1>5. CASE Start \/ PostSelectDone
  <2>1. UNCHANGED <<requests, timed, pipe, TerminateFlag, stopper>>
    BY <1>5 DEF Start, PostSelectDone
  <2>2. pc' = IF TerminateFlag THEN "destroy" ELSE "check"
    BY <1>5 DEF Start, PostSelectDone, Round
  <2> QED BY <2>1, <2>2 DEF Alert
<1>6. CASE Check
  BY <1>6 DEF Check, Alert
<1>7. CASE Sinks
  <2>1. pc = "sinks" /\ UNCHANGED <<pc, pipe, TerminateFlag, stopper>>
    BY <1>7 DEF Sinks, SafeAddSink, SafeRemoveSink
  <2> QED BY <2>1 DEF Alert
<1>8. CASE CheckDone
  BY <1>8, <1>a DEF CheckDone, Alert
<1>9. CASE PreSelect \/ PreSelectDone
  BY <1>9 DEF PreSelect, PreSelectDone, Alert, Free
<1>10. CASE SelectReturns \/ LinkReady \/ DrainPipe \/ PostSelect
  <2>1. pc' \in {"drain", "post"}
    BY <1>10 DEF SelectReturns, LinkReady, DrainPipe, PostSelect
  <2> QED BY <2>1 DEF Alert
<1>11. CASE Destroy
  <2>1. pc' \in {"destroy", "ended"}
    BY <1>11 DEF Destroy
  <2> QED BY <2>1 DEF Alert
<1>12. CASE UNCHANGED vars
  BY <1>12 DEF vars, Alert
<1> QED BY <1>1, <1>2, <1>3, <1>4, <1>5, <1>6, <1>7, <1>8, <1>9, <1>10, <1>11, <1>12
        DEF Next, Application, ChainSteps

(* No thread asks or stops the chain at a moment that lets it sleep on.     *)
THEOREM NoSleepOverRequests == Spec => []SelectIsWoken
<1>1. IInv /\ Alert => SelectIsWoken
  BY DEF IInv, TypeOK, Alert, SelectIsWoken, Thread
<1>2. IInv /\ Alert /\ [Next]_vars => (IInv /\ Alert)'
  BY StepOK, AlertStep DEF IInv
<1>3. Init => IInv /\ Alert
  BY InitOK DEF Init, Alert
<1> QED BY <1>1, <1>2, <1>3, PTL DEF Spec
=============================================================================
