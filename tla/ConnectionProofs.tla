-------------------------- MODULE ConnectionProofs --------------------------
(***************************************************************************)
(* Proofs about the two modules that handle connections.  First,           *)
(* AsyncSocket for every set of threads, message size, and bound on the    *)
(* connections and sends; then WebClient for every set of servers, size of *)
(* the pool, number of retries, and bound on the requests.                 *)
(***************************************************************************)
EXTENDS AsyncSocket, WebClient, SequenceTheorems, FiniteSetTheorems, TLAPS

(* Only an established connection that works has data waiting, and what     *)
(* PreSelect saw waiting waits until the write part of PostSelect.          *)
QueueWaits ==
  /\ IsFree \/ ~FinConnect \/ broken => PendingSend = <<>>
  /\ pc \in {"select", "write"} /\ "write" \in polled /\ FinConnect /\ ~IsFree
       => PendingSend # <<>>

(* The connect timeout runs for the last connection, which was not          *)
(* established, and which is open unless the chain was stopped.             *)
TimesOut ==
  connectTimer => /\ ~FinConnect /\ opened # 0 /\ IsInjective(ended)
                  /\ socket = opened \/ (IsFree /\ TerminateFlag)

(* A connection its application has paused is not polled, so that nothing   *)
(* resumes it between an error and the test of the read bit after it.       *)
Reads ==
  /\ paused => PAUSE = 1 /\ (IsFree \/ FinConnect)
  /\ pc \in {"select", "write", "sendok", "connection"} /\ polled \cap {"read", "error"} # {}
       => ~paused
  /\ pc \in {"process", "resume", "ondata"} => FinConnect
  /\ pc = "process" => ~paused /\ (IsFree => PAUSE = 1)

IInv == TypeOK /\ WireInOrder /\ QueueWaits /\ EndedOnce /\ TimesOut /\ Reads

QueueTypes ==
  /\ PendingSend \in Seq(Message) /\ PendingBytesToSend \in Nat
  /\ accepted \in Seq(Message) /\ wire \in Seq(Message) /\ broken \in BOOLEAN

EndTypes ==
  /\ opened \in 0 .. MaxConnections /\ socket \in 0 .. opened
  /\ ended \in Seq(0 .. opened)

OtherTypes ==
  /\ FinConnect \in BOOLEAN /\ PAUSE \in {-1, 0, 1}
  /\ unread \in BOOLEAN /\ paused \in BOOLEAN
  /\ scheduled \in BOOLEAN /\ connectTimer \in BOOLEAN
  /\ pc \in Location /\ polled \subseteq Bit /\ ready \subseteq polled
  /\ timed \in BOOLEAN /\ pipe \in BOOLEAN
  /\ todo \in [Thread -> {"nothing", "unblock", "disconnect"}]
  /\ TerminateFlag \in BOOLEAN /\ sent \in 0 .. MaxSends

LEMMA Types == TypeOK <=> QueueTypes /\ EndTypes /\ OtherTypes
BY DEF TypeOK, QueueTypes, EndTypes, OtherTypes
-----------------------------------------------------------------------------
(* The bytes of a queue, cut after the first n.                             *)
LEMMA Cut ==
  ASSUME NEW S, NEW s \in Seq(S), NEW n \in 0 .. Len(s)
  PROVE  /\ SubSeq(s, 1, n) \in Seq(S) /\ SubSeq(s, n + 1, Len(s)) \in Seq(S)
         /\ Len(SubSeq(s, n + 1, Len(s))) = Len(s) - n
         /\ SubSeq(s, 1, n) \o SubSeq(s, n + 1, Len(s)) = s
<1>1. Len(s) \in Nat /\ \A i \in 1 .. Len(s) : s[i] \in S
  BY ElementOfSeq
<1>2. SubSeq(s, 1, n) \in Seq(S)
  BY <1>1, SubSeqProperties
<1>3. SubSeq(s, n + 1, Len(s)) \in Seq(S)
      /\ Len(SubSeq(s, n + 1, Len(s))) = Len(s) - n
  BY <1>1, SubSeqProperties
<1>4. SubSeq(s, 1, n) \o SubSeq(s, n + 1, Len(s)) = SubSeq(s, 1, Len(s))
  <2>1. 1 \in 1 .. Len(s) + 1 /\ n \in 1 - 1 .. Len(s) /\ Len(s) \in n .. Len(s)
    BY <1>1
  <2> QED BY <2>1, ConcatAdjacentSubSeq
<1> QED BY <1>2, <1>3, <1>4, SubSeqFull

LEMMA BytesOf ==
  ASSUME NEW m \in Message
  PROVE  Bytes(m) \in Seq(Message) /\ Len(Bytes(m)) = Size /\ Size \in Nat \ {0}
<1>1. Size \in Nat \ {0}
  BY AsyncSocketAssumption
<1> QED BY <1>1 DEF Bytes

LEMMA StepQueue ==
  ASSUME TypeOK, WireInOrder, QueueWaits, [Next]_vars
  PROVE  QueueTypes' /\ WireInOrder'
<1>a. /\ PendingSend \in Seq(Message) /\ Len(PendingSend) \in Nat /\ PendingBytesToSend \in Nat
      /\ accepted \in Seq(Message) /\ wire \in Seq(Message) /\ broken \in BOOLEAN
      /\ sent \in 0 .. MaxSends /\ MaxSends \in Nat /\ <<>> \in Seq(Message) /\ Len(<<>>) = 0
  BY AsyncSocketAssumption DEF TypeOK
<1>c. \A p, q, r \in Seq(Message) : (p \o q) \o r = p \o (q \o r)
  BY ConcatAssociative
(* Bytes that wait move to the network. *)
<1>b. ASSUME NEW n \in 0 .. Len(PendingSend)
      PROVE  /\ SubSeq(PendingSend, 1, n) \in Seq(Message)
             /\ wire \o SubSeq(PendingSend, 1, n) \in Seq(Message)
             /\ SubSeq(PendingSend, n + 1, Len(PendingSend)) \in Seq(Message)
             /\ Len(SubSeq(PendingSend, n + 1, Len(PendingSend))) = Len(PendingSend) - n
             /\ (wire \o SubSeq(PendingSend, 1, n)) \o SubSeq(PendingSend, n + 1, Len(PendingSend))
                  = wire \o PendingSend
  <2> DEFINE out  == SubSeq(PendingSend, 1, n)
             left == SubSeq(PendingSend, n + 1, Len(PendingSend))
  <2>1. /\ out \in Seq(Message) /\ left \in Seq(Message)
        /\ Len(left) = Len(PendingSend) - n /\ out \o left = PendingSend
    BY <1>a, Cut
  <2> HIDE DEF out, left
  <2>2. wire \o out \in Seq(Message)
    BY <1>a, <2>1, ConcatProperties
  <2>3. (wire \o out) \o left = wire \o (out \o left)
    <3>1. wire \in Seq(Message) /\ out \in Seq(Message) /\ left \in Seq(Message)
      BY <1>a, <2>1
    <3> QED BY <3>1, <1>c, Zenon
  <2> QED BY <2>1, <2>2, <2>3 DEF out, left
<1>1. ASSUME NEW t \in Thread, Send(t) PROVE QueueTypes' /\ WireInOrder'
  <2> DEFINE m == sent + 1
             b == Bytes(m)
  <2>1. m \in Message /\ ~IsFree /\ socket' = socket
    BY <1>1, <1>a DEF Send, Message
  <2>2. b \in Seq(Message) /\ Len(b) = Size /\ Size \in Nat \ {0}
    BY <2>1, BytesOf
  <2>3. accepted \o b \in Seq(Message) /\ PendingSend \o b \in Seq(Message)
        /\ Len(PendingSend \o b) = Len(PendingSend) + Size
    BY <1>a, <2>2, ConcatProperties
  <2> HIDE DEF m, b
  <2>4. CASE SendQueues(t, m)
    <3>1. /\ PendingSend' = PendingSend \o b /\ accepted' = accepted \o b
          /\ PendingBytesToSend' = PendingBytesToSend + Size
          /\ wire' = wire /\ broken' = broken
      BY <2>4 DEF SendQueues, AddsLength, b
    <3>2. (wire \o PendingSend) \o b = wire \o (PendingSend \o b)
      BY <1>a, <2>2, ConcatAssociative
    <3>3. QueueTypes'
      BY <3>1, <2>2, <2>3, <1>a DEF QueueTypes
    <3> QED BY <3>1, <3>2, <3>3, <2>1, <2>2, <2>3, <1>a DEF WireInOrder, IsFree
  <2>5. CASE SendAtOnce(t, m)
    <3>1. PICK n \in 0 .. Size :
            /\ wire' = wire \o SubSeq(b, 1, n)
            /\ PendingSend' = PendingSend \o SubSeq(b, n + 1, Size)
            /\ PendingBytesToSend' = AddsLength(PendingBytesToSend) - n
      BY <2>5, Zenon DEF SendAtOnce, b
    <3>2. PendingSend = <<>> /\ ~broken /\ broken' = broken /\ accepted' = accepted \o b
      BY <2>5 DEF SendAtOnce, SendsAtOnce, b
    <3>3. wire \o PendingSend = wire
      BY <3>2, <1>a, ConcatEmptySeq
    <3>4. wire = accepted /\ PendingBytesToSend = 0
      BY <3>2, <3>3, <2>1, <1>a DEF WireInOrder
    <3>5. /\ SubSeq(b, 1, n) \in Seq(Message) /\ SubSeq(b, n + 1, Size) \in Seq(Message)
          /\ Len(SubSeq(b, n + 1, Size)) = Size - n
          /\ SubSeq(b, 1, n) \o SubSeq(b, n + 1, Size) = b
      BY <2>2, Cut
    <3>6. wire' \in Seq(Message) /\ PendingSend' = SubSeq(b, n + 1, Size)
      BY <3>1, <3>2, <3>5, <1>a, ConcatProperties, ConcatEmptySeq
    <3>7. wire' \o PendingSend' = wire \o (SubSeq(b, 1, n) \o SubSeq(b, n + 1, Size))
      <4>1. (wire \o SubSeq(b, 1, n)) \o SubSeq(b, n + 1, Size)
              = wire \o (SubSeq(b, 1, n) \o SubSeq(b, n + 1, Size))
        <5>1. wire \in Seq(Message) /\ SubSeq(b, 1, n) \in Seq(Message)
              /\ SubSeq(b, n + 1, Size) \in Seq(Message)
          BY <3>5, <1>a
        <5> QED BY <5>1, <1>c, Zenon
      <4> QED BY <3>1, <3>6, <4>1, Zenon
    <3>8. PendingBytesToSend' = Len(PendingSend') /\ PendingBytesToSend' \in Nat
      <4>1. PendingBytesToSend' = Size - n
        BY <3>1, <3>4, <2>2 DEF AddsLength
      <4>2. Len(PendingSend') = Size - n
        BY <3>5, <3>6
      <4> QED BY <4>1, <4>2, <3>1, <2>2
    <3> QED BY <3>2, <3>4, <3>5, <3>6, <3>7, <3>8, <2>3, <1>a DEF QueueTypes, WireInOrder
  <2>6. CASE SendFails(t)
    BY <2>6, <2>2, <1>a DEF SendFails, AddsLength, QueueTypes, WireInOrder
  <2> QED BY <1>1, <2>4, <2>5, <2>6 DEF Send, m
<1>2. ASSUME Close, UNCHANGED history PROVE QueueTypes' /\ WireInOrder'
  BY <1>2, <1>a DEF Close, ClearPendingSend, history, QueueTypes, WireInOrder, IsFree
<1>3. ASSUME UNCHANGED <<queue, history>>, socket' \in {socket, 0} PROVE QueueTypes' /\ WireInOrder'
  BY <1>3, <1>a DEF queue, history, QueueTypes, WireInOrder, IsFree
<1>4. ASSUME Disconnect, UNCHANGED history PROVE QueueTypes' /\ WireInOrder'
  BY <1>2, <1>3, <1>4 DEF Disconnect
<1>5. CASE OwnerDisconnects
  BY <1>4, <1>5 DEF OwnerDisconnects
<1>6. CASE ConnectTo \/ UseThisSocket
  <2>1. Open
    BY <1>6 DEF ConnectTo, UseThisSocket
  <2>2. PendingSend = <<>> /\ PendingSend' = <<>> /\ wire' = <<>> /\ accepted' = <<>>
        /\ broken' = FALSE /\ PendingBytesToSend' = 0
    BY <2>1 DEF Open, QueueWaits
  <2>3. wire' \o PendingSend' = accepted'
    BY <2>2, <1>a, ConcatEmptySeq
  <2> QED BY <2>2, <2>3, <1>a DEF QueueTypes, WireInOrder
<1>7. CASE RunScheduled
  BY <1>3, <1>4, <1>7 DEF RunScheduled, queue
<1>8. CASE Write
  <2>1. UNCHANGED <<socket, accepted>>
    BY <1>8 DEF Write
  <2>2. CASE WriteAll
    <3>1. Writes /\ wire' = wire \o PendingSend /\ PendingSend' = <<>> /\ broken' = broken
          /\ PendingBytesToSend' = PendingBytesToSend - Len(PendingSend)
      BY <2>2 DEF WriteAll
    <3>2. pc = "write" /\ "write" \in polled /\ FinConnect /\ ~IsFree
      BY <2>2, <3>1 DEF WriteAll, Goes, Writes, TypeOK
    <3>3. ~broken /\ ~IsFree
      BY <3>2, <1>a DEF QueueWaits
    <3>4. PendingBytesToSend = Len(PendingSend) /\ wire \o PendingSend = accepted
      BY <3>3 DEF WireInOrder
    <3>5. wire' \o PendingSend' = accepted'
      BY <3>1, <3>4, <2>1, <1>a, ConcatEmptySeq
    <3> QED BY <3>1, <3>4, <3>5, <2>1, <1>a DEF QueueTypes, WireInOrder
  <2>3. CASE WriteSome
    <3>1. PICK n \in 1 .. Len(PendingSend) - 1 :
            /\ wire' = wire \o SubSeq(PendingSend, 1, n)
            /\ PendingBytesToSend' = PendingBytesToSend - n
            /\ PendingSend' = SubSeq(PendingSend, n + 1, Len(PendingSend))
      BY <2>3 DEF WriteSome
    <3>2. broken' = broken /\ ~IsFree /\ ~broken
      <4>1. PendingSend # <<>>
        BY <3>1, <1>a
      <4> QED BY <4>1, <2>3 DEF WriteSome, Writes, QueueWaits
    <3>3. n \in 0 .. Len(PendingSend)
      BY <3>1, <1>a
    <3>4. PendingBytesToSend = Len(PendingSend) /\ wire \o PendingSend = accepted
      BY <3>2 DEF WireInOrder
    <3>5. wire' \in Seq(Message) /\ PendingSend' \in Seq(Message)
          /\ Len(PendingSend') = Len(PendingSend) - n /\ wire' \o PendingSend' = accepted'
      BY <3>1, <3>3, <3>4, <2>1, <1>b
    <3>6. PendingBytesToSend' = Len(PendingSend') /\ PendingBytesToSend' \in Nat
      BY <3>1, <3>3, <3>4, <3>5, <1>a
    <3> QED BY <3>2, <3>5, <3>6, <2>1, <1>a DEF QueueTypes, WireInOrder
  <2>4. CASE WriteFails
    <3>1. PICK n \in 0 .. Len(PendingSend) - 1 : wire' = wire \o SubSeq(PendingSend, 1, n)
      BY <2>4 DEF WriteFails
    <3>2. n \in 0 .. Len(PendingSend)
      BY <3>1, <1>a
    <3>3. wire' \in Seq(Message)
      BY <3>1, <3>2, <1>b
    <3> QED BY <3>3, <2>1, <2>4, <1>a DEF WriteFails, QueueTypes, WireInOrder
  <2>5. CASE WriteSkipped
    BY <2>1, <2>5, <1>3 DEF WriteSkipped, history
  <2> QED BY <1>8, <2>2, <2>3, <2>4, <2>5 DEF Write
<1>9. CASE HandleConnection
  <2>1. UNCHANGED history
    BY <1>9 DEF HandleConnection
  <2>2. CASE PeerReset
    BY <1>2, <2>1, <2>2 DEF PeerReset
  <2>3. CASE FinishConnect \/ Readable \/ Resumed \/ Idle
    BY <1>3, <2>1, <2>3 DEF FinishConnect, Readable, Resumed, Idle, queue
  <2> QED BY <1>9, <2>2, <2>3 DEF HandleConnection
<1>10. CASE Receive
  <2>1. UNCHANGED history
    BY <1>10 DEF Receive
  <2> QED BY <1>2, <1>3, <1>10, <2>1 DEF Receive, queue
<1>11. CASE Destroy
  BY <1>11, <1>a DEF Destroy, history, QueueTypes, WireInOrder, IsFree
<1>12. ASSUME UNCHANGED <<socket, queue, history>> PROVE QueueTypes' /\ WireInOrder'
  BY <1>3, <1>12
<1>13. CASE \E t \in Thread : SendReturns(t) \/ Resume(t)
  BY <1>12, <1>13 DEF SendReturns, Resume
<1>14. CASE StopChain \/ LinksDone \/ ConnectTimeout \/ TimersDone \/ PreSelect
  BY <1>3, <1>14 DEF StopChain, LinksDone, ConnectTimeout, TimersDone, PreSelect
<1>15. CASE SelectReturns \/ SendOKReturns \/ Offer \/ OnDataReturns \/ OnDataPauses \/ RoundDone
  BY <1>12, <1>15 DEF SelectReturns, Select, SendOKReturns, Offer, OnDataReturns, OnDataPauses, RoundDone
<1>16. CASE UNCHANGED vars
  BY <1>12, <1>16 DEF vars
<1> QED BY <1>1, <1>5, <1>6, <1>7, <1>8, <1>9, <1>10, <1>11, <1>13, <1>14, <1>15, <1>16
        DEF Next, Application, Owner, ChainSteps

(* What waits in the queue has a socket that will take it.                  *)
LEMMA StepWaits ==
  ASSUME TypeOK, QueueWaits, TimesOut, Reads, [Next]_vars
  PROVE  QueueWaits'
<1>a. PendingSend \in Seq(Message) /\ ready \subseteq polled /\ FinConnect \in BOOLEAN
  BY DEF TypeOK
<1>1. ASSUME NEW t \in Thread, Send(t) PROVE QueueWaits'
  <2>1. UNCHANGED <<socket, FinConnect, pc, polled>> /\ ~IsFree /\ FinConnect
    BY <1>1 DEF Send, round
  <2>2. CASE SendQueues(t, sent + 1)
    <3>1. sent + 1 \in Message
      BY <1>1, AsyncSocketAssumption DEF Send, TypeOK, Message
    <3>2. PendingSend # <<>> /\ ~broken /\ ~broken' /\ PendingSend' = PendingSend \o Bytes(sent + 1)
      BY <2>1, <2>2 DEF SendQueues, SendsAtOnce, QueueWaits, IsFree
    <3>3. Bytes(sent + 1) \in Seq(Message)
      BY <3>1, BytesOf
    <3>4. Len(PendingSend') = Len(PendingSend) + Len(Bytes(sent + 1)) /\ PendingSend' \in Seq(Message)
          /\ Len(PendingSend) > 0 /\ Len(Bytes(sent + 1)) \in Nat
      BY <3>2, <3>3, <1>a, ConcatProperties, EmptySeq
    <3>5. PendingSend' # <<>>
      BY <3>4
    <3> QED BY <2>1, <3>2, <3>5 DEF QueueWaits, IsFree
  <2>3. CASE SendAtOnce(t, sent + 1)
    <3>1. PendingSend = <<>> /\ ~broken'
      BY <2>3 DEF SendAtOnce, SendsAtOnce
    <3> QED BY <2>1, <3>1 DEF QueueWaits, IsFree
  <2>4. CASE SendFails(t)
    BY <2>1, <2>4 DEF SendFails, SendsAtOnce, QueueWaits, IsFree
  <2> QED BY <1>1, <2>2, <2>3, <2>4 DEF Send
<1>2. ASSUME UNCHANGED <<socket, FinConnect, PendingSend, broken>>,
             pc' \in {"select", "write"} => pc \in {"select", "write"} /\ polled' = polled
      PROVE  QueueWaits'
  BY <1>2 DEF QueueWaits, IsFree
<1>3. ASSUME PendingSend' = <<>>, pc' \notin {"select", "write"} PROVE QueueWaits'
  BY <1>3 DEF QueueWaits
<1>4. ASSUME Disconnect, UNCHANGED <<FinConnect, broken>>, pc' \notin {"select", "write"}
      PROVE  QueueWaits'
  BY <1>2, <1>3, <1>4 DEF Disconnect, Close, ClearPendingSend, queue
<1>5. CASE OwnerDisconnects
  BY <1>4, <1>5 DEF OwnerDisconnects, Runs, Callback, history
<1>6. CASE ConnectTo \/ UseThisSocket
  BY <1>3, <1>6 DEF ConnectTo, UseThisSocket, Open, QueueWaits
<1>7. CASE RunScheduled
  BY <1>2, <1>4, <1>7 DEF RunScheduled, queue, history, Goes
<1>8. CASE Write
  BY <1>2, <1>3, <1>8
  DEF Write, WriteAll, WriteSome, WriteFails, WriteSkipped, QueueWaits, Writes, IsFree, Goes, queue, round
<1>9. CASE HandleConnection
  <2>1. UNCHANGED broken /\ pc' \notin {"select", "write"}
    BY <1>9 DEF HandleConnection, history, FinishConnect, PeerReset, Readable, Resumed, Idle, Goes
  <2>2. CASE FinishConnect
    BY <1>3, <2>1, <2>2 DEF FinishConnect, queue, QueueWaits
  <2>3. CASE PeerReset
    BY <1>3, <2>1, <2>3 DEF PeerReset, Close, ClearPendingSend
  <2>4. CASE Readable \/ Resumed \/ Idle
    BY <1>2, <2>1, <2>4 DEF Readable, Resumed, Idle, queue
  <2> QED BY <1>9, <2>2, <2>3, <2>4 DEF HandleConnection
<1>10. CASE Receive
  <2>1. UNCHANGED <<broken, FinConnect>> /\ pc' \notin {"select", "write"}
    BY <1>10 DEF Receive, history, Goes
  <2> QED BY <1>2, <1>3, <1>10, <2>1 DEF Receive, Close, ClearPendingSend, queue
<1>11. CASE Destroy
  BY <1>3, <1>11 DEF Destroy, Goes
<1>12. CASE ConnectTimeout
  BY <1>3, <1>12 DEF ConnectTimeout, TimesOut, QueueWaits, queue
<1>13. CASE PreSelect
  BY <1>13 DEF PreSelect, Interest, QueueWaits, IsFree, queue, history, Goes
<1>14. CASE \E t \in Thread : SendReturns(t) \/ Resume(t)
  BY <1>2, <1>14 DEF SendReturns, Resume, queue, history, round
<1>15. CASE StopChain \/ LinksDone \/ TimersDone
  BY <1>2, <1>15 DEF StopChain, LinksDone, TimersDone, queue, history, round, Goes
<1>16. CASE SelectReturns
  BY <1>2, <1>16 DEF SelectReturns, Select, queue, history, Goes
<1>17. CASE SendOKReturns \/ Offer \/ OnDataReturns \/ OnDataPauses \/ RoundDone
  BY <1>2, <1>17 DEF SendOKReturns, Offer, OnDataReturns, OnDataPauses, RoundDone, queue, history, Goes
<1>18. CASE UNCHANGED vars
  BY <1>2, <1>18 DEF vars, queue, history, round
<1> QED BY <1>1, <1>5, <1>6, <1>7, <1>8, <1>9, <1>10, <1>11, <1>12, <1>13, <1>14, <1>15, <1>16, <1>17, <1>18
        DEF Next, Application, Owner, ChainSteps
-----------------------------------------------------------------------------
(* The end of the open connection is reported for the first time.           *)
LEMMA Reported ==
  ASSUME TypeOK, EndedOnce, ~IsFree
  PROVE  /\ Append(ended, socket) \in Seq(0 .. opened)
         /\ IsInjective(Append(ended, socket))
         /\ Range(Append(ended, socket)) = (1 .. opened) \ {0}
<1> DEFINE e == Append(ended, socket)
           n == Len(ended)
<1>1. ended \in Seq(0 .. opened) /\ socket \in 1 .. opened /\ opened \in Nat /\ n \in Nat
      /\ DOMAIN ended = 1 .. n
  BY AsyncSocketAssumption DEF TypeOK, IsFree
<1>2. /\ e \in Seq(0 .. opened) /\ Len(e) = n + 1 /\ DOMAIN e = 1 .. n + 1
      /\ e[n + 1] = socket /\ \A i \in 1 .. n : e[i] = ended[i]
  BY <1>1
<1>3. \A i \in 1 .. n : ended[i] # socket
  BY <1>1 DEF EndedOnce, Range
<1>c. IsInjective(ended)
  BY DEF EndedOnce, ReportedAgain
<1>4. \A i \in 1 .. n + 1 : i \in 1 .. n \/ i = n + 1
  BY <1>1
<1> HIDE DEF e, n
<1>5. IsInjective(e)
  BY <1>c, <1>1, <1>2, <1>3, <1>4 DEF IsInjective
<1>6. Range(e) = Range(ended) \cup {socket}
  <2>1. Range(e) = {e[i] : i \in 1 .. n + 1} /\ Range(ended) = {ended[i] : i \in 1 .. n}
    BY <1>1, <1>2 DEF Range
  <2>2. ASSUME NEW x \in Range(e) PROVE x \in Range(ended) \cup {socket}
    BY <2>1, <1>2, <1>4
  <2>3. ASSUME NEW x \in Range(ended) PROVE x \in Range(e)
    <3>1. PICK i \in 1 .. n : x = ended[i]
      BY <2>1
    <3>2. i \in 1 .. n + 1 /\ e[i] = x
      BY <3>1, <1>1, <1>2
    <3> QED BY <3>2, <2>1
  <2>4. socket \in Range(e)
    <3>1. n + 1 \in 1 .. n + 1
      BY <1>1
    <3> QED BY <3>1, <2>1, <1>2
  <2> QED BY <2>2, <2>3, <2>4
<1>7. Range(e) = (1 .. opened) \ {0}
  BY <1>1, <1>6 DEF EndedOnce
<1> QED BY <1>2, <1>5, <1>7 DEF e

(* And that of the last one again.                                          *)
LEMMA ReportedLate ==
  ASSUME TypeOK, EndedOnce, IsFree, opened # 0, IsInjective(ended)
  PROVE  LET e == Append(ended, opened)
         IN  /\ e \in Seq(0 .. opened) /\ e # <<>> /\ Front(e) = ended /\ Last(e) = opened
             /\ Range(e) = 1 .. opened
<1> DEFINE e == Append(ended, opened)
           n == Len(ended)
<1>1. ended \in Seq(0 .. opened) /\ opened \in 1 .. opened /\ opened \in Nat /\ n \in Nat
      /\ DOMAIN ended = 1 .. n /\ Range(ended) = 1 .. opened
  BY AsyncSocketAssumption DEF TypeOK, IsFree, EndedOnce
<1>2. /\ e \in Seq(0 .. opened) /\ Len(e) = n + 1 /\ DOMAIN e = 1 .. n + 1
      /\ e[n + 1] = opened /\ \A i \in 1 .. n : e[i] = ended[i]
  BY <1>1
<1>3. Front(e) = ended
  <2>1. Front(e) = [i \in 1 .. n |-> e[i]]
    BY <1>1, <1>2 DEF Front
  <2>2. Front(e) \in Seq(0 .. opened) /\ Len(Front(e)) = n
    BY <1>1, <1>2, <2>1
  <2> QED BY <1>1, <1>2, <2>1, <2>2
<1>4. e # <<>> /\ Last(e) = opened
  BY <1>1, <1>2 DEF Last
<1>5. Range(e) = 1 .. opened
  <2>1. Range(e) = {e[i] : i \in 1 .. n + 1} /\ Range(ended) = {ended[i] : i \in 1 .. n}
    BY <1>1, <1>2 DEF Range
  <2>2. \A i \in 1 .. n + 1 : e[i] \in 1 .. opened
    <3> TAKE i \in 1 .. n + 1
    <3>1. CASE i \in 1 .. n
      BY <3>1, <2>1, <1>1, <1>2
    <3>2. CASE i = n + 1
      BY <3>2, <1>1, <1>2
    <3> QED BY <3>1, <3>2, <1>1
  <2>3. 1 .. n \subseteq 1 .. n + 1
    BY <1>1
  <2>4. Range(ended) \subseteq Range(e)
    BY <2>1, <2>3, <1>2
  <2> QED BY <2>1, <2>2, <2>4, <1>1
<1> QED BY <1>2, <1>3, <1>4, <1>5

LEMMA StepEnds ==
  ASSUME TypeOK, EndedOnce, TimesOut, Reads, [Next]_vars
  PROVE  EndTypes' /\ EndedOnce' /\ TimesOut'
<1>a. /\ opened \in 0 .. MaxConnections /\ socket \in 0 .. opened /\ ended \in Seq(0 .. opened)
      /\ opened \in Nat /\ MaxConnections \in Nat
  BY AsyncSocketAssumption DEF TypeOK
<1>b. /\ FinConnect \/ (IsFree /\ ~TerminateFlag) \/ ~IsInjective(ended) => connectTimer = FALSE
      /\ ~IsFree => IsInjective(ended)
  BY <1>a DEF TimesOut, TypeOK, EndedOnce, ReportedAgain, IsFree
(* Steps that end no connection, and those that report the end of one. *)
<1>1. ASSUME UNCHANGED <<socket, opened, ended>>, TimesOut',
             IsFree => UNCHANGED FinConnect /\ (TerminateFlag => TerminateFlag')
      PROVE  EndTypes' /\ EndedOnce' /\ TimesOut'
  BY <1>1, <1>a DEF EndTypes, EndedOnce, ReportedAgain, IsFree
<1>2. ASSUME ~IsFree, socket' = 0, opened' = opened, ended' = Append(ended, socket),
             connectTimer' => connectTimer /\ TerminateFlag' /\ FinConnect' = FinConnect
      PROVE  EndTypes' /\ EndedOnce' /\ TimesOut'
  BY <1>2, <1>a, Reported DEF EndTypes, EndedOnce, TimesOut, IsFree
<1>3. ASSUME \/ UNCHANGED <<socket, FinConnect, opened, ended>> /\ (TerminateFlag => TerminateFlag')
                /\ (connectTimer' => connectTimer)
             \/ connectTimer' = FALSE
      PROVE  TimesOut'
  BY <1>3 DEF TimesOut, IsFree
<1>4. ASSUME Disconnect, UNCHANGED <<opened, FinConnect, TerminateFlag>>
      PROVE EndTypes' /\ EndedOnce' /\ TimesOut'
  <2>1. CASE IsOpen(socket) /\ Close
    BY <1>2, <1>4, <2>1 DEF Disconnect, Close, IsOpen, IsFree
  <2>2. CASE UNCHANGED <<socket, ended>>
    BY <1>1, <1>3, <1>4, <2>2 DEF Disconnect
  <2> QED BY <1>4, <2>1, <2>2 DEF Disconnect
<1>5. CASE OwnerDisconnects
  BY <1>4, <1>5 DEF OwnerDisconnects
<1>6. CASE ConnectTo \/ UseThisSocket
  <2>1. /\ socket = 0 /\ opened < MaxConnections /\ opened' = opened + 1 /\ socket' = opened + 1
        /\ ended' = ended /\ TerminateFlag = FALSE
    BY <1>6 DEF ConnectTo, UseThisSocket, Open, IsFree, Runs
  <2>2. opened' \in 0 .. MaxConnections /\ socket' \in 0 .. opened'
    BY <2>1, <1>a
  <2>3. 0 .. opened \subseteq 0 .. opened'
    BY <2>1, <1>a
  <2>4. ended' \in Seq(0 .. opened')
    BY <2>1, <2>3, <1>a, SeqMonotonic
  <2>5. (1 .. opened') \ {socket'} = (1 .. opened) \ {socket}
    BY <2>1, <1>a
  <2>6. TimesOut'
    <3>1. CASE ConnectTo
      <4>1. FinConnect' = FALSE /\ opened' # 0 /\ socket' = opened'
        BY <2>1, <3>1, <1>a DEF ConnectTo
      <4>2. IsInjective(ended')
        BY <2>1 DEF EndedOnce, ReportedAgain
      <4> QED BY <4>1, <4>2 DEF TimesOut
    <3>2. CASE UseThisSocket
      <4>1. connectTimer' = FALSE
        BY <2>1, <3>2, <1>b DEF UseThisSocket, IsFree
      <4> QED BY <4>1 DEF TimesOut
    <3> QED BY <1>6, <3>1, <3>2
  <2>7. IsInjective(ended')
    BY <2>1 DEF EndedOnce, ReportedAgain
  <2> QED BY <2>1, <2>2, <2>4, <2>5, <2>6, <2>7 DEF EndTypes, EndedOnce
<1>7. CASE RunScheduled
  <2>1. UNCHANGED <<opened, FinConnect, TerminateFlag>>
    BY <1>7 DEF RunScheduled
  <2>2. CASE Disconnect
    BY <1>4, <2>1, <2>2
  <2>3. CASE UNCHANGED <<socket, ended, connectTimer>>
    BY <1>1, <1>3, <2>1, <2>3
  <2> QED BY <1>7, <2>2, <2>3 DEF RunScheduled
<1>8. CASE ConnectTimeout
  <2>1. /\ connectTimer /\ connectTimer' = FALSE /\ socket' = 0 /\ ended' = Append(ended, opened)
        /\ UNCHANGED <<opened, FinConnect, TerminateFlag>>
    BY <1>8 DEF ConnectTimeout
  <2>2. CASE ~IsFree
    BY <1>2, <2>1, <2>2 DEF TimesOut
  <2>3. CASE IsFree
    <3>1. /\ TerminateFlag' = TerminateFlag /\ TerminateFlag /\ ~FinConnect' /\ opened # 0
          /\ IsInjective(ended)
      BY <2>1, <2>3, <1>a DEF TimesOut, IsFree
    <3>2. /\ ended' \in Seq(0 .. opened) /\ ended' # <<>> /\ Front(ended') = ended
          /\ Last(ended') = opened /\ Range(ended') = 1 .. opened
      BY <2>1, <2>3, <3>1, ReportedLate
    <3>3. ReportedAgain'
      BY <2>1, <3>1, <3>2 DEF ReportedAgain, IsFree
    <3>4. (1 .. opened) \ {0} = 1 .. opened
      BY <1>a
    <3> QED BY <1>a, <2>1, <3>2, <3>3, <3>4 DEF EndTypes, EndedOnce, TimesOut
  <2> QED BY <2>2, <2>3
<1>9. CASE HandleConnection
  <2>1. UNCHANGED <<opened, TerminateFlag>>
    BY <1>9 DEF HandleConnection
  <2>2. CASE FinishConnect
    <3>1. ~IsFree
      BY <2>2 DEF FinishConnect
    <3>2. CASE "error" \in ready
      BY <1>2, <2>1, <2>2, <3>1, <3>2 DEF FinishConnect
    <3>3. CASE "error" \notin ready
      <4>1. UNCHANGED <<socket, ended>>
        BY <2>2, <3>3 DEF FinishConnect
      <4>2. TimesOut'
        <5>1. connectTimer' => connectTimer /\ ~FinConnect'
          BY <2>2, <1>b DEF FinishConnect
        <5> QED BY <3>1, <4>1, <5>1, <2>1 DEF TimesOut, IsFree
      <4> QED BY <1>1, <2>1, <3>1, <4>1, <4>2
    <3> QED BY <3>2, <3>3
  <2>3. CASE PeerReset
    BY <1>2, <1>b, <2>1, <2>3 DEF PeerReset, Close
  <2>4. CASE Readable \/ Resumed \/ Idle
    BY <1>1, <1>3, <2>1, <2>4 DEF Readable, Resumed, Idle
  <2> QED BY <1>9, <2>2, <2>3, <2>4 DEF HandleConnection
<1>10. CASE Receive
  <2>1. UNCHANGED <<opened, connectTimer, FinConnect, TerminateFlag>>
    BY <1>10 DEF Receive, timers
  <2>2. CASE Close
    <3>1. pc = "process" /\ PAUSE <= 0
      BY <1>10, <2>2 DEF Receive, Goes, Close, IsFree
    <3>2. FinConnect /\ ~IsFree
      BY <3>1 DEF Reads
    <3> QED BY <1>2, <1>b, <2>1, <2>2, <3>2 DEF Close
  <2>3. CASE UNCHANGED <<socket, ended>>
    BY <1>1, <1>3, <2>1, <2>3
  <2> QED BY <1>10, <2>2, <2>3 DEF Receive
<1>11. CASE Destroy
  <2>1. CASE IsFree
    <3>1. UNCHANGED <<socket, opened, ended, FinConnect, TerminateFlag>> /\ connectTimer' = FALSE
      BY <1>11, <2>1 DEF Destroy, IsFree
    <3> QED BY <1>1, <1>3, <3>1
  <2>2. CASE ~IsFree
    BY <1>2, <1>11, <2>2 DEF Destroy
  <2> QED BY <2>1, <2>2
<1>12. ASSUME UNCHANGED <<socket, FinConnect, connectTimer, opened, ended>>,
              TerminateFlag => TerminateFlag'
       PROVE  EndTypes' /\ EndedOnce' /\ TimesOut'
  BY <1>1, <1>3, <1>12
<1>13. CASE \E t \in Thread : Send(t) \/ SendReturns(t) \/ Resume(t)
  BY <1>12, <1>13 DEF Send, SendReturns, Resume, timers
<1>14. CASE StopChain \/ LinksDone \/ TimersDone \/ PreSelect \/ SelectReturns
  BY <1>12, <1>14 DEF StopChain, LinksDone, TimersDone, PreSelect, SelectReturns, Select, timers
<1>15. CASE Write \/ SendOKReturns \/ Offer \/ OnDataReturns \/ OnDataPauses \/ RoundDone
  BY <1>12, <1>15 DEF Write, SendOKReturns, Offer, OnDataReturns, OnDataPauses, RoundDone, timers
<1>16. CASE UNCHANGED vars
  BY <1>12, <1>16 DEF vars, timers
<1> QED BY <1>5, <1>6, <1>7, <1>8, <1>9, <1>10, <1>11, <1>13, <1>14, <1>15, <1>16
        DEF Next, Application, Owner, ChainSteps
-----------------------------------------------------------------------------
LEMMA StepOther ==
  ASSUME TypeOK, [Next]_vars
  PROVE  OtherTypes'
<1>a. OtherTypes /\ opened \in Nat /\ MaxSends \in Nat
  BY AsyncSocketAssumption DEF TypeOK, OtherTypes
<1>b. ASSUME UNCHANGED <<FinConnect, reading, timers, round, pipe, todo, TerminateFlag, sent>>,
             pc' \in Location, PAUSE' \in {-1, 0, 1}
      PROVE  OtherTypes'
  BY <1>a, <1>b DEF OtherTypes, reading, timers, round
<1>c. ASSUME NEW from \in Location, NEW to \in Location, Goes(from, to) PROVE pc' \in Location
  BY <1>c DEF Goes
<1>d. {"links", "timers", "timeout", "preselect", "select", "write", "sendok", "connection",
       "process", "resume", "ondata", "postlinks", "destroy", "destroyed"} = Location
  BY DEF Location
<1>1. CASE \E t \in Thread : Send(t) \/ SendReturns(t) \/ Resume(t)
  <2>1. PICK t \in Thread : Send(t) \/ SendReturns(t) \/ Resume(t)
    BY <1>1
  <2>2. CASE Send(t)
    <3>1. sent' \in 0 .. MaxSends /\ UNCHANGED <<FinConnect, PAUSE, reading, timers, pc, round, pipe, TerminateFlag>>
      BY <2>2, <1>a DEF Send, OtherTypes
    <3>2. todo' \in [Thread -> {"nothing", "unblock", "disconnect"}]
      BY <2>2, <1>a DEF Send, SendQueues, SendAtOnce, SendFails, OtherTypes
    <3> QED BY <3>1, <3>2, <1>a DEF OtherTypes, reading, timers, round
  <2>3. CASE SendReturns(t)
    BY <2>3, <1>a DEF SendReturns, OtherTypes, reading, round
  <2>4. CASE Resume(t)
    BY <2>4, <1>a DEF Resume, OtherTypes, timers, round
  <2> QED BY <2>1, <2>2, <2>3, <2>4
<1>2. CASE OwnerDisconnects
  BY <1>2, <1>a DEF OwnerDisconnects, Disconnect, Close, OtherTypes, round
<1>3. CASE ConnectTo \/ UseThisSocket
  BY <1>3, <1>a DEF ConnectTo, UseThisSocket, Open, OtherTypes, round
<1>4. CASE StopChain
  BY <1>4, <1>a DEF StopChain, OtherTypes, reading, timers, round
<1>5. CASE LinksDone \/ TimersDone \/ SendOKReturns
  BY <1>5, <1>b, <1>a, <1>d DEF LinksDone, TimersDone, SendOKReturns, Goes, OtherTypes
<1>6. CASE RunScheduled
  BY <1>6, <1>a DEF RunScheduled, Disconnect, Close, Goes, OtherTypes, round, Location
<1>7. CASE ConnectTimeout
  BY <1>7, <1>a DEF ConnectTimeout, OtherTypes, reading, round
<1>8. CASE PreSelect
  <2>1. polled' \subseteq Bit
    BY <1>8 DEF PreSelect, Interest, Bit
  <2>2. ready' \subseteq polled'
    BY <1>8 DEF PreSelect
  <2> QED BY <1>8, <1>a, <2>1, <2>2 DEF PreSelect, Goes, OtherTypes, reading, timers, Location
<1>9. CASE SelectReturns
  BY <1>9, <1>a DEF SelectReturns, Select, Goes, OtherTypes, reading, timers, Location
<1>10. CASE Write
  <2>1. /\ UNCHANGED <<FinConnect, PAUSE, reading, connectTimer, round, todo, TerminateFlag, sent>>
        /\ pc' \in {"sendok", "connection"}
    BY <1>10 DEF Write, WriteAll, WriteSome, WriteFails, WriteSkipped, Goes
  <2>2. scheduled' \in BOOLEAN /\ pipe' \in BOOLEAN
    <3>1. CASE WriteFails
      BY <3>1 DEF WriteFails
    <3>2. CASE WriteAll \/ WriteSome \/ WriteSkipped
      BY <3>2, <1>a DEF WriteAll, WriteSome, WriteSkipped, OtherTypes
    <3> QED BY <1>10, <3>1, <3>2 DEF Write
  <2> QED BY <1>a, <1>d, <2>1, <2>2 DEF OtherTypes, reading, round
<1>11. CASE HandleConnection
  <2>1. UNCHANGED <<paused, scheduled, round, pipe, todo, TerminateFlag, sent>> /\ pc' \in Location
    BY <1>11 DEF HandleConnection, FinishConnect, PeerReset, Readable, Resumed, Idle, Goes, Location
  <2>2. connectTimer' \in BOOLEAN /\ FinConnect' \in BOOLEAN /\ unread' \in BOOLEAN
    <3>1. CASE FinishConnect
      <4>1. connectTimer' = (connectTimer /\ ready \cap {"write", "error"} = {})
            /\ FinConnect' = ("write" \in ready) /\ unread' = unread
        BY <3>1 DEF FinishConnect
      <4>2. connectTimer' \in BOOLEAN /\ FinConnect' \in BOOLEAN
        BY <4>1
      <4> QED BY <4>1, <4>2, <1>a DEF OtherTypes
    <3>2. CASE PeerReset \/ Readable \/ Resumed \/ Idle
      BY <3>2, <1>a DEF PeerReset, Readable, Resumed, Idle, Close, OtherTypes
    <3> QED BY <1>11, <3>1, <3>2 DEF HandleConnection
  <2>3. PAUSE' \in {-1, 0, 1}
    BY <1>11, <1>a
    DEF HandleConnection, FinishConnect, PeerReset, Readable, Resumed, Idle, OtherTypes
  <2> QED BY <2>1, <2>2, <2>3, <1>a DEF OtherTypes, round
<1>12. CASE Receive
  <2>1. /\ UNCHANGED <<FinConnect, PAUSE, paused, timers, round, pipe, todo, TerminateFlag, sent>>
        /\ pc' \in {"postlinks", "ondata"}
        /\ unread' = unread \/ unread' = FALSE
    BY <1>12 DEF Receive, Close, Goes
  <2>2. UNCHANGED <<scheduled, connectTimer, polled, ready, timed>>
    BY <2>1 DEF timers, round
  <2>3. /\ FinConnect \in BOOLEAN /\ PAUSE \in {-1, 0, 1} /\ unread \in BOOLEAN /\ paused \in BOOLEAN
        /\ scheduled \in BOOLEAN /\ connectTimer \in BOOLEAN /\ timed \in BOOLEAN /\ pipe \in BOOLEAN
        /\ polled \subseteq Bit /\ ready \subseteq polled /\ TerminateFlag \in BOOLEAN
        /\ todo \in [Thread -> {"nothing", "unblock", "disconnect"}] /\ sent \in 0 .. MaxSends
    BY <1>a DEF OtherTypes
  <2>4. pc' \in Location
    BY <2>1 DEF Location
  <2>5. unread' \in BOOLEAN
    BY <2>1, <2>3
  <2> QED BY <2>1, <2>2, <2>3, <2>4, <2>5 DEF OtherTypes
<1>13. CASE Offer
  BY <1>13, <1>a DEF Offer, Goes, OtherTypes, reading, timers, round, Location
<1>14. CASE OnDataReturns \/ OnDataPauses
  BY <1>14, <1>a DEF OnDataReturns, OnDataPauses, Goes, OtherTypes, timers, round, Location
<1>15. CASE RoundDone
  BY <1>15, <1>a DEF RoundDone, Goes, OtherTypes, reading, timers, Location
<1>16. CASE Destroy
  BY <1>16, <1>a DEF Destroy, Goes, OtherTypes, round, Location
<1>17. CASE UNCHANGED vars
  BY <1>17, <1>a DEF vars, OtherTypes, reading, timers, round
<1> QED BY <1>1, <1>2, <1>3, <1>4, <1>5, <1>6, <1>7, <1>8, <1>9, <1>10, <1>11, <1>12, <1>13, <1>14, <1>15, <1>16, <1>17
        DEF Next, Application, Owner, ChainSteps

LEMMA StepReads ==
  ASSUME TypeOK, Reads, [Next]_vars
  PROVE  Reads'
<1> DEFINE served == {"select", "write", "sendok", "connection"}
<1>a. /\ ready \subseteq polled /\ FinConnect \in BOOLEAN /\ paused \in BOOLEAN
      /\ PAUSE \in {-1, 0, 1} /\ opened \in Nat
  BY AsyncSocketAssumption DEF TypeOK
(* Steps outside the handling of a round, and steps within it. *)
<1>1. ASSUME UNCHANGED <<paused, FinConnect>>, PAUSE' = PAUSE \/ PAUSE' = 1,
             socket' = socket \/ socket' = 0,
             pc' \notin served \cup {"process", "resume", "ondata"}
      PROVE  Reads'
  BY <1>1, <1>a DEF Reads, IsFree
<1>2. ASSUME UNCHANGED <<paused, FinConnect, PAUSE, socket, polled>>,
             pc' \in served => pc \in served,
             pc' \in {"process", "resume", "ondata"} => pc' = pc
      PROVE  Reads'
  BY <1>2, <1>a DEF Reads, IsFree
<1>3. CASE \E t \in Thread : Send(t) \/ SendReturns(t)
  BY <1>2, <1>3 DEF Send, SendReturns, reading, round
<1>4. CASE \E t \in Thread : Resume(t)
  BY <1>4, <1>a DEF Resume, Reads, round
<1>5. CASE OwnerDisconnects
  <2>1. pc \in Callback /\ pc' = pc /\ polled' = polled
    BY <1>5 DEF OwnerDisconnects, Runs, round
  <2>2. /\ UNCHANGED <<paused, FinConnect>>
        /\ PAUSE' = PAUSE \/ PAUSE' = 1
        /\ socket' = socket \/ socket' = 0
    BY <1>5 DEF OwnerDisconnects, Disconnect, Close
  <2> QED BY <2>1, <2>2, <1>a DEF Reads, IsFree, Callback
<1>6. CASE ConnectTo \/ UseThisSocket
  BY <1>6, <1>a DEF ConnectTo, UseThisSocket, Open, Reads, round
<1>7. CASE RunScheduled
  BY <1>1, <1>7 DEF RunScheduled, Disconnect, Close, Goes
<1>8. CASE ConnectTimeout
  BY <1>1, <1>8 DEF ConnectTimeout, reading
<1>9. CASE StopChain
  BY <1>2, <1>9 DEF StopChain, reading, round
<1>10. CASE LinksDone \/ TimersDone \/ OnDataReturns \/ RoundDone
  BY <1>1, <1>10 DEF LinksDone, TimersDone, OnDataReturns, RoundDone, reading, Goes
<1>11. CASE Offer \/ OnDataPauses
  BY <1>11 DEF Offer, OnDataPauses, Reads, IsFree, reading, round, Goes
<1>12. CASE PreSelect
  <2>1. UNCHANGED <<paused, FinConnect, PAUSE, socket>> /\ pc' = "select" /\ polled' = Interest
    BY <1>12 DEF PreSelect, reading, Goes
  <2>2. Interest \cap {"read", "error"} # {} => ~paused
    BY <1>a DEF Interest, Reads
  <2> QED BY <2>1, <2>2, <1>a DEF Reads, IsFree
<1>13. CASE SelectReturns
  BY <1>2, <1>13 DEF SelectReturns, Select, Goes, reading
<1>14. CASE Write \/ SendOKReturns
  BY <1>2, <1>14 DEF Write, WriteAll, WriteSome, WriteFails, WriteSkipped, SendOKReturns, Goes, reading, round
<1>15. CASE HandleConnection
  <2>1. UNCHANGED <<paused, polled>>
    BY <1>15 DEF HandleConnection, round
  <2>2. CASE FinishConnect
    <3>1. pc' = "postlinks" /\ ~paused
      BY <2>2, <1>a DEF FinishConnect, Goes, Reads
    <3> QED BY <2>1, <3>1 DEF Reads
  <2>3. CASE PeerReset
    <3>1. pc = "connection" /\ "error" \in polled /\ pc' \in {"process", "postlinks"}
      BY <2>3, <1>a DEF PeerReset, Goes
    <3>2. ~paused
      BY <3>1 DEF Reads
    <3> QED BY <2>1, <2>3, <3>1, <3>2 DEF PeerReset, Reads
  <2>4. CASE Readable
    <3>1. pc = "connection" /\ "read" \in polled /\ pc' = "process"
      BY <2>4, <1>a DEF Readable, Goes
    <3>2. ~paused
      BY <3>1 DEF Reads
    <3> QED BY <2>1, <2>4, <3>1, <3>2 DEF Readable, Reads, IsFree
  <2>5. CASE Resumed
    BY <2>1, <2>5, <1>a DEF Resumed, Goes, Reads
  <2>6. CASE Idle
    BY <1>1, <2>1, <2>6 DEF Idle, Goes
  <2> QED BY <1>15, <2>2, <2>3, <2>4, <2>5, <2>6 DEF HandleConnection
<1>16. CASE Receive
  <2>1. pc = "process" /\ pc' \in {"ondata", "postlinks"} /\ UNCHANGED <<paused, FinConnect, PAUSE>>
        /\ (socket' = socket \/ socket' = 0)
    BY <1>16 DEF Receive, Close, Goes
  <2> QED BY <2>1 DEF Reads, IsFree
<1>17. CASE Destroy
  BY <1>1, <1>17 DEF Destroy, Goes
<1>18. CASE UNCHANGED vars
  BY <1>2, <1>18 DEF vars, reading, round
<1> QED BY <1>3, <1>4, <1>5, <1>6, <1>7, <1>8, <1>9, <1>10, <1>11, <1>12, <1>13, <1>14, <1>15, <1>16, <1>17, <1>18
        DEF Next, Application, Owner, ChainSteps
-----------------------------------------------------------------------------
LEMMA InitOK == Init => IInv
<1> SUFFICES ASSUME Init PROVE IInv
  OBVIOUS
<1>1. TypeOK
  <2>1. QueueTypes
    BY EmptySeq DEF Init, QueueTypes
  <2>2. EndTypes
    BY AsyncSocketAssumption DEF Init, EndTypes
  <2>3. OtherTypes
    <3>1. 0 \in 0 .. MaxSends /\ pc \in Location
      BY AsyncSocketAssumption DEF Init, Location
    <3>2. todo \in [Thread -> {"nothing", "unblock", "disconnect"}]
      BY DEF Init
    <3>3. /\ FinConnect \in BOOLEAN /\ PAUSE \in {-1, 0, 1} /\ unread \in BOOLEAN /\ paused \in BOOLEAN
          /\ scheduled \in BOOLEAN /\ connectTimer \in BOOLEAN
          /\ polled \subseteq Bit /\ ready \subseteq polled
          /\ timed \in BOOLEAN /\ pipe \in BOOLEAN /\ TerminateFlag \in BOOLEAN /\ sent = 0
      BY DEF Init
    <3> QED BY <3>1, <3>2, <3>3 DEF OtherTypes
  <2> QED BY <2>1, <2>2, <2>3, Types
<1>2. WireInOrder /\ QueueWaits /\ TimesOut /\ Reads
  BY DEF Init, WireInOrder, QueueWaits, TimesOut, Reads, IsFree
<1>3. EndedOnce
  <2>1. ended = <<>> /\ DOMAIN ended = {} /\ opened = 0
    BY DEF Init
  <2> QED BY <2>1 DEF EndedOnce, IsInjective, Range
<1> QED BY <1>1, <1>2, <1>3 DEF IInv

LEMMA StepOK == IInv /\ [Next]_vars => IInv'
<1> SUFFICES ASSUME IInv, [Next]_vars PROVE IInv'
  OBVIOUS
<1>1. TypeOK /\ WireInOrder /\ QueueWaits /\ EndedOnce /\ TimesOut /\ Reads
  BY DEF IInv
<1>2. QueueTypes' /\ WireInOrder'
  BY <1>1, StepQueue
<1>3. QueueWaits'
  BY <1>1, StepWaits
<1>4. EndTypes' /\ EndedOnce' /\ TimesOut'
  BY <1>1, StepEnds
<1>5. OtherTypes'
  BY <1>1, StepOther
<1>6. Reads'
  BY <1>1, StepReads
<1>7. TypeOK'
  BY <1>2, <1>4, <1>5 DEF TypeOK, QueueTypes, EndTypes, OtherTypes
<1> QED BY <1>2, <1>3, <1>4, <1>6, <1>7 DEF IInv

LEMMA Invariance == Spec => []IInv
<1> QED BY InitOK, StepOK, PTL DEF Spec

(* Types, for any threads, sizes and bounds.                                *)
THEOREM TypeCorrect == Spec => []TypeOK
<1>1. IInv => TypeOK
  BY DEF IInv
<1> QED BY <1>1, Invariance, PTL

(* SendLock keeps the bytes of any number of senders in order, on their way *)
(* through the queue or past it.                                            *)
THEOREM SendsInOrder == Spec => []WireInOrder
<1>1. IInv => WireInOrder
  BY DEF IInv
<1> QED BY <1>1, Invariance, PTL

(* PreSelect and the write part of PostSelect need no test of the socket    *)
(* and the head of the queue.                                               *)
THEOREM QueueIsSafe == Spec => []QueueHasSocketAndHead
<1>1. IInv => QueueHasSocketAndHead
  BY DEF IInv, TypeOK, QueueWaits, QueueHasSocketAndHead, Writes
<1> QED BY <1>1, Invariance, PTL

(* No connection is reported ended twice, and none is forgotten, except that*)
(* on a stopped chain the connect timer a Disconnect has left may report the*)
(* end of the last one again.                                               *)
THEOREM EndsOnce == Spec => []EndedOnce
<1>1. IInv => EndedOnce
  BY DEF IInv
<1> QED BY <1>1, Invariance, PTL

(* What is scheduled for the next round wakes the one that may be asleep,   *)
(* and so does the stop of the chain.                                       *)
Wakes ==
  /\ pc \in {"timeout", "preselect", "select"} /\ scheduled => pipe
  /\ pc \in {"links", "timers", "timeout", "preselect", "select"} /\ TerminateFlag => pipe

LEMMA StepWakes ==
  ASSUME TypeOK, Wakes, SelectMissesNothing, [Next]_vars
  PROVE  Wakes' /\ SelectMissesNothing'
<1>a. /\ todo \in [Thread -> {"nothing", "unblock", "disconnect"}]
      /\ pipe \in BOOLEAN /\ scheduled \in BOOLEAN /\ timed \in BOOLEAN /\ PAUSE \in {-1, 0, 1}
  BY DEF TypeOK
<1>b. Microstack \in Thread
  BY DEF Thread
(* A step of the round outside select, and one that leaves alone what the   *)
(* sleep depends on.                                                        *)
<1>1. ASSUME pc' \in {"write", "sendok", "connection", "process", "resume", "ondata",
                      "postlinks", "destroy", "destroyed"}
      PROVE  Wakes' /\ SelectMissesNothing'
  BY <1>1 DEF Wakes, SelectMissesNothing
<1>2. ASSUME pc' = "links" \/ (pc' \in {"timers", "timeout"} /\ (scheduled' => scheduled)),
             pc' = "timeout" => pc = "timeout" \/ ~scheduled',
             pc \in {"links", "timers", "timeout"} \/ ~TerminateFlag,
             pipe => pipe', TerminateFlag' = TerminateFlag
      PROVE  Wakes' /\ SelectMissesNothing'
  BY <1>2 DEF Wakes, SelectMissesNothing
<1>3. ASSUME UNCHANGED <<socket, FinConnect, connectTimer, timed, polled, pc, TerminateFlag>>,
             PendingSend' # <<>> => PendingSend # <<>> \/ pc # "select" \/ Woken',
             PAUSE' < 0 => PAUSE < 0 \/ Woken',
             scheduled' => scheduled \/ pipe', pipe => pipe', Woken => Woken'
      PROVE  Wakes' /\ SelectMissesNothing'
  BY <1>3 DEF Wakes, SelectMissesNothing, IsFree
<1>4. ASSUME NEW t \in Thread, Send(t)
      PROVE  Wakes' /\ SelectMissesNothing'
  <2>1. /\ UNCHANGED <<socket, FinConnect, connectTimer, timed, polled, pc, TerminateFlag>>
        /\ UNCHANGED <<PAUSE, scheduled, pipe>>
        /\ todo[t] = "nothing"
    BY <1>4 DEF Send, Runs, round, timers
  <2>2. /\ \E w \in {"nothing", "unblock", "disconnect"} : todo' = [todo EXCEPT ![t] = w]
        /\ PendingSend' # <<>> => PendingSend # <<>> \/ todo' = [todo EXCEPT ![t] = "unblock"]
    <3>1. CASE SendQueues(t, sent + 1)
      BY <3>1 DEF SendQueues
    <3>2. CASE SendFails(t)
      BY <3>2 DEF SendFails
    <3>3. CASE SendAtOnce(t, sent + 1)
      <4>1. PICK n \in 0 .. Size :
              /\ PendingSend' = PendingSend \o SubSeq(Bytes(sent + 1), n + 1, Size)
              /\ todo' = [todo EXCEPT ![t] = IF Unblocks(Size - n) THEN "unblock" ELSE "nothing"]
        BY <3>3 DEF SendAtOnce
      <4>2. CASE n < Size
        <5>1. Unblocks(Size - n)
          BY <4>2, AsyncSocketAssumption DEF Unblocks
        <5> QED BY <4>1, <5>1
      <4>3. CASE n = Size
        <5>1. PendingSend = <<>>
          BY <3>3 DEF SendAtOnce, SendsAtOnce
        <5>2. Bytes(sent + 1) \in Seq({sent + 1}) /\ Len(Bytes(sent + 1)) = Size
          BY AsyncSocketAssumption DEF Bytes
        <5>3. SubSeq(Bytes(sent + 1), n + 1, Size) = <<>>
          BY <4>3, <5>2, AsyncSocketAssumption
        <5>4. PendingSend' = <<>>
          BY <4>1, <5>1, <5>3
        <5> QED BY <4>1, <5>4
      <4> QED BY <4>2, <4>3, AsyncSocketAssumption
    <3> QED BY <1>4, <3>1, <3>2, <3>3 DEF Send
  <2>3. Woken => Woken'
    BY <1>a, <2>1, <2>2 DEF Woken
  <2>4. PendingSend' # <<>> => PendingSend # <<>> \/ Woken'
    BY <1>a, <2>2 DEF Woken
  <2> QED BY <1>3, <2>1, <2>3, <2>4
<1>5. ASSUME NEW t \in Thread, SendReturns(t)
      PROVE  Wakes' /\ SelectMissesNothing'
  <2>1. /\ UNCHANGED <<socket, FinConnect, connectTimer, timed, polled, pc, TerminateFlag>>
        /\ UNCHANGED <<PAUSE, PendingSend>>
        /\ pipe' = (pipe \/ todo[t] = "unblock" \/ ~scheduled)
        /\ scheduled' = (scheduled \/ todo[t] = "disconnect")
        /\ todo' = [todo EXCEPT ![t] = "nothing"]
    BY <1>5 DEF SendReturns, round, queue
  <2>2. Woken => Woken'
    BY <1>a, <2>1 DEF Woken
  <2>3. /\ scheduled' => scheduled \/ pipe'
        /\ pipe => pipe'
    BY <1>a, <2>1
  <2> QED BY <1>3, <2>1, <2>2, <2>3
<1>6. ASSUME NEW t \in Thread, Resume(t)
      PROVE  Wakes' /\ SelectMissesNothing'
  <2>1. /\ UNCHANGED <<socket, FinConnect, connectTimer, timed, polled, pc, TerminateFlag>>
        /\ UNCHANGED <<PendingSend, scheduled, pipe>>
        /\ todo' = [todo EXCEPT ![t] = "unblock"]
    BY <1>6 DEF Resume, round, queue, timers
  <2>2. Woken'
    BY <1>a, <2>1 DEF Woken
  <2> QED BY <1>3, <2>1, <2>2
<1>7. CASE OwnerDisconnects
  <2>1. /\ pc \in Callback /\ pc' = pc
        /\ UNCHANGED <<scheduled, pipe, TerminateFlag>> /\ ~TerminateFlag
    BY <1>7 DEF OwnerDisconnects, Runs, round
  <2> QED BY <2>1 DEF Callback, Wakes, SelectMissesNothing
<1>8. CASE ConnectTo \/ UseThisSocket
  <2>1. /\ pc \in {"links", "postlinks"} /\ pc' = pc /\ ~TerminateFlag
        /\ UNCHANGED TerminateFlag
    BY <1>8 DEF ConnectTo, UseThisSocket, Open, Runs
  <2> QED BY <2>1 DEF Wakes, SelectMissesNothing
<1>9. CASE RunScheduled
  <2>1. /\ pc = "timers" /\ pc' = "timeout" /\ ~scheduled' /\ UNCHANGED <<pipe, TerminateFlag>>
    BY <1>9 DEF RunScheduled, Goes
  <2> QED BY <1>2, <2>1
<1>10. CASE ConnectTimeout
  <2>1. /\ pc = "timeout" /\ pc' = pc /\ UNCHANGED <<scheduled, pipe, TerminateFlag>>
    BY <1>10 DEF ConnectTimeout
  <2> QED BY <1>2, <2>1
<1>11. CASE StopChain
  <2>1. /\ UNCHANGED <<socket, PAUSE, PendingSend, connectTimer, scheduled, timed, polled, pc>>
        /\ pipe'
    BY <1>11 DEF StopChain, queue, timers, round
  <2> QED BY <2>1 DEF Wakes, SelectMissesNothing, Woken, IsFree
<1>12. CASE LinksDone
  <2>1. /\ pc = "links" /\ pc' = "timers" /\ UNCHANGED <<scheduled, pipe, TerminateFlag>>
    BY <1>12 DEF LinksDone, Goes, timers
  <2> QED BY <1>2, <2>1
<1>13. CASE TimersDone
  <2>1. /\ pc = "timeout" /\ pc' = "preselect" /\ UNCHANGED <<scheduled, pipe, TerminateFlag>>
    BY <1>13 DEF TimersDone, Goes, timers
  <2> QED BY <2>1 DEF Wakes, SelectMissesNothing
<1>14. CASE PreSelect
  <2>1. /\ pc = "preselect" /\ pc' = "select" /\ polled' = Interest
        /\ timed' = (connectTimer \/ (~IsFree /\ PAUSE < 0))
        /\ UNCHANGED <<socket, PAUSE, PendingSend, connectTimer, scheduled, pipe, TerminateFlag>>
    BY <1>14 DEF PreSelect, Goes, queue, timers
  <2>2. PendingSend # <<>> => "write" \in Interest
    BY DEF Interest
  <2> QED BY <1>a, <2>1, <2>2 DEF Wakes, SelectMissesNothing, IsFree
<1>15. CASE SelectReturns
  BY <1>1, <1>15 DEF SelectReturns, Select, Goes
<1>16. CASE Write \/ SendOKReturns
  BY <1>1, <1>16 DEF Write, WriteAll, WriteSome, WriteFails, WriteSkipped, SendOKReturns, Goes
<1>17. CASE HandleConnection
  BY <1>1, <1>17 DEF HandleConnection, FinishConnect, PeerReset, Readable, Resumed, Idle, Goes
<1>18. CASE Receive \/ Offer \/ OnDataReturns \/ OnDataPauses \/ Destroy
  BY <1>1, <1>18 DEF Receive, Offer, OnDataReturns, OnDataPauses, Destroy, Goes
<1>19. CASE RoundDone
  <2>1. CASE TerminateFlag
    BY <1>1, <1>19, <2>1 DEF RoundDone, Goes
  <2>2. CASE ~TerminateFlag
    BY <1>2, <1>19, <2>2 DEF RoundDone, Goes, timers
  <2> QED BY <2>1, <2>2
<1>20. CASE UNCHANGED vars
  <2>1. UNCHANGED <<socket, PAUSE, PendingSend, connectTimer, scheduled, timed, polled, pc,
                    pipe, todo, TerminateFlag>>
    BY <1>20 DEF vars, queue, timers, round
  <2> QED BY <2>1 DEF Wakes, SelectMissesNothing, Woken, IsFree
<1> QED BY <1>4, <1>5, <1>6, <1>7, <1>8, <1>9, <1>10, <1>11, <1>12, <1>13, <1>14, <1>15, <1>16, <1>17, <1>18, <1>19, <1>20
        DEF Next, Application, Owner, ChainSteps

(* The chain never goes to sleep over queued data, a resumed connection, an *)
(* end that is scheduled or its own stop, whatever other threads do between *)
(* PreSelect and select.                                                    *)
THEOREM NoSleepOverWork == Spec => []SelectMissesNothing
<1>1. Init => Wakes /\ SelectMissesNothing
  BY DEF Init, Wakes, SelectMissesNothing
<1>2. IInv /\ Wakes /\ SelectMissesNothing /\ [Next]_vars => (Wakes /\ SelectMissesNothing)'
  BY StepWakes DEF IInv
<1> QED BY <1>1, <1>2, Invariance, PTL DEF Spec
-----------------------------------------------------------------------------
(* ILibWebClient *)

(* Who gave a connection up or lost it, and whose callback still runs.      *)
Aside(d) == callback \in {"closed", "error"} /\ current = d

(* The waiting time is 0 or a power of 2, and an attempt that is repeated   *)
(* was not the last one.                                                    *)
Backoffs == {0} \cup {2 ^ k : k \in 0 .. RETRY_COUNT}
ClientTypes ==
  /\ WCTypeOK
  /\ \A d \in Server : ExponentialBackoff[d] \in Backoffs
  /\ \A d \in retryTimer : ~GivesUp(ExponentialBackoff[d])

(* Requests wait in the order they were made, each with its server, and of  *)
(* those whose OnResponse said done only one may still be in a queue: the   *)
(* first one of the wcdo whose callback that is.                            *)
Queues ==
  /\ \A d \in Server : Pending(d) => d \in DataTable
  /\ \A d \in Server : \A i \in DOMAIN RequestQueue[d] :
       /\ RequestQueue[d][i] \in 1 .. made /\ target[RequestQueue[d][i]] = d
       /\ \A j \in DOMAIN RequestQueue[d] : i < j => RequestQueue[d][i] < RequestQueue[d][j]
       /\ RequestQueue[d][i] \in told =>
            i = 1 /\ callback \in {"answer", "error"} /\ current = d
       /\ \A j \in DOMAIN dying : RequestQueue[d][i] # dying[j]
  /\ \A j \in DOMAIN dying : dying[j] \in 1 .. made
  /\ told \subseteq 1 .. made
  /\ callback = "destroy" <=> dying # <<>>

(* A wcdo is in one place.                                                  *)
Waiting(d) == d \in retryTimer \/ Places(d) # {}
Single(d) ==
  /\ \A s, t \in Sockets(d) : s = t
  /\ \A i, j \in Places(d) : i = j
  /\ ~(d \in retryTimer /\ Places(d) # {})
  /\ ~(Waiting(d) /\ Sockets(d) # {})

PlacedAt(d) ==
  /\ Single(d)
  /\ Waiting(d) => Pending(d)
  /\ Pending(d) /\ ~Aside(d) => Waiting(d) \/ Sockets(d) # {}
  /\ Aside(d) => ~Waiting(d) /\ Sockets(d) = {} /\ SOCK[d] = NULL /\ ~Closing[d]
  /\ ~Pending(d) /\ SOCK[d] # NULL => sock[SOCK[d]] = "open" /\ user[SOCK[d]] = d
  /\ DisconnectSent[d] => callback = "closed" /\ current = d

Placed == \A d \in DataTable : PlacedAt(d)

(* A socket in use belongs to a wcdo, with which it is agreed when it is    *)
(* open, and carries the first request of its queue or nothing.             *)
UsedAt(s) ==
  /\ sock[s] # "free" => user[s] \in DataTable /\ ~Closing[user[s]]
  /\ sock[s] = "connecting" => Pending(user[s])
  /\ sock[s] = "open" => SOCK[user[s]] = s
  /\ onWire[s] # <<>> =>
       /\ sock[s] = "open" /\ Pending(user[s]) /\ onWire[s] = <<Head(RequestQueue[user[s]])>>
       /\ ~(callback = "answer" /\ current = user[s])

Used == \A s \in Pool : UsedAt(s)

CalledBack ==
  /\ callback \in {"answer", "closed", "error"} => current \in DataTable
  /\ callback \in {"answer", "error"} => Pending(current)
  /\ callback = "answer" =>
       SOCK[current] \in Pool /\ sock[SOCK[current]] = "open" /\ user[SOCK[current]] = current
  /\ callback = "closed" => DisconnectSent[current]

ClientInv == ClientTypes /\ Queues /\ Placed /\ Used /\ CalledBack
-----------------------------------------------------------------------------
(* Operators the client is built from *)

(* The powers of 2 count the subsets of 1 .. k.                             *)
LEMMA PowerOfTwo ==
  ASSUME NEW k \in Nat
  PROVE  /\ IsFiniteSet(SUBSET (1 .. k)) /\ Cardinality(SUBSET (1 .. k)) = 2 ^ k
         /\ 2 ^ k \in Nat
<1>1. IsFiniteSet(1 .. k) /\ Cardinality(1 .. k) = k
  BY FS_Interval
<1>2. IsFiniteSet(SUBSET (1 .. k)) /\ Cardinality(SUBSET (1 .. k)) = 2 ^ k
  BY <1>1, FS_SUBSET
<1> QED BY <1>2, FS_CardinalityType

LEMMA PowersGrow ==
  ASSUME NEW k \in Nat, NEW m \in Nat, k <= m
  PROVE  2 ^ k <= 2 ^ m
<1>1. SUBSET (1 .. k) \in SUBSET SUBSET (1 .. m)
  OBVIOUS
<1>2. IsFiniteSet(SUBSET (1 .. m))
  BY PowerOfTwo
<1>3. Cardinality(SUBSET (1 .. k)) <= Cardinality(SUBSET (1 .. m))
  BY <1>1, <1>2, FS_Subset
<1>4. Cardinality(SUBSET (1 .. k)) = 2 ^ k /\ Cardinality(SUBSET (1 .. m)) = 2 ^ m
  BY PowerOfTwo
<1> QED BY <1>3, <1>4

(* A subset of 1 .. k + 1 is one of 1 .. k, or one with k + 1 added.        *)
LEMMA PowerDoubles ==
  ASSUME NEW k \in Nat
  PROVE  2 ^ (k + 1) = 2 * 2 ^ k
<1> DEFINE S == SUBSET (1 .. k)
           T == {A \cup {k + 1} : A \in S}
           f == [A \in S |-> A \cup {k + 1}]
<1>1. SUBSET (1 .. k + 1) = S \cup T
  <2>1. ASSUME NEW A \in SUBSET (1 .. k + 1), k + 1 \in A
        PROVE  A \in T
    <3>1. A \ {k + 1} \in S /\ A = (A \ {k + 1}) \cup {k + 1}
      BY <2>1
    <3> QED BY <3>1
  <2>2. ASSUME NEW A \in SUBSET (1 .. k + 1), k + 1 \notin A
        PROVE  A \in S
    BY <2>2
  <2>3. \A A \in S : A \in SUBSET (1 .. k + 1) /\ A \cup {k + 1} \in SUBSET (1 .. k + 1)
    OBVIOUS
  <2>4. \A A \in T : A \in SUBSET (1 .. k + 1)
    BY <2>3
  <2> HIDE DEF S, T
  <2> QED BY <2>1, <2>2, <2>3, <2>4
<1>2. f \in Bijection(S, T)
  <2>1. \A A, B \in S : f[A] = f[B] => A = B
    <3> SUFFICES ASSUME NEW A \in S, NEW B \in S, A \cup {k + 1} = B \cup {k + 1}
                 PROVE  A = B
      BY Zenon
    <3>1. k + 1 \notin A /\ k + 1 \notin B
      OBVIOUS
    <3> QED BY <3>1
  <2>2. f \in [S -> T] /\ \A t \in T : \E A \in S : f[A] = t
    OBVIOUS
  <2> HIDE DEF f, S, T
  <2> QED BY <2>1, <2>2 DEF Bijection, Injection, Surjection, IsInjective
<1>3. IsFiniteSet(S) /\ Cardinality(S) = 2 ^ k /\ 2 ^ k \in Nat
  BY PowerOfTwo
<1>4. IsFiniteSet(T) /\ Cardinality(T) = 2 ^ k
  <2>1. ExistsBijection(S, T)
    BY <1>2 DEF ExistsBijection
  <2> QED BY <1>3, <2>1, FS_Bijection
<1>5. S \cap T = {}
  <2>1. ASSUME NEW A \in S PROVE k + 1 \notin A
    OBVIOUS
  <2> QED BY <2>1
<1>6. Cardinality(S \cup T) = 2 ^ k + 2 ^ k
  <2>1. Cardinality(S \cap T) = 0
    BY <1>5, FS_EmptySet
  <2> HIDE DEF S, T
  <2> QED BY <1>3, <1>4, <2>1, FS_Union
<1>7. Cardinality(SUBSET (1 .. k + 1)) = 2 ^ (k + 1)
  <2>1. k + 1 \in Nat
    OBVIOUS
  <2> QED BY <2>1, PowerOfTwo
<1>8. 2 ^ (k + 1) = 2 ^ k + 2 ^ k
  BY <1>1, <1>6, <1>7
<1>9. \A x \in Nat : x + x = 2 * x
  OBVIOUS
<1> QED BY <1>3, <1>8, <1>9

LEMMA Bounded ==
  /\ 0 \in Backoffs /\ 1 \in Backoffs /\ 1 = 2 ^ 0
  /\ \A b \in Backoffs : b \in 0 .. 2 ^ RETRY_COUNT
  /\ \A b \in Backoffs : ~GivesUp(b) => NextBackoff(b) \in Backoffs
<1>1. 2 ^ 0 = 1
  OBVIOUS
<1>2. 0 \in Backoffs /\ 1 \in Backoffs
  <2>1. 0 \in 0 .. RETRY_COUNT
    BY WebClientAssumption
  <2>2. 2 ^ 0 \in Backoffs
    BY <2>1 DEF Backoffs
  <2> QED BY <1>1, <2>2 DEF Backoffs
<1>3. ASSUME NEW b \in Backoffs
      PROVE  b \in 0 .. 2 ^ RETRY_COUNT
  <2>1. 2 ^ RETRY_COUNT \in Nat
    BY WebClientAssumption, PowerOfTwo
  <2>2. CASE b = 0
    BY <2>1, <2>2
  <2>3. ASSUME NEW k \in 0 .. RETRY_COUNT, b = 2 ^ k
        PROVE  b \in 0 .. 2 ^ RETRY_COUNT
    <3>1. k \in Nat /\ RETRY_COUNT \in Nat /\ k <= RETRY_COUNT
      BY WebClientAssumption
    <3>2. 2 ^ k \in Nat /\ 2 ^ k <= 2 ^ RETRY_COUNT
      BY <3>1, PowerOfTwo, PowersGrow
    <3> QED BY <2>1, <2>3, <3>2
  <2> QED BY <2>2, <2>3 DEF Backoffs
<1>4. ASSUME NEW b \in Backoffs, ~GivesUp(b)
      PROVE  NextBackoff(b) \in Backoffs
  <2>1. CASE b = 0
    BY <1>2, <2>1 DEF NextBackoff
  <2>2. ASSUME NEW k \in 0 .. RETRY_COUNT, b = 2 ^ k, b # 0
        PROVE  NextBackoff(b) \in Backoffs
    <3>1. k # RETRY_COUNT
      BY <1>4, <2>2 DEF GivesUp
    <3>2. k + 1 \in 0 .. RETRY_COUNT /\ k \in Nat
      BY <3>1, WebClientAssumption
    <3>3. 2 ^ k \in Nat /\ 2 ^ (k + 1) = 2 * 2 ^ k
      BY <3>2, PowerOfTwo, PowerDoubles
    <3>4. \A x \in Nat : x * 2 = 2 * x
      OBVIOUS
    <3>5. NextBackoff(b) = 2 ^ (k + 1)
      BY <2>2, <3>3, <3>4 DEF NextBackoff
    <3> QED BY <3>2, <3>5 DEF Backoffs
  <2> QED BY <2>1, <2>2 DEF Backoffs
<1> QED BY <1>1, <1>2, <1>3, <1>4

(* The free sockets, in their order, have the ranks from 1 on.              *)
FreeSockets == {s \in Pool : Unused(s)}

LEMMA Ranks ==
  /\ IsFiniteSet(FreeSockets) /\ Cardinality(FreeSockets) \in Nat
  /\ \A s \in FreeSockets : Rank(s) \in 1 .. Cardinality(FreeSockets)
  /\ \A s, t \in FreeSockets : Rank(s) = Rank(t) => s = t
  /\ \A i \in 1 .. Cardinality(FreeSockets) : \E s \in FreeSockets : Rank(s) = i
<1> DEFINE Upto(s) == {t \in Pool : Unused(t) /\ t <= s}
           N == Cardinality(FreeSockets)
           f == [s \in FreeSockets |-> Rank(s)]
<1>1. IsFiniteSet(FreeSockets) /\ N \in Nat
  <2>1. IsFiniteSet(Pool)
    BY WebClientAssumption, FS_Interval DEF Pool
  <2> QED BY <2>1, FS_Subset, FS_CardinalityType DEF FreeSockets
<1>2. ASSUME NEW s \in FreeSockets
      PROVE  /\ s \in Upto(s) /\ Upto(s) \in SUBSET FreeSockets /\ IsFiniteSet(Upto(s))
             /\ Rank(s) = Cardinality(Upto(s)) /\ Rank(s) \in 1 .. N
  <2>1. s \in Upto(s) /\ Upto(s) \in SUBSET FreeSockets
    BY WebClientAssumption DEF FreeSockets, Pool
  <2>2. IsFiniteSet(Upto(s)) /\ Cardinality(Upto(s)) <= N /\ Cardinality(Upto(s)) \in Nat
    BY <1>1, <2>1, FS_Subset, FS_CardinalityType
  <2>3. Cardinality(Upto(s)) # 0
    BY <2>1, <2>2, FS_EmptySet
  <2> QED BY <1>1, <2>1, <2>2, <2>3 DEF Rank
<1>3. ASSUME NEW s \in FreeSockets, NEW t \in FreeSockets, s < t
      PROVE  Rank(s) # Rank(t)
  <2>1. Upto(s) \in SUBSET Upto(t) /\ Upto(s) # Upto(t)
    BY <1>3, WebClientAssumption DEF FreeSockets, Pool
  <2> QED BY <1>2, <2>1, FS_Subset
<1>4. \A s, t \in FreeSockets : Rank(s) = Rank(t) => s = t
  BY <1>3, WebClientAssumption DEF FreeSockets, Pool
<1>5. f \in Injection(FreeSockets, 1 .. N)
  <2>1. f \in [FreeSockets -> 1 .. N] /\ \A s, t \in FreeSockets : f[s] = f[t] => s = t
    BY <1>2, <1>4
  <2> HIDE DEF f, N
  <2> QED BY <2>1 DEF Injection, IsInjective
<1>6. f \in Surjection(FreeSockets, 1 .. N)
  <2>1. IsFiniteSet(1 .. N) /\ Cardinality(1 .. N) = N
    BY <1>1, FS_Interval
  <2> QED BY <1>5, <2>1, FS_Injection
<1>7. \A i \in 1 .. N : \E s \in FreeSockets : Rank(s) = i
  BY <1>6 DEF Surjection
<1> QED BY <1>1, <1>2, <1>4, <1>7

(* A number of wcdos leaves the backlog, as many as take a socket.          *)
Taken == {s \in Pool : Unused(s) /\ Rank(s) <= Len(backlogQueue)}

LEMMA TakenRanks ==
  ASSUME Len(backlogQueue) \in Nat
  PROVE  /\ Cardinality(Taken) \in 0 .. Len(backlogQueue)
         /\ \A s \in Taken : Rank(s) \in 1 .. Cardinality(Taken)
         /\ \A s, t \in Taken : Rank(s) = Rank(t) => s = t
         /\ \A i \in 1 .. Cardinality(Taken) : \E s \in Taken : Rank(s) = i
<1> DEFINE L == Len(backlogQueue)
           N == Cardinality(FreeSockets)
           n == IF N <= L THEN N ELSE L
           f == [s \in Taken |-> Rank(s)]
<1>1. n \in 0 .. L /\ n <= N /\ N \in Nat
  BY Ranks
<1>2. \A s \in Taken : s \in FreeSockets /\ Rank(s) \in 1 .. n
  BY Ranks DEF Taken, FreeSockets
<1>3. \A i \in 1 .. n : \E s \in Taken : Rank(s) = i
  <2> SUFFICES ASSUME NEW i \in 1 .. n PROVE \E s \in Taken : Rank(s) = i
    OBVIOUS
  <2>1. PICK s \in FreeSockets : Rank(s) = i
    BY <1>1, Ranks
  <2>2. s \in Taken
    BY <1>1, <2>1 DEF Taken, FreeSockets
  <2> QED BY <2>1, <2>2
<1>4. \A s, t \in Taken : Rank(s) = Rank(t) => s = t
  BY <1>2, Ranks
<1>5. Cardinality(Taken) = n
  <2>1. f \in Bijection(Taken, 1 .. n)
    <3>1. /\ f \in [Taken -> 1 .. n] /\ \A s, t \in Taken : f[s] = f[t] => s = t
          /\ \A i \in 1 .. n : \E s \in Taken : f[s] = i
      BY <1>2, <1>3, <1>4
    <3> HIDE DEF f, n
    <3> QED BY <3>1 DEF Bijection, Injection, Surjection, IsInjective
  <2>2. IsFiniteSet(Taken)
    BY <1>2, Ranks, FS_Subset
  <2>3. ExistsBijection(Taken, 1 .. n)
    BY <2>1 DEF ExistsBijection
  <2>4. Cardinality(1 .. n) = n
    <3>1. n \in Int /\ 1 \in Int /\ n >= 0
      BY <1>1
    <3> HIDE DEF n
    <3> QED BY <3>1, FS_Interval
  <2> QED BY <2>2, <2>3, <2>4, FS_Bijection
<1> QED BY <1>1, <1>2, <1>3, <1>4, <1>5
-----------------------------------------------------------------------------
(* Queues *)

LEMMA Appended ==
  ASSUME NEW S, NEW q \in Seq(S), NEW x \in S
  PROVE  /\ Append(q, x) \in Seq(S) /\ Append(q, x) # <<>>
         /\ Len(q) \in Nat /\ DOMAIN q = 1 .. Len(q)
         /\ Len(Append(q, x)) = Len(q) + 1 /\ DOMAIN Append(q, x) = 1 .. Len(q) + 1
         /\ \A i \in 1 .. Len(q) : Append(q, x)[i] = q[i]
         /\ Append(q, x)[Len(q) + 1] = x
         /\ q # <<>> => Head(Append(q, x)) = Head(q)
         /\ q = <<>> => Append(q, x) = <<x>> /\ Head(Append(q, x)) = x
<1>1. q = <<>> => Append(q, x) = <<x>>
  OBVIOUS
<1>2. Append(q, x) \in Seq(S) /\ Len(Append(q, x)) = Len(q) + 1
  BY AppendProperties
<1>3. Len(q) \in Nat /\ DOMAIN q = 1 .. Len(q) /\ DOMAIN Append(q, x) = 1 .. Len(q) + 1
  BY <1>2, LenProperties
<1> QED BY <1>1, <1>2, <1>3, AppendProperties, HeadTailAppend

LEMMA Tailed ==
  ASSUME NEW S, NEW q \in Seq(S), q # <<>>
  PROVE  /\ Head(q) \in S /\ Head(q) = q[1] /\ 1 \in DOMAIN q
         /\ Tail(q) \in Seq(S) /\ Len(q) \in Nat \ {0} /\ DOMAIN q = 1 .. Len(q)
         /\ DOMAIN Tail(q) = 1 .. Len(q) - 1
         /\ \A i \in 1 .. Len(q) - 1 : Tail(q)[i] = q[i + 1]
         /\ Tail(q) = <<>> <=> Len(q) = 1
         /\ Tail(q) # <<>> => Head(Tail(q)) = q[2] /\ 2 \in DOMAIN q
<1>1. /\ Head(q) \in S /\ Tail(q) \in Seq(S) /\ Len(Tail(q)) = Len(q) - 1
      /\ \A i \in 1 .. Len(Tail(q)) : Tail(q)[i] = q[i + 1]
  BY HeadTailProperties
<1>2. Len(q) \in Nat \ {0} /\ DOMAIN q = 1 .. Len(q) /\ DOMAIN Tail(q) = 1 .. Len(Tail(q))
  BY <1>1, LenProperties, EmptySeq
<1>3. Head(q) = q[1] /\ (Tail(q) # <<>> => Head(Tail(q)) = Tail(q)[1])
  OBVIOUS
<1>4. Tail(q) = <<>> <=> Len(q) = 1
  BY <1>1, <1>2, EmptySeq
<1> QED BY <1>1, <1>2, <1>3, <1>4

LEMMA BacklogAppended ==
  ASSUME NEW e \in DataTable, backlogQueue \in Seq(DataTable),
         backlogQueue' = Append(backlogQueue, e)
  PROVE  /\ \A d : d # e => Places(d)' = Places(d)
         /\ Places(e)' = Places(e) \cup {Len(backlogQueue) + 1}
         /\ backlogQueue' \in Seq(DataTable)
<1>1. /\ DOMAIN backlogQueue' = 1 .. Len(backlogQueue) + 1 /\ Len(backlogQueue) \in Nat
      /\ DOMAIN backlogQueue = 1 .. Len(backlogQueue)
      /\ \A i \in 1 .. Len(backlogQueue) : backlogQueue'[i] = backlogQueue[i]
      /\ backlogQueue'[Len(backlogQueue) + 1] = e
      /\ backlogQueue' \in Seq(DataTable)
  BY Appended
<1>2. ASSUME NEW d, d # e PROVE Places(d)' = Places(d)
  <2>1. \A i : i \in Places(d)' <=> i \in Places(d)
    BY <1>1, <1>2 DEF Places
  <2> QED BY <2>1
<1>3. \A i : i \in Places(e)' <=> i \in Places(e) \/ i = Len(backlogQueue) + 1
  BY <1>1 DEF Places
<1> QED BY <1>1, <1>2, <1>3

(* A wcdo that nothing changed for.                                         *)
LEMMA PlacedKept ==
  ASSUME NEW d \in Server, PlacedAt(d), SOCK[d] \in Pool \cup {NULL},
         Places(d)' = Places(d), Sockets(d)' = Sockets(d),
         d \in retryTimer' <=> d \in retryTimer,
         Pending(d)' <=> Pending(d), Aside(d)' <=> Aside(d),
         SOCK'[d] = SOCK[d], Closing'[d] = Closing[d], DisconnectSent'[d] = DisconnectSent[d],
         callback = "closed" /\ current = d => callback' = "closed" /\ current' = d,
         \A s \in Pool : sock[s] = "open" /\ user[s] = d => sock'[s] = "open" /\ user'[s] = d
  PROVE  PlacedAt(d)'
<1>1. Single(d)'
  BY DEF PlacedAt, Single, Waiting
<1>2. Waiting(d)' <=> Waiting(d)
  BY DEF Waiting
<1> QED BY <1>1, <1>2 DEF PlacedAt

(* A request is made: it is the last of its queue, the greatest number.     *)
Makes(d) ==
  /\ made < MaxRequests /\ made' = made + 1 /\ target' = Append(target, d)
  /\ DataTable' = DataTable \cup {d}
  /\ RequestQueue' = [RequestQueue EXCEPT ![d] = Append(@, made + 1)]
  /\ UNCHANGED <<callback, current, dying, told, sock, user>>

LEMMA PipelineMakes ==
  ASSUME ClientInv, NEW d \in Server, PipelineRequest(d)
  PROVE  Makes(d) /\ made + 1 \in Request
<1>1. made + 1 \in Request /\ made < MaxRequests
  BY WebClientAssumption DEF PipelineRequest, ClientInv, ClientTypes, WCTypeOK, Request
<1>2. CASE NewServer(d, made + 1)
  <2>1. RequestQueue[d] = <<>>
    BY <1>2 DEF NewServer, ClientInv, Queues, Pending
  <2>2. Append(RequestQueue[d], made + 1) = <<made + 1>>
    BY <1>1, <2>1, Appended DEF ClientInv, ClientTypes, WCTypeOK
  <2> QED BY <1>1, <1>2, <2>2 DEF NewServer, PipelineRequest, Makes, control
<1>3. CASE Waits(d, made + 1) \/ GoesOut(d, made + 1)
  BY <1>1, <1>3 DEF Waits, GoesOut, PipelineRequest, Makes, control
<1> QED BY <1>1, <1>2, <1>3 DEF PipelineRequest

LEMMA QueuesMake ==
  ASSUME ClientInv, NEW d \in Server, Makes(d), made + 1 \in Request
  PROVE  /\ Queues'
         /\ RequestQueue' \in [Server -> Seq(Request)] /\ DataTable' \subseteq Server
         /\ target' \in Seq(Server) /\ Len(target') = made' /\ made' \in 0 .. MaxRequests
         /\ \A e \in Server \ {d} : RequestQueue'[e] = RequestQueue[e]
         /\ RequestQueue'[d] # <<>>
         /\ RequestQueue[d] # <<>> => Head(RequestQueue'[d]) = Head(RequestQueue[d])
         /\ RequestQueue[d] = <<>> => Head(RequestQueue'[d]) = made + 1
<1> DEFINE q == RequestQueue[d]
           r == made + 1
<1>0. /\ q \in Seq(Request) /\ RequestQueue'[d] = Append(q, r)
      /\ \A e \in Server \ {d} : RequestQueue'[e] = RequestQueue[e]
      /\ RequestQueue' \in [Server -> Seq(Request)] /\ DataTable' \subseteq Server
      /\ made \in Nat /\ r \in Request /\ made' = r
      /\ target \in Seq(Server) /\ Len(target) = made /\ target' = Append(target, d)
  BY Appended DEF Makes, ClientInv, ClientTypes, WCTypeOK
<1>1. /\ target' \in Seq(Server) /\ Len(target') = made' /\ target'[r] = d
      /\ \A i \in 1 .. made : target'[i] = target[i]
      /\ made' \in 0 .. MaxRequests
  <2>1. made' \in 0 .. MaxRequests
    BY <1>0 DEF Request
  <2>2. Append(target, d)[Len(target) + 1] = d /\ Append(target, d) \in Seq(Server)
        /\ Len(Append(target, d)) = Len(target) + 1
        /\ \A i \in 1 .. Len(target) : Append(target, d)[i] = target[i]
    BY <1>0, AppendProperties
  <2> QED BY <1>0, <2>1, <2>2
<1>2. /\ Len(q) \in Nat /\ DOMAIN q = 1 .. Len(q) /\ DOMAIN Append(q, r) = 1 .. Len(q) + 1
      /\ \A i \in 1 .. Len(q) : Append(q, r)[i] = q[i]
      /\ Append(q, r)[Len(q) + 1] = r
      /\ Append(q, r) # <<>>
      /\ q # <<>> => Head(Append(q, r)) = Head(q)
      /\ q = <<>> => Head(Append(q, r)) = r
  <2>1. q \in Seq(Request) /\ r \in Request
    BY <1>0
  <2> HIDE DEF q, r
  <2> QED BY <2>1, Appended
<1>3. \A e \in Server : Pending(e)' => e \in DataTable'
  BY <1>0 DEF Pending, Makes, ClientInv, Queues
<1>4. ASSUME NEW e \in Server, NEW i \in DOMAIN RequestQueue'[e]
      PROVE  /\ RequestQueue'[e][i] \in 1 .. made' /\ target'[RequestQueue'[e][i]] = e
             /\ \A j \in DOMAIN RequestQueue'[e] : i < j => RequestQueue'[e][i] < RequestQueue'[e][j]
             /\ RequestQueue'[e][i] \in told' =>
                  i = 1 /\ callback' \in {"answer", "error"} /\ current' = e
             /\ \A j \in DOMAIN dying' : RequestQueue'[e][i] # dying'[j]
  <2>0. UNCHANGED <<callback, current, dying, told>> /\ Queues
    BY DEF Makes, ClientInv
  <2>1. CASE e # d
    <3>1. RequestQueue'[e] = RequestQueue[e] /\ i \in DOMAIN RequestQueue[e]
      BY <1>0, <1>4, <2>1
    <3>2. /\ RequestQueue[e][i] \in 1 .. made /\ target[RequestQueue[e][i]] = e
          /\ \A j \in DOMAIN RequestQueue[e] : i < j => RequestQueue[e][i] < RequestQueue[e][j]
          /\ RequestQueue[e][i] \in told =>
               i = 1 /\ callback \in {"answer", "error"} /\ current = e
          /\ \A j \in DOMAIN dying : RequestQueue[e][i] # dying[j]
      BY <2>0, <3>1 DEF Queues
    <3>3. RequestQueue[e][i] \in 1 .. made' /\ target'[RequestQueue[e][i]] = e
      BY <1>0, <1>1, <3>2
    <3> QED BY <2>0, <3>1, <3>2, <3>3
  <2>2. CASE e = d /\ i <= Len(q)
    <3>1. /\ i \in DOMAIN q /\ RequestQueue'[e][i] = q[i] /\ q[i] \in 1 .. made
          /\ target[q[i]] = d
          /\ \A j \in DOMAIN q : i < j => q[i] < q[j]
          /\ q[i] \in told => i = 1 /\ callback \in {"answer", "error"} /\ current = d
          /\ \A j \in DOMAIN dying : q[i] # dying[j]
      BY <1>0, <1>2, <1>4, <2>0, <2>2 DEF Queues
    <3>2. \A j \in DOMAIN RequestQueue'[e] : i < j => q[i] < RequestQueue'[e][j]
      <4> SUFFICES ASSUME NEW j \in DOMAIN RequestQueue'[e], i < j
                   PROVE  q[i] < RequestQueue'[e][j]
        OBVIOUS
      <4>1. CASE j \in DOMAIN q
        BY <1>0, <1>2, <2>2, <3>1, <4>1
      <4>2. CASE j = Len(q) + 1
        BY <1>0, <1>2, <2>2, <3>1, <4>2
      <4>3. j \in 1 .. Len(q) + 1
        BY <1>0, <1>2, <2>2
      <4> QED BY <1>2, <4>1, <4>2, <4>3
    <3> QED BY <1>0, <1>1, <2>0, <2>2, <3>1, <3>2
  <2>3. CASE e = d /\ i = Len(q) + 1
    <3>1. RequestQueue'[e][i] = r
      BY <1>0, <1>2, <2>3
    <3>2. r \notin told /\ \A j \in DOMAIN dying : dying[j] # r
      BY <1>0, <2>0 DEF Queues
    <3>3. \A j \in DOMAIN RequestQueue'[e] : ~(i < j)
      BY <1>0, <1>2, <2>3
    <3> QED BY <1>0, <1>1, <2>0, <2>3, <3>1, <3>2, <3>3
  <2> QED BY <1>0, <1>2, <1>4, <2>1, <2>2, <2>3
<1>5. /\ \A j \in DOMAIN dying' : dying'[j] \in 1 .. made'
      /\ told' \subseteq 1 .. made'
      /\ callback' = "destroy" <=> dying' # <<>>
  BY <1>0 DEF Makes, ClientInv, Queues
<1>6. Queues'
  BY <1>3, <1>4, <1>5 DEF Queues
<1> QED BY <1>0, <1>1, <1>2, <1>6
-----------------------------------------------------------------------------
(* A step for one wcdo *)

(* What the other wcdos and their sockets see of it: nothing.               *)
OnlyFor(d) ==
  /\ \A e \in Server \ {d} :
       /\ RequestQueue'[e] = RequestQueue[e] /\ SOCK'[e] = SOCK[e]
       /\ Closing'[e] = Closing[e] /\ DisconnectSent'[e] = DisconnectSent[e]
       /\ Places(e)' = Places(e) /\ (e \in retryTimer' <=> e \in retryTimer)
       /\ e \in DataTable' <=> e \in DataTable
  /\ \A e : \A c \in {"answer", "closed", "error"} :
       e # d => (callback' = c /\ current' = e <=> callback = c /\ current = e)
  /\ \A s \in Pool : /\ user'[s] = user[s]
                     /\ user[s] # d => sock'[s] = sock[s] /\ onWire'[s] = onWire[s]

LEMMA OthersKept ==
  ASSUME ClientInv, NEW d, OnlyFor(d), DataTable' \subseteq Server
  PROVE  /\ \A e \in DataTable' \ {d} : PlacedAt(e)'
         /\ \A s \in Pool : user[s] # d => UsedAt(s)'
         /\ current' # d => CalledBack'
<1>1. ASSUME NEW e \in DataTable' \ {d}
      PROVE  PlacedAt(e)'
  <2>1. e \in Server /\ e \in DataTable /\ PlacedAt(e) /\ SOCK[e] \in Pool \cup {NULL}
    BY DEF OnlyFor, ClientInv, Placed, ClientTypes, WCTypeOK
  <2>2. Sockets(e)' = Sockets(e)
    BY DEF OnlyFor, Sockets, Unused
  <2>3. Aside(e)' <=> Aside(e)
    BY DEF OnlyFor, Aside
  <2>4. /\ Places(e)' = Places(e) /\ (e \in retryTimer' <=> e \in retryTimer)
        /\ Pending(e)' <=> Pending(e)
        /\ SOCK'[e] = SOCK[e] /\ Closing'[e] = Closing[e] /\ DisconnectSent'[e] = DisconnectSent[e]
        /\ callback = "closed" /\ current = e => callback' = "closed" /\ current' = e
        /\ \A s \in Pool : sock[s] = "open" /\ user[s] = e => sock'[s] = "open" /\ user'[s] = e
    BY <2>1 DEF OnlyFor, Pending
  <2> QED BY <2>1, <2>2, <2>3, <2>4, PlacedKept
<1>2. ASSUME NEW s \in Pool, user[s] # d
      PROVE  UsedAt(s)'
  <2>1. /\ UsedAt(s) /\ sock'[s] = sock[s] /\ onWire'[s] = onWire[s] /\ user'[s] = user[s]
        /\ sock[s] # "free" => user[s] \in DataTable /\ user[s] \in Server \ {d}
    BY <1>2 DEF OnlyFor, ClientInv, Used, UsedAt, ClientTypes, WCTypeOK
  <2>2. sock[s] # "free" =>
          /\ user[s] \in DataTable' /\ Closing'[user[s]] = Closing[user[s]]
          /\ RequestQueue'[user[s]] = RequestQueue[user[s]] /\ SOCK'[user[s]] = SOCK[user[s]]
          /\ callback' = "answer" /\ current' = user[s] => callback = "answer" /\ current = user[s]
    BY <2>1 DEF OnlyFor
  <2>3. sock[s] = "free" => onWire[s] = <<>>
    BY <2>1 DEF UsedAt
  <2> HIDE DEF OnlyFor
  <2> QED BY <2>1, <2>2, <2>3 DEF UsedAt, Pending
<1>3. ASSUME current' # d, callback' \in {"answer", "closed", "error"}
      PROVE  CalledBack'
  <2>1. callback' = callback /\ current' = current
    BY <1>3 DEF OnlyFor
  <2>2. current \in DataTable /\ current \in Server \ {d}
    BY <1>3, <2>1 DEF ClientInv, CalledBack, ClientTypes, WCTypeOK
  <2>3. /\ current \in DataTable' /\ RequestQueue'[current] = RequestQueue[current]
        /\ SOCK'[current] = SOCK[current] /\ DisconnectSent'[current] = DisconnectSent[current]
        /\ \A s \in Pool : user[s] = current => sock'[s] = sock[s] /\ user'[s] = user[s]
    BY <2>2 DEF OnlyFor
  <2> HIDE DEF OnlyFor
  <2> QED BY <2>1, <2>2, <2>3 DEF ClientInv, CalledBack, Pending
<1> QED BY <1>1, <1>2, <1>3 DEF CalledBack

LEMMA StepFor ==
  ASSUME ClientInv, NEW d, OnlyFor(d), ClientTypes', Queues',
         d \in DataTable' => PlacedAt(d)',
         \A s \in Pool : user[s] = d => UsedAt(s)',
         current' = d => CalledBack'
  PROVE  ClientInv'
<1>1. DataTable' \subseteq Server
  BY DEF ClientTypes, WCTypeOK
<1>2. Placed' /\ Used' /\ CalledBack'
  BY <1>1, OthersKept DEF Placed, Used
<1> QED BY <1>2 DEF ClientInv

(* A queue advances by the requests that leave it, and only its first one   *)
(* was told it is done.                                                     *)
LEMMA QueuesAdvance ==
  ASSUME ClientInv, NEW d \in Server, OnlyFor(d), NEW k \in Nat,
         RequestQueue' \in [Server -> Seq(Request)],
         Len(RequestQueue'[d]) = Len(RequestQueue[d]) - k,
         \A i \in 1 .. Len(RequestQueue'[d]) : RequestQueue'[d][i] = RequestQueue[d][i + k],
         UNCHANGED <<made, target>>,
         \A r \in told' : r \in told \/ (Pending(d) /\ r = Head(RequestQueue[d])),
         k = 0 => \A r \in told' :
           Pending(d) /\ r = Head(RequestQueue[d]) => callback' \in {"answer", "error"} /\ current' = d,
         dying' = dying \/ (dying' = RequestQueue[d] /\ k = Len(RequestQueue[d])),
         callback' = "destroy" <=> dying' # <<>>,
         Pending(d)' => d \in DataTable'
  PROVE  Queues'
<1> DEFINE q == RequestQueue[d]
           q1 == RequestQueue'[d]
<1>0. Queues /\ q \in Seq(Request) /\ q1 \in Seq(Request)
  BY DEF ClientInv, ClientTypes, WCTypeOK
<1>1. /\ Len(q) \in Nat /\ DOMAIN q = 1 .. Len(q) /\ DOMAIN q1 = 1 .. Len(q) - k
      /\ Pending(d) => 1 \in DOMAIN q /\ Head(q) = q[1]
  <2>1. Pending(d) => 1 \in DOMAIN q /\ Head(q) = q[1]
    BY <1>0, Tailed DEF Pending
  <2> QED BY <1>0, <2>1, LenProperties
<1>2. \A e \in Server : Pending(e)' => e \in DataTable'
  BY <1>0 DEF Pending, Queues, OnlyFor
<1>3. /\ \A j \in DOMAIN dying' : dying'[j] \in 1 .. made'
      /\ told' \subseteq 1 .. made'
  <2>1. Pending(d) => Head(q) \in 1 .. made
    BY <1>0, <1>1 DEF Queues
  <2> QED BY <1>0, <2>1 DEF Queues
<1>4. ASSUME NEW e \in Server \ {d}, NEW i \in DOMAIN RequestQueue'[e]
      PROVE  /\ RequestQueue'[e][i] \in 1 .. made' /\ target'[RequestQueue'[e][i]] = e
             /\ \A j \in DOMAIN RequestQueue'[e] : i < j => RequestQueue'[e][i] < RequestQueue'[e][j]
             /\ RequestQueue'[e][i] \in told' =>
                  i = 1 /\ callback' \in {"answer", "error"} /\ current' = e
             /\ \A j \in DOMAIN dying' : RequestQueue'[e][i] # dying'[j]
  <2>1. RequestQueue'[e] = RequestQueue[e]
    BY DEF OnlyFor
  <2> DEFINE r == RequestQueue[e][i]
  <2>2. /\ r \in 1 .. made /\ target[r] = e
        /\ \A j \in DOMAIN RequestQueue[e] : i < j => r < RequestQueue[e][j]
        /\ r \in told => i = 1 /\ callback \in {"answer", "error"} /\ current = e
        /\ \A j \in DOMAIN dying : r # dying[j]
    BY <1>0, <1>4, <2>1 DEF Queues
  <2>3. \A j \in DOMAIN q : q[j] # r
    BY <1>0, <2>2 DEF Queues
  <2>4. r \in told' => r \in told
    BY <1>1, <2>3
  <2>5. callback \in {"answer", "error"} /\ current = e =>
          callback' \in {"answer", "error"} /\ current' = e
    BY DEF OnlyFor
  <2>6. \A j \in DOMAIN dying' : r # dying'[j]
    BY <2>2, <2>3
  <2> QED BY <2>1, <2>2, <2>4, <2>5, <2>6
<1>5. ASSUME NEW i \in DOMAIN q1
      PROVE  /\ q1[i] \in 1 .. made' /\ target'[q1[i]] = d
             /\ \A j \in DOMAIN q1 : i < j => q1[i] < q1[j]
             /\ q1[i] \in told' => i = 1 /\ callback' \in {"answer", "error"} /\ current' = d
             /\ \A j \in DOMAIN dying' : q1[i] # dying'[j]
  <2>1. /\ i \in 1 .. Len(q) - k /\ i + k \in DOMAIN q /\ q1[i] = q[i + k]
        /\ \A j \in DOMAIN q1 : j + k \in DOMAIN q /\ q1[j] = q[j + k]
    BY <1>0, <1>1, <1>5
  <2>2. /\ q[i + k] \in 1 .. made /\ target[q[i + k]] = d
        /\ \A j \in DOMAIN q : i + k < j => q[i + k] < q[j]
        /\ q[i + k] \in told => i + k = 1
        /\ \A j \in DOMAIN dying : q[i + k] # dying[j]
    BY <1>0, <2>1 DEF Queues
  <2>3. \A j \in DOMAIN q1 : i < j => q1[i] < q1[j]
    <3> SUFFICES ASSUME NEW j \in DOMAIN q1, i < j PROVE q1[i] < q1[j]
      OBVIOUS
    <3>1. j \in Nat /\ i + k < j + k
      BY <1>1, <2>1
    <3> QED BY <2>1, <2>2, <3>1
  <2>4. Pending(d) /\ 1 \in DOMAIN q /\ Head(q) = q[1]
    BY <1>1, <2>1 DEF Pending
  <2>5. i + k # 1 => q[i + k] # q[1]
    <3>1. i + k # 1 => q[1] < q[i + k]
      BY <1>0, <1>1, <2>1, <2>4 DEF Queues
    <3>2. q[1] \in 1 .. made
      BY <1>0, <2>4 DEF Queues
    <3> QED BY <2>2, <3>1, <3>2
  <2>6. i + k = 1 => i = 1 /\ k = 0
    BY <1>1, <2>1
  <2>7. \A j \in DOMAIN dying' : q1[i] # dying'[j]
    BY <1>1, <2>1, <2>2
  <2> QED BY <2>1, <2>2, <2>3, <2>4, <2>5, <2>6, <2>7
<1>6. ASSUME NEW e \in Server, NEW i \in DOMAIN RequestQueue'[e]
      PROVE  /\ RequestQueue'[e][i] \in 1 .. made' /\ target'[RequestQueue'[e][i]] = e
             /\ \A j \in DOMAIN RequestQueue'[e] : i < j => RequestQueue'[e][i] < RequestQueue'[e][j]
             /\ RequestQueue'[e][i] \in told' =>
                  i = 1 /\ callback' \in {"answer", "error"} /\ current' = e
             /\ \A j \in DOMAIN dying' : RequestQueue'[e][i] # dying'[j]
  <2>1. CASE e = d
    BY <1>5, <1>6, <2>1
  <2>2. CASE e # d
    BY <1>4, <1>6, <2>2
  <2> QED BY <2>1, <2>2
<1>7. (callback' = "destroy") <=> (dying' # <<>>)
  OBVIOUS
<1> HIDE DEF q, q1
<1> QED BY <1>2, <1>3, <1>6, <1>7 DEF Queues

(* The queues stay as they are.                                             *)
LEMMA QueuesStay ==
  ASSUME ClientInv, NEW d \in Server, OnlyFor(d), UNCHANGED <<RequestQueue, made, target, dying>>,
         DataTable \subseteq DataTable',
         \A r \in told' : r \in told \/ (Pending(d) /\ r = Head(RequestQueue[d])),
         \A r \in told' : Pending(d) /\ r = Head(RequestQueue[d]) =>
                         callback' \in {"answer", "error"} /\ current' = d,
         callback' = "destroy" <=> callback = "destroy"
  PROVE  Queues'
<1>1. RequestQueue \in [Server -> Seq(Request)] /\ RequestQueue[d] \in Seq(Request)
  BY DEF ClientInv, ClientTypes, WCTypeOK
<1>2. Len(RequestQueue[d]) \in Nat /\ DOMAIN RequestQueue[d] = 1 .. Len(RequestQueue[d])
  BY <1>1, LenProperties
<1>3. \A i \in 1 .. Len(RequestQueue[d]) : i + 0 = i
  BY <1>2
<1>4. /\ Pending(d)' => d \in DataTable'
      /\ callback' = "destroy" <=> dying' # <<>>
  BY DEF ClientInv, Queues, Pending
<1>5. Len(RequestQueue'[d]) = Len(RequestQueue[d]) - 0
  BY <1>2
<1> QED BY <1>1, <1>3, <1>4, <1>5, QueuesAdvance

(* Nothing that the invariant speaks of changes.                            *)
LEMMA NothingSeen ==
  ASSUME ClientInv, ClientTypes',
         UNCHANGED <<DataTable, RequestQueue, SOCK, Closing, DisconnectSent, retryTimer,
                     backlogQueue, sock, user, onWire, callback, current, dying, made, target, told>>
  PROVE  ClientInv'
<1>1. Queues'
  BY DEF ClientInv, Queues, Pending
<1>2. Placed'
  <2> SUFFICES ASSUME NEW d \in DataTable PROVE PlacedAt(d)'
    BY DEF Placed
  <2>1. PlacedAt(d)
    BY DEF ClientInv, Placed
  <2> QED BY <2>1 DEF PlacedAt, Single, Waiting, Places, Sockets, Unused, Pending, Aside
<1>3. Used' /\ CalledBack'
  BY DEF ClientInv, Used, UsedAt, CalledBack, Pending
<1> QED BY <1>1, <1>2, <1>3 DEF ClientInv

(* A socket in use is the place of its wcdo.                                *)
LEMMA Busy ==
  ASSUME ClientInv, NEW s \in Pool, sock[s] # "free"
  PROVE  /\ user[s] \in DataTable /\ user[s] \in Server /\ ~Closing[user[s]]
         /\ PlacedAt(user[s]) /\ UsedAt(s) /\ Sockets(user[s]) = {s}
         /\ ~Waiting(user[s]) /\ user[s] \notin retryTimer /\ Places(user[s]) = {}
         /\ ~Aside(user[s]) /\ ~DisconnectSent[user[s]]
         /\ \A t \in Pool : user[t] = user[s] /\ t # s => sock[t] = "free" /\ onWire[t] = <<>>
<1> DEFINE d == user[s]
<1>1. UsedAt(s) /\ d \in DataTable /\ d \in Server /\ ~Closing[d]
  BY DEF ClientInv, Used, UsedAt, ClientTypes, WCTypeOK
<1>2. PlacedAt(d)
  BY <1>1 DEF ClientInv, Placed
<1>3. s \in Sockets(d)
  BY DEF Sockets, Unused
<1>4. Sockets(d) = {s} /\ ~Waiting(d) /\ d \notin retryTimer /\ Places(d) = {}
  BY <1>2, <1>3 DEF PlacedAt, Single, Waiting
<1>5. ~Aside(d)
  BY <1>2, <1>3 DEF PlacedAt
<1>6. ~DisconnectSent[d]
  BY <1>2, <1>5 DEF PlacedAt, Aside
<1>7. ASSUME NEW t \in Pool, user[t] = d, t # s
      PROVE  sock[t] = "free" /\ onWire[t] = <<>>
  <2>1. t \notin Sockets(d)
    BY <1>4, <1>7
  <2>2. sock[t] = "free"
    BY <1>7, <2>1 DEF Sockets, Unused
  <2> QED BY <2>2 DEF ClientInv, Used, UsedAt
<1> QED BY <1>1, <1>2, <1>4, <1>5, <1>6, <1>7

(* The first request of a queue.                                            *)
LEMMA FirstOf ==
  ASSUME ClientInv, NEW d \in Server
  PROVE  /\ RequestQueue[d] \in Seq(Request) /\ Len(RequestQueue[d]) \in Nat
         /\ Pending(d) => /\ Head(RequestQueue[d]) \in Request
                          /\ Tail(RequestQueue[d]) \in Seq(Request)
                          /\ <<Head(RequestQueue[d])>> \in Seq(Request)
                          /\ Len(Tail(RequestQueue[d])) = Len(RequestQueue[d]) - 1
                          /\ \A i \in 1 .. Len(Tail(RequestQueue[d])) :
                               Tail(RequestQueue[d])[i] = RequestQueue[d][i + 1]
         /\ callback \notin {"answer", "error"} =>
              \A r \in told : ~(Pending(d) /\ r = Head(RequestQueue[d]))
<1>1. RequestQueue[d] \in Seq(Request)
  BY DEF ClientInv, ClientTypes, WCTypeOK
<1>2. Pending(d) => /\ Head(RequestQueue[d]) = RequestQueue[d][1] /\ 1 \in DOMAIN RequestQueue[d]
                    /\ Head(RequestQueue[d]) \in Request
                    /\ Tail(RequestQueue[d]) \in Seq(Request)
  BY <1>1, Tailed DEF Pending
<1>3. Pending(d) => /\ Len(Tail(RequestQueue[d])) = Len(RequestQueue[d]) - 1
                    /\ \A i \in 1 .. Len(Tail(RequestQueue[d])) :
                         Tail(RequestQueue[d])[i] = RequestQueue[d][i + 1]
  BY <1>1, HeadTailProperties DEF Pending
<1>4. callback \notin {"answer", "error"} =>
              \A r \in told : ~(Pending(d) /\ r = Head(RequestQueue[d]))
  BY <1>2 DEF ClientInv, Queues
<1>5. Len(RequestQueue[d]) \in Nat
  BY <1>1, LenProperties
<1>6. Pending(d) => <<Head(RequestQueue[d])>> \in Seq(Request)
  BY <1>2
<1> QED BY <1>1, <1>2, <1>3, <1>4, <1>5, <1>6
-----------------------------------------------------------------------------
(* A request is made *)

(* Without requests a wcdo has its connection, or nothing.                  *)
LEMMA Agreed ==
  ASSUME ClientInv, NEW d \in DataTable, ~Pending(d)
  PROVE  /\ ~Waiting(d) /\ d \notin retryTimer /\ Places(d) = {}
         /\ SOCK[d] \in Pool \cup {NULL} /\ NULL \notin Pool
         /\ SOCK[d] = NULL => Sockets(d) = {} /\ Unconnected(d)
         /\ SOCK[d] # NULL => /\ sock[SOCK[d]] = "open" /\ user[SOCK[d]] = d
                              /\ Sockets(d) = {SOCK[d]} /\ ~Unconnected(d)
<1>1. d \in Server /\ SOCK[d] \in Pool \cup {NULL} /\ NULL \notin Pool
  BY WebClientAssumption DEF ClientInv, ClientTypes, WCTypeOK, Pool, NULL
<1>2. PlacedAt(d)
  BY DEF ClientInv, Placed
<1>3. \A s \in Sockets(d) : SOCK[d] = s
  <2>1. \A s \in Pool : sock[s] \in {"free", "connecting", "open"}
    BY DEF ClientInv, ClientTypes, WCTypeOK
  <2> QED BY <2>1 DEF Sockets, Unused, ClientInv, Used, UsedAt
<1>4. SOCK[d] # NULL => SOCK[d] \in Sockets(d)
  BY <1>1, <1>2 DEF PlacedAt, Sockets, Unused
<1>5. d \notin retryTimer /\ Places(d) = {} /\ ~Waiting(d)
  BY <1>2 DEF PlacedAt, Waiting
<1>6. SOCK[d] = NULL => Sockets(d) = {}
  <2>1. \A s \in Sockets(d) : s \in Pool
    BY DEF Sockets
  <2> QED BY <1>1, <1>3, <2>1
<1>7. SOCK[d] # NULL => Sockets(d) = {SOCK[d]}
  BY <1>3, <1>4
<1> QED BY <1>1, <1>2, <1>5, <1>6, <1>7 DEF PlacedAt, Unconnected, Unused

LEMMA NewServerKeeps ==
  ASSUME ClientInv, NEW d \in Server, PipelineRequest(d), NewServer(d, made + 1)
  PROVE  ClientInv'
<1>0. /\ Makes(d) /\ made + 1 \in Request
  BY PipelineMakes
<1>1. /\ Queues' /\ RequestQueue' \in [Server -> Seq(Request)] /\ DataTable' \subseteq Server
      /\ target' \in Seq(Server) /\ Len(target') = made' /\ made' \in 0 .. MaxRequests
      /\ \A e \in Server \ {d} : RequestQueue'[e] = RequestQueue[e]
      /\ RequestQueue'[d] # <<>>
  BY <1>0, QueuesMake
<1> USE DEF NewServer
<1>2. /\ UNCHANGED <<sock, user, onWire, callback, current, dying, told, retryTimer, idleTimer>>
      /\ DataTable' = DataTable \cup {d} /\ d \notin DataTable
  BY DEF PipelineRequest, control, delays
<1>3. backlogQueue \in Seq(DataTable) /\ backlogQueue \in Seq(DataTable')
  BY <1>2, SeqMonotonic DEF ClientInv, ClientTypes, WCTypeOK
<1>4. /\ \A e : e # d => Places(e)' = Places(e)
      /\ Places(d)' = Places(d) \cup {Len(backlogQueue) + 1}
      /\ backlogQueue' \in Seq(DataTable')
  <2>1. ASSUME NEW e, e # d
        PROVE  Places(e)' = Places(e)
    <3>1. \A i : i \in Places(e)' <=> i \in Places(e)
      BY <1>2, <1>3, <2>1, Appended DEF Places
    <3> QED BY <3>1
  <2>2. \A i : i \in Places(d)' <=> i \in Places(d) \/ i = Len(backlogQueue) + 1
    BY <1>2, <1>3, Appended DEF Places
  <2> QED BY <1>2, <1>3, <2>1, <2>2, Appended
<1>5. ClientTypes'
  <2>1. 0 \in Backoffs /\ 0 \in 0 .. 2 ^ RETRY_COUNT
    BY Bounded
  <2>2. WCTypeOK'
    BY <1>1, <1>2, <1>4, <2>1 DEF ClientInv, ClientTypes, WCTypeOK, NULL
  <2>3. \A e \in Server : ExponentialBackoff'[e] \in Backoffs
    BY <2>1 DEF ClientInv, ClientTypes, WCTypeOK
  <2>4. \A e \in retryTimer : ExponentialBackoff'[e] = ExponentialBackoff[e]
    BY <1>2 DEF ClientInv, ClientTypes, WCTypeOK
  <2> QED BY <1>2, <2>2, <2>3, <2>4 DEF ClientInv, ClientTypes, Backoffs
<1>6. Places(d) = {} /\ Sockets(d) = {} /\ d \notin retryTimer /\ ~Aside(d)
  <2>1. \A i \in DOMAIN backlogQueue : backlogQueue[i] \in DataTable
    BY <1>3, LenProperties
  <2>2. Places(d) = {}
    BY <1>2, <2>1 DEF Places
  <2> QED BY <1>2, <2>2
         DEF Sockets, Unused, Aside, ClientInv, ClientTypes, WCTypeOK, Used, UsedAt, CalledBack
<1>7. \A e \in Server : Sockets(e)' = Sockets(e) /\ (Aside(e)' <=> Aside(e))
  BY <1>2 DEF Sockets, Unused, Aside
<1>8. PlacedAt(d)'
  BY <1>1, <1>2, <1>4, <1>6, <1>7
     DEF PlacedAt, Single, Waiting, Pending, ClientInv, ClientTypes, WCTypeOK
<1>9. ASSUME NEW e \in DataTable
      PROVE  PlacedAt(e)'
  <2>1. e # d /\ e \in Server /\ PlacedAt(e) /\ SOCK[e] \in Pool \cup {NULL}
    BY <1>2 DEF ClientInv, Placed, ClientTypes, WCTypeOK
  <2>2. /\ SOCK'[e] = SOCK[e] /\ Closing'[e] = Closing[e] /\ DisconnectSent'[e] = DisconnectSent[e]
        /\ Pending(e)' <=> Pending(e)
    BY <1>1, <2>1 DEF ClientInv, ClientTypes, WCTypeOK, Pending
  <2> QED BY <1>2, <1>4, <1>7, <2>1, <2>2, PlacedKept
<1>10. Used'
  <2>1. \A s \in Pool : sock[s] # "free" => user[s] # d /\ user[s] \in Server
    BY <1>2 DEF ClientInv, Used, UsedAt, ClientTypes, WCTypeOK
  <2>2. \A e \in Server \ {d} : SOCK'[e] = SOCK[e] /\ Closing'[e] = Closing[e]
    BY DEF ClientInv, ClientTypes, WCTypeOK
  <2> QED BY <1>1, <1>2, <2>1, <2>2 DEF ClientInv, Used, UsedAt, Pending
<1>11. CalledBack'
  <2>1. callback \in {"answer", "closed", "error"} => current \in Server \ {d}
    BY <1>2 DEF ClientInv, CalledBack, ClientTypes, WCTypeOK
  <2> QED BY <1>1, <1>2, <2>1 DEF ClientInv, CalledBack, Pending, ClientTypes, WCTypeOK
<1> QED BY <1>1, <1>2, <1>5, <1>8, <1>9, <1>10, <1>11 DEF ClientInv, Placed

LEMMA WaitsKeeps ==
  ASSUME ClientInv, NEW d \in Server, PipelineRequest(d), Waits(d, made + 1)
  PROVE  ClientInv'
<1>0. /\ Makes(d) /\ made + 1 \in Request
  BY PipelineMakes
<1>1. /\ Queues' /\ RequestQueue' \in [Server -> Seq(Request)]
      /\ target' \in Seq(Server) /\ Len(target') = made' /\ made' \in 0 .. MaxRequests
      /\ \A e \in Server \ {d} : RequestQueue'[e] = RequestQueue[e]
      /\ RequestQueue'[d] # <<>>
      /\ RequestQueue[d] # <<>> => Head(RequestQueue'[d]) = Head(RequestQueue[d])
  BY <1>0, QueuesMake
<1>2. /\ UNCHANGED <<DataTable, SOCK, flags, delays, backlogQueue, onWire, sock, user,
                     control, told>>
      /\ RequestQueue[d] # <<>>
  BY DEF PipelineRequest, Waits, HasTurn
<1> USE <1>2 DEF flags, delays, control
<1>3. \A e \in Server : /\ Pending(e)' <=> Pending(e)
                        /\ Pending(e) => Head(RequestQueue'[e]) = Head(RequestQueue[e])
  BY <1>1 DEF Pending
<1>4. ClientTypes'
  BY <1>1 DEF ClientInv, ClientTypes, WCTypeOK
<1>5. Placed'
  <2> SUFFICES ASSUME NEW e \in DataTable PROVE PlacedAt(e)'
    BY DEF Placed
  <2>1. PlacedAt(e) /\ e \in Server /\ SOCK[e] \in Pool \cup {NULL}
    BY DEF ClientInv, Placed, ClientTypes, WCTypeOK
  <2>2. Places(e)' = Places(e) /\ Sockets(e)' = Sockets(e) /\ (Aside(e)' <=> Aside(e))
    BY DEF Places, Sockets, Unused, Aside
  <2> QED BY <1>3, <2>1, <2>2, PlacedKept
<1>6. Used'
  BY <1>3 DEF ClientInv, ClientTypes, WCTypeOK, Used, UsedAt
<1>7. CalledBack'
  BY <1>3 DEF ClientInv, ClientTypes, WCTypeOK, CalledBack
<1> QED BY <1>1, <1>4, <1>5, <1>6, <1>7 DEF ClientInv

LEMMA GoesOutKeeps ==
  ASSUME ClientInv, NEW d \in Server, PipelineRequest(d), GoesOut(d, made + 1)
  PROVE  ClientInv'
<1>0. /\ Makes(d) /\ made + 1 \in Request
  BY PipelineMakes
<1>1. /\ Queues' /\ RequestQueue' \in [Server -> Seq(Request)]
      /\ target' \in Seq(Server) /\ Len(target') = made' /\ made' \in 0 .. MaxRequests
      /\ \A e \in Server \ {d} : RequestQueue'[e] = RequestQueue[e]
      /\ RequestQueue'[d] # <<>> /\ Head(RequestQueue'[d]) = made + 1
  BY <1>0, QueuesMake DEF GoesOut, HasTurn
<1>2. /\ UNCHANGED <<DataTable, SOCK, flags, sock, user, callback, current, dying, told>>
      /\ d \in DataTable /\ ~Pending(d)
      /\ idleTimer' \subseteq idleTimer /\ retryTimer' = retryTimer \ {d}
  BY DEF GoesOut, PipelineRequest, control, Pending, HasTurn
<1>3. /\ ~Waiting(d) /\ d \notin retryTimer /\ Places(d) = {}
      /\ SOCK[d] \in Pool \cup {NULL} /\ NULL \notin Pool
      /\ SOCK[d] = NULL => Sockets(d) = {} /\ Unconnected(d)
      /\ SOCK[d] # NULL => /\ sock[SOCK[d]] = "open" /\ user[SOCK[d]] = d
                           /\ Sockets(d) = {SOCK[d]} /\ ~Unconnected(d)
  BY <1>2, Agreed
<1>4. retryTimer' = retryTimer
  BY <1>2, <1>3
<1>5. /\ \A e \in Server \ {d} : Pending(e)' <=> Pending(e)
      /\ \A e \in Server : Sockets(e)' = Sockets(e) /\ (Aside(e)' <=> Aside(e))
      /\ Pending(d)'
  BY <1>1, <1>2 DEF Pending, Sockets, Unused, Aside
<1>6. /\ PlacedAt(d) /\ backlogQueue \in Seq(DataTable)
      /\ \A e \in DataTable : PlacedAt(e) /\ e \in Server /\ SOCK[e] \in Pool \cup {NULL}
  BY <1>2 DEF ClientInv, Placed, ClientTypes, WCTypeOK
<1>7. /\ \A e : e # d => Places(e)' = Places(e)
      /\ backlogQueue' \in Seq(DataTable)
      /\ NeedsConnection(d) => Places(d)' = {Len(backlogQueue) + 1}
      /\ ~NeedsConnection(d) => Places(d)' = {}
  <2>1. CASE NeedsConnection(d)
    BY <1>2, <1>3, <1>6, <2>1, BacklogAppended DEF GoesOut
  <2>2. CASE ~NeedsConnection(d)
    BY <1>3, <1>6, <2>2 DEF GoesOut, Places
  <2> QED BY <2>1, <2>2
<1>8. \/ NeedsConnection(d) /\ SOCK[d] = NULL /\ ~Aside(d) /\ onWire' = onWire
      \/ ~NeedsConnection(d) /\ SOCK[d] = NULL /\ Aside(d) /\ onWire' = onWire
      \/ /\ ~NeedsConnection(d) /\ SOCK[d] # NULL /\ ~Aside(d)
         /\ onWire' = onWire \/ onWire' = [onWire EXCEPT ![SOCK[d]] = Append(@, made + 1)]
  <2>1. ~Aside(d) \/ (callback = "closed" /\ current = d /\ DisconnectSent[d])
    BY <1>2 DEF Aside, ClientInv, CalledBack
  <2>2. DisconnectSent[d] => Aside(d) /\ SOCK[d] = NULL
    BY <1>6 DEF PlacedAt, Aside
  <2>3. Aside(d) => SOCK[d] = NULL
    BY <1>6 DEF PlacedAt
  <2> QED BY <1>3, <2>1, <2>2, <2>3 DEF GoesOut, NeedsConnection
<1>9. UNCHANGED <<SOCK, Closing, DisconnectSent, callback, current, sock, user, DataTable>>
  BY <1>2 DEF flags
<1>10. OnlyFor(d)
  <2>1. \A s \in Pool : user[s] # d => onWire'[s] = onWire[s]
    BY <1>3, <1>8 DEF ClientInv, ClientTypes, WCTypeOK
  <2> QED BY <1>1, <1>4, <1>7, <1>9, <2>1 DEF OnlyFor
<1>11. PlacedAt(d)'
  <2>1. Waiting(d)' <=> NeedsConnection(d)
    BY <1>3, <1>4, <1>7 DEF Waiting
  <2>2. Sockets(d)' = Sockets(d) /\ (Aside(d)' <=> Aside(d)) /\ Pending(d)'
    BY <1>5
  <2>3. Single(d)'
    <3>1. ~NeedsConnection(d) \/ Sockets(d) = {}
      BY <1>3, <1>8
    <3>2. \A s, t \in Sockets(d) : s = t
      BY <1>3
    <3> QED BY <1>3, <1>4, <1>7, <2>1, <2>2, <3>1, <3>2 DEF Single
  <2>4. Waiting(d)' \/ Sockets(d)' # {} \/ Aside(d)'
    BY <1>3, <1>8, <2>1, <2>2
  <2>5. Aside(d)' => ~Waiting(d)' /\ Sockets(d)' = {} /\ SOCK[d]' = NULL /\ ~Closing[d]'
    BY <1>3, <1>6, <1>8, <1>9, <2>1, <2>2 DEF PlacedAt
  <2>6. DisconnectSent'[d] => callback' = "closed" /\ current' = d
    BY <1>6, <1>9 DEF PlacedAt
  <2> QED BY <2>2, <2>3, <2>4, <2>5, <2>6 DEF PlacedAt
<1>12. onWire' = onWire \/ (/\ SOCK[d] # NULL /\ SOCK[d] \in Pool
                       /\ onWire' = [onWire EXCEPT ![SOCK[d]] = <<made + 1>>])
  <2>1. CASE SOCK[d] = NULL
    BY <1>8, <2>1
  <2>2. CASE SOCK[d] # NULL
    <3>1. onWire[SOCK[d]] = <<>> /\ SOCK[d] \in Pool
      BY <1>2, <1>3, <2>2 DEF ClientInv, Used, UsedAt
    <3>2. Append(<<>>, made + 1) = <<made + 1>>
      OBVIOUS
    <3> QED BY <1>8, <2>2, <3>1, <3>2
  <2> QED BY <2>1, <2>2
<1>13. onWire' \in [Pool -> Seq(Request)]
  <2>1. <<made + 1>> \in Seq(Request) /\ onWire \in [Pool -> Seq(Request)]
    BY <1>0 DEF ClientInv, ClientTypes, WCTypeOK
  <2> QED BY <1>12, <2>1
<1>14. ClientTypes'
  BY <1>1, <1>2, <1>4, <1>7, <1>13 DEF ClientInv, ClientTypes, WCTypeOK, flags
<1>15. ASSUME NEW s \in Pool, user[s] = d
       PROVE  UsedAt(s)'
  <2>1. UsedAt(s) /\ Pending(d)' /\ ~(callback = "answer" /\ current = d)
    BY <1>2, <1>5 DEF ClientInv, Used, CalledBack
  <2>2. onWire[s] = <<>>
    BY <1>2, <1>15, <2>1 DEF UsedAt
  <2>3. onWire'[s] # <<>> => sock[s] = "open" /\ onWire'[s] = <<Head(RequestQueue'[d])>>
    <3>1. onWire'[s] # <<>> => s = SOCK[d] /\ onWire'[s] = <<made + 1>>
      BY <1>12, <2>2 DEF ClientInv, ClientTypes, WCTypeOK
    <3> QED BY <1>1, <1>3, <1>12, <3>1
  <2> QED BY <1>9, <1>15, <2>1, <2>3 DEF UsedAt
<1>16. CalledBack'
  BY <1>5, <1>9 DEF ClientInv, CalledBack, ClientTypes, WCTypeOK
<1> QED BY <1>1, <1>10, <1>11, <1>14, <1>15, <1>16, StepFor

LEMMA RequestKeeps ==
  ASSUME ClientInv, NEW d \in Server, PipelineRequest(d)
  PROVE  ClientInv'
BY NewServerKeeps, WaitsKeeps, GoesOutKeeps DEF PipelineRequest
-----------------------------------------------------------------------------
(* Connecting *)

LEMMA ConnectedKeeps ==
  ASSUME ClientInv, NEW s \in Pool, Connected(s)
  PROVE  ClientInv'
<1>0. PICK d : d = user[s]
  OBVIOUS
<1>1. /\ callback = "none" /\ sock[s] = "connecting"
      /\ sock' = [sock EXCEPT ![s] = "open"]
      /\ SOCK' = [SOCK EXCEPT ![d] = s]
      /\ InitialRequestAnswered' = [InitialRequestAnswered EXCEPT ![d] = FALSE]
      /\ DisconnectSent' = [DisconnectSent EXCEPT ![d] = FALSE]
      /\ ExponentialBackoff' = [ExponentialBackoff EXCEPT ![d] = 1]
      /\ UNCHANGED <<DataTable, RequestQueue, PipelineFlag, Closing, FinHeader, WaitForClose,
                     retryTimer, idleTimer, backlogQueue, user, callback, current, dying,
                     made, target, told>>
  BY <1>0 DEF Connected, Claim, delays, control, calls
<1>2. /\ d \in DataTable /\ d \in Server /\ ~Closing[d] /\ PlacedAt(d) /\ UsedAt(s)
      /\ Sockets(d) = {s} /\ ~Waiting(d) /\ d \notin retryTimer /\ ~Aside(d)
      /\ \A t \in Pool : user[t] = d /\ t # s => sock[t] = "free" /\ onWire[t] = <<>>
  BY <1>0, <1>1, Busy
<1>3. Pending(d) /\ Head(RequestQueue[d]) \in Request
  <2>1. Pending(d) /\ RequestQueue[d] \in Seq(Request)
    BY <1>0, <1>1, <1>2 DEF UsedAt, ClientInv, ClientTypes, WCTypeOK
  <2> QED BY <2>1, Tailed DEF Pending
<1>4. onWire' = [onWire EXCEPT ![s] = <<Head(RequestQueue[d])>>]
  BY <1>0, <1>3 DEF Connected, Pending
<1>5. OnlyFor(d)
  BY <1>0, <1>1, <1>2, <1>4 DEF OnlyFor, ClientInv, ClientTypes, WCTypeOK, Places
<1>6. ClientTypes'
  <2>1. 1 \in Backoffs /\ 1 \in 0 .. 2 ^ RETRY_COUNT
    BY Bounded
  <2>2. <<Head(RequestQueue[d])>> \in Seq(Request)
    BY <1>3
  <2>3. WCTypeOK'
    BY <1>1, <1>2, <1>4, <2>1, <2>2 DEF ClientInv, ClientTypes, WCTypeOK
  <2>4. \A e \in Server : ExponentialBackoff'[e] \in Backoffs
    BY <1>1, <2>1 DEF ClientInv, ClientTypes, WCTypeOK
  <2>5. \A e \in retryTimer : ExponentialBackoff'[e] = ExponentialBackoff[e]
    BY <1>1, <1>2 DEF ClientInv, ClientTypes, WCTypeOK
  <2> QED BY <1>1, <2>3, <2>4, <2>5 DEF ClientInv, ClientTypes, Backoffs
<1>7. Queues'
  <2>1. \A r \in told : ~(Pending(d) /\ r = Head(RequestQueue[d]))
    BY <1>1, <1>2, FirstOf
  <2> QED BY <1>1, <1>2, <1>5, <2>1, QueuesStay
<1>8. PlacedAt(d)'
  <2>1. Sockets(d)' = Sockets(d)
    BY <1>1 DEF Sockets, Unused, ClientInv, ClientTypes, WCTypeOK
  <2>2. Places(d)' = Places(d) /\ (Waiting(d)' <=> Waiting(d)) /\ Pending(d)' /\ ~Aside(d)'
    BY <1>1, <1>2, <1>3 DEF Places, Waiting, Pending, Aside
  <2>3. Single(d)'
    BY <1>1, <1>2, <2>1, <2>2 DEF PlacedAt, Single
  <2>4. ~DisconnectSent'[d]
    BY <1>1, <1>2 DEF ClientInv, ClientTypes, WCTypeOK
  <2> QED BY <1>2, <2>1, <2>2, <2>3, <2>4 DEF PlacedAt
<1>9. ASSUME NEW t \in Pool, user[t] = d
      PROVE  UsedAt(t)'
  <2>1. CASE t = s
    BY <1>0, <1>1, <1>2, <1>3, <1>4, <2>1 DEF UsedAt, ClientInv, ClientTypes, WCTypeOK, Pending
  <2>2. CASE t # s
    <3>1. sock'[t] = "free" /\ onWire'[t] = <<>>
      BY <1>1, <1>2, <1>4, <1>9, <2>2 DEF ClientInv, ClientTypes, WCTypeOK
    <3> QED BY <3>1 DEF UsedAt
  <2> QED BY <2>1, <2>2
<1>10. CalledBack'
  BY <1>1 DEF CalledBack
<1> QED BY <1>1, <1>5, <1>6, <1>7, <1>8, <1>9, <1>10, StepFor

LEMMA ConnectFailsKeeps ==
  ASSUME ClientInv, NEW s \in Pool, ConnectFails(s)
  PROVE  ClientInv'
<1>0. PICK d : d = user[s]
  OBVIOUS
<1>1. /\ callback = "none" /\ sock[s] = "connecting"
      /\ sock' = [sock EXCEPT ![s] = "free"]
      /\ SOCK' = [SOCK EXCEPT ![d] = s]
      /\ InitialRequestAnswered' = [InitialRequestAnswered EXCEPT ![d] = FALSE]
      /\ DisconnectSent' = [DisconnectSent EXCEPT ![d] = FALSE]
      /\ PipelineFlag' = [PipelineFlag EXCEPT ![d] = "unknown"]
      /\ UNCHANGED <<Closing, FinHeader, WaitForClose, ExponentialBackoff, backlogQueue,
                     user, onWire, current, made, target, told>>
  BY <1>0 DEF ConnectFails, Claim, calls
<1>2. /\ d \in DataTable /\ d \in Server /\ ~Closing[d] /\ PlacedAt(d) /\ UsedAt(s)
      /\ Sockets(d) = {s} /\ ~Waiting(d) /\ d \notin retryTimer /\ Places(d) = {} /\ ~Aside(d)
      /\ \A t \in Pool : user[t] = d /\ t # s => sock[t] = "free" /\ onWire[t] = <<>>
  BY <1>0, <1>1, Busy
<1>3. Pending(d) /\ dying = <<>> /\ onWire[s] = <<>>
  BY <1>0, <1>1, <1>2 DEF UsedAt, ClientInv, Queues
<1>4. /\ \A e : Places(e)' = Places(e)
      /\ \A e \in Server \ {d} : SOCK'[e] = SOCK[e] /\ DisconnectSent'[e] = DisconnectSent[e]
      /\ \A t \in Pool : user[t] # d => sock'[t] = sock[t]
      /\ ~DisconnectSent'[d] /\ sock'[s] = "free"
  BY <1>0, <1>1, <1>2 DEF Places, ClientInv, ClientTypes, WCTypeOK
<1>5. ASSUME NEW t \in Pool, user[t] = d
      PROVE  UsedAt(t)'
  <2>1. sock'[t] = "free" /\ onWire'[t] = <<>>
    BY <1>1, <1>2, <1>3, <1>5 DEF ClientInv, ClientTypes, WCTypeOK
  <2> QED BY <2>1 DEF UsedAt
<1>6. Sockets(d)' = {}
  <2>1. \A t \in Pool : user[t] = d => sock'[t] = "free"
    BY <1>2, <1>4, <1>1 DEF ClientInv, ClientTypes, WCTypeOK
  <2> QED BY <1>1, <2>1 DEF Sockets, Unused
<1>7. /\ SOCK' \in [Server -> Pool \cup {NULL}]
      /\ InitialRequestAnswered' \in [Server -> BOOLEAN]
      /\ DisconnectSent' \in [Server -> BOOLEAN]
      /\ PipelineFlag' \in [Server -> {"unknown", "yes", "no"}]
      /\ sock' \in [Pool -> {"free", "connecting", "open"}]
  BY <1>1, <1>2 DEF ClientInv, ClientTypes, WCTypeOK
<1>8. CASE GivesUp(ExponentialBackoff[d])
  <2>1. /\ DataTable' = DataTable \ {d}
        /\ dying' = RequestQueue[d]
        /\ RequestQueue' = [RequestQueue EXCEPT ![d] = <<>>]
        /\ callback' = "destroy"
        /\ idleTimer' = idleTimer \ {d} /\ retryTimer' = retryTimer \ {d}
    BY <1>0, <1>3, <1>8 DEF ConnectFails, Pending
  <2>2. OnlyFor(d)
    BY <1>1, <1>2, <1>4, <2>1 DEF OnlyFor, ClientInv, ClientTypes, WCTypeOK
  <2>3. backlogQueue \in Seq(DataTable \ {d})
    <3>1. backlogQueue \in Seq(DataTable) /\ DOMAIN backlogQueue = 1 .. Len(backlogQueue)
          /\ Len(backlogQueue) \in Nat
      BY LenProperties DEF ClientInv, ClientTypes, WCTypeOK
    <3>2. \A i \in 1 .. Len(backlogQueue) : backlogQueue[i] \in DataTable \ {d}
      BY <1>2, <3>1, ElementOfSeq DEF Places
    <3>3. backlogQueue = [i \in 1 .. Len(backlogQueue) |-> backlogQueue[i]]
      BY <3>1
    <3> QED BY <3>1, <3>2, <3>3, SeqDef
  <2>4. RequestQueue' \in [Server -> Seq(Request)] /\ RequestQueue'[d] = <<>>
        /\ RequestQueue[d] \in Seq(Request)
    <3>1. <<>> \in Seq(Request)
      OBVIOUS
    <3> QED BY <1>2, <2>1, <3>1 DEF ClientInv, ClientTypes, WCTypeOK
  <2>5. ClientTypes'
    BY <1>1, <1>7, <2>1, <2>3, <2>4 DEF ClientInv, ClientTypes, WCTypeOK, Backoffs
  <2>6. Queues'
    <3>1. Len(RequestQueue[d]) \in Nat /\ Len(RequestQueue'[d]) = 0
      BY <2>4, LenProperties
    <3> DEFINE k == Len(RequestQueue[d])
    <3>2. k \in Nat /\ Len(RequestQueue'[d]) = Len(RequestQueue[d]) - k /\ k # 0
          /\ \A i \in 1 .. Len(RequestQueue'[d]) : RequestQueue'[d][i] = RequestQueue[d][i + k]
      BY <1>3, <2>4, <3>1, EmptySeq DEF Pending
    <3>3. dying' # <<>> /\ ~Pending(d)'
      BY <1>3, <2>1, <2>4 DEF Pending
    <3> HIDE DEF k
    <3>4. dying' = dying \/ (dying' = RequestQueue[d] /\ k = Len(RequestQueue[d]))
      BY <2>1 DEF k
    <3> QED BY <1>1, <1>2, <2>1, <2>2, <2>4, <3>2, <3>3, <3>4, QueuesAdvance
  <2>7. CalledBack' /\ d \notin DataTable'
    BY <2>1 DEF CalledBack
  <2> QED BY <1>1, <1>5, <2>2, <2>5, <2>6, <2>7, StepFor
<1>9. CASE ~GivesUp(ExponentialBackoff[d])
  <2>1. /\ retryTimer' = retryTimer \cup {d}
        /\ UNCHANGED <<DataTable, dying, RequestQueue, callback, idleTimer>>
    BY <1>0, <1>9 DEF ConnectFails
  <2>2. OnlyFor(d)
    BY <1>1, <1>2, <1>4, <2>1 DEF OnlyFor, ClientInv, ClientTypes, WCTypeOK
  <2>3. ClientTypes'
    <3>1. WCTypeOK'
      BY <1>1, <1>2, <1>7, <2>1 DEF ClientInv, ClientTypes, WCTypeOK
    <3> QED BY <1>1, <1>9, <2>1, <3>1 DEF ClientInv, ClientTypes, Backoffs, GivesUp
  <2>4. Queues'
    <3>1. \A r \in told : ~(Pending(d) /\ r = Head(RequestQueue[d]))
      BY <1>1, <1>2, FirstOf
    <3> QED BY <1>1, <1>2, <2>1, <2>2, <3>1, QueuesStay
  <2>5. PlacedAt(d)'
    <3>1. Places(d)' = {} /\ d \in retryTimer' /\ Pending(d)' /\ ~Aside(d)'
      BY <1>1, <1>2, <1>3, <1>4, <2>1 DEF Pending, Aside
    <3>2. Waiting(d)' /\ Single(d)'
      BY <1>6, <3>1 DEF Waiting, Single
    <3> QED BY <1>4, <1>6, <3>1, <3>2 DEF PlacedAt
  <2>6. CalledBack'
    BY <1>1, <2>1 DEF CalledBack
  <2> QED BY <1>1, <1>5, <2>2, <2>3, <2>4, <2>5, <2>6, StepFor
<1> QED BY <1>8, <1>9

LEMMA DestroyRequestKeeps ==
  ASSUME ClientInv, DestroyRequest
  PROVE  ClientInv'
<1>1. /\ callback = "destroy" /\ told' = told \cup {Head(dying)} /\ dying' = Tail(dying)
      /\ callback' = IF Len(dying) = 1 THEN "none" ELSE "destroy"
      /\ UNCHANGED <<DataTable, RequestQueue, SOCK, flags, delays, backlogQueue, sock, user, onWire,
                     current, made, target>>
  BY DEF DestroyRequest, pool, calls
<1> USE DEF flags, delays
<1>2. dying \in Seq(Request) /\ dying # <<>>
  BY <1>1 DEF ClientInv, ClientTypes, WCTypeOK, Queues
<1>3. /\ Head(dying) \in Request /\ Head(dying) = dying[1] /\ 1 \in DOMAIN dying
      /\ Tail(dying) \in Seq(Request) /\ Len(dying) \in Nat \ {0} /\ DOMAIN dying = 1 .. Len(dying)
      /\ DOMAIN Tail(dying) = 1 .. Len(dying) - 1
      /\ \A i \in 1 .. Len(dying) - 1 : Tail(dying)[i] = dying[i + 1]
      /\ Tail(dying) = <<>> <=> Len(dying) = 1
  BY <1>2, Tailed
<1>4. OnlyFor(NoServer)
  <2>1. callback' \in {"none", "destroy"}
    BY <1>1
  <2>2. \A e : Places(e)' = Places(e)
    BY <1>1 DEF Places
  <2> QED BY <1>1, <2>1, <2>2 DEF OnlyFor
<1>5. ClientTypes'
  BY <1>1, <1>3 DEF ClientInv, ClientTypes, WCTypeOK, Backoffs
<1>6. Queues'
  <2>1. \A j \in DOMAIN dying' : j + 1 \in DOMAIN dying /\ dying'[j] = dying[j + 1]
    BY <1>1, <1>3
  <2>2. (callback' = "destroy") <=> (dying' # <<>>)
    BY <1>1, <1>3
  <2>3. \A d \in Server : \A i \in DOMAIN RequestQueue[d] :
          /\ RequestQueue[d][i] \notin told /\ RequestQueue[d][i] # Head(dying)
          /\ \A j \in DOMAIN dying' : RequestQueue[d][i] # dying'[j]
    <3> SUFFICES ASSUME NEW d \in Server, NEW i \in DOMAIN RequestQueue[d]
                 PROVE  /\ RequestQueue[d][i] \notin told /\ RequestQueue[d][i] # Head(dying)
                        /\ \A j \in DOMAIN dying' : RequestQueue[d][i] # dying'[j]
      OBVIOUS
    <3>1. /\ RequestQueue[d][i] \notin told
          /\ \A j \in DOMAIN dying : RequestQueue[d][i] # dying[j]
      BY <1>1 DEF ClientInv, Queues
    <3> QED BY <1>3, <2>1, <3>1
  <2>4. /\ told' \subseteq 1 .. made'
        /\ \A j \in DOMAIN dying' : dying'[j] \in 1 .. made'
    <3>1. told \subseteq 1 .. made /\ \A j \in DOMAIN dying : dying[j] \in 1 .. made
      BY DEF ClientInv, Queues
    <3> QED BY <1>1, <1>3, <2>1, <3>1
  <2>5. \A d \in Server : Pending(d)' => d \in DataTable'
    BY <1>1 DEF ClientInv, Queues, Pending
  <2>6. \A d \in Server : \A i \in DOMAIN RequestQueue'[d] : RequestQueue'[d][i] \notin told'
    BY <1>1, <2>3
  <2>7. ClientInv => Queues
    BY DEF ClientInv
  <2> QED BY <1>1, <2>2, <2>3, <2>4, <2>5, <2>6, <2>7 DEF Queues
<1>7. CalledBack'
  BY <1>1 DEF CalledBack
<1>8. NoServer \notin DataTable'
  BY <1>5, WebClientAssumption DEF ClientTypes, WCTypeOK
<1>9. ASSUME NEW s \in Pool, user[s] = NoServer
      PROVE  UsedAt(s)'
  <2>1. UsedAt(s) /\ user[s] \notin DataTable
    BY <1>1, <1>8, <1>9 DEF ClientInv, Used
  <2> QED BY <1>1, <2>1 DEF UsedAt
<1> QED BY <1>4, <1>5, <1>6, <1>7, <1>8, <1>9, StepFor

LEMMA RetrySinkKeeps ==
  ASSUME ClientInv, NEW d \in Server, RetrySink(d)
  PROVE  ClientInv'
<1>1. /\ callback = "none" /\ d \in retryTimer /\ retryTimer' = retryTimer \ {d}
      /\ ExponentialBackoff' = [ExponentialBackoff EXCEPT ![d] = NextBackoff(ExponentialBackoff[d])]
      /\ UNCHANGED <<DataTable, RequestQueue, SOCK, PipelineFlag, Closing, DisconnectSent,
                     FinHeader, WaitForClose, InitialRequestAnswered, idleTimer, sock, user, onWire,
                     callback, current, dying, made, target, told>>
  BY DEF RetrySink, pool, control, calls
<1>2. d \in DataTable /\ PlacedAt(d)
  BY <1>1 DEF ClientInv, ClientTypes, WCTypeOK, Placed
<1>3. /\ Waiting(d) /\ Pending(d) /\ ~Aside(d) /\ Sockets(d) = {} /\ Places(d) = {}
      /\ Single(d) /\ ~DisconnectSent[d]
  BY <1>1, <1>2 DEF PlacedAt, Single, Waiting
<1>4. /\ NextBackoff(ExponentialBackoff[d]) \in Backoffs
      /\ NextBackoff(ExponentialBackoff[d]) \in 0 .. 2 ^ RETRY_COUNT
      /\ NextBackoff(ExponentialBackoff[d]) > 0
  <2>1. ExponentialBackoff[d] \in Backoffs /\ ~GivesUp(ExponentialBackoff[d])
    BY <1>1 DEF ClientInv, ClientTypes
  <2>2. ExponentialBackoff[d] \in Nat
    <3>1. ExponentialBackoff[d] \in 0 .. 2 ^ RETRY_COUNT /\ 2 ^ RETRY_COUNT \in Nat
      BY WebClientAssumption, PowerOfTwo DEF ClientInv, ClientTypes, WCTypeOK
    <3> QED BY <3>1
  <2>3. NextBackoff(ExponentialBackoff[d]) > 0
    BY <2>2 DEF NextBackoff
  <2> QED BY <2>1, <2>3, Bounded
<1>5. backlogQueue' = Append(backlogQueue, d)
  BY <1>4 DEF RetrySink
<1>6. /\ \A e : e # d => Places(e)' = Places(e)
      /\ Places(d)' = {Len(backlogQueue) + 1}
      /\ backlogQueue' \in Seq(DataTable)
  BY <1>2, <1>3, <1>5, BacklogAppended DEF ClientInv, ClientTypes, WCTypeOK
<1>7. OnlyFor(d)
  BY <1>1, <1>6 DEF OnlyFor
<1>8. ClientTypes'
  <2>1. WCTypeOK'
    BY <1>1, <1>4, <1>6 DEF ClientInv, ClientTypes, WCTypeOK
  <2>2. \A e \in Server : ExponentialBackoff'[e] \in Backoffs
    BY <1>1, <1>4 DEF ClientInv, ClientTypes, WCTypeOK
  <2>3. \A e \in retryTimer' : ExponentialBackoff'[e] = ExponentialBackoff[e]
    BY <1>1 DEF ClientInv, ClientTypes, WCTypeOK
  <2> QED BY <1>1, <2>1, <2>2, <2>3 DEF ClientInv, ClientTypes, Backoffs, GivesUp
<1>9. Queues'
  <2>1. \A r \in told : ~(Pending(d) /\ r = Head(RequestQueue[d]))
    BY <1>1, FirstOf
  <2> QED BY <1>1, <1>7, <2>1, QueuesStay
<1>10. PlacedAt(d)'
  <2>1. /\ Places(d)' = {Len(backlogQueue) + 1} /\ d \notin retryTimer' /\ Pending(d)'
        /\ ~Aside(d)' /\ Sockets(d)' = {} /\ ~DisconnectSent'[d]
    BY <1>1, <1>3, <1>6 DEF Pending, Aside, Sockets, Unused
  <2>2. Waiting(d)' /\ Single(d)'
    BY <2>1 DEF Waiting, Single
  <2> QED BY <2>1, <2>2 DEF PlacedAt
<1>11. ASSUME NEW s \in Pool, user[s] = d
       PROVE  UsedAt(s)'
  <2>1. UsedAt(s)
    BY DEF ClientInv, Used
  <2> QED BY <1>1, <2>1 DEF UsedAt, Pending
<1>12. CalledBack'
  BY <1>1 DEF CalledBack
<1> QED BY <1>7, <1>8, <1>9, <1>10, <1>11, <1>12, StepFor
-----------------------------------------------------------------------------
(* Answers *)

LEMMA BodyFollowsKeeps ==
  ASSUME ClientInv, NEW s \in Pool, BodyFollows(s)
  PROVE  ClientInv'
<1>0. PICK d : d = user[s]
  OBVIOUS
<1>1. /\ FinHeader' = [FinHeader EXCEPT ![d] = TRUE]
      /\ \E untilClose \in BOOLEAN : WaitForClose' = [WaitForClose EXCEPT ![d] = untilClose]
      /\ UNCHANGED <<DataTable, RequestQueue, SOCK, PipelineFlag, Closing, DisconnectSent,
                     InitialRequestAnswered, ExponentialBackoff, retryTimer, idleTimer,
                     backlogQueue, sock, user, onWire, callback, current, dying, made, target, told>>
  BY <1>0 DEF BodyFollows, delays, pool, control, calls
<1>2. ClientTypes'
  <2>1. /\ FinHeader' \in [Server -> BOOLEAN] /\ WaitForClose' \in [Server -> BOOLEAN]
    BY <1>1 DEF ClientInv, ClientTypes, WCTypeOK
  <2> QED BY <1>1, <2>1 DEF ClientInv, ClientTypes, WCTypeOK
<1> QED BY <1>1, <1>2, NothingSeen

LEMMA ResponseDoneKeeps ==
  ASSUME ClientInv, NEW s \in Pool, ResponseDone(s)
  PROVE  ClientInv'
<1>0. PICK d : d = user[s]
  OBVIOUS
<1>1. /\ callback = "none" /\ sock[s] = "open" /\ onWire[s] # <<>> /\ Pending(d)
      /\ told' = told \cup {Head(RequestQueue[d])}
      /\ onWire' = [onWire EXCEPT ![s] = Tail(onWire[s])]
      /\ FinHeader' = [FinHeader EXCEPT ![d] = TRUE]
      /\ WaitForClose' = [WaitForClose EXCEPT ![d] = FALSE]
      /\ callback' = "answer" /\ current' = d
      /\ UNCHANGED <<DataTable, RequestQueue, SOCK, PipelineFlag, Closing, DisconnectSent,
                     InitialRequestAnswered, ExponentialBackoff, retryTimer, idleTimer,
                     backlogQueue, sock, user, dying, made, target>>
  BY <1>0 DEF ResponseDone, OnData, delays, calls, Pending
<1>2. /\ d \in DataTable /\ d \in Server /\ PlacedAt(d) /\ UsedAt(s)
      /\ \A t \in Pool : user[t] = d /\ t # s => sock[t] = "free" /\ onWire[t] = <<>>
      /\ Head(RequestQueue[d]) \in Request
  BY <1>0, <1>1, Busy, FirstOf
<1>3. onWire'[s] = <<>> /\ onWire' = [onWire EXCEPT ![s] = <<>>]
  <2>1. onWire[s] = <<Head(RequestQueue[d])>>
    BY <1>0, <1>1, <1>2 DEF UsedAt
  <2>2. Tail(<<Head(RequestQueue[d])>>) = <<>>
    OBVIOUS
  <2> QED BY <1>1, <2>1, <2>2 DEF ClientInv, ClientTypes, WCTypeOK
<1>4. OnlyFor(d)
  BY <1>0, <1>1, <1>3 DEF OnlyFor, Places, ClientInv, ClientTypes, WCTypeOK
<1>5. ClientTypes'
  <2>1. <<>> \in Seq(Request)
    OBVIOUS
  <2>2. WCTypeOK'
    BY <1>1, <1>2, <1>3, <2>1 DEF ClientInv, ClientTypes, WCTypeOK
  <2> QED BY <1>1, <2>2 DEF ClientInv, ClientTypes, Backoffs
<1>6. Queues'
  BY <1>1, <1>2, <1>4, QueuesStay
<1>7. PlacedAt(d)'
  <2>1. /\ SOCK[d] \in Pool \cup {NULL} /\ Places(d)' = Places(d) /\ Sockets(d)' = Sockets(d)
        /\ (Pending(d)' <=> Pending(d)) /\ (Aside(d)' <=> Aside(d))
    BY <1>1, <1>2 DEF ClientInv, ClientTypes, WCTypeOK, Places, Sockets, Unused, Pending, Aside
  <2> QED BY <1>1, <1>2, <2>1, PlacedKept
<1>8. ASSUME NEW t \in Pool, user[t] = d
      PROVE  UsedAt(t)'
  <2>1. onWire'[t] = <<>> /\ UsedAt(t)
    BY <1>2, <1>3, <1>8 DEF ClientInv, Used, ClientTypes, WCTypeOK
  <2> QED BY <1>1, <2>1 DEF UsedAt, Pending
<1>9. CalledBack'
  <2>1. SOCK[d] = s
    BY <1>0, <1>1, <1>2 DEF UsedAt
  <2> QED BY <1>0, <1>1, <1>2, <2>1 DEF CalledBack, Pending
<1> QED BY <1>2, <1>4, <1>5, <1>6, <1>7, <1>8, <1>9, StepFor

LEMMA FinishedResponseKeeps ==
  ASSUME ClientInv, FinishedResponse
  PROVE  ClientInv'
<1>0. PICK d, s, q, closes :
        /\ d = current /\ s = SOCK[d] /\ q = Tail(RequestQueue[d])
        /\ closes = (PipelineFlag[d] = "no")
  OBVIOUS
<1>1. /\ callback = "answer" /\ callback' = "none"
      /\ DisconnectSent' = [DisconnectSent EXCEPT ![d] = FALSE]
      /\ FinHeader' = [FinHeader EXCEPT ![d] = FALSE]
      /\ WaitForClose' = [WaitForClose EXCEPT ![d] = FALSE]
      /\ InitialRequestAnswered' = [InitialRequestAnswered EXCEPT ![d] = TRUE]
      /\ RequestQueue' = [RequestQueue EXCEPT ![d] = q]
      /\ idleTimer' = (IF q = <<>> THEN idleTimer \cup {d} ELSE idleTimer \ {d})
      /\ retryTimer' = retryTimer \ {d}
      /\ PipelineFlag' = PipelineFlag \/ PipelineFlag' = [PipelineFlag EXCEPT ![d] = "yes"]
      /\ UNCHANGED <<DataTable, Closing, ExponentialBackoff, user, current, dying,
                     made, target, told>>
  BY <1>0 DEF FinishedResponse, ResetWCDO, Dequeued, calls
<1>2. /\ sock' = (IF closes THEN [sock EXCEPT ![s] = "free"] ELSE sock)
      /\ SOCK' = (IF closes THEN [SOCK EXCEPT ![d] = NULL] ELSE SOCK)
      /\ onWire' = [onWire EXCEPT ![s] = IF closes THEN <<>>
                                     ELSE IF q # <<>> THEN Append(onWire[s], Head(q)) ELSE onWire[s]]
      /\ backlogQueue' = (IF closes /\ q # <<>> /\ ~Closing[d] THEN Append(backlogQueue, d)
                          ELSE backlogQueue)
  BY <1>0 DEF FinishedResponse, Dequeued
<1>3. d \in DataTable /\ Pending(d) /\ s \in Pool /\ sock[s] = "open" /\ user[s] = d
  BY <1>0, <1>1 DEF ClientInv, CalledBack
<1>4. /\ d \in Server /\ ~Closing[d] /\ PlacedAt(d) /\ UsedAt(s) /\ Sockets(d) = {s} /\ ~Waiting(d)
      /\ d \notin retryTimer /\ Places(d) = {} /\ ~Aside(d)
      /\ \A t \in Pool : user[t] = d /\ t # s => sock[t] = "free" /\ onWire[t] = <<>>
  BY <1>3, Busy
<1>5. onWire[s] = <<>> /\ SOCK[d] = s
  BY <1>0, <1>1, <1>3, <1>4 DEF UsedAt
<1>6. /\ RequestQueue[d] \in Seq(Request) /\ q \in Seq(Request) /\ Len(q) = Len(RequestQueue[d]) - 1
      /\ \A i \in 1 .. Len(q) : q[i] = RequestQueue[d][i + 1]
      /\ q # <<>> => <<Head(q)>> \in Seq(Request)
  <2>1. /\ RequestQueue[d] \in Seq(Request) /\ q \in Seq(Request) /\ Len(q) = Len(RequestQueue[d]) - 1
        /\ \A i \in 1 .. Len(q) : q[i] = RequestQueue[d][i + 1]
    BY <1>0, <1>3, <1>4, FirstOf
  <2> QED BY <2>1, Tailed
<1>7. onWire' = [onWire EXCEPT ![s] = IF closes \/ q = <<>> THEN <<>> ELSE <<Head(q)>>]
  <2>1. Append(<<>>, Head(q)) = <<Head(q)>>
    OBVIOUS
  <2> QED BY <1>2, <1>5, <2>1
<1>8. /\ RequestQueue' \in [Server -> Seq(Request)] /\ RequestQueue'[d] = q
      /\ onWire' \in [Pool -> Seq(Request)]
      /\ onWire'[s] = IF closes \/ q = <<>> THEN <<>> ELSE <<Head(q)>>
      /\ \A t \in Pool : t # s => onWire'[t] = onWire[t] /\ sock'[t] = sock[t]
      /\ closes => sock'[s] = "free" /\ SOCK'[d] = NULL
      /\ ~closes => sock' = sock /\ SOCK' = SOCK
      /\ sock' \in [Pool -> {"free", "connecting", "open"}]
      /\ SOCK' \in [Server -> Pool \cup {NULL}]
  <2>1. <<>> \in Seq(Request)
    OBVIOUS
  <2>2. RequestQueue' \in [Server -> Seq(Request)] /\ RequestQueue'[d] = q
    BY <1>1, <1>4, <1>6 DEF ClientInv, ClientTypes, WCTypeOK
  <2>3. /\ onWire' \in [Pool -> Seq(Request)]
        /\ onWire'[s] = IF closes \/ q = <<>> THEN <<>> ELSE <<Head(q)>>
        /\ \A t \in Pool : t # s => onWire'[t] = onWire[t]
    BY <1>3, <1>6, <1>7, <2>1 DEF ClientInv, ClientTypes, WCTypeOK
  <2> QED BY <1>2, <1>3, <1>4, <2>2, <2>3 DEF ClientInv, ClientTypes, WCTypeOK
<1>9. /\ \A e : e # d => Places(e)' = Places(e)
      /\ Places(d)' = IF closes /\ q # <<>> THEN {Len(backlogQueue) + 1} ELSE {}
      /\ backlogQueue' \in Seq(DataTable)
  <2>1. backlogQueue \in Seq(DataTable)
    BY DEF ClientInv, ClientTypes, WCTypeOK
  <2>2. CASE closes /\ q # <<>>
    BY <1>2, <1>3, <1>4, <2>1, <2>2, BacklogAppended
  <2>3. CASE ~(closes /\ q # <<>>)
    BY <1>2, <1>4, <2>1, <2>3 DEF Places
  <2> QED BY <2>2, <2>3
<1>10. OnlyFor(d)
  <2>1. \A e \in Server \ {d} :
          /\ RequestQueue'[e] = RequestQueue[e] /\ SOCK'[e] = SOCK[e]
          /\ DisconnectSent'[e] = DisconnectSent[e]
    BY <1>1, <1>2 DEF ClientInv, ClientTypes, WCTypeOK
  <2> QED BY <1>0, <1>1, <1>3, <1>8, <1>9, <2>1 DEF OnlyFor
<1>11. ClientTypes'
  <2>1. /\ DisconnectSent' \in [Server -> BOOLEAN] /\ FinHeader' \in [Server -> BOOLEAN]
        /\ WaitForClose' \in [Server -> BOOLEAN] /\ InitialRequestAnswered' \in [Server -> BOOLEAN]
    BY <1>1 DEF ClientInv, ClientTypes, WCTypeOK
  <2>2. PipelineFlag' \in [Server -> {"unknown", "yes", "no"}]
    BY <1>1 DEF ClientInv, ClientTypes, WCTypeOK
  <2>3. idleTimer' \subseteq DataTable /\ retryTimer' = retryTimer
    BY <1>1, <1>3, <1>4 DEF ClientInv, ClientTypes, WCTypeOK
  <2>4. WCTypeOK'
    BY <1>1, <1>8, <1>9, <2>1, <2>2, <2>3 DEF ClientInv, ClientTypes, WCTypeOK
  <2> QED BY <1>1, <2>3, <2>4 DEF ClientInv, ClientTypes, Backoffs
<1>12. Queues'
  <2>1. 1 \in Nat /\ 1 # 0
    OBVIOUS
  <2>2. (callback' = "destroy") <=> (dying' # <<>>)
    BY <1>1 DEF ClientInv, Queues
  <2> QED BY <1>1, <1>3, <1>4, <1>6, <1>8, <1>10, <2>1, <2>2, QueuesAdvance
<1>13. ASSUME NEW t \in Pool, user[t] = d
       PROVE  UsedAt(t)'
  <2>1. CASE t = s
    <3>1. CASE closes
      BY <1>8, <2>1, <3>1 DEF UsedAt
    <3>2. CASE ~closes
      <4>1. sock'[s] = "open" /\ SOCK'[d] = s /\ user'[s] = d /\ d \in DataTable' /\ ~Closing'[d]
        BY <1>1, <1>3, <1>4, <1>5, <1>8, <3>2
      <4>2. onWire'[s] # <<>> => q # <<>> /\ onWire'[s] = <<Head(q)>>
        BY <1>8, <3>2
      <4> QED BY <1>1, <1>8, <2>1, <4>1, <4>2 DEF UsedAt, Pending
    <3> QED BY <3>1, <3>2
  <2>2. CASE t # s
    <3>1. sock'[t] = "free" /\ onWire'[t] = <<>>
      BY <1>4, <1>8, <1>13, <2>2
    <3> QED BY <3>1 DEF UsedAt
  <2> QED BY <2>1, <2>2
<1>14. PlacedAt(d)'
  <2>1. Sockets(d)' = IF closes THEN {} ELSE {s}
    <3>1. \A t \in Pool : t # s /\ user[t] = d => sock'[t] = "free"
      BY <1>4, <1>8
    <3> QED BY <1>1, <1>3, <1>8, <3>1 DEF Sockets, Unused
  <2>2. /\ Pending(d)' <=> q # <<>>
        /\ ~Aside(d)' /\ d \notin retryTimer' /\ ~DisconnectSent'[d]
    BY <1>1, <1>4, <1>8 DEF Pending, Aside, ClientInv, ClientTypes, WCTypeOK
  <2>3. Waiting(d)' <=> closes /\ q # <<>>
    BY <1>9, <2>2 DEF Waiting
  <2>4. Single(d)'
    BY <1>9, <2>1, <2>2, <2>3 DEF Single
  <2>5. SOCK'[d] # NULL => sock'[SOCK'[d]] = "open" /\ user'[SOCK'[d]] = d
    BY <1>1, <1>3, <1>5, <1>8
  <2> QED BY <2>1, <2>2, <2>3, <2>4, <2>5 DEF PlacedAt
<1>15. CalledBack'
  BY <1>1 DEF CalledBack
<1> QED BY <1>4, <1>10, <1>11, <1>12, <1>13, <1>14, <1>15, StepFor
-----------------------------------------------------------------------------
(* A connection ends *)

(* What a connection that ends leaves of its wcdo and of the others.        *)
Ends(d) ==
  /\ d \in DataTable /\ d \in Server /\ ~Closing[d] /\ PlacedAt(d)
  /\ ~Waiting(d) /\ d \notin retryTimer /\ Places(d) = {} /\ ~Aside(d) /\ ~DisconnectSent[d]
  /\ callback = "none" /\ SOCK'[d] = NULL /\ Sockets(d)' = {}
  /\ \A t \in Pool : user[t] = d => UsedAt(t)'
  /\ \A t \in Pool : user[t] # d => sock'[t] = sock[t] /\ onWire'[t] = onWire[t]
  /\ \A e \in Server \ {d} : SOCK'[e] = SOCK[e]
  /\ sock' \in [Pool -> {"free", "connecting", "open"}]
  /\ SOCK' \in [Server -> Pool \cup {NULL}] /\ onWire' \in [Pool -> Seq(Request)]
  /\ UNCHANGED <<DataTable, Closing, ExponentialBackoff, user, dying, made, target>>

LEMMA SessionEnds ==
  ASSUME ClientInv, NEW s \in Pool, ConnectionEnds(s)
  PROVE  Ends(user[s])
<1>0. PICK d : d = user[s]
  OBVIOUS
<1>1. /\ d = user[s] /\ callback = "none" /\ sock[s] = "open"
      /\ sock' = [sock EXCEPT ![s] = "free"] /\ onWire' = [onWire EXCEPT ![s] = <<>>]
      /\ SOCK' = [SOCK EXCEPT ![d] = NULL]
      /\ UNCHANGED <<DataTable, Closing, ExponentialBackoff, user, dying, made, target>>
  BY <1>0 DEF ConnectionEnds, calls
<1>2. /\ d \in DataTable /\ d \in Server /\ ~Closing[d] /\ PlacedAt(d) /\ UsedAt(s)
      /\ ~Waiting(d) /\ d \notin retryTimer /\ Places(d) = {} /\ ~Aside(d) /\ ~DisconnectSent[d]
      /\ \A t \in Pool : user[t] = d /\ t # s => sock[t] = "free" /\ onWire[t] = <<>>
  BY <1>1, Busy
<1>3. /\ sock' \in [Pool -> {"free", "connecting", "open"}]
      /\ SOCK' \in [Server -> Pool \cup {NULL}] /\ onWire' \in [Pool -> Seq(Request)]
      /\ \A t \in Pool : t # s => sock'[t] = sock[t] /\ onWire'[t] = onWire[t]
      /\ \A e \in Server \ {d} : SOCK'[e] = SOCK[e]
      /\ SOCK'[d] = NULL /\ sock'[s] = "free" /\ onWire'[s] = <<>>
  <2>1. <<>> \in Seq(Request)
    OBVIOUS
  <2> QED BY <1>1, <1>2, <2>1 DEF ClientInv, ClientTypes, WCTypeOK
<1>4. \A t \in Pool : user[t] = d => sock'[t] = "free" /\ onWire'[t] = <<>>
  BY <1>2, <1>3
<1>5. Sockets(d)' = {}
  BY <1>1, <1>4 DEF Sockets, Unused
<1>6. \A t \in Pool : user[t] = d => UsedAt(t)'
  BY <1>4 DEF UsedAt
<1>7. \A t \in Pool : user[t] # d => sock'[t] = sock[t] /\ onWire'[t] = onWire[t]
  BY <1>0, <1>3
<1>8. Ends(d)
  BY <1>1, <1>2, <1>3, <1>5, <1>6, <1>7 DEF Ends
<1> QED BY <1>0, <1>8

LEMMA ResponseEndsKeeps ==
  ASSUME ClientInv, NEW s \in Pool, ResponseEnds(s)
  PROVE  ClientInv'
<1>0. PICK d : d = user[s]
  OBVIOUS
<1>1. /\ d \in DataTable /\ d \in Server /\ ~Closing[d] /\ PlacedAt(d)
      /\ ~Waiting(d) /\ d \notin retryTimer /\ Places(d) = {}
      /\ callback = "none" /\ SOCK'[d] = NULL /\ Sockets(d)' = {}
      /\ \A t \in Pool : user[t] = d => UsedAt(t)'
      /\ \A t \in Pool : user[t] # d => sock'[t] = sock[t] /\ onWire'[t] = onWire[t]
      /\ \A e \in Server \ {d} : SOCK'[e] = SOCK[e]
      /\ sock' \in [Pool -> {"free", "connecting", "open"}]
      /\ SOCK' \in [Server -> Pool \cup {NULL}] /\ onWire' \in [Pool -> Seq(Request)]
      /\ UNCHANGED <<DataTable, Closing, ExponentialBackoff, user, dying, made, target>>
  <2>1. ConnectionEnds(s)
    BY DEF ResponseEnds
  <2>2. Ends(d)
    BY <1>0, <2>1, SessionEnds
  <2> QED BY <2>2 DEF Ends
<1>2. /\ Pending(d)
      /\ DisconnectSent' = [DisconnectSent EXCEPT ![d] = TRUE]
      /\ told' = told \cup {Head(RequestQueue[d])}
      /\ RequestQueue' = [RequestQueue EXCEPT ![d] = Tail(RequestQueue[d])]
      /\ InitialRequestAnswered' = [InitialRequestAnswered EXCEPT ![d] = TRUE]
      /\ PipelineFlag' = [PipelineFlag EXCEPT ![d] = "no"]
      /\ FinHeader' = [FinHeader EXCEPT ![d] = FALSE]
      /\ callback' = "closed" /\ current' = d
      /\ UNCHANGED <<WaitForClose, retryTimer, idleTimer, backlogQueue>>
  BY <1>0 DEF ResponseEnds, Dequeued, delays
<1>3. /\ Head(RequestQueue[d]) \in Request /\ Tail(RequestQueue[d]) \in Seq(Request)
      /\ Len(Tail(RequestQueue[d])) = Len(RequestQueue[d]) - 1
      /\ \A i \in 1 .. Len(Tail(RequestQueue[d])) :
           Tail(RequestQueue[d])[i] = RequestQueue[d][i + 1]
  BY <1>1, <1>2, FirstOf
<1>4. /\ RequestQueue' \in [Server -> Seq(Request)] /\ RequestQueue'[d] = Tail(RequestQueue[d])
      /\ DisconnectSent' \in [Server -> BOOLEAN] /\ DisconnectSent'[d]
  BY <1>1, <1>2, <1>3 DEF ClientInv, ClientTypes, WCTypeOK
<1>5. OnlyFor(d)
  <2>1. \A e : Places(e)' = Places(e)
    BY <1>2 DEF Places
  <2>2. \A e \in Server \ {d} :
          RequestQueue'[e] = RequestQueue[e] /\ DisconnectSent'[e] = DisconnectSent[e]
    BY <1>2 DEF ClientInv, ClientTypes, WCTypeOK
  <2> QED BY <1>1, <1>2, <2>1, <2>2 DEF OnlyFor
<1>6. ClientTypes'
  <2>1. /\ InitialRequestAnswered' \in [Server -> BOOLEAN] /\ FinHeader' \in [Server -> BOOLEAN]
        /\ PipelineFlag' \in [Server -> {"unknown", "yes", "no"}] /\ told' \subseteq Request
    BY <1>2, <1>3 DEF ClientInv, ClientTypes, WCTypeOK
  <2>2. WCTypeOK'
    BY <1>1, <1>2, <1>4, <2>1 DEF ClientInv, ClientTypes, WCTypeOK
  <2> QED BY <1>1, <1>2, <2>2 DEF ClientInv, ClientTypes, Backoffs
<1>7. Queues'
  <2>1. 1 \in Nat /\ 1 # 0
    OBVIOUS
  <2>2. (callback' = "destroy") <=> (dying' # <<>>)
    BY <1>1, <1>2 DEF ClientInv, Queues
  <2> QED BY <1>1, <1>2, <1>3, <1>4, <1>5, <2>1, <2>2, QueuesAdvance
<1>8. PlacedAt(d)'
  <2>1. /\ Places(d)' = {} /\ d \notin retryTimer' /\ Aside(d)' /\ ~Closing'[d]
    BY <1>1, <1>2 DEF Places, Aside
  <2>2. ~Waiting(d)' /\ Single(d)'
    BY <1>1, <2>1 DEF Waiting, Single
  <2> QED BY <1>1, <1>2, <2>1, <2>2 DEF PlacedAt
<1>9. CalledBack'
  BY <1>1, <1>2, <1>4 DEF CalledBack
<1> QED BY <1>1, <1>5, <1>6, <1>7, <1>8, <1>9, StepFor

LEMMA FirstFailsKeeps ==
  ASSUME ClientInv, NEW s \in Pool, FirstFails(s)
  PROVE  ClientInv'
<1>0. PICK d : d = user[s]
  OBVIOUS
<1>1. /\ d \in DataTable /\ d \in Server /\ ~Closing[d] /\ PlacedAt(d) /\ ~DisconnectSent[d]
      /\ ~Waiting(d) /\ d \notin retryTimer /\ Places(d) = {}
      /\ callback = "none" /\ SOCK'[d] = NULL /\ Sockets(d)' = {}
      /\ \A t \in Pool : user[t] = d => UsedAt(t)'
      /\ \A t \in Pool : user[t] # d => sock'[t] = sock[t] /\ onWire'[t] = onWire[t]
      /\ \A e \in Server \ {d} : SOCK'[e] = SOCK[e]
      /\ sock' \in [Pool -> {"free", "connecting", "open"}]
      /\ SOCK' \in [Server -> Pool \cup {NULL}] /\ onWire' \in [Pool -> Seq(Request)]
      /\ UNCHANGED <<DataTable, Closing, ExponentialBackoff, user, dying, made, target>>
  <2>1. ConnectionEnds(s)
    BY DEF FirstFails
  <2>2. Ends(d)
    BY <1>0, <2>1, SessionEnds
  <2> QED BY <2>2 DEF Ends
<1>2. /\ Pending(d)
      /\ told' = told \cup {Head(RequestQueue[d])}
      /\ PipelineFlag' = [PipelineFlag EXCEPT ![d] = "no"]
      /\ callback' = "error" /\ current' = d
      /\ UNCHANGED <<RequestQueue, DisconnectSent, FinHeader, WaitForClose,
                     InitialRequestAnswered, retryTimer, idleTimer, backlogQueue>>
  BY <1>0, <1>1 DEF FirstFails, NotPersistent, delays
<1>3. Head(RequestQueue[d]) \in Request
  BY <1>1, <1>2, FirstOf
<1>4. OnlyFor(d)
  <2>1. \A e : Places(e)' = Places(e)
    BY <1>2 DEF Places
  <2> QED BY <1>1, <1>2, <2>1 DEF OnlyFor
<1>5. ClientTypes'
  <2>1. PipelineFlag' \in [Server -> {"unknown", "yes", "no"}] /\ told' \subseteq Request
    BY <1>2, <1>3 DEF ClientInv, ClientTypes, WCTypeOK
  <2>2. WCTypeOK'
    BY <1>1, <1>2, <2>1 DEF ClientInv, ClientTypes, WCTypeOK
  <2> QED BY <1>1, <1>2, <2>2 DEF ClientInv, ClientTypes, Backoffs
<1>6. Queues'
  BY <1>1, <1>2, <1>4, QueuesStay
<1>7. PlacedAt(d)'
  <2>1. /\ Places(d)' = {} /\ d \notin retryTimer' /\ Aside(d)' /\ ~Closing'[d] /\ Pending(d)'
    BY <1>1, <1>2 DEF Places, Aside, Pending
  <2>2. ~Waiting(d)' /\ Single(d)'
    BY <1>1, <2>1 DEF Waiting, Single
  <2> QED BY <1>1, <1>2, <2>1, <2>2 DEF PlacedAt
<1>8. CalledBack'
  BY <1>1, <1>2 DEF CalledBack, Pending
<1> QED BY <1>1, <1>4, <1>5, <1>6, <1>7, <1>8, StepFor

LEMMA ReconnectsKeeps ==
  ASSUME ClientInv, NEW s \in Pool, Reconnects(s) \/ NothingPending(s)
  PROVE  ClientInv'
<1>0. PICK d : d = user[s]
  OBVIOUS
<1>1. /\ d \in DataTable /\ d \in Server /\ ~Closing[d] /\ PlacedAt(d) /\ ~DisconnectSent[d]
      /\ ~Waiting(d) /\ d \notin retryTimer /\ Places(d) = {} /\ ~Aside(d)
      /\ callback = "none" /\ SOCK'[d] = NULL /\ Sockets(d)' = {}
      /\ \A t \in Pool : user[t] = d => UsedAt(t)'
      /\ \A t \in Pool : user[t] # d => sock'[t] = sock[t] /\ onWire'[t] = onWire[t]
      /\ \A e \in Server \ {d} : SOCK'[e] = SOCK[e]
      /\ sock' \in [Pool -> {"free", "connecting", "open"}]
      /\ SOCK' \in [Server -> Pool \cup {NULL}] /\ onWire' \in [Pool -> Seq(Request)]
      /\ UNCHANGED <<DataTable, Closing, ExponentialBackoff, user, dying, made, target>>
  <2>1. ConnectionEnds(s)
    BY DEF Reconnects, NothingPending
  <2>2. Ends(d)
    BY <1>0, <2>1, SessionEnds
  <2> QED BY <2>2 DEF Ends
<1>2. /\ PipelineFlag' = PipelineFlag \/ PipelineFlag' = [PipelineFlag EXCEPT ![d] = "no"]
      /\ backlogQueue' = (IF Pending(d) THEN Append(backlogQueue, d) ELSE backlogQueue)
      /\ UNCHANGED <<RequestQueue, DisconnectSent, FinHeader, WaitForClose,
                     InitialRequestAnswered, retryTimer, idleTimer, callback, current, told>>
  BY <1>0, <1>1 DEF Reconnects, NothingPending, NotPersistent, delays
<1>3. /\ \A e : e # d => Places(e)' = Places(e)
      /\ Places(d)' = IF Pending(d) THEN {Len(backlogQueue) + 1} ELSE {}
      /\ backlogQueue' \in Seq(DataTable)
  <2>1. backlogQueue \in Seq(DataTable)
    BY DEF ClientInv, ClientTypes, WCTypeOK
  <2>2. CASE Pending(d)
    BY <1>1, <1>2, <2>1, <2>2, BacklogAppended
  <2>3. CASE ~Pending(d)
    BY <1>1, <1>2, <2>1, <2>3 DEF Places
  <2> QED BY <2>2, <2>3
<1>4. OnlyFor(d)
  BY <1>1, <1>2, <1>3 DEF OnlyFor
<1>5. ClientTypes'
  <2>1. PipelineFlag' \in [Server -> {"unknown", "yes", "no"}]
    BY <1>2 DEF ClientInv, ClientTypes, WCTypeOK
  <2>2. WCTypeOK'
    BY <1>1, <1>2, <1>3, <2>1 DEF ClientInv, ClientTypes, WCTypeOK
  <2> QED BY <1>1, <1>2, <2>2 DEF ClientInv, ClientTypes, Backoffs
<1>6. Queues'
  <2>1. \A r \in told : ~(Pending(d) /\ r = Head(RequestQueue[d]))
    BY <1>1, FirstOf
  <2> QED BY <1>1, <1>2, <1>4, <2>1, QueuesStay
<1>7. PlacedAt(d)'
  <2>1. /\ d \notin retryTimer' /\ ~Aside(d)' /\ (Pending(d)' <=> Pending(d)) /\ ~DisconnectSent'[d]
    BY <1>1, <1>2 DEF Aside, Pending
  <2>2. (Waiting(d)' <=> Pending(d)) /\ Single(d)'
    BY <1>1, <1>3, <2>1 DEF Waiting, Single
  <2> QED BY <1>1, <2>1, <2>2 DEF PlacedAt
<1>8. CalledBack'
  BY <1>1, <1>2 DEF CalledBack
<1> QED BY <1>1, <1>4, <1>5, <1>6, <1>7, <1>8, StepFor

(* The wcdo that gave its connection up or lost it, in its callback.        *)
LEMMA GoneAside ==
  ASSUME ClientInv, callback \in {"closed", "error"}, NEW d, d = current
  PROVE  /\ d \in DataTable /\ d \in Server /\ PlacedAt(d) /\ Aside(d) /\ ~Closing[d]
         /\ SOCK[d] = NULL /\ ~Waiting(d) /\ d \notin retryTimer /\ Places(d) = {} /\ Sockets(d) = {}
         /\ \A s \in Pool : user[s] = d => sock[s] = "free" /\ onWire[s] = <<>>
<1>1. d \in DataTable /\ d \in Server /\ PlacedAt(d) /\ Aside(d)
  BY DEF ClientInv, CalledBack, Placed, ClientTypes, WCTypeOK, Aside
<1>2. /\ ~Closing[d] /\ SOCK[d] = NULL /\ Sockets(d) = {} /\ ~Waiting(d)
  BY <1>1 DEF PlacedAt
<1>3. \A s \in Pool : user[s] = d => sock[s] = "free"
  BY <1>2 DEF Sockets, Unused
<1>4. \A s \in Pool : user[s] = d => onWire[s] = <<>>
  BY <1>3 DEF ClientInv, Used, UsedAt
<1> QED BY <1>1, <1>2, <1>3, <1>4 DEF Waiting

LEMMA ResponseEndedKeeps ==
  ASSUME ClientInv, ResponseEnded
  PROVE  ClientInv'
<1>0. PICK d : d = current
  OBVIOUS
<1>1. /\ callback = "closed" /\ callback' = "none"
      /\ DisconnectSent' = [DisconnectSent EXCEPT ![d] = FALSE]
      /\ FinHeader' = [FinHeader EXCEPT ![d] = FALSE]
      /\ WaitForClose' = [WaitForClose EXCEPT ![d] = FALSE]
      /\ InitialRequestAnswered' = [InitialRequestAnswered EXCEPT ![d] = TRUE]
      /\ idleTimer' = idleTimer \ {d} /\ retryTimer' = retryTimer \ {d}
      /\ UNCHANGED <<DataTable, RequestQueue, SOCK, PipelineFlag, Closing, ExponentialBackoff,
                     sock, user, onWire, current, dying, made, target, told>>
  BY <1>0 DEF ResponseEnded, ResetWCDO, pool, calls
<1>2. /\ d \in DataTable /\ d \in Server /\ PlacedAt(d) /\ ~Closing[d]
      /\ SOCK[d] = NULL /\ ~Waiting(d) /\ d \notin retryTimer /\ Places(d) = {} /\ Sockets(d) = {}
      /\ \A s \in Pool : user[s] = d => sock[s] = "free" /\ onWire[s] = <<>>
  BY <1>0, <1>1, GoneAside
<1>3. backlogQueue' = IF Pending(d) THEN Append(backlogQueue, d) ELSE backlogQueue
  BY <1>0, <1>2 DEF ResponseEnded
<1>4. /\ \A e : e # d => Places(e)' = Places(e)
      /\ Places(d)' = IF Pending(d) THEN {Len(backlogQueue) + 1} ELSE {}
      /\ backlogQueue' \in Seq(DataTable)
  <2>1. backlogQueue \in Seq(DataTable)
    BY DEF ClientInv, ClientTypes, WCTypeOK
  <2>2. CASE Pending(d)
    BY <1>2, <1>3, <2>1, <2>2, BacklogAppended
  <2>3. CASE ~Pending(d)
    BY <1>2, <1>3, <2>1, <2>3 DEF Places
  <2> QED BY <2>2, <2>3
<1>5. OnlyFor(d)
  BY <1>0, <1>1, <1>4 DEF OnlyFor, ClientInv, ClientTypes, WCTypeOK
<1>6. ClientTypes'
  <2>1. retryTimer' = retryTimer
    BY <1>1, <1>2
  <2>2. WCTypeOK'
    BY <1>1, <1>4, <2>1 DEF ClientInv, ClientTypes, WCTypeOK
  <2> QED BY <1>1, <2>1, <2>2 DEF ClientInv, ClientTypes, Backoffs
<1>7. Queues'
  <2>1. \A r \in told : ~(Pending(d) /\ r = Head(RequestQueue[d]))
    BY <1>1, <1>2, FirstOf
  <2> QED BY <1>1, <1>2, <1>5, <2>1, QueuesStay
<1>8. PlacedAt(d)'
  <2>1. /\ d \notin retryTimer' /\ ~Aside(d)' /\ (Pending(d)' <=> Pending(d)) /\ ~DisconnectSent'[d]
        /\ Sockets(d)' = {} /\ SOCK'[d] = NULL
    BY <1>1, <1>2 DEF Aside, Pending, Sockets, Unused, ClientInv, ClientTypes, WCTypeOK
  <2>2. (Waiting(d)' <=> Pending(d)) /\ Single(d)'
    BY <1>4, <2>1 DEF Waiting, Single
  <2> QED BY <2>1, <2>2 DEF PlacedAt
<1>9. \A s \in Pool : user[s] = d => UsedAt(s)'
  BY <1>1, <1>2 DEF UsedAt
<1>10. CalledBack'
  BY <1>1 DEF CalledBack
<1> QED BY <1>2, <1>5, <1>6, <1>7, <1>8, <1>9, <1>10, StepFor

(* One request left the queue, or the next one with it.                     *)
LEMMA Shortened ==
  ASSUME ClientInv, NEW d \in Server, Pending(d),
         NEW q \in {Tail(RequestQueue[d]), NextDropped(Tail(RequestQueue[d]))}
  PROVE  \E k \in Nat : /\ k # 0 /\ q \in Seq(Request) /\ Len(q) = Len(RequestQueue[d]) - k
                        /\ \A i \in 1 .. Len(q) : q[i] = RequestQueue[d][i + k]
<1>1. /\ RequestQueue[d] \in Seq(Request) /\ Tail(RequestQueue[d]) \in Seq(Request)
      /\ Len(RequestQueue[d]) \in Nat
      /\ Len(Tail(RequestQueue[d])) = Len(RequestQueue[d]) - 1
      /\ \A i \in 1 .. Len(Tail(RequestQueue[d])) :
           Tail(RequestQueue[d])[i] = RequestQueue[d][i + 1]
  BY FirstOf
<1>2. CASE q = Tail(RequestQueue[d])
  BY <1>1, <1>2
<1>3. CASE Tail(RequestQueue[d]) # <<>> /\ q = Tail(Tail(RequestQueue[d]))
  <2>1. /\ q \in Seq(Request) /\ Len(q) = Len(Tail(RequestQueue[d])) - 1
        /\ \A i \in 1 .. Len(q) : q[i] = Tail(RequestQueue[d])[i + 1]
    BY <1>1, <1>3, HeadTailProperties
  <2>2. Len(q) = Len(RequestQueue[d]) - 2 /\ Len(q) \in Nat
    BY <1>1, <2>1, LenProperties
  <2>3. ASSUME NEW i \in 1 .. Len(q)
        PROVE  q[i] = RequestQueue[d][i + 2]
    <3>1. i + 1 \in 1 .. Len(Tail(RequestQueue[d])) /\ (i + 1) + 1 = i + 2
      BY <1>1, <2>2
    <3>2. Tail(RequestQueue[d])[i + 1] = RequestQueue[d][(i + 1) + 1]
      BY <1>1, <3>1
    <3> QED BY <2>1, <3>1, <3>2
  <2> QED BY <2>1, <2>2, <2>3
<1> QED BY <1>2, <1>3 DEF NextDropped

LEMMA FirstFailedKeeps ==
  ASSUME ClientInv, FirstFailed
  PROVE  ClientInv'
<1>0. PICK d, q : d = current /\ q = NextDropped(Tail(RequestQueue[d]))
  OBVIOUS
<1>1. /\ callback = "error" /\ callback' = "none"
      /\ DisconnectSent' = [DisconnectSent EXCEPT ![d] = FALSE]
      /\ FinHeader' = [FinHeader EXCEPT ![d] = FALSE]
      /\ WaitForClose' = [WaitForClose EXCEPT ![d] = FALSE]
      /\ InitialRequestAnswered' = [InitialRequestAnswered EXCEPT ![d] = TRUE]
      /\ RequestQueue' = [RequestQueue EXCEPT ![d] = q]
      /\ idleTimer' = idleTimer \ {d} /\ retryTimer' = retryTimer \ {d}
      /\ Closing' = (IF q # <<>> THEN [Closing EXCEPT ![d] = FALSE] ELSE Closing)
      /\ backlogQueue' = (IF q # <<>> THEN Append(backlogQueue, d) ELSE backlogQueue)
      /\ UNCHANGED <<DataTable, SOCK, PipelineFlag, ExponentialBackoff,
                     sock, user, onWire, current, dying, made, target, told>>
  BY <1>0 DEF FirstFailed, ResetWCDO, Dequeued, pool, calls
<1>2. /\ d \in DataTable /\ d \in Server /\ PlacedAt(d)
      /\ SOCK[d] = NULL /\ ~Waiting(d) /\ d \notin retryTimer /\ Places(d) = {} /\ Sockets(d) = {}
      /\ \A s \in Pool : user[s] = d => sock[s] = "free" /\ onWire[s] = <<>>
  BY <1>0, <1>1, GoneAside
<1>3. Pending(d)
  BY <1>0, <1>1 DEF ClientInv, CalledBack
<1>4. PICK k \in Nat : /\ k # 0 /\ q \in Seq(Request) /\ Len(q) = Len(RequestQueue[d]) - k
                       /\ \A i \in 1 .. Len(q) : q[i] = RequestQueue[d][i + k]
  <2>1. q \in {Tail(RequestQueue[d]), NextDropped(Tail(RequestQueue[d]))}
    BY <1>0
  <2> QED BY <1>2, <1>3, <2>1, Shortened
<1>5. /\ \A e : e # d => Places(e)' = Places(e)
      /\ Places(d)' = IF q # <<>> THEN {Len(backlogQueue) + 1} ELSE {}
      /\ backlogQueue' \in Seq(DataTable)
  <2>1. backlogQueue \in Seq(DataTable)
    BY DEF ClientInv, ClientTypes, WCTypeOK
  <2>2. CASE q # <<>>
    BY <1>1, <1>2, <2>1, <2>2, BacklogAppended
  <2>3. CASE q = <<>>
    BY <1>1, <1>2, <2>1, <2>3 DEF Places
  <2> QED BY <2>2, <2>3
<1>6. /\ RequestQueue' \in [Server -> Seq(Request)] /\ RequestQueue'[d] = q
      /\ \A e \in Server \ {d} : RequestQueue'[e] = RequestQueue[e] /\ Closing'[e] = Closing[e]
      /\ Closing' \in [Server -> BOOLEAN]
  BY <1>1, <1>2, <1>4 DEF ClientInv, ClientTypes, WCTypeOK
<1>7. OnlyFor(d)
  BY <1>0, <1>1, <1>5, <1>6 DEF OnlyFor, ClientInv, ClientTypes, WCTypeOK
<1>8. ClientTypes'
  <2>1. retryTimer' = retryTimer
    BY <1>1, <1>2
  <2>2. WCTypeOK'
    BY <1>1, <1>5, <1>6, <2>1 DEF ClientInv, ClientTypes, WCTypeOK
  <2> QED BY <1>1, <2>1, <2>2 DEF ClientInv, ClientTypes, Backoffs
<1>9. Queues'
  <2>1. (callback' = "destroy") <=> (dying' # <<>>)
    BY <1>1 DEF ClientInv, Queues
  <2>2. UNCHANGED <<made, target>> /\ dying' = dying /\ \A r \in told' : r \in told
    BY <1>1
  <2>3. Pending(d)' => d \in DataTable'
    BY <1>1, <1>2
  <2>4. Len(RequestQueue'[d]) = Len(RequestQueue[d]) - k
    BY <1>4, <1>6
  <2>5. \A i \in 1 .. Len(RequestQueue'[d]) : RequestQueue'[d][i] = RequestQueue[d][i + k]
    BY <1>4, <1>6
  <2>6. d \in Server /\ k \in Nat /\ k # 0
    BY <1>2, <1>4
  <2>7. RequestQueue' \in [Server -> Seq(Request)]
    BY <1>6
  <2> HIDE DEF ClientInv
  <2> QED BY <1>7, <2>1, <2>2, <2>3, <2>4, <2>5, <2>6, <2>7, QueuesAdvance
<1>10. PlacedAt(d)'
  <2>1. /\ d \notin retryTimer' /\ ~Aside(d)' /\ (Pending(d)' <=> q # <<>>) /\ ~DisconnectSent'[d]
        /\ Sockets(d)' = {} /\ SOCK'[d] = NULL
    BY <1>1, <1>2, <1>6 DEF Aside, Pending, Sockets, Unused, ClientInv, ClientTypes, WCTypeOK
  <2>2. (Waiting(d)' <=> q # <<>>) /\ Single(d)'
    BY <1>5, <2>1 DEF Waiting, Single
  <2> QED BY <2>1, <2>2 DEF PlacedAt
<1>11. \A s \in Pool : user[s] = d => UsedAt(s)'
  BY <1>1, <1>2 DEF UsedAt
<1>12. CalledBack'
  BY <1>1 DEF CalledBack
<1> QED BY <1>2, <1>7, <1>8, <1>9, <1>10, <1>11, <1>12, StepFor

LEMMA TimerSinkKeeps ==
  ASSUME ClientInv, NEW d \in Server, TimerSink(d)
  PROVE  ClientInv'
<1>1. /\ callback = "none" /\ d \in idleTimer /\ idleTimer' = idleTimer \ {d}
      /\ UNCHANGED <<DataTable, RequestQueue, PipelineFlag, FinHeader, WaitForClose,
                     InitialRequestAnswered, ExponentialBackoff, retryTimer, backlogQueue, user,
                     callback, current, dying, made, target, told>>
  BY DEF TimerSink, control, calls
<1>2. d \in DataTable /\ PlacedAt(d) /\ ~Aside(d)
  BY <1>1 DEF ClientInv, ClientTypes, WCTypeOK, Placed, Aside
<1>3. CASE Pending(d)
  <2>1. UNCHANGED <<SOCK, Closing, DisconnectSent, sock, onWire>>
    BY <1>3 DEF TimerSink
  <2>2. ClientTypes'
    BY <1>1, <2>1 DEF ClientInv, ClientTypes, WCTypeOK, Backoffs
  <2> QED BY <1>1, <2>1, <2>2, NothingSeen
<1>4. CASE ~Pending(d)
  <2>1. /\ SOCK' = [SOCK EXCEPT ![d] = NULL]
        /\ DisconnectSent' = [DisconnectSent EXCEPT ![d] = FALSE]
        /\ \/ Unconnected(d) /\ UNCHANGED <<Closing, sock, onWire>>
           \/ /\ ~Unconnected(d) /\ Closing' = [Closing EXCEPT ![d] = TRUE]
              /\ sock' = [sock EXCEPT ![SOCK[d]] = "free"]
              /\ onWire' = [onWire EXCEPT ![SOCK[d]] = <<>>]
    BY <1>4 DEF TimerSink
  <2>2. /\ ~Waiting(d) /\ d \notin retryTimer /\ Places(d) = {}
        /\ SOCK[d] \in Pool \cup {NULL} /\ NULL \notin Pool
        /\ SOCK[d] = NULL => Sockets(d) = {} /\ Unconnected(d)
        /\ SOCK[d] # NULL => /\ sock[SOCK[d]] = "open" /\ user[SOCK[d]] = d
                             /\ Sockets(d) = {SOCK[d]} /\ ~Unconnected(d)
    BY <1>2, <1>4, Agreed
  <2>3. /\ \A s \in Pool : user[s] # d => sock'[s] = sock[s] /\ onWire'[s] = onWire[s]
        /\ \A s \in Pool : user[s] = d => sock'[s] = "free" /\ onWire'[s] = <<>>
        /\ sock' \in [Pool -> {"free", "connecting", "open"}]
        /\ onWire' \in [Pool -> Seq(Request)]
        /\ Closing' \in [Server -> BOOLEAN] /\ \A e \in Server \ {d} : Closing'[e] = Closing[e]
    <3>1. <<>> \in Seq(Request)
      OBVIOUS
    <3>2. \A s \in Pool : user[s] = d /\ s \notin Sockets(d) => sock[s] = "free"
      BY DEF Sockets, Unused
    <3>3. \A s \in Pool : sock[s] = "free" => onWire[s] = <<>>
      BY DEF ClientInv, Used, UsedAt
    <3>4. CASE SOCK[d] = NULL
      BY <2>1, <2>2, <3>2, <3>3, <3>4 DEF ClientInv, ClientTypes, WCTypeOK
    <3>5. CASE SOCK[d] # NULL
      <4>1. /\ SOCK[d] \in Pool /\ Closing' = [Closing EXCEPT ![d] = TRUE]
            /\ sock' = [sock EXCEPT ![SOCK[d]] = "free"]
            /\ onWire' = [onWire EXCEPT ![SOCK[d]] = <<>>]
        BY <2>1, <2>2, <3>5
      <4>2. \A s \in Pool : user[s] = d /\ s # SOCK[d] => sock[s] = "free" /\ onWire[s] = <<>>
        BY <2>2, <3>2, <3>3, <3>5
      <4> QED BY <2>2, <3>1, <3>5, <4>1, <4>2 DEF ClientInv, ClientTypes, WCTypeOK
    <3> QED BY <3>4, <3>5
  <2>4. /\ SOCK' \in [Server -> Pool \cup {NULL}] /\ DisconnectSent' \in [Server -> BOOLEAN]
        /\ SOCK'[d] = NULL /\ ~DisconnectSent'[d]
        /\ \A e \in Server \ {d} : SOCK'[e] = SOCK[e] /\ DisconnectSent'[e] = DisconnectSent[e]
    BY <2>1 DEF ClientInv, ClientTypes, WCTypeOK
  <2>5. OnlyFor(d)
    BY <1>1, <2>3, <2>4 DEF OnlyFor, Places
  <2>6. ClientTypes'
    <3>1. WCTypeOK'
      BY <1>1, <2>3, <2>4 DEF ClientInv, ClientTypes, WCTypeOK
    <3> QED BY <1>1, <3>1 DEF ClientInv, ClientTypes, Backoffs
  <2>7. Queues'
    BY <1>1, <1>4, <2>5, QueuesStay
  <2>8. PlacedAt(d)'
    <3>1. Sockets(d)' = {} /\ Places(d)' = {} /\ ~Aside(d)' /\ ~Pending(d)'
      BY <1>1, <1>2, <1>4, <2>2, <2>3 DEF Sockets, Unused, Places, Aside, Pending
    <3>2. ~Waiting(d)' /\ Single(d)'
      BY <1>1, <2>2, <3>1 DEF Waiting, Single
    <3> QED BY <2>4, <3>1, <3>2 DEF PlacedAt
  <2>9. \A s \in Pool : user[s] = d => UsedAt(s)'
    BY <2>3 DEF UsedAt
  <2>10. CalledBack'
    BY <1>1 DEF CalledBack
  <2> QED BY <2>5, <2>6, <2>7, <2>8, <2>9, <2>10, StepFor
<1> QED BY <1>3, <1>4
-----------------------------------------------------------------------------
(* The free sockets take wcdos of the backlog                               *)

LEMMA PreProcessKeeps ==
  ASSUME ClientInv, PreProcess
  PROVE  ClientInv'
<1> DEFINE L == Len(backlogQueue)
           n == Cardinality(Taken)
<1>1. /\ callback = "none"
      /\ backlogQueue' = SubSeq(backlogQueue, n + 1, L)
      /\ Closing' = [d \in Server |-> Closing[d] /\ \A s \in Taken : backlogQueue[Rank(s)] # d]
      /\ sock' = [s \in Pool |-> IF s \in Taken THEN "connecting" ELSE sock[s]]
      /\ user' = [s \in Pool |-> IF s \in Taken THEN backlogQueue[Rank(s)] ELSE user[s]]
      /\ UNCHANGED <<DataTable, RequestQueue, SOCK, PipelineFlag, DisconnectSent, FinHeader,
                     WaitForClose, InitialRequestAnswered, ExponentialBackoff, retryTimer, idleTimer,
                     onWire, callback, current, dying, made, target, told>>
  BY DEF PreProcess, Taken, delays, control, calls
<1>2. /\ backlogQueue \in Seq(DataTable) /\ L \in Nat /\ DOMAIN backlogQueue = 1 .. L
      /\ \A i \in 1 .. L : backlogQueue[i] \in DataTable
  <2>1. backlogQueue \in Seq(DataTable)
    BY DEF ClientInv, ClientTypes, WCTypeOK
  <2> QED BY <2>1, LenProperties, ElementOfSeq
<1>3. /\ n \in 0 .. L
      /\ \A s \in Taken : Rank(s) \in 1 .. n
      /\ \A s, t \in Taken : Rank(s) = Rank(t) => s = t
      /\ \A i \in 1 .. n : \E s \in Taken : Rank(s) = i
  BY <1>2, TakenRanks
<1>4. \A s \in Taken : s \in Pool /\ sock[s] = "free" /\ onWire[s] = <<>>
  BY DEF Taken, Unused, ClientInv, Used, UsedAt
<1>5. \A s \in Taken : backlogQueue[Rank(s)] \in DataTable /\ Rank(s) \in 1 .. L
                       /\ Rank(s) \in Places(backlogQueue[Rank(s)])
  BY <1>2, <1>3 DEF Places
<1> HIDE DEF n, L
<1>6. /\ backlogQueue' \in Seq(DataTable) /\ DOMAIN backlogQueue' = 1 .. L - n
      /\ \A i \in 1 .. L - n : backlogQueue'[i] = backlogQueue[n + i]
  <2>1. n + 1 \in 1 .. L + 1 /\ L \in Nat /\ L = Len(backlogQueue) /\ L - (n + 1) + 1 = L - n
    BY <1>2, <1>3 DEF L
  <2>2. \A i \in (n + 1) .. L : backlogQueue[i] \in DataTable
    BY <1>2, <1>3
  <2>3. /\ SubSeq(backlogQueue, n + 1, L) \in Seq(DataTable)
        /\ Len(SubSeq(backlogQueue, n + 1, L)) = L - n
        /\ \A i \in 1 .. L - n : SubSeq(backlogQueue, n + 1, L)[i] = backlogQueue[n + i]
    <3>1. n \in Int /\ L \in Int /\ n <= L /\ n + 1 \in Int /\ L - (n + 1) + 1 = L - n
      BY <1>2, <1>3
    <3> DEFINE t == SubSeq(backlogQueue, n + 1, L)
    <3>2. /\ t \in Seq(DataTable)
          /\ Len(t) = IF n + 1 <= L THEN L - (n + 1) + 1 ELSE 0
          /\ \A i \in 1 .. L - (n + 1) + 1 : t[i] = backlogQueue[(n + 1) + i - 1]
      BY <2>2, <3>1, SubSeqProperties
    <3> HIDE DEF t
    <3>3. Len(t) = L - n
      BY <3>1, <3>2
    <3>4. \A i \in 1 .. L - n : (n + 1) + i - 1 = n + i
      BY <3>1
    <3> QED BY <3>1, <3>2, <3>3, <3>4 DEF t
  <2>4. DOMAIN SubSeq(backlogQueue, n + 1, L) = 1 .. L - n
    BY <2>3, LenProperties
  <2> QED BY <1>1, <2>3, <2>4
<1>7. ASSUME NEW d \in DataTable
      PROVE  /\ d \in Server /\ PlacedAt(d) /\ SOCK[d] \in Pool \cup {NULL}
             /\ \A i, j \in Places(d) : i = j
             /\ Places(d) # {} => Sockets(d) = {} /\ Pending(d) /\ d \notin retryTimer
             /\ ~Aside(d) /\ ~Aside(d)' /\ (Pending(d)' <=> Pending(d)) /\ ~DisconnectSent[d]
  <2>1. d \in Server /\ PlacedAt(d) /\ SOCK[d] \in Pool \cup {NULL}
    BY DEF ClientInv, Placed, ClientTypes, WCTypeOK
  <2> QED BY <1>1, <2>1 DEF PlacedAt, Single, Waiting, Aside, Pending
<1>8. ASSUME NEW d \in DataTable
      PROVE  /\ \A i \in Places(d)' : n + i \in Places(d) /\ i \in 1 .. L - n
             /\ \A s \in Sockets(d)' : \/ s \in Sockets(d)
                                       \/ s \in Taken /\ Rank(s) \in Places(d)
  <2>1. \A i \in Places(d)' : n + i \in Places(d) /\ i \in 1 .. L - n
    BY <1>2, <1>3, <1>6 DEF Places
  <2>2. \A s \in Pool \ Taken : sock'[s] = sock[s] /\ user'[s] = user[s]
    BY <1>1
  <2>3. \A s \in Taken : user'[s] = backlogQueue[Rank(s)]
    BY <1>1, <1>4
  <2>4. ASSUME NEW s \in Sockets(d)', s \notin Taken
        PROVE  s \in Sockets(d)
    BY <2>2, <2>4 DEF Sockets, Unused
  <2>5. ASSUME NEW s \in Sockets(d)', s \in Taken
        PROVE  Rank(s) \in Places(d)
    <3>1. user'[s] = d
      BY DEF Sockets
    <3> QED BY <1>5, <2>3, <2>5, <3>1
  <2> QED BY <2>1, <2>4, <2>5
<1>9. ASSUME NEW s \in Pool, sock[s] # "free"
      PROVE  s \notin Taken /\ sock'[s] = sock[s] /\ user'[s] = user[s]
  BY <1>1, <1>4, <1>9
<1>10. ASSUME NEW d \in DataTable
       PROVE  PlacedAt(d)'
  <2>1. CASE Places(d) = {}
    <3>1. Places(d)' = {}
      BY <1>8, <2>1
    <3>2. Sockets(d)' = Sockets(d)
      <4>1. \A s \in Sockets(d) : s \in Sockets(d)'
        BY <1>9 DEF Sockets, Unused
      <4>2. \A s \in Sockets(d)' : s \in Sockets(d)
        BY <1>8, <2>1
      <4> QED BY <4>1, <4>2
    <3>3. Closing'[d] = Closing[d]
      <4>1. \A s \in Taken : backlogQueue[Rank(s)] # d
        BY <1>5, <2>1
      <4>2. Closing[d] \in BOOLEAN
        BY <1>7 DEF ClientInv, ClientTypes, WCTypeOK
      <4> QED BY <1>1, <1>7, <4>1, <4>2
    <3>4. \A s \in Pool : sock[s] = "open" /\ user[s] = d => sock'[s] = "open" /\ user'[s] = d
      BY <1>9
    <3> QED BY <1>1, <1>7, <2>1, <3>1, <3>2, <3>3, <3>4, PlacedKept
  <2>2. ASSUME NEW p \in Places(d), p <= n
        PROVE  PlacedAt(d)'
    <3>1. p \in 1 .. L /\ p \in 1 .. n /\ \A i \in Places(d) : i = p
      BY <1>2, <1>3, <1>7, <2>2 DEF Places
    <3>2. PICK s \in Taken : Rank(s) = p
      BY <1>3, <3>1
    <3>3. backlogQueue[p] = d
      BY DEF Places
    <3>4. Sockets(d)' = {s}
      <4>1. s \in Sockets(d)'
        BY <1>1, <1>4, <3>2, <3>3 DEF Sockets, Unused
      <4>2. \A t \in Sockets(d)' : t = s
        BY <1>3, <1>7, <1>8, <2>2, <3>1, <3>2
      <4> QED BY <4>1, <4>2
    <3>5. Places(d)' = {}
      BY <1>3, <1>8, <2>2, <3>1
    <3>6. Pending(d)' /\ ~Aside(d)' /\ d \notin retryTimer' /\ ~DisconnectSent'[d]
      BY <1>1, <1>7, <2>2
    <3>7. ~Waiting(d)' /\ Single(d)'
      BY <3>4, <3>5, <3>6 DEF Waiting, Single
    <3> QED BY <3>4, <3>6, <3>7 DEF PlacedAt
  <2>3. ASSUME NEW p \in Places(d), ~(p <= n)
        PROVE  PlacedAt(d)'
    <3>1. p \in 1 .. L /\ \A i \in Places(d) : i = p
      BY <1>2, <1>7, <2>3 DEF Places
    <3>2. Sockets(d)' = {}
      <4> SUFFICES ASSUME NEW t \in Sockets(d)' PROVE FALSE
        OBVIOUS
      <4>1. t \in Taken /\ Rank(t) = p
        BY <1>7, <1>8, <2>3, <3>1
      <4>2. Rank(t) \in 1 .. n
        BY <1>3, <4>1
      <4> QED BY <1>3, <2>3, <4>1, <4>2
    <3>3. p - n \in Places(d)'
      <4>1. p - n \in 1 .. L - n /\ n + (p - n) = p
        BY <1>2, <1>3, <2>3, <3>1
      <4>2. backlogQueue'[p - n] = backlogQueue[p] /\ backlogQueue[p] = d
        <5>1. backlogQueue'[p - n] = backlogQueue[n + (p - n)]
          BY <1>6, <4>1
        <5> QED BY <4>1, <5>1 DEF Places
      <4> QED BY <1>6, <4>1, <4>2 DEF Places
    <3>4. \A i, j \in Places(d)' : i = j
      <4>1. \A i \in Places(d)' : n + i = p /\ i \in 1 .. L - n
        BY <1>8, <3>1
      <4>2. \A i \in Places(d)' : i = p - n
        BY <1>2, <1>3, <3>1, <4>1
      <4> QED BY <4>2
    <3>5. Pending(d)' /\ ~Aside(d)' /\ d \notin retryTimer' /\ ~DisconnectSent'[d]
      BY <1>1, <1>7, <2>3
    <3>6. Waiting(d)' /\ Single(d)'
      BY <3>2, <3>3, <3>4, <3>5 DEF Waiting, Single
    <3> QED BY <3>5, <3>6 DEF PlacedAt
  <2> QED BY <2>1, <2>2, <2>3
<1>11. Placed'
  BY <1>1, <1>10 DEF Placed
<1>12. ASSUME NEW s \in Pool
       PROVE  UsedAt(s)'
  <2>1. UsedAt(s)
    BY DEF ClientInv, Used
  <2>2. CASE s \in Taken
    <3>1. sock'[s] = "connecting" /\ user'[s] = backlogQueue[Rank(s)] /\ onWire'[s] = <<>>
      BY <1>1, <1>4, <2>2
    <3>2. PICK d \in DataTable : d = backlogQueue[Rank(s)]
      BY <1>5, <2>2
    <3>3. Places(d) # {} /\ d \in Server
      BY <1>5, <1>7, <2>2, <3>2
    <3>4. RequestQueue[d] # <<>>
      BY <1>7, <3>3 DEF Pending
    <3>5. ~Closing'[d]
      BY <1>1, <2>2, <3>2, <3>3
    <3> QED BY <1>1, <3>1, <3>2, <3>4, <3>5 DEF UsedAt, Pending
  <2>3. CASE s \notin Taken
    <3>1. sock'[s] = sock[s] /\ user'[s] = user[s] /\ onWire'[s] = onWire[s]
      BY <1>1, <2>3
    <3>2. sock[s] # "free" => user[s] \in Server /\ ~Closing'[user[s]]
      <4>1. sock[s] # "free" => user[s] \in Server /\ ~Closing[user[s]]
        BY <1>7, <2>1 DEF UsedAt
      <4> QED BY <1>1, <4>1
    <3>3. onWire[s] # <<>> => ~(callback' = "answer" /\ current' = user[s])
      BY <1>1
    <3> QED BY <1>1, <2>1, <3>1, <3>2, <3>3 DEF UsedAt, Pending
  <2> QED BY <2>2, <2>3
<1>13. ClientTypes'
  <2>1. Closing' \in [Server -> BOOLEAN]
    BY <1>1 DEF ClientInv, ClientTypes, WCTypeOK
  <2>2. sock' \in [Pool -> {"free", "connecting", "open"}]
    BY <1>1 DEF ClientInv, ClientTypes, WCTypeOK
  <2>3. user' \in [Pool -> Server \cup {NoServer}]
    BY <1>1, <1>5, <1>7 DEF ClientInv, ClientTypes, WCTypeOK
  <2>4. WCTypeOK'
    BY <1>1, <1>6, <2>1, <2>2, <2>3 DEF ClientInv, ClientTypes, WCTypeOK
  <2> QED BY <1>1, <2>4 DEF ClientInv, ClientTypes, Backoffs
<1>14. Queues'
  BY <1>1 DEF ClientInv, Queues, Pending
<1>15. CalledBack'
  BY <1>1 DEF CalledBack
<1> QED BY <1>11, <1>12, <1>13, <1>14, <1>15 DEF ClientInv, Used
-----------------------------------------------------------------------------
(* The order in which requests are told                                     *)

(* A request that was told its outcome was made before those of its server  *)
(* that wait, or is the one the callback is about; and the requests of a    *)
(* wcdo being destroyed come before those of one that replaced it.          *)
Ordered ==
  /\ \A d \in Server : \A i \in DOMAIN RequestQueue[d] : \A x \in told :
       target[x] = d => x <= RequestQueue[d][i]
  /\ \A d \in Server : \A i \in DOMAIN RequestQueue[d] : \A j \in DOMAIN dying :
       target[dying[j]] = d => dying[j] < RequestQueue[d][i]
  /\ \A j \in DOMAIN dying : \A x \in told : target[x] = target[dying[j]] => x < dying[j]
  /\ \A j, k \in DOMAIN dying :
       j < k /\ target[dying[j]] = target[dying[k]] => dying[j] < dying[k]

(* The numbers the order is about, and the first request of a queue.        *)
LEMMA Numbers ==
  ASSUME ClientInv
  PROVE  /\ made \in Nat /\ told \subseteq 1 .. made
         /\ \A j \in DOMAIN dying : dying[j] \in 1 .. made
         /\ \A d \in Server : \A i \in DOMAIN RequestQueue[d] :
              /\ RequestQueue[d][i] \in 1 .. made /\ target[RequestQueue[d][i]] = d
              /\ \A j \in DOMAIN RequestQueue[d] :
                   i < j => RequestQueue[d][i] < RequestQueue[d][j]
         /\ callback # "destroy" => dying = <<>> /\ DOMAIN dying = {}
         /\ \A d \in Server : /\ Len(RequestQueue[d]) \in Nat
                             /\ DOMAIN RequestQueue[d] = 1 .. Len(RequestQueue[d])
         /\ \A d \in Server : Pending(d) =>
              1 \in DOMAIN RequestQueue[d] /\ Head(RequestQueue[d]) = RequestQueue[d][1]
<1>1. made \in Nat /\ Queues /\ \A d \in Server : RequestQueue[d] \in Seq(Request)
  BY WebClientAssumption DEF ClientInv, ClientTypes, WCTypeOK
<1>2. callback # "destroy" => dying = <<>> /\ DOMAIN dying = {}
  <2>1. DOMAIN <<>> = {}
    OBVIOUS
  <2> QED BY <1>1, <2>1 DEF Queues
<1>3. \A d \in Server : /\ Len(RequestQueue[d]) \in Nat
                        /\ DOMAIN RequestQueue[d] = 1 .. Len(RequestQueue[d])
  BY <1>1, LenProperties
<1>4. \A d \in Server : Pending(d) =>
        1 \in DOMAIN RequestQueue[d] /\ Head(RequestQueue[d]) = RequestQueue[d][1]
  BY <1>1, Tailed DEF Pending
<1> QED BY <1>1, <1>2, <1>3, <1>4 DEF Queues

(* A new request has a greater number than all others.                      *)
LEMMA OrderMakes ==
  ASSUME ClientInv, Ordered, NEW d \in Server, Makes(d), made + 1 \in Request
  PROVE  Ordered'
<1>1. /\ made \in Nat /\ told \subseteq 1 .. made
      /\ \A j \in DOMAIN dying : dying[j] \in 1 .. made
      /\ \A e \in Server : \A i \in DOMAIN RequestQueue[e] : RequestQueue[e][i] \in 1 .. made
  BY Numbers
<1>2. /\ told' = told /\ dying' = dying /\ \A x \in 1 .. made : target'[x] = target[x]
      /\ \A e \in Server \ {d} : RequestQueue'[e] = RequestQueue[e]
      /\ RequestQueue'[d] = Append(RequestQueue[d], made + 1)
  <2>1. target \in Seq(Server) /\ Len(target) = made
    BY DEF ClientInv, ClientTypes, WCTypeOK
  <2>2. \A x \in 1 .. Len(target) : Append(target, d)[x] = target[x]
    BY <2>1, AppendProperties
  <2> QED BY <2>1, <2>2 DEF Makes, ClientInv, ClientTypes, WCTypeOK
<1>3. /\ Len(RequestQueue[d]) \in Nat /\ DOMAIN RequestQueue[d] = 1 .. Len(RequestQueue[d])
      /\ DOMAIN RequestQueue'[d] = 1 .. Len(RequestQueue[d]) + 1
      /\ \A i \in 1 .. Len(RequestQueue[d]) : RequestQueue'[d][i] = RequestQueue[d][i]
      /\ RequestQueue'[d][Len(RequestQueue[d]) + 1] = made + 1
  BY <1>2, Appended DEF ClientInv, ClientTypes, WCTypeOK
<1>4. ASSUME NEW e \in Server, NEW i \in DOMAIN RequestQueue'[e]
      PROVE  \/ RequestQueue'[e][i] = made + 1
             \/ i \in DOMAIN RequestQueue[e] /\ RequestQueue'[e][i] = RequestQueue[e][i]
  BY <1>2, <1>3
<1>5. ASSUME NEW e \in Server, NEW i \in DOMAIN RequestQueue'[e], NEW x \in told',
             target'[x] = e
      PROVE  x <= RequestQueue'[e][i]
  BY <1>1, <1>2, <1>4, <1>5 DEF Ordered
<1>6. ASSUME NEW e \in Server, NEW i \in DOMAIN RequestQueue'[e], NEW j \in DOMAIN dying',
             target'[dying'[j]] = e
      PROVE  dying'[j] < RequestQueue'[e][i]
  BY <1>1, <1>2, <1>4, <1>6 DEF Ordered
<1>7. \A j \in DOMAIN dying' : target'[dying'[j]] = target[dying[j]]
  BY <1>1, <1>2
<1>8. \A j \in DOMAIN dying' : \A x \in told' : target'[x] = target'[dying'[j]] => x < dying'[j]
  BY <1>1, <1>2, <1>7 DEF Ordered
<1>9. \A j, k \in DOMAIN dying' :
        j < k /\ target'[dying'[j]] = target'[dying'[k]] => dying'[j] < dying'[k]
  BY <1>2, <1>7 DEF Ordered
<1> QED BY <1>5, <1>6, <1>8, <1>9 DEF Ordered

(* Requests leave a queue at its head, and only the first one is told.      *)
LEMMA OrderAdvances ==
  ASSUME ClientInv, Ordered, NEW d \in Server, NEW k \in Nat,
         callback # "destroy", UNCHANGED <<target, dying>>,
         \A e \in Server \ {d} : RequestQueue'[e] = RequestQueue[e],
         RequestQueue'[d] \in Seq(Request),
         Len(RequestQueue'[d]) = Len(RequestQueue[d]) - k,
         \A i \in 1 .. Len(RequestQueue'[d]) : RequestQueue'[d][i] = RequestQueue[d][i + k],
         \A x \in told' : x \in told \/ (Pending(d) /\ x = Head(RequestQueue[d]))
  PROVE  Ordered'
<1>1. /\ DOMAIN dying = {} /\ made \in Nat
      /\ \A e \in Server : \A i \in DOMAIN RequestQueue[e] :
           /\ RequestQueue[e][i] \in 1 .. made /\ target[RequestQueue[e][i]] = e
           /\ \A j \in DOMAIN RequestQueue[e] :
                i < j => RequestQueue[e][i] < RequestQueue[e][j]
      /\ Len(RequestQueue[d]) \in Nat /\ DOMAIN RequestQueue[d] = 1 .. Len(RequestQueue[d])
      /\ Pending(d) => 1 \in DOMAIN RequestQueue[d] /\ Head(RequestQueue[d]) = RequestQueue[d][1]
  BY Numbers
<1>2. DOMAIN RequestQueue'[d] = 1 .. Len(RequestQueue[d]) - k
  BY LenProperties
<1>3. ASSUME NEW e \in Server, NEW i \in DOMAIN RequestQueue'[e], NEW x \in told', target[x] = e
      PROVE  x <= RequestQueue'[e][i]
  <2>1. PICK m \in DOMAIN RequestQueue[e] : RequestQueue'[e][i] = RequestQueue[e][m]
    <3>1. CASE e = d
      <4>1. i + k \in DOMAIN RequestQueue[d] /\ RequestQueue'[d][i] = RequestQueue[d][i + k]
        BY <1>1, <1>2, <1>3, <3>1
      <4> QED BY <3>1, <4>1
    <3>2. CASE e # d
      BY <1>3, <3>2
    <3> QED BY <3>1, <3>2
  <2>2. CASE x \in told
    BY <1>3, <2>1, <2>2 DEF Ordered
  <2>3. CASE Pending(d) /\ x = Head(RequestQueue[d])
    <3>1. e = d /\ x = RequestQueue[d][1] /\ 1 \in DOMAIN RequestQueue[d]
      BY <1>1, <1>3, <2>3
    <3>2. m = 1 \/ 1 < m
      BY <1>1, <2>1, <3>1
    <3>3. x \in Nat /\ RequestQueue[d][m] \in Nat
      BY <1>1, <2>1, <3>1
    <3> QED BY <1>1, <2>1, <3>1, <3>2, <3>3
  <2> QED BY <2>2, <2>3
<1> QED BY <1>1, <1>3 DEF Ordered

(* A wcdo is given up: nothing in its queue was told yet.                   *)
LEMMA OrderGivesUp ==
  ASSUME ClientInv, Ordered, NEW d \in Server, callback = "none",
         dying' = RequestQueue[d], RequestQueue' = [RequestQueue EXCEPT ![d] = <<>>],
         UNCHANGED <<target, told>>
  PROVE  Ordered'
<1>1. /\ made \in Nat /\ told \subseteq 1 .. made
      /\ \A e \in Server : \A i \in DOMAIN RequestQueue[e] :
           /\ RequestQueue[e][i] \in 1 .. made /\ target[RequestQueue[e][i]] = e
           /\ \A j \in DOMAIN RequestQueue[e] :
                i < j => RequestQueue[e][i] < RequestQueue[e][j]
  BY Numbers
<1>2. \A e \in Server : \A i \in DOMAIN RequestQueue[e] : RequestQueue[e][i] \notin told
  BY DEF ClientInv, Queues
<1>3. \A e \in Server : \A i \in DOMAIN RequestQueue'[e] :
        e # d /\ RequestQueue'[e] = RequestQueue[e]
  <2>1. DOMAIN <<>> = {}
    OBVIOUS
  <2> QED BY <2>1 DEF ClientInv, ClientTypes, WCTypeOK
<1>4. \A j \in DOMAIN dying' : target'[dying'[j]] = d /\ dying'[j] = RequestQueue[d][j]
  BY <1>1
<1>5. \A e \in Server : \A i \in DOMAIN RequestQueue'[e] : \A x \in told' :
        target'[x] = e => x <= RequestQueue'[e][i]
  BY <1>3 DEF Ordered
<1>6. ASSUME NEW j \in DOMAIN dying', NEW x \in told', target'[x] = target'[dying'[j]]
      PROVE  x < dying'[j]
  <2>1. /\ target[x] = d /\ j \in DOMAIN RequestQueue[d] /\ dying'[j] = RequestQueue[d][j]
        /\ x \in 1 .. made /\ dying'[j] \in 1 .. made
    BY <1>1, <1>4, <1>6
  <2>2. x <= RequestQueue[d][j] /\ x # RequestQueue[d][j]
    BY <1>2, <1>6, <2>1 DEF Ordered
  <2> QED BY <1>1, <2>1, <2>2
<1> QED BY <1>1, <1>3, <1>4, <1>5, <1>6 DEF Ordered

(* The requests of a wcdo being destroyed are told from the first one on.   *)
LEMMA OrderDestroys ==
  ASSUME ClientInv, Ordered, DestroyRequest
  PROVE  Ordered'
<1>1. /\ told' = told \cup {Head(dying)} /\ dying' = Tail(dying)
      /\ UNCHANGED <<RequestQueue, target>>
  BY DEF DestroyRequest, calls
<1>2. /\ made \in Nat /\ \A j \in DOMAIN dying : dying[j] \in 1 .. made
      /\ \A e \in Server : \A i \in DOMAIN RequestQueue[e] : RequestQueue[e][i] \in 1 .. made
  BY Numbers
<1>3. dying \in Seq(Request) /\ dying # <<>>
  BY DEF DestroyRequest, ClientInv, ClientTypes, WCTypeOK, Queues
<1>4. /\ Head(dying) = dying[1] /\ 1 \in DOMAIN dying
      /\ \A j \in DOMAIN dying' : /\ j \in Nat /\ 1 < j + 1
                                  /\ j + 1 \in DOMAIN dying /\ dying'[j] = dying[j + 1]
  <2>1. /\ Head(dying) = dying[1] /\ 1 \in DOMAIN dying
        /\ Len(dying) \in Nat \ {0} /\ DOMAIN dying = 1 .. Len(dying)
        /\ DOMAIN Tail(dying) = 1 .. Len(dying) - 1
        /\ \A i \in 1 .. Len(dying) - 1 : Tail(dying)[i] = dying[i + 1]
    BY <1>3, Tailed
  <2> QED BY <1>1, <2>1
<1>5. ASSUME NEW e \in Server, NEW i \in DOMAIN RequestQueue[e], NEW x \in told', target[x] = e
      PROVE  x <= RequestQueue[e][i]
  BY <1>1, <1>2, <1>4, <1>5 DEF Ordered
<1>6. ASSUME NEW e \in Server, NEW i \in DOMAIN RequestQueue[e], NEW j \in DOMAIN dying',
             target[dying'[j]] = e
      PROVE  dying'[j] < RequestQueue[e][i]
  BY <1>4, <1>6 DEF Ordered
<1>7. ASSUME NEW j \in DOMAIN dying', NEW x \in told', target[x] = target[dying'[j]]
      PROVE  x < dying'[j]
  <2>1. CASE x \in told
    BY <1>4, <1>7, <2>1 DEF Ordered
  <2>2. CASE x = dying[1]
    BY <1>4, <1>7, <2>2 DEF Ordered
  <2> QED BY <1>1, <1>4, <2>1, <2>2
<1>8. ASSUME NEW j \in DOMAIN dying', NEW k \in DOMAIN dying', j < k,
             target[dying'[j]] = target[dying'[k]]
      PROVE  dying'[j] < dying'[k]
  <2>1. j + 1 < k + 1
    BY <1>4, <1>8
  <2> QED BY <1>4, <1>8, <2>1 DEF Ordered
<1> QED BY <1>1, <1>5, <1>6, <1>7, <1>8 DEF Ordered

LEMMA OrderSteps ==
  ASSUME ClientInv, Ordered, [WCNext]_WCvars
  PROVE  Ordered'
<1>1. ASSUME NEW d \in Server, PipelineRequest(d) PROVE Ordered'
  BY <1>1, PipelineMakes, OrderMakes
<1>2. ASSUME UNCHANGED <<RequestQueue, dying, told, target>> PROVE Ordered'
  BY <1>2 DEF Ordered
<1>3. \/ \E d \in Server : RetrySink(d) \/ TimerSink(d)
      \/ PreProcess \/ ResponseEnded \/ UNCHANGED WCvars
      \/ \E s \in Pool : Connected(s) \/ BodyFollows(s) \/ Reconnects(s) \/ NothingPending(s)
      => Ordered'
  BY <1>2 DEF RetrySink, TimerSink, PreProcess, ResponseEnded, Connected, BodyFollows, Reconnects,
              NothingPending, ConnectionEnds, WCvars, calls, control
<1>4. ASSUME NEW s \in Pool, ConnectFails(s) PROVE Ordered'
  <2>1. user[s] \in Server /\ callback = "none" /\ UNCHANGED <<target, told>>
    BY <1>4, Busy DEF ConnectFails, calls
  <2>2. \/ /\ dying' = RequestQueue[user[s]]
           /\ RequestQueue' = [RequestQueue EXCEPT ![user[s]] = <<>>]
        \/ UNCHANGED <<dying, RequestQueue>>
    BY <1>4 DEF ConnectFails
  <2> QED BY <1>2, <2>1, <2>2, OrderGivesUp
<1>5. ASSUME NEW s \in Pool, ResponseDone(s) \/ FirstFails(s) PROVE Ordered'
  <2>1. /\ user[s] \in Server /\ callback # "destroy" /\ UNCHANGED <<target, dying, RequestQueue>>
        /\ told' = told \cup {Head(RequestQueue[user[s]])} /\ Pending(user[s])
    BY <1>5, Busy DEF ResponseDone, OnData, FirstFails, ConnectionEnds, calls, Pending
  <2>2. /\ RequestQueue[user[s]] \in Seq(Request)
        /\ Len(RequestQueue[user[s]]) = Len(RequestQueue[user[s]]) - 0
        /\ \A i \in 1 .. Len(RequestQueue[user[s]]) : i = i + 0
    BY <2>1, FirstOf
  <2> QED BY <2>1, <2>2, OrderAdvances
<1>6. ASSUME NEW s \in Pool, ResponseEnds(s) PROVE Ordered'
  <2>1. /\ user[s] \in Server /\ callback # "destroy" /\ UNCHANGED <<target, dying>>
        /\ told' = told \cup {Head(RequestQueue[user[s]])} /\ Pending(user[s])
        /\ RequestQueue' = [RequestQueue EXCEPT ![user[s]] = Tail(RequestQueue[user[s]])]
    BY <1>6, Busy DEF ResponseEnds, ConnectionEnds, Dequeued, calls
  <2>2. /\ \A e \in Server \ {user[s]} : RequestQueue'[e] = RequestQueue[e]
        /\ RequestQueue'[user[s]] = Tail(RequestQueue[user[s]])
    BY <2>1 DEF ClientInv, ClientTypes, WCTypeOK
  <2> QED BY <2>1, <2>2, FirstOf, OrderAdvances
<1>7. CASE FinishedResponse \/ FirstFailed
  <2>1. PICK q : /\ RequestQueue' = [RequestQueue EXCEPT ![current] = q]
                 /\ q \in {Tail(RequestQueue[current]),
                          NextDropped(Tail(RequestQueue[current]))}
    BY <1>7 DEF FinishedResponse, FirstFailed, Dequeued
  <2>2. /\ current \in Server /\ Pending(current) /\ callback # "destroy"
        /\ UNCHANGED <<target, dying, told>>
    BY <1>7 DEF FinishedResponse, FirstFailed, calls, ClientInv, CalledBack, ClientTypes, WCTypeOK
  <2>3. /\ \A e \in Server \ {current} : RequestQueue'[e] = RequestQueue[e]
        /\ RequestQueue'[current] = q
    BY <2>1, <2>2 DEF ClientInv, ClientTypes, WCTypeOK
  <2>4. PICK k \in Nat : /\ q \in Seq(Request) /\ Len(q) = Len(RequestQueue[current]) - k
                         /\ \A i \in 1 .. Len(q) : q[i] = RequestQueue[current][i + k]
    BY <2>1, <2>2, Shortened
  <2> QED BY <2>2, <2>3, <2>4, OrderAdvances
<1>8. CASE DestroyRequest
  BY <1>8, OrderDestroys
<1> QED BY <1>1, <1>3, <1>4, <1>5, <1>6, <1>7, <1>8 DEF WCNext, Answer, OnDisconnect, CallbackReturns
-----------------------------------------------------------------------------
(* The theorems *)

LEMMA ClientStarts ==
  ASSUME WCInit
  PROVE  ClientInv
<1> USE DEF WCInit
<1>1. <<>> \in Seq(Request) /\ <<>> \in Seq(DataTable) /\ <<>> \in Seq(Server)
  OBVIOUS
<1>2. Len(<<>>) = 0 /\ DOMAIN <<>> = {}
  OBVIOUS
<1>3. ClientTypes
  <2>1. 0 \in Backoffs /\ 0 \in 0 .. 2 ^ RETRY_COUNT
    BY Bounded
  <2>2. 0 \in 0 .. MaxRequests
    BY WebClientAssumption
  <2>3. WCTypeOK
    BY <1>1, <1>2, <2>1, <2>2 DEF WCTypeOK
  <2> QED BY <2>1, <2>3 DEF ClientTypes
<1>4. Queues
  <2>1. \A d \in Server : RequestQueue[d] = <<>>
    OBVIOUS
  <2> QED BY <1>2, <2>1 DEF Queues, Pending
<1>5. Placed /\ CalledBack
  BY DEF Placed, CalledBack
<1>6. Used
  BY DEF Used, UsedAt
<1> QED BY <1>3, <1>4, <1>5, <1>6 DEF ClientInv

LEMMA ClientSteps ==
  ASSUME ClientInv, [WCNext]_WCvars
  PROVE  ClientInv'
<1>1. ASSUME NEW d \in Server, PipelineRequest(d) PROVE ClientInv'
  BY <1>1, RequestKeeps
<1>2. ASSUME NEW d \in Server, RetrySink(d) PROVE ClientInv'
  BY <1>2, RetrySinkKeeps
<1>3. ASSUME NEW d \in Server, TimerSink(d) PROVE ClientInv'
  BY <1>3, TimerSinkKeeps
<1>4. CASE PreProcess
  BY <1>4, PreProcessKeeps
<1>5. ASSUME NEW s \in Pool, Connected(s) \/ ConnectFails(s) PROVE ClientInv'
  BY <1>5, ConnectedKeeps, ConnectFailsKeeps
<1>6. ASSUME NEW s \in Pool, Answer(s) PROVE ClientInv'
  BY <1>6, BodyFollowsKeeps, ResponseDoneKeeps DEF Answer
<1>7. ASSUME NEW s \in Pool, OnDisconnect(s) PROVE ClientInv'
  BY <1>7, ResponseEndsKeeps, FirstFailsKeeps, ReconnectsKeeps DEF OnDisconnect
<1>8. CASE CallbackReturns
  BY <1>8, FinishedResponseKeeps, ResponseEndedKeeps, FirstFailedKeeps, DestroyRequestKeeps
     DEF CallbackReturns
<1>9. CASE UNCHANGED WCvars
  <2>1. ClientTypes'
    BY <1>9 DEF ClientInv, ClientTypes, WCTypeOK, Backoffs,
                WCvars, flags, delays, pool, control, calls
  <2> QED BY <1>9, <2>1, NothingSeen DEF WCvars, flags, delays, pool, control, calls
<1> QED BY <1>1, <1>2, <1>3, <1>4, <1>5, <1>6, <1>7, <1>8, <1>9 DEF WCNext

LEMMA ClientInvariant == WCSpec => []ClientInv
BY ClientStarts, ClientSteps, PTL DEF WCSpec

(* Every variable keeps its type; in particular the waiting time of a       *)
(* server is never beyond the last one, timers and backlog know only wcdos  *)
(* that exist.                                                              *)
THEOREM ClientTypeCorrect == WCSpec => []WCTypeOK
<1>1. ClientInv => WCTypeOK
  BY DEF ClientInv, ClientTypes
<1> QED BY <1>1, ClientInvariant, PTL

(* Whatever answers, fails or is asked for, a server has one session under  *)
(* way at most, and one as long as it has requests: it is never connected   *)
(* twice and never forgotten (PreProcess, OnConnect, RetrySink).            *)
THEOREM SessionsAreSingle == WCSpec => []OneSession
<1>1. ASSUME ClientInv, callback = "none", NEW d \in DataTable
      PROVE  Sessions(d) <= 1 /\ (Pending(d) => Sessions(d) = 1)
  <2>1. PlacedAt(d) /\ ~Aside(d)
    BY <1>1 DEF ClientInv, Placed, Aside
  <2>2. \/ Sockets(d) = {} /\ Cardinality(Sockets(d)) = 0
        \/ Sockets(d) # {} /\ Cardinality(Sockets(d)) = 1
    <3>1. ASSUME NEW s \in Sockets(d) PROVE Sockets(d) = {s}
      BY <2>1 DEF PlacedAt, Single
    <3> QED BY <3>1, FS_EmptySet, FS_Singleton
  <2>3. \/ Places(d) = {} /\ Cardinality(Places(d)) = 0
        \/ Places(d) # {} /\ Cardinality(Places(d)) = 1
    <3>1. ASSUME NEW i \in Places(d) PROVE Places(d) = {i}
      BY <2>1 DEF PlacedAt, Single
    <3> QED BY <3>1, FS_EmptySet, FS_Singleton
  <2>4. /\ ~(d \in retryTimer /\ Places(d) # {}) /\ ~(d \in retryTimer /\ Sockets(d) # {})
        /\ ~(Places(d) # {} /\ Sockets(d) # {})
        /\ Pending(d) => d \in retryTimer \/ Places(d) # {} \/ Sockets(d) # {}
    BY <2>1 DEF PlacedAt, Single, Waiting
  <2> QED BY <2>2, <2>3, <2>4 DEF Sessions
<1>2. ClientInv => OneSession
  BY <1>1 DEF OneSession
<1> QED BY <1>2, ClientInvariant, PTL

(* A response goes to the request it answers: on a connection there is one  *)
(* unanswered request at most, the first of the queue of the server it was  *)
(* made for, and nobody was told yet that this one is done (OnData).        *)
THEOREM AnswersGoToTheirRequest == WCSpec => []AnswersItsRequest
<1>1. ASSUME ClientInv, callback = "none", NEW s \in Pool, onWire[s] # <<>>
      PROVE  /\ RequestQueue[user[s]] # <<>> /\ onWire[s] = <<Head(RequestQueue[user[s]])>>
             /\ SOCK[user[s]] = s /\ Head(RequestQueue[user[s]]) \notin told
  <2>1. UsedAt(s) /\ sock[s] = "open" /\ Pending(user[s])
    BY <1>1 DEF ClientInv, Used, UsedAt
  <2>2. user[s] \in Server
    BY <1>1, <2>1, Busy
  <2>3. Head(RequestQueue[user[s]]) \notin told
    BY <1>1, <2>1, <2>2, FirstOf
  <2> QED BY <1>1, <2>1, <2>3 DEF UsedAt, Pending
<1>2. ClientInv => AnswersItsRequest
  BY <1>1 DEF AnswersItsRequest
<1> QED BY <1>2, ClientInvariant, PTL

(* The requests of a server are told they are done in the order they were   *)
(* made and each once, whether answered, failed or destroyed with their     *)
(* wcdo, which may take the requests made before another one replaced it.   *)
THEOREM TellsInOrder == WCSpec => ToldInOrder
<1>1. WCInit => Ordered
  BY DEF WCInit, Ordered
<1>2. ASSUME ClientInv, Ordered, NEW r \in Request, Tells(r), NEW x \in told,
             target[x] = target[r]
      PROVE  x < r
  <2>1. /\ made \in Nat /\ told \subseteq 1 .. made
        /\ \A d \in Server : \A i \in DOMAIN RequestQueue[d] :
             RequestQueue[d][i] \in 1 .. made /\ target[RequestQueue[d][i]] = d
        /\ \A d \in Server : Pending(d) =>
             1 \in DOMAIN RequestQueue[d] /\ Head(RequestQueue[d]) = RequestQueue[d][1]
    BY <1>2, Numbers
  <2>2. ASSUME NEW s \in Pool, ResponseDone(s) \/ ResponseEnds(s) \/ FirstFails(s),
               r = Head(RequestQueue[user[s]])
        PROVE  x < r
    <3>1. user[s] \in Server /\ callback = "none" /\ Pending(user[s])
      BY <1>2, <2>2, Busy
         DEF ResponseDone, OnData, ResponseEnds, FirstFails, ConnectionEnds, Pending
    <3>2. /\ 1 \in DOMAIN RequestQueue[user[s]] /\ r = RequestQueue[user[s]][1]
          /\ target[r] = user[s] /\ r \in 1 .. made /\ x \in 1 .. made
      BY <1>2, <2>1, <2>2, <3>1
    <3>3. x <= r
      BY <1>2, <3>1, <3>2 DEF Ordered
    <3>4. r \notin told
      BY <1>2, <2>2, <3>1, FirstOf
    <3> QED BY <1>2, <2>1, <3>2, <3>3, <3>4
  <2>3. CASE DestroyRequest /\ r = Head(dying)
    <3>1. dying \in Seq(Request) /\ dying # <<>>
      BY <1>2, <2>3 DEF DestroyRequest, ClientInv, ClientTypes, WCTypeOK, Queues
    <3>2. 1 \in DOMAIN dying /\ r = dying[1]
      BY <2>3, <3>1, Tailed
    <3> QED BY <1>2, <3>2 DEF Ordered
  <2> QED BY <1>2, <2>2, <2>3 DEF Tells
<1>3. ClientInv /\ Ordered /\ [WCNext]_WCvars =>
        [\A r \in Request : Tells(r) => \A x \in told : target[x] = target[r] => x < r]_WCvars
  BY <1>2
<1>4. ClientInv /\ Ordered /\ [WCNext]_WCvars => Ordered'
  BY OrderSteps
<1> QED BY <1>1, <1>3, <1>4, ClientInvariant, PTL DEF WCSpec, ToldInOrder
=============================================================================
