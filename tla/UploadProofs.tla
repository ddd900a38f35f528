---------------------------- MODULE UploadProofs ----------------------------
(***************************************************************************)
(* Proofs about Upload for any number of names, connections and requests.  *)
(* The inductive invariant comes in layers, each proved with the ones      *)
(* before: Shape (types, the table, where a thread or a connection may     *)
(* be), Single (a transfer has its name and its request for itself, and is *)
(* ended once), Files (whose file is where).                               *)
(***************************************************************************)
EXTENDS Upload, TLAPS

Types ==
  /\ temp \in [Name -> File \cup {NoFile}] /\ media \in [Name -> File \cup {NoFile}]
  /\ size \in [File \cup {NoFile} -> {"empty", "part", "whole"}] /\ cut \subseteq Connection
  /\ UploadRequests \in [Name -> Request \cup {NoRequest}]
  /\ made \in 0 .. MaxRequests /\ name \in [Request -> Name]
  /\ TransferStatus \in [Request -> Connection \cup {NoConnection}]
  /\ freed \subseteq 1 .. made /\ timers \subseteq 1 .. made
  /\ create \in [Request -> {"idle", "delete", "open", "add", "time"}]
  /\ destroying \subseteq Name
  /\ conn \in [Connection -> {"new", "body", "paused", "refused", "answered", "closed"}]
  /\ User3 \subseteq Connection /\ done \subseteq Connection
  /\ request \in [Connection -> 0 .. made] /\ file \in [Connection -> File \cup {NoFile}]
  /\ pool \in [Connection -> {"idle", "write", "send", "clear", "enter"}]
  /\ pc \in {"ready", "overwrite", "append", "enter"} /\ locked \in BOOLEAN
  /\ pc # "ready" => cur \in Connection
  /\ calls \in [Connection -> Nat]
  /\ stale \subseteq Connection /\ disturbed \subseteq Connection

(* An entry of the table is a request of its name that is not freed, and a  *)
(* temporary file has an entry or is about to get one.                      *)
Entered(n) ==
  UploadRequests[n] # NoRequest =>
    /\ UploadRequests[n] \in 1 .. made /\ UploadRequests[n] \notin freed
    /\ name[UploadRequests[n]] = n

Owned(n) ==
  \/ temp[n] = NoFile \/ UploadRequests[n] # NoRequest
  \/ \E r \in Request : create[r] = "add" /\ name[r] = n

(* Nobody else knows a request before it is in the table.                   *)
Early(r) == create[r] \in {"delete", "open", "add"}
Creating(r) ==
  /\ create[r] # "idle" => r \in 1 .. made
  /\ Early(r) => r \notin freed /\ \A n \in Name : UploadRequests[n] # r

(* What a POST has found stays in the table as long as it has the lock.     *)
Finding ==
  pc \in {"overwrite", "append"} =>
    /\ locked /\ conn[cur] = "new"
    /\ entry \in 1 .. made /\ UploadRequests[name[entry]] = entry

Table ==
  /\ \A n \in Name : Entered(n) /\ Owned(n)
  /\ \A r \in Request : Creating(r)
  /\ Finding

Ending(c) == pc = "enter" /\ cur = c

(* A connection has a transfer from its POST on; while the body comes in,   *)
(* microstack thread and pool take turns, and nothing else ends it.         *)
Phases ==
  \A c \in Connection :
    /\ request[c] = NoRequest =>
         /\ pool[c] = "idle" /\ c \notin User3 /\ c \notin disturbed /\ c \notin stale
         /\ calls[c] = 0 /\ conn[c] \in {"new", "refused", "closed"} /\ ~Ending(c)
    /\ conn[c] = "new" => request[c] = NoRequest
    /\ conn[c] = "body" => pool[c] = "idle"
    /\ pool[c] \in {"write", "send"} <=> conn[c] = "paused"
    /\ conn[c] \in {"body", "paused"} =>
         calls[c] = 0 /\ c \in User3 /\ file[c] # NoFile /\ ~Ending(c)
    /\ pool[c] \in {"clear", "enter"} => conn[c] \in {"answered", "closed"}
    /\ pool[c] = "send" => c \in done
    /\ conn[c] # "closed" /\ c \in User3 => calls[c] = 0 /\ pool[c] # "enter"
    /\ Ending(c) => conn[c] = "closed"

Shape == Types /\ Table /\ Phases

LEMMA ShapeInit == Init => Shape
<1> SUFFICES ASSUME Init PROVE Shape
  OBVIOUS
<1> USE UploadAssumption DEF Init
<1>1. Types
  <2>1. /\ temp \in [Name -> File \cup {NoFile}] /\ media \in [Name -> File \cup {NoFile}]
        /\ size \in [File \cup {NoFile} -> {"empty", "part", "whole"}]
        /\ file \in [Connection -> File \cup {NoFile}]
    OBVIOUS
  <2>2. /\ UploadRequests \in [Name -> Request \cup {NoRequest}] /\ made \in 0 .. MaxRequests
        /\ TransferStatus \in [Request -> Connection \cup {NoConnection}]
        /\ request \in [Connection -> 0 .. made]
    BY DEF NoRequest
  <2> QED BY <2>1, <2>2 DEF Types
<1>2. Table /\ Phases
  BY DEF Table, Entered, Owned, Creating, Early, Finding, Phases, Ending
<1> QED BY <1>1, <1>2 DEF Shape

(* What the callback of a transfer does to the table and the files.         *)
Removes(n) ==
  /\ UploadRequests[n] # NoRequest /\ RemoveEntry(n)
  /\ temp' = [temp EXCEPT ![n] = NoFile]

LEMMA Callback ==
  ASSUME Shape, NEW c \in Connection, request[c] # NoRequest, NEW e, OnContentUploadDone(c, e)
  PROVE  /\ name[request[c]] \in Name
         /\ Removes(name[request[c]]) \/ UNCHANGED <<table, temp>>
         /\ \/ media' = media
            \/ media' = [media EXCEPT ![name[request[c]]] = temp[name[request[c]]]]
<1>1. name[request[c]] \in Name
  BY UploadAssumption DEF Shape, Types, Request, NoRequest
<1> QED BY <1>1 DEF OnContentUploadDone, Finished, Aborted, Removes

(* What fopen "wb" leaves.                                                  *)
LEMMA Opened ==
  ASSUME Shape, NEW n \in Name, NEW f \in File, f # NoFile, Overwrite(n, f)
  PROVE  /\ temp' \in [Name -> File \cup {NoFile}] /\ temp'[n] # NoFile
         /\ temp'[n] = IF temp[n] = NoFile THEN f ELSE temp[n]
         /\ \A m \in Name \ {n} : temp'[m] = temp[m]
         /\ size' = [size EXCEPT ![temp'[n]] = "empty"]
         /\ size' \in [File \cup {NoFile} -> {"empty", "part", "whole"}]
         /\ cut' \subseteq Connection /\ cut \subseteq cut'
         /\ \A c \in Connection : file[c] = temp[n] /\ ~Empty(n) => c \in cut'
BY DEF Overwrite, Shape, Types

LEMMA ShapeCreate ==
  ASSUME Shape, NEW n \in Name, CreateObject(n)
  PROVE  Shape'
<1> USE DEF CreateObject, files, table, transfers, thread, history
<1>0. PICK r \in Request : r = made + 1
  BY UploadAssumption DEF Shape, Types, Request
<1>1. /\ made' = r /\ create' = [create EXCEPT ![r] = "delete"] /\ r \notin 1 .. made
      /\ 1 .. made \subseteq 1 .. made' /\ 0 .. made \subseteq 0 .. made'
      /\ r \in 1 .. made' /\ made' \in 0 .. MaxRequests
  BY <1>0, UploadAssumption DEF Shape, Types, Request
<1>2. Types'
  BY <1>1 DEF Shape, Types
<1>3. Table'
  <2>1. \A m \in Name : UploadRequests[m] # r
    BY <1>1, <1>0, UploadAssumption DEF Shape, Types, Table, Entered, NoRequest
  <2>2. \A q \in Request : q # r => create'[q] = create[q]
    BY <1>1 DEF Shape, Types
  <2>3. \A q \in Request : Creating(q)'
    <3> SUFFICES ASSUME NEW q \in Request PROVE Creating(q)'
      OBVIOUS
    <3>1. CASE q = r
      BY <1>1, <2>1, <3>1 DEF Creating, Early, Shape, Types
    <3>2. CASE q # r
      BY <1>1, <2>2, <3>2 DEF Creating, Early, Shape, Table
    <3> QED BY <3>1, <3>2
  <2>4. \A m \in Name : Entered(m)'
    BY <1>1 DEF Shape, Types, Table, Entered
  <2>5. create[r] = "idle"
    BY <1>1 DEF Shape, Types, Table, Creating
  <2>6. \A m \in Name : Owned(m)'
    <3> SUFFICES ASSUME NEW m \in Name PROVE Owned(m)'
      OBVIOUS
    <3>1. Owned(m)
      BY DEF Shape, Table
    <3>2. \A q \in Request : create[q] = "add" => create'[q] = "add"
      BY <2>2, <2>5
    <3> QED BY <3>1, <3>2 DEF Owned
  <2>7. Finding'
    BY <1>1 DEF Shape, Types, Table, Finding
  <2> QED BY <2>3, <2>4, <2>6, <2>7 DEF Table
<1>4. Phases'
  BY DEF Shape, Phases, Ending
<1> QED BY <1>2, <1>3, <1>4 DEF Shape

LEMMA ShapeCreates ==
  ASSUME Shape, NEW r \in Request, Creates(r)
  PROVE  Shape'
<1> PICK step, next : At(r, step, next) /\ next \in {"open", "add", "time", "idle"} /\ step # "idle"
  BY DEF Creates, DeleteMedia, CreateFile, AddEntry, AddTimer
<1>0. /\ create' = [create EXCEPT ![r] = next] /\ create[r] = step
      /\ \A q \in Request : create'[q] = IF q = r THEN next ELSE create[q]
      /\ r \in 1 .. made /\ name[r] \in Name
      /\ UNCHANGED <<made, name, destroying, User3, request, file, done, conn, pool, pc, cur, entry,
                     locked, calls, stale, disturbed>>
  BY DEF At, requests, transfers, thread, history, Shape, Types, Table, Creating
<1>1. Phases'
  BY <1>0 DEF Shape, Phases, Ending
<1>2. CASE DeleteMedia(r)
  <2>1. /\ UNCHANGED <<temp, size, cut, UploadRequests, TransferStatus, freed, timers>>
        /\ media' = [media EXCEPT ![name[r]] = NoFile]
        /\ create[r] = "delete" /\ create'[r] = "open"
    BY <1>2 DEF DeleteMedia, At, table, Shape, Types
  <2>2. Types'
    BY <1>0, <2>1 DEF Shape, Types
  <2>3. Table'
    BY <1>0, <2>1 DEF Shape, Table, Entered, Owned, Creating, Early, Finding
  <2> QED BY <1>1, <2>2, <2>3 DEF Shape
<1>3. CASE CreateFile(r)
  <2>1. /\ UNCHANGED <<media, UploadRequests, TransferStatus, freed, timers>>
        /\ Overwrite(name[r], [by |-> r]) /\ create[r] = "open" /\ create'[r] = "add"
    BY <1>3 DEF CreateFile, At, table, Shape, Types
  <2>2. [by |-> r] \in File /\ [by |-> r] # NoFile
    BY DEF File, Created, NoFile, Request, NoRequest
  <2>3. /\ temp' \in [Name -> File \cup {NoFile}] /\ cut' \subseteq Connection
        /\ size' \in [File \cup {NoFile} -> {"empty", "part", "whole"}]
        /\ \A m \in Name \ {name[r]} : temp'[m] = temp[m]
    BY <1>0, <2>1, <2>2, Opened
  <2>4. Types'
    BY <1>0, <2>1, <2>3 DEF Shape, Types
  <2>5. \A m \in Name : Owned(m)'
    BY <1>0, <2>1, <2>3 DEF Shape, Table, Owned
  <2>6. Table'
    BY <1>0, <2>1, <2>5 DEF Shape, Table, Entered, Creating, Early, Finding
  <2> QED BY <1>1, <2>4, <2>6 DEF Shape
<1>4. CASE AddEntry(r)
  <2>1. /\ UNCHANGED <<temp, media, size, cut, TransferStatus, freed, timers>>
        /\ UploadRequests' = [UploadRequests EXCEPT ![name[r]] = r]
        /\ ~locked /\ create[r] = "add" /\ create'[r] = "time"
    BY <1>4 DEF AddEntry, At, files, Shape, Types
  <2>2. Types'
    BY <1>0, <2>1 DEF Shape, Types
  <2>3. /\ \A m \in Name : UploadRequests'[m] = IF m = name[r] THEN r ELSE UploadRequests[m]
        /\ r # NoRequest /\ r \notin freed
    BY <1>0, <2>1 DEF Shape, Types, Table, Creating, Early, NoRequest, Request
  <2>4. \A m \in Name : Entered(m)' /\ Owned(m)'
    BY <1>0, <2>1, <2>3 DEF Shape, Table, Entered, Owned
  <2>5. \A q \in Request : Creating(q)'
    BY <1>0, <2>1, <2>3 DEF Shape, Table, Creating, Early
  <2>6. Finding'
    BY <1>0, <2>1 DEF Shape, Table, Finding
  <2> QED BY <1>1, <2>2, <2>4, <2>5, <2>6 DEF Shape, Table
<1>5. CASE AddTimer(r)
  <2>1. /\ UNCHANGED <<temp, media, size, cut, UploadRequests, TransferStatus, freed>>
        /\ timers' = timers \cup {r} \/ timers' = timers
        /\ create[r] = "time" /\ create'[r] = "idle"
    BY <1>5 DEF AddTimer, At, files, table, Shape, Types
  <2>2. Types'
    BY <1>0, <2>1 DEF Shape, Types
  <2>3. Table'
    BY <1>0, <2>1 DEF Shape, Table, Entered, Owned, Creating, Early, Finding
  <2> QED BY <1>1, <2>2, <2>3 DEF Shape
<1> QED BY <1>2, <1>3, <1>4, <1>5 DEF Creates

LEMMA ShapeDestroy ==
  ASSUME Shape, NEW n \in Name, DestroyObject(n) \/ DestroyTemp(n)
  PROVE  Shape'
<1> USE DEF DestroyTemp, DestroyObject, requests, table, transfers, thread, history
<1>1. Types'
  <2>1. CASE DestroyTemp(n)
    BY <2>1 DEF Shape, Types
  <2>2. CASE DestroyObject(n)
    BY <2>2 DEF Shape, Types
  <2> QED BY <2>1, <2>2
<1>2. \A m \in Name : temp'[m] \in {NoFile, temp[m]}
  BY DEF Shape, Types
<1>3. Table'
  BY <1>2 DEF Shape, Types, Table, Entered, Owned, Creating, Early, Finding
<1>4. Phases'
  BY DEF Shape, Phases, Ending
<1> QED BY <1>1, <1>3, <1>4 DEF Shape

(* With an entry goes its file.                                             *)
LEMMA ShapeRemoves ==
  ASSUME Shape, NEW n \in Name, Removes(n), UNCHANGED <<name, made, create>>,
         pc' \in {"ready", "enter"}
  PROVE  /\ UploadRequests' \in [Name -> Request \cup {NoRequest}]
         /\ TransferStatus' \in [Request -> Connection \cup {NoConnection}]
         /\ freed' \subseteq 1 .. made /\ temp' \in [Name -> File \cup {NoFile}]
         /\ Table'
<1> USE DEF Removes, RemoveEntry
<1>1. UploadRequests[n] \in 1 .. made
  BY DEF Shape, Table, Entered
<1>2. /\ UploadRequests[n] \in Request
      /\ freed' = freed \cup {UploadRequests[n]}
      /\ \A m \in Name : UploadRequests'[m] = IF m = n THEN NoRequest ELSE UploadRequests[m]
      /\ \A m \in Name : temp'[m] = IF m = n THEN NoFile ELSE temp[m]
  BY <1>1, UploadAssumption DEF Shape, Types, Request
<1>3. \A m \in Name : Entered(m)'
  BY <1>2 DEF Shape, Table, Entered
<1>4. \A r \in Request : Creating(r)'
  BY <1>2 DEF Shape, Table, Creating, Early, NoRequest, Request
<1>5. \A m \in Name : Owned(m)'
  BY <1>2 DEF Shape, Table, Owned
<1>6. Finding'
  BY DEF Finding
<1>7. /\ UploadRequests' \in [Name -> Request \cup {NoRequest}]
      /\ TransferStatus' \in [Request -> Connection \cup {NoConnection}]
  BY <1>2 DEF Shape, Types
<1>8. temp' \in [Name -> File \cup {NoFile}]
  BY DEF Shape, Types
<1> QED BY <1>1, <1>2, <1>3, <1>4, <1>5, <1>6, <1>7, <1>8 DEF Shape, Types, Table

LEMMA ShapeExpired ==
  ASSUME Shape, NEW r \in Request, Expired(r)
  PROVE  Shape'
<1>0. /\ pc = "ready" /\ timers' = timers \ {r} /\ name[r] \in Name
      /\ UNCHANGED <<media, size, cut, made, name, create, destroying, User3, request, file, done,
                     conn, pool, pc, cur, entry, locked, calls, stale, disturbed>>
  BY DEF Expired, Ready, requests, actions, transfers, thread, history, Shape, Types
<1>1. Phases'
  BY <1>0 DEF Shape, Phases, Ending
<1>2. CASE NotStarted(name[r])
  <2>1. Removes(name[r])
    BY <1>2 DEF Expired, Removes, NotStarted
  <2>2. /\ UploadRequests' \in [Name -> Request \cup {NoRequest}]
        /\ TransferStatus' \in [Request -> Connection \cup {NoConnection}]
        /\ freed' \subseteq 1 .. made /\ temp' \in [Name -> File \cup {NoFile}]
        /\ Table'
    BY <1>0, <2>1, ShapeRemoves
  <2>3. Types'
    BY <1>0, <2>2 DEF Shape, Types
  <2> QED BY <1>1, <2>2, <2>3 DEF Shape
<1>3. CASE ~NotStarted(name[r])
  <2>1. UNCHANGED <<temp, UploadRequests, TransferStatus, freed>>
    BY <1>3 DEF Expired, table
  <2>2. Types'
    BY <1>0, <2>1 DEF Shape, Types
  <2>3. Table'
    BY <1>0, <2>1 DEF Shape, Table, Entered, Owned, Creating, Early, Finding
  <2> QED BY <1>1, <2>2, <2>3 DEF Shape
<1> QED BY <1>2, <1>3

(* A POST binds its transfer to the entry of its name.                      *)
LEMMA Found ==
  ASSUME Shape, NEW c \in Connection, cur = c, pc \in {"overwrite", "append"}
  PROVE  /\ conn[c] = "new" /\ request[c] = NoRequest /\ locked
         /\ entry \in 1 .. made /\ entry \in Request /\ entry # NoRequest
         /\ name[entry] \in Name /\ UploadRequests[name[entry]] = entry /\ entry \notin freed
<1>1. conn[c] = "new" /\ locked /\ entry \in 1 .. made /\ UploadRequests[name[entry]] = entry
  BY DEF Shape, Table, Finding
<1>2. entry \in Request /\ entry # NoRequest /\ name[entry] \in Name
  BY <1>1, UploadAssumption DEF Shape, Types, Request, NoRequest
<1> QED BY <1>1, <1>2 DEF Shape, Table, Entered, Phases

LEMMA Bound ==
  ASSUME Shape, NEW c \in Connection, cur = c, pc \in {"overwrite", "append"}, Register(c)
  PROVE  /\ request' = [request EXCEPT ![c] = entry]
         /\ request'[c] = entry /\ \A d \in Connection \ {c} : request'[d] = request[d]
         /\ temp' \in [Name -> File \cup {NoFile}] /\ temp'[name[entry]] # NoFile
         /\ \A m \in Name \ {name[entry]} : temp'[m] = temp[m]
         /\ temp'[name[entry]] \in {temp[name[entry]], [by |-> c]}
         /\ size' \in [File \cup {NoFile} -> {"empty", "part", "whole"}]
         /\ cut' \subseteq Connection /\ cut \subseteq cut'
         /\ file' = [file EXCEPT ![c] = temp'[name[entry]]]
         /\ file' \in [Connection -> File \cup {NoFile}]
         /\ User3' = User3 \cup {c}
         /\ disturbed \subseteq disturbed' /\ Under(name[entry]) \subseteq disturbed'
         /\ disturbed' \subseteq Connection
         /\ \A d \in disturbed' : d \in disturbed \/ d = c \/ request[d] # NoRequest
         /\ c \in disturbed' => c \in disturbed \/ Under(name[entry]) # {}
         /\ UNCHANGED <<media, made, name, UploadRequests, freed, timers, create, destroying, calls,
                        stale>>
<1> USE DEF Register, requests, actions
<1>1. [by |-> c] \in File /\ [by |-> c] # NoFile
  BY UploadAssumption DEF File, Posted, NoFile
<1>2. entry \in 1 .. made /\ name[entry] \in Name
  BY Found
<1>3. /\ temp' \in [Name -> File \cup {NoFile}] /\ temp'[name[entry]] # NoFile
      /\ \A m \in Name \ {name[entry]} : temp'[m] = temp[m]
      /\ temp'[name[entry]] \in {temp[name[entry]], [by |-> c]}
      /\ size' \in [File \cup {NoFile} -> {"empty", "part", "whole"}]
      /\ cut' \subseteq Connection /\ cut \subseteq cut'
  <2>1. CASE Overwrite(name[entry], [by |-> c])
    BY <1>1, <1>2, <2>1, Opened
  <2>2. CASE temp[name[entry]] # NoFile /\ UNCHANGED <<temp, size, cut>>
    BY <2>2 DEF Shape, Types
  <2> QED BY <2>1, <2>2
<1>4. file' \in [Connection -> File \cup {NoFile}]
  BY <1>2, <1>3 DEF Shape, Types
<1>5. request'[c] = entry /\ \A d \in Connection \ {c} : request'[d] = request[d]
  BY DEF Shape, Types
<1>6. Under(name[entry]) \subseteq Connection /\ \A d \in Under(name[entry]) : request[d] # NoRequest
  BY DEF Under
<1>7. /\ disturbed \subseteq disturbed' /\ Under(name[entry]) \subseteq disturbed'
      /\ disturbed' \subseteq Connection
      /\ \A d \in disturbed' : d \in disturbed \/ d = c \/ request[d] # NoRequest
      /\ c \in disturbed' => c \in disturbed \/ Under(name[entry]) # {}
  BY <1>6 DEF Shape, Types
<1> QED BY <1>3, <1>4, <1>5, <1>7

(* A POST goes one of these ways, with or without a transfer.               *)
Bodied(c) ==
  \/ conn' = [conn EXCEPT ![c] = "body"] /\ UNCHANGED <<pool, done>> /\ pc' = "ready"
  \/ /\ conn' = [conn EXCEPT ![c] = "paused"] /\ pool' = [pool EXCEPT ![c] = "write"]
     /\ done' = done \cup {c} /\ pc' = "ready"

Denied(c) ==
  \/ conn' = [conn EXCEPT ![c] = "refused"] /\ UNCHANGED <<pool, done>> /\ pc' = "ready"
  \/ /\ conn' = [conn EXCEPT ![c] = "closed"] /\ UNCHANGED <<pool, done>>
     /\ pc' = "enter" /\ cur' = c /\ locked'

LEMMA Ways ==
  ASSUME Shape, NEW c \in Connection, Posts(c)
  PROVE  /\ cur = c /\ pc \in {"overwrite", "append"}
         /\ locked' \in BOOLEAN
         /\ \/ TransferStatus' = TransferStatus
            \/ TransferStatus' = [TransferStatus EXCEPT ![entry] = NoConnection]
            \/ TransferStatus' = [TransferStatus EXCEPT ![entry] = c] /\ Register(c)
         /\ \/ Register(c) /\ Bodied(c) /\ TransferStatus' = [TransferStatus EXCEPT ![entry] = c]
            \/ Register(c) /\ Denied(c)
            \/ /\ NotAcceptable(c) /\ conn' = [conn EXCEPT ![c] = "refused"] /\ pc' = "ready"
               /\ UNCHANGED <<temp, media, size, cut, made, name, UploadRequests, freed, timers,
                              create, destroying, User3, request, file, done, pool, calls, stale>>
               /\ disturbed' = disturbed \cup Under(name[entry])
<1>1. CASE Post(c)
  BY <1>1 DEF Post, Posting, Bodied
<1>2. CASE NotAcceptable(c)
  BY <1>2 DEF NotAcceptable, Posting, files, requests, actions, transfers
<1>3. CASE ExpectationFailed(c)
  BY <1>3 DEF ExpectationFailed, Posting, Denied
<1>4. CASE Conflict(c)
  <2>1. locked /\ (cur = c \/ Posting(c, NoConnection))
    BY <1>4, Found DEF Conflict, Posting
  <2> QED BY <1>4, <2>1 DEF Conflict, Posting, Denied
<1> QED BY <1>1, <1>2, <1>3, <1>4 DEF Posts

LEMMA ShapePosts ==
  ASSUME Shape, NEW c \in Connection, Posts(c)
  PROVE  Shape'
<1>0. /\ cur = c /\ pc \in {"overwrite", "append"} /\ locked' \in BOOLEAN
      /\ conn[c] = "new" /\ request[c] = NoRequest /\ entry \in 1 .. made /\ entry \in Request
      /\ entry # NoRequest /\ name[entry] \in Name /\ UploadRequests[name[entry]] = entry
      /\ TransferStatus' \in [Request -> Connection \cup {NoConnection}]
  <2>1. /\ cur = c /\ pc \in {"overwrite", "append"} /\ locked' \in BOOLEAN
        /\ \/ TransferStatus' = TransferStatus
           \/ \E l \in {c, NoConnection} :
                TransferStatus' = [TransferStatus EXCEPT ![entry] = l]
    BY Ways
  <2>2. TransferStatus' \in [Request -> Connection \cup {NoConnection}]
    BY <2>1 DEF Shape, Types
  <2> QED BY <2>1, <2>2, Found
<1>a. pool[c] = "idle" /\ calls[c] = 0 /\ ~Ending(c) /\ c \notin User3 /\ c \notin stale
  BY <1>0 DEF Shape, Phases
<1>b. \A d \in Connection : ~Ending(d)
  BY <1>0 DEF Ending
<1>1. CASE NotAcceptable(c)
  <2>1. /\ conn' = [conn EXCEPT ![c] = "refused"] /\ pc' = "ready"
        /\ UNCHANGED <<temp, media, size, cut, made, name, UploadRequests, freed, timers,
                       create, destroying, User3, request, file, done, pool, calls, stale>>
        /\ disturbed' = disturbed \cup Under(name[entry])
    BY <1>1 DEF NotAcceptable, Posting, files, requests, actions, transfers
  <2>2. Under(name[entry]) \subseteq Connection /\ \A d \in Under(name[entry]) : request[d] # NoRequest
    BY DEF Under
  <2>3. Types'
    BY <1>0, <2>1, <2>2 DEF Shape, Types
  <2>4. Table'
    BY <2>1 DEF Shape, Table, Entered, Owned, Creating, Early, Finding
  <2>5. Phases'
    BY <1>0, <1>b, <2>1, <2>2 DEF Shape, Types, Phases, Ending
  <2> QED BY <2>3, <2>4, <2>5 DEF Shape
<1>2. CASE Register(c) /\ (Bodied(c) \/ Denied(c))
  <2>1. /\ request' = [request EXCEPT ![c] = entry]
        /\ request'[c] = entry /\ \A d \in Connection \ {c} : request'[d] = request[d]
        /\ temp' \in [Name -> File \cup {NoFile}] /\ temp'[name[entry]] # NoFile
        /\ \A m \in Name \ {name[entry]} : temp'[m] = temp[m]
        /\ size' \in [File \cup {NoFile} -> {"empty", "part", "whole"}]
        /\ cut' \subseteq Connection
        /\ file' = [file EXCEPT ![c] = temp'[name[entry]]]
        /\ file' \in [Connection -> File \cup {NoFile}]
        /\ User3' = User3 \cup {c} /\ disturbed' \subseteq Connection
        /\ \A d \in disturbed' : d \in disturbed \/ d = c \/ request[d] # NoRequest
        /\ UNCHANGED <<media, made, name, UploadRequests, freed, timers, create, destroying, calls,
                       stale>>
    BY <1>0, <1>2, Bound
  <2>2. Types'
    <3>1. /\ conn' \in [Connection -> {"new", "body", "paused", "refused", "answered", "closed"}]
          /\ pool' \in [Connection -> {"idle", "write", "send", "clear", "enter"}]
          /\ done' \subseteq Connection /\ pc' \in {"ready", "enter"}
          /\ pc' # "ready" => cur' \in Connection
      BY <1>2 DEF Bodied, Denied, Shape, Types
    <3>2. request' \in [Connection -> 0 .. made'] /\ User3' \subseteq Connection
      BY <1>0, <2>1 DEF Shape, Types
    <3>3. /\ calls' \in [Connection -> Nat] /\ media' \in [Name -> File \cup {NoFile}]
          /\ made' \in 0 .. MaxRequests /\ name' \in [Request -> Name]
          /\ freed' \subseteq 1 .. made' /\ timers' \subseteq 1 .. made'
      BY <2>1 DEF Shape, Types
    <3>4. /\ UploadRequests' \in [Name -> Request \cup {NoRequest}] /\ stale' \subseteq Connection
          /\ create' \in [Request -> {"idle", "delete", "open", "add", "time"}]
          /\ destroying' \subseteq Name
      BY <2>1 DEF Shape, Types
    <3> QED BY <1>0, <2>1, <3>1, <3>2, <3>3, <3>4 DEF Types
  <2>3. Table'
    <3>1. pc' \in {"ready", "enter"}
      BY <1>2 DEF Bodied, Denied
    <3>2. \A m \in Name : Owned(m)'
      BY <1>0, <2>1 DEF Shape, Table, Owned
    <3>3. \A m \in Name : Entered(m)'
      BY <2>1 DEF Shape, Table, Entered
    <3>4. \A r \in Request : Creating(r)'
      BY <2>1 DEF Shape, Table, Creating, Early
    <3> QED BY <3>1, <3>2, <3>3, <3>4 DEF Table, Finding
  <2>4. Phases'
    <3>1. /\ file'[c] # NoFile /\ \A d \in Connection \ {c} : file'[d] = file[d]
          /\ \A d \in Connection \ {c} :
               /\ conn'[d] = conn[d] /\ pool'[d] = pool[d] /\ (d \in done' <=> d \in done)
               /\ ~Ending(d)'
      BY <1>2, <2>1 DEF Bodied, Denied, Ending, Shape, Types
    <3>2. \/ conn'[c] = "body" /\ pool'[c] = "idle" /\ ~Ending(c)'
          \/ conn'[c] = "paused" /\ pool'[c] = "write" /\ c \in done' /\ ~Ending(c)'
          \/ conn'[c] = "refused" /\ pool'[c] = "idle" /\ ~Ending(c)'
          \/ conn'[c] = "closed" /\ pool'[c] = "idle"
      BY <1>2, <1>a DEF Bodied, Denied, Ending, Shape, Types
    <3> QED BY <1>0, <1>a, <1>b, <2>1, <3>1, <3>2 DEF Shape, Phases
  <2> QED BY <2>2, <2>3, <2>4 DEF Shape
<1> QED BY <1>1, <1>2, Ways

LEMMA ShapeFinds ==
  ASSUME Shape, NEW c \in Connection, NEW n \in Name, OnContentUpload(c, n)
  PROVE  Shape'
<1> USE DEF OnContentUpload, Ready, files, requests, table, actions, transfers, history
<1>1. UploadRequests[n] \in 1 .. made /\ name[UploadRequests[n]] = n
  BY DEF Shape, Table, Entered
<1>2. Types'
  BY DEF Shape, Types
<1>3. Finding'
  BY <1>1 DEF Finding
<1>4. Table'
  BY <1>3 DEF Shape, Table, Entered, Owned, Creating, Early
<1>5. Phases'
  BY DEF Shape, Phases, Ending
<1> QED BY <1>2, <1>4, <1>5 DEF Shape

(* The steps of one connection that leave table and files alone.            *)
LEMMA ShapeMoves ==
  ASSUME Shape, NEW c \in Connection,
         Receive(c) \/ Disconnect(c) \/ Write(c) \/ SendOK(c) \/ Clear(c)
  PROVE  Shape'
<1> USE DEF Goes, files, requests, table, actions, transfers, thread, history
<1>1. Types'
  <2>1. CASE Receive(c)
    BY <2>1 DEF Receive, Shape, Types, Ready
  <2>2. CASE Disconnect(c)
    BY <2>2 DEF Disconnect, Shape, Types, Ready
  <2>3. CASE Write(c)
    <3>1. /\ size' \in [File \cup {NoFile} -> {"empty", "part", "whole"}]
          /\ pool' \in [Connection -> {"idle", "write", "send", "clear", "enter"}]
      BY <2>3 DEF Write, Shape, Types
    <3>2. conn' \in [Connection -> {"new", "body", "paused", "refused", "answered", "closed"}]
      BY <2>3 DEF Write, Shape, Types
    <3> QED BY <2>3, <3>1, <3>2 DEF Write, Shape, Types
  <2>4. CASE SendOK(c)
    BY <2>4 DEF SendOK, Shape, Types
  <2>5. CASE Clear(c)
    BY <2>5 DEF Clear, Shape, Types
  <2> QED BY <2>1, <2>2, <2>3, <2>4, <2>5
<1> USE DEF Receive, Disconnect, Write, SendOK, Clear
<1>2. Table'
  <2>1. UNCHANGED <<temp, made, name, UploadRequests, freed, create, entry, locked>>
    OBVIOUS
  <2>2. Finding'
    <3> SUFFICES ASSUME pc' \in {"overwrite", "append"}
                 PROVE  /\ locked' /\ conn'[cur'] = "new"
                        /\ entry' \in 1 .. made' /\ UploadRequests'[name'[entry']] = entry'
      BY DEF Finding
    <3>1. pc \in {"overwrite", "append"} /\ cur' = cur /\ conn[cur] = "new" /\ cur \in Connection
      BY DEF Ready, Shape, Types, Table, Finding
    <3>2. conn[c] # "new"
      BY <3>1 DEF Ready, Shape, Types, Phases
    <3>3. conn'[cur] = conn[cur]
      BY <3>1, <3>2 DEF Shape, Types
    <3> QED BY <2>1, <3>1, <3>3 DEF Shape, Table, Finding
  <2> QED BY <2>1, <2>2 DEF Shape, Table, Entered, Owned, Creating, Early
<1>3. Phases'
  BY DEF Shape, Types, Phases, Ending, Ready
<1> QED BY <1>1, <1>2, <1>3 DEF Shape

LEMMA ShapeDone ==
  ASSUME Shape, AbortDone \/ \E c \in Connection : DoneDone(c)
  PROVE  Shape'
<1> PICK c \in Connection, e \in {"none", "aborted"} :
      /\ OnContentUploadDone(c, e) /\ UNCHANGED <<entry, locked>>
      /\ \/ e = "none" /\ pool[c] = "enter" /\ Goes(c, "idle") /\ UNCHANGED <<User3, pc, cur>>
         \/ /\ e = "aborted" /\ pc = "enter" /\ cur = c /\ User3' = User3 \ {c} /\ pc' = "ready"
            /\ UNCHANGED pool
  BY DEF AbortDone, DoneDone, thread, Shape, Types
<1>1. request[c] # NoRequest /\ conn[c] \in {"answered", "closed"}
  BY DEF Shape, Phases, Ending
<1>2. /\ calls' = [calls EXCEPT ![c] = @ + 1] /\ file' = [file EXCEPT ![c] = NoFile]
      /\ done' = done \ {c} /\ stale' \subseteq stale \cup {c} /\ stale \subseteq stale'
      /\ ~locked
      /\ UNCHANGED <<size, cut, made, name, timers, create, destroying, request, conn, disturbed>>
  BY DEF OnContentUploadDone, requests, actions
<1>a. pc' \in {"ready", "enter"} /\ pc \in {"ready", "enter"}
  BY <1>2 DEF Shape, Types, Table, Finding
<1>3. /\ UploadRequests' \in [Name -> Request \cup {NoRequest}]
      /\ TransferStatus' \in [Request -> Connection \cup {NoConnection}]
      /\ freed' \subseteq 1 .. made /\ temp' \in [Name -> File \cup {NoFile}]
      /\ Table'
  <2>1. CASE Removes(name[request[c]])
    BY <1>1, <1>2, <1>a, <2>1, Callback, ShapeRemoves
  <2>2. CASE UNCHANGED <<table, temp>>
    BY <1>2, <1>a, <2>2 DEF Shape, Types, Table, Entered, Owned, Creating, Early, Finding, table
  <2> QED BY <1>1, <2>1, <2>2, Callback
<1>4. media' \in [Name -> File \cup {NoFile}]
  BY <1>1, Callback DEF Shape, Types
<1>5. Types'
  BY <1>2, <1>3, <1>4 DEF Shape, Types, Goes
<1>6. Phases'
  BY <1>1, <1>2, <1>a DEF Shape, Types, Phases, Ending, Goes
<1> QED BY <1>3, <1>5, <1>6 DEF Shape

LEMMA ShapeStep ==
  ASSUME Shape, [Next]_vars
  PROVE  Shape'
<1>1. CASE UNCHANGED vars
  <2> USE <1>1 DEF vars, files, requests, table, actions, transfers, thread, history
  <2>1. Types' /\ Phases'
    BY DEF Shape, Types, Phases, Ending
  <2>2. Table'
    BY DEF Shape, Table, Entered, Owned, Creating, Early, Finding
  <2> QED BY <2>1, <2>2 DEF Shape
<1> QED BY <1>1, ShapeCreate, ShapeCreates, ShapeDestroy, ShapeExpired, ShapeFinds, ShapePosts,
           ShapeMoves, ShapeDone DEF Next, Saves

LEMMA Invariance == Spec => []Shape
BY ShapeInit, ShapeStep, PTL DEF Spec

(* A temporary file belongs to an upload that is in the table or is just    *)
(* being put there, and an entry to a request that is not freed, whatever   *)
(* the pool, the timers and the connections do: DmsIntegration.c never      *)
(* leaves a file that would have every later CreateObject of its name       *)
(* refused.                                                                 *)
THEOREM TempFilesAreOwned == Spec => []TempFilesOwned
<1>1. Shape => TempFilesOwned
  <2> SUFFICES ASSUME Shape PROVE TempFilesOwned
    OBVIOUS
  <2>1. NoRequest \notin freed
    BY DEF Shape, Types, NoRequest
  <2> QED BY <2>1 DEF Shape, Table, Entered, Owned, TempFilesOwned
<1> QED BY <1>1, Invariance, PTL
-----------------------------------------------------------------------------
(* A transfer ends once *)

(* A transfer that is not disturbed makes its callback in the pool or, when *)
(* its connection ends, on the microstack thread.                           *)
Once(c) ==
  /\ c \notin stale
  /\ conn[c] = "refused" /\ request[c] # NoRequest =>
       pool[c] = "idle" /\ calls[c] = 0 /\ c \in User3
  /\ pool[c] = "clear" => conn[c] = "answered" /\ c \in User3 /\ calls[c] = 0
  /\ pool[c] = "enter" => c \notin User3 /\ calls[c] = 0
  /\ Ending(c) => pool[c] = "idle" /\ calls[c] = 0
  /\ conn[c] \in {"answered", "closed"} /\ pool[c] = "idle" /\ request[c] # NoRequest =>
       Ending(c) \/ (calls[c] = 1 /\ c \notin User3)

(* Until its callback is made its request is not freed and names it, so     *)
(* that no timer removes it, whatever is created under its name.            *)
Held(c) ==
  \/ c \in User3 /\ conn[c] \in {"body", "paused", "answered"}
  \/ pool[c] = "enter"
  \/ Ending(c) /\ ~locked
Kept(c) == Held(c) => request[c] \notin freed /\ TransferStatus[request[c]] = c

(* No other transfer of its name has a callback to make.                    *)
Live(c) == request[c] # NoRequest /\ (calls[c] = 0 \/ pool[c] # "idle" \/ Ending(c))
Alone(c) ==
  \A d \in Connection \ {c} : Live(c) /\ Live(d) => name[request[c]] # name[request[d]]

Single == \A c \in Connection \ disturbed : Once(c) /\ Kept(c) /\ Alone(c)

LEMMA SingleInit == Init => Single
BY DEF Init, Single, Once, Kept, Held, Alone, Live, Ending

(* A step that only takes callbacks away keeps connections alone.           *)
LEMMA AloneKept ==
  ASSUME Single, disturbed \subseteq disturbed', UNCHANGED <<request, name>>,
         \A d \in Connection : Live(d)' => Live(d)
  PROVE  \A c \in Connection \ disturbed' : Alone(c)'
<1> SUFFICES ASSUME NEW c \in Connection \ disturbed', NEW d \in Connection \ {c},
                    Live(c)', Live(d)'
             PROVE  name[request[c]] # name[request[d]]
  BY DEF Alone
<1> QED BY DEF Single, Alone

LEMMA SingleSilent ==
  ASSUME Shape, Single,
         \/ UNCHANGED vars
         \/ \E n \in Name : CreateObject(n) \/ DestroyObject(n) \/ DestroyTemp(n)
         \/ \E r \in Request : Creates(r)
         \/ \E c \in Connection, n \in Name : OnContentUpload(c, n)
  PROVE  Single'
<1>1. /\ UNCHANGED <<request, name, calls, pool, conn, User3, stale, freed, TransferStatus,
                     disturbed>>
      /\ \/ UNCHANGED <<pc, cur, locked>>
         \/ pc = "ready" /\ pc' \in {"overwrite", "append"}
  <2>1. CASE \E r \in Request : Creates(r)
    <3>1. /\ \E r \in Request : \E step, next : At(r, step, next)
          /\ UNCHANGED <<freed, TransferStatus>>
      BY <2>1 DEF Creates, DeleteMedia, CreateFile, AddEntry, AddTimer, table
    <3> QED BY <3>1 DEF At, requests, transfers, thread, history
  <2> QED BY <2>1 DEF DestroyTemp, CreateObject, DestroyObject, OnContentUpload, Ready, vars, requests,
                      table, transfers, thread, history
<1>2. \A c : Ending(c)' <=> Ending(c)
  BY <1>1 DEF Ending
<1>3. \A c \in Connection : (Live(c)' <=> Live(c)) /\ (Held(c)' <=> Held(c)) /\ (Once(c)' <=> Once(c))
  BY <1>1, <1>2 DEF Live, Held, Once, Ending
<1> QED BY <1>1, <1>3, AloneKept DEF Single, Kept

(* The request a transfer holds is not the one of an entry that is removed  *)
(* or given to another, unless the transfer is the one under way there.     *)
LEMMA HeldIsLive ==
  ASSUME Shape, Single, NEW c \in Connection \ disturbed, Held(c)
  PROVE  calls[c] = 0 /\ Live(c) /\ request[c] \in Request /\ name[request[c]] \in Name
<1>1. calls[c] = 0 /\ request[c] # NoRequest
  BY DEF Shape, Phases, Held, Single, Once
<1> QED BY <1>1, UploadAssumption DEF Shape, Types, Live, Request, NoRequest

LEMMA KeptOfOthers ==
  ASSUME Shape, Single, NEW c \in Connection \ disturbed, NEW n \in Name,
         Held(c)' => Held(c), UNCHANGED <<request, name>>,
         Removes(n), Held(c) => request[c] # UploadRequests[n]
  PROVE  Kept(c)'
<1>1. CASE Held(c)
  <2>1. request[c] \in Request /\ Kept(c)
    BY <1>1, HeldIsLive DEF Single
  <2>2. request[c] \notin freed' /\ TransferStatus'[request[c]] = TransferStatus[request[c]]
    BY <1>1, <2>1 DEF Removes, RemoveEntry, Kept, Shape, Types
  <2> QED BY <1>1, <2>1, <2>2 DEF Kept
<1>2. CASE ~Held(c)
  BY <1>2 DEF Kept
<1> QED BY <1>1, <1>2

LEMMA SingleExpired ==
  ASSUME Shape, Single, NEW r \in Request, Expired(r)
  PROVE  Single'
<1>1. /\ UNCHANGED <<request, name, calls, pool, conn, User3, stale, pc, cur, locked, disturbed>>
      /\ name[r] \in Name
  BY DEF Expired, requests, transfers, thread, history, Shape, Types
<1>2. \A c \in Connection : (Live(c)' <=> Live(c)) /\ (Held(c)' <=> Held(c))
                            /\ (Once(c)' <=> Once(c))
  BY <1>1 DEF Live, Held, Once, Ending
<1>3. ASSUME NEW c \in Connection \ disturbed
      PROVE  Kept(c)'
  <2>1. CASE NotStarted(name[r])
    <3>1. Removes(name[r])
      BY <2>1 DEF Expired, Removes, NotStarted
    <3>2. Held(c) => request[c] # UploadRequests[name[r]]
      BY <2>1, UploadAssumption DEF NotStarted, Single, Kept
    <3> QED BY <1>1, <1>2, <3>1, <3>2, KeptOfOthers
  <2>2. CASE ~NotStarted(name[r])
    BY <1>1, <1>2, <2>2 DEF Expired, table, Single, Kept
  <2> QED BY <2>1, <2>2
<1> QED BY <1>1, <1>2, <1>3, AloneKept DEF Single

(* Whoever has a callback to make for the name of a POST is disturbed by    *)
(* it, and so is the POST.                                                  *)
LEMMA SinglePosts ==
  ASSUME Shape, Single, NEW c \in Connection, Posts(c)
  PROVE  Single'
<1> DEFINE n == name[entry]
<1>0. /\ conn[c] = "new" /\ request[c] = NoRequest /\ pc \in {"overwrite", "append"} /\ cur = c
      /\ pool[c] = "idle" /\ calls[c] = 0 /\ c \notin User3 /\ c \notin stale
      /\ entry \in Request /\ entry # NoRequest /\ entry \notin freed
      /\ \A d \in Connection : ~Ending(d)
  BY Ways, Found DEF Shape, Phases, Ending
<1>1. /\ \/ TransferStatus' = TransferStatus
         \/ TransferStatus' = [TransferStatus EXCEPT ![entry] = NoConnection]
         \/ TransferStatus' = [TransferStatus EXCEPT ![entry] = c]
      /\ \/ Register(c) /\ Bodied(c) /\ TransferStatus' = [TransferStatus EXCEPT ![entry] = c]
         \/ Register(c) /\ Denied(c)
         \/ /\ conn' = [conn EXCEPT ![c] = "refused"] /\ pc' = "ready"
            /\ UNCHANGED <<name, freed, User3, request, pool, calls, stale>>
            /\ disturbed' = disturbed \cup Under(n)
  BY Ways
<1>2. /\ UNCHANGED <<name, freed, calls, stale>>
      /\ disturbed \subseteq disturbed' /\ Under(n) \subseteq disturbed'
  BY <1>0, <1>1, Bound
<1>3. ASSUME NEW d \in Connection \ {c}
      PROVE  /\ conn'[d] = conn[d] /\ pool'[d] = pool[d] /\ request'[d] = request[d]
             /\ d \in User3' <=> d \in User3
             /\ ~Ending(d) /\ ~Ending(d)'
  <2>1. CASE Register(c) /\ (Bodied(c) \/ Denied(c))
    BY <1>0, <2>1, Bound DEF Bodied, Denied, Ending, Shape, Types
  <2>2. CASE conn' = [conn EXCEPT ![c] = "refused"] /\ pc' = "ready" /\ UNCHANGED <<User3, request, pool>>
    BY <1>0, <2>2 DEF Ending, Shape, Types
  <2> QED BY <1>1, <2>1, <2>2
<1>4. \A d \in Connection \ {c} :
        (Live(d)' <=> Live(d)) /\ (Held(d)' <=> Held(d)) /\ (Once(d)' <=> Once(d))
  BY <1>2, <1>3 DEF Live, Held, Once
<1>5. ASSUME NEW d \in Connection \ {c}, Live(d), d \notin disturbed'
      PROVE  name[request[d]] # n
  BY <1>2, <1>3, <1>5 DEF Live, Under
<1>6. ASSUME NEW d \in Connection \ {c}, d \notin disturbed'
      PROVE  Once(d)' /\ Kept(d)'
  <2>1. Once(d) /\ Kept(d) /\ d \notin disturbed
    BY <1>2, <1>6 DEF Single
  <2>2. Held(d) => request[d] # entry /\ request[d] \in Request
    BY <1>5, <1>6, <2>1, HeldIsLive
  <2>3. Held(d) => TransferStatus'[request[d]] = TransferStatus[request[d]]
    BY <1>1, <2>2 DEF Shape, Types
  <2> QED BY <1>2, <1>3, <1>4, <2>1, <2>3 DEF Kept
<1>7. CASE /\ conn' = [conn EXCEPT ![c] = "refused"] /\ pc' = "ready"
           /\ UNCHANGED <<name, freed, User3, request, pool, calls, stale>>
  <2>1. Once(c)' /\ Kept(c)' /\ ~Live(c)'
    BY <1>0, <1>7 DEF Once, Kept, Held, Live, Ending, Shape, Types
  <2>2. \A d \in Connection : Live(d)' => Live(d)
    BY <1>4, <2>1
  <2> QED BY <1>2, <1>6, <1>7, <2>1, <2>2, AloneKept DEF Single
<1>8. CASE Register(c) /\ (Bodied(c) \/ Denied(c))
  <2>1. /\ request'[c] = entry /\ c \in User3'
        /\ c \in disturbed' => c \in disturbed \/ Under(n) # {}
    BY <1>0, <1>8, Bound
  <2>4. Once(c)' /\ Kept(c)'
    <3>1. CASE Bodied(c)
      <4>1. /\ TransferStatus' = [TransferStatus EXCEPT ![entry] = c]
            /\ conn'[c] \in {"body", "paused"} /\ pool'[c] \in {"idle", "write"} /\ ~Ending(c)'
        BY <1>0, <1>1, <3>1 DEF Bodied, Denied, Ending, Shape, Types
      <4>2. TransferStatus'[request'[c]] = c
        BY <1>0, <2>1, <4>1 DEF Shape, Types
      <4> QED BY <1>0, <1>2, <2>1, <4>1, <4>2 DEF Once, Kept
    <3>2. CASE Denied(c)
      <4>1. /\ pool'[c] = "idle"
            /\ \/ conn'[c] = "refused" /\ ~Ending(c)'
               \/ conn'[c] = "closed" /\ Ending(c)' /\ locked'
        BY <1>0, <3>2 DEF Denied, Ending, Shape, Types
      <4> QED BY <1>0, <1>2, <2>1, <4>1 DEF Once, Kept, Held
    <3> QED BY <1>8, <3>1, <3>2
  <2>5. ASSUME NEW d \in Connection \ {c}, Live(d)', name[request'[d]] = n
        PROVE  d \in disturbed'
    BY <1>2, <1>3, <1>4, <1>5, <2>5
  <2>6. ASSUME NEW d \in Connection \ {c}, Live(d)', name[request'[d]] = n
        PROVE  c \in disturbed'
    <3>1. d \in Under(n)
      BY <1>3, <1>4, <2>6 DEF Live, Under
    <3> QED BY <1>8, <3>1 DEF Register
  <2>7. ASSUME NEW d \in Connection \ disturbed'
        PROVE  Alone(d)'
    <3>1. CASE d = c
      BY <1>2, <2>1, <2>6, <2>7, <3>1 DEF Alone
    <3>2. CASE d # c
      <4> SUFFICES ASSUME NEW e \in Connection \ {d}, Live(d)', Live(e)'
                   PROVE  name[request'[d]] # name[request'[e]]
        BY <1>2 DEF Alone
      <4>1. CASE e = c
        BY <1>2, <2>1, <2>5, <2>7, <3>2, <4>1
      <4>2. CASE e # c
        BY <1>2, <1>3, <1>4, <2>7, <3>2, <4>2 DEF Single, Alone
      <4> QED BY <4>1, <4>2
    <3> QED BY <3>1, <3>2
  <2> QED BY <1>6, <2>4, <2>7 DEF Single
<1> QED BY <1>1, <1>7, <1>8

LEMMA SingleMoves ==
  ASSUME Shape, Single, NEW c \in Connection,
         Receive(c) \/ Disconnect(c) \/ Write(c) \/ SendOK(c) \/ Clear(c)
  PROVE  Single'
<1> USE DEF Receive, Disconnect, Write, SendOK, Clear, Goes, files, requests, table,
            transfers, thread, history
<1>1. /\ UNCHANGED <<request, name, calls, freed, TransferStatus, stale, locked>>
      /\ disturbed \subseteq disturbed'
      /\ \A d \in Connection \ {c} :
           /\ conn'[d] = conn[d] /\ pool'[d] = pool[d]
           /\ d \in User3' <=> d \in User3
           /\ Ending(d)' <=> Ending(d)
  BY DEF Shape, Types, Ending, Ready
<1>2. \A d \in Connection \ {c} :
        (Live(d)' <=> Live(d)) /\ (Held(d)' <=> Held(d)) /\ (Once(d)' <=> Once(d))
  BY <1>1 DEF Live, Held, Once
<1>3. Live(c)' => Live(c)
  BY DEF Live, Ending, Ready, Shape, Types, Phases
<1>4. ASSUME c \notin disturbed'
      PROVE  Once(c)' /\ (Held(c)' => Held(c))
  <2>1. Once(c) /\ Kept(c)
    BY <1>1, <1>4 DEF Single
  <2>3. CASE Receive(c)
    <3>1. /\ request[c] # NoRequest /\ calls[c] = 0 /\ c \in User3 /\ ~Ending(c)
      BY <2>3 DEF Shape, Phases
    <3>2. conn'[c] = "paused" /\ pool'[c] = "write"
      BY <2>3 DEF Shape, Types
    <3>3. UNCHANGED <<pc, cur>>
      BY <2>3
    <3>4. Once(c)'
      BY <1>1, <2>1, <3>1, <3>2, <3>3 DEF Once, Ending
    <3> QED BY <2>3, <3>1, <3>4 DEF Held
  <2>4. CASE Disconnect(c)
    <3>1. /\ conn'[c] = "closed" /\ pc = "ready" /\ ~Ending(c)
          /\ UNCHANGED <<pool, User3>>
      BY <2>4 DEF Shape, Types, Ending, Ready
    <3>2. CASE c \in User3
      <4>1. conn[c] # "refused" /\ pool[c] # "clear"
        BY <1>4, <2>4, <3>2
      <4>2. conn[c] = "body" /\ pool[c] = "idle" /\ calls[c] = 0 /\ Ending(c)'
        BY <2>1, <2>4, <3>1, <3>2, <4>1 DEF Once, Ending, Shape, Types, Phases
      <4> QED BY <1>1, <2>1, <3>1, <3>2, <4>2 DEF Once, Held
    <3>3. CASE c \notin User3
      <4>1. ~Ending(c)'
        BY <2>4, <3>1, <3>3 DEF Ending
      <4>2. conn[c] = "answered" \/ request[c] = NoRequest
        BY <2>1, <2>4, <3>3 DEF Once, Shape, Phases
      <4>3. Once(c)'
        BY <1>1, <2>1, <3>1, <3>3, <4>1, <4>2 DEF Once, Shape, Phases
      <4> QED BY <3>1, <3>3, <4>1, <4>3 DEF Held
    <3> QED BY <3>2, <3>3
  <2>5. CASE Write(c) \/ SendOK(c)
    <3>1. /\ request[c] # NoRequest /\ calls[c] = 0 /\ c \in User3 /\ ~Ending(c)
          /\ conn[c] = "paused"
      BY <2>5 DEF Shape, Phases
    <3>2. \/ conn'[c] = "paused" /\ pool'[c] = "send"
          \/ conn'[c] = "body" /\ pool'[c] = "idle"
          \/ conn'[c] = "answered" /\ pool'[c] = "clear"
      BY <2>5, <3>1 DEF Shape, Types
    <3>3. UNCHANGED <<pc, cur, User3>>
      BY <2>5
    <3>4. Once(c)'
      BY <1>1, <2>1, <3>1, <3>2, <3>3 DEF Once, Ending
    <3> QED BY <3>1, <3>4 DEF Held
  <2>6. CASE Clear(c)
    <3>1. /\ pool[c] = "clear" /\ conn[c] = "answered" /\ c \in User3 /\ calls[c] = 0
          /\ pool'[c] = "enter" /\ User3' = User3 \ {c} /\ UNCHANGED <<pc, cur, conn>>
      BY <2>1, <2>6 DEF Once, Shape, Types
    <3>2. ~Ending(c) /\ ~Ending(c)'
      BY <3>1 DEF Ending, Shape, Phases
    <3> QED BY <1>1, <2>1, <3>1, <3>2 DEF Once, Held
  <2> QED BY <2>3, <2>4, <2>5, <2>6
<1>5. ASSUME NEW d \in Connection \ disturbed'
      PROVE  Once(d)' /\ Kept(d)'
  BY <1>1, <1>2, <1>4, <1>5 DEF Single, Kept
<1> QED BY <1>1, <1>2, <1>3, <1>5, AloneKept DEF Single

LEMMA SingleDone ==
  ASSUME Shape, Single, AbortDone \/ \E c \in Connection : DoneDone(c)
  PROVE  Single'
<1> PICK c \in Connection, e \in {"none", "aborted"} :
      /\ OnContentUploadDone(c, e) /\ UNCHANGED locked
      /\ \/ e = "none" /\ pool[c] = "enter" /\ Goes(c, "idle") /\ UNCHANGED <<User3, pc, cur>>
         \/ /\ e = "aborted" /\ pc = "enter" /\ cur = c /\ User3' = User3 \ {c} /\ pc' = "ready"
            /\ UNCHANGED pool
  BY DEF AbortDone, DoneDone, thread, Shape, Types
<1>1. request[c] # NoRequest /\ Live(c) /\ Held(c) /\ name[request[c]] \in Name
  BY Callback DEF Shape, Phases, Live, Held, Ending, OnContentUploadDone
<1>2. /\ calls' = [calls EXCEPT ![c] = @ + 1]
      /\ UNCHANGED <<name, request, conn, disturbed>>
      /\ stale' = stale \cup (IF request[c] \in freed THEN {c} ELSE {})
      /\ \A d \in Connection \ {c} :
           /\ pool'[d] = pool[d] /\ calls'[d] = calls[d]
           /\ d \in User3' <=> d \in User3
           /\ Ending(d)' <=> Ending(d)
  BY DEF OnContentUploadDone, requests, Goes, Shape, Types, Ending
<1>3. \A d \in Connection \ {c} :
        (Live(d)' <=> Live(d)) /\ (Held(d)' <=> Held(d)) /\ (Once(d)' <=> Once(d))
  BY <1>2 DEF Live, Held, Once
<1>4. Live(c)' => Live(c)
  BY <1>1
<1>5. ASSUME c \notin disturbed PROVE Once(c)' /\ ~Held(c)'
  <2>1. Once(c) /\ request[c] \notin freed
    BY <1>1, <1>5 DEF Single, Kept
  <2>2. calls[c] = 0 /\ calls'[c] = 1 /\ c \notin stale'
    BY <1>2, <2>1 DEF Once, Ending, Shape, Types
  <2>3. pool'[c] = "idle" /\ c \notin User3' /\ ~Ending(c)'
    BY <2>1 DEF Once, Goes, Ending, Shape, Types
  <2>4. conn[c] \in {"answered", "closed"}
    BY DEF Shape, Phases, Ending
  <2> QED BY <1>2, <2>2, <2>3, <2>4 DEF Once, Held
<1>7. ASSUME NEW d \in Connection \ disturbed
      PROVE  Kept(d)'
  <2>0. CASE d = c
    BY <1>5, <1>7, <2>0 DEF Kept
  <2>1. CASE d # c /\ Removes(name[request[c]])
    <3>1. Held(d) => Live(d)
      BY <1>7, HeldIsLive
    <3>2. Held(d) => name[request[d]] # name[request[c]]
      BY <1>1, <1>7, <2>1, <3>1 DEF Single, Alone
    <3>3. name[UploadRequests[name[request[c]]]] = name[request[c]]
      BY <1>1, <2>1 DEF Removes, Shape, Table, Entered
    <3>4. Held(d) => request[d] # UploadRequests[name[request[c]]]
      BY <3>2, <3>3
    <3>5. Held(d)' => Held(d)
      BY <1>3, <2>1
    <3> QED BY <1>1, <1>2, <1>7, <2>1, <3>4, <3>5, KeptOfOthers
  <2>2. CASE d # c /\ UNCHANGED <<table, temp>>
    BY <1>2, <1>3, <1>7, <2>2 DEF Single, Kept, table
  <2> QED BY <1>1, <2>0, <2>1, <2>2, Callback
<1>8. \A d \in Connection \ disturbed : Once(d)'
  BY <1>2, <1>3, <1>5 DEF Single
<1> QED BY <1>2, <1>3, <1>4, <1>7, <1>8, AloneKept DEF Single

LEMMA SingleStep ==
  ASSUME Shape, Single, [Next]_vars
  PROVE  Single'
BY SingleSilent, SingleExpired, SinglePosts, SingleMoves, SingleDone DEF Next, Saves

(* A transfer makes its callback once, with a request that is not freed,    *)
(* and its data is destroyed once, whether DH_Pool_SavePostToLocalFile or   *)
(* DHS_OnDisconnect ends it and whatever other threads create or destroy    *)
(* under its name.                                                          *)
THEOREM TransfersEnd == Spec => []TransfersEndOnce
<1>1. Shape /\ Single => TransfersEndOnce
  <2> SUFFICES ASSUME Shape, Single, NEW c \in Connection \ disturbed
               PROVE  /\ calls[c] <= 1 /\ c \notin stale
                      /\ conn[c] = "closed" /\ Ready /\ pool[c] = "idle" /\ request[c] # NoRequest =>
                           calls[c] = 1 /\ c \notin User3
    BY DEF TransfersEndOnce
  <2>1. Once(c)
    BY DEF Single
  <2>2. CASE request[c] = NoRequest
    BY <2>1, <2>2 DEF Once, Shape, Phases
  <2>3. CASE request[c] # NoRequest
    BY <2>1, <2>3 DEF Once, Shape, Types, Phases, Ready, Ending
  <2> QED BY <2>2, <2>3
<1>2. Shape /\ Single /\ [Next]_vars => Single'
  BY SingleStep
<1> QED BY <1>1, <1>2, SingleInit, Invariance, PTL DEF Spec
-----------------------------------------------------------------------------
(* What is published is whole *)

(* A file carries who made it, a request or, in place of one that was       *)
(* deleted, a transfer, and with that the name it was made under.           *)
NameOf(f) == IF f.by \in Request THEN name[f.by] ELSE name[request[f.by]]
Making(r) == create[r] \in {"delete", "open"}
IsMade(f) ==
  \/ f.by \in 1 .. made /\ ~Making(f.by)
  \/ f.by \in Connection /\ request[f.by] # NoRequest

TempNamed == \A n \in Name : temp[n] # NoFile => IsMade(temp[n]) /\ NameOf(temp[n]) = n

FileNamed ==
  \A c \in Connection : file[c] # NoFile =>
    IsMade(file[c]) /\ request[c] # NoRequest /\ NameOf(file[c]) = name[request[c]]

(* Once the pool has written the last part of a body the file it writes to  *)
(* is whole, if nobody has emptied it since the first.                      *)
Saving(c) == pool[c] \in {"send", "clear", "enter"} => size[file[c]] = "whole"

Files == TempNamed /\ FileNamed /\ \A c \in Connection \ (disturbed \cup cut) : Saving(c)

LEMMA FilesInit == Init => Files
BY DEF Init, Files, TempNamed, FileNamed, Saving

(* A file keeps the name it was made under.                                 *)
LEMMA NamesStay ==
  ASSUME Shape, name' = name, made' \in Nat, made <= made',
         \A r \in 1 .. made : Making(r)' => Making(r),
         \A c \in Connection : request[c] # NoRequest => request'[c] = request[c]
  PROVE  \A f \in File : IsMade(f) => IsMade(f)' /\ NameOf(f)' = NameOf(f)
<1> SUFFICES ASSUME NEW f \in File, IsMade(f)
             PROVE  IsMade(f)' /\ NameOf(f)' = NameOf(f)
  OBVIOUS
<1>1. CASE f.by \in 1 .. made /\ ~Making(f.by)
  <2>1. f.by \in Request /\ f.by \in 1 .. made'
    BY <1>1, UploadAssumption DEF Shape, Types, Request
  <2>2. ~Making(f.by)'
    BY <1>1
  <2> QED BY <2>1, <2>2 DEF IsMade, NameOf
<1>2. CASE f.by \in Connection /\ request[f.by] # NoRequest
  BY <1>2, UploadAssumption DEF IsMade, NameOf
<1> QED BY <1>1, <1>2 DEF IsMade

(* A step that only deletes files and gives transfers up.                   *)
LEMMA NamedKept ==
  ASSUME Shape, Files, UNCHANGED <<name, made, request>>,
         \A r \in 1 .. made : Making(r)' => Making(r),
         \A n \in Name : temp'[n] \in {NoFile, temp[n]},
         \A c \in Connection : file'[c] \in {NoFile, file[c]}
  PROVE  TempNamed' /\ FileNamed'
<1>1. \A f \in File : IsMade(f) => IsMade(f)' /\ NameOf(f)' = NameOf(f)
  BY NamesStay DEF Shape, Types
<1>2. TempNamed'
  BY <1>1 DEF Shape, Types, Files, TempNamed
<1>3. FileNamed'
  BY <1>1 DEF Shape, Types, Files, FileNamed
<1> QED BY <1>2, <1>3

(* Who has a file open that is emptied has lost something or wrote nothing. *)
LEMMA SavingOverwritten ==
  ASSUME Shape, Files, NEW n \in Name, NEW f \in File, f # NoFile, ~IsMade(f), Overwrite(n, f),
         NEW c \in Connection \ (disturbed \cup cut'), pool[c] \in {"send", "clear", "enter"}
  PROVE  size'[file[c]] = "whole"
<1>1. /\ temp'[n] = IF temp[n] = NoFile THEN f ELSE temp[n]
      /\ temp'[n] # NoFile /\ size' = [size EXCEPT ![temp'[n]] = "empty"]
      /\ cut \subseteq cut'
      /\ file[c] = temp[n] => Empty(n)
  BY Opened
<1>2. size[file[c]] = "whole" /\ file[c] \in File \cup {NoFile}
  BY <1>1 DEF Files, Saving, Shape, Types
<1>3. file[c] # temp[n]
  BY <1>1, <1>2 DEF Empty
<1>4. file[c] # f
  BY DEF Files, FileNamed
<1> QED BY <1>1, <1>2, <1>3, <1>4 DEF Shape, Types

LEMMA FilesSilent ==
  ASSUME Shape, Files,
         \/ UNCHANGED vars
         \/ \E n \in Name : DestroyObject(n) \/ DestroyTemp(n)
         \/ \E r \in Request : Expired(r) \/ DeleteMedia(r) \/ AddEntry(r) \/ AddTimer(r)
         \/ \E c \in Connection, n \in Name : OnContentUpload(c, n)
  PROVE  Files'
<1> USE DEF files, requests, table, actions, transfers, thread, history
<1>1. /\ UNCHANGED <<name, made, request, file, pool, size, cut, disturbed>>
      /\ \A n \in Name : temp'[n] \in {NoFile, temp[n]}
  BY DEF At, DeleteMedia, AddEntry, AddTimer, DestroyTemp, DestroyObject, Expired, OnContentUpload,
         vars, Shape, Types
<1>2. \A r \in 1 .. made : Making(r)' => Making(r)
  <2>1. CASE \E r \in Request : DeleteMedia(r) \/ AddEntry(r) \/ AddTimer(r)
    <3>1. PICK r \in Request : DeleteMedia(r) \/ AddEntry(r) \/ AddTimer(r)
      BY <2>1
    <3>2. \A q \in 1 .. made : create'[q] = create[q] \/ ~Making(q)' \/ Making(q)
      BY <3>1, UploadAssumption DEF DeleteMedia, AddEntry, AddTimer, At, Making, Shape, Types, Request
    <3> QED BY <3>2 DEF Making
  <2>2. CASE UNCHANGED create
    BY <2>2 DEF Making
  <2> QED BY <2>1, <2>2 DEF DestroyTemp, DestroyObject, Expired, OnContentUpload, vars
<1>3. TempNamed' /\ FileNamed'
  BY <1>1, <1>2, NamedKept
<1> QED BY <1>1, <1>3 DEF Files, Saving

LEMMA FilesAccept ==
  ASSUME Shape, Files, NEW n \in Name, CreateObject(n)
  PROVE  Files'
<1>1. /\ UNCHANGED <<temp, name, request, file, pool, size, cut, disturbed>>
      /\ made' = made + 1 /\ create' = [create EXCEPT ![made + 1] = "delete"]
  BY DEF CreateObject, files, transfers, history
<1>2. \A f \in File : IsMade(f) => IsMade(f)' /\ NameOf(f)' = NameOf(f)
  <2>1. \A r \in 1 .. made : Making(r)' => Making(r)
    BY <1>1, UploadAssumption DEF Making, Shape, Types, Request
  <2> QED BY <1>1, <2>1, NamesStay DEF Shape, Types
<1>3. TempNamed'
  BY <1>1, <1>2 DEF Shape, Types, Files, TempNamed
<1>4. FileNamed'
  BY <1>1, <1>2 DEF Shape, Types, Files, FileNamed
<1> QED BY <1>1, <1>3, <1>4 DEF Files, Saving

(* CreateObject makes its file or empties that of another.                  *)
LEMMA FilesCreate ==
  ASSUME Shape, Files, NEW r \in Request, CreateFile(r)
  PROVE  Files'
<1> DEFINE f == [by |-> r]
<1>1. /\ create[r] = "open" /\ create' = [create EXCEPT ![r] = "add"]
      /\ UNCHANGED <<name, made, request, file, pool, disturbed>> /\ Overwrite(name[r], f)
      /\ name[r] \in Name
  BY DEF CreateFile, At, requests, transfers, history, Shape, Types
<1>2. f \in File /\ f # NoFile /\ r \in 1 .. made
  BY <1>1 DEF File, Created, NoFile, Request, NoRequest, Shape, Table, Creating
<1>3. ~IsMade(f)
  BY <1>1, UploadAssumption DEF IsMade, Making
<1>4. /\ cut \subseteq cut' /\ \A m \in Name \ {name[r]} : temp'[m] = temp[m]
      /\ temp'[name[r]] \in {f, temp[name[r]]}
  BY <1>1, <1>2, Opened
<1>5. /\ \A q \in 1 .. made : Making(q)' => Making(q)
      /\ ~Making(r)'
  BY <1>1, UploadAssumption DEF Making, Shape, Types, Request
<1>6. \A g \in File : IsMade(g) => IsMade(g)' /\ NameOf(g)' = NameOf(g)
  BY <1>1, <1>5, NamesStay DEF Shape, Types
<1>7. IsMade(f)' /\ NameOf(f)' = name[r]
  BY <1>1, <1>2, <1>5 DEF IsMade, NameOf
<1>8. TempNamed'
  BY <1>1, <1>4, <1>6, <1>7 DEF Shape, Types, Files, TempNamed
<1>9. FileNamed'
  BY <1>1, <1>6 DEF Shape, Types, Files, FileNamed
<1>10. \A c \in Connection \ (disturbed \cup cut') : Saving(c)'
  BY <1>1, <1>2, <1>3, SavingOverwritten DEF Saving
<1> QED BY <1>1, <1>8, <1>9, <1>10 DEF Files

LEMMA FilesPosts ==
  ASSUME Shape, Files, NEW c \in Connection, Posts(c)
  PROVE  Files'
<1> DEFINE n == name[entry]
<1>0. /\ cur = c /\ pc \in {"overwrite", "append"} /\ request[c] = NoRequest /\ pool[c] = "idle"
      /\ entry # NoRequest /\ n \in Name
  BY Ways, Found DEF Shape, Phases
<1>1. CASE /\ UNCHANGED <<temp, size, cut, made, name, create, request, file, pool>>
           /\ disturbed' = disturbed \cup Under(n)
  <2>1. \A r \in 1 .. made : Making(r)' => Making(r)
    BY <1>1 DEF Making
  <2>2. TempNamed' /\ FileNamed'
    BY <1>1, <2>1, NamedKept DEF Shape, Types
  <2> QED BY <1>1, <2>2 DEF Files, Saving
<1>2. CASE Register(c) /\ (Bodied(c) \/ Denied(c))
  <2>1. /\ request'[c] = entry /\ \A d \in Connection \ {c} : request'[d] = request[d]
        /\ temp' \in [Name -> File \cup {NoFile}] /\ temp'[n] # NoFile
        /\ \A m \in Name \ {n} : temp'[m] = temp[m]
        /\ temp'[n] \in {temp[n], [by |-> c]}
        /\ cut \subseteq cut' /\ disturbed \subseteq disturbed'
        /\ file' = [file EXCEPT ![c] = temp'[n]]
        /\ UNCHANGED <<made, name, create>>
    BY <1>0, <1>2, Bound
  <2>2. /\ \A d \in Connection \ {c} : file'[d] = file[d] /\ pool'[d] = pool[d]
        /\ file'[c] = temp'[n] /\ pool'[c] \in {"idle", "write"}
    BY <1>0, <1>2, <2>1 DEF Bodied, Denied, Shape, Types
  <2>3. \A f \in File : IsMade(f) => IsMade(f)' /\ NameOf(f)' = NameOf(f)
    <3>1. \A r \in 1 .. made : Making(r)' => Making(r)
      BY <2>1 DEF Making
    <3>2. \A d \in Connection : request[d] # NoRequest => request'[d] = request[d]
      BY <1>0, <2>1
    <3> QED BY <2>1, <3>1, <3>2, NamesStay DEF Shape, Types
  <2>4. IsMade([by |-> c])' /\ NameOf([by |-> c])' = n
    BY <1>0, <2>1, UploadAssumption DEF IsMade, NameOf
  <2>5. TempNamed'
    BY <2>1, <2>3, <2>4 DEF Shape, Types, Files, TempNamed
  <2>6. FileNamed'
    BY <1>0, <2>1, <2>2, <2>3, <2>4, <2>5 DEF Shape, Types, Files, FileNamed, TempNamed
  <2>7. ASSUME NEW d \in Connection \ (disturbed' \cup cut'),
               pool'[d] \in {"send", "clear", "enter"}
        PROVE  size'[file'[d]] = "whole"
    <3>1. d # c /\ pool[d] \in {"send", "clear", "enter"} /\ file'[d] = file[d]
      BY <2>2, <2>7
    <3>2. CASE Overwrite(n, [by |-> c])
      <4>1. [by |-> c] \in File /\ [by |-> c] # NoFile /\ ~IsMade([by |-> c])
        BY <1>0, UploadAssumption DEF File, Posted, NoFile, IsMade, Request, Shape, Types
      <4>2. d \in Connection \ (disturbed \cup cut')
        BY <2>1, <2>7
      <4> HIDE DEF n
      <4>3. size'[file[d]] = "whole"
        BY <1>0, <3>1, <3>2, <4>1, <4>2, SavingOverwritten
      <4> QED BY <3>1, <4>3
    <3>3. CASE UNCHANGED size
      BY <2>1, <2>7, <3>1, <3>3 DEF Files, Saving
    <3> QED BY <1>2, <3>2, <3>3 DEF Register
  <2> QED BY <2>5, <2>6, <2>7 DEF Files, Saving
<1> QED BY <1>1, <1>2, Ways

(* A part that is written is of the only transfer that saves to its file.   *)
LEMMA FilesWrite ==
  ASSUME Shape, Single, Files, NEW c \in Connection, Write(c)
  PROVE  Files'
<1>1. /\ UNCHANGED <<temp, name, made, request, file, create, cut, disturbed>>
      /\ request[c] # NoRequest /\ calls[c] = 0 /\ file[c] # NoFile
      /\ \A d \in Connection : d # c => pool'[d] = pool[d]
      /\ pool'[c] \in {"send", "clear", "enter"} => c \in done
  BY DEF Write, Goes, requests, actions, transfers, history, Shape, Types, Phases
<1>2. TempNamed' /\ FileNamed'
  <2>1. \A r \in 1 .. made : Making(r)' => Making(r)
    BY <1>1 DEF Making
  <2> QED BY <1>1, <2>1, NamedKept
<1>3. size' = [size EXCEPT ![file[c]] = IF c \in done \ cut THEN "whole" ELSE "part"]
  BY DEF Write
<1>4. ASSUME NEW d \in Connection \ (disturbed \cup cut), pool'[d] \in {"send", "clear", "enter"}
      PROVE  size'[file[d]] = "whole"
  <2>1. CASE d = c
    BY <1>1, <1>3, <1>4, <2>1 DEF Shape, Types
  <2>2. CASE d # c /\ file[d] = file[c]
    <3>1. name[request[d]] = name[request[c]] /\ Live(d) /\ Live(c)
      BY <1>1, <1>4, <2>2 DEF Files, FileNamed, Live
    <3> QED BY <1>4, <2>2, <3>1 DEF Single, Alone
  <2>3. CASE d # c /\ file[d] # file[c]
    BY <1>1, <1>3, <1>4, <2>3 DEF Files, Saving, Shape, Types
  <2> QED BY <2>1, <2>2, <2>3
<1> QED BY <1>1, <1>2, <1>4 DEF Files, Saving

LEMMA FilesMoves ==
  ASSUME Shape, Files, NEW c \in Connection,
         Receive(c) \/ Disconnect(c) \/ SendOK(c) \/ Clear(c)
  PROVE  Files'
<1>1. /\ UNCHANGED <<temp, size, cut, name, made, request, file, create>>
      /\ disturbed \subseteq disturbed'
  BY DEF Receive, Disconnect, SendOK, Clear, files, requests, actions, transfers, history
<1>2. TempNamed' /\ FileNamed'
  <2>1. \A r \in 1 .. made : Making(r)' => Making(r)
    BY <1>1 DEF Making
  <2> QED BY <1>1, <2>1, NamedKept
<1>3. \A d \in Connection : pool'[d] \in {"send", "clear", "enter"} =>
        pool[d] \in {"send", "clear", "enter"}
  BY DEF Receive, Disconnect, SendOK, Clear, Goes, Shape, Types
<1> QED BY <1>1, <1>2, <1>3 DEF Files, Saving

LEMMA FilesDone ==
  ASSUME Shape, Single, Files, AbortDone \/ \E c \in Connection : DoneDone(c)
  PROVE  Files'
<1> PICK c \in Connection, e \in {"none", "aborted"} :
      /\ OnContentUploadDone(c, e)
      /\ \/ pool[c] = "enter" /\ Goes(c, "idle")
         \/ Ending(c) /\ UNCHANGED pool
  BY DEF AbortDone, DoneDone, Ending, Shape, Types
<1>1. /\ UNCHANGED <<name, made, size, cut, request, create, disturbed>>
      /\ file' = [file EXCEPT ![c] = NoFile] /\ request[c] # NoRequest
  BY DEF OnContentUploadDone, requests, actions, Shape, Phases
<1>2. \A n \in Name : temp'[n] \in {NoFile, temp[n]}
  <2>1. temp' = temp \/ temp' = [temp EXCEPT ![name[request[c]]] = NoFile]
    BY <1>1, Callback DEF Removes, table
  <2> QED BY <2>1 DEF Shape, Types
<1>3. TempNamed' /\ FileNamed'
  <2>1. \A r \in 1 .. made : Making(r)' => Making(r)
    BY <1>1 DEF Making
  <2> QED BY <1>1, <1>2, <2>1, NamedKept DEF Shape, Types
<1>4. ASSUME NEW d \in Connection \ (disturbed \cup cut)
      PROVE  Saving(d)'
  <2>1. CASE d = c
    <3>1. pool'[c] = "idle"
      BY <1>4, <2>1 DEF Single, Once, Goes, Shape, Types
    <3> QED BY <2>1, <3>1 DEF Saving
  <2>2. CASE d # c
    <3>1. pool'[d] = pool[d] /\ file'[d] = file[d]
      BY <1>1, <2>2 DEF Goes, Shape, Types
    <3> QED BY <1>1, <1>4, <3>1 DEF Files, Saving
  <2> QED BY <2>1, <2>2
<1> QED BY <1>1, <1>3, <1>4 DEF Files

LEMMA FilesStep ==
  ASSUME Shape, Single, Files, [Next]_vars
  PROVE  Files'
BY FilesSilent, FilesAccept, FilesCreate, FilesPosts, FilesWrite, FilesMoves, FilesDone
   DEF Next, Creates, Saves

(* Only the callback of a transfer that went well publishes a file, the     *)
(* temporary one of its name.                                               *)
LEMMA Publishes ==
  ASSUME Shape, Next, NEW n \in Name, media'[n] \notin {NoFile, media[n]}
  PROVE  \E c \in Connection :
           /\ pool[c] = "enter" /\ name[request[c]] = n
           /\ temp[n] # NoFile /\ media'[n] = temp[n]
<1>1. CASE \E c \in Connection : DoneDone(c)
  <2>1. PICK c \in Connection : DoneDone(c)
    BY <1>1
  <2>2. pool[c] = "enter" /\ request[c] # NoRequest /\ name[request[c]] \in Name
    BY <2>1, UploadAssumption DEF DoneDone, Shape, Types, Phases, Request, NoRequest
  <2>3. /\ media' = [media EXCEPT ![name[request[c]]] = temp[name[request[c]]]]
        /\ temp[name[request[c]]] # NoFile
    BY <2>1, <2>2 DEF DoneDone, OnContentUploadDone, Finished, Aborted
  <2> QED BY <2>2, <2>3 DEF Shape, Types
<1>2. CASE \E c \in Connection : Posts(c)
  <2>1. media' = media
    BY <1>2 DEF Posts, Post, NotAcceptable, ExpectationFailed, Conflict, Register, files
  <2> QED BY <2>1
<1>3. CASE ~\E c \in Connection : DoneDone(c) \/ Posts(c)
  <2>1. media' = media \/ \E m \in Name : media' = [media EXCEPT ![m] = NoFile]
    BY <1>3 DEF Next, Creates, Saves, DeleteMedia, CreateFile, AddEntry, AddTimer, DestroyTemp,
                AbortDone, OnContentUploadDone, Aborted, CreateObject, DestroyObject, Expired, Write,
                SendOK, Clear, Receive, Disconnect, OnContentUpload, files, Shape, Types
  <2> QED BY <2>1 DEF Shape, Types
<1> QED BY <1>1, <1>2, <1>3

(* The body of a medium that appears under its name was received as a       *)
(* whole: DH_Pool_SavePostToLocalFile writes the last part before it calls  *)
(* back, and no other transfer writes to the file.  The exceptions are that *)
(* another thread emptied the file or replaced it, and those of             *)
(* TransfersEndOnce.                                                        *)
THEOREM WholeIsPublished == Spec => PublishedWhole
<1>1. ASSUME Shape, Single, Files, Next, NEW n \in Name, media'[n] \notin {NoFile, media[n]},
             ~\E c \in Connection :
                /\ pool[c] = "enter" /\ name[request[c]] = n
                /\ c \in disturbed \cup cut \/ file[c] # temp[n]
      PROVE  size[media'[n]] = "whole"
  <2>1. PICK c \in Connection :
          /\ pool[c] = "enter" /\ name[request[c]] = n
          /\ temp[n] # NoFile /\ media'[n] = temp[n]
    BY <1>1, Publishes
  <2>2. c \notin disturbed \cup cut /\ file[c] = temp[n]
    BY <1>1, <2>1
  <2> QED BY <1>1, <2>1, <2>2 DEF Files, Saving
<1>2. Shape /\ Single /\ Files /\ [Next]_vars =>
        [\A n \in Name :
           media'[n] \notin {NoFile, media[n]} =>
             \/ size[media'[n]] = "whole"
             \/ \E c \in Connection :
                  /\ pool[c] = "enter" /\ name[request[c]] = n
                  /\ c \in disturbed \cup cut \/ file[c] # temp[n]]_vars
  BY <1>1
<1>3. Shape /\ Single /\ [Next]_vars => Single'
  BY SingleStep
<1>4. Shape /\ Single /\ Files /\ [Next]_vars => Files'
  BY FilesStep
<1> QED BY <1>2, <1>3, <1>4, SingleInit, FilesInit, Invariance, PTL DEF Spec, PublishedWhole
-----------------------------------------------------------------------------
(* No upload is forgotten *)

Arrives == \A c \in Connection : request[c] # NoRequest /\ calls[c] = 0 => CallbackToCome(c)

Follower == \A r \in Request : TransferStatus[r] # NoConnection => request[TransferStatus[r]] = r

(* A callback leaves its request in the table only to have it resumed.      *)
Left ==
  \A c \in Connection :
    request[c] # NoRequest /\ calls[c] > 0 /\ InTable(request[c]) => request[c] \in Resumable

Begun ==
  \A r \in Request : InTable(r) =>
    \/ r \in timers \/ create[r] = "time"
    \/ \E c \in Connection : request[c] = r

Fresh == \A r \in Request : Early(r) => \A c \in Connection : request[c] # r

Settling == Arrives /\ Follower /\ Left /\ Begun /\ Fresh

LEMMA SettlingInit == Init => Settling
BY DEF Init, Settling, Arrives, Follower, Left, Begun, Fresh, Early, InTable

LEMMA SettlingSilent ==
  ASSUME Settling, Arrives', \A r \in Request : Early(r)' => Early(r),
         \A r \in Request : create[r] = "time" => create'[r] = "time",
         UNCHANGED <<UploadRequests, made, name, TransferStatus, timers, request, calls>>
  PROVE  Settling'
BY DEF Settling, Follower, Left, Begun, Fresh, InTable

(* With the entry of n goes nothing else.                                   *)
LEMMA SettlingRemoves ==
  ASSUME Shape, Settling, NEW n \in Name, Removes(n), UNCHANGED <<name, made, request>>
  PROVE  /\ \A r \in Request : InTable(r)' => InTable(r) /\ name[r] # n
         /\ Follower'
<1>1. /\ \A m \in Name : UploadRequests'[m] = IF m = n THEN NoRequest ELSE UploadRequests[m]
      /\ name \in [Request -> Name]
      /\ \A r \in Request : TransferStatus'[r] \in {TransferStatus[r], NoConnection}
  BY DEF Removes, RemoveEntry, Shape, Types
<1>2. ASSUME NEW r \in Request, InTable(r)' PROVE InTable(r) /\ name[r] # n
  <2>1. r \in 1 .. made /\ UploadRequests'[name[r]] = r /\ r # NoRequest /\ name[r] \in Name
    BY <1>1, <1>2 DEF InTable, NoRequest
  <2> QED BY <1>1, <2>1 DEF InTable
<1>3. Follower'
  BY <1>1 DEF Settling, Follower
<1> QED BY <1>2, <1>3

LEMMA SettlingAccept ==
  ASSUME Shape, Settling, NEW n \in Name, CreateObject(n)
  PROVE  Settling'
<1>a. /\ name \in [Request -> Name] /\ made \in Nat
      /\ \A c \in Connection : request[c] \in 0 .. made
      /\ \A m \in Name : UploadRequests[m] # NoRequest => UploadRequests[m] \in 1 .. made
      /\ create \in [Request -> {"idle", "delete", "open", "add", "time"}]
  BY UploadAssumption DEF Shape, Types, Table, Entered
<1>1. /\ made' = made + 1 /\ create' = [create EXCEPT ![made + 1] = "delete"]
      /\ UNCHANGED <<UploadRequests, name, TransferStatus, timers, request, calls, conn, User3, pool,
                     pc, cur>>
  BY DEF CreateObject, table, transfers, thread, history
<1>2. Arrives'
  BY <1>1 DEF Settling, Arrives, CallbackToCome
<1>3. \A r \in Request : InTable(r)' => InTable(r) /\ r # made + 1
  <2> SUFFICES ASSUME NEW r \in Request, InTable(r)' PROVE InTable(r) /\ r # made + 1
    OBVIOUS
  <2>1. r \in 1 .. made + 1 /\ UploadRequests[name[r]] = r /\ name[r] \in Name
    BY <1>a, <1>1 DEF InTable
  <2>2. r # NoRequest
    BY <2>1, <1>a DEF NoRequest
  <2> QED BY <1>a, <2>1, <2>2 DEF InTable
<1>4. \A c \in Connection : request[c] # NoRequest => request[c] \in Request
  BY <1>a, UploadAssumption DEF NoRequest, Request, Shape, Types
<1>5. Begun'
  BY <1>a, <1>1, <1>3 DEF Settling, Begun
<1>6. Left' /\ Follower'
  BY <1>1, <1>3, <1>4 DEF Settling, Left, Follower
<1>7. Fresh'
  BY <1>a, <1>1 DEF Settling, Fresh, Early
<1> QED BY <1>2, <1>5, <1>6, <1>7 DEF Settling

LEMMA SettlingCreates ==
  ASSUME Shape, Settling, NEW r \in Request, Creates(r)
  PROVE  Settling'
<1>a. /\ name \in [Request -> Name] /\ made \in Nat /\ r \in 1 .. made
      /\ UploadRequests \in [Name -> Request \cup {NoRequest}]
      /\ create \in [Request -> {"idle", "delete", "open", "add", "time"}]
      /\ \A c \in Connection : request[c] # NoRequest => request[c] \in Request
  BY UploadAssumption DEF Creates, DeleteMedia, CreateFile, AddEntry, AddTimer, At, Shape, Types,
     Table, Creating, NoRequest, Request
<1>b. /\ UNCHANGED <<made, name, TransferStatus, request, calls, conn, User3, pool, pc, cur>>
      /\ \A q \in Request \ {r} : create'[q] = create[q]
  <2>1. UNCHANGED TransferStatus /\ \E step, next : At(r, step, next)
    BY DEF Creates, DeleteMedia, CreateFile, AddEntry, AddTimer, table
  <2> QED BY <1>a, <2>1 DEF At, requests, transfers, thread, history
<1>1. Arrives' /\ Follower'
  BY <1>b DEF Settling, Arrives, CallbackToCome, Follower
<1>2. CASE DeleteMedia(r) \/ CreateFile(r)
  <2>1. /\ Early(r) /\ create[r] # "time" /\ UNCHANGED <<UploadRequests, timers>>
    BY <1>2 DEF DeleteMedia, CreateFile, At, Early, table
  <2>2. \A q \in Request : /\ Early(q)' => Early(q)
                           /\ create[q] = "time" => create'[q] = "time"
    BY <1>b, <2>1 DEF Early
  <2> QED BY <1>b, <1>1, <2>1, <2>2, SettlingSilent
<1>3. CASE AddEntry(r)
  <2>1. /\ Early(r) /\ create'[r] = "time" /\ ~Early(r)' /\ UNCHANGED timers
        /\ UploadRequests' = [UploadRequests EXCEPT ![name[r]] = r]
    BY <1>3, <1>a DEF AddEntry, At, Early
  <2>2. \A q \in Request : InTable(q)' => InTable(q) \/ q = r
    BY <1>a, <1>b, <2>1 DEF InTable
  <2>3. Begun'
    BY <1>b, <2>1, <2>2 DEF Settling, Begun
  <2>4. \A c \in Connection : request[c] # r
    BY <2>1 DEF Settling, Fresh
  <2>5. Left'
    BY <1>a, <1>b, <2>2, <2>4 DEF Settling, Left
  <2>6. Fresh'
    BY <1>b, <2>1 DEF Settling, Fresh, Early
  <2> QED BY <1>1, <2>3, <2>5, <2>6 DEF Settling
<1>4. CASE AddTimer(r)
  <2>1. /\ create'[r] = "idle" /\ UNCHANGED UploadRequests /\ timers \subseteq timers'
        /\ r \in timers' \/ r \in freed
    BY <1>4, <1>a DEF AddTimer, At, table
  <2>2. InTable(r) => r \notin freed
    <3> SUFFICES ASSUME InTable(r) PROVE r \notin freed
      OBVIOUS
    <3>1. UploadRequests[name[r]] = r /\ name[r] \in Name /\ r # NoRequest
      BY <1>a DEF InTable, NoRequest
    <3> QED BY <3>1 DEF Shape, Table, Entered
  <2>3. Begun'
    BY <1>b, <2>1, <2>2 DEF Settling, Begun, InTable
  <2>4. Left' /\ Fresh'
    BY <1>b, <2>1 DEF Settling, Left, Fresh, Early, InTable
  <2> QED BY <1>1, <2>3, <2>4 DEF Settling
<1> QED BY <1>2, <1>3, <1>4 DEF Creates

(* The timer removes the upload unless there is a transfer.                 *)
LEMMA SettlingExpired ==
  ASSUME Shape, Settling, NEW r \in Request, Expired(r)
  PROVE  Settling'
<1>1. /\ timers' = timers \ {r}
      /\ UNCHANGED <<made, name, request, calls, conn, User3, pool, pc, cur, create>>
  BY DEF Expired, requests, actions, transfers, thread, history
<1>2. /\ name[r] \in Name
      /\ \A c \in Connection : request[c] # NoRequest => request[c] \in Request
  BY UploadAssumption DEF Shape, Types, NoRequest, Request
<1>3. Arrives' /\ Fresh'
  BY <1>1 DEF Settling, Arrives, CallbackToCome, Fresh, Early
<1>4. CASE NotStarted(name[r])
  <2>1. Removes(name[r])
    BY <1>4 DEF Expired, Removes, NotStarted
  <2>2. /\ \A q \in Request : InTable(q)' => InTable(q) /\ name[q] # name[r]
        /\ Follower'
    BY <1>1, <1>2, <2>1, SettlingRemoves
  <2>3. Begun'
    BY <1>1, <2>2 DEF Settling, Begun
  <2>4. Left'
    BY <1>1, <1>2, <2>2 DEF Settling, Left
  <2> QED BY <1>3, <2>2, <2>3, <2>4 DEF Settling
<1>5. CASE ~NotStarted(name[r])
  <2>1. UNCHANGED <<UploadRequests, TransferStatus>>
    BY <1>5 DEF Expired, table
  <2>2. InTable(r) => \E c \in Connection : request[c] = r
    <3> SUFFICES ASSUME InTable(r) PROVE \E c \in Connection : request[c] = r
      OBVIOUS
    <3>1. UploadRequests[name[r]] = r /\ r # NoRequest
      BY DEF InTable, NoRequest
    <3>2. TransferStatus[r] # NoConnection
      BY <1>5, <3>1 DEF NotStarted
    <3>3. TransferStatus[r] \in Connection
      BY <3>2 DEF Shape, Types
    <3> QED BY <3>2, <3>3 DEF Settling, Follower
  <2>3. Begun'
    BY <1>1, <2>1, <2>2 DEF Settling, Begun, InTable
  <2>4. Left' /\ Follower'
    BY <1>1, <2>1 DEF Settling, Left, Follower, InTable
  <2> QED BY <1>3, <2>3, <2>4 DEF Settling
<1> QED BY <1>4, <1>5

(* A POST that is not refused at once is bound to the request of its name.  *)
LEMMA SettlingPosts ==
  ASSUME Shape, Settling, NEW c \in Connection, Posts(c)
  PROVE  Settling'
<1>0. /\ conn[c] = "new" /\ request[c] = NoRequest /\ calls[c] = 0 /\ cur = c
      /\ pc \in {"overwrite", "append"} /\ entry \in Request /\ entry # NoRequest
      /\ ~Early(entry) /\ name[entry] \in Name
      /\ TransferStatus \in [Request -> Connection \cup {NoConnection}]
  BY Ways, Found DEF Shape, Types, Table, Creating, Phases
<1>1. CASE /\ conn' = [conn EXCEPT ![c] = "refused"] /\ pc' = "ready"
           /\ UNCHANGED <<made, name, UploadRequests, timers, create, User3, request, pool, calls>>
           /\ \/ TransferStatus' = TransferStatus
              \/ TransferStatus' = [TransferStatus EXCEPT ![entry] = NoConnection]
  <2>1. Arrives'
    <3> SUFFICES ASSUME NEW d \in Connection, request[d] # NoRequest, calls[d] = 0
                 PROVE  CallbackToCome(d)'
      BY <1>1 DEF Arrives
    <3>1. CallbackToCome(d) /\ d # c /\ conn'[d] = conn[d]
      BY <1>0, <1>1 DEF Shape, Types, Settling, Arrives
    <3> QED BY <1>0, <1>1, <3>1 DEF CallbackToCome
  <2>2. Follower'
    BY <1>0, <1>1 DEF Settling, Follower
  <2>3. Left' /\ Begun' /\ Fresh'
    BY <1>1 DEF Settling, Left, Begun, Fresh, Early, InTable
  <2> QED BY <2>1, <2>2, <2>3 DEF Settling
<1>2. CASE Register(c) /\ (Bodied(c) \/ Denied(c))
  <2>1. /\ request'[c] = entry /\ \A d \in Connection \ {c} : request'[d] = request[d]
        /\ User3' = User3 \cup {c}
        /\ UNCHANGED <<made, name, UploadRequests, timers, create, calls>>
    BY <1>0, <1>2, Bound
  <2>2. /\ conn'[c] # "closed" \/ (pc' = "enter" /\ cur' = c)
        /\ \A d \in Connection \ {c} : conn'[d] = conn[d] /\ pool'[d] = pool[d]
    BY <1>2 DEF Bodied, Denied, Shape, Types
  <2>3. Arrives'
    <3> SUFFICES ASSUME NEW d \in Connection, request'[d] # NoRequest, calls'[d] = 0
                 PROVE  CallbackToCome(d)'
      BY DEF Arrives
    <3>1. CASE d = c
      BY <2>1, <2>2, <3>1 DEF CallbackToCome
    <3>2. CASE d # c
      <4>1. CallbackToCome(d)
        BY <2>1, <3>2 DEF Settling, Arrives
      <4> QED BY <1>0, <2>1, <2>2, <3>2, <4>1 DEF CallbackToCome
    <3> QED BY <3>1, <3>2
  <2>4. \A d \in Connection : request[d] # NoRequest => request'[d] = request[d]
    BY <1>0, <2>1
  <2>5. Follower'
    <3> SUFFICES ASSUME NEW r \in Request, TransferStatus'[r] # NoConnection
                 PROVE  request'[TransferStatus'[r]] = r
      BY DEF Follower
    <3>1. \/ TransferStatus' = TransferStatus
          \/ TransferStatus' = [TransferStatus EXCEPT ![entry] = NoConnection]
          \/ TransferStatus' = [TransferStatus EXCEPT ![entry] = c]
      BY Ways
    <3>2. CASE TransferStatus'[r] = TransferStatus[r]
      <4>1. TransferStatus[r] \in Connection /\ request[TransferStatus[r]] = r /\ r # NoRequest
        BY <1>0, <3>2 DEF Settling, Follower, NoRequest, Request
      <4> QED BY <2>4, <3>2, <4>1
    <3>3. CASE TransferStatus'[r] # TransferStatus[r]
      <4>1. r = entry /\ TransferStatus'[r] = c
        BY <1>0, <3>1, <3>3
      <4> QED BY <2>1, <4>1
    <3> QED BY <3>2, <3>3
  <2>6. Left'
    BY <1>0, <2>1 DEF Settling, Left, InTable
  <2>7. Begun'
    <3> SUFFICES ASSUME NEW r \in Request, InTable(r), r \notin timers, create[r] # "time"
                 PROVE  \E d \in Connection : request'[d] = r
      BY <2>1 DEF Begun, InTable
    <3>1. PICK d \in Connection : request[d] = r
      BY DEF Settling, Begun
    <3>2. r # NoRequest
      BY DEF NoRequest, Request
    <3> QED BY <2>4, <3>1, <3>2
  <2>8. Fresh'
    BY <1>0, <2>1 DEF Settling, Fresh, Early
  <2> QED BY <2>3, <2>5, <2>6, <2>7, <2>8 DEF Settling
<1>3. ASSUME NotAcceptable(c)
      PROVE  TransferStatus' = [TransferStatus EXCEPT ![entry] = NoConnection]
  BY <1>3 DEF NotAcceptable, Posting
<1> QED BY <1>1, <1>2, <1>3, Ways

(* The other steps of a connection pass the transfer on.                    *)
LEMMA SettlingMoves ==
  ASSUME Shape, Settling, NEW c \in Connection,
         Receive(c) \/ Disconnect(c) \/ Write(c) \/ SendOK(c) \/ Clear(c)
  PROVE  Settling'
<1>1. UNCHANGED <<UploadRequests, made, name, TransferStatus, timers, request, calls, create>>
  BY DEF Receive, Disconnect, Write, SendOK, Clear, requests, table, actions, transfers, history
<1>2. Arrives'
  <2> SUFFICES ASSUME NEW d \in Connection, request[d] # NoRequest, calls[d] = 0
               PROVE  CallbackToCome(d)'
    BY <1>1 DEF Arrives
  <2>1. CallbackToCome(d)
    BY DEF Settling, Arrives
  <2>a. /\ conn \in [Connection -> {"new", "body", "paused", "refused", "answered", "closed"}]
        /\ pool \in [Connection -> {"idle", "write", "send", "clear", "enter"}]
    BY DEF Shape, Types
  <2>2. CASE Receive(c)
    BY <2>1, <2>2, <2>a DEF Receive, CallbackToCome, thread
  <2>3. CASE Disconnect(c)
    BY <2>1, <2>3, <2>a DEF Disconnect, Ready, CallbackToCome, transfers
  <2>4. CASE Write(c)
    <3>1. c \in User3 /\ User3' = User3
      BY <2>4 DEF Write, Shape, Phases, transfers
    <3> QED BY <2>1, <2>4, <2>a, <3>1 DEF Write, Goes, CallbackToCome, thread
  <2>5. CASE SendOK(c)
    BY <2>1, <2>5, <2>a DEF SendOK, Goes, CallbackToCome, transfers, thread
  <2>6. CASE Clear(c)
    BY <2>1, <2>6, <2>a DEF Clear, Goes, CallbackToCome, thread
  <2> QED BY <2>2, <2>3, <2>4, <2>5, <2>6
<1>3. \A r \in Request : (Early(r)' => Early(r)) /\ (create[r] = "time" => create'[r] = "time")
  BY <1>1 DEF Early
<1> QED BY <1>1, <1>2, <1>3, SettlingSilent

(* The callback takes the request off the table, unless another has its     *)
(* name or the client may resume it.                                        *)
LEMMA SettlingDone ==
  ASSUME Shape, Settling, AbortDone \/ \E c \in Connection : DoneDone(c)
  PROVE  Settling'
<1> PICK c \in Connection, e \in {"none", "aborted"} :
      /\ OnContentUploadDone(c, e)
      /\ \/ e = "none" /\ pool[c] = "enter" /\ Goes(c, "idle") /\ UNCHANGED <<User3, pc, cur>>
         \/ /\ e = "aborted" /\ pc = "enter" /\ cur = c /\ User3' = User3 \ {c} /\ pc' = "ready"
            /\ UNCHANGED pool
  BY DEF AbortDone, DoneDone, thread, Shape, Types
<1>1. /\ calls' = [calls EXCEPT ![c] = @ + 1]
      /\ UNCHANGED <<made, name, timers, create, request, conn>>
  BY DEF OnContentUploadDone, requests, actions
<1>2. request[c] # NoRequest /\ request[c] \in Request /\ name[request[c]] \in Name
  BY UploadAssumption DEF Shape, Types, Phases, Ending, NoRequest, Request
<1>3. calls'[c] > 0 /\ \A d \in Connection \ {c} : calls'[d] = calls[d]
  BY <1>1 DEF Shape, Types
<1>4. Arrives'
  <2> SUFFICES ASSUME NEW d \in Connection, request[d] # NoRequest, calls'[d] = 0
               PROVE  CallbackToCome(d)'
    BY <1>1 DEF Arrives
  <2>1. d # c /\ calls[d] = 0
    BY <1>3
  <2>2. CallbackToCome(d)
    BY <2>1 DEF Settling, Arrives
  <2> QED BY <1>1, <2>1, <2>2 DEF CallbackToCome, Goes, Shape, Types
<1>5. Fresh'
  BY <1>1 DEF Settling, Fresh, Early
<1>6. CASE Removes(name[request[c]])
  <2>1. /\ \A r \in Request : InTable(r)' => InTable(r) /\ name[r] # name[request[c]]
        /\ Follower'
    BY <1>1, <1>2, <1>6, SettlingRemoves
  <2>2. Begun'
    BY <1>1, <2>1 DEF Settling, Begun
  <2>3. Left'
    <3> SUFFICES ASSUME NEW d \in Connection, request[d] # NoRequest, calls'[d] > 0,
                        InTable(request[d])'
                 PROVE  request[d] \in Resumable
      BY <1>1 DEF Left
    <3>1. request[d] \in Request
      BY UploadAssumption DEF Shape, Types, NoRequest, Request
    <3>2. InTable(request[d]) /\ d # c
      BY <1>1, <2>1, <3>1
    <3> QED BY <1>3, <3>2 DEF Settling, Left
  <2> QED BY <1>4, <1>5, <2>1, <2>2, <2>3 DEF Settling
<1>7. CASE ~Removes(name[request[c]])
  <2>1. UNCHANGED <<UploadRequests, TransferStatus>>
    BY <1>2, <1>7, Callback DEF table
  <2>2. InTable(request[c]) => request[c] \in Resumable
    <3> SUFFICES ASSUME InTable(request[c]) PROVE request[c] \in Resumable
      OBVIOUS
    <3>1. UploadRequests[name[request[c]]] = request[c]
      BY DEF InTable
    <3>2. request[c] \notin freed
      BY <1>2, <3>1 DEF Shape, Table, Entered
    <3> QED BY <1>2, <1>7, <3>1, <3>2 DEF OnContentUploadDone, Finished, Aborted, Removes
  <2>3. Left'
    BY <1>1, <1>3, <2>1, <2>2 DEF Settling, Left, InTable
  <2>4. Begun' /\ Follower'
    BY <1>1, <2>1 DEF Settling, Begun, Follower, InTable
  <2> QED BY <1>4, <1>5, <2>3, <2>4 DEF Settling
<1> QED BY <1>6, <1>7

LEMMA SettlingStep ==
  ASSUME Shape, Settling, [Next]_vars
  PROVE  Settling'
<1>1. CASE \/ UNCHANGED vars
           \/ \E n \in Name : DestroyObject(n) \/ DestroyTemp(n)
           \/ \E c \in Connection, n \in Name : OnContentUpload(c, n)
  <2>1. /\ UNCHANGED <<UploadRequests, made, name, TransferStatus, timers, request, calls, create,
                       conn, User3, pool>>
        /\ UNCHANGED <<pc, cur>> \/ pc = "ready"
    BY <1>1 DEF DestroyObject, DestroyTemp, OnContentUpload, Ready, vars, requests, table, actions,
                transfers, thread, history
  <2>2. Arrives'
    BY <2>1 DEF Settling, Arrives, CallbackToCome
  <2>3. \A r \in Request : (Early(r)' => Early(r)) /\ (create[r] = "time" => create'[r] = "time")
    BY <2>1 DEF Early
  <2> QED BY <2>1, <2>2, <2>3, SettlingSilent
<1> QED BY <1>1, SettlingAccept, SettlingCreates, SettlingExpired, SettlingPosts, SettlingMoves,
           SettlingDone DEF Next, Saves

(* No accepted upload is left to itself, even while CreateObject has still  *)
(* to set its timer: not by a timer that comes in the middle of a transfer, *)
(* a POST that is refused, or two transfers of a name, and no transfer      *)
(* loses its callback.                                                      *)
THEOREM NoUploadIsForgotten == Spec => []UploadsAreAwaited
<1>1. Shape /\ Settling => UploadsAreAwaited
  <2> SUFFICES ASSUME Shape, Settling, NEW r \in Request, InTable(r), r \notin timers,
                      create[r] # "time"
               PROVE  \E c \in Connection : request[c] = r /\ (r \in Resumable \/ CallbackToCome(c))
    BY DEF Settling, Arrives, UploadsAreAwaited
  <2>1. PICK c \in Connection : request[c] = r
    BY DEF Settling, Begun
  <2>2. r # NoRequest /\ calls[c] \in Nat
    BY DEF NoRequest, Request, Shape, Types
  <2>3. CASE calls[c] = 0
    BY <2>1, <2>2, <2>3 DEF Settling, Arrives
  <2>4. CASE calls[c] > 0
    BY <2>1, <2>2, <2>4 DEF Settling, Left
  <2> QED BY <2>2, <2>3, <2>4
<1>2. Shape /\ Settling /\ [Next]_vars => (Shape /\ Settling)'
  BY ShapeStep, SettlingStep
<1>3. Init => Shape /\ Settling
  BY ShapeInit, SettlingInit
<1> QED BY <1>1, <1>2, <1>3, PTL DEF Spec
=============================================================================
